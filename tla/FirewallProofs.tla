--------------------------- MODULE FirewallProofs ---------------------------
(***************************************************************************)
(* Proofs about the firewall component: what replaying a script computes,  *)
(* type correctness, and the agreement of script and kernel.               *)
(***************************************************************************)
EXTENDS Firewall, WellFoundedInduction, SequenceTheorems, TLAPS

-----------------------------------------------------------------------------
(* Induction *)

\* Induction on a set G of numbers ("the good ones") up to n, without an operator
\* parameter: a set of counterexamples without a least element is empty.
LEMMA InductionUpTo ==
    ASSUME NEW n \in Nat, NEW G, 0 \in G,
           \A i \in 1..n : i - 1 \in G => i \in G
    PROVE  \A i \in 0..n : i \in G
<1> DEFINE T == {i \in 0..n : i \notin G}
           R == {ss \in Nat \X Nat : ss[1] < ss[2]}
<1>1. SUFFICES ASSUME T # {} PROVE FALSE
  OBVIOUS
<1>2. IsWellFoundedOn(R, Nat)
  BY NatLessThanWellFounded DEF OpToRel
<1>3. PICK m \in T : \A k \in T : <<k, m>> \notin R
  <2>1. T \subseteq Nat
    OBVIOUS
  <2> HIDE DEF R, T
  <2> QED BY <1>1, <1>2, <2>1, WFMin
<1>4. m \in 1..n /\ m - 1 \in 0..n /\ <<m - 1, m>> \in R
  OBVIOUS
<1> QED BY <1>3, <1>4

-----------------------------------------------------------------------------
(* Replay, the recursive definition *)

\* g gives the chain after each prefix of the script s.
IsRun(s, g) ==
    g = [i \in 0..Len(s) |-> IF i = 0 THEN <<>> ELSE Ipfw(g[i - 1], s[i])]

\* A run of s extends to a run of one more line.
LEMMA RunExtends ==
    ASSUME NEW s \in Seq(Body), NEW b \in Body, NEW g, IsRun(s, g)
    PROVE  LET n == Len(s)
               h == [i \in 0..(n + 1) |->
                        IF i = n + 1 THEN Ipfw(g[n], b) ELSE g[i]]
           IN  IsRun(Append(s, b), h)
<1> DEFINE n == Len(s)
           t == Append(s, b)
           h == [i \in 0..(n + 1) |-> IF i = n + 1 THEN Ipfw(g[n], b) ELSE g[i]]
<1>1. /\ n \in Nat /\ Len(t) = n + 1 /\ t[n + 1] = b
      /\ \A i \in 1..n : t[i] = s[i]
  BY AppendProperties
<1>2. \A i \in 0..n : g[i] = IF i = 0 THEN <<>> ELSE Ipfw(g[i - 1], s[i])
  BY DEF IsRun
<1>3. ASSUME NEW i \in 0..(n + 1)
      PROVE  h[i] = IF i = 0 THEN <<>> ELSE Ipfw(h[i - 1], t[i])
  <2>1. CASE i = n + 1
    BY <1>1, <2>1
  <2>2. CASE i # n + 1
    BY <1>1, <1>2, <2>2
  <2> QED BY <2>1, <2>2
<1>4. h = [i \in 0..Len(t) |-> IF i = 0 THEN <<>> ELSE Ipfw(h[i - 1], t[i])]
  <2> DEFINE u == [i \in 0..Len(t) |-> IF i = 0 THEN <<>> ELSE Ipfw(h[i - 1], t[i])]
  <2>1. DOMAIN h = DOMAIN u /\ \A i \in DOMAIN h : h[i] = u[i]
    BY <1>1, <1>3
  <2> QED BY <2>1
<1> QED BY <1>4 DEF IsRun

\* Every script has a run.
LEMMA RunExists == \A s \in Seq(Body) : \E g : IsRun(s, g)
<1> DEFINE G == {n \in Nat : \A s \in Seq(Body) : Len(s) = n => \E g : IsRun(s, g)}
<1>1. 0 \in G
  <2> SUFFICES ASSUME NEW s \in Seq(Body), Len(s) = 0
               PROVE  \E g : IsRun(s, g)
    OBVIOUS
  <2> DEFINE g == [i \in 0..0 |-> <<>>]
  <2>1. g = [i \in 0..Len(s) |-> IF i = 0 THEN <<>> ELSE Ipfw(g[i - 1], s[i])]
    OBVIOUS
  <2> QED BY <2>1 DEF IsRun
<1>2. ASSUME NEW n \in Nat \ {0}, n - 1 \in G
      PROVE  n \in G
  <2> SUFFICES ASSUME NEW s \in Seq(Body), Len(s) = n
               PROVE  \E g : IsRun(s, g)
    OBVIOUS
  <2>1. PICK t \in Seq(Body), b \in Body : s = Append(t, b)
    BY SequenceEmptyOrAppend
  <2>2. Len(t) = n - 1
    BY <2>1, AppendProperties
  <2>3. PICK g : IsRun(t, g)
    BY <1>2, <2>2
  <2> QED BY <2>1, <2>3, RunExtends
<1>3. \A n \in Nat : n \in G
  <2> SUFFICES ASSUME NEW n \in Nat PROVE n \in G
    OBVIOUS
  <2>1. \A i \in 1..n : i - 1 \in G => i \in G
    BY <1>2
  <2> HIDE DEF G
  <2>2. \A i \in 0..n : i \in G
    BY <1>1, <2>1, InductionUpTo
  <2> QED BY <2>2
<1> QED BY <1>3

\* A script has one run only.
LEMMA RunUnique ==
    ASSUME NEW s \in Seq(Body), NEW g, NEW h, IsRun(s, g), IsRun(s, h)
    PROVE  g = h
<1> DEFINE n == Len(s)
           G == {i \in 0..n : g[i] = h[i]}
<1>1. n \in Nat
  OBVIOUS
<1>2. /\ DOMAIN g = 0..n /\ DOMAIN h = 0..n
      /\ g = [i \in 0..n |-> g[i]] /\ h = [i \in 0..n |-> h[i]]
      /\ \A i \in 0..n : g[i] = IF i = 0 THEN <<>> ELSE Ipfw(g[i - 1], s[i])
      /\ \A i \in 0..n : h[i] = IF i = 0 THEN <<>> ELSE Ipfw(h[i - 1], s[i])
  BY DEF IsRun
<1>3. 0 \in G
  BY <1>1, <1>2
<1>4. ASSUME NEW i \in 1..n, i - 1 \in G PROVE i \in G
  <2>1. i \in 0..n /\ i # 0 /\ g[i - 1] = h[i - 1]
    BY <1>1, <1>4
  <2>2. g[i] = Ipfw(g[i - 1], s[i]) /\ h[i] = Ipfw(h[i - 1], s[i])
    BY <1>2, <2>1
  <2> QED BY <2>1, <2>2
<1>5. \A i \in 0..n : i \in G
  <2> HIDE DEF G
  <2> QED BY <1>1, <1>3, <1>4, InductionUpTo
<1> QED BY <1>2, <1>5

\* Replay is the last chain of the run.
LEMMA ReplayIsRun ==
    ASSUME NEW s \in Seq(Body), NEW g, IsRun(s, g)
    PROVE  Replay(s) = g[Len(s)]
<1> DEFINE c == CHOOSE f : IsRun(s, f)
<1>1. IsRun(s, c)
  OBVIOUS
<1>2. c = g
  BY <1>1, RunUnique
<1>3. Replay(s) = c[Len(s)]
  BY DEF Replay, IsRun
<1> QED BY <1>2, <1>3

LEMMA ReplayEmpty == Replay(<<>>) = <<>>
<1> DEFINE g == [i \in 0..0 |-> <<>>]
<1>1. g = [i \in 0..Len(<<>>) |-> IF i = 0 THEN <<>> ELSE Ipfw(g[i - 1], <<>>[i])]
  OBVIOUS
<1>2. IsRun(<<>>, g)
  BY <1>1 DEF IsRun
<1> QED BY <1>2, ReplayIsRun

\* One more line in the script is one more command.
LEMMA ReplayAppend ==
    ASSUME NEW s \in Seq(Body), NEW b \in Body
    PROVE  Replay(Append(s, b)) = Ipfw(Replay(s), b)
<1>1. PICK g : IsRun(s, g)
  BY RunExists
<1> DEFINE n == Len(s)
           h == [i \in 0..(n + 1) |-> IF i = n + 1 THEN Ipfw(g[n], b) ELSE g[i]]
<1>2. IsRun(Append(s, b), h)
  BY <1>1, RunExtends
<1>3. Append(s, b) \in Seq(Body) /\ Len(Append(s, b)) = n + 1 /\ n \in Nat
  BY AppendProperties
<1>4. Replay(Append(s, b)) = h[n + 1]
  <2> HIDE DEF h
  <2> QED BY <1>2, <1>3, ReplayIsRun
<1>5. Replay(s) = g[n]
  BY <1>1, ReplayIsRun
<1> QED BY <1>3, <1>4, <1>5

LEMMA IpfwType ==
    ASSUME NEW c \in Seq(Body), NEW b \in Body
    PROVE  Ipfw(c, b) \in Seq(Body)
BY DEF Ipfw

LEMMA ReplayType == \A s \in Seq(Body) : Replay(s) \in Seq(Body)
<1> SUFFICES ASSUME NEW s \in Seq(Body) PROVE Replay(s) \in Seq(Body)
  OBVIOUS
<1>1. PICK g : IsRun(s, g)
  BY RunExists
<1> DEFINE n == Len(s)
           G == {i \in 0..n : g[i] \in Seq(Body)}
<1>2. n \in Nat /\ \A i \in 1..n : s[i] \in Body
  OBVIOUS
<1>3. \A i \in 0..n : g[i] = IF i = 0 THEN <<>> ELSE Ipfw(g[i - 1], s[i])
  BY <1>1 DEF IsRun
<1>4. 0 \in G
  <2>1. 0 \in 0..n /\ <<>> \in Seq(Body)
    BY <1>2
  <2> QED BY <1>3, <2>1
<1>5. ASSUME NEW i \in 1..n, i - 1 \in G PROVE i \in G
  <2>1. i \in 0..n /\ i # 0 /\ g[i - 1] \in Seq(Body)
    BY <1>2, <1>5
  <2>2. g[i] = Ipfw(g[i - 1], s[i])
    BY <1>3, <2>1
  <2> QED BY <1>2, <2>1, <2>2, IpfwType
<1>6. \A i \in 0..n : i \in G
  <2> HIDE DEF G
  <2> QED BY <1>2, <1>4, <1>5, InductionUpTo
<1>7. g[n] \in Seq(Body)
  BY <1>2, <1>6
<1> QED BY <1>1, <1>7, ReplayIsRun

-----------------------------------------------------------------------------
(* Type correctness *)

LEMMA RewrittenType ==
    ASSUME NEW s \in Seq(Body), NEW k \in DOMAIN s
    PROVE  Rewritten(s, k) \in Seq(Body)
<1>1. Len(s) - 1 \in Nat
  OBVIOUS
<1>2. \A i \in 1..(Len(s) - 1) : Cut[IF i < k THEN s[i] ELSE s[i + 1]] \in Body
  BY BodyAssumption
<1>3. Rewritten(s, k) \in [1..(Len(s) - 1) -> Body]
  BY <1>2 DEF Rewritten
<1> QED BY <1>1, <1>3

LEMMA DivertAfterType ==
    ASSUME NEW s, NEW d \in Devices
    PROVE  DivertAfter(s, d) \in {d, NoDev} /\ DivertAfter(s, d) \in Devices
BY DEF DivertAfter, Devices

LEMMA StartNatdType ==
    ASSUME NEW r \in Devices, NEW d \in Devices
    PROVE  StartNatd(r, d) \subseteq Devices
BY DEF StartNatd, Devices

LEMMA CommandType ==
    ASSUME NEW r \in Form, NEW b \in Command[r]
    PROVE  b \in Body \ Flush
BY FormAssumption

LEMMA FilesType == TypeOK => Defaults \in SavedFiles /\ Settings \in SavedFiles
BY DEF TypeOK, Defaults, Settings, SavedFiles, Devices

LEMMA InsertType ==
    ASSUME TypeOK, NEW r \in Form, InsertRule(r)
    PROVE  rules' \in Seq(Body) /\ chain' \in Seq(Body)
<1>1. PICK b \in Body : rules' = Append(rules, b) /\ chain' = Ipfw(chain, b)
  BY CommandType DEF InsertRule
<1> QED BY <1>1, IpfwType, AppendProperties DEF TypeOK

\* Every step of the firewall keeps the type invariant.
LEMMA TypeStep == TypeOK /\ [Next]_vars => TypeOK'
<1> SUFFICES ASSUME TypeOK, [Next]_vars PROVE TypeOK'
  OBVIOUS
<1> USE DEF TypeOK, Notice
<1>1. ASSUME NEW r \in Form, Filter(r) PROVE TypeOK'
  BY <1>1, InsertType DEF Filter
<1>2. ASSUME NEW r \in Form, Forward(r) PROVE TypeOK'
  BY <1>2, InsertType DEF Forward
<1>3. ASSUME NEW b \in Raw, RawAddRule(b) PROVE TypeOK'
  <2>1. rules' \in Seq(Body)
    BY <1>3, BodyAssumption, AppendProperties DEF RawAddRule
  <2> QED BY <1>3, <2>1, ReplayType DEF RawAddRule, FlushAndRun, Devices
<1>4. ASSUME NEW k \in DOMAIN rules, DropRule(k) PROVE TypeOK'
  <2>1. rules' \in Seq(Body)
    BY <1>4, RewrittenType DEF DropRule
  <2> QED BY <1>4, <2>1, ReplayType DEF DropRule, FlushAndRun, Devices
<1>5. ASSUME AfmFlush PROVE TypeOK'
  <2>1. rules' = <<>> /\ chain' = <<>> /\ divert' = NoDev
    BY <1>5, ReplayEmpty DEF AfmFlush, FlushAndRun
  <2>2. <<>> \in Seq(Body)
    OBVIOUS
  <2> QED BY <1>5, <2>1, <2>2 DEF AfmFlush, Devices
<1>6. ASSUME AfmSave \/ NoExternal PROVE TypeOK'
  BY <1>6 DEF AfmSave, NoExternal
<1>7. ASSUME EnableNat PROVE TypeOK'
  BY <1>7, ReplayType, DivertAfterType, StartNatdType DEF EnableNat, Ruleset
<1>8. ASSUME DisableNat PROVE TypeOK'
  BY <1>8, ReplayType, DivertAfterType DEF DisableNat, Ruleset, Devices
<1>9. ASSUME BasicFirewall PROVE TypeOK'
  <2>1. rules' \in Seq(Body) /\ chain' \in Seq(Body)
    BY <1>9, ReplayType, BodyAssumption DEF BasicFirewall, Ruleset
  <2>2. saved' \in SavedFiles
    BY <1>9, BodyAssumption DEF BasicFirewall, SavedFiles
  <2> QED BY <1>9, <2>1, <2>2, DivertAfterType, StartNatdType 
          DEF BasicFirewall, Ruleset
<1>10. ASSUME NEW d \in Devices, ConfigureDevice(d) PROVE TypeOK'
  BY <1>10 DEF ConfigureDevice
<1>11. ASSUME Save PROVE TypeOK'
  BY <1>11, FilesType DEF Save
<1>12. ASSUME NEW files \in {saved, Defaults}, Boot(files) PROVE TypeOK'
  <2>1. /\ files \in SavedFiles
        /\ files.rules \in Seq(Body) /\ files.nat \in Devices 
        /\ files.ext \in Devices
    BY <1>12, FilesType DEF SavedFiles
  <2>2. NoDev \in Devices
    BY DEF Devices
  <2> QED BY <1>12, <2>1, <2>2, ReplayType, DivertAfterType, StartNatdType 
          DEF Boot, Ruleset
<1>13. CASE UNCHANGED vars
  BY <1>13 DEF vars
<1> QED BY <1>1, <1>2, <1>3, <1>4, <1>5, <1>6, <1>7, <1>8, <1>9, <1>10, <1>11,
           <1>12, <1>13 DEF Next, NatWindow

\* The script, the kernel and the archive hold what they are declared to hold,
\* whatever the operator does with the firewall screens.
THEOREM TypeCorrect == Spec => []TypeOK
<1>1. Init => TypeOK
  BY DEF Init, TypeOK, Notice, Devices, Defaults, SavedFiles
<1> QED BY <1>1, TypeStep, PTL DEF Spec

-----------------------------------------------------------------------------
(* Script, kernel and archive agree *)

\* After "saved" the archive is what /etc holds.
SavedIsCurrent == notice = "saved" => saved = Settings

IInv == TypeOK /\ ChainIsScript /\ DivertNamesNatDevice /\ SavedIsCurrent

LEMMA InsertKeepsChain ==
    ASSUME TypeOK, ChainIsScript, NEW r \in Form, InsertRule(r)
    PROVE  ChainIsScript'
<1>1. PICK b \in Command[r] : rules' = Append(rules, b) /\ chain' = Ipfw(chain, b)
  BY DEF InsertRule
<1> QED BY <1>1, CommandType, ReplayAppend DEF TypeOK, ChainIsScript

LEMMA InvariantStep == IInv /\ [Next]_vars => IInv'
<1> SUFFICES ASSUME IInv, [Next]_vars PROVE IInv'
  OBVIOUS
<1>0. TypeOK /\ TypeOK'
  BY TypeStep DEF IInv
<1> SUFFICES ChainIsScript' /\ DivertNamesNatDevice' /\ SavedIsCurrent'
  BY <1>0 DEF IInv
<1> USE <1>0 DEF IInv, DivertNamesNatDevice, SavedIsCurrent
<1>1. ASSUME NEW r \in Form, Filter(r) PROVE ChainIsScript' /\ DivertNamesNatDevice' /\ SavedIsCurrent'
  <2>1. ChainIsScript'
    BY <1>1, InsertKeepsChain DEF Filter, ChainIsScript
  <2> QED BY <1>1, <2>1 DEF Filter
<1>2. ASSUME NEW r \in Form, Forward(r) PROVE ChainIsScript' /\ DivertNamesNatDevice' /\ SavedIsCurrent'
  <2>1. ChainIsScript'
    BY <1>2, InsertKeepsChain DEF Forward
  <2> QED BY <1>2, <2>1 DEF Forward
<1>3. ASSUME NEW b \in Raw, RawAddRule(b) PROVE ChainIsScript' /\ DivertNamesNatDevice' /\ SavedIsCurrent'
  BY <1>3 DEF RawAddRule, FlushAndRun, ChainIsScript
<1>4. ASSUME NEW k \in DOMAIN rules, DropRule(k) PROVE ChainIsScript' /\ DivertNamesNatDevice' /\ SavedIsCurrent'
  BY <1>4 DEF DropRule, FlushAndRun, ChainIsScript
<1>5. ASSUME AfmFlush PROVE ChainIsScript' /\ DivertNamesNatDevice' /\ SavedIsCurrent'
  BY <1>5 DEF AfmFlush, FlushAndRun, ChainIsScript
<1>6. ASSUME AfmSave \/ NoExternal PROVE ChainIsScript' /\ DivertNamesNatDevice' /\ SavedIsCurrent'
  BY <1>6 DEF AfmSave, NoExternal, ChainIsScript
<1>7. ASSUME EnableNat PROVE ChainIsScript' /\ DivertNamesNatDevice' /\ SavedIsCurrent'
  BY <1>7, DivertAfterType DEF EnableNat, Ruleset, ChainIsScript, TypeOK
<1>8. ASSUME DisableNat PROVE ChainIsScript' /\ DivertNamesNatDevice' /\ SavedIsCurrent'
  BY <1>8, DivertAfterType DEF DisableNat, Ruleset, ChainIsScript, Devices
<1>9. ASSUME BasicFirewall PROVE ChainIsScript' /\ DivertNamesNatDevice' /\ SavedIsCurrent'
  BY <1>9, DivertAfterType DEF BasicFirewall, Ruleset, ChainIsScript, TypeOK
<1>10. ASSUME NEW d \in Devices, ConfigureDevice(d) PROVE ChainIsScript' /\ DivertNamesNatDevice' /\ SavedIsCurrent'
  BY <1>10 DEF ConfigureDevice, ChainIsScript
<1>11. ASSUME Save PROVE ChainIsScript' /\ DivertNamesNatDevice' /\ SavedIsCurrent'
  BY <1>11 DEF Save, ChainIsScript, Settings
<1>12. ASSUME NEW files \in {saved, Defaults}, Boot(files) PROVE ChainIsScript' /\ DivertNamesNatDevice' /\ SavedIsCurrent'
  <2>1. files.nat \in Devices
    BY FilesType DEF TypeOK, SavedFiles
  <2> QED BY <1>12, <2>1, DivertAfterType DEF Boot, Ruleset, ChainIsScript
<1>13. CASE UNCHANGED vars
  BY <1>13 DEF vars, ChainIsScript, Settings
<1> QED BY <1>1, <1>2, <1>3, <1>4, <1>5, <1>6, <1>7, <1>8, <1>9, <1>10, <1>11,
           <1>12, <1>13 DEF Next, NatWindow

LEMMA Invariant == Spec => []IInv
<1>1. Init => IInv
  BY ReplayEmpty DEF Init, IInv, TypeOK, Notice, Devices, Defaults, SavedFiles,
     ChainIsScript, DivertNamesNatDevice, SavedIsCurrent
<1> QED BY <1>1, InvariantStep, PTL DEF Spec

\* The kernel always filters by the rules that the script would install: no
\* sequence of menu entries makes the two differ.
THEOREM ScriptInForce == Spec => []ChainIsScript
BY Invariant, PTL DEF IInv

\* The divert rule in the kernel and /etc/nat never name different devices.
THEOREM DivertAgrees == Spec => []DivertNamesNatDevice
BY Invariant, PTL DEF IInv

\* Enabling or disabling NAT rebuilds the chain and does not change it.
THEOREM NatKeepsRules == Spec => NatLeavesRules
<1>1. IInv /\ [Next]_vars => [NatWindow => chain' = chain /\ rules' = rules]_vars
  BY DEF IInv, ChainIsScript, NatWindow, EnableNat, DisableNat, Ruleset
<1> QED BY <1>1, Invariant, PTL DEF Spec, NatLeavesRules

\* What was saved is what an Import at the next boot puts in force.
THEOREM ImportRestores == Spec => SaveThenImport
<1>1. IInv /\ [Next]_vars => 
        [notice = "saved" /\ Boot(saved) => 
            /\ chain' = chain
            /\ divert' \in {nat, NoDev}
            /\ natd' \in {nat, NoDev}]_vars
  <2> SUFFICES ASSUME IInv, notice = "saved", Boot(saved)
               PROVE  /\ chain' = chain
                      /\ divert' \in {nat, NoDev}
                      /\ natd' \in {nat, NoDev}
    OBVIOUS
  <2>1. saved.rules = rules /\ saved.nat = nat /\ nat \in Devices
    BY DEF IInv, SavedIsCurrent, Settings, TypeOK
  <2> QED BY <2>1, DivertAfterType 
          DEF IInv, ChainIsScript, Boot, Ruleset, StartNatd
<1> QED BY <1>1, Invariant, PTL DEF Spec, SaveThenImport
=============================================================================
