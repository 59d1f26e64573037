-------------------------- MODULE InitProcessProofs -------------------------
(***************************************************************************)
(* Proofs about process 1: with any number of login children and daemons,  *)
(* each server waits for exactly one login child, but for the deaths it    *)
(* mistook for a logout.  The count is inductive together with the types   *)
(* and with what holds before the first fork.                              *)
(***************************************************************************)
EXTENDS InitProcess, FiniteSetTheorems, TLAPS

\* Before its first fork process 1 has no child that could be waiting.
StartsAlone == at["init"] = "start" => at["child"] = "none"

Inv == TypeOK /\ StartsAlone /\ LoginsAccounted

-----------------------------------------------------------------------------
(* Sets of children *)

\* The children of a server are finitely many, and counted by a natural number.
LEMMA ChildrenFinite ==
    ASSUME NEW s
    PROVE  /\ IsFiniteSet(Children(s))
           /\ Cardinality(Children(s)) \in Nat
<1>1. Children(s) \in SUBSET Login
  BY DEF Children
<1> QED BY <1>1, InitAssumption, FS_Subset, FS_CardinalityType

\* A step that neither begins nor ends a login child leaves the sets alone.
LEMMA SameChildren ==
    ASSUME TypeOK, parent' = parent,
           \A l \in Login : state'[l] = "none" <=> state[l] = "none"
    PROVE  \A s \in Server : Children(s)' = Children(s)
BY DEF Children

\* Reaping a login child takes it from the set of its parent.
LEMMA ReapedChildren ==
    ASSUME TypeOK, NEW s \in Server, NEW l \in Children(s),
           state' = [state EXCEPT ![l] = "none"], parent' = parent
    PROVE  /\ Cardinality(Children(s)') = Cardinality(Children(s)) - 1
           /\ \A r \in Server \ {s} : Children(r)' = Children(r)
<1>1. Children(s)' = Children(s) \ {l}
  BY DEF Children, TypeOK
<1>2. Cardinality(Children(s) \ {l}) = Cardinality(Children(s)) - 1
  BY ChildrenFinite, FS_RemoveElement
<1>3. \A r \in Server \ {s} : Children(r)' = Children(r)
  BY DEF Children, TypeOK
<1> QED BY <1>1, <1>2, <1>3

\* Forking a login child adds it to the set of its parent.
LEMMA SpawnedChildren ==
    ASSUME TypeOK, NEW s \in Server, NEW l \in Login, state[l] = "none",
           state' = [state EXCEPT ![l] = "prompt"],
           parent' = [parent EXCEPT ![l] = s]
    PROVE  /\ Cardinality(Children(s)') = Cardinality(Children(s)) + 1
           /\ \A r \in Server \ {s} : Children(r)' = Children(r)
<1>1. Children(s)' = Children(s) \cup {l} /\ l \notin Children(s)
  BY DEF Children, TypeOK
<1>2. Cardinality(Children(s) \cup {l}) = Cardinality(Children(s)) + 1
  BY <1>1, ChildrenFinite, FS_AddElement
<1>3. \A r \in Server \ {s} : Children(r)' = Children(r)
  BY DEF Children, TypeOK
<1> QED BY <1>1, <1>2, <1>3

\* A server that has nobody to account for has no children at all.
LEMMA NoChildren ==
    ASSUME NEW s, Cardinality(Children(s)) = 0
    PROVE  Children(s) = {}
BY ChildrenFinite, FS_EmptySet

\* A server with a child counts at least one.
LEMMA OneChild ==
    ASSUME NEW s, Children(s) # {}
    PROVE  Cardinality(Children(s)) >= 1
BY ChildrenFinite, FS_EmptySet

-----------------------------------------------------------------------------
(* The inductive step *)

LEMMA InitInv == Init => Inv
<1> SUFFICES ASSUME Init PROVE Inv
  OBVIOUS
<1>1. TypeOK
  BY DEF Init, TypeOK, Server, Place
<1>2. \A s \in Server : Children(s) = {}
  BY DEF Init, Children
<1>3. LoginsAccounted
  BY <1>2, FS_EmptySet DEF Init, LoginsAccounted, Server
<1>4. StartsAlone
  BY DEF Init, StartsAlone, Server
<1> QED BY <1>1, <1>3, <1>4 DEF Inv

\* Process 1 leaves its start once, and the child does nothing before that.
LEMMA StepStartsAlone == TypeOK /\ StartsAlone /\ [Next]_vars => StartsAlone'
<1> SUFFICES ASSUME TypeOK, StartsAlone, [Next]_vars,
                    at'["init"] = "start", at["init"] # "start" \/ at' # at
             PROVE  at'["child"] = "none"
  BY DEF StartsAlone
<1>1. CASE Boot
  BY <1>1 DEF Boot, Start, DoRc, RcEnds, TypeOK, StartsAlone, Server
<1>2. ASSUME NEW s \in Server, Config(s) \/ Spawn(s) PROVE at'["child"] = "none"
  BY <1>2 DEF Config, Spawn, TypeOK, StartsAlone, Server
<1>3. ASSUME NEW s \in Server, SpawnFails(s) PROVE at'["child"] = "none"
  <2>1. at[s] = "spawn" /\ at' = [at EXCEPT ![s] = IF s = "init" THEN "ended" ELSE "zombie"]
    BY <1>3 DEF SpawnFails
  <2> QED BY <2>1 DEF TypeOK, StartsAlone, Server
<1>4. ASSUME NEW s \in Server, ReapLogin(s) PROVE at'["child"] = "none"
  BY <1>4 DEF ReapLogin, Waiting, Resume, TypeOK, StartsAlone, Server
<1>5. CASE ReapDaemon
  BY <1>5 DEF ReapDaemon, Waiting, Resume, TypeOK, StartsAlone, Server
<1>6. CASE ReapChild
  BY <1>6 DEF ReapChild, Waiting, Resume, TypeOK, StartsAlone, Server
<1>7. CASE Users \/ UNCHANGED vars
  BY <1>7 DEF Users, LogIn, LogOut, StartDaemon, DaemonDies, vars
<1> QED BY <1>1, <1>2, <1>3, <1>4, <1>5, <1>6, <1>7 DEF Next, Serve, Reap

\* Types and count; one step per action.
LEMMA StepInv == Inv /\ [Next]_vars => Inv'
<1> SUFFICES ASSUME Inv, [Next]_vars
             PROVE  TypeOK' /\ LoginsAccounted'
  BY StepStartsAlone DEF Inv
<1>0. TypeOK /\ LoginsAccounted
  BY DEF Inv
<1>S. \A s \in Server : s = "init" \/ s = "child"
  BY DEF Server
<1>C. \A s \in Server : Cardinality(Children(s)) \in Nat
  BY ChildrenFinite
<1>1. CASE Boot
  <2>1. \A s \in Server : Children(s)' = Children(s)
    BY <1>0, <1>1, SameChildren DEF Boot, Start, DoRc, RcEnds
  <2>2. TypeOK'
    BY <1>0, <1>1 DEF Boot, Start, DoRc, RcEnds, TypeOK, Server, Place
  <2>3. \A s \in Server : (at'[s] = "wait") <=> (at[s] = "wait")
    <3>1. CASE Start
      <4>1. /\ at["init"] = "start"
            /\ \/ at' = [at EXCEPT !["init"] = "rcwait", !["child"] = "rc"]
               \/ at' = [at EXCEPT !["init"] = "ended"]
        BY <3>1 DEF Start
      <4>2. at["child"] = "none"
        BY <4>1 DEF Inv, StartsAlone
      <4> QED BY <1>0, <1>S, <4>1, <4>2 DEF TypeOK, Server
    <3>2. CASE DoRc
      BY <1>0, <1>S, <3>2 DEF DoRc, TypeOK
    <3>3. CASE RcEnds
      BY <1>0, <1>S, <3>3 DEF RcEnds, TypeOK
    <3> QED BY <1>1, <3>1, <3>2, <3>3 DEF Boot
  <2>4. stray' = stray
    BY <1>1 DEF Boot, Start, DoRc, RcEnds
  <2>5. LoginsAccounted'
    BY <1>0, <2>1, <2>3, <2>4 DEF LoginsAccounted
  <2> QED BY <2>2, <2>5
<1>2. ASSUME NEW s \in Server, Config(s) PROVE TypeOK' /\ LoginsAccounted'
  <2>1. \A r \in Server : Children(r)' = Children(r)
    BY <1>0, <1>2, SameChildren DEF Config
  <2>2. daemon' \in [Daemon -> {"none", "running", "zombie"}]
    <3>1. PICK D \in SUBSET {d \in Daemon : daemon[d] = "none"} :
            daemon' = [d \in Daemon |-> IF d \in D THEN "running" ELSE daemon[d]]
      BY <1>2 DEF Config
    <3> QED BY <1>0, <3>1 DEF TypeOK
  <2>3. TypeOK'
    BY <1>0, <1>2, <2>2 DEF Config, TypeOK, Place
  <2>4. \A r \in Server : (at'[r] = "wait") <=> (at[r] = "wait")
    BY <1>0, <1>2 DEF Config, TypeOK
  <2>5. LoginsAccounted'
    BY <1>0, <1>2, <2>1, <2>4 DEF LoginsAccounted, Config
  <2> QED BY <2>3, <2>5
<1>3. ASSUME NEW s \in Server, Spawn(s) PROVE TypeOK' /\ LoginsAccounted'
  <2>1. PICK l \in Login : /\ state[l] = "none"
                           /\ state' = [state EXCEPT ![l] = "prompt"]
                           /\ parent' = [parent EXCEPT ![l] = s]
    BY <1>3 DEF Spawn
  <2>2. at[s] = "spawn" /\ at' = [at EXCEPT ![s] = "wait"] /\ stray' = stray
    BY <1>3 DEF Spawn
  <2>3. TypeOK'
    BY <1>0, <1>3, <2>1, <2>2 DEF Spawn, TypeOK, Place
  <2>4. /\ Cardinality(Children(s)') = Cardinality(Children(s)) + 1
        /\ \A r \in Server \ {s} : Children(r)' = Children(r)
    BY <1>0, <2>1, SpawnedChildren
  <2>5. at'[s] = "wait" /\ \A r \in Server \ {s} : at'[r] = at[r]
    BY <1>0, <2>2 DEF TypeOK
  <2>6. LoginsAccounted'
    BY <1>0, <1>C, <2>2, <2>4, <2>5 DEF LoginsAccounted, TypeOK
  <2> QED BY <2>3, <2>6
<1>4. ASSUME NEW s \in Server, SpawnFails(s) PROVE TypeOK' /\ LoginsAccounted'
  <2>1. at[s] = "spawn"
    BY <1>4 DEF SpawnFails
  <2>2. CASE s = "child"
    <3>1. Cardinality(Children(s)) = 0
      BY <1>0, <2>1, <2>2 DEF LoginsAccounted
    <3>2. Children(s) = {}
      BY <3>1, NoChildren
    <3>3. /\ at' = [at EXCEPT !["child"] = "zombie"]
          /\ parent' = [l \in Login |-> "init"]
          /\ state' = state /\ daemon' = daemon
      BY <1>4, <2>2 DEF SpawnFails
    <3>4. stray' = stray
      BY <1>0, <1>4, <2>2, <3>1 DEF SpawnFails, TypeOK
    <3>5. \A l \in Login : state[l] # "none" => parent[l] = "init"
      BY <1>0, <2>2, <3>2 DEF Children, TypeOK, Server
    <3>6. Children("init")' = Children("init") /\ Children("child")' = {}
      BY <3>3, <3>5 DEF Children
    <3>7. TypeOK'
      BY <1>0, <3>3, <3>4 DEF TypeOK, Server, Place
    <3>8. at'["init"] = at["init"] /\ at'["child"] = "zombie"
      BY <1>0, <3>3 DEF TypeOK, Server
    <3>9. LoginsAccounted'
      BY <1>0, <1>S, <3>4, <3>6, <3>8, FS_EmptySet DEF LoginsAccounted
    <3> QED BY <3>7, <3>9
  <2>3. CASE s # "child"
    <3>1. s = "init"
      BY <1>S, <2>3
    <3>2. /\ at' = [at EXCEPT !["init"] = "ended"]
          /\ state' = state /\ daemon' = daemon
          /\ parent' = [l \in Login |-> parent[l]]
          /\ stray' = stray + 0
      BY <1>4, <3>1 DEF SpawnFails
    <3>3. parent' = parent /\ stray' = stray
      BY <1>0, <3>2 DEF TypeOK
    <3>4. \A r \in Server : Children(r)' = Children(r)
      BY <1>0, <3>2, <3>3, SameChildren
    <3>5. TypeOK'
      BY <1>0, <3>2, <3>3 DEF TypeOK, Server, Place
    <3>6. \A r \in Server : (at'[r] = "wait") <=> (at[r] = "wait")
      BY <1>0, <2>1, <3>1, <3>2 DEF TypeOK
    <3>7. LoginsAccounted'
      BY <1>0, <3>3, <3>4, <3>6 DEF LoginsAccounted
    <3> QED BY <3>5, <3>7
  <2> QED BY <2>2, <2>3
<1>5. ASSUME NEW s \in Server, ReapLogin(s) PROVE TypeOK' /\ LoginsAccounted'
  <2>1. PICK l \in Children(s) : state' = [state EXCEPT ![l] = "none"]
    BY <1>5 DEF ReapLogin
  <2>2. /\ at[s] \in {"rcwait", "wait"}
        /\ at' = [at EXCEPT ![s] = IF at[s] = "rcwait" THEN "config" ELSE "spawn"]
        /\ stray' = IF at[s] = "rcwait" THEN stray - 1 ELSE stray
        /\ parent' = parent /\ daemon' = daemon
    BY <1>5 DEF ReapLogin, Waiting, Resume
  <2>3. /\ Cardinality(Children(s)') = Cardinality(Children(s)) - 1
        /\ \A r \in Server \ {s} : Children(r)' = Children(r)
    BY <1>0, <2>1, <2>2, ReapedChildren
  <2>4. at[s] = "rcwait" => s = "init" /\ stray >= 1
    <3>1. Cardinality(Children(s)) >= 1
      BY OneChild
    <3> QED BY <1>0, <1>S, <3>1 DEF LoginsAccounted, TypeOK
  <2>5. stray' \in Nat
    BY <1>0, <2>2, <2>4 DEF TypeOK
  <2>6. l \in Login
    BY DEF Children
  <2>7. TypeOK'
    BY <1>0, <2>1, <2>2, <2>5, <2>6 DEF TypeOK, Place
  <2>8. at'[s] # "wait" /\ \A r \in Server \ {s} : at'[r] = at[r]
    BY <1>0, <2>2 DEF TypeOK
  <2>9. LoginsAccounted'
    BY <1>0, <1>C, <2>2, <2>3, <2>4, <2>8 DEF LoginsAccounted, TypeOK
  <2> QED BY <2>7, <2>9
<1>6. CASE ReapDaemon \/ ReapChild
  <2>1. /\ at["init"] \in {"rcwait", "wait"}
        /\ stray' = IF at["init"] = "wait" THEN stray + 1 ELSE stray
        /\ state' = state /\ parent' = parent
    BY <1>6 DEF ReapDaemon, ReapChild, Waiting
  <2>2. \A r \in Server : Children(r)' = Children(r)
    BY <1>0, <2>1, SameChildren
  <2>3. /\ at' \in [Server -> Place]
        /\ at'["init"] # "wait"
        /\ at'["child"] = "wait" <=> at["child"] = "wait"
    <3>1. CASE ReapDaemon
      BY <1>0, <3>1 DEF ReapDaemon, Resume, TypeOK, Server, Place
    <3>2. CASE ReapChild
      BY <1>0, <3>2 DEF ReapChild, Resume, TypeOK, Server, Place
    <3> QED BY <1>6, <3>1, <3>2
  <2>4. TypeOK'
    <3>1. daemon' \in [Daemon -> {"none", "running", "zombie"}]
      BY <1>0, <1>6 DEF ReapDaemon, ReapChild, TypeOK
    <3>2. stray' \in Nat
      BY <1>0, <2>1 DEF TypeOK
    <3> QED BY <1>0, <2>1, <2>3, <3>1, <3>2 DEF TypeOK
  <2>5. LoginsAccounted'
    BY <1>0, <1>S, <1>C, <2>1, <2>2, <2>3 DEF LoginsAccounted, TypeOK
  <2> QED BY <2>4, <2>5
<1>7. CASE Users
  <2>1. \A l \in Login : state'[l] = "none" <=> state[l] = "none"
    BY <1>0, <1>7 DEF Users, LogIn, LogOut, StartDaemon, DaemonDies, TypeOK
  <2>2. at' = at /\ parent' = parent /\ stray' = stray
    BY <1>7 DEF Users, LogIn, LogOut, StartDaemon, DaemonDies
  <2>3. \A r \in Server : Children(r)' = Children(r)
    BY <1>0, <2>1, <2>2, SameChildren
  <2>4. TypeOK'
    BY <1>0, <1>7 DEF Users, LogIn, LogOut, StartDaemon, DaemonDies, TypeOK
  <2>5. LoginsAccounted'
    BY <1>0, <2>2, <2>3 DEF LoginsAccounted
  <2> QED BY <2>4, <2>5
<1>8. CASE UNCHANGED vars
  <2>1. TypeOK'
    BY <1>0, <1>8 DEF vars, TypeOK
  <2>2. LoginsAccounted'
    BY <1>0, <1>8 DEF vars, LoginsAccounted, Children
  <2> QED BY <2>1, <2>2
<1> QED
  BY <1>1, <1>2, <1>3, <1>4, <1>5, <1>6, <1>7, <1>8 DEF Next, Serve, Reap

-----------------------------------------------------------------------------
(* Theorems *)

\* The inductive invariant holds of every behaviour.
THEOREM Invariance == Spec => []Inv
<1> QED BY InitInv, StepInv, PTL DEF Spec

\* The places of the servers and the states of their children keep their types,
\* for any sets of login children and daemons; a login child is never a server.
THEOREM TypeCorrect == Spec => []TypeOK
<1>1. Inv => TypeOK
  BY DEF Inv
<1> QED BY <1>1, Invariance, PTL

\* For any number of children, daemons and mistaken deaths: one login child for a
\* server that waits, none otherwise, and one more on process 1 per mistake
\* (init.c:264).
THEOREM LoginsCounted == Spec => []LoginsAccounted
<1>1. Inv => LoginsAccounted
  BY DEF Inv
<1> QED BY <1>1, Invariance, PTL

\* No server waits without a login child to wait for, so no login loop hangs, and
\* none spins.
THEOREM WaitsForSomeone == Spec => []NeverWaitsAlone
<1>1. Inv => NeverWaitsAlone
  <2> SUFFICES ASSUME Inv, NEW s \in Server, at[s] = "wait", Children(s) = {}
               PROVE  FALSE
    BY DEF NeverWaitsAlone
  <2>1. Cardinality(Children(s)) = 0
    BY FS_EmptySet
  <2> QED BY <2>1 DEF Inv, LoginsAccounted, TypeOK
<1> QED BY <1>1, Invariance, PTL

=============================================================================
