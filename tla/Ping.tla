-------------------------------- MODULE Ping --------------------------------
(***************************************************************************)
(* ping (sbin/ping): echo requests go out one after the other, and what    *)
(* comes back may be lost, late, twice or of another ping.  A table of     *)
(* bits, used over and over, tells the answers that came before.           *)
(*                                                                         *)
(* The id of an echo is its number, of which the packet has the last bits. *)
(* Time is when select() says that there was none left.  Left out: round   *)
(* trip times and what is printed.                                         *)
(***************************************************************************)
EXTENDS Integers, Sequences, FiniteSets

CONSTANTS
    Options,    \* [npackets, preload, flood], npackets 0 for no end
    DupCheck,   \* mx_dup_ck
    SeqNumbers, \* how many numbers icmp_seq has
    MaxSent, MaxCopies, MaxNoise    \* bounds on what there is

VARIABLES
    opt, pc,
    preload,    \* how many are to be sent first
    ntransmitted, nreceived, nrepeats,
    tried,      \* how often pinger() was called for another number
    rcvd,       \* rcvd_tbl
    net,        \* the answers that are under way, with how many there are of each
    almost_done, finish_up,
    noise,      \* packets for others
    answered,   \* the echoes an answer came for, and how many answers
    late        \* an answer came when its bit was already used for another echo
vars == <<opt, pc, preload, ntransmitted, nreceived, nrepeats, tried, rcvd, net, almost_done, finish_up, noise,
          answered, late>>
ends == <<almost_done, finish_up, noise>>
counts == <<nreceived, nrepeats, answered, late>>

Bit(number) == (number % SeqNumbers) % DupCheck

-----------------------------------------------------------------------------
(* pinger() *)

\* Mutant: the bit stays as it was.
MutPinger(copies) ==
    /\ net' = IF copies = 0 THEN net ELSE [e \in DOMAIN net \cup {ntransmitted} |->
                                                IF e = ntransmitted THEN copies ELSE net[e]]
    /\ ntransmitted' = ntransmitted + 1 /\ tried' = ntransmitted + 1
    /\ UNCHANGED rcvd

\* An echo goes out, and that many answers will be under way.
Pinger(copies) ==
    /\ net' = IF copies = 0 THEN net ELSE [e \in DOMAIN net \cup {ntransmitted} |->
                                                IF e = ntransmitted THEN copies ELSE net[e]]
    /\ ntransmitted' = ntransmitted + 1 /\ tried' = ntransmitted + 1
    /\ rcvd' = rcvd \ {Bit(ntransmitted)}

\* With -f, an echo there was no buffer for is not counted, but its bit is cleared.
NoBuffer ==
    /\ opt.flood
    /\ rcvd' = rcvd \ {Bit(ntransmitted)} /\ tried' = ntransmitted + 1
    /\ UNCHANGED <<net, ntransmitted>>

Sends ==
    /\ ntransmitted < MaxSent
    /\ NoBuffer \/ \E copies \in 0..MaxCopies : Pinger(copies)

\* Those of -l, and always one more
Preload ==
    /\ pc = "preload" /\ Sends
    /\ preload' = preload - 1 /\ pc' = IF preload = 0 THEN "loop" ELSE "preload"
    /\ UNCHANGED <<opt, counts, ends>>

-----------------------------------------------------------------------------
(* The loop *)

\* Whether to go on, and for what there is still to wait.
SendOrWait ==
    IF opt.npackets = 0 \/ ntransmitted < opt.npackets
    THEN Sends /\ pc' = "loop" /\ UNCHANGED almost_done
    ELSE /\ almost_done' = TRUE /\ pc' = (IF almost_done THEN "done" ELSE "loop")
         /\ UNCHANGED <<ntransmitted, tried, rcvd, net>>

Timeout ==
    /\ pc = "loop" /\ ~finish_up
    /\ SendOrWait
    /\ UNCHANGED <<opt, preload, counts, finish_up, noise>>

Enough == opt.npackets > 0 /\ nreceived' >= opt.npackets
\* After a packet, -f goes on as if there was no time left.
AfterPacket(left) ==
    CASE Enough -> pc' = "done" /\ net' = left /\ UNCHANGED <<ntransmitted, tried, almost_done>>
      [] ~Enough /\ opt.flood -> pc' = "flood" /\ net' = left /\ UNCHANGED <<ntransmitted, tried, almost_done>>
      [] OTHER -> pc' = "loop" /\ net' = left /\ UNCHANGED <<ntransmitted, tried, almost_done>>

\* pr_pack() with an answer to this ping
Took(e) == [m \in {d \in DOMAIN net : d # e \/ net[e] > 1} |-> IF m = e THEN net[e] - 1 ELSE net[m]]
Answer ==
    /\ pc = "loop" /\ ~finish_up
    /\ \E e \in DOMAIN net :
          /\ IF Bit(e) \in rcvd
             THEN nrepeats' = nrepeats + 1 /\ UNCHANGED <<nreceived, rcvd>>
             ELSE nreceived' = nreceived + 1 /\ rcvd' = rcvd \cup {Bit(e)} /\ UNCHANGED nrepeats
          /\ answered' = [all |-> answered.all + 1, of |-> answered.of \cup {e}]
          /\ late' = (late \/ tried > e + DupCheck)
          /\ AfterPacket(Took(e))
    /\ UNCHANGED <<opt, preload, finish_up, noise>>

\* A packet of another ping, an error, or a call that was interrupted
Other ==
    /\ pc = "loop" /\ ~finish_up /\ noise < MaxNoise /\ noise' = noise + 1
    /\ UNCHANGED <<nreceived, rcvd>> /\ AfterPacket(net)
    /\ UNCHANGED <<opt, preload, nrepeats, answered, late, finish_up>>

Flood ==
    /\ pc = "flood"
    /\ SendOrWait
    /\ UNCHANGED <<opt, preload, counts, finish_up, noise>>

Lost ==
    /\ pc = "loop" /\ \E e \in DOMAIN net : net' = Took(e)
    /\ UNCHANGED <<opt, pc, preload, ntransmitted, tried, rcvd, counts, ends>>

\* stopit()
Stop ==
    /\ pc = "loop" /\ ~finish_up /\ finish_up' = TRUE
    /\ UNCHANGED <<opt, pc, preload, ntransmitted, tried, rcvd, net, almost_done, noise, counts>>
Finish ==
    /\ pc = "loop" /\ finish_up /\ pc' = "done"
    /\ UNCHANGED <<opt, preload, ntransmitted, tried, rcvd, net, counts, ends>>

PingInit ==
    /\ opt \in Options /\ pc = "preload" /\ preload = opt.preload
    /\ ntransmitted = 0 /\ nreceived = 0 /\ nrepeats = 0 /\ tried = 0 /\ rcvd = {} /\ net = [e \in {} |-> 0]
    /\ almost_done = FALSE /\ finish_up = FALSE /\ noise = 0
    /\ answered = [all |-> 0, of |-> {}] /\ late = FALSE
PingNext ==
    Preload \/ Timeout \/ Answer \/ Other \/ Flood \/ Lost \/ Stop \/ Finish

\* The table has a bit for each of the numbers 0..DupCheck - 1, and a number that does
\* not fit in icmp_seq keeps its bit.
TableFits ==
    /\ DupCheck \in Nat \ {0} /\ SeqNumbers \in Nat \ {0} /\ SeqNumbers % DupCheck = 0
    /\ Options \subseteq [npackets : Nat, preload : Nat, flood : BOOLEAN]

-----------------------------------------------------------------------------
\* As long as no answer is later than the table is long, the echoes that were answered
\* are counted once each, and every other answer as a repetition.  No more are sent than
\* were asked for, or than -l and the first.
Max2(a, b) == IF a > b THEN a ELSE b
PingCounts ==
    /\ ~late => nreceived = Cardinality(answered.of) /\ nrepeats = answered.all - nreceived
    /\ opt.npackets > 0 => ntransmitted <= Max2(opt.npackets, opt.preload + 1)

=============================================================================
