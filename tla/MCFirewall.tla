----------------------------- MODULE MCFirewall -----------------------------
(***************************************************************************)
(* Firewall on a small instance.  The bodies are those that the code tells *)
(* apart: accepted, refused, emptying the chain, and containing a "q" that *)
(* strtok cuts at, so that ipfw refuses the rest.  'Basic' has two rules   *)
(* here: only that there are several of them matters.                      *)
(***************************************************************************)
EXTENDS Firewall, TLC

MCBody == {"pass", "qhost", "bad", "flush"}
MCRefused == {"bad"}
MCFlush == {"flush"}
MCCut == [b \in MCBody |-> IF b = "qhost" THEN "bad" ELSE b]
MCBasic == <<"pass", "pass">>

MCForm == {[action |-> "ALLOW", proto |-> "IP"],
           [action |-> "RESET", proto |-> "UDP"],
           [action |-> "FWD",   proto |-> "TCP"]}
MCCommand == [r \in MCForm |->
                CASE r.action = "FWD" -> {"bad", "pass"}
                  [] r.proto = "IP"   -> {"pass", "qhost", "bad"}
                  [] OTHER            -> {"pass"}]
MCRaw == {"pass", "flush"}

Interchangeable == Permutations(Device)

=============================================================================
