---------------------------- MODULE InitProcess ----------------------------
(***************************************************************************)
(* init, process 1 (closedbsd/init/init.c): it forks a child that prepares *)
(* /etc and turns into the shell of /etc/rc, waits for it, configures the  *)
(* machine, and then serves logins for ever, one child after another.      *)
(*                                                                         *)
(* wait() returns for any child, and process 1 is also the parent of every *)
(* daemon that natd and dhclient leave behind.  If the shell cannot be     *)
(* executed, do_rc() returns and the child itself falls through to the     *)
(* code of the parent, so that there may be two servers of logins.         *)
(***************************************************************************)
EXTENDS Integers, FiniteSets

CONSTANTS
    Login,      \* process ids of login children
    Daemon,     \* process ids of daemons
    MaxStray    \* bound: how many children that nobody waits for may die

ASSUME InitAssumption ==
    /\ IsFiniteSet(Login) /\ IsFiniteSet(Daemon)
    /\ MaxStray \in Nat

Server == {"init", "child"}

VARIABLES
    at,         \* where each server is
    state,      \* state of each login child: none, prompt, shell or zombie
    parent,     \* the server whose child it is
    daemon,     \* state of each daemon: none, running or zombie
    stray       \* children process 1 has reaped, or still has, beyond those it
                \* forked for a login and waits for

vars == <<at, state, parent, daemon, stray>>

Place == {"start", "rcwait", "rc", "sh", "config", "spawn", "wait",
          "zombie", "none", "ended"}

Children(s) == {l \in Login : state[l] # "none" /\ parent[l] = s}

-----------------------------------------------------------------------------
(* main and do_rc *)

\* The first fork; main() exits with 40 if it fails.
Start ==
    /\ at["init"] = "start"
    /\ \/ at' = [at EXCEPT !["init"] = "rcwait", !["child"] = "rc"]
       \/ at' = [at EXCEPT !["init"] = "ended"]
    /\ UNCHANGED <<state, parent, daemon, stray>>

\* The child leaves the boot menu, which waits for a key (bootmenu(), init.c:134), and
\* becomes the shell of /etc/rc.  If it cannot, do_rc() returns, and the switch has no
\* break: wait() has nobody to wait for, and do_single() is next.
DoRc ==
    /\ at["child"] = "rc"
    /\ at' \in {[at EXCEPT !["child"] = "sh"], [at EXCEPT !["child"] = "config"]}
    /\ UNCHANGED <<state, parent, daemon, stray>>

\* /etc/rc ends.
RcEnds ==
    /\ at["child"] = "sh"
    /\ at' = [at EXCEPT !["child"] = "zombie"]
    /\ UNCHANGED <<state, parent, daemon, stray>>

-----------------------------------------------------------------------------
(* do_single *)

\* Devices, rules and NAT, which may leave daemons behind.
Config(s) ==
    /\ at[s] = "config"
    /\ at' = [at EXCEPT ![s] = "spawn"]
    /\ \E D \in SUBSET {d \in Daemon : daemon[d] = "none"} :
        daemon' = [d \in Daemon |-> IF d \in D THEN "running" ELSE daemon[d]]
    /\ UNCHANGED <<state, parent, stray>>

\* Mutant: the child finds the terminal closed and exits.
MutSpawn(s) ==
    /\ at[s] = "spawn"
    /\ \E l \in Login :
        /\ state[l] = "none"
        /\ state' = [state EXCEPT ![l] = "zombie"]
        /\ parent' = [parent EXCEPT ![l] = s]
    /\ at' = [at EXCEPT ![s] = "wait"]
    /\ UNCHANGED <<daemon, stray>>

\* The next login child.
Spawn(s) ==
    /\ at[s] = "spawn"
    /\ \E l \in Login :
        /\ state[l] = "none"
        /\ state' = [state EXCEPT ![l] = "prompt"]
        /\ parent' = [parent EXCEPT ![l] = s]
    /\ at' = [at EXCEPT ![s] = "wait"]
    /\ UNCHANGED <<daemon, stray>>

\* do_single() returns, and main() with it: the end of process 1 is the end of
\* everything, and process 1 inherits the children of the other server.
SpawnFails(s) ==
    /\ at[s] = "spawn"
    /\ at' = [at EXCEPT ![s] = IF s = "init" THEN "ended" ELSE "zombie"]
    /\ parent' = [l \in Login |-> IF s = "child" THEN "init" ELSE parent[l]]
    /\ stray' = stray + IF s = "child" THEN Cardinality(Children(s)) ELSE 0
    /\ UNCHANGED <<state, daemon>>

-----------------------------------------------------------------------------
(* wait(), which does not look whose death it is *)

Resume(s) == [at EXCEPT ![s] = IF at[s] = "rcwait" THEN "config" ELSE "spawn"]

Waiting(s) == at[s] \in {"rcwait", "wait"}

\* Mutant: the loop goes back to wait() and not to fork().
MutReapLogin(s) ==
    /\ Waiting(s)
    /\ \E l \in Children(s) :
        /\ state[l] = "zombie"
        /\ state' = [state EXCEPT ![l] = "none"]
    /\ at' = IF at[s] = "wait" THEN at ELSE Resume(s)
    /\ stray' = IF at[s] = "rcwait" THEN stray - 1 ELSE stray
    /\ UNCHANGED <<parent, daemon>>

ReapLogin(s) ==
    /\ Waiting(s)
    /\ \E l \in Children(s) :
        /\ state[l] = "zombie"
        /\ state' = [state EXCEPT ![l] = "none"]
    /\ at' = Resume(s)
    /\ stray' = IF at[s] = "rcwait" THEN stray - 1 ELSE stray
    /\ UNCHANGED <<parent, daemon>>

ReapDaemon ==
    /\ Waiting("init")
    /\ \E d \in Daemon :
        /\ daemon[d] = "zombie"
        /\ daemon' = [daemon EXCEPT ![d] = "none"]
    /\ at' = Resume("init")
    /\ stray' = IF at["init"] = "wait" THEN stray + 1 ELSE stray
    /\ UNCHANGED <<state, parent>>

\* The child that ran /etc/rc, or served logins.
ReapChild ==
    /\ Waiting("init")
    /\ at["child"] = "zombie"
    /\ at' = [Resume("init") EXCEPT !["child"] = "none"]
    /\ stray' = IF at["init"] = "wait" THEN stray + 1 ELSE stray
    /\ UNCHANGED <<state, parent, daemon>>

-----------------------------------------------------------------------------
(* Logins and daemons *)

\* Mutant: no exit() behind the execv() of the shell.
MutLogIn(l) ==
    /\ state[l] = "prompt"
    /\ \E to \in {"shell", "zombie", "server"} : state' = [state EXCEPT ![l] = to]
    /\ UNCHANGED <<at, parent, daemon, stray>>

\* A password that fits starts a shell; anything else ends the child.
LogIn(l) ==
    /\ state[l] = "prompt"
    /\ state' \in {[state EXCEPT ![l] = "shell"], [state EXCEPT ![l] = "zombie"]}
    /\ UNCHANGED <<at, parent, daemon, stray>>

LogOut(l) ==
    /\ state[l] = "shell"
    /\ state' = [state EXCEPT ![l] = "zombie"]
    /\ UNCHANGED <<at, parent, daemon, stray>>

\* The console starts natd or dhclient.
StartDaemon(l, d) ==
    /\ state[l] = "shell" /\ daemon[d] = "none"
    /\ daemon' = [daemon EXCEPT ![d] = "running"]
    /\ UNCHANGED <<at, state, parent, stray>>

Dead == {d \in Daemon : daemon[d] = "zombie"}

DaemonDies(d) ==
    /\ stray + Cardinality(Dead) < MaxStray
    /\ daemon[d] = "running"
    /\ daemon' = [daemon EXCEPT ![d] = "zombie"]
    /\ UNCHANGED <<at, state, parent, stray>>

-----------------------------------------------------------------------------
Init ==
    /\ at = [s \in Server |-> IF s = "init" THEN "start" ELSE "none"]
    /\ state = [l \in Login |-> "none"]
    /\ parent = [l \in Login |-> "init"]
    /\ daemon = [d \in Daemon |-> "none"]
    /\ stray = 0

Reap == (\E s \in Server : ReapLogin(s)) \/ ReapDaemon \/ ReapChild

Boot == Start \/ DoRc \/ RcEnds

Serve == \E s \in Server : Config(s) \/ Spawn(s) \/ SpawnFails(s)

Users == \/ \E l \in Login : LogIn(l) \/ LogOut(l)
         \/ \E l \in Login, d \in Daemon : StartDaemon(l, d)
         \/ \E d \in Daemon : DaemonDies(d)

Next == at["init"] # "ended" /\ (Boot \/ Serve \/ Reap \/ Users)

\* Processes that can run do run; users need not do anything, the one at the boot menu
\* included: DoRc is not fair.
Fairness == WF_vars(Start) /\ WF_vars(RcEnds) /\ WF_vars(Reap)
            /\ \A s \in Server : WF_vars(Config(s) \/ Spawn(s))

Spec == Init /\ [][Next]_vars
FairSpec == Spec /\ Fairness

-----------------------------------------------------------------------------
(* Properties *)

\* Type invariant.
TypeOK ==
    /\ at \in [Server -> Place]
    /\ state \in [Login -> {"none", "prompt", "shell", "zombie"}]
    /\ parent \in [Login -> Server]
    /\ daemon \in [Daemon -> {"none", "running", "zombie"}]
    /\ stray \in Nat

\* Each server has one login child while it waits, and none otherwise, but for as
\* many more on process 1 as other children's deaths it has mistaken for a logout
\* (init.c:264: wait() is not told whom to wait for).  The terminal is shared by no
\* more logins than that.
LoginsAccounted ==
    \A s \in Server :
        Cardinality(Children(s)) = (IF at[s] = "wait" THEN 1 ELSE 0)
                                   + (IF s = "init" THEN stray ELSE 0)

\* A server that waits has a login child to wait for, so the loop neither hangs nor
\* forks as fast as it can.
NeverWaitsAlone == \A s \in Server : at[s] = "wait" => Children(s) # {}

Session == \E l \in Login : state[l] \in {"prompt", "shell"}

\* The boot menu is behind: somebody has left it.
MenuLeft == at["init"] # "start" /\ at["child"] # "rc"

\* Whatever dies, logs out or cannot be executed, from the boot menu on: when nobody is
\* at the terminal there is a prompt again, unless a failing fork() ends process 1
\* (init.c:195-268).
SessionReturns == MenuLeft /\ ~Session ~> (Session \/ at["init"] = "ended")

=============================================================================
