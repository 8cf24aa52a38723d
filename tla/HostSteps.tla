------------------------------ MODULE HostSteps ------------------------------
(***************************************************************************)
(* What the Executor expects of the role on one host (HostApply, RemoteEnd *)
(* and HostPass of Executor): gates that change nothing, then changes of   *)
(* any kind, then a check that changes nothing and passes only what is     *)
(* patched.  The play may fail at any moment and does not start anew.      *)
(* Between two plays somebody else may be at the host.                     *)
(***************************************************************************)
CONSTANTS
  Plays,
  Homes,   \* states of the host
  Patched  \* those that a play may call a success

VARIABLES
  step,  \* how far each play has come
  home   \* the state of the host

Init ==
  /\ step = [p \in Plays |-> "none"]
  /\ home \in Homes

Move(p, from, to) ==
  /\ step[p] = from
  /\ step' = [step EXCEPT ![p] = to]

Enter(p) == Move(p, "none", "gate") /\ UNCHANGED home

Begin(p) == Move(p, "gate", "change") /\ UNCHANGED home

\* The last change may also be the one that ends in a failure.
Change(p) ==
  /\ \E next \in {"change", "verify", "failed"} : Move(p, "change", next)
  /\ home' \in Homes

Pass(p) == home \in Patched /\ Move(p, "verify", "passed") /\ UNCHANGED home

Fail(p) ==
  /\ \E at \in {"gate", "verify"} : Move(p, at, "failed")
  /\ UNCHANGED home

\* A play that is none of the Executor's.
Elsewhere ==
  /\ \A p \in Plays : step[p] \in {"none", "passed", "failed"}
  /\ home' \in Homes
  /\ UNCHANGED step

Next ==
  \/ \E p \in Plays : Enter(p) \/ Begin(p) \/ Change(p) \/ Pass(p) \/ Fail(p)
  \/ Elsewhere

Spec == Init /\ [][Next]_<<step, home>>
=============================================================================
