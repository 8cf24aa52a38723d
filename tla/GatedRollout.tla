---------------------------- MODULE GatedRollout ----------------------------
(***************************************************************************)
(* What the Executor promises, without playbooks, audit entries, timeouts  *)
(* or crashes: a run changes no host until a human has approved it, takes  *)
(* the hosts of the inventory in order, and goes on to the next host only  *)
(* when the one before it has been verified.                               *)
(***************************************************************************)
EXTENDS Naturals, Sequences

CONSTANTS Runs, Inventory

VARIABLES
  verdict,  \* what the human said of each run
  touched,  \* the hosts each run has begun to change
  verified  \* the hosts whose change each run has checked

Before(i) == {Inventory[j] : j \in 1 .. i - 1}

Init ==
  /\ verdict = [r \in Runs |-> "none"]
  /\ touched = [r \in Runs |-> {}]
  /\ verified = [r \in Runs |-> {}]

Decide(r, v) ==
  /\ verdict[r] = "none"
  /\ verdict' = [verdict EXCEPT ![r] = v]
  /\ UNCHANGED <<touched, verified>>

Change(r, i) ==
  /\ verdict[r] = "approved"
  /\ touched[r] = Before(i)
  /\ verified[r] = Before(i)
  /\ touched' = [touched EXCEPT ![r] = @ \cup {Inventory[i]}]
  /\ UNCHANGED <<verdict, verified>>

Verify(r) ==
  /\ verified' = [verified EXCEPT ![r] = touched[r]]
  /\ UNCHANGED <<verdict, touched>>

Next ==
  \E r \in Runs :
    \/ \E v \in {"approved", "refused"} : Decide(r, v)
    \/ \E i \in DOMAIN Inventory : Change(r, i)
    \/ Verify(r)

Spec == Init /\ [][Next]_<<verdict, touched, verified>>
=============================================================================
