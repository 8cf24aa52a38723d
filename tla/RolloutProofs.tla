---------------------------- MODULE RolloutProofs ----------------------------
(***************************************************************************)
(* Executor implements GatedRollout, for any runs, hosts, inventory,       *)
(* registry and plans: approval before any change, the hosts in the order  *)
(* of the inventory, each verified before the next is touched.  And how a  *)
(* run ends: with the reason of a halt on record, or with the hosts        *)
(* patched and verified.                                                   *)
(***************************************************************************)
EXTENDS ExecutorProofs

-----------------------------------------------------------------------------
(* The hosts are taken in order *)

LEMMA BeforeNext ==
  /\ Promise!Before(1) = {}
  /\ \A i \in DOMAIN Inventory :
       Promise!Before(i + 1) = Promise!Before(i) \cup {Inventory[i]}
  <1>1. Promise!Before(1) = {}
    BY DEF Promise!Before
  <1>2. ASSUME NEW i \in DOMAIN Inventory
        PROVE  Promise!Before(i + 1) = Promise!Before(i) \cup {Inventory[i]}
    <2>1. i \in Nat /\ i >= 1
      BY InventoryType
    <2>2. 1 .. (i + 1) - 1 = (1 .. i - 1) \cup {i}
      BY <2>1
    <2> QED
      BY <2>2 DEF Promise!Before
  <1> QED
    BY <1>1, <1>2

\* The play of a run stands at one host: it has verified those before it, and
\* touched those and perhaps that one.
Ordered ==
  \A r \in Runs :
    /\ play[r].state = "none" => touched[r] = {} /\ verified[r] = {}
    /\ play[r].state = "gate" =>
         /\ touched[r] = Promise!Before(play[r].at)
         /\ verified[r] = Promise!Before(play[r].at)
    /\ play[r].state \in {"change", "verify"} =>
         /\ touched[r] = Promise!Before(play[r].at) \cup {Current(r)}
         /\ verified[r] = Promise!Before(play[r].at)

LEMMA InitOrdered == Init => Ordered
  BY DEF Init, Ordered, Idle

LEMMA NextOrdered == TypeInv /\ Begun /\ Ordered /\ [Next]_vars => Ordered'
  <1> SUFFICES ASSUME TypeInv, Begun, Ordered, [Next]_vars PROVE Ordered'
    OBVIOUS
  <1>0. /\ play \in [Runs -> Plays]
        /\ touched \in [Runs -> SUBSET Hosts]
        /\ verified \in [Runs -> SUBSET Hosts]
    BY DEF TypeInv, TypeOK, Plays
  <1>1. CASE UNCHANGED vars
    BY <1>0, <1>1 DEF vars, control, world, Ordered, Current, Plays, Active
  <1>2. ASSUME NEW r \in Runs, Enter(r) PROVE Ordered'
    BY <1>0, <1>2 DEF Enter, Goto, world, Ordered, Current, Plays, Active
  <1>3. ASSUME NEW r \in Runs, Vet(r) PROVE Ordered'
    BY <1>0, <1>3 DEF Vet, Goto, world, Ordered, Current, Plays, Active
  <1>4. ASSUME NEW r \in Runs, Precheck(r) PROVE Ordered'
    BY <1>0, <1>4 DEF Precheck, Goto, world, Ordered, Current, Plays, Active
  <1>5. ASSUME NEW r \in Runs, Snapshot(r) PROVE Ordered'
    BY <1>0, <1>5 DEF Snapshot, Goto, Ordered, Current, Plays, Active
  <1>6. ASSUME NEW r \in Runs, Confirm(r) PROVE Ordered'
    BY <1>0, <1>6 DEF Confirm, Goto, world, Ordered, Current, Plays, Active
  <1>7. ASSUME NEW r \in Runs, Apply(r) PROVE Ordered'
    BY <1>0, <1>7, BeforeNext DEF Apply, Begun, Ended, Ordered, Current, Plays
  <1>8. ASSUME NEW r \in Runs, PlayEnd(r) PROVE Ordered'
    BY <1>0, <1>8 DEF PlayEnd, Goto, world, Ordered, Current, Plays, Active
  <1>9. ASSUME NEW r \in Runs, Timeout(r) PROVE Ordered'
    BY <1>0, <1>9 DEF Timeout, Goto, Turn, Ordered, Current, Plays, Active
  <1>10. ASSUME NEW r \in Runs, RollbackInfo(r) PROVE Ordered'
    BY <1>0, <1>10 DEF RollbackInfo, Goto, world, Ordered, Current, Plays, Active
  <1>11. ASSUME NEW r \in Runs, Abort(r) PROVE Ordered'
    BY <1>0, <1>11 DEF Abort, Goto, Turn, Ordered, Current, Plays, Active
  <1>12. ASSUME NEW r \in Runs, Kill(r) PROVE Ordered'
    BY <1>0, <1>12 DEF Kill, Goto, world, Ordered, Current, Plays, Active
  <1>13. ASSUME NEW r \in Runs, Recommend(r) PROVE Ordered'
    BY <1>0, <1>13 DEF Recommend, Goto, world, Ordered, Current, Plays, Active
  <1>14. ASSUME NEW r \in Runs, Reject(r) PROVE Ordered'
    BY <1>0, <1>14 DEF Reject, Goto, world, Ordered, Current, Plays, Active
  <1>15. ASSUME NEW r \in Runs, LogApply(r) PROVE Ordered'
    BY <1>0, <1>15 DEF LogApply, Goto, world, Ordered, Current, Plays, Active
  <1>16. ASSUME NEW r \in Runs, LogFailure(r) PROVE Ordered'
    BY <1>0, <1>16 DEF LogFailure, Goto, world, Ordered, Current, Plays, Active
  <1>17. ASSUME NEW r \in Runs, LogSuccess(r) PROVE Ordered'
    BY <1>0, <1>17 DEF LogSuccess, Goto, world, Ordered, Current, Plays, Active
  <1>18. ASSUME NEW r \in Runs, LogDryRun(r) PROVE Ordered'
    BY <1>0, <1>18 DEF LogDryRun, LogResult, Goto, world, Ordered, Current,
       Plays, Active
  <1>19. ASSUME NEW r \in Runs, LogSnapshot(r) PROVE Ordered'
    BY <1>0, <1>19 DEF LogSnapshot, LogResult, Goto, world, Ordered, Current,
       Plays, Active
  <1>20. ASSUME NEW r \in Runs, LogDecision(r) PROVE Ordered'
    BY <1>0, <1>20 DEF LogDecision, LogResult, Goto, world, Ordered, Current,
       Plays, Active
  <1>21. ASSUME NEW r \in Runs, HostFails(r) PROVE Ordered'
    BY <1>0, <1>21 DEF HostFails, control, Turn, Ordered, Current, Plays, Active
  <1>22. ASSUME NEW r \in Runs, HostApply(r) PROVE Ordered'
    BY <1>0, <1>22 DEF HostApply, control, Turn, Ordered, Current, Plays, Active
  <1>23. ASSUME NEW r \in Runs, HostPass(r) PROVE Ordered'
    <2>1. /\ verified[r] \cup {Current(r)} = touched[r]
          /\ touched[r] = Promise!Before(play[r].at + 1)
      BY <1>23, BeforeNext, <1>0 DEF HostPass, Ordered, Current, Plays
    <2>2. verified' = [verified EXCEPT ![r] = touched[r]] /\ touched' = touched
      BY <1>23, <2>1 DEF HostPass
    <2>3. \A s \in Runs \ {r} : play'[s] = play[s]
      BY <1>0, <1>23 DEF HostPass
    <2>4. /\ play'[r].state \in {"passed", "gate"}
          /\ play'[r].state = "gate" => play'[r].at = play[r].at + 1
      BY <1>0, <1>23 DEF HostPass
    <2> QED
      BY <1>0, <2>1, <2>2, <2>3, <2>4 DEF Ordered, Current
  <1>24. ASSUME NEW r \in Runs, PlayDies(r) PROVE Ordered'
    BY <1>0, <1>24 DEF PlayDies, control, Turn, Ordered, Current, Plays, Active
  <1>25. ASSUME NEW r \in Runs, NEW h \in Hosts, RemoteEnd(r, h) PROVE Ordered'
    BY <1>0, <1>25 DEF RemoteEnd, Turn, control, Ordered, Current, Plays, Active
  <1> QED
    BY <1>1, <1>2, <1>3, <1>4, <1>5, <1>6, <1>7, <1>8, <1>9, <1>10, <1>11,
       <1>12, <1>13, <1>14, <1>15, <1>16, <1>17, <1>18, <1>19, <1>20, <1>21,
       <1>22, <1>23, <1>24, <1>25 DEF Next, Proceed


-----------------------------------------------------------------------------
(* The verdict *)

LEMMA NotThree ==
  \A n \in Nat : /\ n # 3 => n < 3 \/ n > 3
                 /\ n >= 4 => n # 3
  OBVIOUS

\* Only the fourth entry of a trail decides, and it decides once.
LEMMA VerdictStays ==
  ASSUME TypeOK, NEW r \in Runs, NEW event, NEW result, Log(r, event, result),
         Len(trail[r]) # 3
  PROVE  \A s \in Runs : Verdict(s)' = Verdict(s)
  <1> SUFFICES ASSUME NEW s \in Runs PROVE Verdict(s)' = Verdict(s)
    OBVIOUS
  <1>1. CASE s = r
    <2>1. /\ Len(trail[r]) \in Nat
          /\ Len(trail'[r]) = Len(trail[r]) + 1
          /\ \A i \in 1 .. Len(trail[r]) : trail'[r][i] = trail[r][i]
      BY LogEffect
    <2>2. CASE Len(trail[r]) < 3
      BY <1>1, <2>1, <2>2 DEF Verdict
    <2>3. CASE Len(trail[r]) > 3
      <3>1. trail'[r][4] = trail[r][4]
        BY <2>1, <2>3
      <3> QED
        BY <1>1, <2>1, <2>3, <3>1 DEF Verdict
    <2>4. Len(trail[r]) < 3 \/ Len(trail[r]) > 3
      <3>1. Len(trail[r]) \in Nat
        BY LogEffect
      <3> QED
        BY <3>1, NotThree, Zenon
    <2> QED
      BY <2>2, <2>3, <2>4
  <1>2. CASE s # r
    <2>1. trail'[s] = trail[s]
      BY <1>2, LogEffect
    <2> QED
      BY <2>1 DEF Verdict
  <1> QED
    BY <1>1, <1>2

LEMMA VerdictDecided ==
  ASSUME TypeOK, NEW r \in Runs, NEW event, NEW result, Log(r, event, result)
  PROVE  Len(trail[r]) = 3 =>
           /\ Verdict(r) = "none"
           /\ Verdict(r)' = IF result THEN "approved" ELSE "refused"
           /\ \A s \in Runs \ {r} : Verdict(s)' = Verdict(s)
  <1>1. /\ Len(trail'[r]) = Len(trail[r]) + 1
        /\ trail'[r][Len(trail[r]) + 1] = [event |-> event, ok |-> result]
        /\ \A s \in Runs \ {r} : trail'[s] = trail[s]
    BY LogEffect
  <1>2. Len(trail[r]) = 3 => Len(trail'[r]) = 4 /\ trail'[r][4].ok = result
    BY <1>1
  <1> QED
    BY <1>1, <1>2 DEF Verdict

-----------------------------------------------------------------------------
(* The refinement *)

verdict == [r \in Runs |-> Verdict(r)]

RolloutInv == GateInv /\ Ordered

LEMMA RolloutInvariant == Spec => []RolloutInv
  <1>1. GateInv /\ Ordered /\ [Next]_vars => Ordered'
    BY NextOrdered DEF GateInv
  <1> QED
    BY GateInvariant, InitOrdered, <1>1, PTL DEF Spec, RolloutInv

LEMMA RolloutInit == Init => Promise!Init
  BY DEF Init, Promise!Init, Verdict

LEMMA RolloutNext ==
  RolloutInv /\ [Next]_vars => [Promise!Next]_<<verdict, touched, verified>>
  <1> SUFFICES ASSUME RolloutInv, [Next]_vars
               PROVE  [Promise!Next]_<<verdict, touched, verified>>
    OBVIOUS
  <1> DEFINE Stutter == verdict' = verdict /\ touched' = touched /\ verified' = verified
  <1>0. /\ TypeOK /\ Trailed /\ Ordered
        /\ ok \in [Runs -> BOOLEAN]
        /\ touched \in [Runs -> SUBSET Hosts]
        /\ verified \in [Runs -> SUBSET Hosts]
        /\ play \in [Runs -> Plays]
    BY DEF RolloutInv, GateInv, TypeInv, TypeOK, Plays
  <1>1. CASE UNCHANGED vars
    BY <1>1 DEF vars, control, world, Verdict, verdict
  <1>2. ASSUME NEW r \in Runs, Enter(r) PROVE Stutter
    BY <1>2 DEF Enter, world, Verdict, verdict
  <1>3. ASSUME NEW r \in Runs, Vet(r) PROVE Stutter
    BY <1>3 DEF Vet, world, Verdict, verdict
  <1>4. ASSUME NEW r \in Runs, Precheck(r) PROVE Stutter
    BY <1>4 DEF Precheck, world, Verdict, verdict
  <1>5. ASSUME NEW r \in Runs, Snapshot(r) PROVE Stutter
    BY <1>5 DEF Snapshot, Verdict, verdict
  <1>6. ASSUME NEW r \in Runs, Confirm(r) PROVE Stutter
    BY <1>6 DEF Confirm, world, Verdict, verdict
  <1>7. ASSUME NEW r \in Runs, Apply(r) PROVE Stutter
    BY <1>7 DEF Apply, Verdict, verdict
  <1>8. ASSUME NEW r \in Runs, PlayEnd(r) PROVE Stutter
    BY <1>8 DEF PlayEnd, world, Verdict, verdict
  <1>9. ASSUME NEW r \in Runs, Timeout(r) PROVE Stutter
    BY <1>9 DEF Timeout, Verdict, verdict
  <1>10. ASSUME NEW r \in Runs, RollbackInfo(r) PROVE Stutter
    BY <1>10 DEF RollbackInfo, world, Verdict, verdict
  <1>11. ASSUME NEW r \in Runs, Abort(r) PROVE Stutter
    BY <1>11 DEF Abort, Verdict, verdict
  <1>12. ASSUME NEW r \in Runs, Kill(r) PROVE Stutter
    BY <1>12 DEF Kill, world, Verdict, verdict
  <1>13. ASSUME NEW r \in Runs, Recommend(r) PROVE Stutter
    <2>1. Log(r, "recommendation", TRUE) /\ touched' = touched /\ verified' = verified
      BY <1>13 DEF Recommend, world
    <2>2. Len(trail[r]) # 3
      <3>1. Len(trail[r]) = 0
        BY <1>0, <1>13 DEF Recommend, Trailed, Logged
      <3> QED
        BY <3>1
    <2> QED
      BY <1>0, <2>1, <2>2, VerdictStays DEF verdict
  <1>14. ASSUME NEW r \in Runs, Reject(r) PROVE Stutter
    <2>1. Log(r, "validation_result", FALSE) /\ touched' = touched /\ verified' = verified
      BY <1>14 DEF Reject, world
    <2>2. Len(trail[r]) # 3
      <3>1. Len(trail[r]) = 1
        BY <1>0, <1>14 DEF Reject, Trailed, Logged
      <3> QED
        BY <3>1
    <2> QED
      BY <1>0, <2>1, <2>2, VerdictStays DEF verdict
  <1>15. ASSUME NEW r \in Runs, LogApply(r) PROVE Stutter
    <2>1. Log(r, "execution_output", ok[r]) /\ touched' = touched /\ verified' = verified
      BY <1>15 DEF LogApply, world
    <2>2. Len(trail[r]) # 3
      <3>1. Len(trail[r]) >= 4
        BY <1>0, <1>15, LoggedPassed DEF LogApply, Trailed, Passed, Through
      <3>2. Len(trail[r]) \in Nat
        BY <1>0 DEF TypeOK
      <3> QED
        BY <3>1, <3>2, NotThree, Zenon
    <2> QED
      BY <1>0, <2>1, <2>2, VerdictStays DEF verdict
  <1>16. ASSUME NEW r \in Runs, LogFailure(r) PROVE Stutter
    <2>1. Log(r, "validation_result", FALSE) /\ touched' = touched /\ verified' = verified
      BY <1>16 DEF LogFailure, world
    <2>2. Len(trail[r]) # 3
      <3>1. Len(trail[r]) >= 4
        BY <1>0, <1>16 DEF LogFailure, Trailed, Passed, Through
      <3>2. Len(trail[r]) \in Nat
        BY <1>0 DEF TypeOK
      <3> QED
        BY <3>1, <3>2, NotThree, Zenon
    <2> QED
      BY <1>0, <2>1, <2>2, VerdictStays DEF verdict
  <1>17. ASSUME NEW r \in Runs, LogSuccess(r) PROVE Stutter
    <2>1. Log(r, "validation_result", TRUE) /\ touched' = touched /\ verified' = verified
      BY <1>17 DEF LogSuccess, world
    <2>2. Len(trail[r]) # 3
      <3>1. Len(trail[r]) >= 4
        BY <1>0, <1>17 DEF LogSuccess, Trailed, Passed, Through
      <3>2. Len(trail[r]) \in Nat
        BY <1>0 DEF TypeOK
      <3> QED
        BY <3>1, <3>2, NotThree, Zenon
    <2> QED
      BY <1>0, <2>1, <2>2, VerdictStays DEF verdict
  <1>18. ASSUME NEW r \in Runs, LogDryRun(r) PROVE Stutter
    <2>1. Log(r, "dry_run_result", ok[r]) /\ touched' = touched /\ verified' = verified
      BY <1>18 DEF LogDryRun, LogResult, world
    <2>2. Len(trail[r]) # 3
      <3>1. Len(trail[r]) = 1
        BY <1>0, <1>18 DEF LogDryRun, Trailed, Logged
      <3> QED
        BY <3>1
    <2> QED
      BY <1>0, <2>1, <2>2, VerdictStays DEF verdict
  <1>19. ASSUME NEW r \in Runs, LogSnapshot(r) PROVE Stutter
    <2>1. Log(r, "snapshot", ok[r]) /\ touched' = touched /\ verified' = verified
      BY <1>19 DEF LogSnapshot, LogResult, world
    <2>2. Len(trail[r]) # 3
      <3>1. Len(trail[r]) = 2
        BY <1>0, <1>19 DEF LogSnapshot, Trailed, Logged
      <3> QED
        BY <3>1
    <2> QED
      BY <1>0, <2>1, <2>2, VerdictStays DEF verdict
  <1>20. ASSUME NEW r \in Runs, LogDecision(r) PROVE Promise!Next
    <2>1. Log(r, "approval_decision", ok[r]) /\ touched' = touched /\ verified' = verified
      BY <1>20 DEF LogDecision, LogResult, world
    <2>2. Len(trail[r]) = 3
      BY <1>0, <1>20 DEF LogDecision, Trailed, Logged
    <2>3. /\ Verdict(r) = "none"
          /\ Verdict(r)' \in {"approved", "refused"}
          /\ \A s \in Runs \ {r} : Verdict(s)' = Verdict(s)
      BY <1>0, <2>1, <2>2, VerdictDecided
    <2>4. verdict' = [verdict EXCEPT ![r] = Verdict(r)'] /\ verdict[r] = "none"
      BY <2>3 DEF verdict
    <2>5. Promise!Decide(r, Verdict(r)')
      BY <2>1, <2>4 DEF Promise!Decide, verdict
    <2> QED
      BY <2>3, <2>5 DEF Promise!Next
  <1>21. ASSUME NEW r \in Runs, HostFails(r) PROVE Stutter
    BY <1>21 DEF HostFails, control, Verdict, verdict
  <1>22. ASSUME NEW r \in Runs, HostApply(r) PROVE Promise!Next
    <2>1. /\ verdict' = verdict
          /\ verified' = verified
          /\ touched' = [touched EXCEPT ![r] = @ \cup {Inventory[play[r].at]}]
      BY <1>22 DEF HostApply, control, Current, verdict, Verdict
    <2>2. verdict[r] = "approved"
      <3>1. Passed(r)
        BY <1>22 DEF HostApply, RolloutInv, GateInv, GatePassed
      <3>2. Len(trail[r]) \in Nat /\ Len(trail[r]) >= 4 /\ trail[r][4] = GateEntries[4]
        BY <1>0, <3>1 DEF Passed, Through, TypeOK
      <3> QED
        BY <3>2, GateEntriesAre DEF Verdict, verdict
    <2>3. /\ touched[r] = Promise!Before(play[r].at)
          /\ verified[r] = Promise!Before(play[r].at)
          /\ play[r].at \in DOMAIN Inventory
      BY <1>0, <1>22 DEF HostApply, Ordered, Plays
    <2>4. Promise!Change(r, play[r].at)
      BY <2>1, <2>2, <2>3 DEF Promise!Change, verdict
    <2> QED
      BY <2>3, <2>4 DEF Promise!Next
  <1>23. ASSUME NEW r \in Runs, HostPass(r) PROVE Promise!Next
    <2>1. verdict' = verdict /\ touched' = touched
      BY <1>23 DEF HostPass, control, verdict, Verdict
    <2>2. verified' = [verified EXCEPT ![r] = touched[r]]
      BY <1>0, <1>23 DEF HostPass, Ordered
    <2>3. Promise!Verify(r)
      BY <2>1, <2>2 DEF Promise!Verify, verdict
    <2> QED
      BY <2>3 DEF Promise!Next
  <1>24. ASSUME NEW r \in Runs, PlayDies(r) PROVE Stutter
    BY <1>24 DEF PlayDies, control, Verdict, verdict
  <1>25. ASSUME NEW r \in Runs, NEW h \in Hosts, RemoteEnd(r, h) PROVE Stutter
    BY <1>25 DEF RemoteEnd, control, Verdict, verdict
  <1> QED
    BY <1>1, <1>2, <1>3, <1>4, <1>5, <1>6, <1>7, <1>8, <1>9, <1>10, <1>11,
       <1>12, <1>13, <1>14, <1>15, <1>16, <1>17, <1>18, <1>19, <1>20, <1>21,
       <1>22, <1>23, <1>24, <1>25 DEF Next, Proceed

\* The workflow with its plays, timeouts, crashes and orphans is a gated rollout
\* (executor/executor.py:73-192, ansible/playbooks/cpu_patch_apply.yml:16-22).
THEOREM Implements == Spec => ImplementsGatedRollout
  <1>1. Spec => Promise!Init
    BY RolloutInit, PTL DEF Spec
  <1>2. Spec => [][Promise!Next]_<<verdict, touched, verified>>
    BY RolloutInvariant, RolloutNext, PTL DEF Spec
  <1> QED
    BY <1>1, <1>2, PTL DEF ImplementsGatedRollout, Promise!Spec, verdict

-----------------------------------------------------------------------------
(* How a run ends *)

\* The entry that is appended is the last one.
LEMMA LogEnds ==
  ASSUME TypeOK, NEW r \in Runs, NEW event, NEW result, Log(r, event, result)
  PROVE  /\ \A s \in Runs \ {r} : trail'[s] = trail[s]
         /\ trail'[r] # <<>>
         /\ trail'[r][Len(trail'[r])].ok = result
  <1>1. /\ \A s \in Runs \ {r} : trail'[s] = trail[s]
        /\ Len(trail[r]) \in Nat
        /\ Len(trail'[r]) = Len(trail[r]) + 1
        /\ trail'[r][Len(trail[r]) + 1] = [event |-> event, ok |-> result]
    BY LogEffect
  <1>2. trail'[r] # <<>>
    BY <1>1
  <1> QED
    BY <1>1, <1>2

Halted(r) == pc[r] = "halted" => trail[r] # <<>> /\ ~trail[r][Len(trail[r])].ok

\* A step that appends to the log of one run leaves every halt explained, if the
\* entry is a failure when the step halts.
LEMMA HaltLogged ==
  ASSUME TypeOK, \A s \in Runs : Halted(s), NEW r \in Runs, NEW event, NEW result,
         Log(r, event, result), NEW next, Goto(r, next), next = "halted" => ~result
  PROVE  \A s \in Runs : Halted(s)'
  <1>1. /\ \A s \in Runs \ {r} : pc'[s] = pc[s]
        /\ pc'[r] = next
    BY DEF TypeOK, Goto
  <1>2. /\ \A s \in Runs \ {r} : trail'[s] = trail[s]
        /\ trail'[r] # <<>>
        /\ trail'[r][Len(trail'[r])].ok = result
    BY LogEnds
  <1>3. ASSUME NEW s \in Runs \ {r} PROVE Halted(s)'
    <2>1. pc'[s] = pc[s] /\ trail'[s] = trail[s] /\ Halted(s)
      BY <1>1, <1>2
    <2> QED
      BY <2>1 DEF Halted
  <1>4. Halted(r)'
    BY <1>1, <1>2 DEF Halted
  <1> QED
    BY <1>3, <1>4

\* A step that appends and does not halt leaves them explained, whatever it appends.
LEMMA LoggedOnly ==
  ASSUME TypeOK, \A s \in Runs : Halted(s), NEW r \in Runs, NEW event, NEW result,
         Log(r, event, result), NEW next, Goto(r, next), next # "halted"
  PROVE  \A s \in Runs : Halted(s)'
  <1>1. next = "halted" => ~result
    OBVIOUS
  <1> QED
    BY <1>1, HaltLogged, Zenon

LEMMA NextHalted ==
  TypeOK /\ (\A r \in Runs : Halted(r)) /\ [Next]_vars => (\A r \in Runs : Halted(r))'
  <1> DEFINE Goal == \A s \in Runs : Halted(s)'
  <1> SUFFICES ASSUME TypeOK, \A s \in Runs : Halted(s), [Next]_vars PROVE Goal
    OBVIOUS
  <1>0. /\ TypeOK /\ \A s \in Runs : Halted(s)
        /\ pc \in [Runs -> {"idle"} \cup Working \cup Ended]
        /\ ok \in [Runs -> BOOLEAN]
    BY DEF TypeOK
  <1>1. CASE UNCHANGED vars
    BY <1>1, <1>0 DEF vars, control, world, Halted
  <1>2. ASSUME NEW r \in Runs, Enter(r) PROVE Goal
    BY <1>2, <1>0 DEF Enter, Goto, world, Halted
  <1>3. ASSUME NEW r \in Runs, Vet(r) PROVE Goal
    BY <1>3, <1>0 DEF Vet, Goto, world, Halted
  <1>4. ASSUME NEW r \in Runs, Precheck(r) PROVE Goal
    BY <1>4, <1>0 DEF Precheck, Goto, Result, world, Halted
  <1>5. ASSUME NEW r \in Runs, Snapshot(r) PROVE Goal
    BY <1>5, <1>0 DEF Snapshot, Goto, Result, Halted
  <1>6. ASSUME NEW r \in Runs, Confirm(r) PROVE Goal
    BY <1>6, <1>0 DEF Confirm, Goto, Result, world, Halted
  <1>7. ASSUME NEW r \in Runs, Apply(r) PROVE Goal
    BY <1>7, <1>0 DEF Apply, Goto, Halted
  <1>8. ASSUME NEW r \in Runs, PlayEnd(r) PROVE Goal
    BY <1>8, <1>0 DEF PlayEnd, Goto, Result, world, Halted
  <1>9. ASSUME NEW r \in Runs, Timeout(r) PROVE Goal
    BY <1>9, <1>0 DEF Timeout, Goto, Turn, Result, Halted
  <1>10. ASSUME NEW r \in Runs, RollbackInfo(r) PROVE Goal
    BY <1>10, <1>0 DEF RollbackInfo, Goto, world, Halted
  <1>11. ASSUME NEW r \in Runs, Abort(r) PROVE Goal
    BY <1>11, <1>0 DEF Abort, Goto, Turn, Halted
  <1>12. ASSUME NEW r \in Runs, Kill(r) PROVE Goal
    BY <1>12, <1>0 DEF Kill, Goto, world, Halted
  <1>13. ASSUME NEW r \in Runs, Recommend(r) PROVE Goal
    <2>1. Log(r, "recommendation", TRUE) /\ Goto(r, "vet")
      BY <1>13 DEF Recommend
    <2> QED
      BY <1>0, <2>1, LoggedOnly, Zenon
  <1>14. ASSUME NEW r \in Runs, Reject(r) PROVE Goal
    <2>1. Log(r, "validation_result", FALSE) /\ Goto(r, "halted")
      BY <1>14 DEF Reject
    <2> QED
      BY <1>0, <2>1, HaltLogged, Zenon
  <1>15. ASSUME NEW r \in Runs, LogApply(r) PROVE Goal
    <2>1. Log(r, "execution_output", ok[r]) /\ Goto(r, IF ok[r] THEN "log_success" ELSE "rollback_info")
      BY <1>15 DEF LogApply
    <2> QED
      BY <1>0, <2>1, HaltLogged
  <1>16. ASSUME NEW r \in Runs, LogFailure(r) PROVE Goal
    <2>1. Log(r, "validation_result", FALSE) /\ Goto(r, "halted")
      BY <1>16 DEF LogFailure
    <2> QED
      BY <1>0, <2>1, HaltLogged, Zenon
  <1>17. ASSUME NEW r \in Runs, LogSuccess(r) PROVE Goal
    <2>1. Log(r, "validation_result", TRUE) /\ Goto(r, "returned")
      BY <1>17 DEF LogSuccess
    <2> QED
      BY <1>0, <2>1, LoggedOnly, Zenon
  <1>18. ASSUME NEW r \in Runs, LogDryRun(r) PROVE Goal
    <2>1. Log(r, "dry_run_result", ok[r]) /\ Goto(r, IF ok[r] THEN "snapshot" ELSE "halted")
      BY <1>18 DEF LogDryRun, LogResult
    <2> QED
      BY <1>0, <2>1, HaltLogged
  <1>19. ASSUME NEW r \in Runs, LogSnapshot(r) PROVE Goal
    <2>1. Log(r, "snapshot", ok[r]) /\ Goto(r, IF ok[r] THEN "confirm" ELSE "halted")
      BY <1>19 DEF LogSnapshot, LogResult
    <2> QED
      BY <1>0, <2>1, HaltLogged
  <1>20. ASSUME NEW r \in Runs, LogDecision(r) PROVE Goal
    <2>1. Log(r, "approval_decision", ok[r]) /\ Goto(r, IF ok[r] THEN "apply" ELSE "halted")
      BY <1>20 DEF LogDecision, LogResult
    <2> QED
      BY <1>0, <2>1, HaltLogged
  <1>21. ASSUME NEW r \in Runs, HostFails(r) PROVE Goal
    BY <1>21, <1>0 DEF HostFails, Turn, control, Halted
  <1>22. ASSUME NEW r \in Runs, HostApply(r) PROVE Goal
    BY <1>22, <1>0 DEF HostApply, Turn, control, Halted
  <1>23. ASSUME NEW r \in Runs, HostPass(r) PROVE Goal
    BY <1>23, <1>0 DEF HostPass, control, Halted
  <1>24. ASSUME NEW r \in Runs, PlayDies(r) PROVE Goal
    BY <1>24, <1>0 DEF PlayDies, Turn, control, Halted
  <1>25. ASSUME NEW r \in Runs, NEW h \in Hosts, RemoteEnd(r, h) PROVE Goal
    BY <1>25, <1>0 DEF RemoteEnd, Turn, control, Halted
  <1> QED
    BY <1>1, <1>2, <1>3, <1>4, <1>5, <1>6, <1>7, <1>8, <1>9, <1>10, <1>11,
       <1>12, <1>13, <1>14, <1>15, <1>16, <1>17, <1>18, <1>19, <1>20, <1>21,
       <1>22, <1>23, <1>24, <1>25 DEF Next, Proceed

\* A run that halts has logged why: its last audit entry is the failure
\* (executor/executor.py:38-44), whatever the run met and however many run.
THEOREM HaltIsExplained == Spec => []HaltExplained
  <1>1. Init => \A r \in Runs : Halted(r)
    BY DEF Init, Halted
  <1>2. (\A r \in Runs : Halted(r)) => HaltExplained
    BY DEF Halted, HaltExplained
  <1>3. TypeInv => TypeOK
    BY DEF TypeInv
  <1> QED
    BY TypeInvariant, NextHalted, <1>1, <1>2, <1>3, PTL DEF Spec

\* Every host of the inventory has been verified.
AllVerified(r) == \A i \in DOMAIN Inventory : Inventory[i] \in verified[r]

LEMMA AllBefore ==
  \A i \in DOMAIN Inventory : Inventory[i] \in Promise!Before(Len(Inventory) + 1)
  <1> SUFFICES ASSUME NEW i \in DOMAIN Inventory
               PROVE  Inventory[i] \in Promise!Before(Len(Inventory) + 1)
    OBVIOUS
  <1>1. i \in 1 .. (Len(Inventory) + 1) - 1
    BY InventoryType
  <1> QED
    BY <1>1 DEF Promise!Before

\* After the entries of the gate, one or two that report success.
OneGood(r) == Len(trail[r]) = 5 /\ trail[r][5] = Good("execution_output")

TwoGood(r) ==
  /\ Passed(r)
  /\ Len(trail[r]) = 6
  /\ trail[r][5] = Good("execution_output")
  /\ trail[r][6] = Good("validation_result")

\* A run on its way to a normal return: its play has passed, so every host is
\* verified, and the log says so.
Success(r) ==
  /\ play[r].state = "passed" => AllVerified(r)
  /\ pc[r] = "log_apply" /\ ok[r] => play[r].state = "passed"
  /\ pc[r] = "log_success" => play[r].state = "passed" /\ OneGood(r)
  /\ pc[r] = "returned" => play[r].state = "passed" /\ TwoGood(r)

Succeeding == \A r \in Runs : Success(r)

\* A run that a step leaves alone; one that goes somewhere else.
LEMMA SuccessKept ==
  \A s \in Runs :
    /\ Success(s)
    /\ trail'[s] = trail[s] /\ play'[s] = play[s] /\ verified'[s] = verified[s]
    /\ pc'[s] = pc[s] /\ ok'[s] = ok[s]
    => Success(s)'
  BY DEF Success, AllVerified, OneGood, TwoGood, Passed, Through

LEMMA SuccessFree ==
  \A s \in Runs :
    /\ Success(s)
    /\ \/ play'[s] = play[s] /\ verified'[s] = verified[s]
       \/ play'[s].state # "passed"
    /\ pc'[s] \notin {"log_apply", "log_success", "returned"}
    => Success(s)'
  BY DEF Success, AllVerified

\* A run whose play has not passed is on its way to nothing.
LEMMA SuccessTurned ==
  \A s \in Runs :
    /\ Success(s)
    /\ play[s].state # "passed" /\ play'[s].state # "passed"
    /\ pc'[s] = pc[s] /\ ok'[s] = ok[s]
    => Success(s)'
  BY DEF Success

LEMMA NextSucceeding == RolloutInv /\ Succeeding /\ [Next]_vars => Succeeding'
  <1> SUFFICES ASSUME RolloutInv, Succeeding, [Next]_vars PROVE Succeeding'
    OBVIOUS
  <1>0. /\ TypeOK /\ Trailed /\ Begun /\ Ordered
        /\ pc \in [Runs -> {"idle"} \cup Working \cup Ended]
        /\ ok \in [Runs -> BOOLEAN]
        /\ play \in [Runs -> Plays]
        /\ verified \in [Runs -> SUBSET Hosts]
        /\ touched \in [Runs -> SUBSET Hosts]
    BY DEF RolloutInv, GateInv, TypeInv, TypeOK, Plays
  <1>a. \A s \in Runs : Success(s)
    BY DEF Succeeding
  <1> SUFFICES \A s \in Runs : Success(s)'
    BY DEF Succeeding
  <1>1. CASE UNCHANGED vars
    BY <1>1, <1>0, <1>a, SuccessKept, SuccessFree DEF vars, control, world,
       Active
  <1>2. ASSUME NEW r \in Runs, Enter(r) PROVE \A s \in Runs : Success(s)'
    BY <1>2, <1>0, <1>a, SuccessKept, SuccessFree DEF Enter, Goto, world,
       Active
  <1>3. ASSUME NEW r \in Runs, Vet(r) PROVE \A s \in Runs : Success(s)'
    BY <1>3, <1>0, <1>a, SuccessKept, SuccessFree DEF Vet, Goto, world, Active
  <1>4. ASSUME NEW r \in Runs, Precheck(r) PROVE \A s \in Runs : Success(s)'
    BY <1>4, <1>0, <1>a, SuccessKept, SuccessFree DEF Precheck, Goto, Result,
       world, Active
  <1>5. ASSUME NEW r \in Runs, Snapshot(r) PROVE \A s \in Runs : Success(s)'
    BY <1>5, <1>0, <1>a, SuccessKept, SuccessFree DEF Snapshot, Goto, Result,
       Active
  <1>6. ASSUME NEW r \in Runs, Confirm(r) PROVE \A s \in Runs : Success(s)'
    BY <1>6, <1>0, <1>a, SuccessKept, SuccessFree DEF Confirm, Goto, Result,
       world, Active
  <1>7. ASSUME NEW r \in Runs, Apply(r) PROVE \A s \in Runs : Success(s)'
    <2>1. play[r].state = "none"
      BY <1>0, <1>7 DEF Apply, Begun, Ended
    <2> QED
      BY <1>0, <1>a, <1>7, <2>1, SuccessKept, SuccessFree DEF Apply, Goto
  <1>8. ASSUME NEW r \in Runs, PlayEnd(r) PROVE \A s \in Runs : Success(s)'
    <2>1. \A s \in Runs \ {r} : Success(s)'
      BY <1>0, <1>a, <1>8, SuccessKept DEF PlayEnd, Goto, Result, world
    <2>2. Success(r)'
      BY <1>0, <1>a, <1>8 DEF PlayEnd, Goto, Result, world, Success, AllVerified
    <2> QED
      BY <2>1, <2>2
  <1>9. ASSUME NEW r \in Runs, Timeout(r) PROVE \A s \in Runs : Success(s)'
    <2>1. \A s \in Runs \ {r} : Success(s)'
      BY <1>0, <1>a, <1>9, SuccessKept DEF Timeout, Goto, Turn, Result
    <2>2. Success(r)'
      BY <1>0, <1>a, <1>9 DEF Timeout, Goto, Turn, Result, Success, Active
    <2> QED
      BY <2>1, <2>2
  <1>10. ASSUME NEW r \in Runs, RollbackInfo(r) PROVE \A s \in Runs : Success(s)'
    BY <1>10, <1>0, <1>a, SuccessKept, SuccessFree DEF RollbackInfo, Goto,
       world, Active
  <1>11. ASSUME NEW r \in Runs, Abort(r) PROVE \A s \in Runs : Success(s)'
    <2>1. \A s \in Runs \ {r} : Success(s)'
      BY <1>0, <1>a, <1>11, SuccessKept DEF Abort, Goto, Turn
    <2>2. Success(r)'
      <3>1. pc'[r] = "raised" /\ verified' = verified
        BY <1>0, <1>11 DEF Abort, Goto
      <3>2. play'[r] = play[r] \/ play'[r].state = "killed"
        BY <1>0, <1>11 DEF Abort, Turn, Plays
      <3> QED
        BY <1>a, <3>1, <3>2, SuccessFree
    <2> QED
      BY <2>1, <2>2
  <1>12. ASSUME NEW r \in Runs, Kill(r) PROVE \A s \in Runs : Success(s)'
    BY <1>12, <1>0, <1>a, SuccessKept, SuccessFree DEF Kill, Goto, world,
       Active
  <1>13. ASSUME NEW r \in Runs, Recommend(r) PROVE \A s \in Runs : Success(s)'
    <2>1. Log(r, "recommendation", TRUE)
      BY <1>13 DEF Recommend
    <2>2. \A s \in Runs \ {r} : trail'[s] = trail[s]
      BY <1>0, <2>1, LogEffect
    <2> QED
      BY <1>0, <1>a, <1>13, <2>2, SuccessKept, SuccessFree DEF Recommend, Goto, world
  <1>14. ASSUME NEW r \in Runs, Reject(r) PROVE \A s \in Runs : Success(s)'
    <2>1. Log(r, "validation_result", FALSE)
      BY <1>14 DEF Reject
    <2>2. \A s \in Runs \ {r} : trail'[s] = trail[s]
      BY <1>0, <2>1, LogEffect
    <2> QED
      BY <1>0, <1>a, <1>14, <2>2, SuccessKept, SuccessFree DEF Reject, Goto, world
  <1>15. ASSUME NEW r \in Runs, LogApply(r) PROVE \A s \in Runs : Success(s)'
    <2>1. Log(r, "execution_output", ok[r])
      BY <1>15 DEF LogApply
    <2>2. /\ \A s \in Runs \ {r} : trail'[s] = trail[s]
          /\ Len(trail'[r]) = Len(trail[r]) + 1
          /\ trail'[r][Len(trail[r]) + 1] = [event |-> "execution_output", ok |-> ok[r]]
      BY <1>0, <2>1, LogEffect
    <2>3. Len(trail[r]) = 4
      BY <1>0, <1>15 DEF LogApply, Trailed, Logged
    <2>4. ok[r] => OneGood(r)'
      BY <1>0, <2>2, <2>3 DEF Good, OneGood
    <2>5. \A s \in Runs \ {r} : Success(s)'
      BY <1>0, <1>a, <1>15, <2>2, SuccessKept DEF LogApply, Goto, world
    <2>6. Success(r)'
      <3>1. verified'[r] = verified[r] => (AllVerified(r) => AllVerified(r)')
        BY DEF AllVerified
      <3> QED
        BY <1>0, <1>a, <1>15, <2>4, <3>1 DEF LogApply, Goto, world, Success
    <2> QED
      BY <2>5, <2>6
  <1>16. ASSUME NEW r \in Runs, LogFailure(r) PROVE \A s \in Runs : Success(s)'
    <2>1. Log(r, "validation_result", FALSE)
      BY <1>16 DEF LogFailure
    <2>2. \A s \in Runs \ {r} : trail'[s] = trail[s]
      BY <1>0, <2>1, LogEffect
    <2> QED
      BY <1>0, <1>a, <1>16, <2>2, SuccessKept, SuccessFree DEF LogFailure, Goto, world
  <1>17. ASSUME NEW r \in Runs, LogSuccess(r) PROVE \A s \in Runs : Success(s)'
    <2>1. Log(r, "validation_result", TRUE)
      BY <1>17 DEF LogSuccess
    <2>2. /\ \A s \in Runs \ {r} : trail'[s] = trail[s]
          /\ Len(trail'[r]) = Len(trail[r]) + 1
          /\ trail'[r][Len(trail[r]) + 1] = [event |-> "validation_result", ok |-> TRUE]
      <3>1. PICK t : t = TRUE
        OBVIOUS
      <3>2. Log(r, "validation_result", t)
        BY <2>1, <3>1
      <3>3. TypeOK
        BY <1>0
      <3>4. /\ \A s \in Runs \ {r} : trail'[s] = trail[s]
            /\ Len(trail'[r]) = Len(trail[r]) + 1
            /\ trail'[r][Len(trail[r]) + 1] = [event |-> "validation_result", ok |-> t]
        BY <3>2, <3>3, LogEffect
      <3> QED
        BY <3>1, <3>4, Zenon
    <2>a. \A i \in 1 .. Len(trail[r]) : trail'[r][i] = trail[r][i]
      BY <1>0, TrailsGrow
    <2>3. OneGood(r) /\ Passed(r)
      BY <1>0, <1>a, <1>17 DEF LogSuccess, Success, Trailed
    <2>4. TwoGood(r)'
      <3>1. Len(trail[r]) = 5 /\ trail[r][5] = Good("execution_output")
        BY <2>3 DEF OneGood
      <3>2. /\ Len(trail'[r]) = 6
            /\ trail'[r][6] = Good("validation_result")
            /\ \A i \in 1 .. 5 : trail'[r][i] = trail[r][i]
        BY <2>2, <2>a, <3>1 DEF Good
      <3>3. Passed(r)'
        BY <2>3, <3>2 DEF Passed, Through
      <3> QED
        BY <3>1, <3>2, <3>3 DEF TwoGood
    <2>5. \A s \in Runs \ {r} : Success(s)'
      BY <1>0, <1>a, <1>17, <2>2, SuccessKept DEF LogSuccess, Goto, world
    <2>6. Success(r)'
      <3>1. verified'[r] = verified[r] => (AllVerified(r) => AllVerified(r)')
        BY DEF AllVerified
      <3> QED
        BY <1>0, <1>a, <1>17, <2>4, <3>1 DEF LogSuccess, Goto, world, Success
    <2> QED
      BY <2>5, <2>6
  <1>18. ASSUME NEW r \in Runs, LogDryRun(r) PROVE \A s \in Runs : Success(s)'
    <2>1. Log(r, "dry_run_result", ok[r])
      BY <1>18 DEF LogDryRun, LogResult
    <2>2. \A s \in Runs \ {r} : trail'[s] = trail[s]
      BY <1>0, <2>1, LogEffect
    <2> QED
      BY <1>0, <1>a, <1>18, <2>2, SuccessKept, SuccessFree DEF LogDryRun, LogResult, Goto, world
  <1>19. ASSUME NEW r \in Runs, LogSnapshot(r) PROVE \A s \in Runs : Success(s)'
    <2>1. Log(r, "snapshot", ok[r])
      BY <1>19 DEF LogSnapshot, LogResult
    <2>2. \A s \in Runs \ {r} : trail'[s] = trail[s]
      BY <1>0, <2>1, LogEffect
    <2> QED
      BY <1>0, <1>a, <1>19, <2>2, SuccessKept, SuccessFree DEF LogSnapshot, LogResult, Goto, world
  <1>20. ASSUME NEW r \in Runs, LogDecision(r) PROVE \A s \in Runs : Success(s)'
    <2>1. Log(r, "approval_decision", ok[r])
      BY <1>20 DEF LogDecision, LogResult
    <2>2. \A s \in Runs \ {r} : trail'[s] = trail[s]
      BY <1>0, <2>1, LogEffect
    <2> QED
      BY <1>0, <1>a, <1>20, <2>2, SuccessKept, SuccessFree DEF LogDecision, LogResult, Goto, world
  <1>21. ASSUME NEW r \in Runs, HostFails(r) PROVE \A s \in Runs : Success(s)'
    <2>1. \A s \in Runs \ {r} : Success(s)'
      BY <1>0, <1>a, <1>21, SuccessKept DEF HostFails, Turn, control
    <2>2. Success(r)'
      BY <1>0, <1>a, <1>21, SuccessTurned DEF HostFails, Turn, control
    <2> QED
      BY <2>1, <2>2
  <1>22. ASSUME NEW r \in Runs, HostApply(r) PROVE \A s \in Runs : Success(s)'
    <2>1. \A s \in Runs \ {r} : Success(s)'
      BY <1>0, <1>a, <1>22, SuccessKept DEF HostApply, Turn, control
    <2>2. Success(r)'
      BY <1>0, <1>a, <1>22, SuccessTurned DEF HostApply, Turn, control
    <2> QED
      BY <2>1, <2>2
  <1>23. ASSUME NEW r \in Runs, HostPass(r) PROVE \A s \in Runs : Success(s)'
    <2>1. play'[r].state = "passed" =>
            /\ play[r].at = Len(Inventory)
            /\ touched[r] = Promise!Before(Len(Inventory) + 1)
            /\ verified'[r] = touched[r]
      <3>1. /\ play[r].at \in DOMAIN Inventory
            /\ touched[r] = Promise!Before(play[r].at) \cup {Current(r)}
            /\ verified[r] = Promise!Before(play[r].at)
        BY <1>0, <1>23 DEF HostPass, Ordered, Plays
      <3>2. touched[r] = Promise!Before(play[r].at + 1)
        BY <3>1, BeforeNext DEF Current
      <3>3. verified'[r] = touched[r]
        BY <1>0, <1>23, <3>1 DEF HostPass
      <3>4. play'[r].state = "passed" => play[r].at = Len(Inventory)
        BY <1>0, <1>23 DEF HostPass
      <3> QED
        BY <3>2, <3>3, <3>4
    <2>2. play'[r].state = "passed" => AllVerified(r)'
      BY <2>1, AllBefore DEF AllVerified
    <2>3. \A s \in Runs \ {r} : play'[s] = play[s] /\ verified'[s] = verified[s]
      BY <1>0, <1>23 DEF HostPass
    <2>4. play[r].state # "passed"
      BY <1>23 DEF HostPass
    <2> QED
      BY <1>0, <1>a, <1>23, <2>2, <2>3, <2>4, SuccessKept DEF HostPass, control, Success
  <1>24. ASSUME NEW r \in Runs, PlayDies(r) PROVE \A s \in Runs : Success(s)'
    <2>1. \A s \in Runs \ {r} : Success(s)'
      BY <1>0, <1>a, <1>24, SuccessKept DEF PlayDies, Turn, control
    <2>2. Success(r)'
      BY <1>0, <1>a, <1>24, SuccessTurned DEF PlayDies, Turn, control, Active
    <2> QED
      BY <2>1, <2>2
  <1>25. ASSUME NEW r \in Runs, NEW h \in Hosts, RemoteEnd(r, h) PROVE \A s \in Runs : Success(s)'
    <2>1. \A s \in Runs \ {r} : Success(s)'
      BY <1>0, <1>a, <1>25, SuccessKept DEF RemoteEnd, Turn, control
    <2>2. Success(r)'
      <3>1. /\ trail' = trail /\ verified' = verified
            /\ pc' = pc /\ ok' = ok
        BY <1>25 DEF RemoteEnd, control
      <3>2. \/ play'[r] = play[r]
            \/ play[r].state = "change" /\ play'[r].state \in {"verify", "failed"}
        BY <1>0, <1>25 DEF RemoteEnd, Turn, Plays
      <3> QED
        BY <1>a, <3>1, <3>2, SuccessKept, SuccessTurned
    <2> QED
      BY <2>1, <2>2
  <1> QED
    BY <1>1, <1>2, <1>3, <1>4, <1>5, <1>6, <1>7, <1>8, <1>9, <1>10, <1>11,
       <1>12, <1>13, <1>14, <1>15, <1>16, <1>17, <1>18, <1>19, <1>20, <1>21,
       <1>22, <1>23, <1>24, <1>25 DEF Next, Proceed

\* A run that returned normally was through the gate, and its last two entries
\* report the success.
LEMMA SuccessTrail ==
  ASSUME TypeOK, NEW r \in Runs, TwoGood(r)
  PROVE  trail[r] = GateEntries \o <<Good("execution_output"), Good("validation_result")>>
  <1> DEFINE all == <<Good("recommendation"), Good("dry_run_result"),
                      Good("snapshot"), Good("approval_decision"),
                      Good("execution_output"), Good("validation_result")>>
  <1>2. /\ trail[r][1] = Good("recommendation")
        /\ trail[r][2] = Good("dry_run_result")
        /\ trail[r][3] = Good("snapshot")
        /\ trail[r][4] = Good("approval_decision")
    BY GateEntriesAre DEF TwoGood, Passed, Through, Good
  <1>3. trail[r] \in Seq(TrailEntry) /\ all \in Seq(TrailEntry) /\ Len(all) = 6
    BY DEF TypeOK, TrailEntry, Good, Event
  <1>1. GateEntries \o <<Good("execution_output"), Good("validation_result")>> = all
    <2> DEFINE last == <<Good("execution_output"), Good("validation_result")>>
               both == GateEntries \o last
    <2>1. /\ GateEntries \in Seq(TrailEntry) /\ Len(GateEntries) = 4
          /\ last \in Seq(TrailEntry) /\ Len(last) = 2
          /\ \A i \in 1 .. 4 : GateEntries[i] = all[i]
          /\ last[1] = all[5] /\ last[2] = all[6]
      BY DEF GateEntries, TrailEntry, Good, Event
    <2> HIDE DEF last, all
    <2>2. /\ both \in Seq(TrailEntry)
          /\ Len(both) = Len(GateEntries) + Len(last)
          /\ \A i \in 1 .. Len(GateEntries) + Len(last) :
               both[i] = IF i <= Len(GateEntries) THEN GateEntries[i]
                                                  ELSE last[i - Len(GateEntries)]
      BY <2>1, ConcatProperties
    <2> HIDE DEF both
    <2>3. Len(both) = 6 /\ \A i \in 1 .. 6 : both[i] = all[i]
      BY <2>1, <2>2
    <2>4. both = all
      BY <1>3, <2>2, <2>3, SeqEqual
    <2> QED
      BY <2>4 DEF both, last
  <1>4. \A i \in 1 .. 6 : trail[r][i] = all[i]
    BY <1>2 DEF TwoGood
  <1>5. trail[r] = all
    <2> HIDE DEF all
    <2> QED
      BY <1>3, <1>4, SeqEqual DEF TwoGood
  <1> QED
    BY <1>1, <1>5

SucceedingInv == RolloutInv /\ Succeeding

LEMMA SucceedingInvariant == Spec => []SucceedingInv
  <1>1. Init => Succeeding
    BY DEF Init, Succeeding, Success, Idle
  <1> QED
    BY RolloutInvariant, NextSucceeding, <1>1, PTL DEF Spec, SucceedingInv

\* What SuccessComplete says of a run whatever other runs do.
SuccessVerified ==
  \A r \in Runs : pc[r] = "returned" =>
    /\ AllVerified(r)
    /\ trail[r] = GateEntries \o <<Good("execution_output"), Good("validation_result")>>

\* A run that returns normally has verified every host of the inventory, and its
\* audit trail is the gate and two good entries, without a failure
\* (executor/executor.py:154-192), however many runs are under way.
THEOREM SuccessIsVerified == Spec => []SuccessVerified
  <1>1. SucceedingInv => SuccessVerified
    BY SuccessTrail DEF SucceedingInv, RolloutInv, GateInv, TypeInv, Succeeding,
       Success, SuccessVerified
  <1> QED
    BY SucceedingInvariant, <1>1, PTL

-----------------------------------------------------------------------------
(* What success means for the databases: a change command that another run   *)
(* has left behind may undo what a postcheck has seen                        *)

\* No command of another run is at work on a host that this one has begun to
\* change.
Undisturbed(r) == \A h \in touched[r] : remote[h] \subseteq {r}

\* No change command of the run is left running on a host that it has verified or
\* is about to, so nothing of its own can undo what the postcheck saw.
HostsDone(r) ==
  /\ verified[r] \subseteq touched[r]
  /\ \A h \in Hosts : r \in remote[h] =>
       /\ h \notin verified[r]
       /\ play[r].state = "verify" => Current(r) # h
  /\ \A h \in verified[r] : db[h] = "patched"
  /\ play[r].state = "verify" => db[Current(r)] = "patched"

LEMMA NotBefore == \A i \in DOMAIN Inventory : Inventory[i] \notin Promise!Before(i)
  <1> SUFFICES ASSUME NEW i \in DOMAIN Inventory, NEW j \in 1 .. i - 1
               PROVE  Inventory[j] # Inventory[i]
    BY DEF Promise!Before
  <1>1. i \in 1 .. Len(Inventory) /\ Len(Inventory) \in Nat
    BY InventoryType
  <1>2. j \in DOMAIN Inventory /\ j # i
    BY <1>1, InventoryType
  <1> QED
    BY <1>2, InventoryAssumption

LEMMA DoneKept ==
  ASSUME NEW r \in Runs, HostsDone(r),
         remote' = remote, touched' = touched, verified' = verified, db' = db,
         play'[r] = play[r] \/ play'[r].state # "verify"
  PROVE  HostsDone(r)'
  BY DEF HostsDone, Current

\* What the change commands and the plays of other runs leave alone.
LEMMA DoneBeside ==
  ASSUME NEW r \in Runs, HostsDone(r),
         touched'[r] = touched[r], verified'[r] = verified[r], play'[r] = play[r],
         \A h \in Hosts : r \in remote'[h] => r \in remote[h],
         \A h \in touched[r] : db'[h] = db[h],
         play[r].state = "verify" => Current(r) \in touched[r]
  PROVE  HostsDone(r)'
  BY DEF HostsDone, Current

LEMMA NextHostsDone ==
  ASSUME NEW r \in Runs
  PROVE  RolloutInv /\ HostsDone(r) /\ Undisturbed(r) /\ [Next]_vars => HostsDone(r)'
  <1> SUFFICES ASSUME RolloutInv, HostsDone(r), Undisturbed(r), [Next]_vars
               PROVE  HostsDone(r)'
    OBVIOUS
  <1>0. /\ HostsDone(r) /\ Ordered
        /\ play \in [Runs -> Plays]
        /\ remote \in [Hosts -> SUBSET Runs]
        /\ touched \in [Runs -> SUBSET Hosts]
        /\ verified \in [Runs -> SUBSET Hosts]
        /\ db \in [Hosts -> DbStates]
    BY DEF RolloutInv, GateInv, TypeInv, TypeOK, Plays
  <1>a. play[r].state = "verify" => Current(r) \in touched[r] /\ Current(r) \in Hosts
    BY <1>0 DEF Ordered
  <1>1. CASE UNCHANGED vars
    BY <1>1, <1>0, DoneKept DEF vars, control, world
  <1>2. ASSUME NEW s \in Runs, Enter(s) PROVE HostsDone(r)'
    BY <1>2, <1>0, DoneKept DEF Enter, Goto, world, Plays
  <1>3. ASSUME NEW s \in Runs, Vet(s) PROVE HostsDone(r)'
    BY <1>3, <1>0, DoneKept DEF Vet, Goto, world, Plays
  <1>4. ASSUME NEW s \in Runs, Precheck(s) PROVE HostsDone(r)'
    BY <1>4, <1>0, DoneKept DEF Precheck, Goto, Result, world, Plays
  <1>5. ASSUME NEW s \in Runs, Snapshot(s) PROVE HostsDone(r)'
    BY <1>5, <1>0, DoneKept DEF Snapshot, Goto, Result, Plays
  <1>6. ASSUME NEW s \in Runs, Confirm(s) PROVE HostsDone(r)'
    BY <1>6, <1>0, DoneKept DEF Confirm, Goto, Result, world, Plays
  <1>7. ASSUME NEW s \in Runs, Apply(s) PROVE HostsDone(r)'
    BY <1>7, <1>0, DoneKept DEF Apply, Goto, Plays
  <1>8. ASSUME NEW s \in Runs, PlayEnd(s) PROVE HostsDone(r)'
    BY <1>8, <1>0, DoneKept DEF PlayEnd, Goto, Result, world, Plays
  <1>9. ASSUME NEW s \in Runs, Timeout(s) PROVE HostsDone(r)'
    BY <1>9, <1>0, DoneKept DEF Timeout, Goto, Turn, Result, Plays
  <1>10. ASSUME NEW s \in Runs, RollbackInfo(s) PROVE HostsDone(r)'
    BY <1>10, <1>0, DoneKept DEF RollbackInfo, Goto, world, Plays
  <1>11. ASSUME NEW s \in Runs, Abort(s) PROVE HostsDone(r)'
    BY <1>11, <1>0, DoneKept DEF Abort, Goto, Turn, Plays
  <1>12. ASSUME NEW s \in Runs, Kill(s) PROVE HostsDone(r)'
    BY <1>12, <1>0, DoneKept DEF Kill, Goto, world, Plays
  <1>13. ASSUME NEW s \in Runs, Recommend(s) PROVE HostsDone(r)'
    BY <1>13, <1>0, DoneKept DEF Recommend, Goto, world, Plays
  <1>14. ASSUME NEW s \in Runs, Reject(s) PROVE HostsDone(r)'
    BY <1>14, <1>0, DoneKept DEF Reject, Goto, world, Plays
  <1>15. ASSUME NEW s \in Runs, LogApply(s) PROVE HostsDone(r)'
    BY <1>15, <1>0, DoneKept DEF LogApply, Goto, world, Plays
  <1>16. ASSUME NEW s \in Runs, LogFailure(s) PROVE HostsDone(r)'
    BY <1>16, <1>0, DoneKept DEF LogFailure, Goto, world, Plays
  <1>17. ASSUME NEW s \in Runs, LogSuccess(s) PROVE HostsDone(r)'
    BY <1>17, <1>0, DoneKept DEF LogSuccess, Goto, world, Plays
  <1>18. ASSUME NEW s \in Runs, LogDryRun(s) PROVE HostsDone(r)'
    BY <1>18, <1>0, DoneKept DEF LogDryRun, LogResult, Goto, world, Plays
  <1>19. ASSUME NEW s \in Runs, LogSnapshot(s) PROVE HostsDone(r)'
    BY <1>19, <1>0, DoneKept DEF LogSnapshot, LogResult, Goto, world, Plays
  <1>20. ASSUME NEW s \in Runs, LogDecision(s) PROVE HostsDone(r)'
    BY <1>20, <1>0, DoneKept DEF LogDecision, LogResult, Goto, world, Plays
  <1>21. ASSUME NEW s \in Runs, HostFails(s) PROVE HostsDone(r)'
    BY <1>21, <1>0, DoneKept DEF HostFails, Turn, control, Plays
  <1>22. ASSUME NEW s \in Runs, HostApply(s) PROVE HostsDone(r)'
    <2>1. CASE s # r
      <3>1. /\ touched'[r] = touched[r] /\ verified' = verified /\ db' = db
            /\ play'[r] = play[r]
            /\ \A h \in Hosts : r \in remote'[h] => r \in remote[h]
        BY <1>0, <1>22, <2>1 DEF HostApply, Turn
      <3> QED
        BY <1>0, <1>a, <3>1, DoneBeside
    <2>2. CASE s = r
      <3>1. /\ play[r].state = "gate" /\ play[r].at \in DOMAIN Inventory
            /\ verified[r] = Promise!Before(play[r].at)
        BY <1>0, <1>22, <2>2 DEF HostApply, Ordered, Plays
      <3>2. Current(r) \notin verified[r] /\ Current(r) \in Hosts
        BY <3>1, NotBefore, InventoryType DEF Current
      <3>3. play'[r].state = "change"
        BY <1>0, <1>22, <2>2 DEF HostApply, Turn, Plays
      <3>4. /\ remote' = [remote EXCEPT ![Current(r)] = remote[Current(r)] \cup {r}]
            /\ touched' = [touched EXCEPT ![r] = touched[r] \cup {Current(r)}]
            /\ verified' = verified /\ db' = db
        BY <1>22, <2>2, Zenon DEF HostApply
      <3>5. \A h \in Hosts : r \in remote'[h] => r \in remote[h] \/ h = Current(r)
        BY <1>0, <3>2, <3>4
      <3>6. touched[r] \subseteq touched'[r]
        BY <1>0, <3>4
      <3> QED
        BY <1>0, <3>2, <3>3, <3>4, <3>5, <3>6 DEF HostsDone
    <2> QED
      BY <2>1, <2>2
  <1>23. ASSUME NEW s \in Runs, HostPass(s) PROVE HostsDone(r)'
    <2>1. CASE s # r
      <3>1. /\ touched' = touched /\ verified'[r] = verified[r]
            /\ remote' = remote /\ db' = db /\ play'[r] = play[r]
        BY <1>0, <1>23, <2>1 DEF HostPass
      <3> QED
        BY <1>0, <1>a, <3>1, DoneBeside
    <2>2. CASE s = r
      <3>1. /\ play[r].state = "verify"
            /\ play'[r].state # "verify"
            /\ verified'[r] = verified[r] \cup {Current(r)}
            /\ touched' = touched /\ remote' = remote /\ db' = db
        BY <1>0, <1>23, <2>2 DEF HostPass, Plays
      <3> QED
        BY <1>0, <1>a, <3>1 DEF HostsDone
    <2> QED
      BY <2>1, <2>2
  <1>24. ASSUME NEW s \in Runs, PlayDies(s) PROVE HostsDone(r)'
    BY <1>24, <1>0, DoneKept DEF PlayDies, Turn, control, Plays
  <1>25. ASSUME NEW s \in Runs, NEW h \in Hosts, RemoteEnd(s, h) PROVE HostsDone(r)'
    <2>1. PICK effect \in Effects, success \in BOOLEAN :
            /\ success => effect = "full"
            /\ db' = [db EXCEPT ![h] = After(db[h], effect)]
            /\ IF play[s].state = "change" /\ Current(s) = h
                 THEN Turn(s, IF success THEN "verify" ELSE "failed")
                 ELSE UNCHANGED play
      BY <1>25, Zenon DEF RemoteEnd
    <2>2. /\ s \in remote[h]
          /\ remote' = [remote EXCEPT ![h] = remote[h] \ {s}]
          /\ verified' = verified /\ touched' = touched
      BY <1>25, Zenon DEF RemoteEnd
    <2>3. \A g \in Hosts : g # h => db'[g] = db[g] /\ remote'[g] = remote[g]
      BY <1>0, <2>1, <2>2
    <2>4. CASE s # r
      <3>1. h \notin touched[r]
        BY <2>2, <2>4 DEF Undisturbed
      <3>2. \A g \in touched[r] : db'[g] = db[g]
        BY <1>0, <2>3, <3>1
      <3>3. \A g \in Hosts : r \in remote'[g] => r \in remote[g]
        BY <1>0, <2>2
      <3>4. play'[r] = play[r]
        BY <1>0, <2>1, <2>4 DEF Turn
      <3> QED
        BY <1>0, <1>a, <2>2, <3>2, <3>3, <3>4, DoneBeside
    <2>5. CASE s = r
      <3>1. /\ h \notin verified[r]
            /\ play[r].state = "verify" => Current(r) # h
        BY <1>0, <2>2, <2>5 DEF HostsDone
      <3>2. r \notin remote'[h]
        BY <1>0, <2>2, <2>5
      <3>3. \A g \in verified[r] : db'[g] = "patched"
        BY <1>0, <2>3, <3>1 DEF HostsDone
      <3>4. CASE play[r].state = "change" /\ Current(r) = h
        <4>1. /\ play'[r].at = play[r].at
              /\ play'[r].state = IF success THEN "verify" ELSE "failed"
          BY <1>0, <2>1, <2>5, <3>4 DEF Turn, Plays
        <4>2. success => db'[h] = "patched"
          BY <1>0, <2>1 DEF After
        <4>3. Current(r)' = h
          BY <3>4, <4>1 DEF Current
        <4>4. play'[r].state = "verify" => success
          BY <4>1
        <4> QED
          BY <1>0, <2>2, <2>3, <3>2, <3>3, <4>2, <4>3, <4>4 DEF HostsDone
      <3>5. CASE ~(play[r].state = "change" /\ Current(r) = h)
        <4>1. play' = play
          BY <2>1, <2>5, <3>5
        <4>2. Current(r)' = Current(r) /\ (play[r].state = "verify" => Current(r) \in Hosts)
          BY <1>a, <4>1 DEF Current
        <4> QED
          BY <1>0, <2>2, <2>3, <3>1, <3>2, <3>3, <4>1, <4>2 DEF HostsDone
      <3> QED
        BY <3>4, <3>5
    <2> QED
      BY <2>4, <2>5
  <1> QED
    BY <1>1, <1>2, <1>3, <1>4, <1>5, <1>6, <1>7, <1>8, <1>9, <1>10, <1>11,
       <1>12, <1>13, <1>14, <1>15, <1>16, <1>17, <1>18, <1>19, <1>20, <1>21,
       <1>22, <1>23, <1>24, <1>25 DEF Next, Proceed

\* A run that returns normally leaves every host of the inventory patched as well
\* as verified, and says so in the log, whatever other runs do to other hosts
\* (executor/executor.py:154-192, ansible/roles/oracle_cpu_patch/tasks/postcheck.yml):
\* only a change command of another run on one of its own hosts can undo it.
THEOREM SuccessIsComplete ==
  Spec /\ [](\A r \in Runs : Undisturbed(r)) => []SuccessComplete
  <1> DEFINE Done == \A r \in Runs : HostsDone(r)
             Alone == \A r \in Runs : Undisturbed(r)
  <1>1. Init => Done
    BY DEF Init, HostsDone, Idle
  <1>2. RolloutInv /\ Done /\ Alone /\ [Next]_vars => Done'
    BY NextHostsDone
  <1>3. SuccessVerified /\ Done => SuccessComplete
    BY DEF SuccessVerified, AllVerified, HostsDone, SuccessComplete
  <1> HIDE DEF Done, Alone
  <1>4. Spec /\ []Alone => []SuccessComplete
    BY RolloutInvariant, SuccessIsVerified, <1>1, <1>2, <1>3, PTL DEF Spec
  <1> QED
    BY <1>4 DEF Alone

\* The same of one run among others, which may disturb each other as they like.
THEOREM SuccessOfOne ==
  ASSUME NEW r \in Runs
  PROVE  Spec /\ []Undisturbed(r) =>
           [](pc[r] = "returned" =>
                \A i \in DOMAIN Inventory :
                  Inventory[i] \in verified[r] /\ db[Inventory[i]] = "patched")
  <1> DEFINE Done == pc[r] = "returned" =>
                       \A i \in DOMAIN Inventory :
                         Inventory[i] \in verified[r] /\ db[Inventory[i]] = "patched"
  <1>1. Init => HostsDone(r)
    BY DEF Init, HostsDone, Idle
  <1>2. SuccessVerified /\ HostsDone(r) => Done
    BY DEF SuccessVerified, AllVerified, HostsDone
  <1> HIDE DEF Done
  <1>3. Spec /\ []Undisturbed(r) => []Done
    BY RolloutInvariant, SuccessIsVerified, NextHostsDone, <1>1, <1>2, PTL DEF Spec
  <1> QED
    BY <1>3 DEF Done

\* A run that has returned does nothing more.
LEMMA ReturnedStays ==
  ASSUME NEW r \in Runs
  PROVE  TypeOK /\ [Next]_vars /\ pc[r] = "returned" => pc'[r] = "returned"
  <1> SUFFICES ASSUME TypeOK, [Next]_vars, pc[r] = "returned"
               PROVE  pc'[r] = "returned"
    OBVIOUS
  <1>1. pc \in [Runs -> {"idle"} \cup Working \cup Ended]
    BY DEF TypeOK
  <1> DEFINE Moves(s) == pc[s] \in {"idle"} \cup Working /\ \E next : Goto(s, next)
  <1>2. ASSUME NEW s \in Runs, Enter(s) PROVE Moves(s)
    BY <1>2 DEF Enter, Goto
  <1>3. ASSUME NEW s \in Runs, Recommend(s) \/ Vet(s) \/ Reject(s) PROVE Moves(s)
    BY <1>3 DEF Recommend, Vet, Reject, Goto, Working
  <1>4. ASSUME NEW s \in Runs, Precheck(s) \/ LogDryRun(s) \/ Snapshot(s) \/ LogSnapshot(s)
        PROVE  Moves(s)
    BY <1>4 DEF Precheck, LogDryRun, Snapshot, LogSnapshot, LogResult, Goto, Working
  <1>5. ASSUME NEW s \in Runs, Confirm(s) \/ LogDecision(s) \/ Apply(s) PROVE Moves(s)
    BY <1>5 DEF Confirm, LogDecision, Apply, LogResult, Goto, Working
  <1>6. ASSUME NEW s \in Runs, PlayEnd(s) \/ Timeout(s) PROVE Moves(s)
    BY <1>6 DEF PlayEnd, Timeout, Goto, Working
  <1>7. ASSUME NEW s \in Runs, LogApply(s) \/ RollbackInfo(s) \/ LogFailure(s) \/ LogSuccess(s)
        PROVE  Moves(s)
    BY <1>7 DEF LogApply, RollbackInfo, LogFailure, LogSuccess, LogResult, Goto, Working
  <1>8. ASSUME NEW s \in Runs, Abort(s) \/ Kill(s) PROVE Moves(s)
    BY <1>8 DEF Abort, Kill, Goto, Working
  <1>9. ASSUME NEW s \in Runs, HostFails(s) \/ HostApply(s) \/ HostPass(s) \/ PlayDies(s)
        PROVE  pc' = pc
    BY <1>9 DEF HostFails, HostApply, HostPass, PlayDies, control
  <1>10. ASSUME NEW s \in Runs, NEW h \in Hosts, RemoteEnd(s, h) PROVE pc' = pc
    BY <1>10 DEF RemoteEnd, control
  <1>11. CASE UNCHANGED vars
    BY <1>11 DEF vars, control
  <1>12. ASSUME NEW s \in Runs, Moves(s) PROVE pc'[r] = "returned"
    BY <1>1, <1>12 DEF Goto, Working
  <1> HIDE DEF Moves
  <1> QED
    BY <1>2, <1>3, <1>4, <1>5, <1>6, <1>7, <1>8, <1>9, <1>10, <1>11, <1>12
       DEF Next, Proceed

\* The same at the moment a run returns, when nothing has disturbed it until then:
\* another run may have been at work before it, or may be after it.
THEOREM SuccessAtReturn ==
  ASSUME NEW r \in Runs
  PROVE  Spec /\ [](pc[r] # "returned" => Undisturbed(r)) =>
           [][pc[r] # "returned" /\ pc'[r] = "returned" =>
                \A i \in DOMAIN Inventory :
                  Inventory[i] \in verified'[r] /\ db'[Inventory[i]] = "patched"]_vars
  <1> DEFINE Alone == pc[r] # "returned" => Undisturbed(r)
             Done == pc[r] # "returned" => HostsDone(r)
             Returns == pc[r] # "returned" /\ pc'[r] = "returned" =>
                          \A i \in DOMAIN Inventory :
                            Inventory[i] \in verified'[r] /\ db'[Inventory[i]] = "patched"
  <1>1. Init => Done
    BY DEF Init, HostsDone, Idle
  <1>2. RolloutInv /\ Done /\ Alone /\ [Next]_vars => Done'
    BY NextHostsDone, ReturnedStays DEF RolloutInv, GateInv, TypeInv
  <1>3. RolloutInv /\ Done /\ Alone /\ SuccessVerified' /\ [Next]_vars => Returns
    BY NextHostsDone DEF SuccessVerified, AllVerified, HostsDone
  <1> HIDE DEF Done, Alone, Returns
  <1>4. Spec /\ []Alone => [][Returns]_vars
    BY RolloutInvariant, SuccessIsVerified, <1>1, <1>2, <1>3, PTL DEF Spec
  <1> QED
    BY <1>4 DEF Alone, Returns

OneRunOnly == \A r, s \in Runs : r = s

\* When there is no other run, nothing disturbs it.
THEOREM SuccessAlone ==
  ASSUME OneRunOnly
  PROVE  Spec => []SuccessComplete
  <1>1. TypeInv => \A r \in Runs : Undisturbed(r)
    BY DEF TypeInv, TypeOK, Undisturbed, OneRunOnly
  <1> QED
    BY <1>1, TypeInvariant, SuccessIsComplete, PTL
=============================================================================
