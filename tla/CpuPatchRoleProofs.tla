------------------------- MODULE CpuPatchRoleProofs -------------------------
(***************************************************************************)
(* Theorems about CpuPatchRole, for any plays, CDBs and tags: types,       *)
(* no change without confirm_patch, no false audit entry; for a play that  *)
(* no other overlaps, what its success is worth; and, when no plays        *)
(* overlap, the one audit entry of each, and that the role implements      *)
(* HostSteps.                                                              *)
(***************************************************************************)
EXTENDS CpuPatchRole, FiniteSetTheorems, SequenceTheorems, TLAPS

-----------------------------------------------------------------------------
(* Type correctness *)

Tasks == {"idle", "vars"} \cup Gates \cup Changes \cup Logging \cup Ended

\* The patch tools and datapatch only add statuses.
LEMMA RegisteringType ==
  ASSUME TypeOK, Registering
  PROVE  rows' \in [Cdbs -> SUBSET Statuses]
  BY DEF TypeOK, Registering

\* A task that ends, well or not, leads to another.
LEMMA FinishType ==
  ASSUME TypeOK, NEW p \in Plays, NEW success, NEW next \in Tasks,
         Finish(p, success, next)
  PROVE  /\ task' \in [Plays -> Tasks]
         /\ outcome' \in [Plays -> {"SUCCESS", "FAILED"}]
  <1>1. /\ task \in [Plays -> Tasks]
        /\ outcome \in [Plays -> {"SUCCESS", "FAILED"}]
    BY DEF TypeOK, Tasks
  <1>2. "audit" \in Tasks
    BY DEF Tasks, Logging
  <1> QED
    BY <1>1, <1>2 DEF Finish, Goto

LEMMA NextTypeOK == TypeOK /\ [Next]_vars => TypeOK'
  <1> SUFFICES ASSUME TypeOK, [Next]_vars PROVE TypeOK'
    OBVIOUS
  <1>0. TypeOK
    OBVIOUS
  <1>1. CASE UNCHANGED vars
    BY <1>1, <1>0 DEF vars, play, file, host, TypeOK, Gates, Changes, Logging,
       Ended, Unasked
  <1>2. ASSUME NEW p \in Plays, Launch(p) PROVE TypeOK'
    BY <1>2, <1>0 DEF Launch, Goto, play, file, host, TypeOK, Gates, Changes,
       Logging, Ended, Unasked
  <1>3. ASSUME NEW p \in Plays, AssertVars(p) PROVE TypeOK'
    BY <1>3, <1>0 DEF AssertVars, Goto, play, file, host, TypeOK, Gates,
       Changes, Logging, Ended, Unasked
  <1>4. ASSUME NEW p \in Plays, Precheck(p) PROVE TypeOK'
    BY <1>4, <1>0 DEF Precheck, At, Finish, Goto, play, file, host, TypeOK, Gates,
       Changes, Logging, Ended, Unasked
  <1>5. ASSUME NEW p \in Plays, QueryBackup(p) PROVE TypeOK'
    <2> DEFINE Answers == [Cdbs -> {"unasked", "time", "NONE", "ORA-"}]
               Answer(recent) == [c \in Cdbs |->
                 IF c \notin up THEN "ORA-" ELSE IF c \in recent THEN "time" ELSE "NONE"]
    <2>1. PICK recent \in SUBSET Cdbs : /\ heard' = [heard EXCEPT ![p] = Answer(recent)]
                                        /\ vouched' = [vouched EXCEPT ![p] = recent]
      BY <1>5 DEF QueryBackup, At
    <2>2. Answer(recent) \in Answers
      OBVIOUS
    <2>3. heard \in [Plays -> Answers]
      BY <1>0 DEF TypeOK
    <2>4. heard' \in [Plays -> Answers]
      <3> HIDE DEF Answers, Answer
      <3> QED
        BY <2>1, <2>2, <2>3
    <2>5. vouched' \in [Plays -> SUBSET Cdbs]
      BY <1>0, <2>1 DEF TypeOK
    <2>6. PICK success \in BOOLEAN : Finish(p, success, "backup_gate")
      BY <1>5 DEF QueryBackup, At
    <2>7. /\ task' \in [Plays -> Tasks]
          /\ outcome' \in [Plays -> {"SUCCESS", "FAILED"}]
      <3>1. "backup_gate" \in Tasks
        BY DEF Tasks, Gates
      <3> QED
        BY <1>0, <2>6, <3>1, FinishType
    <2>8. UNCHANGED <<mode, file, host>>
      BY <1>5 DEF QueryBackup, At
    <2> QED
      BY <1>0, <2>4, <2>5, <2>7, <2>8 DEF file, host, TypeOK, Tasks
  <1>6. ASSUME NEW p \in Plays, AssertBackup(p) PROVE TypeOK'
    BY <1>6, <1>0 DEF AssertBackup, At, AfterBackup, Finish, Goto, play, file,
       host, TypeOK, Gates, Changes, Logging, Ended, Unasked
  <1>7. ASSUME NEW p \in Plays, ValidateBackup(p) PROVE TypeOK'
    BY <1>7, <1>0 DEF ValidateBackup, At, Finish, Goto, play, file, host, TypeOK,
       Gates, Changes, Logging, Ended, Unasked
  <1>8. ASSUME NEW p \in Plays, Stage(p) PROVE TypeOK'
    BY <1>8, <1>0 DEF Stage, At, Finish, Goto, play, file, host, TypeOK, Gates,
       Changes, Logging, Ended, Unasked
  <1>9. ASSUME NEW p \in Plays, Confirm(p) PROVE TypeOK'
    BY <1>9, <1>0 DEF Confirm, At, Finish, Goto, play, file, host, TypeOK, Gates,
       Changes, Logging, Ended, Unasked
  <1>10. ASSUME NEW p \in Plays, StopListener(p) PROVE TypeOK'
    BY <1>10, <1>0 DEF StopListener, At, Goto, play, file, host, TypeOK, Gates,
       Changes, Logging, Ended, Unasked
  <1>11. ASSUME NEW p \in Plays, Shutdown(p) PROVE TypeOK'
    BY <1>11, <1>0 DEF Shutdown, At, Finish, Goto, play, file, host, TypeOK,
       Gates, Changes, Logging, Ended, Unasked
  <1>12. ASSUME NEW p \in Plays, ApplyAuto(p) PROVE TypeOK'
    <2>1. rows' \in [Cdbs -> SUBSET Statuses]
      BY <1>0, <1>12, RegisteringType DEF ApplyAuto, At
    <2> QED
      BY <1>0, <1>12, <2>1 DEF ApplyAuto, At, Patching, Finish, Goto, play, file,
         TypeOK, Gates, Changes, Logging
  <1>13. ASSUME NEW p \in Plays, ApplyManual(p) PROVE TypeOK'
    BY <1>13, <1>0 DEF ApplyManual, At, Patching, Finish, Goto, play, file, host,
       TypeOK, Gates, Changes, Logging, Ended, Unasked
  <1>14. ASSUME NEW p \in Plays, Startup(p) PROVE TypeOK'
    BY <1>14, <1>0 DEF Startup, At, Finish, Goto, play, file, host, TypeOK, Gates,
       Changes, Logging, Ended, Unasked
  <1>15. ASSUME NEW p \in Plays, StartListener(p) PROVE TypeOK'
    BY <1>15, <1>0 DEF StartListener, At, Finish, Goto, play, file, host, TypeOK,
       Gates, Changes, Logging, Ended, Unasked
  <1>16. ASSUME NEW p \in Plays, Datapatch(p) PROVE TypeOK'
    <2>1. rows' \in [Cdbs -> SUBSET Statuses]
      BY <1>0, <1>16, RegisteringType DEF Datapatch, At
    <2> QED
      BY <1>0, <1>16, <2>1 DEF Datapatch, At, Finish, Goto, play, file, TypeOK, Gates,
         Changes, Logging
  <1>17. ASSUME NEW p \in Plays, CheckInventory(p) PROVE TypeOK'
    BY <1>17, <1>0 DEF CheckInventory, At, Finish, Goto, play, file, host, TypeOK,
       Gates, Changes, Logging, Ended, Unasked
  <1>18. ASSUME NEW p \in Plays, CheckSqlpatch(p) PROVE TypeOK'
    BY <1>18, <1>0 DEF CheckSqlpatch, At, Finish, Goto, play, file, host, TypeOK,
       Gates, Changes, Logging, Ended, Unasked
  <1>19. ASSUME NEW p \in Plays, AuditRead(p) PROVE TypeOK'
    BY <1>19, <1>0 DEF AuditRead, Goto, play, file, host, TypeOK, Gates,
       Changes, Logging, Ended, Unasked
  <1>20. ASSUME NEW p \in Plays, AuditWrite(p) PROVE TypeOK'
    <2>1. [play |-> p, outcome |-> Noted(p)] \in Entry
      BY <1>0 DEF TypeOK, Entry, Noted
    <2>2. audit' \in Seq(Entry)
      <3>1. draft[p] \in Seq(Entry)
        BY <1>0 DEF TypeOK
      <3>2. audit' = Append(draft[p], [play |-> p, outcome |-> Noted(p)])
        BY <1>20 DEF AuditWrite
      <3> QED
        BY <2>1, <3>1, <3>2, AppendProperties
    <2>3. /\ task' = [task EXCEPT ![p] = IF outcome[p] = "SUCCESS" THEN "ok" ELSE "failed"]
          /\ heard' = [heard EXCEPT ![p] = Unasked]
          /\ vouched' = [vouched EXCEPT ![p] = {}]
          /\ draft' = [draft EXCEPT ![p] = <<>>]
          /\ UNCHANGED <<outcome, mode, binaries, listener, up, rows>>
      BY <1>20 DEF AuditWrite, End, Goto, host
    <2> QED
      BY <1>0, <2>2, <2>3 DEF TypeOK, Unasked, Ended
  <1>21. ASSUME NEW p \in Plays, AuditFails(p) PROVE TypeOK'
    BY <1>21, <1>0 DEF AuditFails, End, Goto, play, file, host, TypeOK, Gates,
       Changes, Logging, Ended, Unasked
  <1>22. ASSUME NEW p \in Plays, Unreachable(p) PROVE TypeOK'
    BY <1>22, <1>0 DEF Unreachable, End, Goto, play, file, host, TypeOK,
       Gates, Changes, Logging, Ended, Unasked
  <1>23. ASSUME NEW p \in Plays, Kill(p) PROVE TypeOK'
    BY <1>23, <1>0 DEF Kill, End, Goto, play, file, host, TypeOK, Gates,
       Changes, Logging, Ended, Unasked
  <1>24. ASSUME NEW p \in Plays, DieApplying(p) PROVE TypeOK'
    BY <1>24, <1>0 DEF DieApplying, At, Patching, End, Goto, play, file, host,
       TypeOK, Gates, Changes, Logging, Ended, Unasked
  <1>25. ASSUME NEW p \in Plays, PassOver(p) PROVE TypeOK'
    BY <1>25, <1>0 DEF PassOver, AfterFile, Goto, play, file, host, TypeOK,
       Gates, Changes, Logging, Ended, Unasked
  <1> QED
    BY <1>1, <1>2, <1>3, <1>4, <1>5, <1>6, <1>7, <1>8, <1>9, <1>10, <1>11,
       <1>12, <1>13, <1>14, <1>15, <1>16, <1>17, <1>18, <1>19, <1>20, <1>21,
       <1>22, <1>23, <1>24, <1>25 DEF Next

\* The state of the role, of the host and of the audit file is what its types say.
THEOREM TypeCorrect == Spec => []TypeOK
  <1>1. Init => TypeOK
    BY DEF Init, TypeOK, Unasked
  <1> QED
    BY NextTypeOK, <1>1, PTL DEF Spec

-----------------------------------------------------------------------------
(* No change without confirmation *)

\* Past the confirm gate there are only full runs, with the right confirmation unless
\* they do not have the gate.
ConfirmedInv ==
  \A p \in Plays :
    /\ task[p] = "confirm" => mode[p].full
    /\ task[p] \in Changes => mode[p].full /\ (mode[p].confirmed \/ ~Selected(p, "confirm"))

\* The gate carries the tags of all it guards: what is selected, is selected with it,
\* or one of its tags is skipped.
LEMMA GateSelected ==
  ASSUME NEW p, NEW t \in ApplyTasks \cup {"datapatch"}, Selected(p, t)
  PROVE  Selected(p, "confirm") \/ mode[p].without \cap {"apply", "datapatch"} # {}
  <1>1. TagsOf(t) \in {{"apply"}, {"datapatch"}}
    BY DEF TagsOf, BackupTasks, ApplyTasks
  <1>2. TagsOf("confirm") = {"apply", "datapatch"}
    BY DEF TagsOf, BackupTasks, ApplyTasks, GateTags
  <1> QED
    BY <1>1, <1>2 DEF Selected

\* The tasks of a file are selected together.
LEMMA SameFile ==
  \A p \in Plays :
    /\ Selected(p, "precheck") <=> Selected(p, "validate")
    /\ Selected(p, "stop_listener") <=> Selected(p, "start_listener")
    /\ Selected(p, "apply") <=> Selected(p, "start_listener")
    /\ Selected(p, "lsinventory") <=> Selected(p, "sqlpatch")
  <1>1. /\ TagsOf("precheck") = TagsOf("validate")
        /\ TagsOf("stop_listener") = TagsOf("start_listener")
        /\ TagsOf("apply") = TagsOf("start_listener")
        /\ TagsOf("lsinventory") = TagsOf("sqlpatch")
    BY DEF TagsOf, BackupTasks, ApplyTasks
  <1> QED
    BY <1>1 DEF Selected

LEMMA NextConfirmed == TypeOK /\ ConfirmedInv /\ [Next]_vars => ConfirmedInv'
  <1> SUFFICES ASSUME TypeOK, ConfirmedInv, [Next]_vars PROVE ConfirmedInv'
    OBVIOUS
  <1>0. /\ ConfirmedInv
        /\ DOMAIN task = Plays
    BY DEF TypeOK
  <1>1. CASE UNCHANGED vars
    BY <1>1, <1>0 DEF vars, play, file, host, ConfirmedInv, Selected, Changes, Ended
  <1>2. ASSUME NEW p \in Plays, Launch(p) PROVE ConfirmedInv'
    BY <1>2, <1>0 DEF Launch, Goto, play, ConfirmedInv, Selected, Changes, Ended
  <1>3. ASSUME NEW p \in Plays, AssertVars(p) PROVE ConfirmedInv'
    BY <1>3, <1>0 DEF AssertVars, Goto, play, ConfirmedInv, Selected, Changes, Ended
  <1>4. ASSUME NEW p \in Plays, Precheck(p) PROVE ConfirmedInv'
    BY <1>4, <1>0 DEF Precheck, At, Finish, Goto, play, ConfirmedInv, Selected, Changes,
       Ended
  <1>5. ASSUME NEW p \in Plays, QueryBackup(p) PROVE ConfirmedInv'
    BY <1>5, <1>0 DEF QueryBackup, At, Finish, Goto, play, ConfirmedInv, Selected, Changes,
       Ended
  <1>6. ASSUME NEW p \in Plays, AssertBackup(p) PROVE ConfirmedInv'
    BY <1>6, <1>0 DEF AssertBackup, At, AfterBackup, Finish, Goto, play,
       ConfirmedInv, Selected, Changes, Ended
  <1>7. ASSUME NEW p \in Plays, ValidateBackup(p) PROVE ConfirmedInv'
    BY <1>7, <1>0 DEF ValidateBackup, At, Finish, Goto, play, ConfirmedInv,
       Selected, Changes, Ended
  <1>8. ASSUME NEW p \in Plays, Stage(p) PROVE ConfirmedInv'
    BY <1>8, <1>0 DEF Stage, At, Finish, Goto, play, ConfirmedInv, Selected, Changes, Ended
  <1>9. ASSUME NEW p \in Plays, Confirm(p) PROVE ConfirmedInv'
    BY <1>9, <1>0 DEF Confirm, At, Finish, Goto, play, ConfirmedInv, Selected, Changes,
       Ended
  <1>10. ASSUME NEW p \in Plays, StopListener(p) PROVE ConfirmedInv'
    BY <1>10, <1>0 DEF StopListener, At, Goto, play, ConfirmedInv, Selected, Changes, Ended
  <1>11. ASSUME NEW p \in Plays, Shutdown(p) PROVE ConfirmedInv'
    BY <1>11, <1>0 DEF Shutdown, At, Finish, Goto, play, ConfirmedInv, Selected, Changes,
       Ended
  <1>12. ASSUME NEW p \in Plays, ApplyAuto(p) PROVE ConfirmedInv'
    BY <1>12, <1>0 DEF ApplyAuto, At, Patching, Finish, Goto, play, ConfirmedInv,
       Selected, Changes, Ended
  <1>13. ASSUME NEW p \in Plays, ApplyManual(p) PROVE ConfirmedInv'
    BY <1>13, <1>0 DEF ApplyManual, At, Patching, Finish, Goto, play,
       ConfirmedInv, Selected, Changes, Ended
  <1>14. ASSUME NEW p \in Plays, Startup(p) PROVE ConfirmedInv'
    BY <1>14, <1>0 DEF Startup, At, Finish, Goto, play, ConfirmedInv, Selected, Changes,
       Ended
  <1>15. ASSUME NEW p \in Plays, StartListener(p) PROVE ConfirmedInv'
    BY <1>15, <1>0 DEF StartListener, At, Finish, Goto, play, ConfirmedInv,
       Selected, Changes, Ended
  <1>16. ASSUME NEW p \in Plays, Datapatch(p) PROVE ConfirmedInv'
    BY <1>16, <1>0 DEF Datapatch, At, Finish, Goto, play, ConfirmedInv, Selected, Changes,
       Ended
  <1>17. ASSUME NEW p \in Plays, CheckInventory(p) PROVE ConfirmedInv'
    BY <1>17, <1>0 DEF CheckInventory, At, Finish, Goto, play, ConfirmedInv,
       Selected, Changes, Ended
  <1>18. ASSUME NEW p \in Plays, CheckSqlpatch(p) PROVE ConfirmedInv'
    BY <1>18, <1>0 DEF CheckSqlpatch, At, Finish, Goto, play, ConfirmedInv,
       Selected, Changes, Ended
  <1>19. ASSUME NEW p \in Plays, AuditRead(p) PROVE ConfirmedInv'
    BY <1>19, <1>0 DEF AuditRead, Goto, play, ConfirmedInv, Selected, Changes, Ended
  <1>20. ASSUME NEW p \in Plays, AuditWrite(p) PROVE ConfirmedInv'
    BY <1>20, <1>0 DEF AuditWrite, End, Goto, play, ConfirmedInv, Selected, Changes,
       Ended
  <1>21. ASSUME NEW p \in Plays, AuditFails(p) PROVE ConfirmedInv'
    BY <1>21, <1>0 DEF AuditFails, End, Goto, play, ConfirmedInv, Selected, Changes,
       Ended
  <1>22. ASSUME NEW p \in Plays, Unreachable(p) PROVE ConfirmedInv'
    BY <1>22, <1>0 DEF Unreachable, End, Goto, play, ConfirmedInv, Selected, Changes,
       Ended
  <1>23. ASSUME NEW p \in Plays, Kill(p) PROVE ConfirmedInv'
    BY <1>23, <1>0 DEF Kill, End, Goto, play, ConfirmedInv, Selected, Changes, Ended
  <1>24. ASSUME NEW p \in Plays, DieApplying(p) PROVE ConfirmedInv'
    BY <1>24, <1>0 DEF DieApplying, At, Patching, End, Goto, play, ConfirmedInv,
       Selected, Changes, Ended
  <1>25. ASSUME NEW p \in Plays, PassOver(p) PROVE ConfirmedInv'
    BY <1>25, <1>0 DEF PassOver, AfterFile, Goto, play, ConfirmedInv,
       Selected, Changes, Ended
  <1> QED
    BY <1>1, <1>2, <1>3, <1>4, <1>5, <1>6, <1>7, <1>8, <1>9, <1>10, <1>11,
       <1>12, <1>13, <1>14, <1>15, <1>16, <1>17, <1>18, <1>19, <1>20, <1>21,
       <1>22, <1>23, <1>24, <1>25 DEF Next

\* What a step does to the host, it does as a change of a play that was confirmed or
\* that had the gate taken away.
HostByChange ==
  host' # host =>
    \E p \in UnderWay :
      /\ task'[p] # task[p]
      /\ mode[p].full
      /\ mode[p].confirmed \/ mode[p].without \cap {"apply", "datapatch"} # {}

LEMMA StepByChange == TypeOK /\ ConfirmedInv /\ [Next]_vars => HostByChange
  <1> SUFFICES ASSUME TypeOK, ConfirmedInv, [Next]_vars PROVE HostByChange
    OBVIOUS
  <1>0. ASSUME NEW p \in Plays, task[p] \in ApplyTasks \cup {"datapatch"},
               Selected(p, task[p]), task'[p] # task[p]
        PROVE  HostByChange
    <2>1. task[p] \in Changes /\ p \in UnderWay
      BY <1>0 DEF ApplyTasks, Changes, UnderWay, Ended
    <2>2. Selected(p, "confirm") \/ mode[p].without \cap {"apply", "datapatch"} # {}
      BY <1>0, GateSelected
    <2> QED
      BY <1>0, <2>1, <2>2 DEF ConfirmedInv, HostByChange
  <1>1. DOMAIN task = Plays
    BY DEF TypeOK
  <1>2. CASE UNCHANGED vars
    BY <1>2 DEF vars, host, HostByChange
  <1>3. ASSUME NEW p \in Plays, Launch(p) PROVE HostByChange
    BY <1>3 DEF Launch, HostByChange
  <1>4. ASSUME NEW p \in Plays, AssertVars(p) PROVE HostByChange
    BY <1>4 DEF AssertVars, HostByChange
  <1>5. ASSUME NEW p \in Plays, Precheck(p) PROVE HostByChange
    BY <1>5 DEF Precheck, At, HostByChange
  <1>6. ASSUME NEW p \in Plays, QueryBackup(p) PROVE HostByChange
    BY <1>6 DEF QueryBackup, At, HostByChange
  <1>7. ASSUME NEW p \in Plays, AssertBackup(p) PROVE HostByChange
    BY <1>7 DEF AssertBackup, At, HostByChange
  <1>8. ASSUME NEW p \in Plays, ValidateBackup(p) PROVE HostByChange
    BY <1>8 DEF ValidateBackup, At, HostByChange
  <1>9. ASSUME NEW p \in Plays, Stage(p) PROVE HostByChange
    BY <1>9 DEF Stage, At, HostByChange
  <1>10. ASSUME NEW p \in Plays, Confirm(p) PROVE HostByChange
    BY <1>10 DEF Confirm, At, HostByChange
  <1>11. ASSUME NEW p \in Plays, StopListener(p) PROVE HostByChange
    <2>1. /\ task[p] \in ApplyTasks \cup {"datapatch"} /\ Selected(p, task[p])
          /\ task'[p] # task[p]
      BY <1>1, <1>11 DEF StopListener, At, Goto, ApplyTasks
    <2> QED
      BY <1>0, <2>1
  <1>12. ASSUME NEW p \in Plays, Shutdown(p) PROVE HostByChange
    <2>1. /\ task[p] \in ApplyTasks \cup {"datapatch"} /\ Selected(p, task[p])
          /\ task'[p] # task[p]
      BY <1>1, <1>12 DEF Shutdown, At, Finish, Goto, ApplyTasks
    <2> QED
      BY <1>0, <2>1
  <1>13. ASSUME NEW p \in Plays, ApplyAuto(p) PROVE HostByChange
    <2>1. /\ task[p] \in ApplyTasks \cup {"datapatch"} /\ Selected(p, task[p])
          /\ task'[p] # task[p]
      BY <1>1, <1>13 DEF ApplyAuto, At, Patching, Finish, Goto, ApplyTasks
    <2> QED
      BY <1>0, <2>1
  <1>14. ASSUME NEW p \in Plays, ApplyManual(p) PROVE HostByChange
    <2>1. /\ task[p] \in ApplyTasks \cup {"datapatch"} /\ Selected(p, task[p])
          /\ task'[p] # task[p]
      BY <1>1, <1>14 DEF ApplyManual, At, Patching, Finish, Goto, ApplyTasks
    <2> QED
      BY <1>0, <2>1
  <1>15. ASSUME NEW p \in Plays, Startup(p) PROVE HostByChange
    <2>1. /\ task[p] \in ApplyTasks \cup {"datapatch"} /\ Selected(p, task[p])
          /\ task'[p] # task[p]
      BY <1>1, <1>15 DEF Startup, At, Finish, Goto, ApplyTasks
    <2> QED
      BY <1>0, <2>1
  <1>16. ASSUME NEW p \in Plays, StartListener(p) PROVE HostByChange
    <2>1. /\ task[p] \in ApplyTasks \cup {"datapatch"} /\ Selected(p, task[p])
          /\ task'[p] # task[p]
      BY <1>1, <1>16 DEF StartListener, At, Finish, Goto, ApplyTasks
    <2> QED
      BY <1>0, <2>1
  <1>17. ASSUME NEW p \in Plays, Datapatch(p) PROVE HostByChange
    <2>1. /\ task[p] \in ApplyTasks \cup {"datapatch"} /\ Selected(p, task[p])
          /\ task'[p] # task[p]
      BY <1>1, <1>17 DEF Datapatch, At, Finish, Goto, ApplyTasks
    <2> QED
      BY <1>0, <2>1
  <1>18. ASSUME NEW p \in Plays, CheckInventory(p) PROVE HostByChange
    BY <1>18 DEF CheckInventory, At, HostByChange
  <1>19. ASSUME NEW p \in Plays, CheckSqlpatch(p) PROVE HostByChange
    BY <1>19 DEF CheckSqlpatch, At, HostByChange
  <1>20. ASSUME NEW p \in Plays, AuditRead(p) PROVE HostByChange
    BY <1>20 DEF AuditRead, HostByChange
  <1>21. ASSUME NEW p \in Plays, AuditWrite(p) PROVE HostByChange
    BY <1>21 DEF AuditWrite, HostByChange
  <1>22. ASSUME NEW p \in Plays, AuditFails(p) PROVE HostByChange
    BY <1>22 DEF AuditFails, HostByChange
  <1>23. ASSUME NEW p \in Plays, Unreachable(p) PROVE HostByChange
    BY <1>23 DEF Unreachable, HostByChange
  <1>24. ASSUME NEW p \in Plays, Kill(p) PROVE HostByChange
    BY <1>24 DEF Kill, HostByChange
  <1>25. ASSUME NEW p \in Plays, DieApplying(p) PROVE HostByChange
    <2>1. /\ task[p] \in ApplyTasks \cup {"datapatch"} /\ Selected(p, task[p])
          /\ task'[p] # task[p]
      BY <1>1, <1>25 DEF DieApplying, At, Patching, End, Goto, ApplyTasks
    <2> QED
      BY <1>0, <2>1
  <1>26. ASSUME NEW p \in Plays, PassOver(p) PROVE HostByChange
    BY <1>26 DEF PassOver, HostByChange
  <1> QED
    BY <1>2, <1>3, <1>4, <1>5, <1>6, <1>7, <1>8, <1>9, <1>10, <1>11, <1>12,
       <1>13, <1>14, <1>15, <1>16, <1>17, <1>18, <1>19, <1>20, <1>21, <1>22,
       <1>23, <1>24, <1>25, <1>26 DEF Next

\* The home, the listener, the instances and the registry change only in a step of a
\* play that is a full run and has the right confirm_patch or was given one of the
\* tags of the gate with --skip-tags (main.yml:13-17, 54-62), however many plays are
\* under way, with whatever tags.
THEOREM ChangesAreConfirmed == Spec => ChangeConfirmedUnlessSkipped
  <1>1. Init => ConfirmedInv
    BY DEF Init, ConfirmedInv, Changes
  <1>2. Spec => [](TypeOK /\ ConfirmedInv)
    BY TypeCorrect, NextConfirmed, <1>1, PTL DEF Spec
  <1>3. Spec => [][HostByChange]_vars
    BY <1>2, StepByChange, PTL DEF Spec
  <1> QED
    BY <1>3 DEF ChangeConfirmedUnlessSkipped, HostByChange

-----------------------------------------------------------------------------
(* Plays that do not overlap *)

OneAfterTheOther == AtOnce = 1

Alone == \A p, q \in UnderWay : p = q

LEMMA LaunchAlone ==
  ASSUME OneAfterTheOther, Alone, Cardinality(UnderWay) < AtOnce
  PROVE  UnderWay = {}
  <1> SUFFICES ASSUME NEW p \in UnderWay PROVE FALSE
    OBVIOUS
  <1>1. UnderWay = {p}
    BY DEF Alone
  <1>2. Cardinality(UnderWay) = 1
    BY <1>1, FS_Singleton
  <1> QED
    BY <1>2 DEF OneAfterTheOther

LEMMA NextAlone ==
  ASSUME OneAfterTheOther, TypeOK, Alone, [Next]_vars
  PROVE  Alone'
  <1>0. DOMAIN task = Plays
    BY DEF TypeOK
  <1>1. ASSUME UnderWay' \subseteq UnderWay PROVE Alone'
    BY <1>1 DEF Alone
  <1>2. CASE UNCHANGED vars
    BY <1>1, <1>2 DEF vars, UnderWay
  <1>3. ASSUME NEW p \in Plays, Launch(p) PROVE Alone'
    <2>1. UnderWay = {}
      BY <1>3, LaunchAlone DEF Launch
    <2>2. UnderWay' \subseteq {p}
      BY <1>0, <1>3, <2>1 DEF Launch, Goto, UnderWay
    <2> QED
      BY <2>2 DEF Alone
  <1>4. ASSUME NEW p \in Plays, AssertVars(p) PROVE Alone'
    <2>1. UnderWay' \subseteq UnderWay
      BY <1>0, <1>4 DEF AssertVars, Goto, UnderWay, Gates, Changes, Logging,
         Ended
    <2> QED
      BY <1>1, <2>1
  <1>5. ASSUME NEW p \in Plays, Precheck(p) PROVE Alone'
    <2>1. UnderWay' \subseteq UnderWay
      BY <1>0, <1>5 DEF Precheck, At, Finish, Goto, UnderWay, Gates, Changes,
         Logging, Ended
    <2> QED
      BY <1>1, <2>1
  <1>6. ASSUME NEW p \in Plays, QueryBackup(p) PROVE Alone'
    <2>1. UnderWay' \subseteq UnderWay
      BY <1>0, <1>6 DEF QueryBackup, At, Finish, Goto, UnderWay, Gates, Changes,
         Logging, Ended
    <2> QED
      BY <1>1, <2>1
  <1>7. ASSUME NEW p \in Plays, AssertBackup(p) PROVE Alone'
    <2>1. UnderWay' \subseteq UnderWay
      BY <1>0, <1>7 DEF AssertBackup, At, AfterBackup, Finish, Goto, UnderWay, Gates,
         Changes, Logging, Ended
    <2> QED
      BY <1>1, <2>1
  <1>8. ASSUME NEW p \in Plays, ValidateBackup(p) PROVE Alone'
    <2>1. UnderWay' \subseteq UnderWay
      BY <1>0, <1>8 DEF ValidateBackup, At, Finish, Goto, UnderWay, Gates, Changes,
         Logging, Ended
    <2> QED
      BY <1>1, <2>1
  <1>9. ASSUME NEW p \in Plays, Stage(p) PROVE Alone'
    <2>1. UnderWay' \subseteq UnderWay
      BY <1>0, <1>9 DEF Stage, At, Finish, Goto, UnderWay, Gates, Changes, Logging,
         Ended
    <2> QED
      BY <1>1, <2>1
  <1>10. ASSUME NEW p \in Plays, Confirm(p) PROVE Alone'
    <2>1. UnderWay' \subseteq UnderWay
      BY <1>0, <1>10 DEF Confirm, At, Finish, Goto, UnderWay, Gates, Changes, Logging,
         Ended
    <2> QED
      BY <1>1, <2>1
  <1>11. ASSUME NEW p \in Plays, StopListener(p) PROVE Alone'
    <2>1. UnderWay' \subseteq UnderWay
      BY <1>0, <1>11 DEF StopListener, At, Goto, UnderWay, Gates, Changes, Logging,
         Ended
    <2> QED
      BY <1>1, <2>1
  <1>12. ASSUME NEW p \in Plays, Shutdown(p) PROVE Alone'
    <2>1. UnderWay' \subseteq UnderWay
      BY <1>0, <1>12 DEF Shutdown, At, Finish, Goto, UnderWay, Gates, Changes,
         Logging, Ended
    <2> QED
      BY <1>1, <2>1
  <1>13. ASSUME NEW p \in Plays, ApplyAuto(p) PROVE Alone'
    <2>1. UnderWay' \subseteq UnderWay
      BY <1>0, <1>13 DEF ApplyAuto, At, Patching, Finish, Goto, UnderWay, Gates,
         Changes, Logging, Ended
    <2> QED
      BY <1>1, <2>1
  <1>14. ASSUME NEW p \in Plays, ApplyManual(p) PROVE Alone'
    <2>1. UnderWay' \subseteq UnderWay
      BY <1>0, <1>14 DEF ApplyManual, At, Patching, Finish, Goto, UnderWay, Gates,
         Changes, Logging, Ended
    <2> QED
      BY <1>1, <2>1
  <1>15. ASSUME NEW p \in Plays, Startup(p) PROVE Alone'
    <2>1. UnderWay' \subseteq UnderWay
      BY <1>0, <1>15 DEF Startup, At, Finish, Goto, UnderWay, Gates, Changes, Logging,
         Ended
    <2> QED
      BY <1>1, <2>1
  <1>16. ASSUME NEW p \in Plays, StartListener(p) PROVE Alone'
    <2>1. UnderWay' \subseteq UnderWay
      BY <1>0, <1>16 DEF StartListener, At, Finish, Goto, UnderWay, Gates, Changes,
         Logging, Ended
    <2> QED
      BY <1>1, <2>1
  <1>17. ASSUME NEW p \in Plays, Datapatch(p) PROVE Alone'
    <2>1. UnderWay' \subseteq UnderWay
      BY <1>0, <1>17 DEF Datapatch, At, Finish, Goto, UnderWay, Gates, Changes,
         Logging, Ended
    <2> QED
      BY <1>1, <2>1
  <1>18. ASSUME NEW p \in Plays, CheckInventory(p) PROVE Alone'
    <2>1. UnderWay' \subseteq UnderWay
      BY <1>0, <1>18 DEF CheckInventory, At, Finish, Goto, UnderWay, Gates, Changes,
         Logging, Ended
    <2> QED
      BY <1>1, <2>1
  <1>19. ASSUME NEW p \in Plays, CheckSqlpatch(p) PROVE Alone'
    <2>1. UnderWay' \subseteq UnderWay
      BY <1>0, <1>19 DEF CheckSqlpatch, At, Finish, Goto, UnderWay, Gates, Changes,
         Logging, Ended
    <2> QED
      BY <1>1, <2>1
  <1>20. ASSUME NEW p \in Plays, AuditRead(p) PROVE Alone'
    <2>1. UnderWay' \subseteq UnderWay
      BY <1>0, <1>20 DEF AuditRead, Goto, UnderWay, Gates, Changes, Logging, Ended
    <2> QED
      BY <1>1, <2>1
  <1>21. ASSUME NEW p \in Plays, AuditWrite(p) PROVE Alone'
    <2>1. UnderWay' \subseteq UnderWay
      BY <1>0, <1>21 DEF AuditWrite, End, Goto, UnderWay, Gates, Changes, Logging,
         Ended
    <2> QED
      BY <1>1, <2>1
  <1>22. ASSUME NEW p \in Plays, AuditFails(p) PROVE Alone'
    <2>1. UnderWay' \subseteq UnderWay
      BY <1>0, <1>22 DEF AuditFails, End, Goto, UnderWay, Gates, Changes, Logging,
         Ended
    <2> QED
      BY <1>1, <2>1
  <1>23. ASSUME NEW p \in Plays, Unreachable(p) PROVE Alone'
    <2>1. UnderWay' \subseteq UnderWay
      BY <1>0, <1>23 DEF Unreachable, End, Goto, UnderWay, Gates, Changes,
         Logging, Ended
    <2> QED
      BY <1>1, <2>1
  <1>24. ASSUME NEW p \in Plays, Kill(p) PROVE Alone'
    <2>1. UnderWay' \subseteq UnderWay
      BY <1>0, <1>24 DEF Kill, End, Goto, UnderWay, Gates, Changes, Logging, Ended
    <2> QED
      BY <1>1, <2>1
  <1>25. ASSUME NEW p \in Plays, DieApplying(p) PROVE Alone'
    <2>1. UnderWay' \subseteq UnderWay
      BY <1>0, <1>25 DEF DieApplying, At, Patching, End, Goto, UnderWay, Gates,
         Changes, Logging, Ended
    <2> QED
      BY <1>1, <2>1
  <1>26. ASSUME NEW p \in Plays, PassOver(p) PROVE Alone'
    <2>1. UnderWay' \subseteq UnderWay
      BY <1>0, <1>26 DEF PassOver, AfterFile, Goto, UnderWay, Gates, Changes, Logging,
         Ended
    <2> QED
      BY <1>1, <2>1
  <1> QED
    BY <1>2, <1>3, <1>4, <1>5, <1>6, <1>7, <1>8, <1>9, <1>10, <1>11, <1>12,
       <1>13, <1>14, <1>15, <1>16, <1>17, <1>18, <1>19, <1>20, <1>21, <1>22,
       <1>23, <1>24, <1>25, <1>26 DEF Next

\* What one play does.
Act(p) ==
  \/ Launch(p) \/ AssertVars(p)
  \/ Precheck(p) \/ QueryBackup(p) \/ AssertBackup(p) \/ ValidateBackup(p)
  \/ Stage(p) \/ Confirm(p)
  \/ StopListener(p) \/ Shutdown(p) \/ ApplyAuto(p) \/ ApplyManual(p)
  \/ Startup(p) \/ StartListener(p) \/ Datapatch(p)
  \/ CheckInventory(p) \/ CheckSqlpatch(p)
  \/ AuditRead(p) \/ AuditWrite(p) \/ AuditFails(p)
  \/ PassOver(p) \/ Unreachable(p) \/ Kill(p) \/ DieApplying(p)

LEMMA NextActs == Next => \E p \in Plays : Act(p)
  BY DEF Next, Act

LEMMA ActsAlone ==
  ASSUME TypeOK, NEW p \in Plays, Act(p)
  PROVE  /\ \A q \in Plays \ {p} : task'[q] = task[q] /\ outcome'[q] = outcome[q]
         /\ mode' = mode
         /\ Launch(p) \/ p \in UnderWay
  <1> DEFINE Goal == /\ \A q \in Plays \ {p} : task'[q] = task[q] /\ outcome'[q] = outcome[q]
                     /\ mode' = mode
                     /\ Launch(p) \/ p \in UnderWay
  <1>0. DOMAIN task = Plays /\ DOMAIN outcome = Plays
    BY DEF TypeOK
  <1>1. CASE Launch(p)
    BY <1>1, <1>0 DEF Launch, Goto, play, UnderWay, Gates, Changes, Logging,
       Ended
  <1>2. CASE AssertVars(p)
    BY <1>2, <1>0 DEF AssertVars, Goto, play, UnderWay, Gates, Changes,
       Logging, Ended
  <1>3. CASE Precheck(p)
    BY <1>3, <1>0 DEF Precheck, At, Finish, Goto, play, UnderWay, Gates, Changes,
       Logging, Ended
  <1>4. CASE QueryBackup(p)
    BY <1>4, <1>0 DEF QueryBackup, At, Finish, Goto, play, UnderWay, Gates,
       Changes, Logging, Ended
  <1>5. CASE AssertBackup(p)
    BY <1>5, <1>0 DEF AssertBackup, At, AfterBackup, Finish, Goto, play, UnderWay,
       Gates, Changes, Logging, Ended
  <1>6. CASE ValidateBackup(p)
    BY <1>6, <1>0 DEF ValidateBackup, At, Finish, Goto, play, UnderWay, Gates,
       Changes, Logging, Ended
  <1>7. CASE Stage(p)
    BY <1>7, <1>0 DEF Stage, At, Finish, Goto, play, UnderWay, Gates, Changes,
       Logging, Ended
  <1>8. CASE Confirm(p)
    BY <1>8, <1>0 DEF Confirm, At, Finish, Goto, play, UnderWay, Gates, Changes,
       Logging, Ended
  <1>9. CASE StopListener(p)
    BY <1>9, <1>0 DEF StopListener, At, Goto, play, UnderWay, Gates, Changes,
       Logging, Ended
  <1>10. CASE Shutdown(p)
    BY <1>10, <1>0 DEF Shutdown, At, Finish, Goto, play, UnderWay, Gates, Changes,
       Logging, Ended
  <1>11. CASE ApplyAuto(p)
    BY <1>11, <1>0 DEF ApplyAuto, At, Patching, Finish, Goto, play, UnderWay,
       Gates, Changes, Logging, Ended
  <1>12. CASE ApplyManual(p)
    BY <1>12, <1>0 DEF ApplyManual, At, Patching, Finish, Goto, play, UnderWay,
       Gates, Changes, Logging, Ended
  <1>13. CASE Startup(p)
    BY <1>13, <1>0 DEF Startup, At, Finish, Goto, play, UnderWay, Gates, Changes,
       Logging, Ended
  <1>14. CASE StartListener(p)
    BY <1>14, <1>0 DEF StartListener, At, Finish, Goto, play, UnderWay, Gates,
       Changes, Logging, Ended
  <1>15. CASE Datapatch(p)
    BY <1>15, <1>0 DEF Datapatch, At, Finish, Goto, play, UnderWay, Gates,
       Changes, Logging, Ended
  <1>16. CASE CheckInventory(p)
    BY <1>16, <1>0 DEF CheckInventory, At, Finish, Goto, play, UnderWay, Gates,
       Changes, Logging, Ended
  <1>17. CASE CheckSqlpatch(p)
    BY <1>17, <1>0 DEF CheckSqlpatch, At, Finish, Goto, play, UnderWay, Gates,
       Changes, Logging, Ended
  <1>18. CASE AuditRead(p)
    BY <1>18, <1>0 DEF AuditRead, Goto, play, UnderWay, Gates, Changes,
       Logging, Ended
  <1>19. CASE AuditWrite(p)
    BY <1>19, <1>0 DEF AuditWrite, End, Goto, play, UnderWay, Gates, Changes,
       Logging, Ended
  <1>20. CASE AuditFails(p)
    BY <1>20, <1>0 DEF AuditFails, End, Goto, play, UnderWay, Gates, Changes,
       Logging, Ended
  <1>21. CASE Unreachable(p)
    BY <1>21, <1>0 DEF Unreachable, End, Goto, play, UnderWay, Gates, Changes,
       Logging, Ended
  <1>22. CASE Kill(p)
    BY <1>22, <1>0 DEF Kill, End, Goto, play, UnderWay, Gates, Changes,
       Logging, Ended
  <1>23. CASE DieApplying(p)
    BY <1>23, <1>0 DEF DieApplying, At, Patching, End, Goto, play, UnderWay,
       Gates, Changes, Logging, Ended
  <1>24. CASE PassOver(p)
    BY <1>24, <1>0 DEF PassOver, AfterFile, Goto, play, UnderWay, Gates,
       Changes, Logging, Ended
  <1> QED
    BY <1>1, <1>2, <1>3, <1>4, <1>5, <1>6, <1>7, <1>8, <1>9, <1>10, <1>11,
       <1>12, <1>13, <1>14, <1>15, <1>16, <1>17, <1>18, <1>19, <1>20, <1>21,
       <1>22, <1>23, <1>24 DEF Act

\* While one play is under way, the others have not begun or are over.
LEMMA OthersRest ==
  ASSUME OneAfterTheOther, TypeOK, Alone, NEW p \in Plays, Act(p)
  PROVE  \A q \in Plays \ {p} : task'[q] = task[q] /\ task[q] \in {"idle"} \cup Ended
  <1>1. \A q \in Plays \ {p} : q \notin UnderWay
    <2>1. CASE Launch(p)
      BY <2>1, LaunchAlone DEF Launch
    <2>2. CASE p \in UnderWay
      BY <2>2 DEF Alone
    <2> QED
      BY <2>1, <2>2, ActsAlone
  <1> QED
    BY <1>1, ActsAlone DEF UnderWay

-----------------------------------------------------------------------------
(* What a success is worth *)

\* The host as a play may leave it with a success.
Real(p) ==
  /\ binaries = "new"
  /\ up = Cdbs
  /\ \A c \in Cdbs : rows[c] \subseteq {"SUCCESS"}
  /\ mode[p].auto \/ ~Selected(p, "start_listener") \/ listener

\* What a play that is under way has already made sure of, task by task.
Sure(p) ==
  /\ task[p] = "startup" => binaries # "half"
  /\ task[p] \in {"datapatch", "lsinventory", "sqlpatch"} =>
       mode[p].auto \/ ~Selected(p, "start_listener") \/ listener
  /\ task[p] = "sqlpatch" => binaries = "new"
  /\ task[p] \in Logging /\ outcome[p] = "SUCCESS" /\ mode[p].full /\ Selected(p, "sqlpatch")
       => Real(p)

SureInv == \A p \in Plays : Sure(p)

\* No step of the play itself takes that away.
LEMMA SureStep ==
  ASSUME TypeOK, NEW p \in Plays, Act(p), Sure(p)
  PROVE  Sure(p)'
  <1>0. Sure(p) /\ mode \in [Plays -> Modes]
        /\ DOMAIN task = Plays /\ DOMAIN outcome = Plays /\ outcome[p] \in {"SUCCESS", "FAILED"}
    BY DEF TypeOK
  <1>1. CASE Launch(p)
    BY <1>1, <1>0 DEF Launch, Goto, play, file, host, Sure, Real, Selected, Logging,
       Ended
  <1>2. CASE AssertVars(p)
    BY <1>2, <1>0 DEF AssertVars, Goto, play, file, host, Sure, Real,
       Selected, Logging, Ended
  <1>3. CASE Precheck(p)
    BY <1>3, <1>0 DEF Precheck, At, Finish, Goto, play, file, host, Sure,
       Real, Selected, Logging, Ended
  <1>4. CASE QueryBackup(p)
    BY <1>4, <1>0 DEF QueryBackup, At, Finish, Goto, play, file, host, Sure,
       Real, Selected, Logging, Ended
  <1>5. CASE AssertBackup(p)
    BY <1>5, <1>0 DEF AssertBackup, At, AfterBackup, Finish, Goto, play, file,
       host, Sure, Real, Selected, Logging, Ended
  <1>6. CASE ValidateBackup(p)
    BY <1>6, <1>0 DEF ValidateBackup, At, Finish, Goto, play, file, host,
       Sure, Real, Selected, Logging, Ended
  <1>7. CASE Stage(p)
    BY <1>7, <1>0 DEF Stage, At, Finish, Goto, play, file, host, Sure, Real,
       Selected, Logging, Ended
  <1>8. CASE Confirm(p)
    BY <1>8, <1>0 DEF Confirm, At, Finish, Goto, play, file, host, Sure, Real,
       Selected, Logging, Ended
  <1>9. CASE StopListener(p)
    BY <1>9, <1>0 DEF StopListener, At, Goto, play, file, host, Sure, Real,
       Selected, Logging, Ended
  <1>10. CASE Shutdown(p)
    BY <1>10, <1>0 DEF Shutdown, At, Finish, Goto, play, file, host, Sure,
       Real, Selected, Logging, Ended
  <1>11. CASE ApplyAuto(p)
    BY <1>11, <1>0 DEF ApplyAuto, At, Patching, Finish, Goto, play, file,
       host, Sure, Real, Selected, Logging, Ended
  <1>12. CASE ApplyManual(p)
    BY <1>12, <1>0 DEF ApplyManual, At, Patching, Finish, Goto, play, file,
       host, Sure, Real, Selected, Logging, Ended
  <1>13. CASE Startup(p)
    BY <1>13, <1>0 DEF Startup, At, Finish, Goto, play, file, host, Sure,
       Real, Selected, Logging, Ended
  <1>14. CASE StartListener(p)
    BY <1>14, <1>0 DEF StartListener, At, Finish, Goto, play, file, host,
       Sure, Real, Selected, Logging, Ended
  <1>15. CASE Datapatch(p)
    BY <1>15, <1>0 DEF Datapatch, At, Finish, Goto, play, file, host, Sure,
       Real, Selected, Logging, Ended
  <1>16. CASE CheckInventory(p)
    BY <1>16, <1>0 DEF CheckInventory, At, Finish, Goto, play, file, host,
       Sure, Real, Selected, Logging, Ended
  <1>17. CASE CheckSqlpatch(p)
    BY <1>17, <1>0 DEF CheckSqlpatch, At, Finish, Goto, play, file, host,
       Sure, Real, Selected, Logging, Ended
  <1>18. CASE AuditRead(p)
    BY <1>18, <1>0 DEF AuditRead, Goto, play, file, host, Sure, Real,
       Selected, Logging, Ended
  <1>19. CASE AuditWrite(p)
    BY <1>19, <1>0 DEF AuditWrite, End, Goto, play, file, host, Sure,
       Real, Selected, Logging, Ended
  <1>20. CASE AuditFails(p)
    BY <1>20, <1>0 DEF AuditFails, End, Goto, play, file, host, Sure,
       Real, Selected, Logging, Ended
  <1>21. CASE Unreachable(p)
    BY <1>21, <1>0 DEF Unreachable, End, Goto, play, file, host, Sure,
       Real, Selected, Logging, Ended
  <1>22. CASE Kill(p)
    BY <1>22, <1>0 DEF Kill, End, Goto, play, file, host, Sure, Real,
       Selected, Logging, Ended
  <1>23. CASE DieApplying(p)
    BY <1>23, <1>0 DEF DieApplying, At, Patching, End, Goto, play, file, host,
       Sure, Real, Selected, Logging, Ended
  <1>24. CASE PassOver(p)
    BY <1>24, <1>0, SameFile DEF PassOver, AfterFile, Goto, play, file, host,
       Sure, Real, Selected, Logging, Ended
  <1> QED
    BY <1>1, <1>2, <1>3, <1>4, <1>5, <1>6, <1>7, <1>8, <1>9, <1>10,
       <1>11, <1>12, <1>13, <1>14, <1>15, <1>16, <1>17, <1>18, <1>19,
       <1>20, <1>21, <1>22, <1>23, <1>24 DEF Act

LEMMA NextSure ==
  ASSUME OneAfterTheOther
  PROVE  TypeOK /\ Alone /\ SureInv /\ [Next]_vars => SureInv'
  <1> SUFFICES ASSUME TypeOK, Alone, SureInv, [Next]_vars PROVE SureInv'
    OBVIOUS
  <1>1. CASE UNCHANGED vars
    BY <1>1 DEF vars, play, file, host, SureInv, Sure, Real, Selected
  <1>2. ASSUME NEW p \in Plays, Act(p) PROVE SureInv'
    <2>1. \A q \in Plays \ {p} : task'[q] \in {"idle"} \cup Ended
      BY <1>2, OthersRest
    <2>2. \A q \in Plays \ {p} : Sure(q)'
      BY <2>1 DEF Sure, Logging, Ended
    <2>3. Sure(p)'
      BY <1>2, SureStep DEF SureInv
    <2> QED
      BY <2>2, <2>3 DEF SureInv
  <1> QED
    BY <1>1, <1>2, NextActs

\* What a play that has to validate its backups knows of them: that an instance
\* that is up has answered the truth, and after RESTORE VALIDATE that all have.
Backed(p) ==
  mode[p].validate /\ ~mode[p].skip /\ Selected(p, "validate") =>
    /\ task[p] \in {"backup_gate", "validate"} =>
         \A c \in up : heard[p][c] # "NONE" => c \in vouched[p]
    /\ task[p] = "validate" => \A c \in Cdbs : heard[p][c] # "NONE"
    /\ task[p] \in {"stage", "confirm"} \cup Changes => vouched[p] = Cdbs

BackedInv == \A p \in Plays : Backed(p)

\* Nor that.
LEMMA BackedStep ==
  ASSUME TypeOK, NEW p \in Plays, Act(p), Backed(p)
  PROVE  Backed(p)'
  <1>0. /\ Backed(p) /\ mode \in [Plays -> Modes]
        /\ DOMAIN task = Plays /\ DOMAIN heard = Plays /\ DOMAIN vouched = Plays
        /\ up \in SUBSET Cdbs /\ vouched[p] \in SUBSET Cdbs
    BY DEF TypeOK
  <1>1. CASE Launch(p)
    BY <1>1, <1>0 DEF Launch, Goto, play, file, host, Backed, Selected, Changes,
       Ended
  <1>2. CASE AssertVars(p)
    BY <1>2, <1>0 DEF AssertVars, Goto, play, file, host, Backed, Selected, Changes,
       Ended
  <1>3. CASE Precheck(p)
    BY <1>3, <1>0 DEF Precheck, At, Finish, Goto, play, file, host, Backed,
       Selected, Changes, Ended
  <1>4. CASE QueryBackup(p)
    <2>1. PICK recent \in SUBSET Cdbs :
            /\ heard' = [heard EXCEPT ![p] = [c \in Cdbs |->
                 IF c \notin up THEN "ORA-" ELSE IF c \in recent THEN "time" ELSE "NONE"]]
            /\ vouched' = [vouched EXCEPT ![p] = recent]
      BY <1>4 DEF QueryBackup, At
    <2>2. vouched'[p] = recent /\ \A c \in up : heard'[p][c] # "NONE" => c \in recent
      BY <1>0, <2>1
    <2>3. /\ task'[p] \in {"backup_gate", "audit"}
          /\ mode' = mode /\ up' = up
      BY <1>0, <1>4 DEF QueryBackup, At, Finish, Goto, host
    <2> QED
      BY <2>2, <2>3 DEF Backed, Selected, Changes
  <1>5. CASE AssertBackup(p)
    BY <1>5, <1>0 DEF AssertBackup, At, AfterBackup, Finish, Goto, play, file,
       host, Backed, Selected, Changes, Ended
  <1>6. CASE ValidateBackup(p)
    BY <1>6, <1>0 DEF ValidateBackup, At, Finish, Goto, play, file, host,
       Backed, Selected, Changes, Ended
  <1>7. CASE Stage(p)
    BY <1>7, <1>0 DEF Stage, At, Finish, Goto, play, file, host, Backed,
       Selected, Changes, Ended
  <1>8. CASE Confirm(p)
    BY <1>8, <1>0 DEF Confirm, At, Finish, Goto, play, file, host, Backed,
       Selected, Changes, Ended
  <1>9. CASE StopListener(p)
    BY <1>9, <1>0 DEF StopListener, At, Goto, play, file, host, Backed,
       Selected, Changes, Ended
  <1>10. CASE Shutdown(p)
    BY <1>10, <1>0 DEF Shutdown, At, Finish, Goto, play, file, host, Backed,
       Selected, Changes, Ended
  <1>11. CASE ApplyAuto(p)
    BY <1>11, <1>0 DEF ApplyAuto, At, Patching, Finish, Goto, play, file,
       host, Backed, Selected, Changes, Ended
  <1>12. CASE ApplyManual(p)
    BY <1>12, <1>0 DEF ApplyManual, At, Patching, Finish, Goto, play, file,
       host, Backed, Selected, Changes, Ended
  <1>13. CASE Startup(p)
    BY <1>13, <1>0 DEF Startup, At, Finish, Goto, play, file, host, Backed,
       Selected, Changes, Ended
  <1>14. CASE StartListener(p)
    BY <1>14, <1>0 DEF StartListener, At, Finish, Goto, play, file, host,
       Backed, Selected, Changes, Ended
  <1>15. CASE Datapatch(p)
    BY <1>15, <1>0 DEF Datapatch, At, Finish, Goto, play, file, host, Backed,
       Selected, Changes, Ended
  <1>16. CASE CheckInventory(p)
    BY <1>16, <1>0 DEF CheckInventory, At, Finish, Goto, play, file, host,
       Backed, Selected, Changes, Ended
  <1>17. CASE CheckSqlpatch(p)
    BY <1>17, <1>0 DEF CheckSqlpatch, At, Finish, Goto, play, file, host,
       Backed, Selected, Changes, Ended
  <1>18. CASE AuditRead(p)
    BY <1>18, <1>0 DEF AuditRead, Goto, play, file, host, Backed, Selected, Changes,
       Ended
  <1>19. CASE AuditWrite(p)
    BY <1>19, <1>0 DEF AuditWrite, End, Goto, play, file, host, Backed,
       Selected, Changes, Ended
  <1>20. CASE AuditFails(p)
    BY <1>20, <1>0 DEF AuditFails, End, Goto, play, file, host, Backed,
       Selected, Changes, Ended
  <1>21. CASE Unreachable(p)
    BY <1>21, <1>0 DEF Unreachable, End, Goto, play, file, host, Backed,
       Selected, Changes, Ended
  <1>22. CASE Kill(p)
    BY <1>22, <1>0 DEF Kill, End, Goto, play, file, host, Backed, Selected, Changes,
       Ended
  <1>23. CASE DieApplying(p)
    BY <1>23, <1>0 DEF DieApplying, At, Patching, End, Goto, play, file, host,
       Backed, Selected, Changes, Ended
  <1>24. CASE PassOver(p)
    BY <1>24, <1>0, SameFile DEF PassOver, AfterFile, Goto, play, file, host,
       Backed, Selected, Changes, Ended
  <1> QED
    BY <1>1, <1>2, <1>3, <1>4, <1>5, <1>6, <1>7, <1>8, <1>9, <1>10,
       <1>11, <1>12, <1>13, <1>14, <1>15, <1>16, <1>17, <1>18, <1>19,
       <1>20, <1>21, <1>22, <1>23, <1>24 DEF Act

LEMMA NextBacked ==
  ASSUME OneAfterTheOther
  PROVE  TypeOK /\ Alone /\ BackedInv /\ [Next]_vars => BackedInv'
  <1> SUFFICES ASSUME TypeOK, Alone, BackedInv, [Next]_vars PROVE BackedInv'
    OBVIOUS
  <1>1. CASE UNCHANGED vars
    BY <1>1 DEF vars, play, file, host, BackedInv, Backed, Selected
  <1>2. ASSUME NEW p \in Plays, Act(p) PROVE BackedInv'
    <2>1. \A q \in Plays \ {p} : task'[q] \in {"idle"} \cup Ended
      BY <1>2, OthersRest
    <2>2. \A q \in Plays \ {p} : Backed(q)'
      BY <2>1 DEF Backed, Changes, Ended
    <2>3. Backed(p)'
      BY <1>2, BackedStep DEF BackedInv
    <2> QED
      BY <2>2, <2>3 DEF BackedInv
  <1> QED
    BY <1>1, <1>2, NextActs

-----------------------------------------------------------------------------
(* One play that no other overlaps, whatever the others do among themselves *)

Solitary(p) == p \in UnderWay => UnderWay = {p}

LEMMA SolitaryNext ==
  ASSUME NEW p \in Plays
  PROVE  /\ TypeOK /\ Solitary(p) /\ Solitary(p)' /\ [Next]_vars
         /\ Sure(p) /\ Backed(p)
         => Sure(p)' /\ Backed(p)'
  <1> SUFFICES ASSUME TypeOK, Solitary(p), Solitary(p)', [Next]_vars, Sure(p), Backed(p)
               PROVE  Sure(p)' /\ Backed(p)'
    OBVIOUS
  <1>1. CASE UNCHANGED vars
    BY <1>1 DEF vars, play, file, host, Sure, Real, Backed, Selected
  <1>2. CASE Act(p)
    BY <1>2, SureStep, BackedStep
  <1>3. ASSUME NEW q \in Plays, q # p, Act(q) PROVE Sure(p)' /\ Backed(p)'
    <2>1. task'[p] = task[p] /\ (Launch(q) \/ q \in UnderWay)
      BY <1>3, ActsAlone
    <2>2. p \notin UnderWay
      <3> SUFFICES ASSUME p \in UnderWay PROVE FALSE
        OBVIOUS
      <3>1. q \notin UnderWay
        BY <1>3 DEF Solitary
      <3>2. task'[q] = "vars"
        BY <2>1, <3>1 DEF Launch, Goto, TypeOK
      <3>3. p \in UnderWay' /\ q \in UnderWay'
        BY <2>1, <3>2 DEF UnderWay, Ended
      <3> QED
        BY <1>3, <3>3 DEF Solitary
    <2>3. task'[p] \in {"idle"} \cup Ended
      BY <2>1, <2>2 DEF UnderWay
    <2> QED
      BY <2>3 DEF Sure, Backed, Logging, Changes, Ended
  <1> QED
    BY <1>1, <1>2, <1>3, NextActs

\* A play that no other overlaps, on a host that any number of others have been at
\* before, one over the other even, and left in any state: its success is real if it
\* has its postcheck, it starts nothing on a half-patched home, and changes nothing
\* without the backups it was to validate (postcheck.yml:5-92, apply_patch.yml:45-46,
\* backup_check.yml).
THEOREM SolitaryPlay ==
  ASSUME NEW p \in Plays
  PROVE  Spec /\ []Solitary(p) =>
           [](/\ /\ task[p] \in Logging /\ outcome[p] = "SUCCESS"
                 /\ mode[p].full /\ Selected(p, "sqlpatch")
                 => Real(p)
              /\ task[p] = "startup" => binaries # "half"
              /\ /\ task[p] \in Changes
                 /\ mode[p].validate /\ ~mode[p].skip /\ Selected(p, "validate")
                 => vouched[p] = Cdbs)
  <1> DEFINE Worth ==
        /\ /\ task[p] \in Logging /\ outcome[p] = "SUCCESS"
           /\ mode[p].full /\ Selected(p, "sqlpatch")
           => Real(p)
        /\ task[p] = "startup" => binaries # "half"
        /\ /\ task[p] \in Changes
           /\ mode[p].validate /\ ~mode[p].skip /\ Selected(p, "validate")
           => vouched[p] = Cdbs
  <1>1. Init => Sure(p) /\ Backed(p)
    BY DEF Init, Sure, Backed, Changes, Logging
  <1>2. Sure(p) /\ Backed(p) => Worth
    BY DEF Sure, Backed
  <1> HIDE DEF Worth
  <1>3. Spec /\ []Solitary(p) => []Worth
    BY TypeCorrect, SolitaryNext, <1>1, <1>2, PTL DEF Spec
  <1> QED
    BY <1>3 DEF Worth

-----------------------------------------------------------------------------
(* One audit entry each *)

EntriesOf(p) == {i \in DOMAIN audit : audit[i].play = p}

\* While an entry is being added, the file is still the one that was read; a play
\* has its entry when it has written it and none before.
Entered(p) ==
  /\ task[p] = "audit_write" => draft[p] = audit
  /\ IF task[p] \in {"ok", "failed"}
       THEN \E i \in DOMAIN audit : EntriesOf(p) = {i} /\ audit[i].outcome = Noted(p)
       ELSE EntriesOf(p) = {}

EnteredInv == \A p \in Plays : Entered(p)

\* A step that leaves the file as it is.
LEMMA EnteredKept ==
  ASSUME NEW p, Entered(p), audit' = audit, Noted(p)' = Noted(p),
         task[p] \in {"ok", "failed"} <=> task'[p] \in {"ok", "failed"},
         task'[p] # "audit_write"
  PROVE  Entered(p)'
  BY DEF Entered, EntriesOf

LEMMA EntryAppended ==
  ASSUME TypeOK, NEW p \in Plays, AuditWrite(p), draft[p] = audit
  PROVE  /\ audit' \in Seq(Entry)
         /\ Len(audit') = Len(audit) + 1
         /\ \A i \in 1 .. Len(audit) : audit'[i] = audit[i]
         /\ audit'[Len(audit) + 1] = [play |-> p, outcome |-> Noted(p)]
  <1>1. audit \in Seq(Entry) /\ [play |-> p, outcome |-> Noted(p)] \in Entry
    BY DEF TypeOK, Entry, Noted
  <1>2. audit' = Append(audit, [play |-> p, outcome |-> Noted(p)])
    BY DEF AuditWrite
  <1> QED
    BY <1>1, <1>2, AppendProperties

LEMMA NextEntered ==
  ASSUME OneAfterTheOther
  PROVE  TypeOK /\ Alone /\ EnteredInv /\ [Next]_vars => EnteredInv'
  <1> SUFFICES ASSUME TypeOK, Alone, EnteredInv, [Next]_vars PROVE EnteredInv'
    OBVIOUS
  <1>1. CASE UNCHANGED vars
    BY <1>1 DEF vars, play, file, host, EnteredInv, Entered, EntriesOf,
       Noted
  <1>2. ASSUME NEW p \in Plays, Act(p) PROVE EnteredInv'
    <2>1. \A q \in Plays \ {p} : task'[q] = task[q] /\ task[q] \in {"idle"} \cup Ended
      BY <1>2, OthersRest
    <2>2. /\ DOMAIN task = Plays /\ DOMAIN outcome = Plays /\ DOMAIN draft = Plays
          /\ audit \in Seq(Entry)
          /\ \A q \in Plays : Entered(q)
      BY DEF EnteredInv, TypeOK
    <2>3. \A q \in Plays \ {p} : Noted(q)' = Noted(q)
      BY <1>2, ActsAlone DEF Noted
    <2>4. CASE audit' = audit
      <3>1. \A q \in Plays \ {p} : Entered(q)'
        BY <2>1, <2>2, <2>3, <2>4, EnteredKept DEF Ended
      <3>2. /\ task[p] \notin {"ok", "failed"} /\ task'[p] \notin {"ok", "failed"}
            /\ task'[p] = "audit_write" => draft'[p] = audit
        <4>1. CASE Launch(p)
          BY <4>1, <2>2 DEF Launch, Goto, play, file, UnderWay, Gates,
             Changes, Logging, Ended
        <4>2. CASE AssertVars(p)
          BY <4>2, <2>2 DEF AssertVars, Goto, play, file, UnderWay, Gates,
             Changes, Logging, Ended
        <4>3. CASE Precheck(p)
          BY <4>3, <2>2 DEF Precheck, At, Finish, Goto, play, file, UnderWay,
             Gates, Changes, Logging, Ended
        <4>4. CASE QueryBackup(p)
          BY <4>4, <2>2 DEF QueryBackup, At, Finish, Goto, play, file, UnderWay,
             Gates, Changes, Logging, Ended
        <4>5. CASE AssertBackup(p)
          BY <4>5, <2>2 DEF AssertBackup, At, AfterBackup, Finish, Goto, play,
             file, UnderWay, Gates, Changes, Logging, Ended
        <4>6. CASE ValidateBackup(p)
          BY <4>6, <2>2 DEF ValidateBackup, At, Finish, Goto, play, file,
             UnderWay, Gates, Changes, Logging, Ended
        <4>7. CASE Stage(p)
          BY <4>7, <2>2 DEF Stage, At, Finish, Goto, play, file, UnderWay, Gates,
             Changes, Logging, Ended
        <4>8. CASE Confirm(p)
          BY <4>8, <2>2 DEF Confirm, At, Finish, Goto, play, file, UnderWay,
             Gates, Changes, Logging, Ended
        <4>9. CASE StopListener(p)
          BY <4>9, <2>2 DEF StopListener, At, Goto, play, file, UnderWay, Gates,
             Changes, Logging, Ended
        <4>10. CASE Shutdown(p)
          BY <4>10, <2>2 DEF Shutdown, At, Finish, Goto, play, file, UnderWay,
             Gates, Changes, Logging, Ended
        <4>11. CASE ApplyAuto(p)
          BY <4>11, <2>2 DEF ApplyAuto, At, Patching, Finish, Goto, play, file,
             UnderWay, Gates, Changes, Logging, Ended
        <4>12. CASE ApplyManual(p)
          BY <4>12, <2>2 DEF ApplyManual, At, Patching, Finish, Goto, play, file,
             UnderWay, Gates, Changes, Logging, Ended
        <4>13. CASE Startup(p)
          BY <4>13, <2>2 DEF Startup, At, Finish, Goto, play, file, UnderWay,
             Gates, Changes, Logging, Ended
        <4>14. CASE StartListener(p)
          BY <4>14, <2>2 DEF StartListener, At, Finish, Goto, play, file,
             UnderWay, Gates, Changes, Logging, Ended
        <4>15. CASE Datapatch(p)
          BY <4>15, <2>2 DEF Datapatch, At, Finish, Goto, play, file, UnderWay,
             Gates, Changes, Logging, Ended
        <4>16. CASE CheckInventory(p)
          BY <4>16, <2>2 DEF CheckInventory, At, Finish, Goto, play, file,
             UnderWay, Gates, Changes, Logging, Ended
        <4>17. CASE CheckSqlpatch(p)
          BY <4>17, <2>2 DEF CheckSqlpatch, At, Finish, Goto, play, file,
             UnderWay, Gates, Changes, Logging, Ended
        <4>18. CASE AuditRead(p)
          BY <4>18, <2>2 DEF AuditRead, Goto, play, file, UnderWay, Gates,
             Changes, Logging, Ended
        <4>19. CASE AuditWrite(p)
          <5>1. draft[p] = audit
            BY <2>2, <4>19 DEF AuditWrite, Entered
          <5>2. Len(audit') = Len(audit) + 1
            BY <4>19, <5>1, EntryAppended
          <5>3. Len(audit) \in Nat
            BY <2>2
          <5> QED
            BY <2>4, <5>2, <5>3
        <4>20. CASE AuditFails(p)
          BY <4>20, <2>2 DEF AuditFails, End, Goto, play, file, UnderWay,
             Gates, Changes, Logging, Ended
        <4>21. CASE Unreachable(p)
          BY <4>21, <2>2 DEF Unreachable, End, Goto, play, file, UnderWay,
             Gates, Changes, Logging, Ended
        <4>22. CASE Kill(p)
          BY <4>22, <2>2 DEF Kill, End, Goto, play, file, UnderWay, Gates,
             Changes, Logging, Ended
        <4>23. CASE DieApplying(p)
          BY <4>23, <2>2 DEF DieApplying, At, Patching, End, Goto, play, file,
             UnderWay, Gates, Changes, Logging, Ended
        <4>24. CASE PassOver(p)
          BY <4>24, <2>2 DEF PassOver, AfterFile, Goto, play, file, UnderWay,
             Gates, Changes, Logging, Ended
        <4> QED
          BY <1>2, <4>1, <4>2, <4>3, <4>4, <4>5, <4>6, <4>7, <4>8, <4>9,
             <4>10, <4>11, <4>12, <4>13, <4>14, <4>15, <4>16, <4>17, <4>18,
             <4>19, <4>20, <4>21, <4>22, <4>23, <4>24 DEF Act
      <3> QED
        BY <2>2, <2>4, <3>1, <3>2 DEF EnteredInv, Entered, EntriesOf
    <2>5. CASE AuditWrite(p)
      <3> DEFINE n == Len(audit) + 1
      <3>1. draft[p] = audit
        BY <2>2, <2>5 DEF AuditWrite, Entered
      <3>2. /\ audit' \in Seq(Entry)
            /\ Len(audit') = n
            /\ \A i \in 1 .. Len(audit) : audit'[i] = audit[i]
            /\ audit'[n] = [play |-> p, outcome |-> Noted(p)]
        BY <2>5, <3>1, EntryAppended
      <3>3. Len(audit) \in Nat /\ DOMAIN audit = 1 .. Len(audit)
        BY <2>2
      <3>4. DOMAIN audit' = 1 .. n
        BY <3>2
      <3>5. /\ n \notin DOMAIN audit
            /\ DOMAIN audit' = DOMAIN audit \cup {n}
            /\ \A i \in DOMAIN audit : audit'[i] = audit[i]
        BY <3>2, <3>3, <3>4
      <3> HIDE DEF n
      <3>6. \A q \in Plays \ {p} : Entered(q)'
        <4>1. \A q \in Plays \ {p} : EntriesOf(q)' = EntriesOf(q)
          BY <3>2, <3>5 DEF EntriesOf
        <4> QED
          BY <2>1, <2>2, <2>3, <3>5, <4>1 DEF Entered, Ended, EntriesOf
      <3>7. Entered(p)'
        <4>1. EntriesOf(p) = {}
          BY <2>2, <2>5 DEF Entered, AuditWrite
        <4>2. EntriesOf(p)' = {n} /\ audit'[n].outcome = Noted(p)
          BY <3>2, <3>5, <4>1 DEF EntriesOf
        <4>3. task'[p] \in {"ok", "failed"} /\ Noted(p)' = Noted(p)
          BY <2>2, <2>5 DEF AuditWrite, End, Goto, Noted
        <4> QED
          BY <3>5, <4>2, <4>3 DEF Entered
      <3> QED
        BY <3>6, <3>7 DEF EnteredInv
    <2>6. audit' = audit \/ AuditWrite(p)
      BY <1>2 DEF Act, file, Launch, AssertVars, Precheck, QueryBackup, AssertBackup,
         ValidateBackup, Stage, Confirm, StopListener, Shutdown, ApplyAuto, ApplyManual,
         Startup, StartListener, Datapatch, CheckInventory, CheckSqlpatch, AuditRead,
         AuditFails, PassOver, Unreachable, Kill, DieApplying
    <2> QED
      BY <2>4, <2>5, <2>6
  <1> QED
    BY <1>1, <1>2, NextActs

-----------------------------------------------------------------------------
(* The entries of plays that may overlap *)

\* What is noted of each play.
noted == [p \in Plays |-> Noted(p)]

\* What a file says of the plays it names is final, and as noted, and said once; t and
\* o are the tasks of the plays and what is noted of them.
Told(f, t, o) ==
  /\ \A i, j \in DOMAIN f : f[i].play = f[j].play => i = j
  /\ \A i \in DOMAIN f :
       t[f[i].play] \in {"ok", "failed"} /\ f[i].outcome = o[f[i].play]

ToldInv ==
  /\ Told(audit, task, noted)
  /\ \A p \in Plays : Told(draft[p], task, noted)

\* Nothing changes about a play that is over.
LEMMA ToldKept ==
  ASSUME TypeOK, [Next]_vars
  PROVE  \A f \in Seq(Entry) : Told(f, task, noted) => Told(f, task', noted')
  <1>1. ASSUME NEW q \in Plays, task[q] \in {"ok", "failed"}
        PROVE  task'[q] = task[q] /\ noted'[q] = noted[q]
    <2>1. CASE UNCHANGED vars
      BY <2>1 DEF vars, play, noted, Noted
    <2>2. ASSUME NEW p \in Plays, Act(p)
          PROVE  task'[q] = task[q] /\ noted'[q] = noted[q]
      <3>1. Launch(p) \/ p \in UnderWay
        BY <2>2, ActsAlone
      <3>2. p # q
        BY <1>1, <3>1 DEF Launch, UnderWay, Ended
      <3> QED
        BY <2>2, <3>2, ActsAlone DEF noted, Noted
    <2> QED
      BY <2>1, <2>2, NextActs
  <1>2. ASSUME NEW f \in Seq(Entry), NEW i \in DOMAIN f PROVE f[i].play \in Plays
    <2>1. f[i] \in Entry
      BY <1>2, ElementOfSeq
    <2> QED
      BY <2>1 DEF Entry
  <1> QED
    BY <1>1, <1>2 DEF Told

\* The entry of a play that had none, added to what is told already.
LEMMA ToldAppended ==
  ASSUME NEW f \in Seq(Entry), NEW t, NEW o, Told(f, t, o), NEW p \in Plays,
         o[p] \in {"SUCCESS", "FAILED"}, t[p] \in {"ok", "failed"},
         \A i \in DOMAIN f : f[i].play # p
  PROVE  Told(Append(f, [play |-> p, outcome |-> o[p]]), t, o)
  <1> DEFINE e == [play |-> p, outcome |-> o[p]]
             g == Append(f, e)
  <1>1. e \in Entry /\ e.play = p /\ e.outcome = o[p]
    BY DEF Entry
  <1> HIDE DEF e
  <1>2. /\ g \in Seq(Entry) /\ Len(g) = Len(f) + 1
        /\ \A i \in 1 .. Len(f) : g[i] = f[i]
        /\ g[Len(f) + 1] = e
    BY <1>1, AppendProperties
  <1>3. Len(f) \in Nat /\ DOMAIN f = 1 .. Len(f) /\ DOMAIN g = 1 .. Len(g)
    BY <1>2
  <1>4. DOMAIN g = DOMAIN f \cup {Len(f) + 1}
    BY <1>2, <1>3
  <1> HIDE DEF g
  <1>5. \A i \in DOMAIN f : g[i] = f[i]
    BY <1>2, <1>3
  <1> QED
    BY <1>1, <1>2, <1>4, <1>5 DEF Told, e, g

\* What one play does to the audit file and to what the plays have read of it.
LEMMA ActFiles ==
  ASSUME TypeOK, NEW p \in Plays, Act(p)
  PROVE  /\ audit' = audit \/ AuditWrite(p)
         /\ \A q \in Plays : draft'[q] \in {draft[q], audit, <<>>}
  <1>0. draft \in [Plays -> Seq(Entry)]
    BY DEF TypeOK
  <1>1. CASE Launch(p) \/ AssertVars(p) \/ Precheck(p) \/ QueryBackup(p)
    BY <1>1 DEF Launch, AssertVars, Precheck, QueryBackup, file
  <1>2. CASE AssertBackup(p) \/ ValidateBackup(p) \/ Stage(p) \/ Confirm(p)
    BY <1>2 DEF AssertBackup, ValidateBackup, Stage, Confirm, file
  <1>3. CASE StopListener(p) \/ Shutdown(p) \/ ApplyAuto(p) \/ ApplyManual(p)
    BY <1>3 DEF StopListener, Shutdown, ApplyAuto, ApplyManual, file
  <1>4. CASE Startup(p) \/ StartListener(p) \/ Datapatch(p)
    BY <1>4 DEF Startup, StartListener, Datapatch, file
  <1>5. CASE CheckInventory(p) \/ CheckSqlpatch(p) \/ PassOver(p)
    BY <1>5 DEF CheckInventory, CheckSqlpatch, PassOver, file
  <1>6. CASE AuditRead(p)
    BY <1>0, <1>6 DEF AuditRead
  <1>7. CASE AuditWrite(p)
    BY <1>0, <1>7 DEF AuditWrite, End
  <1>8. CASE AuditFails(p) \/ Unreachable(p) \/ Kill(p)
    BY <1>0, <1>8 DEF AuditFails, Unreachable, Kill, End
  <1>9. CASE DieApplying(p)
    BY <1>0, <1>9 DEF DieApplying, End
  <1> QED
    BY <1>1, <1>2, <1>3, <1>4, <1>5, <1>6, <1>7, <1>8, <1>9 DEF Act

LEMMA NextTold == TypeOK /\ ToldInv /\ [Next]_vars => ToldInv'
  <1> SUFFICES ASSUME TypeOK, ToldInv, [Next]_vars PROVE ToldInv'
    OBVIOUS
  <1>0. /\ audit \in Seq(Entry) /\ \A q \in Plays : draft[q] \in Seq(Entry)
        /\ noted \in [Plays -> {"SUCCESS", "FAILED"}] /\ DOMAIN task = Plays
    BY DEF TypeOK, noted, Noted
  <1>1. /\ Told(audit, task', noted')
        /\ \A q \in Plays : Told(draft[q], task', noted')
    BY <1>0, ToldKept DEF ToldInv
  <1>2. Told(<<>>, task', noted')
    BY DEF Told
  <1>3. CASE UNCHANGED vars
    BY <1>1, <1>3 DEF vars, file, ToldInv
  <1>4. ASSUME NEW p \in Plays, Act(p) PROVE ToldInv'
    <2>1. \A q \in Plays : Told(draft'[q], task', noted')
      <3>1. ASSUME NEW q \in Plays PROVE Told(draft'[q], task', noted')
        <4>1. draft'[q] \in {draft[q], audit, <<>>}
          BY <1>4, ActFiles
        <4> QED
          BY <1>1, <1>2, <4>1
      <3> QED
        BY <3>1
    <2>2. CASE audit' = audit
      BY <1>1, <2>1, <2>2 DEF ToldInv
    <2>3. CASE AuditWrite(p)
      <3>1. /\ audit' = Append(draft[p], [play |-> p, outcome |-> noted'[p]])
            /\ task[p] = "audit_write" /\ task'[p] \in {"ok", "failed"}
            /\ noted'[p] \in {"SUCCESS", "FAILED"}
        BY <1>0, <2>3 DEF AuditWrite, End, Goto, noted, Noted
      <3>2. \A i \in DOMAIN draft[p] : draft[p][i].play # p
        BY <3>1 DEF ToldInv, Told
      <3>3. draft[p] \in Seq(Entry) /\ Told(draft[p], task', noted')
        BY <1>0, <1>1
      <3>4. Told(Append(draft[p], [play |-> p, outcome |-> noted'[p]]), task', noted')
        <4> DEFINE f == draft[p]
                   t == task'
                   o == noted'
        <4>1. /\ f \in Seq(Entry) /\ Told(f, t, o)
              /\ \A i \in DOMAIN f : f[i].play # p
              /\ o[p] \in {"SUCCESS", "FAILED"} /\ t[p] \in {"ok", "failed"}
          BY <3>1, <3>2, <3>3
        <4> HIDE DEF f, t, o
        <4>2. Told(Append(f, [play |-> p, outcome |-> o[p]]), t, o)
          BY <4>1, ToldAppended
        <4> QED
          BY <4>2 DEF f, t, o
      <3> QED
        BY <2>1, <3>1, <3>4 DEF ToldInv
    <2> QED
      BY <1>4, <2>2, <2>3, ActFiles
  <1> QED
    BY <1>3, <1>4, NextActs

\* Of plays that overlap in any way, no play ever has two entries, or one before it
\* is over, and each entry tells how its play has ended, unless --tags has taken the
\* rescue away (main.yml:90-105, audit_log.yml:18-35).
THEOREM EntriesAreTrue == Spec => []EntriesTrue
  <1>1. Init => ToldInv
    BY DEF Init, ToldInv, Told
  <1>2. TypeOK /\ ToldInv => EntriesTrue
    <2> SUFFICES ASSUME TypeOK, ToldInv PROVE EntriesTrue
      OBVIOUS
    <2>1. ASSUME NEW i \in DOMAIN audit PROVE audit[i].play \in Plays
      <3>1. audit \in Seq(Entry)
        BY DEF TypeOK
      <3>2. audit[i] \in Entry
        BY <3>1, ElementOfSeq
      <3> QED
        BY <3>2 DEF Entry
    <2>2. \A i \in DOMAIN audit : audit[i].outcome = Noted(audit[i].play)
      BY <2>1 DEF ToldInv, Told, noted
    <2> QED
      BY <2>2 DEF ToldInv, Told, EntriesTrue, Noted
  <1> QED
    BY TypeCorrect, NextTold, <1>1, <1>2, PTL DEF Spec

-----------------------------------------------------------------------------
(* The role implements HostSteps *)

steps == [p \in Plays |-> Step(p)]

\* The moves HostSteps allows a play, with what they do to the host; a play with tags
\* is somebody else's.
Moved(p) ==
  \/ Step(p)' = Step(p) /\ host' = host
  \/ Step(p) = "none" /\ Step(p)' = "none"
  \/ Step(p) = "none" /\ Step(p)' = "gate" /\ host' = host
  \/ Step(p) = "gate" /\ Step(p)' = "change" /\ host' = host
  \/ Step(p) = "change" /\ Step(p)' \in {"change", "verify", "failed"}
  \/ Step(p) = "verify" /\ Step(p)' = "passed" /\ host' = host /\ host \in Checked
  \/ Step(p) \in {"gate", "verify"} /\ Step(p)' = "failed" /\ host' = host

LEMMA HostType == /\ TypeOK => host \in Homes
                  /\ TypeOK' => host' \in Homes
  BY DEF TypeOK, host, Homes

LEMMA RealChecked ==
  ASSUME TypeOK, NEW p \in Plays, Real(p)
  PROVE  host \in Checked
  <1>1. rows \in [Cdbs -> SUBSET {"SUCCESS"}]
    BY DEF TypeOK, Real
  <1> QED
    BY <1>1 DEF TypeOK, Real, host, Checked

\* Step, task by task.
Stepped(p) ==
  /\ ~mode[p].full \/ ~Untagged(p) \/ task[p] = "idle" => Step(p) = "none"
  /\ mode[p].full /\ Untagged(p) =>
       /\ task[p] \in {"vars"} \cup Gates => Step(p) = "gate"
       /\ task[p] \in Changes \ {"lsinventory", "sqlpatch"} => Step(p) = "change"
       /\ task[p] \in {"lsinventory", "sqlpatch"} => Step(p) = "verify"
       /\ task[p] \in Logging => Step(p) = IF outcome[p] = "SUCCESS" THEN "verify" ELSE "failed"
       /\ task[p] = "ok" => Step(p) = "passed"
       /\ task[p] \in Ended \ {"ok"} => Step(p) = "failed"

LEMMA StepIs == \A p \in Plays : Stepped(p) /\ Stepped(p)'
  <1>1. \A p \in Plays : Stepped(p)
    <2> SUFFICES ASSUME NEW p \in Plays PROVE Stepped(p)
      OBVIOUS
    <2>1. ~mode[p].full \/ ~Untagged(p) \/ task[p] = "idle" => Step(p) = "none"
      BY DEF Step
    <2>2. mode[p].full /\ Untagged(p) /\ task[p] \in {"vars"} \cup Gates
            => Step(p) = "gate"
      BY DEF Step, Gates, Changes, Logging
    <2>3. mode[p].full /\ Untagged(p) /\ task[p] \in Changes \ {"lsinventory", "sqlpatch"}
            => Step(p) = "change"
      BY DEF Step, Gates, Changes, Logging
    <2>4. mode[p].full /\ Untagged(p) /\ task[p] \in {"lsinventory", "sqlpatch"}
            => Step(p) = "verify"
      BY DEF Step, Gates, Changes, Logging
    <2>5. mode[p].full /\ Untagged(p) /\ task[p] \in Logging
            => Step(p) = IF outcome[p] = "SUCCESS" THEN "verify" ELSE "failed"
      <3>1. task[p] \in Logging =>
              /\ task[p] \notin {"vars"} \cup Gates
              /\ task[p] \notin Changes
              /\ task[p] \notin {"idle", "lsinventory", "sqlpatch", "ok"}
        BY DEF Gates, Changes, Logging
      <3> QED
        BY <3>1 DEF Step
    <2>6. task[p] \in Ended =>
            /\ task[p] \notin {"vars"} \cup Gates
            /\ task[p] \notin Changes
            /\ task[p] \notin Logging
            /\ task[p] \notin {"idle", "lsinventory", "sqlpatch"}
      BY DEF Gates, Changes, Logging, Ended
    <2>7. mode[p].full /\ Untagged(p) /\ task[p] \in Ended
            => Step(p) = IF task[p] = "ok" THEN "passed" ELSE "failed"
      BY <2>6 DEF Step
    <2>8. "ok" \in Ended
      BY DEF Ended
    <2> QED
      BY <2>1, <2>2, <2>3, <2>4, <2>5, <2>7, <2>8 DEF Stepped
  <1>2. (\A p \in Plays : Stepped(p))'
    BY <1>1, PTL
  <1> QED
    BY <1>1, <1>2

LEMMA ActMoves ==
  ASSUME TypeOK, ConfirmedInv, SureInv, NEW p \in Plays, Act(p)
  PROVE  Moved(p)
  <1>0. /\ DOMAIN task = Plays /\ DOMAIN outcome = Plays
        /\ task[p] \in Tasks /\ outcome[p] \in {"SUCCESS", "FAILED"}
        /\ mode[p].full \in BOOLEAN
        /\ task[p] \in Changes => mode[p].full
        /\ Stepped(p) /\ Stepped(p)'
        /\ mode' = mode
    BY ModeAssumption, StepIs, ActsAlone DEF TypeOK, ConfirmedInv, Tasks
  <1>a. CASE ~Untagged(p)
    BY <1>0, <1>a DEF Untagged, Stepped, Moved
  <1> SUFFICES ASSUME Untagged(p) PROVE Moved(p)
    BY <1>a
  <1>b. Untagged(p)' /\ \A t : Selected(p, t)
    BY <1>0 DEF Untagged, Selected
  <1>1. CASE Launch(p)
    BY <1>1, <1>0, <1>b DEF Launch, Goto, play, Moved, Stepped, Tasks, Gates,
       Changes, Logging, Ended, UnderWay
  <1>2. CASE AssertVars(p)
    BY <1>2, <1>0, <1>b DEF AssertVars, Goto, play, Moved, Stepped, Tasks, Gates,
       Changes, Logging, Ended, UnderWay
  <1>3. CASE Precheck(p)
    BY <1>3, <1>0, <1>b DEF Precheck, At, Finish, Goto, play, Moved, Stepped, Tasks,
       Gates, Changes, Logging, Ended, UnderWay
  <1>4. CASE QueryBackup(p)
    BY <1>4, <1>0, <1>b DEF QueryBackup, At, Finish, Goto, play, Moved, Stepped, Tasks,
       Gates, Changes, Logging, Ended, UnderWay
  <1>5. CASE AssertBackup(p)
    BY <1>5, <1>0, <1>b DEF AssertBackup, At, AfterBackup, Finish, Goto, play, Moved,
       Stepped, Tasks, Gates, Changes, Logging, Ended, UnderWay
  <1>6. CASE ValidateBackup(p)
    BY <1>6, <1>0, <1>b DEF ValidateBackup, At, Finish, Goto, play, Moved, Stepped,
       Tasks, Gates, Changes, Logging, Ended, UnderWay
  <1>7. CASE Stage(p)
    BY <1>7, <1>0, <1>b DEF Stage, At, Finish, Goto, play, Moved, Stepped, Tasks, Gates,
       Changes, Logging, Ended, UnderWay
  <1>8. CASE Confirm(p)
    BY <1>8, <1>0, <1>b DEF Confirm, At, Finish, Goto, play, Moved, Stepped, Tasks,
       Gates, Changes, Logging, Ended, UnderWay
  <1>9. CASE StopListener(p)
    BY <1>9, <1>0, <1>b DEF StopListener, At, Goto, play, Moved, Stepped, Tasks, Gates,
       Changes, Logging, Ended, UnderWay
  <1>10. CASE Shutdown(p)
    BY <1>10, <1>0, <1>b DEF Shutdown, At, Finish, Goto, play, Moved, Stepped, Tasks,
       Gates, Changes, Logging, Ended, UnderWay
  <1>11. CASE ApplyAuto(p)
    BY <1>11, <1>0, <1>b DEF ApplyAuto, At, Patching, Finish, Goto, play, Moved,
       Stepped, Tasks, Gates, Changes, Logging, Ended, UnderWay
  <1>12. CASE ApplyManual(p)
    BY <1>12, <1>0, <1>b DEF ApplyManual, At, Patching, Finish, Goto, play, Moved,
       Stepped, Tasks, Gates, Changes, Logging, Ended, UnderWay
  <1>13. CASE Startup(p)
    BY <1>13, <1>0, <1>b DEF Startup, At, Finish, Goto, play, Moved, Stepped, Tasks,
       Gates, Changes, Logging, Ended, UnderWay
  <1>14. CASE StartListener(p)
    BY <1>14, <1>0, <1>b DEF StartListener, At, Finish, Goto, play, Moved, Stepped,
       Tasks, Gates, Changes, Logging, Ended, UnderWay
  <1>15. CASE Datapatch(p)
    BY <1>15, <1>0, <1>b DEF Datapatch, At, Finish, Goto, play, Moved, Stepped, Tasks,
       Gates, Changes, Logging, Ended, UnderWay
  <1>16. CASE CheckInventory(p)
    BY <1>16, <1>0, <1>b DEF CheckInventory, At, Finish, Goto, play, Moved, Stepped,
       Tasks, Gates, Changes, Logging, Ended, UnderWay
  <1>17. CASE CheckSqlpatch(p)
    BY <1>17, <1>0, <1>b DEF CheckSqlpatch, At, Finish, Goto, play, Moved, Stepped,
       Tasks, Gates, Changes, Logging, Ended, UnderWay
  <1>18. CASE AuditRead(p)
    BY <1>18, <1>0, <1>b DEF AuditRead, Goto, play, Moved, Stepped, Tasks, Gates,
       Changes, Logging, Ended, UnderWay
  <1>19. CASE AuditWrite(p)
    <2>1. /\ task[p] = "audit_write" /\ host' = host
          /\ task'[p] = IF outcome[p] = "SUCCESS" THEN "ok" ELSE "failed"
          /\ mode' = mode
      BY <1>0, <1>19 DEF AuditWrite, End, Goto
    <2>2. outcome[p] = "SUCCESS" /\ mode[p].full => host \in Checked
      BY <1>b, <2>1, RealChecked DEF SureInv, Sure, Logging
    <2> QED
      BY <1>0, <1>b, <2>1, <2>2 DEF Moved, Stepped, Logging, Ended
  <1>20. CASE AuditFails(p)
    BY <1>20, <1>0, <1>b DEF AuditFails, End, Goto, play, Moved, Stepped, Tasks,
       Gates, Changes, Logging, Ended, UnderWay
  <1>21. CASE Unreachable(p)
    BY <1>21, <1>0, <1>b DEF Unreachable, End, Goto, play, Moved, Stepped, Tasks,
       Gates, Changes, Logging, Ended, UnderWay
  <1>22. CASE Kill(p)
    BY <1>22, <1>0, <1>b DEF Kill, End, Goto, play, Moved, Stepped, Tasks, Gates,
       Changes, Logging, Ended, UnderWay
  <1>23. CASE DieApplying(p)
    BY <1>23, <1>0, <1>b DEF DieApplying, At, Patching, End, Goto, play, Moved, Stepped,
       Tasks, Gates, Changes, Logging, Ended, UnderWay
  <1>24. CASE PassOver(p)
    BY <1>24, <1>0, <1>b DEF PassOver
  <1> QED
    BY <1>1, <1>2, <1>3, <1>4, <1>5, <1>6, <1>7, <1>8, <1>9, <1>10, <1>11,
       <1>12, <1>13, <1>14, <1>15, <1>16, <1>17, <1>18, <1>19, <1>20, <1>21,
       <1>22, <1>23, <1>24 DEF Act

LEMMA MovedExpected ==
  ASSUME OneAfterTheOther, TypeOK, TypeOK', Alone, NEW p \in Plays, Act(p), Moved(p)
  PROVE  Expected!Next \/ UNCHANGED <<steps, host>>
  <1>1. \A q \in Plays \ {p} : Step(q)' = Step(q)
    BY ActsAlone DEF Step, Untagged
  <1>2. steps' = [steps EXCEPT ![p] = Step(p)']
    BY <1>1 DEF steps
  <1>3. steps[p] = Step(p)
    BY DEF steps
  <1>4. host' \in Homes
    BY HostType
  <1>5. \A from, to : Step(p) = from /\ Step(p)' = to => Expected!Move(p, from, to)
    BY <1>2, <1>3 DEF Expected!Move, steps
  <1>6. CASE Step(p)' = Step(p) /\ host' = host
    <2>1. steps' = steps
      BY <1>2, <1>3, <1>6 DEF steps
    <2> QED
      BY <1>6, <2>1
  <1>a. CASE Step(p) = "none" /\ Step(p)' = "none"
    <2>1. steps' = steps
      BY <1>2, <1>3, <1>a DEF steps
    <2>2. \A q \in Plays : Step(q) \in {"none", "passed", "failed"}
      <3>1. \A q \in Plays \ {p} : task[q] \in {"idle"} \cup Ended
        BY OthersRest
      <3>2. \A q \in Plays \ {p} : Step(q) \in {"none", "passed", "failed"}
        BY <3>1, StepIs DEF Stepped
      <3> QED
        BY <1>a, <3>2
    <2> QED
      BY <1>4, <2>1, <2>2 DEF Expected!Next, Expected!Elsewhere, steps
  <1>7. CASE Step(p) = "none" /\ Step(p)' = "gate" /\ host' = host
    BY <1>5, <1>7 DEF Expected!Next, Expected!Enter
  <1>8. CASE Step(p) = "gate" /\ Step(p)' = "change" /\ host' = host
    BY <1>5, <1>8 DEF Expected!Next, Expected!Begin
  <1>9. CASE Step(p) = "change" /\ Step(p)' \in {"change", "verify", "failed"}
    BY <1>4, <1>5, <1>9 DEF Expected!Next, Expected!Change
  <1>10. CASE Step(p) = "verify" /\ Step(p)' = "passed" /\ host' = host /\ host \in Checked
    BY <1>5, <1>10 DEF Expected!Next, Expected!Pass
  <1>11. CASE Step(p) \in {"gate", "verify"} /\ Step(p)' = "failed" /\ host' = host
    BY <1>5, <1>11 DEF Expected!Next, Expected!Fail
  <1> QED
    BY <1>6, <1>a, <1>7, <1>8, <1>9, <1>10, <1>11 DEF Moved

-----------------------------------------------------------------------------
(* The theorems *)

RoleInv ==
  /\ TypeOK /\ ConfirmedInv /\ Alone
  /\ SureInv /\ BackedInv /\ EnteredInv

LEMMA RoleInvariant ==
  ASSUME OneAfterTheOther
  PROVE  Spec => []RoleInv
  <1>1. Init => RoleInv
    <2> SUFFICES ASSUME Init PROVE RoleInv
      OBVIOUS
    <2>1. TypeOK
      BY DEF Init, TypeOK, Unasked
    <2>2. Alone
      BY DEF Init, Alone, UnderWay
    <2>3. ConfirmedInv /\ SureInv /\ BackedInv
      BY DEF Init, ConfirmedInv, SureInv, Sure, BackedInv, Backed, Changes, Logging
    <2>4. EnteredInv
      BY DEF Init, EnteredInv, Entered, EntriesOf
    <2> QED
      BY <2>1, <2>2, <2>3, <2>4 DEF RoleInv
  <1>2. RoleInv /\ [Next]_vars => RoleInv'
    BY NextTypeOK, NextConfirmed, NextAlone, NextSure, NextBacked, NextEntered DEF RoleInv
  <1> QED
    BY <1>1, <1>2, PTL DEF Spec

\* When plays do not overlap, the role has SUCCESS for a full run with its postcheck
\* only when the binaries are new, every CDB is open with no failure registered, and
\* the listener that the role stopped is back (postcheck.yml:5-92).
THEOREM SuccessesAreReal ==
  ASSUME OneAfterTheOther
  PROVE  Spec => []SuccessIsReal
  <1>1. RoleInv => SuccessIsReal
    BY DEF RoleInv, SureInv, Sure, Real, SuccessIsReal
  <1> QED
    BY RoleInvariant, <1>1, PTL

\* No play starts the instances on a half-applied patch (apply_patch.yml:45-46),
\* its own or that of an earlier play.
THEOREM NeverStartedHalfApplied ==
  ASSUME OneAfterTheOther
  PROVE  Spec => []NoStartHalfApplied
  <1>1. RoleInv => NoStartHalfApplied
    BY DEF RoleInv, SureInv, Sure, NoStartHalfApplied
  <1> QED
    BY RoleInvariant, <1>1, PTL

\* With verify_backup_restorable and the precheck selected, no change without a recent
\* backup of every CDB (backup_check.yml).
THEOREM BackupIsValidated ==
  ASSUME OneAfterTheOther
  PROVE  Spec => []ValidatedBackup
  <1>1. RoleInv => ValidatedBackup
    BY DEF RoleInv, BackedInv, Backed, ValidatedBackup
  <1> QED
    BY RoleInvariant, <1>1, PTL

\* A play that comes to the end of the block has its one audit entry for good, with its
\* outcome unless --tags has taken the rescue away; no other play has any
\* (main.yml:19-23, audit_log.yml).
THEOREM OneEntry ==
  ASSUME OneAfterTheOther
  PROVE  Spec => []OneEntryEach
  <1>1. RoleInv => OneEntryEach
    <2> SUFFICES ASSUME RoleInv, NEW p \in Plays
                 PROVE  IF task[p] \in {"ok", "failed"}
                          THEN /\ Cardinality(EntriesOf(p)) = 1
                               /\ mode[p].only = {} =>
                                    \A i \in EntriesOf(p) : audit[i].outcome = outcome[p]
                          ELSE EntriesOf(p) = {}
      BY DEF OneEntryEach, EntriesOf
    <2>1. Entered(p)
      BY DEF RoleInv, EnteredInv
    <2>2. CASE task[p] \in {"ok", "failed"}
      <3>1. PICK i \in DOMAIN audit : EntriesOf(p) = {i} /\ audit[i].outcome = Noted(p)
        BY <2>1, <2>2 DEF Entered
      <3>2. Cardinality({i}) = 1
        BY FS_Singleton
      <3> QED
        BY <2>2, <3>1, <3>2 DEF Noted
    <2>3. CASE task[p] \notin {"ok", "failed"}
      BY <2>1, <2>3 DEF Entered
    <2> QED
      BY <2>2, <2>3
  <1> QED
    BY RoleInvariant, <1>1, PTL

\* When plays do not overlap, the role is, in a play without tags, what the Executor
\* counts on: gates that change nothing, one stretch of changes, and a check that passes
\* only a patched host; plays with tags come before or after it
\* (ansible/roles/oracle_cpu_patch/tasks/main.yml).
THEOREM Implements ==
  ASSUME OneAfterTheOther
  PROVE  Spec => ImplementsHostSteps
  <1>1. Init => Expected!Init
    <2> SUFFICES ASSUME Init PROVE Expected!Init
      OBVIOUS
    <2>1. TypeOK
      BY DEF Init, TypeOK, Unasked
    <2>2. \A p \in Plays : Step(p) = "none"
      BY DEF Init, Step
    <2> QED
      BY <2>1, <2>2, HostType DEF Expected!Init
  <1>2. RoleInv /\ RoleInv' /\ [Next]_vars => [Expected!Next]_<<steps, host>>
    <2> SUFFICES ASSUME RoleInv, RoleInv', [Next]_vars
                 PROVE  [Expected!Next]_<<steps, host>>
      OBVIOUS
    <2>1. CASE UNCHANGED vars
      BY <2>1 DEF vars, play, host, steps, Step, Untagged
    <2>2. ASSUME NEW p \in Plays, Act(p) PROVE [Expected!Next]_<<steps, host>>
      BY <2>2, ActMoves, MovedExpected DEF RoleInv
    <2> QED
      BY <2>1, <2>2, NextActs
  <1> QED
    BY RoleInvariant, <1>1, <1>2, PTL DEF Spec, ImplementsHostSteps, Expected!Spec, steps

=============================================================================
