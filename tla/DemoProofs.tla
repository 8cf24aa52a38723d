----------------------------- MODULE DemoProofs -----------------------------
(***************************************************************************)
(* Theorems about both programs, Demo with PatchRun, for any runs, hosts,  *)
(* inventory, registry, plans and number of retries: what the theorems     *)
(* about Executor say of a workflow on its own they say of one that a      *)
(* program calls, and the exit status, the execution history, the patch    *)
(* level and the audit trails say of a run what became of it.              *)
(***************************************************************************)
EXTENDS Demo, RolloutProofs

-----------------------------------------------------------------------------
(* The workflow inside a program *)

\* Every step of the programs is one of the workflow or leaves it alone.
LEMMA StepEmbeds == [DNext]_whole => [Next]_vars
  BY DEF DNext, whole, MNext, Launch, MProceed, Postgres, Crash, Die, Workflow,
         ModelServer, LoadSettings, Load, ReadCdbs, BadCdbs, Scan, ScanFails,
         LogScan, Upsert, Retrieve, LogRetrieval, AskAgent, Propose, Escalate,
         AgentRaises, LogEscalation, Record, RecordFails, LaunchDemo,
         DemoProceed, DemoSettings, Preflight, DemoLoad, DemoScan, DemoTransfer,
         DemoIngest, DemoQuery, DemoPropose, DemoEscalate, BogusId, WorkflowOver,
         WorkflowRaised, ReadBack, Tests, Step, ReturnFrom

\* What holds of the workflow holds of the programs that call it.
LEMMA Embeds == DSpec => Spec
  <1>1. MInit => Init
    BY DEF MInit
  <1> QED
    BY StepEmbeds, <1>1, PTL DEF DSpec, Spec

\* A run that stays where it is writes no entry; no step changes what a run was
\* given.
LEMMA StepStays ==
  TypeOK /\ [Next]_vars => /\ plan' = plan /\ target' = target
                           /\ \A r \in Runs : pc'[r] = pc[r] => trail'[r] = trail[r]
  <1> SUFFICES ASSUME TypeOK, [Next]_vars
               PROVE  /\ plan' = plan /\ target' = target
                      /\ \A r \in Runs : pc'[r] = pc[r] => trail'[r] = trail[r]
    OBVIOUS
  <1> DEFINE Goal == /\ plan' = plan /\ target' = target
                     /\ \A r \in Runs : pc'[r] = pc[r] => trail'[r] = trail[r]
  <1>0. /\ pc \in [Runs -> {"idle"} \cup Working \cup Ended]
        /\ trail \in [Runs -> Seq([event : Event, ok : BOOLEAN])]
    BY DEF TypeOK
  <1>1. CASE UNCHANGED vars
    BY <1>1, <1>0 DEF vars, control, world, Log
  <1>2. ASSUME NEW r \in Runs, Enter(r) PROVE Goal
    BY <1>2, <1>0 DEF Enter, Goto, world, Log
  <1>3. ASSUME NEW r \in Runs, Vet(r) PROVE Goal
    BY <1>3, <1>0 DEF Vet, Goto, world, Log
  <1>4. ASSUME NEW r \in Runs, Precheck(r) PROVE Goal
    BY <1>4, <1>0 DEF Precheck, Goto, Result, world, Log
  <1>5. ASSUME NEW r \in Runs, Snapshot(r) PROVE Goal
    BY <1>5, <1>0 DEF Snapshot, Goto, Result, Log
  <1>6. ASSUME NEW r \in Runs, Confirm(r) PROVE Goal
    BY <1>6, <1>0 DEF Confirm, Goto, Result, world, Log
  <1>7. ASSUME NEW r \in Runs, Apply(r) PROVE Goal
    BY <1>7, <1>0 DEF Apply, Goto, Log
  <1>8. ASSUME NEW r \in Runs, PlayEnd(r) PROVE Goal
    BY <1>8, <1>0 DEF PlayEnd, Goto, Result, world, Log
  <1>9. ASSUME NEW r \in Runs, Timeout(r) PROVE Goal
    BY <1>9, <1>0 DEF Timeout, Goto, Turn, Result, Log
  <1>10. ASSUME NEW r \in Runs, RollbackInfo(r) PROVE Goal
    BY <1>10, <1>0 DEF RollbackInfo, Goto, world, Log
  <1>11. ASSUME NEW r \in Runs, Abort(r) PROVE Goal
    BY <1>11, <1>0 DEF Abort, Goto, Turn, Log
  <1>12. ASSUME NEW r \in Runs, Kill(r) PROVE Goal
    BY <1>12, <1>0 DEF Kill, Goto, world, Log
  <1>13. ASSUME NEW r \in Runs, Recommend(r) PROVE Goal
    BY <1>13, <1>0 DEF Recommend, Goto, world, Log
  <1>14. ASSUME NEW r \in Runs, Reject(r) PROVE Goal
    BY <1>14, <1>0 DEF Reject, Goto, world, Log
  <1>15. ASSUME NEW r \in Runs, LogApply(r) PROVE Goal
    BY <1>15, <1>0 DEF LogApply, Goto, world, Log
  <1>16. ASSUME NEW r \in Runs, LogFailure(r) PROVE Goal
    BY <1>16, <1>0 DEF LogFailure, Goto, world, Log
  <1>17. ASSUME NEW r \in Runs, LogSuccess(r) PROVE Goal
    BY <1>17, <1>0 DEF LogSuccess, Goto, world, Log
  <1>18. ASSUME NEW r \in Runs, LogDryRun(r) PROVE Goal
    BY <1>18, <1>0 DEF LogDryRun, LogResult, Goto, world, Log
  <1>19. ASSUME NEW r \in Runs, LogSnapshot(r) PROVE Goal
    BY <1>19, <1>0 DEF LogSnapshot, LogResult, Goto, world, Log
  <1>20. ASSUME NEW r \in Runs, LogDecision(r) PROVE Goal
    BY <1>20, <1>0 DEF LogDecision, LogResult, Goto, world, Log
  <1>21. ASSUME NEW r \in Runs, HostFails(r) PROVE Goal
    BY <1>21, <1>0 DEF HostFails, Turn, control, Log
  <1>22. ASSUME NEW r \in Runs, HostApply(r) PROVE Goal
    BY <1>22, <1>0 DEF HostApply, Turn, control, Log
  <1>23. ASSUME NEW r \in Runs, HostPass(r) PROVE Goal
    BY <1>23, <1>0 DEF HostPass, control, Log
  <1>24. ASSUME NEW r \in Runs, PlayDies(r) PROVE Goal
    BY <1>24, <1>0 DEF PlayDies, Turn, control, Log
  <1>25. ASSUME NEW r \in Runs, NEW h \in Hosts, RemoteEnd(r, h) PROVE Goal
    BY <1>25, <1>0 DEF RemoteEnd, Turn, control, Log
  <1> QED
    BY <1>1, <1>2, <1>3, <1>4, <1>5, <1>6, <1>7, <1>8, <1>9, <1>10, <1>11,
       <1>12, <1>13, <1>14, <1>15, <1>16, <1>17, <1>18, <1>19, <1>20, <1>21,
       <1>22, <1>23, <1>24, <1>25 DEF Next, Proceed

-----------------------------------------------------------------------------
(* Where a program is *)

\* The types of what the Patch Agent and the programs add to a run.
AgentType ==
  /\ call \in [Runs -> CallStates]
  /\ attempt \in [Runs -> Nat]

MainType ==
  /\ program \in [Runs -> {"none", "run_patch", "demo"}]
  /\ main \in [Runs -> {"idle"} \cup Stages \cup DemoStages \cup Done]
  /\ exit \in [Runs -> {"running", "0", "1", "2", "exception", "killed"}]

\* The server generates an answer for nobody or for a run that waits for it, and
\* a run asks as long as it has retries left; the plan it settles on names a
\* registered procedure.
Asking ==
  /\ slot \in Runs \cup {Free, Orphan}
  /\ \A r \in Runs :
       /\ slot = r => call[r] = "waiting"
       /\ attempt[r] <= IF call[r] \in {"ready", "waiting"}
                          THEN MaxSchemaRetries ELSE MaxSchemaRetries + 1
       /\ call[r] = "planned" => Known(plan[r])

\* Each program keeps to its own stages, and the workflow has not begun before
\* the stage that calls it, nor is it under way after it.
Placed ==
  \A r \in Runs :
    /\ main[r] \in Stages \ {"settings"} => program[r] = "run_patch"
    /\ main[r] \in DemoStages => program[r] = "demo"
    /\ main[r] \in {"idle"} \cup ((Stages \cup DemoStages) \ (InWorkflow \cup {"read_back", "tests"}))
         => pc[r] = "idle"
    /\ main[r] \in {"read_back", "tests"} => pc[r] \in {"returned", "halted"}
    /\ main[r] \in InWorkflow \cup {"bogus_id"} => Known(plan[r])
    /\ main[r] \notin Done => exit[r] = "running"
    /\ exit[r] \in {"0", "1", "2"} => main[r] = "finished"

MainInv == AgentType /\ MainType /\ Asking /\ Placed

LEMMA InitMain == MInit => MainInv
  BY RetriesAssumption, SlotAssumption DEF MInit, AInit, Init, MainInv, AgentType,
     MainType, Asking, Placed, CallStates, Stages, DemoStages, Done, InWorkflow

LEMMA NextAgent == MainInv /\ TypeOK /\ [DNext]_whole => (AgentType /\ Asking)'
  <1> SUFFICES ASSUME MainInv, TypeOK, [DNext]_whole PROVE (AgentType /\ Asking)'
    OBVIOUS
  <1>0. /\ AgentType /\ Asking
        /\ plan' = plan
        /\ MaxSchemaRetries \in Nat
        /\ Free # Orphan /\ Free \notin Runs /\ Orphan \notin Runs
    BY StepEmbeds, StepStays, RetriesAssumption, SlotAssumption DEF MainInv
  <1>1. CASE UNCHANGED whole
    BY <1>1, <1>0 DEF whole, mvars, agent, AgentType, Asking, CallStates,
       Known
  <1>2. ASSUME NEW r \in Runs, Launch(r) PROVE (AgentType /\ Asking)'
    BY <1>2, <1>0 DEF Launch, Advance, agent, AgentType, Asking, CallStates,
       Known
  <1>3. ASSUME NEW r \in Runs, LoadSettings(r) PROVE (AgentType /\ Asking)'
    BY <1>3, <1>0 DEF LoadSettings, Advance, agent, AgentType, Asking,
       CallStates, Known
  <1>4. ASSUME NEW r \in Runs, Load(r) PROVE (AgentType /\ Asking)'
    BY <1>4, <1>0 DEF Load, Advance, agent, AgentType, Asking, CallStates,
       Known
  <1>5. ASSUME NEW r \in Runs, ReadCdbs(r) PROVE (AgentType /\ Asking)'
    BY <1>5, <1>0 DEF ReadCdbs, Advance, agent, AgentType, Asking, CallStates,
       Known
  <1>6. ASSUME NEW r \in Runs, BadCdbs(r) PROVE (AgentType /\ Asking)'
    BY <1>6, <1>0 DEF BadCdbs, Advance, Exit, agent, AgentType, Asking,
       CallStates, Known
  <1>7. ASSUME NEW r \in Runs, Scan(r) PROVE (AgentType /\ Asking)'
    BY <1>7, <1>0 DEF Scan, Advance, agent, AgentType, Asking, CallStates,
       Known
  <1>8. ASSUME NEW r \in Runs, ScanFails(r) PROVE (AgentType /\ Asking)'
    BY <1>8, <1>0 DEF ScanFails, Advance, Exit, agent, AgentType, Asking,
       CallStates, Known
  <1>9. ASSUME NEW r \in Runs, LogScan(r) PROVE (AgentType /\ Asking)'
    BY <1>9, <1>0 DEF LogScan, Advance, Note, agent, AgentType, Asking,
       CallStates, Known
  <1>10. ASSUME NEW r \in Runs, Upsert(r) PROVE (AgentType /\ Asking)'
    BY <1>10, <1>0 DEF Upsert, Advance, agent, AgentType, Asking, CallStates,
       Known
  <1>11. ASSUME NEW r \in Runs, Retrieve(r) PROVE (AgentType /\ Asking)'
    BY <1>11, <1>0 DEF Retrieve, Advance, agent, AgentType, Asking,
       CallStates, Known
  <1>12. ASSUME NEW r \in Runs, LogRetrieval(r) PROVE (AgentType /\ Asking)'
    BY <1>12, <1>0 DEF LogRetrieval, Advance, Note, agent, AgentType, Asking,
       CallStates, Known
  <1>13. ASSUME NEW r \in Runs, AskAgent(r) PROVE (AgentType /\ Asking)'
    BY <1>13, <1>0 DEF AskAgent, ProposePlan, Ask, TimesOut, LeftBy, Becomes,
       mvars, agent, AgentType, Asking, CallStates, Known
  <1>14. ASSUME NEW r \in Runs, Propose(r) PROVE (AgentType /\ Asking)'
    BY <1>14, <1>0 DEF Propose, Advance, agent, AgentType, Asking, CallStates,
       Known
  <1>15. ASSUME NEW r \in Runs, Escalate(r) PROVE (AgentType /\ Asking)'
    BY <1>15, <1>0 DEF Escalate, Advance, agent, AgentType, Asking,
       CallStates, Known
  <1>16. ASSUME NEW r \in Runs, AgentRaises(r) PROVE (AgentType /\ Asking)'
    BY <1>16, <1>0 DEF AgentRaises, Advance, Exit, agent, AgentType, Asking,
       CallStates, Known
  <1>17. ASSUME NEW r \in Runs, LogEscalation(r) PROVE (AgentType /\ Asking)'
    BY <1>17, <1>0 DEF LogEscalation, Advance, Note, Exit, agent, AgentType,
       Asking, CallStates, Known
  <1>18. ASSUME NEW r \in Runs, Record(r) PROVE (AgentType /\ Asking)'
    BY <1>18, <1>0 DEF Record, Advance, Exit, agent, AgentType, Asking,
       CallStates, Known
  <1>19. ASSUME NEW r \in Runs, RecordFails(r) PROVE (AgentType /\ Asking)'
    BY <1>19, <1>0 DEF RecordFails, Advance, Exit, agent, AgentType, Asking,
       CallStates, Known
  <1>20. ASSUME NEW r \in Runs, Crash(r) PROVE (AgentType /\ Asking)'
    BY <1>20, <1>0 DEF Crash, Advance, Exit, Abandon, LeftBy, agent,
       AgentType, Asking, CallStates, Known
  <1>21. ASSUME NEW r \in Runs, Die(r) PROVE (AgentType /\ Asking)'
    BY <1>21, <1>0 DEF Die, Advance, Exit, Abandon, LeftBy, agent, AgentType,
       Asking, CallStates, Known
  <1>22. ASSUME NEW r \in Runs, LaunchDemo(r) PROVE (AgentType /\ Asking)'
    BY <1>22, <1>0 DEF LaunchDemo, Advance, agent, AgentType, Asking,
       CallStates, Known
  <1>23. ASSUME NEW r \in Runs, DemoSettings(r) PROVE (AgentType /\ Asking)'
    BY <1>23, <1>0 DEF DemoSettings, Step, Advance, agent, AgentType, Asking,
       CallStates, Known
  <1>24. ASSUME NEW r \in Runs, Preflight(r) PROVE (AgentType /\ Asking)'
    BY <1>24, <1>0 DEF Preflight, Step, ReturnFrom, Advance, Exit, agent,
       AgentType, Asking, CallStates, Known
  <1>25. ASSUME NEW r \in Runs, DemoLoad(r) PROVE (AgentType /\ Asking)'
    BY <1>25, <1>0 DEF DemoLoad, Step, Advance, agent, AgentType, Asking,
       CallStates, Known
  <1>26. ASSUME NEW r \in Runs, DemoScan(r) PROVE (AgentType /\ Asking)'
    BY <1>26, <1>0 DEF DemoScan, Step, ReturnFrom, Advance, Exit, agent,
       AgentType, Asking, CallStates, Known
  <1>27. ASSUME NEW r \in Runs, DemoTransfer(r) PROVE (AgentType /\ Asking)'
    BY <1>27, <1>0 DEF DemoTransfer, Step, Advance, agent, AgentType, Asking,
       CallStates, Known
  <1>28. ASSUME NEW r \in Runs, DemoIngest(r) PROVE (AgentType /\ Asking)'
    BY <1>28, <1>0 DEF DemoIngest, Step, Advance, agent, AgentType, Asking,
       CallStates, Known
  <1>29. ASSUME NEW r \in Runs, DemoQuery(r) PROVE (AgentType /\ Asking)'
    BY <1>29, <1>0 DEF DemoQuery, Step, Advance, agent, AgentType, Asking,
       CallStates, Known
  <1>30. ASSUME NEW r \in Runs, DemoPropose(r) PROVE (AgentType /\ Asking)'
    BY <1>30, <1>0 DEF DemoPropose, Step, Advance, agent, AgentType, Asking,
       CallStates, Known
  <1>31. ASSUME NEW r \in Runs, DemoEscalate(r) PROVE (AgentType /\ Asking)'
    BY <1>31, <1>0 DEF DemoEscalate, ReturnFrom, Advance, Exit, agent,
       AgentType, Asking, CallStates, Known
  <1>32. ASSUME NEW r \in Runs, BogusId(r) PROVE (AgentType /\ Asking)'
    BY <1>32, <1>0 DEF BogusId, Step, Advance, agent, AgentType, Asking,
       CallStates, Known
  <1>33. ASSUME NEW r \in Runs, WorkflowOver(r) PROVE (AgentType /\ Asking)'
    BY <1>33, <1>0 DEF WorkflowOver, Step, Advance, agent, AgentType, Asking,
       CallStates, Known
  <1>34. ASSUME NEW r \in Runs, WorkflowRaised(r) PROVE (AgentType /\ Asking)'
    BY <1>34, <1>0 DEF WorkflowRaised, Advance, Exit, agent, AgentType,
       Asking, CallStates, Known
  <1>35. ASSUME NEW r \in Runs, ReadBack(r) PROVE (AgentType /\ Asking)'
    BY <1>35, <1>0 DEF ReadBack, Step, Advance, agent, AgentType, Asking,
       CallStates, Known
  <1>36. ASSUME NEW r \in Runs, Tests(r) PROVE (AgentType /\ Asking)'
    BY <1>36, <1>0 DEF Tests, ReturnFrom, Advance, Exit, agent, AgentType,
       Asking, CallStates, Known
  <1>37. CASE Workflow
    BY <1>37, <1>0 DEF Workflow, mvars, agent, AgentType, Asking, CallStates,
       Known
  <1>38. CASE ModelServer
    BY <1>38, <1>0 DEF ModelServer, Answers, Serve, Accept, Invalid,
       Contentless, Unreachable, ErrorStatus, OrphanEnds, DroppedFor, Becomes,
       mvars, agent, AgentType, Asking, CallStates, Known
  <1> QED
    BY <1>1, <1>2, <1>3, <1>4, <1>5, <1>6, <1>7, <1>8, <1>9, <1>10, <1>11,
       <1>12, <1>13, <1>14, <1>15, <1>16, <1>17, <1>18, <1>19, <1>20, <1>21,
       <1>22, <1>23, <1>24, <1>25, <1>26, <1>27, <1>28, <1>29, <1>30, <1>31,
       <1>32, <1>33, <1>34, <1>35, <1>36, <1>37, <1>38 DEF DNext, MNext,
       MProceed, Postgres, DemoProceed

LEMMA NextPlaced == MainInv /\ TypeOK /\ [DNext]_whole => (MainType /\ Placed)'
  <1> SUFFICES ASSUME MainInv, TypeOK, [DNext]_whole PROVE (MainType /\ Placed)'
    OBVIOUS
  <1>0. /\ MainType /\ Placed
        /\ plan' = plan
        /\ \A r \in Runs : call[r] = "planned" => Known(plan[r])
        /\ \A r \in Runs : Known(plan[r])' = Known(plan[r])
        /\ pc \in [Runs -> {"idle"} \cup Working \cup Ended]
    BY StepEmbeds, StepStays DEF MainInv, Asking, TypeOK, Known
  <1>1. CASE UNCHANGED whole
    BY <1>1, <1>0 DEF whole, mvars, vars, control, MainType, Placed, Stages,
       DemoStages, InWorkflow, Done
  <1>2. ASSUME NEW r \in Runs, Launch(r) PROVE (MainType /\ Placed)'
    BY <1>2, <1>0 DEF Launch, Advance, vars, control, MainType, Placed,
       Stages, DemoStages, InWorkflow, Done
  <1>3. ASSUME NEW r \in Runs, LoadSettings(r) PROVE (MainType /\ Placed)'
    BY <1>3, <1>0 DEF LoadSettings, Advance, vars, control, MainType, Placed,
       Stages, DemoStages, InWorkflow, Done
  <1>4. ASSUME NEW r \in Runs, Load(r) PROVE (MainType /\ Placed)'
    BY <1>4, <1>0 DEF Load, Advance, vars, control, MainType, Placed, Stages,
       DemoStages, InWorkflow, Done
  <1>5. ASSUME NEW r \in Runs, ReadCdbs(r) PROVE (MainType /\ Placed)'
    BY <1>5, <1>0 DEF ReadCdbs, Advance, vars, control, MainType, Placed,
       Stages, DemoStages, InWorkflow, Done
  <1>6. ASSUME NEW r \in Runs, BadCdbs(r) PROVE (MainType /\ Placed)'
    BY <1>6, <1>0 DEF BadCdbs, Advance, Exit, vars, control, MainType, Placed,
       Stages, DemoStages, InWorkflow, Done
  <1>7. ASSUME NEW r \in Runs, Scan(r) PROVE (MainType /\ Placed)'
    BY <1>7, <1>0 DEF Scan, Advance, vars, control, MainType, Placed, Stages,
       DemoStages, InWorkflow, Done
  <1>8. ASSUME NEW r \in Runs, ScanFails(r) PROVE (MainType /\ Placed)'
    BY <1>8, <1>0 DEF ScanFails, Advance, Exit, vars, control, MainType,
       Placed, Stages, DemoStages, InWorkflow, Done
  <1>9. ASSUME NEW r \in Runs, LogScan(r) PROVE (MainType /\ Placed)'
    BY <1>9, <1>0 DEF LogScan, Advance, Note, vars, control, MainType, Placed,
       Stages, DemoStages, InWorkflow, Done
  <1>10. ASSUME NEW r \in Runs, Upsert(r) PROVE (MainType /\ Placed)'
    BY <1>10, <1>0 DEF Upsert, Advance, vars, control, MainType, Placed,
       Stages, DemoStages, InWorkflow, Done
  <1>11. ASSUME NEW r \in Runs, Retrieve(r) PROVE (MainType /\ Placed)'
    BY <1>11, <1>0 DEF Retrieve, Advance, vars, control, MainType, Placed,
       Stages, DemoStages, InWorkflow, Done
  <1>12. ASSUME NEW r \in Runs, LogRetrieval(r) PROVE (MainType /\ Placed)'
    BY <1>12, <1>0 DEF LogRetrieval, Advance, Note, vars, control, MainType,
       Placed, Stages, DemoStages, InWorkflow, Done
  <1>13. ASSUME NEW r \in Runs, AskAgent(r) PROVE (MainType /\ Placed)'
    BY <1>13, <1>0 DEF AskAgent, ProposePlan, Ask, TimesOut, LeftBy, Becomes,
       mvars, vars, control, MainType, Placed, Stages, DemoStages, InWorkflow,
       Done
  <1>14. ASSUME NEW r \in Runs, Propose(r) PROVE (MainType /\ Placed)'
    BY <1>14, <1>0 DEF Propose, Advance, vars, control, MainType, Placed,
       Stages, DemoStages, InWorkflow, Done
  <1>15. ASSUME NEW r \in Runs, Escalate(r) PROVE (MainType /\ Placed)'
    BY <1>15, <1>0 DEF Escalate, Advance, vars, control, MainType, Placed,
       Stages, DemoStages, InWorkflow, Done
  <1>16. ASSUME NEW r \in Runs, AgentRaises(r) PROVE (MainType /\ Placed)'
    BY <1>16, <1>0 DEF AgentRaises, Advance, Exit, vars, control, MainType,
       Placed, Stages, DemoStages, InWorkflow, Done
  <1>17. ASSUME NEW r \in Runs, LogEscalation(r) PROVE (MainType /\ Placed)'
    BY <1>17, <1>0 DEF LogEscalation, Advance, Note, Exit, vars, control,
       MainType, Placed, Stages, DemoStages, InWorkflow, Done
  <1>18. ASSUME NEW r \in Runs, Record(r) PROVE (MainType /\ Placed)'
    BY <1>18, <1>0 DEF Record, Advance, Exit, vars, control, MainType, Placed,
       Stages, DemoStages, InWorkflow, Done
  <1>19. ASSUME NEW r \in Runs, RecordFails(r) PROVE (MainType /\ Placed)'
    BY <1>19, <1>0 DEF RecordFails, Advance, Exit, vars, control, MainType,
       Placed, Stages, DemoStages, InWorkflow, Done
  <1>20. ASSUME NEW r \in Runs, Crash(r) PROVE (MainType /\ Placed)'
    BY <1>20, <1>0 DEF Crash, Advance, Exit, Abandon, LeftBy, vars, control,
       MainType, Placed, Stages, DemoStages, InWorkflow, Done
  <1>21. ASSUME NEW r \in Runs, Die(r) PROVE (MainType /\ Placed)'
    BY <1>21, <1>0 DEF Die, Advance, Exit, Abandon, LeftBy, vars, control,
       MainType, Placed, Stages, DemoStages, InWorkflow, Done
  <1>22. ASSUME NEW r \in Runs, LaunchDemo(r) PROVE (MainType /\ Placed)'
    BY <1>22, <1>0 DEF LaunchDemo, Advance, vars, control, MainType, Placed,
       Stages, DemoStages, InWorkflow, Done
  <1>23. ASSUME NEW r \in Runs, DemoSettings(r) PROVE (MainType /\ Placed)'
    BY <1>23, <1>0 DEF DemoSettings, Step, Advance, vars, control, MainType,
       Placed, Stages, DemoStages, InWorkflow, Done
  <1>24. ASSUME NEW r \in Runs, Preflight(r) PROVE (MainType /\ Placed)'
    BY <1>24, <1>0 DEF Preflight, Step, ReturnFrom, Advance, Exit, vars,
       control, MainType, Placed, Stages, DemoStages, InWorkflow, Done
  <1>25. ASSUME NEW r \in Runs, DemoLoad(r) PROVE (MainType /\ Placed)'
    BY <1>25, <1>0 DEF DemoLoad, Step, Advance, vars, control, MainType,
       Placed, Stages, DemoStages, InWorkflow, Done
  <1>26. ASSUME NEW r \in Runs, DemoScan(r) PROVE (MainType /\ Placed)'
    BY <1>26, <1>0 DEF DemoScan, Step, ReturnFrom, Advance, Exit, vars,
       control, MainType, Placed, Stages, DemoStages, InWorkflow, Done
  <1>27. ASSUME NEW r \in Runs, DemoTransfer(r) PROVE (MainType /\ Placed)'
    BY <1>27, <1>0 DEF DemoTransfer, Step, Advance, vars, control, MainType,
       Placed, Stages, DemoStages, InWorkflow, Done
  <1>28. ASSUME NEW r \in Runs, DemoIngest(r) PROVE (MainType /\ Placed)'
    BY <1>28, <1>0 DEF DemoIngest, Step, Advance, vars, control, MainType,
       Placed, Stages, DemoStages, InWorkflow, Done
  <1>29. ASSUME NEW r \in Runs, DemoQuery(r) PROVE (MainType /\ Placed)'
    BY <1>29, <1>0 DEF DemoQuery, Step, Advance, vars, control, MainType,
       Placed, Stages, DemoStages, InWorkflow, Done
  <1>30. ASSUME NEW r \in Runs, DemoPropose(r) PROVE (MainType /\ Placed)'
    BY <1>30, <1>0 DEF DemoPropose, Step, Advance, vars, control, MainType,
       Placed, Stages, DemoStages, InWorkflow, Done
  <1>31. ASSUME NEW r \in Runs, DemoEscalate(r) PROVE (MainType /\ Placed)'
    BY <1>31, <1>0 DEF DemoEscalate, ReturnFrom, Advance, Exit, vars, control,
       MainType, Placed, Stages, DemoStages, InWorkflow, Done
  <1>32. ASSUME NEW r \in Runs, BogusId(r) PROVE (MainType /\ Placed)'
    BY <1>32, <1>0 DEF BogusId, Step, Advance, vars, control, MainType,
       Placed, Stages, DemoStages, InWorkflow, Done
  <1>33. ASSUME NEW r \in Runs, WorkflowOver(r) PROVE (MainType /\ Placed)'
    BY <1>33, <1>0 DEF WorkflowOver, Step, Advance, vars, control, MainType,
       Placed, Stages, DemoStages, InWorkflow, Done
  <1>34. ASSUME NEW r \in Runs, WorkflowRaised(r) PROVE (MainType /\ Placed)'
    BY <1>34, <1>0 DEF WorkflowRaised, Advance, Exit, vars, control, MainType,
       Placed, Stages, DemoStages, InWorkflow, Done
  <1>35. ASSUME NEW r \in Runs, ReadBack(r) PROVE (MainType /\ Placed)'
    BY <1>35, <1>0 DEF ReadBack, Step, Advance, vars, control, MainType,
       Placed, Stages, DemoStages, InWorkflow, Done
  <1>36. ASSUME NEW r \in Runs, Tests(r) PROVE (MainType /\ Placed)'
    BY <1>36, <1>0 DEF Tests, ReturnFrom, Advance, Exit, vars, control,
       MainType, Placed, Stages, DemoStages, InWorkflow, Done
  <1>37. CASE Workflow
    BY <1>37, <1>0 DEF Workflow, mvars, vars, control, MainType, Placed,
       Stages, DemoStages, InWorkflow, Done
  <1>38. CASE ModelServer
    BY <1>38, <1>0 DEF ModelServer, Answers, Serve, Accept, Invalid,
       Contentless, Unreachable, ErrorStatus, OrphanEnds, DroppedFor, Becomes,
       mvars, vars, control, MainType, Placed, Stages, DemoStages, InWorkflow,
       Done
  <1> QED
    BY <1>1, <1>2, <1>3, <1>4, <1>5, <1>6, <1>7, <1>8, <1>9, <1>10, <1>11,
       <1>12, <1>13, <1>14, <1>15, <1>16, <1>17, <1>18, <1>19, <1>20, <1>21,
       <1>22, <1>23, <1>24, <1>25, <1>26, <1>27, <1>28, <1>29, <1>30, <1>31,
       <1>32, <1>33, <1>34, <1>35, <1>36, <1>37, <1>38 DEF DNext, MNext,
       MProceed, Postgres, DemoProceed

\* What a step of a program does to the workflows.
LEMMA OnlyWorkflow == [DNext]_whole => UNCHANGED vars \/ Workflow
  BY DEF DNext, whole, MNext, Launch, MProceed, Postgres, Crash, Die,
         ModelServer, LoadSettings, Load, ReadCdbs, BadCdbs, Scan, ScanFails,
         LogScan, Upsert, Retrieve, LogRetrieval, AskAgent, Propose, Escalate,
         AgentRaises, LogEscalation, Record, RecordFails, LaunchDemo,
         DemoProceed, DemoSettings, Preflight, DemoLoad, DemoScan, DemoTransfer,
         DemoIngest, DemoQuery, DemoPropose, DemoEscalate, BogusId, WorkflowOver,
         WorkflowRaised, ReadBack, Tests, Step, ReturnFrom

LEMMA MainInvariant == DSpec => [](MainInv /\ RolloutInv)
  <1>1. RolloutInv => TypeOK
    BY DEF RolloutInv, GateInv, TypeInv
  <1>2. DSpec => []RolloutInv
    BY Embeds, RolloutInvariant, PTL
  <1>3. MainInv /\ RolloutInv /\ [DNext]_whole => MainInv'
    BY NextAgent, NextPlaced, <1>1 DEF MainInv
  <1> QED
    BY InitMain, <1>2, <1>3, PTL DEF DSpec

-----------------------------------------------------------------------------
(* What main() has logged *)

\* The entries of main() after the scan, when it calls the Patch Agent, and after
\* an escalation.
First == <<Good("scan")>>

Scanned == <<Good("scan"), Good("rag_retrieval")>>

Escalation == [event |-> "validation_result", ok |-> FALSE]

Escalated == <<Good("scan"), Good("rag_retrieval"), Escalation>>

\* A second and a third element.
LEMMA AppendSecond ==
  ASSUME NEW S, NEW a \in S, NEW b \in S
  PROVE  Append(<<a>>, b) = <<a, b>>
  <1> DEFINE s == <<a>>
             t == <<a, b>>
  <1>1. /\ s \in Seq(S) /\ Len(s) = 1 /\ s[1] = a
        /\ t \in Seq(S) /\ Len(t) = 2 /\ t[1] = a /\ t[2] = b
    OBVIOUS
  <1> HIDE DEF s, t
  <1>2. /\ Append(s, b) \in Seq(S)
        /\ Len(Append(s, b)) = 2
        /\ Append(s, b)[1] = s[1]
        /\ Append(s, b)[2] = b
    <2> s \in Seq(S)
      BY <1>1
    <2>1. /\ Append(s, b) \in Seq(S)
          /\ Len(Append(s, b)) = Len(s) + 1
          /\ \A i \in 1 .. Len(s) : Append(s, b)[i] = s[i]
          /\ Append(s, b)[Len(s) + 1] = b
      BY AppendProperties
    <2>2. Len(s) + 1 = 2 /\ 1 \in 1 .. Len(s)
      BY <1>1
    <2> QED
      BY <2>1, <2>2, Zenon
  <1>3. Append(s, b)[1] = t[1] /\ Append(s, b)[2] = t[2]
    BY <1>1, <1>2, Zenon
  <1>4. \A i \in 1 .. 2 : Append(s, b)[i] = t[i]
    <2>1. \A i \in 1 .. 2 : i = 1 \/ i = 2
      OBVIOUS
    <2> QED
      BY <1>3, <2>1, Zenon
  <1>5. Append(s, b) = t
    BY <1>1, <1>2, <1>4, SeqEqual
  <1> QED
    BY <1>5 DEF s, t

LEMMA AppendThird ==
  ASSUME NEW S, NEW a \in S, NEW b \in S, NEW c \in S
  PROVE  Append(<<a, b>>, c) = <<a, b, c>>
  <1> DEFINE s == <<a, b>>
             t == <<a, b, c>>
  <1>1. /\ s \in Seq(S) /\ Len(s) = 2 /\ s[1] = a /\ s[2] = b
        /\ t \in Seq(S) /\ Len(t) = 3 /\ t[1] = a /\ t[2] = b /\ t[3] = c
    OBVIOUS
  <1> HIDE DEF s, t
  <1>2. Append(s, c) \in Seq(S) /\ Len(Append(s, c)) = 3 /\ \A i \in 1 .. 2 : Append(s, c)[i] = s[i]
    BY <1>1 DEF s
  <1>3. Append(s, c)[3] = c
    BY <1>1 DEF s
  <1>4. \A i \in 1 .. 3 : Append(s, c)[i] = t[i]
    BY <1>1, <1>2, <1>3
  <1>5. Append(s, c) = t
    BY <1>1, <1>2, <1>4, SeqEqual
  <1> QED
    BY <1>5 DEF s, t

LEMMA PreludeGrows ==
  /\ Append(<<>>, Good("scan")) = First
  /\ Append(First, Good("rag_retrieval")) = Scanned
  /\ Append(Scanned, Escalation) = Escalated
  <1> DEFINE S == {Good("scan"), Good("rag_retrieval"), Escalation}
  <1>1. Append(<<>>, Good("scan")) = First
    BY DEF First
  <1>2. Good("scan") \in S /\ Good("rag_retrieval") \in S /\ Escalation \in S
    OBVIOUS
  <1> HIDE DEF S
  <1>3. Append(First, Good("rag_retrieval")) = Scanned
    BY <1>2, AppendSecond, Zenon DEF First, Scanned
  <1>4. Append(Scanned, Escalation) = Escalated
    BY <1>2, AppendThird, Zenon DEF Scanned, Escalated
  <1> QED
    BY <1>1, <1>3, <1>4

\* How far main() has come, by its entries.
Noted ==
  /\ prelude \in [Runs -> {<<>>, First, Scanned, Escalated}]
  /\ \A r \in Runs :
       /\ main[r] \in {"idle", "settings", "load", "arguments", "scan", "log_scan"}
            => prelude[r] = <<>>
       /\ main[r] \in {"upsert", "retrieve", "log_retrieval"} => prelude[r] = First
       /\ main[r] \in {"propose", "log_escalation", "workflow"} => prelude[r] = Scanned

LEMMA NextNoted == MainInv /\ Noted /\ [DNext]_whole => Noted'
  <1> SUFFICES ASSUME MainInv, Noted, [DNext]_whole PROVE Noted'
    OBVIOUS
  <1>0. Noted /\ MainType /\ Placed
    BY DEF MainInv
  <1>1. CASE UNCHANGED whole
    BY <1>1, <1>0 DEF whole, mvars, store, agent, Noted, MainType, Placed,
       DemoStages
  <1>2. ASSUME NEW r \in Runs, Launch(r) PROVE Noted'
    BY <1>2, <1>0 DEF Launch, Advance, store, agent, Noted, MainType, Placed,
       DemoStages
  <1>3. ASSUME NEW r \in Runs, LoadSettings(r) PROVE Noted'
    BY <1>3, <1>0 DEF LoadSettings, Advance, store, agent, Noted, MainType,
       Placed, DemoStages
  <1>4. ASSUME NEW r \in Runs, Load(r) PROVE Noted'
    BY <1>4, <1>0 DEF Load, Advance, store, agent, Noted, MainType, Placed,
       DemoStages
  <1>5. ASSUME NEW r \in Runs, ReadCdbs(r) PROVE Noted'
    BY <1>5, <1>0 DEF ReadCdbs, Advance, store, agent, Noted, MainType,
       Placed, DemoStages
  <1>6. ASSUME NEW r \in Runs, BadCdbs(r) PROVE Noted'
    BY <1>6, <1>0 DEF BadCdbs, Advance, Exit, store, agent, Noted, MainType,
       Placed, DemoStages
  <1>7. ASSUME NEW r \in Runs, Scan(r) PROVE Noted'
    BY <1>7, <1>0 DEF Scan, Advance, store, agent, Noted, MainType, Placed,
       DemoStages
  <1>8. ASSUME NEW r \in Runs, ScanFails(r) PROVE Noted'
    BY <1>8, <1>0 DEF ScanFails, Advance, Exit, store, agent, Noted, MainType,
       Placed, DemoStages
  <1>9. ASSUME NEW r \in Runs, LogScan(r) PROVE Noted'
    <2>1. main[r] = "log_scan" /\ main' = [main EXCEPT ![r] = "upsert"]
      BY <1>9 DEF LogScan, Advance
    <2>2. prelude' = [prelude EXCEPT ![r] = First]
      <3>1. prelude' = [prelude EXCEPT ![r] = Append(prelude[r], Good("scan"))]
        BY <1>9 DEF LogScan, Note, Good
      <3>2. prelude[r] = <<>>
        BY <1>0, <2>1 DEF Noted
      <3> QED
        BY <3>1, <3>2, PreludeGrows, Zenon
    <2> QED
      BY <1>0, <2>1, <2>2 DEF Noted, MainType
  <1>10. ASSUME NEW r \in Runs, Upsert(r) PROVE Noted'
    BY <1>10, <1>0 DEF Upsert, Advance, store, agent, Noted, MainType, Placed,
       DemoStages
  <1>11. ASSUME NEW r \in Runs, Retrieve(r) PROVE Noted'
    BY <1>11, <1>0 DEF Retrieve, Advance, store, agent, Noted, MainType,
       Placed, DemoStages
  <1>12. ASSUME NEW r \in Runs, LogRetrieval(r) PROVE Noted'
    <2>1. main[r] = "log_retrieval" /\ main' = [main EXCEPT ![r] = "propose"]
      BY <1>12 DEF LogRetrieval, Advance
    <2>2. prelude' = [prelude EXCEPT ![r] = Scanned]
      <3>1. prelude' = [prelude EXCEPT ![r] = Append(prelude[r], Good("rag_retrieval"))]
        BY <1>12 DEF LogRetrieval, Note, Good
      <3>2. prelude[r] = First
        BY <1>0, <2>1 DEF Noted
      <3> QED
        BY <3>1, <3>2, PreludeGrows, Zenon
    <2> QED
      BY <1>0, <2>1, <2>2 DEF Noted, MainType
  <1>13. ASSUME NEW r \in Runs, AskAgent(r) PROVE Noted'
    BY <1>13, <1>0 DEF AskAgent, ProposePlan, Ask, TimesOut, LeftBy, Becomes,
       mvars, store, agent, Noted, MainType, Placed, DemoStages
  <1>14. ASSUME NEW r \in Runs, Propose(r) PROVE Noted'
    BY <1>14, <1>0 DEF Propose, Advance, store, agent, Noted, MainType,
       Placed, DemoStages
  <1>15. ASSUME NEW r \in Runs, Escalate(r) PROVE Noted'
    BY <1>15, <1>0 DEF Escalate, Advance, store, agent, Noted, MainType,
       Placed, DemoStages
  <1>16. ASSUME NEW r \in Runs, AgentRaises(r) PROVE Noted'
    BY <1>16, <1>0 DEF AgentRaises, Advance, Exit, store, agent, Noted,
       MainType, Placed, DemoStages
  <1>17. ASSUME NEW r \in Runs, LogEscalation(r) PROVE Noted'
    <2>1. main[r] = "log_escalation" /\ main' = [main EXCEPT ![r] = "finished"]
      BY <1>17 DEF LogEscalation, Advance
    <2>2. prelude' = [prelude EXCEPT ![r] = Escalated]
      <3>1. prelude' = [prelude EXCEPT ![r] = Append(prelude[r], Escalation)]
        BY <1>17 DEF LogEscalation, Note, Escalation
      <3>2. prelude[r] = Scanned
        BY <1>0, <2>1 DEF Noted
      <3> QED
        BY <3>1, <3>2, PreludeGrows, Zenon
    <2> QED
      BY <1>0, <2>1, <2>2 DEF Noted, MainType
  <1>18. ASSUME NEW r \in Runs, Record(r) PROVE Noted'
    BY <1>18, <1>0 DEF Record, Advance, Exit, store, agent, Noted, MainType,
       Placed, DemoStages
  <1>19. ASSUME NEW r \in Runs, RecordFails(r) PROVE Noted'
    BY <1>19, <1>0 DEF RecordFails, Advance, Exit, store, agent, Noted,
       MainType, Placed, DemoStages
  <1>20. ASSUME NEW r \in Runs, Crash(r) PROVE Noted'
    BY <1>20, <1>0 DEF Crash, Advance, Exit, Abandon, LeftBy, store, agent,
       Noted, MainType, Placed, DemoStages
  <1>21. ASSUME NEW r \in Runs, Die(r) PROVE Noted'
    BY <1>21, <1>0 DEF Die, Advance, Exit, Abandon, LeftBy, store, agent,
       Noted, MainType, Placed, DemoStages
  <1>22. ASSUME NEW r \in Runs, LaunchDemo(r) PROVE Noted'
    BY <1>22, <1>0 DEF LaunchDemo, Advance, store, agent, Noted, MainType,
       Placed, DemoStages
  <1>23. ASSUME NEW r \in Runs, DemoSettings(r) PROVE Noted'
    BY <1>23, <1>0 DEF DemoSettings, Step, Advance, store, agent, Noted,
       MainType, Placed, DemoStages
  <1>24. ASSUME NEW r \in Runs, Preflight(r) PROVE Noted'
    BY <1>24, <1>0 DEF Preflight, Step, ReturnFrom, Advance, Exit, store,
       agent, Noted, MainType, Placed, DemoStages
  <1>25. ASSUME NEW r \in Runs, DemoLoad(r) PROVE Noted'
    BY <1>25, <1>0 DEF DemoLoad, Step, Advance, store, agent, Noted, MainType,
       Placed, DemoStages
  <1>26. ASSUME NEW r \in Runs, DemoScan(r) PROVE Noted'
    BY <1>26, <1>0 DEF DemoScan, Step, ReturnFrom, Advance, Exit, store,
       agent, Noted, MainType, Placed, DemoStages
  <1>27. ASSUME NEW r \in Runs, DemoTransfer(r) PROVE Noted'
    BY <1>27, <1>0 DEF DemoTransfer, Step, Advance, store, agent, Noted,
       MainType, Placed, DemoStages
  <1>28. ASSUME NEW r \in Runs, DemoIngest(r) PROVE Noted'
    BY <1>28, <1>0 DEF DemoIngest, Step, Advance, store, agent, Noted,
       MainType, Placed, DemoStages
  <1>29. ASSUME NEW r \in Runs, DemoQuery(r) PROVE Noted'
    BY <1>29, <1>0 DEF DemoQuery, Step, Advance, store, agent, Noted,
       MainType, Placed, DemoStages
  <1>30. ASSUME NEW r \in Runs, DemoPropose(r) PROVE Noted'
    BY <1>30, <1>0 DEF DemoPropose, Step, Advance, store, agent, Noted,
       MainType, Placed, DemoStages
  <1>31. ASSUME NEW r \in Runs, DemoEscalate(r) PROVE Noted'
    BY <1>31, <1>0 DEF DemoEscalate, ReturnFrom, Advance, Exit, store, agent,
       Noted, MainType, Placed, DemoStages
  <1>32. ASSUME NEW r \in Runs, BogusId(r) PROVE Noted'
    BY <1>32, <1>0 DEF BogusId, Step, Advance, store, agent, Noted, MainType,
       Placed, DemoStages
  <1>33. ASSUME NEW r \in Runs, WorkflowOver(r) PROVE Noted'
    BY <1>33, <1>0 DEF WorkflowOver, Step, Advance, store, agent, Noted,
       MainType, Placed, DemoStages
  <1>34. ASSUME NEW r \in Runs, WorkflowRaised(r) PROVE Noted'
    BY <1>34, <1>0 DEF WorkflowRaised, Advance, Exit, store, agent, Noted,
       MainType, Placed, DemoStages
  <1>35. ASSUME NEW r \in Runs, ReadBack(r) PROVE Noted'
    BY <1>35, <1>0 DEF ReadBack, Step, Advance, store, agent, Noted, MainType,
       Placed, DemoStages
  <1>36. ASSUME NEW r \in Runs, Tests(r) PROVE Noted'
    BY <1>36, <1>0 DEF Tests, ReturnFrom, Advance, Exit, store, agent, Noted,
       MainType, Placed, DemoStages
  <1>37. CASE Workflow
    BY <1>37, <1>0 DEF Workflow, mvars, store, agent, Noted, MainType, Placed,
       DemoStages
  <1>38. CASE ModelServer
    BY <1>38, <1>0 DEF ModelServer, Answers, Serve, Accept, Invalid,
       Contentless, Unreachable, ErrorStatus, OrphanEnds, DroppedFor, Becomes,
       mvars, store, agent, Noted, MainType, Placed, DemoStages
  <1> QED
    BY <1>1, <1>2, <1>3, <1>4, <1>5, <1>6, <1>7, <1>8, <1>9, <1>10, <1>11,
       <1>12, <1>13, <1>14, <1>15, <1>16, <1>17, <1>18, <1>19, <1>20, <1>21,
       <1>22, <1>23, <1>24, <1>25, <1>26, <1>27, <1>28, <1>29, <1>30, <1>31,
       <1>32, <1>33, <1>34, <1>35, <1>36, <1>37, <1>38 DEF DNext, MNext,
       MProceed, Postgres, DemoProceed

-----------------------------------------------------------------------------
(* What is left of a run when it is over *)

\* The row of execution_history that tells what became of run r.
Row(r) == [run |-> r, target |-> target[r], outcome |-> Outcome(r)]

StoreType ==
  /\ rows \in SUBSET Hosts
  /\ level \in [Hosts -> DOMAIN Registry \cup {NoLevel}]

\* Only a run that is over has a row, its own, that says what became of it; its
\* target has one too.
Recorded ==
  /\ \A e \in history :
       /\ e.run \in Runs /\ e = Row(e.run)
       /\ main[e.run] \in Done
       /\ pc[e.run] \in {"returned", "halted", "raised"}
       /\ e.target \in rows
  /\ \A r \in Runs :
       main[r] \in {"retrieve", "log_retrieval", "propose", "log_escalation", "workflow"}
         => target[r] \in rows

\* A program that came to an end of its own: before its workflow, or with it.
Exited ==
  \A r \in Runs : main[r] = "finished" =>
    /\ exit[r] \in {"0", "1", "2"}
    /\ program[r] = "demo" /\ exit[r] = "0" => pc[r] \in {"returned", "halted"}
    /\ program[r] = "run_patch" =>
         \/ /\ pc[r] = "idle" /\ exit[r] # "0"
            /\ exit[r] = "1" => prelude[r] \in {<<>>, Escalated}
         \/ /\ pc[r] \in {"returned", "halted"}
            /\ exit[r] = IF pc[r] = "returned" THEN "0" ELSE "1"
            /\ prelude[r] = Scanned
            /\ Row(r) \in history

\* A patch level is that of a run that returned, and has a row.
Leveled ==
  \A h \in Hosts : level[h] # NoLevel =>
    \E r \in Runs : /\ Row(r) \in history
                    /\ pc[r] = "returned"
                    /\ target[r] = h
                    /\ plan[r].procedure = level[h]

LEMMA OutcomeIs ==
  \A r \in Runs : /\ Outcome(r) \in Outcomes
                  /\ pc[r] = "returned" <=> Outcome(r) = "SUCCESS"
                  /\ Outcome(r) = "REJECTED_AT_APPROVAL"
                       => pc[r] = "halted" /\ SaysNotConfirmed(r)
  BY DEF Outcome, Outcomes

\* A step changes neither what a run was given nor what became of a run whose
\* workflow is not under way.
LEMMA OutcomeStays ==
  ASSUME TypeOK, [DNext]_whole
  PROVE  /\ plan' = plan /\ target' = target
         /\ \A r \in Runs : main[r] \notin InWorkflow => pc'[r] = pc[r] /\ Row(r)' = Row(r)
         /\ UNCHANGED vars => \A r \in Runs : pc'[r] = pc[r] /\ Row(r)' = Row(r)
  <1>1. \A r \in Runs : /\ pc'[r] = pc[r] /\ trail'[r] = trail[r]
                       /\ plan' = plan /\ target' = target
                       => Row(r)' = Row(r)
    <2> SUFFICES ASSUME NEW r \in Runs, pc'[r] = pc[r], trail'[r] = trail[r],
                        plan' = plan, target' = target
                 PROVE  Row(r)' = Row(r)
      OBVIOUS
    <2>1. SaysNotConfirmed(r)' <=> SaysNotConfirmed(r)
      BY DEF SaysNotConfirmed, Verdict, Vetted, Known, Supported
    <2>2. Outcome(r)' = Outcome(r)
      BY <2>1 DEF Outcome
    <2> QED
      BY <2>2 DEF Row
  <1>2. /\ plan' = plan /\ target' = target
        /\ \A r \in Runs : pc'[r] = pc[r] => trail'[r] = trail[r]
    BY StepEmbeds, StepStays
  <1>3. UNCHANGED vars => pc' = pc
    BY DEF vars, control
  <1>4. \A r \in Runs : main[r] \notin InWorkflow => pc'[r] = pc[r]
    BY <1>3, OnlyWorkflow DEF Workflow
  <1> QED
    BY <1>1, <1>2, <1>3, <1>4

\* record_execution().
LEMMA RecordAdds ==
  ASSUME NEW r \in Runs, Record(r)
  PROVE  /\ main[r] = "workflow" /\ pc[r] \in {"returned", "halted", "raised"}
         /\ history' = history \cup {Row(r)}
         /\ level' = IF pc[r] = "returned"
                       THEN [level EXCEPT ![target[r]] = plan[r].procedure] ELSE level
         /\ main' = [main EXCEPT ![r] = IF pc[r] = "raised" THEN "crashed" ELSE "finished"]
         /\ exit' = [exit EXCEPT ![r] = IF pc[r] = "returned" THEN "0"
                                        ELSE IF pc[r] = "halted" THEN "1" ELSE "exception"]
         /\ UNCHANGED <<program, prelude, rows, vars>>
  BY OutcomeIs DEF Record, Row, Advance, Exit

LEMMA NextRecorded ==
  MainInv /\ TypeOK /\ StoreType /\ Recorded /\ [DNext]_whole => (StoreType /\ Recorded)'
  <1> SUFFICES ASSUME MainInv, TypeOK, StoreType, Recorded, [DNext]_whole
               PROVE  (StoreType /\ Recorded)'
    OBVIOUS
  <1>0. /\ StoreType /\ Recorded /\ MainType /\ Placed
        /\ target \in [Runs -> Hosts]
        /\ plan' = plan /\ target' = target
        /\ \A r \in Runs : main[r] \notin InWorkflow => pc'[r] = pc[r] /\ Row(r)' = Row(r)
        /\ UNCHANGED vars => \A r \in Runs : pc'[r] = pc[r] /\ Row(r)' = Row(r)
    BY OutcomeStays DEF MainInv, TypeOK
  <1>1. CASE UNCHANGED whole
    BY <1>1, <1>0 DEF whole, mvars, store, agent, StoreType, Recorded,
       MainType, Placed, DemoStages, InWorkflow, Done
  <1>2. ASSUME NEW r \in Runs, Launch(r) PROVE (StoreType /\ Recorded)'
    BY <1>2, <1>0 DEF Launch, Advance, store, agent, StoreType, Recorded,
       MainType, Placed, DemoStages, InWorkflow, Done
  <1>3. ASSUME NEW r \in Runs, LoadSettings(r) PROVE (StoreType /\ Recorded)'
    BY <1>3, <1>0 DEF LoadSettings, Advance, store, agent, StoreType,
       Recorded, MainType, Placed, DemoStages, InWorkflow, Done
  <1>4. ASSUME NEW r \in Runs, Load(r) PROVE (StoreType /\ Recorded)'
    BY <1>4, <1>0 DEF Load, Advance, store, agent, StoreType, Recorded,
       MainType, Placed, DemoStages, InWorkflow, Done
  <1>5. ASSUME NEW r \in Runs, ReadCdbs(r) PROVE (StoreType /\ Recorded)'
    BY <1>5, <1>0 DEF ReadCdbs, Advance, store, agent, StoreType, Recorded,
       MainType, Placed, DemoStages, InWorkflow, Done
  <1>6. ASSUME NEW r \in Runs, BadCdbs(r) PROVE (StoreType /\ Recorded)'
    BY <1>6, <1>0 DEF BadCdbs, Advance, Exit, store, agent, StoreType,
       Recorded, MainType, Placed, DemoStages, InWorkflow, Done
  <1>7. ASSUME NEW r \in Runs, Scan(r) PROVE (StoreType /\ Recorded)'
    BY <1>7, <1>0 DEF Scan, Advance, store, agent, StoreType, Recorded,
       MainType, Placed, DemoStages, InWorkflow, Done
  <1>8. ASSUME NEW r \in Runs, ScanFails(r) PROVE (StoreType /\ Recorded)'
    BY <1>8, <1>0 DEF ScanFails, Advance, Exit, store, agent, StoreType,
       Recorded, MainType, Placed, DemoStages, InWorkflow, Done
  <1>9. ASSUME NEW r \in Runs, LogScan(r) PROVE (StoreType /\ Recorded)'
    BY <1>9, <1>0 DEF LogScan, Advance, Note, store, agent, StoreType,
       Recorded, MainType, Placed, DemoStages, InWorkflow, Done
  <1>10. ASSUME NEW r \in Runs, Upsert(r) PROVE (StoreType /\ Recorded)'
    BY <1>10, <1>0 DEF Upsert, Advance, store, agent, StoreType, Recorded,
       MainType, Placed, DemoStages, InWorkflow, Done
  <1>11. ASSUME NEW r \in Runs, Retrieve(r) PROVE (StoreType /\ Recorded)'
    BY <1>11, <1>0 DEF Retrieve, Advance, store, agent, StoreType, Recorded,
       MainType, Placed, DemoStages, InWorkflow, Done
  <1>12. ASSUME NEW r \in Runs, LogRetrieval(r) PROVE (StoreType /\ Recorded)'
    BY <1>12, <1>0 DEF LogRetrieval, Advance, Note, store, agent, StoreType,
       Recorded, MainType, Placed, DemoStages, InWorkflow, Done
  <1>13. ASSUME NEW r \in Runs, AskAgent(r) PROVE (StoreType /\ Recorded)'
    BY <1>13, <1>0 DEF AskAgent, ProposePlan, Ask, TimesOut, LeftBy, Becomes,
       mvars, store, agent, StoreType, Recorded, MainType, Placed, DemoStages,
       InWorkflow, Done
  <1>14. ASSUME NEW r \in Runs, Propose(r) PROVE (StoreType /\ Recorded)'
    BY <1>14, <1>0 DEF Propose, Advance, store, agent, StoreType, Recorded,
       MainType, Placed, DemoStages, InWorkflow, Done
  <1>15. ASSUME NEW r \in Runs, Escalate(r) PROVE (StoreType /\ Recorded)'
    BY <1>15, <1>0 DEF Escalate, Advance, store, agent, StoreType, Recorded,
       MainType, Placed, DemoStages, InWorkflow, Done
  <1>16. ASSUME NEW r \in Runs, AgentRaises(r) PROVE (StoreType /\ Recorded)'
    BY <1>16, <1>0 DEF AgentRaises, Advance, Exit, store, agent, StoreType,
       Recorded, MainType, Placed, DemoStages, InWorkflow, Done
  <1>17. ASSUME NEW r \in Runs, LogEscalation(r) PROVE (StoreType /\ Recorded)'
    BY <1>17, <1>0 DEF LogEscalation, Advance, Note, Exit, store, agent,
       StoreType, Recorded, MainType, Placed, DemoStages, InWorkflow, Done
  <1>18. ASSUME NEW r \in Runs, Record(r) PROVE (StoreType /\ Recorded)'
    <2>1. /\ main[r] = "workflow" /\ pc[r] \in {"returned", "halted", "raised"}
          /\ history' = history \cup {Row(r)}
          /\ level' = IF pc[r] = "returned"
                        THEN [level EXCEPT ![target[r]] = plan[r].procedure] ELSE level
          /\ main' = [main EXCEPT ![r] = IF pc[r] = "raised" THEN "crashed" ELSE "finished"]
          /\ UNCHANGED <<rows, vars>>
      BY <1>18, RecordAdds
    <2>2. plan[r].procedure \in DOMAIN Registry
      BY <1>0, <2>1 DEF Placed, InWorkflow, Known
    <2>3. StoreType'
      BY <1>0, <2>1, <2>2 DEF StoreType
    <2>4. Row(r).run = r /\ Row(r).target = target[r] /\ target[r] \in rows
      BY <1>0, <2>1 DEF Recorded, Row
    <2>5. \A e \in history' : e \in history \/ e = Row(r)
      BY <2>1
    <2> QED
      BY <1>0, <2>1, <2>3, <2>4, <2>5 DEF Recorded, MainType, Done
  <1>19. ASSUME NEW r \in Runs, RecordFails(r) PROVE (StoreType /\ Recorded)'
    BY <1>19, <1>0 DEF RecordFails, Advance, Exit, store, agent, StoreType,
       Recorded, MainType, Placed, DemoStages, InWorkflow, Done
  <1>20. ASSUME NEW r \in Runs, Crash(r) PROVE (StoreType /\ Recorded)'
    BY <1>20, <1>0 DEF Crash, Advance, Exit, Abandon, LeftBy, store, agent,
       StoreType, Recorded, MainType, Placed, DemoStages, InWorkflow, Done
  <1>21. ASSUME NEW r \in Runs, Die(r) PROVE (StoreType /\ Recorded)'
    BY <1>21, <1>0 DEF Die, Advance, Exit, Abandon, LeftBy, store, agent,
       StoreType, Recorded, MainType, Placed, DemoStages, InWorkflow, Done
  <1>22. ASSUME NEW r \in Runs, LaunchDemo(r) PROVE (StoreType /\ Recorded)'
    BY <1>22, <1>0 DEF LaunchDemo, Advance, store, agent, StoreType, Recorded,
       MainType, Placed, DemoStages, InWorkflow, Done
  <1>23. ASSUME NEW r \in Runs, DemoSettings(r) PROVE (StoreType /\ Recorded)'
    BY <1>23, <1>0 DEF DemoSettings, Step, Advance, store, agent, StoreType,
       Recorded, MainType, Placed, DemoStages, InWorkflow, Done
  <1>24. ASSUME NEW r \in Runs, Preflight(r) PROVE (StoreType /\ Recorded)'
    BY <1>24, <1>0 DEF Preflight, Step, ReturnFrom, Advance, Exit, store,
       agent, StoreType, Recorded, MainType, Placed, DemoStages, InWorkflow,
       Done
  <1>25. ASSUME NEW r \in Runs, DemoLoad(r) PROVE (StoreType /\ Recorded)'
    BY <1>25, <1>0 DEF DemoLoad, Step, Advance, store, agent, StoreType,
       Recorded, MainType, Placed, DemoStages, InWorkflow, Done
  <1>26. ASSUME NEW r \in Runs, DemoScan(r) PROVE (StoreType /\ Recorded)'
    BY <1>26, <1>0 DEF DemoScan, Step, ReturnFrom, Advance, Exit, store,
       agent, StoreType, Recorded, MainType, Placed, DemoStages, InWorkflow,
       Done
  <1>27. ASSUME NEW r \in Runs, DemoTransfer(r) PROVE (StoreType /\ Recorded)'
    BY <1>27, <1>0 DEF DemoTransfer, Step, Advance, store, agent, StoreType,
       Recorded, MainType, Placed, DemoStages, InWorkflow, Done
  <1>28. ASSUME NEW r \in Runs, DemoIngest(r) PROVE (StoreType /\ Recorded)'
    BY <1>28, <1>0 DEF DemoIngest, Step, Advance, store, agent, StoreType,
       Recorded, MainType, Placed, DemoStages, InWorkflow, Done
  <1>29. ASSUME NEW r \in Runs, DemoQuery(r) PROVE (StoreType /\ Recorded)'
    BY <1>29, <1>0 DEF DemoQuery, Step, Advance, store, agent, StoreType,
       Recorded, MainType, Placed, DemoStages, InWorkflow, Done
  <1>30. ASSUME NEW r \in Runs, DemoPropose(r) PROVE (StoreType /\ Recorded)'
    BY <1>30, <1>0 DEF DemoPropose, Step, Advance, store, agent, StoreType,
       Recorded, MainType, Placed, DemoStages, InWorkflow, Done
  <1>31. ASSUME NEW r \in Runs, DemoEscalate(r) PROVE (StoreType /\ Recorded)'
    BY <1>31, <1>0 DEF DemoEscalate, ReturnFrom, Advance, Exit, store, agent,
       StoreType, Recorded, MainType, Placed, DemoStages, InWorkflow, Done
  <1>32. ASSUME NEW r \in Runs, BogusId(r) PROVE (StoreType /\ Recorded)'
    BY <1>32, <1>0 DEF BogusId, Step, Advance, store, agent, StoreType,
       Recorded, MainType, Placed, DemoStages, InWorkflow, Done
  <1>33. ASSUME NEW r \in Runs, WorkflowOver(r) PROVE (StoreType /\ Recorded)'
    BY <1>33, <1>0 DEF WorkflowOver, Step, Advance, store, agent, StoreType,
       Recorded, MainType, Placed, DemoStages, InWorkflow, Done
  <1>34. ASSUME NEW r \in Runs, WorkflowRaised(r) PROVE (StoreType /\ Recorded)'
    BY <1>34, <1>0 DEF WorkflowRaised, Advance, Exit, store, agent, StoreType,
       Recorded, MainType, Placed, DemoStages, InWorkflow, Done
  <1>35. ASSUME NEW r \in Runs, ReadBack(r) PROVE (StoreType /\ Recorded)'
    BY <1>35, <1>0 DEF ReadBack, Step, Advance, store, agent, StoreType,
       Recorded, MainType, Placed, DemoStages, InWorkflow, Done
  <1>36. ASSUME NEW r \in Runs, Tests(r) PROVE (StoreType /\ Recorded)'
    BY <1>36, <1>0 DEF Tests, ReturnFrom, Advance, Exit, store, agent,
       StoreType, Recorded, MainType, Placed, DemoStages, InWorkflow, Done
  <1>37. CASE Workflow
    BY <1>37, <1>0 DEF Workflow, mvars, store, agent, StoreType, Recorded,
       MainType, Placed, DemoStages, InWorkflow, Done
  <1>38. CASE ModelServer
    BY <1>38, <1>0 DEF ModelServer, Answers, Serve, Accept, Invalid,
       Contentless, Unreachable, ErrorStatus, OrphanEnds, DroppedFor, Becomes,
       mvars, store, agent, StoreType, Recorded, MainType, Placed, DemoStages,
       InWorkflow, Done
  <1> QED
    BY <1>1, <1>2, <1>3, <1>4, <1>5, <1>6, <1>7, <1>8, <1>9, <1>10, <1>11,
       <1>12, <1>13, <1>14, <1>15, <1>16, <1>17, <1>18, <1>19, <1>20, <1>21,
       <1>22, <1>23, <1>24, <1>25, <1>26, <1>27, <1>28, <1>29, <1>30, <1>31,
       <1>32, <1>33, <1>34, <1>35, <1>36, <1>37, <1>38 DEF DNext, MNext,
       MProceed, Postgres, DemoProceed

LEMMA NextExited ==
  MainInv /\ TypeOK /\ Noted /\ Exited /\ [DNext]_whole => Exited'
  <1> SUFFICES ASSUME MainInv, TypeOK, Noted, Exited, [DNext]_whole PROVE Exited'
    OBVIOUS
  <1>0. /\ Exited /\ MainType /\ Placed /\ Noted
        /\ pc \in [Runs -> {"idle"} \cup Working \cup Ended]
        /\ \A r \in Runs : main[r] \notin InWorkflow => pc'[r] = pc[r] /\ Row(r)' = Row(r)
        /\ UNCHANGED vars => \A r \in Runs : pc'[r] = pc[r] /\ Row(r)' = Row(r)
    BY OutcomeStays DEF MainInv, TypeOK
  <1>1. CASE UNCHANGED whole
    BY <1>1, <1>0 DEF whole, mvars, store, agent, Exited, MainType, Placed,
       Stages, DemoStages, InWorkflow, Done
  <1>2. ASSUME NEW r \in Runs, Launch(r) PROVE Exited'
    BY <1>2, <1>0 DEF Launch, Advance, store, agent, Exited, MainType, Placed,
       Stages, DemoStages, InWorkflow, Done
  <1>3. ASSUME NEW r \in Runs, LoadSettings(r) PROVE Exited'
    BY <1>3, <1>0 DEF LoadSettings, Advance, store, agent, Exited, MainType,
       Placed, Stages, DemoStages, InWorkflow, Done
  <1>4. ASSUME NEW r \in Runs, Load(r) PROVE Exited'
    BY <1>4, <1>0 DEF Load, Advance, store, agent, Exited, MainType, Placed,
       Stages, DemoStages, InWorkflow, Done
  <1>5. ASSUME NEW r \in Runs, ReadCdbs(r) PROVE Exited'
    BY <1>5, <1>0 DEF ReadCdbs, Advance, store, agent, Exited, MainType,
       Placed, Stages, DemoStages, InWorkflow, Done
  <1>6. ASSUME NEW r \in Runs, BadCdbs(r) PROVE Exited'
    BY <1>6, <1>0 DEF BadCdbs, Advance, Exit, store, agent, Exited, MainType,
       Placed, Stages, DemoStages, InWorkflow, Done
  <1>7. ASSUME NEW r \in Runs, Scan(r) PROVE Exited'
    BY <1>7, <1>0 DEF Scan, Advance, store, agent, Exited, MainType, Placed,
       Stages, DemoStages, InWorkflow, Done
  <1>8. ASSUME NEW r \in Runs, ScanFails(r) PROVE Exited'
    <2>1. prelude[r] = <<>>
      BY <1>8, <1>0 DEF ScanFails, Noted
    <2> QED
      BY <1>8, <1>0, <2>1 DEF ScanFails, Advance, Exit, store, agent, Exited,
         MainType, Placed, Stages, DemoStages, InWorkflow, Done
  <1>9. ASSUME NEW r \in Runs, LogScan(r) PROVE Exited'
    BY <1>9, <1>0 DEF LogScan, Advance, Note, store, agent, Exited, MainType,
       Placed, Stages, DemoStages, InWorkflow, Done
  <1>10. ASSUME NEW r \in Runs, Upsert(r) PROVE Exited'
    BY <1>10, <1>0 DEF Upsert, Advance, store, agent, Exited, MainType,
       Placed, Stages, DemoStages, InWorkflow, Done
  <1>11. ASSUME NEW r \in Runs, Retrieve(r) PROVE Exited'
    BY <1>11, <1>0 DEF Retrieve, Advance, store, agent, Exited, MainType,
       Placed, Stages, DemoStages, InWorkflow, Done
  <1>12. ASSUME NEW r \in Runs, LogRetrieval(r) PROVE Exited'
    BY <1>12, <1>0 DEF LogRetrieval, Advance, Note, store, agent, Exited,
       MainType, Placed, Stages, DemoStages, InWorkflow, Done
  <1>13. ASSUME NEW r \in Runs, AskAgent(r) PROVE Exited'
    BY <1>13, <1>0 DEF AskAgent, ProposePlan, Ask, TimesOut, LeftBy, Becomes,
       mvars, store, agent, Exited, MainType, Placed, Stages, DemoStages,
       InWorkflow, Done
  <1>14. ASSUME NEW r \in Runs, Propose(r) PROVE Exited'
    BY <1>14, <1>0 DEF Propose, Advance, store, agent, Exited, MainType,
       Placed, Stages, DemoStages, InWorkflow, Done
  <1>15. ASSUME NEW r \in Runs, Escalate(r) PROVE Exited'
    BY <1>15, <1>0 DEF Escalate, Advance, store, agent, Exited, MainType,
       Placed, Stages, DemoStages, InWorkflow, Done
  <1>16. ASSUME NEW r \in Runs, AgentRaises(r) PROVE Exited'
    BY <1>16, <1>0 DEF AgentRaises, Advance, Exit, store, agent, Exited,
       MainType, Placed, Stages, DemoStages, InWorkflow, Done
  <1>17. ASSUME NEW r \in Runs, LogEscalation(r) PROVE Exited'
    <2>1. prelude' = [prelude EXCEPT ![r] = Append(prelude[r], Escalation)]
      BY <1>17 DEF LogEscalation, Note, Escalation
    <2>2. prelude[r] = Scanned
      BY <1>17, <1>0 DEF LogEscalation, Noted
    <2>3. prelude' = [prelude EXCEPT ![r] = Escalated]
      BY <2>1, <2>2, PreludeGrows, Zenon
    <2>4. DOMAIN prelude = Runs
      BY <1>0 DEF Noted
    <2> QED
      BY <1>17, <1>0, <2>3, <2>4 DEF LogEscalation, Advance, Exit, store, agent, Exited,
         MainType, Placed, Stages, DemoStages, InWorkflow, Done
  <1>18. ASSUME NEW r \in Runs, Record(r) PROVE Exited'
    <2>1. /\ main[r] = "workflow" /\ pc[r] \in {"returned", "halted", "raised"}
          /\ history' = history \cup {Row(r)}
          /\ main' = [main EXCEPT ![r] = IF pc[r] = "raised" THEN "crashed" ELSE "finished"]
          /\ exit' = [exit EXCEPT ![r] = IF pc[r] = "returned" THEN "0"
                                         ELSE IF pc[r] = "halted" THEN "1" ELSE "exception"]
          /\ UNCHANGED <<program, prelude, vars>>
      BY <1>18, RecordAdds
    <2>2. program[r] = "run_patch" /\ prelude[r] = Scanned
      BY <1>0, <2>1 DEF Placed, Stages, Noted
    <2> QED
      BY <1>0, <2>1, <2>2 DEF Exited, MainType
  <1>19. ASSUME NEW r \in Runs, RecordFails(r) PROVE Exited'
    BY <1>19, <1>0 DEF RecordFails, Advance, Exit, store, agent, Exited,
       MainType, Placed, Stages, DemoStages, InWorkflow, Done
  <1>20. ASSUME NEW r \in Runs, Crash(r) PROVE Exited'
    BY <1>20, <1>0 DEF Crash, Advance, Exit, Abandon, LeftBy, store, agent,
       Exited, MainType, Placed, Stages, DemoStages, InWorkflow, Done
  <1>21. ASSUME NEW r \in Runs, Die(r) PROVE Exited'
    BY <1>21, <1>0 DEF Die, Advance, Exit, Abandon, LeftBy, store, agent,
       Exited, MainType, Placed, Stages, DemoStages, InWorkflow, Done
  <1>22. ASSUME NEW r \in Runs, LaunchDemo(r) PROVE Exited'
    BY <1>22, <1>0 DEF LaunchDemo, Advance, store, agent, Exited, MainType,
       Placed, Stages, DemoStages, InWorkflow, Done
  <1>23. ASSUME NEW r \in Runs, DemoSettings(r) PROVE Exited'
    BY <1>23, <1>0 DEF DemoSettings, Step, Advance, store, agent, Exited,
       MainType, Placed, Stages, DemoStages, InWorkflow, Done
  <1>24. ASSUME NEW r \in Runs, Preflight(r) PROVE Exited'
    BY <1>24, <1>0 DEF Preflight, Step, ReturnFrom, Advance, Exit, store,
       agent, Exited, MainType, Placed, Stages, DemoStages, InWorkflow, Done
  <1>25. ASSUME NEW r \in Runs, DemoLoad(r) PROVE Exited'
    BY <1>25, <1>0 DEF DemoLoad, Step, Advance, store, agent, Exited,
       MainType, Placed, Stages, DemoStages, InWorkflow, Done
  <1>26. ASSUME NEW r \in Runs, DemoScan(r) PROVE Exited'
    BY <1>26, <1>0 DEF DemoScan, Step, ReturnFrom, Advance, Exit, store,
       agent, Exited, MainType, Placed, Stages, DemoStages, InWorkflow, Done
  <1>27. ASSUME NEW r \in Runs, DemoTransfer(r) PROVE Exited'
    BY <1>27, <1>0 DEF DemoTransfer, Step, Advance, store, agent, Exited,
       MainType, Placed, Stages, DemoStages, InWorkflow, Done
  <1>28. ASSUME NEW r \in Runs, DemoIngest(r) PROVE Exited'
    BY <1>28, <1>0 DEF DemoIngest, Step, Advance, store, agent, Exited,
       MainType, Placed, Stages, DemoStages, InWorkflow, Done
  <1>29. ASSUME NEW r \in Runs, DemoQuery(r) PROVE Exited'
    BY <1>29, <1>0 DEF DemoQuery, Step, Advance, store, agent, Exited,
       MainType, Placed, Stages, DemoStages, InWorkflow, Done
  <1>30. ASSUME NEW r \in Runs, DemoPropose(r) PROVE Exited'
    BY <1>30, <1>0 DEF DemoPropose, Step, Advance, store, agent, Exited,
       MainType, Placed, Stages, DemoStages, InWorkflow, Done
  <1>31. ASSUME NEW r \in Runs, DemoEscalate(r) PROVE Exited'
    BY <1>31, <1>0 DEF DemoEscalate, ReturnFrom, Advance, Exit, store, agent,
       Exited, MainType, Placed, Stages, DemoStages, InWorkflow, Done
  <1>32. ASSUME NEW r \in Runs, BogusId(r) PROVE Exited'
    BY <1>32, <1>0 DEF BogusId, Step, Advance, store, agent, Exited, MainType,
       Placed, Stages, DemoStages, InWorkflow, Done
  <1>33. ASSUME NEW r \in Runs, WorkflowOver(r) PROVE Exited'
    BY <1>33, <1>0 DEF WorkflowOver, Step, Advance, store, agent, Exited,
       MainType, Placed, Stages, DemoStages, InWorkflow, Done
  <1>34. ASSUME NEW r \in Runs, WorkflowRaised(r) PROVE Exited'
    BY <1>34, <1>0 DEF WorkflowRaised, Advance, Exit, store, agent, Exited,
       MainType, Placed, Stages, DemoStages, InWorkflow, Done
  <1>35. ASSUME NEW r \in Runs, ReadBack(r) PROVE Exited'
    BY <1>35, <1>0 DEF ReadBack, Step, Advance, store, agent, Exited,
       MainType, Placed, Stages, DemoStages, InWorkflow, Done
  <1>36. ASSUME NEW r \in Runs, Tests(r) PROVE Exited'
    BY <1>36, <1>0 DEF Tests, ReturnFrom, Advance, Exit, store, agent, Exited,
       MainType, Placed, Stages, DemoStages, InWorkflow, Done
  <1>37. CASE Workflow
    BY <1>37, <1>0 DEF Workflow, mvars, store, agent, Exited, MainType,
       Placed, Stages, DemoStages, InWorkflow, Done
  <1>38. CASE ModelServer
    BY <1>38, <1>0 DEF ModelServer, Answers, Serve, Accept, Invalid,
       Contentless, Unreachable, ErrorStatus, OrphanEnds, DroppedFor, Becomes,
       mvars, store, agent, Exited, MainType, Placed, Stages, DemoStages,
       InWorkflow, Done
  <1> QED
    BY <1>1, <1>2, <1>3, <1>4, <1>5, <1>6, <1>7, <1>8, <1>9, <1>10, <1>11,
       <1>12, <1>13, <1>14, <1>15, <1>16, <1>17, <1>18, <1>19, <1>20, <1>21,
       <1>22, <1>23, <1>24, <1>25, <1>26, <1>27, <1>28, <1>29, <1>30, <1>31,
       <1>32, <1>33, <1>34, <1>35, <1>36, <1>37, <1>38 DEF DNext, MNext,
       MProceed, Postgres, DemoProceed

LEMMA NextLeveled ==
  MainInv /\ TypeOK /\ StoreType /\ Recorded /\ Leveled /\ [DNext]_whole => Leveled'
  <1> SUFFICES ASSUME MainInv, TypeOK, StoreType, Recorded, Leveled, [DNext]_whole
               PROVE  Leveled'
    OBVIOUS
  <1>0. /\ plan' = plan /\ target' = target
        /\ \A r \in Runs : main[r] \notin InWorkflow => pc'[r] = pc[r] /\ Row(r)' = Row(r)
        /\ UNCHANGED vars => \A r \in Runs : pc'[r] = pc[r] /\ Row(r)' = Row(r)
    BY OutcomeStays
  <1>1. \A r \in Runs : Row(r) \in history => main[r] \notin InWorkflow
    BY DEF Recorded, Row, Done, InWorkflow
  <1>2. CASE UNCHANGED <<history, level>>
    BY <1>0, <1>1, <1>2 DEF Leveled
  <1>3. ASSUME NEW r \in Runs, Record(r) PROVE Leveled'
    <2>1. /\ history' = history \cup {Row(r)}
          /\ level' = IF pc[r] = "returned"
                        THEN [level EXCEPT ![target[r]] = plan[r].procedure] ELSE level
          /\ UNCHANGED vars
      BY <1>3, RecordAdds
    <2>2. target \in [Runs -> Hosts] /\ level \in [Hosts -> DOMAIN Registry \cup {NoLevel}]
      BY DEF TypeOK, StoreType
    <2>3. \A h \in Hosts : level'[h] # level[h] => pc[r] = "returned" /\ target[r] = h
                                                  /\ plan[r].procedure = level'[h]
      BY <2>1, <2>2
    <2> QED
      BY <1>0, <2>1, <2>3 DEF Leveled
  <1>4. UNCHANGED <<history, level>> \/ \E r \in Runs : Record(r)
    <2> DEFINE Kept == UNCHANGED <<history, level>>
    <2>1. ASSUME NEW r \in Runs, Launch(r) \/ MProceed(r) PROVE Kept
      BY <2>1 DEF Launch, MProceed, LoadSettings, Load, ReadCdbs, BadCdbs, Scan, ScanFails,
         LogScan, Retrieve, LogRetrieval, AskAgent, Propose, Escalate, AgentRaises,
         LogEscalation, mvars, store
    <2>2. ASSUME NEW r \in Runs, Postgres(r) PROVE Kept \/ Record(r)
      BY <2>2 DEF Postgres, Upsert, RecordFails, store
    <2>3. ASSUME NEW r \in Runs, Crash(r) \/ Die(r) PROVE Kept
      BY <2>3 DEF Crash, Die, store
    <2>4. ASSUME NEW r \in Runs, LaunchDemo(r) \/ DemoProceed(r) PROVE Kept
      BY <2>4 DEF LaunchDemo, DemoProceed, DemoSettings, Preflight, DemoLoad, DemoScan,
         DemoTransfer, DemoIngest, DemoQuery, DemoPropose, DemoEscalate, BogusId,
         WorkflowOver, WorkflowRaised, ReadBack, Tests, Step, ReturnFrom, store
    <2>5. CASE Workflow \/ ModelServer \/ UNCHANGED whole
      BY <2>5 DEF Workflow, ModelServer, whole, mvars, store
    <2> QED
      BY <2>1, <2>2, <2>3, <2>4, <2>5, Zenon DEF DNext, MNext
  <1> QED
    BY <1>2, <1>3, <1>4

DemoInv ==
  /\ MainInv /\ RolloutInv
  /\ Noted /\ StoreType /\ Recorded /\ Exited /\ Leveled

LEMMA InitDemo == MInit => Noted /\ StoreType /\ Recorded /\ Exited /\ Leveled
  BY DEF MInit, Noted, StoreType, Recorded, Exited, Leveled, Stages, DemoStages, Done

LEMMA DemoInvariant == DSpec => []DemoInv
  <1> DEFINE Rest == Noted /\ StoreType /\ Recorded /\ Exited /\ Leveled
  <1>1. RolloutInv => TypeOK
    BY DEF RolloutInv, GateInv, TypeInv
  <1>2. MainInv /\ RolloutInv /\ Rest /\ [DNext]_whole => Rest'
    BY <1>1, NextNoted, NextRecorded, NextExited, NextLeveled
  <1>3. MInit => Rest
    BY InitDemo
  <1>4. MainInv /\ RolloutInv /\ Rest => DemoInv
    BY DEF DemoInv
  <1> HIDE DEF Rest
  <1> QED
    BY MainInvariant, <1>2, <1>3, <1>4, PTL DEF DSpec

\* What is known of the workflows the programs call.
Told == HaltExplained /\ SucceedingInv /\ SuccessVerified /\ GatedChange

LEMMA ToldInvariant == DSpec => []Told
  BY Embeds, HaltIsExplained, SucceedingInvariant, SuccessIsVerified,
     ChangeIsGated, PTL DEF Told

-----------------------------------------------------------------------------
(* The theorems *)

\* What is proved of a workflow on its own holds of every workflow that
\* run_patch.py and demo.py call: the gate, the rollout host by host, no new host
\* after the end, a reason on record for every halt, and a trail that agrees with
\* the registry.
THEOREM WorkflowsInPrograms ==
  DSpec => /\ ImplementsGatedRollout
           /\ NothingStartsAfterEnd
           /\ [](GatedChange /\ HaltExplained /\ TrailAgreesWithRegistry)
  BY Embeds, Implements, NothingStarts, ChangeIsGated, HaltIsExplained, TrailAgrees, PTL

LEMMA PreludeType ==
  ASSUME Noted
  PROVE  prelude \in [Runs -> Seq([event : {"scan", "rag_retrieval", "validation_result"},
                                   ok : BOOLEAN])]
  <1> DEFINE S == [event : {"scan", "rag_retrieval", "validation_result"}, ok : BOOLEAN]
  <1>1. Good("scan") \in S /\ Good("rag_retrieval") \in S /\ Escalation \in S
    BY DEF Good, Escalation
  <1> HIDE DEF S
  <1>2. <<>> \in Seq(S) /\ First \in Seq(S) /\ Scanned \in Seq(S) /\ Escalated \in Seq(S)
    BY <1>1 DEF First, Scanned, Escalated
  <1>3. prelude \in [Runs -> {<<>>, First, Scanned, Escalated}]
    BY DEF Noted
  <1>4. prelude \in [Runs -> Seq(S)]
    BY <1>2, <1>3
  <1> QED
    BY <1>4 DEF S

\* The state of both programs, of the Patch Agent and of the store is what its
\* types say (run_patch.py, demo.py): no retry beyond the limit, no row without a
\* target, no patch level that is not in the registry.
THEOREM ProgramTypes == DSpec => []MTypeOK
  <1>1. DemoInv => MTypeOK
    <2> SUFFICES ASSUME DemoInv PROVE MTypeOK
      OBVIOUS
    <2>1. TypeOK
      BY DEF DemoInv, RolloutInv, GateInv, TypeInv
    <2>2. AgentTypeOK
      <3>1. \A r \in Runs : attempt[r] \in 0 .. MaxSchemaRetries + 1
        BY RetriesAssumption DEF DemoInv, MainInv, AgentType, Asking
      <3> QED
        BY <3>1 DEF DemoInv, MainInv, AgentType, Asking, AgentTypeOK
    <2>3. history \in SUBSET [run : Runs, target : Hosts, outcome : Outcomes]
      <3> SUFFICES ASSUME NEW e \in history
                   PROVE  e \in [run : Runs, target : Hosts, outcome : Outcomes]
        OBVIOUS
      <3>1. e.run \in Runs /\ e = Row(e.run)
        BY DEF DemoInv, Recorded
      <3>2. target[e.run] \in Hosts /\ Outcome(e.run) \in Outcomes
        BY <2>1, <3>1, OutcomeIs DEF TypeOK
      <3> QED
        BY <3>1, <3>2 DEF Row
    <2> QED
      BY <2>1, <2>2, <2>3, PreludeType DEF DemoInv, MainInv, MainType, StoreType, MTypeOK
  <1> QED
    BY DemoInvariant, <1>1, PTL

\* A row of execution_history with SUCCESS is of a run that verified every host of the
\* inventory, one with REJECTED_AT_APPROVAL of a run that has touched none, nor will, and
\* that a human refused or the registry does not have the plan of, whatever text the
\* plan brings into the exception (run_patch.py:95-111, executor.py:83-101).
THEOREM HistoryIsTrue == DSpec => []OutcomeTruth
  <1>1. DemoInv /\ Told => OutcomeTruth
    <2> SUFFICES ASSUME DemoInv, Told, NEW e \in history
                 PROVE  /\ e.outcome = "SUCCESS" =>
                             \A i \in DOMAIN Inventory : Inventory[i] \in verified[e.run]
                        /\ e.outcome = "REJECTED_AT_APPROVAL" =>
                             /\ touched[e.run] = {}
                             /\ Verdict(e.run) = "refused" \/ ~InRegistry(plan[e.run])
      BY DEF OutcomeTruth
    <2>1. e.run \in Runs /\ e.outcome = Outcome(e.run)
      BY DEF DemoInv, Recorded, Row
    <2>2. e.outcome = "SUCCESS" => AllVerified(e.run)
      BY <2>1, OutcomeIs DEF Told, SuccessVerified
    <2>3. touched[e.run] # {} => Verdict(e.run) # "refused" /\ Vetted(plan[e.run])
      BY <2>1, GateEntriesAre DEF Told, GatedChange, Verdict
    <2>4. Vetted(plan[e.run]) <=> InRegistry(plan[e.run])
      <3>1. plan[e.run] \in Plans
        BY <2>1 DEF DemoInv, RolloutInv, GateInv, TypeInv, TypeOK
      <3> QED
        BY <3>1, VettedIsInRegistry
    <2>5. e.outcome = "REJECTED_AT_APPROVAL" =>
            Verdict(e.run) = "refused" \/ ~Vetted(plan[e.run])
      BY <2>1, OutcomeIs DEF SaysNotConfirmed
    <2> QED
      BY <2>1, <2>2, <2>3, <2>4, <2>5 DEF AllVerified
  <1> QED
    BY DemoInvariant, ToldInvariant, <1>1, PTL

\* The patch level of a target is the procedure of a success on record that
\* verified this very target, when --target names a host of the inventory; every
\* record refers to a row of database_state (rag/ingestion/operational_store.py).
THEOREM LevelIsJustified ==
  ASSUME \A h \in Hosts : \E i \in DOMAIN Inventory : Inventory[i] = h
  PROVE  DSpec => []LevelJustified
  <1>1. DemoInv /\ Told => LevelJustified
    <2> SUFFICES ASSUME DemoInv, Told PROVE LevelJustified
      OBVIOUS
    <2>1. ASSUME NEW h \in Hosts, level[h] # NoLevel
          PROVE  \E e \in history : e.outcome = "SUCCESS" /\ e.target = h
                   /\ plan[e.run].procedure = level[h] /\ h \in verified[e.run]
      <3>1. PICK r \in Runs : /\ Row(r) \in history /\ pc[r] = "returned"
                              /\ target[r] = h /\ plan[r].procedure = level[h]
        BY <2>1 DEF DemoInv, Leveled
      <3>2. h \in verified[r]
        BY <3>1 DEF Told, SuccessVerified, AllVerified
      <3>3. Row(r).outcome = "SUCCESS" /\ Row(r).target = h /\ Row(r).run = r
        BY <3>1, OutcomeIs DEF Row
      <3> QED
        BY <3>1, <3>2, <3>3
    <2>2. \A e \in history : e.target \in rows
      BY DEF DemoInv, Recorded
    <2> QED
      BY <2>1, <2>2 DEF LevelJustified
  <1> QED
    BY DemoInvariant, ToldInvariant, <1>1, PTL

\* A run of run_patch.py that exits with 0 has verified every host, has its
\* success on record and both audit trails complete (run_patch.py:69-112).
THEOREM ExitZero == DSpec => []ExitZeroMeansDone
  <1>1. DemoInv /\ Told => ExitZeroMeansDone
    <2> SUFFICES ASSUME DemoInv, Told, NEW r \in Runs, Patching(r), exit[r] = "0"
                 PROVE  /\ \A i \in DOMAIN Inventory : Inventory[i] \in verified[r]
                        /\ [run |-> r, target |-> target[r], outcome |-> "SUCCESS"] \in history
                        /\ prelude[r] = <<Good("scan"), Good("rag_retrieval")>>
                        /\ trail[r][Len(trail[r])] = Good("validation_result")
      BY DEF ExitZeroMeansDone
    <2>1. main[r] = "finished" /\ program[r] = "run_patch"
      BY DEF DemoInv, MainInv, Placed, Patching
    <2>2. pc[r] = "returned" /\ prelude[r] = Scanned /\ Row(r) \in history
      BY <2>1 DEF DemoInv, Exited
    <2>3. AllVerified(r) /\ TwoGood(r)
      BY <2>2 DEF Told, SuccessVerified, SucceedingInv, Succeeding, Success
    <2>4. Outcome(r) = "SUCCESS"
      BY <2>2, OutcomeIs
    <2> QED
      BY <2>2, <2>3, <2>4 DEF AllVerified, TwoGood, Row, Scanned
  <1> QED
    BY DemoInvariant, ToldInvariant, <1>1, PTL

\* The databases are patched, too, as long as no change command of another run is
\* at work on a host this one has begun to change, whatever other runs do elsewhere
\* and however they end.
THEOREM ExitZeroPatched ==
  ASSUME NEW r \in Runs
  PROVE  DSpec /\ []Undisturbed(r) =>
           [](Patching(r) /\ exit[r] = "0" =>
                \A i \in DOMAIN Inventory : db[Inventory[i]] = "patched")
  <1> DEFINE Patched == \A i \in DOMAIN Inventory :
                          Inventory[i] \in verified[r] /\ db[Inventory[i]] = "patched"
             Goal == Patching(r) /\ exit[r] = "0" =>
                       \A i \in DOMAIN Inventory : db[Inventory[i]] = "patched"
  <1>1. ASSUME DemoInv, Patching(r), exit[r] = "0"
        PROVE  pc[r] = "returned"
    BY <1>1 DEF DemoInv, MainInv, Placed, Patching, Exited
  <1>2. DemoInv /\ (pc[r] = "returned" => Patched) => Goal
    BY <1>1
  <1>3. Spec /\ []Undisturbed(r) => [](pc[r] = "returned" => Patched)
    BY SuccessOfOne
  <1> HIDE DEF Patched, Goal
  <1>4. DSpec /\ []Undisturbed(r) => []Goal
    BY DemoInvariant, Embeds, <1>2, <1>3, PTL
  <1> QED
    BY <1>4 DEF Goal

\* A run that has not begun its workflow has no entry in its trail.
LEMMA IdleTrail ==
  ASSUME TypeOK, Trailed, NEW r \in Runs, pc[r] = "idle"
  PROVE  trail[r] = <<>>
  <1>1. trail[r] \in Seq(TrailEntry) /\ Len(trail[r]) = 0
    BY DEF TypeOK, TrailEntry, Trailed, Logged
  <1> QED
    BY <1>1, EmptySeq

LEMMA SeqWiden ==
  ASSUME NEW A, NEW B, A \subseteq B, NEW s \in Seq(A)
  PROVE  s \in Seq(B)
  OBVIOUS

\* The last entry of two trails, one after the other.
LEMMA LastOfBoth ==
  ASSUME NEW S, NEW s \in Seq(S), NEW t \in Seq(S), t # <<>>
  PROVE  (s \o t)[Len(s \o t)] = t[Len(t)]
  <1> DEFINE m == Len(s)
             n == Len(t)
             k == m + n
  <1>1. m \in Nat /\ n \in Nat \ {0}
    BY EmptySeq
  <1>2. /\ Len(s \o t) = k
        /\ \A i \in 1 .. k : (s \o t)[i] = IF i <= m THEN s[i] ELSE t[i - m]
    BY ConcatProperties
  <1> HIDE DEF m, n
  <1>3. k \in 1 .. k /\ ~(k <= m) /\ k - m = n
    BY <1>1
  <1> HIDE DEF k
  <1>4. (s \o t)[k] = t[n]
    BY <1>2, <1>3
  <1> QED
    BY <1>2, <1>4 DEF n

\* A run of run_patch.py that exits with 1 after its scan has said why in its last
\* audit entry, of main() or of the workflow (run_patch.py:82-85,
\* executor/executor.py:38-44).
THEOREM ExitOne == DSpec => []ExitOneExplained
  <1>1. DemoInv /\ Told => ExitOneExplained
    <2> SUFFICES ASSUME DemoInv, Told,
                        NEW r \in Runs, Patching(r), exit[r] = "1", prelude[r] # <<>>
                 PROVE  ~(prelude[r] \o trail[r])[Len(prelude[r] \o trail[r])].ok
      BY DEF ExitOneExplained
    <2> DEFINE U == [event : Event \cup {"scan", "rag_retrieval"}, ok : BOOLEAN]
    <2>1. main[r] = "finished" /\ program[r] = "run_patch"
      BY DEF DemoInv, MainInv, Placed, Patching
    <2>2. /\ trail[r] \in Seq([event : Event, ok : BOOLEAN])
          /\ prelude[r] \in Seq([event : {"scan", "rag_retrieval", "validation_result"},
                                 ok : BOOLEAN])
      BY PreludeType DEF DemoInv, RolloutInv, GateInv, TypeInv, TypeOK
    <2>3. trail[r] \in Seq(U) /\ prelude[r] \in Seq(U)
      <3>1. /\ [event : Event, ok : BOOLEAN] \subseteq U
            /\ [event : {"scan", "rag_retrieval", "validation_result"}, ok : BOOLEAN] \subseteq U
        BY DEF Event
      <3> HIDE DEF U
      <3> QED
        BY <2>2, <3>1, SeqWiden, Zenon
    <2> HIDE DEF U
    <2>4. CASE pc[r] = "idle"
      <3>1. prelude[r] = Escalated
        BY <2>1, <2>4 DEF DemoInv, Exited
      <3>2. trail[r] = <<>>
        BY <2>4, IdleTrail DEF DemoInv, RolloutInv, GateInv, TypeInv
      <3>3. prelude[r] \o trail[r] = Escalated
        BY <2>3, <3>1, <3>2, ConcatEmptySeq, Zenon
      <3>4. Len(Escalated) = 3 /\ Escalated[3] = Escalation /\ Escalation.ok = FALSE
        BY DEF Escalated, Escalation
      <3> QED
        BY <3>3, <3>4
    <2>5. CASE pc[r] # "idle"
      <3>1. pc[r] = "halted"
        BY <2>1, <2>5 DEF DemoInv, Exited
      <3>2. trail[r] # <<>> /\ ~trail[r][Len(trail[r])].ok
        BY <3>1 DEF Told, HaltExplained
      <3>3. (prelude[r] \o trail[r])[Len(prelude[r] \o trail[r])] = trail[r][Len(trail[r])]
        BY <2>3, <3>2, LastOfBoth, Zenon
      <3> QED
        BY <3>2, <3>3, Zenon
    <2> QED
      BY <2>4, <2>5
  <1> QED
    BY DemoInvariant, ToldInvariant, <1>1, PTL

\* A run of run_patch.py whose workflow has begun and that exits with a status has
\* one row in execution_history, and the row and the status say the same
\* (run_patch.py:95-112).
THEOREM RowAsExited == DSpec => []RecordedAsExited
  <1>1. DemoInv => RecordedAsExited
    <2> SUFFICES ASSUME DemoInv, NEW r \in Runs, Patching(r),
                        exit[r] \in {"0", "1"}, trail[r] # <<>>
                 PROVE  \E e \in history :
                          /\ e.run = r
                          /\ e.outcome = "SUCCESS" <=> exit[r] = "0"
                          /\ \A f \in history : f.run = r => f = e
      BY DEF RecordedAsExited
    <2>1. main[r] = "finished" /\ program[r] = "run_patch"
      BY DEF DemoInv, MainInv, Placed, Patching
    <2>2. pc[r] # "idle"
      BY IdleTrail DEF DemoInv, RolloutInv, GateInv, TypeInv
    <2>3. /\ Row(r) \in history
          /\ exit[r] = IF pc[r] = "returned" THEN "0" ELSE "1"
      BY <2>1, <2>2 DEF DemoInv, Exited
    <2>4. Row(r).run = r /\ (Row(r).outcome = "SUCCESS" <=> exit[r] = "0")
      BY <2>3, OutcomeIs DEF Row
    <2>5. \A f \in history : f.run = r => f = Row(r)
      BY DEF DemoInv, Recorded
    <2> QED
      BY <2>3, <2>4, <2>5
  <1> QED
    BY DemoInvariant, <1>1, PTL

\* A demo that exits with 0 has come to an end of its own: no play of it is under
\* way, and it verified every host or has the reason for its halt as its last
\* entry (demo.py:275-391).
THEOREM DemoZero == DSpec => []DemoZeroMeansEnded
  <1>1. DemoInv /\ Told => DemoZeroMeansEnded
    <2> SUFFICES ASSUME DemoInv, Told, NEW r \in Runs, program[r] = "demo", exit[r] = "0"
                 PROVE  /\ play[r].state \notin Active
                        /\ trail[r] # <<>>
                        /\ \/ ~trail[r][Len(trail[r])].ok
                           \/ \A i \in DOMAIN Inventory : Inventory[i] \in verified[r]
      BY DEF DemoZeroMeansEnded
    <2>1. main[r] = "finished"
      BY DEF DemoInv, MainInv, Placed
    <2>2. pc[r] \in {"returned", "halted"}
      BY <2>1 DEF DemoInv, Exited
    <2>3. play[r].state \notin Active
      BY <2>2 DEF DemoInv, RolloutInv, GateInv, Begun
    <2>4. CASE pc[r] = "halted"
      BY <2>3, <2>4 DEF Told, HaltExplained
    <2>5. CASE pc[r] = "returned"
      <3>1. AllVerified(r) /\ Len(trail[r]) = 6
        BY <2>5 DEF Told, SuccessVerified, SucceedingInv, Succeeding, Success, TwoGood
      <3>2. trail[r] # <<>>
        BY <3>1
      <3> QED
        BY <2>3, <3>1, <3>2 DEF AllVerified
    <2> QED
      BY <2>2, <2>4, <2>5
  <1> QED
    BY DemoInvariant, ToldInvariant, <1>1, PTL

=============================================================================
