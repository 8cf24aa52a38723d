------------------------------ MODULE PatchRun ------------------------------
(***************************************************************************)
(* main() of run_patch.py: settings and registry, scan, retrieval, Patch   *)
(* Agent, then the workflow of Executor, and the operational store         *)
(* (rag/ingestion/operational_store.py) that remembers what became of it.  *)
(***************************************************************************)
EXTENDS PatchAgent

CONSTANT NoLevel \* last_patch_level is NULL

ASSUME NoLevelAssumption == NoLevel \notin DOMAIN Registry

VARIABLES
  program,  \* the program each run is a process of
  main,     \* what main() does next, or how it ended
  prelude,  \* the audit entries main() has appended itself
  exit,     \* exit status of each run, or why it has none
  rows,     \* the targets that have a row in database_state
  history,  \* the rows of execution_history: [run, target, outcome]
  level     \* last_patch_level of each target

store == <<rows, history, level>>
mvars == <<program, main, prelude, exit, store>>
whole == <<vars, agent, mvars>>

Stages == {"settings", "load", "arguments", "scan", "log_scan", "upsert", "retrieve",
           "log_retrieval", "propose", "log_escalation", "workflow"}

\* Stages of demo.py in which it calls propose_plan() and run_patch_workflow().
AtAgent == {"propose", "demo_propose"}

InWorkflow == {"workflow", "demo_workflow"}

DemoStages == {"preflight", "demo_load", "demo_scan", "transfer", "ingest", "query",
               "demo_propose", "bogus_id", "demo_workflow", "read_back", "tests"}

Done == {"finished", "crashed", "killed"}

Outcomes == {"SUCCESS", "REJECTED_AT_APPROVAL", "FAILED"}

MInit ==
  /\ Init
  /\ AInit
  /\ program = [r \in Runs |-> "none"]
  /\ main = [r \in Runs |-> "idle"]
  /\ prelude = [r \in Runs |-> <<>>]
  /\ exit = [r \in Runs |-> "running"]
  /\ rows = {}
  /\ history = {}
  /\ level = [h \in Hosts |-> NoLevel]

Advance(r, stage) == main' = [main EXCEPT ![r] = stage]

Exit(r, status) == exit' = [exit EXCEPT ![r] = status]

Note(r, event, result) ==
  prelude' = [prelude EXCEPT ![r] = Append(@, [event |-> event, ok |-> result])]

-----------------------------------------------------------------------------
\* parse_args().
Launch(r) ==
  /\ main[r] = "idle"
  /\ program' = [program EXCEPT ![r] = "run_patch"]
  /\ Advance(r, "settings")
  /\ UNCHANGED <<prelude, exit, store, vars, agent>>

\* load_settings(); a key that is missing or one too many raises, as Crash.
LoadSettings(r) ==
  /\ main[r] = "settings"
  /\ program[r] = "run_patch"
  /\ Advance(r, "load")
  /\ UNCHANGED <<program, prelude, exit, store, vars, agent>>

\* ProcedureRegistry.load() (Catalogue): all of Registry, or an exception, as
\* Crash.
Load(r) ==
  /\ main[r] = "load"
  /\ Advance(r, "arguments")
  /\ UNCHANGED <<program, prelude, exit, store, vars, agent>>

\* json.loads(args.cdbs).
ReadCdbs(r) ==
  /\ main[r] = "arguments"
  /\ Advance(r, "scan")
  /\ UNCHANGED <<program, prelude, exit, store, vars, agent>>

BadCdbs(r) ==
  /\ main[r] = "arguments"
  /\ Advance(r, "finished")
  /\ Exit(r, "2")
  /\ UNCHANGED <<program, prelude, store, vars, agent>>

Scan(r) ==
  /\ main[r] = "scan"
  /\ Advance(r, "log_scan")
  /\ UNCHANGED <<program, prelude, exit, store, vars, agent>>

\* ScanFailedError: return 1.
ScanFails(r) ==
  /\ main[r] = "scan"
  /\ Advance(r, "finished")
  /\ Exit(r, "1")
  /\ UNCHANGED <<program, prelude, store, vars, agent>>

LogScan(r) ==
  /\ main[r] = "log_scan"
  /\ Note(r, "scan", TRUE)
  /\ Advance(r, "upsert")
  /\ UNCHANGED <<program, exit, store, vars, agent>>

\* upsert_scan_result() leaves the patch level of an existing row alone.
Upsert(r) ==
  /\ main[r] = "upsert"
  /\ rows' = rows \cup {target[r]}
  /\ Advance(r, "retrieve")
  /\ UNCHANGED <<program, prelude, exit, history, level, vars, agent>>

Retrieve(r) ==
  /\ main[r] = "retrieve"
  /\ Advance(r, "log_retrieval")
  /\ UNCHANGED <<program, prelude, exit, store, vars, agent>>

LogRetrieval(r) ==
  /\ main[r] = "log_retrieval"
  /\ Note(r, "rag_retrieval", TRUE)
  /\ Advance(r, "propose")
  /\ UNCHANGED <<program, exit, store, vars, agent>>

AskAgent(r) ==
  /\ main[r] \in AtAgent
  /\ ProposePlan(r)
  /\ UNCHANGED <<mvars, vars>>

ModelServer ==
  /\ \/ \E r \in Runs : main[r] \in AtAgent /\ Answers(r)
     \/ OrphanEnds
  /\ UNCHANGED <<mvars, vars>>

Propose(r) ==
  /\ main[r] = "propose"
  /\ call[r] = "planned"
  /\ Advance(r, "workflow")
  /\ UNCHANGED <<program, prelude, exit, store, vars, agent>>

\* PatchAgentEscalationError.
Escalate(r) ==
  /\ main[r] = "propose"
  /\ call[r] = "escalated"
  /\ Advance(r, "log_escalation")
  /\ UNCHANGED <<program, prelude, exit, store, vars, agent>>

\* Any other exception of propose_plan().
AgentRaises(r) ==
  /\ main[r] \in AtAgent
  /\ call[r] = "raised"
  /\ Advance(r, "crashed")
  /\ Exit(r, "exception")
  /\ UNCHANGED <<program, prelude, store, vars, agent>>

\* Bug: the escalation is only printed.
LogEscalationNowhere(r) ==
  /\ main[r] = "log_escalation"
  /\ Advance(r, "finished")
  /\ Exit(r, "1")
  /\ UNCHANGED <<program, prelude, store, vars, agent>>

LogEscalation(r) ==
  /\ main[r] = "log_escalation"
  /\ Note(r, "validation_result", FALSE)
  /\ Advance(r, "finished")
  /\ Exit(r, "1")
  /\ UNCHANGED <<program, store, vars, agent>>

\* The workflow of r, and whatever its play does on the hosts during and after
\* it.
Workflow ==
  /\ Next
  /\ \A r \in Runs : pc'[r] # pc[r] => main[r] \in InWorkflow
  /\ UNCHANGED <<mvars, agent>>

\* "did not confirm" in str(exc), of the ExecutorHaltedError: the message for a
\* refused approval contains it, and the one for a plan that is not vetted where the
\* text it quotes from the plan does; the others quote nothing from outside.
SaysNotConfirmed(r) ==
  \/ Verdict(r) = "refused"
  \/ ~Vetted(plan[r]) /\ plan[r].phrase

\* Bug: outcome is SUCCESS until the workflow halts.
OutcomeOptimistic(r) ==
  CASE pc[r] = "halted" /\ SaysNotConfirmed(r) -> "REJECTED_AT_APPROVAL"
    [] pc[r] = "halted" -> "FAILED"
    [] OTHER -> "SUCCESS"

\* It is FAILED until the workflow returns or halts.
Outcome(r) ==
  CASE pc[r] = "returned" -> "SUCCESS"
    [] pc[r] = "halted" /\ SaysNotConfirmed(r) -> "REJECTED_AT_APPROVAL"
    [] OTHER -> "FAILED"

\* Bug: every execution moves the patch level.
RecordAlways(r) ==
  /\ main[r] = "workflow"
  /\ pc[r] \in {"returned", "halted", "raised"}
  /\ history' = history \cup {[run |-> r, target |-> target[r], outcome |-> Outcome(r)]}
  /\ level' = [level EXCEPT ![target[r]] = plan[r].procedure]
  /\ Advance(r, IF pc[r] = "raised" THEN "crashed" ELSE "finished")
  /\ Exit(r, IF pc[r] = "returned" THEN "0" ELSE IF pc[r] = "halted" THEN "1" ELSE "exception")
  /\ UNCHANGED <<program, prelude, rows, vars, agent>>

\* Bug: outcome and procedure_id are exchanged in the call.
RecordExchanged(r) ==
  /\ main[r] = "workflow"
  /\ pc[r] \in {"returned", "halted", "raised"}
  /\ history' = history \cup {[run |-> r, target |-> target[r], outcome |-> plan[r].procedure]}
  /\ level' = level
  /\ Advance(r, "finished")
  /\ Exit(r, "0")
  /\ UNCHANGED <<program, prelude, rows, vars, agent>>

\* Bug: a failure is not worth a row.
RecordSuccessOnly(r) ==
  /\ main[r] = "workflow"
  /\ pc[r] \in {"returned", "halted", "raised"}
  /\ history' = IF pc[r] = "returned"
       THEN history \cup {[run |-> r, target |-> target[r], outcome |-> Outcome(r)]}
       ELSE history
  /\ level' = IF Outcome(r) = "SUCCESS"
                THEN [level EXCEPT ![target[r]] = plan[r].procedure] ELSE level
  /\ Advance(r, IF pc[r] = "raised" THEN "crashed" ELSE "finished")
  /\ Exit(r, IF pc[r] = "returned" THEN "0" ELSE IF pc[r] = "halted" THEN "1" ELSE "exception")
  /\ UNCHANGED <<program, prelude, rows, vars, agent>>

\* record_execution() in the finally, one transaction; then main() returns, or
\* the exception goes on.
Record(r) ==
  /\ main[r] = "workflow"
  /\ pc[r] \in {"returned", "halted", "raised"}
  /\ history' = history \cup {[run |-> r, target |-> target[r], outcome |-> Outcome(r)]}
  /\ level' = IF Outcome(r) = "SUCCESS"
                THEN [level EXCEPT ![target[r]] = plan[r].procedure] ELSE level
  /\ Advance(r, IF pc[r] = "raised" THEN "crashed" ELSE "finished")
  /\ Exit(r, IF pc[r] = "returned" THEN "0" ELSE IF pc[r] = "halted" THEN "1" ELSE "exception")
  /\ UNCHANGED <<program, prelude, rows, vars, agent>>

\* Bug: the exception of the finally is lost to the return in the try.
RecordFailsSilently(r) ==
  /\ main[r] = "workflow"
  /\ pc[r] \in {"returned", "halted", "raised"}
  /\ Advance(r, IF pc[r] = "returned" THEN "finished" ELSE "crashed")
  /\ Exit(r, IF pc[r] = "returned" THEN "0" ELSE "exception")
  /\ UNCHANGED <<program, prelude, store, vars, agent>>

\* Postgres does not answer: the exception replaces the exit status.
RecordFails(r) ==
  /\ main[r] = "workflow"
  /\ pc[r] \in {"returned", "halted", "raised"}
  /\ Advance(r, "crashed")
  /\ Exit(r, "exception")
  /\ UNCHANGED <<program, prelude, store, vars, agent>>

\* Any other exception outside the workflow: settings or registry that do not
\* load, a full disk, Qdrant or Postgres down, Ctrl-C.
Crash(r) ==
  /\ main[r] \notin {"idle"} \cup InWorkflow \cup Done
  /\ Advance(r, "crashed")
  /\ Exit(r, "exception")
  /\ Abandon(r)
  /\ UNCHANGED <<program, prelude, store, vars>>

\* SIGKILL, outside the workflow or, there, as Kill of Executor.
Die(r) ==
  /\ main[r] \notin {"idle"} \cup Done
  /\ main[r] \in InWorkflow => pc[r] \in Ended
  /\ Advance(r, "killed")
  /\ Exit(r, "killed")
  /\ Abandon(r)
  /\ UNCHANGED <<program, prelude, store, vars>>

MProceed(r) ==
  \/ LoadSettings(r) \/ Load(r) \/ ReadCdbs(r) \/ BadCdbs(r)
  \/ Scan(r) \/ ScanFails(r) \/ LogScan(r)
  \/ Retrieve(r) \/ LogRetrieval(r)
  \/ AskAgent(r) \/ Propose(r) \/ Escalate(r) \/ AgentRaises(r) \/ LogEscalation(r)

\* Postgres answers, or refuses: _connect() sets no timeout.
Postgres(r) == Upsert(r) \/ Record(r) \/ RecordFails(r)

MNext ==
  \/ \E r \in Runs : Launch(r) \/ MProceed(r) \/ Postgres(r) \/ Crash(r) \/ Die(r)
  \/ Workflow
  \/ ModelServer

\* A program that can go on does; the model server and Postgres may hang.
MFairness ==
  \A r \in Runs :
    /\ WF_whole(MProceed(r))
    /\ WF_whole(Workflow /\ (Enter(r) \/ Proceed(r)))

-----------------------------------------------------------------------------
\* Of a run of run_patch.py.
Patching(r) == program[r] = "run_patch"

MTypeOK ==
  /\ TypeOK
  /\ AgentTypeOK
  /\ program \in [Runs -> {"none", "run_patch", "demo"}]
  /\ main \in [Runs -> {"idle"} \cup Stages \cup DemoStages \cup Done]
  /\ prelude \in [Runs -> Seq([event : {"scan", "rag_retrieval", "validation_result"},
                               ok : BOOLEAN])]
  /\ exit \in [Runs -> {"running", "0", "1", "2", "exception", "killed"}]
  /\ rows \in SUBSET Hosts
  /\ history \in SUBSET [run : Runs, target : Hosts, outcome : Outcomes]
  /\ level \in [Hosts -> DOMAIN Registry \cup {NoLevel}]

\* What a later reader may conclude from execution_history, although the outcome of a
\* halt is read off the wording of the exception (run_patch.py:95-111): SUCCESS means
\* that every host was verified; REJECTED_AT_APPROVAL that the run has touched none
\* and, whatever is still running, never will, and that it was stopped by the human or
\* by a registry that does not have the plan.
OutcomeTruth ==
  \A e \in history :
    /\ e.outcome = "SUCCESS" =>
         \A i \in DOMAIN Inventory : Inventory[i] \in verified[e.run]
    /\ e.outcome = "REJECTED_AT_APPROVAL" =>
         /\ touched[e.run] = {}
         /\ Verdict(e.run) = "refused" \/ ~InRegistry(plan[e.run])

\* REJECTED_AT_APPROVAL means what it says (postgres_schema.sql:27): a human was asked
\* and did not confirm.  It does not: a halt at vetting may quote a target_version that
\* contains the words.
RejectedByHuman ==
  \A e \in history : e.outcome = "REJECTED_AT_APPROVAL" => Verdict(e.run) = "refused"

\* last_patch_level of a target, when it has one, is the procedure of a recorded
\* success on that target; and every record refers to a row of database_state.
LevelJustified ==
  /\ \A h \in Hosts : level[h] # NoLevel =>
       \E e \in history : e.outcome = "SUCCESS" /\ e.target = h
                          /\ plan[e.run].procedure = level[h] /\ h \in verified[e.run]
  /\ \A e \in history : e.target \in rows

\* Exit status 0 of run_patch.py means patched and remembered: every host verified, the success
\* in the history, and both audit trails complete.
ExitZeroMeansDone ==
  \A r \in Runs : Patching(r) /\ exit[r] = "0" =>
    /\ \A i \in DOMAIN Inventory : Inventory[i] \in verified[r]
    /\ [run |-> r, target |-> target[r], outcome |-> "SUCCESS"] \in history
    /\ prelude[r] = <<Good("scan"), Good("rag_retrieval")>>
    /\ trail[r][Len(trail[r])] = Good("validation_result")

\* A run that ends with exit status 1 after its scan, the Patch Agent's escalation
\* or one of the workflow's halts, has said why in the last audit entry it wrote
\* (run_patch.py:82-85, executor.py:38-44).
ExitOneExplained ==
  \A r \in Runs : Patching(r) /\ exit[r] = "1" /\ prelude[r] # <<>> =>
    LET entries == prelude[r] \o trail[r]
    IN  ~entries[Len(entries)].ok

\* Every run whose workflow has begun and that exits with a status has one row in
\* execution_history, and the row and the status say the same
\* (run_patch.py:95-112).
RecordedAsExited ==
  \A r \in Runs : Patching(r) /\ exit[r] \in {"0", "1"} /\ trail[r] # <<>> =>
    \E e \in history :
      /\ e.run = r
      /\ e.outcome = "SUCCESS" <=> exit[r] = "0"
      /\ \A f \in history : f.run = r => f = e

\* Run r waits for Postgres, with its scan or its outcome to record.
AtPostgres(r) ==
  main[r] = "upsert" \/ (main[r] = "workflow" /\ pc[r] \in {"returned", "halted", "raised"})

\* Whatever the hosts and the model server do, a run that was launched comes to an
\* end or waits for the human or for Postgres, and for nothing else
\* (patch_agent.py:110-115, executor.py:53).
MSettles ==
  \A r \in Runs :
    main[r] # "idle" ~> main[r] \in Done \/ AtPostgres(r) \/ pc[r] \in {"confirm", "killed"}

=============================================================================
