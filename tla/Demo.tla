-------------------------------- MODULE Demo --------------------------------
(***************************************************************************)
(* main() of demo.py --auto: the second program that calls the Patch Agent *)
(* and run_patch_workflow().  It keeps no record in the operational store, *)
(* appends no audit entry of its own, and goes on after a halt.  What its  *)
(* transfer, ingestion and query do is in Knowledge.  (Without --auto it   *)
(* waits for Enter between two steps.)                                     *)
(***************************************************************************)
EXTENDS PatchRun

Checks == {"vm", "qdrant", "model_server", "postgres"}

Fatal == Checks \ {"postgres"}

LaunchDemo(r) ==
  /\ main[r] = "idle"
  /\ program' = [program EXCEPT ![r] = "demo"]
  /\ Advance(r, "settings")
  /\ UNCHANGED <<prelude, exit, store, vars, agent>>

\* From one step of main() to the next.
Step(r, from, to) ==
  /\ program[r] = "demo"
  /\ main[r] = from
  /\ Advance(r, to)
  /\ UNCHANGED <<program, prelude, exit, store, vars, agent>>

\* return status.
ReturnFrom(r, from, status) ==
  /\ program[r] = "demo"
  /\ main[r] = from
  /\ Advance(r, "finished")
  /\ Exit(r, status)
  /\ UNCHANGED <<program, prelude, store, vars, agent>>

DemoSettings(r) == Step(r, "settings", "preflight")

\* run_preflight(): only Postgres may fail, or be skipped.
Preflight(r) ==
  \E failed \in SUBSET Checks :
    IF failed \cap Fatal = {} THEN Step(r, "preflight", "demo_load")
    ELSE ReturnFrom(r, "preflight", "1")

DemoLoad(r) == Step(r, "demo_load", "demo_scan")

DemoScan(r) == Step(r, "demo_scan", "transfer") \/ ReturnFrom(r, "demo_scan", "1")

DemoTransfer(r) == Step(r, "transfer", "ingest")

DemoIngest(r) == Step(r, "ingest", "query")

DemoQuery(r) == Step(r, "query", "demo_propose")

DemoPropose(r) == call[r] = "planned" /\ Step(r, "demo_propose", "bogus_id")

\* The escalation is printed.
DemoEscalate(r) == call[r] = "escalated" /\ ReturnFrom(r, "demo_propose", "1")

\* registry.get() of an id that is not on the list; whether it raises or not, the
\* walk-through goes on.
BogusId(r) == Step(r, "bogus_id", "demo_workflow")

\* Bug: any exception of the workflow is reported as a halt.
WorkflowCaught(r) ==
  /\ pc[r] \in {"returned", "halted", "raised"}
  /\ Step(r, "demo_workflow", "read_back")

\* Returned, or ExecutorHaltedError, which is printed.
WorkflowOver(r) ==
  /\ pc[r] \in {"returned", "halted"}
  /\ Step(r, "demo_workflow", "read_back")

WorkflowRaised(r) ==
  /\ main[r] = "demo_workflow"
  /\ pc[r] = "raised"
  /\ Advance(r, "crashed")
  /\ Exit(r, "exception")
  /\ UNCHANGED <<program, prelude, store, vars, agent>>

\* read_all(), verify_chain(), and both on a copy with its first line rewritten.
ReadBack(r) == Step(r, "read_back", "tests")

\* pytest, whose verdict is only printed.
Tests(r) == ReturnFrom(r, "tests", "0")

DemoProceed(r) ==
  \/ DemoSettings(r) \/ Preflight(r) \/ DemoLoad(r) \/ DemoScan(r)
  \/ DemoTransfer(r) \/ DemoIngest(r) \/ DemoQuery(r)
  \/ DemoPropose(r) \/ DemoEscalate(r) \/ BogusId(r)
  \/ WorkflowOver(r) \/ WorkflowRaised(r) \/ ReadBack(r) \/ Tests(r)

DNext == MNext \/ \E r \in Runs : LaunchDemo(r) \/ DemoProceed(r)

DSpec == MInit /\ [][DNext]_whole

DFairSpec ==
  /\ DSpec
  /\ MFairness
  /\ \A r \in Runs : WF_whole(DemoProceed(r))

-----------------------------------------------------------------------------
\* Exit status 0 of a demo means that the Executor came to an end of its own: it
\* completed, or halted with the reason as its last entry ("never a silent
\* guess", demo.py:26-27), so that no play of it is under way any more.
DemoZeroMeansEnded ==
  \A r \in Runs : program[r] = "demo" /\ exit[r] = "0" =>
    /\ play[r].state \notin Active
    /\ trail[r] # <<>>
    /\ ~trail[r][Len(trail[r])].ok \/ \A i \in DOMAIN Inventory : Inventory[i] \in verified[r]

=============================================================================
