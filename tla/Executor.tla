------------------------------ MODULE Executor ------------------------------
(***************************************************************************)
(* run_patch_workflow(), executor/executor.py, with the commands it runs   *)
(* (executor/ansible_runner.py, executor/rollback/snapshot.py) and the     *)
(* human it asks (approval/report_builder.py).  Each run is one call, one  *)
(* process; several may be under way at a time, nothing in the code        *)
(* excludes it.                                                            *)
(*                                                                         *)
(* A run's program counter names what it does next.  The playbooks are     *)
(* seen from the control node: a play that takes the hosts of the          *)
(* inventory one at a time, and on each host the precheck and confirm      *)
(* gate, a change command that runs on the host itself, and the            *)
(* postcheck.  The change command outlives the ansible-playbook process    *)
(* that started it.                                                        *)
(***************************************************************************)
EXTENDS Versions

CONSTANTS
  Runs,        \* calls of run_patch_workflow()
  Hosts,
  Inventory,   \* the group oracle_db_hosts of the inventory file, in order
  Registry,    \* procedure id -> supported versions [min, max]
  Plans,       \* plans a run may be given [procedure, target, version, phrase]
  PatchId,     \* the role's patch_id, from the inventory
  NoPatchId,   \* the role's default, ""
  IdLength,    \* procedure id -> characters in it
  Stamps       \* times of day as strings of 14 digits

ASSUME InventoryAssumption ==
  /\ Inventory \in Seq(Hosts)
  /\ Len(Inventory) >= 1
  /\ \A i, j \in DOMAIN Inventory : Inventory[i] = Inventory[j] => i = j
ASSUME RegistryAssumption ==
  \A id \in DOMAIN Registry : Registry[id] \in [min : Version, max : Version]

\* phrase: the text in the plan that a halt at vetting quotes, an unknown id or a
\* target_version, contains "did not confirm".  A version that parses does not, nor
\* does an id of the registry.
ASSUME PlansAssumption ==
  \A p \in Plans : /\ DOMAIN p = {"procedure", "target", "version", "phrase"}
                   /\ p.target \in Hosts /\ p.version \in Version
                   /\ p.phrase \in BOOLEAN
                   /\ p.phrase => p.procedure \notin DOMAIN Registry \/ p.version = Unparsable

ASSUME NameAssumption ==
  /\ IdLength \in [DOMAIN Registry -> Nat]
  /\ Stamps \subseteq {stamp \in Seq(0 .. 9) : Len(stamp) = 14}

VARIABLES
  pc,        \* what each run does next, or how it ended
  plan,      \* the plan each run was given
  target,    \* ctx.target_host of each run
  trail,     \* the audit entries each run has appended: [event, ok]
  ok,        \* .ok of the last command, or decision.approved
  point,     \* the restore point name each run reports
  play,      \* the apply play of each run: [state, at]
  remote,    \* the runs whose change command is running on each host
  touched,   \* the hosts on which each run has started a change command
  verified,  \* the hosts whose postcheck has passed, for each run
  db,        \* the databases of each host: unpatched, partial or patched
  points     \* the restore points of each host: [name, by]

control == <<pc, plan, target, trail, ok, point>>
world   == <<play, remote, touched, verified, db, points>>
vars    == <<control, world>>

-----------------------------------------------------------------------------
Working == {"recommend", "vet", "precheck", "log_dry_run", "snapshot",
            "log_snapshot", "confirm", "log_decision", "apply", "applying",
            "log_apply", "rollback_info", "log_failure", "log_success"}

\* returned normally; ExecutorHaltedError; another exception; SIGKILL.
Ended == {"returned", "halted", "raised", "killed"}

Active == {"gate", "change", "verify"}

PlayStates == Active \cup {"none", "passed", "failed", "killed"}

DbStates == {"unpatched", "partial", "patched"}

Idle == [state |-> "none", at |-> 1]

\* restore_point_name(): "PREPATCH_", the first 20 characters of the id, "_" and
\* the stamp, all cut to 32 characters.  The ids differ in their first 20.
StampDigits(id) == 32 - 10 - (IF IdLength[id] > 20 THEN 20 ELSE IdLength[id])

RestorePointName(id, stamp) ==
  <<id, SubSeq(stamp, 1, IF StampDigits(id) > 14 THEN 14 ELSE StampDigits(id))>>

Init ==
  /\ pc = [r \in Runs |-> "idle"]
  /\ plan \in [Runs -> Plans]
  /\ target \in [Runs -> Hosts]
  /\ trail = [r \in Runs |-> <<>>]
  /\ ok = [r \in Runs |-> FALSE]
  /\ point = [r \in Runs |-> <<>>]
  /\ play = [r \in Runs |-> Idle]
  /\ remote = [h \in Hosts |-> {}]
  /\ touched = [r \in Runs |-> {}]
  /\ verified = [r \in Runs |-> {}]
  /\ db = [h \in Hosts |-> "unpatched"]
  /\ points = [h \in Hosts |-> {}]

Goto(r, next) == pc' = [pc EXCEPT ![r] = next]

Log(r, event, result) ==
  trail' = [trail EXCEPT ![r] = Append(@, [event |-> event, ok |-> result])]

Result(r, result) == ok' = [ok EXCEPT ![r] = result]

\* A command's or the human's answer is appended to the log; the run goes on
\* when it is good and halts when it is not.
LogResult(r, event, next) ==
  /\ Log(r, event, ok[r])
  /\ Goto(r, IF ok[r] THEN next ELSE "halted")
  /\ UNCHANGED <<plan, target, ok, point, world>>

-----------------------------------------------------------------------------
(* Before the gate *)

Enter(r) ==
  /\ pc[r] = "idle"
  /\ Goto(r, "recommend")
  /\ UNCHANGED <<plan, target, trail, ok, point, world>>

Recommend(r) ==
  /\ pc[r] = "recommend"
  /\ Log(r, "recommendation", TRUE)
  /\ Goto(r, "vet")
  /\ UNCHANGED <<plan, target, ok, point, world>>

Known(p) == p.procedure \in DOMAIN Registry

Supported(p) ==
  InRange(p.version, Registry[p.procedure].min, Registry[p.procedure].max)

Vetted(p) == Known(p) /\ Supported(p)

Vet(r) ==
  /\ pc[r] = "vet"
  /\ Vetted(plan[r])
  /\ Goto(r, "precheck")
  /\ UNCHANGED <<plan, target, trail, ok, point, world>>

\* Bug: the exception is raised before the audit entry is written.
RejectSilently(r) ==
  /\ pc[r] = "vet"
  /\ ~Vetted(plan[r])
  /\ Goto(r, "halted")
  /\ UNCHANGED <<plan, target, trail, ok, point, world>>

\* UnknownProcedureError, a version that does not parse, or one out of range.
Reject(r) ==
  /\ pc[r] = "vet"
  /\ ~Vetted(plan[r])
  /\ Log(r, "validation_result", FALSE)
  /\ Goto(r, "halted")
  /\ UNCHANGED <<plan, target, ok, point, world>>

\* run_precheck(): the role refuses to start without a patch_id; a timeout is a
\* result like any other that is not ok.
Precheck(r) ==
  /\ pc[r] = "precheck"
  /\ \E result \in BOOLEAN :
       /\ result => PatchId # NoPatchId
       /\ Result(r, result)
  /\ Goto(r, "log_dry_run")
  /\ UNCHANGED <<plan, target, trail, point, world>>

LogDryRun(r) == pc[r] = "log_dry_run" /\ LogResult(r, "dry_run_result", "snapshot")

\* create_guaranteed_restore_point(): sqlplus exits 0 whether or not the CREATE
\* succeeded, and a command that timed out may have done its work.  Oracle
\* refuses a name that exists.
Snapshot(r) ==
  /\ pc[r] = "snapshot"
  /\ \E stamp \in Stamps, result, created \in BOOLEAN :
       LET name == RestorePointName(plan[r].procedure, stamp)
       IN  /\ created => \A p \in points[target[r]] : p.name # name
           /\ point' = [point EXCEPT ![r] = name]
           /\ points' = [points EXCEPT ![target[r]] =
                @ \cup (IF created THEN {[name |-> name, by |-> r]} ELSE {})]
           /\ Result(r, result)
  /\ Goto(r, "log_snapshot")
  /\ UNCHANGED <<plan, target, trail,
                 play, remote, touched, verified, db>>

\* Bug: snapshot.ok is not looked at.
LogSnapshotAnyway(r) ==
  /\ pc[r] = "log_snapshot"
  /\ Log(r, "snapshot", ok[r])
  /\ Goto(r, "confirm")
  /\ UNCHANGED <<plan, target, ok, point, world>>

LogSnapshot(r) == pc[r] = "log_snapshot" /\ LogResult(r, "snapshot", "confirm")

(* The gate *)

\* request_confirmation(): the human types the plan's target_version, or not.
Confirm(r) ==
  /\ pc[r] = "confirm"
  /\ \E approved \in BOOLEAN : Result(r, approved)
  /\ Goto(r, "log_decision")
  /\ UNCHANGED <<plan, target, trail, point, world>>

LogDecision(r) == pc[r] = "log_decision" /\ LogResult(r, "approval_decision", "apply")

-----------------------------------------------------------------------------
(* The apply play *)

Apply(r) ==
  /\ pc[r] = "apply"
  /\ play' = [play EXCEPT ![r] = [state |-> "gate", at |-> 1]]
  /\ Goto(r, "applying")
  /\ UNCHANGED <<plan, target, trail, ok, point,
                 remote, touched, verified, db, points>>

Current(r) == Inventory[play[r].at]

Turn(r, state) == play' = [play EXCEPT ![r].state = state]

\* Bug: without any_errors_fatal the next host gets its turn.
HostFailsAlone(r) ==
  /\ play[r].state \in {"gate", "verify"}
  /\ play' = [play EXCEPT ![r] =
       IF play[r].at = Len(Inventory)
         THEN [state |-> "failed", at |-> play[r].at]
         ELSE [state |-> "gate", at |-> play[r].at + 1]]
  /\ UNCHANGED <<control, remote, touched, verified, db, points>>

\* Precheck, backup gate, conflict analysis, confirm gate or postcheck fails, or
\* the host does not answer: any_errors_fatal ends the play.
HostFails(r) ==
  /\ play[r].state \in {"gate", "verify"}
  /\ Turn(r, "failed")
  /\ UNCHANGED <<control, remote, touched, verified, db, points>>

\* run_apply() passes plan["procedure_id"] as the confirm value; the role
\* compares it with patch_id.
ConfirmValue(r) == plan[r].procedure

HostApply(r) ==
  /\ play[r].state = "gate"
  /\ ConfirmValue(r) = PatchId
  /\ Turn(r, "change")
  /\ remote' = [remote EXCEPT ![Current(r)] = @ \cup {r}]
  /\ touched' = [touched EXCEPT ![r] = @ \cup {Current(r)}]
  /\ UNCHANGED <<control, verified, db, points>>

Effects == {"none", "half", "full"}

After(state, effect) ==
  CASE effect = "full" -> "patched"
    [] effect = "half" -> "partial"
    [] OTHER -> state

\* The stop / apply / start / datapatch commands end on the host; the play sees
\* it if it is still there, unless the connection is lost first.
RemoteEnd(r, h) ==
  /\ r \in remote[h]
  /\ remote' = [remote EXCEPT ![h] = @ \ {r}]
  /\ \E effect \in Effects, success \in BOOLEAN :
       /\ success => effect = "full"
       /\ db' = [db EXCEPT ![h] = After(@, effect)]
       /\ IF play[r].state = "change" /\ Current(r) = h
            THEN Turn(r, IF success THEN "verify" ELSE "failed")
            ELSE UNCHANGED play
  /\ UNCHANGED <<control, touched, verified, points>>

\* postcheck.yml passes; serial: 1 takes the next host of the inventory.
HostPass(r) ==
  /\ play[r].state = "verify"
  /\ verified' = [verified EXCEPT ![r] = @ \cup {Current(r)}]
  /\ play' = [play EXCEPT ![r] =
       IF play[r].at = Len(Inventory)
         THEN [state |-> "passed", at |-> play[r].at]
         ELSE [state |-> "gate", at |-> play[r].at + 1]]
  /\ UNCHANGED <<control, remote, touched, db, points>>

\* Bug: the return code is not looked at.
PlayEndGood(r) ==
  /\ pc[r] = "applying"
  /\ play[r].state \in {"passed", "failed"}
  /\ Result(r, TRUE)
  /\ Goto(r, "log_apply")
  /\ UNCHANGED <<plan, target, trail, point, world>>

\* ansible-playbook exits and run_apply() returns.
PlayEnd(r) ==
  /\ pc[r] = "applying"
  /\ play[r].state \in {"passed", "failed"}
  /\ Result(r, play[r].state = "passed")
  /\ Goto(r, "log_apply")
  /\ UNCHANGED <<plan, target, trail, point, world>>

\* Bug: only the connection has a timeout, not the whole command.
TimeoutAtGate(r) ==
  /\ pc[r] = "applying"
  /\ play[r].state = "gate"
  /\ Turn(r, "killed")
  /\ Result(r, FALSE)
  /\ Goto(r, "log_apply")
  /\ UNCHANGED <<plan, target, trail, point,
                 remote, touched, verified, db, points>>

\* Bug: the run gives up waiting without killing ansible-playbook.
TimeoutWithoutKill(r) ==
  /\ pc[r] = "applying"
  /\ play[r].state \in Active
  /\ Result(r, FALSE)
  /\ Goto(r, "log_apply")
  /\ UNCHANGED <<plan, target, trail, point, world>>

\* subprocess.TimeoutExpired: ansible-playbook is killed, what it started on the
\* host is not.
Timeout(r) ==
  /\ pc[r] = "applying"
  /\ play[r].state \in Active
  /\ Turn(r, "killed")
  /\ Result(r, FALSE)
  /\ Goto(r, "log_apply")
  /\ UNCHANGED <<plan, target, trail, point,
                 remote, touched, verified, db, points>>

-----------------------------------------------------------------------------
(* After it *)

LogApply(r) ==
  /\ pc[r] = "log_apply"
  /\ Log(r, "execution_output", ok[r])
  /\ Goto(r, IF ok[r] THEN "log_success" ELSE "rollback_info")
  /\ UNCHANGED <<plan, target, ok, point, world>>

RollbackInfo(r) ==
  /\ pc[r] = "rollback_info"
  /\ Goto(r, "log_failure")
  /\ UNCHANGED <<plan, target, trail, ok, point, world>>

LogFailure(r) ==
  /\ pc[r] = "log_failure"
  /\ Log(r, "validation_result", FALSE)
  /\ Goto(r, "halted")
  /\ UNCHANGED <<plan, target, ok, point, world>>

LogSuccess(r) ==
  /\ pc[r] = "log_success"
  /\ Log(r, "validation_result", TRUE)
  /\ Goto(r, "returned")
  /\ UNCHANGED <<plan, target, ok, point, world>>

(* Exceptions and crashes, at any time *)

\* audit.append() raises, the operator types Ctrl-C, ansible is not installed:
\* an exception that is not ExecutorHaltedError.  subprocess.run() kills its
\* child on the way.
Abort(r) ==
  /\ pc[r] \in Working
  /\ Goto(r, "raised")
  /\ IF play[r].state \in Active THEN Turn(r, "killed") ELSE UNCHANGED play
  /\ UNCHANGED <<plan, target, trail, ok, point,
                 remote, touched, verified, db, points>>

\* SIGKILL of the run: ansible-playbook is left to itself.
Kill(r) ==
  /\ pc[r] \in Working
  /\ Goto(r, "killed")
  /\ UNCHANGED <<plan, target, trail, ok, point, world>>

\* The play nobody waits for dies (its output has no reader any more).
PlayDies(r) ==
  /\ pc[r] = "killed"
  /\ play[r].state \in Active
  /\ Turn(r, "killed")
  /\ UNCHANGED <<control, remote, touched, verified, db, points>>

-----------------------------------------------------------------------------
\* What the run itself does, without waiting for a human or for a host.
Proceed(r) ==
  \/ Recommend(r) \/ Vet(r) \/ Reject(r)
  \/ Precheck(r) \/ LogDryRun(r)
  \/ Snapshot(r) \/ LogSnapshot(r)
  \/ LogDecision(r)
  \/ Apply(r) \/ PlayEnd(r) \/ Timeout(r)
  \/ LogApply(r) \/ RollbackInfo(r) \/ LogFailure(r) \/ LogSuccess(r)

Next ==
  \E r \in Runs :
    \/ Enter(r)
    \/ Proceed(r)
    \/ Confirm(r)
    \/ HostFails(r) \/ HostApply(r) \/ HostPass(r)
    \/ \E h \in Hosts : RemoteEnd(r, h)
    \/ Abort(r) \/ Kill(r) \/ PlayDies(r)

Spec == Init /\ [][Next]_vars

\* A run that can go on does, and every command it waits for has a timeout; the
\* human may never answer and a host may hang for ever.
FairSpec == Spec /\ \A r \in Runs : WF_vars(Proceed(r))

-----------------------------------------------------------------------------
Names == (DOMAIN Registry) \X Seq(0 .. 9)

Event == {"recommendation", "dry_run_result", "snapshot", "approval_decision",
          "execution_output", "validation_result"}

TypeOK ==
  /\ pc \in [Runs -> {"idle"} \cup Working \cup Ended]
  /\ plan \in [Runs -> Plans]
  /\ target \in [Runs -> Hosts]
  /\ trail \in [Runs -> Seq([event : Event, ok : BOOLEAN])]
  /\ ok \in [Runs -> BOOLEAN]
  /\ point \in [Runs -> Names \cup {<<>>}]
  /\ play \in [Runs -> [state : PlayStates, at : DOMAIN Inventory]]
  /\ remote \in [Hosts -> SUBSET Runs]
  /\ touched \in [Runs -> SUBSET Hosts]
  /\ verified \in [Runs -> SUBSET Hosts]
  /\ db \in [Hosts -> DbStates]
  /\ points \in [Hosts -> SUBSET [name : Names, by : Runs]]

Good(event) == [event |-> event, ok |-> TRUE]

GateEntries == <<Good("recommendation"), Good("dry_run_result"),
                 Good("snapshot"), Good("approval_decision")>>

\* "The LLM never has execution authority" (executor/executor.py:10): no change
\* command has been started for a run, by its process or by a play that outlived
\* it, unless the audit log already holds a recommendation, a good dry run, a
\* restore point and an approval, in this order, for a plan the registry vouches
\* for.
GatedChange ==
  \A r \in Runs : touched[r] # {} =>
    /\ Len(trail[r]) >= 4
    /\ \A i \in 1 .. 4 : trail[r][i] = GateEntries[i]
    /\ Vetted(plan[r])

\* ExecutorHaltedError says "already logged" (executor/executor.py:38-44): the
\* last entry of a run that halted is the failure it halted for.
HaltExplained ==
  \A r \in Runs : pc[r] = "halted" =>
    /\ trail[r] # <<>>
    /\ ~trail[r][Len(trail[r])].ok

OnRecord(r, event) == \E i \in DOMAIN trail[r] : trail[r][i].event = event

\* A procedure of the registry and versions that parse, the plan's between the two
\* ends in Python's order, both included.
InRegistry(p) ==
  /\ p.procedure \in DOMAIN Registry
  /\ LET range == Registry[p.procedure]
     IN  /\ Unparsable \notin {p.version, range.min, range.max}
         /\ PythonLeq[<<range.min, p.version>>]
         /\ PythonLeq[<<p.version, range.max>>]

\* The audit trail never says of a plan what the registry denies: no host is
\* prechecked for a plan outside it, and no plan inside it is on record as
\* invalid without a precheck, versions at the two ends of a range and of other
\* lengths included (executor/executor.py:80-101).
TrailAgreesWithRegistry ==
  \A r \in Runs :
    /\ OnRecord(r, "dry_run_result") => InRegistry(plan[r])
    /\ OnRecord(r, "validation_result") /\ ~OnRecord(r, "dry_run_result")
         => ~InRegistry(plan[r])

\* A run that returns normally has changed and verified every host of the
\* inventory, and the log says so without a failure.
SuccessComplete ==
  \A r \in Runs : pc[r] = "returned" =>
    /\ \A i \in DOMAIN Inventory :
         Inventory[i] \in verified[r] /\ db[Inventory[i]] = "patched"
    /\ trail[r] = GateEntries \o <<Good("execution_output"), Good("validation_result")>>

\* Once the workflow is over, for whatever reason but SIGKILL, no further host is
\* touched: the play it was waiting for is over too (ansible_runner.py:59-69).
NothingStartsAfterEnd ==
  [][\A r \in Runs :
       pc[r] \in {"halted", "returned", "raised"} => touched'[r] = touched[r]]_vars

\* With a timeout on every command (executor.py:53), a run that is not waiting for
\* the human always comes to the gate or to an end, whatever the hosts do.
Settles ==
  \A r \in Runs :
    pc[r] \in Working \ {"confirm"} ~> pc[r] \in Ended \cup {"confirm"}

Verdict(r) ==
  IF Len(trail[r]) < 4 THEN "none"
  ELSE IF trail[r][4].ok THEN "approved" ELSE "refused"

Promise == INSTANCE GatedRollout WITH verdict <- [r \in Runs |-> Verdict(r)]

\* The workflow and its plays implement GatedRollout: approval first, then the
\* hosts in order, each verified before the next.
ImplementsGatedRollout == Promise!Spec

-----------------------------------------------------------------------------
(* What the source says and the code does not do *)

\* The confirm variable "must equal procedure's patch_id exactly"
\* (registry/procedures/schema.py:54-55).
ConfirmIsPatchId ==
  \A r \in Runs : pc[r] = "applying" => ConfirmValue(r) = PatchId

\* --target is the host "to scan and (if approved) patch" (run_patch.py:44).
OnlyTargetTouched == \A r \in Runs : touched[r] \subseteq {target[r]}

\* The human is told "restore point ... created" (executor/executor.py:136).
ReportedPointCreated ==
  \A r \in Runs : pc[r] = "confirm" =>
    [name |-> point[r], by |-> r] \in points[target[r]]

=============================================================================
