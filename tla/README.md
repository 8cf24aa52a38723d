# OraclePatching in TLA+

A verification development for this repository: TLA+ modules translated from its source,
TLC configurations that model-check them on small instances, and theorems that the TLA+
proof system checks for every value of the constants. Paths are relative to the repository;
`Patching_Agentic/` is the Python agent, `ansible/` the playbooks it runs.

## 1. The system

An operator starts `run_patch.py --target H`. It scans the host, retrieves knowledge, asks a
language model for a plan, and hands the plan to the Executor. The Executor vets the plan
against the procedure registry, does a dry run, creates a restore point, asks a human, and only
then runs the Ansible apply playbook. Every step goes to a hash-chained audit log, the outcome
to a small Postgres store. `demo.py` walks through the same pipeline, with a transfer and an ingestion of its own,
and goes on after a halt. A script looks for new advisories in Oracle's feed.

    operator -> run_patch.main -> Scanner (ansible-playbook over ssh)
                               -> operational store (Postgres)
                               -> retrieve (Qdrant) <- ingest <- DMZ inbox <- staging
                               -> Patch Agent (Ollama) -> registry lookup
                               -> run_patch_workflow -> registry, runner, snapshot, human
                                                     -> audit log (flock, fsync)
                                                     -> apply play -> role on each host in turn
    curator -> staging -> transfer -> inbox -> ingest -> collection -> retrieve
    operator -> demo.main -> preflight, transfer, ingest, and all of the above but the store
    operator -> release monitor -> Oracle's feed, state file

| component | source | state | operations | interacts with | correct when |
|---|---|---|---|---|---|
| Executor workflow | `executor/executor.py` | `RunContext`, position in the function | `run_patch_workflow` | registry, runner, snapshot, human, audit log | no change before every gate has been passed and logged; a halt is explained; success is complete |
| Playbook runner | `executor/ansible_runner.py` | a child process | `run_precheck`, `run_apply`, `run_rollback_info`, timeout | `ansible-playbook` | a run never waits for ever; a play does not outlive the wait for it |
| Restore point | `executor/rollback/snapshot.py` | restore points of the host | `create_guaranteed_restore_point` | sqlplus over ssh | the reported point exists and has a name of its own |
| Approval gate | `approval/report_builder.py` | - | `build_report`, `request_confirmation` | stdin | approval only by the typed version |
| Audit log | `audit/logger.py` | JSON-lines file, flock | `append`, `read_all`, `verify_chain` | every agent process | one chain whatever interleaves or dies; what was acknowledged stays |
| `run_patch.py` | `run_patch.py` | outcome, exit status | `main` | all of them | the outcome recorded is the outcome there was |
| Operational store | `rag/ingestion/operational_store.py` | `database_state`, `execution_history` | `upsert_scan_result`, `record_execution` | Postgres | patch level and history agree |
| Procedure registry | `registry/procedures/` | procedures in memory | `load`, `get` | YAML files | an id names one validated procedure |
| Patch Agent | `agents/patch/patch_agent.py` | - | `propose_plan` with bounded retries | Ollama and its one request slot, registry | a plan names a registered procedure, or the run escalates, in bounded time |
| Scanner | `agents/scanner/` | - | `scan` | `ansible-playbook` | a scan or an error |
| Role `oracle_cpu_patch` | `ansible/roles/oracle_cpu_patch/` | binaries, databases, services, its audit file | prechecks, backup gate, confirm gate, stop, apply, start, datapatch, postcheck | the hosts | no change before the gates; services come back; the patch is verified |
| DMZ transfer and ingestion | `rag/ingestion/dmz_transfer.py`, `ingest.py` | inbox, manifest, log, collection | `transfer`, `ingest` | curator, files, Qdrant, each other | after a transfer the inbox is the staging directory and the manifest says so; after an ingestion the collection has every object of the inbox |
| Retrieval | `rag/retrieval/retrieve.py` | - | `retrieve` | Qdrant | only objects for the version, and top_k of them where there are |
| Release monitor | `rag/ingestion/patch_release_monitor.py` | `last_seen_guid` file | `fetch_feed`, `check_for_new_release` | RSS feed, other checks | quarterly advisories only, none lost without a crash, none reported twice |
| `demo.py` | `demo.py` | step reached, exit status | `run_preflight`, `main` | all but the operational store | status 0 only when the Executor has come to an end |
| Settings | `config/settings.py` | - | `load_settings` | YAML, environment | all of them or an exception |

The hard behaviours: several processes append to one audit file and may die inside
`append()`; a play is killed by a timeout while its command goes on on the host; a play survives
the process that started it; hosts are patched one after another and any may fail; an exception
may come at every statement; nothing excludes two runs on one host; exit statuses and
exception texts carry the outcome; a generation nobody waits for holds the model server; a transfer dies half-way
while an ingestion reads what it writes; a file is read that another process has just truncated. `PROJECT.json`, `hazards`, has them line by line with
the properties that cover each.

## 2. Modules

| module | models | state and actions |
|---|---|---|
| `AuditChain` | `AuditEntry`, `compute_hash`, `verify_chain` | entries, an injective digest, the verification |
| `AuditLog` | `AuditLogger.append()` statement by statement, several processes | `file` (lines of parts), `synced` (what fsync made durable), `lock`, `pc`, `buffer`, `done`, `acked`; one action per statement: `Call` open, `Lock` flock, `ReadTail` read the last line and build the entry, `RaiseOnTail`, `Flush`, `Fsync`, `Return`; and `Interrupt`/`Close` (the finally, then the with), `Kill`, `PowerLoss` |
| `AppendOnlyLog` | abstract: what such a log promises | `log`, `kept` |
| `AuditEdit` | edits of a finished log, against `verify_chain()` | `Delete`, `Exchange`, `Rewrite` |
| `Versions` | `_parse_version`, `_version_in_range` | no state: a version is a tuple of numbers, `Unparsable` the text that is none; `PythonLeq` is Python's order, item by item, for comparison |
| `Executor` | `run_patch_workflow()`, the runner, the snapshot, the human, the apply play | `pc` (the statement reached), `trail` (audit entries appended), `ok` (result of the last command), `play`, `remote` (change commands running on hosts), `touched`, `verified`, `db`, `points`; one action per statement that changes state |
| `GatedRollout` | abstract: approval first, then the hosts in order, each verified before the next | `verdict`, `touched`, `verified` |
| `CpuPatchRole` | the Ansible role on one host, task by task, and its audit file | `task` (the next task of each play), `mode` (its variables and tags), `outcome`, `heard` (`dp_backup_check`), `binaries`, `listener`, `up`, `rows` (the host), `draft`, `audit` (lineinfile); one action per task that decides or changes something; `Finish` is the rescue, `AuditRead`/`AuditWrite` the always, `PassOver` a file whose tag is not selected |
| `HostSteps` | abstract: what the Executor expects of the role on one host | `step`, `home` |
| `PatchAgent` | `propose_plan()` and the model server | `call` (of each run), `attempt`, `slot` (whom the server works for); `Ask`, `Accept`, `Invalid` (ask again or give up), `Contentless`, `TimesOut`, `Unreachable`, `ErrorStatus`; external: `Serve`, `OrphanEnds`, `Abandon` |
| `Catalogue` | `ProcedureRegistry.load()` and the validation of an entry | no state: `LoadRegistry` folds `AddFile` over the sorted files |
| `PatchRun` | `run_patch.main()` around `PatchAgent` and `Executor`, and the operational store | `program`, `main` (the statement reached), `prelude` (its own audit entries), `exit`, `rows`, `history`, `level` |
| `Demo` | `demo.main()` with `--auto`, around the same | the steps of `main` in `DemoStages` |
| `DmzTransfer` | `transfer()`, file operation by file operation, and the curator | `staging`, `inbox`, `manifest`, `logged`; of each job `at`, `names`, `todo`, `open`, `notes`; `moved` (what others have changed since it began) |
| `Knowledge` | `load_knowledge_objects()`, `ingest()`, `retrieve()` and the four programs that call them | `points`, `dimension` (the collections), `batch`, `hits` |
| `ReleaseMonitor` | `patch_release_monitor.py` | `state` (the file), of each check `at`, `page`, `newest`, `is_new`; `reports`, `dropped`, `disturbed` are ghosts |
| `ExecutorProofs`, `RolloutProofs` | theorems about `Versions` and `Executor`: versions, types, the gate and the trail; the rollout, halts and success | |
| `DemoProofs` | theorems about `Demo` and with it `PatchRun`, built on those two | |
| `AuditLogProofs`, `AuditEditProofs`, `CpuPatchRoleProofs`, `KnowledgeProofs`, `ReleaseMonitorProofs` | theorems about the module each is named after | |
| `MC*` | the instances TLC checks | |

`PatchAgent` extends `Executor`, `PatchRun` extends `PatchAgent` and takes the `Next` of `Executor` as the
sub-action `Workflow`, `Demo` extends `PatchRun`: one state machine, `DSpec`, for both programs. `Knowledge` extends
`DmzTransfer` and takes its `Transfer` as what a job does until it has transferred. `Executor`
instantiates `GatedRollout`, `AuditLog` instantiates `AppendOnlyLog`, `CpuPatchRole` instantiates `HostSteps`. Definitions whose comment
begins with `Bug:` are not part of any specification: each is a plausible mistake in the
definition after it, and shows that a property would notice it (`PROJECT.json`, `mutants`).

### Abstractions

- A digest is the hashed tuple itself (`AuditChain`): SHA-256 has no collisions.
- The text of an audit entry is two parts, head and tail, and the newline: enough to tell
  nothing, a torn line, a whole line and a finished line apart. Blank lines, which both
  readers skip, are not represented.
- A power loss leaves a prefix of the file that contains what was synced. Reordered blocks inside the
  unsynced part are not modelled.
- In `Executor` the audit log is the run's own sequence of entries: `AuditLog` shows
  that others' appends do not disturb them. An append that raises is `Abort`.
- On each host the role is: checks and gates, one change command, postcheck. A change command has no
  effect, half of it, or all of it; one that reports success had all of it. `CpuPatchRole` shows that the
  role is such a sequence (`ImplementsHostSteps`) and what its postcheck really establishes.
- In `CpuPatchRole` a command that reports success left the home unpatched or patched, never half patched; exit statuses of
  sqlplus pipelines say nothing. A recent backup is a fact of the moment a play asks (`vouched`).
- `--tags` and `--skip-tags` of a play are sets of the five tags the tasks carry (`Tags`); a task runs when one of its tags is
  in the first, if that is given, and none in the second (`Selected`). The tasks under `rescue:` carry none, so with `--tags` a failure is
  not noted (`Noted`), while the `always:` writes its entry. `run_apply()` passes neither (`Untagged`).
- `Demo` has transfer, ingestion and query as one step each; `Knowledge` has what they do, under the kinds `demo` and
  `demo_real`. Without `--auto` the demo waits for Enter between its steps; that it may wait is not modelled.
- The model server works on one request at a time and does not notice that a client has gone (`patch_agent.py:142-144`,
  `demo.py:127-129`). What it answers is a plan, something invalid, nothing, an error or silence.
- `copy2()` empties the file, then writes it in one piece; the same for `write_text()`. `MANIFEST.json`
  and a file hold a content or `Torn`, its beginning. A hash stands for the content it is of. A file name is its place in the
  sorted order. A torn YAML file never loads: `source`, required, is the last key of every object.
- `moved` is what the properties of a job must leave out: a file that the curator or another job has changed since it started.
- The ranking of Qdrant is any ranking; `Nearest` and `FirstOf` are sets of the right size.
- An advisory is its place in the order of publication; the feed is newest first, as `patch_release_monitor.py:77-78` says.
- A registry file is its name and the record of its keys; types of values other than the ones `Catalogue` names are left to pydantic.
- A run's plan is chosen in `Init`; the language model may produce any plan of `Plans`,
  good and bad. Its `phrase` says that the text in it which a halt at vetting quotes contains "did not confirm", the words by
  which `run_patch.py:101` knows a refusal. Only an unknown id or a version that does not parse can contain them.
- Restore point names keep their structure: the id, cut, and the digits of the time stamp that fit.
- The contents of reports and messages are left out; who is told what is described where
  a property needs it (`ReportedPointCreated`).

## 3. Properties and runs

| run | question | bounds |
|---|---|---|
| `AuditLog` | two processes with kills and power losses anywhere in `append()`, and one process with exceptions as well: `ChainIntact`, `AckedReadable`, `AckedOnDisk`, `LockReleased`, and refinement of `AppendOnlyLog` | 2 processes, 2 events, 4 lines, 3 faults |
| `AuditEdit` | what `verify_chain()` detects | 4 entries, 3 edits |
| `PatchRun` | one run of either program. The workflow: gates, halts, success, what runs after the end, refinement of `GatedRollout`; the trail against the registry, read with Python's order of tuples. Around it: the outcome recorded, the patch level, exit statuses 0 and 1, the demo's status 0, progress past a model server that hangs. `Catalogue` against all or nothing | 2 hosts, 12 plans, 3 times of day, 2 retries; versions of up to 6 components in the plans; every list of up to 3 of 8 registry files in `AllOrNothing` |
| `CpuPatchRole` | the role: what SUCCESS means, no start on a half-patched home, the audit entry, the confirm gate whatever the tags, the backup gate with validation, refinement of `HostSteps` | 2 plays one after the other, 2 CDBs, 10 settings, 3 of them with tags |
| `Knowledge` | what is mirrored, ingested and retrieved by a job nobody disturbed, whatever dead and living jobs have left | 2 jobs at a time, 3 launches, 1 edit, 2 files, 5 contents, 3 ids, `top_k` 1, over-fetch 2 |
| `ReleaseMonitor` | which advisories are reported, which can be lost, how often, and that checks end | 2 checks at a time, 4 launches, 5 advisories of which 2 are quarterly |
| `AuditLogTornTail`, `AuditLogInterrupt`, `ExecutorOtherHosts`, `ExecutorRestorePoint`, `RoleBackupGate`, `RoleSkipTags` | one finding each, section 5 | as small as shows it |

Eight more configurations are not among the runs of `PROJECT.json`; they show by TLC where a hypothesis of section 4 or a condition of a property matters:

| configuration | module | TLC | shows |
|---|---|---|---|
| `AuditLogAnyFault` | `MCAuditLog` | passes | `AckedOnDisk` when everything may go wrong: exceptions to two processes at once, kills, power losses, writes that stop before the newline |
| `RoleOverlap` | `MCCpuPatchRole` | passes | `EntriesTrue`, of three precheck plays at once |
| `RoleTwoPlays` | `MCCpuPatchRole` | violation | `OneEntryEach` is false of two precheck plays at once |
| `RoleTaggedFailure` | `MCCpuPatchRole` | violation | `FailureEntered`: an entry that says SUCCESS of a play with `--tags` that failed |
| `ExecutorConfirmValue` | `MCExecutor` | violation | `ConfirmIsPatchId`: the confirm value of the apply play is not the number the role compares it with |
| `PatchRunRefusal` | `MCPatchRun` | violation | `RejectedByHuman`: a halt at vetting recorded as REJECTED_AT_APPROVAL |
| `KnowledgeManifestHash` | `MCKnowledge` | violation | `ManifestVouches`: a hash in the manifest of a text that is not in the inbox |
| `KnowledgeWithdrawn` | `MCKnowledge` | violation | `ManifestIsBase`: a withdrawn object in the collection after transfer and ingestion |

Why the bounds are enough. The lock serialises appends, so two processes show every
interleaving of one append with another; three lines let a torn tail be followed by a reader that
refuses it, and two faults let a power loss follow a kill. Two hosts are the fewest with a first
and a later one, so that `serial: 1` and `any_errors_fatal` matter; each bad plan fails a different
check or lies at another side of the range. Two retries are what `settings.yaml` has. Three jobs let two of them interleave over what
a dead one has left; with two files one can be copied while the other is torn, withdrawn or holds the same object, and three ids are more than the over-fetch
takes. Monthly advisories lie before, between and after the quarterly ones, and four checks can overlap, die and come back. Two plays of the role, with two CDBs, show a
host that an earlier play left in any state and a loop in which one item fails and the other does not; the tagged settings go around the gate and
the precheck, into the gate, and past everything to the datapatch. One run suffices in `PatchRun` because the safety theorems of section 4 hold
for any number of runs, and what an earlier run has left to the model server is in `AInit`. In `RoleOverlap` plays that change nothing are enough: what the
audit file holds depends on their outcomes only, and `EntriesAreTrue` is proved for all modes.

Settings a reader should know. In the passing runs `PatchId` is one of the procedure ids, for otherwise
no change could ever begin: that is what `ExecutorConfirmValue` shows. `SplitNewline` is FALSE in the
run `AuditLog`: a write is assumed not to stop exactly between the closing brace and the
newline. With TRUE `AckedReadable` and `ChainIntact` are violated (section 5). `Interrupted` lists the sets of writers to whom exceptions
happen: in `AuditLog` a process alone, for `AuditLogInterrupt` shows what goes wrong with two. `AuditLogAnyFault` drops both
conditions and keeps `AckedOnDisk`. `AtOnce` is 1 in `CpuPatchRole`: with 2, `lineinfile` of two plays at once loses an entry
(`RoleTwoPlays`), and one play stops what another has verified. The playbooks themselves go from host to host (`serial: 1`), so two plays
at once on one host are two `ansible-playbook` commands; `RoleOverlap` says what is left of the audit file then. Deadlock checking is off: all these systems end, or stop at
their bound (`MaxLines`, `MaxFaults`, `MaxLen`, `MaxEdits`, `MaxLaunches`, `MaxChecks`).

Fairness. `Executor!FairSpec` has weak fairness of `Proceed(r)`, the steps the workflow takes by
itself. These include `Timeout`: every command has one (`executor.py:53`, `ansible_runner.py:57`,
`snapshot.py`), which is why a host needs no fairness. The human has none; `Settles` ends
at the gate. `PatchRun!MFairness` adds the same for the statements of `main()` and for the timeout of the model server's
answer; the server itself has none. The hosts' commands, the scan, the tests and Qdrant's client have time limits; a call that fails is
`Crash`. Postgres has neither limit nor fairness (`_connect()` sets no timeout), and `MSettles` says that a run may wait for it. The
timeouts of `openai` and of `urlopen()` are for each operation of the socket: a server that sends one byte at a time is taken for
one that answers. `ReleaseMonitor` has weak fairness of a check's own steps, the timeout of the feed among them, and
none of Oracle's answer. `AuditLog` has weak fairness of a process that holds or does not need the
lock; the lock itself is not handed out fairly, and no property needs it to be.

## 4. What is proved

All theorems hold for every value of the constants: any runs, hosts, inventories, registries, plans and times of day; any
processes and events; any plays, CDBs and settings; any jobs, files and objects; any checks and feeds; any bounds. They rest only on the
named assumptions of the modules, which TLC evaluates in every run. These give constants their types (an inventory is a
non-empty sequence of distinct hosts, a stamp has 14 digits, files and ids are finitely many) and keep marks apart from what they
mark (`Torn` is no content, `NoProc` no process). Hypotheses beyond these are in the last column.

| theorem | states | hypothesis |
|---|---|---|
| `ExecutorProofs!TypeCorrect` | `Spec => []TypeOK` | |
| `ExecutorProofs!ChangeIsGated` | `Spec => []GatedChange` | |
| `ExecutorProofs!TupleLeqIsPythons` | `TupleLeq` is `PythonLeq` on all versions | |
| `ExecutorProofs!TrailAgrees` | `Spec => []TrailAgreesWithRegistry` | |
| `ExecutorProofs!NothingStarts` | `Spec => NothingStartsAfterEnd` | |
| `RolloutProofs!Implements` | `Spec => ImplementsGatedRollout` | |
| `RolloutProofs!HaltIsExplained` | `Spec => []HaltExplained` | |
| `RolloutProofs!SuccessIsVerified` | `Spec => []SuccessVerified` | |
| `RolloutProofs!SuccessIsComplete` | `Spec => []SuccessComplete` | `Undisturbed(r)` always, of every run |
| `RolloutProofs!SuccessOfOne` | after the return of run `r` every host is verified and patched | `Undisturbed(r)` always |
| `RolloutProofs!SuccessAtReturn` | at the return of run `r` every host is verified and patched | `Undisturbed(r)` until it returns |
| `RolloutProofs!SuccessAlone` | `Spec => []SuccessComplete` | `OneRunOnly` |
| `DemoProofs!WorkflowsInPrograms` | `DSpec` has what `Spec` has: the gate, the refinement, halts, the trail and the registry, no start after the end | |
| `DemoProofs!ProgramTypes` | `DSpec => []MTypeOK` | |
| `DemoProofs!HistoryIsTrue` | `DSpec => []OutcomeTruth` | |
| `DemoProofs!LevelIsJustified` | `DSpec => []LevelJustified` | every host is in the inventory |
| `DemoProofs!ExitZero`, `!ExitOne` | `DSpec => []ExitZeroMeansDone`, `[]ExitOneExplained` | |
| `DemoProofs!ExitZeroPatched` | exit status 0 of run `r` of `run_patch.py`: the database of every host is patched | `Undisturbed(r)` always |
| `DemoProofs!RowAsExited` | `DSpec => []RecordedAsExited` | |
| `DemoProofs!DemoZero` | `DSpec => []DemoZeroMeansEnded` | |
| `AuditLogProofs!TypeCorrect` | `Spec => []TypeOK` | |
| `AuditLogProofs!MutualExclusion` | `Spec => []Exclusive` | |
| `AuditLogProofs!AckedStaysOnDisk` | `Spec => []AckedOnDisk` | |
| `AuditLogProofs!ChainStaysIntact` | `Spec => []ChainIntact` | `OneAtATime`, `~SplitNewline` |
| `AuditLogProofs!AckedStaysReadable` | `Spec => []AckedReadable` | the same |
| `AuditLogProofs!ImplementsLog` | `Spec => ImplementsAppendOnlyLog` | the same |
| `AuditEditProofs!TypeCorrect` | `Spec => []TypeOK` | |
| `AuditEditProofs!VerifiedIsWritten` | `Spec => []VerifiedIsPrefix` | |
| `CpuPatchRoleProofs!TypeCorrect` | `Spec => []TypeOK` | |
| `CpuPatchRoleProofs!ChangesAreConfirmed` | `Spec => ChangeConfirmedUnlessSkipped` | |
| `CpuPatchRoleProofs!EntriesAreTrue` | `Spec => []EntriesTrue` | |
| `CpuPatchRoleProofs!SolitaryPlay` | of play `p`: its success is real, no start on a half-patched home, no change without the validated backups | `Solitary(p)` always |
| `CpuPatchRoleProofs!SuccessesAreReal` | `Spec => []SuccessIsReal` | `OneAfterTheOther` |
| `CpuPatchRoleProofs!NeverStartedHalfApplied` | `Spec => []NoStartHalfApplied` | the same |
| `CpuPatchRoleProofs!BackupIsValidated` | `Spec => []ValidatedBackup` | the same |
| `CpuPatchRoleProofs!OneEntry` | `Spec => []OneEntryEach` | the same |
| `CpuPatchRoleProofs!Implements` | `Spec => ImplementsHostSteps` | the same |
| `KnowledgeProofs!TypeCorrect` | `KSpec => []KTypeOK` | |
| `KnowledgeProofs!TransferIsExact` | `KSpec => []TransferMirrors` | |
| `KnowledgeProofs!IngestIsCurrent` | `KSpec => []IngestCurrent` | |
| `KnowledgeProofs!RetrievalIsComplete` | `KSpec => RetrievalComplete` | |
| `ReleaseMonitorProofs!TypeCorrect` | `Spec => []TypeOK` | |
| `ReleaseMonitorProofs!NothingLost` | `Spec => []NeverLostSilently` | |
| `ReleaseMonitorProofs!OnlyQuarterly` | `Spec => []QuarterlyOnly` | |
| `ReleaseMonitorProofs!NoneTwice` | `Spec => []ReportedOnce` | |

### The hypotheses

Each marks a place where the code promises less than one might think; without it TLC, on an instance with two runs, plays, writers
or hosts, finds the statement violated.

- `Undisturbed(r)`: no change command of another run is running on a host that run `r` has begun to change. Nothing excludes two
  runs on one host, and a run that halts on a timeout leaves its change command behind (`ansible_runner.py:59-69`), which may undo what
  the postcheck of another has seen. Runs that patch different hosts, or one after the other with no command left between them, satisfy it
  up to the return: that is what `SuccessAtReturn` needs, and the later run may then do what it likes. `OneRunOnly` is the simplest case.
  `SuccessIsVerified` is what remains without any hypothesis: every host was verified, and the trail is complete.
- `OneAtATime`: the sets of `Interrupted` have one member, so exceptions happen to a process only while nobody else
  writes (finding 3). `~SplitNewline`: no write stops exactly before the newline (section 5). Without them entries may run into one another and no longer
  be readable, but none that was acknowledged is lost: `AckedStaysOnDisk` needs neither.
- Every host is in the inventory: otherwise `--target` may name a host that no play touches, and a success gives it the
  new patch level. It is the reverse of finding 1.
- `Solitary(p)`: while play `p` is under way no other is. Before and after it, any number of plays may have overlapped and left the
  host in any state. Of two plays on one host at once, one stops what the other has verified, or brings an
  instance up between the other's query and its decision.
- `OneAfterTheOther`: `AtOnce = 1`, the same of all plays. The audit file and the refinement need it of all of them: a play that overlaps another may take away
  an entry of a third (`RoleTwoPlays`). `EntriesAreTrue` is what remains without it.

`TransferMirrors`, `IngestCurrent` and `ReportedOnce` carry their conditions themselves: they speak of files that nobody
else has touched (`moved`), of jobs nobody disturbed, and of checks that neither overlapped nor died (`disturbed`).

### The arguments

None of the invariants is inductive as it stands. Each is strengthened by what the statements before it have
established; the proof that a step keeps the strengthened one has one step per action.

Workflow. `GatedChange` says nothing of a run before its first change, so the argument needs to know what the log of a
run holds at each statement:

- `Vouched`: a run past the vetting has a plan the registry vouches for (with `TypeOK`: `TypeInv`).
- `Trailed`: the log of a run at each statement of the workflow is exactly the good entries of the
  statements before it.
- `Begun`: a play is under way, or has been, only for a run that has come to the apply step; and
  while the run waits the play is its own.
- `GatePassed`: a host is touched, a play started, a command running only after the four good
  entries. Together these are `GateInv`.
- `Ordered`: when the play is at host i, the hosts before i, and no others, are verified, and the
  touched hosts are these and, from the change on, host i. With `GateInv` this is `RolloutInv`, under which
  every step of `Next` is a `Decide`, `Change`, `Verify` or a stutter of `GatedRollout`.
- `PlanRecorded`: a dry run on record is of a plan the registry vouches for, a rejection without one of a plan it does not. With
  `TupleLeqIsPythons` (of two versions on which the code's comparison and Python's differ, the tails differ too and are shorter, so
  there is no shortest such pair) this is `TrailAgreesWithRegistry`.
- `Succeeding`: from the apply step on, which of the last two entries are there and good, and that a play which ended
  well has verified all hosts. `HostsDone(r)`: the verified hosts of a run are touched and patched, and none of
  its commands is left on them; a step keeps it while the run is `Undisturbed`.

`NothingStarts` follows from `Begun`: a run that has ended other than by SIGKILL has no active play, and only an active
play touches a host. `HaltIsExplained` has an invariant of its own, `Halted`: every action that halts appends.

Programs. `StepEmbeds`: every step of `DSpec` is one of the workflow or leaves its variables alone, so what is proved
of `Spec` holds of `DSpec` (`Embeds`, `Told`). `DemoInv` adds what `main()` knows: `Placed` (which statements a program
reaches, and that the workflow runs only at the statement that calls it), `Asking` (the model server's slot and the retries), `Noted`
(the entries of `main()` itself), `Recorded` (a row only for a run that is over, and it tells the truth), `Exited` (an exit status and
the state of the workflow behind it), `Leveled` (a patch level is that of a run that returned and has a row). The
theorems about exits, history and levels combine `DemoInv` with `Told`.

Audit log. `LockHeld`: a process stands at the statements under the lock exactly when it holds it. `ChainInv` adds `Lone`,
`FileInv` (every finished line is a whole entry linked to the one before; the open line is empty or the beginning of
an entry), `InHand` (the entry in a buffer is the one that comes next, and what has been written of it is what is on the
open line) and `Durable` (what was acknowledged lies before the mark of fsync). A power loss keeps these because it
leaves a prefix that contains everything before that mark. Under `ChainInv` the events of the finished lines are the abstract log.
`AckedStaysOnDisk` has an invariant that knows nothing of the lock: `LandedInv`, the parts of its entry that a process has written are somewhere in the file,
and before the mark of fsync once it has synced. It is kept because whatever happens the file only grows, or loses what lies behind that mark.
In `AuditEditProofs`, `Chained` says that each entry of the edited copy has the number, link and hash of one that was
written: an edit recomputes nothing. In a copy that verifies, entry i then is the i-th written one, and the digest gives its
event (`DigestTellsEvents`).

Role. `RoleInv`: `ConfirmedInv` (past the gate only full runs, confirmed unless they do not have the gate; with `GateSelected`, that what selects
a change selects the gate unless one of its two tags is skipped, this alone gives `ChangesAreConfirmed`, for any number of plays), `Alone`, `SureInv` (what a play has made sure of, task by task: the listener back, new binaries before the registry is
read, all of it when it logs SUCCESS), `BackedInv` (an instance that is up answers the backup query truly; after
RESTORE VALIDATE all are up and vouched for) and `EnteredInv` (the audit file is the one the play has read, with one entry
of each play that is over). `SureInv` and `BackedInv` are conjunctions over the plays, and a step of play p keeps the conjuncts of p whenever p is
alone: `SolitaryPlay` needs no more. `ToldInv` is to `EntriesTrue` what an invariant of the file is to one of the copies: what the file, and every copy of it a
play holds in `draft`, says of a play is final. The refinement is by `Stepped`, the task each step of `HostSteps` stands for.
A precheck or a tagged play is none the Executor starts: what it changes is `Elsewhere` in `HostSteps`, between two of the Executor's.

Knowledge. `Typed` adds to the types that a batch files each object under its own id. Three lemmas carry the concurrency:
`MemoryIsOwn` (nobody reaches into another job's variables), `OthersLeave` and `CuratorLeaves` (what another
changes is in `moved` afterwards, so what a job may still count on is unchanged). `Mirrored` then says, statement by statement,
what a transfer knows of each file that has not moved; `Loaded`, that an ingestion has visited the files in
order and holds of each object what the last file visited says; `Current`, the same of the collection. That a set of
files has a first and a last is by well-foundedness of the naturals (`LeastExists`, `GreatestExists`).

Release monitor. `Typed` adds to `TypeOK` that a check with something to write or to report knows an advisory.
`NeverLostSilently` is strengthened to `Kept`: every advisory that is named is accounted for. It is named when the state file
names it, or when a check that found it there is about to write it again, perhaps after another check has truncated the
file. It is accounted for when it has been reported, a check is going to report it, or its report died with its check;
once accounted for it stays so (`AccountedStays`), which is why overlapping and dying checks do no harm. `Genuine` adds to `QuarterlyOnly` what the checks hold in memory.
`InTurn`, while nothing has been disturbed: one check at a time, the file torn only while it is being written (`OneByOne`), a
check's page no older than the file (`Relies`), and what was reported no newer than what the file names (`Newer`).

### Only model-checked

- Liveness: `Settles`, `MSettles`, `LockReleased`, `ChecksEnd`.
- `AllOrNothing`, which compares `Catalogue`, a fold over files, with its reference: what a fold computes for every input
  needs an induction over data, for which the provers have no rule. (`TupleLeqIsPythons` compares two definitions instead, and
  gets by with the least counterexample.)
- The violations of section 5, which are single behaviours.

## 5. Findings

Shown by a run (details and quotations in `PROJECT.json`):

1. `ExecutorOtherHosts`: the playbooks run on the whole inventory group, not on `--target`.
2. `ExecutorRestorePoint`: the exit status of `echo ... | sqlplus` does not tell whether the restore point was created, and the human is
   told that it was.
3. `AuditLogInterrupt`: after an exception the buffered entry is written when the file is closed, after the unlock.
4. `AuditLogTornTail`: a torn last line makes `verify_chain()` and every later `append()` raise.
5. `RoleBackupGate`: the backup gate takes the error text of an instance that is down for a backup. With
   `verify_backup_restorable` the next task catches it: `ValidatedBackup`, in the run `CpuPatchRole`.
6. `RoleSkipTags`: the confirm gate is tagged `[apply, datapatch]`, so `--skip-tags datapatch` leaves it out, and the apply, tagged `apply` alone, runs
   without confirmation; with `--skip-tags apply` it is datapatch that does, although `main.yml:15-17` says it is refused "no matter which tags are passed". Of `--tags` it is true, and of
   `--skip-tags` with any other tag: `ChangeConfirmedUnlessSkipped`.

Shown by a further configuration of section 3:

- `ExecutorConfirmValue`: the apply playbook is given the procedure id as its confirm value (`executor.py:158`); the role compares it with the
  Oracle patch number (`main.yml:57`). The confirm gate cannot open.
- `PatchRunRefusal`: `run_patch.py:101` looks for "did not confirm" in the text of the halt, and `executor.py:90` puts the plan's free-text
  `target_version` there, `executor.py:85` its unknown id. A plan with these words is recorded as refused at a gate it never reached. What
  REJECTED_AT_APPROVAL does mean is `OutcomeTruth`: nothing was touched, and the human refused or the registry does not have the plan.
- `RoleTaggedFailure`: the tasks under `rescue:` have no tags (`main.yml:90-100`). With `--tags` they do not run, and the `always:` enters
  SUCCESS for a play that failed, although `main.yml:19-23` has an entry for each outcome.
- `RoleTwoPlays`: of two plays of the role at once, `lineinfile` loses the audit entry of one, although `main.yml:19-20` promises exactly one
  for each. What is left is true (`EntriesTrue`).
- `KnowledgeManifestHash`: the manifest hashes the staged file after the copy; when the curator saves it in between, the hash is of
  a text that is not in the inbox (`dmz_transfer.py:85-89`).
- `KnowledgeWithdrawn`: the upsert deletes nothing, so withdrawn objects stay in the collection and are retrieved; `MANIFEST.json` is then
  not "what's actually in the knowledge base right now" (`dmz_transfer.py:36-37`).

Seen while modelling, without a run of their own:

- A last line of the audit log without its newline is taken for complete and the next entry is
  written on the same line (`logger.py:112`; `AuditLog` with `SplitNewline = TRUE`). The text of both is still there (`AckedOnDisk`).
- A missing `patch_id`, an unreachable host and a killed play leave no entry in the audit file of the role, although `main.yml:19-23` promises one
  for every invocation. `lineinfile` adds nothing when the file has an equal line; two entries of one second that agree in everything else
  would be one (not modelled: entries carry their play).
- A CDB without a row in `cdb_registry_sqlpatch` passes the postcheck (`postcheck.yml:67-76`).
- The restore point name keeps 3 of the 14 digits of the time stamp for `oracle_19c_ru_patch`
  (19 characters) and 2 for the RAC procedure (`RestorePointName`), so names repeat (`snapshot.py:47-57`).
- A refused run leaves its restore point behind, while the message says that no changes were made (`executor.py:149`).
- A run that halts after a timeout may leave its command running on the host (`ansible_runner.py:59-69`).
- The plan's target is not compared with the scanned host (`patch_agent.py:155`).
- The result of the rollback playbook is ignored, and the message says it was printed (`executor.py:183`).
- A failed scan leaves no audit entry (`run_patch.py:66-70`).
- Only `args.target` gets a row in `execution_history`, whatever hosts the play patched. `demo.py`, which may patch hosts too, writes none at
  all, and returns 0 after the executor has halted.
- Deleting the newest lines of the log is not detected: that is why `VerifiedIsPrefix` says "prefix".
- `operational_store._connect()` sets no timeout: a Postgres that does not answer holds the run, after the apply too (`operational_store.py:23`).
- An HTTP error status of the model server and an answer whose content is None leave `propose_plan()` as
  other exceptions than `PatchAgentEscalationError` (`patch_agent.py:131-152`; the changelog at `:3` says "like every other failure mode").
- `demo.py` returns 1 after an escalation and appends no audit entry (`:292-294`; `:26-27` says "fails closed with a clear
  reason and an audit entry").
- `run_patch.py` passes no `target_version` to `retrieve()`, so no hit is filtered by version, while `patch_agent.py:81-83` says of
  the bounds that they "already did their job server-side". A bound such as `19c` makes a retrieval that has a version raise
  (`retrieve.py:26-27`); nothing checks the bounds at ingestion.
- A transfer killed between the manifest and the log leaves no line in `dmz_transfer_log.jsonl` (`dmz_transfer.py:100-120`).
- `ensure_collection()` does not look at the dimension of an existing collection: after a demo with the other kind of embeddings every
  upsert fails (`ingest.py:46-52`). Two ingestions that both find no collection create it twice, and one raises.
- `patch_release_monitor.py`: a feed that does not parse raises outside the `try` (`:143`); of several new advisories only the newest is
  announced as new; an item without a guid is recorded as the empty text; a check that dies after `:129` takes its report with it.

## 6. Not modelled

- Embeddings: which vector a text gets. Only the dimension and the order of hits matter here, and any order is allowed.
- The wording of reports, prompts and messages. The risk level and the warnings of the report have no effect on control.
- `docker-compose.yml` and the local services: third-party programs, modelled by what their clients see.
- The precheck and rollback playbooks: by their result only.
- What two plays of the role at once do to a host: the model has their steps, but nothing good is stated of it beyond types, `ChangeConfirmedUnlessSkipped` and
  `EntriesTrue`, which are proved of any number. Two runs at once are not in
  the runs of TLC; the theorems about `Executor`, `PatchRun` and `Demo` cover any number.
- The tag names Ansible reserves: `always`, `never`, `all`, `tagged`, `untagged`. `--skip-tags always`, for one, would take away the first
  assert and the audit entry.
- `execution_history` after SIGKILL: no row, and no recovery code to model.
- The pauses of `demo.py` without `--auto`.

## 7. What could come next

What is modelled is what the code allows, and every safety invariant and action property that a passing run checks is proved. The
first items would need changes to the code as much as to the model:

1. A lock per host around a run: `Undisturbed` would then be a theorem rather than a hypothesis.
2. The confirm value and the patch number brought together: `PatchId` could then be any value in the passing runs.
3. A lock, or an append, instead of `lineinfile`: `OneEntryEach` for plays at once.
4. In `AuditLog`, what `verify_chain()` still accepts of the entries before the first write that was split or came late.

To repeat the checks: `tlc -config X.cfg M` with the module and configuration of each run in
`PROJECT.json`, and `tlapm` on `ExecutorProofs.tla`, `RolloutProofs.tla`, `DemoProofs.tla`, `AuditLogProofs.tla`,
`AuditEditProofs.tla`, `CpuPatchRoleProofs.tla`, `KnowledgeProofs.tla` and `ReleaseMonitorProofs.tla`.
