---------------------------- MODULE CpuPatchRole ----------------------------
(***************************************************************************)
(* The Ansible role oracle_cpu_patch, task by task, on one host: main.yml  *)
(* with the files it imports, and the audit file on the control node that  *)
(* all plays share.  A play is one invocation of the role; a later one may *)
(* find what an earlier one left behind.                                   *)
(*                                                                         *)
(* A task that loops over the CDBs runs for all of them and fails when one *)
(* has failed, so it is one action.  A failing task of the block goes to   *)
(* the rescue, which notes the failure and raises it again, and from there *)
(* to the always, which writes the audit entry.                            *)
(*                                                                         *)
(* --tags and --skip-tags may name any of the tags the tasks carry; the    *)
(* names Ansible reserves (always, never, all, tagged, untagged) are left  *)
(* out.                                                                    *)
(***************************************************************************)
EXTENDS Naturals, Sequences, FiniteSets

CONSTANTS
  Plays,
  Cdbs,   \* the container databases of the host
  Modes,  \* variables and tags a play may be given, see ModeAssumption
  AtOnce  \* bound: plays under way at a time

Tags == {"precheck", "stage", "apply", "datapatch", "postcheck"}

\* vars: patch_id, oracle_home and cdbs are set; full: run_full_patch;
\* auto: use_opatchauto; skip: skip_backup_check; validate:
\* verify_backup_restorable; confirmed: confirm_patch is the patch_id;
\* only: --tags, none when it is not given; without: --skip-tags.
ASSUME ModeAssumption ==
  Modes \subseteq [vars : BOOLEAN, full : BOOLEAN, auto : BOOLEAN,
                   skip : BOOLEAN, validate : BOOLEAN, confirmed : BOOLEAN,
                   only : SUBSET Tags, without : SUBSET Tags]
ASSUME AtOnceAssumption == AtOnce \in Nat

VARIABLES
  task,      \* the next task of each play, or how it ended
  mode,      \* the variables and tags each play was given
  outcome,   \* FAILED when a task in the block of the play has failed
  heard,     \* dp_backup_check of each play: the answer for each CDB
  vouched,   \* the CDBs that really had a recent backup when each play asked
  draft,     \* the audit file as lineinfile of each play has read it
  audit,     \* the audit file: entries [play, outcome]
  binaries,  \* the Oracle home: old, half patched or new
  listener,  \* is the listener up?
  up,        \* the CDBs whose instance is open
  rows       \* cdb_registry_sqlpatch of each CDB: the statuses in it

play == <<mode, heard, vouched>>
file == <<draft, audit>>
host == <<binaries, listener, up, rows>>
vars == <<task, outcome, play, file, host>>

-----------------------------------------------------------------------------
Gates == {"precheck", "backup", "backup_gate", "validate", "stage", "confirm"}

Changes == {"stop_listener", "shutdown", "apply", "startup", "start_listener",
            "datapatch", "lsinventory", "sqlpatch"}

Logging == {"audit", "audit_write"}

\* Both results of a play that has written its entry; the first assert failed;
\* the host was lost; the entry could not be written; ansible-playbook was killed.
Ended == {"ok", "failed", "refused", "unreachable", "unlogged", "killed"}

UnderWay == {p \in Plays : task[p] \notin {"idle"} \cup Ended}

Statuses == {"SUCCESS", "WITH ERRORS"}

BackupTasks == {"precheck", "backup", "backup_gate", "validate"}

ApplyTasks == {"stop_listener", "shutdown", "apply", "startup", "start_listener"}

\* Bug: the gate carries the tag of what comes first after it.
GateTagsShort == {"apply"}

GateTags == {"apply", "datapatch"}

TagsOf(t) ==
  CASE t \in BackupTasks -> {"precheck"}
    [] t = "stage" -> {"stage"}
    [] t = "confirm" -> GateTags
    [] t \in ApplyTasks -> {"apply"}
    [] t = "datapatch" -> {"datapatch"}
    [] t \in {"lsinventory", "sqlpatch"} -> {"postcheck"}

Selected(p, t) ==
  /\ mode[p].only = {} \/ TagsOf(t) \cap mode[p].only # {}
  /\ TagsOf(t) \cap mode[p].without = {}

\* The next task of p is t, and t is one that runs.
At(p, t) == task[p] = t /\ Selected(p, t)

Untagged(p) == mode[p].only = {} /\ mode[p].without = {}

\* _patch_run_outcome: the tasks under rescue: carry no tags, --tags leaves them out.
Noted(p) == IF mode[p].only = {} THEN outcome[p] ELSE "SUCCESS"

Unasked == [c \in Cdbs |-> "unasked"]

Init ==
  /\ task = [p \in Plays |-> "idle"]
  /\ mode \in [Plays -> Modes]
  /\ outcome = [p \in Plays |-> "SUCCESS"]
  /\ heard = [p \in Plays |-> Unasked]
  /\ vouched = [p \in Plays |-> {}]
  /\ draft = [p \in Plays |-> <<>>]
  /\ audit = <<>>
  /\ binaries = "old"
  /\ listener = TRUE
  /\ up = Cdbs
  /\ rows = [c \in Cdbs |-> {}]

Goto(p, next) == task' = [task EXCEPT ![p] = next]

\* The play is over; what it had registered is gone.
End(p, how) ==
  /\ Goto(p, how)
  /\ heard' = [heard EXCEPT ![p] = Unasked]
  /\ vouched' = [vouched EXCEPT ![p] = {}]
  /\ draft' = [draft EXCEPT ![p] = <<>>]
  /\ UNCHANGED <<outcome, mode>>

\* Bug: the rescue notes the task that failed as the outcome.
FinishNamed(p, success, next) ==
  IF success
    THEN Goto(p, next) /\ UNCHANGED outcome
    ELSE Goto(p, "audit") /\ outcome' = [outcome EXCEPT ![p] = task[p]]

\* The task has succeeded, or the play has failed and rescue: and always: take over.
Finish(p, success, next) ==
  IF success
    THEN Goto(p, next) /\ UNCHANGED outcome
    ELSE Goto(p, "audit") /\ outcome' = [outcome EXCEPT ![p] = "FAILED"]

-----------------------------------------------------------------------------
(* Gates *)

Launch(p) ==
  /\ task[p] = "idle"
  /\ Cardinality(UnderWay) < AtOnce
  /\ Goto(p, "vars")
  /\ UNCHANGED <<outcome, play, file, host>>

\* The first assert is outside the block: no rescue, no always.
AssertVars(p) ==
  /\ task[p] = "vars"
  /\ Goto(p, IF mode[p].vars THEN "precheck" ELSE "refused")
  /\ UNCHANGED <<outcome, play, file, host>>

\* OPatch version, inventory, free space.
Precheck(p) ==
  /\ At(p, "precheck")
  /\ \E success \in BOOLEAN : Finish(p, success, "backup")
  /\ UNCHANGED <<play, file, host>>

\* sqlplus exits 0 and prints an ORA- error for an instance that is down.
QueryBackup(p) ==
  /\ At(p, "backup")
  /\ \E recent \in SUBSET Cdbs :
       /\ heard' = [heard EXCEPT ![p] = [c \in Cdbs |->
            IF c \notin up THEN "ORA-" ELSE IF c \in recent THEN "time" ELSE "NONE"]]
       /\ vouched' = [vouched EXCEPT ![p] = recent]
  /\ \E success \in BOOLEAN : Finish(p, success, "backup_gate")
  /\ UNCHANGED <<mode, file, host>>

AfterBackup(p) ==
  IF mode[p].validate /\ ~mode[p].skip THEN "validate" ELSE "stage"

\* Bug: the assert looks at the last CDB of the loop only.
AssertSomeBackup(p) ==
  /\ At(p, "backup_gate")
  /\ Finish(p, mode[p].skip \/ \E c \in Cdbs : heard[p][c] # "NONE", AfterBackup(p))
  /\ UNCHANGED <<play, file, host>>

\* Any answer but NONE passes.
AssertBackup(p) ==
  /\ At(p, "backup_gate")
  /\ Finish(p, mode[p].skip \/ \A c \in Cdbs : heard[p][c] # "NONE", AfterBackup(p))
  /\ UNCHANGED <<play, file, host>>

\* RESTORE VALIDATE: an RMAN- or ORA- in the output fails the task, so it needs
\* an open instance.
ValidateBackup(p) ==
  /\ At(p, "validate")
  /\ \E success \in BOOLEAN :
       /\ success => up = Cdbs
       /\ Finish(p, success, "stage")
  /\ UNCHANGED <<play, file, host>>

\* Copies and unzips the patch; the conflict analysis cannot fail.
Stage(p) ==
  /\ At(p, "stage")
  /\ \E success \in BOOLEAN :
       Finish(p, success, IF mode[p].full THEN "confirm" ELSE "audit")
  /\ UNCHANGED <<play, file, host>>

Confirm(p) ==
  /\ At(p, "confirm")
  /\ Finish(p, mode[p].confirmed, IF mode[p].auto THEN "apply" ELSE "stop_listener")
  /\ UNCHANGED <<play, file, host>>

-----------------------------------------------------------------------------
(* Changes *)

\* failed_when: false.
StopListener(p) ==
  /\ At(p, "stop_listener")
  /\ listener' \in {FALSE, listener}
  /\ Goto(p, "shutdown")
  /\ UNCHANGED <<outcome, play, file, binaries, up, rows>>

\* sqlplus exits 0 whether or not the instance went down.
Shutdown(p) ==
  /\ At(p, "shutdown")
  /\ up' \in SUBSET up
  /\ \E success \in BOOLEAN : Finish(p, success, "apply")
  /\ UNCHANGED <<play, file, binaries, listener, rows>>

\* A patch tool leaves the home as it is, half patched or patched, and exits 0
\* only when it is not half patched.
Patching(success) ==
  /\ binaries' \in {binaries, "half", "new"}
  /\ success => binaries' # "half"

Running == listener \/ up # {}

Registering ==
  \E status \in [Cdbs -> SUBSET Statuses] :
    rows' = [c \in Cdbs |-> rows[c] \cup status[c]]

\* opatchauto stops, patches, starts and runs datapatch itself.
ApplyAuto(p) ==
  /\ At(p, "apply")
  /\ mode[p].auto
  /\ listener' \in BOOLEAN
  /\ up' \in SUBSET Cdbs
  /\ Registering
  /\ \E success \in BOOLEAN : Patching(success) /\ Finish(p, success, "datapatch")
  /\ UNCHANGED <<play, file>>

\* Bug: the rescue shows the diagnostics and the play goes on.
ApplyManualRescued(p) ==
  /\ At(p, "apply")
  /\ ~mode[p].auto
  /\ \E success \in BOOLEAN : Patching(success)
  /\ Goto(p, "startup")
  /\ UNCHANGED <<outcome, play, file, listener, up, rows>>

\* opatch refuses a home whose programs are running.
ApplyManual(p) ==
  /\ At(p, "apply")
  /\ ~mode[p].auto
  /\ \E success \in BOOLEAN :
       /\ IF Running THEN ~success /\ UNCHANGED binaries ELSE Patching(success)
       /\ Finish(p, success, "startup")
  /\ UNCHANGED <<play, file, listener, up, rows>>

\* As for the shutdown, exit status 0 says nothing.
Startup(p) ==
  /\ At(p, "startup")
  /\ \E started \in SUBSET Cdbs : up' = up \cup started
  /\ \E success \in BOOLEAN : Finish(p, success, "start_listener")
  /\ UNCHANGED <<play, file, binaries, listener, rows>>

StartListener(p) ==
  /\ At(p, "start_listener")
  /\ listener' \in {listener, TRUE}
  /\ \E success \in BOOLEAN :
       /\ success => listener'
       /\ Finish(p, success, "datapatch")
  /\ UNCHANGED <<play, file, binaries, up, rows>>

\* datapatch may find nothing to do, and may register a failure.
Datapatch(p) ==
  /\ At(p, "datapatch")
  /\ Registering
  /\ \A c \in Cdbs \ up : rows'[c] = rows[c]
  /\ \E success \in BOOLEAN :
       /\ success => up = Cdbs
       /\ Finish(p, success, "lsinventory")
  /\ UNCHANGED <<play, file, binaries, listener, up>>

-----------------------------------------------------------------------------
(* Postcheck *)

\* Bug: the failure of the command is not looked at.
CheckInventoryLoosely(p) ==
  /\ At(p, "lsinventory")
  /\ Goto(p, "sqlpatch")
  /\ UNCHANGED <<outcome, play, file, host>>

CheckInventory(p) ==
  /\ At(p, "lsinventory")
  /\ \E success \in BOOLEAN :
       /\ success => binaries = "new"
       /\ Finish(p, success, "sqlpatch")
  /\ UNCHANGED <<play, file, host>>

\* Bug: after a failed registration datapatch is run once more.
CheckSqlpatchRetries(p) ==
  /\ At(p, "sqlpatch")
  /\ Goto(p, IF \A c \in Cdbs : rows[c] \subseteq {"SUCCESS"} THEN "audit" ELSE "datapatch")
  /\ UNCHANGED <<outcome, play, file, host>>

\* The error text of an instance that is down has no "|" and fails the set_fact;
\* a status but SUCCESS fails the assert; a CDB without a row is only shown.
CheckSqlpatch(p) ==
  /\ At(p, "sqlpatch")
  /\ \E success \in BOOLEAN :
       /\ success => up = Cdbs /\ \A c \in Cdbs : rows[c] \subseteq {"SUCCESS"}
       /\ Finish(p, success, "audit")
  /\ UNCHANGED <<play, file, host>>

(* always: *)

\* lineinfile reads the whole file ...
AuditRead(p) ==
  /\ task[p] = "audit"
  /\ draft' = [draft EXCEPT ![p] = audit]
  /\ Goto(p, "audit_write")
  /\ UNCHANGED <<outcome, play, audit, host>>

\* Bug: the entry is written for a success only.
AuditSuccess(p) ==
  /\ task[p] = "audit_write"
  /\ audit' = IF outcome[p] = "FAILED" THEN draft[p]
              ELSE Append(draft[p], [play |-> p, outcome |-> Noted(p)])
  /\ End(p, IF outcome[p] = "SUCCESS" THEN "ok" ELSE "failed")
  /\ UNCHANGED host

\* ... and puts another in its place.
AuditWrite(p) ==
  /\ task[p] = "audit_write"
  /\ audit' = Append(draft[p], [play |-> p, outcome |-> Noted(p)])
  /\ End(p, IF outcome[p] = "SUCCESS" THEN "ok" ELSE "failed")
  /\ UNCHANGED host

AuditFails(p) ==
  /\ task[p] \in Logging
  /\ End(p, "unlogged")
  /\ UNCHANGED <<audit, host>>

(* Tags *)

\* Of a file whose tag is not selected no task runs.
AfterFile(p) ==
  CASE task[p] = "precheck" -> "stage"
    [] task[p] = "stage" -> IF mode[p].full THEN "confirm" ELSE "audit"
    [] task[p] = "confirm" -> IF mode[p].auto THEN "apply" ELSE "stop_listener"
    [] task[p] \in {"stop_listener", "apply"} -> "datapatch"
    [] task[p] = "datapatch" -> "lsinventory"
    [] task[p] = "lsinventory" -> "audit"

PassOver(p) ==
  /\ task[p] \in {"precheck", "stage", "confirm", "stop_listener", "apply",
                  "datapatch", "lsinventory"}
  /\ ~Selected(p, task[p])
  /\ Goto(p, AfterFile(p))
  /\ UNCHANGED <<outcome, play, file, host>>

(* Faults and the world outside *)

\* An unreachable host leaves the play: rescue: and always: do not run for it.
Unreachable(p) ==
  /\ task[p] \in Gates \cup Changes
  /\ Selected(p, task[p])
  /\ End(p, "unreachable")
  /\ UNCHANGED <<audit, host>>

\* The Executor's timeout, Ctrl-C, a lost control node.
Kill(p) ==
  /\ p \in UnderWay
  /\ End(p, "killed")
  /\ UNCHANGED <<audit, host>>

\* The command of a play that is killed or loses the host may still patch it, in
\* whole or in part.
DieApplying(p) ==
  /\ At(p, "apply")
  /\ mode[p].auto \/ ~Running
  /\ Patching(FALSE)
  /\ \E how \in {"killed", "unreachable"} : End(p, how)
  /\ UNCHANGED <<audit, listener, up, rows>>

Next ==
  \E p \in Plays :
    \/ Launch(p) \/ AssertVars(p)
    \/ Precheck(p) \/ QueryBackup(p) \/ AssertBackup(p) \/ ValidateBackup(p)
    \/ Stage(p) \/ Confirm(p)
    \/ StopListener(p) \/ Shutdown(p) \/ ApplyAuto(p) \/ ApplyManual(p)
    \/ Startup(p) \/ StartListener(p) \/ Datapatch(p)
    \/ CheckInventory(p) \/ CheckSqlpatch(p)
    \/ AuditRead(p) \/ AuditWrite(p) \/ AuditFails(p)
    \/ PassOver(p) \/ Unreachable(p) \/ Kill(p) \/ DieApplying(p)

Spec == Init /\ [][Next]_vars

-----------------------------------------------------------------------------
Entry == [play : Plays, outcome : {"SUCCESS", "FAILED"}]

TypeOK ==
  /\ task \in [Plays -> {"idle", "vars"} \cup Gates \cup Changes \cup Logging \cup Ended]
  /\ mode \in [Plays -> Modes]
  /\ outcome \in [Plays -> {"SUCCESS", "FAILED"}]
  /\ heard \in [Plays -> [Cdbs -> {"unasked", "time", "NONE", "ORA-"}]]
  /\ vouched \in [Plays -> SUBSET Cdbs]
  /\ draft \in [Plays -> Seq(Entry)]
  /\ audit \in Seq(Entry)
  /\ binaries \in {"old", "half", "new"}
  /\ listener \in BOOLEAN
  /\ up \in SUBSET Cdbs
  /\ rows \in [Cdbs -> SUBSET Statuses]

\* However many plays there are, with whatever tags, the home, the listener, the
\* instances and the registry change only in a step of a full run that has the right
\* confirmation or was told to skip one of the two tags of the confirm gate: --tags alone
\* does not get past it, since a change and the gate are selected together
\* (main.yml:13-17, 54-62).
ChangeConfirmedUnlessSkipped ==
  [][host' # host =>
       \E p \in UnderWay :
         /\ task'[p] # task[p]
         /\ mode[p].full
         /\ mode[p].confirmed \/ mode[p].without \cap {"apply", "datapatch"} # {}]_vars

\* "Refused without an exact confirm_patch match -- no matter which tags are passed"
\* (main.yml:13-17).  --skip-tags datapatch takes the gate away and leaves the
\* apply.
ChangeConfirmed ==
  [][host' # host =>
       \E p \in UnderWay : task'[p] # task[p] /\ mode[p].full /\ mode[p].confirmed]_vars

\* The role has SUCCESS for a full run with its postcheck, whatever else it skipped, only
\* when the binaries are patched, every CDB is open again, none has registered a failure
\* and, where the role itself stopped it, the listener is back: startup and shutdown
\* report nothing, it is the postcheck that has to notice (postcheck.yml:5-92).
SuccessIsReal ==
  \A p \in Plays :
    task[p] \in Logging /\ outcome[p] = "SUCCESS" /\ mode[p].full /\ Selected(p, "sqlpatch") =>
      /\ binaries = "new"
      /\ up = Cdbs
      /\ \A c \in Cdbs : rows[c] \subseteq {"SUCCESS"}
      /\ mode[p].auto \/ ~Selected(p, "start_listener") \/ listener

\* "Do not start it back up against a half-applied patch" (apply_patch.yml:45-46):
\* not in the play that left it half applied, nor in a later one.
NoStartHalfApplied == \A p \in Plays : task[p] = "startup" => binaries # "half"

\* "Exactly one audit log entry [...] is written per invocation" (main.yml:19-23),
\* for plays that come to the end of the block, one at a time: each has its one entry,
\* whatever happens to later plays, and the others have none; where --tags has not
\* taken the rescue away, with its outcome.
OneEntryEach ==
  \A p \in Plays :
    LET entries == {i \in DOMAIN audit : audit[i].play = p}
    IN  IF task[p] \in {"ok", "failed"}
          THEN /\ Cardinality(entries) = 1
               /\ mode[p].only = {} => \A i \in entries : audit[i].outcome = outcome[p]
          ELSE entries = {}

\* Of plays that overlap, lineinfile may lose an entry, but no play ever has two, or
\* one before it is over, and each entry of a play with its rescue tells how that has
\* ended (main.yml:90-105, audit_log.yml:18-35).
EntriesTrue ==
  /\ \A i, j \in DOMAIN audit : audit[i].play = audit[j].play => i = j
  /\ \A i \in DOMAIN audit :
       LET p == audit[i].play
       IN  /\ task[p] \in {"ok", "failed"}
           /\ mode[p].only = {} => audit[i].outcome = outcome[p]

\* The entry is for "success, failure, or precheck-only" (main.yml:19-23): it says
\* FAILED of a play that failed.  With --tags it says SUCCESS.
FailureEntered ==
  \A i \in DOMAIN audit : task[audit[i].play] = "failed" => audit[i].outcome = "FAILED"

\* With verify_backup_restorable, and the precheck not taken away by tags, no change
\* without a recent backup of every CDB: the validation fails for the instances whose
\* error text the gate before it lets through.
ValidatedBackup ==
  \A p \in Plays :
    task[p] \in Changes /\ mode[p].validate /\ ~mode[p].skip /\ Selected(p, "validate") =>
      vouched[p] = Cdbs

\* The gate "refuses to proceed without a recent whole-database RMAN backup,
\* unless explicitly overridden" (backup_check.yml:6-7).
BackupBeforeChange ==
  \A p \in Plays :
    task[p] \in Changes /\ ~mode[p].skip /\ Selected(p, "backup_gate") => vouched[p] = Cdbs

\* The Executor's view of a play such as run_apply() starts, full and without tags:
\* how far it has come, and the host.  A play whose entry cannot be written fails
\* like any other.
Step(p) ==
  IF task[p] = "idle" \/ ~mode[p].full \/ ~Untagged(p) THEN "none" ELSE
  CASE task[p] \in {"vars"} \cup Gates -> "gate"
    [] task[p] \in Changes \ {"lsinventory", "sqlpatch"} -> "change"
    [] task[p] \in {"lsinventory", "sqlpatch"} -> "verify"
    [] task[p] \in Logging /\ outcome[p] = "SUCCESS" -> "verify"
    [] task[p] = "ok" -> "passed"
    [] OTHER -> "failed"

Homes == {"old", "half", "new"} \X BOOLEAN \X (SUBSET Cdbs) \X [Cdbs -> SUBSET Statuses]

Checked == {"new"} \X BOOLEAN \X {Cdbs} \X [Cdbs -> SUBSET {"SUCCESS"}]

Expected == INSTANCE HostSteps
  WITH step <- [p \in Plays |-> Step(p)], home <- host,
       Homes <- Homes, Patched <- Checked

\* The role is, on each host, what the Executor counts on: gates, one stretch of
\* changes, and a check that changes nothing and passes only a patched host.
ImplementsHostSteps == Expected!Spec
=============================================================================
