---------------------------- MODULE DmzTransfer ----------------------------
(***************************************************************************)
(* transfer(), rag/ingestion/dmz_transfer.py: the staging directory, which *)
(* a curator edits by hand at any time, is mirrored file by file into the  *)
(* inbox, whose MANIFEST.json and the transfer log say what arrived.       *)
(* Several jobs may be under way at once (the script, demo.py) and each    *)
(* may stop at any step; whoever comes next finds what it left.            *)
(*                                                                         *)
(* A file is named by its place in the order of names, and holds one of    *)
(* Contents, nothing, or the truncated beginning of one.                   *)
(***************************************************************************)
EXTENDS Naturals, Sequences, FiniteSetsExt

CONSTANTS
  Jobs,         \* processes that work on the knowledge base
  Files,        \* the *.yml names, numbered in sorted order
  Contents,     \* what a file may hold
  Drafts,       \* the contents the curator may write into each file
  NoFile,
  Torn,         \* the beginning of a text: a write that has not ended, or never will
  NoManifest,
  FirstStaging, \* what the repository ships in knowledge_staging/
  MaxEdits,     \* bound: edits of the staging directory
  MaxLaunches   \* bound: jobs that are started

ASSUME FilesAssumption == IsFiniteSet(Files) /\ Files \subseteq Nat
ASSUME DistinctAssumption == NoFile # Torn /\ {NoFile, Torn} \cap Contents = {}
ASSUME DraftsAssumption == Drafts \in [Files -> SUBSET Contents]
ASSUME FirstStagingAssumption == FirstStaging \subseteq [Files -> Contents \cup {NoFile}]
ASSUME EditBoundAssumption == MaxEdits \in Nat /\ MaxLaunches \in Nat

VARIABLES
  staging,  \* knowledge_staging/
  inbox,    \* knowledge_inbox/
  manifest, \* MANIFEST.json: file -> content whose hash it holds
  logged,   \* the file names in the last line of dmz_transfer_log.jsonl
  at,       \* what each job does next
  kind,     \* which program each job runs
  names,    \* staging_files of a transfer, those it has still to copy
  todo,     \* files a loop has still to visit: the prune, or an ingestion
  open,     \* the content copy2() is writing
  notes,    \* file_records
  moved,    \* files whose content somebody else has changed since a job's launch
  edits,
  launches

disk      == <<staging, inbox, manifest, logged>>
progress  == <<names, todo, open, notes>>
bounds    == <<edits, launches>>
tvars     == <<disk, at, kind, progress, moved, bounds>>

Directory == [Files -> Contents \cup {NoFile}]

Present(directory) == {f \in Files : directory[f] # NoFile}

Empty == [f \in Files |-> NoFile]

Busy(j) == at[j] # "idle"

Goto(j, step) == at' = [at EXCEPT ![j] = step]

\* The other jobs can no longer count on the files fs.
Disturb(j, fs) ==
  moved' = [i \in Jobs |-> IF i # j /\ Busy(i) THEN moved[i] \cup fs ELSE moved[i]]

TInit ==
  /\ staging \in FirstStaging
  /\ inbox = Empty
  /\ manifest = NoManifest
  /\ logged = {}
  /\ at = [j \in Jobs |-> "idle"]
  /\ kind = [j \in Jobs |-> "none"]
  /\ names = [j \in Jobs |-> {}]
  /\ todo = [j \in Jobs |-> {}]
  /\ open = [j \in Jobs |-> NoFile]
  /\ notes = [j \in Jobs |-> Empty]
  /\ moved = [j \in Jobs |-> {}]
  /\ edits = 0
  /\ launches = 0

-----------------------------------------------------------------------------
\* The curator writes, replaces or removes a file of the staging directory.
Edit(f, c) ==
  /\ edits < MaxEdits
  /\ c \in Drafts[f] \cup {NoFile}
  /\ staging[f] # c
  /\ staging' = [staging EXCEPT ![f] = c]
  /\ moved' = [j \in Jobs |-> IF Busy(j) THEN moved[j] \cup {f} ELSE {}]
  /\ edits' = edits + 1
  /\ UNCHANGED <<inbox, manifest, logged, at, kind, progress, launches>>

\* A job of the given kind starts with the given step.
Start(j, k, first) ==
  /\ ~Busy(j)
  /\ launches < MaxLaunches
  /\ Goto(j, first)
  /\ kind' = [kind EXCEPT ![j] = k]
  /\ moved' = [moved EXCEPT ![j] = {}]
  /\ launches' = launches + 1
  /\ UNCHANGED <<disk, progress, edits>>

\* The job is over: it has returned, raised or been killed.
Stop(j) ==
  /\ Goto(j, "idle")
  /\ names' = [names EXCEPT ![j] = {}]
  /\ todo' = [todo EXCEPT ![j] = {}]
  /\ open' = [open EXCEPT ![j] = NoFile]
  /\ notes' = [notes EXCEPT ![j] = Empty]
  /\ kind' = [kind EXCEPT ![j] = "none"]
  /\ moved' = [moved EXCEPT ![j] = {}]
  /\ UNCHANGED bounds

\* staging_dir.glob("*.yml").
Glob(j) ==
  /\ at[j] = "glob"
  /\ names' = [names EXCEPT ![j] = Present(staging)]
  /\ Goto(j, "list_inbox")
  /\ UNCHANGED <<disk, kind, todo, open, notes, moved, bounds>>

\* Bug: nothing is removed from the inbox.
ListNothing(j) ==
  /\ at[j] = "list_inbox"
  /\ todo' = [todo EXCEPT ![j] = {}]
  /\ Goto(j, "mirror")
  /\ UNCHANGED <<disk, kind, names, open, notes, moved, bounds>>

\* inbox_dir.glob("*.yml"), less the names of the staging directory.
ListInbox(j) ==
  /\ at[j] = "list_inbox"
  /\ todo' = [todo EXCEPT ![j] = Present(inbox) \ names[j]]
  /\ Goto(j, "mirror")
  /\ UNCHANGED <<disk, kind, names, open, notes, moved, bounds>>

Unlink(j, f) ==
  /\ at[j] = "mirror"
  /\ f \in todo[j]
  /\ inbox[f] # NoFile
  /\ inbox' = [inbox EXCEPT ![f] = NoFile]
  /\ todo' = [todo EXCEPT ![j] = @ \ {f}]
  /\ Disturb(j, {f})
  /\ UNCHANGED <<staging, manifest, logged, at, kind, names, open, notes, bounds>>

\* The file of the loop over staging_files.
Source(j) == Min(names[j])

\* copy2() opens both files, which empties the one in the inbox.
OpenCopy(j) ==
  /\ at[j] = "mirror"
  /\ todo[j] = {} /\ names[j] # {}
  /\ staging[Source(j)] # NoFile
  /\ open' = [open EXCEPT ![j] = staging[Source(j)]]
  /\ inbox' = [inbox EXCEPT ![Source(j)] = Torn]
  /\ Disturb(j, {Source(j)})
  /\ Goto(j, "copying")
  /\ UNCHANGED <<staging, manifest, logged, kind, names, todo, notes, bounds>>

\* It writes the text, in one piece.
WriteCopy(j) ==
  /\ at[j] = "copying"
  /\ inbox[Source(j)] # NoFile
  /\ inbox' = [inbox EXCEPT ![Source(j)] = open[j]]
  /\ Disturb(j, {Source(j)})
  /\ Goto(j, "hash")
  /\ UNCHANGED <<staging, manifest, logged, kind, progress, bounds>>

\* Bug: they are taken from the copy, which another transfer may have emptied.
HashCopy(j) ==
  /\ at[j] = "hash"
  /\ staging[Source(j)] # NoFile
  /\ notes' = [notes EXCEPT ![j][Source(j)] = inbox[Source(j)]]
  /\ names' = [names EXCEPT ![j] = @ \ {Source(j)}]
  /\ open' = [open EXCEPT ![j] = NoFile]
  /\ Goto(j, "mirror")
  /\ UNCHANGED <<disk, kind, todo, moved, bounds>>

\* The hash and the size are taken from the source, which is read once more.
Hash(j) ==
  /\ at[j] = "hash"
  /\ staging[Source(j)] # NoFile
  /\ notes' = [notes EXCEPT ![j][Source(j)] = staging[Source(j)]]
  /\ names' = [names EXCEPT ![j] = @ \ {Source(j)}]
  /\ open' = [open EXCEPT ![j] = NoFile]
  /\ Goto(j, "mirror")
  /\ UNCHANGED <<disk, kind, todo, moved, bounds>>

\* A file of the loop is not there any more: FileNotFoundError.
Vanished(j) ==
  /\ \/ at[j] = "mirror" /\ \E f \in todo[j] : inbox[f] = NoFile
     \/ at[j] = "mirror" /\ todo[j] = {} /\ names[j] # {} /\ staging[Source(j)] = NoFile
     \/ at[j] = "copying" /\ inbox[Source(j)] = NoFile
     \/ at[j] = "hash" /\ staging[Source(j)] = NoFile
  /\ Stop(j)
  /\ UNCHANGED disk

\* write_text() truncates MANIFEST.json ...
OpenManifest(j) ==
  /\ at[j] = "mirror"
  /\ todo[j] = {} /\ names[j] = {}
  /\ manifest' = Torn
  /\ Disturb(j, Files)
  /\ Goto(j, "manifest")
  /\ UNCHANGED <<staging, inbox, logged, kind, progress, bounds>>

\* ... and writes it.
WriteManifest(j) ==
  /\ at[j] = "manifest"
  /\ manifest' = notes[j]
  /\ Disturb(j, Files)
  /\ Goto(j, "log")
  /\ UNCHANGED <<staging, inbox, logged, kind, progress, bounds>>

AppendLog(j) ==
  /\ at[j] = "log"
  /\ logged' = Present(notes[j])
  /\ Disturb(j, Files)
  /\ Goto(j, "transferred")
  /\ UNCHANGED <<staging, inbox, manifest, kind, progress, bounds>>

\* The process is killed, or an exception of the file system ends it.
Crash(j) ==
  /\ Busy(j)
  /\ Stop(j)
  /\ UNCHANGED disk

Transfer(j) ==
  \/ Glob(j) \/ ListInbox(j) \/ \E f \in Files : Unlink(j, f)
  \/ OpenCopy(j) \/ WriteCopy(j) \/ Hash(j) \/ Vanished(j)
  \/ OpenManifest(j) \/ WriteManifest(j) \/ AppendLog(j)

-----------------------------------------------------------------------------
TSteps == {"idle", "glob", "list_inbox", "mirror", "copying", "hash",
           "manifest", "log", "transferred"}

TTypeOK ==
  /\ staging \in Directory
  /\ inbox \in [Files -> Contents \cup {NoFile, Torn}]
  /\ manifest \in Directory \cup {NoManifest, Torn}
  /\ logged \in SUBSET Files
  /\ names \in [Jobs -> SUBSET Files]
  /\ todo \in [Jobs -> SUBSET Files]
  /\ open \in [Jobs -> Contents \cup {NoFile}]
  /\ notes \in [Jobs -> Directory]
  /\ moved \in [Jobs -> SUBSET Files]
  /\ edits \in 0 .. MaxEdits
  /\ launches \in 0 .. MaxLaunches

\* "Inbox ends up exactly matching staging's current *.yml files"
\* (dmz_transfer.py:67): when transfer() returns, then for every file that the
\* curator and the other jobs have left alone since it began, inbox, manifest
\* and the last line of the log all say what is in the staging directory,
\* whatever mixture, torn file or torn manifest an earlier transfer had left.
TransferMirrors ==
  \A j \in Jobs : at[j] = "transferred" =>
    \A f \in Files \ moved[j] :
      /\ inbox[f] = staging[f]
      /\ manifest[f] = staging[f]
      /\ f \in logged <=> staging[f] # NoFile

\* "MANIFEST.json in the inbox records what/when the last transfer contained (name,
\* sha256, size per file)" (dmz_transfer.py:35-36): when transfer() returns, the
\* hashes are those of what it copied, when there is no other transfer.
ManifestVouches ==
  \A j \in Jobs : at[j] = "transferred" => \A f \in Files : manifest[f] = inbox[f]

=============================================================================
