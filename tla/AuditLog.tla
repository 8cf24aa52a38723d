------------------------------ MODULE AuditLog ------------------------------
(***************************************************************************)
(* AuditLogger.append(), audit/logger.py: several processes (an operator   *)
(* may run run_patch.py in two terminals, both log to the same             *)
(* ~/.oracle_patching/agentic_audit.jsonl) append entries to one file      *)
(* under flock, and may be killed, interrupted or lose the machine at any  *)
(* step of it.                                                             *)
(*                                                                         *)
(* The file is a sequence of lines and a line a sequence of written parts. *)
(* The JSON text of an entry is written in two parts, "head" and "tail":   *)
(* a line parses when it holds both parts of one entry and nothing else.   *)
(* The newline starts a new line, so the last line of the file is the one  *)
(* that is still open.  A blank line, which both readers skip, is not      *)
(* represented anywhere but there.                                         *)
(***************************************************************************)
EXTENDS AuditChain, FiniteSets

CONSTANTS
  Procs,        \* the processes that call append()
  NoProc,       \* nobody holds the lock
  NoEntry,      \* nothing in a process's buffer
  Interrupted,  \* the sets of writers among which an exception (Ctrl-C, a write
                \* error) may end an append
  SplitNewline, \* may a write stop exactly between the JSON text and its newline?
  MaxLines,     \* bound: no append starts on a file with more lines
  MaxFaults     \* bound: kills, exceptions and power losses in one behaviour

ASSUME NoProcAssumption == NoProc \notin Procs /\ NoEntry \notin Entries
ASSUME FlagAssumption ==
  Interrupted \in SUBSET SUBSET Procs /\ SplitNewline \in BOOLEAN
ASSUME BoundAssumption == MaxLines \in Nat /\ MaxFaults \in Nat

VARIABLES
  writers, \* the processes that ever append
  file,    \* the lines on disk
  synced,  \* <<lines, parts of the last one>>: how much of it fsync has made durable
  lock,    \* holder of the exclusive flock, or NoProc
  pc,      \* where each process is in append()
  buffer,  \* the entry each process has built and buffered, or NoEntry
  done,    \* how many of its three parts (head, tail, newline) have been written
  acked,   \* the entries that append() has returned to its callers
  faults

vars == <<writers, file, synced, lock, pc, buffer, done, acked, faults>>

Parts == [entry : Entries, part : {"head", "tail"}]

-----------------------------------------------------------------------------
(* Reading the file *)

Whole(e) == <<[entry |-> e, part |-> "head"], [entry |-> e, part |-> "tail"]>>

\* AuditEntry.from_json_line() succeeds.
Parses(line) == Len(line) = 2 /\ line = Whole(line[1].entry)

\* The lines both readers see: the open line only when something is on it.
Lines(f) == IF f[Len(f)] = <<>> THEN SubSeq(f, 1, Len(f) - 1) ELSE f

Readable(f) == \A i \in DOMAIN Lines(f) : Parses(Lines(f)[i])

(* Writing it *)

\* Bug: the file is opened "w+", which empties it, instead of "a+".
PutTruncating(f, e, m, n) ==
  IF n = 3 THEN <<Whole(e), <<>>>> ELSE <<SubSeq(Whole(e), 1, n)>>

\* Parts m+1 to n of the line for e, appended to the file (it is open for
\* append: whatever others have written meanwhile comes first).
Put(f, e, m, n) ==
  LET text    == SubSeq(Whole(e), m + 1, IF n = 3 THEN 2 ELSE n)
      line    == f[Len(f)] \o text
      written == [f EXCEPT ![Len(f)] = line]
  IN  IF n = 3 /\ line # <<>> THEN Append(written, <<>>) ELSE written

End(f) == <<Len(f), Len(f[Len(f)])>>

\* The file cut after the k-th part of its i-th line.
Cut(f, i, k) == Append(SubSeq(f, 1, i - 1), SubSeq(f[i], 1, k))

AtOrAfter(pos, mark) ==
  pos[1] > mark[1] \/ (pos[1] = mark[1] /\ pos[2] >= mark[2])

-----------------------------------------------------------------------------
States == {"idle", "waiting", "locked", "buffered", "flushed", "synced", "closing"}

Init ==
  /\ writers \in SUBSET Procs \ {{}}
  /\ file = <<<<>>>>
  /\ synced = <<1, 0>>
  /\ lock = NoProc
  /\ pc = [p \in Procs |-> "idle"]
  /\ buffer = [p \in Procs |-> NoEntry]
  /\ done = [p \in Procs |-> 0]
  /\ acked = {}
  /\ faults = 0

Goto(p, state) == pc' = [pc EXCEPT ![p] = state]

\* The append of p is over, the file is closed.
Leave(p) ==
  /\ Goto(p, "idle")
  /\ buffer' = [buffer EXCEPT ![p] = NoEntry]
  /\ done' = [done EXCEPT ![p] = 0]

\* append() is called and the file opened.
Call(p) ==
  /\ p \in writers
  /\ pc[p] = "idle"
  /\ Len(file) <= MaxLines
  /\ Goto(p, "waiting")
  /\ UNCHANGED <<file, synced, lock, buffer, done, acked, faults>>

\* Bug: a shared lock, or none.
LockShared(p) ==
  /\ pc[p] = "waiting"
  /\ lock' = p
  /\ Goto(p, "locked")
  /\ UNCHANGED <<file, synced, buffer, done, acked, faults>>

\* flock(LOCK_EX).
Lock(p) ==
  /\ pc[p] = "waiting"
  /\ lock = NoProc
  /\ lock' = p
  /\ Goto(p, "locked")
  /\ UNCHANGED <<file, synced, buffer, done, acked, faults>>

LastParses == Lines(file) # <<>> => Parses(Lines(file)[Len(Lines(file))])

\* Reads the last line, builds the entry chained to it and hands it to write(),
\* which only fills the buffer.
ReadTail(p, event) ==
  /\ pc[p] = "locked"
  /\ LastParses
  /\ LET ls   == Lines(file)
         last == ls[Len(ls)][1].entry
     IN  buffer' = [buffer EXCEPT ![p] =
           IF ls = <<>> THEN NewEntry(0, GenesisHash, event)
                        ELSE NewEntry(last.seq, last.hash, event)]
  /\ Goto(p, "buffered")
  /\ UNCHANGED <<file, synced, lock, done, acked, faults>>

\* Bug: no finally around the parsing of the last line.
RaiseLocked(p) ==
  /\ pc[p] = "locked"
  /\ ~LastParses
  /\ Leave(p)
  /\ UNCHANGED <<file, synced, lock, acked, faults>>

\* from_json_line() raises on a torn or garbled last line; the finally unlocks.
RaiseOnTail(p) ==
  /\ pc[p] = "locked"
  /\ ~LastParses
  /\ lock' = NoProc
  /\ Leave(p)
  /\ UNCHANGED <<file, synced, acked, faults>>

\* flush(): some of what is in the buffer reaches the file.
Flush(p) ==
  /\ pc[p] = "buffered"
  /\ \E n \in done[p] + 1 .. 3 :
       /\ n = 2 => SplitNewline
       /\ file' = Put(file, buffer[p], done[p], n)
       /\ done' = [done EXCEPT ![p] = n]
       /\ Goto(p, IF n = 3 THEN "flushed" ELSE "buffered")
  /\ UNCHANGED <<synced, lock, buffer, acked, faults>>

\* Bug: fsync left out, or called before flush().
FsyncNothing(p) ==
  /\ pc[p] = "flushed"
  /\ Goto(p, "synced")
  /\ UNCHANGED <<file, synced, lock, buffer, done, acked, faults>>

Fsync(p) ==
  /\ pc[p] = "flushed"
  /\ synced' = End(file)
  /\ Goto(p, "synced")
  /\ UNCHANGED <<file, lock, buffer, done, acked, faults>>

\* finally: LOCK_UN; the entry is returned.
Return(p) ==
  /\ pc[p] = "synced"
  /\ lock' = NoProc
  /\ acked' = acked \cup {buffer[p]}
  /\ Leave(p)
  /\ UNCHANGED <<file, synced, faults>>

\* An exception while waiting, or inside the try: the finally unlocks, and what is left in the
\* buffer goes to the file when the with statement closes it, afterwards.
Interrupt(p) ==
  /\ writers \in Interrupted
  /\ faults < MaxFaults
  /\ pc[p] \in {"waiting", "locked", "buffered", "flushed", "synced"}
  /\ lock' = IF lock = p THEN NoProc ELSE lock
  /\ IF pc[p] = "buffered"
       THEN Goto(p, "closing") /\ UNCHANGED <<buffer, done>>
       ELSE Leave(p)
  /\ faults' = faults + 1
  /\ UNCHANGED <<file, synced, acked>>

\* close() of the with statement flushes the rest of the buffer, unlocked.  (A
\* close() that fails as well drops it, which is Kill.)
Close(p) ==
  /\ pc[p] = "closing"
  /\ file' = Put(file, buffer[p], done[p], 3)
  /\ Leave(p)
  /\ UNCHANGED <<synced, lock, acked, faults>>

\* SIGKILL: the kernel drops the lock, the buffer is lost.  The process of a
\* later command takes its place.
Kill(p) ==
  /\ pc[p] # "idle"
  /\ faults < MaxFaults
  /\ lock' = IF lock = p THEN NoProc ELSE lock
  /\ Leave(p)
  /\ faults' = faults + 1
  /\ UNCHANGED <<file, synced, acked>>

\* The control node goes down: of what fsync had not made durable any prefix
\* is left.
PowerLoss ==
  /\ faults < MaxFaults
  /\ \E i \in DOMAIN file : \E k \in 0 .. Len(file[i]) :
       /\ AtOrAfter(<<i, k>>, synced)
       /\ (i < Len(file) /\ k = Len(file[i])) => SplitNewline
       /\ file' = Cut(file, i, k)
       /\ synced' = <<i, k>>
  /\ lock' = NoProc
  /\ pc' = [p \in Procs |-> "idle"]
  /\ buffer' = [p \in Procs |-> NoEntry]
  /\ done' = [p \in Procs |-> 0]
  /\ faults' = faults + 1
  /\ UNCHANGED acked

Step(p) ==
  \/ \E e \in Events : ReadTail(p, e)
  \/ RaiseOnTail(p)
  \/ Flush(p)
  \/ Fsync(p)
  \/ Return(p)
  \/ Close(p)

Next ==
  /\ \/ \E p \in Procs :
          \/ Call(p)
          \/ Lock(p)
          \/ Step(p)
          \/ Interrupt(p)
          \/ Kill(p)
     \/ PowerLoss
  /\ UNCHANGED writers

Spec == Init /\ [][Next]_vars

\* A process inside append() is scheduled; nobody has to call it, and the lock
\* is not handed out fairly.
FairSpec == Spec /\ \A p \in Procs : WF_vars(Step(p) /\ UNCHANGED writers)

-----------------------------------------------------------------------------
Files == Seq(Seq(Parts))

TypeOK ==
  /\ writers \in SUBSET Procs
  /\ file \in Files
  /\ Len(file) >= 1
  /\ synced \in Nat \X Nat
  /\ lock \in Procs \cup {NoProc}
  /\ pc \in [Procs -> States]
  /\ buffer \in [Procs -> Entries \cup {NoEntry}]
  /\ done \in [Procs -> 0 .. 3]
  /\ acked \in SUBSET Entries
  /\ faults \in Nat

\* append() "appends one entry under an exclusive file lock, chained to the last
\* entry" (audit/logger.py:107): whatever processes interleave, die or lose the
\* machine, the lines that were finished all parse and verify_chain() accepts
\* them.
ChainIntact ==
  LET ended == SubSeq(file, 1, Len(file) - 1)
  IN  /\ \A i \in DOMAIN ended : Parses(ended[i])
      /\ VerifyChain([i \in DOMAIN ended |-> ended[i][1].entry])

\* An entry append() has returned is on disk at its own position, readable, and
\* stays there: the write is flushed and synced before the return (125-128), and
\* no fault or later append damages it.
AckedReadable ==
  \A e \in acked :
    /\ e.seq \in DOMAIN Lines(file)
    /\ Lines(file)[e.seq] = Whole(e)

OnDisk(part) ==
  \E i \in DOMAIN file : \E k \in DOMAIN file[i] :
    file[i][k] = part /\ AtOrAfter(synced, <<i, k>>)

\* Whatever happens to whom and wherever a write stops, none of what append() has
\* returned is ever lost: the text of the entry is on disk, torn apart by the text
\* of another at worst, and no later append, fault or power loss removes any of it
\* (125-128).
AckedOnDisk ==
  \A e \in acked :
    \A part \in {"head", "tail"} : OnDisk([entry |-> e, part |-> part])

\* verify_chain() "returns (ok, reason_if_not)" (audit/logger.py:137) rather
\* than raising: every line it reads parses, in any state in which no process
\* is writing.
VerifyAnswers == (\A p \in Procs : pc[p] = "idle") => Readable(file)

\* The lock is given back whatever happens to its holder: by the return, by the
\* finally around every exception, by the kernel (109-130).
LockReleased == \A p \in Procs : lock = p ~> lock # p

\* What the log promises its callers, see AppendOnlyLog: the events of the
\* readable lines and the positions that were acknowledged.
ReadableEvents ==
  LET ls == Lines(file)
  IN  IF LastParses
      THEN [i \in DOMAIN ls |-> ls[i][1].entry.event]
      ELSE [i \in 1 .. Len(ls) - 1 |-> ls[i][1].entry.event]

Promise == INSTANCE AppendOnlyLog
  WITH log <- ReadableEvents, kept <- {e.seq : e \in acked}

\* append() implements the append-only log: a step adds one event at the end,
\* acknowledges one that is there, or loses a tail nobody was told about.
ImplementsAppendOnlyLog == Promise!Spec
=============================================================================
