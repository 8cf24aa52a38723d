--------------------------- MODULE AuditLogProofs ---------------------------
(***************************************************************************)
(* Theorems about AuditLog, for any processes, events, and bounds: type    *)
(* correctness, mutual exclusion, and that nothing acknowledged is ever    *)
(* lost, always; that the chain is intact, that what was acknowledged      *)
(* stays readable in its place, and that append() implements an            *)
(* append-only log, when no write stops exactly before a newline and       *)
(* exceptions happen to a process only while nobody else appends.          *)
(***************************************************************************)
EXTENDS AuditLog, SequenceTheorems, TLAPS

-----------------------------------------------------------------------------
(* Lines and files *)

\* The text of an entry: two parts, the first of which names it.
LEMMA WholeIs ==
  ASSUME NEW e \in Entries
  PROVE  /\ Whole(e) \in Seq(Parts)
         /\ Len(Whole(e)) = 2
         /\ Whole(e)[1] = [entry |-> e, part |-> "head"]
         /\ Whole(e)[1].entry = e
  BY DEF Whole, Parts

\* The last line of a file is one of its lines.
LEMMA LastLine ==
  ASSUME NEW f \in Files, Len(f) >= 1
  PROVE  /\ Len(f) \in Nat
         /\ Len(f) \in 1 .. Len(f)
         /\ f[Len(f)] \in Seq(Parts)
  <1>1. Len(f) \in Nat
    BY DEF Files
  <1>2. Len(f) \in 1 .. Len(f)
    BY <1>1
  <1> QED
    BY <1>1, <1>2, ElementOfSeq DEF Files

\* Writing any part of an entry gives a file, with no line fewer.
LEMMA PutType ==
  ASSUME NEW f \in Files, Len(f) >= 1, NEW e \in Entries,
         NEW m \in 0 .. 3, NEW n \in 0 .. 3
  PROVE  Put(f, e, m, n) \in Files /\ Len(Put(f, e, m, n)) >= 1
  <1> DEFINE last    == IF n = 3 THEN 2 ELSE n
             text    == SubSeq(Whole(e), m + 1, last)
             line    == f[Len(f)] \o text
             written == [f EXCEPT ![Len(f)] = line]
  <1>1. last \in 0 .. 2
    OBVIOUS
  <1>2. text \in Seq(Parts)
    <2>1. \A i \in m + 1 .. last : i \in 1 .. Len(Whole(e))
      <3>1. Len(Whole(e)) = 2
        BY WholeIs
      <3> HIDE DEF last
      <3> QED
        BY <1>1, <3>1
    <2>2. \A i \in m + 1 .. last : Whole(e)[i] \in Parts
      BY <2>1, WholeIs, ElementOfSeq
    <2>3. m + 1 \in Int /\ last \in Int
      BY <1>1
    <2> QED
      BY <2>2, <2>3, SubSeqProperties
  <1>3. line \in Seq(Parts)
    BY <1>2, LastLine, ConcatProperties
  <1>4. written \in Seq(Seq(Parts)) /\ Len(written) = Len(f) /\ Len(f) \in Nat
    <2> HIDE DEF line
    <2> QED
      BY <1>3, LastLine, ExceptSeq DEF Files
  <1>5. <<>> \in Seq(Parts)
    OBVIOUS
  <1>6. /\ Append(written, <<>>) \in Seq(Seq(Parts))
        /\ Len(Append(written, <<>>)) = Len(f) + 1
    <2> HIDE DEF written
    <2> QED
      BY <1>4, <1>5, AppendProperties
  <1>7. Put(f, e, m, n) \in {written, Append(written, <<>>)}
    BY DEF Put
  <1> HIDE DEF written
  <1>8. Seq(Seq(Parts)) = Files
    BY DEF Files
  <1>9. Len(f) + 1 >= 1
    BY <1>4
  <1> QED
    BY <1>4, <1>6, <1>7, <1>8, <1>9, Zenon

\* A file cut within a line is a file: the lines before, and the beginning of
\* that line.
LEMMA CutIs ==
  ASSUME NEW f \in Files, NEW i \in DOMAIN f, NEW k \in 0 .. Len(f[i])
  PROVE  /\ i \in 1 .. Len(f)
         /\ Cut(f, i, k) \in Files
         /\ Len(Cut(f, i, k)) = i
         /\ \A j \in 1 .. i - 1 : Cut(f, i, k)[j] = f[j]
         /\ Cut(f, i, k)[i] = SubSeq(f[i], 1, k)
         /\ Len(f[i]) \in Nat
  <1> DEFINE before == SubSeq(f, 1, i - 1)
             line   == SubSeq(f[i], 1, k)
  <1>1. i \in 1 .. Len(f) /\ Len(f) \in Nat
    BY DEF Files
  <1>2. f[i] \in Seq(Parts)
    BY <1>1, ElementOfSeq DEF Files
  <1>3. Len(f[i]) \in Nat /\ \A j \in 1 .. Len(f[i]) : f[i][j] \in Parts
    BY <1>2, ElementOfSeq
  <1>4. line \in Seq(Parts)
    <2>1. \A j \in 1 .. k : f[i][j] \in Parts
      BY <1>3
    <2>2. k \in Int /\ 1 \in Int
      BY <1>3
    <2> QED
      BY <2>1, <2>2, SubSeqProperties
  <1>5. /\ before \in Seq(Seq(Parts))
        /\ Len(before) = i - 1
        /\ \A j \in 1 .. i - 1 : before[j] = f[j]
    <2>1. \A j \in 1 .. i - 1 : f[j] \in Seq(Parts)
      BY <1>1, ElementOfSeq DEF Files
    <2>2. i - 1 \in Int /\ 1 \in Int
      BY <1>1
    <2>3. /\ before \in Seq(Seq(Parts))
          /\ Len(before) = IF 1 <= i - 1 THEN (i - 1) - 1 + 1 ELSE 0
          /\ \A j \in 1 .. (i - 1) - 1 + 1 : before[j] = f[1 + j - 1]
      BY <2>1, <2>2, SubSeqProperties
    <2> HIDE DEF before
    <2> QED
      BY <1>1, <2>3
  <1>6. Cut(f, i, k) = Append(before, line)
    BY DEF Cut
  <1> HIDE DEF before, line
  <1>7. /\ Append(before, line) \in Seq(Seq(Parts))
        /\ Len(Append(before, line)) = Len(before) + 1
        /\ \A j \in 1 .. Len(before) : Append(before, line)[j] = before[j]
        /\ Append(before, line)[Len(before) + 1] = line
    BY <1>4, <1>5, AppendProperties
  <1>8. Cut(f, i, k) \in Files /\ Len(Cut(f, i, k)) = i
    BY <1>1, <1>5, <1>6, <1>7 DEF Files
  <1>9. Len(before) + 1 = i
    BY <1>1, <1>5
  <1>10. Cut(f, i, k)[i] = line
    BY <1>6, <1>7, <1>9, Zenon
  <1>11. \A j \in 1 .. i - 1 : Cut(f, i, k)[j] = f[j]
    BY <1>5, <1>6, <1>7, Zenon
  <1> QED
    BY <1>1, <1>3, <1>8, <1>10, <1>11 DEF line

-----------------------------------------------------------------------------
(* Type correctness *)

\* What the process has handed to write() it still has until the append is over.
HasEntry == {"buffered", "flushed", "synced", "closing"}

Buffered == \A p \in Procs : pc[p] \in HasEntry => buffer[p] \in Entries

Typed == TypeOK /\ Buffered

LEMMA TypedInit == Init => Typed
  <1> SUFFICES ASSUME Init PROVE Typed
    OBVIOUS
  <1>1. file \in Files /\ Len(file) >= 1
    BY DEF Init, Files
  <1>2. synced \in Nat \X Nat
    BY DEF Init
  <1> QED
    BY <1>1, <1>2 DEF Init, Typed, TypeOK, Buffered, HasEntry, States

\* The entry append() builds is one.
LEMMA NewEntryType ==
  ASSUME NEW n \in Nat, NEW prev \in Digests, NEW event \in Events
  PROVE  NewEntry(n, prev, event) \in Entries
  <1>1. <<n + 1, event>> \in Nat \X Events
    OBVIOUS
  <1>2. Append(prev, <<n + 1, event>>) \in Digests
    BY <1>1 DEF Digests
  <1> QED
    BY <1>2 DEF NewEntry, ComputeHash, Entries

\* The lines a reader sees are the file, without an open line with nothing on it.
LEMMA LinesAre ==
  ASSUME NEW f \in Files, Len(f) >= 1
  PROVE  /\ Lines(f) \in Files
         /\ Len(Lines(f)) = IF f[Len(f)] = <<>> THEN Len(f) - 1 ELSE Len(f)
         /\ \A i \in 1 .. Len(Lines(f)) : Lines(f)[i] = f[i]
  <1> DEFINE n     == Len(f) - 1
             ended == SubSeq(f, 1, n)
  <1>1. Len(f) \in Nat /\ n \in Nat /\ Len(f) = n + 1
    BY DEF Files
  <1>2. Lines(f) = IF f[Len(f)] = <<>> THEN ended ELSE f
    BY DEF Lines
  <1>3. \A j \in 1 .. n : f[j] \in Seq(Parts)
    BY <1>1, ElementOfSeq DEF Files
  <1> HIDE DEF n
  <1>4. /\ ended \in Seq(Seq(Parts))
        /\ Len(ended) = n
        /\ \A j \in 1 .. n : ended[j] = f[j]
    <2>1. /\ ended \in Seq(Seq(Parts))
          /\ Len(ended) = IF 1 <= n THEN n - 1 + 1 ELSE 0
          /\ \A j \in 1 .. n - 1 + 1 : ended[j] = f[1 + j - 1]
      BY <1>1, <1>3, SubSeqProperties
    <2> HIDE DEF ended
    <2> QED
      BY <1>1, <2>1
  <1> HIDE DEF ended
  <1> QED
    BY <1>1, <1>2, <1>4 DEF Files

\* The last line a reader sees, when it parses, holds an entry.
LEMMA LastEntry ==
  ASSUME NEW f \in Files, Len(f) >= 1, Lines(f) # <<>>,
         Parses(Lines(f)[Len(Lines(f))])
  PROVE  Lines(f)[Len(Lines(f))][1].entry \in Entries
  <1>1. Lines(f) \in Files
    BY LinesAre
  <1>2. Len(Lines(f)) \in Nat /\ Len(Lines(f)) >= 1
    BY <1>1 DEF Files
  <1>3. Lines(f)[Len(Lines(f))] \in Seq(Parts)
    BY <1>1, <1>2, LastLine
  <1>4. Lines(f)[Len(Lines(f))][1] \in Parts
    <2>1. Len(Lines(f)[Len(Lines(f))]) = 2
      BY DEF Parses
    <2>2. 1 \in 1 .. Len(Lines(f)[Len(Lines(f))])
      BY <2>1
    <2> QED
      BY <1>3, <2>2, ElementOfSeq
  <1> QED
    BY <1>4 DEF Parts

LEMMA TypedNext == Typed /\ [Next]_vars => Typed'
  <1> SUFFICES ASSUME Typed, [Next]_vars PROVE Typed'
    OBVIOUS
  <1>0. /\ file \in Files /\ Len(file) >= 1
        /\ pc \in [Procs -> States]
        /\ buffer \in [Procs -> Entries \cup {NoEntry}]
        /\ done \in [Procs -> 0 .. 3]
    BY DEF Typed, TypeOK
  <1> USE DEF Typed, TypeOK, Buffered, HasEntry, States, Goto, Leave
  <1>1. CASE UNCHANGED vars
    BY <1>1 DEF vars
  <1>2. ASSUME NEW p \in Procs, UNCHANGED writers, Call(p) PROVE Typed'
    BY <1>2 DEF Call
  <1>3. ASSUME NEW p \in Procs, UNCHANGED writers, Lock(p) PROVE Typed'
    BY <1>3 DEF Lock
  <1>4. ASSUME NEW p \in Procs, UNCHANGED writers, NEW e \in Events, ReadTail(p, e)
        PROVE  Typed'
    <2> DEFINE ls    == Lines(file)
               entry == IF ls = <<>>
                          THEN NewEntry(0, GenesisHash, e)
                          ELSE NewEntry(ls[Len(ls)][1].entry.seq,
                                        ls[Len(ls)][1].entry.hash, e)
    <2>1. entry \in Entries
      <3>1. CASE ls = <<>>
        <4>1. 0 \in Nat /\ GenesisHash \in Digests
          BY DEF GenesisHash, Digests
        <4> QED
          BY <3>1, <4>1, NewEntryType
      <3>2. CASE ls # <<>>
        <4>1. ls[Len(ls)][1].entry \in Entries
          BY <1>0, <1>4, <3>2, LastEntry DEF ReadTail, LastParses
        <4>2. /\ ls[Len(ls)][1].entry.seq \in Nat
              /\ ls[Len(ls)][1].entry.hash \in Digests
          BY <4>1 DEF Entries
        <4> QED
          BY <3>2, <4>2, NewEntryType
      <3> QED
        BY <3>1, <3>2
    <2>2. buffer' = [buffer EXCEPT ![p] = entry]
      BY <1>4 DEF ReadTail
    <2> HIDE DEF entry
    <2> QED
      BY <1>4, <2>1, <2>2 DEF ReadTail
  <1>5. ASSUME NEW p \in Procs, UNCHANGED writers, RaiseOnTail(p) PROVE Typed'
    BY <1>5 DEF RaiseOnTail
  <1>6. ASSUME NEW p \in Procs, UNCHANGED writers, Flush(p) PROVE Typed'
    <2>1. PICK n \in done[p] + 1 .. 3 :
            /\ file' = Put(file, buffer[p], done[p], n)
            /\ done' = [done EXCEPT ![p] = n]
            /\ pc' = [pc EXCEPT ![p] = IF n = 3 THEN "flushed" ELSE "buffered"]
      BY <1>6 DEF Flush
    <2>2. n \in 0 .. 3 /\ done[p] \in 0 .. 3
      BY <1>0
    <2>3. buffer[p] \in Entries
      BY <1>6 DEF Flush
    <2>4. file' \in Files /\ Len(file') >= 1
      BY <1>0, <2>1, <2>2, <2>3, PutType
    <2> QED
      BY <1>6, <2>1, <2>2, <2>4 DEF Flush
  <1>7. ASSUME NEW p \in Procs, UNCHANGED writers, Fsync(p) PROVE Typed'
    <2>1. End(file) \in Nat \X Nat
      <3>1. Len(file) \in Nat /\ Len(file[Len(file)]) \in Nat
        BY <1>0, LastLine
      <3> QED
        BY <3>1 DEF End
    <2> QED
      BY <1>7, <2>1 DEF Fsync
  <1>8. ASSUME NEW p \in Procs, UNCHANGED writers, Return(p) PROVE Typed'
    BY <1>8 DEF Return
  <1>9. ASSUME NEW p \in Procs, UNCHANGED writers, Interrupt(p) PROVE Typed'
    BY <1>9, BoundAssumption DEF Interrupt
  <1>10. ASSUME NEW p \in Procs, UNCHANGED writers, Close(p) PROVE Typed'
    <2>1. done[p] \in 0 .. 3 /\ buffer[p] \in Entries
      BY <1>0, <1>10 DEF Close
    <2>2. file' \in Files /\ Len(file') >= 1
      <3>1. file' = Put(file, buffer[p], done[p], 3) /\ 3 \in 0 .. 3
        BY <1>10 DEF Close
      <3> QED
        BY <1>0, <2>1, <3>1, PutType
    <2> QED
      BY <1>10, <2>2 DEF Close
  <1>11. ASSUME NEW p \in Procs, UNCHANGED writers, Kill(p) PROVE Typed'
    BY <1>11 DEF Kill
  <1>12. ASSUME UNCHANGED writers, PowerLoss PROVE Typed'
    <2>1. PICK i \in DOMAIN file : \E k \in 0 .. Len(file[i]) :
            file' = Cut(file, i, k) /\ synced' = <<i, k>>
      BY <1>12 DEF PowerLoss
    <2>2. PICK k \in 0 .. Len(file[i]) : file' = Cut(file, i, k) /\ synced' = <<i, k>>
      BY <2>1
    <2>3. /\ file' \in Files /\ Len(file') = i
          /\ i \in 1 .. Len(file) /\ Len(file[i]) \in Nat
      BY <1>0, <2>2, CutIs
    <2>4. Len(file') >= 1 /\ synced' \in Nat \X Nat
      BY <2>2, <2>3
    <2> QED
      BY <1>12, <2>3, <2>4 DEF PowerLoss
  <1> QED
    BY <1>1, <1>2, <1>3, <1>4, <1>5, <1>6, <1>7, <1>8, <1>9, <1>10, <1>11,
       <1>12 DEF Next, Step

\* Every variable of the log keeps its type, whatever faults happen
\* (audit/logger.py:105-135).
THEOREM TypeCorrect == Spec => []TypeOK
  <1>1. Typed => TypeOK
    BY DEF Typed
  <1> QED
    BY TypedInit, TypedNext, <1>1, PTL DEF Spec

-----------------------------------------------------------------------------
(* Mutual exclusion *)

\* Between flock() and the unlock, and nowhere else, a process holds the lock.
Holding == {"locked", "buffered", "flushed", "synced"}

LockHeld == \A p \in Procs : pc[p] \in Holding <=> lock = p

\* At most one process is between flock() and the unlock.
Exclusive == \A p, q \in Procs : pc[p] \in Holding /\ pc[q] \in Holding => p = q

LEMMA LockHeldInit == Init => LockHeld
  BY NoProcAssumption DEF Init, LockHeld, Holding

LEMMA LockHeldNext == Typed /\ LockHeld /\ [Next]_vars => LockHeld'
  <1> SUFFICES ASSUME Typed, LockHeld, [Next]_vars PROVE LockHeld'
    OBVIOUS
  <1>0. pc \in [Procs -> States]
    BY DEF Typed, TypeOK
  <1> USE NoProcAssumption DEF LockHeld, Holding, Goto, Leave
  <1>1. CASE UNCHANGED vars
    BY <1>1 DEF vars
  <1>2. ASSUME NEW p \in Procs, Call(p) PROVE LockHeld'
    BY <1>0, <1>2 DEF Call
  <1>3. ASSUME NEW p \in Procs, Lock(p) PROVE LockHeld'
    BY <1>0, <1>3 DEF Lock
  <1>4. ASSUME NEW p \in Procs, NEW e \in Events, ReadTail(p, e) PROVE LockHeld'
    BY <1>0, <1>4 DEF ReadTail
  <1>5. ASSUME NEW p \in Procs, RaiseOnTail(p) PROVE LockHeld'
    BY <1>0, <1>5 DEF RaiseOnTail
  <1>6. ASSUME NEW p \in Procs, Flush(p) PROVE LockHeld'
    BY <1>0, <1>6 DEF Flush
  <1>7. ASSUME NEW p \in Procs, Fsync(p) PROVE LockHeld'
    BY <1>0, <1>7 DEF Fsync
  <1>8. ASSUME NEW p \in Procs, Return(p) PROVE LockHeld'
    BY <1>0, <1>8 DEF Return
  <1>9. ASSUME NEW p \in Procs, Interrupt(p) PROVE LockHeld'
    BY <1>0, <1>9 DEF Interrupt
  <1>10. ASSUME NEW p \in Procs, Close(p) PROVE LockHeld'
    BY <1>0, <1>10 DEF Close
  <1>11. ASSUME NEW p \in Procs, Kill(p) PROVE LockHeld'
    BY <1>0, <1>11 DEF Kill
  <1>12. CASE PowerLoss
    BY <1>0, <1>12 DEF PowerLoss
  <1> QED
    BY <1>1, <1>2, <1>3, <1>4, <1>5, <1>6, <1>7, <1>8, <1>9, <1>10, <1>11,
       <1>12 DEF Next, Step

\* flock() keeps the processes apart, through kills, exceptions and power losses
\* (audit/logger.py:109-130).
THEOREM MutualExclusion == Spec => []Exclusive
  <1>1. LockHeld => Exclusive
    BY DEF LockHeld, Exclusive
  <1> QED
    BY TypedInit, TypedNext, LockHeldInit, LockHeldNext, <1>1, PTL DEF Spec

-----------------------------------------------------------------------------
(* What was acknowledged stays on disk, whatever the faults *)

\* Each part of a file is at the same place in a file that extends it.
Extends(f, g) ==
  \A i \in DOMAIN f :
    /\ i \in DOMAIN g
    /\ \A k \in DOMAIN f[i] : k \in DOMAIN g[i] /\ g[i][k] = f[i][k]

InFile(f, part) == \E i \in DOMAIN f : \E k \in DOMAIN f[i] : f[i][k] = part

Written(n) == 1 .. IF n = 3 THEN 2 ELSE n

\* A write extends the file by the parts it writes.
LEMMA PutExtends ==
  ASSUME NEW f \in Files, Len(f) >= 1, NEW e \in Entries,
         NEW m \in 0 .. 3, NEW n \in 0 .. 3, m <= n
  PROVE  /\ Extends(f, Put(f, e, m, n))
         /\ \A j \in Written(n) : j > m => InFile(Put(f, e, m, n), Whole(e)[j])
  <1> DEFINE last    == IF n = 3 THEN 2 ELSE n
             text    == SubSeq(Whole(e), m + 1, last)
             line    == f[Len(f)] \o text
             written == [f EXCEPT ![Len(f)] = line]
             g       == Put(f, e, m, n)
  <1>1. /\ Len(f) \in Nat /\ DOMAIN f = 1 .. Len(f) /\ Len(f) \in 1 .. Len(f)
        /\ f[Len(f)] \in Seq(Parts)
    BY LastLine DEF Files
  <1>2. Whole(e) \in Seq(Parts) /\ Len(Whole(e)) = 2
    BY WholeIs
  <1>3. /\ text \in Seq(Parts)
        /\ \A j \in m + 1 .. last : j - m \in 1 .. Len(text) /\ text[j - m] = Whole(e)[j]
    <2>1. last \in 0 .. 2
      OBVIOUS
    <2> HIDE DEF last
    <2>2. \A j \in m + 1 .. last : Whole(e)[j] \in Parts
      <3>1. \A j \in m + 1 .. last : j \in 1 .. Len(Whole(e))
        BY <1>2, <2>1
      <3> QED
        BY <1>2, <3>1, ElementOfSeq
    <2>3. m + 1 \in Int /\ last \in Int
      BY <2>1
    <2>4. /\ text \in Seq(Parts)
          /\ Len(text) = IF m + 1 <= last THEN last - (m + 1) + 1 ELSE 0
          /\ \A j \in 1 .. last - (m + 1) + 1 : text[j] = Whole(e)[m + 1 + j - 1]
      BY <2>2, <2>3, SubSeqProperties
    <2> HIDE DEF text
    <2>5. ASSUME NEW j \in m + 1 .. last
          PROVE  j - m \in 1 .. Len(text) /\ text[j - m] = Whole(e)[j]
      <3>1. j - m \in 1 .. last - (m + 1) + 1 /\ m + 1 + (j - m) - 1 = j
        BY <2>1
      <3>2. text[j - m] = Whole(e)[m + 1 + (j - m) - 1]
        BY <2>4, <3>1
      <3> QED
        BY <2>1, <2>4, <3>1, <3>2
    <2> QED
      BY <2>4, <2>5
  <1> HIDE DEF last, text
  <1>4. /\ line \in Seq(Parts)
        /\ Len(line) = Len(f[Len(f)]) + Len(text)
        /\ Len(f[Len(f)]) \in Nat /\ Len(text) \in Nat
        /\ \A k \in 1 .. Len(f[Len(f)]) : line[k] = f[Len(f)][k]
        /\ \A j \in 1 .. Len(text) : line[Len(f[Len(f)]) + j] = text[j]
    <2> DEFINE old == f[Len(f)]
    <2>1. old \in Seq(Parts)
      BY <1>1
    <2> HIDE DEF old
    <2>2. /\ old \o text \in Seq(Parts)
          /\ Len(old \o text) = Len(old) + Len(text)
          /\ \A i \in 1 .. Len(old) + Len(text) :
               (old \o text)[i] = IF i <= Len(old) THEN old[i] ELSE text[i - Len(old)]
      BY <1>3, <2>1, ConcatProperties
    <2>3. Len(old) \in Nat /\ Len(text) \in Nat
      BY <1>3, <2>1
    <2>4. \A k \in 1 .. Len(old) : (old \o text)[k] = old[k]
      BY <2>2, <2>3
    <2>5. ASSUME NEW j \in 1 .. Len(text) PROVE (old \o text)[Len(old) + j] = text[j]
      <3>1. /\ Len(old) + j \in 1 .. Len(old) + Len(text)
            /\ ~(Len(old) + j <= Len(old)) /\ (Len(old) + j) - Len(old) = j
        BY <2>3
      <3> QED
        BY <2>2, <3>1
    <2> QED
      BY <2>2, <2>3, <2>4, <2>5 DEF old
  <1> HIDE DEF line
  <1>5. /\ written \in Seq(Seq(Parts)) /\ Len(written) = Len(f)
        /\ \A i \in 1 .. Len(f) : written[i] = IF i = Len(f) THEN line ELSE f[i]
    <2>1. f \in Seq(Seq(Parts))
      BY DEF Files
    <2> QED
      BY <1>1, <1>4, <2>1, ExceptSeq
  <1> HIDE DEF written
  <1>6. \A i \in 1 .. Len(f) : i \in DOMAIN g /\ g[i] = written[i]
    <2>1. g = written \/ g = Append(written, <<>>)
      BY DEF Put, written, line, text, last
    <2>2. CASE g = written
      BY <1>5, <2>2
    <2>3. CASE g = Append(written, <<>>)
      <3>1. <<>> \in Seq(Parts)
        OBVIOUS
      <3>2. /\ Append(written, <<>>) \in Seq(Seq(Parts))
            /\ Len(Append(written, <<>>)) = Len(written) + 1
            /\ \A i \in 1 .. Len(written) : Append(written, <<>>)[i] = written[i]
        BY <1>5, <3>1, AppendProperties
      <3>3. DOMAIN Append(written, <<>>) = 1 .. Len(f) + 1
        BY <1>5, <3>2
      <3>4. \A i \in 1 .. Len(f) : i \in 1 .. Len(f) + 1
        BY <1>1
      <3> QED
        BY <1>5, <2>3, <3>2, <3>3, <3>4
    <2> QED
      BY <2>1, <2>2, <2>3
  <1> HIDE DEF g
  <1>7. Extends(f, g)
    <2> SUFFICES ASSUME NEW i \in 1 .. Len(f), NEW k \in DOMAIN f[i]
                 PROVE  k \in DOMAIN g[i] /\ g[i][k] = f[i][k]
      BY <1>1, <1>6 DEF Extends
    <2>1. CASE i = Len(f)
      <3>1. DOMAIN f[i] = 1 .. Len(f[i]) /\ DOMAIN line = 1 .. Len(line)
        BY <1>1, <1>4, <2>1
      <3>2. k \in DOMAIN line /\ line[k] = f[i][k]
        BY <1>4, <2>1, <3>1
      <3> QED
        BY <1>5, <1>6, <2>1, <3>2
    <2>2. CASE i # Len(f)
      BY <1>5, <1>6, <2>2
    <2> QED
      BY <2>1, <2>2
  <1>8. ASSUME NEW j \in Written(n), j > m PROVE InFile(g, Whole(e)[j])
    <2> DEFINE k == Len(f[Len(f)]) + (j - m)
    <2>1. j \in m + 1 .. last
      BY <1>8 DEF Written, last
    <2>2. j - m \in 1 .. Len(text) /\ text[j - m] = Whole(e)[j]
      BY <1>3, <2>1
    <2>3. k \in 1 .. Len(line) /\ line[k] = Whole(e)[j]
      BY <1>4, <2>2
    <2> HIDE DEF k
    <2>4. k \in DOMAIN line
      BY <1>4, <2>3
    <2>5. g[Len(f)] = line /\ Len(f) \in DOMAIN g
      BY <1>1, <1>5, <1>6
    <2> QED
      BY <2>3, <2>4, <2>5 DEF InFile
  <1> QED
    BY <1>7, <1>8 DEF g

\* What has been written of the entry in a buffer is in the file; fsync has made
\* durable what was returned, or is about to be.
Landed(p) ==
  /\ pc[p] \notin HasEntry => done[p] = 0
  /\ pc[p] \in {"flushed", "synced"} => done[p] = 3
  /\ \A j \in Written(done[p]) : InFile(file, Whole(buffer[p])[j])
  /\ pc[p] = "synced" => \A j \in 1 .. 2 : OnDisk(Whole(buffer[p])[j])

AckedLanded == \A e \in acked : \A j \in 1 .. 2 : OnDisk(Whole(e)[j])

LandedInv == Typed /\ AckedLanded /\ \A p \in Procs : Landed(p)

\* Nothing is lost when the file grows and the mark stays.
LEMMA GrownKeeps ==
  ASSUME Extends(file, file'), synced' = synced
  PROVE  \A part : /\ OnDisk(part) => OnDisk(part)'
                   /\ InFile(file, part) => InFile(file', part)
  BY DEF Extends, OnDisk, InFile

\* fsync makes durable all that is in the file.
LEMMA FsyncKeeps ==
  ASSUME Typed, file' = file, synced' = End(file)
  PROVE  \A part : InFile(file, part) => OnDisk(part)'
  <1> SUFFICES ASSUME NEW i \in DOMAIN file, NEW k \in DOMAIN file[i]
               PROVE  AtOrAfter(End(file), <<i, k>>)
    BY DEF InFile, OnDisk
  <1>1. file \in Files /\ Len(file) >= 1
    BY DEF Typed, TypeOK
  <1>2. /\ i \in 1 .. Len(file) /\ Len(file) \in Nat /\ file[i] \in Seq(Parts)
        /\ Len(file[Len(file)]) \in Nat
    BY <1>1, LastLine, ElementOfSeq DEF Files
  <1>3. k \in 1 .. Len(file[i])
    BY <1>2
  <1> QED
    BY <1>2, <1>3 DEF End, AtOrAfter

\* A power loss spares what lies before the mark.
LEMMA PowerLossSpares ==
  ASSUME Typed, PowerLoss
  PROVE  \A part : OnDisk(part) => OnDisk(part)'
  <1>1. file \in Files /\ synced \in Nat \X Nat
    BY DEF Typed, TypeOK
  <1>2. PICK i \in DOMAIN file : \E k \in 0 .. Len(file[i]) :
          AtOrAfter(<<i, k>>, synced) /\ file' = Cut(file, i, k) /\ synced' = <<i, k>>
    BY DEF PowerLoss
  <1>3. PICK k \in 0 .. Len(file[i]) :
          AtOrAfter(<<i, k>>, synced) /\ file' = Cut(file, i, k) /\ synced' = <<i, k>>
    BY <1>2
  <1>4. /\ i \in 1 .. Len(file) /\ Len(file) \in Nat /\ Len(file[i]) \in Nat
        /\ file' \in Files /\ Len(file') = i
        /\ \A a \in 1 .. i - 1 : file'[a] = file[a]
        /\ file'[i] = SubSeq(file[i], 1, k)
    <2>1. Len(file) \in Nat
      BY <1>1 DEF Files
    <2>2. file' = Cut(file, i, k)
      BY <1>3
    <2>3. /\ i \in 1 .. Len(file) /\ Len(file[i]) \in Nat
          /\ Cut(file, i, k) \in Files /\ Len(Cut(file, i, k)) = i
          /\ \A a \in 1 .. i - 1 : Cut(file, i, k)[a] = file[a]
          /\ Cut(file, i, k)[i] = SubSeq(file[i], 1, k)
      BY <1>1, CutIs
    <2> QED
      BY <2>1, <2>2, <2>3, Zenon
  <1>5. /\ DOMAIN file' = 1 .. i /\ DOMAIN file = 1 .. Len(file)
        /\ k \in Nat /\ file[i] \in Seq(Parts)
    BY <1>1, <1>4, ElementOfSeq DEF Files
  <1>6. Len(file'[i]) = k /\ \A b \in 1 .. k : b \in DOMAIN file'[i] /\ file'[i][b] = file[i][b]
    <2> DEFINE line == file[i]
               cut  == SubSeq(line, 1, k)
    <2>1. line \in Seq(Parts) /\ k \in 0 .. Len(line) /\ Len(line) \in Nat
      BY <1>4, <1>5
    <2> HIDE DEF line
    <2>2. \A b \in 1 .. k : line[b] \in Parts
      <3>1. \A b \in 1 .. k : b \in 1 .. Len(line)
        BY <2>1
      <3> QED
        BY <2>1, <3>1, ElementOfSeq
    <2>3. /\ cut \in Seq(Parts)
          /\ Len(cut) = IF 1 <= k THEN k - 1 + 1 ELSE 0
          /\ \A b \in 1 .. k - 1 + 1 : cut[b] = line[1 + b - 1]
      BY <2>1, <2>2, SubSeqProperties
    <2> HIDE DEF cut
    <2>4. Len(cut) = k /\ \A b \in 1 .. k : b \in DOMAIN cut /\ cut[b] = line[b]
      BY <2>1, <2>3
    <2> QED
      BY <1>4, <2>4 DEF cut, line
  <1>7. ASSUME NEW part, NEW a \in DOMAIN file, NEW b \in DOMAIN file[a],
               file[a][b] = part, AtOrAfter(synced, <<a, b>>)
        PROVE  OnDisk(part)'
    <2>1. a \in 1 .. Len(file) /\ b \in Nat /\ b >= 1
      <3>1. file[a] \in Seq(Parts)
        BY <1>1, <1>5, <1>7, ElementOfSeq DEF Files
      <3> QED
        BY <1>5, <1>7, <3>1
    <2>2. a < i \/ (a = i /\ b <= k)
      BY <1>1, <1>3, <1>4, <1>5, <1>7, <2>1 DEF AtOrAfter
    <2>3. CASE a < i
      <3>1. a \in DOMAIN file' /\ file'[a] = file[a]
        BY <1>4, <1>5, <2>1, <2>3
      <3>2. AtOrAfter(<<i, k>>, <<a, b>>)
        BY <2>3 DEF AtOrAfter
      <3> QED
        BY <1>3, <1>7, <3>1, <3>2 DEF OnDisk
    <2>4. CASE a = i /\ b <= k
      <3>1. a \in DOMAIN file' /\ b \in DOMAIN file'[a] /\ file'[a][b] = file[a][b]
        BY <1>4, <1>5, <1>6, <2>1, <2>4
      <3>2. AtOrAfter(<<i, k>>, <<a, b>>)
        BY <2>4 DEF AtOrAfter
      <3> QED
        BY <1>3, <1>7, <3>1, <3>2 DEF OnDisk
    <2> QED
      BY <2>2, <2>3, <2>4
  <1> QED
    BY <1>7 DEF OnDisk

\* A process a step leaves alone keeps what it has on file.
LEMMA LandedKept ==
  ASSUME NEW p \in Procs, Landed(p),
         \A part : /\ OnDisk(part) => OnDisk(part)'
                   /\ InFile(file, part) => InFile(file', part),
         pc'[p] = pc[p], done'[p] = done[p], buffer'[p] = buffer[p]
  PROVE  Landed(p)'
  BY DEF Landed

\* One that is not at work on an entry, or has written nothing of it yet, has
\* nothing on file to keep.
LEMMA LandedLeft ==
  ASSUME NEW p \in Procs, pc'[p] \notin {"flushed", "synced"}, done'[p] = 0
  PROVE  Landed(p)'
  <1>1. Written(0) = {}
    BY DEF Written
  <1> QED
    BY <1>1 DEF Landed

LEMMA LandedInit == Init => LandedInv
  <1> SUFFICES ASSUME Init PROVE LandedInv
    OBVIOUS
  <1>1. AckedLanded
    BY DEF Init, AckedLanded
  <1>2. ASSUME NEW p \in Procs PROVE Landed(p)
    <2>1. Written(0) = {}
      BY DEF Written
    <2>2. done[p] = 0 /\ pc[p] = "idle"
      BY DEF Init
    <2> QED
      BY <2>1, <2>2 DEF Landed
  <1> QED
    BY TypedInit, <1>1, <1>2 DEF LandedInv

\* A step of p after which the others are where they were, and nothing that was
\* in the file has gone.
LEMMA LandedByOne ==
  ASSUME LandedInv, Typed', NEW p \in Procs, Landed(p)',
         \A part : /\ OnDisk(part) => OnDisk(part)'
                   /\ InFile(file, part) => InFile(file', part),
         \A q \in Procs \ {p} :
           pc'[q] = pc[q] /\ done'[q] = done[q] /\ buffer'[q] = buffer[q],
         \A e \in acked' \ acked : e = buffer[p] /\ pc[p] = "synced"
  PROVE  LandedInv'
  <1>1. ASSUME NEW q \in Procs PROVE Landed(q)'
    <2>1. CASE q = p
      BY <2>1
    <2>2. CASE q # p
      BY <2>2, LandedKept DEF LandedInv
    <2> QED
      BY <2>1, <2>2
  <1>2. ASSUME NEW e \in acked', NEW j \in 1 .. 2 PROVE OnDisk(Whole(e)[j])'
    <2>1. OnDisk(Whole(e)[j])
      BY <1>2 DEF LandedInv, AckedLanded, Landed
    <2> QED
      BY <2>1
  <1>3. AckedLanded'
    BY <1>2 DEF AckedLanded
  <1> QED
    BY <1>1, <1>3 DEF LandedInv

LEMMA LandedNext == LandedInv /\ [Next]_vars => LandedInv'
  <1> SUFFICES ASSUME LandedInv, [Next]_vars PROVE LandedInv'
    OBVIOUS
  <1>0. /\ Typed' /\ Typed
        /\ file \in Files /\ Len(file) >= 1
        /\ pc \in [Procs -> States]
        /\ buffer \in [Procs -> Entries \cup {NoEntry}]
        /\ done \in [Procs -> 0 .. 3]
    BY TypedNext DEF LandedInv, Typed, TypeOK
  <1> DEFINE Keeps == \A part : /\ OnDisk(part) => OnDisk(part)'
                                /\ InFile(file, part) => InFile(file', part)
  <1>1. ASSUME file' = file, synced' = synced PROVE Keeps
    BY <1>1, GrownKeeps DEF Extends
  <1>2. CASE UNCHANGED vars
    <2>1. /\ file' = file /\ synced' = synced /\ acked' = acked
          /\ pc' = pc /\ done' = done /\ buffer' = buffer
      BY <1>2 DEF vars
    <2>2. \A p \in Procs : Landed(p)'
      BY <1>1, <2>1, LandedKept DEF LandedInv
    <2>3. AckedLanded'
      BY <1>1, <2>1 DEF LandedInv, AckedLanded
    <2> QED
      BY <1>0, <2>2, <2>3 DEF LandedInv
  <1>3. ASSUME NEW p \in Procs, Call(p) \/ Lock(p) PROVE LandedInv'
    <2>1. /\ file' = file /\ synced' = synced /\ acked' = acked
          /\ done' = done /\ buffer' = buffer
          /\ pc[p] \in {"idle", "waiting"} /\ pc'[p] \in {"waiting", "locked"}
          /\ \A q \in Procs \ {p} : pc'[q] = pc[q]
      BY <1>0, <1>3 DEF Call, Lock, Goto
    <2>2. done'[p] = 0
      BY <2>1 DEF LandedInv, Landed, HasEntry
    <2>3. Landed(p)'
      BY <2>1, <2>2, LandedLeft
    <2> QED
      BY <1>0, <1>1, <2>1, <2>3, LandedByOne
  <1>4. ASSUME NEW p \in Procs, NEW e \in Events, ReadTail(p, e) PROVE LandedInv'
    <2>1. /\ file' = file /\ synced' = synced /\ acked' = acked /\ done' = done
          /\ pc[p] = "locked" /\ pc'[p] = "buffered"
          /\ \A q \in Procs \ {p} : pc'[q] = pc[q] /\ buffer'[q] = buffer[q]
      BY <1>0, <1>4 DEF ReadTail, Goto
    <2>2. done'[p] = 0
      BY <2>1 DEF LandedInv, Landed, HasEntry
    <2>3. Landed(p)'
      BY <2>1, <2>2, LandedLeft
    <2> QED
      BY <1>0, <1>1, <2>1, <2>3, LandedByOne
  <1>5. ASSUME NEW p \in Procs, RaiseOnTail(p) \/ Kill(p) PROVE LandedInv'
    <2>1. /\ file' = file /\ synced' = synced /\ acked' = acked
          /\ pc'[p] = "idle" /\ done'[p] = 0
          /\ \A q \in Procs \ {p} :
               pc'[q] = pc[q] /\ done'[q] = done[q] /\ buffer'[q] = buffer[q]
      BY <1>0, <1>5 DEF RaiseOnTail, Kill, Goto, Leave
    <2>2. Landed(p)'
      BY <2>1, LandedLeft
    <2> QED
      BY <1>0, <1>1, <2>1, <2>2, LandedByOne
  <1>6. ASSUME NEW p \in Procs, Flush(p) PROVE LandedInv'
    <2>1. PICK n \in done[p] + 1 .. 3 :
            /\ file' = Put(file, buffer[p], done[p], n)
            /\ done' = [done EXCEPT ![p] = n]
            /\ pc' = [pc EXCEPT ![p] = IF n = 3 THEN "flushed" ELSE "buffered"]
      BY <1>6 DEF Flush, Goto
    <2>2. /\ pc[p] = "buffered" /\ synced' = synced /\ acked' = acked
          /\ buffer' = buffer /\ buffer[p] \in Entries
      BY <1>0, <1>6 DEF Flush, Typed, Buffered, HasEntry
    <2>3. n \in 0 .. 3 /\ done[p] \in 0 .. 2 /\ done[p] <= n
      BY <1>0
    <2>4. /\ Extends(file, file')
          /\ \A j \in Written(n) : j > done[p] => InFile(file', Whole(buffer[p])[j])
      BY <1>0, <2>1, <2>2, <2>3, PutExtends
    <2>5. Keeps
      BY <2>2, <2>4, GrownKeeps
    <2>6. done'[p] = n /\ pc'[p] = IF n = 3 THEN "flushed" ELSE "buffered"
      BY <1>0, <2>1
    <2>7. ASSUME NEW j \in Written(n) PROVE InFile(file', Whole(buffer[p])[j])
      <3>1. CASE j > done[p]
        BY <2>4, <3>1
      <3>2. CASE ~(j > done[p])
        <4>1. j \in Written(done[p])
          BY <2>3, <3>2 DEF Written
        <4>2. InFile(file, Whole(buffer[p])[j])
          BY <4>1 DEF LandedInv, Landed
        <4> QED
          BY <2>5, <4>2
      <3> QED
        BY <3>1, <3>2
    <2>8. Landed(p)'
      <3>1. buffer'[p] = buffer[p]
        BY <2>2
      <3>2. pc'[p] \in HasEntry /\ pc'[p] # "synced" /\ (pc'[p] = "flushed" => n = 3)
        BY <2>6 DEF HasEntry
      <3>3. \A j \in Written(n) : InFile(file', Whole(buffer'[p])[j])
        BY <2>7, <3>1
      <3> QED
        BY <2>6, <3>2, <3>3 DEF Landed
    <2> QED
      BY <1>0, <2>1, <2>2, <2>5, <2>8, LandedByOne
  <1>7. ASSUME NEW p \in Procs, Fsync(p) PROVE LandedInv'
    <2>1. /\ file' = file /\ synced' = End(file) /\ acked' = acked
          /\ done' = done /\ buffer' = buffer
          /\ pc[p] = "flushed" /\ pc'[p] = "synced"
          /\ \A q \in Procs \ {p} : pc'[q] = pc[q]
      BY <1>0, <1>7 DEF Fsync, Goto
    <2>2. \A part : InFile(file, part) => OnDisk(part)'
      BY <1>0, <2>1, FsyncKeeps
    <2>3. Keeps
      <3>1. \A part : OnDisk(part) => InFile(file, part)
        BY DEF OnDisk, InFile
      <3>2. \A part : InFile(file, part) => InFile(file', part)
        BY <2>1
      <3> QED
        BY <2>2, <3>1, <3>2
    <2>4. done[p] = 3
      BY <2>1 DEF LandedInv, Landed
    <2>5. \A j \in 1 .. 2 : InFile(file, Whole(buffer[p])[j])
      <3>1. Written(3) = 1 .. 2
        BY DEF Written
      <3> QED
        BY <2>4, <3>1 DEF LandedInv, Landed
    <2>6. \A j \in 1 .. 2 : InFile(file', Whole(buffer'[p])[j])
      BY <2>1, <2>5
    <2>7. \A j \in 1 .. 2 : OnDisk(Whole(buffer[p])[j])'
      <3>1. \A part : InFile(file, part) => OnDisk(part)'
        BY <2>2
      <3>2. \A j \in 1 .. 2 : InFile(file, Whole(buffer'[p])[j])
        BY <2>1, <2>5
      <3> QED
        BY <3>1, <3>2
    <2>8. Landed(p)'
      <3>1. Written(3) = 1 .. 2
        BY DEF Written
      <3>2. done'[p] = 3 /\ pc'[p] \in HasEntry
        BY <2>1, <2>4 DEF HasEntry
      <3> QED
        BY <2>6, <2>7, <3>1, <3>2 DEF Landed
    <2> QED
      BY <1>0, <2>1, <2>3, <2>8, LandedByOne
  <1>8. ASSUME NEW p \in Procs, Return(p) PROVE LandedInv'
    <2>1. /\ file' = file /\ synced' = synced /\ acked' = acked \cup {buffer[p]}
          /\ pc[p] = "synced" /\ pc'[p] = "idle" /\ done'[p] = 0
          /\ \A q \in Procs \ {p} :
               pc'[q] = pc[q] /\ done'[q] = done[q] /\ buffer'[q] = buffer[q]
      BY <1>0, <1>8 DEF Return, Goto, Leave
    <2>2. Landed(p)'
      BY <2>1, LandedLeft
    <2> QED
      BY <1>0, <1>1, <2>1, <2>2, LandedByOne
  <1>9. ASSUME NEW p \in Procs, Interrupt(p) PROVE LandedInv'
    <2>1. /\ file' = file /\ synced' = synced /\ acked' = acked
          /\ \A q \in Procs \ {p} :
               pc'[q] = pc[q] /\ done'[q] = done[q] /\ buffer'[q] = buffer[q]
      BY <1>0, <1>9 DEF Interrupt, Goto, Leave
    <2>2. CASE pc[p] = "buffered"
      <3>1. /\ pc'[p] = "closing" /\ done' = done /\ buffer' = buffer
        BY <1>0, <1>9, <2>2 DEF Interrupt, Goto
      <3>2. \A j \in Written(done[p]) : InFile(file, Whole(buffer[p])[j])
        BY DEF LandedInv, Landed
      <3>3. Landed(p)'
        BY <2>1, <3>1, <3>2 DEF Landed, HasEntry
      <3> QED
        BY <1>0, <1>1, <2>1, <3>3, LandedByOne
    <2>3. CASE pc[p] # "buffered"
      <3>1. pc'[p] = "idle" /\ done'[p] = 0
        BY <1>0, <1>9, <2>3 DEF Interrupt, Goto, Leave
      <3>2. Landed(p)'
        BY <3>1, LandedLeft
      <3> QED
        BY <1>0, <1>1, <2>1, <3>2, LandedByOne
    <2> QED
      BY <2>2, <2>3
  <1>10. ASSUME NEW p \in Procs, Close(p) PROVE LandedInv'
    <2>1. /\ file' = Put(file, buffer[p], done[p], 3)
          /\ synced' = synced /\ acked' = acked
          /\ pc[p] = "closing" /\ pc'[p] = "idle" /\ done'[p] = 0
          /\ \A q \in Procs \ {p} :
               pc'[q] = pc[q] /\ done'[q] = done[q] /\ buffer'[q] = buffer[q]
      BY <1>0, <1>10 DEF Close, Goto, Leave
    <2>2. buffer[p] \in Entries /\ done[p] \in 0 .. 3 /\ done[p] <= 3 /\ 3 \in 0 .. 3
      BY <1>0, <2>1 DEF Typed, Buffered, HasEntry
    <2>3. Extends(file, file')
      BY <1>0, <2>1, <2>2, PutExtends
    <2>4. Keeps
      BY <2>1, <2>3, GrownKeeps
    <2>5. Landed(p)'
      BY <2>1, LandedLeft
    <2> QED
      BY <1>0, <2>1, <2>4, <2>5, LandedByOne
  <1>11. CASE PowerLoss
    <2>1. /\ acked' = acked
          /\ \A p \in Procs : pc'[p] = "idle" /\ done'[p] = 0
      BY <1>11 DEF PowerLoss
    <2>2. \A p \in Procs : Landed(p)'
      BY <2>1, LandedLeft
    <2>3. \A part : OnDisk(part) => OnDisk(part)'
      BY <1>0, <1>11, PowerLossSpares
    <2>4. AckedLanded'
      BY <2>1, <2>3 DEF LandedInv, AckedLanded
    <2> QED
      BY <1>0, <2>2, <2>4 DEF LandedInv
  <1> QED
    BY <1>2, <1>3, <1>4, <1>5, <1>6, <1>7, <1>8, <1>9, <1>10, <1>11 DEF Next, Step

\* Nothing of an entry that append() has returned is ever lost, whatever
\* processes, exceptions, kills and power losses, and wherever a write stops
\* (audit/logger.py:125-128).
THEOREM AckedStaysOnDisk == Spec => []AckedOnDisk
  <1>1. LandedInv => AckedOnDisk
    <2> SUFFICES ASSUME LandedInv, NEW e \in acked, NEW part \in {"head", "tail"}
                 PROVE  OnDisk([entry |-> e, part |-> part])
      BY DEF AckedOnDisk
    <2>1. /\ Whole(e)[1] = [entry |-> e, part |-> "head"]
          /\ Whole(e)[2] = [entry |-> e, part |-> "tail"]
      BY DEF Whole
    <2>2. OnDisk(Whole(e)[1]) /\ OnDisk(Whole(e)[2])
      BY DEF LandedInv, AckedLanded
    <2> QED
      BY <2>1, <2>2
  <1> QED
    BY LandedInit, LandedNext, <1>1, PTL DEF Spec

-----------------------------------------------------------------------------
(* The chain, without split newlines and with exceptions only in a process *)
(* that is alone                                                           *)

OneAtATime == \A w \in Interrupted : \A p, q \in w : p = q

\* Nobody but a writer is inside append(), and a process that still closes its
\* file after an exception is alone.
Lone ==
  \A p \in Procs :
    /\ pc[p] # "idle" => p \in writers
    /\ pc[p] = "closing" => \A q \in writers : q = p

\* The line that a write has begun and not finished.
Begun(e) == <<[entry |-> e, part |-> "head"]>>

Open == file[Len(file)]

\* Nothing is on the open line, or the beginning of an entry.
OpenLine == Open = <<>> \/ \E e \in Entries : Open = Begun(e)

EntryAt(i) == file[i][1].entry

PrevAt(i) == IF i = 1 THEN GenesisHash ELSE EntryAt(i - 1).hash

\* Entry e, at position i, is linked to the entry before it.
Linked(e, i) ==
  /\ e \in Entries
  /\ e.seq = i
  /\ e.prev = PrevAt(i)
  /\ e.hash = ComputeHash(e.seq, e.event, e.prev)

\* Every finished line holds one whole entry, linked to the one before it.
Chain ==
  \A i \in 1 .. Len(file) - 1 :
    /\ file[i] = Whole(EntryAt(i))
    /\ Linked(EntryAt(i), i)

\* The entry in a buffer is the one that comes next, and what has been written
\* of it is on the open line; when all of it is, it is the last finished line.
Hand(p) ==
  /\ pc[p] \in {"idle", "waiting", "locked"} => done[p] = 0
  /\ pc[p] \in {"buffered", "closing"} =>
       /\ Linked(buffer[p], Len(file))
       /\ \/ done[p] = 0 /\ Open = <<>>
          \/ done[p] = 1 /\ Open = Begun(buffer[p])
  /\ pc[p] \in {"flushed", "synced"} =>
       /\ Open = <<>>
       /\ Len(file) > 1
       /\ file[Len(file) - 1] = Whole(buffer[p])
  /\ pc[p] = "synced" => synced[1] = Len(file)

InHand == \A p \in Procs : Hand(p)

\* What was acknowledged lies before the mark that fsync has set.
Durable ==
  /\ synced[1] <= Len(file)
  /\ \A e \in acked :
       /\ e.seq \in 1 .. synced[1] - 1
       /\ file[e.seq] = Whole(e)

\* What the invariant says of the file alone.
FileInv == OpenLine /\ Chain

ChainInv == LockHeld /\ Lone /\ FileInv /\ InHand /\ Durable

\* The beginnings of the text of an entry, and of what has begun.
LEMMA Beginnings ==
  ASSUME NEW e \in Entries
  PROVE  /\ SubSeq(Whole(e), 1, 0) = <<>>
         /\ SubSeq(Whole(e), 1, 1) = Begun(e)
         /\ SubSeq(Whole(e), 1, 2) = Whole(e)
         /\ Begun(e) \o SubSeq(Whole(e), 2, 2) = Whole(e)
         /\ SubSeq(Begun(e), 1, 0) = <<>>
         /\ SubSeq(Begun(e), 1, 1) = Begun(e)
         /\ Len(Begun(e)) = 1
         /\ Begun(e) \in Seq(Parts)
  <1> DEFINE w == Whole(e)
  <1>1. w \in Seq(Parts) /\ Len(w) = 2 /\ <<w[1]>> = Begun(e)
    BY WholeIs DEF Begun
  <1>2. Begun(e) \in Seq(Parts) /\ Len(Begun(e)) = 1
    BY DEF Begun, Parts
  <1> HIDE DEF w
  <1>3. SubSeq(w, 1, 0) = <<>> /\ SubSeq(Begun(e), 1, 0) = <<>> /\ SubSeq(w, 2, 1) = <<>>
    BY SubSeqEmpty
  <1>4. SubSeq(w, 1, 1) = Begun(e)
    <2>1. SubSeq(w, 1, 1) = <<w[1]>> \o SubSeq(w, 1 + 1, 1)
      BY <1>1, SubSeqRecursiveFirst
    <2> QED
      BY <1>1, <1>2, <1>3, <2>1, ConcatEmptySeq
  <1>5. SubSeq(w, 1, 2) = w /\ SubSeq(Begun(e), 1, 1) = Begun(e)
    BY <1>1, <1>2, SubSeqFull
  <1>6. SubSeq(w, 1, 2) = <<w[1]>> \o SubSeq(w, 1 + 1, 2)
    BY <1>1, SubSeqRecursiveFirst
  <1>7. Begun(e) \o SubSeq(w, 2, 2) = w
    <2>1. 1 + 1 = 2
      OBVIOUS
    <2> QED
      BY <1>1, <1>5, <1>6, <2>1, Zenon
  <1> QED
    BY <1>2, <1>3, <1>4, <1>5, <1>7 DEF w

\* The first part of an entry goes on the open line.
LEMMA PutBegins ==
  ASSUME NEW f \in Files, Len(f) >= 1, NEW e \in Entries, f[Len(f)] = <<>>
  PROVE  /\ Len(Put(f, e, 0, 1)) = Len(f)
         /\ \A i \in 1 .. Len(f) - 1 : Put(f, e, 0, 1)[i] = f[i]
         /\ Put(f, e, 0, 1)[Len(f)] = Begun(e)
  <1>1. f[Len(f)] \o SubSeq(Whole(e), 1, 1) = Begun(e)
    BY Beginnings, ConcatEmptySeq
  <1>2. Put(f, e, 0, 1) = [f EXCEPT ![Len(f)] = Begun(e)]
    <2>1. 0 + 1 = 1 /\ 1 # 3
      OBVIOUS
    <2> QED
      BY <1>1, <2>1, Zenon DEF Put
  <1>3. Begun(e) \in Seq(Parts) /\ Len(f) \in 1 .. Len(f) /\ Len(f) \in Nat
    BY Beginnings, LastLine
  <1>4. /\ Len([f EXCEPT ![Len(f)] = Begun(e)]) = Len(f)
        /\ \A j \in 1 .. Len(f) :
             [f EXCEPT ![Len(f)] = Begun(e)][j] = IF j = Len(f) THEN Begun(e) ELSE f[j]
    BY <1>3, ExceptSeq DEF Files
  <1> QED
    BY <1>2, <1>3, <1>4

\* The rest of an entry, the newline included, finishes the open line.
LEMMA PutFinishes ==
  ASSUME NEW f \in Files, Len(f) >= 1, NEW e \in Entries, NEW m,
         \/ m = 0 /\ f[Len(f)] = <<>>
         \/ m = 1 /\ f[Len(f)] = Begun(e)
  PROVE  /\ Len(Put(f, e, m, 3)) = Len(f) + 1
         /\ \A i \in 1 .. Len(f) - 1 : Put(f, e, m, 3)[i] = f[i]
         /\ Put(f, e, m, 3)[Len(f)] = Whole(e)
         /\ Put(f, e, m, 3)[Len(f) + 1] = <<>>
  <1>1. f[Len(f)] \o SubSeq(Whole(e), m + 1, 2) = Whole(e)
    <2>1. CASE m = 0 /\ f[Len(f)] = <<>>
      BY <2>1, Beginnings, WholeIs, ConcatEmptySeq
    <2>2. CASE m = 1 /\ f[Len(f)] = Begun(e)
      BY <2>2, Beginnings
    <2> QED
      BY <2>1, <2>2
  <1>2. Whole(e) # <<>> /\ Whole(e) \in Seq(Parts)
    <2>1. Len(Whole(e)) = 2 /\ Whole(e) \in Seq(Parts)
      BY WholeIs
    <2>2. Len(<<>>) # 2
      OBVIOUS
    <2> QED
      BY <2>1, <2>2, Zenon
  <1> DEFINE written == [f EXCEPT ![Len(f)] = Whole(e)]
             more    == Append(written, <<>>)
  <1>3. Put(f, e, m, 3) = more
    BY <1>1, <1>2 DEF Put
  <1>4. Len(f) \in 1 .. Len(f) /\ Len(f) \in Nat /\ f \in Seq(Seq(Parts))
    BY LastLine DEF Files
  <1>5. /\ written \in Seq(Seq(Parts))
        /\ Len(written) = Len(f)
        /\ \A j \in 1 .. Len(f) : written[j] = IF j = Len(f) THEN Whole(e) ELSE f[j]
    BY <1>2, <1>4, ExceptSeq
  <1> HIDE DEF written
  <1>6. <<>> \in Seq(Parts)
    OBVIOUS
  <1>7. /\ Len(more) = Len(written) + 1
        /\ \A i \in 1 .. Len(written) : more[i] = written[i]
        /\ more[Len(written) + 1] = <<>>
    BY <1>5, <1>6, AppendProperties
  <1> HIDE DEF more
  <1>8. Len(more) = Len(f) + 1 /\ more[Len(f) + 1] = <<>>
    BY <1>5, <1>7, Zenon
  <1>9. \A i \in 1 .. Len(f) : more[i] = IF i = Len(f) THEN Whole(e) ELSE f[i]
    BY <1>5, <1>7, Zenon
  <1>10. \A i \in 1 .. Len(f) - 1 : i \in 1 .. Len(f) /\ i # Len(f)
    BY <1>4
  <1>11. more[Len(f)] = Whole(e) /\ \A i \in 1 .. Len(f) - 1 : more[i] = f[i]
    BY <1>4, <1>9, <1>10, Zenon
  <1> QED
    BY <1>3, <1>8, <1>11, Zenon

LEMMA ChainInvInit == Init => ChainInv
  <1> SUFFICES ASSUME Init PROVE ChainInv
    OBVIOUS
  <1>1. Len(file) = 1 /\ Open = <<>> /\ synced[1] = 1
    BY DEF Init, Open
  <1>2. LockHeld
    BY LockHeldInit
  <1>3. Lone
    BY DEF Init, Lone
  <1>4. Chain
    BY <1>1 DEF Chain
  <1>5. InHand
    BY DEF Init, InHand, Hand
  <1>6. Durable
    BY <1>1 DEF Init, Durable
  <1> QED
    BY <1>1, <1>2, <1>3, <1>4, <1>5, <1>6 DEF ChainInv, FileInv, OpenLine

\* While one process holds an entry no other does: it waits for the lock or for
\* the end of the only writer.
LEMMA OthersEmptyHanded ==
  ASSUME LockHeld, Lone, NEW p \in Procs, pc[p] \in HasEntry,
         NEW q \in Procs, q # p
  PROVE  pc[q] \notin HasEntry
  BY DEF LockHeld, Lone, HasEntry, Holding

LEMMA LoneNext ==
  OneAtATime /\ Typed /\ Lone /\ [Next]_vars => Lone'
  <1> SUFFICES ASSUME OneAtATime, Typed, Lone, [Next]_vars PROVE Lone'
    OBVIOUS
  <1>0. pc \in [Procs -> States] /\ writers' = writers
    BY DEF Typed, TypeOK, Next, vars
  <1> USE DEF Lone, Goto, Leave
  <1>1. CASE UNCHANGED vars
    BY <1>1 DEF vars
  <1>2. ASSUME NEW p \in Procs, Call(p) PROVE Lone'
    BY <1>0, <1>2 DEF Call
  <1>3. ASSUME NEW p \in Procs, Lock(p) PROVE Lone'
    BY <1>0, <1>3 DEF Lock
  <1>4. ASSUME NEW p \in Procs, NEW e \in Events, ReadTail(p, e) PROVE Lone'
    BY <1>0, <1>4 DEF ReadTail
  <1>5. ASSUME NEW p \in Procs, RaiseOnTail(p) PROVE Lone'
    BY <1>0, <1>5 DEF RaiseOnTail
  <1>6. ASSUME NEW p \in Procs, Flush(p) PROVE Lone'
    BY <1>0, <1>6 DEF Flush
  <1>7. ASSUME NEW p \in Procs, Fsync(p) PROVE Lone'
    BY <1>0, <1>7 DEF Fsync
  <1>8. ASSUME NEW p \in Procs, Return(p) PROVE Lone'
    BY <1>0, <1>8 DEF Return
  <1>9. ASSUME NEW p \in Procs, Interrupt(p) PROVE Lone'
    <2>1. \A x, y \in writers : x = y
      BY <1>9 DEF Interrupt, OneAtATime
    <2> QED
      BY <1>0, <1>9, <2>1 DEF Interrupt
  <1>10. ASSUME NEW p \in Procs, Close(p) PROVE Lone'
    BY <1>0, <1>10 DEF Close
  <1>11. ASSUME NEW p \in Procs, Kill(p) PROVE Lone'
    BY <1>0, <1>11 DEF Kill
  <1>12. CASE PowerLoss
    BY <1>0, <1>12 DEF PowerLoss
  <1> QED
    BY <1>1, <1>2, <1>3, <1>4, <1>5, <1>6, <1>7, <1>8, <1>9, <1>10, <1>11,
       <1>12 DEF Next, Step

\* A step that leaves the file alone leaves all of this.
LEMMA FileKept ==
  ASSUME file' = file
  PROVE  /\ FileInv => FileInv'
         /\ Open' = Open
         /\ \A e, i : Linked(e, i) => Linked(e, i)'
  BY DEF FileInv, OpenLine, Chain, Open, Linked, EntryAt, PrevAt

\* The links of the lines up to the first one that changed are as they were.
LEMMA EarlierLines ==
  ASSUME NEW n \in Nat, \A i \in 1 .. n - 1 : file'[i] = file[i]
  PROVE  /\ \A i \in 1 .. n - 1 : EntryAt(i)' = EntryAt(i)
         /\ \A i \in 1 .. n : PrevAt(i)' = PrevAt(i)
         /\ \A i \in 1 .. n : \A e : Linked(e, i) => Linked(e, i)'
  <1>1. \A i \in 1 .. n - 1 : EntryAt(i)' = EntryAt(i)
    BY DEF EntryAt
  <1>2. ASSUME NEW i \in 1 .. n PROVE PrevAt(i)' = PrevAt(i)
    <2>1. CASE i = 1
      BY <2>1 DEF PrevAt
    <2>2. CASE i # 1
      <3>1. i - 1 \in 1 .. n - 1
        BY <2>2
      <3> QED
        BY <1>1, <2>2, <3>1 DEF PrevAt
    <2> QED
      BY <2>1, <2>2
  <1> QED
    BY <1>1, <1>2 DEF Linked

\* A line that is finished, with the entry that comes next.
Finished(e) ==
  /\ Len(file') = Len(file) + 1
  /\ \A i \in 1 .. Len(file) - 1 : file'[i] = file[i]
  /\ file'[Len(file)] = Whole(e)
  /\ file'[Len(file) + 1] = <<>>

\* Finishing the line of the next entry keeps the chain, and with it every line
\* that was acknowledged.
LEMMA FinishedKeeps ==
  ASSUME Typed, FileInv, NEW e, Linked(e, Len(file)), Finished(e)
  PROVE  /\ FileInv'
         /\ Open' = <<>>
         /\ Durable /\ synced' = synced /\ acked' = acked => Durable'
  <1>0. Len(file) \in Nat /\ Len(file) >= 1 /\ e \in Entries
    BY LastLine DEF Typed, TypeOK, Linked
  <1>1. Open' = <<>>
    BY DEF Finished, Open
  <1>2. \A i \in 1 .. Len(file) - 1 : EntryAt(i)' = EntryAt(i)
    BY DEF Finished, EntryAt
  <1>3. \A i : i = Len(file) => EntryAt(i)' = e
    BY <1>0, WholeIs DEF Finished, EntryAt
  <1>4. \A i \in 1 .. Len(file) : PrevAt(i)' = PrevAt(i)
    BY <1>0, EarlierLines DEF Finished
  <1>5. Chain'
    <2> SUFFICES ASSUME NEW i \in 1 .. Len(file)' - 1
                 PROVE  file'[i] = Whole(EntryAt(i)') /\ Linked(EntryAt(i), i)'
      BY DEF Chain
    <2>1. CASE i = Len(file)
      <3>1. EntryAt(i)' = e /\ file'[i] = Whole(e) /\ PrevAt(i)' = PrevAt(i)
        BY <1>0, <1>3, <1>4, <2>1 DEF Finished
      <3>2. Linked(e, i)
        BY <2>1
      <3> QED
        BY <3>1, <3>2 DEF Linked
    <2>2. CASE i # Len(file)
      <3>1. i \in 1 .. Len(file) - 1 /\ i \in 1 .. Len(file)
        BY <1>0, <2>2 DEF Finished
      <3> QED
        BY <1>2, <1>4, <3>1 DEF FileInv, Chain, Finished, Linked
    <2> QED
      BY <2>1, <2>2
  <1>6. ASSUME Durable, synced' = synced, acked' = acked PROVE Durable'
    <2>1. synced[1] \in Nat
      BY DEF Typed, TypeOK
    <2>2. \A x \in acked : x.seq \in 1 .. Len(file) - 1
      BY <1>0, <1>6, <2>1 DEF Durable
    <2>3. Len(file') >= synced[1]
      BY <1>0, <1>6, <2>1 DEF Durable, Finished
    <2> QED
      BY <1>6, <2>2, <2>3 DEF Durable, Finished
  <1> QED
    BY <1>1, <1>5, <1>6 DEF FileInv, OpenLine

\* In a file that keeps the invariant, the last line a reader sees parses only
\* when nothing is on the open line.
LEMMA ParsedIsClosed ==
  ASSUME Typed, FileInv, LastParses
  PROVE  Open = <<>>
  <1> SUFFICES ASSUME NEW e \in Entries, Open = Begun(e) PROVE FALSE
    BY DEF FileInv, OpenLine
  <1>1. Len(Open) = 1 /\ Open # <<>>
    BY Beginnings
  <1>2. Lines(file) = file
    BY <1>1 DEF Lines, Open
  <1>3. file # <<>>
    BY DEF Typed, TypeOK
  <1>4. Parses(Open)
    BY <1>2, <1>3 DEF LastParses, Open
  <1> QED
    BY <1>1, <1>4 DEF Parses

\* The entry that append() builds from the last line is the one that comes next.
LEMMA ReadTailLinks ==
  ASSUME Typed, Typed', FileInv, NEW p \in Procs, NEW event \in Events,
         ReadTail(p, event)
  PROVE  Open = <<>> /\ Linked(buffer[p], Len(file))'
  <1>1. Open = <<>>
    BY ParsedIsClosed DEF ReadTail
  <1>2. /\ file \in Files /\ Len(file) >= 1 /\ Len(file) \in Nat
        /\ pc \in [Procs -> States]
        /\ buffer \in [Procs -> Entries \cup {NoEntry}]
    BY LastLine DEF Typed, TypeOK
  <1> DEFINE ls == Lines(file)
  <1>3. /\ ls \in Files
        /\ Len(ls) = Len(file) - 1
        /\ \A i \in 1 .. Len(ls) : ls[i] = file[i]
    BY <1>1, <1>2, LinesAre DEF Open
  <1>4. buffer'[p] \in Entries
    BY <1>2 DEF ReadTail, Goto, Typed, Buffered, HasEntry
  <1>5. buffer'[p] = IF ls = <<>>
                       THEN NewEntry(0, GenesisHash, event)
                       ELSE NewEntry(ls[Len(ls)][1].entry.seq,
                                     ls[Len(ls)][1].entry.hash, event)
    BY <1>2 DEF ReadTail
  <1> HIDE DEF ls
  <1>6. CASE Len(file) = 1
    <2>1. ls = <<>>
      BY <1>3, <1>6 DEF Files
    <2>2. buffer'[p] = NewEntry(0, GenesisHash, event)
      BY <1>5, <2>1
    <2> QED
      BY <1>1, <1>4, <1>6, <2>2 DEF Linked, PrevAt, NewEntry, ReadTail
  <1>7. CASE Len(file) # 1
    <2>1. ls # <<>> /\ ls[Len(ls)] = file[Len(file) - 1]
      BY <1>2, <1>3, <1>7
    <2>2. buffer'[p] = NewEntry(EntryAt(Len(file) - 1).seq,
                                EntryAt(Len(file) - 1).hash, event)
      BY <1>3, <1>5, <2>1 DEF EntryAt
    <2>3. EntryAt(Len(file) - 1).seq = Len(file) - 1
      <3> DEFINE n == Len(file)
      <3>0. n \in Nat /\ n >= 1 /\ n # 1
        BY <1>2, <1>7
      <3> HIDE DEF n
      <3>1. n - 1 \in 1 .. n - 1
        BY <3>0
      <3> USE DEF n
      <3>2. \A i \in 1 .. Len(file) - 1 : Linked(EntryAt(i), i)
        BY DEF FileInv, Chain
      <3>3. Linked(EntryAt(Len(file) - 1), Len(file) - 1)
        BY <3>1, <3>2, Zenon
      <3> QED
        BY <3>3, Zenon DEF Linked
    <2>4. /\ buffer'[p].seq = Len(file)
          /\ buffer'[p].prev = PrevAt(Len(file))
          /\ buffer'[p].hash = ComputeHash(buffer'[p].seq, buffer'[p].event, buffer'[p].prev)
      BY <1>2, <1>7, <2>2, <2>3 DEF NewEntry, PrevAt
    <2>5. file' = file
      BY DEF ReadTail
    <2> QED
      BY <1>1, <1>4, <2>4, <2>5 DEF Linked, PrevAt, EntryAt
  <1> QED
    BY <1>6, <1>7

\* A process whose surroundings do not change has in hand what it had.
LEMMA SameHand ==
  ASSUME NEW q \in Procs, Hand(q), file' = file, synced' = synced,
         pc'[q] = pc[q], buffer'[q] = buffer[q], done'[q] = done[q]
  PROVE  Hand(q)'
  BY FileKept DEF Hand

\* A process with no entry has nothing in hand that the file could contradict.
LEMMA EmptyHand ==
  ASSUME NEW q \in Procs, Hand(q), pc'[q] = pc[q], done'[q] = done[q],
         pc[q] \notin HasEntry
  PROVE  Hand(q)'
  BY DEF Hand, HasEntry

\* An append that is over leaves nothing in hand.
LEMMA LeftHand ==
  ASSUME NEW p \in Procs, pc'[p] = "idle", done'[p] = 0
  PROVE  Hand(p)'
  BY DEF Hand

\* Writing the first part of the next entry leaves the finished lines alone.
LEMMA FlushBegins ==
  ASSUME Typed, ChainInv, NEW p \in Procs, pc[p] = "buffered", done[p] = 0,
         file' = Put(file, buffer[p], 0, 1)
  PROVE  /\ FileInv'
         /\ Len(file') = Len(file)
         /\ \A i \in 1 .. Len(file) - 1 : file'[i] = file[i]
         /\ Open' = Begun(buffer[p])
         /\ \A e : e = buffer[p] => Linked(e, Len(file))'
         /\ synced' = synced /\ acked' = acked => Durable'
  <1>1. /\ file \in Files /\ Len(file) >= 1 /\ Len(file) \in Nat
        /\ buffer[p] \in Entries /\ synced[1] \in Nat
    BY LastLine DEF Typed, TypeOK, Buffered, HasEntry
  <1>2. file[Len(file)] = <<>>
    <2>1. Open = <<>>
      BY DEF ChainInv, InHand, Hand
    <2> QED
      BY <2>1 DEF Open
  <1>3. /\ Len(file') = Len(file)
        /\ \A i \in 1 .. Len(file) - 1 : file'[i] = file[i]
        /\ file'[Len(file)] = Begun(buffer[p])
    BY <1>1, <1>2, PutBegins
  <1>4. Open' = Begun(buffer[p])
    BY <1>3 DEF Open
  <1>5. /\ \A i \in 1 .. Len(file) - 1 : EntryAt(i)' = EntryAt(i)
        /\ \A i \in 1 .. Len(file) : \A e : Linked(e, i) => Linked(e, i)'
    BY <1>1, <1>3, EarlierLines
  <1>6. Chain'
    <2> SUFFICES ASSUME NEW i \in 1 .. Len(file)' - 1
                 PROVE  file'[i] = Whole(EntryAt(i)') /\ Linked(EntryAt(i), i)'
      BY DEF Chain
    <2>1. i \in 1 .. Len(file) - 1 /\ i \in 1 .. Len(file)
      BY <1>1, <1>3
    <2>2. file[i] = Whole(EntryAt(i)) /\ Linked(EntryAt(i), i)
      BY <2>1 DEF ChainInv, FileInv, Chain
    <2>3. \A e : e = EntryAt(i) => Linked(e, i)'
      BY <1>5, <2>1, <2>2
    <2> QED
      BY <1>3, <1>5, <2>1, <2>2, <2>3 DEF Linked
  <1>7. ASSUME synced' = synced, acked' = acked PROVE Durable'
    <2>1. \A x \in acked : x.seq \in 1 .. Len(file) - 1
      BY <1>1 DEF ChainInv, Durable
    <2> QED
      BY <1>3, <1>7, <2>1 DEF ChainInv, Durable
  <1>8. ASSUME NEW e, e = buffer[p] PROVE Linked(e, Len(file))'
    <2>1. Len(file) \in 1 .. Len(file) /\ Linked(e, Len(file))
      BY <1>1, <1>8 DEF ChainInv, InHand, Hand
    <2>2. \A i : i = Len(file) => Linked(e, i)'
      BY <1>5, <1>8, <2>1
    <2> QED
      BY <1>3, <2>2 DEF Linked
  <1> QED
    BY <1>1, <1>3, <1>4, <1>6, <1>7, <1>8 DEF FileInv, OpenLine

\* A power loss leaves a beginning of the file, at or after the mark.
LEMMA PowerLossIs ==
  ASSUME Typed, PowerLoss
  PROVE  \E i \in 1 .. Len(file) : \E k \in 0 .. Len(file[i]) :
           /\ i >= synced[1]
           /\ i < Len(file) /\ k = Len(file[i]) => SplitNewline
           /\ Len(file') = i
           /\ \A j \in 1 .. i - 1 : file'[j] = file[j]
           /\ file'[i] = SubSeq(file[i], 1, k)
           /\ synced'[1] = i
  <1>1. PICK i \in DOMAIN file : \E k \in 0 .. Len(file[i]) :
          /\ AtOrAfter(<<i, k>>, synced)
          /\ (i < Len(file) /\ k = Len(file[i])) => SplitNewline
          /\ file' = Cut(file, i, k)
          /\ synced' = <<i, k>>
    BY DEF PowerLoss
  <1>2. PICK k \in 0 .. Len(file[i]) :
          /\ AtOrAfter(<<i, k>>, synced)
          /\ (i < Len(file) /\ k = Len(file[i])) => SplitNewline
          /\ file' = Cut(file, i, k)
          /\ synced' = <<i, k>>
    BY <1>1
  <1>3. file \in Files /\ Len(file) \in Nat /\ synced[1] \in Nat
    BY LastLine DEF Typed, TypeOK
  <1>4. /\ i \in 1 .. Len(file)
        /\ Len(file') = i
        /\ \A j \in 1 .. i - 1 : file'[j] = file[j]
        /\ file'[i] = SubSeq(file[i], 1, k)
    BY <1>2, <1>3, CutIs
  <1>5. i >= synced[1]
    BY <1>2, <1>3, <1>4 DEF AtOrAfter
  <1> QED
    BY <1>2, <1>4, <1>5

\* What a power loss leaves is the chain up to a line, and no more than the
\* beginning of an entry after it.
LEMMA PowerLossKeeps ==
  ASSUME ~SplitNewline, Typed, ChainInv, PowerLoss
  PROVE  FileInv' /\ Durable'
  <1>1. PICK i \in 1 .. Len(file) : \E k \in 0 .. Len(file[i]) :
          /\ i >= synced[1]
          /\ ~(i < Len(file) /\ k = Len(file[i]))
          /\ Len(file') = i
          /\ \A j \in 1 .. i - 1 : file'[j] = file[j]
          /\ file'[i] = SubSeq(file[i], 1, k)
          /\ synced'[1] = i
    BY PowerLossIs
  <1>2. PICK k \in 0 .. Len(file[i]) :
          /\ i >= synced[1]
          /\ ~(i < Len(file) /\ k = Len(file[i]))
          /\ Len(file') = i
          /\ \A j \in 1 .. i - 1 : file'[j] = file[j]
          /\ file'[i] = SubSeq(file[i], 1, k)
          /\ synced'[1] = i
    BY <1>1
  <1>3. Len(file) \in Nat /\ synced[1] \in Nat /\ i \in 1 .. Len(file)
    BY LastLine DEF Typed, TypeOK
  <1>4. /\ Len(file') = i
        /\ \A j \in 1 .. i - 1 : file'[j] = file[j]
        /\ file'[i] = SubSeq(file[i], 1, k)
    BY <1>2
  <1>5. /\ \A j \in 1 .. i - 1 : EntryAt(j)' = EntryAt(j)
        /\ \A j \in 1 .. i : \A e : Linked(e, j) => Linked(e, j)'
    <2>1. i \in Nat
      BY <1>4
    <2>2. \A j \in 1 .. i - 1 : file'[j] = file[j]
      BY <1>4
    <2> QED
      BY <2>1, <2>2, EarlierLines
  <1>6. Chain'
    <2> SUFFICES ASSUME NEW j \in 1 .. Len(file)' - 1
                 PROVE  file'[j] = Whole(EntryAt(j)') /\ Linked(EntryAt(j), j)'
      BY DEF Chain
    <2>1. j \in 1 .. Len(file) - 1 /\ j \in 1 .. i /\ j \in 1 .. i - 1
      BY <1>3, <1>4
    <2>2. file[j] = Whole(EntryAt(j)) /\ Linked(EntryAt(j), j)
      BY <2>1 DEF ChainInv, FileInv, Chain
    <2>3. \A e : e = EntryAt(j) => Linked(e, j)'
      BY <1>5, <2>1, <2>2
    <2> QED
      BY <1>4, <1>5, <2>1, <2>2, <2>3 DEF Linked
  <1>7. OpenLine'
    <2>1. Open' = SubSeq(file[i], 1, k)
      BY <1>4 DEF Open
    <2>2. CASE i = Len(file)
      <3>1. CASE file[i] = <<>>
        BY <2>1, <3>1 DEF OpenLine
      <3>2. ASSUME NEW e \in Entries, file[i] = Begun(e) PROVE OpenLine'
        <4>1. k = 0 \/ k = 1
          BY <3>2, Beginnings
        <4> QED
          BY <2>1, <3>2, <4>1, Beginnings DEF OpenLine
      <3> QED
        BY <2>2, <3>1, <3>2 DEF ChainInv, FileInv, OpenLine, Open
    <2>3. CASE i # Len(file)
      <3>1. i \in 1 .. Len(file) - 1
        BY <1>3, <1>4, <2>3
      <3>2. file[i] = Whole(EntryAt(i)) /\ EntryAt(i) \in Entries
        BY <3>1 DEF ChainInv, FileInv, Chain, Linked
      <3>3. k = 0 \/ k = 1
        <4>1. Len(file[i]) = 2
          BY <3>2, WholeIs
        <4>2. i < Len(file)
          BY <1>3, <3>1
        <4> QED
          BY <1>2, <4>1, <4>2
      <3> QED
        BY <2>1, <3>2, <3>3, Beginnings DEF OpenLine
    <2> QED
      BY <2>2, <2>3
  <1>8. Durable'
    <2>1. synced'[1] = i /\ acked' = acked
      BY <1>2 DEF PowerLoss
    <2>2. i >= synced[1]
      BY <1>2
    <2>3. \A e \in acked : e.seq \in 1 .. i - 1 /\ file[e.seq] = Whole(e)
      BY <1>3, <1>4, <2>2 DEF ChainInv, Durable
    <2> QED
      BY <1>4, <2>1, <2>3 DEF Durable
  <1> QED
    BY <1>6, <1>7, <1>8 DEF FileInv

\* A step that touches neither the file nor the mark nor what was acknowledged
\* keeps the three parts of the invariant when it keeps the hand of its process.
LEMMA QuietStep ==
  ASSUME Typed, ChainInv, NEW p \in Procs,
         file' = file, synced' = synced, acked' = acked,
         \A q \in Procs : q # p => /\ pc'[q] = pc[q]
                                   /\ buffer'[q] = buffer[q]
                                   /\ done'[q] = done[q],
         Hand(p)'
  PROVE  FileInv' /\ InHand' /\ Durable'
  <1>1. FileInv'
    BY FileKept DEF ChainInv
  <1>2. Durable'
    BY DEF ChainInv, Durable
  <1>3. ASSUME NEW q \in Procs, q # p PROVE Hand(q)'
    BY <1>3, SameHand DEF ChainInv, InHand
  <1> QED
    BY <1>1, <1>2, <1>3 DEF InHand

\* The step that reads the last line and builds the entry.
LEMMA ReadTailKeeps ==
  ASSUME Typed, Typed', ChainInv, NEW p \in Procs, NEW e \in Events, ReadTail(p, e)
  PROVE  FileInv' /\ InHand' /\ Durable'
  <1>1. Open = <<>> /\ Linked(buffer[p], Len(file))'
    BY ReadTailLinks DEF ChainInv
  <1>2. /\ pc[p] = "locked" /\ pc'[p] = "buffered"
        /\ file' = file /\ synced' = synced /\ acked' = acked /\ done' = done
        /\ \A q \in Procs : q # p => pc'[q] = pc[q] /\ buffer'[q] = buffer[q]
    BY DEF ReadTail, Goto, Typed, TypeOK
  <1>3. done'[p] = 0
    BY <1>2 DEF ChainInv, InHand, Hand
  <1>4. Open' = <<>>
    BY <1>1, <1>2, FileKept
  <1>5. Hand(p)'
    BY <1>1, <1>2, <1>3, <1>4 DEF Hand
  <1> QED
    BY <1>2, <1>5, QuietStep

\* A flush writes the beginning of the entry, or all that is left of it.
LEMMA FlushIs ==
  ASSUME ~SplitNewline, Typed, ChainInv, NEW p \in Procs, Flush(p)
  PROVE  \/ /\ pc'[p] = "flushed"
            /\ Finished(buffer[p])
         \/ /\ pc'[p] = "buffered" /\ done[p] = 0 /\ done'[p] = 1
            /\ file' = Put(file, buffer[p], 0, 1)
  <1>1. PICK n \in done[p] + 1 .. 3 :
          /\ n = 2 => SplitNewline
          /\ file' = Put(file, buffer[p], done[p], n)
          /\ done' = [done EXCEPT ![p] = n]
          /\ pc' = [pc EXCEPT ![p] = IF n = 3 THEN "flushed" ELSE "buffered"]
    BY DEF Flush, Goto
  <1>2. /\ pc[p] = "buffered" /\ file \in Files /\ Len(file) >= 1
        /\ buffer[p] \in Entries
    BY DEF Flush, Typed, TypeOK, Buffered, HasEntry
  <1>3. \/ done[p] = 0 /\ file[Len(file)] = <<>>
        \/ done[p] = 1 /\ file[Len(file)] = Begun(buffer[p])
    BY <1>2 DEF ChainInv, InHand, Hand, Open
  <1>4. n = 3 \/ (n = 1 /\ done[p] = 0)
    BY <1>1, <1>3
  <1>5. CASE n = 3
    <2>1. file' = Put(file, buffer[p], done[p], 3)
      BY <1>1, <1>5
    <2>2. pc'[p] = "flushed"
      BY <1>1, <1>5 DEF Typed, TypeOK
    <2> QED
      BY <1>2, <1>3, <2>1, <2>2, PutFinishes DEF Finished
  <1>6. CASE n = 1 /\ done[p] = 0
    <2>1. file' = Put(file, buffer[p], 0, 1)
      BY <1>1, <1>6
    <2> QED
      BY <1>1, <1>6, <2>1 DEF Typed, TypeOK
  <1> QED
    BY <1>4, <1>5, <1>6

LEMMA FlushKeeps ==
  ASSUME ~SplitNewline, Typed, ChainInv, NEW p \in Procs, Flush(p)
  PROVE  FileInv' /\ InHand' /\ Durable'
  <1>1. /\ pc[p] = "buffered"
        /\ synced' = synced /\ acked' = acked /\ buffer' = buffer
        /\ \A q \in Procs : q # p => pc'[q] = pc[q] /\ done'[q] = done[q]
    BY DEF Flush, Goto, Typed, TypeOK
  <1>2. Linked(buffer[p], Len(file))
    BY <1>1 DEF ChainInv, InHand, Hand
  <1>3. \A q \in Procs : q # p => Hand(q)'
    BY <1>1, OthersEmptyHanded, EmptyHand DEF ChainInv, InHand, HasEntry
  <1>4. CASE pc'[p] = "flushed" /\ Finished(buffer[p])
    <2>1. FileInv' /\ Open' = <<>> /\ Durable'
      BY <1>1, <1>2, <1>4, FinishedKeeps DEF ChainInv
    <2>2. Len(file') > 1 /\ file'[Len(file') - 1] = Whole(buffer'[p])
      <3>1. Len(file) \in Nat /\ Len(file) >= 1
        BY LastLine DEF Typed, TypeOK
      <3>2. Len(file') = Len(file) + 1
        BY <1>4 DEF Finished
      <3>3. Len(file') > 1 /\ Len(file') - 1 = Len(file)
        BY <3>1, <3>2
      <3> QED
        BY <1>1, <1>4, <3>3 DEF Finished
    <2>3. Hand(p)'
      BY <1>4, <2>1, <2>2 DEF Hand
    <2> QED
      BY <1>3, <2>1, <2>3 DEF InHand
  <1>5. CASE /\ pc'[p] = "buffered" /\ done[p] = 0 /\ done'[p] = 1
             /\ file' = Put(file, buffer[p], 0, 1)
    <2>1. /\ FileInv' /\ Durable'
          /\ Len(file') = Len(file)
          /\ Open' = Begun(buffer[p])
          /\ \A e : e = buffer[p] => Linked(e, Len(file))'
      BY <1>1, <1>5, FlushBegins
    <2>2. Linked(buffer[p], Len(file))'
      BY <1>1, <2>1 DEF Linked
    <2>3. Hand(p)'
      BY <1>1, <1>5, <2>1, <2>2 DEF Hand
    <2> QED
      BY <1>3, <2>1, <2>3 DEF InHand
  <1> QED
    BY <1>4, <1>5, FlushIs

\* The close that follows an exception writes what is left of the entry.
LEMMA CloseIs ==
  ASSUME Typed, ChainInv, NEW p \in Procs, Close(p)
  PROVE  Finished(buffer[p]) /\ Linked(buffer[p], Len(file))
  <1>1. pc[p] = "closing" /\ file' = Put(file, buffer[p], done[p], 3)
    BY DEF Close
  <1>2. /\ Linked(buffer[p], Len(file))
        /\ \/ done[p] = 0 /\ file[Len(file)] = <<>>
           \/ done[p] = 1 /\ file[Len(file)] = Begun(buffer[p])
    BY <1>1 DEF ChainInv, InHand, Hand, Open
  <1>3. file \in Files /\ Len(file) >= 1 /\ buffer[p] \in Entries
    BY <1>1 DEF Typed, TypeOK, Buffered, HasEntry
  <1> QED
    BY <1>1, <1>2, <1>3, PutFinishes DEF Finished

LEMMA CloseKeeps ==
  ASSUME Typed, ChainInv, NEW p \in Procs, Close(p)
  PROVE  FileInv' /\ InHand' /\ Durable'
  <1>1. /\ pc[p] = "closing" /\ pc'[p] = "idle" /\ done'[p] = 0
        /\ synced' = synced /\ acked' = acked
        /\ \A q \in Procs : q # p => pc'[q] = pc[q] /\ done'[q] = done[q]
    BY DEF Close, Leave, Goto, Typed, TypeOK
  <1>2. \A q \in Procs : q # p => Hand(q)'
    BY <1>1, OthersEmptyHanded, EmptyHand DEF ChainInv, InHand, HasEntry
  <1>3. FileInv' /\ Durable'
    BY <1>1, CloseIs, FinishedKeeps DEF ChainInv
  <1> QED
    BY <1>1, <1>2, <1>3, LeftHand DEF InHand

LEMMA ChainInvNext ==
  OneAtATime /\ ~SplitNewline /\ Typed /\ ChainInv /\ [Next]_vars => ChainInv'
  <1> SUFFICES ASSUME OneAtATime, ~SplitNewline, Typed, ChainInv, [Next]_vars
               PROVE  ChainInv'
    OBVIOUS
  <1>0. Typed' /\ LockHeld' /\ Lone'
    BY TypedNext, LockHeldNext, LoneNext DEF ChainInv
  <1>a. /\ pc \in [Procs -> States]
        /\ buffer \in [Procs -> Entries \cup {NoEntry}]
        /\ done \in [Procs -> 0 .. 3]
    BY DEF Typed, TypeOK
  <1> SUFFICES FileInv' /\ InHand' /\ Durable'
    BY <1>0 DEF ChainInv
  <1>1. CASE UNCHANGED vars
    <2>1. FileInv' /\ Durable'
      BY <1>1, FileKept DEF vars, ChainInv, Durable
    <2>2. InHand'
      BY <1>1, SameHand DEF vars, ChainInv, InHand
    <2> QED
      BY <2>1, <2>2
  <1>2. ASSUME NEW p \in Procs, Call(p) PROVE FileInv' /\ InHand' /\ Durable'
    <2>1. Hand(p)'
      BY <1>2, <1>a DEF Call, Goto, ChainInv, InHand, Hand
    <2> QED
      BY <1>2, <1>a, <2>1, QuietStep DEF Call, Goto
  <1>3. ASSUME NEW p \in Procs, Lock(p) PROVE FileInv' /\ InHand' /\ Durable'
    <2>1. Hand(p)'
      BY <1>3, <1>a DEF Lock, Goto, ChainInv, InHand, Hand
    <2> QED
      BY <1>3, <1>a, <2>1, QuietStep DEF Lock, Goto
  <1>4. ASSUME NEW p \in Procs, NEW e \in Events, ReadTail(p, e)
        PROVE  FileInv' /\ InHand' /\ Durable'
    BY <1>0, <1>4, ReadTailKeeps
  <1>5. ASSUME NEW p \in Procs, RaiseOnTail(p) PROVE FileInv' /\ InHand' /\ Durable'
    <2>1. Hand(p)'
      BY <1>5, <1>a, LeftHand DEF RaiseOnTail, Leave, Goto
    <2> QED
      BY <1>5, <1>a, <2>1, QuietStep DEF RaiseOnTail, Leave, Goto
  <1>6. ASSUME NEW p \in Procs, Flush(p) PROVE FileInv' /\ InHand' /\ Durable'
    BY <1>6, FlushKeeps
  <1>7. ASSUME NEW p \in Procs, Fsync(p) PROVE FileInv' /\ InHand' /\ Durable'
    <2>1. /\ pc[p] = "flushed" /\ pc'[p] = "synced"
          /\ file' = file /\ buffer' = buffer /\ done' = done /\ acked' = acked
          /\ synced'[1] = Len(file)
          /\ \A q \in Procs : q # p => pc'[q] = pc[q]
      BY <1>7, <1>a DEF Fsync, Goto, End
    <2>2. FileInv' /\ Open' = Open
      BY <2>1, FileKept DEF ChainInv
    <2>3. \A q \in Procs : q # p => Hand(q)'
      BY <2>1, OthersEmptyHanded, EmptyHand DEF ChainInv, InHand, HasEntry
    <2>4. Hand(p)'
      BY <2>1, <2>2 DEF ChainInv, InHand, Hand
    <2>5. Durable'
      <3>1. Len(file) \in Nat /\ synced[1] \in Nat
        BY LastLine DEF Typed, TypeOK
      <3>2. \A e \in acked : e.seq \in 1 .. Len(file) - 1
        BY <3>1 DEF ChainInv, Durable
      <3> QED
        BY <2>1, <3>1, <3>2 DEF ChainInv, Durable
    <2> QED
      BY <2>2, <2>3, <2>4, <2>5 DEF InHand
  <1>8. ASSUME NEW p \in Procs, Return(p) PROVE FileInv' /\ InHand' /\ Durable'
    <2>1. /\ pc[p] = "synced" /\ pc'[p] = "idle" /\ done'[p] = 0
          /\ file' = file /\ synced' = synced /\ acked' = acked \cup {buffer[p]}
          /\ \A q \in Procs : q # p => /\ pc'[q] = pc[q]
                                       /\ buffer'[q] = buffer[q]
                                       /\ done'[q] = done[q]
      BY <1>8, <1>a DEF Return, Leave, Goto
    <2>2. FileInv'
      BY <2>1, FileKept DEF ChainInv
    <2>3. InHand'
      BY <2>1, SameHand, LeftHand DEF ChainInv, InHand
    <2>4. Durable'
      <3> DEFINE n == Len(file) - 1
      <3>1. /\ synced[1] = Len(file) /\ Len(file) > 1
            /\ file[n] = Whole(buffer[p])
        BY <2>1 DEF ChainInv, InHand, Hand
      <3>2. n \in 1 .. Len(file) - 1
        BY <3>1, LastLine DEF Typed, TypeOK
      <3>3. buffer[p] \in Entries
        BY <2>1 DEF Typed, Buffered, HasEntry
      <3>4. EntryAt(n) = buffer[p]
        BY <3>1, <3>3, WholeIs DEF EntryAt
      <3>5. EntryAt(n).seq = n
        <4> HIDE DEF n
        <4> QED
          BY <3>2 DEF ChainInv, FileInv, Chain, Linked
      <3>6. buffer[p].seq \in 1 .. synced[1] - 1 /\ file[buffer[p].seq] = Whole(buffer[p])
        <4>1. buffer[p].seq = n
          BY <3>4, <3>5
        <4> HIDE DEF n
        <4> QED
          BY <3>1, <3>2, <4>1
      <3> QED
        BY <2>1, <3>6 DEF ChainInv, Durable
    <2> QED
      BY <2>2, <2>3, <2>4
  <1>9. ASSUME NEW p \in Procs, Interrupt(p) PROVE FileInv' /\ InHand' /\ Durable'
    <2>1. /\ file' = file /\ synced' = synced /\ acked' = acked
          /\ \A q \in Procs : q # p => /\ pc'[q] = pc[q]
                                       /\ buffer'[q] = buffer[q]
                                       /\ done'[q] = done[q]
      BY <1>9, <1>a DEF Interrupt, Leave, Goto
    <2>2. CASE pc[p] = "buffered"
      <3>1. pc'[p] = "closing" /\ buffer' = buffer /\ done' = done
        BY <1>9, <1>a, <2>2 DEF Interrupt, Goto
      <3>2. Hand(p)'
        BY <2>1, <2>2, <3>1, FileKept DEF ChainInv, InHand, Hand
      <3> QED
        BY <2>1, <3>2, QuietStep
    <2>3. CASE pc[p] # "buffered"
      <3>1. Hand(p)'
        BY <1>9, <1>a, <2>3, LeftHand DEF Interrupt, Leave, Goto
      <3> QED
        BY <2>1, <3>1, QuietStep
    <2> QED
      BY <2>2, <2>3
  <1>10. ASSUME NEW p \in Procs, Close(p) PROVE FileInv' /\ InHand' /\ Durable'
    BY <1>10, CloseKeeps
  <1>11. ASSUME NEW p \in Procs, Kill(p) PROVE FileInv' /\ InHand' /\ Durable'
    <2>1. Hand(p)'
      BY <1>11, <1>a, LeftHand DEF Kill, Leave, Goto
    <2> QED
      BY <1>11, <1>a, <2>1, QuietStep DEF Kill, Leave, Goto
  <1>12. CASE PowerLoss
    <2>1. InHand'
      BY <1>12, LeftHand DEF PowerLoss, InHand
    <2> QED
      BY <1>12, <2>1, PowerLossKeeps
  <1> QED
    BY <1>1, <1>2, <1>3, <1>4, <1>5, <1>6, <1>7, <1>8, <1>9, <1>10, <1>11,
       <1>12 DEF Next, Step

\* Nobody splits a write before the newline and an exception meets a process
\* that is alone: then the invariant holds all along.
LEMMA ChainInvAlways ==
  ASSUME OneAtATime, ~SplitNewline
  PROVE  Spec => [](Typed /\ ChainInv)
  <1>1. Typed /\ ChainInv /\ [Next]_vars => (Typed /\ ChainInv)'
    BY TypedNext, ChainInvNext
  <1> QED
    BY TypedInit, ChainInvInit, <1>1, PTL DEF Spec

-----------------------------------------------------------------------------
(* What verify_chain() and a reader see *)

LEMMA ChainIsIntact == Typed /\ ChainInv => ChainIntact
  <1> SUFFICES ASSUME Typed, ChainInv PROVE ChainIntact
    OBVIOUS
  <1> DEFINE n     == Len(file) - 1
             ended == SubSeq(file, 1, n)
             es    == [i \in DOMAIN ended |-> ended[i][1].entry]
  <1>1. n \in Nat /\ Len(file) = n + 1 /\ file \in Seq(Seq(Parts))
    BY LastLine DEF Typed, TypeOK, Files
  <1>2. \A i \in 1 .. n : file[i] = Whole(EntryAt(i)) /\ Linked(EntryAt(i), i)
    BY DEF ChainInv, FileInv, Chain
  <1>3. ChainIntact <=> (\A i \in DOMAIN ended : Parses(ended[i])) /\ VerifyChain(es)
    BY DEF ChainIntact
  <1> HIDE DEF n
  <1>4. DOMAIN ended = 1 .. n /\ \A i \in 1 .. n : ended[i] = file[i]
    <2>1. \A j \in 1 .. n : file[j] \in Seq(Parts)
      BY <1>1, ElementOfSeq
    <2>2. /\ ended \in Seq(Seq(Parts))
          /\ Len(ended) = IF 1 <= n THEN n - 1 + 1 ELSE 0
          /\ \A j \in 1 .. n - 1 + 1 : ended[j] = file[1 + j - 1]
      BY <1>1, <2>1, SubSeqProperties
    <2> HIDE DEF ended
    <2>3. DOMAIN ended = 1 .. Len(ended) /\ Len(ended) = n
      BY <1>1, <2>2
    <2> QED
      BY <1>1, <2>2, <2>3
  <1> HIDE DEF ended
  <1>5. \A i \in 1 .. n : es[i] = EntryAt(i) /\ EntryAt(i) \in Entries
    BY <1>2, <1>4 DEF EntryAt, Linked
  <1>6. ASSUME NEW i \in DOMAIN ended PROVE Parses(ended[i])
    <2>1. i \in 1 .. n
      BY <1>4, <1>6
    <2>2. ended[i] = Whole(EntryAt(i)) /\ EntryAt(i) \in Entries
      BY <1>2, <1>4, <1>5, <2>1
    <2>3. Len(ended[i]) = 2 /\ ended[i][1].entry = EntryAt(i)
      BY <2>2, WholeIs
    <2> QED
      BY <2>2, <2>3, Zenon DEF Parses
  <1>7. VerifyChain(es)
    <2>1. DOMAIN es = 1 .. n
      BY <1>4
    <2> HIDE DEF es
    <2> SUFFICES ASSUME NEW i \in 1 .. n
                 PROVE  /\ es[i].seq = i
                        /\ es[i].prev = PrevHash(es, i)
                        /\ es[i].hash = ComputeHash(es[i].seq, es[i].event, es[i].prev)
      BY <2>1 DEF VerifyChain
    <2>2. PrevHash(es, i) = PrevAt(i)
      <3>1. CASE i = 1
        BY <3>1 DEF PrevHash, PrevAt
      <3>2. CASE i # 1
        <4>1. i - 1 \in 1 .. n
          BY <1>1, <3>2
        <4> QED
          BY <1>5, <3>2, <4>1 DEF PrevHash, PrevAt
      <3> QED
        BY <3>1, <3>2
    <2> QED
      BY <1>2, <1>5, <2>2 DEF Linked
  <1> QED
    BY <1>3, <1>6, <1>7

\* Whatever processes interleave, die or lose the machine, the finished lines
\* parse and verify_chain() accepts them (audit/logger.py:107, 137-152), as
\* long as no write stops exactly before its newline and an exception meets a
\* process that appends alone.
THEOREM ChainStaysIntact ==
  ASSUME OneAtATime, ~SplitNewline
  PROVE  Spec => []ChainIntact
  BY ChainInvAlways, ChainIsIntact, PTL

\* Under the same conditions an entry that append() has returned is readable at
\* its own position for ever (audit/logger.py:125-130).
THEOREM AckedStaysReadable ==
  ASSUME OneAtATime, ~SplitNewline
  PROVE  Spec => []AckedReadable
  <1>1. Typed /\ ChainInv => AckedReadable
    <2> SUFFICES ASSUME Typed, ChainInv PROVE AckedReadable
      OBVIOUS
    <2> SUFFICES ASSUME NEW e \in acked
                 PROVE  e.seq \in DOMAIN Lines(file) /\ Lines(file)[e.seq] = Whole(e)
      BY DEF AckedReadable
    <2>1. /\ file \in Files /\ Len(file) >= 1
          /\ Len(file) \in Nat /\ synced[1] \in Nat
      BY LastLine DEF Typed, TypeOK
    <2> DEFINE ls == Lines(file)
    <2>2. /\ ls \in Files
          /\ Len(ls) = IF Open = <<>> THEN Len(file) - 1 ELSE Len(file)
          /\ \A i \in 1 .. Len(ls) : ls[i] = file[i]
      BY <2>1, LinesAre DEF Open
    <2>3. DOMAIN ls = 1 .. Len(ls)
      BY <2>2 DEF Files
    <2> HIDE DEF ls
    <2>4. e.seq \in 1 .. synced[1] - 1 /\ file[e.seq] = Whole(e) /\ synced[1] <= Len(file)
      BY DEF ChainInv, Durable
    <2>5. e.seq \in 1 .. Len(ls)
      BY <2>1, <2>2, <2>4
    <2> QED
      BY <2>2, <2>3, <2>4, <2>5 DEF ls
  <1> QED
    BY ChainInvAlways, <1>1, PTL

-----------------------------------------------------------------------------
(* The append-only log *)

\* The events of the finished lines.
FinishedEvents == [i \in 1 .. Len(file) - 1 |-> EntryAt(i).event]

Kept == {e.seq : e \in acked}

LEMMA FinishedEventsType ==
  ASSUME Typed, ChainInv
  PROVE  /\ FinishedEvents \in Seq(Events)
         /\ Len(FinishedEvents) = Len(file) - 1
         /\ DOMAIN FinishedEvents = 1 .. Len(file) - 1
         /\ \A i \in 1 .. Len(file) - 1 : FinishedEvents[i] = EntryAt(i).event
  <1>1. Len(file) \in Nat /\ Len(file) >= 1
    BY LastLine DEF Typed, TypeOK
  <1>2. \A i \in 1 .. Len(file) - 1 : EntryAt(i).event \in Events
    BY DEF ChainInv, FileInv, Chain, Linked, Entries
  <1> DEFINE n == Len(file) - 1
  <1>3. n \in Nat
    BY <1>1
  <1> HIDE DEF n
  <1>4. /\ [i \in 1 .. n |-> EntryAt(i).event] \in Seq(Events)
        /\ Len([i \in 1 .. n |-> EntryAt(i).event]) = n
    BY <1>2, <1>3 DEF n
  <1> QED
    BY <1>4 DEF n, FinishedEvents

\* A reader never sees more than the finished lines.
LEMMA ReadableIsFinished ==
  ASSUME Typed, ChainInv
  PROVE  ReadableEvents = FinishedEvents
  <1>1. file \in Files /\ Len(file) >= 1 /\ Len(file) \in Nat
    BY LastLine DEF Typed, TypeOK
  <1> DEFINE ls == Lines(file)
             n  == Len(file) - 1
  <1>2. /\ ls \in Files
        /\ Len(ls) = IF Open = <<>> THEN n ELSE Len(file)
        /\ \A i \in 1 .. Len(ls) : ls[i] = file[i]
    BY <1>1, LinesAre DEF Open
  <1>3. DOMAIN ls = 1 .. Len(ls) /\ Len(ls) \in Nat
    BY <1>2 DEF Files
  <1>4. ReadableEvents = IF LastParses
                           THEN [i \in DOMAIN ls |-> ls[i][1].entry.event]
                           ELSE [i \in 1 .. Len(ls) - 1 |-> ls[i][1].entry.event]
    BY DEF ReadableEvents
  <1>5. LastParses <=> (ls # <<>> => Parses(ls[Len(ls)]))
    BY DEF LastParses
  <1> HIDE DEF ls
  <1>6. CASE Open = <<>>
    <2>1. LastParses
      <3>1. CASE n = 0
        <4>1. Len(ls) = 0
          BY <1>2, <1>6, <3>1, Zenon
        <4>2. ls = <<>>
          BY <1>2, <4>1, EmptySeq DEF Files
        <4> QED
          BY <1>5, <4>2, Zenon
      <3>2. CASE n # 0
        <4>1. n \in 1 .. n
          <5>1. n \in Nat
            BY <1>1
          <5> HIDE DEF n
          <5> QED
            BY <3>2, <5>1
        <4>2. ls[Len(ls)] = file[n] /\ Linked(EntryAt(n), n) /\ file[n] = Whole(EntryAt(n))
          <5> HIDE DEF n
          <5>1. Len(ls) = n
            BY <1>2, <1>6
          <5>2. \A i \in 1 .. n : file[i] = Whole(EntryAt(i)) /\ Linked(EntryAt(i), i)
            BY DEF ChainInv, FileInv, Chain, n
          <5> QED
            BY <1>2, <4>1, <5>1, <5>2
        <4> HIDE DEF n
        <4>3. EntryAt(n) \in Entries
          BY <4>2, Zenon DEF Linked
        <4>4. Len(Whole(EntryAt(n))) = 2 /\ Whole(EntryAt(n))[1].entry = EntryAt(n)
          BY <4>3, WholeIs
        <4>5. Parses(ls[Len(ls)])
          BY <4>2, <4>4, Zenon DEF Parses
        <4> QED
          BY <1>5, <4>5
      <3> QED
        BY <3>1, <3>2
    <2>2. ReadableEvents = [i \in 1 .. n |-> ls[i][1].entry.event]
      BY <1>2, <1>3, <1>4, <1>6, <2>1
    <2>3. \A i \in 1 .. n : ls[i] = file[i]
      BY <1>2, <1>6
    <2> QED
      BY <2>2, <2>3 DEF FinishedEvents, EntryAt
  <1>7. CASE Open # <<>>
    <2>1. ~LastParses
      BY <1>7, ParsedIsClosed DEF ChainInv
    <2>2. ReadableEvents = [i \in 1 .. n |-> ls[i][1].entry.event]
      BY <1>2, <1>4, <1>7, <2>1
    <2>3. \A i \in 1 .. n : ls[i] = file[i]
      BY <1>1, <1>2, <1>7
    <2> QED
      BY <2>2, <2>3 DEF FinishedEvents, EntryAt
  <1> QED
    BY <1>6, <1>7

\* A line that is finished is an event added at the end.
LEMMA FinishedAdds ==
  ASSUME Typed, Typed', ChainInv, ChainInv', NEW e \in Entries, Finished(e)
  PROVE  FinishedEvents' = Append(FinishedEvents, e.event)
  <1>1. Len(file) \in Nat /\ Len(file) >= 1
    BY LastLine DEF Typed, TypeOK
  <1>2. /\ FinishedEvents \in Seq(Events) /\ Len(FinishedEvents) = Len(file) - 1
        /\ \A i \in 1 .. Len(file) - 1 : FinishedEvents[i] = EntryAt(i).event
    BY FinishedEventsType
  <1>3. e.event \in Events
    BY DEF Entries
  <1>4. FinishedEvents' = [i \in 1 .. Len(file) |-> (EntryAt(i)').event]
    BY <1>1 DEF FinishedEvents, Finished, EntryAt
  <1>5. \A i \in 1 .. Len(file) - 1 : EntryAt(i)' = EntryAt(i)
    BY DEF EntryAt, Finished
  <1>6. \A i : i = Len(file) => EntryAt(i)' = e
    BY WholeIs DEF EntryAt, Finished
  <1> DEFINE es == FinishedEvents
             n  == Len(file)
             t  == [i \in 1 .. n |-> (EntryAt(i)').event]
  <1>7. \A i \in 1 .. n : t[i] = IF i < n THEN es[i] ELSE e.event
    BY <1>1, <1>2, <1>5, <1>6
  <1>8. /\ Append(es, e.event) \in Seq(Events)
        /\ Len(Append(es, e.event)) = n
        /\ \A i \in 1 .. n : Append(es, e.event)[i] = IF i < n THEN es[i] ELSE e.event
    <2> HIDE DEF es
    <2>1. /\ Append(es, e.event) \in Seq(Events)
          /\ Len(Append(es, e.event)) = Len(es) + 1
          /\ \A i \in 1 .. Len(es) : Append(es, e.event)[i] = es[i]
          /\ Append(es, e.event)[Len(es) + 1] = e.event
      BY <1>2, <1>3, AppendProperties DEF es
    <2>2. Len(es) = n - 1 /\ n \in Nat /\ n >= 1
      BY <1>1, <1>2 DEF es
    <2> HIDE DEF n
    <2> QED
      BY <2>1, <2>2
  <1>9. DOMAIN t = 1 .. n /\ DOMAIN Append(es, e.event) = 1 .. n
    <2> HIDE DEF es
    <2> QED
      BY <1>8
  <1>10. t = Append(es, e.event)
    <2>1. /\ t = [i \in 1 .. n |-> t[i]]
          /\ Append(es, e.event) = [i \in 1 .. n |-> Append(es, e.event)[i]]
      BY <1>8, <1>9
    <2> HIDE DEF t, es
    <2> QED
      BY <1>7, <1>8, <2>1
  <1> QED
    BY <1>4, <1>10

\* A fault that cuts the file loses events at its end, none of them acknowledged.
LEMMA PowerLossLoses ==
  ASSUME Typed, Typed', ChainInv, ChainInv', PowerLoss
  PROVE  \E n \in 0 .. Len(FinishedEvents) :
           /\ \A i \in Kept : i <= n
           /\ FinishedEvents' = SubSeq(FinishedEvents, 1, n)
           /\ Kept' = Kept
  <1>1. PICK i \in 1 .. Len(file) :
          /\ i >= synced[1]
          /\ Len(file') = i
          /\ \A j \in 1 .. i - 1 : file'[j] = file[j]
    BY PowerLossIs
  <1> DEFINE n  == i - 1
             es == FinishedEvents
             t  == [j \in 1 .. n |-> (EntryAt(j)').event]
  <1>2. Len(file) \in Nat /\ synced[1] \in Nat /\ i \in Nat
    BY LastLine DEF Typed, TypeOK
  <1>3. /\ es \in Seq(Events) /\ Len(es) = Len(file) - 1
        /\ \A j \in 1 .. Len(file) - 1 : es[j] = EntryAt(j).event
    BY FinishedEventsType
  <1>4. n \in 0 .. Len(es) /\ n \in Nat
    BY <1>2, <1>3
  <1>5. \A x \in Kept : x <= n
    BY <1>1, <1>2 DEF Kept, ChainInv, Durable
  <1>6. FinishedEvents' = t
    BY <1>1 DEF FinishedEvents, EntryAt
  <1>7. \A j \in 1 .. n : t[j] = es[j]
    <2>1. \A j \in 1 .. n : EntryAt(j)' = EntryAt(j)
      BY <1>1 DEF EntryAt
    <2>2. \A j \in 1 .. n : j \in 1 .. Len(file) - 1
      BY <1>2
    <2> QED
      BY <1>3, <2>1, <2>2
  <1> HIDE DEF es, n
  <1>8. \A j \in 1 .. n : es[j] \in Events
    BY <1>3, <1>4
  <1>9. /\ SubSeq(es, 1, n) \in Seq(Events)
        /\ Len(SubSeq(es, 1, n)) = n
        /\ \A j \in 1 .. n : SubSeq(es, 1, n)[j] = es[j]
    <2>1. /\ SubSeq(es, 1, n) \in Seq(Events)
          /\ Len(SubSeq(es, 1, n)) = IF 1 <= n THEN n - 1 + 1 ELSE 0
          /\ \A j \in 1 .. n - 1 + 1 : SubSeq(es, 1, n)[j] = es[1 + j - 1]
      BY <1>4, <1>8, SubSeqProperties
    <2> DEFINE u == SubSeq(es, 1, n)
    <2> HIDE DEF u
    <2>2. Len(u) = n /\ \A j \in 1 .. n : u[j] = es[j]
      BY <1>4, <2>1 DEF u
    <2> QED
      BY <2>1, <2>2 DEF u
  <1>10. t \in Seq(Events) /\ Len(t) = n
    BY <1>4, <1>7, <1>8
  <1>11. t = SubSeq(es, 1, n)
    <2> DEFINE u == SubSeq(es, 1, n)
    <2> HIDE DEF u, t
    <2>1. u \in Seq(Events) /\ Len(u) = n /\ \A j \in 1 .. n : u[j] = es[j]
      BY <1>9 DEF u
    <2>2. t = u
      BY <1>7, <1>10, <2>1, SeqEqual
    <2> QED
      BY <2>2 DEF u
  <1>12. Kept' = Kept
    BY DEF PowerLoss, Kept
  <1> QED
    BY <1>4, <1>5, <1>6, <1>11, <1>12 DEF es

LEMMA PromiseInit == Init => Promise!Init
  <1> SUFFICES ASSUME Init PROVE Promise!Init
    OBVIOUS
  <1>1. Typed /\ ChainInv /\ Len(file) = 1
    BY TypedInit, ChainInvInit DEF Init
  <1>2. FinishedEvents \in Seq(Events) /\ Len(FinishedEvents) = 0
    BY <1>1, FinishedEventsType
  <1>3. ReadableEvents = <<>>
    BY <1>1, <1>2, ReadableIsFinished, EmptySeq
  <1> QED
    BY <1>3 DEF Init, Promise!Init

LEMMA PromiseNext ==
  ASSUME ~SplitNewline, Typed, Typed', ChainInv, ChainInv', [Next]_vars,
         ReadableEvents = FinishedEvents, ReadableEvents' = FinishedEvents'
  PROVE  [Promise!Next]_<<ReadableEvents, {e.seq : e \in acked}>>
  <1>1. ASSUME file' = file, acked' = acked
        PROVE  UNCHANGED <<ReadableEvents, {e.seq : e \in acked}>>
    BY <1>1 DEF FinishedEvents, EntryAt
  <1>2. ASSUME NEW p \in Procs, Finished(buffer[p]), Linked(buffer[p], Len(file)),
               acked' = acked
        PROVE  Promise!Next
    <2>1. buffer[p] \in Entries /\ buffer[p].event \in Events
      BY <1>2 DEF Linked, Entries
    <2>2. ReadableEvents' = Append(ReadableEvents, buffer[p].event)
      BY <1>2, <2>1, FinishedAdds
    <2>3. Promise!Add(buffer[p].event)
      BY <1>2, <2>2 DEF Promise!Add
    <2> QED
      BY <2>1, <2>3 DEF Promise!Next
  <1>3. ASSUME NEW p \in Procs, Flush(p)
        PROVE  [Promise!Next]_<<ReadableEvents, {e.seq : e \in acked}>>
    <2>1. pc[p] = "buffered" /\ acked' = acked
      BY <1>3 DEF Flush
    <2>2. CASE Finished(buffer[p])
      BY <1>2, <2>1, <2>2 DEF ChainInv, InHand, Hand
    <2>3. CASE done[p] = 0 /\ file' = Put(file, buffer[p], 0, 1)
      <3>1. /\ Len(file') = Len(file)
            /\ \A i \in 1 .. Len(file) - 1 : file'[i] = file[i]
        BY <2>1, <2>3, FlushBegins
      <3>2. FinishedEvents' = FinishedEvents
        BY <3>1 DEF FinishedEvents, EntryAt
      <3> QED
        BY <2>1, <3>2
    <2> QED
      BY <1>3, <2>2, <2>3, FlushIs
  <1>4. ASSUME NEW p \in Procs, Return(p) PROVE Promise!Next
    <2> DEFINE n == Len(file) - 1
    <2>1. /\ pc[p] = "synced" /\ file' = file /\ acked' = acked \cup {buffer[p]}
      BY <1>4 DEF Return
    <2>2. /\ Len(file) > 1 /\ file[n] = Whole(buffer[p]) /\ buffer[p] \in Entries
      BY <2>1 DEF ChainInv, InHand, Hand, Typed, Buffered, HasEntry
    <2>3. n \in 1 .. n /\ DOMAIN FinishedEvents = 1 .. n
      <3>1. n \in 1 .. n
        BY <2>2, LastLine DEF Typed, TypeOK
      <3> QED
        BY <3>1, FinishedEventsType
    <2>4. buffer[p].seq = n
      <3> HIDE DEF n
      <3>1. EntryAt(n) = buffer[p]
        BY <2>2, WholeIs DEF EntryAt
      <3>2. \A i \in 1 .. n : Linked(EntryAt(i), i)
        BY DEF ChainInv, FileInv, Chain, n
      <3> QED
        BY <2>3, <3>1, <3>2 DEF Linked
    <2>5. ReadableEvents' = ReadableEvents
      BY <2>1 DEF FinishedEvents, EntryAt
    <2>6. {e.seq : e \in acked'} = {e.seq : e \in acked} \cup {n}
      BY <2>1, <2>4
    <2>7. PICK i : i = n
      OBVIOUS
    <2>8. Promise!Acknowledge(i) /\ i \in DOMAIN ReadableEvents
      BY <2>3, <2>5, <2>6, <2>7 DEF Promise!Acknowledge
    <2> QED
      BY <2>8 DEF Promise!Next
  <1>5. ASSUME NEW p \in Procs, Close(p) PROVE Promise!Next
    BY <1>2, <1>5, CloseIs DEF Close
  <1>6. ASSUME PowerLoss PROVE Promise!Next
    <2>1. PICK n \in 0 .. Len(FinishedEvents) :
            /\ \A i \in Kept : i <= n
            /\ FinishedEvents' = SubSeq(FinishedEvents, 1, n)
            /\ Kept' = Kept
      BY <1>6, PowerLossLoses
    <2>2. Promise!Lose(n) /\ n \in 0 .. Len(ReadableEvents)
      BY <2>1 DEF Promise!Lose, Kept
    <2> QED
      BY <2>2 DEF Promise!Next
  <1>7. ASSUME NEW p \in Procs,
               \/ Call(p) \/ Lock(p) \/ (\E e \in Events : ReadTail(p, e))
               \/ RaiseOnTail(p) \/ Fsync(p) \/ Interrupt(p) \/ Kill(p)
        PROVE  file' = file /\ acked' = acked
    BY <1>7 DEF Call, Lock, ReadTail, RaiseOnTail, Fsync, Interrupt, Kill
  <1>8. CASE UNCHANGED vars
    BY <1>1, <1>8 DEF vars
  <1> QED
    BY <1>1, <1>3, <1>4, <1>5, <1>6, <1>7, <1>8 DEF Next, Step

\* append() implements the append-only log: a step adds one event at the end,
\* acknowledges one that is there, or loses a tail of which nobody was told
\* (audit/logger.py:105-135), under the conditions above.
THEOREM ImplementsLog ==
  ASSUME OneAtATime, ~SplitNewline
  PROVE  Spec => ImplementsAppendOnlyLog
  <1>1. Typed /\ ChainInv => ReadableEvents = FinishedEvents
    BY ReadableIsFinished
  <1>2. /\ Typed /\ Typed' /\ ChainInv /\ ChainInv' /\ [Next]_vars
        /\ ReadableEvents = FinishedEvents /\ (ReadableEvents = FinishedEvents)'
        => [Promise!Next]_<<ReadableEvents, {e.seq : e \in acked}>>
    BY PromiseNext
  <1> QED
    BY ChainInvAlways, PromiseInit, <1>1, <1>2, PTL
       DEF Spec, ImplementsAppendOnlyLog, Promise!Spec
=============================================================================
