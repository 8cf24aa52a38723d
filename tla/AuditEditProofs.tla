-------------------------- MODULE AuditEditProofs --------------------------
(***************************************************************************)
(* Theorems about AuditEdit, for any events, any length of the log and any *)
(* number of edits: type correctness, and that an edited log which still   *)
(* verifies is a prefix of the one append() wrote.                         *)
(***************************************************************************)
EXTENDS AuditEdit, SequenceTheorems, TLAPS

-----------------------------------------------------------------------------
(* One entry, and one edit *)

LEMMA HashType ==
  ASSUME NEW seq \in Nat, NEW event \in Events, NEW prev \in Digests
  PROVE  ComputeHash(seq, event, prev) \in Digests
  <1>1. <<seq, event>> \in Nat \X Events
    OBVIOUS
  <1> QED
    BY <1>1, AppendProperties DEF ComputeHash, Digests

LEMMA NewEntryType ==
  ASSUME NEW seq \in Nat, NEW event \in Events, NEW prev \in Digests
  PROVE  NewEntry(seq, prev, event) \in Entries
  <1>1. seq + 1 \in Nat
    OBVIOUS
  <1>2. ComputeHash(seq + 1, event, prev) \in Digests
    BY <1>1, HashType
  <1> QED
    BY <1>1, <1>2 DEF NewEntry, Entries

\* Two digests over the same number and the same link are of the same event.
LEMMA DigestTellsEvents ==
  ASSUME NEW seq \in Nat, NEW d \in Events, NEW e \in Events, NEW prev \in Digests,
         ComputeHash(seq, d, prev) = ComputeHash(seq, e, prev)
  PROVE  d = e
  <1>1. <<seq, d>> \in Nat \X Events /\ <<seq, e>> \in Nat \X Events
    OBVIOUS
  <1>2. /\ Append(prev, <<seq, d>>)[Len(prev) + 1] = <<seq, d>>
        /\ Append(prev, <<seq, e>>)[Len(prev) + 1] = <<seq, e>>
    BY <1>1, AppendProperties DEF Digests
  <1>3. <<seq, d>> = <<seq, e>>
    BY <1>2 DEF ComputeHash
  <1> QED
    BY <1>3

-----------------------------------------------------------------------------
(* Type correctness, and what the edits leave of an entry *)

\* An entry e that was l, whatever was done to its payload.
WasWritten(e, l) == e.seq = l.seq /\ e.prev = l.prev /\ e.hash = l.hash

Chained ==
  /\ VerifyChain(log)
  /\ \A i \in DOMAIN copy : \E k \in DOMAIN log : WasWritten(copy[i], log[k])

EditInv == TypeOK /\ Chained

LEMMA EditInit == Init => EditInv
  <1>1. <<>> \in Seq(Entries) /\ DOMAIN <<>> = {}
    BY EmptySeq
  <1> QED
    BY <1>1, BoundAssumption DEF Init, EditInv, TypeOK, Chained, VerifyChain

\* What append() adds to a log that verifies.
Successor(new, event) ==
  /\ new \in Entries
  /\ new.seq = Len(log) + 1
  /\ new.event = event
  /\ new.prev = IF log = <<>> THEN GenesisHash ELSE log[Len(log)].hash
  /\ new.hash = ComputeHash(new.seq, new.event, new.prev)

LEMMA AppendsSuccessor ==
  ASSUME EditInv, NEW event \in Events, AppendEntry(event)
  PROVE  \E new : Successor(new, event) /\ log' = Append(log, new)
  <1>1. log \in Seq(Entries) /\ Len(log) \in Nat /\ DOMAIN log = 1 .. Len(log)
    BY LenProperties DEF EditInv, TypeOK
  <1>2. CASE log = <<>>
    <2>1. Len(log) = 0 /\ GenesisHash \in Digests
      BY <1>2, EmptySeq DEF GenesisHash, Digests
    <2>2. Successor(NewEntry(0, GenesisHash, event), event)
      BY <1>2, <2>1, NewEntryType DEF NewEntry, Successor
    <2> QED
      BY <1>2, <2>2 DEF AppendEntry
  <1>3. CASE log # <<>>
    <2> DEFINE l == Last(log)
    <2>1. l = log[Len(log)] /\ Len(log) \in DOMAIN log
      BY <1>1, <1>3, EmptySeq DEF Last
    <2>2. l \in Entries /\ l.seq = Len(log)
      BY <1>1, <2>1, ElementOfSeq DEF EditInv, Chained, VerifyChain
    <2>3. l.hash \in Digests
      BY <2>2 DEF Entries
    <2> HIDE DEF l
    <2>4. Successor(NewEntry(l.seq, l.hash, event), event)
      <3>1. NewEntry(l.seq, l.hash, event) \in Entries
        BY <1>1, <2>2, <2>3, NewEntryType
      <3> QED
        BY <1>3, <2>1, <2>2, <3>1 DEF NewEntry, Successor
    <2> QED
      BY <1>3, <2>4 DEF AppendEntry, l
  <1> QED
    BY <1>2, <1>3

LEMMA AppendKeeps ==
  ASSUME EditInv, NEW event \in Events, AppendEntry(event)
  PROVE  EditInv'
  <1>1. PICK new : Successor(new, event) /\ log' = Append(log, new)
    BY AppendsSuccessor
  <1>2. copy' = log' /\ edits' = edits
    BY DEF AppendEntry
  <1>3. log \in Seq(Entries) /\ Len(log) \in Nat /\ DOMAIN log = 1 .. Len(log)
    BY LenProperties DEF EditInv, TypeOK
  <1>4. /\ log' \in Seq(Entries) /\ Len(log') = Len(log) + 1
        /\ \A i \in 1 .. Len(log) : log'[i] = log[i]
        /\ log'[Len(log) + 1] = new
    BY <1>1, <1>3, AppendProperties DEF Successor
  <1>5. DOMAIN log' = 1 .. Len(log) + 1
    BY <1>4, LenProperties
  <1>6. log = <<>> <=> Len(log) = 0
    BY <1>3, EmptySeq
  <1>7. ASSUME NEW i \in 1 .. Len(log) + 1
        PROVE  /\ log'[i].seq = i
               /\ log'[i].prev = PrevHash(log', i)
               /\ log'[i].hash = ComputeHash(log'[i].seq, log'[i].event, log'[i].prev)
    <2>1. CASE i = Len(log) + 1
      <3>1. PrevHash(log', i) = IF log = <<>> THEN GenesisHash ELSE log[Len(log)].hash
        BY <1>3, <1>4, <1>6, <2>1 DEF PrevHash
      <3> QED
        BY <1>1, <1>4, <2>1, <3>1 DEF Successor
    <2>2. CASE i # Len(log) + 1
      <3>1. i \in 1 .. Len(log) /\ (i # 1 => i - 1 \in 1 .. Len(log))
        BY <1>3, <2>2
      <3>2. PrevHash(log', i) = PrevHash(log, i)
        BY <1>4, <3>1 DEF PrevHash
      <3> QED
        BY <1>3, <1>4, <3>1, <3>2 DEF EditInv, Chained, VerifyChain
    <2> QED
      BY <2>1, <2>2
  <1>8. VerifyChain(log')
    BY <1>5, <1>7 DEF VerifyChain
  <1>9. \A i \in DOMAIN copy' : \E k \in DOMAIN log' : WasWritten(copy'[i], log'[k])
    BY <1>2 DEF WasWritten
  <1>10. VerifyChain(log)'
    BY <1>8 DEF VerifyChain, PrevHash
  <1> QED
    BY <1>2, <1>4, <1>9, <1>10 DEF EditInv, TypeOK, Chained, WasWritten

\* An edit takes its entries from the copy as it was, but for their payload.
LEMMA EditKeeps ==
  ASSUME EditInv, NEW es \in Seq(Entries), Edit(es),
         \A k \in DOMAIN es : \E i \in DOMAIN copy : WasWritten(es[k], copy[i])
  PROVE  EditInv'
  <1>1. copy' = es /\ log' = log /\ edits' = edits + 1 /\ edits < MaxEdits
    BY DEF Edit
  <1>2. edits' \in 0 .. MaxEdits
    BY <1>1, BoundAssumption DEF EditInv, TypeOK
  <1>3. \A k \in DOMAIN es : \E m \in DOMAIN log : WasWritten(es[k], log[m])
    BY DEF EditInv, Chained, WasWritten
  <1> QED
    BY <1>1, <1>2, <1>3
    DEF EditInv, TypeOK, Chained, VerifyChain, PrevHash, WasWritten

LEMMA DeleteKeeps ==
  ASSUME EditInv, NEW i \in DOMAIN copy, Delete(i)
  PROVE  EditInv'
  <1>1. copy \in Seq(Entries) /\ Len(copy) \in Nat /\ DOMAIN copy = 1 .. Len(copy)
    BY LenProperties DEF EditInv, TypeOK
  <1> DEFINE front == SubSeq(copy, 1, i - 1)
             back == SubSeq(copy, i + 1, Len(copy))
  <1>2. \A k \in 1 .. Len(copy) : copy[k] \in Entries
    BY <1>1, ElementOfSeq
  <1>3. /\ front \in Seq(Entries) /\ Len(front) = i - 1
        /\ \A k \in 1 .. i - 1 : front[k] = copy[k]
    <2>1. \A k \in 1 .. i - 1 : copy[k] \in Entries
      BY <1>1, <1>2
    <2>2. /\ SubSeq(copy, 1, i - 1) \in Seq(Entries)
          /\ Len(SubSeq(copy, 1, i - 1)) = IF 1 <= i - 1 THEN (i - 1) - 1 + 1 ELSE 0
          /\ \A k \in 1 .. (i - 1) - 1 + 1 : SubSeq(copy, 1, i - 1)[k] = copy[1 + k - 1]
      BY <1>1, <2>1, SubSeqProperties
    <2> HIDE DEF front
    <2>3. Len(front) = i - 1
      BY <1>1, <2>2 DEF front
    <2>4. ASSUME NEW k \in 1 .. i - 1 PROVE front[k] = copy[k]
      <3>1. k \in 1 .. (i - 1) - 1 + 1 /\ 1 + k - 1 = k
        BY <1>1
      <3> QED
        BY <2>2, <3>1, Zenon DEF front
    <2> QED
      BY <2>2, <2>3, <2>4, Zenon DEF front
  <1>4. /\ back \in Seq(Entries) /\ Len(back) = Len(copy) - i
        /\ \A k \in 1 .. Len(copy) - i : back[k] = copy[i + k]
    <2>1. \A k \in i + 1 .. Len(copy) : copy[k] \in Entries
      BY <1>1, <1>2
    <2>2. /\ SubSeq(copy, i + 1, Len(copy)) \in Seq(Entries)
          /\ Len(SubSeq(copy, i + 1, Len(copy)))
               = IF i + 1 <= Len(copy) THEN Len(copy) - (i + 1) + 1 ELSE 0
          /\ \A k \in 1 .. Len(copy) - (i + 1) + 1 :
               SubSeq(copy, i + 1, Len(copy))[k] = copy[(i + 1) + k - 1]
      BY <1>1, <2>1, SubSeqProperties
    <2> HIDE DEF back
    <2>3. Len(back) = Len(copy) - i
      BY <1>1, <2>2 DEF back
    <2>4. ASSUME NEW k \in 1 .. Len(copy) - i PROVE back[k] = copy[i + k]
      <3>1. k \in 1 .. Len(copy) - (i + 1) + 1 /\ (i + 1) + k - 1 = i + k
        BY <1>1
      <3> QED
        BY <2>2, <3>1, Zenon DEF back
    <2> QED
      BY <2>2, <2>3, <2>4, Zenon DEF back
  <1> HIDE DEF front, back
  <1> DEFINE es == front \o back
  <1>5. /\ es \in Seq(Entries) /\ Len(es) = Len(copy) - 1
        /\ \A k \in 1 .. Len(copy) - 1 : es[k] = IF k <= i - 1 THEN front[k] ELSE back[k - (i - 1)]
    <2>1. /\ front \o back \in Seq(Entries)
          /\ Len(front \o back) = Len(front) + Len(back)
          /\ \A k \in 1 .. Len(front) + Len(back) :
               (front \o back)[k] = IF k <= Len(front) THEN front[k] ELSE back[k - Len(front)]
      BY <1>3, <1>4, ConcatProperties
    <2>2. Len(front) = i - 1 /\ Len(front) + Len(back) = Len(copy) - 1
      BY <1>1, <1>3, <1>4
    <2> QED
      BY <2>1, <2>2, Zenon
  <1>6. Edit(es)
    BY DEF Delete, RemoveAt, front, back
  <1> HIDE DEF es
  <1>7. ASSUME NEW k \in DOMAIN es PROVE \E m \in DOMAIN copy : es[k] = copy[m]
    <2>1. k \in 1 .. Len(copy) - 1
      BY <1>5, LenProperties
    <2>2. CASE k <= i - 1
      BY <1>1, <1>3, <1>5, <2>1, <2>2
    <2>3. CASE ~(k <= i - 1)
      <3>1. k - (i - 1) \in 1 .. Len(copy) - i /\ i + (k - (i - 1)) = k + 1
            /\ k + 1 \in 1 .. Len(copy)
        BY <1>1, <2>1, <2>3
      <3>2. es[k] = copy[k + 1]
        BY <1>4, <1>5, <2>1, <2>3, <3>1
      <3> QED
        BY <1>1, <3>1, <3>2
    <2> QED
      BY <2>2, <2>3
  <1> QED
    BY <1>5, <1>6, <1>7, EditKeeps DEF WasWritten

LEMMA ExchangeKeeps ==
  ASSUME EditInv, NEW i \in DOMAIN copy, NEW j \in DOMAIN copy, Exchange(i, j)
  PROVE  EditInv'
  <1>1. copy \in Seq(Entries) /\ DOMAIN copy = 1 .. Len(copy)
    BY LenProperties DEF EditInv, TypeOK
  <1>2. copy[i] \in Entries /\ copy[j] \in Entries
    BY <1>1, ElementOfSeq
  <1> DEFINE half == [copy EXCEPT ![i] = copy[j]]
             es == [half EXCEPT ![j] = copy[i]]
  <1>3. /\ half \in Seq(Entries) /\ Len(half) = Len(copy)
        /\ \A k \in 1 .. Len(copy) : half[k] = IF k = i THEN copy[j] ELSE copy[k]
    BY <1>1, <1>2, ExceptSeq
  <1> HIDE DEF half
  <1>4. /\ es \in Seq(Entries) /\ Len(es) = Len(copy)
        /\ \A k \in 1 .. Len(copy) : es[k] = IF k = j THEN copy[i] ELSE half[k]
    BY <1>1, <1>2, <1>3, ExceptSeq
  <1>5. Edit(es)
    BY DEF Exchange, half
  <1> HIDE DEF es
  <1>6. \A k \in DOMAIN es : \E m \in DOMAIN copy : es[k] = copy[m]
    BY <1>1, <1>3, <1>4, LenProperties
  <1> QED
    BY <1>4, <1>5, <1>6, EditKeeps DEF WasWritten

LEMMA RewriteKeeps ==
  ASSUME EditInv, NEW i \in DOMAIN copy, NEW event \in Events, Rewrite(i, event)
  PROVE  EditInv'
  <1>1. copy \in Seq(Entries) /\ DOMAIN copy = 1 .. Len(copy)
    BY LenProperties DEF EditInv, TypeOK
  <1>2. copy[i] \in Entries
    BY <1>1, ElementOfSeq
  <1> DEFINE e == [copy[i] EXCEPT !.event = event]
             es == [copy EXCEPT ![i] = e]
  <1>3. e \in Entries /\ WasWritten(e, copy[i])
    BY <1>2 DEF Entries, WasWritten
  <1> HIDE DEF e
  <1>4. /\ es \in Seq(Entries) /\ Len(es) = Len(copy)
        /\ \A k \in 1 .. Len(copy) : es[k] = IF k = i THEN e ELSE copy[k]
    BY <1>1, <1>3, ExceptSeq
  <1>5. Edit(es)
    BY DEF Rewrite, e
  <1> HIDE DEF es
  <1>6. \A k \in DOMAIN es : \E m \in DOMAIN copy : WasWritten(es[k], copy[m])
    BY <1>1, <1>3, <1>4, LenProperties DEF WasWritten
  <1> QED
    BY <1>4, <1>5, <1>6, EditKeeps

LEMMA EditNext == EditInv /\ [Next]_vars => EditInv'
  <1>1. ASSUME EditInv, UNCHANGED vars PROVE EditInv'
    BY <1>1 DEF vars, EditInv, TypeOK, Chained, VerifyChain, PrevHash, WasWritten
  <1> QED
    BY <1>1, AppendKeeps, DeleteKeeps, ExchangeKeeps, RewriteKeeps DEF Next

\* The log and its edited copy stay lists of entries.
THEOREM TypeCorrect == Spec => []TypeOK
  <1>1. EditInv => TypeOK
    BY DEF EditInv
  <1> QED
    BY <1>1, EditInit, EditNext, PTL DEF Spec

-----------------------------------------------------------------------------
(* What still verifies *)

\* An entry whose digest is right says what it said in the log: no payload was
\* rewritten; and its number says where in the log it stood.
LEMMA VerifiedEntry ==
  ASSUME EditInv, VerifyChain(copy), NEW i \in DOMAIN copy
  PROVE  i \in DOMAIN log /\ copy[i] = log[i]
  <1>1. PICK k \in DOMAIN log : WasWritten(copy[i], log[k])
    BY DEF EditInv, Chained
  <1>2. copy[i] \in Entries /\ log[k] \in Entries
    BY LenProperties, ElementOfSeq DEF EditInv, TypeOK
  <1>3. log[k].seq = k /\ copy[i].seq = i
    BY DEF EditInv, Chained, VerifyChain
  <1>4. k = i
    BY <1>1, <1>3 DEF WasWritten
  <1>5. ComputeHash(log[k].seq, copy[i].event, log[k].prev)
          = ComputeHash(log[k].seq, log[k].event, log[k].prev)
    BY <1>1 DEF EditInv, Chained, VerifyChain, WasWritten
  <1>6. /\ log[k].seq \in Nat /\ log[k].prev \in Digests
        /\ copy[i].event \in Events /\ log[k].event \in Events
    BY <1>2 DEF Entries
  <1>7. copy[i].event = log[k].event
    BY <1>5, <1>6, DigestTellsEvents
  <1>8. copy[i] = log[k]
    BY <1>1, <1>2, <1>7 DEF WasWritten, Entries
  <1> QED
    BY <1>4, <1>8

LEMMA VerifiedSuffices == EditInv => VerifiedIsPrefix
  <1> SUFFICES ASSUME EditInv, VerifyChain(copy) PROVE IsPrefix(copy, log)
    BY DEF VerifiedIsPrefix
  <1> DEFINE n == Len(copy)
  <1>1. /\ copy \in Seq(Entries) /\ n \in Nat /\ DOMAIN copy = 1 .. n
        /\ log \in Seq(Entries) /\ Len(log) \in Nat /\ DOMAIN log = 1 .. Len(log)
    BY LenProperties DEF EditInv, TypeOK
  <1>2. \A i \in 1 .. n : i \in 1 .. Len(log) /\ copy[i] = log[i]
    BY <1>1, VerifiedEntry
  <1>3. n <= Len(log)
    BY <1>1, <1>2
  <1>4. /\ SubSeq(copy, 1, n) \in Seq(Entries)
        /\ Len(SubSeq(copy, 1, n)) = IF 1 <= n THEN n - 1 + 1 ELSE 0
        /\ \A i \in 1 .. n - 1 + 1 : SubSeq(copy, 1, n)[i] = copy[1 + i - 1]
    <2>1. \A i \in 1 .. n : copy[i] \in Entries
      BY <1>1, ElementOfSeq
    <2> HIDE DEF n
    <2> QED
      BY <1>1, <2>1, SubSeqProperties
  <1>5. /\ SubSeq(log, 1, n) \in Seq(Entries)
        /\ Len(SubSeq(log, 1, n)) = IF 1 <= n THEN n - 1 + 1 ELSE 0
        /\ \A i \in 1 .. n - 1 + 1 : SubSeq(log, 1, n)[i] = log[1 + i - 1]
    <2>1. \A i \in 1 .. n : log[i] \in Entries
      BY <1>1, <1>2, ElementOfSeq
    <2> HIDE DEF n
    <2> QED
      BY <1>1, <2>1, SubSeqProperties
  <1> HIDE DEF n
  <1>6. /\ Len(SubSeq(copy, 1, n)) = n /\ Len(SubSeq(log, 1, n)) = n
        /\ \A i \in 1 .. n : SubSeq(copy, 1, n)[i] = SubSeq(log, 1, n)[i]
    BY <1>1, <1>2, <1>4, <1>5
  <1>7. SubSeq(copy, 1, n) = SubSeq(log, 1, n)
    BY <1>4, <1>5, <1>6, SeqEqual
  <1> QED
    BY <1>3, <1>7 DEF IsPrefix, n

\* Whatever lines were deleted, exchanged and rewritten, in any number: a log that
\* verify_chain() still accepts is what append() wrote, up to some entry.
THEOREM VerifiedIsWritten == Spec => []VerifiedIsPrefix
  BY EditInit, EditNext, VerifiedSuffices, PTL DEF Spec

=============================================================================
