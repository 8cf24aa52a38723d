-------------------------- MODULE KnowledgeProofs --------------------------
(***************************************************************************)
(* Theorems about Knowledge, for any jobs at once, any files, any edits of *)
(* the curator and any procedure objects: type correctness, what transfer, *)
(* ingestion and query promise when they return.                           *)
(***************************************************************************)
EXTENDS Knowledge, FiniteSetTheorems, WellFoundedInduction, TLAPS

-----------------------------------------------------------------------------
(* The first and the last of some files *)

LEMMA LeastExists ==
  ASSUME NEW S \in SUBSET Nat, S # {}
  PROVE  /\ Min(S) \in S
         /\ \A y \in S : Min(S) <= y
  <1>1. PICK x \in S : \A y \in S : ~(<<y, x>> \in OpToRel(<, Nat))
    BY NatLessThanWellFounded, WFMin
  <1>2. \A y \in S : ~(y < x)
    BY <1>1 DEF OpToRel
  <1>3. \A y \in S : x <= y
    BY <1>2
  <1> QED
    BY <1>3 DEF Min

\* The last one is the one with the fewest behind it.
LEMMA GreatestExists ==
  ASSUME NEW S \in SUBSET Nat, S # {}, IsFiniteSet(S)
  PROVE  /\ Max(S) \in S
         /\ \A y \in S : y <= Max(S)
  <1> DEFINE Behind(a) == {b \in S : a < b}
             T == {Cardinality(Behind(a)) : a \in S}
  <1>1. \A x \in S : IsFiniteSet(Behind(x)) /\ Cardinality(Behind(x)) \in Nat
    BY FS_Subset, FS_CardinalityType
  <1>2. T \in SUBSET Nat /\ T # {}
    BY <1>1
  <1>3. Min(T) \in T /\ \A n \in T : Min(T) <= n
    <2> HIDE DEF T
    <2> QED
      BY <1>2, LeastExists
  <1>4. PICK x \in S : \A y \in S : Cardinality(Behind(x)) <= Cardinality(Behind(y))
    <2>1. PICK a \in S : Min(T) = Cardinality(Behind(a))
      BY <1>3
    <2>2. \A y \in S : Cardinality(Behind(y)) \in T
      OBVIOUS
    <2>3. ASSUME NEW b \in S PROVE Cardinality(Behind(a)) <= Cardinality(Behind(b))
      <3> HIDE DEF T
      <3> QED
        BY <1>3, <2>1, <2>2
    <2> QED
      BY <2>3
  <1>5. ASSUME NEW y \in S, x < y PROVE FALSE
    <2>1. Behind(y) \subseteq Behind(x) /\ y \in Behind(x) /\ y \notin Behind(y)
      <3>1. x \in Nat /\ y \in Nat /\ ~(y < y)
        OBVIOUS
      <3>2. ASSUME NEW b \in S, y < b PROVE x < b
        BY <1>5, <3>1, <3>2
      <3> QED
        BY <1>5, <3>1, <3>2
    <2>2. Cardinality(Behind(y)) <= Cardinality(Behind(x))
          /\ (Cardinality(Behind(x)) = Cardinality(Behind(y)) => Behind(x) = Behind(y))
      BY <1>1, <2>1, FS_Subset
    <2>3. Cardinality(Behind(x)) <= Cardinality(Behind(y))
      BY <1>4
    <2>4. Cardinality(Behind(x)) \in Nat /\ Cardinality(Behind(y)) \in Nat
      BY <1>1
    <2> HIDE DEF Behind
    <2>5. Cardinality(Behind(x)) = Cardinality(Behind(y))
      BY <2>2, <2>3, <2>4
    <2> QED
      BY <2>1, <2>2, <2>5
  <1>6. \A y \in S : x >= y
    BY <1>5
  <1> QED
    BY <1>6 DEF Max

LEMMA SourceIsNamed ==
  ASSUME NEW j \in Jobs, names \in [Jobs -> SUBSET Files], names[j] # {}
  PROVE  Source(j) \in names[j] /\ Source(j) \in Files
  <1>1. names[j] \in SUBSET Nat
    BY FilesAssumption
  <1> QED
    BY <1>1, LeastExists DEF Source

-----------------------------------------------------------------------------
(* Type correctness *)

\* An object is filed under its own id.
Filed(store) ==
  \A id \in Ids : store[id] # NoObject =>
    Loadable(store[id]) /\ Meaning[store[id]].id = id

\* While it copies, a transfer has a file to copy and none to remove.
Copies(j) ==
  at[j] \in {"copying", "hash"} => names[j] # {} /\ todo[j] = {}

Typed ==
  /\ KTypeOK
  /\ \A j \in Jobs : Filed(batch[j]) /\ Copies(j)

LEMMA TypedInit == KInit => Typed
  <1> SUFFICES ASSUME KInit PROVE Typed
    OBVIOUS
  <1> USE DEF KInit, TInit
  <1>1. staging \in Directory
    BY FirstStagingAssumption DEF Directory
  <1>2. TTypeOK
    BY <1>1, EditBoundAssumption DEF TTypeOK, Empty, Directory
  <1>3. points \in [Collections -> [Ids -> Contents \cup {NoObject}]]
        /\ batch \in [Jobs -> [Ids -> Contents \cup {NoObject}]]
    BY DEF NoObjects
  <1>4. \A c \in Collections, id \in Ids : points[c][id] = NoObject
    BY DEF NoObjects
  <1>5. KTypeOK
    BY <1>2, <1>3, <1>4 DEF KTypeOK, KSteps, TSteps
  <1>6. \A j \in Jobs : Filed(batch[j]) /\ Copies(j)
    BY DEF Filed, NoObjects, Copies
  <1> QED
    BY <1>5, <1>6 DEF Typed

Leaves == UNCHANGED <<kstore, batch, hits>>

\* The curator at work.
Revise == Leaves /\ \E f \in Files, c \in Contents \cup {NoFile} : Edit(f, c)

Killed(j) ==
  /\ Crash(j)
  /\ batch' = [batch EXCEPT ![j] = NoObjects]
  /\ hits' = [hits EXCEPT ![j] = {}]
  /\ UNCHANGED kstore

Ends(j) ==
  \/ Leaves /\ Vanished(j)
  \/ LoadRaises(j) \/ CreateRaises(j) \/ UpsertRaises(j) \/ QueryRaises(j) \/ Finish(j)
  \/ Killed(j)

\* The job is over, whatever ended it.
Over(j) ==
  /\ Stop(j)
  /\ batch' \in {batch, [batch EXCEPT ![j] = NoObjects]}
  /\ hits' \in {hits, [hits EXCEPT ![j] = {}]}
  /\ UNCHANGED <<disk, kstore>>

LEMMA EndsAreOver ==
  ASSUME NEW j \in Jobs, Ends(j)
  PROVE  Over(j)
  BY DEF Ends, Vanished, LoadRaises, CreateRaises, UpsertRaises, QueryRaises, Finish, Killed,
         End, Crash, Leaves, Over, kstore

LEMMA NextCases ==
  ASSUME KNext
  PROVE  \/ Revise
         \/ \E j \in Jobs :
              \/ \E k \in Kinds : Launch(j, k)
              \/ /\ Leaves
                 /\ \/ Glob(j) \/ ListInbox(j) \/ \E f \in Files : Unlink(j, f)
                    \/ OpenCopy(j) \/ WriteCopy(j) \/ Hash(j)
                    \/ OpenManifest(j) \/ WriteManifest(j) \/ AppendLog(j)
              \/ List(j) \/ LoadFile(j) \/ Ensure(j) \/ Create(j) \/ Upsert(j) \/ Query(j)
              \/ Over(j)
  BY EndsAreOver DEF KNext, Work, Transfer, Revise, Leaves, Ends, Killed

\* The set of files on which the others cannot count any more.
LEMMA DisturbType ==
  ASSUME TTypeOK, NEW j \in Jobs, NEW fs \in SUBSET Files, Disturb(j, fs)
  PROVE  moved' \in [Jobs -> SUBSET Files]
  BY DEF TTypeOK, Disturb

\* A job that only goes on, and does not begin to copy, disturbs none of it.
LEMMA GoesOn ==
  ASSUME Typed, NEW j \in Jobs, NEW next, next \notin {"copying", "hash"},
         at' = [at EXCEPT ![j] = next], UNCHANGED <<names, todo, batch>>
  PROVE  \A i \in Jobs : Filed(batch[i])' /\ Copies(i)'
  <1> TAKE i \in Jobs
  <1>1. Filed(batch[i]) /\ Copies(i)
    BY DEF Typed
  <1>2. Filed(batch[i])'
    <2>1. batch'[i] = batch[i]
      OBVIOUS
    <2> QED
      BY <1>1, <2>1 DEF Filed, Loadable
  <1>3. at'[i] \in {"copying", "hash"} => at'[i] = at[i]
    BY DEF Typed, KTypeOK
  <1>4. Copies(i)'
    BY <1>1, <1>3 DEF Copies
  <1> QED
    BY <1>2, <1>4

LEMMA TypedNext == Typed /\ [KNext]_kvars => Typed'
  <1> SUFFICES ASSUME Typed, [KNext]_kvars PROVE Typed'
    OBVIOUS
  <1> USE DEF Typed
  <1>0. KTypeOK /\ TTypeOK /\ \A j \in Jobs : Filed(batch[j]) /\ Copies(j)
    BY DEF KTypeOK
  <1>1. ASSUME Revise PROVE Typed'
    <2>1. PICK f \in Files, c \in Contents \cup {NoFile} : Edit(f, c)
      BY <1>1 DEF Revise
    <2>2. staging' \in Directory
      BY <1>0, <2>1 DEF Edit, TTypeOK, Directory
    <2>3. moved' \in [Jobs -> SUBSET Files]
      BY <1>0, <2>1 DEF Edit, TTypeOK
    <2>4. edits' \in 0 .. MaxEdits
      BY <1>0, <2>1, EditBoundAssumption DEF Edit, TTypeOK
    <2>5. TTypeOK'
      BY <1>0, <2>1, <2>2, <2>3, <2>4 DEF Edit, TTypeOK, Directory, progress
    <2> QED
      BY <1>0, <1>1, <2>1, <2>5
      DEF Edit, Revise, Leaves, KTypeOK, Copies, progress, kstore, Loadable
  <1>2. ASSUME NEW j \in Jobs, NEW k \in Kinds, Launch(j, k) PROVE Typed'
    <2>1. /\ at' = [at EXCEPT ![j] = FirstStep(k)] /\ kind' = [kind EXCEPT ![j] = k]
          /\ moved' = [moved EXCEPT ![j] = {}] /\ launches' = launches + 1
          /\ launches < MaxLaunches
          /\ UNCHANGED <<disk, progress, edits, kstore, batch, hits>>
      BY <1>2 DEF Launch, Start, Goto
    <2>2. FirstStep(k) \in {"glob", "list", "query"}
      BY DEF FirstStep, Kinds
    <2>3. launches' \in 0 .. MaxLaunches
      BY <1>0, <2>1, EditBoundAssumption DEF TTypeOK
    <2>4. TTypeOK'
      BY <1>0, <2>1, <2>3 DEF TTypeOK, disk, progress, Directory
    <2>5. at' \in [Jobs -> KSteps] /\ kind' \in [Jobs -> Kinds \cup {"none"}]
      BY <1>0, <2>1, <2>2 DEF KTypeOK, KSteps, TSteps
    <2>6. KTypeOK'
      BY <1>0, <2>1, <2>4, <2>5 DEF KTypeOK, kstore, Loadable
    <2>7. \A i \in Jobs : Filed(batch[i])' /\ Copies(i)'
      BY <1>0, <2>1, <2>2 DEF Filed, Loadable, Copies, KTypeOK, progress
    <2> QED
      BY <2>6, <2>7
  <1>3. ASSUME NEW j \in Jobs, Leaves,
               \/ Glob(j) \/ ListInbox(j) \/ \E f \in Files : Unlink(j, f)
               \/ OpenCopy(j) \/ WriteCopy(j) \/ Hash(j)
               \/ OpenManifest(j) \/ WriteManifest(j) \/ AppendLog(j)
        PROVE  Typed'
    <2>1. /\ UNCHANGED <<kind, points, dimension, batch, hits, edits, launches>>
      BY <1>3
      DEF Leaves, Glob, ListInbox, Unlink, OpenCopy, WriteCopy, Hash, OpenManifest,
          WriteManifest, AppendLog, kstore, bounds
    <2>2. SUFFICES /\ staging' \in Directory
                   /\ inbox' \in [Files -> Contents \cup {NoFile, Torn}]
                   /\ manifest' \in Directory \cup {NoManifest, Torn}
                   /\ logged' \in SUBSET Files
                   /\ names' \in [Jobs -> SUBSET Files]
                   /\ todo' \in [Jobs -> SUBSET Files]
                   /\ open' \in [Jobs -> Contents \cup {NoFile}]
                   /\ notes' \in [Jobs -> Directory]
                   /\ moved' \in [Jobs -> SUBSET Files]
                   /\ at' \in [Jobs -> KSteps]
                   /\ \A i \in Jobs : Copies(i)'
      <3>1. \A i \in Jobs : Filed(batch[i])'
        BY <1>0, <2>1 DEF Filed, Loadable
      <3> QED
        BY <1>0, <2>1, <3>1 DEF KTypeOK, TTypeOK, Loadable, Directory
    <2> USE DEF Goto
    <2>3. CASE Glob(j)
      BY <1>0, <2>3
      DEF Glob, Present, TTypeOK, KTypeOK, KSteps, TSteps, Copies, disk
    <2>4. CASE ListInbox(j)
      BY <1>0, <2>4
      DEF ListInbox, Present, TTypeOK, KTypeOK, KSteps, TSteps, Copies, disk
    <2>5. CASE \E f \in Files : Unlink(j, f)
      <3>0. PICK f \in Files : Unlink(j, f)
        BY <2>5
      <3>1. moved' \in [Jobs -> SUBSET Files]
        BY <1>0, <3>0, DisturbType DEF Unlink
      <3>2. inbox' \in [Files -> Contents \cup {NoFile, Torn}]
        BY <1>0, <3>0 DEF Unlink, TTypeOK
      <3>3. todo' \in [Jobs -> SUBSET Files]
        BY <1>0, <3>0 DEF Unlink, TTypeOK
      <3>4. \A i \in Jobs : Copies(i)'
        BY <1>0, <3>0 DEF Unlink, TTypeOK, KTypeOK, Copies
      <3> QED
        BY <1>0, <3>0, <3>1, <3>2, <3>3, <3>4 DEF Unlink, TTypeOK, KTypeOK
    <2>6. CASE OpenCopy(j)
      <3>1. Source(j) \in Files
        BY <1>0, <2>6, SourceIsNamed DEF OpenCopy, TTypeOK
      <3>2. moved' \in [Jobs -> SUBSET Files]
        BY <1>0, <2>6, <3>1, DisturbType DEF OpenCopy
      <3>3. staging[Source(j)] \in Contents
        BY <1>0, <2>6, <3>1 DEF OpenCopy, TTypeOK, Directory
      <3>4. inbox' \in [Files -> Contents \cup {NoFile, Torn}]
            /\ open' \in [Jobs -> Contents \cup {NoFile}]
        BY <1>0, <2>6, <3>3 DEF OpenCopy, TTypeOK
      <3>5. at' \in [Jobs -> KSteps] /\ \A i \in Jobs : Copies(i)'
        BY <1>0, <2>6 DEF OpenCopy, KTypeOK, KSteps, TSteps, Copies
      <3> QED
        BY <1>0, <2>2, <2>6, <3>2, <3>4, <3>5 DEF OpenCopy, TTypeOK
    <2>7. CASE WriteCopy(j)
      <3>1. Source(j) \in Files
        BY <1>0, <2>7, SourceIsNamed DEF WriteCopy, TTypeOK, Copies
      <3>2. moved' \in [Jobs -> SUBSET Files]
        BY <1>0, <2>7, <3>1, DisturbType DEF WriteCopy
      <3>4. inbox' \in [Files -> Contents \cup {NoFile, Torn}]
        BY <1>0, <2>7 DEF WriteCopy, TTypeOK
      <3>5. at' \in [Jobs -> KSteps] /\ \A i \in Jobs : Copies(i)'
        BY <1>0, <2>7 DEF WriteCopy, KTypeOK, KSteps, TSteps, Copies, progress
      <3> QED
        BY <1>0, <2>2, <2>7, <3>2, <3>4, <3>5 DEF WriteCopy, TTypeOK, progress
    <2>8. CASE Hash(j)
      <3>1. Source(j) \in Files
        BY <1>0, <2>8, SourceIsNamed DEF Hash, TTypeOK, Copies
      <3> DEFINE f == Source(j)
      <3> HIDE DEF f
      <3>2. notes' = [notes EXCEPT ![j][f] = staging[f]]
            /\ names' = [names EXCEPT ![j] = @ \ {f}]
            /\ open' = [open EXCEPT ![j] = NoFile]
        BY <2>8 DEF Hash, f
      <3>3. notes' \in [Jobs -> Directory]
        BY <1>0, <3>1, <3>2 DEF TTypeOK, Directory, f
      <3>4. names' \in [Jobs -> SUBSET Files] /\ open' \in [Jobs -> Contents \cup {NoFile}]
        BY <1>0, <3>2 DEF TTypeOK
      <3>5. at' \in [Jobs -> KSteps] /\ \A i \in Jobs : Copies(i)'
        BY <1>0, <2>8 DEF Hash, KTypeOK, TTypeOK, KSteps, TSteps, Copies
      <3> QED
        BY <1>0, <2>2, <2>8, <3>3, <3>4, <3>5 DEF Hash, TTypeOK, disk
    <2>9. CASE OpenManifest(j) \/ WriteManifest(j) \/ AppendLog(j)
      <3>1. moved' \in [Jobs -> SUBSET Files]
        BY <1>0, <2>9, DisturbType DEF OpenManifest, WriteManifest, AppendLog
      <3>2. at' \in [Jobs -> KSteps] /\ \A i \in Jobs : Copies(i)'
        <4>1. PICK next \in {"manifest", "log", "transferred"} : at' = [at EXCEPT ![j] = next]
          BY <2>9 DEF OpenManifest, WriteManifest, AppendLog, Goto
        <4>2. UNCHANGED <<names, todo, batch>>
          BY <2>1, <2>9 DEF OpenManifest, WriteManifest, AppendLog, progress
        <4>3. next \in KSteps
          BY DEF KSteps, TSteps
        <4> QED
          BY <1>0, <4>1, <4>2, <4>3, GoesOn DEF KTypeOK
      <3>3. manifest' \in Directory \cup {NoManifest, Torn} /\ logged' \in SUBSET Files
        BY <1>0, <2>9 DEF OpenManifest, WriteManifest, AppendLog, TTypeOK, Present
      <3>4. UNCHANGED <<staging, inbox, names, todo, open, notes>>
        BY <2>9 DEF OpenManifest, WriteManifest, AppendLog, progress
      <3> QED
        BY <1>0, <2>2, <3>1, <3>2, <3>3, <3>4 DEF TTypeOK
    <2> QED
      BY <1>3, <2>3, <2>4, <2>5, <2>6, <2>7, <2>8, <2>9
  <1>4. ASSUME NEW j \in Jobs, List(j) PROVE Typed'
    <2>1. /\ at' = [at EXCEPT ![j] = "load"]
          /\ todo' = [todo EXCEPT ![j] = Present(inbox)]
          /\ UNCHANGED <<disk, kind, names, open, notes, moved, bounds, kstore, batch, hits>>
      BY <1>4 DEF List, Goto
    <2>2. todo' \in [Jobs -> SUBSET Files] /\ at' \in [Jobs -> KSteps]
      BY <1>0, <2>1 DEF TTypeOK, Present, KTypeOK, KSteps
    <2>3. TTypeOK'
      BY <1>0, <2>1, <2>2 DEF TTypeOK, disk, bounds, Directory
    <2>4. \A i \in Jobs : Filed(batch[i])' /\ Copies(i)'
      BY <1>0, <2>1 DEF Filed, Loadable, Copies, KTypeOK, TTypeOK
    <2> QED
      BY <1>0, <2>1, <2>2, <2>3, <2>4 DEF KTypeOK, kstore, Loadable
  <1>5. ASSUME NEW j \in Jobs, LoadFile(j) PROVE Typed'
    <2> DEFINE c == inbox[Min(todo[j])]
               id == Meaning[c].id
    <2>1. /\ at[j] = "load" /\ Loadable(c)
          /\ batch' = [batch EXCEPT ![j][id] = c]
          /\ todo' = [todo EXCEPT ![j] = @ \ {Min(@)}]
          /\ UNCHANGED <<disk, at, kind, names, open, notes, moved, bounds, kstore, hits>>
      BY <1>5 DEF LoadFile
    <2>2. c \in Contents /\ id \in Ids
      BY <2>1, MeaningAssumption DEF Loadable
    <2> HIDE DEF c
    <2>3. batch' \in [Jobs -> [Ids -> Contents \cup {NoObject}]]
      BY <1>0, <2>1, <2>2 DEF KTypeOK
    <2>4. todo' \in [Jobs -> SUBSET Files]
      BY <1>0, <2>1 DEF TTypeOK
    <2>5. TTypeOK'
      BY <1>0, <2>1, <2>4 DEF TTypeOK, disk, bounds, Directory
    <2>6. KTypeOK'
      BY <1>0, <2>1, <2>3, <2>5 DEF KTypeOK, kstore, Loadable
    <2>7. \A i \in Jobs : Copies(i)'
      BY <1>0, <2>1 DEF Copies, KTypeOK, TTypeOK
    <2>8. ASSUME NEW i \in Jobs PROVE Filed(batch[i])'
      <3>1. ASSUME NEW g \in Ids, batch'[i][g] # NoObject
            PROVE  Loadable(batch'[i][g]) /\ Meaning[batch'[i][g]].id = g
        <4>1. CASE i = j /\ g = id
          <5>1. batch'[i][g] = c
            BY <1>0, <2>1, <4>1 DEF KTypeOK
          <5> QED
            BY <2>1, <4>1, <5>1
        <4>2. CASE ~(i = j /\ g = id)
          <5>1. batch'[i][g] = batch[i][g]
            BY <1>0, <2>1, <2>2, <4>2 DEF KTypeOK
          <5> QED
            BY <1>0, <3>1, <5>1 DEF Filed
        <4> QED
          BY <4>1, <4>2
      <3> QED
        BY <3>1 DEF Filed, Loadable
    <2> QED
      BY <2>6, <2>7, <2>8
  <1>6. ASSUME NEW j \in Jobs, Ensure(j) PROVE Typed'
    <2>1. /\ at' \in {[at EXCEPT ![j] = "create"], [at EXCEPT ![j] = "upsert"]}
          /\ UNCHANGED <<disk, kind, progress, moved, bounds, kstore, batch, hits>>
      BY <1>6 DEF Ensure, Goto
    <2>2. at' \in [Jobs -> KSteps]
      BY <1>0, <2>1 DEF KTypeOK, KSteps
    <2>3. TTypeOK'
      BY <1>0, <2>1 DEF TTypeOK, disk, bounds, progress, Directory
    <2>4. \A i \in Jobs : Filed(batch[i])' /\ Copies(i)'
      <3>1. PICK next \in {"create", "upsert"} : at' = [at EXCEPT ![j] = next]
        BY <2>1
      <3> QED
        BY <2>1, <3>1, GoesOn DEF progress
    <2> QED
      BY <1>0, <2>1, <2>2, <2>3, <2>4 DEF KTypeOK, kstore, Loadable
  <1>7. ASSUME NEW j \in Jobs, Create(j) PROVE Typed'
    <2>1. /\ at' = [at EXCEPT ![j] = "upsert"]
          /\ dimension' = [dimension EXCEPT ![Collection(j)] = Embedder(j)]
          /\ UNCHANGED <<disk, kind, progress, moved, bounds, points, batch, hits>>
      BY <1>7 DEF Create, Goto
    <2>2. at' \in [Jobs -> KSteps]
          /\ dimension' \in [Collections -> {"absent", "deterministic", "sentence_transformer"}]
      BY <1>0, <2>1 DEF KTypeOK, KSteps, Embedder
    <2>3. TTypeOK'
      BY <1>0, <2>1 DEF TTypeOK, disk, bounds, progress, Directory
    <2>4. \A i \in Jobs : Filed(batch[i])' /\ Copies(i)'
      BY <2>1, GoesOn DEF progress
    <2>5. points' = points /\ batch' = batch /\ hits' = hits /\ kind' = kind
      BY <2>1
    <2>6. KTypeOK'
      BY <1>0, <2>2, <2>3, <2>5 DEF KTypeOK, Loadable
    <2> QED
      BY <2>4, <2>6 DEF Typed
  <1>8. ASSUME NEW j \in Jobs, Upsert(j) PROVE Typed'
    <2> DEFINE c == Collection(j)
               new == Override(points[c], batch[j])
    <2>1. /\ at' = [at EXCEPT ![j] = "ingested"]
          /\ points' = [points EXCEPT ![c] = new]
          /\ Disturb(j, Files)
          /\ UNCHANGED <<disk, kind, progress, bounds, dimension, batch, hits>>
      BY <1>8 DEF Upsert, Goto
    <2>2. c \in Collections
      BY DEF Collection, Collections
    <2>3. new \in [Ids -> Contents \cup {NoObject}]
      BY <1>0, <2>2 DEF Override, KTypeOK
    <2>4. \A id \in Ids : new[id] # NoObject =>
            Loadable(new[id]) /\ Meaning[new[id]].id = id
      BY <1>0, <2>2 DEF Override, KTypeOK, Filed
    <2> HIDE DEF c, new
    <2>5. points' \in [Collections -> [Ids -> Contents \cup {NoObject}]]
          /\ \A b \in Collections, id \in Ids :
               points'[b][id] # NoObject =>
                 Loadable(points'[b][id]) /\ Meaning[points'[b][id]].id = id
      BY <1>0, <2>1, <2>2, <2>3, <2>4 DEF KTypeOK
    <2>6. at' \in [Jobs -> KSteps] /\ moved' \in [Jobs -> SUBSET Files]
      BY <1>0, <2>1, DisturbType DEF KTypeOK, KSteps
    <2>7. TTypeOK'
      BY <1>0, <2>1, <2>6 DEF TTypeOK, disk, bounds, progress, Directory
    <2>8. \A i \in Jobs : Filed(batch[i])' /\ Copies(i)'
      BY <2>1, GoesOn DEF progress
    <2> QED
      BY <1>0, <2>1, <2>5, <2>6, <2>7, <2>8 DEF KTypeOK, Loadable
  <1>9. ASSUME NEW j \in Jobs, Query(j) PROVE Typed'
    <2>1. /\ at' = [at EXCEPT ![j] = "retrieved"]
          /\ UNCHANGED <<disk, kind, progress, moved, bounds, kstore, batch>>
      BY <1>9 DEF Query, Goto
    <2>2. PICK category \in Categories(j) : \E fetched \in Nearest(Candidates(j, category)) :
            \E s \in FirstOf({c \in fetched : Applies(c, TargetVersion(j))}) :
              hits' = [hits EXCEPT ![j] = s]
      BY <1>9 DEF Query
    <2>3. PICK s \in SUBSET Candidates(j, category) : hits' = [hits EXCEPT ![j] = s]
      BY <2>2 DEF Nearest, FirstOf
    <2>4. Candidates(j, category) \subseteq Contents
      BY <1>0 DEF Candidates, Stored, Collection, Collections, KTypeOK
    <2>5. hits' \in [Jobs -> SUBSET Contents] /\ at' \in [Jobs -> KSteps]
      BY <1>0, <2>1, <2>3, <2>4 DEF KTypeOK, KSteps
    <2>6. TTypeOK'
      BY <1>0, <2>1 DEF TTypeOK, disk, bounds, progress, Directory
    <2>7. \A i \in Jobs : Filed(batch[i])' /\ Copies(i)'
      BY <2>1, GoesOn DEF progress
    <2> QED
      BY <1>0, <2>1, <2>5, <2>6, <2>7 DEF KTypeOK, kstore, Loadable
  <1>10. ASSUME NEW j \in Jobs, Over(j) PROVE Typed'
    <2>1. TTypeOK'
      BY <1>0, <1>10 DEF Over, Stop, Goto, TTypeOK, disk, bounds, Empty, Directory
    <2>2. at' \in [Jobs -> KSteps] /\ kind' \in [Jobs -> Kinds \cup {"none"}]
          /\ hits' \in [Jobs -> SUBSET Contents]
      BY <1>0, <1>10 DEF Over, Stop, Goto, KTypeOK, KSteps, TSteps
    <2>3. batch' \in [Jobs -> [Ids -> Contents \cup {NoObject}]]
      <3>1. NoObjects \in [Ids -> Contents \cup {NoObject}]
        BY DEF NoObjects
      <3> QED
        BY <1>0, <1>10, <3>1 DEF Over, KTypeOK
    <2>4. ASSUME NEW i \in Jobs PROVE Filed(batch[i])'
      <3>1. batch'[i] = batch[i] \/ batch'[i] = NoObjects
        BY <1>0, <1>10 DEF Over, KTypeOK
      <3> QED
        BY <1>0, <3>1 DEF Filed, NoObjects, Loadable
    <2>5. \A i \in Jobs : Copies(i)'
      BY <1>0, <1>10 DEF Over, Stop, Goto, Copies, KTypeOK, TTypeOK
    <2> QED
      BY <1>0, <1>10, <2>1, <2>2, <2>3, <2>4, <2>5 DEF Over, KTypeOK, kstore, Loadable
  <1>11. CASE UNCHANGED kvars
    BY <1>0, <1>11
    DEF kvars, tvars, disk, progress, bounds, kstore, KTypeOK, TTypeOK, Filed, Loadable, Copies,
        Directory
  <1> QED
    BY <1>1, <1>2, <1>3, <1>4, <1>5, <1>6, <1>7, <1>8, <1>9, <1>10, <1>11, NextCases

\* Files, manifest, collections and the memory of every job keep their types; a
\* collection holds only whole and valid objects, each under its own id, however
\* ingestion and transfer overlap.
THEOREM TypeCorrect == KSpec => []KTypeOK
  <1>1. Typed => KTypeOK
    BY DEF Typed
  <1> QED
    BY <1>1, TypedInit, TypedNext, PTL DEF KSpec

-----------------------------------------------------------------------------
(* What the others do *)

Loads(j) == List(j) \/ LoadFile(j) \/ Ensure(j) \/ Create(j) \/ Upsert(j) \/ Query(j)

Acts(j) ==
  \/ \E k \in Kinds : Launch(j, k)
  \/ /\ Leaves
     /\ \/ Glob(j) \/ ListInbox(j) \/ \E f \in Files : Unlink(j, f)
        \/ OpenCopy(j) \/ WriteCopy(j) \/ Hash(j)
        \/ OpenManifest(j) \/ WriteManifest(j) \/ AppendLog(j)
  \/ Loads(j)
  \/ Over(j)

LEMMA NextActs == KNext => Revise \/ \E j \in Jobs : Acts(j)
  BY NextCases DEF Acts, Loads

Memory(i) == <<at[i], kind[i], names[i], todo[i], open[i], notes[i], batch[i]>>

\* Nobody reaches into the memory of another job.
LEMMA MemoryIsOwn ==
  ASSUME Typed, NEW j \in Jobs, Acts(j), NEW i \in Jobs, i # j
  PROVE  /\ UNCHANGED Memory(i)
         /\ Busy(i) => moved[i] \subseteq moved'[i]
  <1> USE DEF Typed, KTypeOK, TTypeOK, Memory, Goto
  <1>1. CASE \E k \in Kinds : Launch(j, k)
    BY <1>1 DEF Launch, Start, disk, progress, kstore
  <1>2. CASE Leaves /\ (Glob(j) \/ ListInbox(j))
    BY <1>2 DEF Leaves, Glob, ListInbox, disk, bounds, kstore
  <1>3. CASE Leaves /\ \E f \in Files : Unlink(j, f)
    BY <1>3 DEF Leaves, Unlink, Disturb
  <1>4. CASE Leaves /\ (OpenCopy(j) \/ WriteCopy(j))
    BY <1>4 DEF Leaves, OpenCopy, WriteCopy, Disturb, progress
  <1>5. CASE Leaves /\ Hash(j)
    BY <1>5 DEF Leaves, Hash, disk, bounds
  <1>6. CASE Leaves /\ (OpenManifest(j) \/ WriteManifest(j) \/ AppendLog(j))
    BY <1>6 DEF Leaves, OpenManifest, WriteManifest, AppendLog, Disturb, progress
  <1>7. CASE List(j) \/ Ensure(j) \/ Create(j) \/ Query(j)
    BY <1>7 DEF List, Ensure, Create, Query, disk, progress, kstore, bounds
  <1>8. CASE LoadFile(j)
    BY <1>8 DEF LoadFile
  <1>9. CASE Upsert(j)
    BY <1>9 DEF Upsert, Disturb, progress
  <1>10. CASE Over(j)
    BY <1>10 DEF Over, Stop
  <1> QED
    BY <1>1, <1>2, <1>3, <1>4, <1>5, <1>6, <1>7, <1>8, <1>9, <1>10 DEF Acts, Loads

\* What a job may still count on is as it was.
LEMMA OthersLeave ==
  ASSUME Typed, NEW j \in Jobs, Acts(j), NEW i \in Jobs, i # j, Busy(i),
         NEW f \in Files, f \notin moved'[i]
  PROVE  /\ staging'[f] = staging[f] /\ inbox'[f] = inbox[f]
         /\ UNCHANGED <<manifest, logged, points>>
  <1> USE DEF Typed, KTypeOK, TTypeOK
  <1>1. CASE \E k \in Kinds : Launch(j, k)
    BY <1>1 DEF Launch, Start, disk, kstore
  <1>2. CASE Leaves /\ (Glob(j) \/ ListInbox(j) \/ Hash(j))
    BY <1>2 DEF Leaves, Glob, ListInbox, Hash, disk, kstore
  <1>3. ASSUME Leaves, NEW g \in Files, Unlink(j, g)
        PROVE  /\ staging'[f] = staging[f] /\ inbox'[f] = inbox[f]
               /\ UNCHANGED <<manifest, logged, points>>
    <2>1. f # g
      BY <1>3 DEF Unlink, Disturb
    <2> QED
      BY <1>3, <2>1 DEF Leaves, Unlink, kstore
  <1>4. CASE Leaves /\ (OpenCopy(j) \/ WriteCopy(j))
    <2>1. f # Source(j)
      BY <1>4 DEF OpenCopy, WriteCopy, Disturb
    <2> QED
      BY <1>4, <2>1 DEF Leaves, OpenCopy, WriteCopy, kstore
  <1>5. CASE Leaves /\ (OpenManifest(j) \/ WriteManifest(j) \/ AppendLog(j))
    BY <1>5 DEF OpenManifest, WriteManifest, AppendLog, Disturb
  <1>6. CASE List(j) \/ LoadFile(j) \/ Ensure(j) \/ Create(j) \/ Query(j)
    BY <1>6 DEF List, LoadFile, Ensure, Create, Query, disk, kstore
  <1>7. CASE Upsert(j)
    BY <1>7 DEF Upsert, Disturb
  <1>8. CASE Over(j)
    BY <1>8 DEF Over, disk, kstore
  <1> QED
    BY <1>1, <1>2, <1>3, <1>4, <1>5, <1>6, <1>7, <1>8 DEF Acts, Loads

\* The curator disturbs every job that is at work.
LEMMA CuratorLeaves ==
  ASSUME Typed, Revise, NEW i \in Jobs
  PROVE  /\ UNCHANGED <<Memory(i), inbox, manifest, logged, points>>
         /\ Busy(i) => /\ moved[i] \subseteq moved'[i]
                       /\ \A f \in Files \ moved'[i] : staging'[f] = staging[f]
  <1>1. PICK f \in Files, c \in Contents \cup {NoFile} : Edit(f, c)
    BY DEF Revise
  <1> QED
    BY <1>1 DEF Revise, Leaves, Edit, Typed, KTypeOK, TTypeOK, Memory, progress, kstore

-----------------------------------------------------------------------------
(* The transfer *)

\* What a transfer knows of a file, and has done about it.
Mirrored(j, f) ==
  /\ at[j] = "list_inbox" => (f \in names[j] <=> staging[f] # NoFile)
  /\ at[j] \in {"mirror", "copying", "hash"} =>
       /\ f \in names[j] => staging[f] # NoFile
       /\ f \in todo[j] => f \notin names[j] /\ staging[f] = NoFile /\ notes[j][f] = NoFile
       /\ f \notin names[j] \cup todo[j] => inbox[f] = staging[f] /\ notes[j][f] = staging[f]
  /\ at[j] = "copying" /\ f = Source(j) => open[j] = staging[f]
  /\ at[j] = "hash" /\ f = Source(j) => inbox[f] = staging[f]
  /\ at[j] \in {"manifest", "log", "transferred"} =>
       inbox[f] = staging[f] /\ notes[j][f] = staging[f]
  /\ at[j] \in {"log", "transferred"} => manifest[f] = staging[f]
  /\ at[j] = "transferred" => (f \in logged <=> staging[f] # NoFile)

\* A transfer starts with nothing noted, and keeps up with every file that the
\* others leave alone.
KeepsUp(j) ==
  /\ at[j] \in {"idle", "glob", "list_inbox"} => notes[j] = Empty
  /\ \A f \in Files \ moved[j] : Mirrored(j, f)

LEMMA KeepsUpInit == KInit => \A j \in Jobs : KeepsUp(j)
  BY DEF KInit, TInit, KeepsUp, Mirrored

\* It keeps up while the others work,
LEMMA OthersLetKeepUp ==
  ASSUME Typed, NEW i \in Jobs, KeepsUp(i),
         Revise \/ \E j \in Jobs \ {i} : Acts(j)
  PROVE  KeepsUp(i)'
  <1>1. UNCHANGED Memory(i)
    BY MemoryIsOwn, CuratorLeaves
  <1>2. at'[i] = at[i] /\ names'[i] = names[i] /\ todo'[i] = todo[i] /\ open'[i] = open[i]
        /\ notes'[i] = notes[i] /\ Source(i)' = Source(i)
    BY <1>1 DEF Memory, Source
  <1>3. ASSUME NEW f \in Files \ moved'[i], Busy(i) PROVE Mirrored(i, f)'
    <2>1. f \notin moved[i]
      BY <1>3, MemoryIsOwn, CuratorLeaves
    <2>2. /\ staging'[f] = staging[f] /\ inbox'[f] = inbox[f]
          /\ manifest' = manifest /\ logged' = logged
      BY <1>3, OthersLeave, CuratorLeaves
    <2> QED
      BY <1>2, <2>1, <2>2 DEF KeepsUp, Mirrored
  <1>4. ASSUME NEW f \in Files \ moved'[i], ~Busy(i) PROVE Mirrored(i, f)'
    BY <1>2, <1>4 DEF Busy, Mirrored
  <1>5. at'[i] \in {"idle", "glob", "list_inbox"} => notes'[i] = Empty
    BY <1>2 DEF KeepsUp
  <1> QED
    BY <1>3, <1>4, <1>5 DEF KeepsUp, Empty

\* and with each step of its own.
LEMMA TransferKeepsUp ==
  ASSUME Typed, NEW j \in Jobs, KeepsUp(j), Leaves,
         \/ Glob(j) \/ ListInbox(j) \/ \E f \in Files : Unlink(j, f)
         \/ OpenCopy(j) \/ WriteCopy(j) \/ Hash(j)
         \/ OpenManifest(j) \/ WriteManifest(j) \/ AppendLog(j)
  PROVE  KeepsUp(j)'
  <1> USE DEF Goto
  <1>0. KTypeOK /\ TTypeOK /\ Copies(j)
    BY DEF Typed, KTypeOK
  <1>1. moved'[j] = moved[j]
    BY <1>0
    DEF TTypeOK, Glob, ListInbox, Unlink, OpenCopy, WriteCopy, Hash, OpenManifest,
        WriteManifest, AppendLog, Disturb
  <1>2. staging' = staging
    BY DEF Glob, ListInbox, Unlink, OpenCopy, WriteCopy, Hash, OpenManifest, WriteManifest,
           AppendLog, disk
  <1>3. CASE Glob(j)
    <2>1. /\ at[j] = "glob" /\ at'[j] = "list_inbox" /\ names'[j] = Present(staging)
          /\ notes'[j] = notes[j]
      BY <1>0, <1>3 DEF Glob, KTypeOK, TTypeOK
    <2> QED
      BY <1>1, <1>2, <2>1 DEF KeepsUp, Mirrored, Present, Empty
  <1>4. CASE ListInbox(j)
    <2>1. /\ at[j] = "list_inbox" /\ at'[j] = "mirror"
          /\ todo'[j] = Present(inbox) \ names[j]
          /\ UNCHANGED <<inbox, names, notes>>
      BY <1>0, <1>4 DEF ListInbox, KTypeOK, TTypeOK, disk
    <2>2. \A f \in Files : notes[j][f] = NoFile
      BY <2>1 DEF KeepsUp, Empty
    <2> QED
      BY <1>1, <1>2, <2>1, <2>2 DEF KeepsUp, Mirrored, Present
  <1>5. ASSUME NEW f \in Files, Unlink(j, f) PROVE KeepsUp(j)'
    <2>1. /\ at[j] = "mirror" /\ at' = at /\ f \in todo[j]
          /\ todo'[j] = todo[j] \ {f}
          /\ \A g \in Files : inbox'[g] = IF g = f THEN NoFile ELSE inbox[g]
          /\ UNCHANGED <<names, notes>>
      BY <1>0, <1>5 DEF Unlink, TTypeOK
    <2> QED
      BY <1>1, <1>2, <2>1 DEF KeepsUp, Mirrored
  <1>6. CASE OpenCopy(j)
    <2>1. Source(j) \in names[j]
      BY <1>0, <1>6, SourceIsNamed DEF OpenCopy, TTypeOK
    <2>2. /\ at[j] = "mirror" /\ at'[j] = "copying" /\ open'[j] = staging[Source(j)]
          /\ \A g \in Files : inbox'[g] = IF g = Source(j) THEN Torn ELSE inbox[g]
          /\ UNCHANGED <<names, todo, notes>>
      BY <1>0, <1>6 DEF OpenCopy, KTypeOK, TTypeOK
    <2>3. Source(j)' = Source(j)
      BY <2>2 DEF Source
    <2> QED
      BY <1>1, <1>2, <2>1, <2>2, <2>3 DEF KeepsUp, Mirrored
  <1>7. CASE WriteCopy(j)
    <2>1. Source(j) \in names[j]
      BY <1>0, <1>7, SourceIsNamed DEF WriteCopy, TTypeOK, Copies
    <2>2. /\ at[j] = "copying" /\ at'[j] = "hash"
          /\ \A g \in Files : inbox'[g] = IF g = Source(j) THEN open[j] ELSE inbox[g]
          /\ UNCHANGED <<names, todo, notes>>
      BY <1>0, <1>7 DEF WriteCopy, KTypeOK, TTypeOK, progress
    <2>3. Source(j)' = Source(j)
      BY <2>2 DEF Source
    <2> QED
      BY <1>1, <1>2, <2>1, <2>2, <2>3 DEF KeepsUp, Mirrored
  <1>8. CASE Hash(j)
    <2>1. Source(j) \in names[j] /\ todo[j] = {}
      BY <1>0, <1>8, SourceIsNamed DEF Hash, TTypeOK, Copies
    <2>2. /\ at[j] = "hash" /\ at'[j] = "mirror"
          /\ names'[j] = names[j] \ {Source(j)}
          /\ UNCHANGED <<inbox, todo>>
      BY <1>0, <1>8 DEF Hash, KTypeOK, TTypeOK, disk
    <2>3. \A g \in Files : notes'[j][g] = IF g = Source(j) THEN staging[g] ELSE notes[j][g]
      BY <1>0, <1>8 DEF Hash, TTypeOK, Directory
    <2> QED
      BY <1>1, <1>2, <2>1, <2>2, <2>3 DEF KeepsUp, Mirrored
  <1>9. CASE OpenManifest(j)
    <2>1. /\ at[j] = "mirror" /\ at'[j] = "manifest" /\ todo[j] = {} /\ names[j] = {}
          /\ UNCHANGED <<inbox, notes>>
      BY <1>0, <1>9 DEF OpenManifest, KTypeOK, progress
    <2> QED
      BY <1>1, <1>2, <2>1 DEF KeepsUp, Mirrored
  <1>10. CASE WriteManifest(j)
    <2>1. /\ at[j] = "manifest" /\ at'[j] = "log" /\ manifest' = notes[j]
          /\ UNCHANGED <<inbox, notes>>
      BY <1>0, <1>10 DEF WriteManifest, KTypeOK, progress
    <2> QED
      BY <1>1, <1>2, <2>1 DEF KeepsUp, Mirrored
  <1>11. CASE AppendLog(j)
    <2>1. /\ at[j] = "log" /\ at'[j] = "transferred" /\ logged' = Present(notes[j])
          /\ UNCHANGED <<inbox, manifest, notes>>
      BY <1>0, <1>11 DEF AppendLog, KTypeOK, progress
    <2> QED
      BY <1>1, <1>2, <2>1 DEF KeepsUp, Mirrored, Present
  <1> QED
    BY <1>3, <1>4, <1>5, <1>6, <1>7, <1>8, <1>9, <1>10, <1>11

LEMMA RestKeepsUp ==
  ASSUME Typed, NEW j \in Jobs, KeepsUp(j),
         (\E k \in Kinds : Launch(j, k)) \/ Loads(j) \/ Over(j)
  PROVE  KeepsUp(j)'
  <1> USE DEF Typed, KTypeOK, TTypeOK, Goto
  <1>1. CASE \E k \in Kinds : Launch(j, k)
    <2>1. PICK k \in Kinds : Launch(j, k)
      BY <1>1
    <2>2. FirstStep(k) \in {"glob", "list", "query"}
      BY DEF FirstStep, Kinds
    <2>3. at[j] = "idle" /\ at'[j] = FirstStep(k) /\ notes'[j] = notes[j]
      BY <2>1 DEF Launch, Start, Busy, progress
    <2> QED
      BY <2>2, <2>3 DEF KeepsUp, Mirrored, Empty
  <1>2. CASE Loads(j)
    <2>1. at'[j] \in {"load", "create", "upsert", "ingested", "retrieved"}
      BY <1>2 DEF Loads, List, LoadFile, Ensure, Create, Upsert, Query
    <2> QED
      BY <2>1 DEF KeepsUp, Mirrored
  <1>3. CASE Over(j)
    <2>1. at'[j] = "idle" /\ notes'[j] = Empty
      BY <1>3 DEF Over, Stop
    <2> QED
      BY <2>1 DEF KeepsUp, Mirrored, Empty
  <1> QED
    BY <1>1, <1>2, <1>3

LEMMA KeepsUpNext ==
  Typed /\ (\A j \in Jobs : KeepsUp(j)) /\ [KNext]_kvars => \A j \in Jobs : KeepsUp(j)'
  <1> SUFFICES ASSUME Typed, \A j \in Jobs : KeepsUp(j), [KNext]_kvars, NEW i \in Jobs
               PROVE  KeepsUp(i)'
    OBVIOUS
  <1>1. CASE Revise
    BY <1>1, OthersLetKeepUp
  <1>2. ASSUME NEW j \in Jobs, Acts(j) PROVE KeepsUp(i)'
    <2>1. CASE i = j
      BY <1>2, <2>1, TransferKeepsUp, RestKeepsUp DEF Acts
    <2>2. CASE i # j
      BY <1>2, <2>2, OthersLetKeepUp
    <2> QED
      BY <2>1, <2>2
  <1>3. CASE UNCHANGED kvars
    BY <1>3 DEF kvars, tvars, disk, progress, KeepsUp, Mirrored, Source, Empty
  <1> QED
    BY <1>1, <1>2, <1>3, NextActs

LEMMA KeepsUpSuffices == (\A j \in Jobs : KeepsUp(j)) => TransferMirrors
  BY DEF KeepsUp, Mirrored, TransferMirrors

\* When a transfer returns, inbox, manifest and log say what is in the staging
\* directory, of every file that nobody else touched meanwhile and whatever an
\* earlier transfer had left.
THEOREM TransferIsExact == KSpec => []TransferMirrors
  <1>1. (\A j \in Jobs : KeepsUp(j))' <=> \A j \in Jobs : KeepsUp(j)'
    OBVIOUS
  <1> QED
    BY <1>1, TypedInit, TypedNext, KeepsUpInit, KeepsUpNext, KeepsUpSuffices, PTL DEF KSpec

-----------------------------------------------------------------------------
(* The ingestion *)

\* The file is the last of fs that holds its object.
Latest(f, fs) ==
  \A g \in fs : Meaning[inbox[g]].id = Meaning[inbox[f]].id => g <= f

Visited(j) == Present(inbox) \ todo[j]

\* The files come in their order, and what is loaded of those visited is, for each
\* object, what the last of them holds.
Loaded(j) ==
  /\ \A f \in Visited(j) :
       /\ Loadable(inbox[f])
       /\ \A g \in todo[j] : f < g
       /\ Latest(f, Visited(j)) => batch[j][Meaning[inbox[f]].id] = inbox[f]
  /\ at[j] # "load" => todo[j] = {}

Current(j) ==
  \A f \in Present(inbox) :
    /\ Loadable(inbox[f])
    /\ Latest(f, Present(inbox)) =>
         points[Collection(j)][Meaning[inbox[f]].id] = inbox[f]

\* An ingestion that nobody disturbs.
Ingests(j) ==
  moved[j] = {} =>
    /\ at[j] \in {"load", "create", "upsert"} => Loaded(j)
    /\ at[j] = "ingested" => Current(j)

LEMMA IngestsInit == KInit => \A j \in Jobs : Ingests(j)
  BY DEF KInit, TInit, Ingests

LEMMA OthersLetIngest ==
  ASSUME Typed, NEW i \in Jobs, Ingests(i),
         Revise \/ \E j \in Jobs \ {i} : Acts(j)
  PROVE  Ingests(i)'
  <1> SUFFICES ASSUME moved'[i] = {}, Busy(i)
               PROVE  /\ at'[i] \in {"load", "create", "upsert"} => Loaded(i)'
                      /\ at'[i] = "ingested" => Current(i)'
    BY MemoryIsOwn, CuratorLeaves DEF Ingests, Memory, Busy
  <1>1. UNCHANGED Memory(i) /\ moved[i] = {}
    BY MemoryIsOwn, CuratorLeaves
  <1>2. /\ at'[i] = at[i] /\ todo'[i] = todo[i] /\ batch'[i] = batch[i]
        /\ Collection(i)' = Collection(i)
    BY <1>1 DEF Memory, Collection, Demo
  <1>3. \A f \in Files : inbox'[f] = inbox[f] /\ points' = points
    BY OthersLeave, CuratorLeaves
  <1>4. Present(inbox)' = Present(inbox) /\ Visited(i)' = Visited(i)
    BY <1>2, <1>3 DEF Present, Visited
  <1>5. \A f \in Present(inbox) : f \in Files /\ inbox'[f] = inbox[f] /\ points' = points
    BY <1>3 DEF Present
  <1>6. Visited(i) \subseteq Present(inbox)
    BY DEF Visited
  <1>7. ASSUME Loaded(i) PROVE Loaded(i)'
    BY <1>2, <1>4, <1>5, <1>6, <1>7 DEF Loaded, Latest, Loadable
  <1>8. ASSUME Current(i) PROVE Current(i)'
    BY <1>2, <1>4, <1>5, <1>8 DEF Current, Latest, Loadable
  <1> QED
    BY <1>1, <1>2, <1>7, <1>8 DEF Ingests

LEMMA ListIngests ==
  ASSUME Typed, NEW j \in Jobs, List(j)
  PROVE  Ingests(j)'
  <1>1. at'[j] = "load" /\ todo'[j] = Present(inbox) /\ inbox' = inbox
    BY DEF List, Goto, Typed, KTypeOK, TTypeOK, disk
  <1>2. Visited(j)' = {}
    BY <1>1 DEF Visited, Present
  <1> QED
    BY <1>1, <1>2 DEF Ingests, Loaded

\* The next file comes after all those visited, and replaces what they hold.
LEMMA LoadIngests ==
  ASSUME Typed, NEW j \in Jobs, Ingests(j), LoadFile(j)
  PROVE  Ingests(j)'
  <1> DEFINE m == Min(todo[j])
             c == inbox[m]
             id == Meaning[c].id
  <1>1. /\ at[j] = "load" /\ todo[j] # {} /\ Loadable(c) /\ at' = at
        /\ batch' = [batch EXCEPT ![j][id] = c] /\ todo'[j] = todo[j] \ {m}
        /\ moved' = moved /\ inbox' = inbox
    BY DEF LoadFile, Typed, KTypeOK, TTypeOK, disk
  <1>2. SUFFICES ASSUME Loaded(j) PROVE Loaded(j)'
    BY <1>1 DEF Ingests
  <1>3. todo[j] \in SUBSET Nat
    BY FilesAssumption DEF Typed, KTypeOK, TTypeOK
  <1>4. m \in todo[j] /\ \A g \in todo[j] : m <= g
    BY <1>1, <1>3, LeastExists
  <1>5. m \in Nat /\ m \in Files /\ m \in Present(inbox)
    <2>1. m \in Files
      BY <1>4 DEF Typed, KTypeOK, TTypeOK
    <2>2. c # NoFile
      BY <1>1, DistinctAssumption DEF Loadable
    <2> QED
      BY <2>1, <2>2, FilesAssumption DEF Present
  <1>6. id \in Ids
    BY <1>1, MeaningAssumption DEF Loadable
  <1> HIDE DEF m
  <1>7. Visited(j)' = Visited(j) \cup {m} /\ m \notin Visited(j)
    BY <1>1, <1>4, <1>5 DEF Visited, Present
  <1>8. batch'[j][id] = c /\ \A i \in Ids \ {id} : batch'[j][i] = batch[j][i]
    BY <1>1, <1>6 DEF Typed, KTypeOK
  <1>9. ASSUME NEW f \in Visited(j) \cup {m}
        PROVE  /\ Loadable(inbox[f])
               /\ \A g \in todo'[j] : f < g
               /\ Latest(f, Visited(j) \cup {m}) => batch'[j][Meaning[inbox[f]].id] = inbox[f]
    <2>1. CASE f = m
      <3>1. \A g \in todo'[j] : m < g
        <4>1. ASSUME NEW g \in todo'[j] PROVE m < g
          <5>1. g \in Nat /\ m <= g /\ g # m
            BY <1>1, <1>3, <1>4
          <5> QED
            BY <1>5, <5>1
        <4> QED
          BY <4>1
      <3> QED
        BY <1>1, <1>8, <2>1, <3>1
    <2>2. CASE f # m
      <3>1. f \in Visited(j) /\ f < m
        BY <1>2, <1>4, <2>2 DEF Loaded
      <3>2. Loadable(inbox[f]) /\ \A g \in todo'[j] : f < g
        BY <1>1, <1>2, <3>1 DEF Loaded
      <3>3. f \in Nat
        BY <3>1, FilesAssumption DEF Visited, Present
      <3>4. ASSUME Latest(f, Visited(j) \cup {m})
            PROVE  batch'[j][Meaning[inbox[f]].id] = inbox[f]
        <4>1. Meaning[inbox[f]].id # id
          <5>1. ~(m <= f)
            BY <1>5, <3>1, <3>3
          <5> QED
            BY <3>4, <5>1 DEF Latest
        <4>2. Meaning[inbox[f]].id \in Ids
          BY <3>2, MeaningAssumption DEF Loadable
        <4>3. Latest(f, Visited(j))
          BY <3>4 DEF Latest
        <4> QED
          BY <1>2, <1>8, <3>1, <4>1, <4>2, <4>3 DEF Loaded
      <3> QED
        BY <3>2, <3>4
    <2> QED
      BY <2>1, <2>2
  <1> QED
    BY <1>1, <1>7, <1>9 DEF Loaded, Latest, Loadable

LEMMA EnsureIngests ==
  ASSUME Typed, NEW j \in Jobs, Ingests(j), Ensure(j) \/ Create(j)
  PROVE  Ingests(j)'
  <1>1. /\ at[j] \in {"load", "create"} /\ at'[j] \in {"create", "upsert"}
        /\ at[j] = "load" => todo[j] = {}
        /\ UNCHANGED <<inbox, todo, batch, moved>>
    BY DEF Ensure, Create, Goto, Typed, KTypeOK, disk, progress
  <1> QED
    BY <1>1 DEF Ingests, Loaded, Visited, Present, Latest, Loadable

\* Every object of the inbox is loaded by then, and its point replaced.
LEMMA UpsertIngests ==
  ASSUME Typed, NEW j \in Jobs, Ingests(j), Upsert(j)
  PROVE  Ingests(j)'
  <1> DEFINE p == Collection(j)
             new == Override(points[p], batch[j])
  <1>1. /\ at[j] = "upsert" /\ at'[j] = "ingested"
        /\ points' = [points EXCEPT ![p] = new]
        /\ UNCHANGED <<inbox, kind>>
    BY DEF Upsert, Goto, Typed, KTypeOK, disk
  <1>2. moved'[j] = moved[j]
    BY DEF Upsert, Disturb, Typed, KTypeOK, TTypeOK
  <1>3. p' = p /\ p \in Collections
    BY <1>1 DEF Collection, Demo, Collections
  <1>4. points'[p] = new
    BY <1>1, <1>3 DEF Typed, KTypeOK
  <1>5. SUFFICES ASSUME Loaded(j) PROVE Current(j)'
    BY <1>1, <1>2 DEF Ingests
  <1>6. Visited(j) = Present(inbox)
    BY <1>1, <1>5 DEF Loaded, Visited
  <1>7. ASSUME NEW f \in Present(inbox)
        PROVE  /\ Loadable(inbox[f])
               /\ Latest(f, Present(inbox)) => new[Meaning[inbox[f]].id] = inbox[f]
    <2>1. Loadable(inbox[f])
          /\ (Latest(f, Present(inbox)) => batch[j][Meaning[inbox[f]].id] = inbox[f])
      BY <1>5, <1>6 DEF Loaded
    <2>2. Meaning[inbox[f]].id \in Ids /\ inbox[f] # NoObject
      BY <2>1, MeaningAssumption, IdsAssumption DEF Loadable
    <2> QED
      BY <2>1, <2>2 DEF Override
  <1> HIDE DEF p, new
  <1>8. \A f \in Present(inbox) :
          /\ Loadable(inbox[f])
          /\ Latest(f, Present(inbox)) => points'[p][Meaning[inbox[f]].id] = inbox[f]
    BY <1>4, <1>7
  <1>9. Collection(j)' = p
    BY <1>3 DEF p
  <1> QED
    BY <1>1, <1>8, <1>9 DEF Current, Latest, Present, Loadable

LEMMA RestIngests ==
  ASSUME Typed, NEW j \in Jobs, Ingests(j),
         \/ \E k \in Kinds : Launch(j, k)
         \/ Leaves /\ \/ Glob(j) \/ ListInbox(j) \/ \E f \in Files : Unlink(j, f)
                      \/ OpenCopy(j) \/ WriteCopy(j) \/ Hash(j)
                      \/ OpenManifest(j) \/ WriteManifest(j) \/ AppendLog(j)
         \/ Query(j) \/ Over(j)
  PROVE  Ingests(j)'
  <1>1. at'[j] \notin {"load", "create", "upsert", "ingested"}
    <2> USE DEF Typed, KTypeOK, TTypeOK, Goto
    <2>1. CASE \E k \in Kinds : Launch(j, k)
      <3>1. \A k \in Kinds : FirstStep(k) \in {"glob", "list", "query"}
        BY DEF FirstStep, Kinds
      <3> QED
        BY <2>1, <3>1 DEF Launch, Start
    <2>2. CASE \E f \in Files : Unlink(j, f)
      BY <2>2 DEF Unlink
    <2>3. CASE ~(\E k \in Kinds : Launch(j, k)) /\ ~\E f \in Files : Unlink(j, f)
      BY <2>3
      DEF Glob, ListInbox, OpenCopy, WriteCopy, Hash, OpenManifest, WriteManifest, AppendLog,
          Query, Over, Stop
    <2> QED
      BY <2>1, <2>2, <2>3
  <1> QED
    BY <1>1 DEF Ingests

LEMMA IngestsNext ==
  Typed /\ (\A j \in Jobs : Ingests(j)) /\ [KNext]_kvars => \A j \in Jobs : Ingests(j)'
  <1> SUFFICES ASSUME Typed, \A j \in Jobs : Ingests(j), [KNext]_kvars, NEW i \in Jobs
               PROVE  Ingests(i)'
    OBVIOUS
  <1>1. CASE Revise
    BY <1>1, OthersLetIngest
  <1>2. ASSUME NEW j \in Jobs, Acts(j) PROVE Ingests(i)'
    <2>1. CASE i = j
      BY <1>2, <2>1, ListIngests, LoadIngests, EnsureIngests, UpsertIngests, RestIngests
      DEF Acts, Loads
    <2>2. CASE i # j
      BY <1>2, <2>2, OthersLetIngest
    <2> QED
      BY <2>1, <2>2
  <1>3. CASE UNCHANGED kvars
    BY <1>3
    DEF kvars, tvars, disk, progress, kstore, Ingests, Loaded, Current, Visited, Present,
        Latest, Loadable, Collection, Demo
  <1> QED
    BY <1>1, <1>2, <1>3, NextActs

LEMMA IngestsSuffices == Typed /\ (\A j \in Jobs : Ingests(j)) => IngestCurrent
  <1> SUFFICES ASSUME Typed, NEW j \in Jobs, Current(j)
               PROVE  /\ \A f \in Present(inbox) : Loadable(inbox[f])
                      /\ \A id \in Ids : Holders(id) # {} =>
                           points[Collection(j)][id] = inbox[Max(Holders(id))]
    BY DEF Ingests, IngestCurrent
  <1>1. ASSUME NEW id \in Ids, Holders(id) # {}
        PROVE  points[Collection(j)][id] = inbox[Max(Holders(id))]
    <2>1. Holders(id) \in SUBSET Nat /\ IsFiniteSet(Holders(id))
      BY FilesAssumption, FS_Subset DEF Holders
    <2> DEFINE m == Max(Holders(id))
    <2>2. m \in Holders(id) /\ \A f \in Holders(id) : f <= m
      BY <1>1, <2>1, GreatestExists
    <2> HIDE DEF m
    <2>3. m \in Present(inbox) /\ Meaning[inbox[m]].id = id
      BY <2>2, DistinctAssumption DEF Holders, Present, Loadable
    <2>4. ASSUME NEW g \in Present(inbox), Meaning[inbox[g]].id = id PROVE g <= m
      <3>1. g \in Holders(id)
        BY <2>4 DEF Current, Holders, Present
      <3> QED
        BY <2>2, <3>1
    <2>5. Latest(m, Present(inbox))
      BY <2>3, <2>4 DEF Latest
    <2> QED
      BY <2>3, <2>5 DEF Current, m
  <1> QED
    BY <1>1 DEF Current

\* When an ingestion returns that nobody disturbed, all of the inbox was loaded,
\* and the collection holds of every object in it what its last file says.
THEOREM IngestIsCurrent == KSpec => []IngestCurrent
  <1>1. (\A j \in Jobs : Ingests(j))' <=> \A j \in Jobs : Ingests(j)'
    OBVIOUS
  <1> QED
    BY <1>1, TypedInit, TypedNext, IngestsInit, IngestsNext, IngestsSuffices, PTL DEF KSpec

-----------------------------------------------------------------------------
(* The query *)

LEMMA MinOfTwo ==
  ASSUME NEW a \in Nat, NEW b \in Nat, b <= a
  PROVE  Min({a, b}) = b
  <1>1. {a, b} \in SUBSET Nat /\ {a, b} # {}
    OBVIOUS
  <1>2. Min({a, b}) \in {a, b} /\ Min({a, b}) <= b
    BY <1>1, LeastExists
  <1> QED
    BY <1>2

LEMMA CandidatesFinite ==
  ASSUME NEW j \in Jobs, NEW category
  PROVE  IsFiniteSet(Candidates(j, category))
  <1> DEFINE payload == [id \in Ids |-> points[Collection(j)][id]]
             P == {points[Collection(j)][id] : id \in Ids}
  <1>1. payload \in Surjection(Ids, P)
    BY DEF Surjection
  <1>2. Candidates(j, category) \subseteq P
    BY DEF Candidates, Stored
  <1> HIDE DEF payload, P
  <1>3. IsFiniteSet(P)
    BY <1>1, IdsAssumption, FS_Surjection
  <1> QED
    BY <1>2, <1>3, FS_Subset

\* What a query returns when everything goes well.
Answers(j) ==
  \E category \in Categories(j) :
    LET candidates == Candidates(j, category)
        applicable == {c \in candidates : Applies(c, TargetVersion(j))}
    IN  /\ hits'[j] \subseteq applicable
        /\ Cardinality(candidates) <= TopK * OverFetch =>
             Cardinality(hits'[j]) = Min({TopK, Cardinality(applicable)})

LEMMA QueryAnswers ==
  ASSUME Typed, NEW j \in Jobs, Query(j)
  PROVE  Answers(j)
  <1>1. PICK category \in Categories(j) :
          \E fetched \in Nearest(Candidates(j, category)) :
            \E s \in FirstOf({c \in fetched : Applies(c, TargetVersion(j))}) :
              hits' = [hits EXCEPT ![j] = s]
    BY DEF Query
  <1> DEFINE candidates == Candidates(j, category)
             applicable == {c \in candidates : Applies(c, TargetVersion(j))}
  <1>2. PICK fetched \in Nearest(candidates) :
          \E s \in FirstOf({c \in fetched : Applies(c, TargetVersion(j))}) :
            hits' = [hits EXCEPT ![j] = s]
    BY <1>1
  <1> DEFINE fitting == {c \in fetched : Applies(c, TargetVersion(j))}
  <1>3. PICK s \in FirstOf(fitting) : hits' = [hits EXCEPT ![j] = s]
    BY <1>2
  <1>4. hits'[j] = s
    BY <1>3 DEF Typed, KTypeOK
  <1>5. IsFiniteSet(candidates) /\ Cardinality(candidates) \in Nat
    BY CandidatesFinite, FS_CardinalityType
  <1>6. /\ fetched \subseteq candidates
        /\ Cardinality(fetched) = Min({TopK * OverFetch, Cardinality(candidates)})
    BY DEF Nearest
  <1>7. /\ s \subseteq fitting
        /\ Cardinality(s) = Min({TopK, Cardinality(fitting)})
    BY DEF FirstOf
  <1>8. s \subseteq applicable
    BY <1>6, <1>7
  <1>9. ASSUME Cardinality(candidates) <= TopK * OverFetch
        PROVE  Cardinality(s) = Min({TopK, Cardinality(applicable)})
    <2> HIDE DEF candidates
    <2>1. TopK * OverFetch \in Nat
      BY FetchAssumption
    <2>2. Cardinality(fetched) = Cardinality(candidates)
      BY <1>5, <1>6, <1>9, <2>1, MinOfTwo
    <2>3. fetched = candidates
      BY <1>5, <1>6, <2>2, FS_Subset
    <2>4. fitting = applicable
      BY <2>3
    <2> QED
      BY <1>7, <2>4
  <1> QED
    BY <1>4, <1>8, <1>9 DEF Answers

\* A query returns only objects that apply to the version asked for, and as many
\* of them as it can while the over-fetch takes in all candidates.
THEOREM RetrievalIsComplete == KSpec => RetrievalComplete
  <1>1. ASSUME Typed, [KNext]_kvars, NEW i \in Jobs, at'[i] = "retrieved", at[i] # "retrieved"
        PROVE  Answers(i)
    <2>1. PICK j \in Jobs : Acts(j)
      BY <1>1, NextActs, CuratorLeaves DEF kvars, tvars, Memory
    <2>2. i = j
      BY <1>1, <2>1, MemoryIsOwn DEF Memory
    <2>3. Query(i)
      <3> USE DEF Typed, KTypeOK, TTypeOK, Goto
      <3>1. ~\E k \in Kinds : Launch(i, k)
        <4>1. \A k \in Kinds : FirstStep(k) \in {"glob", "list", "query"}
          BY DEF FirstStep, Kinds
        <4> QED
          BY <1>1, <4>1 DEF Launch, Start
      <3>2. ~\E f \in Files : Unlink(i, f)
        BY <1>1 DEF Unlink
      <3>3. ~(Glob(i) \/ ListInbox(i) \/ OpenCopy(i) \/ WriteCopy(i) \/ Hash(i)
              \/ OpenManifest(i) \/ WriteManifest(i) \/ AppendLog(i))
        BY <1>1
        DEF Glob, ListInbox, OpenCopy, WriteCopy, Hash, OpenManifest, WriteManifest, AppendLog
      <3>4. ~(List(i) \/ LoadFile(i) \/ Ensure(i) \/ Create(i) \/ Upsert(i) \/ Over(i))
        BY <1>1 DEF List, LoadFile, Ensure, Create, Upsert, Over, Stop
      <3> QED
        BY <2>1, <2>2, <3>1, <3>2, <3>3, <3>4 DEF Acts, Loads
    <2> QED
      BY <1>1, <2>3, QueryAnswers
  <1>2. Typed /\ [KNext]_kvars =>
          [\A j \in Jobs : at'[j] = "retrieved" /\ at[j] # "retrieved" =>
             \E category \in Categories(j) :
               LET candidates == Candidates(j, category)
                   applicable == {c \in candidates : Applies(c, TargetVersion(j))}
               IN  /\ hits'[j] \subseteq applicable
                   /\ Cardinality(candidates) <= TopK * OverFetch =>
                        Cardinality(hits'[j]) = Min({TopK, Cardinality(applicable)})]_kvars
    BY <1>1 DEF Answers
  <1> QED
    BY <1>2, TypedInit, TypedNext, PTL DEF KSpec, RetrievalComplete

=============================================================================
