----------------------------- MODULE Knowledge -----------------------------
(***************************************************************************)
(* The knowledge base behind the Patch Agent: transfers into the inbox     *)
(* (DmzTransfer), load_knowledge_objects() and ingest() of                 *)
(* rag/ingestion/ingest.py, which upsert the inbox into a collection of    *)
(* Qdrant, and retrieve() of rag/retrieval/retrieve.py, which reads it.    *)
(*                                                                         *)
(* Four programs share inbox and collections: the transfer script, the     *)
(* ingestion of docs/INGESTION_PROCESS.md, demo.py (both of them into a    *)
(* collection of its own, then a query) and the query of run_patch.py.     *)
(***************************************************************************)
EXTENDS DmzTransfer, Versions

CONSTANTS
  Ids,       \* KnowledgeObject.id
  Meaning,   \* content -> [id, category, min, max], or Invalid
  Invalid,   \* model_validate() rejects it
  NoBound,   \* applicable_min_version or applicable_max_version left out
  NoObject,
  AnyCategory,
  NoVersion, \* target_version = None
  DemoVersion,
  TopK,      \* top_k
  OverFetch  \* limit=top_k * 4

ASSUME MeaningAssumption ==
  \A c \in Contents : Meaning[c] # Invalid =>
    DOMAIN Meaning[c] = {"id", "category", "min", "max"} /\ Meaning[c].id \in Ids
ASSUME IdsAssumption == IsFiniteSet(Ids) /\ NoObject \notin Contents
ASSUME FetchAssumption == TopK \in Nat \ {0} /\ OverFetch \in Nat \ {0}

VARIABLES
  points,    \* the payloads of each collection: id -> content
  dimension, \* the embedder each collection was created for, or "absent"
  batch,     \* the objects a job has loaded: id -> content
  hits       \* what the last query of a job returned

kstore == <<points, dimension>>
kvars  == <<tvars, kstore, batch, hits>>

Collections == {"oracle_procedures", "oracle_procedures_demo"}

Kinds == {"transfer", "ingest", "query", "demo", "demo_real"}

Demo(j) == kind[j] \in {"demo", "demo_real"}

Collection(j) == IF Demo(j) THEN "oracle_procedures_demo" ELSE "oracle_procedures"

\* demo.py without --real-embeddings uses DeterministicTestEmbedder.
Embedder(j) == IF kind[j] = "demo" THEN "deterministic" ELSE "sentence_transformer"

NoObjects == [id \in Ids |-> NoObject]

Stored(collection) ==
  {points[collection][id] : id \in Ids} \ {NoObject}

KInit ==
  /\ TInit
  /\ points = [c \in Collections |-> NoObjects]
  /\ dimension = [c \in Collections |-> "absent"]
  /\ batch = [j \in Jobs |-> NoObjects]
  /\ hits = [j \in Jobs |-> {}]

FirstStep(k) ==
  CASE k = "transfer" -> "glob"
    [] k = "ingest"   -> "list"
    [] k = "query"    -> "query"
    [] OTHER          -> "glob"

Launch(j, k) ==
  /\ Start(j, k, FirstStep(k))
  /\ UNCHANGED <<kstore, batch, hits>>

\* The job ends, its memory with it; the stores keep what they have.
End(j) ==
  /\ Stop(j)
  /\ batch' = [batch EXCEPT ![j] = NoObjects]
  /\ hits' = [hits EXCEPT ![j] = {}]
  /\ UNCHANGED <<disk, kstore>>

-----------------------------------------------------------------------------
(* Ingestion *)

\* source_dir.glob("*.yml"); demo.py goes on from its transfer.
List(j) ==
  /\ at[j] = "list" \/ (at[j] = "transferred" /\ Demo(j))
  /\ todo' = [todo EXCEPT ![j] = Present(inbox)]
  /\ Goto(j, "load")
  /\ UNCHANGED <<disk, kind, names, open, notes, moved, bounds, kstore, batch, hits>>

Loadable(c) == c \in Contents /\ Meaning[c] # Invalid

\* One file of the sorted list; of two with the same id the later one wins.
LoadFile(j) ==
  /\ at[j] = "load"
  /\ todo[j] # {}
  /\ LET c == inbox[Min(todo[j])]
     IN  /\ Loadable(c)
         /\ batch' = [batch EXCEPT ![j][Meaning[c].id] = c]
  /\ todo' = [todo EXCEPT ![j] = @ \ {Min(@)}]
  /\ UNCHANGED <<disk, at, kind, names, open, notes, moved, bounds, kstore, hits>>

\* Gone, torn (source comes last in every object and is required) or invalid:
\* the exception leaves load_knowledge_objects() with nothing upserted.
LoadRaises(j) ==
  /\ at[j] = "load"
  /\ todo[j] # {}
  /\ ~Loadable(inbox[Min(todo[j])])
  /\ End(j)

\* get_collections(): is ours among them?
Ensure(j) ==
  /\ at[j] = "load"
  /\ todo[j] = {}
  /\ Goto(j, IF dimension[Collection(j)] = "absent" THEN "create" ELSE "upsert")
  /\ UNCHANGED <<disk, kind, progress, moved, bounds, kstore, batch, hits>>

Create(j) ==
  /\ at[j] = "create"
  /\ dimension[Collection(j)] = "absent"
  /\ dimension' = [dimension EXCEPT ![Collection(j)] = Embedder(j)]
  /\ Goto(j, "upsert")
  /\ UNCHANGED <<disk, kind, progress, moved, bounds, points, batch, hits>>

\* Somebody else has created it meanwhile: Qdrant refuses.
CreateRaises(j) ==
  /\ at[j] = "create"
  /\ dimension[Collection(j)] # "absent"
  /\ End(j)

\* Bug: a point that exists is left as it is.
OverrideNever(old, new) == [id \in Ids |-> IF old[id] = NoObject THEN new[id] ELSE old[id]]

Override(old, new) == [id \in Ids |-> IF new[id] = NoObject THEN old[id] ELSE new[id]]

\* One request; the id decides which point is replaced.  Nothing is ever deleted.
Upsert(j) ==
  /\ at[j] = "upsert"
  /\ batch[j] = NoObjects \/ dimension[Collection(j)] = Embedder(j)
  /\ points' = [points EXCEPT ![Collection(j)] = Override(@, batch[j])]
  /\ Disturb(j, Files)
  /\ Goto(j, "ingested")
  /\ UNCHANGED <<disk, kind, progress, bounds, dimension, batch, hits>>

\* The collection was created for vectors of another length.
UpsertRaises(j) ==
  /\ at[j] = "upsert"
  /\ batch[j] # NoObjects
  /\ dimension[Collection(j)] # Embedder(j)
  /\ End(j)

-----------------------------------------------------------------------------
(* Retrieval *)

\* run_patch.py has an optional --category and passes no target_version;
\* demo.py asks for the objects that apply to one version, of any category.
Categories(j) ==
  IF Demo(j) THEN {AnyCategory}
  ELSE {AnyCategory} \cup {Meaning[c].category : c \in {d \in Contents : Loadable(d)}}

TargetVersion(j) == IF Demo(j) THEN DemoVersion ELSE NoVersion

Candidates(j, category) ==
  {c \in Stored(Collection(j)) : category \in {AnyCategory, Meaning[c].category}}

\* _applies_to_version().
Applies(c, version) ==
  version # NoVersion =>
    /\ Meaning[c].min # NoBound => TupleLeq(Meaning[c].min, version)
    /\ Meaning[c].max # NoBound => TupleLeq(version, Meaning[c].max)

\* A bound that _version_tuple() rejects; the maximum is looked at only when the
\* minimum does not exclude the object.
Unreadable(c, version) ==
  /\ version # NoVersion
  /\ \/ Meaning[c].min = Unparsable
     \/ /\ Meaning[c].max = Unparsable
        /\ Meaning[c].min # NoBound => TupleLeq(Meaning[c].min, version)

\* Bug: no over-fetch.
NearestTopK(candidates) ==
  LET n == Min({TopK, Cardinality(candidates)})
  IN  {s \in SUBSET candidates : Cardinality(s) = n}

\* What query_points() may return: the ranking is the embedder's.
Nearest(candidates) ==
  LET n == Min({TopK * OverFetch, Cardinality(candidates)})
  IN  {s \in SUBSET candidates : Cardinality(s) = n}

\* The same ranking decides which of the applicable ones are the first top_k.
FirstOf(applicable) ==
  LET n == Min({TopK, Cardinality(applicable)})
  IN  {s \in SUBSET applicable : Cardinality(s) = n}

Reachable(j) == dimension[Collection(j)] = Embedder(j)

Query(j) ==
  /\ at[j] = "query" \/ (at[j] = "ingested" /\ Demo(j))
  /\ Reachable(j)
  /\ \E category \in Categories(j) : \E fetched \in Nearest(Candidates(j, category)) :
       LET v == TargetVersion(j)
       IN  /\ \A c \in fetched : ~Unreadable(c, v)
           /\ \E s \in FirstOf({c \in fetched : Applies(c, v)}) :
                hits' = [hits EXCEPT ![j] = s]
  /\ Goto(j, "retrieved")
  /\ UNCHANGED <<disk, kind, progress, moved, bounds, kstore, batch>>

\* No such collection, vectors of another length, or a hit whose bound does not
\* parse: the exception ends the caller.
QueryRaises(j) ==
  /\ at[j] = "query" \/ (at[j] = "ingested" /\ Demo(j))
  /\ \/ ~Reachable(j)
     \/ \E category \in Categories(j) : \E fetched \in Nearest(Candidates(j, category)) :
          \E c \in fetched : Unreadable(c, TargetVersion(j))
  /\ End(j)

\* The program returns to its caller.
Finish(j) ==
  /\ \/ at[j] = "transferred" /\ kind[j] = "transfer"
     \/ at[j] = "ingested" /\ kind[j] = "ingest"
     \/ at[j] = "retrieved"
  /\ End(j)

-----------------------------------------------------------------------------
Work(j) ==
  \/ Transfer(j) /\ UNCHANGED <<kstore, batch, hits>>
  \/ List(j) \/ LoadFile(j) \/ LoadRaises(j)
  \/ Ensure(j) \/ Create(j) \/ CreateRaises(j) \/ Upsert(j) \/ UpsertRaises(j)
  \/ Query(j) \/ QueryRaises(j) \/ Finish(j)

KNext ==
  \/ \E f \in Files, c \in Contents \cup {NoFile} :
       Edit(f, c) /\ UNCHANGED <<kstore, batch, hits>>
  \/ \E j \in Jobs :
       \/ \E k \in Kinds : Launch(j, k)
       \/ Work(j)
       \/ Crash(j) /\ batch' = [batch EXCEPT ![j] = NoObjects]
                   /\ hits' = [hits EXCEPT ![j] = {}] /\ UNCHANGED kstore

KSpec == KInit /\ [][KNext]_kvars

-----------------------------------------------------------------------------
KSteps == TSteps \cup {"list", "load", "create", "upsert", "ingested", "query", "retrieved"}

KTypeOK ==
  /\ TTypeOK
  /\ at \in [Jobs -> KSteps]
  /\ kind \in [Jobs -> Kinds \cup {"none"}]
  /\ points \in [Collections -> [Ids -> Contents \cup {NoObject}]]
  /\ \A c \in Collections, id \in Ids :
       points[c][id] # NoObject => Loadable(points[c][id]) /\ Meaning[points[c][id]].id = id
  /\ dimension \in [Collections -> {"absent", "deterministic", "sentence_transformer"}]
  /\ batch \in [Jobs -> [Ids -> Contents \cup {NoObject}]]
  /\ hits \in [Jobs -> SUBSET Contents]

\* The files of the inbox that hold an object with this id.
Holders(id) == {f \in Files : Loadable(inbox[f]) /\ Meaning[inbox[f]].id = id}

\* "re-running ingest on the same id updates in place" (INGESTION_PROCESS.md:
\* 106-110, ingest.py:26-30): when an ingestion returns that nobody disturbed,
\* the collection holds, for every id in the inbox, the object of its last file,
\* and nothing in the inbox was left out: all of it loads.
IngestCurrent ==
  \A j \in Jobs : at[j] = "ingested" /\ moved[j] = {} =>
    /\ \A f \in Present(inbox) : Loadable(inbox[f])
    /\ \A id \in Ids : Holders(id) # {} =>
         points[Collection(j)][id] = inbox[Max(Holders(id))]

\* "the provenance record for 'what's actually in the knowledge base right now'"
\* (dmz_transfer.py:36-37): when an ingestion of an inbox that is as its manifest
\* says returns, the collection holds what the manifest names, and nothing else.
ManifestIsBase ==
  \A j \in Jobs : at[j] = "ingested" /\ moved[j] = {} /\ manifest = inbox =>
    Stored(Collection(j)) \subseteq {manifest[f] : f \in Files}

\* A query returns only objects that apply, and as many of them as it can: all
\* up to top_k, as long as the collection has no more candidates than the
\* over-fetch takes (retrieve.py:56-67).
RetrievalComplete ==
  [][\A j \in Jobs : at'[j] = "retrieved" /\ at[j] # "retrieved" =>
       \E category \in Categories(j) :
         LET candidates == Candidates(j, category)
             applicable == {c \in candidates : Applies(c, TargetVersion(j))}
         IN  /\ hits'[j] \subseteq applicable
             /\ Cardinality(candidates) <= TopK * OverFetch =>
                  Cardinality(hits'[j]) = Min({TopK, Cardinality(applicable)})]_kvars

=============================================================================
