----------------------------- MODULE AuditChain -----------------------------
(***************************************************************************)
(* The hash chain of the agentic audit log, audit/logger.py: what one      *)
(* entry is, how it is chained to the entry before it, and what            *)
(* verify_chain() accepts.  A module of definitions: AuditLog writes       *)
(* chains, AuditEdit changes them behind the logger's back.                *)
(*                                                                         *)
(* SHA-256 is taken to be free of collisions: the digest of an entry is    *)
(* the list of what went into it, which two different contents never       *)
(* share.  The timestamp and the payload of an entry are one value, its    *)
(* "event".                                                                *)
(***************************************************************************)
EXTENDS Naturals, Sequences

CONSTANT Events \* what a caller may log: an event type with its payload

Digests == Seq(Nat \X Events)

GenesisHash == <<>>

ComputeHash(seq, event, prev) == Append(prev, <<seq, event>>)

Entries == [seq : Nat, event : Events, prev : Digests, hash : Digests]

\* Bug: the sequence number counts down.
NewEntryBackwards(prev_seq, prev_hash, event) ==
  [seq   |-> prev_seq - 1,
   event |-> event,
   prev  |-> prev_hash,
   hash  |-> ComputeHash(prev_seq - 1, event, prev_hash)]

\* The entry append() builds: prev_seq and prev_hash are those of the last
\* entry of the file, 0 and the genesis hash when there is none.
NewEntry(prev_seq, prev_hash, event) ==
  [seq   |-> prev_seq + 1,
   event |-> event,
   prev  |-> prev_hash,
   hash  |-> ComputeHash(prev_seq + 1, event, prev_hash)]

\* What the entry at position i must be linked to.
PrevHash(es, i) == IF i = 1 THEN GenesisHash ELSE es[i - 1].hash

\* Bug: the first entry's link is not looked at, and the numbers are only
\* required to increase.
VerifyLoosely(es) ==
  \A i \in DOMAIN es :
    /\ i > 1 => es[i].seq > es[i - 1].seq
    /\ i > 1 => es[i].prev = es[i - 1].hash
    /\ es[i].hash = ComputeHash(es[i].seq, es[i].event, es[i].prev)

\* verify_chain() on the entries read_all() returned: positions without a gap,
\* every link, and every digest recomputed.
VerifyChain(es) ==
  \A i \in DOMAIN es :
    /\ es[i].seq = i
    /\ es[i].prev = PrevHash(es, i)
    /\ es[i].hash = ComputeHash(es[i].seq, es[i].event, es[i].prev)
=============================================================================
