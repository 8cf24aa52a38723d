----------------------------- MODULE AuditEdit -----------------------------
(***************************************************************************)
(* What verify_chain(), audit/logger.py, finds out about a log that was    *)
(* edited after the fact: lines deleted, two lines exchanged, the payload  *)
(* of a line rewritten with its old hash left in place (the edits of       *)
(* tests/test_audit_logger.py, in any number and any order).               *)
(***************************************************************************)
EXTENDS AuditChain, SequencesExt

CONSTANTS
  MaxLen,  \* bound: entries in the log
  MaxEdits \* bound: edits made to it

ASSUME BoundAssumption == MaxLen \in Nat /\ MaxEdits \in Nat

VARIABLES
  log,   \* the entries append() wrote
  copy,  \* the file as it reads now
  edits

vars == <<log, copy, edits>>

Init == log = <<>> /\ copy = <<>> /\ edits = 0

\* append() without faults, see AuditLog.
AppendEntry(event) ==
  /\ edits = 0
  /\ Len(log) < MaxLen
  /\ log' = Append(log,
       IF log = <<>> THEN NewEntry(0, GenesisHash, event)
                     ELSE NewEntry(Last(log).seq, Last(log).hash, event))
  /\ copy' = log'
  /\ UNCHANGED edits

Edit(es) ==
  /\ edits < MaxEdits
  /\ edits' = edits + 1
  /\ copy' = es
  /\ UNCHANGED log

Delete(i) == Edit(RemoveAt(copy, i))

Exchange(i, j) == Edit([copy EXCEPT ![i] = copy[j], ![j] = copy[i]])

Rewrite(i, event) == Edit([copy EXCEPT ![i].event = event])

Next ==
  \/ \E e \in Events : AppendEntry(e)
  \/ \E i \in DOMAIN copy : Delete(i)
  \/ \E i, j \in DOMAIN copy : Exchange(i, j)
  \/ \E i \in DOMAIN copy, e \in Events : Rewrite(i, e)

Spec == Init /\ [][Next]_vars

-----------------------------------------------------------------------------
TypeOK ==
  /\ log \in Seq(Entries)
  /\ copy \in Seq(Entries)
  /\ edits \in 0 .. MaxEdits

\* "a step can't be silently deleted or reordered after the fact without
\* breaking the chain" (audit/logger.py:16-17), as far as it goes: whatever the
\* edits, a log that still verifies says nothing append() did not write, and
\* says it in the order it was written, without a gap.
VerifiedIsPrefix == VerifyChain(copy) => IsPrefix(copy, log)

=============================================================================
