--------------------------- MODULE AppendOnlyLog ---------------------------
(***************************************************************************)
(* What an append-only log promises its callers, without files, locks,     *)
(* hashes or partial writes: events are added at the end, one at a time;   *)
(* an event whose append was acknowledged is kept for ever at its          *)
(* position; a fault may lose events at the end that were not              *)
(* acknowledged.                                                           *)
(***************************************************************************)
EXTENDS Naturals, Sequences

CONSTANT Events

VARIABLES
  log,  \* the events, oldest first
  kept  \* the positions that have been acknowledged

Init == log = <<>> /\ kept = {}

Add(e) == log' = Append(log, e) /\ UNCHANGED kept

Acknowledge(i) == i \in DOMAIN log /\ kept' = kept \cup {i} /\ UNCHANGED log

Lose(n) ==
  /\ \A i \in kept : i <= n
  /\ log' = SubSeq(log, 1, n)
  /\ UNCHANGED kept

Next ==
  \/ \E e \in Events : Add(e)
  \/ \E i \in DOMAIN log : Acknowledge(i)
  \/ \E n \in 0 .. Len(log) : Lose(n)

Spec == Init /\ [][Next]_<<log, kept>>
=============================================================================
