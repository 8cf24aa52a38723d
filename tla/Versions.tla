------------------------------ MODULE Versions ------------------------------
(***************************************************************************)
(* Version strings as executor/executor.py compares them: tuples of        *)
(* integers under Python's tuple order.  A version that _parse_version()   *)
(* rejects ("19c", "") is the empty sequence, which no parsed string is.   *)
(***************************************************************************)
EXTENDS Naturals, Sequences

Version == Seq(Nat)

Unparsable == <<>>

\* a <= b for Python tuples: the first component that differs decides, and a
\* proper prefix comes first.
TupleLeq(a, b) ==
  \/ /\ Len(a) <= Len(b)
     /\ \A i \in DOMAIN a : a[i] = b[i]
  \/ \E i \in DOMAIN a \cap DOMAIN b :
       /\ a[i] < b[i]
       /\ \A j \in 1 .. i - 1 : a[j] = b[j]

\* The same order as Python's reference manual has it: tuples are compared item by
\* item; the first pair that differs decides, and a tuple that runs out first is
\* the smaller.
PythonLeq[p \in Version \X Version] ==
  IF p[1] = <<>> THEN TRUE
  ELSE IF p[2] = <<>> THEN FALSE
  ELSE IF Head(p[1]) = Head(p[2]) THEN PythonLeq[<<Tail(p[1]), Tail(p[2])>>]
  ELSE Head(p[1]) < Head(p[2])

\* Bug: the bounds are excluded.
InRangeStrictly(v, min, max) ==
  /\ Unparsable \notin {v, min, max}
  /\ TupleLeq(min, v)
  /\ TupleLeq(v, max)
  /\ v \notin {min, max}

\* _version_in_range() returns TRUE; FALSE also stands for the ValueError of a
\* version that does not parse.
InRange(v, min, max) ==
  /\ Unparsable \notin {v, min, max}
  /\ TupleLeq(min, v)
  /\ TupleLeq(v, max)
=============================================================================
