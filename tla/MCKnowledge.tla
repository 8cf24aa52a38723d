---------------------------- MODULE MCKnowledge ----------------------------
(* Instances of Knowledge for TLC. *)
EXTENDS Knowledge, TLC

CONSTANTS j1, j2, aOld, aNew, bOdd, cNext, broken, idA, idB, idC, opatch, rac

MCJobs == {j1, j2}

OneJob == {j1}

AnyJob == Permutations(MCJobs)

MCFiles == 1 .. 2

MCContents == {aOld, aNew, bOdd, cNext, broken}

MCIds == {idA, idB, idC}

Object(id, category, min, max) ==
  [id |-> id, category |-> category, min |-> min, max |-> max]

R19 == <<19, 0, 0, 0, 0>>

\* Two revisions of one object, one with a bound that is not a version ("19c"),
\* one for a later release, and one without its source.
MCMeaning ==
  (aOld :> Object(idA, opatch, R19, <<19, 99, 99, 99, 99>>)) @@
  (aNew :> Object(idA, opatch, R19, NoBound)) @@
  (bOdd :> Object(idB, rac, NoBound, Unparsable)) @@
  (cNext :> Object(idC, rac, <<21>>, NoBound)) @@
  (broken :> Invalid)

\* Two files may come to hold the same object.
MCDrafts == <<{aOld, aNew, broken}, {aOld, bOdd, cNext}>>

MCFirstStaging == {<<aOld, cNext>>}

MCDemoVersion == <<19, 28, 0, 0, 0>>
=============================================================================
