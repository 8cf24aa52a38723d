----------------------------- MODULE MCExecutor -----------------------------
(* Instances of Executor for TLC. *)
EXTENDS Executor, TLC

CONSTANTS r1, h1, h2, ru, rac, unknown, no_id, other_id

OneRun == {r1}

TwoHosts == {h1, h2}

TwoHostInventory == <<h1, h2>>

\* The two entries of registry/procedures/, with the lengths of
\* oracle_19c_ru_patch and oracle_19c_rac_ru_patch.
MCRegistry ==
  (ru :> [min |-> <<19, 0, 0, 0, 0>>, max |-> <<19, 99, 99, 99, 99>>]) @@
  (rac :> [min |-> <<19, 0, 0, 0, 0>>, max |-> <<19, 99, 99, 99, 99>>])

MCIdLength == (ru :> 19) @@ (rac :> 23)

Plan(procedure, host, version) ==
  [procedure |-> procedure, target |-> host, version |-> version, phrase |-> FALSE]

\* target_version is free text (patch_plan.schema.json): here with the words by
\* which run_patch.py knows a refusal.
Phrased == [Plan(ru, h1, Unparsable) EXCEPT !.phrase = TRUE]

GoodVersion == <<19, 26, 0, 0, 0>>

\* Inside the range and at its two ends.
SupportedVersions ==
  {GoodVersion, <<19, 0, 0, 0, 0>>, <<19, 99, 99, 99, 99>>}

\* A text that does not parse; a version that stops short of the lower end; the
\* nearest ones outside; one of another release.
UnsupportedVersions ==
  {Unparsable, <<19>>, <<18, 99, 99, 99, 99>>, <<19, 99, 99, 99, 99, 1>>,
   <<20>>, <<21, 3, 0, 0, 0>>}

MCPlans ==
  {Plan(ru, h1, v) : v \in SupportedVersions \cup UnsupportedVersions}
    \cup {Plan(rac, h1, GoodVersion), Plan(unknown, h1, GoodVersion), Phrased}

GoodPlan == {Plan(ru, h1, GoodVersion)}

\* Two seconds of one day, and a day of the next month.
MCStamps ==
  {<<2, 0, 2, 6, 0, 9, 2, 2, 1, 5, 5, 3, 4, 8>>,
   <<2, 0, 2, 6, 0, 9, 2, 2, 1, 5, 5, 3, 4, 9>>,
   <<2, 0, 2, 6, 1, 0, 2, 2, 1, 5, 5, 3, 4, 8>>}
=============================================================================
