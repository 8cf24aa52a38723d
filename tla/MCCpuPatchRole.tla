--------------------------- MODULE MCCpuPatchRole ---------------------------
(* Instances of CpuPatchRole for TLC. *)
EXTENDS CpuPatchRole, TLC

CONSTANTS p1, p2, p3, cdb1, cdb2

OnePlay == {p1}
TwoPlays == {p1, p2}
ThreePlays == TwoPlays \cup {p3}

OneCdb == {cdb1}
TwoCdbs == {cdb1, cdb2}

\* Neither plays nor CDBs are told apart by anything in the model.
Symmetry == Permutations(TwoPlays) \cup Permutations(TwoCdbs)

Full(auto, validate) ==
  [vars |-> TRUE, full |-> TRUE, auto |-> auto, skip |-> FALSE,
   validate |-> validate, confirmed |-> TRUE, only |-> {}, without |-> {}]

Unconfirmed == [Full(FALSE, FALSE) EXCEPT !.confirmed = FALSE]

\* Around the gate and the precheck by --skip-tags; into it by --tags; past it to
\* the datapatch alone.
TaggedModes ==
  {[Full(FALSE, TRUE) EXCEPT !.confirmed = FALSE, !.without = {"precheck", "datapatch"}],
   [Unconfirmed EXCEPT !.only = {"datapatch"}],
   [Full(FALSE, FALSE) EXCEPT !.only = {"datapatch"}]}

\* The defaults with either patch tool, each switch thrown once, and a play
\* without patch_id.
MCModes ==
  {Full(TRUE, FALSE), Full(FALSE, FALSE), Full(FALSE, TRUE),
   [Full(FALSE, FALSE) EXCEPT !.full = FALSE, !.confirmed = FALSE],
   [Full(FALSE, TRUE) EXCEPT !.skip = TRUE],
   Unconfirmed,
   [Full(FALSE, FALSE) EXCEPT !.vars = FALSE]} \cup TaggedModes

\* What cpu_patch_precheck.yml runs.
PrecheckOnly == {[Full(FALSE, FALSE) EXCEPT !.full = FALSE, !.confirmed = FALSE]}

Manual == {Full(FALSE, FALSE)}
=============================================================================
