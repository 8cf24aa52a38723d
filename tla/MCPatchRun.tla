----------------------------- MODULE MCPatchRun -----------------------------
(***************************************************************************)
(* Instances of PatchRun and Demo for TLC, and Catalogue against a         *)
(* reference, for every list of up to three files.                         *)
(***************************************************************************)
EXTENDS Demo, Catalogue, MCExecutor

\* All fields of an entry of registry/procedures/, with its precheck playbook.
Entry(id, precheck, type, preconditions) ==
  [procedure_id |-> id, description |-> "", target_type |-> type,
   min_supported_version |-> MCRegistry[ru].min,
   max_supported_version |-> MCRegistry[ru].max,
   precheck_playbook |-> precheck, apply_playbook |-> "apply",
   rollback_info_playbook |-> "rollback",
   required_preconditions |-> preconditions]

MCPreconditions == {"backup", "space"}

MCPlaybooks == {"precheck", "apply", "rollback"}

Both == <<[stem |-> rac, raw |-> Entry(rac, "precheck", "rac", MCPreconditions)
             @@ [notes |-> "", requires_grid_infra |-> TRUE]],
          [stem |-> ru, raw |-> Entry(ru, "precheck", "single_instance", {"space"})]>>

\* A good entry under another name, a dangling playbook, another type, an unknown
\* precondition, a key left out, and one too many.
Broken ==
  {[stem |-> unknown, raw |-> Entry(ru, "precheck", "rac", {})],
   [stem |-> unknown, raw |-> Entry(unknown, "scan", "rac", {})],
   [stem |-> unknown, raw |-> Entry(unknown, "precheck", "standby", {})],
   [stem |-> unknown, raw |-> Entry(unknown, "precheck", "rac", {"luck"})],
   [stem |-> unknown, raw |-> [procedure_id |-> unknown]],
   [stem |-> unknown, raw |-> Entry(unknown, "precheck", "rac", {}) @@ [shell |-> ""]]}

Good2 == {Both[1], Both[2]}

Directories == UNION {[1 .. n -> Good2 \cup Broken] : n \in 0 .. 3}

\* Names are unique in a directory.
Possible(files) == \A i, j \in DOMAIN files : files[i].stem = files[j].stem => i = j

\* "the entire registry fails to load" (registry.py:7-10): one broken entry, in
\* whatever place, and there is no registry; otherwise it holds every file.
ASSUME AllOrNothing ==
  \A files \in {d \in Directories : Possible(d)} :
    IF \E i \in DOMAIN files : files[i] \in Broken
      THEN LoadRegistry(files) = Raised
      ELSE /\ DOMAIN LoadRegistry(files) = {files[i].stem : i \in DOMAIN files}
           /\ \A i \in DOMAIN files : LoadRegistry(files)[files[i].stem] = files[i].raw

\* The registry of the runs is what the two files load to.
ASSUME RegistryIsLoaded ==
  MCRegistry = [id \in DOMAIN LoadRegistry(Both) |->
                  [min |-> LoadRegistry(Both)[id].min_supported_version,
                   max |-> LoadRegistry(Both)[id].max_supported_version]]
=============================================================================
