----------------------------- MODULE Catalogue -----------------------------
(***************************************************************************)
(* ProcedureRegistry.load(), registry/procedures/registry.py, and the      *)
(* validation of one entry in registry/procedures/schema.py.  A file is    *)
(* [stem, raw]: its name and the mapping safe_load() finds in it, a record *)
(* with a field for every key.                                             *)
(***************************************************************************)
EXTENDS SequencesExt

CONSTANTS
  Preconditions, \* KNOWN_PRECONDITIONS
  Playbooks,     \* the files that exist under ansible_dir
  Raised         \* the exception load() ends with

TargetTypes == {"single_instance", "rac"}

PlaybookFields == {"precheck_playbook", "apply_playbook", "rollback_info_playbook"}

RequiredFields ==
  PlaybookFields \cup {"procedure_id", "description", "target_type",
                       "min_supported_version", "max_supported_version",
                       "required_preconditions"}

OptionalFields == {"confirm_var_name", "requires_grid_infra", "notes"}

\* extra="forbid", the Literal, and the field_validator.
ModelValidates(raw) ==
  /\ RequiredFields \subseteq DOMAIN raw
  /\ DOMAIN raw \subseteq RequiredFields \cup OptionalFields
  /\ raw.target_type \in TargetTypes
  /\ raw.required_preconditions \subseteq Preconditions

FilesExist(raw) == \A field \in PlaybookFields : raw[field] \in Playbooks

\* One turn of the loop; an exception ends it for good.
AddFile(procedures, file) ==
  IF \/ procedures = Raised
     \/ ~ModelValidates(file.raw)
     \/ file.raw.procedure_id # file.stem
     \/ ~FilesExist(file.raw)
     \/ file.raw.procedure_id \in DOMAIN procedures
    THEN Raised
    ELSE [id \in DOMAIN procedures \cup {file.stem} |->
            IF id = file.stem THEN file.raw ELSE procedures[id]]

LoadRegistry(files) == FoldLeft(AddFile, <<>>, files)

=============================================================================
