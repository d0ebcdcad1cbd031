---------------------------- MODULE PipelineConfig ----------------------------
(***************************************************************************)
(* load_pipeline_config (src/config/pipeline.py).  A file is a function    *)
(* from the sections it has to what each holds: "ok", the keys of the      *)
(* section class; "null", a heading without keys; or "wrong", a key the    *)
(* class does not have, or no model_name where the class demands one.      *)
(* The values of the keys are left out.                                    *)
(***************************************************************************)

CONSTANT NotAMapping  \* a file that is empty, a list or a scalar

RequiredSections == {"embedder", "sparse", "dense", "fusion", "reranker"}

(* The sections a class is built from; "pipeline" and "logging" are known  *)
(* but not read.                                                           *)
TypedSections ==
    RequiredSections
        \cup {"chunking", "cache", "strategy", "generation", "eval"}

(* ConfigError for a file that is no mapping or lacks a section, TypeError *)
(* out of a section class; an unknown section is only logged.              *)
Loads(file) ==
    /\ file # NotAMapping
    /\ RequiredSections \subseteq DOMAIN file
    /\ \A section \in TypedSections \cap DOMAIN file : file[section] = "ok"

=============================================================================
