---------------------------- MODULE MCJobScreening ----------------------------
(* Small lists for JobScreening. *)
EXTENDS JobScreening

Tripling == <<2, 1>>
=============================================================================
