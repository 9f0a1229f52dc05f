------------------------------ MODULE MCRunCmd ------------------------------
(* Values for model-checking RunCmd. *)
EXTENDS RunCmd

AnyManner == MannersOver(Procs)
=============================================================================
