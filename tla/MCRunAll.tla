------------------------------ MODULE MCRunAll ------------------------------
(***************************************************************************)
(* Instances of RunAll.                                                    *)
(***************************************************************************)
EXTENDS RunAll

AllWrites == { "seed", "binary", "clone", "harness", "env", "results" }
=============================================================================
