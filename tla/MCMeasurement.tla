--------------------------- MODULE MCMeasurement ---------------------------
(***************************************************************************)
(* The instance of Measurement for TLC.  Files are interchangeable.        *)
(***************************************************************************)
EXTENDS Measurement, TLC

Symmetry == Permutations(Files)
=============================================================================
