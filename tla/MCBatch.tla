------------------------------ MODULE MCBatch ------------------------------
(***************************************************************************)
(* Two inputs, one edit each, two batches in the same output directory:    *)
(* an input may change or vanish between any two of its three reads.       *)
(***************************************************************************)
EXTENDS Batch

CONSTANTS a, b

MCInputs == <<a, b>>
=============================================================================
