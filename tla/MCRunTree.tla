----------------------------- MODULE MCRunTree -----------------------------
(* A model-checking instance of RunTree. *)
EXTENDS RunTree
=============================================================================
