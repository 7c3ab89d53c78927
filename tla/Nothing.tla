------------------------------ MODULE Nothing ------------------------------
(* The value of what is not there: a nil pointer, an empty field, no answer. *)
CONSTANT None
=============================================================================
