-------------------------------- MODULE Absent --------------------------------
(* The value of what is not there: Python's None, or nothing yet. *)
CONSTANT None
=============================================================================
