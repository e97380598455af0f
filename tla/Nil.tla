--------------------------------- MODULE Nil ---------------------------------
(* The value that stands where the code has nil, an empty string or no row.   *)
CONSTANT None
=============================================================================
