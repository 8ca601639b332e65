---------------------------------- MODULE Null ----------------------------------
(***************************************************************************)
(* No value: an SQL NULL, an absent entry of a Map, null or undefined.     *)
(***************************************************************************)
CONSTANT NULL
===============================================================================
