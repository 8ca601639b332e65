------------------------------- MODULE MCSession -------------------------------
(***************************************************************************)
(* Session on a small instance.  Calls and passwords are interchangeable.  *)
(***************************************************************************)
EXTENDS Session, TLC

CallSymmetry == Permutations(Calls) \cup Permutations(Passwords)
===============================================================================
