----------------------------- MODULE MCRoomService -----------------------------
(***************************************************************************)
(* RoomService for TLC.  Request slots are interchangeable, and so are the *)
(* passwords; users are not, because ties between members are broken by    *)
(* user id.                                                                *)
(***************************************************************************)
EXTENDS RoomService, TLC

SlotSymmetry == Permutations(Reqs) \cup Permutations(Passwords)
===============================================================================
