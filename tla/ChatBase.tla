------------------------------- MODULE ChatBase -------------------------------
(***************************************************************************)
(* What every module of this project talks about: user ids and room ids.   *)
(*                                                                         *)
(* Ids are SQLite INTEGER keys, so they are numbers and have an order      *)
(* (leaveRoom breaks ties between members by user_id).  A room's code is   *)
(* drawn until no row of "rooms" has it, deleted rows included, so a code  *)
(* names one room id for good and the model uses the id for both.          *)
(***************************************************************************)
EXTENDS Integers, FiniteSets, Null

CONSTANTS
    Users,    \* ids of registered users
    Rooms     \* ids that "rooms" may hand out

ASSUME UsersAssumption == Users \subseteq Nat /\ IsFiniteSet(Users)
ASSUME NullAssumption  == NULL \notin Users
===============================================================================
