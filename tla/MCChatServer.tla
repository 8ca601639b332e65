------------------------------ MODULE MCChatServer ------------------------------
(***************************************************************************)
(* ChatServer for TLC.  Connections and request slots are interchangeable. *)
(***************************************************************************)
EXTENDS ChatServer, TLC

ChatSymmetry == Permutations(Conns) \cup Permutations(Reqs)
===============================================================================
