------------------------------ MODULE ReliablePost ------------------------------
(***************************************************************************)
(* What WsClient.sendMessage and the server promise the chat view together *)
(* (docs/ws-protocol.md, "idempotency and reliability"): a message that    *)
(* was written is posted at most once, and nobody is told that a message   *)
(* arrived that is not posted.  The writer may be told that his message    *)
(* failed and still find it posted.                                        *)
(***************************************************************************)
EXTENDS Naturals, Sequences, FiniteSets

CONSTANT Ids    \* client_msg_ids

VARIABLES
    posts,      \* the ids posted, in order
    told        \* what the writer of each message knows

postVars == <<posts, told>>

Posted(i) == \E k \in DOMAIN posts : posts[k] = i

PostInit ==
    /\ posts = <<>>
    /\ told = [i \in Ids |-> "unsent"]

Write(i) ==
    /\ told[i] = "unsent"
    /\ told' = [told EXCEPT ![i] = "waiting"]
    /\ UNCHANGED posts

Post(i) ==
    /\ told[i] # "unsent"
    /\ ~Posted(i)
    /\ posts' = Append(posts, i)
    /\ UNCHANGED told

Confirm(i) ==
    /\ told[i] = "waiting"
    /\ Posted(i)
    /\ told' = [told EXCEPT ![i] = "acked"]
    /\ UNCHANGED posts

GiveUp(i) ==
    /\ told[i] = "waiting"
    /\ told' = [told EXCEPT ![i] = "failed"]
    /\ UNCHANGED posts

PostNext == \E i \in Ids : Write(i) \/ Post(i) \/ Confirm(i) \/ GiveUp(i)

PostSpec == PostInit /\ [][PostNext]_postVars
===============================================================================
