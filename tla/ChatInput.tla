------------------------------- MODULE ChatInput -------------------------------
(***************************************************************************)
(* frontend/src/components/ChatInput.vue: the announcements that the user  *)
(* is typing, and the list of members to mention.                          *)
(*                                                                         *)
(* Time goes in ticks.  The text is blank or not; the cursor is            *)
(* at an @-token or not; of the members that match the token there is the  *)
(* number; index is 0 while the list is closed, where nobody reads it.     *)
(* An action that may announce something has a parameter told: the         *)
(* arguments of the 'typing' events that it emits.                         *)
(***************************************************************************)
EXTENDS Integers, Sequences

CONSTANTS
    Throttle,    \* TYPING_THROTTLE_MS, in ticks
    Stop,        \* TYPING_STOP_MS, in ticks
    MaxMatches   \* bound: members that match a token (5 are shown at most)

ASSUME InputAssumption == {Throttle, Stop, MaxMatches} \subseteq Nat \ {0} /\ Throttle < Stop

VARIABLES
    draft,             \* the text is not blank
    sending,           \* props.sending
    sinceTrue,         \* ticks since lastTypingTrueAt, up to Throttle + 1
    stopIn,            \* ticks until stopTimer fires, 0 without a timer
    lastEmittedState,
    open, index,       \* mention
    atToken,           \* the cursor is behind an @-token
    matches            \* candidates, if the list were open

typingVars  == <<sinceTrue, stopIn, lastEmittedState>>
mentionVars == <<open, index, atToken, matches>>
inputVars   == <<draft, sending, typingVars, mentionVars>>

InputInit ==
    /\ draft = FALSE /\ sending = FALSE
    /\ sinceTrue = Throttle + 1 /\ stopIn = 0 /\ lastEmittedState = FALSE
    /\ open = FALSE /\ index = 0 /\ atToken = FALSE /\ matches = 0

-------------------------------------------------------------------------------
\* emitTyping tells the parent of changes only.  The mutants tell of everything,
\* or of beginnings only.
Changes_All(was, isTyping) == <<isTyping>>
Changes_Starts(was, isTyping) == IF isTyping /\ ~was THEN <<TRUE>> ELSE <<>>
Changes(was, isTyping) == IF was = isTyping THEN <<>> ELSE <<isTyping>>

\* cancelTyping
CancelTyping(told) ==
    /\ told = Changes(lastEmittedState, FALSE)
    /\ lastEmittedState' = FALSE /\ sinceTrue' = Throttle + 1 /\ stopIn' = 0

\* noteUserActivity.  The mutant sets the timer, which any activity clears, only
\* when it announces.
StopAfter_Announcing(starts) == IF starts THEN Stop ELSE 0
StopAfter(starts) == Stop

Starts == sinceTrue > Throttle
Started == IF Starts THEN Changes(lastEmittedState, TRUE) ELSE <<>>

NoteUserActivity(told) ==
    /\ told = Started
    /\ lastEmittedState' = (lastEmittedState \/ Starts)
    /\ sinceTrue' = IF Starts THEN 0 ELSE sinceTrue
    /\ stopIn' = StopAfter(Starts)

\* The same, and then the watch on a text that has become blank
NoteAndCancel(told) ==
    /\ told = Started \o Changes(Starts \/ lastEmittedState, FALSE)
    /\ lastEmittedState' = FALSE /\ sinceTrue' = Throttle + 1 /\ stopIn' = 0

\* updateMentionFromCursor for a cursor that has moved to a token with n
\* candidates or away from any, and for one that has not
CursorAt(n) == open' = TRUE /\ atToken' = TRUE /\ matches' = n /\ index' = 0
CursorAway  == open' = FALSE /\ atToken' = FALSE /\ matches' = 0 /\ index' = 0
CursorMoves == CursorAway \/ \E n \in 0..MaxMatches : CursorAt(n)

-------------------------------------------------------------------------------
\* onInput, whatever the text, the token and the candidates become
Type(told) ==
    /\ \/ draft' = TRUE /\ NoteUserActivity(told) /\ CursorMoves
       \/ draft' = FALSE /\ NoteAndCancel(told) /\ CursorAway
    /\ UNCHANGED sending

\* onClick, on a click
Click == draft /\ CursorMoves /\ UNCHANGED <<draft, sending, typingVars>>

\* onClick, on any keyup after a key that did not move the cursor: the token is
\* the same, but what was closed opens.
KeyUp ==
    /\ open' = atToken
    /\ UNCHANGED <<draft, sending, typingVars, index, atToken, matches>>

Listed == open /\ matches > 0

\* ArrowDown and ArrowUp
Turned(step) == (index + step + matches) % matches

Arrow(step) ==
    /\ Listed
    /\ index' = Turned(step)
    /\ UNCHANGED <<draft, sending, typingVars, open, atToken, matches>>

\* Enter, Tab or the mouse.  pickMention sets the text without an input event;
\* the cursor goes behind the name and its space.  With an index beyond the
\* candidates it throws before it has changed anything.
Pick ==
    /\ Listed /\ index < matches
    /\ CursorAway
    /\ UNCHANGED <<draft, sending, typingVars>>

Escape ==
    /\ Listed
    /\ open' = FALSE /\ index' = 0
    /\ UNCHANGED <<draft, sending, typingVars, atToken, matches>>

\* submit, by Enter (only while no candidates are listed) or by the button
Submit ==
    /\ draft /\ ~sending
    /\ sending' = TRUE
    /\ UNCHANGED <<draft, typingVars, mentionVars>>

\* The parent is done: clear() if the message was sent, and the watch on sending.
\* What was typed meanwhile is cleared too.
Sent(told) ==
    /\ sending
    /\ sending' = FALSE /\ draft' = FALSE
    /\ CancelTyping(told) /\ CursorAway

SendFails(told) ==
    /\ sending
    /\ sending' = FALSE
    /\ CancelTyping(told)
    /\ UNCHANGED <<draft, mentionVars>>

\* A member who matches leaves the room, or one joins.
MatchesChange(n) ==
    /\ atToken /\ n # matches
    /\ matches' = n
    /\ UNCHANGED <<draft, sending, typingVars, open, index, atToken>>

\* Time passes; stopTimer fires.
InputTick(told) ==
    /\ IF stopIn = 1
         THEN CancelTyping(told)
         ELSE /\ told = <<>>
              /\ stopIn' = IF stopIn = 0 THEN 0 ELSE stopIn - 1
              /\ sinceTrue' = IF Starts THEN sinceTrue ELSE sinceTrue + 1
              /\ UNCHANGED lastEmittedState
    /\ UNCHANGED <<draft, sending, mentionVars>>

\* onBeforeUnmount; the next component is new.
LeaveInput(told) ==
    /\ CancelTyping(told)
    /\ draft' = FALSE /\ sending' = FALSE
    /\ CursorAway

-------------------------------------------------------------------------------
InputTypeOK ==
    /\ {draft, sending, lastEmittedState, open, atToken} \subseteq BOOLEAN
    /\ sinceTrue \in 0..Throttle + 1 /\ stopIn \in 0..Stop
    /\ index \in 0..MaxMatches /\ matches \in 0..MaxMatches
    /\ open => atToken /\ draft

\* Whoever was announced as typing has a timer that retracts it, however keys,
\* sends, failures and pauses follow each other.
RetractionIsDue == lastEmittedState => stopIn > 0

\* The hint under the list says that Esc cancels: what Escape has closed stays
\* closed when the key is released.
EscapeCloses == [][KeyUp => open' = open]_inputVars
===============================================================================
