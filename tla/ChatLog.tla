-------------------------------- MODULE ChatLog --------------------------------
(***************************************************************************)
(* What a chat promises its clients, without the chat document, the rooms  *)
(* or the handlers: a send posts its message at most once, only posted     *)
(* messages are shown, a send is answered at most once, and it is answered *)
(* "ok" only if its message was posted.  An error, or no answer at all,    *)
(* says nothing about the message: it may have been posted, or be posted   *)
(* later; but after an error it is not shown any more.                     *)
(***************************************************************************)
EXTENDS FiniteSets

CONSTANTS
    Sockets,   \* the client connections messages are shown on
    Sends      \* the send requests; also the messages they post

VARIABLES
    posted,    \* the messages in the log
    seen,      \* seen[k]: the messages shown on connection k
    answer     \* the answer each send got

logVars == <<posted, seen, answer>>

LogTypeOK ==
    /\ posted \in SUBSET Sends
    /\ seen \in [Sockets -> SUBSET Sends]
    /\ answer \in [Sends -> {"none", "ok", "error"}]

LogInit ==
    /\ posted = {}
    /\ seen = [k \in Sockets |-> {}]
    /\ answer = [s \in Sends |-> "none"]

\* The message of s is shown on some connections, possibly on none.
ShowOn(s, K) == seen' = [k \in Sockets |-> IF k \in K THEN seen[k] \cup {s} ELSE seen[k]]

\* Also when its sender was told of an error before.
Post(s) ==
    /\ s \notin posted
    /\ answer[s] # "ok"
    /\ posted' = posted \cup {s}
    /\ UNCHANGED <<seen, answer>>

Show(s) ==
    /\ s \in posted
    /\ answer[s] = "none"
    /\ \E K \in SUBSET Sockets : ShowOn(s, K)
    /\ UNCHANGED <<posted, answer>>

\* The sender is told the message was sent, and it is shown to the rest.
Confirm(s) ==
    /\ s \in posted
    /\ answer[s] = "none"
    /\ \E K \in SUBSET Sockets : ShowOn(s, K)
    /\ answer' = [answer EXCEPT ![s] = "ok"]
    /\ UNCHANGED posted

\* The sender is told of an error, whether the message was posted or not.
Refuse(s) ==
    /\ answer[s] = "none"
    /\ answer' = [answer EXCEPT ![s] = "error"]
    /\ UNCHANGED <<posted, seen>>

LogNext == \E s \in Sends : Post(s) \/ Show(s) \/ Confirm(s) \/ Refuse(s)

LogSpec == LogInit /\ [][LogNext]_logVars
=============================================================================
