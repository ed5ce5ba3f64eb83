----------------------------- MODULE MCChatScreen -----------------------------
(* Pages of one message, and up to two messages more than there were at first. *)
EXTENDS ChatScreen

NobodyTypes == ~typing /\ ~timer /\ ~missed /\ link = <<TRUE, "none">>

\* Bound: the peer types while there is at most one message more.  Typing and the list
\* share only the connection and whether the screen is open.
TypingBound == NobodyTypes \/ Cardinality({m \in Ids : messages[m].stage # "old"}) <= 1
=============================================================================
