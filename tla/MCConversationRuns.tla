-------------------------- MODULE MCConversationRuns --------------------------
(* ConversationRuns for TLC: requests that may carry the same message.       *)
EXTENDS ConversationRuns

CONSTANTS r1, r2, m1, m2
=============================================================================
