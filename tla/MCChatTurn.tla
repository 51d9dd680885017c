----------------------------- MODULE MCChatTurn -----------------------------
(* Chat turns on small instances: the first turn opens the conversation    *)
(* with a deep search, the second is a follow-up in it.                    *)
EXTENDS ChatTurn, TLC
=============================================================================
