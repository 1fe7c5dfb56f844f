------------------------- MODULE MCHistoryRecovery --------------------------
(* One inbox; the messages all in one conversation, or one in each of two. *)
EXTENDS HistoryRecovery

CONSTANTS m1, m2, i1, c1, c2

MCOwnerOf == [m \in Messages |-> i1]
MCTargetOf == <<>>
MCConvOf == [m \in Messages |-> IF m = m2 /\ c2 \in Conversations THEN c2 ELSE c1]
=============================================================================
