------------------------- MODULE MCMessageIngestion -------------------------
(* Two inboxes: m1 and its reaction e1 belong to the first, m2 to the second. *)
EXTENDS MessageIngestion

CONSTANTS m1, m2, e1, i1, i2

MCOwnerOf == [e \in Events |-> IF e = m2 THEN i2 ELSE i1]
MCTargetOf == [e \in Effects |-> m1]

\* Bound: no inbox is being added once consumers have changed a third time.
MCNext == Next /\ (generation' > 2 => switching' = NotSwitching)
MCSpec == Init /\ [][MCNext]_vars /\ WF_vars(Handle)
=============================================================================
