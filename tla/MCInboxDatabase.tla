--------------------------- MODULE MCInboxDatabase ---------------------------
(* Small instances of InboxDatabase for TLC. *)
EXTENDS InboxDatabase
=============================================================================
