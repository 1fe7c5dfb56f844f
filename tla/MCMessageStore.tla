--------------------------- MODULE MCMessageStore ---------------------------
(* Small instances of MessageStore for TLC. *)
EXTENDS MessageStore

MCOperations ==
  {"send", "receive", "remove", "sweep", "load", "sync", "hide", "create", "edit",
   "download"}
\* Which operations meet: sends and receipts with everything that removes,
\* replaces or rewrites what they write.
MCScenarios ==
  {{"send", "receive", "hide"}, {"send", "remove"}, {"send", "sweep"}, {"send", "load"},
   {"send", "edit", "sync"}, {"receive", "remove", "sweep"}, {"receive", "load", "sweep"},
   {"receive", "sync", "edit"}, {"receive", "hide", "create"},
   {"receive", "download", "remove"}, {"receive", "download", "hide"}}
MCWorlds == {[image |-> {}, group |-> TRUE], [image |-> Messages, group |-> FALSE]}
=============================================================================
