--------------------------- MODULE MCConversations ---------------------------
(***************************************************************************)
(* Six parts of a session that touch none of each other's state, model     *)
(* checked in one run: groups, contacts, downloads, shared calls,          *)
(* reactions and identity lookups.  In each behaviour one part takes all   *)
(* the steps and the others stay as they began.  The two values of Pair    *)
(* are whatever a part has two of that are alike: names and slots, calls,  *)
(* attachments, fetches.                                                   *)
(***************************************************************************)
EXTENDS AttachmentDownloads, ConvosGroups, ClientFlights, Reactions, TLC

CONSTANTS one, two, peer1, other

MaxTrouble == 5 \* bound: clients, loads and decisions together, in the downloads
MaxPasses == 4  \* bound: events, loads and syncs together, in the reactions
Pair == {one, two}
MCAttachments == Pair \cup {other}
MCNames == {"a", "b"}
MCSenders == {peer1, other}
MCSymmetry == Permutations(Pair)

VARIABLE part \* the one that runs

VARIABLES
  rows, screen, loaded, bookCall, peer, bookStarts, bookFaults, blocked, bookCrossed, met,
  overtaken, rewritten, early, doubled, failed

Book == INSTANCE Contacts
     WITH p <- peer1, a <- other, Calls <- Pair, MaxStarts <- 3, MaxFaults <- 1,
          call <- bookCall, starts <- bookStarts, faults <- bookFaults, crossed <- bookCrossed

contactsVars ==
  <<rows, screen, loaded, bookCall, peer, bookStarts, bookFaults, blocked, bookCrossed, met,
    overtaken, rewritten, early, doubled, failed>>

PartsInit ==
  /\ part \in {"groups", "contacts", "downloads", "calls", "reactions", "lookups"}
  /\ ConvosInit /\ (part # "groups" => draft = "a" /\ sentName = Nothing /\ ~foreign)
  /\ Book!Init /\ (part # "contacts" => rows = [k \in {peer1, other} |-> None] /\ peer = peer1)
  /\ Init /\ (part # "downloads" => consent = "unknown")
  /\ CallsInit /\ (part # "calls" => known /\ dm = {} /\ clean = {"name"})
  /\ ReactionsInit /\ (part # "reactions" => stored = Absent)
  /\ LookupInit /\ (part # "lookups" => kind = "dm")

PartsNext ==
  \/ /\ part = "groups" /\ ConvosNext
     /\ UNCHANGED <<part, contactsVars, vars, callsVars, reactionsVars, lookupVars>>
  \/ /\ part = "contacts" /\ Book!Next
     /\ UNCHANGED <<part, groupVars, vars, callsVars, reactionsVars, lookupVars>>
  \/ /\ part = "downloads" /\ DownloadNext
     /\ opened' + loads' + decisions' <= MaxTrouble
     /\ UNCHANGED <<part, groupVars, contactsVars, callsVars, reactionsVars, lookupVars>>
  \/ /\ part = "calls" /\ CallsNext
     /\ UNCHANGED <<part, groupVars, contactsVars, vars, reactionsVars, lookupVars>>
  \/ /\ part = "reactions" /\ ReactionsNext
     /\ Len(log') + opens' + syncs' <= MaxPasses
     /\ UNCHANGED <<part, groupVars, contactsVars, vars, callsVars, lookupVars>>
  \/ /\ part = "lookups" /\ LookupNext
     /\ UNCHANGED <<part, groupVars, contactsVars, vars, callsVars, reactionsVars>>

partsVars == <<part, groupVars, contactsVars, vars, callsVars, reactionsVars,
                 lookupVars>>
PartsSpec == PartsInit /\ [][PartsNext]_partsVars
-----------------------------------------------------------------------------
(* The properties; each is stated and explained in the module of its part. *)

\* Every variable of the six parts has its type.
PartsTypeOK ==
  /\ ConvosTypeOK /\ Book!ContactsTypeOK /\ DownloadTypeOK
  /\ CallsTypeOK /\ ReactionsTypeOK /\ LookupTypeOK

\* contact-store.ts: a block is kept, and the contacts on screen are those stored.
ContactsAreKept == Book!ContactsAreKept
=============================================================================
