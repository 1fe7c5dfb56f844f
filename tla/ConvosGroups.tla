----------------------------- MODULE ConvosGroups -----------------------------
(***************************************************************************)
(* One Convos group as one tab administers it (src/src/lib/xmtp/client.ts, *)
(* GroupSettingsPage, GroupInviteModal, Layout): the name this inbox       *)
(* publishes in the group, the profiles kept in the conversation row, the  *)
(* invite tag, join requests and membership.                               *)
(*                                                                         *)
(* Every call is a task that stops at its awaits.  Most tasks read the     *)
(* conversation row before an await and write the whole row after it; the  *)
(* copy they hold is `copy`.                                               *)
(***************************************************************************)
EXTENDS Naturals, FiniteSets

CONSTANTS
  Names,       \* display names the user gives the inbox
  Peer,        \* a member since the group began
  Requester,   \* asks to join with an invite
  Slots,       \* bound: calls at work at a time
  MaxCalls,    \* bound: calls altogether
  MaxGroupFaults,  \* bound: failed calls
  Nothing

\* The values are of their kinds, and "nothing" is none of them.
ASSUME GroupsAssumption ==
  /\ IsFiniteSet(Slots) /\ MaxCalls \in Nat /\ MaxGroupFaults \in Nat
  /\ Nothing \notin Names /\ Nothing \notin Slots /\ Nothing \notin Nat

VARIABLES
  draft,       \* the profile name in the auth store
  published,   \* the name of our last profile_update in the group
  sentName,    \* convosProfileUpdateSentForConversation
  publisher,   \* convosProfileUpdateInFlight: the task that publishes
  groupRow,    \* the stored conversation: published revision, profiles kept
  members, admins,
  appTag,      \* the invite tag in appData
  descTag,     \* the invite tag in the description (legacy)
  foreign,     \* appData is there and not readable
  tags,        \* tags generated
  invites,     \* tags of the invites handed out
  joinRequest,  \* the join request: none, shown, closed
  handled,     \* handledInviteMessages holds the request
  task,        \* slot -> call at work
  calls, groupFaults

VARIABLES      \* history
  misled,      \* the row's revision is not what was published last
  deceived,    \* the page took its claim from such a row
  crossed      \* two invitations, or an invitation and an edit, overlapped

net == <<published, members, admins, appTag, descTag, foreign, joinRequest>>
tabVars == <<draft, sentName, publisher, handled, tags, invites>>
groupHistory == <<misled, deceived, crossed>>
groupVars == <<net, tabVars, groupRow, task, calls, groupFaults, groupHistory>>

People == {Peer, Requester}
Edits == {"remove", "promote", "demote", "permission"}
Ops == {"save", "activate", "approve", "add", "refresh", "profile", "invite", "describe"} \cup Edits
Idle == [op |-> "idle", at |-> "idle", name |-> Nothing, copy |-> Nothing, tag |-> Nothing]

-----------------------------------------------------------------------------
(* Tasks *)

TaskAt(t, pc) == task[t].at = pc
GoTask(t, pc) == task' = [task EXCEPT ![t].at = pc]
Quits(t) == task' = [task EXCEPT ![t] = Idle]
Failing == groupFaults < MaxGroupFaults /\ groupFaults' = groupFaults + 1
Working(op) == \E t \in Slots : task[t].op = op

(* A call starts at its first await. *)
Begin(t, op, pc) ==
  /\ task[t] = Idle
  /\ calls < MaxCalls
  /\ calls' = calls + 1
  /\ task' = [task EXCEPT ![t] = [Idle EXCEPT !.op = op, !.at = pc]]

(* What follows the publication of our own name. *)
AfterPublishing(t) ==
  task' = [task EXCEPT ![t] =
    IF task[t].op \in {"approve", "add"} THEN [task[t] EXCEPT !.at = "snapshot", !.name = Nothing]
                                         ELSE Idle]

AppTag == IF foreign THEN Nothing ELSE appTag
GroupTag == IF AppTag # Nothing THEN AppTag ELSE descTag

ConvosInit ==
  /\ draft \in Names
  /\ published = draft /\ sentName \in {Nothing, draft} /\ publisher = Nothing
  /\ groupRow = [rev |-> draft, known |-> {}]
  /\ members = {Peer} /\ admins = {}
  /\ appTag = Nothing /\ descTag = Nothing /\ foreign \in BOOLEAN
  /\ tags = 0 /\ invites = {}
  /\ joinRequest = "none" /\ handled = FALSE
  /\ task = [t \in Slots |-> Idle]
  /\ calls = 0 /\ groupFaults = 0
  /\ misled = FALSE /\ deceived = FALSE /\ crossed = FALSE

-----------------------------------------------------------------------------
(* The name of this inbox in the group *)

(* saveProfile: the stores and the RAM map at once, then the self-DM. *)
SaveProfile(t) ==
  /\ Begin(t, "save", "selfDm")
  /\ \E n \in Names : draft' = n
  /\ sentName' = Nothing
  /\ UNCHANGED <<net, publisher, handled, tags, invites, groupRow, groupFaults, groupHistory>>

(* A self-DM that fails ends the save before any group. *)
SaveSelfDm(t) ==
  /\ TaskAt(t, "selfDm")
  /\ \/ GoTask(t, "publish") /\ UNCHANGED groupFaults
     \/ Quits(t) /\ Failing
  /\ UNCHANGED <<net, tabVars, groupRow, calls, groupHistory>>

(* Opening the group, or sending in it, publishes first. *)
ActivateGroup(t) ==
  /\ Begin(t, "activate", "publish")
  /\ UNCHANGED <<net, tabVars, groupRow, groupFaults, groupHistory>>

(* ensureConvosGroupProfilePublished reads the draft and asks, with it,    *)
(* sendConvosProfileUpdate; a caller that waited asks with the same name.  *)
Wanted(t) == IF TaskAt(t, "retry") THEN task[t].name ELSE draft

EnsurePublished(t) ==
  /\ TaskAt(t, "publish") \/ (TaskAt(t, "retry") /\ publisher = Nothing)
  /\ \/ /\ sentName = Wanted(t)
        /\ AfterPublishing(t)
        /\ UNCHANGED publisher
     \/ /\ sentName # Wanted(t)
        /\ publisher # Nothing
        /\ task' = [task EXCEPT ![t].at = "retry", ![t].name = Wanted(t)]
        /\ UNCHANGED publisher
     \/ /\ sentName # Wanted(t)
        /\ publisher = Nothing
        /\ publisher' = t
        /\ task' = [task EXCEPT ![t].at = "compare", ![t].name = Wanted(t)]
  /\ UNCHANGED <<net, draft, sentName, handled, tags, invites, groupRow, calls, groupFaults,
                 groupHistory>>

(* The stored revision spares a publication; a failed read does not. *)
CompareStoredRevision(t) ==
  /\ TaskAt(t, "compare")
  /\ \/ /\ groupRow.rev = task[t].name
        /\ sentName' = task[t].name
        /\ deceived' = misled
        /\ publisher' = Nothing
        /\ AfterPublishing(t)
        /\ UNCHANGED groupFaults
     \/ /\ \/ groupRow.rev # task[t].name /\ UNCHANGED groupFaults
           \/ Failing
        /\ GoTask(t, "send")
        /\ UNCHANGED <<sentName, publisher, deceived>>
  /\ UNCHANGED <<net, draft, handled, tags, invites, groupRow, calls, misled, crossed>>

(* A failed send fails the callers that wait for it, too. *)
GiveUp(t) ==
  [s \in Slots |->
    IF s # t /\ ~TaskAt(s, "retry") THEN task[s]
    ELSE IF task[s].op \in {"approve", "add"}
    THEN [task[s] EXCEPT !.at = "snapshot", !.name = Nothing]
    ELSE Idle]

(* Mutant: the name is recorded before it is sent. *)
SendProfileUpdateEarly(t) ==
  /\ TaskAt(t, "send")
  /\ sentName' = task[t].name
  /\ \/ /\ published' = task[t].name
        /\ misled' = (groupRow.rev # task[t].name)
        /\ deceived' = FALSE
        /\ GoTask(t, "readRevision")
        /\ UNCHANGED <<publisher, groupFaults>>
     \/ /\ Failing
        /\ publisher' = Nothing
        /\ task' = GiveUp(t)
        /\ UNCHANGED <<published, misled, deceived>>
  /\ UNCHANGED <<members, admins, appTag, descTag, foreign, joinRequest, draft, handled, tags,
                 invites, groupRow, calls, crossed>>

SendProfileUpdate(t) ==
  /\ TaskAt(t, "send")
  /\ \/ /\ published' = task[t].name
        /\ sentName' = task[t].name
        /\ misled' = (groupRow.rev # task[t].name)
        /\ deceived' = FALSE
        /\ GoTask(t, "readRevision")
        /\ UNCHANGED <<publisher, groupFaults>>
     \/ /\ Failing
        /\ publisher' = Nothing
        /\ task' = GiveUp(t)
        /\ UNCHANGED <<published, sentName, misled, deceived>>
  /\ UNCHANGED <<members, admins, appTag, descTag, foreign, joinRequest, draft, handled, tags,
                 invites, groupRow, calls, crossed>>

(* Recording the revision is a read and a write; its failure is swallowed. *)
(* The row recorded is right.                                              *)
ReadForRevision(t) ==
  /\ TaskAt(t, "readRevision")
  /\ \/ /\ task' = [task EXCEPT ![t].at = "recordRevision", ![t].copy = groupRow]
        /\ UNCHANGED <<publisher, groupFaults>>
     \/ /\ Failing
        /\ publisher' = Nothing
        /\ AfterPublishing(t)
  /\ UNCHANGED <<net, draft, sentName, handled, tags, invites, groupRow, calls, groupHistory>>

RecordRevision(t) ==
  /\ TaskAt(t, "recordRevision")
  /\ groupRow' = [task[t].copy EXCEPT !.rev = task[t].name]
  /\ misled' = FALSE
  /\ publisher' = Nothing
  /\ AfterPublishing(t)
  /\ UNCHANGED <<net, draft, sentName, handled, tags, invites, calls, groupFaults, deceived,
                 crossed>>

-----------------------------------------------------------------------------
(* Profiles of the other members *)

(* processProfileSideChannel: the row, then the roster, then the whole row. *)
ReceiveProfile(t) ==
  /\ Begin(t, "profile", "roster")
  /\ UNCHANGED <<net, tabVars, groupRow, groupFaults, groupHistory>>

ReadForProfile(t) ==
  /\ TaskAt(t, "roster")
  /\ task' = [task EXCEPT ![t].at = "storeProfile", ![t].copy = groupRow]
  /\ UNCHANGED <<net, tabVars, groupRow, calls, groupFaults, groupHistory>>

(* The row written back carries the revision and the profiles read before. *)
WriteBack(t, known) ==
  /\ groupRow' = [rev |-> task[t].copy.rev, known |-> known]
  /\ misled' = (published # task[t].copy.rev)

StoreProfile(t) ==
  /\ TaskAt(t, "storeProfile")
  /\ \/ /\ WriteBack(t, (task[t].copy.known \cup {Peer}) \cap members)
        /\ UNCHANGED groupFaults
     \/ /\ Failing
        /\ WriteBack(t, task[t].copy.known \cup {Peer})
  /\ Quits(t)
  /\ UNCHANGED <<net, tabVars, calls, deceived, crossed>>

-----------------------------------------------------------------------------
(* Group details: what the SDK says of the group, with the stored profiles *)

RefreshDetails(t) ==
  /\ Begin(t, "refresh", "details")
  /\ UNCHANGED <<net, tabVars, groupRow, groupFaults, groupHistory>>

(* buildGroupDetails: a roster that could not be read is empty. *)
BuildDetails(t) ==
  /\ TaskAt(t, "details")
  /\ \E roster \in {members, {}} :
       /\ task' = [task EXCEPT ![t].at = "mergeStored",
                               ![t].copy = [rev |-> Nothing, known |-> roster]]
       /\ IF roster = members THEN UNCHANGED groupFaults ELSE Failing
  /\ UNCHANGED <<net, tabVars, groupRow, calls, groupHistory>>

(* Stored profiles of the roster; without them the names are lost. *)
MergeStored(t) ==
  /\ TaskAt(t, "mergeStored")
  /\ \E stored \in {groupRow.known, {}} :
       /\ task' = [task EXCEPT ![t].at = "readRow", ![t].copy.known = @ \cap stored]
       /\ IF stored = groupRow.known THEN UNCHANGED groupFaults ELSE Failing
  /\ UNCHANGED <<net, tabVars, groupRow, calls, groupHistory>>

(* updateConversationAndPersist: a failure is swallowed. *)
ReadForDetails(t) ==
  /\ TaskAt(t, "readRow")
  /\ \/ /\ task' = [task EXCEPT ![t].at = "writeRow", ![t].copy.rev = groupRow.rev]
        /\ UNCHANGED groupFaults
     \/ Failing /\ Quits(t)
  /\ UNCHANGED <<net, tabVars, groupRow, calls, groupHistory>>

StoreDetails(t) ==
  /\ TaskAt(t, "writeRow")
  /\ WriteBack(t, task[t].copy.known)
  /\ Quits(t)
  /\ UNCHANGED <<net, tabVars, calls, groupFaults, deceived, crossed>>

-----------------------------------------------------------------------------
(* Invitations and the description *)

(* createConvosInvite generates a tag when neither place has one. *)
CreateInvite(t) ==
  /\ Begin(t, "invite", "readTag")
  /\ crossed' = (crossed \/ Working("invite") \/ Working("describe"))
  /\ UNCHANGED <<net, tabVars, groupRow, groupFaults, misled, deceived>>

ReadTag(t) ==
  /\ TaskAt(t, "readTag")
  /\ IF GroupTag # Nothing
       THEN /\ task' = [task EXCEPT ![t].at = "checkMembers", ![t].tag = GroupTag]
            /\ UNCHANGED tags
       ELSE /\ tags' = tags + 1
            /\ task' = [task EXCEPT ![t].at = "writeTag", ![t].tag = tags + 1]
  /\ UNCHANGED <<net, draft, sentName, publisher, handled, invites, groupRow, calls,
                 groupFaults, groupHistory>>

(* The SDK's groups have updateAppData and updateDescription both: the branch  *)
(* that finds neither, and writes nothing, is left out.                         *)
WriteTag(t) ==
  /\ TaskAt(t, "writeTag")
  /\ \/ /\ IF foreign THEN descTag' = task[t].tag /\ UNCHANGED appTag
                      ELSE appTag' = task[t].tag /\ UNCHANGED descTag
        /\ GoTask(t, "checkMembers")
        /\ UNCHANGED groupFaults
     \/ Failing /\ Quits(t) /\ UNCHANGED <<appTag, descTag>>
  /\ UNCHANGED <<published, members, admins, foreign, joinRequest, tabVars, groupRow, calls,
                 groupHistory>>

(* A member without identity updates blocks the invite, after the tag. *)
HandOutInvite(t) ==
  /\ TaskAt(t, "checkMembers")
  /\ Quits(t)
  /\ \/ invites' = invites \cup {task[t].tag} /\ UNCHANGED groupFaults
     \/ Failing /\ UNCHANGED invites
  /\ UNCHANGED <<net, draft, sentName, publisher, handled, tags, groupRow, calls, groupHistory>>

(* updateGroupMetadata: name, image and description one after the other. *)
UpdateMetadata(t) ==
  /\ Begin(t, "describe", "name")
  /\ crossed' = (crossed \/ Working("invite"))
  /\ UNCHANGED <<net, tabVars, groupRow, groupFaults, misled, deceived>>

RenameGroup(t) ==
  /\ TaskAt(t, "name")
  /\ \/ GoTask(t, "keepTag") /\ UNCHANGED groupFaults
     \/ Failing /\ Quits(t)
  /\ UNCHANGED <<net, tabVars, groupRow, calls, groupHistory>>

(* Mutant: the new description replaces the tag. *)
KeptTagDropped == Nothing

(* A legacy tag goes into the new description unless appData has one. *)
KeptTag == IF AppTag = Nothing THEN descTag ELSE Nothing

KeepTag(t) ==
  /\ TaskAt(t, "keepTag")
  /\ task' = [task EXCEPT ![t].at = "describe", ![t].tag = KeptTag]
  /\ UNCHANGED <<net, tabVars, groupRow, calls, groupFaults, groupHistory>>

DescribeGroup(t) ==
  /\ TaskAt(t, "describe")
  /\ \/ /\ descTag' = task[t].tag
        /\ task' = [task EXCEPT ![t].at = "details", ![t].tag = Nothing]
        /\ UNCHANGED groupFaults
     \/ Failing /\ Quits(t) /\ UNCHANGED descTag
  /\ UNCHANGED <<published, members, admins, appTag, foreign, joinRequest, tabVars, groupRow,
                 calls, groupHistory>>

-----------------------------------------------------------------------------
(* Join requests *)

(* The request reaches the queue of the shell once; a scan skips a stored  *)
(* message, and the queue one that is in it.                               *)
EnqueueInvite ==
  /\ joinRequest = "none"
  /\ joinRequest' = "shown"
  /\ UNCHANGED <<published, members, admins, appTag, descTag, foreign, tabVars, groupRow, task, calls,
                 groupFaults, groupHistory>>

RejectInvite ==
  /\ joinRequest = "shown"
  /\ joinRequest' = "closed"
  /\ UNCHANGED <<published, members, admins, appTag, descTag, foreign, tabVars, groupRow, task, calls,
                 groupFaults, groupHistory>>

(* Nothing in the dialog keeps a second click away. *)
ApproveInvite(t) ==
  /\ joinRequest = "shown"
  /\ ~handled
  /\ Begin(t, "approve", "verifyInvite")
  /\ UNCHANGED <<net, tabVars, groupRow, groupFaults, groupHistory>>

Closes == joinRequest' = "closed"

(* One check of an approval: it passes, or the approval ends. *)
Checks(t, pc, next) ==
  /\ TaskAt(t, pc)
  /\ \/ GoTask(t, next) /\ UNCHANGED <<joinRequest, groupFaults>>
     \/ Failing /\ Quits(t) /\ Closes
  /\ UNCHANGED <<published, members, admins, appTag, descTag, foreign, tabVars, groupRow,
                 calls, groupHistory>>

(* The creator, the expiry, the key and the signature. *)
VerifyInvite(t) == Checks(t, "verifyInvite", "resolveGroup")

(* The group of the token, with up to two syncs of the conversations. *)
ResolveGroup(t) == Checks(t, "resolveGroup", "checkRequester")

(* Identity updates of the members, registration of the requester. *)
CheckRequester(t) == Checks(t, "checkRequester", "addMember")

AddRequester(t) ==
  /\ TaskAt(t, "addMember")
  /\ task[t].op = "approve"
  /\ \/ /\ members' = members \cup {Requester}
        /\ GoTask(t, "readRequester")
        /\ UNCHANGED <<joinRequest, groupFaults>>
     \/ Failing /\ Quits(t) /\ Closes /\ UNCHANGED members
  /\ UNCHANGED <<published, admins, appTag, descTag, foreign, tabVars, groupRow, calls,
                 groupHistory>>

(* persistConvosJoinRequesterProfile; its failure is swallowed. *)
ReadForRequester(t) ==
  /\ TaskAt(t, "readRequester")
  /\ \/ /\ task' = [task EXCEPT ![t].at = "keepRequester", ![t].copy = groupRow]
        /\ UNCHANGED groupFaults
     \/ Failing /\ GoTask(t, "publish")
  /\ UNCHANGED <<net, tabVars, groupRow, calls, groupHistory>>

PersistRequester(t) ==
  /\ TaskAt(t, "keepRequester")
  /\ WriteBack(t, task[t].copy.known \cup {Requester})
  /\ task' = [task EXCEPT ![t].at = "publish", ![t].copy = Nothing]
  /\ UNCHANGED <<net, tabVars, calls, groupFaults, deceived, crossed>>

(* The snapshot is best effort; the request is handled after it. *)
SendSnapshot(t) ==
  /\ TaskAt(t, "snapshot")
  /\ IF task[t].op = "approve"
       THEN Quits(t) /\ handled' = TRUE /\ Closes
       ELSE /\ task' = [task EXCEPT ![t].at = "details", ![t].copy = Nothing]
            /\ UNCHANGED <<handled, joinRequest>>
  /\ UNCHANGED <<published, members, admins, appTag, descTag, foreign, draft, sentName, publisher, tags,
                 invites, groupRow, calls, groupFaults, groupHistory>>

-----------------------------------------------------------------------------
(* Membership *)

(* addMembersToGroup skips members the row has (here: has a profile of). *)
AddMembers(t) ==
  /\ Begin(t, "add", "addMember")
  /\ Requester \notin groupRow.known
  /\ UNCHANGED <<net, tabVars, groupRow, groupFaults, groupHistory>>

AddMember(t) ==
  /\ TaskAt(t, "addMember")
  /\ task[t].op = "add"
  /\ \/ /\ members' = members \cup {Requester}
        /\ GoTask(t, "publish")
        /\ UNCHANGED groupFaults
     \/ Failing /\ Quits(t) /\ UNCHANGED members
  /\ UNCHANGED <<published, admins, appTag, descTag, foreign, joinRequest, tabVars, groupRow,
                 calls, groupHistory>>

EditMembers(t) ==
  /\ \E op \in Edits : Begin(t, op, "edit")
  /\ UNCHANGED <<net, tabVars, groupRow, groupFaults, groupHistory>>

(* The SDK's call for an edit; a failure is thrown to the page. *)
ApplyEdit(t) ==
  /\ TaskAt(t, "edit")
  /\ \/ /\ CASE task[t].op = "remove" ->
                  members' = members \ {Requester} /\ admins' = admins \ {Requester}
             [] task[t].op = "promote" ->
                  admins' = admins \cup (members \cap {Requester}) /\ UNCHANGED members
             [] task[t].op = "demote" -> admins' = admins \ {Requester} /\ UNCHANGED members
             [] task[t].op = "permission" -> UNCHANGED <<members, admins>>
        /\ GoTask(t, "details")
        /\ UNCHANGED groupFaults
     \/ Failing /\ Quits(t) /\ UNCHANGED <<members, admins>>
  /\ UNCHANGED <<published, appTag, descTag, foreign, joinRequest, tabVars, groupRow, calls,
                 misled, deceived, crossed>>

-----------------------------------------------------------------------------
ConvosStep(t) ==
  \/ SaveProfile(t) \/ SaveSelfDm(t) \/ ActivateGroup(t)
  \/ EnsurePublished(t) \/ CompareStoredRevision(t) \/ SendProfileUpdate(t)
  \/ ReadForRevision(t) \/ RecordRevision(t)
  \/ ReceiveProfile(t) \/ ReadForProfile(t) \/ StoreProfile(t)
  \/ RefreshDetails(t) \/ BuildDetails(t) \/ MergeStored(t) \/ ReadForDetails(t) \/ StoreDetails(t)
  \/ CreateInvite(t) \/ ReadTag(t) \/ WriteTag(t) \/ HandOutInvite(t)
  \/ UpdateMetadata(t) \/ RenameGroup(t) \/ KeepTag(t) \/ DescribeGroup(t)
  \/ ApproveInvite(t) \/ VerifyInvite(t) \/ ResolveGroup(t) \/ CheckRequester(t)
  \/ AddRequester(t)
  \/ ReadForRequester(t) \/ PersistRequester(t) \/ SendSnapshot(t)
  \/ AddMembers(t) \/ AddMember(t) \/ EditMembers(t) \/ ApplyEdit(t)

ConvosNext == EnqueueInvite \/ RejectInvite \/ \E t \in Slots : ConvosStep(t)

ConvosSpec == ConvosInit /\ [][ConvosNext]_groupVars

-----------------------------------------------------------------------------
(* Properties *)

(* Types.  A publication belongs to a call, and only the calls that hold   *)
(* a copy of the row write it.                                             *)
Awaits ==
  {"idle", "selfDm", "publish", "retry", "compare", "send", "readRevision", "recordRevision",
   "snapshot", "roster", "storeProfile", "details", "mergeStored", "readRow", "writeRow",
   "readTag", "writeTag", "checkMembers", "name", "keepTag", "describe", "verifyInvite",
   "resolveGroup", "checkRequester", "addMember", "readRequester", "keepRequester", "edit"}
Rows == [rev : Names \cup {Nothing}, known : SUBSET People]
ConvosTypeOK ==
  /\ draft \in Names /\ published \in Names /\ sentName \in Names \cup {Nothing}
  /\ publisher \in Slots \cup {Nothing}
  /\ publisher # Nothing =>
       task[publisher].at \in {"compare", "send", "readRevision", "recordRevision"}
  /\ groupRow \in Rows /\ groupRow.rev # Nothing
  /\ members \in SUBSET People /\ admins \in SUBSET members
  /\ tags \in 0..MaxCalls /\ invites \in SUBSET (1..tags)
  /\ appTag \in (1..tags) \cup {Nothing} /\ descTag \in (1..tags) \cup {Nothing}
  /\ foreign \in BOOLEAN /\ handled \in BOOLEAN /\ joinRequest \in {"none", "shown", "closed"}
  /\ task \in [Slots -> [op : Ops \cup {"idle"}, at : Awaits, name : Names \cup {Nothing},
                          copy : Rows \cup {Nothing}, tag : (1..MaxCalls) \cup {Nothing}]]
  /\ calls \in 0..MaxCalls /\ groupFaults \in 0..MaxGroupFaults
  /\ misled \in BOOLEAN /\ deceived \in BOOLEAN /\ crossed \in BOOLEAN

(* What the page and the row say was published in the group is what was    *)
(* published last, so that the next call publishes a changed name and only *)
(* a changed one: under renames, callers that share a publication, failed  *)
(* sends and failed records.  While the name is in flight the claim is     *)
(* older.  A row that was written back or not written is `misled`, and a   *)
(* page that took its claim from one `deceived`.                           *)
NameClaimsAreTrue ==
  publisher = Nothing => /\ deceived \/ sentName \in {Nothing, published}
                         /\ misled \/ groupRow.rev = published

(* Every invite handed out carries the tag the group carries, whatever is  *)
(* edited later: a join is matched to its invite by the tag.  Invitations  *)
(* that overlap another, or an edit of the description, are not covered:   *)
(* the SDK has no compare-and-swap.                                        *)
InviteTagsHold == crossed \/ invites \subseteq {GroupTag}
=============================================================================
