-------------------------- MODULE ConvosGroupsProofs --------------------------
(***************************************************************************)
(* Theorems about ConvosGroups for any display names, any people, any      *)
(* number of calls at work and altogether, and any number of failed calls: *)
(* what the page and the row say of the published name is so, and every    *)
(* invite handed out carries the tag of the group.                         *)
(***************************************************************************)
EXTENDS ConvosGroups, FiniteSetTheorems, TLAPS

-----------------------------------------------------------------------------
(* The inductive invariant *)

\* The steps of a publication, of an invitation and of an edit of the description.
Publishing == {"compare", "send", "readRevision", "recordRevision"}
Recording == {"readRevision", "recordRevision"}
Inviting == {"readTag", "writeTag", "checkMembers"}
Describing == {"name", "keepTag", "describe"}
\* The steps of a task that writes the whole row back, and those at which it has a name.
WritingBack == {"storeProfile", "keepRequester", "writeRow"}
Naming == Publishing \cup {"retry"}
OtherSteps ==
  {"idle", "selfDm", "publish", "snapshot", "roster", "details", "mergeStored", "readRow",
   "verifyInvite", "resolveGroup", "checkRequester", "addMember", "readRequester", "edit"}
Steps == Naming \cup Inviting \cup Describing \cup WritingBack \cup OtherSteps

Given == 1 .. tags
Tasks ==
  [op : Ops \cup {"idle"}, at : Steps, name : Names \cup {Nothing}, copy : Rows \cup {Nothing},
   tag : Nat \cup {Nothing}]

\* A task has what its step goes on with.
TaskOK(k) ==
  /\ k.tag \in Given \cup {Nothing}
  /\ k.at \in Naming => k.name \in Names
  /\ k.at \in WritingBack \cup {"recordRevision"} => k.copy \in Rows /\ k.copy.rev \in Names
  /\ k.at \in {"mergeStored", "readRow"} => k.copy \in Rows
  /\ k.at \in {"writeTag", "checkMembers"} => k.tag \in Given
  /\ k.at \in Inviting => k.op = "invite"
  /\ k.at \in Describing => k.op = "describe"
  /\ k.at = "edit" => k.op \in Edits
TasksOK == task \in [Slots -> Tasks] /\ \A t \in Slots : TaskOK(task[t])

GroupTyped ==
  /\ draft \in Names /\ published \in Names /\ sentName \in Names \cup {Nothing}
  /\ groupRow \in Rows /\ groupRow.rev \in Names
  /\ members \in SUBSET People /\ admins \in SUBSET members
  /\ foreign \in BOOLEAN /\ handled \in BOOLEAN /\ joinRequest \in {"none", "shown", "closed"}
  /\ misled \in BOOLEAN /\ deceived \in BOOLEAN /\ crossed \in BOOLEAN
  /\ calls \in 0 .. MaxCalls /\ groupFaults \in 0 .. MaxGroupFaults
TagsTyped ==
  /\ tags \in Nat /\ invites \subseteq Given
  /\ appTag \in Given \cup {Nothing} /\ descTag \in Given \cup {Nothing}

\* A tag is generated by a call that then no longer looks for one.
Looking == {t \in Slots : TaskAt(t, "readTag")}
TagsAreCounted == tags + Cardinality(Looking) <= calls

\* One task publishes at a time, the one the RAM map names; the name it goes on to record
\* is the one published.
OnePublisher ==
  /\ publisher \in Slots \cup {Nothing}
  /\ \A t \in Slots : publisher = t <=> task[t].at \in Publishing
  /\ \A t \in Slots : task[t].at \in Recording => task[t].name = published

\* `misled` and `deceived` say exactly when a claim may be false.
ClaimsAreDated ==
  /\ misled <=> groupRow.rev # published
  /\ deceived \/ sentName \in {Nothing, published}

\* While nothing overlapped, an invitation is alone with the tag: it finds the group
\* without one until it has written its own, and leaves it the one it read; and an edit
\* writes back the legacy tag the group still has.
InvitesAreAlone ==
  \A t \in Slots : \A u \in Slots \ {t} :
    task[t].op = "invite" => task[u].op \notin {"invite", "describe"}
TagIsHeld(t) ==
  /\ TaskAt(t, "writeTag") => GroupTag = Nothing
  /\ TaskAt(t, "checkMembers") => task[t].tag = GroupTag
  /\ TaskAt(t, "describe") /\ AppTag = Nothing => task[t].tag = descTag
TagsAreHeld ==
  ~crossed => /\ invites \subseteq {GroupTag}
              /\ InvitesAreAlone
              /\ \A t \in Slots : TagIsHeld(t)

GroupsInv ==
  /\ GroupTyped /\ TagsTyped /\ TasksOK /\ TagsAreCounted
  /\ OnePublisher /\ ClaimsAreDated /\ TagsAreHeld
-----------------------------------------------------------------------------
(* Steps of one task *)

\* What is known of a task.
LEMMA TaskIs ==
  ASSUME GroupsInv, NEW t \in Slots
  PROVE  task[t] \in Tasks /\ TaskOK(task[t])
BY DEF GroupsInv, TasksOK

\* An idle task has no step at which something is asked of it.
LEMMA IdleIs ==
  Idle \in Tasks /\ TaskOK(Idle) /\ Idle.at = "idle" /\ Idle.op = "idle"
BY DEF Idle, Tasks, TaskOK, Steps, OtherSteps, Naming, Publishing, WritingBack, Inviting, Describing

\* A failed call stays within the bound.
LEMMA FailedOnce ==
  ASSUME GroupTyped, Failing \/ UNCHANGED groupFaults
  PROVE  groupFaults' \in 0 .. MaxGroupFaults
BY GroupsAssumption DEF Failing, GroupTyped

\* A task goes from k to l, and neither invites nor edits the description by it.
Leads(k, l) ==
  \/ l = k
  \/ /\ l.op \in {k.op, "idle"} \/ l.op \notin {"invite", "describe"}
     /\ l.at \notin {"readTag", "writeTag", "checkMembers", "describe"}

\* Tasks that leave the tags alone.
LEMMA Plain ==
  ASSUME GroupsInv, task' \in [Slots -> Tasks],
         \A t \in Slots : TaskOK(task'[t]) /\ Leads(task[t], task'[t]),
         UNCHANGED <<tags, invites, appTag, descTag, foreign, crossed>>,
         GroupTyped', OnePublisher', ClaimsAreDated', calls <= calls'
  PROVE  GroupsInv'
<1>1. TagsTyped' /\ Given' = Given /\ GroupTag' = GroupTag /\ AppTag' = AppTag
  BY DEF GroupsInv, TagsTyped, Given, GroupTag, AppTag
<1>2. TasksOK'
  BY DEF TasksOK, TaskOK, Given
<1>3. TagsAreCounted'
  <2>1. Looking' \subseteq Looking /\ IsFiniteSet(Looking)
    BY GroupsAssumption, FS_Subset DEF Looking, TaskAt, Leads
  <2>2. Cardinality(Looking') <= Cardinality(Looking)
    BY <2>1, FS_Subset
  <2>3. Cardinality(Looking') \in Nat /\ Cardinality(Looking) \in Nat
    BY <2>1, FS_Subset, FS_CardinalityType
  <2>4. tags \in Nat /\ calls \in Nat /\ calls' \in Nat /\ tags + Cardinality(Looking) <= calls
    BY DEF GroupsInv, GroupTyped, TagsTyped, TagsAreCounted
  <2>5. tags' = tags
    OBVIOUS
  <2> HIDE DEF Looking
  <2>6. QED BY <2>2, <2>3, <2>4, <2>5 DEF TagsAreCounted
<1>4. TagsAreHeld'
  <2>1. InvitesAreAlone => InvitesAreAlone'
    BY DEF InvitesAreAlone, Leads, GroupsInv, TasksOK, Tasks
  <2>2. ASSUME NEW t \in Slots, TagIsHeld(t)
        PROVE  TagIsHeld(t)'
    BY <1>1, <2>2 DEF TagIsHeld, Leads, TaskAt
  <2>3. QED BY <1>1, <2>1, <2>2 DEF TagsAreHeld, GroupsInv
<1>5. QED BY <1>1, <1>2, <1>3, <1>4 DEF GroupsInv

\* A task that begins to publish, goes on with it, ends it or has nothing to do with it.
Publishes(t, k) ==
  /\ \/ /\ publisher' = publisher
        /\ k.at \in Publishing <=> task[t].at \in Publishing
     \/ task[t].at \in Publishing /\ publisher' = Nothing /\ k.at \notin Publishing
     \/ publisher = Nothing /\ publisher' = t /\ k.at \in Publishing
  /\ k.at \in Recording => k.name = published'
  /\ published' = published \/ task[t].at \in Publishing

\* One task that leaves the tags alone.
LEMMA OneTask ==
  ASSUME GroupsInv, NEW t \in Slots, NEW k \in Tasks, task' = [task EXCEPT ![t] = k],
         TaskOK(k), Leads(task[t], k), Publishes(t, k),
         UNCHANGED <<tags, invites, appTag, descTag, foreign, crossed>>,
         GroupTyped', ClaimsAreDated', calls <= calls'
  PROVE  GroupsInv'
<1>1. /\ task' \in [Slots -> Tasks]
      /\ task'[t] = k /\ \A u \in Slots \ {t} : task'[u] = task[u]
  BY DEF GroupsInv, TasksOK
<1>2. \A u \in Slots : TaskOK(task'[u]) /\ Leads(task[u], task'[u])
  BY <1>1, TaskIs DEF Leads
<1>3. OnePublisher'
  <2>1. /\ publisher' \in Slots \cup {Nothing}
        /\ \A u \in Slots : publisher' = u <=> task'[u].at \in Publishing
    BY <1>1, GroupsAssumption DEF GroupsInv, OnePublisher, Publishes
  <2>2. ASSUME NEW u \in Slots, task'[u].at \in Recording
        PROVE  task'[u].name = published'
    <3>1. CASE u = t
      BY <1>1, <2>2, <3>1 DEF Publishes
    <3>2. CASE u # t
      BY <1>1, <2>2, <3>2 DEF Publishes, GroupsInv, OnePublisher, Recording, Publishing
    <3>3. QED BY <3>1, <3>2
  <2>3. QED BY <2>1, <2>2 DEF OnePublisher
<1>4. QED BY <1>1, <1>2, <1>3, Plain

\* What is said of the name stays as it is.
Unsaid ==
  UNCHANGED <<draft, sentName, publisher, published, groupRow, misled, deceived, crossed, tags,
              invites, appTag, descTag, foreign, calls>>

\* What else a step may change of the group and of the page.
Elsewhere ==
  /\ members' \in SUBSET People /\ admins' \in SUBSET members'
  /\ handled' \in BOOLEAN /\ joinRequest' \in {"none", "shown", "closed"}
  /\ groupFaults' \in 0 .. MaxGroupFaults

\* A step that neither publishes nor touches the row or the tags.
LEMMA Moves ==
  ASSUME GroupsInv, NEW t \in Slots, NEW k \in Tasks, task' = [task EXCEPT ![t] = k],
         TaskOK(k), Leads(task[t], k),
         k.at \notin Publishing, task[t].at \notin Publishing, Unsaid, Elsewhere
  PROVE  GroupsInv'
<1>1. GroupTyped' /\ ClaimsAreDated' /\ calls <= calls'
  BY DEF GroupsInv, GroupTyped, ClaimsAreDated, Unsaid, Elsewhere
<1>2. Publishes(t, k)
  BY DEF Publishes, Unsaid, Recording, Publishing
<1>3. QED BY <1>1, <1>2, OneTask DEF Unsaid

\* The steps at which a call begins, but for invitations and edits of the description.
Opening == {"selfDm", "publish", "roster", "details", "verifyInvite", "addMember", "edit"}

\* A call that begins.
LEMMA Begins ==
  ASSUME GroupsInv, NEW t \in Slots, NEW op \in Ops \ {"invite", "describe"}, NEW pc \in Opening,
         pc = "edit" => op \in Edits, Begin(t, op, pc), draft' \in Names, sentName' \in {sentName, Nothing},
         UNCHANGED <<net, publisher, handled, tags, invites, groupRow, groupFaults, groupHistory>>
  PROVE  GroupsInv'
<1> DEFINE k == [Idle EXCEPT !.op = op, !.at = pc]
<1>1. task[t] = Idle /\ calls < MaxCalls /\ calls' = calls + 1 /\ task' = [task EXCEPT ![t] = k]
  BY DEF Begin
<1>2. pc \in OtherSteps
  BY DEF Opening, OtherSteps
<1>3. k \in Tasks /\ TaskOK(k) /\ Leads(task[t], k) /\ k.at \notin Publishing
  BY <1>2, IdleIs DEF Tasks, TaskOK, Leads, Idle, Opening, OtherSteps, Steps, Naming, Publishing,
       WritingBack, Inviting, Describing
<1>4. Publishes(t, k)
  BY <1>1, <1>3, IdleIs DEF Publishes, Publishing, Recording, net
<1>5. GroupTyped' /\ ClaimsAreDated' /\ calls <= calls'
  BY <1>1, GroupsAssumption DEF GroupsInv, GroupTyped, ClaimsAreDated, net, groupHistory
<1>6. QED BY <1>1, <1>3, <1>4, <1>5, OneTask DEF net, groupHistory
-----------------------------------------------------------------------------
(* Calls that begin, and those that wait for nothing but a failure *)

\* All of the interface's calls but an invitation and an edit of the description.
LEMMA BeginningsKeep ==
  ASSUME GroupsInv, NEW t \in Slots,
         SaveProfile(t) \/ ActivateGroup(t) \/ ReceiveProfile(t) \/ RefreshDetails(t)
           \/ ApproveInvite(t) \/ AddMembers(t) \/ EditMembers(t)
  PROVE  GroupsInv'
<1>1. draft \in Names
  BY DEF GroupsInv, GroupTyped
<1>2. PICK op \in Ops \ {"invite", "describe"}, pc \in Opening :
        Begin(t, op, pc) /\ (pc = "edit" => op \in Edits)
  BY DEF SaveProfile, ActivateGroup, ReceiveProfile, RefreshDetails, ApproveInvite, AddMembers,
         EditMembers, Ops, Edits, Opening
<1>3. /\ UNCHANGED <<net, publisher, handled, tags, invites, groupRow, groupFaults, groupHistory>>
      /\ draft' \in Names /\ sentName' \in {sentName, Nothing}
  BY <1>1 DEF SaveProfile, ActivateGroup, ReceiveProfile, RefreshDetails, ApproveInvite, AddMembers,
         EditMembers, tabVars
<1>4. QED BY <1>2, <1>3, Begins

\* A step that leaves everything but its task, the request, the members and the failures.
LEMMA StaysElsewhere ==
  ASSUME GroupsInv, Failing \/ UNCHANGED groupFaults,
         UNCHANGED <<members, admins, handled>>, joinRequest' \in {joinRequest, "closed"}
  PROVE  Elsewhere
BY FailedOnce DEF Elsewhere, GroupsInv, GroupTyped

\* A task that goes on to a step of no consequence, or ends, with the copy given to it.
LEMMA GoesOn ==
  ASSUME GroupsInv, NEW t \in Slots, NEW pc \in (OtherSteps \ {"edit"}) \cup WritingBack,
         NEW copy \in Rows \cup {Nothing},
         pc \in WritingBack => copy \in Rows /\ copy.rev \in Names,
         pc \in {"mergeStored", "readRow"} => copy \in Rows,
         task[t].at \notin Publishing, Unsaid, Elsewhere,
         \/ task' = [task EXCEPT ![t].at = pc, ![t].copy = copy]
         \/ task' = [task EXCEPT ![t].at = pc] /\ copy = task[t].copy
         \/ Quits(t)
  PROVE  GroupsInv'
<1>1. task[t] \in Tasks /\ TaskOK(task[t])
  BY TaskIs
<1> DEFINE k == [task[t] EXCEPT !.at = pc, !.copy = copy]
<1>2. /\ k \in Tasks /\ k.op = task[t].op /\ k.at = pc /\ k.tag = task[t].tag
      /\ k.name = task[t].name /\ k.copy = copy
  BY <1>1 DEF Tasks, Steps
<1>3. pc \notin Naming \cup Inviting \cup Describing \cup {"recordRevision", "edit"}
  BY DEF OtherSteps, WritingBack, Naming, Publishing, Inviting, Describing
<1>4. TaskOK(k) /\ k.at \notin Publishing /\ Leads(task[t], k)
  BY <1>1, <1>2, <1>3 DEF TaskOK, Inviting, Leads, Describing, Naming
<1>5. CASE Quits(t)
  BY <1>5, Moves, IdleIs DEF Quits, Leads, Publishing
<1>6. CASE task' = [task EXCEPT ![t] = k]
  BY <1>2, <1>4, <1>6, Moves
<1>7. /\ [task EXCEPT ![t].at = pc, ![t].copy = copy] = [task EXCEPT ![t] = k]
      /\ copy = task[t].copy => [task EXCEPT ![t].at = pc] = [task EXCEPT ![t] = k]
  BY <1>1 DEF Tasks, GroupsInv, TasksOK
<1>8. QED BY <1>5, <1>6, <1>7

\* The self-DM, the checks of an approval, the copies read and the calls of the SDK.
LEMMA WaitingKeeps ==
  ASSUME GroupsInv, NEW t \in Slots,
         SaveSelfDm(t) \/ VerifyInvite(t) \/ ResolveGroup(t) \/ CheckRequester(t)
           \/ ReadForProfile(t) \/ ReadForRequester(t) \/ BuildDetails(t) \/ MergeStored(t)
           \/ ReadForDetails(t)
  PROVE  GroupsInv'
<1>1. /\ Unsaid /\ UNCHANGED <<members, admins, handled>>
      /\ joinRequest' \in {joinRequest, "closed"} /\ (Failing \/ UNCHANGED groupFaults)
      /\ task[t].at \notin Publishing
  BY DEF SaveSelfDm, VerifyInvite, ResolveGroup, CheckRequester, Checks, Closes, ReadForProfile,
         ReadForRequester, BuildDetails, MergeStored, ReadForDetails, Unsaid, net, tabVars,
         groupHistory, TaskAt, Publishing
<1>2. Elsewhere
  BY <1>1, StaysElsewhere
<1>3. task[t] \in Tasks /\ TaskOK(task[t]) /\ groupRow \in Rows /\ groupRow.rev \in Names
  BY TaskIs DEF GroupsInv, GroupTyped
<1>4. CASE SaveSelfDm(t) \/ VerifyInvite(t) \/ ResolveGroup(t) \/ CheckRequester(t)
  <2>1. PICK pc \in {"publish", "resolveGroup", "checkRequester", "addMember"} :
          GoTask(t, pc) \/ Quits(t)
    BY <1>4 DEF SaveSelfDm, VerifyInvite, ResolveGroup, CheckRequester, Checks
  <2>2. pc \in (OtherSteps \ {"edit"}) \cup WritingBack /\ pc \notin WritingBack \cup {"mergeStored", "readRow"}
    BY DEF OtherSteps, WritingBack
  <2>3. task[t].copy \in Rows \cup {Nothing}
    BY <1>3 DEF Tasks
  <2>4. QED BY <1>1, <1>2, <2>1, <2>2, <2>3, GoesOn DEF GoTask
<1>5. CASE ReadForProfile(t)
  <2>1. "storeProfile" \in (OtherSteps \ {"edit"}) \cup WritingBack
    BY DEF WritingBack
  <2>2. QED BY <1>1, <1>2, <1>3, <1>5, <2>1, GoesOn DEF ReadForProfile
<1>6. CASE ReadForRequester(t)
  <2>1. "keepRequester" \in (OtherSteps \ {"edit"}) \cup WritingBack /\ "publish" \in (OtherSteps \ {"edit"}) \cup WritingBack
        /\ "publish" \notin WritingBack
    BY DEF WritingBack, OtherSteps
  <2>2. task[t].copy \in Rows \cup {Nothing}
    BY <1>3 DEF Tasks
  <2>3. CASE task' = [task EXCEPT ![t].at = "keepRequester", ![t].copy = groupRow]
    BY <1>1, <1>2, <1>3, <2>1, <2>3, GoesOn
  <2>4. CASE GoTask(t, "publish")
    BY <1>1, <1>2, <2>1, <2>2, <2>4, GoesOn DEF GoTask
  <2>5. QED BY <1>6, <2>3, <2>4 DEF ReadForRequester
<1>7. CASE BuildDetails(t)
  <2>1. PICK roster \in {members, {}} :
          task' = [task EXCEPT ![t].at = "mergeStored",
                               ![t].copy = [rev |-> Nothing, known |-> roster]]
    BY <1>7 DEF BuildDetails
  <2>2. [rev |-> Nothing, known |-> roster] \in Rows
    BY DEF Rows, GroupsInv, GroupTyped
  <2>3. "mergeStored" \in (OtherSteps \ {"edit"}) \cup WritingBack /\ "mergeStored" \notin WritingBack
    BY DEF OtherSteps, WritingBack
  <2>4. QED BY <1>1, <1>2, <2>1, <2>2, <2>3, GoesOn
<1>8. CASE MergeStored(t)
  <2>1. PICK stored \in {groupRow.known, {}} :
          task' = [task EXCEPT ![t].at = "readRow", ![t].copy.known = @ \cap stored]
    BY <1>8 DEF MergeStored
  <2>2. task[t].copy \in Rows
    BY <1>3, <1>8 DEF MergeStored, TaskAt, TaskOK
  <2>3. PICK copy \in Rows : copy = [task[t].copy EXCEPT !.known = @ \cap stored]
    BY <2>2 DEF Rows
  <2>4. "readRow" \in (OtherSteps \ {"edit"}) \cup WritingBack /\ "readRow" \notin WritingBack
    BY DEF OtherSteps, WritingBack
  <2>5. task' = [task EXCEPT ![t].at = "readRow", ![t].copy = copy]
    BY <2>1, <2>3, <1>3 DEF GroupsInv, TasksOK, Tasks
  <2>6. QED BY <1>1, <1>2, <2>3, <2>4, <2>5, GoesOn
<1>9. CASE ReadForDetails(t)
  <2>1. task[t].copy \in Rows
    BY <1>3, <1>9 DEF ReadForDetails, TaskAt, TaskOK
  <2>2. PICK copy \in Rows : copy = [task[t].copy EXCEPT !.rev = groupRow.rev] /\ copy.rev \in Names
    BY <1>3, <2>1 DEF Rows
  <2>3. "writeRow" \in (OtherSteps \ {"edit"}) \cup WritingBack
    BY DEF WritingBack
  <2>4. \/ task' = [task EXCEPT ![t].at = "writeRow", ![t].copy = copy]
        \/ Quits(t)
    BY <1>3, <1>9, <2>2 DEF ReadForDetails, GroupsInv, TasksOK, Tasks
  <2>5. QED BY <1>1, <1>2, <2>2, <2>3, <2>4, GoesOn
<1>10. QED BY <1>4, <1>5, <1>6, <1>7, <1>8, <1>9
-----------------------------------------------------------------------------
(* The name of this inbox *)

\* What follows a publication, and what follows one that failed.
LEMMA AfterIs ==
  ASSUME GroupsInv, NEW t \in Slots
  PROVE  \E k \in Tasks :
           /\ [task EXCEPT ![t] =
                 IF task[t].op \in {"approve", "add"}
                 THEN [task[t] EXCEPT !.at = "snapshot", !.name = Nothing] ELSE Idle]
                = [task EXCEPT ![t] = k]
           /\ TaskOK(k) /\ Leads(task[t], k) /\ k.at \notin Publishing
<1> DEFINE r == [task[t] EXCEPT !.at = "snapshot", !.name = Nothing]
           k == IF task[t].op \in {"approve", "add"} THEN r ELSE Idle
<1>1. task[t] \in Tasks /\ TaskOK(task[t])
  BY TaskIs
<1>2. "snapshot" \in Steps
  BY DEF Steps, OtherSteps
<1>3. r \in Tasks /\ r.at = "snapshot" /\ r.op = task[t].op /\ r.tag = task[t].tag
  BY <1>1, <1>2 DEF Tasks
<1>4. TaskOK(r)
  BY <1>1, <1>3 DEF TaskOK, Naming, Publishing, WritingBack, Inviting, Describing
<1>5. k \in Tasks /\ TaskOK(k) /\ Leads(task[t], k) /\ k.at \notin Publishing
  BY <1>3, <1>4, IdleIs DEF Leads, Publishing
<1>6. QED BY <1>5

\* Asking for a publication: done, waited for, or begun.
LEMMA EnsureKeeps ==
  ASSUME GroupsInv, NEW t \in Slots, EnsurePublished(t)
  PROVE  GroupsInv'
<1>1. /\ UNCHANGED <<net, draft, sentName, handled, tags, invites, groupRow, calls, groupFaults,
                     groupHistory>>
      /\ task[t].at \in {"publish", "retry"} /\ task[t].at \notin Publishing
      /\ task[t] \in Tasks /\ TaskOK(task[t])
  BY TaskIs DEF EnsurePublished, TaskAt, Publishing
<1>2. Wanted(t) \in Names
  BY <1>1 DEF Wanted, TaskOK, TaskAt, Naming, GroupsInv, GroupTyped
<1>3. GroupTyped' /\ ClaimsAreDated' /\ calls <= calls'
      /\ UNCHANGED <<tags, invites, appTag, descTag, foreign, crossed>>
  BY <1>1 DEF GroupsInv, GroupTyped, ClaimsAreDated, net, groupHistory
<1>4. CASE AfterPublishing(t) /\ UNCHANGED publisher
  <2>1. PICK k \in Tasks :
          /\ task' = [task EXCEPT ![t] = k]
          /\ TaskOK(k) /\ Leads(task[t], k) /\ k.at \notin Publishing
    BY <1>4, AfterIs DEF AfterPublishing
  <2>2. Publishes(t, k)
    BY <1>1, <1>4, <2>1 DEF Publishes, Recording, Publishing, net
  <2>3. QED BY <1>3, <2>1, <2>2, OneTask
<1>5. ASSUME NEW at \in {"retry", "compare"},
             task' = [task EXCEPT ![t].at = at, ![t].name = Wanted(t)],
             at = "retry" => UNCHANGED publisher,
             at = "compare" => publisher = Nothing /\ publisher' = t
      PROVE  GroupsInv'
  <2> DEFINE k == [task[t] EXCEPT !.at = at, !.name = Wanted(t)]
  <2>1. at \in Steps /\ (at = "compare" <=> at \in Publishing)
        /\ at \notin WritingBack \cup Inviting \cup Describing \cup
             {"recordRevision", "mergeStored", "readRow"}
    BY DEF Steps, Naming, Publishing, WritingBack, Inviting, Describing
  <2>2. k \in Tasks /\ k.at = at /\ k.op = task[t].op /\ k.tag = task[t].tag /\ k.name = Wanted(t)
        /\ task' = [task EXCEPT ![t] = k]
    BY <1>1, <1>2, <1>5, <2>1 DEF Tasks, GroupsInv, TasksOK
  <2> HIDE DEF k
  <2>3. TaskOK(k) /\ Leads(task[t], k)
    BY <1>1, <1>2, <2>1, <2>2 DEF TaskOK, Leads, Inviting, Describing
  <2>4. Publishes(t, k)
    BY <1>1, <1>5, <2>1, <2>2 DEF Publishes, Recording, net
  <2>5. QED BY <1>3, <2>2, <2>3, <2>4, OneTask
<1>6. QED BY <1>4, <1>5 DEF EnsurePublished

\* A step of the task that publishes, which goes on publishing.
LEMMA GoesOnPublishing ==
  ASSUME GroupsInv, NEW t \in Slots, NEW at \in Publishing, NEW copy \in Rows \cup {Nothing},
         task[t].at \in Publishing, publisher' = publisher,
         at = "recordRevision" => copy \in Rows /\ copy.rev \in Names,
         at \in Recording => task[t].name = published',
         \/ task' = [task EXCEPT ![t].at = at, ![t].copy = copy]
         \/ task' = [task EXCEPT ![t].at = at] /\ copy = task[t].copy,
         UNCHANGED <<tags, invites, appTag, descTag, foreign, crossed, calls>>,
         GroupTyped', ClaimsAreDated'
  PROVE  GroupsInv'
<1> DEFINE k == [task[t] EXCEPT !.at = at, !.copy = copy]
<1>1. task[t] \in Tasks /\ TaskOK(task[t]) /\ at \in Steps
      /\ at \notin WritingBack \cup Inviting \cup Describing \cup {"mergeStored", "readRow", "edit"}
  BY TaskIs DEF Steps, Naming, Publishing, WritingBack, Inviting, Describing
<1>2. k \in Tasks /\ k.at = at /\ k.op = task[t].op /\ k.tag = task[t].tag
      /\ k.name = task[t].name /\ k.copy = copy /\ task' = [task EXCEPT ![t] = k]
  BY <1>1 DEF Tasks, GroupsInv, TasksOK
<1> HIDE DEF k
<1>3. TaskOK(k) /\ Leads(task[t], k)
  BY <1>1, <1>2 DEF TaskOK, Leads, Inviting, Describing, Naming
<1>4. Publishes(t, k) /\ calls <= calls'
  BY <1>2 DEF Publishes, GroupsInv, GroupTyped
<1>5. QED BY <1>2, <1>3, <1>4, OneTask

\* The end of a publication.
LEMMA Published ==
  ASSUME GroupsInv, NEW t \in Slots, AfterPublishing(t), task[t].at \in Publishing,
         publisher' = Nothing,
         UNCHANGED <<tags, invites, appTag, descTag, foreign, crossed, calls>>,
         GroupTyped', ClaimsAreDated'
  PROVE  GroupsInv'
<1>1. PICK k \in Tasks :
        /\ task' = [task EXCEPT ![t] = k]
        /\ TaskOK(k) /\ Leads(task[t], k) /\ k.at \notin Publishing
  BY AfterIs DEF AfterPublishing
<1>2. Publishes(t, k) /\ calls <= calls'
  BY <1>1 DEF Publishes, GroupsInv, GroupTyped, Recording, Publishing
<1>3. QED BY <1>1, <1>2, OneTask

\* The stored revision is what was published, unless the row is misled.
LEMMA CompareKeeps ==
  ASSUME GroupsInv, NEW t \in Slots, CompareStoredRevision(t)
  PROVE  GroupsInv'
<1>1. /\ UNCHANGED <<net, draft, handled, tags, invites, groupRow, calls, misled, crossed>>
      /\ task[t].at = "compare" /\ task[t].at \in Publishing /\ task[t].name \in Names
      /\ Failing \/ UNCHANGED groupFaults
  BY TaskIs DEF CompareStoredRevision, TaskAt, TaskOK, Naming, Publishing
<1>2. groupFaults' \in 0 .. MaxGroupFaults
  BY <1>1, FailedOnce DEF GroupsInv
<1>3. CASE /\ groupRow.rev = task[t].name /\ sentName' = task[t].name
           /\ deceived' = misled /\ publisher' = Nothing /\ AfterPublishing(t)
  <2>1. GroupTyped' /\ ClaimsAreDated'
    BY <1>1, <1>2, <1>3 DEF GroupsInv, GroupTyped, ClaimsAreDated, net
  <2>2. QED BY <1>1, <1>3, <2>1, Published DEF net
<1>4. CASE GoTask(t, "send") /\ UNCHANGED <<sentName, publisher, deceived>>
  <2>1. GroupTyped' /\ ClaimsAreDated'
    BY <1>1, <1>2, <1>4 DEF GroupsInv, GroupTyped, ClaimsAreDated, net
  <2>2. "send" \in Publishing \ Recording /\ task[t].copy \in Rows \cup {Nothing}
    BY TaskIs DEF Publishing, Recording, Tasks
  <2>3. QED BY <1>1, <1>4, <2>1, <2>2, GoesOnPublishing DEF net, GoTask
<1>5. QED BY <1>3, <1>4 DEF CompareStoredRevision

\* The name is sent, and from then on published; or the callers that wait fail too.
LEMMA SendKeeps ==
  ASSUME GroupsInv, NEW t \in Slots, SendProfileUpdate(t)
  PROVE  GroupsInv'
<1>1. /\ UNCHANGED <<members, admins, appTag, descTag, foreign, joinRequest, draft, handled, tags,
                     invites, groupRow, calls, crossed>>
      /\ task[t].at = "send" /\ task[t].at \in Publishing /\ task[t].name \in Names
      /\ Failing \/ UNCHANGED groupFaults
  BY TaskIs DEF SendProfileUpdate, TaskAt, TaskOK, Naming, Publishing
<1>2. groupFaults' \in 0 .. MaxGroupFaults
  BY <1>1, FailedOnce DEF GroupsInv
<1>3. CASE /\ published' = task[t].name /\ sentName' = task[t].name
           /\ misled' = (groupRow.rev # task[t].name) /\ deceived' = FALSE
           /\ GoTask(t, "readRevision") /\ UNCHANGED <<publisher, groupFaults>>
  <2>1. GroupTyped' /\ ClaimsAreDated'
    BY <1>1, <1>2, <1>3 DEF GroupsInv, GroupTyped, ClaimsAreDated
  <2>2. "readRevision" \in Publishing /\ task[t].copy \in Rows \cup {Nothing}
    BY TaskIs DEF Publishing, Tasks
  <2>3. QED BY <1>1, <1>3, <2>1, <2>2, GoesOnPublishing DEF GoTask
<1>4. CASE /\ Failing /\ publisher' = Nothing /\ task' = GiveUp(t)
           /\ UNCHANGED <<published, sentName, misled, deceived>>
  <2>1. GroupTyped' /\ ClaimsAreDated' /\ calls <= calls'
    BY <1>1, <1>2, <1>4 DEF GroupsInv, GroupTyped, ClaimsAreDated
  <2>2. ASSUME NEW s \in Slots
        PROVE  /\ task'[s] \in Tasks /\ TaskOK(task'[s]) /\ Leads(task[s], task'[s])
               /\ s = t \/ task[s].at = "retry" => task'[s].at \notin Publishing
               /\ task'[s] = task[s] \/ s = t \/ task[s].at = "retry"
    <3> DEFINE r == [task[s] EXCEPT !.at = "snapshot", !.name = Nothing]
    <3>1. task[s] \in Tasks /\ TaskOK(task[s]) /\ "snapshot" \in Steps
      BY TaskIs DEF Steps, OtherSteps
    <3>2. r \in Tasks /\ r.at = "snapshot" /\ r.op = task[s].op /\ r.tag = task[s].tag
      BY <3>1 DEF Tasks
    <3>3. task'[s] \in {task[s], r, Idle}
          /\ (s = t \/ task[s].at = "retry" => task'[s] \in {r, Idle})
          /\ (task'[s] = task[s] \/ s = t \/ task[s].at = "retry")
      BY <1>4 DEF GiveUp, TaskAt
    <3> HIDE DEF r
    <3>4. TaskOK(r) /\ Leads(task[s], r) /\ Leads(task[s], Idle) /\ r.at \notin Publishing
          /\ Leads(task[s], task[s]) /\ Idle.at \notin Publishing
      BY <3>1, <3>2, IdleIs
         DEF TaskOK, Leads, Naming, Publishing, WritingBack, Inviting, Describing
    <3>5. QED BY <3>1, <3>2, <3>3, <3>4, IdleIs
  <2>3. task' \in [Slots -> Tasks]
    BY <1>4, <2>2 DEF GiveUp
  <2>4. OnePublisher'
    <3>1. publisher = t /\ "retry" \notin Publishing
      BY <1>1 DEF GroupsInv, OnePublisher, Publishing
    <3>2. \A s \in Slots : task'[s].at \notin Publishing /\ task'[s].at \notin Recording
      BY <2>2, <3>1 DEF GroupsInv, OnePublisher, Recording, Publishing
    <3>3. QED BY <1>4, <3>2, GroupsAssumption DEF OnePublisher
  <2>5. QED BY <1>1, <2>1, <2>2, <2>3, <2>4, Plain
<1>5. QED BY <1>3, <1>4 DEF SendProfileUpdate

\* The revision is recorded in the row that was read, or the failure is swallowed.
LEMMA RecordKeeps ==
  ASSUME GroupsInv, NEW t \in Slots, ReadForRevision(t) \/ RecordRevision(t)
  PROVE  GroupsInv'
<1>1. groupRow \in Rows /\ groupRow.rev \in Names /\ task[t] \in Tasks /\ TaskOK(task[t])
  BY TaskIs DEF GroupsInv, GroupTyped
<1>2. CASE ReadForRevision(t)
  <2>1. /\ UNCHANGED <<net, draft, sentName, handled, tags, invites, groupRow, calls, groupHistory>>
        /\ task[t].at \in Publishing /\ (Failing \/ UNCHANGED groupFaults)
    BY <1>2 DEF ReadForRevision, TaskAt, Publishing
  <2>2. GroupTyped' /\ ClaimsAreDated'
    BY <2>1, FailedOnce DEF GroupsInv, GroupTyped, ClaimsAreDated, net, groupHistory
  <2>3. CASE task' = [task EXCEPT ![t].at = "recordRevision", ![t].copy = groupRow]
             /\ UNCHANGED publisher
    <3>1. "recordRevision" \in Publishing
      BY DEF Publishing
    <3>2. task[t].name = published'
      BY <1>2, <2>1 DEF ReadForRevision, TaskAt, GroupsInv, OnePublisher, Recording, net
    <3>3. QED BY <1>1, <2>1, <2>2, <2>3, <3>1, <3>2, GoesOnPublishing DEF net, groupHistory
  <2>4. CASE publisher' = Nothing /\ AfterPublishing(t)
    BY <2>1, <2>2, <2>4, Published DEF net, groupHistory
  <2>5. QED BY <1>2, <2>3, <2>4 DEF ReadForRevision
<1>3. CASE RecordRevision(t)
  <2>1. /\ UNCHANGED <<net, draft, sentName, handled, tags, invites, calls, groupFaults, deceived,
                       crossed>>
        /\ task[t].at \in Publishing /\ AfterPublishing(t) /\ publisher' = Nothing
        /\ task[t].name \in Names /\ task[t].copy \in Rows /\ task[t].name = published
    BY <1>1, <1>3 DEF RecordRevision, TaskAt, Publishing, TaskOK, Naming, GroupsInv, OnePublisher,
         Recording
  <2>2. groupRow' \in Rows /\ groupRow'.rev = published /\ misled' = FALSE
    BY <1>3, <2>1 DEF RecordRevision, Rows
  <2>3. GroupTyped' /\ ClaimsAreDated'
    BY <2>1, <2>2 DEF GroupsInv, GroupTyped, ClaimsAreDated, net
  <2>4. QED BY <2>1, <2>3, Published DEF net
<1>4. QED BY <1>2, <1>3
-----------------------------------------------------------------------------
(* The row written back *)

\* A task that writes the row back as it read it, and with that its revision.
LEMMA WritesBack ==
  ASSUME GroupsInv, NEW t \in Slots, NEW known \in SUBSET People, WriteBack(t, known),
         task[t].at \in WritingBack,
         \/ Quits(t)
         \/ task' = [task EXCEPT ![t].at = "publish", ![t].copy = Nothing],
         UNCHANGED <<net, tabVars, calls, deceived, crossed>>, Failing \/ UNCHANGED groupFaults
  PROVE  GroupsInv'
<1>1. /\ task[t] \in Tasks /\ TaskOK(task[t]) /\ task[t].copy \in Rows
      /\ task[t].copy.rev \in Names /\ task[t].at \notin Publishing
  BY TaskIs DEF TaskOK, WritingBack, Publishing
<1>2. /\ groupRow' \in Rows /\ groupRow'.rev = task[t].copy.rev
      /\ misled' = (published # groupRow'.rev)
  BY <1>1 DEF WriteBack, Rows
<1>3. GroupTyped' /\ ClaimsAreDated' /\ calls <= calls'
  <2>1. groupFaults' \in 0 .. MaxGroupFaults /\ misled' \in BOOLEAN
    BY <1>2, FailedOnce DEF GroupsInv
  <2>2. GroupTyped' /\ calls <= calls'
    BY <1>1, <1>2, <2>1 DEF GroupsInv, GroupTyped, net, tabVars
  <2>3. ClaimsAreDated'
    BY <1>2 DEF GroupsInv, ClaimsAreDated, net, tabVars
  <2>4. QED BY <2>2, <2>3
<1>4. PICK k \in Tasks :
        /\ task' = [task EXCEPT ![t] = k]
        /\ TaskOK(k) /\ Leads(task[t], k) /\ k.at \notin Publishing
  <2> DEFINE r == [task[t] EXCEPT !.at = "publish", !.copy = Nothing]
  <2>1. CASE Quits(t)
    BY <2>1, IdleIs DEF Quits, Leads, Publishing
  <2>2. CASE task' = [task EXCEPT ![t].at = "publish", ![t].copy = Nothing]
    <3>1. "publish" \in Steps
      BY DEF Steps, OtherSteps
    <3>2. r \in Tasks /\ r.at = "publish" /\ r.op = task[t].op /\ r.tag = task[t].tag
          /\ task' = [task EXCEPT ![t] = r]
      BY <1>1, <2>2, <3>1 DEF Tasks, GroupsInv, TasksOK
    <3> HIDE DEF r
    <3>3. TaskOK(r) /\ Leads(task[t], r) /\ r.at \notin Publishing
      BY <1>1, <3>2 DEF TaskOK, Leads, Naming, Publishing, WritingBack, Inviting, Describing
    <3>4. QED BY <3>2, <3>3
  <2>3. QED BY <2>1, <2>2
<1>5. Publishes(t, k)
  BY <1>1, <1>4 DEF Publishes, tabVars, Recording, Publishing, net
<1>6. QED BY <1>3, <1>4, <1>5, OneTask DEF net, tabVars

\* A profile message, the details of the group and an approved requester.
LEMMA WriteBackKeeps ==
  ASSUME GroupsInv, NEW t \in Slots, StoreProfile(t) \/ StoreDetails(t) \/ PersistRequester(t)
  PROVE  GroupsInv'
<1>1. task[t].at \in WritingBack /\ task[t].copy \in Rows /\ task[t].copy.known \in SUBSET People
      /\ members \in SUBSET People
  BY TaskIs DEF StoreProfile, StoreDetails, PersistRequester, TaskAt, WritingBack, TaskOK, Rows,
       GroupsInv, GroupTyped
<1>2. CASE StoreProfile(t)
  <2>1. PICK known \in SUBSET People : WriteBack(t, known) /\ (Failing \/ UNCHANGED groupFaults)
    BY <1>1, <1>2 DEF StoreProfile, People
  <2>2. Quits(t) /\ UNCHANGED <<net, tabVars, calls, deceived, crossed>>
    BY <1>2 DEF StoreProfile
  <2>3. QED BY <1>1, <2>1, <2>2, WritesBack
<1>3. CASE StoreDetails(t)
  BY <1>1, <1>3, WritesBack DEF StoreDetails
<1>4. CASE PersistRequester(t)
  <2>1. task[t].copy.known \cup {Requester} \in SUBSET People
    BY <1>1 DEF People
  <2>2. QED BY <1>1, <1>4, <2>1, WritesBack DEF PersistRequester
<1>5. QED BY <1>2, <1>3, <1>4
-----------------------------------------------------------------------------
(* Join requests and membership *)

\* The request reaches the queue of the shell, or is turned down.
LEMMA RequestKeeps ==
  ASSUME GroupsInv, EnqueueInvite \/ RejectInvite
  PROVE  GroupsInv'
<1>1. /\ UNCHANGED <<published, members, admins, appTag, descTag, foreign, tabVars, groupRow, task,
                     calls, groupFaults, groupHistory>>
      /\ joinRequest' \in {"shown", "closed"}
  BY DEF EnqueueInvite, RejectInvite
<1>2. GroupTyped' /\ ClaimsAreDated' /\ OnePublisher' /\ calls <= calls'
  BY <1>1 DEF GroupsInv, GroupTyped, ClaimsAreDated, OnePublisher, tabVars, groupHistory
<1>3. QED BY <1>1, <1>2, Plain DEF GroupsInv, TasksOK, Leads, tabVars, groupHistory

\* Members that come and go; the admins are among them.
LEMMA MembersKeep ==
  ASSUME GroupsInv, NEW t \in Slots,
         AddRequester(t) \/ AddMember(t) \/ ApplyEdit(t) \/ SendSnapshot(t)
  PROVE  GroupsInv'
<1>1. /\ Unsaid /\ (Failing \/ UNCHANGED groupFaults) /\ task[t].at \notin Publishing
      /\ handled' \in {handled, TRUE} /\ joinRequest' \in {joinRequest, "closed"}
  BY DEF AddRequester, AddMember, ApplyEdit, SendSnapshot, Closes, Unsaid, net, tabVars,
         groupHistory, TaskAt, Publishing
<1>2. members \in SUBSET People /\ admins \in SUBSET members /\ task[t] \in Tasks
      /\ {Requester} \in SUBSET People /\ TaskOK(task[t])
  BY TaskIs DEF GroupsInv, GroupTyped, People
<1>3. members' \in SUBSET People /\ admins' \in SUBSET members'
  <2>1. CASE AddRequester(t) \/ AddMember(t) \/ SendSnapshot(t)
    BY <1>2, <2>1 DEF AddRequester, AddMember, SendSnapshot
  <2>2. CASE ApplyEdit(t)
    <3>1. CASE UNCHANGED <<members, admins>>
      BY <1>2, <3>1
    <3>2. CASE task[t].op = "remove" /\ members' = members \ {Requester}
               /\ admins' = admins \ {Requester}
      BY <1>2, <3>2
    <3>3. CASE admins' = admins \cup (members \cap {Requester}) /\ UNCHANGED members
      BY <1>2, <3>3
    <3>4. CASE admins' = admins \ {Requester} /\ UNCHANGED members
      BY <1>2, <3>4
    <3>5. task[t].op \in Edits \/ UNCHANGED <<members, admins>>
      BY <2>2, <1>2 DEF ApplyEdit, TaskAt, TaskOK, Edits
    <3>6. QED BY <2>2, <3>1, <3>2, <3>3, <3>4, <3>5 DEF ApplyEdit, Edits
  <2>3. QED BY <2>1, <2>2
<1>4. Elsewhere
  BY <1>1, <1>3, FailedOnce DEF Elsewhere, GroupsInv, GroupTyped
<1>5. CASE AddRequester(t) \/ AddMember(t) \/ ApplyEdit(t)
  <2>1. PICK pc \in {"readRequester", "publish", "details"} : GoTask(t, pc) \/ Quits(t)
    BY <1>5 DEF AddRequester, AddMember, ApplyEdit
  <2>2. pc \in (OtherSteps \ {"edit"}) \cup WritingBack /\ pc \notin WritingBack \cup {"mergeStored", "readRow"}
    BY DEF OtherSteps, WritingBack
  <2>3. task[t].copy \in Rows \cup {Nothing}
    BY <1>2 DEF Tasks
  <2>4. QED BY <1>1, <1>4, <2>1, <2>2, <2>3, GoesOn DEF GoTask
<1>6. CASE SendSnapshot(t)
  <2>1. "details" \in (OtherSteps \ {"edit"}) \cup WritingBack /\ "details" \notin WritingBack
    BY DEF OtherSteps, WritingBack
  <2>2. Quits(t) \/ task' = [task EXCEPT ![t].at = "details", ![t].copy = Nothing]
    BY <1>6 DEF SendSnapshot
  <2>3. QED BY <1>1, <1>4, <2>1, <2>2, GoesOn
<1>7. QED BY <1>5, <1>6
-----------------------------------------------------------------------------
(* The tag *)

\* A step of an invitation, or of an edit of the description, that keeps what is said of
\* the tag.
LEMMA TagSteps ==
  ASSUME GroupsInv, NEW t \in Slots, NEW k \in Tasks, task' = [task EXCEPT ![t] = k],
         TaskOK(k)', k.at \notin Publishing, task[t].at \notin Publishing,
         UNCHANGED <<draft, sentName, publisher, published, groupRow, misled, deceived, members,
                     admins, joinRequest, handled, foreign>>,
         Failing \/ UNCHANGED groupFaults, crossed' \in BOOLEAN, calls' \in 0 .. MaxCalls,
         tags' \in Nat, tags <= tags', TagsTyped', TagsAreCounted', TagsAreHeld'
  PROVE  GroupsInv'
<1>1. GroupTyped' /\ ClaimsAreDated'
  BY FailedOnce DEF GroupsInv, GroupTyped, ClaimsAreDated
<1>2. Given \subseteq Given'
  BY DEF Given, GroupsInv, TagsTyped
<1>3. /\ task' \in [Slots -> Tasks] /\ task'[t] = k
      /\ \A u \in Slots \ {t} : task'[u] = task[u]
  BY DEF GroupsInv, TasksOK
<1>4. \A u \in Slots : TaskOK(task[u])'
  <2>1. ASSUME NEW u \in Slots \ {t}
        PROVE  TaskOK(task[u])'
    BY <1>2, <1>3, TaskIs DEF TaskOK
  <2>2. QED BY <1>3, <2>1
<1>5. TasksOK'
  BY <1>3, <1>4 DEF TasksOK
<1>6. OnePublisher'
  BY <1>3 DEF GroupsInv, OnePublisher, Recording, Publishing
<1>7. QED BY <1>1, <1>5, <1>6 DEF GroupsInv

\* The count of the tags, when a task stops looking for one or never looks.
LEMMA StillCounted ==
  ASSUME GroupsInv, NEW t \in Slots, NEW k \in Tasks, task' = [task EXCEPT ![t] = k],
         k.at # "readTag", calls' \in Nat, calls <= calls', tags' \in Nat,
         \/ tags' = tags
         \/ TaskAt(t, "readTag") /\ tags' = tags + 1
  PROVE  TagsAreCounted'
<1>1. IsFiniteSet(Looking) /\ Cardinality(Looking) \in Nat
  BY GroupsAssumption, FS_Subset, FS_CardinalityType DEF Looking
<1>2. Looking' = Looking \ {t}
  BY DEF Looking, TaskAt, GroupsInv, TasksOK
<1>3. /\ Cardinality(Looking') \in Nat /\ Cardinality(Looking') <= Cardinality(Looking)
      /\ TaskAt(t, "readTag") => Cardinality(Looking') = Cardinality(Looking) - 1
  <2>1. TaskAt(t, "readTag") => t \in Looking
    BY DEF Looking
  <2> HIDE DEF Looking
  <2>2. QED BY <1>1, <1>2, <2>1, FS_RemoveElement, FS_Subset, FS_CardinalityType
<1>4. tags \in Nat /\ calls \in Nat /\ tags + Cardinality(Looking) <= calls
  BY DEF GroupsInv, GroupTyped, TagsTyped, TagsAreCounted
<1> HIDE DEF Looking
<1>5. QED BY <1>1, <1>3, <1>4 DEF TagsAreCounted

\* An invitation that begins while nothing of the kind is under way is alone.
LEMMA CreateKeeps ==
  ASSUME GroupsInv, NEW t \in Slots, CreateInvite(t)
  PROVE  GroupsInv'
<1> DEFINE k == [Idle EXCEPT !.op = "invite", !.at = "readTag"]
<1>1. /\ task[t] = Idle /\ calls < MaxCalls /\ calls' = calls + 1 /\ task' = [task EXCEPT ![t] = k]
      /\ crossed' = (crossed \/ Working("invite") \/ Working("describe"))
      /\ UNCHANGED <<net, tabVars, groupRow, groupFaults, misled, deceived>>
  BY DEF CreateInvite, Begin
<1>2. "invite" \in Ops /\ "readTag" \in Steps
  BY DEF Ops, Steps, Inviting
<1>3. k \in Tasks /\ k.op = "invite" /\ k.at = "readTag" /\ k.tag = Nothing
  BY <1>2, IdleIs DEF Idle, Tasks
<1> HIDE DEF k
<1>4. TagsTyped' /\ Given' = Given /\ tags' \in Nat /\ tags <= tags' /\ GroupTag' = GroupTag
      /\ AppTag' = AppTag
  BY <1>1 DEF GroupsInv, TagsTyped, Given, net, tabVars, GroupTag, AppTag
<1>5. TaskOK(k)' /\ k.at \notin Publishing /\ task[t].at \notin Publishing
  BY <1>1, <1>3, IdleIs DEF TaskOK, Naming, Publishing, WritingBack, Inviting, Describing
<1>6. calls' \in 0 .. MaxCalls /\ crossed' \in BOOLEAN
  BY <1>1, GroupsAssumption DEF GroupsInv, GroupTyped
<1>7. TagsAreCounted'
  <2>1. IsFiniteSet(Looking) /\ Cardinality(Looking) \in Nat
    BY GroupsAssumption, FS_Subset, FS_CardinalityType DEF Looking
  <2>2. Looking' = Looking \cup {t}
    BY <1>1, <1>3 DEF Looking, TaskAt, GroupsInv, TasksOK
  <2>3. Cardinality(Looking \cup {t}) \in Nat
        /\ Cardinality(Looking \cup {t}) <= Cardinality(Looking) + 1
    <3> HIDE DEF Looking
    <3>1. Cardinality(Looking \cup {t}) \in {Cardinality(Looking), Cardinality(Looking) + 1}
      BY <2>1, FS_AddElement
    <3>2. QED BY <2>1, <3>1
  <2> HIDE DEF Looking
  <2>4. tags \in Nat /\ calls \in Nat /\ tags + Cardinality(Looking) <= calls /\ tags' = tags
    BY <1>1 DEF GroupsInv, GroupTyped, TagsTyped, TagsAreCounted, tabVars
  <2>5. QED BY <1>1, <2>1, <2>2, <2>3, <2>4 DEF TagsAreCounted
<1>8. TagsAreHeld'
  <2> SUFFICES ASSUME ~crossed'
               PROVE  invites' \subseteq {GroupTag'} /\ InvitesAreAlone'
                      /\ \A u \in Slots : TagIsHeld(u)'
    BY DEF TagsAreHeld
  <2>1. ~crossed /\ \A u \in Slots : task[u].op \notin {"invite", "describe"}
    BY <1>1 DEF Working
  <2>2. invites' \subseteq {GroupTag'}
    BY <1>1, <1>4, <2>1 DEF GroupsInv, TagsAreHeld, tabVars
  <2>3. InvitesAreAlone'
    BY <1>1, <1>3, <2>1 DEF InvitesAreAlone, GroupsInv, TasksOK
  <2>4. ASSUME NEW u \in Slots
        PROVE  TagIsHeld(u)'
    <3>1. TagIsHeld(u)
      BY <2>1 DEF GroupsInv, TagsAreHeld
    <3>2. QED BY <1>1, <1>3, <1>4, <3>1 DEF TagIsHeld, TaskAt, GroupsInv, TasksOK, net
  <2>5. QED BY <2>2, <2>3, <2>4
<1>9. QED BY <1>1, <1>3, <1>4, <1>5, <1>6, <1>7, <1>8, TagSteps DEF net, tabVars

\* An edit of the description that begins while no invitation is under way.
LEMMA UpdateKeeps ==
  ASSUME GroupsInv, NEW t \in Slots, UpdateMetadata(t)
  PROVE  GroupsInv'
<1> DEFINE k == [Idle EXCEPT !.op = "describe", !.at = "name"]
<1>1. /\ task[t] = Idle /\ calls < MaxCalls /\ calls' = calls + 1 /\ task' = [task EXCEPT ![t] = k]
      /\ crossed' = (crossed \/ Working("invite"))
      /\ UNCHANGED <<net, tabVars, groupRow, groupFaults, misled, deceived>>
  BY DEF UpdateMetadata, Begin
<1>2. "describe" \in Ops /\ "name" \in Steps
  BY DEF Ops, Steps, Describing
<1>3. k \in Tasks /\ k.op = "describe" /\ k.at = "name" /\ k.tag = Nothing
  BY <1>2, IdleIs DEF Idle, Tasks
<1> HIDE DEF k
<1>4. TagsTyped' /\ Given' = Given /\ tags' = tags /\ tags' \in Nat /\ tags <= tags'
      /\ GroupTag' = GroupTag /\ AppTag' = AppTag
  BY <1>1 DEF GroupsInv, TagsTyped, Given, net, tabVars, GroupTag, AppTag
<1>5. TaskOK(k)' /\ k.at \notin Publishing /\ task[t].at \notin Publishing
  BY <1>1, <1>3, IdleIs DEF TaskOK, Naming, Publishing, WritingBack, Inviting, Describing
<1>6. calls' \in 0 .. MaxCalls /\ crossed' \in BOOLEAN /\ calls <= calls' /\ calls' \in Nat
  BY <1>1, GroupsAssumption DEF GroupsInv, GroupTyped
<1>7. TagsAreCounted'
  BY <1>1, <1>3, <1>4, <1>6, StillCounted
<1>8. TagsAreHeld'
  <2> SUFFICES ASSUME ~crossed'
               PROVE  invites' \subseteq {GroupTag'} /\ InvitesAreAlone'
                      /\ \A u \in Slots : TagIsHeld(u)'
    BY DEF TagsAreHeld
  <2>1. ~crossed /\ \A u \in Slots : task[u].op # "invite"
    BY <1>1 DEF Working
  <2>2. invites' \subseteq {GroupTag'}
    BY <1>1, <1>4, <2>1 DEF GroupsInv, TagsAreHeld, tabVars
  <2>3. InvitesAreAlone'
    BY <1>1, <1>3, <2>1 DEF InvitesAreAlone, GroupsInv, TasksOK
  <2>4. ASSUME NEW u \in Slots
        PROVE  TagIsHeld(u)'
    <3>1. TagIsHeld(u)
      BY <2>1 DEF GroupsInv, TagsAreHeld
    <3>2. QED BY <1>1, <1>3, <1>4, <3>1 DEF TagIsHeld, TaskAt, GroupsInv, TasksOK, net
  <2>5. QED BY <2>2, <2>3, <2>4
<1>9. QED BY <1>1, <1>3, <1>4, <1>5, <1>6, <1>7, <1>8, TagSteps DEF net, tabVars
\* An edit that fails or an invitation that fails ends, and says nothing of the tag.
LEMMA FailuresKeep ==
  ASSUME GroupsInv, NEW t \in Slots, Quits(t), task[t].at \notin Publishing, Failing,
         UNCHANGED <<net, tabVars, groupRow, calls, groupHistory>>
  PROVE  GroupsInv'
<1>1. Unsaid /\ UNCHANGED <<members, admins, handled, joinRequest>>
  BY DEF Unsaid, net, tabVars, groupHistory
<1>2. Elsewhere
  BY <1>1, StaysElsewhere
<1>3. Idle \in Tasks /\ TaskOK(Idle) /\ Leads(task[t], Idle) /\ Idle.at \notin Publishing
  BY IdleIs DEF Leads, Publishing
<1>4. QED BY <1>1, <1>2, <1>3, Moves DEF Quits

\* An invitation stays alone when it goes on or ends, and so does an edit.
LEMMA StaysAlone ==
  ASSUME GroupsInv, NEW t \in Slots, NEW k \in Tasks, task' = [task EXCEPT ![t] = k],
         k.op \in {task[t].op, "idle"} \/ k.op \notin {"invite", "describe"}
  PROVE  InvitesAreAlone => InvitesAreAlone'
BY DEF InvitesAreAlone, GroupsInv, TasksOK

\* The tasks besides an invitation neither invite nor edit the description.
LEMMA OthersAreIdle ==
  ASSUME GroupsInv, InvitesAreAlone, NEW t \in Slots, task[t].op = "invite",
         NEW u \in Slots \ {t}
  PROVE  task[u].at \notin {"writeTag", "checkMembers", "describe"}
BY TaskIs DEF InvitesAreAlone, TaskOK, Inviting, Describing

\* An invitation finds the tag of the group, or generates one.
LEMMA ReadTagKeeps ==
  ASSUME GroupsInv, NEW t \in Slots, ReadTag(t)
  PROVE  GroupsInv'
<1>1. /\ task[t] \in Tasks /\ TaskOK(task[t]) /\ TaskAt(t, "readTag") /\ task[t].op = "invite"
      /\ task[t].at \notin Publishing
  BY TaskIs DEF ReadTag, TaskAt, TaskOK, Inviting, Publishing
<1>2. /\ UNCHANGED <<net, draft, sentName, publisher, handled, invites, groupRow, calls,
                     groupFaults, groupHistory>>
      /\ GroupTag' = GroupTag /\ AppTag' = AppTag
  BY DEF ReadTag, net, GroupTag, AppTag
<1>3. /\ tags \in Nat /\ GroupTag \in Given \cup {Nothing} /\ calls \in 0 .. MaxCalls /\ calls \in Nat
      /\ crossed \in BOOLEAN
  BY DEF GroupsInv, TagsTyped, GroupTag, AppTag, GroupTyped
<1>4. PICK tag \in Given', pc \in {"checkMembers", "writeTag"} :
        /\ task' = [task EXCEPT ![t].at = pc, ![t].tag = tag]
        /\ tags' \in Nat /\ tags' \in {tags, tags + 1}
        /\ pc = "checkMembers" => tag = GroupTag
        /\ pc = "writeTag" => GroupTag = Nothing
  <2>1. CASE GroupTag # Nothing
    BY <1>3, <2>1 DEF ReadTag, Given
  <2>2. CASE GroupTag = Nothing
    BY <1>3, <2>2 DEF ReadTag, Given
  <2>3. QED BY <2>1, <2>2
<1>5. pc \in Steps /\ tag \in Nat
  BY <1>4 DEF Steps, Inviting, Given
<1>6. PICK k \in Tasks :
        /\ k.op = task[t].op /\ k.at = pc /\ k.tag = tag
        /\ task' = [task EXCEPT ![t] = k]
  <2> DEFINE r == [task[t] EXCEPT !.at = pc, !.tag = tag]
  <2>1. r \in Tasks /\ r.op = task[t].op /\ r.at = pc /\ r.tag = tag
    BY <1>1, <1>5 DEF Tasks
  <2>2. task' = [task EXCEPT ![t] = r]
    BY <1>1, <1>4 DEF Tasks, GroupsInv, TasksOK
  <2> HIDE DEF r
  <2>3. QED BY <2>1, <2>2
<1>7. TaskOK(k)' /\ k.at \notin Publishing
  BY <1>1, <1>6 DEF TaskOK, Naming, Publishing, WritingBack, Inviting, Describing
<1>8. TagsTyped' /\ tags <= tags' /\ Given \subseteq Given'
  BY <1>2, <1>3, <1>4 DEF GroupsInv, TagsTyped, Given, net
<1>9. TagsAreCounted'
  <2>1. k.at # "readTag" /\ calls' \in Nat /\ calls <= calls' /\ tags' \in Nat
    BY <1>2, <1>3, <1>4, <1>6
  <2>2. tags' = tags \/ (TaskAt(t, "readTag") /\ tags' = tags + 1)
    BY <1>1, <1>4
  <2>3. QED BY <1>6, <2>1, <2>2, StillCounted
<1>10. TagsAreHeld'
  <2> SUFFICES ASSUME ~crossed'
               PROVE  invites' \subseteq {GroupTag'} /\ InvitesAreAlone'
                      /\ \A u \in Slots : TagIsHeld(u)'
    BY DEF TagsAreHeld
  <2>1. ~crossed /\ InvitesAreAlone /\ invites \subseteq {GroupTag}
    BY <1>2 DEF GroupsInv, TagsAreHeld, groupHistory
  <2>2. InvitesAreAlone'
    BY <1>1, <1>6, <2>1, StaysAlone
  <2>3. ASSUME NEW u \in Slots
        PROVE  TagIsHeld(u)'
    <3>1. CASE u = t
      BY <1>1, <1>2, <1>4, <1>6, <3>1 DEF TagIsHeld, TaskAt, GroupsInv, TasksOK
    <3>2. CASE u # t
      <4>1. task'[u] = task[u]
        BY <1>6, <3>2 DEF GroupsInv, TasksOK
      <4>2. QED BY <1>1, <2>1, <3>2, <4>1, OthersAreIdle DEF TagIsHeld, TaskAt
    <3>3. QED BY <3>1, <3>2
  <2>4. QED BY <1>2, <2>1, <2>2, <2>3
<1>11. QED
  BY <1>1, <1>2, <1>3, <1>4, <1>6, <1>7, <1>8, <1>9, <1>10, TagSteps DEF net, groupHistory
\* A tag that is not in the group yet is written; nobody else looks at it meanwhile.
LEMMA WriteTagKeeps ==
  ASSUME GroupsInv, NEW t \in Slots, WriteTag(t)
  PROVE  GroupsInv'
<1>1. /\ task[t] \in Tasks /\ TaskOK(task[t]) /\ task[t].at = "writeTag" /\ task[t].op = "invite"
      /\ task[t].at \notin Publishing /\ task[t].tag \in Given
  BY TaskIs DEF WriteTag, TaskAt, TaskOK, Inviting, Publishing
<1>2. CASE Failing /\ Quits(t) /\ UNCHANGED <<appTag, descTag>>
  BY <1>1, <1>2, FailuresKeep DEF WriteTag, net
<1>3. CASE /\ IF foreign THEN descTag' = task[t].tag /\ UNCHANGED appTag
                         ELSE appTag' = task[t].tag /\ UNCHANGED descTag
           /\ GoTask(t, "checkMembers")
           /\ UNCHANGED groupFaults
  <2>1. /\ UNCHANGED <<published, members, admins, foreign, joinRequest, tabVars, groupRow, calls,
                       groupHistory, groupFaults>>
        /\ tags \in Nat /\ calls \in 0 .. MaxCalls /\ calls \in Nat /\ crossed \in BOOLEAN
        /\ Given' = Given
    BY <1>3 DEF WriteTag, GroupsInv, TagsTyped, GroupTyped, Given, tabVars
  <2>2. PICK k \in Tasks :
          /\ k.op = "invite" /\ k.at = "checkMembers" /\ k.tag = task[t].tag
          /\ task' = [task EXCEPT ![t] = k]
    <3> DEFINE r == [task[t] EXCEPT !.at = "checkMembers"]
    <3>1. "checkMembers" \in Steps
      BY DEF Steps, Inviting
    <3>2. r \in Tasks /\ r.op = "invite" /\ r.at = "checkMembers" /\ r.tag = task[t].tag
      BY <1>1, <3>1 DEF Tasks
    <3>3. task' = [task EXCEPT ![t] = r]
      BY <1>1, <1>3 DEF GoTask, Tasks, GroupsInv, TasksOK
    <3> HIDE DEF r
    <3>4. QED BY <3>2, <3>3
  <2>3. TaskOK(k)' /\ k.at \notin Publishing
    BY <1>1, <2>1, <2>2 DEF TaskOK, Naming, Publishing, WritingBack, Inviting, Describing
  <2>4. TagsTyped'
    BY <1>1, <1>3, <2>1 DEF GroupsInv, TagsTyped, tabVars
  <2>5. TagsAreCounted'
    <3>1. tags' = tags /\ tags' \in Nat /\ calls' \in Nat /\ calls <= calls' /\ k.at # "readTag"
      BY <2>1, <2>2 DEF tabVars
    <3>2. QED BY <2>2, <3>1, StillCounted
  <2>6. TagsAreHeld'
    <3> SUFFICES ASSUME ~crossed'
                 PROVE  invites' \subseteq {GroupTag'} /\ InvitesAreAlone'
                        /\ \A u \in Slots : TagIsHeld(u)'
      BY DEF TagsAreHeld
    <3>1. ~crossed /\ InvitesAreAlone /\ invites \subseteq {GroupTag} /\ GroupTag = Nothing
      BY <1>1, <2>1 DEF GroupsInv, TagsAreHeld, groupHistory, TagIsHeld, TaskAt
    <3>2. invites' = {}
      BY <2>1, <3>1, GroupsAssumption DEF GroupsInv, TagsTyped, Given, tabVars
    <3>3. GroupTag' = task[t].tag
      <4>1. task[t].tag # Nothing
        BY <1>1, GroupsAssumption DEF Given
      <4>2. QED BY <1>3, <2>1, <3>1, <4>1 DEF GroupTag, AppTag
    <3>4. InvitesAreAlone'
      BY <1>1, <2>2, <3>1, StaysAlone
    <3>5. ASSUME NEW u \in Slots
          PROVE  TagIsHeld(u)'
      <4>1. CASE u = t
        BY <2>2, <3>3, <4>1 DEF TagIsHeld, TaskAt, GroupsInv, TasksOK
      <4>2. CASE u # t
        <5>1. task'[u] = task[u]
          BY <2>2, <4>2 DEF GroupsInv, TasksOK
        <5>2. QED BY <1>1, <3>1, <4>2, <5>1, OthersAreIdle DEF TagIsHeld, TaskAt
      <4>3. QED BY <4>1, <4>2
    <3>6. QED BY <3>2, <3>4, <3>5
  <2>7. /\ UNCHANGED <<draft, sentName, publisher, published, groupRow, misled, deceived, members,
                       admins, joinRequest, handled, foreign, crossed, calls, tags>>
        /\ tags <= tags'
    BY <2>1 DEF tabVars, groupHistory
  <2>8. QED BY <1>1, <1>3, <2>1, <2>2, <2>3, <2>4, <2>5, <2>6, <2>7, TagSteps
<1>4. QED BY <1>2, <1>3 DEF WriteTag

\* The invite handed out carries the tag of the group.
LEMMA HandOutKeeps ==
  ASSUME GroupsInv, NEW t \in Slots, HandOutInvite(t)
  PROVE  GroupsInv'
<1>1. /\ task[t] \in Tasks /\ TaskOK(task[t]) /\ task[t].at = "checkMembers"
      /\ task[t].op = "invite" /\ task[t].at \notin Publishing /\ task[t].tag \in Given
      /\ task' = [task EXCEPT ![t] = Idle]
      /\ UNCHANGED <<net, draft, sentName, publisher, handled, tags, groupRow, calls, groupHistory>>
  BY TaskIs DEF HandOutInvite, TaskAt, TaskOK, Inviting, Publishing, Quits
<1>2. CASE Failing /\ UNCHANGED invites
  BY <1>1, <1>2, FailuresKeep DEF HandOutInvite, tabVars
<1>3. CASE invites' = invites \cup {task[t].tag} /\ UNCHANGED groupFaults
  <2>1. /\ tags \in Nat /\ calls \in 0 .. MaxCalls /\ calls \in Nat /\ crossed \in BOOLEAN
        /\ Given' = Given /\ GroupTag' = GroupTag /\ AppTag' = AppTag
    BY <1>1 DEF GroupsInv, TagsTyped, GroupTyped, Given, net, GroupTag, AppTag
  <2>2. TaskOK(Idle)' /\ Idle.at \notin Publishing
    BY IdleIs DEF Publishing, TaskOK, Idle, Naming, WritingBack, Inviting, Describing
  <2>3. TagsTyped'
    BY <1>1, <1>3, <2>1 DEF GroupsInv, TagsTyped, net
  <2>4. TagsAreCounted'
    <3>1. tags' = tags /\ tags' \in Nat /\ calls' \in Nat /\ calls <= calls' /\ Idle.at # "readTag"
      BY <1>1, <2>1, IdleIs
    <3>2. QED BY <1>1, <3>1, IdleIs, StillCounted
  <2>5. TagsAreHeld'
    <3> SUFFICES ASSUME ~crossed'
                 PROVE  invites' \subseteq {GroupTag'} /\ InvitesAreAlone'
                        /\ \A u \in Slots : TagIsHeld(u)'
      BY DEF TagsAreHeld
    <3>1. /\ ~crossed /\ InvitesAreAlone /\ invites \subseteq {GroupTag}
          /\ task[t].tag = GroupTag /\ \A u \in Slots : TagIsHeld(u)
      BY <1>1 DEF GroupsInv, TagsAreHeld, groupHistory, TagIsHeld, TaskAt
    <3>2. InvitesAreAlone'
      BY <1>1, <3>1, IdleIs, StaysAlone
    <3>3. ASSUME NEW u \in Slots
          PROVE  TagIsHeld(u)'
      BY <1>1, <2>1, <3>1, IdleIs DEF TagIsHeld, TaskAt, GroupsInv, TasksOK, net
    <3>4. QED BY <1>3, <2>1, <3>1, <3>2, <3>3
  <2>6. /\ UNCHANGED <<draft, sentName, publisher, published, groupRow, misled, deceived, members,
                       admins, joinRequest, handled, foreign, crossed, calls, tags>>
        /\ tags <= tags'
    BY <1>1, <2>1 DEF net, groupHistory
  <2>7. QED BY <1>1, <1>3, <2>1, <2>2, <2>3, <2>4, <2>5, <2>6, IdleIs, TagSteps
<1>4. QED BY <1>2, <1>3 DEF HandOutInvite
\* The name and the image come before the description.
LEMMA RenameKeeps ==
  ASSUME GroupsInv, NEW t \in Slots, RenameGroup(t)
  PROVE  GroupsInv'
<1>1. /\ task[t] \in Tasks /\ TaskOK(task[t]) /\ task[t].at = "name" /\ task[t].op = "describe"
      /\ task[t].at \notin Publishing
      /\ UNCHANGED <<net, tabVars, groupRow, calls, groupHistory>>
  BY TaskIs DEF RenameGroup, TaskAt, TaskOK, Describing, Publishing
<1>2. CASE Failing /\ Quits(t)
  BY <1>1, <1>2, FailuresKeep
<1>3. CASE GoTask(t, "keepTag") /\ UNCHANGED groupFaults
  <2> DEFINE r == [task[t] EXCEPT !.at = "keepTag"]
  <2>1. "keepTag" \in Steps
    BY DEF Steps, Describing
  <2>2. /\ r \in Tasks /\ r.op = "describe" /\ r.at = "keepTag" /\ r.tag = task[t].tag
        /\ task' = [task EXCEPT ![t] = r]
    BY <1>1, <1>3, <2>1 DEF GoTask, Tasks, GroupsInv, TasksOK
  <2> HIDE DEF r
  <2>3. TaskOK(r) /\ Leads(task[t], r) /\ r.at \notin Publishing
    BY <1>1, <2>2 DEF TaskOK, Leads, Naming, Publishing, WritingBack, Inviting, Describing
  <2>4. Unsaid /\ UNCHANGED <<members, admins, handled, joinRequest>>
    BY <1>1 DEF Unsaid, net, tabVars, groupHistory
  <2>5. Elsewhere
    BY <1>3, <2>4, StaysElsewhere
  <2>6. QED BY <1>1, <2>2, <2>3, <2>4, <2>5, Moves
<1>4. QED BY <1>2, <1>3 DEF RenameGroup

\* The tag the new description will carry is the legacy tag the group has.
LEMMA KeepTagKeeps ==
  ASSUME GroupsInv, NEW t \in Slots, KeepTag(t)
  PROVE  GroupsInv'
<1>1. /\ task[t] \in Tasks /\ TaskOK(task[t]) /\ task[t].at = "keepTag"
      /\ task[t].op = "describe" /\ task[t].at \notin Publishing
      /\ UNCHANGED <<net, tabVars, groupRow, calls, groupFaults, groupHistory>>
  BY TaskIs DEF KeepTag, TaskAt, TaskOK, Describing, Publishing
<1>2. /\ tags \in Nat /\ calls \in 0 .. MaxCalls /\ calls \in Nat /\ crossed \in BOOLEAN
      /\ Given' = Given /\ GroupTag' = GroupTag /\ AppTag' = AppTag
      /\ KeptTag \in Given \cup {Nothing} /\ KeptTag \in Nat \cup {Nothing}
  BY <1>1 DEF GroupsInv, TagsTyped, GroupTyped, Given, net, tabVars, GroupTag, AppTag, KeptTag
<1>3. PICK k \in Tasks :
        /\ k.op = "describe" /\ k.at = "describe" /\ k.tag = KeptTag
        /\ task' = [task EXCEPT ![t] = k]
  <2> DEFINE r == [task[t] EXCEPT !.at = "describe", !.tag = KeptTag]
  <2>1. "describe" \in Steps
    BY DEF Steps, Describing
  <2>2. r \in Tasks /\ r.op = "describe" /\ r.at = "describe" /\ r.tag = KeptTag
    BY <1>1, <1>2, <2>1 DEF Tasks
  <2>3. task' = [task EXCEPT ![t] = r]
    BY <1>1 DEF KeepTag, Tasks, GroupsInv, TasksOK
  <2> HIDE DEF r
  <2>4. QED BY <2>2, <2>3
<1>4. TaskOK(k)' /\ k.at \notin Publishing
  BY <1>2, <1>3 DEF TaskOK, Naming, Publishing, WritingBack, Inviting, Describing
<1>5. TagsTyped'
  BY <1>1, <1>2 DEF GroupsInv, TagsTyped, net, tabVars
<1>6. TagsAreCounted'
  <2>1. tags' = tags /\ tags' \in Nat /\ calls' \in Nat /\ calls <= calls' /\ k.at # "readTag"
    BY <1>1, <1>2, <1>3 DEF tabVars
  <2>2. QED BY <1>3, <2>1, StillCounted
<1>7. TagsAreHeld'
  <2> SUFFICES ASSUME ~crossed'
               PROVE  invites' \subseteq {GroupTag'} /\ InvitesAreAlone'
                      /\ \A u \in Slots : TagIsHeld(u)'
    BY DEF TagsAreHeld
  <2>1. /\ InvitesAreAlone /\ invites \subseteq {GroupTag} /\ \A u \in Slots : TagIsHeld(u)
    BY <1>1 DEF GroupsInv, TagsAreHeld, groupHistory
  <2>2. InvitesAreAlone'
    BY <1>1, <1>3, <2>1, StaysAlone
  <2>3. ASSUME NEW u \in Slots
        PROVE  TagIsHeld(u)'
    <3>1. CASE u = t
      <4>1. task'[u] = k /\ (AppTag' = Nothing => KeptTag = descTag')
        BY <1>1, <1>2, <1>3, <3>1 DEF GroupsInv, TasksOK, KeptTag, net
      <4>2. QED BY <1>3, <4>1 DEF TagIsHeld, TaskAt
    <3>2. CASE u # t
      <4>1. task'[u] = task[u] /\ descTag' = descTag
        BY <1>1, <1>3, <3>2 DEF GroupsInv, TasksOK, net
      <4>2. QED BY <1>2, <2>1, <4>1 DEF TagIsHeld, TaskAt
    <3>3. QED BY <3>1, <3>2
  <2>4. QED BY <1>1, <1>2, <2>1, <2>2, <2>3 DEF tabVars
<1>8. /\ UNCHANGED <<draft, sentName, publisher, published, groupRow, misled, deceived, members,
                     admins, joinRequest, handled, foreign, crossed, calls, tags>>
      /\ tags <= tags'
  BY <1>1, <1>2 DEF net, tabVars, groupHistory
<1>9. QED BY <1>1, <1>2, <1>3, <1>4, <1>5, <1>6, <1>7, <1>8, TagSteps

\* The description is replaced, and the tag in it is the one that was there.
LEMMA DescribeKeeps ==
  ASSUME GroupsInv, NEW t \in Slots, DescribeGroup(t)
  PROVE  GroupsInv'
<1>1. /\ task[t] \in Tasks /\ TaskOK(task[t]) /\ task[t].at = "describe"
      /\ task[t].op = "describe" /\ task[t].at \notin Publishing
      /\ UNCHANGED <<published, members, admins, appTag, foreign, joinRequest, tabVars, groupRow,
                     calls, groupHistory>>
  BY TaskIs DEF DescribeGroup, TaskAt, TaskOK, Describing, Publishing
<1>2. CASE Failing /\ Quits(t) /\ UNCHANGED descTag
  BY <1>1, <1>2, FailuresKeep DEF net
<1>3. CASE /\ descTag' = task[t].tag
           /\ task' = [task EXCEPT ![t].at = "details", ![t].tag = Nothing]
           /\ UNCHANGED groupFaults
  <2>1. /\ tags \in Nat /\ calls \in 0 .. MaxCalls /\ calls \in Nat /\ crossed \in BOOLEAN
        /\ Given' = Given /\ AppTag' = AppTag /\ task[t].tag \in Given \cup {Nothing}
    BY <1>1 DEF GroupsInv, TagsTyped, GroupTyped, Given, tabVars, AppTag, TaskOK
  <2>2. PICK k \in Tasks :
          /\ k.op = "describe" /\ k.at = "details" /\ k.tag = Nothing
          /\ task' = [task EXCEPT ![t] = k]
    <3> DEFINE r == [task[t] EXCEPT !.at = "details", !.tag = Nothing]
    <3>1. "details" \in Steps
      BY DEF Steps, OtherSteps
    <3>2. r \in Tasks /\ r.op = "describe" /\ r.at = "details" /\ r.tag = Nothing
      BY <1>1, <3>1 DEF Tasks
    <3>3. task' = [task EXCEPT ![t] = r]
      BY <1>1, <1>3 DEF Tasks, GroupsInv, TasksOK
    <3> HIDE DEF r
    <3>4. QED BY <3>2, <3>3
  <2>3. TaskOK(k)' /\ k.at \notin Publishing
    BY <2>2 DEF TaskOK, Naming, Publishing, WritingBack, Inviting, Describing
  <2>4. TagsTyped'
    BY <1>1, <1>3, <2>1 DEF GroupsInv, TagsTyped, tabVars
  <2>5. TagsAreCounted'
    <3>1. tags' = tags /\ tags' \in Nat /\ calls' \in Nat /\ calls <= calls' /\ k.at # "readTag"
      BY <1>1, <2>1, <2>2 DEF tabVars
    <3>2. QED BY <2>2, <3>1, StillCounted
  <2>6. TagsAreHeld'
    <3> SUFFICES ASSUME ~crossed'
                 PROVE  invites' \subseteq {GroupTag'} /\ InvitesAreAlone'
                        /\ \A u \in Slots : TagIsHeld(u)'
      BY DEF TagsAreHeld
    <3>1. /\ InvitesAreAlone /\ invites \subseteq {GroupTag} /\ \A u \in Slots : TagIsHeld(u)
      BY <1>1 DEF GroupsInv, TagsAreHeld, groupHistory
    <3>2. AppTag = Nothing => descTag' = descTag
      BY <1>1, <1>3, <3>1 DEF TagIsHeld, TaskAt
    <3>3. GroupTag' = GroupTag
      BY <2>1, <3>2 DEF GroupTag
    <3>4. InvitesAreAlone'
      BY <1>1, <2>2, <3>1, StaysAlone
    <3>5. ASSUME NEW u \in Slots
          PROVE  TagIsHeld(u)'
      <4>1. CASE u = t
        <5>1. task'[u] = k
          BY <2>2, <4>1 DEF GroupsInv, TasksOK
        <5>2. QED BY <2>2, <5>1 DEF TagIsHeld, TaskAt
      <4>2. CASE u # t
        <5>1. task'[u] = task[u]
          BY <2>2, <4>2 DEF GroupsInv, TasksOK
        <5>2. QED BY <2>1, <3>1, <3>2, <3>3, <5>1 DEF TagIsHeld, TaskAt
      <4>3. QED BY <4>1, <4>2
    <3>6. QED BY <1>1, <3>1, <3>3, <3>4, <3>5 DEF tabVars
  <2>7. /\ UNCHANGED <<draft, sentName, publisher, published, groupRow, misled, deceived, members,
                       admins, joinRequest, handled, foreign, crossed, calls, tags>>
        /\ tags <= tags'
    BY <1>1, <2>1 DEF tabVars, groupHistory
  <2>8. QED BY <1>1, <1>3, <2>1, <2>2, <2>3, <2>4, <2>5, <2>6, <2>7, TagSteps
<1>4. QED BY <1>2, <1>3 DEF DescribeGroup
-----------------------------------------------------------------------------
(* The invariant and what follows from it *)

\* The group is what the opened conversation says, and no call is at work.
LEMMA GroupsInit == ConvosInit => GroupsInv
<1> SUFFICES ASSUME ConvosInit
             PROVE  GroupsInv
  OBVIOUS
<1>1. \A t \in Slots : task[t] = Idle
  BY DEF ConvosInit
<1>2. GroupTyped
  <2>1. groupRow \in Rows /\ groupRow.rev \in Names
    BY DEF ConvosInit, Rows
  <2>2. members \in SUBSET People /\ admins \in SUBSET members
    BY DEF ConvosInit, People
  <2>3. calls \in 0 .. MaxCalls /\ groupFaults \in 0 .. MaxGroupFaults
    BY GroupsAssumption DEF ConvosInit
  <2>4. /\ draft \in Names /\ published \in Names /\ sentName \in Names \cup {Nothing}
        /\ foreign \in BOOLEAN /\ handled \in BOOLEAN /\ joinRequest \in {"none", "shown", "closed"}
        /\ misled \in BOOLEAN /\ deceived \in BOOLEAN /\ crossed \in BOOLEAN
    BY DEF ConvosInit
  <2>5. QED BY <2>1, <2>2, <2>3, <2>4 DEF GroupTyped
<1>3. TagsTyped
  BY DEF ConvosInit, TagsTyped, Given
<1>4. TasksOK
  BY <1>1, IdleIs DEF ConvosInit, TasksOK
<1>5. TagsAreCounted
  <2>1. Looking = {}
    BY <1>1, IdleIs DEF Looking, TaskAt
  <2>2. Cardinality(Looking) = 0
    BY <2>1, FS_EmptySet
  <2> HIDE DEF Looking
  <2>3. QED BY <2>2 DEF TagsAreCounted, ConvosInit
<1>6. OnePublisher
  BY <1>1, IdleIs, GroupsAssumption DEF OnePublisher, Publishing, Recording, ConvosInit
<1>7. ClaimsAreDated
  BY DEF ConvosInit, ClaimsAreDated
<1>8. TagsAreHeld
  BY <1>1, IdleIs DEF TagsAreHeld, InvitesAreAlone, TagIsHeld, TaskAt, ConvosInit
<1>9. QED BY <1>2, <1>3, <1>4, <1>5, <1>6, <1>7, <1>8 DEF GroupsInv

\* Nothing happens to the group.
LEMMA GroupsStutter ==
  ASSUME GroupsInv, UNCHANGED groupVars
  PROVE  GroupsInv'
<1>1. /\ UNCHANGED <<published, members, admins, appTag, descTag, foreign, joinRequest, draft,
                     sentName, publisher, handled, tags, invites, misled, deceived, crossed,
                     groupRow, task, calls, groupFaults>>
  BY DEF groupVars, net, tabVars, groupHistory
<1>2. GroupTyped' /\ ClaimsAreDated' /\ OnePublisher' /\ calls <= calls'
  BY <1>1 DEF GroupsInv, GroupTyped, ClaimsAreDated, OnePublisher
<1>3. QED BY <1>1, <1>2, Plain DEF GroupsInv, TasksOK, Leads

\* Each step of each call keeps it.
LEMMA GroupsNext == GroupsInv /\ [ConvosNext]_groupVars => GroupsInv'
<1> SUFFICES ASSUME GroupsInv, [ConvosNext]_groupVars
             PROVE  GroupsInv'
  OBVIOUS
<1>1. CASE EnqueueInvite \/ RejectInvite
  BY <1>1, RequestKeeps
<1>2. ASSUME NEW t \in Slots, ConvosStep(t)
      PROVE  GroupsInv'
  <2>1. CASE SaveProfile(t) \/ ActivateGroup(t) \/ ReceiveProfile(t) \/ RefreshDetails(t)
             \/ ApproveInvite(t) \/ AddMembers(t) \/ EditMembers(t)
    BY <2>1, BeginningsKeep
  <2>2. CASE SaveSelfDm(t) \/ VerifyInvite(t) \/ ResolveGroup(t) \/ CheckRequester(t)
             \/ ReadForProfile(t) \/ ReadForRequester(t) \/ BuildDetails(t) \/ MergeStored(t)
             \/ ReadForDetails(t)
    BY <2>2, WaitingKeeps
  <2>3. CASE EnsurePublished(t) \/ CompareStoredRevision(t) \/ SendProfileUpdate(t)
             \/ ReadForRevision(t) \/ RecordRevision(t)
    BY <2>3, EnsureKeeps, CompareKeeps, SendKeeps, RecordKeeps
  <2>4. CASE StoreProfile(t) \/ StoreDetails(t) \/ PersistRequester(t)
    BY <2>4, WriteBackKeeps
  <2>5. CASE AddRequester(t) \/ AddMember(t) \/ ApplyEdit(t) \/ SendSnapshot(t)
    BY <2>5, MembersKeep
  <2>6. CASE CreateInvite(t) \/ ReadTag(t) \/ WriteTag(t) \/ HandOutInvite(t)
    BY <2>6, CreateKeeps, ReadTagKeeps, WriteTagKeeps, HandOutKeeps
  <2>7. CASE UpdateMetadata(t) \/ RenameGroup(t) \/ KeepTag(t) \/ DescribeGroup(t)
    BY <2>7, UpdateKeeps, RenameKeeps, KeepTagKeeps, DescribeKeeps
  <2>8. QED BY <1>2, <2>1, <2>2, <2>3, <2>4, <2>5, <2>6, <2>7 DEF ConvosStep
<1>3. CASE UNCHANGED groupVars
  BY <1>3, GroupsStutter
<1>4. QED BY <1>1, <1>2, <1>3 DEF ConvosNext

\* One task publishes, the claims are dated, and an invitation that nothing crosses holds the
\* tag of the group: the inductive invariant of the group and of the calls at work on it.
THEOREM GroupsInvariance == ConvosSpec => []GroupsInv
BY GroupsInit, GroupsNext, PTL DEF ConvosSpec

\* The types: a publication belongs to a call at one of its four steps, only calls that hold
\* a copy of the row write it, the admins are members, and a tag is only ever one that was
\* generated.
THEOREM GroupsTypeCorrect == ConvosSpec => []ConvosTypeOK
<1>1. GroupsInv => ConvosTypeOK
  <2> SUFFICES ASSUME GroupsInv
               PROVE  ConvosTypeOK
    OBVIOUS
  <2>1. tags \in 0 .. MaxCalls
    <3>1. IsFiniteSet(Looking)
      BY GroupsAssumption, FS_Subset DEF Looking
    <3>2. Cardinality(Looking) \in Nat
      <4> HIDE DEF Looking
      <4>1. QED BY <3>1, FS_CardinalityType
    <3> HIDE DEF Looking
    <3>3. QED BY <3>2, GroupsAssumption DEF GroupsInv, TagsAreCounted, TagsTyped, GroupTyped
  <2>2. GroupTyped /\ TagsTyped /\ groupRow.rev # Nothing
    BY GroupsAssumption DEF GroupsInv, GroupTyped
  <2>3. publisher \in Slots \cup {Nothing}
        /\ (publisher # Nothing => task[publisher].at \in Publishing)
    BY DEF GroupsInv, OnePublisher
  <2>4. ASSUME NEW t \in Slots
        PROVE  task[t] \in [op : Ops \cup {"idle"}, at : Awaits, name : Names \cup {Nothing},
                            copy : Rows \cup {Nothing}, tag : (1 .. MaxCalls) \cup {Nothing}]
    <3>1. task[t] \in Tasks /\ task[t].tag \in Given \cup {Nothing}
      BY TaskIs DEF TaskOK
    <3>2. Given \subseteq 1 .. MaxCalls
      BY <2>1, GroupsAssumption DEF Given
    <3>3. Steps \subseteq Awaits
      BY DEF Awaits, Steps, Naming, Publishing, Inviting, Describing, WritingBack, OtherSteps
    <3>4. Tasks = [op : Ops \cup {"idle"}, at : Steps, name : Names \cup {Nothing},
                   copy : Rows \cup {Nothing}, tag : Nat \cup {Nothing}]
      BY DEF Tasks
    <3>5. task[t].tag \in (1 .. MaxCalls) \cup {Nothing}
      BY <3>1, <3>2
    <3>6. QED BY <3>1, <3>3, <3>4, <3>5
  <2>5. task \in [Slots -> [op : Ops \cup {"idle"}, at : Awaits, name : Names \cup {Nothing},
                            copy : Rows \cup {Nothing}, tag : (1 .. MaxCalls) \cup {Nothing}]]
    BY <2>4 DEF GroupsInv, TasksOK
  <2>6. QED BY <2>1, <2>2, <2>3, <2>5 DEF ConvosTypeOK, GroupTyped, TagsTyped, Publishing, Given
<1>2. QED BY <1>1, GroupsInvariance, PTL

\* What the page and the row say was published in the group is what was published last,
\* through renames, callers that share a publication, failed sends and failed records, unless
\* a row that was written back told them otherwise.
THEOREM NamesAreAsClaimed == ConvosSpec => []NameClaimsAreTrue
<1>1. GroupsInv => NameClaimsAreTrue
  BY DEF GroupsInv, ClaimsAreDated, NameClaimsAreTrue
<1>2. QED BY <1>1, GroupsInvariance, PTL

\* Every invite handed out carries the tag of the group, whatever is edited later, when no
\* invitation overlapped another or an edit of the description.
THEOREM InvitesKeepTheirTag == ConvosSpec => []InviteTagsHold
<1>1. GroupsInv => InviteTagsHold
  BY DEF GroupsInv, TagsAreHeld, InviteTagsHold, GroupTyped
<1>2. QED BY <1>1, GroupsInvariance, PTL
=============================================================================
