------------------------------ MODULE MCInboxes ------------------------------
(***************************************************************************)
(* What one browser profile keeps of its inboxes, model checked in one     *)
(* run: the installation, the inboxes' keys and databases, and the push    *)
(* routes touch none of each other's state, so in each behaviour one part  *)
(* takes all the steps and the others stay as they began.                  *)
(***************************************************************************)
EXTENDS InstallationRepair, InboxLifecycle, TLC

CONSTANTS i1, i2, imported, other

Fresh == {i1, i2}
MCLocalInboxes == Fresh \cup {imported}
MCKeyfiles == {imported}
MaxTrouble == 3 \* bound: what the user asks for and what fails, together, in the lifecycle
MCKeys == 1 .. 4
MCOthers == {other}
MCSymmetry == Permutations(Tabs) \cup Permutations(Fresh)

VARIABLE part \* the one that runs: repair, lifecycle or push

VARIABLES
  rows, prefs, activity, sub, relay, loaded, inst, pushCurrent, invalid, waiting, queue, run,
  again, calls, pushFaults, off, burned, contested, forgot, cut

Push == INSTANCE PushSubscription
     WITH Inboxes <- {"a", "b"}, MaxEndpoints <- 2, MaxInstallations <- 2, MaxCalls <- 2,
          MaxFaults <- 1, current <- pushCurrent, faults <- pushFaults

pushVars ==
  <<rows, prefs, activity, sub, relay, loaded, inst, pushCurrent, invalid, waiting, queue,
    run, again, calls, pushFaults, off, burned, contested, forgot, cut>>

PartsInit ==
  /\ part \in {"repair", "lifecycle", "push"}
  /\ Init /\ (part # "repair" => signer /\ journal = NoJournal /\ ledger = {})
  /\ LifecycleInit
  /\ Push!Init /\ (part # "push" => pushCurrent = "a" /\ prefs = Push!Off)

PartsNext ==
  \/ /\ part = "repair" /\ Next
     /\ UNCHANGED <<part, lifecycleVars, pushVars>>
  \/ /\ part = "lifecycle" /\ LifecycleNext
     /\ acts' + pageFaults' <= MaxTrouble
     /\ UNCHANGED <<part, vars, pushVars>>
  \/ /\ part = "push" /\ Push!PushNext
     /\ UNCHANGED <<part, vars, lifecycleVars>>

partsVars == <<part, vars, lifecycleVars, pushVars>>
PartsSpec == PartsInit /\ [][PartsNext]_partsVars
-----------------------------------------------------------------------------
(* The properties; each is stated and explained in the module of its part. *)

\* Every variable of the three parts has its type.
PartsTypeOK == TypeOK /\ LifecycleTypeOK /\ Push!PushTypeOK

\* subscribe.ts: what the page reports of notifications is so at the relay.
PushReportsAreTrue == Push!PushReportsAreTrue
=============================================================================
