------------------------------ MODULE EventQueue ------------------------------
(***************************************************************************)
(* What the bridge between XMTP and the app's database promises: one       *)
(* queue, open while somebody listens.  Nothing in it speaks of Layouts,   *)
(* registrations, buffers or promises.                                     *)
(***************************************************************************)
EXTENDS Naturals, Sequences

CONSTANTS
  Messages, Effects,
  TargetOf  \* the message a side effect is about

VARIABLES
  open,     \* somebody listens
  waiting,  \* the events to be handled, the next one first
  handled   \* those a handler has finished with

queue == <<open, waiting, handled>>

QueueInit == open = FALSE /\ waiting = <<>> /\ handled = {}

Known(m) == m \in handled \/ \E k \in 1..Len(waiting) : waiting[k] = m

\* An event goes to the end of the queue, a side effect after its target ...
Arrive(e) ==
  /\ e \in Effects => Known(TargetOf[e])
  /\ waiting' = Append(waiting, e)
  /\ UNCHANGED <<open, handled>>

\* ... but while nobody listens a message may pass side effects.
Pass(m) ==
  /\ ~open
  /\ \E k \in 0..Len(waiting) :
       /\ \A j \in k+1..Len(waiting) : waiting[j] \in Effects
       /\ waiting' = Append(SubSeq(waiting, 1, k), m) \o SubSeq(waiting, k + 1, Len(waiting))
  /\ UNCHANGED <<open, handled>>

\* What was taken is handled to the end, also when the listener leaves.
Take ==
  /\ waiting # <<>>
  /\ waiting' = Tail(waiting)
  /\ handled' = handled \cup {Head(waiting)}
  /\ UNCHANGED open

Listen == open' \in BOOLEAN /\ UNCHANGED <<waiting, handled>>

\* The page goes.
Forget == open' = FALSE /\ waiting' = <<>> /\ UNCHANGED handled

QueueNext ==
  \/ \E e \in Messages \cup Effects : Arrive(e)
  \/ \E m \in Messages : Pass(m)
  \/ Take \/ Listen \/ Forget

QueueSpec == QueueInit /\ [][QueueNext]_queue
=============================================================================
