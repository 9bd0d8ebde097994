---------------------------- MODULE WebhookPromise ----------------------------
(***************************************************************************)
(* What the webhook pipeline promises of an event, without its queue,      *)
(* workers, attempts and listeners: it is taken on by one verified         *)
(* delivery or by replays on the record, and each time it is taken on it   *)
(* is handled a bounded number of times and dead-lettered once at most.    *)
(***************************************************************************)
EXTENDS Naturals, FiniteSets

CONSTANTS
  Events,
  Deliveries,  \* who may take an event on: a delivery of it,
  Replays,     \* or a replay
  Ceiling      \* how often an event is handled each time it was taken on

VARIABLES
  shown,       \* the status that is shown of an event
  verified,    \* whether its signature was right when it was recorded
  asked,       \* the replays on the record
  takenOn,     \* the deliveries and replays that took it on
  handled,     \* how often its effect was committed
  buried       \* its dead letters

vars == <<shown, verified, asked, takenOn, handled, buried>>

Init ==
  /\ shown = [e \in Events |-> "absent"]
  /\ verified = [e \in Events |-> FALSE]
  /\ asked = [e \in Events |-> {}]
  /\ takenOn = [e \in Events |-> {}]
  /\ handled = [e \in Events |-> 0]
  /\ buried = [e \in Events |-> 0]

\* The first that is seen of an event decides whether it is verified.
Record(e) ==
  /\ shown[e] = "absent"
  /\ \/ /\ shown' = [shown EXCEPT ![e] = "RECEIVED"]
        /\ verified' = [verified EXCEPT ![e] = TRUE]
     \/ /\ shown' = [shown EXCEPT ![e] = "FAILED"]
        /\ verified' = [verified EXCEPT ![e] = FALSE]
  /\ UNCHANGED <<asked, takenOn, handled, buried>>

\* A replay is recorded before anything is done, and once.
Ask(e, p) ==
  /\ shown[e] # "absent"
  /\ \A f \in Events : p \notin asked[f]
  /\ asked' = [asked EXCEPT ![e] = @ \cup {p}]
  /\ shown' = [shown EXCEPT ![e] = "RECEIVED"]
  /\ UNCHANGED <<verified, takenOn, handled, buried>>

\* One delivery of a verified event takes it on, or a replay of it that is on the record;
\* each of them takes on one event, once.
TakeOn(e, by) ==
  /\ \A f \in Events : by \notin takenOn[f]
  /\ \/ by \in Deliveries /\ verified[e] /\ takenOn[e] \cap Deliveries = {}
     \/ by \in asked[e]
  /\ takenOn' = [takenOn EXCEPT ![e] = @ \cup {by}]
  /\ UNCHANGED <<shown, verified, asked, handled, buried>>

Handle(e) ==
  /\ handled[e] < Ceiling * Cardinality(takenOn[e])
  /\ handled' = [handled EXCEPT ![e] = @ + 1]
  /\ UNCHANGED <<shown, verified, asked, takenOn, buried>>

Bury(e) ==
  /\ buried[e] < Cardinality(takenOn[e])
  /\ buried' = [buried EXCEPT ![e] = @ + 1]
  /\ shown' = [shown EXCEPT ![e] = "DEAD_LETTER"]
  /\ UNCHANGED <<verified, asked, takenOn, handled>>

\* What is shown of an event follows what was done: PROCESSED when it was handled, FAILED
\* when it was taken on.
Show(e) ==
  /\ takenOn[e] # {}
  /\ \/ handled[e] > 0 /\ shown' = [shown EXCEPT ![e] = "PROCESSED"]
     \/ shown' = [shown EXCEPT ![e] = "FAILED"]
  /\ UNCHANGED <<verified, asked, takenOn, handled, buried>>

Next ==
  \E e \in Events :
    \/ Record(e) \/ Handle(e) \/ Bury(e) \/ Show(e)
    \/ \E p \in Replays : Ask(e, p)
    \/ \E by \in Deliveries \cup Replays : TakeOn(e, by)

Spec == Init /\ [][Next]_vars
=============================================================================
