------------------------------ MODULE DBOutbox ------------------------------
(***************************************************************************)
(* The database-backed outbox (events/outbox.go): the events_outbox table, *)
(* one dispatcher per replica of the process, and the broker behind them.  *)
(* An event is its occurred_at rank, so the oldest row is the least one;   *)
(* rows may be inserted out of that order.  A replica may stop or crash at *)
(* any time and be started again.                                          *)
(***************************************************************************)
EXTENDS Naturals, Functions

CONSTANTS
    Events,       \* a set of naturals: events by occurred_at
    Dispatchers,  \* the replicas' dispatcher goroutines
    MaxRestarts,  \* how often replicas are restarted (bound)
    Faults        \* the calls that may fail: "publish", "ack", "delete", "db";
                  \* and "stop": a replica may stop or crash

ASSUME DBOutboxAssumption ==
    /\ Events \subseteq Nat
    /\ 0 \notin Events
    /\ MaxRestarts \in Nat
    /\ Faults \subseteq {"publish", "ack", "delete", "db", "stop"}

VARIABLES
    rows,      \* the table: unpublished events
    pc,        \* each dispatcher: loop, tx, publishing, marking, exited
    claim,     \* its variable e; 0 is none
    restarts,  \* how often a replica was restarted
    copies,    \* how often the broker took each event: 0, 1, or 2 for more
    inserted,  \* history: events whose INSERT succeeded
    doubted    \* history: events whose row a dispatcher could meet twice

vars == <<rows, pc, claim, restarts, copies, inserted, doubted>>

Many == 2

Init ==
    /\ rows = {}
    /\ pc = [d \in Dispatchers |-> "loop"]
    /\ claim = [d \in Dispatchers |-> 0]
    /\ restarts = 0
    /\ copies = [e \in Events |-> 0]
    /\ inserted = {}
    /\ doubted = {}

Goto(d, l) == pc' = [pc EXCEPT ![d] = l]

\* The loop's variable e is gone.
Leave(d, l) == Goto(d, l) /\ claim' = [claim EXCEPT ![d] = 0]

Doubt(E) == doubted' = doubted \cup E

Enqueue(e) ==
    /\ e \notin inserted
    /\ rows' = rows \cup {e}
    /\ inserted' = inserted \cup {e}
    /\ UNCHANGED <<pc, claim, restarts, copies, doubted>>

\* The rows that a transaction of another dispatcher holds FOR UPDATE.
Locked == {claim[d] : d \in {x \in Dispatchers : pc[x] = "tx"}}

\* Dequeue up to the SELECT ... FOR UPDATE SKIP LOCKED: the oldest row nobody
\* has locked.  No such row, or a failing database, ends Dispatcher.Run.
SelectRow(d) ==
    /\ pc[d] = "loop"
    /\ LET free == rows \ Locked
       IN  \/ /\ \E e \in free : /\ \A f \in free : e <= f
                                 /\ claim' = [claim EXCEPT ![d] = e]
                                 /\ Doubt({e} \cap Range(claim))
              /\ Goto(d, "tx")
           \/ /\ free = {} \/ "db" \in Faults
              /\ Goto(d, "exited")
              /\ UNCHANGED <<claim, doubted>>
    /\ UNCHANGED <<rows, restarts, copies, inserted>>

\* Mutant: the row is deleted before the event is published.
Commit_Mark(d) ==
    /\ pc[d] = "tx"
    /\ Goto(d, "marking")
    /\ UNCHANGED <<rows, claim, restarts, copies, inserted, doubted>>

\* tx.Commit releases the row lock before the event is published.
Commit(d) ==
    /\ pc[d] = "tx"
    /\ \/ Goto(d, "publishing") /\ UNCHANGED claim
       \/ "db" \in Faults /\ Leave(d, "exited")
    /\ UNCHANGED <<rows, restarts, copies, inserted, doubted>>

\* The broker takes one more copy of e.
Take(e) == copies' = [copies EXCEPT ![e] = IF @ = 0 THEN 1 ELSE Many]

Publish(d) ==
    /\ pc[d] = "publishing"
    /\ Take(claim[d])
    /\ Goto(d, "marking")
    /\ UNCHANGED <<rows, claim, restarts, inserted, doubted>>

\* Mutant: a failed publish enqueues the event again.
PublishFails_Requeue(d) ==
    /\ pc[d] = "publishing"
    /\ \/ "publish" \in Faults /\ UNCHANGED <<copies, doubted>>
       \/ "ack" \in Faults /\ Take(claim[d]) /\ Doubt({claim[d]})
    /\ rows' = rows \cup {claim[d]}
    /\ Leave(d, "loop")
    /\ UNCHANGED <<restarts, inserted>>

\* Publish returns an error, with ("ack") or without the broker having taken
\* the event; the dispatcher logs it and goes on, the row stays.
PublishFails(d) ==
    /\ pc[d] = "publishing"
    /\ \/ "publish" \in Faults /\ UNCHANGED <<copies, doubted>>
       \/ "ack" \in Faults /\ Take(claim[d]) /\ Doubt({claim[d]})
    /\ Leave(d, "loop")
    /\ UNCHANGED <<rows, restarts, inserted>>

\* Mutants: the row stays; the DELETE matches no row and is taken for a failed one.
MarkPublished_Keep(d) ==
    /\ pc[d] = "marking"
    /\ Leave(d, "loop")
    /\ UNCHANGED <<rows, restarts, copies, inserted, doubted>>

MarkPublished_NoRow(d) ==
    /\ pc[d] = "marking"
    /\ Doubt({claim[d]})
    /\ Leave(d, "loop")
    /\ UNCHANGED <<rows, restarts, copies, inserted>>

MarkPublished(d) ==
    /\ pc[d] = "marking"
    /\ rows' = rows \ {claim[d]}
    /\ Leave(d, "loop")
    /\ UNCHANGED <<restarts, copies, inserted, doubted>>

\* The DELETE fails and is only logged: the event will be published again.
MarkFails(d) ==
    /\ pc[d] = "marking"
    /\ "delete" \in Faults
    /\ Doubt({claim[d]})
    /\ Leave(d, "loop")
    /\ UNCHANGED <<rows, restarts, copies, inserted>>

\* The replica shuts down or crashes; an open transaction is rolled back.
Stop(d) ==
    /\ "stop" \in Faults
    /\ pc[d] # "exited"
    /\ Doubt(IF pc[d] = "marking" THEN {claim[d]} ELSE {})
    /\ Leave(d, "exited")
    /\ UNCHANGED <<rows, restarts, copies, inserted>>

Restart(d) ==
    /\ pc[d] = "exited"
    /\ restarts < MaxRestarts
    /\ restarts' = restarts + 1
    /\ Goto(d, "loop")
    /\ UNCHANGED <<rows, claim, copies, inserted, doubted>>

Step(d) == SelectRow(d) \/ Commit(d) \/ Publish(d) \/ PublishFails(d)
           \/ MarkPublished(d) \/ MarkFails(d)

Next ==
    \/ \E e \in Events : Enqueue(e)
    \/ \E d \in Dispatchers : Step(d) \/ Stop(d) \/ Restart(d)

Spec == Init /\ [][Next]_vars

\* A running dispatcher is scheduled, and neither the broker nor the DELETE
\* fails for ever.
FairSpec ==
    /\ Spec
    /\ \A d \in Dispatchers : /\ WF_vars(Step(d))
                              /\ SF_vars(Publish(d))
                              /\ SF_vars(MarkPublished(d))

-----------------------------------------------------------------------------
\* Every variable has the type the code gives it, and a dispatcher past the
\* SELECT has a row.
TypeOK ==
    /\ rows \subseteq Events
    /\ pc \in [Dispatchers -> {"loop", "tx", "publishing", "marking", "exited"}]
    /\ claim \in [Dispatchers -> Events \cup {0}]
    /\ \A d \in Dispatchers : pc[d] \in {"tx", "publishing", "marking"} => claim[d] \in Events
    /\ restarts \in 0..MaxRestarts
    /\ copies \in [Events -> 0..Many]
    /\ inserted \subseteq Events
    /\ doubted \subseteq Events

\* A row leaves the table only once the broker has taken its event: crashes,
\* failed publishes and competing dispatchers never lose an inserted event.
NoEventLost == \A e \in inserted : e \in rows \/ copies[e] > 0

\* The broker takes an event a second time only if a reply of it was lost, the
\* DELETE failed, a replica stopped between publish and DELETE, or a second
\* dispatcher selected the row after the first one's commit had unlocked it.
NoDuplicates == \A e \in Events \ doubted : copies[e] < Many

Abstract == INSTANCE EventChannel WITH
    Consumers <- Dispatchers, sent <- inserted, owed <- rows, holds <- claim, received <- copies

\* The table and its dispatchers are an at-least-once channel: an event is
\* published only by a dispatcher that selected its row while it was there, a
\* row is deleted only by a dispatcher that holds it and after a publish of it,
\* and no replica's failure brings back a row that another one has deleted.
ImplementsChannel == Abstract!Channel

\* As long as a dispatcher runs, every inserted event reaches the broker.
PublishedWhileDispatching ==
    \A e \in Events : e \in inserted ~>
        (copies[e] > 0 \/ \A d \in Dispatchers : pc[d] = "exited")

-----------------------------------------------------------------------------
(* What the documentation says of the outbox.                               *)

\* "Delivery is at-least-once" (docs/adr/0003): an inserted event reaches the
\* broker.
DeliveredAtLeastOnce == \A e \in Events : e \in inserted ~> copies[e] > 0
=============================================================================
