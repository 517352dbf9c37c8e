---------------------------- MODULE MemoryOutbox ----------------------------
(***************************************************************************)
(* The event outbox without a database: inMemoryOutbox, the dispatcher     *)
(* goroutine (events/outbox.go) and the publisher behind it.  Process      *)
(* composes it with main, which starts it and ends it.                     *)
(***************************************************************************)
EXTENDS Naturals, Sequences, FiniteSets, SequencesExt

CONSTANTS
    Events,         \* the events handlers may emit
    PublishFails    \* whether the broker may refuse an event

ASSUME MemoryOutboxAssumption == PublishFails \in BOOLEAN

VARIABLES
    queue, closed,  \* inMemoryOutbox
    pc,             \* dispatcher: new, loop, dequeue, waiting, publishing, exited
    event,          \* the dispatcher's variable e, as a sequence of length 0 or 1
    cancelled,      \* dispatcherCtx is done
    log,            \* history: the events the publisher took, in order
    accepted,       \* history: the events whose Enqueue returned nil, in order
    dropped         \* history: the events whose Publish failed

outboxVars == <<queue, closed, pc, event, cancelled, log, accepted, dropped>>

OutboxInit ==
    /\ queue = << >>
    /\ closed = FALSE
    /\ pc = "new"
    /\ event = << >>
    /\ cancelled = FALSE
    /\ log = << >>
    /\ accepted = << >>
    /\ dropped = {}

\* Mutant: nobody signals.
Woken_Not == pc

\* Signal and Broadcast: the dispatcher is the only goroutine that waits.
Woken == IF pc = "waiting" THEN "dequeue" ELSE pc

\* Mutant: the newest event goes to the front.
Enqueue_Front(e) ==
    /\ ~closed
    /\ e \notin ToSet(accepted)
    /\ queue' = <<e>> \o queue
    /\ accepted' = Append(accepted, e)
    /\ pc' = Woken
    /\ UNCHANGED <<closed, event, cancelled, log, dropped>>

Enqueue(e) ==
    /\ ~closed
    /\ e \notin ToSet(accepted)
    /\ queue' = Append(queue, e)
    /\ accepted' = Append(accepted, e)
    /\ pc' = Woken
    /\ UNCHANGED <<closed, event, cancelled, log, dropped>>

CheckContext ==
    /\ pc = "loop"
    /\ pc' = IF cancelled THEN "exited" ELSE "dequeue"
    /\ UNCHANGED <<queue, closed, event, cancelled, log, accepted, dropped>>

\* The event at the head of the queue.
First == <<Head(queue)>>

Dequeue ==
    /\ pc = "dequeue"
    /\ \/ /\ queue = << >>
          /\ pc' = IF closed THEN "exited" ELSE "waiting"
          /\ UNCHANGED <<queue, event>>
       \/ /\ queue # << >>
          /\ queue' = Tail(queue)
          /\ event' = First
          /\ pc' = "publishing"
    /\ UNCHANGED <<closed, cancelled, log, accepted, dropped>>

\* Mutant: the dispatcher returns on a publish error.
Publish_Return ==
    /\ pc = "publishing"
    /\ event' = << >>
    /\ \/ /\ log' = log \o event
          /\ pc' = "loop"
          /\ UNCHANGED dropped
       \/ /\ PublishFails \/ cancelled
          /\ dropped' = dropped \cup ToSet(event)
          /\ pc' = "exited"
          /\ UNCHANGED log
    /\ UNCHANGED <<queue, closed, cancelled, accepted>>

\* Publish; MarkPublished does nothing here.  A failure is logged and the
\* event, already out of the queue, is gone.
Publish ==
    /\ pc = "publishing"
    /\ pc' = "loop"
    /\ event' = << >>
    /\ \/ /\ log' = log \o event
          /\ UNCHANGED dropped
       \/ /\ PublishFails \/ cancelled
          /\ dropped' = dropped \cup ToSet(event)
          /\ UNCHANGED log
    /\ UNCHANGED <<queue, closed, cancelled, accepted>>

Close ==
    /\ closed' = TRUE
    /\ pc' = Woken
    /\ UNCHANGED <<queue, event, cancelled, log, accepted, dropped>>

-----------------------------------------------------------------------------
\* Every variable has the type the code gives it.
OutboxTypeOK ==
    /\ queue \in Seq(Events)
    /\ closed \in BOOLEAN
    /\ pc \in {"new", "loop", "dequeue", "waiting", "publishing", "exited"}
    /\ event \in {<< >>} \cup {<<e>> : e \in Events}
    /\ cancelled \in BOOLEAN
    /\ log \in Seq(Events)
    /\ accepted \in Seq(Events)
    /\ dropped \subseteq Events

\* What was published, what is in hand and what is queued.
Out == log \o event \o queue

\* Events reach the publisher in the order they were enqueued, none of them
\* twice, and none is missing except those the publisher refused.
FlushedInOrder ==
    /\ ToSet(Out) = ToSet(accepted) \ dropped
    /\ \A i, j \in DOMAIN Out : i < j =>
        \E k, l \in DOMAIN accepted : k < l /\ Out[i] = accepted[k] /\ Out[j] = accepted[l]

\* The dispatcher never sleeps on the condition variable over a non-empty
\* queue, nor after Close.
NoLostWakeup == pc = "waiting" => queue = << >> /\ ~closed
=============================================================================
