------------------------------ MODULE JobQueue ------------------------------
(***************************************************************************)
(* The in-process background-job pool: memoryQueue (jobs/queue.go), the    *)
(* Registry and its workers (jobs/registry.go), the in-memory dead-letter  *)
(* list (jobs/deadletter.go) and the part of main's shutdown that stops    *)
(* the pool (cmd/api/main.go).                                             *)
(*                                                                         *)
(* Every critical section of q.mu is one action.  cond.Wait is the control *)
(* state "waiting"; Signal moves one waiter, and Broadcast all of them,    *)
(* back to the head of the Dequeue loop.  Time is a clock in seconds that  *)
(* advances only while a job or a timer still lies in the future.          *)
(***************************************************************************)
EXTENDS Naturals, Sequences, FiniteSets, Functions

CONSTANTS
    Jobs,        \* the jobs callers may submit; a job's type is its identity
    Workers,     \* the goroutines Registry.Start launches
    MaxRetries,  \* Job.MaxRetries; Registry.Enqueue always sets 2
    NoJob        \* the zero Job a worker holds between two jobs

JobRec == [id : Jobs, attempts : Nat, runAfter : Nat]

ASSUME JobQueueAssumption ==
    /\ MaxRetries \in Nat
    /\ NoJob \notin JobRec
    /\ IsFiniteSet(Workers)

VARIABLES
    items,     \* memoryQueue.items
    closed,    \* memoryQueue.closed
    handlers,  \* Registry.handlers: the job types that have a handler
    pc,        \* where each worker is
    held,      \* the local variable job of each worker
    timer,     \* the instant at which a sleeping worker's time.After fires
    dead,      \* the dead-letter list
    mainPc,    \* main: setup, serving, cancelled, closed, stopped
    now,       \* time.Now()
    accepted,  \* history: jobs whose Enqueue returned nil
    rejected,  \* history: jobs whose Enqueue returned ErrQueueClosed
    done,      \* history: jobs whose handler returned nil
    lost,      \* history: jobs whose Nack returned ErrQueueClosed
    runs       \* history: how often each job was tried

queueVars == <<items, closed>>
workerVars == <<pc, held, timer>>
history == <<accepted, rejected, done, lost, runs>>
vars == <<items, closed, handlers, pc, held, timer, dead, mainPc, now,
          accepted, rejected, done, lost, runs>>

PC == {"idle", "loop", "dequeue", "waiting", "sleeping", "picked",
       "handling", "failed", "exited"}

cancelled == mainPc \notin {"setup", "serving"}

Queued == {r.id : r \in Range(items)}
Buried == {r.id : r \in Range(dead)}
InFlight == {w \in Workers : pc[w] \in {"picked", "handling", "failed"}}
Held == {held[w].id : w \in InFlight}

Distinct(s) == \A i, k \in 1..Len(s) : s[i].id = s[k].id => i = k
-----------------------------------------------------------------------------
Init ==
    /\ items = << >>
    /\ closed = FALSE
    /\ handlers = {}
    /\ pc = [w \in Workers |-> "idle"]
    /\ held = [w \in Workers |-> NoJob]
    /\ timer = [w \in Workers |-> 0]
    /\ dead = << >>
    /\ mainPc = "setup"
    /\ now = 0
    /\ accepted = {}
    /\ rejected = {}
    /\ done = {}
    /\ lost = {}
    /\ runs = [j \in Jobs |-> 0]

\* Mutant: Enqueue and Nack forget to signal.
Signalled_None(f) == {f}

\* The control states that cond.Signal may leave behind, from f.
Signalled(f) ==
    LET waiters == {w \in Workers : f[w] = "waiting"}
    IN  IF waiters = {} THEN {f}
        ELSE {[f EXCEPT ![w] = "dequeue"] : w \in waiters}

\* The control state that cond.Broadcast leaves behind, from f.
Broadcast(f) == [w \in Workers |-> IF f[w] = "waiting" THEN "dequeue" ELSE f[w]]

\* Seconds before attempt + 1: one, doubled for each attempt after the first,
\* and never more than a minute.
backoff(attempt) ==
    IF attempt <= 1 THEN 1
    ELSE IF attempt > 6 THEN 60 ELSE <<1, 2, 4, 8, 16, 32>>[attempt]

\* Mutants: the delayed job is taken off the queue; it is also left in place.
Rotated_Dropped == Tail(items)
Rotated_Copied == Append(items, Head(items))

\* The queue with its first job, which is delayed, moved to the end.
Rotated == Append(Tail(items), Head(items))

\* Mutant: one attempt too many.
Exhausted_Late(r) == r.attempts > MaxRetries + 1

Exhausted(r) == r.attempts > MaxRetries

\* Mutants: no backoff; the job is cleared before it is put back.
Retry_Now(r) == [r EXCEPT !.runAfter = now]
Retry_Cleared(r) == NoJob

\* A failed job as Nack puts it back.
Retry(r) == [r EXCEPT !.runAfter = now + backoff(r.attempts)]

-----------------------------------------------------------------------------
Register(j) ==
    /\ mainPc = "setup"
    /\ handlers' = handlers \cup {j}
    /\ UNCHANGED <<queueVars, workerVars, dead, mainPc, now, history>>

Start ==
    /\ mainPc = "setup"
    /\ mainPc' = "serving"
    /\ pc' = [w \in Workers |-> "loop"]
    /\ UNCHANGED <<queueVars, handlers, held, timer, dead, now, history>>

\* Mutant: Enqueue does not look at closed.
Enqueue_Closed(j) ==
    /\ mainPc # "setup"
    /\ j \notin accepted \cup rejected
    /\ items' = Append(items, [id |-> j, attempts |-> 0, runAfter |-> now])
    /\ pc' \in Signalled(pc)
    /\ accepted' = accepted \cup {j}
    /\ UNCHANGED <<closed, handlers, held, timer, dead, mainPc, now, rejected, done, lost, runs>>

\* Registry.Enqueue makes the job.  main drains the HTTP handlers before it
\* stops the pool, but the queue does not rely on that: a submission can come
\* at any time.
Enqueue(j) ==
    /\ mainPc # "setup"
    /\ j \notin accepted \cup rejected
    /\ IF closed
       THEN /\ rejected' = rejected \cup {j}
            /\ UNCHANGED <<items, pc, accepted>>
       ELSE /\ items' = Append(items, [id |-> j, attempts |-> 0, runAfter |-> now])
            /\ pc' \in Signalled(pc)
            /\ accepted' = accepted \cup {j}
            /\ UNCHANGED rejected
    /\ UNCHANGED <<closed, handlers, held, timer, dead, mainPc, now, done, lost, runs>>

\* Mutant: continue instead of return.
CheckContext_Spin(w) ==
    /\ pc[w] = "loop"
    /\ pc' = [pc EXCEPT ![w] = IF cancelled THEN "loop" ELSE "dequeue"]
    /\ UNCHANGED <<queueVars, handlers, held, timer, dead, mainPc, now, history>>

\* The select at the head of workerLoop.
CheckContext(w) ==
    /\ pc[w] = "loop"
    /\ pc' = [pc EXCEPT ![w] = IF cancelled THEN "exited" ELSE "dequeue"]
    /\ UNCHANGED <<queueVars, handlers, held, timer, dead, mainPc, now, history>>

\* One turn of the loop in memoryQueue.Dequeue.
Dequeue(w) ==
    /\ pc[w] = "dequeue"
    /\ \/ /\ closed
          /\ pc' = [pc EXCEPT ![w] = "exited"]
          /\ UNCHANGED <<items, held, timer>>
       \/ /\ ~closed
          /\ items = << >>
          /\ pc' = [pc EXCEPT ![w] = "waiting"]
          /\ UNCHANGED <<items, held, timer>>
       \/ /\ ~closed
          /\ items # << >>
          /\ Head(items).runAfter > now
          /\ items' = Rotated
          /\ pc' = [pc EXCEPT ![w] = "sleeping"]
          /\ timer' = [timer EXCEPT ![w] = Head(items).runAfter]
          /\ UNCHANGED held
       \/ /\ ~closed
          /\ items # << >>
          /\ Head(items).runAfter <= now
          /\ items' = Tail(items)
          /\ pc' = [pc EXCEPT ![w] = "picked"]
          /\ held' = [held EXCEPT ![w] = Head(items)]
          /\ UNCHANGED timer
    /\ UNCHANGED <<closed, handlers, dead, mainPc, now, history>>

\* Mutant: the timer is not selected on.
Wake_Deaf(w) ==
    /\ pc[w] = "sleeping"
    /\ cancelled
    /\ pc' = [pc EXCEPT ![w] = "exited"]
    /\ timer' = [timer EXCEPT ![w] = 0]
    /\ UNCHANGED <<queueVars, handlers, held, dead, mainPc, now, history>>

\* The select on the timer and on ctx.Done, while a delayed job is queued.
Wake(w) ==
    /\ pc[w] = "sleeping"
    /\ \/ /\ cancelled
          /\ pc' = [pc EXCEPT ![w] = "exited"]
       \/ /\ timer[w] <= now
          /\ pc' = [pc EXCEPT ![w] = "dequeue"]
    /\ timer' = [timer EXCEPT ![w] = 0]
    /\ UNCHANGED <<queueVars, handlers, held, dead, mainPc, now, history>>

\* runJob up to the call of the handler; without one the attempt has failed.
RunJob(w) ==
    /\ pc[w] = "picked"
    /\ held' = [held EXCEPT ![w].attempts = @ + 1]
    /\ runs' = [runs EXCEPT ![held[w].id] = @ + 1]
    /\ pc' = [pc EXCEPT ![w] = IF held[w].id \in handlers THEN "handling" ELSE "failed"]
    /\ UNCHANGED <<queueVars, handlers, timer, dead, mainPc, now,
                   accepted, rejected, done, lost>>

\* The handler returns: nil, and the job is acknowledged, or an error (which
\* the 30-second deadline and a cancelled context end in as well).
HandlerReturns(w) ==
    /\ pc[w] = "handling"
    /\ \/ /\ pc' = [pc EXCEPT ![w] = "loop"]
          /\ held' = [held EXCEPT ![w] = NoJob]
          /\ done' = done \cup {held[w].id}
       \/ /\ pc' = [pc EXCEPT ![w] = "failed"]
          /\ UNCHANGED <<held, done>>
    /\ UNCHANGED <<queueVars, handlers, timer, dead, mainPc, now,
                   accepted, rejected, lost, runs>>

\* After a failed attempt: the dead-letter list once the retries are spent.
DeadLetter(w) ==
    /\ pc[w] = "failed"
    /\ Exhausted(held[w])
    /\ dead' = Append(dead, held[w])
    /\ pc' = [pc EXCEPT ![w] = "loop"]
    /\ held' = [held EXCEPT ![w] = NoJob]
    /\ UNCHANGED <<queueVars, handlers, timer, mainPc, now, history>>

\* After a failed attempt: back to the queue with a backoff.  A closed queue
\* refuses the job, and runJob only logs the refusal.
Nack(w) ==
    /\ pc[w] = "failed"
    /\ ~Exhausted(held[w])
    /\ held' = [held EXCEPT ![w] = NoJob]
    /\ IF closed
       THEN /\ lost' = lost \cup {held[w].id}
            /\ pc' = [pc EXCEPT ![w] = "loop"]
            /\ UNCHANGED items
       ELSE /\ items' = Append(items, Retry(held[w]))
            /\ pc' \in Signalled([pc EXCEPT ![w] = "loop"])
            /\ UNCHANGED lost
    /\ UNCHANGED <<closed, handlers, timer, dead, mainPc, now,
                   accepted, rejected, done, runs>>

-----------------------------------------------------------------------------
\* main on SIGTERM: cancelJobs, then Registry.Stop = Close and wg.Wait.
CancelJobs ==
    /\ mainPc = "serving"
    /\ mainPc' = "cancelled"
    /\ UNCHANGED <<queueVars, handlers, workerVars, dead, now, history>>

Close ==
    /\ mainPc = "cancelled"
    /\ mainPc' = "closed"
    /\ closed' = TRUE
    /\ pc' = Broadcast(pc)
    /\ UNCHANGED <<items, handlers, held, timer, dead, now, history>>

WaitGroupDone ==
    /\ mainPc = "closed"
    /\ \A w \in Workers : pc[w] = "exited"
    /\ mainPc' = "stopped"
    /\ UNCHANGED <<queueVars, handlers, workerVars, dead, now, history>>

\* Time only matters to a queued job or a sleeping worker.
Tick ==
    /\ \/ \E r \in Range(items) : r.runAfter > now
       \/ \E w \in Workers : pc[w] = "sleeping" /\ timer[w] > now
    /\ now' = now + 1
    /\ UNCHANGED <<queueVars, handlers, workerVars, dead, mainPc, history>>

\* main has returned from Stop; the pool takes no further step.
Stopped ==
    /\ mainPc = "stopped"
    /\ UNCHANGED vars

Worker(w) ==
    \/ CheckContext(w)
    \/ Dequeue(w)
    \/ Wake(w)
    \/ RunJob(w)
    \/ HandlerReturns(w)
    \/ DeadLetter(w)
    \/ Nack(w)

Next ==
    \/ \E j \in Jobs : Register(j) \/ Enqueue(j)
    \/ \E w \in Workers : Worker(w)
    \/ Start
    \/ CancelJobs
    \/ Close
    \/ WaitGroupDone
    \/ Tick
    \/ Stopped

Spec == Init /\ [][Next]_vars

\* Goroutines are scheduled, timers fire, and main runs to the end of its
\* shutdown once it has begun.  Nobody is obliged to submit or to shut down.
Fairness ==
    /\ \A w \in Workers : WF_vars(Worker(w))
    /\ WF_vars(Start)
    /\ WF_vars(Close)
    /\ WF_vars(WaitGroupDone)
    /\ WF_vars(Tick)

FairSpec == Spec /\ Fairness
-----------------------------------------------------------------------------
\* Every variable has the type the code gives it.
TypeOK ==
    /\ items \in Seq(JobRec)
    /\ closed \in BOOLEAN
    /\ handlers \subseteq Jobs
    /\ pc \in [Workers -> PC]
    /\ held \in [Workers -> JobRec \cup {NoJob}]
    /\ timer \in [Workers -> Nat]
    /\ dead \in Seq(JobRec)
    /\ mainPc \in {"setup", "serving", "cancelled", "closed", "stopped"}
    /\ now \in Nat
    /\ accepted \in SUBSET Jobs
    /\ rejected \in SUBSET Jobs
    /\ done \in SUBSET Jobs
    /\ lost \in SUBSET Jobs
    /\ runs \in [Jobs -> Nat]

\* A job whose Enqueue returned nil is queued, in a worker's hands, finished,
\* dead-lettered, or was refused by Nack because Stop had closed the queue
\* first; before the queue closes no job is ever dropped.
NoJobVanishes ==
    /\ accepted = Queued \cup Held \cup done \cup Buried \cup lost
    /\ ~closed => lost = {}

\* Re-appending a delayed job, Nack and the hand-over to a worker never leave
\* two copies of a job: each is at one place in one of the queue, the workers'
\* hands and the final outcomes.
NoJobTwice ==
    /\ Distinct(items)
    /\ Distinct(dead)
    /\ \A v, w \in InFlight : held[v].id = held[w].id => v = w
    /\ Queued \cap (Held \cup done \cup Buried \cup lost) = {}
    /\ Held \cap (done \cup Buried \cup lost) = {}
    /\ done \cap (Buried \cup lost) = {}
    /\ Buried \cap lost = {}

\* A job is tried at most MaxRetries + 1 times, its Attempts counter always
\* tells how often, and it is dead-lettered exactly when all of them failed.
RetryBudget ==
    /\ \A j \in Jobs : runs[j] <= MaxRetries + 1
    /\ \A r \in Range(items) : r.attempts = runs[r.id] /\ r.attempts <= MaxRetries
    /\ \A w \in InFlight : held[w].attempts = runs[held[w].id]
    /\ \A r \in Range(dead) : r.attempts = runs[r.id] /\ r.attempts = MaxRetries + 1
    /\ \A j \in lost : runs[j] \in 1..MaxRetries

\* What makes the three invariants above inductive: a worker in the middle of
\* runJob really holds a job, with the attempts its position implies; a job
\* never accepted was never tried; no worker moves before Start.
HeldJobs ==
    \A w \in InFlight :
        /\ held[w] \in JobRec
        /\ IF pc[w] = "picked" THEN held[w].attempts <= MaxRetries
           ELSE held[w].attempts \in 1..MaxRetries + 1

FreshJobs == \A j \in Jobs \ accepted : runs[j] = 0

IdleUntilStart == mainPc = "setup" => \A w \in Workers : pc[w] = "idle"

JobInv ==
    /\ TypeOK
    /\ IdleUntilStart
    /\ HeldJobs
    /\ FreshJobs
    /\ NoJobVanishes
    /\ NoJobTwice
    /\ RetryBudget

\* The workers on the way to the queue.
Coming == {w \in Workers : pc[w] \in {"loop", "dequeue", "sleeping"}}

\* Signal wakes enough workers: while the pool serves, a worker waits on the
\* condition variable only if every queued job has a worker of its own on the
\* way to the queue.
NoLostWakeup ==
    ~cancelled /\ (\E w \in Workers : pc[w] = "waiting") =>
        Len(items) <= Cardinality(Coming)

\* The clock reading that n failed attempts must reach: the sum of their
\* backoffs.
spaced(n) == IF n <= 6 THEN <<0, 1, 3, 7, 15, 31, 63>>[n + 1] ELSE 63 + 60 * (n - 6)

\* The retries of a job are spaced by the exponential backoff, whichever
\* workers pick it up and however often it is rotated through the queue.
RetriesAreSpaced == \A j \in Jobs : runs[j] > 0 => now >= spaced(runs[j] - 1)

\* The pool implements the abstract life cycle of a job: a job is running from
\* the moment runJob counts the attempt until its fate is decided.
jobStatus ==
    [j \in Jobs |->
        IF j \in rejected THEN "refused"
        ELSE IF j \notin accepted THEN "new"
        ELSE IF j \in done THEN "done"
        ELSE IF j \in Buried THEN "dead"
        ELSE IF j \in lost THEN "lost"
        ELSE IF \E w \in Workers : pc[w] \in {"handling", "failed"} /\ held[w].id = j
        THEN "running" ELSE "pending"]

Abstract == INSTANCE JobLifecycle WITH status <- jobStatus, tries <- runs, open <- ~closed

\* Every step of queue, workers and shutdown is a step of the life cycle of
\* one job or invisible to callers.
ImplementsLifecycle == Abstract!Lifecycle

\* Unless the process shuts down, every accepted job is finished or
\* dead-lettered in the end.
JobsFinish == \A j \in Jobs : j \in accepted ~> j \in done \cup Buried \/ cancelled

\* Cancelling and closing the queue wakes every worker, waiting or sleeping,
\* so that wg.Wait in Registry.Stop returns.
ShutdownEnds == cancelled ~> mainPc = "stopped"
=============================================================================
