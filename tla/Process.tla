------------------------------- MODULE Process ------------------------------
(***************************************************************************)
(* The life of one process (cmd/api/main.go).  main builds the components  *)
(* one after the other, on Redis or PostgreSQL or in memory, and starts    *)
(* the dispatcher, the workers and the server; after a signal it drains    *)
(* the requests, stops the workers, cancels the dispatcher without waiting *)
(* for it, and its deferred closers run.  The outbox in memory is          *)
(* MemoryOutbox's; of an outbox in PostgreSQL only the dispatcher's        *)
(* control is kept, and of the job queue only how many jobs it holds.      *)
(***************************************************************************)
EXTENDS MemoryOutbox

CONSTANTS
    Requests,   \* HTTP requests, each served once
    Workers,    \* the goroutines of jobReg.Start(jobCtx, 2)
    MaxJobs,    \* how many jobs the handlers submit (bound)
    MaxFlips    \* how often Redis becomes (un)reachable while main starts (bound)

ASSUME ProcessAssumption == MaxJobs \in Nat /\ MaxFlips \in Nat

\* What main builds, in its order.
Order == << "store", "cache", "blacklist", "resetTokens", "globalLimiter", "authLimiter",
            "idempotency", "outbox", "queue", "deadLetter" >>
Components == ToSet(Order)

VARIABLES
    databaseURL,  \* DATABASE_URL is set
    redisURL,     \* REDIS_URL: "unset", "set", or "bad" if it does not parse
    redis, flips, \* a ping of Redis would succeed; how often that has changed
    comp,         \* component -> none, memory, open (it holds a client), closed
    defers,       \* main's deferred closers, oldest first
    main,         \* main's control state
    request,      \* HTTP request -> idle, active, done
    worker,       \* worker -> new, loop, dequeue, handling, exited
    jobs,         \* how many jobs are queued
    submitted,    \* how many were submitted
    jobsOver,     \* jobCtx is done
    queueClosed,  \* Queue.Close was called
    exit          \* none, clean (main returned), error (os.Exit(1)), killed

environment == <<databaseURL, redisURL>>
startVars == <<environment, redis, flips, comp, defers>>
jobVars == <<worker, jobs, submitted, jobsOver, queueClosed>>
vars == <<outboxVars, startVars, main, request, jobVars, exit>>

Init ==
    /\ OutboxInit
    /\ databaseURL \in BOOLEAN
    /\ redisURL \in {"unset", "set", "bad"}
    /\ redis \in (IF redisURL = "set" THEN BOOLEAN ELSE {FALSE})
    /\ flips = 0
    /\ comp = [c \in Components |-> "none"]
    /\ defers = << >>
    /\ main = "config"
    /\ request = [r \in Requests |-> "idle"]
    /\ worker = [w \in Workers |-> "new"]
    /\ jobs = 0
    /\ submitted = 0
    /\ jobsOver = FALSE
    /\ queueClosed = FALSE
    /\ exit = "none"

Active == {r \in Requests : request[r] = "active"}
Built == {c \in Components : comp[c] # "none"}

-----------------------------------------------------------------------------
(* Start.  What each builder may return: a component in memory, an open one, *)
(* or an error, after which main calls os.Exit(1).                           *)

buildUserStore == IF databaseURL THEN {"open", "error"} ELSE {"memory"}

\* The first to parse REDIS_URL, and the only one that does not ping.
buildCache == CASE redisURL = "unset" -> {"memory"} [] redisURL = "set" -> {"open"} [] OTHER -> {"error"}

\* A client that does not answer the ping is closed again.
Pinged == IF redis THEN {"open"} ELSE {"memory"}

buildBlacklist == Pinged
buildResetTokenStore == Pinged
buildRateLimiter == Pinged
buildIdempotencyStore == Pinged
buildDeadLetter == Pinged

\* NewRedisQueue creates the consumer group, which may fail after the ping.
buildJobQueue == Pinged \cup (IF Pinged = {"open"} THEN {"error"} ELSE {})

\* EnsureSchema may fail.
buildOutbox == IF comp["store"] = "open" THEN {"open", "memory"} ELSE {"memory"}

build ==
    [store |-> buildUserStore, cache |-> buildCache, blacklist |-> buildBlacklist,
     resetTokens |-> buildResetTokenStore, globalLimiter |-> buildRateLimiter,
     authLimiter |-> buildRateLimiter, idempotency |-> buildIdempotencyStore,
     outbox |-> buildOutbox, queue |-> buildJobQueue, deadLetter |-> buildDeadLetter]

\* What main defers once c is built; the closer of a component in memory does
\* nothing, the outbox has none, and cacheClose is deferred a second time.
Deferred(c, how) ==
    (IF how = "open" /\ c # "outbox" THEN <<c>> ELSE << >>)
    \o (IF c = "resetTokens" /\ comp["cache"] = "open" THEN <<"cache">> ELSE << >>)

Exit(code) ==
    /\ exit' = code
    /\ UNCHANGED <<outboxVars, startVars, main, request, jobVars>>

\* config.Load, Validate and the two token issuers.
Configure ==
    /\ main = "config"
    /\ \/ /\ main' = "building"
          /\ UNCHANGED <<outboxVars, startVars, request, jobVars, exit>>
       \/ Exit("error")

\* The dispatcher is started between the outbox and the job queue.
Build ==
    LET c == Order[Cardinality(Built) + 1]
    IN  /\ main = "building"
        /\ \E how \in build[c] :
             \/ how = "error" /\ Exit("error")
             \/ /\ how # "error"
                /\ comp' = [comp EXCEPT ![c] = how]
                /\ defers' = defers \o Deferred(c, how)
                /\ pc' = IF c = "outbox" THEN "loop" ELSE pc
                /\ main' = IF c = "deadLetter" THEN "starting" ELSE main
                /\ UNCHANGED <<queue, closed, event, cancelled, log, accepted, dropped,
                               environment, redis, flips, request, jobVars, exit>>

RedisFlips ==
    /\ main = "building"
    /\ redisURL = "set" /\ flips < MaxFlips
    /\ flips' = flips + 1
    /\ redis' = ~redis
    /\ UNCHANGED <<outboxVars, environment, comp, defers, main, request, jobVars, exit>>

\* The handlers are registered; the workers and the server are started.
Start ==
    /\ main = "starting"
    /\ main' = "serving"
    /\ worker' = [w \in Workers |-> "loop"]
    /\ UNCHANGED <<outboxVars, startVars, request, jobs, submitted, jobsOver, queueClosed, exit>>

\* A signal before signal.NotifyContext takes its default action.
Killed == main \in {"config", "building", "starting"} /\ Exit("killed")

-----------------------------------------------------------------------------
(* Requests.  A handler uses every component; it may hang.                  *)

Accept(r) ==
    /\ main = "serving"
    /\ request[r] = "idle"
    /\ request' = [request EXCEPT ![r] = "active"]
    /\ UNCHANGED <<outboxVars, startVars, main, jobVars, exit>>

\* The handler emits an event; into a table it is left to DBOutbox.
Emit(e) ==
    /\ Active # {}
    /\ comp["outbox"] = "memory"
    /\ Enqueue(e)
    /\ UNCHANGED <<startVars, main, request, jobVars, exit>>

\* Register enqueues the welcome_email job.
Submit ==
    /\ Active # {}
    /\ submitted < MaxJobs
    /\ submitted' = submitted + 1
    /\ jobs' = jobs + 1
    /\ UNCHANGED <<outboxVars, startVars, main, request, worker, jobsOver, queueClosed, exit>>

Respond(r) ==
    /\ request[r] = "active"
    /\ request' = [request EXCEPT ![r] = "done"]
    /\ UNCHANGED <<outboxVars, startVars, main, jobVars, exit>>

-----------------------------------------------------------------------------
(* Workers and dispatcher.                                                  *)

Goto(w, l) == worker' = [worker EXCEPT ![w] = l]

WorkerLoop(w) ==
    /\ worker[w] = "loop"
    /\ Goto(w, IF jobsOver THEN "exited" ELSE "dequeue")
    /\ UNCHANGED jobs

TakeJob(w) ==
    /\ worker[w] = "dequeue"
    /\ jobs > 0 /\ ~queueClosed
    /\ jobs' = jobs - 1
    /\ Goto(w, "handling")

\* memoryQueue.Dequeue ends once the queue is closed, or if the context ends
\* while it waits for a job's RunAfter; an idle one sleeps on.  redisQueue's
\* ends after an empty read, an error or the end of the context.
DequeueEnds(w) ==
    /\ worker[w] = "dequeue"
    /\ \/ comp["queue"] = "open"
       \/ queueClosed
       \/ jobsOver /\ jobs > 0
    /\ Goto(w, "exited")
    /\ UNCHANGED jobs

\* The handler's emailSender.Send, which no context interrupts: go-mail's own
\* timeout ends it.  A failed job is given up, or queued again unless the memory
\* queue is closed or, on Redis, the context of the XADD is over.
Send(w) ==
    /\ worker[w] = "handling"
    /\ \/ UNCHANGED jobs
       \/ /\ IF comp["queue"] = "memory" THEN ~queueClosed ELSE ~jobsOver
          /\ jobs' = jobs + 1
    /\ Goto(w, "loop")

Worker(w) ==
    /\ WorkerLoop(w) \/ TakeJob(w) \/ DequeueEnds(w) \/ Send(w)
    /\ UNCHANGED <<outboxVars, startVars, main, request, submitted, jobsOver, queueClosed, exit>>

\* DBOutbox.Dequeue finds a row, or finds none or fails, which ends Run.  The
\* event itself is left to DBOutbox.
DBDequeue ==
    /\ pc = "dequeue"
    /\ \/ pc' = "publishing" /\ comp["store"] = "open"
       \/ pc' = "exited"
    /\ UNCHANGED <<queue, closed, event, cancelled, log, accepted, dropped>>

Dispatcher ==
    /\ \/ CheckContext
       \/ comp["outbox"] = "memory" /\ Dequeue
       \/ comp["outbox"] = "open" /\ DBDequeue
       \/ Publish
    /\ UNCHANGED <<startVars, main, request, jobVars, exit>>

-----------------------------------------------------------------------------
(* End.                                                                     *)

\* ListenAndServe fails.
ServerError == main = "serving" /\ Exit("error")

Signal ==
    /\ main = "serving"
    /\ main' = "draining"
    /\ UNCHANGED <<outboxVars, startVars, request, jobVars, exit>>

\* Mutant: srv.Close in place of srv.Shutdown.
Drained_Any == TRUE

\* srv.Shutdown returns nil.
Drained == Active = {}

\* ShutdownTimeout passes first: os.Exit(1) skips the rest and the defers.
DrainTimeout == main = "draining" /\ ~Drained /\ Exit("error")

Drain ==
    /\ main = "draining"
    /\ Drained
    /\ main' = "drained"
    /\ UNCHANGED <<outboxVars, startVars, request, jobVars, exit>>

cancelJobs ==
    /\ main = "drained"
    /\ main' = "stopping"
    /\ jobsOver' = TRUE
    /\ UNCHANGED <<outboxVars, startVars, request, worker, jobs, submitted, queueClosed, exit>>

\* Mutants: wg.Wait before queue.Close; no wg.Wait.
Stop_WaitFirst ==
    /\ main = "stopping"
    /\ \A w \in Workers : worker[w] = "exited"
    /\ queueClosed' = TRUE
    /\ main' = "stopped"
    /\ UNCHANGED <<outboxVars, startVars, request, worker, jobs, submitted, jobsOver, exit>>
Stop_NoWait ==
    /\ main = "stopping"
    /\ queueClosed' = (comp["queue"] = "memory")
    /\ main' = "stopped"
    /\ UNCHANGED <<outboxVars, startVars, request, worker, jobs, submitted, jobsOver, exit>>

\* Registry.Stop closes the queue, which does nothing on Redis, and then waits
\* for the workers.
Stop ==
    /\ main = "stopping"
    /\ \/ /\ comp["queue"] = "memory" /\ ~queueClosed
          /\ queueClosed' = TRUE
          /\ UNCHANGED main
       \/ /\ \A w \in Workers : worker[w] = "exited"
          /\ comp["queue"] = "memory" => queueClosed
          /\ main' = "stopped"
          /\ UNCHANGED queueClosed
    /\ UNCHANGED <<outboxVars, startVars, request, worker, jobs, submitted, jobsOver, exit>>

cancelDispatcher ==
    /\ main = "stopped"
    /\ main' = "closeOutbox"
    /\ cancelled' = TRUE
    /\ UNCHANGED <<queue, closed, pc, event, log, accepted, dropped, startVars, request, jobVars, exit>>

\* outbox.Close, which does nothing in PostgreSQL; then the publisher's Close.
CloseOutbox ==
    /\ main = "closeOutbox"
    /\ main' = "returning"
    /\ IF comp["outbox"] = "memory" THEN Close ELSE UNCHANGED outboxVars
    /\ UNCHANGED <<startVars, request, jobVars, exit>>

\* main returns: the deferred closers run, the newest first.  A second Close of
\* the same client is an error that is discarded.
Return ==
    /\ main = "returning"
    /\ \/ /\ defers # << >>
          /\ comp' = [comp EXCEPT ![Last(defers)] = "closed"]
          /\ defers' = Front(defers)
          /\ UNCHANGED <<outboxVars, environment, redis, flips, main, request, jobVars, exit>>
       \/ /\ defers = << >>
          /\ Exit("clean")

ShutDown ==
    \/ Drain \/ DrainTimeout \/ cancelJobs \/ Stop
    \/ cancelDispatcher \/ CloseOutbox \/ Return

Next ==
    /\ exit = "none"
    /\ \/ Configure \/ Build \/ RedisFlips \/ Start \/ Killed
       \/ \E r \in Requests : Accept(r) \/ Respond(r)
       \/ \E e \in Events : Emit(e)
       \/ Submit
       \/ \E w \in Workers : Worker(w)
       \/ Dispatcher
       \/ ServerError \/ Signal \/ ShutDown

Spec == Init /\ [][Next]_vars

\* The goroutines are scheduled, Send ends by its timeout, and ShutdownTimeout
\* passes; a request may hang and no signal need ever come.
FairSpec ==
    /\ Spec
    /\ WF_vars(exit = "none" /\ Dispatcher)
    /\ WF_vars(exit = "none" /\ ShutDown)
    /\ \A w \in Workers : WF_vars(exit = "none" /\ Worker(w))

-----------------------------------------------------------------------------
\* Every variable has the type the code gives it.
TypeOK ==
    /\ OutboxTypeOK
    /\ databaseURL \in BOOLEAN
    /\ redisURL \in {"unset", "set", "bad"}
    /\ redis \in BOOLEAN
    /\ flips \in 0..MaxFlips
    /\ comp \in [Components -> {"none", "memory", "open", "closed"}]
    /\ defers \in Seq(Components)
    /\ main \in {"config", "building", "starting", "serving", "draining", "drained",
                 "stopping", "stopped", "closeOutbox", "returning"}
    /\ request \in [Requests -> {"idle", "active", "done"}]
    /\ worker \in [Workers -> {"new", "loop", "dequeue", "handling", "exited"}]
    /\ jobs \in 0..MaxJobs
    /\ submitted \in 0..MaxJobs
    /\ jobsOver \in BOOLEAN
    /\ queueClosed \in BOOLEAN
    /\ exit \in {"none", "clean", "error", "killed"}

\* While a request is being handled, no component it may use has been closed,
\* nor have the job queue and the outbox; while a job is, the clients of the
\* queue and of the dead-letter list are open.  (The dispatcher has no such
\* guarantee: main does not wait for it.)
NoUseAfterClose ==
    /\ Active # {} => ~closed /\ ~queueClosed /\ \A c \in Components : comp[c] \in {"memory", "open"}
    /\ (\E w \in Workers : worker[w] = "handling") =>
            \A c \in {"queue", "deadLetter"} : comp[c] \in {"memory", "open"}

\* When main returns, nothing is cut short but the dispatcher: no request and no
\* job is being handled, and every client that was opened has been closed.
CleanExitCutsNothing ==
    exit = "clean" =>
        /\ Active = {}
        /\ \A w \in Workers : worker[w] = "exited"
        /\ \A c \in Components \ {"outbox"} : comp[c] # "open"

\* While the process serves, every event emitted into the outbox in memory
\* reaches the publisher: the dispatcher survives refused events.
EventsPublished ==
    \A e \in Events : e \in ToSet(accepted) ~>
        (e \in ToSet(log) \cup dropped \/ cancelled \/ exit # "none")

\* A signal ends the process: neither a hanging request, nor an idle or a busy
\* worker, nor a sleeping dispatcher holds main up.
ProcessEnds == main = "draining" ~> exit # "none"
=============================================================================
