----------------------------- MODULE RedisJobs ------------------------------
(***************************************************************************)
(* The job pool when REDIS_URL is set: redisQueue (jobs/redis.go), a       *)
(* stream read through one consumer group, the Registry's workers on top   *)
(* of it (jobs/registry.go) and the dead-letter list, which main puts on   *)
(* Redis (jobs/deadletter_redis.go) or, if its own ping fails, in memory   *)
(* (jobs/deadletter.go).  A stream entry is a job with the Attempts it was *)
(* written with.  Redis outlives the process; Faults names the Redis calls *)
(* that may fail.                                                          *)
(***************************************************************************)
EXTENDS Naturals, Sequences, FiniteSets, Functions

CONSTANTS
    Jobs,        \* the jobs callers may submit
    Workers,     \* the goroutines Registry.Start launches
    MaxRetries,  \* Job.MaxRetries; Registry.Enqueue always sets 2
    MaxCrashes,  \* how often the process may crash (bound)
    MaxUnsure,   \* how many jobs may have an XADD whose reply is lost (bound)
    Faults,      \* the failing calls: "read", "reply", "add", "addReply", "ack", "push"
    NoEntry      \* what a worker holds between two jobs

\* copy tells the two entries of a resent XADD apart (their message ids differ).
Entry == [id : Jobs, attempts : Nat, copy : {0, 1}]

ASSUME RedisJobsAssumption ==
    /\ MaxRetries \in Nat
    /\ MaxCrashes \in Nat
    /\ MaxUnsure \in Nat
    /\ Faults \subseteq {"read", "reply", "add", "addReply", "ack", "push"}
    /\ NoEntry \notin Entry

VARIABLES
    stream,    \* entries the group has not delivered yet
    pel,       \* entries delivered and not acknowledged (pending-entries list)
    dead,      \* the jobs in the dead-letter list on Redis
    deadHere,  \* the jobs in the dead-letter list in memory
    onRedis,   \* main built the dead-letter list on Redis
    pc, held,  \* each worker's control state and its variable job
    serving,   \* FALSE once cancelJobs was called
    crashes,   \* how often the process crashed
    accepted, done, runs,  \* history: Enqueue returned nil; handler did; attempts made
    lost,      \* history: the jobs given up: "stranded" by a crash, a lost reply or a
               \* failed push, "dropped" by a Nack that did not get as far as its
               \* XADD or whose XADD failed, out of "budget"
    unsure     \* history: jobs with an XADD whose reply was lost

deadVars == <<dead, deadHere, onRedis>>
vars == <<stream, pel, deadVars, pc, held, serving, crashes, accepted, done, runs, lost, unsure>>

Nacking == {w \in Workers : pc[w] \in {"requeue", "late"}}
InFlight == {w \in Workers : pc[w] \in {"picked", "handling", "requeue", "late"}}
Held == {held[w].id : w \in InFlight}
Queued == {e.id : e \in Range(stream)}
Buried == dead \cup deadHere
LostJobs == {l[1] : l \in lost}

Init ==
    /\ stream = << >>
    /\ pel = {}
    /\ dead = {}
    /\ deadHere = {}
    /\ onRedis \in BOOLEAN
    /\ pc = [w \in Workers |-> "loop"]
    /\ held = [w \in Workers |-> NoEntry]
    /\ serving = TRUE
    /\ crashes = 0
    /\ accepted = {}
    /\ done = {}
    /\ runs = [j \in Jobs |-> 0]
    /\ lost = {}
    /\ unsure = {}

\* The outcomes of a Redis call: a faulty one may fail, and every call made
\* with a context that is already over does.
Outcome(call, contextOver) ==
    IF contextOver THEN {FALSE} ELSE IF call \in Faults THEN BOOLEAN ELSE {TRUE}

\* What XADD may do: the entries it appends, and whether it reports success.
\* The client resends a command whose reply does not arrive; a reply lost for
\* good is an error although the entry is there.  Bounds: one per job, MaxUnsure.
XAdd(e, contextOver) ==
    {<<IF ok THEN <<e>> ELSE << >>, ok>> : ok \in Outcome("add", contextOver)}
    \cup {out \in {<< <<e>>, FALSE >>, << <<e, [e EXCEPT !.copy = 1]>>, TRUE >>} :
            /\ "addReply" \in Faults /\ ~contextOver
            /\ e.id \notin unsure /\ Cardinality(unsure) < MaxUnsure}

\* The XADD's first reply was lost.
Unsure(out) == Len(out[1]) # IF out[2] THEN 1 ELSE 0

Exit(w) == pc' = [pc EXCEPT ![w] = "exited"]

Release(w) ==
    /\ pc' = [pc EXCEPT ![w] = "loop"]
    /\ held' = [held EXCEPT ![w] = NoEntry]

-----------------------------------------------------------------------------
\* Registry.Enqueue, for a job not submitted before.
Enqueue(j) ==
    /\ serving
    /\ j \notin accepted \cup unsure
    /\ \E out \in XAdd([id |-> j, attempts |-> 0, copy |-> 0], FALSE) :
         /\ stream' = stream \o out[1]
         /\ accepted' = IF out[2] THEN accepted \cup {j} ELSE accepted
         /\ unsure' = IF Unsure(out) THEN unsure \cup {j} ELSE unsure
    /\ UNCHANGED <<pel, deadVars, pc, held, serving, crashes, done, runs, lost>>

\* Mutant: continue instead of return.
CheckContext_Spin(w) ==
    /\ pc[w] = "loop"
    /\ pc' = [pc EXCEPT ![w] = IF serving THEN "dequeue" ELSE "loop"]
    /\ UNCHANGED <<stream, pel, deadVars, held, serving, crashes, accepted, done, runs, lost, unsure>>

CheckContext(w) ==
    /\ pc[w] = "loop"
    /\ pc' = [pc EXCEPT ![w] = IF serving THEN "dequeue" ELSE "exited"]
    /\ UNCHANGED <<stream, pel, deadVars, held, serving, crashes, accepted, done, runs, lost, unsure>>

\* Mutant: the group does not move past a delivered entry.
Undelivered_Same == stream

\* What is left to deliver once the oldest entry is.
Undelivered == Tail(stream)

\* XREADGROUP delivers the oldest new entry; RunAfter is not looked at.
Dequeue(w) ==
    /\ pc[w] = "dequeue"
    /\ stream # << >>
    /\ stream' = Undelivered
    /\ pel' = pel \cup {Head(stream)}
    /\ \/ /\ pc' = [pc EXCEPT ![w] = "picked"]
          /\ held' = [held EXCEPT ![w] = Head(stream)]
          /\ UNCHANGED lost
       \/ /\ "reply" \in Faults   \* delivered, but the reply never arrives
          /\ Exit(w)
          /\ lost' = lost \cup {<<Head(stream).id, "stranded">>}
          /\ UNCHANGED held
    /\ UNCHANGED <<deadVars, serving, crashes, accepted, done, runs, unsure>>

\* Mutant: an empty read is not interrupted by the cancelled context.
DequeueEnds_Deaf(w) ==
    /\ pc[w] = "dequeue"
    /\ serving /\ (stream = << >> \/ "read" \in Faults)
    /\ Exit(w)
    /\ UNCHANGED <<stream, pel, deadVars, held, serving, crashes, accepted, done, runs, lost, unsure>>

\* Nothing new within two seconds, a cancelled context, or an error: in each
\* case Dequeue reports no job and workerLoop returns.
DequeueEnds(w) ==
    /\ pc[w] = "dequeue"
    /\ stream = << >> \/ ~serving \/ "read" \in Faults
    /\ Exit(w)
    /\ UNCHANGED <<stream, pel, deadVars, held, serving, crashes, accepted, done, runs, lost, unsure>>

RunJob(w) ==
    /\ pc[w] = "picked"
    /\ held' = [held EXCEPT ![w].attempts = @ + 1]
    /\ runs' = [runs EXCEPT ![held[w].id] = @ + 1]
    /\ pc' = [pc EXCEPT ![w] = "handling"]
    /\ UNCHANGED <<stream, pel, deadVars, serving, crashes, accepted, done, lost, unsure>>

\* The pending entry a worker was given; it carries the attempts read, not the
\* ones runJob has counted since.
Pending(w) == [held[w] EXCEPT !.attempts = @ - 1]

\* A crash before the XACK leaves what a failing XACK leaves: a job that is done
\* and still pending.
HandlerSucceeds(w) ==
    /\ pc[w] = "handling"
    /\ done' = done \cup {held[w].id}
    /\ \E ok \in Outcome("ack", ~serving) : pel' = IF ok THEN pel \ {Pending(w)} ELSE pel
    /\ Release(w)
    /\ UNCHANGED <<stream, deadVars, serving, crashes, accepted, runs, lost, unsure>>

\* The last attempt fails.  dead.Add is best effort on Redis and nothing
\* acknowledges the entry.
DeadLetter(w) ==
    /\ pc[w] = "handling"
    /\ held[w].attempts > MaxRetries
    /\ \/ /\ onRedis
          /\ \E ok \in Outcome("push", FALSE) :
               /\ dead' = IF ok THEN dead \cup {held[w].id} ELSE dead
               /\ lost' = IF ok THEN lost ELSE lost \cup {<<held[w].id, "stranded">>}
          /\ UNCHANGED deadHere
       \/ /\ ~onRedis
          /\ deadHere' = deadHere \cup {held[w].id}
          /\ UNCHANGED <<dead, lost>>
    /\ Release(w)
    /\ UNCHANGED <<stream, pel, onRedis, serving, crashes, accepted, done, runs, unsure>>

\* Mutants: Nack writes the job as it was read, counts twice.
Requeued_AsRead(e) == [e EXCEPT !.attempts = @ - 1]
Requeued_Twice(e) == [e EXCEPT !.attempts = @ + 2]

\* The retry Nack writes: job.Attempts++, after runJob's own.
Requeued(e) == [e EXCEPT !.attempts = @ + 1]

\* An attempt fails: on its own account, because no handler is registered, or
\* because the 30 seconds of jobCtx passed.  redisQueue.Nack, with the same
\* jobCtx: first it acknowledges the entry and drops the error.
Nack(w) ==
    /\ pc[w] = "handling"
    /\ held[w].attempts <= MaxRetries
    /\ \E expired \in BOOLEAN :
         /\ pc' = [pc EXCEPT ![w] = IF expired THEN "late" ELSE "requeue"]
         /\ \E acked \in Outcome("ack", expired \/ ~serving) :
              pel' = IF acked THEN pel \ {Pending(w)} ELSE pel
    /\ UNCHANGED <<stream, deadVars, held, serving, crashes, accepted, done, runs, lost, unsure>>

\* Then it counts the attempt once more, gives up silently past the budget, else
\* appends the retry.  In between the job may be nowhere on Redis, and jobCtx
\* may end.
Requeue(w) ==
    LET retry == Requeued(held[w])
    IN  /\ w \in Nacking
        /\ \/ /\ retry.attempts > MaxRetries
              /\ lost' = lost \cup {<<retry.id, "budget">>}
              /\ UNCHANGED <<stream, unsure>>
           \/ /\ retry.attempts <= MaxRetries
              /\ \E over \in {TRUE, ~serving \/ pc[w] = "late"} : \E out \in XAdd(retry, over) :
                   /\ stream' = stream \o out[1]
                   /\ lost' = IF out[1] = << >> THEN lost \cup {<<retry.id, "dropped">>} ELSE lost
                   /\ unsure' = IF Unsure(out) THEN unsure \cup {retry.id} ELSE unsure
        /\ Release(w)
        /\ UNCHANGED <<pel, deadVars, serving, crashes, accepted, done, runs>>

-----------------------------------------------------------------------------
CancelJobs ==
    /\ serving
    /\ serving' = FALSE
    /\ UNCHANGED <<stream, pel, deadVars, pc, held, crashes, accepted, done, runs, lost, unsure>>

\* The process dies and is started again: what is on Redis survives, the jobs
\* in the workers' hands and the dead letters in memory do not.  buildJobQueue
\* falls back to a queue in memory if its ping fails, and then nobody reads or
\* writes the stream; buildDeadLetter asks Redis for itself.
CrashAndRestart ==
    /\ crashes < MaxCrashes
    /\ crashes' = crashes + 1
    /\ serving' \in BOOLEAN
    /\ pc' = [w \in Workers |-> IF serving' THEN "loop" ELSE "exited"]
    /\ held' = [w \in Workers |-> NoEntry]
    /\ onRedis' \in BOOLEAN
    /\ deadHere' = {}
    /\ lost' = lost \cup {<<held[w].id, "dropped">> : w \in Nacking}
                     \cup {<<held[w].id, "stranded">> : w \in InFlight \ Nacking}
                     \cup {<<j, "stranded">> : j \in deadHere}
    /\ UNCHANGED <<stream, pel, dead, accepted, done, runs, unsure>>

Worker(w) ==
    \/ CheckContext(w)
    \/ Dequeue(w)
    \/ DequeueEnds(w)
    \/ RunJob(w)
    \/ HandlerSucceeds(w)
    \/ DeadLetter(w)
    \/ Nack(w)
    \/ Requeue(w)

Next ==
    \/ \E j \in Jobs : Enqueue(j)
    \/ \E w \in Workers : Worker(w)
    \/ CancelJobs
    \/ CrashAndRestart

Spec == Init /\ [][Next]_vars

\* The goroutines of the pool are scheduled.
FairSpec == Spec /\ \A w \in Workers : WF_vars(Worker(w))
-----------------------------------------------------------------------------
\* Every variable has the type the code gives it.
TypeOK ==
    /\ stream \in Seq(Entry)
    /\ pel \subseteq Entry
    /\ dead \subseteq Jobs
    /\ deadHere \subseteq Jobs
    /\ onRedis \in BOOLEAN
    /\ pc \in [Workers -> {"loop", "dequeue", "picked", "handling", "requeue", "late", "exited"}]
    /\ held \in [Workers -> Entry \cup {NoEntry}]
    /\ serving \in BOOLEAN
    /\ crashes \in 0..MaxCrashes
    /\ accepted \subseteq Jobs
    /\ done \subseteq Jobs
    /\ runs \in [Jobs -> Nat]
    /\ lost \subseteq Jobs \X {"stranded", "dropped", "budget"}
    /\ unsure \subseteq Jobs

\* A job whose Enqueue returned nil stays visible until its fate is known: it
\* is in the stream, in a worker's hands, finished or dead-lettered, unless a
\* crash, a failed Redis call or an expired context took it; Nack's own silent
\* give-up never does.  A job taken anywhere but in Nack is still pending, for an
\* operator to claim; between Nack's XACK and XADD nothing of it is on Redis.
\* Only a lost reply puts a job there that was refused.
NoJobVanishes ==
    LET known == Queued \cup Held \cup done \cup Buried \cup LostJobs
    IN  /\ accepted \subseteq known
        /\ known \subseteq accepted \cup unsure
        /\ \A l \in lost :
             /\ l[2] # "budget"
             /\ l[2] = "stranded" => \E e \in pel : e.id = l[1]

SameEntry(e, f) == e.id = f.id /\ e.copy = f.copy

\* The consumer group hands an entry to one worker, and Nack removes the old
\* entry's job before it appends the retry: no entry is at two places, and no
\* job is unless an XADD of it was sent twice.
NoJobTwice ==
    /\ \A i, k \in DOMAIN stream : SameEntry(stream[i], stream[k]) => i = k
    /\ \A v, w \in InFlight : SameEntry(held[v], held[w]) => v = w
    /\ \A i \in DOMAIN stream, w \in InFlight : ~SameEntry(stream[i], held[w])
    /\ LET over == done \cup Buried \cup LostJobs
       IN  /\ Queued \cap (Held \cup over) \subseteq unsure
           /\ Held \cap over \subseteq unsure
           /\ done \cap (Buried \cup LostJobs) \subseteq unsure

\* "retried ... up to `MaxRetries` times" (docs/REFERENCE.md): whatever fails, no
\* job is run more often than that and once; only the second entry of a resent
\* XADD brings a second budget.
RetryBudget ==
    \A j \in Jobs : runs[j] <= (MaxRetries + 1) * (IF j \in unsure THEN 2 ELSE 1)

\* While a worker is left, no accepted job is forgotten.
JobsFinishWhilePoolLives ==
    \A j \in Jobs : j \in accepted ~>
        \/ j \in done \cup Buried \cup LostJobs
        \/ \A w \in Workers : pc[w] = "exited"

\* Cancelling the context ends every worker, even one blocked in XREADGROUP.
ShutdownEnds == (~serving) ~> (serving \/ \A w \in Workers : pc[w] = "exited")

-----------------------------------------------------------------------------
(* What the documentation says of the job system, on Redis.                 *)

\* "Each job runs with a 30s timeout; failed jobs are retried": without a
\* crash, a shutdown or a Redis failure no failed job is given up early.
FailuresAreRetried == serving /\ crashes = 0 => lost = {}

\* "up to `MaxRetries` times (default 2).  After that the job lands in the
\* dead-letter list": a dead-lettered job has had all its retries.
BuriedAfterAllRetries == \A j \in Buried : runs[j] > MaxRetries
=============================================================================
