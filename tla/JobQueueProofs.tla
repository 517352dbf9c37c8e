--------------------------- MODULE JobQueueProofs ---------------------------
(***************************************************************************)
(* Proofs about the job pool of JobQueue, for every set of jobs and        *)
(* workers and every retry limit: no accepted job vanishes or is           *)
(* duplicated, the retry budget and the backoffs are respected to the      *)
(* letter, and no wakeup is lost.                                          *)
(***************************************************************************)
EXTENDS JobQueue, FiniteSetTheorems, SequenceTheorems, TLAPS

-----------------------------------------------------------------------------
(* The helpers of the model.                                                *)

\* backoff is a duration.
LEMMA BackoffNat == \A n \in Nat : backoff(n) \in Nat
BY DEF backoff

\* Signal leaves every worker in a control state, wakes only waiters, and
\* sends them nowhere but to the head of Dequeue.
LEMMA SignalledProperties ==
    ASSUME NEW f \in [Workers -> PC], NEW g \in Signalled(f)
    PROVE  /\ g \in [Workers -> PC]
           /\ \A w \in Workers : g[w] = f[w] \/ (f[w] = "waiting" /\ g[w] = "dequeue")
BY DEF Signalled, PC

\* Appending a job adds its record and keeps the records distinct if its
\* identity is new.
LEMMA AppendRecord ==
    ASSUME NEW s \in Seq(JobRec), NEW r \in JobRec
    PROVE  /\ Append(s, r) \in Seq(JobRec)
           /\ Range(Append(s, r)) = Range(s) \cup {r}
           /\ Distinct(s) /\ (\A x \in Range(s) : x.id # r.id) => Distinct(Append(s, r))
<1> DEFINE t == Append(s, r)
<1>1. /\ t \in Seq(JobRec) /\ Len(t) = Len(s) + 1
      /\ \A i \in 1..Len(s) : t[i] = s[i]
      /\ t[Len(s) + 1] = r
  BY AppendProperties
<1>2. Len(s) \in Nat /\ DOMAIN s = 1..Len(s) /\ DOMAIN t = 1..Len(t)
  BY <1>1
<1> HIDE DEF t
<1>3. Range(t) = Range(s) \cup {r}
  BY <1>1, <1>2 DEF Range
<1>4. ASSUME Distinct(s), \A x \in Range(s) : x.id # r.id
      PROVE  Distinct(t)
  <2>1. \A i \in 1..Len(s) : s[i].id # r.id
    BY <1>2, <1>4 DEF Range
  <2> QED BY <1>1, <1>2, <1>4, <2>1 DEF Distinct
<1> QED BY <1>1, <1>3, <1>4 DEF t

\* Popping the head removes one record, whose identity is not met again.
LEMMA PopRecord ==
    ASSUME NEW s \in Seq(JobRec), s # << >>
    PROVE  /\ Head(s) \in JobRec
           /\ Tail(s) \in Seq(JobRec)
           /\ Range(s) = Range(Tail(s)) \cup {Head(s)}
           /\ Distinct(s) => Distinct(Tail(s)) /\ \A x \in Range(Tail(s)) : x.id # Head(s).id
<1> DEFINE t == Tail(s)
<1>1. /\ Head(s) \in JobRec /\ t \in Seq(JobRec) /\ Len(t) = Len(s) - 1
      /\ \A i \in 1..Len(t) : t[i] = s[i + 1]
  BY HeadTailProperties
<1>2. Head(s) = s[1] /\ Len(s) \in Nat \ {0} /\ DOMAIN s = 1..Len(s) /\ DOMAIN t = 1..Len(t)
  BY <1>1
<1> HIDE DEF t
<1>3. Range(s) = Range(t) \cup {Head(s)}
  <2>1. ASSUME NEW x \in Range(s) PROVE x \in Range(t) \cup {Head(s)}
    <3>1. PICK i \in 1..Len(s) : x = s[i]
      BY <1>2 DEF Range
    <3>2. i = 1 \/ (i - 1 \in 1..Len(t) /\ t[i - 1] = s[i])
      BY <1>1, <1>2
    <3> QED BY <1>2, <3>1, <3>2 DEF Range
  <2>2. Range(t) \cup {Head(s)} \subseteq Range(s)
    BY <1>1, <1>2 DEF Range
  <2> QED BY <2>1, <2>2
<1>4. ASSUME Distinct(s)
      PROVE  Distinct(t) /\ \A x \in Range(t) : x.id # Head(s).id
  <2>1. \A i, k \in 1..Len(t) : t[i].id = t[k].id => i + 1 = k + 1
    BY <1>1, <1>2, <1>4 DEF Distinct
  <2>2. \A i \in 1..Len(t) : t[i].id # s[1].id
    BY <1>1, <1>2, <1>4 DEF Distinct
  <2> QED BY <1>1, <1>2, <2>1, <2>2 DEF Distinct, Range
<1> QED BY <1>1, <1>3, <1>4 DEF t
-----------------------------------------------------------------------------
(* Type correctness, action by action.                                      *)

\* The empty queue, the idle workers and the empty histories are well typed.
LEMMA TypeInit == Init => TypeOK
<1> SUFFICES ASSUME Init PROVE TypeOK
  OBVIOUS
<1>1. items \in Seq(JobRec) /\ dead \in Seq(JobRec)
  BY EmptySeq DEF Init
<1> QED BY <1>1 DEF Init, TypeOK, PC

\* Enqueue appends a well-typed job or refuses it.
LEMMA TypeEnqueue ==
    ASSUME TypeOK, NEW j \in Jobs, Enqueue(j)
    PROVE  TypeOK'
<1>1. CASE closed
  BY <1>1 DEF TypeOK, Enqueue
<1>2. CASE ~closed
  <2> DEFINE r == [id |-> j, attempts |-> 0, runAfter |-> now]
  <2>1. r \in JobRec
    BY DEF TypeOK, JobRec
  <2>2. items' = Append(items, r)
    BY <1>2 DEF Enqueue
  <2> HIDE DEF r
  <2>3. items' \in Seq(JobRec)
    BY <2>1, <2>2, AppendRecord DEF TypeOK
  <2>4. pc' \in [Workers -> PC]
    BY <1>2, SignalledProperties DEF TypeOK, Enqueue
  <2> QED
    BY <1>2, <2>3, <2>4 DEF TypeOK, Enqueue
<1> QED BY <1>1, <1>2

\* A turn of Dequeue's loop rotates, pops or leaves the queue.
LEMMA TypeDequeue ==
    ASSUME TypeOK, NEW w \in Workers, Dequeue(w)
    PROVE  TypeOK'
<1>1. pc' \in [Workers -> PC]
  BY DEF TypeOK, Dequeue, Rotated, PC
<1>2. CASE UNCHANGED <<items, held, timer>>
  BY <1>1, <1>2 DEF TypeOK, Dequeue, Rotated, history
<1>3. CASE items # << >>
  <2> DEFINE r == Head(items)
  <2>1. r \in JobRec /\ Tail(items) \in Seq(JobRec)
    BY <1>3, PopRecord DEF TypeOK
  <2>2. r.runAfter \in Nat
    BY <2>1 DEF JobRec
  <2>3. Append(Tail(items), r) \in Seq(JobRec)
    BY <2>1, AppendRecord
  <2>4. /\ items' \in {items, Tail(items), Append(Tail(items), r)}
        /\ timer' \in {timer, [timer EXCEPT ![w] = r.runAfter]}
        /\ held' \in {held, [held EXCEPT ![w] = r]}
    BY <1>3 DEF Dequeue, Rotated
  <2> HIDE DEF r
  <2>5. items' \in Seq(JobRec)
    BY <2>1, <2>3, <2>4 DEF TypeOK
  <2>6. timer' \in [Workers -> Nat] /\ held' \in [Workers -> JobRec \cup {NoJob}]
    BY <2>1, <2>2, <2>4 DEF TypeOK
  <2> QED BY <1>1, <2>5, <2>6 DEF TypeOK, Dequeue, Rotated, history
<1> QED BY <1>2, <1>3 DEF Dequeue, Rotated

\* runJob's Attempts++ leaves a job a job.
LEMMA TypeRunJob ==
    ASSUME TypeOK, HeldJobs, NEW w \in Workers, RunJob(w)
    PROVE  TypeOK'
<1>1. held[w] \in JobRec
  BY DEF HeldJobs, InFlight, RunJob
<1>2. [held[w] EXCEPT !.attempts = @ + 1] \in JobRec /\ held[w].id \in Jobs
  BY <1>1 DEF JobRec
<1>3. held' \in [Workers -> JobRec \cup {NoJob}]
  BY <1>2 DEF TypeOK, RunJob
<1>4. runs' \in [Jobs -> Nat] /\ pc' \in [Workers -> PC]
  BY <1>2 DEF TypeOK, RunJob, PC
<1> QED BY <1>3, <1>4 DEF TypeOK, RunJob, queueVars

\* A returning handler clears the worker's job or leaves it to be retried.
LEMMA TypeHandlerReturns ==
    ASSUME TypeOK, HeldJobs, NEW w \in Workers, HandlerReturns(w)
    PROVE  TypeOK'
<1>1. held[w].id \in Jobs
  BY DEF HeldJobs, InFlight, HandlerReturns, JobRec
<1>2. pc' \in [Workers -> PC] /\ held' \in [Workers -> JobRec \cup {NoJob}] /\ done' \in SUBSET Jobs
  BY <1>1 DEF TypeOK, HandlerReturns, PC
<1> QED BY <1>2 DEF TypeOK, HandlerReturns, queueVars

\* The dead-letter list takes a job, never the empty one.
LEMMA TypeDeadLetter ==
    ASSUME TypeOK, HeldJobs, NEW w \in Workers, DeadLetter(w)
    PROVE  TypeOK'
<1>1. held[w] \in JobRec
  BY DEF HeldJobs, InFlight, DeadLetter, Exhausted
<1>2. dead' \in Seq(JobRec)
  BY <1>1, AppendRecord DEF TypeOK, DeadLetter, Exhausted
<1>3. pc' \in [Workers -> PC] /\ held' \in [Workers -> JobRec \cup {NoJob}]
  BY DEF TypeOK, DeadLetter, Exhausted, PC
<1> QED BY <1>2, <1>3 DEF TypeOK, DeadLetter, Exhausted, queueVars, history

\* The record Nack puts back: the same job and attempts, later.
LEMMA NackRecord ==
    ASSUME TypeOK, NEW r \in JobRec
    PROVE  /\ Retry(r) \in JobRec
           /\ Retry(r).id = r.id
           /\ Retry(r).attempts = r.attempts
<1>1. r.attempts \in Nat
  BY DEF JobRec
<1>2. backoff(r.attempts) \in Nat /\ now \in Nat
  BY <1>1, BackoffNat DEF TypeOK
<1>3. now + backoff(r.attempts) \in Nat
  BY <1>2
<1> QED BY <1>3 DEF JobRec, Retry

\* Nack puts a job back, never the empty one.
LEMMA TypeNack ==
    ASSUME TypeOK, HeldJobs, NEW w \in Workers, Nack(w)
    PROVE  TypeOK'
<1> DEFINE r == Retry(held[w])
<1>1. held[w] \in JobRec /\ held[w].id \in Jobs
  BY DEF HeldJobs, InFlight, Nack, Exhausted, JobRec
<1>2. r \in JobRec
  BY <1>1, NackRecord
<1>3. items' \in {items, Append(items, r)}
  BY DEF Nack, Exhausted
<1> HIDE DEF r
<1>4. items' \in Seq(JobRec)
  <2>1. items \in Seq(JobRec)
    BY DEF TypeOK
  <2>2. Append(items, r) \in Seq(JobRec)
    BY <1>2, <2>1, AppendRecord
  <2> QED BY <1>3, <2>1, <2>2
<1>5. [pc EXCEPT ![w] = "loop"] \in [Workers -> PC]
  BY DEF TypeOK, PC
<1>6. pc' \in [Workers -> PC]
  BY <1>5, SignalledProperties DEF Nack, Exhausted
<1>7. held' \in [Workers -> JobRec \cup {NoJob}] /\ lost' \in SUBSET Jobs
  BY <1>1 DEF TypeOK, Nack, Exhausted
<1> QED BY <1>4, <1>6, <1>7 DEF TypeOK, Nack, Exhausted

\* Every step of the pool keeps the types, given that workers hold jobs.
LEMMA TypeNext == TypeOK /\ HeldJobs /\ [Next]_vars => TypeOK'
<1> SUFFICES ASSUME TypeOK, HeldJobs, [Next]_vars PROVE TypeOK'
  OBVIOUS
<1> USE DEF queueVars, workerVars, history
<1>1. ASSUME NEW j \in Jobs, Register(j) PROVE TypeOK'
  BY <1>1 DEF TypeOK, Register
<1>2. ASSUME NEW j \in Jobs, Enqueue(j) PROVE TypeOK'
  BY <1>2, TypeEnqueue
<1>3. CASE Start
  BY <1>3 DEF TypeOK, Start, PC
<1>4. ASSUME NEW w \in Workers, CheckContext(w) PROVE TypeOK'
  BY <1>4 DEF TypeOK, CheckContext, PC
<1>5. ASSUME NEW w \in Workers, Dequeue(w) PROVE TypeOK'
  BY <1>5, TypeDequeue
<1>6. ASSUME NEW w \in Workers, Wake(w) PROVE TypeOK'
  BY <1>6 DEF TypeOK, Wake, PC
<1>7. ASSUME NEW w \in Workers, RunJob(w) PROVE TypeOK'
  BY <1>7, TypeRunJob
<1>8. ASSUME NEW w \in Workers, HandlerReturns(w) PROVE TypeOK'
  BY <1>8, TypeHandlerReturns
<1>9. ASSUME NEW w \in Workers, DeadLetter(w) PROVE TypeOK'
  BY <1>9, TypeDeadLetter
<1>10. ASSUME NEW w \in Workers, Nack(w) PROVE TypeOK'
  BY <1>10, TypeNack
<1>11. CASE CancelJobs
  BY <1>11 DEF TypeOK, CancelJobs
<1>12. CASE Close
  BY <1>12 DEF TypeOK, Close, Broadcast, PC
<1>13. CASE WaitGroupDone
  BY <1>13 DEF TypeOK, WaitGroupDone
<1>14. CASE Tick
  BY <1>14 DEF TypeOK, Tick
<1>15. CASE UNCHANGED vars
  BY <1>15 DEF TypeOK, vars
<1> QED
  BY <1>1, <1>2, <1>3, <1>4, <1>5, <1>6, <1>7, <1>8, <1>9, <1>10, <1>11,
     <1>12, <1>13, <1>14, <1>15 DEF Next, Worker, Stopped
-----------------------------------------------------------------------------
(* The inductive invariant.                                                 *)

\* The workers in the middle of a job, and the jobs they hold, depend only on
\* the control states that are in flight.
Quiet(w) == pc'[w] = pc[w] \/ ({pc[w], pc'[w]} \cap {"picked", "handling", "failed"} = {})

\* A step that moves no job between places keeps every invariant about places:
\* checking the context, sleeping, waking, registering, shutting down.
LEMMA QuietStep ==
    ASSUME JobInv, \A w \in Workers : Quiet(w), closed => closed',
           UNCHANGED <<items, dead, held, accepted, done, lost, runs>>
    PROVE  (HeldJobs /\ FreshJobs /\ NoJobVanishes /\ NoJobTwice /\ RetryBudget)'
<1>1. InFlight' = InFlight /\ \A w \in InFlight : pc'[w] = pc[w]
  BY DEF InFlight, Quiet
<1>2. Held' = Held /\ Queued' = Queued /\ Buried' = Buried
  BY <1>1 DEF Held, Queued, Buried
<1>3. HeldJobs' /\ FreshJobs'
  BY <1>1 DEF JobInv, HeldJobs, FreshJobs
<1>4. NoJobVanishes'
  BY <1>2 DEF JobInv, NoJobVanishes
<1>5. NoJobTwice'
  BY <1>1, <1>2 DEF JobInv, NoJobTwice, Distinct
<1>6. RetryBudget'
  BY <1>1 DEF JobInv, RetryBudget
<1> QED BY <1>3, <1>4, <1>5, <1>6

\* A submitted job enters the queue, and nothing else; a refused one nowhere.
LEMMA InvEnqueue ==
    ASSUME JobInv, NEW j \in Jobs, Enqueue(j)
    PROVE  (HeldJobs /\ FreshJobs /\ NoJobVanishes /\ NoJobTwice /\ RetryBudget)'
<1>1. CASE closed
  BY <1>1, QuietStep DEF Enqueue, Quiet
<1>2. CASE ~closed
  <2> DEFINE r == [id |-> j, attempts |-> 0, runAfter |-> now]
  <2>1. r \in JobRec /\ r.id = j /\ r.attempts = 0 /\ items \in Seq(JobRec)
    BY DEF JobInv, TypeOK, JobRec
  <2>2. items' = Append(items, r)
    BY <1>2 DEF Enqueue
  <2> HIDE DEF r
  <2>3. j \notin Queued \cup Held \cup done \cup Buried \cup lost /\ runs[j] = 0
    BY DEF JobInv, NoJobVanishes, FreshJobs, Enqueue
  <2>4. Range(items') = Range(items) \cup {r} /\ Distinct(items')
    <3>1. \A x \in Range(items) : x.id # r.id
      BY <2>1, <2>3 DEF Queued
    <3> QED BY <2>1, <2>2, <3>1, AppendRecord DEF JobInv, NoJobTwice
  <2>5. Queued' = Queued \cup {j} /\ Buried' = Buried
    BY <1>2, <2>1, <2>4 DEF Queued, Buried, Enqueue
  <2>6. \A w \in Workers : Quiet(w)
    BY <1>2, SignalledProperties DEF Quiet, Enqueue, JobInv, TypeOK
  <2>7. InFlight' = InFlight /\ \A w \in InFlight : pc'[w] = pc[w]
    BY <2>6 DEF InFlight, Quiet
  <2>8. Held' = Held
    BY <2>7 DEF Held, Enqueue
  <2>9. HeldJobs' /\ FreshJobs'
    BY <1>2, <2>7 DEF JobInv, HeldJobs, FreshJobs, Enqueue
  <2>10. NoJobVanishes'
    BY <1>2, <2>5, <2>8 DEF JobInv, NoJobVanishes, Enqueue
  <2>11. NoJobTwice'
    BY <2>3, <2>4, <2>5, <2>7, <2>8 DEF JobInv, NoJobTwice, Enqueue, Distinct
  <2>12. RetryBudget'
    BY <2>1, <2>3, <2>4, <2>7, JobQueueAssumption DEF JobInv, RetryBudget, Enqueue
  <2> QED BY <2>9, <2>10, <2>11, <2>12
<1> QED BY <1>1, <1>2

\* A job that is rotated stays in the queue; one that is popped passes from the
\* queue to the worker's hands.
LEMMA InvDequeue ==
    ASSUME JobInv, NEW w \in Workers, Dequeue(w)
    PROVE  (HeldJobs /\ FreshJobs /\ NoJobVanishes /\ NoJobTwice /\ RetryBudget)'
<1> USE DEF history
<1> DEFINE r == Head(items)
<1>0. pc \in [Workers -> PC] /\ items \in Seq(JobRec) /\ held \in [Workers -> JobRec \cup {NoJob}]
  BY DEF JobInv, TypeOK
<1>1. CASE UNCHANGED <<items, held, timer>>
  <2>1. \A v \in Workers : Quiet(v)
    BY <1>0, <1>1 DEF Dequeue, Rotated, Quiet
  <2> QED BY <1>1, <2>1, QuietStep DEF Dequeue, Rotated
<1>2. CASE items # << >> /\ items' = Append(Tail(items), r) /\ pc'[w] = "sleeping" /\ UNCHANGED held
  <2>1. \A v \in Workers : Quiet(v)
    BY <1>0, <1>2 DEF Dequeue, Rotated, Quiet
  <2>2. InFlight' = InFlight /\ \A v \in InFlight : pc'[v] = pc[v]
    BY <2>1 DEF InFlight, Quiet
  <2>3. Range(items') = Range(items) /\ Distinct(items')
    BY <1>0, <1>2, PopRecord, AppendRecord DEF JobInv, NoJobTwice
  <2>4. Queued' = Queued /\ Buried' = Buried /\ Held' = Held
    BY <1>2, <2>2, <2>3 DEF Queued, Buried, Held, Dequeue, Rotated
  <2>5. HeldJobs' /\ FreshJobs'
    BY <1>2, <2>2 DEF JobInv, HeldJobs, FreshJobs, Dequeue, Rotated
  <2>6. NoJobVanishes'
    BY <2>4 DEF JobInv, NoJobVanishes, Dequeue, Rotated
  <2>7. NoJobTwice'
    BY <1>2, <2>2, <2>3, <2>4 DEF JobInv, NoJobTwice, Dequeue, Rotated, Distinct
  <2>8. RetryBudget'
    BY <1>2, <2>2, <2>3 DEF JobInv, RetryBudget, Dequeue, Rotated
  <2> QED BY <2>5, <2>6, <2>7, <2>8
<1>3. CASE items # << >> /\ items' = Tail(items) /\ held' = [held EXCEPT ![w] = r]
           /\ pc' = [pc EXCEPT ![w] = "picked"]
  <2>1. r \in JobRec /\ Range(items) = Range(items') \cup {r} /\ Distinct(items')
        /\ \A x \in Range(items') : x.id # r.id
    BY <1>0, <1>3, PopRecord DEF JobInv, NoJobTwice
  <2> HIDE DEF r
  <2>2. w \notin InFlight /\ InFlight' = InFlight \cup {w}
        /\ \A v \in InFlight : pc'[v] = pc[v] /\ held'[v] = held[v]
    BY <1>0, <1>3 DEF InFlight, Dequeue, Rotated
  <2>3. held'[w] = r /\ pc'[w] = "picked"
    BY <1>0, <1>3
  <2>4. Held' = Held \cup {r.id}
    BY <2>2, <2>3 DEF Held
  <2>5. Queued = Queued' \cup {r.id} /\ r.id \notin Queued' /\ Buried' = Buried
    BY <2>1 DEF Queued, Buried, Dequeue, Rotated
  <2>6. HeldJobs' /\ FreshJobs'
    BY <2>1, <2>2, <2>3 DEF JobInv, HeldJobs, FreshJobs, RetryBudget, Dequeue, Rotated
  <2>7. NoJobVanishes'
    BY <2>4, <2>5 DEF JobInv, NoJobVanishes, Dequeue, Rotated
  <2>8. \A v \in InFlight : held[v].id # r.id
    BY <2>5 DEF JobInv, NoJobTwice, Held
  <2>9. NoJobTwice'
    <3>1. \A u, v \in InFlight' : held'[u].id = held'[v].id => u = v
      BY <2>2, <2>3, <2>8 DEF JobInv, NoJobTwice
    <3>2. Distinct(dead)'
      BY DEF JobInv, NoJobTwice, Dequeue, Rotated, Distinct
    <3>3. UNCHANGED <<done, lost>>
      BY DEF Dequeue
    <3> QED BY <2>1, <2>4, <2>5, <3>1, <3>2, <3>3 DEF JobInv, NoJobTwice
  <2>10. RetryBudget'
    BY <2>1, <2>2, <2>3 DEF JobInv, RetryBudget, Dequeue, Rotated
  <2> QED BY <2>6, <2>7, <2>9, <2>10
<1> QED BY <1>0, <1>1, <1>2, <1>3 DEF Dequeue, Rotated

\* The entries of the queue and of the dead-letter list are job records.
LEMMA RecordsTyped ==
    ASSUME TypeOK
    PROVE  \A r \in Range(items) \cup Range(dead) : r.id \in Jobs
<1>1. Range(items) \subseteq JobRec /\ Range(dead) \subseteq JobRec
  BY RangeOfSeq DEF TypeOK
<1> QED BY <1>1 DEF JobRec

\* runJob counts the attempt in the job and in the history alike.
LEMMA InvRunJob ==
    ASSUME JobInv, NEW w \in Workers, RunJob(w)
    PROVE  (HeldJobs /\ FreshJobs /\ NoJobVanishes /\ NoJobTwice /\ RetryBudget)'
<1> USE DEF queueVars
<1> DEFINE j == held[w].id
           n == held[w].attempts
<1>0. pc \in [Workers -> PC] /\ held \in [Workers -> JobRec \cup {NoJob}] /\ runs \in [Jobs -> Nat]
      /\ MaxRetries \in Nat
  BY JobQueueAssumption DEF JobInv, TypeOK
<1>1. w \in InFlight /\ held[w] \in JobRec /\ n <= MaxRetries
  BY DEF JobInv, HeldJobs, InFlight, RunJob
<1>2. j \in Jobs /\ n \in Nat /\ runs[j] = n /\ j \in Held
  BY <1>1 DEF JobRec, JobInv, RetryBudget, Held
<1>3. /\ held'[w] \in JobRec /\ held'[w].id = j /\ held'[w].attempts = n + 1
      /\ runs'[j] = n + 1
  BY <1>0, <1>1, <1>2 DEF RunJob, JobRec
<1>4. /\ \A v \in Workers \ {w} : held'[v] = held[v] /\ pc'[v] = pc[v]
      /\ \A k \in Jobs \ {j} : runs'[k] = runs[k]
      /\ pc'[w] \in {"handling", "failed"}
  BY <1>0 DEF RunJob
<1> HIDE DEF n
<1>5. InFlight' = InFlight
  BY <1>1, <1>4 DEF InFlight
<1>6. \A v \in InFlight : held'[v].id = held[v].id
  BY <1>3, <1>4 DEF InFlight
<1>7. Held' = Held /\ Queued' = Queued /\ Buried' = Buried
  BY <1>5, <1>6 DEF Held, Queued, Buried, RunJob
<1>8. HeldJobs'
  BY <1>0, <1>1, <1>2, <1>3, <1>4, <1>5 DEF JobInv, HeldJobs, InFlight
<1>9. FreshJobs'
  <2>1. j \in accepted
    BY <1>2 DEF JobInv, NoJobVanishes
  <2> QED BY <1>4, <2>1 DEF JobInv, FreshJobs, RunJob
<1>10. NoJobVanishes'
  BY <1>7 DEF JobInv, NoJobVanishes, RunJob
<1>11. NoJobTwice'
  BY <1>5, <1>6, <1>7 DEF JobInv, NoJobTwice, RunJob, Distinct
<1>12. RetryBudget'
  <2>1. j \notin Queued \cup Buried \cup lost
    BY <1>2 DEF JobInv, NoJobTwice
  <2>2. \A k \in Jobs : runs'[k] <= MaxRetries + 1
    BY <1>0, <1>1, <1>2, <1>3, <1>4 DEF JobInv, RetryBudget
  <2>3. \A r \in Range(items') : r.attempts = runs'[r.id] /\ r.attempts <= MaxRetries
    <3>1. \A r \in Range(items) : r.id \in Jobs /\ r.id # j
      BY <2>1, RecordsTyped DEF Queued, JobInv
    <3> QED BY <1>4, <3>1 DEF JobInv, RetryBudget, RunJob
  <2>4. \A r \in Range(dead') : r.attempts = runs'[r.id] /\ r.attempts = MaxRetries + 1
    <3>1. \A r \in Range(dead) : r.id \in Jobs /\ r.id # j
      BY <2>1, RecordsTyped DEF Buried, JobInv
    <3> QED BY <1>4, <3>1 DEF JobInv, RetryBudget, RunJob
  <2>5. \A v \in InFlight : held'[v].attempts = runs'[held'[v].id]
    <3>1. ASSUME NEW v \in InFlight, v # w PROVE held'[v].attempts = runs'[held'[v].id]
      <4>1. held[v].id # j /\ held[v].id \in Jobs /\ v \in Workers
        BY <1>1, <3>1 DEF JobInv, NoJobTwice, HeldJobs, JobRec, InFlight
      <4> QED BY <1>4, <3>1, <4>1 DEF JobInv, RetryBudget
    <3> QED BY <1>3, <3>1
  <2>6. \A k \in lost' : runs'[k] \in 1..MaxRetries
    BY <1>4, <2>1 DEF JobInv, RetryBudget, RunJob, TypeOK
  <2> QED BY <1>5, <2>2, <2>3, <2>4, <2>5, <2>6 DEF RetryBudget
<1> QED BY <1>8, <1>9, <1>10, <1>11, <1>12

\* A worker that lets go of its job: what the three ways of doing it share.
LEMMA Release ==
    ASSUME JobInv, NEW w \in InFlight, pc'[w] = "loop", held' = [held EXCEPT ![w] = NoJob],
           \A v \in Workers \ {w} : Quiet(v)
    PROVE  /\ InFlight' = InFlight \ {w}
           /\ \A v \in InFlight' : pc'[v] = pc[v] /\ held'[v] = held[v]
           /\ Held = Held' \cup {held[w].id} /\ held[w].id \notin Held'
           /\ HeldJobs'
           /\ \A u, v \in InFlight' : held'[u].id = held'[v].id => u = v
           /\ held[w].id \in Jobs /\ held[w].id \in accepted
           /\ held[w].id \notin Queued \cup done \cup Buried \cup lost
<1>0. held \in [Workers -> JobRec \cup {NoJob}] /\ InFlight \subseteq Workers
  BY DEF JobInv, TypeOK, InFlight
<1>1. InFlight' = InFlight \ {w}
  BY DEF InFlight, Quiet
<1>2. \A v \in InFlight' : pc'[v] = pc[v] /\ held'[v] = held[v]
  BY <1>0, <1>1 DEF InFlight, Quiet
<1>3. Held = Held' \cup {held[w].id} /\ held[w].id \notin Held'
  BY <1>1, <1>2 DEF Held, JobInv, NoJobTwice
<1>4. HeldJobs'
  BY <1>1, <1>2 DEF JobInv, HeldJobs
<1>5. \A u, v \in InFlight' : held'[u].id = held'[v].id => u = v
  BY <1>1, <1>2 DEF JobInv, NoJobTwice
<1>6. held[w].id \in Jobs /\ held[w].id \in Held
  BY DEF JobInv, HeldJobs, JobRec, Held
<1>7. held[w].id \in accepted /\ held[w].id \notin Queued \cup done \cup Buried \cup lost
  BY <1>6 DEF JobInv, NoJobVanishes, NoJobTwice
<1> QED BY <1>1, <1>2, <1>3, <1>4, <1>5, <1>6, <1>7

\* A job whose handler returned nil passes from the worker's hands to done.
LEMMA InvHandlerReturns ==
    ASSUME JobInv, NEW w \in Workers, HandlerReturns(w)
    PROVE  (HeldJobs /\ FreshJobs /\ NoJobVanishes /\ NoJobTwice /\ RetryBudget)'
<1> USE DEF queueVars
<1>0. pc \in [Workers -> PC] /\ w \in InFlight
  BY DEF JobInv, TypeOK, InFlight, HandlerReturns
<1>1. CASE pc' = [pc EXCEPT ![w] = "failed"] /\ UNCHANGED <<held, done>>
  <2>1. InFlight' = InFlight /\ \A v \in InFlight : (pc'[v] = "picked") <=> (pc[v] = "picked")
    BY <1>0, <1>1 DEF InFlight, HandlerReturns
  <2>2. Held' = Held /\ Queued' = Queued /\ Buried' = Buried
    BY <1>1, <2>1 DEF Held, Queued, Buried, HandlerReturns
  <2>3. HeldJobs' /\ FreshJobs'
    BY <1>1, <2>1 DEF JobInv, HeldJobs, FreshJobs, HandlerReturns
  <2>4. NoJobVanishes'
    BY <1>1, <2>2 DEF JobInv, NoJobVanishes, HandlerReturns
  <2>5. NoJobTwice'
    BY <1>1, <2>1, <2>2 DEF JobInv, NoJobTwice, Distinct, HandlerReturns
  <2>6. RetryBudget'
    BY <1>1, <2>1 DEF JobInv, RetryBudget, HandlerReturns
  <2> QED BY <2>3, <2>4, <2>5, <2>6
<1>2. CASE /\ pc' = [pc EXCEPT ![w] = "loop"]
           /\ held' = [held EXCEPT ![w] = NoJob]
           /\ done' = done \cup {held[w].id}
  <2>1. pc'[w] = "loop" /\ \A v \in Workers \ {w} : Quiet(v)
    BY <1>0, <1>2 DEF Quiet
  <2>2. /\ InFlight' = InFlight \ {w}
        /\ \A v \in InFlight' : held'[v] = held[v]
        /\ Held = Held' \cup {held[w].id} /\ held[w].id \notin Held'
        /\ HeldJobs'
        /\ \A u, v \in InFlight' : held'[u].id = held'[v].id => u = v
        /\ held[w].id \notin Queued \cup done \cup Buried \cup lost
    BY <1>0, <1>2, <2>1, Release
  <2>3. Queued' = Queued /\ Buried' = Buried
    BY DEF Queued, Buried, HandlerReturns
  <2>4. FreshJobs'
    BY DEF JobInv, FreshJobs, HandlerReturns
  <2>5. NoJobVanishes'
    BY <1>2, <2>2, <2>3 DEF JobInv, NoJobVanishes, HandlerReturns
  <2>6. NoJobTwice'
    BY <1>2, <2>2, <2>3 DEF JobInv, NoJobTwice, Distinct, HandlerReturns
  <2>7. RetryBudget'
    BY <2>2 DEF JobInv, RetryBudget, HandlerReturns
  <2> QED BY <2>2, <2>4, <2>5, <2>6, <2>7
<1> QED BY <1>1, <1>2 DEF HandlerReturns

\* A job out of retries passes from the worker's hands to the dead letters.
LEMMA InvDeadLetter ==
    ASSUME JobInv, NEW w \in Workers, DeadLetter(w)
    PROVE  (HeldJobs /\ FreshJobs /\ NoJobVanishes /\ NoJobTwice /\ RetryBudget)'
<1> USE DEF queueVars, history
<1> DEFINE r == held[w]
<1>0. pc \in [Workers -> PC] /\ w \in InFlight /\ dead \in Seq(JobRec) /\ MaxRetries \in Nat
  BY JobQueueAssumption DEF JobInv, TypeOK, InFlight, DeadLetter, Exhausted
<1>1. r \in JobRec /\ r.attempts = runs[r.id] /\ r.attempts = MaxRetries + 1
  BY <1>0 DEF JobInv, HeldJobs, RetryBudget, DeadLetter, Exhausted, JobRec
<1>2. pc'[w] = "loop" /\ \A v \in Workers \ {w} : Quiet(v)
  BY <1>0 DEF Quiet, DeadLetter, Exhausted
<1>3. /\ InFlight' = InFlight \ {w}
      /\ \A v \in InFlight' : held'[v] = held[v]
      /\ Held = Held' \cup {r.id} /\ r.id \notin Held'
      /\ HeldJobs'
      /\ \A u, v \in InFlight' : held'[u].id = held'[v].id => u = v
      /\ r.id \notin Queued \cup done \cup Buried \cup lost
  BY <1>0, <1>2, Release DEF DeadLetter, Exhausted
<1>4. Range(dead') = Range(dead) \cup {r} /\ Distinct(dead')
  <2>1. \A x \in Range(dead) : x.id # r.id
    BY <1>3 DEF Buried
  <2> QED BY <1>0, <1>1, <2>1, AppendRecord DEF DeadLetter, Exhausted, JobInv, NoJobTwice
<1> HIDE DEF r
<1>5. Queued' = Queued /\ Buried' = Buried \cup {r.id}
  BY <1>4 DEF Queued, Buried, DeadLetter, Exhausted
<1>6. FreshJobs'
  BY DEF JobInv, FreshJobs, DeadLetter, Exhausted
<1>7. NoJobVanishes'
  BY <1>3, <1>5 DEF JobInv, NoJobVanishes, DeadLetter, Exhausted
<1>8. NoJobTwice'
  BY <1>3, <1>4, <1>5 DEF JobInv, NoJobTwice, Distinct, DeadLetter, Exhausted
<1>9. RetryBudget'
  <2>1. RetryBudget /\ UNCHANGED <<items, runs, lost>>
    BY DEF JobInv, DeadLetter
  <2>2. \A v \in InFlight' : held'[v].attempts = runs'[held'[v].id]
    BY <1>3, <2>1 DEF RetryBudget
  <2>3. \A x \in Range(dead') : x.attempts = runs'[x.id] /\ x.attempts = MaxRetries + 1
    BY <1>1, <1>4, <2>1 DEF RetryBudget
  <2> QED BY <2>1, <2>2, <2>3 DEF RetryBudget
<1> QED BY <1>3, <1>6, <1>7, <1>8, <1>9

\* A job to be retried passes from the worker's hands to the queue, or is lost
\* if Stop closed the queue first.
LEMMA InvNack ==
    ASSUME JobInv, NEW w \in Workers, Nack(w)
    PROVE  (HeldJobs /\ FreshJobs /\ NoJobVanishes /\ NoJobTwice /\ RetryBudget)'
<1> DEFINE j == held[w].id
           r == Retry(held[w])
<1>0. pc \in [Workers -> PC] /\ w \in InFlight /\ items \in Seq(JobRec) /\ MaxRetries \in Nat
  BY JobQueueAssumption DEF JobInv, TypeOK, InFlight, Nack, Exhausted
<1>1. held[w] \in JobRec /\ held[w].attempts = runs[j] /\ runs[j] \in 1..MaxRetries
  BY <1>0 DEF JobInv, HeldJobs, RetryBudget, Nack, Exhausted
<1>2. r \in JobRec /\ r.id = j /\ r.attempts = runs[j]
  BY <1>1, NackRecord DEF JobInv
<1>3. pc'[w] = "loop" /\ \A v \in Workers \ {w} : Quiet(v)
  <2> DEFINE f == [pc EXCEPT ![w] = "loop"]
  <2>1. f \in [Workers -> PC] /\ f[w] = "loop" /\ \A v \in Workers \ {w} : f[v] = pc[v]
    BY <1>0 DEF PC
  <2>2. pc' = f \/ pc' \in Signalled(f)
    BY DEF Nack, Exhausted
  <2> HIDE DEF f
  <2> QED BY <2>1, <2>2, SignalledProperties DEF Quiet
<1>4. /\ InFlight' = InFlight \ {w}
      /\ \A v \in InFlight' : held'[v] = held[v]
      /\ Held = Held' \cup {j} /\ j \notin Held'
      /\ HeldJobs'
      /\ \A u, v \in InFlight' : held'[u].id = held'[v].id => u = v
      /\ j \notin Queued \cup done \cup Buried \cup lost
  BY <1>0, <1>3, Release DEF Nack, Exhausted
<1>5. FreshJobs' /\ Buried' = Buried
  BY DEF JobInv, FreshJobs, Buried, Nack, Exhausted
<1>6. CASE closed
  <2>1. Queued' = Queued /\ lost' = lost \cup {j} /\ items' = items
    BY <1>6 DEF Queued, Nack, Exhausted
  <2>2. NoJobVanishes'
    BY <1>4, <1>5, <1>6, <2>1 DEF JobInv, NoJobVanishes, Nack, Exhausted
  <2>3. NoJobTwice'
    BY <1>4, <1>5, <2>1 DEF JobInv, NoJobTwice, Distinct, Nack, Exhausted
  <2>4. RetryBudget'
    BY <1>1, <1>4, <2>1 DEF JobInv, RetryBudget, Nack, Exhausted
  <2> QED BY <1>4, <1>5, <2>2, <2>3, <2>4
<1>7. CASE ~closed
  <2>1. items' = Append(items, r) /\ lost' = lost
    BY <1>7 DEF Nack, Exhausted
  <2> HIDE DEF r
  <2>2. Range(items') = Range(items) \cup {r} /\ Distinct(items')
    <3>1. \A x \in Range(items) : x.id # r.id
      BY <1>2, <1>4 DEF Queued
    <3> QED BY <1>0, <1>2, <2>1, <3>1, AppendRecord DEF JobInv, NoJobTwice
  <2>3. Queued' = Queued \cup {j}
    BY <1>2, <2>2 DEF Queued
  <2>4. NoJobVanishes'
    BY <1>4, <1>5, <2>1, <2>3 DEF JobInv, NoJobVanishes, Nack, Exhausted
  <2>5. NoJobTwice'
    <3>1. NoJobTwice /\ UNCHANGED <<dead, done, lost>>
      BY <2>1 DEF JobInv, Nack
    <3>2. Distinct(dead)'
      BY <3>1 DEF NoJobTwice, Distinct
    <3> QED BY <1>4, <1>5, <2>2, <2>3, <3>1, <3>2 DEF NoJobTwice, Distinct
  <2>6. RetryBudget'
    <3>1. RetryBudget /\ UNCHANGED <<dead, runs, lost>>
      BY <2>1 DEF JobInv, Nack
    <3>2. \A v \in InFlight' : held'[v].attempts = runs'[held'[v].id]
      BY <1>4, <3>1 DEF RetryBudget
    <3>3. \A x \in Range(items') : x.attempts = runs'[x.id] /\ x.attempts <= MaxRetries
      <4>1. runs[j] <= MaxRetries
        BY <1>0, <1>1
      <4> QED BY <1>2, <2>2, <3>1, <4>1 DEF RetryBudget
    <3> QED BY <3>1, <3>2, <3>3 DEF RetryBudget
  <2> QED BY <1>4, <1>5, <2>4, <2>5, <2>6
<1> QED BY <1>6, <1>7

\* No worker moves before Start, so Start finds all of them idle.
LEMMA IdleNext == TypeOK /\ IdleUntilStart /\ [Next]_vars => IdleUntilStart'
<1> SUFFICES ASSUME TypeOK, IdleUntilStart, [Next]_vars, mainPc' = "setup"
             PROVE  \A w \in Workers : pc'[w] = "idle"
  BY DEF IdleUntilStart
<1>1. mainPc = "setup" /\ \A w \in Workers : pc[w] = "idle"
  BY DEF Next, Register, Enqueue, Start, Worker, CheckContext, Dequeue, Wake, RunJob,
         HandlerReturns, DeadLetter, Nack, CancelJobs, Close, WaitGroupDone, Tick,
         Stopped, vars, IdleUntilStart
<1> QED
  BY <1>1 DEF Next, Register, Enqueue, Start, Worker, CheckContext, Dequeue, Wake, RunJob,
         HandlerReturns, DeadLetter, Nack, CancelJobs, Close, WaitGroupDone, Tick,
         Stopped, vars, workerVars

\* The invariant holds before anything is submitted.
LEMMA JobInvInit == Init => JobInv
<1> SUFFICES ASSUME Init PROVE JobInv
  OBVIOUS
<1>1. Range(items) = {} /\ Range(dead) = {} /\ InFlight = {} /\ Len(items) = 0 /\ Len(dead) = 0
  BY DEF Init, Range, InFlight
<1>2. Queued = {} /\ Held = {} /\ Buried = {}
  BY <1>1 DEF Queued, Held, Buried
<1>3. IdleUntilStart /\ HeldJobs /\ FreshJobs
  BY <1>1 DEF Init, IdleUntilStart, HeldJobs, FreshJobs
<1>4. NoJobVanishes
  BY <1>2 DEF Init, NoJobVanishes
<1>5. NoJobTwice
  BY <1>1, <1>2 DEF NoJobTwice, Distinct, Init
<1>6. RetryBudget
  BY <1>1, JobQueueAssumption DEF Init, RetryBudget
<1> QED
  BY <1>3, <1>4, <1>5, <1>6, TypeInit DEF JobInv

\* Every step of callers, workers, clock and shutdown keeps the invariant.
LEMMA JobInvNext == JobInv /\ [Next]_vars => JobInv'
<1> DEFINE Rest == HeldJobs /\ FreshJobs /\ NoJobVanishes /\ NoJobTwice /\ RetryBudget
<1> SUFFICES ASSUME JobInv, [Next]_vars PROVE Rest'
  BY TypeNext, IdleNext DEF JobInv
<1> USE DEF queueVars, workerVars, history
<1>0. pc \in [Workers -> PC]
  BY DEF JobInv, TypeOK
<1>1. ASSUME NEW j \in Jobs, Register(j) PROVE Rest'
  BY <1>1, QuietStep DEF Register, Quiet
<1>2. ASSUME NEW j \in Jobs, Enqueue(j) PROVE Rest'
  BY <1>2, InvEnqueue
<1>3. CASE Start
  <2>1. \A w \in Workers : Quiet(w)
    BY <1>3 DEF Start, Quiet, JobInv, IdleUntilStart
  <2> QED BY <1>3, <2>1, QuietStep DEF Start
<1>4. ASSUME NEW w \in Workers, CheckContext(w) PROVE Rest'
  <2>1. \A v \in Workers : Quiet(v)
    BY <1>0, <1>4 DEF CheckContext, Quiet
  <2> QED BY <1>4, <2>1, QuietStep DEF CheckContext
<1>5. ASSUME NEW w \in Workers, Dequeue(w) PROVE Rest'
  BY <1>5, InvDequeue
<1>6. ASSUME NEW w \in Workers, Wake(w) PROVE Rest'
  <2>1. \A v \in Workers : Quiet(v)
    BY <1>0, <1>6 DEF Wake, Quiet
  <2> QED BY <1>6, <2>1, QuietStep DEF Wake
<1>7. ASSUME NEW w \in Workers, RunJob(w) PROVE Rest'
  BY <1>7, InvRunJob
<1>8. ASSUME NEW w \in Workers, HandlerReturns(w) PROVE Rest'
  BY <1>8, InvHandlerReturns
<1>9. ASSUME NEW w \in Workers, DeadLetter(w) PROVE Rest'
  BY <1>9, InvDeadLetter
<1>10. ASSUME NEW w \in Workers, Nack(w) PROVE Rest'
  BY <1>10, InvNack
<1>11. CASE CancelJobs
  BY <1>11, QuietStep DEF CancelJobs, Quiet
<1>12. CASE Close
  <2>1. \A w \in Workers : Quiet(w)
    BY <1>12 DEF Close, Broadcast, Quiet
  <2> QED BY <1>12, <2>1, QuietStep DEF Close
<1>13. CASE WaitGroupDone
  BY <1>13, QuietStep DEF WaitGroupDone, Quiet
<1>14. CASE Tick
  BY <1>14, QuietStep DEF Tick, Quiet
<1>15. CASE UNCHANGED vars
  BY <1>15, QuietStep DEF vars, Quiet
<1> HIDE DEF Rest
<1> QED
  BY <1>1, <1>2, <1>3, <1>4, <1>5, <1>6, <1>7, <1>8, <1>9, <1>10, <1>11,
     <1>12, <1>13, <1>14, <1>15 DEF Next, Worker, Stopped

\* The inductive invariant holds in every reachable state of the pool.
THEOREM JobInvariance == Spec => []JobInv
BY JobInvInit, JobInvNext, PTL DEF Spec

\* Every variable of the pool keeps its type.
THEOREM TypeCorrectness == Spec => []TypeOK
<1>1. JobInv => TypeOK
  BY DEF JobInv
<1> QED BY <1>1, JobInvariance, PTL

\* An accepted job is never dropped before Stop closes the queue, whatever the
\* number of jobs, workers and retries.
THEOREM Conservation == Spec => []NoJobVanishes
<1>1. JobInv => NoJobVanishes
  BY DEF JobInv
<1> QED BY <1>1, JobInvariance, PTL

\* No job is ever duplicated: neither in the queue, nor between two workers,
\* nor between two outcomes.
THEOREM NoDuplication == Spec => []NoJobTwice
<1>1. JobInv => NoJobTwice
  BY DEF JobInv
<1> QED BY <1>1, JobInvariance, PTL

\* A job is tried at most MaxRetries + 1 times and dead-lettered exactly when
\* all of these attempts failed.
THEOREM RetryBudgetKept == Spec => []RetryBudget
<1>1. JobInv => RetryBudget
  BY DEF JobInv
<1> QED BY <1>1, JobInvariance, PTL
-----------------------------------------------------------------------------
(* The refinement of JobLifecycle.                                          *)

\* The jobs that a worker is trying, or has tried without deciding their fate.
Running == {held[w].id : w \in {v \in Workers : pc[v] \in {"handling", "failed"}}}

\* Enqueue answers a job once.
OneAnswer == accepted \cap rejected = {}

\* One step keeps OneAnswer: only Enqueue answers, and only what is unanswered.
LEMMA OneAnswerNext == OneAnswer /\ [Next]_vars => OneAnswer'
BY DEF OneAnswer, Next, Register, Enqueue, Start, Worker, CheckContext, Dequeue, Wake, RunJob,
       HandlerReturns, DeadLetter, Nack, CancelJobs, Close, WaitGroupDone, Tick,
       Stopped, vars, history

StatusFrom(refused, taken, finished, buried, dropped, running) ==
    [j \in Jobs |->
        IF j \in refused THEN "refused"
        ELSE IF j \notin taken THEN "new"
        ELSE IF j \in finished THEN "done"
        ELSE IF j \in buried THEN "dead"
        ELSE IF j \in dropped THEN "lost"
        ELSE IF j \in running THEN "running" ELSE "pending"]

\* The status of a job depends on the sets it belongs to and nothing else,
\* before a step and after it.
LEMMA StatusOf ==
    /\ jobStatus = StatusFrom(rejected, accepted, done, Buried, lost, Running)
    /\ jobStatus' = StatusFrom(rejected', accepted', done', Buried', lost', Running')
BY DEF jobStatus, Running, StatusFrom

\* A step that moves no job between these sets is invisible to callers.
LEMMA StatusKept ==
    ASSUME Buried' = Buried, Running' = Running,
           UNCHANGED <<accepted, rejected, done, lost>>
    PROVE  jobStatus' = jobStatus
BY StatusOf DEF StatusFrom

\* The job that a worker tries is accepted and has no outcome; it is no other
\* worker's, so that it is no longer running once the worker lets go of it.
LEMMA RunningJob ==
    ASSUME JobInv, OneAnswer, NEW w \in InFlight
    PROVE  /\ held[w].id \in Jobs /\ held[w].id \in accepted
           /\ held[w].id \notin rejected \cup done \cup Buried \cup lost
           /\ held[w].id \in Running <=> pc[w] # "picked"
           /\ \A v \in Workers : pc[v] \in {"handling", "failed"} /\ held[v].id = held[w].id => v = w
<1>1. held[w].id \in Jobs /\ held[w].id \in Held /\ w \in Workers
  BY DEF JobInv, HeldJobs, JobRec, Held, InFlight
<1>2. held[w].id \in accepted /\ held[w].id \notin rejected \cup done \cup Buried \cup lost
  BY <1>1 DEF JobInv, NoJobVanishes, NoJobTwice, OneAnswer
<1>3. \A v \in Workers : pc[v] \in {"handling", "failed"} /\ held[v].id = held[w].id => v = w
  BY DEF JobInv, NoJobTwice, InFlight
<1>4. held[w].id \in Running <=> pc[w] # "picked"
  BY <1>1, <1>3 DEF Running, InFlight
<1> QED BY <1>1, <1>2, <1>3, <1>4

\* Letting go of a job takes it, and no other, from the running ones.
LEMMA LetGo ==
    ASSUME JobInv, OneAnswer, NEW w \in InFlight, pc[w] # "picked",
           pc'[w] = "loop", held' = [held EXCEPT ![w] = NoJob],
           \A v \in Workers \ {w} : Quiet(v)
    PROVE  Running' = Running \ {held[w].id}
<1>1. \A v \in Workers : pc[v] \in {"handling", "failed"} /\ held[v].id = held[w].id => v = w
  BY RunningJob
<1>2. held \in [Workers -> JobRec \cup {NoJob}] /\ w \in Workers
  BY DEF JobInv, TypeOK, InFlight
<1>3. \A v \in Workers \ {w} :
        held'[v] = held[v] /\ (pc'[v] \in {"handling", "failed"} <=> pc[v] \in {"handling", "failed"})
  BY <1>2 DEF Quiet
<1> QED BY <1>1, <1>2, <1>3 DEF Running

\* A pool without jobs is a life cycle in which every job is new.
LEMMA InitImplements == Init => Abstract!LifecycleInit
<1> SUFFICES ASSUME Init PROVE Abstract!LifecycleInit
  OBVIOUS
<1>1. jobStatus = [j \in Jobs |-> "new"]
  BY StatusOf DEF StatusFrom, Init
<1> QED BY <1>1 DEF Init, Abstract!LifecycleInit

\* Enqueue is Submit.
LEMMA EnqueueImplements ==
    ASSUME JobInv, OneAnswer, NEW j \in Jobs, Enqueue(j)
    PROVE  Abstract!Submit(j)
<1>1. j \notin accepted \cup rejected /\ j \notin done \cup Buried \cup lost \cup Held
  BY DEF Enqueue, JobInv, NoJobVanishes
<1>2. Buried' = Buried
  BY DEF Enqueue, Buried
<1>3. \A w \in Workers : Quiet(w)
  BY SignalledProperties DEF Quiet, Enqueue, JobInv, TypeOK
<1>4. Running' = Running /\ j \notin Running
  BY <1>1, <1>3 DEF Running, Held, InFlight, Quiet, Enqueue
<1>5. jobStatus[j] = "new"
  BY <1>1, StatusOf DEF StatusFrom
<1>6. jobStatus' = [jobStatus EXCEPT ![j] = IF ~closed THEN "pending" ELSE "refused"]
  BY <1>1, <1>2, <1>4, StatusOf DEF StatusFrom, Enqueue
<1> QED BY <1>5, <1>6 DEF Enqueue, Abstract!Submit

\* runJob's Attempts++ is Try, within the retries that are left.
LEMMA RunJobImplements ==
    ASSUME JobInv, OneAnswer, NEW w \in Workers, RunJob(w)
    PROVE  Abstract!Try(held[w].id)
<1> DEFINE j == held[w].id
<1> USE DEF queueVars
<1>0. w \in InFlight /\ pc[w] = "picked" /\ pc \in [Workers -> PC]
      /\ held \in [Workers -> JobRec \cup {NoJob}] /\ held[w] \in JobRec
  BY DEF InFlight, RunJob, JobInv, TypeOK, HeldJobs
<1>1. j \in Jobs /\ j \in accepted /\ j \notin rejected \cup done \cup Buried \cup lost \cup Running
  BY <1>0, RunningJob
<1>2. runs[j] <= MaxRetries
  BY <1>0 DEF JobInv, HeldJobs, RetryBudget
<1>3. Buried' = Buried
  BY DEF Buried, RunJob
<1>4. Running' = Running \cup {j}
  <2>1. /\ \A v \in Workers \ {w} : held'[v] = held[v] /\ pc'[v] = pc[v]
        /\ pc'[w] \in {"handling", "failed"} /\ held'[w].id = j
    BY <1>0 DEF RunJob, JobRec
  <2> QED BY <1>0, <2>1 DEF Running
<1>5. jobStatus[j] = "pending"
  BY <1>1, StatusOf DEF StatusFrom
<1>6. jobStatus' = [jobStatus EXCEPT ![j] = "running"]
  BY <1>1, <1>3, <1>4, StatusOf DEF StatusFrom, RunJob
<1> QED BY <1>2, <1>5, <1>6 DEF RunJob, Abstract!Try

\* A handler that returns nil is Succeed; an error decides nothing yet.
LEMMA HandlerImplements ==
    ASSUME JobInv, OneAnswer, NEW w \in Workers, HandlerReturns(w)
    PROVE  \/ Abstract!Succeed(held[w].id)
           \/ jobStatus' = jobStatus /\ UNCHANGED <<runs, closed>>
<1> DEFINE j == held[w].id
<1> USE DEF queueVars
<1>0. w \in InFlight /\ pc[w] = "handling" /\ pc \in [Workers -> PC]
  BY DEF InFlight, HandlerReturns, JobInv, TypeOK
<1>1. j \in Jobs /\ j \in accepted /\ j \notin rejected \cup done \cup Buried \cup lost /\ j \in Running
  BY <1>0, RunningJob
<1>2. Buried' = Buried
  BY DEF Buried, HandlerReturns
<1>3. CASE pc' = [pc EXCEPT ![w] = "failed"] /\ UNCHANGED <<held, done>>
  <2>1. Running' = Running
    BY <1>0, <1>3 DEF Running
  <2> QED BY <1>2, <1>3, <2>1, StatusKept DEF HandlerReturns
<1>4. CASE /\ pc' = [pc EXCEPT ![w] = "loop"]
           /\ held' = [held EXCEPT ![w] = NoJob]
           /\ done' = done \cup {j}
  <2>1. pc'[w] = "loop" /\ \A v \in Workers \ {w} : Quiet(v)
    BY <1>0, <1>4 DEF Quiet
  <2>2. Running' = Running \ {j}
    BY <1>0, <1>4, <2>1, LetGo
  <2>3. jobStatus[j] = "running"
    BY <1>1, StatusOf DEF StatusFrom
  <2>4. jobStatus' = [jobStatus EXCEPT ![j] = "done"]
    BY <1>1, <1>2, <1>4, <2>2, StatusOf DEF StatusFrom, HandlerReturns
  <2> QED BY <2>3, <2>4 DEF HandlerReturns, Abstract!Succeed
<1> QED BY <1>3, <1>4 DEF HandlerReturns

\* A job out of retries Fails for good.
LEMMA DeadLetterImplements ==
    ASSUME JobInv, OneAnswer, NEW w \in Workers, DeadLetter(w)
    PROVE  Abstract!Fail(held[w].id)
<1> DEFINE j == held[w].id
<1> USE DEF queueVars, history
<1>0. w \in InFlight /\ pc[w] = "failed" /\ pc \in [Workers -> PC] /\ held[w] \in JobRec
      /\ dead \in Seq(JobRec)
  BY DEF InFlight, DeadLetter, JobInv, TypeOK, HeldJobs
<1>1. j \in Jobs /\ j \in accepted /\ j \notin rejected \cup done \cup Buried \cup lost /\ j \in Running
  BY <1>0, RunningJob
<1>2. runs[j] > MaxRetries
  BY <1>0 DEF JobInv, RetryBudget, DeadLetter, Exhausted
<1>3. Buried' = Buried \cup {j}
  BY <1>0, AppendRecord DEF Buried, DeadLetter
<1>4. Running' = Running \ {j}
  <2>1. pc'[w] = "loop" /\ \A v \in Workers \ {w} : Quiet(v)
    BY <1>0 DEF Quiet, DeadLetter
  <2> QED BY <1>0, <2>1, LetGo DEF DeadLetter
<1>5. jobStatus[j] = "running"
  BY <1>1, StatusOf DEF StatusFrom
<1>6. jobStatus' = [jobStatus EXCEPT ![j] = "dead"]
  BY <1>1, <1>3, <1>4, StatusOf DEF StatusFrom, DeadLetter
<1> QED BY <1>2, <1>5, <1>6 DEF DeadLetter, Abstract!Fail

\* A job to be retried Fails back to pending, or to lost in a closed queue.
LEMMA NackImplements ==
    ASSUME JobInv, OneAnswer, NEW w \in Workers, Nack(w)
    PROVE  Abstract!Fail(held[w].id)
<1> DEFINE j == held[w].id
<1>0. w \in InFlight /\ pc[w] = "failed" /\ pc \in [Workers -> PC] /\ held[w] \in JobRec
  BY DEF InFlight, Nack, JobInv, TypeOK, HeldJobs
<1>1. j \in Jobs /\ j \in accepted /\ j \notin rejected \cup done \cup Buried \cup lost /\ j \in Running
  BY <1>0, RunningJob
<1>2. ~(runs[j] > MaxRetries)
  BY <1>0 DEF JobInv, RetryBudget, Nack, Exhausted
<1>3. Buried' = Buried
  BY DEF Buried, Nack
<1>4. Running' = Running \ {j}
  <2> DEFINE f == [pc EXCEPT ![w] = "loop"]
  <2>1. f \in [Workers -> PC] /\ f[w] = "loop" /\ \A v \in Workers \ {w} : f[v] = pc[v]
    BY <1>0 DEF PC
  <2>2. pc' = f \/ pc' \in Signalled(f)
    BY DEF Nack
  <2> HIDE DEF f
  <2>3. pc'[w] = "loop" /\ \A v \in Workers \ {w} : Quiet(v)
    BY <2>1, <2>2, SignalledProperties DEF Quiet
  <2> QED BY <1>0, <2>3, LetGo DEF Nack
<1>5. jobStatus[j] = "running"
  BY <1>1, StatusOf DEF StatusFrom
<1>6. jobStatus' = [jobStatus EXCEPT ![j] = IF ~closed THEN "pending" ELSE "lost"]
  BY <1>1, <1>3, <1>4, StatusOf DEF StatusFrom, Nack
<1> QED BY <1>2, <1>5, <1>6 DEF Nack, Abstract!Fail

\* A step that moves no worker into or out of runJob is invisible to callers.
LEMMA QuietImplements ==
    ASSUME \A w \in Workers : Quiet(w) \/ {pc[w], pc'[w]} \cap {"handling", "failed"} = {},
           \A w \in Workers : pc[w] \in {"handling", "failed"} => held'[w] = held[w],
           UNCHANGED <<dead, accepted, rejected, done, lost>>
    PROVE  jobStatus' = jobStatus
<1>1. Running' = Running
  BY DEF Running, Quiet
<1>2. Buried' = Buried
  BY DEF Buried
<1> QED BY <1>1, <1>2, StatusKept

\* Every step of callers, workers, clock and shutdown is a step of the life
\* cycle of one job or invisible.
LEMMA NextImplements ==
    JobInv /\ OneAnswer /\ [Next]_vars => [Abstract!LifecycleNext]_(Abstract!lifecycleVars)
<1> DEFINE Invisible == jobStatus' = jobStatus /\ UNCHANGED <<runs, closed>>
<1> SUFFICES ASSUME JobInv, OneAnswer, [Next]_vars
             PROVE  Abstract!LifecycleNext \/ Invisible
  BY DEF Abstract!lifecycleVars
<1> USE DEF queueVars, workerVars, history
<1>0. pc \in [Workers -> PC] /\ held \in [Workers -> JobRec \cup {NoJob}] /\ closed \in BOOLEAN
  BY DEF JobInv, TypeOK
<1>1. ASSUME NEW j \in Jobs, Register(j) PROVE Invisible
  BY <1>1, QuietImplements DEF Register, Quiet
<1>2. ASSUME NEW j \in Jobs, Enqueue(j) PROVE Abstract!LifecycleNext
  BY <1>2, EnqueueImplements DEF Abstract!LifecycleNext
<1>3. CASE Start
  <2>1. \A w \in Workers : Quiet(w)
    BY <1>3 DEF Start, Quiet, JobInv, IdleUntilStart
  <2> QED BY <1>3, <2>1, QuietImplements DEF Start
<1>4. ASSUME NEW w \in Workers, CheckContext(w) PROVE Invisible
  <2>1. \A v \in Workers : Quiet(v)
    BY <1>0, <1>4 DEF CheckContext, Quiet
  <2> QED BY <1>4, <2>1, QuietImplements DEF CheckContext
<1>5. ASSUME NEW w \in Workers, Dequeue(w) PROVE Invisible
  <2>1. \A v \in Workers \ {w} : pc'[v] = pc[v] /\ held'[v] = held[v]
    BY <1>0, <1>5 DEF Dequeue
  <2>2. {pc[w], pc'[w]} \cap {"handling", "failed"} = {}
    BY <1>0, <1>5 DEF Dequeue
  <2> QED BY <1>5, <2>1, <2>2, QuietImplements DEF Dequeue, Quiet
<1>6. ASSUME NEW w \in Workers, Wake(w) PROVE Invisible
  <2>1. \A v \in Workers : Quiet(v)
    BY <1>0, <1>6 DEF Wake, Quiet
  <2> QED BY <1>6, <2>1, QuietImplements DEF Wake
<1>7. ASSUME NEW w \in Workers, RunJob(w) \/ DeadLetter(w) \/ Nack(w)
      PROVE  Abstract!LifecycleNext
  <2>1. held[w].id \in Jobs
    BY <1>7, RunningJob DEF InFlight, RunJob, DeadLetter, Nack
  <2> QED BY <1>7, <2>1, RunJobImplements, DeadLetterImplements, NackImplements DEF Abstract!LifecycleNext
<1>8. ASSUME NEW w \in Workers, HandlerReturns(w) PROVE Abstract!LifecycleNext \/ Invisible
  <2>1. held[w].id \in Jobs
    BY <1>8, RunningJob DEF InFlight, HandlerReturns
  <2> QED BY <1>8, <2>1, HandlerImplements DEF Abstract!LifecycleNext
<1>9. CASE CancelJobs
  BY <1>9, QuietImplements DEF CancelJobs, Quiet
<1>10. CASE Close
  <2>1. \A w \in Workers : Quiet(w)
    BY <1>10 DEF Close, Broadcast, Quiet
  <2>2. jobStatus' = jobStatus
    BY <1>10, <2>1, QuietImplements DEF Close
  <2> QED BY <1>0, <1>10, <2>2 DEF Close, Abstract!LifecycleNext, Abstract!ShutDown
<1>11. CASE WaitGroupDone
  BY <1>11, QuietImplements DEF WaitGroupDone, Quiet
<1>12. CASE Tick
  BY <1>12, QuietImplements DEF Tick, Quiet
<1>13. CASE UNCHANGED vars
  BY <1>13, QuietImplements DEF vars, Quiet
<1> HIDE DEF Invisible
<1> QED
  BY <1>1, <1>2, <1>3, <1>4, <1>5, <1>6, <1>7, <1>8, <1>9, <1>10, <1>11, <1>12, <1>13
  DEF Next, Worker, Stopped

\* The pool keeps the promise of JobLifecycle for every number of jobs and
\* workers and every retry limit: one try at a time, as many as MaxRetries
\* allows, and no job given up before the queue is shut down.
THEOREM PoolImplementsLifecycle == Spec => ImplementsLifecycle
<1>1. Init => OneAnswer
  BY DEF Init, OneAnswer
<1> QED
  BY <1>1, OneAnswerNext, InitImplements, NextImplements, JobInvariance, PTL
  DEF Spec, ImplementsLifecycle, Abstract!Lifecycle

-----------------------------------------------------------------------------
(* Waking the workers.                                                      *)

\* Only main closes the queue, after it has cancelled the jobs.
ClosedByMain == closed => cancelled

\* No step closes the queue otherwise.
LEMMA ClosedNext == ClosedByMain /\ [Next]_vars => ClosedByMain'
BY DEF ClosedByMain, cancelled, Next, vars, Worker, Register, Enqueue, Start, CheckContext, Dequeue,
       Wake, RunJob, HandlerReturns, DeadLetter, Nack, CancelJobs, Close, WaitGroupDone, Tick,
       Stopped, queueVars

\* The workers on the way are finitely many, before and after a step.
LEMMA ComingFinite ==
    /\ IsFiniteSet(Coming) /\ Cardinality(Coming) \in Nat
    /\ IsFiniteSet(Coming') /\ Cardinality(Coming') \in Nat
<1>1. Coming \subseteq Workers /\ Coming' \subseteq Workers
  BY DEF Coming
<1> QED BY <1>1, JobQueueAssumption, FS_Subset, FS_CardinalityType

\* If nobody leaves the way, it holds at least as many workers as before, and
\* one more if somebody joined.
LEMMA ComingGrows ==
    ASSUME Coming \subseteq Coming'
    PROVE  /\ Cardinality(Coming) <= Cardinality(Coming')
           /\ \A w \in Coming' \ Coming : Cardinality(Coming) + 1 <= Cardinality(Coming')
<1>1. Cardinality(Coming) <= Cardinality(Coming')
  BY ComingFinite, FS_Subset
<1>2. ASSUME NEW w \in Coming' \ Coming
      PROVE  Cardinality(Coming) + 1 <= Cardinality(Coming')
  <2>1. Coming \cup {w} \subseteq Coming'
    BY <1>2
  <2>2. Cardinality(Coming \cup {w}) = Cardinality(Coming) + 1
    BY <1>2, ComingFinite, FS_AddElement
  <2> QED BY <2>1, <2>2, ComingFinite, FS_Subset
<1> QED BY <1>1, <1>2

\* A step that leaves the queue alone, takes nobody off the way and sends nobody
\* to wait keeps the balance.
LEMMA NobodyLeaves ==
    ASSUME TypeOK, NoLostWakeup, cancelled => cancelled', UNCHANGED items, Coming \subseteq Coming',
           \A w \in Workers : pc'[w] = "waiting" => pc[w] = "waiting"
    PROVE  NoLostWakeup'
<1>1. Len(items) \in Nat
  BY DEF TypeOK
<1> QED BY <1>1, ComingFinite, ComingGrows DEF NoLostWakeup

\* A submitted job sends a waiting worker on the way, if there is one.
LEMMA WakeEnqueue ==
    ASSUME TypeOK, NoLostWakeup, NEW j \in Jobs, Enqueue(j)
    PROVE  NoLostWakeup'
<1>1. CASE closed
  BY <1>1, NobodyLeaves DEF Enqueue, Coming, cancelled
<1>2. CASE ~closed
  <2>1. items \in Seq(JobRec) /\ Len(items') = Len(items) + 1 /\ Len(items) \in Nat
    BY <1>2 DEF TypeOK, Enqueue
  <2>2. pc \in [Workers -> PC] /\ pc' \in Signalled(pc) /\ mainPc' = mainPc
    BY <1>2 DEF TypeOK, Enqueue
  <2>3. CASE \E w \in Workers : pc[w] = "waiting"
    <3>1. PICK w \in Workers : pc[w] = "waiting" /\ pc' = [pc EXCEPT ![w] = "dequeue"]
      BY <2>2, <2>3 DEF Signalled
    <3>2. Coming \subseteq Coming' /\ w \in Coming' \ Coming
      BY <2>2, <3>1 DEF Coming
    <3>3. Cardinality(Coming) + 1 <= Cardinality(Coming')
      BY <3>2, ComingGrows
    <3> QED BY <2>1, <2>2, <2>3, <3>3, ComingFinite DEF NoLostWakeup, cancelled
  <2>4. CASE ~\E w \in Workers : pc[w] = "waiting"
    BY <2>2, <2>4 DEF Signalled, NoLostWakeup
  <2> QED BY <2>3, <2>4
<1> QED BY <1>1, <1>2

\* A worker that takes a job leaves the way, and the queue is one job shorter;
\* one that waits found the queue empty.
LEMMA WakeDequeue ==
    ASSUME TypeOK, ClosedByMain, NoLostWakeup, NEW w \in Workers, Dequeue(w)
    PROVE  NoLostWakeup'
<1>1. /\ pc \in [Workers -> PC] /\ items \in Seq(JobRec) /\ Len(items) \in Nat
      /\ pc[w] = "dequeue" /\ mainPc' = mainPc
  BY DEF TypeOK, Dequeue
<1>2. CASE closed
  BY <1>1, <1>2 DEF ClosedByMain, NoLostWakeup, cancelled
<1>3. CASE ~closed /\ items = << >>
  <2>1. Len(items') = 0
    BY <1>3 DEF Dequeue
  <2> QED BY <2>1, ComingFinite DEF NoLostWakeup
<1>4. CASE ~closed /\ items # << >> /\ Head(items).runAfter > now
  <2>0. Head(items).runAfter \in Nat /\ now \in Nat
    BY <1>1, <1>4, PopRecord DEF TypeOK, JobRec
  <2>1. items' = Append(Tail(items), Head(items)) /\ pc' = [pc EXCEPT ![w] = "sleeping"]
    BY <1>4, <2>0 DEF Dequeue, Rotated
  <2>2. Len(items') = Len(items)
    BY <1>1, <1>4, <2>1
  <2>3. Coming' = Coming /\ \A v \in Workers : pc'[v] = "waiting" => pc[v] = "waiting"
    BY <1>1, <2>1 DEF Coming
  <2> QED BY <1>1, <2>2, <2>3 DEF NoLostWakeup, cancelled
<1>5. CASE ~closed /\ items # << >> /\ ~(Head(items).runAfter > now)
  <2>1. items' = Tail(items) /\ pc' = [pc EXCEPT ![w] = "picked"]
    BY <1>5 DEF Dequeue
  <2>2. Len(items') = Len(items) - 1
    BY <1>1, <1>5, <2>1
  <2>3. /\ Coming' = Coming \ {w} /\ w \in Coming
        /\ \A v \in Workers : pc'[v] = "waiting" => pc[v] = "waiting"
    BY <1>1, <2>1 DEF Coming
  <2>4. Cardinality(Coming') = Cardinality(Coming) - 1
    BY <2>3, ComingFinite, FS_RemoveElement
  <2> QED BY <1>1, <2>2, <2>3, <2>4, ComingFinite DEF NoLostWakeup, cancelled
<1> QED BY <1>2, <1>3, <1>4, <1>5

\* The worker that puts a job back is itself on the way again.
LEMMA WakeNack ==
    ASSUME TypeOK, ClosedByMain, NoLostWakeup, NEW w \in Workers, Nack(w)
    PROVE  NoLostWakeup'
<1> DEFINE f == [pc EXCEPT ![w] = "loop"]
<1>1. /\ pc \in [Workers -> PC] /\ items \in Seq(JobRec) /\ Len(items) \in Nat
      /\ pc[w] = "failed" /\ mainPc' = mainPc
  BY DEF TypeOK, Nack
<1>2. CASE closed
  BY <1>1, <1>2 DEF ClosedByMain, NoLostWakeup, cancelled
<1>3. CASE ~closed
  <2>1. pc' \in Signalled(f) /\ Len(items') = Len(items) + 1
    BY <1>1, <1>3 DEF Nack
  <2>2. f \in [Workers -> PC] /\ f[w] = "loop" /\ \A v \in Workers \ {w} : f[v] = pc[v]
    BY <1>1 DEF PC
  <2> HIDE DEF f
  <2>3. \A v \in Workers : pc'[v] = f[v] \/ (f[v] = "waiting" /\ pc'[v] = "dequeue")
    BY <2>1, <2>2, SignalledProperties
  <2>4. Coming \subseteq Coming' /\ w \in Coming' \ Coming
    BY <1>1, <2>2, <2>3 DEF Coming
  <2>5. \A v \in Workers : pc'[v] = "waiting" => pc[v] = "waiting"
    BY <2>2, <2>3
  <2>6. Cardinality(Coming) + 1 <= Cardinality(Coming')
    BY <2>4, ComingGrows
  <2> QED BY <1>1, <2>1, <2>5, <2>6, ComingFinite DEF NoLostWakeup, cancelled
<1> QED BY <1>2, <1>3

\* Every step keeps as many workers on the way as there are jobs, or leaves
\* nobody waiting.
LEMMA WakeNext ==
    TypeOK /\ ClosedByMain /\ NoLostWakeup /\ [Next]_vars => NoLostWakeup'
<1> SUFFICES ASSUME TypeOK, ClosedByMain, NoLostWakeup, [Next]_vars PROVE NoLostWakeup'
  OBVIOUS
<1>0. pc \in [Workers -> PC]
  BY DEF TypeOK
<1>1. ASSUME NEW j \in Jobs, Enqueue(j) PROVE NoLostWakeup'
  BY <1>1, WakeEnqueue
<1>2. CASE Start
  BY <1>2 DEF Start, NoLostWakeup
<1>3. ASSUME NEW w \in Workers, Dequeue(w) PROVE NoLostWakeup'
  BY <1>3, WakeDequeue
<1>4. ASSUME NEW w \in Workers, Nack(w) PROVE NoLostWakeup'
  BY <1>4, WakeNack
<1>5. ASSUME NEW w \in Workers, CheckContext(w) \/ Wake(w) PROVE NoLostWakeup'
  <2>1. CASE cancelled
    BY <1>5, <2>1 DEF CheckContext, Wake, cancelled, NoLostWakeup
  <2>2. CASE ~cancelled
    <3>1. pc[w] \in {"loop", "sleeping"} /\ pc' = [pc EXCEPT ![w] = "dequeue"] /\ items' = items
      BY <1>5, <2>2 DEF CheckContext, Wake, queueVars
    <3> QED BY <1>0, <2>2, <3>1, NobodyLeaves DEF Coming
  <2> QED BY <2>1, <2>2
<1>6. ASSUME NEW w \in Workers, RunJob(w) \/ HandlerReturns(w) \/ DeadLetter(w) PROVE NoLostWakeup'
  <2>1. /\ pc[w] \in {"picked", "handling", "failed"} /\ items' = items /\ mainPc' = mainPc
        /\ \E x \in {"handling", "failed", "loop"} : pc' = [pc EXCEPT ![w] = x]
    BY <1>6 DEF RunJob, HandlerReturns, DeadLetter, queueVars
  <2> QED BY <1>0, <2>1, NobodyLeaves DEF Coming, cancelled
<1>7. CASE Close
  BY <1>7 DEF Close, NoLostWakeup, cancelled
<1>8. ASSUME UNCHANGED <<items, pc>>, cancelled => cancelled' PROVE NoLostWakeup'
  BY <1>8, NobodyLeaves DEF Coming
<1> QED
  BY <1>1, <1>2, <1>3, <1>4, <1>5, <1>6, <1>7, <1>8
  DEF Next, Worker, vars, queueVars, workerVars, cancelled, Register, CancelJobs, WaitGroupDone, Tick, Stopped

\* While the pool serves, no worker waits on the condition variable unless every
\* queued job has a worker of its own on the way to the queue.
THEOREM NoWakeupLost == Spec => []NoLostWakeup
<1>1. Init => ClosedByMain /\ NoLostWakeup
  BY DEF Init, ClosedByMain, NoLostWakeup
<1> QED BY <1>1, ClosedNext, WakeNext, TypeCorrectness, PTL DEF Spec

-----------------------------------------------------------------------------
(* The spacing of the retries.                                              *)

\* spaced adds up the backoffs.
LEMMA SpacedSum ==
    /\ spaced(0) = 0
    /\ \A n \in Nat : spaced(n) \in Nat /\ spaced(n + 1) = spaced(n) + backoff(n + 1)
<1>1. spaced(0) = 0
  BY DEF spaced
<1>2. ASSUME NEW n \in Nat, n <= 5
      PROVE  spaced(n) \in Nat /\ spaced(n + 1) = spaced(n) + backoff(n + 1)
  <2>1. n \in {0, 1, 2, 3, 4, 5}
    BY <1>2
  <2> QED BY <2>1 DEF spaced, backoff
<1>3. ASSUME NEW n \in Nat, n > 5
      PROVE  spaced(n) \in Nat /\ spaced(n + 1) = spaced(n) + backoff(n + 1)
  BY <1>3 DEF spaced, backoff
<1> QED BY <1>1, <1>2, <1>3

\* A queued job waits until the backoffs of its attempts have passed; they have
\* for a job in a worker's hands, the attempt under way not counted.
Ripe ==
    /\ \A r \in Range(items) : r.runAfter >= spaced(r.attempts)
    /\ \A w \in InFlight :
        IF pc[w] = "picked" THEN now >= spaced(held[w].attempts)
        ELSE now >= spaced(held[w].attempts - 1)
    /\ RetriesAreSpaced

\* A step that moves no job and does not set back the clock keeps it.
LEMMA RipeKept ==
    ASSUME JobInv, Ripe, TypeOK', now' >= now, UNCHANGED <<held, runs>>,
           Range(items') \subseteq Range(items),
           \A w \in InFlight' : w \in InFlight /\ (pc'[w] = "picked" <=> pc[w] = "picked")
    PROVE  Ripe'
<1>1. now \in Nat /\ now' \in Nat
  BY DEF JobInv, TypeOK
<1>2. \A r \in Range(items') : r.runAfter >= spaced(r.attempts)
  BY DEF Ripe
<1>3. ASSUME NEW w \in InFlight'
      PROVE  IF pc'[w] = "picked" THEN now' >= spaced(held'[w].attempts)
             ELSE now' >= spaced(held'[w].attempts - 1)
  <2>1. held[w].attempts \in Nat /\ (pc[w] # "picked" => held[w].attempts - 1 \in Nat)
    BY <1>3, JobQueueAssumption DEF JobInv, HeldJobs, JobRec
  <2> QED BY <1>1, <1>3, <2>1, SpacedSum DEF Ripe
<1>4. RetriesAreSpaced'
  <2> SUFFICES ASSUME NEW j \in Jobs, runs[j] > 0 PROVE now' >= spaced(runs[j] - 1)
    BY DEF RetriesAreSpaced
  <2>1. runs[j] - 1 \in Nat
    BY DEF JobInv, TypeOK
  <2>2. now >= spaced(runs[j] - 1) /\ spaced(runs[j] - 1) \in Nat
    BY <2>1, SpacedSum DEF Ripe, RetriesAreSpaced
  <2> QED BY <1>1, <2>2
<1> QED BY <1>2, <1>3, <1>4 DEF Ripe

\* A submitted job may run at once.
LEMMA RipeEnqueue ==
    ASSUME JobInv, Ripe, TypeOK', NEW j \in Jobs, Enqueue(j)
    PROVE  Ripe'
<1>1. CASE closed
  BY <1>1, RipeKept DEF Enqueue, InFlight, JobInv, TypeOK
<1>2. CASE ~closed
  <2> DEFINE r == [id |-> j, attempts |-> 0, runAfter |-> now]
  <2>1. r \in JobRec /\ r.attempts = 0 /\ r.runAfter = now /\ items \in Seq(JobRec) /\ now \in Nat
    BY DEF JobInv, TypeOK, JobRec
  <2>2. items' = Append(items, r)
    BY <1>2 DEF Enqueue
  <2> HIDE DEF r
  <2>3. Range(items') = Range(items) \cup {r}
    BY <2>1, <2>2, AppendRecord
  <2>4. \A x \in Range(items') : x.runAfter >= spaced(x.attempts)
    BY <2>1, <2>3, SpacedSum DEF Ripe
  <2>5. \A w \in Workers : Quiet(w)
    BY <1>2, SignalledProperties DEF Quiet, Enqueue, JobInv, TypeOK
  <2>6. InFlight' = InFlight /\ \A w \in InFlight : pc'[w] = pc[w]
    BY <2>5 DEF InFlight, Quiet
  <2>7. UNCHANGED <<held, now, runs>>
    BY DEF Enqueue
  <2> QED BY <2>4, <2>6, <2>7 DEF Ripe, RetriesAreSpaced
<1> QED BY <1>1, <1>2

\* A worker takes a job only when its time has come.
LEMMA RipeDequeue ==
    ASSUME JobInv, Ripe, TypeOK', NEW w \in Workers, Dequeue(w)
    PROVE  Ripe'
<1>0. /\ pc \in [Workers -> PC] /\ items \in Seq(JobRec) /\ held \in [Workers -> JobRec \cup {NoJob}]
      /\ now \in Nat /\ UNCHANGED <<now, runs>> /\ pc[w] = "dequeue"
  BY DEF JobInv, TypeOK, Dequeue, history
<1>1. CASE pc' # [pc EXCEPT ![w] = "picked"]
  <2>1. /\ UNCHANGED held
        /\ \E x \in {"exited", "waiting", "sleeping"} : pc' = [pc EXCEPT ![w] = x]
        /\ items' = items \/ (items # << >> /\ items' = Append(Tail(items), Head(items)))
    BY <1>1 DEF Dequeue, Rotated
  <2>2. Range(items') \subseteq Range(items)
    <3>1. CASE items' = items
      BY <3>1
    <3>2. CASE items # << >> /\ items' = Append(Tail(items), Head(items))
      BY <1>0, <3>2, PopRecord, AppendRecord
    <3> QED BY <2>1, <3>1, <3>2
  <2>3. \A v \in InFlight' : v \in InFlight /\ (pc'[v] = "picked" <=> pc[v] = "picked")
    BY <1>0, <2>1 DEF InFlight
  <2> QED BY <1>0, <2>1, <2>2, <2>3, RipeKept
<1>2. CASE pc' = [pc EXCEPT ![w] = "picked"]
  <2>0. pc'[w] = "picked" /\ InFlight' = InFlight \cup {w} /\ w \notin InFlight
    BY <1>0, <1>2 DEF InFlight
  <2>1. /\ items # << >> /\ items' = Tail(items) /\ held' = [held EXCEPT ![w] = Head(items)]
        /\ Head(items).runAfter <= now
    BY <2>0, <1>0 DEF Dequeue
  <2>2. Head(items) \in JobRec /\ Range(items) = Range(items') \cup {Head(items)}
    BY <1>0, <2>1, PopRecord
  <2>3. Head(items).runAfter \in Nat /\ Head(items).attempts \in Nat
    BY <2>2 DEF JobRec
  <2>4. now' >= spaced(held'[w].attempts)
    <3>1. Head(items).runAfter >= spaced(Head(items).attempts) /\ spaced(Head(items).attempts) \in Nat
      BY <2>2, <2>3, SpacedSum DEF Ripe
    <3>2. held'[w] = Head(items)
      BY <1>0, <2>1
    <3> QED BY <1>0, <2>1, <2>3, <3>1, <3>2
  <2>5. \A v \in InFlight : pc'[v] = pc[v] /\ held'[v] = held[v]
    BY <1>0, <1>2, <2>0, <2>1 DEF InFlight
  <2> QED BY <1>0, <2>0, <2>2, <2>4, <2>5 DEF Ripe, RetriesAreSpaced
<1> QED BY <1>1, <1>2

\* The attempt that runJob counts is one that the backoffs before it allow.
LEMMA RipeRunJob ==
    ASSUME JobInv, Ripe, TypeOK', NEW w \in Workers, RunJob(w)
    PROVE  Ripe'
<1>0. /\ pc \in [Workers -> PC] /\ held \in [Workers -> JobRec \cup {NoJob}] /\ runs \in [Jobs -> Nat]
      /\ now \in Nat /\ UNCHANGED <<now, items>> /\ pc[w] = "picked" /\ w \in InFlight
  BY DEF JobInv, TypeOK, RunJob, queueVars, InFlight
<1> DEFINE a == held[w].attempts
           i == held[w].id
<1>1. a \in Nat /\ i \in Jobs /\ runs[i] = a /\ now >= spaced(a)
  BY <1>0 DEF JobInv, HeldJobs, RetryBudget, JobRec, Ripe
<1>2. held'[w].attempts = a + 1 /\ \A v \in Workers \ {w} : held'[v] = held[v]
  <2>1. held[w] \in JobRec
    BY <1>0 DEF JobInv, HeldJobs
  <2>2. held'[w] = [held[w] EXCEPT !.attempts = a + 1]
    BY <1>0 DEF RunJob
  <2>3. [held[w] EXCEPT !.attempts = a + 1].attempts = a + 1
    BY <2>1 DEF JobRec
  <2> QED BY <1>0, <2>2, <2>3 DEF RunJob
<1>3. runs'[i] = a + 1 /\ \A j \in Jobs \ {i} : runs'[j] = runs[j]
  BY <1>0, <1>1 DEF RunJob
<1>4. InFlight' = InFlight /\ pc'[w] # "picked" /\ \A v \in Workers \ {w} : pc'[v] = pc[v]
  BY <1>0 DEF RunJob, InFlight
<1> HIDE DEF a, i
<1>5. (a + 1) - 1 = a
  BY <1>1
<1>6. RetriesAreSpaced'
  BY <1>0, <1>1, <1>3, <1>5 DEF Ripe, RetriesAreSpaced
<1>7. \A v \in InFlight' :
        IF pc'[v] = "picked" THEN now' >= spaced(held'[v].attempts)
        ELSE now' >= spaced(held'[v].attempts - 1)
  <2> TAKE v \in InFlight'
  <2>1. CASE v = w
    BY <1>0, <1>1, <1>2, <1>4, <1>5, <2>1
  <2>2. CASE v # w
    <3>1. v \in InFlight /\ v \in Workers \ {w}
      BY <1>4, <2>2 DEF InFlight
    <3> QED BY <1>0, <1>2, <1>4, <3>1 DEF Ripe
  <2> QED BY <2>1, <2>2
<1> QED BY <1>0, <1>6, <1>7 DEF Ripe

\* The job that Nack puts back waits for one backoff more.
LEMMA RipeNack ==
    ASSUME JobInv, Ripe, TypeOK', NEW w \in Workers, Nack(w)
    PROVE  Ripe'
<1> DEFINE f == [pc EXCEPT ![w] = "loop"]
           r == Retry(held[w])
           a == held[w].attempts
<1>0. /\ pc \in [Workers -> PC] /\ held \in [Workers -> JobRec \cup {NoJob}] /\ items \in Seq(JobRec)
      /\ now \in Nat /\ UNCHANGED <<now, runs>> /\ pc[w] = "failed" /\ w \in InFlight
  BY DEF JobInv, TypeOK, Nack, InFlight
<1>1. held[w] \in JobRec /\ a \in Nat /\ a - 1 \in Nat /\ now >= spaced(a - 1)
  <2>1. held[w] \in JobRec /\ a \in 1..MaxRetries + 1
    BY <1>0 DEF JobInv, HeldJobs
  <2> QED BY <1>0, <2>1, JobQueueAssumption DEF Ripe
<1>2. f \in [Workers -> PC] /\ f[w] = "loop" /\ \A v \in Workers \ {w} : f[v] = pc[v]
  BY <1>0 DEF PC
<1>3. pc' \in Signalled(f) \/ pc' = f
  BY DEF Nack
<1>4. r \in JobRec /\ r.attempts = a /\ r.runAfter = now + backoff(a)
  <2>1. r \in JobRec /\ r.attempts = a
    BY <1>1, NackRecord DEF JobInv
  <2>2. r.runAfter = now + backoff(a)
    BY <1>1 DEF Retry, JobRec
  <2> QED BY <2>1, <2>2
<1>5. items' \in {items, Append(items, r)} /\ held' = [held EXCEPT ![w] = NoJob]
  BY DEF Nack
<1> HIDE DEF f, r, a
<1>6. \A v \in Workers : pc'[v] = f[v] \/ (f[v] = "waiting" /\ pc'[v] = "dequeue")
  BY <1>2, <1>3, SignalledProperties
<1>7. /\ InFlight' = InFlight \ {w}
      /\ \A v \in InFlight' : v \in InFlight /\ pc'[v] = pc[v] /\ held'[v] = held[v]
  BY <1>0, <1>2, <1>5, <1>6 DEF InFlight
<1>8. r.runAfter >= spaced(r.attempts)
  <2>1. /\ spaced(a - 1) \in Nat /\ spaced((a - 1) + 1) = spaced(a - 1) + backoff((a - 1) + 1)
        /\ (a - 1) + 1 = a /\ backoff(a) \in Nat
    BY <1>1, SpacedSum, BackoffNat
  <2> QED BY <1>0, <1>1, <1>4, <2>1
<1>9. \A x \in Range(items') : x.runAfter >= spaced(x.attempts)
  <2>1. Range(items') \subseteq Range(items) \cup {r}
    BY <1>0, <1>4, <1>5, AppendRecord
  <2> QED BY <1>8, <2>1 DEF Ripe
<1> QED BY <1>0, <1>7, <1>9 DEF Ripe, RetriesAreSpaced

\* Every step keeps the retries spaced.
LEMMA RipeNext == JobInv /\ Ripe /\ [Next]_vars => Ripe'
<1> SUFFICES ASSUME JobInv, Ripe, [Next]_vars PROVE Ripe'
  OBVIOUS
<1>0. TypeOK' /\ pc \in [Workers -> PC] /\ now \in Nat
  BY TypeNext DEF JobInv, TypeOK
<1> USE DEF queueVars, workerVars, history
<1>1. ASSUME NEW j \in Jobs, Enqueue(j) PROVE Ripe'
  BY <1>0, <1>1, RipeEnqueue
<1>2. ASSUME NEW w \in Workers, Dequeue(w) PROVE Ripe'
  BY <1>0, <1>2, RipeDequeue
<1>3. ASSUME NEW w \in Workers, RunJob(w) PROVE Ripe'
  BY <1>0, <1>3, RipeRunJob
<1>4. ASSUME NEW w \in Workers, Nack(w) PROVE Ripe'
  BY <1>0, <1>4, RipeNack
<1>5. ASSUME NEW w \in Workers, HandlerReturns(w) \/ DeadLetter(w) PROVE Ripe'
  <2>1. /\ UNCHANGED <<items, now, runs>> /\ pc[w] # "picked"
        /\ \/ pc' = [pc EXCEPT ![w] = "loop"] /\ held' = [held EXCEPT ![w] = NoJob]
           \/ pc' = [pc EXCEPT ![w] = "failed"] /\ pc[w] = "handling" /\ UNCHANGED held
    BY <1>5 DEF HandlerReturns, DeadLetter
  <2>2. \A v \in InFlight' : /\ v \in InFlight /\ held'[v] = held[v]
                             /\ (pc'[v] = "picked" <=> pc[v] = "picked")
    BY <1>0, <2>1 DEF InFlight, JobInv, TypeOK
  <2> QED BY <2>1, <2>2 DEF Ripe, RetriesAreSpaced
<1>6. ASSUME UNCHANGED <<items, held, runs>>, now' >= now, \A w \in Workers : Quiet(w) PROVE Ripe'
  <2>1. \A w \in InFlight' : w \in InFlight /\ (pc'[w] = "picked" <=> pc[w] = "picked")
    BY <1>6 DEF InFlight, Quiet
  <2> QED BY <1>0, <1>6, <2>1, RipeKept
<1>7. CASE Start
  BY <1>0, <1>6, <1>7 DEF Start, Quiet, JobInv, IdleUntilStart
<1>8. ASSUME NEW w \in Workers, CheckContext(w) \/ Wake(w) PROVE Ripe'
  BY <1>0, <1>6, <1>8 DEF CheckContext, Wake, Quiet
<1>9. CASE Close
  BY <1>0, <1>6, <1>9 DEF Close, Broadcast, Quiet
<1>10. CASE Tick
  BY <1>0, <1>6, <1>10 DEF Tick, Quiet
<1>11. CASE UNCHANGED <<items, held, runs, now, pc>>
  BY <1>0, <1>6, <1>11 DEF Quiet
<1> QED
  BY <1>1, <1>2, <1>3, <1>4, <1>5, <1>7, <1>8, <1>9, <1>10, <1>11
  DEF Next, Worker, vars, Register, CancelJobs, WaitGroupDone, Stopped

\* The n-th attempt at a job never comes before the backoffs of the n - 1
\* attempts before it have passed.
THEOREM RetriesSpaced == Spec => []RetriesAreSpaced
<1>1. Init => Ripe
  BY DEF Init, Ripe, RetriesAreSpaced, InFlight, Range
<1>2. Ripe => RetriesAreSpaced
  BY DEF Ripe
<1> QED BY <1>1, <1>2, RipeNext, JobInvariance, PTL DEF Spec
=============================================================================
