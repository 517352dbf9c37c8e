---------------------------- MODULE ProcessProofs ---------------------------
(***************************************************************************)
(* For any number of requests, workers, jobs and events: main's order of   *)
(* starting and stopping keeps every component that requests and jobs use  *)
(* open for as long as they use it, and its clean exit cuts nothing short. *)
(***************************************************************************)
EXTENDS Process, FiniteSetTheorems, SequenceTheorems, TLAPS

Starting == {"config", "building", "starting"}
Ending == {"stopped", "closeOutbox", "returning"}

\* The control states, the part of TypeOK the argument needs.
Control ==
    /\ main \in Starting \cup {"serving", "draining", "drained", "stopping"} \cup Ending
    /\ request \in [Requests -> {"idle", "active", "done"}]
    /\ worker \in [Workers -> {"new", "loop", "dequeue", "handling", "exited"}]
    /\ comp \in [Components -> {"none", "memory", "open", "closed"}]
    /\ defers \in Seq(Components)

\* main has built the components up to some place of its order, all of them
\* once it is past the last one.
BuiltInOrder ==
    /\ \E n \in 0..10 :
        /\ Built = {Order[i] : i \in 1..n}
        /\ IsFiniteSet(Built)
        /\ Cardinality(Built) = n
        /\ main = "building" => n < 10
    /\ main = "config" => Built = {}
    /\ main \notin {"config", "building"} => Built = Components

\* Where main is tells who may still be at work and what may be closed.
Phases ==
    /\ Active # {} => main \in {"serving", "draining"}
    /\ main \in Starting => \A w \in Workers : worker[w] = "new"
    /\ main \in Ending => \A w \in Workers : worker[w] = "exited"
    /\ queueClosed => main \in {"stopping"} \cup Ending
    /\ closed => main = "returning"
    /\ \A c \in Components : comp[c] = "closed" => main = "returning"

\* Every open client has its closer on main's stack until it has run.
Pledged ==
    /\ \A c \in Components \ {"outbox"} :
        comp[c] = "open" => \E i \in 1..Len(defers) : defers[i] = c
    /\ exit = "clean" => main = "returning" /\ defers = << >>

IInv == Control /\ BuiltInOrder /\ Phases /\ Pledged

\* main builds ten different components, the dead-letter list last.
LEMMA OrderFacts ==
  /\ Order \in Seq(Components) /\ Len(Order) = 10
  /\ Components = {Order[i] : i \in 1..10}
  /\ \A i, j \in 1..10 : Order[i] = Order[j] => i = j
  /\ \A i \in 1..10 : Order[i] = "deadLetter" <=> i = 10
  BY DEF Components, Order, ToSet

\* No builder returns a component that is missing or closed.
LEMMA BuildFacts ==
  ASSUME NEW c \in Components
  PROVE  build[c] \subseteq {"memory", "open", "error"}
<1>1. c \in {"store", "cache", "blacklist", "resetTokens", "globalLimiter", "authLimiter",
             "idempotency", "outbox", "queue", "deadLetter"}
  BY DEF Components, Order, ToSet
<1> QED
  BY <1>1 DEF build, buildUserStore, buildCache, buildBlacklist, buildResetTokenStore,
     buildRateLimiter, buildIdempotencyStore, buildDeadLetter, buildJobQueue, buildOutbox, Pinged

\* main's deferred closers are those of components.
LEMMA DeferredFacts ==
  ASSUME NEW c \in Components, NEW how
  PROVE  /\ Deferred(c, how) \in Seq(Components)
         /\ how = "open" /\ c # "outbox" => \E i \in 1..Len(Deferred(c, how)) : Deferred(c, how)[i] = c
<1>1. "cache" \in Components
  BY DEF Components, Order, ToSet
<1> QED
  BY <1>1 DEF Deferred

\* Nothing is built, and nobody is at work.
LEMMA InitIInv == Init => IInv
<1> SUFFICES ASSUME Init PROVE IInv
  OBVIOUS
<1>1. Control
  BY DEF Init, Control, Starting
<1>2. Built = {}
  BY DEF Init, Built
<1>3. BuiltInOrder
  BY <1>2, FS_EmptySet DEF Init, BuiltInOrder
<1>4. Phases
  BY DEF Init, OutboxInit, Phases, Active, Starting, Ending
<1>5. Pledged
  BY DEF Init, Pledged
<1> QED
  BY <1>1, <1>3, <1>4, <1>5 DEF IInv

\* A step of main before or after it builds keeps what is built.
LEMMA BuiltKept ==
  ASSUME BuiltInOrder,
         comp' = comp,
         \/ main' = main
         \/ main = "config" /\ main' = "building"
         \/ main \notin {"config", "building"} /\ main' \notin {"config", "building"}
  PROVE  BuiltInOrder'
<1>1. Built' = Built
  BY DEF Built
<1>2. PICK n \in 0..10 : /\ Built = {Order[i] : i \in 1..n}
                         /\ IsFiniteSet(Built)
                         /\ Cardinality(Built) = n
                         /\ main = "building" => n < 10
  BY DEF BuiltInOrder
<1>3. main' = "building" => n < 10
  <2>1. CASE main = "config"
    <3>1. Cardinality(Built) = 0
      BY <2>1, FS_EmptySet DEF BuiltInOrder
    <3>2. Cardinality(Built) = n
      BY <1>2
    <3> QED
      BY <3>1, <3>2
  <2>2. CASE main # "config"
    <3>1. main = "building" => n < 10
      BY <1>2
    <3> QED
      BY <2>2, <3>1
  <2> QED
    BY <2>1, <2>2
<1> QED
  BY <1>1, <1>2, <1>3 DEF BuiltInOrder

\* os.Exit leaves everything as it is, deferred closers included.
LEMMA ExitIInv ==
  ASSUME IInv, NEW code, code # "clean", Exit(code)
  PROVE  IInv'
<1> USE DEF Exit, outboxVars, startVars, jobVars
<1>1. Control'
  BY DEF IInv, Control
<1>2. BuiltInOrder'
  BY BuiltKept DEF IInv
<1>3. Phases'
  BY DEF IInv, Phases, Active
<1>4. Pledged'
  BY DEF IInv, Pledged
<1> QED
  BY <1>1, <1>2, <1>3, <1>4 DEF IInv

\* Build appends the next component of main's order.
LEMMA BuildIInv ==
  ASSUME IInv, Build
  PROVE  IInv'
<1> DEFINE c == Order[Cardinality(Built) + 1]
<1>1. CASE Exit("error")
  BY <1>1, ExitIInv
<1>2. CASE ~Exit("error")
  <2>1. PICK n \in 0..9 : /\ Built = {Order[i] : i \in 1..n}
                          /\ IsFiniteSet(Built)
                          /\ Cardinality(Built) = n
    <3>1. main = "building" /\ BuiltInOrder
      BY DEF Build, IInv
    <3> QED
      BY <3>1 DEF BuiltInOrder
  <2>2. c \in Components /\ c \notin Built /\ (c = "deadLetter" <=> n = 9)
    BY <2>1, OrderFacts
  <2>3. PICK how \in build[c] :
          /\ how # "error"
          /\ comp' = [comp EXCEPT ![c] = how]
          /\ defers' = defers \o Deferred(c, how)
          /\ main' = IF c = "deadLetter" THEN "starting" ELSE main
          /\ UNCHANGED <<queue, closed, event, cancelled, log, accepted, dropped,
                         environment, redis, flips, request, jobVars, exit>>
    BY <1>2 DEF Build
  <2>4. how \in {"memory", "open"}
    BY <2>2, <2>3, BuildFacts
  <2>5. main = "building"
    BY DEF Build
  <2>6. Control'
    BY <2>2, <2>3, <2>4, <2>5, DeferredFacts DEF IInv, Control, Starting, jobVars
  <2>7. Built' = Built \cup {c}
    BY <2>2, <2>3, <2>4 DEF IInv, Control, Built
  <2>8. IsFiniteSet(Built') /\ Cardinality(Built') = n + 1
    BY <2>1, <2>2, <2>7, FS_AddElement
  <2>9. Built' = {Order[i] : i \in 1..(n + 1)}
    BY <2>1, <2>7
  <2>10. BuiltInOrder'
    <3>1. main' = "building" => n + 1 < 10
      BY <2>2, <2>3
    <3>2. main' \notin {"config", "building"} => n + 1 = 10
      BY <2>2, <2>3, <2>5
    <3>3. main' # "config"
      BY <2>3, <2>5
    <3>4. n + 1 \in 0..10
      OBVIOUS
    <3>5. main' \notin {"config", "building"} => Built' = Components
      BY <2>9, <3>2, OrderFacts
    <3> HIDE DEF c
    <3> QED BY <2>8, <2>9, <3>1, <3>3, <3>4, <3>5 DEF BuiltInOrder
  <2>11. Phases'
    BY <2>2, <2>3, <2>4, <2>5 DEF IInv, Control, Phases, Active, Starting, Ending, jobVars
  <2>12. Pledged'
    <3> DEFINE more == Deferred(c, how)
    <3>1. defers \in Seq(Components) /\ more \in Seq(Components)
      BY <2>2, DeferredFacts DEF IInv, Control
    <3> HIDE DEF c, more
    <3>2. /\ Len(defers \o more) = Len(defers) + Len(more)
          /\ \A i \in 1..Len(defers) : (defers \o more)[i] = defers[i]
          /\ \A i \in 1..Len(more) : (defers \o more)[Len(defers) + i] = more[i]
          /\ Len(defers) \in Nat /\ Len(more) \in Nat
      BY <3>1
    <3>3. ASSUME NEW b \in Components \ {"outbox"}, comp'[b] = "open"
          PROVE  \E i \in 1..Len(defers') : defers'[i] = b
      <4>1. CASE b = c
        <5>1. PICK i \in 1..Len(more) : more[i] = b
          BY <2>2, <2>3, <3>3, <4>1, DeferredFacts DEF IInv, Control, more
        <5> QED
          BY <2>3, <3>2, <5>1 DEF more
      <4>2. CASE b # c
        <5>1. PICK i \in 1..Len(defers) : defers[i] = b
          BY <2>2, <2>3, <3>3, <4>2 DEF IInv, Control, Pledged
        <5> QED
          BY <2>3, <3>2, <5>1 DEF more
      <4> QED
        BY <4>1, <4>2
    <3>4. exit' # "clean"
      BY <2>3, <2>5 DEF IInv, Pledged
    <3> QED
      BY <3>3, <3>4 DEF Pledged
  <2> QED
    BY <2>6, <2>10, <2>11, <2>12 DEF IInv
<1> QED
  BY <1>1, <1>2

\* One step of Next keeps the invariant, action by action.
LEMMA NextIInv == IInv /\ [Next]_vars => IInv'
<1> SUFFICES ASSUME IInv, [Next]_vars PROVE IInv'
  OBVIOUS
<1> USE DEF Starting, Ending, outboxVars, startVars, jobVars
<1>1. ASSUME NEW code, code # "clean", Exit(code) PROVE IInv'
  BY <1>1, ExitIInv
<1>2. CASE Configure
  BY <1>1, <1>2, BuiltKept DEF IInv, Control, Phases, Active, Pledged, Configure
<1>3. CASE Build
  BY <1>3, BuildIInv
<1>4. CASE RedisFlips
  BY <1>4, BuiltKept DEF IInv, Control, Phases, Active, Pledged, RedisFlips
<1>5. CASE Start
  BY <1>5, BuiltKept DEF IInv, Control, Phases, Active, Pledged, Start
<1>6. CASE Killed \/ ServerError \/ DrainTimeout
  BY <1>1, <1>6 DEF Killed, ServerError, DrainTimeout
<1>7. ASSUME NEW r \in Requests, Accept(r) \/ Respond(r) PROVE IInv'
  BY <1>7, BuiltKept DEF IInv, Control, Phases, Active, Pledged, Accept, Respond
<1>8. ASSUME NEW e \in Events, Emit(e) PROVE IInv'
  BY <1>8, BuiltKept DEF IInv, Control, Phases, Active, Pledged, Emit, Enqueue
<1>9. CASE Submit
  BY <1>9, BuiltKept DEF IInv, Control, Phases, Active, Pledged, Submit
<1>10. ASSUME NEW w \in Workers, Worker(w) PROVE IInv'
  BY <1>10, BuiltKept
  DEF IInv, Control, Phases, Active, Pledged, Worker, WorkerLoop, TakeJob, DequeueEnds, Send, Goto
<1>11. CASE Dispatcher
  BY <1>11, BuiltKept
  DEF IInv, Control, Phases, Active, Pledged, Dispatcher, CheckContext, Dequeue, DBDequeue, Publish
<1>12. CASE Signal \/ Drain
  BY <1>12, BuiltKept DEF IInv, Control, Phases, Active, Pledged, Signal, Drain, Drained
<1>13. CASE cancelJobs \/ cancelDispatcher
  BY <1>13, BuiltKept DEF IInv, Control, Phases, Active, Pledged, cancelJobs, cancelDispatcher
<1>14. CASE Stop
  BY <1>14, BuiltKept DEF IInv, Control, Phases, Active, Pledged, Stop
<1>15. CASE CloseOutbox
  BY <1>15, BuiltKept DEF IInv, Control, Phases, Active, Pledged, CloseOutbox, Close
<1>16. CASE Return
  <2>1. CASE Exit("clean") /\ defers = << >>
    BY <1>16, <2>1, BuiltKept DEF IInv, Control, Phases, Active, Pledged, Exit, Return
  <2>2. CASE defers # << >>
    <3> DEFINE b == defers[Len(defers)]
    <3>1. /\ comp' = [comp EXCEPT ![b] = "closed"]
          /\ defers' = SubSeq(defers, 1, Len(defers) - 1)
          /\ main = "returning"
          /\ UNCHANGED <<outboxVars, environment, redis, flips, main, request, jobVars, exit>>
      BY <1>16, <2>2 DEF Return, Last, Front
    <3>2. defers \in Seq(Components) /\ Len(defers) \in Nat \ {0} /\ b \in Components
      BY <2>2 DEF IInv, Control
    <3>3. /\ defers' \in Seq(Components)
          /\ Len(defers') = Len(defers) - 1
          /\ \A i \in 1..Len(defers) - 1 : defers'[i] = defers[i]
      <4> DEFINE n == Len(defers) - 1
      <4>1. n \in Nat /\ \A i \in 1..n : defers[i] \in Components
        BY <3>2
      <4> HIDE DEF n
      <4>2. /\ SubSeq(defers, 1, n) \in Seq(Components)
            /\ Len(SubSeq(defers, 1, n)) = IF 1 <= n THEN n - 1 + 1 ELSE 0
            /\ \A i \in 1..n - 1 + 1 : SubSeq(defers, 1, n)[i] = defers[1 + i - 1]
        BY <4>1, SubSeqProperties
      <4>3. defers' = SubSeq(defers, 1, n)
        BY <3>1 DEF n
      <4>4. /\ Len(SubSeq(defers, 1, n)) = n
            /\ \A i \in 1..n : SubSeq(defers, 1, n)[i] = defers[i]
        BY <4>1, <4>2
      <4> QED
        BY <4>2, <4>3, <4>4 DEF n
    <3> HIDE DEF b
    <3>4. Control' /\ Phases'
      BY <3>1, <3>2, <3>3 DEF IInv, Control, Phases, Active
    <3>5. Built' = Built
      BY <3>1, <3>2 DEF IInv, Control, BuiltInOrder, Built
    <3>6. BuiltInOrder'
      BY <3>1, <3>5 DEF IInv, BuiltInOrder
    <3>7. ASSUME NEW c \in Components \ {"outbox"}, comp'[c] = "open"
          PROVE  \E i \in 1..Len(defers') : defers'[i] = c
      <4>1. c # b /\ comp[c] = "open"
        BY <3>1, <3>2, <3>7 DEF IInv, Control
      <4>2. PICK i \in 1..Len(defers) : defers[i] = c
        BY <4>1 DEF IInv, Pledged
      <4>3. i # Len(defers)
        BY <4>1, <4>2 DEF b
      <4> QED
        BY <3>2, <3>3, <4>2, <4>3
    <3>8. exit' # "clean"
      BY <2>2, <3>1 DEF IInv, Pledged
    <3> QED
      BY <3>4, <3>6, <3>7, <3>8 DEF IInv, Pledged
  <2> QED
    BY <1>16, <2>1, <2>2 DEF Return
<1>17. CASE UNCHANGED vars
  BY <1>17, BuiltKept DEF IInv, Control, Phases, Active, Pledged, vars
<1> QED
  BY <1>2, <1>3, <1>4, <1>5, <1>6, <1>7, <1>8, <1>9, <1>10, <1>11, <1>12, <1>13, <1>14, <1>15,
     <1>16, <1>17
  DEF Next, ShutDown

\* Control, BuiltInOrder, Phases and Pledged hold together in every reachable
\* state.
THEOREM ProcessInvariance == Spec => []IInv
  BY InitIInv, NextIInv, PTL DEF Spec

\* While requests and jobs are handled, what they use is built and open.
THEOREM NothingUsedAfterClose == Spec => []NoUseAfterClose
<1>1. IInv => NoUseAfterClose
  <2> SUFFICES ASSUME IInv PROVE NoUseAfterClose
    OBVIOUS
  <2>1. main \in {"serving", "draining", "drained", "stopping"} =>
            \A c \in Components : comp[c] \in {"memory", "open"}
    BY DEF IInv, Control, BuiltInOrder, Built, Phases
  <2>2. (\E w \in Workers : worker[w] = "handling") =>
            main \in {"serving", "draining", "drained", "stopping"}
    BY DEF IInv, Control, Phases, Starting, Ending
  <2>3. {"queue", "deadLetter"} \subseteq Components
    BY DEF Components, Order, ToSet
  <2> QED
    BY <2>1, <2>2, <2>3 DEF IInv, Phases, Ending, NoUseAfterClose
<1> QED
  BY <1>1, ProcessInvariance, PTL

\* When main returns, requests and workers are done and the clients closed.
THEOREM CleanExit == Spec => []CleanExitCutsNothing
<1>1. IInv => CleanExitCutsNothing
  BY DEF IInv, Control, Phases, Pledged, Ending, CleanExitCutsNothing
<1> QED
  BY <1>1, ProcessInvariance, PTL

-----------------------------------------------------------------------------
(* The outbox in memory.                                                    *)

\* The dispatcher is started with the outbox, and holds an event only while it
\* publishes it; an event is accepted once, and only accepted ones can have been
\* refused.
Dispatching ==
    /\ comp["outbox"] = "none" => pc = "new"
    /\ pc # "publishing" => event = << >>
    /\ \A i, j \in DOMAIN accepted : accepted[i] = accepted[j] => i = j
    /\ dropped \subseteq ToSet(accepted)

OutboxInv == OutboxTypeOK /\ Dispatching /\ FlushedInOrder

\* The events are in sequences.
LEMMA Sequences ==
  ASSUME OutboxTypeOK
  PROVE  /\ log \in Seq(Events) /\ event \in Seq(Events) /\ queue \in Seq(Events)
         /\ accepted \in Seq(Events) /\ << >> \in Seq(Events)
<1>1. event = << >> \/ \E e \in Events : event = <<e>>
  BY DEF OutboxTypeOK
<1>2. CASE event = << >>
  BY <1>2 DEF OutboxTypeOK
<1>3. ASSUME NEW e \in Events, event = <<e>>
      PROVE  event \in Seq(Events)
  BY <1>3
<1> QED
  BY <1>1, <1>2, <1>3 DEF OutboxTypeOK

\* The elements of a concatenation.
LEMMA Joined ==
  ASSUME NEW S, NEW s \in Seq(S), NEW t \in Seq(S)
  PROVE  /\ s \o t \in Seq(S) /\ Len(s) \in Nat /\ Len(t) \in Nat
         /\ Len(s \o t) = Len(s) + Len(t)
         /\ DOMAIN (s \o t) = 1..(Len(s) + Len(t))
         /\ \A i \in 1..Len(s) : (s \o t)[i] = s[i]
         /\ \A i \in 1..Len(t) : (s \o t)[Len(s) + i] = t[i]
  OBVIOUS

\* Enqueue appends to what is to come as to what was accepted.
LEMMA EnqueueInOrder ==
  ASSUME OutboxInv, NEW e \in Events, Enqueue(e), UNCHANGED comp
  PROVE  OutboxInv'
<1>1. /\ log \in Seq(Events) /\ event \in Seq(Events) /\ queue \in Seq(Events)
      /\ accepted \in Seq(Events) /\ log \o event \in Seq(Events) /\ Out \in Seq(Events)
  BY Sequences DEF OutboxInv, Out
<1>2. /\ e \notin ToSet(accepted) /\ queue' = Append(queue, e) /\ accepted' = Append(accepted, e)
      /\ pc' = Woken /\ UNCHANGED <<closed, event, cancelled, log, dropped>>
  BY DEF Enqueue
<1>3. Out' = Append(Out, e)
  <2> DEFINE f == log \o event
  <2>1. f \in Seq(Events) /\ Out = f \o queue /\ Out' = f \o Append(queue, e)
    BY <1>1, <1>2 DEF Out
  <2> HIDE DEF f
  <2> QED BY <1>1, <2>1
<1>4. /\ OutboxTypeOK'
      /\ pc' # "publishing" => event' = << >>
      /\ comp["outbox"]' = "none" => pc' = "new"
  BY <1>1, <1>2 DEF OutboxInv, OutboxTypeOK, Dispatching, Woken
<1>5. /\ DOMAIN accepted = 1..Len(accepted) /\ Len(accepted) \in Nat
      /\ DOMAIN accepted' = 1..(Len(accepted) + 1)
      /\ \A i \in DOMAIN accepted : accepted'[i] = accepted[i]
      /\ accepted'[Len(accepted) + 1] = e
  BY <1>1, <1>2
<1>6. /\ DOMAIN Out = 1..Len(Out) /\ Len(Out) \in Nat
      /\ DOMAIN Out' = 1..(Len(Out) + 1)
      /\ \A i \in DOMAIN Out : Out'[i] = Out[i]
      /\ Out'[Len(Out) + 1] = e
  BY <1>1, <1>3
<1>7. ToSet(accepted') = ToSet(accepted) \cup {e} /\ ToSet(Out') = ToSet(Out) \cup {e}
  BY <1>5, <1>6 DEF ToSet
<1>8. Dispatching'
  <2>1. \A i \in DOMAIN accepted : accepted[i] # e
    BY <1>2 DEF ToSet
  <2>2. \A i, j \in DOMAIN accepted' : accepted'[i] = accepted'[j] => i = j
    BY <1>5, <2>1 DEF OutboxInv, Dispatching
  <2> QED BY <1>2, <1>4, <1>7, <2>2 DEF OutboxInv, Dispatching
<1>9. FlushedInOrder'
  <2>1. e \notin dropped
    BY <1>2 DEF OutboxInv, Dispatching
  <2>2. ToSet(Out') = ToSet(accepted') \ dropped'
    BY <1>2, <1>7, <2>1 DEF OutboxInv, FlushedInOrder
  <2>3. ASSUME NEW i \in DOMAIN Out', NEW j \in DOMAIN Out', i < j
        PROVE  \E k, l \in DOMAIN accepted' : k < l /\ Out'[i] = accepted'[k] /\ Out'[j] = accepted'[l]
    <3>1. CASE j \in DOMAIN Out
      <4>1. i \in DOMAIN Out
        BY <1>6, <2>3, <3>1
      <4>2. PICK k, l \in DOMAIN accepted : k < l /\ Out[i] = accepted[k] /\ Out[j] = accepted[l]
        BY <2>3, <3>1, <4>1 DEF OutboxInv, FlushedInOrder
      <4> QED BY <1>5, <1>6, <3>1, <4>1, <4>2
    <3>2. CASE j \notin DOMAIN Out
      <4>1. j = Len(Out) + 1 /\ i \in DOMAIN Out
        BY <1>6, <2>3, <3>2
      <4>2. Out[i] \in ToSet(accepted)
        BY <4>1 DEF OutboxInv, FlushedInOrder, ToSet
      <4>3. PICK k \in DOMAIN accepted : Out[i] = accepted[k]
        BY <4>2 DEF ToSet
      <4>4. k < Len(accepted) + 1 /\ Len(accepted) + 1 \in DOMAIN accepted' /\ k \in DOMAIN accepted'
        BY <1>5
      <4> QED BY <1>5, <1>6, <4>1, <4>3, <4>4
    <3> QED BY <3>1, <3>2
  <2> QED BY <2>2, <2>3 DEF FlushedInOrder
<1> QED BY <1>4, <1>8, <1>9 DEF OutboxInv

\* A step that moves no event out of the line keeps the order.
LEMMA SameLine ==
  ASSUME OutboxInv, OutboxTypeOK', Out' = Out, UNCHANGED <<accepted, dropped>>,
         pc' # "publishing" => event' = << >>,
         comp["outbox"]' = "none" => pc' = "new"
  PROVE  OutboxInv'
BY DEF OutboxInv, Dispatching, FlushedInOrder

\* A refused event leaves the line, and the others keep their order.
LEMMA RefusedInOrder ==
  ASSUME OutboxInv, event' = << >>, dropped' = dropped \cup ToSet(event),
         pc = "publishing", pc' = "loop",
         UNCHANGED <<queue, closed, cancelled, log, accepted, comp>>
  PROVE  OutboxInv'
<1> DEFINE front == log \o event
           n == Len(log)
           m == Len(event)
           q == Len(queue)
<1>1. /\ log \in Seq(Events) /\ event \in Seq(Events) /\ queue \in Seq(Events)
      /\ accepted \in Seq(Events) /\ << >> \in Seq(Events)
  BY Sequences DEF OutboxInv
<1>2. /\ n \in Nat /\ m \in Nat /\ q \in Nat
      /\ Out \in Seq(Events) /\ DOMAIN Out = 1..(n + m + q)
      /\ \A i \in 1..n : Out[i] = log[i]
      /\ \A i \in 1..m : Out[n + i] = event[i]
      /\ \A i \in 1..q : Out[n + m + i] = queue[i]
  <2>1. /\ front \in Seq(Events) /\ Len(front) = n + m /\ n \in Nat /\ m \in Nat
        /\ \A i \in 1..n : front[i] = log[i]
        /\ \A i \in 1..m : front[n + i] = event[i]
    BY <1>1, Joined
  <2> HIDE DEF front
  <2>0. front \in Seq(Events) /\ queue \in Seq(Events)
    BY <1>1, <2>1
  <2>2. /\ front \o queue \in Seq(Events) /\ q \in Nat
        /\ DOMAIN (front \o queue) = 1..(Len(front) + q)
        /\ \A i \in 1..Len(front) : (front \o queue)[i] = front[i]
        /\ \A i \in 1..q : (front \o queue)[Len(front) + i] = queue[i]
    BY <2>0, Joined
  <2>3. Out = front \o queue
    BY DEF Out, front
  <2> HIDE DEF n, m, q
  <2> QED BY <2>1, <2>2, <2>3
<1>3. /\ Out' \in Seq(Events) /\ DOMAIN Out' = 1..(n + q)
      /\ \A i \in 1..n : Out'[i] = log[i]
      /\ \A i \in 1..q : Out'[n + i] = queue[i]
  <2>1. Out' = log \o queue
    BY <1>1 DEF Out
  <2> QED BY <1>1, <2>1, Joined
<1> HIDE DEF front, n, m, q
<1> DEFINE at(i) == IF i <= n THEN i ELSE m + i
<1>4. \A i \in DOMAIN Out' : at(i) \in DOMAIN Out /\ Out'[i] = Out[at(i)]
  <2> SUFFICES ASSUME NEW i \in DOMAIN Out' PROVE at(i) \in DOMAIN Out /\ Out'[i] = Out[at(i)]
    OBVIOUS
  <2>1. CASE i <= n
    BY <1>2, <1>3, <2>1
  <2>2. CASE ~(i <= n)
    <3>1. i - n \in 1..q /\ i = n + (i - n) /\ at(i) = n + m + (i - n)
      BY <1>2, <1>3, <2>2
    <3>2. Out'[i] = queue[i - n] /\ Out[at(i)] = queue[i - n]
      BY <1>2, <1>3, <3>1
    <3> QED BY <1>2, <3>1, <3>2
  <2> QED BY <2>1, <2>2
<1>5. \A i, j \in DOMAIN Out' : i < j => at(i) < at(j)
  BY <1>2, <1>3
<1>6. \A i, j \in DOMAIN Out : Out[i] = Out[j] => i = j
  <2> SUFFICES ASSUME NEW i \in DOMAIN Out, NEW j \in DOMAIN Out, i < j PROVE Out[i] # Out[j]
    BY <1>2
  <2>1. PICK k, l \in DOMAIN accepted : k < l /\ Out[i] = accepted[k] /\ Out[j] = accepted[l]
    BY DEF OutboxInv, FlushedInOrder
  <2>2. k # l
    BY <1>1, <2>1
  <2> QED BY <2>1, <2>2 DEF OutboxInv, Dispatching
<1>7. ToSet(Out') = ToSet(Out) \ ToSet(event)
  <2>1. DOMAIN event = 1..m
    BY <1>1 DEF m
  <2>2. \A i \in DOMAIN Out' : Out'[i] \in ToSet(Out) \ ToSet(event)
    <3> SUFFICES ASSUME NEW i \in DOMAIN Out', NEW p \in 1..m, Out'[i] = event[p] PROVE FALSE
      BY <1>4, <2>1 DEF ToSet
    <3>1. at(i) \in DOMAIN Out /\ n + p \in DOMAIN Out /\ Out[at(i)] = Out[n + p]
      BY <1>2, <1>4
    <3>2. at(i) = n + p
      BY <1>6, <3>1
    <3> QED BY <1>2, <1>3, <3>2
  <2>3. \A i \in DOMAIN Out : Out[i] \in ToSet(event) \/ Out[i] \in ToSet(Out')
    <3> SUFFICES ASSUME NEW i \in DOMAIN Out PROVE Out[i] \in ToSet(event) \/ Out[i] \in ToSet(Out')
      OBVIOUS
    <3>1. CASE i <= n
      <4>1. i \in DOMAIN Out' /\ Out'[i] = Out[i]
        BY <1>2, <1>3, <3>1
      <4> QED BY <4>1 DEF ToSet
    <3>2. CASE n < i /\ i <= n + m
      <4>1. i - n \in 1..m /\ i = n + (i - n)
        BY <1>2, <3>2
      <4>2. Out[i] = event[i - n]
        BY <1>2, <4>1
      <4> QED BY <2>1, <4>1, <4>2 DEF ToSet
    <3>3. CASE n + m < i
      <4>1. i - n - m \in 1..q /\ i = n + m + (i - n - m) /\ n + (i - n - m) \in DOMAIN Out'
        BY <1>2, <1>3, <3>3
      <4>2. Out[i] = queue[i - n - m] /\ Out'[n + (i - n - m)] = queue[i - n - m]
        BY <1>2, <1>3, <4>1
      <4> QED BY <4>1, <4>2 DEF ToSet
    <3> QED BY <1>2, <3>1, <3>2, <3>3
  <2> QED BY <2>2, <2>3 DEF ToSet
<1>8. FlushedInOrder'
  <2>1. ToSet(Out') = ToSet(accepted') \ dropped'
    BY <1>7 DEF OutboxInv, FlushedInOrder
  <2>2. ASSUME NEW i \in DOMAIN Out', NEW j \in DOMAIN Out', i < j
        PROVE  \E k, l \in DOMAIN accepted' : k < l /\ Out'[i] = accepted'[k] /\ Out'[j] = accepted'[l]
    <3>1. /\ at(i) \in DOMAIN Out /\ at(j) \in DOMAIN Out /\ at(i) < at(j)
          /\ Out'[i] = Out[at(i)] /\ Out'[j] = Out[at(j)]
      BY <1>4, <1>5, <2>2
    <3> HIDE DEF at
    <3> QED BY <3>1 DEF OutboxInv, FlushedInOrder
  <2> QED BY <2>1, <2>2 DEF FlushedInOrder
<1>9. OutboxTypeOK' /\ Dispatching'
  <2>1. ToSet(event) \subseteq Events
    BY <1>1 DEF ToSet
  <2>2. ToSet(event) \subseteq ToSet(accepted)
    <3>1. \A p \in 1..m : event[p] \in ToSet(Out)
      <4> TAKE p \in 1..m
      <4>1. n + p \in DOMAIN Out /\ event[p] = Out[n + p]
        BY <1>2
      <4> QED BY <4>1 DEF ToSet
    <3>2. DOMAIN event = 1..m
      BY <1>1 DEF m
    <3> QED BY <3>1, <3>2 DEF OutboxInv, FlushedInOrder, ToSet
  <2> QED BY <2>1, <2>2 DEF OutboxInv, OutboxTypeOK, Dispatching
<1> QED BY <1>8, <1>9 DEF OutboxInv

\* Every step of the process keeps the line in order.
LEMMA NextOutbox == IInv /\ OutboxInv /\ [Next]_vars => OutboxInv'
<1> SUFFICES ASSUME IInv, OutboxInv, [Next]_vars PROVE OutboxInv'
  OBVIOUS
<1>0. /\ log \in Seq(Events) /\ event \in Seq(Events) /\ queue \in Seq(Events) /\ OutboxTypeOK
  BY Sequences DEF OutboxInv
<1>1. ASSUME UNCHANGED outboxVars, comp["outbox"]' = "none" => comp["outbox"] = "none"
      PROVE  OutboxInv'
  <2>1. Out' = Out /\ OutboxTypeOK'
    BY <1>0, <1>1 DEF Out, OutboxTypeOK, outboxVars
  <2> QED BY <1>1, <2>1, SameLine DEF OutboxInv, Dispatching, outboxVars
<1>2. ASSUME NEW e \in Events, Emit(e) PROVE OutboxInv'
  BY <1>2, EnqueueInOrder DEF Emit, startVars
<1>3. ASSUME UNCHANGED <<queue, event, log, accepted, dropped>>,
             \/ pc' = pc
             \/ /\ pc # "publishing"
                /\ pc' \in {"loop", "dequeue", "waiting", "publishing", "exited"},
             closed' \in BOOLEAN, cancelled' \in BOOLEAN,
             comp["outbox"]' = "none" => comp["outbox"] = "none" /\ pc' = pc
      PROVE  OutboxInv'
  <2>1. Out' = Out /\ OutboxTypeOK'
    BY <1>0, <1>3 DEF Out, OutboxTypeOK
  <2> QED BY <1>3, <2>1, SameLine DEF OutboxInv, Dispatching
<1>4. CASE Build
  <2> DEFINE c == Order[Cardinality(Built) + 1]
  <2>1. CASE Exit("error")
    BY <1>1, <2>1 DEF Exit, startVars
  <2>2. CASE ~Exit("error")
    <3>1. PICK how \in build[c] :
            /\ how # "error"
            /\ comp' = [comp EXCEPT ![c] = how]
            /\ pc' = IF c = "outbox" THEN "loop" ELSE pc
            /\ UNCHANGED <<queue, closed, event, cancelled, log, accepted, dropped>>
      BY <1>4, <2>2 DEF Build
    <3>2. main = "building"
      BY <1>4 DEF Build
    <3>3. c \in Components /\ c \notin Built
      <4>1. PICK n \in 0..9 : /\ Built = {Order[i] : i \in 1..n}
                              /\ Cardinality(Built) = n
        BY <3>2 DEF IInv, BuiltInOrder
      <4> QED BY <4>1, OrderFacts
    <3>4. how \in {"memory", "open"}
      BY <3>1, <3>3, BuildFacts
    <3>5. comp[c] = "none" /\ comp'[c] = how /\ (c # "outbox" => comp'["outbox"] = comp["outbox"])
      BY <3>1, <3>3 DEF IInv, Control, Built
    <3> HIDE DEF c
    <3>6. CASE c = "outbox"
      BY <1>0, <1>3, <3>1, <3>4, <3>5, <3>6 DEF OutboxInv, Dispatching, OutboxTypeOK
    <3>7. CASE c # "outbox"
      BY <1>0, <1>1, <3>1, <3>5, <3>7 DEF outboxVars
    <3> QED BY <3>6, <3>7
  <2> QED BY <2>1, <2>2
<1>5. CASE Dispatcher
  <2>0. comp' = comp
    BY <1>5 DEF Dispatcher, startVars
  <2>1. CASE CheckContext
    BY <1>0, <1>3, <2>0, <2>1 DEF CheckContext, OutboxTypeOK, OutboxInv, Dispatching
  <2>2. CASE Dequeue
    <3>1. CASE queue = << >>
      BY <1>0, <1>3, <2>0, <2>2, <3>1 DEF Dequeue, OutboxTypeOK, OutboxInv, Dispatching
    <3>2. CASE queue # << >>
      <4>1. /\ event = << >> /\ event' = <<Head(queue)>> /\ queue' = Tail(queue) /\ pc' = "publishing"
            /\ UNCHANGED <<closed, cancelled, log, accepted, dropped>>
        BY <2>2, <3>2 DEF Dequeue, First, OutboxInv, Dispatching
      <4>2. Head(queue) \in Events /\ Tail(queue) \in Seq(Events) /\ queue = <<Head(queue)>> \o Tail(queue)
        BY <1>0, <3>2
      <4>3. Out' = Out
        <5>1. Out = log \o queue
          BY <1>0, <4>1 DEF Out
        <5>2. (log \o <<Head(queue)>>) \o Tail(queue) = log \o (<<Head(queue)>> \o Tail(queue))
          BY <1>0, <4>2
        <5> QED BY <4>1, <4>2, <5>1, <5>2 DEF Out
      <4>4. OutboxTypeOK'
        BY <1>0, <4>1, <4>2 DEF OutboxTypeOK
      <4> QED BY <2>0, <2>2, <4>1, <4>3, <4>4, SameLine DEF Dequeue, OutboxInv, Dispatching
    <3> QED BY <3>1, <3>2
  <2>3. CASE DBDequeue
    BY <1>0, <1>3, <2>0, <2>3 DEF DBDequeue, OutboxTypeOK, OutboxInv, Dispatching
  <2>4. CASE Publish
    <3>1. /\ event' = << >> /\ pc = "publishing" /\ pc' = "loop" /\ UNCHANGED <<queue, closed, cancelled, accepted>>
          /\ \/ log' = log \o event /\ UNCHANGED dropped
             \/ dropped' = dropped \cup ToSet(event) /\ UNCHANGED log
      BY <2>4 DEF Publish
    <3>2. CASE log' = log \o event /\ UNCHANGED dropped
      <4>1. Out' = Out
        BY <1>0, <3>1, <3>2 DEF Out
      <4>2. OutboxTypeOK'
        BY <1>0, <3>1, <3>2 DEF OutboxTypeOK
      <4> QED BY <2>0, <3>1, <3>2, <4>1, <4>2, SameLine DEF OutboxInv, Dispatching
    <3>3. CASE dropped' = dropped \cup ToSet(event) /\ UNCHANGED log
      BY <2>0, <3>1, <3>3, RefusedInOrder
    <3> QED BY <3>1, <3>2, <3>3
  <2> QED BY <1>5, <2>1, <2>2, <2>3, <2>4 DEF Dispatcher
<1>6. CASE cancelDispatcher
  BY <1>0, <1>3, <1>6 DEF cancelDispatcher, OutboxTypeOK, startVars
<1>7. CASE CloseOutbox
  <2>1. CASE comp["outbox"] = "memory"
    BY <1>0, <1>3, <1>7, <2>1 DEF CloseOutbox, Close, Woken, OutboxTypeOK, startVars
  <2>2. CASE comp["outbox"] # "memory"
    BY <1>1, <1>7, <2>2 DEF CloseOutbox, startVars
  <2> QED BY <2>1, <2>2
<1>8. CASE Return
  <2>1. CASE Exit("clean")
    BY <1>1, <2>1 DEF Exit, startVars
  <2>2. CASE ~Exit("clean")
    <3>1. comp' = [comp EXCEPT ![Last(defers)] = "closed"] /\ UNCHANGED outboxVars
      BY <1>8, <2>2 DEF Return
    <3> QED BY <1>1, <3>1 DEF IInv, Control
  <2> QED BY <2>1, <2>2
<1>9. CASE UNCHANGED <<outboxVars, comp>>
  BY <1>1, <1>9
<1> QED
  BY <1>2, <1>4, <1>5, <1>6, <1>7, <1>8, <1>9
  DEF vars, Next, Configure, RedisFlips, Start, Killed, Exit, Accept, Respond, Submit, Worker,
      ServerError, Signal, ShutDown, Drain, DrainTimeout, cancelJobs, Stop, startVars

\* Events leave the outbox in memory in the order they came, each once, and
\* none is lost but those the publisher refused.
THEOREM InOrder == Spec => []FlushedInOrder
<1>1. Init => OutboxInv
  <2> SUFFICES ASSUME Init PROVE OutboxInv
    OBVIOUS
  <2>1. Out = << >>
    BY DEF Init, OutboxInit, Out
  <2>2. OutboxTypeOK
    <3>1. OutboxInit
      BY DEF Init
    <3>2. << >> \in Seq(Events)
      OBVIOUS
    <3> QED BY <3>1, <3>2 DEF OutboxInit, OutboxTypeOK
  <2>3. Dispatching
    BY DEF Init, OutboxInit, Dispatching
  <2> QED BY <2>1, <2>2, <2>3 DEF Init, OutboxInit, OutboxInv, FlushedInOrder, ToSet
<1>2. OutboxInv => FlushedInOrder
  BY DEF OutboxInv
<1> QED
  BY <1>1, <1>2, NextOutbox, ProcessInvariance, PTL DEF Spec

\* Whoever puts an event into the queue or closes it wakes the dispatcher.
THEOREM NoWakeupLost == Spec => []NoLostWakeup
<1>1. Init => NoLostWakeup
  BY DEF Init, OutboxInit, NoLostWakeup
<1>2. NoLostWakeup /\ [Next]_vars => NoLostWakeup'
  <2> SUFFICES ASSUME NoLostWakeup, [Next]_vars PROVE NoLostWakeup'
    OBVIOUS
  <2>1. CASE UNCHANGED <<queue, closed>> /\ (pc' = pc \/ pc' # "waiting")
    BY <2>1 DEF NoLostWakeup
  <2>2. ASSUME NEW e \in Events, Emit(e) PROVE NoLostWakeup'
    BY <2>2 DEF Emit, Enqueue, Woken, NoLostWakeup
  <2>3. CASE Dispatcher
    BY <2>3 DEF Dispatcher, CheckContext, Dequeue, DBDequeue, Publish, NoLostWakeup
  <2>4. CASE CloseOutbox
    BY <2>1, <2>4 DEF CloseOutbox, Close, Woken, NoLostWakeup, outboxVars
  <2>5. CASE Build
    BY <2>1, <2>5 DEF Build, Exit, outboxVars
  <2>6. CASE Return
    BY <2>1, <2>6 DEF Return, Exit, outboxVars
  <2>7. CASE cancelDispatcher
    BY <2>1, <2>7 DEF cancelDispatcher
  <2>8. CASE UNCHANGED outboxVars
    BY <2>1, <2>8 DEF outboxVars
  <2> QED
    BY <2>2, <2>3, <2>4, <2>5, <2>6, <2>7, <2>8
    DEF vars, Next, Configure, RedisFlips, Start, Killed, Exit, Accept, Respond, Submit, Worker,
        ServerError, Signal, ShutDown, Drain, DrainTimeout, cancelJobs, Stop
<1> QED
  BY <1>1, <1>2, PTL DEF Spec
=============================================================================
