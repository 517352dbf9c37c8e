--------------------------- MODULE DBOutboxProofs ---------------------------
(***************************************************************************)
(* For every set of events and of dispatchers and every combination of     *)
(* faults: the outbox in PostgreSQL loses no inserted event, and it        *)
(* implements the at-least-once channel of EventChannel.                   *)
(***************************************************************************)
EXTENDS DBOutbox, TLAPS

\* A dispatcher between two events holds none, and one that is about to delete
\* a row has published its event.  Neither NoEventLost nor the refinement is
\* inductive without this: MarkPublished does not look at the broker.
Hands ==
    \A d \in Dispatchers :
        /\ pc[d] \in {"loop", "exited"} => claim[d] = 0
        /\ pc[d] = "marking" => copies[claim[d]] > 0

IInv == TypeOK /\ Hands /\ NoEventLost

\* The table is empty and every dispatcher at the head of its loop.
LEMMA InitIInv == Init => IInv
  BY DBOutboxAssumption DEF Init, IInv, TypeOK, Hands, NoEventLost, Many

\* Taking a copy keeps the counters' type and lowers none of them.
LEMMA TakeCounts ==
  ASSUME NEW e \in Events, copies \in [Events -> 0..Many], Take(e)
  PROVE  /\ copies' \in [Events -> 0..Many]
         /\ copies'[e] > 0
         /\ \A f \in Events : copies[f] > 0 => copies'[f] > 0
  BY DEF Take, Many

\* One step of Next keeps the invariant, action by action.
LEMMA NextIInv == IInv /\ [Next]_vars => IInv'
<1> SUFFICES ASSUME IInv, [Next]_vars PROVE IInv'
  OBVIOUS
<1> USE DBOutboxAssumption
<1>1. ASSUME NEW e \in Events, Enqueue(e) PROVE IInv'
  BY <1>1 DEF IInv, TypeOK, Hands, NoEventLost, Enqueue, Many
<1>2. ASSUME NEW d \in Dispatchers, SelectRow(d) PROVE IInv'
  <2>1. TypeOK'
    <3>1. CASE UNCHANGED <<claim, doubted>> /\ Goto(d, "exited")
      BY <1>2, <3>1 DEF IInv, TypeOK, SelectRow, Goto
    <3>2. ASSUME NEW e \in Events, claim' = [claim EXCEPT ![d] = e], Goto(d, "tx"),
                 Doubt({e} \cap Range(claim))
          PROVE  TypeOK'
      BY <1>2, <3>2 DEF IInv, TypeOK, SelectRow, Goto, Doubt
    <3> QED
      BY <1>2, <3>1, <3>2 DEF IInv, TypeOK, SelectRow
  <2>2. Hands'
    BY <1>2 DEF IInv, TypeOK, Hands, SelectRow, Goto
  <2>3. NoEventLost'
    BY <1>2 DEF IInv, NoEventLost, SelectRow
  <2> QED
    BY <2>1, <2>2, <2>3 DEF IInv
<1>3. ASSUME NEW d \in Dispatchers, Commit(d) PROVE IInv'
  BY <1>3 DEF IInv, TypeOK, Hands, NoEventLost, Commit, Goto, Leave, Many
<1>4. ASSUME NEW d \in Dispatchers, Publish(d) PROVE IInv'
  <2>1. claim[d] \in Events /\ Take(claim[d])
    BY <1>4 DEF IInv, TypeOK, Publish
  <2>2. /\ copies' \in [Events -> 0..Many]
        /\ copies'[claim[d]] > 0
        /\ \A f \in Events : copies[f] > 0 => copies'[f] > 0
    BY <2>1, TakeCounts DEF IInv, TypeOK
  <2> QED
    BY <1>4, <2>1, <2>2 DEF IInv, TypeOK, Hands, NoEventLost, Publish, Goto
<1>5. ASSUME NEW d \in Dispatchers, PublishFails(d) PROVE IInv'
  <2>1. claim[d] \in Events
    BY <1>5 DEF IInv, TypeOK, PublishFails
  <2>2. /\ copies' \in [Events -> 0..Many]
        /\ \A f \in Events : copies[f] > 0 => copies'[f] > 0
    BY <1>5, <2>1, TakeCounts DEF IInv, TypeOK, PublishFails
  <2>3. doubted' \subseteq Events
    BY <1>5, <2>1 DEF IInv, TypeOK, PublishFails, Doubt
  <2> QED
    BY <1>5, <2>1, <2>2, <2>3 DEF IInv, TypeOK, Hands, NoEventLost, PublishFails, Goto, Leave
<1>6. ASSUME NEW d \in Dispatchers, MarkPublished(d) PROVE IInv'
  BY <1>6 DEF IInv, TypeOK, Hands, NoEventLost, MarkPublished, Goto, Leave, Many
<1>7. ASSUME NEW d \in Dispatchers, MarkFails(d) PROVE IInv'
  BY <1>7 DEF IInv, TypeOK, Hands, NoEventLost, MarkFails, Goto, Leave, Doubt, Many
<1>8. ASSUME NEW d \in Dispatchers, Stop(d) PROVE IInv'
  BY <1>8 DEF IInv, TypeOK, Hands, NoEventLost, Stop, Goto, Leave, Doubt, Many
<1>9. ASSUME NEW d \in Dispatchers, Restart(d) PROVE IInv'
  BY <1>9 DEF IInv, TypeOK, Hands, NoEventLost, Restart, Goto, Many
<1>10. CASE UNCHANGED vars
  BY <1>10 DEF vars, IInv, TypeOK, Hands, NoEventLost
<1> QED
  BY <1>1, <1>2, <1>3, <1>4, <1>5, <1>6, <1>7, <1>8, <1>9, <1>10 DEF Next, Step

\* Types, Hands and NoEventLost hold together in every reachable state.
THEOREM OutboxInvariance == Spec => []IInv
  BY InitIInv, NextIInv, PTL DEF Spec

\* No sequence of crashes, restarts, failed publishes, failed DELETEs and
\* competing dispatchers loses an event whose INSERT succeeded.
THEOREM NothingLost == Spec => []NoEventLost
<1>1. IInv => NoEventLost
  BY DEF IInv
<1> QED
  BY <1>1, OutboxInvariance, PTL

\* An empty table is an empty channel.
LEMMA InitImplements == Init => Abstract!ChannelInit
  BY DEF Init, Abstract!ChannelInit

\* The channel counts a copy as the broker does.
LEMMA TakeImplements ==
  ASSUME NEW e \in Events, copies \in [Events -> 0..Many], Take(e)
  PROVE  copies' = [copies EXCEPT ![e] = IF @ + 1 < Many THEN @ + 1 ELSE Many]
<1>1. copies[e] \in {0, 1, 2}
  BY DEF Many
<1>2. (IF copies[e] + 1 < Many THEN copies[e] + 1 ELSE Many) = (IF copies[e] = 0 THEN 1 ELSE Many)
  BY <1>1 DEF Many
<1> QED
  BY <1>2 DEF Take

\* Every step of the outbox is a step of the channel or leaves it unchanged:
\* only the commit, a restart and a dispatcher's end between two events do.
LEMMA NextImplements ==
  IInv /\ [Next]_vars => [Abstract!ChannelNext]_(Abstract!channelVars)
<1> SUFFICES ASSUME IInv, [Next]_vars
             PROVE  Abstract!ChannelNext \/ UNCHANGED <<inserted, rows, claim, copies>>
  BY DEF Abstract!channelVars
<1> USE DBOutboxAssumption
<1>1. ASSUME NEW e \in Events, Enqueue(e) PROVE Abstract!SendEvent(e)
  BY <1>1 DEF Enqueue, Abstract!SendEvent
<1>2. ASSUME NEW d \in Dispatchers, SelectRow(d)
      PROVE  Abstract!TakeOn(d) \/ UNCHANGED <<inserted, rows, claim, copies>>
  BY <1>2 DEF IInv, Hands, SelectRow, Abstract!TakeOn
<1>3. ASSUME NEW d \in Dispatchers, Commit(d)
      PROVE  Abstract!Forget(d) \/ UNCHANGED <<inserted, rows, claim, copies>>
  BY <1>3 DEF IInv, TypeOK, Commit, Leave, Abstract!Forget
<1>4. ASSUME NEW d \in Dispatchers, Publish(d) PROVE Abstract!HandOver(d)
  <2>1. claim[d] \in Events /\ claim[d] # 0 /\ Take(claim[d])
    BY <1>4 DEF IInv, TypeOK, Publish
  <2>2. copies' = [copies EXCEPT ![claim[d]] = IF @ + 1 < Many THEN @ + 1 ELSE Many]
    BY <2>1, TakeImplements DEF IInv, TypeOK
  <2> QED
    BY <1>4, <2>1, <2>2 DEF Publish, Abstract!HandOver
<1>5. ASSUME NEW d \in Dispatchers, PublishFails(d)
      PROVE  Abstract!HandOver(d) \/ Abstract!Forget(d)
  <2>1. claim[d] \in Events /\ claim[d] # 0
    BY <1>5 DEF IInv, TypeOK, PublishFails
  <2>2. CASE Take(claim[d])
    <3>1. copies' = [copies EXCEPT ![claim[d]] = IF @ + 1 < Many THEN @ + 1 ELSE Many]
      BY <2>1, <2>2, TakeImplements DEF IInv, TypeOK
    <3> QED
      BY <1>5, <2>1, <3>1 DEF PublishFails, Leave, Abstract!HandOver
  <2>3. CASE UNCHANGED copies
    BY <1>5, <2>1, <2>3 DEF PublishFails, Leave, Abstract!Forget
  <2> QED
    BY <1>5, <2>2, <2>3 DEF PublishFails
<1>6. ASSUME NEW d \in Dispatchers, MarkPublished(d) PROVE Abstract!Settle(d)
  BY <1>6 DEF IInv, TypeOK, Hands, MarkPublished, Leave, Abstract!Settle
<1>7. ASSUME NEW d \in Dispatchers, MarkFails(d) PROVE Abstract!Forget(d)
  BY <1>7 DEF IInv, TypeOK, MarkFails, Leave, Abstract!Forget
<1>8. ASSUME NEW d \in Dispatchers, Stop(d)
      PROVE  Abstract!Forget(d) \/ UNCHANGED <<inserted, rows, claim, copies>>
  BY <1>8 DEF IInv, TypeOK, Stop, Leave, Abstract!Forget
<1>9. ASSUME NEW d \in Dispatchers, Restart(d) PROVE UNCHANGED <<inserted, rows, claim, copies>>
  BY <1>9 DEF Restart
<1> QED
  BY <1>1, <1>2, <1>3, <1>4, <1>5, <1>6, <1>7, <1>8, <1>9
  DEF Next, Step, vars, Abstract!ChannelNext

\* The outbox in PostgreSQL is an at-least-once channel, for any number of
\* replicas.
THEOREM OutboxImplementsChannel == Spec => ImplementsChannel
  BY InitImplements, NextImplements, OutboxInvariance, PTL DEF Spec, ImplementsChannel, Abstract!Channel
-----------------------------------------------------------------------------
(* Duplicates.                                                              *)

\* What is published or held was inserted.
Known ==
    /\ rows \subseteq inserted
    /\ \A e \in Events : copies[e] > 0 => e \in inserted
    /\ \A d \in Dispatchers : claim[d] \in inserted \cup {0}

\* An event that was not doubted is held by one dispatcher at most; the broker
\* has none of it before that one publishes, and one copy from then on, while
\* the row is gone or about to be deleted by the dispatcher that published it.
Once ==
    \A e \in Events \ doubted :
        /\ copies[e] < Many
        /\ \A c, d \in Dispatchers : claim[c] = e /\ claim[d] = e => c = d
        /\ \A d \in Dispatchers : claim[d] = e /\ pc[d] # "marking" => copies[e] = 0
        /\ copies[e] > 0 /\ e \in rows => \E d \in Dispatchers : pc[d] = "marking" /\ claim[d] = e

OnceInv == IInv /\ Known /\ Once

\* A dispatcher that drops its event without a copy at the broker, or with the
\* event doubted, leaves one that another may take up.
LEMMA LeaveOnce ==
  ASSUME OnceInv, NEW d \in Dispatchers, NEW l \in {"loop", "exited"}, Leave(d, l),
         UNCHANGED <<rows, inserted>>, doubted \subseteq doubted',
         \A e \in Events \ doubted' : copies'[e] = copies[e],
         claim[d] \in doubted' \/ pc[d] # "marking"
  PROVE  Once'
<1> USE DBOutboxAssumption DEF OnceInv, Many
<1>1. /\ claim'[d] = 0 /\ pc'[d] = l
      /\ \A c \in Dispatchers \ {d} : claim'[c] = claim[c] /\ pc'[c] = pc[c]
  BY DEF IInv, TypeOK, Leave, Goto
<1> SUFFICES ASSUME NEW e \in Events \ doubted'
             PROVE  /\ copies'[e] < Many
                    /\ \A b, c \in Dispatchers : claim'[b] = e /\ claim'[c] = e => b = c
                    /\ \A c \in Dispatchers : claim'[c] = e /\ pc'[c] # "marking" => copies'[e] = 0
                    /\ copies'[e] > 0 /\ e \in rows' =>
                         \E c \in Dispatchers : pc'[c] = "marking" /\ claim'[c] = e
  BY DEF Once
<1>2. e \in Events \ doubted /\ e # 0 /\ copies'[e] = copies[e]
  OBVIOUS
<1>3. claim[d] = e => pc[d] # "marking"
  BY <1>2
<1> QED
  BY <1>1, <1>2, <1>3 DEF Once

\* One step of Next keeps OnceInv, action by action.
LEMMA NextOnce == OnceInv /\ [Next]_vars => OnceInv'
<1> SUFFICES ASSUME OnceInv, [Next]_vars PROVE OnceInv'
  OBVIOUS
<1> USE DBOutboxAssumption
<1>0. IInv' /\ TypeOK
  BY NextIInv DEF OnceInv, IInv
<1>1. ASSUME NEW e \in Events, Enqueue(e) PROVE Known' /\ Once'
  <2>1. Known'
    BY <1>1, <1>0 DEF OnceInv, TypeOK, Known, Enqueue
  <2>2. copies[e] = 0
    BY <1>1, <1>0 DEF OnceInv, TypeOK, Known, Enqueue, Many
  <2>3. Once'
    BY <1>1, <2>2 DEF OnceInv, Once, Enqueue
  <2> QED BY <2>1, <2>3
<1>2. ASSUME NEW d \in Dispatchers, SelectRow(d) PROVE Known' /\ Once'
  <2>1. CASE Goto(d, "exited") /\ UNCHANGED <<claim, doubted>>
    <3>1. /\ \A c \in Dispatchers \ {d} : pc'[c] = pc[c]
          /\ pc[d] = "loop" /\ pc'[d] = "exited"
      BY <1>2, <2>1, <1>0 DEF SelectRow, Goto, TypeOK
    <3>2. Known'
      BY <1>2, <2>1 DEF OnceInv, Known, SelectRow
    <3>3. Once'
      BY <1>2, <2>1, <3>1 DEF OnceInv, Once, SelectRow
    <3> QED BY <3>2, <3>3
  <2>2. ASSUME NEW e \in rows, claim' = [claim EXCEPT ![d] = e], Goto(d, "tx"),
               Doubt({e} \cap Range(claim))
        PROVE  Known' /\ Once'
    <3>1. /\ \A c \in Dispatchers \ {d} : pc'[c] = pc[c] /\ claim'[c] = claim[c]
          /\ pc[d] = "loop" /\ pc'[d] = "tx" /\ claim'[d] = e /\ claim[d] = 0
          /\ UNCHANGED <<rows, copies, inserted>>
      BY <1>2, <2>2, <1>0 DEF OnceInv, IInv, Hands, SelectRow, Goto, TypeOK
    <3>2. Known'
      BY <3>1 DEF OnceInv, Known
    <3>3. \A c \in Dispatchers : claim[c] \in Range(claim)
      BY <1>0 DEF Range, TypeOK
    <3>4. ASSUME NEW f \in Events \ doubted'
          PROVE  /\ copies'[f] < Many
                 /\ \A b, c \in Dispatchers : claim'[b] = f /\ claim'[c] = f => b = c
                 /\ \A c \in Dispatchers : claim'[c] = f /\ pc'[c] # "marking" => copies'[f] = 0
                 /\ copies'[f] > 0 /\ f \in rows' =>
                      \E c \in Dispatchers : pc'[c] = "marking" /\ claim'[c] = f
      <4>1. f \in Events \ doubted /\ f # 0
        BY <2>2, <3>4 DEF Doubt
      <4>2. CASE f # e
        BY <3>1, <4>1, <4>2 DEF OnceInv, Once
      <4>3. CASE f = e
        <5>1. \A c \in Dispatchers : claim[c] # e
          BY <2>2, <3>3, <3>4, <4>3 DEF Doubt
        <5>2. copies[e] < Many /\ ~(copies[e] > 0)
          BY <2>2, <4>1, <4>3, <5>1 DEF OnceInv, Once
        <5>3. copies[e] = 0
          BY <4>1, <4>3, <5>2, <1>0 DEF TypeOK, Many
        <5> QED BY <3>1, <4>3, <5>1, <5>2, <5>3
      <4> QED BY <4>2, <4>3
    <3> QED BY <3>2, <3>4 DEF Once
  <2> QED BY <1>2, <2>1, <2>2 DEF SelectRow
<1>3. ASSUME NEW d \in Dispatchers, Commit(d) PROVE Known' /\ Once'
  <2>1. CASE Goto(d, "publishing") /\ UNCHANGED claim
    <3>1. /\ \A c \in Dispatchers \ {d} : pc'[c] = pc[c]
          /\ pc[d] = "tx" /\ pc'[d] = "publishing"
      BY <1>3, <2>1, <1>0 DEF Commit, Goto, TypeOK
    <3> QED BY <1>3, <2>1, <3>1 DEF OnceInv, Known, Once, Commit
  <2>2. CASE Leave(d, "exited")
    <3>1. pc[d] # "marking" /\ UNCHANGED <<rows, copies, inserted, doubted>>
      BY <1>3 DEF Commit
    <3>2. Once'
      BY <2>2, <3>1, LeaveOnce
    <3> QED BY <2>2, <3>1, <3>2, <1>0 DEF OnceInv, Known, Leave, TypeOK
  <2> QED BY <1>3, <2>1, <2>2 DEF Commit
<1>4. ASSUME NEW d \in Dispatchers, Publish(d) PROVE Known' /\ Once'
  <2>1. /\ claim[d] \in Events /\ Take(claim[d]) /\ pc[d] = "publishing"
        /\ UNCHANGED <<rows, claim, inserted, doubted>>
        /\ pc'[d] = "marking" /\ \A c \in Dispatchers \ {d} : pc'[c] = pc[c]
    BY <1>4, <1>0 DEF TypeOK, Publish, Goto
  <2>2. /\ \A f \in Events \ {claim[d]} : copies'[f] = copies[f]
        /\ copies[claim[d]] = 0 => copies'[claim[d]] = 1
    BY <2>1, <1>0 DEF Take, TypeOK
  <2>3. Known'
    <3>1. claim[d] \in inserted
      BY <2>1 DEF OnceInv, Known
    <3> QED BY <2>1, <2>2, <3>1 DEF OnceInv, Known
  <2>4. ASSUME NEW e \in Events \ doubted'
        PROVE  /\ copies'[e] < Many
               /\ \A b, c \in Dispatchers : claim'[b] = e /\ claim'[c] = e => b = c
               /\ \A c \in Dispatchers : claim'[c] = e /\ pc'[c] # "marking" => copies'[e] = 0
               /\ copies'[e] > 0 /\ e \in rows' =>
                    \E c \in Dispatchers : pc'[c] = "marking" /\ claim'[c] = e
    <3>1. CASE e # claim[d]
      BY <2>1, <2>2, <2>4, <3>1 DEF OnceInv, Once
    <3>2. CASE e = claim[d]
      <4>1. copies'[e] = 1
        BY <2>1, <2>2, <2>4, <3>2 DEF OnceInv, Once
      <4> QED BY <2>1, <2>4, <3>2, <4>1 DEF OnceInv, Once, Many
    <3> QED BY <3>1, <3>2
  <2> QED BY <2>3, <2>4 DEF Once
<1>5. ASSUME NEW d \in Dispatchers, PublishFails(d) PROVE Known' /\ Once'
  <2>1. /\ claim[d] \in Events /\ pc[d] = "publishing" /\ Leave(d, "loop")
        /\ UNCHANGED <<rows, inserted>>
        /\ claim' = [claim EXCEPT ![d] = 0]
    BY <1>5, <1>0 DEF TypeOK, PublishFails, Leave
  <2>2. /\ doubted \subseteq doubted'
        /\ \A f \in Events : f # claim[d] \/ f \notin doubted' => copies'[f] = copies[f]
    BY <1>5, <2>1, <1>0 DEF PublishFails, Take, Doubt, TypeOK
  <2>3. Once'
    BY <2>1, <2>2, LeaveOnce
  <2>4. claim[d] \in inserted
    BY <2>1 DEF OnceInv, Known
  <2> QED BY <2>1, <2>2, <2>3, <2>4, <1>0 DEF OnceInv, Known, TypeOK
<1>6. ASSUME NEW d \in Dispatchers, MarkPublished(d) PROVE Known' /\ Once'
  <2>1. /\ claim[d] \in Events /\ pc[d] = "marking" /\ rows' = rows \ {claim[d]}
        /\ claim'[d] = 0 /\ pc'[d] = "loop"
        /\ \A c \in Dispatchers \ {d} : claim'[c] = claim[c] /\ pc'[c] = pc[c]
        /\ UNCHANGED <<copies, inserted, doubted>>
    BY <1>6, <1>0 DEF TypeOK, MarkPublished, Leave, Goto
  <2>2. Known'
    BY <2>1 DEF OnceInv, Known
  <2>3. Once'
    BY <2>1 DEF OnceInv, Once
  <2> QED BY <2>2, <2>3
<1>7. ASSUME NEW d \in Dispatchers, MarkFails(d) \/ Stop(d) PROVE Known' /\ Once'
  <2>1. /\ \E l \in {"loop", "exited"} : Leave(d, l)
        /\ UNCHANGED <<rows, copies, inserted>> /\ doubted \subseteq doubted'
        /\ claim[d] \in doubted' \/ pc[d] # "marking"
    BY <1>7 DEF MarkFails, Stop, Doubt
  <2>2. Once'
    BY <2>1, LeaveOnce
  <2> QED BY <2>1, <2>2, <1>0 DEF OnceInv, Known, Leave, TypeOK
<1>8. ASSUME NEW d \in Dispatchers, Restart(d) PROVE Known' /\ Once'
  <2>1. /\ \A c \in Dispatchers \ {d} : pc'[c] = pc[c]
        /\ pc[d] = "exited" /\ pc'[d] = "loop" /\ UNCHANGED <<rows, claim, copies, inserted, doubted>>
    BY <1>8, <1>0 DEF Restart, Goto, TypeOK
  <2> QED BY <2>1 DEF OnceInv, Known, Once
<1>9. CASE UNCHANGED vars
  BY <1>9, <1>0 DEF vars, OnceInv, Known, Once
<1> QED
  BY <1>0, <1>1, <1>2, <1>3, <1>4, <1>5, <1>6, <1>7, <1>8, <1>9 DEF OnceInv, Next, Step

\* For any number of replicas, the broker has two copies of an event only if a
\* reply or a DELETE failed, a replica stopped in between, or a second
\* dispatcher selected the row after the commit had unlocked it.
THEOREM DuplicatesAreExplained == Spec => []NoDuplicates
<1>1. Init => OnceInv
  <2>1. Init => Known /\ Once
    BY DBOutboxAssumption DEF Init, Known, Once, Many
  <2> QED BY <2>1, InitIInv DEF OnceInv
<1>2. OnceInv => NoDuplicates
  BY DEF OnceInv, Once, NoDuplicates
<1> QED
  BY <1>1, <1>2, NextOnce, PTL DEF Spec
=============================================================================
