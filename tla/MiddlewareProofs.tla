-------------------------- MODULE MiddlewareProofs --------------------------
(***************************************************************************)
(* Proofs about the middleware.                                            *)
(*                                                                         *)
(* Idempotency, for every set of requests and bodies, every lifetime and   *)
(* every set of failing Redis calls: replays and conflicts are justified,  *)
(* and a late retry does not run the handler while the record of its       *)
(* predecessor counts.                                                     *)
(*                                                                         *)
(* RateLimiter, for every set of limiters, rate, burst and idle time: a    *)
(* refusal is justified, its Retry-After suffices, and no window of time   *)
(* allows more than the budget of the bucket.                              *)
(***************************************************************************)
EXTENDS Idempotency, RateLimiter, TLAPS

-----------------------------------------------------------------------------
(* The idempotency middleware.                                              *)

\* What a request has at each place of the middleware: a body once it has
\* arrived, and from Save on the answer of its own run of the handler.
Places ==
    \A r \in Requests :
        /\ pc[r] # "new" => body[r] \in Bodies
        /\ pc[r] = "save" => answer[r] \in Answer
        /\ pc[r] = "save" => r \in executed
        /\ r \in executed => pc[r] \in {"save", "done"}
        /\ \A s \in prior[r] : pc[s] = "done"

\* The record is that of a run of the handler, on the body whose hash it has.
RecordIsARun ==
    record # None =>
        /\ record.by \in executed
        /\ body[record.by] = record.hash
        /\ answer[record.by].status = record.status

\* A saved record that must still count is covered by the one in the store: a
\* later Save, by whichever request, never ends its lifetime early, nor gives
\* it more than one lifetime from now.
Covered ==
    /\ now <= MaxTime
    /\ record # None => record.until = Never \/ record.until <= now + TTL
    /\ \A s \in Requests :
        /\ validTo[s] <= now + TTL
        /\ validTo[s] > now => record # None /\ validTo[s] <= record.until

\* RetriesDoNotExecute, from the moment Lookup has decided.
Decided ==
    \A r \in Requests : r \in executed \/ pc[r] = "execute" =>
        \A s \in prior[r] : now >= validTo[s]

\* What Save records is no replay and no conflict.
OwnAnswers == \A r \in Requests : pc[r] = "save" => answer[r].kind = "own"

IInv ==
    /\ TypeOK
    /\ Places
    /\ OwnAnswers
    /\ RecordIsARun
    /\ Covered
    /\ Decided
    /\ AnswersAreJustified

-----------------------------------------------------------------------------
\* No record, no request, and the clock at zero.
LEMMA InitIInv == Init => IInv
<1> SUFFICES ASSUME Init PROVE IInv
  OBVIOUS
<1>1. TypeOK
  BY DEF Init, TypeOK
<1>2. Places /\ OwnAnswers /\ RecordIsARun /\ Decided /\ AnswersAreJustified
  BY DEF Init, Places, OwnAnswers, RecordIsARun, Decided, AnswersAreJustified
<1>3. Covered
  BY IdempotencyAssumption DEF Init, Covered
<1> QED BY <1>1, <1>2, <1>3 DEF IInv

\* A request that arrives has a body and finds others done.
LEMMA ArriveIInv ==
    ASSUME IInv, NEW r \in Requests, Arrive(r), UNCHANGED redis
    PROVE  IInv'
<1> USE DEF Arrive, Goto
<1>1. TypeOK'
  BY DEF IInv, TypeOK
<1>2. Places' /\ OwnAnswers'
  BY DEF IInv, TypeOK, Places, OwnAnswers
<1>3. r \notin executed
  BY DEF IInv, Places
<1>4. RecordIsARun'
  BY <1>3 DEF IInv, TypeOK, RecordIsARun
<1>5. Covered'
  BY DEF IInv, Covered
<1>6. Decided'
  BY <1>3 DEF IInv, TypeOK, Decided
<1>7. AnswersAreJustified'
  BY <1>3 DEF IInv, TypeOK, AnswersAreJustified
<1> QED BY <1>1, <1>2, <1>4, <1>5, <1>6, <1>7 DEF IInv

\* Lookup answers from a record, which is that of a run; or finds none that
\* counts, and then no record of an earlier request counts any more.
LEMMA LookupIInv ==
    ASSUME IInv, NEW r \in Requests, Lookup(r), UNCHANGED redis
    PROVE  IInv'
<1> USE DEF Lookup, Goto, Reply
<1>1. r \notin executed /\ body[r] \in Bodies
  BY DEF IInv, Places
<1>2. record # None => record \in Record
  BY DEF IInv, TypeOK
<1>3. TypeOK'
  <2>1. record' \in Record \cup {None} /\ pc' \in [Requests -> {"new", "lookup", "execute", "save", "fallback", "done"}]
    BY DEF IInv, TypeOK
  <2>2. answer' \in [Requests -> Answer \cup {None}]
    BY <1>2 DEF IInv, TypeOK, Live, Record, Answer
  <2> QED BY <2>1, <2>2 DEF IInv, TypeOK
<1>4. \A s \in Requests \ {r} : pc'[s] = pc[s] /\ answer'[s] = answer[s]
  BY DEF IInv, TypeOK
<1>5. pc'[r] \in {"done", "execute", "fallback"}
  BY DEF IInv, TypeOK
<1>6. Places' /\ OwnAnswers'
  <2>1. \A s \in Requests : \A t \in prior[s] : t # r /\ t \in Requests
    BY DEF IInv, Places, TypeOK
  <2> QED BY <1>1, <1>4, <1>5, <2>1 DEF IInv, Places, OwnAnswers
<1>7. RecordIsARun'
  <2>1. record' = record \/ record' = None
    OBVIOUS
  <2>2. record # None => record.by \in Requests \ {r}
    BY <1>1 DEF IInv, RecordIsARun, TypeOK
  <2> QED BY <1>4, <2>1, <2>2 DEF IInv, RecordIsARun
<1>8. Covered'
  BY DEF IInv, Covered, Live, TypeOK, Record
<1>9. Decided'
  <2>1. ASSUME pc'[r] = "execute", NEW s \in prior[r] PROVE now >= validTo[s]
    <3>1. ~Live /\ s \in Requests
      BY <2>1 DEF IInv, TypeOK
    <3>2. now \in Nat /\ validTo[s] \in Nat /\ (record # None => record.until \in Nat)
      BY <1>2, <3>1 DEF IInv, TypeOK, Record
    <3> QED BY <3>1, <3>2 DEF IInv, Covered, Live
  <2> QED BY <1>1, <1>4, <2>1 DEF IInv, Decided
<1>10. AnswersAreJustified'
  <2>1. ASSUME NEW q \in Requests \ {r}, pc'[q] = "done"
        PROVE  /\ answer'[q].kind = "replay" =>
                    LET s == answer'[q].by
                    IN  s \in executed /\ body[s] = body[q] /\ answer'[s].status = answer'[q].status
               /\ answer'[q].kind = "conflict" => \E s \in executed : body[s] # body[q]
    BY <1>1, <1>4, <2>1 DEF IInv, AnswersAreJustified, TypeOK
  <2>2. CASE Live /\ SameRequest(r) /\ answer' = [answer EXCEPT ![r] =
                [kind |-> "replay", by |-> record.by, status |-> record.status]]
    <3>1. record.by \in executed /\ body[record.by] = body[r] /\ answer[record.by].status = record.status
      BY <2>2 DEF IInv, RecordIsARun, Live, SameRequest
    <3>2. answer'[r] = [kind |-> "replay", by |-> record.by, status |-> record.status]
      BY <2>2 DEF IInv, TypeOK
    <3>3. answer'[record.by] = answer[record.by]
      BY <1>1, <1>4, <3>1 DEF IInv, TypeOK
    <3> QED BY <2>1, <3>1, <3>2, <3>3 DEF AnswersAreJustified
  <2>3. CASE Live /\ ~SameRequest(r) /\ answer' = [answer EXCEPT ![r] =
                [kind |-> "conflict", by |-> r, status |-> "failed"]]
    <3>1. record.by \in executed /\ body[record.by] # body[r]
      BY <2>3 DEF IInv, RecordIsARun, Live, SameRequest
    <3>2. answer'[r] = [kind |-> "conflict", by |-> r, status |-> "failed"]
      BY <2>3 DEF IInv, TypeOK
    <3> QED BY <2>1, <3>1, <3>2 DEF AnswersAreJustified
  <2>4. CASE pc'[r] # "done"
    BY <2>1, <2>4 DEF AnswersAreJustified
  <2> QED BY <2>2, <2>3, <2>4 DEF IInv, TypeOK
<1> QED BY <1>3, <1>6, <1>7, <1>8, <1>9, <1>10 DEF IInv

\* A run of the handler gives the request an answer of its own; no record and
\* no other request is touched.
LEMMA ExecuteIInv ==
    ASSUME IInv, NEW r \in Requests, Execute(r), UNCHANGED redis
    PROVE  IInv'
<1> USE DEF Execute, Goto
<1>1. PICK st \in {"created", "failed"} :
        answer' = [answer EXCEPT ![r] = [kind |-> "own", by |-> r, status |-> st]]
  BY Zenon DEF Reply
<1>2. /\ r \notin executed /\ answer'[r] \in Answer /\ pc'[r] = "save"
      /\ \A s \in Requests \ {r} : pc'[s] = pc[s] /\ answer'[s] = answer[s]
  BY <1>1 DEF IInv, Places, TypeOK, Answer
<1>3. TypeOK'
  BY <1>1 DEF IInv, TypeOK, Answer
<1>4. Places' /\ OwnAnswers'
  <2>1. \A s \in Requests : \A t \in prior[s] : t # r /\ t \in Requests
    BY Zenon DEF IInv, Places, TypeOK
  <2>2. answer'[r].kind = "own"
    BY <1>1 DEF IInv, TypeOK
  <2> QED BY <1>2, <2>1, <2>2 DEF IInv, Places, OwnAnswers
<1>5. RecordIsARun'
  BY <1>2 DEF IInv, RecordIsARun, TypeOK
<1>6. Covered'
  BY DEF IInv, Covered
<1>7. Decided'
  BY <1>2 DEF IInv, Decided
<1>8. AnswersAreJustified'
  <2> SUFFICES ASSUME NEW q \in Requests, pc'[q] = "done"
               PROVE  /\ answer'[q].kind = "replay" =>
                           LET s == answer'[q].by
                           IN  s \in executed' /\ body[s] = body[q] /\ answer'[s].status = answer'[q].status
                      /\ answer'[q].kind = "conflict" => \E s \in executed' : body[s] # body[q]
    BY DEF AnswersAreJustified
  <2>1. q # r /\ pc[q] = "done" /\ answer'[q] = answer[q]
    BY <1>2
  <2> QED BY <1>2, <2>1 DEF IInv, AnswersAreJustified, TypeOK
<1> QED BY <1>3, <1>4, <1>5, <1>6, <1>7, <1>8 DEF IInv

\* A request that could not look up is answered 400, and nothing else happens.
LEMMA FallbackIInv ==
    ASSUME IInv, NEW r \in Requests, Fallback(r), UNCHANGED redis
    PROVE  IInv'
<1> USE DEF Fallback, Goto, Reply
<1>1. /\ r \notin executed /\ pc'[r] = "done"
      /\ answer'[r] = [kind |-> "badRequest", by |-> r, status |-> "failed"]
      /\ \A s \in Requests \ {r} : pc'[s] = pc[s] /\ answer'[s] = answer[s]
  BY DEF IInv, Places, TypeOK
<1>2. TypeOK'
  BY DEF IInv, TypeOK, Answer
<1>3. Places' /\ OwnAnswers'
  <2>1. \A s \in Requests : prior[s] \subseteq Requests
    BY DEF IInv, TypeOK
  <2> QED BY <1>1, <2>1 DEF IInv, Places, OwnAnswers
<1>4. RecordIsARun'
  BY <1>1 DEF IInv, RecordIsARun, TypeOK
<1>5. Covered'
  BY DEF IInv, Covered
<1>6. Decided'
  BY <1>1 DEF IInv, Decided
<1>7. AnswersAreJustified'
  <2> SUFFICES ASSUME NEW q \in Requests, pc'[q] = "done"
               PROVE  /\ answer'[q].kind = "replay" =>
                           LET s == answer'[q].by
                           IN  s \in executed /\ body[s] = body[q] /\ answer'[s].status = answer'[q].status
                      /\ answer'[q].kind = "conflict" => \E s \in executed : body[s] # body[q]
    BY DEF AnswersAreJustified
  <2>1. CASE q = r
    BY <1>1, <2>1
  <2>2. CASE q # r
    BY <1>1, <2>2 DEF IInv, AnswersAreJustified, TypeOK
  <2> QED BY <2>1, <2>2
<1> QED BY <1>2, <1>3, <1>4, <1>5, <1>6, <1>7 DEF IInv

\* The expiry that either store leaves is never before that of a record which
\* must still count, and no further than one lifetime or at Never.
LEMMA ExpiryFacts ==
    ASSUME IInv, NEW until \in IF redis THEN redisExpiry ELSE memoryExpiry
    PROVE  /\ until \in Nat
           /\ until = Never \/ until <= now + TTL
           /\ \A s \in Requests : validTo[s] > now => validTo[s] <= until
           /\ now + TTL < Never
<1>1. now \in Nat /\ TTL \in Nat /\ MaxTime \in Nat /\ now <= MaxTime
  BY IdempotencyAssumption DEF IInv, TypeOK, Covered
<1>2. Never \in Nat /\ now + TTL < Never /\ now + TTL \in Nat
  BY <1>1 DEF Never
<1>3. \A s \in Requests : validTo[s] \in Nat /\ validTo[s] <= now + TTL
  BY Zenon DEF IInv, TypeOK, Covered
<1>4. record # None => record.until \in Nat
  BY DEF IInv, TypeOK, Record
<1>5. CASE until = now + TTL
  BY <1>2, <1>3, <1>5
<1>6. CASE until = Never
  BY <1>1, <1>2, <1>3, <1>6
<1>7. CASE Live /\ until = record.until
  BY <1>2, <1>4, <1>7 DEF IInv, Covered, Live
<1> QED BY <1>5, <1>6, <1>7 DEF redisExpiry, memoryExpiry

\* Save records the request's own run, for a lifetime that covers every record
\* it replaces.
LEMMA SaveIInv ==
    ASSUME IInv, NEW r \in Requests, Save(r), UNCHANGED redis
    PROVE  IInv'
<1> USE DEF Goto
<1>1. /\ pc[r] = "save" /\ pc' = [pc EXCEPT ![r] = "done"]
      /\ UNCHANGED <<body, answer, now, executed, prior>>
  BY DEF Save
<1>2. /\ r \in executed /\ answer[r] \in Answer /\ body[r] \in Bodies
      /\ pc'[r] = "done" /\ \A s \in Requests \ {r} : pc'[s] = pc[s]
  BY <1>1 DEF IInv, Places, TypeOK
<1>3. \A s \in Requests : prior[s] \subseteq Requests \ {r}
  BY <1>1 DEF IInv, TypeOK, Places
<1>4. Places'
  BY <1>1, <1>2, <1>3 DEF IInv, Places
<1>5. AnswersAreJustified'
  <2>1. answer[r].kind \notin {"replay", "conflict"}
    BY <1>1 DEF IInv, OwnAnswers
  <2> QED BY <1>1, <1>2, <2>1 DEF IInv, AnswersAreJustified
<1>6. OwnAnswers'
  BY <1>1, <1>2 DEF IInv, OwnAnswers
<1>7. CASE UNCHANGED <<record, validTo>>
  <2>1. TypeOK'
    BY <1>1, <1>7 DEF IInv, TypeOK
  <2>2. RecordIsARun' /\ Covered'
    BY <1>1, <1>7 DEF IInv, RecordIsARun, Covered
  <2>3. Decided'
    BY <1>1, <1>2, <1>7 DEF IInv, Decided
  <2> QED BY <1>4, <1>5, <1>6, <2>1, <2>2, <2>3 DEF IInv
<1>8. ASSUME NEW until \in IF redis THEN redisExpiry ELSE memoryExpiry,
             record' = [hash |-> body[r], by |-> r, status |-> answer[r].status, until |-> until],
             validTo' = [validTo EXCEPT ![r] = IF until = Never THEN now + TTL ELSE until]
      PROVE  IInv'
  <2>1. /\ until \in Nat /\ now + TTL < Never /\ now + TTL \in Nat /\ Never \in Nat
        /\ until = Never \/ until <= now + TTL
        /\ \A s \in Requests : validTo[s] > now => validTo[s] <= until
    BY ExpiryFacts, IdempotencyAssumption DEF Never, IInv, TypeOK
  <2>2. record' \in Record
    BY <1>2, <1>8, <2>1 DEF Record, Answer
  <2>3. /\ validTo' \in [Requests -> Nat]
        /\ validTo'[r] <= now + TTL /\ validTo'[r] <= until
        /\ \A s \in Requests \ {r} : validTo'[s] = validTo[s]
    BY <1>8, <2>1 DEF IInv, TypeOK
  <2>4. TypeOK'
    BY <1>1, <2>2, <2>3, Zenon DEF IInv, TypeOK
  <2>5. RecordIsARun'
    BY <1>1, <1>2, <1>8 DEF RecordIsARun
  <2>6. Covered'
    <3>1. record' # None
      BY <1>8, <2>2, IdempotencyAssumption
    <3>2. record'.until = until
      BY <1>8
    <3> QED BY <1>1, <2>1, <2>3, <3>1, <3>2 DEF IInv, Covered
  <2>7. Decided'
    BY <1>1, <1>2, <1>3, <2>3 DEF IInv, Decided
  <2> QED BY <1>4, <1>5, <1>6, <2>4, <2>5, <2>6, <2>7 DEF IInv
<1> QED BY <1>7, <1>8 DEF Save

\* As time passes less must count, and nothing else changes.
LEMMA TickIInv ==
    ASSUME IInv, Tick, UNCHANGED redis
    PROVE  IInv'
<1>1. now \in Nat /\ now' = now + 1 /\ now' <= MaxTime /\ TTL \in Nat /\ MaxTime \in Nat
  BY IdempotencyAssumption DEF Tick, IInv, TypeOK
<1>2. TypeOK'
  BY <1>1 DEF Tick, IInv, TypeOK
<1>3. Places' /\ RecordIsARun' /\ OwnAnswers' /\ AnswersAreJustified'
  BY DEF Tick, IInv, Places, RecordIsARun, OwnAnswers, AnswersAreJustified
<1>4. Covered'
  <2>1. /\ UNCHANGED <<record, validTo>> /\ validTo \in [Requests -> Nat]
        /\ record # None => record.until \in Nat
    BY DEF Tick, IInv, TypeOK, Record
  <2> QED BY <1>1, <2>1 DEF IInv, Covered
<1>5. Decided'
  <2>1. UNCHANGED <<pc, executed, prior, validTo>> /\ validTo \in [Requests -> Nat]
        /\ prior \in [Requests -> SUBSET Requests]
    BY DEF Tick, IInv, TypeOK
  <2> QED BY <1>1, <2>1 DEF IInv, Decided
<1> QED BY <1>2, <1>3, <1>4, <1>5 DEF IInv

\* Every step of requests and clock keeps the invariant.
LEMMA NextIInv == IInv /\ [Next]_vars => IInv'
<1> SUFFICES ASSUME IInv, [Next]_vars PROVE IInv'
  OBVIOUS
<1>1. CASE UNCHANGED vars
  BY <1>1 DEF vars, IInv, TypeOK, Places, RecordIsARun, Covered, Decided, OwnAnswers, AnswersAreJustified
<1>2. CASE Next
  BY <1>2, ArriveIInv, LookupIInv, ExecuteIInv, FallbackIInv, SaveIInv, TickIInv DEF Next, Run
<1> QED BY <1>1, <1>2

\* The invariant holds in every reachable state.
THEOREM IdempotencyInvariance == Spec => []IInv
BY InitIInv, NextIInv, PTL DEF Spec

\* However lookups, runs and saves of any number of requests interleave, a
\* replay repeats a run on the same body and a 409 means that another body
\* took the key.
THEOREM JustifiedAnswers == Spec => []AnswersAreJustified
<1>1. IInv => AnswersAreJustified
  BY DEF IInv
<1> QED BY <1>1, IdempotencyInvariance, PTL

\* For any lifetime and any failing Redis calls, a request that arrives after
\* another was recorded does not run the handler before that record expires.
THEOREM NoSecondRun == Spec => []RetriesDoNotExecute
<1>1. IInv => RetriesDoNotExecute
  BY DEF IInv, TypeOK, Decided, RetriesDoNotExecute
<1> QED BY <1>1, IdempotencyInvariance, PTL

-----------------------------------------------------------------------------
(* The buckets of the limiters.                                             *)

\* The limiters that use a bucket.
Users(k) == {l \in Limiters : keyFor(l) = k}

\* The tokens a call finds, a new bucket being full, before it takes one.
Level(l) == IF Present(l) THEN TokensAt(l, clock) ELSE Burst[l]

\* A bucket that was filled at time t has this budget left from tick s on.
Ahead(k, s, n, t) ==
    \E m, q \in Users(k) : Cost * used[k][s] + n <= Cost * outages + Burst[m] + (t - s) * Speed(q)

\* What was allowed from tick s on accounts for what the bucket lacks at time t.
Behind(k, s, n, t) ==
    \E m, q \in Users(k) : Cost * used[k][s] + n >= Burst[m] + (t - s) * Rate[q]

\* No bucket was filled in the future, and what is missing in it was spent since
\* some tick.
Filled ==
    \A k \in Keys : bucket[k] # NoBucket =>
        /\ bucket[k].last <= clock
        /\ \E s \in 0..bucket[k].last : Behind(k, s, bucket[k].tokens, bucket[k].last)

\* A refusal leaves less than a token.
Refused ==
    \A l \in denied : LET b == bucket[keyFor(l)]
                      IN  b # NoBucket /\ b.last = clock /\ b.tokens < Cost

\* In every window that ends with the last fill, what was allowed and what is
\* left fit the budget; after it only failing calls have allowed anything.
Charged ==
    \A k \in Keys : \A s \in 0..MaxTicks :
        IF bucket[k] # NoBucket /\ s <= bucket[k].last
        THEN Ahead(k, s, bucket[k].tokens, bucket[k].last)
        ELSE used[k][s] <= outages

LimiterInv == LimiterTypeOK /\ Filled /\ Refused

-----------------------------------------------------------------------------
(* Arithmetic.                                                              *)

\* A product is monotone in each factor, and a longer stretch of time is the
\* sum of its parts.
LEMMA Products ==
    ASSUME NEW a \in Nat, NEW b \in Nat, NEW r \in Nat, NEW q \in Nat, r <= q
    PROVE  /\ a * r \in Nat /\ a * r <= a * q
           /\ r * a <= q * a
           /\ (a + b) * r = a * r + b * r
OBVIOUS

\* Refilling from t to c at rate r keeps what is spent below a budget, at the
\* faster of the two rates.
LEMMA Grows ==
    ASSUME NEW u \in Nat, NEW n \in Nat, NEW f \in Nat, NEW o \in Nat, NEW s \in Nat, NEW t \in Nat,
           NEW c \in Nat, NEW q \in Nat, NEW r \in Nat, s <= t, t <= c,
           u + n <= o + (t - s) * q, f <= n + (c - t) * r
    PROVE  u + f <= o + (c - s) * q \/ u + f <= o + (c - s) * r
<1>1. PICK a \in Nat, b \in Nat : a = t - s /\ b = c - t /\ c - s = a + b
  OBVIOUS
<1>2. CASE r <= q
  <2>1. b * r <= b * q /\ (a + b) * q = a * q + b * q /\ a * q \in Nat /\ b * r \in Nat /\ b * q \in Nat
    BY <1>2, Products
  <2> QED BY <1>1, <2>1
<1>3. CASE q <= r
  <2>1. a * q <= a * r /\ (a + b) * r = a * r + b * r /\ a * q \in Nat /\ b * r \in Nat /\ a * r \in Nat
    BY <1>3, Products
  <2> QED BY <1>1, <2>1
<1> QED BY <1>2, <1>3

\* And above one, at the slower rate.
LEMMA Lags ==
    ASSUME NEW u \in Nat, NEW n \in Nat, NEW f \in Nat, NEW o \in Nat, NEW s \in Nat, NEW t \in Nat,
           NEW c \in Nat, NEW q \in Nat, NEW r \in Nat, s <= t, t <= c,
           u + n >= o + (t - s) * q, f >= n + (c - t) * r
    PROVE  u + f >= o + (c - s) * q \/ u + f >= o + (c - s) * r
<1>1. PICK a \in Nat, b \in Nat : a = t - s /\ b = c - t /\ c - s = a + b
  OBVIOUS
<1>2. CASE q <= r
  <2>1. b * q <= b * r /\ (a + b) * q = a * q + b * q /\ a * q \in Nat /\ b * r \in Nat /\ b * q \in Nat
    BY <1>2, Products
  <2> QED BY <1>1, <2>1
<1>3. CASE r <= q
  <2>1. a * r <= a * q /\ (a + b) * r = a * r + b * r /\ a * q \in Nat /\ b * r \in Nat /\ a * r \in Nat
    BY <1>3, Products
  <2> QED BY <1>1, <2>1
<1> QED BY <1>2, <1>3

\* Rounding down and adding one overshoots.
LEMMA RoundedUp ==
    ASSUME NEW a \in Nat, NEW r \in Nat \ {0}
    PROVE  a \div r + 1 \in Nat \ {0} /\ (a \div r + 1) * r > a
OBVIOUS

-----------------------------------------------------------------------------
(* What a call finds and leaves.                                            *)

\* The constants and the clock are numbers, and a limiter has a key.
LEMMA Limits ==
    ASSUME LimiterTypeOK, NEW l \in Limiters
    PROVE  /\ Cost \in Nat \ {0} /\ Rate[l] \in Nat \ {0} /\ Burst[l] \in Nat /\ Burst[l] >= Cost
           /\ clock \in Nat /\ clock <= MaxTicks /\ MaxTicks \in Nat /\ outages \in Nat /\ Idle \in Nat
           /\ keyFor(l) \in Keys /\ l \in Users(keyFor(l))
           /\ Users(keyFor(l)) = Sharing(l)
           /\ \A k \in Keys, s \in 0..MaxTicks : used[k][s] \in Nat /\ Cost * used[k][s] \in Nat
BY RateLimiterAssumption DEF LimiterTypeOK, keyFor, Keys, Users, Sharing

\* A bucket that is there is a number of tokens and a time.
LEMMA BucketFacts ==
    ASSUME LimiterInv, NEW k \in Keys, bucket[k] # NoBucket
    PROVE  bucket[k].tokens \in Nat /\ bucket[k].last \in Nat /\ bucket[k].last <= clock
BY DEF LimiterInv, LimiterTypeOK, Filled, Bucket

\* Rounding a quotient up reaches the dividend.
LEMMA Covers ==
    ASSUME NEW b \in Nat, NEW d \in Nat \ {0}
    PROVE  (b + d - 1) \div d \in Nat /\ d * ((b + d - 1) \div d) >= b
OBVIOUS

\* A bucket comes back at its rate or faster, and on Redis it has come back when
\* it is dropped.
LEMMA SpeedFacts ==
    ASSUME LimiterTypeOK, NEW l \in Limiters
    PROVE  /\ Speed(l) \in Nat /\ Rate[l] <= Speed(l)
           /\ onRedis[l] => Burst[l] <= Idle * Speed(l)
<1>1. PICK r \in Nat, b \in Nat, d \in Nat \ {0} : r = Rate[l] /\ b = Burst[l] /\ d = Idle
  BY RateLimiterAssumption
<1>2. PICK v : v = (b + d - 1) \div d
  OBVIOUS
<1>3. v \in Nat /\ d * v >= b
  BY <1>2, Covers
<1>4. CASE onRedis[l] /\ r * d < b
  <2>1. Speed(l) = v
    BY <1>1, <1>2, <1>4 DEF Speed
  <2>2. r <= v
    <3>1. CASE v <= r
      <4>1. d * v <= d * r /\ d * r = r * d
        BY <1>3, <3>1, Products
      <4> QED BY <1>3, <1>4, <4>1
    <3> QED BY <1>3, <3>1
  <2> QED BY <1>1, <1>3, <2>1, <2>2
<1>5. CASE ~(onRedis[l] /\ r * d < b)
  <2>1. Speed(l) = r
    BY <1>1, <1>5 DEF Speed
  <2>2. onRedis[l] => b <= d * r
    BY <1>5
  <2> QED BY <1>1, <2>1, <2>2
<1> QED BY <1>4, <1>5

\* A bucket holds what was left at the last fill, or what it was refilled to, or
\* a full burst.
LEMMA Levels ==
    ASSUME LimiterInv, NEW l \in Limiters, NEW k, k = keyFor(l)
    PROVE  \/ bucket[k] # NoBucket /\ clock = bucket[k].last /\ Level(l) = bucket[k].tokens
           \/ /\ bucket[k] # NoBucket
              /\ Level(l) = bucket[k].tokens + (clock - bucket[k].last) * Rate[l]
              /\ Level(l) <= Burst[l]
           \/ /\ Level(l) = Burst[l]
              /\ bucket[k] # NoBucket =>
                   \/ onRedis[l] /\ bucket[k].last + Idle <= clock
                   \/ Level(l) <= bucket[k].tokens + (clock - bucket[k].last) * Rate[l]
<1>1. k \in Keys /\ Burst[l] \in Nat /\ Rate[l] \in Nat /\ clock \in Nat /\ Idle \in Nat
  BY Limits DEF LimiterInv
<1>2. CASE ~Present(l)
  <2>1. bucket[k] # NoBucket => onRedis[l] /\ bucket[k].last + Idle <= clock
    BY <1>1, <1>2, BucketFacts DEF Present
  <2> QED BY <1>2, <2>1 DEF Level
<1>3. CASE Present(l)
  <2>1. PICK t, n : t = bucket[k].last /\ n = bucket[k].tokens
    OBVIOUS
  <2>2. bucket[k] # NoBucket /\ t \in Nat /\ n \in Nat /\ t <= clock
    BY <1>1, <1>3, <2>1, BucketFacts DEF Present
  <2>3. (clock - t) * Rate[l] \in Nat
    BY <1>1, <2>2, Products
  <2>4. Level(l) = IF clock = t THEN n
                   ELSE IF Burst[l] < n + (clock - t) * Rate[l] THEN Burst[l] ELSE n + (clock - t) * Rate[l]
    BY <1>3, <2>1 DEF Level, TokensAt
  <2> QED BY <1>1, <2>1, <2>2, <2>3, <2>4
<1> QED BY <1>2, <1>3

\* Allow takes a token if there is one, and a call that finds none finds an old
\* bucket.
LEMMA Takes ==
    ASSUME LimiterInv, NEW l \in Limiters
    PROVE  /\ Level(l) \in Nat /\ Left(l) \in Nat
           /\ Level(l) >= Cost => Left(l) + Cost = Level(l)
           /\ Level(l) < Cost => Left(l) = Level(l)
           /\ Level(l) < Cost <=> Present(l) /\ TokensAt(l, clock) < Cost
<1>1. PICK k : k = keyFor(l)
  OBVIOUS
<1>2. k \in Keys /\ Burst[l] \in Nat /\ Rate[l] \in Nat /\ clock \in Nat /\ Cost \in Nat \ {0} /\ Burst[l] >= Cost
  BY <1>1, Limits DEF LimiterInv
<1>3. Level(l) \in Nat
  <2>1. CASE bucket[k] = NoBucket
    BY <1>1, <1>2, <2>1, Levels
  <2>2. CASE bucket[k] # NoBucket
    <3>1. bucket[k].tokens \in Nat /\ bucket[k].last \in Nat /\ bucket[k].last <= clock
      BY <1>2, <2>2, BucketFacts
    <3>2. (clock - bucket[k].last) * Rate[l] \in Nat
      BY <1>2, <3>1, Products
    <3> QED BY <1>1, <1>2, <3>1, <3>2, Levels
  <2> QED BY <2>1, <2>2
<1>4. Present(l) => Level(l) = TokensAt(l, clock)
  BY DEF Level
<1>5. ~Present(l) => Level(l) = Burst[l]
  BY DEF Level
<1>6. Left(l) = IF Level(l) >= Cost THEN Level(l) - Cost ELSE Level(l)
  BY <1>2, <1>3, <1>4, <1>5 DEF Left
<1> QED BY <1>2, <1>3, <1>4, <1>5, <1>6

\* What a bucket lacks when a call finds it was spent since some tick.
LEMMA FindsBehind ==
    ASSUME LimiterInv, NEW l \in Limiters, NEW k, k = keyFor(l)
    PROVE  \E s \in 0..clock : Behind(k, s, Level(l), clock)
<1>0. /\ k \in Keys /\ l \in Users(k) /\ Burst[l] \in Nat /\ Rate[l] \in Nat /\ clock \in Nat /\ clock <= MaxTicks
      /\ \A s \in 0..MaxTicks : Cost * used[k][s] \in Nat
      /\ \A m \in Users(k) : m \in Limiters /\ Burst[m] \in Nat /\ Rate[m] \in Nat
  BY Limits DEF LimiterInv, Users
<1>1. Level(l) \in Nat
  BY Takes
<1>2. CASE Level(l) = Burst[l]
  <2>1. (clock - clock) * Rate[l] = 0 /\ clock \in 0..clock /\ Cost * used[k][clock] \in Nat
    BY <1>0
  <2>2. Cost * used[k][clock] + Level(l) >= Burst[l] + (clock - clock) * Rate[l]
    BY <1>0, <1>2, <2>1
  <2> QED BY <1>0, <2>1, <2>2 DEF Behind
<1>3. CASE Level(l) # Burst[l]
  <2>1. PICK t, n : t = bucket[k].last /\ n = bucket[k].tokens
    OBVIOUS
  <2>2. bucket[k] # NoBucket /\ t \in Nat /\ n \in Nat /\ t <= clock
    BY <1>0, <1>3, <2>1, Levels, BucketFacts
  <2>3. PICK s \in 0..t : Behind(k, s, n, t)
    BY <1>0, <2>1, <2>2 DEF LimiterInv, Filled
  <2>4. PICK m, q \in Users(k) : Cost * used[k][s] + n >= Burst[m] + (t - s) * Rate[q]
    BY <2>3 DEF Behind
  <2>5. s \in 0..clock /\ s \in Nat /\ s <= t /\ Cost * used[k][s] \in Nat
    <3>1. s \in 0..clock /\ s \in 0..MaxTicks /\ s \in Nat /\ s <= t
      BY <1>0, <2>2, RateLimiterAssumption
    <3> QED BY <1>0, <3>1
  <2>6. Level(l) >= n + (clock - t) * Rate[l]
    <3>1. CASE clock = t /\ Level(l) = n
      <4>1. (clock - t) * Rate[l] = 0
        BY <1>0, <3>1
      <4> QED BY <2>2, <3>1, <4>1
    <3>2. CASE Level(l) = n + (clock - t) * Rate[l]
      BY <1>1, <3>2
    <3> QED BY <1>3, <2>1, <3>1, <3>2, Levels
  <2>7. \/ Cost * used[k][s] + Level(l) >= Burst[m] + (clock - s) * Rate[q]
        \/ Cost * used[k][s] + Level(l) >= Burst[m] + (clock - s) * Rate[l]
    BY <1>0, <1>1, <2>2, <2>4, <2>5, <2>6, Lags, Zenon
  <2> QED BY <1>0, <2>5, <2>7 DEF Behind
<1> QED BY <1>2, <1>3

\* What a bucket holds when a call finds it fits the budget of every window.
LEMMA FindsAhead ==
    ASSUME LimiterInv, Charged, NEW l \in Limiters, NEW k, k = keyFor(l), NEW s \in 0..clock
    PROVE  Ahead(k, s, Level(l), clock)
<1>0. /\ k \in Keys /\ l \in Users(k) /\ Burst[l] \in Nat /\ Rate[l] \in Nat /\ clock \in Nat
      /\ s \in 0..MaxTicks /\ s \in Nat /\ Cost \in Nat /\ outages \in Nat /\ Idle \in Nat
      /\ used[k][s] \in Nat /\ Cost * used[k][s] \in Nat /\ Cost * outages \in Nat
      /\ \A m \in Users(k) : m \in Limiters /\ Burst[m] \in Nat /\ Speed(m) \in Nat
      /\ Speed(l) \in Nat /\ Rate[l] <= Speed(l) /\ (onRedis[l] => Burst[l] <= Idle * Speed(l))
  BY Limits, SpeedFacts DEF LimiterInv, Users
<1>1. Level(l) \in Nat
  BY Takes
<1>2. CASE bucket[k] # NoBucket /\ s <= bucket[k].last
  <2>1. PICK t, n : t = bucket[k].last /\ n = bucket[k].tokens
    OBVIOUS
  <2>2. t \in Nat /\ n \in Nat /\ t <= clock
    BY <1>0, <1>2, <2>1, BucketFacts
  <2>3. PICK m, q \in Users(k) : Cost * used[k][s] + n <= Cost * outages + Burst[m] + (t - s) * Speed(q)
    BY <1>0, <1>2, <2>1 DEF Charged, Ahead
  <2>4. Level(l) <= n + (clock - t) * Speed(l)
    <3>0. PICK d \in Nat : d = clock - t
      BY <1>0, <2>2
    <3>1. d * Rate[l] <= d * Speed(l) /\ d * Rate[l] \in Nat /\ d * Speed(l) \in Nat
      BY <1>0, Products
    <3>2. CASE Level(l) <= n + d * Rate[l]
      BY <1>0, <1>1, <2>2, <3>0, <3>1, <3>2
    <3>3. CASE clock = t /\ Level(l) = n
      BY <1>0, <2>2, <3>0, <3>1, <3>3
    <3>4. CASE Level(l) = Burst[l] /\ onRedis[l] /\ t + Idle <= clock
      <4>1. Idle <= d
        BY <1>0, <2>2, <3>0, <3>4
      <4>2. Idle * Speed(l) <= d * Speed(l) /\ Idle * Speed(l) \in Nat
        BY <1>0, <4>1, Products
      <4> QED BY <1>0, <2>2, <3>0, <3>1, <3>4, <4>2
    <3> QED BY <1>1, <1>2, <2>1, <3>0, <3>2, <3>3, <3>4, Levels
  <2>5. \/ Cost * used[k][s] + Level(l) <= (Cost * outages + Burst[m]) + (clock - s) * Speed(q)
        \/ Cost * used[k][s] + Level(l) <= (Cost * outages + Burst[m]) + (clock - s) * Speed(l)
    <3>1. Cost * outages + Burst[m] \in Nat
      BY <1>0
    <3> QED BY <1>0, <1>1, <1>2, <2>1, <2>2, <2>3, <2>4, <3>1, Grows, Zenon
  <2> QED BY <1>0, <2>5 DEF Ahead
<1>3. CASE ~(bucket[k] # NoBucket /\ s <= bucket[k].last)
  <2>1. used[k][s] <= outages
    BY <1>0, <1>3 DEF Charged
  <2>2. Cost * used[k][s] <= Cost * outages
    BY <1>0, <2>1, Products
  <2>3. Level(l) <= Burst[l]
    BY <1>0, <1>3, Levels
  <2>4. (clock - s) * Speed(l) \in Nat
    BY <1>0, Products
  <2> QED BY <1>0, <1>1, <2>2, <2>3, <2>4 DEF Ahead
<1> QED BY <1>2, <1>3

-----------------------------------------------------------------------------
(* The steps.                                                               *)

\* A request that is allowed counts in every window that has begun.
LEMMA Counted ==
    ASSUME LimiterTypeOK, NEW l \in Limiters, NEW k, k = keyFor(l), Granted(l)
    PROVE  /\ used' \in [Keys -> [0..MaxTicks -> Nat]]
           /\ \A j \in Keys : j # k => used'[j] = used[j]
           /\ \A s \in 0..MaxTicks : used'[k][s] = IF s <= clock THEN used[k][s] + 1 ELSE used[k][s]
<1>1. k \in Keys /\ used \in [Keys -> [0..MaxTicks -> Nat]] /\ used[k] \in [0..MaxTicks -> Nat]
  BY Limits, Zenon DEF LimiterTypeOK
<1>2. PICK f : f = [s \in 0..MaxTicks |-> IF s <= clock THEN used[k][s] + 1 ELSE used[k][s]]
  BY Zenon
<1>3. used' = [used EXCEPT ![k] = f]
  BY <1>2 DEF Granted
<1>4. f \in [0..MaxTicks -> Nat]
  BY <1>1, <1>2
<1> QED BY <1>1, <1>2, <1>3, <1>4

\* One more request costs one more token.
LEMMA OneMore ==
    ASSUME NEW c \in Nat, NEW u \in Nat
    PROVE  c * (u + 1) = c * u + c
OBVIOUS

\* A product of numbers is a number.
LEMMA Times ==
    ASSUME NEW a \in Nat, NEW b \in Nat
    PROVE  a * b \in Nat
OBVIOUS

\* What is spent and the failed calls that pay for it, in tokens.
LEMMA Exchange ==
    ASSUME NEW c \in Nat, NEW u \in Nat, NEW v \in Nat, NEW o \in Nat, NEW p \in Nat, v + o <= u + p
    PROVE  c * v + c * o <= c * u + c * p
<1>1. c * v + c * o = c * (v + o) /\ c * u + c * p = c * (u + p)
  OBVIOUS
<1>2. v + o \in Nat /\ u + p \in Nat
  OBVIOUS
<1> QED BY <1>1, <1>2, Products

\* A product grows with its second factor.
LEMMA Monotone ==
    ASSUME NEW c \in Nat, NEW a \in Nat, NEW b \in Nat, a <= b
    PROVE  c * a <= c * b
BY Products

\* The order of the numbers is transitive.
LEMMA Through ==
    ASSUME NEW a \in Nat, NEW b \in Nat, NEW c \in Nat, a <= b, b <= c
    PROVE  a <= c
OBVIOUS

\* Still within a budget that grew.
LEMMA MoreAhead ==
    ASSUME NEW u \in Nat, NEW f \in Nat, NEW b \in Nat, NEW w \in Nat, NEW o \in Nat, NEW p \in Nat,
           o <= p, u + f <= o + b + w
    PROVE  u + f <= p + b + w
OBVIOUS

\* Put leaves a bucket of n tokens, filled now.
LEMMA PutFacts ==
    ASSUME LimiterTypeOK, NEW l \in Limiters, NEW k, k = keyFor(l), NEW n \in Nat, Put(l, n)
    PROVE  /\ bucket' \in [Keys -> Bucket \cup {NoBucket}]
           /\ \A j \in Keys : j # k => bucket'[j] = bucket[j]
           /\ bucket'[k] # NoBucket /\ bucket'[k].tokens = n /\ bucket'[k].last = clock
<1>1. PICK b : b = [tokens |-> n, last |-> clock]
  BY Zenon
<1>2. b \in Bucket /\ b # NoBucket /\ b.tokens = n /\ b.last = clock
  BY <1>1, Limits, RateLimiterAssumption DEF Bucket
<1>3. k \in Keys
  BY Limits
<1>4. bucket' = [bucket EXCEPT ![k] = b]
  BY <1>1 DEF Put
<1> QED BY <1>2, <1>3, <1>4 DEF LimiterTypeOK

\* Filled, when a call has spent at least what it took from the bucket.
LEMMA PutFilled ==
    ASSUME LimiterInv, NEW l \in Limiters, NEW k, k = keyFor(l), Put(l, Left(l)), UNCHANGED <<onRedis, clock>>,
           used' \in [Keys -> [0..MaxTicks -> Nat]],
           \A j \in Keys : j # k => used'[j] = used[j],
           \A s \in 0..clock : Cost * used'[k][s] + Left(l) >= Cost * used[k][s] + Level(l)
    PROVE  Filled'
<1>1. Left(l) \in Nat /\ Level(l) \in Nat
  BY Takes, Zenon
<1>2. /\ \A j \in Keys : j # k => bucket'[j] = bucket[j]
      /\ bucket'[k] # NoBucket /\ bucket'[k].tokens = Left(l) /\ bucket'[k].last = clock
  BY <1>1, PutFacts DEF LimiterInv
<1>3. \A j : Users(j)' = Users(j)
  BY DEF Users, keyFor
<1>4. ASSUME NEW j \in Keys, j # k, bucket'[j] # NoBucket
      PROVE  /\ bucket'[j].last <= clock'
             /\ \E s \in 0..bucket'[j].last : Behind(j, s, bucket[j].tokens, bucket[j].last)'
  <2>1. PICK s \in 0..bucket[j].last : Behind(j, s, bucket[j].tokens, bucket[j].last)
    BY <1>2, <1>4 DEF LimiterInv, Filled
  <2>2. \E m, q \in Users(j) :
            Cost * used'[j][s] + bucket'[j].tokens >= Burst[m] + (bucket'[j].last - s) * Rate[q]
    BY <1>2, <1>4, <2>1, Zenon DEF Behind
  <2>3. bucket'[j].last <= clock' /\ s \in 0..bucket'[j].last
    BY <1>2, <1>4, <2>1, Zenon DEF LimiterInv, Filled
  <2> QED BY <1>3, <2>2, <2>3, Zenon DEF Behind
<1>5. /\ bucket'[k].last <= clock'
      /\ \E s \in 0..bucket'[k].last : Behind(k, s, bucket[k].tokens, bucket[k].last)'
  <2>1. PICK s \in 0..clock : Behind(k, s, Level(l), clock)
    BY FindsBehind
  <2>2. PICK m, q \in Users(k) : Cost * used[k][s] + Level(l) >= Burst[m] + (clock - s) * Rate[q]
    BY <2>1 DEF Behind
  <2>3. /\ s \in 0..MaxTicks /\ k \in Keys /\ clock \in Nat
        /\ clock - s \in Nat /\ Cost \in Nat /\ Burst[m] \in Nat /\ Rate[q] \in Nat
    BY Limits, SMTT(20) DEF LimiterInv, Users
  <2>4. used[k][s] \in Nat /\ used'[k][s] \in Nat
    BY <2>3, Zenon DEF LimiterInv, LimiterTypeOK
  <2>5. Cost * used[k][s] \in Nat /\ Cost * used'[k][s] \in Nat /\ (clock - s) * Rate[q] \in Nat
    BY <2>3, <2>4, Times, Zenon
  <2>6. Cost * used'[k][s] + Left(l) >= Burst[m] + (clock - s) * Rate[q]
    <3>1. Cost * used'[k][s] + Left(l) >= Cost * used[k][s] + Level(l)
      OBVIOUS
    <3>2. PICK u \in Nat, v \in Nat, w \in Nat :
              u = Cost * used[k][s] /\ v = Cost * used'[k][s] /\ w = (clock - s) * Rate[q]
      BY <2>5, Zenon
    <3>3. v + Left(l) >= u + Level(l) /\ u + Level(l) >= Burst[m] + w
      BY <2>2, <3>1, <3>2, Zenon
    <3>4. v + Left(l) >= Burst[m] + w
      BY <1>1, <2>3, <3>3, SMTT(20)
    <3> QED BY <3>2, <3>4, Zenon
  <2>7. Cost * used'[k][s] + bucket'[k].tokens >= Burst[m] + (bucket'[k].last - s) * Rate[q]
    BY <1>2, <2>6, Zenon
  <2>8. Behind(k, s, bucket[k].tokens, bucket[k].last)'
    BY <1>3, <2>7, Zenon DEF Behind
  <2>9. s \in 0..bucket'[k].last /\ bucket'[k].last <= clock'
    BY <1>2, <2>1, <2>3, SMTT(20)
  <2> QED BY <2>8, <2>9, Zenon
<1>6. Keys' = Keys
  BY DEF Keys
<1> QED BY <1>4, <1>5, <1>6, Zenon DEF Filled

\* Charged, when a call has spent at most what it took from the bucket, and one
\* token more if it failed.
LEMMA PutCharged ==
    ASSUME LimiterInv, Charged, NEW l \in Limiters, NEW k, k = keyFor(l),
           Put(l, Left(l)), UNCHANGED <<onRedis, clock>>,
           used' \in [Keys -> [0..MaxTicks -> Nat]], outages' \in Nat, outages <= outages',
           \A j \in Keys : j # k => used'[j] = used[j],
           \A s \in 0..MaxTicks : s > clock => used'[k][s] = used[k][s],
           \A s \in 0..clock :
               Cost * used'[k][s] + Left(l) + Cost * outages <= Cost * used[k][s] + Level(l) + Cost * outages'
    PROVE  Charged'
<1>0. \A j : \A q \in Users(j) : Speed(q) \in Nat
  BY SpeedFacts DEF LimiterInv, Users
<1>1. Left(l) \in Nat /\ Level(l) \in Nat
  BY Takes, Zenon
<1>2. /\ \A j \in Keys : j # k => bucket'[j] = bucket[j]
      /\ bucket'[k] # NoBucket /\ bucket'[k].tokens = Left(l) /\ bucket'[k].last = clock
  BY <1>1, PutFacts, SMTT(20) DEF LimiterInv
<1>3. (\A j : Users(j)' = Users(j)) /\ \A q : Speed(q)' = Speed(q)
  BY Zenon DEF Users, keyFor, Speed
<1>4. Cost \in Nat /\ clock \in Nat /\ outages \in Nat /\ k \in Keys /\ MaxTicks \in Nat
  BY Limits, Zenon DEF LimiterInv
<1>5. Cost * outages \in Nat /\ Cost * outages' \in Nat /\ Cost * outages <= Cost * outages'
  BY <1>4, Times, Monotone, Zenon
<1>6. ASSUME NEW j \in Keys, NEW s \in 0..MaxTicks
      PROVE  IF bucket'[j] # NoBucket /\ s <= bucket'[j].last
             THEN Ahead(j, s, bucket[j].tokens, bucket[j].last)'
             ELSE used'[j][s] <= outages'
  <2>1. used[j][s] \in Nat /\ used'[j][s] \in Nat /\ Cost * used[j][s] \in Nat /\ Cost * used'[j][s] \in Nat
    <3>1. used[j][s] \in Nat /\ used'[j][s] \in Nat
      BY Zenon DEF LimiterInv, LimiterTypeOK
    <3> QED BY <1>4, <3>1, Times, Zenon
  <2>2. CASE j # k /\ bucket[j] # NoBucket /\ s <= bucket[j].last
    <3>1. PICK m, q \in Users(j) :
              Cost * used[j][s] + bucket[j].tokens <= Cost * outages + Burst[m] + (bucket[j].last - s) * Speed(q)
      BY <2>2, Zenon DEF Charged, Ahead
    <3>2. bucket[j].tokens \in Nat /\ bucket[j].last \in Nat /\ Burst[m] \in Nat /\ Speed(q) \in Nat
      BY <1>0, <2>2, BucketFacts, RateLimiterAssumption, Zenon DEF Users
    <3>3. bucket[j].last - s \in Nat
      BY <2>2, <3>2, SMTT(20)
    <3>4. (bucket[j].last - s) * Speed(q) \in Nat
      BY <3>2, <3>3, Times, Zenon
    <3>5. Cost * used[j][s] + bucket[j].tokens <= Cost * outages' + Burst[m] + (bucket[j].last - s) * Speed(q)
      BY <1>5, <2>1, <3>1, <3>2, <3>4, MoreAhead, Zenon
    <3>6. Cost * used'[j][s] + bucket'[j].tokens <= Cost * outages' + Burst[m] + (bucket'[j].last - s) * Speed(q)
      BY <1>2, <2>2, <3>5, Zenon
    <3>7. Ahead(j, s, bucket[j].tokens, bucket[j].last)'
      BY <1>3, <3>6, Zenon DEF Ahead
    <3> QED BY <1>2, <2>2, <3>7, Zenon
  <2>3. CASE j # k /\ ~(bucket[j] # NoBucket /\ s <= bucket[j].last)
    <3>1. used[j][s] <= outages
      BY <2>3, Zenon DEF Charged
    <3>2. used'[j][s] <= outages'
      <4>1. used'[j][s] <= outages
        BY <2>3, <3>1, Zenon
      <4> QED BY <1>4, <2>1, <4>1, Through, Zenon
    <3> QED BY <1>2, <2>3, <3>2, Zenon
  <2>4. CASE j = k /\ s <= clock
    <3>0. s \in 0..clock
      BY <1>4, <2>4
    <3>1. PICK m, q \in Users(k) : Cost * used[k][s] + Level(l) <= Cost * outages + Burst[m] + (clock - s) * Speed(q)
      BY <3>0, FindsAhead DEF Ahead
    <3>2. Burst[m] \in Nat /\ Speed(q) \in Nat /\ clock - s \in Nat
      BY <1>0, <1>4, <3>0, RateLimiterAssumption DEF Users
    <3>3. (clock - s) * Speed(q) \in Nat
      BY <3>2, Times, Zenon
    <3>4. Cost * used'[k][s] + Left(l) + Cost * outages <= Cost * used[k][s] + Level(l) + Cost * outages'
      BY <3>0
    <3>5. Cost * used'[k][s] + Left(l) <= Cost * outages' + Burst[m] + (clock - s) * Speed(q)
      <4>1. Cost * used[k][s] \in Nat /\ Cost * used'[k][s] \in Nat
        BY <2>1, <2>4
      <4>2. PICK u \in Nat, v \in Nat, w \in Nat :
                u = Cost * used[k][s] /\ v = Cost * used'[k][s] /\ w = (clock - s) * Speed(q)
        BY <3>3, <4>1, Zenon
      <4>3. PICK o \in Nat, p \in Nat : o = Cost * outages /\ p = Cost * outages'
        BY <1>5, Zenon
      <4>4. v + Left(l) + o <= u + Level(l) + p /\ u + Level(l) <= o + Burst[m] + w
        BY <3>1, <3>4, <4>2, <4>3, Zenon
      <4>5. v + Left(l) <= p + Burst[m] + w
        <5>1. PICK x \in Nat, y \in Nat, b \in Nat : x = Left(l) /\ y = Level(l) /\ b = Burst[m]
          BY <1>1, <3>2
        <5>2. v + x + o <= u + y + p /\ u + y <= o + b + w
          BY <4>4, <5>1
        <5>3. v + x <= p + b + w
          BY <5>2
        <5> QED BY <5>1, <5>3
      <4> QED BY <4>2, <4>3, <4>5, Zenon
    <3>6. Cost * used'[k][s] + bucket'[k].tokens <= Cost * outages' + Burst[m] + (bucket'[k].last - s) * Speed(q)
      BY <1>2, <3>5
    <3>7. Ahead(k, s, bucket[k].tokens, bucket[k].last)'
      BY <1>3, <3>6, Zenon DEF Ahead
    <3> QED BY <1>2, <2>4, <3>7, Zenon
  <2>5. CASE j = k /\ s > clock
    <3>1. s \in Nat /\ ~(s <= clock)
      BY <1>4, <2>5
    <3>2. ~(s <= bucket[k].last /\ bucket[k] # NoBucket)
      <4>1. bucket[k] # NoBucket => bucket[k].last \in Nat /\ bucket[k].last <= clock
        BY <1>4, BucketFacts
      <4> QED BY <1>4, <2>5, <3>1, <4>1, SMTT(20)
    <3>3. used[k][s] <= outages
      BY <1>4, <3>2, Zenon DEF Charged
    <3>4. used'[k][s] <= outages'
      <4>1. used'[k][s] <= outages /\ used'[k][s] \in Nat
        BY <2>1, <2>5, <3>3, Zenon
      <4> QED BY <1>4, <4>1, Through, Zenon
    <3> QED BY <1>2, <2>5, <3>1, <3>4, SMTT(20)
  <2>6. s <= clock \/ s > clock
    BY <1>4
  <2> QED BY <2>2, <2>3, <2>4, <2>5, <2>6, Zenon
<1>7. Keys' = Keys
  BY DEF Keys
<1> QED BY <1>6, <1>7, Zenon DEF Charged

\* Filled, when no bucket changes.
LEMMA KeepFilled ==
    ASSUME LimiterInv, UNCHANGED <<onRedis, bucket>>, clock' \in Nat, clock <= clock',
           used' \in [Keys -> [0..MaxTicks -> Nat]],
           \A j \in Keys, s \in 0..MaxTicks : used[j][s] <= used'[j][s]
    PROVE  Filled'
<1>1. \A j : Users(j)' = Users(j)
  BY DEF Users, keyFor
<1>2. Cost \in Nat /\ clock \in Nat /\ MaxTicks \in Nat /\ clock <= MaxTicks
  BY RateLimiterAssumption DEF LimiterInv, LimiterTypeOK
<1>3. ASSUME NEW j \in Keys, bucket[j] # NoBucket
      PROVE  /\ bucket[j].last <= clock'
             /\ \E s \in 0..bucket[j].last : Behind(j, s, bucket[j].tokens, bucket[j].last)'
  <2>1. PICK t, n : t = bucket[j].last /\ n = bucket[j].tokens
    BY Zenon
  <2>2. t \in Nat /\ n \in Nat /\ t <= clock
    BY <1>3, <2>1, BucketFacts
  <2>3. PICK s \in 0..t : Behind(j, s, n, t)
    BY <1>3, <2>1 DEF LimiterInv, Filled
  <2>4. PICK m, q \in Users(j) : Cost * used[j][s] + n >= Burst[m] + (t - s) * Rate[q]
    BY <2>3 DEF Behind
  <2>5. s \in 0..MaxTicks /\ t - s \in Nat /\ Burst[m] \in Nat /\ Rate[q] \in Nat
    BY <1>2, <2>2, <2>3, RateLimiterAssumption DEF Users
  <2>6. used[j][s] \in Nat /\ used'[j][s] \in Nat /\ used[j][s] <= used'[j][s]
    BY <2>5, Zenon DEF LimiterInv, LimiterTypeOK
  <2>7. PICK u \in Nat, v \in Nat, w \in Nat :
            u = Cost * used[j][s] /\ v = Cost * used'[j][s] /\ w = (t - s) * Rate[q]
    BY <1>2, <2>5, <2>6, Times, Zenon
  <2>8. u <= v
    BY <1>2, <2>6, <2>7, Products, Zenon
  <2>9. u + n >= Burst[m] + w
    BY <2>4, <2>7, Zenon
  <2>10. v + n >= Burst[m] + w
    BY <2>2, <2>5, <2>8, <2>9, SMTT(20)
  <2>11. Cost * used'[j][s] + n >= Burst[m] + (t - s) * Rate[q]
    BY <2>7, <2>10, Zenon
  <2>12. Behind(j, s, bucket[j].tokens, bucket[j].last)'
    BY <1>1, <2>1, <2>11 DEF Behind
  <2>13. t <= clock'
    BY <1>2, <2>2
  <2> QED BY <2>1, <2>3, <2>12, <2>13
<1>4. Keys' = Keys
  BY DEF Keys
<1> QED BY <1>3, <1>4 DEF Filled

\* Charged, when no bucket changes and only failing calls are allowed.
LEMMA KeepCharged ==
    ASSUME LimiterInv, Charged, UNCHANGED <<onRedis, bucket>>,
           used' \in [Keys -> [0..MaxTicks -> Nat]], outages' \in Nat, outages <= outages',
           \A j \in Keys, s \in 0..MaxTicks : used'[j][s] + outages <= used[j][s] + outages'
    PROVE  Charged'
<1>1. (\A j : Users(j)' = Users(j)) /\ \A q : Speed(q)' = Speed(q)
  BY DEF Users, keyFor, Speed
<1>2. Cost \in Nat /\ outages \in Nat /\ MaxTicks \in Nat
  BY RateLimiterAssumption DEF LimiterInv, LimiterTypeOK
<1>3. ASSUME NEW j \in Keys, NEW s \in 0..MaxTicks
      PROVE  IF bucket[j] # NoBucket /\ s <= bucket[j].last
             THEN Ahead(j, s, bucket[j].tokens, bucket[j].last)'
             ELSE used'[j][s] <= outages'
  <2>1. used[j][s] \in Nat /\ used'[j][s] \in Nat /\ used'[j][s] + outages <= used[j][s] + outages'
    BY Zenon DEF LimiterInv, LimiterTypeOK
  <2>2. CASE bucket[j] # NoBucket /\ s <= bucket[j].last
    <3>1. PICK t, n : t = bucket[j].last /\ n = bucket[j].tokens
      BY Zenon
    <3>2. t \in Nat /\ n \in Nat /\ s \in Nat /\ t - s \in Nat
      BY <1>2, <2>2, <3>1, BucketFacts, SMTT(20)
    <3>3. PICK m, q \in Users(j) : Cost * used[j][s] + n <= Cost * outages + Burst[m] + (t - s) * Speed(q)
      BY <2>2, <3>1, Zenon DEF Charged, Ahead
    <3>4. Burst[m] \in Nat /\ Speed(q) \in Nat
      BY RateLimiterAssumption, SpeedFacts DEF LimiterInv, Users
    <3>5. PICK u \in Nat, v \in Nat, w \in Nat :
              u = Cost * used[j][s] /\ v = Cost * used'[j][s] /\ w = (t - s) * Speed(q)
      BY <1>2, <2>1, <3>2, <3>4, Times, Zenon
    <3>6. PICK o \in Nat, p \in Nat : o = Cost * outages /\ p = Cost * outages'
      BY <1>2, Times, Zenon
    <3>7. v + o <= u + p
      BY <1>2, <2>1, <3>5, <3>6, Exchange, Zenon
    <3>8. u + n <= o + Burst[m] + w
      BY <3>3, <3>5, <3>6, Zenon
    <3>9. v + n <= p + Burst[m] + w
      <4>1. PICK b \in Nat : b = Burst[m]
        BY <3>4
      <4>2. n \in Nat /\ u + n <= o + b + w
        BY <3>2, <3>8, <4>1
      <4>3. v + n <= p + b + w
        BY <3>7, <4>2
      <4> QED BY <4>1, <4>3
    <3>10. Cost * used'[j][s] + n <= Cost * outages' + Burst[m] + (t - s) * Speed(q)
      BY <3>5, <3>6, <3>9, Zenon
    <3>11. Ahead(j, s, bucket[j].tokens, bucket[j].last)'
      BY <1>1, <3>1, <3>10, Zenon DEF Ahead
    <3> QED BY <2>2, <3>11, Zenon
  <2>3. CASE ~(bucket[j] # NoBucket /\ s <= bucket[j].last)
    <3>1. used[j][s] <= outages
      BY <2>3 DEF Charged
    <3>2. used'[j][s] <= outages'
      BY <1>2, <2>1, <3>1, SMTT(20)
    <3> QED BY <2>3, <3>2
  <2> QED BY <2>2, <2>3
<1>4. Keys' = Keys
  BY DEF Keys
<1> QED BY <1>3, <1>4 DEF Charged

\* What an answered call allows is what it takes from the bucket.
LEMMA AllowSpends ==
    ASSUME LimiterInv, NEW l \in Limiters, NEW k, k = keyFor(l), Allow(l)
    PROVE  /\ used' \in [Keys -> [0..MaxTicks -> Nat]]
           /\ \A j \in Keys : j # k => used'[j] = used[j]
           /\ \A s \in 0..MaxTicks : s > clock => used'[k][s] = used[k][s]
           /\ \A s \in 0..clock : Cost * used'[k][s] + Left(l) = Cost * used[k][s] + Level(l)
<1>0. /\ k \in Keys /\ Cost \in Nat /\ clock \in Nat /\ MaxTicks \in Nat /\ clock <= MaxTicks
      /\ used \in [Keys -> [0..MaxTicks -> Nat]]
  BY Limits, Zenon DEF LimiterInv, LimiterTypeOK
<1>1. CASE Level(l) >= Cost
  <2>1. Granted(l)
    <3>1. ~(Level(l) < Cost)
      BY <1>0, <1>1, Takes
    <3> QED BY <3>1, Takes DEF Allow
  <2>2. /\ used' \in [Keys -> [0..MaxTicks -> Nat]]
        /\ \A j \in Keys : j # k => used'[j] = used[j]
        /\ \A s \in 0..MaxTicks : used'[k][s] = IF s <= clock THEN used[k][s] + 1 ELSE used[k][s]
    BY <2>1, Counted, Zenon DEF LimiterInv
  <2>3. ASSUME NEW s \in 0..clock
        PROVE  Cost * used'[k][s] + Left(l) = Cost * used[k][s] + Level(l)
    <3>1. s \in 0..MaxTicks /\ s <= clock
      BY <1>0
    <3>2. used[k][s] \in Nat /\ used'[k][s] = used[k][s] + 1
      BY <1>0, <2>2, <3>1
    <3>3. PICK u \in Nat : u = Cost * used[k][s]
      BY <1>0, <3>2, Times, Zenon
    <3>4. Cost * used'[k][s] = u + Cost
      BY <1>0, <3>2, <3>3, OneMore, Zenon
    <3>5. Left(l) \in Nat /\ Level(l) \in Nat /\ Left(l) + Cost = Level(l)
      BY <1>1, Takes
    <3>6. u + Cost + Left(l) = u + Level(l)
      BY <1>0, <3>5
    <3> QED BY <3>3, <3>4, <3>6, Zenon
  <2>4. \A s \in 0..MaxTicks : s > clock => used'[k][s] = used[k][s]
    BY <1>0, <2>2
  <2> QED BY <2>2, <2>3, <2>4, Zenon
<1>2. CASE Level(l) < Cost
  <2>1. used' = used
    <3>1. Present(l) /\ TokensAt(l, clock) < Cost
      BY <1>2, Takes
    <3>2. ~(TokensAt(l, clock) >= Cost)
      <4>1. Level(l) \in Nat /\ Level(l) = TokensAt(l, clock)
        BY <3>1, Takes DEF Level
      <4> QED BY <1>0, <3>1, <4>1
    <3> QED BY <3>1, <3>2 DEF Allow
  <2>2. Left(l) = Level(l)
    BY <1>2, Takes
  <2> QED BY <1>0, <2>1, <2>2
<1>3. Level(l) >= Cost \/ Level(l) < Cost
  BY <1>0, Takes
<1> QED BY <1>1, <1>2, <1>3, Zenon

\* A call of a limiter refuses exactly when it finds less than a token.
LEMMA AllowRefuses ==
    ASSUME LimiterInv, NEW l \in Limiters, Allow(l)
    PROVE  denied' = {} \/ (denied' = {l} /\ Left(l) < Cost)
<1>1. CASE Level(l) < Cost
  BY <1>1, Takes DEF Allow, Granted
<1>2. CASE ~(Level(l) < Cost)
  <2>1. ~(Present(l) /\ TokensAt(l, clock) < Cost)
    BY <1>2, Takes
  <2> QED BY <2>1 DEF Allow, Granted
<1> QED BY <1>1, <1>2

\* An answered call keeps the invariant.
LEMMA AllowInv ==
    ASSUME LimiterInv, NEW l \in Limiters, Allow(l), UNCHANGED onRedis
    PROVE  LimiterInv'
<1>1. PICK k : k = keyFor(l)
  OBVIOUS
<1>2. Put(l, Left(l)) /\ UNCHANGED <<clock, outages>> /\ Left(l) \in Nat /\ Level(l) \in Nat
  BY Takes DEF Allow
<1>3. /\ bucket' \in [Keys -> Bucket \cup {NoBucket}]
      /\ bucket'[k] # NoBucket /\ bucket'[k].tokens = Left(l) /\ bucket'[k].last = clock
  BY <1>1, <1>2, PutFacts, Zenon DEF LimiterInv
<1>4. used' \in [Keys -> [0..MaxTicks -> Nat]]
  BY <1>1, AllowSpends
<1>5. LimiterTypeOK'
  BY <1>2, <1>3, <1>4, AllowRefuses DEF LimiterInv, LimiterTypeOK, Keys
<1>6. Filled'
  <2>1. /\ \A j \in Keys : j # k => used'[j] = used[j]
        /\ \A s \in 0..clock : Cost * used'[k][s] + Left(l) = Cost * used[k][s] + Level(l)
    BY <1>1, AllowSpends, Zenon
  <2>2. ASSUME NEW s \in 0..clock
        PROVE  Cost * used'[k][s] + Left(l) >= Cost * used[k][s] + Level(l)
    <3>1. s \in 0..MaxTicks /\ k \in Keys /\ used[k][s] \in Nat /\ Cost \in Nat
      BY <1>1, Limits DEF LimiterInv
    <3>2. PICK u \in Nat : u = Cost * used[k][s]
      BY <3>1, Times, Zenon
    <3>3. u + Level(l) >= u + Level(l)
      BY <1>2
    <3> QED BY <2>1, <3>2, <3>3, Zenon
  <2> QED BY <1>1, <1>2, <1>4, <2>1, <2>2, PutFilled, Zenon
<1>7. Refused'
  <2>1. keyFor(l)' = k
    BY <1>1 DEF keyFor
  <2>2. CASE denied' = {}
    BY <2>2 DEF Refused
  <2>3. CASE denied' = {l} /\ Left(l) < Cost
    BY <1>2, <1>3, <2>1, <2>3 DEF Refused
  <2> QED BY <2>2, <2>3, AllowRefuses
<1> QED BY <1>5, <1>6, <1>7 DEF LimiterInv

\* A call that fails allows the request, in every window that has begun.
LEMMA FailSpends ==
    ASSUME LimiterInv, NEW l \in Limiters, NEW k, k = keyFor(l), FailOpen(l)
    PROVE  /\ used' \in [Keys -> [0..MaxTicks -> Nat]]
           /\ \A j \in Keys : j # k => used'[j] = used[j]
           /\ \A s \in 0..MaxTicks : s > clock => used'[k][s] = used[k][s]
           /\ \A s \in 0..MaxTicks : s <= clock => used'[k][s] = used[k][s] + 1
           /\ outages \in Nat /\ outages' = outages + 1 /\ outages' \in 0..MaxOutages
           /\ \A j \in Keys, s \in 0..MaxTicks : used[j][s] <= used'[j][s] /\ used'[j][s] <= used[j][s] + 1
<1>1. /\ clock \in Nat /\ MaxTicks \in Nat /\ outages \in Nat /\ MaxOutages \in Nat
      /\ used \in [Keys -> [0..MaxTicks -> Nat]]
  BY RateLimiterAssumption DEF LimiterInv, LimiterTypeOK
<1>2. /\ used' \in [Keys -> [0..MaxTicks -> Nat]]
      /\ \A j \in Keys : j # k => used'[j] = used[j]
      /\ \A s \in 0..MaxTicks : used'[k][s] = IF s <= clock THEN used[k][s] + 1 ELSE used[k][s]
  BY Counted, Zenon DEF LimiterInv, FailOpen
<1>3. outages' = outages + 1 /\ outages' \in 0..MaxOutages
  BY <1>1 DEF FailOpen
<1>4. ASSUME NEW j \in Keys, NEW s \in 0..MaxTicks
      PROVE  used[j][s] <= used'[j][s] /\ used'[j][s] <= used[j][s] + 1
  <2>1. used[j][s] \in Nat
    BY <1>1
  <2>2. used'[j][s] = used[j][s] \/ used'[j][s] = used[j][s] + 1
    BY <1>2
  <2> QED BY <2>1, <2>2, SMTT(20)
<1>5. \A s \in 0..MaxTicks : s > clock => used'[k][s] = used[k][s]
  BY <1>1, <1>2
<1>6. \A s \in 0..MaxTicks : s <= clock => used'[k][s] = used[k][s] + 1
  BY <1>1, <1>2
<1> QED BY <1>1, <1>2, <1>3, <1>4, <1>5, <1>6

\* In a window that has begun a failed call takes from the bucket no more than the
\* token it spends, and it spends no more than it takes and one token.
LEMMA FailBounds ==
    ASSUME LimiterInv, NEW l \in Limiters, NEW k, k = keyFor(l), FailOpen(l), NEW s \in 0..clock
    PROVE  /\ Cost * used'[k][s] + Left(l) >= Cost * used[k][s] + Level(l)
           /\ Cost * used'[k][s] + Left(l) + Cost * outages <= Cost * used[k][s] + Level(l) + Cost * outages'
<1>1. k \in Keys /\ s \in 0..MaxTicks /\ s <= clock /\ Cost \in Nat /\ used[k][s] \in Nat
  BY Limits DEF LimiterInv
<1>2. used'[k][s] = used[k][s] + 1 /\ outages \in Nat /\ outages' = outages + 1
  BY <1>1, FailSpends, Zenon
<1>3. PICK u \in Nat, o \in Nat : u = Cost * used[k][s] /\ o = Cost * outages
  BY <1>1, <1>2, Times, Zenon
<1>4. Cost * used'[k][s] = u + Cost /\ Cost * outages' = o + Cost
  BY <1>1, <1>2, <1>3, OneMore
<1>5. /\ Left(l) \in Nat /\ Level(l) \in Nat
      /\ Left(l) + Cost = Level(l) \/ Left(l) = Level(l)
  BY <1>1, Takes, SMTT(20)
<1>6. /\ u + Cost + Left(l) >= u + Level(l)
      /\ u + Cost + Left(l) + o <= u + Level(l) + (o + Cost)
  BY <1>1, <1>5
<1> QED BY <1>3, <1>4, <1>6, Zenon

\* A failed call keeps the invariant.
LEMMA FailOpenInv ==
    ASSUME LimiterInv, NEW l \in Limiters, FailOpen(l), UNCHANGED onRedis
    PROVE  LimiterInv'
<1>1. PICK k : k = keyFor(l)
  OBVIOUS
<1>2. /\ used' \in [Keys -> [0..MaxTicks -> Nat]] /\ outages' \in 0..MaxOutages
      /\ \A j \in Keys : j # k => used'[j] = used[j]
      /\ \A j \in Keys, s \in 0..MaxTicks : used[j][s] <= used'[j][s]
  BY <1>1, FailSpends, Zenon
<1>3. UNCHANGED clock /\ denied' = {} /\ Left(l) \in Nat /\ clock \in Nat
  BY Takes DEF FailOpen, Granted, LimiterInv, LimiterTypeOK
<1>4. Refused'
  BY <1>3 DEF Refused
<1>5. CASE Put(l, Left(l))
  <2>1. bucket' \in [Keys -> Bucket \cup {NoBucket}]
    BY <1>1, <1>3, <1>5, PutFacts, Zenon DEF LimiterInv
  <2>2. LimiterTypeOK'
    BY <1>2, <1>3, <2>1 DEF LimiterInv, LimiterTypeOK, Keys
  <2>3. \A s \in 0..clock : Cost * used'[k][s] + Left(l) >= Cost * used[k][s] + Level(l)
    BY <1>1, FailBounds, Zenon
  <2>4. Filled'
    BY <1>1, <1>2, <1>3, <1>5, <2>3, PutFilled, Zenon
  <2> QED BY <1>4, <2>2, <2>4 DEF LimiterInv
<1>6. CASE UNCHANGED bucket
  <2>1. LimiterTypeOK'
    BY <1>2, <1>3, <1>6 DEF LimiterInv, LimiterTypeOK, Keys
  <2>2. Filled'
    BY <1>2, <1>3, <1>6, KeepFilled, SMTT(20)
  <2> QED BY <1>4, <2>1, <2>2 DEF LimiterInv
<1> QED BY <1>5, <1>6 DEF FailOpen

\* Time passes.
LEMMA TimePassesInv ==
    ASSUME LimiterInv, TimePasses, UNCHANGED onRedis
    PROVE  LimiterInv'
<1>1. clock \in Nat /\ MaxTicks \in Nat /\ clock' \in 0..MaxTicks /\ clock <= clock'
  BY RateLimiterAssumption DEF LimiterInv, LimiterTypeOK, TimePasses
<1>2. LimiterTypeOK'
  BY <1>1 DEF LimiterInv, LimiterTypeOK, TimePasses, Keys
<1>3. ASSUME NEW j \in Keys, NEW s \in 0..MaxTicks PROVE used[j][s] <= used'[j][s]
  <2>1. used[j][s] \in Nat /\ used'[j][s] = used[j][s]
    BY Zenon DEF LimiterInv, LimiterTypeOK, TimePasses
  <2> QED BY <2>1
<1>4. Filled'
  BY <1>1, <1>3, KeepFilled DEF LimiterInv, LimiterTypeOK, TimePasses
<1>5. Refused'
  BY DEF TimePasses, Refused
<1> QED BY <1>2, <1>4, <1>5 DEF LimiterInv

\* Every step keeps the invariant.
LEMMA LimiterNextInv == LimiterInv /\ [LimiterNext]_limiterVars => LimiterInv'
<1> SUFFICES ASSUME LimiterInv, [LimiterNext]_limiterVars PROVE LimiterInv'
  OBVIOUS
<1>1. CASE TimePasses /\ UNCHANGED onRedis
  BY <1>1, TimePassesInv
<1>2. ASSUME NEW l \in Limiters, Allow(l), UNCHANGED onRedis PROVE LimiterInv'
  BY <1>2, AllowInv
<1>3. ASSUME NEW l \in Limiters, FailOpen(l), UNCHANGED onRedis PROVE LimiterInv'
  BY <1>3, FailOpenInv
<1>4. CASE UNCHANGED limiterVars
  BY <1>4, Zenon DEF limiterVars, LimiterInv, LimiterTypeOK, Filled, Refused, Behind, Users, keyFor, Keys
<1> QED BY <1>1, <1>2, <1>3, <1>4 DEF LimiterNext

\* Every step keeps what has been spent within the budget.
LEMMA LimiterNextCharged ==
    LimiterInv /\ Charged /\ [LimiterNext]_limiterVars => Charged'
<1> SUFFICES ASSUME LimiterInv, Charged, [LimiterNext]_limiterVars PROVE Charged'
  OBVIOUS
<1>0. outages \in Nat /\ clock \in Nat /\ used \in [Keys -> [0..MaxTicks -> Nat]]
  BY DEF LimiterInv, LimiterTypeOK
<1>1. CASE UNCHANGED <<bucket, used, outages, onRedis>>
  <2>1. ASSUME NEW j \in Keys, NEW s \in 0..MaxTicks
        PROVE  used'[j][s] + outages <= used[j][s] + outages'
    <3>1. used[j][s] \in Nat /\ used'[j][s] = used[j][s] /\ outages' = outages
      BY <1>0, <1>1, Zenon
    <3> QED BY <1>0, <3>1
  <2> QED BY <1>0, <1>1, <2>1, KeepCharged
<1>2. ASSUME NEW l \in Limiters, Allow(l), UNCHANGED onRedis PROVE Charged'
  <2>1. PICK k : k = keyFor(l)
    OBVIOUS
  <2>2. Put(l, Left(l)) /\ UNCHANGED <<clock, outages>> /\ Left(l) \in Nat /\ Level(l) \in Nat
    BY <1>2, Takes DEF Allow
  <2>3. /\ used' \in [Keys -> [0..MaxTicks -> Nat]]
        /\ \A j \in Keys : j # k => used'[j] = used[j]
        /\ \A s \in 0..MaxTicks : s > clock => used'[k][s] = used[k][s]
        /\ \A s \in 0..clock : Cost * used'[k][s] + Left(l) = Cost * used[k][s] + Level(l)
    BY <1>2, <2>1, AllowSpends, Zenon
  <2>4. ASSUME NEW s \in 0..clock
        PROVE  Cost * used'[k][s] + Left(l) + Cost * outages <= Cost * used[k][s] + Level(l) + Cost * outages'
    <3>1. s \in 0..MaxTicks /\ k \in Keys /\ used[k][s] \in Nat /\ Cost \in Nat
      BY <2>1, Limits DEF LimiterInv
    <3>2. PICK u \in Nat, o \in Nat : u = Cost * used[k][s] /\ o = Cost * outages
      BY <1>0, <3>1, Times, Zenon
    <3>3. u + Level(l) + o <= u + Level(l) + o
      BY <2>2
    <3>4. Cost * outages' = o
      BY <2>2, <3>2
    <3> QED BY <2>3, <3>2, <3>3, <3>4, Zenon
  <2>5. outages' \in Nat /\ outages <= outages'
    BY <1>0, <2>2
  <2> QED BY <1>2, <2>1, <2>2, <2>3, <2>4, <2>5, PutCharged, Zenon
<1>3. ASSUME NEW l \in Limiters, FailOpen(l), UNCHANGED onRedis PROVE Charged'
  <2>1. PICK k : k = keyFor(l)
    OBVIOUS
  <2>2. /\ used' \in [Keys -> [0..MaxTicks -> Nat]]
        /\ \A j \in Keys : j # k => used'[j] = used[j]
        /\ \A s \in 0..MaxTicks : s > clock => used'[k][s] = used[k][s]
        /\ outages' = outages + 1
        /\ \A j \in Keys, s \in 0..MaxTicks : used'[j][s] <= used[j][s] + 1
    BY <1>3, <2>1, FailSpends, Zenon
  <2>3. outages' \in Nat /\ outages <= outages'
    BY <1>0, <2>2
  <2>4. CASE Put(l, Left(l))
    <3>1. \A s \in 0..clock :
              Cost * used'[k][s] + Left(l) + Cost * outages <= Cost * used[k][s] + Level(l) + Cost * outages'
      BY <1>3, <2>1, FailBounds, Zenon
    <3>2. UNCHANGED clock
      BY <1>3 DEF FailOpen
    <3> QED BY <1>3, <2>1, <2>2, <2>3, <2>4, <3>1, <3>2, PutCharged, Zenon
  <2>5. CASE UNCHANGED bucket
    <3>1. ASSUME NEW j \in Keys, NEW s \in 0..MaxTicks
          PROVE  used'[j][s] + outages <= used[j][s] + outages'
      <4>1. used[j][s] \in Nat /\ used'[j][s] \in Nat /\ used'[j][s] <= used[j][s] + 1
        BY <1>0, <2>2, Zenon
      <4> QED BY <1>0, <2>2, <4>1
    <3> QED BY <1>3, <2>2, <2>3, <2>5, <3>1, KeepCharged, SMTT(20)
  <2> QED BY <1>3, <2>4, <2>5 DEF FailOpen
<1> QED BY <1>1, <1>2, <1>3 DEF LimiterNext, limiterVars, TimePasses

-----------------------------------------------------------------------------
(* The properties.                                                          *)

\* Before the first request there is no bucket.
LEMMA LimiterInitInv == LimiterInit => LimiterInv /\ Charged
BY RateLimiterAssumption DEF LimiterInit, LimiterInv, LimiterTypeOK, Filled, Refused, Charged

\* A refusal is for what was allowed since some tick.
LEMMA JustifiesDenials == LimiterInv => DenialsAreJustified
<1> SUFFICES ASSUME LimiterInv, NEW l \in denied
             PROVE  \E s \in 0..clock : \E m, n \in Sharing(l) :
                        Cost * used[keyFor(l)][s] + Cost > Burst[m] + (clock - s) * Rate[n]
  BY Zenon DEF DenialsAreJustified
<1>1. PICK k, x : k = keyFor(l) /\ x = bucket[k].tokens
  OBVIOUS
<1>2. l \in Limiters /\ k \in Keys /\ Users(k) = Sharing(l) /\ Cost \in Nat /\ clock \in Nat /\ clock <= MaxTicks
  BY <1>1, Limits, Zenon DEF LimiterInv, LimiterTypeOK
<1>3. bucket[k] # NoBucket /\ bucket[k].last = clock /\ x < Cost /\ x \in Nat
  BY <1>1, <1>2, BucketFacts, Zenon DEF LimiterInv, Refused
<1>4. PICK s \in 0..clock : Behind(k, s, x, clock)
  BY <1>1, <1>2, <1>3, Zenon DEF LimiterInv, Filled
<1>5. PICK m, n \in Users(k) : Cost * used[k][s] + x >= Burst[m] + (clock - s) * Rate[n]
  BY <1>4, Zenon DEF Behind
<1>6. s \in 0..MaxTicks /\ clock - s \in Nat /\ Burst[m] \in Nat /\ Rate[n] \in Nat
  BY <1>2, RateLimiterAssumption DEF Users
<1>7. used[k][s] \in Nat
  BY <1>2, <1>6, Zenon DEF LimiterInv, LimiterTypeOK
<1>8. PICK u \in Nat, w \in Nat : u = Cost * used[k][s] /\ w = (clock - s) * Rate[n]
  BY <1>2, <1>6, <1>7, Times, Zenon
<1>9. u + x >= Burst[m] + w
  BY <1>5, <1>8, Zenon
<1>10. u + Cost > Burst[m] + w
  BY <1>2, <1>3, <1>6, <1>9, SMTT(20)
<1>11. Cost * used[k][s] + Cost > Burst[m] + (clock - s) * Rate[n]
  BY <1>8, <1>10, Zenon
<1> QED BY <1>1, <1>2, <1>11, Zenon

\* After the wait of a refusal the bucket holds a token.
LEMMA SufficesToWait == LimiterInv => RetryAfterSuffices
<1> SUFFICES ASSUME LimiterInv, NEW l \in denied, NEW w \in RetryAfter(l), onRedis[l] => w > 0
             PROVE  TokensAt(l, clock + w) >= Cost
  BY DEF RetryAfterSuffices
<1>1. PICK k, x : k = keyFor(l) /\ x = bucket[k].tokens
  OBVIOUS
<1>2. /\ l \in Limiters /\ k \in Keys /\ Cost \in Nat /\ clock \in Nat
      /\ Rate[l] \in Nat \ {0} /\ Burst[l] \in Nat /\ Burst[l] >= Cost
  BY <1>1, Limits, Zenon DEF LimiterInv, LimiterTypeOK
<1>3. bucket[k] # NoBucket /\ bucket[k].last = clock /\ x < Cost /\ x \in Nat
  BY <1>1, <1>2, BucketFacts, Zenon DEF LimiterInv, Refused
<1>4. w = (Cost - x) \div Rate[l] + 1
  <2>1. ~(x >= Cost)
    BY <1>2, <1>3
  <2>2. TokensAt(l, clock) = x
    BY <1>1, <1>3 DEF TokensAt
  <2>3. Wait(l) = (Cost - x) \div Rate[l] + 1
    BY <2>1, <2>2 DEF Wait
  <2>4. w = Wait(l) \/ (onRedis[l] /\ w = 0)
    <3>1. CASE onRedis[l]
      BY <3>1 DEF RetryAfter
    <3>2. CASE ~onRedis[l]
      BY <3>2 DEF RetryAfter
    <3> QED BY <3>1, <3>2
  <2> QED BY <2>3, <2>4
<1>5. w \in Nat \ {0} /\ w * Rate[l] > Cost - x
  <2>1. Cost - x \in Nat
    BY <1>2, <1>3
  <2> QED BY <1>2, <1>4, <2>1, RoundedUp
<1>6. clock + w # clock /\ (clock + w) - clock = w
  BY <1>2, <1>5
<1>7. TokensAt(l, clock + w) = IF Burst[l] < x + w * Rate[l] THEN Burst[l] ELSE x + w * Rate[l]
  BY <1>1, <1>3, <1>6, Zenon DEF TokensAt
<1>8. PICK f \in Nat : f = w * Rate[l]
  BY <1>2, <1>5, Times, Zenon
<1>9. f > Cost - x
  BY <1>5, <1>8, Zenon
<1> QED BY <1>2, <1>3, <1>7, <1>8, <1>9

\* What a window allows fits the budget up to the last fill, and so up to now.
LEMMA KeepsBudget == LimiterInv /\ Charged => WithinBudget
<1> SUFFICES ASSUME LimiterInv, Charged, NEW l \in Limiters, NEW s \in 0..clock
             PROVE  \E m, n \in Sharing(l) :
                        Cost * used[keyFor(l)][s] <= Cost * outages + Burst[m] + (clock - s) * Speed(n)
  BY Zenon DEF WithinBudget
<1>1. PICK k : k = keyFor(l)
  OBVIOUS
<1>2. /\ k \in Keys /\ l \in Users(k) /\ Users(k) = Sharing(l) /\ Cost \in Nat /\ clock \in Nat
      /\ clock <= MaxTicks /\ outages \in Nat
      /\ \A m \in Users(k) : Burst[m] \in Nat /\ Speed(m) \in Nat
  BY <1>1, Limits, SpeedFacts, RateLimiterAssumption, Zenon DEF LimiterInv, Users
<1>3. s \in 0..MaxTicks /\ s \in Nat /\ clock - s \in Nat
  BY <1>2, RateLimiterAssumption
<1>4. used[k][s] \in Nat
  BY <1>2, <1>3, Zenon DEF LimiterInv, LimiterTypeOK
<1>5. PICK u \in Nat, o \in Nat : u = Cost * used[k][s] /\ o = Cost * outages
  BY <1>2, <1>4, Times, Zenon
<1>6. CASE bucket[k] # NoBucket /\ s <= bucket[k].last
  <2>1. PICK t, x : t = bucket[k].last /\ x = bucket[k].tokens
    OBVIOUS
  <2>2. t \in Nat /\ x \in Nat /\ t <= clock /\ s <= t
    BY <1>2, <1>6, <2>1, BucketFacts, Zenon
  <2>3. PICK m, n \in Users(k) : Cost * used[k][s] + x <= Cost * outages + Burst[m] + (t - s) * Speed(n)
    BY <1>2, <1>3, <1>6, <2>1, Zenon DEF Charged, Ahead
  <2>4. t - s \in Nat /\ t - s <= clock - s
    BY <1>2, <1>3, <2>2, SMTT(20)
  <2>5. PICK v \in Nat, w \in Nat : v = (t - s) * Speed(n) /\ w = (clock - s) * Speed(n)
    BY <1>2, <1>3, <2>4, Times, Zenon
  <2>6. v <= w
    BY <1>2, <1>3, <2>4, <2>5, Products, Zenon
  <2>7. u + x <= o + Burst[m] + v
    BY <1>5, <2>3, <2>5, Zenon
  <2>8. PICK b \in Nat : b = Burst[m]
    BY <1>2, Zenon
  <2>9. u <= o + b + w
    BY <2>2, <2>6, <2>7, <2>8
  <2>10. Cost * used[k][s] <= Cost * outages + Burst[m] + (clock - s) * Speed(n)
    BY <1>5, <2>5, <2>8, <2>9, Zenon
  <2> QED BY <1>1, <1>2, <2>10, Zenon
<1>7. CASE ~(bucket[k] # NoBucket /\ s <= bucket[k].last)
  <2>1. used[k][s] <= outages
    BY <1>2, <1>3, <1>7, Zenon DEF Charged
  <2>2. u <= o
    BY <1>2, <1>4, <1>5, <2>1, Products, Zenon
  <2>3. PICK b \in Nat, w \in Nat : b = Burst[l] /\ w = (clock - s) * Speed(l)
    BY <1>2, <1>3, Times, Zenon
  <2>4. u <= o + b + w
    BY <2>2
  <2>5. Cost * used[k][s] <= Cost * outages + Burst[l] + (clock - s) * Speed(l)
    BY <1>5, <2>3, <2>4, Zenon
  <2> QED BY <1>1, <1>2, <2>5, Zenon
<1> QED BY <1>6, <1>7, Zenon

\* The invariant of the limiters holds: types, buckets filled in the past, and
\* for every token a bucket lacks a request that was allowed.
THEOREM LimiterInvariance == LimiterSpec => []LimiterInv
<1>1. LimiterInit => LimiterInv
  BY LimiterInitInv
<1> QED BY <1>1, LimiterNextInv, PTL DEF LimiterSpec

\* Allow refuses a request only when the limiters that use its bucket have spent
\* the budget of some window, whatever the rates, the bursts and the idle time.
THEOREM RefusalsAreJustified == LimiterSpec => []DenialsAreJustified
BY LimiterInvariance, JustifiesDenials, PTL

\* After the duration that Limiter.RetryAfter answers for a refusal, unless it is
\* the 0 of the Redis limiter, an unused bucket has a token.
THEOREM WaitingSuffices == LimiterSpec => []RetryAfterSuffices
BY LimiterInvariance, SufficesToWait, PTL

\* Whatever the rates, the bursts and the idle time, the limiters never allow
\* more on one bucket in a window of time than a burst, what comes back in the
\* window (on Redis at least a burst per idle time) and one request for each call
\* of Redis that failed.
THEOREM BudgetIsKept == LimiterSpec => []WithinBudget
<1>1. LimiterInit => LimiterInv /\ Charged
  BY LimiterInitInv
<1>2. (LimiterInv /\ Charged) /\ [LimiterNext]_limiterVars => (LimiterInv /\ Charged)'
  BY LimiterNextInv, LimiterNextCharged
<1>3. LimiterInv /\ Charged => WithinBudget
  BY KeepsBudget
<1> QED BY <1>1, <1>2, <1>3, PTL DEF LimiterSpec
=============================================================================
