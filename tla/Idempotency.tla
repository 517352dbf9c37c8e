----------------------------- MODULE Idempotency ----------------------------
(***************************************************************************)
(* The Idempotency-Key middleware (server/idempotency_middleware.go) over  *)
(* the two record stores (idempotency/memory.go, idempotency/redis.go),    *)
(* for the requests that carry one key; requests with different keys share *)
(* nothing.  Lookup, the handler and Save are separate steps, as in Run.   *)
(* A response is identified with the request whose handler run made it.    *)
(***************************************************************************)
EXTENDS Naturals

CONSTANTS
    Requests,    \* the POST requests that carry the key
    Bodies,      \* request bodies; equal bodies have equal SHA-256 hashes
    TTL,         \* IDEMPOTENCY_TTL in ticks
    MaxTime,     \* how far the clock runs (bound)
    Faults,      \* the Redis calls that may fail: "lookup", "save", "expire"
    None         \* no record; no answer

Record == [hash : Bodies, by : Requests, status : {"created", "failed"}, until : Nat]

ASSUME IdempotencyAssumption ==
    /\ TTL \in Nat \ {0}
    /\ MaxTime \in Nat
    /\ Faults \subseteq {"lookup", "save", "expire"}
    /\ None \notin Record

Never == MaxTime + TTL + 1   \* an expiry no clock reading reaches

VARIABLES
    redis,     \* main built redisStore (REDIS_URL is set), not memoryStore
    record,    \* the stored record: request hash, response, status, expiry
    pc,        \* new, lookup, execute, save, fallback, done
    body,      \* the body of each request that has arrived
    answer,    \* what each finished request was answered
    now,
    executed,  \* history: requests whose handler ran on the real body
    prior,     \* history: the recorded requests already finished when it arrived
    validTo    \* history: until when the record a request saved must count; 0: not saved

vars == <<redis, record, pc, body, answer, now, executed, prior, validTo>>

Answer == [kind : {"own", "replay", "conflict", "badRequest"},
           by : Requests, status : {"created", "failed"}]

Init ==
    /\ redis \in BOOLEAN
    /\ record = None
    /\ pc = [r \in Requests |-> "new"]
    /\ body = [r \in Requests |-> None]
    /\ answer = [r \in Requests |-> None]
    /\ now = 0
    /\ executed = {}
    /\ prior = [r \in Requests |-> {}]
    /\ validTo = [r \in Requests |-> 0]

\* Only calls of Redis fail.
Fails(call) == redis /\ call \in Faults

Goto(r, l) == pc' = [pc EXCEPT ![r] = l]
Reply(r, a) == answer' = [answer EXCEPT ![r] = a]

\* Mutant: the record expires a tick early.
Live_Early == record # None /\ now + 1 < record.until

Live == record # None /\ now < record.until

\* The middleware reads the body.
Arrive(r) ==
    /\ pc[r] = "new"
    /\ \E b \in Bodies : body' = [body EXCEPT ![r] = b]
    /\ prior' = [prior EXCEPT ![r] = {s \in Requests : pc[s] = "done" /\ validTo[s] > 0}]
    /\ Goto(r, "lookup")
    /\ UNCHANGED <<record, answer, now, executed, validTo>>

\* Mutant: the hash is not compared.
SameRequest_Any(r) == TRUE

SameRequest(r) == record.hash = body[r]

\* Lookup: a replay, a conflict, a miss (an expired record is deleted), or an
\* error of the store, after which the middleware calls the handler itself.
Lookup(r) ==
    /\ pc[r] = "lookup"
    /\ \/ /\ Live
          /\ SameRequest(r)
          /\ Reply(r, [kind |-> "replay", by |-> record.by, status |-> record.status])
          /\ Goto(r, "done")
          /\ UNCHANGED record
       \/ /\ Live
          /\ ~SameRequest(r)
          /\ Reply(r, [kind |-> "conflict", by |-> r, status |-> "failed"])
          /\ Goto(r, "done")
          /\ UNCHANGED record
       \/ /\ ~Live
          /\ record' = None
          /\ Goto(r, "execute")
          /\ UNCHANGED answer
       \/ /\ Fails("lookup")
          /\ Goto(r, "fallback")
          /\ UNCHANGED <<record, answer>>
    /\ UNCHANGED <<body, now, executed, prior, validTo>>

\* The handler on a fresh copy of the body, recorded by captureRecorder.
Execute(r) ==
    /\ pc[r] = "execute"
    /\ executed' = executed \cup {r}
    /\ \E s \in {"created", "failed"} : Reply(r, [kind |-> "own", by |-> r, status |-> s])
    /\ Goto(r, "save")
    /\ UNCHANGED <<record, body, now, prior, validTo>>

\* The handler on the original request, whose body the middleware has already
\* read to the end: it finds no JSON document and answers 400.
Fallback(r) ==
    /\ pc[r] = "fallback"
    /\ Reply(r, [kind |-> "badRequest", by |-> r, status |-> "failed"])
    /\ Goto(r, "done")
    /\ UNCHANGED <<record, body, now, executed, prior, validTo>>

\* The expiry Save may leave on the record.  memoryStore starts a new lifetime;
\* redisStore sets one only if the key has none (EXPIRE NX), and fails to when
\* EXPIRE fails or the reply to HSET is lost.
memoryExpiry == {now + TTL}
redisExpiry ==
    IF Live /\ record.until # Never THEN {record.until}
    ELSE {now + TTL} \cup (IF Fails("expire") THEN {Never} ELSE {})

\* Save, whose error Run drops.
Save(r) ==
    /\ pc[r] = "save"
    /\ \/ \E until \in IF redis THEN redisExpiry ELSE memoryExpiry :
            /\ record' = [hash |-> body[r], by |-> r, status |-> answer[r].status, until |-> until]
            /\ validTo' = [validTo EXCEPT ![r] = IF until = Never THEN now + TTL ELSE until]
       \/ /\ Fails("save")
          /\ UNCHANGED <<record, validTo>>
    /\ Goto(r, "done")
    /\ UNCHANGED <<body, answer, now, executed, prior>>

Tick ==
    /\ now < MaxTime
    /\ now' = now + 1
    /\ UNCHANGED <<record, pc, body, answer, executed, prior, validTo>>

\* Store.Run: look up, call the handler on a miss, save.
Run(r) == Lookup(r) \/ Execute(r) \/ Save(r)

Next ==
    /\ \/ \E r \in Requests : Arrive(r) \/ Run(r) \/ Fallback(r)
       \/ Tick
    /\ UNCHANGED redis

Spec == Init /\ [][Next]_vars

-----------------------------------------------------------------------------
\* Every variable has the type the code gives it.
TypeOK ==
    /\ redis \in BOOLEAN
    /\ record \in Record \cup {None}
    /\ pc \in [Requests -> {"new", "lookup", "execute", "save", "fallback", "done"}]
    /\ body \in [Requests -> Bodies \cup {None}]
    /\ answer \in [Requests -> Answer \cup {None}]
    /\ now \in Nat
    /\ executed \subseteq Requests
    /\ prior \in [Requests -> SUBSET Requests]
    /\ validTo \in [Requests -> Nat]

\* A replay is the response a run of the handler on the same body produced,
\* and a 409 is answered only if a run on another body took the key, however
\* lookups, runs and saves of concurrent requests interleave.
AnswersAreJustified ==
    \A r \in Requests : pc[r] = "done" =>
        /\ answer[r].kind = "replay" =>
            LET s == answer[r].by
            IN  s \in executed /\ body[s] = body[r] /\ answer[s].status = answer[r].status
        /\ answer[r].kind = "conflict" => \E s \in executed : body[s] # body[r]

\* A request that arrives when another one has been answered and recorded does
\* not run the handler before that record expires, whatever still-running
\* requests save over it in the meantime.
RetriesDoNotExecute ==
    \A r \in executed : \A s \in prior[r] : now >= validTo[s]
=============================================================================
