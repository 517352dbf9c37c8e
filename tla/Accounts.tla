------------------------------ MODULE Accounts ------------------------------
(***************************************************************************)
(* What creates, moves and deletes accounts when DATABASE_URL and          *)
(* REDIS_URL are set: the handlers Register (handler/auth.go), CreateUser, *)
(* UpdateUser and DeleteUser (handler/user.go) over PostgresUserStore and  *)
(* its unique index on the e-mail, composed with the idempotency           *)
(* middleware, the event outbox and the job queue they write to.           *)
(* A request may be cut short: its client disconnects, which cancels the   *)
(* request's context, or the process crashes.  No record expires here.     *)
(***************************************************************************)
EXTENDS Naturals, FiniteSets

CONSTANTS
    Requests,    \* POST /auth/register and POST /users requests, each served once
    Addresses,   \* e-mail addresses, each of which can be spelled in two ways
    MaxId,       \* how many ids the sequence hands out (bound)
    MaxMoved,    \* how many users are deleted or given another e-mail (bound)
    Faults       \* what may fail: "db" (the INSERT), "reply" (its answer), "lookup" and
                 \* "save" (Redis), "outbox", "queue", "disconnect" (the client)

ASSUME AccountsAssumption ==
    /\ MaxId \in Nat
    /\ MaxMoved \in Nat
    /\ Faults \subseteq {"db", "reply", "lookup", "save", "outbox", "queue", "disconnect"}

Emails == Addresses \X {"lower", "mixed"}

\* strings.ToLower(strings.TrimSpace(email)).
Lower(e) == <<e[1], "lower">>

Keys == {"register", "create"} \X Emails

VARIABLES
    users,     \* the table: id and e-mail
    serial,    \* the last id the sequence gave out
    records,   \* idempotency key -> "created", "conflict", "failed", or "none"
    events,    \* ids with a user.created row in the outbox
    jobs,      \* ids with a welcome_email job
    pc,        \* new, insert, effect, save, done, crashed
    key,       \* route and e-mail of the request; a client uses one key for them
    id,        \* the id of the row the request inserted; 0 is none
    gone,      \* the request's context is over: the client has disconnected, or the
               \* five seconds of idempotencyTimeout have passed
    answer,    \* what the handler, or the record, answered
    prior,     \* history: the requests already served, or lost, when it came in
    unsaved,   \* history: requests that ended without a record of their own
    unsent,    \* history: ids whose event or job was refused, or never sent because
               \* the reply to the INSERT was lost
    moved      \* history: ids deleted or given another e-mail

vars == <<users, serial, records, events, jobs, pc, key, id, gone, answer,
          prior, unsaved, unsent, moved>>

Init ==
    /\ users = {}
    /\ serial = 0
    /\ records = [k \in Keys |-> "none"]
    /\ events = {}
    /\ jobs = {}
    /\ pc = [r \in Requests |-> "new"]
    /\ key = [r \in Requests |-> <<>>]
    /\ id = [r \in Requests |-> 0]
    /\ gone = {}
    /\ answer = [r \in Requests |-> "none"]
    /\ prior = [r \in Requests |-> {}]
    /\ unsaved = {}
    /\ unsent = {}
    /\ moved = {}

Goto(r, l) == pc' = [pc EXCEPT ![r] = l]
Answer(r, a) == answer' = [answer EXCEPT ![r] = a]

\* The unique index: some other row has the e-mail.
Taken(n, email) == \E u \in users : u.id # n /\ u.email = email

-----------------------------------------------------------------------------
\* A request comes in, and the middleware's Lookup with it: a recorded answer is
\* replayed.  A failing HGET, or a client that has gone already, makes it fail,
\* and the handler then sees no body.
Lookup(r) ==
    /\ pc[r] = "new"
    /\ \E k \in Keys :
        /\ key' = [key EXCEPT ![r] = k]
        /\ \/ /\ records[k] # "none"
              /\ Answer(r, records[k])
              /\ Goto(r, "done")
              /\ UNCHANGED unsaved
           \/ /\ records[k] = "none"
              /\ Goto(r, "insert")
              /\ UNCHANGED <<answer, unsaved>>
           \/ /\ Faults \cap {"lookup", "disconnect"} # {}
              /\ Answer(r, "failed")
              /\ Goto(r, "done")
              /\ unsaved' = unsaved \cup {r}
    /\ prior' = [prior EXCEPT ![r] = {s \in Requests : pc[s] \in {"done", "crashed"}}]
    /\ UNCHANGED <<users, serial, records, events, jobs, id, gone, unsent, moved>>

\* Register lowers the e-mail; CreateUser stores it as it came.
StoredEmail(r) == IF key[r][1] = "register" THEN Lower(key[r][2]) ELSE key[r][2]

\* Mutant: the index is not unique.
Insert_Any(r) ==
    /\ pc[r] = "insert"
    /\ serial < MaxId
    /\ serial' = serial + 1
    /\ users' = users \cup {[id |-> serial + 1, email |-> StoredEmail(r)]}
    /\ id' = [id EXCEPT ![r] = serial + 1]
    /\ Goto(r, "effect")
    /\ UNCHANGED <<records, events, jobs, key, gone, answer, prior, unsaved, unsent, moved>>

\* store.Create, which has no context.  The sequence moves on even when the
\* index refuses the row.  A committed row whose reply is lost is an error.
Insert(r) ==
    /\ pc[r] = "insert"
    /\ \/ /\ serial < MaxId
          /\ serial' = serial + 1
          /\ \/ /\ ~Taken(0, StoredEmail(r))
                /\ users' = users \cup {[id |-> serial + 1, email |-> StoredEmail(r)]}
                /\ id' = [id EXCEPT ![r] = serial + 1]
                /\ \/ Goto(r, "effect") /\ UNCHANGED <<answer, unsent>>
                   \/ /\ "reply" \in Faults
                      /\ Answer(r, "failed")
                      /\ Goto(r, "save")
                      /\ unsent' = unsent \cup {serial + 1}
             \/ /\ Taken(0, StoredEmail(r))
                /\ Answer(r, "conflict")
                /\ Goto(r, "save")
                /\ UNCHANGED <<users, id, unsent>>
       \/ /\ "db" \in Faults
          /\ Answer(r, "failed")
          /\ Goto(r, "save")
          /\ UNCHANGED <<users, serial, id, unsent>>
    /\ UNCHANGED <<records, events, jobs, key, gone, prior, unsaved, moved>>

\* Register issues the tokens and enqueues the welcome e-mail with a context of
\* its own; a failure is only logged.
Welcome(r) ==
    /\ pc[r] = "effect"
    /\ key[r][1] = "register"
    /\ \/ jobs' = jobs \cup {id[r]} /\ UNCHANGED unsent
       \/ "queue" \in Faults /\ unsent' = unsent \cup {id[r]} /\ UNCHANGED jobs
    /\ Answer(r, "created")
    /\ Goto(r, "save")
    /\ UNCHANGED <<users, serial, records, events, key, id, gone, prior, unsaved, moved>>

\* Mutant: the event carries the last id given out instead of the request's.
Announce_Last(r) ==
    /\ pc[r] = "effect"
    /\ key[r][1] = "create"
    /\ \/ r \notin gone /\ events' = events \cup {serial} /\ UNCHANGED unsent
       \/ r \in gone /\ UNCHANGED <<events, unsent>>
       \/ "outbox" \in Faults /\ unsent' = unsent \cup {id[r]} /\ UNCHANGED events
    /\ Answer(r, "created")
    /\ Goto(r, "save")
    /\ UNCHANGED <<users, serial, records, jobs, key, id, gone, prior, unsaved, moved>>

\* CreateUser writes the event with the request's context and drops the error.
Announce(r) ==
    /\ pc[r] = "effect"
    /\ key[r][1] = "create"
    /\ \/ r \notin gone /\ events' = events \cup {id[r]} /\ UNCHANGED unsent
       \/ r \in gone /\ UNCHANGED <<events, unsent>>
       \/ "outbox" \in Faults /\ unsent' = unsent \cup {id[r]} /\ UNCHANGED events
    /\ Answer(r, "created")
    /\ Goto(r, "save")
    /\ UNCHANGED <<users, serial, records, jobs, key, id, gone, prior, unsaved, moved>>

\* Mutant: nothing is recorded.
Save_Not(r) ==
    /\ pc[r] = "save"
    /\ Goto(r, "done")
    /\ UNCHANGED <<users, serial, records, events, jobs, key, id, gone, answer, prior, unsaved, unsent, moved>>

\* The middleware's Save, whose error is dropped: it too has the request's
\* context, and the HSET of a connected client may fail.
Save(r) ==
    /\ pc[r] = "save"
    /\ \/ /\ r \notin gone
          /\ records' = [records EXCEPT ![key[r]] = answer[r]]
          /\ UNCHANGED unsaved
       \/ /\ r \in gone \/ "save" \in Faults
          /\ unsaved' = unsaved \cup {r}
          /\ UNCHANGED records
    /\ Goto(r, "done")
    /\ UNCHANGED <<users, serial, events, jobs, key, id, gone, answer, prior, unsent, moved>>

-----------------------------------------------------------------------------
\* An update that keeps the e-mail changes nothing here.
UpdateUser(n, email) ==
    /\ \E u \in users :
        /\ u.id = n
        /\ u.email # email
        /\ ~Taken(n, email)
        /\ users' = (users \ {u}) \cup {[u EXCEPT !.email = email]}
    /\ moved' = moved \cup {n}
    /\ Cardinality(moved') <= MaxMoved
    /\ UNCHANGED <<serial, records, events, jobs, pc, key, id, gone, answer, prior, unsaved, unsent>>

DeleteUser(n) ==
    /\ \E u \in users : u.id = n /\ users' = users \ {u}
    /\ moved' = moved \cup {n}
    /\ Cardinality(moved') <= MaxMoved
    /\ UNCHANGED <<serial, records, events, jobs, pc, key, id, gone, answer, prior, unsaved, unsent>>

Disconnect(r) ==
    /\ "disconnect" \in Faults
    /\ pc[r] \notin {"new", "done", "crashed"}
    /\ r \notin gone
    /\ gone' = gone \cup {r}
    /\ UNCHANGED <<users, serial, records, events, jobs, pc, key, id, answer, prior, unsaved, unsent, moved>>

\* PostgreSQL and Redis keep what was written; connections and answers in the
\* making are lost.
Crash ==
    LET Serving == {r \in Requests : pc[r] \notin {"new", "done", "crashed"}}
    IN  /\ pc' = [r \in Requests |-> IF r \in Serving THEN "crashed" ELSE pc[r]]
        /\ answer' = [r \in Requests |-> IF r \in Serving THEN "none" ELSE answer[r]]
        /\ gone' = gone \ Serving
        /\ unsaved' = unsaved \cup Serving
        /\ UNCHANGED <<users, serial, records, events, jobs, key, id, prior, unsent, moved>>

Handle(r) == Insert(r) \/ Welcome(r) \/ Announce(r)

Next ==
    \/ \E r \in Requests : Lookup(r) \/ Handle(r) \/ Save(r) \/ Disconnect(r)
    \/ \E n \in 1..MaxId : DeleteUser(n) \/ \E email \in Emails : UpdateUser(n, email)
    \/ Crash

Spec == Init /\ [][Next]_vars

-----------------------------------------------------------------------------
\* Every variable has the type the code gives it.
TypeOK ==
    /\ users \subseteq [id : 1..MaxId, email : Emails]
    /\ serial \in 0..MaxId
    /\ records \in [Keys -> {"none", "created", "conflict", "failed"}]
    /\ events \subseteq 1..MaxId
    /\ jobs \subseteq 1..MaxId
    /\ pc \in [Requests -> {"new", "insert", "effect", "save", "done", "crashed"}]
    /\ key \in [Requests -> Keys \cup {<<>>}]
    /\ id \in [Requests -> 0..MaxId]
    /\ gone \subseteq Requests
    /\ answer \in [Requests -> {"none", "created", "conflict", "failed"}]
    /\ prior \in [Requests -> SUBSET Requests]
    /\ unsaved \subseteq Requests
    /\ unsent \subseteq 1..MaxId
    /\ moved \subseteq 1..MaxId

\* Requests that share an idempotency key never leave two rows, although the
\* middleware lets concurrent ones through and loses records of requests that
\* were cut short: only a row deleted or re-addressed since makes room.
OneRowPerKey ==
    \A r, s \in Requests :
        /\ r # s
        /\ key[r] = key[s]
        /\ id[r] # 0 /\ id[s] # 0
        => {id[r], id[s]} \cap moved # {}

\* Neither handler's two writes are one transaction, yet every user whose
\* request was served is announced: by an event if CreateUser made it and the
\* client stayed, by a job if Register did, connected or not; unless outbox or
\* queue refused or the INSERT's reply was lost.  No event names a user that
\* another route made.
AnnouncedUnlessCut ==
    \A r \in Requests :
        /\ id[r] \in events => key[r][1] = "create"
        /\ pc[r] = "done" /\ id[r] \notin {0} \cup unsent =>
            IF key[r][1] = "create" THEN id[r] \in events \/ r \in gone ELSE id[r] \in jobs

\* "A retry with the same key and the same request body returns the cached
\* response" (docs/REFERENCE.md): a retry of a request that made the user is told
\* that the e-mail is taken only if nothing was recorded of that request (its
\* client disconnected, the HSET failed or the process crashed before it), or a
\* third request with the key overlapped with it and recorded its own answer.
RetriesReplay ==
    \A r \in Requests : pc[r] = "done" /\ answer[r] = "conflict" =>
        \A s \in prior[r] \ unsaved : key[s] = key[r] /\ id[s] # 0 =>
            \E t \in Requests \ {r, s} :
                key[t] = key[s] /\ s \notin prior[t] /\ t \notin prior[s]
=============================================================================
