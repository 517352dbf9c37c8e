--------------------------- MODULE AccountsProofs ---------------------------
(***************************************************************************)
(* Proofs about Accounts, for any number of requests, addresses and users  *)
(* and any faults: requests that share a key leave one row, what was       *)
(* served is announced, and a retry is told "conflict" only because the    *)
(* first left no record or a third request overlapped with it.             *)
(***************************************************************************)
EXTENDS Accounts, TLAPS

\* What a request has at each place: a key from its arrival on, the id of its
\* row from the INSERT on, and then the answer "created", or "failed" if the
\* reply to the INSERT was lost.  A crash leaves no record.
Places ==
    \A r \in Requests :
        /\ key[r] \in Keys <=> pc[r] # "new"
        /\ pc[r] \in {"new", "insert"} => id[r] = 0
        /\ pc[r] = "effect" => id[r] # 0
        /\ pc[r] = "save" => answer[r] # "none"
        /\ pc[r] \in {"save", "done"} /\ id[r] # 0 => answer[r] \in {"created", "failed"}
        /\ pc[r] = "crashed" => r \in unsaved
        /\ \A s \in prior[r] : pc[s] \in {"done", "crashed"}

\* The unique index and the sequence do their work, and a request's row is in
\* the table unless it was deleted or given another e-mail.
Rows ==
    /\ \A u \in users : u.id <= serial
    /\ \A u, v \in users : u.id = v.id \/ u.email = v.email => u = v
    /\ \A n \in events : n <= serial
    /\ \A r \in Requests : id[r] # 0 =>
        /\ id[r] <= serial
        /\ id[r] \in moved \/ [id |-> id[r], email |-> StoredEmail(r)] \in users
    /\ \A r, s \in Requests : id[r] # 0 /\ id[r] = id[s] => r = s

\* AnnouncedUnlessCut, from the moment the handler has returned.
Announced ==
    \A r \in Requests :
        /\ id[r] \in events => key[r][1] = "create"
        /\ pc[r] \in {"save", "done"} /\ id[r] \notin {0} \cup unsent =>
            IF key[r][1] = "create" THEN id[r] \in events \/ r \in gone ELSE id[r] \in jobs

\* Requests served from a record or leaving one: their key has one from then on.
Settled == {s \in Requests \ unsaved : pc[s] = "done"}

\* A request that found no record came before every settled one of its key;
\* so a recorded "conflict" is that of a request that overlapped with the one
\* that made the row.
Overlaps ==
    /\ \A s \in Settled : records[key[s]] # "none"
    /\ \A r \in Requests : pc[r] \in {"insert", "effect", "save"} =>
        \A s \in prior[r] : key[s] = key[r] => s \in unsaved
    /\ \A s \in Settled : id[s] # 0 /\ records[key[s]] = "conflict" =>
        \E t \in Requests \ {s} :
            pc[t] = "done" /\ key[t] = key[s] /\ s \notin prior[t] /\ t \notin prior[s]

IInv == TypeOK /\ Places /\ Rows /\ Announced /\ Overlaps /\ RetriesReplay
-----------------------------------------------------------------------------
\* An empty table and requests that have not arrived.
LEMMA InitIInv == Init => IInv
<1> SUFFICES ASSUME Init PROVE IInv
  OBVIOUS
<1> USE DEF Init
<1>1. TypeOK
  BY AccountsAssumption DEF TypeOK
<1>2. Places /\ Announced
  <2>1. << >> \notin Keys
    BY DEF Keys
  <2> QED BY <2>1 DEF Places, Announced
<1>3. Rows
  BY DEF Rows
<1>4. Overlaps /\ RetriesReplay
  BY DEF Overlaps, Settled, RetriesReplay
<1> QED BY <1>1, <1>2, <1>3, <1>4 DEF IInv

\* A request still being served is in nobody's past.
LEMMA NotPrior ==
    ASSUME IInv, NEW r \in Requests, pc[r] \notin {"done", "crashed"}
    PROVE  /\ r \notin Settled
           /\ \A q \in Requests : r \notin prior[q] /\ prior[q] \subseteq Requests
BY DEF IInv, TypeOK, Places, Settled

\* The ids of requests come from the sequence.
LEMMA IdsUsed ==
    ASSUME IInv
    PROVE  \A q \in Requests : id[q] \in Nat /\ (id[q] # 0 => id[q] <= serial)
<1> TAKE q \in Requests
<1>1. id[q] \in 0..MaxId /\ MaxId \in Nat
  BY AccountsAssumption DEF IInv, TypeOK
<1>2. id[q] # 0 => id[q] <= serial
  BY DEF IInv, Rows
<1> QED BY <1>1, <1>2

\* A step after which the same requests are done, with the same answers, and
\* which starts no run of a handler, says nothing new about overlaps.
LEMMA QuietStep ==
    ASSUME IInv, UNCHANGED <<records, key, prior>>,
           \A q \in Requests :
               /\ pc'[q] = "done" <=> pc[q] = "done"
               /\ pc[q] = "done" => id'[q] = id[q] /\ answer'[q] = answer[q] /\ (q \in unsaved' <=> q \in unsaved)
               /\ q \in unsaved => q \in unsaved'
               /\ pc'[q] \in {"insert", "effect", "save"} => pc[q] \in {"insert", "effect", "save"}
    PROVE  Overlaps' /\ RetriesReplay'
<1>1. Settled' = Settled /\ \A s \in Settled : id'[s] = id[s]
  BY DEF Settled
<1>2. \A q \in Requests : \A s \in prior[q] \ unsaved : s \in Requests /\ pc[s] = "done"
  BY DEF IInv, TypeOK, Places
<1>3. Overlaps'
  <2>1. \A s \in Settled' : records'[key'[s]] # "none"
    BY <1>1 DEF IInv, Overlaps
  <2>2. \A r \in Requests : pc'[r] \in {"insert", "effect", "save"} =>
            \A s \in prior'[r] : key'[s] = key'[r] => s \in unsaved'
    BY DEF IInv, Overlaps, TypeOK
  <2>3. \A s \in Settled' : id'[s] # 0 /\ records'[key'[s]] = "conflict" =>
            \E t \in Requests \ {s} :
                pc'[t] = "done" /\ key'[t] = key'[s] /\ s \notin prior'[t] /\ t \notin prior'[s]
    BY <1>1 DEF IInv, Overlaps
  <2> QED BY <2>1, <2>2, <2>3 DEF Overlaps
<1>4. RetriesReplay'
  <2> SUFFICES ASSUME NEW r \in Requests, pc'[r] = "done", answer'[r] = "conflict",
                      NEW s \in prior[r], s \notin unsaved', key[s] = key[r], id'[s] # 0
               PROVE  \E t \in Requests \ {r, s} :
                          key[t] = key[s] /\ s \notin prior[t] /\ t \notin prior[s]
    BY DEF RetriesReplay
  <2>1. pc[r] = "done" /\ answer[r] = "conflict" /\ s \notin unsaved /\ id[s] # 0
    BY <1>2 DEF IInv, TypeOK
  <2> QED BY <2>1 DEF IInv, RetriesReplay
<1> QED BY <1>3, <1>4

\* What a step that leaves table, sequence, keys and ids alone keeps.
LEMMA RowsKept ==
    ASSUME Rows, UNCHANGED <<users, serial, events, moved, id, key>>
    PROVE  Rows'
BY DEF Rows, StoredEmail

\* A request gets a key and finds others ended.  A hit answers with the record, a
\* miss means that every settled request of the key is still to come, and a
\* failed lookup leaves no record.
LEMMA LookupIInv ==
    ASSUME IInv, NEW r \in Requests, Lookup(r)
    PROVE  IInv'
<1>1. PICK k \in Keys :
        /\ key' = [key EXCEPT ![r] = k]
        /\ \/ /\ records[k] # "none" /\ answer' = [answer EXCEPT ![r] = records[k]]
              /\ pc' = [pc EXCEPT ![r] = "done"] /\ unsaved' = unsaved
           \/ /\ records[k] = "none" /\ answer' = answer
              /\ pc' = [pc EXCEPT ![r] = "insert"] /\ unsaved' = unsaved
           \/ /\ answer' = [answer EXCEPT ![r] = "failed"]
              /\ pc' = [pc EXCEPT ![r] = "done"] /\ unsaved' = unsaved \cup {r}
  BY DEF Lookup, Goto, Answer
<1> DEFINE hit == records[k] # "none" /\ pc'[r] = "done" /\ answer'[r] = records[k] /\ unsaved' = unsaved
           miss == records[k] = "none" /\ pc'[r] = "insert" /\ answer'[r] = answer[r] /\ unsaved' = unsaved
           cut == pc'[r] = "done" /\ answer'[r] = "failed" /\ unsaved' = unsaved \cup {r}
<1>2. /\ pc[r] = "new" /\ key'[r] = k /\ id[r] = 0 /\ key[r] \notin Keys
      /\ prior'[r] = {s \in Requests : pc[s] \in {"done", "crashed"}}
      /\ \A q \in Requests \ {r} : /\ pc'[q] = pc[q] /\ answer'[q] = answer[q]
                                   /\ key'[q] = key[q] /\ prior'[q] = prior[q]
                                   /\ q \in unsaved' <=> q \in unsaved
      /\ UNCHANGED <<users, serial, records, events, jobs, id, gone, unsent, moved>>
  BY <1>1 DEF Lookup, IInv, TypeOK, Places
<1>3. (hit \/ miss \/ cut) /\ records[k] \in {"none", "created", "conflict", "failed"}
  BY <1>1 DEF IInv, TypeOK
<1> HIDE DEF hit, miss, cut
<1>4. TypeOK'
  <2>1. answer' \in [Requests -> {"none", "created", "conflict", "failed"}]
    BY <1>1, <1>3 DEF IInv, TypeOK
  <2>2. pc' \in [Requests -> {"new", "insert", "effect", "save", "done", "crashed"}]
    BY <1>1 DEF IInv, TypeOK
  <2>3. key' \in [Requests -> Keys \cup {<<>>}] /\ unsaved' \subseteq Requests
    BY <1>1 DEF IInv, TypeOK
  <2>4. prior' \in [Requests -> SUBSET Requests]
    BY DEF Lookup, IInv, TypeOK
  <2> QED BY <1>2, <2>1, <2>2, <2>3, <2>4 DEF IInv, TypeOK
<1>5. r \notin Settled /\ \A q \in Requests : r \notin prior[q] /\ prior[q] \subseteq Requests
  BY <1>2, NotPrior
<1>6. Places'
  BY <1>2, <1>3, <1>5 DEF IInv, Places, hit, miss, cut
<1>7. Rows'
  BY <1>2 DEF IInv, Rows, StoredEmail
<1>8. Announced'
  <2>1. 0 \notin events
    BY DEF IInv, TypeOK
  <2> QED BY <1>2, <2>1 DEF IInv, Announced
<1>9. /\ Settled' \ {r} = Settled
      /\ \A s \in Settled : s \in Requests \ {r}
      /\ r \in Settled' => hit
  BY <1>2, <1>3, <1>5 DEF Settled, hit, miss, cut
<1>10. Overlaps'
  <2>1. \A s \in Settled' : records'[key'[s]] # "none"
    <3>1. hit => records[k] # "none"
      BY DEF hit
    <3> QED BY <1>2, <1>9, <3>1 DEF IInv, Overlaps
  <2>2. \A q \in Requests : pc'[q] \in {"insert", "effect", "save"} =>
            \A s \in prior'[q] : key'[s] = key'[q] => s \in unsaved'
    <3>1. ASSUME pc'[r] = "insert", NEW s \in prior'[r], key'[s] = k
          PROVE  s \in unsaved'
      <4>1. s \in Requests \ {r} /\ key[s] = k /\ (pc[s] = "done" \/ s \in unsaved)
        BY <1>2, <3>1 DEF IInv, Places
      <4>2. records[k] = "none"
        BY <1>3, <3>1 DEF hit, miss, cut
      <4> QED BY <1>2, <4>1, <4>2 DEF IInv, Overlaps, Settled
    <3>2. pc'[r] \in {"insert", "done"}
      BY <1>3 DEF hit, miss, cut
    <3>3. ASSUME NEW q \in Requests \ {r}, pc[q] \in {"insert", "effect", "save"},
                 NEW s \in prior[q], key'[s] = key[q]
          PROVE  s \in unsaved'
      BY <1>2, <1>5, <3>3 DEF IInv, Overlaps
    <3> QED BY <1>2, <3>1, <3>2, <3>3
  <2>3. ASSUME NEW s \in Settled', id'[s] # 0, records'[key'[s]] = "conflict"
        PROVE  \E t \in Requests \ {s} :
                   pc'[t] = "done" /\ key'[t] = key'[s] /\ s \notin prior'[t] /\ t \notin prior'[s]
    <3>1. s \in Settled /\ s \in Requests \ {r}
      BY <1>2, <1>9, <2>3
    <3>2. PICK t \in Requests \ {s} :
            pc[t] = "done" /\ key[t] = key[s] /\ s \notin prior[t] /\ t \notin prior[s]
      BY <1>2, <2>3, <3>1 DEF IInv, Overlaps
    <3>3. t # r
      BY <1>2, <3>2
    <3> QED BY <1>2, <3>1, <3>2, <3>3
  <2> QED BY <2>1, <2>2, <2>3 DEF Overlaps
<1>11. RetriesReplay'
  <2> SUFFICES ASSUME NEW q \in Requests, pc'[q] = "done", answer'[q] = "conflict",
                      NEW s \in prior'[q] \ unsaved', key'[s] = key'[q], id'[s] # 0
               PROVE  \E t \in Requests \ {q, s} :
                          key'[t] = key'[s] /\ s \notin prior'[t] /\ t \notin prior'[s]
    BY DEF RetriesReplay
  <2>1. s \in Requests \ {r} /\ s \notin unsaved
    BY <1>2, <1>5
  <2>2. \E t \in Requests \ {r, q, s} : key[t] = key[s] /\ s \notin prior[t] /\ t \notin prior[s]
    <3>1. CASE q # r
      <4>1. PICK t \in Requests \ {q, s} : key[t] = key[s] /\ s \notin prior[t] /\ t \notin prior[s]
        BY <1>2, <2>1, <3>1 DEF IInv, RetriesReplay
      <4>2. key[s] \in Keys
        BY <1>2, <1>5, <2>1, <3>1 DEF IInv, Places
      <4> QED BY <1>2, <4>1, <4>2
    <3>2. CASE q = r
      <4>1. key[s] = k /\ pc[s] = "done"
        BY <1>2, <2>1, <3>2 DEF IInv, Places
      <4>2. records[k] = "conflict"
        BY <1>3, <3>2 DEF hit, miss, cut
      <4>3. PICK t \in Requests \ {s} :
              pc[t] = "done" /\ key[t] = key[s] /\ s \notin prior[t] /\ t \notin prior[s]
        BY <1>2, <2>1, <4>1, <4>2 DEF IInv, Overlaps, Settled
      <4> QED BY <1>2, <3>2, <4>3
    <3> QED BY <3>1, <3>2
  <2> QED BY <1>2, <2>1, <2>2
<1> QED BY <1>4, <1>6, <1>7, <1>8, <1>10, <1>11 DEF IInv

\* The INSERT makes a row with a fresh id and an e-mail nobody has, or none.
LEMMA InsertIInv ==
    ASSUME IInv, NEW r \in Requests, Insert(r)
    PROVE  IInv'
<1>1. /\ pc[r] = "insert" /\ id[r] = 0 /\ key[r] \in Keys
      /\ UNCHANGED <<records, events, jobs, key, gone, prior, unsaved, moved>>
  BY DEF Insert, IInv, Places
<1>2. r \notin Settled /\ \A q \in Requests : r \notin prior[q] /\ prior[q] \subseteq Requests
  BY <1>1, NotPrior
<1>3. CASE /\ serial < MaxId /\ serial' = serial + 1
           /\ ~Taken(0, StoredEmail(r))
           /\ users' = users \cup {[id |-> serial + 1, email |-> StoredEmail(r)]}
           /\ id' = [id EXCEPT ![r] = serial + 1]
           /\ \/ /\ pc' = [pc EXCEPT ![r] = "effect"]
                 /\ answer' = answer /\ unsent' = unsent
              \/ /\ pc' = [pc EXCEPT ![r] = "save"]
                 /\ answer' = [answer EXCEPT ![r] = "failed"]
                 /\ unsent' = unsent \cup {serial + 1}
  <2> DEFINE u == [id |-> serial + 1, email |-> StoredEmail(r)]
  <2>1. /\ serial \in Nat /\ serial + 1 \in 1..MaxId /\ StoredEmail(r) \in Emails
        /\ u \in [id : 1..MaxId, email : Emails] /\ u.id = serial + 1 /\ u.email = StoredEmail(r)
    <3>1. StoredEmail(r) \in Emails
      BY <1>1 DEF StoredEmail, Keys, Emails, Lower
    <3>2. serial \in Nat /\ serial + 1 \in 1..MaxId
      BY <1>3, AccountsAssumption DEF IInv, TypeOK
    <3> QED BY <3>1, <3>2
  <2>2. /\ id'[r] = serial + 1
        /\ pc'[r] = "effect" \/ (pc'[r] = "save" /\ answer'[r] = "failed" /\ serial + 1 \in unsent')
        /\ \A q \in Requests \ {r} : id'[q] = id[q] /\ pc'[q] = pc[q] /\ answer'[q] = answer[q]
        /\ unsent \subseteq unsent'
    BY <1>3 DEF IInv, TypeOK
  <2>3. TypeOK'
    <3>1. users' \subseteq [id : 1..MaxId, email : Emails] /\ serial' \in 0..MaxId
      BY <1>3, <2>1 DEF IInv, TypeOK
    <3>2. id' \in [Requests -> 0..MaxId]
      BY <1>3, <2>1 DEF IInv, TypeOK
    <3>3. pc' \in [Requests -> {"new", "insert", "effect", "save", "done", "crashed"}]
      BY <1>3 DEF IInv, TypeOK
    <3>4. /\ answer' \in [Requests -> {"none", "created", "conflict", "failed"}]
          /\ unsent' \subseteq 1..MaxId
      BY <1>3, <2>1 DEF IInv, TypeOK
    <3> QED BY <1>1, <3>1, <3>2, <3>3, <3>4 DEF IInv, TypeOK
  <2>4. Places'
    BY <1>1, <1>2, <1>3, <2>1, <2>2 DEF IInv, Places
  <2>5. users' = users \cup {u} /\ \A v \in users : v.id # u.id /\ v.email # u.email /\ v.id \in 1..MaxId
    <3>1. \A v \in users : v.id \in 1..MaxId /\ v.id <= serial
      BY DEF IInv, TypeOK, Rows
    <3>2. \A v \in users : v.id # u.id
      BY <2>1, <3>1
    <3>3. \A v \in users : v.email # u.email
      BY <1>3, <2>1, <3>1 DEF Taken
    <3> QED BY <1>3, <3>1, <3>2, <3>3
  <2>6. \A q \in Requests : StoredEmail(q)' = StoredEmail(q)
    BY <1>1 DEF StoredEmail
  <2>7. Rows'
    <3>0. serial' = serial + 1 /\ serial \in Nat
      BY <1>3, <2>1
    <3>1. \A v \in users' : v.id <= serial'
      BY <2>1, <2>5, <3>0 DEF IInv, Rows
    <3>2. \A v, w \in users' : v.id = w.id \/ v.email = w.email => v = w
      BY <2>5 DEF IInv, Rows
    <3>3. \A n \in events' : n <= serial'
      BY <1>1, <3>0 DEF IInv, Rows, TypeOK
    <3>4. ASSUME NEW q \in Requests, id'[q] # 0
          PROVE  /\ id'[q] <= serial'
                 /\ id'[q] \in moved' \/ [id |-> id'[q], email |-> StoredEmail(q)'] \in users'
      <4>1. CASE q = r
        BY <2>1, <2>2, <2>5, <2>6, <3>0, <4>1
      <4>2. CASE q # r
        <5>1. id'[q] = id[q] /\ id[q] \in Nat /\ id[q] <= serial
          BY <2>2, <3>4, <4>2, IdsUsed
        <5> QED BY <1>1, <2>5, <2>6, <3>0, <3>4, <5>1 DEF IInv, Rows
      <4> QED BY <4>1, <4>2
    <3>5. ASSUME NEW q \in Requests, NEW s \in Requests, id'[q] # 0, id'[q] = id'[s]
          PROVE  q = s
      <4>1. \A p \in Requests \ {r} : id'[p] # 0 => id'[p] # serial + 1
        BY <2>2, <3>0, IdsUsed
      <4> QED BY <2>2, <3>5, <4>1 DEF IInv, Rows
    <3> QED BY <3>1, <3>2, <3>3, <3>4, <3>5 DEF Rows
  <2>8. Announced'
    <3>1. serial + 1 \notin events
      BY <2>1 DEF IInv, Rows, TypeOK
    <3> QED BY <1>1, <2>2, <3>1 DEF IInv, Announced
  <2>9. Overlaps' /\ RetriesReplay'
    BY <1>1, <1>3, <2>2, QuietStep
  <2> QED BY <2>3, <2>4, <2>7, <2>8, <2>9 DEF IInv
<1>4. CASE /\ answer' \in {[answer EXCEPT ![r] = "conflict"], [answer EXCEPT ![r] = "failed"]}
           /\ pc' = [pc EXCEPT ![r] = "save"]
           /\ serial' \in {serial, serial + 1} /\ serial' \in 0..MaxId
           /\ UNCHANGED <<users, id, unsent>>
  <2>1. /\ answer'[r] \in {"conflict", "failed"} /\ pc'[r] = "save"
        /\ \A q \in Requests \ {r} : answer'[q] = answer[q] /\ pc'[q] = pc[q]
    BY <1>4 DEF IInv, TypeOK
  <2>2. TypeOK'
    <3>1. answer' \in [Requests -> {"none", "created", "conflict", "failed"}]
      BY <1>4 DEF IInv, TypeOK
    <3>2. pc' \in [Requests -> {"new", "insert", "effect", "save", "done", "crashed"}]
      BY <1>4 DEF IInv, TypeOK
    <3> QED BY <1>1, <1>4, <3>1, <3>2 DEF IInv, TypeOK
  <2>3. Places'
    BY <1>1, <1>2, <1>4, <2>1 DEF IInv, Places
  <2>4. Rows'
    <3>1. serial \in Nat /\ serial <= serial' /\ serial' \in Nat
      BY <1>4 DEF IInv, TypeOK
    <3>2. \A v \in users : v.id <= serial'
      BY <3>1 DEF IInv, TypeOK, Rows
    <3>3. \A n \in events : n <= serial'
      BY <3>1 DEF IInv, TypeOK, Rows
    <3>4. \A q \in Requests : id[q] # 0 => id[q] <= serial'
      BY <3>1, IdsUsed
    <3> QED BY <1>1, <1>4, <3>2, <3>3, <3>4 DEF IInv, Rows, StoredEmail
  <2>5. Announced'
    BY <1>1, <1>4, <2>1 DEF IInv, Announced
  <2>6. Overlaps' /\ RetriesReplay'
    BY <1>1, <1>4, <2>1, QuietStep
  <2> QED BY <2>2, <2>3, <2>4, <2>5, <2>6 DEF IInv
<1> QED
  <2>1. serial \in 0..MaxId /\ (serial < MaxId => serial + 1 \in 0..MaxId)
    BY AccountsAssumption DEF IInv, TypeOK
  <2> QED BY <1>3, <1>4, <2>1 DEF Insert, Goto, Answer

\* Both handlers end alike: the request is answered "created", and its id is
\* announced on the route's own channel or known to be refused.
LEMMA EffectIInv ==
    ASSUME IInv, NEW r \in Requests, Welcome(r) \/ Announce(r)
    PROVE  IInv'
<1>1. /\ pc[r] = "effect" /\ id[r] # 0 /\ key[r] \in Keys
      /\ UNCHANGED <<users, serial, records, key, id, gone, prior, unsaved, moved>>
      /\ pc' = [pc EXCEPT ![r] = "save"] /\ answer' = [answer EXCEPT ![r] = "created"]
  BY DEF Welcome, Announce, Goto, Answer, IInv, Places
<1>2. /\ pc'[r] = "save" /\ answer'[r] = "created"
      /\ \A q \in Requests \ {r} : pc'[q] = pc[q] /\ answer'[q] = answer[q]
  BY <1>1 DEF IInv, TypeOK
<1>3. id[r] \in 1..MaxId /\ id[r] <= serial
  BY <1>1, IdsUsed, AccountsAssumption DEF IInv, TypeOK
<1>4. /\ events' \in {events, events \cup {id[r]}} /\ (events' # events => key[r][1] = "create")
      /\ jobs' \in {jobs, jobs \cup {id[r]}}
      /\ unsent' \in {unsent, unsent \cup {id[r]}}
      /\ id[r] \notin unsent' =>
            IF key[r][1] = "create" THEN id[r] \in events' \/ r \in gone ELSE id[r] \in jobs'
  BY DEF Welcome, Announce
<1>5. TypeOK'
  <2>1. pc' \in [Requests -> {"new", "insert", "effect", "save", "done", "crashed"}]
    BY <1>1 DEF IInv, TypeOK
  <2>2. answer' \in [Requests -> {"none", "created", "conflict", "failed"}]
    BY <1>1 DEF IInv, TypeOK
  <2>3. events' \subseteq 1..MaxId /\ jobs' \subseteq 1..MaxId /\ unsent' \subseteq 1..MaxId
    BY <1>3, <1>4 DEF IInv, TypeOK
  <2> QED BY <1>1, <2>1, <2>2, <2>3 DEF IInv, TypeOK
<1>6. Places'
  <2>1. \A q \in Requests : r \notin prior[q] /\ prior[q] \subseteq Requests
    BY <1>1, NotPrior
  <2> QED BY <1>1, <1>2, <2>1 DEF IInv, Places
<1>7. Rows'
  <2>1. \A n \in events' : n <= serial
    BY <1>3, <1>4 DEF IInv, Rows
  <2> QED BY <1>1, <2>1 DEF IInv, Rows, StoredEmail
<1>8. Announced'
  <2>1. \A q \in Requests \ {r} : id[q] # id[r]
    BY <1>1 DEF IInv, Rows
  <2>2. ASSUME NEW q \in Requests \ {r}
        PROVE  /\ id'[q] \in events' => key'[q][1] = "create"
               /\ pc'[q] \in {"save", "done"} /\ id'[q] \notin {0} \cup unsent' =>
                    IF key'[q][1] = "create" THEN id'[q] \in events' \/ q \in gone' ELSE id'[q] \in jobs'
    BY <1>1, <1>2, <1>4, <2>1 DEF IInv, Announced
  <2>3. id[r] \in events' => key[r][1] = "create"
    BY <1>4 DEF IInv, Announced
  <2> QED BY <1>1, <1>4, <2>2, <2>3 DEF Announced
<1>9. Overlaps' /\ RetriesReplay'
  BY <1>1, <1>2, QuietStep
<1> QED BY <1>5, <1>6, <1>7, <1>8, <1>9 DEF IInv

\* Save records the answer of a request that found no record: if it is
\* "conflict", the request overlapped with every settled one of its key.
LEMMA SaveIInv ==
    ASSUME IInv, NEW r \in Requests, Save(r)
    PROVE  IInv'
<1>1. /\ pc[r] = "save" /\ pc' = [pc EXCEPT ![r] = "done"] /\ key[r] \in Keys
      /\ UNCHANGED <<users, serial, events, jobs, key, id, gone, answer, prior, unsent, moved>>
      /\ \/ unsaved' = unsaved /\ records' = [records EXCEPT ![key[r]] = answer[r]]
         \/ unsaved' = unsaved \cup {r} /\ records' = records
  BY DEF Save, Goto, IInv, Places
<1>2. pc'[r] = "done" /\ \A q \in Requests \ {r} : pc'[q] = pc[q]
  BY <1>1 DEF IInv, TypeOK
<1>3. /\ answer[r] \in {"created", "conflict", "failed"}
      /\ id[r] # 0 => answer[r] # "conflict"
  BY <1>1 DEF IInv, TypeOK, Places
<1>4. /\ \A k \in Keys : records'[k] = records[k] \/ (k = key[r] /\ records'[k] = answer[r])
      /\ r \notin unsaved' => records'[key[r]] = answer[r]
      /\ \A q \in Requests \ {r} : q \in unsaved' <=> q \in unsaved
  BY <1>1 DEF IInv, TypeOK
<1>5. r \notin Settled /\ \A q \in Requests : r \notin prior[q] /\ prior[q] \subseteq Requests
  BY <1>1, NotPrior
<1>6. \A s \in Settled : s \in Requests /\ key[s] \in Keys
  BY DEF Settled, IInv, Places
<1>7. Settled' \ {r} = Settled /\ (r \in Settled' => r \notin unsaved')
  BY <1>2, <1>4, <1>5 DEF Settled
<1>8. TypeOK'
  <2>1. pc' \in [Requests -> {"new", "insert", "effect", "save", "done", "crashed"}]
    BY <1>1 DEF IInv, TypeOK
  <2>2. records' \in [Keys -> {"none", "created", "conflict", "failed"}]
    BY <1>1, <1>3 DEF IInv, TypeOK
  <2>3. unsaved' \subseteq Requests
    BY <1>1 DEF IInv, TypeOK
  <2> QED BY <1>1, <2>1, <2>2, <2>3 DEF IInv, TypeOK
<1>9. Places'
  BY <1>1, <1>2, <1>4, <1>5 DEF IInv, Places
<1>10. Rows' /\ Announced'
  BY <1>1, <1>2, RowsKept DEF IInv, Announced
<1>11. Overlaps'
  <2>1. \A s \in Settled' : records'[key[s]] # "none"
    BY <1>3, <1>4, <1>6, <1>7 DEF IInv, Overlaps
  <2>2. \A q \in Requests : pc'[q] \in {"insert", "effect", "save"} =>
            \A s \in prior[q] : key[s] = key[q] => s \in unsaved'
    BY <1>1, <1>2 DEF IInv, Overlaps
  <2>3. ASSUME NEW s \in Settled', id[s] # 0, records'[key[s]] = "conflict"
        PROVE  \E t \in Requests \ {s} :
                   pc'[t] = "done" /\ key[t] = key[s] /\ s \notin prior[t] /\ t \notin prior[s]
    <3>1. s # r
      <4> SUFFICES ASSUME s = r PROVE FALSE
        OBVIOUS
      <4>1. r \notin unsaved'
        BY <1>7
      <4> QED BY <1>3, <1>4, <2>3, <4>1
    <3>2. s \in Settled
      BY <1>7, <3>1
    <3>3. CASE records[key[s]] = "conflict"
      <4>1. PICK t \in Requests \ {s} :
              pc[t] = "done" /\ key[t] = key[s] /\ s \notin prior[t] /\ t \notin prior[s]
        BY <2>3, <3>2, <3>3 DEF IInv, Overlaps
      <4> QED BY <1>2, <4>1
    <3>4. CASE records[key[s]] # "conflict"
      <4>1. key[s] = key[r]
        BY <1>4, <1>6, <2>3, <3>2, <3>4
      <4>2. s \notin prior[r]
        BY <1>1, <3>2, <4>1 DEF IInv, Overlaps, Settled
      <4> QED BY <1>2, <1>5, <1>6, <3>1, <3>2, <4>1, <4>2
    <3> QED BY <3>3, <3>4
  <2> QED BY <1>1, <2>1, <2>2, <2>3 DEF Overlaps
<1>12. RetriesReplay'
  <2> SUFFICES ASSUME NEW q \in Requests, pc'[q] = "done", answer[q] = "conflict",
                      NEW s \in prior[q] \ unsaved', key[s] = key[q], id[s] # 0
               PROVE  \E t \in Requests \ {q, s} :
                          key[t] = key[s] /\ s \notin prior[t] /\ t \notin prior[s]
    BY <1>1 DEF RetriesReplay
  <2>1. s \notin unsaved
    BY <1>1
  <2>2. q # r
    BY <1>1, <2>1 DEF IInv, Overlaps
  <2> QED BY <1>2, <2>1, <2>2 DEF IInv, RetriesReplay
<1> QED BY <1>8, <1>9, <1>10, <1>11, <1>12 DEF IInv

\* A row that is deleted or given another e-mail is marked as moved, and the
\* index refuses an e-mail that somebody has.
LEMMA WriteIInv ==
    ASSUME IInv, NEW n \in 1..MaxId,
           DeleteUser(n) \/ \E email \in Emails : UpdateUser(n, email)
    PROVE  IInv'
<1>1. /\ UNCHANGED <<serial, records, events, jobs, pc, key, id, gone, answer, prior, unsaved, unsent>>
      /\ moved' = moved \cup {n}
  BY DEF DeleteUser, UpdateUser
<1>2. \A u \in users : u \in [id : 1..MaxId, email : Emails]
  BY DEF IInv, TypeOK
<1>3. /\ users' \subseteq [id : 1..MaxId, email : Emails]
      /\ \A v \in users' : v.id <= serial
      /\ \A v, w \in users' : v.id = w.id \/ v.email = w.email => v = w
      /\ \A v \in users : v.id # n => v \in users'
  <2>1. CASE DeleteUser(n)
    BY <1>2, <2>1 DEF DeleteUser, IInv, Rows
  <2>2. ASSUME NEW email \in Emails, UpdateUser(n, email)
        PROVE  /\ users' \subseteq [id : 1..MaxId, email : Emails]
               /\ \A v \in users' : v.id <= serial
               /\ \A v, w \in users' : v.id = w.id \/ v.email = w.email => v = w
               /\ \A v \in users : v.id # n => v \in users'
    <3>1. PICK u \in users : /\ u.id = n /\ ~Taken(n, email)
                             /\ users' = (users \ {u}) \cup {[u EXCEPT !.email = email]}
      BY <2>2 DEF UpdateUser
    <3> DEFINE x == [u EXCEPT !.email = email]
    <3>2. x \in [id : 1..MaxId, email : Emails] /\ x.id = n /\ x.email = email
      BY <1>2, <3>1
    <3> HIDE DEF x
    <3>3. users' = (users \ {u}) \cup {x}
      BY <3>1 DEF x
    <3>4. \A v \in users \ {u} : v.id # n /\ v.email # email
      BY <3>1 DEF IInv, Rows, Taken
    <3> QED BY <1>2, <3>1, <3>2, <3>3, <3>4 DEF IInv, Rows
  <2> QED BY <2>1, <2>2
<1>4. TypeOK'
  BY <1>1, <1>3 DEF IInv, TypeOK
<1>5. Places' /\ Announced'
  BY <1>1 DEF IInv, Places, Announced
<1>6. Rows'
  <2>1. ASSUME NEW q \in Requests, id[q] # 0
        PROVE  id[q] \in moved' \/ [id |-> id[q], email |-> StoredEmail(q)] \in users'
    BY <1>1, <1>3, <2>1 DEF IInv, Rows
  <2> QED BY <1>1, <1>3, <2>1 DEF IInv, Rows, StoredEmail
<1>7. Overlaps' /\ RetriesReplay'
  BY <1>1, QuietStep
<1> QED BY <1>4, <1>5, <1>6, <1>7 DEF IInv

\* A client that disconnects, or a crash, ends what is being served; what is
\* done stays as it is.
LEMMA CutIInv ==
    ASSUME IInv, Crash \/ \E r \in Requests : Disconnect(r)
    PROVE  IInv'
<1>1. UNCHANGED <<users, serial, records, events, jobs, key, id, prior, unsent, moved>>
  BY DEF Crash, Disconnect
<1>2. /\ pc' \in [Requests -> {"new", "insert", "effect", "save", "done", "crashed"}]
      /\ answer' \in [Requests -> {"none", "created", "conflict", "failed"}]
      /\ gone' \subseteq Requests /\ unsaved' \subseteq Requests
  BY DEF Crash, Disconnect, IInv, TypeOK
<1>3. \A q \in Requests :
        \/ pc'[q] = pc[q] /\ answer'[q] = answer[q] /\ (q \in gone => q \in gone')
           /\ (q \in unsaved' <=> q \in unsaved)
        \/ pc'[q] = "crashed" /\ pc[q] \notin {"new", "done", "crashed"} /\ q \in unsaved'
  BY DEF Crash, Disconnect, IInv, TypeOK
<1>4. TypeOK'
  BY <1>1, <1>2 DEF IInv, TypeOK
<1>5. Places'
  <2>1. \A q \in Requests : prior[q] \subseteq Requests
    BY DEF IInv, TypeOK
  <2> QED BY <1>1, <1>3, <2>1 DEF IInv, Places
<1>6. Rows'
  BY <1>1, RowsKept DEF IInv
<1>7. Announced'
  BY <1>1, <1>3 DEF IInv, Announced
<1>8. Overlaps' /\ RetriesReplay'
  BY <1>1, <1>3, QuietStep
<1> QED BY <1>4, <1>5, <1>6, <1>7, <1>8 DEF IInv

\* Every step keeps the invariant.
LEMMA NextIInv == IInv /\ [Next]_vars => IInv'
<1> SUFFICES ASSUME IInv, [Next]_vars PROVE IInv'
  OBVIOUS
<1>1. CASE UNCHANGED vars
  <2>1. UNCHANGED <<users, serial, records, events, jobs, pc, key, id, gone, answer, prior, unsaved, unsent, moved>>
    BY <1>1 DEF vars
  <2>2. TypeOK' /\ Places' /\ Announced'
    BY <2>1 DEF IInv, TypeOK, Places, Announced
  <2>3. Rows' /\ Overlaps' /\ RetriesReplay'
    BY <2>1, RowsKept, QuietStep DEF IInv
  <2> QED BY <2>2, <2>3 DEF IInv
<1>2. CASE \E r \in Requests : Lookup(r) \/ Handle(r) \/ Save(r)
  BY <1>2, LookupIInv, InsertIInv, EffectIInv, SaveIInv DEF Handle
<1>3. CASE \E n \in 1..MaxId : DeleteUser(n) \/ \E email \in Emails : UpdateUser(n, email)
  BY <1>3, WriteIInv
<1>4. CASE Crash \/ \E r \in Requests : Disconnect(r)
  BY <1>4, CutIInv
<1> QED BY <1>1, <1>2, <1>3, <1>4 DEF Next

\* The invariant holds in every reachable state.
THEOREM AccountsInvariance == Spec => []IInv
BY InitIInv, NextIInv, PTL DEF Spec

\* The unique index makes up for the race in the middleware: requests that share
\* a key leave one row, however they interleave, crash and disconnect.
THEOREM OneRow == Spec => []OneRowPerKey
<1>1. IInv => OneRowPerKey
  <2> SUFFICES ASSUME IInv, NEW r \in Requests, NEW s \in Requests, r # s, key[r] = key[s],
                      id[r] # 0, id[s] # 0, id[r] \notin moved, id[s] \notin moved
               PROVE  FALSE
    BY DEF OneRowPerKey
  <2>1. StoredEmail(r) = StoredEmail(s)
    BY DEF StoredEmail
  <2>2. /\ [id |-> id[r], email |-> StoredEmail(r)] \in users
        /\ [id |-> id[s], email |-> StoredEmail(s)] \in users
    BY DEF IInv, Rows
  <2>3. id[r] = id[s]
    BY <2>1, <2>2 DEF IInv, Rows
  <2> QED BY <2>3 DEF IInv, Rows
<1> QED BY <1>1, AccountsInvariance, PTL

\* Every user whose request was served is announced, unless the client was gone,
\* the outbox or the queue refused, or the reply to the INSERT was lost.
THEOREM ServedIsAnnounced == Spec => []AnnouncedUnlessCut
<1>1. IInv => AnnouncedUnlessCut
  BY DEF IInv, Announced, AnnouncedUnlessCut
<1> QED BY <1>1, AccountsInvariance, PTL

\* A retry is answered "conflict" only because the first request left no record
\* (its client went, the HSET failed or the process crashed) or because of a
\* third request that overlapped with it.
THEOREM RetriesExplained == Spec => []RetriesReplay
<1>1. IInv => RetriesReplay
  BY DEF IInv
<1> QED BY <1>1, AccountsInvariance, PTL
=============================================================================
