-------------------------- MODULE RedisJobsProofs ---------------------------
(***************************************************************************)
(* Proofs about the job pool on Redis, for every set of jobs and workers,  *)
(* every combination of failing calls and any number of crashes: where an  *)
(* accepted job can be, that none is at two places, and how often one is   *)
(* tried.                                                                  *)
(***************************************************************************)
EXTENDS RedisJobs, SequenceTheorems, TLAPS

-----------------------------------------------------------------------------
(* The inductive invariant.                                                 *)

\* What a worker holds, with the attempts its entry will have in the stream if
\* Nack puts it back: runJob has counted one and Nack counts, or will count,
\* another.
Token(w) ==
    IF pc[w] = "picked" THEN held[w] ELSE [held[w] EXCEPT !.attempts = @ + 1]

\* The entries that may still be run, in the stream or in a worker's hands.
Tokens == Range(stream) \cup {Token(w) : w \in InFlight}

\* The pending entry that a worker was given.
Given(w) == IF pc[w] = "picked" THEN held[w] ELSE Pending(w)

\* No two of a sequence's entries are the same.
Once(s) == \A i, k \in DOMAIN s : SameEntry(s[i], s[k]) => i = k

Over == done \cup Buried \cup LostJobs
Stranded == {l[1] : l \in {m \in lost : m[2] = "stranded"}}

\* A worker in the middle of a job has an entry, pending on Redis until Nack
\* acknowledges it.
Handed ==
    \A w \in InFlight :
        /\ held[w] \in Entry
        /\ pc[w] # "picked" => held[w].attempts \in Nat \ {0}
        /\ pc[w] \in {"picked", "handling"} => Given(w) \in pel

\* Every job that was ever written is accepted or was refused by a lost reply,
\* and only a resent XADD makes a second entry.
Known ==
    /\ accepted \subseteq Queued \cup Held \cup Over
    /\ Queued \cup Held \cup Over \subseteq accepted \cup unsure
    /\ \A e \in Tokens \cup pel :
        /\ e.id \in accepted \cup unsure
        /\ e.copy = 1 => e.id \in unsure

\* A job that is given up, or dead-lettered in memory only, has a pending entry
\* that no worker and no entry of the stream stands for any longer.
Spare(j) == \E e \in pel : e.id = j /\ \A t \in Tokens : ~SameEntry(t, e)

Claimable == \A j \in deadHere \cup Stranded : Spare(j)

Budget == MaxRetries \div 2 + 1

\* How often a job was tried, against the attempts its entries show: a for the
\* first of them and b for the second.
Tried(j) ==
    \E a, b \in 0..Budget :
        /\ runs[j] <= a + b
        /\ j \notin unsure => b = 0
        /\ j \notin accepted \cup unsure => a = 0
        /\ \A t \in Tokens :
            t.id = j => 2 * (IF t.copy = 0 THEN a ELSE b) <= t.attempts

Even(n) == \E k \in Nat : n = 2 * k

Counted ==
    /\ \A j \in Jobs : Tried(j)
    /\ \A t \in Tokens : Even(t.attempts)
    /\ \A e \in Range(stream) : e.attempts <= MaxRetries
    /\ \A w \in InFlight : pc[w] # "handling" => held[w].attempts <= MaxRetries

RedisInv == TypeOK /\ Handed /\ Known /\ NoJobTwice /\ Claimable /\ Counted

-----------------------------------------------------------------------------
(* The helpers of the model.                                                *)

\* An entry's fields, and the entries made from it.
LEMMA EntryFields ==
    ASSUME NEW e \in Entry
    PROVE  /\ e.id \in Jobs /\ e.attempts \in Nat /\ e.copy \in {0, 1}
           /\ \A n \in Nat : /\ [e EXCEPT !.attempts = n] \in Entry
                             /\ [e EXCEPT !.attempts = n].id = e.id
                             /\ [e EXCEPT !.attempts = n].copy = e.copy
                             /\ [e EXCEPT !.attempts = n].attempts = n
           /\ [e EXCEPT !.copy = 1] \in Entry
           /\ [e EXCEPT !.copy = 1].id = e.id
           /\ [e EXCEPT !.copy = 1].attempts = e.attempts
           /\ [e EXCEPT !.copy = 1].copy = 1
BY DEF Entry

\* The stream with the entries of an XADD at its end.
LEMMA Written ==
    ASSUME NEW s \in Seq(Entry), NEW t \in Seq(Entry)
    PROVE  /\ s \o t \in Seq(Entry)
           /\ Range(s \o t) = Range(s) \cup Range(t)
           /\ Once(s) /\ Once(t) /\ (\A x \in Range(s), y \in Range(t) : ~SameEntry(x, y) /\ ~SameEntry(y, x))
                => Once(s \o t)
<1> DEFINE u == s \o t
<1>1. /\ u \in Seq(Entry) /\ Len(u) = Len(s) + Len(t) /\ Len(s) \in Nat /\ Len(t) \in Nat
      /\ DOMAIN s = 1..Len(s) /\ DOMAIN t = 1..Len(t) /\ DOMAIN u = 1..Len(u)
      /\ \A i \in 1..Len(s) : u[i] = s[i]
      /\ \A i \in 1..Len(t) : u[Len(s) + i] = t[i]
  OBVIOUS
<1> HIDE DEF u
<1>2. \A i \in DOMAIN u : i \in DOMAIN s \/ (i - Len(s) \in DOMAIN t /\ i = Len(s) + (i - Len(s)))
  BY <1>1
<1>3. Range(u) = Range(s) \cup Range(t)
  <2>1. Range(u) \subseteq Range(s) \cup Range(t)
    <3> SUFFICES ASSUME NEW i \in DOMAIN u PROVE u[i] \in Range(s) \cup Range(t)
      BY DEF Range
    <3> QED BY <1>1, <1>2 DEF Range
  <2>2. \A i \in DOMAIN s : s[i] \in Range(u)
    BY <1>1 DEF Range
  <2>3. \A i \in DOMAIN t : t[i] \in Range(u)
    <3> TAKE i \in DOMAIN t
    <3>1. Len(s) + i \in DOMAIN u /\ u[Len(s) + i] = t[i]
      BY <1>1
    <3> QED BY <3>1 DEF Range
  <2> QED BY <2>1, <2>2, <2>3, Zenon DEF Range
<1>4. ASSUME Once(s), Once(t), \A x \in Range(s), y \in Range(t) : ~SameEntry(x, y) /\ ~SameEntry(y, x)
      PROVE  Once(u)
  <2> SUFFICES ASSUME NEW i \in DOMAIN u, NEW k \in DOMAIN u, SameEntry(u[i], u[k]) PROVE i = k
    BY DEF Once
  <2>0. \A p \in DOMAIN s, q \in DOMAIN t : ~SameEntry(s[p], t[q]) /\ ~SameEntry(t[q], s[p])
    BY <1>4 DEF Range
  <2>1. CASE i \in DOMAIN s /\ k \in DOMAIN s
    BY <1>1, <1>4, <2>1 DEF Once
  <2>2. CASE i \in DOMAIN s /\ k \notin DOMAIN s
    BY <1>1, <1>2, <2>0, <2>2
  <2>3. CASE i \notin DOMAIN s /\ k \in DOMAIN s
    BY <1>1, <1>2, <2>0, <2>3
  <2>4. CASE i \notin DOMAIN s /\ k \notin DOMAIN s
    <3>1. i - Len(s) \in DOMAIN t /\ k - Len(s) \in DOMAIN t /\ u[i] = t[i - Len(s)] /\ u[k] = t[k - Len(s)]
      BY <1>1, <1>2, <2>4
    <3>2. i - Len(s) = k - Len(s)
      BY <1>4, <3>1 DEF Once
    <3> QED BY <1>1, <3>2
  <2> QED BY <2>1, <2>2, <2>3, <2>4
<1> QED BY <1>1, <1>3, <1>4 DEF u

\* The stream without its oldest entry.
LEMMA Delivered ==
    ASSUME NEW s \in Seq(Entry), s # << >>
    PROVE  /\ Head(s) \in Entry /\ Tail(s) \in Seq(Entry)
           /\ Range(s) = Range(Tail(s)) \cup {Head(s)}
           /\ Once(s) => /\ Once(Tail(s))
                         /\ \A x \in Range(Tail(s)) : ~SameEntry(x, Head(s)) /\ ~SameEntry(Head(s), x)
<1> DEFINE t == Tail(s)
<1>1. /\ Head(s) \in Entry /\ t \in Seq(Entry) /\ Len(t) = Len(s) - 1 /\ Head(s) = s[1]
      /\ Len(s) \in Nat \ {0} /\ DOMAIN s = 1..Len(s) /\ DOMAIN t = 1..Len(t)
      /\ \A i \in 1..Len(t) : t[i] = s[i + 1]
  OBVIOUS
<1> HIDE DEF t
<1>2. Range(s) = Range(t) \cup {Head(s)}
  <2>1. ASSUME NEW i \in DOMAIN s PROVE s[i] \in Range(t) \cup {Head(s)}
    <3>1. i = 1 \/ (i - 1 \in DOMAIN t /\ t[i - 1] = s[i])
      BY <1>1
    <3> QED BY <1>1, <3>1 DEF Range
  <2>2. Range(t) \cup {Head(s)} \subseteq Range(s)
    BY <1>1 DEF Range
  <2> QED BY <2>1, <2>2 DEF Range
<1>3. ASSUME Once(s)
      PROVE  Once(t) /\ \A x \in Range(t) : ~SameEntry(x, Head(s)) /\ ~SameEntry(Head(s), x)
  <2>1. \A i, k \in DOMAIN t : SameEntry(t[i], t[k]) => i + 1 = k + 1
    BY <1>1, <1>3 DEF Once
  <2>2. \A i \in DOMAIN t : ~SameEntry(t[i], s[1]) /\ ~SameEntry(s[1], t[i])
    <3> TAKE i \in DOMAIN t
    <3>1. i + 1 \in DOMAIN s /\ 1 \in DOMAIN s /\ t[i] = s[i + 1] /\ i + 1 # 1
      BY <1>1
    <3> QED BY <1>3, <3>1 DEF Once
  <2> QED BY <1>1, <2>1, <2>2 DEF Once, Range
<1> QED BY <1>1, <1>2, <1>3 DEF t

\* The four things XADD may do.
Nothing(e, out) == out = <<<< >>, FALSE>>
Single(e, out) == out = <<<<e>>, TRUE>>
Silent(e, out) == out = <<<<e>>, FALSE>> /\ e.id \notin unsure
Doubled(e, out) == out = <<<<e, [e EXCEPT !.copy = 1]>>, TRUE>> /\ e.id \notin unsure

\* XADD does one of the four, and leaves its caller in doubt only with the last
\* two: the reply was lost, or the client resent the command.
LEMMA XAddOutcomes ==
    ASSUME NEW e \in Entry, NEW over \in BOOLEAN, NEW out \in XAdd(e, over)
    PROVE  /\ Nothing(e, out) \/ Single(e, out) \/ Silent(e, out) \/ Doubled(e, out)
           /\ Nothing(e, out) \/ Single(e, out) => ~Unsure(out)
           /\ Silent(e, out) \/ Doubled(e, out) => Unsure(out)
<1>1. Nothing(e, out) \/ Single(e, out) \/ Silent(e, out) \/ Doubled(e, out)
  <2>1. CASE out \in {<<IF ok THEN <<e>> ELSE << >>, ok>> : ok \in Outcome("add", over)}
    <3>1. PICK ok \in Outcome("add", over) : out = <<IF ok THEN <<e>> ELSE << >>, ok>>
      BY <2>1
    <3>2. ok \in BOOLEAN
      BY Zenon DEF Outcome
    <3>3. CASE ok = TRUE
      BY <3>1, <3>3 DEF Single
    <3>4. CASE ok = FALSE
      BY <3>1, <3>4, Zenon DEF Nothing
    <3> QED BY <3>2, <3>3, <3>4, Zenon
  <2>2. CASE out = <<<<e>>, FALSE>> /\ e.id \notin unsure
    BY <2>2 DEF Silent
  <2>3. CASE out = <<<<e, [e EXCEPT !.copy = 1]>>, TRUE>> /\ e.id \notin unsure
    BY <2>3 DEF Doubled
  <2> QED BY <2>1, <2>2, <2>3, Zenon DEF XAdd
<1>2. ASSUME Nothing(e, out) PROVE ~Unsure(out)
  <2>1. Len(out[1]) = 0 /\ ~out[2]
    BY <1>2 DEF Nothing
  <2> QED BY <2>1 DEF Unsure
<1>3. ASSUME Single(e, out) PROVE ~Unsure(out)
  <2>1. Len(out[1]) = 1 /\ out[2]
    BY <1>3 DEF Single
  <2> QED BY <2>1 DEF Unsure
<1>4. ASSUME Silent(e, out) PROVE Unsure(out)
  <2>1. Len(out[1]) = 1 /\ ~out[2]
    BY <1>4 DEF Silent
  <2> QED BY <2>1 DEF Unsure
<1>5. ASSUME Doubled(e, out) PROVE Unsure(out)
  <2>1. Len(out[1]) = 2
    BY <1>5 DEF Doubled
  <2> QED BY <2>1 DEF Unsure
<1> QED BY <1>1, <1>2, <1>3, <1>4, <1>5

\* What XADD writes is a sequence of entries for the job, none of them twice.
LEMMA XAddWrites ==
    ASSUME NEW e \in Entry, NEW out, \/ Nothing(e, out) \/ Single(e, out) \/ Silent(e, out)
                                     \/ Doubled(e, out) /\ e.copy = 0
    PROVE  /\ out[1] \in Seq(Entry) /\ Once(out[1]) /\ out[2] \in BOOLEAN
           /\ Nothing(e, out) => Range(out[1]) = {} /\ out[1] = << >> /\ out[2] = FALSE
           /\ Single(e, out) => Range(out[1]) = {e} /\ out[1] # << >> /\ out[2] = TRUE
           /\ Silent(e, out) => Range(out[1]) = {e} /\ out[1] # << >> /\ out[2] = FALSE
           /\ Doubled(e, out) => /\ Range(out[1]) = {e, [e EXCEPT !.copy = 1]}
                                 /\ out[1] # << >> /\ out[2] = TRUE
<1>1. CASE Nothing(e, out)
  BY <1>1 DEF Nothing, Single, Silent, Doubled, Once, Range
<1>2. CASE Single(e, out)
  BY <1>2 DEF Nothing, Single, Silent, Doubled, Once, Range
<1>3. CASE Silent(e, out)
  BY <1>3 DEF Nothing, Single, Silent, Doubled, Once, Range
<1>4. CASE Doubled(e, out) /\ e.copy = 0
  <2> DEFINE f == [e EXCEPT !.copy = 1]
             t == <<e, f>>
  <2>1. f \in Entry /\ f.copy = 1 /\ out = <<t, TRUE>>
    BY <1>4, EntryFields DEF Doubled
  <2> HIDE DEF f
  <2>2. t \in Seq(Entry) /\ DOMAIN t = {1, 2} /\ t[1] = e /\ t[2] = f
    BY <2>1
  <2> HIDE DEF t
  <2>3. Range(t) = {e, f} /\ Once(t)
    BY <1>4, <2>1, <2>2 DEF Range, Once, SameEntry
  <2>4. out[1] = t /\ out[2] = TRUE
    BY <2>1
  <2>6. t # << >>
    BY <2>2
  <2>5. ~Nothing(e, out) /\ ~Single(e, out) /\ ~Silent(e, out)
    BY <2>1, <2>2 DEF Nothing, Single, Silent
  <2> QED BY <2>2, <2>3, <2>4, <2>5, <2>6, Zenon DEF f
<1> QED BY <1>1, <1>2, <1>3, <1>4, Zenon

-----------------------------------------------------------------------------
(* Facts about the invariant.                                               *)

\* The two halves of NoJobTwice: of entries, and of jobs.
Separate ==
    /\ Once(stream)
    /\ \A v, w \in InFlight : SameEntry(held[v], held[w]) => v = w
    /\ \A x \in Range(stream), w \in InFlight : ~SameEntry(x, held[w])

Apart ==
    /\ Queued \cap (Held \cup Over) \subseteq unsure
    /\ Held \cap Over \subseteq unsure
    /\ done \cap (Buried \cup LostJobs) \subseteq unsure

\* The two halves of NoJobTwice, which the steps are shown to keep one by one.
LEMMA Halves == (NoJobTwice <=> Separate /\ Apart) /\ (NoJobTwice' <=> Separate' /\ Apart')
BY DEF NoJobTwice, Separate, Apart, Once, Over, Range

\* A worker's token and its pending entry are versions of what it holds.
LEMMA TokenFields ==
    ASSUME NEW w \in InFlight, held[w] \in Entry, pc[w] # "picked" => held[w].attempts \in Nat \ {0}
    PROVE  /\ Token(w) \in Entry /\ Token(w).id = held[w].id /\ Token(w).copy = held[w].copy
           /\ Given(w) \in Entry /\ Given(w).id = held[w].id /\ Given(w).copy = held[w].copy
           /\ pc[w] = "picked" => Token(w).attempts = held[w].attempts
           /\ pc[w] # "picked" => Token(w).attempts = held[w].attempts + 1
           /\ SameEntry(Token(w), Given(w)) /\ Token(w) \in Tokens
<1> DEFINE n == held[w].attempts
<1>1. n \in Nat
  BY EntryFields, Zenon
<1>2. Token(w) \in Tokens
  BY DEF Tokens
<1>3. CASE pc[w] = "picked"
  BY <1>1, <1>2, <1>3 DEF Token, Given, SameEntry
<1>4. CASE pc[w] # "picked"
  <2>1. n + 1 \in Nat /\ n - 1 \in Nat
    BY <1>1, <1>4
  <2>2. Token(w) = [held[w] EXCEPT !.attempts = n + 1] /\ Given(w) = [held[w] EXCEPT !.attempts = n - 1]
    BY <1>4 DEF Token, Given, Pending
  <2>3. Token(w) \in Entry /\ Token(w).id = held[w].id /\ Token(w).copy = held[w].copy /\ Token(w).attempts = n + 1
    BY <2>1, <2>2 DEF Entry
  <2>4. Given(w) \in Entry /\ Given(w).id = held[w].id /\ Given(w).copy = held[w].copy
    BY <2>1, <2>2 DEF Entry
  <2> QED BY <1>2, <1>4, <2>3, <2>4 DEF SameEntry
<1> QED BY <1>3, <1>4

\* The tokens are entries, and have the ids and copies of the stream's entries
\* and of what the workers hold.
LEMMA TokensTyped ==
    ASSUME TypeOK, Handed
    PROVE  /\ Tokens \subseteq Entry
           /\ \A t \in Tokens : \/ t \in Range(stream)
                                \/ \E w \in InFlight : t = Token(w) /\ SameEntry(t, held[w])
           /\ Range(stream) \subseteq Entry
<1>1. Range(stream) \subseteq Entry
  BY RangeOfSeq DEF TypeOK
<1>2. \A w \in InFlight : Token(w) \in Entry /\ SameEntry(Token(w), held[w])
  BY TokenFields DEF Handed, SameEntry
<1> QED BY <1>1, <1>2 DEF Tokens

\* A worker that was in the middle of a job and still is keeps its token.
LEMMA TokenKept ==
    ASSUME NEW w, held'[w] = held[w], pc'[w] = pc[w]
    PROVE  Token(w)' = Token(w) /\ Given(w)' = Given(w)
BY DEF Token, Given, Pending

\* The counts of a job hold as long as no token is added.
LEMMA TriedKept ==
    ASSUME TypeOK, \A j \in Jobs : Tried(j), Tokens' \subseteq Tokens, runs' = runs,
           unsure \subseteq unsure', accepted \subseteq accepted'
    PROVE  \A j \in Jobs : Tried(j)'
<1> TAKE j \in Jobs
<1>1. PICK a \in 0..Budget, b \in 0..Budget :
        /\ runs[j] <= a + b
        /\ j \notin unsure => b = 0
        /\ j \notin accepted \cup unsure => a = 0
        /\ \A t \in Tokens : t.id = j => 2 * (IF t.copy = 0 THEN a ELSE b) <= t.attempts
  BY DEF Tried
<1>2. /\ runs'[j] <= a + b
      /\ j \notin unsure' => b = 0
      /\ j \notin accepted' \cup unsure' => a = 0
      /\ \A t \in Tokens' : t.id = j => 2 * (IF t.copy = 0 THEN a ELSE b) <= t.attempts
  BY <1>1
<1>3. Budget' = Budget
  BY DEF Budget
<1> QED BY <1>2, <1>3 DEF Tried

\* A spare pending entry stays one while no token is added and only entries
\* that stand for tokens are acknowledged.
LEMMA SpareKept ==
    ASSUME NEW j, Spare(j), Tokens' \subseteq Tokens,
           \A e \in pel \ pel' : \E t \in Tokens : SameEntry(t, e)
    PROVE  Spare(j)'
BY DEF Spare

\* What giving up a job adds to the history.
LEMMA GivenUp ==
    ASSUME NEW j, NEW why, lost' = lost \cup {<<j, why>>}
    PROVE  /\ LostJobs' = LostJobs \cup {j}
           /\ Stranded' = IF why = "stranded" THEN Stranded \cup {j} ELSE Stranded
<1>1. PICK l : l = <<j, why>>
  BY Zenon
<1>2. l[1] = j /\ l[2] = why /\ lost' = lost \cup {l}
  BY <1>1
<1> QED BY <1>2 DEF LostJobs, Stranded

\* A step that moves no entry keeps the invariant.
LEMMA QuietStep ==
    ASSUME RedisInv, TypeOK', UNCHANGED <<stream, pel, deadVars, held, accepted, done, runs, lost, unsure>>,
           InFlight' = InFlight, \A w \in InFlight : pc'[w] = pc[w]
    PROVE  RedisInv'
<1> USE DEF deadVars
<1>1. \A w \in InFlight : Token(w)' = Token(w) /\ Given(w)' = Given(w)
  BY TokenKept
<1>2. Tokens' = Tokens
  BY <1>1 DEF Tokens
<1>3. Queued' = Queued /\ Held' = Held /\ Over' = Over /\ Buried' = Buried /\ LostJobs' = LostJobs /\ Stranded' = Stranded
  BY DEF Queued, Held, Over, Buried, LostJobs, Stranded
<1>4. Handed'
  BY <1>1 DEF RedisInv, Handed
<1>5. Known'
  BY <1>2, <1>3 DEF RedisInv, Known
<1>6. NoJobTwice'
  BY <1>3 DEF RedisInv, NoJobTwice, Over
<1>7. Claimable'
  BY <1>2, <1>3 DEF RedisInv, Claimable, Spare
<1>8. Counted'
  <2>1. \A j \in Jobs : Tried(j)'
    BY <1>2, TriedKept DEF RedisInv, Counted
  <2> QED BY <1>2, <1>3, <2>1 DEF RedisInv, Counted, Budget
<1> QED BY <1>4, <1>5, <1>6, <1>7, <1>8 DEF RedisInv

\* One of two different entries of a job is the second of a resent XADD.
LEMMA TwoEntries ==
    ASSUME RedisInv, NEW x \in Entry, NEW y \in Entry, x.id = y.id, ~SameEntry(x, y),
           x.copy = 1 => x.id \in unsure, y.copy = 1 => y.id \in unsure
    PROVE  x.id \in unsure
BY EntryFields, Zenon DEF SameEntry

\* The copies of what lies in the stream and in the workers' hands.
LEMMA CopiesKnown ==
    ASSUME RedisInv
    PROVE  /\ \A x \in Range(stream) : x \in Entry /\ x.id \in accepted \cup unsure /\ (x.copy = 1 => x.id \in unsure)
           /\ \A w \in InFlight : /\ held[w] \in Entry /\ held[w].id \in accepted \cup unsure
                                  /\ held[w].copy = 1 => held[w].id \in unsure
           /\ \A e \in pel : e \in Entry /\ e.id \in accepted \cup unsure /\ (e.copy = 1 => e.id \in unsure)
<1>1. Range(stream) \subseteq Entry /\ Range(stream) \subseteq Tokens /\ pel \subseteq Entry
  BY TokensTyped DEF RedisInv, Tokens, TypeOK
<1>2. \A w \in InFlight : /\ held[w] \in Entry /\ Token(w) \in Tokens
                          /\ Token(w).id = held[w].id /\ Token(w).copy = held[w].copy
  BY TokenFields DEF RedisInv, Handed
<1> QED BY <1>1, <1>2 DEF RedisInv, Known

-----------------------------------------------------------------------------
(* The steps of a worker.                                                   *)

\* The delivered entry passes from the stream to the worker, or, if the reply
\* is lost, stays behind as a pending entry.
LEMMA InvDequeue ==
    ASSUME RedisInv, TypeOK', NEW w \in Workers, Dequeue(w)
    PROVE  RedisInv'
<1> USE DEF deadVars
<1>h. PICK h : h = Head(stream)
  OBVIOUS
<1>0. /\ stream \in Seq(Entry) /\ stream # << >> /\ stream' = Tail(stream) /\ pel' = pel \cup {h}
      /\ pc \in [Workers -> {"loop", "dequeue", "picked", "handling", "requeue", "late", "exited"}]
      /\ held \in [Workers -> Entry \cup {NoEntry}] /\ pc[w] = "dequeue" /\ w \notin InFlight
      /\ UNCHANGED <<deadVars, accepted, done, runs, unsure>>
  BY <1>h DEF RedisInv, TypeOK, Dequeue, Undelivered, InFlight
<1>1. Separate /\ Apart
  BY Halves DEF RedisInv
<1>2. /\ h \in Entry /\ stream' \in Seq(Entry) /\ Range(stream) = Range(stream') \cup {h} /\ Once(stream')
      /\ \A x \in Range(stream') : ~SameEntry(x, h) /\ ~SameEntry(h, x)
  BY <1>0, <1>1, <1>h, Delivered DEF Separate
<1>3. h \in Tokens /\ h.id \in Queued /\ Queued = Queued' \cup {h.id}
  BY <1>2 DEF Tokens, Queued
<1>4. \A v \in InFlight : ~SameEntry(h, held[v]) /\ ~SameEntry(held[v], h)
  BY <1>1, <1>2 DEF Separate, SameEntry
<1>5. CASE pc' = [pc EXCEPT ![w] = "picked"] /\ held' = [held EXCEPT ![w] = h] /\ lost' = lost
  <2>1. /\ InFlight' = InFlight \cup {w} /\ pc'[w] = "picked" /\ held'[w] = h
        /\ \A v \in InFlight : pc'[v] = pc[v] /\ held'[v] = held[v]
    BY <1>0, <1>5 DEF InFlight
  <2>2. /\ Token(w)' = h /\ Given(w)' = h
        /\ \A v \in InFlight : Token(v)' = Token(v) /\ Given(v)' = Given(v)
    BY <2>1, TokenKept DEF Token, Given
  <2>3. Tokens' = Tokens
    BY <1>2, <2>1, <2>2 DEF Tokens
  <2>4. /\ Held' = Held \cup {h.id} /\ Over' = Over /\ Buried' = Buried
        /\ LostJobs' = LostJobs /\ Stranded' = Stranded
    BY <1>0, <1>5, <2>1 DEF Held, Over, Buried, LostJobs, Stranded
  <2>5. Handed'
    BY <1>0, <1>2, <2>1, <2>2 DEF RedisInv, Handed
  <2>6. Known'
    BY <1>0, <1>3, <2>3, <2>4 DEF RedisInv, Known
  <2>7. Separate'
    BY <1>1, <1>2, <1>4, <2>1 DEF Separate
  <2>8. h.id \in Queued' => h.id \in unsure
    <3> SUFFICES ASSUME NEW x \in Range(stream'), x.id = h.id PROVE h.id \in unsure
      BY DEF Queued
    <3> QED BY <1>2, CopiesKnown, TwoEntries
  <2>9. Apart'
    BY <1>0, <1>1, <1>3, <2>4, <2>8 DEF Apart
  <2>10. Claimable'
    <3>1. \A j : Spare(j) => Spare(j)'
      BY <1>0, <2>3, SpareKept
    <3> QED BY <1>0, <2>4, <3>1 DEF RedisInv, Claimable
  <2>11. Counted'
    <3>1. \A j \in Jobs : Tried(j)'
      BY <1>0, <2>3, TriedKept DEF RedisInv, Counted
    <3>2. h.attempts <= MaxRetries
      BY <1>2 DEF RedisInv, Counted
    <3> QED BY <1>0, <1>2, <2>1, <2>3, <2>4, <3>1, <3>2 DEF RedisInv, Counted, Budget
  <2> QED BY <2>5, <2>6, <2>7, <2>9, <2>10, <2>11, Halves DEF RedisInv
<1>6. CASE pc' = [pc EXCEPT ![w] = "exited"] /\ held' = held /\ lost' = lost \cup {<<h.id, "stranded">>}
  <2>1. /\ InFlight' = InFlight /\ \A v \in InFlight : pc'[v] = pc[v] /\ held'[v] = held[v]
    BY <1>0, <1>6 DEF InFlight
  <2>2. \A v \in InFlight : Token(v)' = Token(v) /\ Given(v)' = Given(v)
    BY <2>1, TokenKept
  <2>3. Tokens' \subseteq Tokens
    BY <1>2, <2>1, <2>2 DEF Tokens
  <2>4. /\ Held' = Held /\ Over' = Over \cup {h.id} /\ Buried' = Buried
        /\ LostJobs' = LostJobs \cup {h.id} /\ Stranded' = Stranded \cup {h.id}
    <3>1. LostJobs' = LostJobs \cup {h.id} /\ Stranded' = Stranded \cup {h.id}
      BY <1>6, GivenUp
    <3> QED BY <1>0, <2>1, <3>1 DEF Held, Over, Buried
  <2>5. Handed'
    BY <1>0, <2>1, <2>2 DEF RedisInv, Handed
  <2>6. Known'
    BY <1>0, <1>3, <2>3, <2>4 DEF RedisInv, Known
  <2>7. Separate'
    BY <1>1, <1>2, <2>1 DEF Separate
  <2>8. h.id \in Queued' => h.id \in unsure
    <3> SUFFICES ASSUME NEW x \in Range(stream'), x.id = h.id PROVE h.id \in unsure
      BY DEF Queued
    <3> QED BY <1>2, CopiesKnown, TwoEntries
  <2>9. Apart'
    BY <1>0, <1>1, <1>3, <2>4, <2>8 DEF Apart, Over
  <2>10. Claimable'
    <3>1. \A j : Spare(j) => Spare(j)'
      BY <1>0, <2>3, SpareKept
    <3>2. \A t \in Tokens' : ~SameEntry(t, h)
      <4> TAKE t \in Tokens'
      <4>1. CASE t \in Range(stream')
        BY <1>2, <4>1
      <4>2. ASSUME NEW v \in InFlight, t = Token(v) PROVE ~SameEntry(t, h)
        <5>1. SameEntry(Token(v), held[v])
          BY TokenFields DEF RedisInv, Handed, SameEntry
        <5> QED BY <1>4, <4>2, <5>1 DEF SameEntry
      <4> QED BY <2>1, <2>2, <4>1, <4>2 DEF Tokens
    <3>3. Spare(h.id)'
      BY <1>0, <3>2 DEF Spare
    <3> QED BY <1>0, <2>4, <3>1, <3>3 DEF RedisInv, Claimable
  <2>11. Counted'
    <3>1. \A j \in Jobs : Tried(j)'
      BY <1>0, <2>3, TriedKept, Zenon DEF RedisInv, Counted
    <3> QED BY <1>0, <1>2, <2>1, <2>3, <2>4, <3>1, Zenon DEF RedisInv, Counted, Budget
  <2> QED BY <2>5, <2>6, <2>7, <2>9, <2>10, <2>11, Halves DEF RedisInv
<1> QED BY <1>5, <1>6, <1>h DEF Dequeue, Exit

\* The bound on a job's tries, in terms of MaxRetries.
LEMMA BudgetFacts == Budget \in Nat /\ 2 * Budget <= MaxRetries + 2 /\ MaxRetries + 1 <= 2 * Budget
BY RedisJobsAssumption DEF Budget

\* runJob counts one attempt in the history and one in the worker's job; Nack
\* would count another.
LEMMA InvRunJob ==
    ASSUME RedisInv, TypeOK', NEW w \in Workers, RunJob(w)
    PROVE  RedisInv'
<1> USE DEF deadVars
<1> DEFINE e == held[w]
           n == e.attempts
           f == [e EXCEPT !.attempts = n + 1]
<1>0. /\ pc \in [Workers -> {"loop", "dequeue", "picked", "handling", "requeue", "late", "exited"}] /\ runs \in [Jobs -> Nat]
      /\ held \in [Workers -> Entry \cup {NoEntry}] /\ pc[w] = "picked" /\ w \in InFlight
      /\ UNCHANGED <<stream, pel, deadVars, accepted, done, lost, unsure>>
      /\ held' = [held EXCEPT ![w] = f] /\ runs' = [runs EXCEPT ![e.id] = @ + 1]
      /\ pc' = [pc EXCEPT ![w] = "handling"]
  BY DEF RedisInv, TypeOK, RunJob, InFlight
<1>1. /\ e \in Entry /\ e.id \in Jobs /\ n \in Nat /\ e \in pel /\ e \in Tokens
      /\ Token(w) = e /\ n <= MaxRetries
  <2>1. Token(w) = e /\ Given(w) = e
    BY <1>0 DEF Token, Given
  <2>2. e \in Entry /\ e \in pel /\ n <= MaxRetries
    BY <1>0, <2>1 DEF RedisInv, Handed, Counted
  <2>3. e.id \in Jobs /\ n \in Nat
    BY <2>2 DEF Entry
  <2> QED BY <1>0, <2>1, <2>2, <2>3 DEF Tokens
<1>2. f \in Entry /\ f.id = e.id /\ f.copy = e.copy /\ f.attempts = n + 1
  BY <1>1 DEF Entry
<1>3. /\ InFlight' = InFlight /\ held'[w] = f /\ pc'[w] = "handling"
      /\ \A v \in InFlight \ {w} : pc'[v] = pc[v] /\ held'[v] = held[v]
  BY <1>0 DEF InFlight
<1>4. \A v \in InFlight \ {w} : Token(v)' = Token(v) /\ Given(v)' = Given(v)
  BY <1>3, TokenKept
<1>5. Given(w)' = e
  <2>1. Given(w)' = [f EXCEPT !.attempts = n]
    <3>1. f.attempts - 1 = n
      BY <1>1, <1>2
    <3> HIDE DEF f, n
    <3>2. Given(w)' = [f EXCEPT !.attempts = f.attempts - 1]
      BY <1>3 DEF Given, Pending
    <3> QED BY <3>1, <3>2
  <2>2. e = [id |-> e.id, attempts |-> n, copy |-> e.copy]
    BY <1>1 DEF Entry
  <2>3. f = [id |-> e.id, attempts |-> n + 1, copy |-> e.copy]
    BY <2>2
  <2> HIDE DEF e, n, f
  <2>4. [f EXCEPT !.attempts = n] = [id |-> e.id, attempts |-> n, copy |-> e.copy]
    BY <2>3
  <2> QED BY <2>1, <2>2, <2>4
<1>6. /\ Token(w)'.id = e.id /\ Token(w)'.copy = e.copy /\ Token(w)'.attempts = n + 2
  <2>1. Token(w)' = [f EXCEPT !.attempts = (n + 1) + 1]
    BY <1>2, <1>3 DEF Token
  <2> QED BY <1>1, <2>1 DEF Entry
<1> HIDE DEF e, n, f
<1>7. \A v \in InFlight : held'[v].id = held[v].id /\ held'[v].copy = held[v].copy
  BY <1>2, <1>3 DEF e
<1>8. /\ Queued' = Queued /\ Held' = Held /\ Over' = Over /\ Buried' = Buried
      /\ LostJobs' = LostJobs /\ Stranded' = Stranded
  BY <1>0, <1>3, <1>7 DEF Queued, Held, Over, Buried, LostJobs, Stranded
<1>9. \A t \in Tokens' : \E u \in Tokens : t.id = u.id /\ t.copy = u.copy
  BY <1>0, <1>1, <1>3, <1>4, <1>6 DEF Tokens
<1>10. Handed'
  <2>1. ASSUME NEW v \in InFlight \ {w} PROVE (held[v] \in Entry /\ (pc[v] # "picked" => held[v].attempts \in Nat \ {0}) /\ (pc[v] \in {"picked", "handling"} => Given(v) \in pel))'
    BY <1>0, <1>3, <1>4 DEF RedisInv, Handed
  <2>2. held'[w] \in Entry /\ held'[w].attempts \in Nat \ {0} /\ Given(w)' \in pel'
    BY <1>0, <1>1, <1>2, <1>3, <1>5
  <2> QED BY <1>3, <2>1, <2>2 DEF Handed
<1>11. Known'
  BY <1>0, <1>8, <1>9 DEF RedisInv, Known
<1>12. NoJobTwice'
  <2>1. Separate /\ Apart
    BY Halves DEF RedisInv
  <2>2. \A x : \A v \in InFlight : SameEntry(x, held'[v]) <=> SameEntry(x, held[v])
    BY <1>7 DEF SameEntry
  <2>3. \A u, v \in InFlight : SameEntry(held'[u], held'[v]) <=> SameEntry(held[u], held[v])
    BY <1>7 DEF SameEntry
  <2>4. Separate'
    BY <1>0, <1>3, <2>1, <2>2, <2>3, Zenon DEF Separate
  <2>5. Apart'
    BY <1>0, <1>8, <2>1 DEF Apart
  <2> QED BY <2>4, <2>5, Halves
<1>13. Claimable'
  <2>1. \A j : Spare(j) => Spare(j)'
    BY <1>0, <1>9 DEF Spare, SameEntry
  <2> QED BY <1>0, <1>8, <2>1 DEF RedisInv, Claimable
<1>14. runs'[e.id] = runs[e.id] + 1 /\ \A j \in Jobs \ {e.id} : runs'[j] = runs[j]
  BY <1>0, <1>1
<1>15. \A t \in Tokens : (t.id = e.id /\ t.copy = e.copy) => t = e
  <2>1. Separate
    BY Halves DEF RedisInv
  <2>2. \A x \in Range(stream) : ~SameEntry(x, e)
    BY <1>0, <2>1 DEF Separate, e
  <2>3. ASSUME NEW v \in InFlight, SameEntry(Token(v), e) PROVE v = w
    <3>1. SameEntry(held[v], held[w])
      BY <2>3, TokenFields DEF RedisInv, Handed, SameEntry, e
    <3> QED BY <1>0, <2>1, <3>1 DEF Separate
  <2> QED BY <1>1, <2>2, <2>3 DEF Tokens, SameEntry
<1>16. \A t \in Tokens' : \/ t.id = e.id /\ t.copy = e.copy /\ t.attempts = n + 2
                          \/ t \in Tokens /\ ~(t.id = e.id /\ t.copy = e.copy)
  <2> TAKE t \in Tokens'
  <2>1. CASE t = Token(w)'
    BY <1>6, <2>1
  <2>2. CASE t # Token(w)'
    <3>1. t \in Range(stream) \/ \E v \in InFlight \ {w} : t = Token(v)
      BY <1>0, <1>3, <1>4, <2>2 DEF Tokens
    <3>2. t \in Tokens
      BY <3>1 DEF Tokens
    <3>3. ~SameEntry(t, e)
      <4>1. Separate
        BY Halves DEF RedisInv
      <4>2. ASSUME NEW v \in InFlight \ {w}, t = Token(v) PROVE ~SameEntry(t, e)
        <5>1. SameEntry(Token(v), held[v])
          BY TokenFields DEF RedisInv, Handed, SameEntry
        <5> QED BY <1>0, <4>1, <4>2, <5>1 DEF Separate, SameEntry, e
      <4> QED BY <1>0, <3>1, <4>1, <4>2 DEF Separate, e
    <3> QED BY <3>2, <3>3 DEF SameEntry
  <2> QED BY <2>1, <2>2
<1>17. \A j \in Jobs : Tried(j)'
  <2> SUFFICES ASSUME NEW j \in Jobs PROVE Tried(j)'
    OBVIOUS
  <2>1. PICK a \in 0..Budget, b \in 0..Budget :
          /\ runs[j] <= a + b
          /\ j \notin unsure => b = 0
          /\ j \notin accepted \cup unsure => a = 0
          /\ \A t \in Tokens : t.id = j => 2 * (IF t.copy = 0 THEN a ELSE b) <= t.attempts
    BY DEF RedisInv, Counted, Tried
  <2>2. Budget \in Nat /\ 2 * Budget <= MaxRetries + 2 /\ MaxRetries + 1 <= 2 * Budget /\ MaxRetries \in Nat
    BY BudgetFacts, RedisJobsAssumption
  <2>3. runs[j] \in Nat /\ Budget' = Budget
    BY <1>0 DEF Budget
  <2>4. CASE j # e.id
    <3>1. /\ runs'[j] <= a + b
          /\ j \notin unsure' => b = 0
          /\ j \notin accepted' \cup unsure' => a = 0
          /\ \A t \in Tokens' : t.id = j => 2 * (IF t.copy = 0 THEN a ELSE b) <= t.attempts
      BY <1>0, <1>14, <1>16, <2>1, <2>4
    <3> QED BY <2>3, <3>1 DEF Tried
  <2>5. CASE j = e.id /\ e.copy = 0
    <3>1. 2 * a <= n
      BY <1>1, <2>1, <2>5 DEF n
    <3>2. a + 1 \in 0..Budget
      BY <1>1, <2>2, <3>1
    <3>3. j \in accepted \cup unsure
      BY <1>1, <2>5 DEF RedisInv, Known
    <3>4. \A t \in Tokens' : t.id = j => 2 * (IF t.copy = 0 THEN a + 1 ELSE b) <= t.attempts
      <4> SUFFICES ASSUME NEW t \in Tokens', t.id = j PROVE 2 * (IF t.copy = 0 THEN a + 1 ELSE b) <= t.attempts
        OBVIOUS
      <4>1. CASE t.copy = 0
        BY <1>1, <1>16, <2>5, <3>1, <4>1
      <4>2. CASE t.copy # 0
        BY <1>16, <2>1, <2>5, <4>2
      <4> QED BY <4>1, <4>2
    <3>5. runs'[j] <= (a + 1) + b
      BY <1>14, <2>1, <2>3, <2>5
    <3> QED BY <1>0, <2>1, <2>3, <3>2, <3>3, <3>4, <3>5 DEF Tried
  <2>6. CASE j = e.id /\ e.copy = 1
    <3>1. 2 * b <= n
      BY <1>1, <2>1, <2>6 DEF n
    <3>2. b + 1 \in 0..Budget
      BY <1>1, <2>2, <3>1
    <3>3. j \in unsure
      BY <1>1, <2>6 DEF RedisInv, Known
    <3>4. \A t \in Tokens' : t.id = j => 2 * (IF t.copy = 0 THEN a ELSE b + 1) <= t.attempts
      <4> SUFFICES ASSUME NEW t \in Tokens', t.id = j PROVE 2 * (IF t.copy = 0 THEN a ELSE b + 1) <= t.attempts
        OBVIOUS
      <4>1. CASE t.copy = 0
        BY <1>16, <2>1, <2>6, <4>1
      <4>2. CASE t.copy # 0
        <5>1. t \in Tokens => t.copy = 1
          BY <4>2, TokensTyped, EntryFields, Zenon DEF RedisInv
        <5> QED BY <1>1, <1>16, <2>6, <3>1, <5>1
      <4> QED BY <4>1, <4>2
    <3>5. runs'[j] <= a + (b + 1)
      BY <1>14, <2>1, <2>3, <2>6
    <3> QED BY <1>0, <2>1, <2>3, <3>2, <3>3, <3>4, <3>5 DEF Tried
  <2> QED BY <1>1, <2>4, <2>5, <2>6, EntryFields, Zenon
<1>18. Counted'
  <2>1. \A t \in Tokens' : Even(t.attempts)
    <3> TAKE t \in Tokens'
    <3>1. CASE t.id = e.id /\ t.copy = e.copy /\ t.attempts = n + 2
      <4>1. PICK k \in Nat : n = 2 * k
        BY <1>1 DEF RedisInv, Counted, Even, n
      <4>2. k + 1 \in Nat /\ n + 2 = 2 * (k + 1)
        BY <4>1
      <4> QED BY <3>1, <4>2, Zenon DEF Even
    <3>2. CASE t \in Tokens /\ ~(t.id = e.id /\ t.copy = e.copy)
      BY <3>2, Zenon DEF RedisInv, Counted
    <3> QED BY <1>16, <3>1, <3>2
  <2>2. \A v \in InFlight' : pc'[v] # "handling" => held'[v].attempts <= MaxRetries
    BY <1>3 DEF RedisInv, Counted
  <2> QED BY <1>0, <1>17, <2>1, <2>2, Zenon DEF RedisInv, Counted
<1> QED BY <1>10, <1>11, <1>12, <1>13, <1>18 DEF RedisInv

\* A worker lets go of its job, which is over; its pending entry may have been
\* acknowledged.  What remains to be shown is what became of the job.
LEMMA LetGo ==
    ASSUME RedisInv, TypeOK', NEW w \in InFlight, Release(w),
           pel' \in {pel, pel \ {Given(w)}},
           UNCHANGED <<stream, accepted, runs>>, unsure' = unsure,
           Over' = Over \cup {held[w].id},
           done \subseteq done', done' \subseteq done \cup {held[w].id},
           Buried' \cup LostJobs' \subseteq Buried \cup LostJobs \cup {held[w].id},
           deadHere' \cup Stranded' \subseteq deadHere \cup Stranded \cup {held[w].id},
           (deadHere' \cup Stranded') # (deadHere \cup Stranded) => pel' = pel /\ Given(w) \in pel,
           held[w].id \in done' \ unsure => Buried' \cup LostJobs' = Buried \cup LostJobs
    PROVE  RedisInv'
<1>h. PICK i : i = held[w].id
  OBVIOUS
<1>0. /\ pc \in [Workers -> {"loop", "dequeue", "picked", "handling", "requeue", "late", "exited"}]
      /\ held \in [Workers -> Entry \cup {NoEntry}] /\ w \in Workers
  BY DEF RedisInv, TypeOK, InFlight
<1>1. Separate /\ Apart
  BY Halves, Zenon DEF RedisInv
<1>2. /\ InFlight' = InFlight \ {w}
      /\ \A v \in InFlight' : v \in InFlight /\ pc'[v] = pc[v] /\ held'[v] = held[v]
  BY <1>0 DEF InFlight, Release
<1>3. \A v \in InFlight' : Token(v)' = Token(v) /\ Given(v)' = Given(v)
  BY <1>2, TokenKept
<1>4. Tokens' \subseteq Tokens
  BY <1>2, <1>3, Zenon DEF Tokens
<1>5. Queued' = Queued /\ Held' \subseteq Held /\ Held = Held' \cup {i}
  BY <1>2, <1>h, Zenon DEF Queued, Held
<1>6. /\ Token(w) \in Tokens /\ Given(w) \in Entry /\ SameEntry(Token(w), Given(w)) /\ held[w] \in Entry
      /\ Given(w).id = i /\ SameEntry(Given(w), held[w])
  BY <1>h, TokenFields, Zenon DEF RedisInv, Handed, SameEntry
<1>7. i \in Held' => i \in unsure
  <2> SUFFICES ASSUME NEW v \in InFlight', held'[v].id = i PROVE i \in unsure
    BY Zenon DEF Held
  <2>1. v \in InFlight /\ v # w /\ held[v].id = i
    BY <1>2
  <2>2. ~SameEntry(held[v], held[w])
    BY <1>1, <2>1 DEF Separate
  <2> QED BY <1>h, <2>1, <2>2, CopiesKnown, TwoEntries, Zenon
<1>8. i \in Queued => i \in unsure
  <2> SUFFICES ASSUME NEW x \in Range(stream), x.id = i PROVE i \in unsure
    BY DEF Queued
  <2>1. ~SameEntry(x, held[w])
    BY <1>1 DEF Separate
  <2> QED BY <1>h, <2>1, CopiesKnown, TwoEntries, Zenon
<1>9. Handed'
  <2> SUFFICES ASSUME NEW v \in InFlight' PROVE (held[v] \in Entry /\ (pc[v] # "picked" => held[v].attempts \in Nat \ {0}) /\ (pc[v] \in {"picked", "handling"} => Given(v) \in pel))'
    BY Zenon DEF Handed
  <2>1. /\ v \in InFlight /\ v # w /\ held[v] \in Entry /\ (pc[v] \in {"picked", "handling"} => Given(v) \in pel)
        /\ (pc[v] # "picked" => held[v].attempts \in Nat \ {0}) /\ SameEntry(Given(v), held[v])
    BY <1>2, TokenFields, Zenon DEF RedisInv, Handed, SameEntry
  <2>2. Given(v) # Given(w)
    BY <1>1, <1>6, <2>1, Zenon DEF Separate, SameEntry
  <2> QED BY <1>2, <1>3, <2>1, <2>2, Zenon
<1>10. Known'
  BY <1>4, <1>5, <1>h, Zenon DEF RedisInv, Known
<1>11. Separate'
  BY <1>1, <1>2 DEF Separate
<1>12. Apart'
  BY <1>1, <1>5, <1>7, <1>8, <1>h DEF Apart, Over, Held
<1>13. Claimable'
  <2>1. \A j : Spare(j) => Spare(j)'
    BY <1>4, <1>6, SpareKept
  <2>2. pel' = pel /\ Given(w) \in pel => Spare(i)'
    <3>1. \A t \in Tokens' : ~SameEntry(t, Given(w))
      <4> TAKE t \in Tokens'
      <4>1. CASE t \in Range(stream)
        BY <1>1, <1>6, <4>1, Zenon DEF Separate, SameEntry
      <4>2. ASSUME NEW v \in InFlight', t = Token(v) PROVE ~SameEntry(t, Given(w))
        <5>1. v \in InFlight /\ v # w /\ SameEntry(Token(v), held[v])
          BY <1>2, TokenFields, Zenon DEF RedisInv, Handed, SameEntry
        <5> QED BY <1>1, <1>6, <4>2, <5>1, Zenon DEF Separate, SameEntry
      <4> QED BY <1>3, <4>1, <4>2 DEF Tokens
    <3> QED BY <1>6, <3>1, Zenon DEF Spare
  <2>3. \A j \in deadHere \cup Stranded : Spare(j)
    BY Zenon DEF RedisInv, Claimable
  <2>4. \A j \in deadHere' \cup Stranded' : j \in deadHere \cup Stranded \/ (j = i /\ pel' = pel /\ Given(w) \in pel)
    BY <1>h
  <2> QED BY <2>1, <2>2, <2>3, <2>4, Zenon DEF Claimable
<1>14. Counted'
  <2>1. \A j \in Jobs : Tried(j)'
    BY <1>4, TriedKept, Zenon DEF RedisInv, Counted
  <2>2. Budget' = Budget
    BY Zenon DEF Budget
  <2> QED BY <1>2, <1>4, <2>1, <2>2, Zenon DEF RedisInv, Counted
<1> QED BY <1>9, <1>10, <1>11, <1>12, <1>13, <1>14, Halves DEF RedisInv

\* The handler succeeds.
LEMMA InvHandlerSucceeds ==
    ASSUME RedisInv, TypeOK', NEW w \in Workers, HandlerSucceeds(w)
    PROVE  RedisInv'
<1>1. w \in InFlight /\ pc[w] = "handling" /\ Release(w) /\ Given(w) = Pending(w)
  BY DEF HandlerSucceeds, InFlight, Given
<1>2. /\ pel' \in {pel, pel \ {Given(w)}} /\ done' = done \cup {held[w].id}
      /\ UNCHANGED <<stream, deadVars, accepted, runs, lost, unsure>>
  BY <1>1 DEF HandlerSucceeds
<1>3. Buried' = Buried /\ LostJobs' = LostJobs /\ Stranded' = Stranded /\ deadHere' = deadHere
  BY <1>2 DEF Buried, LostJobs, Stranded, deadVars
<1>4. Over' = Over \cup {held[w].id}
  BY <1>2, <1>3 DEF Over
<1> QED BY <1>1, <1>2, <1>3, <1>4, LetGo

\* The last attempt fails, and the dead-letter list takes the job or not.
LEMMA InvDeadLetter ==
    ASSUME RedisInv, TypeOK', NEW w \in Workers, DeadLetter(w)
    PROVE  RedisInv'
<1>h. PICK i : i = held[w].id
  OBVIOUS
<1>1. w \in InFlight /\ pc[w] = "handling" /\ Release(w)
  BY Zenon DEF DeadLetter, InFlight
<1>2. UNCHANGED <<stream, pel, accepted, done, runs, unsure>>
  BY DEF DeadLetter
<1>3. Given(w) \in pel
  BY <1>1 DEF RedisInv, Handed
<1>4. i \notin done \/ i \in unsure
  BY <1>1, <1>h, Zenon DEF RedisInv, NoJobTwice, Held
<1>6. \/ dead' = dead \cup {i} /\ UNCHANGED <<deadHere, lost>>
      \/ deadHere' = deadHere \cup {i} /\ UNCHANGED <<dead, lost>>
      \/ lost' = lost \cup {<<i, "stranded">>} /\ UNCHANGED <<dead, deadHere>>
  BY <1>h, Zenon DEF DeadLetter
<1>7. \/ Buried' = Buried \cup {i} /\ LostJobs' = LostJobs /\ Stranded' = Stranded
      \/ Buried' = Buried /\ LostJobs' = LostJobs \cup {i} /\ Stranded' = Stranded \cup {i} /\ deadHere' = deadHere
  BY <1>6, GivenUp, Zenon DEF Buried, LostJobs, Stranded
<1>8. deadHere' \subseteq deadHere \cup {i}
  BY <1>6
<1>9. Over' = Over \cup {i}
  BY <1>2, <1>7 DEF Over
<1> QED BY <1>1, <1>2, <1>3, <1>4, <1>7, <1>8, <1>9, <1>h, LetGo, Zenon

-----------------------------------------------------------------------------
(* What XADD adds.                                                          *)

\* XADD writes an entry that is nowhere else, twice if the command was resent.
LEMMA Write ==
    ASSUME RedisInv, NEW e \in Entry, NEW out,
           \/ Nothing(e, out) \/ Single(e, out) \/ Silent(e, out) \/ Doubled(e, out),
           stream' = stream \o out[1],
           e.copy = 1 => e.id \in unsure,
           InFlight' \subseteq InFlight, \A v \in InFlight' : held'[v] = held[v] /\ pc'[v] = pc[v],
           \A x \in Range(stream) \cup {held[v] : v \in InFlight'} :
               x.id = e.id => e.id \in unsure /\ x.copy # e.copy
    PROVE  /\ Separate' /\ stream' \in Seq(Entry)
           /\ Range(stream') = Range(stream) \cup Range(out[1])
           /\ Tokens' \subseteq Tokens \cup Range(out[1])
           /\ \A y \in Range(out[1]) : /\ y \in Entry /\ y.id = e.id /\ y.attempts = e.attempts
                                       /\ y = e \/ (y.copy = 1 /\ Doubled(e, out))
           /\ Nothing(e, out) <=> out[1] = << >>
           /\ out[1] # << >> => e \in Range(out[1])
           /\ out[2] <=> Single(e, out) \/ Doubled(e, out)
<1>0. stream \in Seq(Entry) /\ Range(stream) \subseteq Entry /\ Separate
  BY TokensTyped, Halves DEF RedisInv, TypeOK
<1>1. Doubled(e, out) => e.copy = 0
  BY EntryFields DEF Doubled
<1>2. /\ out[1] \in Seq(Entry) /\ Once(out[1]) /\ out[2] \in BOOLEAN
      /\ Nothing(e, out) => Range(out[1]) = {} /\ out[1] = << >> /\ out[2] = FALSE
      /\ Single(e, out) => Range(out[1]) = {e} /\ out[1] # << >> /\ out[2] = TRUE
      /\ Silent(e, out) => Range(out[1]) = {e} /\ out[1] # << >> /\ out[2] = FALSE
      /\ Doubled(e, out) => /\ Range(out[1]) = {e, [e EXCEPT !.copy = 1]}
                            /\ out[1] # << >> /\ out[2] = TRUE
  BY <1>1, XAddWrites, Zenon
<1>3. \A y \in Range(out[1]) : /\ y \in Entry /\ y.id = e.id /\ y.attempts = e.attempts
                               /\ y = e \/ (y.copy = 1 /\ Doubled(e, out))
  <2>1. PICK f : f = [e EXCEPT !.copy = 1]
    BY Zenon
  <2>2. f \in Entry /\ f.id = e.id /\ f.attempts = e.attempts /\ f.copy = 1
    BY <2>1, EntryFields
  <2>3. Doubled(e, out) => Range(out[1]) = {e, f}
    BY <1>2, <2>1
  <2>4. ~Doubled(e, out) => Range(out[1]) \subseteq {e}
    BY <1>2
  <2> QED BY <2>2, <2>3, <2>4, Zenon
<1>4. \A x \in Range(stream) \cup {held[v] : v \in InFlight'}, y \in Range(out[1]) :
        ~SameEntry(x, y) /\ ~SameEntry(y, x)
  <2> TAKE x \in Range(stream) \cup {held[v] : v \in InFlight'}, y \in Range(out[1])
  <2>1. CASE y = e
    BY <2>1 DEF SameEntry
  <2>2. CASE y.copy = 1 /\ y.id = e.id /\ Doubled(e, out)
    BY <2>2 DEF SameEntry, Doubled
  <2> QED BY <1>3, <2>1, <2>2, Zenon
<1>5. /\ stream' \in Seq(Entry) /\ Range(stream') = Range(stream) \cup Range(out[1]) /\ Once(stream')
  BY <1>0, <1>2, <1>4, Written DEF Separate
<1>6. Separate'
  <2>1. \A v, u \in InFlight' : SameEntry(held'[v], held'[u]) => v = u
    BY <1>0, Zenon DEF Separate
  <2>2. \A x \in Range(stream'), v \in InFlight' : ~SameEntry(x, held'[v])
    BY <1>0, <1>4, <1>5, Zenon DEF Separate
  <2> QED BY <1>5, <2>1, <2>2, Zenon DEF Separate
<1>7. Tokens' \subseteq Tokens \cup Range(out[1])
  <2>1. \A v \in InFlight' : Token(v)' = Token(v)
    BY TokenKept, Zenon
  <2>2. ASSUME NEW v \in InFlight' PROVE Token(v)' \in Tokens
    BY <2>1 DEF Tokens
  <2> QED BY <1>5, <2>2 DEF Tokens
<1>8. /\ Nothing(e, out) <=> out[1] = << >>
      /\ out[1] # << >> => e \in Range(out[1])
      /\ out[2] <=> Single(e, out) \/ Doubled(e, out)
  BY <1>2
<1> QED BY <1>3, <1>5, <1>6, <1>7, <1>8, Zenon

\* The counts of a job that gets another entry with the same attempts, or its
\* first one.
LEMMA TriedAfterWrite ==
    ASSUME RedisInv, NEW e \in Entry, NEW W,
           \A y \in W : /\ y \in Entry /\ y.id = e.id /\ y.attempts = e.attempts
                        /\ y = e \/ (y.copy = 1 /\ e.id \notin unsure),
           Tokens' \subseteq Tokens \cup W, runs' = runs,
           unsure \subseteq unsure', accepted \subseteq accepted',
           e \in Tokens \/ (e.attempts = 0 /\ e.copy = 0 /\ e.id \notin accepted \cup unsure)
    PROVE  \A j \in Jobs : Tried(j)'
<1> TAKE j \in Jobs
<1>1. PICK a \in 0..Budget, b \in 0..Budget :
        /\ runs[j] <= a + b
        /\ j \notin unsure => b = 0
        /\ j \notin accepted \cup unsure => a = 0
        /\ \A t \in Tokens : t.id = j => 2 * (IF t.copy = 0 THEN a ELSE b) <= t.attempts
  BY Zenon DEF RedisInv, Counted, Tried
<1>2. e.attempts \in Nat /\ Budget \in Nat /\ a \in Nat /\ b \in Nat /\ Budget' = Budget
  <2>1. e.attempts \in Nat
    BY EntryFields, Zenon
  <2>2. Budget' = Budget
    BY DEF Budget
  <2> QED BY <2>1, <2>2, BudgetFacts
<1>3. e.id = j => 2 * (IF e.copy = 0 THEN a ELSE b) <= e.attempts
  BY <1>1, <1>2
<1>4. \A y \in W : y.id = j => 2 * (IF y.copy = 0 THEN a ELSE b) <= y.attempts
  <2> SUFFICES ASSUME NEW y \in W, y.id = j PROVE 2 * (IF y.copy = 0 THEN a ELSE b) <= y.attempts
    OBVIOUS
  <2>1. CASE y = e
    BY <1>3, <2>1
  <2>2. CASE y.copy = 1 /\ e.id \notin unsure
    BY <1>1, <1>2, <2>2
  <2> QED BY <2>1, <2>2
<1>5. \A t \in Tokens' : t.id = j => 2 * (IF t.copy = 0 THEN a ELSE b) <= t.attempts
  BY <1>1, <1>4
<1> QED BY <1>1, <1>2, <1>5, Zenon DEF Tried

\* A new job enters the stream, or nothing does.
LEMMA InvEnqueue ==
    ASSUME RedisInv, TypeOK', NEW j \in Jobs, Enqueue(j)
    PROVE  RedisInv'
<1> USE DEF deadVars
<1>h. PICK e : e = [id |-> j, attempts |-> 0, copy |-> 0]
  BY Zenon
<1>0. e \in Entry /\ e.id = j /\ e.attempts = 0 /\ e.copy = 0 /\ j \notin accepted \cup unsure
  BY <1>h DEF Entry, Enqueue
<1>1. PICK out \in XAdd(e, FALSE) :
        /\ stream' = stream \o out[1]
        /\ accepted' = IF out[2] THEN accepted \cup {j} ELSE accepted
        /\ unsure' = IF Unsure(out) THEN unsure \cup {j} ELSE unsure
  BY <1>h, Zenon DEF Enqueue
<1>2. /\ Nothing(e, out) \/ Single(e, out) \/ Silent(e, out) \/ Doubled(e, out)
      /\ Nothing(e, out) \/ Single(e, out) => ~Unsure(out)
      /\ Silent(e, out) \/ Doubled(e, out) => Unsure(out)
  BY <1>0, XAddOutcomes, Zenon
<1>3. UNCHANGED <<pel, deadVars, pc, held, done, runs, lost>>
  BY DEF Enqueue
<1>4. InFlight' = InFlight /\ \A v \in InFlight : Token(v)' = Token(v) /\ Given(v)' = Given(v)
  BY <1>3 DEF InFlight, Token, Given, Pending
<1>5. \A x \in Range(stream) \cup {held[v] : v \in InFlight'} : x.id # j
  BY <1>0, <1>4, CopiesKnown
<1>6. /\ Separate' /\ stream' \in Seq(Entry)
      /\ Range(stream') = Range(stream) \cup Range(out[1])
      /\ Tokens' \subseteq Tokens \cup Range(out[1])
      /\ \A y \in Range(out[1]) : /\ y \in Entry /\ y.id = e.id /\ y.attempts = e.attempts
                                  /\ y = e \/ (y.copy = 1 /\ Doubled(e, out))
      /\ Nothing(e, out) <=> out[1] = << >>
      /\ out[1] # << >> => e \in Range(out[1])
      /\ out[2] <=> Single(e, out) \/ Doubled(e, out)
  <2>1. \A x \in Range(stream) \cup {held[v] : v \in InFlight'} :
          x.id = e.id => e.id \in unsure /\ x.copy # e.copy
    BY <1>0, <1>5
  <2>2. InFlight' \subseteq InFlight /\ \A v \in InFlight' : held'[v] = held[v] /\ pc'[v] = pc[v]
    BY <1>3, <1>4
  <2>3. e \in Entry /\ (e.copy = 1 => e.id \in unsure) /\ stream' = stream \o out[1]
    BY <1>0, <1>1
  <2> QED BY <1>2, <2>1, <2>2, <2>3, Write
<1>y. \A y \in Range(out[1]) : y \in Entry /\ y.id = j /\ y.attempts = 0 /\ (y.copy = 1 => Doubled(e, out))
  BY <1>0, <1>6
<1>7. CASE Nothing(e, out)
  <2>1. stream' = stream /\ accepted' = accepted /\ unsure' = unsure
    <3>1. out[1] = << >> /\ ~out[2] /\ ~Unsure(out)
      <4>1. ~Single(e, out) /\ ~Silent(e, out) /\ ~Doubled(e, out)
        BY <1>7 DEF Nothing, Single, Silent, Doubled
      <4> QED BY <1>2, <1>6, <1>7, <4>1, Zenon
    <3>2. stream \in Seq(Entry)
      BY DEF RedisInv, TypeOK
    <3>3. stream' = stream \o << >> /\ accepted' = accepted /\ unsure' = unsure
      BY <1>1, <3>1
    <3>4. stream' = stream
      BY <3>2, <3>3
    <3> QED BY <3>3, <3>4
  <2> QED BY <1>3, <1>4, <2>1, QuietStep
<1>8. CASE ~Nothing(e, out)
  <2>1. e \in Range(out[1]) /\ (accepted' \cup unsure' = accepted \cup unsure \cup {j})
        /\ accepted \subseteq accepted' /\ unsure \subseteq unsure'
        /\ accepted' \subseteq accepted \cup {j} /\ unsure' \subseteq unsure \cup {j}
        /\ (Doubled(e, out) => j \in unsure')
    BY <1>1, <1>2, <1>6, <1>8, Zenon
  <2>2. /\ Queued' = Queued \cup {j} /\ Held' = Held /\ Over' = Over
        /\ Buried' = Buried /\ LostJobs' = LostJobs /\ Stranded' = Stranded
    <3>1. Queued' = Queued \cup {j}
      BY <1>6, <1>y, <2>1, Zenon DEF Queued
    <3> QED BY <1>3, <1>4, <3>1 DEF Held, Over, Buried, LostJobs, Stranded
  <2>3. j \notin Queued \cup Held \cup Over
    BY <1>0 DEF RedisInv, Known
  <2>4. Handed'
    BY <1>3, <1>4, Zenon DEF RedisInv, Handed
  <2>5. Known'
    <3>1. \A y \in Range(out[1]) : y.copy = 1 => y.id \in unsure'
      BY <1>y, <2>1
    <3> QED BY <1>3, <1>6, <1>y, <2>1, <2>2, <3>1 DEF RedisInv, Known
  <2>6. Apart'
    <3>1. Apart
      BY Halves DEF RedisInv
    <3> QED BY <1>3, <2>1, <2>2, <2>3, <3>1 DEF Apart
  <2>7. Claimable'
    <3>1. ASSUME NEW i, Spare(i) PROVE Spare(i)'
      <4>1. PICK p \in pel : p.id = i /\ \A t \in Tokens : ~SameEntry(t, p)
        BY <3>1 DEF Spare
      <4>2. p.id # j
        BY <1>0, CopiesKnown
      <4>3. \A t \in Tokens' : ~SameEntry(t, p)
        BY <1>6, <1>y, <4>1, <4>2 DEF SameEntry
      <4> QED BY <1>3, <4>1, <4>3 DEF Spare
    <3> QED BY <1>3, <2>2, <3>1 DEF RedisInv, Claimable
  <2>8. Counted'
    <3>1. \A i \in Jobs : Tried(i)'
      <4>1. \A y \in Range(out[1]) : /\ y \in Entry /\ y.id = e.id /\ y.attempts = e.attempts
                                     /\ y = e \/ (y.copy = 1 /\ e.id \notin unsure)
        BY <1>0, <1>6, Zenon
      <4> QED BY <1>0, <1>3, <1>6, <2>1, <4>1, TriedAfterWrite, Zenon
    <3>2. \A t \in Tokens' : Even(t.attempts)
      <4>1. Even(0)
        BY DEF Even
      <4>2. \A t \in Range(out[1]) : Even(t.attempts)
        BY <1>y, <4>1
      <4> QED BY <1>6, <4>2 DEF RedisInv, Counted
    <3>3. \A x \in Range(stream') : x.attempts <= MaxRetries
      <4>1. \A y \in Range(out[1]) : y.attempts <= MaxRetries
        BY <1>y, RedisJobsAssumption
      <4> QED BY <1>6, <4>1, Zenon DEF RedisInv, Counted
    <3> QED BY <1>3, <1>4, <2>2, <3>1, <3>2, <3>3, Zenon DEF RedisInv, Counted, Budget
  <2> QED BY <1>6, <2>4, <2>5, <2>6, <2>7, <2>8, Halves, Zenon DEF RedisInv
<1> QED BY <1>7, <1>8

\* Nack puts the job back, twice if the XADD was resent.
LEMMA PutBack ==
    ASSUME RedisInv, TypeOK', NEW w \in InFlight, pc[w] # "picked", Release(w),
           UNCHANGED <<pel, deadVars, accepted, done, runs, lost>>,
           NEW over \in BOOLEAN, NEW out \in XAdd(Requeued(held[w]), over), out[1] # << >>,
           Requeued(held[w]).attempts <= MaxRetries,
           stream' = stream \o out[1],
           unsure' = IF Unsure(out) THEN unsure \cup {Requeued(held[w]).id} ELSE unsure
    PROVE  RedisInv'
<1> USE DEF deadVars
<1>h. PICK e : e = Requeued(held[w])
  BY Zenon
<1>i. PICK i : i = held[w].id
  OBVIOUS
<1>0. /\ pc \in [Workers -> {"loop", "dequeue", "picked", "handling", "requeue", "late", "exited"}]
      /\ held \in [Workers -> Entry \cup {NoEntry}] /\ w \in Workers
  BY Zenon DEF RedisInv, TypeOK, InFlight
<1>1. /\ e = Token(w) /\ e \in Tokens /\ e \in Entry /\ e.id = i /\ e.copy = held[w].copy
      /\ e.attempts <= MaxRetries
  <2>1. e = Token(w)
    BY <1>h DEF Token, Requeued
  <2> QED BY <1>h, <1>i, <2>1, TokenFields, Zenon DEF RedisInv, Handed
<1>2. SameEntry(Given(w), held[w]) /\ held[w] \in Entry
  BY <1>1, TokenFields, Zenon DEF RedisInv, Handed, SameEntry
<1>3. Separate /\ Apart
  BY Halves DEF RedisInv
<1>4. /\ InFlight' = InFlight \ {w}
      /\ \A v \in InFlight' : v \in InFlight /\ pc'[v] = pc[v] /\ held'[v] = held[v]
  BY <1>0, Zenon DEF InFlight, Release
<1>5. /\ Nothing(e, out) \/ Single(e, out) \/ Silent(e, out) \/ Doubled(e, out)
      /\ Nothing(e, out) \/ Single(e, out) => ~Unsure(out)
      /\ Silent(e, out) \/ Doubled(e, out) => Unsure(out)
  BY <1>1, <1>h, XAddOutcomes, Zenon
<1>6. \A x \in Range(stream) \cup {held[v] : v \in InFlight'} :
        x.id = i => i \in unsure /\ x.copy # e.copy
  <2> SUFFICES ASSUME NEW x \in Range(stream) \cup {held[v] : v \in InFlight'}, x.id = i
               PROVE  i \in unsure /\ x.copy # e.copy
    BY Zenon
  <2>1. /\ ~SameEntry(x, held[w])
        /\ x \in Entry /\ (x.copy = 1 => x.id \in unsure)
    <3>1. CASE x \in Range(stream)
      BY <1>3, <3>1, CopiesKnown DEF Separate
    <3>2. ASSUME NEW v \in InFlight', x = held[v]
          PROVE  ~SameEntry(x, held[w]) /\ x \in Entry /\ (x.copy = 1 => x.id \in unsure)
      <4>1. v \in InFlight /\ v # w
        BY <1>4
      <4> QED BY <1>3, <3>2, <4>1, CopiesKnown DEF Separate
    <3> QED BY <3>1, <3>2
  <2>2. held[w].copy = 1 => held[w].id \in unsure
    BY CopiesKnown, Zenon
  <2>3. i \in unsure
    BY <1>2, <1>i, <2>1, <2>2, TwoEntries
  <2> QED BY <1>1, <1>i, <2>1, <2>3 DEF SameEntry
<1>7. e.copy = 1 => e.id \in unsure
  BY <1>1 DEF RedisInv, Known
<1>8. /\ Separate' /\ stream' \in Seq(Entry)
      /\ Range(stream') = Range(stream) \cup Range(out[1])
      /\ Tokens' \subseteq Tokens \cup Range(out[1])
      /\ \A y \in Range(out[1]) : /\ y \in Entry /\ y.id = e.id /\ y.attempts = e.attempts
                                  /\ y = e \/ (y.copy = 1 /\ Doubled(e, out))
      /\ e \in Range(out[1])
  <2>1. \A x \in Range(stream) \cup {held[v] : v \in InFlight'} :
          x.id = e.id => e.id \in unsure /\ x.copy # e.copy
    BY <1>1, <1>6, Zenon
  <2>2. InFlight' \subseteq InFlight /\ \A v \in InFlight' : held'[v] = held[v] /\ pc'[v] = pc[v]
    BY <1>4
  <2> QED BY <1>1, <1>5, <1>7, <2>1, <2>2, Write, Zenon
<1>9. /\ unsure \subseteq unsure' /\ unsure' \subseteq unsure \cup {i}
      /\ Doubled(e, out) => i \in unsure' /\ i \notin unsure
  BY <1>1, <1>5, <1>h, Zenon DEF Doubled
<1>10. /\ Queued' = Queued \cup {i} /\ Held' \subseteq Held /\ Held = Held' \cup {i} /\ Over' = Over
       /\ Buried' = Buried /\ LostJobs' = LostJobs /\ Stranded' = Stranded
  <2>1. Queued' = Queued \cup {i}
    BY <1>1, <1>8, Zenon DEF Queued
  <2>2. Held' \subseteq Held /\ Held = Held' \cup {i}
    <3>1. \A v \in InFlight : v = w \/ (v \in InFlight' /\ held'[v] = held[v])
      BY <1>4, Zenon
    <3>2. \A v \in InFlight : held[v].id \in Held' \cup {i}
      BY <1>i, <3>1 DEF Held
    <3>3. \A v \in InFlight' : held'[v].id \in Held
      BY <1>4, Zenon DEF Held
    <3>4. i \in Held
      BY <1>i DEF Held
    <3> QED BY <3>2, <3>3, <3>4, Zenon DEF Held
  <2> QED BY <2>1, <2>2, Zenon DEF Over, Buried, LostJobs, Stranded
<1>11. \A v \in InFlight' : Token(v)' = Token(v) /\ Given(v)' = Given(v)
  BY <1>4, TokenKept, Zenon
<1>12. Handed'
  <2> SUFFICES ASSUME NEW v \in InFlight' PROVE (held[v] \in Entry /\ (pc[v] # "picked" => held[v].attempts \in Nat \ {0}) /\ (pc[v] \in {"picked", "handling"} => Given(v) \in pel))'
    BY Zenon DEF Handed
  <2>1. /\ v \in InFlight /\ v # w /\ held[v] \in Entry /\ (pc[v] \in {"picked", "handling"} => Given(v) \in pel)
        /\ (pc[v] # "picked" => held[v].attempts \in Nat \ {0}) /\ SameEntry(Given(v), held[v])
    BY <1>4, TokenFields, Zenon DEF RedisInv, Handed, SameEntry
  <2>2. Given(v) # Given(w)
    BY <1>2, <1>3, <2>1, Zenon DEF Separate, SameEntry
  <2> QED BY <1>4, <1>11, <2>1, <2>2, Zenon
<1>13. Known'
  <2>1. i \in accepted \cup unsure
    BY <1>1, Zenon DEF RedisInv, Known
  <2>2. \A y \in Range(out[1]) : y.id = i /\ (y.copy = 1 => y.id \in unsure')
    BY <1>1, <1>7, <1>8, <1>9, Zenon
  <2> QED BY <1>8, <1>9, <1>10, <2>1, <2>2, Zenon DEF RedisInv, Known
<1>14. Apart'
  <2>1. i \in Held' => i \in unsure
    <3> SUFFICES ASSUME NEW v \in InFlight', held'[v].id = i PROVE i \in unsure
      BY Zenon DEF Held
    <3> QED BY <1>4, <1>6, Zenon
  <2> QED BY <1>3, <1>9, <1>10, <2>1, Zenon DEF Apart
<1>15. Claimable'
  <2>1. ASSUME NEW j, Spare(j) PROVE Spare(j)'
    <3>1. PICK p \in pel : p.id = j /\ \A t \in Tokens : ~SameEntry(t, p)
      BY <2>1, Zenon DEF Spare
    <3>2. p \in pel'
      BY <3>1
    <3>3. \A y \in Range(out[1]) : ~SameEntry(y, p)
      <4> TAKE y \in Range(out[1])
      <4>1. CASE y = e
        BY <1>1, <3>1, <4>1, Zenon
      <4>2. CASE y.copy = 1 /\ y.id = i /\ i \notin unsure
        BY <4>2, CopiesKnown, Zenon DEF SameEntry
      <4> QED BY <1>1, <1>8, <1>9, <4>1, <4>2, Zenon
    <3> QED BY <1>8, <3>1, <3>2, <3>3, Zenon DEF Spare
  <2> QED BY <1>10, <2>1, Zenon DEF RedisInv, Claimable
<1>16. Counted'
  <2>1. \A j \in Jobs : Tried(j)'
    <3>1. \A y \in Range(out[1]) : /\ y \in Entry /\ y.id = e.id /\ y.attempts = e.attempts
                                   /\ y = e \/ (y.copy = 1 /\ e.id \notin unsure)
      BY <1>1, <1>8, <1>9, Zenon
    <3> QED BY <1>1, <1>8, <1>9, <3>1, TriedAfterWrite, Zenon
  <2>2. \A t \in Tokens' : Even(t.attempts)
    <3>1. Even(e.attempts)
      BY <1>1, Zenon DEF RedisInv, Counted
    <3>2. \A y \in Range(out[1]) : Even(y.attempts)
      BY <1>8, <3>1, Zenon
    <3> QED BY <1>8, <3>2, Zenon DEF RedisInv, Counted
  <2>3. \A x \in Range(stream') : x.attempts <= MaxRetries
    <3>1. \A y \in Range(out[1]) : y.attempts <= MaxRetries
      BY <1>1, <1>8, Zenon
    <3> QED BY <1>8, <3>1, Zenon DEF RedisInv, Counted
  <2> QED BY <1>4, <1>10, <2>1, <2>2, <2>3, Zenon DEF RedisInv, Counted, Budget
<1> QED BY <1>8, <1>12, <1>13, <1>14, <1>15, <1>16, Halves, Zenon DEF RedisInv

\* Nack acknowledges the entry of a failed attempt, or fails to: the worker
\* still holds the job.
LEMMA InvNack ==
    ASSUME RedisInv, TypeOK', NEW w \in Workers, Nack(w)
    PROVE  RedisInv'
<1> USE DEF deadVars
<1>0. /\ pc \in [Workers -> {"loop", "dequeue", "picked", "handling", "requeue", "late", "exited"}]
      /\ pc[w] = "handling" /\ held[w].attempts <= MaxRetries /\ w \in InFlight
      /\ UNCHANGED <<stream, deadVars, held, accepted, done, runs, lost, unsure>>
  BY DEF RedisInv, TypeOK, Nack, InFlight
<1>1. PICK l \in {"requeue", "late"} : pc' = [pc EXCEPT ![w] = l]
  BY Zenon DEF Nack
<1>2. pel' \in {pel, pel \ {Given(w)}}
  BY <1>0, Zenon DEF Nack, Given
<1>3. /\ InFlight' = InFlight /\ pc'[w] = l
      /\ \A v \in InFlight \ {w} : pc'[v] = pc[v]
  BY <1>0, <1>1 DEF InFlight
<1>4. \A v \in InFlight : Token(v)' = Token(v) /\ Given(v)' = Given(v)
  <2>1. Token(w)' = Token(w) /\ Given(w)' = Given(w)
    BY <1>0, <1>3 DEF Token, Given, Pending
  <2>2. \A v \in InFlight \ {w} : Token(v)' = Token(v) /\ Given(v)' = Given(v)
    BY <1>0, <1>3, TokenKept
  <2> QED BY <2>1, <2>2
<1>5. Tokens' = Tokens
  BY <1>0, <1>3, <1>4 DEF Tokens
<1>6. /\ Queued' = Queued /\ Held' = Held /\ Over' = Over /\ Buried' = Buried
      /\ LostJobs' = LostJobs /\ Stranded' = Stranded
  BY <1>0, <1>3 DEF Queued, Held, Over, Buried, LostJobs, Stranded
<1>7. Separate /\ Apart
  BY Halves DEF RedisInv
<1>8. Token(w) \in Tokens /\ SameEntry(Token(w), Given(w)) /\ SameEntry(Given(w), held[w])
  BY <1>0, TokenFields, Zenon DEF RedisInv, Handed, SameEntry
<1>9. Handed'
  <2> SUFFICES ASSUME NEW v \in InFlight
               PROVE  (held[v] \in Entry /\ (pc[v] # "picked" => held[v].attempts \in Nat \ {0}) /\ (pc[v] \in {"picked", "handling"} => Given(v) \in pel))'
    BY <1>3, Zenon DEF Handed
  <2>1. CASE v = w
    BY <1>0, <1>3, <2>1 DEF RedisInv, Handed
  <2>2. CASE v # w
    <3>1. /\ held[v] \in Entry /\ (pc[v] \in {"picked", "handling"} => Given(v) \in pel)
          /\ (pc[v] # "picked" => held[v].attempts \in Nat \ {0}) /\ SameEntry(Given(v), held[v])
      BY TokenFields, Zenon DEF RedisInv, Handed, SameEntry
    <3>2. Given(v) # Given(w)
      BY <1>0, <1>7, <1>8, <2>2, <3>1, Zenon DEF Separate, SameEntry
    <3> QED BY <1>0, <1>2, <1>3, <1>4, <2>2, <3>1, <3>2
  <2> QED BY <2>1, <2>2
<1>10. Known'
  BY <1>0, <1>2, <1>5, <1>6 DEF RedisInv, Known
<1>11. Separate' /\ Apart'
  BY <1>0, <1>3, <1>6, <1>7 DEF Separate, Apart
<1>12. Claimable'
  <2>1. \A j : Spare(j) => Spare(j)'
    BY <1>2, <1>5, <1>8, SpareKept
  <2> QED BY <1>0, <1>6, <2>1 DEF RedisInv, Claimable
<1>13. Counted'
  <2>1. \A j \in Jobs : Tried(j)'
    BY <1>0, <1>5, TriedKept DEF RedisInv, Counted
  <2> QED BY <1>0, <1>3, <1>5, <2>1 DEF RedisInv, Counted
<1> QED BY <1>9, <1>10, <1>11, <1>12, <1>13, Halves DEF RedisInv

\* Then the job is given up or put back.
LEMMA InvRequeue ==
    ASSUME RedisInv, TypeOK', NEW w \in Workers, Requeue(w)
    PROVE  RedisInv'
<1>h. PICK e : e = Requeued(held[w])
  OBVIOUS
<1>1. /\ w \in Nacking /\ Release(w)
      /\ UNCHANGED <<pel, deadVars, accepted, done, runs>>
      /\ \/ /\ lost' = lost \cup {<<e.id, "budget">>}
            /\ UNCHANGED <<stream, unsure>>
         \/ /\ e.attempts <= MaxRetries
            /\ \E over \in {TRUE, ~serving \/ pc[w] = "late"} : \E out \in XAdd(e, over) :
                 /\ stream' = stream \o out[1]
                 /\ lost' = IF out[1] = << >> THEN lost \cup {<<e.id, "dropped">>} ELSE lost
                 /\ unsure' = IF Unsure(out) THEN unsure \cup {e.id} ELSE unsure
  BY <1>h, Zenon DEF Requeue
<1>2. \A over \in {TRUE, ~serving \/ pc[w] = "late"} : over \in BOOLEAN
  BY Zenon
<1>3. w \in InFlight /\ pc[w] # "picked"
  BY <1>1 DEF InFlight, Nacking
<1>4. e \in Entry /\ e.id = held[w].id
  <2>1. e = Token(w)
    BY <1>3, <1>h DEF Token, Requeued
  <2> QED BY <1>3, <2>1, TokenFields, Zenon DEF RedisInv, Handed
<1>5. ASSUME NEW why \in {"budget", "dropped"}, lost' = lost \cup {<<held[w].id, why>>}, UNCHANGED <<stream, unsure>>
      PROVE  RedisInv'
  <2>1. LostJobs' = LostJobs \cup {held[w].id} /\ Stranded' = Stranded
    BY <1>5, GivenUp, Zenon
  <2>2. Buried' = Buried /\ deadHere' = deadHere
    BY <1>1 DEF Buried, deadVars
  <2>3. Over' = Over \cup {held[w].id}
    BY <1>1, <2>1, <2>2, Zenon DEF Over
  <2>4. held[w].id \in done => held[w].id \in unsure
    BY <1>3, Zenon DEF RedisInv, NoJobTwice, Held
  <2> QED BY <1>1, <1>3, <1>5, <2>1, <2>2, <2>3, <2>4, LetGo, Zenon
<1>6. CASE lost' = lost \cup {<<e.id, "budget">>} /\ UNCHANGED <<stream, unsure>>
  BY <1>4, <1>5, <1>6
<1>7. ASSUME NEW over \in BOOLEAN, NEW out \in XAdd(e, over), e.attempts <= MaxRetries, stream' = stream \o out[1],
             lost' = IF out[1] = << >> THEN lost \cup {<<e.id, "dropped">>} ELSE lost,
             unsure' = IF Unsure(out) THEN unsure \cup {e.id} ELSE unsure
      PROVE  RedisInv'
  <2>1. CASE out[1] = << >>
    <3>1. /\ Nothing(e, out) \/ Single(e, out) \/ Silent(e, out) \/ Doubled(e, out)
          /\ Nothing(e, out) \/ Single(e, out) => ~Unsure(out)
      BY <1>4, XAddOutcomes, Zenon
    <3>2. ~Single(e, out) /\ ~Silent(e, out) /\ ~Doubled(e, out)
      <4>1. \A x, y : <<x>> # << >> /\ <<x, y>> # << >>
        OBVIOUS
      <4>2. ASSUME Single(e, out) PROVE out[1] = <<e>>
        BY <4>2 DEF Single
      <4>3. ASSUME Silent(e, out) PROVE out[1] = <<e>>
        BY <4>3 DEF Silent
      <4>4. Doubled(e, out) => out[1] = <<e, [e EXCEPT !.copy = 1]>>
        BY DEF Doubled
      <4> QED BY <2>1, <4>1, <4>2, <4>3, <4>4
    <3>3. UNCHANGED <<stream, unsure>>
      <4>1. stream \in Seq(Entry)
        BY DEF RedisInv, TypeOK
      <4>2. stream' = stream \o << >> /\ ~Unsure(out)
        BY <1>7, <2>1, <3>1, <3>2
      <4>3. stream' = stream
        BY <4>1, <4>2
      <4> QED BY <1>7, <4>2, <4>3
    <3> QED BY <1>4, <1>5, <1>7, <2>1, <3>3
  <2>2. CASE out[1] # << >>
    BY <1>1, <1>3, <1>7, <1>h, <2>2, PutBack, Zenon
  <2> QED BY <2>1, <2>2
<1> QED BY <1>1, <1>2, <1>6, <1>7, Zenon

\* A crash strands what the workers hold and the dead letters in memory; a job
\* in the middle of Nack may be gone altogether.
LEMMA InvCrash ==
    ASSUME RedisInv, TypeOK', CrashAndRestart
    PROVE  RedisInv'
<1>0. /\ UNCHANGED <<stream, pel, dead, accepted, done, runs, unsure>> /\ deadHere' = {}
      /\ \A w \in Workers : pc'[w] \in {"loop", "exited"}
  BY Zenon DEF CrashAndRestart
<1>p. PICK D, S : /\ D = {held[w].id : w \in Nacking}
                  /\ S = {held[w].id : w \in InFlight \ Nacking}
  BY Zenon
<1>1. InFlight' = {} /\ Held' = {} /\ Queued' = Queued
  BY <1>0 DEF InFlight, Held, Queued
<1>2. Tokens' = Range(stream) /\ Tokens' \subseteq Tokens
  BY <1>0, <1>1 DEF Tokens
<1>3. /\ LostJobs' = LostJobs \cup Held \cup deadHere
      /\ Stranded' = Stranded \cup S \cup deadHere
  <2>1. \A j, why : <<j, why>>[1] = j /\ <<j, why>>[2] = why
    OBVIOUS
  <2>2. PICK A, B : /\ A = {<<held[w].id, "dropped">> : w \in Nacking}
                    /\ B = {<<held[w].id, "stranded">> : w \in InFlight \ Nacking}
                           \cup {<<j, "stranded">> : j \in deadHere}
    BY Zenon
  <2>3. /\ \A l \in A : l[1] \in D /\ l[2] = "dropped"
        /\ \A j \in D : \E l \in A : l[1] = j
    <3>1. \A w \in Nacking : \E l \in A : l[1] = held[w].id
      BY <2>1, <2>2, Zenon
    <3>2. \A l \in A : \E w \in Nacking : l[1] = held[w].id /\ l[2] = "dropped"
      <4> TAKE l \in A
      <4>1. PICK w \in Nacking : l = <<held[w].id, "dropped">>
        BY <2>2, Zenon
      <4> QED BY <4>1
    <3> QED BY <1>p, <3>1, <3>2
  <2>4. /\ \A l \in B : l[1] \in S \cup deadHere /\ l[2] = "stranded"
        /\ \A j \in S \cup deadHere : \E l \in B : l[1] = j
    <3>1. /\ \A w \in InFlight \ Nacking : \E l \in B : l[1] = held[w].id
          /\ \A j \in deadHere : \E l \in B : l[1] = j
      BY <2>1, <2>2, Zenon
    <3>2. \A l \in B : /\ l[2] = "stranded"
                       /\ l[1] \in deadHere \/ \E w \in InFlight \ Nacking : l[1] = held[w].id
      <4> TAKE l \in B
      <4>1. CASE \E w \in InFlight \ Nacking : l = <<held[w].id, "stranded">>
        BY <4>1
      <4>2. CASE \E j \in deadHere : l = <<j, "stranded">>
        BY <4>2
      <4> QED BY <2>2, <4>1, <4>2, Zenon
    <3> QED BY <1>p, <3>1, <3>2
  <2>5. lost' = lost \cup A \cup B
    BY <2>2 DEF CrashAndRestart
  <2>6. Held = D \cup S
    <3>1. \A w \in Nacking : w \in InFlight
      BY DEF Nacking, InFlight
    <3> QED BY <1>p, <3>1, Zenon DEF Held
  <2> QED BY <2>3, <2>4, <2>5, <2>6 DEF LostJobs, Stranded
<1>4. Over' = Over \cup Held
  BY <1>0, <1>3 DEF Over, Buried
<1>5. Buried' \subseteq Buried
  BY <1>0 DEF Buried
<1>6. Separate /\ Apart
  BY Halves DEF RedisInv
<1>7. Handed'
  BY <1>1 DEF Handed
<1>8. Known'
  BY <1>0, <1>1, <1>2, <1>4, Zenon DEF RedisInv, Known
<1>9. Separate'
  BY <1>0, <1>1, <1>6 DEF Separate
<1>10. Apart'
  BY <1>0, <1>1, <1>3, <1>4, <1>5, <1>6 DEF Apart, Over, Buried
<1>11. Claimable'
  <2>1. \A j : Spare(j) => Spare(j)'
    BY <1>0, <1>2, SpareKept
  <2>2. ASSUME NEW w \in InFlight \ Nacking, NEW i, i = held[w].id PROVE Spare(i)'
    <3>0. pc[w] \in {"picked", "handling"}
      BY DEF InFlight, Nacking
    <3>1. Given(w) \in pel /\ Given(w).id = i /\ SameEntry(Given(w), held[w])
      BY <2>2, <3>0, TokenFields, Zenon DEF RedisInv, Handed, SameEntry
    <3>2. \A x \in Range(stream) : ~SameEntry(x, Given(w))
      BY <1>6, <3>1 DEF Separate, SameEntry
    <3> QED BY <1>0, <1>2, <3>1, <3>2 DEF Spare
  <2>3. \A j \in S : Spare(j)'
    BY <1>p, <2>2
  <2> QED BY <1>0, <1>3, <2>1, <2>3 DEF RedisInv, Claimable
<1>12. Counted'
  <2>1. \A j \in Jobs : Tried(j)'
    BY <1>0, <1>2, TriedKept, Zenon DEF RedisInv, Counted
  <2> QED BY <1>0, <1>1, <1>2, <1>5, <2>1, Zenon DEF RedisInv, Counted, Budget
<1> QED BY <1>7, <1>8, <1>9, <1>10, <1>11, <1>12, Halves DEF RedisInv

-----------------------------------------------------------------------------
(* Every step.                                                              *)

\* Every step keeps the types, given that workers hold entries.
LEMMA TypeNext == RedisInv /\ [Next]_vars => TypeOK'
<1> SUFFICES ASSUME RedisInv, [Next]_vars PROVE TypeOK'
  OBVIOUS
<1> USE DEF deadVars
<1>0. TypeOK /\ Handed
  BY DEF RedisInv
<1>1. ASSUME NEW j \in Jobs, Enqueue(j) PROVE TypeOK'
  <2>h. PICK e : e = [id |-> j, attempts |-> 0, copy |-> 0]
    BY Zenon
  <2>1. e \in Entry /\ e.copy = 0
    BY <2>h DEF Entry
  <2>2. PICK out \in XAdd(e, FALSE) :
          /\ stream' = stream \o out[1]
          /\ accepted' = IF out[2] THEN accepted \cup {j} ELSE accepted
          /\ unsure' = IF Unsure(out) THEN unsure \cup {j} ELSE unsure
    BY <1>1, <2>h, Zenon DEF Enqueue
  <2>3. out[1] \in Seq(Entry)
    BY <2>1, XAddOutcomes, XAddWrites, Zenon
  <2>4. stream' \in Seq(Entry)
    BY <1>0, <2>2, <2>3, Written DEF TypeOK
  <2> QED BY <1>0, <1>1, <2>2, <2>4 DEF TypeOK, Enqueue
<1>2. ASSUME NEW w \in Workers, CheckContext(w) \/ DequeueEnds(w) PROVE TypeOK'
  BY <1>0, <1>2, Zenon DEF TypeOK, CheckContext, DequeueEnds, Exit
<1>3. ASSUME NEW w \in Workers, Dequeue(w) PROVE TypeOK'
  <2>1. /\ Head(stream) \in Entry /\ Head(stream).id \in Jobs /\ stream' \in Seq(Entry)
    BY <1>0, <1>3, Delivered, EntryFields, Zenon DEF TypeOK, Dequeue, Undelivered
  <2>2. /\ pc' \in [Workers -> {"loop", "dequeue", "picked", "handling", "requeue", "late", "exited"}]
        /\ held' \in [Workers -> Entry \cup {NoEntry}] /\ pel' \subseteq Entry
    BY <1>0, <1>3, <2>1, Zenon DEF TypeOK, Dequeue, Exit
  <2>3. <<Head(stream).id, "stranded">> \in Jobs \X {"stranded", "dropped", "budget"}
    BY <2>1
  <2>4. lost' = lost \/ lost' = lost \cup {<<Head(stream).id, "stranded">>}
    BY <1>3, Zenon DEF Dequeue
  <2>5. lost' \subseteq Jobs \X {"stranded", "dropped", "budget"}
    BY <1>0, <2>3, <2>4 DEF TypeOK
  <2> QED BY <1>0, <1>3, <2>1, <2>2, <2>5 DEF TypeOK, Dequeue
<1>4. ASSUME NEW w \in Workers, RunJob(w) PROVE TypeOK'
  <2>1. held[w] \in Entry
    BY <1>0, <1>4 DEF Handed, InFlight, RunJob
  <2>2. [held[w] EXCEPT !.attempts = @ + 1] \in Entry /\ held[w].id \in Jobs
    BY <2>1 DEF Entry
  <2>3. held' \in [Workers -> Entry \cup {NoEntry}] /\ runs' \in [Jobs -> Nat]
    BY <1>0, <1>4, <2>2 DEF TypeOK, RunJob
  <2> QED BY <1>0, <1>4, <2>3 DEF TypeOK, RunJob
<1>5. ASSUME NEW w \in Workers, HandlerSucceeds(w) PROVE TypeOK'
  <2>1. held[w].id \in Jobs
    BY <1>0, <1>5 DEF Handed, InFlight, HandlerSucceeds, Entry
  <2>2. pc' \in [Workers -> {"loop", "dequeue", "picked", "handling", "requeue", "late", "exited"}] /\ held' \in [Workers -> Entry \cup {NoEntry}]
    BY <1>0, <1>5 DEF TypeOK, HandlerSucceeds, Release
  <2> QED BY <1>0, <1>5, <2>1, <2>2 DEF TypeOK, HandlerSucceeds
<1>6. ASSUME NEW w \in Workers, DeadLetter(w) PROVE TypeOK'
  <2>1. held[w].id \in Jobs
    BY <1>0, <1>6, Zenon DEF Handed, InFlight, DeadLetter, Entry
  <2>2. pc' \in [Workers -> {"loop", "dequeue", "picked", "handling", "requeue", "late", "exited"}] /\ held' \in [Workers -> Entry \cup {NoEntry}]
    BY <1>0, <1>6 DEF TypeOK, DeadLetter, Release
  <2>3. <<held[w].id, "stranded">> \in Jobs \X {"stranded", "dropped", "budget"}
    BY <2>1
  <2>4. /\ lost' = lost \/ lost' = lost \cup {<<held[w].id, "stranded">>}
        /\ dead' = dead \/ dead' = dead \cup {held[w].id}
        /\ deadHere' = deadHere \/ deadHere' = deadHere \cup {held[w].id}
    BY <1>6, Zenon DEF DeadLetter
  <2>5. /\ dead' \subseteq Jobs /\ deadHere' \subseteq Jobs
        /\ lost' \subseteq Jobs \X {"stranded", "dropped", "budget"}
    BY <1>0, <2>1, <2>3, <2>4 DEF TypeOK
  <2> QED BY <1>0, <1>6, <2>2, <2>5 DEF TypeOK, DeadLetter
<1>7. ASSUME NEW w \in Workers, Nack(w) PROVE TypeOK'
  BY <1>0, <1>7, Zenon DEF TypeOK, Nack
<1>7r. ASSUME NEW w \in Workers, Requeue(w) PROVE TypeOK'
  <2>h. PICK e : e = Requeued(held[w])
    OBVIOUS
  <2>1. /\ w \in Nacking /\ Release(w)
        /\ UNCHANGED <<pel, deadVars, serving, crashes, accepted, done, runs>>
        /\ \/ /\ lost' = lost \cup {<<e.id, "budget">>}
              /\ UNCHANGED <<stream, unsure>>
           \/ \E over \in {TRUE, ~serving \/ pc[w] = "late"} : \E out \in XAdd(e, over) :
                   /\ stream' = stream \o out[1]
                   /\ lost' = IF out[1] = << >> THEN lost \cup {<<e.id, "dropped">>} ELSE lost
                   /\ unsure' = IF Unsure(out) THEN unsure \cup {e.id} ELSE unsure
    BY <1>7r, <2>h, Zenon DEF Requeue
  <2>2. e \in Entry /\ e.id \in Jobs /\ (e.copy = 1 => e.id \in unsure)
    <3>1. w \in InFlight /\ pc[w] # "picked"
      BY <2>1 DEF InFlight, Nacking
    <3>2. e = Token(w)
      BY <2>h, <3>1 DEF Token, Requeued
    <3>3. e \in Entry /\ e \in Tokens
      BY <1>0, <3>1, <3>2, TokenFields, Zenon DEF Handed
    <3> QED BY <3>3, EntryFields, Zenon DEF RedisInv, Known
  <2>3. ASSUME NEW over \in BOOLEAN, NEW out \in XAdd(e, over) PROVE stream \o out[1] \in Seq(Entry)
    <3>1. Doubled(e, out) => e.copy = 0
      BY <2>2, EntryFields DEF Doubled
    <3>2. out[1] \in Seq(Entry)
      BY <2>2, <3>1, XAddOutcomes, XAddWrites, Zenon
    <3> QED BY <1>0, <3>2, Written DEF TypeOK
  <2>4. stream' \in Seq(Entry) /\ unsure' \subseteq Jobs /\ lost' \subseteq Jobs \X {"stranded", "dropped", "budget"}
    <3>1. CASE lost' = lost \cup {<<e.id, "budget">>} /\ UNCHANGED <<stream, unsure>>
      BY <1>0, <2>2, <3>1 DEF TypeOK
    <3>2. ASSUME NEW over \in BOOLEAN, NEW out \in XAdd(e, over), stream' = stream \o out[1],
                 lost' = IF out[1] = << >> THEN lost \cup {<<e.id, "dropped">>} ELSE lost,
                 unsure' = IF Unsure(out) THEN unsure \cup {e.id} ELSE unsure
          PROVE  stream' \in Seq(Entry) /\ unsure' \subseteq Jobs /\ lost' \subseteq Jobs \X {"stranded", "dropped", "budget"}
      BY <1>0, <2>2, <2>3, <3>2 DEF TypeOK
    <3>3. \A over \in {TRUE, ~serving \/ pc[w] = "late"} : over \in BOOLEAN
      BY Zenon
    <3> QED BY <2>1, <3>1, <3>2, <3>3, Zenon
  <2>5. /\ pc' \in [Workers -> {"loop", "dequeue", "picked", "handling", "requeue", "late", "exited"}]
        /\ held' \in [Workers -> Entry \cup {NoEntry}] /\ pel' \subseteq Entry
    BY <1>0, <2>1, Zenon DEF TypeOK, Release
  <2>6. UNCHANGED <<deadVars, serving, crashes, accepted, done, runs>>
    BY <2>1, Zenon
  <2> QED BY <1>0, <2>4, <2>5, <2>6 DEF TypeOK
<1>8. CASE CancelJobs
  BY <1>0, <1>8, Zenon DEF TypeOK, CancelJobs
<1>9. CASE CrashAndRestart
  <2>1. Held \subseteq Jobs
    <3>1. \A w \in InFlight : held[w].id \in Jobs
      BY <1>0, EntryFields, Zenon DEF Handed
    <3> QED BY <3>1 DEF Held, InFlight
  <2>2. lost' \subseteq Jobs \X {"stranded", "dropped", "budget"}
    <3>1. \A j \in Jobs : /\ <<j, "stranded">> \in Jobs \X {"stranded", "dropped", "budget"}
                          /\ <<j, "dropped">> \in Jobs \X {"stranded", "dropped", "budget"}
      OBVIOUS
    <3>2. /\ deadHere \subseteq Jobs /\ Nacking \subseteq InFlight
          /\ \A w \in InFlight : held[w].id \in Jobs
      BY <1>0, <2>1 DEF TypeOK, Held, Nacking, InFlight
    <3>3. lost \subseteq Jobs \X {"stranded", "dropped", "budget"}
      BY <1>0 DEF TypeOK
    <3> QED BY <1>9, <3>1, <3>2, <3>3, Zenon DEF CrashAndRestart
  <2>3. crashes' \in 0..MaxCrashes
    BY <1>0, <1>9, RedisJobsAssumption DEF TypeOK, CrashAndRestart
  <2>4. pc' \in [Workers -> {"loop", "dequeue", "picked", "handling", "requeue", "late", "exited"}] /\ held' \in [Workers -> Entry \cup {NoEntry}]
    BY <1>9 DEF CrashAndRestart
  <2> QED BY <1>0, <1>9, <2>2, <2>3, <2>4 DEF TypeOK, CrashAndRestart
<1>10. CASE UNCHANGED vars
  BY <1>0, <1>10 DEF TypeOK, vars
<1> QED
  BY <1>1, <1>2, <1>3, <1>4, <1>5, <1>6, <1>7, <1>7r, <1>8, <1>9, <1>10 DEF Next, Worker

\* Nothing has been written, taken or counted when the process first starts.
LEMMA InitInv == Init => RedisInv
<1> SUFFICES ASSUME Init PROVE RedisInv
  OBVIOUS
<1>1. TypeOK
  <2>1. stream \in Seq(Entry)
    BY DEF Init
  <2> QED BY <2>1, RedisJobsAssumption DEF Init, TypeOK
<1>2. Range(stream) = {} /\ InFlight = {}
  BY DEF Init, Range, InFlight
<1>3. Tokens = {} /\ Queued = {} /\ Held = {} /\ Buried = {} /\ LostJobs = {} /\ Stranded = {} /\ Over = {}
  BY <1>2, Zenon DEF Init, Tokens, Queued, Held, Buried, LostJobs, Stranded, Over
<1>4. Handed /\ Known /\ Claimable
  BY <1>2, <1>3 DEF Init, Handed, Known, Claimable
<1>5. NoJobTwice
  BY <1>2, <1>3 DEF Init, NoJobTwice
<1>6. Counted
  <2>1. ASSUME NEW j \in Jobs PROVE Tried(j)
    <3>1. runs[j] = 0 /\ 0 \in 0..Budget /\ 0 <= 0 + 0
      BY BudgetFacts DEF Init
    <3> QED BY <1>3, <3>1 DEF Tried
  <2> QED BY <1>2, <1>3, <2>1, Zenon DEF Counted
<1> QED BY <1>1, <1>4, <1>5, <1>6 DEF RedisInv

\* Every step keeps the invariant.
LEMMA NextInv == RedisInv /\ [Next]_vars => RedisInv'
<1> SUFFICES ASSUME RedisInv, [Next]_vars PROVE RedisInv'
  OBVIOUS
<1>0. TypeOK' /\ pc \in [Workers -> {"loop", "dequeue", "picked", "handling", "requeue", "late", "exited"}]
  BY TypeNext, Zenon DEF RedisInv, TypeOK
<1>1. ASSUME NEW j \in Jobs, Enqueue(j) PROVE RedisInv'
  BY <1>0, <1>1, InvEnqueue
<1>2. ASSUME NEW w \in Workers, CheckContext(w) \/ DequeueEnds(w) PROVE RedisInv'
  <2>1. InFlight' = InFlight /\ \A v \in InFlight : pc'[v] = pc[v]
    BY <1>0, <1>2 DEF CheckContext, DequeueEnds, Exit, InFlight
  <2> QED BY <1>0, <1>2, <2>1, QuietStep DEF CheckContext, DequeueEnds
<1>3. ASSUME NEW w \in Workers, Dequeue(w) PROVE RedisInv'
  BY <1>0, <1>3, InvDequeue
<1>4. ASSUME NEW w \in Workers, RunJob(w) PROVE RedisInv'
  BY <1>0, <1>4, InvRunJob
<1>5. ASSUME NEW w \in Workers, HandlerSucceeds(w) PROVE RedisInv'
  BY <1>0, <1>5, InvHandlerSucceeds
<1>6. ASSUME NEW w \in Workers, DeadLetter(w) PROVE RedisInv'
  BY <1>0, <1>6, InvDeadLetter
<1>7. ASSUME NEW w \in Workers, Nack(w) PROVE RedisInv'
  BY <1>0, <1>7, InvNack
<1>7r. ASSUME NEW w \in Workers, Requeue(w) PROVE RedisInv'
  BY <1>0, <1>7r, InvRequeue
<1>8. CASE CancelJobs \/ UNCHANGED vars
  <2>1. UNCHANGED <<stream, pel, deadVars, pc, held, accepted, done, runs, lost, unsure>>
    BY <1>8 DEF CancelJobs, vars
  <2>2. InFlight' = InFlight
    BY <2>1 DEF InFlight
  <2> QED BY <1>0, <2>1, <2>2, QuietStep
<1>9. CASE CrashAndRestart
  BY <1>0, <1>9, InvCrash
<1> QED
  BY <1>1, <1>2, <1>3, <1>4, <1>5, <1>6, <1>7, <1>7r, <1>8, <1>9 DEF Next, Worker

-----------------------------------------------------------------------------
(* The theorems.                                                            *)

\* The invariant holds in every reachable state.
THEOREM RedisInvariance == Spec => []RedisInv
BY InitInv, NextInv, PTL DEF Spec

\* However calls fail and whenever the process crashes, no entry is at two
\* places at once, and no job is unless its XADD was resent.
THEOREM NoDuplication == Spec => []NoJobTwice
<1>1. RedisInv => NoJobTwice
  BY DEF RedisInv
<1> QED BY <1>1, RedisInvariance, PTL

\* However calls fail and whenever the process crashes, a job is tried no more
\* often than documented, twice as often only if its XADD was resent.  (The count
\* in its entries is what bounds the tries, and each try moves it by two.)
THEOREM BudgetKept == Spec => []RetryBudget
<1>1. RedisInv => RetryBudget
  <2> SUFFICES ASSUME RedisInv, NEW j \in Jobs
               PROVE  runs[j] <= (MaxRetries + 1) * (IF j \in unsure THEN 2 ELSE 1)
    BY DEF RetryBudget
  <2>1. PICK a \in 0..Budget, b \in 0..Budget : runs[j] <= a + b /\ (j \notin unsure => b = 0)
    BY DEF RedisInv, Counted, Tried
  <2>2. runs[j] \in Nat /\ Budget \in Nat /\ MaxRetries \in Nat /\ Budget <= MaxRetries + 1
    BY BudgetFacts, RedisJobsAssumption DEF RedisInv, TypeOK
  <2>3. CASE j \in unsure
    BY <2>1, <2>2, <2>3
  <2>4. CASE j \notin unsure
    BY <2>1, <2>2, <2>4
  <2> QED BY <2>3, <2>4
<1> QED BY <1>1, RedisInvariance, PTL

\* Nack never gives up silently when the budget is even, as the one that
\* Registry.Enqueue sets is: the counter it compares goes up by twos.
NotByBudget == \A l \in lost : l[2] # "budget"

\* No step gives a job up for its budget.
LEMMA NotByBudgetNext ==
    ASSUME Even(MaxRetries)
    PROVE  RedisInv /\ NotByBudget /\ [Next]_vars => NotByBudget'
<1> SUFFICES ASSUME RedisInv, NotByBudget, [Next]_vars PROVE NotByBudget'
  OBVIOUS
<1>0. ASSUME NEW j, NEW why, why # "budget", lost' = lost \cup {<<j, why>>} PROVE NotByBudget'
  <2>1. <<j, why>>[2] = why
    OBVIOUS
  <2> QED BY <1>0, <2>1 DEF NotByBudget
<1>1. ASSUME NEW w \in Workers, Requeue(w) PROVE NotByBudget'
  <2>h. PICK e : e = Requeued(held[w])
    OBVIOUS
  <2>0. w \in InFlight /\ pc[w] \notin {"picked", "handling"}
    BY <1>1 DEF Requeue, InFlight, Nacking
  <2>1. held[w].attempts <= MaxRetries
    BY <2>0 DEF RedisInv, Counted
  <2>2. e = Token(w) /\ e.attempts = held[w].attempts + 1 /\ held[w].attempts \in Nat /\ Even(e.attempts)
    <3>1. e = Token(w)
      BY <2>0, <2>h DEF Token, Requeued
    <3>2. e \in Tokens /\ e.attempts = held[w].attempts + 1 /\ held[w].attempts \in Nat
      BY <2>0, <3>1, TokenFields, EntryFields DEF RedisInv, Handed
    <3> QED BY <3>1, <3>2, Zenon DEF RedisInv, Counted
  <2>3. ~(e.attempts > MaxRetries)
    <3>1. PICK k \in Nat : e.attempts = 2 * k
      BY <2>2 DEF Even
    <3>2. PICK h \in Nat : MaxRetries = 2 * h
      BY DEF Even
    <3> QED BY <2>1, <2>2, <3>1, <3>2
  <2>4. lost' = lost \/ lost' = lost \cup {<<e.id, "dropped">>}
    BY <1>1, <2>3, <2>h, Zenon DEF Requeue
  <2> QED BY <1>0, <2>4 DEF NotByBudget
<1>2. ASSUME NEW w \in Workers, Dequeue(w) PROVE NotByBudget'
  BY <1>0, <1>2 DEF Dequeue, NotByBudget
<1>3. ASSUME NEW w \in Workers, DeadLetter(w) PROVE NotByBudget'
  <2>1. lost' = lost \/ lost' = lost \cup {<<held[w].id, "stranded">>}
    BY <1>3, Zenon DEF DeadLetter
  <2> QED BY <1>0, <2>1 DEF NotByBudget
<1>4. CASE CrashAndRestart
  <2>1. \A j : <<j, "stranded">>[2] = "stranded" /\ <<j, "dropped">>[2] = "dropped"
    OBVIOUS
  <2> QED BY <1>4, <2>1 DEF CrashAndRestart, NotByBudget
<1>5. CASE UNCHANGED lost
  BY <1>5 DEF NotByBudget
<1> QED
  BY <1>1, <1>2, <1>3, <1>4, <1>5, Zenon
  DEF Next, Worker, vars, Enqueue, CheckContext, DequeueEnds, RunJob, HandlerSucceeds, Nack, CancelJobs

\* For an even budget, an accepted job is in the stream, in a worker's hands,
\* finished or dead-lettered, unless a crash, a failed call or an expired
\* context took it, and what was stranded is still pending on Redis.
THEOREM Conservation ==
    ASSUME Even(MaxRetries)
    PROVE  Spec => []NoJobVanishes
<1>1. Init => NotByBudget
  BY DEF Init, NotByBudget
<1>2. RedisInv /\ NotByBudget => NoJobVanishes
  <2> SUFFICES ASSUME RedisInv, NotByBudget PROVE NoJobVanishes
    OBVIOUS
  <2>1. ASSUME NEW l \in lost, l[2] = "stranded" PROVE \E e \in pel : e.id = l[1]
    <3>1. l[1] \in Stranded
      BY <2>1 DEF Stranded
    <3> QED BY <3>1 DEF RedisInv, Claimable, Spare
  <2> QED BY <2>1 DEF RedisInv, Known, Over, NotByBudget, NoJobVanishes
<1>3. RedisInv /\ NotByBudget /\ [Next]_vars => NotByBudget'
  BY NotByBudgetNext
<1> QED BY <1>1, <1>2, <1>3, RedisInvariance, PTL DEF Spec
=============================================================================
