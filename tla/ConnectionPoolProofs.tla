------------------------- MODULE ConnectionPoolProofs -------------------------
(***************************************************************************)
(* Proofs about ConnectionPool for any number of slots, rows and sessions  *)
(* and any size of the pool.  The argument is the order of the steps of a  *)
(* transaction: it acquires its connection first and never another one     *)
(* (Tidy, a fact about the transactions), so whether a slot has one can be *)
(* read off the step it is at (Sound); and a lock is granted only if it    *)
(* conflicts with none that is held (Exclusive).                           *)
(***************************************************************************)
EXTENDS ConnectionPool, SequenceTheorems, FiniteSetTheorems, TLAPS

Steps == {"conn", "lock", "share", "rows", "body", "put", "store"}

\* The steps that may follow step x.
Follows(x) ==
    CASE x = "lock"  -> {"body", "rows"}
      [] x = "body"  -> {"rows"}
      [] x = "rows"  -> {"share", "put"}
      [] x = "share" -> {"rows"}
      [] OTHER       -> {}

\* A sequence of steps in that order, which does not end with a lock.
Tidy(s) ==
    /\ s \in Seq(Steps) /\ s # <<>>
    /\ s[Len(s)] \in {"conn", "rows", "put", "store"}
    /\ \A i \in 1..(Len(s) - 1) : s[i + 1] \in Follows(s[i])

Parts == Transactions \cup Openings

\* What is left of a part.
Plans == UNION {Suffixes(s) : s \in Parts}

-----------------------------------------------------------------------------
(* The parts are tidy, and so is what is left of them.                     *)

LEMMA TidyParts ==
    /\ \A s \in Parts : Tidy(s)
    /\ \A s \in Transactions : s[1] \in {"lock", "rows"}
    /\ \A s \in Openings : s[1] \in {"conn", "store"}
<1>1. Tidy(Statement) /\ Tidy(Wipe) /\ Statement[1] = "rows" /\ Wipe[1] = "rows"
  BY DEF Tidy, Statement, Wipe, Follows, Steps
<1>2. Tidy(Insert) /\ Insert[1] = "rows"
  BY DEF Tidy, Insert, Follows, Steps
<1>3. Tidy(Patch) /\ Tidy(Cascade) /\ Patch[1] = "lock" /\ Cascade[1] = "lock"
  BY DEF Tidy, Patch, Cascade, Follows, Steps
<1>4. Tidy(Upload) /\ Upload[1] = "lock"
  BY DEF Tidy, Upload, Follows, Steps
<1>5. \A s \in Openings : Tidy(s) /\ s[1] \in {"conn", "store"}
  <2>1. Tidy(<<"conn">>) /\ Tidy(<<"store">>)
    BY DEF Tidy, Follows, Steps
  <2> QED BY <2>1 DEF Openings
<1> QED BY <1>1, <1>2, <1>3, <1>4, <1>5 DEF Parts, Transactions

\* What is left of a part: nothing, or a tidy sequence of steps.
LEMMA PlansTidy == \A t \in Plans : t # <<>> => Tidy(t)
<1> SUFFICES ASSUME NEW s \in Parts, NEW l \in 1..Len(s), Tidy(s)
             PROVE  Tidy(SubSeq(s, l, Len(s)))
  BY TidyParts DEF Plans, Suffixes
<1>1. /\ s \in Seq(Steps) /\ Len(s) \in Nat \ {0}
      /\ \A i \in l..Len(s) : s[i] \in Steps
  BY EmptySeq, ElementOfSeq DEF Tidy
<1> DEFINE t == SubSeq(s, l, Len(s))
<1>2. /\ t \in Seq(Steps) /\ Len(t) = Len(s) - l + 1
      /\ \A i \in 1..(Len(s) - l + 1) : t[i] = s[l + i - 1]
  BY <1>1, SubSeqProperties
<1> HIDE DEF t
<1>3. t # <<>>
  <2>1. Len(t) # 0
    BY <1>1, <1>2
  <2> QED BY <2>1, EmptySeq
<1>4. t[Len(t)] = s[Len(s)]
  BY <1>1, <1>2
<1>5. ASSUME NEW i \in 1..(Len(t) - 1) PROVE t[i + 1] \in Follows(t[i])
  <2>1. /\ l + i - 1 \in 1..(Len(s) - 1)
        /\ t[i] = s[l + i - 1] /\ t[i + 1] = s[(l + i - 1) + 1]
    BY <1>1, <1>2
  <2> QED BY <2>1 DEF Tidy
<1>6. Tidy(t)
  BY <1>2, <1>3, <1>4, <1>5 DEF Tidy
<1> QED BY <1>6 DEF t

\* Taking the first step leaves the rest of the same part.
LEMMA PlansTail == ASSUME NEW t \in Plans, t # <<>> PROVE Tail(t) \in Plans
<1>1. PICK s \in Parts : t \in Suffixes(s)
  BY DEF Plans
<1>2. PICK l \in 1..Len(s) : t = SubSeq(s, l, Len(s))
  BY <1>1 DEF Suffixes
<1>3. s \in Seq(Steps) /\ Len(s) \in Nat
  BY TidyParts, LenProperties DEF Tidy
<1>4. Tail(t) = SubSeq(s, l + 1, Len(s))
  BY <1>2, <1>3, HeadTailOfSubSeq
<1>5. CASE l + 1 \in 1..Len(s)
  <2> DEFINE rest(n) == SubSeq(s, n, Len(s))
  <2>1. rest(l + 1) \in Suffixes(s)
    <3> HIDE DEF rest
    <3>1. rest(l + 1) \in {rest(n) : n \in 1..Len(s)}
      BY <1>5
    <3> QED BY <3>1 DEF Suffixes, rest
  <2> QED BY <1>4, <2>1 DEF Plans
<1>6. CASE l + 1 \notin 1..Len(s)
  <2>1. Tail(t) = <<>>
    BY <1>3, <1>4, <1>6, SubSeqEmpty
  <2> QED BY <2>1 DEF Suffixes, Plans
<1> QED BY <1>5, <1>6

\* A part is what is left of itself, and so is nothing.
LEMMA PlansParts == Parts \subseteq Plans /\ <<>> \in Plans
<1>1. ASSUME NEW s \in Parts PROVE s \in Suffixes(s) /\ <<>> \in Suffixes(s)
  <2>1. s \in Seq(Steps) /\ Len(s) \in Nat \ {0}
    BY TidyParts, EmptySeq DEF Tidy
  <2>2. SubSeq(s, 1, Len(s)) = s
    BY <2>1, SubSeqFull
  <2> QED BY <2>1, <2>2 DEF Suffixes
<1>2. Statement \in Parts
  BY DEF Parts, Transactions
<1> QED BY <1>1, <1>2 DEF Plans

-----------------------------------------------------------------------------
(* The inductive invariant. *)

Records == [steps : Plans, conn : BOOLEAN, holds : SUBSET Locks, wants : SUBSET Locks]

\* A request: what it can hold is told by the step it is at.
Sound(q) ==
    /\ q \in Records
    /\ q.steps = <<>> => q = Idle
    /\ q.conn <=> q.steps # <<>> /\ Head(q.steps) \in {"lock", "share", "rows", "body", "put"}
    /\ q.holds # {} => q.conn
    /\ q.wants # {} => q.steps # <<>> /\ Head(q.steps) \in {"lock", "share", "rows"}

Requests == req \in [Slots -> Records] /\ \A r \in Slots : Sound(req[r])

\* No two requests hold locks that conflict.
Exclusive ==
    \A r \in Slots : \A x \in Slots \ {r} :
        \A a \in req[r].holds, b \in req[x].holds : ~Conflict(a, b)

\* No element is there twice.
Distinct(s) == \A i, j \in 1..Len(s) : s[i] = s[j] => i = j

\* The waiters: each is there once, and is about to acquire a connection.
Waiters ==
    /\ queue \in Seq(Slots)
    /\ Distinct(queue)
    /\ \A i \in 1..Len(queue) : At(queue[i], "conn")

Lent == {r \in Slots : req[r].conn}

IInv == Requests /\ Exclusive /\ Waiters /\ IsFiniteSet(Lent) /\ Cardinality(Lent) <= Size

\* The first step of a plan, and what comes after it.
LEMMA Ahead ==
    ASSUME NEW s \in Plans, s # <<>>
    PROVE  /\ Head(s) \in Steps /\ Len(s) \in Nat \ {0}
           /\ Len(s) = 1 => Head(s) \in {"conn", "rows", "put", "store"}
           /\ Len(s) # 1 => /\ Tail(s) \in Plans /\ Tail(s) # <<>>
                            /\ Head(Tail(s)) \in Follows(Head(s))
<1>1. Tidy(s)
  BY PlansTidy
<1>2. s \in Seq(Steps) /\ Len(s) \in Nat \ {0} /\ Head(s) = s[1]
  BY <1>1, EmptySeq DEF Tidy
<1>3. Head(s) \in Steps
  BY <1>2, ElementOfSeq
<1>4. ASSUME Len(s) # 1 PROVE Tail(s) # <<>> /\ Head(Tail(s)) \in Follows(Head(s))
  <2>0. Len(s) - 1 \in Nat \ {0}
    BY <1>2, <1>4
  <2>1. /\ Len(Tail(s)) = Len(s) - 1 /\ Tail(s) \in Seq(Steps)
        /\ \A i \in 1..Len(Tail(s)) : Tail(s)[i] = s[i + 1]
    BY <1>2, HeadTailProperties
  <2>2. Tail(s)[1] = s[1 + 1]
    BY <2>0, <2>1
  <2>3. Tail(s) # <<>>
    BY <2>0, <2>1, EmptySeq
  <2>4. Head(Tail(s)) = Tail(s)[1]
    BY <2>1, <2>3
  <2>5. s[1 + 1] \in Follows(s[1])
    <3>1. \A n \in Nat \ {0} : 1 \in 1..n
      OBVIOUS
    <3> QED BY <1>1, <2>0, <3>1 DEF Tidy
  <2> QED BY <1>2, <2>2, <2>3, <2>4, <2>5
<1> QED BY <1>1, <1>2, <1>3, <1>4, PlansTail DEF Tidy

\* An idle slot is sound, and so is one that begins.
LEMMA SoundBegin ==
    /\ Sound(Idle)
    /\ \A s \in Openings : Sound([Idle EXCEPT !.steps = s])
<1>1. \A s \in Openings : s \in Plans /\ s # <<>> /\ Head(s) \in {"conn", "store"}
  <2> TAKE s \in Openings
  <2>1. s \in Plans /\ s # <<>> /\ s \in Seq(Steps) /\ s[1] \in {"conn", "store"}
    BY PlansParts, TidyParts DEF Tidy, Parts
  <2> QED BY <2>1
<1>2. Sound(Idle)
  BY PlansParts DEF Sound, Records, Idle
<1>3. ASSUME NEW s \in Openings PROVE Sound([Idle EXCEPT !.steps = s])
  BY <1>1 DEF Sound, Records, Idle
<1> QED BY <1>2, <1>3

\* The next step of a sound request that awaits no lock.
LEMMA SoundAfter ==
    ASSUME NEW q, Sound(q), q.steps # <<>>, q.wants = {}, Head(q.steps) # "conn"
    PROVE  /\ Sound(After(q)) /\ After(q).holds \subseteq q.holds
           /\ After(q).conn => q.conn
<1>1. CASE Len(q.steps) = 1
  BY <1>1, SoundBegin DEF After, Idle
<1>2. CASE Len(q.steps) # 1
  <2> DEFINE t == Tail(q.steps)
             h == Head(q.steps)
  <2>1. After(q) = [q EXCEPT !.steps = t]
    BY <1>2 DEF After
  <2>2. /\ h \in Steps
        /\ t \in Plans /\ t # <<>> /\ Head(t) \in Follows(h)
    BY <1>2, Ahead DEF Sound, Records
  <2>3. q.conn <=> h \in {"lock", "share", "rows", "body", "put"}
    BY DEF Sound
  <2> HIDE DEF t, h
  <2> QED BY <2>1, <2>2, <2>3 DEF Sound, Records, Follows
<1> QED BY <1>1, <1>2

\* A sound request is granted the locks it wants.
LEMMA SoundLock ==
    ASSUME NEW q, Sound(q), q.wants # {}, NEW next,
           next = IF Head(q.steps) = "rows" THEN q ELSE After(q)
    PROVE  LET n == [next EXCEPT !.holds = @ \cup q.wants, !.wants = {}]
           IN  Sound(n) /\ n.holds = q.holds \cup q.wants /\ n.conn = q.conn
<1> DEFINE h == Head(q.steps)
<1>1. q.steps # <<>> /\ h \in {"lock", "share", "rows"} /\ q.steps \in Plans /\ q.conn
  BY DEF Sound, Records
<1>2. CASE h = "rows"
  BY <1>1, <1>2 DEF Sound, Records
<1>3. CASE h # "rows"
  <2> DEFINE t == Tail(q.steps)
  <2>1. /\ Len(q.steps) # 1
        /\ t \in Plans /\ t # <<>> /\ Head(t) \in Follows(h)
    BY <1>1, <1>3, Ahead
  <2>2. next = [q EXCEPT !.steps = t]
    BY <1>3, <2>1 DEF After
  <2> HIDE DEF t
  <2> QED BY <1>1, <1>3, <2>1, <2>2 DEF Sound, Records, Follows
<1> QED BY <1>2, <1>3

-----------------------------------------------------------------------------
(* The steps of the pool. *)

\* A request whose locks are free of conflicts with those of the others.
LEMMA Excludes ==
    ASSUME IInv, NEW r \in Slots, NEW q, Sound(q), req' = [req EXCEPT ![r] = q],
           \A x \in Slots \ {r} : \A a \in q.holds, b \in req[x].holds : ~Conflict(a, b)
    PROVE  Exclusive'
<1>1. req'[r] = q /\ \A x \in Slots \ {r} : req'[x] = req[x]
  BY DEF IInv, Requests
<1>2. \A a, b : Conflict(a, b) => Conflict(b, a)
  BY DEF Conflict
<1>3. ASSUME NEW y \in Slots, NEW x \in Slots \ {y},
             NEW a \in req'[y].holds, NEW b \in req'[x].holds
      PROVE  ~Conflict(a, b)
  <2>1. CASE y = r
    BY <1>1, <1>3, <2>1
  <2>2. CASE x = r
    BY <1>1, <1>2, <1>3, <2>2
  <2>3. CASE y # r /\ x # r
    BY <1>1, <1>3, <2>3 DEF IInv, Exclusive
  <2> QED BY <2>1, <2>2, <2>3
<1> QED BY <1>3 DEF Exclusive

\* A request that goes on or ends without a connection: one less is lent, or
\* as many.
LEMMA Proceed ==
    ASSUME IInv, NEW r \in Slots, NEW q, Sound(q), req' = [req EXCEPT ![r] = q],
           q.conn => req[r].conn
    PROVE  Requests' /\ IsFiniteSet(Lent') /\ Cardinality(Lent') <= Size
<1>1. Requests'
  BY DEF IInv, Requests, Sound
<1>2. Lent' = IF q.conn THEN Lent ELSE Lent \ {r}
  BY DEF IInv, Requests, Sound, Records, Lent
<1>3. /\ IsFiniteSet(Lent \ {r}) /\ Cardinality(Lent) \in Nat
      /\ Cardinality(Lent \ {r}) \in {Cardinality(Lent), Cardinality(Lent) - 1}
  BY FS_RemoveElement, FS_CardinalityType DEF IInv
<1>4. CASE q.conn
  BY <1>1, <1>2, <1>4 DEF IInv
<1>5. CASE ~q.conn
  BY <1>1, <1>2, <1>3, <1>5, SizeAssumption DEF IInv
<1> QED BY <1>4, <1>5

\* The waiters stay in line when somebody who does not wait goes on.
LEMMA WaitersStay ==
    ASSUME IInv, NEW r \in Slots, NEW q, req' = [req EXCEPT ![r] = q],
           ~Queued(r), queue' = queue
    PROVE  Waiters'
<1>1. \A i \in 1..Len(queue) : queue[i] \in Slots /\ queue[i] # r
  BY ElementOfSeq DEF IInv, Waiters, Queued
<1> QED BY <1>1 DEF IInv, Waiters, Requests, At, Active

\* A sequence without the element at position i.
LEMMA RemoveAtProperties ==
    ASSUME NEW S, NEW s \in Seq(S), NEW i \in 1..Len(s), NEW t, t = RemoveAt(s, i)
    PROVE  /\ t \in Seq(S) /\ Len(t) = Len(s) - 1
           /\ \A j \in 1..(Len(s) - 1) : t[j] = IF j < i THEN s[j] ELSE s[j + 1]
<1> DEFINE a == SubSeq(s, 1, i - 1)
           b == SubSeq(s, i + 1, Len(s))
           n == Len(s)
<1>1. n \in Nat /\ i \in Nat \ {0} /\ i <= n /\ \A j \in 1..n : s[j] \in S
  BY LenProperties, ElementOfSeq
<1> HIDE DEF n
<1>2. /\ a \in Seq(S) /\ Len(a) = i - 1
      /\ \A j \in 1..(i - 1) : a[j] = s[j]
  <2>1. \A j \in 1..(i - 1) : s[j] \in S
    BY <1>1
  <2>2. /\ a \in Seq(S) /\ Len(a) = IF 1 <= i - 1 THEN (i - 1) - 1 + 1 ELSE 0
        /\ \A j \in 1..((i - 1) - 1 + 1) : a[j] = s[1 + j - 1]
    BY <1>1, <2>1, SubSeqProperties
  <2> HIDE DEF a
  <2> QED BY <1>1, <2>2
<1>3. /\ b \in Seq(S) /\ Len(b) = n - i
      /\ \A j \in 1..(n - i) : b[j] = s[i + j]
  <2>1. \A j \in (i + 1)..n : s[j] \in S
    BY <1>1
  <2>2. /\ b \in Seq(S) /\ Len(b) = IF i + 1 <= n THEN n - (i + 1) + 1 ELSE 0
        /\ \A j \in 1..(n - (i + 1) + 1) : b[j] = s[(i + 1) + j - 1]
    BY <1>1, <2>1, SubSeqProperties DEF n
  <2> HIDE DEF b
  <2> QED BY <1>1, <2>2
<1>4. t = a \o b
  BY DEF RemoveAt
<1> HIDE DEF a, b
<1>5. /\ t \in Seq(S) /\ Len(t) = Len(a) + Len(b)
      /\ \A j \in 1..(Len(a) + Len(b)) :
            t[j] = IF j <= Len(a) THEN a[j] ELSE b[j - Len(a)]
  BY <1>2, <1>3, <1>4, ConcatProperties
<1>6. ASSUME NEW j \in 1..(n - 1) PROVE t[j] = IF j < i THEN s[j] ELSE s[j + 1]
  <2>1. j \in 1..(Len(a) + Len(b))
    BY <1>1, <1>2, <1>3
  <2>2. CASE j < i
    <3>1. j \in 1..(i - 1) /\ j <= Len(a)
      BY <1>1, <1>2, <2>2
    <3>2. t[j] = a[j] /\ a[j] = s[j]
      BY <1>2, <1>5, <2>1, <3>1
    <3> QED BY <2>2, <3>2
  <2>3. CASE ~(j < i)
    <3>1. j - Len(a) \in 1..(n - i) /\ i + (j - Len(a)) = j + 1
      BY <1>1, <1>2, <2>3
    <3> QED BY <1>1, <1>2, <1>3, <1>5, <2>1, <2>3, <3>1
  <2> QED BY <2>2, <2>3
<1> QED BY <1>1, <1>2, <1>3, <1>5, <1>6 DEF n

\* Taking an element out of a sequence without repetitions: the others stay.
LEMMA RemoveOneOf ==
    \A S : \A s \in Seq(S) : \A i \in 1..Len(s) : Distinct(s) =>
        /\ RemoveAt(s, i) \in Seq(S) /\ Distinct(RemoveAt(s, i))
        /\ \A j \in 1..Len(RemoveAt(s, i)) : \E k \in 1..Len(s) :
              RemoveAt(s, i)[j] = s[k] /\ s[k] # s[i]
<1> SUFFICES ASSUME NEW S, NEW s \in Seq(S), NEW i \in 1..Len(s), Distinct(s)
             PROVE  /\ RemoveAt(s, i) \in Seq(S) /\ Distinct(RemoveAt(s, i))
                    /\ \A j \in 1..Len(RemoveAt(s, i)) : \E k \in 1..Len(s) :
                          RemoveAt(s, i)[j] = s[k] /\ s[k] # s[i]
  OBVIOUS
<1> DEFINE n == Len(s)
           t == RemoveAt(s, i)
           m == Len(t)
<1>1. n \in Nat /\ i \in Nat /\ 1 <= i /\ i <= n /\ i \in 1..n
  BY LenProperties
<1>2. /\ t \in Seq(S) /\ m = n - 1
      /\ \A j \in 1..(n - 1) : t[j] = IF j < i THEN s[j] ELSE s[j + 1]
  BY RemoveAtProperties
<1>3. \A j, k \in 1..n : s[j] = s[k] => j = k
  BY DEF Distinct
<1> HIDE DEF n, m, t
<1> DEFINE old(j) == IF j < i THEN j ELSE j + 1
<1>4. \A j \in 1..m : old(j) \in 1..n /\ old(j) # i /\ t[j] = s[old(j)]
  BY <1>1, <1>2
<1>5. \A j, k \in 1..m : old(j) = old(k) => j = k
  BY <1>1, <1>2
<1> HIDE DEF old
<1>6. \A j, k \in 1..m : t[j] = t[k] => j = k
  BY <1>3, <1>4, <1>5
<1>7. \A j \in 1..m : \E k \in 1..n : t[j] = s[k] /\ s[k] # s[i]
  BY <1>1, <1>3, <1>4
<1> QED BY <1>2, <1>6, <1>7 DEF n, m, t, Distinct

\* The request of the waiter at position i goes on, or ends, without the line.
LEMMA RemoveOne ==
    ASSUME IInv, NEW i \in 1..Len(queue), NEW q, queue' = RemoveAt(queue, i),
           req' = [req EXCEPT ![queue[i]] = q]
    PROVE  Waiters'
<1>1. /\ queue \in Seq(Slots)
      /\ \A j \in 1..Len(queue) : queue[j] \in Slots
      /\ Distinct(queue)
      /\ \A j \in 1..Len(queue) : At(queue[j], "conn")
  BY ElementOfSeq DEF IInv, Waiters
<1>2. /\ queue' \in Seq(Slots)
      /\ Distinct(queue')
      /\ \A j \in 1..Len(queue') : \E k \in 1..Len(queue) :
            queue'[j] = queue[k] /\ queue[k] # queue[i]
  BY <1>1, RemoveOneOf
<1>3. ASSUME NEW j \in 1..Len(queue')
      PROVE  req'[queue'[j]].steps # <<>> /\ Head(req'[queue'[j]].steps) = "conn"
  <2>1. PICK k \in 1..Len(queue) : queue'[j] = queue[k] /\ queue[k] # queue[i]
    BY <1>2
  <2>2. req'[queue[k]] = req[queue[k]] /\ At(queue[k], "conn")
    BY <1>1, <2>1 DEF IInv, Requests
  <2> QED BY <2>1, <2>2 DEF At, Active
<1> QED BY <1>2, <1>3 DEF Waiters, At, Active

\* A request that ends leaves the line if it stands in it.
LEMMA Leaves ==
    ASSUME IInv, NEW r \in Slots, Finish(r), Leave(r)
    PROVE  IInv'
<1>1. req' = [req EXCEPT ![r] = Idle]
  BY DEF Finish
<1>2. Requests' /\ Exclusive' /\ IsFiniteSet(Lent') /\ Cardinality(Lent') <= Size
  <2>1. Sound(Idle) /\ ~Idle.conn /\ Idle.holds = {}
    BY SoundBegin DEF Idle
  <2>2. Exclusive'
    BY <1>1, <2>1, Excludes
  <2> QED BY <1>1, <2>1, <2>2, Proceed
<1>3. CASE ~Queued(r) /\ UNCHANGED queue
  BY <1>1, <1>2, <1>3, WaitersStay DEF IInv
<1>4. CASE \E i \in DOMAIN queue : queue[i] = r /\ queue' = RemoveAt(queue, i)
  <2>1. DOMAIN queue = 1..Len(queue)
    BY LenProperties DEF IInv, Waiters
  <2>2. PICK i \in 1..Len(queue) : queue[i] = r /\ queue' = RemoveAt(queue, i)
    BY <1>4, <2>1
  <2>3. Waiters'
    BY <1>1, <2>2, RemoveOne
  <2> QED BY <1>2, <2>3 DEF IInv
<1> QED BY <1>3, <1>4 DEF Leave

\* A request at no "conn" goes on without a connection: nobody else is
\* concerned.
LEMMA GoesOn ==
    ASSUME IInv, NEW r \in Slots, NEW q, Sound(q), req' = [req EXCEPT ![r] = q],
           q.conn => req[r].conn, q.holds \subseteq req[r].holds,
           ~At(r, "conn"), queue' = queue
    PROVE  IInv'
<1>1. ~Queued(r)
  <2>1. DOMAIN queue = 1..Len(queue)
    BY LenProperties DEF IInv, Waiters
  <2> QED BY <2>1 DEF IInv, Waiters, Queued
<1>2. Exclusive'
  BY Excludes DEF IInv, Exclusive
<1> QED BY <1>1, <1>2, Proceed, WaitersStay DEF IInv

\* The pool hands out a connection: there was one left.
LEMMA Lends ==
    ASSUME IInv, NEW r \in Slots, Obtain(r)
    PROVE  IInv'
<1>1. /\ queue # <<>> /\ Head(queue) = r /\ queue' = Tail(queue) /\ Used < Size
      /\ Used = Cardinality(Lent)
  BY DEF Obtain, Served, Used, Lent
<1>2. /\ queue \in Seq(Slots) /\ Len(queue) \in Nat \ {0} /\ queue[1] = r
      /\ queue' \in Seq(Slots) /\ Len(queue') = Len(queue) - 1
      /\ \A i \in 1..Len(queue') : queue'[i] = queue[i + 1]
  BY <1>1, HeadTailProperties, EmptySeq DEF IInv, Waiters
<1>3. At(r, "conn") /\ Sound(req[r])
  <2>1. \A n \in Nat \ {0} : 1 \in 1..n
    OBVIOUS
  <2> QED BY <1>2, <2>1 DEF IInv, Waiters, Requests
<1>4. PICK s \in Transactions :
         req' = [req EXCEPT ![r] = [req[r] EXCEPT !.steps = s, !.conn = TRUE]]
  <2>1. Len(req[r].steps) = 1
    <3>1. req[r].steps \in Plans /\ req[r].steps # <<>> /\ Head(req[r].steps) = "conn"
      BY <1>3 DEF At, Active, Sound, Records
    <3> QED BY <3>1, Ahead DEF Follows
  <2> QED BY <2>1 DEF Obtain
<1> DEFINE q == [req[r] EXCEPT !.steps = s, !.conn = TRUE]
<1>5. Sound(q) /\ q.conn /\ q.holds = {}
  <2>1. s \in Plans /\ s # <<>> /\ Head(s) \in {"lock", "rows"}
    <3>1. s \in Plans /\ s # <<>> /\ s \in Seq(Steps) /\ s[1] \in {"lock", "rows"}
      BY PlansParts, TidyParts DEF Tidy, Parts
    <3> QED BY <3>1
  <2>2. req[r].holds = {} /\ req[r].wants = {} /\ req[r] \in Records
    BY <1>3 DEF At, Active, Sound
  <2> QED BY <2>1, <2>2 DEF Sound, Records
<1>6. Requests' /\ Exclusive'
  <2>1. Requests'
    BY <1>4, <1>5 DEF IInv, Requests, Sound
  <2>2. Exclusive'
    <3> HIDE DEF q
    <3> QED BY <1>4, <1>5, Excludes DEF q
  <2> QED BY <2>1, <2>2
<1>7. Lent' = Lent \cup {r}
  BY <1>4, <1>5 DEF IInv, Requests, Lent
<1>8. IsFiniteSet(Lent') /\ Cardinality(Lent') <= Size
  <2>1. /\ IsFiniteSet(Lent \cup {r}) /\ Cardinality(Lent) \in Nat
        /\ Cardinality(Lent \cup {r}) \in {Cardinality(Lent), Cardinality(Lent) + 1}
    BY FS_AddElement, FS_CardinalityType DEF IInv
  <2> QED BY <1>1, <1>7, <2>1, SizeAssumption
<1>9. Waiters'
  <2> DEFINE n == Len(queue)
             m == Len(queue')
  <2>1. n \in Nat \ {0} /\ m = n - 1
    BY <1>2
  <2>2. \A i \in 1..n : queue[i] \in Slots /\ At(queue[i], "conn")
    BY ElementOfSeq DEF IInv, Waiters
  <2>3. \A i, j \in 1..n : queue[i] = queue[j] => i = j
    BY DEF IInv, Waiters, Distinct
  <2>a. \A i \in 1..m : queue'[i] = queue[i + 1]
    BY <1>2
  <2> HIDE DEF n, m
  <2>4. \A i \in 1..m : i + 1 \in 1..n /\ i + 1 # 1 /\ 1 \in 1..n /\ queue'[i] = queue[i + 1]
    BY <2>1, <2>a
  <2>5. \A i \in 1..m : queue'[i] \in Slots \ {r} /\ At(queue'[i], "conn")
    BY <1>2, <2>2, <2>3, <2>4
  <2>6. \A i, j \in 1..m : queue'[i] = queue'[j] => i = j
    <3>1. \A i, j \in 1..m : i + 1 = j + 1 => i = j
      BY <2>1
    <3> QED BY <2>3, <2>4, <3>1
  <2>7. \A x \in Slots \ {r} : req'[x] = req[x]
    BY <1>4 DEF IInv, Requests
  <2>8. \A i \in 1..m : req'[queue'[i]].steps # <<>> /\ Head(req'[queue'[i]].steps) = "conn"
    BY <2>5, <2>7 DEF At, Active
  <2> QED BY <1>2, <2>6, <2>8 DEF Waiters, Distinct, At, Active, m
<1> QED BY <1>6, <1>8, <1>9 DEF IInv

\* A request joins the line.
LEMMA Asks ==
    ASSUME IInv, NEW r \in Slots, Ask(r)
    PROVE  IInv'
<1>1. /\ At(r, "conn") /\ queue' = Append(queue, r) /\ req' = req
      /\ queue \in Seq(Slots) /\ Len(queue) \in Nat
      /\ \A i \in 1..Len(queue) : queue[i] # r
  BY LenProperties DEF Ask, Queued, IInv, Waiters
<1> DEFINE n == Len(queue)
<1>2. /\ queue' \in Seq(Slots) /\ Len(queue') = n + 1
      /\ \A i \in 1..n : queue'[i] = queue[i] /\ queue'[n + 1] = r
  BY <1>1, AppendProperties
<1>3. queue'[n + 1] = r
  BY <1>1, AppendProperties
<1>4. /\ \A i \in 1..n : At(queue[i], "conn")
      /\ \A i, j \in 1..n : queue[i] = queue[j] => i = j
  BY DEF IInv, Waiters, Distinct
<1>5. n \in Nat /\ \A i \in 1..n : queue[i] # r
  BY <1>1
<1> HIDE DEF n
<1>6. \A i \in 1..(n + 1) : i \in 1..n \/ i = n + 1
  BY <1>5
<1>7. \A i \in 1..(n + 1) : At(queue'[i], "conn")
  BY <1>1, <1>2, <1>3, <1>4, <1>6
<1>8. \A i, j \in 1..(n + 1) : queue'[i] = queue'[j] => i = j
  BY <1>2, <1>3, <1>4, <1>5, <1>6
<1>9. \A i \in 1..Len(queue') : req'[queue'[i]].steps # <<>> /\ Head(req'[queue'[i]].steps) = "conn"
  BY <1>1, <1>2, <1>7 DEF At, Active
<1>10. Waiters'
  BY <1>2, <1>8, <1>9 DEF Waiters, Distinct, At, Active
<1>11. Lent' = Lent /\ Requests' /\ Exclusive'
  BY <1>1 DEF IInv, Requests, Exclusive, Lent
<1> QED BY <1>10, <1>11 DEF IInv

-----------------------------------------------------------------------------
(* The invariant is inductive. *)

LEMMA Inductive == IInv /\ [Next]_vars => IInv'
<1> SUFFICES ASSUME IInv, [Next]_vars PROVE IInv'
  OBVIOUS
<1> USE DEF IInv
<1>1. ASSUME UNCHANGED vars PROVE IInv'
  BY <1>1 DEF vars, Requests, Exclusive, Waiters, Lent, At, Active
<1>2. ASSUME NEW r \in Slots, Begin(r) PROVE IInv'
  <2>1. PICK s \in Openings :
           ~Active(r) /\ req' = [req EXCEPT ![r] = [Idle EXCEPT !.steps = s]] /\ queue' = queue
    BY <1>2 DEF Begin
  <2> DEFINE q == [Idle EXCEPT !.steps = s]
  <2>2. Sound(q) /\ ~q.conn /\ q.holds = {}
    BY SoundBegin DEF Idle
  <2>3. ~At(r, "conn")
    BY <2>1 DEF At
  <2> HIDE DEF q
  <2>4. req' = [req EXCEPT ![r] = q] /\ queue' = queue
    BY <2>1 DEF q
  <2> QED BY <2>2, <2>3, <2>4, GoesOn
<1>3. ASSUME NEW r \in Slots, Ask(r) PROVE IInv'
  BY <1>3, Asks
<1>4. ASSUME NEW r \in Slots, Obtain(r) PROVE IInv'
  BY <1>4, Lends
<1>5. ASSUME NEW r \in Slots, Choose(r) PROVE IInv'
  <2>1. PICK l \in Offered(r) : req' = [req EXCEPT ![r].wants = {l}] /\ queue' = queue
    BY <1>5 DEF Choose
  <2> DEFINE q == [req[r] EXCEPT !.wants = {l}]
  <2>2. l \in Locks /\ req[r].steps # <<>> /\ Head(req[r].steps) \in {"lock", "share", "rows"}
    BY DEF Offered, At, Active
  <2>3. Sound(q) /\ q.conn = req[r].conn /\ q.holds = req[r].holds
    BY <2>2 DEF Requests, Sound, Records
  <2>4. ~At(r, "conn")
    BY <2>2 DEF At
  <2>5. req' = [req EXCEPT ![r] = q]
    BY <2>1
  <2> HIDE DEF q
  <2> QED BY <2>1, <2>3, <2>4, <2>5, GoesOn
<1>6. ASSUME NEW r \in Slots, GoOn(r) PROVE IInv'
  <2>1. Sound(req[r]) /\ req[r].steps # <<>> /\ Head(req[r].steps) = "rows" /\ req[r].wants = {}
    BY <1>6 DEF GoOn, At, Active, Requests
  <2>2. req' = [req EXCEPT ![r] = After(req[r])] /\ queue' = queue /\ ~At(r, "conn")
    BY <1>6, <2>1 DEF GoOn, Advance, At
  <2> QED BY <2>1, <2>2, SoundAfter, GoesOn
<1>7. ASSUME NEW r \in Slots, TakeLock(r) PROVE IInv'
  <2> DEFINE next == IF At(r, "rows") THEN req[r] ELSE After(req[r])
             q == [next EXCEPT !.holds = @ \cup req[r].wants, !.wants = {}]
  <2>1. Sound(req[r]) /\ req[r].wants # {} /\ req[r].steps # <<>>
        /\ Head(req[r].steps) \in {"lock", "share", "rows"}
    BY <1>7 DEF TakeLock, Granted, Requests, Sound
  <2>2. req' = [req EXCEPT ![r] = q] /\ queue' = queue /\ ~At(r, "conn")
    BY <1>7, <2>1 DEF TakeLock, At
  <2>3. next = IF Head(req[r].steps) = "rows" THEN req[r] ELSE After(req[r])
    BY <2>1 DEF At, Active
  <2>4. Sound(q) /\ q.holds = req[r].holds \cup req[r].wants /\ q.conn = req[r].conn
    <3> HIDE DEF next
    <3> QED BY <2>1, <2>3, SoundLock
  <2> HIDE DEF next, q
  <2>5. \A x \in Slots \ {r} : \A a \in q.holds, b \in req[x].holds : ~Conflict(a, b)
    BY <1>7, <2>4 DEF TakeLock, Granted, WaitsFor, Exclusive
  <2>6. ~Queued(r)
    <3>1. DOMAIN queue = 1..Len(queue)
      BY LenProperties DEF Waiters
    <3> QED BY <2>2, <3>1 DEF Waiters, Queued
  <2>7. Exclusive'
    BY <2>2, <2>4, <2>5, Excludes
  <2>8. Requests' /\ IsFiniteSet(Lent') /\ Cardinality(Lent') <= Size
    BY <2>2, <2>4, Proceed
  <2>9. Waiters'
    BY <2>2, <2>6, WaitersStay
  <2> QED BY <2>7, <2>8, <2>9
<1>8. ASSUME NEW r \in Slots, DeadlockVictim(r) PROVE IInv'
  <2>1. Sound(Idle) /\ ~Idle.conn /\ Idle.holds = {}
    BY SoundBegin DEF Idle
  <2>2. req[r].wants # {}
    BY <1>8 DEF DeadlockVictim, Circles
  <2>3. req' = [req EXCEPT ![r] = Idle] /\ queue' = queue /\ ~At(r, "conn")
    BY <1>8, <2>2 DEF DeadlockVictim, Finish, At, Requests, Sound
  <2> QED BY <2>1, <2>3, GoesOn
<1>9. ASSUME NEW r \in Slots, Reply(r) PROVE IInv'
  <2>1. Sound(req[r]) /\ req[r].steps # <<>> /\ Head(req[r].steps) \in {"body", "put", "store"}
    BY <1>9 DEF Reply, Stalled, Uploads, At, Active, Requests
  <2>2. req[r].wants = {}
    BY <2>1 DEF Sound
  <2>3. req' = [req EXCEPT ![r] = After(req[r])] /\ queue' = queue /\ ~At(r, "conn")
    BY <1>9, <2>1 DEF Reply, Advance, At
  <2> QED BY <2>1, <2>2, <2>3, SoundAfter, GoesOn
<1>10. ASSUME NEW r \in Slots, Die(r) PROVE IInv'
  BY <1>10, Leaves DEF Die
<1>11. ASSUME NEW r \in Slots, TimesOut(r) PROVE IInv'
  BY <1>11, Leaves DEF TimesOut
<1> QED
  BY <1>1, <1>2, <1>3, <1>4, <1>5, <1>6, <1>7, <1>8, <1>9, <1>10, <1>11 DEF Next, Runs

LEMMA Initially == Init => IInv
<1> SUFFICES ASSUME Init PROVE IInv
  OBVIOUS
<1>1. req = [r \in Slots |-> Idle] /\ queue = <<>>
  BY DEF Init
<1>2. Requests /\ Exclusive
  BY <1>1, SoundBegin DEF Requests, Exclusive, Sound, Idle
<1>3. Waiters
  BY <1>1 DEF Waiters, Distinct
<1>4. Lent = {}
  BY <1>1 DEF Lent, Idle
<1> QED BY <1>2, <1>3, <1>4, FS_EmptySet, SizeAssumption DEF IInv

LEMMA Invariance == Spec => []IInv
BY Initially, Inductive, PTL DEF Spec

-----------------------------------------------------------------------------

\* While time passes and requests wait for a connection, none is left; and a
\* group of holders without a stalled upload waits for somebody outside it,
\* for else it would be a circle.
LEMMA Refusal ==
    ASSUME IInv, TimePasses, queue # <<>>
    PROVE  /\ Cardinality(Lent) = Size
           /\ \A group \in SUBSET {r \in Lent : ~Uploads(r)} : group # {} =>
                 \E r \in group, x \in Lent \ group : WaitsFor(r, x)
\* The first in the line is not served: nothing is left.
<1>1. Cardinality(Lent) = Size
  <2>1. Head(queue) \in Slots
    BY HeadTailProperties DEF IInv, Waiters
  <2>2. ~(Used < Size)
    BY <2>1 DEF TimePasses, Ready, Served
  <2>3. Used = Cardinality(Lent) /\ Cardinality(Lent) \in Nat /\ Cardinality(Lent) <= Size
    BY FS_CardinalityType DEF IInv, Used, Lent
  <2> QED BY <2>2, <2>3, SizeAssumption
<1>2. ASSUME NEW r \in Lent, ~Uploads(r)
      PROVE  r \in Slots /\ req[r].wants # {} /\ \E x \in Lent : WaitsFor(r, x)
  <2>1. /\ r \in Slots /\ req[r].steps # <<>>
        /\ Head(req[r].steps) \in {"lock", "share", "rows", "body", "put"}
    BY DEF Lent, IInv, Requests, Sound
  <2>2. At(r, "lock") \/ At(r, "share") \/ At(r, "rows")
    BY <1>2, <2>1 DEF Uploads, At, Active
  <2>3. req[r].wants # {} /\ ~Granted(r)
    BY <2>1, <2>2 DEF TimePasses, Ready
  <2>4. PICK x \in Slots : WaitsFor(r, x)
    BY <2>3 DEF Granted
  <2>5. req[x].holds # {}
    BY <2>4 DEF WaitsFor
  <2>6. x \in Lent
    BY <2>5 DEF IInv, Requests, Sound, Lent
  <2> QED BY <2>1, <2>3, <2>4, <2>6
<1>3. ASSUME NEW group \in SUBSET {r \in Lent : ~Uploads(r)}, group # {},
             \A r \in group, x \in Lent \ group : ~WaitsFor(r, x)
      PROVE  FALSE
  <2>1. \A r \in group : \E x \in group : WaitsFor(r, x)
    BY <1>2, <1>3
  <2>2. group \in SUBSET {r \in Slots : req[r].wants # {}}
    BY <1>2
  <2>3. group \in Circles
    BY <1>3, <2>1, <2>2 DEF Circles, Circle
  <2> QED BY <2>3 DEF TimePasses
<1> QED BY <1>1, <1>3

\* What IInv says of a state that keeps it.
LEMMA Consequences == IInv => TypeOK /\ HoldersNeverQueue /\ RefusedOnlyByUploads
<1> SUFFICES ASSUME IInv PROVE TypeOK /\ HoldersNeverQueue /\ RefusedOnlyByUploads
  OBVIOUS
<1>1. TypeOK
  <2>1. \A r \in Slots : /\ ~Active(r) => req[r] = Idle
                         /\ req[r].holds \cup req[r].wants # {} => req[r].conn
    BY DEF IInv, Requests, Sound, Active
  <2>2. \A r \in Slots : Queued(r) => At(r, "conn")
    <3>1. DOMAIN queue = 1..Len(queue)
      BY LenProperties DEF IInv, Waiters
    <3> QED BY <3>1 DEF IInv, Waiters, Queued
  <2>3. Used <= Size
    BY DEF IInv, Used, Lent
  <2>4. req \in [Slots -> [steps : UNION {Suffixes(s) : s \in Transactions \cup Openings},
                           conn : BOOLEAN, holds : SUBSET Locks, wants : SUBSET Locks]]
    BY DEF IInv, Requests, Records, Plans, Parts
  <2> QED BY <2>1, <2>2, <2>3, <2>4 DEF TypeOK, IInv, Waiters, Exclusive
<1>2. HoldersNeverQueue
  BY DEF HoldersNeverQueue, IInv, Requests, Sound, At, Active
<1>3. RefusedOnlyByUploads
  BY Refusal DEF RefusedOnlyByUploads, Lent
<1> QED BY <1>1, <1>2, <1>3

\* The pool lends no more connections than it has, only requests with a
\* connection hold locks or wait for them, no two hold locks that conflict,
\* and who waits in line is about to begin a transaction.
THEOREM TypeCorrect == Spec => []TypeOK
BY Invariance, Consequences, PTL

\* No handler (routes/*.rs, db/*.rs) asks the pool for a connection while it
\* holds one or a lock, however many run.
THEOREM NoHoldAndWait == Spec => []HoldersNeverQueue
BY Invariance, Consequences, PTL

\* Whatever the size of the pool and whatever rows the transactions lock: when
\* a request is refused a connection, all are with uploads that wait for their
\* client or for S3, or with requests that wait for such an upload, directly
\* or through others (routes/chunks.rs).
THEOREM OnlyUploadsStarve == Spec => []RefusedOnlyByUploads
BY Invariance, Consequences, PTL
=============================================================================
