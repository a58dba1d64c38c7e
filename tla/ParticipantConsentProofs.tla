----------------------- MODULE ParticipantConsentProofs -----------------------
(***************************************************************************)
(* Theorems about ParticipantConsent, for any handlers, people, flags and  *)
(* bounds.                                                                 *)
(*                                                                         *)
(* The inductive invariant says of each request what its plan looks like   *)
(* (PlanFine, Refs), that a transaction still wants or has dealt with all  *)
(* it was to lock (Carried), where its locks come from (Sourced) and what  *)
(* they say of the rows (Standing); and that locks exclude each other.     *)
(*                                                                         *)
(* Three more invariants rest on it: that a request's number is its own    *)
(* (NumbersFresh), under which the columns hold what was last named        *)
(* (ColumnsHold) and answers tell what was done (Telling); and how far     *)
(* each transaction has got with its locks (StagesHold), from which it     *)
(* follows that none but batches can wait in a circle.                     *)
(***************************************************************************)
EXTENDS ParticipantConsent, FiniteSetTheorems, SequenceTheorems, TLAPS

Wide == Keys \cup {Session}
Users == {"user"} \X People
Parts == {"row"} \X People
Numbers == 0..(MaxRequests + 1)
Wants == [key : Wide, mode : {"share", "update", "excl", "upsert", "seed", "touch"},
          id : Numbers]
Locks == [key : Wide, mode : {"share", "update", "excl"}]
Txs == [wants : Seq(Wants), names : SUBSET Fields, bad : BOOLEAN]
Requests == [pc : {"idle", "token", "context", "lock", "audit"},
             op : {"user", "admin", "display", "add", "batch", "patch", "public",
                   "token", "wipe", "cascade"},
             plan : Seq(Txs), todo : Seq(Wants), held : SUBSET Locks, who : Wide,
             id : Numbers, asked : SUBSET Fields, n : Numbers]

(* What the plans look like. *)

\* A lock that q wants: what makes new rows is an upsert, but for users; a
\* token's request only shares, and an UPDATE names the row it is for.
Fine(q, W) ==
    IF q.op = "cascade" THEN W.mode = "excl" /\ W.key \in Parts \cup {Session}
    ELSE /\ W.mode = "share" \/ W.key \in Keys
         /\ W.mode \in {"excl", "seed"} => W.key \in Users
         /\ W.mode = "update" => W.id # 0
         /\ q.op = "token" => W.mode = "share" /\ (W.key = q.who => W.id = q.id)

TxFine(q, t) ==
    /\ \A W \in ToSet(t.wants) : Fine(q, W)
    /\ q.op = "token" =>
          /\ q.who \in Parts /\ q.id # 0
          /\ [key |-> q.who, mode |-> "share", id |-> q.id] \in ToSet(t.wants)
    /\ t.names \cap q.asked # {} =>
          \E W \in ToSet(t.wants) :
             W.mode \in {"upsert", "update"} /\ (W.key \in Users => q.op = "admin")

\* Two transactions of a plan write different rows, the first no column of
\* its own, or update the same row.
PlanFine(q) ==
    /\ \A i \in DOMAIN q.plan : TxFine(q, q.plan[i])
    /\ \A i, j \in DOMAIN q.plan : i < j =>
          /\ q.plan[j].bad => q.plan[i].names = {}
          /\ \A W \in ToSet(q.plan[i].wants), V \in ToSet(q.plan[j].wants) :
                \/ W.key # V.key /\ q.plan[i].names = {}
                \/ W = V /\ W.mode = "update"

\* Who makes a participant or a display name has made sure of the user, or
\* is about to.
Refs(q, T) ==
    \A i \in DOMAIN q.plan : \A W \in ToSet(q.plan[i].wants) :
        W.mode = "upsert" /\ W.key \notin Users =>
            \/ T[User(W.key[2])].id # 0
            \/ \E j \in 1..i : \E V \in ToSet(q.plan[j].wants) :
                  V.key = User(W.key[2]) /\ V.mode \in {"excl", "seed"}

(* What a transaction wants it still has to lock, or has dealt with. *)
Dealt(q, T, W) ==
    CASE W.mode = "upsert" ->
            \E m \in {"update", "excl"} : [key |-> W.key, mode |-> m] \in q.held
      [] W.mode = "seed" -> T[W.key].id # 0 \/ [key |-> W.key, mode |-> "excl"] \in q.held
      [] W.mode = "touch" -> TRUE
      [] OTHER -> [key |-> W.key, mode |-> W.mode] \in q.held

Carried(q, T) ==
    \A W \in ToSet(Head(q.plan).wants) : W \in ToSet(q.todo) \/ Dealt(q, T, W)

\* A lock comes from something wanted.
Wanted(q, b) ==
    \E W \in ToSet(Head(q.plan).wants) :
        /\ W.key = b.key
        /\ W.mode \in (IF b.mode = "update" THEN {"upsert", "update", "touch"}
                       ELSE {"upsert", "seed", "excl"})
Sourced(q) ==
    /\ \A W \in ToSet(q.todo) :
          /\ Fine(q, W)
          /\ W.mode # "share" /\ q.op # "cascade" => W \in ToSet(Head(q.plan).wants)
    /\ \A b \in q.held :
          IF q.op = "cascade" THEN b.mode = "excl" /\ b.key \in Parts \cup {Session}
          ELSE b.mode = "share" \/ (b.key \in Keys /\ Wanted(q, b))

\* What a lock says of the row.
Standing(q, T) ==
    \A b \in q.held :
        /\ b.mode = "update" => T[b.key].id # 0
        /\ b.mode = "excl" /\ b.key \notin Users /\ q.op # "cascade" => T[b.key].id = 0
        /\ q.op = "token" /\ b.key = q.who => T[b.key].id = q.id

Good(q, T) ==
    /\ q \in Requests
    /\ q.pc = "idle" => q = Idle
    /\ q.pc # "idle" => q.n \in Ids
    /\ q.pc = "lock" => q.plan # <<>> /\ Carried(q, T) /\ Sourced(q) /\ Standing(q, T)
    /\ q.pc # "lock" => q.held = {}
    /\ IsFiniteSet(q.held)
    /\ PlanFine(q)
    /\ Refs(q, T)

Exclusive ==
    \A p, h \in Handlers : p # h =>
        \A a \in req[p].held, b \in req[h].held : ~Conflict(a, b)

\* The schema's references.
Schema(T, K) ==
    /\ T \in [Keys -> Rows]
    /\ \A w \in People : T[Row(w)].id # 0 \/ T[Name(w)].id # 0 => T[User(w)].id # 0
    /\ K \subseteq Parts \X Ids
    /\ \A t \in K : T[t[1]].id = t[2]

Typed ==
    /\ Schema(table, tokens)
    /\ requests \in Ids
    /\ log \in Seq(Changes)
    /\ audit \subseteq Ids
    /\ answers \subseteq [by : Ids, ok : BOOLEAN, asked : SUBSET Fields]

Locking == req \in [Handlers -> Requests] /\ \A p \in Handlers : Good(req[p], table)

IInv == Typed /\ Locking /\ Exclusive

-----------------------------------------------------------------------------
(* Sequences and their elements. *)

\* What a sequence begins with, and the rest.
LEMMA Split ==
    ASSUME NEW S, NEW s \in Seq(S), s # <<>>
    PROVE  /\ Head(s) \in S /\ Tail(s) \in Seq(S)
           /\ 1 \in DOMAIN s /\ Head(s) = s[1]
           /\ Len(s) \in Nat /\ Len(Tail(s)) = Len(s) - 1
           /\ \A i \in DOMAIN Tail(s) : i + 1 \in DOMAIN s /\ Tail(s)[i] = s[i + 1]
           /\ ToSet(s) = {Head(s)} \cup ToSet(Tail(s))
<1>1. /\ Len(s) \in Nat \ {0} /\ DOMAIN s = 1..Len(s)
  BY EmptySeq, LenProperties
<1>2. /\ Head(s) \in S /\ Tail(s) \in Seq(S) /\ Len(Tail(s)) = Len(s) - 1
      /\ \A i \in 1..Len(Tail(s)) : Tail(s)[i] = s[i + 1]
  BY HeadTailProperties
<1>3. DOMAIN Tail(s) = 1..(Len(s) - 1)
  BY <1>2, LenProperties
<1>4. Head(s) = s[1]
  BY <1>1
<1>5. \A i \in DOMAIN Tail(s) : i + 1 \in DOMAIN s /\ Tail(s)[i] = s[i + 1]
  BY <1>1, <1>2, <1>3
<1>6. ASSUME NEW i \in DOMAIN s, i # 1 PROVE i - 1 \in DOMAIN Tail(s) /\ s[i] = Tail(s)[i - 1]
  <2>1. i \in 1..Len(s) /\ i - 1 \in 1..(Len(s) - 1) /\ (i - 1) + 1 = i
    BY <1>1, <1>6
  <2> QED BY <2>1, <1>3, <1>5
<1>7. ToSet(s) \subseteq {Head(s)} \cup ToSet(Tail(s))
  BY <1>4, <1>6 DEF ToSet
<1>8. {Head(s)} \cup ToSet(Tail(s)) \subseteq ToSet(s)
  BY <1>1, <1>4, <1>5 DEF ToSet
<1> QED BY <1>1, <1>2, <1>4, <1>5, <1>7, <1>8

\* The elements of two sequences, one after the other.
LEMMA Chained ==
    ASSUME NEW S, NEW s \in Seq(S), NEW t \in Seq(S)
    PROVE  /\ s \o t \in Seq(S)
           /\ ToSet(s \o t) = ToSet(s) \cup ToSet(t)
<1>1. /\ Len(s) \in Nat /\ DOMAIN s = 1..Len(s)
      /\ Len(t) \in Nat /\ DOMAIN t = 1..Len(t)
  BY LenProperties
<1>2. /\ s \o t \in Seq(S) /\ Len(s \o t) = Len(s) + Len(t)
      /\ \A i \in 1..(Len(s) + Len(t)) :
            (s \o t)[i] = IF i <= Len(s) THEN s[i] ELSE t[i - Len(s)]
  BY ConcatProperties
<1>3. DOMAIN (s \o t) = 1..(Len(s) + Len(t))
  BY <1>2, LenProperties
<1>4. ASSUME NEW i \in DOMAIN (s \o t) PROVE (s \o t)[i] \in ToSet(s) \cup ToSet(t)
  <2>1. CASE i <= Len(s)
    BY <2>1, <1>1, <1>2, <1>3 DEF ToSet
  <2>2. CASE ~(i <= Len(s))
    <3>1. i - Len(s) \in 1..Len(t)
      BY <2>2, <1>1, <1>3
    <3> QED BY <2>2, <3>1, <1>1, <1>2, <1>3 DEF ToSet
  <2> QED BY <2>1, <2>2
<1>5. ASSUME NEW i \in DOMAIN s PROVE s[i] \in ToSet(s \o t)
  <2>1. i \in DOMAIN (s \o t) /\ (s \o t)[i] = s[i]
    BY <1>1, <1>2, <1>3
  <2> QED BY <2>1 DEF ToSet
<1>6. ASSUME NEW i \in DOMAIN t PROVE t[i] \in ToSet(s \o t)
  <2>1. /\ Len(s) + i \in 1..(Len(s) + Len(t)) /\ ~(Len(s) + i <= Len(s))
        /\ (Len(s) + i) - Len(s) = i
    BY <1>1
  <2> QED BY <2>1, <1>2, <1>3 DEF ToSet
<1> QED BY <1>2, <1>4, <1>5, <1>6 DEF ToSet

\* Short sequences.
LEMMA Short ==
    ASSUME NEW S
    PROVE  /\ <<>> \in Seq(S) /\ ToSet(<<>>) = {} /\ Len(<<>>) = 0 /\ DOMAIN <<>> = {}
           /\ \A a \in S : /\ <<a>> \in Seq(S) /\ <<a>> # <<>> /\ ToSet(<<a>>) = {a}
                            /\ Head(<<a>>) = a /\ Tail(<<a>>) = <<>>
                            /\ DOMAIN <<a>> = {1} /\ <<a>>[1] = a
           /\ \A a, b \in S : /\ <<a, b>> \in Seq(S) /\ <<a, b>> # <<>>
                               /\ ToSet(<<a, b>>) = {a, b}
                               /\ Head(<<a, b>>) = a /\ Tail(<<a, b>>) = <<b>>
                               /\ DOMAIN <<a, b>> = {1, 2}
                               /\ <<a, b>>[1] = a /\ <<a, b>>[2] = b
           /\ \A a, b, c \in S : /\ <<a, b, c>> \in Seq(S) /\ <<a, b, c>> # <<>>
                                  /\ ToSet(<<a, b, c>>) = {a, b, c}
<1>1. <<>> \in Seq(S) /\ Len(<<>>) = 0 /\ DOMAIN <<>> = {}
  BY EmptySeq, LenProperties
<1>2. ToSet(<<>>) = {}
  BY <1>1 DEF ToSet
<1>3. ASSUME NEW a \in S
      PROVE  /\ <<a>> \in Seq(S) /\ <<a>> # <<>> /\ ToSet(<<a>>) = {a}
             /\ Head(<<a>>) = a /\ Tail(<<a>>) = <<>>
             /\ DOMAIN <<a>> = {1} /\ <<a>>[1] = a
  <2>1. DOMAIN <<a>> = {1} /\ <<a>>[1] = a
    OBVIOUS
  <2>2. ToSet(<<a>>) = {a}
    BY <2>1 DEF ToSet
  <2>3. <<a>> \in Seq(S) /\ <<a>> # <<>> /\ Head(<<a>>) = a /\ Tail(<<a>>) = <<>>
    OBVIOUS
  <2> QED BY <2>1, <2>2, <2>3
<1>4. ASSUME NEW a \in S, NEW b \in S
      PROVE  /\ <<a, b>> \in Seq(S) /\ <<a, b>> # <<>> /\ ToSet(<<a, b>>) = {a, b}
             /\ Head(<<a, b>>) = a /\ Tail(<<a, b>>) = <<b>>
             /\ DOMAIN <<a, b>> = {1, 2} /\ <<a, b>>[1] = a /\ <<a, b>>[2] = b
  <2>1. DOMAIN <<a, b>> = {1, 2} /\ <<a, b>>[1] = a /\ <<a, b>>[2] = b
    OBVIOUS
  <2>2. ToSet(<<a, b>>) = {a, b}
    BY <2>1 DEF ToSet
  <2>3. <<a, b>> \in Seq(S) /\ <<a, b>> # <<>> /\ Head(<<a, b>>) = a
    OBVIOUS
  <2>4. Tail(<<a, b>>) = <<b>>
    OBVIOUS
  <2> QED BY <2>1, <2>2, <2>3, <2>4
<1>5. ASSUME NEW a \in S, NEW b \in S, NEW c \in S
      PROVE  /\ <<a, b, c>> \in Seq(S) /\ <<a, b, c>> # <<>> /\ ToSet(<<a, b, c>>) = {a, b, c}
  <2>1. /\ DOMAIN <<a, b, c>> = {1, 2, 3}
        /\ <<a, b, c>>[1] = a /\ <<a, b, c>>[2] = b /\ <<a, b, c>>[3] = c
    OBVIOUS
  <2>2. ToSet(<<a, b, c>>) = {a, b, c}
    BY <2>1 DEF ToSet
  <2>3. <<a, b, c>> \in Seq(S) /\ <<a, b, c>> # <<>>
    OBVIOUS
  <2> QED BY <2>2, <2>3
<1> QED BY <1>1, <1>2, <1>3, <1>4, <1>5

\* A finite set as a sequence: each element is there once.
LEMMA Listed ==
    ASSUME NEW S, IsFiniteSet(S)
    PROVE  /\ SetToSeq(S) \in Seq(S) /\ ToSet(SetToSeq(S)) = S
           /\ \A i, j \in DOMAIN SetToSeq(S) : SetToSeq(S)[i] = SetToSeq(S)[j] => i = j
<1> DEFINE n == Cardinality(S)
           s == SetToSeq(S)
<1>1. n \in Nat /\ ExistsBijection(1..n, S)
  BY FS_CardinalityType
<1>2. \E f \in [1..n -> S] : IsInjective(f)
  BY <1>1 DEF ExistsBijection, Bijection, Injection, IsInjective
<1>3. s \in [1..n -> S] /\ IsInjective(s)
  BY <1>2 DEF SetToSeq
<1>4. s \in Injection(1..n, S)
  BY <1>3 DEF Injection, IsInjective
<1>5. Cardinality(1..n) = n
  BY <1>1, FS_Interval
<1>6. s \in Surjection(1..n, S)
  BY <1>1, <1>4, <1>5, FS_Injection
<1>7. ToSet(s) = S
  BY <1>3, <1>6 DEF Surjection, ToSet
<1>8. s \in Seq(S)
  BY <1>1, <1>3
<1> QED BY <1>3, <1>7, <1>8 DEF IsInjective

\* A set of keys in some order.
LEMMA Ordered ==
    ASSUME NEW S, IsFiniteSet(S), NEW s \in SetToSeqs(S)
    PROVE  s \in Seq(S)
<1>1. Cardinality(S) \in Nat
  BY FS_CardinalityType
<1>2. s \in [1..Cardinality(S) -> S]
  BY DEF SetToSeqs
<1> QED BY <1>1, <1>2

-----------------------------------------------------------------------------
(* Keys, requests and their plans. *)

\* The kinds of keys.
LEMMA KeyKinds ==
    /\ Session \in Wide /\ Session \notin Keys /\ Session \notin Users /\ Session \notin Parts
    /\ Keys \subseteq Wide /\ Users \subseteq Keys /\ Parts \subseteq Keys
    /\ Users \cap Parts = {}
    /\ \A w \in People : /\ User(w) \in Users /\ Row(w) \in Parts /\ Name(w) \in Keys
                         /\ Row(w) \notin Users /\ Name(w) \notin Users /\ Name(w) \notin Parts
                         /\ User(w)[2] = w /\ Row(w)[2] = w /\ Name(w)[2] = w
                         /\ User(w)[1] = "user" /\ Row(w)[1] = "row" /\ Name(w)[1] = "name"
    /\ \A k \in Keys : \E w \in People : k = User(w) \/ k = Row(w) \/ k = Name(w)
    /\ \A k \in Users : \E w \in People : k = User(w)
    /\ \A k \in Parts : \E w \in People : k = Row(w)
<1>1. "session" \notin {"user", "row", "name"}
  OBVIOUS
<1>2. Session[1] = "session" /\ \A k \in Keys : k[1] \in {"user", "row", "name"}
  BY DEF Session, Keys
<1>3. Session \notin Keys
  BY <1>1, <1>2
<1>4. Users \subseteq Keys /\ Parts \subseteq Keys
  BY DEF Users, Parts, Keys
<1>5. Users \cap Parts = {}
  BY DEF Users, Parts
<1>6. \A w \in People : /\ User(w) \in Users /\ Row(w) \in Parts /\ Name(w) \in Keys
                         /\ Row(w) \notin Users /\ Name(w) \notin Users /\ Name(w) \notin Parts
                         /\ User(w)[2] = w /\ Row(w)[2] = w /\ Name(w)[2] = w
                         /\ User(w)[1] = "user" /\ Row(w)[1] = "row" /\ Name(w)[1] = "name"
  BY DEF Users, Parts, Keys, User, Row, Name
<1>7. \A k \in Keys : \E w \in People : k = User(w) \/ k = Row(w) \/ k = Name(w)
  BY DEF Keys, User, Row, Name
<1>8. \A k \in Users : \E w \in People : k = User(w)
  BY DEF Users, User
<1>9. \A k \in Parts : \E w \in People : k = Row(w)
  BY DEF Parts, Row
<1> QED BY <1>3, <1>4, <1>5, <1>6, <1>7, <1>8, <1>9 DEF Wide

\* The numbers of requests, and the rows.
LEMMA NumberKinds ==
    /\ MaxRequests \in Nat /\ MaxRequests + 1 \in Nat
    /\ Ids \subseteq Numbers /\ Ids \subseteq Nat \ {0} /\ Numbers \subseteq Nat /\ 0 \in Numbers
    /\ \A r \in Numbers : r # 0 => r \in Ids
    /\ \A r \in Rows : r.id \in Numbers /\ r.vals \in [Fields -> Numbers]
    /\ Absent \in Rows /\ Absent.id = 0 /\ \A f \in Fields : Absent.vals[f] = 0
    /\ \A r \in Rows : r.id = 0 => r = Absent
<1>1. MaxRequests \in Nat /\ MaxRequests + 1 \in Nat
  BY BoundsAssumption
<1>2. /\ Ids \subseteq Numbers /\ Ids \subseteq Nat \ {0} /\ Numbers \subseteq Nat /\ 0 \in Numbers
      /\ \A r \in Numbers : r # 0 => r \in Ids
  BY <1>1 DEF Ids, Numbers
<1>3. /\ Absent.id = 0 /\ Absent.vals = [f \in Fields |-> 0]
      /\ Absent \in Rows
  BY DEF Absent, Rows
<1>4. Absent.vals \in [Fields -> Numbers]
  BY <1>2, <1>3
<1>5. ASSUME NEW r \in Rows, r # Absent
      PROVE  r.id \in Ids /\ r.vals \in [Fields -> Numbers]
  BY <1>5 DEF Rows, Numbers
<1> QED BY <1>1, <1>2, <1>3, <1>4, <1>5

\* A request before it begins.
LEMMA IdleType ==
    /\ Idle \in Requests
    /\ Idle.pc = "idle" /\ Idle.op = "cascade" /\ Idle.plan = <<>> /\ Idle.todo = <<>>
    /\ Idle.held = {} /\ Idle.who = Session /\ Idle.id = 0 /\ Idle.asked = {} /\ Idle.n = 0
<1>1. <<>> \in Seq(Txs) /\ <<>> \in Seq(Wants)
  OBVIOUS
<1> QED BY <1>1, KeyKinds, NumberKinds DEF Idle, Requests

\* An idle slot.
LEMMA IdleGood == \A T : Good(Idle, T)
<1> TAKE T
<1>1. DOMAIN Idle.plan = {}
  BY IdleType, Short
<1>2. PlanFine(Idle) /\ Refs(Idle, T)
  BY <1>1 DEF PlanFine, Refs
<1> QED BY <1>2, IdleType, FS_EmptySet DEF Good

\* The plan of a request, wherever it is and whatever it has locked.
LEMMA SamePlan ==
    ASSUME NEW q, NEW r, NEW T,
           r.op = q.op, r.plan = q.plan, r.who = q.who, r.id = q.id, r.asked = q.asked
    PROVE  /\ \A W : Fine(r, W) = Fine(q, W)
           /\ PlanFine(q) => PlanFine(r)
           /\ Refs(q, T) => Refs(r, T)
<1>1. \A W : Fine(r, W) = Fine(q, W)
  BY DEF Fine
<1>2. \A t : TxFine(q, t) => TxFine(r, t)
  BY <1>1 DEF TxFine
<1>3. PlanFine(q) => PlanFine(r)
  BY <1>2 DEF PlanFine
<1>4. Refs(q, T) => Refs(r, T)
  BY DEF Refs
<1> QED BY <1>1, <1>3, <1>4

\* A request goes on to the next transaction of its plan.
LEMMA Loads ==
    ASSUME NEW q \in Requests, NEW T, q.n \in Ids, q.held = {}, PlanFine(q), Refs(q, T)
    PROVE  /\ Good(Load(q), T)
           /\ Load(q).held = {} /\ Load(q).n = q.n /\ Load(q).plan = q.plan
           /\ Load(q).asked = q.asked /\ Load(q).pc \in {"audit", "lock"} /\ Load(q).op = q.op
           /\ Load(q).who = q.who
           /\ Load(q).pc = "lock" => q.plan # <<>> /\ Load(q).todo = Head(q.plan).wants
<1>0. /\ q.plan \in Seq(Txs) /\ q.todo \in Seq(Wants) /\ IsFiniteSet(q.held)
  BY FS_EmptySet DEF Requests
<1>1. CASE q.plan = <<>>
  <2>1. PICK r : r = Load(q)
    OBVIOUS
  <2>2. /\ r \in Requests /\ r.pc = "audit" /\ r.op = q.op /\ r.plan = q.plan /\ r.todo = q.todo
        /\ r.held = q.held /\ r.who = q.who /\ r.id = q.id /\ r.asked = q.asked /\ r.n = q.n
    BY <1>1, <2>1 DEF Load, Requests
  <2>3. PlanFine(r) /\ Refs(r, T)
    BY <2>2, SamePlan
  <2>4. Good(r, T)
    BY <1>0, <2>2, <2>3 DEF Good
  <2> QED BY <2>1, <2>2, <2>4
<1>2. CASE q.plan # <<>>
  <2>0. Head(q.plan) \in Txs /\ Head(q.plan) = q.plan[1] /\ 1 \in DOMAIN q.plan
    BY <1>0, <1>2, Split
  <2>w. Head(q.plan).wants \in Seq(Wants)
    BY <2>0 DEF Txs
  <2>1. PICK r : r = Load(q)
    OBVIOUS
  <2>2. /\ r \in Requests /\ r.pc = "lock" /\ r.op = q.op /\ r.plan = q.plan
        /\ r.todo = Head(q.plan).wants
        /\ r.held = q.held /\ r.who = q.who /\ r.id = q.id /\ r.asked = q.asked /\ r.n = q.n
    BY <1>2, <2>w, <2>1 DEF Load, Requests
  <2>3. PlanFine(r) /\ Refs(r, T) /\ \A W : Fine(r, W) = Fine(q, W)
    BY <2>2, SamePlan
  <2>4. \A W \in ToSet(r.todo) : Fine(r, W)
    BY <2>0, <2>2, <2>3 DEF PlanFine, TxFine
  <2>5. Carried(r, T) /\ Sourced(r) /\ Standing(r, T)
    BY <2>2, <2>4 DEF Carried, Sourced, Standing
  <2>6. Good(r, T)
    BY <1>0, <1>2, <2>2, <2>3, <2>5 DEF Good
  <2> QED BY <1>2, <2>1, <2>2, <2>6
<1> QED BY <1>1, <1>2

\* A plan of one transaction.
LEMMA Single ==
    ASSUME NEW q, NEW t, NEW T, q.plan = <<t>>, TxFine(q, t),
           \A W \in ToSet(t.wants) : W.mode = "upsert" /\ W.key \notin Users =>
               \E V \in ToSet(t.wants) :
                   V.key = User(W.key[2]) /\ V.mode \in {"excl", "seed"}
    PROVE  PlanFine(q) /\ Refs(q, T)
<1>1. DOMAIN q.plan = {1} /\ q.plan[1] = t /\ 1 \in 1..1
  BY Short
<1>2. PlanFine(q)
  BY <1>1 DEF PlanFine
<1>3. Refs(q, T)
  BY <1>1 DEF Refs
<1> QED BY <1>2, <1>3

\* A plan of two.
LEMMA Double ==
    ASSUME NEW q, NEW t, NEW u, NEW T, q.plan = <<t, u>>, TxFine(q, t), TxFine(q, u),
           u.bad => t.names = {},
           \A W \in ToSet(t.wants), V \in ToSet(u.wants) :
              \/ W.key # V.key /\ t.names = {}
              \/ W = V /\ W.mode = "update",
           \A W \in ToSet(t.wants) : W.mode # "upsert",
           \A W \in ToSet(u.wants) : W.mode = "upsert" /\ W.key \notin Users =>
               \E V \in ToSet(t.wants) :
                   V.key = User(W.key[2]) /\ V.mode \in {"excl", "seed"}
    PROVE  PlanFine(q) /\ Refs(q, T)
<1>1. /\ DOMAIN q.plan = {1, 2} /\ q.plan[1] = t /\ q.plan[2] = u
      /\ 1 \in 1..2 /\ \A i, j \in {1, 2} : i < j => i = 1 /\ j = 2
  BY Short
<1>2. PlanFine(q)
  BY <1>1 DEF PlanFine
<1>3. Refs(q, T)
  BY <1>1 DEF Refs
<1> QED BY <1>2, <1>3

-----------------------------------------------------------------------------
(* The initial states. *)

LEMMA Initially == ASSUME Init PROVE IInv
<1>1. table \in [Keys -> Rows]
  <2>1. [Absent EXCEPT !.id = 1] \in Rows
    <3>1. [Absent EXCEPT !.id = 1].id = 1 /\ 1 \in Ids
      BY NumberKinds DEF Absent, Ids
    <3>2. 0 \in 0..(MaxRequests + 1)
      BY NumberKinds
    <3>3. [f \in Fields |-> 0] \in [Fields -> 0..(MaxRequests + 1)]
      BY <3>2
    <3> QED BY <3>1, <3>3 DEF Absent, Rows
  <2> QED BY <2>1, NumberKinds DEF Init
<1>2. \A k \in Keys : table[k].id =
         IF (k[1] = "user" /\ k[2] \in Known) \/ (k[1] = "row" /\ k[2] \in Joined)
         THEN 1 ELSE 0
  BY NumberKinds DEF Init, Absent
<1>3. ASSUME NEW w \in People
      PROVE  /\ table[User(w)].id = IF w \in Known THEN 1 ELSE 0
             /\ table[Row(w)].id = IF w \in Joined THEN 1 ELSE 0
             /\ table[Name(w)].id = 0
  <2>1. /\ User(w) \in Keys /\ User(w)[1] = "user" /\ User(w)[2] = w
        /\ Row(w) \in Keys /\ Row(w)[1] = "row" /\ Row(w)[2] = w
        /\ Name(w) \in Keys /\ Name(w)[1] = "name" /\ Name(w)[2] = w
    BY KeyKinds
  <2>2. /\ table[User(w)].id = IF w \in Known THEN 1 ELSE 0
    BY <1>2, <2>1
  <2>3. /\ table[Row(w)].id = IF w \in Joined THEN 1 ELSE 0
    BY <1>2, <2>1
  <2>4. table[Name(w)].id = 0
    BY <1>2, <2>1
  <2> QED BY <2>2, <2>3, <2>4
<1>4. Schema(table, tokens)
  <2>1. \A w \in People : table[Row(w)].id # 0 \/ table[Name(w)].id # 0 => table[User(w)].id # 0
    BY <1>3, PeopleAssumption
  <2>2. 1 \in Ids
    BY NumberKinds DEF Ids
  <2>3. ASSUME NEW t \in tokens PROVE t \in Parts \X Ids /\ table[t[1]].id = t[2]
    <3>1. PICK w \in Joined : t = <<Row(w), 1>>
      BY DEF Init
    <3>2. w \in People /\ t[1] = Row(w) /\ t[2] = 1 /\ Row(w) \in Parts
      BY <3>1, KeyKinds, PeopleAssumption
    <3>3. table[Row(w)].id = 1
      BY <1>3, <3>1, <3>2
    <3> QED BY <2>2, <3>1, <3>2, <3>3
  <2> QED BY <1>1, <2>1, <2>3 DEF Schema
<1>5. Typed
  <2>1. requests \in Ids
    BY NumberKinds DEF Init, Ids
  <2>2. log \in Seq(Changes)
    <3>1. <<>> \in Seq(Changes)
      OBVIOUS
    <3> QED BY <3>1 DEF Init
  <2> QED BY <1>4, <2>1, <2>2 DEF Typed, Init
<1>6. Locking
  BY IdleGood, IdleType DEF Locking, Init
<1>7. Exclusive
  BY IdleType DEF Exclusive, Init
<1> QED BY <1>5, <1>6, <1>7 DEF IInv

-----------------------------------------------------------------------------
(* Steps of one request that write no row. *)

\* A request moves, and what it holds now conflicts with nobody's locks.
LEMMA Moves ==
    ASSUME IInv, NEW p \in Handlers, NEW y, req' = [req EXCEPT ![p] = y],
           Good(y, table), table' = table, Typed',
           \A h \in Handlers \ {p} : \A a \in y.held, b \in req[h].held : ~Conflict(a, b)
    PROVE  IInv'
<1>1. /\ req \in [Handlers -> Requests] /\ y \in Requests
      /\ \A h \in Handlers : Good(req[h], table)
  BY DEF IInv, Locking, Good
<1>2. /\ req' \in [Handlers -> Requests] /\ req'[p] = y
      /\ \A h \in Handlers : h # p => req'[h] = req[h]
  BY <1>1
<1>3. Locking'
  BY <1>1, <1>2 DEF Locking
<1>4. Exclusive'
  <2>1. ASSUME NEW h \in Handlers, NEW g \in Handlers, h # g,
               NEW a \in req'[h].held, NEW b \in req'[g].held
        PROVE  ~Conflict(a, b)
    <3>1. CASE h = p
      BY <2>1, <3>1, <1>2
    <3>2. CASE g = p
      <4>1. ~Conflict(b, a)
        BY <2>1, <3>2, <1>2
      <4> QED BY <4>1 DEF Conflict
    <3>3. CASE h # p /\ g # p
      BY <2>1, <3>3, <1>2 DEF IInv, Exclusive
    <3> QED BY <3>1, <3>2, <3>3
  <2> QED BY <2>1 DEF Exclusive, Conflict
<1> QED BY <1>3, <1>4 DEF IInv

\* A request ends.
LEMMA Ends ==
    ASSUME IInv, NEW p \in Handlers, Finish(p), table' = table, Typed'
    PROVE  IInv'
<1>1. Good(Idle, table) /\ Idle.held = {}
  BY IdleGood, IdleType
<1> QED BY <1>1, Moves DEF Finish

-----------------------------------------------------------------------------
(* Requests arrive. *)

\* A request that comes in holds nothing, and its plan is fine.
LEMMA Arrives ==
    ASSUME IInv, NEW p \in Handlers, NEW q \in Requests, NEW x, Begin(p, x),
           q.held = {}, PlanFine(q), Refs(q, table),
           x = Load(q) \/ x = [q EXCEPT !.pc = "token"]
    PROVE  IInv'
<1>1. /\ requests' = requests + 1 /\ requests' \in Ids /\ requests + 1 \in Ids
      /\ UNCHANGED <<table, tokens, log, audit, answers>>
      /\ req' = [req EXCEPT ![p] = [x EXCEPT !.n = requests + 1]]
  BY NumberKinds DEF Begin, IInv, Typed, Ids
<1>n. requests + 1 \in Numbers
  BY <1>1, NumberKinds
<1>2. PICK r : r = [q EXCEPT !.n = requests + 1]
  OBVIOUS
<1>3. /\ r \in Requests /\ r.pc = q.pc /\ r.op = q.op /\ r.plan = q.plan /\ r.todo = q.todo
      /\ r.held = {} /\ r.who = q.who /\ r.id = q.id /\ r.asked = q.asked
      /\ r.n = requests + 1 /\ r.n \in Ids
  BY <1>1, <1>n, <1>2 DEF Requests
<1>4. PlanFine(r) /\ Refs(r, table)
  BY <1>3, SamePlan
<1>5. PICK y : y = [x EXCEPT !.n = requests + 1]
  OBVIOUS
<1>6. Good(y, table) /\ y.held = {}
  <2>1. CASE x = Load(q)
    <3>1. y = Load(r)
      BY <2>1, <1>2, <1>5 DEF Load, Requests
    <3> QED BY <3>1, <1>3, <1>4, Loads
  <2>2. CASE x = [q EXCEPT !.pc = "token"]
    <3>1. /\ y \in Requests /\ y.pc = "token" /\ y.op = q.op /\ y.plan = q.plan
          /\ y.held = {} /\ y.who = q.who /\ y.id = q.id /\ y.asked = q.asked
          /\ y.n = requests + 1
      BY <2>2, <1>5, <1>n DEF Requests
    <3>2. PlanFine(y) /\ Refs(y, table)
      BY <3>1, SamePlan
    <3> QED BY <3>1, <3>2, <1>1, FS_EmptySet DEF Good
  <2> QED BY <2>1, <2>2
<1>7. Typed'
  BY <1>1 DEF IInv, Typed
<1> QED BY <1>1, <1>5, <1>6, <1>7, Moves

\* The columns.
LEMMA FieldKinds ==
    /\ "is_admin" \in Fields /\ "last_seen_at" \in Fields /\ "mid_session_join" \in Fields
    /\ "data_wiped_at" \in Fields /\ "scope" \in Fields
    /\ Flags \subseteq Fields /\ ConsentFields \subseteq Fields
BY DEF Fields, ConsentFields

Modes == {"share", "update", "excl", "upsert", "seed", "touch"}
Ops == {"user", "admin", "display", "add", "batch", "patch", "public", "token", "wipe",
        "cascade"}

\* What is wanted, transactions and requests, as they are made.
LEMMA MadeWant ==
    ASSUME NEW k \in Wide, NEW m \in Modes
    PROVE  /\ Want(k, m) \in Wants
           /\ Want(k, m).key = k /\ Want(k, m).mode = m /\ Want(k, m).id = 0
BY NumberKinds DEF Want, Wants, Modes

LEMMA MadeTx ==
    ASSUME NEW s \in Seq(Wants), NEW names, names \subseteq Fields
    PROVE  /\ Tx(s, names) \in Txs
           /\ Tx(s, names).wants = s /\ Tx(s, names).names = names
           /\ Tx(s, names).bad = FALSE
BY DEF Tx, Txs

LEMMA MadeRequest ==
    ASSUME NEW op \in Ops, NEW plan \in Seq(Txs), NEW asked, asked \subseteq Fields
    PROVE  /\ Request(op, plan, asked) \in Requests
           /\ Request(op, plan, asked).op = op /\ Request(op, plan, asked).plan = plan
           /\ Request(op, plan, asked).asked = asked /\ Request(op, plan, asked).held = {}
           /\ Request(op, plan, asked).who = Session /\ Request(op, plan, asked).id = 0
           /\ Request(op, plan, asked).pc = "idle"
BY IdleType DEF Request, Requests, Ops

\* A request of one transaction, and what is to be shown of it.
LEMMA ArrivesSingle ==
    ASSUME IInv, NEW p \in Handlers, NEW t \in Txs, NEW asked, asked \subseteq Fields,
           NEW op \in Ops, Begin(p, Load(Request(op, <<t>>, asked))),
           \A q \in Requests : q.op = op /\ q.asked = asked => TxFine(q, t),
           \A W \in ToSet(t.wants) : W.mode = "upsert" /\ W.key \notin Users =>
               \E V \in ToSet(t.wants) :
                   V.key = User(W.key[2]) /\ V.mode \in {"excl", "seed"}
    PROVE  IInv'
<1>1. PICK plan \in Seq(Txs) : plan = <<t>>
  BY Short
<1>2. PICK q : q = Request(op, plan, asked)
  OBVIOUS
<1>3. q \in Requests /\ q.plan = plan /\ q.held = {} /\ q.op = op /\ q.asked = asked
  BY <1>2, MadeRequest
<1>4. PlanFine(q) /\ Refs(q, table)
  BY <1>1, <1>3, Single
<1>5. Begin(p, Load(q))
  BY <1>1, <1>2
<1> QED BY <1>3, <1>4, <1>5, Arrives

\* users::upsert.
LEMMA BeginUserStep == ASSUME IInv, NEW p \in Handlers, BeginUser(p) PROVE IInv'
<1>1. PICK w \in People : Begin(p, Load(Request("user", <<Tx(<<Own(w)>>, {})>>, {})))
  BY DEF BeginUser
<1>2. User(w) \in Wide /\ User(w) \in Keys /\ User(w) \in Users
  BY KeyKinds
<1>w. PICK W \in Wants : W = Own(w) /\ W.key = User(w) /\ W.mode = "excl"
  BY <1>2, MadeWant DEF Modes, Own
<1>s. PICK s \in Seq(Wants) : s = <<W>> /\ ToSet(s) = {W}
  BY Short
<1>3. PICK t \in Txs : t = Tx(s, {}) /\ t.wants = s /\ t.names = {}
  BY MadeTx, FieldKinds
<1>4. \A q \in Requests : q.op = "user" => TxFine(q, t)
  BY <1>2, <1>w, <1>s, <1>3 DEF TxFine, Fine
<1>5. Begin(p, Load(Request("user", <<t>>, {})))
  BY <1>1, <1>w, <1>s, <1>3
<1> QED BY <1>w, <1>s, <1>3, <1>4, <1>5, ArrivesSingle DEF Ops

\* users::set_admin.
LEMMA BeginAdminStep == ASSUME IInv, NEW p \in Handlers, BeginAdmin(p) PROVE IInv'
<1>1. PICK w \in People :
         Begin(p, Load(Request("admin", <<Tx(<<Want(User(w), "upsert")>>, {"is_admin"})>>,
                               {"is_admin"})))
  BY DEF BeginAdmin
<1>2. User(w) \in Wide /\ User(w) \in Keys /\ User(w) \in Users
  BY KeyKinds
<1>w. PICK W \in Wants : W = Want(User(w), "upsert") /\ W.key = User(w) /\ W.mode = "upsert"
  BY <1>2, MadeWant DEF Modes
<1>s. PICK s \in Seq(Wants) : s = <<W>> /\ ToSet(s) = {W}
  BY Short
<1>f. PICK f : f = {"is_admin"}
  OBVIOUS
<1>g. f \subseteq Fields
  BY <1>f, FieldKinds
<1>3. PICK t \in Txs : t = Tx(s, f) /\ t.wants = s /\ t.names = f
  BY MadeTx, <1>g
<1>4. \A q \in Requests : q.op = "admin" => TxFine(q, t)
  BY <1>2, <1>w, <1>s, <1>f, <1>3 DEF TxFine, Fine
<1>5. Begin(p, Load(Request("admin", <<t>>, {"is_admin"})))
  BY <1>1, <1>w, <1>s, <1>f, <1>3
<1> QED BY <1>2, <1>w, <1>s, <1>3, <1>4, <1>5, ArrivesSingle, FieldKinds DEF Ops

\* participants::add.
LEMMA BeginAddStep == ASSUME IInv, NEW p \in Handlers, BeginAdd(p) PROVE IInv'
<1>1. PICK w \in People :
         Begin(p, Load(Request("add", <<Tx(<<Own(w), Want(Row(w), "upsert")>>,
                                           {"mid_session_join"})>>, {"mid_session_join"})))
  BY DEF BeginAdd
<1>k. /\ User(w) \in Wide /\ User(w) \in Keys /\ User(w) \in Users
      /\ Row(w) \in Wide /\ Row(w) \in Keys /\ Row(w) \notin Users /\ Row(w)[2] = w
  BY KeyKinds
<1>2. PICK W \in Wants : /\ W = Want(Row(w), "upsert")
                         /\ W.key = Row(w) /\ W.mode = "upsert"
  BY <1>k, MadeWant DEF Modes
<1>3. PICK V \in Wants : V = Own(w) /\ V.key = User(w) /\ V.mode = "excl"
  BY <1>k, MadeWant DEF Own, Modes
<1>s. PICK s : s = <<V, W>>
  OBVIOUS
<1>4. s \in Seq(Wants) /\ ToSet(s) = {V, W}
  <2>1. s \in Seq(Wants) /\ DOMAIN s = {1, 2} /\ s[1] = V /\ s[2] = W
    BY <1>s
  <2> QED BY <2>1 DEF ToSet
<1>f. PICK f : f = {"mid_session_join"} /\ f \subseteq Fields
  BY FieldKinds
<1>5. PICK t \in Txs : t = Tx(s, f) /\ t.wants = s
  BY <1>4, <1>f, MadeTx
<1>6. \A q \in Requests : q.op = "add" => TxFine(q, t)
  BY <1>2, <1>3, <1>k, <1>4, <1>f, <1>5 DEF TxFine, Fine
<1>7. \A X \in ToSet(t.wants) : X.mode = "upsert" /\ X.key \notin Users =>
         \E Y \in ToSet(t.wants) : Y.key = User(X.key[2]) /\ Y.mode \in {"excl", "seed"}
  BY <1>2, <1>3, <1>k, <1>4, <1>5
<1>8. Begin(p, Load(Request("add", <<t>>, {"mid_session_join"})))
  BY <1>1, <1>2, <1>3, <1>s, <1>4, <1>f, <1>5
<1> QED BY <1>6, <1>7, <1>8, ArrivesSingle, FieldKinds DEF Ops

\* participants::mark_wiped.
LEMMA BeginWipeStep == ASSUME IInv, NEW p \in Handlers, BeginWipe(p) PROVE IInv'
<1>1. PICK w \in People :
         Begin(p, Load(Request("wipe", <<Tx(<<Want(Row(w), "touch")>>, {"data_wiped_at"})>>, {})))
  BY DEF BeginWipe
<1>2. Row(w) \in Wide /\ Row(w) \in Keys
  BY KeyKinds
<1>w. PICK W \in Wants : W = Want(Row(w), "touch") /\ W.key = Row(w) /\ W.mode = "touch"
  BY <1>2, MadeWant DEF Modes
<1>s. PICK s \in Seq(Wants) : s = <<W>> /\ ToSet(s) = {W}
  BY Short
<1>f. PICK f : f = {"data_wiped_at"}
  OBVIOUS
<1>g. f \subseteq Fields
  BY <1>f, FieldKinds
<1>3. PICK t \in Txs : t = Tx(s, f) /\ t.wants = s /\ t.names = f
  BY MadeTx, <1>g
<1>4. \A q \in Requests : q.op = "wipe" /\ q.asked = {} => TxFine(q, t)
  BY <1>2, <1>w, <1>s, <1>f, <1>3 DEF TxFine, Fine
<1>5. Begin(p, Load(Request("wipe", <<t>>, {})))
  BY <1>1, <1>w, <1>s, <1>f, <1>3
<1> QED BY <1>w, <1>s, <1>3, <1>4, <1>5, ArrivesSingle DEF Ops

\* The cascade.
LEMMA BeginCascadeStep == ASSUME IInv, NEW p \in Handlers, BeginCascade(p) PROVE IInv'
<1>1. Begin(p, Load(Request("cascade", <<Tx(<<Want(Session, "excl")>>, {})>>, {})))
  BY DEF BeginCascade, Cascade
<1>2. Session \in Wide
  BY KeyKinds
<1>w. PICK W \in Wants : W = Want(Session, "excl") /\ W.key = Session /\ W.mode = "excl"
  BY <1>2, MadeWant DEF Modes
<1>s. PICK s \in Seq(Wants) : s = <<W>> /\ ToSet(s) = {W}
  BY Short
<1>3. PICK t \in Txs : t = Tx(s, {}) /\ t.wants = s /\ t.names = {}
  BY MadeTx, FieldKinds
<1>4. \A q \in Requests : q.op = "cascade" => TxFine(q, t)
  BY <1>w, <1>s, <1>3 DEF TxFine, Fine
<1>5. Begin(p, Load(Request("cascade", <<t>>, {})))
  BY <1>1, <1>w, <1>s, <1>3
<1> QED BY <1>w, <1>s, <1>3, <1>4, <1>5, ArrivesSingle DEF Ops

\* post_display: two transactions.
LEMMA BeginDisplayStep == ASSUME IInv, NEW p \in Handlers, BeginDisplay(p) PROVE IInv'
<1>1. PICK w \in People, bad \in BOOLEAN :
         Begin(p, Load(Request("display",
            <<Tx(<<Own(w)>>, {}),
              [Tx(<<Want(Name(w), "upsert")>>, {"last_seen_at"}) EXCEPT !.bad = bad]>>,
            {"last_seen_at"})))
  BY DEF BeginDisplay
<1>k. /\ User(w) \in Wide /\ User(w) \in Keys /\ User(w) \in Users
      /\ Name(w) \in Wide /\ Name(w) \in Keys /\ Name(w) \notin Users /\ Name(w)[2] = w
  BY KeyKinds
<1>2. PICK V \in Wants : V = Own(w) /\ V.key = User(w) /\ V.mode = "excl"
  BY <1>k, MadeWant DEF Modes, Own
<1>3. PICK W \in Wants : W = Want(Name(w), "upsert") /\ W.key = Name(w) /\ W.mode = "upsert"
  BY <1>k, MadeWant DEF Modes
<1>4. PICK v \in Seq(Wants) : v = <<V>> /\ ToSet(v) = {V}
  BY Short
<1>5. PICK s \in Seq(Wants) : s = <<W>> /\ ToSet(s) = {W}
  BY Short
<1>f. PICK f : f = {"last_seen_at"}
  OBVIOUS
<1>g. f \subseteq Fields
  BY <1>f, FieldKinds
<1>6. PICK t \in Txs : t = Tx(v, {}) /\ t.wants = v /\ t.names = {}
  BY MadeTx
<1>7. PICK r \in Txs : r = Tx(s, f) /\ r.wants = s
  BY <1>g, MadeTx
<1>u. PICK u : u = [r EXCEPT !.bad = bad]
  OBVIOUS
<1>8. u \in Txs /\ u.wants = s
  <2>1. r \in [wants : Seq(Wants), names : SUBSET Fields, bad : BOOLEAN]
    BY DEF Txs
  <2>2. u.wants = s
    BY <1>7, <1>u, <2>1
  <2>3. u \in [wants : Seq(Wants), names : SUBSET Fields, bad : BOOLEAN]
    BY <1>u, <2>1
  <2> QED BY <2>2, <2>3 DEF Txs
<1>9. PICK plan \in Seq(Txs) : plan = <<t, u>>
  BY <1>8, Short
<1>10. PICK q : q = Request("display", plan, f)
  OBVIOUS
<1>11. q \in Requests /\ q.plan = plan /\ q.held = {} /\ q.op = "display"
  BY <1>10, <1>g, MadeRequest DEF Ops
<1>12. TxFine(q, t)
  BY <1>k, <1>2, <1>4, <1>6, <1>11 DEF TxFine, Fine
<1>13. TxFine(q, u)
  BY <1>k, <1>3, <1>5, <1>8, <1>11 DEF TxFine, Fine
<1>14. V.key # W.key
  BY <1>k, <1>2, <1>3
<1>15. PlanFine(q) /\ Refs(q, table)
  <2>1. ToSet(t.wants) = {V} /\ ToSet(u.wants) = {W} /\ t.names = {} /\ q.plan = <<t, u>>
    BY <1>4, <1>5, <1>6, <1>8, <1>9, <1>11
  <2>2. \A X \in ToSet(t.wants), Y \in ToSet(u.wants) :
           (X.key # Y.key /\ t.names = {}) \/ (X = Y /\ X.mode = "update")
    BY <2>1, <1>14
  <2>3. \A X \in ToSet(t.wants) : X.mode # "upsert"
    BY <2>1, <1>2
  <2>4. \A X \in ToSet(u.wants) : X.mode = "upsert" /\ X.key \notin Users =>
           \E Y \in ToSet(t.wants) : Y.key = User(X.key[2]) /\ Y.mode \in {"excl", "seed"}
    BY <2>1, <1>k, <1>2, <1>3
  <2>5. u.bad => t.names = {}
    BY <2>1
  <2> QED BY <2>1, <2>2, <2>3, <2>4, <2>5, <1>12, <1>13, Double
<1>16. Begin(p, Load(q))
  BY <1>1, <1>2, <1>3, <1>4, <1>5, <1>f, <1>6, <1>7, <1>u, <1>9, <1>10
<1> QED BY <1>11, <1>15, <1>16, Arrives

\* participants::add_many.
LEMMA BeginBatchStep == ASSUME IInv, NEW p \in Handlers, BeginBatch(p) PROVE IInv'
<1>1. PICK n \in 1..MaxBatch : \E b \in [1..n -> People] :
         Begin(p, Load(Request("batch", BatchPlan(b), {"mid_session_join"})))
  BY DEF BeginBatch
<1>2. PICK b \in [1..n -> People] :
         Begin(p, Load(Request("batch", BatchPlan(b), {"mid_session_join"})))
  BY <1>1
<1>n. n \in Nat /\ 1 \in 1..n
  BY BoundsAssumption
<1>3. PICK v : v = [i \in DOMAIN b |-> Want(User(b[i]), "seed")]
  OBVIOUS
<1>4. PICK s : s = [i \in DOMAIN b |-> Want(Row(b[i]), "upsert")]
  OBVIOUS
<1>5. ASSUME NEW i \in 1..n
      PROVE  /\ v[i] \in Wants /\ v[i].key = User(b[i]) /\ v[i].mode = "seed"
             /\ s[i] \in Wants /\ s[i].key = Row(b[i]) /\ s[i].mode = "upsert"
             /\ b[i] \in People /\ Row(b[i])[2] = b[i]
             /\ User(b[i]) \in Keys /\ User(b[i]) \in Users
             /\ Row(b[i]) \in Keys /\ Row(b[i]) \notin Users
  <2>1. PICK w \in People : w = b[i]
    OBVIOUS
  <2>2. /\ User(w) \in Wide /\ User(w) \in Keys /\ User(w) \in Users
        /\ Row(w) \in Wide /\ Row(w) \in Keys /\ Row(w) \notin Users /\ Row(w)[2] = w
    BY KeyKinds
  <2>3. v[i] = Want(User(w), "seed") /\ s[i] = Want(Row(w), "upsert")
    BY <1>3, <1>4, <2>1
  <2>4. Want(User(w), "seed") \in Wants /\ Want(User(w), "seed").key = User(w)
        /\ Want(User(w), "seed").mode = "seed"
    BY <2>2, MadeWant DEF Modes
  <2>5. Want(Row(w), "upsert") \in Wants /\ Want(Row(w), "upsert").key = Row(w)
        /\ Want(Row(w), "upsert").mode = "upsert"
    BY <2>2, MadeWant DEF Modes
  <2> QED BY <2>1, <2>2, <2>3, <2>4, <2>5
<1>6. v \in Seq(Wants) /\ DOMAIN v = 1..n /\ s \in Seq(Wants) /\ DOMAIN s = 1..n
  <2>1. v \in [1..n -> Wants] /\ s \in [1..n -> Wants]
    BY <1>3, <1>4, <1>5
  <2> QED BY <2>1, <1>n
<1>7. PICK a : a = v \o s
  OBVIOUS
<1>8. a \in Seq(Wants) /\ ToSet(a) = ToSet(v) \cup ToSet(s)
  BY <1>6, <1>7, Chained
<1>9. ToSet(v) = {v[i] : i \in 1..n} /\ ToSet(s) = {s[i] : i \in 1..n}
  BY <1>6 DEF ToSet
<1>f. PICK f : f = {"mid_session_join"}
  OBVIOUS
<1>g. f \subseteq Fields
  BY <1>f, FieldKinds
<1>10. PICK t \in Txs : t = Tx(a, f) /\ t.wants = a
  BY <1>8, <1>g, MadeTx
<1>11. BatchPlan(b) = <<t>>
  BY <1>3, <1>4, <1>7, <1>10, <1>f DEF BatchPlan
<1>12. Begin(p, Load(Request("batch", <<t>>, f)))
  BY <1>2, <1>11, <1>f
<1>13. ASSUME NEW q \in Requests, q.op = "batch" PROVE TxFine(q, t)
  <2>1. \A W \in ToSet(a) : Fine(q, W)
    BY <1>5, <1>8, <1>9, <1>13 DEF Fine
  <2>2. s[1] \in ToSet(a) /\ s[1].mode = "upsert" /\ s[1].key \notin Users
    BY <1>n, <1>5, <1>8, <1>9
  <2> QED BY <1>10, <1>13, <2>1, <2>2 DEF TxFine
<1>14. ASSUME NEW W \in ToSet(t.wants), W.mode = "upsert"
       PROVE  \E V \in ToSet(t.wants) : V.key = User(W.key[2]) /\ V.mode \in {"excl", "seed"}
  <2>1. PICK i \in 1..n : W = v[i] \/ W = s[i]
    BY <1>8, <1>9, <1>10
  <2>2. W.key = Row(b[i]) /\ W.key[2] = b[i]
    BY <1>5, <1>14, <2>1
  <2>3. v[i] \in ToSet(t.wants) /\ v[i].key = User(b[i]) /\ v[i].mode = "seed"
    BY <1>5, <1>8, <1>9, <1>10
  <2> QED BY <2>2, <2>3
<1> QED BY <1>g, <1>12, <1>13, <1>14, ArrivesSingle DEF Ops

\* UPDATE .. WHERE id, of a row that is there.
LEMMA MadeUpdate ==
    ASSUME IInv, NEW w \in People, Present(Row(w)), NEW names, names \subseteq Fields
    PROVE  \E W \in Wants :
              /\ W.key = Row(w) /\ W.mode = "update" /\ W.id = table[Row(w)].id /\ W.id # 0
              /\ Update(w, names) \in Txs
              /\ ToSet(Update(w, names).wants) = {W}
              /\ Update(w, names).names = names /\ Update(w, names).bad = FALSE
<1>1. Row(w) \in Keys /\ Row(w) \in Wide
  BY KeyKinds
<1>2. PICK i \in Numbers : i = table[Row(w)].id /\ i # 0
  BY <1>1, NumberKinds DEF IInv, Typed, Schema, Present
<1>w. PICK W : W = [key |-> Row(w), mode |-> "update", id |-> i]
  OBVIOUS
<1>3. W \in Wants /\ W.key = Row(w) /\ W.mode = "update" /\ W.id = i
  BY <1>1, <1>w DEF Wants
<1>4. PICK s \in Seq(Wants) : s = <<W>> /\ ToSet(s) = {W}
  BY <1>3, Short
<1>5. Update(w, names) = Tx(s, names)
  BY <1>2, <1>w, <1>4 DEF Update
<1>6. Tx(s, names) \in Txs /\ Tx(s, names).wants = s /\ Tx(s, names).names = names
      /\ Tx(s, names).bad = FALSE
  BY MadeTx
<1> QED BY <1>2, <1>3, <1>4, <1>5, <1>6

\* A transaction that updates one participant.
Updates(t, w) ==
    /\ t \in Txs
    /\ \E W \in Wants : /\ ToSet(t.wants) = {W} /\ W.key = Row(w) /\ W.mode = "update"
                        /\ W.id = table[Row(w)].id /\ W.id # 0

\* The plans made of a first and a second transaction, both left out or not.
Plans(t, u) == {<<>>, <<t>>, <<u>>, <<t, u>>}

\* The transactions of a PATCH.
LEMMA MadePlan ==
    ASSUME IInv, NEW w \in People, Present(Row(w)), NEW names, names \subseteq ConsentFields,
           NEW bad \in BOOLEAN
    PROVE  \E t, u :
              /\ Updates(t, w) /\ Updates(u, w) /\ ~u.bad
              /\ Plan(w, names, bad) \in Plans(t, u)
<1>0. {"scope"} \subseteq Fields /\ names \cap Flags \subseteq Fields
  BY FieldKinds
<1>1. PICK r : r = Update(w, {"scope"})
  OBVIOUS
<1>2. Updates(r, w)
  BY <1>0, <1>1, MadeUpdate DEF Updates
<1>f. PICK f : f = names \cap Flags
  OBVIOUS
<1>g. f \subseteq Fields
  BY <1>0, <1>f
<1>3. PICK u : u = Update(w, f)
  OBVIOUS
<1>4. Updates(u, w) /\ u.bad = FALSE
  BY <1>g, <1>3, MadeUpdate DEF Updates
<1>5. PICK t : t = [r EXCEPT !.bad = bad]
  OBVIOUS
<1>6. Updates(t, w)
  <2>1. r \in [wants : Seq(Wants), names : SUBSET Fields, bad : BOOLEAN]
    BY <1>2 DEF Updates, Txs
  <2>2. t.wants = r.wants
    BY <1>5, <2>1
  <2>3. t \in [wants : Seq(Wants), names : SUBSET Fields, bad : BOOLEAN]
    BY <1>5, <2>1
  <2> QED BY <1>2, <2>2, <2>3 DEF Updates, Txs
<1>7. PICK a : a = IF "scope" \in names THEN <<t>> ELSE <<>>
  OBVIOUS
<1>8. PICK b : b = IF names \cap Flags = {} THEN <<>> ELSE <<u>>
  OBVIOUS
<1>9. Plan(w, names, bad) = a \o b
  BY <1>1, <1>f, <1>3, <1>5, <1>7, <1>8 DEF Plan
<1>10. t \in Txs /\ u \in Txs
  BY <1>4, <1>6 DEF Updates
<1>11. <<>> \in Seq(Txs) /\ <<t>> \in Seq(Txs) /\ <<u>> \in Seq(Txs)
  BY <1>10
<1>12. /\ <<>> \o <<>> = <<>> /\ <<t>> \o <<>> = <<t>> /\ <<>> \o <<u>> = <<u>>
  BY <1>11, ConcatEmptySeq
<1>13. <<t>> \o <<u>> = <<t, u>>
  <2>1. PICK x, y, z : x = <<t>> /\ y = <<u>> /\ z = <<t, u>>
    OBVIOUS
  <2>2. /\ x \in Seq(Txs) /\ y \in Seq(Txs) /\ z \in Seq(Txs)
        /\ Len(x) = 1 /\ Len(y) = 1 /\ Len(z) = 2
        /\ x[1] = t /\ y[1] = u /\ z[1] = t /\ z[2] = u
    BY <1>10, <2>1
  <2>3. /\ x \o y \in Seq(Txs) /\ Len(x \o y) = 2
        /\ \A i \in 1..2 : (x \o y)[i] = IF i <= 1 THEN x[i] ELSE y[i - 1]
    BY <2>2, ConcatProperties
  <2>4. (x \o y)[1] = t /\ (x \o y)[2] = u
    BY <2>2, <2>3
  <2>5. \A i \in 1..2 : (x \o y)[i] = z[i]
    <3>1. \A i \in 1..2 : i = 1 \/ i = 2
      OBVIOUS
    <3> QED BY <2>2, <2>4, <3>1
  <2>6. x \o y = z
    BY <2>2, <2>3, <2>5, SeqEqual
  <2> QED BY <2>1, <2>6
<1>14. a \o b \in Plans(t, u)
  <2>1. CASE a = <<>> /\ b = <<>>
    BY <2>1, <1>12 DEF Plans
  <2>2. CASE a = <<t>> /\ b = <<>>
    BY <2>2, <1>12 DEF Plans
  <2>3. CASE a = <<>> /\ b = <<u>>
    BY <2>3, <1>12 DEF Plans
  <2>4. CASE a = <<t>> /\ b = <<u>>
    BY <2>4, <1>13 DEF Plans
  <2> QED BY <1>7, <1>8, <2>1, <2>2, <2>3, <2>4
<1> QED BY <1>4, <1>6, <1>9, <1>14

\* A plan of updates of one participant is fine.
LEMMA UpdatesFine ==
    ASSUME NEW w \in People, NEW t, NEW u, Updates(t, w), Updates(u, w), ~u.bad,
           NEW q, q.op \in {"patch", "public"}, q.plan \in Plans(t, u)
    PROVE  q.plan \in Seq(Txs) /\ PlanFine(q) /\ Refs(q, table)
<1>0. Row(w) \in Keys /\ Row(w) \notin Users
  BY KeyKinds
<1>1. PICK W \in Wants : /\ ToSet(t.wants) = {W} /\ W.key = Row(w) /\ W.mode = "update"
                         /\ W.id = table[Row(w)].id /\ W.id # 0
  BY DEF Updates
<1>2. PICK V \in Wants : /\ ToSet(u.wants) = {V} /\ V.key = Row(w) /\ V.mode = "update"
                         /\ V.id = table[Row(w)].id
  BY DEF Updates
<1>3. W = V
  BY <1>1, <1>2 DEF Wants
<1>4. TxFine(q, t) /\ TxFine(q, u)
  BY <1>0, <1>1, <1>2, <1>3 DEF TxFine, Fine
<1>5. t \in Txs /\ u \in Txs
  BY DEF Updates
<1>6. CASE q.plan = <<>>
  <2>1. DOMAIN q.plan = {} /\ q.plan \in Seq(Txs)
    BY <1>6, Short
  <2> QED BY <2>1 DEF PlanFine, Refs
<1>7. CASE q.plan = <<t>>
  <2>1. q.plan \in Seq(Txs)
    BY <1>5, <1>7, Short
  <2>2. \A X \in ToSet(t.wants) : X.mode # "upsert"
    BY <1>1
  <2> QED BY <1>4, <1>7, <2>1, <2>2, Single
<1>8. CASE q.plan = <<u>>
  <2>1. q.plan \in Seq(Txs)
    BY <1>5, <1>8, Short
  <2>2. \A X \in ToSet(u.wants) : X.mode # "upsert"
    BY <1>2
  <2> QED BY <1>4, <1>8, <2>1, <2>2, Single
<1>9. CASE q.plan = <<t, u>>
  <2>1. q.plan \in Seq(Txs)
    BY <1>5, <1>9, Short
  <2>2. /\ \A X \in ToSet(t.wants) : X.mode # "upsert"
        /\ \A X \in ToSet(u.wants) : X.mode # "upsert"
    BY <1>1, <1>2
  <2>3. \A X \in ToSet(t.wants), Y \in ToSet(u.wants) : X = Y /\ X.mode = "update"
    BY <1>1, <1>2, <1>3
  <2> QED BY <1>4, <1>9, <2>1, <2>2, <2>3, Double
<1> QED BY <1>6, <1>7, <1>8, <1>9 DEF Plans

\* PATCH of consent or license by a service.
LEMMA BeginPatchStep == ASSUME IInv, NEW p \in Handlers, BeginPatch(p) PROVE IInv'
<1>1. PICK w \in People, names \in {{"scope"}} \cup SUBSET Flags, bad \in BOOLEAN :
         /\ Present(Row(w))
         /\ Begin(p, Load(Request("patch",
               IF names = {} THEN <<Update(w, {})>> ELSE Plan(w, names, bad), names)))
  BY DEF BeginPatch
<1>2. names \subseteq ConsentFields /\ names \subseteq Fields
  BY <1>1, FieldKinds DEF ConsentFields
<1>3. PICK plan : plan = IF names = {} THEN <<Update(w, {})>> ELSE Plan(w, names, bad)
  OBVIOUS
<1>4. PICK t, u : Updates(t, w) /\ Updates(u, w) /\ ~u.bad
                  /\ plan \in Plans(t, u)
  <2>1. CASE names = {}
    <3>1. PICK t : t = Update(w, {})
      OBVIOUS
    <3>2. Updates(t, w) /\ t.bad = FALSE
      BY <1>1, <3>1, MadeUpdate DEF Updates
    <3> QED BY <1>3, <2>1, <3>1, <3>2 DEF Plans
  <2>2. CASE names # {}
    BY <1>1, <1>2, <1>3, <2>2, MadePlan
  <2> QED BY <2>1, <2>2
<1>5. PICK r : r = [Idle EXCEPT !.op = "patch", !.plan = plan, !.asked = names]
  OBVIOUS
<1>6. r.op = "patch" /\ r.plan = plan
  BY <1>5 DEF Idle
<1>7. plan \in Seq(Txs) /\ PlanFine(r) /\ Refs(r, table)
  <2>1. r.op \in {"patch", "public"} /\ r.plan \in Plans(t, u) /\ ~u.bad
    BY <1>4, <1>6
  <2>2. Updates(t, w) /\ Updates(u, w)
    BY <1>4
  <2>3. r.plan \in Seq(Txs) /\ PlanFine(r) /\ Refs(r, table)
    BY <2>1, <2>2, UpdatesFine
  <2> QED BY <1>6, <2>3
<1>8. r = Request("patch", plan, names) /\ r \in Requests /\ r.held = {}
  <2>1. r = Request("patch", plan, names)
    BY <1>5 DEF Request
  <2> QED BY <1>2, <1>7, <2>1, MadeRequest DEF Ops
<1>9. Begin(p, Load(r))
  BY <1>1, <1>3, <1>8
<1> QED BY <1>7, <1>8, <1>9, Arrives

\* The same through a consent token.
LEMMA BeginPublicStep == ASSUME IInv, NEW p \in Handlers, BeginPublic(p) PROVE IInv'
<1>1. PICK w \in People, names \in SUBSET ConsentFields, bad \in BOOLEAN :
         /\ Present(Row(w))
         /\ Begin(p, [Request("public", Plan(w, names, bad), names) EXCEPT
                         !.pc = "token", !.who = Row(w), !.id = table[Row(w)].id])
  BY DEF BeginPublic
<1>2. names \subseteq ConsentFields /\ names \subseteq Fields
  BY <1>1, FieldKinds
<1>3. PICK plan : plan = Plan(w, names, bad)
  OBVIOUS
<1>4. PICK t, u : Updates(t, w) /\ Updates(u, w) /\ ~u.bad
                  /\ plan \in Plans(t, u)
  BY <1>1, <1>2, <1>3, MadePlan
<1>k. PICK k \in Wide : k = Row(w)
  BY KeyKinds
<1>i. PICK i \in Numbers : i = table[Row(w)].id
  BY KeyKinds, NumberKinds DEF IInv, Typed, Schema
<1>5. PICK r : r = [Request("public", plan, names) EXCEPT !.who = k, !.id = i]
  OBVIOUS
<1>6. r.op = "public" /\ r.plan = plan
  BY <1>5 DEF Request, Idle
<1>7. plan \in Seq(Txs) /\ PlanFine(r) /\ Refs(r, table)
  <2>1. r.op \in {"patch", "public"} /\ r.plan \in Plans(t, u) /\ ~u.bad
    BY <1>4, <1>6
  <2>2. Updates(t, w) /\ Updates(u, w)
    BY <1>4
  <2>3. r.plan \in Seq(Txs) /\ PlanFine(r) /\ Refs(r, table)
    BY <2>1, <2>2, UpdatesFine
  <2> QED BY <1>6, <2>3
<1>8. PICK o \in Requests : o = Request("public", plan, names) /\ o.held = {}
  BY <1>2, <1>7, MadeRequest DEF Ops
<1>9. r \in Requests /\ r.held = {}
  BY <1>5, <1>8 DEF Requests
<1>10. [o EXCEPT !.pc = "token", !.who = k, !.id = i] = [r EXCEPT !.pc = "token"]
  BY <1>5, <1>8 DEF Requests
<1>11. Begin(p, [r EXCEPT !.pc = "token"])
  BY <1>1, <1>3, <1>k, <1>i, <1>8, <1>10
<1> QED BY <1>7, <1>9, <1>11, Arrives

\* A new consent token.
LEMMA BeginTokenStep == ASSUME IInv, NEW p \in Handlers, BeginToken(p) PROVE IInv'
<1>1. PICK w \in People :
         /\ Present(Row(w))
         /\ Begin(p, Load([Request("token",
              <<Tx(<<Want(Session, "share"),
                     [key |-> Row(w), mode |-> "share", id |-> table[Row(w)].id],
                     Want(User(w), "share")>>, {})>>, {})
              EXCEPT !.who = Row(w), !.id = table[Row(w)].id]))
  BY DEF BeginToken
<1>k. /\ Session \in Wide /\ Session # Row(w) /\ User(w) \in Wide /\ User(w) # Row(w)
      /\ Row(w) \in Parts /\ Row(w) \in Keys
  BY KeyKinds
<1>l. PICK k \in Wide : k = Row(w)
  BY KeyKinds
<1>i. PICK i \in Numbers : i = table[Row(w)].id /\ i # 0
  BY <1>1, <1>k, NumberKinds DEF IInv, Typed, Schema, Present
<1>2. PICK U \in Wants : U = Want(Session, "share") /\ U.key = Session /\ U.mode = "share"
  BY <1>k, MadeWant DEF Modes
<1>w. PICK W : W = [key |-> k, mode |-> "share", id |-> i]
  OBVIOUS
<1>3. W \in Wants /\ W.key = k /\ W.mode = "share" /\ W.id = i
  BY <1>w DEF Wants
<1>4. PICK V \in Wants : V = Want(User(w), "share") /\ V.key = User(w) /\ V.mode = "share"
  BY <1>k, MadeWant DEF Modes
<1>5. PICK s : s = <<U, W, V>>
  OBVIOUS
<1>6. s \in Seq(Wants) /\ ToSet(s) = {U, W, V}
  <2>1. s \in Seq(Wants) /\ DOMAIN s = {1, 2, 3} /\ s[1] = U /\ s[2] = W /\ s[3] = V
    BY <1>3, <1>5
  <2> QED BY <2>1 DEF ToSet
<1>7. PICK t \in Txs : t = Tx(s, {}) /\ t.wants = s /\ t.names = {}
  BY <1>6, MadeTx
<1>8. PICK plan \in Seq(Txs) : plan = <<t>>
  BY Short
<1>9. PICK o \in Requests : /\ o = Request("token", plan, {}) /\ o.held = {}
                            /\ o.op = "token" /\ o.plan = plan
  BY MadeRequest DEF Ops
<1>10. PICK r : r = [o EXCEPT !.who = k, !.id = i]
  OBVIOUS
<1>11. /\ r \in Requests /\ r.held = {} /\ r.op = "token" /\ r.plan = <<t>>
       /\ r.who = k /\ r.id = i
  BY <1>8, <1>9, <1>10 DEF Requests
<1>12. TxFine(r, t)
  <2>1. \A X \in ToSet(t.wants) : Fine(r, X)
    BY <1>k, <1>l, <1>2, <1>3, <1>4, <1>6, <1>7, <1>11 DEF Fine
  <2>2. [key |-> r.who, mode |-> "share", id |-> r.id] \in ToSet(t.wants)
    BY <1>w, <1>6, <1>7, <1>11
  <2> QED BY <1>k, <1>l, <1>i, <1>7, <1>11, <2>1, <2>2 DEF TxFine
<1>13. \A X \in ToSet(t.wants) : X.mode # "upsert"
  BY <1>2, <1>3, <1>4, <1>6, <1>7
<1>14. PlanFine(r) /\ Refs(r, table)
  BY <1>11, <1>12, <1>13, Single
<1>15. Begin(p, Load(r))
  BY <1>1, <1>l, <1>i, <1>2, <1>w, <1>4, <1>5, <1>7, <1>8, <1>9, <1>10
<1> QED BY <1>11, <1>14, <1>15, Arrives

-----------------------------------------------------------------------------
(* A request ends without a write. *)

\* What is known of a request that has begun.
LEMMA Begun ==
    ASSUME IInv, NEW p \in Handlers
    PROVE  /\ req[p] \in Requests /\ Good(req[p], table)
           /\ ~At(p, "idle") => req[p].n \in Ids
           /\ At(p, "lock") => /\ req[p].plan # <<>> /\ Carried(req[p], table)
                               /\ Sourced(req[p]) /\ Standing(req[p], table)
           /\ ~At(p, "lock") => req[p].held = {}
           /\ req[p].asked \subseteq Fields /\ req[p].held \subseteq Locks
           /\ req[p].plan \in Seq(Txs) /\ req[p].todo \in Seq(Wants)
           /\ req[p].who \in Wide /\ req[p].id \in Numbers
           /\ PlanFine(req[p]) /\ Refs(req[p], table) /\ IsFiniteSet(req[p].held)
<1>1. req[p] \in Requests /\ Good(req[p], table)
  BY DEF IInv, Locking
<1>2. /\ req[p].asked \subseteq Fields /\ req[p].held \subseteq Locks
      /\ req[p].plan \in Seq(Txs) /\ req[p].todo \in Seq(Wants)
      /\ req[p].who \in Wide /\ req[p].id \in Numbers
  BY <1>1 DEF Requests
<1> QED BY <1>1, <1>2 DEF Good, At

\* An answer.
LEMMA Answered ==
    ASSUME IInv, NEW q, q.n \in Ids, q.asked \subseteq Fields, NEW ok \in BOOLEAN,
           Answer(q, ok)
    PROVE  answers' \subseteq [by : Ids, ok : BOOLEAN, asked : SUBSET Fields]
BY DEF IInv, Typed, Answer

\* The steps that only end a request: errors, and a connection that is lost.
LEMMA EndSteps ==
    ASSUME IInv, NEW p \in Handlers,
           \/ NotFound(p) \/ Refused(p) \/ DeadlockVictim(p) \/ BadInput(p)
           \/ TokenUnknown(p) \/ Audit(p) \/ Die(p)
    PROVE  IInv'
<1>1. Finish(p) /\ UNCHANGED <<table, tokens, requests, log>>
  BY DEF NotFound, Refused, DeadlockVictim, BadInput, TokenUnknown, Audit, Die
<1>2. req[p].asked \subseteq Fields /\ (~At(p, "idle") => req[p].n \in Ids)
  BY Begun
<1>3. /\ audit' \subseteq Ids
      /\ answers' \subseteq [by : Ids, ok : BOOLEAN, asked : SUBSET Fields]
  <2>1. CASE UNCHANGED <<audit, answers>>
    BY <2>1 DEF IInv, Typed
  <2>2. CASE NotFound(p) \/ BadInput(p) \/ TokenUnknown(p)
    <3>1. audit' = audit /\ Answer(req[p], FALSE)
      BY <2>2 DEF NotFound, BadInput, TokenUnknown
    <3>2. ~At(p, "idle")
      BY <2>2 DEF NotFound, BadInput, TokenUnknown, Waits, Taking, At
    <3> QED BY <3>1, <3>2, <1>2, Answered DEF IInv, Typed
  <2>3. CASE Audit(p)
    <3>1. audit' = audit \cup {req[p].n} /\ Answer(req[p], TRUE)
      BY <2>3 DEF Audit
    <3>2. ~At(p, "idle")
      BY <2>3 DEF Audit, At
    <3> QED BY <3>1, <3>2, <1>2, Answered DEF IInv, Typed
  <2> QED BY <2>1, <2>2, <2>3 DEF Refused, DeadlockVictim, Die
<1>4. Typed'
  <2>1. Schema(table, tokens)' /\ requests' \in Ids /\ log' \in Seq(Changes)
    BY <1>1 DEF IInv, Typed, Schema
  <2> QED BY <2>1, <1>3 DEF Typed
<1> QED BY <1>1, <1>4, Ends

\* A token expires.
LEMMA ExpireStep == ASSUME IInv, NEW t \in tokens, Expire(t) PROVE IInv'
<1>1. tokens' \subseteq tokens /\ UNCHANGED <<table, req, requests, log, audit, answers>>
  BY DEF Expire
<1>2. Typed'
  BY <1>1 DEF IInv, Typed, Schema
<1>3. Locking' /\ Exclusive'
  BY <1>1 DEF IInv, Locking, Exclusive
<1> QED BY <1>2, <1>3 DEF IInv

\* A consent token is found.
LEMMA TokenFoundStep == ASSUME IInv, NEW p \in Handlers, TokenFound(p) PROVE IInv'
<1>1. /\ req[p].pc = "token" /\ UNCHANGED <<table, tokens, requests, log, audit, answers>>
  BY DEF TokenFound, At
<1>2. /\ req[p] \in Requests /\ req[p].n \in Ids /\ req[p].held = {}
      /\ PlanFine(req[p]) /\ Refs(req[p], table)
  BY <1>1, Begun DEF At
<1>3. PICK y : y = [req[p] EXCEPT !.pc = "context"]
  OBVIOUS
<1>4. req' = [req EXCEPT ![p] = y]
  BY <1>3 DEF TokenFound
<1>5. /\ y \in Requests /\ y.pc = "context" /\ y.n \in Ids /\ y.held = {}
      /\ y.op = req[p].op /\ y.plan = req[p].plan /\ y.who = req[p].who
      /\ y.id = req[p].id /\ y.asked = req[p].asked
  BY <1>2, <1>3 DEF Requests
<1>6. PlanFine(y) /\ Refs(y, table)
  BY <1>2, <1>5, SamePlan
<1>7. Good(y, table)
  BY <1>5, <1>6, FS_EmptySet DEF Good
<1>8. Typed'
  BY <1>1 DEF IInv, Typed, Schema
<1> QED BY <1>1, <1>4, <1>5, <1>7, <1>8, Moves

\* Its participant is read.
LEMMA ReadContextStep == ASSUME IInv, NEW p \in Handlers, ReadContext(p) PROVE IInv'
<1>1. /\ req[p].pc = "context" /\ UNCHANGED <<table, tokens, requests, log, audit, answers>>
  BY DEF ReadContext, At
<1>2. /\ req[p] \in Requests /\ req[p].n \in Ids /\ req[p].held = {}
      /\ PlanFine(req[p]) /\ Refs(req[p], table)
  BY <1>1, Begun DEF At
<1>3. PICK y : y = IF table[req[p].who].id = req[p].id THEN Load(req[p]) ELSE Idle
  OBVIOUS
<1>4. req' = [req EXCEPT ![p] = y]
  BY <1>3 DEF ReadContext
<1>5. Good(y, table) /\ y.held = {}
  BY <1>2, <1>3, Loads, IdleGood, IdleType
<1>6. Typed'
  BY <1>1 DEF IInv, Typed, Schema
<1> QED BY <1>1, <1>4, <1>5, <1>6, Moves

-----------------------------------------------------------------------------
(* A lock is granted. *)

\* What is taken of a row.
LEMMA Granted ==
    ASSUME NEW W \in Wants, ~Gone(W)
    PROVE  /\ Grant(W) \subseteq Locks /\ IsFiniteSet(Grant(W))
           /\ \A b \in Grant(W) :
                 /\ b.key = W.key
                 /\ b.mode = "share" => W.mode = "share"
                 /\ b.mode = "update" =>
                       \/ W.mode \in {"upsert", "touch"} /\ Present(W.key)
                       \/ W.mode = "update"
                 /\ b.mode = "excl" =>
                       \/ W.mode \in {"upsert", "seed"} /\ ~Present(W.key)
                       \/ W.mode = "excl"
           /\ W.mode = "upsert" =>
                 \E m \in {"update", "excl"} : [key |-> W.key, mode |-> m] \in Grant(W)
           /\ W.mode = "seed" => Present(W.key) \/ [key |-> W.key, mode |-> "excl"] \in Grant(W)
           /\ W.mode \in {"share", "update", "excl"} =>
                 [key |-> W.key, mode |-> W.mode] \in Grant(W)
<1> DEFINE L(m) == [key |-> W.key, mode |-> m]
<1>0. /\ W.key \in Wide
      /\ W.mode \in {"share", "update", "excl", "upsert", "seed", "touch"}
  BY DEF Wants
<1>1. ASSUME NEW m \in {"share", "update", "excl"}
      PROVE  /\ L(m) \in Locks /\ L(m).key = W.key /\ L(m).mode = m
             /\ {L(m)} \subseteq Locks /\ IsFiniteSet({L(m)})
  <2>1. L(m) \in Locks /\ L(m).key = W.key /\ L(m).mode = m
    BY <1>0 DEF Locks
  <2> QED BY <2>1, FS_Singleton
<1>2. CASE W.mode = "upsert" /\ Present(W.key)
  <2>1. Grant(W) = {L("update")}
    BY <1>2 DEF Grant
  <2> QED BY <1>1, <1>2, <2>1
<1>3. CASE W.mode = "upsert" /\ ~Present(W.key)
  <2>1. Grant(W) = {L("excl")}
    BY <1>3 DEF Grant
  <2> QED BY <1>1, <1>3, <2>1
<1>4. CASE W.mode = "seed" /\ Present(W.key)
  <2>1. Grant(W) = {}
    BY <1>4 DEF Grant
  <2> QED BY <1>4, <2>1, FS_EmptySet
<1>5. CASE W.mode = "seed" /\ ~Present(W.key)
  <2>1. Grant(W) = {L("excl")}
    BY <1>5 DEF Grant
  <2> QED BY <1>1, <1>5, <2>1
<1>6. CASE W.mode = "touch" /\ Present(W.key)
  <2>1. Grant(W) = {L("update")}
    BY <1>6 DEF Grant
  <2> QED BY <1>1, <1>6, <2>1
<1>7. CASE W.mode = "touch" /\ ~Present(W.key)
  <2>1. Grant(W) = {}
    BY <1>7 DEF Grant
  <2> QED BY <1>7, <2>1, FS_EmptySet
<1>8. CASE W.mode \in {"share", "update", "excl"}
  <2>1. Grant(W) = {L(W.mode)}
    BY <1>8 DEF Grant
  <2> QED BY <1>1, <1>8, <2>1
<1> QED BY <1>0, <1>2, <1>3, <1>4, <1>5, <1>6, <1>7, <1>8

\* What is locked later: references in share mode, or a session's participants.
LEMMA Afterwards ==
    ASSUME IInv, NEW p \in Handlers, Waits(p), NEW more \in Later(p)
    PROVE  /\ more \in Seq(Wants)
           /\ \A V \in ToSet(more) :
                 /\ Fine(req[p], V)
                 /\ V.mode # "share" => req[p].op = "cascade"
                 /\ V.id = 0
<1> DEFINE q == req[p]
           k == Next1(p).key
<1>1. /\ q.todo \in Seq(Wants) /\ q.todo # <<>> /\ Sourced(q)
  BY Begun DEF Waits, Taking
<1>2. /\ Next1(p) \in Wants /\ Next1(p) \in ToSet(q.todo)
  BY <1>1, Split DEF Next1
<1>3. Fine(q, Next1(p)) /\ k \in Wide
  BY <1>1, <1>2 DEF Sourced, Wants
<1>4. CASE Next1(p).mode = "upsert" /\ ~Present(k) /\ k[1] \in {"row", "name"}
  <2>1. q.op # "cascade" /\ q.op # "token" /\ k \in Keys
    BY <1>3, <1>4 DEF Fine
  <2>k. \A x \in Keys : x[2] \in People
    BY DEF Keys
  <2>l. k[2] \in People
    BY <2>1, <2>k
  <2>2. Session \in Wide /\ User(k[2]) \in Wide
    BY <2>l, KeyKinds
  <2>3. PICK A \in Wants : A = Want(Session, "share") /\ A.mode = "share" /\ A.id = 0
    BY <2>2, MadeWant DEF Modes
  <2>4. PICK B \in Wants : B = Want(User(k[2]), "share") /\ B.mode = "share" /\ B.id = 0
    BY <2>2, MadeWant DEF Modes
  <2>5. CASE k[1] = "row"
    <3>1. Later(p) = {<<Want(Session, "share"), Want(User(k[2]), "share")>>}
      BY <1>4, <2>1, <2>5 DEF Later
    <3>2. more = <<A, B>>
      BY <3>1, <2>3, <2>4
    <3>3. more \in Seq(Wants) /\ DOMAIN more = {1, 2} /\ more[1] = A /\ more[2] = B
      BY <3>2
    <3>4. ToSet(more) = {A, B}
      BY <3>3 DEF ToSet
    <3> QED BY <2>1, <2>3, <2>4, <3>3, <3>4 DEF Fine
  <2>6. CASE k[1] = "name"
    <3>1. Later(p) = {<<Want(User(k[2]), "share")>>}
      BY <1>4, <2>1, <2>6 DEF Later
    <3>2. more = <<B>>
      BY <3>1, <2>4
    <3>3. more \in Seq(Wants) /\ DOMAIN more = {1} /\ more[1] = B
      BY <3>2
    <3>4. ToSet(more) = {B}
      BY <3>3 DEF ToSet
    <3> QED BY <2>1, <2>4, <3>3, <3>4 DEF Fine
  <2> QED BY <1>4, <2>5, <2>6
<1>5. CASE q.op = "cascade" /\ k = Session
  <2>1. /\ k[1] \notin {"row", "name"}
    BY <1>5 DEF Session
  <2>2. PICK S : S = {Row(w) : w \in {x \in People : Present(Row(x))}}
    OBVIOUS
  <2>3. PICK s \in SetToSeqs(S) : more = [i \in DOMAIN s |-> Want(s[i], "excl")]
    BY <1>5, <2>1, <2>2 DEF Later
  <2>4. IsFiniteSet(S) /\ S \subseteq Parts
    <3>1. PICK P : P = {x \in People : Present(Row(x))}
      OBVIOUS
    <3>2. IsFiniteSet(P) /\ P \subseteq People
      BY <3>1, FS_Subset, PeopleAssumption
    <3>3. PICK f : f = [x \in P |-> Row(x)]
      OBVIOUS
    <3>4. f \in Surjection(P, S)
      <4>1. S = {Row(x) : x \in P}
        BY <2>2, <3>1
      <4> QED BY <3>3, <4>1 DEF Surjection
    <3>5. IsFiniteSet(S)
      BY <3>2, <3>4, FS_Surjection
    <3> QED BY <2>2, <3>5, KeyKinds
  <2>5. s \in Seq(S)
    BY <2>4, Ordered
  <2>6. Len(s) \in Nat /\ DOMAIN s = 1..Len(s) /\ \A i \in 1..Len(s) : s[i] \in Parts
    BY <2>4, <2>5, LenProperties, ElementOfSeq
  <2>7. ASSUME NEW i \in 1..Len(s)
        PROVE  /\ more[i] \in Wants /\ more[i].mode = "excl" /\ more[i].key \in Parts
               /\ more[i].id = 0
    <3>1. more[i] = Want(s[i], "excl") /\ s[i] \in Wide /\ s[i] \in Parts
      BY <2>3, <2>6, KeyKinds
    <3> QED BY <3>1, MadeWant DEF Modes
  <2>8. more \in [1..Len(s) -> Wants] /\ DOMAIN more = 1..Len(s)
    BY <2>3, <2>6, <2>7
  <2>9. more \in Seq(Wants)
    BY <2>6, <2>8
  <2>10. \A V \in ToSet(more) : V.mode = "excl" /\ V.key \in Parts /\ V.id = 0
    BY <2>7, <2>8 DEF ToSet
  <2> QED BY <1>5, <2>9, <2>10 DEF Fine
<1>6. CASE /\ ~(Next1(p).mode = "upsert" /\ ~Present(k) /\ k[1] \in {"row", "name"})
           /\ ~(q.op = "cascade" /\ k = Session)
  <2>1. more = <<>>
    BY <1>6 DEF Later
  <2> QED BY <2>1, Short
<1> QED BY <1>4, <1>5, <1>6

\* A request takes the lock it waits for.
LEMMA LockStep == ASSUME IInv, NEW p \in Handlers, Lock(p) PROVE IInv'
<1> DEFINE q == req[p]
<1>1. /\ Waits(p) /\ Blockers(p) = {} /\ ~Missing(p) /\ ~Repeated(p)
      /\ UNCHANGED <<table, tokens, requests, log, audit, answers>>
  BY DEF Lock
<1>2. PICK more \in Later(p) :
         req' = [req EXCEPT ![p].todo = Tail(@) \o more, ![p].held = @ \cup Grant(Next1(p))]
  BY DEF Lock
<1>3. /\ q \in Requests /\ q.pc = "lock" /\ q.n \in Ids /\ q.plan # <<>> /\ q.plan \in Seq(Txs)
      /\ q.todo # <<>> /\ q.todo \in Seq(Wants) /\ q.held \subseteq Locks
      /\ Carried(q, table) /\ Sourced(q) /\ Standing(q, table)
      /\ PlanFine(q) /\ Refs(q, table) /\ IsFiniteSet(q.held)
  BY <1>1, Begun DEF Waits, Taking, At
<1>4. PICK W : W = Next1(p)
  OBVIOUS
<1>5. /\ W \in Wants /\ Tail(q.todo) \in Seq(Wants)
      /\ ToSet(q.todo) = {W} \cup ToSet(Tail(q.todo))
  BY <1>3, <1>4, Split DEF Next1
<1>6. Fine(q, W) /\ ~Gone(W)
  BY <1>1, <1>3, <1>4, <1>5 DEF Sourced, Missing
<1>7. /\ more \in Seq(Wants)
      /\ \A V \in ToSet(more) : Fine(q, V) /\ (V.mode # "share" => q.op = "cascade")
  BY <1>1, Afterwards
<1>8. PICK s : s = Tail(q.todo) \o more
  OBVIOUS
<1>9. s \in Seq(Wants) /\ ToSet(s) = ToSet(Tail(q.todo)) \cup ToSet(more)
  <2>1. PICK r \in Seq(Wants) : r = Tail(q.todo)
    BY <1>5
  <2>2. more \in Seq(Wants)
    BY <1>7
  <2>3. r \o more \in Seq(Wants) /\ ToSet(r \o more) = ToSet(r) \cup ToSet(more)
    BY <2>2, Chained
  <2> QED BY <2>1, <2>3, <1>8
<1>10. PICK G : G = Grant(W)
  OBVIOUS
<1>11. /\ G \subseteq Locks /\ IsFiniteSet(G)
       /\ \A b \in G :
             /\ b.key = W.key
             /\ b.mode = "share" => W.mode = "share"
             /\ b.mode = "update" =>
                   \/ W.mode \in {"upsert", "touch"} /\ Present(W.key)
                   \/ W.mode = "update"
             /\ b.mode = "excl" =>
                   \/ W.mode \in {"upsert", "seed"} /\ ~Present(W.key)
                   \/ W.mode = "excl"
       /\ W.mode = "upsert" =>
             \E m \in {"update", "excl"} : [key |-> W.key, mode |-> m] \in G
       /\ W.mode = "seed" => Present(W.key) \/ [key |-> W.key, mode |-> "excl"] \in G
       /\ W.mode \in {"share", "update", "excl"} => [key |-> W.key, mode |-> W.mode] \in G
  BY <1>5, <1>6, <1>10, Granted
<1>12. PICK y : y = [q EXCEPT !.todo = s, !.held = @ \cup G]
  OBVIOUS
<1>13. req' = [req EXCEPT ![p] = y]
  BY <1>2, <1>4, <1>8, <1>10, <1>12
<1>14. /\ y \in Requests /\ y.pc = "lock" /\ y.op = q.op /\ y.plan = q.plan /\ y.todo = s
       /\ y.held = q.held \cup G /\ y.who = q.who /\ y.id = q.id /\ y.asked = q.asked
       /\ y.n = q.n
  BY <1>3, <1>9, <1>11, <1>12 DEF Requests
<1>15. PlanFine(y) /\ Refs(y, table) /\ \A V : Fine(y, V) = Fine(q, V)
  BY <1>3, <1>14, SamePlan
<1>w. /\ W.mode \in Modes /\ W.key \in Wide /\ W.id \in Numbers
  BY <1>5 DEF Wants, Modes
<1>16. Carried(y, table)
  <2>1. ASSUME NEW V, Dealt(q, table, V) PROVE Dealt(y, table, V)
    BY <2>1, <1>14 DEF Dealt
  <2>2. Dealt(y, table, W)
    BY <1>w, <1>11, <1>14 DEF Dealt, Modes, Present
  <2> QED BY <2>1, <2>2, <1>3, <1>5, <1>9, <1>14 DEF Carried
<1>17. Sourced(y)
  <2>1. \A V \in ToSet(s) :
           /\ Fine(q, V)
           /\ V.mode # "share" /\ q.op # "cascade" => V \in ToSet(Head(q.plan).wants)
    BY <1>3, <1>5, <1>7, <1>9 DEF Sourced
  <2>2. CASE q.op = "cascade"
    <3>1. W.mode = "excl" /\ W.key \in Parts \cup {Session}
      BY <2>2, <1>6 DEF Fine
    <3>2. \A b \in G : b.mode = "excl" /\ b.key \in Parts \cup {Session}
      <4>1. \A b \in G : b.mode \in {"share", "update", "excl"}
        BY <1>11 DEF Locks
      <4> QED BY <3>1, <4>1, <1>11
    <3> QED BY <2>1, <2>2, <3>2, <1>3, <1>14, <1>15 DEF Sourced
  <2>3. CASE q.op # "cascade"
    <3>1. ASSUME NEW b \in G, b.mode # "share" PROVE b.key \in Keys /\ Wanted(y, b)
      <4>1. b.mode \in {"share", "update", "excl"}
        BY <1>11 DEF Locks
      <4>2. W.mode # "share" /\ b.key = W.key
        BY <4>1, <3>1, <1>11
      <4>3. W \in ToSet(Head(q.plan).wants) /\ W.key \in Keys
        BY <4>2, <2>3, <1>3, <1>5, <1>6 DEF Sourced, Fine
      <4>4. W.mode \in (IF b.mode = "update" THEN {"upsert", "update", "touch"}
                        ELSE {"upsert", "seed", "excl"})
        BY <4>1, <3>1, <1>11
      <4> QED BY <4>2, <4>3, <4>4, <1>14 DEF Wanted
    <3>2. \A b : Wanted(q, b) => Wanted(y, b)
      BY <1>14 DEF Wanted
    <3> QED BY <2>1, <2>3, <3>1, <3>2, <1>3, <1>14, <1>15 DEF Sourced
  <2> QED BY <2>2, <2>3
<1>18. Standing(y, table)
  <2>1. ASSUME NEW b \in G, b.mode = "update" PROVE table[b.key].id # 0
    <3>1. CASE W.mode \in {"upsert", "touch"} /\ Present(W.key)
      BY <3>1, <1>11 DEF Present
    <3>2. CASE W.mode = "update"
      BY <3>2, <1>6, <1>11 DEF Fine, Gone
    <3> QED BY <2>1, <3>1, <3>2, <1>11
  <2>2. ASSUME NEW b \in G, b.mode = "excl", b.key \notin Users, q.op # "cascade"
        PROVE  table[b.key].id = 0
    <3>1. W.mode \notin {"excl", "seed"} /\ b.key = W.key
      BY <2>2, <1>6, <1>11 DEF Fine
    <3> QED BY <2>2, <3>1, <1>11 DEF Present
  <2>3. ASSUME NEW b \in G, q.op = "token", b.key = q.who PROVE table[b.key].id = q.id
    <3>1. W.key = q.who /\ W.id = q.id
      BY <2>3, <1>6, <1>11 DEF Fine
    <3>2. q.id # 0
      <4>1. TxFine(q, q.plan[1])
        BY <1>3, Split DEF PlanFine
      <4> QED BY <4>1, <2>3 DEF TxFine
    <3> QED BY <2>3, <3>1, <3>2, <1>6 DEF Gone
  <2> QED BY <2>1, <2>2, <2>3, <1>3, <1>14 DEF Standing
<1>19. Good(y, table)
  <2>h. PICK h : h = q.held
    OBVIOUS
  <2>g. IsFiniteSet(h) /\ IsFiniteSet(G)
    BY <2>h, <1>3, <1>11
  <2>u. IsFiniteSet(h \cup G)
    BY <2>g, FS_Union
  <2>1. IsFiniteSet(y.held)
    BY <2>h, <2>u, <1>14
  <2> QED BY <2>1, <1>3, <1>14, <1>15, <1>16, <1>17, <1>18 DEF Good
<1>20. ASSUME NEW h \in Handlers \ {p}, NEW a \in y.held, NEW b \in req[h].held
       PROVE  ~Conflict(a, b)
  <2>1. CASE a \in q.held
    BY <2>1, <1>20 DEF IInv, Exclusive
  <2>2. CASE a \in G
    <3>1. h \notin Blockers(p)
      BY <1>1
    <3> QED BY <2>2, <3>1, <1>4, <1>10 DEF Blockers
  <2> QED BY <2>1, <2>2, <1>14
<1>21. Typed'
  BY <1>1 DEF IInv, Typed, Schema
<1> QED BY <1>1, <1>13, <1>19, <1>20, <1>21, Moves

-----------------------------------------------------------------------------
(* A transaction commits. *)

\* A plan keeps its references when users stay users.
LEMMA RefsStay ==
    ASSUME NEW q \in Requests, NEW T, NEW U, PlanFine(q), Refs(q, T),
           \A k \in Users : T[k].id # 0 => U[k].id # 0
    PROVE  Refs(q, U)
<1>1. ASSUME NEW i \in DOMAIN q.plan, NEW W \in ToSet(q.plan[i].wants),
             W.mode = "upsert", W.key \notin Users
      PROVE  W.key \in Keys /\ User(W.key[2]) \in Users
  <2>1. Fine(q, W)
    BY DEF PlanFine, TxFine
  <2>2. W.key \in Keys
    BY <1>1, <2>1 DEF Fine
  <2>3. \A x \in Keys : x[2] \in People
    BY DEF Keys
  <2>4. W.key[2] \in People
    BY <2>2, <2>3
  <2> QED BY <2>2, <2>4, KeyKinds
<1> QED BY <1>1 DEF Refs

\* Another request stays as good as it was: users stay users, and the rows
\* that it has locked stay who they are.
LEMMA Stays ==
    ASSUME NEW q, NEW T, NEW U, Good(q, T),
           \A k \in Users : T[k].id # 0 => U[k].id # 0,
           \A b \in q.held : b.key \in Keys => U[b.key].id = T[b.key].id
    PROVE  Good(q, U)
<1>1. q \in Requests /\ PlanFine(q) /\ Refs(q, T)
  BY DEF Good
<1>2. Refs(q, U)
  BY <1>1, RefsStay
<1>3. CASE q.pc # "lock"
  BY <1>2, <1>3 DEF Good
<1>4. CASE q.pc = "lock"
  <2>1. /\ q.plan # <<>> /\ Carried(q, T) /\ Sourced(q) /\ Standing(q, T)
        /\ q.plan \in Seq(Txs)
    BY <1>1, <1>4 DEF Good, Requests
  <2>2. TxFine(q, Head(q.plan))
    BY <1>1, <2>1, Split DEF PlanFine
  <2>3. Carried(q, U)
    <3>1. ASSUME NEW W \in ToSet(Head(q.plan).wants), Dealt(q, T, W) PROVE Dealt(q, U, W)
      <4>1. CASE W.mode = "seed"
        <5>1. W.key \in Users
          BY <2>2, <4>1 DEF TxFine, Fine
        <5> QED BY <3>1, <4>1, <5>1 DEF Dealt
      <4>2. CASE W.mode # "seed"
        BY <3>1, <4>2 DEF Dealt
      <4> QED BY <4>1, <4>2
    <3> QED BY <2>1, <3>1 DEF Carried
  <2>4. Standing(q, U)
    <3>1. ASSUME NEW b \in q.held, b.mode = "update"
          PROVE  U[b.key].id # 0
      <4>1. b.key \in Keys
        BY <2>1, <3>1 DEF Sourced
      <4> QED BY <2>1, <3>1, <4>1 DEF Standing
    <3>2. ASSUME NEW b \in q.held, b.mode = "excl", b.key \notin Users, q.op # "cascade"
          PROVE  U[b.key].id = 0
      <4>1. b.key \in Keys
        BY <2>1, <3>2 DEF Sourced
      <4> QED BY <2>1, <3>2, <4>1 DEF Standing
    <3>3. ASSUME NEW b \in q.held, q.op = "token", b.key = q.who
          PROVE  U[b.key].id = q.id
      <4>1. b.key \in Keys
        BY <2>2, <3>3, KeyKinds DEF TxFine
      <4> QED BY <2>1, <3>3, <4>1 DEF Standing
    <3> QED BY <3>1, <3>2, <3>3 DEF Standing
  <2> QED BY <1>2, <1>4, <2>1, <2>3, <2>4 DEF Good
<1> QED BY <1>3, <1>4

\* A request writes rows that no other has locked, and lets go of its locks.
LEMMA Writes ==
    ASSUME IInv, NEW p \in Handlers, NEW y, req' = [req EXCEPT ![p] = y],
           Good(y, table'), y.held = {}, Typed',
           \A k \in Users : table[k].id # 0 => table'[k].id # 0,
           \A h \in Handlers \ {p} : \A b \in req[h].held :
              b.key \in Keys => table'[b.key].id = table[b.key].id
    PROVE  IInv'
<1>1. /\ req \in [Handlers -> Requests] /\ y \in Requests
      /\ \A h \in Handlers : Good(req[h], table)
  BY DEF IInv, Locking, Good
<1>2. /\ req' \in [Handlers -> Requests] /\ req'[p] = y
      /\ \A h \in Handlers : h # p => req'[h] = req[h]
  BY <1>1
<1>3. PICK U : U = table'
  OBVIOUS
<1>4. ASSUME NEW h \in Handlers, h # p PROVE Good(req[h], U)
  BY <1>1, <1>3, <1>4, Stays
<1>5. Locking'
  BY <1>2, <1>3, <1>4 DEF Locking
<1>6. Exclusive'
  BY <1>2 DEF IInv, Exclusive, Conflict
<1> QED BY <1>5, <1>6 DEF IInv

\* What a transaction that is about to commit writes, and what is there after.
LEMMA Wrote ==
    ASSUME IInv, NEW p \in Handlers, Taking(p), req[p].todo = <<>>, req[p].op # "cascade",
           table' = [k \in Keys |-> IF k \in Written(p) THEN NewRow(p, k) ELSE table[k]]
    PROVE  /\ \A k \in Written(p) : k \in Keys /\ \E b \in req[p].held : b.key = k
           /\ \A k \in Keys : /\ table[k].id # 0 => table'[k].id = table[k].id
                              /\ k \in Written(p) => table'[k].id # 0
                              /\ k \notin Written(p) => table'[k] = table[k]
           /\ \A h \in Handlers \ {p} : \A b \in req[h].held :
                 b.key \in Keys => table'[b.key].id = table[b.key].id
           /\ table' \in [Keys -> Rows]
           /\ \A k \in Written(p) : Change(p, k) \in Changes
<1> DEFINE q == req[p]
<1>1. /\ q \in Requests /\ q.n \in Ids /\ q.plan # <<>> /\ q.plan \in Seq(Txs)
      /\ Sourced(q) /\ Standing(q, table) /\ q.held \subseteq Locks
  BY Begun DEF Taking, At
<1>2. table \in [Keys -> Rows] /\ q.n # 0 /\ q.n \in Nat
  BY <1>1, NumberKinds DEF IInv, Typed, Schema
<1>3. ASSUME NEW k \in Written(p)
      PROVE  /\ k \in Keys
             /\ \E b \in q.held : b.key = k /\ b.mode # "share"
  <2>1. PICK b \in q.held : b.key = k /\ b.mode # "share"
    BY DEF Written
  <2> QED BY <2>1, <1>1 DEF Sourced
<1>4. ASSUME NEW k \in Keys
      PROVE  /\ NewRow(p, k).id = IF table[k].id # 0 THEN table[k].id ELSE q.n
             /\ NewRow(p, k) \in Rows /\ Change(p, k) \in Changes
  <2>1. Columns(p, k) \subseteq Fields
    <3>1. Head(q.plan) \in Txs
      BY <1>1, Split
    <3>2. Head(q.plan).names \subseteq Fields
      BY <3>1 DEF Txs
    <3> QED BY <3>2 DEF Columns
  <2>2. NewRow(p, k).id = IF table[k].id # 0 THEN table[k].id ELSE q.n
    BY DEF NewRow, Present
  <2>3. table[k] \in Rows
    BY <1>2
  <2>4. table[k].id \in Numbers /\ table[k].vals \in [Fields -> Numbers]
    BY <2>3, NumberKinds
  <2>5. NewRow(p, k).id \in Ids
    BY <1>1, <2>2, <2>4, NumberKinds
  <2>6. \A f \in Fields :
           (IF f \in Columns(p, k) THEN q.n ELSE table[k].vals[f]) \in Numbers
    BY <1>1, <2>4, NumberKinds
  <2>7. NewRow(p, k) \in [id : Ids, vals : [Fields -> Numbers]]
    BY <2>5, <2>6 DEF NewRow
  <2>8. NewRow(p, k) \in Rows
    BY <2>7 DEF Rows, Numbers
  <2>9. Change(p, k) \in Changes
    BY <1>1, <2>1, <2>5 DEF Change, Changes
  <2> QED BY <2>2, <2>8, <2>9
<1>5. ASSUME NEW k \in Keys
      PROVE  /\ table[k].id # 0 => table'[k].id = table[k].id
             /\ k \in Written(p) => table'[k].id # 0
             /\ k \notin Written(p) => table'[k] = table[k]
             /\ table'[k] \in Rows
  BY <1>2, <1>4
<1>6. ASSUME NEW h \in Handlers \ {p}, NEW b \in req[h].held, b.key \in Keys
      PROVE  table'[b.key].id = table[b.key].id
  <2>1. CASE b.key \notin Written(p)
    BY <2>1, <1>5, <1>6
  <2>2. CASE b.key \in Written(p)
    <3>1. PICK a \in q.held : a.key = b.key /\ a.mode # "share"
      BY <2>2, <1>3
    <3>2. ~Conflict(a, b)
      BY <1>6 DEF IInv, Exclusive
    <3>3. a.mode = "update"
      BY <3>1, <3>2, <1>1 DEF Conflict, Locks
    <3>4. table[b.key].id # 0
      BY <3>1, <3>3, <1>1 DEF Standing
    <3> QED BY <3>4, <1>5, <1>6
  <2> QED BY <2>1, <2>2
<1>7. table' \in [Keys -> Rows]
  BY <1>5
<1> QED BY <1>3, <1>4, <1>5, <1>6, <1>7

\* Who makes a row has made, or found, its user.
LEMMA HasUser ==
    ASSUME IInv, NEW p \in Handlers, Taking(p), req[p].todo = <<>>, req[p].op # "cascade",
           table' = [k \in Keys |-> IF k \in Written(p) THEN NewRow(p, k) ELSE table[k]]
    PROVE  /\ \A V \in ToSet(Head(req[p].plan).wants) :
                 V.key \in Users /\ V.mode \in {"excl", "seed"} => table'[V.key].id # 0
           /\ \A k \in Keys : k \notin Users /\ table'[k].id # 0 => table'[User(k[2])].id # 0
<1> DEFINE q == req[p]
<1>1. /\ q \in Requests /\ q.n \in Ids /\ q.plan # <<>> /\ q.plan \in Seq(Txs)
      /\ Carried(q, table) /\ Sourced(q) /\ Standing(q, table) /\ q.held \subseteq Locks
      /\ PlanFine(q) /\ Refs(q, table)
  BY Begun DEF Taking, At
<1>2. /\ 1 \in DOMAIN q.plan /\ Head(q.plan) = q.plan[1]
  BY <1>1, Split
<1>3. TxFine(q, Head(q.plan))
  BY <1>1, <1>2 DEF PlanFine
<1>4. ASSUME NEW k \in Keys
      PROVE  /\ table[k].id # 0 => table'[k].id # 0
             /\ k \in Written(p) => table'[k].id # 0
             /\ k \notin Written(p) => table'[k] = table[k]
  BY Wrote
<1>5. ASSUME NEW V \in ToSet(Head(q.plan).wants), V.key \in Users, V.mode \in {"excl", "seed"}
      PROVE  table'[V.key].id # 0
  <2>1. V.key \in Keys /\ V.key # Session
    BY <1>5, KeyKinds
  <2>2. ToSet(q.todo) = {}
    BY Short
  <2>3. Dealt(q, table, V)
    BY <1>1, <2>2 DEF Carried
  <2>4. table[V.key].id # 0 \/ [key |-> V.key, mode |-> "excl"] \in q.held
    BY <1>5, <2>3 DEF Dealt
  <2>5. CASE [key |-> V.key, mode |-> "excl"] \in q.held
    <3>1. PICK b \in q.held : b.key = V.key /\ b.mode = "excl"
      BY <2>5
    <3>2. V.key \in Written(p)
      BY <2>1, <3>1 DEF Written
    <3> QED BY <2>1, <3>2, <1>4
  <2> QED BY <2>1, <2>4, <2>5, <1>4
<1>6. ASSUME NEW k \in Keys, k \notin Users, table'[k].id # 0
      PROVE  table'[User(k[2])].id # 0
  <2>0. PICK w \in People : k = Row(w) \/ k = Name(w)
    BY <1>6, KeyKinds
  <2>1. k[2] = w /\ User(w) \in Users /\ User(w) \in Keys
    BY <2>0, KeyKinds
  <2>2. CASE table[k].id # 0
    <3>1. table[User(w)].id # 0
      BY <2>0, <2>2 DEF IInv, Typed, Schema
    <3> QED BY <2>1, <3>1, <1>4
  <2>3. CASE table[k].id = 0
    <3>1. k \in Written(p)
      BY <2>3, <1>4, <1>6
    <3>2. PICK b \in q.held : b.key = k /\ b.mode # "share"
      BY <3>1 DEF Written
    <3>3. b.mode = "excl" /\ Wanted(q, b)
      BY <3>2, <2>3, <1>1 DEF Standing, Sourced, Locks
    <3>4. PICK W \in ToSet(Head(q.plan).wants) :
             W.key = k /\ W.mode \in {"upsert", "seed", "excl"}
      BY <3>2, <3>3 DEF Wanted
    <3>5. W.mode = "upsert"
      BY <3>4, <1>3, <1>6 DEF TxFine, Fine
    <3>6. \/ table[User(w)].id # 0
          \/ \E j \in 1..1 : \E V \in ToSet(q.plan[j].wants) :
                V.key = User(w) /\ V.mode \in {"excl", "seed"}
      BY <3>4, <3>5, <2>1, <1>1, <1>2, <1>6 DEF Refs
    <3>7. CASE table[User(w)].id # 0
      BY <3>7, <2>1, <1>4
    <3>8. CASE table[User(w)].id = 0
      <4>1. PICK V \in ToSet(Head(q.plan).wants) : V.key = User(w) /\ V.mode \in {"excl", "seed"}
        <5>1. \A j \in 1..1 : j = 1
          OBVIOUS
        <5> QED BY <3>6, <3>8, <5>1, <1>2
      <4> QED BY <4>1, <2>1, <1>5
    <3> QED BY <3>7, <3>8, <2>1
  <2> QED BY <2>2, <2>3
<1> QED BY <1>5, <1>6

\* The rest of the plan after a commit.
LEMMA RestFine ==
    ASSUME NEW q \in Requests, q.plan # <<>>, NEW T, NEW U, PlanFine(q), Refs(q, T),
           \A k \in Users : T[k].id # 0 => U[k].id # 0,
           \A V \in ToSet(Head(q.plan).wants) :
              V.key \in Users /\ V.mode \in {"excl", "seed"} => U[V.key].id # 0,
           NEW r, r.plan = Tail(q.plan), r.op = q.op, r.who = q.who, r.id = q.id,
           r.asked = q.asked
    PROVE  PlanFine(r) /\ Refs(r, U)
<1>1. q.plan \in Seq(Txs)
  BY DEF Requests
<1>2. /\ Len(q.plan) \in Nat /\ 1 \in DOMAIN q.plan /\ Head(q.plan) = q.plan[1]
      /\ DOMAIN q.plan = 1..Len(q.plan) /\ DOMAIN r.plan = 1..(Len(q.plan) - 1)
      /\ \A i \in DOMAIN r.plan : i + 1 \in DOMAIN q.plan /\ r.plan[i] = q.plan[i + 1]
  BY <1>1, Split, LenProperties
<1>3. \A t : TxFine(q, t) => TxFine(r, t)
  BY DEF TxFine, Fine
<1>4. PlanFine(r)
  <2>1. ASSUME NEW i \in DOMAIN r.plan PROVE TxFine(r, r.plan[i])
    BY <1>2, <1>3 DEF PlanFine
  <2>2. ASSUME NEW i \in DOMAIN r.plan, NEW j \in DOMAIN r.plan, i < j
        PROVE  /\ r.plan[j].bad => r.plan[i].names = {}
               /\ \A W \in ToSet(r.plan[i].wants), V \in ToSet(r.plan[j].wants) :
                     \/ W.key # V.key /\ r.plan[i].names = {}
                     \/ W = V /\ W.mode = "update"
    <3>1. PICK m \in DOMAIN q.plan : m = i + 1 /\ r.plan[i] = q.plan[m]
      BY <1>2
    <3>2. PICK n \in DOMAIN q.plan : n = j + 1 /\ r.plan[j] = q.plan[n]
      BY <1>2
    <3>3. m < n
      BY <2>2, <3>1, <3>2, <1>2
    <3>4. /\ q.plan[n].bad => q.plan[m].names = {}
          /\ \A W \in ToSet(q.plan[m].wants), V \in ToSet(q.plan[n].wants) :
                \/ W.key # V.key /\ q.plan[m].names = {}
                \/ W = V /\ W.mode = "update"
      BY <3>3 DEF PlanFine
    <3> QED BY <3>1, <3>2, <3>4
  <2> QED BY <2>1, <2>2 DEF PlanFine
<1>5. Refs(q, U)
  BY RefsStay
<1>6. ASSUME NEW i \in DOMAIN r.plan, NEW W \in ToSet(r.plan[i].wants),
             W.mode = "upsert", W.key \notin Users, U[User(W.key[2])].id = 0
      PROVE  \E j \in 1..i : \E V \in ToSet(r.plan[j].wants) :
                V.key = User(W.key[2]) /\ V.mode \in {"excl", "seed"}
  <2>1. i + 1 \in DOMAIN q.plan /\ r.plan[i] = q.plan[i + 1]
    BY <1>2
  <2>2. PICK j \in 1..(i + 1) : \E V \in ToSet(q.plan[j].wants) :
           V.key = User(W.key[2]) /\ V.mode \in {"excl", "seed"}
    BY <1>5, <1>6, <2>1 DEF Refs
  <2>3. PICK V \in ToSet(q.plan[j].wants) :
           V.key = User(W.key[2]) /\ V.mode \in {"excl", "seed"}
    BY <2>2
  <2>4. TxFine(q, q.plan[i + 1])
    BY <2>1 DEF PlanFine
  <2>5. W.key \in Keys
    BY <1>6, <2>1, <2>4 DEF TxFine, Fine
  <2>6. V.key \in Users
    <3>1. \A x \in Keys : x[2] \in People
      BY DEF Keys
    <3> QED BY <2>3, <2>5, <3>1, KeyKinds
  <2>7. j # 1
    BY <1>2, <1>6, <2>3, <2>6
  <2>8. PICK l \in 1..i : j = l + 1
    <3>1. i \in Nat /\ j \in Nat /\ j - 1 \in 1..i /\ j = (j - 1) + 1
      BY <1>2, <2>2, <2>7
    <3> QED BY <3>1
  <2>9. l \in DOMAIN r.plan /\ r.plan[l] = q.plan[j]
    <3>1. l \in 1..(Len(q.plan) - 1)
      BY <1>2, <2>8
    <3> QED BY <3>1, <1>2, <2>8
  <2> QED BY <2>3, <2>9
<1>7. Refs(r, U)
  BY <1>6 DEF Refs
<1> QED BY <1>4, <1>7

\* What a commit writes to the log.
LEMMA Logged ==
    ASSUME IInv, NEW p \in Handlers, \A k \in Written(p) : Change(p, k) \in Changes
    PROVE  /\ SetToSeq({Change(p, k) : k \in Written(p)}) \in Seq(Changes)
           /\ ToSet(SetToSeq({Change(p, k) : k \in Written(p)})) = {Change(p, k) : k \in Written(p)}
           /\ IsFiniteSet({Change(p, k) : k \in Written(p)})
<1>1. PICK H : H = req[p].held /\ IsFiniteSet(H)
  BY Begun
<1>2. PICK X : X = {x \in H : x.mode # "share" /\ x.key # Session}
  OBVIOUS
<1>3. IsFiniteSet(X)
  BY <1>1, <1>2, FS_Subset
<1>4. PICK C : C = {Change(p, k) : k \in Written(p)}
  OBVIOUS
<1>5. Written(p) = {x.key : x \in X}
  BY <1>1, <1>2 DEF Written
<1>6. PICK f : f = [x \in X |-> Change(p, x.key)]
  OBVIOUS
<1>7. f \in Surjection(X, C)
  BY <1>4, <1>5, <1>6 DEF Surjection
<1>8. IsFiniteSet(C) /\ C \subseteq Changes
  BY <1>3, <1>4, <1>7, FS_Surjection
<1>9. SetToSeq(C) \in Seq(C) /\ ToSet(SetToSeq(C)) = C
  BY <1>8, Listed
<1>10. SetToSeq(C) \in Seq(Changes)
  <2>1. PICK s : s = SetToSeq(C)
    OBVIOUS
  <2>2. s \in Seq(C)
    BY <1>9, <2>1
  <2>3. Len(s) \in Nat /\ DOMAIN s = 1..Len(s) /\ \A i \in 1..Len(s) : s[i] \in C
    BY <2>2, LenProperties, ElementOfSeq
  <2>4. s \in [1..Len(s) -> Changes]
    BY <2>2, <2>3, <1>8
  <2> QED BY <2>1, <2>3, <2>4
<1> QED BY <1>4, <1>8, <1>9, <1>10

\* A transaction of a request commits.
LEMMA CommitStep == ASSUME IInv, NEW p \in Handlers, Commit(p) PROVE IInv'
<1> DEFINE q == req[p]
<1>1. /\ Taking(p) /\ q.todo = <<>> /\ q.op # "cascade" /\ UNCHANGED requests
      /\ table' = [k \in Keys |-> IF k \in Written(p) THEN NewRow(p, k) ELSE table[k]]
      /\ log' = log \o SetToSeq({Change(p, k) : k \in Written(p)})
      /\ tokens' = IF q.op = "token" THEN tokens \cup {<<q.who, q.id>>} ELSE tokens
  BY DEF Commit
<1>2. /\ q \in Requests /\ q.n \in Ids /\ q.plan # <<>> /\ q.plan \in Seq(Txs)
      /\ Carried(q, table) /\ Sourced(q) /\ Standing(q, table)
      /\ q.asked \subseteq Fields /\ PlanFine(q) /\ Refs(q, table)
      /\ q.who \in Wide /\ q.id \in Numbers
  BY <1>1, Begun DEF Taking, At
<1>3. /\ \A k \in Written(p) : k \in Keys /\ \E b \in req[p].held : b.key = k
      /\ \A k \in Keys : /\ table[k].id # 0 => table'[k].id = table[k].id
                         /\ k \in Written(p) => table'[k].id # 0
                         /\ k \notin Written(p) => table'[k] = table[k]
      /\ \A h \in Handlers \ {p} : \A b \in req[h].held :
            b.key \in Keys => table'[b.key].id = table[b.key].id
      /\ table' \in [Keys -> Rows]
      /\ \A k \in Written(p) : Change(p, k) \in Changes
  BY <1>1, Wrote
<1>4. /\ \A V \in ToSet(Head(req[p].plan).wants) :
            V.key \in Users /\ V.mode \in {"excl", "seed"} => table'[V.key].id # 0
      /\ \A k \in Keys : k \notin Users /\ table'[k].id # 0 => table'[User(k[2])].id # 0
  BY <1>1, HasUser
<1>5. \A k \in Users : table[k].id # 0 => table'[k].id # 0
  BY <1>3, KeyKinds
<1>6. Schema(table, tokens)'
  <2>1. \A w \in People :
           table'[Row(w)].id # 0 \/ table'[Name(w)].id # 0 => table'[User(w)].id # 0
    <3>1. ASSUME NEW w \in People, NEW k \in {Row(w), Name(w)}, table'[k].id # 0
          PROVE  table'[User(w)].id # 0
      <4>1. k \in Keys /\ k \notin Users /\ k[2] = w
        BY KeyKinds
      <4> QED BY <3>1, <4>1, <1>4
    <3> QED BY <3>1
  <2>2. ASSUME NEW t \in tokens PROVE t \in Parts \X Ids /\ table'[t[1]].id = t[2]
    <3>1. t \in Parts \X Ids /\ table[t[1]].id = t[2]
      BY DEF IInv, Typed, Schema
    <3>2. t[1] \in Keys /\ t[2] # 0
      BY <3>1, KeyKinds, NumberKinds
    <3> QED BY <3>1, <3>2, <1>3
  <2>3. ASSUME q.op = "token"
        PROVE  /\ q.who \in Parts /\ q.id \in Ids
               /\ table'[q.who].id = q.id
    <3>1. TxFine(q, Head(q.plan))
      BY <1>2, Split DEF PlanFine
    <3>2. PICK W : W = [key |-> q.who, mode |-> "share", id |-> q.id]
      OBVIOUS
    <3>3. q.who \in Parts /\ q.id # 0 /\ W \in ToSet(Head(q.plan).wants)
      BY <2>3, <3>1, <3>2 DEF TxFine
    <3>4. ToSet(q.todo) = {}
      BY <1>1, Short
    <3>5. Dealt(q, table, W)
      BY <1>2, <3>3, <3>4 DEF Carried
    <3>6. PICK b \in q.held : b.key = q.who
      BY <3>2, <3>5 DEF Dealt
    <3>7. table[q.who].id = q.id
      BY <2>3, <3>6, <1>2 DEF Standing
    <3>8. q.who \in Keys /\ q.id \in Ids
      BY <3>3, <1>2, KeyKinds, NumberKinds
    <3> QED BY <3>3, <3>7, <3>8, <1>3
  <2>4. \A t \in tokens' : t \in Parts \X Ids /\ table'[t[1]].id = t[2]
    BY <2>2, <2>3, <1>1
  <2> QED BY <1>3, <2>1, <2>4 DEF Schema
<1>7. log' \in Seq(Changes)
  <2>1. PICK s \in Seq(Changes) : s = SetToSeq({Change(p, k) : k \in Written(p)})
    BY <1>3, Logged
  <2>2. log \in Seq(Changes)
    BY DEF IInv, Typed
  <2> QED BY <1>1, <2>1, <2>2, Chained
<1>8. PICK r : r = [q EXCEPT !.plan = Tail(@), !.held = {}]
  OBVIOUS
<1>9. /\ r \in Requests /\ r.plan = Tail(q.plan) /\ r.held = {} /\ r.op = q.op
      /\ r.who = q.who /\ r.id = q.id /\ r.asked = q.asked /\ r.n = q.n
  <2>1. Tail(q.plan) \in Seq(Txs)
    BY <1>2, Split
  <2> QED BY <2>1, <1>2, <1>8 DEF Requests
<1>10. PICK U : U = table'
  OBVIOUS
<1>11. PlanFine(r) /\ Refs(r, U)
  <2>1. \A k \in Users : table[k].id # 0 => U[k].id # 0
    BY <1>5, <1>10
  <2>2. \A V \in ToSet(Head(q.plan).wants) :
           V.key \in Users /\ V.mode \in {"excl", "seed"} => U[V.key].id # 0
    BY <1>4, <1>10
  <2> QED BY <2>1, <2>2, <1>2, <1>9, RestFine
<1>12. Good(Load(r), U) /\ Load(r).held = {} /\ Good(Idle, U) /\ Idle.held = {}
  BY <1>2, <1>9, <1>11, Loads, IdleGood, IdleType
<1>13. PICK y : /\ req' = [req EXCEPT ![p] = y]
                /\ Good(y, U) /\ y.held = {}
                /\ \/ UNCHANGED <<audit, answers>>
                   \/ audit' = audit \cup {q.n} /\ Answer(r, TRUE)
  <2>1. CASE q.op = "wipe"
    <3>1. Finish(p) /\ UNCHANGED <<audit, answers>>
      BY <2>1 DEF Commit
    <3> QED BY <3>1, <1>12 DEF Finish
  <2>2. CASE q.op = "admin"
    <3>1. Finish(p) /\ audit' = audit \cup {r.n} /\ Answer(r, TRUE)
      BY <2>2, <1>8 DEF Commit
    <3> QED BY <3>1, <1>9, <1>12 DEF Finish
  <2>3. CASE q.op \notin {"wipe", "admin"}
    <3>1. req' = [req EXCEPT ![p] = Load(r)] /\ UNCHANGED <<audit, answers>>
      BY <2>3, <1>8 DEF Commit
    <3> QED BY <3>1, <1>12
  <2> QED BY <2>1, <2>2, <2>3
<1>14. /\ audit' \subseteq Ids
       /\ answers' \subseteq [by : Ids, ok : BOOLEAN, asked : SUBSET Fields]
  <2>1. CASE UNCHANGED <<audit, answers>>
    BY <2>1 DEF IInv, Typed
  <2>2. CASE audit' = audit \cup {q.n} /\ Answer(r, TRUE)
    BY <2>2, <1>2, <1>9, Answered DEF IInv, Typed
  <2> QED BY <2>1, <2>2, <1>13
<1>15. Typed'
  BY <1>1, <1>6, <1>7, <1>14 DEF IInv, Typed
<1>16. \A h \in Handlers \ {p} : \A b \in req[h].held :
          b.key \in Keys => table'[b.key].id = table[b.key].id
  BY <1>3
<1> QED BY <1>5, <1>10, <1>13, <1>15, <1>16, Writes

\* The cascade commits: the participants it has locked go, with their tokens.
LEMMA CommitCascadeStep == ASSUME IInv, NEW p \in Handlers, CommitCascade(p) PROVE IInv'
<1> DEFINE q == req[p]
<1>1. /\ Taking(p) /\ q.op = "cascade" /\ UNCHANGED <<requests, log>> /\ Finish(p)
      /\ table' = [k \in Keys |-> IF k \in Written(p) THEN Absent ELSE table[k]]
      /\ tokens' = {t \in tokens : t[1] \notin Written(p)}
      /\ audit' = audit \cup {q.n} /\ Answer(q, TRUE)
  BY DEF CommitCascade
<1>2. q.n \in Ids /\ Sourced(q) /\ q.asked \subseteq Fields
  BY <1>1, Begun DEF Taking, At
<1>3. ASSUME NEW k \in Written(p)
      PROVE  k \in Parts /\ \E b \in q.held : b.key = k /\ b.mode = "excl"
  <2>1. PICK b \in q.held : b.key = k /\ k # Session
    BY DEF Written
  <2> QED BY <2>1, <1>1, <1>2 DEF Sourced
<1>4. table \in [Keys -> Rows]
  BY DEF IInv, Typed, Schema
<1>5. ASSUME NEW k \in Keys
      PROVE  /\ table'[k] \in Rows
             /\ k \notin Written(p) => table'[k] = table[k]
             /\ table'[k].id # 0 => table'[k] = table[k]
             /\ k \notin Parts => table'[k] = table[k]
  BY <1>1, <1>3, <1>4, NumberKinds
<1>6. Schema(table, tokens)'
  <2>1. ASSUME NEW w \in People, NEW k \in {Row(w), Name(w)}, table'[k].id # 0
        PROVE  table'[User(w)].id # 0
    <3>0. PICK v \in Users : v = User(w)
      BY KeyKinds
    <3>a. v \in Keys /\ v \notin Parts
      BY KeyKinds
    <3>b. Row(w) \in Keys /\ Name(w) \in Keys
      BY KeyKinds
    <3>1. k \in Keys /\ User(w) \in Keys /\ User(w) \notin Parts
      BY <3>0, <3>a, <3>b
    <3>2. table[k].id # 0
      BY <2>1, <3>1, <1>5
    <3>3. table[User(w)].id # 0
      BY <3>2 DEF IInv, Typed, Schema
    <3> QED BY <3>1, <3>3, <1>5
  <2>2. ASSUME NEW t \in tokens' PROVE t \in Parts \X Ids /\ table'[t[1]].id = t[2]
    <3>1. t \in tokens /\ t[1] \notin Written(p)
      BY <1>1
    <3>2. t \in Parts \X Ids /\ table[t[1]].id = t[2]
      BY <3>1 DEF IInv, Typed, Schema
    <3>3. t[1] \in Keys
      BY <3>2, KeyKinds
    <3> QED BY <3>1, <3>2, <3>3, <1>5
  <2>3. table' \in [Keys -> Rows]
    BY <1>1, <1>5
  <2>4. \A w \in People :
           table'[Row(w)].id # 0 \/ table'[Name(w)].id # 0 => table'[User(w)].id # 0
    BY <2>1
  <2> QED BY <2>2, <2>3, <2>4 DEF Schema
<1>7. Typed'
  <2>1. answers' \subseteq [by : Ids, ok : BOOLEAN, asked : SUBSET Fields]
    BY <1>1, <1>2, Answered
  <2>2. audit' \subseteq Ids
    BY <1>1, <1>2 DEF IInv, Typed
  <2> QED BY <1>1, <1>6, <2>1, <2>2 DEF IInv, Typed
<1>8. ASSUME NEW h \in Handlers \ {p}, NEW b \in req[h].held, b.key \in Keys
      PROVE  table'[b.key].id = table[b.key].id
  <2>1. b.key \notin Written(p)
    <3>1. ASSUME NEW a \in q.held, a.mode = "excl" PROVE a.key # b.key
      BY <3>1, <1>8 DEF IInv, Exclusive, Conflict
    <3> QED BY <3>1, <1>3
  <2> QED BY <2>1, <1>5, <1>8
<1>9. \A k \in Users : table[k].id # 0 => table'[k].id # 0
  BY <1>5, KeyKinds
<1>10. PICK U : U = table'
  OBVIOUS
<1>11. Good(Idle, U) /\ Idle.held = {}
  BY IdleGood, IdleType
<1>12. req' = [req EXCEPT ![p] = Idle]
  BY <1>1 DEF Finish
<1> QED BY <1>7, <1>8, <1>9, <1>10, <1>11, <1>12, Writes

-----------------------------------------------------------------------------
(* The theorem. *)

LEMMA Inductive == ASSUME IInv, [Next]_vars PROVE IInv'
<1>1. ASSUME NEW p \in Handlers, Step(p) PROVE IInv'
  <2>1. CASE Lock(p)
    BY <2>1, LockStep
  <2>2. CASE \/ NotFound(p) \/ Refused(p) \/ DeadlockVictim(p) \/ BadInput(p)
             \/ TokenUnknown(p) \/ Audit(p)
    BY <2>2, EndSteps
  <2>3. CASE TokenFound(p)
    BY <2>3, TokenFoundStep
  <2>4. CASE ReadContext(p)
    BY <2>4, ReadContextStep
  <2>5. CASE Commit(p)
    BY <2>5, CommitStep
  <2>6. CASE CommitCascade(p)
    BY <2>6, CommitCascadeStep
  <2> QED BY <1>1, <2>1, <2>2, <2>3, <2>4, <2>5, <2>6 DEF Step
<1>2. ASSUME NEW p \in Handlers,
             \/ BeginUser(p) \/ BeginAdmin(p) \/ BeginDisplay(p)
             \/ BeginAdd(p) \/ BeginBatch(p) \/ BeginPatch(p) \/ BeginPublic(p)
             \/ BeginToken(p) \/ BeginWipe(p) \/ BeginCascade(p)
      PROVE  IInv'
  BY <1>2, BeginUserStep, BeginAdminStep, BeginDisplayStep, BeginAddStep, BeginBatchStep,
     BeginPatchStep, BeginPublicStep, BeginTokenStep, BeginWipeStep, BeginCascadeStep
<1>3. ASSUME NEW p \in Handlers, Die(p) PROVE IInv'
  BY <1>3, EndSteps
<1>4. ASSUME NEW t \in tokens, Expire(t) PROVE IInv'
  BY <1>4, ExpireStep
<1>5. CASE UNCHANGED vars
  <2>1. Typed'
    BY <1>5 DEF IInv, Typed, Schema, vars
  <2>2. Locking' /\ Exclusive'
    BY <1>5 DEF IInv, Locking, Exclusive, vars
  <2> QED BY <2>1, <2>2 DEF IInv
<1> QED BY <1>1, <1>2, <1>3, <1>4, <1>5 DEF Next, Quiescent

\* The schema keeps its references, whatever the requests that run at once
\* and wherever they fail: a participant or a display name always has its
\* user, and a live consent token always has the participant it was made for,
\* not a later one of the same name (the locks of db/participants.rs,
\* consent_tokens.rs and display_names.rs); and the state has its type.
THEOREM TypeCorrect == Spec => []TypeOK
<1>1. IInv => TypeOK
  BY DEF IInv, Typed, Schema, TypeOK, Present
<1> QED BY <1>1, Initially, Inductive, PTL DEF Spec

\* No two transactions hold locks that exclude each other.
THEOREM LocksExclude == Spec => []Exclusive
<1>1. IInv => Exclusive
  BY DEF IInv
<1> QED BY <1>1, Initially, Inductive, PTL DEF Spec

-----------------------------------------------------------------------------
(* What the steps do to the requests. *)

LockOf(k, m) == [key |-> k, mode |-> m]

\* The locks that a transaction of a request takes, in order.
Shape(q, t) ==
    CASE q.op = "batch" -> TRUE
      [] q.op = "add" -> \E w \in People : t.wants = <<Own(w), Want(Row(w), "upsert")>>
      [] q.op = "token" ->
            \E w \in People :
               /\ q.who = Row(w)
               /\ t.wants = <<Want(Session, "share"),
                              [key |-> Row(w), mode |-> "share", id |-> q.id],
                              Want(User(w), "share")>>
      [] q.op = "cascade" -> t.wants = <<Want(Session, "excl")>>
      [] OTHER ->
            \E W \in Wants :
               /\ t.wants = <<W>>
               /\ W.mode = "upsert" =>
                     W.key \in Users \/ (q.op = "display" /\ \E w \in People : W.key = Name(w))

\* A request that has just come in: its plan names all that it asks for.
Fresh(x) ==
    /\ x.held = {} /\ x.pc \in {"token", "lock", "audit"}
    /\ x.pc = "lock" => x.plan # <<>> /\ x.todo = Head(x.plan).wants
    /\ x.pc = "audit" => x.plan = <<>>
    /\ \A f \in x.asked : \E t \in ToSet(x.plan) : f \in t.names
    /\ x.op = "cascade" => x.asked = {} /\ x.pc = "lock"
    /\ x.op = "admin" => \A j \in DOMAIN x.plan : j = 1
    /\ \A t \in ToSet(x.plan) : Shape(x, t)

\* A request of one transaction.
LEMMA FreshOne ==
    ASSUME NEW op \in Ops, NEW t \in Txs, NEW asked, NEW q, q.op = op, q.plan = <<t>>,
           q.asked = asked, q.held = {}, q \in Requests,
           asked \subseteq t.names, op = "cascade" => asked = {}, Shape(q, t)
    PROVE  Fresh(Load(q))
<1>1. PICK s : s = <<t>>
  OBVIOUS
<1>2. s # <<>> /\ ToSet(s) = {t} /\ DOMAIN s = {1} /\ Head(s) = t
  BY <1>1, Short
<1>w. t.wants \in Seq(Wants)
  BY DEF Txs
<1>3. PICK x : x = Load(q)
  OBVIOUS
<1>4. /\ x.pc = "lock" /\ x.todo = t.wants /\ x.plan = s /\ x.op = op /\ x.who = q.who
      /\ x.id = q.id /\ x.asked = asked /\ x.held = {}
  BY <1>1, <1>2, <1>3 DEF Load, Requests
<1>5. Shape(x, t)
  BY <1>4 DEF Shape
<1>6. \A f \in x.asked : \E u \in ToSet(x.plan) : f \in u.names
  BY <1>2, <1>4
<1>7. Fresh(x)
  BY <1>2, <1>4, <1>5, <1>6 DEF Fresh
<1> QED BY <1>3, <1>7

\* users::upsert, set_admin, mark_wiped, add and the cascade.
LEMMA FreshSimple ==
    ASSUME NEW p \in Handlers,
           BeginUser(p) \/ BeginAdmin(p) \/ BeginWipe(p) \/ BeginAdd(p) \/ BeginCascade(p)
    PROVE  \E x : Begin(p, x) /\ Fresh(x)
<1>1. ASSUME NEW op \in Ops, NEW s \in Seq(Wants), NEW names, NEW asked,
             names \subseteq Fields, asked \subseteq names, op = "cascade" => asked = {},
             Begin(p, Load(Request(op, <<Tx(s, names)>>, asked))),
             \A q, t : q.op = op /\ t.wants = s => Shape(q, t)
      PROVE  \E x : Begin(p, x) /\ Fresh(x)
  <2>0. names \subseteq Fields
    BY <1>1
  <2>1. PICK t \in Txs : t = Tx(s, names) /\ t.wants = s /\ t.names = names
    BY <2>0, MadeTx
  <2>2. PICK plan : plan = <<t>>
    OBVIOUS
  <2>3. plan \in Seq(Txs)
    BY <2>2, Short
  <2>4. PICK q \in Requests : /\ q = Request(op, plan, asked) /\ q.op = op /\ q.plan = plan
                              /\ q.asked = asked /\ q.held = {}
    BY <1>1, <2>3, MadeRequest
  <2>5. asked \subseteq t.names /\ Shape(q, t) /\ asked \subseteq Fields
    BY <1>1, <2>1, <2>4
  <2>6. Fresh(Load(q))
    BY <1>1, <2>2, <2>4, <2>5, FreshOne
  <2>7. Begin(p, Load(q))
    BY <1>1, <2>1, <2>2, <2>4
  <2> QED BY <2>6, <2>7
<1>2. ASSUME NEW W \in Wants, NEW op \in Ops \ {"batch", "add", "token", "cascade"},
             W.mode = "upsert" => W.key \in Users
      PROVE  \A q, t : q.op = op /\ t.wants = <<W>> => Shape(q, t)
  BY <1>2 DEF Shape
<1>3. CASE BeginUser(p)
  <2>1. PICK w \in People : Begin(p, Load(Request("user", <<Tx(<<Own(w)>>, {})>>, {})))
    BY <1>3 DEF BeginUser
  <2>k. User(w) \in Wide
    BY KeyKinds
  <2>2. PICK W \in Wants : W = Own(w) /\ W.mode = "excl"
    BY <2>k, MadeWant DEF Modes, Own
  <2>3. PICK s \in Seq(Wants) : s = <<W>>
    BY Short
  <2>4. Begin(p, Load(Request("user", <<Tx(s, {})>>, {})))
    BY <2>1, <2>2, <2>3
  <2>5. \A q, t : q.op = "user" /\ t.wants = s => Shape(q, t)
    BY <2>2, <2>3, <1>2 DEF Ops
  <2> QED BY <2>4, <2>5, <1>1 DEF Ops
<1>4. CASE BeginAdmin(p)
  <2>1. PICK w \in People :
           Begin(p, Load(Request("admin", <<Tx(<<Want(User(w), "upsert")>>, {"is_admin"})>>,
                                 {"is_admin"})))
    BY <1>4 DEF BeginAdmin
  <2>k. User(w) \in Wide /\ User(w) \in Users
    BY KeyKinds
  <2>2. PICK W \in Wants : W = Want(User(w), "upsert") /\ W.key \in Users
    BY <2>k, MadeWant DEF Modes
  <2>3. PICK s \in Seq(Wants) : s = <<W>>
    BY Short
  <2>f. PICK f : f = {"is_admin"}
    OBVIOUS
  <2>4. Begin(p, Load(Request("admin", <<Tx(s, f)>>, f)))
    BY <2>1, <2>2, <2>3, <2>f
  <2>5. \A q, t : q.op = "admin" /\ t.wants = s => Shape(q, t)
    BY <2>2, <2>3, <1>2 DEF Ops
  <2>6. f \subseteq Fields
    BY <2>f, FieldKinds
  <2> QED BY <2>4, <2>5, <2>6, <1>1 DEF Ops
<1>5. CASE BeginWipe(p)
  <2>1. PICK w \in People :
           Begin(p, Load(Request("wipe", <<Tx(<<Want(Row(w), "touch")>>, {"data_wiped_at"})>>, {})))
    BY <1>5 DEF BeginWipe
  <2>k. Row(w) \in Wide
    BY KeyKinds
  <2>2. PICK W \in Wants : W = Want(Row(w), "touch") /\ W.mode = "touch"
    BY <2>k, MadeWant DEF Modes
  <2>3. PICK s \in Seq(Wants) : s = <<W>>
    BY Short
  <2>f. PICK f : f = {"data_wiped_at"}
    OBVIOUS
  <2>4. Begin(p, Load(Request("wipe", <<Tx(s, f)>>, {})))
    BY <2>1, <2>2, <2>3, <2>f
  <2>5. \A q, t : q.op = "wipe" /\ t.wants = s => Shape(q, t)
    BY <2>2, <2>3, <1>2 DEF Ops
  <2>6. f \subseteq Fields
    BY <2>f, FieldKinds
  <2> QED BY <2>4, <2>5, <2>6, <1>1 DEF Ops
<1>6. CASE BeginAdd(p)
  <2>1. PICK w \in People :
           Begin(p, Load(Request("add", <<Tx(<<Own(w), Want(Row(w), "upsert")>>,
                                             {"mid_session_join"})>>, {"mid_session_join"})))
    BY <1>6 DEF BeginAdd
  <2>2. Own(w) \in Wants /\ Want(Row(w), "upsert") \in Wants
    BY KeyKinds, MadeWant DEF Modes, Own
  <2>3. PICK s : s = <<Own(w), Want(Row(w), "upsert")>>
    OBVIOUS
  <2>s. s \in Seq(Wants)
    BY <2>2, <2>3
  <2>f. PICK f : f = {"mid_session_join"}
    OBVIOUS
  <2>4. Begin(p, Load(Request("add", <<Tx(s, f)>>, f)))
    BY <2>1, <2>3, <2>f
  <2>5. \A q, t : q.op = "add" /\ t.wants = s => Shape(q, t)
    BY <2>3 DEF Shape
  <2>6. f \subseteq Fields
    BY <2>f, FieldKinds
  <2> QED BY <2>s, <2>4, <2>5, <2>6, <1>1 DEF Ops
<1>7. CASE BeginCascade(p)
  <2>1. Begin(p, Load(Request("cascade", <<Tx(<<Want(Session, "excl")>>, {})>>, {})))
    BY <1>7 DEF BeginCascade, Cascade
  <2>2. PICK W \in Wants : W = Want(Session, "excl")
    BY KeyKinds, MadeWant DEF Modes
  <2>3. PICK s \in Seq(Wants) : s = <<W>>
    BY Short
  <2>4. Begin(p, Load(Request("cascade", <<Tx(s, {})>>, {})))
    BY <2>1, <2>2, <2>3
  <2>5. \A q, t : q.op = "cascade" /\ t.wants = s => Shape(q, t)
    BY <2>2, <2>3 DEF Shape
  <2> QED BY <2>4, <2>5, <1>1 DEF Ops
<1> QED BY <1>3, <1>4, <1>5, <1>6, <1>7

\* A request of any plan.
LEMMA FreshLoad ==
    ASSUME NEW q \in Requests, q.held = {}, q.op \notin {"cascade", "admin"},
           \A f \in q.asked : \E t \in ToSet(q.plan) : f \in t.names,
           \A t \in ToSet(q.plan) : Shape(q, t)
    PROVE  Fresh(Load(q)) /\ Fresh([q EXCEPT !.pc = "token"])
<1>1. \A r : r.op = q.op /\ r.who = q.who /\ r.id = q.id => \A t : Shape(q, t) => Shape(r, t)
  BY DEF Shape
<1>2. PICK x : x = Load(q)
  OBVIOUS
<1>3. /\ x.plan = q.plan /\ x.op = q.op /\ x.who = q.who /\ x.id = q.id
      /\ x.asked = q.asked /\ x.held = {}
      /\ x.pc = IF q.plan = <<>> THEN "audit" ELSE "lock"
      /\ q.plan # <<>> => x.todo = Head(q.plan).wants
  BY <1>2 DEF Load, Requests
<1>4. Fresh(x)
  BY <1>1, <1>3 DEF Fresh
<1>5. PICK y : y = [q EXCEPT !.pc = "token"]
  OBVIOUS
<1>6. /\ y.plan = q.plan /\ y.op = q.op /\ y.who = q.who /\ y.id = q.id
      /\ y.asked = q.asked /\ y.held = {} /\ y.pc = "token"
  BY <1>5 DEF Requests
<1>7. Fresh(y)
  BY <1>1, <1>6 DEF Fresh
<1> QED BY <1>2, <1>4, <1>5, <1>7

\* post_display.
LEMMA FreshDisplay ==
    ASSUME NEW p \in Handlers, BeginDisplay(p)
    PROVE  \E x : Begin(p, x) /\ Fresh(x)
<1>1. PICK w \in People, bad \in BOOLEAN :
         Begin(p, Load(Request("display",
            <<Tx(<<Own(w)>>, {}),
              [Tx(<<Want(Name(w), "upsert")>>, {"last_seen_at"}) EXCEPT !.bad = bad]>>,
            {"last_seen_at"})))
  BY DEF BeginDisplay
<1>k. User(w) \in Wide /\ Name(w) \in Wide
  BY KeyKinds
<1>2. PICK V \in Wants : V = Own(w) /\ V.mode = "excl"
  BY <1>k, MadeWant DEF Modes, Own
<1>3. PICK W \in Wants : W = Want(Name(w), "upsert") /\ W.key = Name(w)
  BY <1>k, MadeWant DEF Modes
<1>4. PICK r \in Seq(Wants) : r = <<V>>
  BY Short
<1>5. PICK s \in Seq(Wants) : s = <<W>>
  BY Short
<1>f. PICK f : f = {"last_seen_at"}
  OBVIOUS
<1>g. f \subseteq Fields
  BY <1>f, FieldKinds
<1>6. PICK t \in Txs : t = Tx(r, {}) /\ t.wants = r
  BY MadeTx
<1>7. PICK a \in Txs : a = Tx(s, f) /\ a.wants = s /\ a.names = f
  BY <1>g, MadeTx
<1>8. PICK u : u = [a EXCEPT !.bad = bad]
  OBVIOUS
<1>9. u \in Txs /\ u.wants = s /\ u.names = f
  <2>1. a \in [wants : Seq(Wants), names : SUBSET Fields, bad : BOOLEAN]
    BY <1>7 DEF Txs
  <2>2. u \in [wants : Seq(Wants), names : SUBSET Fields, bad : BOOLEAN]
    BY <1>8, <2>1
  <2>3. u.wants = a.wants /\ u.names = a.names
    BY <1>8, <2>1
  <2> QED BY <1>7, <2>2, <2>3 DEF Txs
<1>10. PICK plan : plan = <<t, u>>
  OBVIOUS
<1>11. plan \in Seq(Txs) /\ ToSet(plan) = {t, u}
  <2>1. plan \in Seq(Txs) /\ DOMAIN plan = {1, 2} /\ plan[1] = t /\ plan[2] = u
    BY <1>9, <1>10
  <2> QED BY <2>1 DEF ToSet
<1>12. PICK q \in Requests : /\ q = Request("display", plan, f) /\ q.op = "display"
                             /\ q.plan = plan /\ q.asked = f /\ q.held = {}
  BY <1>g, <1>11, MadeRequest DEF Ops
<1>13. Shape(q, t) /\ Shape(q, u)
  BY <1>2, <1>3, <1>4, <1>5, <1>6, <1>9, <1>12 DEF Shape
<1>14. Fresh(Load(q))
  <2>1. \A v \in ToSet(q.plan) : Shape(q, v)
    BY <1>11, <1>12, <1>13
  <2>2. \A e \in q.asked : \E v \in ToSet(q.plan) : e \in v.names
    BY <1>9, <1>11, <1>12
  <2>3. q.op \notin {"cascade", "admin"} /\ q.held = {}
    BY <1>12
  <2> QED BY <2>1, <2>2, <2>3, FreshLoad
<1>15. Begin(p, Load(q))
  BY <1>1, <1>2, <1>3, <1>4, <1>5, <1>f, <1>6, <1>7, <1>8, <1>10, <1>12
<1> QED BY <1>14, <1>15

\* participants::add_many.
LEMMA FreshBatch ==
    ASSUME NEW p \in Handlers, BeginBatch(p)
    PROVE  \E x : Begin(p, x) /\ Fresh(x)
<1>1. PICK n \in 1..MaxBatch : \E b \in [1..n -> People] :
         Begin(p, Load(Request("batch", BatchPlan(b), {"mid_session_join"})))
  BY DEF BeginBatch
<1>2. PICK b \in [1..n -> People] :
         Begin(p, Load(Request("batch", BatchPlan(b), {"mid_session_join"})))
  BY <1>1
<1>a. PICK a : a = [i \in DOMAIN b |-> Want(User(b[i]), "seed")]
                   \o [i \in DOMAIN b |-> Want(Row(b[i]), "upsert")]
  OBVIOUS
<1>t. PICK t : t = Tx(a, {"mid_session_join"})
  OBVIOUS
<1>n. t.names = {"mid_session_join"}
  BY <1>t DEF Tx
<1>3. BatchPlan(b) = <<t>> /\ t.names = {"mid_session_join"}
  BY <1>a, <1>t, <1>n DEF BatchPlan
<1>4. PICK plan : plan = <<t>> /\ plan = BatchPlan(b)
  BY <1>3
<1>5. plan # <<>> /\ ToSet(plan) = {t}
  <2>1. DOMAIN plan = {1} /\ plan[1] = t
    BY <1>4
  <2>2. ToSet(plan) = {t}
    BY <2>1 DEF ToSet
  <2> QED BY <1>4, <2>2
<1>6. PICK x : x = Load(Request("batch", plan, {"mid_session_join"}))
  OBVIOUS
<1>7. /\ x.op = "batch" /\ x.plan = plan /\ x.asked = {"mid_session_join"} /\ x.held = {}
      /\ x.pc = "lock" /\ x.todo = Head(plan).wants
  BY <1>5, <1>6 DEF Load, Request, Idle
<1>8. Fresh(x)
  BY <1>3, <1>5, <1>7 DEF Fresh, Shape
<1>9. Begin(p, x)
  BY <1>2, <1>4, <1>6
<1> QED BY <1>8, <1>9

\* The plan of a PATCH updates one participant and names all columns asked for.
LEMMA PlanOf ==
    ASSUME IInv, NEW w \in People, Present(Row(w)), NEW names, names \subseteq ConsentFields,
           NEW bad \in BOOLEAN
    PROVE  /\ Plan(w, names, bad) \in Seq(Txs)
           /\ \A f \in names : \E t \in ToSet(Plan(w, names, bad)) : f \in t.names
           /\ \A t \in ToSet(Plan(w, names, bad)) :
                 t.wants = <<[key |-> Row(w), mode |-> "update", id |-> table[Row(w)].id]>>
<1> DEFINE s == <<[key |-> Row(w), mode |-> "update", id |-> table[Row(w)].id]>>
<1>0. {"scope"} \subseteq Fields /\ names \cap Flags \subseteq Fields
  BY FieldKinds
<1>1. PICK r : r = Update(w, {"scope"})
  OBVIOUS
<1>2. r \in Txs /\ r.wants = s /\ r.names = {"scope"}
  <2>1. r \in Txs
    BY <1>0, <1>1, MadeUpdate
  <2>2. r.wants = s /\ r.names = {"scope"}
    BY <1>1 DEF Update, Tx
  <2> QED BY <2>1, <2>2
<1>f. PICK f : f = names \cap Flags
  OBVIOUS
<1>3. PICK u : u = Update(w, f)
  OBVIOUS
<1>4. u \in Txs /\ u.wants = s /\ u.names = f
  <2>1. u \in Txs
    BY <1>0, <1>f, <1>3, MadeUpdate
  <2>2. u.wants = s /\ u.names = f
    BY <1>3 DEF Update, Tx
  <2> QED BY <2>1, <2>2
<1>5. PICK t : t = [r EXCEPT !.bad = bad]
  OBVIOUS
<1>6. t \in Txs /\ t.wants = s /\ t.names = {"scope"}
  <2>1. r \in [wants : Seq(Wants), names : SUBSET Fields, bad : BOOLEAN]
    BY <1>2 DEF Txs
  <2>2. t \in [wants : Seq(Wants), names : SUBSET Fields, bad : BOOLEAN]
    BY <1>5, <2>1
  <2>3. t.wants = r.wants /\ t.names = r.names
    BY <1>5, <2>1
  <2> QED BY <1>2, <2>2, <2>3 DEF Txs
<1>7. PICK a : a = IF "scope" \in names THEN <<t>> ELSE <<>>
  OBVIOUS
<1>8. PICK b : b = IF names \cap Flags = {} THEN <<>> ELSE <<u>>
  OBVIOUS
<1>9. Plan(w, names, bad) = a \o b
  BY <1>1, <1>f, <1>3, <1>5, <1>7, <1>8 DEF Plan
<1>10. /\ a \in Seq(Txs) /\ ToSet(a) \subseteq {t} /\ ("scope" \in names => t \in ToSet(a))
  BY <1>6, <1>7, Short
<1>11. /\ b \in Seq(Txs) /\ ToSet(b) \subseteq {u} /\ (names \cap Flags # {} => u \in ToSet(b))
  BY <1>4, <1>8, Short
<1>12. a \o b \in Seq(Txs) /\ ToSet(a \o b) = ToSet(a) \cup ToSet(b)
  BY <1>10, <1>11, Chained
<1>13. ASSUME NEW e \in names PROVE \E v \in ToSet(a \o b) : e \in v.names
  <2>1. e = "scope" \/ e \in Flags
    BY DEF ConsentFields
  <2>2. CASE e = "scope"
    BY <2>2, <1>6, <1>10, <1>12
  <2>3. CASE e \in Flags
    BY <2>3, <1>f, <1>4, <1>11, <1>12
  <2> QED BY <2>1, <2>2, <2>3
<1>14. \A v \in ToSet(a \o b) : v.wants = s
  BY <1>4, <1>6, <1>10, <1>11, <1>12
<1> QED BY <1>9, <1>12, <1>13, <1>14

\* A PATCH of consent or license, by a service.
LEMMA FreshPatch ==
    ASSUME IInv, NEW p \in Handlers, BeginPatch(p)
    PROVE  \E x : Begin(p, x) /\ Fresh(x)
<1>1. PICK w \in People, names \in {{"scope"}} \cup SUBSET Flags, bad \in BOOLEAN :
         /\ Present(Row(w))
         /\ Begin(p, Load(Request("patch",
               IF names = {} THEN <<Update(w, {})>> ELSE Plan(w, names, bad), names)))
  BY DEF BeginPatch
<1>2. names \subseteq ConsentFields /\ names \subseteq Fields
  BY <1>1, FieldKinds DEF ConsentFields
<1>3. PICK plan : plan = IF names = {} THEN <<Update(w, {})>> ELSE Plan(w, names, bad)
  OBVIOUS
<1>w. PICK W : W = [key |-> Row(w), mode |-> "update", id |-> table[Row(w)].id]
  OBVIOUS
<1>v. W \in Wants /\ W.mode = "update"
  <2>1. Row(w) \in Wide /\ Row(w) \in Keys
    BY KeyKinds
  <2>2. table[Row(w)].id \in Numbers
    BY <2>1, NumberKinds DEF IInv, Typed, Schema
  <2> QED BY <1>w, <2>1, <2>2 DEF Wants
<1>4. /\ plan \in Seq(Txs)
      /\ \A f \in names : \E t \in ToSet(plan) : f \in t.names
      /\ \A t \in ToSet(plan) : t.wants = <<W>>
  <2>1. CASE names = {}
    <3>1. PICK t : t = Update(w, {})
      OBVIOUS
    <3>2. t \in Txs
      BY <1>1, <3>1, MadeUpdate
    <3>3. t.wants = <<W>>
      BY <3>1, <1>w DEF Update, Tx
    <3>4. plan = <<t>>
      BY <1>3, <2>1, <3>1
    <3>5. plan \in Seq(Txs) /\ ToSet(plan) = {t}
      BY <3>2, <3>4, Short
    <3> QED BY <2>1, <3>3, <3>5
  <2>2. CASE names # {}
    <3>1. plan = Plan(w, names, bad)
      BY <1>3, <2>2
    <3> QED BY <3>1, <1>1, <1>2, <1>w, PlanOf
  <2> QED BY <2>1, <2>2
<1>5. PICK q \in Requests : /\ q = Request("patch", plan, names) /\ q.held = {}
                            /\ q.op = "patch" /\ q.plan = plan /\ q.asked = names
  BY <1>2, <1>4, MadeRequest DEF Ops
<1>6. \A t \in ToSet(q.plan) : Shape(q, t)
  BY <1>v, <1>4, <1>5 DEF Shape
<1>7. Fresh(Load(q))
  <2>1. q.op \notin {"cascade", "admin"}
    BY <1>5
  <2> QED BY <2>1, <1>4, <1>5, <1>6, FreshLoad
<1>8. Begin(p, Load(q))
  BY <1>1, <1>3, <1>5
<1> QED BY <1>7, <1>8

\* The same through a consent token.
LEMMA FreshPublic ==
    ASSUME IInv, NEW p \in Handlers, BeginPublic(p)
    PROVE  \E x : Begin(p, x) /\ Fresh(x)
<1>1. PICK w \in People, names \in SUBSET ConsentFields, bad \in BOOLEAN :
         /\ Present(Row(w))
         /\ Begin(p, [Request("public", Plan(w, names, bad), names) EXCEPT
                         !.pc = "token", !.who = Row(w), !.id = table[Row(w)].id])
  BY DEF BeginPublic
<1>2. names \subseteq ConsentFields /\ names \subseteq Fields
  BY <1>1, FieldKinds
<1>3. PICK plan : plan = Plan(w, names, bad)
  OBVIOUS
<1>k. PICK k \in Wide : k = Row(w)
  BY KeyKinds
<1>i. PICK i \in Numbers : i = table[Row(w)].id
  BY KeyKinds, NumberKinds DEF IInv, Typed, Schema
<1>w. PICK W : W = [key |-> k, mode |-> "update", id |-> i]
  OBVIOUS
<1>v. W \in Wants /\ W.mode = "update"
  BY <1>w DEF Wants
<1>4. /\ plan \in Seq(Txs)
      /\ \A f \in names : \E t \in ToSet(plan) : f \in t.names
      /\ \A t \in ToSet(plan) : t.wants = <<W>>
  BY <1>1, <1>2, <1>3, <1>k, <1>i, <1>w, PlanOf
<1>5. PICK o \in Requests : /\ o = Request("public", plan, names) /\ o.held = {}
                            /\ o.op = "public" /\ o.plan = plan /\ o.asked = names
  BY <1>2, <1>4, MadeRequest DEF Ops
<1>6. PICK q : q = [o EXCEPT !.who = k, !.id = i]
  OBVIOUS
<1>7. /\ q \in Requests /\ q.held = {} /\ q.op = "public" /\ q.plan = plan /\ q.asked = names
  BY <1>5, <1>6 DEF Requests
<1>8. \A t \in ToSet(q.plan) : Shape(q, t)
  BY <1>v, <1>4, <1>7 DEF Shape
<1>9. Fresh([q EXCEPT !.pc = "token"])
  <2>1. q.op \notin {"cascade", "admin"}
    BY <1>7
  <2> QED BY <2>1, <1>4, <1>7, <1>8, FreshLoad
<1>10. [o EXCEPT !.pc = "token", !.who = k, !.id = i] = [q EXCEPT !.pc = "token"]
  BY <1>5, <1>6 DEF Requests
<1>11. Begin(p, [q EXCEPT !.pc = "token"])
  BY <1>1, <1>3, <1>k, <1>i, <1>5, <1>10
<1> QED BY <1>9, <1>11

\* A new consent token.
LEMMA FreshToken ==
    ASSUME IInv, NEW p \in Handlers, BeginToken(p)
    PROVE  \E x : Begin(p, x) /\ Fresh(x)
<1>1. PICK w \in People :
         /\ Present(Row(w))
         /\ Begin(p, Load([Request("token",
              <<Tx(<<Want(Session, "share"),
                     [key |-> Row(w), mode |-> "share", id |-> table[Row(w)].id],
                     Want(User(w), "share")>>, {})>>, {})
              EXCEPT !.who = Row(w), !.id = table[Row(w)].id]))
  BY DEF BeginToken
<1>k. PICK k \in Wide : k = Row(w)
  BY KeyKinds
<1>i. PICK i \in Numbers : i = table[Row(w)].id
  BY KeyKinds, NumberKinds DEF IInv, Typed, Schema
<1>l. Session \in Wide /\ User(w) \in Wide
  BY KeyKinds
<1>2. PICK U \in Wants : U = Want(Session, "share")
  BY <1>l, MadeWant DEF Modes
<1>w. PICK W : W = [key |-> k, mode |-> "share", id |-> i]
  OBVIOUS
<1>3. W \in Wants
  BY <1>w DEF Wants
<1>4. PICK V \in Wants : V = Want(User(w), "share")
  BY <1>l, MadeWant DEF Modes
<1>5. PICK s : s = <<U, W, V>>
  OBVIOUS
<1>6. s \in Seq(Wants)
  BY <1>3, <1>5
<1>7. PICK t \in Txs : t = Tx(s, {}) /\ t.wants = s /\ t.names = {}
  BY <1>6, MadeTx
<1>8. PICK plan \in Seq(Txs) : plan = <<t>> /\ ToSet(plan) = {t}
  BY Short
<1>9. PICK o \in Requests : /\ o = Request("token", plan, {}) /\ o.held = {}
                            /\ o.op = "token" /\ o.plan = plan /\ o.asked = {}
  BY MadeRequest DEF Ops
<1>10. PICK q : q = [o EXCEPT !.who = k, !.id = i]
  OBVIOUS
<1>11. /\ q \in Requests /\ q.held = {} /\ q.op = "token" /\ q.plan = plan
       /\ q.who = k /\ q.id = i /\ q.asked = {}
  BY <1>9, <1>10 DEF Requests
<1>12. \A v \in ToSet(q.plan) : Shape(q, v)
  <2>1. /\ q.who = Row(w)
        /\ t.wants = <<Want(Session, "share"),
                       [key |-> Row(w), mode |-> "share", id |-> q.id],
                       Want(User(w), "share")>>
    BY <1>k, <1>2, <1>w, <1>4, <1>5, <1>7, <1>11
  <2>2. Shape(q, t)
    BY <2>1, <1>11 DEF Shape
  <2> QED BY <2>2, <1>8, <1>11
<1>13. Fresh(Load(q))
  <2>1. q.op \notin {"cascade", "admin"}
    BY <1>11
  <2> QED BY <2>1, <1>11, <1>12, FreshLoad
<1>14. Begin(p, Load(q))
  BY <1>1, <1>k, <1>i, <1>2, <1>w, <1>4, <1>5, <1>7, <1>8, <1>9, <1>10
<1> QED BY <1>13, <1>14

\* A request gets its number.
LEMMA Began ==
    ASSUME NEW x, NEW m, NEW y \in Requests, y = [x EXCEPT !.n = m]
    PROVE  /\ y.n = m /\ y.pc = x.pc /\ y.op = x.op /\ y.plan = x.plan /\ y.todo = x.todo
           /\ y.held = x.held /\ y.who = x.who /\ y.id = x.id /\ y.asked = x.asked
<1>1. DOMAIN y = {"pc", "op", "plan", "todo", "held", "who", "id", "asked", "n"}
  BY DEF Requests
<1>2. DOMAIN x = DOMAIN y
  OBVIOUS
<1> QED BY <1>1, <1>2

\* A request arrives in an idle slot, under the next number.
Arrival(p, y) ==
    /\ At(p, "idle") /\ y \in Requests /\ y.n = requests + 1 /\ Fresh(y)
    /\ req' = [req EXCEPT ![p] = y] /\ requests' = requests + 1
    /\ UNCHANGED <<table, tokens, log, audit, answers>>

Begins(p) ==
    \/ BeginUser(p) \/ BeginAdmin(p) \/ BeginDisplay(p)
    \/ BeginAdd(p) \/ BeginBatch(p) \/ BeginPatch(p) \/ BeginPublic(p)
    \/ BeginToken(p) \/ BeginWipe(p) \/ BeginCascade(p)

LEMMA Arrivals ==
    ASSUME IInv, IInv', NEW p \in Handlers, Begins(p)
    PROVE  \E y : Arrival(p, y)
<1>1. PICK x : Begin(p, x) /\ Fresh(x)
  BY FreshSimple, FreshDisplay, FreshBatch, FreshPatch, FreshPublic, FreshToken DEF Begins
<1>2. PICK y : y = [x EXCEPT !.n = requests + 1]
  OBVIOUS
<1>3. /\ At(p, "idle") /\ req' = [req EXCEPT ![p] = y] /\ requests' = requests + 1
      /\ UNCHANGED <<table, tokens, log, audit, answers>>
  BY <1>1, <1>2 DEF Begin
<1>4. y \in Requests
  BY <1>3 DEF IInv, Locking
<1>5. /\ y.n = requests + 1 /\ y.pc = x.pc /\ y.op = x.op /\ y.plan = x.plan
      /\ y.todo = x.todo /\ y.held = x.held /\ y.who = x.who /\ y.id = x.id
      /\ y.asked = x.asked
  BY <1>2, <1>4, Began
<1>6. \A t : Shape(x, t) => Shape(y, t)
  BY <1>5 DEF Shape
<1>7. Fresh(y)
  BY <1>1, <1>5, <1>6 DEF Fresh
<1> QED BY <1>3, <1>4, <1>5, <1>7 DEF Arrival

\* A request does the same, at another place.
SameJob(y, q) ==
    /\ y.n = q.n /\ y.op = q.op /\ y.plan = q.plan /\ y.asked = q.asked
    /\ y.who = q.who /\ y.id = q.id

\* It locks, validates or ends, and writes no row.
Quiet(p, y) ==
    /\ ~At(p, "idle") /\ req' = [req EXCEPT ![p] = y]
    /\ UNCHANGED <<table, requests, log>>
    /\ y = Idle \/ SameJob(y, req[p])
    /\ \/ answers' = answers
       \/ y = Idle /\ \E ok : Answer(req[p], ok)

LEMMA QuietSteps ==
    ASSUME IInv, NEW p \in Handlers,
           \/ Lock(p) \/ NotFound(p) \/ Refused(p) \/ DeadlockVictim(p) \/ BadInput(p)
           \/ TokenFound(p) \/ TokenUnknown(p) \/ ReadContext(p) \/ Audit(p) \/ Die(p)
    PROVE  \E y : Quiet(p, y)
<1>1. req[p] \in Requests
  BY Begun
<1>2. CASE Lock(p)
  <2>1. PICK more : req' = [req EXCEPT ![p].todo = Tail(@) \o more,
                                       ![p].held = @ \cup Grant(Next1(p))]
    BY <1>2 DEF Lock
  <2>2. PICK s, G : s = Tail(req[p].todo) \o more /\ G = Grant(Next1(p))
    OBVIOUS
  <2>3. PICK y : y = [req[p] EXCEPT !.todo = s, !.held = @ \cup G]
    OBVIOUS
  <2>4. req' = [req EXCEPT ![p] = y]
    BY <2>1, <2>2, <2>3
  <2>5. SameJob(y, req[p])
    BY <1>1, <2>3 DEF SameJob, Requests
  <2>6. ~At(p, "idle") /\ UNCHANGED <<table, requests, log, answers>>
    BY <1>2 DEF Lock, Waits, Taking, At
  <2> QED BY <2>4, <2>5, <2>6 DEF Quiet
<1>3. CASE TokenFound(p)
  <2>1. PICK y : y = [req[p] EXCEPT !.pc = "context"]
    OBVIOUS
  <2>2. req' = [req EXCEPT ![p] = y]
    BY <1>3, <2>1 DEF TokenFound
  <2>3. SameJob(y, req[p])
    BY <1>1, <2>1 DEF SameJob, Requests
  <2>4. ~At(p, "idle") /\ UNCHANGED <<table, requests, log, answers>>
    BY <1>3 DEF TokenFound, At
  <2> QED BY <2>2, <2>3, <2>4 DEF Quiet
<1>4. CASE ReadContext(p)
  <2>1. PICK y : y = IF table[req[p].who].id = req[p].id THEN Load(req[p]) ELSE Idle
    OBVIOUS
  <2>2. req' = [req EXCEPT ![p] = y]
    BY <1>4, <2>1 DEF ReadContext
  <2>3. SameJob(Load(req[p]), req[p])
    BY <1>1 DEF SameJob, Requests, Load
  <2>4. ~At(p, "idle") /\ UNCHANGED <<table, requests, log, answers>>
    BY <1>4 DEF ReadContext, At
  <2> QED BY <2>1, <2>2, <2>3, <2>4 DEF Quiet
<1>5. CASE \/ NotFound(p) \/ Refused(p) \/ DeadlockVictim(p) \/ BadInput(p)
           \/ TokenUnknown(p) \/ Audit(p) \/ Die(p)
  <2>1. Finish(p) /\ UNCHANGED <<table, requests, log>>
    BY <1>5 DEF NotFound, Refused, DeadlockVictim, BadInput, TokenUnknown, Audit, Die
  <2>2. answers' = answers \/ \E ok : Answer(req[p], ok)
    BY <1>5 DEF NotFound, Refused, DeadlockVictim, BadInput, TokenUnknown, Audit, Die
  <2>3. ~At(p, "idle")
    <3>1. CASE DeadlockVictim(p)
      BY <3>1 DEF DeadlockVictim, Circle, Waits, Taking, At
    <3>2. CASE ~DeadlockVictim(p)
      BY <1>5, <3>2 DEF NotFound, Refused, BadInput, TokenUnknown, Audit, Die, Waits, Taking, At
    <3> QED BY <3>1, <3>2
  <2> QED BY <2>1, <2>2, <2>3 DEF Quiet, Finish
<1> QED BY <1>2, <1>3, <1>4, <1>5

-----------------------------------------------------------------------------
(* What a commit adds to the log: one entry for each row that it writes. *)

LEMMA Appended ==
    ASSUME IInv, NEW p \in Handlers, Commit(p)
    PROVE  /\ log' \in Seq(Changes) /\ log \in Seq(Changes)
           /\ Len(log) \in Nat /\ DOMAIN log = 1..Len(log) /\ DOMAIN log' \subseteq Nat
           /\ \A i \in DOMAIN log : i \in DOMAIN log' /\ log'[i] = log[i]
           /\ \A i \in DOMAIN log' : i \in DOMAIN log \/
                 (Len(log) < i /\ \E k \in Written(p) : log'[i] = Change(p, k))
           /\ \A k \in Written(p) :
                 \E i \in DOMAIN log' : i \notin DOMAIN log /\ log'[i] = Change(p, k)
           /\ \A i, j \in DOMAIN log' :
                 i \notin DOMAIN log /\ j \notin DOMAIN log /\ log'[i].key = log'[j].key => i = j
<1>1. /\ Taking(p) /\ req[p].todo = <<>> /\ req[p].op # "cascade"
      /\ table' = [k \in Keys |-> IF k \in Written(p) THEN NewRow(p, k) ELSE table[k]]
      /\ log' = log \o SetToSeq({Change(p, k) : k \in Written(p)})
  BY DEF Commit
<1>2. PICK C : C = {Change(p, k) : k \in Written(p)}
  OBVIOUS
<1>3. PICK s : s = SetToSeq(C)
  OBVIOUS
<1>4. \A k \in Written(p) : Change(p, k) \in Changes
  BY <1>1, Wrote
<1>5. s \in Seq(Changes) /\ ToSet(s) = C /\ IsFiniteSet(C)
  BY <1>2, <1>3, <1>4, Logged
<1>7. \A i, j \in DOMAIN s : s[i] = s[j] => i = j
  BY <1>3, <1>5, Listed
<1>8. log \in Seq(Changes)
  BY DEF IInv, Typed
<1>9. log' = log \o s
  BY <1>1, <1>2, <1>3
<1>10. /\ Len(log) \in Nat /\ DOMAIN log = 1..Len(log)
       /\ Len(s) \in Nat /\ DOMAIN s = 1..Len(s)
  BY <1>5, <1>8, LenProperties
<1>11. /\ log' \in Seq(Changes) /\ Len(log') = Len(log) + Len(s)
       /\ \A i \in 1..(Len(log) + Len(s)) :
             log'[i] = IF i <= Len(log) THEN log[i] ELSE s[i - Len(log)]
  BY <1>5, <1>8, <1>9, ConcatProperties
<1>12. DOMAIN log' = 1..(Len(log) + Len(s))
  BY <1>11, LenProperties
<1>13. ASSUME NEW i \in DOMAIN log PROVE i \in DOMAIN log' /\ log'[i] = log[i]
  BY <1>10, <1>11, <1>12
<1>14. ASSUME NEW i \in DOMAIN log', i \notin DOMAIN log
       PROVE  /\ i \in Nat /\ Len(log) < i
              /\ i - Len(log) \in DOMAIN s /\ log'[i] = s[i - Len(log)]
  BY <1>10, <1>11, <1>12, <1>14
<1>15. ASSUME NEW i \in DOMAIN log', i \notin DOMAIN log
       PROVE  \E k \in Written(p) : log'[i] = Change(p, k)
  <2>1. log'[i] \in C
    BY <1>5, <1>14, <1>15 DEF ToSet
  <2> QED BY <2>1, <1>2
<1>16. ASSUME NEW k \in Written(p)
       PROVE  \E i \in DOMAIN log' : i \notin DOMAIN log /\ log'[i] = Change(p, k)
  <2>1. Change(p, k) \in ToSet(s)
    BY <1>2, <1>5
  <2>2. PICK j \in DOMAIN s : s[j] = Change(p, k)
    BY <2>1 DEF ToSet
  <2>3. /\ Len(log) + j \in DOMAIN log' /\ Len(log) + j \notin DOMAIN log
        /\ log'[Len(log) + j] = s[j]
    <3>1. /\ Len(log) + j \in 1..(Len(log) + Len(s)) /\ ~(Len(log) + j <= Len(log))
          /\ (Len(log) + j) - Len(log) = j
      BY <1>10
    <3> QED BY <3>1, <1>10, <1>11, <1>12
  <2> QED BY <2>2, <2>3
<1>17. ASSUME NEW i \in DOMAIN log', NEW j \in DOMAIN log',
              i \notin DOMAIN log, j \notin DOMAIN log, log'[i].key = log'[j].key
       PROVE  i = j
  <2>1. PICK k \in Written(p) : log'[i] = Change(p, k)
    BY <1>15, <1>17
  <2>2. PICK l \in Written(p) : log'[j] = Change(p, l)
    BY <1>15, <1>17
  <2>3. k = l
    BY <2>1, <2>2, <1>17 DEF Change
  <2>4. PICK a \in DOMAIN s : a = i - Len(log) /\ log'[i] = s[a]
    BY <1>14, <1>17
  <2>5. PICK b \in DOMAIN s : b = j - Len(log) /\ log'[j] = s[b]
    BY <1>14, <1>17
  <2>6. a = b
    BY <2>1, <2>2, <2>3, <2>4, <2>5, <1>7
  <2>7. i \in Nat /\ j \in Nat
    BY <1>14, <1>17
  <2> QED BY <2>4, <2>5, <2>6, <2>7, <1>10
<1>18. DOMAIN log' \subseteq Nat
  BY <1>10, <1>12
<1> QED BY <1>8, <1>10, <1>11, <1>13, <1>14, <1>15, <1>16, <1>17, <1>18

-----------------------------------------------------------------------------
(* A request's number is its own: what it makes is told apart from all that *)
(* was there before it.                                                     *)

Numbered(R, T, H, A, N) ==
    /\ \A p \in Handlers : R[p].n <= N
    /\ \A p, h \in Handlers : p # h /\ R[p].pc # "idle" => R[p].n # R[h].n
    /\ \A k \in Keys : T[k].id <= N
    /\ \A i \in DOMAIN H : H[i].id <= N /\ H[i].by <= N
    /\ \A a \in A : a.by <= N /\ \A p \in Handlers : a.by # R[p].n

\* No row that q is to write, or wrote before in another transaction, has
\* q's number.
Unmade(q, T, H) ==
    q.pc # "idle" => \A t \in ToSet(q.plan) : \A W \in ToSet(t.wants) : W.key \in Keys =>
        /\ T[W.key].id # q.n
        /\ \A i \in DOMAIN H : H[i].key = W.key => H[i].id # q.n

NumbersFresh ==
    /\ Numbered(req, table, log, answers, requests)
    /\ \A p \in Handlers : Unmade(req[p], table, log)

\* The numbers that there are.
LEMMA NumberTypes ==
    ASSUME IInv
    PROVE  /\ requests \in Nat /\ requests \in Ids
           /\ \A p \in Handlers : req[p].n \in Nat /\ (req[p].pc # "idle" => req[p].n \in Nat \ {0})
           /\ \A p \in Handlers : req[p].pc = "idle" => req[p].n = 0
           /\ \A k \in Keys : table[k].id \in Nat
           /\ \A i \in DOMAIN log :
                 log[i].id \in Nat \ {0} /\ log[i].by \in Nat \ {0} /\ log[i].key \in Keys
           /\ \A a \in answers : a.by \in Nat \ {0}
<1>1. requests \in Nat /\ requests \in Ids
  BY NumberKinds DEF IInv, Typed
<1>2. ASSUME NEW p \in Handlers
      PROVE  /\ req[p].n \in Nat /\ (req[p].pc # "idle" => req[p].n \in Nat \ {0})
             /\ req[p].pc = "idle" => req[p].n = 0
  <2>1. req[p] \in Requests /\ Good(req[p], table)
    BY Begun
  <2>2. req[p].n \in Numbers
    BY <2>1 DEF Requests
  <2> QED BY <2>1, <2>2, NumberKinds, IdleType DEF Good
<1>3. \A k \in Keys : table[k].id \in Nat
  BY NumberKinds DEF IInv, Typed, Schema
<1>4. ASSUME NEW i \in DOMAIN log
      PROVE  log[i].id \in Nat \ {0} /\ log[i].by \in Nat \ {0} /\ log[i].key \in Keys
  <2>1. log[i] \in Changes
    BY LenProperties, ElementOfSeq DEF IInv, Typed
  <2> QED BY <2>1, NumberKinds DEF Changes
<1>5. \A a \in answers : a.by \in Nat \ {0}
  BY NumberKinds DEF IInv, Typed
<1> QED BY <1>1, <1>2, <1>3, <1>4, <1>5

\* A request arrives.
LEMMA NumbersArrive ==
    ASSUME IInv, NumbersFresh, NEW p \in Handlers, NEW y, Arrival(p, y)
    PROVE  NumbersFresh'
<1>1. /\ y.n = requests + 1 /\ req' = [req EXCEPT ![p] = y] /\ requests' = requests + 1
      /\ table' = table /\ log' = log /\ answers' = answers
  BY DEF Arrival
<1>2. req \in [Handlers -> Requests]
  BY DEF IInv, Locking
<1>3. PICK N \in Nat : N = requests /\ N + 1 \in Nat /\ y.n = N + 1 /\ requests' = N + 1
  BY <1>1, NumberTypes
<1>4. PICK R : R = req'
  OBVIOUS
<1>5. R[p] = y /\ \A h \in Handlers : h # p => R[h] = req[h]
  BY <1>1, <1>2, <1>4
<1>6. Numbered(req, table, log, answers, N)
  BY <1>3 DEF NumbersFresh
<1>7. /\ \A h \in Handlers : req[h].n \in Nat
      /\ \A k \in Keys : table[k].id \in Nat
      /\ \A i \in DOMAIN log : log[i].id \in Nat /\ log[i].by \in Nat
      /\ \A a \in answers : a.by \in Nat
  BY NumberTypes
<1>8. Numbered(R, table, log, answers, N + 1)
  <2>1. \A h \in Handlers : R[h].n <= N + 1 /\ (h # p => R[h].n # N + 1)
    BY <1>3, <1>5, <1>6, <1>7 DEF Numbered
  <2>2. \A h, g \in Handlers : h # g /\ R[h].pc # "idle" => R[h].n # R[g].n
    BY <1>3, <1>5, <1>6, <2>1 DEF Numbered
  <2>3. \A k \in Keys : table[k].id <= N + 1
    BY <1>6, <1>7 DEF Numbered
  <2>4. \A i \in DOMAIN log : log[i].id <= N + 1 /\ log[i].by <= N + 1
    BY <1>6, <1>7 DEF Numbered
  <2>5. \A a \in answers : a.by <= N + 1 /\ a.by # N + 1
    BY <1>6, <1>7 DEF Numbered
  <2>6. \A a \in answers : \A h \in Handlers : a.by # R[h].n
    BY <2>5, <1>3, <1>5, <1>6 DEF Numbered
  <2> QED BY <2>1, <2>2, <2>3, <2>4, <2>5, <2>6 DEF Numbered
<1>9. ASSUME NEW h \in Handlers PROVE Unmade(R[h], table, log)
  <2>1. CASE h = p
    <3>1. \A k \in Keys : table[k].id # N + 1
      BY <1>6, <1>7 DEF Numbered
    <3>2. \A i \in DOMAIN log : log[i].id # N + 1
      BY <1>6, <1>7 DEF Numbered
    <3> QED BY <2>1, <3>1, <3>2, <1>3, <1>5 DEF Unmade
  <2>2. CASE h # p
    BY <2>2, <1>5 DEF NumbersFresh
  <2> QED BY <2>1, <2>2
<1> QED BY <1>1, <1>3, <1>4, <1>8, <1>9 DEF NumbersFresh

\* A request moves on or ends: its number remains its own.
LEMMA NumbersKept ==
    ASSUME IInv, NumbersFresh, NEW p \in Handlers, ~At(p, "idle"),
           NEW y, req' = [req EXCEPT ![p] = y], y = Idle \/ y.n = req[p].n,
           requests' = requests,
           \A k \in Keys : table'[k].id \in {table[k].id, req[p].n, 0},
           \A i \in DOMAIN log' :
              \/ i \in DOMAIN log /\ log'[i] = log[i]
              \/ log'[i].id \in {table[log'[i].key].id, req[p].n} /\ log'[i].by = req[p].n
                 /\ log'[i].key \in Keys,
           \A a \in answers' : a \in answers \/ (y = Idle /\ a.by = req[p].n)
    PROVE  Numbered(req, table, log, answers, requests)'
<1>1. PICK N \in Nat : N = requests
  BY NumberTypes
<1>2. PICK R : R = req'
  OBVIOUS
<1>3. R[p] = y /\ \A h \in Handlers : h # p => R[h] = req[h]
  BY <1>2 DEF IInv, Locking
<1>4. /\ \A h \in Handlers : /\ req[h].n \in Nat /\ req[h].n <= N
                             /\ req[h].pc # "idle" => req[h].n # 0
      /\ \A h, g \in Handlers : h # g /\ req[h].pc # "idle" => req[h].n # req[g].n
      /\ \A k \in Keys : table[k].id \in Nat /\ table[k].id <= N
      /\ \A i \in DOMAIN log : log[i].id <= N /\ log[i].by <= N
      /\ \A a \in answers : /\ a.by \in Nat \ {0} /\ a.by <= N
                            /\ \A h \in Handlers : a.by # req[h].n
  BY <1>1, NumberTypes DEF NumbersFresh, Numbered
<1>5. PICK m \in Nat : m = req[p].n /\ m <= N /\ m # 0 /\ 0 <= N
  BY <1>1, <1>4 DEF At
<1>6. \A h \in Handlers : h # p => req[h].n # m
  BY <1>4, <1>5 DEF At
<1>7. R[p].n = 0 \/ (R[p].n = m /\ y # Idle)
  BY <1>3, <1>5, IdleType
<1>8. \A h \in Handlers : R[h].n <= N
  BY <1>3, <1>4, <1>5, <1>7
<1>9. \A h, g \in Handlers : h # g /\ R[h].pc # "idle" => R[h].n # R[g].n
  <2>1. R[p].n = 0 => R[p].pc = "idle" \/ y # Idle
    BY <1>3, IdleType
  <2>2. R[p].pc # "idle" => R[p].n = m
    BY <1>3, <1>5, IdleType
  <2> QED BY <2>2, <1>3, <1>4, <1>6, <1>7
<1>10. \A k \in Keys : table'[k].id <= N
  BY <1>4, <1>5
<1>11. \A i \in DOMAIN log' : log'[i].id <= N /\ log'[i].by <= N
  BY <1>4, <1>5
<1>12. \A a \in answers' : a.by <= N /\ \A h \in Handlers : a.by # R[h].n
  <2>1. ASSUME NEW a \in answers', a \in answers
        PROVE  a.by <= N /\ \A h \in Handlers : a.by # R[h].n
    BY <2>1, <1>3, <1>4, <1>5, <1>7
  <2>2. ASSUME NEW a \in answers', y = Idle, a.by = req[p].n
        PROVE  a.by <= N /\ \A h \in Handlers : a.by # R[h].n
    BY <2>2, <1>3, <1>5, <1>6, IdleType
  <2> QED BY <2>1, <2>2
<1> QED BY <1>1, <1>2, <1>8, <1>9, <1>10, <1>11, <1>12 DEF Numbered

\* What other requests write has another number.
LEMMA UnmadeKept ==
    ASSUME NEW q, NEW T, NEW U, NEW H, NEW J, NEW m, q.n # m, q.n # 0, Unmade(q, T, H),
           \A k \in Keys : U[k].id \in {T[k].id, m, 0},
           \A i \in DOMAIN J :
              \/ i \in DOMAIN H /\ J[i] = H[i]
              \/ J[i].id \in {T[J[i].key].id, m}
    PROVE  Unmade(q, U, J)
BY DEF Unmade

\* A step that writes no row.
LEMMA NumbersQuiet ==
    ASSUME IInv, NumbersFresh, NEW p \in Handlers, NEW y, Quiet(p, y)
    PROVE  NumbersFresh'
<1>1. /\ ~At(p, "idle") /\ req' = [req EXCEPT ![p] = y]
      /\ table' = table /\ requests' = requests /\ log' = log
      /\ y = Idle \/ SameJob(y, req[p])
  BY DEF Quiet
<1>2. \A a \in answers' : a \in answers \/ (y = Idle /\ a.by = req[p].n)
  BY DEF Quiet, Answer
<1>3. y = Idle \/ y.n = req[p].n
  BY <1>1 DEF SameJob
<1>4. Numbered(req, table, log, answers, requests)'
  BY <1>1, <1>2, <1>3, NumbersKept
<1>5. ASSUME NEW h \in Handlers PROVE Unmade(req'[h], table, log)
  <2>1. CASE h = p
    <3>1. req'[h] = y /\ Unmade(req[p], table, log)
      BY <1>1, <2>1 DEF IInv, Locking, NumbersFresh
    <3> QED BY <3>1, <1>1, IdleType DEF Unmade, SameJob, At
  <2>2. CASE h # p
    <3>1. req'[h] = req[h]
      BY <1>1, <2>2 DEF IInv, Locking
    <3> QED BY <3>1 DEF NumbersFresh
  <2> QED BY <2>1, <2>2
<1> QED BY <1>1, <1>4, <1>5 DEF NumbersFresh

\* The cascade.
LEMMA NumbersCascade ==
    ASSUME IInv, NumbersFresh, NEW p \in Handlers, CommitCascade(p)
    PROVE  NumbersFresh'
<1>1. /\ ~At(p, "idle") /\ req' = [req EXCEPT ![p] = Idle]
      /\ table' = [k \in Keys |-> IF k \in Written(p) THEN Absent ELSE table[k]]
      /\ requests' = requests /\ log' = log
      /\ \A a \in answers' : a \in answers \/ a.by = req[p].n
  BY DEF CommitCascade, Taking, At, Finish, Answer
<1>2. \A k \in Keys : table'[k].id \in {table[k].id, req[p].n, 0}
  BY <1>1, NumberKinds
<1>3. Numbered(req, table, log, answers, requests)'
  BY <1>1, <1>2, NumbersKept
<1>4. ASSUME NEW h \in Handlers PROVE Unmade(req'[h], table', log)
  <2>1. CASE h = p
    BY <1>1, <2>1, IdleType DEF IInv, Locking, Unmade
  <2>2. CASE h # p
    <3>1. req'[h] = req[h] /\ Unmade(req[h], table, log)
      BY <1>1, <2>2 DEF IInv, Locking, NumbersFresh
    <3>2. CASE req[h].pc = "idle"
      BY <3>1, <3>2 DEF Unmade
    <3>3. CASE req[h].pc # "idle"
      <4>1. req[h].n # 0 /\ req[h].n # req[p].n
        BY <2>2, <3>3, NumberTypes DEF NumbersFresh, Numbered
      <4>2. PICK U : U = table'
        OBVIOUS
      <4>3. Unmade(req[h], U, log)
        BY <3>1, <4>1, <4>2, <1>2, UnmadeKept
      <4> QED BY <3>1, <4>2, <4>3
    <3> QED BY <3>2, <3>3
  <2> QED BY <2>1, <2>2
<1> QED BY <1>1, <1>3, <1>4 DEF NumbersFresh

\* A row written now that the rest of the plan wants as well is one that
\* both transactions update.
LEMMA UpdatedAgain ==
    ASSUME IInv, NEW p \in Handlers, Taking(p), req[p].op # "cascade",
           NEW t \in ToSet(Tail(req[p].plan)), NEW W \in ToSet(t.wants), W.key \in Written(p)
    PROVE  W \in ToSet(Head(req[p].plan).wants) /\ W.mode = "update" /\ table[W.key].id # 0
<1> DEFINE q == req[p]
<1>1. /\ q \in Requests /\ q.plan # <<>> /\ q.plan \in Seq(Txs)
      /\ Sourced(q) /\ Standing(q, table) /\ PlanFine(q) /\ q.held \subseteq Locks
  BY Begun DEF Taking, At
<1>2. PICK s \in Seq(Txs) : s = q.plan
  BY <1>1
<1>3. /\ 1 \in DOMAIN s /\ Head(s) = s[1] /\ Len(s) \in Nat /\ DOMAIN s = 1..Len(s)
      /\ \A i \in DOMAIN Tail(s) : i + 1 \in DOMAIN s /\ Tail(s)[i] = s[i + 1]
      /\ Tail(s) \in Seq(Txs)
  BY <1>1, <1>2, Split, LenProperties
<1>4. PICK i \in DOMAIN Tail(s) : Tail(s)[i] = t
  BY <1>2 DEF ToSet
<1>5. i \in Nat \ {0}
  BY <1>3, <1>4, LenProperties
<1>6. PICK j \in DOMAIN s : j = i + 1 /\ s[j] = t /\ 1 < j
  BY <1>3, <1>4, <1>5
<1>7. \A V \in ToSet(Head(s).wants) : V.key = W.key => W = V /\ W.mode = "update"
  BY <1>1, <1>2, <1>3, <1>6 DEF PlanFine
<1>8. PICK b \in q.held : b.key = W.key /\ b.mode # "share"
  BY DEF Written
<1>9. Wanted(q, b)
  BY <1>1, <1>8 DEF Sourced
<1>10. PICK V \in ToSet(Head(s).wants) :
          /\ V.key = b.key
          /\ V.mode \in (IF b.mode = "update" THEN {"upsert", "update", "touch"}
                         ELSE {"upsert", "seed", "excl"})
  BY <1>2, <1>9 DEF Wanted
<1>11. V = W /\ W.mode = "update"
  BY <1>7, <1>8, <1>10
<1>12. b.mode = "update"
  BY <1>10, <1>11
<1>13. table[W.key].id # 0
  BY <1>1, <1>8, <1>12 DEF Standing
<1> QED BY <1>2, <1>10, <1>11, <1>13

\* What a commit does to its request and to the answers.
Committed(p, y) ==
    /\ ~At(p, "idle") /\ req' = [req EXCEPT ![p] = y] /\ requests' = requests
    /\ \/ y = Idle
       \/ /\ y.n = req[p].n /\ y.op = req[p].op /\ y.plan = Tail(req[p].plan)
          /\ y.asked = req[p].asked /\ y.who = req[p].who /\ y.id = req[p].id
          /\ y.pc = IF y.plan = <<>> THEN "audit" ELSE "lock"
          /\ y.pc = "lock" => y.todo = Head(y.plan).wants
          /\ y.held = {}
    /\ \/ UNCHANGED <<audit, answers>>
       \/ /\ y = Idle /\ req[p].op = "admin" /\ audit' = audit \cup {req[p].n}
          /\ answers' = answers \cup {[by |-> req[p].n, ok |-> TRUE, asked |-> req[p].asked]}

LEMMA Commits ==
    ASSUME IInv, NEW p \in Handlers, Commit(p)
    PROVE  \E y : Committed(p, y)
<1> DEFINE q == req[p]
<1>1. /\ q \in Requests /\ q.plan # <<>> /\ q.plan \in Seq(Txs)
  BY Begun DEF Commit, Taking, At
<1>2. PICK r : r = [q EXCEPT !.plan = Tail(@), !.held = {}]
  OBVIOUS
<1>3. /\ r.plan = Tail(q.plan) /\ r.held = {} /\ r.op = q.op /\ r.who = q.who /\ r.id = q.id
      /\ r.asked = q.asked /\ r.n = q.n /\ r \in Requests
  <2>1. Tail(q.plan) \in Seq(Txs)
    BY <1>1, Split
  <2> QED BY <2>1, <1>1, <1>2 DEF Requests
<1>4. PICK y : y = Load(r)
  OBVIOUS
<1>5. /\ y.n = q.n /\ y.op = q.op /\ y.plan = Tail(q.plan) /\ y.asked = q.asked
      /\ y.who = q.who /\ y.id = q.id /\ y.held = {}
      /\ y.pc = IF y.plan = <<>> THEN "audit" ELSE "lock"
      /\ y.pc = "lock" => y.todo = Head(y.plan).wants
  <2>1. CASE r.plan = <<>>
    <3>1. y = [r EXCEPT !.pc = "audit"]
      BY <2>1, <1>4 DEF Load
    <3> QED BY <3>1, <2>1, <1>3 DEF Requests
  <2>2. CASE r.plan # <<>>
    <3>1. PICK w : w = Head(r.plan).wants
      OBVIOUS
    <3>2. y = [r EXCEPT !.pc = "lock", !.todo = w]
      BY <2>2, <3>1, <1>4 DEF Load
    <3> QED BY <3>1, <3>2, <2>2, <1>3 DEF Requests
  <2> QED BY <2>1, <2>2
<1>6. ~At(p, "idle") /\ requests' = requests
  BY DEF Commit, Taking, At
<1>7. CASE q.op = "wipe"
  <2>1. Finish(p) /\ UNCHANGED <<audit, answers>>
    BY <1>7 DEF Commit
  <2> QED BY <2>1, <1>6 DEF Finish, Committed
<1>8. CASE q.op = "admin"
  <2>1. Finish(p) /\ audit' = audit \cup {r.n} /\ Answer(r, TRUE)
    BY <1>2, <1>8 DEF Commit
  <2>2. answers' = answers \cup {[by |-> q.n, ok |-> TRUE, asked |-> q.asked]}
    BY <2>1, <1>3 DEF Answer
  <2> QED BY <2>1, <2>2, <1>3, <1>6, <1>8 DEF Finish, Committed
<1>9. CASE q.op \notin {"wipe", "admin"}
  <2>1. req' = [req EXCEPT ![p] = Load(r)] /\ UNCHANGED <<audit, answers>>
    BY <1>2, <1>9 DEF Commit
  <2> QED BY <2>1, <1>4, <1>5, <1>6 DEF Committed
<1> QED BY <1>7, <1>8, <1>9

\* The rows and the log after a commit.
LEMMA Effect ==
    ASSUME IInv, NEW p \in Handlers, Commit(p)
    PROVE  /\ \A k \in Keys :
                 /\ table'[k].id = IF k \in Written(p) /\ table[k].id = 0
                                   THEN req[p].n ELSE table[k].id
                 /\ k \notin Written(p) => table'[k] = table[k]
                 /\ k \in Written(p) =>
                       table'[k].vals = [f \in Fields |-> IF f \in Columns(p, k) THEN req[p].n
                                                          ELSE table[k].vals[f]]
           /\ \A i \in DOMAIN log' :
                 \/ i \in DOMAIN log /\ log'[i] = log[i]
                 \/ /\ i \notin DOMAIN log /\ log'[i].key \in Written(p) /\ log'[i].key \in Keys
                    /\ log'[i].id = table'[log'[i].key].id /\ log'[i].by = req[p].n
                    /\ log'[i].names = Columns(p, log'[i].key)
<1>1. /\ Taking(p) /\ req[p].todo = <<>> /\ req[p].op # "cascade"
      /\ table' = [k \in Keys |-> IF k \in Written(p) THEN NewRow(p, k) ELSE table[k]]
  BY DEF Commit
<1>2. \A k \in Written(p) : k \in Keys
  BY <1>1, Wrote
<1>3. ASSUME NEW k \in Keys
      PROVE  /\ table'[k].id = IF k \in Written(p) /\ table[k].id = 0
                               THEN req[p].n ELSE table[k].id
             /\ k \notin Written(p) => table'[k] = table[k]
             /\ k \in Written(p) =>
                   table'[k].vals = [f \in Fields |-> IF f \in Columns(p, k) THEN req[p].n
                                                      ELSE table[k].vals[f]]
  BY <1>1 DEF NewRow, Present
<1>4. ASSUME NEW i \in DOMAIN log', i \notin DOMAIN log
      PROVE  /\ log'[i].key \in Written(p) /\ log'[i].key \in Keys
             /\ log'[i].id = table'[log'[i].key].id /\ log'[i].by = req[p].n
             /\ log'[i].names = Columns(p, log'[i].key)
  <2>1. PICK k \in Written(p) : log'[i] = Change(p, k)
    BY <1>4, Appended
  <2>2. /\ log'[i].key = k /\ log'[i].id = NewRow(p, k).id /\ log'[i].by = req[p].n
        /\ log'[i].names = Columns(p, k)
    BY <2>1 DEF Change
  <2>3. table'[k] = NewRow(p, k)
    BY <1>1, <1>2
  <2> QED BY <2>2, <2>3, <1>2
<1>5. \A i \in DOMAIN log : i \in DOMAIN log' /\ log'[i] = log[i]
  BY Appended
<1> QED BY <1>3, <1>4, <1>5

\* A transaction commits.
LEMMA NumbersCommit ==
    ASSUME IInv, NumbersFresh, NEW p \in Handlers, Commit(p)
    PROVE  NumbersFresh'
<1> DEFINE q == req[p]
<1>1. PICK y : Committed(p, y)
  BY Commits
<1>2. /\ ~At(p, "idle") /\ req' = [req EXCEPT ![p] = y] /\ requests' = requests
      /\ y = Idle \/ (y.n = q.n /\ y.plan = Tail(q.plan))
      /\ \A a \in answers' : a \in answers \/ (y = Idle /\ a.by = q.n)
  BY <1>1 DEF Committed
<1>3. PICK U : U = table'
  OBVIOUS
<1>4. PICK J : J = log'
  OBVIOUS
<1>5. \A k \in Keys : U[k].id = IF k \in Written(p) /\ table[k].id = 0 THEN q.n ELSE table[k].id
  BY <1>3, Effect
<1>6. \A i \in DOMAIN J :
         \/ i \in DOMAIN log /\ J[i] = log[i]
         \/ /\ J[i].key \in Written(p) /\ J[i].key \in Keys
            /\ J[i].id = U[J[i].key].id /\ J[i].by = q.n
  BY <1>3, <1>4, Effect
<1>7. \A k \in Keys : U[k].id \in {table[k].id, q.n, 0}
  BY <1>5
<1>8. \A i \in DOMAIN J :
         \/ i \in DOMAIN log /\ J[i] = log[i]
         \/ J[i].id \in {table[J[i].key].id, q.n} /\ J[i].by = q.n /\ J[i].key \in Keys
  BY <1>5, <1>6
<1>9. Numbered(req, table, log, answers, requests)'
  BY <1>2, <1>3, <1>4, <1>7, <1>8, NumbersKept
<1>10. ASSUME NEW h \in Handlers PROVE Unmade(req'[h], U, J)
  <2>1. CASE h = p
    <3>1. req'[h] = y
      BY <1>2, <2>1 DEF IInv, Locking
    <3>2. CASE y = Idle
      BY <3>1, <3>2, IdleType DEF Unmade
    <3>3. CASE y # Idle
      <4>1. ASSUME NEW t \in ToSet(y.plan), NEW W \in ToSet(t.wants), W.key \in Keys
            PROVE  /\ U[W.key].id # q.n
                   /\ \A i \in DOMAIN J : J[i].key = W.key => J[i].id # q.n
        <5>1. t \in ToSet(Tail(q.plan))
          BY <1>2, <3>3, <4>1
        <5>2. q.plan \in Seq(Txs) /\ q.plan # <<>>
          BY Begun DEF Commit, Taking, At
        <5>3. t \in ToSet(q.plan)
          BY <5>1, <5>2, Split
        <5>4. /\ table[W.key].id # q.n
              /\ \A i \in DOMAIN log : log[i].key = W.key => log[i].id # q.n
          BY <5>3, <4>1, <1>2 DEF NumbersFresh, Unmade, At
        <5>5. W.key \in Written(p) => table[W.key].id # 0
          BY <5>1, UpdatedAgain DEF Commit
        <5>6. U[W.key].id = table[W.key].id
          BY <5>5, <4>1, <1>5
        <5> QED BY <5>4, <5>6, <1>6
      <4> QED BY <4>1, <3>1, <3>3, <1>2 DEF Unmade
    <3> QED BY <3>2, <3>3
  <2>2. CASE h # p
    <3>1. req'[h] = req[h] /\ Unmade(req[h], table, log)
      BY <1>2, <2>2 DEF IInv, Locking, NumbersFresh
    <3>2. CASE req[h].pc = "idle"
      BY <3>1, <3>2 DEF Unmade
    <3>3. CASE req[h].pc # "idle"
      <4>1. req[h].n # 0 /\ req[h].n # q.n
        BY <2>2, <3>3, NumberTypes DEF NumbersFresh, Numbered
      <4>2. \A i \in DOMAIN J :
               \/ i \in DOMAIN log /\ J[i] = log[i]
               \/ J[i].id \in {table[J[i].key].id, q.n}
        BY <1>8
      <4>3. PICK x : x = req[h]
        OBVIOUS
      <4>4. PICK m : m = q.n
        OBVIOUS
      <4>5. Unmade(x, table, log) /\ x.n # m /\ x.n # 0
        BY <3>1, <4>1, <4>3, <4>4
      <4>6. \A k \in Keys : U[k].id \in {table[k].id, m, 0}
        BY <1>7, <4>4
      <4>7. \A i \in DOMAIN J :
               \/ i \in DOMAIN log /\ J[i] = log[i]
               \/ J[i].id \in {table[J[i].key].id, m}
        BY <4>2, <4>4
      <4>8. Unmade(x, U, J)
        BY <4>5, <4>6, <4>7 DEF Unmade
      <4> QED BY <3>1, <4>3, <4>8
    <3> QED BY <3>2, <3>3
  <2> QED BY <2>1, <2>2
<1> QED BY <1>3, <1>4, <1>9, <1>10 DEF NumbersFresh

\* Before the first request.
LEMMA NumbersInit == ASSUME Init PROVE NumbersFresh
<1>1. /\ req = [p \in Handlers |-> Idle] /\ requests = 1 /\ log = <<>> /\ answers = {}
      /\ table = [k \in Keys |->
            IF (k[1] = "user" /\ k[2] \in Known) \/ (k[1] = "row" /\ k[2] \in Joined)
            THEN [Absent EXCEPT !.id = 1] ELSE Absent]
  BY DEF Init
<1>2. \A k \in Keys : table[k].id \in {0, 1}
  BY <1>1 DEF Absent
<1>3. \A p \in Handlers : req[p].pc = "idle" /\ req[p].n = 0
  BY <1>1, IdleType
<1>4. DOMAIN log = {}
  BY <1>1, Short
<1>5. \A k \in Keys : table[k].id <= 1
  BY <1>2
<1> QED BY <1>1, <1>3, <1>4, <1>5 DEF NumbersFresh, Numbered, Unmade

\* A number is a request's own for good.
LEMMA NumbersStep == ASSUME IInv, NumbersFresh, [Next]_vars PROVE NumbersFresh'
<1>1. CASE UNCHANGED vars
  BY <1>1 DEF vars, NumbersFresh
<1>2. ASSUME NEW t \in tokens, Expire(t) PROVE NumbersFresh'
  BY <1>2 DEF Expire, NumbersFresh
<1>3. ASSUME NEW p \in Handlers, Begins(p) PROVE NumbersFresh'
  <2>1. IInv'
    BY Inductive
  <2> QED BY <2>1, <1>3, Arrivals, NumbersArrive
<1>4. ASSUME NEW p \in Handlers, Step(p) \/ Die(p) PROVE NumbersFresh'
  <2>1. CASE Commit(p)
    BY <2>1, NumbersCommit
  <2>2. CASE CommitCascade(p)
    BY <2>2, NumbersCascade
  <2>3. CASE ~Commit(p) /\ ~CommitCascade(p)
    BY <1>4, <2>3, QuietSteps, NumbersQuiet DEF Step
  <2> QED BY <2>1, <2>2, <2>3
<1> QED BY <1>1, <1>2, <1>3, <1>4 DEF Next, Begins, Quiescent

-----------------------------------------------------------------------------
(* What the columns hold. *)

\* The log entries about the row that has key k now, that name f.
Naming(T, H, k, f) == {i \in DOMAIN H : H[i].key = k /\ H[i].id = T[k].id /\ f \in H[i].names}

\* v is what the last of them wrote, or the default.
Latest(T, H, k, f, v) ==
    \/ Naming(T, H, k, f) = {} /\ v = 0
    \/ \E i \in Naming(T, H, k, f) : (\A j \in Naming(T, H, k, f) : j <= i) /\ H[i].by = v

ColumnsHold ==
    \A k \in Keys : table[k].id # 0 =>
        \A f \in Fields : Latest(table, log, k, f, table[k].vals[f])

LEMMA HoldInit == ASSUME Init PROVE ColumnsHold
<1>1. /\ log = <<>>
      /\ table = [k \in Keys |->
            IF (k[1] = "user" /\ k[2] \in Known) \/ (k[1] = "row" /\ k[2] \in Joined)
            THEN [Absent EXCEPT !.id = 1] ELSE Absent]
  BY DEF Init
<1>2. \A k \in Keys : \A f \in Fields : table[k].vals[f] = 0
  BY <1>1 DEF Absent
<1>3. DOMAIN log = {}
  BY <1>1, Short
<1> QED BY <1>2, <1>3 DEF ColumnsHold, Latest, Naming

\* A row that a commit writes is one that its transaction was to write.
LEMMA WrittenWanted ==
    ASSUME IInv, NEW p \in Handlers, Taking(p), req[p].op # "cascade", NEW k \in Written(p)
    PROVE  /\ k \in Keys
           /\ \E t \in ToSet(req[p].plan) : \E W \in ToSet(t.wants) : W.key = k
<1> DEFINE q == req[p]
<1>1. /\ q \in Requests /\ q.plan # <<>> /\ q.plan \in Seq(Txs) /\ Sourced(q)
  BY Begun DEF Taking, At
<1>2. PICK b \in q.held : b.key = k /\ b.mode # "share"
  BY DEF Written
<1>3. Wanted(q, b) /\ k \in Keys
  BY <1>1, <1>2 DEF Sourced
<1>4. \E W \in ToSet(Head(q.plan).wants) : W.key = k
  BY <1>2, <1>3 DEF Wanted
<1>5. Head(q.plan) \in ToSet(q.plan)
  BY <1>1, Split
<1> QED BY <1>3, <1>4, <1>5

\* A commit: the columns that it names hold its number, the others what they
\* held; a row that it makes holds the defaults there.
LEMMA HoldCommit ==
    ASSUME IInv, NumbersFresh, ColumnsHold, NEW p \in Handlers, Commit(p)
    PROVE  ColumnsHold'
<1> DEFINE q == req[p]
<1>1. PICK U : U = table'
  OBVIOUS
<1>2. PICK J : J = log'
  OBVIOUS
<1>3. /\ \A k \in Keys :
            /\ U[k].id = IF k \in Written(p) /\ table[k].id = 0 THEN q.n ELSE table[k].id
            /\ k \notin Written(p) => U[k] = table[k]
            /\ k \in Written(p) =>
                  U[k].vals = [f \in Fields |-> IF f \in Columns(p, k) THEN q.n
                                                ELSE table[k].vals[f]]
      /\ \A i \in DOMAIN J :
            \/ i \in DOMAIN log /\ J[i] = log[i]
            \/ /\ i \notin DOMAIN log /\ J[i].key \in Written(p) /\ J[i].key \in Keys
               /\ J[i].id = U[J[i].key].id /\ J[i].by = q.n
               /\ J[i].names = Columns(p, J[i].key)
  BY <1>1, <1>2, Effect
<1>4. /\ Len(log) \in Nat /\ DOMAIN log = 1..Len(log) /\ DOMAIN J \subseteq Nat
      /\ \A i \in DOMAIN log : i \in DOMAIN J /\ J[i] = log[i]
      /\ \A i \in DOMAIN J : i \in DOMAIN log \/ Len(log) < i
      /\ \A i, j \in DOMAIN J :
            i \notin DOMAIN log /\ j \notin DOMAIN log /\ J[i].key = J[j].key => i = j
      /\ \A k \in Written(p) : \E i \in DOMAIN J : i \notin DOMAIN log /\ J[i].key = k
  <2>1. \A k : Change(p, k).key = k
    BY DEF Change
  <2> QED BY <2>1, <1>2, Appended
<1>5. ASSUME NEW k \in Keys, U[k].id # 0, NEW f \in Fields
      PROVE  Latest(U, J, k, f, U[k].vals[f])
  <2>1. CASE k \notin Written(p)
    <3>1. U[k] = table[k]
      BY <2>1, <1>3
    <3>2. Latest(table, log, k, f, table[k].vals[f])
      BY <3>1, <1>5 DEF ColumnsHold
    <3>3. Naming(U, J, k, f) = Naming(table, log, k, f)
      BY <2>1, <3>1, <1>3, <1>4 DEF Naming
    <3>4. \A i \in Naming(table, log, k, f) : J[i] = log[i]
      BY <1>4 DEF Naming
    <3> QED BY <3>1, <3>2, <3>3, <3>4 DEF Latest
  <2>2. CASE k \in Written(p) /\ f \in Columns(p, k)
    <3>1. PICK i \in DOMAIN J : i \notin DOMAIN log /\ J[i].key = k
      BY <2>2, <1>4
    <3>2. J[i].id = U[k].id /\ J[i].by = q.n /\ J[i].names = Columns(p, k)
      BY <3>1, <1>3
    <3>3. i \in Naming(U, J, k, f)
      BY <2>2, <3>1, <3>2 DEF Naming
    <3>4. ASSUME NEW j \in Naming(U, J, k, f) PROVE j <= i
      <4>1. j \in DOMAIN J /\ J[j].key = k
        BY DEF Naming
      <4>2. CASE j \in DOMAIN log
        BY <4>2, <3>1, <1>4
      <4>3. CASE j \notin DOMAIN log
        BY <4>1, <4>3, <3>1, <1>4
      <4> QED BY <4>2, <4>3
    <3>5. U[k].vals[f] = q.n
      BY <2>2, <1>3
    <3> QED BY <3>2, <3>3, <3>4, <3>5 DEF Latest
  <2>3. CASE k \in Written(p) /\ f \notin Columns(p, k)
    <3>1. U[k].vals[f] = table[k].vals[f]
      BY <2>3, <1>3
    <3>2. \A i \in Naming(U, J, k, f) : i \in DOMAIN log /\ J[i] = log[i]
      BY <2>3, <1>3 DEF Naming
    <3>3. CASE table[k].id # 0
      <4>1. U[k].id = table[k].id
        BY <3>3, <1>3
      <4>2. Naming(U, J, k, f) = Naming(table, log, k, f)
        BY <3>2, <4>1, <1>4 DEF Naming
      <4>3. Latest(table, log, k, f, table[k].vals[f])
        BY <3>3 DEF ColumnsHold
      <4> QED BY <3>1, <3>2, <4>2, <4>3 DEF Latest
    <3>4. CASE table[k].id = 0
      <4>1. U[k].id = q.n
        BY <2>3, <3>4, <1>3
      <4>2. Taking(p) /\ q.op # "cascade" /\ q.pc # "idle"
        BY DEF Commit, Taking, At
      <4>3. PICK t \in ToSet(q.plan) : \E W \in ToSet(t.wants) : W.key = k
        BY <2>3, <4>2, WrittenWanted
      <4>4. \A i \in DOMAIN log : log[i].key = k => log[i].id # q.n
        BY <4>2, <4>3 DEF NumbersFresh, Unmade
      <4>5. Naming(U, J, k, f) = {}
        BY <3>2, <4>1, <4>4 DEF Naming
      <4>6. table[k] \in Rows
        BY DEF IInv, Typed, Schema
      <4>7. table[k].vals[f] = 0
        BY <3>4, <4>6, NumberKinds
      <4> QED BY <3>1, <4>5, <4>7 DEF Latest
    <3> QED BY <3>3, <3>4
  <2> QED BY <2>1, <2>2, <2>3
<1> QED BY <1>1, <1>2, <1>5 DEF ColumnsHold

LEMMA HoldStep == ASSUME IInv, NumbersFresh, ColumnsHold, [Next]_vars PROVE ColumnsHold'
<1>1. CASE UNCHANGED <<table, log>>
  BY <1>1 DEF ColumnsHold
<1>2. ASSUME NEW p \in Handlers, Begins(p) PROVE UNCHANGED <<table, log>>
  <2>1. IInv'
    BY Inductive
  <2> QED BY <2>1, <1>2, Arrivals DEF Arrival
<1>3. ASSUME NEW p \in Handlers, Step(p) \/ Die(p) PROVE ColumnsHold'
  <2>1. CASE Commit(p)
    BY <2>1, HoldCommit
  <2>2. CASE CommitCascade(p)
    <3>1. log' = log /\ \A k \in Keys : table'[k] = IF k \in Written(p) THEN Absent ELSE table[k]
      BY <2>2 DEF CommitCascade
    <3>2. PICK U : U = table'
      OBVIOUS
    <3>3. ASSUME NEW k \in Keys, U[k].id # 0, NEW f \in Fields
          PROVE  Latest(U, log, k, f, U[k].vals[f])
      <4>1. U[k] = table[k]
        BY <3>1, <3>2, <3>3, NumberKinds
      <4>2. Latest(table, log, k, f, table[k].vals[f])
        BY <3>3, <4>1 DEF ColumnsHold
      <4> QED BY <4>1, <4>2 DEF Latest, Naming
    <3> QED BY <3>1, <3>2, <3>3 DEF ColumnsHold
  <2>3. CASE ~Commit(p) /\ ~CommitCascade(p)
    <3>1. UNCHANGED <<table, log>>
      BY <1>3, <2>3, QuietSteps DEF Step, Quiet
    <3> QED BY <3>1, <1>1
  <2> QED BY <2>1, <2>2, <2>3 DEF Step
<1>4. ASSUME NEW t \in tokens, Expire(t) PROVE UNCHANGED <<table, log>>
  BY <1>4 DEF Expire
<1> QED BY <1>1, <1>2, <1>3, <1>4 DEF Next, Begins, Quiescent, vars

\* Every column of every row that exists holds what the last committed request
\* that named it wrote, or its default: no request takes back what another
\* wrote to another column of the row, and a row that is made anew after a
\* cascade takes over nothing from the one before it (COALESCE and DO UPDATE
\* in db/participants.rs, users.rs and display_names.rs).
THEOREM ColumnsHoldTheLastNamed == Spec => []LastNamedWins
<1>1. ASSUME IInv, ColumnsHold PROVE LastNamedWins
  <2>1. DOMAIN log \subseteq Nat
    BY LenProperties DEF IInv, Typed
  <2>2. ASSUME NEW k \in Keys, Present(k), NEW f \in Fields
        PROVE  table[k].vals[f] = LastNamed(k, f)
    <3>1. PICK A : A = Naming(table, log, k, f)
      OBVIOUS
    <3>2. LastNamed(k, f) = IF A = {} THEN 0 ELSE log[CHOOSE i \in A : \A j \in A : j <= i].by
      BY <3>1 DEF LastNamed, Naming
    <3>3. A \subseteq Nat
      BY <2>1, <3>1 DEF Naming
    <3>4. Latest(table, log, k, f, table[k].vals[f])
      BY <1>1, <2>2 DEF ColumnsHold, Present
    <3>5. CASE A = {}
      BY <3>1, <3>2, <3>4, <3>5 DEF Latest
    <3>6. CASE A # {}
      <4>1. PICK i \in A : (\A j \in A : j <= i) /\ log[i].by = table[k].vals[f]
        BY <3>1, <3>4, <3>6 DEF Latest
      <4>2. PICK c : c = CHOOSE x \in A : \A j \in A : j <= x
        OBVIOUS
      <4>3. c \in A /\ \A j \in A : j <= c
        BY <4>1, <4>2
      <4>4. c = i
        BY <4>1, <4>3, <3>3
      <4> QED BY <3>2, <3>6, <4>1, <4>2, <4>4
    <3> QED BY <3>5, <3>6
  <2> QED BY <2>2 DEF LastNamedWins
<1> QED BY <1>1, Initially, Inductive, NumbersInit, NumbersStep, HoldInit, HoldStep, PTL DEF Spec

-----------------------------------------------------------------------------
(* What a request has written of what it was asked for. *)

Mine(q, H) == {i \in DOMAIN H : H[i].by = q.n}

\* All that was asked for is written, or planned.
Covered(q, H) ==
    \A f \in q.asked :
        \/ \E i \in Mine(q, H) : f \in H[i].names
        \/ \E t \in ToSet(q.plan) : f \in t.names

\* Nothing is written while the token is validated, nor by the cascade.
Unwritten(q, H) == q.pc \in {"token", "context"} \/ q.op = "cascade" => Mine(q, H) = {}

PlanDone(q) ==
    /\ q.op = "cascade" => q.asked = {}
    /\ q.op = "admin" => \A j \in DOMAIN q.plan : j = 1
    /\ q.pc = "audit" => q.plan = <<>>

\* Only an UPDATE of the plan can find its row gone; one that no longer waits
\* has found it.
Found(q, T) ==
    q.pc = "lock" =>
        /\ \A W \in ToSet(q.todo) : W.id # 0 => W \in ToSet(Head(q.plan).wants)
        /\ \A W \in ToSet(Head(q.plan).wants) :
              W.mode = "update" => W \in ToSet(q.todo) \/ T[W.key].id = W.id

\* Once a column is written, what remains updates the same row and is not
\* refused for its input.
SameRow(q, H) ==
    \A i \in Mine(q, H) : H[i].names # {} =>
        \A t \in ToSet(q.plan) :
            /\ ~t.bad
            /\ \A W \in ToSet(t.wants) :
                  W.mode = "update" /\ W.key = H[i].key /\ W.id = H[i].id

Progress(q, T, H) ==
    q.pc # "idle" =>
        Covered(q, H) /\ Unwritten(q, H) /\ PlanDone(q) /\ Found(q, T) /\ SameRow(q, H)

\* A 200 is audited and all that was asked for written; after a 4xx no column
\* is, of a row that is still there.
Told(a, T, H, D) ==
    LET mine == {i \in DOMAIN H : H[i].by = a.by} IN
    /\ a.ok => /\ a.by \in D
               /\ \A f \in a.asked : \E i \in mine : f \in H[i].names
    /\ ~a.ok => \A i \in mine : H[i].names # {} => T[H[i].key].id # H[i].id

Telling ==
    /\ \A p \in Handlers : Progress(req[p], table, log)
    /\ \A a \in answers : Told(a, table, log, audit)

LEMMA TellInit == ASSUME Init PROVE Telling
<1>1. /\ \A p \in Handlers : req[p] = Idle
      /\ answers = {}
  BY DEF Init
<1> QED BY <1>1, IdleType DEF Telling, Progress

LEMMA IdleTells == \A T, H : Progress(Idle, T, H)
BY IdleType DEF Progress

\* A request arrives.
LEMMA ArrivalTells ==
    ASSUME IInv, NumbersFresh, Telling, NEW p \in Handlers, NEW y, Arrival(p, y)
    PROVE  Telling'
<1>1. /\ y.n = requests + 1 /\ req' = [req EXCEPT ![p] = y] /\ Fresh(y) /\ y \in Requests
      /\ table' = table /\ log' = log /\ answers' = answers /\ audit' = audit
  BY DEF Arrival
<1>2. Mine(y, log) = {}
  <2>1. PICK N \in Nat : N = requests
    BY NumberTypes
  <2>2. \A i \in DOMAIN log : log[i].by \in Nat /\ log[i].by <= N
    BY <2>1, NumberTypes DEF NumbersFresh, Numbered
  <2>3. \A i \in DOMAIN log : log[i].by # N + 1
    BY <2>2
  <2> QED BY <2>1, <2>3, <1>1 DEF Mine
<1>3. Covered(y, log) /\ Unwritten(y, log) /\ SameRow(y, log)
  BY <1>1, <1>2 DEF Fresh, Covered, Unwritten, SameRow
<1>4. PlanDone(y) /\ Found(y, table)
  BY <1>1 DEF Fresh, PlanDone, Found
<1>5. Progress(y, table, log)
  BY <1>3, <1>4 DEF Progress
<1>6. req'[p] = y /\ \A h \in Handlers : h # p => req'[h] = req[h]
  BY <1>1 DEF IInv, Locking
<1>7. \A h \in Handlers : Progress(req'[h], table, log)
  BY <1>5, <1>6 DEF Telling
<1> QED BY <1>1, <1>7 DEF Telling

\* A request takes a lock.
LEMMA LockTells ==
    ASSUME IInv, NEW p \in Handlers, Lock(p), Progress(req[p], table, log)
    PROVE  Progress(req'[p], table, log)
<1> DEFINE q == req[p]
<1>1. /\ Waits(p) /\ ~Missing(p) /\ q.pc = "lock"
  BY DEF Lock, Waits, Taking, At
<1>2. PICK more \in Later(p) : req' = [req EXCEPT ![p].todo = Tail(@) \o more,
                                                 ![p].held = @ \cup Grant(Next1(p))]
  BY DEF Lock
<1>3. /\ more \in Seq(Wants) /\ \A V \in ToSet(more) : V.id = 0
  BY <1>1, <1>2, Afterwards
<1>4. /\ q \in Requests /\ q.todo \in Seq(Wants) /\ q.todo # <<>> /\ PlanFine(q)
      /\ q.plan \in Seq(Txs) /\ q.plan # <<>>
  BY <1>1, Begun DEF Waits, Taking
<1>5. PICK r : r = Tail(q.todo)
  OBVIOUS
<1>6. r \in Seq(Wants) /\ ToSet(q.todo) = {Next1(p)} \cup ToSet(r)
  BY <1>4, <1>5, Split DEF Next1
<1>7. PICK s : s = r \o more
  OBVIOUS
<1>8. ToSet(s) = ToSet(r) \cup ToSet(more)
  BY <1>3, <1>6, <1>7, Chained
<1>9. PICK G : G = Grant(Next1(p))
  OBVIOUS
<1>10. PICK y : y = [q EXCEPT !.todo = s, !.held = @ \cup G]
  OBVIOUS
<1>11. req'[p] = y
  BY <1>2, <1>5, <1>7, <1>9, <1>10 DEF IInv, Locking
<1>12. /\ y.pc = q.pc /\ y.op = q.op /\ y.plan = q.plan /\ y.asked = q.asked /\ y.n = q.n
       /\ y.todo = s
  BY <1>4, <1>10 DEF Requests
<1>13. Found(y, table)
  <2>1. Found(q, table)
    BY <1>1 DEF Progress
  <2>2. \A W \in ToSet(s) : W.id # 0 => W \in ToSet(Head(q.plan).wants)
    BY <2>1, <1>1, <1>3, <1>6, <1>8 DEF Found
  <2>3. ASSUME NEW W \in ToSet(Head(q.plan).wants), W.mode = "update", W \notin ToSet(s)
        PROVE  table[W.key].id = W.id
    <3>1. CASE W = Next1(p)
      <4>1. TxFine(q, Head(q.plan))
        BY <1>4, Split DEF PlanFine
      <4>2. W.id # 0
        BY <2>3, <4>1 DEF TxFine, Fine
      <4> QED BY <3>1, <4>2, <1>1 DEF Missing, Gone
    <3>2. CASE W # Next1(p)
      <4>1. W \notin ToSet(q.todo)
        BY <2>3, <3>2, <1>6, <1>8
      <4> QED BY <4>1, <2>1, <2>3, <1>1 DEF Found
    <3> QED BY <3>1, <3>2
  <2> QED BY <2>2, <2>3, <1>12 DEF Found
<1>14. Mine(y, log) = Mine(q, log)
  BY <1>12 DEF Mine
<1>15. Covered(y, log) /\ Unwritten(y, log) /\ PlanDone(y) /\ SameRow(y, log)
  BY <1>1, <1>12, <1>14 DEF Progress, Covered, Unwritten, PlanDone, SameRow
<1> QED BY <1>11, <1>13, <1>15 DEF Progress

\* A consent token is validated.
LEMMA TokenTells ==
    ASSUME IInv, NEW p \in Handlers, TokenFound(p) \/ ReadContext(p),
           Progress(req[p], table, log)
    PROVE  Progress(req'[p], table, log)
<1> DEFINE q == req[p]
<1>1. q \in Requests /\ q.pc \in {"token", "context"} /\ req \in [Handlers -> Requests]
  BY Begun DEF TokenFound, ReadContext, At, IInv, Locking
<1>2. /\ Covered(q, log) /\ Unwritten(q, log) /\ PlanDone(q) /\ Mine(q, log) = {}
  BY <1>1 DEF Progress, Unwritten
<1>3. ASSUME NEW y, y.pc # "idle", y.op = q.op, y.plan = q.plan, y.asked = q.asked, y.n = q.n,
             y.pc = "audit" => y.plan = <<>>,
             y.pc = "lock" => y.todo = Head(y.plan).wants
      PROVE  Progress(y, table, log)
  <2>1. Mine(y, log) = {}
    BY <1>2, <1>3 DEF Mine
  <2>2. Covered(y, log) /\ Unwritten(y, log) /\ PlanDone(y) /\ SameRow(y, log) /\ Found(y, table)
    BY <2>1, <1>2, <1>3 DEF Covered, Unwritten, PlanDone, SameRow, Found
  <2> QED BY <2>2 DEF Progress
<1>4. CASE TokenFound(p)
  <2>1. PICK y : y = [q EXCEPT !.pc = "context"]
    OBVIOUS
  <2>2. req'[p] = y
    BY <2>1, <1>1, <1>4 DEF TokenFound
  <2>3. /\ y.pc = "context" /\ y.op = q.op /\ y.plan = q.plan /\ y.asked = q.asked /\ y.n = q.n
    BY <2>1, <1>1 DEF Requests
  <2> QED BY <2>2, <2>3, <1>3
<1>5. CASE ReadContext(p)
  <2>1. PICK y : y = Load(q)
    OBVIOUS
  <2>2. req'[p] \in {y, Idle}
    BY <2>1, <1>1, <1>5 DEF ReadContext
  <2>3. /\ y.op = q.op /\ y.plan = q.plan /\ y.asked = q.asked /\ y.n = q.n
        /\ y.pc \in {"audit", "lock"}
        /\ y.pc = "audit" => y.plan = <<>>
        /\ y.pc = "lock" => y.todo = Head(y.plan).wants
    <3>1. CASE q.plan = <<>>
      <4>1. y = [q EXCEPT !.pc = "audit"]
        BY <2>1, <3>1 DEF Load
      <4> QED BY <3>1, <4>1, <1>1 DEF Requests
    <3>2. CASE q.plan # <<>>
      <4>1. PICK w : w = Head(q.plan).wants
        OBVIOUS
      <4>2. y = [q EXCEPT !.pc = "lock", !.todo = w]
        BY <2>1, <3>2, <4>1 DEF Load
      <4> QED BY <3>2, <4>1, <4>2, <1>1 DEF Requests
    <3> QED BY <3>1, <3>2
  <2>4. Progress(y, table, log)
    BY <2>3, <1>3
  <2> QED BY <2>2, <2>4, IdleTells
<1> QED BY <1>4, <1>5

\* A request answers, and writes nothing more.
LEMMA AnswersTell ==
    ASSUME IInv, NEW p \in Handlers, Progress(req[p], table, log),
           NotFound(p) \/ BadInput(p) \/ TokenUnknown(p) \/ Audit(p),
           NEW a \in answers', a \notin answers
    PROVE  Told(a, table, log, audit')
<1> DEFINE q == req[p]
<1>1. /\ a.by = q.n /\ a.asked = q.asked
      /\ IF Audit(p) THEN a.ok = TRUE ELSE a.ok = FALSE
  <2>1. CASE Audit(p)
    BY <2>1 DEF Audit, Answer
  <2>2. CASE ~Audit(p)
    <3>1. Answer(q, FALSE)
      BY <2>2 DEF NotFound, BadInput, TokenUnknown
    <3> QED BY <2>2, <3>1 DEF Answer
  <2> QED BY <2>1, <2>2
<1>2. PICK mine : mine = {i \in DOMAIN log : log[i].by = q.n}
  OBVIOUS
<1>3. Mine(q, log) = mine
  BY <1>2 DEF Mine
<1>4. CASE Audit(p)
  <2>1. q.pc = "audit" /\ a.by \in audit' /\ a.ok = TRUE
    BY <1>1, <1>4 DEF Audit, At
  <2>2. q.plan = <<>> /\ Covered(q, log)
    BY <2>1 DEF Progress, PlanDone
  <2>3. \A f \in q.asked : \E i \in mine : f \in log[i].names
    BY <2>2, <1>3, Short DEF Covered
  <2> QED BY <1>1, <1>2, <2>1, <2>3 DEF Told
<1>5. CASE ~Audit(p)
  <2>1. a.ok = FALSE /\ q.pc # "idle"
    BY <1>1, <1>5 DEF NotFound, BadInput, TokenUnknown, Waits, Taking, At
  <2>2. ASSUME NEW i \in mine, log[i].names # {}
        PROVE  table[log[i].key].id # log[i].id
    <3>1. \A t \in ToSet(q.plan) :
             /\ ~t.bad
             /\ \A W \in ToSet(t.wants) :
                   W.mode = "update" /\ W.key = log[i].key /\ W.id = log[i].id
      BY <2>1, <2>2, <1>3 DEF Progress, SameRow
    <3>2. ~TokenUnknown(p)
      BY <1>3, <2>2 DEF TokenUnknown, At, Progress, Unwritten
    <3>3. q.pc = "lock"
      BY <1>5, <3>2 DEF NotFound, BadInput, Waits, Taking, At
    <3>4. Head(q.plan) \in ToSet(q.plan)
      BY <3>3, Begun, Split DEF At
    <3>5. NotFound(p)
      BY <1>5, <3>1, <3>2, <3>4 DEF BadInput
    <3>6. Next1(p) \in ToSet(q.todo)
      BY <3>5, Begun, Split DEF NotFound, Waits, Next1
    <3>7. Next1(p).id # 0 /\ Next1(p).id # table[Next1(p).key].id
      BY <3>5 DEF NotFound, Missing, Gone
    <3>8. Next1(p) \in ToSet(Head(q.plan).wants)
      BY <3>3, <3>6, <3>7 DEF Progress, Found
    <3> QED BY <3>1, <3>4, <3>7, <3>8
  <2> QED BY <1>1, <1>2, <2>1, <2>2 DEF Told
<1> QED BY <1>4, <1>5

\* A step that writes no row.
LEMMA QuietTells ==
    ASSUME IInv, Telling, NEW p \in Handlers,
           \/ Lock(p) \/ NotFound(p) \/ Refused(p) \/ DeadlockVictim(p) \/ BadInput(p)
           \/ TokenFound(p) \/ TokenUnknown(p) \/ ReadContext(p) \/ Audit(p) \/ Die(p)
    PROVE  Telling'
<1>1. PICK y : Quiet(p, y)
  BY QuietSteps
<1>2. /\ req' = [req EXCEPT ![p] = y] /\ table' = table /\ log' = log
      /\ req'[p] = y /\ \A h \in Handlers : h # p => req'[h] = req[h]
  BY <1>1 DEF Quiet, IInv, Locking
<1>3. audit \subseteq audit'
  BY DEF Lock, NotFound, Refused, DeadlockVictim, BadInput, TokenFound, TokenUnknown,
         ReadContext, Audit, Die
<1>4. Progress(req'[p], table, log)
  <2>1. CASE Lock(p) \/ TokenFound(p) \/ ReadContext(p)
    BY <2>1, LockTells, TokenTells DEF Telling
  <2>2. CASE ~(Lock(p) \/ TokenFound(p) \/ ReadContext(p))
    <3>1. Finish(p)
      BY <2>2 DEF NotFound, Refused, DeadlockVictim, BadInput, TokenUnknown, Audit, Die
    <3>2. req'[p] = Idle
      BY <3>1 DEF Finish, IInv, Locking
    <3> QED BY <3>2, IdleTells
  <2> QED BY <2>1, <2>2
<1>5. \A h \in Handlers : Progress(req'[h], table, log)
  BY <1>2, <1>4 DEF Telling
<1>6. ASSUME NEW a \in answers' PROVE Told(a, table, log, audit')
  <2>1. CASE a \in answers
    BY <2>1, <1>3 DEF Telling, Told
  <2>2. CASE a \notin answers
    <3>1. NotFound(p) \/ BadInput(p) \/ TokenUnknown(p) \/ Audit(p)
      BY <1>6, <2>2 DEF Lock, Refused, DeadlockVictim, TokenFound, ReadContext, Die
    <3> QED BY <2>2, <3>1, AnswersTell DEF Telling
  <2> QED BY <2>1, <2>2
<1> QED BY <1>2, <1>5, <1>6 DEF Telling

\* Another request commits: its entries are not q's, and q's locks keep the
\* rows that q has found.
LEMMA ProgressKept ==
    ASSUME NEW q, NEW T, NEW U, NEW H, NEW J, Good(q, T), Progress(q, T, H),
           q.pc # "idle" => Mine(q, J) = Mine(q, H),
           \A i \in DOMAIN H : J[i] = H[i],
           \A b \in q.held : b.key \in Keys => U[b.key].id = T[b.key].id
    PROVE  Progress(q, U, J)
<1> SUFFICES ASSUME q.pc # "idle" PROVE Progress(q, U, J)
  BY DEF Progress
<1>1. /\ Covered(q, H) /\ Unwritten(q, H) /\ PlanDone(q) /\ Found(q, T) /\ SameRow(q, H)
  BY DEF Progress
<1>2. Mine(q, J) = Mine(q, H) /\ \A i \in Mine(q, H) : J[i] = H[i]
  BY DEF Mine
<1>3. Covered(q, J) /\ Unwritten(q, J)
  BY <1>1, <1>2 DEF Covered, Unwritten
<1>4. SameRow(q, J)
  BY <1>1, <1>2 DEF SameRow
<1>5. Found(q, U)
  <2>1. ASSUME q.pc = "lock", NEW W \in ToSet(Head(q.plan).wants), W.mode = "update",
               W \notin ToSet(q.todo)
        PROVE  U[W.key].id = W.id
    <3>1. T[W.key].id = W.id
      BY <2>1, <1>1 DEF Found
    <3>2. Dealt(q, T, W)
      BY <2>1 DEF Good, Carried
    <3>3. PICK b \in q.held : b.key = W.key
      BY <2>1, <3>2 DEF Dealt
    <3>4. q.plan \in Seq(Txs) /\ q.plan # <<>> /\ PlanFine(q)
      BY <2>1 DEF Good, Requests
    <3>5. TxFine(q, Head(q.plan))
      BY <3>4, Split DEF PlanFine
    <3>6. W.key \in Keys
      BY <2>1, <3>5 DEF TxFine, Fine
    <3> QED BY <3>1, <3>3, <3>6
  <2> QED BY <2>1, <1>1 DEF Found
<1> QED BY <1>1, <1>3, <1>4, <1>5 DEF Progress

\* What a commit wrote of what its request was asked for: the columns of its
\* transaction are in the log.
LEMMA NamesWritten ==
    ASSUME IInv, NEW p \in Handlers, Commit(p), NEW f \in req[p].asked,
           f \in Head(req[p].plan).names
    PROVE  \E i \in DOMAIN log' : log'[i].by = req[p].n /\ f \in log'[i].names
<1> DEFINE q == req[p]
<1>1. /\ q.plan # <<>> /\ q.plan \in Seq(Txs) /\ PlanFine(q) /\ Carried(q, table)
      /\ q.op # "cascade" /\ q.todo = <<>>
  BY Begun DEF Commit, Taking, At
<1>2. TxFine(q, Head(q.plan))
  BY <1>1, Split DEF PlanFine
<1>3. PICK W \in ToSet(Head(q.plan).wants) :
         W.mode \in {"upsert", "update"} /\ (W.key \in Users => q.op = "admin")
  BY <1>2 DEF TxFine
<1>4. W.key \in Keys
  BY <1>1, <1>2, <1>3 DEF TxFine, Fine
<1>5. Dealt(q, table, W)
  BY <1>1, Short DEF Carried
<1>6. PICK b \in q.held : b.key = W.key /\ b.mode # "share"
  BY <1>3, <1>5 DEF Dealt
<1>11. W.key # Session
  BY <1>4, KeyKinds
<1>7. W.key \in Written(p)
  BY <1>11, <1>6 DEF Written
<1>8. Columns(p, W.key) = Head(q.plan).names
  <2>1. ASSUME W.key[1] = "user" PROVE W.key \in Users
    <3>1. PICK w \in People : W.key = User(w) \/ W.key = Row(w) \/ W.key = Name(w)
      BY <1>4, KeyKinds
    <3>2. W.key = User(w)
      BY <2>1, <3>1, KeyKinds
    <3> QED BY <3>2, KeyKinds
  <2> QED BY <1>3, <2>1 DEF Columns
<1>9. PICK i \in DOMAIN log' : log'[i] = Change(p, W.key)
  BY <1>7, Appended
<1>10. log'[i].by = q.n /\ log'[i].names = Columns(p, W.key)
  BY <1>9 DEF Change
<1> QED BY <1>8, <1>10

\* The request that commits goes on as it should.
LEMMA CommitTells ==
    ASSUME IInv, NumbersFresh, NEW p \in Handlers, Commit(p), NEW y, Committed(p, y),
           Progress(req[p], table, log)
    PROVE  Progress(y, table', log')
<1> DEFINE q == req[p]
<1>1. CASE y = Idle
  BY <1>1, IdleTells
<1>2. CASE y # Idle
  <2>1. /\ y.n = q.n /\ y.op = q.op /\ y.plan = Tail(q.plan) /\ y.asked = q.asked
        /\ y.pc = IF y.plan = <<>> THEN "audit" ELSE "lock"
        /\ y.pc = "lock" => y.todo = Head(y.plan).wants
    BY <1>2 DEF Committed
  <2>2. /\ q.plan # <<>> /\ q.plan \in Seq(Txs) /\ PlanFine(q)
        /\ q.op # "cascade" /\ q.todo = <<>> /\ q.pc = "lock" /\ Taking(p)
    BY Begun DEF Commit, Taking, At
  <2>3. PICK J : J = log'
    OBVIOUS
  <2>4. PICK U : U = table'
    OBVIOUS
  <2>5. /\ \A k \in Keys : U[k].id = IF k \in Written(p) /\ table[k].id = 0
                                     THEN q.n ELSE table[k].id
        /\ \A i \in DOMAIN J :
              \/ i \in DOMAIN log /\ J[i] = log[i]
              \/ /\ i \notin DOMAIN log /\ J[i].key \in Written(p) /\ J[i].key \in Keys
                 /\ J[i].id = U[J[i].key].id /\ J[i].by = q.n
                 /\ J[i].names = Columns(p, J[i].key)
    BY <2>3, <2>4, Effect
  <2>6. \A i \in DOMAIN log : i \in DOMAIN J /\ J[i] = log[i]
    BY <2>3, Appended
  <2>7. /\ Covered(q, log) /\ Unwritten(q, log) /\ PlanDone(q) /\ Found(q, table)
        /\ SameRow(q, log)
    BY <2>2 DEF Progress
  <2>8. Covered(y, J)
    <3>1. ASSUME NEW f \in q.asked, \A t \in ToSet(y.plan) : f \notin t.names
          PROVE  \E i \in DOMAIN J : J[i].by = q.n /\ f \in J[i].names
      <4>1. CASE \E i \in Mine(q, log) : f \in log[i].names
        BY <4>1, <2>6 DEF Mine
      <4>2. CASE \E t \in ToSet(q.plan) : f \in t.names
        <5>1. f \in Head(q.plan).names
          BY <4>2, <3>1, <2>1, <2>2, Split
        <5> QED BY <5>1, <2>3, NamesWritten
      <4> QED BY <4>1, <4>2, <2>7 DEF Covered
    <3> QED BY <3>1, <2>1 DEF Covered, Mine
  <2>9. Unwritten(y, J)
    BY <2>1, <2>2 DEF Unwritten
  <2>10. PlanDone(y)
    <3>1. ASSUME q.op = "admin" PROVE \A j \in DOMAIN y.plan : j = 1
      <4>1. \A j \in DOMAIN q.plan : j = 1
        BY <2>7, <3>1 DEF PlanDone
      <4>2. Tail(q.plan) \in Seq(Txs) /\ \A j \in DOMAIN Tail(q.plan) : j + 1 \in DOMAIN q.plan
        BY <2>2, Split
      <4>3. \A j \in DOMAIN Tail(q.plan) : j \in Nat /\ j >= 1
        BY <4>2, LenProperties
      <4>4. DOMAIN Tail(q.plan) = {}
        BY <4>1, <4>2, <4>3
      <4> QED BY <4>4, <2>1
    <3> QED BY <3>1, <2>1, <2>2 DEF PlanDone
  <2>11. Found(y, U)
    BY <2>1 DEF Found
  <2>12. SameRow(y, J)
    <3>1. ASSUME NEW i \in DOMAIN J, J[i].by = q.n, J[i].names # {}, NEW t \in ToSet(y.plan)
          PROVE  /\ ~t.bad
                 /\ \A W \in ToSet(t.wants) :
                       W.mode = "update" /\ W.key = J[i].key /\ W.id = J[i].id
      <4>1. t \in ToSet(Tail(q.plan)) /\ t \in ToSet(q.plan)
        BY <3>1, <2>1, <2>2, Split
      <4>2. CASE i \in DOMAIN log
        BY <4>1, <4>2, <3>1, <2>6, <2>7 DEF SameRow, Mine
      <4>3. CASE i \notin DOMAIN log
        <5>1. /\ J[i].key \in Written(p) /\ J[i].key \in Keys
              /\ J[i].id = U[J[i].key].id /\ J[i].names = Columns(p, J[i].key)
          BY <4>3, <2>5
        <5>2. Head(q.plan).names # {}
          BY <5>1, <3>1 DEF Columns
        <5>3. /\ ~t.bad
              /\ \A V \in ToSet(Head(q.plan).wants), W \in ToSet(t.wants) :
                    W = V /\ W.mode = "update"
          <6>1. PICK s \in Seq(Txs) : s = q.plan
            BY <2>2
          <6>2. /\ 1 \in DOMAIN s /\ Head(s) = s[1] /\ DOMAIN Tail(s) \subseteq Nat \ {0}
                /\ DOMAIN s \subseteq Nat
                /\ \A j \in DOMAIN Tail(s) : j + 1 \in DOMAIN s /\ Tail(s)[j] = s[j + 1]
            BY <6>1, <2>2, Split, LenProperties
          <6>3. PICK j \in DOMAIN Tail(s) : Tail(s)[j] = t
            BY <4>1, <6>1 DEF ToSet
          <6>4. PICK l \in DOMAIN s : l = j + 1 /\ s[l] = t
            BY <6>2, <6>3
          <6>5. 1 < l
            BY <6>2, <6>3, <6>4
          <6>6. PICK x : x = req[p] /\ x.plan = s /\ PlanFine(x)
            BY <6>1, <2>2
          <6>7. PICK m \in DOMAIN s : m = 1 /\ m < l
            BY <6>2, <6>5
          <6>8. s[l].bad => s[m].names = {}
            BY <6>6, <6>7 DEF PlanFine
          <6>9. ASSUME NEW V \in ToSet(s[m].wants), NEW W \in ToSet(s[l].wants),
                       s[m].names # {}
                PROVE  V = W /\ V.mode = "update"
            BY <6>6, <6>7, <6>9 DEF PlanFine
          <6> QED BY <6>1, <6>2, <6>4, <6>7, <6>8, <6>9, <5>2
        <5>4. PICK V \in ToSet(Head(q.plan).wants) : V.key = J[i].key
          <6>1. PICK b \in q.held : b.key = J[i].key /\ b.mode # "share"
            BY <5>1 DEF Written
          <6>2. Sourced(q)
            BY Begun, <2>2 DEF At
          <6>3. Wanted(q, b)
            BY <6>1, <6>2, <2>2 DEF Sourced
          <6> QED BY <6>1, <6>3 DEF Wanted
        <5>5. ASSUME NEW W \in ToSet(t.wants)
              PROVE  W.mode = "update" /\ W.key = J[i].key /\ W.id = J[i].id
          <6>1. W = V /\ W.mode = "update"
            BY <5>3, <5>4
          <6>2. table[W.key].id = W.id
            BY <6>1, <2>2, <2>7, Short DEF Found
          <6>3. TxFine(q, Head(q.plan))
            BY <2>2, Split DEF PlanFine
          <6>4. W.id # 0
            BY <6>1, <6>3, <2>2 DEF TxFine, Fine
          <6> QED BY <6>1, <6>2, <6>4, <5>1, <5>4, <2>5
        <5> QED BY <5>3, <5>5
      <4> QED BY <4>2, <4>3
    <3> QED BY <3>1, <2>1 DEF SameRow, Mine
  <2> QED BY <2>3, <2>4, <2>8, <2>9, <2>10, <2>11, <2>12 DEF Progress
<1> QED BY <1>1, <1>2

\* The cascade takes no row that another request has locked.
LEMMA CascadeSpares ==
    ASSUME IInv, NEW p \in Handlers, CommitCascade(p)
    PROVE  /\ \A k \in Keys : table'[k].id \in {table[k].id, 0}
           /\ \A h \in Handlers \ {p} : \A b \in req[h].held :
                 b.key \in Keys => table'[b.key].id = table[b.key].id
<1>1. /\ Taking(p) /\ req[p].op = "cascade"
      /\ table' = [k \in Keys |-> IF k \in Written(p) THEN Absent ELSE table[k]]
  BY DEF CommitCascade
<1>2. \A k \in Keys : table'[k].id \in {table[k].id, 0}
  BY <1>1, NumberKinds
<1>3. ASSUME NEW h \in Handlers \ {p}, NEW b \in req[h].held, b.key \in Keys
      PROVE  table'[b.key].id = table[b.key].id
  <2>1. ASSUME NEW a \in req[p].held, a.mode = "excl" PROVE a.key # b.key
    BY <2>1, <1>3 DEF IInv, Exclusive, Conflict
  <2>2. Sourced(req[p])
    BY <1>1, Begun DEF Taking
  <2>3. \A a \in req[p].held : a.mode = "excl"
    BY <1>1, <2>2 DEF Sourced
  <2>4. b.key \notin Written(p)
    BY <2>1, <2>3 DEF Written
  <2> QED BY <2>4, <1>1, <1>3
<1> QED BY <1>2, <1>3

\* An answer that was true stays true while others commit: they write other
\* entries, and make no row anew under an old number.
LEMMA ToldKept ==
    ASSUME NEW a, NEW T, NEW U, NEW H, NEW J, NEW D, NEW E, Told(a, T, H, D), D \subseteq E,
           \A i \in DOMAIN H : /\ i \in DOMAIN J /\ J[i] = H[i]
                               /\ H[i].key \in Keys /\ H[i].id # 0,
           \A i \in DOMAIN J : J[i].by = a.by => i \in DOMAIN H,
           \A k \in Keys : \/ U[k].id \in {T[k].id, 0}
                           \/ \A i \in DOMAIN H : H[i].key = k => H[i].id # U[k].id
    PROVE  Told(a, U, J, E)
<1>1. PICK mine : mine = {i \in DOMAIN H : H[i].by = a.by}
  OBVIOUS
<1>2. mine = {i \in DOMAIN J : J[i].by = a.by}
  BY <1>1
<1>3. \A i \in mine : i \in DOMAIN H /\ J[i] = H[i]
  BY <1>1
<1>4. a.ok => a.by \in E /\ \A f \in a.asked : \E i \in mine : f \in J[i].names
  BY <1>1, <1>3 DEF Told
<1>5. ASSUME ~a.ok, NEW i \in mine, J[i].names # {}
      PROVE  U[J[i].key].id # J[i].id
  <2>1. T[H[i].key].id # H[i].id
    BY <1>1, <1>3, <1>5 DEF Told
  <2> QED BY <2>1, <1>3
<1> QED BY <1>2, <1>4, <1>5 DEF Told

\* A commit.
LEMMA CommitsTell ==
    ASSUME IInv, NumbersFresh, Telling, NEW p \in Handlers, Commit(p) \/ CommitCascade(p)
    PROVE  Telling'
<1> DEFINE q == req[p]
<1>1. PICK U : U = table'
  OBVIOUS
<1>2. PICK J : J = log'
  OBVIOUS
<1>3. PICK E : E = audit'
  OBVIOUS
<1>4. \A i \in DOMAIN log : /\ log[i].key \in Keys /\ log[i].id # 0 /\ log[i].id \in Nat
  BY NumberTypes
<1>5. /\ q.pc # "idle" /\ audit \subseteq E
      /\ \A i \in DOMAIN log : i \in DOMAIN J /\ J[i] = log[i]
      /\ \A i \in DOMAIN J : i \in DOMAIN log \/ J[i].by = q.n
      /\ \A k \in Keys : \/ U[k].id \in {table[k].id, 0}
                         \/ \A i \in DOMAIN log : log[i].key = k => log[i].id # U[k].id
      /\ \A h \in Handlers \ {p} : \A b \in req[h].held :
            b.key \in Keys => U[b.key].id = table[b.key].id
  <2>1. CASE CommitCascade(p)
    <3>1. q.pc # "idle" /\ audit \subseteq E /\ J = log
      BY <2>1, <1>2, <1>3 DEF CommitCascade, Taking, At
    <3> QED BY <2>1, <3>1, <1>1, CascadeSpares
  <2>2. CASE Commit(p)
    <3>1. Taking(p) /\ q.todo = <<>> /\ q.op # "cascade" /\ q.pc # "idle"
      BY <2>2 DEF Commit, Taking, At
    <3>2. audit \subseteq E
      <4>1. PICK y : Committed(p, y)
        BY <2>2, Commits
      <4> QED BY <4>1, <1>3 DEF Committed
    <3>3. /\ \A i \in DOMAIN log : i \in DOMAIN J /\ J[i] = log[i]
          /\ \A i \in DOMAIN J : i \in DOMAIN log \/ J[i].by = q.n
      <4>1. \A i \in DOMAIN log : i \in DOMAIN J /\ J[i] = log[i]
        BY <2>2, <1>2, Appended
      <4>2. \A i \in DOMAIN J : i \in DOMAIN log \/ J[i].by = q.n
        BY <2>2, <1>2, Effect
      <4> QED BY <4>1, <4>2
    <3>4. ASSUME NEW k \in Keys, U[k].id # table[k].id
          PROVE  \A i \in DOMAIN log : log[i].key = k => log[i].id # U[k].id
      <4>1. k \in Written(p) /\ U[k].id = q.n
        BY <2>2, <3>4, <1>1, Effect
      <4>2. \E t \in ToSet(q.plan) : \E W \in ToSet(t.wants) : W.key = k
        BY <3>1, <4>1, WrittenWanted
      <4> QED BY <4>1, <4>2, <3>1, <3>4 DEF NumbersFresh, Unmade
    <3>5. \A h \in Handlers \ {p} : \A b \in req[h].held :
             b.key \in Keys => U[b.key].id = table[b.key].id
      <4>1. table' = [k \in Keys |-> IF k \in Written(p) THEN NewRow(p, k) ELSE table[k]]
        BY <2>2 DEF Commit
      <4> QED BY <3>1, <4>1, <1>1, Wrote
    <3> QED BY <3>1, <3>2, <3>3, <3>4, <3>5
  <2> QED BY <2>1, <2>2
<1>6. PICK y : /\ req' = [req EXCEPT ![p] = y]
               /\ Progress(y, U, J)
  <2>1. CASE CommitCascade(p)
    BY <2>1, IdleTells DEF CommitCascade, Finish
  <2>2. CASE Commit(p)
    <3>1. PICK y : Committed(p, y)
      BY <2>2, Commits
    <3>2. Progress(y, U, J)
      BY <2>2, <3>1, <1>1, <1>2, CommitTells DEF Telling
    <3> QED BY <3>1, <3>2 DEF Committed
  <2> QED BY <2>1, <2>2
<1>7. req'[p] = y /\ \A h \in Handlers : h # p => req'[h] = req[h]
  BY <1>6 DEF IInv, Locking
<1>8. ASSUME NEW h \in Handlers, h # p PROVE Progress(req[h], U, J)
  <2>1. PICK x : x = req[h]
    OBVIOUS
  <2>2. Good(x, table) /\ Progress(x, table, log)
    BY <2>1, Begun DEF Telling
  <2>3. x.n # q.n
    BY <2>1, <1>5, <1>8 DEF NumbersFresh, Numbered
  <2>4. Mine(x, J) = Mine(x, log)
    BY <2>3, <1>5 DEF Mine
  <2>5. \A b \in x.held : b.key \in Keys => U[b.key].id = table[b.key].id
    BY <2>1, <1>5, <1>8
  <2>6. \A i \in DOMAIN log : J[i] = log[i]
    BY <1>5
  <2>7. Progress(x, U, J)
    BY <2>2, <2>4, <2>5, <2>6, ProgressKept
  <2> QED BY <2>1, <2>7
<1>9. ASSUME NEW a \in answers' PROVE Told(a, U, J, E)
  <2>1. CASE a \in answers
    <3>1. a.by # q.n
      BY <2>1, <1>5 DEF NumbersFresh, Numbered
    <3>2. Told(a, table, log, audit)
      BY <2>1 DEF Telling
    <3>3. \A i \in DOMAIN J : J[i].by = a.by => i \in DOMAIN log
      BY <3>1, <1>5
    <3>4. /\ audit \subseteq E
          /\ \A i \in DOMAIN log : /\ i \in DOMAIN J /\ J[i] = log[i]
                                   /\ log[i].key \in Keys /\ log[i].id # 0
          /\ \A k \in Keys : \/ U[k].id \in {table[k].id, 0}
                             \/ \A i \in DOMAIN log : log[i].key = k => log[i].id # U[k].id
      BY <1>4, <1>5
    <3> QED BY <3>2, <3>3, <3>4, ToldKept
  <2>2. CASE a \notin answers
    <3>1. a.by = q.n /\ a.asked = q.asked /\ a.ok = TRUE /\ a.by \in E
      <4>1. CASE CommitCascade(p)
        <5>1. a = [by |-> q.n, ok |-> TRUE, asked |-> q.asked] /\ q.n \in E
          BY <4>1, <1>3, <1>9, <2>2 DEF CommitCascade, Answer
        <5> QED BY <5>1
      <4>2. CASE Commit(p)
        <5>1. PICK x : Committed(p, x)
          BY <4>2, Commits
        <5>2. a = [by |-> q.n, ok |-> TRUE, asked |-> q.asked] /\ q.n \in E
          BY <5>1, <1>3, <1>9, <2>2 DEF Committed
        <5> QED BY <5>2
      <4> QED BY <4>1, <4>2
    <3>2. /\ Covered(q, log) /\ PlanDone(q)
      BY <1>5 DEF Telling, Progress
    <3>3. ASSUME NEW f \in q.asked
          PROVE  \E i \in DOMAIN J : J[i].by = q.n /\ f \in J[i].names
      <4>1. Commit(p)
        BY <3>2, <3>3 DEF PlanDone, CommitCascade
      <4>2. CASE \E i \in Mine(q, log) : f \in log[i].names
        BY <4>2, <1>5 DEF Mine
      <4>3. CASE \E t \in ToSet(q.plan) : f \in t.names
        <5>1. PICK t \in ToSet(q.plan) : f \in t.names
          BY <4>3
        <5>2. q.op = "admin"
          <6>1. PICK x : Committed(p, x)
            BY <4>1, Commits
          <6> QED BY <6>1, <1>9, <2>2 DEF Committed
        <5>3. \A j \in DOMAIN q.plan : j = 1
          BY <3>2, <5>2 DEF PlanDone
        <5>4. q.plan # <<>> /\ q.plan \in Seq(Txs)
          BY <4>1, Begun DEF Commit, Taking, At
        <5>5. t = Head(q.plan)
          BY <5>1, <5>3, <5>4, Split DEF ToSet
        <5> QED BY <4>1, <5>1, <5>5, <1>2, NamesWritten
      <4> QED BY <4>2, <4>3, <3>2 DEF Covered
    <3> QED BY <3>1, <3>3 DEF Told
  <2> QED BY <2>1, <2>2
<1> QED BY <1>1, <1>2, <1>3, <1>7, <1>6, <1>8, <1>9 DEF Telling

LEMMA TellStep == ASSUME IInv, NumbersFresh, Telling, [Next]_vars PROVE Telling'
<1>1. CASE UNCHANGED <<table, req, log, audit, answers>>
  BY <1>1 DEF Telling
<1>2. ASSUME NEW p \in Handlers, Begins(p) PROVE Telling'
  <2>1. IInv'
    BY Inductive
  <2> QED BY <2>1, <1>2, Arrivals, ArrivalTells
<1>3. ASSUME NEW p \in Handlers, Step(p) \/ Die(p) PROVE Telling'
  BY <1>3, CommitsTell, QuietTells DEF Step
<1>4. ASSUME NEW t \in tokens, Expire(t) PROVE UNCHANGED <<table, req, log, audit, answers>>
  BY <1>4 DEF Expire
<1> QED BY <1>1, <1>2, <1>3, <1>4 DEF Next, Begins, Quiescent, vars

\* An answer tells what was done.  After a 200 every column that the client
\* named was written, and the audit row is there.  After a 4xx, which may come
\* between the two statements of patch_consent and public_patch_consent, no
\* column was written of a row that still exists: the second statement updates
\* the row of the first, so it can only be missing if that row is gone, and
\* bad input is refused before either (routes/consent.rs, routes/users.rs).
THEOREM AnswersTellEffects == Spec => []AnswerTellsEffect
<1>1. Telling => AnswerTellsEffect
  BY DEF Telling, Told, AnswerTellsEffect
<1> QED BY <1>1, Initially, Inductive, NumbersInit, NumbersStep, TellInit, TellStep, PTL
        DEF Spec

-----------------------------------------------------------------------------
(* How far a transaction has got with its locks, if it is not a batch. *)

\* The display name is new, and its user still to be locked.
DisplayStage(q) ==
    /\ q.op = "display"
    /\ \E w \in People :
          q.held = {LockOf(Name(w), "excl")} /\ q.todo = <<Want(User(w), "share")>>

\* The user is locked, then the participant; a new one refers to both the
\* session and the user.
AddStage(q) ==
    /\ q.op = "add"
    /\ \E w \in People :
          \/ /\ q.held = {LockOf(User(w), "excl")}
             /\ q.todo = <<Want(Row(w), "upsert")>>
          \/ /\ q.held = {LockOf(User(w), "excl"), LockOf(Row(w), "excl")}
             /\ q.todo = <<Want(Session, "share"), Want(User(w), "share")>>
          \/ /\ q.held = {LockOf(User(w), "excl"), LockOf(Row(w), "excl"),
                          LockOf(Session, "share")}
             /\ q.todo = <<Want(User(w), "share")>>

TokenStage(q) ==
    /\ q.op = "token"
    /\ \E w \in People :
          /\ q.who = Row(w)
          /\ \/ /\ q.held = {LockOf(Session, "share")}
                /\ q.todo = <<[key |-> Row(w), mode |-> "share", id |-> q.id],
                              Want(User(w), "share")>>
             \/ /\ q.held = {LockOf(Session, "share"), LockOf(Row(w), "share")}
                /\ q.todo = <<Want(User(w), "share")>>

\* The session is locked; the participants that wait are there.
CascadeStage(q, T) ==
    /\ q.op = "cascade"
    /\ LockOf(Session, "excl") \in q.held
    /\ \A W \in ToSet(q.todo) :
          W.mode = "excl" /\ W.key \in Parts /\ W.id = 0 /\ T[W.key].id # 0

Stage(q, T) ==
    \/ q.op = "batch"
    \/ q.held = {} /\ q.todo = Head(q.plan).wants
    \/ q.todo = <<>> /\ q.op # "cascade"
    \/ DisplayStage(q) \/ AddStage(q) \/ TokenStage(q) \/ CascadeStage(q, T)

Staged(q, T) ==
    q.pc # "idle" =>
        /\ \A t \in ToSet(q.plan) : Shape(q, t)
        /\ q.pc = "lock" => Stage(q, T)

StagesHold == \A p \in Handlers : Staged(req[p], table)

\* Short lists of locks that are worked off.
LEMMA Turns ==
    \A A, B, C :
        /\ Head(<<A>>) = A /\ Head(<<A, B>>) = A /\ Head(<<A, B, C>>) = A
        /\ Tail(<<A>>) \o <<>> = <<>> /\ Tail(<<A, B>>) \o <<>> = <<B>>
        /\ Tail(<<A, B, C>>) \o <<>> = <<B, C>>
        /\ Tail(<<A>>) \o <<B>> = <<B>> /\ Tail(<<A>>) \o <<B, C>> = <<B, C>>
OBVIOUS

\* What is locked for something wanted.
LEMMA GrantOne ==
    ASSUME NEW W, ~Gone(W)
    PROVE  /\ W.mode \in {"share", "update", "excl"} => Grant(W) = {LockOf(W.key, W.mode)}
           /\ W.mode = "upsert" =>
                 Grant(W) = {LockOf(W.key, IF Present(W.key) THEN "update" ELSE "excl")}
BY DEF Grant, LockOf

\* A lock that brings no others.
LEMMA NothingLater ==
    ASSUME NEW p, NEW more \in Later(p),
           Next1(p).mode = "upsert" => Present(Next1(p).key) \/ Next1(p).key[1] = "user",
           req[p].op # "cascade" \/ Next1(p).key # Session
    PROVE  more = <<>>
BY DEF Later

\* A request that is no cascade takes its next lock.
LEMMA LockStages ==
    ASSUME IInv, NEW p \in Handlers, Lock(p), Staged(req[p], table)
    PROVE  Staged(req'[p], table)
<1> DEFINE q == req[p]
<1>1. /\ Waits(p) /\ ~Missing(p) /\ q.pc = "lock" /\ q.todo # <<>>
  BY DEF Lock, Waits, Taking, At
<1>2. PICK more \in Later(p) : req' = [req EXCEPT ![p].todo = Tail(@) \o more,
                                                 ![p].held = @ \cup Grant(Next1(p))]
  BY DEF Lock
<1>3. PICK W : W = Next1(p)
  OBVIOUS
<1>4. /\ W = Head(q.todo) /\ ~Gone(W)
  BY <1>1, <1>3 DEF Next1, Missing
<1>5. PICK y : y = [q EXCEPT !.todo = Tail(q.todo) \o more, !.held = q.held \cup Grant(W)]
  OBVIOUS
<1>6. q \in Requests /\ q.plan \in Seq(Txs) /\ q.plan # <<>>
  BY <1>1, Begun DEF Waits, Taking
<1>7. req'[p] = y
  BY <1>2, <1>3, <1>5 DEF IInv, Locking
<1>8. /\ y.pc = q.pc /\ y.op = q.op /\ y.plan = q.plan /\ y.who = q.who /\ y.id = q.id
      /\ y.todo = Tail(q.todo) \o more /\ y.held = q.held \cup Grant(W)
  BY <1>5, <1>6 DEF Requests
<1>9. \A t \in ToSet(y.plan) : Shape(y, t)
  BY <1>1, <1>8 DEF Staged, Shape
<1>10. Shape(q, Head(q.plan)) /\ Stage(q, table)
  <2>1. Head(q.plan) \in ToSet(q.plan)
    BY <1>6, Split
  <2> QED BY <2>1, <1>1 DEF Staged
<1> SUFFICES Stage(y, table)
  BY <1>7, <1>9 DEF Staged
<1>11. (W.mode = "upsert" => Present(W.key) \/ W.key[1] = "user")
       /\ (q.op # "cascade" \/ W.key # Session) => more = <<>>
  BY <1>3, NothingLater
<1>12. /\ W.mode \in {"share", "update", "excl"} => Grant(W) = {LockOf(W.key, W.mode)}
       /\ W.mode = "upsert" =>
             Grant(W) = {LockOf(W.key, IF Present(W.key) THEN "update" ELSE "excl")}
  BY <1>4, GrantOne
<1>13. \A k, m : Want(k, m).key = k /\ Want(k, m).mode = m /\ Want(k, m).id = 0
  BY DEF Want
<1>14. CASE q.op = "batch"
  BY <1>14, <1>8 DEF Stage
<1>15. CASE q.op = "add"
  <2>1. PICK w \in People : Head(q.plan).wants = <<Own(w), Want(Row(w), "upsert")>>
    BY <1>10, <1>15 DEF Shape
  <2>2. CASE q.held = {} /\ q.todo = Head(q.plan).wants
    <3>1. W = Want(User(w), "excl")
      BY <2>1, <2>2, <1>4, Turns DEF Own
    <3>2. more = <<>> /\ Grant(W) = {LockOf(User(w), "excl")}
      BY <3>1, <1>11, <1>12, <1>13, <1>15
    <3>3. q.todo = <<Own(w), Want(Row(w), "upsert")>>
      BY <2>1, <2>2
    <3>4. y.todo = <<Want(Row(w), "upsert")>>
      BY <3>2, <3>3, <1>8, Turns
    <3>5. y.held = {LockOf(User(w), "excl")}
      BY <3>2, <2>2, <1>8
    <3> QED BY <3>4, <3>5, <1>8, <1>15 DEF Stage, AddStage
  <2>3. CASE AddStage(q)
    <3>1. PICK v \in People :
          \/ /\ q.held = {LockOf(User(v), "excl")}
             /\ q.todo = <<Want(Row(v), "upsert")>>
          \/ /\ q.held = {LockOf(User(v), "excl"), LockOf(Row(v), "excl")}
             /\ q.todo = <<Want(Session, "share"), Want(User(v), "share")>>
          \/ /\ q.held = {LockOf(User(v), "excl"), LockOf(Row(v), "excl"),
                          LockOf(Session, "share")}
             /\ q.todo = <<Want(User(v), "share")>>
      BY <2>3 DEF AddStage
    <3>2. CASE /\ q.held = {LockOf(User(v), "excl")}
               /\ q.todo = <<Want(Row(v), "upsert")>>
      <4>1. W = Want(Row(v), "upsert") /\ W.key = Row(v) /\ W.mode = "upsert"
        BY <3>2, <1>4, <1>13, Turns
      <4>2. CASE Present(Row(v))
        <5>1. more = <<>>
          BY <4>1, <4>2, <1>11, <1>15
        <5>2. y.todo = <<>>
          BY <5>1, <3>2, <1>8, Turns
        <5> QED BY <5>2, <1>8, <1>15 DEF Stage
      <4>3. CASE ~Present(Row(v))
        <5>1. Row(v)[1] = "row" /\ Row(v)[2] = v
          BY KeyKinds
        <5>2. more = <<Want(Session, "share"), Want(User(v), "share")>>
          <6>1. /\ Next1(p).mode = "upsert" /\ ~Present(Next1(p).key)
                /\ Next1(p).key[1] = "row" /\ Next1(p).key[2] = v
            BY <5>1, <4>1, <4>3, <1>3
          <6>2. Later(p) = {<<Want(Session, "share"), Want(User(v), "share")>>}
            BY <6>1, <1>15 DEF Later
          <6> QED BY <6>2
        <5>3. Grant(W) = {LockOf(Row(v), "excl")}
          BY <4>1, <4>3, <1>12
        <5>4. y.todo = <<Want(Session, "share"), Want(User(v), "share")>>
          BY <5>2, <3>2, <1>8, Turns
        <5>5. y.held = {LockOf(User(v), "excl"), LockOf(Row(v), "excl")}
          BY <5>3, <3>2, <1>8
        <5> QED BY <5>4, <5>5, <1>8, <1>15 DEF Stage, AddStage
      <4> QED BY <4>2, <4>3
    <3>3. CASE /\ q.held = {LockOf(User(v), "excl"), LockOf(Row(v), "excl")}
               /\ q.todo = <<Want(Session, "share"), Want(User(v), "share")>>
      <4>1. W = Want(Session, "share") /\ W.key = Session /\ W.mode = "share"
        BY <3>3, <1>4, <1>13, Turns
      <4>2. more = <<>> /\ Grant(W) = {LockOf(Session, "share")}
        BY <4>1, <1>11, <1>12, <1>15
      <4>3. y.todo = <<Want(User(v), "share")>>
        BY <4>2, <3>3, <1>8, Turns
      <4>4. y.held = {LockOf(User(v), "excl"), LockOf(Row(v), "excl"), LockOf(Session, "share")}
        BY <4>2, <3>3, <1>8
      <4> QED BY <4>3, <4>4, <1>8, <1>15 DEF Stage, AddStage
    <3>4. CASE q.todo = <<Want(User(v), "share")>>
      <4>1. W = Want(User(v), "share") /\ W.mode = "share"
        BY <3>4, <1>4, <1>13, Turns
      <4>2. more = <<>>
        BY <4>1, <1>11, <1>15
      <4>3. y.todo = <<>>
        BY <4>2, <3>4, <1>8, Turns
      <4> QED BY <4>3, <1>8, <1>15 DEF Stage
    <3> QED BY <3>1, <3>2, <3>3, <3>4
  <2> QED
    BY <2>2, <2>3, <1>1, <1>10, <1>15 DEF Stage, DisplayStage, TokenStage, CascadeStage
<1>16. CASE q.op = "token"
  <2>1. PICK w \in People :
           /\ q.who = Row(w)
           /\ Head(q.plan).wants = <<Want(Session, "share"),
                 [key |-> Row(w), mode |-> "share", id |-> q.id], Want(User(w), "share")>>
    BY <1>10, <1>16 DEF Shape
  <2>2. CASE q.held = {} /\ q.todo = Head(q.plan).wants
    <3>1. W = Want(Session, "share")
      BY <2>1, <2>2, <1>4, Turns
    <3>2. more = <<>> /\ Grant(W) = {LockOf(Session, "share")}
      BY <3>1, <1>11, <1>12, <1>13, <1>16
    <3>3. PICK A : A = [key |-> Row(w), mode |-> "share", id |-> q.id]
      OBVIOUS
    <3>4. q.todo = <<Want(Session, "share"), A, Want(User(w), "share")>>
      BY <3>3, <2>1, <2>2
    <3>5. y.todo = <<A, Want(User(w), "share")>>
      BY <3>2, <3>4, <1>8, Turns
    <3>6. y.held = {LockOf(Session, "share")}
      BY <3>2, <2>2, <1>8
    <3> QED BY <3>3, <3>5, <3>6, <2>1, <1>8, <1>16 DEF Stage, TokenStage
  <2>3. CASE TokenStage(q)
    <3>1. PICK v \in People :
          /\ q.who = Row(v)
          /\ \/ /\ q.held = {LockOf(Session, "share")}
                /\ q.todo = <<[key |-> Row(v), mode |-> "share", id |-> q.id],
                              Want(User(v), "share")>>
             \/ /\ q.held = {LockOf(Session, "share"), LockOf(Row(v), "share")}
                /\ q.todo = <<Want(User(v), "share")>>
      BY <2>3 DEF TokenStage
    <3>2. CASE /\ q.held = {LockOf(Session, "share")}
               /\ q.todo = <<[key |-> Row(v), mode |-> "share", id |-> q.id],
                             Want(User(v), "share")>>
      <4>1. PICK A : A = [key |-> Row(v), mode |-> "share", id |-> q.id]
        OBVIOUS
      <4>2. q.todo = <<A, Want(User(v), "share")>>
        BY <3>2, <4>1
      <4>3. W = A
        BY <4>2, <1>4, Turns
      <4>4. W.key = Row(v) /\ W.mode = "share"
        BY <4>1, <4>3
      <4>5. more = <<>> /\ Grant(W) = {LockOf(Row(v), "share")}
        BY <4>4, <1>11, <1>12, <1>16
      <4>6. y.todo = <<Want(User(v), "share")>>
        BY <4>2, <4>5, <1>8, Turns
      <4>7. y.held = {LockOf(Session, "share"), LockOf(Row(v), "share")}
        BY <4>5, <3>2, <1>8
      <4> QED BY <4>6, <4>7, <3>1, <1>8, <1>16 DEF Stage, TokenStage
    <3>3. CASE q.todo = <<Want(User(v), "share")>>
      <4>1. W = Want(User(v), "share") /\ W.mode = "share"
        BY <3>3, <1>4, <1>13, Turns
      <4>2. more = <<>>
        BY <4>1, <1>11, <1>16
      <4>3. y.todo = <<>>
        BY <4>2, <3>3, <1>8, Turns
      <4> QED BY <4>3, <1>8, <1>16 DEF Stage
    <3> QED BY <3>1, <3>2, <3>3
  <2> QED
    BY <2>2, <2>3, <1>1, <1>10, <1>16 DEF Stage, DisplayStage, AddStage, CascadeStage
<1>17. CASE q.op = "cascade"
  <2>1. CASE q.held = {} /\ q.todo = Head(q.plan).wants
    <3>1. q.todo = <<Want(Session, "excl")>>
      BY <2>1, <1>10, <1>17 DEF Shape
    <3>2. W = Want(Session, "excl") /\ W.key = Session /\ W.mode = "excl"
      BY <3>1, <1>4, <1>13, Turns
    <3>3. Grant(W) = {LockOf(Session, "excl")}
      BY <3>2, <1>12
    <3>4. PICK P : P = {x \in People : Present(Row(x))}
      OBVIOUS
    <3>5. PICK S : S = {Row(w) : w \in P}
      OBVIOUS
    <3>6. PICK s \in SetToSeqs(S) : more = [i \in DOMAIN s |-> Want(s[i], "excl")]
      <4>1. Later(p) = {[i \in DOMAIN s |-> Want(s[i], "excl")] : s \in SetToSeqs(S)}
        BY <3>2, <3>4, <3>5, <1>3, <1>17 DEF Later
      <4> QED BY <4>1
    <3>7. IsFiniteSet(S)
      <4>1. IsFiniteSet(P)
        BY <3>4, FS_Subset, PeopleAssumption
      <4>2. PICK f : f = [x \in P |-> Row(x)]
        OBVIOUS
      <4>3. f \in Surjection(P, S)
        BY <3>5, <4>2 DEF Surjection
      <4> QED BY <4>1, <4>3, FS_Surjection
    <3>8. s \in Seq(S)
      BY <3>7, Ordered
    <3>9. Len(s) \in Nat /\ DOMAIN s = 1..Len(s) /\ \A i \in 1..Len(s) : s[i] \in S
      BY <3>8, LenProperties, ElementOfSeq
    <3>10. ASSUME NEW V \in ToSet(more)
           PROVE  V.mode = "excl" /\ V.key \in Parts /\ V.id = 0 /\ table[V.key].id # 0
      <4>1. PICK i \in DOMAIN s : V = Want(s[i], "excl")
        BY <3>6 DEF ToSet
      <4>2. PICK w \in P : s[i] = Row(w)
        BY <3>5, <3>9
      <4>3. w \in People /\ Present(Row(w))
        BY <3>4
      <4> QED BY <4>1, <4>2, <4>3, <1>13, KeyKinds DEF Present
    <3>11. y.todo = more
      <4>1. more \in Seq(Wants)
        BY <1>1, <1>2, Afterwards
      <4>2. Tail(q.todo) = <<>>
        BY <3>1
      <4> QED BY <4>1, <4>2, <1>8, ConcatEmptySeq
    <3> QED BY <3>3, <3>10, <3>11, <1>8, <1>17 DEF Stage, CascadeStage
  <2>2. CASE CascadeStage(q, table)
    <3>1. q.todo \in Seq(Wants)
      BY Begun
    <3>2. /\ W \in ToSet(q.todo) /\ ToSet(Tail(q.todo)) \subseteq ToSet(q.todo)
          /\ Tail(q.todo) \in Seq(Wants)
      BY <3>1, <1>1, <1>4, Split
    <3>3. W.key \in Parts /\ W.mode = "excl"
      BY <2>2, <3>2 DEF CascadeStage
    <3>4. W.key # Session
      BY <3>3, KeyKinds
    <3>5. more = <<>>
      BY <3>3, <3>4, <1>11
    <3>6. y.todo = Tail(q.todo)
      BY <3>2, <3>5, <1>8
    <3> QED BY <2>2, <3>2, <3>6, <1>8, <1>17 DEF Stage, CascadeStage
  <2> QED
    BY <2>1, <2>2, <1>1, <1>10, <1>17 DEF Stage, DisplayStage, AddStage, TokenStage
<1>18. CASE q.op \notin {"batch", "add", "token", "cascade"}
  <2>1. PICK V \in Wants :
           /\ Head(q.plan).wants = <<V>>
           /\ V.mode = "upsert" =>
                 V.key \in Users \/ (q.op = "display" /\ \E w \in People : V.key = Name(w))
    BY <1>10, <1>18 DEF Shape
  <2>2. CASE q.held = {} /\ q.todo = Head(q.plan).wants
    <3>1. W = V /\ q.todo = <<W>>
      BY <2>1, <2>2, <1>4, Turns
    <3>2. CASE more = <<>>
      <4>1. y.todo = <<>>
        BY <3>1, <3>2, <1>8, Turns
      <4> QED BY <4>1, <1>8, <1>18 DEF Stage
    <3>3. CASE more # <<>>
      <4>1. W.mode = "upsert" /\ ~Present(W.key) /\ W.key[1] # "user"
        BY <3>3, <1>11, <1>18
      <4>2. W.key \notin Users
        BY <4>1, KeyKinds
      <4>3. PICK w \in People : W.key = Name(w)
        BY <4>1, <4>2, <3>1, <2>1
      <4>4. q.op = "display"
        BY <4>1, <4>2, <3>1, <2>1
      <4>5. Name(w)[1] = "name" /\ Name(w)[2] = w
        BY KeyKinds
      <4>6. more = <<Want(User(w), "share")>>
        BY <4>1, <4>3, <4>5, <1>3, <1>18 DEF Later
      <4>7. y.todo = <<Want(User(w), "share")>>
        BY <4>6, <3>1, <1>8, Turns
      <4>8. Grant(W) = {LockOf(Name(w), "excl")}
        BY <4>1, <4>3, <1>12
      <4>9. y.held = {LockOf(Name(w), "excl")}
        BY <4>8, <2>2, <1>8
      <4> QED BY <4>4, <4>7, <4>9, <1>8 DEF Stage, DisplayStage
    <3> QED BY <3>2, <3>3
  <2>3. CASE DisplayStage(q)
    <3>1. PICK w \in People : q.todo = <<Want(User(w), "share")>>
      BY <2>3 DEF DisplayStage
    <3>2. W.mode = "share"
      BY <3>1, <1>4, <1>13, Turns
    <3>3. more = <<>>
      BY <3>2, <1>11, <1>18
    <3>4. y.todo = <<>>
      BY <3>1, <3>3, <1>8, Turns
    <3> QED BY <3>4, <1>8, <1>18 DEF Stage
  <2> QED
    BY <2>2, <2>3, <1>1, <1>10, <1>18 DEF Stage, AddStage, TokenStage, CascadeStage
<1> QED BY <1>14, <1>15, <1>16, <1>17, <1>18

LEMMA IdleStaged == \A T : Staged(Idle, T)
BY IdleType DEF Staged

\* The rows that another request's stage speaks of remain.
LEMMA StagesKept ==
    ASSUME NEW q, NEW T, NEW U, Staged(q, T),
           CascadeStage(q, T) => \A k \in Parts : T[k].id # 0 => U[k].id # 0
    PROVE  Staged(q, U)
BY DEF Staged, Stage, CascadeStage

\* A request before its next transaction.
LEMMA LoadStaged ==
    ASSUME NEW y, NEW T, \A t \in ToSet(y.plan) : Shape(y, t),
           y.pc = "lock" => y.held = {} /\ y.todo = Head(y.plan).wants
    PROVE  Staged(y, T)
BY DEF Staged, Stage

LEMMA StagesQuiet ==
    ASSUME IInv, StagesHold, NEW p \in Handlers,
           \/ Lock(p) \/ NotFound(p) \/ Refused(p) \/ DeadlockVictim(p) \/ BadInput(p)
           \/ TokenFound(p) \/ TokenUnknown(p) \/ ReadContext(p) \/ Audit(p) \/ Die(p)
    PROVE  StagesHold'
<1> DEFINE q == req[p]
<1>1. PICK y : Quiet(p, y)
  BY QuietSteps
<1>2. /\ req' = [req EXCEPT ![p] = y] /\ table' = table
      /\ req'[p] = y /\ \A h \in Handlers : h # p => req'[h] = req[h]
      /\ ~At(p, "idle")
  BY <1>1 DEF Quiet, IInv, Locking
<1>3. Staged(q, table) /\ q \in Requests
  BY Begun DEF StagesHold
<1>4. Staged(y, table)
  <2>1. CASE Lock(p)
    BY <2>1, <1>2, LockStages DEF StagesHold
  <2>2. CASE TokenFound(p)
    <3>1. y = [q EXCEPT !.pc = "context"]
      BY <2>2, <1>2 DEF TokenFound, IInv, Locking
    <3>2. y.pc = "context" /\ y.op = q.op /\ y.plan = q.plan /\ y.who = q.who /\ y.id = q.id
      BY <3>1, <1>3 DEF Requests
    <3>3. \A t : Shape(q, t) => Shape(y, t)
      BY <3>2 DEF Shape
    <3> QED BY <3>2, <3>3, <1>2, <1>3 DEF Staged, At
  <2>3. CASE ReadContext(p)
    <3>1. PICK r : r = Load(q)
      OBVIOUS
    <3>2. y \in {r, Idle}
      BY <2>3, <3>1, <1>2 DEF ReadContext, IInv, Locking
    <3>3. q.held = {}
      BY <2>3, Begun DEF ReadContext, At
    <3>4. /\ r.op = q.op /\ r.plan = q.plan /\ r.who = q.who /\ r.id = q.id /\ r.held = {}
          /\ r.pc = "lock" => r.todo = Head(r.plan).wants
      <4>1. CASE q.plan = <<>>
        <5>1. r = [q EXCEPT !.pc = "audit"]
          BY <3>1, <4>1 DEF Load
        <5> QED BY <5>1, <3>3, <1>3 DEF Requests
      <4>2. CASE q.plan # <<>>
        <5>1. PICK w : w = Head(q.plan).wants
          OBVIOUS
        <5>2. r = [q EXCEPT !.pc = "lock", !.todo = w]
          BY <3>1, <4>2, <5>1 DEF Load
        <5> QED BY <5>1, <5>2, <3>3, <1>3 DEF Requests
      <4> QED BY <4>1, <4>2
    <3>5. \A t : Shape(q, t) => Shape(r, t)
      BY <3>4 DEF Shape
    <3>6. \A t \in ToSet(r.plan) : Shape(r, t)
      BY <3>4, <3>5, <1>2, <1>3 DEF Staged, At
    <3>7. Staged(r, table)
      BY <3>4, <3>6, LoadStaged
    <3> QED BY <3>2, <3>7, IdleStaged
  <2>4. CASE ~(Lock(p) \/ TokenFound(p) \/ ReadContext(p))
    <3>1. Finish(p)
      BY <2>4 DEF NotFound, Refused, DeadlockVictim, BadInput, TokenUnknown, Audit, Die
    <3>2. y = Idle
      BY <3>1, <1>2 DEF Finish, IInv, Locking
    <3> QED BY <3>2, IdleStaged
  <2> QED BY <2>1, <2>2, <2>3, <2>4
<1>5. \A h \in Handlers : Staged(req'[h], table)
  BY <1>2, <1>4 DEF StagesHold
<1> QED BY <1>2, <1>5 DEF StagesHold

LEMMA StagesCommit ==
    ASSUME IInv, StagesHold, NEW p \in Handlers, Commit(p) \/ CommitCascade(p)
    PROVE  StagesHold'
<1> DEFINE q == req[p]
<1>1. PICK U : U = table'
  OBVIOUS
<1>2. Staged(q, table) /\ q \in Requests /\ q.pc = "lock" /\ q.plan # <<>>
      /\ q.plan \in Seq(Txs) /\ q.todo = <<>>
  BY Begun DEF StagesHold, Commit, CommitCascade, Taking, At
<1>3. PICK y : req' = [req EXCEPT ![p] = y] /\ Staged(y, U)
  <2>1. CASE CommitCascade(p)
    BY <2>1, IdleStaged DEF CommitCascade, Finish
  <2>2. CASE Commit(p)
    <3>1. PICK y : Committed(p, y)
      BY <2>2, Commits
    <3>2. CASE y = Idle
      BY <3>1, <3>2, IdleStaged DEF Committed
    <3>3. CASE y # Idle
      <4>1. /\ y.op = q.op /\ y.plan = Tail(q.plan) /\ y.who = q.who /\ y.id = q.id
            /\ y.pc = "lock" => y.held = {} /\ y.todo = Head(y.plan).wants
        BY <3>1, <3>3 DEF Committed
      <4>2. \A t : Shape(q, t) => Shape(y, t)
        BY <4>1 DEF Shape
      <4>3. ToSet(Tail(q.plan)) \subseteq ToSet(q.plan)
        BY <1>2, Split
      <4>4. \A t \in ToSet(y.plan) : Shape(y, t)
        BY <4>1, <4>2, <4>3, <1>2 DEF Staged
      <4>5. Staged(y, U)
        BY <4>1, <4>4, LoadStaged
      <4> QED BY <3>1, <4>5 DEF Committed
    <3> QED BY <3>2, <3>3
  <2> QED BY <2>1, <2>2
<1>4. req'[p] = y /\ \A h \in Handlers : h # p => req'[h] = req[h]
  BY <1>3 DEF IInv, Locking
<1>5. ASSUME NEW h \in Handlers, h # p PROVE Staged(req[h], U)
  <2>1. Staged(req[h], table)
    BY DEF StagesHold
  <2>2. CASE Commit(p)
    <3>1. \A k \in Keys : table[k].id # 0 => U[k].id # 0
      BY <2>2, <1>1, Effect
    <3>2. \A k \in Parts : table[k].id # 0 => U[k].id # 0
      BY <3>1, KeyKinds
    <3> QED BY <2>1, <3>2, StagesKept
  <2>3. CASE CommitCascade(p)
    <3>1. q.op = "cascade"
      BY <2>3 DEF CommitCascade
    <3>2. Stage(q, table) /\ Shape(q, Head(q.plan))
      BY <1>2, Split DEF Staged
    <3>3. Head(q.plan).wants = <<Want(Session, "excl")>>
      BY <3>1, <3>2 DEF Shape
    <3>4. q.todo # Head(q.plan).wants
      <4>1. \A x : <<x>> # <<>>
        OBVIOUS
      <4> QED BY <4>1, <3>3, <1>2
    <3>5. CascadeStage(q, table)
      BY <3>1, <3>2, <3>4 DEF Stage, DisplayStage, AddStage, TokenStage
    <3>6. LockOf(Session, "excl") \in q.held
      BY <3>5 DEF CascadeStage
    <3>7. ~CascadeStage(req[h], table)
      <4>1. SUFFICES ASSUME LockOf(Session, "excl") \in req[h].held PROVE FALSE
        BY DEF CascadeStage
      <4>2. PICK b : b = LockOf(Session, "excl")
        OBVIOUS
      <4>3. b \in q.held /\ b \in req[h].held /\ b.mode = "excl"
        BY <3>6, <4>1, <4>2 DEF LockOf
      <4> QED BY <4>3, <1>5 DEF IInv, Exclusive, Conflict
    <3> QED BY <2>1, <3>7, StagesKept
  <2> QED BY <2>2, <2>3
<1>6. \A h \in Handlers : Staged(req'[h], U)
  BY <1>3, <1>4, <1>5
<1> QED BY <1>1, <1>6 DEF StagesHold

LEMMA StagesStep == ASSUME IInv, StagesHold, [Next]_vars PROVE StagesHold'
<1>1. CASE UNCHANGED <<table, req>>
  BY <1>1 DEF StagesHold
<1>2. ASSUME NEW p \in Handlers, Begins(p) PROVE StagesHold'
  <2>1. IInv'
    BY Inductive
  <2>2. PICK y : Arrival(p, y)
    BY <2>1, <1>2, Arrivals
  <2>3. Fresh(y) /\ table' = table /\ req' = [req EXCEPT ![p] = y]
    BY <2>2 DEF Arrival
  <2>4. Staged(y, table)
    BY <2>3, LoadStaged DEF Fresh
  <2>5. req'[p] = y /\ \A h \in Handlers : h # p => req'[h] = req[h]
    BY <2>3 DEF IInv, Locking
  <2>6. \A h \in Handlers : Staged(req'[h], table)
    BY <2>4, <2>5 DEF StagesHold
  <2> QED BY <2>3, <2>6 DEF StagesHold
<1>3. ASSUME NEW p \in Handlers, Step(p) \/ Die(p) PROVE StagesHold'
  BY <1>3, StagesCommit, StagesQuiet DEF Step
<1>4. ASSUME NEW t \in tokens, Expire(t) PROVE UNCHANGED <<table, req>>
  BY <1>4 DEF Expire
<1> QED BY <1>1, <1>2, <1>3, <1>4 DEF Next, Begins, Quiescent, vars

LEMMA StagesInit == ASSUME Init PROVE StagesHold
<1>1. \A p \in Handlers : req[p] = Idle
  BY DEF Init
<1> QED BY <1>1, IdleStaged DEF StagesHold

\* Who waits for a lock while it holds others.
Between(q, T) ==
    /\ q.held # {}
    /\ DisplayStage(q) \/ AddStage(q) \/ TokenStage(q) \/ CascadeStage(q, T)

\* In a circle without a batch each waits for one of the others that is
\* between two locks.
LEMMA CircleHolds ==
    ASSUME IInv, StagesHold, NEW S \in SUBSET Handlers, Circle(S),
           \A x \in S : req[x].op # "batch", NEW h \in S
    PROVE  \E g \in S : /\ g # h /\ Between(req[g], table)
                        /\ \E a \in Grant(Next1(h)), b \in req[g].held : Conflict(a, b)
<1>1. PICK g \in S : g # h /\ \E a \in Grant(Next1(h)), b \in req[g].held : Conflict(a, b)
  BY DEF Circle, Blockers
<1>2. /\ Waits(g) /\ req[g].pc = "lock" /\ req[g].todo # <<>> /\ req[g].op # "batch"
      /\ req[g].held # {}
  BY <1>1 DEF Circle, Waits, Taking, At
<1>3. Stage(req[g], table)
  BY <1>2 DEF StagesHold, Staged
<1>4. Between(req[g], table)
  BY <1>2, <1>3 DEF Stage, Between
<1> QED BY <1>1, <1>4

\* What the waiting requests hold and want: an add holds its user, and is
\* about to lock the participant, the session or, having it, the user ...
LEMMA AddWaits ==
    ASSUME NEW h, AddStage(req[h])
    PROVE  \E w \in People :
              /\ LockOf(User(w), "excl") \in req[h].held
              /\ \A b \in req[h].held : b.mode = "share" => b.key = Session
              /\ \A b \in req[h].held :
                    b.mode # "share" => b.mode = "excl" /\ b.key \in {User(w), Row(w)}
              /\ Next1(h) \in {Want(Row(w), "upsert"), Want(Session, "share"),
                              Want(User(w), "share")}
<1>1. PICK w \in People :
          \/ /\ req[h].held = {LockOf(User(w), "excl")}
             /\ req[h].todo = <<Want(Row(w), "upsert")>>
          \/ /\ req[h].held = {LockOf(User(w), "excl"), LockOf(Row(w), "excl")}
             /\ req[h].todo = <<Want(Session, "share"), Want(User(w), "share")>>
          \/ /\ req[h].held = {LockOf(User(w), "excl"), LockOf(Row(w), "excl"),
                               LockOf(Session, "share")}
             /\ req[h].todo = <<Want(User(w), "share")>>
  BY DEF AddStage
<1>2. Next1(h) \in {Want(Row(w), "upsert"), Want(Session, "share"), Want(User(w), "share")}
  BY <1>1, Turns DEF Next1
<1>3. \A k, m : LockOf(k, m).key = k /\ LockOf(k, m).mode = m
  BY DEF LockOf
<1> QED BY <1>1, <1>2, <1>3

\* ... a token's request holds the session, and perhaps its participant, and
\* is about to lock that or its user ...
LEMMA TokenWaits ==
    ASSUME NEW h, TokenStage(req[h])
    PROVE  \E w \in People :
              /\ req[h].op = "token" /\ req[h].who = Row(w)
              /\ LockOf(Session, "share") \in req[h].held
              /\ \A b \in req[h].held : b.mode = "share" /\ b.key \in {Session, Row(w)}
              /\ Next1(h).mode = "share" /\ Next1(h).key \in {Row(w), User(w)}
<1>1. PICK w \in People :
          /\ req[h].op = "token" /\ req[h].who = Row(w)
          /\ \/ /\ req[h].held = {LockOf(Session, "share")}
                /\ req[h].todo = <<[key |-> Row(w), mode |-> "share", id |-> req[h].id],
                                   Want(User(w), "share")>>
             \/ /\ req[h].held = {LockOf(Session, "share"), LockOf(Row(w), "share")}
                /\ req[h].todo = <<Want(User(w), "share")>>
  BY DEF TokenStage
<1>2. PICK A : A = [key |-> Row(w), mode |-> "share", id |-> req[h].id]
  OBVIOUS
<1>3. PICK B : B = Want(User(w), "share")
  OBVIOUS
<1>4. req[h].todo = <<A, B>> \/ req[h].todo = <<B>>
  BY <1>1, <1>2, <1>3
<1>5. Next1(h) \in {A, B}
  BY <1>4, Turns DEF Next1
<1>6. A.key = Row(w) /\ A.mode = "share" /\ B.key = User(w) /\ B.mode = "share"
  BY <1>2, <1>3 DEF Want
<1>7. \A k, m : LockOf(k, m).key = k /\ LockOf(k, m).mode = m
  BY DEF LockOf
<1> QED BY <1>1, <1>5, <1>6, <1>7

\* ... a display name is locked before its user.
LEMMA DisplayWaits ==
    ASSUME NEW h, DisplayStage(req[h])
    PROVE  \E w \in People :
              /\ \A b \in req[h].held : b.mode = "excl" /\ b.key = Name(w)
              /\ Next1(h) = Want(User(w), "share")
<1>1. PICK w \in People :
         req[h].held = {LockOf(Name(w), "excl")} /\ req[h].todo = <<Want(User(w), "share")>>
  BY DEF DisplayStage
<1>2. Next1(h) = Want(User(w), "share")
  BY <1>1, Turns DEF Next1
<1>3. \A k, m : LockOf(k, m).key = k /\ LockOf(k, m).mode = m
  BY DEF LockOf
<1> QED BY <1>1, <1>2, <1>3

\* What is taken for something wanted has its key; share is taken as share.
LEMMA GrantKey ==
    ASSUME NEW W, NEW a \in Grant(W)
    PROVE  /\ a.key = W.key
           /\ W.mode = "share" => a.mode = "share"
           /\ W.mode = "upsert" /\ Present(W.key) => a.mode = "update"
BY DEF Grant

\* The cascade, once it has the session, waits for none of them: it has kept
\* tokens out, and locks participants that an add cannot be making.
LEMMA NoCascadeWaits ==
    ASSUME IInv, StagesHold, NEW S \in SUBSET Handlers, Circle(S),
           \A x \in S : req[x].op # "batch", NEW c \in S
    PROVE  ~CascadeStage(req[c], table)
<1> SUFFICES ASSUME CascadeStage(req[c], table) PROVE FALSE
  OBVIOUS
<1>1. PICK W : W = Next1(c)
  OBVIOUS
<1>2. W \in ToSet(req[c].todo)
  BY <1>1, Begun, Split DEF Circle, Waits, Next1
<1>3. W.key \in Parts /\ table[W.key].id # 0 /\ LockOf(Session, "excl") \in req[c].held
  BY <1>2 DEF CascadeStage
<1>4. PICK g \in S : /\ g # c /\ Between(req[g], table)
                     /\ \E a \in Grant(W), b \in req[g].held : Conflict(a, b)
  BY <1>1, CircleHolds
<1>5. PICK b \in req[g].held : b.key = W.key
  BY <1>4, GrantKey DEF Conflict
<1>6. PICK s : s = LockOf(Session, "excl")
  OBVIOUS
<1>7. s \in req[c].held /\ s.key = Session /\ s.mode = "excl"
  BY <1>3, <1>6 DEF LockOf
<1>8. \A x \in req[g].held : x.key # Session
  BY <1>4, <1>7 DEF IInv, Exclusive, Conflict
<1>9. \A k, m : LockOf(k, m).key = k
  BY DEF LockOf
<1>10. CASE DisplayStage(req[g])
  <2>1. PICK w \in People : b.key = Name(w)
    BY <1>10, DisplayWaits
  <2>2. Name(w) \notin Parts
    BY KeyKinds
  <2> QED BY <2>1, <2>2, <1>3, <1>5
<1>11. CASE AddStage(req[g])
  <2>1. PICK w \in People : /\ b.mode = "share" => b.key = Session
                            /\ b.mode # "share" => b.mode = "excl" /\ b.key \in {User(w), Row(w)}
    BY <1>11, AddWaits
  <2>2. b.mode = "excl"
    BY <2>1, <1>8
  <2>3. b.key \notin Users
    BY <1>3, <1>5, KeyKinds
  <2>4. req[g].op = "add" /\ req[g].pc = "lock"
    BY <1>4, <1>11 DEF AddStage, Circle, Waits, Taking, At
  <2>5. table[b.key].id = 0
    BY <2>2, <2>3, <2>4, Begun DEF At, Standing
  <2> QED BY <2>5, <1>3, <1>5
<1>12. CASE TokenStage(req[g])
  <2>1. LockOf(Session, "share") \in req[g].held
    BY <1>12, TokenWaits
  <2> QED BY <2>1, <1>8, <1>9
<1>13. CASE CascadeStage(req[g], table)
  <2>1. s \in req[g].held
    BY <1>6, <1>13 DEF CascadeStage
  <2> QED BY <2>1, <1>7, <1>8
<1> QED BY <1>4, <1>10, <1>11, <1>12, <1>13 DEF Between

\* An add waits for none of the others.
LEMMA NoAddWaits ==
    ASSUME IInv, StagesHold, NEW S \in SUBSET Handlers, Circle(S),
           \A x \in S : req[x].op # "batch", NEW h \in S
    PROVE  ~AddStage(req[h])
<1> SUFFICES ASSUME AddStage(req[h]) PROVE FALSE
  OBVIOUS
<1>1. PICK w \in People :
          /\ LockOf(User(w), "excl") \in req[h].held
          /\ Next1(h) \in {Want(Row(w), "upsert"), Want(Session, "share"),
                           Want(User(w), "share")}
  BY AddWaits
<1>2. PICK g \in S : /\ g # h /\ Between(req[g], table)
                     /\ \E a \in Grant(Next1(h)), b \in req[g].held : Conflict(a, b)
  BY CircleHolds
<1>3. PICK a \in Grant(Next1(h)), b \in req[g].held : Conflict(a, b)
  BY <1>2
<1>4. /\ a.key = Next1(h).key /\ b.key = Next1(h).key
      /\ Next1(h).mode = "share" => a.mode = "share"
      /\ Next1(h).mode = "upsert" /\ Present(Next1(h).key) => a.mode = "update"
  BY <1>3, GrantKey DEF Conflict
<1>5. PICK u : u = LockOf(User(w), "excl")
  OBVIOUS
<1>6. u \in req[h].held /\ u.key = User(w) /\ u.mode = "excl"
  BY <1>1, <1>5 DEF LockOf
<1>7. \A x \in req[g].held : x.key # User(w)
  BY <1>2, <1>6 DEF IInv, Exclusive, Conflict
<1>8. ~CascadeStage(req[g], table)
  BY <1>2, NoCascadeWaits
<1>9. \A k, m : Want(k, m).key = k /\ Want(k, m).mode = m
  BY DEF Want
<1>10. CASE Next1(h) = Want(User(w), "share")
  BY <1>4, <1>7, <1>9, <1>10
<1>11. CASE Next1(h) = Want(Session, "share")
  <2>1. b.key = Session /\ b.mode = "excl"
    BY <1>3, <1>4, <1>9, <1>11 DEF Conflict
  <2>2. \A v \in People : Session # User(v) /\ Session # Row(v) /\ Session # Name(v)
    BY DEF Session, User, Row, Name
  <2>3. ~DisplayStage(req[g]) /\ ~AddStage(req[g])
    BY <2>1, <2>2, DisplayWaits, AddWaits
  <2>4. ~TokenStage(req[g])
    BY <2>1, TokenWaits
  <2> QED BY <2>3, <2>4, <1>2, <1>8 DEF Between
<1>12. CASE Next1(h) = Want(Row(w), "upsert")
  <2>1. b.key = Row(w) /\ Next1(h).mode = "upsert" /\ Next1(h).key = Row(w)
    BY <1>4, <1>9, <1>12
  <2>2. ~DisplayStage(req[g])
    <3>1. \A v \in People : Row(w) # Name(v)
      BY KeyKinds
    <3> QED BY <2>1, <3>1, DisplayWaits
  <2>3. ASSUME AddStage(req[g]) PROVE FALSE
    <3>1. PICK v \in People :
             /\ LockOf(User(v), "excl") \in req[g].held
             /\ b.mode = "share" => b.key = Session
             /\ b.mode # "share" => b.key \in {User(v), Row(v)}
      BY <2>3, AddWaits
    <3>2. Row(w) # Session /\ Row(w) # User(v)
      BY DEF Row, User, Session
    <3>3. Row(v) = Row(w)
      BY <3>1, <3>2, <2>1
    <3>4. v = w
      BY <3>3 DEF Row
    <3>5. LockOf(User(v), "excl").key = User(w)
      BY <3>4 DEF LockOf
    <3> QED BY <3>1, <3>5, <1>7
  <2>4. ASSUME TokenStage(req[g]) PROVE FALSE
    <3>1. PICK v \in People :
             /\ req[g].op = "token" /\ req[g].who = Row(v)
             /\ b.mode = "share" /\ b.key \in {Session, Row(v)}
      BY <2>4, TokenWaits
    <3>2. Row(w) # Session
      BY DEF Row, Session
    <3>3. b.key = req[g].who
      BY <3>1, <3>2, <2>1
    <3>4. At(g, "lock")
      BY <1>2 DEF Circle, Waits, Taking
    <3>5. table[b.key].id = req[g].id
      BY <3>1, <3>3, <3>4, Begun DEF Standing
    <3>6. TxFine(req[g], Head(req[g].plan))
      BY <3>4, Begun, Split DEF PlanFine
    <3>7. req[g].id # 0
      BY <3>1, <3>6 DEF TxFine
    <3>8. a.mode = "update"
      BY <3>5, <3>7, <2>1, <1>4 DEF Present
    <3> QED BY <3>1, <3>8, <1>3 DEF Conflict
  <2> QED BY <2>2, <2>3, <2>4, <1>2, <1>8 DEF Between
<1> QED BY <1>1, <1>10, <1>11, <1>12

\* Requests wait for each other in a circle, for the database to break, only
\* if one of them adds participants in a batch, in the order of its list: a
\* single add locks the user, then the participant; the cascade and a new
\* token lock the session first; nobody else holds a lock that the next in
\* such an order waits for (db/participants.rs, consent_tokens.rs,
\* display_names.rs).
THEOREM OnlyBatchesDeadlock == Spec => []DeadlocksNeedABatch
<1>1. ASSUME IInv, StagesHold PROVE DeadlocksNeedABatch
  <2>1. SUFFICES ASSUME NEW S \in SUBSET Handlers, Circle(S),
                        \A x \in S : req[x].op # "batch"
                 PROVE  FALSE
    BY DEF DeadlocksNeedABatch
  <2>2. ASSUME NEW h \in S, NEW g \in S, Between(req[g], table),
               NEW a \in Grant(Next1(h)), NEW b \in req[g].held, Conflict(a, b),
               Next1(h).mode = "share", Next1(h).key \in Users \cup Parts
        PROVE  FALSE
    <3>1. b.mode = "excl" /\ b.key \in Users \cup Parts
      BY <2>2, GrantKey DEF Conflict
    <3>2. ~CascadeStage(req[g], table) /\ ~AddStage(req[g])
      BY <2>1, <1>1, NoCascadeWaits, NoAddWaits
    <3>3. ~TokenStage(req[g])
      BY <3>1, TokenWaits
    <3>4. ~DisplayStage(req[g])
      <4>1. \A v \in People : Name(v) \notin Users \cup Parts
        BY KeyKinds
      <4> QED BY <3>1, <4>1, DisplayWaits
    <3> QED BY <2>2, <3>2, <3>3, <3>4 DEF Between
  <2>3. ASSUME NEW h \in S, TokenStage(req[h]) \/ DisplayStage(req[h]) PROVE FALSE
    <3>1. PICK w \in People : Next1(h).mode = "share" /\ Next1(h).key \in {Row(w), User(w)}
      <4>1. \A k, m : Want(k, m).key = k /\ Want(k, m).mode = m
        BY DEF Want
      <4> QED BY <4>1, <2>3, TokenWaits, DisplayWaits
    <3>2. Next1(h).key \in Users \cup Parts
      BY <3>1, KeyKinds
    <3>3. PICK g \in S : /\ g # h /\ Between(req[g], table)
                         /\ \E a \in Grant(Next1(h)), b \in req[g].held : Conflict(a, b)
      BY <2>1, <1>1, CircleHolds
    <3> QED BY <3>1, <3>2, <3>3, <2>2
  <2>4. PICK h \in S : TRUE
    BY <2>1 DEF Circle
  <2>5. PICK g \in S : Between(req[g], table)
    BY <2>1, <2>4, <1>1, CircleHolds
  <2> QED BY <2>1, <2>3, <2>5, <1>1, NoCascadeWaits, NoAddWaits DEF Between
<1> QED BY <1>1, Initially, Inductive, StagesInit, StagesStep, PTL DEF Spec
=============================================================================
