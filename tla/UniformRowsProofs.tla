-------------------------- MODULE UniformRowsProofs --------------------------
(***************************************************************************)
(* Theorems about UniformRows, for any handlers, client ids and bounds.    *)
(*                                                                         *)
(* The inductive invariant IInv relates what is spread over the table, the *)
(* open transactions and the history:                                      *)
(*   Shapes    what a request looks like at each of its places;            *)
(*   Held      a row somebody has locked is still the row that was read;   *)
(*   Distinct  ids, tags and client ids name one row, in the table or in   *)
(*             an open transaction, and overwritten tags name none;        *)
(*   Stored    what a batch no longer inserts has been committed;          *)
(*   Told      each commit is announced, lost or with one handler.         *)
(* On top of it Accounted says that every row ever created is there or     *)
(* gone, by a DELETE or with a wipe, and never both.                       *)
(***************************************************************************)
EXTENDS UniformRows, SequenceTheorems, WellFoundedInduction, TLAPS

Changes == [kind : {"created", "updated", "deleted"}, id : Nat, cid : Cids \cup {NoCid},
            tag : Nat, over : Nat, read : Nat, expected : Nat]

(* What a request looks like at each of its places. *)
Shape(q) ==
    /\ q.pc = "idle" => q = Idle
    /\ q.pc \in {"scan", "insert"} => q.op = "bulk"
    /\ q.pc = "check" => q.op = "patch"
    /\ q.pc = "lock" => q.op \in {"patch", "delete", "clear"}
    /\ q.pc = "commit" => q.op # "bulk"
    /\ q.pc # "insert" => q.mine = << >>
    /\ q.pc \notin {"scan", "insert"} => DOMAIN q.todo = {}
    /\ q.tell # << >> <=> q.pc \in {"audit", "emit"}
    /\ q.op = "bulk" => q.sent \subseteq Cids
Shapes == \A p \in Handlers : Shape(req[p])

(* No two handlers lock the same row. *)
Exclusive == \A p, q \in Handlers : p # q => locks[p] \cap locks[q] = {}

OnRow(q) == q.pc \in {"check", "commit"} /\ q.op \in {"patch", "delete"}

(* Between their SELECT or DELETE and their commit requests hold locks, k for
   q.  The row a PATCH or DELETE has locked is in the table R as it was read,
   and a PATCH about to commit has compared its tag. *)
HeldBy(q, k, R) ==
    /\ k # {} => q.pc \in {"check", "commit"} /\ q.op \in {"patch", "delete", "clear"}
    /\ OnRow(q) =>
          /\ q.id \in k
          /\ \E r \in R : r.id = q.id /\ r.tag = q.seen
          /\ q.pc = "commit" /\ q.op = "patch" => Matches(q)
Held == \A p \in Handlers : HeldBy(req[p], locks[p], rows)

(* Ids, tags and client ids of the committed rows R and the inserted rows I,
   where O are the tags that have been overwritten and m the last one made. *)
Unlike(R, I, m, O) ==
    LET all == R \cup UNION {I[p] : p \in Handlers}
    IN  /\ \A r, s \in all : r.id = s.id \/ r.tag = s.tag => r = s
        /\ \A r, s \in all : r.cid = s.cid /\ r.cid # NoCid => r = s
        /\ \A r \in all : r.id \in 1..m /\ r.tag \in 1..m /\ r.tag \notin O
        /\ O \subseteq 0..m
        /\ \A p \in Handlers : R \cap I[p] = {}
        /\ \A p, q \in Handlers : p # q => I[p] \cap I[q] = {}

Uncommitted == [p \in Handlers |-> Inserted(p)]
Overwritten == {log[i].over : i \in DOMAIN log}
Distinct == Unlike(rows, Uncommitted, made, Overwritten)

(* The client ids of which a row has ever been committed. *)
Created == {log[i].cid : i \in {j \in DOMAIN log : log[j].kind = "created"}}

(* A batch still has to insert a client id, has inserted it or has no need to. *)
Pending(q) == Elements(q.todo) \cup {r.cid : r \in Elements(q.mine)}
Covered(q, C) == q.op = "bulk" => q.sent \subseteq Pending(q) \cup C
Stored ==
    /\ \A r \in rows : r.cid \in Created
    /\ \A p \in Handlers : Covered(req[p], Created)
    /\ \A sent \in acks : sent \subseteq Created

(* Of the n commits each was announced (b), is lost (x) or with one handler (t). *)
Delivered(n, b, a, x, t) ==
    /\ b \in Seq(1..n) /\ a \subseteq 1..n /\ x \subseteq 1..n
    /\ t \in [Handlers -> Seq(1..n)]
    /\ \A i \in 1..n : i \in Elements(b) \cup x \cup UNION {Elements(t[p]) : p \in Handlers}
    /\ \A i, j \in DOMAIN b : b[i] = b[j] => i = j
    /\ Elements(b) \subseteq a
    /\ \A p \in Handlers :
          /\ \A i, j \in DOMAIN t[p] : t[p][i] = t[p][j] => i = j
          /\ Elements(t[p]) \cap Elements(b) = {}
          /\ \A q \in Handlers \ {p} : Elements(t[p]) \cap Elements(t[q]) = {}
Untold == [p \in Handlers |-> req[p].tell]
Told ==
    /\ Delivered(Len(log), bus, audit, lost, Untold)
    /\ \A p \in Handlers : At(p, "emit") => Head(req[p].tell) \in audit

(* What is known of the updates: PatchOnLatest says the same of the log. *)
IInv ==
    /\ TypeOK
    /\ log \in Seq(Changes)
    /\ Shapes
    /\ Exclusive /\ Held
    /\ Distinct
    /\ Stored
    /\ Told
    /\ PatchOnLatest

-----------------------------------------------------------------------------
(* Unlike, under what the actions do to the rows.                          *)

(* Rows that go leave the others unlike each other (Finish, Die, clear). *)
LEMMA UnlikeLess ==
    ASSUME NEW R, NEW I, NEW m \in Nat, NEW O, NEW R2, NEW I2,
           Unlike(R, I, m, O),
           R2 \subseteq R, \A p \in Handlers : I2[p] \subseteq I[p]
    PROVE  Unlike(R2, I2, m, O)
  BY DEF Unlike

(* An INSERT of a batch: a fresh id and tag, a client id nobody has. *)
LEMMA UnlikeInsert ==
    ASSUME NEW R, NEW I, NEW m \in Nat, NEW O, NEW p \in Handlers, NEW r, NEW I2,
           Unlike(R, I, m, O),
           I2[p] = I[p] \cup {r}, \A h \in Handlers \ {p} : I2[h] = I[h],
           r.id = m + 1, r.tag = m + 1,
           \A s \in R \cup UNION {I[h] : h \in Handlers} : s.cid # r.cid
    PROVE  Unlike(R, I2, m + 1, O)
  <1> DEFINE A == R \cup UNION {I[h] : h \in Handlers}
             B == R \cup UNION {I2[h] : h \in Handlers}
  <1>1. B = A \cup {r} /\ r \in B
    OBVIOUS
  <1>2. \A s \in A : /\ s.id \in 1..m /\ s.tag \in 1..m /\ s.tag \notin O
    BY DEF Unlike
  <1>3. \A s \in A : s.id # m + 1 /\ s.tag # m + 1 /\ s.id \in 1..(m + 1) /\ s.tag \in 1..(m + 1)
    BY <1>2
  <1>4. r \notin A
    BY <1>3
  <1>5. O \subseteq 0..m
    BY DEF Unlike
  <1>6. m + 1 \notin O /\ m + 1 \in 1..(m + 1)
    BY <1>5
  <1>7. O \subseteq 0..(m + 1)
    BY <1>5, <1>6
  <1>8. \A s, t \in A : (s.id = t.id \/ s.tag = t.tag => s = t) /\ (s.cid = t.cid /\ s.cid # NoCid => s = t)
    BY DEF Unlike
  <1>9. \A h \in Handlers : R \cap I[h] = {}
    BY DEF Unlike
  <1>10. \A h, k \in Handlers : h # k => I[h] \cap I[k] = {}
    BY DEF Unlike
  <1>11. \A h \in Handlers : I[h] \subseteq A
    OBVIOUS
  <1>12. \A h \in Handlers : R \cap I2[h] = {}
    BY <1>4, <1>9
  <1>13. \A h, k \in Handlers : h # k => I2[h] \cap I2[k] = {}
    BY <1>4, <1>10, <1>11
  <1>14. \A s, t \in B : s.id = t.id \/ s.tag = t.tag => s = t
    BY <1>1, <1>3, <1>8
  <1>15. \A s, t \in B : s.cid = t.cid /\ s.cid # NoCid => s = t
    BY <1>1, <1>8
  <1>16. \A s \in B : s.id \in 1..(m + 1) /\ s.tag \in 1..(m + 1) /\ s.tag \notin O
    BY <1>1, <1>2, <1>3, <1>6
  <1> QED BY <1>7, <1>12, <1>13, <1>14, <1>15, <1>16 DEF Unlike

(* The commit of a batch only moves its rows. *)
LEMMA UnlikeCommit ==
    ASSUME NEW R, NEW I, NEW m \in Nat, NEW O, NEW O2, NEW p \in Handlers, NEW I2, NEW R2,
           Unlike(R, I, m, O), O2 \subseteq O \cup {0},
           R2 = R \cup I[p],
           I2[p] = {}, \A h \in Handlers \ {p} : I2[h] = I[h]
    PROVE  Unlike(R2, I2, m, O2)
  <1> DEFINE A == R \cup UNION {I[h] : h \in Handlers}
             B == R2 \cup UNION {I2[h] : h \in Handlers}
  <1>1. B = A
    OBVIOUS
  <1>2. \A s \in A : /\ s.id \in 1..m /\ s.tag \in 1..m /\ s.tag \notin O
    BY DEF Unlike
  <1>3. \A s \in A : s.tag \notin O2
    BY <1>2
  <1>4. O2 \subseteq 0..m
    BY DEF Unlike
  <1>5. \A h \in Handlers : R2 \cap I2[h] = {}
    BY DEF Unlike
  <1>6. \A h, k \in Handlers : h # k => I2[h] \cap I2[k] = {}
    BY DEF Unlike
  <1>7. \A s, t \in A : (s.id = t.id \/ s.tag = t.tag => s = t) /\ (s.cid = t.cid /\ s.cid # NoCid => s = t)
    BY DEF Unlike
  <1> QED BY <1>1, <1>2, <1>3, <1>4, <1>5, <1>6, <1>7 DEF Unlike

(* A PATCH puts a fresh tag in the place of the one it overwrites. *)
LEMMA UnlikeUpdate ==
    ASSUME NEW R, NEW I, NEW m \in Nat, NEW O, NEW O2, NEW R2, NEW r \in R, NEW new,
           Unlike(R, I, m, O), O2 \subseteq O \cup {r.tag},
           new.id = r.id, new.cid = r.cid, new.tag = m + 1,
           R2 = (R \ {r}) \cup {new}
    PROVE  Unlike(R2, I, m + 1, O2)
  <1> DEFINE A == R \cup UNION {I[h] : h \in Handlers}
             B == R2 \cup UNION {I[h] : h \in Handlers}
  <1>1. \A s \in A : /\ s.id \in 1..m /\ s.tag \in 1..m /\ s.tag \notin O
    BY DEF Unlike
  <1>2. \A s \in A : s.id # m + 1 /\ s.tag # m + 1 /\ s.id \in 1..(m + 1) /\ s.tag \in 1..(m + 1)
    BY <1>1
  <1>3. \A h \in Handlers : R \cap I[h] = {}
    BY DEF Unlike
  <1>4. \A s \in B : s = new \/ (s \in A /\ s # r)
    BY <1>3
  <1>5. new \notin A /\ r \in A
    BY <1>2
  <1>6. \A s, t \in A : (s.id = t.id \/ s.tag = t.tag => s = t) /\ (s.cid = t.cid /\ s.cid # NoCid => s = t)
    BY DEF Unlike
  <1>7. \A s \in B : s # new => s.id # new.id /\ s.tag # new.tag /\ (s.cid # NoCid => s.cid # new.cid) /\ s.tag # r.tag
    BY <1>2, <1>4, <1>5, <1>6
  <1>8. O \subseteq 0..m
    BY DEF Unlike
  <1>9. r.tag \in 1..m
    BY <1>1, <1>5
  <1>10. O2 \subseteq 0..(m + 1) /\ m + 1 \notin O2
    BY <1>8, <1>9
  <1>11. \A s, t \in B : s.id = t.id \/ s.tag = t.tag => s = t
    BY <1>4, <1>6, <1>7
  <1>12. \A s, t \in B : s.cid = t.cid /\ s.cid # NoCid => s = t
    BY <1>4, <1>6, <1>7
  <1>13. m + 1 \in 1..(m + 1)
    OBVIOUS
  <1>14. \A s \in B : s.id \in 1..(m + 1) /\ s.tag \in 1..(m + 1)
    BY <1>2, <1>4, <1>5, <1>13
  <1>15. \A s \in B : s.tag \notin O2
    BY <1>1, <1>4, <1>7, <1>10
  <1>16. \A h \in Handlers : R2 \cap I[h] = {}
    <2> SUFFICES ASSUME NEW h \in Handlers PROVE R2 \cap I[h] = {}
      OBVIOUS
    <2>1. I[h] \subseteq A
      OBVIOUS
    <2> QED BY <1>3, <1>5, <2>1
  <1>17. \A h, k \in Handlers : h # k => I[h] \cap I[k] = {}
    BY DEF Unlike
  <1> QED BY <1>10, <1>11, <1>12, <1>14, <1>15, <1>16, <1>17 DEF Unlike

(* A DELETE takes a row away, and its tag with it. *)
LEMMA UnlikeDelete ==
    ASSUME NEW R, NEW I, NEW m \in Nat, NEW O, NEW O2, NEW R2, NEW r \in R,
           Unlike(R, I, m, O), O2 \subseteq O \cup {r.tag},
           R2 = R \ {r}
    PROVE  Unlike(R2, I, m, O2)
  <1> DEFINE A == R \cup UNION {I[h] : h \in Handlers}
             B == R2 \cup UNION {I[h] : h \in Handlers}
  <1>1. \A s \in A : /\ s.id \in 1..m /\ s.tag \in 1..m /\ s.tag \notin O
    BY DEF Unlike
  <1>2. \A h \in Handlers : R \cap I[h] = {}
    BY DEF Unlike
  <1>3. r \in A /\ \A s \in B : s \in A /\ s # r
    BY <1>2
  <1>4. \A s, t \in A : (s.id = t.id \/ s.tag = t.tag => s = t) /\ (s.cid = t.cid /\ s.cid # NoCid => s = t)
    BY DEF Unlike
  <1>5. \A s \in B : s.tag \notin O2
    BY <1>1, <1>3, <1>4
  <1>6. O \subseteq 0..m
    BY DEF Unlike
  <1>7. O2 \subseteq 0..m
    BY <1>1, <1>3, <1>6
  <1>8. \A h, k \in Handlers : h # k => I[h] \cap I[k] = {}
    BY DEF Unlike
  <1> QED BY <1>1, <1>2, <1>3, <1>4, <1>5, <1>7, <1>8 DEF Unlike

(* A mute range is a row without a client id. *)
LEMMA UnlikeMute ==
    ASSUME NEW R, NEW I, NEW m \in Nat, NEW O, NEW O2, NEW R2, NEW r,
           Unlike(R, I, m, O), O2 \subseteq O \cup {0},
           r.id = m + 1, r.tag = m + 1, r.cid = NoCid,
           R2 = R \cup {r}
    PROVE  Unlike(R2, I, m + 1, O2)
  <1> DEFINE A == R \cup UNION {I[h] : h \in Handlers}
             B == R2 \cup UNION {I[h] : h \in Handlers}
  <1>1. B = A \cup {r}
    OBVIOUS
  <1>2. \A s \in A : /\ s.id \in 1..m /\ s.tag \in 1..m /\ s.tag \notin O
    BY DEF Unlike
  <1>3. \A s \in A : s.id # m + 1 /\ s.tag # m + 1 /\ s.id \in 1..(m + 1) /\ s.tag \in 1..(m + 1)
                     /\ s.tag # 0
    BY <1>2
  <1>4. r \notin A
    BY <1>3
  <1>5. O \subseteq 0..m
    BY DEF Unlike
  <1>6. m + 1 \notin O2 /\ m + 1 \in 1..(m + 1)
    BY <1>5
  <1>7. O2 \subseteq 0..(m + 1)
    BY <1>5
  <1>8. \A s, t \in A : (s.id = t.id \/ s.tag = t.tag => s = t) /\ (s.cid = t.cid /\ s.cid # NoCid => s = t)
    BY DEF Unlike
  <1>9. \A h \in Handlers : R \cap I[h] = {} /\ I[h] \subseteq A
    BY DEF Unlike
  <1>10. \A h, k \in Handlers : h # k => I[h] \cap I[k] = {}
    BY DEF Unlike
  <1>11. \A s, t \in B : s.id = t.id \/ s.tag = t.tag => s = t
    BY <1>1, <1>3, <1>8
  <1>12. \A s, t \in B : s.cid = t.cid /\ s.cid # NoCid => s = t
    BY <1>1, <1>8
  <1>13. \A s \in B : s.id \in 1..(m + 1) /\ s.tag \in 1..(m + 1) /\ s.tag \notin O2
    BY <1>1, <1>2, <1>3, <1>6
  <1>14. \A h \in Handlers : R2 \cap I[h] = {}
    BY <1>4, <1>9
  <1> QED BY <1>7, <1>10, <1>11, <1>12, <1>13, <1>14 DEF Unlike

-----------------------------------------------------------------------------
(* Sequences without repetition, by their elements.                        *)

Once(s) == \A i, j \in DOMAIN s : s[i] = s[j] => i = j

LEMMA OfAppend ==
    ASSUME NEW S, NEW s \in Seq(S), NEW e \in S
    PROVE  /\ Append(s, e) \in Seq(S)
           /\ Elements(Append(s, e)) = Elements(s) \cup {e}
           /\ Once(s) /\ e \notin Elements(s) => Once(Append(s, e))
  <1>1. /\ Append(s, e) \in Seq(S) /\ Len(s) \in Nat /\ DOMAIN s = 1..Len(s)
        /\ DOMAIN Append(s, e) = 1..(Len(s) + 1)
    OBVIOUS
  <1>2. /\ \A i \in 1..Len(s) : Append(s, e)[i] = s[i]
        /\ Append(s, e)[Len(s) + 1] = e
    OBVIOUS
  <1>3. 1..(Len(s) + 1) = (1..Len(s)) \cup {Len(s) + 1} /\ Len(s) + 1 \notin 1..Len(s)
    BY <1>1
  <1> HIDE <1>1
  <1>4. DOMAIN Append(s, e) = DOMAIN s \cup {Len(s) + 1} /\ Len(s) + 1 \notin DOMAIN s
    BY <1>1, <1>3
  <1>5. \A i \in DOMAIN s : Append(s, e)[i] = s[i]
    BY <1>1, <1>2
  <1>6. Elements(Append(s, e)) = Elements(s) \cup {e}
    BY <1>2, <1>4, <1>5 DEF Elements
  <1>7. Once(s) /\ e \notin Elements(s) => Once(Append(s, e))
    BY <1>2, <1>4, <1>5 DEF Once, Elements
  <1> QED BY <1>1, <1>6, <1>7

LEMMA OfTail ==
    ASSUME NEW S, NEW s \in Seq(S), s # << >>
    PROVE  /\ Tail(s) \in Seq(S) /\ Head(s) \in Elements(s) /\ Head(s) \in S
           /\ Elements(s) = Elements(Tail(s)) \cup {Head(s)}
           /\ Once(s) => Once(Tail(s)) /\ Head(s) \notin Elements(Tail(s))
  <1>1. /\ Tail(s) \in Seq(S) /\ Len(s) \in Nat \ {0} /\ DOMAIN s = 1..Len(s)
        /\ DOMAIN Tail(s) = 1..(Len(s) - 1)
    OBVIOUS
  <1>2. Head(s) = s[1] /\ \A i \in 1..(Len(s) - 1) : Tail(s)[i] = s[i + 1]
    OBVIOUS
  <1>3. /\ 1 \in DOMAIN s
        /\ \A i \in DOMAIN Tail(s) : i + 1 \in DOMAIN s /\ i + 1 # 1 /\ i \in Int
        /\ \A i \in DOMAIN s : i # 1 => i - 1 \in DOMAIN Tail(s) /\ (i - 1) + 1 = i
    BY <1>1
  <1>4. \A i \in DOMAIN Tail(s) : Tail(s)[i] = s[i + 1]
    BY <1>1, <1>2
  <1>5. \A i \in DOMAIN s : i = 1 \/ s[i] = Tail(s)[i - 1]
    BY <1>3, <1>4
  <1>6. Elements(s) \subseteq Elements(Tail(s)) \cup {Head(s)}
    BY <1>2, <1>3, <1>5 DEF Elements
  <1>7. Elements(Tail(s)) \cup {Head(s)} \subseteq Elements(s)
    BY <1>2, <1>3, <1>4 DEF Elements
  <1>8. ASSUME Once(s) PROVE Once(Tail(s))
    <2> SUFFICES ASSUME NEW i \in DOMAIN Tail(s), NEW j \in DOMAIN Tail(s), Tail(s)[i] = Tail(s)[j]
                 PROVE  i = j
      BY DEF Once
    <2>1. s[i + 1] = s[j + 1]
      BY <1>4
    <2>2. i + 1 = j + 1
      BY <1>3, <1>8, <2>1 DEF Once
    <2> QED BY <1>3, <2>2
  <1>9. ASSUME Once(s) PROVE Head(s) \notin Elements(Tail(s))
    <2> SUFFICES ASSUME NEW i \in DOMAIN Tail(s), Tail(s)[i] = Head(s) PROVE FALSE
      BY DEF Elements
    <2>1. s[i + 1] = s[1]
      BY <1>2, <1>4
    <2> QED BY <1>3, <1>9, <2>1 DEF Once
  <1>10. Head(s) \in S
    OBVIOUS
  <1> QED BY <1>1, <1>3, <1>6, <1>7, <1>8, <1>9, <1>10

LEMMA OfNone == Elements(<< >>) = {} /\ Once(<< >>)
  BY DEF Elements, Once

LEMMA OfSeq ==
    ASSUME NEW S, NEW s \in Seq(S)
    PROVE  Elements(s) \subseteq S /\ (s # << >> => Elements(s) # {})
  BY DEF Elements

-----------------------------------------------------------------------------
(* Delivered, under what the actions do to the commits and their events.   *)

(* More commits are nobody's loss if they are with the handler (commit). *)
LEMMA DeliveredCommit ==
    ASSUME NEW n \in Nat, NEW k \in Nat, NEW b, NEW a, NEW x, NEW t, NEW p \in Handlers, NEW s,
           Delivered(n, b, a, x, t), t[p] = << >>,
           s \in Seq(1..(n + k)), Elements(s) = (n + 1)..(n + k), Once(s)
    PROVE  Delivered(n + k, b, a, x, [t EXCEPT ![p] = s])
  <1> DEFINE t2 == [t EXCEPT ![p] = s]
  <1>1. /\ b \in Seq(1..n) /\ a \subseteq 1..n /\ x \subseteq 1..n /\ t \in [Handlers -> Seq(1..n)]
        /\ \A i \in 1..n : i \in Elements(b) \cup x \cup UNION {Elements(t[h]) : h \in Handlers}
        /\ Once(b) /\ Elements(b) \subseteq a
        /\ \A h \in Handlers : Once(t[h]) /\ Elements(t[h]) \cap Elements(b) = {}
        /\ \A h \in Handlers : \A g \in Handlers \ {h} : Elements(t[h]) \cap Elements(t[g]) = {}
    BY DEF Delivered, Once
  <1>2. 1..n \subseteq 1..(n + k) /\ (1..n) \cap ((n + 1)..(n + k)) = {}
        /\ 1..(n + k) = (1..n) \cup ((n + 1)..(n + k))
    OBVIOUS
  <1>3. Elements(b) \subseteq 1..n /\ \A h \in Handlers : Elements(t[h]) \subseteq 1..n
    BY <1>1, OfSeq
  <1>4. Elements(t[p]) = {}
    BY OfNone
  <1>5. t2[p] = s /\ \A h \in Handlers \ {p} : t2[h] = t[h]
    BY <1>1
  <1>6. b \in Seq(1..(n + k)) /\ a \subseteq 1..(n + k) /\ x \subseteq 1..(n + k)
    BY <1>1, <1>2
  <1>7. \A h \in Handlers : t[h] \in Seq(1..(n + k))
    <2> HIDE <1>2
    <2> SUFFICES ASSUME NEW h \in Handlers PROVE t[h] \in Seq(1..(n + k))
      OBVIOUS
    <2>1. t[h] \in Seq(1..n)
      BY <1>1
    <2>2. DOMAIN t[h] = 1..Len(t[h]) /\ Len(t[h]) \in Nat /\ \A i \in 1..Len(t[h]) : t[h][i] \in 1..n
      BY <2>1
    <2>3. \A i \in 1..Len(t[h]) : t[h][i] \in 1..(n + k)
      BY <1>2, <2>2
    <2> QED BY <2>1, <2>2, <2>3
  <1>8. t2 \in [Handlers -> Seq(1..(n + k))]
    BY <1>1, <1>5, <1>7
  <1> HIDE DEF t2
  <1>9. ASSUME NEW i \in 1..(n + k)
        PROVE  i \in Elements(b) \cup x \cup UNION {Elements(t2[h]) : h \in Handlers}
    <2>1. CASE i \in (n + 1)..(n + k)
      <3>1. i \in Elements(t2[p])
        BY <1>5, <2>1
      <3> QED BY <3>1
    <2>2. CASE i \in 1..n /\ i \notin Elements(b) \cup x
      <3>1. PICK h \in Handlers : i \in Elements(t[h])
        BY <1>1, <2>2
      <3>2. h # p
        BY <1>4, <3>1
      <3>3. i \in Elements(t2[h])
        BY <1>5, <3>1, <3>2
      <3> QED BY <3>3
    <2> QED BY <1>2, <2>1, <2>2
  <1>10. \A h \in Handlers : Once(t2[h]) /\ Elements(t2[h]) \cap Elements(b) = {}
    BY <1>1, <1>2, <1>3, <1>5
  <1>11. ASSUME NEW h \in Handlers, NEW g \in Handlers \ {h}
         PROVE  Elements(t2[h]) \cap Elements(t2[g]) = {}
    BY <1>1, <1>2, <1>3, <1>5
  <1> QED BY <1>1, <1>6, <1>8, <1>9, <1>10, <1>11 DEF Delivered, Once, t2

(* An audit row is about a commit (Audit). *)
LEMMA DeliveredAudit ==
    ASSUME NEW n \in Nat, NEW b, NEW a, NEW x, NEW t, NEW i \in 1..n,
           Delivered(n, b, a, x, t)
    PROVE  Delivered(n, b, a \cup {i}, x, t)
  BY DEF Delivered

(* The first of a handler's commits is announced (Emit). *)
LEMMA DeliveredEmit ==
    ASSUME NEW n \in Nat, NEW b, NEW a, NEW x, NEW t, NEW p \in Handlers,
           Delivered(n, b, a, x, t), t[p] # << >>, Head(t[p]) \in a
    PROVE  Delivered(n, Append(b, Head(t[p])), a, x, [t EXCEPT ![p] = Tail(@)])
  <1> DEFINE t2 == [t EXCEPT ![p] = Tail(@)]
             e == Head(t[p])
             b2 == Append(b, e)
  <1>1. /\ b \in Seq(1..n) /\ a \subseteq 1..n /\ x \subseteq 1..n /\ t \in [Handlers -> Seq(1..n)]
        /\ \A i \in 1..n : i \in Elements(b) \cup x \cup UNION {Elements(t[h]) : h \in Handlers}
        /\ Once(b) /\ Elements(b) \subseteq a
        /\ \A h \in Handlers : Once(t[h]) /\ Elements(t[h]) \cap Elements(b) = {}
        /\ \A h \in Handlers : \A g \in Handlers \ {h} : Elements(t[h]) \cap Elements(t[g]) = {}
    BY DEF Delivered, Once
  <1>2. t[p] \in Seq(1..n)
    BY <1>1
  <1>3. /\ Tail(t[p]) \in Seq(1..n) /\ e \in Elements(t[p]) /\ e \in 1..n
        /\ Elements(t[p]) = Elements(Tail(t[p])) \cup {e}
        /\ Once(Tail(t[p])) /\ e \notin Elements(Tail(t[p]))
    BY <1>1, <1>2, OfTail
  <1>4. /\ b2 \in Seq(1..n) /\ Elements(b2) = Elements(b) \cup {e} /\ Once(b2)
    BY <1>1, <1>3, OfAppend
  <1>5. t2[p] = Tail(t[p]) /\ \A h \in Handlers \ {p} : t2[h] = t[h]
    BY <1>1
  <1>6. t2 \in [Handlers -> Seq(1..n)]
    BY <1>1, <1>3
  <1> HIDE DEF t2, b2, e
  <1>7. ASSUME NEW i \in 1..n
        PROVE  i \in Elements(b2) \cup x \cup UNION {Elements(t2[h]) : h \in Handlers}
    <2>1. CASE i \notin Elements(b) \cup x
      <3>1. PICK h \in Handlers : i \in Elements(t[h])
        BY <1>1, <2>1
      <3>2. i = e \/ i \in Elements(t2[h])
        BY <1>3, <1>5, <3>1
      <3> QED BY <1>4, <3>2
    <2> QED BY <1>4, <2>1
  <1>8. ASSUME NEW h \in Handlers
        PROVE  Once(t2[h]) /\ Elements(t2[h]) \cap Elements(b2) = {}
    <2>1. CASE h = p
      BY <1>1, <1>3, <1>4, <1>5, <2>1
    <2>2. CASE h # p
      <3>1. t2[h] = t[h] /\ e \notin Elements(t[h])
        BY <1>1, <1>3, <1>5, <2>2
      <3> QED BY <1>1, <1>4, <3>1
    <2> QED BY <2>1, <2>2
  <1>9. ASSUME NEW h \in Handlers, NEW g \in Handlers \ {h}
        PROVE  Elements(t2[h]) \cap Elements(t2[g]) = {}
    BY <1>1, <1>3, <1>5
  <1>10. Elements(b2) \subseteq a
    BY <1>1, <1>4 DEF e
  <1>11. Delivered(n, b2, a, x, t2)
    BY <1>1, <1>4, <1>6, <1>7, <1>8, <1>9, <1>10 DEF Delivered, Once
  <1> QED BY <1>11 DEF t2, b2, e

(* What a handler had still to announce is lost with it (Die). *)
LEMMA DeliveredDie ==
    ASSUME NEW n \in Nat, NEW b, NEW a, NEW x, NEW t, NEW p \in Handlers,
           Delivered(n, b, a, x, t)
    PROVE  Delivered(n, b, a, x \cup Elements(t[p]), [t EXCEPT ![p] = << >>])
  <1> DEFINE t2 == [t EXCEPT ![p] = << >>]
             x2 == x \cup Elements(t[p])
  <1>1. /\ b \in Seq(1..n) /\ a \subseteq 1..n /\ x \subseteq 1..n /\ t \in [Handlers -> Seq(1..n)]
        /\ \A i \in 1..n : i \in Elements(b) \cup x \cup UNION {Elements(t[h]) : h \in Handlers}
        /\ Once(b) /\ Elements(b) \subseteq a
        /\ \A h \in Handlers : Once(t[h]) /\ Elements(t[h]) \cap Elements(b) = {}
        /\ \A h \in Handlers : \A g \in Handlers \ {h} : Elements(t[h]) \cap Elements(t[g]) = {}
    BY DEF Delivered, Once
  <1>2. t[p] \in Seq(1..n)
    BY <1>1
  <1>3. x2 \subseteq 1..n
    BY <1>1, <1>2, OfSeq
  <1>4. t2[p] = << >> /\ \A h \in Handlers \ {p} : t2[h] = t[h]
    BY <1>1
  <1>5. << >> \in Seq(1..n)
    OBVIOUS
  <1>6. t2 \in [Handlers -> Seq(1..n)]
    BY <1>1, <1>5
  <1> HIDE DEF t2
  <1>7. ASSUME NEW i \in 1..n
        PROVE  i \in Elements(b) \cup x2 \cup UNION {Elements(t2[h]) : h \in Handlers}
    <2>1. CASE i \notin Elements(b) \cup x
      <3>1. PICK h \in Handlers : i \in Elements(t[h])
        BY <1>1, <2>1
      <3>2. i \in x2 \/ i \in Elements(t2[h])
        BY <1>4, <3>1
      <3> QED BY <3>2
    <2> QED BY <2>1
  <1> HIDE DEF x2
  <1>8. ASSUME NEW h \in Handlers
        PROVE  Once(t2[h]) /\ Elements(t2[h]) \cap Elements(b) = {}
    BY <1>1, <1>4, OfNone
  <1>9. ASSUME NEW h \in Handlers, NEW g \in Handlers \ {h}
        PROVE  Elements(t2[h]) \cap Elements(t2[g]) = {}
    BY <1>1, <1>4, OfNone
  <1>10. Delivered(n, b, a, x2, t2)
    BY <1>1, <1>3, <1>6, <1>7, <1>8, <1>9 DEF Delivered, Once
  <1> QED BY <1>10 DEF t2, x2

-----------------------------------------------------------------------------
(* Requests and what changes with them.                                    *)

LEMMA IdleTyped == Idle \in Requests /\ Shape(Idle)
  <1>1. << >> \in [{} -> Cids] /\ DOMAIN << >> = {}
    OBVIOUS
  <1>2. << >> \in Todos
    BY <1>1 DEF Todos
  <1>3. << >> \in Seq(Rows) /\ << >> \in Seq(Nat)
    OBVIOUS
  <1>4. Idle \in Requests
    BY <1>2, <1>3 DEF Idle, Requests, AnyTag
  <1>5. Shape(Idle)
    BY <1>1 DEF Shape, Idle
  <1> QED BY <1>4, <1>5

LEMMA TodoTyped ==
    ASSUME NEW todo \in Todos
    PROVE  /\ DOMAIN todo \in SUBSET (1..MaxBatch) /\ Elements(todo) \subseteq Cids
           /\ \A S \in SUBSET DOMAIN todo : [i \in S |-> todo[i]] \in Todos
  <1>1. PICK P \in SUBSET (1..MaxBatch) : todo \in [P -> Cids]
    BY DEF Todos
  <1>2. DOMAIN todo = P /\ Elements(todo) \subseteq Cids
    BY <1>1 DEF Elements
  <1>3. ASSUME NEW S \in SUBSET DOMAIN todo PROVE [i \in S |-> todo[i]] \in Todos
    <2>1. [i \in S |-> todo[i]] \in [S -> Cids] /\ S \in SUBSET (1..MaxBatch)
      BY <1>1, <1>2
    <2> QED BY <2>1 DEF Todos
  <1> QED BY <1>2, <1>3

(* The handler goes through its batch in the order of the body. *)
LEMMA TurnExists ==
    ASSUME NEW p \in Handlers, req[p].todo \in Todos, Places(p) # {}
    PROVE  Turn(p) \in Places(p) /\ Item(p) \in Cids
  <1>1. Places(p) \in SUBSET (1..MaxBatch) /\ Elements(req[p].todo) \subseteq Cids
    BY TodoTyped DEF Places
  <1>2. Places(p) \in SUBSET Nat
    BY <1>1
  <1>3. PICK i \in Places(p) : \A j \in Places(p) : ~(<<j, i>> \in OpToRel(<, Nat))
    BY <1>2, NatLessThanWellFounded, WFMin
  <1>4. \A j \in Nat : j < i => <<j, i>> \in OpToRel(<, Nat)
    BY <1>2 DEF OpToRel
  <1>5. \A j \in Places(p) : ~(j < i)
    BY <1>2, <1>3, <1>4
  <1>6. \A a, b \in Nat : ~(a < b) => b <= a
    OBVIOUS
  <1>7. \A j \in Places(p) : i <= j
    BY <1>2, <1>5, <1>6
  <1>8. Turn(p) \in Places(p)
    BY <1>7 DEF Turn
  <1>9. Item(p) \in Elements(req[p].todo)
    BY <1>8 DEF Item, Places, Elements
  <1> QED BY <1>1, <1>8, <1>9

(* p serves q from now on, and has locked the rows with the ids k. *)
Moves(p, q, k) == req' = [req EXCEPT ![p] = q] /\ locks' = [locks EXCEPT ![p] = k]

(* A step of p: what it finds, locks and removes concerns nobody else. *)
LEMMA MovesKeeps ==
    ASSUME TypeOK, Shapes, Exclusive, Held,
           NEW p \in Handlers, NEW q \in Requests, NEW k \in SUBSET Nat,
           Moves(p, q, k), Shape(q),
           \A h \in Handlers \ {p} : k \cap locks[h] = {},
           HeldBy(q, k, rows'),
           \A r \in rows : r \in rows' \/ r.id \in locks[p]
    PROVE  /\ req' \in [Handlers -> Requests] /\ locks' \in [Handlers -> SUBSET Nat]
           /\ \A h \in Handlers : At(h, "idle")' => locks'[h] = {}
           /\ Shapes' /\ Exclusive' /\ Held'
  <1>1. /\ req \in [Handlers -> Requests] /\ locks \in [Handlers -> SUBSET Nat]
        /\ \A h \in Handlers : At(h, "idle") => locks[h] = {}
    BY DEF TypeOK
  <1>2. /\ req'[p] = q /\ \A h \in Handlers \ {p} : req'[h] = req[h]
        /\ locks'[p] = k /\ \A h \in Handlers \ {p} : locks'[h] = locks[h]
    BY <1>1 DEF Moves
  <1>3. req' \in [Handlers -> Requests] /\ locks' \in [Handlers -> SUBSET Nat]
    BY <1>1 DEF Moves
  <1>4. \A h \in Handlers : At(h, "idle")' => locks'[h] = {}
    BY <1>1, <1>2 DEF At, HeldBy
  <1>5. Shapes'
    BY <1>2 DEF Shapes
  <1>6. Exclusive'
    <2>1. \A h, g \in Handlers : h # g => locks[h] \cap locks[g] = {}
      BY DEF Exclusive
    <2>2. \A h, g \in Handlers : h # g => locks'[h] \cap locks'[g] = {}
      BY <1>2, <2>1
    <2> QED BY <2>2 DEF Exclusive
  <1>7. ASSUME NEW h \in Handlers PROVE HeldBy(req'[h], locks'[h], rows')
    <2>1. CASE h = p
      BY <1>2, <2>1
    <2>2. CASE h # p
      <3>1. HeldBy(req[h], locks[h], rows)
        BY DEF Held
      <3>2. locks[h] \cap locks[p] = {}
        BY <2>2 DEF Exclusive
      <3>3. \A r \in rows : r.id \in locks[h] => r \in rows'
        BY <3>2
      <3>4. HeldBy(req[h], locks[h], rows')
        BY <3>1, <3>3 DEF HeldBy
      <3> QED BY <1>2, <2>2, <3>4
    <2> QED BY <2>1, <2>2
  <1>8. Held'
    BY <1>7 DEF Held
  <1> QED BY <1>3, <1>4, <1>5, <1>6, <1>8

(* The rows and the commits each handler has in hand. *)
LEMMA MovesHands ==
    ASSUME TypeOK, NEW p \in Handlers, NEW q, NEW k, Moves(p, q, k)
    PROVE  /\ Uncommitted'[p] = Elements(q.mine)
           /\ \A h \in Handlers \ {p} : Uncommitted'[h] = Uncommitted[h]
           /\ Untold' = [Untold EXCEPT ![p] = q.tell]
           /\ \A h \in Handlers \ {p} : req'[h] = req[h]
           /\ req'[p] = q
  <1>1. req \in [Handlers -> Requests]
    BY DEF TypeOK
  <1>2. req'[p] = q /\ \A h \in Handlers \ {p} : req'[h] = req[h]
    BY <1>1 DEF Moves
  <1>3. Uncommitted' = [h \in Handlers |-> Elements(req'[h].mine)]
    BY DEF Uncommitted, Inserted
  <1>4. Uncommitted'[p] = Elements(q.mine)
        /\ \A h \in Handlers \ {p} : Uncommitted'[h] = Uncommitted[h]
    BY <1>2, <1>3 DEF Uncommitted, Inserted
  <1>5. Untold' = [h \in Handlers |-> req'[h].tell]
    BY DEF Untold
  <1>6. Untold' = [Untold EXCEPT ![p] = q.tell]
    BY <1>2, <1>5 DEF Untold
  <1> QED BY <1>2, <1>4, <1>6

-----------------------------------------------------------------------------
(* What is left to show of a step of p, whatever it writes. *)
LEMMA Writes ==
    ASSUME IInv, NEW p \in Handlers, NEW q \in Requests, NEW k \in SUBSET Nat,
           Moves(p, q, k), Shape(q),
           \A h \in Handlers \ {p} : k \cap locks[h] = {},
           HeldBy(q, k, rows'),
           \A r \in rows : r \in rows' \/ r.id \in locks[p],
           rows' \subseteq Rows, made' \in Nat, requests' \in 0..MaxRequests,
           log' \in Seq(Changes), acks' \subseteq SUBSET Cids,
           Distinct', Stored', Told', PatchOnLatest'
    PROVE  IInv'
  <1>1. /\ req' \in [Handlers -> Requests] /\ locks' \in [Handlers -> SUBSET Nat]
        /\ \A h \in Handlers : At(h, "idle")' => locks'[h] = {}
        /\ Shapes' /\ Exclusive' /\ Held'
    BY MovesKeeps DEF IInv
  <1>2. bus' \in Seq(1..Len(log')) /\ audit' \subseteq 1..Len(log') /\ lost' \subseteq 1..Len(log')
    BY DEF Told, Delivered
  <1>3. Elements(bus') \subseteq 1..Len(log')
    BY <1>2, OfSeq
  <1>4. DOMAIN log' = 1..Len(log')
    OBVIOUS
  <1>5. TypeOK'
    BY <1>1, <1>2, <1>3, <1>4 DEF TypeOK
  <1> QED BY <1>1, <1>5 DEF IInv

(* Steps that change no row. *)
LEMMA Settles ==
    ASSUME IInv, NEW p \in Handlers, NEW q \in Requests, NEW k \in SUBSET Nat,
           Moves(p, q, k), Shape(q),
           \A h \in Handlers \ {p} : k \cap locks[h] = {},
           HeldBy(q, k, rows), Covered(q, Created),
           Elements(q.mine) \subseteq Inserted(p),
           requests' \in 0..MaxRequests, UNCHANGED <<rows, made, log>>,
           \A sent \in acks' : sent \in acks \/ sent \in SUBSET (Cids \cap Created),
           Told'
    PROVE  IInv'
  <1>1. /\ Uncommitted'[p] = Elements(q.mine)
        /\ \A h \in Handlers \ {p} : Uncommitted'[h] = Uncommitted[h]
        /\ \A h \in Handlers \ {p} : req'[h] = req[h]
        /\ req'[p] = q
    BY MovesHands DEF IInv
  <1>2. Distinct'
    <2>1. Uncommitted[p] = Inserted(p)
      BY DEF Uncommitted
    <2>2. \A h \in Handlers : Uncommitted'[h] \subseteq Uncommitted[h]
      BY <1>1, <2>1
    <2>3. Unlike(rows, Uncommitted, made, Overwritten) /\ made \in Nat
      BY DEF IInv, Distinct, TypeOK
    <2>4. Unlike(rows, Uncommitted', made, Overwritten)
      BY <2>2, <2>3, UnlikeLess
    <2>5. rows' = rows /\ made' = made /\ Overwritten' = Overwritten
      BY DEF Overwritten
    <2> QED BY <2>4, <2>5 DEF Distinct
  <1>3. Stored'
    <2>1. Created' = Created
      BY DEF Created
    <2>2. \A h \in Handlers : Covered(req'[h], Created)
      BY <1>1 DEF IInv, Stored
    <2>3. (\A r \in rows : r.cid \in Created) /\ (\A sent \in acks' : sent \subseteq Created)
      BY DEF IInv, Stored
    <2> QED BY <2>1, <2>2, <2>3 DEF Stored
  <1>4. PatchOnLatest'
    BY DEF IInv, PatchOnLatest, Updates
  <1>5. /\ rows' \subseteq Rows /\ made' \in Nat /\ log' \in Seq(Changes)
        /\ acks' \subseteq SUBSET Cids /\ HeldBy(q, k, rows') /\ rows' = rows
    BY DEF IInv, TypeOK
  <1> QED BY <1>2, <1>3, <1>4, <1>5, Writes

(* Steps that neither commit nor announce. *)
LEMMA NothingTold ==
    ASSUME IInv, NEW p \in Handlers, NEW q \in Requests, NEW k \in SUBSET Nat,
           Moves(p, q, k), Shape(q), q.tell = << >>, req[p].tell = << >>,
           UNCHANGED <<log, audit, bus, lost>>
    PROVE  Told'
  <1>1. /\ Untold' = [Untold EXCEPT ![p] = q.tell]
        /\ \A h \in Handlers \ {p} : req'[h] = req[h]
        /\ req'[p] = q
    BY MovesHands DEF IInv
  <1>2. Untold' = Untold
    BY <1>1 DEF Untold
  <1>3. Delivered(Len(log), bus, audit, lost, Untold)
    BY DEF IInv, Told
  <1>4. \A h \in Handlers : req'[h].pc = "emit" => Head(req'[h].tell) \in audit
    BY <1>1 DEF IInv, Told, At, Shape
  <1> QED BY <1>2, <1>3, <1>4 DEF Told, At

(* Steps that commit and announce nothing: arrival, reading, locking, and
   every end of a request without effect. *)
LEMMA Quiet ==
    ASSUME IInv, NEW p \in Handlers, NEW q \in Requests, NEW k \in SUBSET Nat,
           Moves(p, q, k), Shape(q),
           \A h \in Handlers \ {p} : k \cap locks[h] = {},
           HeldBy(q, k, rows), Covered(q, Created),
           Elements(q.mine) \subseteq Inserted(p),
           q.tell = << >>, req[p].tell = << >>,
           requests' \in 0..MaxRequests,
           UNCHANGED <<rows, made, log, audit, bus, lost, acks>>
    PROVE  IInv'
  <1>1. Told'
    BY NothingTold
  <1> QED BY <1>1, Settles

(* A request that ends with nothing to announce, and Release before it. *)
LEMMA Ends ==
    ASSUME IInv, NEW p \in Handlers, NEW k \in SUBSET Nat, k = {},
           Moves(p, Idle, k), req[p].tell = << >>,
           UNCHANGED <<rows, made, requests, log, audit, bus, lost, acks>>
    PROVE  IInv'
  <1>1. Idle \in Requests /\ Shape(Idle)
    BY IdleTyped
  <1>2. HeldBy(Idle, k, rows) /\ Covered(Idle, Created)
    BY DEF HeldBy, OnRow, Covered, Idle
  <1>3. Elements(Idle.mine) \subseteq Inserted(p) /\ Idle.tell = << >>
    BY OfNone DEF Idle
  <1>4. requests' \in 0..MaxRequests
    BY DEF IInv, TypeOK
  <1>5. \A h \in Handlers \ {p} : k \cap locks[h] = {}
    OBVIOUS
  <1> HIDE DEF Moves
  <1> QED BY <1>1, <1>2, <1>3, <1>4, <1>5, Quiet

(* What a request of p is like, from the invariant. *)
LEMMA OfRequest ==
    ASSUME IInv, NEW p \in Handlers
    PROVE  /\ req[p] \in Requests /\ Shape(req[p]) /\ HeldBy(req[p], locks[p], rows)
           /\ Covered(req[p], Created) /\ locks[p] \in SUBSET Nat
           /\ locks = [locks EXCEPT ![p] = locks[p]]
           /\ \A h \in Handlers \ {p} : locks[p] \cap locks[h] = {}
           /\ req[p].pc \notin {"check", "commit"} => locks[p] = {}
           /\ requests \in 0..MaxRequests
  BY DEF IInv, TypeOK, Shapes, Held, HeldBy, Stored, Exclusive, At

\* What the log says is well-typed.
LEMMA OfLog ==
    ASSUME log \in Seq(Changes)
    PROVE  /\ Len(log) \in Nat /\ DOMAIN log = 1..Len(log)
           /\ \A i \in DOMAIN log :
                 /\ log[i] \in Changes /\ log[i].id \in Nat /\ log[i].tag \in Nat
                 /\ log[i].cid \in Cids \cup {NoCid} /\ log[i].over \in Nat
  <1>1. \A i \in DOMAIN log : log[i] \in Changes
    OBVIOUS
  <1> QED BY <1>1 DEF Changes

-----------------------------------------------------------------------------
(* The quiet actions: requests arrive. *)
LEMMA Arrives ==
    ASSUME IInv, NEW p \in Handlers, NEW q \in Requests, Begin(p, q),
           Shape(q), ~OnRow(q), Covered(q, {}), q.mine = << >>, q.tell = << >>
    PROVE  IInv'
  <1>1. /\ req[p].pc = "idle" /\ requests < MaxRequests /\ requests' = requests + 1
        /\ req' = [req EXCEPT ![p] = q] /\ UNCHANGED <<rows, locks, made, log, audit, bus, lost, acks>>
    BY DEF Begin, At, history
  <1>2. locks[p] = {} /\ Shape(req[p]) /\ locks = [locks EXCEPT ![p] = locks[p]]
    BY <1>1, OfRequest
  <1>3. Moves(p, q, {})
    BY <1>1, <1>2 DEF Moves
  <1>4. HeldBy(q, {}, rows) /\ Covered(q, Created)
    BY DEF HeldBy, Covered
  <1>5. req[p].tell = << >>
    BY <1>1, <1>2 DEF Shape
  <1>6. requests' \in 0..MaxRequests
    BY <1>1, BoundsAssumption DEF IInv, TypeOK
  <1>7. Elements(q.mine) \subseteq Inserted(p)
    BY OfNone
  <1>8. \A h \in Handlers \ {p} : {} \cap locks[h] = {}
    OBVIOUS
  <1> QED BY <1>1, <1>3, <1>4, <1>5, <1>6, <1>7, <1>8, Quiet

LEMMA KeepsBeginBulk ==
    ASSUME IInv, NEW p \in Handlers, BeginBulk(p)
    PROVE  IInv'
  <1>1. PICK batch \in Batches :
          Begin(p, [Idle EXCEPT !.pc = "scan", !.op = "bulk", !.todo = batch,
                                !.sent = Elements(batch)])
    BY DEF BeginBulk
  <1>2. batch \in Todos
    <2>1. PICK n \in 1..MaxBatch : batch \in [1..n -> Cids]
      BY DEF Batches
    <2>2. 1..n \in SUBSET (1..MaxBatch)
      BY BoundsAssumption
    <2> QED BY <2>1, <2>2 DEF Todos
  <1>3. Elements(batch) \subseteq Cids
    BY <1>2, TodoTyped
  <1>4. PICK q : q = [Idle EXCEPT !.pc = "scan", !.op = "bulk", !.todo = batch,
                                  !.sent = Elements(batch)]
    OBVIOUS
  <1>5. q \in Requests
    BY <1>2, <1>3, <1>4, IdleTyped DEF Requests
  <1>6. /\ q.pc = "scan" /\ q.op = "bulk" /\ q.todo = batch /\ q.sent = Elements(batch)
        /\ q.mine = << >> /\ q.tell = << >>
    BY <1>4 DEF Idle
  <1>7. Shape(q) /\ ~OnRow(q)
    BY <1>3, <1>6 DEF Shape, OnRow
  <1>8. Covered(q, {})
    BY <1>6 DEF Covered, Pending
  <1> QED BY <1>1, <1>4, <1>5, <1>6, <1>7, <1>8, Arrives

LEMMA KeepsBeginPatch ==
    ASSUME IInv, NEW p \in Handlers, BeginPatch(p)
    PROVE  IInv'
  <1>1. PICK i \in Tagged, tag \in {log[j].tag : j \in Tagged} \cup {AnyTag} :
          Begin(p, [Idle EXCEPT !.pc = "lock", !.op = "patch", !.id = log[i].id,
                                !.expected = tag])
    BY DEF BeginPatch
  <1>2. log \in Seq(Changes)
    BY DEF IInv
  <1>3. \A j \in DOMAIN log : log[j].id \in Nat /\ log[j].tag \in Nat
    BY <1>2, OfLog
  <1>4. log[i].id \in Nat /\ tag \in Nat
    BY <1>1, <1>3 DEF Tagged, AnyTag
  <1>5. PICK q : q = [Idle EXCEPT !.pc = "lock", !.op = "patch", !.id = log[i].id,
                                  !.expected = tag]
    OBVIOUS
  <1>6. q \in Requests
    BY <1>4, <1>5, IdleTyped DEF Requests
  <1>7. /\ q.pc = "lock" /\ q.op = "patch" /\ q.todo = Idle.todo
        /\ q.mine = << >> /\ q.tell = << >>
    BY <1>5 DEF Idle
  <1>8. Shape(q) /\ ~OnRow(q) /\ Covered(q, {})
    BY <1>7, IdleTyped DEF Shape, OnRow, Covered, Idle
  <1> QED BY <1>1, <1>5, <1>6, <1>7, <1>8, Arrives

LEMMA KeepsBeginDelete ==
    ASSUME IInv, NEW p \in Handlers, BeginDelete(p)
    PROVE  IInv'
  <1>1. PICK n \in Known : Begin(p, [Idle EXCEPT !.pc = "lock", !.op = "delete", !.id = n])
    BY DEF BeginDelete
  <1>2. log \in Seq(Changes)
    BY DEF IInv
  <1>3. n \in Nat
    BY <1>2, OfLog DEF Known
  <1>4. PICK q : q = [Idle EXCEPT !.pc = "lock", !.op = "delete", !.id = n]
    OBVIOUS
  <1>5. q \in Requests
    BY <1>3, <1>4, IdleTyped DEF Requests
  <1>6. /\ q.pc = "lock" /\ q.op = "delete" /\ q.todo = Idle.todo
        /\ q.mine = << >> /\ q.tell = << >>
    BY <1>4 DEF Idle
  <1>7. Shape(q) /\ ~OnRow(q) /\ Covered(q, {})
    BY <1>6, IdleTyped DEF Shape, OnRow, Covered, Idle
  <1> QED BY <1>1, <1>4, <1>5, <1>6, <1>7, Arrives

LEMMA KeepsBeginMute ==
    ASSUME IInv, NEW p \in Handlers, BeginMute(p)
    PROVE  IInv'
  <1>1. PICK q : q = [Idle EXCEPT !.pc = "commit", !.op = "mute"]
    OBVIOUS
  <1>2. q \in Requests
    BY <1>1, IdleTyped DEF Requests
  <1>3. /\ q.pc = "commit" /\ q.op = "mute" /\ q.todo = Idle.todo
        /\ q.mine = << >> /\ q.tell = << >>
    BY <1>1 DEF Idle
  <1>4. Shape(q) /\ ~OnRow(q) /\ Covered(q, {})
    BY <1>3, IdleTyped DEF Shape, OnRow, Covered, Idle
  <1> QED BY <1>1, <1>2, <1>3, <1>4, Arrives DEF BeginMute

LEMMA KeepsBeginClear ==
    ASSUME IInv, NEW p \in Handlers, BeginClear(p)
    PROVE  IInv'
  <1>1. PICK scope \in SUBSET (Cids \cup {NoCid}) :
          Begin(p, [Idle EXCEPT !.pc = "lock", !.sent = scope])
    BY DEF BeginClear
  <1>2. PICK q : q = [Idle EXCEPT !.pc = "lock", !.sent = scope]
    OBVIOUS
  <1>3. q \in Requests
    BY <1>2, IdleTyped DEF Requests
  <1>4. /\ q.pc = "lock" /\ q.op = "clear" /\ q.todo = Idle.todo
        /\ q.mine = << >> /\ q.tell = << >>
    BY <1>2 DEF Idle
  <1>5. Shape(q) /\ ~OnRow(q) /\ Covered(q, {})
    BY <1>4, IdleTyped DEF Shape, OnRow, Covered, Idle
  <1> QED BY <1>1, <1>2, <1>3, <1>4, <1>5, Arrives

-----------------------------------------------------------------------------
(* The quiet actions: steps of a request. *)

\* Nothing is told before the commit.
LEMMA NothingToTell ==
    ASSUME IInv, NEW p \in Handlers, req[p].pc \notin {"audit", "emit"}
    PROVE  req[p].tell = << >>
  BY OfRequest DEF Shape

\* The SELECT: what it skips has been committed.
LEMMA KeepsScan ==
    ASSUME IInv, NEW p \in Handlers, Scan(p)
    PROVE  IInv'
  <1> DEFINE fresh == {i \in DOMAIN req[p].todo : req[p].todo[i] \notin Existing}
             todo == [i \in fresh |-> req[p].todo[i]]
  <1>1. /\ req[p].pc = "scan"
        /\ req' = [req EXCEPT ![p].pc = "insert", ![p].todo = todo]
        /\ UNCHANGED <<rows, locks, made, requests, log, audit, bus, lost, acks>>
    BY DEF Scan, At, history
  <1>2. /\ req[p] \in Requests /\ Shape(req[p]) /\ Covered(req[p], Created) /\ locks[p] = {}
        /\ locks = [locks EXCEPT ![p] = locks[p]] /\ requests \in 0..MaxRequests
    BY <1>1, OfRequest
  <1>3. req[p].todo \in Todos
    BY <1>2 DEF Requests
  <1>4. todo \in Todos
    BY <1>3, TodoTyped
  <1>5. Elements(req[p].todo) \subseteq Elements(todo) \cup Existing
    BY DEF Elements
  <1>6. Existing \subseteq Created
    BY DEF IInv, Stored, Existing
  <1> HIDE DEF todo
  <1>7. PICK q : q = [req[p] EXCEPT !.pc = "insert", !.todo = todo]
    OBVIOUS
  <1>8. q \in Requests
    BY <1>2, <1>4, <1>7 DEF Requests
  <1>9. /\ q.pc = "insert" /\ q.op = req[p].op /\ q.todo = todo /\ q.sent = req[p].sent
        /\ q.mine = req[p].mine /\ q.tell = req[p].tell
    BY <1>2, <1>7 DEF Requests
  <1>10. Shape(q) /\ q.op = "bulk"
    BY <1>1, <1>2, <1>9 DEF Shape
  <1>11. Covered(q, Created)
    BY <1>2, <1>5, <1>6, <1>9 DEF Covered, Pending
  <1>12. HeldBy(q, {}, rows)
    BY <1>9 DEF HeldBy, OnRow
  <1>13. Moves(p, q, {})
    BY <1>1, <1>2, <1>7 DEF Moves
  <1>14. req[p].tell = << >> /\ q.tell = << >>
    BY <1>1, <1>9, NothingToTell
  <1>15. Elements(q.mine) \subseteq Inserted(p)
    BY <1>9 DEF Inserted
  <1>16. \A h \in Handlers \ {p} : {} \cap locks[h] = {}
    OBVIOUS
  <1> QED BY <1>1, <1>2, <1>8, <1>10, <1>11, <1>12, <1>13, <1>14, <1>15, <1>16, Quiet

\* An error, a deadlock or a missing row ends a request that holds no lock.
LEMMA KeepsFailure ==
    ASSUME IInv, NEW p \in Handlers, InsertConflict(p) \/ DeadlockVictim(p) \/ NotFound(p)
    PROVE  IInv'
  <1>1. CASE InsertConflict(p)
    <2>1. req[p].pc = "insert" /\ Finish(p)
          /\ UNCHANGED <<rows, locks, made, requests, log, audit, bus, lost, acks>>
      BY <1>1 DEF InsertConflict, Inserting, At, history
    <2>2. locks[p] = {} /\ locks = [locks EXCEPT ![p] = locks[p]]
      BY <2>1, OfRequest
    <2>3. Moves(p, Idle, {})
      BY <2>1, <2>2 DEF Moves, Finish
    <2>4. req[p].tell = << >>
      BY <2>1, NothingToTell
    <2> QED BY <2>1, <2>3, <2>4, Ends
  <1>2. CASE DeadlockVictim(p)
    <2>1. req[p].pc = "insert" /\ Finish(p)
          /\ UNCHANGED <<rows, locks, made, requests, log, audit, bus, lost, acks>>
      BY <1>2 DEF DeadlockVictim, Inserting, At, history
    <2>2. locks[p] = {} /\ locks = [locks EXCEPT ![p] = locks[p]]
      BY <2>1, OfRequest
    <2>3. Moves(p, Idle, {})
      BY <2>1, <2>2 DEF Moves, Finish
    <2>4. req[p].tell = << >>
      BY <2>1, NothingToTell
    <2> QED BY <2>1, <2>3, <2>4, Ends
  <1>3. CASE NotFound(p)
    <2>1. req[p].pc = "lock" /\ Finish(p)
          /\ UNCHANGED <<rows, locks, made, requests, log, audit, bus, lost, acks>>
      BY <1>3 DEF NotFound, At, history
    <2>2. locks[p] = {} /\ locks = [locks EXCEPT ![p] = locks[p]]
      BY <2>1, OfRequest
    <2>3. Moves(p, Idle, {})
      BY <2>1, <2>2 DEF Moves, Finish
    <2>4. req[p].tell = << >>
      BY <2>1, NothingToTell
    <2> QED BY <2>1, <2>3, <2>4, Ends
  <1> QED BY <1>1, <1>2, <1>3

\* FOR UPDATE: the row read is the row locked.
LEMMA KeepsLockRow ==
    ASSUME IInv, NEW p \in Handlers, LockRow(p)
    PROVE  IInv'
  <1> DEFINE label == IF req[p].op = "patch" THEN "check" ELSE "commit"
  <1>1. /\ req[p].pc = "lock" /\ req[p].op # "clear"
        /\ \E r \in rows : r.id = req[p].id
        /\ \A h \in Handlers : req[p].id \notin locks[h]
        /\ locks' = [locks EXCEPT ![p] = {req[p].id}]
        /\ req' = [req EXCEPT ![p].pc = label, ![p].seen = Target(p).tag]
        /\ UNCHANGED <<rows, made, requests, log, audit, bus, lost, acks>>
    BY DEF LockRow, Granted, RowFree, At, history
  <1>2. /\ req[p] \in Requests /\ Shape(req[p]) /\ Covered(req[p], Created)
        /\ requests \in 0..MaxRequests
    BY <1>1, OfRequest
  <1>3. Target(p) \in rows /\ Target(p).id = req[p].id
    BY <1>1 DEF Target
  <1>4. Target(p).tag \in Nat /\ req[p].id \in Nat
    BY <1>2, <1>3 DEF IInv, TypeOK, Rows, Requests
  <1>5. label \in {"check", "commit"} /\ (label = "check" <=> req[p].op = "patch")
    OBVIOUS
  <1> HIDE DEF label
  <1>6. PICK q : q = [req[p] EXCEPT !.pc = label, !.seen = Target(p).tag]
    OBVIOUS
  <1>7. q \in Requests
    BY <1>2, <1>4, <1>5, <1>6 DEF Requests
  <1>8. /\ q.pc = label /\ q.op = req[p].op /\ q.todo = req[p].todo /\ q.sent = req[p].sent
        /\ q.mine = req[p].mine /\ q.tell = req[p].tell /\ q.id = req[p].id
        /\ q.seen = Target(p).tag
    BY <1>2, <1>6 DEF Requests
  <1>9. req[p].op \in {"patch", "delete"}
    BY <1>1, <1>2 DEF Shape
  <1>10. Shape(q)
    BY <1>1, <1>2, <1>5, <1>8, <1>9 DEF Shape
  <1>11. Covered(q, Created)
    BY <1>8, <1>9 DEF Covered
  <1>12. HeldBy(q, {req[p].id}, rows)
    BY <1>3, <1>5, <1>8, <1>9 DEF HeldBy, OnRow
  <1>13. Moves(p, q, {req[p].id})
    BY <1>1, <1>6 DEF Moves
  <1>14. req[p].tell = << >> /\ q.tell = << >>
    BY <1>1, <1>8, NothingToTell
  <1>15. Elements(q.mine) \subseteq Inserted(p)
    BY <1>8 DEF Inserted
  <1>16. \A h \in Handlers \ {p} : {req[p].id} \cap locks[h] = {}
    BY <1>1
  <1>17. {req[p].id} \in SUBSET Nat
    BY <1>4
  <1> QED BY <1>1, <1>2, <1>7, <1>10, <1>11, <1>12, <1>13, <1>14, <1>15, <1>16, <1>17, Quiet

\* If-Match holds.
LEMMA KeepsCheck ==
    ASSUME IInv, NEW p \in Handlers, Check(p)
    PROVE  IInv'
  <1>1. /\ req[p].pc = "check" /\ Matches(req[p])
        /\ req' = [req EXCEPT ![p].pc = "commit"]
        /\ UNCHANGED <<rows, locks, made, requests, log, audit, bus, lost, acks>>
    BY DEF Check, Goto, At, history
  <1>2. /\ req[p] \in Requests /\ Shape(req[p]) /\ Covered(req[p], Created)
        /\ HeldBy(req[p], locks[p], rows) /\ locks[p] \in SUBSET Nat
        /\ locks = [locks EXCEPT ![p] = locks[p]] /\ requests \in 0..MaxRequests
        /\ \A h \in Handlers \ {p} : locks[p] \cap locks[h] = {}
    BY <1>1, OfRequest
  <1>3. PICK q : q = [req[p] EXCEPT !.pc = "commit"]
    OBVIOUS
  <1>4. q \in Requests
    BY <1>2, <1>3 DEF Requests
  <1>5. /\ q.pc = "commit" /\ q.op = req[p].op /\ q.todo = req[p].todo /\ q.sent = req[p].sent
        /\ q.mine = req[p].mine /\ q.tell = req[p].tell /\ q.id = req[p].id
        /\ q.seen = req[p].seen /\ q.expected = req[p].expected
    BY <1>2, <1>3 DEF Requests
  <1>6. Shape(q) /\ q.op = "patch"
    BY <1>1, <1>2, <1>5 DEF Shape
  <1>7. Covered(q, Created)
    BY <1>6 DEF Covered
  <1>8. HeldBy(q, locks[p], rows)
    BY <1>1, <1>2, <1>5, <1>6 DEF HeldBy, OnRow, Matches
  <1>9. Moves(p, q, locks[p])
    BY <1>1, <1>2, <1>3 DEF Moves
  <1>10. req[p].tell = << >> /\ q.tell = << >>
    BY <1>1, <1>5, NothingToTell
  <1>11. Elements(q.mine) \subseteq Inserted(p)
    BY <1>5 DEF Inserted
  <1> QED BY <1>1, <1>2, <1>4, <1>6, <1>7, <1>8, <1>9, <1>10, <1>11, Quiet

\* If-Match fails: the transaction is dropped.
LEMMA KeepsRefuse ==
    ASSUME IInv, NEW p \in Handlers, Refuse(p)
    PROVE  IInv'
  <1>1. /\ req[p].pc = "check" /\ Moves(p, Idle, {})
        /\ UNCHANGED <<rows, made, requests, log, audit, bus, lost, acks>>
    BY DEF Refuse, Finish, Release, Moves, At, history
  <1>2. req[p].tell = << >>
    BY <1>1, NothingToTell
  <1> QED BY <1>1, <1>2, Ends

\* The DELETE of a cascade or wipe locks what it matches.
LEMMA KeepsLockAll ==
    ASSUME IInv, NEW p \in Handlers, LockAll(p)
    PROVE  IInv'
  <1> DEFINE k == {r.id : r \in Matched(p)}
  <1>1. /\ req[p].pc = "lock" /\ req[p].op = "clear"
        /\ \A r \in Matched(p) : \A h \in Handlers : r.id \notin locks[h]
        /\ locks' = [locks EXCEPT ![p] = k]
        /\ req' = [req EXCEPT ![p].pc = "commit"]
        /\ UNCHANGED <<rows, made, requests, log, audit, bus, lost, acks>>
    BY DEF LockAll, RowFree, Goto, At, history
  <1>2. /\ req[p] \in Requests /\ Shape(req[p]) /\ requests \in 0..MaxRequests
    BY <1>1, OfRequest
  <1>3. k \in SUBSET Nat
    BY DEF IInv, TypeOK, Rows, Matched
  <1>4. \A h \in Handlers \ {p} : k \cap locks[h] = {}
    BY <1>1
  <1> HIDE DEF k
  <1>5. PICK q : q = [req[p] EXCEPT !.pc = "commit"]
    OBVIOUS
  <1>6. q \in Requests
    BY <1>2, <1>5 DEF Requests
  <1>7. /\ q.pc = "commit" /\ q.op = "clear" /\ q.todo = req[p].todo /\ q.sent = req[p].sent
        /\ q.mine = req[p].mine /\ q.tell = req[p].tell
    BY <1>1, <1>2, <1>5 DEF Requests
  <1>8. Shape(q)
    BY <1>1, <1>2, <1>7 DEF Shape
  <1>9. Covered(q, Created) /\ HeldBy(q, k, rows)
    BY <1>7 DEF Covered, HeldBy, OnRow
  <1>10. Moves(p, q, k)
    BY <1>1, <1>5 DEF Moves
  <1>11. req[p].tell = << >> /\ q.tell = << >>
    BY <1>1, <1>7, NothingToTell
  <1>12. Elements(q.mine) \subseteq Inserted(p)
    BY <1>7 DEF Inserted
  <1> QED BY <1>1, <1>2, <1>3, <1>4, <1>6, <1>8, <1>9, <1>10, <1>11, <1>12, Quiet

-----------------------------------------------------------------------------
(* After the commit: audit row, event, or the end of the handler. *)

\* What a handler has to tell are numbers of commits.
LEMMA TellsCommits ==
    ASSUME IInv, NEW p \in Handlers
    PROVE  /\ Untold[p] = req[p].tell /\ req[p].tell \in Seq(1..Len(log))
           /\ req[p].tell # << >> <=> req[p].pc \in {"audit", "emit"}
           /\ Len(log) \in Nat /\ Delivered(Len(log), bus, audit, lost, Untold)
  <1>1. Delivered(Len(log), bus, audit, lost, Untold)
    BY DEF IInv, Told
  <1>2. Untold[p] = req[p].tell
    BY DEF Untold
  <1>3. Untold[p] \in Seq(1..Len(log))
    BY <1>1 DEF Delivered
  <1>4. req[p].tell # << >> <=> req[p].pc \in {"audit", "emit"}
    BY OfRequest DEF Shape
  <1>5. Len(log) \in Nat
    BY OfLog DEF IInv
  <1> QED BY <1>1, <1>2, <1>3, <1>4, <1>5

\* The audit row comes before the event.
LEMMA KeepsAudit ==
    ASSUME IInv, NEW p \in Handlers, Audit(p)
    PROVE  IInv'
  <1>1. /\ req[p].pc = "audit" /\ audit' = audit \cup {Head(req[p].tell)}
        /\ req' = [req EXCEPT ![p].pc = "emit"]
        /\ UNCHANGED <<rows, locks, made, requests, log, bus, lost, acks>>
    BY DEF Audit, Goto, At
  <1>2. /\ req[p] \in Requests /\ Shape(req[p]) /\ Covered(req[p], Created) /\ locks[p] = {}
        /\ locks = [locks EXCEPT ![p] = locks[p]] /\ requests \in 0..MaxRequests
    BY <1>1, OfRequest
  <1>3. /\ Untold[p] = req[p].tell /\ req[p].tell \in Seq(1..Len(log)) /\ req[p].tell # << >>
        /\ Len(log) \in Nat /\ Delivered(Len(log), bus, audit, lost, Untold)
    BY <1>1, TellsCommits
  <1>4. PICK q : q = [req[p] EXCEPT !.pc = "emit"]
    OBVIOUS
  <1>5. q \in Requests
    BY <1>2, <1>4 DEF Requests
  <1>6. /\ q.pc = "emit" /\ q.op = req[p].op /\ q.todo = req[p].todo /\ q.sent = req[p].sent
        /\ q.mine = req[p].mine /\ q.tell = req[p].tell
    BY <1>2, <1>4 DEF Requests
  <1>7. Shape(q)
    BY <1>1, <1>2, <1>3, <1>6 DEF Shape
  <1>8. Covered(q, Created) /\ HeldBy(q, {}, rows)
    BY <1>2, <1>6 DEF Covered, Pending, HeldBy, OnRow
  <1>9. Moves(p, q, {})
    BY <1>1, <1>2, <1>4 DEF Moves
  <1>10. Elements(q.mine) \subseteq Inserted(p)
    BY <1>6 DEF Inserted
  <1>11. Told'
    <2>1. /\ Untold' = [Untold EXCEPT ![p] = q.tell]
          /\ \A h \in Handlers \ {p} : req'[h] = req[h]
          /\ req'[p] = q
      BY <1>9, MovesHands DEF IInv
    <2>2. Untold' = Untold
      BY <1>6, <2>1 DEF Untold
    <2>3. Head(req[p].tell) \in 1..Len(log)
      BY <1>3
    <2>4. Delivered(Len(log), bus, audit \cup {Head(req[p].tell)}, lost, Untold)
      BY <1>3, <2>3, DeliveredAudit
    <2>5. \A h \in Handlers : req'[h].pc = "emit" => Head(req'[h].tell) \in audit'
      BY <1>1, <1>6, <2>1 DEF IInv, Told, At
    <2> QED BY <1>1, <2>2, <2>4, <2>5 DEF Told, At
  <1>12. \A h \in Handlers \ {p} : {} \cap locks[h] = {}
    OBVIOUS
  <1> QED BY <1>1, <1>2, <1>5, <1>7, <1>8, <1>9, <1>10, <1>11, <1>12, Settles

\* The event of one row, and the answer after the last.
LEMMA KeepsEmit ==
    ASSUME IInv, NEW p \in Handlers, Emit(p)
    PROVE  IInv'
  <1> DEFINE more == [req[p] EXCEPT !.pc = "audit", !.mine = << >>, !.tell = Tail(req[p].tell)]
  <1>1. /\ req[p].pc = "emit" /\ bus' = Append(bus, Head(req[p].tell))
        /\ Announce(p, Tail(req[p].tell))
        /\ acks' = IF req[p].op = "bulk" /\ Len(req[p].tell) = 1
                     THEN acks \cup {req[p].sent} ELSE acks
        /\ UNCHANGED <<rows, locks, made, requests, log, audit, lost>>
    BY DEF Emit, At
  <1>2. /\ req[p] \in Requests /\ Shape(req[p]) /\ Covered(req[p], Created) /\ locks[p] = {}
        /\ locks = [locks EXCEPT ![p] = locks[p]] /\ requests \in 0..MaxRequests
    BY <1>1, OfRequest
  <1>3. /\ Untold[p] = req[p].tell /\ req[p].tell \in Seq(1..Len(log)) /\ req[p].tell # << >>
        /\ Len(log) \in Nat /\ Delivered(Len(log), bus, audit, lost, Untold)
    BY <1>1, TellsCommits
  <1>4. Tail(req[p].tell) \in Seq(Nat)
    BY <1>2, <1>3, OfTail DEF Requests
  <1>5. PICK q : /\ q = IF Tail(req[p].tell) = << >> THEN Idle ELSE more
                 /\ req' = [req EXCEPT ![p] = q]
    BY <1>1 DEF Announce, Finish
  <1>6. more \in Requests
    <2>1. << >> \in Seq(Rows)
      OBVIOUS
    <2> QED BY <1>2, <1>4, <2>1 DEF Requests
  <1>7. /\ more.pc = "audit" /\ more.op = req[p].op /\ more.todo = req[p].todo /\ more.sent = req[p].sent
        /\ more.mine = << >> /\ more.tell = Tail(req[p].tell)
    BY <1>2 DEF Requests
  <1> HIDE DEF more
  <1>8. q \in Requests
    BY <1>5, <1>6, IdleTyped
  <1>9. Shape(q)
    <2>1. Tail(req[p].tell) # << >> => Shape(more)
      BY <1>1, <1>2, <1>7 DEF Shape
    <2> QED BY <1>5, <2>1, IdleTyped
  <1>10. q.tell = Tail(req[p].tell) /\ q.mine = << >> /\ q.pc \in {"idle", "audit"}
    BY <1>5, <1>7 DEF Idle
  <1>11. DOMAIN req[p].todo = {} /\ req[p].mine = << >>
    BY <1>1, <1>2 DEF Shape
  <1>12. Pending(req[p]) = {}
    BY <1>11, OfNone DEF Pending, Elements
  <1>13. req[p].op = "bulk" => req[p].sent \in SUBSET (Cids \cap Created)
    BY <1>2, <1>12 DEF Covered, Shape
  <1>14. Covered(q, Created)
    <2>1. Covered(more, Created)
      BY <1>7, <1>13 DEF Covered
    <2>2. Covered(Idle, Created)
      BY DEF Covered, Idle
    <2> QED BY <1>5, <2>1, <2>2
  <1>15. HeldBy(q, {}, rows)
    BY <1>10 DEF HeldBy, OnRow
  <1>16. Moves(p, q, {})
    BY <1>1, <1>2, <1>5 DEF Moves
  <1>17. Elements(q.mine) \subseteq Inserted(p)
    BY <1>10, OfNone
  <1>18. \A sent \in acks' : sent \in acks \/ sent \in SUBSET (Cids \cap Created)
    BY <1>1, <1>13
  <1>19. Told'
    <2>1. /\ Untold' = [Untold EXCEPT ![p] = q.tell]
          /\ \A h \in Handlers \ {p} : req'[h] = req[h]
          /\ req'[p] = q
      BY <1>16, MovesHands DEF IInv
    <2>2. Untold' = [Untold EXCEPT ![p] = Tail(@)]
      BY <1>3, <1>10, <2>1
    <2>3. Head(req[p].tell) \in audit
      BY <1>1 DEF IInv, Told, At
    <2>4. Delivered(Len(log), Append(bus, Head(Untold[p])), audit, lost, [Untold EXCEPT ![p] = Tail(@)])
      BY <1>3, <2>3, DeliveredEmit
    <2>5. \A h \in Handlers : req'[h].pc = "emit" => Head(req'[h].tell) \in audit
      BY <1>10, <2>1 DEF IInv, Told, At
    <2> QED BY <1>1, <1>3, <2>2, <2>4, <2>5 DEF Told, At
  <1>20. \A h \in Handlers \ {p} : {} \cap locks[h] = {}
    OBVIOUS
  <1> QED BY <1>1, <1>2, <1>8, <1>9, <1>14, <1>15, <1>16, <1>17, <1>18, <1>19, <1>20, Settles

\* A failure rolls the transaction back and leaves the commits unannounced.
LEMMA KeepsDie ==
    ASSUME IInv, NEW p \in Handlers, Die(p)
    PROVE  IInv'
  <1>1. /\ Moves(p, Idle, {}) /\ lost' = lost \cup Elements(req[p].tell)
        /\ UNCHANGED <<rows, made, requests, log, audit, bus, acks>>
    BY DEF Die, Finish, Release, Moves
  <1>2. /\ Untold[p] = req[p].tell /\ Len(log) \in Nat /\ Delivered(Len(log), bus, audit, lost, Untold)
    BY <1>1, TellsCommits
  <1>3. Told'
    <2>1. /\ Untold' = [Untold EXCEPT ![p] = << >>]
          /\ \A h \in Handlers \ {p} : req'[h] = req[h]
          /\ req'[p] = Idle
      BY <1>1, MovesHands DEF IInv, Idle
    <2>2. Delivered(Len(log), bus, audit, lost', Untold')
      BY <1>1, <1>2, <2>1, DeliveredDie
    <2>3. \A h \in Handlers : req'[h].pc = "emit" => Head(req'[h].tell) \in audit
      BY <2>1 DEF IInv, Told, At, Idle
    <2> QED BY <1>1, <2>2, <2>3 DEF Told, At
  <1>4. Idle \in Requests /\ Shape(Idle)
    BY IdleTyped
  <1>5. HeldBy(Idle, {}, rows) /\ Covered(Idle, Created)
    BY DEF HeldBy, OnRow, Covered, Idle
  <1>6. Elements(Idle.mine) \subseteq Inserted(p)
    BY OfNone DEF Idle
  <1>7. requests' \in 0..MaxRequests
    BY <1>1 DEF IInv, TypeOK
  <1>8. \A h \in Handlers \ {p} : {} \cap locks[h] = {}
    OBVIOUS
  <1> QED BY <1>1, <1>3, <1>4, <1>5, <1>6, <1>7, <1>8, Settles

-----------------------------------------------------------------------------
(* The actions that make or take rows without an event of their own. *)

\* An INSERT neither waits for somebody's row nor meets one.
LEMMA KeepsInsertRow ==
    ASSUME IInv, NEW p \in Handlers, InsertRow(p)
    PROVE  IInv'
  <1>1. PICK r : r = [cid |-> Item(p), id |-> made + 1, tag |-> made + 1]
    OBVIOUS
  <1>2. PICK todo : todo = [i \in Places(p) \ {Turn(p)} |-> req[p].todo[i]]
    OBVIOUS
  <1>3. /\ req[p].pc = "insert" /\ Places(p) # {} /\ Blockers(p) = {} /\ ~Duplicate(p)
        /\ made' = made + 1
        /\ req' = [req EXCEPT ![p].todo = todo, ![p].mine = Append(req[p].mine, r)]
        /\ UNCHANGED <<rows, locks, requests, log, audit, bus, lost, acks>>
    BY <1>1, <1>2 DEF InsertRow, Inserting, At, history
  <1>4. /\ req[p] \in Requests /\ Shape(req[p]) /\ Covered(req[p], Created) /\ locks[p] = {}
        /\ locks = [locks EXCEPT ![p] = locks[p]] /\ requests \in 0..MaxRequests
    BY <1>3, OfRequest
  <1>5. req[p].todo \in Todos /\ req[p].mine \in Seq(Rows) /\ made \in Nat
    BY <1>4 DEF Requests, IInv, TypeOK
  <1>6. Turn(p) \in Places(p) /\ Item(p) \in Cids
    BY <1>3, <1>5, TurnExists
  <1>7. todo \in Todos
    BY <1>2, <1>5, TodoTyped DEF Places
  <1>8. Elements(req[p].todo) \subseteq Elements(todo) \cup {Item(p)}
    BY <1>2 DEF Elements, Places, Item
  <1>9. r \in Rows /\ r.cid = Item(p) /\ r.id = made + 1 /\ r.tag = made + 1
    BY <1>1, <1>5, <1>6 DEF Rows
  <1>10. /\ Append(req[p].mine, r) \in Seq(Rows)
         /\ Elements(Append(req[p].mine, r)) = Inserted(p) \cup {r}
    BY <1>5, <1>9, OfAppend DEF Inserted
  <1>11. PICK q : q = [req[p] EXCEPT !.todo = todo, !.mine = Append(req[p].mine, r)]
    OBVIOUS
  <1>12. q \in Requests
    BY <1>4, <1>7, <1>10, <1>11 DEF Requests
  <1>13. /\ q.pc = req[p].pc /\ q.op = req[p].op /\ q.todo = todo /\ q.sent = req[p].sent
         /\ q.mine = Append(req[p].mine, r) /\ q.tell = req[p].tell
    BY <1>4, <1>11 DEF Requests
  <1>14. Shape(q) /\ q.op = "bulk"
    BY <1>3, <1>4, <1>13 DEF Shape
  <1>15. Covered(q, Created)
    <2>1. Pending(req[p]) \subseteq Pending(q)
      BY <1>8, <1>9, <1>10, <1>13 DEF Pending, Inserted
    <2> QED BY <1>4, <1>13, <2>1 DEF Covered
  <1>16. HeldBy(q, {}, rows)
    BY <1>3, <1>13 DEF HeldBy, OnRow
  <1>17. Moves(p, q, {})
    BY <1>3, <1>4, <1>11 DEF Moves
  <1>18. req[p].tell = << >> /\ q.tell = << >>
    BY <1>3, <1>13, NothingToTell
  <1>19. /\ Uncommitted'[p] = Uncommitted[p] \cup {r}
         /\ \A h \in Handlers \ {p} : Uncommitted'[h] = Uncommitted[h]
         /\ \A h \in Handlers \ {p} : req'[h] = req[h]
         /\ req'[p] = q
    <2>1. /\ Uncommitted'[p] = Elements(q.mine)
          /\ \A h \in Handlers \ {p} : Uncommitted'[h] = Uncommitted[h]
          /\ \A h \in Handlers \ {p} : req'[h] = req[h]
          /\ req'[p] = q
      BY <1>17, MovesHands DEF IInv
    <2>2. Uncommitted[p] = Inserted(p)
      BY DEF Uncommitted
    <2> QED BY <1>10, <1>13, <2>1, <2>2
  <1>20. Distinct'
    <2>1. Unlike(rows, Uncommitted, made, Overwritten)
      BY DEF IInv, Distinct
    <2>2. \A h \in Handlers : Uncommitted[h] = Inserted(h)
      BY DEF Uncommitted
    <2>3. \A h \in Handlers \ {p} : \A s \in Inserted(h) : s.cid # Item(p)
      BY <1>3 DEF Blockers
    <2>4. \A s \in rows \cup Inserted(p) : s.cid # Item(p)
      BY <1>3 DEF Duplicate
    <2>5. \A s \in rows \cup UNION {Uncommitted[h] : h \in Handlers} : s.cid # r.cid
      BY <1>9, <2>2, <2>3, <2>4
    <2>6. Unlike(rows, Uncommitted', made + 1, Overwritten)
      BY <1>5, <1>9, <1>19, <2>1, <2>2, <2>5, UnlikeInsert
    <2>7. Overwritten' = Overwritten
      BY <1>3 DEF Overwritten
    <2> QED BY <1>3, <2>6, <2>7 DEF Distinct
  <1>21. Stored'
    <2>1. Created' = Created
      BY <1>3 DEF Created
    <2>2. \A h \in Handlers : Covered(req'[h], Created)
      BY <1>15, <1>19 DEF IInv, Stored
    <2> QED BY <1>3, <2>1, <2>2 DEF IInv, Stored
  <1>22. Told'
    BY <1>3, <1>12, <1>14, <1>17, <1>18, NothingTold
  <1>23. PatchOnLatest'
    BY <1>3 DEF IInv, PatchOnLatest, Updates
  <1>24. /\ rows' \subseteq Rows /\ made' \in Nat /\ log' \in Seq(Changes)
         /\ acks' \subseteq SUBSET Cids /\ HeldBy(q, {}, rows') /\ rows' = rows
    BY <1>3, <1>5, <1>16 DEF IInv, TypeOK
  <1>25. \A h \in Handlers \ {p} : {} \cap locks[h] = {}
    OBVIOUS
  <1>26. requests' \in 0..MaxRequests
    BY <1>3, <1>4
  <1> QED BY <1>12, <1>14, <1>17, <1>20, <1>21, <1>22, <1>23, <1>24, <1>25, <1>26, Writes

\* The DELETE of a cascade or wipe removes only what it has locked.
LEMMA KeepsCommitClear ==
    ASSUME IInv, NEW p \in Handlers, CommitClear(p)
    PROVE  IInv'
  <1>1. /\ req[p].pc = "commit" /\ rows' = {r \in rows : r.id \notin locks[p]}
        /\ Moves(p, Idle, {})
        /\ UNCHANGED <<made, requests, log, audit, bus, lost, acks>>
    BY DEF CommitClear, Finish, Release, Moves, At, history
  <1>2. Idle \in Requests /\ Shape(Idle)
    BY IdleTyped
  <1>3. /\ Uncommitted'[p] = {}
        /\ \A h \in Handlers \ {p} : Uncommitted'[h] = Uncommitted[h]
        /\ \A h \in Handlers \ {p} : req'[h] = req[h]
        /\ req'[p] = Idle
    BY <1>1, MovesHands, OfNone DEF IInv, Idle
  <1>4. Distinct'
    <2>1. Unlike(rows, Uncommitted, made, Overwritten) /\ made \in Nat
      BY DEF IInv, Distinct, TypeOK
    <2>2. \A h \in Handlers : Uncommitted'[h] \subseteq Uncommitted[h]
      BY <1>3
    <2>3. Unlike(rows', Uncommitted', made, Overwritten)
      BY <1>1, <2>1, <2>2, UnlikeLess
    <2>4. Overwritten' = Overwritten
      BY <1>1 DEF Overwritten
    <2> QED BY <1>1, <2>3, <2>4 DEF Distinct
  <1>5. Stored'
    <2>1. Created' = Created
      BY <1>1 DEF Created
    <2>2. Covered(Idle, Created)
      BY DEF Covered, Idle
    <2>3. \A h \in Handlers : Covered(req'[h], Created)
      BY <1>3, <2>2 DEF IInv, Stored
    <2> QED BY <1>1, <2>1, <2>3 DEF IInv, Stored
  <1>6. req[p].tell = << >>
    BY <1>1, NothingToTell
  <1>7. Told'
    <2>1. Idle.tell = << >>
      BY DEF Idle
    <2> QED BY <1>1, <1>2, <1>6, <2>1, NothingTold
  <1>8. PatchOnLatest'
    BY <1>1 DEF IInv, PatchOnLatest, Updates
  <1>9. HeldBy(Idle, {}, rows')
    BY DEF HeldBy, OnRow, Idle
  <1>10. /\ rows' \subseteq Rows /\ made' \in Nat /\ log' \in Seq(Changes)
         /\ acks' \subseteq SUBSET Cids /\ requests' \in 0..MaxRequests
         /\ \A r \in rows : r \in rows' \/ r.id \in locks[p]
    BY <1>1 DEF IInv, TypeOK
  <1>11. \A h \in Handlers \ {p} : {} \cap locks[h] = {}
    OBVIOUS
  <1> QED BY <1>1, <1>2, <1>4, <1>5, <1>7, <1>8, <1>9, <1>10, <1>11, Writes

-----------------------------------------------------------------------------
(* The commits. *)

\* What a commit adds to the log.
LEMMA Logs ==
    ASSUME log \in Seq(Changes), NEW new \in Seq(Changes), log' = log \o new
    PROVE  /\ log' \in Seq(Changes) /\ Len(log') = Len(log) + Len(new)
           /\ DOMAIN log' = DOMAIN log \cup (Len(log) + 1)..(Len(log) + Len(new))
           /\ \A i \in DOMAIN log : log'[i] = log[i]
           /\ \A i \in DOMAIN new : /\ Len(log) + i \in DOMAIN log'
                                    /\ log'[Len(log) + i] = new[i]
           /\ \A i \in DOMAIN log' \ DOMAIN log : \E j \in DOMAIN new : log'[i] = new[j]
           /\ Overwritten' \subseteq Overwritten \cup {new[j].over : j \in DOMAIN new}
           /\ Created \subseteq Created'
           /\ \A j \in DOMAIN new : new[j].kind = "created" => new[j].cid \in Created'
  <1>1. /\ log' \in Seq(Changes) /\ Len(log') = Len(log) + Len(new)
        /\ DOMAIN log = 1..Len(log) /\ DOMAIN new = 1..Len(new) /\ DOMAIN log' = 1..Len(log')
        /\ Len(log) \in Nat /\ Len(new) \in Nat
    BY ConcatProperties
  <1>2. /\ \A i \in 1..Len(log) : log'[i] = log[i]
        /\ \A i \in (Len(log) + 1)..(Len(log) + Len(new)) : log'[i] = new[i - Len(log)]
    BY <1>1
  <1>3. PICK n, m : n = Len(log) /\ m = Len(new) /\ n \in Nat /\ m \in Nat
    BY <1>1
  <1>4. /\ 1..(n + m) = (1..n) \cup (n + 1)..(n + m)
        /\ \A i \in 1..m : n + i \in (n + 1)..(n + m) /\ (n + i) - n = i
        /\ \A i \in (n + 1)..(n + m) : i - n \in 1..m
    BY <1>3
  <1>5. DOMAIN log' = DOMAIN log \cup (Len(log) + 1)..(Len(log) + Len(new))
    BY <1>1, <1>3, <1>4
  <1>6. \A i \in DOMAIN log : log'[i] = log[i]
    BY <1>1, <1>2
  <1>7. \A i \in DOMAIN new : /\ Len(log) + i \in DOMAIN log'
                              /\ log'[Len(log) + i] = new[i]
    BY <1>1, <1>2, <1>3, <1>4, <1>5
  <1>8. \A i \in DOMAIN log' \ DOMAIN log : \E j \in DOMAIN new : log'[i] = new[j]
    BY <1>1, <1>2, <1>3, <1>4, <1>5
  <1> HIDE <1>1, <1>2, <1>3, <1>4
  <1>9. Overwritten' \subseteq Overwritten \cup {new[j].over : j \in DOMAIN new}
    BY <1>6, <1>8 DEF Overwritten
  <1>10. Created \subseteq Created'
    BY <1>5, <1>6 DEF Created
  <1>11. \A j \in DOMAIN new : new[j].kind = "created" => new[j].cid \in Created'
    BY <1>7 DEF Created
  <1> QED BY <1>1, <1>5, <1>6, <1>7, <1>8, <1>9, <1>10, <1>11

\* The handler that has committed has its commits to tell.
LEMMA Tells ==
    ASSUME IInv, NEW p \in Handlers, NEW q \in Requests, NEW k \in SUBSET Nat,
           NEW new \in Seq(Changes),
           Moves(p, q, k), q.pc # "emit", req[p].tell = << >>,
           q.tell = [i \in DOMAIN new |-> Len(log) + i],
           Len(log') = Len(log) + Len(new), UNCHANGED <<audit, bus, lost>>
    PROVE  Told'
  <1>0. Len(log) \in Nat /\ Len(new) \in Nat /\ DOMAIN new = 1..Len(new)
    BY OfLog DEF IInv
  <1>1. PICK n, m : n = Len(log) /\ m = Len(new) /\ n \in Nat /\ m \in Nat /\ DOMAIN new = 1..m
    BY <1>0
  <1>2. PICK s : s = [i \in 1..m |-> n + i]
    OBVIOUS
  <1>3. \A i \in 1..m : n + i \in 1..(n + m) /\ n + i \in (n + 1)..(n + m)
    BY <1>1
  <1>4. \A i \in (n + 1)..(n + m) : i - n \in 1..m /\ n + (i - n) = i
    BY <1>1
  <1>5. s \in Seq(1..(n + m))
    BY <1>1, <1>2, <1>3
  <1>6. Elements(s) = (n + 1)..(n + m)
    BY <1>2, <1>3, <1>4 DEF Elements
  <1>7. Once(s)
    BY <1>1, <1>2 DEF Once
  <1>8. /\ Untold' = [Untold EXCEPT ![p] = q.tell]
        /\ \A h \in Handlers \ {p} : req'[h] = req[h]
        /\ req'[p] = q
    BY MovesHands DEF IInv
  <1>9. q.tell = s
    BY <1>1, <1>2
  <1>10. Untold[p] = << >> /\ Delivered(n, bus, audit, lost, Untold)
    BY <1>1 DEF IInv, Told, Untold
  <1>11. Delivered(n + m, bus, audit, lost, [Untold EXCEPT ![p] = s])
    BY <1>1, <1>5, <1>6, <1>7, <1>10, DeliveredCommit
  <1>12. \A h \in Handlers : req'[h].pc = "emit" => Head(req'[h].tell) \in audit
    BY <1>8 DEF IInv, Told, At
  <1> QED BY <1>1, <1>8, <1>9, <1>11, <1>12 DEF Told, At

\* Only a PATCH adds to what PatchOnLatest speaks of.
LEMMA NoUpdate ==
    ASSUME log \in Seq(Changes), PatchOnLatest, NEW new \in Seq(Changes), log' = log \o new,
           \A j \in DOMAIN new : new[j].kind # "updated"
    PROVE  PatchOnLatest'
  <1>1. /\ \A i \in DOMAIN log : i \in DOMAIN log' /\ log'[i] = log[i]
        /\ \A i \in DOMAIN log' \ DOMAIN log : \E j \in DOMAIN new : log'[i] = new[j]
    BY Logs
  <1>2. Updates' = {i \in DOMAIN log' : log'[i].kind = "updated"}
    BY DEF Updates
  <1>3. Updates' = Updates /\ \A i \in Updates : log'[i] = log[i]
    BY <1>1, <1>2 DEF Updates
  <1>4. ASSUME NEW i \in Updates
        PROVE  /\ log'[i].over = log'[i].read
               /\ log'[i].expected # AnyTag =>
                     /\ log'[i].over = log'[i].expected
                     /\ \A j \in Updates \ {i} : log'[j].expected # log'[i].expected
    <2>1. /\ log[i].over = log[i].read
          /\ log[i].expected # AnyTag =>
                /\ log[i].over = log[i].expected
                /\ \A j \in Updates \ {i} : log[j].expected # log[i].expected
      BY DEF PatchOnLatest
    <2>2. \A j \in Updates : log'[j] = log[j]
      BY <1>3
    <2> QED BY <2>1, <2>2
  <1> QED BY <1>3, <1>4 DEF PatchOnLatest

LEMMA AppendAsConcat ==
    ASSUME NEW S, NEW s \in Seq(S), NEW e \in S
    PROVE  /\ Append(s, e) = s \o <<e>> /\ <<e>> \in Seq(S) /\ DOMAIN <<e>> = {1}
           /\ <<e>>[1] = e /\ Len(<<e>>) = 1 /\ <<Len(s) + 1>> = [i \in DOMAIN <<e>> |-> Len(s) + i]
  OBVIOUS

LEMMA ChangeTyped ==
    ASSUME NEW kind \in {"created", "updated", "deleted"}, NEW r \in Rows, NEW over \in Nat,
           NEW q \in Requests
    PROVE  /\ Change(kind, r, over, q) \in Changes
           /\ Change(kind, r, over, q).kind = kind /\ Change(kind, r, over, q).cid = r.cid
           /\ Change(kind, r, over, q).over = over /\ Change(kind, r, over, q).read = q.seen
           /\ Change(kind, r, over, q).expected = q.expected
  BY DEF Change, Changes, Rows, Requests

\* A batch becomes visible as a whole.
LEMMA KeepsCommitBatch ==
    ASSUME IInv, NEW p \in Handlers, CommitBatch(p)
    PROVE  IInv'
  <1>1. PICK mine, done, new :
          /\ mine = req[p].mine
          /\ done = [i \in DOMAIN mine |-> Len(log) + i]
          /\ new = [i \in DOMAIN mine |-> Change("created", mine[i], 0, req[p])]
    OBVIOUS
  <1>2. /\ req[p].pc = "insert" /\ Places(p) = {}
        /\ rows' = rows \cup Inserted(p)
        /\ log' = log \o new
        /\ Announce(p, done)
        /\ acks' = IF mine = << >> THEN acks \cup {req[p].sent} ELSE acks
        /\ UNCHANGED <<locks, made, requests, audit, bus, lost>>
    BY <1>1 DEF CommitBatch, At, Inserted
  <1>3. /\ req[p] \in Requests /\ Shape(req[p]) /\ Covered(req[p], Created) /\ locks[p] = {}
        /\ locks = [locks EXCEPT ![p] = locks[p]] /\ requests \in 0..MaxRequests
    BY <1>2, OfRequest
  <1>4. mine \in Seq(Rows) /\ Len(mine) \in Nat /\ DOMAIN mine = 1..Len(mine)
        /\ \A i \in DOMAIN mine : mine[i] \in Rows
    BY <1>1, <1>3 DEF Requests
  <1>5. \A i \in DOMAIN mine : /\ new[i] \in Changes /\ new[i].kind = "created"
                               /\ new[i].cid = mine[i].cid /\ new[i].over = 0
    <2> SUFFICES ASSUME NEW i \in DOMAIN mine
                 PROVE  /\ new[i] \in Changes /\ new[i].kind = "created"
                        /\ new[i].cid = mine[i].cid /\ new[i].over = 0
      OBVIOUS
    <2>1. new[i] = Change("created", mine[i], 0, req[p])
      BY <1>1
    <2>2. mine[i] \in Rows
      BY <1>4
    <2>3. /\ Change("created", mine[i], 0, req[p]) \in Changes
          /\ Change("created", mine[i], 0, req[p]).kind = "created"
          /\ Change("created", mine[i], 0, req[p]).cid = mine[i].cid
          /\ Change("created", mine[i], 0, req[p]).over = 0
      BY <1>3, <2>2, ChangeTyped
    <2> QED BY <2>1, <2>3
  <1>6. new \in Seq(Changes) /\ DOMAIN new = DOMAIN mine /\ Len(new) = Len(mine)
    <2>1. DOMAIN new = DOMAIN mine
      BY <1>1
    <2>2. new = [i \in 1..Len(mine) |-> new[i]]
      BY <1>1, <1>4, <2>1
    <2>3. new \in [1..Len(mine) -> Changes]
      BY <1>4, <1>5, <2>2
    <2> QED BY <1>4, <2>1, <2>3
  <1>7. log \in Seq(Changes) /\ Len(log) \in Nat
    BY OfLog DEF IInv
  <1>8. done \in Seq(Nat) /\ (done = << >> <=> mine = << >>)
    BY <1>1, <1>4, <1>7
  <1>9. PICK more : more = [req[p] EXCEPT !.pc = "audit", !.mine = << >>, !.tell = done]
    OBVIOUS
  <1>10. PICK q : /\ q = IF done = << >> THEN Idle ELSE more
                  /\ req' = [req EXCEPT ![p] = q]
    BY <1>2, <1>9 DEF Announce, Finish
  <1>11. << >> \in Seq(Rows)
    OBVIOUS
  <1>12. more \in Requests
    BY <1>3, <1>8, <1>9, <1>11 DEF Requests
  <1>13. /\ more.pc = "audit" /\ more.op = req[p].op /\ more.todo = req[p].todo
         /\ more.sent = req[p].sent /\ more.mine = << >> /\ more.tell = done
    BY <1>3, <1>9 DEF Requests
  <1>14. q \in Requests
    BY <1>10, <1>12, IdleTyped
  <1>15. Shape(q)
    <2>1. done # << >> => Shape(more)
      BY <1>2, <1>3, <1>13 DEF Shape, Places
    <2> QED BY <1>10, <2>1, IdleTyped
  <1>16. q.tell = done /\ q.mine = << >> /\ q.pc \in {"idle", "audit"}
    BY <1>10, <1>13 DEF Idle
  <1>17. /\ log' \in Seq(Changes) /\ Len(log') = Len(log) + Len(new)
         /\ Overwritten' \subseteq Overwritten \cup {new[j].over : j \in DOMAIN new}
         /\ Created \subseteq Created'
         /\ \A j \in DOMAIN new : new[j].kind = "created" => new[j].cid \in Created'
    BY <1>2, <1>6, <1>7, Logs
  <1>18. \A r \in Inserted(p) : r.cid \in Created'
    <2> SUFFICES ASSUME NEW i \in DOMAIN mine PROVE mine[i].cid \in Created'
      BY <1>1 DEF Inserted, Elements
    <2>1. new[i].kind = "created" /\ new[i].cid = mine[i].cid /\ i \in DOMAIN new
      BY <1>5, <1>6
    <2> QED BY <1>17, <2>1
  <1>19. req[p].op = "bulk" => req[p].sent \in SUBSET (Cids \cap Created')
    <2>1. Elements(req[p].todo) = {}
      BY <1>2 DEF Places, Elements
    <2>2. Pending(req[p]) \subseteq Created'
      BY <1>18, <2>1 DEF Pending, Inserted
    <2> QED BY <1>3, <1>17, <2>2 DEF Covered, Shape
  <1>20. Covered(q, Created')
    <2>1. Covered(more, Created')
      BY <1>13, <1>19 DEF Covered
    <2>2. Covered(Idle, Created')
      BY DEF Covered, Idle
    <2> QED BY <1>10, <2>1, <2>2
  <1>21. HeldBy(q, {}, rows')
    BY <1>16 DEF HeldBy, OnRow
  <1>22. Moves(p, q, {})
    BY <1>2, <1>3, <1>10 DEF Moves
  <1>23. /\ Uncommitted'[p] = Elements(q.mine)
         /\ \A h \in Handlers \ {p} : Uncommitted'[h] = Uncommitted[h]
         /\ \A h \in Handlers \ {p} : req'[h] = req[h]
         /\ req'[p] = q
    BY <1>22, MovesHands DEF IInv
  <1>24. Distinct'
    <2>1. Unlike(rows, Uncommitted, made, Overwritten) /\ made \in Nat
      BY DEF IInv, Distinct, TypeOK
    <2>2. Uncommitted'[p] = {} /\ Uncommitted[p] = Inserted(p)
      BY <1>16, <1>23, OfNone DEF Uncommitted
    <2>3. {new[j].over : j \in DOMAIN new} \subseteq {0}
      BY <1>5, <1>6
    <2>4. Overwritten' \subseteq Overwritten \cup {0}
      BY <1>17, <2>3
    <2>5. rows' = rows \cup Uncommitted[p]
      BY <1>2, <2>2
    <2>6. Unlike(rows', Uncommitted', made, Overwritten')
      BY <1>23, <2>1, <2>2, <2>4, <2>5, UnlikeCommit
    <2> QED BY <1>2, <2>6 DEF Distinct
  <1>25. Stored'
    <2>1. \A r \in rows' : r.cid \in Created'
      BY <1>2, <1>17, <1>18 DEF IInv, Stored
    <2>2. ASSUME NEW h \in Handlers PROVE Covered(req'[h], Created')
      <3>1. CASE h = p
        BY <1>20, <1>23, <3>1
      <3>2. CASE h # p
        <4>1. Covered(req[h], Created)
          BY DEF IInv, Stored
        <4> QED BY <1>17, <1>23, <3>2, <4>1 DEF Covered
      <3> QED BY <3>1, <3>2
    <2>3. req[p].op = "bulk"
      BY <1>2, <1>3 DEF Shape
    <2>4. \A sent \in acks' : sent \subseteq Created'
      BY <1>2, <1>17, <1>19, <2>3 DEF IInv, Stored
    <2> QED BY <2>1, <2>2, <2>4 DEF Stored
  <1>26. req[p].tell = << >>
    BY <1>2, NothingToTell
  <1>27. Told'
    <2>1. q.tell = [i \in DOMAIN new |-> Len(log) + i]
      BY <1>1, <1>6, <1>16
    <2>2. q.pc # "emit"
      BY <1>16
    <2>3. UNCHANGED <<audit, bus, lost>>
      BY <1>2
    <2> QED BY <1>6, <1>14, <1>17, <1>22, <1>26, <2>1, <2>2, <2>3, Tells
  <1>28. PatchOnLatest'
    <2>1. \A j \in DOMAIN new : new[j].kind # "updated"
      BY <1>5, <1>6
    <2>2. PatchOnLatest
      BY DEF IInv
    <2> QED BY <1>2, <1>6, <1>7, <2>1, <2>2, NoUpdate
  <1>29. rows' \subseteq Rows
    <2>1. Inserted(p) \subseteq Rows
      BY <1>1, <1>4, OfSeq DEF Inserted
    <2> QED BY <1>2, <2>1 DEF IInv, TypeOK
  <1>30. acks' \subseteq SUBSET Cids
    <2>1. req[p].op = "bulk"
      BY <1>2, <1>3 DEF Shape
    <2> QED BY <1>2, <1>19, <2>1 DEF IInv, TypeOK
  <1>31. /\ made' \in Nat /\ requests' \in 0..MaxRequests
         /\ \A r \in rows : r \in rows' \/ r.id \in locks[p]
         /\ \A h \in Handlers \ {p} : {} \cap locks[h] = {}
    BY <1>2, <1>3 DEF IInv, TypeOK
  <1> QED BY <1>14, <1>15, <1>17, <1>21, <1>22, <1>24, <1>25, <1>27, <1>28, <1>29, <1>30, <1>31, Writes

\* A commit of one row: PATCH, DELETE or a mute range.
One(p, e) ==
    /\ req[p].pc = "commit" /\ log' = Append(log, e) /\ Announce(p, <<Len(log) + 1>>)
    /\ locks' = [locks EXCEPT ![p] = {}]
    /\ UNCHANGED <<requests, audit, bus, lost, acks>>

LEMMA OneMoves ==
    ASSUME IInv, NEW p \in Handlers, NEW e, One(p, e)
    PROVE  \E q \in Requests :
              /\ Moves(p, q, {}) /\ Shape(q) /\ q.pc = "audit" /\ q.op # "bulk"
              /\ q.tell = <<Len(log) + 1>>
              /\ Uncommitted' = Uncommitted
              /\ \A h \in Handlers \ {p} : req'[h] = req[h]
              /\ req'[p] = q
  <1>1. /\ req[p] \in Requests /\ Shape(req[p])
    BY OfRequest
  <1>2. Len(log) \in Nat
    BY OfLog DEF IInv
  <1>3. PICK done : done = <<Len(log) + 1>> /\ done \in Seq(Nat) /\ done # << >>
    <2>1. Len(log) + 1 \in Nat
      BY <1>2
    <2>2. <<Len(log) + 1>> \in Seq(Nat) /\ <<Len(log) + 1>> # << >>
      BY <2>1
    <2> QED BY <2>2
  <1>4. << >> \in Seq(Rows)
    OBVIOUS
  <1>5. PICK q : q = [req[p] EXCEPT !.pc = "audit", !.mine = << >>, !.tell = done]
    OBVIOUS
  <1>6. q \in Requests
    BY <1>1, <1>3, <1>4, <1>5 DEF Requests
  <1>7. /\ q.pc = "audit" /\ q.op = req[p].op /\ q.todo = req[p].todo
        /\ q.sent = req[p].sent /\ q.mine = << >> /\ q.tell = done
    BY <1>1, <1>5 DEF Requests
  <1>8. Shape(q) /\ q.op # "bulk"
    BY <1>1, <1>3, <1>7 DEF Shape, One
  <1>9. Moves(p, q, {})
    BY <1>3, <1>5 DEF Moves, One, Announce
  <1>10. /\ Uncommitted'[p] = Elements(q.mine)
         /\ \A h \in Handlers \ {p} : Uncommitted'[h] = Uncommitted[h]
         /\ \A h \in Handlers \ {p} : req'[h] = req[h]
         /\ req'[p] = q
    BY <1>9, MovesHands DEF IInv
  <1>11. Uncommitted[p] = Elements(<< >>)
    BY <1>1 DEF Shape, Uncommitted, Inserted, One
  <1>12. \A h \in Handlers : Uncommitted'[h] = Uncommitted[h]
    BY <1>7, <1>10, <1>11
  <1>13. Uncommitted' = Uncommitted
    BY <1>12 DEF Uncommitted
  <1> QED BY <1>3, <1>6, <1>7, <1>8, <1>9, <1>10, <1>13

LEMMA OneLogs ==
    ASSUME IInv, NEW p \in Handlers, NEW e \in Changes, One(p, e)
    PROVE  /\ log' \in Seq(Changes) /\ Len(log') = Len(log) + 1
           /\ DOMAIN log' = DOMAIN log \cup {Len(log) + 1} /\ Len(log) + 1 \notin DOMAIN log
           /\ \A i \in DOMAIN log : log'[i] = log[i]
           /\ log'[Len(log) + 1] = e
           /\ Overwritten' \subseteq Overwritten \cup {e.over}
           /\ Created \subseteq Created' /\ (e.kind = "created" => e.cid \in Created')
           /\ e.kind # "updated" => PatchOnLatest'
           /\ Told'
  <1>1. log \in Seq(Changes) /\ Len(log) \in Nat /\ DOMAIN log = 1..Len(log)
    BY OfLog DEF IInv
  <1>2. PICK new : new = <<e>>
    OBVIOUS
  <1>3. /\ new \in Seq(Changes) /\ DOMAIN new = {1} /\ new[1] = e /\ Len(new) = 1
        /\ Append(log, e) = log \o new
        /\ <<Len(log) + 1>> = [i \in DOMAIN new |-> Len(log) + i]
    BY <1>1, <1>2, AppendAsConcat
  <1>4. log' = log \o new
    BY <1>3 DEF One
  <1>5. /\ log' \in Seq(Changes) /\ Len(log') = Len(log) + Len(new)
        /\ \A i \in DOMAIN log : log'[i] = log[i]
        /\ \A i \in DOMAIN new : log'[Len(log) + i] = new[i]
        /\ Overwritten' \subseteq Overwritten \cup {new[j].over : j \in DOMAIN new}
        /\ Created \subseteq Created'
        /\ \A j \in DOMAIN new : new[j].kind = "created" => new[j].cid \in Created'
    BY <1>1, <1>3, <1>4, Logs
  <1>6. DOMAIN log' = 1..(Len(log) + 1)
    BY <1>3, <1>5
  <1>7. DOMAIN log' = DOMAIN log \cup {Len(log) + 1} /\ Len(log) + 1 \notin DOMAIN log
    BY <1>1, <1>6
  <1>8. Overwritten' \subseteq Overwritten \cup {e.over} /\ (e.kind = "created" => e.cid \in Created')
    BY <1>3, <1>5
  <1>9. e.kind # "updated" => PatchOnLatest'
    <2>1. PatchOnLatest
      BY DEF IInv
    <2>2. e.kind # "updated" => \A j \in DOMAIN new : new[j].kind # "updated"
      BY <1>3
    <2> QED BY <1>1, <1>3, <1>4, <2>1, <2>2, NoUpdate
  <1>10. Told'
    <2>1. PICK q \in Requests :
            /\ Moves(p, q, {}) /\ q.pc = "audit" /\ q.tell = <<Len(log) + 1>>
      BY OneMoves
    <2>2. q.tell = [i \in DOMAIN new |-> Len(log) + i]
      BY <1>3, <2>1
    <2>3. req[p].tell = << >>
      BY NothingToTell DEF One
    <2>4. UNCHANGED <<audit, bus, lost>>
      BY DEF One
    <2>5. q.pc # "emit"
      BY <2>1
    <2> QED BY <1>3, <1>5, <2>1, <2>2, <2>3, <2>4, <2>5, Tells
  <1>11. log'[Len(log) + 1] = e /\ Len(log') = Len(log) + 1
    BY <1>3, <1>5
  <1> QED BY <1>5, <1>7, <1>8, <1>9, <1>10, <1>11

LEMMA OneKeeps ==
    ASSUME IInv, NEW p \in Handlers, NEW e \in Changes, One(p, e),
           \A r \in rows : r \in rows' \/ r.id \in locks[p],
           rows' \subseteq Rows, made' \in Nat,
           Unlike(rows', Uncommitted, made', Overwritten'),
           \A r \in rows' : r.cid \in Created',
           PatchOnLatest'
    PROVE  IInv'
  <1>1. PICK q \in Requests :
          /\ Moves(p, q, {}) /\ Shape(q) /\ q.pc = "audit" /\ q.op # "bulk"
          /\ Uncommitted' = Uncommitted
          /\ \A h \in Handlers \ {p} : req'[h] = req[h]
          /\ req'[p] = q
    BY OneMoves
  <1>2. log' \in Seq(Changes) /\ Created \subseteq Created' /\ Told'
    BY OneLogs
  <1>3. Distinct'
    BY <1>1 DEF Distinct
  <1>4. Stored'
    <2>1. ASSUME NEW h \in Handlers PROVE Covered(req'[h], Created')
      <3>1. CASE h = p
        BY <1>1, <3>1 DEF Covered
      <3>2. CASE h # p
        <4>1. Covered(req[h], Created)
          BY DEF IInv, Stored
        <4> QED BY <1>1, <1>2, <3>2, <4>1 DEF Covered
      <3> QED BY <3>1, <3>2
    <2>2. \A sent \in acks' : sent \subseteq Created'
      BY <1>2 DEF IInv, Stored, One
    <2> QED BY <2>1, <2>2 DEF Stored
  <1>5. HeldBy(q, {}, rows')
    BY <1>1 DEF HeldBy, OnRow
  <1>6. acks' \subseteq SUBSET Cids /\ requests' \in 0..MaxRequests
    BY DEF IInv, TypeOK, One
  <1>7. \A h \in Handlers \ {p} : {} \cap locks[h] = {}
    OBVIOUS
  <1> QED BY <1>1, <1>2, <1>3, <1>4, <1>5, <1>6, <1>7, Writes

\* What the handler reads in its transaction is what it overwrites.
LEMMA KeepsCommitPatch ==
    ASSUME IInv, NEW p \in Handlers, CommitPatch(p)
    PROVE  IInv'
  <1>1. PICK r \in rows : /\ r.id = req[p].id
                          /\ LET new == [r EXCEPT !.tag = made + 1]
                             IN  /\ rows' = (rows \ {r}) \cup {new}
                                 /\ log' = Append(log, Change("updated", new, r.tag, req[p]))
    BY DEF CommitPatch
  <1>2. PICK new : new = [r EXCEPT !.tag = made + 1]
    OBVIOUS
  <1>3. PICK e : e = Change("updated", new, r.tag, req[p])
    OBVIOUS
  <1>4. rows' = (rows \ {r}) \cup {new} /\ log' = Append(log, e)
    BY <1>1, <1>2, <1>3
  <1>5. made \in Nat /\ rows \subseteq Rows /\ r \in Rows /\ made' = made + 1
    BY <1>1 DEF CommitPatch, IInv, TypeOK
  <1>6. /\ new \in Rows /\ new.id = r.id /\ new.cid = r.cid /\ new.tag = made + 1 /\ r.tag \in Nat
    BY <1>2, <1>5 DEF Rows
  <1>7. req[p] \in Requests /\ HeldBy(req[p], locks[p], rows)
    BY OfRequest
  <1>8. /\ e \in Changes /\ e.kind = "updated" /\ e.cid = new.cid
        /\ e.over = r.tag /\ e.read = req[p].seen /\ e.expected = req[p].expected
    BY <1>3, <1>6, <1>7, ChangeTyped
  <1>9. One(p, e)
    BY <1>4 DEF CommitPatch, One, At, Release
  <1>10. req[p].id \in locks[p] /\ Matches(req[p])
         /\ \E s \in rows : s.id = req[p].id /\ s.tag = req[p].seen
    BY <1>7 DEF HeldBy, OnRow, CommitPatch, At
  <1>11. Unlike(rows, Uncommitted, made, Overwritten)
    BY DEF IInv, Distinct
  <1>12. \A s \in rows : s.id = r.id => s = r
    BY <1>1, <1>11 DEF Unlike
  <1>13. r.tag = req[p].seen
    BY <1>1, <1>10, <1>12
  <1>14. /\ log' \in Seq(Changes)
         /\ DOMAIN log' = DOMAIN log \cup {Len(log) + 1} /\ Len(log) + 1 \notin DOMAIN log
         /\ \A i \in DOMAIN log : log'[i] = log[i]
         /\ log'[Len(log) + 1] = e
         /\ Overwritten' \subseteq Overwritten \cup {e.over}
         /\ Created \subseteq Created'
    BY <1>8, <1>9, OneLogs
  <1>15. Unlike(rows', Uncommitted, made', Overwritten')
    BY <1>1, <1>4, <1>5, <1>6, <1>8, <1>11, <1>14, UnlikeUpdate
  <1>16. \A s \in rows' : s.cid \in Created'
    <2>1. \A s \in rows : s.cid \in Created
      BY DEF IInv, Stored
    <2> QED BY <1>1, <1>4, <1>6, <1>14, <2>1
  <1>17. PatchOnLatest'
    <2>1. PICK n : n = Len(log) + 1
      OBVIOUS
    <2>2. Updates' = Updates \cup {n} /\ n \notin Updates
      BY <1>8, <1>14, <2>1 DEF Updates
    <2>3. \A i \in Updates : log'[i] = log[i]
      BY <1>14 DEF Updates
    <2>4. e.over = e.read
      BY <1>8, <1>13
    <2>5. e.expected # AnyTag => e.over = e.expected
      BY <1>8, <1>10, <1>13 DEF Matches
    <2>6. \A i \in Updates : log[i].over # e.over
      <3>1. r.tag \notin Overwritten
        BY <1>1, <1>11 DEF Unlike
      <3> QED BY <1>8, <3>1 DEF Overwritten, Updates
    <2>7. \A i \in Updates :
            /\ log[i].over = log[i].read
            /\ log[i].expected # AnyTag =>
                  /\ log[i].over = log[i].expected
                  /\ \A j \in Updates \ {i} : log[j].expected # log[i].expected
      BY DEF IInv, PatchOnLatest
    <2>8. \A i \in Updates : e.expected # AnyTag => log[i].expected # e.expected
      BY <2>5, <2>6, <2>7
    <2>9. log'[n] = e
      BY <1>14, <2>1
    <2>10. ASSUME NEW i \in Updates \cup {n}
           PROVE  /\ log'[i].over = log'[i].read
                  /\ log'[i].expected # AnyTag =>
                        /\ log'[i].over = log'[i].expected
                        /\ \A j \in (Updates \cup {n}) \ {i} : log'[j].expected # log'[i].expected
      <3>1. CASE i = n
        <4>1. \A j \in (Updates \cup {n}) \ {n} : j \in Updates
          OBVIOUS
        <4> QED BY <2>3, <2>4, <2>5, <2>8, <2>9, <3>1, <4>1
      <3>2. CASE i \in Updates
        <4>1. log'[i].over = log'[i].read
          BY <2>3, <2>7, <3>2
        <4>2. log'[i].expected # AnyTag => log'[i].over = log'[i].expected
          BY <2>3, <2>7, <3>2
        <4>3. ASSUME NEW j \in (Updates \cup {n}) \ {i}, log'[i].expected # AnyTag
              PROVE  log'[j].expected # log'[i].expected
          <5>1. CASE j = n
            BY <2>3, <2>8, <2>9, <3>2, <4>3, <5>1
          <5>2. CASE j \in Updates
            BY <2>3, <2>7, <3>2, <4>3, <5>2
          <5> QED BY <5>1, <5>2
        <4> QED BY <4>1, <4>2, <4>3
      <3> QED BY <3>1, <3>2
    <2> QED BY <2>2, <2>10 DEF PatchOnLatest
  <1>18. \A s \in rows : s \in rows' \/ s.id \in locks[p]
    BY <1>1, <1>4, <1>10
  <1>19. rows' \subseteq Rows /\ made' \in Nat
    BY <1>4, <1>5, <1>6
  <1> QED BY <1>8, <1>9, <1>15, <1>16, <1>17, <1>18, <1>19, OneKeeps

\* A DELETE takes the row it has locked.
LEMMA KeepsCommitDelete ==
    ASSUME IInv, NEW p \in Handlers, CommitDelete(p)
    PROVE  IInv'
  <1>1. req[p] \in Requests /\ HeldBy(req[p], locks[p], rows)
    BY OfRequest
  <1>2. req[p].id \in locks[p] /\ \E s \in rows : s.id = req[p].id
    BY <1>1 DEF HeldBy, OnRow, CommitDelete, At
  <1>3. PICK r : r = Target(p)
    OBVIOUS
  <1>4. r \in rows /\ r.id = req[p].id
    BY <1>2, <1>3 DEF Target
  <1>5. PICK e : e = Change("deleted", r, r.tag, req[p])
    OBVIOUS
  <1>6. rows' = rows \ {r} /\ log' = Append(log, e) /\ made' = made
    BY <1>3, <1>5 DEF CommitDelete
  <1>7. made \in Nat /\ rows \subseteq Rows /\ r \in Rows /\ r.tag \in Nat
    BY <1>4 DEF IInv, TypeOK, Rows
  <1>8. e \in Changes /\ e.kind = "deleted" /\ e.over = r.tag
    BY <1>1, <1>5, <1>7, ChangeTyped
  <1>9. One(p, e)
    BY <1>6 DEF CommitDelete, One, At, Release
  <1>10. Overwritten' \subseteq Overwritten \cup {e.over} /\ Created \subseteq Created' /\ PatchOnLatest'
    BY <1>8, <1>9, OneLogs
  <1>11. Unlike(rows, Uncommitted, made, Overwritten)
    BY DEF IInv, Distinct
  <1>12. Unlike(rows', Uncommitted, made', Overwritten')
    BY <1>4, <1>6, <1>7, <1>8, <1>10, <1>11, UnlikeDelete
  <1>13. \A s \in rows' : s.cid \in Created'
    BY <1>6, <1>10 DEF IInv, Stored
  <1>14. \A s \in rows : s \in rows' \/ s.id \in locks[p]
    BY <1>2, <1>4, <1>6
  <1>15. rows' \subseteq Rows /\ made' \in Nat
    BY <1>6, <1>7
  <1> QED BY <1>8, <1>9, <1>10, <1>12, <1>13, <1>14, <1>15, OneKeeps

\* A mute range is a row of its own.
LEMMA KeepsCommitMute ==
    ASSUME IInv, NEW p \in Handlers, CommitMute(p)
    PROVE  IInv'
  <1>1. /\ req[p] \in Requests /\ HeldBy(req[p], locks[p], rows)
        /\ locks = [locks EXCEPT ![p] = locks[p]]
    BY OfRequest
  <1>2. locks[p] = {}
    BY <1>1 DEF HeldBy, CommitMute, At
  <1>3. PICK r : r = [cid |-> NoCid, id |-> made + 1, tag |-> made + 1]
    OBVIOUS
  <1>4. PICK e : e = Change("created", r, 0, req[p])
    OBVIOUS
  <1>5. rows' = rows \cup {r} /\ log' = Append(log, e) /\ made' = made + 1
    BY <1>3, <1>4 DEF CommitMute
  <1>6. made \in Nat /\ rows \subseteq Rows
    BY DEF IInv, TypeOK
  <1>7. r \in Rows /\ r.cid = NoCid /\ r.id = made + 1 /\ r.tag = made + 1
    BY <1>3, <1>6 DEF Rows
  <1>8. e \in Changes /\ e.kind = "created" /\ e.over = 0 /\ e.cid = NoCid
    BY <1>1, <1>4, <1>7, ChangeTyped
  <1>9. One(p, e)
    BY <1>1, <1>2, <1>5 DEF CommitMute, One, At
  <1>10. /\ Overwritten' \subseteq Overwritten \cup {e.over} /\ Created \subseteq Created' /\ PatchOnLatest'
         /\ NoCid \in Created'
    BY <1>8, <1>9, OneLogs
  <1>11. Unlike(rows, Uncommitted, made, Overwritten)
    BY DEF IInv, Distinct
  <1>12. Unlike(rows', Uncommitted, made', Overwritten')
    BY <1>5, <1>6, <1>7, <1>8, <1>10, <1>11, UnlikeMute
  <1>13. \A s \in rows' : s.cid \in Created'
    BY <1>5, <1>7, <1>10 DEF IInv, Stored
  <1>14. \A s \in rows : s \in rows' \/ s.id \in locks[p]
    BY <1>5
  <1>15. rows' \subseteq Rows /\ made' \in Nat
    BY <1>5, <1>6, <1>7
  <1> QED BY <1>8, <1>9, <1>10, <1>12, <1>13, <1>14, <1>15, OneKeeps

-----------------------------------------------------------------------------
(* The invariant holds from the start and is kept by every action. *)
LEMMA Initially == Init => IInv
  <1> SUFFICES ASSUME Init PROVE IInv
    OBVIOUS
  <1>1. /\ rows = {} /\ locks = [p \in Handlers |-> {}] /\ req = [p \in Handlers |-> Idle]
        /\ made = 0 /\ requests = 0
        /\ log = << >> /\ audit = {} /\ bus = << >> /\ lost = {} /\ acks = {}
    BY DEF Init
  <1>2. Idle \in Requests /\ Shape(Idle)
    BY IdleTyped
  <1>3. \A p \in Handlers : req[p] = Idle /\ locks[p] = {}
    BY <1>1
  <1> DEFINE idle == Idle
  <1>a. /\ idle.pc = "idle" /\ idle.op = "clear" /\ idle.mine = << >> /\ idle.tell = << >>
        /\ \A p \in Handlers : req[p] = idle
    BY <1>3 DEF Idle
  <1> HIDE DEF idle
  <1>4. log \in Seq(Changes) /\ DOMAIN log = {} /\ Len(log) = 0
    BY <1>1
  <1>5. TypeOK
    <2>1. Elements(bus) = {}
      BY <1>1, OfNone
    <2>2. requests \in 0..MaxRequests /\ made \in Nat
      BY <1>1, BoundsAssumption
    <2> QED BY <1>1, <1>2, <2>1, <2>2 DEF TypeOK
  <1>6. Shapes /\ Exclusive
    BY <1>2, <1>3 DEF Shapes, Exclusive
  <1>7. Held
    BY <1>3, <1>a DEF Held, HeldBy, OnRow
  <1>8. Distinct
    <2>1. \A p \in Handlers : Uncommitted[p] = {}
      BY <1>a, OfNone DEF Uncommitted, Inserted
    <2>2. Overwritten = {}
      BY <1>4 DEF Overwritten
    <2> QED BY <1>1, <2>1, <2>2 DEF Distinct, Unlike
  <1>9. Stored
    BY <1>1, <1>a DEF Stored, Covered
  <1>10. Told
    <2>1. Untold = [p \in Handlers |-> << >>]
      BY <1>a DEF Untold
    <2>2. << >> \in Seq(1..0) /\ 1..0 = {}
      OBVIOUS
    <2>3. \A p \in Handlers : Untold[p] = << >>
      BY <2>1
    <2>4. \A p \in Handlers : Untold[p] \in Seq(1..0) /\ Elements(Untold[p]) = {} /\ Once(Untold[p])
      BY <2>2, <2>3, OfNone
    <2>5. bus = << >> /\ Elements(bus) = {} /\ Once(bus)
      BY <1>1, OfNone
    <2>6. Untold \in [Handlers -> Seq(1..0)]
      BY <2>1, <2>2
    <2>7. Delivered(0, bus, audit, lost, Untold)
      BY <1>1, <2>2, <2>4, <2>5, <2>6 DEF Delivered, Once
    <2>8. \A p \in Handlers : ~At(p, "emit")
      BY <1>a DEF At
    <2> QED BY <1>4, <2>7, <2>8 DEF Told
  <1>11. PatchOnLatest
    BY <1>4 DEF PatchOnLatest, Updates
  <1> QED BY <1>4, <1>5, <1>6, <1>7, <1>8, <1>9, <1>10, <1>11 DEF IInv

LEMMA Stutters == IInv /\ UNCHANGED vars => IInv'
  <1> SUFFICES ASSUME IInv, UNCHANGED vars PROVE IInv'
    OBVIOUS
  <1>1. /\ rows' = rows /\ locks' = locks /\ req' = req /\ made' = made /\ requests' = requests
        /\ log' = log /\ audit' = audit /\ bus' = bus /\ lost' = lost /\ acks' = acks
    BY DEF vars
  <1>2. TypeOK'
    BY <1>1 DEF IInv, TypeOK, At
  <1>3. Shapes' /\ Exclusive' /\ Held'
    BY <1>1 DEF IInv, Shapes, Exclusive, Held
  <1>4. Distinct'
    <2>1. Uncommitted' = Uncommitted /\ Overwritten' = Overwritten
      BY <1>1 DEF Uncommitted, Overwritten, Inserted
    <2> QED BY <1>1, <2>1 DEF IInv, Distinct
  <1>5. Stored'
    <2>1. Created' = Created
      BY <1>1 DEF Created
    <2> QED BY <1>1, <2>1 DEF IInv, Stored
  <1>6. Told'
    <2>1. Untold' = Untold
      BY <1>1 DEF Untold
    <2> QED BY <1>1, <2>1 DEF IInv, Told, At
  <1>7. PatchOnLatest'
    BY <1>1 DEF IInv, PatchOnLatest, Updates
  <1> QED BY <1>1, <1>2, <1>3, <1>4, <1>5, <1>6, <1>7 DEF IInv

LEMMA Inductive == IInv /\ [Next]_vars => IInv'
  <1> SUFFICES ASSUME IInv, [Next]_vars PROVE IInv'
    OBVIOUS
  <1>1. ASSUME NEW p \in Handlers, BeginBulk(p) PROVE IInv'
    BY <1>1, KeepsBeginBulk
  <1>2. ASSUME NEW p \in Handlers, BeginPatch(p) PROVE IInv'
    BY <1>2, KeepsBeginPatch
  <1>3. ASSUME NEW p \in Handlers, BeginDelete(p) PROVE IInv'
    BY <1>3, KeepsBeginDelete
  <1>4. ASSUME NEW p \in Handlers, BeginMute(p) PROVE IInv'
    BY <1>4, KeepsBeginMute
  <1>5. ASSUME NEW p \in Handlers, BeginClear(p) PROVE IInv'
    BY <1>5, KeepsBeginClear
  <1>6. ASSUME NEW p \in Handlers, Step(p) PROVE IInv'
    <2>1. CASE Scan(p)
      BY <2>1, KeepsScan
    <2>2. CASE InsertRow(p)
      BY <2>2, KeepsInsertRow
    <2>3. CASE InsertConflict(p) \/ DeadlockVictim(p) \/ NotFound(p)
      BY <2>3, KeepsFailure
    <2>4. CASE CommitBatch(p)
      BY <2>4, KeepsCommitBatch
    <2>5. CASE LockRow(p)
      BY <2>5, KeepsLockRow
    <2>6. CASE Check(p)
      BY <2>6, KeepsCheck
    <2>7. CASE Refuse(p)
      BY <2>7, KeepsRefuse
    <2>8. CASE CommitPatch(p)
      BY <2>8, KeepsCommitPatch
    <2>9. CASE CommitDelete(p)
      BY <2>9, KeepsCommitDelete
    <2>10. CASE CommitMute(p)
      BY <2>10, KeepsCommitMute
    <2>11. CASE LockAll(p)
      BY <2>11, KeepsLockAll
    <2>12. CASE CommitClear(p)
      BY <2>12, KeepsCommitClear
    <2>13. CASE Audit(p)
      BY <2>13, KeepsAudit
    <2>14. CASE Emit(p)
      BY <2>14, KeepsEmit
    <2> QED BY <1>6, <2>1, <2>2, <2>3, <2>4, <2>5, <2>6, <2>7, <2>8, <2>9, <2>10, <2>11,
               <2>12, <2>13, <2>14 DEF Step
  <1>7. ASSUME NEW p \in Handlers, Die(p) PROVE IInv'
    BY <1>7, KeepsDie
  <1>8. CASE UNCHANGED vars
    BY <1>8, Stutters
  <1> QED BY <1>1, <1>2, <1>3, <1>4, <1>5, <1>6, <1>7, <1>8 DEF Next, Stopped

LEMMA Invariance == Spec => []IInv
  BY Initially, Inductive, PTL DEF Spec

-----------------------------------------------------------------------------
(* What it is all for. *)

\* The table's rows, locks and requests are well-typed, and only a handler
\* with a request holds a lock (routes/uniform_crud.rs).
THEOREM TypeCorrect == Spec => []TypeOK
  <1>1. IInv => TypeOK
    BY DEF IInv
  <1> QED BY <1>1, Invariance, PTL

\* However many batches with the same client ids race, and whatever their
\* SELECT has seen, a client id names one row (db/uniform.rs, bulk_insert).
THEOREM ClientIdsUnique == Spec => []OneRowPerClientId
  <1>1. IInv => OneRowPerClientId
    <2> SUFFICES ASSUME IInv PROVE OneRowPerClientId
      OBVIOUS
    <2>1. UNION {Uncommitted[p] : p \in Handlers} = UNION {Inserted(p) : p \in Handlers}
      BY DEF Uncommitted
    <2> QED BY <2>1 DEF IInv, Distinct, Unlike, OneRowPerClientId
  <1> QED BY <1>1, Invariance, PTL

\* A client that is answered 200 for a batch finds that each of its rows has
\* been committed: a duplicate is skipped only for a row that is visible, not
\* for one that may still be rolled back (db/uniform.rs, bulk_insert).
THEOREM BatchesStored == Spec => []AcknowledgedWasStored
  <1>1. IInv => AcknowledgedWasStored
    BY DEF IInv, Stored, Created, AcknowledgedWasStored
  <1> QED BY <1>1, Invariance, PTL

\* No PATCH overwrites fields it has not read, and If-Match is a
\* compare-and-set on the row (db/uniform.rs, patch).
THEOREM PatchesOnLatest == Spec => []PatchOnLatest
  <1>1. IInv => PatchOnLatest
    BY DEF IInv
  <1> QED BY <1>1, Invariance, PTL

-----------------------------------------------------------------------------
(* The rows and their events. *)

Ids(R) == {r.id : r \in R}
Logged(kind) == {log[i].id : i \in {j \in DOMAIN log : log[j].kind = kind}}

(* The ids of the rows that are there, that were once committed, that are
   gone, and that open transactions have inserted. *)
There == Ids(rows)
Made == Logged("created")
Deleted == Logged("deleted")
Gone == Deleted \cup cleared
Open == {r.id : r \in UNION {Inserted(p) : p \in Handlers}}

(* A row that was ever committed is there or gone; no row is both, and none
   that is gone is still to come. *)
Accounted ==
    /\ Made = There \cup Gone
    /\ Gone \subseteq 1..made
    /\ Gone \cap There = {}
    /\ Gone \cap Open = {}

\* Appending changes to the log adds their ids, each under its kind.
LEMMA LoggedConcat ==
    ASSUME log \in Seq(Changes), NEW new \in Seq(Changes), log' = log \o new,
           NEW kind
    PROVE  Logged(kind)' = Logged(kind) \cup {new[i].id : i \in {j \in DOMAIN new : new[j].kind = kind}}
  <1>1. /\ DOMAIN log' = DOMAIN log \cup (Len(log) + 1)..(Len(log) + Len(new))
        /\ \A i \in DOMAIN log : i \in DOMAIN log' /\ log'[i] = log[i]
        /\ \A i \in DOMAIN new : /\ Len(log) + i \in DOMAIN log'
                                 /\ log'[Len(log) + i] = new[i]
        /\ \A i \in DOMAIN log' \ DOMAIN log : \E j \in DOMAIN new : log'[i] = new[j]
    BY Logs
  <1>2. ASSUME NEW n \in Logged(kind)'
        PROVE  n \in Logged(kind) \cup {new[i].id : i \in {j \in DOMAIN new : new[j].kind = kind}}
    <2>1. PICK i \in DOMAIN log' : log'[i].kind = kind /\ n = log'[i].id
      BY <1>2 DEF Logged
    <2>2. CASE i \in DOMAIN log
      BY <1>1, <2>1, <2>2 DEF Logged
    <2>3. CASE i \notin DOMAIN log
      BY <1>1, <2>1, <2>3
    <2> QED BY <2>2, <2>3
  <1>3. Logged(kind) \subseteq Logged(kind)'
    BY <1>1 DEF Logged
  <1>4. ASSUME NEW i \in DOMAIN new, new[i].kind = kind
        PROVE  new[i].id \in Logged(kind)'
    BY <1>1, <1>4 DEF Logged
  <1> QED BY <1>2, <1>3, <1>4

\* The same for one change.
LEMMA LoggedAppend ==
    ASSUME log \in Seq(Changes), NEW e \in Changes, log' = Append(log, e)
    PROVE  /\ Made' = Made \cup (IF e.kind = "created" THEN {e.id} ELSE {})
           /\ Deleted' = Deleted \cup (IF e.kind = "deleted" THEN {e.id} ELSE {})
  <1>1. PICK new : new = <<e>>
    OBVIOUS
  <1>2. /\ log' = log \o new /\ new \in Seq(Changes) /\ DOMAIN new = {1} /\ new[1] = e
    BY <1>1, AppendAsConcat
  <1>3. ASSUME NEW kind
        PROVE  Logged(kind)' = Logged(kind) \cup (IF e.kind = kind THEN {e.id} ELSE {})
    <2>1. Logged(kind)' = Logged(kind) \cup {new[i].id : i \in {j \in DOMAIN new : new[j].kind = kind}}
      BY <1>2, LoggedConcat
    <2> QED BY <1>2, <2>1
  <1>4. Made' = Made \cup (IF e.kind = "created" THEN {e.id} ELSE {})
    BY <1>3 DEF Made
  <1>5. Deleted' = Deleted \cup (IF e.kind = "deleted" THEN {e.id} ELSE {})
    BY <1>3 DEF Deleted
  <1> QED BY <1>4, <1>5

\* What a step of p does to the inserted rows.
LEMMA OpenBy ==
    ASSUME IInv, NEW p \in Handlers, NEW q, req' = [req EXCEPT ![p] = q]
    PROVE  /\ Open' \subseteq Open \cup Ids(Elements(q.mine))
           /\ q.mine \in {<< >>, req[p].mine} => Open' \subseteq Open
  <1>1. req'[p] = q /\ \A h \in Handlers \ {p} : req'[h] = req[h]
    BY DEF IInv, TypeOK
  <1>2. Open' = {r.id : r \in UNION {Elements(req'[h].mine) : h \in Handlers}}
    BY DEF Open, Inserted
  <1>3. Open = {r.id : r \in UNION {Elements(req[h].mine) : h \in Handlers}}
    BY DEF Open, Inserted
  <1>4. ASSUME NEW h \in Handlers, NEW r \in Elements(req'[h].mine)
        PROVE  /\ r.id \in Open \cup Ids(Elements(q.mine))
               /\ q.mine \in {<< >>, req[p].mine} => r.id \in Open
    <2>1. CASE h = p
      <3>1. r \in Elements(q.mine) /\ Elements(q.mine) # {}
        BY <1>1, <1>4, <2>1
      <3>2. r.id \in Ids(Elements(q.mine))
        BY <3>1 DEF Ids
      <3>3. q.mine # << >>
        BY <3>1, OfNone
      <3>4. q.mine = req[p].mine => r.id \in Open
        BY <1>3, <3>1
      <3> QED BY <3>2, <3>3, <3>4
    <2>2. CASE h # p
      BY <1>1, <1>3, <1>4, <2>2
    <2> QED BY <2>1, <2>2
  <1> QED BY <1>2, <1>4

\* A step that leaves the table and the log alone and at most drops inserted
\* rows.
LEMMA AccountsQuiet ==
    ASSUME IInv, Accounted, NEW p \in Handlers, NEW q, req' = [req EXCEPT ![p] = q],
           q.mine \in {<< >>, req[p].mine}, UNCHANGED <<rows, log, cleared, made>>
    PROVE  Accounted'
  <1>1. Open' \subseteq Open
    BY OpenBy
  <1>2. UNCHANGED <<Made, There, Gone>>
    BY DEF Made, There, Gone, Deleted, Logged
  <1> QED BY <1>1, <1>2 DEF Accounted

\* What a handler goes on to say leaves the inserted rows of the others.
LEMMA OpenAnnounce ==
    ASSUME IInv, NEW p \in Handlers, NEW done, Announce(p, done)
    PROVE  \E q : req' = [req EXCEPT ![p] = q] /\ q.mine = << >>
  <1>1. req[p] \in Requests
    BY OfRequest
  <1>2. CASE done = << >>
    <2>1. req' = [req EXCEPT ![p] = Idle]
      BY <1>2 DEF Announce, Finish
    <2>2. Idle.mine = << >>
      BY DEF Idle
    <2> QED BY <2>1, <2>2
  <1>3. CASE done # << >>
    <2>1. PICK q : q = [req[p] EXCEPT !.pc = "audit", !.mine = << >>, !.tell = done]
      OBVIOUS
    <2>2. req' = [req EXCEPT ![p] = q]
      BY <1>3, <2>1 DEF Announce
    <2>3. q.mine = << >>
      BY <1>1, <2>1 DEF Requests
    <2> QED BY <2>2, <2>3
  <1> QED BY <1>2, <1>3

\* A new request has inserted nothing.
LEMMA BeginsEmpty ==
    \A p : BeginBulk(p) \/ BeginPatch(p) \/ BeginDelete(p) \/ BeginMute(p) \/ BeginClear(p)
             => \E q : Begin(p, q) /\ q.mine = << >>
  <1>1. ASSUME NEW p, BeginBulk(p) PROVE \E q : Begin(p, q) /\ q.mine = << >>
    <2>1. PICK batch \in Batches :
            Begin(p, [Idle EXCEPT !.pc = "scan", !.op = "bulk", !.todo = batch,
                                  !.sent = Elements(batch)])
      BY <1>1, Zenon DEF BeginBulk
    <2>2. PICK q : q = [Idle EXCEPT !.pc = "scan", !.op = "bulk", !.todo = batch,
                                    !.sent = Elements(batch)]
      OBVIOUS
    <2>3. Begin(p, q)
      BY <2>1, <2>2, Zenon
    <2>4. q.mine = << >>
      BY <2>2 DEF Idle
    <2> QED BY <2>3, <2>4
  <1>2. ASSUME NEW p, BeginPatch(p) PROVE \E q : Begin(p, q) /\ q.mine = << >>
    <2>1. PICK i \in Tagged, tag \in {log[j].tag : j \in Tagged} \cup {AnyTag} :
            Begin(p, [Idle EXCEPT !.pc = "lock", !.op = "patch", !.id = log[i].id,
                                  !.expected = tag])
      BY <1>2, Zenon DEF BeginPatch
    <2>2. PICK q : q = [Idle EXCEPT !.pc = "lock", !.op = "patch", !.id = log[i].id,
                                    !.expected = tag]
      OBVIOUS
    <2>3. Begin(p, q)
      BY <2>1, <2>2, Zenon
    <2>4. q.mine = << >>
      BY <2>2 DEF Idle
    <2> QED BY <2>3, <2>4
  <1>3. ASSUME NEW p, BeginDelete(p) PROVE \E q : Begin(p, q) /\ q.mine = << >>
    <2>1. PICK n \in Known : Begin(p, [Idle EXCEPT !.pc = "lock", !.op = "delete", !.id = n])
      BY <1>3, Zenon DEF BeginDelete
    <2>2. PICK q : q = [Idle EXCEPT !.pc = "lock", !.op = "delete", !.id = n]
      OBVIOUS
    <2>3. Begin(p, q)
      BY <2>1, <2>2, Zenon
    <2>4. q.mine = << >>
      BY <2>2 DEF Idle
    <2> QED BY <2>3, <2>4
  <1>4. ASSUME NEW p, BeginMute(p) PROVE \E q : Begin(p, q) /\ q.mine = << >>
    <2>1. PICK q : q = [Idle EXCEPT !.pc = "commit", !.op = "mute"]
      OBVIOUS
    <2>2. Begin(p, q)
      BY <1>4, <2>1 DEF BeginMute
    <2>3. q.mine = << >>
      BY <2>1 DEF Idle
    <2> QED BY <2>2, <2>3
  <1>5. ASSUME NEW p, BeginClear(p) PROVE \E q : Begin(p, q) /\ q.mine = << >>
    <2>1. PICK scope : Begin(p, [Idle EXCEPT !.pc = "lock", !.sent = scope])
      BY <1>5, Zenon DEF BeginClear
    <2>2. PICK q : q = [Idle EXCEPT !.pc = "lock", !.sent = scope]
      OBVIOUS
    <2>3. Begin(p, q)
      BY <2>1, <2>2, Zenon
    <2>4. q.mine = << >>
      BY <2>2 DEF Idle
    <2> QED BY <2>3, <2>4
  <1> QED BY <1>1, <1>2, <1>3, <1>4, <1>5

\* A handler that begins or ends, has its locks or speaks of its commits.
LEMMA AccountsElse ==
    ASSUME IInv, Accounted, NEW p \in Handlers,
           \/ BeginBulk(p) \/ BeginPatch(p) \/ BeginDelete(p) \/ BeginMute(p) \/ BeginClear(p)
           \/ Scan(p) \/ InsertConflict(p) \/ DeadlockVictim(p) \/ NotFound(p)
           \/ LockRow(p) \/ Check(p) \/ Refuse(p) \/ LockAll(p)
           \/ Audit(p) \/ Emit(p) \/ Die(p)
    PROVE  Accounted'
  <1>1. req[p] \in Requests
    BY OfRequest
  <1>2. CASE BeginBulk(p) \/ BeginPatch(p) \/ BeginDelete(p) \/ BeginMute(p) \/ BeginClear(p)
    <2>1. PICK q : Begin(p, q) /\ q.mine = << >>
      BY <1>2, BeginsEmpty
    <2>2. req' = [req EXCEPT ![p] = q] /\ UNCHANGED <<rows, log, cleared, made>>
      BY <2>1 DEF Begin, history
    <2> QED BY <2>1, <2>2, AccountsQuiet
  <1>3. ASSUME Finish(p), UNCHANGED <<rows, log, cleared, made>> PROVE Accounted'
    <2>1. req' = [req EXCEPT ![p] = Idle] /\ Idle.mine = << >>
      BY <1>3 DEF Finish, Idle
    <2> QED BY <1>3, <2>1, AccountsQuiet
  <1>4. CASE InsertConflict(p) \/ DeadlockVictim(p) \/ NotFound(p) \/ Refuse(p) \/ Die(p)
    <2>1. Finish(p) /\ UNCHANGED <<rows, log, cleared, made>>
      BY <1>4 DEF InsertConflict, DeadlockVictim, NotFound, Refuse, Die, history
    <2> QED BY <1>3, <2>1
  <1>5. CASE Scan(p)
    <2>1. PICK todo : /\ req' = [req EXCEPT ![p].pc = "insert", ![p].todo = todo]
                      /\ UNCHANGED <<rows, log, cleared, made>>
      BY <1>5 DEF Scan, history
    <2>2. PICK q : q = [req[p] EXCEPT !.pc = "insert", !.todo = todo]
      OBVIOUS
    <2>3. req' = [req EXCEPT ![p] = q] /\ q.mine = req[p].mine
      BY <1>1, <2>1, <2>2 DEF Requests
    <2> QED BY <2>1, <2>3, AccountsQuiet
  <1>6. ASSUME NEW label, Goto(p, label), UNCHANGED <<rows, log, cleared, made>>
        PROVE  Accounted'
    <2>1. PICK q : q = [req[p] EXCEPT !.pc = label]
      OBVIOUS
    <2>2. req' = [req EXCEPT ![p] = q] /\ q.mine = req[p].mine
      BY <1>1, <1>6, <2>1 DEF Goto, Requests
    <2> QED BY <1>6, <2>2, AccountsQuiet
  <1>7. CASE Check(p) \/ LockAll(p) \/ Audit(p)
    BY <1>6, <1>7 DEF Check, LockAll, Audit, history
  <1>8. CASE LockRow(p)
    <2>1. PICK pc, seen : /\ req' = [req EXCEPT ![p].pc = pc, ![p].seen = seen]
                          /\ UNCHANGED <<rows, log, cleared, made>>
      BY <1>8 DEF LockRow, history
    <2>2. PICK q : q = [req[p] EXCEPT !.pc = pc, !.seen = seen]
      OBVIOUS
    <2>3. req' = [req EXCEPT ![p] = q] /\ q.mine = req[p].mine
      BY <1>1, <2>1, <2>2 DEF Requests
    <2> QED BY <2>1, <2>3, AccountsQuiet
  <1>9. CASE Emit(p)
    <2>1. Announce(p, Tail(req[p].tell)) /\ UNCHANGED <<rows, log, cleared, made>>
      BY <1>9 DEF Emit
    <2>2. PICK q : req' = [req EXCEPT ![p] = q] /\ q.mine = << >>
      BY <2>1, OpenAnnounce
    <2> QED BY <2>1, <2>2, AccountsQuiet
  <1> QED BY <1>2, <1>4, <1>5, <1>7, <1>8, <1>9

\* A new row has an id that no row has had.
LEMMA AccountsInsert ==
    ASSUME IInv, Accounted, NEW p \in Handlers, InsertRow(p)
    PROVE  Accounted'
  <1>1. PICK r, todo : /\ r = [cid |-> Item(p), id |-> made + 1, tag |-> made + 1]
                       /\ req' = [req EXCEPT ![p].todo = todo, ![p].mine = Append(req[p].mine, r)]
    BY DEF InsertRow
  <1>2. UNCHANGED <<rows, log, cleared>> /\ made' = made + 1 /\ made \in Nat
    BY DEF InsertRow, history, IInv, TypeOK
  <1>3. PICK q : q = [req[p] EXCEPT !.todo = todo, !.mine = Append(req[p].mine, r)]
    OBVIOUS
  <1>4. req' = [req EXCEPT ![p] = q] /\ q.mine = Append(req[p].mine, r) /\ req[p].mine \in Seq(Rows)
    BY <1>1, <1>3, OfRequest DEF Requests
  <1>5. Item(p) \in Cids \cup {NoCid}
    <2>1. req[p].todo \in Todos /\ Places(p) # {}
      BY OfRequest DEF Requests, InsertRow, Inserting
    <2> QED BY <2>1, TurnExists
  <1>6. r \in Rows /\ r.id = made + 1
    BY <1>1, <1>2, <1>5 DEF Rows
  <1>7. Elements(q.mine) = Elements(req[p].mine) \cup {r}
    BY <1>4, <1>6, OfAppend
  <1>8. Open' \subseteq Open \cup {made + 1}
    <2>1. Open' \subseteq Open \cup Ids(Elements(q.mine))
      BY <1>4, OpenBy
    <2>2. Ids(Elements(q.mine)) \subseteq Open \cup {made + 1}
      BY <1>6, <1>7 DEF Ids, Open, Inserted
    <2> QED BY <2>1, <2>2
  <1>9. UNCHANGED <<Made, There, Gone>>
    BY <1>2 DEF Made, There, Gone, Deleted, Logged
  <1> QED BY <1>2, <1>8, <1>9 DEF Accounted

\* A batch's rows are created, and there.
LEMMA AccountsBatch ==
    ASSUME IInv, Accounted, NEW p \in Handlers, CommitBatch(p)
    PROVE  Accounted'
  <1>1. PICK mine, new, done :
          /\ mine = req[p].mine
          /\ new = [i \in DOMAIN mine |-> Change("created", mine[i], 0, req[p])]
          /\ done = [i \in DOMAIN mine |-> Len(log) + i]
    OBVIOUS
  <1>2. /\ rows' = rows \cup Elements(mine) /\ log' = log \o new
        /\ Announce(p, done) /\ UNCHANGED <<made, cleared>>
    BY <1>1 DEF CommitBatch
  <1>3. log \in Seq(Changes) /\ req[p] \in Requests
    BY OfRequest DEF IInv
  <1>4. mine \in Seq(Rows) /\ DOMAIN mine = 1..Len(mine) /\ Len(mine) \in Nat
        /\ \A i \in DOMAIN mine : mine[i] \in Rows
    BY <1>1, <1>3 DEF Requests
  <1>5. ASSUME NEW i \in DOMAIN mine
        PROVE  new[i] \in Changes /\ new[i].kind = "created" /\ new[i].id = mine[i].id
    <2>1. new[i] = Change("created", mine[i], 0, req[p]) /\ mine[i] \in Rows
      BY <1>1, <1>4
    <2>2. Change("created", mine[i], 0, req[p]).id = mine[i].id
      BY DEF Change
    <2>3. Change("created", mine[i], 0, req[p]) \in Changes
          /\ Change("created", mine[i], 0, req[p]).kind = "created"
      BY <1>3, <2>1, ChangeTyped
    <2> QED BY <2>1, <2>2, <2>3
  <1>6. new \in Seq(Changes) /\ DOMAIN new = DOMAIN mine
    <2>1. DOMAIN new = DOMAIN mine
      BY <1>1
    <2>2. new = [i \in 1..Len(mine) |-> new[i]]
      BY <1>1, <1>4, <2>1
    <2>3. new \in [1..Len(mine) -> Changes]
      BY <1>4, <1>5, <2>2
    <2> QED BY <1>4, <2>1, <2>3
  <1>7. Made' = Made \cup Ids(Elements(mine))
    <2>1. {new[i].id : i \in {j \in DOMAIN new : new[j].kind = "created"}} = Ids(Elements(mine))
      BY <1>5, <1>6 DEF Ids, Elements
    <2>2. Made' = Made \cup {new[i].id : i \in {j \in DOMAIN new : new[j].kind = "created"}}
      BY <1>2, <1>3, <1>6, LoggedConcat DEF Made
    <2> QED BY <2>1, <2>2
  <1>8. Deleted' = Deleted
    <2>1. {new[i].id : i \in {j \in DOMAIN new : new[j].kind = "deleted"}} = {}
      BY <1>5, <1>6
    <2>2. Deleted' = Deleted \cup {new[i].id : i \in {j \in DOMAIN new : new[j].kind = "deleted"}}
      BY <1>2, <1>3, <1>6, LoggedConcat DEF Deleted
    <2> QED BY <2>1, <2>2
  <1>9. Gone' = Gone
    BY <1>2, <1>8 DEF Gone
  <1>10. There' = There \cup Ids(Elements(mine))
    BY <1>2 DEF There, Ids
  <1>11. Open' \subseteq Open
    <2>1. PICK q : req' = [req EXCEPT ![p] = q] /\ q.mine = << >>
      BY <1>2, OpenAnnounce
    <2> QED BY <2>1, OpenBy
  <1>12. Ids(Elements(mine)) \subseteq Open
    BY <1>1 DEF Ids, Open, Inserted
  <1> QED BY <1>2, <1>7, <1>9, <1>10, <1>11, <1>12 DEF Accounted

\* A PATCH leaves a row with the same id.
LEMMA AccountsPatch ==
    ASSUME IInv, Accounted, NEW p \in Handlers, CommitPatch(p)
    PROVE  Accounted'
  <1>1. PICK r \in rows : LET new == [r EXCEPT !.tag = made + 1]
                          IN  /\ rows' = (rows \ {r}) \cup {new}
                              /\ log' = Append(log, Change("updated", new, r.tag, req[p]))
    BY DEF CommitPatch
  <1>2. PICK new : new = [r EXCEPT !.tag = made + 1]
    OBVIOUS
  <1>3. PICK e : e = Change("updated", new, r.tag, req[p])
    OBVIOUS
  <1>4. rows' = (rows \ {r}) \cup {new} /\ log' = Append(log, e)
    BY <1>1, <1>2, <1>3
  <1>5. made \in Nat /\ made' = made + 1 /\ r \in Rows /\ cleared' = cleared
        /\ log \in Seq(Changes) /\ req[p] \in Requests
    BY OfRequest DEF CommitPatch, IInv, TypeOK
  <1>6. new \in Rows /\ new.id = r.id /\ r.tag \in Nat
    BY <1>2, <1>5 DEF Rows
  <1>7. e \in Changes /\ e.kind = "updated"
    BY <1>3, <1>5, <1>6, ChangeTyped
  <1>8. Made' = Made /\ Deleted' = Deleted
    BY <1>4, <1>5, <1>7, LoggedAppend
  <1>9. There' = There
    BY <1>4, <1>6 DEF There, Ids
  <1>10. Gone' = Gone
    BY <1>5, <1>8 DEF Gone
  <1>11. Open' \subseteq Open
    <2>1. PICK q : req' = [req EXCEPT ![p] = q] /\ q.mine = << >>
      BY OpenAnnounce DEF CommitPatch
    <2> QED BY <2>1, OpenBy
  <1> QED BY <1>5, <1>8, <1>9, <1>10, <1>11 DEF Accounted

\* A DELETE takes one row, and its id.
LEMMA AccountsDelete ==
    ASSUME IInv, Accounted, NEW p \in Handlers, CommitDelete(p)
    PROVE  Accounted'
  <1>1. PICK r : r = Target(p)
    OBVIOUS
  <1>2. PICK e : e = Change("deleted", r, r.tag, req[p])
    OBVIOUS
  <1>3. rows' = rows \ {r} /\ log' = Append(log, e) /\ UNCHANGED <<made, cleared>>
    BY <1>1, <1>2 DEF CommitDelete
  <1>4. req[p] \in Requests /\ HeldBy(req[p], locks[p], rows) /\ log \in Seq(Changes)
        /\ made \in Nat
    BY OfRequest DEF IInv, TypeOK
  <1>5. \E s \in rows : s.id = req[p].id
    BY <1>4 DEF HeldBy, OnRow, CommitDelete, At
  <1>6. r \in rows /\ r \in Rows /\ r.tag \in Nat
    BY <1>1, <1>5 DEF Target, IInv, TypeOK, Rows
  <1>7. e \in Changes /\ e.kind = "deleted"
    BY <1>2, <1>4, <1>6, ChangeTyped
  <1>8. e.id = r.id
    BY <1>2 DEF Change
  <1>9. Made' = Made /\ Deleted' = Deleted \cup {r.id}
    BY <1>3, <1>4, <1>7, <1>8, LoggedAppend
  <1>10. Unlike(rows, Uncommitted, made, Overwritten)
    BY DEF IInv, Distinct
  <1>11. (\A s \in rows : s.id = r.id => s = r) /\ r.id \in 1..made
    BY <1>6, <1>10 DEF Unlike
  <1>12. r.id \notin Open
    <2>1. SUFFICES ASSUME NEW h \in Handlers, NEW s \in Inserted(h), s.id = r.id PROVE FALSE
      BY DEF Open
    <2>2. Uncommitted[h] = Inserted(h)
      BY DEF Uncommitted
    <2>3. s \in rows \cup UNION {Uncommitted[x] : x \in Handlers}
      BY <2>2
    <2>4. s = r
      BY <1>6, <1>10, <2>1, <2>3 DEF Unlike
    <2> QED BY <1>6, <1>10, <2>2, <2>4 DEF Unlike
  <1>13. There' = There \ {r.id} /\ r.id \in There
    BY <1>3, <1>6, <1>11 DEF There, Ids
  <1>14. Gone' = Gone \cup {r.id}
    BY <1>3, <1>9 DEF Gone
  <1>15. Open' \subseteq Open
    <2>1. PICK q : req' = [req EXCEPT ![p] = q] /\ q.mine = << >>
      BY OpenAnnounce DEF CommitDelete
    <2> QED BY <2>1, OpenBy
  <1> QED BY <1>3, <1>9, <1>11, <1>12, <1>13, <1>14, <1>15 DEF Accounted

\* A mute is created under an id that no row has had.
LEMMA AccountsMute ==
    ASSUME IInv, Accounted, NEW p \in Handlers, CommitMute(p)
    PROVE  Accounted'
  <1>1. PICK r : r = [cid |-> NoCid, id |-> made + 1, tag |-> made + 1]
    OBVIOUS
  <1>2. PICK e : e = Change("created", r, 0, req[p])
    OBVIOUS
  <1>3. rows' = rows \cup {r} /\ log' = Append(log, e) /\ made' = made + 1 /\ cleared' = cleared
    BY <1>1, <1>2 DEF CommitMute
  <1>4. req[p] \in Requests /\ log \in Seq(Changes) /\ made \in Nat
    BY OfRequest DEF IInv, TypeOK
  <1>5. r \in Rows /\ r.id = made + 1
    BY <1>1, <1>4 DEF Rows
  <1>6. e \in Changes /\ e.kind = "created"
    BY <1>2, <1>4, <1>5, ChangeTyped
  <1>7. e.id = made + 1
    BY <1>2, <1>5 DEF Change
  <1>8. Made' = Made \cup {made + 1} /\ Deleted' = Deleted
    BY <1>3, <1>4, <1>6, <1>7, LoggedAppend
  <1>9. There' = There \cup {made + 1}
    BY <1>3, <1>5 DEF There, Ids
  <1>10. Gone' = Gone
    BY <1>3, <1>8 DEF Gone
  <1>11. Open' \subseteq Open
    <2>1. PICK q : req' = [req EXCEPT ![p] = q] /\ q.mine = << >>
      BY OpenAnnounce DEF CommitMute
    <2> QED BY <2>1, OpenBy
  <1> QED BY <1>3, <1>4, <1>8, <1>9, <1>10, <1>11 DEF Accounted

\* A wipe or a cascade takes rows without a word.
LEMMA AccountsClear ==
    ASSUME IInv, Accounted, NEW p \in Handlers, CommitClear(p)
    PROVE  Accounted'
  <1>1. /\ rows' \subseteq rows /\ cleared' = cleared \cup Ids(rows \ rows')
        /\ req' = [req EXCEPT ![p] = Idle] /\ UNCHANGED <<made, log>>
    BY DEF CommitClear, Finish, Ids
  <1>2. PICK taken : taken = Ids(rows \ rows')
    OBVIOUS
  <1>3. Unlike(rows, Uncommitted, made, Overwritten)
    BY DEF IInv, Distinct
  <1>4. (\A r, s \in rows : r.id = s.id => r = s) /\ \A r \in rows : r.id \in 1..made
    BY <1>3 DEF Unlike
  <1>5. taken \cap There' = {} /\ There = There' \cup taken
    BY <1>1, <1>2, <1>4 DEF There, Ids
  <1>6. There \cap Open = {}
    <2>1. SUFFICES ASSUME NEW r \in rows, NEW h \in Handlers, NEW s \in Inserted(h), s.id = r.id
                   PROVE  FALSE
      BY DEF Open, There, Ids
    <2>2. Uncommitted[h] = Inserted(h)
      BY DEF Uncommitted
    <2>3. s \in rows \cup UNION {Uncommitted[x] : x \in Handlers}
      BY <2>2
    <2>4. s = r
      BY <1>3, <2>1, <2>3 DEF Unlike
    <2> QED BY <1>3, <2>2, <2>4 DEF Unlike
  <1>7. Made' = Made /\ Deleted' = Deleted
    BY <1>1 DEF Made, Deleted, Logged
  <1>8. Gone' = Gone \cup taken
    BY <1>1, <1>2, <1>7 DEF Gone
  <1>9. Open' \subseteq Open
    <2>1. Idle.mine = << >>
      BY DEF Idle
    <2> QED BY <1>1, <2>1, OpenBy
  <1>10. There \subseteq 1..made
    BY <1>4 DEF There, Ids
  <1> QED BY <1>1, <1>5, <1>6, <1>7, <1>8, <1>9, <1>10 DEF Accounted

LEMMA AccountsInit == Init => Accounted
  <1> SUFFICES ASSUME Init PROVE Accounted
    OBVIOUS
  <1>1. rows = {} /\ cleared = {} /\ log = << >> /\ \A p \in Handlers : req[p].mine = << >>
    BY DEF Init, Idle
  <1>2. Made = {} /\ Deleted = {}
    BY <1>1 DEF Made, Deleted, Logged
  <1>3. There = {} /\ Gone = {}
    BY <1>1, <1>2 DEF There, Gone, Ids
  <1> QED BY <1>2, <1>3 DEF Accounted

LEMMA AccountsNext == IInv /\ Accounted /\ [Next]_vars => Accounted'
  <1> SUFFICES ASSUME IInv, Accounted, [Next]_vars PROVE Accounted'
    OBVIOUS
  <1>1. CASE UNCHANGED vars
    <2>1. UNCHANGED <<rows, log, cleared, made, req>>
      BY <1>1 DEF vars
    <2>2. UNCHANGED <<Made, There, Gone, Open>>
      BY <2>1 DEF Made, There, Gone, Deleted, Logged, Open, Inserted
    <2> QED BY <2>1, <2>2 DEF Accounted
  <1>2. ASSUME NEW p \in Handlers, Step(p) PROVE Accounted'
    BY <1>2, AccountsElse, AccountsInsert, AccountsBatch, AccountsPatch, AccountsDelete,
       AccountsMute, AccountsClear DEF Step
  <1>3. ASSUME NEW p \in Handlers,
               \/ BeginBulk(p) \/ BeginPatch(p) \/ BeginDelete(p) \/ BeginMute(p) \/ BeginClear(p)
               \/ Die(p)
        PROVE  Accounted'
    BY <1>3, AccountsElse
  <1> QED BY <1>1, <1>2, <1>3 DEF Next, Stopped

LEMMA AccountsInvariance == Spec => [](IInv /\ Accounted)
  BY Initially, AccountsInit, Inductive, AccountsNext, PTL DEF Spec

\* A change is announced, lost or with a handler, and there is nothing else.
LEMMA TellsAll ==
    ASSUME IInv
    PROVE  DOMAIN log = Elements(bus) \cup lost \cup Outstanding
  <1>1. Delivered(Len(log), bus, audit, lost, Untold) /\ DOMAIN log = 1..Len(log)
    BY OfLog DEF IInv, Told
  <1>2. UNION {Elements(Untold[p]) : p \in Handlers} = Outstanding
    <2>1. \A p \in Handlers : Untold[p] = req[p].tell
      BY DEF Untold
    <2> QED BY <2>1 DEF Outstanding
  <1>3. Elements(bus) \subseteq 1..Len(log) /\ lost \subseteq 1..Len(log)
    BY <1>1, OfSeq DEF Delivered
  <1>4. ASSUME NEW p \in Handlers PROVE Elements(Untold[p]) \subseteq 1..Len(log)
    <2>1. Untold[p] \in Seq(1..Len(log))
      BY <1>1 DEF Delivered
    <2> QED BY <2>1, OfSeq
  <1> QED BY <1>1, <1>2, <1>3, <1>4 DEF Delivered

\* What a subscriber believes after all events, where they err.
LEMMA Believed ==
    ASSUME IInv, Accounted
    PROVE  LET believed == Heard("created") \ Heard("deleted")
               there == {r.id : r \in rows}
           IN  (believed \ there) \cup (there \ believed)
                 \subseteq {log[i].id : i \in lost \cup Outstanding} \cup cleared
  <1>1. PICK open : open = {log[i].id : i \in lost \cup Outstanding}
    OBVIOUS
  <1>2. ASSUME NEW i \in DOMAIN log, i \notin Elements(bus) PROVE log[i].id \in open
    BY <1>1, <1>2, TellsAll
  <1>3. Heard("created") \subseteq Made /\ Made \subseteq Heard("created") \cup open
    BY <1>2, TellsAll DEF Heard, Made, Logged
  <1>4. Heard("deleted") \subseteq Deleted /\ Deleted \subseteq Heard("deleted") \cup open
    BY <1>2, TellsAll DEF Heard, Deleted, Logged
  <1>5. PICK there : there = {r.id : r \in rows}
    OBVIOUS
  <1>6. Made = there \cup Deleted \cup cleared /\ (Deleted \cup cleared) \cap there = {}
    BY <1>5 DEF Accounted, Gone, There, Ids
  <1>7. LET believed == Heard("created") \ Heard("deleted")
        IN  (believed \ there) \cup (there \ believed) \subseteq open \cup cleared
    BY <1>3, <1>4, <1>6
  <1> QED BY <1>1, <1>5, <1>7

\* Each change that a batch, a PATCH, a DELETE or a mute commits is announced
\* once and after its audit row, unless its handler dies; and by these events
\* the rows are what a subscriber believes, but for events that are to come or
\* lost, and for the rows of a wipe or a cascade, which are never announced
\* (routes/uniform_crud.rs, routes/mute.rs, routes/sessions.rs).
THEOREM ChangesAnnounced == Spec => []EventsAccountForRows
  <1>1. IInv /\ Accounted => EventsAccountForRows
    <2> SUFFICES ASSUME IInv, Accounted PROVE EventsAccountForRows
      OBVIOUS
    <2>1. Delivered(Len(log), bus, audit, lost, Untold)
      BY DEF IInv, Told
    <2>2. DOMAIN log = Elements(bus) \cup lost \cup Outstanding
      BY TellsAll
    <2> QED BY <2>1, <2>2, Believed DEF Delivered, EventsAccountForRows
  <1> QED BY <1>1, AccountsInvariance, PTL
=============================================================================
