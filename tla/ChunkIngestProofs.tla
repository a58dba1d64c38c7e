-------------------------- MODULE ChunkIngestProofs --------------------------
(***************************************************************************)
(* Proofs about ChunkIngest for any number of participants, chunk ids and  *)
(* request slots, and any bounds.  The argument is the lock of the session *)
(* row: while an upload holds it, no other upload adds a row, so that the  *)
(* seq it has read stays above all rows of its participant (Reserved);     *)
(* deletions only take rows away, and are counted (gen) and remembered     *)
(* (swept).                                                                *)
(***************************************************************************)
EXTENDS ChunkIngest, FiniteSetTheorems, SequenceTheorems, WellFoundedInduction, TLAPS

\* The transaction of an upload is open and holds the session row.
InTx(q) == q.pc \in {"body", "reserve", "insert", "conflict", "put", "commit"}

LockHeld == \A u \in Uploaders : InTx(up[u]) => holder = u

\* n is the least number above all of S.
IsNext(S, n) == n \in {0} \cup {s + 1 : s \in S} /\ \A s \in S : s < n

RowsOf(p) == {r \in rows : r.pid = p}

\* The seq an upload has read is still above those of its participant, and the
\* very next one unless rows were deleted.
Reserved(q) ==
    q.pc \in {"insert", "conflict", "put", "commit"} =>
        /\ \A r \in rows : r.pid = q.pid => r.seq < q.seq
        /\ gen[q.pid] = 0 => IsNext(Seqs(q.pid), q.seq)

\* Past the unique index, the client's chunk id is still new.
Clear(q) ==
    q.pc \in {"put", "commit"} => \A r \in rows : r.pid = q.pid => r.cid # q.cid

\* An upload that is about to commit has stored its object; only a sweep or a
\* given-up PUT of the same key can have replaced it.
Stored(q) ==
    q.pc = "commit" => Kept(ChunkOf(q))

\* The chunk that an upload is about to tell is there unless it was deleted.
Told(q) ==
    q.pc = "emit" => q.gen <= gen[q.pid] /\ (q.gen = gen[q.pid] => ChunkOf(q) \in rows)

UploadOK(q) == Reserved(q) /\ Clear(q) /\ Stored(q) /\ Told(q)

UploadsOK == \A u \in Uploaders : UploadOK(up[u])

\* No two uploads tell the same chunk.
ToldOnce ==
    \A u, v \in Uploaders : u # v /\ up[u].pc = "emit" /\ up[v].pc = "emit" =>
        ChunkOf(up[u]) # ChunkOf(up[v]) \/ up[u].gen # up[v].gen

\* A deletion takes rows of its participants only, and sweeps nothing but the
\* keys of rows whose deletion is committed.
DeleteOK(q) ==
    /\ \A r \in q.doomed : r.pid \in Scope(q)
    /\ q.pc \in {"flag", "sweep"} => \A r \in q.doomed : Key(r) \in swept

DeletesOK == \A d \in Deleters : DeleteOK(del[d])

\* A late PUT was given up; who lost a row had a deletion; one object per key.
KeysOK ==
    /\ late \subseteq stray
    /\ \A p \in Pids, n \in Nat : <<p, n>> \in swept => gen[p] > 0
    /\ \A a, b \in store : Key(a) = Key(b) => a = b

\* There is a seq above all others, and as long as nothing was deleted the
\* seqs of a participant are 0, 1, 2 .. without a hole.
Numbered ==
    /\ \A p \in Pids : \E b \in Nat : \A s \in Seqs(p) : s < b
    /\ \A p \in Pids : gen[p] = 0 =>
          IsFiniteSet(RowsOf(p)) /\ IsNext(Seqs(p), Cardinality(RowsOf(p)))

\* The inductive invariant.
IInv ==
    /\ TypeOK /\ LockHeld /\ UploadsOK /\ ToldOnce /\ DeletesOK /\ KeysOK /\ Numbered
    /\ ObjectKept /\ OrphanIsReplacedNext

-----------------------------------------------------------------------------
(* MAX(seq) + 1. *)

\* A nonempty set of numbers has a least one.
LEMMA LeastNumber ==
    ASSUME NEW T \in SUBSET Nat, T # {}
    PROVE  \E x \in T : \A y \in T : x <= y
<1>1. PICK x \in T : \A y \in T : ~(<<y, x>> \in OpToRel(<, Nat))
  BY NatLessThanWellFounded, WFMin
<1>2. \A y \in Nat : y < x => <<y, x>> \in OpToRel(<, Nat)
  BY DEF OpToRel
<1>3. \A y \in T : ~(y < x)
  BY <1>1, <1>2
<1>4. \A y \in T : x <= y
  <2>1. \A a, b \in Nat : ~(a < b) => b <= a
    OBVIOUS
  <2> QED BY <1>3, <2>1
<1> QED BY <1>4

\* A set of numbers with an upper bound has a next number, and only one.
LEMMA NextExists ==
    ASSUME NEW S \in SUBSET Nat, NEW b \in Nat, \A s \in S : s < b
    PROVE  \E n \in Nat : IsNext(S, n) /\ \A m : IsNext(S, m) => m = n
<1> DEFINE T == {n \in Nat : \A s \in S : s < n}
<1>1. T \in SUBSET Nat /\ b \in T
  OBVIOUS
<1>2. PICK n \in T : \A m \in T : n <= m
  BY <1>1, LeastNumber
<1>3. n \in Nat /\ \A s \in S : s < n
  OBVIOUS
<1>4. n \in {0} \cup {s + 1 : s \in S}
  <2>1. CASE n = 0
    BY <2>1
  <2>2. CASE n # 0
    <3>1. n - 1 \in Nat /\ ~(n <= n - 1)
      BY <1>3, <2>2
    <3>2. n - 1 \notin T
      BY <1>2, <3>1
    <3>3. PICK s \in S : ~(s < n - 1)
      BY <3>1, <3>2
    <3>4. s \in Nat /\ s < n
      BY <1>3
    <3>5. n = s + 1
      BY <1>3, <3>3, <3>4
    <3> QED BY <3>5
  <2> QED BY <2>1, <2>2
<1>5. IsNext(S, n)
  BY <1>3, <1>4 DEF IsNext
<1>6. ASSUME NEW m, IsNext(S, m) PROVE m = n
  <2>1. m \in Nat /\ m \in T
    BY <1>6 DEF IsNext
  <2>2. n <= m
    BY <1>2, <2>1
  <2>3. m <= n
    BY <1>3, <1>6 DEF IsNext
  <2> QED BY <1>3, <2>1, <2>2, <2>3
<1> QED BY <1>3, <1>5, <1>6

\* NextSeq is the next number after those of the rows.
LEMMA NextSeqIsNext ==
    ASSUME TypeOK, Numbered, NEW p \in Pids
    PROVE  /\ NextSeq(p) \in Nat /\ IsNext(Seqs(p), NextSeq(p))
           /\ \A n : IsNext(Seqs(p), n) => n = NextSeq(p)
<1>1. Seqs(p) \in SUBSET Nat
  BY DEF TypeOK, Chunks, Seqs
<1>2. PICK b \in Nat : \A s \in Seqs(p) : s < b
  BY DEF Numbered
<1>3. PICK n \in Nat : IsNext(Seqs(p), n) /\ \A m : IsNext(Seqs(p), m) => m = n
  BY <1>1, <1>2, NextExists
<1>4. IsNext(Seqs(p), NextSeq(p))
  BY <1>3 DEF NextSeq, IsNext
<1> QED BY <1>3, <1>4

-----------------------------------------------------------------------------
(* The steps of an upload that change nothing but its own request. *)

\* Operators over the rows, when the rows stay.
LEMMA SameRows ==
    ASSUME rows' = rows
    PROVE  \A p : /\ Seqs(p)' = Seqs(p) /\ RowsOf(p)' = RowsOf(p)
                  /\ NextSeq(p)' = NextSeq(p)
<1> TAKE p
<1>1. Seqs(p)' = Seqs(p)
  BY DEF Seqs
<1>2. RowsOf(p)' = RowsOf(p)
  BY DEF RowsOf
<1>3. NextSeq(p)' = NextSeq(p)
  BY <1>1 DEF NextSeq
<1> QED BY <1>1, <1>2, <1>3

\* What is said of the rows and the keys, when they stay.
LEMMA SameTables ==
    ASSUME IInv, UNCHANGED <<rows, store, late, gen, swept, stray>>
    PROVE  /\ KeysOK' /\ Numbered' /\ ObjectKept' /\ OrphanIsReplacedNext'
           /\ \A q : UploadOK(q) => UploadOK(q)'
           /\ \A q : DeleteOK(q) => DeleteOK(q)'
<1>1. KeysOK'
  BY DEF IInv, KeysOK
<1>2. Numbered'
  BY SameRows DEF IInv, Numbered
<1>3. ObjectKept'
  BY DEF IInv, ObjectKept, Kept
<1>4. OrphanIsReplacedNext'
  BY SameRows DEF IInv, OrphanIsReplacedNext
<1>5. \A q : UploadOK(q) => UploadOK(q)'
  BY SameRows DEF UploadOK, Reserved, Clear, Stored, Kept, Told
<1>6. \A q : DeleteOK(q) => DeleteOK(q)'
  BY DEF DeleteOK
<1> QED BY <1>1, <1>2, <1>3, <1>4, <1>5, <1>6

\* An upload goes on, or ends, without touching the tables.
LEMMA UploadMoves ==
    ASSUME IInv, NEW u \in Uploaders, NEW q \in UploadRecords, up' = [up EXCEPT ![u] = q],
           UNCHANGED <<rows, store, late, del, gen, swept, stray>>,
           UploadOK(q), q.pc # "emit",
           holder' \in Uploaders \cup Deleters \cup {None}, InTx(q) => holder' = u,
           \A v \in Uploaders \ {u} : holder = v => holder' = v,
           uploads' \in Nat, deletes' \in Nat, events' \in Seq(Answers), answers' \subseteq Answers
    PROVE  IInv'
<1>1. up \in [Uploaders -> UploadRecords] /\ TypeOK
  BY DEF IInv, TypeOK
<1>2. up'[u] = q /\ \A v \in Uploaders \ {u} : up'[v] = up[v]
  BY <1>1
<1>3. TypeOK'
  BY <1>1 DEF TypeOK
<1>4. LockHeld'
  BY <1>2 DEF IInv, LockHeld
<1>5. KeysOK' /\ Numbered' /\ ObjectKept' /\ OrphanIsReplacedNext'
  BY SameTables
<1>6. UploadsOK'
  <2>1. \A x : UploadOK(x) => UploadOK(x)'
    BY SameTables
  <2>2. \A v \in Uploaders : UploadOK(up'[v])
    BY <1>2 DEF IInv, UploadsOK
  <2> QED BY <2>1, <2>2 DEF UploadsOK
<1>7. ToldOnce'
  BY <1>2 DEF IInv, ToldOnce, ChunkOf
<1>8. DeletesOK'
  BY SameTables DEF IInv, DeletesOK
<1> QED BY <1>3, <1>4, <1>5, <1>6, <1>7, <1>8 DEF IInv

Labels == {"lookup", "lock", "body", "reserve", "insert", "conflict", "put", "commit", "emit"}

\* A request under another label.
LEMMA Relabel ==
    ASSUME NEW q \in UploadRecords, q.pc # "idle", NEW x \in Labels
    PROVE  LET t == [q EXCEPT !.pc = x]
           IN  /\ t \in UploadRecords /\ t.pc = x
               /\ t.pid = q.pid /\ t.cid = q.cid /\ t.seq = q.seq /\ t.gen = q.gen
               /\ ChunkOf(t) = ChunkOf(q)
               /\ q.pid \in Pids /\ q.cid \in Cids /\ q.seq \in Nat /\ q.gen \in Nat
BY DEF UploadRecords, IdleUpload, Labels, ChunkOf

\* The request that has read its seq.
LEMMA Numbering ==
    ASSUME NEW q \in UploadRecords, q.pc # "idle", NEW n \in Nat
    PROVE  LET t == [q EXCEPT !.pc = "insert", !.seq = n]
           IN  t \in UploadRecords /\ t.pc = "insert" /\ t.seq = n /\ t.pid = q.pid
<1> DEFINE t == [q EXCEPT !.pc = "insert", !.seq = n]
           Active == [pc : Labels, pid : Pids, cid : Cids, seq : Nat, gen : Nat]
<1>1. q \in Active /\ "insert" \in Labels
  BY DEF UploadRecords, IdleUpload, Labels
<1>2. t \in Active
  <2> HIDE DEF Labels
  <2> QED BY <1>1
<1>3. t.pc = "insert" /\ t.seq = n /\ t.pid = q.pid
  BY <1>1
<1>4. Active \subseteq UploadRecords
  BY DEF UploadRecords, Labels
<1> QED BY <1>2, <1>3, <1>4

\* Of a request that has no seq yet there is nothing to show.
LEMMA EarlyOK ==
    \A q : q.pc \in {"idle", "lookup", "lock", "body", "reserve"} => UploadOK(q) /\ q.pc # "emit"
BY DEF UploadOK, Reserved, Clear, Stored, Kept, Told

\* The request of a slot ends: the lock is given back if it was held.
LEMMA UploadEnds ==
    ASSUME IInv, NEW u \in Uploaders, FinishU(u),
           UNCHANGED <<rows, store, late, del, gen, swept, stray>>,
           holder' \in {holder, None}, holder' = None => holder \in {u, None},
           uploads' \in Nat, deletes' \in Nat, events' \in Seq(Answers), answers' \subseteq Answers
    PROVE  IInv'
<1>1. /\ IdleUpload \in UploadRecords /\ UploadOK(IdleUpload) /\ IdleUpload.pc # "emit"
      /\ ~InTx(IdleUpload)
  BY EarlyOK DEF UploadRecords, IdleUpload, InTx
<1>2. /\ holder' \in Uploaders \cup Deleters \cup {None}
      /\ \A v \in Uploaders \ {u} : holder = v => holder' = v
  BY SlotsAssumption DEF IInv, TypeOK
<1> QED BY <1>1, <1>2, UploadMoves DEF FinishU

LEMMA AnswersType ==
    ASSUME TypeOK
    PROVE  /\ \A r \in rows : [chunk |-> r, gen |-> gen[r.pid]] \in Answers
           /\ \A u \in Uploaders : up[u].pc # "idle" =>
                 [chunk |-> ChunkOf(up[u]), gen |-> up[u].gen] \in Answers
<1>1. \A r \in rows : r \in Chunks /\ gen[r.pid] \in Nat
  BY DEF TypeOK, Chunks
<1>2. \A u \in Uploaders : up[u].pc # "idle" =>
         ChunkOf(up[u]) \in Chunks /\ up[u].gen \in Nat
  BY DEF TypeOK, UploadRecords, IdleUpload, ChunkOf, Chunks
<1> QED BY <1>1, <1>2 DEF Answers

\* The steps of an upload up to its PUT, and after its commit.
LEMMA QuietUploadSteps ==
    ASSUME IInv, NEW u \in Uploaders
    PROVE  /\ \A p \in Pids, c \in Cids : BeginUpload(u, p, c) => IInv'
           /\ LookupHit(u) \/ LookupMiss(u) \/ LockSession(u) \/ ReadBody(u)
              \/ RejectBody(u) \/ Reserve(u) \/ InsertRow(u) \/ AnswerConflict(u)
              \/ PutFails(u) \/ Emit(u) \/ UploadDies(u) => IInv'
<1> USE DEF dbVars, s3Vars, requests, history
<1>0. /\ TypeOK /\ up[u] \in UploadRecords /\ UploadOK(up[u])
      /\ holder \in Uploaders \cup Deleters \cup {None}
      /\ \A v \in Uploaders : InTx(up[v]) => holder = v
      /\ uploads \in Nat /\ deletes \in Nat /\ events \in Seq(Answers) /\ answers \subseteq Answers
  BY DEF IInv, TypeOK, LockHeld, UploadsOK
<1>1. ASSUME NEW p \in Pids, NEW c \in Cids, BeginUpload(u, p, c) PROVE IInv'
  <2> DEFINE q == [IdleUpload EXCEPT !.pc = "lookup", !.pid = p, !.cid = c]
  <2>1. q \in UploadRecords /\ q.pc = "lookup"
    BY DEF IdleUpload, UploadRecords
  <2>2. uploads + 1 \in Nat
    BY <1>0
  <2>3. /\ up' = [up EXCEPT ![u] = q] /\ UNCHANGED <<rows, store, late, del, gen, swept, stray>>
        /\ holder' = holder /\ uploads' \in Nat /\ deletes' = deletes /\ events' = events
        /\ answers' = answers
    BY <1>1, <2>2 DEF BeginUpload
  <2> HIDE DEF q
  <2>4. UploadOK(q) /\ ~InTx(q) /\ q.pc # "emit"
    BY <2>1, EarlyOK DEF InTx
  <2> QED BY <1>0, <2>1, <2>3, <2>4, UploadMoves
<1>2. CASE LookupHit(u)
  <2>1. answers' \subseteq Answers
    BY <1>0, <1>2, AnswersType DEF LookupHit, Existing
  <2> QED BY <1>0, <1>2, <2>1, UploadEnds DEF LookupHit
\* A step to a label under which nothing is claimed.
<1>3. ASSUME NEW x \in {"lock", "body", "reserve"}, up' = [up EXCEPT ![u].pc = x],
             up[u].pc # "idle", InTx([up[u] EXCEPT !.pc = x]) => holder' = u,
             UNCHANGED <<rows, store, late, del, gen, swept, stray, requests, events, answers>>,
             \/ holder' = holder
             \/ holder = None /\ holder' = u
      PROVE  IInv'
  <2> DEFINE q == [up[u] EXCEPT !.pc = x]
  <2>1. x \in Labels
    BY DEF Labels
  <2>2. q \in UploadRecords /\ q.pc = x
    BY <1>0, <1>3, <2>1, Relabel
  <2>4. up' = [up EXCEPT ![u] = q]
    BY <1>3
  <2>5. /\ holder' \in Uploaders \cup Deleters \cup {None}
        /\ \A v \in Uploaders \ {u} : holder = v => holder' = v
    BY <1>0, <1>3, SlotsAssumption
  <2>6. InTx(q) => holder' = u
    BY <1>3
  <2> HIDE DEF q
  <2>3. UploadOK(q) /\ q.pc # "emit"
    BY <2>2, EarlyOK
  <2> QED BY <1>0, <1>3, <2>2, <2>3, <2>4, <2>5, <2>6, UploadMoves
<1>4. CASE LookupMiss(u)
  <2>1. ~InTx([up[u] EXCEPT !.pc = "lock"])
    BY <1>0, <1>4, Relabel DEF LookupMiss, Labels, InTx
  <2> QED BY <1>3, <1>4, <2>1 DEF LookupMiss, GotoU
<1>5. CASE LockSession(u)
  BY <1>3, <1>5 DEF LockSession, LockFree, GotoU
<1>6. CASE ReadBody(u)
  <2>1. holder = u
    BY <1>0, <1>6 DEF ReadBody, InTx
  <2> QED BY <1>3, <1>6, <2>1 DEF ReadBody, GotoU
<1>7. CASE RejectBody(u)
  <2>1. holder = u
    BY <1>0, <1>7 DEF RejectBody, InTx
  <2> QED BY <1>0, <1>7, <2>1, UploadEnds DEF RejectBody
<1>8. CASE Reserve(u)
  <2> DEFINE n == NextSeq(up[u].pid)
             q == [up[u] EXCEPT !.pc = "insert", !.seq = n]
  <2>1. up[u].pid \in Pids /\ up[u].pc # "idle" /\ holder = u
    BY <1>0, <1>8, Relabel DEF Reserve, Labels, InTx
  <2>2. n \in Nat /\ IsNext(Seqs(up[u].pid), n)
    BY <2>1, NextSeqIsNext DEF IInv
  <2>3. up' = [up EXCEPT ![u] = q]
    BY <1>8 DEF Reserve
  <2> HIDE DEF n
  <2>4. /\ q \in UploadRecords /\ q.pc = "insert" /\ q.seq = n /\ q.pid = up[u].pid
    BY <1>0, <2>1, <2>2, Numbering
  <2> HIDE DEF q
  <2>5. UploadOK(q)
    <3>1. \A r \in rows : r.pid = q.pid => r.seq < q.seq
      BY <2>2, <2>4 DEF IsNext, Seqs
    <3> QED BY <2>2, <2>4, <3>1 DEF UploadOK, Reserved, Clear, Stored, Kept, Told
  <2> QED BY <1>0, <1>8, <2>1, <2>3, <2>4, <2>5, UploadMoves DEF Reserve
<1>9. CASE InsertRow(u)
  <2> DEFINE x == IF Clashing(up[u]) = {} THEN "put" ELSE "conflict"
             q == [up[u] EXCEPT !.pc = x]
  <2>1. up[u].pc = "insert" /\ holder = u
    BY <1>0, <1>9 DEF InsertRow, InTx
  <2>2. x \in Labels /\ (x = "put" => Clashing(up[u]) = {}) /\ x \in {"put", "conflict"}
    BY DEF Labels
  <2>3. up' = [up EXCEPT ![u] = q]
    BY <1>9 DEF InsertRow, GotoU
  <2> HIDE DEF x
  <2>4. /\ q \in UploadRecords /\ q.pc = x /\ q.pid = up[u].pid /\ q.cid = up[u].cid
        /\ q.seq = up[u].seq
    BY <1>0, <2>1, <2>2, Relabel
  <2> HIDE DEF q
  <2>5. UploadOK(q)
    <3>1. Reserved(q)
      BY <1>0, <2>1, <2>2, <2>4 DEF UploadOK, Reserved
    <3>2. Clear(q)
      BY <2>2, <2>4 DEF Clear, Clashing
    <3> QED BY <2>2, <2>4, <3>1, <3>2 DEF UploadOK, Stored, Kept, Told
  <2> QED BY <1>0, <1>9, <2>1, <2>2, <2>3, <2>4, <2>5, UploadMoves DEF InsertRow
<1>10. CASE AnswerConflict(u)
  <2>1. holder = u
    BY <1>0, <1>10 DEF AnswerConflict, InTx
  <2> QED BY <1>0, <1>10, <2>1, UploadEnds DEF AnswerConflict
<1>11. CASE PutFails(u)
  <2>1. holder = u
    BY <1>0, <1>11 DEF PutFails, InTx
  <2> QED BY <1>0, <1>11, <2>1, UploadEnds DEF PutFails
<1>12. CASE Emit(u)
  <2>1. answers' \subseteq Answers /\ events' \in Seq(Answers)
    BY <1>0, <1>12, AnswersType, AppendProperties DEF Emit
  <2> QED BY <1>0, <1>12, <2>1, UploadEnds DEF Emit
<1>13. CASE UploadDies(u)
  BY <1>0, <1>13, UploadEnds DEF UploadDies
<1> QED BY <1>1, <1>2, <1>4, <1>5, <1>6, <1>7, <1>8, <1>9, <1>10, <1>11, <1>12, <1>13

-----------------------------------------------------------------------------
(* The steps of an upload that write. *)

LEMMA PutProperties ==
    ASSUME NEW s \in SUBSET Chunks, NEW c \in Chunks
    PROVE  /\ Put(s, c) \in SUBSET Chunks /\ c \in Put(s, c)
           /\ \A o \in s : Key(o) = Key(c) \/ o \in Put(s, c)
           /\ \A o \in Put(s, c) : o = c \/ (o \in s /\ Key(o) # Key(c))
BY DEF Put, Without

\* A PUT keeps one object per key.
LEMMA PutOnePerKey ==
    ASSUME NEW s \in SUBSET Chunks, NEW c \in Chunks,
           \A a, b \in s : Key(a) = Key(b) => a = b
    PROVE  \A a, b \in Put(s, c) : Key(a) = Key(b) => a = b
BY PutProperties

\* A request that goes on under another label, as a step of the slots.
LEMMA Relabelled ==
    ASSUME TypeOK, NEW u \in Uploaders, up[u].pc # "idle", NEW x \in Labels, GotoU(u, x)
    PROVE  /\ up' \in [Uploaders -> UploadRecords]
           /\ up'[u].pc = x /\ up'[u].pid = up[u].pid /\ up'[u].cid = up[u].cid
           /\ up'[u].seq = up[u].seq /\ up'[u].gen = up[u].gen
           /\ ChunkOf(up'[u]) = ChunkOf(up[u])
           /\ \A v \in Uploaders \ {u} : up'[v] = up[v]
<1> DEFINE q == [up[u] EXCEPT !.pc = x]
<1>1. up \in [Uploaders -> UploadRecords] /\ up' = [up EXCEPT ![u] = q]
  BY DEF TypeOK, GotoU
<1>2. up[u] \in UploadRecords
  BY <1>1
<1>3. /\ q \in UploadRecords /\ q.pc = x /\ q.pid = up[u].pid /\ q.cid = up[u].cid
      /\ q.seq = up[u].seq /\ q.gen = up[u].gen /\ ChunkOf(q) = ChunkOf(up[u])
  BY <1>2, Relabel
<1> HIDE DEF q
<1> QED BY <1>1, <1>3

\* What the fields of a request in a transaction are.
LEMMA ChunkType ==
    ASSUME TypeOK, NEW u \in Uploaders, up[u].pc # "idle"
    PROVE  /\ ChunkOf(up[u]) \in Chunks
           /\ ChunkOf(up[u]).pid = up[u].pid /\ ChunkOf(up[u]).cid = up[u].cid
           /\ ChunkOf(up[u]).seq = up[u].seq
           /\ up[u].pid \in Pids /\ up[u].cid \in Cids /\ up[u].seq \in Nat /\ up[u].gen \in Nat
           /\ Key(ChunkOf(up[u])) \in Pids \X Nat
BY DEF TypeOK, UploadRecords, IdleUpload, ChunkOf, Chunks, Key

\* A key names one participant and one seq.
LEMMA SameKey ==
    \A a, b \in Chunks : Key(a) = Key(b) <=> a.pid = b.pid /\ a.seq = b.seq
BY DEF Key, Chunks

\* The object is stored under a key that no row has.
LEMMA PutOkStep ==
    ASSUME IInv, NEW u \in Uploaders, PutOk(u)
    PROVE  IInv'
<1> USE DEF dbVars, s3Vars, requests, history
<1> DEFINE c == ChunkOf(up[u])
<1>0. /\ TypeOK /\ LockHeld /\ KeysOK /\ ObjectKept /\ OrphanIsReplacedNext /\ Numbered
      /\ UploadsOK
      /\ up[u].pc = "put" /\ GotoU(u, "commit") /\ store' = Put(store, c)
      /\ UNCHANGED <<rows, holder, late, del, uploads, deletes, events, gen, answers, swept, stray>>
  BY DEF IInv, PutOk
<1>1. /\ up' \in [Uploaders -> UploadRecords] /\ up'[u].pc = "commit"
      /\ up'[u].pid = up[u].pid /\ up'[u].cid = up[u].cid /\ up'[u].seq = up[u].seq
      /\ ChunkOf(up'[u]) = c /\ \A v \in Uploaders \ {u} : up'[v] = up[v]
  BY <1>0, Relabelled DEF Labels
<1>2. /\ c \in Chunks /\ c.pid = up[u].pid /\ c.seq = up[u].seq /\ c.pid \in Pids /\ c.seq \in Nat
  BY <1>0, ChunkType
<1>3. holder = u /\ \A v \in Uploaders \ {u} : ~InTx(up[v])
  BY <1>0 DEF LockHeld, InTx
<1>4. store \in SUBSET Chunks /\ rows \in SUBSET Chunks
  BY <1>0 DEF TypeOK
<1>5. /\ store' \in SUBSET Chunks /\ c \in store'
      /\ \A o \in store : Key(o) = Key(c) \/ o \in store'
      /\ \A o \in store' : o = c \/ o \in store
  BY <1>0, <1>2, <1>4, PutProperties
<1>6. Reserved(up[u]) /\ Clear(up[u])
  BY <1>0 DEF UploadsOK, UploadOK
<1>7. \A r \in rows : Key(r) # Key(c)
  <2>1. \A r \in rows : r.pid = c.pid => r.seq < c.seq
    BY <1>0, <1>2, <1>6 DEF Reserved
  <2>2. ~(c.seq < c.seq)
    BY <1>2
  <2> QED BY <1>2, <1>4, <2>1, <2>2, SameKey
<1> HIDE DEF c
<1>8. TypeOK'
  BY <1>0, <1>1, <1>5 DEF TypeOK
<1>9. LockHeld'
  BY <1>0, <1>1, <1>3 DEF LockHeld
<1>10. KeysOK'
  <2>1. \A a, b \in store' : Key(a) = Key(b) => a = b
    BY <1>0, <1>2, <1>4, PutOnePerKey DEF KeysOK
  <2> QED BY <1>0, <2>1 DEF KeysOK
<1>11. Numbered'
  BY <1>0, SameRows DEF Numbered
<1>12. ObjectKept'
  BY <1>0, <1>5, <1>7 DEF ObjectKept, Kept
<1>13. OrphanIsReplacedNext'
  <2>1. \A p : NextSeq(p)' = NextSeq(p)
    BY <1>0, SameRows
  <2>2. gen[c.pid] = 0 => c.seq = NextSeq(c.pid)
    BY <1>0, <1>2, <1>6, NextSeqIsNext DEF Reserved
  <2>3. gen[c.pid] \in Nat
    BY <1>0, <1>2 DEF TypeOK
  <2>4. gen[c.pid] > 0 \/ c.seq = NextSeq(c.pid)
    BY <2>2, <2>3
  <2> QED BY <1>0, <1>5, <2>1, <2>4 DEF OrphanIsReplacedNext
<1>14. UploadsOK'
  <2>1. UploadOK(up[u])'
    <3>1. \A p : Seqs(p)' = Seqs(p)
      BY <1>0, SameRows
    <3> QED BY <1>0, <1>1, <1>5, <1>6, <3>1 DEF UploadOK, Reserved, Clear, Stored, Kept, Told
  <2>2. ASSUME NEW v \in Uploaders \ {u} PROVE UploadOK(up[v])'
    <3>1. Told(up[v])
      BY <1>0 DEF UploadsOK, UploadOK
    <3>2. up'[v] = up[v] /\ ~InTx(up[v])
      BY <1>1, <1>3
    <3> QED BY <1>0, <3>1, <3>2 DEF UploadOK, Reserved, Clear, Stored, Kept, Told, InTx
  <2> QED BY <2>1, <2>2 DEF UploadsOK
<1>15. ToldOnce'
  BY <1>1 DEF IInv, ToldOnce
<1>16. DeletesOK'
  BY <1>0 DEF IInv, DeletesOK, DeleteOK
<1> QED BY <1>8, <1>9, <1>10, <1>11, <1>12, <1>13, <1>14, <1>15, <1>16 DEF IInv

\* A PUT that is given up is remembered.
LEMMA PutGivenUpStep ==
    ASSUME IInv, NEW u \in Uploaders, PutGivenUp(u)
    PROVE  IInv'
<1> USE DEF dbVars, s3Vars, requests, history
<1> DEFINE c == ChunkOf(up[u])
<1>0. /\ TypeOK /\ LockHeld /\ KeysOK /\ ObjectKept /\ OrphanIsReplacedNext /\ Numbered
      /\ UploadsOK
      /\ up[u].pc = "put" /\ FinishU(u) /\ late' = late \cup {c} /\ holder' = None
      /\ stray' = stray \cup {c}
      /\ UNCHANGED <<rows, store, del, uploads, deletes, events, gen, answers, swept>>
  BY DEF IInv, PutGivenUp
<1>1. c \in Chunks /\ Key(c) \in Pids \X Nat
  BY <1>0, ChunkType
<1>2. holder = u /\ \A v \in Uploaders \ {u} : ~InTx(up[v])
  BY <1>0 DEF LockHeld, InTx
<1>3. /\ up' \in [Uploaders -> UploadRecords] /\ up'[u] = IdleUpload
      /\ \A v \in Uploaders \ {u} : up'[v] = up[v]
  BY <1>0 DEF TypeOK, FinishU, UploadRecords
<1>4. IdleUpload.pc = "idle" /\ ~InTx(IdleUpload)
  BY DEF IdleUpload, InTx
<1> HIDE DEF c
<1>5. TypeOK'
  BY <1>0, <1>1, <1>3 DEF TypeOK
<1>6. LockHeld'
  BY <1>2, <1>3, <1>4 DEF LockHeld
<1>7. KeysOK'
  BY <1>0 DEF KeysOK
<1>8. Numbered'
  BY <1>0, SameRows DEF Numbered
<1>9. ObjectKept'
  BY <1>0 DEF ObjectKept, Kept
<1>10. OrphanIsReplacedNext'
  BY <1>0, SameRows DEF OrphanIsReplacedNext
<1>11. UploadsOK'
  <2>1. ASSUME NEW v \in Uploaders PROVE UploadOK(up[v])'
    <3>1. Told(up[v])
      BY <1>0 DEF UploadsOK, UploadOK
    <3>2. ~InTx(up'[v]) /\ (up'[v].pc = "emit" => up'[v] = up[v])
      BY <1>2, <1>3, <1>4
    <3> QED BY <1>0, <3>1, <3>2 DEF UploadOK, Reserved, Clear, Stored, Kept, Told, InTx
  <2> QED BY <2>1 DEF UploadsOK
<1>12. ToldOnce'
  BY <1>3, <1>4 DEF IInv, ToldOnce
<1>13. DeletesOK'
  BY <1>0 DEF IInv, DeletesOK, DeleteOK
<1> QED BY <1>5, <1>6, <1>7, <1>8, <1>9, <1>10, <1>11, <1>12, <1>13 DEF IInv

\* The given-up PUT arrives, and replaces what has its key.
LEMMA LatePutStep ==
    ASSUME IInv, NEW c \in late, LatePut(c)
    PROVE  IInv'
<1> USE DEF dbVars, s3Vars, requests, history
<1>0. /\ TypeOK /\ LockHeld /\ KeysOK /\ ObjectKept /\ OrphanIsReplacedNext /\ Numbered
      /\ UploadsOK
      /\ late' = late \ {c} /\ store' = Put(store, c)
      /\ UNCHANGED <<rows, holder, up, del, uploads, deletes, events, gen, answers, swept, stray>>
  BY DEF IInv, LatePut
<1>1. c \in Chunks /\ c \in stray
  BY <1>0 DEF TypeOK, KeysOK
<1>2. store \in SUBSET Chunks
  BY <1>0 DEF TypeOK
<1>3. /\ store' \in SUBSET Chunks
      /\ \A o \in store : Key(o) = Key(c) \/ o \in store'
      /\ c \in store' /\ \A o \in store' : o = c \/ o \in store
  <2>1. /\ Put(store, c) \in SUBSET Chunks
        /\ \A o \in store : Key(o) = Key(c) \/ o \in Put(store, c)
        /\ c \in Put(store, c) /\ \A o \in Put(store, c) : o = c \/ o \in store
    BY <1>1, <1>2, PutProperties
  <2> QED BY <1>0, <2>1
<1>4. TypeOK'
  BY <1>0, <1>3 DEF TypeOK
<1>5. KeysOK'
  <2>1. \A a, b \in store' : Key(a) = Key(b) => a = b
    BY <1>0, <1>1, <1>2, PutOnePerKey DEF KeysOK
  <2> QED BY <1>0, <2>1 DEF KeysOK
<1>6. Numbered'
  BY <1>0, SameRows DEF Numbered
<1>7. ObjectKept'
  BY <1>0, <1>1, <1>3 DEF ObjectKept, Kept
<1>8. OrphanIsReplacedNext'
  BY <1>0, <1>1, <1>3, SameRows DEF OrphanIsReplacedNext
<1>9. UploadsOK'
  <2>1. ASSUME NEW v \in Uploaders PROVE UploadOK(up[v])'
    <3>1. UploadOK(up[v])
      BY <1>0 DEF UploadsOK
    <3>2. Stored(up[v])'
      BY <1>0, <1>1, <1>3, <3>1 DEF UploadOK, Stored, Kept
    <3> QED BY <1>0, <3>1, <3>2, SameRows DEF UploadOK, Reserved, Clear, Told
  <2> QED BY <2>1 DEF UploadsOK
<1>10. LockHeld' /\ ToldOnce'
  BY <1>0 DEF IInv, LockHeld, ToldOnce
<1>11. DeletesOK'
  BY <1>0 DEF IInv, DeletesOK, DeleteOK
<1> QED BY <1>4, <1>5, <1>6, <1>7, <1>8, <1>9, <1>10, <1>11 DEF IInv

\* The seq an upload has read is, without deletions, the number of its
\* participant's rows.
LEMMA ReservedIsNext ==
    ASSUME TypeOK, Numbered, NEW q, q.pid \in Pids, Reserved(q), q.pc \in {"put", "commit"},
           gen[q.pid] = 0
    PROVE  /\ q.seq = NextSeq(q.pid) /\ q.seq = Cardinality(RowsOf(q.pid))
           /\ IsFiniteSet(RowsOf(q.pid))
<1>1. IsNext(Seqs(q.pid), q.seq)
  BY DEF Reserved
<1>2. IsFiniteSet(RowsOf(q.pid)) /\ IsNext(Seqs(q.pid), Cardinality(RowsOf(q.pid)))
  BY DEF Numbered
<1> QED BY <1>1, <1>2, NextSeqIsNext

\* The rows with one more.
LEMMA NewRow ==
    ASSUME NEW c \in Chunks, rows \subseteq Chunks, rows' = rows \cup {c}
    PROVE  /\ \A p : p # c.pid => Seqs(p)' = Seqs(p) /\ RowsOf(p)' = RowsOf(p)
                                  /\ NextSeq(p)' = NextSeq(p)
           /\ Seqs(c.pid)' = Seqs(c.pid) \cup {c.seq}
           /\ RowsOf(c.pid)' = RowsOf(c.pid) \cup {c}
<1>1. \A p : p # c.pid => Seqs(p)' = Seqs(p)
  BY DEF Seqs
<1>2. \A p : p # c.pid => RowsOf(p)' = RowsOf(p)
  BY DEF RowsOf
<1>3. \A p : p # c.pid => NextSeq(p)' = NextSeq(p)
  BY <1>1 DEF NextSeq
<1>4. Seqs(c.pid)' = Seqs(c.pid) \cup {c.seq}
  BY DEF Seqs
<1>5. RowsOf(c.pid)' = RowsOf(c.pid) \cup {c}
  BY DEF RowsOf
<1> QED BY <1>1, <1>2, <1>3, <1>4, <1>5

\* The number after all of a set, added to it.
LEMMA NextAdded ==
    ASSUME NEW S \in SUBSET Nat, NEW n \in Nat, \A s \in S : s < n
    PROVE  IsNext(S \cup {n}, n + 1) /\ \A s \in S \cup {n} : s < n + 1
<1>1. \A s \in S \cup {n} : s < n + 1
  OBVIOUS
<1> QED BY <1>1 DEF IsNext

\* The step of an upload past its commit.
LEMMA Committing ==
    ASSUME NEW q \in UploadRecords, q.pc # "idle", NEW g \in Nat
    PROVE  LET t == [q EXCEPT !.pc = "emit", !.gen = g]
           IN  t \in UploadRecords /\ t.pc = "emit" /\ t.gen = g /\ ChunkOf(t) = ChunkOf(q)
               /\ t.pid = q.pid
<1> DEFINE t == [q EXCEPT !.pc = "emit", !.gen = g]
           Active == [pc : Labels, pid : Pids, cid : Cids, seq : Nat, gen : Nat]
<1>1. q \in Active /\ "emit" \in Labels
  BY DEF UploadRecords, IdleUpload, Labels
<1>2. t \in Active
  <2> HIDE DEF Labels
  <2> QED BY <1>1
<1>3. t.pc = "emit" /\ t.gen = g /\ t.pid = q.pid /\ t.cid = q.cid /\ t.seq = q.seq
  BY <1>1
<1>4. Active \subseteq UploadRecords
  BY DEF UploadRecords, Labels
<1> QED BY <1>2, <1>3, <1>4 DEF ChunkOf

\* The row becomes visible: its seq is the next one, its object is stored.
LEMMA CommitStep ==
    ASSUME IInv, NEW u \in Uploaders, Commit(u)
    PROVE  IInv'
<1> USE DEF dbVars, s3Vars, requests, history
<1>0. /\ TypeOK /\ LockHeld /\ KeysOK /\ ObjectKept /\ OrphanIsReplacedNext /\ Numbered
      /\ UploadsOK
      /\ up[u].pc = "commit" /\ holder' = None /\ rows' = rows \cup {ChunkOf(up[u])}
      /\ up' = [up EXCEPT ![u] = [up[u] EXCEPT !.pc = "emit", !.gen = gen[up[u].pid]]]
      /\ UNCHANGED <<store, late, del, uploads, deletes, events, gen, answers, swept, stray>>
  BY DEF IInv, Commit
<1>1. PICK c \in Chunks, p \in Pids, g \in Nat :
         /\ c = ChunkOf(up[u]) /\ c.pid = p /\ c.cid = up[u].cid /\ c.seq = up[u].seq
         /\ c.seq \in Nat /\ p = up[u].pid /\ g = gen[p]
  <2>1. /\ ChunkOf(up[u]) \in Chunks /\ ChunkOf(up[u]).pid = up[u].pid
        /\ ChunkOf(up[u]).cid = up[u].cid /\ ChunkOf(up[u]).seq = up[u].seq
        /\ up[u].pid \in Pids /\ up[u].seq \in Nat
    BY <1>0, ChunkType
  <2>2. gen[up[u].pid] \in Nat
    BY <1>0, <2>1 DEF TypeOK
  <2> QED BY <2>1, <2>2
<1> DEFINE q == [up[u] EXCEPT !.pc = "emit", !.gen = g]
<1>2. q \in UploadRecords /\ q.pc = "emit" /\ q.gen = g /\ ChunkOf(q) = c /\ q.pid = p
  <2>1. up[u] \in UploadRecords
    BY <1>0 DEF TypeOK
  <2> QED BY <1>0, <1>1, <2>1, Committing
<1>3. holder = u /\ \A v \in Uploaders \ {u} : ~InTx(up[v])
  BY <1>0 DEF LockHeld, InTx
<1>4. store \in SUBSET Chunks /\ rows \in SUBSET Chunks
  BY <1>0 DEF TypeOK
<1>5. Reserved(up[u]) /\ Clear(up[u]) /\ Stored(up[u])
  BY <1>0 DEF UploadsOK, UploadOK
<1>6. \A r \in rows : r.pid = c.pid => r.seq < c.seq
  BY <1>0, <1>1, <1>5 DEF Reserved
<1>7. c \notin rows /\ \A s \in Seqs(p) : s < c.seq
  <2>1. ~(c.seq < c.seq)
    BY <1>1
  <2>2. c \notin rows
    BY <1>6, <2>1
  <2>3. \A s \in Seqs(p) : s < c.seq
    BY <1>1, <1>6 DEF Seqs
  <2> QED BY <2>2, <2>3
<1>8. gen[p] = 0 =>
         c.seq = NextSeq(p) /\ c.seq = Cardinality(RowsOf(p)) /\ IsFiniteSet(RowsOf(p))
  BY <1>0, <1>1, <1>5, ReservedIsNext
<1>9. Kept(c)
  BY <1>0, <1>1, <1>5 DEF Stored
<1>10. /\ up' \in [Uploaders -> UploadRecords] /\ up'[u] = q
       /\ \A v \in Uploaders \ {u} : up'[v] = up[v]
  BY <1>0, <1>1, <1>2 DEF TypeOK
<1> HIDE DEF q
<1>11. TypeOK'
  <2>1. rows' \subseteq Chunks
    BY <1>0, <1>1, <1>4
  <2> QED BY <1>0, <1>10, <2>1 DEF TypeOK
<1>12. LockHeld'
  BY <1>2, <1>3, <1>10 DEF LockHeld, InTx
<1>13. KeysOK'
  BY <1>0 DEF KeysOK
<1>14. /\ \A x : x # p => Seqs(x)' = Seqs(x) /\ RowsOf(x)' = RowsOf(x) /\ NextSeq(x)' = NextSeq(x)
       /\ Seqs(p)' = Seqs(p) \cup {c.seq} /\ RowsOf(p)' = RowsOf(p) \cup {c}
  <2>1. c.pid = p /\ rows \subseteq Chunks /\ rows' = rows \cup {c}
    BY <1>0, <1>1, <1>4
  <2>2. /\ \A x : x # c.pid => Seqs(x)' = Seqs(x) /\ RowsOf(x)' = RowsOf(x)
                               /\ NextSeq(x)' = NextSeq(x)
        /\ Seqs(c.pid)' = Seqs(c.pid) \cup {c.seq}
        /\ RowsOf(c.pid)' = RowsOf(c.pid) \cup {c}
    BY <1>1, <2>1, NewRow
  <2> QED BY <2>1, <2>2
<1>15. Numbered'
  <2>1. Seqs(p) \in SUBSET Nat
    BY <1>4 DEF Seqs, Chunks
  <2>2. IsNext(Seqs(p)', c.seq + 1) /\ \A s \in Seqs(p)' : s < c.seq + 1
    BY <1>1, <1>7, <1>14, <2>1, NextAdded
  <2>3. gen[p] = 0 => IsFiniteSet(RowsOf(p)') /\ Cardinality(RowsOf(p)') = c.seq + 1
    <3>1. c \notin RowsOf(p)
      BY <1>7 DEF RowsOf
    <3>2. IsFiniteSet(RowsOf(p)) => /\ IsFiniteSet(RowsOf(p) \cup {c})
                                    /\ Cardinality(RowsOf(p) \cup {c}) = Cardinality(RowsOf(p)) + 1
      BY <3>1, FS_AddElement
    <3> QED BY <1>8, <1>14, <3>2
  <2>4. \A x \in Pids : \E b \in Nat : \A s \in Seqs(x)' : s < b
    <3>1. c.seq + 1 \in Nat
      BY <1>1
    <3> QED BY <1>0, <1>14, <2>2, <3>1 DEF Numbered
  <2>5. \A x \in Pids : gen'[x] = 0 =>
           IsFiniteSet(RowsOf(x)') /\ IsNext(Seqs(x)', Cardinality(RowsOf(x)'))
    <3>1. CASE gen[p] = 0
      BY <1>0, <1>14, <2>2, <2>3, <3>1 DEF Numbered
    <3>2. CASE gen[p] # 0
      BY <1>0, <1>14, <3>2 DEF Numbered
    <3> QED BY <3>1, <3>2
  <2> QED BY <2>4, <2>5 DEF Numbered
<1>16. ObjectKept'
  BY <1>0, <1>1, <1>9 DEF ObjectKept, Kept
<1>17. OrphanIsReplacedNext'
  <2>1. ASSUME NEW o \in store
        PROVE  o \in rows' \/ gen[o.pid] > 0 \/ Key(o) \in {Key(b) : b \in stray} \/ o.seq = NextSeq(o.pid)'
    <3>1. o \in rows \/ gen[o.pid] > 0 \/ Key(o) \in {Key(b) : b \in stray} \/ o.seq = NextSeq(o.pid)
      BY <1>0 DEF OrphanIsReplacedNext
    <3>2. CASE o.pid # p
      BY <1>0, <1>14, <3>1, <3>2
    <3>3. CASE o.pid = p /\ o.seq = NextSeq(p) /\ ~(gen[p] > 0)
      <4>1. gen[p] = 0
        BY <1>1, <3>3
      <4>2. o \in Chunks /\ Key(o) = Key(c)
        BY <1>1, <1>4, <1>8, <3>3, <4>1, SameKey
      <4>3. Key(c) \notin swept
        <5>1. Key(c) = <<p, c.seq>>
          BY <1>1 DEF Key
        <5> QED BY <1>0, <1>1, <3>3, <5>1 DEF KeysOK
      <4>4. c \in store => o = c
        BY <1>0, <4>2 DEF KeysOK
      <4> QED BY <1>0, <1>1, <1>9, <4>2, <4>3, <4>4 DEF Kept
    <3> QED BY <1>0, <3>1, <3>2, <3>3
  <2> QED BY <1>0, <2>1 DEF OrphanIsReplacedNext
<1>18. UploadsOK'
  <2>1. UploadOK(up[u])'
    <3>1. q.gen <= gen[p] /\ c \in rows'
      BY <1>0, <1>1, <1>2
    <3> QED BY <1>0, <1>2, <1>10, <3>1 DEF UploadOK, Reserved, Clear, Stored, Kept, Told
  <2>2. ASSUME NEW v \in Uploaders \ {u} PROVE UploadOK(up[v])'
    <3>1. Told(up[v])
      BY <1>0 DEF UploadsOK, UploadOK
    <3>2. up'[v] = up[v] /\ ~InTx(up[v])
      BY <1>3, <1>10
    <3> QED BY <1>0, <3>1, <3>2 DEF UploadOK, Reserved, Clear, Stored, Kept, Told, InTx
  <2> QED BY <2>1, <2>2 DEF UploadsOK
<1>19. ToldOnce'
  <2>1. ASSUME NEW v \in Uploaders \ {u}, up[v].pc = "emit", ChunkOf(up[v]) = c
        PROVE  up[v].gen # g
    <3>1. Told(up[v])
      BY <1>0 DEF UploadsOK, UploadOK
    <3>2. up[v].pid = p
      BY <1>1, <2>1 DEF ChunkOf
    <3> QED BY <1>1, <1>7, <2>1, <3>1, <3>2 DEF Told
  <2>2. \A v \in Uploaders \ {u} : up'[v] = up[v]
    BY <1>10
  <2>3. \A v, w \in Uploaders \ {u} : v # w /\ up'[v].pc = "emit" /\ up'[w].pc = "emit" =>
           ChunkOf(up'[v]) # ChunkOf(up'[w]) \/ up'[v].gen # up'[w].gen
    BY <2>2 DEF IInv, ToldOnce
  <2> QED BY <1>2, <1>10, <2>1, <2>2, <2>3 DEF ToldOnce
<1>20. DeletesOK'
  BY <1>0 DEF IInv, DeletesOK, DeleteOK
<1> QED BY <1>11, <1>12, <1>13, <1>15, <1>16, <1>17, <1>18, <1>19, <1>20 DEF IInv

-----------------------------------------------------------------------------
(* The steps of the deletions. *)

DeleteLabels == {"lock", "scan", "wait", "marked", "flag", "sweep"}

ActiveDeletes == [pc : DeleteLabels, kind : {"wipe", "cascade"}, pid : Pids,
                  doomed : SUBSET Chunks]

LEMMA ActiveDelete ==
    /\ \A q \in DeleteRecords : q.pc # "idle" => q \in ActiveDeletes
    /\ ActiveDeletes \subseteq DeleteRecords
BY DEF DeleteRecords, IdleDelete, DeleteLabels, ActiveDeletes

\* A deletion under another label.
LEMMA DeleteRelabel ==
    ASSUME NEW q \in DeleteRecords, q.pc # "idle", NEW x \in DeleteLabels
    PROVE  LET t == [q EXCEPT !.pc = x]
           IN  /\ t \in DeleteRecords /\ t.pc = x /\ t.doomed = q.doomed
               /\ Scope(t) = Scope(q) /\ q.doomed \in SUBSET Chunks
<1> DEFINE t == [q EXCEPT !.pc = x]
<1>1. q \in ActiveDeletes
  BY ActiveDelete
<1>2. /\ t \in ActiveDeletes /\ t.pc = x /\ t.doomed = q.doomed /\ t.kind = q.kind
      /\ t.pid = q.pid /\ q.doomed \in SUBSET Chunks
  BY <1>1 DEF ActiveDeletes
<1> QED BY <1>2, ActiveDelete DEF Scope

\* A deletion with other rows.
LEMMA DeleteDrops ==
    ASSUME NEW q \in DeleteRecords, q.pc # "idle", NEW S \in SUBSET Chunks
    PROVE  LET t == [q EXCEPT !.doomed = S]
           IN  t \in DeleteRecords /\ t.pc = q.pc /\ t.doomed = S /\ Scope(t) = Scope(q)
<1> DEFINE t == [q EXCEPT !.doomed = S]
<1>1. q \in ActiveDeletes
  BY ActiveDelete
<1>2. /\ t \in ActiveDeletes /\ t.pc = q.pc /\ t.doomed = S /\ t.kind = q.kind
      /\ t.pid = q.pid
  BY <1>1 DEF ActiveDeletes
<1> QED BY <1>2, ActiveDelete DEF Scope

\* A deletion goes on, or ends, without touching the tables.
LEMMA DeleteMoves ==
    ASSUME IInv, NEW d \in Deleters, NEW q \in DeleteRecords, del' = [del EXCEPT ![d] = q],
           UNCHANGED <<rows, store, late, up, uploads, events, answers, gen, swept, stray>>,
           DeleteOK(q), deletes' \in Nat,
           holder' \in Uploaders \cup Deleters \cup {None},
           \A v \in Uploaders : holder = v => holder' = v
    PROVE  IInv'
<1>1. del \in [Deleters -> DeleteRecords] /\ TypeOK
  BY DEF IInv, TypeOK
<1>2. del'[d] = q /\ \A e \in Deleters \ {d} : del'[e] = del[e]
  BY <1>1
<1>3. TypeOK'
  BY <1>1 DEF TypeOK
<1>4. LockHeld'
  BY DEF IInv, LockHeld
<1>5. KeysOK' /\ Numbered' /\ ObjectKept' /\ OrphanIsReplacedNext'
  BY SameTables
<1>6. UploadsOK'
  <2>1. \A x : UploadOK(x) => UploadOK(x)'
    BY SameTables
  <2> QED BY <2>1 DEF IInv, UploadsOK
<1>7. ToldOnce'
  BY DEF IInv, ToldOnce
<1>8. DeletesOK'
  <2>1. \A x : DeleteOK(x) => DeleteOK(x)'
    BY SameTables
  <2>2. \A e \in Deleters : DeleteOK(del'[e])
    BY <1>2 DEF IInv, DeletesOK
  <2> QED BY <2>1, <2>2 DEF DeletesOK
<1> QED BY <1>3, <1>4, <1>5, <1>6, <1>7, <1>8 DEF IInv

\* The deletion of a slot ends.
LEMMA DeleteEnds ==
    ASSUME IInv, NEW d \in Deleters, FinishD(d), holder' = holder \/ (holder = d /\ holder' = None),
           UNCHANGED <<rows, store, late, up, requests, events, answers, gen, swept, stray>>
    PROVE  IInv'
<1>1. IdleDelete \in DeleteRecords /\ DeleteOK(IdleDelete)
  BY DEF DeleteRecords, IdleDelete, DeleteOK
<1>2. /\ holder' \in Uploaders \cup Deleters \cup {None}
      /\ \A v \in Uploaders : holder = v => holder' = v
  BY SlotsAssumption DEF IInv, TypeOK
<1>3. deletes' \in Nat /\ uploads' = uploads
  BY DEF IInv, TypeOK, requests
<1> QED BY <1>1, <1>2, <1>3, DeleteMoves DEF FinishD

\* The steps of a deletion that change nothing but its own request.
LEMMA QuietDeleteSteps ==
    ASSUME IInv, NEW d \in Deleters
    PROVE  /\ \A k \in {"wipe", "cascade"}, p \in Pids : BeginDelete(d, k, p) => IInv'
           /\ CascadeLock(d) \/ Scan(d) \/ Mark(d) \/ MarkWiped(d) \/ SweepDone(d)
              \/ SweepFails(d) \/ DeleteDies(d) => IInv'
<1> USE DEF dbVars, s3Vars, requests, history
<1>0. /\ del[d] \in DeleteRecords /\ DeleteOK(del[d])
      /\ rows \in SUBSET Chunks
      /\ holder \in Uploaders \cup Deleters \cup {None}
      /\ uploads \in Nat /\ deletes \in Nat
  BY DEF IInv, TypeOK, DeletesOK
\* What a step to another label has to show.
<1>1. ASSUME NEW q \in DeleteRecords, del' = [del EXCEPT ![d] = q], DeleteOK(q),
             UNCHANGED <<rows, store, late, up, uploads, events, answers, gen, swept, stray>>,
             deletes' \in Nat,
             \/ holder' = holder
             \/ holder = None /\ holder' = d
      PROVE  IInv'
  <2>1. /\ holder' \in Uploaders \cup Deleters \cup {None}
        /\ \A v \in Uploaders : holder = v => holder' = v
    BY <1>0, <1>1, SlotsAssumption
  <2> QED BY <1>1, <2>1, DeleteMoves
<1>2. ASSUME NEW k \in {"wipe", "cascade"}, NEW p \in Pids, BeginDelete(d, k, p)
      PROVE  IInv'
  <2> DEFINE x == IF k = "cascade" THEN "lock" ELSE "scan"
             q == [IdleDelete EXCEPT !.pc = x, !.kind = k, !.pid = p]
  <2>1. x \in {"lock", "scan"}
    OBVIOUS
  <2>2. del' = [del EXCEPT ![d] = q]
    BY <1>2 DEF BeginDelete
  <2> HIDE DEF x
  <2>3. q \in DeleteRecords /\ q.doomed = {} /\ q.pc = x
    BY <2>1 DEF IdleDelete, DeleteRecords
  <2> HIDE DEF q
  <2>4. DeleteOK(q)
    BY <2>3 DEF DeleteOK
  <2>5. deletes' \in Nat
    BY <1>0, <1>2 DEF BeginDelete
  <2> QED BY <1>1, <1>2, <2>2, <2>3, <2>4, <2>5 DEF BeginDelete
<1>3. CASE CascadeLock(d)
  <2> DEFINE q == [del[d] EXCEPT !.pc = "scan"]
  <2>1. del[d].pc = "lock" /\ del' = [del EXCEPT ![d] = q]
    BY <1>3 DEF CascadeLock, GotoD
  <2>2. /\ q \in DeleteRecords /\ q.pc = "scan" /\ q.doomed = del[d].doomed
        /\ Scope(q) = Scope(del[d])
    BY <1>0, <2>1, DeleteRelabel DEF DeleteLabels
  <2> HIDE DEF q
  <2>3. DeleteOK(q)
    BY <1>0, <2>2 DEF DeleteOK
  <2> QED BY <1>0, <1>1, <1>3, <2>1, <2>2, <2>3 DEF CascadeLock, LockFree
<1>4. CASE Scan(d)
  <2> DEFINE S == {r \in rows : r.pid \in Scope(del[d])}
             q == [del[d] EXCEPT !.pc = "wait", !.doomed = S]
  <2>1. del[d].pc = "scan" /\ del' = [del EXCEPT ![d] = q] /\ S \in SUBSET Chunks
    BY <1>0, <1>4 DEF Scan
  <2>2. \A r \in S : r.pid \in Scope(del[d])
    OBVIOUS
  <2> HIDE DEF S
  <2>3. /\ q \in DeleteRecords /\ q.pc = "wait" /\ q.doomed = S /\ Scope(q) = Scope(del[d])
    <3>1. del[d] \in ActiveDeletes
      BY <1>0, <2>1, ActiveDelete
    <3>2. /\ q \in ActiveDeletes /\ q.pc = "wait" /\ q.doomed = S
          /\ q.kind = del[d].kind /\ q.pid = del[d].pid
      BY <2>1, <3>1 DEF ActiveDeletes, DeleteLabels
    <3> QED BY <3>2, ActiveDelete DEF Scope
  <2> HIDE DEF q
  <2>4. DeleteOK(q)
    BY <2>2, <2>3 DEF DeleteOK
  <2> QED BY <1>0, <1>1, <1>4, <2>1, <2>3, <2>4 DEF Scan
<1>5. CASE Mark(d)
  <2> DEFINE S == del[d].doomed \cap rows
             q == [del[d] EXCEPT !.pc = "marked", !.doomed = S]
  <2>1. del[d].pc = "wait" /\ del' = [del EXCEPT ![d] = q] /\ S \in SUBSET Chunks
    BY <1>0, <1>5 DEF Mark
  <2>2. \A r \in S : r.pid \in Scope(del[d])
    BY <1>0 DEF DeleteOK
  <2> HIDE DEF S
  <2>3. /\ q \in DeleteRecords /\ q.pc = "marked" /\ q.doomed = S /\ Scope(q) = Scope(del[d])
    <3>1. del[d] \in ActiveDeletes
      BY <1>0, <2>1, ActiveDelete
    <3>2. /\ q \in ActiveDeletes /\ q.pc = "marked" /\ q.doomed = S
          /\ q.kind = del[d].kind /\ q.pid = del[d].pid
      BY <2>1, <3>1 DEF ActiveDeletes, DeleteLabels
    <3> QED BY <3>2, ActiveDelete DEF Scope
  <2> HIDE DEF q
  <2>4. DeleteOK(q)
    BY <2>2, <2>3 DEF DeleteOK
  <2> QED BY <1>0, <1>1, <1>5, <2>1, <2>3, <2>4 DEF Mark
<1>6. CASE MarkWiped(d)
  <2> DEFINE q == [del[d] EXCEPT !.pc = "sweep"]
  <2>1. del[d].pc = "flag" /\ del' = [del EXCEPT ![d] = q]
    BY <1>6 DEF MarkWiped, GotoD
  <2>2. /\ q \in DeleteRecords /\ q.pc = "sweep" /\ q.doomed = del[d].doomed
        /\ Scope(q) = Scope(del[d])
    BY <1>0, <2>1, DeleteRelabel DEF DeleteLabels
  <2> HIDE DEF q
  <2>3. DeleteOK(q)
    BY <1>0, <2>1, <2>2 DEF DeleteOK
  <2> QED BY <1>0, <1>1, <1>6, <2>1, <2>2, <2>3 DEF MarkWiped
<1>7. CASE SweepDone(d)
  BY <1>7, DeleteEnds DEF SweepDone
<1>8. CASE SweepFails(d)
  BY <1>8, DeleteEnds DEF SweepFails
<1>9. CASE DeleteDies(d)
  BY <1>9, DeleteEnds DEF DeleteDies
<1> QED BY <1>2, <1>3, <1>4, <1>5, <1>6, <1>7, <1>8, <1>9

\* One object is deleted: its key is among those swept.
LEMMA SweepOneStep ==
    ASSUME IInv, NEW d \in Deleters, SweepOne(d)
    PROVE  IInv'
<1> USE DEF dbVars, s3Vars, requests, history
<1>0. /\ TypeOK /\ KeysOK /\ ObjectKept /\ OrphanIsReplacedNext /\ Numbered /\ UploadsOK
      /\ DeletesOK /\ del[d].pc = "sweep"
      /\ UNCHANGED <<rows, holder, late, up, uploads, deletes, events, gen, answers, swept, stray>>
  BY DEF IInv, SweepOne
<1>1. PICK r \in del[d].doomed :
         /\ store' = Without(store, Key(r))
         /\ del' = [del EXCEPT ![d].doomed = @ \ {r}]
  BY DEF SweepOne
<1>2. del[d] \in DeleteRecords /\ DeleteOK(del[d]) /\ del \in [Deleters -> DeleteRecords]
  BY <1>0 DEF TypeOK, DeletesOK
<1>3. Key(r) \in swept
  BY <1>0, <1>2 DEF DeleteOK
<1>4. store' \subseteq store /\ \A o \in store : Key(o) \in swept \/ o \in store'
  BY <1>1, <1>3 DEF Without
<1> DEFINE S == del[d].doomed \ {r}
           q == [del[d] EXCEPT !.doomed = S]
<1>5. S \in SUBSET Chunks /\ S \subseteq del[d].doomed /\ del' = [del EXCEPT ![d] = q]
  <2>1. del[d].doomed \in SUBSET Chunks
    BY <1>0, <1>2, DeleteRelabel DEF DeleteLabels
  <2> QED BY <1>1, <2>1
<1> HIDE DEF S
<1>6. q \in DeleteRecords /\ q.pc = "sweep" /\ q.doomed = S /\ Scope(q) = Scope(del[d])
  <2>1. del[d] \in DeleteRecords /\ del[d].pc # "idle" /\ "sweep" \in DeleteLabels
    BY <1>0, <1>2 DEF DeleteLabels
  <2>2. S \in SUBSET Chunks
    BY <1>5
  <2>3. /\ q \in DeleteRecords /\ q.pc = del[d].pc /\ q.doomed = S
        /\ Scope(q) = Scope(del[d])
    BY <2>1, <2>2, DeleteDrops
  <2> QED BY <1>0, <2>3
<1> HIDE DEF q
<1>7. /\ del' \in [Deleters -> DeleteRecords] /\ del'[d] = q
      /\ \A e \in Deleters \ {d} : del'[e] = del[e]
  BY <1>2, <1>5, <1>6
<1>8. TypeOK'
  BY <1>0, <1>4, <1>7 DEF TypeOK
<1>9. LockHeld' /\ ToldOnce'
  BY <1>0 DEF IInv, LockHeld, ToldOnce
<1>10. KeysOK'
  BY <1>0, <1>4 DEF KeysOK
<1>11. Numbered'
  BY <1>0, SameRows DEF Numbered
<1>12. ObjectKept'
  BY <1>0, <1>4 DEF ObjectKept, Kept
<1>13. OrphanIsReplacedNext'
  BY <1>0, <1>4, SameRows DEF OrphanIsReplacedNext
<1>14. UploadsOK'
  <2>1. ASSUME NEW v \in Uploaders PROVE UploadOK(up[v])'
    <3>1. UploadOK(up[v])
      BY <1>0 DEF UploadsOK
    <3>2. Stored(up[v])'
      BY <1>0, <1>4, <3>1 DEF UploadOK, Stored, Kept
    <3> QED BY <1>0, <3>1, <3>2, SameRows DEF UploadOK, Reserved, Clear, Told
  <2> QED BY <2>1 DEF UploadsOK
<1>15. DeletesOK'
  <2>1. DeleteOK(q)
    BY <1>0, <1>2, <1>5, <1>6 DEF DeleteOK
  <2>2. \A e \in Deleters : DeleteOK(del'[e])
    BY <1>0, <1>7, <2>1 DEF DeletesOK
  <2> QED BY <1>0, <2>2 DEF DeletesOK, DeleteOK
<1> QED BY <1>8, <1>9, <1>10, <1>11, <1>12, <1>13, <1>14, <1>15 DEF IInv

\* The rows of its participants disappear; their keys are remembered, and the
\* deletion is counted for each of them.
LEMMA DeleteCommitStep ==
    ASSUME IInv, NEW d \in Deleters, DeleteCommit(d)
    PROVE  IInv'
<1> USE DEF dbVars, s3Vars, requests, history
<1> DEFINE x == IF del[d].kind = "wipe" THEN "flag" ELSE "sweep"
           q == [del[d] EXCEPT !.pc = x]
<1>1. PICK K, S :
         /\ K = del[d].doomed /\ S = Scope(del[d])
         /\ rows' = rows \ K /\ swept' = swept \cup {Key(r) : r \in K}
         /\ gen' = [p \in Pids |-> IF p \in S THEN gen[p] + 1 ELSE gen[p]]
  BY DEF DeleteCommit
<1>0. /\ TypeOK /\ LockHeld /\ KeysOK /\ ObjectKept /\ OrphanIsReplacedNext /\ Numbered
      /\ UploadsOK /\ DeletesOK /\ del[d].pc = "marked"
      /\ holder' = (IF holder = d THEN None ELSE holder) /\ del' = [del EXCEPT ![d] = q]
      /\ UNCHANGED <<store, late, up, uploads, deletes, events, answers, stray>>
  BY DEF IInv, DeleteCommit, GotoD
<1>2. /\ del[d] \in DeleteRecords /\ DeleteOK(del[d]) /\ del \in [Deleters -> DeleteRecords]
      /\ store \in SUBSET Chunks /\ rows \in SUBSET Chunks /\ gen \in [Pids -> Nat]
  BY <1>0 DEF TypeOK, DeletesOK
<1>3. /\ q \in DeleteRecords /\ q.doomed = K /\ Scope(q) = Scope(del[d])
      /\ K \in SUBSET Chunks
  <2>1. del[d].pc # "idle" /\ x \in DeleteLabels
    BY <1>0 DEF DeleteLabels
  <2> HIDE DEF x
  <2> QED BY <1>1, <1>2, <2>1, DeleteRelabel
<1> HIDE DEF q
<1>4. \A r \in K : r.pid \in S
  BY <1>1, <1>2 DEF DeleteOK
<1>5. /\ gen' \in [Pids -> Nat]
      /\ \A p \in Pids : gen[p] <= gen'[p] /\ (gen[p] > 0 => gen'[p] > 0)
      /\ \A p \in Pids \cap S : gen'[p] > gen[p] /\ gen'[p] > 0
  BY <1>1, <1>2
<1>6. \A p \in Pids : gen'[p] = 0 => gen[p] = 0 /\ p \notin S
  BY <1>2, <1>5
<1>7. \A p : p \notin S => /\ Seqs(p)' = Seqs(p) /\ RowsOf(p)' = RowsOf(p)
                           /\ NextSeq(p)' = NextSeq(p)
  <2> TAKE p
  <2> HAVE p \notin S
  <2>1. \A r \in rows : r.pid = p <=> r \in rows' /\ r.pid = p
    BY <1>1, <1>4
  <2>2. rows' \subseteq rows
    BY <1>1
  <2>3. Seqs(p)' = Seqs(p)
    BY <2>1, <2>2 DEF Seqs
  <2>4. RowsOf(p)' = RowsOf(p)
    BY <2>1, <2>2 DEF RowsOf
  <2>5. NextSeq(p)' = NextSeq(p)
    BY <2>3 DEF NextSeq
  <2> QED BY <2>3, <2>4, <2>5
<1>8. /\ del' \in [Deleters -> DeleteRecords] /\ del'[d] = q
      /\ \A e \in Deleters \ {d} : del'[e] = del[e]
  BY <1>0, <1>2, <1>3
<1>9. TypeOK'
  <2>1. swept' \subseteq Pids \X Nat
    <3>1. \A r \in K : Key(r) \in Pids \X Nat
      BY <1>3 DEF Key, Chunks
    <3> QED BY <1>0, <1>1, <3>1 DEF TypeOK
  <2>2. holder' \in Uploaders \cup Deleters \cup {None}
    BY <1>0 DEF TypeOK
  <2> QED BY <1>0, <1>1, <1>5, <1>8, <2>1, <2>2 DEF TypeOK
<1>10. LockHeld'
  <2>1. d \notin Uploaders
    BY SlotsAssumption
  <2> QED BY <1>0, <2>1 DEF LockHeld
<1>11. KeysOK'
  <2>1. \A p \in Pids, n \in Nat : <<p, n>> \in swept' => gen'[p] > 0
    <3>1. \A p \in Pids, n \in Nat : <<p, n>> \in swept => gen'[p] > 0
      BY <1>0, <1>5 DEF KeysOK
    <3>2. \A p \in Pids, n \in Nat : \A r \in K : Key(r) = <<p, n>> => p \in S
      BY <1>4 DEF Key
    <3> QED BY <1>1, <1>5, <3>1, <3>2
  <2> QED BY <1>0, <2>1 DEF KeysOK
<1>12. Numbered'
  <2>1. \A p \in Pids : \E b \in Nat : \A s \in Seqs(p)' : s < b
    <3>1. \A p : Seqs(p)' \subseteq Seqs(p)
      BY <1>1 DEF Seqs
    <3> QED BY <1>0, <3>1 DEF Numbered
  <2>2. \A p \in Pids : gen'[p] = 0 =>
           IsFiniteSet(RowsOf(p)') /\ IsNext(Seqs(p)', Cardinality(RowsOf(p)'))
    BY <1>0, <1>6, <1>7 DEF Numbered
  <2> QED BY <2>1, <2>2 DEF Numbered
<1>13. ObjectKept'
  BY <1>0, <1>1 DEF ObjectKept, Kept
<1>14. OrphanIsReplacedNext'
  <2>1. ASSUME NEW o \in store
        PROVE  o \in rows' \/ gen'[o.pid] > 0 \/ Key(o) \in {Key(b) : b \in stray} \/ o.seq = NextSeq(o.pid)'
    <3>1. o.pid \in Pids
      BY <1>2 DEF Chunks
    <3>2. o \in rows \/ gen[o.pid] > 0 \/ Key(o) \in {Key(b) : b \in stray} \/ o.seq = NextSeq(o.pid)
      BY <1>0 DEF OrphanIsReplacedNext
    <3>3. CASE o.pid \in S
      BY <1>5, <3>1, <3>3
    <3>4. CASE o.pid \notin S
      BY <1>1, <1>4, <1>5, <1>7, <3>1, <3>2, <3>4
    <3> QED BY <3>3, <3>4
  <2> QED BY <1>0, <2>1 DEF OrphanIsReplacedNext
<1>15. UploadsOK'
  <2>1. ASSUME NEW v \in Uploaders PROVE UploadOK(up[v])'
    <3>1. Reserved(up[v]) /\ Clear(up[v]) /\ Stored(up[v]) /\ Told(up[v])
      BY <1>0 DEF UploadsOK, UploadOK
    <3>2. up[v].pc # "idle" => up[v].pid \in Pids /\ up[v].gen \in Nat
      BY <1>0, ChunkType
    <3>3. Reserved(up[v])'
      BY <1>0, <1>1, <1>6, <1>7, <3>1, <3>2 DEF Reserved
    <3>4. Clear(up[v])'
      BY <1>0, <1>1, <3>1 DEF Clear
    <3>5. Stored(up[v])'
      BY <1>0, <1>1, <3>1 DEF Stored, Kept
    <3>6. Told(up[v])'
      <4> SUFFICES ASSUME up[v].pc = "emit"
                   PROVE  /\ up[v].gen <= gen'[up[v].pid]
                          /\ up[v].gen = gen'[up[v].pid] => ChunkOf(up[v]) \in rows'
        BY <1>0 DEF Told
      <4>1. /\ up[v].gen <= gen[up[v].pid]
            /\ up[v].gen = gen[up[v].pid] => ChunkOf(up[v]) \in rows
        BY <3>1 DEF Told
      <4>2. \A g \in Nat, h \in Nat, k \in Nat : g <= h /\ h <= k => g <= k /\ (g = k => g = h)
        OBVIOUS
      <4>3. up[v].pid \in Pids /\ up[v].gen \in Nat
        BY <3>2
      <4>4. gen[up[v].pid] \in Nat /\ gen'[up[v].pid] \in Nat /\ gen[up[v].pid] <= gen'[up[v].pid]
        BY <1>2, <1>5, <4>3
      <4>5. /\ up[v].gen <= gen'[up[v].pid]
            /\ up[v].gen = gen'[up[v].pid] => up[v].gen = gen[up[v].pid]
        BY <4>1, <4>2, <4>3, <4>4
      <4>6. ASSUME up[v].gen = gen'[up[v].pid] PROVE ChunkOf(up[v]) \in rows'
        <5>1. up[v].pid \notin S
          <6>1. gen[up[v].pid] = gen'[up[v].pid]
            BY <4>5, <4>6
          <6> QED BY <1>5, <4>3, <4>4, <6>1
        <5>2. ChunkOf(up[v]) \in rows /\ ChunkOf(up[v]).pid = up[v].pid
          BY <4>1, <4>5, <4>6 DEF ChunkOf
        <5> QED BY <1>1, <1>4, <5>1, <5>2
      <4> QED BY <4>5, <4>6
    <3> QED BY <3>3, <3>4, <3>5, <3>6 DEF UploadOK
  <2> QED BY <2>1 DEF UploadsOK
<1>16. ToldOnce'
  BY <1>0 DEF IInv, ToldOnce
<1>17. DeletesOK'
  <2>1. (\A r \in q.doomed : r.pid \in Scope(q)) /\ \A r \in q.doomed : Key(r) \in swept'
    BY <1>1, <1>3, <1>4
  <2>2. \A e \in Deleters \ {d} : DeleteOK(del[e]) /\ del'[e] = del[e]
    BY <1>0, <1>8 DEF DeletesOK
  <2>3. ASSUME NEW e \in Deleters
        PROVE  /\ \A r \in del'[e].doomed : r.pid \in Scope(del'[e])
               /\ del'[e].pc \in {"flag", "sweep"} => \A r \in del'[e].doomed : Key(r) \in swept'
    <3>1. CASE e = d
      BY <1>8, <2>1, <3>1
    <3>2. CASE e # d
      BY <1>1, <2>2, <3>2 DEF DeleteOK
    <3> QED BY <3>1, <3>2
  <2> QED BY <2>3 DEF DeletesOK, DeleteOK, Scope
<1> QED BY <1>9, <1>10, <1>11, <1>12, <1>13, <1>14, <1>15, <1>16, <1>17 DEF IInv

-----------------------------------------------------------------------------
LEMMA Initially == Init => IInv
<1> SUFFICES ASSUME Init PROVE IInv
  OBVIOUS
<1> USE DEF Init
<1>0. /\ IdleUpload \in UploadRecords /\ IdleUpload.pc = "idle"
      /\ IdleDelete \in DeleteRecords /\ IdleDelete.doomed = {}
  BY DEF IdleUpload, IdleDelete, UploadRecords, DeleteRecords
<1>1. TypeOK
  BY <1>0 DEF TypeOK
<1>2. /\ \A u \in Uploaders : up[u].pc = "idle"
      /\ \A d \in Deleters : del[d].doomed = {}
  BY <1>0
<1>3. LockHeld /\ UploadsOK /\ ToldOnce /\ DeletesOK
  BY <1>2, EarlyOK DEF LockHeld, InTx, UploadsOK, ToldOnce, DeletesOK, DeleteOK
<1>4. KeysOK /\ ObjectKept /\ OrphanIsReplacedNext
  BY DEF KeysOK, ObjectKept, OrphanIsReplacedNext
<1>5. Numbered
  <2>1. \A p : Seqs(p) = {} /\ RowsOf(p) = {}
    BY DEF Seqs, RowsOf
  <2>2. IsFiniteSet({}) /\ Cardinality({}) = 0
    BY FS_EmptySet
  <2>3. 0 \in Nat /\ IsNext({}, 0)
    BY DEF IsNext
  <2> QED BY <2>1, <2>2, <2>3 DEF Numbered
<1> QED BY <1>1, <1>3, <1>4, <1>5 DEF IInv

LEMMA Stutters == IInv /\ UNCHANGED vars => IInv'
<1> SUFFICES ASSUME IInv, UNCHANGED vars PROVE IInv'
  OBVIOUS
<1> USE DEF vars, dbVars, s3Vars, requests, history
<1>1. TypeOK' /\ LockHeld' /\ ToldOnce'
  BY DEF IInv, TypeOK, LockHeld, ToldOnce
<1>2. KeysOK' /\ Numbered' /\ ObjectKept' /\ OrphanIsReplacedNext'
  BY SameTables
<1>3. UploadsOK'
  <2>1. \A q : UploadOK(q) => UploadOK(q)'
    BY SameTables
  <2> QED BY <2>1 DEF IInv, UploadsOK
<1>4. DeletesOK'
  BY DEF IInv, DeletesOK, DeleteOK
<1> QED BY <1>1, <1>2, <1>3, <1>4 DEF IInv

LEMMA Inductive == IInv /\ [Next]_vars => IInv'
<1> SUFFICES ASSUME IInv, [Next]_vars PROVE IInv'
  OBVIOUS
<1>1. ASSUME NEW u \in Uploaders, NEW p \in Pids, NEW c \in Cids, BeginUpload(u, p, c)
      PROVE  IInv'
  BY <1>1, QuietUploadSteps
<1>2. ASSUME NEW u \in Uploaders, UploadStep(u) PROVE IInv'
  BY <1>2, QuietUploadSteps, PutOkStep, PutGivenUpStep, CommitStep DEF UploadStep
<1>3. ASSUME NEW u \in Uploaders, UploadDies(u) PROVE IInv'
  BY <1>3, QuietUploadSteps
<1>4. ASSUME NEW d \in Deleters, NEW k \in {"wipe", "cascade"}, NEW p \in Pids,
             BeginDelete(d, k, p)
      PROVE  IInv'
  BY <1>4, QuietDeleteSteps
<1>5. ASSUME NEW d \in Deleters, DeleteStep(d) PROVE IInv'
  BY <1>5, QuietDeleteSteps, SweepOneStep, DeleteCommitStep DEF DeleteStep
<1>6. ASSUME NEW d \in Deleters, DeleteDies(d) PROVE IInv'
  BY <1>6, QuietDeleteSteps
<1>7. ASSUME NEW c \in late, LatePut(c) PROVE IInv'
  BY <1>7, LatePutStep
<1>8. CASE Quiescent
  BY <1>8, Stutters DEF Quiescent
<1>9. CASE UNCHANGED vars
  BY <1>9, Stutters
<1> QED BY <1>1, <1>2, <1>3, <1>4, <1>5, <1>6, <1>7, <1>8, <1>9 DEF Next

\* The invariant holds in every reachable state.
LEMMA Invariance == Spec => []IInv
BY Initially, Inductive, PTL DEF Spec

\* Type correctness: what the handlers write into the tables, the store and
\* their own requests is of the declared types.
THEOREM TypeCorrect == Spec => []TypeOK
<1>1. IInv => TypeOK
  BY DEF IInv
<1> QED BY <1>1, Invariance, PTL

\* Whatever uploads, failed and late PUTs, wipes and cascades race: until a
\* sweep is issued for its key, a committed row keeps its object, which nothing
\* but a given-up PUT of the same key replaces (upload in routes/chunks.rs,
\* delete_many).
THEOREM ObjectsKept == Spec => []ObjectKept
<1>1. IInv => ObjectKept
  BY DEF IInv
<1> QED BY <1>1, Invariance, PTL

\* An object without a row sits where the next upload of its participant puts
\* its own, unless rows were deleted or its PUT was given up: a failed upload
\* leaves no garbage behind (COALESCE(MAX(seq), -1) + 1 in db/chunks.rs).
THEOREM OrphansReplaced == Spec => []OrphanIsReplacedNext
<1>1. IInv => OrphanIsReplacedNext
  BY DEF IInv
<1> QED BY <1>1, Invariance, PTL

-----------------------------------------------------------------------------
(* The chunk log. *)

\* What is stored and not yet told.
Pending == {[chunk |-> ChunkOf(up[u]), gen |-> up[u].gen] :
               u \in {x \in Uploaders : up[x].pc = "emit"}}

\* A step of an upload that is not about to tell, before or after.
LEMMA PendingStays ==
    ASSUME NEW u \in Uploaders, up[u].pc # "emit", up'[u].pc # "emit",
           \A v \in Uploaders \ {u} : up'[v] = up[v]
    PROVE  Pending' = Pending
<1>1. \A v \in Uploaders : up[v].pc = "emit" <=> up'[v].pc = "emit"
  OBVIOUS
<1>2. \A v \in Uploaders : up[v].pc = "emit" => up'[v] = up[v]
  OBVIOUS
<1> QED BY <1>1, <1>2 DEF Pending, ChunkOf

\* An upload that tells, or forgets to, is no longer pending.
LEMMA PendingEnds ==
    ASSUME IInv, NEW u \in Uploaders, up[u].pc = "emit", FinishU(u)
    PROVE  LET t == [chunk |-> ChunkOf(up[u]), gen |-> up[u].gen]
           IN  t \in Pending /\ Pending' = Pending \ {t}
<1> DEFINE t == [chunk |-> ChunkOf(up[u]), gen |-> up[u].gen]
<1>1. t \in Pending
  BY DEF Pending
<1>2. up'[u].pc # "emit" /\ \A v \in Uploaders \ {u} : up'[v] = up[v]
  BY DEF IInv, TypeOK, FinishU, IdleUpload
<1> DEFINE others == {[chunk |-> ChunkOf(up[v]), gen |-> up[v].gen] :
                        v \in {x \in Uploaders \ {u} : up[x].pc = "emit"}}
<1>3. t \notin others
  BY DEF IInv, ToldOnce
<1>4. Pending' = others
  BY <1>2 DEF Pending, ChunkOf
<1>5. Pending = {t} \cup others
  BY DEF Pending
<1>6. t \in Pending /\ Pending' = Pending \ {t}
  <2> HIDE DEF t, others
  <2> QED BY <1>1, <1>3, <1>4, <1>5
<1> QED BY <1>6

\* The steps that neither the clients nor the subscribers see.
LEMMA UnseenSteps ==
    ASSUME IInv, NEW u \in Uploaders
    PROVE  /\ \A p \in Pids, c \in Cids : BeginUpload(u, p, c) => Pending' = Pending
           /\ LookupHit(u) \/ LookupMiss(u) \/ LockSession(u) \/ ReadBody(u) \/ RejectBody(u)
              \/ Reserve(u) \/ InsertRow(u) \/ AnswerConflict(u) \/ PutOk(u) \/ PutFails(u)
              \/ PutGivenUp(u) => Pending' = Pending
           /\ UploadDies(u) /\ up[u].pc # "emit" => Pending' = Pending
<1>0. TypeOK /\ up \in [Uploaders -> UploadRecords] /\ up[u] \in UploadRecords
  BY DEF IInv, TypeOK
<1>1. ASSUME NEW p \in Pids, NEW c \in Cids, BeginUpload(u, p, c) PROVE Pending' = Pending
  <2>1. up[u].pc # "emit" /\ up'[u].pc = "lookup" /\ \A v \in Uploaders \ {u} : up'[v] = up[v]
    BY <1>0, <1>1 DEF BeginUpload, IdleUpload
  <2> QED BY <2>1, PendingStays
<1>2. ASSUME FinishU(u), up[u].pc # "emit" PROVE Pending' = Pending
  <2>1. up'[u].pc # "emit" /\ \A v \in Uploaders \ {u} : up'[v] = up[v]
    BY <1>0, <1>2 DEF FinishU, IdleUpload
  <2> QED BY <1>2, <2>1, PendingStays
<1>3. ASSUME NEW x \in Labels \ {"emit"}, GotoU(u, x), up[u].pc \notin {"idle", "emit"}
      PROVE  Pending' = Pending
  <2>1. up'[u].pc = x /\ \A v \in Uploaders \ {u} : up'[v] = up[v]
    BY <1>0, <1>3, Relabelled
  <2> QED BY <1>3, <2>1, PendingStays
<1>4. CASE Reserve(u)
  <2> DEFINE q == [up[u] EXCEPT !.pc = "insert", !.seq = NextSeq(up[u].pid)]
  <2>1. up[u].pc = "reserve" /\ up[u].pid \in Pids
    BY <1>0, <1>4, ChunkType DEF Reserve
  <2>2. NextSeq(up[u].pid) \in Nat
    BY <1>0, <2>1, NextSeqIsNext DEF IInv
  <2>3. q.pc = "insert"
    BY <1>0, <2>1, <2>2, Numbering
  <2>4. up' = [up EXCEPT ![u] = q]
    BY <1>4 DEF Reserve
  <2> HIDE DEF q
  <2>5. up'[u] = q /\ \A v \in Uploaders \ {u} : up'[v] = up[v]
    BY <1>0, <2>4
  <2> QED BY <2>1, <2>3, <2>5, PendingStays
<1>5. CASE InsertRow(u)
  <2>1. (IF Clashing(up[u]) = {} THEN "put" ELSE "conflict") \in Labels \ {"emit"}
    BY DEF Labels
  <2> QED BY <1>3, <1>5, <2>1 DEF InsertRow
<1>6. /\ LookupHit(u) \/ RejectBody(u) \/ AnswerConflict(u) \/ PutFails(u) \/ PutGivenUp(u)
            => Pending' = Pending
      /\ UploadDies(u) /\ up[u].pc # "emit" => Pending' = Pending
  BY <1>2 DEF LookupHit, RejectBody, AnswerConflict, PutFails, PutGivenUp, UploadDies
<1>7. LookupMiss(u) \/ LockSession(u) \/ ReadBody(u) \/ PutOk(u) => Pending' = Pending
  BY <1>3 DEF LookupMiss, LockSession, ReadBody, PutOk, Labels
<1> QED BY <1>1, <1>4, <1>5, <1>6, <1>7

\* The log counts as the standard module does.
LEMMA LogCounts == \A S : Log!Cardinality(S) = Cardinality(S)
BY DEF Log!Cardinality, Cardinality

\* A commit appends to the log.
LEMMA CommitStores ==
    ASSUME IInv, NEW u \in Uploaders, Commit(u)
    PROVE  Log!Store
<1> USE DEF dbVars, s3Vars, requests, history
<1>0. /\ TypeOK /\ LockHeld /\ Numbered /\ up[u].pc = "commit"
      /\ rows' = rows \cup {ChunkOf(up[u])}
      /\ up' = [up EXCEPT ![u] = [up[u] EXCEPT !.pc = "emit", !.gen = gen[up[u].pid]]]
      /\ UNCHANGED <<events, gen, answers>>
  BY DEF IInv, Commit
<1>1. PICK c \in Chunks, p \in Pids, g \in Nat :
         /\ c = ChunkOf(up[u]) /\ c.pid = p /\ c.cid = up[u].cid /\ c.seq = up[u].seq
         /\ c.seq \in Nat /\ p = up[u].pid /\ g = gen[p]
  <2>1. /\ ChunkOf(up[u]) \in Chunks /\ ChunkOf(up[u]).pid = up[u].pid
        /\ ChunkOf(up[u]).cid = up[u].cid /\ ChunkOf(up[u]).seq = up[u].seq
        /\ up[u].pid \in Pids /\ up[u].seq \in Nat
    BY <1>0, ChunkType
  <2>2. gen[up[u].pid] \in Nat
    BY <1>0, <2>1 DEF TypeOK
  <2> QED BY <2>1, <2>2
<1> DEFINE q == [up[u] EXCEPT !.pc = "emit", !.gen = g]
           t == [chunk |-> c, gen |-> g]
<1>2. q.pc = "emit" /\ q.gen = g /\ ChunkOf(q) = c
  <2>1. up[u] \in UploadRecords
    BY <1>0 DEF TypeOK
  <2> QED BY <1>0, <1>1, <2>1, Committing
<1>3. up'[u] = q /\ \A v \in Uploaders \ {u} : up'[v] = up[v]
  BY <1>0, <1>1 DEF TypeOK
<1> HIDE DEF q
<1>4. Pending' = Pending \cup {t}
  <2> DEFINE others == {[chunk |-> ChunkOf(up[v]), gen |-> up[v].gen] :
                           v \in {x \in Uploaders \ {u} : up[x].pc = "emit"}}
  <2>1. Pending = others
    BY <1>0 DEF Pending
  <2>2. Pending' = {t} \cup others
    <3>1. Pending' = {[chunk |-> ChunkOf(up'[u]), gen |-> up'[u].gen]} \cup
             {[chunk |-> ChunkOf(up'[v]), gen |-> up'[v].gen] :
                 v \in {x \in Uploaders \ {u} : up'[x].pc = "emit"}}
      BY <1>2, <1>3 DEF Pending, ChunkOf
    <3>2. {[chunk |-> ChunkOf(up'[v]), gen |-> up'[v].gen] :
              v \in {x \in Uploaders \ {u} : up'[x].pc = "emit"}} = others
      BY <1>3
    <3> QED BY <1>2, <1>3, <3>1, <3>2
  <2> HIDE DEF others, t
  <2> QED BY <2>1, <2>2
<1>5. Reserved(up[u]) /\ Clear(up[u])
  BY <1>0 DEF IInv, UploadsOK, UploadOK
<1>6. /\ \A r \in RowsOf(p) : r.cid # c.cid /\ r.seq < c.seq
      /\ gen[p] = 0 => c.seq = Cardinality(RowsOf(p))
  <2>1. \A r \in RowsOf(p) : r.cid # c.cid /\ r.seq < c.seq
    BY <1>0, <1>1, <1>5 DEF Reserved, Clear, RowsOf
  <2>2. gen[p] = 0 => c.seq = Cardinality(RowsOf(p))
    BY <1>0, <1>1, <1>5, ReservedIsNext
  <2> QED BY <2>1, <2>2
<1>7. c \in rows' \ rows
  <2>1. ~(c.seq < c.seq)
    BY <1>1
  <2> QED BY <1>0, <1>1, <1>6, <2>1 DEF RowsOf
<1>8. Log!Of(p) = RowsOf(p) /\ Log!Cardinality(RowsOf(p)) = Cardinality(RowsOf(p))
  BY LogCounts DEF Log!Of, RowsOf
<1> QED BY <1>0, <1>1, <1>4, <1>6, <1>7, <1>8 DEF Log!Store, Pending

\* A step of the handlers is a step of the log, or none.
LEMMA LogSteps == IInv /\ [Next]_vars => [Log!Next]_(Log!vars)
<1> SUFFICES ASSUME IInv, [Next]_vars PROVE Log!Next \/ UNCHANGED Log!vars
  OBVIOUS
<1> USE DEF dbVars, s3Vars, requests, history
<1>0. TypeOK
  BY DEF IInv
<1>1. ASSUME Pending' = Pending, UNCHANGED <<rows, gen, events, answers>>
      PROVE  UNCHANGED Log!vars
  BY <1>1 DEF Log!vars, Pending
<1>2. ASSUME NEW u \in Uploaders, NEW p \in Pids, NEW c \in Cids, BeginUpload(u, p, c)
      PROVE  UNCHANGED Log!vars
  <2>1. Pending' = Pending
    BY <1>2, UnseenSteps
  <2> QED BY <1>1, <1>2, <2>1 DEF BeginUpload
<1>3. ASSUME NEW u \in Uploaders, UploadStep(u) PROVE Log!Next \/ UNCHANGED Log!vars
  <2>1. CASE LookupHit(u)
    <3>1. Pending' = Pending
      BY <2>1, UnseenSteps
    <3>2. Log!Repeat
      BY <2>1, <3>1 DEF Log!Repeat, LookupHit, Existing, Pending
    <3> QED BY <3>2 DEF Log!Next
  <2>2. CASE LookupMiss(u) \/ LockSession(u) \/ ReadBody(u) \/ RejectBody(u) \/ Reserve(u)
             \/ InsertRow(u) \/ AnswerConflict(u) \/ PutOk(u) \/ PutFails(u) \/ PutGivenUp(u)
    <3>1. Pending' = Pending
      BY <2>2, UnseenSteps
    <3>2. UNCHANGED <<rows, gen, events, answers>>
      BY <2>2 DEF LookupMiss, LockSession, ReadBody, RejectBody, Reserve, InsertRow,
                  AnswerConflict, PutOk, PutFails, PutGivenUp
    <3> QED BY <1>1, <3>1, <3>2
  <2>3. CASE Commit(u)
    BY <2>3, CommitStores DEF Log!Next
  <2>4. CASE Emit(u)
    <3> DEFINE t == [chunk |-> ChunkOf(up[u]), gen |-> up[u].gen]
    <3>1. t \in Pending /\ Pending' = Pending \ {t}
      BY <2>4, PendingEnds DEF Emit
    <3>2. /\ events' = Append(events, t) /\ answers' = answers \cup {t}
          /\ UNCHANGED <<rows, gen>>
      BY <2>4 DEF Emit
    <3>3. Log!Tell
      <4> HIDE DEF t
      <4> QED BY <3>1, <3>2 DEF Log!Tell, Pending
    <3> QED BY <3>3 DEF Log!Next
  <2> QED BY <1>3, <2>1, <2>2, <2>3, <2>4 DEF UploadStep
<1>4. ASSUME NEW u \in Uploaders, UploadDies(u) PROVE Log!Next \/ UNCHANGED Log!vars
  <2>1. UNCHANGED <<rows, gen, events, answers>>
    BY <1>4 DEF UploadDies
  <2>2. CASE up[u].pc = "emit"
    <3> DEFINE t == [chunk |-> ChunkOf(up[u]), gen |-> up[u].gen]
    <3>1. t \in Pending /\ Pending' = Pending \ {t}
      BY <1>4, <2>2, PendingEnds DEF UploadDies
    <3>2. Log!Forget
      <4> HIDE DEF t
      <4> QED BY <2>1, <3>1 DEF Log!Forget, Pending
    <3> QED BY <3>2 DEF Log!Next
  <2>3. CASE up[u].pc # "emit"
    <3>1. Pending' = Pending
      BY <1>4, <2>3, UnseenSteps
    <3> QED BY <1>1, <2>1, <3>1
  <2> QED BY <2>2, <2>3
\* What the deletions leave alone, they leave alone in the log.
<1>5. ASSUME up' = up PROVE Pending' = Pending
  BY <1>5 DEF Pending
<1>6. ASSUME NEW d \in Deleters, NEW k \in {"wipe", "cascade"}, NEW p \in Pids,
             BeginDelete(d, k, p)
      PROVE  UNCHANGED Log!vars
  BY <1>1, <1>5, <1>6 DEF BeginDelete
<1>7. ASSUME NEW d \in Deleters, DeleteStep(d) PROVE Log!Next \/ UNCHANGED Log!vars
  <2>1. CASE DeleteCommit(d)
    <3>1. Scope(del[d]) \in {{p} : p \in Pids} \cup {Pids}
      <4>1. del[d] \in DeleteRecords /\ del[d].pc = "marked"
        BY <1>0, <2>1 DEF TypeOK, DeleteCommit
      <4>2. del[d].pid \in Pids
        BY <4>1 DEF DeleteRecords, IdleDelete
      <4> QED BY <4>2 DEF Scope
    <3>2. \A r \in del[d].doomed : r.pid \in Scope(del[d])
      BY DEF IInv, DeletesOK, DeleteOK
    <3>3. Pending' = Pending
      BY <1>5, <2>1 DEF DeleteCommit
    <3>4. /\ gen' = [p \in Pids |-> IF p \in Scope(del[d]) THEN gen[p] + 1 ELSE gen[p]]
          /\ rows' = rows \ del[d].doomed /\ UNCHANGED <<events, answers>>
      BY <2>1 DEF DeleteCommit
    <3>5. rows' \subseteq rows /\ \A r \in rows \ rows' : r.pid \in Scope(del[d])
      BY <3>2, <3>4
    <3>6. Log!Erase
      BY <3>1, <3>3, <3>4, <3>5 DEF Log!Erase, Pending
    <3> QED BY <3>6 DEF Log!Next
  <2>2. CASE CascadeLock(d) \/ Scan(d) \/ Mark(d) \/ MarkWiped(d) \/ SweepOne(d)
             \/ SweepDone(d) \/ SweepFails(d)
    BY <1>1, <1>5, <2>2 DEF CascadeLock, Scan, Mark, MarkWiped, SweepOne, SweepDone, SweepFails
  <2> QED BY <1>7, <2>1, <2>2 DEF DeleteStep
<1>8. ASSUME NEW d \in Deleters, DeleteDies(d) PROVE UNCHANGED Log!vars
  BY <1>1, <1>5, <1>8 DEF DeleteDies
<1>9. ASSUME NEW c \in late, LatePut(c) PROVE UNCHANGED Log!vars
  BY <1>1, <1>5, <1>9 DEF LatePut
<1>10. CASE UNCHANGED vars \/ Quiescent
  BY <1>1, <1>5, <1>10 DEF vars, Quiescent
<1> QED BY <1>2, <1>3, <1>4, <1>6, <1>7, <1>8, <1>9, <1>10 DEF Next

\* The handlers, the database and the store together implement the chunk log:
\* an upload that was answered is numbered after all others, without a hole as
\* long as nothing was deleted, its client id is new, it is announced at most
\* once, and a retry is answered with the row that is there (routes/chunks.rs).
THEOREM ImplementsLog == Spec => ImplementsChunkLog
<1>1. Init => Log!Init
  <2> SUFFICES ASSUME Init PROVE Log!Init
    OBVIOUS
  <2>1. Pending = {}
    BY DEF Init, IdleUpload, Pending
  <2> QED BY <2>1 DEF Init, Log!Init, Pending
<1>2. QED
  BY <1>1, LogSteps, Invariance, PTL DEF Spec, ImplementsChunkLog, Log!Spec
=============================================================================
