------------------------ MODULE SessionMetadataProofs ------------------------
(***************************************************************************)
(* Proofs about SessionMetadata for any number of handlers, any keys and   *)
(* values and any bound on the requests.  The argument is FOR UPDATE: who  *)
(* has found the row holds it until the end of the transaction, so that    *)
(* what was read is still the row when the merge is written (Locking,      *)
(* Reading); and a version that was written over never comes back, for the *)
(* tags grow (Tags).                                                       *)
(***************************************************************************)
EXTENDS SessionMetadata, SequenceTheorems, TLAPS

Entries == [op : {"replace", "merge", "delete"}, tag : Nat, blob : Json, read : Nat,
            over : Nat, expected : Nat \cup {AnyTag}]

LogTags == {log[i].tag : i \in DOMAIN log}

\* What the locks w and s have to do with p and its request q: they are held
\* inside the transaction only, and by whoever has found the row or written.
Locking(p, q, w, s) ==
    /\ w = p => q.pc \in {"check", "upsert", "foreign", "commit", "erased"}
    /\ s = p => q.pc \in {"commit", "erase", "erased"}
    /\ q.pc \in {"foreign", "commit"} => w = p
    /\ q.pc \in {"check", "upsert", "foreign", "commit"} /\ q.seen # NoRow => w = p

\* What was read is still there; what an If-Match was compared with is what
\* was read; what was written, and is not committed, is the newest version.
Reading(q) ==
    /\ q.pc = "select" => q.seen = NoRow
    /\ q.pc \in {"check", "upsert", "foreign", "commit"} /\ q.seen # NoRow => q.seen = row
    /\ q.seen # NoRow => q.seen.tag > 0 /\ q.seen.born > 0
    /\ q.op = "merge" /\ q.pc \in {"upsert", "foreign", "commit"} /\ q.expected # AnyTag =>
          q.seen # NoRow /\ q.expected = q.seen.tag
    /\ q.pc \in {"foreign", "commit"} =>
          /\ q.new.tag = lastTag /\ q.new.tag > 0 /\ q.new.born > 0
          /\ row.tag < lastTag
          /\ \A i \in DOMAIN log : log[i].tag < lastTag
    /\ q.pc = "audit" => q.new.tag \in LogTags

Transactions ==
    \A p \in Handlers : Locking(p, req[p], writer, session) /\ Reading(req[p])

\* Tags grow along the log; the row has not been written over.
Tags ==
    /\ log \in Seq(Entries)
    /\ \A i \in DOMAIN log : log[i].over < log[i].tag /\ log[i].tag <= lastTag
    /\ Present => row.tag > 0 /\ row.born > 0 /\ \A i \in DOMAIN log : log[i].over < row.tag

\* The inductive invariant.
IInv == TypeOK /\ Transactions /\ Tags /\ MergeOnLatest /\ CompareAndSet

-----------------------------------------------------------------------------
(* The types of blobs and requests. *)

LEMMA BlobTypes ==
    /\ Null \in Json /\ Object(<< >>) \in Json
    /\ \A m \in Members : Object(m) \in Json
    /\ \A j \in Json : j.kind # "scalar" => j.members \in Members
    /\ NoRow \in Rows /\ NoRow.tag = 0 /\ NoRow.born = 0
<1>1. << >> \in [{} -> Values]
  OBVIOUS
<1>2. << >> \in Members
  BY <1>1 DEF Members
<1>3. Null \in Json /\ \A m \in Members : Object(m) \in Json
  BY DEF Json
<1>4. \A j \in Json : j.kind # "scalar" => j.members \in Members
  BY <1>2 DEF Json, Object, Null
<1>5. NoRow \in Rows /\ NoRow.tag = 0 /\ NoRow.born = 0
  BY <1>3 DEF NoRow, Rows, NoTag
<1> QED BY <1>2, <1>3, <1>4, <1>5

\* A merge of two objects is an object.
LEMMA MergedType ==
    ASSUME NEW q \in Requests, Mergeable(q)
    PROVE  Merged(q) \in Json
<1>1. q.body \in Json /\ q.seen.blob \in Json
  BY DEF Requests, Rows
<1>2. q.body.members \in Members /\ q.seen.blob.members \in Members
  BY <1>1, BlobTypes DEF Mergeable
<1>3. PICK f \in Members, g \in Members : f = q.body.members /\ g = q.seen.blob.members
  BY <1>2
<1>4. PICK K \in SUBSET Keys, L \in SUBSET Keys : f \in [K -> Values] /\ g \in [L -> Values]
  BY DEF Members
<1>5. Over(f, g) \in [K \cup L -> Values]
  BY <1>4 DEF Over
<1>6. Over(f, g) \in Members
  BY <1>5 DEF Members
<1> QED BY <1>3, <1>6, BlobTypes DEF Merged

LEMMA IdleType ==
    Idle \in Requests /\ Idle.pc = "idle" /\ Idle.seen = NoRow /\ Idle.op = "delete"
BY BlobTypes DEF Idle, Requests, AnyTag

-----------------------------------------------------------------------------
LEMMA Initially == Init => IInv
<1> SUFFICES ASSUME Init PROVE IInv
  OBVIOUS
<1>1. \A p \in Handlers : req[p] = Idle
  BY DEF Init
<1>2. Transactions
  <2>1. ASSUME NEW p \in Handlers PROVE Locking(p, Idle, NoHandler, NoHandler) /\ Reading(Idle)
    BY IdleType, HandlersAssumption DEF Locking, Reading
  <2> QED BY <1>1, <2>1 DEF Init, Transactions
<1>3. /\ writer = NoHandler /\ session = NoHandler /\ req \in [Handlers -> Requests]
      /\ requests \in 0 .. MaxRequests
  BY IdleType, BoundAssumption DEF Init
<1>4. CASE row = NoRow /\ log = << >>
  <2>1. log \in Seq(Entries) /\ DOMAIN log = {} /\ Len(log) = 0
    BY <1>4
  <2>2. lastTag = 0 /\ audit = {} /\ row.tag = 0 /\ row \in Rows
    BY <1>4, <2>1, BlobTypes DEF Init
  <2>3. TypeOK
    BY <1>3, <2>2 DEF TypeOK
  <2>4. Tags
    BY <1>4, <2>1 DEF Tags, Present
  <2>5. MergeOnLatest /\ CompareAndSet
    BY <2>1 DEF MergeOnLatest, CompareAndSet, Merges
  <2> QED BY <1>2, <2>3, <2>4, <2>5 DEF IInv
<1>5. CASE row = First.new /\ log = <<Entry(First, NoTag)>>
  <2> DEFINE e == Entry(First, NoTag)
             blob == Object(<< >>)
  <2>1. /\ First.new = [blob |-> blob, tag |-> 1, born |-> 1] /\ First.op = "replace"
        /\ First.seen = NoRow /\ First.expected = AnyTag
    BY DEF First, Idle
  <2>2. blob \in Json
    BY BlobTypes
  <2> HIDE DEF blob
  <2>3. row \in Rows /\ row.tag = 1 /\ row.born = 1
    BY <1>5, <2>1, <2>2 DEF Rows
  <2>4. /\ e \in Entries /\ e.op = "replace" /\ e.tag = 1 /\ e.over = 0
    BY <2>1, <2>2, BlobTypes DEF Entry, Entries, NoTag
  <2> HIDE DEF e
  <2>5. log \in Seq(Entries) /\ DOMAIN log = {1} /\ Len(log) = 1 /\ log[1] = e
    BY <1>5, <2>4 DEF e
  <2>6. lastTag = 1 /\ audit = {1} /\ LogTags = {1}
    BY <2>4, <2>5 DEF Init, LogTags
  <2>7. TypeOK
    BY <1>3, <2>3, <2>6 DEF TypeOK, LogTags
  <2>8. Tags
    BY <2>3, <2>4, <2>5, <2>6 DEF Tags
  <2>9. MergeOnLatest /\ CompareAndSet
    BY <2>4, <2>5 DEF MergeOnLatest, CompareAndSet, Merges
  <2> QED BY <1>2, <2>7, <2>8, <2>9 DEF IInv
<1> QED BY <1>4, <1>5 DEF Init

\* A request goes on or ends; the tables stay, and locks are its own affair.
LEMMA Moves ==
    ASSUME IInv, NEW p \in Handlers, NEW q \in Requests, req' = [req EXCEPT ![p] = q],
           UNCHANGED <<row, lastTag, log>>,
           Reading(q), Locking(p, q, writer', session'),
           writer' \in Handlers \cup {NoHandler}, session' \in Handlers \cup {NoHandler},
           \A o \in Handlers \ {p} : /\ writer' = o <=> writer = o
                                     /\ session' = o <=> session = o,
           audit' \subseteq LogTags, requests' \in 0 .. MaxRequests
    PROVE  IInv'
<1>0. TypeOK /\ Transactions /\ Tags /\ MergeOnLatest /\ CompareAndSet
  BY DEF IInv
<1>1. /\ req' \in [Handlers -> Requests] /\ req'[p] = q
      /\ \A o \in Handlers \ {p} : req'[o] = req[o]
  BY <1>0 DEF TypeOK
<1>2. ASSUME NEW o \in Handlers
      PROVE  Locking(o, req'[o], writer', session') /\ Reading(req'[o])
  <2>1. CASE o = p
    BY <1>1, <2>1
  <2>2. CASE o # p
    <3>1. Locking(o, req[o], writer, session) /\ Reading(req[o])
      BY <1>0 DEF Transactions
    <3>2. Locking(o, req[o], writer', session')
      BY <2>2, <3>1 DEF Locking
    <3> QED BY <1>1, <2>2, <3>1, <3>2
  <2> QED BY <2>1, <2>2
<1>3. LogTags' = LogTags
  BY DEF LogTags
<1>4. TypeOK'
  <2>1. /\ writer' = NoHandler \/ (writer' \in Handlers /\ req'[writer'].pc # "idle")
        /\ session' = NoHandler \/ (session' \in Handlers /\ req'[session'].pc # "idle")
    BY <1>2 DEF Locking
  <2> QED BY <1>0, <1>1, <1>3, <2>1 DEF TypeOK, At, LogTags
<1>5. Transactions'
  BY <1>2, <1>3 DEF Transactions, Reading, Locking
<1>6. Tags' /\ MergeOnLatest' /\ CompareAndSet'
  BY <1>0 DEF Tags, Present, MergeOnLatest, CompareAndSet, Merges
<1> QED BY <1>4, <1>5, <1>6 DEF IInv

\* The transaction of p ends: the locks that were its own are free.
LEMMA Released ==
    ASSUME IInv, NEW p \in Handlers, Release(p)
    PROVE  /\ writer' \in Handlers \cup {NoHandler} /\ writer' # p
           /\ session' \in Handlers \cup {NoHandler} /\ session' # p
           /\ \A o \in Handlers \ {p} : /\ writer' = o <=> writer = o
                                        /\ session' = o <=> session = o
BY HandlersAssumption DEF IInv, TypeOK, Release

\* A request ends, and with it its transaction.
LEMMA Ends ==
    ASSUME IInv, NEW p \in Handlers, Finish(p), Release(p),
           UNCHANGED <<row, lastTag, log, audit, requests>>
    PROVE  IInv'
<1>1. Reading(Idle)
  BY IdleType DEF Reading
<1>2. Locking(p, Idle, writer', session')
  BY Released, IdleType DEF Locking
<1>3. audit' \subseteq LogTags /\ requests' \in 0 .. MaxRequests
  BY DEF IInv, TypeOK, LogTags
<1> QED BY <1>1, <1>2, <1>3, Released, IdleType, Moves DEF Finish

Labels == {"idle", "select", "wait", "check", "upsert", "foreign", "commit",
           "audit", "session", "erase", "erased"}

\* A request under another label.
LEMMA Relabel ==
    ASSUME NEW q \in Requests, NEW x \in Labels
    PROVE  LET t == [q EXCEPT !.pc = x]
           IN  /\ t \in Requests /\ t.pc = x /\ t.op = q.op /\ t.body = q.body
               /\ t.expected = q.expected /\ t.seen = q.seen /\ t.new = q.new
BY DEF Requests, Labels

\* The steps that touch neither the blob nor its log.
LEMMA QuietSteps ==
    ASSUME IInv, NEW p \in Handlers
    PROVE  /\ \A o \in {"replace", "merge", "delete"}, body \in Json, tag \in AnyTag .. lastTag :
                 Begin(p, o, body, tag) => IInv'
           /\ SelectNone(p) \/ SelectSome(p) \/ LockRow(p) \/ RowGone(p) \/ Merge(p)
              \/ Refuse(p) \/ CheckForeignKey(p) \/ AppendAudit(p) \/ LockSession(p)
              \/ Erase(p) \/ Die(p) => IInv'
<1> USE DEF locks, history
<1> DEFINE r == req[p]
<1>0. /\ TypeOK /\ Tags /\ r \in Requests /\ row \in Rows /\ lastTag \in Nat
      /\ Locking(p, r, writer, session) /\ Reading(r)
      /\ writer \in Handlers \cup {NoHandler} /\ session \in Handlers \cup {NoHandler}
      /\ audit \subseteq LogTags /\ requests \in 0 .. MaxRequests
  BY DEF IInv, TypeOK, Transactions, LogTags
\* A step that takes or leaves no lock has to show this much.
<1>1. ASSUME NEW q \in Requests, req' = [req EXCEPT ![p] = q], Reading(q),
             Locking(p, q, writer, session), UNCHANGED <<row, locks, lastTag, log>>,
             audit' \subseteq LogTags, requests' \in 0 .. MaxRequests
      PROVE  IInv'
  BY <1>0, <1>1, Moves
<1>2. ASSUME NEW o \in {"replace", "merge", "delete"}, NEW body \in Json,
             NEW tag \in AnyTag .. lastTag, Begin(p, o, body, tag)
      PROVE  IInv'
  <2> DEFINE x == CASE o = "replace" -> "upsert"
                    [] o = "merge"   -> "select"
                    [] o = "delete"  -> "session"
             q == [Idle EXCEPT !.pc = x, !.op = o, !.body = body, !.expected = tag]
  <2>1. x \in {"upsert", "select", "session"} /\ (x = "upsert" => o = "replace")
    OBVIOUS
  <2>2. req' = [req EXCEPT ![p] = q] /\ UNCHANGED <<row, locks, lastTag, log, audit>>
    BY <1>2 DEF Begin
  <2>3. requests' \in 0 .. MaxRequests
    BY <1>0, <1>2, BoundAssumption DEF Begin
  <2> HIDE DEF x
  <2>4. tag \in Nat \cup {AnyTag}
    BY <1>0 DEF AnyTag
  <2>5. q \in Requests /\ q.pc = x /\ q.op = o /\ q.seen = NoRow
    BY <2>1, <2>4, BlobTypes DEF Idle, Requests
  <2> HIDE DEF q
  <2>6. Reading(q)
    BY <2>1, <2>5 DEF Reading
  <2>7. Locking(p, q, writer, session)
    <3>1. writer # p /\ session # p
      BY <1>0, <1>2 DEF Locking, Begin, At
    <3> QED BY <2>1, <2>5, <3>1 DEF Locking
  <2> QED BY <1>0, <1>1, <2>2, <2>3, <2>5, <2>6, <2>7
<1>3. CASE SelectNone(p)
  <2> DEFINE q == [r EXCEPT !.pc = "check"]
  <2>1. r.pc = "select" /\ req' = [req EXCEPT ![p] = q] /\ r.seen = NoRow
    BY <1>0, <1>3 DEF SelectNone, Goto, At, Reading
  <2>2. q \in Requests /\ q.pc = "check" /\ q.seen = NoRow
    BY <1>0, <2>1, Relabel DEF Labels
  <2> HIDE DEF q, r
  <2>3. Reading(q) /\ Locking(p, q, writer, session)
    BY <1>0, <2>1, <2>2 DEF Reading, Locking
  <2> QED BY <1>0, <1>1, <1>3, <2>1, <2>2, <2>3 DEF SelectNone
<1>4. CASE SelectSome(p)
  <2> DEFINE q == [r EXCEPT !.pc = "wait", !.seen = row]
  <2>1. r.pc = "select" /\ req' = [req EXCEPT ![p] = q] /\ Present
    BY <1>0, <1>4 DEF SelectSome, At
  <2>2. q \in Requests /\ q.pc = "wait" /\ q.seen = row
    BY <1>0 DEF Requests
  <2> HIDE DEF q, r
  <2>3. Reading(q) /\ Locking(p, q, writer, session)
    BY <1>0, <2>1, <2>2 DEF Reading, Locking, Tags
  <2> QED BY <1>0, <1>1, <1>4, <2>1, <2>2, <2>3 DEF SelectSome
<1>5. CASE LockRow(p)
  <2> DEFINE q == [r EXCEPT !.pc = "check", !.seen = row]
  <2>1. /\ r.pc = "wait" /\ req' = [req EXCEPT ![p] = q] /\ writer = NoHandler /\ writer' = p
        /\ UNCHANGED <<row, session, lastTag, log, audit, requests>>
    BY <1>0, <1>5 DEF LockRow, RowFree, At
  <2>2. q \in Requests /\ q.pc = "check" /\ q.seen = row
    BY <1>0 DEF Requests
  <2> HIDE DEF q, r
  <2>3. Reading(q) /\ Locking(p, q, writer', session')
    BY <1>0, <2>1, <2>2 DEF Reading, Locking, Tags, Present
  <2>4. \A o \in Handlers \ {p} : (writer' = o <=> writer = o) /\ (session' = o <=> session = o)
    BY <2>1, HandlersAssumption
  <2> QED BY <1>0, <2>1, <2>2, <2>3, <2>4, Moves
<1>6. CASE RowGone(p)
  <2> DEFINE q == [r EXCEPT !.pc = "check", !.seen = NoRow]
  <2>1. r.pc = "wait" /\ req' = [req EXCEPT ![p] = q]
    BY <1>0, <1>6 DEF RowGone, At
  <2>2. q \in Requests /\ q.pc = "check" /\ q.seen = NoRow
    BY <1>0, BlobTypes DEF Requests
  <2> HIDE DEF q, r
  <2>3. Reading(q) /\ Locking(p, q, writer, session)
    BY <1>0, <2>1, <2>2 DEF Reading, Locking
  <2> QED BY <1>0, <1>1, <1>6, <2>1, <2>2, <2>3 DEF RowGone
<1>7. CASE Merge(p)
  <2> DEFINE b == Merged(r)
             q == [r EXCEPT !.pc = "upsert", !.body = b]
  <2>1. /\ r.pc = "check" /\ req' = [req EXCEPT ![p] = q] /\ Matches(r) /\ b \in Json
    BY <1>0, <1>7, MergedType DEF Merge, At
  <2> HIDE DEF b
  <2>2. /\ q \in Requests /\ q.pc = "upsert" /\ q.op = r.op /\ q.expected = r.expected
        /\ q.seen = r.seen
    BY <1>0, <2>1 DEF Requests
  <2> HIDE DEF q, r
  <2>3. Reading(q) /\ Locking(p, q, writer, session)
    BY <1>0, <2>1, <2>2 DEF Reading, Locking, Matches
  <2> QED BY <1>0, <1>1, <1>7, <2>1, <2>2, <2>3 DEF Merge
<1>8. CASE CheckForeignKey(p)
  <2> DEFINE q == [r EXCEPT !.pc = "commit"]
  <2>1. /\ r.pc = "foreign" /\ req' = [req EXCEPT ![p] = q] /\ session = NoHandler /\ session' = p
        /\ UNCHANGED <<row, writer, lastTag, log, audit, requests>>
    BY <1>0, <1>8 DEF CheckForeignKey, Goto, At
  <2>2. /\ q \in Requests /\ q.pc = "commit" /\ q.op = r.op /\ q.expected = r.expected
        /\ q.seen = r.seen /\ q.new = r.new
    BY <1>0, Relabel DEF Labels
  <2> HIDE DEF q, r
  <2>3. Reading(q) /\ Locking(p, q, writer', session')
    BY <1>0, <2>1, <2>2 DEF Reading, Locking
  <2>4. \A o \in Handlers \ {p} : (writer' = o <=> writer = o) /\ (session' = o <=> session = o)
    BY <2>1, HandlersAssumption
  <2> QED BY <1>0, <2>1, <2>2, <2>3, <2>4, Moves
<1>9. CASE AppendAudit(p)
  <2>1. r.pc = "audit" /\ req' = [req EXCEPT ![p] = Idle] /\ audit' = audit \cup {r.new.tag}
    BY <1>9 DEF AppendAudit, Finish, At
  <2>2. audit' \subseteq LogTags
    BY <1>0, <2>1 DEF Reading
  <2>3. Reading(Idle) /\ Locking(p, Idle, writer, session)
    BY <1>0, <2>1, IdleType DEF Reading, Locking
  <2> QED BY <1>0, <1>1, <1>9, <2>1, <2>2, <2>3, IdleType DEF AppendAudit
<1>10. CASE LockSession(p)
  <2> DEFINE q == [r EXCEPT !.pc = "erase"]
  <2>1. /\ r.pc = "session" /\ req' = [req EXCEPT ![p] = q] /\ session = NoHandler /\ session' = p
        /\ UNCHANGED <<row, writer, lastTag, log, audit, requests>>
    BY <1>0, <1>10 DEF LockSession, Goto, At
  <2>2. q \in Requests /\ q.pc = "erase" /\ q.seen = r.seen
    BY <1>0, Relabel DEF Labels
  <2> HIDE DEF q, r
  <2>3. Reading(q) /\ Locking(p, q, writer', session')
    BY <1>0, <2>1, <2>2 DEF Reading, Locking
  <2>4. \A o \in Handlers \ {p} : (writer' = o <=> writer = o) /\ (session' = o <=> session = o)
    BY <2>1, HandlersAssumption
  <2> QED BY <1>0, <2>1, <2>2, <2>3, <2>4, Moves
<1>11. CASE Erase(p)
  <2> DEFINE q == [r EXCEPT !.pc = "erased"]
  <2>1. /\ r.pc = "erase" /\ req' = [req EXCEPT ![p] = q]
        /\ writer' = writer \/ (writer = NoHandler /\ writer' = p)
        /\ UNCHANGED <<row, session, lastTag, log, audit, requests>>
    BY <1>0, <1>11 DEF Erase, Goto, At
  <2>2. q \in Requests /\ q.pc = "erased" /\ q.seen = r.seen
    BY <1>0, Relabel DEF Labels
  <2> HIDE DEF q, r
  <2>3. Reading(q) /\ Locking(p, q, writer', session')
    BY <1>0, <2>1, <2>2 DEF Reading, Locking
  <2>4. \A o \in Handlers \ {p} : (writer' = o <=> writer = o) /\ (session' = o <=> session = o)
    BY <2>1, HandlersAssumption
  <2>5. writer' \in Handlers \cup {NoHandler} /\ session' \in Handlers \cup {NoHandler}
    BY <1>0, <2>1
  <2> QED BY <1>0, <2>1, <2>2, <2>3, <2>4, <2>5, Moves
<1>12. CASE Refuse(p) \/ Die(p)
  BY <1>12, Ends DEF Refuse, Die
<1> QED BY <1>2, <1>3, <1>4, <1>5, <1>6, <1>7, <1>8, <1>9, <1>10, <1>11, <1>12

\* The writes of the log are typed.
LEMMA LogTypes ==
    ASSUME log \in Seq(Entries)
    PROVE  \A i \in DOMAIN log :
              /\ log[i] \in Entries /\ log[i].tag \in Nat /\ log[i].over \in Nat
              /\ log[i].read \in Nat /\ log[i].expected \in Nat \cup {AnyTag}
<1>1. \A i \in DOMAIN log : log[i] \in Entries
  BY ElementOfSeq
<1> QED BY <1>1 DEF Entries

\* The upsert makes the newest version; it waits for whoever holds the row.
LEMMA UpsertStep == ASSUME IInv, NEW p \in Handlers, Upsert(p) PROVE IInv'
<1> USE DEF locks, history
<1>0. /\ TypeOK /\ Transactions /\ Tags /\ MergeOnLatest /\ CompareAndSet
      /\ req[p] \in Requests /\ req[p].pc = "upsert" /\ row \in Rows
      /\ writer \in {NoHandler, p} /\ writer' = p
      /\ UNCHANGED <<row, session, requests, log, audit>>
  BY DEF IInv, TypeOK, Upsert, At
<1>1. PICK n \in Nat : lastTag = n /\ lastTag' = n + 1
  BY <1>0 DEF TypeOK, Upsert
<1>2. PICK v \in Rows : v = Version(req[p].body) /\ v.tag = n + 1 /\ v.born > 0
  <2> DEFINE b == req[p].body
             born == IF Present THEN row.born ELSE n + 1
  <2>1. b \in Json
    BY <1>0 DEF Requests
  <2>2. born \in Nat /\ born > 0
    BY <1>0 DEF Tags, Rows
  <2>3. Version(b) = [blob |-> b, tag |-> n + 1, born |-> born]
    BY <1>1 DEF Version
  <2>4. n + 1 \in Nat
    OBVIOUS
  <2> HIDE DEF b, born
  <2>5. /\ [blob |-> b, tag |-> n + 1, born |-> born] \in Rows
        /\ [blob |-> b, tag |-> n + 1, born |-> born].tag = n + 1
        /\ [blob |-> b, tag |-> n + 1, born |-> born].born = born
    BY <2>1, <2>2, <2>4 DEF Rows
  <2> QED BY <2>2, <2>3, <2>5 DEF b
<1>3. PICK q \in Requests :
         /\ req' = [req EXCEPT ![p] = q]
         /\ q.pc \in {"commit", "foreign"} /\ q.op = req[p].op /\ q.expected = req[p].expected
         /\ q.seen = req[p].seen /\ q.new = v
  <2> DEFINE x == IF Present THEN "commit" ELSE "foreign"
             q == [req[p] EXCEPT !.pc = x, !.new = v]
  <2>1. x \in {"commit", "foreign"} /\ req' = [req EXCEPT ![p] = q]
    BY <1>2 DEF Upsert
  <2> HIDE DEF x
  <2>2. /\ q \in Requests /\ q.pc = x /\ q.op = req[p].op /\ q.expected = req[p].expected
        /\ q.seen = req[p].seen /\ q.new = v
    BY <1>0, <2>1 DEF Requests
  <2> HIDE DEF q
  <2> QED BY <2>1, <2>2
<1>4. /\ req' \in [Handlers -> Requests] /\ req'[p] = q
      /\ \A o \in Handlers \ {p} : req'[o] = req[o]
  BY <1>0, <1>3 DEF TypeOK
<1>5. row.tag < n + 1 /\ \A i \in DOMAIN log : log[i].tag < n + 1
  <2>1. row.tag \in Nat /\ row.tag <= n
    BY <1>0, <1>1 DEF TypeOK, Rows
  <2>2. \A i \in DOMAIN log : log[i].tag \in Nat /\ log[i].tag <= n
    BY <1>0, <1>1, LogTypes DEF Tags
  <2> QED BY <2>1, <2>2
<1>6. TypeOK'
  <2>1. session = NoHandler \/ (session \in Handlers /\ req[session].pc # "idle")
    BY <1>0 DEF TypeOK, At
  <2>2. session' = NoHandler \/ (session' \in Handlers /\ req'[session'].pc # "idle")
    BY <1>0, <1>3, <1>4, <2>1
  <2>3. {writer', session'} \subseteq {o \in Handlers : req'[o].pc # "idle"} \cup {NoHandler}
    BY <1>0, <1>3, <1>4, <2>2
  <2>4. row.tag \in Nat /\ row.tag <= n + 1
    BY <1>0, <1>5 DEF Rows
  <2>5. lastTag' \in Nat /\ row'.tag <= lastTag'
    BY <1>0, <1>1, <2>4
  <2> QED BY <1>0, <1>4, <2>3, <2>5 DEF TypeOK, At
<1>7. Transactions'
  <2>0. LogTags' = LogTags
    BY <1>0 DEF LogTags
  <2>1. Locking(p, q, writer', session') /\ Reading(q)'
    <3>1. Locking(p, req[p], writer, session) /\ Reading(req[p])
      BY <1>0 DEF Transactions
    <3>2. Locking(p, q, writer', session')
      BY <1>0, <1>3, <3>1 DEF Locking
    <3>3. q.new.tag = lastTag' /\ q.new.tag > 0 /\ q.new.born > 0
      BY <1>1, <1>2, <1>3
    <3>4. row'.tag < lastTag' /\ \A i \in DOMAIN log' : log'[i].tag < lastTag'
      BY <1>0, <1>1, <1>5
    <3>5. Reading(q)'
      BY <1>0, <1>3, <3>1, <3>3, <3>4 DEF Reading
    <3> QED BY <3>2, <3>5
  <2>2. ASSUME NEW o \in Handlers \ {p}
        PROVE  Locking(o, req'[o], writer', session') /\ Reading(req[o])'
    <3>1. Locking(o, req[o], writer, session) /\ Reading(req[o]) /\ req'[o] = req[o]
      BY <1>0, <1>4 DEF Transactions
    <3>2. writer # o /\ o # p
      BY <1>0, HandlersAssumption
    <3>3. Locking(o, req'[o], writer', session')
      BY <1>0, <3>1, <3>2 DEF Locking
    <3>4. req[o].pc \notin {"foreign", "commit"}
      BY <3>1, <3>2 DEF Locking
    <3>5. Reading(req[o])'
      BY <1>0, <2>0, <3>1, <3>4 DEF Reading
    <3> QED BY <3>3, <3>5
  <2> QED BY <1>4, <2>1, <2>2 DEF Transactions
<1>8. Tags' /\ MergeOnLatest' /\ CompareAndSet'
  <2>1. \A i \in DOMAIN log : log[i].over < log[i].tag /\ log[i].tag <= n + 1
    <3>1. \A i \in DOMAIN log : log[i].tag \in Nat /\ log[i].tag < n + 1
      BY <1>0, <1>5, LogTypes DEF Tags
    <3> QED BY <1>0, <3>1 DEF Tags
  <2> QED BY <1>0, <1>1, <2>1 DEF Tags, Present, MergeOnLatest, CompareAndSet, Merges
<1> QED BY <1>6, <1>7, <1>8 DEF IInv

\* The new version is the row; the version it replaces is never written over
\* again.
LEMMA CommitStep == ASSUME IInv, NEW p \in Handlers, Commit(p) PROVE IInv'
<1> USE DEF locks, history
<1>0. /\ TypeOK /\ Transactions /\ Tags /\ MergeOnLatest /\ CompareAndSet
      /\ req[p].pc = "commit" /\ row' = req[p].new /\ Release(p)
      /\ log' = Append(log, Entry(req[p], row.tag)) /\ Goto(p, "audit")
      /\ UNCHANGED <<lastTag, requests, audit>>
  BY DEF IInv, Commit, At
<1>1. PICK q \in Requests, n \in Nat, t \in Nat :
         q = req[p] /\ lastTag = n /\ t = row.tag
  BY <1>0 DEF TypeOK, Rows
<1>2. /\ Locking(p, q, writer, session) /\ Reading(q) /\ q.pc = "commit"
      /\ writer = p
  BY <1>0, <1>1 DEF Transactions, Locking
<1>3. /\ q.new.tag = n /\ n > 0 /\ q.new.born > 0 /\ t < n
      /\ \A i \in DOMAIN log : log[i].tag < n
  BY <1>1, <1>2 DEF Reading
<1>4. PICK e \in Entries :
         /\ e = Entry(q, t) /\ e.op = q.op /\ e.tag = n /\ e.read = q.seen.tag
         /\ e.over = t /\ e.expected = q.expected
  <2>1. /\ q.op \in {"replace", "merge", "delete"} /\ q.new.blob \in Json
        /\ q.seen.tag \in Nat /\ q.expected \in Nat \cup {AnyTag}
    BY DEF Requests, Rows
  <2> DEFINE e == [op |-> q.op, tag |-> n, blob |-> q.new.blob, read |-> q.seen.tag,
                   over |-> t, expected |-> q.expected]
  <2>2. e = Entry(q, t) /\ e \in Entries
    BY <1>3, <2>1 DEF Entry, Entries
  <2>3. /\ e.op = q.op /\ e.tag = n /\ e.read = q.seen.tag
        /\ e.over = t /\ e.expected = q.expected
    OBVIOUS
  <2> HIDE DEF e
  <2> QED BY <2>2, <2>3
\* The log is longer by one write.
<1>5. PICK k \in Nat \ {0} :
         /\ k \notin DOMAIN log /\ DOMAIN log' = DOMAIN log \cup {k}
         /\ log' \in Seq(Entries) /\ log'[k] = e
         /\ \A i \in DOMAIN log : log'[i] = log[i] /\ i # k
  <2>1. log \in Seq(Entries) /\ log' = Append(log, e)
    BY <1>0, <1>1, <1>4 DEF Tags
  <2>2. /\ log' \in Seq(Entries) /\ Len(log') = Len(log) + 1
        /\ \A i \in 1 .. Len(log) : log'[i] = log[i]
        /\ log'[Len(log) + 1] = e
    BY <2>1, AppendProperties
  <2>3. PICK m \in Nat : m = Len(log)
    BY <2>1, LenProperties
  <2>4. DOMAIN log = 1 .. m /\ DOMAIN log' = 1 .. m + 1
    BY <2>1, <2>2, <2>3, LenProperties
  <2>5. /\ m + 1 \in Nat \ {0} /\ m + 1 \notin 1 .. m /\ 1 .. m + 1 = (1 .. m) \cup {m + 1}
        /\ \A i \in 1 .. m : i # m + 1
    OBVIOUS
  <2> QED BY <2>2, <2>3, <2>4, <2>5
<1>6. /\ \A i \in DOMAIN log : /\ log[i].over \in Nat /\ log[i].tag \in Nat
                               /\ log[i].over < log[i].tag /\ log[i].tag < n
                               /\ log[i].over < n
  <2>1. \A i \in DOMAIN log : /\ log[i].over \in Nat /\ log[i].tag \in Nat
                              /\ log[i].over < log[i].tag /\ log[i].tag < n
    BY <1>0, <1>3, LogTypes DEF Tags
  <2>2. \A a, b \in Nat : a < b /\ b < n => a < n
    OBVIOUS
  <2> QED BY <2>1, <2>2
<1>7. PICK z \in Requests :
         /\ req' = [req EXCEPT ![p] = z] /\ z.pc = "audit" /\ z.op = q.op
         /\ z.expected = q.expected /\ z.seen = q.seen /\ z.new = q.new
  <2> DEFINE y == [q EXCEPT !.pc = "audit"]
  <2>1. req' = [req EXCEPT ![p] = y]
    BY <1>0, <1>1 DEF Goto
  <2>2. /\ y \in Requests /\ y.pc = "audit" /\ y.op = q.op
        /\ y.expected = q.expected /\ y.seen = q.seen /\ y.new = q.new
    BY Relabel DEF Labels
  <2> HIDE DEF y
  <2> QED BY <2>1, <2>2
<1>8. /\ req' \in [Handlers -> Requests] /\ req'[p] = z
      /\ \A o \in Handlers \ {p} : req'[o] = req[o]
  BY <1>0, <1>7 DEF TypeOK
<1>9. /\ writer' = NoHandler /\ session' \in Handlers \cup {NoHandler} /\ session' # p
      /\ \A o \in Handlers \ {p} : session' = o <=> session = o
  BY <1>0, <1>2, Released DEF IInv, Release
<1>10. LogTags' = LogTags \cup {n}
  <2>1. \A i \in DOMAIN log' : log'[i].tag \in LogTags \cup {n}
    BY <1>4, <1>5 DEF LogTags
  <2>2. LogTags \subseteq LogTags'
    BY <1>5 DEF LogTags
  <2>3. n \in LogTags'
    BY <1>4, <1>5 DEF LogTags
  <2> QED BY <2>1, <2>2, <2>3 DEF LogTags
<1>11. TypeOK'
  <2>1. session' = NoHandler \/ (session' \in Handlers /\ req'[session'].pc # "idle")
    BY <1>0, <1>8, <1>9 DEF TypeOK, At
  <2>2. {writer', session'} \subseteq {o \in Handlers : req'[o].pc # "idle"} \cup {NoHandler}
    BY <1>9, <2>1
  <2>3. row' \in Rows /\ row'.tag = n
    BY <1>0, <1>1, <1>3 DEF Requests
  <2>4. lastTag' \in Nat /\ row'.tag <= lastTag'
    BY <1>0, <1>1, <2>3
  <2>5. audit' \subseteq LogTags'
    BY <1>0, <1>10 DEF TypeOK, LogTags
  <2> QED BY <1>0, <1>8, <2>2, <2>3, <2>4, <2>5 DEF TypeOK, At, LogTags
<1>12. Transactions'
  <2>1. Locking(p, z, writer', session') /\ Reading(z)'
    <3>1. Locking(p, z, writer', session')
      BY <1>7, <1>9, HandlersAssumption DEF Locking
    <3>2. z.new.tag \in LogTags'
      BY <1>3, <1>7, <1>10
    <3>3. z.seen # NoRow => z.seen.tag > 0 /\ z.seen.born > 0
      BY <1>2, <1>7 DEF Reading
    <3> QED BY <1>7, <3>1, <3>2, <3>3 DEF Reading
  <2>2. ASSUME NEW o \in Handlers \ {p}
        PROVE  Locking(o, req'[o], writer', session') /\ Reading(req[o])'
    <3>1. Locking(o, req[o], writer, session) /\ Reading(req[o]) /\ req'[o] = req[o]
      BY <1>0, <1>8 DEF Transactions
    <3>2. writer # o /\ o # p
      BY <1>2
    <3>3. Locking(o, req'[o], writer', session')
      BY <1>9, <3>1, <3>2, HandlersAssumption DEF Locking
    <3>4. /\ req[o].pc \notin {"foreign", "commit"}
          /\ req[o].pc \in {"check", "upsert", "foreign", "commit"} => req[o].seen = NoRow
      BY <3>1, <3>2 DEF Locking
    <3>5. Reading(req[o])'
      BY <1>8, <1>10, <3>1, <3>4 DEF Reading
    <3> QED BY <3>3, <3>5
  <2> QED BY <1>8, <2>1, <2>2 DEF Transactions
<1>13. Tags'
  <2>1. \A i \in DOMAIN log' : log'[i].over < log'[i].tag /\ log'[i].tag <= n
    <3>1. \A a \in Nat : a < n => a <= n
      OBVIOUS
    <3>2. n <= n
      OBVIOUS
    <3> QED BY <1>3, <1>4, <1>5, <1>6, <3>1, <3>2
  <2>2. row'.tag = n /\ row'.born > 0
    BY <1>0, <1>1, <1>3
  <2>3. \A i \in DOMAIN log' : log'[i].over < n
    BY <1>3, <1>4, <1>5, <1>6
  <2> QED BY <1>0, <1>1, <1>3, <1>5, <2>1, <2>2, <2>3 DEF Tags
\* The version that is merged into is the row that is replaced.
<1>14. /\ q.seen # NoRow => q.seen = row /\ t > 0
       /\ q.op = "merge" /\ q.expected # AnyTag => q.seen # NoRow /\ q.expected = q.seen.tag
       /\ q.seen = NoRow => q.seen.tag = 0
  BY <1>1, <1>2, BlobTypes DEF Reading
<1>15. /\ e.op = "merge" /\ e.read # NoTag => e.over = e.read
       /\ e.op = "merge" /\ e.expected # AnyTag => e.over = e.expected /\ t > 0 /\ Present
  BY <1>1, <1>4, <1>14 DEF NoTag, Present
<1>16. MergeOnLatest'
  BY <1>0, <1>5, <1>15 DEF MergeOnLatest, Merges
<1>17. CompareAndSet'
  <2>1. \A i \in Merges : log[i].expected # AnyTag => log[i].over = log[i].expected
    BY <1>0 DEF CompareAndSet
  <2>2. ASSUME e.op = "merge", e.expected # AnyTag, NEW i \in Merges, log[i].expected # AnyTag
        PROVE  log[i].expected # e.expected
    <3>1. i \in DOMAIN log /\ log[i].over < t /\ log[i].over \in Nat
      BY <1>0, <1>1, <1>6, <1>15, <2>2 DEF Tags, Merges
    <3>2. log[i].over # t
      BY <3>1
    <3> QED BY <1>4, <1>15, <2>1, <2>2, <3>2
  <2>3. \A i \in Merges : log[i].expected # AnyTag =>
           \A j \in Merges \ {i} : log[j].expected # log[i].expected
    BY <1>0 DEF CompareAndSet
  <2>4. Merges' = {i \in DOMAIN log' : log'[i].op = "merge"}
    BY DEF Merges
  <2>5. ASSUME NEW i \in Merges', log'[i].expected # AnyTag
        PROVE  /\ log'[i].over = log'[i].expected
               /\ \A j \in Merges' \ {i} : log'[j].expected # log'[i].expected
    <3>1. CASE i = k
      BY <1>5, <1>15, <2>2, <2>4, <2>5, <3>1 DEF Merges
    <3>2. CASE i # k
      <4>1. i \in Merges /\ log'[i] = log[i]
        BY <1>5, <2>4, <2>5, <3>2 DEF Merges
      <4>2. ASSUME NEW j \in Merges' \ {i} PROVE log'[j].expected # log[i].expected
        <5>1. CASE j = k
          BY <1>5, <2>2, <2>4, <2>5, <4>1, <4>2, <5>1
        <5>2. CASE j # k
          <6>1. j \in Merges \ {i} /\ log'[j] = log[j]
            BY <1>5, <2>4, <4>2, <5>2 DEF Merges
          <6> QED BY <2>3, <2>5, <4>1, <6>1
        <5> QED BY <5>1, <5>2
      <4> QED BY <2>1, <2>5, <4>1, <4>2
    <3> QED BY <3>1, <3>2
  <2> QED BY <2>5 DEF CompareAndSet
<1> QED BY <1>11, <1>12, <1>13, <1>16, <1>17 DEF IInv

\* The cascade commits: the row, if it locked one, is gone; nobody else had
\* found it.
LEMMA CommitEraseStep == ASSUME IInv, NEW p \in Handlers, CommitErase(p) PROVE IInv'
<1> USE DEF locks, history
<1>0. /\ TypeOK /\ Transactions /\ Tags /\ MergeOnLatest /\ CompareAndSet
      /\ row' = (IF writer = p THEN NoRow ELSE row) /\ Release(p) /\ Finish(p)
      /\ UNCHANGED <<lastTag, log, audit, requests>>
  BY DEF IInv, CommitErase
<1>1. CASE writer # p
  BY <1>0, <1>1, Ends
<1>2. CASE writer = p
  <2>1. PICK n \in Nat : lastTag = n
    BY <1>0 DEF TypeOK
  <2>2. /\ req' \in [Handlers -> Requests] /\ req'[p] = Idle
        /\ \A o \in Handlers \ {p} : req'[o] = req[o]
    BY <1>0, IdleType DEF TypeOK, Finish
  <2>3. /\ writer' = NoHandler /\ session' \in Handlers \cup {NoHandler} /\ session' # p
        /\ \A o \in Handlers \ {p} : session' = o <=> session = o
    BY <1>0, <1>2, Released DEF Release
  <2>4. row' = NoRow /\ LogTags' = LogTags
    BY <1>0, <1>2 DEF LogTags
  <2>5. TypeOK'
    <3>1. session' = NoHandler \/ (session' \in Handlers /\ req'[session'].pc # "idle")
      BY <1>0, <2>2, <2>3 DEF TypeOK, At
    <3>2. {writer', session'} \subseteq {o \in Handlers : req'[o].pc # "idle"} \cup {NoHandler}
      BY <2>3, <3>1
    <3>3. row' \in Rows /\ 0 <= n /\ row'.tag = 0
      BY <2>4, BlobTypes
    <3> QED BY <1>0, <2>1, <2>2, <3>2, <3>3 DEF TypeOK, At
  <2>6. Transactions'
    <3>1. Locking(p, Idle, writer', session') /\ Reading(Idle)'
      BY <2>3, IdleType, HandlersAssumption DEF Locking, Reading
    <3>2. ASSUME NEW o \in Handlers \ {p}
          PROVE  Locking(o, req'[o], writer', session') /\ Reading(req[o])'
      <4>1. Locking(o, req[o], writer, session) /\ Reading(req[o]) /\ req'[o] = req[o]
        BY <1>0, <2>2 DEF Transactions
      <4>2. writer # o /\ o # p
        BY <1>2
      <4>3. Locking(o, req'[o], writer', session')
        BY <2>3, <4>1, <4>2, HandlersAssumption DEF Locking
      <4>4. /\ req[o].pc \notin {"foreign", "commit"}
            /\ req[o].pc \in {"check", "upsert", "foreign", "commit"} => req[o].seen = NoRow
        BY <4>1, <4>2 DEF Locking
      <4>5. Reading(req[o])'
        BY <2>2, <2>4, <4>1, <4>4 DEF Reading
      <4> QED BY <4>3, <4>5
    <3> QED BY <2>2, <3>1, <3>2 DEF Transactions
  <2>7. Tags' /\ MergeOnLatest' /\ CompareAndSet'
    BY <1>0, <2>4 DEF Tags, Present, MergeOnLatest, CompareAndSet, Merges
  <2> QED BY <2>5, <2>6, <2>7 DEF IInv
<1> QED BY <1>1, <1>2

-----------------------------------------------------------------------------
LEMMA Inductive == IInv /\ [Next \/ Stopped]_vars => IInv'
<1> SUFFICES ASSUME IInv, [Next \/ Stopped]_vars PROVE IInv'
  OBVIOUS
<1>1. ASSUME NEW p \in Handlers, NEW o \in {"replace", "merge", "delete"}, NEW body \in Json,
             NEW tag \in AnyTag .. lastTag, Begin(p, o, body, tag)
      PROVE  IInv'
  BY <1>1, QuietSteps
<1>2. ASSUME NEW p \in Handlers, Step(p) PROVE IInv'
  BY <1>2, QuietSteps, UpsertStep, CommitStep, CommitEraseStep DEF Step
<1>3. ASSUME NEW p \in Handlers, Die(p) PROVE IInv'
  BY <1>3, QuietSteps
<1>4. CASE Stopped \/ UNCHANGED vars
  <2>1. UNCHANGED vars
    BY <1>4 DEF Stopped
  <2> QED BY <2>1 DEF vars, locks, history, IInv, TypeOK, Transactions, Reading, LogTags, Tags,
                     Present, At, MergeOnLatest, CompareAndSet, Merges
<1> QED BY <1>1, <1>2, <1>3, <1>4 DEF Next

\* The invariant holds in every reachable state.
LEMMA Invariance == Spec => []IInv
BY Initially, Inductive, PTL DEF Spec

\* Type correctness; in particular no request that is over has left a lock
\* behind (the early returns of shallow_merge drop its transaction).
THEOREM TypeCorrect == Spec => []TypeOK
<1>1. IInv => TypeOK
  BY DEF IInv
<1> QED BY <1>1, Invariance, PTL

\* A PATCH that found the blob writes over the very version it has merged into,
\* whatever POSTs, PATCHes and cascades run beside it (shallow_merge).
THEOREM MergesOnLatest == Spec => []MergeOnLatest
<1>1. IInv => MergeOnLatest
  BY DEF IInv
<1> QED BY <1>1, Invariance, PTL

\* Of all the PATCHes that name one version in If-Match at most one succeeds,
\* and it replaces that version (db/metadata.rs).
THEOREM ComparesAndSets == Spec => []CompareAndSet
<1>1. IInv => CompareAndSet
  BY DEF IInv
<1> QED BY <1>1, Invariance, PTL
=============================================================================
