----------------------------- MODULE ChunkIngest -----------------------------
(***************************************************************************)
(* The audio chunks of one session: rows of session_chunks in PostgreSQL,  *)
(* objects in S3, and the handlers that race over them.                    *)
(*                                                                         *)
(*   upload    lookup by client id -> FOR UPDATE on the session -> read    *)
(*             the body -> INSERT with the next seq -> PUT the object ->   *)
(*             commit -> event                  (src/routes/chunks.rs)     *)
(*   wipe      DELETE the participant's rows, commit, mark_wiped, then     *)
(*             delete the objects         (src/routes/mute.rs, consent.rs) *)
(*   cascade   FOR UPDATE on the session, DELETE all rows, commit, then    *)
(*             delete the objects               (src/routes/sessions.rs)   *)
(*                                                                         *)
(* The database and the store are not updated together.  An object's key   *)
(* is determined by the participant and the seq of its row, so a chunk is  *)
(* one record for both: a row of `rows`, an object of `store`.  The bytes  *)
(* of a chunk are named by its client chunk id: a retry sends the same.    *)
(***************************************************************************)
EXTENDS Integers, Sequences

CONSTANTS
    Pids,         \* pseudo ids of the participants
    Cids,         \* client chunk ids
    Uploaders,    \* slots for upload requests
    Deleters,     \* slots for wipe and cascade requests
    None,         \* nobody holds the session's row lock; nothing requested
    MaxUploads,   \* bound on the upload requests clients make
    MaxDeletes    \* bound on the wipe and cascade requests

ASSUME SlotsAssumption ==
    /\ Uploaders \cap Deleters = {}
    /\ None \notin Uploaders \cup Deleters
ASSUME BoundsAssumption == MaxUploads \in Nat /\ MaxDeletes \in Nat

VARIABLES
    rows,      \* committed rows of session_chunks
    store,     \* objects in S3, at most one per key
    late,      \* PUTs given up by their handler that may still reach S3
    holder,    \* who holds the FOR UPDATE lock on the session row
    up,        \* the upload in each slot
    del,       \* the deletion in each slot
    uploads,   \* upload requests made so far
    deletes,   \* deletions requested so far
    events,    \* ChunkUploaded events in the order they were sent
    gen,       \* history: deletions committed so far, per participant
    answers,   \* history: successful answers to uploads
    swept,     \* history: keys of the rows deleted so far
    stray      \* history: the chunks whose PUT was given up so far

dbVars   == <<rows, holder>>
s3Vars   == <<store, late>>
history  == <<gen, answers, swept, stray>>
requests == <<uploads, deletes>>
vars == <<dbVars, s3Vars, up, del, requests, events, history>>

Chunks == [pid : Pids, cid : Cids, seq : Nat]

Key(c) == <<c.pid, c.seq>>

IdleUpload == [pc |-> "idle", pid |-> None, cid |-> None, seq |-> 0, gen |-> 0]

UploadRecords ==
    [pc : {"lookup", "lock", "body", "reserve", "insert", "conflict", "put",
           "commit", "emit"},
     pid : Pids, cid : Cids, seq : Nat, gen : Nat] \cup {IdleUpload}

IdleDelete == [pc |-> "idle", kind |-> "wipe", pid |-> None, doomed |-> {}]

\* A deletion: the rows its DELETE returned are those whose keys it sweeps.
DeleteRecords ==
    [pc : {"lock", "scan", "wait", "marked", "flag", "sweep"},
     kind : {"wipe", "cascade"}, pid : Pids, doomed : SUBSET Chunks]
        \cup {IdleDelete}

\* The row a transaction inserts, and the object it puts.
ChunkOf(q) == [pid |-> q.pid, cid |-> q.cid, seq |-> q.seq]

GotoU(u, label) == up' = [up EXCEPT ![u].pc = label]
FinishU(u) == up' = [up EXCEPT ![u] = IdleUpload]
GotoD(d, label) == del' = [del EXCEPT ![d].pc = label]
FinishD(d) == del' = [del EXCEPT ![d] = IdleDelete]

Init ==
    /\ rows = {} /\ store = {} /\ late = {}
    /\ holder = None
    /\ up = [u \in Uploaders |-> IdleUpload]
    /\ del = [d \in Deleters |-> IdleDelete]
    /\ uploads = 0 /\ deletes = 0
    /\ events = <<>>
    /\ gen = [p \in Pids |-> 0]
    /\ answers = {} /\ swept = {} /\ stray = {}

-----------------------------------------------------------------------------
(* The upload handler. *)

BeginUpload(u, p, c) ==
    /\ up[u].pc = "idle"
    /\ uploads < MaxUploads
    /\ uploads' = uploads + 1
    /\ up' = [up EXCEPT ![u] = [IdleUpload EXCEPT !.pc = "lookup",
                                                  !.pid = p, !.cid = c]]
    /\ UNCHANGED <<dbVars, s3Vars, del, deletes, events, history>>

\* chunks::lookup_by_client_id
Existing(p, c) == {r \in rows : r.pid = p /\ r.cid = c}

\* The chunk is there: answer with its row; no lock, no event.
LookupHit(u) ==
    /\ up[u].pc = "lookup"
    /\ \E r \in Existing(up[u].pid, up[u].cid) :
          answers' = answers \cup {[chunk |-> r, gen |-> gen[r.pid]]}
    /\ FinishU(u)
    /\ UNCHANGED <<dbVars, s3Vars, del, requests, events, gen, swept, stray>>

LookupMiss(u) ==
    /\ up[u].pc = "lookup"
    /\ Existing(up[u].pid, up[u].cid) = {}
    /\ GotoU(u, "lock")
    /\ UNCHANGED <<dbVars, s3Vars, del, requests, events, history>>

\* Mutant of LockFree: a plain SELECT instead of SELECT .. FOR UPDATE.
LockFree_PlainSelect == TRUE

\* FOR UPDATE waits until no other transaction holds the session row.
LockFree == holder = None

\* sessions::get_in_tx.  The status of the session is not looked at.
LockSession(u) ==
    /\ up[u].pc = "lock"
    /\ LockFree
    /\ holder' = u
    /\ GotoU(u, "body")
    /\ UNCHANGED <<rows, s3Vars, del, requests, events, history>>

ReadBody(u) ==
    /\ up[u].pc = "body"
    /\ GotoU(u, "reserve")
    /\ UNCHANGED <<dbVars, s3Vars, del, requests, events, history>>

\* Mutant of RejectBody: the early return leaves the transaction open.
RejectBody_KeepsLock(u) ==
    /\ up[u].pc = "body"
    /\ FinishU(u)
    /\ UNCHANGED <<dbVars, s3Vars, del, requests, events, history>>

\* 400 or 413: the transaction is dropped, and with it the lock.
RejectBody(u) ==
    /\ up[u].pc = "body"
    /\ holder' = None
    /\ FinishU(u)
    /\ UNCHANGED <<rows, s3Vars, del, requests, events, history>>

Seqs(p) == {r.seq : r \in {x \in rows : x.pid = p}}

\* Mutant of NextSeq: COALESCE(MAX(seq), -1).
NextSeq_NoIncrement(p) ==
    CHOOSE n \in {-1} \cup Seqs(p) : \A s \in Seqs(p) : s <= n

\* COALESCE(MAX(seq), -1) + 1
NextSeq(p) ==
    CHOOSE n \in {0} \cup {s + 1 : s \in Seqs(p)} : \A s \in Seqs(p) : s < n

\* chunks::insert, first half: the subquery reads the statement's snapshot.
Reserve(u) ==
    /\ up[u].pc = "reserve"
    /\ up' = [up EXCEPT ![u].pc = "insert", ![u].seq = NextSeq(up[u].pid)]
    /\ UNCHANGED <<dbVars, s3Vars, del, requests, events, history>>

\* Mutant of Clashing: the table has no UNIQUE (.., client_chunk_id).
Clashing_OnlyPrimaryKey(q) == {r \in rows : r.pid = q.pid /\ r.seq = q.seq}

\* The committed rows that a unique index refuses the new row for.
Clashing(q) == {r \in rows : r.pid = q.pid /\ (r.seq = q.seq \/ r.cid = q.cid)}

\* Rows deleted by a transaction that has not committed yet.
Doomed == UNION {del[d].doomed : d \in {x \in Deleters : del[x].pc = "marked"}}

\* Second half: the unique indexes.  The INSERT waits for a transaction that
\* is deleting a clashing row.
InsertRow(u) ==
    /\ up[u].pc = "insert"
    /\ Clashing(up[u]) \cap Doomed = {}
    /\ GotoU(u, IF Clashing(up[u]) = {} THEN "put" ELSE "conflict")
    /\ UNCHANGED <<dbVars, s3Vars, del, requests, events, history>>

\* The unique violation surfaces as a 500 and the transaction is dropped.
AnswerConflict(u) ==
    /\ up[u].pc = "conflict"
    /\ holder' = None
    /\ FinishU(u)
    /\ UNCHANGED <<rows, s3Vars, del, requests, events, history>>

-----------------------------------------------------------------------------
(* S3: a PUT replaces whatever the key held, a DELETE goes by key. *)

Without(s, k) == {o \in s : Key(o) # k}
Put(s, c) == Without(s, Key(c)) \cup {c}

PutOk(u) ==
    /\ up[u].pc = "put"
    /\ store' = Put(store, ChunkOf(up[u]))
    /\ GotoU(u, "commit")
    /\ UNCHANGED <<dbVars, late, del, requests, events, history>>

\* 502: the transaction is dropped, and with it the row.
PutFails(u) ==
    /\ up[u].pc = "put"
    /\ holder' = None
    /\ FinishU(u)
    /\ UNCHANGED <<rows, s3Vars, del, requests, events, history>>

\* The same, but the request is on its way: a timeout, or the client went
\* away and the handler was dropped in the middle of the PUT.
PutGivenUp(u) ==
    /\ up[u].pc = "put"
    /\ late' = late \cup {ChunkOf(up[u])}
    /\ stray' = stray \cup {ChunkOf(up[u])}
    /\ holder' = None
    /\ FinishU(u)
    /\ UNCHANGED <<rows, store, del, requests, events, gen, answers, swept>>

LatePut(c) ==
    /\ c \in late
    /\ late' = late \ {c}
    /\ store' = Put(store, c)
    /\ UNCHANGED <<dbVars, up, del, requests, events, history>>

\* The row gets its s3_key, the audit row is appended, the transaction
\* commits and the lock is released.
Commit(u) ==
    /\ up[u].pc = "commit"
    /\ rows' = rows \cup {ChunkOf(up[u])}
    /\ holder' = None
    /\ up' = [up EXCEPT ![u].pc = "emit", ![u].gen = gen[up[u].pid]]
    /\ UNCHANGED <<s3Vars, del, requests, events, history>>

\* state.events.send(ChunkUploaded) and the answer to the client.
Emit(u) ==
    /\ up[u].pc = "emit"
    /\ events' = Append(events, [chunk |-> ChunkOf(up[u]), gen |-> up[u].gen])
    /\ answers' = answers \cup {[chunk |-> ChunkOf(up[u]), gen |-> up[u].gen]}
    /\ FinishU(u)
    /\ UNCHANGED <<dbVars, s3Vars, del, requests, gen, swept, stray>>

\* The client goes away, the database fails, or the server crashes.
UploadDies(u) ==
    /\ up[u].pc # "idle"
    /\ holder' = IF holder = u THEN None ELSE holder
    /\ FinishU(u)
    /\ UNCHANGED <<rows, s3Vars, del, requests, events, history>>

-----------------------------------------------------------------------------
(* The wipe of a participant and the delete cascade of the session. *)

BeginDelete(d, k, p) ==
    /\ del[d].pc = "idle"
    /\ deletes < MaxDeletes
    /\ deletes' = deletes + 1
    /\ del' = [del EXCEPT ![d] =
                [IdleDelete EXCEPT !.pc = IF k = "cascade" THEN "lock" ELSE "scan",
                                   !.kind = k, !.pid = p]]
    /\ UNCHANGED <<dbVars, s3Vars, up, uploads, events, history>>

\* The cascade takes the session's row lock; a wipe does not.
CascadeLock(d) ==
    /\ del[d].pc = "lock"
    /\ LockFree
    /\ holder' = d
    /\ GotoD(d, "scan")
    /\ UNCHANGED <<rows, s3Vars, up, requests, events, history>>

\* The participants a deletion is about.
Scope(q) == IF q.kind = "cascade" THEN Pids ELSE {q.pid}

\* DELETE .. RETURNING s3_key: the snapshot of the statement ...
Scan(d) ==
    /\ del[d].pc = "scan"
    /\ del' = [del EXCEPT ![d].pc = "wait",
                          ![d].doomed = {r \in rows : r.pid \in Scope(del[d])}]
    /\ UNCHANGED <<dbVars, s3Vars, up, requests, events, history>>

\* Mutant of Mark: the objects are deleted inside the transaction.
Mark_SweepsFirst(d) ==
    /\ del[d].pc = "wait"
    /\ del[d].doomed \cap Doomed = {}
    /\ del' = [del EXCEPT ![d].pc = "marked", ![d].doomed = @ \cap rows]
    /\ store' = {o \in store : \A r \in del[d].doomed : Key(o) # Key(r)}
    /\ UNCHANGED <<dbVars, late, up, requests, events, history>>

\* ... which waits for the rows that another transaction is deleting, and
\* skips those it has deleted.
Mark(d) ==
    /\ del[d].pc = "wait"
    /\ del[d].doomed \cap Doomed = {}
    /\ del' = [del EXCEPT ![d].pc = "marked", ![d].doomed = @ \cap rows]
    /\ UNCHANGED <<dbVars, s3Vars, up, requests, events, history>>

DeleteCommit(d) ==
    /\ del[d].pc = "marked"
    /\ rows' = rows \ del[d].doomed
    /\ holder' = IF holder = d THEN None ELSE holder
    /\ gen' = [p \in Pids |-> IF p \in Scope(del[d]) THEN gen[p] + 1 ELSE gen[p]]
    /\ swept' = swept \cup {Key(r) : r \in del[d].doomed}
    /\ GotoD(d, IF del[d].kind = "wipe" THEN "flag" ELSE "sweep")
    /\ UNCHANGED <<s3Vars, up, requests, events, answers, stray>>

\* participants::mark_wiped, a statement of its own after the commit.
MarkWiped(d) ==
    /\ del[d].pc = "flag"
    /\ GotoD(d, "sweep")
    /\ UNCHANGED <<dbVars, s3Vars, up, requests, events, history>>

\* S3Store::delete_many: one DELETE per key, whatever the key holds by now.
SweepOne(d) ==
    /\ del[d].pc = "sweep"
    /\ \E r \in del[d].doomed :
          /\ store' = Without(store, Key(r))
          /\ del' = [del EXCEPT ![d].doomed = @ \ {r}]
    /\ UNCHANGED <<dbVars, late, up, requests, events, history>>

\* All keys are gone; the handler sends its deletion event (SessionLifecycle
\* has the cascade's, nothing here depends on AudioDeleted) and answers ok.
SweepDone(d) ==
    /\ del[d].pc = "sweep"
    /\ del[d].doomed = {}
    /\ FinishD(d)
    /\ UNCHANGED <<dbVars, s3Vars, up, requests, events, history>>

\* delete_many stops at the first error; the handler logs it and answers ok.
SweepFails(d) ==
    /\ del[d].pc = "sweep"
    /\ del[d].doomed # {}
    /\ FinishD(d)
    /\ UNCHANGED <<dbVars, s3Vars, up, requests, events, history>>

\* The handler dies.  Before its commit this rolls everything back; after it
\* the keys are forgotten: mark_wiped failed, or the sweep was cut short.
DeleteDies(d) ==
    /\ del[d].pc # "idle"
    /\ holder' = IF holder = d THEN None ELSE holder
    /\ FinishD(d)
    /\ UNCHANGED <<rows, s3Vars, up, requests, events, history>>

-----------------------------------------------------------------------------
UploadStep(u) ==
    \/ LookupHit(u) \/ LookupMiss(u) \/ LockSession(u)
    \/ ReadBody(u) \/ RejectBody(u) \/ Reserve(u) \/ InsertRow(u)
    \/ AnswerConflict(u) \/ PutOk(u) \/ PutFails(u) \/ PutGivenUp(u)
    \/ Commit(u) \/ Emit(u)

DeleteStep(d) ==
    \/ CascadeLock(d) \/ Scan(d) \/ Mark(d) \/ DeleteCommit(d)
    \/ MarkWiped(d) \/ SweepOne(d) \/ SweepDone(d) \/ SweepFails(d)

\* No request in flight: the server may stay idle for ever.
Quiescent ==
    /\ \A u \in Uploaders : up[u].pc = "idle"
    /\ \A d \in Deleters : del[d].pc = "idle"
    /\ UNCHANGED vars

Next ==
    \/ \E u \in Uploaders :
          \/ \E p \in Pids, c \in Cids : BeginUpload(u, p, c)
          \/ UploadStep(u)
          \/ UploadDies(u)
    \/ \E d \in Deleters :
          \/ \E k \in {"wipe", "cascade"}, p \in Pids : BeginDelete(d, k, p)
          \/ DeleteStep(d)
          \/ DeleteDies(d)
    \/ \E c \in late : LatePut(c)
    \/ Quiescent

\* The handler waits for the client's body, with no timeout.
Receiving(u) == up[u].pc = "body"

\* Handlers that can run are polled (weak fairness); the waiters of a row
\* lock are queued in order (strong fairness of taking it).  Nothing makes a
\* client send the rest of its body.
Fairness ==
    /\ \A u \in Uploaders :
          /\ WF_vars(~Receiving(u) /\ UploadStep(u))
          /\ SF_vars(LockSession(u))
    /\ \A d \in Deleters : WF_vars(DeleteStep(d)) /\ SF_vars(CascadeLock(d))

Spec == Init /\ [][Next]_vars
FairSpec == Spec /\ Fairness

-----------------------------------------------------------------------------
Answers == [chunk : Chunks, gen : Nat]

\* Type invariant of the tables, the store and the handlers.
TypeOK ==
    /\ rows \subseteq Chunks
    /\ store \subseteq Chunks
    /\ late \subseteq Chunks
    /\ holder \in Uploaders \cup Deleters \cup {None}
    /\ up \in [Uploaders -> UploadRecords]
    /\ del \in [Deleters -> DeleteRecords]
    /\ uploads \in Nat
    /\ deletes \in Nat
    /\ events \in Seq(Answers)
    /\ gen \in [Pids -> Nat]
    /\ answers \subseteq Answers
    /\ swept \subseteq Pids \X Nat
    /\ stray \subseteq Chunks

\* The abstract chunk log, of which this module is an implementation: what
\* is stored but not yet told is what the handlers past their commit hold.
Log == INSTANCE ChunkLog WITH
    pending <- {[chunk |-> ChunkOf(up[u]), gen |-> up[u].gen] :
                    u \in {x \in Uploaders : up[x].pc = "emit"}},
    announced <- events

\* Upload is idempotent on the client chunk id and numbers the chunks without
\* a hole, each announced at most once, whatever retries, failed PUTs, wipes
\* and cascades race it: the row read before the lock and the MAX(seq) + 1
\* read before the INSERT are still right at the commit (routes/chunks.rs).
ImplementsChunkLog == Log!Spec

\* The row's object is there, or that of an upload whose PUT of the same key
\* was given up, if no sweep was ever issued for the key.
Kept(r) ==
    r \in store \/ Key(r) \in swept \/ \E c \in store \cap stray : Key(c) = Key(r)

\* An upload commits only what it has stored, and until a sweep is issued for
\* the key nothing takes the object of a committed row away: a PUT that was
\* given up may arrive and replace its bytes, but leaves no hole, and nothing
\* but such a PUT replaces them.
ObjectKept == \A r \in rows : Kept(r)

\* An object without a row is left under the next key of its participant,
\* where the next upload replaces it: failed uploads do not pile up garbage.
\* (Once rows were deleted, or a given-up PUT lands late, this is no longer so.)
OrphanIsReplacedNext ==
    \A o \in store :
        \/ o \in rows
        \/ gen[o.pid] > 0
        \/ Key(o) \in {Key(c) : c \in stray}
        \/ o.seq = NextSeq(o.pid)

\* Provided that no client stalls for ever in the middle of a body, every
\* upload, wipe and cascade comes to an end: the row locks and the waits for
\* each other's deletes never block all of them.
RequestsFinish ==
    (\A u \in Uploaders : []<>~Receiving(u)) =>
        /\ \A u \in Uploaders : []<>(up[u].pc = "idle")
        /\ \A d \in Deleters : []<>(del[d].pc = "idle")

-----------------------------------------------------------------------------
\* routes/chunks.rs: "Commit only if both succeed."  A committed row has its
\* object, for the download to return.
CommittedHasObject == rows \subseteq store

\* routes/chunks.rs: "Upload is idempotent on `X-Client-Chunk-Id`: a retry
\* returns the existing row's {seq, s3_key}": it is never refused.
RetryIsAnswered == \A u \in Uploaders : up[u].pc # "conflict"
=============================================================================
