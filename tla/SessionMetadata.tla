--------------------------- MODULE SessionMetadata ---------------------------
(***************************************************************************)
(* The ETag-versioned JSON blob of one session (src/db/metadata.rs,        *)
(* src/routes/metadata.rs): POST replaces it in one upsert, PATCH merges   *)
(* into it in a transaction                                                *)
(*                                                                         *)
(*   SELECT .. FOR UPDATE -> If-Match -> merge -> upsert -> commit         *)
(*                                                                         *)
(* and the delete cascade of the session removes it.  FOR UPDATE locks the *)
(* row it finds; where it finds none, nothing is locked, and an            *)
(* uncommitted insert of another transaction does not make it wait.        *)
(***************************************************************************)
EXTENDS Integers, Sequences

CONSTANTS
    Handlers,     \* request slots of the server
    NoHandler,    \* nobody holds a lock
    Keys,         \* top-level keys of the blob
    Values,       \* what a key may hold
    MaxRequests   \* bound on the requests clients make

ASSUME HandlersAssumption == NoHandler \notin Handlers
ASSUME BoundAssumption == MaxRequests \in Nat

\* A JSON value: an object with its members, null, or one that is neither.
Members == UNION {[K -> Values] : K \in SUBSET Keys}
Object(members) == [kind |-> "object", members |-> members]
Null == [kind |-> "null", members |-> << >>]
Json == {Object(m) : m \in Members} \cup {Null, [kind |-> "scalar", members |-> << >>]}

AnyTag == -1     \* a PATCH without If-Match
NoTag == 0       \* the tag of an absent row: one that names nothing

VARIABLES
    row,       \* the committed row
    writer,    \* who locks the row, or has inserted it and not yet committed
    session,   \* who locks the row of the session
    req,       \* the request each handler serves, with its local state
    lastTag,   \* ETags made so far
    requests,  \* requests made so far
    log,       \* history: the committed writes, in commit order
    audit      \* the tags that have an audit row

vars == <<row, writer, session, req, lastTag, requests, log, audit>>
locks == <<writer, session>>
history == <<log, audit>>

\* `born` tells a row from the one that was deleted before it.
NoRow == [blob |-> Null, tag |-> NoTag, born |-> NoTag]
Present == row # NoRow
Rows == [blob : Json, tag : Nat, born : Nat]

Requests == [pc : {"idle", "select", "wait", "check", "upsert", "foreign", "commit",
                   "audit", "session", "erase", "erased"},
             op : {"replace", "merge", "delete"}, body : Json,
             expected : Nat \cup {AnyTag}, seen : Rows, new : Rows]

Idle == [pc |-> "idle", op |-> "delete", body |-> Null, expected |-> AnyTag,
         seen |-> NoRow, new |-> NoRow]

At(p, label) == req[p].pc = label
Goto(p, label) == req' = [req EXCEPT ![p].pc = label]
Finish(p) == req' = [req EXCEPT ![p] = Idle]

\* The end of p's transaction releases its locks.
Release(p) ==
    /\ writer' = IF writer = p THEN NoHandler ELSE writer
    /\ session' = IF session = p THEN NoHandler ELSE session

Entry(q, over) == [op |-> q.op, tag |-> q.new.tag, blob |-> q.new.blob,
                   read |-> q.seen.tag, over |-> over, expected |-> q.expected]

\* The first POST of the session, of an empty object, if it is over already.
First == [Idle EXCEPT !.op = "replace",
                      !.new = [blob |-> Object(<< >>), tag |-> 1, born |-> 1]]

Init ==
    /\ \/ row = NoRow /\ log = << >>
       \/ row = First.new /\ log = <<Entry(First, NoTag)>>
    /\ lastTag = Len(log)
    /\ audit = DOMAIN log
    /\ writer = NoHandler
    /\ session = NoHandler
    /\ req = [p \in Handlers |-> Idle]
    /\ requests = 0

-----------------------------------------------------------------------------
(* A request arrives.  If-Match is a tag that some answer has carried; NoTag
   stands for the one a 412 makes up for an absent row.                    *)
Begin(p, o, body, tag) ==
    /\ At(p, "idle")
    /\ requests < MaxRequests
    /\ requests' = requests + 1
    /\ o = "delete" => body = Null
    /\ o # "merge" => tag = AnyTag
    /\ tag > 0 => \E i \in DOMAIN log : log[i].tag = tag
    /\ req' = [req EXCEPT ![p] =
                 [Idle EXCEPT !.pc = CASE o = "replace" -> "upsert"
                                       [] o = "merge"   -> "select"
                                       [] o = "delete"  -> "session",
                              !.op = o, !.body = body, !.expected = tag]]
    /\ UNCHANGED <<row, locks, lastTag, history>>

(* SELECT .. FOR UPDATE, from its snapshot: no row, nothing to wait for ... *)
SelectNone(p) ==
    /\ At(p, "select")
    /\ ~Present
    /\ Goto(p, "check")
    /\ UNCHANGED <<row, locks, lastTag, requests, history>>

\* ... or a row, to be locked.
SelectSome(p) ==
    /\ At(p, "select")
    /\ Present
    /\ req' = [req EXCEPT ![p].pc = "wait", ![p].seen = row]
    /\ UNCHANGED <<row, locks, lastTag, requests, history>>

\* Mutant of RowFree: the SELECT without FOR UPDATE.
RowFree_PlainSelect(p) == TRUE

RowFree(p) == writer = NoHandler

\* The lock is granted on the latest version of the row that was found ...
LockRow(p) ==
    /\ At(p, "wait")
    /\ RowFree(p)
    /\ row.born = req[p].seen.born
    /\ writer' = p
    /\ req' = [req EXCEPT ![p].pc = "check", ![p].seen = row]
    /\ UNCHANGED <<row, session, lastTag, requests, history>>

\* ... unless it was deleted meanwhile; one inserted since is not looked at.
RowGone(p) ==
    /\ At(p, "wait")
    /\ row.born # req[p].seen.born
    /\ req' = [req EXCEPT ![p].pc = "check", ![p].seen = NoRow]
    /\ UNCHANGED <<row, locks, lastTag, requests, history>>

-----------------------------------------------------------------------------
\* Mutant of Matches: an absent row satisfies every If-Match.
Matches_AbsentIsAny(q) ==
    q.expected = AnyTag \/ q.seen = NoRow \/ q.expected = q.seen.tag

\* An absent row has a random tag, which no client can have named.
Matches(q) == q.expected = AnyTag \/ (q.seen # NoRow /\ q.expected = q.seen.tag)

\* merge_shallow: a stored null counts as {}, and so does an absent row.
Mergeable(q) == q.seen.blob.kind # "scalar" /\ q.body.kind = "object"

\* The members of f, and those of g that f does not have.
Over(f, g) == [k \in DOMAIN f \cup DOMAIN g |-> IF k \in DOMAIN f THEN f[k] ELSE g[k]]

Merged(q) == Object(Over(q.body.members, q.seen.blob.members))

(* The merged blob is ready to be written. *)
Merge(p) ==
    /\ At(p, "check")
    /\ Matches(req[p])
    /\ Mergeable(req[p])
    /\ req' = [req EXCEPT ![p].pc = "upsert", ![p].body = Merged(req[p])]
    /\ UNCHANGED <<row, locks, lastTag, requests, history>>

\* Mutant of Refuse: the early return leaves the transaction open.
Refuse_KeepsLock(p) ==
    /\ At(p, "check")
    /\ ~(Matches(req[p]) /\ Mergeable(req[p]))
    /\ Finish(p)
    /\ UNCHANGED <<row, locks, lastTag, requests, history>>

(* 412 or 400: the early return drops the transaction. *)
Refuse(p) ==
    /\ At(p, "check")
    /\ ~(Matches(req[p]) /\ Mergeable(req[p]))
    /\ Release(p)
    /\ Finish(p)
    /\ UNCHANGED <<row, lastTag, requests, history>>

\* What the upsert writes over the row of this moment.
Version(blob) ==
    [blob |-> blob, tag |-> lastTag + 1, born |-> IF Present THEN row.born ELSE lastTag + 1]

(* INSERT .. ON CONFLICT DO UPDATE waits for whoever holds the row or is
   inserting it, and then writes, whatever the transaction has read before.
   An insert has its foreign key checked at the end of the statement.      *)
Upsert(p) ==
    /\ At(p, "upsert")
    /\ writer \in {NoHandler, p}
    /\ writer' = p
    /\ lastTag' = lastTag + 1
    /\ req' = [req EXCEPT ![p].pc = IF Present THEN "commit" ELSE "foreign",
                          ![p].new = Version(req[p].body)]
    /\ UNCHANGED <<row, session, requests, history>>

(* The check shares the session's row with other checks, not with the
   cascade's FOR UPDATE.                                                   *)
CheckForeignKey(p) ==
    /\ At(p, "foreign")
    /\ session = NoHandler
    /\ session' = p
    /\ Goto(p, "commit")
    /\ UNCHANGED <<row, writer, lastTag, requests, history>>

Commit(p) ==
    /\ At(p, "commit")
    /\ row' = req[p].new
    /\ Release(p)
    /\ log' = Append(log, Entry(req[p], row.tag))
    /\ Goto(p, "audit")
    /\ UNCHANGED <<lastTag, requests, audit>>

(* The audit row is a statement of its own, after the commit. *)
AppendAudit(p) ==
    /\ At(p, "audit")
    /\ audit' = audit \cup {req[p].new.tag}
    /\ Finish(p)
    /\ UNCHANGED <<row, locks, lastTag, requests, log>>

-----------------------------------------------------------------------------
(* The delete cascade, as far as it meets the blob: it locks the session ... *)
LockSession(p) ==
    /\ At(p, "session")
    /\ session = NoHandler
    /\ session' = p
    /\ Goto(p, "erase")
    /\ UNCHANGED <<row, writer, lastTag, requests, history>>

\* ... deletes the row, if its statement sees one, once nobody locks it ...
Erase(p) ==
    /\ At(p, "erase")
    /\ Present => writer = NoHandler
    /\ writer' = IF Present THEN p ELSE writer
    /\ Goto(p, "erased")
    /\ UNCHANGED <<row, session, lastTag, requests, history>>

\* ... and commits.
CommitErase(p) ==
    /\ At(p, "erased")
    /\ row' = IF writer = p THEN NoRow ELSE row
    /\ Release(p)
    /\ Finish(p)
    /\ UNCHANGED <<lastTag, requests, history>>

(* A statement fails, the client goes, the server dies: rollback. *)
Die(p) ==
    /\ ~At(p, "idle")
    /\ Release(p)
    /\ Finish(p)
    /\ UNCHANGED <<row, lastTag, requests, history>>

-----------------------------------------------------------------------------
Step(p) ==
    \/ SelectNone(p) \/ SelectSome(p) \/ LockRow(p) \/ RowGone(p)
    \/ Merge(p) \/ Refuse(p) \/ Upsert(p) \/ CheckForeignKey(p) \/ Commit(p)
    \/ AppendAudit(p)
    \/ LockSession(p) \/ Erase(p) \/ CommitErase(p)

Next == \E p \in Handlers :
    \/ \E o \in {"replace", "merge", "delete"}, body \in Json,
          tag \in AnyTag .. lastTag : Begin(p, o, body, tag)
    \/ Step(p)
    \/ Die(p)

Quiescent == requests = MaxRequests /\ \A p \in Handlers : At(p, "idle")

\* Nothing more is asked and nothing runs: not a deadlock.
Stopped == Quiescent /\ UNCHANGED vars

Spec == Init /\ [][Next \/ Stopped]_vars

\* Every handler goes on when it can: tokio polls its task, PostgreSQL wakes
\* those who wait for a lock.
FairSpec == Spec /\ \A p \in Handlers : WF_vars(Step(p))

-----------------------------------------------------------------------------
(* The type invariant; only a handler with a request holds a lock. *)
TypeOK ==
    /\ row \in Rows
    /\ {writer, session} \subseteq {p \in Handlers : ~At(p, "idle")} \cup {NoHandler}
    /\ req \in [Handlers -> Requests]
    /\ lastTag \in Nat /\ row.tag <= lastTag
    /\ requests \in 0 .. MaxRequests
    /\ audit \subseteq {log[i].tag : i \in DOMAIN log}

Merges == {i \in DOMAIN log : log[i].op = "merge"}

(* A PATCH that found the blob writes over the version it has read: nothing
   was written in between that the merge does not contain
   (db/metadata.rs, shallow_merge). *)
MergeOnLatest ==
    \A i \in Merges : log[i].read # NoTag => log[i].over = log[i].read

(* If-Match is a compare-and-set: a conditional PATCH replaces the very
   version its client has named, so that of any number of PATCHes that name
   one version at most one succeeds (db/metadata.rs:91). *)
CompareAndSet ==
    \A i \in Merges : log[i].expected # AnyTag =>
        /\ log[i].over = log[i].expected
        /\ \A j \in Merges \ {i} : log[j].expected # log[i].expected

(* Every request ends: the locks of the blob's row and of the session's row
   are never waited for in a circle, and none is left behind. *)
RequestsFinish == \A p \in Handlers : []<>At(p, "idle")

(* What db/metadata.rs:65 says: a PATCH merges into the existing blob.  Two
   that find no row both start from {}, and the second replaces the first. *)
MergesIntoExisting == \A i \in Merges : log[i].over = log[i].read
=============================================================================
