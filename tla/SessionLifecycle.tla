-------------------------- MODULE SessionLifecycle --------------------------
(***************************************************************************)
(* The handlers that write one row of the sessions table: create, patch,   *)
(* resume and the delete cascade (src/routes/sessions.rs), together with   *)
(* the handlers that only hang content off the row (chunk upload,          *)
(* segments, mutes ...).                                                   *)
(*                                                                         *)
(* A handler of an existing session runs one READ COMMITTED transaction:   *)
(*                                                                         *)
(*   begin -> SELECT .. FOR UPDATE -> check and write -> commit -> event   *)
(*                                                                         *)
(* and any number of them are in flight.  The row lock is `holder`.  The   *)
(* event is sent after the commit, when the lock is gone.  A handler may   *)
(* die at any step (client disconnect, database error, crash of the        *)
(* server): PostgreSQL then rolls its transaction back.                    *)
(***************************************************************************)
EXTENDS SessionStates, Integers, Sequences

CONSTANTS
    Handlers,     \* request slots of the server
    NoHandler,    \* nobody holds the row lock
    ResumeTtl,    \* RESUME_TTL_SECS, in ticks
    MaxNow,       \* bound on the clock
    MaxRequests   \* bound on the requests clients make

ASSUME HandlersAssumption == NoHandler \notin Handlers
ASSUME BoundsAssumption ==
    ResumeTtl \in Nat /\ MaxNow \in Nat /\ MaxRequests \in Nat

Never == -1                      \* SQL NULL in a timestamp column
StartedAt == 0                   \* sessions.started_at, given by the client
Keep == "keep"                   \* a PATCH without a status
Ops == {"create", "patch", "resume", "delete", "ingest"}

VARIABLES
    row,       \* the committed row: status, abandonedAt, deletedAt
    holder,    \* the handler that holds the FOR UPDATE lock on the row
    req,       \* the request each handler serves, with its local state
    now,       \* the clock
    requests,  \* requests made so far
    log,       \* history: every committed write of the row, in commit order
    audit,     \* the positions of `log` that have an audit row
    bus,       \* SessionStateChanged events in the order they were sent
    lost       \* history: the commits whose handler died before its event

dbVars  == <<row, holder>>
outVars == <<log, audit, bus, lost>>
vars == <<dbVars, req, now, requests, outVars>>

NoRow == [status |-> "absent", abandonedAt |-> Never, deletedAt |-> Never]

Rows == [status : Statuses \cup {"absent"},
         abandonedAt : Nat \cup {Never},
         deletedAt : Nat \cup {Never}]

\* A handler: where it is, what it serves, the time of its BEGIN (NOW() in
\* its transaction), the row its SELECT .. FOR UPDATE returned, and the
\* position of its commit in `log`.
Requests == [pc : {"idle", "insert", "audit", "lock", "check", "commit", "send"},
             op : Ops, target : Statuses \cup {Keep}, began : Nat,
             seen : Rows, mine : Nat]

Idle == [pc |-> "idle", op |-> "patch", target |-> Keep, began |-> 0,
         seen |-> NoRow, mine |-> 0]

At(p, label) == req[p].pc = label
Goto(p, label) == req' = [req EXCEPT ![p].pc = label]
Finish(p) == req' = [req EXCEPT ![p] = Idle]

Init ==
    /\ row = NoRow
    /\ holder = NoHandler
    /\ req = [p \in Handlers |-> Idle]
    /\ now = 0
    /\ requests = 0
    /\ log = <<>>
    /\ audit = {}
    /\ bus = <<>>
    /\ lost = {}

-----------------------------------------------------------------------------
(* What the SQL statements write. *)

\* sessions::update_status: NOW() is the start of the transaction, not the
\* moment the row lock was granted.
UpdateStatus(r, status, at) ==
    [status |-> status,
     abandonedAt |-> IF status = "abandoned" THEN at ELSE r.abandonedAt,
     deletedAt |-> IF status = "deleted" THEN at ELSE r.deletedAt]

\* Mutant of ResumedRow: the UPDATE forgets abandoned_at = NULL.
ResumedRow_KeepsStamp(r) == [r EXCEPT !.status = "recording"]

\* sessions::resume_from_abandoned
ResumedRow(r) == [r EXCEPT !.status = "recording", !.abandonedAt = Never]

\* The time a resume measures the session's age from.
Anchor(r) == IF r.abandonedAt # Never THEN r.abandonedAt ELSE StartedAt

Age(r) == IF now >= Anchor(r) THEN now - Anchor(r) ELSE 0

-----------------------------------------------------------------------------
(* A request arrives; the handler of an existing session begins its
   transaction. *)
Begin(p, o, t) ==
    /\ At(p, "idle")
    /\ requests < MaxRequests
    /\ o # "patch" => t = Keep
    /\ requests' = requests + 1
    /\ req' = [req EXCEPT ![p] =
                 [Idle EXCEPT !.pc = IF o = "create" THEN "insert" ELSE "lock",
                              !.op = o, !.target = t, !.began = now]]
    /\ UNCHANGED <<dbVars, now, outVars>>

(* POST /internal/sessions: one autocommitted INSERT ... *)
Insert(p) ==
    /\ At(p, "insert")
    /\ row.status = "absent"
    /\ row' = [NoRow EXCEPT !.status = "recording"]
    /\ log' = Append(log, [op |-> "create", old |-> "absent", new |-> "recording"])
    /\ req' = [req EXCEPT ![p].pc = "audit", ![p].mine = Len(log) + 1]
    /\ UNCHANGED <<holder, now, requests, audit, bus, lost>>

\* ... that the primary key refuses when the session is there already ...
InsertConflict(p) ==
    /\ At(p, "insert")
    /\ row.status # "absent"
    /\ Finish(p)
    /\ UNCHANGED <<dbVars, now, requests, outVars>>

\* ... and a second autocommitted statement for the audit row.
AppendAudit(p) ==
    /\ At(p, "audit")
    /\ audit' = audit \cup {req[p].mine}
    /\ Finish(p)
    /\ UNCHANGED <<dbVars, now, requests, log, bus, lost>>

\* Mutant of LockFree: a plain SELECT instead of SELECT .. FOR UPDATE.
LockFree_PlainSelect == TRUE

\* FOR UPDATE waits until no other transaction holds the row.
LockFree == holder = NoHandler

(* sessions::get_in_tx: wait for the row lock and read the row. *)
Lock(p) ==
    /\ At(p, "lock")
    /\ row.status # "absent"
    /\ LockFree
    /\ holder' = p
    /\ req' = [req EXCEPT ![p].pc = "check", ![p].seen = row]
    /\ UNCHANGED <<row, now, requests, outVars>>

\* 404: no row, nothing locked.
NotFound(p) ==
    /\ At(p, "lock")
    /\ row.status = "absent"
    /\ Finish(p)
    /\ UNCHANGED <<dbVars, now, requests, outVars>>

-----------------------------------------------------------------------------
(* The check of each handler on the row it has read, and what it writes.   *)

PatchAllowed(q) == q.target # Keep => CanTransition(q.seen.status, q.target)

\* Mutant of PatchedRow: update_status runs although the body has no status.
PatchedRow_AlwaysUpdates(q) == UpdateStatus(q.seen, q.target, q.began)

PatchedRow(q) ==
    IF q.target = Keep THEN q.seen ELSE UpdateStatus(q.seen, q.target, q.began)

ResumeAllowed(q) == q.seen.status = "abandoned" /\ Age(q.seen) <= ResumeTtl

Allowed(q) ==
    /\ q.op = "patch"  => PatchAllowed(q)
    /\ q.op = "resume" => ResumeAllowed(q)

Written(q) ==
    CASE q.op = "patch"  -> PatchedRow(q)
      [] q.op = "resume" -> ResumedRow(q.seen)
      [] q.op = "delete" -> UpdateStatus(q.seen, "deleted", q.began)
      [] OTHER           -> q.seen

\* The check passes: from here the transaction carries Written(req[p]).
Write(p) ==
    /\ At(p, "check")
    /\ Allowed(req[p])
    /\ Goto(p, "commit")
    /\ UNCHANGED <<dbVars, now, requests, outVars>>

\* Mutant of Refuse: the early return leaves the transaction open.
Refuse_KeepsLock(p) ==
    /\ At(p, "check")
    /\ ~Allowed(req[p])
    /\ Finish(p)
    /\ UNCHANGED <<dbVars, now, requests, outVars>>

\* 409 or 410: the early return drops the transaction, and with it the lock.
Refuse(p) ==
    /\ At(p, "check")
    /\ ~Allowed(req[p])
    /\ holder' = NoHandler
    /\ Finish(p)
    /\ UNCHANGED <<row, now, requests, outVars>>

-----------------------------------------------------------------------------
\* Mutant of Announces: the test that compares the statuses is inverted.
Announces_Inverted(q) ==
    \/ q.op = "patch" /\ q.target # Keep /\ q.seen.status = q.target
    \/ q.op \in {"resume", "delete"}

\* Does the handler announce its commit?  PATCH only when the status changed;
\* resume and delete always.
Announces(q) ==
    \/ q.op = "patch" /\ q.target # Keep /\ q.seen.status # q.target
    \/ q.op \in {"resume", "delete"}

(* tx.commit(): the row, the cascade and the audit row become visible      *)
(* together and the lock is released.                                      *)
Commit(p) ==
    /\ At(p, "commit")
    /\ req[p].op # "ingest"
    /\ row' = Written(req[p])
    /\ holder' = NoHandler
    /\ log' = Append(log, [op |-> req[p].op, old |-> row.status,
                           new |-> Written(req[p]).status])
    /\ audit' = audit \cup {Len(log) + 1}
    /\ IF Announces(req[p])
          THEN req' = [req EXCEPT ![p].pc = "send", ![p].mine = Len(log) + 1]
          ELSE Finish(p)
    /\ UNCHANGED <<now, requests, bus, lost>>

\* The commit of a chunk upload (or of a row with a foreign key on the
\* session): the status of the session was never looked at.
CommitContent(p) ==
    /\ At(p, "commit")
    /\ req[p].op = "ingest"
    /\ holder' = NoHandler
    /\ Finish(p)
    /\ UNCHANGED <<row, now, requests, outVars>>

(* state.events.send(..), after the commit and without the lock. *)
Send(p) ==
    /\ At(p, "send")
    /\ bus' = Append(bus, [old |-> req[p].seen.status,
                           new |-> Written(req[p]).status,
                           commit |-> req[p].mine])
    /\ Finish(p)
    /\ UNCHANGED <<dbVars, now, requests, log, audit, lost>>

(* The handler dies: its client went away, the database failed, or the     *)
(* server crashed.  An open transaction is rolled back.                    *)
Die(p) ==
    /\ ~At(p, "idle")
    /\ holder' = IF holder = p THEN NoHandler ELSE holder
    /\ lost' = IF At(p, "send") THEN lost \cup {req[p].mine} ELSE lost
    /\ Finish(p)
    /\ UNCHANGED <<row, now, requests, log, audit, bus>>

Tick ==
    /\ now < MaxNow
    /\ now' = now + 1
    /\ UNCHANGED <<dbVars, req, requests, outVars>>

\* No request in flight: the server may stay idle for ever.
Quiescent ==
    /\ \A p \in Handlers : At(p, "idle")
    /\ UNCHANGED vars

Step(p) ==
    \/ Insert(p) \/ InsertConflict(p) \/ AppendAudit(p)
    \/ Lock(p) \/ NotFound(p) \/ Write(p) \/ Refuse(p)
    \/ Commit(p) \/ CommitContent(p) \/ Send(p)

Next ==
    \/ \E p \in Handlers :
          \/ \E o \in Ops, t \in Statuses \cup {Keep} : Begin(p, o, t)
          \/ Step(p)
          \/ Die(p)
    \/ Tick
    \/ Quiescent

\* A chunk upload holds the row lock while the client's body comes in; no
\* timeout bounds that wait (CommitContent follows it).
Receiving(p) == At(p, "check") /\ req[p].op = "ingest"

ServerStep(p) == ~Receiving(p) /\ Step(p)

\* The runtime polls every handler that can run (weak fairness), and
\* PostgreSQL queues the waiters of a row lock first come, first served, so
\* a waiter is not passed over for ever (strong fairness of Lock).  Nothing
\* makes a client send the rest of its body.
Fairness == \A p \in Handlers : WF_vars(ServerStep(p)) /\ SF_vars(Lock(p))

Spec == Init /\ [][Next]_vars
FairSpec == Spec /\ Fairness

-----------------------------------------------------------------------------
LogEntry == [op : Ops, old : Statuses \cup {"absent"}, new : Statuses \cup {"absent"}]

EventEntry == [old : Statuses \cup {"absent"}, new : Statuses \cup {"absent"},
               commit : Nat]

\* Type invariant of the sessions row, the handlers and the outputs.
TypeOK ==
    /\ row \in Rows
    /\ holder \in Handlers \cup {NoHandler}
    /\ req \in [Handlers -> Requests]
    /\ now \in Nat
    /\ requests \in Nat
    /\ log \in Seq(LogEntry)
    /\ audit \subseteq Nat
    /\ bus \in Seq(EventEntry)
    /\ lost \subseteq Nat

\* The timestamps of the row tell its status: an abandoned session carries
\* abandoned_at, so that the resume handler's fallback to started_at is never
\* used; a session that left "abandoned" alive has lost the stamp; and
\* deleted_at is there exactly when the session is a tombstone.
StampsTellStatus ==
    /\ row.status = "abandoned" => row.abandonedAt # Never
    /\ row.abandonedAt # Never => row.status \in {"abandoned", "deleted"}
    /\ (row.deletedAt # Never) <=> (row.status = "deleted")

\* The sessions component keeps its contract whatever the interleaving: the
\* status is created once and moves only along the table, the resume edge and
\* the cascade's edge, although every handler decides on a row it read earlier.
Contract == INSTANCE SessionContract WITH status <- row.status
ContractSpec == Contract!Spec

\* An event reports the transition that one commit really made, and no
\* commit is reported twice, although events are sent after the lock is gone.
EventsTellCommits ==
    /\ \A i \in DOMAIN bus :
          /\ bus[i].commit \in DOMAIN log
          /\ log[bus[i].commit].old = bus[i].old
          /\ log[bus[i].commit].new = bus[i].new
    /\ \A i, j \in DOMAIN bus : bus[i].commit = bus[j].commit => i = j

Announced == {bus[i].commit : i \in DOMAIN bus}

\* Every commit that changed the status of an existing session is announced,
\* is about to be, or belongs to a handler that died in between: no path of
\* the handlers forgets the event.
EveryChangeAnnounced ==
    \A i \in DOMAIN log :
        (log[i].op # "create" /\ log[i].old # log[i].new)
            => \/ i \in Announced \cup lost
               \/ \E p \in Handlers : At(p, "send") /\ req[p].mine = i

\* Provided that no client stalls for ever in the middle of a body, every
\* request that has started comes to an end, with an answer or an error: no
\* early return keeps the row lock from the others.
RequestsFinish ==
    (\A p \in Handlers : []<>~Receiving(p))
        => \A p \in Handlers : []<>At(p, "idle")
=============================================================================
