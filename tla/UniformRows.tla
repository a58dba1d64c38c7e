----------------------------- MODULE UniformRows -----------------------------
(***************************************************************************)
(* Segments, beats and scenes: three tables with one shape and one set of  *)
(* handlers (src/db/uniform.rs, src/routes/uniform_crud.rs).  Here is one  *)
(* table of one session, and the session's mute ranges                     *)
(* (src/db/mute_ranges.rs, src/routes/mute.rs), which have no client id.   *)
(*                                                                         *)
(*   bulk    SELECT the known client ids -> INSERT the others, one by one, *)
(*           in the order of the body -> commit -> audit and announce each *)
(*   patch   SELECT .. FOR UPDATE -> If-Match -> UPDATE, commit -> audit   *)
(*           and announce                                                  *)
(*   delete  one DELETE -> audit and announce                              *)
(*   mute    one INSERT -> audit and announce                              *)
(*   clear   the DELETE of a session's cascade or of a wipe: no event      *)
(*                                                                         *)
(* An INSERT that meets an uncommitted row with its client id waits for    *)
(* that transaction to end.  Two batches can wait for each other;          *)
(* PostgreSQL then aborts one of them.                                     *)
(***************************************************************************)
EXTENDS Integers, Sequences

CONSTANTS
    Handlers,     \* request slots of the server
    Cids,         \* client ids
    NoCid,        \* the client id of a mute range
    MaxBatch,     \* bound on the length of a batch
    MaxRequests   \* bound on the requests clients make

ASSUME CidsAssumption == NoCid \notin Cids
ASSUME BoundsAssumption == MaxBatch \in Nat /\ MaxRequests \in Nat

VARIABLES
    rows,      \* the committed rows
    locks,     \* the ids of the rows each handler has locked or deleted
    req,       \* the request each handler serves, with its local state
    made,      \* ids and ETags made so far
    requests,  \* requests made so far
    log,       \* history: the changes that are announced, in commit order
    cleared,   \* history: the ids of the rows a wipe or a cascade deleted
    audit,     \* the positions of `log` that have an audit row
    bus,       \* the positions of `log` in the order they were announced
    lost,      \* history: the changes whose handler ended before their event
    acks       \* history: the client ids of the batches answered with 200

vars == <<rows, locks, req, made, requests, log, cleared, audit, bus, lost, acks>>
history == <<log, cleared, audit, bus, lost, acks>>

AnyTag == 0     \* a PATCH without If-Match

\* A row: its payload is what its ETag names.
Rows == [cid : Cids \cup {NoCid}, id : Nat, tag : Nat]

Batches == UNION {[1..n -> Cids] : n \in 1..MaxBatch}

\* The client ids still to insert, by their places in the body.
Todos == UNION {[places -> Cids] : places \in SUBSET (1..MaxBatch)}

\* `mine` are the rows the open transaction has inserted, `tell` the commits
\* to announce.
Requests == [pc : {"idle", "scan", "insert", "lock", "check", "commit", "audit", "emit"},
             op : {"bulk", "patch", "delete", "mute", "clear"},  todo : Todos,
             sent : SUBSET (Cids \cup {NoCid}), id : Nat, expected : Nat, seen : Nat,
             mine : Seq(Rows), tell : Seq(Nat)]

Idle == [pc |-> "idle", op |-> "clear", todo |-> << >>, sent |-> {}, id |-> 0,
         expected |-> AnyTag, seen |-> 0, mine |-> << >>, tell |-> << >>]

At(p, label) == req[p].pc = label
Goto(p, label) == req' = [req EXCEPT ![p].pc = label]
Finish(p) == req' = [req EXCEPT ![p] = Idle]
Elements(s) == {s[i] : i \in DOMAIN s}

\* The uncommitted rows of p's batch.
Inserted(p) == Elements(req[p].mine)

\* The end of p's transaction releases its locks.
Release(p) == locks' = [locks EXCEPT ![p] = {}]

Change(kind, r, over, q) ==
    [kind |-> kind, id |-> r.id, cid |-> r.cid, tag |-> r.tag, over |-> over,
     read |-> q.seen, expected |-> q.expected]

Init ==
    /\ rows = {}
    /\ locks = [p \in Handlers |-> {}]
    /\ req = [p \in Handlers |-> Idle]
    /\ made = 0 /\ requests = 0
    /\ log = << >> /\ cleared = {}
    /\ audit = {} /\ bus = << >> /\ lost = {} /\ acks = {}

-----------------------------------------------------------------------------
(* Requests arrive.  Clients know the ids and tags of what was committed.  *)

Known == {log[i].id : i \in DOMAIN log}
Tagged == {i \in DOMAIN log : log[i].cid # NoCid}

Begin(p, q) ==
    /\ At(p, "idle")
    /\ requests < MaxRequests
    /\ requests' = requests + 1
    /\ req' = [req EXCEPT ![p] = q]
    /\ UNCHANGED <<rows, locks, made, history>>

BeginBulk(p) == \E batch \in Batches :
    Begin(p, [Idle EXCEPT !.pc = "scan", !.op = "bulk", !.todo = batch,
                          !.sent = Elements(batch)])

BeginPatch(p) == \E i \in Tagged, tag \in {log[j].tag : j \in Tagged} \cup {AnyTag} :
    Begin(p, [Idle EXCEPT !.pc = "lock", !.op = "patch", !.id = log[i].id,
                          !.expected = tag])

BeginDelete(p) == \E n \in Known :
    Begin(p, [Idle EXCEPT !.pc = "lock", !.op = "delete", !.id = n])

BeginMute(p) == Begin(p, [Idle EXCEPT !.pc = "commit", !.op = "mute"])

\* The cascade deletes every row, a wipe what is of one participant.
BeginClear(p) == \E scope \in SUBSET (Cids \cup {NoCid}) \ {{}} :
    Begin(p, [Idle EXCEPT !.pc = "lock", !.sent = scope])

-----------------------------------------------------------------------------
(* The batch. *)

\* Mutant of Existing: client ids of transactions still open count as known.
Existing_Dirty ==
    {r.cid : r \in rows} \cup {r.cid : r \in UNION {Inserted(p) : p \in Handlers}}

\* What the SELECT of a batch sees.
Existing == {r.cid : r \in rows}

Scan(p) ==
    /\ At(p, "scan")
    /\ LET fresh == {i \in DOMAIN req[p].todo : req[p].todo[i] \notin Existing}
       IN  req' = [req EXCEPT ![p].pc = "insert",
                              ![p].todo = [i \in fresh |-> req[p].todo[i]]]
    /\ UNCHANGED <<rows, locks, made, requests, history>>

Places(p) == DOMAIN req[p].todo
Inserting(p) == At(p, "insert") /\ Places(p) # {}

\* The client id the handler has come to, in the order of the body.
Turn(p) == CHOOSE i \in Places(p) : \A j \in Places(p) : i <= j
Item(p) == req[p].todo[Turn(p)]

\* An uncommitted row with the client id makes an INSERT wait, and so does a
\* committed one that an open transaction has changed or deleted.
Blockers(p) ==
    {h \in Handlers \ {p} :
        \/ \E r \in Inserted(h) : r.cid = Item(p)
        \/ \E r \in rows : r.cid = Item(p) /\ r.id \in locks[h] /\ At(h, "commit")}

\* Mutant of Duplicate: no UNIQUE (session_id, client_id).
Duplicate_Allowed(p) == FALSE

\* A row with the client id is there, or the batch holds it twice.
Duplicate(p) == \E r \in rows \cup Inserted(p) : r.cid = Item(p)

InsertRow(p) ==
    /\ Inserting(p)
    /\ Blockers(p) = {} /\ ~Duplicate(p)
    /\ made' = made + 1
    /\ LET r == [cid |-> Item(p), id |-> made + 1, tag |-> made + 1]
       IN  req' = [req EXCEPT
                     ![p].todo = [i \in Places(p) \ {Turn(p)} |-> req[p].todo[i]],
                     ![p].mine = Append(@, r)]
    /\ UNCHANGED <<rows, locks, requests, history>>

\* The unique violation drops the transaction: an error for the whole batch.
InsertConflict(p) ==
    /\ Inserting(p)
    /\ Blockers(p) = {} /\ Duplicate(p)
    /\ Finish(p)
    /\ UNCHANGED <<rows, locks, made, requests, history>>

\* Handlers that wait for each other, of which the database aborts one.
DeadlockVictim(p) ==
    /\ \E S \in SUBSET Handlers :
          p \in S /\ \A h \in S : Inserting(h) /\ Blockers(h) \cap S # {}
    /\ Finish(p)
    /\ UNCHANGED <<rows, locks, made, requests, history>>

\* What is left to do after commits `done`: audit and announce each in turn.
Announce(p, done) ==
    IF done = << >> THEN Finish(p)
    ELSE req' = [req EXCEPT ![p].pc = "audit", ![p].mine = << >>, ![p].tell = done]

CommitBatch(p) ==
    /\ At(p, "insert") /\ Places(p) = {}
    /\ LET new == req[p].mine IN
          /\ rows' = rows \cup Elements(new)
          /\ log' = log \o [i \in DOMAIN new |-> Change("created", new[i], 0, req[p])]
          /\ Announce(p, [i \in DOMAIN new |-> Len(log) + i])
    /\ acks' = IF req[p].mine = << >> THEN acks \cup {req[p].sent} ELSE acks
    /\ UNCHANGED <<locks, made, requests, cleared, audit, bus, lost>>

-----------------------------------------------------------------------------
(* One row: PATCH and DELETE; and all of them at once. *)

RowFree(n) == \A h \in Handlers : n \notin locks[h]

\* Mutant of Granted: the SELECT of a PATCH without FOR UPDATE.
Granted_PlainSelect(p) == req[p].op = "patch" \/ RowFree(req[p].id)

\* FOR UPDATE and DELETE wait until nobody else holds the row.
Granted(p) == RowFree(req[p].id)

Target(p) == CHOOSE r \in rows : r.id = req[p].id

NotFound(p) ==
    /\ At(p, "lock") /\ req[p].op # "clear"
    /\ \A r \in rows : r.id # req[p].id
    /\ Finish(p)
    /\ UNCHANGED <<rows, locks, made, requests, history>>

LockRow(p) ==
    /\ At(p, "lock") /\ req[p].op # "clear"
    /\ \E r \in rows : r.id = req[p].id
    /\ Granted(p)
    /\ locks' = [locks EXCEPT ![p] = {req[p].id}]
    /\ req' = [req EXCEPT ![p].pc = IF req[p].op = "patch" THEN "check" ELSE "commit",
                          ![p].seen = Target(p).tag]
    /\ UNCHANGED <<rows, made, requests, history>>

Matches(q) == q.expected \in {AnyTag, q.seen}

Check(p) ==
    /\ At(p, "check") /\ Matches(req[p])
    /\ Goto(p, "commit")
    /\ UNCHANGED <<rows, locks, made, requests, history>>

\* Mutant of Refuse: the early return leaves the transaction open.
Refuse_KeepsLock(p) ==
    /\ At(p, "check") /\ ~Matches(req[p])
    /\ Finish(p)
    /\ UNCHANGED <<rows, locks, made, requests, history>>

\* 412: the early return drops the transaction.
Refuse(p) ==
    /\ At(p, "check") /\ ~Matches(req[p])
    /\ Release(p)
    /\ Finish(p)
    /\ UNCHANGED <<rows, made, requests, history>>

CommitPatch(p) ==
    /\ At(p, "commit") /\ req[p].op = "patch"
    /\ made' = made + 1
    /\ \E r \in rows : r.id = req[p].id /\
          LET new == [r EXCEPT !.tag = made + 1]
          IN  /\ rows' = (rows \ {r}) \cup {new}
              /\ log' = Append(log, Change("updated", new, r.tag, req[p]))
    /\ Release(p)
    /\ Announce(p, <<Len(log) + 1>>)
    /\ UNCHANGED <<requests, cleared, audit, bus, lost, acks>>

CommitDelete(p) ==
    /\ At(p, "commit") /\ req[p].op = "delete"
    /\ rows' = rows \ {Target(p)}
    /\ log' = Append(log, Change("deleted", Target(p), Target(p).tag, req[p]))
    /\ Release(p)
    /\ Announce(p, <<Len(log) + 1>>)
    /\ UNCHANGED <<made, requests, cleared, audit, bus, lost, acks>>

\* mute_ranges::create, a statement of its own.
CommitMute(p) ==
    /\ At(p, "commit") /\ req[p].op = "mute"
    /\ made' = made + 1
    /\ LET new == [cid |-> NoCid, id |-> made + 1, tag |-> made + 1]
       IN  /\ rows' = rows \cup {new}
           /\ log' = Append(log, Change("created", new, 0, req[p]))
    /\ Announce(p, <<Len(log) + 1>>)
    /\ UNCHANGED <<locks, requests, cleared, audit, bus, lost, acks>>

\* delete_all_for_session, delete_for_participant_segments: the rows the
\* DELETE sees and matches, once they are free.
Matched(p) == {r \in rows : r.cid \in req[p].sent}

LockAll(p) ==
    /\ At(p, "lock") /\ req[p].op = "clear"
    /\ \A r \in Matched(p) : RowFree(r.id)
    /\ locks' = [locks EXCEPT ![p] = {r.id : r \in Matched(p)}]
    /\ Goto(p, "commit")
    /\ UNCHANGED <<rows, made, requests, history>>

\* No event is sent for a row that a wipe or a cascade deletes.
CommitClear(p) ==
    /\ At(p, "commit") /\ req[p].op = "clear"
    /\ rows' = {r \in rows : r.id \notin locks[p]}
    /\ cleared' = cleared \cup {r.id : r \in rows \ rows'}
    /\ Release(p)
    /\ Finish(p)
    /\ UNCHANGED <<made, requests, log, audit, bus, lost, acks>>

-----------------------------------------------------------------------------
(* After the commit, for one row after the other: the audit row ... *)
Audit(p) ==
    /\ At(p, "audit")
    /\ audit' = audit \cup {Head(req[p].tell)}
    /\ Goto(p, "emit")
    /\ UNCHANGED <<rows, locks, made, requests, log, cleared, bus, lost, acks>>

\* Mutant of Emit: only the first row of a batch is announced.
Emit_First(p) ==
    /\ At(p, "emit")
    /\ bus' = Append(bus, Head(req[p].tell))
    /\ acks' = IF req[p].op = "bulk" THEN acks \cup {req[p].sent} ELSE acks
    /\ Finish(p)
    /\ UNCHANGED <<rows, locks, made, requests, log, cleared, audit, lost>>

\* ... and the event; the answer after the last.
Emit(p) ==
    /\ At(p, "emit")
    /\ bus' = Append(bus, Head(req[p].tell))
    /\ Announce(p, Tail(req[p].tell))
    /\ acks' = IF req[p].op = "bulk" /\ Len(req[p].tell) = 1
                 THEN acks \cup {req[p].sent} ELSE acks
    /\ UNCHANGED <<rows, locks, made, requests, log, cleared, audit, lost>>

(* A statement fails, the client goes, the server dies: what is open is
   rolled back, what is committed stays unannounced.                       *)
Die(p) ==
    /\ ~At(p, "idle")
    /\ Release(p)
    /\ lost' = lost \cup Elements(req[p].tell)
    /\ Finish(p)
    /\ UNCHANGED <<rows, made, requests, log, cleared, audit, bus, acks>>

-----------------------------------------------------------------------------
Step(p) ==
    \/ Scan(p) \/ InsertRow(p) \/ InsertConflict(p) \/ DeadlockVictim(p) \/ CommitBatch(p)
    \/ NotFound(p) \/ LockRow(p) \/ Check(p) \/ Refuse(p) \/ CommitPatch(p)
    \/ CommitDelete(p) \/ CommitMute(p) \/ LockAll(p) \/ CommitClear(p)
    \/ Audit(p) \/ Emit(p)

Stopped ==
    /\ requests = MaxRequests /\ \A p \in Handlers : At(p, "idle")
    /\ UNCHANGED vars

Next ==
    \/ \E p \in Handlers :
          \/ BeginBulk(p) \/ BeginPatch(p) \/ BeginDelete(p) \/ BeginMute(p) \/ BeginClear(p)
          \/ Step(p)
          \/ Die(p)
    \/ Stopped

Spec == Init /\ [][Next]_vars

\* tokio polls the handlers, PostgreSQL wakes those who wait for a lock and
\* breaks deadlocks.
FairSpec == Spec /\ \A p \in Handlers : WF_vars(Step(p))

-----------------------------------------------------------------------------
(* The type invariant; only a handler with a request locks a row. *)
TypeOK ==
    /\ rows \subseteq Rows
    /\ locks \in [Handlers -> SUBSET Nat]
    /\ \A p \in Handlers : At(p, "idle") => locks[p] = {}
    /\ req \in [Handlers -> Requests]
    /\ made \in Nat /\ requests \in 0..MaxRequests
    /\ audit \cup Elements(bus) \cup lost \subseteq DOMAIN log
    /\ acks \subseteq SUBSET Cids

(* A client id names one row, committed or about to be, whatever batches
   race with it and whether they saw it (db/uniform.rs, bulk_insert). *)
OneRowPerClientId ==
    LET all == rows \cup UNION {Inserted(p) : p \in Handlers}
    IN  \A r, s \in all : r.cid = s.cid /\ r.cid # NoCid => r = s

(* A batch is answered with 200 only if each of its rows has been committed,
   by it or, where it reports a duplicate, by another: a batch whose
   transaction is still open does not make anyone skip a row. *)
AcknowledgedWasStored ==
    \A sent \in acks : \A c \in sent :
        \E i \in DOMAIN log : log[i].kind = "created" /\ log[i].cid = c

Updates == {i \in DOMAIN log : log[i].kind = "updated"}

(* A PATCH changes the very version it has read, so that no field another
   PATCH has set is lost; under If-Match that is the version its client
   named, and only one of those who name it succeeds (db/uniform.rs, patch). *)
PatchOnLatest ==
    \A i \in Updates :
        /\ log[i].over = log[i].read
        /\ log[i].expected # AnyTag =>
              /\ log[i].over = log[i].expected
              /\ \A j \in Updates \ {i} : log[j].expected # log[i].expected

Outstanding == UNION {Elements(req[p].tell) : p \in Handlers}
Heard(kind) == {log[i].id : i \in {j \in Elements(bus) : log[j].kind = kind}}

(* The events account for the rows.  Each change that a batch, a PATCH, a
   DELETE or a mute commits is announced at most once and after its audit row;
   and it is announced, or its handler is about to do so or has died.  Who
   has heard every event is wrong about a row only while its event is
   outstanding or lost, or after a wipe or a cascade, which announce no row
   (routes/uniform_crud.rs; mute.rs and sessions.rs for the last). *)
EventsAccountForRows ==
    /\ DOMAIN log = Elements(bus) \cup lost \cup Outstanding
    /\ \A i, j \in DOMAIN bus : bus[i] = bus[j] => i = j
    /\ Elements(bus) \subseteq audit
    /\ LET believed == Heard("created") \ Heard("deleted")
           there == {r.id : r \in rows}
       IN  (believed \ there) \cup (there \ believed)
             \subseteq {log[i].id : i \in lost \cup Outstanding} \cup cleared

(* Every request ends: no transaction is left open, and batches that wait for
   each other's rows do not wait for ever. *)
RequestsFinish == \A p \in Handlers : []<>At(p, "idle")
=============================================================================
