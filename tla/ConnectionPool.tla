---------------------------- MODULE ConnectionPool ----------------------------
(***************************************************************************)
(* The handlers as the connection pool sees them (src/db/pool.rs): what    *)
(* each takes from the moment it asks for a connection to the end of its   *)
(* transaction, and what it waits for meanwhile.                           *)
(*                                                                         *)
(* A handler is a series of transactions, single statements and calls of   *)
(* the store, with nothing held between one and the next.  A slot runs one *)
(* such part after another, in any order, so it runs every handler.        *)
(* The steps of a part:                                                    *)
(*                                                                         *)
(*   conn    acquire a connection                                          *)
(*   lock    SELECT .. FOR UPDATE on a session row                         *)
(*   share   FOR KEY SHARE on a session row, by the foreign key of a new   *)
(*           row                                                           *)
(*   rows    lock other rows, keys being inserted included                 *)
(*   body    read the client's body            (no timeout)                *)
(*   put     PUT the object while the transaction is open                  *)
(*   store   read or delete objects            (no timeout)                *)
(*                                                                         *)
(* and after the last one the commit gives back the connection and the     *)
(* locks.  Which rows a statement locks, in which mode and in which order, *)
(* is left open: any that the transaction has not locked yet.  That covers *)
(* the users row of an added participant, the rows and keys of a batch,    *)
(* what a cascade deletes and all the others.                              *)
(*                                                                         *)
(* The pool hands its connections out in the order they were asked for,    *)
(* and gives up on a request that has waited for 30 seconds.               *)
(***************************************************************************)
EXTENDS Integers, Sequences, FiniteSets, SequencesExt

CONSTANTS
    Slots,        \* request slots of the server; one of them may be the reaper
    SessionIds,   \* session rows
    Rows,         \* rows of the other tables, and keys of their indexes
    Modes,        \* modes in which those are locked
    Size          \* max_connections (10)

ASSUME SizeAssumption == Size \in Nat \ {0}

\* FOR KEY SHARE, FOR NO KEY UPDATE (an UPDATE), and FOR UPDATE (a DELETE, a
\* key being inserted).
ASSUME ModesAssumption == Modes \subseteq {"share", "nokey", "excl"}

VARIABLES
    req,      \* the part each slot runs: the steps left, and what it holds
    queue     \* the slots that wait for a connection, in order

vars == <<req, queue>>

\* Mutant of Statement: the middleware keeps the connection of its lookup for
\* as long as the handler runs, which acquires its own.
Statement_KeepsConnection == <<"conn", "rows">>

\* A statement or transaction that locks no session: reads, the lookup of the
\* token, upserts of users and tokens, a new session, PATCH and DELETE of a
\* row, the audit log, the reaper.
Statement == <<"rows">>

\* Rows that refer to a session: participants, batches, mutes, metadata,
\* consent tokens.  A foreign key is checked after its row is in, and a batch
\* goes on to the next row.
Insert == <<"rows", "share", "rows">>

\* patch and resume
Patch == <<"lock", "rows">>

\* upload: the placeholder row, then the object, then the row's key.
Upload == <<"lock", "body", "rows", "put">>

\* Mutant of Cascade: the objects are deleted before the commit.
Cascade_SweepsFirst == <<"lock", "rows", "store">>

\* delete_cascade; the sweep follows the commit.
Cascade == <<"lock", "rows">>

\* Mutant of Wipe: mark_wiped takes a connection before the commit.
Wipe_MarksFirst == <<"rows", "conn", "rows">>

\* wipe_participant_audio: the deletes; mark_wiped, the sweep and the guild's
\* lookup follow the commit.
Wipe == <<"rows">>

Transactions == {Statement, Insert, Patch, Upload, Cascade, Wipe}

\* A request that waits for a connection (which transaction it is for is left
\* open until it has one), and one that calls the store (download, a sweep).
Openings == {<<"conn">>, <<"store">>}

Idle == [steps |-> <<>>, conn |-> FALSE, holds |-> {}, wants |-> {}]

Init == req = [r \in Slots |-> Idle] /\ queue = <<>>

Active(r) == req[r].steps # <<>>
At(r, step) == Active(r) /\ Head(req[r].steps) = step

\* Mutant of After: the commit is a statement of its own, and the last step
\* gives the connection back without it.
After_LeavesOpen(q) ==
    IF Len(q.steps) = 1 THEN [q EXCEPT !.steps = <<>>, !.conn = FALSE]
    ELSE [q EXCEPT !.steps = Tail(@)]

\* The next step; after the last one, the commit.
After(q) == IF Len(q.steps) = 1 THEN Idle ELSE [q EXCEPT !.steps = Tail(@)]
Advance(r) == req' = [req EXCEPT ![r] = After(@)]
Finish(r) == req' = [req EXCEPT ![r] = Idle]

Begin(r) == \E steps \in Openings :
    /\ ~Active(r)
    /\ req' = [req EXCEPT ![r] = [Idle EXCEPT !.steps = steps]]
    /\ UNCHANGED queue

-----------------------------------------------------------------------------
(* The pool. *)

Queued(r) == \E i \in DOMAIN queue : queue[i] = r
Used == Cardinality({r \in Slots : req[r].conn})

Ask(r) ==
    /\ At(r, "conn") /\ ~Queued(r)
    /\ queue' = Append(queue, r)
    /\ UNCHANGED req

Served(r) == queue # <<>> /\ Head(queue) = r /\ Used < Size

Obtain(r) ==
    /\ Served(r)
    /\ queue' = Tail(queue)
    /\ \E steps \in IF Len(req[r].steps) = 1 THEN Transactions ELSE {Tail(req[r].steps)} :
          req' = [req EXCEPT ![r] = [@ EXCEPT !.steps = steps, !.conn = TRUE]]

Leave(r) ==
    \/ ~Queued(r) /\ UNCHANGED queue
    \/ \E i \in DOMAIN queue : queue[i] = r /\ queue' = RemoveAt(queue, i)

-----------------------------------------------------------------------------
(* The locks.  A transaction keeps each until it ends. *)

Locks == [row : Rows \cup SessionIds, mode : Modes \cup {"share", "excl"}]

Conflict(a, b) ==
    /\ a.row = b.row
    /\ a.mode = "excl" \/ b.mode = "excl" \/ (a.mode = "nokey" /\ b.mode = "nokey")

\* The locks that the request may ask for at its step.
Offered(r) ==
    {l \in Locks :
        \/ At(r, "lock") /\ l.row \in SessionIds /\ l.mode = "excl"
        \/ At(r, "share") /\ l.row \in SessionIds /\ l.mode = "share"
        \/ At(r, "rows") /\ l.row \in Rows /\ l.mode \in Modes
           /\ \A h \in req[r].holds : h.row # l.row}

Choose(r) ==
    /\ req[r].wants = {}
    /\ \E l \in Offered(r) : req' = [req EXCEPT ![r].wants = {l}]
    /\ UNCHANGED queue

\* It locks no other row at this step.
GoOn(r) ==
    /\ At(r, "rows") /\ req[r].wants = {}
    /\ Advance(r)
    /\ UNCHANGED queue

WaitsFor(r, x) ==
    x # r /\ \E a \in req[r].wants, b \in req[x].holds : Conflict(a, b)

\* PostgreSQL grants a key share past a FOR UPDATE that waits.
Granted(r) == req[r].wants # {} /\ \A x \in Slots : ~WaitsFor(r, x)

TakeLock(r) ==
    /\ Granted(r)
    /\ LET next == IF At(r, "rows") THEN req[r] ELSE After(req[r])
       IN  req' = [req EXCEPT ![r] = [next EXCEPT !.holds = @ \cup req[r].wants, !.wants = {}]]
    /\ UNCHANGED queue

\* Requests that wait for each other.
Circle(group) == group # {} /\ \A r \in group : \E x \in group : WaitsFor(r, x)
Circles == {group \in SUBSET {r \in Slots : req[r].wants # {}} : Circle(group)}

\* deadlock_timeout: the database breaks a circle by an error in one of them.
DeadlockVictim(r) ==
    /\ \E group \in Circles : r \in group /\ \A x \in group : group \ {x} \notin Circles
    /\ Finish(r)
    /\ UNCHANGED queue

-----------------------------------------------------------------------------
(* The outside world. *)

\* Waiting for the client or for S3, for as long as they like.
Uploads(r) == At(r, "body") \/ At(r, "put")
Stalled(r) == Uploads(r) \/ At(r, "store")

Reply(r) ==
    /\ Stalled(r)
    /\ Advance(r)
    /\ UNCHANGED queue

\* An error at any step, or the client goes away: the transaction is dropped,
\* and the connection goes back.
Die(r) ==
    /\ Active(r)
    /\ Finish(r)
    /\ Leave(r)

\* What the server and the database do by themselves, in no time compared to
\* the pool's 30 seconds.
Runs(r) == Ask(r) \/ Obtain(r) \/ Choose(r) \/ GoOn(r) \/ TakeLock(r) \/ DeadlockVictim(r)

Ready(r) ==
    \/ At(r, "conn") /\ ~Queued(r)
    \/ Served(r)
    \/ (At(r, "lock") \/ At(r, "share") \/ At(r, "rows")) /\ req[r].wants = {}
    \/ Granted(r)

\* So much time passes only when nobody is ready and no deadlock is left.
TimePasses == Circles = {} /\ \A r \in Slots : ~Ready(r)

\* acquire_timeout: a 500.
TimesOut(r) ==
    /\ Queued(r)
    /\ TimePasses
    /\ Finish(r)
    /\ Leave(r)

Next == \E r \in Slots :
    Begin(r) \/ Runs(r) \/ Reply(r) \/ Die(r) \/ TimesOut(r)

Spec == Init /\ [][Next]_vars

\* Handlers that can run are polled, a lock that stays free is granted, and
\* deadlocks are found.  Nothing makes a client send its body, S3 answer or
\* the pool give up; and nothing makes a lock free for who waits for it.
FairSpec == Spec /\ \A r \in Slots : WF_vars(Runs(r))

-----------------------------------------------------------------------------
\* Type invariant.  The pool never lends more than it has; who holds or wants
\* a lock has a connection, and no two requests hold locks that conflict.
TypeOK ==
    /\ req \in [Slots -> [steps : UNION {Suffixes(s) : s \in Transactions \cup Openings},
                          conn : BOOLEAN, holds : SUBSET Locks, wants : SUBSET Locks]]
    /\ queue \in Seq(Slots)
    /\ \A r \in Slots :
          /\ ~Active(r) => req[r] = Idle
          /\ req[r].holds \cup req[r].wants # {} => req[r].conn
          /\ Queued(r) => At(r, "conn")
          /\ \A x \in Slots \ {r} :
                \A a \in req[r].holds, b \in req[x].holds : ~Conflict(a, b)
    /\ Used <= Size

\* Nobody asks for a connection while it holds one, or any lock: the handlers
\* cannot exhaust the pool by waiting for each other.  This is why mark_wiped
\* and the guild's lookup come after the commit.
HoldersNeverQueue ==
    \A r \in Slots : At(r, "conn") => ~req[r].conn /\ req[r].holds = {}

\* The pool refuses a request only while every connection is with an upload
\* that awaits its body or its PUT, or with a request that waits for such an
\* upload, directly or through others: whatever group of the other requests
\* one takes, one of them waits for somebody outside the group.  So it is
\* never because of a sweep, and never when no upload is stalled.
RefusedOnlyByUploads ==
    (TimePasses /\ queue # <<>>) =>
        LET holders == {r \in Slots : req[r].conn}
            blocked == {r \in holders : ~Uploads(r)}
        IN  /\ Cardinality(holders) = Size
            /\ \A group \in SUBSET blocked : group # {} =>
                  \E r \in group, x \in holders \ group : WaitsFor(r, x)

\* Provided that no upload stalls for ever, nobody stays in the queue, without
\* any help of the acquire timeout.  It is not said that every request ends:
\* key shares that overlap can keep a FOR UPDATE waiting for as long as new
\* inserts arrive.
EveryoneIsServed ==
    (\A r \in Slots : []<>~Uploads(r)) => \A r \in Slots : []<>~Queued(r)
=============================================================================
