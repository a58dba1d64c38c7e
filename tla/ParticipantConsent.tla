-------------------------- MODULE ParticipantConsent --------------------------
(***************************************************************************)
(* Users, and the participants of one session with their consent: the rows *)
(* that src/db/participants.rs, consent_tokens.rs, users.rs and            *)
(* display_names.rs write, and the locks that PostgreSQL takes on them.    *)
(*                                                                         *)
(* A request is a plan of transactions.  Each locks rows one after the     *)
(* other, some of them through a foreign key at its end, and commits what  *)
(* it writes.  FOR KEY SHARE is "share", FOR NO KEY UPDATE is "update" and *)
(* FOR UPDATE (also the insert of a new key) is "excl".                    *)
(*                                                                         *)
(* Every request writes values of its own: a value is the number of the    *)
(* request that has named it, 0 the column's default.                      *)
(***************************************************************************)
EXTENDS Integers, Sequences, SequencesExt

CONSTANTS
    Handlers,     \* request slots of the server
    People,       \* pseudo ids
    Known,        \* those that were users before the model begins
    Joined,       \* those of them that were participants, each with a token
    Flags,        \* license flags: no_llm_training, no_public_release
    MaxBatch,     \* bound on the length of a batch
    MaxRequests   \* bound on the requests clients make

\* A pseudo id is 24 hex digits (ids.rs): there are finitely many.
ASSUME PeopleAssumption ==
    IsFiniteSet(People) /\ Joined \subseteq Known /\ Known \subseteq People
ASSUME BoundsAssumption == MaxBatch \in Nat /\ MaxRequests \in Nat

VARIABLES
    table,     \* the committed rows, by key
    tokens,    \* the participants <<key, id>> that have a live token
    req,       \* the request each handler serves
    requests,  \* the number of the last request
    log,       \* history: the committed writes, in commit order
    audit,     \* the requests that have an audit row
    answers    \* history: the answers of 200 and 4xx

vars == <<table, tokens, req, requests, log, audit, answers>>

User(w) == <<"user", w>>       \* users
Row(w)  == <<"row", w>>        \* session_participants
Name(w) == <<"name", w>>       \* user_display_names
Keys == {"user", "row", "name"} \X People
Session == <<"session", "session">>

\* consent_scope, with its consented_at, and the license flags are a
\* participant's choice; the other columns are the server's.
ConsentFields == {"scope"} \cup Flags
Fields == ConsentFields \cup {"mid_session_join", "data_wiped_at", "is_admin", "last_seen_at"}

Absent == [id |-> 0, vals |-> [f \in Fields |-> 0]]
Present(k) == table[k].id # 0
Ids == 1..(MaxRequests + 1)
Rows == [id : Ids, vals : [Fields -> 0..(MaxRequests + 1)]] \cup {Absent}

Want(k, m) == [key |-> k, mode |-> m, id |-> 0]

\* A transaction: the locks it takes, the columns it writes, and whether its
\* input is refused before it begins.
Tx(wants, names) == [wants |-> wants, names |-> names, bad |-> FALSE]

Idle == [pc |-> "idle", op |-> "cascade", plan |-> <<>>, todo |-> <<>>,
         held |-> {}, who |-> Session, id |-> 0, asked |-> {}, n |-> 0]

At(p, label) == req[p].pc = label
Finish(p) == req' = [req EXCEPT ![p] = Idle]

\* On to the next transaction of the plan; after the last, the audit row.
Load(q) == IF q.plan = <<>> THEN [q EXCEPT !.pc = "audit"]
           ELSE [q EXCEPT !.pc = "lock", !.todo = Head(q.plan).wants]

Answer(q, ok) == answers' = answers \cup {[by |-> q.n, ok |-> ok, asked |-> q.asked]}

Init ==
    /\ table = [k \in Keys |->
          IF (k[1] = "user" /\ k[2] \in Known) \/ (k[1] = "row" /\ k[2] \in Joined)
          THEN [Absent EXCEPT !.id = 1] ELSE Absent]
    /\ tokens = {<<Row(w), 1>> : w \in Joined}
    /\ req = [p \in Handlers |-> Idle]
    /\ requests = 1
    /\ log = <<>> /\ audit = {} /\ answers = {}

-----------------------------------------------------------------------------
(* Requests arrive. *)

Begin(p, q) ==
    /\ At(p, "idle")
    /\ requests <= MaxRequests
    /\ requests' = requests + 1
    /\ req' = [req EXCEPT ![p] = [q EXCEPT !.n = requests + 1]]
    /\ UNCHANGED <<table, tokens, log, audit, answers>>

Request(op, plan, asked) == [Idle EXCEPT !.op = op, !.plan = plan, !.asked = asked]

\* users::upsert and the CTE of participants::add assign the primary key,
\* for which DO UPDATE locks the user like FOR UPDATE.
Own(w) == Want(User(w), "excl")

BeginUser(p) == \E w \in People :
    Begin(p, Load(Request("user", <<Tx(<<Own(w)>>, {})>>, {})))

\* users::set_admin assigns is_admin only.
BeginAdmin(p) == \E w \in People :
    Begin(p, Load(Request("admin", <<Tx(<<Want(User(w), "upsert")>>, {"is_admin"})>>, {"is_admin"})))

\* post_display upserts the user before it looks at the input.
BeginDisplay(p) == \E w \in People, bad \in BOOLEAN :
    Begin(p, Load(Request("display",
        <<Tx(<<Own(w)>>, {}),
          [Tx(<<Want(Name(w), "upsert")>>, {"last_seen_at"}) EXCEPT !.bad = bad]>>,
        {"last_seen_at"})))

BeginAdd(p) == \E w \in People :
    Begin(p, Load(Request("add",
        <<Tx(<<Own(w), Want(Row(w), "upsert")>>, {"mid_session_join"})>>,
        {"mid_session_join"})))

\* add_many: the missing users, then the participants, in the order given.
BatchPlan(b) ==
    <<Tx([i \in DOMAIN b |-> Want(User(b[i]), "seed")]
            \o [i \in DOMAIN b |-> Want(Row(b[i]), "upsert")], {"mid_session_join"})>>

BeginBatch(p) == \E n \in 1..MaxBatch : \E b \in [1..n -> People] :
    Begin(p, Load(Request("batch", BatchPlan(b), {"mid_session_join"})))

\* UPDATE .. WHERE id: of the participant a client has learnt of.
Update(w, names) ==
    Tx(<<[key |-> Row(w), mode |-> "update", id |-> table[Row(w)].id]>>, names)

\* Mutant of Plan: the license is written before the scope is looked at.
Plan_LicenseFirst(w, names, bad) ==
    (IF names \cap Flags = {} THEN <<>> ELSE <<Update(w, names \cap Flags)>>)
    \o (IF "scope" \in names THEN <<[Update(w, {"scope"}) EXCEPT !.bad = bad]>> ELSE <<>>)

\* The scope, if it is named, then the license, if some flag is.
Plan(w, names, bad) ==
    (IF "scope" \in names THEN <<[Update(w, {"scope"}) EXCEPT !.bad = bad]>> ELSE <<>>)
    \o (IF names \cap Flags = {} THEN <<>> ELSE <<Update(w, names \cap Flags)>>)

\* The consent or the license of a participant, by a service.
BeginPatch(p) == \E w \in People, names \in {{"scope"}} \cup SUBSET Flags, bad \in BOOLEAN :
    /\ Present(Row(w)) /\ (bad => "scope" \in names)
    /\ Begin(p, Load(Request("patch",
          IF names = {} THEN <<Update(w, {})>> ELSE Plan(w, names, bad), names)))

\* The same through a consent token, any of them at once.
BeginPublic(p) == \E w \in People, names \in SUBSET ConsentFields, bad \in BOOLEAN :
    /\ Present(Row(w)) /\ (bad => "scope" \in names)
    /\ Begin(p, [Request("public", Plan(w, names, bad), names) EXCEPT
                    !.pc = "token", !.who = Row(w), !.id = table[Row(w)].id])

\* A new token: the foreign keys of its row, in the order of the schema.
BeginToken(p) == \E w \in People :
    /\ Present(Row(w))
    /\ Begin(p, Load([Request("token",
          <<Tx(<<Want(Session, "share"),
                 [key |-> Row(w), mode |-> "share", id |-> table[Row(w)].id],
                 Want(User(w), "share")>>, {})>>, {})
          EXCEPT !.who = Row(w), !.id = table[Row(w)].id]))

\* participants::mark_wiped, after the rest of a wipe.
BeginWipe(p) == \E w \in People :
    Begin(p, Load(Request("wipe", <<Tx(<<Want(Row(w), "touch")>>, {"data_wiped_at"})>>, {})))

\* Mutant of Cascade: the participants go before the session is locked.
Cascade_DeletesFirst ==
    Tx([i \in 1..Cardinality({w \in People : Present(Row(w))}) |->
            Want(SetToSeq({Row(w) : w \in {x \in People : Present(Row(x))}})[i], "excl")]
       \o <<Want(Session, "excl")>>, {})

\* The delete cascade of the session; the rows follow from its lock.
Cascade == Tx(<<Want(Session, "excl")>>, {})

BeginCascade(p) == Begin(p, Load(Request("cascade", <<Cascade>>, {})))

-----------------------------------------------------------------------------
(* Locks. *)

Taking(p) == At(p, "lock") /\ ~Head(req[p].plan).bad
Waits(p) == Taking(p) /\ req[p].todo # <<>>
Next1(p) == Head(req[p].todo)

\* An UPDATE by id, or a foreign key, that finds its row gone.
Gone(want) == want.id # 0 /\ want.id # table[want.key].id
Missing(p) == Gone(Next1(p))

\* What is taken of a row: nothing, if there is nothing to insert or update.
Grant(want) ==
    CASE Gone(want)             -> {}
      [] want.mode = "upsert" -> {[key |-> want.key,
                                   mode |-> IF Present(want.key) THEN "update" ELSE "excl"]}
      [] want.mode = "seed"   -> IF Present(want.key) THEN {}
                                 ELSE {[key |-> want.key, mode |-> "excl"]}
      [] want.mode = "touch"  -> IF Present(want.key)
                                 THEN {[key |-> want.key, mode |-> "update"]} ELSE {}
      [] OTHER                -> {[key |-> want.key, mode |-> want.mode]}

Conflict(a, b) ==
    a.key = b.key /\ (a.mode = "excl" \/ b.mode = "excl" \/ (a.mode = "update" /\ b.mode = "update"))

Blockers(p) ==
    {h \in Handlers \ {p} : \E a \in Grant(Next1(p)), b \in req[h].held : Conflict(a, b)}

\* DO UPDATE must not meet a row a second time.
Repeated(p) == Next1(p).mode = "upsert" /\ \E b \in req[p].held : b.key = Next1(p).key

\* What a granted lock makes the transaction lock later: the foreign keys of
\* a new row, and the participants that the cascade deletes, in any order.
Later(p) ==
    LET k == Next1(p).key IN
    CASE Next1(p).mode = "upsert" /\ ~Present(k) /\ k[1] = "row" ->
            {<<Want(Session, "share"), Want(User(k[2]), "share")>>}
      [] Next1(p).mode = "upsert" /\ ~Present(k) /\ k[1] = "name" ->
            {<<Want(User(k[2]), "share")>>}
      [] req[p].op = "cascade" /\ k = Session ->
            {[i \in DOMAIN s |-> Want(s[i], "excl")] :
                s \in SetToSeqs({Row(w) : w \in {x \in People : Present(Row(x))}})}
      [] OTHER -> {<<>>}

Lock(p) ==
    /\ Waits(p)
    /\ Blockers(p) = {} /\ ~Missing(p) /\ ~Repeated(p)
    /\ \E more \in Later(p) :
          req' = [req EXCEPT ![p].todo = Tail(@) \o more,
                             ![p].held = @ \cup Grant(Next1(p))]
    /\ UNCHANGED <<table, tokens, requests, log, audit, answers>>

\* 404 where a PATCH updates nothing.
NotFound(p) ==
    /\ Waits(p)
    /\ Missing(p) /\ req[p].op # "token"
    /\ Answer(req[p], FALSE)
    /\ Finish(p)
    /\ UNCHANGED <<table, tokens, requests, log, audit>>

\* Mutant of Refused: the early return leaves the transaction open.
Refused_KeepsLocks(p) ==
    /\ Waits(p)
    /\ (Missing(p) /\ req[p].op = "token") \/ Repeated(p)
    /\ req' = [req EXCEPT ![p] = [Idle EXCEPT !.held = req[p].held]]
    /\ UNCHANGED <<table, tokens, requests, log, audit, answers>>

\* A foreign key that fails, or a person named twice in a batch: a 500.
Refused(p) ==
    /\ Waits(p)
    /\ (Missing(p) /\ req[p].op = "token") \/ Repeated(p)
    /\ Finish(p)
    /\ UNCHANGED <<table, tokens, requests, log, audit, answers>>

\* A circle of handlers that wait for each other.
Circle(S) == S # {} /\ \A h \in S : Waits(h) /\ Blockers(h) \cap S # {}

\* The database aborts one of them: a 500.
DeadlockVictim(p) ==
    /\ \E S \in SUBSET Handlers : p \in S /\ Circle(S)
    /\ Finish(p)
    /\ UNCHANGED <<table, tokens, requests, log, audit, answers>>

\* 400: consent_scope or the source of a display name, before the statement.
BadInput(p) ==
    /\ At(p, "lock") /\ Head(req[p].plan).bad
    /\ Answer(req[p], FALSE)
    /\ Finish(p)
    /\ UNCHANGED <<table, tokens, requests, log, audit>>

-----------------------------------------------------------------------------
(* Validation of a consent token: its row, then its participant. *)

TokenFound(p) ==
    /\ At(p, "token")
    /\ <<req[p].who, req[p].id>> \in tokens
    /\ req' = [req EXCEPT ![p].pc = "context"]
    /\ UNCHANGED <<table, tokens, requests, log, audit, answers>>

TokenUnknown(p) ==
    /\ At(p, "token")
    /\ <<req[p].who, req[p].id>> \notin tokens
    /\ Answer(req[p], FALSE)
    /\ Finish(p)
    /\ UNCHANGED <<table, tokens, requests, log, audit>>

ReadContext(p) ==
    /\ At(p, "context")
    /\ req' = [req EXCEPT ![p] = IF table[req[p].who].id = req[p].id
                                 THEN Load(req[p]) ELSE Idle]
    /\ UNCHANGED <<table, tokens, requests, log, audit, answers>>

\* expires_at passes, at any moment.
Expire(t) ==
    /\ t \in tokens
    /\ tokens' = tokens \ {t}
    /\ UNCHANGED <<table, req, requests, log, audit, answers>>

-----------------------------------------------------------------------------
(* Commit and answer. *)

\* The rows p's transaction writes, and the columns of each.
Written(p) == {b.key : b \in {x \in req[p].held : x.mode # "share"}} \ {Session}
Columns(p, k) == IF k[1] = "user" /\ req[p].op # "admin" THEN {} ELSE Head(req[p].plan).names

\* Mutant of NewRow: DO UPDATE resets the columns it does not name.
NewRow_Resets(p, k) ==
    [id |-> IF Present(k) THEN table[k].id ELSE req[p].n,
     vals |-> [f \in Fields |-> IF f \in Columns(p, k) THEN req[p].n ELSE 0]]

\* COALESCE and DO UPDATE keep the columns that are not named.
NewRow(p, k) ==
    [id |-> IF Present(k) THEN table[k].id ELSE req[p].n,
     vals |-> [f \in Fields |-> IF f \in Columns(p, k) THEN req[p].n ELSE table[k].vals[f]]]

Change(p, k) == [key |-> k, id |-> NewRow(p, k).id, names |-> Columns(p, k), by |-> req[p].n]

Commit(p) ==
    /\ Taking(p) /\ req[p].todo = <<>>
    /\ req[p].op # "cascade"
    /\ table' = [k \in Keys |-> IF k \in Written(p) THEN NewRow(p, k) ELSE table[k]]
    /\ log' = log \o SetToSeq({Change(p, k) : k \in Written(p)})
    /\ tokens' = IF req[p].op = "token" THEN tokens \cup {<<req[p].who, req[p].id>>} ELSE tokens
    /\ LET q == [req[p] EXCEPT !.plan = Tail(@), !.held = {}] IN
       CASE req[p].op = "wipe"  -> Finish(p) /\ UNCHANGED <<audit, answers>>
         [] req[p].op = "admin" -> Finish(p) /\ audit' = audit \cup {q.n} /\ Answer(q, TRUE)
         [] OTHER -> req' = [req EXCEPT ![p] = Load(q)] /\ UNCHANGED <<audit, answers>>
    /\ UNCHANGED requests

\* Mutant of CommitCascade: consent_tokens without ON DELETE CASCADE.
CommitCascade_KeepsTokens(p) ==
    /\ Taking(p) /\ req[p].todo = <<>>
    /\ req[p].op = "cascade"
    /\ table' = [k \in Keys |-> IF k \in Written(p) THEN Absent ELSE table[k]]
    /\ audit' = audit \cup {req[p].n}
    /\ Answer(req[p], TRUE)
    /\ Finish(p)
    /\ UNCHANGED <<tokens, requests, log>>

\* The participants go, and with them their tokens.
CommitCascade(p) ==
    /\ Taking(p) /\ req[p].todo = <<>>
    /\ req[p].op = "cascade"
    /\ table' = [k \in Keys |-> IF k \in Written(p) THEN Absent ELSE table[k]]
    /\ tokens' = {t \in tokens : t[1] \notin Written(p)}
    /\ audit' = audit \cup {req[p].n}
    /\ Answer(req[p], TRUE)
    /\ Finish(p)
    /\ UNCHANGED <<requests, log>>

\* audit_log::append, a statement of its own, and the answer.
Audit(p) ==
    /\ At(p, "audit")
    /\ audit' = audit \cup {req[p].n}
    /\ Answer(req[p], TRUE)
    /\ Finish(p)
    /\ UNCHANGED <<table, tokens, requests, log>>

\* A statement fails, the client goes, the server dies.
Die(p) ==
    /\ ~At(p, "idle")
    /\ Finish(p)
    /\ UNCHANGED <<table, tokens, requests, log, audit, answers>>

-----------------------------------------------------------------------------
Step(p) ==
    \/ Lock(p) \/ NotFound(p) \/ Refused(p) \/ DeadlockVictim(p) \/ BadInput(p)
    \/ TokenFound(p) \/ TokenUnknown(p) \/ ReadContext(p)
    \/ Commit(p) \/ CommitCascade(p) \/ Audit(p)

Quiescent ==
    /\ \A p \in Handlers : At(p, "idle")
    /\ UNCHANGED vars

Next ==
    \/ \E p \in Handlers :
          \/ BeginUser(p) \/ BeginAdmin(p) \/ BeginDisplay(p)
          \/ BeginAdd(p) \/ BeginBatch(p) \/ BeginPatch(p) \/ BeginPublic(p)
          \/ BeginToken(p) \/ BeginWipe(p) \/ BeginCascade(p)
          \/ Step(p)
          \/ Die(p)
    \/ \E t \in tokens : Expire(t)
    \/ Quiescent

Spec == Init /\ [][Next]_vars

\* tokio polls the handlers, PostgreSQL wakes those who wait for a lock and
\* breaks deadlocks.
FairSpec == Spec /\ \A p \in Handlers : WF_vars(Step(p))

-----------------------------------------------------------------------------
Changes == [key : Keys, id : Ids, names : SUBSET Fields, by : Ids]

\* Type invariant, with the references that the schema keeps: a participant
\* is a user, and a live token's participant exists.
TypeOK ==
    /\ table \in [Keys -> Rows]
    /\ \A w \in People : Present(Row(w)) \/ Present(Name(w)) => Present(User(w))
    /\ \A t \in tokens : table[t[1]].id = t[2]
    /\ requests \in Ids
    /\ log \in Seq(Changes)
    /\ audit \subseteq Ids
    /\ answers \subseteq [by : Ids, ok : BOOLEAN, asked : SUBSET Fields]

\* The number of the last committed request that named field f of row k.
LastNamed(k, f) ==
    LET at == {i \in DOMAIN log : log[i].key = k /\ log[i].id = table[k].id /\ f \in log[i].names}
    IN  IF at = {} THEN 0 ELSE log[CHOOSE i \in at : \A j \in at : j <= i].by

\* Every column holds what was last named for it, whichever route, token or
\* service did, and whatever was written to the row's other columns since: to
\* add a participant again, or to mark it wiped, never takes a consent back
\* (db/participants.rs).
LastNamedWins ==
    \A k \in {x \in Keys : Present(x)} : \A f \in Fields : table[k].vals[f] = LastNamed(k, f)

\* An answer tells what was done: after a 200 every column the client named
\* was written and the audit row is there; after a 4xx none of the columns
\* was, unless the row is gone (routes/consent.rs, patch_consent, which
\* writes in two statements).
AnswerTellsEffect ==
    \A a \in answers :
        LET mine == {i \in DOMAIN log : log[i].by = a.by} IN
        IF a.ok THEN a.by \in audit /\ a.asked \subseteq UNION {log[i].names : i \in mine}
        ELSE \A i \in mine : log[i].names # {} => table[log[i].key].id # log[i].id

\* Requests wait for each other in a circle only if one of them is a batch:
\* add locks the user first, the cascade and the token the session.
DeadlocksNeedABatch ==
    \A S \in SUBSET Handlers : Circle(S) => \E h \in S : req[h].op = "batch"

\* Every request ends, also those that wait for each other.
RequestsFinish == \A p \in Handlers : []<>At(p, "idle")
=============================================================================
