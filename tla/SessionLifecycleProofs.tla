----------------------- MODULE SessionLifecycleProofs -----------------------
(***************************************************************************)
(* Proofs about SessionLifecycle for any number of handlers, any resume    *)
(* window and any bounds.  The argument is the row lock: whoever is        *)
(* between SELECT .. FOR UPDATE and its commit holds the lock, so the row  *)
(* it has read is still the row (FreshRead), and what it is about to write *)
(* is a legal successor of the row (LegalWrite).                           *)
(***************************************************************************)
EXTENDS SessionLifecycle, SequenceTheorems, TLAPS

\* The handler's transaction is open and has read the row.
InTx(p) == req[p].pc \in {"check", "commit"}

\* Whoever is inside its transaction holds the row lock.
LockHeld == \A p \in Handlers : InTx(p) => holder = p

\* What it has read is still the committed row, and there is one.
FreshRead ==
    \A p \in Handlers : InTx(p) => req[p].seen = row /\ row.status # "absent"

\* The check of a handler that is about to commit has passed.
LegalWrite ==
    \A p \in Handlers : req[p].pc = "commit" =>
        /\ req[p].op = "patch" => PatchAllowed(req[p])
        /\ req[p].op = "resume" => req[p].seen.status = "abandoned"

\* The inductive invariant.
IInv == TypeOK /\ LockHeld /\ FreshRead /\ LegalWrite /\ StampsTellStatus

-----------------------------------------------------------------------------
(* What a transaction writes is a row, and a row whose stamps tell its     *)
(* status when the row it has read is one.                                 *)

RowStamps(r) ==
    /\ r.status = "abandoned" => r.abandonedAt # Never
    /\ r.abandonedAt # Never => r.status \in {"abandoned", "deleted"}
    /\ (r.deletedAt # Never) <=> (r.status = "deleted")

\* Written never leaves the type of the row.
LEMMA WrittenType ==
    ASSUME NEW q \in Requests
    PROVE  Written(q) \in Rows
BY DEF Requests, Rows, Written, PatchedRow, UpdateStatus, ResumedRow, Ops, Never, Keep, Statuses

\* A write that passed its check keeps the stamps in step with the status.
LEMMA WrittenStamps ==
    ASSUME NEW q \in Requests, RowStamps(q.seen), q.seen.status # "absent",
           q.op = "patch" => PatchAllowed(q),
           q.op = "resume" => q.seen.status = "abandoned"
    PROVE  RowStamps(Written(q))
<1>1. CASE q.op = "patch"
  BY <1>1 DEF Requests, Rows, RowStamps, Written, PatchedRow, PatchAllowed,
              UpdateStatus, CanTransition, Never, Keep, Statuses
<1>2. CASE q.op = "resume"
  BY <1>2 DEF Requests, Rows, RowStamps, Written, ResumedRow, Never
<1>3. CASE q.op = "delete"
  BY <1>3 DEF Requests, Rows, RowStamps, Written, UpdateStatus, Never
<1>4. CASE q.op \notin {"patch", "resume", "delete"}
  BY <1>4 DEF Written
<1> QED BY <1>1, <1>2, <1>3, <1>4

\* Such a write is a step of the contract, or leaves the status alone.
LEMMA WrittenEdge ==
    ASSUME NEW q \in Requests, q.seen.status # "absent",
           q.op = "patch" => PatchAllowed(q),
           q.op = "resume" => q.seen.status = "abandoned"
    PROVE  \/ Written(q).status = q.seen.status
           \/ Written(q).status \in Statuses /\ CanTransition(q.seen.status, Written(q).status)
           \/ q.seen.status = "abandoned" /\ Written(q).status = "recording"
           \/ q.seen.status \in Statuses /\ Written(q).status = "deleted"
<1>1. CASE q.op = "patch"
  BY <1>1 DEF Requests, Rows, Written, PatchedRow, PatchAllowed, UpdateStatus, Keep
<1>2. CASE q.op = "resume"
  BY <1>2 DEF Requests, Rows, Written, ResumedRow
<1>3. CASE q.op = "delete"
  BY <1>3 DEF Requests, Rows, Written, UpdateStatus
<1>4. CASE q.op \notin {"patch", "resume", "delete"}
  BY <1>4 DEF Written
<1> QED BY <1>1, <1>2, <1>3, <1>4

-----------------------------------------------------------------------------
\* The values a row and a handler start from are of their types.
LEMMA InitialTypes == Idle \in Requests /\ NoRow \in Rows
BY DEF NoRow, Rows, Requests, Idle, Never, Keep, Ops, Statuses

\* Type correctness of every variable of the sessions component.
THEOREM TypeCorrect == Spec => []TypeOK
<1>1. Init => TypeOK
  <2>1. <<>> \in Seq(LogEntry) /\ <<>> \in Seq(EventEntry)
    BY EmptySeq
  <2>2. Init => req \in [Handlers -> Requests]
    BY InitialTypes DEF Init
  <2>3. Init => log \in Seq(LogEntry) /\ bus \in Seq(EventEntry)
    BY <2>1, Zenon DEF Init
  <2>4. Init => /\ now \in Nat /\ requests \in Nat
                /\ audit \subseteq Nat /\ lost \subseteq Nat
                /\ holder \in Handlers \cup {NoHandler}
    BY DEF Init
  <2>5. Init => row \in Rows
    BY InitialTypes, Zenon DEF Init
  <2> QED BY <2>2, <2>3, <2>4, <2>5, Zenon DEF TypeOK
<1>2. TypeOK /\ [Next]_vars => TypeOK'
  <2> SUFFICES ASSUME TypeOK, [Next]_vars PROVE TypeOK'
    OBVIOUS
  <2> USE DEF TypeOK, At, dbVars, outVars
  <2>0. Idle \in Requests /\ NoRow \in Rows
    BY InitialTypes
  <2>00. Len(log) + 1 \in Nat
    BY LenProperties
  <2>1. ASSUME NEW p \in Handlers, NEW o \in Ops, NEW t \in Statuses \cup {Keep},
               Begin(p, o, t)
        PROVE TypeOK'
    <3> DEFINE r == [Idle EXCEPT !.pc = IF o = "create" THEN "insert" ELSE "lock",
                                 !.op = o, !.target = t, !.began = now]
    <3>1. r \in Requests
      BY <2>0 DEF Requests
    <3>2. req' = [req EXCEPT ![p] = r]
      BY <2>1 DEF Begin
    <3> QED BY <2>1, <3>1, <3>2 DEF Begin
  <2>2. ASSUME NEW p \in Handlers, Insert(p) PROVE TypeOK'
    <3>1. row' \in Rows
      BY <2>2, <2>0 DEF Insert, Rows, NoRow, Statuses
    <3>2. log' \in Seq(LogEntry)
      BY <2>2 DEF Insert, LogEntry, Ops, Statuses
    <3>3. [req[p] EXCEPT !.pc = "audit", !.mine = Len(log) + 1] \in Requests
      BY <2>00 DEF Requests
    <3>4. req' = [req EXCEPT ![p] =
                   [req[p] EXCEPT !.pc = "audit", !.mine = Len(log) + 1]]
      BY <2>2 DEF Insert
    <3>5. req' \in [Handlers -> Requests]
      BY <3>3, <3>4
    <3> QED BY <2>2, <3>1, <3>2, <3>5 DEF Insert
  <2>3. ASSUME NEW p \in Handlers, InsertConflict(p) \/ NotFound(p) PROVE TypeOK'
    BY <2>3, <2>0 DEF InsertConflict, NotFound, Finish
  <2>4. ASSUME NEW p \in Handlers, AppendAudit(p) PROVE TypeOK'
    BY <2>4, <2>0 DEF AppendAudit, Finish, Requests
  <2>5. ASSUME NEW p \in Handlers, Lock(p) PROVE TypeOK'
    BY <2>5 DEF Lock, Requests
  <2>6. ASSUME NEW p \in Handlers, Write(p) PROVE TypeOK'
    BY <2>6 DEF Write, Goto, Requests
  <2>7. ASSUME NEW p \in Handlers, Refuse(p) PROVE TypeOK'
    BY <2>7, <2>0 DEF Refuse, Finish
  <2>8. ASSUME NEW p \in Handlers, Commit(p) PROVE TypeOK'
    <3>1. Written(req[p]) \in Rows
      BY WrittenType
    <3>2. log' \in Seq(LogEntry)
      BY <2>8, <3>1 DEF Commit, LogEntry, Rows, Requests
    <3>3. req' \in [Handlers -> Requests]
      <4>1. [req[p] EXCEPT !.pc = "send", !.mine = Len(log) + 1] \in Requests
        BY <2>00 DEF Requests
      <4>2. \/ req' = [req EXCEPT ![p] =
                        [req[p] EXCEPT !.pc = "send", !.mine = Len(log) + 1]]
            \/ req' = [req EXCEPT ![p] = Idle]
        BY <2>8 DEF Commit, Finish
      <4> QED BY <4>1, <4>2, <2>0
    <3>4. audit' \subseteq Nat
      BY <2>8, <2>00 DEF Commit
    <3> QED BY <2>8, <3>1, <3>2, <3>3, <3>4 DEF Commit
  <2>9. ASSUME NEW p \in Handlers, CommitContent(p) PROVE TypeOK'
    BY <2>9, <2>0 DEF CommitContent, Finish
  <2>10. ASSUME NEW p \in Handlers, Send(p) PROVE TypeOK'
    <3>1. Written(req[p]) \in Rows
      BY WrittenType
    <3>2. bus' \in Seq(EventEntry)
      BY <2>10, <3>1 DEF Send, EventEntry, Rows, Requests
    <3> QED BY <2>10, <2>0, <3>2 DEF Send, Finish
  <2>11. ASSUME NEW p \in Handlers, Die(p) PROVE TypeOK'
    <3>1. req[p].mine \in Nat
      BY DEF Requests
    <3>2. lost' \subseteq Nat
      BY <2>11, <3>1 DEF Die
    <3> QED BY <2>11, <3>2, <2>0 DEF Die, Finish
  <2>12. CASE Tick
    BY <2>12 DEF Tick
  <2>13. CASE UNCHANGED vars
    BY <2>13 DEF vars
  <2> QED
    BY <2>1, <2>2, <2>3, <2>4, <2>5, <2>6, <2>7, <2>8, <2>9, <2>10, <2>11,
       <2>12, <2>13 DEF Next, Step, Quiescent
<1> QED BY <1>1, <1>2, PTL DEF Spec

-----------------------------------------------------------------------------
\* The inductive step: no action of any handler breaks the lock discipline
\* or the stamps of the row.
LEMMA InductiveStep ==
    ASSUME IInv, TypeOK', [Next]_vars
    PROVE  LockHeld' /\ FreshRead' /\ LegalWrite' /\ StampsTellStatus'
<1> USE DEF IInv, LockHeld, FreshRead, LegalWrite, InTx, At
<1>0. TypeOK /\ LockHeld /\ FreshRead /\ LegalWrite /\ StampsTellStatus
  OBVIOUS
<1> HIDE DEF IInv
<1>a. req \in [Handlers -> Requests] /\ NoHandler \notin Handlers
  BY <1>0, HandlersAssumption DEF TypeOK
<1>1. ASSUME NEW p \in Handlers, NEW o \in Ops, NEW t \in Statuses \cup {Keep},
             Begin(p, o, t)
      PROVE  LockHeld' /\ FreshRead' /\ LegalWrite' /\ StampsTellStatus'
  <2>1. /\ \A q \in Handlers \ {p} : req'[q] = req[q]
        /\ req'[p].pc \in {"insert", "lock"}
        /\ row' = row /\ holder' = holder
    BY <1>1, <1>a DEF Begin, Idle, dbVars
  <2> QED BY <2>1, <1>0 DEF StampsTellStatus, PatchAllowed
<1>2. ASSUME NEW p \in Handlers, Insert(p)
      PROVE  LockHeld' /\ FreshRead' /\ LegalWrite' /\ StampsTellStatus'
  <2>1. /\ \A q \in Handlers \ {p} : req'[q] = req[q]
        /\ req'[p].pc = "audit"
        /\ holder' = holder
        /\ row' = [NoRow EXCEPT !.status = "recording"]
        /\ \A q \in Handlers : ~InTx(q)
    BY <1>2, <1>0, <1>a DEF Insert, Requests
  <2>2. StampsTellStatus'
    BY <2>1 DEF StampsTellStatus, NoRow
  <2> QED BY <2>1, <2>2, <1>0 DEF PatchAllowed
<1>3. ASSUME NEW p \in Handlers,
             \/ InsertConflict(p) \/ NotFound(p) \/ AppendAudit(p) \/ Send(p)
      PROVE  LockHeld' /\ FreshRead' /\ LegalWrite' /\ StampsTellStatus'
  <2>1. /\ \A q \in Handlers \ {p} : req'[q] = req[q]
        /\ req'[p].pc = "idle"
        /\ row' = row /\ holder' = holder
    BY <1>3, <1>a DEF InsertConflict, NotFound, AppendAudit, Send, Finish, Idle, dbVars
  <2> QED BY <2>1, <1>0 DEF StampsTellStatus, PatchAllowed
<1>4. ASSUME NEW p \in Handlers, Lock(p)
      PROVE  LockHeld' /\ FreshRead' /\ LegalWrite' /\ StampsTellStatus'
  <2>1. /\ \A q \in Handlers \ {p} : req'[q] = req[q] /\ ~InTx(q)
        /\ req'[p].pc = "check" /\ req'[p].seen = row
        /\ row' = row /\ holder' = p /\ row.status # "absent"
    BY <1>4, <1>0, <1>a DEF Lock, LockFree, Requests
  <2> QED BY <2>1, <1>0 DEF StampsTellStatus, PatchAllowed
<1>5. ASSUME NEW p \in Handlers, Write(p)
      PROVE  LockHeld' /\ FreshRead' /\ LegalWrite' /\ StampsTellStatus'
  <2>1. /\ \A q \in Handlers \ {p} : req'[q] = req[q]
        /\ req'[p].pc = "commit" /\ req'[p].seen = req[p].seen
        /\ req'[p].op = req[p].op /\ req'[p].target = req[p].target
        /\ req[p].pc = "check"
        /\ row' = row /\ holder' = holder
    BY <1>5, <1>a DEF Write, Goto, Requests, dbVars
  <2>2. /\ req[p].op = "patch" => PatchAllowed(req[p])
        /\ req[p].op = "resume" => req[p].seen.status = "abandoned"
    BY <1>5 DEF Write, Allowed, ResumeAllowed
  <2> QED BY <2>1, <2>2, <1>0 DEF StampsTellStatus, PatchAllowed
<1>6. ASSUME NEW p \in Handlers, Refuse(p)
      PROVE  LockHeld' /\ FreshRead' /\ LegalWrite' /\ StampsTellStatus'
  <2>1. /\ \A q \in Handlers \ {p} : req'[q] = req[q] /\ ~InTx(q)
        /\ req'[p].pc = "idle"
        /\ row' = row
    BY <1>6, <1>0, <1>a DEF Refuse, Finish, Idle
  <2> QED BY <2>1, <1>0 DEF StampsTellStatus, PatchAllowed
<1>7. ASSUME NEW p \in Handlers, Commit(p)
      PROVE  LockHeld' /\ FreshRead' /\ LegalWrite' /\ StampsTellStatus'
  <2>1. /\ \A q \in Handlers \ {p} : req'[q] = req[q] /\ ~InTx(q)
        /\ req'[p].pc \in {"send", "idle"}
        /\ row' = Written(req[p])
    BY <1>7, <1>0, <1>a DEF Commit, Finish, Idle, Requests
  <2>2. /\ req[p] \in Requests
        /\ RowStamps(req[p].seen) /\ req[p].seen.status # "absent"
        /\ req[p].op = "patch" => PatchAllowed(req[p])
        /\ req[p].op = "resume" => req[p].seen.status = "abandoned"
    BY <1>7, <1>0, <1>a DEF Commit, RowStamps, StampsTellStatus
  <2>3. RowStamps(Written(req[p]))
    BY <2>2, WrittenStamps
  <2>4. StampsTellStatus'
    BY <2>1, <2>3 DEF StampsTellStatus, RowStamps
  <2> QED BY <2>1, <2>4, <1>0 DEF PatchAllowed
<1>8. ASSUME NEW p \in Handlers, CommitContent(p)
      PROVE  LockHeld' /\ FreshRead' /\ LegalWrite' /\ StampsTellStatus'
  <2>1. /\ \A q \in Handlers \ {p} : req'[q] = req[q] /\ ~InTx(q)
        /\ req'[p].pc = "idle"
        /\ row' = row
    BY <1>8, <1>0, <1>a DEF CommitContent, Finish, Idle
  <2> QED BY <2>1, <1>0 DEF StampsTellStatus, PatchAllowed
<1>9. ASSUME NEW p \in Handlers, Die(p)
      PROVE  LockHeld' /\ FreshRead' /\ LegalWrite' /\ StampsTellStatus'
  <2>1. /\ \A q \in Handlers \ {p} : req'[q] = req[q] /\ (InTx(q) => holder' = holder)
        /\ req'[p].pc = "idle"
        /\ row' = row
    BY <1>9, <1>0, <1>a DEF Die, Finish, Idle
  <2> QED BY <2>1, <1>0 DEF StampsTellStatus, PatchAllowed
<1>10. CASE Tick \/ UNCHANGED vars
  <2>1. req' = req /\ row' = row /\ holder' = holder
    BY <1>10 DEF Tick, vars, dbVars
  <2> QED BY <2>1, <1>0 DEF StampsTellStatus, PatchAllowed
<1> QED
  BY <1>1, <1>2, <1>3, <1>4, <1>5, <1>6, <1>7, <1>8, <1>9, <1>10
     DEF Next, Step, Quiescent

\* The lock discipline and the stamps hold in every reachable state.
LEMMA Inductive == Spec => []IInv
<1>1. Init /\ TypeOK => IInv
  BY DEF Init, IInv, LockHeld, FreshRead, LegalWrite, InTx, StampsTellStatus, Idle, NoRow
<1>2. IInv /\ TypeOK' /\ [Next]_vars => IInv'
  BY InductiveStep DEF IInv
<1> QED BY <1>1, <1>2, TypeCorrect, PTL DEF Spec

\* The timestamps of the sessions row always tell its status; in particular
\* the resume handler never falls back to started_at.
THEOREM StampsCorrect == Spec => []StampsTellStatus
<1>1. IInv => StampsTellStatus
  BY DEF IInv
<1> QED BY <1>1, Inductive, PTL

-----------------------------------------------------------------------------
\* Every step of the handlers is a step of SessionContract, or leaves the
\* status of the session alone.
LEMMA StepRefines ==
    ASSUME IInv, [Next]_vars
    PROVE  [Contract!Next]_(row.status)
<1> DEFINE C == [Contract!Next]_(row.status)
<1> USE DEF Contract!Next, Contract!Create, Contract!Advance, Contract!Resume,
            Contract!Tombstone
<1>1. ASSUME NEW p \in Handlers, Insert(p) PROVE C
  BY <1>1 DEF Insert, NoRow
<1>2. ASSUME NEW p \in Handlers, Commit(p) PROVE C
  <2>1. /\ req[p] \in Requests /\ req[p].seen = row /\ row.status # "absent"
        /\ row' = Written(req[p])
        /\ req[p].op = "patch" => PatchAllowed(req[p])
        /\ req[p].op = "resume" => req[p].seen.status = "abandoned"
    BY <1>2 DEF Commit, IInv, TypeOK, FreshRead, LegalWrite, InTx, At
  <2>2. \/ row'.status = row.status
        \/ row'.status \in Statuses /\ CanTransition(row.status, row'.status)
        \/ row.status = "abandoned" /\ row'.status = "recording"
        \/ row.status \in Statuses /\ row'.status = "deleted"
    BY <2>1, WrittenEdge
  <2> QED BY <2>2 DEF Contract!CanTransition, Contract!Statuses, CanTransition, Statuses
<1>3. CASE row' = row
  BY <1>3
<1>4. \/ \E p \in Handlers : Insert(p) \/ Commit(p)
      \/ row' = row
  BY DEF Next, Step, Begin, InsertConflict, AppendAudit, Lock, NotFound, Write,
         Refuse, CommitContent, Send, Die, Tick, Quiescent, vars, dbVars
<1> QED BY <1>1, <1>2, <1>3, <1>4

\* The handlers of the sessions component implement the contract, however
\* many of them run and however they interleave, fail or wait.
THEOREM ImplementsContract == Spec => ContractSpec
<1>1. Init => Contract!Init
  BY DEF Init, NoRow, Contract!Init
<1>2. IInv /\ [Next]_vars => [Contract!Next]_(row.status)
  BY StepRefines
<1> QED BY <1>1, <1>2, Inductive, PTL DEF Spec, ContractSpec, Contract!Spec

-----------------------------------------------------------------------------
(* Events.  A handler at "send" is the link between a commit in `log` and  *)
(* the event it has not sent yet: it remembers the position of its commit, *)
(* and what it will send is what that commit wrote.                        *)

Sender(p) == req[p].pc = "send"

\* What a sender is about to send is what its commit did, and is not sent yet.
SendersTell ==
    \A p \in Handlers : Sender(p) =>
        /\ req[p].mine \in DOMAIN log
        /\ req[p].mine \notin Announced
        /\ log[req[p].mine].old = req[p].seen.status
        /\ log[req[p].mine].new = Written(req[p]).status

\* No two senders have the same commit.
SendersDiffer ==
    \A p, q \in Handlers :
        Sender(p) /\ Sender(q) /\ req[p].mine = req[q].mine => p = q

\* The inductive invariant of the events, on top of IInv.
EventInv == EventsTellCommits /\ EveryChangeAnnounced /\ SendersTell /\ SendersDiffer

\* A commit that is not announced has left the status alone.
LEMMA SilentCommit ==
    ASSUME NEW q \in Requests, ~Announces(q), q.op # "ingest"
    PROVE  Written(q).status = q.seen.status
BY DEF Requests, Rows, Announces, Written, PatchedRow, UpdateStatus, Ops, Keep

\* What an appended entry does to the log: the old positions stay.
LEMMA LogGrows ==
    ASSUME log \in Seq(LogEntry), log' \in Seq(LogEntry), NEW e, log' = Append(log, e)
    PROVE  /\ DOMAIN log' = DOMAIN log \cup {Len(log) + 1}
           /\ Len(log) + 1 \notin DOMAIN log
           /\ \A i \in DOMAIN log : log'[i] = log[i]
           /\ log'[Len(log) + 1] = e
BY LenProperties

\* The inductive step of the events.
LEMMA EventStep ==
    ASSUME IInv, TypeOK', EventInv, [Next]_vars
    PROVE  EventInv'
<1> USE DEF Sender, At
<1>0. EventsTellCommits /\ EveryChangeAnnounced /\ SendersTell /\ SendersDiffer
  BY DEF EventInv
<1>a. /\ req \in [Handlers -> Requests] /\ log \in Seq(LogEntry) /\ bus \in Seq(EventEntry)
      /\ log' \in Seq(LogEntry) /\ bus' \in Seq(EventEntry)
  BY DEF IInv, TypeOK
<1>1. ASSUME NEW p \in Handlers, log' = log, bus' = bus, lost' = lost,
             ~Sender(p), ~Sender(p)', \A q \in Handlers \ {p} : req'[q] = req[q]
      PROVE  EventInv'
  <2>1. \A q \in Handlers : Sender(q)' => Sender(q) /\ req'[q] = req[q]
    BY <1>1
  <2>2. SendersTell' /\ SendersDiffer'
    BY <1>1, <2>1, <1>0 DEF SendersTell, SendersDiffer, Announced
  <2>3. \A q \in Handlers : Sender(q) => Sender(q)' /\ req'[q] = req[q]
    BY <1>1
  <2>4. EveryChangeAnnounced'
    BY <1>1, <2>3, <1>0 DEF EveryChangeAnnounced, Announced
  <2> QED BY <1>1, <2>2, <2>4, <1>0 DEF EventInv, EventsTellCommits
<1>2. ASSUME NEW p \in Handlers, NEW e, log' = Append(log, e),
             bus' = bus, lost' = lost, ~Sender(p),
             \A q \in Handlers \ {p} : req'[q] = req[q],
             Sender(p)' => /\ req'[p].mine = Len(log) + 1
                           /\ e.old = req'[p].seen.status
                           /\ e.new = Written(req[p])'.status,
             ~Sender(p)' => e.op = "create" \/ e.old = e.new
      PROVE  EventInv'
  <2>1. /\ DOMAIN log' = DOMAIN log \cup {Len(log) + 1}
        /\ Len(log) + 1 \notin DOMAIN log
        /\ \A i \in DOMAIN log : log'[i] = log[i]
        /\ log'[Len(log) + 1] = e
    BY <1>2, <1>a, LogGrows
  <2>2. EventsTellCommits'
    BY <1>2, <2>1, <1>0 DEF EventsTellCommits
  <2>3. Announced' = Announced /\ Announced \subseteq DOMAIN log
    BY <1>2, <1>0 DEF Announced, EventsTellCommits
  <2>4. \A q \in Handlers \ {p} : Sender(q)' =>
            Sender(q) /\ req'[q] = req[q] /\ Written(req[q])' = Written(req[q])
    BY <1>2
  <2>5. SendersTell'
    BY <1>2, <2>1, <2>3, <2>4, <1>0 DEF SendersTell
  <2>6. SendersDiffer'
    BY <1>2, <2>1, <2>4, <1>0 DEF SendersTell, SendersDiffer
  <2>7. EveryChangeAnnounced'
    BY <1>2, <2>1, <2>3, <1>0 DEF EveryChangeAnnounced
  <2> QED BY <2>2, <2>5, <2>6, <2>7 DEF EventInv
<1>3. ASSUME NEW p \in Handlers, Send(p) PROVE EventInv'
  <2> DEFINE m == req[p].mine
             e == [old |-> req[p].seen.status, new |-> Written(req[p]).status,
                   commit |-> m]
  <2>1. /\ log' = log /\ lost' = lost
        /\ ~Sender(p)' /\ Sender(p)
        /\ \A q \in Handlers \ {p} : req'[q] = req[q]
    BY <1>3, <1>a DEF Send, Finish, Idle
  <2>2. /\ DOMAIN bus' = DOMAIN bus \cup {Len(bus) + 1}
        /\ Len(bus) + 1 \notin DOMAIN bus
        /\ \A i \in DOMAIN bus : bus'[i] = bus[i]
        /\ bus'[Len(bus) + 1] = e
    BY <1>3, <1>a, LenProperties DEF Send
  <2>3. Announced' = Announced \cup {m}
    BY <2>2 DEF Announced
  <2>4. /\ m \in DOMAIN log /\ m \notin Announced
        /\ log[m].old = e.old /\ log[m].new = e.new
    BY <2>1, <1>0 DEF SendersTell
  <2>5. \A i \in DOMAIN bus : bus[i].commit # m
    BY <2>4 DEF Announced
  <2>6. EventsTellCommits'
    BY <2>1, <2>2, <2>4, <2>5, <1>0 DEF EventsTellCommits
  <2>7. \A q \in Handlers : Sender(q)' =>
            Sender(q) /\ req'[q] = req[q] /\ req[q].mine # m /\ q # p
    BY <2>1, <1>0 DEF SendersDiffer
  <2>8. SendersTell' /\ SendersDiffer'
    BY <2>1, <2>3, <2>7, <1>0 DEF SendersTell, SendersDiffer
  <2>9. EveryChangeAnnounced'
    BY <2>1, <2>3, <1>0 DEF EveryChangeAnnounced
  <2> QED BY <2>6, <2>8, <2>9 DEF EventInv
<1>4. ASSUME NEW p \in Handlers, Die(p) PROVE EventInv'
  <2>1. /\ log' = log /\ bus' = bus
        /\ lost \subseteq lost' /\ (Sender(p) => req[p].mine \in lost')
        /\ \A q \in Handlers : Sender(q)' => Sender(q) /\ req'[q] = req[q]
        /\ \A q \in Handlers \ {p} : req'[q] = req[q]
    BY <1>4, <1>a DEF Die, Finish, Idle
  <2>2. SendersTell' /\ SendersDiffer'
    BY <2>1, <1>0 DEF SendersTell, SendersDiffer, Announced
  <2>3. EveryChangeAnnounced'
    BY <2>1, <1>0 DEF EveryChangeAnnounced, Announced
  <2> QED BY <2>1, <2>2, <2>3, <1>0 DEF EventInv, EventsTellCommits
<1>5. ASSUME NEW p \in Handlers, Insert(p) PROVE EventInv'
  <2>1. /\ ~Sender(p) /\ ~Sender(p)'
        /\ \A q \in Handlers \ {p} : req'[q] = req[q]
    BY <1>5, <1>a DEF Insert, Requests
  <2> QED BY <1>5, <2>1, <1>2 DEF Insert
<1>6. ASSUME NEW p \in Handlers, Commit(p) PROVE EventInv'
  <2> DEFINE e == [op |-> req[p].op, old |-> row.status,
                   new |-> Written(req[p]).status]
  <2>1. req[p].seen = row /\ req[p] \in Requests /\ req[p].op # "ingest"
    BY <1>6, <1>a DEF Commit, IInv, FreshRead, InTx
  <2>2. /\ ~Sender(p) /\ log' = Append(log, e) /\ bus' = bus /\ lost' = lost
        /\ \A q \in Handlers \ {p} : req'[q] = req[q]
    BY <1>6, <1>a DEF Commit, Finish
  <2>3. CASE Announces(req[p])
    <3>1. /\ req'[p].mine = Len(log) + 1 /\ req'[p].seen = req[p].seen
          /\ req'[p].op = req[p].op /\ req'[p].target = req[p].target
          /\ req'[p].began = req[p].began /\ Sender(p)'
      BY <1>6, <2>3, <1>a DEF Commit, Requests
    <3>2. Written(req[p])' = Written(req[p])
      BY <3>1 DEF Written, PatchedRow, UpdateStatus, ResumedRow
    <3> QED BY <2>1, <2>2, <3>1, <3>2, <1>2
  <2>4. CASE ~Announces(req[p])
    <3>1. ~Sender(p)'
      BY <1>6, <2>4, <1>a DEF Commit, Finish, Idle
    <3>2. e.old = e.new
      BY <2>1, <2>4, SilentCommit
    <3> QED BY <2>2, <3>1, <3>2, <1>2
  <2> QED BY <2>3, <2>4
<1>7. ASSUME NEW p \in Handlers, NEW o \in Ops, NEW t \in Statuses \cup {Keep},
             Begin(p, o, t)
      PROVE  EventInv'
  <2>1. /\ log' = log /\ bus' = bus /\ lost' = lost /\ ~Sender(p) /\ ~Sender(p)'
        /\ \A q \in Handlers \ {p} : req'[q] = req[q]
    BY <1>7, <1>a DEF Begin, Idle, outVars
  <2> QED BY <2>1, <1>1
<1>8. ASSUME NEW p \in Handlers,
             \/ InsertConflict(p) \/ AppendAudit(p) \/ Lock(p) \/ NotFound(p)
             \/ Write(p) \/ Refuse(p) \/ CommitContent(p)
      PROVE  EventInv'
  <2>1. /\ log' = log /\ bus' = bus /\ lost' = lost /\ ~Sender(p) /\ ~Sender(p)'
        /\ \A q \in Handlers \ {p} : req'[q] = req[q]
    BY <1>8, <1>a DEF InsertConflict, AppendAudit, Lock, NotFound, Write, Refuse,
         CommitContent, Goto, Finish, Idle, outVars, Requests
  <2> QED BY <2>1, <1>1
<1>9. CASE Tick \/ UNCHANGED vars
  <2>1. log' = log /\ bus' = bus /\ lost' = lost /\ req' = req
    BY <1>9 DEF Tick, vars, outVars
  <2> QED BY <2>1, <1>0 DEF EventInv, EventsTellCommits, EveryChangeAnnounced,
            SendersTell, SendersDiffer, Announced
<1> QED
  BY <1>3, <1>4, <1>5, <1>6, <1>7, <1>8, <1>9
     DEF Next, Step, Quiescent

\* The events hold together in every reachable state.
LEMMA EventsInductive == Spec => []EventInv
<1>1. Init => EventInv
  BY DEF Init, EventInv, EventsTellCommits, EveryChangeAnnounced, SendersTell,
         SendersDiffer, Sender, Idle
<1>2. IInv /\ TypeOK' /\ EventInv /\ [Next]_vars => EventInv'
  BY EventStep
<1> QED BY <1>1, <1>2, Inductive, TypeCorrect, PTL DEF Spec

\* An event tells the transition of one commit, and none is told twice,
\* although the handlers send their events after they gave up the row lock.
THEOREM EventsFaithful == Spec => []EventsTellCommits
<1>1. EventInv => EventsTellCommits
  BY DEF EventInv
<1> QED BY <1>1, EventsInductive, PTL

\* No commit that changed the status is forgotten by its handler: only the
\* death of the handler between its commit and its event loses one.
THEOREM ChangesAnnounced == Spec => []EveryChangeAnnounced
<1>1. EventInv => EveryChangeAnnounced
  BY DEF EventInv
<1> QED BY <1>1, EventsInductive, PTL
=============================================================================
