------------------------------ MODULE ChunkLog ------------------------------
(***************************************************************************)
(* What the upload endpoint promises the clients and subscribers of one    *)
(* session: an append-only log of chunks per participant, keyed by number  *)
(* and by client chunk id, that deletions cut; every chunk is announced at *)
(* most once, and an answer names a chunk of the log.  It knows nothing of *)
(* locks, retries, the object store or failures.                           *)
(* ChunkIngest is shown to implement it.                                   *)
(***************************************************************************)
EXTENDS Integers, Sequences, FiniteSets

CONSTANT Pids       \* pseudo ids of the participants

VARIABLES
    rows,       \* the chunks in the log: [pid, cid, seq]
    gen,        \* how often chunks of each participant were deleted
    pending,    \* chunks stored, with the gen of then, and not yet told
    announced,  \* the announcements, in order
    answers     \* the successful answers to uploads

vars == <<rows, gen, pending, announced, answers>>

Of(p) == {r \in rows : r.pid = p}

Init ==
    /\ rows = {} /\ pending = {} /\ answers = {}
    /\ announced = <<>>
    /\ gen = [p \in Pids |-> 0]

\* A new chunk: its client id is new, its number is above all others, and as
\* long as nothing was deleted the numbers are 0, 1, 2 .. without a hole.
Store == \E c \in rows' \ rows :
    /\ \A r \in Of(c.pid) : r.cid # c.cid /\ r.seq < c.seq
    /\ gen[c.pid] = 0 => c.seq = Cardinality(Of(c.pid))
    /\ rows' = rows \cup {c}
    /\ pending' = pending \cup {[chunk |-> c, gen |-> gen[c.pid]]}
    /\ UNCHANGED <<gen, announced, answers>>

\* The event and the answer of an upload; both, once.
Tell == \E t \in pending :
    /\ announced' = Append(announced, t)
    /\ answers' = answers \cup {t}
    /\ pending' = pending \ {t}
    /\ UNCHANGED <<rows, gen>>

\* The server forgets to tell: it crashed, or the client went away.
Forget == \E t \in pending :
    /\ pending' = pending \ {t}
    /\ UNCHANGED <<rows, gen, announced, answers>>

\* The answer to a retry names the row that is there; no event.
Repeat == \E r \in rows :
    /\ answers' = answers \cup {[chunk |-> r, gen |-> gen[r.pid]]}
    /\ UNCHANGED <<rows, gen, pending, announced>>

\* A wipe of one participant or the cascade over all: only rows of theirs go.
Erase == \E scope \in {{p} : p \in Pids} \cup {Pids} :
    /\ gen' = [p \in Pids |-> IF p \in scope THEN gen[p] + 1 ELSE gen[p]]
    /\ rows' \subseteq rows
    /\ \A r \in rows \ rows' : r.pid \in scope
    /\ UNCHANGED <<pending, announced, answers>>

Next == Store \/ Tell \/ Forget \/ Repeat \/ Erase

Spec == Init /\ [][Next]_vars
=============================================================================
