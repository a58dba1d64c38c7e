--------------------------- MODULE ServiceTokens ---------------------------
(***************************************************************************)
(* The session tokens of the services that call the API: handed out by     *)
(* POST /internal/auth, kept alive by POST /internal/heartbeat, looked up  *)
(* by the auth middleware and by the WebSocket upgrade, and deleted by the *)
(* background reaper (src/auth, src/routes/auth.rs,                        *)
(* src/db/service_sessions.rs).                                            *)
(*                                                                         *)
(* A row of service_sessions is its age: the ticks since last_seen_at.     *)
(* The reaper's DELETE is not one step: it fixes NOW() when it begins,     *)
(* visits the rows one by one, waits for a row that a heartbeat is writing *)
(* and tests it again, and all its deletions become visible together.     *)
(***************************************************************************)
EXTENDS Integers, FiniteSets

CONSTANTS
    Tokens,       \* session tokens (their hashes)
    Window,       \* HEARTBEAT_REAP_SECS, in ticks
    Period,       \* the reaper's period, in ticks: a third of Window or 5 s
    MaxDelay,     \* bound on the ticks that pass during one DELETE
    MaxFails      \* bound on consecutive failures of the reaper

ASSUME WindowAssumption == Window \in Nat /\ Period \in Nat \ {0}
ASSUME DelayAssumption == MaxDelay \in Nat /\ MaxDelay < Period
ASSUME FailsAssumption == MaxFails \in Nat

VARIABLES
    rows,      \* tokens that have a row
    age,       \* ticks since the row's last_seen_at, up to AgeCap
    up,        \* the process runs
    wait,      \* ticks until the reaper's timer fires
    reap,      \* the DELETE: its state, ticks since its NOW(), rows to visit
               \* and rows it has deleted but not committed
    fails,     \* failures of the reaper since it last succeeded, or since boot
    issued,    \* history: tokens handed out
    heard,     \* history: ticks since the token's last answered auth/heartbeat
    settled    \* history: the reaper has succeeded since the process started

vars == <<rows, age, up, wait, reap, fails, issued, heard, settled>>

\* The ages that the properties tell apart end here.
AgeCap == Window + Period * (MaxFails + 1) + MaxDelay + 1

Idle == [on |-> FALSE, delay |-> 0, todo |-> {}, gone |-> {}]

\* interval's first tick is immediate.
Init ==
    /\ rows = {} /\ issued = {}
    /\ age = [t \in Tokens |-> 0] /\ heard = [t \in Tokens |-> AgeCap]
    /\ up = TRUE /\ wait = 0 /\ reap = Idle
    /\ fails = 0 /\ settled = FALSE

-----------------------------------------------------------------------------
(* Requests. *)

\* POST /internal/auth: a fresh token, so never a conflict on its hash.
Authenticate(t) ==
    /\ up
    /\ t \notin issued
    /\ rows' = rows \cup {t}
    /\ issued' = issued \cup {t}
    /\ age' = [age EXCEPT ![t] = 0]
    /\ heard' = [heard EXCEPT ![t] = 0]
    /\ UNCHANGED <<up, wait, reap, fails, settled>>

\* Mutant of Heartbeat: the UPDATE becomes an upsert.
Heartbeat_Upserts(t) ==
    /\ up
    /\ t \in issued \ reap.gone
    /\ rows' = rows \cup {t}
    /\ age' = [age EXCEPT ![t] = 0]
    /\ heard' = [heard EXCEPT ![t] = 0]
    /\ UNCHANGED <<up, wait, reap, fails, issued, settled>>

\* POST /internal/heartbeat: touch() asks only that the row exist.  On a row
\* the reaper has deleted it waits for the DELETE to commit or roll back.
Heartbeat(t) ==
    /\ up
    /\ t \in rows \ reap.gone
    /\ age' = [age EXCEPT ![t] = 0]
    /\ heard' = [heard EXCEPT ![t] = 0]
    /\ UNCHANGED <<rows, up, wait, reap, fails, issued, settled>>

\* lookup_alive: last_seen_at > NOW() - window.
Alive(t) == t \in rows /\ age[t] < Window

\* require_service_auth (and the WebSocket upgrade): any other token gets a
\* 401.  A request does not extend the lease; only a heartbeat does.
Admits(t) == Alive(t)

-----------------------------------------------------------------------------
(* The reaper. *)

\* last_seen_at < NOW() - window, with the NOW() of `delay` ticks ago.
Stale(t, delay) == age[t] - delay > Window

\* Mutant of ReapBegins: the cadence is the window, as the comment in
\* reaper.rs has it, and not a third of it.
ReapBegins_EveryWindow ==
    /\ up /\ wait = 0 /\ ~reap.on
    /\ wait' = Window
    /\ reap' = [on |-> TRUE, delay |-> 0,
                todo |-> {t \in rows : Stale(t, 0)}, gone |-> {}]
    /\ UNCHANGED <<rows, age, up, fails, issued, heard, settled>>

\* The timer fires and the DELETE begins on a snapshot of the rows.
ReapBegins ==
    /\ up /\ wait = 0 /\ ~reap.on
    /\ wait' = Period
    /\ reap' = [on |-> TRUE, delay |-> 0,
                todo |-> {t \in rows : Stale(t, 0)}, gone |-> {}]
    /\ UNCHANGED <<rows, age, up, fails, issued, heard, settled>>

\* Mutant of ReapRow: a row found stale in the snapshot is deleted by its id.
ReapRow_WithoutRecheck(t) ==
    /\ t \in reap.todo
    /\ reap' = [reap EXCEPT !.todo = @ \ {t}, !.gone = @ \cup {t}]
    /\ UNCHANGED <<rows, age, up, wait, fails, issued, heard, settled>>

\* A row of the snapshot is locked and tested again as it now is.
ReapRow(t) ==
    /\ t \in reap.todo
    /\ reap' = [reap EXCEPT !.todo = @ \ {t},
                            !.gone = IF Stale(t, reap.delay) THEN @ \cup {t} ELSE @]
    /\ UNCHANGED <<rows, age, up, wait, fails, issued, heard, settled>>

ReapCommits ==
    /\ reap.on /\ reap.todo = {}
    /\ rows' = rows \ reap.gone
    /\ reap' = Idle
    /\ fails' = 0 /\ settled' = TRUE
    /\ UNCHANGED <<age, up, wait, issued, heard>>

\* A database error rolls the DELETE back; it is logged and the loop goes on.
ReapFails ==
    /\ reap.on
    /\ fails < MaxFails
    /\ fails' = fails + 1
    /\ reap' = Idle
    /\ UNCHANGED <<rows, age, up, wait, issued, heard, settled>>

-----------------------------------------------------------------------------
(* The process and time. *)

\* The process stops, the DELETE rolls back, the rows stay.
Crash ==
    /\ up
    /\ up' = FALSE
    /\ reap' = Idle
    /\ UNCHANGED <<rows, age, wait, fails, issued, heard, settled>>

\* main: the reaper starts with a timer that fires at once.
Restart ==
    /\ ~up
    /\ up' = TRUE
    /\ wait' = 0 /\ fails' = 0 /\ settled' = FALSE
    /\ UNCHANGED <<rows, age, reap, issued, heard>>

Older(n) == IF n < AgeCap THEN n + 1 ELSE n

\* The reaper's task runs promptly when its timer fires, and a DELETE takes
\* at most MaxDelay ticks.
Tick ==
    /\ up => IF reap.on THEN reap.delay < MaxDelay ELSE wait # 0
    /\ age' = [t \in Tokens |-> Older(age[t])]
    /\ heard' = [t \in Tokens |-> Older(heard[t])]
    /\ wait' = IF wait > 0 THEN wait - 1 ELSE wait
    /\ reap' = IF reap.on THEN [reap EXCEPT !.delay = @ + 1] ELSE reap
    /\ UNCHANGED <<rows, up, fails, issued, settled>>

Reaper ==
    \/ ReapBegins
    \/ \E t \in Tokens : ReapRow(t)
    \/ ReapCommits

Next ==
    \/ \E t \in Tokens : Authenticate(t) \/ Heartbeat(t)
    \/ Reaper \/ ReapFails
    \/ Crash \/ Restart
    \/ Tick

Spec == Init /\ [][Next]_vars

-----------------------------------------------------------------------------
\* Type invariant of the tokens and the reaper.
TypeOK ==
    /\ rows \subseteq Tokens /\ issued \subseteq Tokens
    /\ age \in [Tokens -> 0..AgeCap] /\ heard \in [Tokens -> 0..AgeCap]
    /\ up \in BOOLEAN /\ settled \in BOOLEAN
    /\ wait \in 0..Period
    /\ reap \in [on : BOOLEAN, delay : 0..MaxDelay,
                 todo : SUBSET Tokens, gone : SUBSET Tokens]
    /\ fails \in 0..MaxFails

\* A service whose last auth or heartbeat was answered less than Window ago
\* is admitted, whatever the reaper is doing and however often the process
\* was restarted.
LeaseHonoured == \A t \in Tokens : heard[t] < Window => Admits(t)

\* Once the reaper has caught up, the row of a silent service stays at most
\* one period (and one DELETE) beyond the window, plus a period per failure.
StaleRowsBounded ==
    (up /\ settled) =>
        \A t \in rows : age[t] <= Window + Period * (fails + 1) + MaxDelay

\* A token that was reaped never works again: heartbeat does not create rows.
ReapedForGood ==
    [][\A t \in issued : t \notin rows => t \notin rows']_vars
=============================================================================
