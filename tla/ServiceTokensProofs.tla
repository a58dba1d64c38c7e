------------------------- MODULE ServiceTokensProofs -------------------------
(***************************************************************************)
(* Proofs about ServiceTokens for any tokens, any window and period, any   *)
(* bound on a DELETE's duration below the period and any number of         *)
(* failures.  Two arguments.  A lease is honoured because a row the DELETE *)
(* takes was silent for more than the window, and a heartbeat waits for    *)
(* the DELETE instead of touching such a row (GoneAreStale).  A stale row  *)
(* does not stay because the age of every row and the ticks left on the    *)
(* reaper's timer add up to no more than a period per attempt (OnSchedule).*)
(***************************************************************************)
EXTENDS ServiceTokens, TLAPS

\* Rows are of tokens handed out; their age is the time since they were heard.
AgesHeard ==
    /\ rows \subseteq issued
    /\ \A t \in issued : age[t] = heard[t]
    /\ \A t \in Tokens \ issued : heard[t] = AgeCap

\* A token whose row the reaper has deleted, or is about to, is a stale one.
GoneAreStale ==
    /\ reap.gone \subseteq rows /\ reap.todo \subseteq rows
    /\ \A t \in reap.gone : age[t] > Window
    /\ \A t \in issued \ rows : age[t] > Window

\* The timer was set when the DELETE began, and runs on during it.
TimerRuns ==
    /\ reap.on => up /\ wait + reap.delay = Period
    /\ ~reap.on => reap = Idle

\* A row the DELETE has passed over, or that is new since, was fresh when it
\* began.
Visited ==
    reap.on => \A t \in rows \ (reap.todo \cup reap.gone) : age[t] <= Window + reap.delay

\* The ticks granted to the rows by the attempts so far.
Granted(n) == Window + Period * (n + 1)

\* Every row is reaped in time: by the next DELETE, which begins when the
\* timer fires, or by the one that is running.
OnSchedule ==
    up /\ settled => \A t \in rows :
        IF reap.on THEN age[t] <= Granted(fails) + reap.delay
        ELSE age[t] + wait <= Granted(fails)

\* The inductive invariant.
IInv == TypeOK /\ AgesHeard /\ GoneAreStale /\ TimerRuns /\ Visited /\ OnSchedule

-----------------------------------------------------------------------------
(* Arithmetic of the bounds. *)

\* What the constants and the bounds over them are.
LEMMA Constants ==
    /\ Window \in Nat /\ Period \in Nat /\ Period > 0 /\ MaxDelay \in Nat /\ MaxFails \in Nat
    /\ MaxDelay < Period
    /\ AgeCap \in Nat /\ AgeCap > Window + MaxDelay
<1>1. Window \in Nat /\ Period \in Nat /\ Period > 0 /\ MaxDelay \in Nat /\ MaxFails \in Nat
      /\ MaxDelay < Period
  BY WindowAssumption, DelayAssumption, FailsAssumption
<1>2. PICK k \in Nat : k = Period * (MaxFails + 1)
  BY <1>1
<1>3. AgeCap = Window + k + MaxDelay + 1
  BY <1>2 DEF AgeCap
<1> QED BY <1>1, <1>2, <1>3

\* A failure grants one more period.
LEMMA Grants ==
    \A n \in Nat : /\ Granted(n) \in Nat /\ Granted(n) >= Window + Period
                   /\ Granted(n + 1) = Granted(n) + Period
<1> SUFFICES ASSUME NEW n \in Nat
             PROVE  /\ Granted(n) \in Nat /\ Granted(n) >= Window + Period
                    /\ Granted(n + 1) = Granted(n) + Period
  OBVIOUS
<1>1. Window \in Nat /\ Period \in Nat
  BY Constants
<1>2. PICK k \in Nat : k = Period * n
  BY <1>1
<1>3. Period * (n + 1) = k + Period /\ Period * (n + 1 + 1) = k + Period + Period
  BY <1>1, <1>2
<1> QED BY <1>1, <1>2, <1>3 DEF Granted

LEMMA Olders == \A n \in 0 .. AgeCap :
    /\ Older(n) \in 0 .. AgeCap
    /\ n <= Older(n) /\ Older(n) <= n + 1
    /\ n = AgeCap => Older(n) = AgeCap
BY Constants DEF Older

LEMMA IdleType ==
    /\ Idle.on = FALSE /\ Idle.delay = 0 /\ Idle.todo = {} /\ Idle.gone = {}
    /\ Idle \in [on : BOOLEAN, delay : 0 .. MaxDelay, todo : SUBSET Tokens, gone : SUBSET Tokens]
BY Constants DEF Idle

-----------------------------------------------------------------------------
LEMMA Initially == Init => IInv
<1> SUFFICES ASSUME Init PROVE IInv
  OBVIOUS
<1>1. TypeOK
  <2>1. 0 \in 0 .. AgeCap /\ AgeCap \in 0 .. AgeCap /\ 0 \in 0 .. Period /\ 0 \in 0 .. MaxFails
    BY Constants
  <2>2. /\ age \in [Tokens -> 0 .. AgeCap] /\ heard \in [Tokens -> 0 .. AgeCap]
        /\ wait \in 0 .. Period /\ fails \in 0 .. MaxFails
    BY <2>1 DEF Init
  <2>3. up \in BOOLEAN /\ settled \in BOOLEAN /\ rows \subseteq Tokens /\ issued \subseteq Tokens
    BY DEF Init
  <2> QED BY <2>2, <2>3, IdleType DEF Init, TypeOK
<1>2. AgesHeard
  BY DEF Init, AgesHeard
<1>3. GoneAreStale /\ TimerRuns /\ Visited /\ OnSchedule
  BY IdleType DEF Init, GoneAreStale, TimerRuns, Visited, OnSchedule
<1> QED BY <1>1, <1>2, <1>3 DEF IInv

\* A token is heard: its row is new, or is none the DELETE has taken.
LEMMA HeardStep ==
    ASSUME IInv, NEW t \in Tokens, t \notin reap.gone,
           rows' = rows \cup {t}, issued' = issued \cup {t}, t \in rows \/ t \notin issued,
           age' = [age EXCEPT ![t] = 0], heard' = [heard EXCEPT ![t] = 0],
           UNCHANGED <<up, wait, reap, fails, settled>>
    PROVE  IInv'
<1>0. /\ TypeOK /\ AgesHeard /\ GoneAreStale /\ TimerRuns /\ Visited /\ OnSchedule
      /\ age \in [Tokens -> 0 .. AgeCap] /\ heard \in [Tokens -> 0 .. AgeCap]
      /\ wait \in 0 .. Period /\ reap.delay \in 0 .. MaxDelay /\ fails \in Nat
  BY Constants DEF IInv, TypeOK
<1>1. /\ age'[t] = 0 /\ heard'[t] = 0
      /\ \A s \in Tokens \ {t} : age'[s] = age[s] /\ heard'[s] = heard[s]
  BY <1>0
<1>2. TypeOK'
  BY <1>0, Constants DEF TypeOK
<1>3. AgesHeard'
  BY <1>0, <1>1 DEF AgesHeard, TypeOK
<1>4. GoneAreStale'
  BY <1>0, <1>1 DEF GoneAreStale, TypeOK
<1>5. TimerRuns'
  BY <1>0 DEF TimerRuns
<1>6. Visited'
  <2>1. 0 <= Window + reap.delay
    BY <1>0, Constants
  <2> QED BY <1>0, <1>1, <2>1 DEF Visited, TypeOK
<1>7. OnSchedule'
  <2>1. 0 <= Granted(fails) + reap.delay /\ 0 + wait <= Granted(fails)
    BY <1>0, Constants, Grants
  <2> QED BY <1>0, <1>1, <2>1 DEF OnSchedule, TypeOK
<1> QED BY <1>2, <1>3, <1>4, <1>5, <1>6, <1>7 DEF IInv

\* The DELETE begins on a snapshot of the stale rows.
LEMMA ReapBeginsStep == ASSUME IInv, ReapBegins PROVE IInv'
<1> DEFINE todo == {t \in rows : Stale(t, 0)}
<1>0. /\ TypeOK /\ AgesHeard /\ GoneAreStale /\ OnSchedule
      /\ up /\ wait = 0 /\ ~reap.on /\ wait' = Period
      /\ reap' = [on |-> TRUE, delay |-> 0, todo |-> todo, gone |-> {}]
      /\ UNCHANGED <<rows, age, up, fails, issued, heard, settled>>
  BY DEF IInv, ReapBegins
<1>1. /\ age \in [Tokens -> 0 .. AgeCap] /\ rows \subseteq Tokens /\ fails \in Nat
      /\ todo \subseteq rows
  BY <1>0, Constants DEF TypeOK
<1>2. \A t \in rows \ todo : age[t] <= Window
  BY <1>1, Constants DEF Stale
<1> HIDE DEF todo
<1>3. reap'.on = TRUE /\ reap'.delay = 0 /\ reap'.todo = todo /\ reap'.gone = {}
  BY <1>0
<1>4. TypeOK'
  BY <1>0, <1>1, Constants DEF TypeOK
<1>5. AgesHeard'
  BY <1>0 DEF AgesHeard
<1>6. GoneAreStale'
  BY <1>0, <1>1, <1>3 DEF GoneAreStale
<1>7. TimerRuns'
  BY <1>0, <1>3, Constants DEF TimerRuns
<1>8. Visited'
  BY <1>0, <1>1, <1>2, <1>3, Constants DEF Visited
<1>9. OnSchedule'
  <2>1. \A t \in rows : up /\ settled => age[t] <= Granted(fails)
    BY <1>0, <1>1, Constants, Grants DEF OnSchedule
  <2>2. Granted(fails) + 0 = Granted(fails)
    BY <1>1, Grants
  <2> QED BY <1>0, <1>3, <2>1, <2>2 DEF OnSchedule, Granted
<1> QED BY <1>4, <1>5, <1>6, <1>7, <1>8, <1>9 DEF IInv

\* A row of the snapshot is tested again: only one that is stale is deleted.
LEMMA ReapRowStep == ASSUME IInv, NEW t \in Tokens, ReapRow(t) PROVE IInv'
<1>0. /\ TypeOK /\ AgesHeard /\ GoneAreStale /\ TimerRuns /\ Visited /\ OnSchedule
      /\ t \in reap.todo
      /\ UNCHANGED <<rows, age, up, wait, fails, issued, heard, settled>>
  BY DEF IInv, ReapRow
<1>1. /\ age[t] \in Nat /\ reap.delay \in Nat /\ t \in rows
      /\ reap \in [on : BOOLEAN, delay : 0 .. MaxDelay, todo : SUBSET Tokens,
                   gone : SUBSET Tokens]
  BY <1>0, Constants DEF TypeOK, GoneAreStale
<1>2. /\ reap'.on = reap.on /\ reap'.delay = reap.delay /\ reap'.todo = reap.todo \ {t}
      /\ reap' \in [on : BOOLEAN, delay : 0 .. MaxDelay, todo : SUBSET Tokens,
                    gone : SUBSET Tokens]
  BY <1>1 DEF ReapRow
<1>3. reap'.gone = IF Stale(t, reap.delay) THEN reap.gone \cup {t} ELSE reap.gone
  BY <1>1 DEF ReapRow
<1>4. reap.on
  BY <1>0, IdleType DEF TimerRuns
<1>5. TypeOK'
  BY <1>0, <1>2 DEF TypeOK
<1>6. AgesHeard'
  BY <1>0 DEF AgesHeard
<1>7. GoneAreStale'
  <2>1. Stale(t, reap.delay) => age[t] > Window
    BY <1>1, Constants DEF Stale
  <2> QED BY <1>0, <1>1, <1>2, <1>3, <2>1 DEF GoneAreStale
<1>8. TimerRuns'
  BY <1>0, <1>2, <1>4 DEF TimerRuns
<1>9. Visited'
  <2>1. ~Stale(t, reap.delay) => age[t] <= Window + reap.delay
    BY <1>1, Constants DEF Stale
  <2> QED BY <1>0, <1>2, <1>3, <2>1 DEF Visited
<1>10. OnSchedule'
  BY <1>0, <1>2 DEF OnSchedule, Granted
<1> QED BY <1>5, <1>6, <1>7, <1>8, <1>9, <1>10 DEF IInv

\* The deletions become visible; what is left was fresh when they began.
LEMMA ReapCommitsStep == ASSUME IInv, ReapCommits PROVE IInv'
<1>0. /\ TypeOK /\ AgesHeard /\ GoneAreStale /\ TimerRuns /\ Visited
      /\ reap.on /\ reap.todo = {} /\ rows' = rows \ reap.gone /\ reap' = Idle
      /\ fails' = 0 /\ settled' = TRUE
      /\ UNCHANGED <<age, up, wait, issued, heard>>
  BY DEF IInv, ReapCommits
<1>1. /\ \A t \in Tokens : age[t] \in Nat
      /\ rows \subseteq Tokens /\ reap.delay \in Nat /\ wait \in Nat
      /\ wait + reap.delay = Period
  BY <1>0, Constants DEF TypeOK, TimerRuns
<1>2. TypeOK'
  BY <1>0, Constants, IdleType DEF TypeOK
<1>3. AgesHeard'
  BY <1>0 DEF AgesHeard
<1>4. GoneAreStale'
  BY <1>0, IdleType DEF GoneAreStale
<1>5. TimerRuns' /\ Visited'
  BY <1>0, IdleType DEF TimerRuns, Visited
<1>6. OnSchedule'
  <2>1. \A t \in rows' : age[t] <= Window + reap.delay
    BY <1>0 DEF Visited
  <2>2. \A t \in rows' : age[t] + wait <= Window + Period
    <3>1. \A a \in Nat, d \in Nat, w \in Nat, x \in Nat, y \in Nat :
             a <= x + d /\ w + d = y => a + w <= x + y
      OBVIOUS
    <3> QED BY <1>0, <1>1, <2>1, <3>1, Constants
  <2>3. Granted(0) = Window + Period
    BY Constants DEF Granted
  <2> QED BY <1>0, <2>2, <2>3, IdleType DEF OnSchedule
<1> QED BY <1>2, <1>3, <1>4, <1>5, <1>6 DEF IInv

\* The DELETE is rolled back: the next attempt has one period more.
LEMMA ReapFailsStep == ASSUME IInv, ReapFails PROVE IInv'
<1>0. /\ TypeOK /\ AgesHeard /\ GoneAreStale /\ TimerRuns /\ OnSchedule
      /\ reap.on /\ reap' = Idle /\ fails < MaxFails /\ fails' = fails + 1
      /\ UNCHANGED <<rows, age, up, wait, issued, heard, settled>>
  BY DEF IInv, ReapFails
<1>1. PICK f \in Nat : f = fails /\ fails' = f + 1
  BY <1>0, Constants DEF TypeOK
<1>2. /\ \A t \in Tokens : age[t] \in Nat
      /\ rows \subseteq Tokens /\ reap.delay \in Nat /\ wait \in Nat
      /\ wait + reap.delay = Period
  BY <1>0, Constants DEF TypeOK, TimerRuns
<1>3. TypeOK'
  <2>1. f + 1 \in 0 .. MaxFails
    BY <1>0, <1>1, Constants
  <2> QED BY <1>0, <1>1, <2>1, IdleType DEF TypeOK
<1>4. AgesHeard'
  BY <1>0 DEF AgesHeard
<1>5. GoneAreStale'
  BY <1>0, IdleType DEF GoneAreStale
<1>6. TimerRuns' /\ Visited'
  BY <1>0, IdleType DEF TimerRuns, Visited
<1>7. OnSchedule'
  <2>1. Granted(f) \in Nat /\ Granted(f + 1) = Granted(f) + Period
    BY Grants
  <2>2. ASSUME up, settled, NEW t \in rows PROVE age[t] + wait <= Granted(f + 1)
    <3>1. age[t] <= Granted(f) + reap.delay
      BY <1>0, <1>1, <2>2 DEF OnSchedule
    <3>2. \A a \in Nat, d \in Nat, w \in Nat, x \in Nat, y \in Nat :
             a <= x + d /\ w + d = y => a + w <= x + y
      OBVIOUS
    <3> HIDE DEF Granted
    <3> QED BY <1>2, <2>1, <2>2, <3>1, <3>2, Constants
  <2> QED BY <1>0, <1>1, <2>2, IdleType DEF OnSchedule
<1> QED BY <1>3, <1>4, <1>5, <1>6, <1>7 DEF IInv

\* The process stops or starts: a DELETE rolls back, the rows stay.
LEMMA ProcessSteps == ASSUME IInv, Crash \/ Restart PROVE IInv'
<1>0. /\ TypeOK /\ AgesHeard /\ GoneAreStale /\ TimerRuns
      /\ UNCHANGED <<rows, age, issued, heard>>
  BY DEF IInv, Crash, Restart
<1>1. reap' = Idle /\ (up' => ~settled')
  BY <1>0 DEF TimerRuns, Crash, Restart
<1>2. TypeOK'
  <2>1. 0 \in 0 .. Period /\ 0 \in 0 .. MaxFails
    BY Constants
  <2>2. wait' \in 0 .. Period /\ fails' \in 0 .. MaxFails
    BY <1>0, <2>1 DEF TypeOK, Crash, Restart
  <2>3. up' \in BOOLEAN /\ settled' \in BOOLEAN
    BY <1>0 DEF TypeOK, Crash, Restart
  <2> QED BY <1>0, <1>1, <2>2, <2>3, IdleType DEF TypeOK
<1>3. AgesHeard'
  BY <1>0 DEF AgesHeard
<1>4. GoneAreStale'
  BY <1>0, <1>1, IdleType DEF GoneAreStale
<1>5. TimerRuns' /\ Visited' /\ OnSchedule'
  BY <1>1, IdleType DEF TimerRuns, Visited, OnSchedule
<1> QED BY <1>2, <1>3, <1>4, <1>5 DEF IInv

\* Time passes: rows age as the timer runs down.
LEMMA TickStep == ASSUME IInv, Tick PROVE IInv'
<1>0. /\ TypeOK /\ AgesHeard /\ GoneAreStale /\ TimerRuns /\ Visited /\ OnSchedule
      /\ UNCHANGED <<rows, up, fails, issued, settled>>
  BY DEF IInv, Tick
<1>1. /\ age \in [Tokens -> 0 .. AgeCap] /\ heard \in [Tokens -> 0 .. AgeCap]
      /\ rows \subseteq Tokens /\ issued \subseteq Tokens
      /\ wait \in 0 .. Period /\ fails \in Nat
      /\ reap \in [on : BOOLEAN, delay : 0 .. MaxDelay, todo : SUBSET Tokens,
                   gone : SUBSET Tokens]
  BY <1>0, Constants DEF TypeOK
<1>2. /\ age' \in [Tokens -> 0 .. AgeCap] /\ heard' \in [Tokens -> 0 .. AgeCap]
      /\ \A t \in Tokens : age'[t] = Older(age[t]) /\ heard'[t] = Older(heard[t])
  BY <1>1, Olders DEF Tick
<1>3. \A t \in Tokens : age[t] <= age'[t] /\ age'[t] <= age[t] + 1
  BY <1>1, <1>2, Olders
<1>4. PICK w \in 0 .. Period, v \in 0 .. Period :
         wait = w /\ wait' = v /\ (w # 0 => v + 1 = w)
  <2>1. PICK x \in 0 .. Period : wait = x
    BY <1>1
  <2> DEFINE y == IF x > 0 THEN x - 1 ELSE x
  <2>2. wait' = y
    BY <2>1 DEF Tick
  <2>3. y \in 0 .. Period /\ (x # 0 => y + 1 = x)
    BY Constants
  <2> HIDE DEF y
  <2> QED BY <2>1, <2>2, <2>3
<1>5. CASE reap.on
  <2>1. up /\ reap.delay < MaxDelay /\ wait + reap.delay = Period
    BY <1>0, <1>5 DEF TimerRuns, Tick
  <2>2. PICK d \in Nat : d = reap.delay /\ d + 1 \in 0 .. MaxDelay
    BY <1>1, <2>1, Constants
  <2>3. /\ reap'.on = TRUE /\ reap'.delay = d + 1 /\ reap'.todo = reap.todo
        /\ reap'.gone = reap.gone
        /\ reap' \in [on : BOOLEAN, delay : 0 .. MaxDelay, todo : SUBSET Tokens,
                      gone : SUBSET Tokens]
    BY <1>1, <1>5, <2>2 DEF Tick
  <2>4. TypeOK'
    BY <1>0, <1>2, <1>4, <2>3 DEF TypeOK
  <2>5. AgesHeard'
    BY <1>0, <1>1, <1>2, Olders, Constants DEF AgesHeard
  <2>6. GoneAreStale'
    BY <1>0, <1>1, <1>2, <1>3, <2>3, Constants DEF GoneAreStale
  <2>7. TimerRuns'
    <3>1. w + d = Period /\ w \in Nat /\ v \in Nat /\ w # 0 /\ v + 1 = w
      BY <1>4, <2>1, <2>2, Constants
    <3>2. v + (d + 1) = Period
      BY <2>2, <3>1, Constants
    <3>4. wait' + reap'.delay = Period
      BY <1>4, <2>3, <3>2
    <3> QED BY <1>0, <2>1, <2>3, <3>4 DEF TimerRuns
  <2>8. Visited'
    <3>1. \A t \in rows \ (reap.todo \cup reap.gone) : age[t] <= Window + d
      BY <1>0, <1>5, <2>2 DEF Visited
    <3>2. \A t \in rows \ (reap.todo \cup reap.gone) : age'[t] <= Window + (d + 1)
      BY <1>1, <1>2, <1>3, <3>1, Constants
    <3> QED BY <1>0, <2>3, <3>2 DEF Visited
  <2>9. OnSchedule'
    <3>1. up /\ settled => \A t \in rows : age[t] <= Granted(fails) + d
      BY <1>0, <1>5, <2>2 DEF OnSchedule
    <3>2. up /\ settled => \A t \in rows : age'[t] <= Granted(fails) + (d + 1)
      BY <1>1, <1>2, <1>3, <3>1, Grants
    <3> QED BY <1>0, <2>3, <3>2 DEF OnSchedule, Granted
  <2> QED BY <2>4, <2>5, <2>6, <2>7, <2>8, <2>9 DEF IInv
<1>6. CASE ~reap.on
  <2>1. reap' = Idle /\ reap = Idle
    BY <1>0, <1>6 DEF TimerRuns, Tick
  <2>2. TypeOK'
    BY <1>0, <1>2, <1>4, <2>1, IdleType DEF TypeOK
  <2>3. AgesHeard'
    BY <1>0, <1>1, <1>2, Olders, Constants DEF AgesHeard
  <2>4. GoneAreStale'
    BY <1>0, <1>1, <1>2, <1>3, <2>1, IdleType, Constants DEF GoneAreStale
  <2>5. TimerRuns' /\ Visited'
    BY <2>1, IdleType DEF TimerRuns, Visited
  <2>6. OnSchedule'
    <3>1. up => wait # 0
      BY <1>6 DEF Tick
    <3>2. up /\ settled => \A t \in rows : age[t] + wait <= Granted(fails)
      BY <1>0, <1>6 DEF OnSchedule
    <3>3. ASSUME up, settled, NEW t \in rows PROVE age'[t] + wait' <= Granted(fails)
      <4>1. \A a \in Nat, b \in Nat, c \in Nat, d \in Nat, g \in Nat :
               a + d <= g /\ b <= a + 1 /\ c + 1 = d => b + c <= g
        OBVIOUS
      <4>2. age[t] \in Nat /\ age'[t] \in Nat /\ age'[t] <= age[t] + 1
        BY <1>1, <1>2, <1>3, Constants
      <4>3. w \in Nat /\ v \in Nat /\ v + 1 = w
        BY <1>1, <1>4, <3>1, <3>3, Constants
      <4>4. Granted(fails) \in Nat /\ age[t] + w <= Granted(fails)
        BY <1>1, <1>4, <3>2, <3>3, Grants
      <4>5. age'[t] + v <= Granted(fails)
        BY <4>1, <4>2, <4>3, <4>4
      <4> QED BY <1>4, <4>5
    <3> QED BY <1>0, <2>1, <3>3, IdleType DEF OnSchedule, Granted
  <2> QED BY <2>2, <2>3, <2>4, <2>5, <2>6 DEF IInv
<1> QED BY <1>5, <1>6

-----------------------------------------------------------------------------
LEMMA Inductive == IInv /\ [Next]_vars => IInv'
<1> SUFFICES ASSUME IInv, [Next]_vars PROVE IInv'
  OBVIOUS
<1>0. TypeOK /\ AgesHeard /\ GoneAreStale
  BY DEF IInv
<1>1. ASSUME NEW t \in Tokens, Authenticate(t) PROVE IInv'
  <2>1. t \notin reap.gone
    BY <1>0, <1>1 DEF Authenticate, AgesHeard, GoneAreStale
  <2> QED BY <1>1, <2>1, HeardStep DEF Authenticate
<1>2. ASSUME NEW t \in Tokens, Heartbeat(t) PROVE IInv'
  <2>1. rows' = rows \cup {t} /\ issued' = issued \cup {t}
    BY <1>0, <1>2 DEF Heartbeat, AgesHeard
  <2> QED BY <1>2, <2>1, HeardStep DEF Heartbeat
<1>3. CASE UNCHANGED vars
  BY <1>3 DEF vars, IInv, TypeOK, AgesHeard, GoneAreStale, TimerRuns, Visited, OnSchedule, Granted
<1> QED BY <1>1, <1>2, <1>3, ReapBeginsStep, ReapRowStep, ReapCommitsStep, ReapFailsStep,
           ProcessSteps, TickStep DEF Next, Reaper

\* The invariant holds in every reachable state.
LEMMA Invariance == Spec => []IInv
BY Initially, Inductive, PTL DEF Spec

\* Type correctness: what the handlers and the reaper write is of the declared
\* types.
THEOREM TypeCorrect == Spec => []TypeOK
<1>1. IInv => TypeOK
  BY DEF IInv
<1> QED BY <1>1, Invariance, PTL

\* A service that was heard less than a window ago is admitted, even while the
\* reaper's DELETE is running on a snapshot in which its row was stale
\* (lookup_alive, touch and reap_expired in db/service_sessions.rs).
THEOREM LeasesHonoured == Spec => []LeaseHonoured
<1>1. IInv => LeaseHonoured
  <2> SUFFICES ASSUME IInv, NEW t \in Tokens, heard[t] < Window PROVE Admits(t)
    BY DEF LeaseHonoured
  <2>1. TypeOK /\ AgesHeard /\ GoneAreStale /\ heard[t] \in Nat
    BY Constants DEF IInv, TypeOK
  <2>2. t \in issued
    BY <2>1, Constants DEF AgesHeard
  <2>3. age[t] = heard[t]
    BY <2>1, <2>2 DEF AgesHeard
  <2>4. t \in rows
    BY <2>1, <2>2, <2>3, Constants DEF GoneAreStale
  <2> QED BY <2>3, <2>4 DEF Admits, Alive
<1> QED BY <1>1, Invariance, PTL

\* Once the reaper has caught up, no row outlives its window by more than one
\* period, one DELETE, and a period per failed attempt (auth/reaper.rs).
THEOREM StaleRowsGo == Spec => []StaleRowsBounded
<1>1. IInv => StaleRowsBounded
  <2> SUFFICES ASSUME IInv, up, settled, NEW t \in rows
               PROVE  age[t] <= Window + Period * (fails + 1) + MaxDelay
    BY DEF StaleRowsBounded
  <2>1. /\ age[t] \in Nat /\ reap.delay \in Nat /\ reap.delay <= MaxDelay /\ wait \in Nat
        /\ fails \in Nat
    BY Constants DEF IInv, TypeOK
  <2>2. age[t] <= Granted(fails) + reap.delay \/ age[t] + wait <= Granted(fails)
    BY DEF IInv, OnSchedule
  <2>3. Granted(fails) \in Nat
    BY <2>1, Grants
  <2>4. age[t] <= Granted(fails) + MaxDelay
    BY <2>1, <2>2, <2>3, Constants
  <2> QED BY <2>4 DEF Granted
<1> QED BY <1>1, Invariance, PTL

\* No step brings back the row of a token that has lost it: authentication
\* hands out fresh tokens, and a heartbeat only touches a row that exists.
THEOREM NeverRevived == Spec => ReapedForGood
<1>1. [Next]_vars => [\A t \in issued : t \notin rows => t \notin rows']_vars
  BY DEF Next, Reaper, Authenticate, Heartbeat, ReapBegins, ReapRow, ReapCommits, ReapFails,
         Crash, Restart, Tick, vars
<1> QED BY <1>1, PTL DEF Spec, ReapedForGood
=============================================================================
