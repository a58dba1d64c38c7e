---------------------------- MODULE WsSubscriber ----------------------------
(***************************************************************************)
(* One WebSocket subscriber: the loop of src/routes/ws/session.rs, its     *)
(* drop-oldest queue, its subscriptions, and its receiver on the broadcast *)
(* channel that every handler sends events to (src/events.rs).             *)
(*                                                                         *)
(* A turn of the loop sends at most one queued event and then takes one    *)
(* branch of a biased select!: the first that is ready among               *)
(*                                                                         *)
(*   broadcast event  >  message of the peer  >  ping tick  >  pong deadline *)
(*                                                                         *)
(* The channel keeps the last Capacity events.  A receiver that falls      *)
(* further behind is told how many it lost and goes on with the oldest one *)
(* that is left.  An event is named by its position in `bus`.              *)
(***************************************************************************)
EXTENDS Integers, Sequences, FiniteSets

CONSTANTS
    Names,        \* event types
    Guilds,       \* guild ids
    SessionIds,   \* session ids
    AnyId,        \* a filter field that is absent
    Capacity,     \* capacity of the broadcast channel (4096)
    QueueDepth,   \* WS_QUEUE_DEPTH
    BurstLimit,   \* drops per minute that disconnect (10)
    PingPeriod,   \* PING_PERIOD, in ticks
    PongGrace,    \* PONG_GRACE, in ticks
    MaxBus,       \* bound on the events published
    MaxFrames     \* bound on the subscription frames the peer sends

ASSUME CapacityAssumption == Capacity \in Nat \ {0}
ASSUME DepthAssumption == QueueDepth \in Nat /\ BurstLimit \in Nat
ASSUME TimersAssumption ==
    PingPeriod \in Nat \ {0} /\ PongGrace \in Nat \ {0} /\ PongGrace < PingPeriod
ASSUME BoundsAssumption == MaxBus \in Nat /\ MaxFrames \in Nat

VARIABLES
    bus,       \* history: every event published so far
    next,      \* the receiver's position: the next event it has not read
    subs,      \* the subscription set
    q,         \* DropOldestQueue: positions of the queued events
    drops,     \* drops_in_window: events the queue dropped this minute
    pc,        \* where the task is: see Places
    inbox,     \* the peer's next message, if it has arrived
    frames,    \* subscription frames sent so far
    phase,     \* ticks until the ping timer fires again
    pingDue,   \* the ping timer has fired and was not polled since
    grace,     \* ticks until the pong deadline; NoDeadline when none is set
    sent,      \* history: positions of the events sent to the peer
    skipped,   \* history: positions that matched no subscription when read
    lost       \* history: positions overwritten before the receiver read them

NoDeadline == -1

\* At the top of the loop, in the select, awaiting one of the sends a branch
\* makes ("ping", "reply", or "goodbye" before it closes), or gone.
Places == {"top", "select", "ping", "reply", "goodbye", "closed"}

busVars   == <<bus, next>>
peerVars  == <<subs, inbox, frames>>
timerVars == <<phase, pingDue, grace>>
history   == <<sent, skipped, lost>>
vars == <<busVars, peerVars, q, drops, pc, timerVars, history>>

Events == [event : Names, guild : Guilds, session : SessionIds]
Filters == [guild : Guilds \cup {AnyId}, session : SessionIds \cup {AnyId}]
Subscriptions == [event : Names, filter : Filters]

\* What a peer can send.  "close" stands for a close frame, the end of the
\* stream and a read error; "other" for a ping and for text that does not
\* parse: both are only answered.
Messages ==
    [type : {"subscribe"}, names : SUBSET Names, filter : Filters]
    \cup [type : {"unsubscribe"}, names : SUBSET Names]
    \cup [type : {"pong", "close", "binary", "other"}]

NoMessage == [type |-> "none"]

\* The receiver is created when the connection starts: it sees the events
\* published from then on.  The first ping is due at once.
Init ==
    /\ bus = <<>> /\ next = 1
    /\ subs = {}
    /\ q = <<>> /\ drops = 0
    /\ pc = "top"
    /\ inbox = NoMessage /\ frames = 0
    /\ phase = PingPeriod /\ pingDue = TRUE /\ grace = NoDeadline
    /\ sent = <<>> /\ skipped = {} /\ lost = {}

-----------------------------------------------------------------------------
(* Producers and the peer. *)

\* state.events.send: never blocks, overwrites the oldest event when full.
Publish(e) ==
    /\ Len(bus) < MaxBus
    /\ bus' = Append(bus, e)
    /\ UNCHANGED <<next, peerVars, q, drops, pc, timerVars, history>>

PeerSends(m) ==
    /\ pc # "closed"
    /\ inbox = NoMessage
    /\ IF m.type \in {"subscribe", "unsubscribe"}
          THEN frames < MaxFrames /\ frames' = frames + 1
          ELSE frames' = frames
    /\ inbox' = m
    /\ UNCHANGED <<busVars, subs, q, drops, pc, timerVars, history>>

-----------------------------------------------------------------------------
(* The drop-oldest queue. *)

\* DropOldestQueue::new coerces a depth of 0 to 1.
Cap == IF QueueDepth > 0 THEN QueueDepth ELSE 1

Overflows(s) == Len(s) >= Cap

Push(s, e) == Append(IF Overflows(s) THEN Tail(s) ELSE s, e)

-----------------------------------------------------------------------------
(* The subscription set. *)

\* SubscriptionSet::matches
Matches(s, e) ==
    \E x \in s : /\ x.event = e.event
                 /\ x.filter.guild \in {AnyId, e.guild}
                 /\ x.filter.session \in {AnyId, e.session}

Subscribe(s, names, f) == s \cup {[event |-> n, filter |-> f] : n \in names}

Unsubscribe(s, names) == {x \in s : x.event \notin names}

-----------------------------------------------------------------------------
(* Top of the loop. *)

\* A send may wait for as long as the peer's TCP window is full.
Sending == (pc = "top" /\ q # <<>>) \/ pc \in {"ping", "reply", "goodbye"}

\* Mutant of SendNext: the loop goes back to the queue's front without
\* removing what it has sent.
SendNext_Peeks ==
    /\ pc = "top"
    /\ q # <<>>
    /\ sent' = Append(sent, Head(q))
    /\ pc' = "select"
    /\ UNCHANGED <<busVars, peerVars, q, drops, timerVars, skipped, lost>>

\* q.pop() and tx_sock.send(..).await: one event per turn of the loop.
SendNext ==
    /\ pc = "top"
    /\ q # <<>>
    /\ sent' = Append(sent, Head(q))
    /\ q' = Tail(q)
    /\ pc' = "select"
    /\ UNCHANGED <<busVars, peerVars, drops, timerVars, skipped, lost>>

\* The send fails: Closed::SendFailed.
SendFails ==
    /\ pc = "top"
    /\ q # <<>>
    /\ q' = Tail(q)
    /\ pc' = "closed"
    /\ UNCHANGED <<busVars, peerVars, drops, timerVars, history>>

\* Mutant of NothingQueued: the select may run before the queue is drained.
NothingQueued_OrBusy ==
    /\ pc = "top"
    /\ pc' = "select"
    /\ UNCHANGED <<busVars, peerVars, q, drops, timerVars, history>>

NothingQueued ==
    /\ pc = "top"
    /\ q = <<>>
    /\ pc' = "select"
    /\ UNCHANGED <<busVars, peerVars, q, drops, timerVars, history>>

-----------------------------------------------------------------------------
(* The branches of the select, in the order it polls them. *)

BusReady == next <= Len(bus)

\* The oldest position the channel still holds.
Oldest == IF Len(bus) > Capacity THEN Len(bus) - Capacity + 1 ELSE 1

\* event_rx.recv() returns an event: filter it and queue it.  An overflow
\* drops the queue's oldest event and counts, afresh when the last window is
\* over; more than BurstLimit drops in a window disconnect.
ReadEvent ==
    /\ pc = "select"
    /\ BusReady
    /\ next >= Oldest
    /\ next' = next + 1
    /\ IF Matches(subs, bus[next])
          THEN /\ q' = Push(q, next)
               /\ drops' \in IF Overflows(q) THEN {1, drops + 1} ELSE {drops}
               /\ pc' = IF Overflows(q) /\ drops' > BurstLimit
                          THEN "closed" ELSE "top"
               /\ skipped' = skipped
          ELSE /\ skipped' = skipped \cup {next}
               /\ pc' = "top"
               /\ UNCHANGED <<q, drops>>
    /\ UNCHANGED <<bus, peerVars, timerVars, sent, lost>>

\* Mutant of ReadLagged: the receiver keeps its position.
ReadLagged_Stays ==
    /\ pc = "select"
    /\ next < Oldest
    /\ lost' = lost \cup (next .. (Oldest - 1))
    /\ pc' = "top"
    /\ UNCHANGED <<busVars, peerVars, q, drops, timerVars, sent, skipped>>

\* recv() returns Lagged(n): n is counted in a metric, and that is all.
ReadLagged ==
    /\ pc = "select"
    /\ next < Oldest
    /\ lost' = lost \cup (next .. (Oldest - 1))
    /\ next' = Oldest
    /\ pc' = "top"
    /\ UNCHANGED <<bus, peerVars, q, drops, timerVars, sent, skipped>>

MessageReady == inbox # NoMessage

\* rx_sock.next(): only when no broadcast event is ready.
ReadMessage ==
    /\ pc = "select"
    /\ ~BusReady
    /\ MessageReady
    /\ inbox' = NoMessage
    /\ subs' = CASE inbox.type = "subscribe" ->
                       Subscribe(subs, inbox.names, inbox.filter)
                 [] inbox.type = "unsubscribe" -> Unsubscribe(subs, inbox.names)
                 [] OTHER -> subs
    /\ grace' = IF inbox.type = "pong" THEN NoDeadline ELSE grace
    /\ pc' = CASE inbox.type = "close"  -> "closed"
               [] inbox.type = "binary" -> "goodbye"
               [] inbox.type = "pong"   -> "top"
               [] OTHER                 -> "reply"
    /\ UNCHANGED <<busVars, frames, q, drops, phase, pingDue, history>>

\* The answer is sent; whether that worked is ignored.
Reply ==
    /\ pc \in {"reply", "goodbye"}
    /\ pc' = IF pc = "reply" THEN "top" ELSE "closed"
    /\ UNCHANGED <<busVars, peerVars, q, drops, timerVars, history>>

\* ping_timer.tick(): send a ping ...
PingTick ==
    /\ pc = "select"
    /\ ~BusReady /\ ~MessageReady
    /\ pingDue
    /\ pingDue' = FALSE
    /\ pc' = "ping"
    /\ UNCHANGED <<busVars, peerVars, q, drops, phase, grace, history>>

\* Mutant of PingSent: no deadline is set.
PingSent_NoDeadline ==
    /\ pc = "ping"
    /\ pc' = "top"
    /\ UNCHANGED <<busVars, peerVars, q, drops, timerVars, history>>

\* ... and, once it is sent, start the pong deadline.
PingSent ==
    /\ pc = "ping"
    /\ grace' = PongGrace
    /\ pc' = "top"
    /\ UNCHANGED <<busVars, peerVars, q, drops, phase, pingDue, history>>

\* The ping cannot be sent: Closed::PeerClosed.
PingFails ==
    /\ pc = "ping"
    /\ pc' = "closed"
    /\ UNCHANGED <<busVars, peerVars, q, drops, timerVars, history>>

\* wait_deadline: Closed::HealthcheckTimeout.
PongTimeout ==
    /\ pc = "select"
    /\ ~BusReady /\ ~MessageReady /\ ~pingDue
    /\ grace = 0
    /\ pc' = "closed"
    /\ UNCHANGED <<busVars, peerVars, q, drops, timerVars, history>>

-----------------------------------------------------------------------------
(* Time.  The loop runs promptly: a tick passes only while it waits, either *)
(* in the select with no branch ready or in a send.                        *)
Waiting ==
    \/ Sending
    \/ pc = "select" /\ ~BusReady /\ ~MessageReady /\ ~pingDue /\ grace # 0

CountDown == IF grace > 0 THEN grace - 1 ELSE grace

\* Mutant of Tick: the ping timer is not reset when it fires.
Tick_NoReset ==
    /\ Waiting
    /\ phase' = phase - 1
    /\ pingDue' = (pingDue \/ phase = 1)
    /\ grace' = CountDown
    /\ UNCHANGED <<busVars, peerVars, q, drops, pc, history>>

\* MissedTickBehavior::Skip: ticks that were not polled are not made up for,
\* and the timer keeps its phase.
Tick ==
    /\ Waiting
    /\ phase' = IF phase = 1 THEN PingPeriod ELSE phase - 1
    /\ pingDue' = (pingDue \/ phase = 1)
    /\ grace' = CountDown
    /\ UNCHANGED <<busVars, peerVars, q, drops, pc, history>>

Closed == pc = "closed" /\ UNCHANGED vars

Loop ==
    \/ SendNext \/ SendFails \/ NothingQueued
    \/ ReadEvent \/ ReadLagged \/ ReadMessage \/ Reply
    \/ PingTick \/ PingSent \/ PingFails \/ PongTimeout

Next ==
    \/ \E e \in Events : Publish(e)
    \/ \E m \in Messages : PeerSends(m)
    \/ Loop
    \/ Tick
    \/ Closed

\* The task is polled whenever it can run, and time passes.  Nothing makes
\* the peer read what it is sent.
Fairness == WF_vars(~Sending /\ Loop) /\ WF_vars(Tick)

Spec == Init /\ [][Next]_vars
FairSpec == Spec /\ Fairness

-----------------------------------------------------------------------------
\* Type invariant of the connection.
TypeOK ==
    /\ bus \in Seq(Events)
    /\ next \in Nat \ {0}
    /\ subs \subseteq Subscriptions
    /\ q \in Seq(Nat)
    /\ drops \in Nat
    /\ pc \in Places
    /\ inbox \in Messages \cup {NoMessage}
    /\ frames \in Nat
    /\ phase \in 1..PingPeriod
    /\ pingDue \in BOOLEAN
    /\ grace \in 0..PongGrace \cup {NoDeadline}
    /\ sent \in Seq(Nat)
    /\ skipped \subseteq Nat
    /\ lost \subseteq Nat

\* Whatever WS_QUEUE_DEPTH is (even 0), the queue never holds more than one
\* event and never drops one: each event is sent before the next is read.
\* The overflow branch and its disconnection are never taken.
QueueNeverOverflows == Len(q) <= 1 /\ drops = 0

Indices(s) == {s[i] : i \in DOMAIN s}

\* What became of the events the receiver has passed.
Fate == [i \in 1..(next - 1) |->
            CASE i \in Indices(q)    -> "wanted"
              [] i \in Indices(sent) -> "delivered"
              [] i \in skipped       -> "skipped"
              [] i \in lost          -> "lost"
              [] OTHER               -> "gone"]

\* The feed that the connection implements.
Feed == INSTANCE EventFeed WITH
    published <- Len(bus), fate <- Fate, out <- sent, open <- (pc # "closed")

\* The loop, its queue and its lagging receiver deliver the wanted events in
\* order and once each, and lose none but by an overrun of the channel, which
\* counts every one it loses: the queue itself loses nothing, and a failed
\* send loses the one event in flight (routes/ws/session.rs).
ImplementsEventFeed == Feed!Spec

\* An event is sent only if the peer is subscribed to it at that moment: once
\* an unsubscribe is processed, no event of it trails behind.
SentMatchesSubscriptions ==
    [][sent' # sent => Matches(subs, bus[sent'[Len(sent')]])]_vars

Stuck == <>[]Sending

\* As long as the peer keeps reading, the loop catches up with the channel.
LoopCatchesUp ==
    ~Stuck => \A i \in 1..MaxBus :
        i <= Len(bus) ~> (next > i \/ pc = "closed")

\* From some time on no send waits for long enough to let a tick pass.
SendsArePrompt == <>[][Sending => phase' = phase]_vars

\* A peer that has gone silent is dropped, once the stream of events pauses
\* and its sends return promptly.
SilentPeerDropped ==
    (~Stuck /\ SendsArePrompt /\ <>[](inbox = NoMessage)) => <>(pc = "closed")
=============================================================================
