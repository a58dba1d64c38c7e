------------------------- MODULE WsSubscriberProofs -------------------------
(***************************************************************************)
(* Proofs about WsSubscriber for any capacity of the channel, any depth of *)
(* the queue, any timers and any number of events and frames.  The         *)
(* argument is the shape of the loop: an event is queued only at the end   *)
(* of a turn, and the next turn begins by sending it (InHand), so every    *)
(* event behind the receiver has one fate (Past).                          *)
(***************************************************************************)
EXTENDS WsSubscriber, SequenceTheorems, TLAPS

\* The receiver is not ahead of the channel.
Behind == next <= Len(bus) + 1

\* The queue is empty but at the top of the loop, and there it holds at most
\* the event just read, which the peer is subscribed to.
InHand ==
    q # <<>> =>
        /\ pc = "top" /\ next > 1 /\ q = <<next - 1>>
        /\ next - 1 \notin Indices(sent) \cup skipped \cup lost
        /\ Matches(subs, bus[next - 1])

\* What was sent, skipped or lost is behind the receiver, and only one of them.
Past ==
    /\ Indices(sent) \cup skipped \cup lost \subseteq 1..(next - 1)
    /\ Indices(sent) \cap skipped = {}
    /\ Indices(sent) \cap lost = {}
    /\ skipped \cap lost = {}

\* The inductive invariant.
IInv == TypeOK /\ Behind /\ InHand /\ Past /\ drops = 0

-----------------------------------------------------------------------------

\* The elements of a sequence that grows.
LEMMA IndicesAppend ==
    \A s \in Seq(Nat) : \A e \in Nat : Indices(Append(s, e)) = Indices(s) \cup {e}
<1> TAKE s \in Seq(Nat)
<1> TAKE e \in Nat
<1>1. /\ DOMAIN s = 1..Len(s) /\ Len(s) \in Nat
      /\ DOMAIN Append(s, e) = 1..(Len(s) + 1)
      /\ \A i \in 1..Len(s) : Append(s, e)[i] = s[i]
      /\ Append(s, e)[Len(s) + 1] = e
  BY AppendProperties, LenProperties
<1> DEFINE t == Append(s, e)
           n == Len(s)
<1> HIDE DEF t, n
<1>2. /\ DOMAIN s = 1..n /\ n \in Nat /\ DOMAIN t = 1..(n + 1)
      /\ \A i \in 1..n : t[i] = s[i]
      /\ t[n + 1] = e
  BY <1>1 DEF t, n
<1>3. /\ \A i \in 1..(n + 1) : i \in 1..n \/ i = n + 1
      /\ \A i \in 1..n : i \in 1..(n + 1)
      /\ n + 1 \in 1..(n + 1)
  BY <1>2
<1>4. Indices(t) = Indices(s) \cup {e}
  BY <1>2, <1>3 DEF Indices
<1> QED BY <1>4 DEF t

\* The queue holds one event at most, and its only one is the first.
LEMMA QueueInHand ==
    ASSUME InHand, q # <<>>, next \in Nat
    PROVE  Head(q) = next - 1 /\ Tail(q) = <<>> /\ Indices(q) = {next - 1}
<1>1. ASSUME NEW n \in Nat
      PROVE  Head(<<n>>) = n /\ Tail(<<n>>) = <<>> /\ Indices(<<n>>) = {n}
  <2>1. Head(<<n>>) = n
    OBVIOUS
  <2>2. Tail(<<n>>) = <<>>
    <3>1. Tail(<<n>>) \in Seq(Nat) /\ Len(Tail(<<n>>)) = 0
      BY HeadTailProperties
    <3> QED BY <3>1, EmptySeq
  <2>3. Indices(<<n>>) = {n}
    <3>1. DOMAIN <<n>> = {1} /\ <<n>>[1] = n
      OBVIOUS
    <3> QED BY <3>1 DEF Indices
  <2> QED BY <2>1, <2>2, <2>3
<1>2. q = <<next - 1>> /\ next - 1 \in Nat
  BY DEF InHand
<1> QED BY <1>1, <1>2

LEMMA Initially == Init => IInv
<1> SUFFICES ASSUME Init PROVE IInv
  OBVIOUS
<1>1. Indices(sent) = {}
  BY DEF Init, Indices
<1>2. TypeOK
  BY TimersAssumption DEF Init, TypeOK, NoMessage, Messages, Places, NoDeadline
<1> QED BY <1>1, <1>2 DEF Init, IInv, Behind, InHand, Past

-----------------------------------------------------------------------------
(* Types. *)

\* Subscription frames keep the set of subscriptions in its type.
LEMMA SubscriptionsType ==
    ASSUME TypeOK, inbox # NoMessage
    PROVE  (CASE inbox.type = "subscribe" -> Subscribe(subs, inbox.names, inbox.filter)
              [] inbox.type = "unsubscribe" -> Unsubscribe(subs, inbox.names)
              [] OTHER -> subs) \subseteq Subscriptions
<1>1. CASE inbox.type = "subscribe"
  <2>1. inbox.names \subseteq Names /\ inbox.filter \in Filters
    BY <1>1 DEF TypeOK, Messages
  <2>2. \A n \in Names : [event |-> n, filter |-> inbox.filter] \in Subscriptions
    BY <2>1 DEF Subscriptions
  <2> QED BY <1>1, <2>1, <2>2 DEF Subscribe, TypeOK
<1>2. CASE inbox.type = "unsubscribe"
  BY <1>2 DEF Unsubscribe, TypeOK
<1>3. CASE inbox.type \notin {"subscribe", "unsubscribe"}
  BY <1>3 DEF TypeOK
<1> QED BY <1>1, <1>2, <1>3

\* The timers stay in range.
LEMMA TimersType ==
    ASSUME TypeOK, Tick
    PROVE  phase' \in 1..PingPeriod /\ pingDue' \in BOOLEAN
           /\ grace' \in 0..PongGrace \cup {NoDeadline}
<1>1. phase' \in 1..PingPeriod
  BY TimersAssumption DEF TypeOK, Tick
<1>2. pingDue' \in BOOLEAN
  BY DEF TypeOK, Tick
<1>3. grace' \in 0..PongGrace \cup {NoDeadline}
  BY TimersAssumption DEF TypeOK, Tick, CountDown, NoDeadline
<1> QED BY <1>1, <1>2, <1>3

\* Before an overflow can happen, a push makes a queue of one event.
LEMMA PushOne ==
    ASSUME q = <<>>, next \in Nat
    PROVE  ~Overflows(q) /\ Push(q, next) = <<next>>
<1>1. Cap \in Nat \ {0}
  BY DepthAssumption DEF Cap
<1>2. Len(<<>>) = 0
  OBVIOUS
<1>3. ~Overflows(q)
  BY <1>1, <1>2 DEF Overflows
<1>4. Append(<<>>, next) = <<next>>
  OBVIOUS
<1> QED BY <1>3, <1>4 DEF Push

LEMMA TypeStep == IInv /\ [Next]_vars => TypeOK'
<1> SUFFICES ASSUME IInv, [Next]_vars PROVE TypeOK'
  OBVIOUS
<1> USE DEF busVars, peerVars, timerVars, history
<1>0. TypeOK /\ InHand /\ next \in Nat
  BY DEF IInv, TypeOK
<1>1. CASE UNCHANGED vars
  BY <1>0, <1>1 DEF vars, TypeOK
<1>2. ASSUME NEW e \in Events, Publish(e) PROVE TypeOK'
  <2>1. bus' \in Seq(Events)
    BY <1>0, <1>2, AppendProperties DEF Publish, TypeOK
  <2> QED BY <1>0, <1>2, <2>1 DEF Publish, TypeOK
<1>3. ASSUME NEW m \in Messages, PeerSends(m) PROVE TypeOK'
  <2>1. frames' \in Nat /\ inbox' \in Messages
    BY <1>0, <1>3 DEF PeerSends, TypeOK
  <2> QED BY <1>0, <1>3, <2>1 DEF PeerSends, TypeOK
<1>4. CASE SendNext
  <2>1. Head(q) \in Nat /\ Tail(q) \in Seq(Nat)
    BY <1>0, <1>4, HeadTailProperties DEF SendNext, TypeOK
  <2>2. sent' \in Seq(Nat) /\ q' \in Seq(Nat)
    BY <1>0, <1>4, <2>1, AppendProperties DEF SendNext, TypeOK
  <2> QED BY <1>0, <1>4, <2>2 DEF SendNext, TypeOK, Places
<1>5. CASE SendFails
  <2>1. Tail(q) \in Seq(Nat)
    BY <1>0, <1>5, HeadTailProperties DEF SendFails, TypeOK
  <2> QED BY <1>0, <1>5, <2>1 DEF SendFails, TypeOK, Places
<1>6. CASE NothingQueued
  BY <1>0, <1>6 DEF NothingQueued, TypeOK, Places
<1>7. CASE ReadEvent
  <2>1. q = <<>>
    BY <1>7, <1>0 DEF ReadEvent, InHand
  <2>2. <<next>> \in Seq(Nat) /\ next + 1 \in Nat \ {0}
    BY <1>0
  <2>3. CASE Matches(subs, bus[next])
    BY <1>0, <1>7, <2>1, <2>2, <2>3, PushOne DEF ReadEvent, TypeOK, Places
  <2>4. CASE ~Matches(subs, bus[next])
    BY <1>0, <1>7, <2>2, <2>4 DEF ReadEvent, TypeOK, Places
  <2> QED BY <2>3, <2>4
<1>8. CASE ReadLagged
  <2>1. Len(bus) \in Nat
    BY <1>0, LenProperties DEF TypeOK
  <2>2. Oldest \in Nat \ {0}
    BY <2>1, CapacityAssumption DEF Oldest
  <2>3. (next .. (Oldest - 1)) \subseteq Nat
    BY <1>0, <2>2
  <2> QED BY <1>0, <1>8, <2>2, <2>3 DEF ReadLagged, TypeOK, Places
<1>9. CASE ReadMessage
  <2>1. subs' \subseteq Subscriptions
    BY <1>0, <1>9, SubscriptionsType DEF ReadMessage, MessageReady
  <2>2. pc' \in Places
    BY <1>9 DEF ReadMessage, Places
  <2> QED BY <1>0, <1>9, <2>1, <2>2 DEF ReadMessage, TypeOK
<1>10. CASE Reply
  BY <1>0, <1>10 DEF Reply, TypeOK, Places
<1>11. CASE PingTick
  BY <1>0, <1>11 DEF PingTick, TypeOK, Places
<1>12. CASE PingSent
  BY <1>0, <1>12, TimersAssumption DEF PingSent, TypeOK, Places
<1>13. CASE PingFails
  BY <1>0, <1>13 DEF PingFails, TypeOK, Places
<1>14. CASE PongTimeout
  BY <1>0, <1>14 DEF PongTimeout, TypeOK, Places
<1>15. CASE Tick
  BY <1>0, <1>15, TimersType DEF Tick, TypeOK
<1>16. CASE Closed
  BY <1>0, <1>16 DEF Closed, vars, TypeOK
<1> QED BY <1>1, <1>2, <1>3, <1>4, <1>5, <1>6, <1>7, <1>8, <1>9, <1>10, <1>11, <1>12,
           <1>13, <1>14, <1>15, <1>16 DEF Next, Loop

-----------------------------------------------------------------------------
(* The rest of the invariant. *)

\* A step that touches neither the queue nor the fate of an event.
LEMMA Quiet ==
    ASSUME IInv, UNCHANGED <<next, q, drops, sent, skipped, lost>>, Behind',
           q # <<>> => pc' = pc /\ subs' = subs /\ bus'[next - 1] = bus[next - 1]
    PROVE  InHand' /\ Past' /\ drops' = 0
<1>1. Past' /\ drops' = 0
  BY DEF IInv, Past, Indices
<1>2. InHand'
  BY DEF IInv, InHand, Indices, Matches
<1> QED BY <1>1, <1>2

\* Only the top of the loop holds an event.
LEMMA NothingInHand ==
    ASSUME IInv, pc # "top"
    PROVE  q = <<>>
BY DEF IInv, InHand

LEMMA RestStep == IInv /\ [Next]_vars => (Behind /\ InHand /\ Past /\ drops = 0)'
<1> SUFFICES ASSUME IInv, [Next]_vars PROVE Behind' /\ InHand' /\ Past' /\ drops' = 0
  OBVIOUS
<1> USE DEF busVars, peerVars, timerVars, history
<1>0. /\ TypeOK /\ Behind /\ InHand /\ Past /\ drops = 0
      /\ next \in Nat \ {0} /\ Len(bus) \in Nat /\ next <= Len(bus) + 1
      /\ bus \in Seq(Events) /\ sent \in Seq(Nat)
  BY LenProperties DEF IInv, TypeOK, Behind
<1>1. CASE UNCHANGED vars
  BY <1>0, <1>1, Quiet DEF vars, Behind
<1>2. ASSUME NEW e \in Events, Publish(e) PROVE Behind' /\ InHand' /\ Past' /\ drops' = 0
  <2>1. bus' = Append(bus, e) /\ next' = next /\ q' = q /\ pc' = pc /\ subs' = subs
        /\ drops' = drops /\ sent' = sent /\ skipped' = skipped /\ lost' = lost
    BY <1>2 DEF Publish
  <2>2. Len(bus') = Len(bus) + 1
        /\ \A i \in 1..Len(bus) : bus'[i] = bus[i]
    BY <1>0, <2>1, AppendProperties
  <2>3. Behind'
    BY <1>0, <2>1, <2>2 DEF Behind
  <2>4. q # <<>> => next - 1 \in 1..Len(bus)
    BY <1>0 DEF InHand
  <2> QED BY <2>1, <2>2, <2>3, <2>4, Quiet
<1>3. ASSUME NEW m \in Messages, PeerSends(m) PROVE Behind' /\ InHand' /\ Past' /\ drops' = 0
  BY <1>0, <1>3, Quiet DEF PeerSends, Behind
<1>4. CASE SendNext
  <2>1. /\ pc = "top" /\ q # <<>> /\ sent' = Append(sent, Head(q)) /\ q' = Tail(q)
        /\ next' = next /\ bus' = bus /\ drops' = drops /\ skipped' = skipped /\ lost' = lost
    BY <1>4 DEF SendNext
  <2>2. Head(q) = next - 1 /\ q' = <<>> /\ next - 1 \in Nat /\ next - 1 >= 1
        /\ next - 1 \notin skipped /\ next - 1 \notin lost
    BY <1>0, <2>1, QueueInHand DEF InHand
  <2>3. Indices(sent') = Indices(sent) \cup {next - 1}
    BY <1>0, <2>1, <2>2, IndicesAppend
  <2>4. Past'
    BY <1>0, <2>1, <2>2, <2>3 DEF Past
  <2> QED BY <1>0, <2>1, <2>2, <2>4 DEF Behind, InHand
<1>5. CASE SendFails
  <2>1. q' = <<>> /\ next' = next /\ bus' = bus /\ drops' = drops /\ sent' = sent
        /\ skipped' = skipped /\ lost' = lost
    BY <1>0, <1>5, QueueInHand DEF SendFails
  <2>2. Past'
    BY <1>0, <2>1 DEF Past, Indices
  <2> QED BY <1>0, <2>1, <2>2 DEF Behind, InHand
<1>6. CASE NothingQueued
  BY <1>0, <1>6, Quiet DEF NothingQueued, Behind
<1>7. CASE ReadEvent
  <2>1. /\ q = <<>> /\ next <= Len(bus) /\ next' = next + 1 /\ bus' = bus /\ sent' = sent
        /\ lost' = lost /\ subs' = subs
    BY <1>0, <1>7 DEF ReadEvent, BusReady, InHand
  <2>2. Behind'
    BY <1>0, <2>1 DEF Behind
  <2>3. next \notin Indices(sent) \cup skipped \cup lost
    BY <1>0 DEF Past
  <2>4. Indices(sent') = Indices(sent)
    BY <2>1 DEF Indices
  <2>5. (1..(next - 1)) \cup {next} \subseteq 1..(next' - 1)
    BY <1>0, <2>1
  <2>6. CASE Matches(subs, bus[next])
    <3>1. q' = <<next>> /\ drops' = drops /\ pc' = "top" /\ skipped' = skipped
      BY <1>0, <1>7, <2>1, <2>6, PushOne DEF ReadEvent
    <3>2. next' - 1 = next /\ next' > 1
      BY <1>0, <2>1
    <3>3. Past'
      BY <1>0, <2>1, <2>4, <2>5, <3>1 DEF Past
    <3>4. InHand'
      BY <2>1, <2>3, <2>4, <2>6, <3>1, <3>2 DEF InHand, Matches
    <3> QED BY <1>0, <2>2, <3>1, <3>3, <3>4
  <2>7. CASE ~Matches(subs, bus[next])
    <3>1. q' = <<>> /\ drops' = drops /\ skipped' = skipped \cup {next}
      BY <1>7, <2>1, <2>7 DEF ReadEvent
    <3>2. Past'
      BY <1>0, <2>1, <2>3, <2>4, <2>5, <3>1 DEF Past
    <3> QED BY <1>0, <2>2, <3>1, <3>2 DEF InHand
  <2> QED BY <2>6, <2>7
<1>8. CASE ReadLagged
  <2>1. /\ pc = "select" /\ next < Oldest /\ lost' = lost \cup (next .. (Oldest - 1))
        /\ next' = Oldest /\ bus' = bus /\ q' = q /\ drops' = drops /\ sent' = sent
        /\ skipped' = skipped
    BY <1>8 DEF ReadLagged
  <2>2. Oldest \in Nat /\ Oldest <= Len(bus)
    BY <1>0, <2>1, CapacityAssumption DEF Oldest
  <2>3. Behind'
    BY <1>0, <2>1, <2>2 DEF Behind
  <2>4. q = <<>>
    BY <2>1, NothingInHand
  <2>5. /\ 1..(next - 1) \subseteq 1..(Oldest - 1)
        /\ next .. (Oldest - 1) \subseteq 1..(Oldest - 1)
        /\ (1..(next - 1)) \cap (next .. (Oldest - 1)) = {}
    BY <1>0, <2>1, <2>2
  <2>6. Indices(sent') = Indices(sent)
    BY <2>1 DEF Indices
  <2>7. Past'
    BY <1>0, <2>1, <2>5, <2>6 DEF Past
  <2> QED BY <1>0, <2>1, <2>3, <2>4, <2>7 DEF InHand
<1>9. CASE ReadMessage
  BY <1>0, <1>9, Quiet, NothingInHand DEF ReadMessage, Behind
<1>10. CASE Reply
  BY <1>0, <1>10, Quiet, NothingInHand DEF Reply, Behind
<1>11. CASE PingTick
  BY <1>0, <1>11, Quiet, NothingInHand DEF PingTick, Behind
<1>12. CASE PingSent
  BY <1>0, <1>12, Quiet, NothingInHand DEF PingSent, Behind
<1>13. CASE PingFails
  BY <1>0, <1>13, Quiet, NothingInHand DEF PingFails, Behind
<1>14. CASE PongTimeout
  BY <1>0, <1>14, Quiet, NothingInHand DEF PongTimeout, Behind
<1>15. CASE Tick
  BY <1>0, <1>15, Quiet DEF Tick, Behind
<1>16. CASE Closed
  BY <1>0, <1>16, Quiet DEF Closed, vars, Behind
<1> QED BY <1>1, <1>2, <1>3, <1>4, <1>5, <1>6, <1>7, <1>8, <1>9, <1>10, <1>11, <1>12,
           <1>13, <1>14, <1>15, <1>16 DEF Next, Loop

LEMMA Invariance == Spec => []IInv
<1>1. IInv /\ [Next]_vars => IInv'
  BY TypeStep, RestStep DEF IInv
<1> QED BY <1>1, Initially, PTL DEF Spec

-----------------------------------------------------------------------------

\* Every variable of a connection keeps its type, its timers their range.
THEOREM TypeCorrect == Spec => []TypeOK
<1>1. IInv => TypeOK
  BY DEF IInv
<1> QED BY <1>1, Invariance, PTL

\* Whatever WS_QUEUE_DEPTH, the drop-oldest queue holds one event at most and
\* drops none (DropOldestQueue, routes/ws/session.rs).
THEOREM QueueSuffices == Spec => []QueueNeverOverflows
<1>1. IInv => QueueNeverOverflows
  <2> SUFFICES ASSUME IInv PROVE QueueNeverOverflows
    OBVIOUS
  <2>1. Len(<<>>) = 0 /\ \A n \in Int : Len(<<n>>) = 1
    OBVIOUS
  <2>2. q = <<>> \/ \E n \in Int : q = <<n>>
    BY DEF IInv, InHand, TypeOK
  <2>3. Len(q) \in {0, 1}
    BY <2>1, <2>2
  <2>4. \A n \in {0, 1} : n <= 1
    OBVIOUS
  <2> QED BY <2>3, <2>4 DEF IInv, QueueNeverOverflows
<1> QED BY <1>1, Invariance, PTL

\* No event is sent after its subscription was taken back, however messages,
\* events and sends interleave (routes/ws/session.rs).
THEOREM SentIsSubscribed == Spec => SentMatchesSubscriptions
<1>1. IInv /\ [Next]_vars =>
         [sent' # sent => Matches(subs, bus[sent'[Len(sent')]])]_vars
  <2> SUFFICES ASSUME IInv, Next, sent' # sent
               PROVE  Matches(subs, bus[sent'[Len(sent')]])
    OBVIOUS
  <2>1. SendNext
    BY DEF Next, Loop, Publish, PeerSends, SendFails, NothingQueued, ReadEvent, ReadLagged,
           ReadMessage, Reply, PingTick, PingSent, PingFails, PongTimeout, Tick, Closed,
           vars, history
  <2>2. /\ Head(q) = next - 1 /\ Matches(subs, bus[next - 1]) /\ next - 1 \in Nat
        /\ sent' = Append(sent, Head(q)) /\ sent \in Seq(Nat)
    BY <2>1, QueueInHand DEF SendNext, IInv, InHand, TypeOK
  <2>3. sent'[Len(sent')] = next - 1
    BY <2>2, AppendProperties
  <2> QED BY <2>2, <2>3
<1> QED BY <1>1, Invariance, PTL DEF Spec, SentMatchesSubscriptions

-----------------------------------------------------------------------------
(* The refinement.  The fate of the events passed, as a sequence: n events,*)
(* of which those in Q are queued, in S sent, in K skipped and in L lost.  *)

Fates == {"wanted", "delivered", "skipped", "lost", "gone"}

FateOf(n, Q, S, K, L) ==
    [i \in 1..n |-> CASE i \in Q -> "wanted"
                      [] i \in S -> "delivered"
                      [] i \in K -> "skipped"
                      [] i \in L -> "lost"
                      [] OTHER   -> "gone"]

Disjoint(Q, S, K, L) ==
    /\ Q \cap S = {} /\ Q \cap K = {} /\ Q \cap L = {}
    /\ S \cap K = {} /\ S \cap L = {} /\ K \cap L = {}

IsFate(f, n, Q, S, K, L) ==
    /\ f \in Seq(Fates) /\ Len(f) = n /\ DOMAIN f = 1..n
    /\ \A i \in 1..n :
          /\ i \in Q => f[i] = "wanted"
          /\ i \in S => f[i] = "delivered"
          /\ i \in K => f[i] = "skipped"
          /\ i \in L => f[i] = "lost"
          /\ i \notin Q \cup S \cup K \cup L => f[i] = "gone"

LEMMA FateOfIsFate ==
    ASSUME NEW n \in Nat, NEW Q, NEW S, NEW K, NEW L, Disjoint(Q, S, K, L)
    PROVE  IsFate(FateOf(n, Q, S, K, L), n, Q, S, K, L)
<1> DEFINE f == FateOf(n, Q, S, K, L)
<1>1. f \in [1..n -> Fates]
  BY DEF FateOf, Fates
<1>2. f \in Seq(Fates) /\ Len(f) = n /\ DOMAIN f = 1..n
  BY <1>1, SeqDef, LenProperties
<1>3. ASSUME NEW i \in 1..n
      PROVE  /\ i \in Q => f[i] = "wanted"
             /\ i \in S => f[i] = "delivered"
             /\ i \in K => f[i] = "skipped"
             /\ i \in L => f[i] = "lost"
             /\ i \notin Q \cup S \cup K \cup L => f[i] = "gone"
  BY DEF FateOf, Disjoint
<1> QED BY <1>2, <1>3 DEF IsFate

\* A sequence with one more element.
LEMMA OneMore ==
    ASSUME NEW f \in Seq(Fates), NEW g \in Seq(Fates), NEW n \in Nat, NEW m, m = n + 1,
           Len(f) = n, Len(g) = m, \A i \in 1..n : g[i] = f[i]
    PROVE  g = Append(f, g[m])
<1>1. /\ \A i \in 1..m : i \in 1..n \/ i = m
      /\ m \in 1..m
  OBVIOUS
<1>2. g[m] \in Fates
  BY <1>1, ElementOfSeq
<1> DEFINE h == Append(f, g[m])
<1>3. h \in Seq(Fates) /\ Len(h) = m /\ h[m] = g[m] /\ \A i \in 1..n : h[i] = f[i]
  BY <1>2, AppendProperties
<1> HIDE DEF h
<1>4. \A i \in 1..m : g[i] = h[i]
  BY <1>1, <1>3
<1>5. g = h
  BY <1>3, <1>4, SeqEqual
<1> QED BY <1>5 DEF h

\* The receiver takes the next event, and it is wanted ...
LEMMA FateWanted ==
    ASSUME NEW n \in Nat, NEW S, NEW K, NEW L, S \cup K \cup L \subseteq 1..n,
           NEW f, IsFate(f, n, {}, S, K, L), NEW m, m = n + 1,
           NEW g, IsFate(g, m, {m}, S, K, L)
    PROVE  g = Append(f, "wanted")
<1>1. \A i \in 1..n : i \in 1..m /\ i # m
  OBVIOUS
<1>2. \A i \in 1..n : g[i] = f[i]
  BY <1>1 DEF IsFate
<1>3. g[m] = "wanted"
  BY DEF IsFate
<1> QED BY <1>2, <1>3, OneMore DEF IsFate

\* ... or it is skipped.
LEMMA FateSkipped ==
    ASSUME NEW n \in Nat, NEW S, NEW K, NEW L, S \cup K \cup L \subseteq 1..n,
           NEW f, IsFate(f, n, {}, S, K, L), NEW m, m = n + 1,
           NEW g, IsFate(g, m, {}, S, K \cup {m}, L)
    PROVE  g = Append(f, "skipped")
<1>1. \A i \in 1..n : i \in 1..m /\ i # m
  OBVIOUS
<1>2. \A i \in 1..n : g[i] = f[i]
  BY <1>1 DEF IsFate
<1>3. g[m] = "skipped"
  BY DEF IsFate
<1> QED BY <1>2, <1>3, OneMore DEF IsFate

\* The receiver is overrun: the events up to m are lost.
LEMMA FateLoses ==
    ASSUME NEW n \in Nat, NEW m \in Nat, n <= m, NEW S, NEW K, NEW L,
           S \cup K \cup L \subseteq 1..n, NEW f, IsFate(f, n, {}, S, K, L),
           NEW g, IsFate(g, m, {}, S, K, L \cup ((n + 1) .. m))
    PROVE  g = f \o [i \in 1..(m - n) |-> "lost"]
<1> DEFINE e == [i \in 1..(m - n) |-> "lost"]
           h == f \o e
<1>1. e \in [1..(m - n) -> Fates] /\ m - n \in Nat
  BY DEF Fates
<1>2. e \in Seq(Fates) /\ Len(e) = m - n /\ \A i \in 1..(m - n) : e[i] = "lost"
  BY <1>1, SeqDef, LenProperties
<1> HIDE DEF e
<1>3. f \in Seq(Fates) /\ Len(f) = n
  BY DEF IsFate
<1>4. n + (m - n) = m
  OBVIOUS
<1>5. /\ h \in Seq(Fates) /\ Len(h) = m
      /\ \A i \in 1..m : h[i] = IF i <= n THEN f[i] ELSE e[i - n]
  <2>1. /\ h \in Seq(Fates) /\ Len(h) = Len(f) + Len(e)
        /\ \A i \in 1..(Len(f) + Len(e)) :
              h[i] = IF i <= Len(f) THEN f[i] ELSE e[i - Len(f)]
    BY <1>2, <1>3, ConcatProperties
  <2> HIDE DEF h
  <2> QED BY <1>2, <1>3, <1>4, <2>1
<1> HIDE DEF h
<1>6. ASSUME NEW i \in 1..m PROVE g[i] = h[i]
  <2>1. CASE i \in 1..n
    BY <1>5, <2>1 DEF IsFate
  <2>2. CASE i \in (n + 1) .. m
    <3>1. i - n \in 1..(m - n) /\ ~(i <= n) /\ i \notin 1..n
      BY <2>2
    <3>2. h[i] = "lost"
      BY <1>2, <1>5, <3>1
    <3>3. g[i] = "lost"
      BY <2>2 DEF IsFate
    <3> QED BY <3>2, <3>3
  <2> QED BY <2>1, <2>2
<1> QED BY <1>5, <1>6, SeqEqual DEF IsFate, e, h

\* The event taken last, if it is wanted, is the front.
LEMMA FateFront ==
    ASSUME NEW n \in Nat \ {0}, NEW S, NEW K, NEW L,
           n \notin S \cup K \cup L, NEW f, IsFate(f, n, {n}, S, K, L)
    PROVE  n \in DOMAIN f /\ f[n] = "wanted" /\ \A j \in 1..(n - 1) : f[j] # "wanted"
<1>1. n \in 1..n /\ \A j \in 1..(n - 1) : j \in 1..n /\ j # n
  OBVIOUS
<1> QED BY <1>1 DEF IsFate

\* It is sent, or lost in flight.
LEMMA FateEnds ==
    ASSUME NEW n \in Nat \ {0}, NEW S, NEW K, NEW L,
           n \notin S \cup K \cup L, NEW f, IsFate(f, n, {n}, S, K, L),
           NEW g, NEW T, IsFate(g, n, {}, T, K, L), NEW x \in Fates,
           \/ x = "delivered" /\ T = S \cup {n}
           \/ x = "gone" /\ T = S
    PROVE  g = [f EXCEPT ![n] = x]
<1>1. f \in Seq(Fates) /\ Len(f) = n /\ n \in 1..n
  BY DEF IsFate
<1> DEFINE h == [f EXCEPT ![n] = x]
<1>2. h \in Seq(Fates) /\ Len(h) = n /\ \A i \in 1..n : h[i] = IF i = n THEN x ELSE f[i]
  BY <1>1, ExceptSeq
<1> HIDE DEF h
<1>3. ASSUME NEW i \in 1..n PROVE g[i] = h[i]
  <2>1. CASE i = n
    BY <1>2, <2>1 DEF IsFate
  <2>2. CASE i # n
    <3>1. (i \in T <=> i \in S) /\ h[i] = f[i]
      BY <1>2, <2>2
    <3> QED BY <2>2, <3>1 DEF IsFate
  <2> QED BY <2>1, <2>2
<1>4. g = h
  BY <1>2, <1>3, SeqEqual DEF IsFate
<1> QED BY <1>4 DEF h

\* A position and its predecessor.
LEMMA Predecessor == \A x \in Nat \ {0} : x - 1 \in Nat /\ x = (x - 1) + 1
OBVIOUS

\* Fate is the fate of the events behind the receiver, before and after.
LEMMA Fated ==
    /\ IInv => \A n \in Nat : next = n + 1 =>
          IsFate(Fate, n, Indices(q), Indices(sent), skipped, lost)
    /\ IInv' => \A n \in Nat : next' = n + 1 =>
          IsFate(Fate', n, Indices(q'), Indices(sent'), skipped', lost')
<1> DEFINE OnePlace(n, l, Q, S, K, L) ==
        /\ l = <<>> \/ (l = <<n>> /\ n \notin S \cup K \cup L)
        /\ Q = Indices(l) /\ S \cap K = {} /\ S \cap L = {} /\ K \cap L = {}
<1>1. ASSUME NEW n \in Nat, NEW l, NEW Q, NEW S, NEW K, NEW L, OnePlace(n, l, Q, S, K, L)
      PROVE  Disjoint(Q, S, K, L)
  <2>1. Indices(<<>>) = {}
    BY DEF Indices
  <2>2. Indices(<<n>>) = {n}
    <3>1. DOMAIN <<n>> = {1} /\ <<n>>[1] = n
      OBVIOUS
    <3> QED BY <3>1 DEF Indices
  <2> QED BY <1>1, <2>1, <2>2 DEF Disjoint
<1>2. \A n \in Nat : (n + 1) - 1 = n
  OBVIOUS
<1>3. ASSUME IInv, NEW n \in Nat, next = n + 1
      PROVE  IsFate(Fate, n, Indices(q), Indices(sent), skipped, lost)
  <2>1. next - 1 = n
    BY <1>2, <1>3
  <2>2. OnePlace(n, q, Indices(q), Indices(sent), skipped, lost)
    <3>1. q # <<>> => q = <<n>> /\ n \notin Indices(sent) \cup skipped \cup lost
      BY <1>3, <2>1 DEF IInv, InHand
    <3>2. /\ Indices(sent) \cap skipped = {} /\ Indices(sent) \cap lost = {}
          /\ skipped \cap lost = {}
      BY <1>3 DEF IInv, Past
    <3>3. q = <<>> \/ (q = <<n>> /\ n \notin Indices(sent) \cup skipped \cup lost)
      BY <3>1
    <3> QED BY <3>2, <3>3
  <2>3. Fate = FateOf(n, Indices(q), Indices(sent), skipped, lost)
    BY <2>1 DEF Fate, FateOf
  <2> HIDE DEF OnePlace
  <2> QED BY <1>1, <2>2, <2>3, FateOfIsFate
<1>4. ASSUME IInv', NEW n \in Nat, next' = n + 1
      PROVE  IsFate(Fate', n, Indices(q'), Indices(sent'), skipped', lost')
  <2>1. next' - 1 = n
    BY <1>2, <1>4
  <2>2. OnePlace(n, q', Indices(q'), Indices(sent'), skipped', lost')
    <3>1. q' # <<>> => q' = <<n>> /\ n \notin Indices(sent') \cup skipped' \cup lost'
      BY <1>4, <2>1 DEF IInv, InHand, Indices
    <3>2. /\ Indices(sent') \cap skipped' = {} /\ Indices(sent') \cap lost' = {}
          /\ skipped' \cap lost' = {}
      BY <1>4 DEF IInv, Past, Indices
    <3>3. q' = <<>> \/ (q' = <<n>> /\ n \notin Indices(sent') \cup skipped' \cup lost')
      BY <3>1
    <3> QED BY <3>2, <3>3
  <2>3. Fate' = FateOf(n, Indices(q'), Indices(sent'), skipped', lost')
    BY <2>1 DEF Fate, FateOf, Indices
  <2> HIDE DEF OnePlace
  <2> QED BY <1>1, <2>2, <2>3, FateOfIsFate
<1> QED BY <1>3, <1>4

\* Every step of the loop is a step of the feed, or leaves it as it is.
LEMMA StepRefines ==
    ASSUME IInv, IInv', [Next]_vars
    PROVE  [Feed!Next]_(Feed!vars)
<1> DEFINE C == [Feed!Next]_(Feed!vars)
<1> USE DEF busVars, peerVars, timerVars, history
<1>1. PICK n \in Nat : next = n + 1
  <2>1. next \in Nat \ {0}
    BY DEF IInv, TypeOK
  <2> QED BY <2>1, Predecessor
<1>2. PICK f, g, S, K, L :
         /\ f = Fate /\ g = Fate'
         /\ S = Indices(sent) /\ K = skipped /\ L = lost
  OBVIOUS
<1>3. /\ IsFate(f, n, Indices(q), S, K, L) /\ S \cup K \cup L \subseteq 1..n
      /\ Len(f) = n /\ DOMAIN f = 1..n
      /\ \A m \in Nat : next' = m + 1 =>
            IsFate(g, m, Indices(q'), Indices(sent'), skipped', lost')
  <2>1. next - 1 = n
    BY <1>1
  <2> QED BY <1>1, <1>2, <2>1, Fated DEF IsFate, IInv, Past
<1>4. Indices(<<>>) = {}
  BY DEF Indices
<1>5. /\ TypeOK /\ InHand /\ Len(bus) \in Nat /\ bus \in Seq(Events) /\ n <= Len(bus)
      /\ sent \in Seq(Nat)
  <2>1. bus \in Seq(Events) /\ Len(bus) \in Nat
    BY LenProperties DEF IInv, TypeOK
  <2> QED BY <1>1, <2>1 DEF IInv, TypeOK, Behind
\* A step that passes no event and sends none.
<1>f. /\ "wanted" \in Fates /\ "skipped" \in Fates
      /\ "delivered" \in Fates /\ "gone" \in Fates
  BY DEF Fates
<1>6. ASSUME UNCHANGED <<next, q, sent, skipped, lost>>, UNCHANGED Len(bus),
             pc' = "closed" \/ pc # "closed"
      PROVE  C
  <2>1. Fate' = Fate
    BY <1>6 DEF Fate, Indices
  <2>2. CASE (pc' = "closed") <=> (pc = "closed")
    BY <1>6, <2>1, <2>2 DEF Feed!vars
  <2>3. CASE pc' = "closed" /\ pc # "closed"
    BY <1>6, <2>1, <2>3 DEF Feed!Next, Feed!Break
  <2> QED BY <1>6, <2>2, <2>3
<1>7. CASE UNCHANGED vars
  BY <1>6, <1>7 DEF vars
<1>8. ASSUME NEW e \in Events, Publish(e) PROVE C
  <2>1. Len(bus') = Len(bus) + 1
    BY <1>5, <1>8, AppendProperties DEF Publish
  <2>2. Fate' = Fate
    BY <1>8 DEF Publish, Fate, Indices
  <2>3. sent' = sent /\ pc' = pc
    BY <1>8 DEF Publish
  <2> QED BY <2>1, <2>2, <2>3 DEF Feed!Next, Feed!Publish
<1>9. ASSUME NEW m \in Messages, PeerSends(m) PROVE C
  BY <1>6, <1>9 DEF PeerSends
<1>10. CASE SendNext \/ SendFails
  <2>1. /\ pc = "top" /\ q # <<>> /\ q' = Tail(q) /\ next' = next /\ bus' = bus
        /\ skipped' = skipped /\ lost' = lost
    BY <1>10 DEF SendNext, SendFails
  <2>2. /\ Head(q) = n /\ q' = <<>> /\ Indices(q) = {n} /\ n \in Nat \ {0}
        /\ n \notin S \cup K \cup L
    <3>1. next - 1 = n /\ next \in Nat
      BY <1>1
    <3>2. Head(q) = n /\ q' = <<>> /\ Indices(q) = {n}
      BY <1>5, <2>1, <3>1, QueueInHand
    <3>3. n # 0
      BY <1>1, <1>5, <2>1 DEF InHand
    <3> QED BY <1>2, <1>5, <2>1, <3>1, <3>2, <3>3 DEF InHand
  <2>2a. n \in Nat \ {0} /\ n \notin S \cup K \cup L
    BY <2>2
  <2>3. IsFate(f, n, {n}, S, K, L)
    BY <1>3, <2>2
  <2>4. n \in DOMAIN Fate /\ Feed!IsFront(n)
    <3>1. n \in DOMAIN f /\ f[n] = "wanted" /\ \A j \in 1..(n - 1) : f[j] # "wanted"
      BY <2>2a, <2>3, FateFront
    <3> QED BY <1>2, <3>1 DEF Feed!IsFront
  <2>5. CASE SendNext
    <3>1. sent' = Append(sent, n) /\ pc' = "select"
      BY <2>2, <2>5 DEF SendNext
    <3>2. Indices(sent') = S \cup {n}
      BY <1>2, <1>5, <3>1, IndicesAppend
    <3>3. IsFate(g, n, {}, S \cup {n}, K, L)
      BY <1>1, <1>2, <1>3, <1>4, <2>1, <2>2, <3>2
    <3>4. Fate' = [Fate EXCEPT ![n] = "delivered"]
      <4>1. g = [f EXCEPT ![n] = "delivered"]
        BY <1>f, <2>2a, <2>3, <3>3, FateEnds
      <4> QED BY <1>2, <4>1
    <3>5. Feed!Deliver
      BY <2>1, <2>4, <3>1, <3>4 DEF Feed!Deliver
    <3> QED BY <3>5 DEF Feed!Next
  <2>6. CASE SendFails
    <3>1. sent' = sent /\ pc' = "closed"
      BY <2>6 DEF SendFails
    <3>2. IsFate(g, n, {}, S, K, L)
      BY <1>1, <1>2, <1>3, <1>4, <2>1, <2>2, <3>1
    <3>3. Fate' = [Fate EXCEPT ![n] = "gone"]
      <4>1. g = [f EXCEPT ![n] = "gone"]
        BY <1>f, <2>2a, <2>3, <3>2, FateEnds
      <4> QED BY <1>2, <4>1
    <3>4. Feed!Break
      BY <2>1, <2>4, <3>1, <3>3 DEF Feed!Break
    <3> QED BY <3>4 DEF Feed!Next
  <2> QED BY <1>10, <2>5, <2>6
<1>11. CASE NothingQueued
  BY <1>6, <1>11 DEF NothingQueued
<1>12. CASE ReadEvent
  <2>1. /\ pc = "select" /\ q = <<>> /\ next <= Len(bus) /\ next' = next + 1 /\ bus' = bus
        /\ sent' = sent /\ lost' = lost
    BY <1>1, <1>5, <1>12 DEF ReadEvent, BusReady, InHand
  <2>2. PICK m \in Nat : m = n + 1 /\ m = next /\ next' = m + 1
    BY <1>1, <2>1
  <2>a. IsFate(f, n, {}, S, K, L) /\ IsFate(g, m, Indices(q'), S, skipped', L)
    <3>1. IsFate(g, m, Indices(q'), Indices(sent'), skipped', lost')
      BY <1>3, <2>2
    <3> QED BY <1>2, <1>3, <1>4, <2>1, <3>1
  <2>w. IsFate(f, n, {}, S, K, L)
    BY <2>a
  <2>3. Feed!Backlog > 0
    <3>1. Feed!Backlog = Len(bus) - n
      BY <1>2, <1>3 DEF Feed!Backlog
    <3> QED BY <1>1, <1>5, <2>1, <3>1
  <2>4. CASE Matches(subs, bus[next])
    <3>1. q' = <<next>> /\ pc' = "top" /\ skipped' = skipped
      BY <1>1, <1>12, <2>1, <2>4, PushOne DEF ReadEvent
    <3>2. Indices(q') = {m}
      <4>1. DOMAIN <<next>> = {1} /\ <<next>>[1] = next
        BY <1>1
      <4> QED BY <2>2, <3>1, <4>1 DEF Indices
    <3>3. g = Append(f, "wanted")
      <4>1. S \cup K \cup L \subseteq 1..n /\ m = n + 1
        BY <1>3, <2>2
      <4>2. IsFate(g, m, {m}, S, K, L)
        BY <1>2, <2>a, <3>1, <3>2
      <4> QED BY <2>w, <4>1, <4>2, FateWanted
    <3>4. Feed!Take
      BY <1>2, <2>1, <2>3, <3>1, <3>3 DEF Feed!Take
    <3> QED BY <3>4 DEF Feed!Next
  <2>5. CASE ~Matches(subs, bus[next])
    <3>1. q' = <<>> /\ pc' = "top" /\ skipped' = K \cup {m}
      BY <1>2, <1>12, <2>1, <2>2, <2>5 DEF ReadEvent
    <3>2. g = Append(f, "skipped")
      <4>1. S \cup K \cup L \subseteq 1..n /\ m = n + 1
        BY <1>3, <2>2
      <4>2. IsFate(g, m, {}, S, K \cup {m}, L)
        BY <1>4, <2>a, <3>1
      <4> QED BY <2>w, <4>1, <4>2, FateSkipped
    <3>3. Feed!Take
      BY <1>2, <2>1, <2>3, <3>1, <3>2 DEF Feed!Take
    <3> QED BY <3>3 DEF Feed!Next
  <2> QED BY <2>4, <2>5
<1>13. CASE ReadLagged
  <2>1. /\ pc = "select" /\ next < Oldest /\ lost' = lost \cup (next .. (Oldest - 1))
        /\ next' = Oldest /\ bus' = bus /\ q' = q /\ sent' = sent
        /\ skipped' = skipped /\ pc' = "top" /\ q = <<>>
    BY <1>5, <1>13 DEF ReadLagged, InHand
  <2>2. PICK m \in Nat : Oldest = m + 1 /\ m + Capacity = Len(bus) /\ n < m
    <3>1. Len(bus) > Capacity /\ Oldest = Len(bus) - Capacity + 1
      BY <1>1, <1>5, <2>1, CapacityAssumption DEF Oldest
    <3>2. Len(bus) - Capacity \in Nat /\ n < Len(bus) - Capacity
      BY <1>1, <1>5, <2>1, <3>1, CapacityAssumption
    <3>3. (Len(bus) - Capacity) + Capacity = Len(bus)
      BY <1>5, CapacityAssumption
    <3> QED BY <3>1, <3>2, <3>3
  <2>3. IsFate(g, m, {}, S, K, L \cup ((n + 1) .. m))
    <3>1. IsFate(g, m, Indices(q'), Indices(sent'), skipped', lost')
      BY <1>3, <2>1, <2>2
    <3>2. Oldest - 1 = m
      BY <2>2
    <3> QED BY <1>1, <1>2, <1>4, <2>1, <3>1, <3>2
  <2>4. g = f \o [i \in 1..(m - n) |-> "lost"]
    <3>1. IsFate(f, n, {}, S, K, L)
      BY <1>3, <1>4, <2>1
    <3>2. n <= m
      BY <2>2
    <3> QED BY <1>3, <2>3, <3>1, <3>2, FateLoses
  <2>5. Feed!Backlog > Capacity /\ Feed!Backlog - Capacity = m - n
    <3>1. Feed!Backlog = Len(bus) - n
      BY <1>2, <1>3 DEF Feed!Backlog
    <3> QED BY <1>5, <2>2, <3>1, CapacityAssumption
  <2>6. Feed!Overrun
    BY <1>2, <2>1, <2>4, <2>5 DEF Feed!Overrun
  <2> QED BY <2>6 DEF Feed!Next
<1>14. CASE ReadMessage
  BY <1>6, <1>14 DEF ReadMessage
<1>15. CASE Reply
  BY <1>6, <1>15 DEF Reply
<1>16. CASE PingTick
  BY <1>6, <1>16 DEF PingTick
<1>17. CASE PingSent
  BY <1>6, <1>17 DEF PingSent
<1>18. CASE PingFails
  BY <1>6, <1>18 DEF PingFails
<1>19. CASE PongTimeout
  BY <1>6, <1>19 DEF PongTimeout
<1>20. CASE Tick
  BY <1>6, <1>20 DEF Tick
<1>21. CASE Closed
  BY <1>6, <1>21 DEF Closed, vars
<1> QED BY <1>7, <1>8, <1>9, <1>10, <1>11, <1>12, <1>13, <1>14, <1>15, <1>16, <1>17, <1>18,
           <1>19, <1>20, <1>21 DEF Next, Loop

\* The connection delivers the wanted events in order and once each, and
\* loses none but by an overrun of the channel and the one in flight when a
\* send fails (routes/ws/session.rs), for any capacity and any queue depth.
THEOREM ImplementsFeed == Spec => ImplementsEventFeed
<1>1. Init => Feed!Init
  <2> SUFFICES ASSUME Init PROVE Feed!Init
    OBVIOUS
  <2>1. Fate = <<>>
    <3>1. Fate \in [1..0 -> Fates] /\ 1..0 = {}
      BY DEF Init, Fate
    <3> QED BY <3>1
  <2> QED BY <2>1 DEF Init, Feed!Init
<1>2. IInv /\ IInv' /\ [Next]_vars => [Feed!Next]_(Feed!vars)
  BY StepRefines
<1> QED BY <1>1, <1>2, Invariance, PTL DEF Spec, ImplementsEventFeed, Feed!Spec
=============================================================================
