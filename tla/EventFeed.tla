------------------------------ MODULE EventFeed ------------------------------
(***************************************************************************)
(* What a WebSocket subscriber is promised of the events that are          *)
(* published while it is connected: each is taken in publication order;    *)
(* one that is wanted is delivered once, in that order; one is lost only   *)
(* if the subscriber was more than Capacity events behind, and then only   *)
(* the oldest ones are.  It knows nothing of queues, timers or messages.   *)
(* WsSubscriber is shown to implement it.                                  *)
(***************************************************************************)
EXTENDS Integers, Sequences

CONSTANT Capacity   \* how far a subscriber may fall behind

VARIABLES
    published,  \* how many events were published
    fate,       \* what became of the events taken so far
    out,        \* positions of the delivered events, in order
    open        \* the connection is up

vars == <<published, fate, out, open>>

Backlog == published - Len(fate)

Init == published = 0 /\ fate = <<>> /\ out = <<>> /\ open = TRUE

Publish ==
    /\ published' = published + 1
    /\ UNCHANGED <<fate, out, open>>

\* The next event is wanted, or it is not.
Take ==
    /\ open /\ Backlog > 0
    /\ \E f \in {"wanted", "skipped"} : fate' = Append(fate, f)
    /\ UNCHANGED <<published, out, open>>

\* Too far behind: everything but the last Capacity events is lost.
Overrun ==
    /\ open /\ Backlog > Capacity
    /\ fate' = fate \o [i \in 1..(Backlog - Capacity) |-> "lost"]
    /\ UNCHANGED <<published, out, open>>

\* The oldest wanted event, if any.
IsFront(i) == /\ fate[i] = "wanted"
              /\ \A j \in 1..(i - 1) : fate[j] # "wanted"

Deliver == \E i \in DOMAIN fate :
    /\ open /\ IsFront(i)
    /\ fate' = [fate EXCEPT ![i] = "delivered"]
    /\ out' = Append(out, i)
    /\ UNCHANGED <<published, open>>

\* The connection ends, possibly in the middle of a delivery.
Break ==
    /\ open
    /\ open' = FALSE
    /\ \/ UNCHANGED fate
       \/ \E i \in DOMAIN fate : IsFront(i) /\ fate' = [fate EXCEPT ![i] = "gone"]
    /\ UNCHANGED <<published, out>>

Next == Publish \/ Take \/ Overrun \/ Deliver \/ Break

Spec == Init /\ [][Next]_vars
=============================================================================
