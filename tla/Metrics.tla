------------------------------- MODULE Metrics -------------------------------
(***************************************************************************)
(* One histogram of the metrics registry (src/metrics.rs), observed by     *)
(* several tasks while a scrape renders it.  A bucket is a relaxed atomic  *)
(* counter; nothing keeps a scrape from reading between two of them.       *)
(***************************************************************************)
EXTENDS Integers, Sequences

CONSTANTS
    Tasks,     \* tasks that observe, each once
    Buckets    \* the number of finite buckets (11)

VARIABLES
    registered,  \* the registry has an entry for the histogram
    buckets,     \* buckets_count
    count,       \* observations
    task,        \* what each task observes, and where it is
    scrape       \* the buckets read, and the lines written; the last is +Inf

vars == <<registered, buckets, count, task, scrape>>

\* An observation is named by the first bucket whose bound it does not
\* exceed; Buckets + 1 is beyond all of them.
Values == 1..(Buckets + 1)

Init ==
    /\ registered = FALSE
    /\ buckets = [i \in 1..Buckets |-> 0] /\ count = 0
    /\ task = [t \in Tasks |-> [pc |-> "look", value |-> 1, next |-> 1]]
    /\ scrape = [on |-> FALSE, cumulative |-> 0, out |-> <<>>]

\* Holders of the registry's read lock.
Reading == scrape.on \/ \E t \in Tasks : task[t].pc = "buckets"

\* The first observation makes the entry, under the write lock.
Register(t, v) ==
    /\ task[t].pc = "look" /\ ~registered /\ ~Reading
    /\ registered' = TRUE
    /\ count' = count + 1
    /\ buckets' = [i \in 1..Buckets |-> buckets[i] + (IF v <= i THEN 1 ELSE 0)]
    /\ task' = [task EXCEPT ![t].pc = "done"]
    /\ UNCHANGED scrape

\* Histogram::observe counts first ...
Observe(t, v) ==
    /\ task[t].pc = "look" /\ registered
    /\ count' = count + 1
    /\ task' = [task EXCEPT ![t] = [pc |-> "buckets", value |-> v, next |-> 1]]
    /\ UNCHANGED <<registered, buckets, scrape>>

\* ... and then adds to every bucket that the value is not above.
AddToBucket(t) ==
    /\ task[t].pc = "buckets"
    /\ LET i == task[t].next IN
          /\ buckets' = [buckets EXCEPT ![i] = @ + (IF task[t].value <= i THEN 1 ELSE 0)]
          /\ task' = [task EXCEPT ![t].next = i + 1,
                                  ![t].pc = IF i = Buckets THEN "done" ELSE "buckets"]
    /\ UNCHANGED <<registered, count, scrape>>

BeginScrape ==
    /\ ~scrape.on /\ registered
    /\ scrape' = [on |-> TRUE, cumulative |-> 0, out |-> <<>>]
    /\ UNCHANGED <<registered, buckets, count, task>>

\* render adds up the buckets as it goes.
RenderBucket ==
    /\ scrape.on /\ Len(scrape.out) < Buckets
    /\ LET sum == scrape.cumulative + buckets[Len(scrape.out) + 1]
       IN  scrape' = [scrape EXCEPT !.cumulative = sum, !.out = Append(@, sum)]
    /\ UNCHANGED <<registered, buckets, count, task>>

RenderTotal ==
    /\ scrape.on /\ Len(scrape.out) = Buckets
    /\ scrape' = [scrape EXCEPT !.on = FALSE, !.out = Append(@, count)]
    /\ UNCHANGED <<registered, buckets, count, task>>

Next ==
    \/ \E t \in Tasks : \E v \in Values : Register(t, v) \/ Observe(t, v)
    \/ \E t \in Tasks : AddToBucket(t)
    \/ BeginScrape \/ RenderBucket \/ RenderTotal

Spec == Init /\ [][Next]_vars

\* metrics.rs: "Output matches the Prometheus text exposition format", in
\* which a bucket counts the observations up to its bound: none is above the
\* next one, and the last is the count.
BucketsAreCumulative ==
    \A i, j \in DOMAIN scrape.out : i < j => scrape.out[i] <= scrape.out[j]
=============================================================================
