----------------------------- MODULE FlushSink ------------------------------
(***************************************************************************)
(* The queue of InfluxDBSink (bmslib/sinks.py), which QuestDBSink and      *)
(* TelemetrySink inherit, with its CircuitBreaker                          *)
(* (bmslib/circuit_breaker.py).                                            *)
(*                                                                         *)
(* The event loop's thread publishes points.  A flush thread collects them *)
(* into batches and writes those to the server, as the breaker permits.    *)
(* close(), on the event loop's thread again, waits 5 s for the flush      *)
(* thread and then flushes itself, although the other may still be inside  *)
(* its flush.  A step is what one thread does between two accesses to what *)
(* the threads share.                                                      *)
(*                                                                         *)
(* Every point carries its own time, so the order of points in the queue   *)
(* is left open: the queue is a set.                                       *)
(*                                                                         *)
(* A definition commented "Faulty" is a variant of the one that follows it *)
(* with a plausible bug; a property of this module must tell them apart.   *)
(***************************************************************************)
EXTENDS Naturals, FiniteSets

CONSTANTS
    Points,     \* the points published
    QueueMax,   \* capacity of the queue (50 000)
    BatchMax,   \* points in a batch (20 000)
    Enabled     \* backoff_interval > 0: TelemetrySink; FALSE: InfluxDBSink

ASSUME SinkAssumption ==
    /\ QueueMax \in Nat \ {0} /\ BatchMax \in Nat \ {0}
    /\ Enabled \in BOOLEAN

VARIABLES
    todo,       \* points not published yet
    offer,      \* points _enqueue has let through and not put yet
    queue,      \* self.Q
    stop,       \* self._stop_event
    pc,         \* where a flusher stands
    batch,      \* the batch it holds
    ever,       \* CircuitBreaker.ever_succeeded
    blocked,    \* now < CircuitBreaker.backoff_until
    delivered,  \* history: points the server took
    refused,    \* history: points dropped because the queue was full
    owed        \* history: points queued since the first success

breaker == <<ever, blocked>>
publisher == <<todo, offer>>
history == <<delivered, refused, owed>>
vars == <<publisher, queue, stop, pc, batch, breaker, history>>

Flushers == {"thread", "close"}
Phases == {"idle", "collect", "get", "write", "failed", "requeue", "drain", "ended"}

Init ==
    /\ todo = Points /\ offer = {} /\ queue = {}
    /\ stop = FALSE
    /\ pc = [f \in Flushers |-> "idle"]
    /\ batch = [f \in Flushers |-> {}]
    /\ ever = FALSE /\ blocked = FALSE
    /\ delivered = {} /\ refused = {} /\ owed = {}

Go(f, phase) == pc' = [pc EXCEPT ![f] = phase]

\* After its flush the thread waits for the next, and close() is over.
FlushEnds(f) == Go(f, IF f = "thread" THEN "idle" ELSE "ended")

\* Faulty: the last place of the queue is never taken.
PutEarly(p) ==
    IF Cardinality(queue) + 1 < QueueMax
    THEN queue' = queue \cup {p} /\ UNCHANGED refused
    ELSE refused' = refused \cup {p} /\ UNCHANGED queue

\* Q.put_nowait(point): drop the newest point if the queue is full.
Put(p) ==
    IF Cardinality(queue) < QueueMax
    THEN queue' = queue \cup {p} /\ UNCHANGED refused
    ELSE refused' = refused \cup {p} /\ UNCHANGED queue

-----------------------------------------------------------------------------
(* _enqueue, by the publisher.                                             *)

Outage == Enabled /\ ~ever /\ blocked

\* Faulty: points are kept while the server was never reached.
OfferAlways(p) ==
    /\ ~stop /\ offer = {}
    /\ todo' = todo \ {p}
    /\ offer' = {p}
    /\ UNCHANGED <<queue, stop, pc, batch, breaker, history>>

\* The look at the breaker ...
Offer(p) ==
    /\ ~stop /\ offer = {}
    /\ todo' = todo \ {p}
    /\ offer' = IF Outage THEN {} ELSE {p}
    /\ UNCHANGED <<queue, stop, pc, batch, breaker, history>>

\* ... and the put, before which the breaker may open.
Publish(p) ==
    /\ offer' = {}
    /\ Put(p)
    /\ owed' = IF ever /\ p \in queue' THEN owed \cup {p} ELSE owed
    /\ UNCHANGED <<todo, stop, pc, batch, breaker, delivered>>

-----------------------------------------------------------------------------
(* flush                                                                   *)

\* _flush_loop and _maybe_flush.
ThreadWakes ==
    /\ pc["thread"] = "idle"
    /\ \/ stop /\ Go("thread", "ended")
       \/ ~stop /\ ~(Enabled /\ blocked) /\ Go("thread", "collect")
    /\ UNCHANGED <<publisher, queue, stop, batch, breaker, history>>

\* while not self.Q.empty() and len(batch) < 20_000
Collect(f) ==
    /\ pc[f] = "collect"
    /\ \/ /\ queue # {} /\ Cardinality(batch[f]) < BatchMax
          /\ Go(f, "get")
       \/ /\ queue = {} \/ Cardinality(batch[f]) >= BatchMax
          /\ IF batch[f] = {} THEN FlushEnds(f) ELSE Go(f, "write")
    /\ UNCHANGED <<publisher, queue, stop, batch, breaker, history>>

\* batch.append(self.Q.get()), which blocks while the queue is empty.
Get(f, p) ==
    /\ pc[f] = "get"
    /\ queue' = queue \ {p}
    /\ batch' = [batch EXCEPT ![f] = @ \cup {p}]
    /\ Go(f, "collect")
    /\ UNCHANGED <<publisher, stop, breaker, history>>

WriteDone(f) ==
    /\ pc[f] = "write"
    /\ delivered' = delivered \cup batch[f]
    /\ batch' = [batch EXCEPT ![f] = {}]
    /\ ever' = TRUE /\ blocked' = FALSE
    /\ FlushEnds(f)
    /\ UNCHANGED <<publisher, queue, stop, refused, owed>>

\* Faulty: the exception ends the thread.
WriteFailsThrough(f) ==
    /\ pc[f] = "write"
    /\ Go(f, "ended")
    /\ UNCHANGED <<publisher, queue, stop, batch, breaker, history>>

\* The server may have taken the points all the same.  The backoff counts
\* from before the write, so it may be over already.
WriteFails(f) ==
    /\ pc[f] = "write"
    /\ delivered' \in {delivered, delivered \cup batch[f]}
    /\ blocked' \in IF Enabled THEN BOOLEAN ELSE {FALSE}
    /\ Go(f, "failed")
    /\ UNCHANGED <<publisher, queue, stop, batch, ever, refused, owed>>

\* Faulty: a failed batch is never kept.
AfterFailureDropping(f) ==
    /\ pc[f] = "failed"
    /\ batch' = [batch EXCEPT ![f] = {}]
    /\ IF Enabled THEN Go(f, "drain") ELSE FlushEnds(f)
    /\ UNCHANGED <<publisher, queue, stop, breaker, history>>

\* keep_batch_on_failure
AfterFailure(f) ==
    /\ pc[f] = "failed"
    /\ IF Enabled /\ ever THEN Go(f, "requeue") /\ UNCHANGED batch
       ELSE /\ batch' = [batch EXCEPT ![f] = {}]
            /\ IF Enabled THEN Go(f, "drain") ELSE FlushEnds(f)
    /\ UNCHANGED <<publisher, queue, stop, breaker, history>>

\* Faulty: the batch is queued as if it were a point.
RequeueWhole(f, p) ==
    /\ pc[f] = "requeue"
    /\ batch' = [batch EXCEPT ![f] = {}]
    /\ Put(batch[f])
    /\ UNCHANGED <<publisher, stop, pc, breaker, delivered, owed>>

Requeue(f, p) ==
    /\ pc[f] = "requeue"
    /\ batch' = [batch EXCEPT ![f] = @ \ {p}]
    /\ Put(p)
    /\ UNCHANGED <<publisher, stop, pc, breaker, delivered, owed>>

RequeueEnds(f) ==
    /\ pc[f] = "requeue" /\ batch[f] = {}
    /\ FlushEnds(f)
    /\ UNCHANGED <<publisher, queue, stop, batch, breaker, history>>

\* _drain_queue
Drain(f) ==
    /\ pc[f] = "drain"
    /\ \/ queue = {} /\ FlushEnds(f) /\ UNCHANGED queue
       \/ \E p \in queue : queue' = queue \ {p} /\ UNCHANGED pc
    /\ UNCHANGED <<publisher, stop, batch, breaker, history>>

FlushStep(f) ==
    \/ Collect(f)
    \/ \E p \in queue : Get(f, p)
    \/ WriteDone(f)
    \/ WriteFails(f)
    \/ AfterFailure(f)
    \/ \E p \in batch[f] : Requeue(f, p)
    \/ RequeueEnds(f)
    \/ Drain(f)

-----------------------------------------------------------------------------
(* close                                                                   *)

Close ==
    /\ ~stop /\ offer = {}
    /\ stop' = TRUE
    /\ UNCHANGED <<publisher, queue, pc, batch, breaker, history>>

\* join(timeout=5) returns: only a write takes that long.
CloseFlushes ==
    /\ stop /\ pc["close"] = "idle"
    /\ pc["thread"] \in {"ended", "write"}
    /\ Go("close", "collect")
    /\ UNCHANGED <<publisher, queue, stop, batch, breaker, history>>

BackoffEnds ==
    /\ blocked
    /\ blocked' = FALSE
    /\ UNCHANGED <<publisher, queue, stop, pc, batch, ever, history>>

Next ==
    \/ \E p \in todo : Offer(p)
    \/ \E p \in offer : Publish(p)
    \/ ThreadWakes
    \/ \E f \in Flushers : FlushStep(f)
    \/ Close
    \/ CloseFlushes
    \/ BackoffEnds

SafeSpec == Init /\ [][Next]_vars

\* The threads run, time passes, and a write that is tried again and again
\* succeeds now and then.
Fairness ==
    /\ WF_vars(\E p \in offer : Publish(p))
    /\ WF_vars(ThreadWakes) /\ WF_vars(CloseFlushes) /\ WF_vars(BackoffEnds)
    /\ \A f \in Flushers : WF_vars(FlushStep(f)) /\ SF_vars(WriteDone(f))

Spec == SafeSpec /\ Fairness

-----------------------------------------------------------------------------
TypeOK ==
    /\ todo \subseteq Points /\ offer \subseteq Points /\ queue \subseteq Points
    /\ stop \in BOOLEAN
    /\ pc \in [Flushers -> Phases]
    /\ batch \in [Flushers -> SUBSET Points]
    /\ ever \in BOOLEAN /\ blocked \in BOOLEAN
    /\ delivered \subseteq Points /\ refused \subseteq Points /\ owed \subseteq Points

Held == UNION {batch[f] : f \in Flushers}

\* With the breaker on, a point queued after the first successful write is
\* never lost but to a full queue: it is queued, in a batch or at the server,
\* whatever fails, and through the flush of close() (keep_batch_on_failure).
OwedNotLost == Enabled => owed \subseteq queue \cup Held \cup delivered \cup refused

\* Before the first success memory stays flat: while the breaker is open and
\* no flush is under way, the queue holds no more than the one point whose
\* _enqueue had already passed the breaker.
FlatBeforeSuccess ==
    Outage /\ (\A f \in Flushers : pc[f] \in {"idle", "ended"})
        => \A p, q \in queue \cup offer : p = q

\* The sink is a delivery queue: between publisher and server a point is in one
\* place, it is refused only when as many as the queue holds are pending, and
\* once the server was reached it is discarded or given up only with the breaker
\* off, whatever the two flushes do to each other (put_nowait under queue.Full,
\* keep_batch_on_failure, _drain_queue).
DQ == INSTANCE DeliveryQueue WITH
          todo <- todo \cup offer, pending <- queue \cup Held, reached <- ever,
          Capacity <- QueueMax, Keeps <- Enabled

ImplementsDelivery == DQ!Spec

\* Every point that was queued after the first success is delivered in the
\* end, unless the queue refused it or the sink is closed: what the backoff
\* keeps is replayed (docs/superpowers: "keep the backlog and replay").
OwedDelivered ==
    \A p \in Points :
        (p \in owed) ~> (p \in delivered \cup refused \/ stop)

\* close() ends: a last flush is attempted, whatever the flush thread does
\* (flush: "callers like shutdown want a final flush").
CloseEnds == stop ~> pc["close"] = "ended"
=============================================================================
