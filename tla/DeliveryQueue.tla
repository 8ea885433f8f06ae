--------------------------- MODULE DeliveryQueue ---------------------------
(***************************************************************************)
(* What a sink promises of the points that are published to it: each is    *)
(* refused, discarded, or pending until it is delivered or given up.       *)
(* Points are refused only for want of room, discarded and given up for    *)
(* no reason where nothing is kept, and otherwise only as long as the      *)
(* server was never reached.  Nothing is said about threads and batches,   *)
(* or about the order of delivery.                                         *)
(***************************************************************************)
EXTENDS Naturals, FiniteSets

CONSTANTS Points,    \* the points published
          Capacity,  \* how many the sink has room for
          Keeps      \* whether it keeps what it could not deliver

VARIABLES todo,       \* points not published yet
          pending,    \* points the sink answers for
          reached,    \* whether the server was ever reached
          owed,       \* those taken over since it was
          delivered,  \* points the server took
          refused     \* points there was no room for

vars == <<todo, pending, reached, owed, delivered, refused>>

Init ==
    /\ todo = Points /\ pending = {} /\ reached = FALSE
    /\ owed = {} /\ delivered = {} /\ refused = {}

Accept(p) ==
    /\ todo' = todo \ {p}
    /\ pending' = pending \cup {p}
    /\ owed' = IF reached THEN owed \cup {p} ELSE owed
    /\ UNCHANGED <<reached, delivered, refused>>

Refuse(p) ==
    /\ Cardinality(pending) >= Capacity
    /\ todo' = todo \ {p}
    /\ refused' = refused \cup {p}
    /\ UNCHANGED <<pending, reached, owed, delivered>>

\* An outage from the start on.
Discard(p) ==
    /\ Keeps /\ ~reached
    /\ todo' = todo \ {p}
    /\ UNCHANGED <<pending, reached, owed, delivered, refused>>

\* A point that could not be delivered finds that its place is taken.
Overflow(p) ==
    /\ Cardinality(pending \ {p}) >= Capacity
    /\ pending' = pending \ {p}
    /\ refused' = refused \cup {p}
    /\ UNCHANGED <<todo, reached, owed, delivered>>

Deliver(S) ==
    /\ S # {}
    /\ delivered' = delivered \cup S
    /\ pending' = pending \ S
    /\ reached' = TRUE
    /\ UNCHANGED <<todo, owed, refused>>

\* The server took the points, but the sink was told otherwise.
DeliverUnknown(S) ==
    /\ delivered' = delivered \cup S
    /\ UNCHANGED <<todo, pending, reached, owed, refused>>

GiveUp(S) ==
    /\ Keeps => S \cap owed = {}
    /\ pending' = pending \ S
    /\ UNCHANGED <<todo, reached, owed, delivered, refused>>

Next ==
    \/ \E p \in todo : Accept(p) \/ Refuse(p) \/ Discard(p)
    \/ \E p \in pending : Overflow(p)
    \/ \E S \in SUBSET pending : Deliver(S) \/ DeliverUnknown(S) \/ GiveUp(S)

Spec == Init /\ [][Next]_vars

\* What is owed is pending or delivered, unless there was no room for it.
NoneLost == Keeps => owed \subseteq pending \cup delivered \cup refused
=============================================================================
