-------------------------- MODULE FlushSinkProofs ---------------------------
(***************************************************************************)
(* Proofs about FlushSink, for any points, capacities and batch sizes.     *)
(***************************************************************************)
EXTENDS FlushSink, FiniteSetTheorems, TLAPS

\* Where a flush leads.
LEMMA FlushEndsType ==
    ASSUME TypeOK, NEW f \in Flushers, FlushEnds(f)
    PROVE  pc' \in [Flushers -> Phases] /\ pc'[f] \in {"idle", "ended"}
BY DEF TypeOK, FlushEnds, Go, Flushers, Phases

\* Moving a flusher to a phase keeps the phases typed.
LEMMA GoType ==
    ASSUME TypeOK, NEW f \in Flushers, NEW phase \in Phases, Go(f, phase)
    PROVE  pc' \in [Flushers -> Phases] /\ pc'[f] = phase
BY DEF TypeOK, Go

\* The phases a step names are phases, and there are two flushers.
LEMMA PhaseNames ==
    /\ \A phase \in {"idle", "collect", "get", "write", "failed", "requeue", "drain", "ended"} :
           phase \in Phases
    /\ "thread" \in Flushers /\ "close" \in Flushers
BY DEF Phases, Flushers

\* A put, into a queue with room or a full one, keeps points in their sets.
LEMMA PutType ==
    ASSUME TypeOK, NEW p \in Points, Put(p)
    PROVE  queue' \subseteq Points /\ refused' \subseteq Points
BY DEF TypeOK, Put

\* Every step of a flush keeps the types.
LEMMA FlushStepType ==
    ASSUME TypeOK, NEW f \in Flushers, FlushStep(f)
    PROVE  TypeOK'
<1> USE PhaseNames DEF publisher, breaker, history
<1>1. CASE Collect(f)
  <2>1. pc' \in [Flushers -> Phases]
    BY <1>1, FlushEndsType, GoType DEF Collect
  <2> QED BY <1>1, <2>1 DEF Collect, TypeOK
<1>2. ASSUME NEW p \in queue, Get(f, p) PROVE TypeOK'
  <2>1. pc' \in [Flushers -> Phases]
    BY <1>2, GoType DEF Get
  <2> QED BY <1>2, <2>1 DEF Get, TypeOK
<1>3. CASE WriteDone(f)
  <2>1. pc' \in [Flushers -> Phases]
    BY <1>3, FlushEndsType DEF WriteDone
  <2> QED BY <1>3, <2>1 DEF WriteDone, TypeOK
<1>4. CASE WriteFails(f)
  <2>1. pc' \in [Flushers -> Phases]
    BY <1>4, GoType DEF WriteFails
  <2>2. blocked' \in BOOLEAN /\ delivered' \subseteq Points
    BY <1>4 DEF WriteFails, TypeOK
  <2> QED BY <1>4, <2>1, <2>2 DEF WriteFails, TypeOK
<1>5. CASE AfterFailure(f)
  <2>1. pc' \in [Flushers -> Phases]
    BY <1>5, FlushEndsType, GoType DEF AfterFailure
  <2>2. batch' \in [Flushers -> SUBSET Points]
    BY <1>5 DEF AfterFailure, TypeOK
  <2> QED BY <1>5, <2>1, <2>2 DEF AfterFailure, TypeOK
<1>6. ASSUME NEW p \in batch[f], Requeue(f, p) PROVE TypeOK'
  <2>1. p \in Points /\ batch' \in [Flushers -> SUBSET Points]
    BY <1>6 DEF Requeue, TypeOK
  <2>2. queue' \subseteq Points /\ refused' \subseteq Points
    BY <1>6, <2>1, PutType DEF Requeue
  <2> QED BY <1>6, <2>1, <2>2 DEF Requeue, TypeOK
<1>7. CASE RequeueEnds(f)
  <2>1. pc' \in [Flushers -> Phases]
    BY <1>7, FlushEndsType DEF RequeueEnds
  <2> QED BY <1>7, <2>1 DEF RequeueEnds, TypeOK
<1>8. CASE Drain(f)
  <2>1. pc' \in [Flushers -> Phases] /\ queue' \subseteq Points
    BY <1>8, FlushEndsType DEF Drain, TypeOK
  <2> QED BY <1>8, <2>1 DEF Drain, TypeOK
<1> QED BY <1>1, <1>2, <1>3, <1>4, <1>5, <1>6, <1>7, <1>8 DEF FlushStep

\* Every step of the sink keeps the types.
LEMMA TypeStep == TypeOK /\ [Next]_vars => TypeOK'
<1> SUFFICES ASSUME TypeOK, [Next]_vars PROVE TypeOK'
  OBVIOUS
<1> USE PhaseNames DEF publisher, breaker, history
<1>1. ASSUME NEW p \in todo, Offer(p) PROVE TypeOK'
  BY <1>1 DEF Offer, TypeOK
<1>2. ASSUME NEW p \in offer, Publish(p) PROVE TypeOK'
  <2>1. p \in Points
    BY DEF TypeOK
  <2>2. queue' \subseteq Points /\ refused' \subseteq Points
    BY <1>2, <2>1, PutType DEF Publish
  <2> QED BY <1>2, <2>1, <2>2 DEF Publish, TypeOK
<1>3. CASE ThreadWakes
  <2>1. pc' \in [Flushers -> Phases]
    BY <1>3, GoType DEF ThreadWakes
  <2> QED BY <1>3, <2>1 DEF ThreadWakes, TypeOK
<1>4. CASE \E f \in Flushers : FlushStep(f)
  BY <1>4, FlushStepType
<1>5. CASE Close
  BY <1>5 DEF Close, TypeOK
<1>6. CASE CloseFlushes
  <2>1. pc' \in [Flushers -> Phases]
    BY <1>6, GoType DEF CloseFlushes
  <2> QED BY <1>6, <2>1 DEF CloseFlushes, TypeOK
<1>7. CASE BackoffEnds
  BY <1>7 DEF BackoffEnds, TypeOK
<1>8. CASE UNCHANGED vars
  BY <1>8 DEF vars, TypeOK
<1> QED BY <1>1, <1>2, <1>3, <1>4, <1>5, <1>6, <1>7, <1>8 DEF Next

\* Every variable keeps its type: what is queued, batched and re-queued are
\* single points, whatever fails.
THEOREM TypeCorrect == SafeSpec => []TypeOK
<1>1. Init => TypeOK
  BY PhaseNames DEF Init, TypeOK
<1> QED BY <1>1, TypeStep, PTL DEF SafeSpec

-----------------------------------------------------------------------------
(* Nothing owed is lost.  Both ways to drop a batch or the queue are taken *)
(* before the first success only, when nothing is owed; the thread may     *)
(* still be draining when close() succeeds, but then nothing is published  *)
(* any more.                                                               *)

Kept == queue \cup Held \cup delivered \cup refused

LossInv ==
    /\ owed # {} => ever
    /\ pc["close"] # "idle" => stop
    /\ stop => offer = {}
    /\ \A f \in Flushers : pc[f] = "drain" => owed = {} /\ (ever => stop)

\* An owed point that is not kept any more was in the batch of f.
LEMMA HeldStep ==
    ASSUME TypeOK, NEW f \in Flushers,
           \A g \in Flushers \ {f} : batch'[g] = batch[g]
    PROVE  Held \subseteq Held' \cup batch[f] /\ batch'[f] \subseteq Held'
BY DEF Held

\* A step of a flush keeps every owed point, given the others LossInv
\* relates.
LEMMA FlushKeeps ==
    ASSUME TypeOK, Enabled, LossInv, owed \subseteq Kept, NEW f \in Flushers, FlushStep(f)
    PROVE  LossInv' /\ owed' \subseteq Kept'
<1> USE PhaseNames DEF publisher, breaker, history
<1>0. pc \in [Flushers -> Phases] /\ batch \in [Flushers -> SUBSET Points]
  BY DEF TypeOK
<1>1. CASE Collect(f)
  <2>1. pc' = [pc EXCEPT ![f] = pc'[f]] /\ pc'[f] \in {"idle", "ended", "get", "write"}
        /\ pc[f] = "collect"
    BY <1>0, <1>1 DEF Collect, FlushEnds, Go
  <2>2. Kept' = Kept
    BY <1>1 DEF Collect, Kept, Held
  <2>3. LossInv'
    BY <1>0, <1>1, <2>1 DEF Collect, LossInv
  <2> QED BY <1>1, <2>2, <2>3 DEF Collect
<1>2. ASSUME NEW p \in queue, Get(f, p)
      PROVE  LossInv' /\ owed' \subseteq Kept'
  <2>1. LossInv'
    BY <1>0, <1>2 DEF Get, Go, LossInv
  <2>2. Held \subseteq Held' /\ p \in Held'
    <3>1. \A g \in Flushers : batch[g] \subseteq batch'[g]
      BY <1>0, <1>2 DEF Get
    <3>2. p \in batch'[f]
      BY <1>0, <1>2 DEF Get
    <3> QED BY <3>1, <3>2 DEF Held
  <2> QED BY <1>2, <2>1, <2>2 DEF Get, Kept
<1>3. CASE WriteDone(f)
  <2>1. LossInv'
    <3>1. pc'[f] \in {"idle", "ended"} /\ \A g \in Flushers \ {f} : pc'[g] = pc[g]
      BY <1>0, <1>3 DEF WriteDone, FlushEnds, Go
    <3>2. pc[f] # "idle"
      BY <1>3 DEF WriteDone
    <3>3. \A g \in Flushers \ {f} : pc[g] = "drain" => stop
      BY <3>2 DEF LossInv, Flushers
    <3>4. pc'["close"] # "idle" => stop
      BY <3>1, <3>2 DEF LossInv
    <3> QED BY <1>3, <3>1, <3>3, <3>4 DEF WriteDone, LossInv
  <2>2. Held \subseteq Held' \cup batch[f]
    BY <1>0, <1>3, HeldStep DEF WriteDone
  <2> QED BY <1>3, <2>1, <2>2 DEF WriteDone, Kept
<1>4. CASE WriteFails(f)
  <2>1. LossInv'
    BY <1>0, <1>4 DEF WriteFails, Go, LossInv
  <2>2. Kept \subseteq Kept'
    BY <1>4 DEF WriteFails, Kept, Held
  <2> QED BY <1>4, <2>1, <2>2 DEF WriteFails
<1>5. CASE AfterFailure(f)
  <2>1. CASE ever
    <3>1. Go(f, "requeue") /\ UNCHANGED <<publisher, queue, stop, batch, breaker, history>>
      BY <1>5, <2>1 DEF AfterFailure
    <3>2. LossInv'
      BY <1>0, <1>5, <3>1 DEF AfterFailure, Go, LossInv
    <3>3. Kept' = Kept
      BY <3>1 DEF Kept, Held
    <3> QED BY <3>1, <3>2, <3>3
  <2>2. CASE ~ever
    <3>1. Go(f, "drain") /\ UNCHANGED <<publisher, queue, stop, breaker, history>>
      BY <1>5, <2>2 DEF AfterFailure
    <3>2. owed = {}
      BY <2>2 DEF LossInv
    <3>3. LossInv'
      BY <1>0, <1>5, <2>2, <3>1, <3>2 DEF AfterFailure, Go, LossInv
    <3> QED BY <3>1, <3>2, <3>3
  <2> QED BY <2>1, <2>2
<1>6. ASSUME NEW p \in batch[f], Requeue(f, p)
      PROVE  LossInv' /\ owed' \subseteq Kept'
  <2>1. LossInv'
    BY <1>6 DEF Requeue, LossInv
  <2>2. Held \subseteq Held' \cup {p}
    <3>1. \A g \in Flushers : batch[g] \subseteq batch'[g] \cup {p}
      BY <1>0, <1>6 DEF Requeue
    <3> QED BY <3>1 DEF Held
  <2>3. p \in queue' \cup refused' /\ queue \subseteq queue' /\ refused \subseteq refused'
    BY <1>6 DEF Requeue, Put
  <2> QED BY <1>6, <2>1, <2>2, <2>3 DEF Requeue, Kept
<1>7. CASE RequeueEnds(f)
  <2>1. LossInv'
    BY <1>0, <1>7 DEF RequeueEnds, FlushEnds, Go, LossInv
  <2>2. Kept' = Kept
    BY <1>7 DEF RequeueEnds, Kept, Held
  <2> QED BY <1>7, <2>1, <2>2 DEF RequeueEnds
<1>8. CASE Drain(f)
  <2>1. owed = {} /\ owed' = owed
    BY <1>8 DEF Drain, LossInv
  <2>2. LossInv'
    BY <1>0, <1>8 DEF Drain, FlushEnds, Go, LossInv
  <2> QED BY <2>1, <2>2
<1> QED BY <1>1, <1>2, <1>3, <1>4, <1>5, <1>6, <1>7, <1>8 DEF FlushStep

\* Every step of the sink keeps every owed point.
LEMMA KeepStep ==
    TypeOK /\ Enabled /\ LossInv /\ owed \subseteq Kept /\ [Next]_vars
        => LossInv' /\ owed' \subseteq Kept'
<1> SUFFICES ASSUME TypeOK, Enabled, LossInv, owed \subseteq Kept, [Next]_vars
             PROVE  LossInv' /\ owed' \subseteq Kept'
  OBVIOUS
<1> USE PhaseNames DEF publisher, breaker, history
<1>0. pc \in [Flushers -> Phases]
  BY DEF TypeOK
<1>1. ASSUME NEW p \in todo, Offer(p)
      PROVE  LossInv' /\ owed' \subseteq Kept'
  BY <1>1 DEF Offer, LossInv, Kept, Held
<1>2. ASSUME NEW p \in offer, Publish(p)
      PROVE  LossInv' /\ owed' \subseteq Kept'
  <2>1. ~stop
    BY DEF LossInv
  <2>2. LossInv'
    BY <1>2, <2>1 DEF Publish, LossInv
  <2>3. queue \subseteq queue' /\ refused \subseteq refused'
    BY <1>2 DEF Publish, Put
  <2>4. Held' = Held
    BY <1>2 DEF Publish, Held
  <2> QED BY <1>2, <2>2, <2>3, <2>4 DEF Publish, Kept
<1>3. CASE ThreadWakes
  <2>1. LossInv'
    BY <1>0, <1>3 DEF ThreadWakes, Go, LossInv, Flushers
  <2>2. Kept' = Kept
    BY <1>3 DEF ThreadWakes, Kept, Held
  <2> QED BY <1>3, <2>1, <2>2 DEF ThreadWakes
<1>4. CASE \E f \in Flushers : FlushStep(f)
  BY <1>4, FlushKeeps
<1>5. CASE Close
  BY <1>5 DEF Close, LossInv, Kept, Held
<1>6. CASE CloseFlushes
  <2>1. LossInv'
    BY <1>0, <1>6 DEF CloseFlushes, Go, LossInv, Flushers
  <2>2. Kept' = Kept
    BY <1>6 DEF CloseFlushes, Kept, Held
  <2> QED BY <1>6, <2>1, <2>2 DEF CloseFlushes
<1>7. CASE BackoffEnds
  BY <1>7 DEF BackoffEnds, LossInv, Kept, Held
<1>8. CASE UNCHANGED vars
  BY <1>8 DEF vars, LossInv, Kept, Held
<1> QED BY <1>1, <1>2, <1>3, <1>4, <1>5, <1>6, <1>7, <1>8 DEF Next

KeepInv == Enabled => LossInv /\ owed \subseteq Kept

\* With the breaker on, the sink always keeps what is owed.
LEMMA KeepAlways == SafeSpec => []KeepInv
<1>1. Init => KeepInv
  BY PhaseNames DEF Init, LossInv, KeepInv
<1>2. TypeOK /\ KeepInv /\ [Next]_vars => KeepInv'
  BY KeepStep DEF KeepInv
<1> QED BY <1>1, <1>2, TypeCorrect, PTL DEF SafeSpec

\* With the breaker on, a point queued after the first successful write is
\* never lost but to a full queue, whichever writes fail and however the flush
\* thread and the flush of close() interleave.
THEOREM NotLost == SafeSpec => []OwedNotLost
<1>1. KeepInv => OwedNotLost
  BY DEF KeepInv, OwedNotLost, Kept
<1> QED BY <1>1, KeepAlways, PTL

-----------------------------------------------------------------------------
(* Memory stays flat before the first success.                             *)

Alike == \A p, q \in queue \cup offer : p = q

FlatInv ==
    /\ \A p, q \in offer : p = q
    /\ \A f \in Flushers : pc[f] = "requeue" => ever
    /\ Outage => Alike \/ \E f \in Flushers : pc[f] \in {"failed", "drain"}

\* A step of a flush keeps the points waiting in an outage alike.
LEMMA FlatFlush ==
    ASSUME TypeOK, Enabled, FlatInv, NEW f \in Flushers, FlushStep(f)
    PROVE  FlatInv'
<1> USE PhaseNames DEF publisher, breaker, history
<1>0. pc \in [Flushers -> Phases] /\ ever \in BOOLEAN /\ blocked \in BOOLEAN
  BY DEF TypeOK
<1>1. CASE Collect(f)
  <2>1. /\ pc[f] = "collect" /\ pc'[f] \in {"idle", "ended", "get", "write"}
        /\ \A g \in Flushers \ {f} : pc'[g] = pc[g]
        /\ UNCHANGED <<queue, offer, ever, blocked>>
    BY <1>0, <1>1 DEF Collect, FlushEnds, Go
  <2> QED BY <2>1 DEF FlatInv, Alike, Outage
<1>2. ASSUME NEW p \in queue, Get(f, p) PROVE FlatInv'
  <2>1. /\ pc[f] = "get" /\ pc'[f] = "collect"
        /\ \A g \in Flushers \ {f} : pc'[g] = pc[g]
        /\ UNCHANGED <<offer, ever, blocked>> /\ queue' \subseteq queue
    BY <1>0, <1>2 DEF Get, Go
  <2> QED BY <2>1 DEF FlatInv, Alike, Outage
<1>3. CASE WriteDone(f)
  <2>1. ~Outage' /\ ever' /\ offer' = offer
    BY <1>3 DEF WriteDone, Outage
  <2> QED BY <2>1 DEF FlatInv
<1>4. CASE WriteFails(f)
  <2>1. /\ pc'[f] = "failed" /\ \A g \in Flushers \ {f} : pc'[g] = pc[g]
        /\ UNCHANGED <<offer, ever>>
    BY <1>0, <1>4 DEF WriteFails, Go
  <2> QED BY <2>1 DEF FlatInv
<1>5. CASE AfterFailure(f)
  <2>1. /\ pc'[f] = IF ever THEN "requeue" ELSE "drain"
        /\ \A g \in Flushers \ {f} : pc'[g] = pc[g]
        /\ UNCHANGED <<queue, offer, ever, blocked>>
    BY <1>0, <1>5 DEF AfterFailure, Go
  <2>2. CASE ever
    BY <2>1, <2>2 DEF FlatInv, Outage
  <2>3. CASE ~ever
    BY <2>1, <2>3 DEF FlatInv
  <2> QED BY <2>2, <2>3
<1>6. ASSUME NEW p \in batch[f], Requeue(f, p) PROVE FlatInv'
  <2>1. ever /\ UNCHANGED <<pc, ever, offer>>
    BY <1>6 DEF Requeue, FlatInv
  <2> QED BY <2>1 DEF FlatInv, Outage
<1>7. CASE RequeueEnds(f)
  <2>1. /\ ever /\ pc'[f] \in {"idle", "ended"}
        /\ \A g \in Flushers \ {f} : pc'[g] = pc[g]
        /\ UNCHANGED <<ever, offer>>
    BY <1>0, <1>7 DEF RequeueEnds, FlushEnds, Go, FlatInv
  <2> QED BY <2>1 DEF FlatInv, Outage
<1>8. CASE Drain(f)
  <2>1. CASE queue = {} /\ FlushEnds(f) /\ UNCHANGED queue
    <3>1. Alike' /\ UNCHANGED <<ever, blocked, offer>>
      BY <1>8, <2>1 DEF Drain, Alike, FlatInv
    <3>2. \A g \in Flushers : pc'[g] = "requeue" => ever
      BY <1>0, <2>1 DEF FlushEnds, Go, FlatInv
    <3> QED BY <3>1, <3>2 DEF FlatInv
  <2>2. CASE queue' \subseteq queue /\ UNCHANGED pc
    BY <1>8, <2>2 DEF Drain, FlatInv, Alike, Outage
  <2> QED BY <1>8, <2>1, <2>2 DEF Drain
<1> QED BY <1>1, <1>2, <1>3, <1>4, <1>5, <1>6, <1>7, <1>8 DEF FlushStep

\* Every step of the sink keeps the points waiting in an outage alike.
LEMMA FlatStep == TypeOK /\ (Enabled => FlatInv) /\ [Next]_vars => (Enabled => FlatInv')
<1> SUFFICES ASSUME TypeOK, Enabled, FlatInv, [Next]_vars PROVE FlatInv'
  OBVIOUS
<1> USE PhaseNames DEF publisher, breaker, history
<1>0. pc \in [Flushers -> Phases]
  BY DEF TypeOK
<1>1. ASSUME NEW p \in todo, Offer(p) PROVE FlatInv'
  <2>1. CASE Outage
    BY <1>1, <2>1 DEF Offer, FlatInv, Alike, Outage
  <2>2. CASE ~Outage
    BY <1>1, <2>2 DEF Offer, FlatInv, Outage
  <2> QED BY <2>1, <2>2
<1>2. ASSUME NEW p \in offer, Publish(p) PROVE FlatInv'
  <2>1. queue' \cup offer' \subseteq queue \cup offer
    BY <1>2 DEF Publish, Put
  <2> QED BY <1>2, <2>1 DEF Publish, FlatInv, Alike, Outage
<1>3. CASE ThreadWakes \/ CloseFlushes
  <2>1. /\ \A f \in Flushers : pc'[f] # pc[f] => pc[f] = "idle" /\ pc'[f] # "requeue"
        /\ UNCHANGED <<queue, offer, ever, blocked>>
    BY <1>0, <1>3 DEF ThreadWakes, CloseFlushes, Go
  <2> QED BY <2>1 DEF FlatInv, Alike, Outage
<1>4. CASE \E f \in Flushers : FlushStep(f)
  BY <1>4, FlatFlush
<1>5. CASE Close
  BY <1>5 DEF Close, FlatInv, Alike, Outage
<1>6. CASE BackoffEnds
  BY <1>6 DEF BackoffEnds, FlatInv, Alike, Outage
<1>7. CASE UNCHANGED vars
  BY <1>7 DEF vars, FlatInv, Alike, Outage
<1> QED BY <1>1, <1>2, <1>3, <1>4, <1>5, <1>6, <1>7 DEF Next

\* While the server was never reached and the breaker is open, nothing but one
\* late point is queued, for any number of points and any order of the threads.
THEOREM Flat == SafeSpec => []FlatBeforeSuccess
<1>1. Init => (Enabled => FlatInv)
  BY PhaseNames DEF Init, FlatInv, Outage
<1>2. (Enabled => FlatInv) => FlatBeforeSuccess
  BY DEF FlatInv, FlatBeforeSuccess, Alike, Outage
<1>3. TypeOK /\ (Enabled => FlatInv) /\ [Next]_vars => (Enabled => FlatInv)'
  BY FlatStep
<1> QED BY <1>1, <1>2, <1>3, TypeCorrect, PTL DEF SafeSpec

-----------------------------------------------------------------------------
(* A point is in one place, which is why sets do for the queue and the     *)
(* batches, and there is room for it.                                      *)

PlaceInv ==
    /\ \A p, q \in offer : p = q
    /\ todo \cap (offer \cup queue) = {} /\ offer \cap queue = {}
    /\ \A f \in Flushers : batch[f] \cap (todo \cup offer \cup queue) = {}
    /\ \A f, g \in Flushers : f # g => batch[f] \cap batch[g] = {}

\* A put moves a point that was nowhere else into the queue, or nowhere.
LEMMA PutPlace ==
    ASSUME NEW p, Put(p)
    PROVE  queue' = queue \cup {p} \/ queue' = queue
BY DEF Put

\* Every step of a flush moves points from one place to another.
LEMMA PlaceFlush ==
    ASSUME TypeOK, PlaceInv, NEW f \in Flushers, FlushStep(f)
    PROVE  PlaceInv'
<1> USE DEF publisher, breaker, history
<1>0. batch \in [Flushers -> SUBSET Points]
  BY DEF TypeOK
<1>1. CASE Collect(f) \/ WriteFails(f) \/ RequeueEnds(f)
  <2>1. UNCHANGED <<todo, offer, queue, batch>>
    BY <1>1 DEF Collect, WriteFails, RequeueEnds
  <2> QED BY <2>1 DEF PlaceInv
<1>2. ASSUME NEW p \in queue, Get(f, p) PROVE PlaceInv'
  <2>1. /\ UNCHANGED <<todo, offer>> /\ queue' = queue \ {p}
        /\ batch'[f] = batch[f] \cup {p}
        /\ \A g \in Flushers : g # f => batch'[g] = batch[g]
    BY <1>0, <1>2 DEF Get
  <2>2. \A g \in Flushers : batch'[g] \cap (todo' \cup offer' \cup queue') = {}
    <3> SUFFICES ASSUME NEW g \in Flushers
                 PROVE  batch'[g] \cap (todo' \cup offer' \cup queue') = {}
      OBVIOUS
    <3>1. CASE g = f
      BY <2>1, <3>1 DEF PlaceInv
    <3>2. CASE g # f
      BY <2>1, <3>2 DEF PlaceInv
    <3> QED BY <3>1, <3>2
  <2>3. \A g, h \in Flushers : g # h => batch'[g] \cap batch'[h] = {}
    BY <2>1 DEF PlaceInv
  <2> QED BY <2>1, <2>2, <2>3 DEF PlaceInv
<1>3. CASE WriteDone(f) \/ AfterFailure(f)
  <2>1. UNCHANGED <<todo, offer, queue>> /\ \A g \in Flushers : batch'[g] \subseteq batch[g]
    BY <1>0, <1>3 DEF WriteDone, AfterFailure
  <2> QED BY <2>1 DEF PlaceInv
<1>4. ASSUME NEW p \in batch[f], Requeue(f, p) PROVE PlaceInv'
  <2>1. /\ UNCHANGED <<todo, offer>> /\ queue' \subseteq queue \cup {p}
        /\ batch'[f] = batch[f] \ {p}
        /\ \A g \in Flushers : g # f => batch'[g] = batch[g]
    BY <1>0, <1>4, PutPlace DEF Requeue
  <2>2. \A g \in Flushers : batch'[g] \cap (todo' \cup offer' \cup queue') = {}
    <3> SUFFICES ASSUME NEW g \in Flushers
                 PROVE  batch'[g] \cap (todo' \cup offer' \cup queue') = {}
      OBVIOUS
    <3>1. CASE g = f
      BY <2>1, <3>1 DEF PlaceInv
    <3>2. CASE g # f
      <4>1. p \notin batch[g]
        BY <3>2 DEF PlaceInv
      <4> QED BY <2>1, <3>2, <4>1 DEF PlaceInv
    <3> QED BY <3>1, <3>2
  <2>3. \A g, h \in Flushers : g # h => batch'[g] \cap batch'[h] = {}
    BY <2>1 DEF PlaceInv
  <2>4. (todo' \cup offer') \cap queue' = {}
    BY <1>4, <2>1 DEF PlaceInv
  <2> QED BY <2>1, <2>2, <2>3, <2>4 DEF PlaceInv
<1>5. CASE Drain(f)
  <2>1. UNCHANGED <<todo, offer, batch>> /\ queue' \subseteq queue
    BY <1>5 DEF Drain
  <2> QED BY <2>1 DEF PlaceInv
<1> QED BY <1>1, <1>2, <1>3, <1>4, <1>5 DEF FlushStep

\* Every step of the sink keeps every point in one place.
LEMMA PlaceStep == TypeOK /\ PlaceInv /\ [Next]_vars => PlaceInv'
<1> SUFFICES ASSUME TypeOK, PlaceInv, [Next]_vars PROVE PlaceInv'
  OBVIOUS
<1> USE DEF publisher, breaker, history
<1>1. ASSUME NEW p \in todo, Offer(p) PROVE PlaceInv'
  <2>1. /\ offer' \subseteq {p} /\ todo' = todo \ {p} /\ UNCHANGED <<queue, batch>>
    BY <1>1 DEF Offer
  <2>2. p \notin queue /\ \A f \in Flushers : p \notin batch[f]
    BY DEF PlaceInv
  <2> QED BY <2>1, <2>2 DEF PlaceInv
<1>2. ASSUME NEW p \in offer, Publish(p) PROVE PlaceInv'
  <2>1. /\ offer' = {} /\ queue' \subseteq queue \cup {p} /\ UNCHANGED <<todo, batch>>
    BY <1>2, PutPlace DEF Publish
  <2>2. p \notin todo /\ \A f \in Flushers : p \notin batch[f]
    BY DEF PlaceInv
  <2> QED BY <2>1, <2>2 DEF PlaceInv
<1>3. CASE ThreadWakes \/ Close \/ CloseFlushes \/ BackoffEnds \/ UNCHANGED vars
  <2>1. UNCHANGED <<todo, offer, queue, batch>>
    BY <1>3 DEF ThreadWakes, Close, CloseFlushes, BackoffEnds, vars
  <2> QED BY <2>1 DEF PlaceInv
<1>4. CASE \E f \in Flushers : FlushStep(f)
  BY <1>4, PlaceFlush
<1> QED BY <1>1, <1>2, <1>3, <1>4 DEF Next

\* Between publisher and server a point is in one place: it is neither queued
\* twice nor in two batches, so that two flushes at a time send nothing twice
\* (Q.get takes what it returns).
THEOREM OnePlace == SafeSpec => []PlaceInv
<1>1. Init => PlaceInv
  BY DEF Init, PlaceInv
<1> QED BY <1>1, PlaceStep, TypeCorrect, PTL DEF SafeSpec

-----------------------------------------------------------------------------
(* Memory is bounded once the server was reached, too: by the capacity of  *)
(* the queue and a batch for each of the two flushes.                      *)

SizeInv ==
    /\ IsFiniteSet(queue) /\ Cardinality(queue) <= QueueMax
    /\ \A f \in Flushers :
           /\ IsFiniteSet(batch[f]) /\ Cardinality(batch[f]) <= BatchMax
           /\ pc[f] = "get" => Cardinality(batch[f]) < BatchMax
           /\ pc[f] \in {"write", "failed"} => batch[f] # {}

\* A set that loses a point stays within its bound.
LEMMA Shrinks ==
    ASSUME NEW S, NEW x, NEW n \in Nat, IsFiniteSet(S), Cardinality(S) <= n
    PROVE  IsFiniteSet(S \ {x}) /\ Cardinality(S \ {x}) <= n
<1>1. Cardinality(S) \in Nat /\ IsFiniteSet(S \ {x})
  BY FS_CardinalityType, FS_RemoveElement
<1>2. Cardinality(S \ {x}) = IF x \in S THEN Cardinality(S) - 1 ELSE Cardinality(S)
  BY FS_RemoveElement
<1> QED BY <1>1, <1>2

\* A set below its bound may take one.
LEMMA Grows ==
    ASSUME NEW S, NEW x, NEW n \in Nat, IsFiniteSet(S), Cardinality(S) < n
    PROVE  IsFiniteSet(S \cup {x}) /\ Cardinality(S \cup {x}) <= n
<1>1. Cardinality(S) \in Nat /\ IsFiniteSet(S \cup {x})
  BY FS_CardinalityType, FS_AddElement
<1>2. Cardinality(S \cup {x}) = IF x \in S THEN Cardinality(S) ELSE Cardinality(S) + 1
  BY FS_AddElement
<1> QED BY <1>1, <1>2

\* A put fills a place that is free.
LEMMA PutSize ==
    ASSUME NEW p, Put(p), IsFiniteSet(queue), Cardinality(queue) <= QueueMax
    PROVE  IsFiniteSet(queue') /\ Cardinality(queue') <= QueueMax
<1>1. CASE Cardinality(queue) < QueueMax
  BY <1>1, Grows, SinkAssumption DEF Put
<1>2. CASE ~(Cardinality(queue) < QueueMax)
  BY <1>2 DEF Put
<1> QED BY <1>1, <1>2

\* A step of a flush keeps queue and batches within their bounds.
LEMMA SizeFlush ==
    ASSUME TypeOK, SizeInv, NEW f \in Flushers, FlushStep(f)
    PROVE  SizeInv'
<1> USE DEF publisher, breaker, history
<1>0. batch \in [Flushers -> SUBSET Points] /\ pc \in [Flushers -> Phases]
  BY DEF TypeOK
<1> DEFINE InBatch(g) ==
        /\ IsFiniteSet(batch[g]) /\ Cardinality(batch[g]) <= BatchMax
        /\ pc[g] = "get" => Cardinality(batch[g]) < BatchMax
        /\ pc[g] \in {"write", "failed"} => batch[g] # {}
<1>a. IsFiniteSet(queue) /\ Cardinality(queue) <= QueueMax /\ InBatch(f)
  BY DEF SizeInv
<1>b. ASSUME IsFiniteSet(queue'), (Cardinality(queue) <= QueueMax)', InBatch(f)',
             \A g \in Flushers : g # f => pc'[g] = pc[g] /\ batch'[g] = batch[g]
      PROVE  SizeInv'
  <2>1. \A g \in Flushers : g # f => InBatch(g)'
    BY <1>b DEF SizeInv
  <2> QED BY <1>b, <2>1 DEF SizeInv
<1>c. \A g \in Flushers : g # f => pc'[g] = pc[g] /\ batch'[g] = batch[g]
  BY <1>0 DEF FlushStep, Collect, Get, WriteDone, WriteFails, AfterFailure, Requeue,
              RequeueEnds, Drain, FlushEnds, Go
<1>d. IsFiniteSet({}) /\ Cardinality({}) = 0
  BY FS_EmptySet
<1>e. QueueMax \in Nat /\ BatchMax \in Nat
  BY SinkAssumption
<1>1. CASE Collect(f)
  <2>1. UNCHANGED <<queue, batch>> /\ pc'[f] \in {"idle", "ended", "get", "write"}
        /\ (pc'[f] = "get" => Cardinality(batch[f]) < BatchMax)
        /\ (pc'[f] = "write" => batch[f] # {})
    BY <1>0, <1>1 DEF Collect, FlushEnds, Go
  <2> HIDE DEF InBatch
  <2>2. InBatch(f)'
    BY <1>a, <2>1 DEF InBatch
  <2> QED BY <1>a, <1>b, <1>c, <2>1, <2>2
<1>2. ASSUME NEW p \in queue, Get(f, p) PROVE SizeInv'
  <2>1. /\ queue' = queue \ {p} /\ batch'[f] = batch[f] \cup {p}
        /\ pc[f] = "get" /\ pc'[f] = "collect"
    BY <1>0, <1>2 DEF Get, Go
  <2>2. IsFiniteSet(queue') /\ Cardinality(queue') <= QueueMax
    BY <1>a, <2>1, Shrinks, SinkAssumption
  <2>3. IsFiniteSet(batch[f] \cup {p}) /\ Cardinality(batch[f] \cup {p}) <= BatchMax
    <3>1. IsFiniteSet(batch[f]) /\ Cardinality(batch[f]) < BatchMax
      BY <1>a, <2>1
    <3> QED BY <1>e, <3>1, Grows
  <2> QED BY <1>b, <1>c, <2>1, <2>2, <2>3
<1>3. CASE WriteDone(f) \/ AfterFailure(f)
  <2>1. queue' = queue /\ pc'[f] \in {"idle", "ended", "drain", "requeue"}
        /\ batch'[f] \in {batch[f], {}}
    BY <1>0, <1>3 DEF WriteDone, AfterFailure, FlushEnds, Go
  <2>2. IsFiniteSet(batch'[f]) /\ Cardinality(batch'[f]) <= BatchMax
    BY <1>a, <1>d, <2>1, SinkAssumption
  <2> QED BY <1>a, <1>b, <1>c, <2>1, <2>2
<1>4. CASE WriteFails(f)
  <2>1. UNCHANGED <<queue, batch>> /\ pc[f] = "write" /\ pc'[f] = "failed"
    BY <1>0, <1>4 DEF WriteFails, Go
  <2> QED BY <1>a, <1>b, <1>c, <2>1
<1>5. ASSUME NEW p \in batch[f], Requeue(f, p) PROVE SizeInv'
  <2>1. pc[f] = "requeue" /\ pc' = pc /\ batch'[f] = batch[f] \ {p}
    BY <1>0, <1>5 DEF Requeue
  <2>2. IsFiniteSet(queue') /\ Cardinality(queue') <= QueueMax
    BY <1>a, <1>5, PutSize DEF Requeue
  <2>3. IsFiniteSet(batch[f] \ {p}) /\ Cardinality(batch[f] \ {p}) <= BatchMax
    <3>1. IsFiniteSet(batch[f]) /\ Cardinality(batch[f]) <= BatchMax
      BY <1>a
    <3> QED BY <1>e, <3>1, Shrinks
  <2> QED BY <1>b, <1>c, <2>1, <2>2, <2>3
<1>6. CASE RequeueEnds(f)
  <2>1. UNCHANGED <<queue, batch>> /\ pc'[f] \in {"idle", "ended"}
    BY <1>0, <1>6 DEF RequeueEnds, FlushEnds, Go
  <2> QED BY <1>a, <1>b, <1>c, <2>1
<1>7. CASE Drain(f)
  <2>1. /\ batch' = batch /\ pc'[f] \in {"idle", "ended", "drain"}
        /\ queue' = queue \/ \E p \in queue : queue' = queue \ {p}
    BY <1>0, <1>7 DEF Drain, FlushEnds, Go
  <2>2. \A p : IsFiniteSet(queue \ {p}) /\ Cardinality(queue \ {p}) <= QueueMax
    BY <1>a, <1>e, Shrinks
  <2>3. IsFiniteSet(queue') /\ Cardinality(queue') <= QueueMax
    BY <1>a, <2>1, <2>2
  <2> QED BY <1>a, <1>b, <1>c, <2>1, <2>3
<1> QED BY <1>1, <1>2, <1>3, <1>4, <1>5, <1>6, <1>7 DEF FlushStep

\* Every step of the sink keeps queue and batches within their bounds.
LEMMA SizeStep == TypeOK /\ SizeInv /\ [Next]_vars => SizeInv'
<1> SUFFICES ASSUME TypeOK, SizeInv, [Next]_vars PROVE SizeInv'
  OBVIOUS
<1> USE DEF publisher, breaker, history
<1>0. pc \in [Flushers -> Phases]
  BY DEF TypeOK
<1>1. CASE \E f \in Flushers : FlushStep(f)
  BY <1>1, SizeFlush
<1>2. ASSUME NEW p \in offer, Publish(p) PROVE SizeInv'
  <2>1. IsFiniteSet(queue') /\ Cardinality(queue') <= QueueMax /\ UNCHANGED <<pc, batch>>
    BY <1>2, PutSize DEF Publish, SizeInv
  <2> QED BY <2>1 DEF SizeInv
<1>3. CASE (\E p \in todo : Offer(p)) \/ Close \/ BackoffEnds \/ UNCHANGED vars
  <2>1. UNCHANGED <<queue, pc, batch>>
    BY <1>3 DEF Offer, Close, BackoffEnds, vars
  <2> QED BY <2>1 DEF SizeInv
<1>4. CASE ThreadWakes \/ CloseFlushes
  <2>1. /\ UNCHANGED <<queue, batch>>
        /\ \A f \in Flushers : pc'[f] # pc[f] => pc'[f] \in {"ended", "collect"}
    BY <1>0, <1>4 DEF ThreadWakes, CloseFlushes, Go
  <2> QED BY <2>1 DEF SizeInv
<1> QED BY <1>1, <1>2, <1>3, <1>4 DEF Next

\* Neither the queue nor a batch ever outgrows its bound, whatever is put back
\* into the queue while points arrive and another flush takes some (maxsize of
\* the queue, len(batch) < 20_000).
THEOREM Bounded == SafeSpec => []SizeInv
<1>1. Init => SizeInv
  BY FS_EmptySet, SinkAssumption DEF Init, SizeInv
<1> QED BY <1>1, SizeStep, TypeCorrect, PTL DEF SafeSpec

-----------------------------------------------------------------------------
(* The refinement.  A flusher's batch is what it takes out of, or puts     *)
(* back into, what is pending: it shares no point with the rest.           *)

RefInv == TypeOK /\ PlaceInv /\ SizeInv /\ KeepInv

Pending == queue \cup Held

\* What is pending, but for the batch of f.
Others(f) == queue \cup UNION {batch[g] : g \in Flushers \ {f}}

\* What is pending is the batch of f and the others.
LEMMA PendingParts ==
    ASSUME NEW f \in Flushers
    PROVE  Pending = Others(f) \cup batch[f]
BY DEF Pending, Others, Held

\* The batch of f is none of the others', and nothing pending is to be
\* published.
LEMMA Apart ==
    ASSUME PlaceInv
    PROVE  /\ \A f \in Flushers : Others(f) \cap batch[f] = {}
           /\ (todo \cup offer) \cap Pending = {} /\ todo \cap offer = {}
<1>1. \A f \in Flushers : Others(f) \cap batch[f] = {}
  BY DEF PlaceInv, Others
<1>2. (todo \cup offer) \cap Pending = {} /\ todo \cap offer = {}
  BY DEF PlaceInv, Pending, Held
<1> QED BY <1>1, <1>2

\* When the queue is full, so is the sink without the point to be put.
LEMMA FullQueue ==
    ASSUME SizeInv, NEW p, p \notin queue, ~(Cardinality(queue) < QueueMax)
    PROVE  Cardinality(Pending) >= QueueMax /\ Cardinality(Pending \ {p}) >= QueueMax
<1>1. Held = batch["thread"] \cup batch["close"]
  BY DEF Held, Flushers
<1>2. IsFiniteSet(queue) /\ IsFiniteSet(batch["thread"]) /\ IsFiniteSet(batch["close"])
  BY PhaseNames DEF SizeInv
<1>3. IsFiniteSet(Pending)
  BY <1>1, <1>2, FS_Union DEF Pending
<1>4. IsFiniteSet(Pending \ {p})
  BY <1>3, FS_RemoveElement
<1>5. queue \in SUBSET Pending /\ queue \in SUBSET (Pending \ {p})
  BY DEF Pending
<1>6. Cardinality(queue) <= Cardinality(Pending)
      /\ Cardinality(queue) <= Cardinality(Pending \ {p})
  BY <1>3, <1>4, <1>5, FS_Subset
<1>7. Cardinality(queue) \in Nat /\ Cardinality(Pending) \in Nat
      /\ Cardinality(Pending \ {p}) \in Nat /\ QueueMax \in Nat
  BY <1>2, <1>3, <1>4, FS_CardinalityType, SinkAssumption
<1> QED BY <1>6, <1>7

\* The delivery queue counts as the sink does.
LEMMA SameCount == \A S : DQ!Cardinality(S) = Cardinality(S)
BY DEF Cardinality, DQ!Cardinality

\* A step of a flush is a step of the delivery queue, or none.
LEMMA RefFlush ==
    ASSUME RefInv, NEW f \in Flushers, FlushStep(f)
    PROVE  [DQ!Next]_(DQ!vars)
<1> USE DEF publisher, breaker, history
<1>0. batch \in [Flushers -> SUBSET Points]
  BY DEF RefInv, TypeOK
<1>a. /\ Pending = Others(f) \cup batch[f] /\ Pending' = Others(f)' \cup batch'[f]
      /\ Others(f) \cap batch[f] = {}
  BY PendingParts, Apart DEF Pending, Others, Held, RefInv
<1>b. ASSUME \A g \in Flushers \ {f} : batch'[g] = batch[g]
      PROVE  UNION {batch[g] : g \in Flushers \ {f}}' = UNION {batch[g] : g \in Flushers \ {f}}
  BY <1>b
<1>1. CASE Collect(f) \/ RequeueEnds(f)
  <2>1. UNCHANGED <<todo, offer, queue, batch, ever, owed, delivered, refused>>
    BY <1>1 DEF Collect, RequeueEnds
  <2> QED BY <2>1 DEF DQ!vars, Held
<1>2. ASSUME NEW p \in queue, Get(f, p) PROVE UNCHANGED DQ!vars
  <2>1. UNCHANGED <<todo, offer, ever, owed, delivered, refused>>
    BY <1>2 DEF Get
  <2>2. /\ queue' = queue \ {p} /\ batch'[f] = batch[f] \cup {p}
        /\ \A g \in Flushers \ {f} : batch'[g] = batch[g]
    BY <1>0, <1>2 DEF Get
  <2>3. Pending' = Pending
    BY <1>a, <1>b, <2>2 DEF Others
  <2> QED BY <2>1, <2>3 DEF DQ!vars, Pending
<1>3. CASE WriteDone(f)
  <2>1. batch[f] # {} /\ batch[f] \in SUBSET Pending
    BY <1>a, <1>3 DEF WriteDone, RefInv, SizeInv
  <2>2. /\ UNCHANGED <<todo, offer, owed, refused, queue>> /\ ever' = TRUE
        /\ delivered' = delivered \cup batch[f] /\ batch'[f] = {}
        /\ \A g \in Flushers \ {f} : batch'[g] = batch[g]
    BY <1>0, <1>3 DEF WriteDone
  <2>3. Pending' = Pending \ batch[f]
    BY <1>a, <1>b, <2>2 DEF Others
  <2>4. DQ!Deliver(batch[f])
    BY <2>1, <2>2, <2>3 DEF DQ!Deliver, Pending
  <2> QED BY <2>1, <2>4 DEF DQ!Next, Pending
<1>4. CASE WriteFails(f)
  <2>1. UNCHANGED <<todo, offer, queue, batch, ever, owed, refused>>
        /\ delivered' \in {delivered, delivered \cup batch[f]}
    BY <1>4 DEF WriteFails
  <2>2. Held' = Held
    BY <2>1 DEF Held
  <2>3. CASE delivered' = delivered
    BY <2>1, <2>2, <2>3 DEF DQ!vars
  <2>4. CASE delivered' = delivered \cup batch[f]
    <3>1. DQ!DeliverUnknown(batch[f])
      BY <2>1, <2>2, <2>4 DEF DQ!DeliverUnknown
    <3>2. batch[f] \in SUBSET Pending
      BY <1>a
    <3> QED BY <3>1, <3>2 DEF DQ!Next, Pending
  <2> QED BY <2>1, <2>3, <2>4
<1>5. CASE AfterFailure(f)
  <2>1. UNCHANGED <<todo, offer, queue, ever, owed, delivered, refused>>
    BY <1>5 DEF AfterFailure
  <2>2. CASE Enabled /\ ever
    <3>1. UNCHANGED batch
      BY <1>5, <2>2 DEF AfterFailure
    <3> QED BY <2>1, <3>1 DEF DQ!vars, Held
  <2>3. CASE ~(Enabled /\ ever)
    <3>1. /\ batch'[f] = {} /\ \A g \in Flushers \ {f} : batch'[g] = batch[g]
      BY <1>0, <1>5, <2>3 DEF AfterFailure
    <3>2. Pending' = Pending \ batch[f]
      BY <1>a, <1>b, <2>1, <3>1 DEF Others
    <3>3. Enabled => owed = {}
      BY <2>3 DEF RefInv, KeepInv, LossInv
    <3>4. DQ!GiveUp(batch[f])
      BY <2>1, <3>2, <3>3 DEF DQ!GiveUp, Pending
    <3>5. batch[f] \in SUBSET Pending
      BY <1>a
    <3> QED BY <3>4, <3>5 DEF DQ!Next, Pending
  <2> QED BY <2>2, <2>3
<1>6. ASSUME NEW p \in batch[f], Requeue(f, p) PROVE [DQ!Next]_(DQ!vars)
  <2>1. UNCHANGED <<todo, offer, ever, owed, delivered>> /\ Put(p)
    BY <1>6 DEF Requeue
  <2>2. /\ batch'[f] = batch[f] \ {p}
        /\ \A g \in Flushers \ {f} : batch'[g] = batch[g]
    BY <1>0, <1>6 DEF Requeue
  <2>3. p \in Pending /\ p \notin queue
    BY <1>a DEF Others
  <2>4. CASE Cardinality(queue) < QueueMax
    <3>1. queue' = queue \cup {p} /\ refused' = refused
      BY <2>1, <2>4 DEF Put
    <3>2. Pending' = Pending
      BY <1>a, <1>b, <2>2, <3>1 DEF Others
    <3> QED BY <2>1, <3>1, <3>2 DEF DQ!vars, Pending
  <2>5. CASE ~(Cardinality(queue) < QueueMax)
    <3>1. queue' = queue /\ refused' = refused \cup {p}
      BY <2>1, <2>5 DEF Put
    <3>2. Pending' = Pending \ {p}
      BY <1>a, <1>b, <2>2, <3>1 DEF Others
    <3>3. Cardinality(Pending \ {p}) >= QueueMax
      BY <2>3, <2>5, FullQueue DEF RefInv
    <3>4. DQ!Overflow(p)
      BY <2>1, <3>1, <3>2, <3>3, SameCount DEF DQ!Overflow, Pending
    <3> QED BY <2>3, <3>4 DEF DQ!Next, Pending
  <2> QED BY <2>4, <2>5
<1>7. CASE Drain(f)
  <2>1. UNCHANGED <<todo, offer, batch, ever, owed, delivered, refused>>
    BY <1>7 DEF Drain
  <2>2. Held' = Held
    BY <2>1 DEF Held
  <2>3. CASE UNCHANGED queue
    BY <2>1, <2>2, <2>3 DEF DQ!vars
  <2>4. ASSUME NEW p \in queue, queue' = queue \ {p} PROVE DQ!Next
    <3>1. Enabled => owed = {}
      BY <1>7 DEF Drain, RefInv, KeepInv, LossInv
    <3>2. Pending' = Pending \ {p}
      <4>1. p \notin Held
        BY DEF RefInv, PlaceInv, Held
      <4> QED BY <2>2, <2>4, <4>1 DEF Pending
    <3>3. DQ!GiveUp({p})
      BY <2>1, <3>1, <3>2 DEF DQ!GiveUp, Pending
    <3>4. {p} \in SUBSET Pending
      BY DEF Pending
    <3> QED BY <3>3, <3>4 DEF DQ!Next, Pending
  <2> QED BY <1>7, <2>3, <2>4 DEF Drain
<1> QED BY <1>1, <1>2, <1>3, <1>4, <1>5, <1>6, <1>7 DEF FlushStep

\* Every step of the sink is a step of the delivery queue, or none.
LEMMA RefStep ==
    ASSUME RefInv, [Next]_vars
    PROVE  [DQ!Next]_(DQ!vars)
<1> USE DEF publisher, breaker, history
<1>1. ASSUME NEW p \in todo, Offer(p) PROVE [DQ!Next]_(DQ!vars)
  <2>1. /\ UNCHANGED <<queue, batch, ever, owed, delivered, refused>>
        /\ offer = {} /\ todo' = todo \ {p} /\ offer' = IF Outage THEN {} ELSE {p}
    BY <1>1 DEF Offer
  <2>2. Held' = Held
    BY <2>1 DEF Held
  <2>3. CASE Outage
    <3>1. DQ!Discard(p)
      BY <2>1, <2>2, <2>3 DEF DQ!Discard, Outage
    <3> QED BY <3>1 DEF DQ!Next
  <2>4. CASE ~Outage
    <3>1. todo' \cup offer' = todo \cup offer
      BY <2>1, <2>4
    <3> QED BY <2>1, <2>2, <3>1 DEF DQ!vars
  <2> QED BY <2>3, <2>4
<1>2. ASSUME NEW p \in offer, Publish(p) PROVE DQ!Next
  <2>1. /\ UNCHANGED <<todo, batch, ever, delivered>> /\ offer' = {} /\ Put(p)
        /\ owed' = IF ever /\ p \in queue' THEN owed \cup {p} ELSE owed
    BY <1>2 DEF Publish
  <2>2. Held' = Held
    BY <2>1 DEF Held
  <2>3. p \notin queue /\ p \notin todo /\ offer = {p}
    BY DEF RefInv, PlaceInv
  <2>4. todo' \cup offer' = (todo \cup offer) \ {p}
    BY <2>1, <2>3
  <2>5. CASE Cardinality(queue) < QueueMax
    <3>1. queue' = queue \cup {p} /\ refused' = refused
      BY <2>1, <2>5 DEF Put
    <3>2. queue' \cup Held' = (queue \cup Held) \cup {p}
      BY <2>2, <3>1
    <3>3. DQ!Accept(p)
      BY <2>1, <2>4, <3>1, <3>2 DEF DQ!Accept
    <3> QED BY <3>3 DEF DQ!Next
  <2>6. CASE ~(Cardinality(queue) < QueueMax)
    <3>1. queue' = queue /\ refused' = refused \cup {p}
      BY <2>1, <2>6 DEF Put
    <3>2. Cardinality(Pending) >= QueueMax
      BY <2>3, <2>6, FullQueue DEF RefInv
    <3>3. DQ!Refuse(p)
      BY <2>1, <2>2, <2>3, <2>4, <3>1, <3>2, SameCount DEF DQ!Refuse, Pending
    <3> QED BY <3>3 DEF DQ!Next
  <2> QED BY <2>5, <2>6
<1>3. CASE ThreadWakes \/ Close \/ CloseFlushes \/ BackoffEnds \/ UNCHANGED vars
  <2>1. UNCHANGED <<todo, offer, queue, batch, ever, owed, delivered, refused>>
    BY <1>3 DEF ThreadWakes, Close, CloseFlushes, BackoffEnds, vars
  <2> QED BY <2>1 DEF DQ!vars, Held
<1>4. CASE \E f \in Flushers : FlushStep(f)
  BY <1>4, RefFlush
<1> QED BY <1>1, <1>2, <1>3, <1>4 DEF Next

\* The sink is a delivery queue: two threads, batches, failed writes, the
\* backoff and the flush of close() add nothing to what DeliveryQueue allows.
THEOREM Implements == SafeSpec => ImplementsDelivery
<1>1. Init => DQ!Init
  BY DEF Init, DQ!Init, Held
<1>2. SafeSpec => []RefInv
  BY TypeCorrect, OnePlace, Bounded, KeepAlways, PTL DEF RefInv
<1>3. RefInv /\ [Next]_vars => [DQ!Next]_(DQ!vars)
  BY RefStep
<1> QED BY <1>1, <1>2, <1>3, PTL DEF SafeSpec, ImplementsDelivery, DQ!Spec

\* A delivery queue loses nothing that it owes, whatever implements it: that
\* NotLost holds of the sink is owed to the refinement alone.
THEOREM DeliveryKeeps == ImplementsDelivery => []OwedNotLost
<1>1. DQ!Init => DQ!NoneLost
  BY DEF DQ!Init, DQ!NoneLost
<1>2. DQ!NoneLost /\ [DQ!Next]_(DQ!vars) => DQ!NoneLost'
  BY DEF DQ!NoneLost, DQ!Next, DQ!vars, DQ!Accept, DQ!Refuse, DQ!Discard, DQ!Overflow,
         DQ!Deliver, DQ!DeliverUnknown, DQ!GiveUp
<1>3. DQ!NoneLost => OwedNotLost
  BY DEF DQ!NoneLost, OwedNotLost
<1> QED BY <1>1, <1>2, <1>3, PTL DEF ImplementsDelivery, DQ!Spec

=============================================================================
