---------------------------- MODULE DriverAnswers ----------------------------
(***************************************************************************)
(* A driver asks its device, query by query, over a link that may be late, *)
(* noisy or cut, and finds the answers in the chunks that come             *)
(* (DriverFrames).  A query waits on a future; an answer that comes after  *)
(* the timeout meets the next query.                                       *)
(*                                                                         *)
(* The driver is chosen in Init, and so is whether the serial port reads   *)
(* the way the driver declares in SERIAL_KWARGS.                           *)
(***************************************************************************)
EXTENDS DriverFrames

CONSTANTS
    Drivers,    \* the drivers considered
    Forwarding, \* whether BtBms hands SERIAL_KWARGS to the serial port
    PortMax,    \* answers the serial port holds for a reader
    MaxFaults   \* late answers, noise and cuts in one behaviour

ASSUME AnswersAssumption ==
    /\ Drivers \subseteq AllDrivers
    /\ Forwarding \subseteq BOOLEAN
    /\ PortMax \in Nat \ {0} /\ MaxFaults \in Nat

VARIABLES
    driver,     \* the driver
    forwarded,  \* SERIAL_KWARGS reaches the serial port
    wire,       \* sent by the device, and not yet read: packets
    buf,        \* self._buffer, self._uart_buf
    parts,      \* daly: self._fetch_nr, the frames collected
    asked,      \* the query that waits, if any
    at,         \* the query of the cycle that is next
    stamp,      \* the stamp of the last query
    got,        \* the answer the caller took last, and the query it was for
    faults      \* faults to come

device == <<driver, forwarded>>
vars == <<device, wire, buf, parts, asked, at, stamp, got, faults>>

Query == [cmd : 3..6, stamp : Stamps]
None == [cmd |-> 0, stamp |-> 0]     \* no query; as an answer: garbage
Nothing == [of |-> None, ans |-> None]

\* The drivers with SERIAL_KWARGS; the port of any other is read by line.
Declaring == {"pace", "basen_uart"}
ByLine == driver \in Serial /\ ~forwarded

Init ==
    /\ driver \in Drivers
    /\ forwarded \in IF driver \in Declaring THEN Forwarding ELSE {FALSE}
    /\ wire = <<>> /\ buf = <<>> /\ parts = <<>>
    /\ asked = None /\ at = 1
    /\ stamp = 0 /\ got = Nothing
    /\ faults = MaxFaults

-----------------------------------------------------------------------------
(* The link                                                                *)

Sent == FlattenSeq(wire)

\* How many bytes the next chunk may have.  Bluetooth drivers get packets
\* that do not span answers and start with a whole header, but JK, whose
\* device is a bridge to a UART.
Cuts ==
    IF wire = <<>> THEN {}
    ELSE CASE ByLine -> LET ends == Find(Sent, <<Newline>>)
                        IN IF ends = {} THEN {} ELSE {Min(ends)}
           [] ~ByLine /\ driver \in Serial \cup {"jk"} -> 1..Len(Sent)
           [] driver = "litime" -> {Len(wire[1])}
           [] driver = "daly" -> {Len(wire[1]), Len(FlattenSeq(Upto(wire, 2)))}
           [] OTHER -> {n \in 1..Len(wire[1]) : n > 1 \/ n = Len(wire[1])}

\* What is left of the wire when n bytes are read.
Unread(n) ==
    LET read(k) == Len(FlattenSeq(Upto(wire, k)))
        k == Max({i \in 0..Len(wire) : read(i) <= n})
        cut == n - read(k)
    IN IF cut = 0 THEN From(wire, k + 1)
       ELSE <<From(wire[k + 1], cut + 1)>> \o From(wire, k + 2)

\* Nothing more comes unless the device is asked.
Quiet == Cuts = {}

LinkDrops ==
    /\ faults > 0 /\ wire # <<>>
    /\ faults' = faults - 1 /\ wire' = <<>>
    /\ UNCHANGED <<device, buf, parts, asked, at, stamp, got>>

Noise ==
    /\ faults > 0 /\ faults' = faults - 1
    /\ \E x \in {H1, End, 7} : wire' = <<<<x>>>> \o wire
    /\ UNCHANGED <<device, buf, parts, asked, at, stamp, got>>

-----------------------------------------------------------------------------
(* The driver                                                              *)

\* Faulty: what was left over stays.
LeftAlone(d, b) == b

\* What the driver clears when it asks.
Cleared(d, b) == IF d \in {"daly2", "noname"} THEN <<>> ELSE b

\* The frames of the answer before make room.
PartsFor(d, c, p) ==
    IF d \in {"daly", "daly_uart"} /\ DalyCount(c) > 1 THEN <<>> ELSE p

\* What the device sends; the port drops what it cannot hold.
Arriving(frames) ==
    IF ByLine /\ Len(wire) >= PortMax THEN wire ELSE wire \o frames

\* fetch_loop sleeps for a period before a cycle, after a failed one longer:
\* that an answer takes that long is a fault.
Ask ==
    /\ asked = None
    /\ IF at = 1 /\ ~Quiet THEN faults > 0 /\ faults' = faults - 1
       ELSE UNCHANGED faults
    /\ LET c == Cycle(driver)[at]
           s == (stamp + 1) % Cardinality(Stamps)
       IN /\ asked' = [cmd |-> c, stamp |-> s] /\ stamp' = s
          /\ wire' = Arriving(Answer(driver, c, s))
          /\ parts' = PartsFor(driver, c, parts)
    /\ buf' = Cleared(driver, buf) /\ got' = Nothing
    /\ UNCHANGED <<device, at>>

\* The notification handler: the new buf and parts, and the frames it has
\* for the futures.
Feed(chunk) ==
    LET plain == CASE driver = "ant" -> AntFeed(buf, chunk)
                   [] driver = "sok" -> SokFeed(buf, chunk)
                   [] driver = "litime" -> LitimeFeed(chunk)
                   [] driver = "daly2" -> Daly2Feed(buf, chunk)
                   [] driver = "noname" -> NoNameFeed(buf, chunk)
                   [] driver = "daly" -> [rest |-> <<>>, out |-> <<chunk>>]
                   [] OTHER -> Scan(driver, buf \o chunk)
        daly == DalyFrames(parts, FlattenSeq(plain.out))
    IN IF driver \in {"daly", "daly_uart"}
       THEN [rest |-> plain.rest, parts |-> daly.rest, out |-> daly.out]
       ELSE [rest |-> plain.rest, parts |-> parts, out |-> plain.out]

\* The query a frame is the answer to, or None.
Meaning(f) ==
    LET like == {q \in Query : q.cmd \in Commands(driver)
                     /\ FlattenSeq(Answer(driver, q.cmd, q.stamp)) = f}
    IN IF like = {} THEN None ELSE CHOOSE q \in like : TRUE

\* Faulty: the index runs on.
GoesOn(f) ==
    /\ got' = [of |-> asked, ans |-> Meaning(f)]
    /\ at' = at + 1
    /\ asked' = None

\* The cycle goes on, or the next one is next.
Goes(f) ==
    /\ got' = [of |-> asked, ans |-> Meaning(f)]
    /\ at' = IF at = Len(Cycle(driver)) THEN 1 ELSE at + 1
    /\ asked' = None

\* An exception ends it.
Fails == asked' = None /\ at' = 1 /\ UNCHANGED got

Deliver ==
    /\ \E n \in Cuts :
       \E fed \in {Feed(Upto(Sent, n))} :
         LET mine == {i \in DOMAIN fed.out :
                          Answers(driver, fed.out[i], asked.cmd)}
             first == fed.out[Min(mine)]
         IN /\ wire' = Unread(n)
            /\ buf' = fed.rest /\ parts' = fed.parts
            /\ IF asked = None \/ mine = {} THEN UNCHANGED <<asked, at, got>>
               ELSE IF Accepts(driver, asked.cmd, first) THEN Goes(first)
               ELSE Fails
    /\ UNCHANGED <<device, stamp, faults>>

\* The timeout is far longer than an answer takes: that it comes while the
\* answer is under way is a fault.
Timeout ==
    /\ asked # None
    /\ Quiet \/ faults > 0
    /\ faults' = IF Quiet THEN faults ELSE faults - 1
    /\ Fails
    /\ UNCHANGED <<device, wire, buf, parts, stamp>>

Next == Ask \/ Deliver \/ Timeout \/ LinkDrops \/ Noise

\* The fetch loop goes on, what is on the link arrives, a timeout fires.
Fairness == WF_vars(Ask) /\ WF_vars(Deliver) /\ WF_vars(Timeout /\ Quiet)

Spec == Init /\ [][Next]_vars /\ Fairness

-----------------------------------------------------------------------------
(* Properties                                                              *)

\* Every variable keeps its type, so a query of the cycle is always next.
TypeOK ==
    /\ driver \in Drivers /\ forwarded \in BOOLEAN
    /\ wire \in Seq(Seq(Nat)) /\ buf \in Seq(Nat) /\ parts \in Seq(Nat)
    /\ asked \in Query \cup {None}
    /\ at \in 1..Len(Cycle(driver))
    /\ stamp \in Stamps /\ faults \in 0..MaxFaults
    /\ got \in [of : Query \cup {None}, ans : Query \cup {None}]

\* Drivers that check what they get (all but sok and litime) never hand on
\* anything the device did not send as one answer, whatever was left in the
\* buffer, was cut or got in between: not the end of one answer glued to the
\* start of the next.  The cells of daly come in several frames, which do not
\* say what they belong to: late answers that then lose a frame each may be
\* mixed (see the README).
InPieces == driver \in {"daly", "daly_uart"} /\ DalyCount(got.of.cmd) > 1
WholeAnswers ==
    driver \notin {"sok", "litime"} /\ ~InPieces /\ got.of # None =>
        got.ans # None

\* Drivers whose answers name the query never take the late answer to one
\* command for the answer to another.  noname and pace do (see the README).
AnswerFits ==
    driver \notin {"noname", "pace"} /\ got.ans # None =>
        got.ans.cmd = got.of.cmd

\* However the faults left the buffer, the driver finds back into the stream:
\* again and again a query gets the answer to itself and not an older one.
\* The exceptions are jk_uart, which falls behind by one answer for good when
\* a chunk completes two, and ports that are read by line.
Recovers ==
    driver # "jk_uart" /\ ~ByLine =>
        []<><<got' # got /\ got'.ans = got'.of>>_vars
=============================================================================
