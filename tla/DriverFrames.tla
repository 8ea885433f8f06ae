---------------------------- MODULE DriverFrames -----------------------------
(***************************************************************************)
(* How the drivers in bmslib/models find answers in what the radio or the  *)
(* serial port hands them, chunk by chunk.                                 *)
(*                                                                         *)
(* Bytes are small numbers that collide the way the real ones do: a value  *)
(* may look like a header or a terminator.  A header of several bytes is   *)
(* cut to two, and fields no property tells apart are left out.  A         *)
(* checksum is ideal: it accepts exactly what the device sends (Answer).   *)
(*                                                                         *)
(* Feed(d, s, chunk) is the notification handler of driver d.  Where the   *)
(* handler is a loop, one round of it is a Step operator, which returns    *)
(* the bytes that are left, the frames it hands on and whether the loop    *)
(* goes round again.                                                       *)
(*                                                                         *)
(* A definition commented "Faulty" is a variant of the one that follows it *)
(* with a plausible bug; the properties of DriverAnswers must tell them    *)
(* apart.                                                                  *)
(***************************************************************************)
EXTENDS Integers, Sequences, FiniteSets, FiniteSetsExt, SequencesExt

Bluetooth == {"jk", "jbd", "basen", "ant", "sok", "litime",
              "daly", "daly2", "noname"}
Serial == {"daly_uart", "jk_uart", "basen_uart", "pace"}
AllDrivers == Bluetooth \cup Serial

\* An answer is about the question it answers and carries its stamp.
Stamps == 0..2

\* The two bytes of a header, the terminator, and the newline, which is no
\* part of any protocol.
H1 == 0
H2 == 1
End == 9
Newline == 2

-----------------------------------------------------------------------------
(* What the devices send.                                                  *)

Value(s) == <<<<H1, H2>>, <<End, Newline>>, <<Newline, 7>>>>[s + 1]

\* The INFO field of PACE is hexadecimal text: neither header nor end.
HexValue(s) == <<5 + s, 8>>

Crc(c, s) == 10 + 3 * (c - 3) + s

JkAnswer(c, s) == <<H1, H2, c>> \o Value(s) \o <<Crc(c, s)>>
JbdAnswer(c, s) == <<H1, c, 2>> \o Value(s) \o <<Crc(c, s), End>>
BasenAnswer(c, s) == <<H1, c, 2>> \o Value(s) \o <<Crc(c, s), End>>
BasenUartAnswer(c, s) == <<H1, c, 2>> \o Value(s) \o <<Crc(c, s), End>>
AntAnswer(c, s) == <<H1, H2, c, 2>> \o Value(s) \o <<Crc(c, s), End>>
SokAnswer(c, s) == <<H1, c>> \o Value(s) \o <<End>>
LitimeAnswer(c, s) == <<c>> \o Value(s)
PaceAnswer(c, s) == <<H1, c>> \o HexValue(s) \o <<Crc(c, s), End>>

\* A Modbus answer names the function, and not the registers; c = 6 is the
\* echo of a write, whose size is fixed.
Daly2Answer(c, s) ==
    IF c = 6 THEN <<H1, 6>> \o Value(s) \o <<Crc(c, s)>>
    ELSE <<H1, 3, 2>> \o Value(s) \o <<Crc(c, s)>>
NoNameAnswer(c, s) == <<H1, 3, 2>> \o Value(s) \o <<Crc(c, s)>>
JkUartAnswer(c, s) == <<H1, H2, 2>> \o Value(s) \o <<Crc(c, s)>>

\* The frame i of an answer of Daly; command 5 (the cells) has two.
DalyFrame(c, i, s) == <<H1, c, i, Value(s)[2], Crc(c, s)>>
DalyCount(c) == IF c = 5 THEN 2 ELSE 1
DalySize == 5

\* The frames of the answer of driver d to command c.
Answer(d, c, s) ==
    CASE d = "jk" -> <<JkAnswer(c, s)>>
      [] d = "jbd" -> <<JbdAnswer(c, s)>>
      [] d = "basen" -> <<BasenAnswer(c, s)>>
      [] d = "basen_uart" -> <<BasenUartAnswer(c, s)>>
      [] d = "ant" -> <<AntAnswer(c, s)>>
      [] d = "sok" -> <<SokAnswer(c, s)>>
      [] d = "litime" -> <<LitimeAnswer(c, s)>>
      [] d = "pace" -> <<PaceAnswer(c, s)>>
      [] d = "daly2" -> <<Daly2Answer(c, s)>>
      [] d = "noname" -> <<NoNameAnswer(c, s)>>
      [] d = "jk_uart" -> <<JkUartAnswer(c, s)>>
      [] d \in {"daly", "daly_uart"} ->
           [i \in 1..DalyCount(c) |-> DalyFrame(c, i, s)]

\* The queries of one cycle, in order: fetch(), then what the sampler asks
\* for besides.
Cycle(d) ==
    CASE d = "jk" -> <<3, 4>>
      [] d = "jbd" -> <<3, 4>>
      [] d = "basen" -> <<3, 4>>
      [] d = "basen_uart" -> <<3>>
      [] d = "ant" -> <<4>>
      [] d = "sok" -> <<3, 4>>
      [] d = "litime" -> <<3>>
      [] d = "pace" -> <<3, 4>>
      [] d = "daly2" -> <<6, 3>>
      [] d = "noname" -> <<3, 4, 5>>
      [] d = "jk_uart" -> <<3>>
      [] d \in {"daly", "daly_uart"} -> <<3, 5>>

Commands(d) == Range(Cycle(d))

\* Every checksum: f is a whole frame the device may send.
Frames == [d \in AllDrivers |->
               UNION {Range(Answer(d, c, s)) : c \in Commands(d), s \in Stamps}]
Valid(d, f) == f \in Frames[d]

-----------------------------------------------------------------------------
(* The handlers.                                                           *)

Find(b, p) == {i \in 1..(Len(b) - Len(p) + 1) :
                   SubSeq(b, i, i + Len(p) - 1) = p}
From(b, i) == SubSeq(b, i, Len(b))
Upto(b, i) == SubSeq(b, 1, Min({i, Len(b)}))

Waits(b) == [rest |-> b, out |-> <<>>, again |-> FALSE]
Skips(b) == [rest |-> b, out |-> <<>>, again |-> TRUE]
Yields(f, b) == [rest |-> b, out |-> <<f>>, again |-> TRUE]

\* jikong.feed_frames: a window whose checksum fails is kept from its next
\* header on; of junk, only what may be the start of a header.
JkSize == 6
JkStep(b) ==
    LET heads == Find(b, <<H1, H2>>)
        a == From(b, Min(heads))
        later == {i \in Find(a, <<H1, H2>>) : i > 2}
    IN IF Len(b) < 2 THEN Waits(b)
       ELSE IF heads = {} THEN Waits(From(b, Len(b)))
       ELSE IF Len(a) < JkSize THEN Waits(a)
       ELSE IF Valid("jk", Upto(a, JkSize))
            THEN Yields(Upto(a, JkSize), From(a, JkSize + 1))
       ELSE IF later # {} THEN Skips(From(a, Min(later)))
       ELSE Waits(From(a, Len(a)))

\* Faulty: hands on what has the right length.
JbdStepUnchecked(b) ==
    LET heads == Find(b, <<H1>>)
        a == From(b, Min(heads))
        size == a[3] + 5
    IN IF heads = {} THEN Waits(<<>>)
       ELSE IF Len(a) < 3 \/ Len(a) < size THEN Waits(a)
       ELSE Yields(Upto(a, size), From(a, size + 1))

\* jbd: a bad window is dropped as a whole.
JbdStep(b) ==
    LET heads == Find(b, <<H1>>)
        a == From(b, Min(heads))
        size == a[3] + 5
        rest == From(a, size + 1)
    IN IF heads = {} THEN Waits(<<>>)
       ELSE IF Len(a) < 3 \/ Len(a) < size THEN Waits(a)
       ELSE IF Valid("jbd", Upto(a, size)) THEN Yields(Upto(a, size), rest)
       ELSE Skips(rest)

\* basen: of a bad window only the first byte is dropped.
BasenStep(b) ==
    LET heads == Find(b, <<H1>>)
        a == From(b, Min(heads))
        size == a[3] + 5
    IN IF heads = {} THEN Waits(<<>>)
       ELSE IF Len(a) < 3 \/ Len(a) < size THEN Waits(a)
       ELSE IF Valid("basen", Upto(a, size))
            THEN Yields(Upto(a, size), From(a, size + 1))
       ELSE Skips(From(a, 2))

\* basen_uart: the same; an echo without data is a frame and no answer.
BasenUartStep(b) ==
    LET heads == Find(b, <<H1>>)
        a == From(b, Min(heads))
        size == a[3] + 5
    IN IF heads = {} THEN Waits(<<>>)
       ELSE IF Len(a) < 3 \/ Len(a) < size THEN Waits(a)
       ELSE IF ~Valid("basen_uart", Upto(a, size)) THEN Skips(From(a, 2))
       ELSE IF a[3] = 0 THEN Skips(From(a, size + 1))
       ELSE Yields(Upto(a, size), From(a, size + 1))

\* pace: a frame ends at its terminator; a bad one is dropped as a whole.
PaceStep(b) ==
    LET heads == Find(b, <<H1>>)
        a == From(b, Min(heads))
        ends == Find(a, <<End>>)
        f == Upto(a, Min(ends))
        rest == From(a, Min(ends) + 1)
    IN IF heads = {} THEN Waits(<<>>)
       ELSE IF ends = {} THEN Waits(a)
       ELSE IF Valid("pace", f) THEN Yields(f, rest)
       ELSE Skips(rest)

\* daly_uart.feed_buffer: the size is fixed, a bad window is dropped.
DalyUartStep(b) ==
    LET heads == Find(b, <<H1>>)
        a == From(b, Min(heads))
        rest == From(a, DalySize + 1)
    IN IF heads = {} THEN Waits(<<>>)
       ELSE IF Len(a) < DalySize THEN Waits(a)
       ELSE IF Valid("daly_uart", Upto(a, DalySize))
            THEN Yields(Upto(a, DalySize), rest)
       ELSE Skips(rest)

\* jikong_uart.feed_buffer and its handler: one frame a chunk, whatever else
\* the chunk completes, and no result if that frame is bad.
JkUartStep(b) ==
    LET heads == Find(b, <<H1, H2>>)
        a == IF heads = {} THEN From(b, Len(b)) ELSE From(b, Min(heads))
        size == a[3] + 4
    IN IF Len(b) < 2 \/ Len(a) < 3 \/ Len(a) < size THEN Waits(a)
       ELSE [rest |-> From(a, size + 1),
             out |-> IF Valid("jk_uart", Upto(a, size))
                     THEN <<Upto(a, size)>> ELSE <<>>,
             again |-> FALSE]

Step(d, b) ==
    CASE d = "jk" -> JkStep(b)
      [] d = "jbd" -> JbdStep(b)
      [] d = "basen" -> BasenStep(b)
      [] d = "basen_uart" -> BasenUartStep(b)
      [] d = "pace" -> PaceStep(b)
      [] d = "daly_uart" -> DalyUartStep(b)
      [] d = "jk_uart" -> JkUartStep(b)

\* One more round, if there is one.
Round(d, x) ==
    IF ~x.again \/ x.rest = <<>> THEN x
    ELSE [Step(d, x.rest) EXCEPT !.out = x.out \o @]

\* The loop: from the bytes b, until it waits for more.  A round after which
\* there is another has taken a byte at least, so Len(b) of them are enough.
\* scan[i] is the singleton of what i rounds come to.
Scan(d, b) ==
    LET scan[i \in 0..Len(b)] ==
            IF i = 0 THEN {Skips(b)} ELSE {Round(d, x) : x \in scan[i - 1]}
    IN CHOOSE x \in scan[Len(b)] : TRUE

\* ant: a chunk that starts a frame drops what was there; a frame is looked
\* for when a chunk ends one.  The terminator in a buffer shorter than a
\* header raises and leaves the buffer as it is.
AntFeed(buf, chunk) ==
    LET b == (IF Upto(chunk, 2) = <<H1, H2>> THEN <<>> ELSE buf) \o chunk
        size == b[4] + 6
    IN IF Last(b) # End \/ Len(b) < 4 THEN [rest |-> b, out |-> <<>>]
       ELSE [rest |-> <<>>,
             out |-> IF Len(b) >= size /\ Valid("ant", Upto(b, size))
                     THEN <<Upto(b, size)>> ELSE <<>>]

\* sok: what ends with the terminator is an answer, unchecked.
SokFeed(buf, chunk) ==
    LET b == buf \o chunk
    IN IF Last(b) = End /\ Len(b) > 1 THEN [rest |-> <<>>, out |-> <<b>>]
       ELSE [rest |-> b, out |-> <<>>]

\* litime: whatever comes is an answer.
LitimeFeed(chunk) == [rest |-> chunk, out |-> <<chunk>>]

\* daly2: the size depends on the function; what follows the frame is
\* dropped with it.  7 stands for the functions with the exception bit.
Daly2Feed(buf, chunk) ==
    LET b == buf \o chunk
        size == CASE b[2] = 3 -> b[3] + 4 [] b[2] = 6 -> 5 [] b[2] = 7 -> 4
    IN IF Len(b) < 3 THEN [rest |-> b, out |-> <<>>]
       ELSE IF b[2] \notin {3, 6, 7} THEN [rest |-> <<>>, out |-> <<>>]
       ELSE IF Len(b) < size THEN [rest |-> b, out |-> <<>>]
       ELSE [rest |-> <<>>,
             out |-> IF Valid("daly2", Upto(b, size))
                     THEN <<Upto(b, size)>> ELSE <<>>]

\* noname_modbus: checked only by the caller, one frame a chunk.
NoNameFeed(buf, chunk) ==
    LET b == buf \o chunk
        size == b[3] + 4
    IN IF Len(b) < 3 \/ Len(b) < size THEN [rest |-> b, out |-> <<>>]
       ELSE [rest |-> From(b, size + 1), out |-> <<Upto(b, size)>>]

\* daly: a chunk is cut into frames, what is short or bad is skipped; those
\* of an answer of several are collected in the order in which they come, and
\* handed on as one.  A frame that comes when it is complete is ignored.
\* s.rest is what is collected.
DalyTakes(s, f) ==
    LET many == f[2] = 5
        full == Len(s.rest) = 2 * DalySize
        all == s.rest \o f
    IN IF Len(f) < DalySize \/ ~Valid("daly", f) THEN s
       ELSE IF ~many THEN [s EXCEPT !.out = Append(@, f)]
       ELSE IF full THEN s
       ELSE IF Len(all) < 2 * DalySize THEN [s EXCEPT !.rest = all]
       ELSE [rest |-> all, out |-> Append(s.out, all)]

\* take[i] is the singleton of what the first i frames come to.
DalyFrames(collected, chunk) ==
    LET count == (Len(chunk) + DalySize - 1) \div DalySize
        frame(i) == Upto(From(chunk, (i - 1) * DalySize + 1), DalySize)
        take[i \in 0..count] ==
            IF i = 0 THEN {[rest |-> collected, out |-> <<>>]}
            ELSE {DalyTakes(s, frame(i)) : s \in take[i - 1]}
    IN CHOOSE s \in take[count] : TRUE

-----------------------------------------------------------------------------
(* The futures: which query a frame answers, and what the caller checks.   *)

\* Faulty: one future for all the queries of a driver.
AnswersAny(d, f, c) == TRUE

\* f resolves the future of query c: it names the query, but where there is
\* one future for all of them.
Answers(d, f, c) ==
    CASE d \in {"jk", "ant"} -> f[3] = c
      [] d \in {"jbd", "basen", "sok", "daly", "daly_uart", "daly2"} -> f[2] = c
      [] OTHER -> TRUE

\* basen_uart._read: address and command of the answer are compared.
BasenUartAccepts(c, f) == f[2] = c

\* noname_modbus.parse_response: slave, function, length and checksum.
NoNameAccepts(f) == Valid("noname", f)

\* daly.fetch_voltages: the frames must be numbered in order.
DalyAccepts(f) == Len(f) = DalySize \/ (f[3] = 1 /\ f[DalySize + 3] = 2)

\* The caller takes f for the answer to c, and does not raise.
Accepts(d, c, f) ==
    CASE d = "basen_uart" -> BasenUartAccepts(c, f)
      [] d = "noname" -> NoNameAccepts(f)
      [] d \in {"daly", "daly_uart"} -> DalyAccepts(f)
      [] OTHER -> TRUE
=============================================================================
