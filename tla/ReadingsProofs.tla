--------------------------- MODULE ReadingsProofs ---------------------------
(***************************************************************************)
(* Proofs about Readings.  The parts of the inductive invariant, in the    *)
(* order in which they are proved: the types; the shape of the programs;   *)
(* that a battery which is silent is not sampled; that commands hold; that *)
(* the topics catch up with the battery.                                   *)
(***************************************************************************)
EXTENDS Readings, SequenceTheorems, TLAPS

-----------------------------------------------------------------------------
(* The current                                                             *)

Raws(d) == {Wire(d, -1), Wire(d, 1)}

\* The decoder of every driver but jk_uart inverts what is on the wire.
LEMMA Decoded ==
    ASSUME NEW d \in AllDrivers \ {"jk_uart"}, NEW flow \in {-1, 1}
    PROVE  Current(d, Wire(d, flow)) = flow
<1> USE DEF AllDrivers
<1>1. CASE d \in {"jk", "jbd", "litime", "victron", "basen"}
  <2>1. Wire(d, flow) = ChargingWire(flow)
    BY <1>1 DEF Wire
  <2>2. \A raw : Current(d, raw) = -raw
    BY <1>1 DEF Current, JkCurrent, JbdCurrent, LitimeCurrent, VictronCurrent,
                BasenCurrent
  <2> QED BY <2>1, <2>2 DEF ChargingWire
<1>2. CASE d \in {"ant", "sok"}
  <2>1. Wire(d, flow) = DischargingWire(flow)
    BY <1>2 DEF Wire
  <2>2. \A raw : Current(d, raw) = raw
    BY <1>2 DEF Current, AntCurrent, SokCurrent
  <2> QED BY <2>1, <2>2 DEF DischargingWire
<1>3. CASE d \in {"daly", "daly2"}
  <2>1. Wire(d, flow) = OffsetWire(flow)
    BY <1>3 DEF Wire
  <2>2. \A raw : Current(d, raw) = raw - 30000
    BY <1>3 DEF Current, DalyCurrent, Daly2Current
  <2> QED BY <2>1, <2>2 DEF OffsetWire
<1>4. CASE d \in {"noname", "supervolt"}
  <2>1. Wire(d, flow) = MagnitudesWire(flow)
    BY <1>4 DEF Wire
  <2>2. \A raw : \/ Current(d, raw) = NoNameCurrent(raw)
                 \/ Current(d, raw) = SuperVoltCurrent(raw)
    BY <1>4 DEF Current
  <2>3. /\ NoNameCurrent(MagnitudesWire(flow)) = flow
        /\ SuperVoltCurrent(MagnitudesWire(flow)) = flow
    BY DEF MagnitudesWire, NoNameCurrent, SuperVoltCurrent
  <2> QED BY <2>1, <2>2, <2>3
<1>5. CASE d \in {"basen_uart", "pace"}
  <2>1. Wire(d, flow) = StatusWire(flow)
    BY <1>5 DEF Wire
  <2>2. \A raw : \/ Current(d, raw) = BasenUartCurrent(raw)
                 \/ Current(d, raw) = PaceCurrent(raw)
    BY <1>5 DEF Current
  <2>3. /\ BasenUartCurrent(StatusWire(flow)) = flow
        /\ PaceCurrent(StatusWire(flow)) = flow
    BY DEF StatusWire, BasenUartCurrent, PaceCurrent
  <2> QED BY <2>1, <2>2, <2>3
<1> QED BY <1>1, <1>2, <1>3, <1>4, <1>5

\* Every decoder finds a direction in what may be on the wire.
LEMMA CurrentType ==
    ASSUME NEW d \in AllDrivers, NEW raw \in Raws(d)
    PROVE  Current(d, raw) \in {-1, 1}
<1>1. CASE d = "jk_uart"
  <2>1. Raws(d) = {SignBitWire(-1), SignBitWire(1)}
    BY <1>1 DEF Raws, Wire
  <2>2. Current(d, raw) = IF raw >= 32768 THEN raw - 32768 ELSE -raw
    BY <1>1 DEF Current, JkUartCurrent
  <2> QED BY <2>1, <2>2 DEF SignBitWire
<1>2. CASE d # "jk_uart"
  BY <1>2, Decoded DEF Raws
<1> QED BY <1>1, <1>2

-----------------------------------------------------------------------------
(* The programs                                                            *)

Names == Asking \cup {"settings", "learn", "status", "request", "values",
                      "write", "write_both", "forget", "forget_status",
                      "refuse", "sample", "publish", "ack"}

\* The steps which only some drivers have.
Belongs(d, s) ==
    /\ s \in {"hear", "settings", "ask_settings", "forget"} => d = "jk"
    /\ s \in {"learn", "ask_known", "write_both"} => d = "jbd"
    /\ s \in {"status", "ask_status", "soc", "forget_status"} => d = "daly"
    /\ s = "echo" => d = "daly2"
    /\ s = "write" => d \in {"jk", "daly", "ant"}
    /\ s \in {"analog", "direction"} => d = "pace"
    /\ s = "request" => d = "supervolt"
    /\ s \in {"values", "reread"} => d = "victron"
    /\ s = "all" => d \notin {"jk", "daly", "pace", "supervolt", "victron"}
    /\ s = "publish" => d \in Switching

\* What may follow what.
Ends == {"publish", "ack"}
Follows(d) ==
    {<<"hear", "settings">>, <<"settings", "sample">>,
     <<"ask_settings", "sample">>, <<"all", "sample">>,
     <<"status", "soc">>, <<"ask_status", "soc">>, <<"soc", "sample">>,
     <<"analog", "direction">>, <<"direction", "sample">>,
     <<"request", "sample">>, <<"values", "sample">>, <<"reread", "sample">>,
     <<"learn", "write_both">>, <<"ask_known", "write_both">>,
     <<"forget_status", "status">>, <<"status", "write">>,
     <<"ask_status", "write">>}
    \cup ({"write_both", "forget", "echo", "refuse"} \X Ends)
    \cup (IF d = "jk" THEN {<<"write", "forget">>} ELSE {"write"} \X Ends)

\* What a task has left is part of a program, up to its end.
Program(d, p) ==
    /\ p \in Seq(Names)
    /\ \A i \in 1..Len(p) : Belongs(d, p[i])
    /\ \A i \in 1..Len(p) - 1 : <<p[i], p[i + 1]>> \in Follows(d)
    /\ p # <<>> => p[Len(p)] \in Ends \cup {"sample"}

\* What has been done is gone, and the rest is a program.
LEMMA TailProgram ==
    ASSUME NEW d, NEW p, Program(d, p), p # <<>>
    PROVE  /\ Program(d, Tail(p))
           /\ Belongs(d, Head(p)) /\ Head(p) \in Names
           /\ Head(p) \notin Ends \cup {"sample"} => Tail(p) # <<>>
           /\ Tail(p) # <<>> => <<Head(p), Head(Tail(p))>> \in Follows(d)
<1>1. p \in Seq(Names) /\ Len(p) > 0
  BY EmptySeq, LenProperties DEF Program
<1>2. /\ Tail(p) \in Seq(Names) /\ Len(Tail(p)) = Len(p) - 1
      /\ \A i \in 1..Len(Tail(p)) : Tail(p)[i] = p[i + 1]
      /\ Head(p) = p[1]
  BY <1>1, HeadTailProperties
<1>3. Tail(p) # <<>> => Head(Tail(p)) = p[2] /\ Len(p) > 1
  BY <1>1, <1>2
<1>4. Program(d, Tail(p))
  BY <1>1, <1>2 DEF Program
<1>5. Belongs(d, Head(p)) /\ Head(p) \in Names
  BY <1>1, <1>2 DEF Program
<1>6. Tail(p) # <<>> => <<Head(p), Head(Tail(p))>> \in Follows(d)
  BY <1>1, <1>2, <1>3 DEF Program
<1>7. Tail(p) = <<>> => Head(p) \in Ends \cup {"sample"}
  <2>1. Tail(p) = <<>> => Len(p) = 1
    BY <1>1, <1>2, EmptySeq
  <2> QED BY <1>2, <2>1 DEF Program
<1> QED BY <1>4, <1>5, <1>6, <1>7

\* A query stands for the step that needs its answer.
LEMMA InsertedProgram ==
    ASSUME NEW d, NEW p, Program(d, p), p # <<>>, NEW s,
           <<Head(p), s>> \in {<<"settings", "ask_settings">>,
                               <<"learn", "ask_known">>,
                               <<"status", "ask_status">>,
                               <<"values", "reread">>}
    PROVE  /\ Program(d, [p EXCEPT ![1] = s])
           /\ [p EXCEPT ![1] = s] # <<>>
           /\ Head([p EXCEPT ![1] = s]) = s
<1> DEFINE q == [p EXCEPT ![1] = s]
<1>1. p \in Seq(Names) /\ Len(p) > 0 /\ Len(p) \in Nat /\ Head(p) = p[1]
  BY EmptySeq, LenProperties, HeadTailProperties DEF Program
<1>2. s \in Names /\ Belongs(d, s)
  <2>1. Belongs(d, p[1])
    BY <1>1 DEF Program
  <2> QED BY <1>1, <2>1 DEF Names, Asking, Belongs
<1>3. q \in Seq(Names) /\ Len(q) = Len(p)
  BY <1>1, <1>2
<1>4. \A i \in 1..Len(p) : q[i] = IF i = 1 THEN s ELSE p[i]
  BY <1>1
<1>5. Head(q) = s /\ q # <<>>
  BY <1>1, <1>3, <1>4
<1>6. Len(p) > 1
  BY <1>1 DEF Program, Ends
<1>7. <<s, p[2]>> \in Follows(d)
  <2>1. <<p[1], p[2]>> \in Follows(d)
    BY <1>1, <1>6 DEF Program
  <2> QED BY <1>1, <2>1 DEF Follows, Ends
<1> HIDE DEF q
<1>8. Program(d, q)
  BY <1>1, <1>2, <1>3, <1>4, <1>6, <1>7 DEF Program
<1> QED BY <1>5, <1>8 DEF q

\* Appending one step to a sequence of one or two; of three.
LEMMA Appended ==
    ASSUME NEW a, NEW b, NEW e
    PROVE  /\ <<a>> \o <<e>> = <<a, e>>
           /\ <<a, b>> \o <<e>> = <<a, b, e>>
<1> DEFINE S == {a, b, e}
           z == <<e>>
<1>0. a \in S /\ b \in S /\ e \in S
  OBVIOUS
<1> HIDE DEF S
<1>1. z \in Seq(S) /\ Len(z) = 1 /\ z[1] = e
  BY <1>0
<1>2. <<a>> \o z = <<a, e>>
  <2> DEFINE x == <<a>> y == <<a, e>>
  <2>1. x \in Seq(S) /\ y \in Seq(S) /\ Len(x) = 1 /\ Len(y) = 2
    BY <1>0
  <2>2. /\ x \o z \in Seq(S) /\ Len(x \o z) = 2
        /\ \A i \in 1..2 : (x \o z)[i] = y[i]
    BY <1>1, <2>1, ConcatProperties
  <2> HIDE DEF x, y, z
  <2>3. x \o z = y
    BY <2>1, <2>2, SeqEqual
  <2> QED BY <2>3 DEF x, y, z
<1>3. <<a, b>> \o z = <<a, b, e>>
  <2> DEFINE x == <<a, b>> y == <<a, b, e>>
  <2>1. x \in Seq(S) /\ y \in Seq(S) /\ Len(x) = 2 /\ Len(y) = 3
    BY <1>0
  <2>2. /\ x \o z \in Seq(S) /\ Len(x \o z) = 3
        /\ \A i \in 1..3 : (x \o z)[i] = y[i]
    BY <1>1, <2>1, ConcatProperties
  <2> HIDE DEF x, y, z
  <2>3. x \o z = y
    BY <2>1, <2>2, SeqEqual
  <2> QED BY <2>3 DEF x, y, z
<1> QED BY <1>2, <1>3 DEF z

\* Three elements and one more are four.
LEMMA AppendedToThree ==
    ASSUME NEW a, NEW b, NEW c, NEW e
    PROVE  <<a, b, c>> \o <<e>> = <<a, b, c, e>>
<1> DEFINE S == {a, b, c, e}
           z == <<e>>
<1>0. a \in S /\ b \in S /\ c \in S /\ e \in S
  OBVIOUS
<1> HIDE DEF S
<1>1. z \in Seq(S) /\ Len(z) = 1 /\ z[1] = e
  BY <1>0
<1>2. <<a, b, c>> \o z = <<a, b, c, e>>
  <2> DEFINE x == <<a, b, c>> y == <<a, b, c, e>>
  <2>1. x \in Seq(S) /\ y \in Seq(S) /\ Len(x) = 3 /\ Len(y) = 4
    BY <1>0
  <2>2. /\ x \o z \in Seq(S) /\ Len(x \o z) = 4
        /\ \A i \in 1..4 : (x \o z)[i] = y[i]
    BY <1>1, <2>1, ConcatProperties
  <2> HIDE DEF x, y, z
  <2>3. x \o z = y
    BY <2>1, <2>2, SeqEqual
  <2> QED BY <2>3 DEF x, y, z
<1> QED BY <1>2 DEF z

\* The programs of two, three and four steps.
LEMMA ShortPrograms ==
    ASSUME NEW d, NEW a \in Names, NEW b \in Names, NEW c \in Names,
           NEW e \in Names, Belongs(d, a), Belongs(d, b), Belongs(d, c),
           Belongs(d, e), e \in Ends \cup {"sample"}
    PROVE  /\ <<a, e>> \in Follows(d) => Program(d, <<a>> \o <<e>>)
           /\ <<a, b>> \in Follows(d) /\ <<b, e>> \in Follows(d) =>
                  Program(d, <<a, b>> \o <<e>>)
           /\ /\ <<a, b>> \in Follows(d) /\ <<b, c>> \in Follows(d)
              /\ <<c, e>> \in Follows(d)
              => Program(d, <<a, b, c>> \o <<e>>)
<1>1. <<a, e>> \in Follows(d) => Program(d, <<a, e>>)
  <2> DEFINE p == <<a, e>>
  <2>1. p \in Seq(Names) /\ Len(p) = 2 /\ p[1] = a /\ p[2] = e
    OBVIOUS
  <2> HIDE DEF p
  <2>2. <<a, e>> \in Follows(d) => Program(d, p)
    BY <2>1 DEF Program
  <2> QED BY <2>2 DEF p
<1>2. <<a, b>> \in Follows(d) /\ <<b, e>> \in Follows(d) =>
          Program(d, <<a, b, e>>)
  <2> DEFINE p == <<a, b, e>>
  <2>1. p \in Seq(Names) /\ Len(p) = 3 /\ p[1] = a /\ p[2] = b /\ p[3] = e
    OBVIOUS
  <2> HIDE DEF p
  <2>2. <<a, b>> \in Follows(d) /\ <<b, e>> \in Follows(d) => Program(d, p)
    BY <2>1 DEF Program
  <2> QED BY <2>2 DEF p
<1>3. /\ <<a, b>> \in Follows(d) /\ <<b, c>> \in Follows(d)
      /\ <<c, e>> \in Follows(d)
      => Program(d, <<a, b, c, e>>)
  <2> DEFINE p == <<a, b, c, e>>
  <2>1. /\ p \in Seq(Names) /\ Len(p) = 4
        /\ p[1] = a /\ p[2] = b /\ p[3] = c /\ p[4] = e
    OBVIOUS
  <2> HIDE DEF p
  <2>2. ASSUME <<a, b>> \in Follows(d), <<b, c>> \in Follows(d),
               <<c, e>> \in Follows(d)
        PROVE  Program(d, p)
    <3>1. \A i \in 1..3 : <<p[i], p[i + 1]>> \in Follows(d)
      BY <2>1, <2>2
    <3>2. \A i \in 1..4 : Belongs(d, p[i])
      BY <2>1
    <3> QED BY <2>1, <3>1, <3>2 DEF Program
  <2> QED BY <2>2 DEF p
<1>4. /\ <<a>> \o <<e>> = <<a, e>>
      /\ <<a, b>> \o <<e>> = <<a, b, e>>
      /\ <<a, b, c>> \o <<e>> = <<a, b, c, e>>
  BY Appended, AppendedToThree
<1> QED BY <1>1, <1>2, <1>3, <1>4, Zenon

\* A step in whose answer the battery is heard.
Must == {"hear", "all", "soc", "analog"}

\* fetch() and what the sampler does with it: each asks the battery, but for
\* supervolt and victron.
LEMMA CycleProgram ==
    ASSUME NEW d \in AllDrivers
    PROVE  /\ Program(d, Cycle(d)) /\ Cycle(d) # <<>>
           /\ Head(Cycle(d)) \in {"hear", "all", "status", "analog", "request",
                                  "values"}
           /\ d \notin {"supervolt", "victron"} =>
                  \E i \in 1..Len(Cycle(d)) : Cycle(d)[i] \in Must
<1> USE DEF AllDrivers
<1>0. {"hear", "settings", "all", "status", "soc", "analog", "direction",
       "request", "values", "sample"} \subseteq Names
  BY DEF Names, Asking
<1>1. Belongs(d, "sample")
  BY DEF Belongs
<1>2. CASE d = "jk"
  <2>1. Cycle(d) = <<"hear", "settings">> \o <<"sample">>
    BY <1>2 DEF Cycle, Fetch, JkFetch
  <2>2. /\ Belongs(d, "hear") /\ Belongs(d, "settings")
        /\ <<"hear", "settings">> \in Follows(d)
        /\ <<"settings", "sample">> \in Follows(d)
    BY <1>2 DEF Belongs, Follows
  <2>3. Program(d, <<"hear", "settings">> \o <<"sample">>)
    BY <1>0, <1>1, <2>2, ShortPrograms
  <2>4. <<"hear", "settings">> \o <<"sample">> =
            <<"hear", "settings", "sample">>
    BY Appended, Zenon
  <2> QED BY <2>1, <2>3, <2>4 DEF Must
<1>3. CASE d = "daly"
  <2>1. Cycle(d) = <<"status", "soc">> \o <<"sample">>
    BY <1>3 DEF Cycle, Fetch, DalyFetch
  <2>2. /\ Belongs(d, "status") /\ Belongs(d, "soc")
        /\ <<"status", "soc">> \in Follows(d)
        /\ <<"soc", "sample">> \in Follows(d)
    BY <1>3 DEF Belongs, Follows
  <2>3. Program(d, <<"status", "soc">> \o <<"sample">>)
    BY <1>0, <1>1, <2>2, ShortPrograms
  <2>4. <<"status", "soc">> \o <<"sample">> = <<"status", "soc", "sample">>
    BY Appended, Zenon
  <2> QED BY <2>1, <2>3, <2>4 DEF Must
<1>4. CASE d = "pace"
  <2>1. Cycle(d) = <<"analog", "direction">> \o <<"sample">>
    BY <1>4 DEF Cycle, Fetch, PaceFetch
  <2>2. /\ Belongs(d, "analog") /\ Belongs(d, "direction")
        /\ <<"analog", "direction">> \in Follows(d)
        /\ <<"direction", "sample">> \in Follows(d)
    BY <1>4 DEF Belongs, Follows
  <2>3. Program(d, <<"analog", "direction">> \o <<"sample">>)
    BY <1>0, <1>1, <2>2, ShortPrograms
  <2>4. <<"analog", "direction">> \o <<"sample">> =
            <<"analog", "direction", "sample">>
    BY Appended, Zenon
  <2> QED BY <2>1, <2>3, <2>4 DEF Must
<1>5. CASE d = "supervolt"
  <2>1. Cycle(d) = <<"request">> \o <<"sample">>
    BY <1>5 DEF Cycle, Fetch, SuperVoltFetch
  <2>2. /\ Belongs(d, "request")
        /\ <<"request", "sample">> \in Follows(d)
    BY <1>5 DEF Belongs, Follows
  <2>3. Program(d, <<"request">> \o <<"sample">>)
    BY <1>0, <1>1, <2>2, ShortPrograms
  <2>4. <<"request">> \o <<"sample">> = <<"request", "sample">>
    BY Appended, Zenon
  <2> QED BY <2>1, <2>3, <2>4, <1>5
<1>6. CASE d = "victron"
  <2>1. Cycle(d) = <<"values">> \o <<"sample">>
    BY <1>6 DEF Cycle, Fetch, VictronFetch
  <2>2. /\ Belongs(d, "values")
        /\ <<"values", "sample">> \in Follows(d)
    BY <1>6 DEF Belongs, Follows
  <2>3. Program(d, <<"values">> \o <<"sample">>)
    BY <1>0, <1>1, <2>2, ShortPrograms
  <2>4. <<"values">> \o <<"sample">> = <<"values", "sample">>
    BY Appended, Zenon
  <2> QED BY <2>1, <2>3, <2>4, <1>6
<1>7. CASE d \notin {"jk", "daly", "pace", "supervolt", "victron"}
  <2>1. Cycle(d) = <<"all">> \o <<"sample">>
    BY <1>7 DEF Cycle, Fetch, JbdFetch, Daly2Fetch, AntFetch, BasenFetch,
                BasenUartFetch, NoNameFetch, LitimeFetch, SokFetch, JkUartFetch
  <2>2. /\ Belongs(d, "all")
        /\ <<"all", "sample">> \in Follows(d)
    BY <1>7 DEF Belongs, Follows
  <2>3. Program(d, <<"all">> \o <<"sample">>)
    BY <1>0, <1>1, <2>2, ShortPrograms
  <2>4. <<"all">> \o <<"sample">> = <<"all", "sample">>
    BY Appended, Zenon
  <2> QED BY <2>1, <2>3, <2>4 DEF Must
<1> QED BY <1>2, <1>3, <1>4, <1>5, <1>6, <1>7

\* set_switch() and what becomes of it.
LEMMA SwitchProgram ==
    ASSUME NEW d \in AllDrivers, NEW end \in Ends,
           end = "publish" => d \in Switching
    PROVE  /\ Program(d, SetSwitch(d) \o <<end>>)
           /\ SetSwitch(d) \o <<end>> # <<>>
           /\ Head(SetSwitch(d) \o <<end>>) \in
                  {"write", "learn", "forget_status", "echo", "refuse"}
<1>0. {"write", "forget", "learn", "write_both", "forget_status", "status",
       "echo", "refuse", end} \subseteq Names
  BY DEF Names, Asking, Ends
<1>1. Belongs(d, end)
  BY DEF Belongs, Ends
<1>2. CASE d = "jk"
  <2>1. SetSwitch(d) = <<"write", "forget">>
    BY <1>2 DEF SetSwitch, JkSetSwitch
  <2>2. /\ Belongs(d, "write") /\ Belongs(d, "forget")
        /\ <<"write", "forget">> \in Follows(d)
        /\ <<"forget", end>> \in Follows(d)
    BY <1>2 DEF Belongs, Follows, Ends
  <2>3. Program(d, <<"write", "forget">> \o <<end>>)
    BY <1>0, <1>1, <2>2, ShortPrograms
  <2>4. <<"write", "forget">> \o <<end>> = <<"write", "forget", end>>
    BY Appended, Zenon
  <2> QED BY <2>1, <2>3, <2>4
<1>3. CASE d = "jbd"
  <2>1. SetSwitch(d) = <<"learn", "write_both">>
    BY <1>3 DEF SetSwitch, JbdSetSwitch
  <2>2. /\ Belongs(d, "learn") /\ Belongs(d, "write_both")
        /\ <<"learn", "write_both">> \in Follows(d)
        /\ <<"write_both", end>> \in Follows(d)
    BY <1>3 DEF Belongs, Follows, Ends
  <2>3. Program(d, <<"learn", "write_both">> \o <<end>>)
    BY <1>0, <1>1, <2>2, ShortPrograms
  <2>4. <<"learn", "write_both">> \o <<end>> = <<"learn", "write_both", end>>
    BY Appended, Zenon
  <2> QED BY <2>1, <2>3, <2>4
<1>4. CASE d = "daly"
  <2>1. SetSwitch(d) = <<"forget_status", "status", "write">>
    BY <1>4 DEF SetSwitch, DalySetSwitch
  <2>2. /\ Belongs(d, "forget_status") /\ Belongs(d, "status")
        /\ Belongs(d, "write")
        /\ <<"forget_status", "status">> \in Follows(d)
        /\ <<"status", "write">> \in Follows(d)
        /\ <<"write", end>> \in Follows(d)
    BY <1>4 DEF Belongs, Follows, Ends
  <2>3. Program(d, <<"forget_status", "status", "write">> \o <<end>>)
    <3>1. /\ "forget_status" \in Names /\ "status" \in Names
          /\ "write" \in Names /\ end \in Names
          /\ end \in Ends \cup {"sample"}
      BY <1>0
    <3> QED BY <1>1, <2>2, <3>1, ShortPrograms, Zenon
  <2>4. <<"forget_status", "status", "write">> \o <<end>> =
            <<"forget_status", "status", "write", end>>
    BY AppendedToThree, Zenon
  <2> QED BY <2>1, <2>3, <2>4
<1>5. CASE d = "daly2"
  <2>1. SetSwitch(d) = <<"echo">>
    BY <1>5 DEF SetSwitch, Daly2SetSwitch
  <2>2. /\ Belongs(d, "echo")
        /\ <<"echo", end>> \in Follows(d)
    BY <1>5 DEF Belongs, Follows, Ends
  <2>3. Program(d, <<"echo">> \o <<end>>)
    BY <1>0, <1>1, <2>2, ShortPrograms
  <2>4. <<"echo">> \o <<end>> = <<"echo", end>>
    BY Appended, Zenon
  <2> QED BY <2>1, <2>3, <2>4
<1>6. CASE d = "ant"
  <2>1. SetSwitch(d) = <<"write">>
    BY <1>6 DEF SetSwitch, AntSetSwitch
  <2>2. /\ Belongs(d, "write")
        /\ <<"write", end>> \in Follows(d)
    BY <1>6 DEF Belongs, Follows, Ends
  <2>3. Program(d, <<"write">> \o <<end>>)
    BY <1>0, <1>1, <2>2, ShortPrograms
  <2>4. <<"write">> \o <<end>> = <<"write", end>>
    BY Appended, Zenon
  <2> QED BY <2>1, <2>3, <2>4
<1>7. CASE d \notin {"jk", "jbd", "daly", "daly2", "ant"}
  <2>1. SetSwitch(d) = <<"refuse">>
    BY <1>7 DEF SetSwitch
  <2>2. /\ Belongs(d, "refuse")
        /\ <<"refuse", end>> \in Follows(d)
    BY <1>7 DEF Belongs, Follows, Ends
  <2>3. Program(d, <<"refuse">> \o <<end>>)
    BY <1>0, <1>1, <2>2, ShortPrograms
  <2>4. <<"refuse">> \o <<end>> = <<"refuse", end>>
    BY Appended, Zenon
  <2> QED BY <2>1, <2>3, <2>4
<1> QED BY <1>2, <1>3, <1>4, <1>5, <1>6, <1>7

-----------------------------------------------------------------------------
(* Types                                                                   *)

Flow == -1..1
Shown == Position \cup {Unknown}
Replies(d) == {NoReply} \cup [live : {TRUE}, raw : Raws(d), sw : Position]
TaskState(d) == [todo : Seq(Names), cmd : Command, reply : Replies(d),
                 flow : Flow, sw : Shown, age : 0..Expiry + 1]
Memory(d) == [flow : Flow, age : 0..Expiry + 1, sw : Shown,
              swAge : 0..Ttl + 1, late : Replies(d)]

\* Every variable has its type, and what a task has left is a program, in
\* which an answer is only there for a step that asks for one.
Types ==
    /\ driver \in Drivers /\ driver \in AllDrivers
    /\ dead \in BOOLEAN
    /\ dev \in [flow : {-1, 1}, sw : Position]
    /\ mem \in Memory(driver)
    /\ run \in [Tasks -> TaskState(driver)]
    /\ queue \in Seq(Command)
    /\ topic \in [flow : Flow, sw : Shown]
    /\ sampled \in {"no", "ok", "failed"}
    /\ set \in [Switches -> SUBSET BOOLEAN]
    /\ calm \in 0..Ttl + 1 /\ silence \in 0..Expiry + 1

Programs ==
    \A t \in Tasks :
        /\ Program(driver, run[t].todo)
        /\ run[t].reply # NoReply => At(t, Asking)

\* No position of the switches is the unknown one.
LEMMA UnknownPosition == Unknown \notin Position
<1>1. DOMAIN Unknown = 1..0
  BY EmptySeq, LenProperties DEF Unknown
<1> QED BY <1>1 DEF Position, Switches

\* An answer is there or not.
LEMMA LiveReply ==
    ASSUME NEW d, NEW r \in Replies(d)
    PROVE  /\ r.live <=> r # NoReply
           /\ r.live => r.raw \in Raws(d) /\ r.sw \in Position
<1>1. NoReply.live = FALSE
  BY DEF NoReply
<1>2. CASE r = NoReply
  BY <1>1, <1>2, Zenon
<1>3. CASE r \in [live : {TRUE}, raw : Raws(d), sw : Position]
  <2>1. r.live = TRUE /\ r.raw \in Raws(d) /\ r.sw \in Position
    BY <1>3
  <2>2. r # NoReply
    BY <1>1, <2>1, Zenon
  <2> QED BY <2>1, <2>2, Zenon
<1> QED BY <1>2, <1>3 DEF Replies

\* The constants, the idle task and the tasks that run are typed.
LEMMA TypedTasks ==
    ASSUME Types
    PROVE  /\ Ttl \in Nat /\ Ttl > 0 /\ Expiry \in Nat /\ Expiry > 0
           /\ NoReply \in Replies(driver)
           /\ Idle \in TaskState(driver)
           /\ \A t \in Tasks : run[t] \in TaskState(driver)
<1>1. /\ Ttl \in Nat /\ Ttl > 0 /\ Expiry \in Nat /\ Expiry > 0
  BY ReadingsAssumption
<1>2. NoReply \in Replies(driver)
  BY DEF Replies
<1>3. Idle \in TaskState(driver)
  <2>1. <<>> \in Seq(Names)
    BY EmptySeq
  <2> QED BY <1>1, <1>2, <2>1
          DEF Idle, TaskState, Command, Switches, Flow, Shown
<1> QED BY <1>1, <1>2, <1>3 DEF Types

\* The types hold initially, and nothing is under way.
LEMMA InitTypes == Init => Types /\ Programs
<1> SUFFICES ASSUME Init PROVE Types /\ Programs
  OBVIOUS
<1> USE DEF Init
<1>1. driver \in Drivers /\ driver \in AllDrivers
  BY ReadingsAssumption
<1>2. dev \in [flow : {-1, 1}, sw : Position]
  BY DEF Position
<1>3. /\ Ttl \in Nat /\ Ttl > 0 /\ Expiry \in Nat /\ Expiry > 0
  BY ReadingsAssumption
<1>4. mem \in Memory(driver)
  BY <1>3 DEF Memory, Flow, Shown, Replies
<1>5. Idle \in TaskState(driver)
  <2>1. <<>> \in Seq(Names)
    BY EmptySeq
  <2> QED BY <1>3, <2>1
          DEF Idle, TaskState, Command, Switches, Flow, Shown, Replies
<1>6. Types
  <2>1. run \in [Tasks -> TaskState(driver)]
    BY <1>5
  <2>2. queue \in Seq(Command) /\ topic \in [flow : Flow, sw : Shown]
    BY EmptySeq DEF Flow, Shown
  <2>3. set \in [Switches -> SUBSET BOOLEAN]
    OBVIOUS
  <2>4. calm \in 0..Ttl + 1 /\ silence \in 0..Expiry + 1
    BY <1>3
  <2>5. dead \in BOOLEAN
    BY Zenon
  <2>6. sampled \in {"no", "ok", "failed"}
    BY Zenon
  <2> HIDE DEF Init
  <2> QED BY <1>1, <1>2, <1>4, <2>1, <2>2, <2>3, <2>4,
            <2>5, <2>6 DEF Types
<1>7. Programs
  <2>1. Program(driver, <<>>)
    BY EmptySeq DEF Program
  <2>2. \A t \in Tasks : run[t].todo = <<>> /\ run[t].reply = NoReply
    BY DEF Idle
  <2> QED BY <2>1, <2>2 DEF Programs
<1> QED BY <1>6, <1>7

\* What is left of a program goes on being one; the other task's is the same.
Others(t) == \A u \in Tasks \ {t} : run'[u] = run[u]
Onward(t) == /\ run' \in [Tasks -> TaskState(driver)]
             /\ run'[t].reply = NoReply
             /\ Program(driver, run'[t].todo)
             /\ Others(t)

\* Task t goes on, as r.
LEMMA GoesEffect ==
    ASSUME Types, Programs, NEW t \in Tasks, run[t].todo # <<>>,
           NEW r \in TaskState(driver), r.todo = run[t].todo, Goes(t, r)
    PROVE  /\ Onward(t)
           /\ run'[t].todo = Tail(run[t].todo)
           /\ run'[t].flow = r.flow /\ run'[t].sw = r.sw
           /\ run'[t].age = r.age /\ run'[t].cmd = r.cmd
<1> DEFINE new == [r EXCEPT !.todo = Tail(@), !.reply = NoReply]
<1>1. Program(driver, Tail(run[t].todo))
  BY TailProgram DEF Programs
<1>2. Tail(r.todo) \in Seq(Names)
  BY <1>1 DEF Program
<1>3. /\ new \in TaskState(driver)
      /\ new.todo = Tail(run[t].todo) /\ new.reply = NoReply
      /\ new.flow = r.flow /\ new.sw = r.sw /\ new.age = r.age
      /\ new.cmd = r.cmd
  BY <1>2, TypedTasks DEF TaskState
<1>4. run' = [run EXCEPT ![t] = new] /\ run \in [Tasks -> TaskState(driver)]
  BY DEF Goes, Types
<1> HIDE DEF new
<1>5. run'[t] = new /\ Others(t) /\ run' \in [Tasks -> TaskState(driver)]
  BY <1>3, <1>4 DEF Others
<1> QED BY <1>1, <1>3, <1>5 DEF Onward

\* Task t does s instead.
LEMMA InsertsEffect ==
    ASSUME Types, Programs, NEW t \in Tasks, run[t].todo # <<>>, NEW s,
           <<Head(run[t].todo), s>> \in {<<"settings", "ask_settings">>,
                                         <<"learn", "ask_known">>,
                                         <<"status", "ask_status">>,
                                         <<"values", "reread">>},
           Inserts(t, s)
    PROVE  /\ Onward(t)
           /\ run'[t].todo = [run[t].todo EXCEPT ![1] = s]
           /\ run'[t].todo # <<>> /\ Head(run'[t].todo) = s
           /\ run'[t].cmd = run[t].cmd /\ run'[t].flow = run[t].flow
<1> DEFINE p == [run[t].todo EXCEPT ![1] = s]
           new == [run[t] EXCEPT !.todo = p]
<1>1. Program(driver, p) /\ p # <<>> /\ Head(p) = s
  BY InsertedProgram DEF Programs
<1>2. run[t].reply = NoReply
  <2>1. Head(run[t].todo) \in {"settings", "learn", "status", "values"}
    OBVIOUS
  <2> QED BY <2>1 DEF Programs, At, Asking
<1>3. p \in Seq(Names) /\ run[t] \in TaskState(driver)
  BY <1>1, TypedTasks DEF Program
<1>4. run' = [run EXCEPT ![t] = new] /\ run \in [Tasks -> TaskState(driver)]
  BY DEF Inserts, Types
<1> HIDE DEF p
<1>5. /\ new \in TaskState(driver) /\ new.todo = p /\ new.reply = NoReply
      /\ new.cmd = run[t].cmd /\ new.flow = run[t].flow
  BY <1>2, <1>3 DEF TaskState
<1> HIDE DEF new
<1>6. run'[t] = new /\ Others(t) /\ run' \in [Tasks -> TaskState(driver)]
  BY <1>4, <1>5 DEF Others
<1> QED BY <1>1, <1>5, <1>6 DEF Onward, p

\* Task t raises, or is done.
LEMMA IdleEffect ==
    ASSUME Types, NEW t \in Tasks, run' = [run EXCEPT ![t] = Idle]
    PROVE  Onward(t) /\ run'[t].todo = <<>>
<1>1. Idle \in TaskState(driver) /\ Idle.todo = <<>> /\ Idle.reply = NoReply
  BY TypedTasks DEF Idle
<1>2. Program(driver, <<>>)
  BY EmptySeq DEF Program
<1>3. run \in [Tasks -> TaskState(driver)]
  BY DEF Types
<1> QED BY <1>1, <1>2, <1>3 DEF Onward, Others

\* The answer task t waits for is there.
LEMMA AnswerEffect ==
    ASSUME Types, Programs, NEW t \in Tasks, Answer(t)
    PROVE  /\ run' \in [Tasks -> TaskState(driver)]
           /\ run'[t] = [run[t] EXCEPT !.reply = Snapshot]
           /\ run'[t].reply = Snapshot /\ Snapshot \in Replies(driver)
           /\ Snapshot # NoReply
           /\ run'[t].todo = run[t].todo /\ run'[t].cmd = run[t].cmd
           /\ run'[t].flow = run[t].flow /\ run'[t].sw = run[t].sw
           /\ run'[t].age = run[t].age
           /\ Others(t)
<1>1. dev \in [flow : {-1, 1}, sw : Position]
  BY DEF Types
<1>2. Snapshot \in [live : {TRUE}, raw : Raws(driver), sw : Position]
  BY <1>1 DEF Snapshot, Raws
<1>3. Snapshot \in Replies(driver) /\ Snapshot # NoReply
  <2>1. Snapshot \in Replies(driver)
    BY <1>2 DEF Replies
  <2>2. Snapshot.live
    BY <1>2
  <2> QED BY <2>1, <2>2, LiveReply
<1>4. run' = [run EXCEPT ![t].reply = Snapshot]
  BY DEF Answer
<1>5. run \in [Tasks -> TaskState(driver)] /\ run[t] \in TaskState(driver)
  BY DEF Types
<1> QED BY <1>3, <1>4, <1>5 DEF TaskState, Others

\* A task that goes on leaves each task with a program of the driver.
LEMMA OnwardPrograms ==
    ASSUME Types, Programs, NEW t \in Tasks, Onward(t), driver' = driver
    PROVE  Programs'
<1>1. ASSUME NEW u \in Tasks
      PROVE  /\ Program(driver, run'[u].todo)
             /\ run'[u].reply # NoReply =>
                    run'[u].todo # <<>> /\ Head(run'[u].todo) \in Asking
  <2>1. CASE u = t
    BY <2>1 DEF Onward
  <2>2. CASE u # t
    <3>1. run'[u] = run[u]
      BY <2>2 DEF Onward, Others
    <3> QED BY <3>1 DEF Programs, At
  <2> QED BY <2>1, <2>2
<1> QED BY <1>1 DEF Programs, At

\* What a command does to the battery.
LEMMA SetsEffect ==
    ASSUME Types, NEW t \in Tasks, NEW sw \in Position, Sets(t, sw)
    PROVE  /\ dev' \in [flow : {-1, 1}, sw : Position]
           /\ dev'.flow = dev.flow /\ dev'.sw = sw /\ calm' = 0
           /\ set' \in [Switches -> SUBSET BOOLEAN]
           /\ \A s \in Switches :
                  set'[s] = IF s = run[t].cmd.switch THEN {run[t].cmd.state}
                            ELSE IF driver = "jbd" /\ mem.sw[s] # dev.sw[s]
                            THEN {} ELSE set[s]
<1>1. dev \in [flow : {-1, 1}, sw : Position]
  BY DEF Types
<1>2. dev' = [dev EXCEPT !.sw = sw] /\ calm' = 0
  BY DEF Sets
<1>3. /\ dev' \in [flow : {-1, 1}, sw : Position]
      /\ dev'.flow = dev.flow /\ dev'.sw = sw
  BY <1>1, <1>2
<1>4. run[t].cmd.state \in BOOLEAN
  BY DEF Types, TaskState, Command
<1>5. set \in [Switches -> SUBSET BOOLEAN]
  BY DEF Types
<1>6. set' = [s \in Switches |->
                  IF s = run[t].cmd.switch THEN {run[t].cmd.state}
                  ELSE IF driver = "jbd" /\ mem.sw[s] # dev.sw[s]
                  THEN {} ELSE set[s]]
  BY DEF Sets
<1>7. set' \in [Switches -> SUBSET BOOLEAN]
  BY <1>4, <1>5, <1>6
<1> QED BY <1>2, <1>3, <1>6, <1>7

\* The command's switch moved, and no other.
LEMMA MovedPosition ==
    ASSUME NEW sw \in Position, NEW c \in Command
    PROVE  /\ [sw EXCEPT ![c.switch] = c.state] \in Position
           /\ [sw EXCEPT ![c.switch] = c.state][c.switch] = c.state
           /\ \A s \in Switches \ {c.switch} :
                  [sw EXCEPT ![c.switch] = c.state][s] = sw[s]
<1>1. c.switch \in Switches /\ c.state \in BOOLEAN
  BY DEF Command
<1> QED BY <1>1 DEF Position

\* What the device does with a code.
LEMMA JbdMeansBits ==
    ASSUME NEW code
    PROVE  /\ JbdMeans(code) \in Position
           /\ JbdMeans(code)["charge"] <=> code \in {0, 2}
           /\ JbdMeans(code)["discharge"] <=> code \in {0, 1}
<1> DEFINE a == code \in {0, 2}
           b == code \in {0, 1}
<1>1. a \in BOOLEAN /\ b \in BOOLEAN
  OBVIOUS
<1>2. JbdMeans(code) = [s \in Switches |-> IF s = "charge" THEN a ELSE b]
  BY Zenon DEF JbdMeans
<1> HIDE DEF a, b
<1>3. JbdMeans(code) \in Position
  BY <1>1, <1>2 DEF Position
<1>4. JbdMeans(code)["charge"] = a /\ JbdMeans(code)["discharge"] = b
  BY <1>2 DEF Switches
<1> QED BY <1>3, <1>4 DEF a, b

\* The code of jbd says what it is to say.
LEMMA JbdCodes ==
    ASSUME NEW both \in Position, NEW c \in Command, both[c.switch] = c.state
    PROVE  JbdMeans(JbdCode(both, c)) = both
<1> DEFINE code == JbdCode(both, c)
<1>1. /\ On(both) = Switches <=> both["charge"] /\ both["discharge"]
      /\ On(both) = {} <=> ~both["charge"] /\ ~both["discharge"]
  BY DEF On, Switches
<1>2. \/ c.switch = "charge" /\ (c.state <=> both["charge"])
      \/ c.switch = "discharge" /\ (c.state <=> both["discharge"])
  BY Zenon DEF Switches, Command
<1>3. /\ (both["charge"] /\ both["discharge"]) => code = 0
      /\ (~both["charge"] /\ ~both["discharge"]) => code = 3
      /\ (~both["charge"] /\ both["discharge"]) => code = 1
      /\ (both["charge"] /\ ~both["discharge"]) => code = 2
  BY <1>1, <1>2 DEF JbdCode
<1> HIDE DEF code
<1>4. /\ code \in {0, 2} <=> both["charge"]
      /\ code \in {0, 1} <=> both["discharge"]
  BY <1>3
<1>5. /\ JbdMeans(code)["charge"] <=> both["charge"]
      /\ JbdMeans(code)["discharge"] <=> both["discharge"]
  BY <1>4, JbdMeansBits
<1>6. JbdMeans(code) \in Position
  BY JbdMeansBits
<1>7. JbdMeans(code) = both
  BY <1>5, <1>6 DEF Position, Switches
<1> QED BY <1>7 DEF code

-----------------------------------------------------------------------------
(* Each action keeps the types and the programs.                           *)

\* What the battery and its app change keeps the types.
LEMMA ChangesTypes ==
    ASSUME Types, Programs, Changes
    PROVE  Types' /\ Programs'
<1>1. /\ dev' \in [flow : {-1, 1}, sw : Position]
      /\ set' \in [Switches -> SUBSET BOOLEAN]
  <2>1. /\ dev \in [flow : {-1, 1}, sw : Position]
        /\ set \in [Switches -> SUBSET BOOLEAN]
    BY DEF Types
  <2>2. CASE dev' = [dev EXCEPT !.flow = -@] /\ UNCHANGED set
    BY <2>1, <2>2
  <2>3. ASSUME NEW s \in Switches, dev' = [dev EXCEPT !.sw[s] = ~@],
               set' = [set EXCEPT ![s] = {}]
        PROVE  /\ dev' \in [flow : {-1, 1}, sw : Position]
               /\ set' \in [Switches -> SUBSET BOOLEAN]
    <3>1. [dev.sw EXCEPT ![s] = ~@] \in Position
      BY <2>1 DEF Position
    <3> QED BY <2>1, <2>3, <3>1
  <2> QED BY <2>2, <2>3 DEF Changes
<1>2. calm' \in 0..Ttl + 1
  BY ReadingsAssumption DEF Changes
<1>3. UNCHANGED <<driver, dead, mem, run, queue, topic, sampled, silence>>
  BY DEF Changes
<1>4. Types'
  BY <1>1, <1>2, <1>3 DEF Types
<1> QED BY <1>3, <1>4 DEF Programs, At

\* What happens outside the two tasks keeps the types.
LEMMA OutsideTypes ==
    ASSUME Types, Programs,
           Dies \/ HandleNotification \/ MessageHandler \/ Tick
    PROVE  Types' /\ Programs'
<1>1. CASE Dies
  <2>1. dead' \in BOOLEAN
    BY <1>1 DEF Dies
  <2>2. UNCHANGED <<driver, dev, mem, run, queue, topic, sampled, set, calm,
                    silence>>
    BY <1>1 DEF Dies
  <2> QED BY <2>1, <2>2 DEF Types, Programs, At
<1>2. CASE HandleNotification
  <2>1. UNCHANGED <<driver, dev, dead, run, queue, topic, sampled, set, calm>>
    BY <1>2 DEF HandleNotification
  <2>2. mem' \in Memory(driver) /\ silence' \in 0..Expiry + 1
    <3>1. Current(driver, Wire(driver, dev.flow)) \in Flow
      <4>1. driver \in AllDrivers /\ dev.flow \in {-1, 1}
        BY DEF Types
      <4>2. Wire(driver, dev.flow) \in Raws(driver)
        BY <4>1 DEF Raws
      <4>3. Current(driver, Wire(driver, dev.flow)) \in {-1, 1}
        BY <4>1, <4>2, CurrentType
      <4> QED BY <4>3 DEF Flow
    <3>2. /\ mem' = [mem EXCEPT
                         !.flow = Current(driver, Wire(driver, dev.flow)),
                         !.age = 0]
          /\ silence' = 0 /\ mem \in Memory(driver)
      BY <1>2 DEF HandleNotification, Types
    <3>3. 0 \in 0..Expiry + 1
      BY TypedTasks
    <3>4. mem' \in Memory(driver)
      BY <3>1, <3>2, <3>3 DEF Memory
    <3> QED BY <3>2, <3>3, <3>4
  <2> QED BY <2>1, <2>2 DEF Types, Programs, At
<1>3. CASE MessageHandler
  <2>1. UNCHANGED <<driver, dev, dead, mem, run, topic, sampled, set, calm,
                    silence>>
    BY <1>3 DEF MessageHandler
  <2>2. queue' \in Seq(Command)
    BY <1>3, AppendProperties DEF MessageHandler, Types
  <2> QED BY <2>1, <2>2 DEF Types, Programs, At
<1>4. CASE Tick
  <2>1. UNCHANGED <<driver, dev, dead, run, queue, topic, set>>
    BY <1>4 DEF Tick
  <2>2. sampled' \in {"no", "ok", "failed"}
    BY <1>4 DEF Tick
  <2>3. calm' \in 0..Ttl + 1 /\ silence' \in 0..Expiry + 1
    BY <1>4, TypedTasks DEF Tick, Types, After
  <2>4. mem' \in Memory(driver)
    <3>1. /\ mem \in Memory(driver)
          /\ mem.age \in 0..Expiry + 1 /\ mem.swAge \in 0..Ttl + 1
      BY DEF Types, Memory
    <3>2. After(mem.age, Expiry) \in 0..Expiry + 1
      BY <3>1, TypedTasks DEF After
    <3>3. After(mem.swAge, Ttl) \in 0..Ttl + 1
      BY <3>1, TypedTasks DEF After
    <3> QED BY <1>4, <3>1, <3>2, <3>3 DEF Tick, Memory
  <2> QED BY <2>1, <2>2, <2>3, <2>4 DEF Types, Programs, At
<1> QED BY <1>1, <1>2, <1>3, <1>4

-----------------------------------------------------------------------------
(* What the steps of a task do.                                            *)

\* An answer to read is typed, and its current is a direction.
LEMMA ReplyRead ==
    ASSUME Types, NEW t \in Tasks, run[t].reply.live
    PROVE  /\ run[t].reply.raw \in Raws(driver)
           /\ run[t].reply.sw \in Position
           /\ Current1(t) \in {-1, 1} /\ Current1(t) \in Flow
<1>1. driver \in AllDrivers /\ run[t].reply \in Replies(driver)
  BY DEF Types, TaskState
<1>2. run[t].reply.raw \in Raws(driver) /\ run[t].reply.sw \in Position
  BY <1>1, LiveReply
<1>3. Current1(t) \in {-1, 1}
  BY <1>1, <1>2, CurrentType DEF Current1
<1> QED BY <1>2, <1>3 DEF Flow

\* The switches are read, and remembered.
Learns(t) == /\ run'[t].sw = run[t].reply.sw
             /\ mem' = [mem EXCEPT !.sw = run[t].reply.sw, !.swAge = 0]

\* An answer read: the current it says, or the switches, remembered where
\* the driver remembers them.
LEMMA ReadsEffect ==
    ASSUME Types, Programs, NEW t \in Tasks, Reads(t)
    PROVE  /\ Onward(t) /\ mem' \in Memory(driver)
           /\ run[t].todo # <<>> /\ run'[t].todo = Tail(run[t].todo)
           /\ run'[t].cmd = run[t].cmd
           /\ run[t].reply.live
           /\ \/ /\ At(t, {"hear", "soc"})
                 /\ run'[t].flow = Current1(t) /\ run'[t].sw = run[t].sw
                 /\ mem' = mem
              \/ /\ At(t, {"ask_settings", "ask_status", "ask_known"})
                 /\ run'[t].flow = run[t].flow /\ Learns(t)
              \/ At(t, {"all"}) /\ run'[t].flow = Current1(t) /\ Learns(t)
              \/ /\ At(t, {"direction"})
                 /\ run'[t].flow = Current1(t)
                 /\ run'[t].sw = run[t].reply.sw
                 /\ mem' = [mem EXCEPT !.flow = Current1(t)]
              \/ At(t, {"analog"}) /\ mem' = mem
<1> DEFINE heard == [run[t] EXCEPT !.flow = Current1(t)]
           shown == [run[t] EXCEPT !.sw = run[t].reply.sw]
           both == [run[t] EXCEPT !.flow = Current1(t), !.sw = run[t].reply.sw]
           sw == [mem EXCEPT !.sw = run[t].reply.sw, !.swAge = 0]
           found == [mem EXCEPT !.flow = Current1(t)]
<1>1. run[t].todo # <<>> /\ run[t].reply.live
  BY DEF Reads, At
<1>2. Current1(t) \in Flow /\ run[t].reply.sw \in Shown
  BY <1>1, ReplyRead DEF Shown
<1>3. run[t] \in TaskState(driver) /\ mem \in Memory(driver)
  BY DEF Types
<1>4. /\ heard \in TaskState(driver) /\ heard.todo = run[t].todo
      /\ heard.flow = Current1(t) /\ heard.sw = run[t].sw
      /\ heard.cmd = run[t].cmd
  BY <1>2, <1>3 DEF TaskState
<1>5. /\ shown \in TaskState(driver) /\ shown.todo = run[t].todo
      /\ shown.flow = run[t].flow /\ shown.sw = run[t].reply.sw
      /\ shown.cmd = run[t].cmd
  BY <1>2, <1>3 DEF TaskState
<1>6. /\ both \in TaskState(driver) /\ both.todo = run[t].todo
      /\ both.flow = Current1(t) /\ both.sw = run[t].reply.sw
      /\ both.cmd = run[t].cmd
  BY <1>2, <1>3 DEF TaskState
<1>7. sw \in Memory(driver) /\ found \in Memory(driver)
  <2>1. 0 \in 0..Ttl + 1
    BY TypedTasks
  <2> QED BY <1>2, <1>3, <2>1 DEF Memory
<1>8. \/ At(t, {"hear", "soc"}) /\ Goes(t, heard) /\ mem' = mem
      \/ /\ At(t, {"ask_settings", "ask_status", "ask_known"})
         /\ Goes(t, shown) /\ mem' = sw
      \/ At(t, {"all"}) /\ Goes(t, both) /\ mem' = sw
      \/ At(t, {"direction"}) /\ Goes(t, both) /\ mem' = found
      \/ /\ At(t, {"analog"}) /\ mem' = mem
         /\ \E raw \in {-1, 1} :
                Goes(t, [run[t] EXCEPT !.flow =
                             IF mem.flow # 0 THEN mem.flow ELSE raw])
  BY DEF Reads, At, Asking
<1> HIDE DEF heard, shown, both, sw, found
<1>9. CASE At(t, {"hear", "soc"}) /\ Goes(t, heard) /\ mem' = mem
  BY <1>1, <1>3, <1>4, <1>9, GoesEffect
<1>10. CASE /\ At(t, {"ask_settings", "ask_status", "ask_known"})
            /\ Goes(t, shown) /\ mem' = sw
  BY <1>1, <1>5, <1>7, <1>10, GoesEffect DEF Learns, sw
<1>11. CASE At(t, {"all"}) /\ Goes(t, both) /\ mem' = sw
  BY <1>1, <1>6, <1>7, <1>11, GoesEffect DEF Learns, sw
<1>12. CASE At(t, {"direction"}) /\ Goes(t, both) /\ mem' = found
  BY <1>1, <1>6, <1>7, <1>12, GoesEffect DEF found
<1>13. CASE /\ At(t, {"analog"}) /\ mem' = mem
            /\ \E raw \in {-1, 1} :
                   Goes(t, [run[t] EXCEPT !.flow =
                                IF mem.flow # 0 THEN mem.flow ELSE raw])
  <2> PICK raw \in {-1, 1} : Goes(t, [run[t] EXCEPT !.flow =
                                 IF mem.flow # 0 THEN mem.flow ELSE raw])
    BY <1>13
  <2> DEFINE found1 == IF mem.flow # 0 THEN mem.flow ELSE raw
             r == [run[t] EXCEPT !.flow = found1]
  <2>1. found1 \in Flow
    BY <1>3 DEF Memory, Flow
  <2>2. /\ r \in TaskState(driver) /\ r.todo = run[t].todo
        /\ r.cmd = run[t].cmd
    BY <1>3, <2>1 DEF TaskState
  <2>3. Goes(t, r)
    OBVIOUS
  <2> HIDE DEF r
  <2> QED BY <1>1, <1>3, <1>13, <2>2, <2>3, GoesEffect
<1> QED BY <1>8, <1>9, <1>10, <1>11, <1>12, <1>13

\* Task t asks instead: s stands where its step was.
Asks(t, s) == /\ run'[t].todo = [run[t].todo EXCEPT ![1] = s]
              /\ run'[t].todo # <<>> /\ Head(run'[t].todo) = s

\* What is remembered is used, or asked for.
LEMMA RemembersEffect ==
    ASSUME Types, Programs, NEW t \in Tasks, Remembers(t)
    PROVE  /\ Onward(t) /\ mem' = mem /\ run[t].todo # <<>>
           /\ run'[t].cmd = run[t].cmd /\ run'[t].flow = run[t].flow
           /\ \/ /\ At(t, {"settings", "learn"}) /\ mem.sw # Unknown
                 /\ run'[t].todo = Tail(run[t].todo) /\ run'[t].sw = mem.sw
              \/ At(t, {"settings"}) /\ Asks(t, "ask_settings")
              \/ At(t, {"learn"}) /\ Asks(t, "ask_known")
<1> DEFINE shown == [run[t] EXCEPT !.sw = mem.sw]
<1>1. run[t].todo # <<>> /\ mem' = mem
  BY DEF Remembers, At
<1>2. /\ shown \in TaskState(driver) /\ shown.todo = run[t].todo
      /\ shown.flow = run[t].flow /\ shown.sw = mem.sw
      /\ shown.cmd = run[t].cmd
  BY DEF Types, TaskState, Memory
<1>3. \/ At(t, {"settings", "learn"}) /\ mem.sw # Unknown /\ Goes(t, shown)
      \/ At(t, {"settings"}) /\ Inserts(t, "ask_settings")
      \/ At(t, {"learn"}) /\ Inserts(t, "ask_known")
  BY DEF Remembers, At
<1> HIDE DEF shown
<1>4. CASE At(t, {"settings", "learn"}) /\ mem.sw # Unknown /\ Goes(t, shown)
  BY <1>1, <1>2, <1>4, GoesEffect
<1>5. CASE At(t, {"settings"}) /\ Inserts(t, "ask_settings")
  <2>1. Head(run[t].todo) = "settings"
    BY <1>5 DEF At
  <2> QED BY <1>1, <1>5, <2>1, InsertsEffect DEF Asks
<1>6. CASE At(t, {"learn"}) /\ Inserts(t, "ask_known")
  <2>1. Head(run[t].todo) = "learn"
    BY <1>6 DEF At
  <2> QED BY <1>1, <1>6, <2>1, InsertsEffect DEF Asks
<1> QED BY <1>3, <1>4, <1>5, <1>6

\* The switches come from the cache, or are asked for.
LEMMA FetchStatusEffect ==
    ASSUME Types, Programs, NEW t \in Tasks, FetchStatus(t)
    PROVE  /\ Onward(t) /\ mem' = mem /\ run[t].todo # <<>>
           /\ run'[t].cmd = run[t].cmd /\ run'[t].flow = run[t].flow
           /\ At(t, {"status"})
           /\ \/ /\ mem.sw # Unknown /\ mem.swAge <= Ttl
                 /\ run'[t].todo = Tail(run[t].todo) /\ run'[t].sw = mem.sw
              \/ Asks(t, "ask_status")
<1> DEFINE shown == [run[t] EXCEPT !.sw = mem.sw]
<1>1. /\ run[t].todo # <<>> /\ mem' = mem /\ At(t, {"status"})
      /\ Head(run[t].todo) = "status"
  BY DEF FetchStatus, At
<1>2. /\ shown \in TaskState(driver) /\ shown.todo = run[t].todo
      /\ shown.flow = run[t].flow /\ shown.sw = mem.sw
      /\ shown.cmd = run[t].cmd
  BY DEF Types, TaskState, Memory
<1>3. \/ mem.sw # Unknown /\ mem.swAge <= Ttl /\ Goes(t, shown)
      \/ Inserts(t, "ask_status")
  BY DEF FetchStatus
<1> HIDE DEF shown
<1>4. CASE mem.sw # Unknown /\ mem.swAge <= Ttl /\ Goes(t, shown)
  BY <1>1, <1>2, <1>4, GoesEffect
<1>5. CASE Inserts(t, "ask_status")
  BY <1>1, <1>5, InsertsEffect DEF Asks
<1> QED BY <1>3, <1>4, <1>5

\* Task t goes on without reading anything.
LEMMA GoesAsIs ==
    ASSUME Types, Programs, NEW t \in Tasks, run[t].todo # <<>>,
           Goes(t, run[t])
    PROVE  /\ Onward(t) /\ run'[t].todo = Tail(run[t].todo)
           /\ run'[t].cmd = run[t].cmd /\ run'[t].flow = run[t].flow
           /\ run'[t].sw = run[t].sw /\ run'[t].age = run[t].age
  BY GoesEffect DEF Types

\* A task that raises ends; only the sampler's failure is counted.
LEMMA FailsEffect ==
    ASSUME Types, NEW t \in Tasks, Fails(t)
    PROVE  /\ Onward(t) /\ run'[t].todo = <<>>
           /\ sampled' \in {sampled, "failed"}
           /\ t # "sampler" => sampled' = sampled
  BY IdleEffect DEF Fails

\* The switches are forgotten.
LEMMA InvalidateEffect ==
    ASSUME Types, Programs, NEW t \in Tasks, Invalidate(t)
    PROVE  /\ Onward(t) /\ mem' \in Memory(driver)
           /\ At(t, {"forget_status"}) /\ run[t].todo # <<>>
           /\ mem' \in {mem, [mem EXCEPT !.sw = Unknown]}
           /\ \/ run'[t].todo = <<>> /\ sampled' \in {sampled, "failed"}
              \/ run'[t].todo = Tail(run[t].todo) /\ sampled' = sampled
<1>1. /\ At(t, {"forget_status"}) /\ run[t].todo # <<>>
      /\ \/ Fails(t) /\ mem' = mem
         \/ /\ Goes(t, run[t]) /\ sampled' = sampled
            /\ mem' = [mem EXCEPT !.sw = Unknown]
  BY DEF Invalidate, At
<1>2. mem \in Memory(driver) /\ [mem EXCEPT !.sw = Unknown] \in Memory(driver)
  BY DEF Types, Memory, Shown
<1> QED BY <1>1, <1>2, FailsEffect, GoesAsIs

\* The cached switches are forgotten.
LEMMA ForgetEffect ==
    ASSUME Types, Programs, NEW t \in Tasks, Forget(t)
    PROVE  /\ Onward(t) /\ mem' \in Memory(driver)
           /\ At(t, {"forget"}) /\ run[t].todo # <<>>
           /\ run'[t].todo = Tail(run[t].todo)
           /\ mem' = [mem EXCEPT !.sw = Unknown]
<1>1. /\ At(t, {"forget"}) /\ run[t].todo # <<>> /\ Goes(t, run[t])
      /\ mem' = [mem EXCEPT !.sw = Unknown]
  BY DEF Forget, At
<1>2. mem' \in Memory(driver)
  BY <1>1 DEF Types, Memory, Shown
<1> QED BY <1>1, <1>2, GoesAsIs

\* The echo of a command moves that switch in the driver's copy of them.
LEMMA EchoedEffect ==
    ASSUME Types, Programs, NEW t \in Tasks, Echoed(t)
    PROVE  /\ Onward(t) /\ mem' \in Memory(driver)
           /\ At(t, {"echo"}) /\ run[t].todo # <<>> /\ run[t].reply.live
           /\ run'[t].todo = Tail(run[t].todo)
           /\ mem'.flow = mem.flow /\ mem'.age = mem.age
           /\ mem'.late = mem.late
<1> DEFINE moved == IF mem.sw = Unknown THEN mem.sw ELSE
                        [mem.sw EXCEPT ![run[t].cmd.switch] = run[t].cmd.state]
<1>1. /\ At(t, {"echo"}) /\ run[t].todo # <<>> /\ run[t].reply.live
      /\ Goes(t, run[t]) /\ mem' = [mem EXCEPT !.sw = moved]
  BY DEF Echoed, At
<1>2. mem \in Memory(driver) /\ mem.sw \in Shown /\ run[t].cmd \in Command
  BY DEF Types, Memory, TaskState
<1>3. moved \in Shown
  BY <1>2, MovedPosition DEF Shown
<1> HIDE DEF moved
<1>4. /\ mem' \in Memory(driver) /\ mem'.flow = mem.flow
      /\ mem'.age = mem.age /\ mem'.late = mem.late
  BY <1>1, <1>2, <1>3 DEF Memory
<1> QED BY <1>1, <1>4, GoesAsIs

\* What is on the wire is read as it is, but from jk_uart.
LEMMA NowRead ==
    ASSUME Types
    PROVE  /\ Wire(driver, dev.flow) \in Raws(driver)
           /\ Current(driver, Wire(driver, dev.flow)) \in Flow
           /\ driver # "jk_uart" =>
                  Current(driver, Wire(driver, dev.flow)) = dev.flow
           /\ Snapshot \in Replies(driver) /\ Snapshot.live
           /\ Snapshot.raw = Wire(driver, dev.flow) /\ Snapshot.sw = dev.sw
<1>1. driver \in AllDrivers /\ dev \in [flow : {-1, 1}, sw : Position]
  BY DEF Types
<1>2. Wire(driver, dev.flow) \in Raws(driver)
  BY <1>1 DEF Raws
<1>3. Current(driver, Wire(driver, dev.flow)) \in {-1, 1}
  BY <1>1, <1>2, CurrentType
<1>4. driver # "jk_uart" => Current(driver, Wire(driver, dev.flow)) = dev.flow
  BY <1>1, Decoded
<1>5. Snapshot \in [live : {TRUE}, raw : Raws(driver), sw : Position]
  BY <1>1, <1>2 DEF Snapshot
<1>6. /\ Snapshot.live = TRUE /\ Snapshot.raw = Wire(driver, dev.flow)
      /\ Snapshot.sw = dev.sw
  BY DEF Snapshot
<1>7. Snapshot \in Replies(driver)
  BY <1>5 DEF Replies
<1>8. Current(driver, Wire(driver, dev.flow)) \in Flow
  BY <1>3 DEF Flow
<1> QED BY <1>2, <1>4, <1>6, <1>7, <1>8, Zenon

\* The current that supervolt has parsed by the time it asks again.
Parsed == IF mem.late.live THEN Current(driver, mem.late.raw) ELSE mem.flow

\* supervolt asks anew: it raises, or goes on with what it has parsed, the
\* answer of this request or the one that was late.
LEMMA RequestDataEffect ==
    ASSUME Types, Programs, NEW t \in Tasks, RequestData(t)
    PROVE  /\ Onward(t) /\ mem' \in Memory(driver)
           /\ At(t, {"request"}) /\ run[t].todo # <<>>
           /\ mem'.sw = mem.sw /\ mem'.swAge = mem.swAge /\ mem'.age = mem.age
           /\ \/ run'[t].todo = <<>> /\ sampled' \in {sampled, "failed"}
              \/ /\ run'[t].todo = Tail(run[t].todo) /\ sampled' = sampled
                 /\ run'[t].flow = mem'.flow
           /\ \/ /\ calm' = calm /\ silence' = 0
                 /\ \/ /\ mem'.flow = Current(driver, Wire(driver, dev.flow))
                       /\ mem'.late = NoReply
                    \/ mem'.flow = Parsed /\ mem'.late = Snapshot
              \/ calm' = 0 /\ silence' = silence
<1>1. At(t, {"request"}) /\ run[t].todo # <<>>
  BY DEF RequestData, At
<1>2. mem \in Memory(driver) /\ driver \in AllDrivers
  BY DEF Types
<1>3. Parsed \in Flow
  <2>1. CASE mem.late.live
    <3>1. mem.late.raw \in Raws(driver)
      BY <1>2, <2>1, LiveReply DEF Memory
    <3>2. Current(driver, mem.late.raw) \in {-1, 1}
      BY <1>2, <3>1, CurrentType
    <3> QED BY <2>1, <3>2 DEF Parsed, Flow
  <2>2. CASE ~mem.late.live
    BY <1>2, <2>2 DEF Parsed, Memory
  <2> QED BY <2>1, <2>2
<1>4. \/ /\ calm' = calm /\ silence' = 0
         /\ \/ mem' = [mem EXCEPT !.flow = Current(driver,
                                               Wire(driver, dev.flow)),
                                  !.late = NoReply]
            \/ mem' = [mem EXCEPT !.flow = Parsed, !.late = Snapshot]
      \/ /\ calm' = 0 /\ silence' = silence
         /\ mem' = [mem EXCEPT !.flow = Parsed, !.late = NoReply]
  BY DEF RequestData, Parsed
<1>5. NoReply \in Replies(driver)
  BY DEF Replies
<1>6. ASSUME NEW flow \in Flow, NEW late \in Replies(driver),
             mem' = [mem EXCEPT !.flow = flow, !.late = late]
      PROVE  /\ mem' \in Memory(driver) /\ mem'.flow = flow /\ mem'.late = late
             /\ mem'.sw = mem.sw /\ mem'.swAge = mem.swAge
             /\ mem'.age = mem.age
  BY <1>2, <1>6 DEF Memory
<1>7. /\ mem' \in Memory(driver)
      /\ mem'.sw = mem.sw /\ mem'.swAge = mem.swAge /\ mem'.age = mem.age
      /\ \/ /\ calm' = calm /\ silence' = 0
            /\ \/ /\ mem'.flow = Current(driver, Wire(driver, dev.flow))
                  /\ mem'.late = NoReply
               \/ mem'.flow = Parsed /\ mem'.late = Snapshot
         \/ calm' = 0 /\ silence' = silence
  BY <1>3, <1>4, <1>5, <1>6, NowRead
<1>8. \/ Fails(t)
      \/ Goes(t, [run[t] EXCEPT !.flow = mem'.flow]) /\ sampled' = sampled
  BY DEF RequestData
<1>9. ASSUME NEW flow \in Flow, Goes(t, [run[t] EXCEPT !.flow = flow])
      PROVE  /\ Onward(t) /\ run'[t].todo = Tail(run[t].todo)
             /\ run'[t].flow = flow
  <2> DEFINE r == [run[t] EXCEPT !.flow = flow]
  <2>1. r \in TaskState(driver) /\ r.todo = run[t].todo /\ r.flow = flow
    BY DEF Types, TaskState
  <2>2. Goes(t, r)
    BY <1>9
  <2> HIDE DEF r
  <2> QED BY <1>1, <2>1, <2>2, GoesEffect
<1>10. mem'.flow \in Flow
  BY <1>7 DEF Memory
<1> QED BY <1>1, <1>7, <1>8, <1>9, <1>10, FailsEffect

\* What is known of victron, or read again.
LEMMA ValuesEffect ==
    ASSUME Types, Programs, NEW t \in Tasks, Values(t)
    PROVE  /\ Onward(t) /\ mem' = mem
           /\ At(t, {"values"}) /\ run[t].todo # <<>>
           /\ \/ /\ mem.age <= 1 /\ run'[t].todo = Tail(run[t].todo)
                 /\ run'[t].flow = mem.flow /\ run'[t].age = mem.age
              \/ Asks(t, "reread")
<1> DEFINE r == [run[t] EXCEPT !.flow = mem.flow, !.age = mem.age]
<1>1. /\ At(t, {"values"}) /\ run[t].todo # <<>> /\ mem' = mem
      /\ Head(run[t].todo) = "values"
      /\ \/ mem.age <= 1 /\ Goes(t, r)
         \/ Inserts(t, "reread")
  BY DEF Values, At
<1>2. /\ r \in TaskState(driver) /\ r.todo = run[t].todo
      /\ r.flow = mem.flow /\ r.age = mem.age
  BY DEF Types, TaskState, Memory
<1> HIDE DEF r
<1>3. CASE mem.age <= 1 /\ Goes(t, r)
  BY <1>1, <1>2, <1>3, GoesEffect
<1>4. CASE Inserts(t, "reread")
  BY <1>1, <1>4, InsertsEffect DEF Asks
<1> QED BY <1>1, <1>3, <1>4

\* victron reads the current again; its age starts anew when it differs.
LEMMA RereadEffect ==
    ASSUME Types, Programs, NEW t \in Tasks, Reread(t)
    PROVE  /\ Onward(t) /\ mem' \in Memory(driver)
           /\ At(t, {"reread"}) /\ run[t].todo # <<>> /\ run[t].reply.live
           /\ run'[t].todo = Tail(run[t].todo)
           /\ run'[t].flow = Current1(t) /\ run'[t].age = mem'.age
           /\ mem'.flow = Current1(t) /\ mem'.age \in {0, mem.age}
           /\ mem'.sw = mem.sw /\ mem'.swAge = mem.swAge
           /\ mem'.late = mem.late
<1> DEFINE age == IF Current1(t) # mem.flow THEN 0 ELSE mem.age
           r == [run[t] EXCEPT !.flow = Current1(t), !.age = age]
<1>1. /\ At(t, {"reread"}) /\ run[t].todo # <<>> /\ run[t].reply.live
      /\ mem' = [mem EXCEPT !.flow = Current1(t), !.age = age]
      /\ Goes(t, r)
  BY DEF Reread, At
<1>2. mem \in Memory(driver) /\ Current1(t) \in Flow
  BY <1>1, ReplyRead DEF Types
<1>3. age \in 0..Expiry + 1 /\ age \in {0, mem.age}
  BY <1>2, TypedTasks DEF Memory
<1> HIDE DEF age
<1>4. /\ r \in TaskState(driver) /\ r.todo = run[t].todo
      /\ r.flow = Current1(t) /\ r.age = age
  BY <1>2, <1>3 DEF Types, TaskState
<1> HIDE DEF r
<1>5. /\ mem' \in Memory(driver) /\ mem'.flow = Current1(t)
      /\ mem'.age = age /\ mem'.sw = mem.sw /\ mem'.swAge = mem.swAge
      /\ mem'.late = mem.late
  BY <1>1, <1>2, <1>3 DEF Memory
<1> QED BY <1>1, <1>3, <1>4, <1>5, GoesEffect

\* The position a command asks for, and the one jbd writes.
Asked(t) == [dev.sw EXCEPT ![run[t].cmd.switch] = run[t].cmd.state]
Both(t) == [mem.sw EXCEPT ![run[t].cmd.switch] = run[t].cmd.state]
JbdWrites(t) == JbdMeans(JbdCode(Both(t), run[t].cmd))

\* A command asks for a position of the switches.
LEMMA AskedPosition ==
    ASSUME Types, NEW t \in Tasks
    PROVE  run[t].cmd \in Command /\ dev.sw \in Position /\ Asked(t) \in Position
<1>1. run[t].cmd \in Command /\ dev.sw \in Position
  BY DEF Types, TaskState
<1> QED BY <1>1, MovedPosition DEF Asked

\* A write sets what was asked (jbd: what its code means), or raises.
LEMMA WritesEffect ==
    ASSUME Types, Programs, NEW t \in Tasks, Writes(t)
    PROVE  /\ Onward(t) /\ mem' = mem
           /\ At(t, {"write", "write_both"}) /\ run[t].todo # <<>>
           /\ \/ /\ run'[t].todo = <<>> /\ sampled' \in {sampled, "failed"}
                 /\ UNCHANGED <<dev, set, calm>>
              \/ /\ run'[t].todo = Tail(run[t].todo) /\ sampled' = sampled
                 /\ run'[t].cmd = run[t].cmd
                 /\ \/ At(t, {"write"}) /\ Sets(t, Asked(t))
                    \/ At(t, {"write_both"}) /\ Sets(t, JbdWrites(t))
<1>1. /\ At(t, {"write", "write_both"}) /\ run[t].todo # <<>> /\ mem' = mem
      /\ \/ Fails(t) /\ UNCHANGED <<dev, set, calm>>
         \/ /\ Goes(t, run[t]) /\ sampled' = sampled
            /\ \/ At(t, {"write"}) /\ Sets(t, Asked(t))
               \/ At(t, {"write_both"}) /\ Sets(t, JbdWrites(t))
  BY DEF Writes, At, Asked, Both, JbdWrites
<1> QED BY <1>1, FailsEffect, GoesAsIs

\* Without an answer a task ends, or goes on with what it had.
LEMMA NoAnswerEffect ==
    ASSUME Types, Programs, NEW t \in Tasks, NoAnswer(t)
    PROVE  /\ Onward(t) /\ At(t, Asking) /\ run[t].todo # <<>>
           /\ calm' = 0
           /\ UNCHANGED <<driver, dev, dead, mem, queue, topic, set, silence>>
           /\ \/ run'[t].todo = <<>> /\ sampled' \in {sampled, "failed"}
              \/ /\ At(t, Tolerant)
                 /\ run'[t].todo = Tail(run[t].todo) /\ sampled' = sampled
                 /\ run'[t].flow = run[t].flow /\ run'[t].sw = run[t].sw
                 /\ run'[t].age = run[t].age
<1>1. /\ At(t, Asking) /\ run[t].todo # <<>> /\ calm' = 0
      /\ UNCHANGED <<driver, dev, dead, mem, queue, topic, set, silence>>
      /\ \/ Fails(t)
         \/ At(t, Tolerant) /\ Goes(t, run[t]) /\ sampled' = sampled
  BY DEF NoAnswer, Waits, At
<1> QED BY <1>1, FailsEffect, GoesAsIs

\* A cycle, or a command, begins.
Begins(t, p) == run'[t].todo = p /\ p # <<>> /\ Program(driver, p)

\* A cycle begins with the driver's program for it.
LEMMA SamplesEffect ==
    ASSUME Types, Programs, Samples
    PROVE  /\ Onward("sampler") /\ Begins("sampler", Cycle(driver))
           /\ run["sampler"].todo = <<>>
<1> DEFINE new == [Idle EXCEPT !.todo = Cycle(driver)]
<1>1. run["sampler"].todo = <<>> /\ run' = [run EXCEPT !["sampler"] = new]
  BY DEF Samples
<1>2. driver \in AllDrivers /\ run \in [Tasks -> TaskState(driver)]
  BY DEF Types
<1>3. /\ Program(driver, Cycle(driver)) /\ Cycle(driver) # <<>>
      /\ Cycle(driver) \in Seq(Names)
  BY <1>2, CycleProgram DEF Program
<1>4. /\ new \in TaskState(driver) /\ new.todo = Cycle(driver)
      /\ new.reply = NoReply
  <2>1. Idle \in TaskState(driver) /\ Idle.reply = NoReply
    BY TypedTasks DEF Idle
  <2> QED BY <1>3, <2>1 DEF TaskState
<1> HIDE DEF new
<1>5. "sampler" \in Tasks
  BY DEF Tasks
<1>6. run'["sampler"] = new /\ Others("sampler")
  BY <1>1, <1>2, <1>5 DEF Others
<1>7. run' \in [Tasks -> TaskState(driver)]
  BY <1>1, <1>2, <1>4
<1> QED BY <1>1, <1>3, <1>4, <1>6, <1>7 DEF Onward, Begins

\* The worker takes a command, with the driver's program for it.
LEMMA TakesEffect ==
    ASSUME Types, Programs, Takes
    PROVE  /\ Onward("worker")
           /\ Begins("worker", SetSwitch(driver) \o <<"ack">>)
           /\ run["worker"].todo = <<>> /\ queue' \in Seq(Command)
<1> DEFINE p == SetSwitch(driver) \o <<"ack">>
           new == [Idle EXCEPT !.todo = p, !.cmd = Head(queue)]
<1>1. /\ run["worker"].todo = <<>> /\ run' = [run EXCEPT !["worker"] = new]
      /\ queue # <<>> /\ queue' = Tail(queue)
  BY DEF Takes
<1>2. /\ driver \in AllDrivers /\ run \in [Tasks -> TaskState(driver)]
      /\ queue \in Seq(Command)
  BY DEF Types
<1>3. Head(queue) \in Command /\ queue' \in Seq(Command)
  BY <1>1, <1>2, HeadTailProperties, EmptySeq
<1>4. Program(driver, p) /\ p # <<>> /\ p \in Seq(Names)
  BY <1>2, SwitchProgram DEF Program, Ends
<1> HIDE DEF p
<1>5. /\ new \in TaskState(driver) /\ new.todo = p
      /\ new.reply = NoReply
  <2>1. Idle \in TaskState(driver) /\ Idle.reply = NoReply
    BY TypedTasks DEF Idle
  <2> QED BY <1>3, <1>4, <2>1 DEF TaskState
<1> HIDE DEF new
<1>6. "worker" \in Tasks
  BY DEF Tasks
<1>7. run'["worker"] = new /\ Others("worker")
  BY <1>1, <1>2, <1>6 DEF Others
<1>8. run' \in [Tasks -> TaskState(driver)]
  BY <1>1, <1>2, <1>5
<1> QED BY <1>1, <1>3, <1>4, <1>5, <1>7, <1>8 DEF Onward, Begins, p

\* What is published has the types of a topic.
LEMMA PublishedType ==
    ASSUME Types, NEW t \in Tasks
    PROVE  /\ Published(run[t]) \in [flow : Flow, sw : Shown]
           /\ Published(run[t]).flow = run[t].flow
           /\ driver \in Showing /\ run[t].sw # Unknown =>
                  Published(run[t]).sw = run[t].sw
  BY DEF Types, TaskState, Published

\* A sample has expired, is published, or makes the algorithm set a
\* switch first.
LEMMA HasSampleEffect ==
    ASSUME Types, Programs, HasSample
    PROVE  /\ Onward("sampler") /\ At("sampler", {"sample"})
           /\ \/ /\ run'["sampler"].todo = <<>> /\ topic' = topic
                 /\ sampled' = "failed"
              \/ /\ run'["sampler"].todo = <<>>
                 /\ ~Expired(run["sampler"].age)
                 /\ topic' = Published(run["sampler"]) /\ sampled' = "ok"
              \/ /\ Begins("sampler", SetSwitch(driver) \o <<"publish">>)
                 /\ ~Expired(run["sampler"].age)
                 /\ driver \in Switching
                 /\ UNCHANGED <<topic, sampled>>
<1>1. At("sampler", {"sample"}) /\ "sampler" \in Tasks
  BY DEF HasSample, Tasks
<1>2. CASE Fails("sampler") /\ topic' = topic
  BY <1>1, <1>2, FailsEffect DEF Fails
<1>3. CASE /\ ~Expired(run["sampler"].age)
           /\ topic' = Published(run["sampler"])
           /\ sampled' = "ok" /\ run' = [run EXCEPT !["sampler"] = Idle]
  BY <1>1, <1>3, IdleEffect
<1>4. ASSUME NEW c \in Command, driver \in Switching,
             run' = [run EXCEPT !["sampler"].todo =
                         SetSwitch(driver) \o <<"publish">>,
                                !["sampler"].cmd = c]
      PROVE  /\ Onward("sampler")
             /\ Begins("sampler", SetSwitch(driver) \o <<"publish">>)
  <2> DEFINE p == SetSwitch(driver) \o <<"publish">>
             new == [run["sampler"] EXCEPT !.todo = p, !.cmd = c]
  <2>1. driver \in AllDrivers /\ run \in [Tasks -> TaskState(driver)]
    BY DEF Types
  <2>2. Program(driver, p) /\ p # <<>> /\ p \in Seq(Names)
    BY <1>4, <2>1, SwitchProgram DEF Program, Ends
  <2>3. run' = [run EXCEPT !["sampler"] = new]
    BY <1>4, <2>1, <1>1
  <2> HIDE DEF p
  <2>4. run["sampler"].reply = NoReply
    BY <1>1 DEF Programs, At, Asking
  <2>5. /\ new \in TaskState(driver) /\ new.todo = p
        /\ new.reply = NoReply
    BY <1>1, <2>1, <2>2, <2>4 DEF TaskState
  <2> HIDE DEF new
  <2>6. run'["sampler"] = new /\ Others("sampler")
    BY <1>1, <2>1, <2>3 DEF Others
  <2>7. run' \in [Tasks -> TaskState(driver)]
    BY <2>1, <2>3, <2>5
  <2> QED BY <2>2, <2>5, <2>6, <2>7 DEF Onward, Begins, p
<1>5. \/ Fails("sampler") /\ topic' = topic
      \/ /\ ~Expired(run["sampler"].age)
         /\ topic' = Published(run["sampler"])
         /\ sampled' = "ok" /\ run' = [run EXCEPT !["sampler"] = Idle]
      \/ /\ ~Expired(run["sampler"].age) /\ driver \in Switching
         /\ UNCHANGED <<topic, sampled>>
         /\ \E c \in Command :
                run' = [run EXCEPT !["sampler"].todo =
                            SetSwitch(driver) \o <<"publish">>,
                                   !["sampler"].cmd = c]
  BY DEF HasSample
<1> QED BY <1>1, <1>2, <1>3, <1>4, <1>5

\* The sampler publishes its reading, and its cycle ends.
LEMMA PublishEffect ==
    ASSUME Types, Programs, Publish
    PROVE  /\ Onward("sampler") /\ At("sampler", {"publish"})
           /\ run'["sampler"].todo = <<>>
           /\ topic' = Published(run["sampler"]) /\ sampled' = "ok"
<1>1. "sampler" \in Tasks
  BY DEF Tasks
<1> QED BY <1>1, IdleEffect DEF Publish

\* The worker publishes the switch it set, and its command ends.
LEMMA AckEffect ==
    ASSUME Types, Programs, Ack
    PROVE  /\ Onward("worker") /\ run'["worker"].todo = <<>> /\ calm' = 0
           /\ topic' \in [flow : Flow, sw : Shown]
<1> DEFINE c == run["worker"].cmd
           moved == IF topic.sw = Unknown THEN topic.sw
                    ELSE [topic.sw EXCEPT ![c.switch] = c.state]
<1>1. "worker" \in Tasks
  BY DEF Tasks
<1>2. Onward("worker") /\ run'["worker"].todo = <<>> /\ calm' = 0
  BY <1>1, IdleEffect DEF Ack
<1>3. topic \in [flow : Flow, sw : Shown] /\ c \in Command
  BY <1>1 DEF Types, TaskState
<1>4. moved \in Shown
  BY <1>3, MovedPosition DEF Shown
<1>5. topic' = [topic EXCEPT !.sw = moved]
  BY DEF Ack
<1> HIDE DEF moved
<1> QED BY <1>2, <1>3, <1>4, <1>5

-----------------------------------------------------------------------------
(* The steps of the tasks keep the types and the programs.                 *)

\* What else a step of a task may touch keeps its type.
Other == /\ UNCHANGED <<driver, dead>>
         /\ dev' \in [flow : {-1, 1}, sw : Position]
         /\ mem' \in Memory(driver)
         /\ queue' \in Seq(Command)
         /\ topic' \in [flow : Flow, sw : Shown]
         /\ sampled' \in {"no", "ok", "failed"}
         /\ set' \in [Switches -> SUBSET BOOLEAN]
         /\ calm' \in 0..Ttl + 1 /\ silence' \in 0..Expiry + 1

\* A step of one task keeps the types when the rest stays typed.
LEMMA OnwardTypes ==
    ASSUME Types, Programs, NEW t \in Tasks, Onward(t), Other
    PROVE  Types' /\ Programs'
<1>1. Programs'
  BY OnwardPrograms DEF Other
<1>2. driver' = driver /\ driver \in Drivers /\ driver \in AllDrivers
  BY DEF Other, Types
<1>3. dead' \in BOOLEAN
  BY DEF Other, Types
<1>4. /\ run' \in [Tasks -> TaskState(driver')]
      /\ mem' \in Memory(driver')
  BY <1>2 DEF Onward, Other
<1>5. Types'
  BY <1>2, <1>3, <1>4 DEF Types, Other
<1> QED BY <1>1, <1>5

\* The variables, and the clocks at zero, are typed.
LEMMA TypedClocks ==
    ASSUME Types
    PROVE  /\ 0 \in 0..Ttl + 1 /\ 0 \in 0..Expiry + 1
           /\ calm \in 0..Ttl + 1 /\ silence \in 0..Expiry + 1
           /\ sampled \in {"no", "ok", "failed"}
           /\ dev \in [flow : {-1, 1}, sw : Position]
           /\ mem \in Memory(driver) /\ queue \in Seq(Command)
           /\ topic \in [flow : Flow, sw : Shown]
           /\ set \in [Switches -> SUBSET BOOLEAN]
  BY TypedTasks DEF Types

\* A step of a driver's program keeps the types.
LEMMA StepsTypes ==
    ASSUME Types, Programs, NEW t \in Tasks, Steps(t) \/ NoAnswer(t)
    PROVE  Types' /\ Programs'
<1>1. CASE Answer(t)
  <2>1. /\ run' \in [Tasks -> TaskState(driver)]
        /\ run'[t].todo = run[t].todo /\ Others(t)
    BY <1>1, AnswerEffect
  <2>2. /\ At(t, Asking) /\ silence' = 0
        /\ UNCHANGED <<driver, dead, mem, queue, topic, sampled>>
        /\ \/ Sets(t, Asked(t))
           \/ UNCHANGED <<dev, set, calm>>
    BY <1>1 DEF Answer, Waits, Asked
  <2>3. /\ dev' \in [flow : {-1, 1}, sw : Position]
        /\ set' \in [Switches -> SUBSET BOOLEAN] /\ calm' \in 0..Ttl + 1
    BY <2>2, SetsEffect, AskedPosition, TypedClocks
  <2>4. Types'
    BY <2>1, <2>2, <2>3, TypedClocks DEF Types
  <2>5. ASSUME NEW u \in Tasks
        PROVE  /\ run'[u].todo = run[u].todo
               /\ run'[u].reply # NoReply => At(u, Asking)
    BY <2>1, <2>2 DEF Others, Programs
  <2>6. Programs'
    BY <2>2, <2>5 DEF Programs, At
  <2> QED BY <2>4, <2>6
<1>2. CASE Reads(t)
  <2>1. UNCHANGED <<driver, dead, queue, topic, silence, dev, set, calm, sampled>>
    BY <1>2 DEF Reads, Rest
  <2>2. Onward(t) /\ mem' \in Memory(driver)
    BY <1>2, ReadsEffect
  <2>3. Other
    BY <2>1, <2>2, TypedClocks DEF Other
  <2> QED BY <2>2, <2>3, OnwardTypes
<1>3. CASE Remembers(t)
  <2>1. UNCHANGED <<driver, dead, queue, topic, silence, dev, set, calm, sampled>>
    BY <1>3 DEF Remembers, Rest
  <2>2. Onward(t) /\ mem' = mem
    BY <1>3, RemembersEffect
  <2>3. Other
    BY <2>1, <2>2, TypedClocks DEF Other
  <2> QED BY <2>2, <2>3, OnwardTypes
<1>4. CASE FetchStatus(t)
  <2>1. UNCHANGED <<driver, dead, queue, topic, silence, dev, set, calm, sampled>>
    BY <1>4 DEF FetchStatus, Rest
  <2>2. Onward(t) /\ mem' = mem
    BY <1>4, FetchStatusEffect
  <2>3. Other
    BY <2>1, <2>2, TypedClocks DEF Other
  <2> QED BY <2>2, <2>3, OnwardTypes
<1>5. CASE Invalidate(t)
  <2>1. UNCHANGED <<driver, dead, queue, topic, silence, dev, set, calm>>
    BY <1>5 DEF Invalidate, Rest
  <2>2. /\ Onward(t) /\ mem' \in Memory(driver)
        /\ sampled' \in {sampled, "failed"}
    BY <1>5, InvalidateEffect
  <2>3. Other
    BY <2>1, <2>2, TypedClocks DEF Other
  <2> QED BY <2>2, <2>3, OnwardTypes
<1>6. CASE Forget(t)
  <2>1. UNCHANGED <<driver, dead, queue, topic, silence, dev, set, calm, sampled>>
    BY <1>6 DEF Forget, Rest
  <2>2. Onward(t) /\ mem' \in Memory(driver)
    BY <1>6, ForgetEffect
  <2>3. Other
    BY <2>1, <2>2, TypedClocks DEF Other
  <2> QED BY <2>2, <2>3, OnwardTypes
<1>7. CASE RequestData(t)
  <2>1. UNCHANGED <<driver, dead, queue, topic, dev, set>>
    BY <1>7 DEF RequestData
  <2>2. /\ Onward(t) /\ mem' \in Memory(driver)
        /\ sampled' \in {sampled, "failed"}
        /\ calm' \in {0, calm} /\ silence' \in {0, silence}
    BY <1>7, RequestDataEffect
  <2>3. Other
    BY <2>1, <2>2, TypedClocks DEF Other
  <2> QED BY <2>2, <2>3, OnwardTypes
<1>8. CASE Values(t)
  <2>1. UNCHANGED <<driver, dead, queue, topic, silence, dev, set, calm, sampled>>
    BY <1>8 DEF Values, Rest
  <2>2. Onward(t) /\ mem' = mem
    BY <1>8, ValuesEffect
  <2>3. Other
    BY <2>1, <2>2, TypedClocks DEF Other
  <2> QED BY <2>2, <2>3, OnwardTypes
<1>9. CASE Reread(t)
  <2>1. UNCHANGED <<driver, dead, queue, topic, silence, dev, set, calm, sampled>>
    BY <1>9 DEF Reread, Rest
  <2>2. Onward(t) /\ mem' \in Memory(driver)
    BY <1>9, RereadEffect
  <2>3. Other
    BY <2>1, <2>2, TypedClocks DEF Other
  <2> QED BY <2>2, <2>3, OnwardTypes
<1>10. CASE Writes(t)
  <2>1. UNCHANGED <<driver, dead, queue, topic, silence>>
    BY <1>10 DEF Writes, Rest
  <2>2. /\ Onward(t) /\ mem' = mem /\ sampled' \in {sampled, "failed"}
        /\ \/ UNCHANGED <<dev, set, calm>>
           \/ Sets(t, Asked(t))
           \/ Sets(t, JbdWrites(t))
    BY <1>10, WritesEffect
  <2>3. JbdWrites(t) \in Position
    BY JbdMeansBits DEF JbdWrites
  <2>4. /\ dev' \in [flow : {-1, 1}, sw : Position]
        /\ set' \in [Switches -> SUBSET BOOLEAN] /\ calm' \in 0..Ttl + 1
    BY <2>2, <2>3, SetsEffect, AskedPosition, TypedClocks
  <2>5. Other
    BY <2>1, <2>2, <2>4, TypedClocks DEF Other
  <2> QED BY <2>2, <2>5, OnwardTypes
<1>11. CASE Echoed(t)
  <2>1. UNCHANGED <<driver, dead, queue, topic, silence, dev, set, calm, sampled>>
    BY <1>11 DEF Echoed, Rest
  <2>2. Onward(t) /\ mem' \in Memory(driver)
    BY <1>11, EchoedEffect
  <2>3. Other
    BY <2>1, <2>2, TypedClocks DEF Other
  <2> QED BY <2>2, <2>3, OnwardTypes
<1>12. CASE Refuses(t)
  <2>1. UNCHANGED <<driver, dead, queue, topic, silence, mem, dev, set, calm>>
    BY <1>12 DEF Refuses, Rest
  <2>2. Onward(t) /\ sampled' \in {sampled, "failed"}
    BY <1>12, FailsEffect DEF Refuses
  <2>3. Other
    BY <2>1, <2>2, TypedClocks DEF Other
  <2> QED BY <2>2, <2>3, OnwardTypes
<1>13. CASE NoAnswer(t)
  <2>1. /\ UNCHANGED <<driver, dead, queue, topic, silence, mem, dev, set>>
        /\ Onward(t) /\ sampled' \in {sampled, "failed"} /\ calm' = 0
    BY <1>13, NoAnswerEffect
  <2>2. Other
    BY <2>1, TypedClocks DEF Other
  <2> QED BY <2>1, <2>2, OnwardTypes
<1> QED BY <1>1, <1>2, <1>3, <1>4, <1>5, <1>6, <1>7, <1>8, <1>9, <1>10,
           <1>11, <1>12, <1>13 DEF Steps

\* A step of the sampler or the worker around a program keeps the types.
LEMMA ProceedsTypes ==
    ASSUME Types, Programs, Proceeds
    PROVE  Types' /\ Programs'
<1>1. "sampler" \in Tasks /\ "worker" \in Tasks
  BY DEF Tasks
<1>2. CASE Samples
  <2>1. Onward("sampler")
    BY <1>2, SamplesEffect
  <2>2. Other
    BY <1>2, TypedClocks DEF Samples, Other
  <2> QED BY <1>1, <2>1, <2>2, OnwardTypes
<1>3. CASE HasSample
  <2>1. UNCHANGED <<driver, dead, queue, silence, mem, dev, set, calm>>
    BY <1>3 DEF HasSample
  <2>2. /\ Onward("sampler")
        /\ topic' \in {topic, Published(run["sampler"])}
        /\ sampled' \in {sampled, "ok", "failed"}
    BY <1>3, HasSampleEffect
  <2>3. Other
    BY <1>1, <2>1, <2>2, PublishedType, TypedClocks DEF Other
  <2> QED BY <1>1, <2>2, <2>3, OnwardTypes
<1>4. CASE Publish
  <2>1. UNCHANGED <<driver, dead, queue, silence, mem, dev, set, calm>>
    BY <1>4 DEF Publish
  <2>2. /\ Onward("sampler") /\ sampled' = "ok"
        /\ topic' = Published(run["sampler"])
    BY <1>4, PublishEffect
  <2>3. Other
    BY <1>1, <2>1, <2>2, PublishedType, TypedClocks DEF Other
  <2> QED BY <1>1, <2>2, <2>3, OnwardTypes
<1>5. CASE Takes
  <2>1. UNCHANGED <<driver, dev, dead, mem, topic, sampled, set, calm, silence>>
    BY <1>5 DEF Takes
  <2>2. Onward("worker") /\ queue' \in Seq(Command)
    BY <1>5, TakesEffect
  <2>3. Other
    BY <2>1, <2>2, TypedClocks DEF Other
  <2> QED BY <1>1, <2>2, <2>3, OnwardTypes
<1>6. CASE Ack
  <2>1. UNCHANGED <<driver, dead, queue, silence, mem, dev, set, sampled>>
    BY <1>6 DEF Ack
  <2>2. /\ Onward("worker") /\ calm' = 0
        /\ topic' \in [flow : Flow, sw : Shown]
    BY <1>6, AckEffect
  <2>3. Other
    BY <2>1, <2>2, TypedClocks DEF Other
  <2> QED BY <1>1, <2>2, <2>3, OnwardTypes
<1> QED BY <1>2, <1>3, <1>4, <1>5, <1>6 DEF Proceeds

\* Every step keeps the types and the programs.
LEMMA NextTypes ==
    ASSUME Types, Programs, [Next]_vars
    PROVE  Types' /\ Programs'
<1>1. CASE UNCHANGED vars
  BY <1>1 DEF vars, Types, Programs, At
<1> QED BY <1>1, ChangesTypes, OutsideTypes, ProceedsTypes, StepsTypes DEF Next

\* Every variable keeps its type: TypeOK of Readings.
THEOREM ReadingsTyped == Spec => []TypeOK
<1>1. Init => Types /\ Programs
  BY InitTypes
<1>2. Types /\ Programs /\ [Next]_vars => (Types /\ Programs)'
  BY NextTypes
<1>3. Types => TypeOK
  BY DEF Types, TypeOK, Memory, TaskState, Flow, Shown
<1> QED BY <1>1, <1>2, <1>3, PTL DEF Spec

-----------------------------------------------------------------------------
(* The invariants                                                          *)

\* Until the battery is heard in a cycle, the step that hears it is to come.
ToHear(p, reply) == \E i \in 1..Len(p) : /\ p[i] \in Must
                                         /\ i = 1 => reply = NoReply

ToBeHeard ==
    /\ driver \notin {"supervolt", "victron"}
    /\ run["sampler"].todo # <<>> /\ silence > 0
    => ToHear(run["sampler"].todo, run["sampler"].reply)

\* victron: what it remembers is not younger than its last answer.
Aged ==
    /\ silence <= mem.age
    /\ At("sampler", {"sample"}) => silence <= run["sampler"].age
    /\ \A t \in Tasks : At(t, {"reread"}) /\ run[t].reply # NoReply
                        => silence = 0

Heard == ToBeHeard /\ (driver = "victron" => Aged)

\* jbd writes what it remembers.
Remembered == \A t \in Tasks : At(t, {"write_both"}) => mem.sw # Unknown

\* A command that is being done keeps the battery from being calm, and an
\* answer of a calm battery says how it is.
Disturbs ==
    \A t \in Tasks :
        /\ At(t, {"forget", "publish", "ack"}) => calm = 0
        /\ At(t, {"echo"}) /\ run[t].reply # NoReply => calm = 0

Answered ==
    \A t \in Tasks : run[t].reply # NoReply /\ calm >= 1 =>
        /\ run[t].reply.raw = Wire(driver, dev.flow)
        /\ run[t].reply.sw = dev.sw

\* daly: what is cached has been so for as long as it is cached.
Cached ==
    /\ driver = "daly" /\ mem.sw # Unknown
    /\ mem.swAge <= Ttl /\ calm > mem.swAge
    => mem.sw = dev.sw

\* jk: a switch that was set and is remembered otherwise is about to be
\* forgotten; and so is one that is remembered next.
Forgetting == \E t \in Tasks : At(t, {"forget"})
Differs(sw) == \E s \in Switches : set[s] # {} /\ sw[s] # dev.sw[s]
Forgotten ==
    driver = "jk" =>
        /\ mem.sw # Unknown /\ Differs(mem.sw) => Forgetting
        /\ \A t \in Tasks :
               /\ At(t, {"ask_settings"}) /\ run[t].reply # NoReply
               /\ Differs(run[t].reply.sw)
               => Forgetting

\* victron: a value that is fresh is that of a calm battery.
Notified ==
    /\ driver = "victron" /\ mem.age <= 1 /\ calm > mem.age
    => mem.flow = dev.flow

\* supervolt: what it has parsed, or is about to, is that of the battery once
\* it has been asked for in a calm tick.
UpToDate == IF mem.late.live THEN mem.late.raw = Wire(driver, dev.flow)
            ELSE mem.flow = dev.flow
HasAsked == sampled # "no" \/ At("sampler", Names \ {"request"})
ParsedInTime ==
    driver = "supervolt" /\ (calm >= 2 \/ (calm >= 1 /\ HasAsked)) => UpToDate

\* What the sampler has read is what there is.
ReadRight ==
    calm >= Behind(driver) =>
        /\ /\ driver # "jk_uart"
           /\ At("sampler", {"settings", "ask_settings", "sample"})
           => run["sampler"].flow = dev.flow
        /\ driver \in Showing /\ At("sampler", {"soc", "sample"}) =>
               /\ run["sampler"].sw # Unknown
               /\ \A s \in Followed : run["sampler"].sw[s] = dev.sw[s]

-----------------------------------------------------------------------------
(* What a step of a task leaves to do.                                     *)

\* What has come before a step.
LEMMA Predecessors ==
    ASSUME NEW d, NEW a, NEW b, <<a, b>> \in Follows(d)
    PROVE  /\ a \notin {"sample", "publish", "ack"}
           /\ b \in {"forget", "publish", "ack"} =>
                  a \in {"write", "write_both", "forget", "echo", "refuse"}
           /\ b = "write_both" => a \in {"learn", "ask_known"}
           /\ b = "sample" =>
                  a \in {"settings", "ask_settings", "all", "soc",
                         "direction", "request", "values", "reread"}
           /\ b = "soc" => a \in {"status", "ask_status"}
           /\ b = "settings" => a = "hear"
           /\ b \notin {"ask_settings", "ask_known", "ask_status", "reread",
                        "echo"}
           /\ a = "write" /\ d = "jk" => b = "forget"
<1>1. \/ <<a, b>> \in {"write_both", "forget", "echo", "refuse"} \X Ends
      \/ d = "jk" /\ <<a, b>> = <<"write", "forget">>
      \/ d # "jk" /\ <<a, b>> \in {"write"} \X Ends
      \/ <<a, b>> \in {<<"hear", "settings">>, <<"settings", "sample">>,
                       <<"ask_settings", "sample">>, <<"all", "sample">>,
                       <<"status", "soc">>, <<"ask_status", "soc">>,
                       <<"soc", "sample">>, <<"analog", "direction">>,
                       <<"direction", "sample">>, <<"request", "sample">>,
                       <<"values", "sample">>, <<"reread", "sample">>,
                       <<"learn", "write_both">>,
                       <<"ask_known", "write_both">>,
                       <<"forget_status", "status">>, <<"status", "write">>,
                       <<"ask_status", "write">>}
  BY DEF Follows
<1> QED BY <1>1 DEF Ends

\* Task t has its next step left, or nothing.
Leaves(t) ==
    \/ run'[t].todo = <<>>
    \/ /\ run'[t].todo = Tail(run[t].todo)
       /\ Head(run[t].todo) \notin Must \/ run[t].reply # NoReply
    \/ Asks(t, "ask_settings") /\ At(t, {"settings"})
    \/ Asks(t, "ask_known") /\ At(t, {"learn"})
    \/ Asks(t, "ask_status") /\ At(t, {"status"})
    \/ Asks(t, "reread") /\ At(t, {"values"})

\* Every step but an answer.
LEMMA StepShape ==
    ASSUME Types, Programs, NEW t \in Tasks, Steps(t) \/ NoAnswer(t),
           ~Answer(t)
    PROVE  /\ Onward(t) /\ run[t].todo # <<>> /\ Leaves(t)
           /\ driver' = driver /\ topic' = topic
           /\ silence' \in {0, silence} /\ calm' \in {0, calm}
           /\ sampled' \in {sampled, "failed"}
           /\ mem'.age = mem.age \/ Reread(t)
<1> USE DEF Must
<1>0. mem \in Memory(driver) /\ run[t].reply \in Replies(driver)
  BY DEF Types, TaskState
<1>1. CASE Reads(t)
  <2>1. run[t].reply # NoReply
    BY <1>0, LiveReply, <1>1 DEF Reads
  <2>2. mem'.age = mem.age
    BY <1>0, <1>1, ReadsEffect DEF Learns, Memory
  <2> QED BY <1>1, <2>1, <2>2, ReadsEffect DEF Reads, Rest, Leaves
<1>2. CASE Remembers(t)
  BY <1>2, RemembersEffect DEF Remembers, Rest, Leaves, At
<1>3. CASE FetchStatus(t)
  BY <1>3, FetchStatusEffect DEF FetchStatus, Rest, Leaves, At
<1>4. CASE Invalidate(t)
  <2>1. mem'.age = mem.age
    BY <1>0, <1>4, InvalidateEffect DEF Memory
  <2> QED BY <1>4, <2>1, InvalidateEffect DEF Invalidate, Rest, Leaves, At
<1>5. CASE Forget(t)
  <2>1. mem'.age = mem.age
    BY <1>0, <1>5, ForgetEffect DEF Memory
  <2> QED BY <1>5, <2>1, ForgetEffect DEF Forget, Rest, Leaves, At
<1>6. CASE RequestData(t)
  <2>1. driver' = driver /\ topic' = topic
    BY <1>6 DEF RequestData
  <2> QED BY <1>6, <2>1, RequestDataEffect DEF Leaves, At
<1>7. CASE Values(t)
  BY <1>7, ValuesEffect DEF Values, Rest, Leaves, At
<1>8. CASE Reread(t)
  BY <1>8, RereadEffect DEF Reread, Rest, Leaves, At
<1>9. CASE Writes(t)
  <2>1. driver' = driver /\ topic' = topic /\ silence' = silence
    BY <1>9 DEF Writes, Rest
  <2>2. calm' \in {0, calm}
    BY <1>9, WritesEffect DEF Sets
  <2> QED BY <1>9, <2>1, <2>2, WritesEffect DEF Leaves, At
<1>10. CASE Echoed(t)
  BY <1>10, EchoedEffect DEF Echoed, Rest, Leaves, At
<1>11. CASE Refuses(t)
  BY <1>11, FailsEffect DEF Refuses, Rest, Leaves, At
<1>12. CASE NoAnswer(t)
  BY <1>12, NoAnswerEffect DEF Leaves, At, Tolerant
<1> QED BY <1>1, <1>2, <1>3, <1>4, <1>5, <1>6, <1>7, <1>8, <1>9, <1>10,
           <1>11, <1>12 DEF Steps

-----------------------------------------------------------------------------
(* A battery that is silent is not sampled.                                *)

\* A step that does not hear the battery leaves it to be heard.
LEMMA ToHearTail ==
    ASSUME NEW d, NEW p, Program(d, p), p # <<>>, NEW reply,
           ToHear(p, reply), Head(p) \notin Must \/ reply # NoReply
    PROVE  ToHear(Tail(p), NoReply)
<1>1. p \in Seq(Names) /\ Len(p) \in Nat
  BY LenProperties DEF Program
<1>2. PICK i \in 1..Len(p) : p[i] \in Must /\ (i = 1 => reply = NoReply)
  BY DEF ToHear
<1>3. i # 1
  <2>1. Head(p) = p[1]
    BY <1>1, HeadTailProperties
  <2> QED BY <1>2, <2>1
<1>4. /\ Len(Tail(p)) = Len(p) - 1
      /\ \A j \in 1..Len(Tail(p)) : Tail(p)[j] = p[j + 1]
  BY <1>1, HeadTailProperties
<1>5. i - 1 \in 1..Len(Tail(p)) /\ Tail(p)[i - 1] = p[i]
  BY <1>1, <1>3, <1>4
<1> QED BY <1>2, <1>5 DEF ToHear

\* A request put before the rest of a program leaves the cycle with
\* something to hear.
LEMMA ToHearInserted ==
    ASSUME NEW d, NEW p, Program(d, p), p # <<>>, NEW reply, NEW s,
           ToHear(p, reply), Head(p) \notin Must
    PROVE  ToHear([p EXCEPT ![1] = s], NoReply)
<1>1. p \in Seq(Names) /\ Len(p) \in Nat
  BY LenProperties DEF Program
<1>2. PICK i \in 1..Len(p) : p[i] \in Must
  BY DEF ToHear
<1>3. i # 1
  <2>1. Head(p) = p[1]
    BY <1>1, HeadTailProperties
  <2> QED BY <1>2, <2>1
<1> DEFINE q == [p EXCEPT ![1] = s]
<1>4. DOMAIN q = 1..Len(p) /\ q[i] = p[i]
  BY <1>1, <1>3
<1>5. Len(q) = Len(p)
  BY <1>1, <1>4
<1> HIDE DEF q
<1>6. ToHear(q, NoReply)
  BY <1>2, <1>3, <1>4, <1>5 DEF ToHear
<1> QED BY <1>6 DEF q

\* The last step hears nothing.
LEMMA NothingToHear ==
    ASSUME NEW d, NEW p, Program(d, p), p # <<>>, NEW reply,
           Head(p) \in {"sample", "publish"}
    PROVE  ~ToHear(p, reply)
<1>1. p \in Seq(Names) /\ Len(p) \in Nat /\ Len(p) > 0 /\ Head(p) = p[1]
  BY LenProperties, EmptySeq, HeadTailProperties DEF Program
<1>2. ~(Len(p) > 1)
  <2>1. ASSUME Len(p) > 1 PROVE <<p[1], p[2]>> \in Follows(d)
    BY <1>1, <2>1 DEF Program
  <2>2. <<p[1], p[2]>> \notin Follows(d)
    BY <1>1, Predecessors
  <2> QED BY <2>1, <2>2
<1> DEFINE n == Len(p)
<1>3. n \in Nat /\ n > 0 /\ ~(n > 1)
  BY <1>1, <1>2
<1> HIDE DEF n
<1>4. n = 1
  BY <1>3
<1> QED BY <1>1, <1>4 DEF ToHear, Must, n

\* A task's own step keeps it to be heard.
LEMMA OnwardToBeHeard ==
    ASSUME Types, Programs, ToBeHeard, NEW t \in Tasks,
           Steps(t) \/ NoAnswer(t), ~Answer(t)
    PROVE  ToBeHeard'
<1>1. /\ Onward(t) /\ run[t].todo # <<>> /\ Leaves(t) /\ driver' = driver
      /\ silence' \in {0, silence}
  BY StepShape
<1>2. "sampler" \in Tasks
  BY DEF Tasks
<1>3. SUFFICES ASSUME driver \notin {"supervolt", "victron"},
                      run'["sampler"].todo # <<>>, silence' > 0
               PROVE  ToHear(run'["sampler"].todo, run'["sampler"].reply)
  BY <1>1 DEF ToBeHeard
<1>4. silence > 0
  BY <1>1, <1>3
<1>5. CASE t # "sampler"
  <2>1. run'["sampler"] = run["sampler"]
    BY <1>1, <1>2, <1>5 DEF Onward, Others
  <2> QED BY <1>3, <1>4, <2>1 DEF ToBeHeard
<1>6. CASE t = "sampler"
  <2> DEFINE p == run["sampler"].todo
             reply == run["sampler"].reply
             q == run'["sampler"].todo
  <2>1. Program(driver, p) /\ p # <<>>
    BY <1>1, <1>2, <1>6 DEF Programs
  <2>2. ToHear(p, reply)
    BY <1>3, <1>4, <2>1 DEF ToBeHeard
  <2>3. run'["sampler"].reply = NoReply
    BY <1>1, <1>6 DEF Onward
  <2>4. CASE q = Tail(p) /\ (Head(p) \notin Must \/ reply # NoReply)
    BY <2>1, <2>2, <2>3, <2>4, ToHearTail
  <2>5. CASE \E s : q = [p EXCEPT ![1] = s] /\ Head(p) \notin Must
    <3>1. PICK s : q = [p EXCEPT ![1] = s] /\ Head(p) \notin Must
      BY <2>5
    <3>2. ToHear([p EXCEPT ![1] = s], NoReply)
      BY <2>1, <2>2, <3>1, ToHearInserted
    <3> QED BY <2>3, <3>1, <3>2
  <2>6. \/ q = <<>>
        \/ q = Tail(p) /\ (Head(p) \notin Must \/ reply # NoReply)
        \/ \E s : q = [p EXCEPT ![1] = s] /\ Head(p) \notin Must
    <3>1. Leaves("sampler")
      BY <1>1, <1>6
    <3>2. ASSUME NEW s, NEW b, Asks("sampler", s), At("sampler", {b}),
                 b \notin Must
          PROVE  q = [p EXCEPT ![1] = s] /\ Head(p) \notin Must
      BY <3>2 DEF Asks, At
    <3>3. /\ "settings" \notin Must /\ "learn" \notin Must
          /\ "status" \notin Must /\ "values" \notin Must
      BY DEF Must
    <3>4. CASE \/ q = <<>>
               \/ q = Tail(p) /\ (Head(p) \notin Must \/ reply # NoReply)
      BY <3>4
    <3>5. CASE ~(\/ q = <<>>
                 \/ q = Tail(p) /\ (Head(p) \notin Must \/ reply # NoReply))
      BY <3>1, <3>2, <3>3, <3>5, Zenon DEF Leaves
    <3> QED BY <3>4, <3>5
  <2> QED BY <1>3, <2>4, <2>5, <2>6
<1> QED BY <1>5, <1>6

\* Which step an action is.
LEMMA StepKinds ==
    ASSUME NEW t
    PROVE  /\ Reads(t) => At(t, Asking \ {"echo", "reread"})
           /\ Remembers(t) => At(t, {"settings", "learn"})
           /\ FetchStatus(t) => At(t, {"status"})
           /\ Invalidate(t) => At(t, {"forget_status"})
           /\ Forget(t) => At(t, {"forget"})
           /\ RequestData(t) => At(t, {"request"})
           /\ Values(t) => At(t, {"values"})
           /\ Reread(t) => At(t, {"reread"})
           /\ Writes(t) => At(t, {"write", "write_both"})
           /\ Echoed(t) => At(t, {"echo"})
           /\ Refuses(t) => At(t, {"refuse"})
           /\ NoAnswer(t) => At(t, Asking)
BY DEF Reads, Remembers, FetchStatus, Invalidate, Forget, RequestData, Values,
   Reread, Writes, Echoed, Refuses, NoAnswer, Waits

\* A step of a victron task that is left with its sample has its value.
LEMMA SampledAge ==
    ASSUME Types, Programs, driver = "victron", NEW t \in Tasks,
           Steps(t) \/ NoAnswer(t), ~Answer(t), (At(t, {"sample"}))'
    PROVE  run'[t].age \in {mem.age, mem'.age} /\ (Values(t) \/ Reread(t))
<1>1. Onward(t) /\ run[t].todo # <<>> /\ Leaves(t) /\ driver' = driver
  BY StepShape
<1>2. /\ run'[t].todo # <<>> /\ Head(run'[t].todo) = "sample"
      /\ Program(driver, run[t].todo)
  BY <1>1 DEF At, Programs
<1>3. run'[t].todo = Tail(run[t].todo)
  BY <1>1, <1>2 DEF Leaves, Asks
<1>4. <<Head(run[t].todo), "sample">> \in Follows(driver)
  BY <1>1, <1>2, <1>3, TailProgram
<1>5. Head(run[t].todo) \in {"values", "reread"}
  <2> DEFINE a == Head(run[t].todo)
  <2>1. Belongs(driver, a)
    BY <1>1, <1>2, TailProgram
  <2>2. a \in {"settings", "ask_settings", "all", "soc", "direction",
               "request", "values", "reread"}
    BY <1>4, Predecessors
  <2> HIDE DEF a
  <2>3. a \in {"values", "reread"}
    BY <2>1, <2>2 DEF Belongs
  <2> QED BY <2>3 DEF a
<1>6. ~NoAnswer(t)
  <2> SUFFICES ASSUME NoAnswer(t) PROVE FALSE
    OBVIOUS
  <2>1. At(t, Asking) /\ (run'[t].todo = <<>> \/ At(t, Tolerant))
    BY NoAnswerEffect
  <2> QED BY <1>2, <1>5, <2>1 DEF At, Tolerant
<1>7. Values(t) \/ Reread(t)
  BY <1>5, <1>6, StepKinds DEF Steps, At, Asking
<1>8. CASE Values(t)
  BY <1>2, <1>8, ValuesEffect DEF Asks
<1>9. CASE Reread(t)
  BY <1>9, RereadEffect
<1> QED BY <1>7, <1>8, <1>9

\* A step of a program keeps the age of victron's reading above the
\* silence.
LEMMA StepsAged ==
    ASSUME Types, Programs, driver = "victron", Aged, NEW t \in Tasks,
           Steps(t) \/ NoAnswer(t), ~Answer(t)
    PROVE  Aged'
<1>1. /\ Onward(t) /\ driver' = driver
      /\ silence' \in {0, silence} /\ (mem'.age = mem.age \/ Reread(t))
  BY StepShape
<1>2. silence \in Nat /\ mem.age \in Nat /\ "sampler" \in Tasks
  BY TypedTasks DEF Tasks, Types, Memory
<1>3. silence <= mem.age
  BY DEF Aged
<1>4. silence' <= mem'.age
  <2>1. CASE mem'.age = mem.age
    BY <1>1, <1>2, <1>3, <2>1
  <2>2. CASE Reread(t)
    <3>1. At(t, {"reread"}) /\ run[t].reply # NoReply
      BY <2>2, RereadEffect, LiveReply DEF Types, TaskState
    <3>2. silence = 0
      BY <3>1 DEF Aged
    <3>3. mem'.age \in {0, mem.age}
      BY <2>2, RereadEffect
    <3> QED BY <1>1, <1>2, <3>2, <3>3
  <2> QED BY <1>1, <2>1, <2>2
<1>5. ASSUME (At("sampler", {"sample"}))'
      PROVE  silence' <= run'["sampler"].age
  <2>1. CASE t # "sampler"
    <3>1. run'["sampler"] = run["sampler"]
      BY <1>1, <1>2, <2>1 DEF Onward, Others
    <3>2. silence <= run["sampler"].age
      BY <1>5, <3>1 DEF Aged, At
    <3>3. run["sampler"].age \in Nat
      BY <1>2, TypedTasks DEF TaskState
    <3> QED BY <1>1, <1>2, <3>1, <3>2, <3>3
  <2>2. CASE t = "sampler"
    <3>1. run'[t].age \in {mem.age, mem'.age}
      BY <1>5, <2>2, SampledAge
    <3>2. silence' <= mem.age
      BY <1>1, <1>2, <1>3
    <3> QED BY <1>4, <2>2, <3>1, <3>2
  <2> QED BY <2>1, <2>2
<1>6. ASSUME NEW u \in Tasks, (At(u, {"reread"}))', run'[u].reply # NoReply
      PROVE  silence' = 0
  <2>1. u # t
    BY <1>1, <1>6 DEF Onward
  <2>2. run'[u] = run[u]
    BY <1>1, <2>1 DEF Onward, Others
  <2>3. silence = 0
    BY <1>6, <2>2 DEF Aged, At
  <2> QED BY <1>1, <2>3
<1> QED BY <1>4, <1>5, <1>6 DEF Aged

\* The battery is heard.
LEMMA SilenceBroken ==
    ASSUME Types', silence' = 0
    PROVE  Heard'
<1>1. /\ mem'.age \in Nat /\ "sampler" \in Tasks
      /\ run'["sampler"].age \in Nat
  BY ReadingsAssumption DEF Tasks, Types, Memory, TaskState
<1>2. ToBeHeard'
  BY DEF ToBeHeard
<1>3. Aged'
  BY <1>1 DEF Aged
<1> QED BY <1>2, <1>3 DEF Heard

\* A task begins something else, or has nothing left to do.
LEMMA OtherwiseHeard ==
    ASSUME Types, Programs, Heard, NEW t \in Tasks, Onward(t),
           UNCHANGED <<driver, mem, silence>>,
           t = "sampler" =>
               /\ ~(At("sampler", {"sample"}))'
               /\ \/ driver \in {"supervolt", "victron"} \/ silence = 0
                  \/ run'["sampler"].todo = <<>>
                  \/ ToHear(run'["sampler"].todo, NoReply)
    PROVE  Heard'
<1>1. /\ "sampler" \in Tasks /\ Others(t) /\ run'[t].reply = NoReply
      /\ t # "sampler" => run'["sampler"] = run["sampler"]
  BY DEF Tasks, Onward, Others
<1>2. ToBeHeard'
  <2>1. CASE t = "sampler"
    BY <1>1, <2>1 DEF ToBeHeard
  <2>2. CASE t # "sampler"
    BY <1>1, <2>2 DEF ToBeHeard, Heard
  <2> QED BY <2>1, <2>2
<1>3. ASSUME driver = "victron" PROVE Aged'
  <2>1. silence' <= mem'.age
    BY <1>3 DEF Heard, Aged
  <2>2. ASSUME (At("sampler", {"sample"}))'
        PROVE  silence' <= run'["sampler"].age
    BY <1>1, <1>3, <2>2 DEF Heard, Aged, At
  <2>3. ASSUME NEW u \in Tasks, (At(u, {"reread"}))',
               run'[u].reply # NoReply
        PROVE  silence' = 0
    <3>1. run'[u] = run[u]
      BY <1>1, <2>3 DEF Others
    <3> QED BY <1>3, <2>3, <3>1 DEF Heard, Aged, At
  <2> QED BY <2>1, <2>2, <2>3 DEF Aged
<1> QED BY <1>2, <1>3 DEF Heard

\* Taking a sample, or a command.
LEMMA ProceedsHeard ==
    ASSUME Types, Programs, Heard, Proceeds
    PROVE  Heard'
<1>0. /\ "sampler" \in Tasks /\ "worker" \in Tasks /\ "worker" # "sampler"
      /\ driver \in AllDrivers /\ silence \in Nat
  BY TypedTasks DEF Tasks, Types
<1>1. CASE Samples
  <2>1. /\ Onward("sampler") /\ run'["sampler"].todo = Cycle(driver)
        /\ UNCHANGED <<driver, mem, silence>>
    BY <1>1, SamplesEffect DEF Samples, Begins
  <2>2. Head(Cycle(driver)) # "sample"
    BY <1>0, CycleProgram
  <2>3. driver \notin {"supervolt", "victron"} =>
            ToHear(Cycle(driver), NoReply)
    BY <1>0, CycleProgram DEF ToHear
  <2>4. ~(At("sampler", {"sample"}))'
    BY <2>1, <2>2 DEF At
  <2> QED BY <1>0, <2>1, <2>3, <2>4, OtherwiseHeard
<1>2. CASE HasSample
  <2>1. /\ Onward("sampler") /\ UNCHANGED <<driver, mem, silence>>
        /\ run["sampler"].todo # <<>> /\ Head(run["sampler"].todo) = "sample"
    BY <1>2, HasSampleEffect DEF HasSample, At
  <2>2. driver \in {"supervolt", "victron"} \/ silence = 0
    <3>1. ~ToHear(run["sampler"].todo, run["sampler"].reply)
      BY <1>0, <2>1, NothingToHear DEF Programs
    <3> QED BY <1>0, <2>1, <3>1 DEF Heard, ToBeHeard
  <2>3. ~(At("sampler", {"sample"}))'
    <3>1. CASE run'["sampler"].todo = <<>>
      BY <3>1 DEF At
    <3>2. CASE /\ Begins("sampler", SetSwitch(driver) \o <<"publish">>)
               /\ driver \in Switching
      <4>1. Head(SetSwitch(driver) \o <<"publish">>) # "sample"
        BY <1>0, <3>2, SwitchProgram DEF Ends
      <4> QED BY <3>2, <4>1 DEF At, Begins
    <3> QED BY <1>2, <3>1, <3>2, HasSampleEffect
  <2> QED BY <1>0, <2>1, <2>2, <2>3, OtherwiseHeard
<1>3. CASE Publish
  <2>1. /\ Onward("sampler") /\ UNCHANGED <<driver, mem, silence>>
        /\ run'["sampler"].todo = <<>>
    BY <1>3, PublishEffect DEF Publish
  <2>2. ~(At("sampler", {"sample"}))'
    BY <2>1 DEF At
  <2> QED BY <1>0, <2>1, <2>2, OtherwiseHeard
<1>4. CASE Takes
  <2>1. Onward("worker") /\ UNCHANGED <<driver, mem, silence>>
    BY <1>4, TakesEffect DEF Takes
  <2> QED BY <1>0, <2>1, OtherwiseHeard
<1>5. CASE Ack
  <2>1. Onward("worker") /\ UNCHANGED <<driver, mem, silence>>
    BY <1>5, AckEffect DEF Ack
  <2> QED BY <1>0, <2>1, OtherwiseHeard
<1> QED BY <1>1, <1>2, <1>3, <1>4, <1>5 DEF Proceeds

\* A period goes by between two cycles, and with it a tick of both clocks.
LEMMA TickHeard ==
    ASSUME Types, Heard, Tick
    PROVE  Heard'
<1>1. /\ \A t \in Tasks : run[t].todo = <<>> /\ run'[t].todo = <<>>
      /\ driver' = driver /\ "sampler" \in Tasks
  BY DEF Tick, Tasks
<1>2. ToBeHeard'
  BY <1>1 DEF ToBeHeard
<1>3. ASSUME driver = "victron" PROVE Aged'
  <2>1. mem'.age = After(mem.age, Expiry) /\ silence' = After(silence, Expiry)
    BY <1>3 DEF Tick, Types, Memory
  <2>2. /\ silence <= mem.age /\ mem.age \in Nat /\ silence \in Nat
        /\ Expiry \in Nat /\ mem.age <= Expiry + 1
    BY <1>3, TypedTasks DEF Heard, Aged, Types, Memory
  <2>3. silence' <= mem'.age
    BY <2>1, <2>2 DEF After
  <2> QED BY <1>1, <2>3 DEF Aged, At
<1> QED BY <1>1, <1>2, <1>3 DEF Heard

\* Every step keeps the silence that a cycle can outlast.
LEMMA NextHeard ==
    ASSUME Types, Programs, Heard, [Next]_vars
    PROVE  Heard'
<1>1. Types'
  BY NextTypes
<1>2. CASE UNCHANGED <<driver, mem, run, silence>>
  BY <1>2 DEF Heard, ToBeHeard, Aged, At
<1>3. CASE HandleNotification
  BY <1>1, <1>3, SilenceBroken DEF HandleNotification
<1>4. CASE Tick
  BY <1>4, TickHeard
<1>5. CASE Proceeds
  BY <1>5, ProceedsHeard
<1>6. ASSUME NEW t \in Tasks, Steps(t) \/ NoAnswer(t)
      PROVE  Heard'
  <2>1. CASE Answer(t)
    BY <1>1, <2>1, SilenceBroken DEF Answer
  <2>2. CASE ~Answer(t)
    <3>1. ToBeHeard' /\ driver' = driver
      BY <1>6, <2>2, OnwardToBeHeard, StepShape DEF Heard
    <3>2. ASSUME driver = "victron" PROVE Aged'
      BY <1>6, <2>2, <3>2, StepsAged DEF Heard
    <3> QED BY <3>1, <3>2 DEF Heard
  <2> QED BY <2>1, <2>2
<1>7. \/ UNCHANGED <<driver, mem, run, silence>> \/ HandleNotification
      \/ Tick \/ Proceeds \/ \E t \in Tasks : Steps(t) \/ NoAnswer(t)
  BY DEF Next, vars, Changes, Dies, MessageHandler
<1> QED BY <1>2, <1>3, <1>4, <1>5, <1>6, <1>7

\* Nothing has been heard, and no time has passed, initially.
LEMMA InitHeard ==
    ASSUME Init PROVE Heard
<1>1. /\ \A t \in Tasks : run[t] = Idle
      /\ silence = 0 /\ mem.age = 0 /\ "sampler" \in Tasks
  BY DEF Init, Tasks
<1>2. Idle.todo = <<>>
  BY DEF Idle
<1> QED BY <1>1, <1>2 DEF Heard, ToBeHeard, Aged, At


\* Every step keeps a silent battery from being sampled.
LEMMA NextSampled ==
    ASSUME Types, Programs, Heard, SilentIsNotSampled, [Next]_vars
    PROVE  SilentIsNotSampled'
<1>0. silence \in Nat /\ Expiry \in Nat /\ "sampler" \in Tasks
  BY TypedTasks DEF Types, Tasks
<1>1. CASE driver' = driver /\ sampled' # "ok"
  BY <1>1 DEF SilentIsNotSampled
<1>2. CASE /\ driver' = driver /\ sampled' = sampled
           /\ silence' \in {0, silence}
  BY <1>0, <1>2 DEF SilentIsNotSampled
<1>3. CASE HasSample \/ Publish
  <2>1. driver' = driver /\ silence' = silence
    BY <1>3 DEF HasSample, Publish
  <2>2. CASE At("sampler", {"sample"}) /\ ~Expired(run["sampler"].age)
    <3>1. /\ run["sampler"].todo # <<>> /\ Head(run["sampler"].todo) = "sample"
          /\ run["sampler"].age \in Nat /\ run["sampler"].age <= Expiry
      BY <1>0, <2>2, TypedTasks DEF At, Expired, TaskState
    <3>2. CASE driver = "victron"
      BY <1>0, <2>1, <2>2, <3>1, <3>2 DEF Heard, Aged, SilentIsNotSampled
    <3>3. CASE driver \notin {"supervolt", "victron"}
      <4>1. ~ToHear(run["sampler"].todo, run["sampler"].reply)
        BY <1>0, <3>1, NothingToHear DEF Programs
      <4>2. silence = 0
        BY <1>0, <3>1, <3>3, <4>1 DEF Heard, ToBeHeard
      <4> QED BY <1>0, <2>1, <4>2 DEF SilentIsNotSampled
    <3> QED BY <2>1, <3>2, <3>3 DEF SilentIsNotSampled
  <2>3. CASE Publish
    <3>1. /\ run["sampler"].todo # <<>>
          /\ Head(run["sampler"].todo) = "publish"
      BY <2>3 DEF Publish, At
    <3>2. driver \in Switching
      BY <1>0, <3>1, TailProgram DEF Programs, Belongs
    <3>3. ~ToHear(run["sampler"].todo, run["sampler"].reply)
      BY <1>0, <3>1, NothingToHear DEF Programs
    <3>4. silence = 0
      BY <1>0, <3>1, <3>2, <3>3 DEF Heard, ToBeHeard, Switching
    <3> QED BY <1>0, <2>1, <3>4 DEF SilentIsNotSampled
  <2> QED BY <1>1, <1>2, <1>3, <2>1, <2>2, <2>3, HasSampleEffect
<1>4. ASSUME NEW t \in Tasks, Steps(t) \/ NoAnswer(t)
      PROVE  SilentIsNotSampled'
  <2>1. CASE Answer(t)
    BY <1>2, <2>1 DEF Answer
  <2>2. CASE ~Answer(t)
    BY <1>1, <1>2, <1>4, <2>2, StepShape
  <2> QED BY <2>1, <2>2
<1>5. \/ driver' = driver /\ sampled' # "ok"
      \/ /\ driver' = driver /\ sampled' = sampled
         /\ silence' \in {0, silence}
      \/ HasSample \/ Publish \/ \E t \in Tasks : Steps(t) \/ NoAnswer(t)
  BY DEF Next, vars, Changes, Dies, HandleNotification, MessageHandler, Tick,
     Proceeds, Samples, Takes, Ack
<1> QED BY <1>1, <1>2, <1>3, <1>4, <1>5

\* A battery that does not answer is not sampled for longer than values live,
\* whatever the driver remembers of it.
THEOREM SilenceIsNotSampled == Spec => []SilentIsNotSampled
<1> DEFINE IInv == Types /\ Programs /\ Heard /\ SilentIsNotSampled
<1>1. Init => IInv
  BY InitTypes, InitHeard DEF Init, SilentIsNotSampled
<1>2. IInv /\ [Next]_vars => IInv'
  BY NextTypes, NextHeard, NextSampled
<1> QED BY <1>1, <1>2, PTL DEF Spec

-----------------------------------------------------------------------------
(* A switch stays as the last command has set it.                          *)

\* Which driver a step of a task belongs to.
LEMMA WhoseStep ==
    ASSUME Programs, NEW t \in Tasks, NEW s, At(t, {s})
    PROVE  Belongs(driver, s)
<1>1. run[t].todo # <<>> /\ Head(run[t].todo) = s
  BY DEF At
<1>2. Program(driver, run[t].todo)
  BY DEF Programs
<1> QED BY <1>1, <1>2, TailProgram

\* What jbd remembers, it does not forget.
LEMMA JbdRemembers ==
    ASSUME Types, Programs, driver = "jbd", NEW t \in Tasks,
           Steps(t) \/ NoAnswer(t), ~Answer(t)
    PROVE  mem' = mem \/ (mem'.sw \in Position /\ Reads(t))
<1>1. CASE Reads(t)
  <2>1. mem.sw \in Shown /\ mem \in Memory(driver)
    BY DEF Types, Memory
  <2>2. run[t].reply.sw \in Position
    BY <1>1, ReadsEffect, ReplyRead
  <2>3. Learns(t) => mem'.sw = run[t].reply.sw
    BY <2>1 DEF Learns, Memory
  <2>4. ~At(t, {"direction"})
    BY WhoseStep DEF Belongs
  <2> QED BY <1>1, <2>2, <2>3, <2>4, ReadsEffect
<1>2. CASE Remembers(t) \/ FetchStatus(t) \/ Values(t) \/ Writes(t)
           \/ NoAnswer(t)
  BY <1>2, RemembersEffect, FetchStatusEffect, ValuesEffect, WritesEffect,
     NoAnswerEffect
<1>3. ~Invalidate(t) /\ ~Forget(t) /\ ~RequestData(t) /\ ~Reread(t)
      /\ ~Echoed(t)
  BY StepKinds, WhoseStep DEF Belongs
<1>4. CASE Refuses(t)
  BY <1>4 DEF Refuses
<1> QED BY <1>1, <1>2, <1>3, <1>4 DEF Steps

\* A step of a program leaves the jbd write only to a task that knows
\* the switches.
LEMMA StepsRemembered ==
    ASSUME Types, Programs, Remembered, NEW t \in Tasks,
           Steps(t) \/ NoAnswer(t), ~Answer(t)
    PROVE  Remembered'
<1>1. /\ Onward(t) /\ run[t].todo # <<>> /\ Leaves(t) /\ driver' = driver
      /\ Programs'
  BY StepShape, StepsTypes
<1> SUFFICES ASSUME NEW u \in Tasks, (At(u, {"write_both"}))'
             PROVE  mem'.sw # Unknown
  BY DEF Remembered
<1>2. /\ run'[u].todo # <<>> /\ Head(run'[u].todo) = "write_both"
      /\ Program(driver, run'[u].todo) /\ Program(driver, run[t].todo)
  BY <1>1 DEF At, Programs
<1>3. driver = "jbd"
  BY <1>2, TailProgram DEF Belongs
<1>4. mem' = mem \/ (mem'.sw \in Position /\ Reads(t))
  BY <1>3, JbdRemembers
<1>5. CASE u # t
  <2>1. run'[u] = run[u]
    BY <1>1, <1>5 DEF Onward, Others
  <2>2. mem.sw # Unknown
    BY <1>2, <2>1 DEF Remembered, At
  <2> QED BY <1>4, <2>2, UnknownPosition
<1>6. CASE u = t
  <2>1. run'[t].todo = Tail(run[t].todo)
    BY <1>1, <1>2, <1>6 DEF Leaves, Asks
  <2>2. Head(run[t].todo) \in {"learn", "ask_known"}
    <3>1. <<Head(run[t].todo), "write_both">> \in Follows(driver)
      BY <1>1, <1>2, <1>6, <2>1, TailProgram
    <3> QED BY <3>1, Predecessors
  <2>3. CASE Head(run[t].todo) = "learn"
    <3>1. Remembers(t)
      BY <2>3, StepKinds DEF Steps, At, Asking
    <3> QED BY <1>2, <1>6, <3>1, RemembersEffect DEF Asks
  <2>4. CASE Head(run[t].todo) = "ask_known"
    <3>1. Reads(t) \/ NoAnswer(t)
      BY <2>4, StepKinds DEF Steps, At
    <3>2. ~NoAnswer(t)
      BY <1>2, <1>6, <2>4, NoAnswerEffect DEF At, Tolerant
    <3>3. Learns(t)
      BY <2>4, <3>1, <3>2, ReadsEffect DEF At
    <3>4. mem'.sw = run[t].reply.sw /\ run[t].reply.sw \in Position
      BY <3>1, <3>2, <3>3, ReadsEffect, ReplyRead DEF Learns, Types, Memory
    <3> QED BY <3>4, UnknownPosition
  <2> QED BY <2>2, <2>3, <2>4
<1> QED BY <1>5, <1>6

\* Every step keeps the jbd writes to switches that are known.
LEMMA NextRemembered ==
    ASSUME Types, Programs, Remembered, [Next]_vars
    PROVE  Remembered'
<1>1. CASE UNCHANGED <<run, mem>>
  BY <1>1 DEF Remembered, At
<1>2. CASE HandleNotification \/ Tick
  <2>1. run' = run /\ mem'.sw = mem.sw
    BY <1>2 DEF HandleNotification, Tick, Types, Memory
  <2> QED BY <2>1 DEF Remembered, At
<1>3. CASE Proceeds
  <2>1. "sampler" \in Tasks /\ "worker" \in Tasks /\ driver \in AllDrivers
    BY DEF Tasks, Types
  <2>2. mem' = mem
    BY <1>3 DEF Proceeds, Samples, HasSample, Publish, Takes, Ack
  <2>3. ASSUME NEW t \in Tasks, Onward(t), ~(At(t, {"write_both"}))'
        PROVE  Remembered'
    BY <2>2, <2>3 DEF Remembered, Onward, Others, At
  <2>4. ASSUME NEW t \in Tasks, NEW p, Begins(t, p), Head(p) # "write_both"
        PROVE  ~(At(t, {"write_both"}))'
    BY <2>4 DEF Begins, At
  <2>5. ASSUME NEW t \in Tasks, run'[t].todo = <<>>
        PROVE  ~(At(t, {"write_both"}))'
    BY <2>5 DEF At
  <2>6. CASE Samples
    <3>1. Head(Cycle(driver)) # "write_both"
      BY <2>1, CycleProgram
    <3> QED BY <2>1, <2>3, <2>4, <2>6, <3>1, SamplesEffect
  <2>7. ASSUME NEW e \in Ends, e = "publish" => driver \in Switching
        PROVE  Head(SetSwitch(driver) \o <<e>>) # "write_both"
    BY <2>1, <2>7, SwitchProgram
  <2>8. CASE HasSample
    <3>1. /\ Onward("sampler")
          /\ \/ run'["sampler"].todo = <<>>
             \/ /\ Begins("sampler", SetSwitch(driver) \o <<"publish">>)
                /\ driver \in Switching
      BY <2>8, HasSampleEffect
    <3>2. ~(At("sampler", {"write_both"}))'
      BY <2>1, <2>4, <2>5, <2>7, <3>1 DEF Ends
    <3> QED BY <2>1, <2>3, <3>1, <3>2
  <2>9. CASE Publish
    BY <2>1, <2>3, <2>5, <2>9, PublishEffect
  <2>10. CASE Takes
    BY <2>1, <2>3, <2>4, <2>7, <2>10, TakesEffect DEF Ends
  <2>11. CASE Ack
    BY <2>1, <2>3, <2>5, <2>11, AckEffect
  <2> QED BY <1>3, <2>6, <2>8, <2>9, <2>10, <2>11 DEF Proceeds
<1>4. ASSUME NEW t \in Tasks, Steps(t) \/ NoAnswer(t)
      PROVE  Remembered'
  <2>1. CASE Answer(t)
    <3>1. mem' = mem /\ \A u \in Tasks : run'[u].todo = run[u].todo
      BY <2>1, AnswerEffect DEF Answer, Others
    <3> QED BY <3>1 DEF Remembered, At
  <2> QED BY <1>4, <2>1, StepsRemembered
<1>5. \/ UNCHANGED <<run, mem>> \/ HandleNotification \/ Tick \/ Proceeds
      \/ \E t \in Tasks : Steps(t) \/ NoAnswer(t)
  BY DEF Next, vars, Changes, Dies, MessageHandler
<1> QED BY <1>1, <1>2, <1>3, <1>4, <1>5

\* A command that leaves the other switch as it is, or, with jbd, as it is
\* remembered.
LEMMA SetsHold ==
    ASSUME Types, CommandsHold, NEW t \in Tasks, NEW sw \in Position,
           Sets(t, sw), sw[run[t].cmd.switch] = run[t].cmd.state,
           \A s \in Switches \ {run[t].cmd.switch} :
               sw[s] = dev.sw[s] \/ (driver = "jbd" /\ sw[s] = mem.sw[s])
    PROVE  CommandsHold'
<1>1. /\ dev'.sw = sw
      /\ \A s \in Switches :
             set'[s] = IF s = run[t].cmd.switch THEN {run[t].cmd.state}
                       ELSE IF driver = "jbd" /\ mem.sw[s] # dev.sw[s]
                       THEN {} ELSE set[s]
  BY SetsEffect
<1> SUFFICES ASSUME NEW s \in Switches PROVE set'[s] \subseteq {dev'.sw[s]}
  BY DEF CommandsHold
<1>2. CASE s = run[t].cmd.switch
  BY <1>1, <1>2
<1>3. CASE s # run[t].cmd.switch
  <2>1. set[s] \subseteq {dev.sw[s]}
    BY DEF CommandsHold
  <2>2. CASE driver = "jbd" /\ mem.sw[s] # dev.sw[s]
    BY <1>1, <1>3, <2>2
  <2>3. CASE ~(driver = "jbd" /\ mem.sw[s] # dev.sw[s])
    BY <1>1, <1>3, <2>1, <2>3
  <2> QED BY <2>2, <2>3
<1> QED BY <1>2, <1>3

\* The one code of jbd sets both switches: that of the command as it says, and
\* the other as it is remembered.
LEMMA JbdWritesBoth ==
    ASSUME Types, NEW t \in Tasks, mem.sw # Unknown
    PROVE  /\ JbdWrites(t) \in Position
           /\ JbdWrites(t)[run[t].cmd.switch] = run[t].cmd.state
           /\ \A s \in Switches \ {run[t].cmd.switch} :
                  JbdWrites(t)[s] = mem.sw[s]
<1>1. run[t].cmd \in Command /\ mem.sw \in Position
  BY DEF Types, TaskState, Memory, Shown
<1>2. /\ Both(t) \in Position
      /\ Both(t)[run[t].cmd.switch] = run[t].cmd.state
      /\ \A s \in Switches \ {run[t].cmd.switch} : Both(t)[s] = mem.sw[s]
  BY <1>1, MovedPosition DEF Both
<1>3. JbdWrites(t) = Both(t)
  BY <1>1, <1>2, JbdCodes DEF JbdWrites
<1> QED BY <1>2, <1>3

\* Every step keeps each switch where something put it.
LEMMA NextHolds ==
    ASSUME Types, Programs, Remembered, CommandsHold, [Next]_vars
    PROVE  CommandsHold'
<1>1. CASE UNCHANGED <<dev, set>>
  BY <1>1 DEF CommandsHold
<1>2. CASE Changes
  <2>1. /\ dev \in [flow : {-1, 1}, sw : Position]
        /\ set \in [Switches -> SUBSET BOOLEAN]
    BY DEF Types
  <2>2. CASE dev' = [dev EXCEPT !.flow = -@] /\ set' = set
    BY <2>1, <2>2 DEF CommandsHold
  <2>3. ASSUME NEW s \in Switches, dev' = [dev EXCEPT !.sw[s] = ~@],
               set' = [set EXCEPT ![s] = {}]
        PROVE  CommandsHold'
    <3>1. ASSUME NEW u \in Switches PROVE set'[u] \subseteq {dev'.sw[u]}
      <4>1. CASE u = s
        BY <2>1, <2>3, <4>1
      <4>2. CASE u # s
        <5>1. set'[u] = set[u]
          BY <2>1, <2>3, <4>2
        <5>2. dev'.sw = [dev.sw EXCEPT ![s] = ~dev.sw[s]]
          BY <2>1, <2>3
        <5>3. dev'.sw[u] = dev.sw[u]
          BY <2>1, <4>2, <5>2 DEF Position
        <5> QED BY <5>1, <5>3 DEF CommandsHold
      <4> QED BY <4>1, <4>2
    <3> QED BY <3>1 DEF CommandsHold
  <2> QED BY <1>2, <2>2, <2>3 DEF Changes
<1>3. ASSUME NEW t \in Tasks, Sets(t, Asked(t))
      PROVE  CommandsHold'
  <2>1. /\ Asked(t)[run[t].cmd.switch] = run[t].cmd.state
        /\ \A s \in Switches \ {run[t].cmd.switch} : Asked(t)[s] = dev.sw[s]
    BY AskedPosition, MovedPosition DEF Asked
  <2> QED BY <1>3, <2>1, AskedPosition, SetsHold
<1>4. ASSUME NEW t \in Tasks, At(t, {"write_both"}), Sets(t, JbdWrites(t))
      PROVE  CommandsHold'
  <2>1. driver = "jbd"
    BY <1>4, WhoseStep DEF Belongs
  <2>2. mem.sw # Unknown
    BY <1>4 DEF Remembered
  <2> QED BY <1>4, <2>1, <2>2, JbdWritesBoth, SetsHold
<1>5. ASSUME NEW t \in Tasks, Steps(t) \/ NoAnswer(t)
      PROVE  CommandsHold'
  <2>1. CASE Answer(t)
    BY <1>1, <1>3, <2>1 DEF Answer, Asked
  <2>2. CASE Writes(t)
    BY <1>1, <1>3, <1>4, <2>2, WritesEffect
  <2>3. CASE ~Answer(t) /\ ~Writes(t)
    <3>1. UNCHANGED <<dev, set>>
      BY <1>5, <2>3 DEF Steps, NoAnswer, Reads, Remembers, FetchStatus,
         Invalidate, Forget, RequestData, Values, Reread, Echoed, Refuses
    <3> QED BY <1>1, <3>1
  <2> QED BY <2>1, <2>2, <2>3
<1>6. \/ UNCHANGED <<dev, set>> \/ Changes
      \/ \E t \in Tasks : Steps(t) \/ NoAnswer(t)
  BY DEF Next, vars, Dies, HandleNotification, MessageHandler, Tick, Proceeds,
     Samples, HasSample, Publish, Takes, Ack
<1> QED BY <1>1, <1>2, <1>5, <1>6

\* The command of t is carried out, and puts switch s where it asks.
PutBy(t, s) ==
    /\ run[t].todo # <<>> /\ run[t].cmd.switch = s
    /\ dev'.sw[s] = run[t].cmd.state

\* What jbd remembers of a switch is not what the battery has.
JbdMistaken(s) == driver = "jbd" /\ mem.sw[s] # dev.sw[s]

\* A switch moves by itself, by a command for it, or by a command of jbd for
\* the other one while what jbd remembers of it is out of date.
Accounted(s) == \/ Changes
                \/ \E t \in Tasks : PutBy(t, s)
                \/ JbdMistaken(s)
MovesAccounted == [][\A s \in Switches : dev'.sw[s] # dev.sw[s] => Accounted(s)]_vars

\* Every step that moves a switch is accounted for.
LEMMA NextAccounts ==
    ASSUME Types, Programs, Remembered, [Next]_vars,
           NEW s \in Switches, dev'.sw[s] # dev.sw[s]
    PROVE  Accounted(s)
<1>1. ASSUME NEW t \in Tasks, NEW sw \in Position, Sets(t, sw), run[t].todo # <<>>,
             sw[run[t].cmd.switch] = run[t].cmd.state,
             s # run[t].cmd.switch => sw[s] = dev.sw[s] \/ JbdMistaken(s)
      PROVE  Accounted(s)
  <2>1. dev'.sw = sw
    BY <1>1, SetsEffect
  <2>2. CASE s = run[t].cmd.switch
    BY <1>1, <2>1, <2>2 DEF PutBy, Accounted
  <2>3. CASE s # run[t].cmd.switch
    BY <1>1, <2>1, <2>3 DEF Accounted
  <2> QED BY <2>2, <2>3
<1>2. ASSUME NEW t \in Tasks, Sets(t, Asked(t)), run[t].todo # <<>>
      PROVE  Accounted(s)
  <2>1. /\ Asked(t)[run[t].cmd.switch] = run[t].cmd.state
        /\ \A u \in Switches \ {run[t].cmd.switch} : Asked(t)[u] = dev.sw[u]
    BY AskedPosition, MovedPosition DEF Asked
  <2> QED BY <1>1, <1>2, <2>1, AskedPosition
<1>3. ASSUME NEW t \in Tasks, At(t, {"write_both"}), Sets(t, JbdWrites(t)), run[t].todo # <<>>
      PROVE  Accounted(s)
  <2>1. driver = "jbd" /\ mem.sw # Unknown
    BY <1>3, WhoseStep DEF Belongs, Remembered
  <2>2. s # run[t].cmd.switch => JbdWrites(t)[s] = dev.sw[s] \/ JbdMistaken(s)
    BY <2>1, JbdWritesBoth DEF JbdMistaken
  <2> QED BY <1>1, <1>3, <2>1, <2>2, JbdWritesBoth
<1>4. ASSUME NEW t \in Tasks, Steps(t) \/ NoAnswer(t)
      PROVE  Accounted(s)
  <2>1. CASE Answer(t)
    <3>1. run[t].todo # <<>> /\ Sets(t, Asked(t))
      BY <2>1 DEF Answer, Waits, At, Asked
    <3> QED BY <1>2, <3>1
  <2>2. CASE Writes(t)
    BY <1>2, <1>3, <2>2, WritesEffect
  <2>3. CASE ~Answer(t) /\ ~Writes(t)
    BY <1>4, <2>3 DEF Steps, NoAnswer, Reads, Remembers, FetchStatus,
       Invalidate, Forget, RequestData, Values, Reread, Echoed, Refuses
  <2> QED BY <2>1, <2>2, <2>3
<1>5. \/ UNCHANGED dev \/ Changes
      \/ \E t \in Tasks : Steps(t) \/ NoAnswer(t)
  BY DEF Next, vars, Dies, HandleNotification, MessageHandler, Tick, Proceeds,
     Samples, HasSample, Publish, Takes, Ack
<1> QED BY <1>4, <1>5 DEF Accounted

\* A switch stays as the last command for it has set it, until it moves by
\* itself.  The history set excepts one case, and the second conjunct says of
\* the switches themselves that it is the only one: jbd writes both switches
\* from its last sample (set_switch), so a command that comes before a sample
\* has shown what the one before did may undo that.
THEOREM SwitchesHold == Spec => []CommandsHold /\ MovesAccounted
<1> DEFINE IInv == Types /\ Programs /\ Remembered /\ CommandsHold
<1>1. Init => IInv
  <2> SUFFICES ASSUME Init PROVE IInv
    OBVIOUS
  <2>1. /\ \A t \in Tasks : run[t] = Idle
        /\ \A s \in Switches : set[s] = {}
    BY DEF Init
  <2>2. Remembered /\ CommandsHold
    BY <2>1 DEF Remembered, CommandsHold, At, Idle
  <2> QED BY <2>2, InitTypes
<1>2. IInv /\ [Next]_vars => IInv'
  BY NextTypes, NextRemembered, NextHolds
<1>3. IInv /\ [Next]_vars
        => [\A s \in Switches : dev'.sw[s] # dev.sw[s] => Accounted(s)]_vars
  BY NextAccounts
<1> QED BY <1>1, <1>2, <1>3, PTL DEF Spec, MovesAccounted

-----------------------------------------------------------------------------
(* A calm battery is reported as it is.                                    *)

\* While the battery stays calm it does not change, no answer is lost, and a
\* command that is carried out has failed.
Quiet == \/ UNCHANGED <<run, mem, topic, sampled>>
         \/ HandleNotification \/ Samples \/ HasSample \/ Publish \/ Takes
         \/ \E t \in Tasks : Steps(t)

\* Any step but a tick that keeps the calm is one of the quiet ones.
LEMMA CalmStep ==
    ASSUME Types, Programs, [Next]_vars, ~Tick, calm' # 0
    PROVE  UNCHANGED <<driver, dev, set, calm>> /\ Quiet
<1>1. CASE UNCHANGED vars \/ Dies \/ MessageHandler
  BY <1>1 DEF vars, Dies, MessageHandler, Quiet
<1>2. CASE HandleNotification
  BY <1>2 DEF HandleNotification, Quiet
<1>3. CASE Proceeds
  BY <1>3 DEF Proceeds, Samples, HasSample, Publish, Takes, Ack, Quiet
<1>4. ASSUME NEW t \in Tasks, Steps(t) \/ NoAnswer(t)
      PROVE  UNCHANGED <<driver, dev, set, calm>> /\ Quiet
  <2>1. ~NoAnswer(t)
    BY NoAnswerEffect
  <2>2. Quiet
    BY <1>4, <2>1 DEF Quiet
  <2>3. UNCHANGED driver
    BY <1>4, StepShape DEF Answer
  <2>4. UNCHANGED <<dev, set, calm>>
    <3>1. CASE Answer(t)
      BY <3>1 DEF Answer, Sets
    <3>2. CASE Writes(t)
      BY <3>2, WritesEffect DEF Sets
    <3>3. CASE RequestData(t)
      BY <3>3, RequestDataEffect DEF RequestData
    <3>4. CASE ~Answer(t) /\ ~Writes(t) /\ ~RequestData(t)
      BY <1>4, <2>1, <3>4 DEF Steps, Reads, Remembers, FetchStatus,
         Invalidate, Forget, Values, Reread, Echoed, Refuses
    <3> QED BY <3>1, <3>2, <3>3, <3>4
  <2> QED BY <2>2, <2>3, <2>4
<1> QED BY <1>1, <1>2, <1>3, <1>4 DEF Next, Changes

\* With a tick nothing is under way.
LEMMA TickIdle ==
    ASSUME Types, Programs, Tick
    PROVE  /\ UNCHANGED <<driver, dev, set, run, topic>>
           /\ mem'.flow = mem.flow /\ mem'.sw = mem.sw /\ mem'.late = mem.late
           /\ \A t \in Tasks : /\ run[t].todo = <<>>
                               /\ run[t].reply = NoReply
<1>1. \A t \in Tasks : run[t].todo = <<>>
  BY DEF Tick
<1>2. \A t \in Tasks : run[t].reply = NoReply
  BY <1>1 DEF Programs, At
<1>3. mem'.flow = mem.flow /\ mem'.sw = mem.sw /\ mem'.late = mem.late
  BY DEF Tick, Types, Memory
<1> QED BY <1>1, <1>2, <1>3 DEF Tick

\* A command that is being done.
LEMMA StepsDisturbs ==
    ASSUME Types, Programs, Disturbs, NEW t \in Tasks,
           Steps(t) \/ NoAnswer(t)
    PROVE  Disturbs'
<1>0. /\ \A u \in Tasks :
             /\ At(u, {"forget", "publish", "ack"}) => calm = 0
             /\ At(u, {"echo"}) /\ run[u].reply # NoReply => calm = 0
  BY DEF Disturbs
<1>1. CASE Answer(t)
  <2>1. /\ \A u \in Tasks : run'[u].todo = run[u].todo
        /\ Others(t)
    BY <1>1, AnswerEffect DEF Others
  <2>2. calm' \in {0, calm} /\ (At(t, {"echo"}) => calm' = 0)
    BY <1>1 DEF Answer, Sets
  <2>3. ASSUME NEW u \in Tasks, (At(u, {"forget", "publish", "ack"}))'
        PROVE  calm' = 0
    BY <1>0, <2>1, <2>2, <2>3 DEF At
  <2>4. ASSUME NEW u \in Tasks, (At(u, {"echo"}))', run'[u].reply # NoReply
        PROVE  calm' = 0
    <3>1. At(u, {"echo"})
      BY <2>1, <2>4 DEF At
    <3>2. u # t => run'[u] = run[u]
      BY <2>1 DEF Others
    <3> QED BY <1>0, <2>2, <2>4, <3>1, <3>2
  <2> QED BY <2>3, <2>4 DEF Disturbs
<1>2. CASE ~Answer(t)
  <2>1. /\ Onward(t) /\ Leaves(t) /\ run[t].todo # <<>>
        /\ calm' \in {0, calm} /\ driver' = driver
    BY <1>2, StepShape
  <2>2. ASSUME NEW u \in Tasks \ {t}
        PROVE  /\ (At(u, {"forget", "publish", "ack"}))' => calm' = 0
               /\ (At(u, {"echo"}))' /\ run'[u].reply # NoReply => calm' = 0
    <3>1. run'[u] = run[u]
      BY <2>1, <2>2 DEF Onward, Others
    <3> QED BY <1>0, <2>1, <3>1 DEF At
  <2>3. ASSUME (At(t, {"forget", "publish", "ack"}))' PROVE calm' = 0
    <3>1. /\ run'[t].todo # <<>>
          /\ Head(run'[t].todo) \in {"forget", "publish", "ack"}
      BY <2>3 DEF At
    <3>2. run'[t].todo = Tail(run[t].todo)
      BY <2>1, <3>1 DEF Leaves, Asks
    <3>3. <<Head(run[t].todo), Head(run'[t].todo)>> \in Follows(driver)
      BY <2>1, <3>1, <3>2, TailProgram DEF Programs
    <3>4. Head(run[t].todo) \in
              {"write", "write_both", "forget", "echo", "refuse"}
      BY <3>1, <3>3, Predecessors
    <3>5. CASE Head(run[t].todo) \in {"write", "write_both"}
      <4>1. Writes(t)
        BY <1>2, <3>5, StepKinds DEF Steps, At, Asking
      <4> QED BY <3>1, <4>1, WritesEffect DEF Sets
    <3>6. CASE Head(run[t].todo) = "forget"
      BY <1>0, <2>1, <3>6 DEF At
    <3>7. CASE Head(run[t].todo) = "echo"
      <4>1. Echoed(t) \/ NoAnswer(t)
        BY <1>2, <3>7, StepKinds DEF Steps, At
      <4>2. ASSUME Echoed(t) PROVE run[t].reply # NoReply
        BY <4>2, EchoedEffect, LiveReply DEF Types, TaskState
      <4> QED BY <1>0, <2>1, <3>7, <4>1, <4>2, NoAnswerEffect DEF At
    <3>8. CASE Head(run[t].todo) = "refuse"
      <4>1. Refuses(t)
        BY <1>2, <3>8, StepKinds DEF Steps, At, Asking
      <4> QED BY <2>1, <3>1, <4>1, FailsEffect DEF Refuses
    <3> QED BY <3>4, <3>5, <3>6, <3>7, <3>8
  <2>4. run'[t].reply = NoReply
    BY <2>1 DEF Onward
  <2> QED BY <2>2, <2>3, <2>4 DEF Disturbs
<1> QED BY <1>1, <1>2

\* What the sampler and the worker begin with is none of these steps.
LEMMA ProceedsHeads ==
    ASSUME Types, Programs, Proceeds
    PROVE  \E t \in Tasks :
               /\ Onward(t)
               /\ run[t].todo = <<>> \/ At(t, {"sample", "publish", "ack"})
               /\ ~(At(t, {"forget", "publish", "ack", "settings",
                           "ask_settings", "sample", "soc"}))'
<1>0. "sampler" \in Tasks /\ "worker" \in Tasks /\ driver \in AllDrivers
  BY DEF Tasks, Types
<1> DEFINE Heads == {"forget", "publish", "ack", "settings", "ask_settings",
                     "sample", "soc"}
<1>1. ASSUME NEW t \in Tasks, run'[t].todo = <<>>
      PROVE  ~(At(t, Heads))'
  BY <1>1 DEF At
<1>2. ASSUME NEW t \in Tasks, NEW p, Begins(t, p), Head(p) \notin Heads
      PROVE  ~(At(t, Heads))'
  BY <1>2 DEF Begins, At
<1>3. ASSUME NEW e \in Ends, e = "publish" => driver \in Switching
      PROVE  Head(SetSwitch(driver) \o <<e>>) \notin Heads
  BY <1>0, <1>3, SwitchProgram
<1>4. CASE Samples
  <2>1. Head(Cycle(driver)) \notin Heads
    BY <1>0, CycleProgram
  <2>2. /\ Onward("sampler") /\ run["sampler"].todo = <<>>
        /\ Begins("sampler", Cycle(driver))
    BY <1>4, SamplesEffect
  <2> QED BY <1>0, <1>2, <2>1, <2>2
<1>5. CASE HasSample
  <2>1. /\ Onward("sampler") /\ At("sampler", {"sample"})
        /\ \/ run'["sampler"].todo = <<>>
           \/ /\ Begins("sampler", SetSwitch(driver) \o <<"publish">>)
              /\ driver \in Switching
    BY <1>5, HasSampleEffect
  <2>2. ~(At("sampler", Heads))'
    BY <1>0, <1>1, <1>2, <1>3, <2>1 DEF Ends
  <2> QED BY <1>0, <2>1, <2>2 DEF At
<1>6. CASE Publish
  <2>1. /\ Onward("sampler") /\ At("sampler", {"publish"})
        /\ run'["sampler"].todo = <<>>
    BY <1>6, PublishEffect
  <2> QED BY <1>0, <1>1, <2>1 DEF At
<1>7. CASE Takes
  <2>1. /\ Onward("worker") /\ run["worker"].todo = <<>>
        /\ Begins("worker", SetSwitch(driver) \o <<"ack">>)
    BY <1>7, TakesEffect
  <2>2. ~(At("worker", Heads))'
    BY <1>0, <1>2, <1>3, <2>1 DEF Ends
  <2> QED BY <1>0, <2>1, <2>2
<1>8. CASE Ack
  <2>1. /\ Onward("worker") /\ At("worker", {"ack"})
        /\ run'["worker"].todo = <<>>
    BY <1>8, AckEffect DEF Ack
  <2> QED BY <1>0, <1>1, <2>1 DEF At
<1> QED BY <1>4, <1>5, <1>6, <1>7, <1>8 DEF Proceeds

\* Every step keeps the calm from tasks that are about to disturb it.
LEMMA NextDisturbs ==
    ASSUME Types, Programs, Disturbs, [Next]_vars
    PROVE  Disturbs'
<1>0. \A u \in Tasks :
          /\ At(u, {"forget", "publish", "ack"}) => calm = 0
          /\ At(u, {"echo"}) /\ run[u].reply # NoReply => calm = 0
  BY DEF Disturbs
<1>1. CASE run' = run /\ calm' \in {0, calm}
  BY <1>0, <1>1 DEF Disturbs, At
<1>2. CASE Tick
  BY <1>2, TickIdle DEF Disturbs, At
<1>3. CASE Proceeds
  <2>1. PICK t \in Tasks :
            /\ Onward(t)
            /\ ~(At(t, {"forget", "publish", "ack", "settings",
                        "ask_settings", "sample", "soc"}))'
    BY <1>3, ProceedsHeads
  <2>2. calm' \in {0, calm}
    BY <1>3 DEF Proceeds, Samples, HasSample, Publish, Takes, Ack
  <2>3. ASSUME NEW u \in Tasks \ {t}
        PROVE  /\ (At(u, {"forget", "publish", "ack"}))' => calm' = 0
               /\ (At(u, {"echo"}))' /\ run'[u].reply # NoReply => calm' = 0
    <3>1. run'[u] = run[u]
      BY <2>1, <2>3 DEF Onward, Others
    <3> QED BY <1>0, <2>2, <3>1 DEF At
  <2>4. ~(At(t, {"forget", "publish", "ack"}))' /\ run'[t].reply = NoReply
    BY <2>1 DEF Onward, At
  <2> QED BY <2>3, <2>4 DEF Disturbs
<1>4. ASSUME NEW t \in Tasks, Steps(t) \/ NoAnswer(t)
      PROVE  Disturbs'
  BY <1>4, StepsDisturbs
<1>5. \/ run' = run /\ calm' \in {0, calm}
      \/ Tick \/ Proceeds \/ \E t \in Tasks : Steps(t) \/ NoAnswer(t)
  BY DEF Next, vars, Changes, Dies, HandleNotification, MessageHandler
<1> QED BY <1>1, <1>2, <1>3, <1>4, <1>5

\* What the answer of a calm battery says.
LEMMA CalmAnswer ==
    ASSUME Types, Answered, NEW t \in Tasks, run[t].reply.live, calm # 0
    PROVE  /\ driver # "jk_uart" => Current1(t) = dev.flow
           /\ run[t].reply.sw = dev.sw
           /\ run[t].reply.sw \in Position /\ run[t].reply.sw # Unknown
<1>1. run[t].reply # NoReply /\ calm >= 1
  BY LiveReply DEF Types, TaskState
<1>2. /\ run[t].reply.raw = Wire(driver, dev.flow)
      /\ run[t].reply.sw = dev.sw
  BY <1>1 DEF Answered
<1>3. driver # "jk_uart" => Current1(t) = dev.flow
  BY <1>2, NowRead DEF Current1
<1>4. dev.sw \in Position
  BY DEF Types
<1> QED BY <1>2, <1>3, <1>4, UnknownPosition

\* Every step keeps the answers of calm times the battery's own.
LEMMA NextAnswered ==
    ASSUME Types, Programs, Answered, [Next]_vars
    PROVE  Answered'
<1>0. \A u \in Tasks : run[u].reply # NoReply /\ calm # 0 =>
          /\ run[u].reply.raw = Wire(driver, dev.flow)
          /\ run[u].reply.sw = dev.sw
  BY DEF Answered, Types
<1>1. CASE Tick
  BY <1>1, TickIdle DEF Answered
<1>2. CASE calm' = 0
  BY <1>2 DEF Answered
<1>3. CASE ~Tick /\ calm' # 0
  <2>1. UNCHANGED <<driver, dev, set, calm>> /\ Quiet
    BY <1>3, CalmStep
  <2>2. CASE run' = run
    BY <1>0, <1>3, <2>1, <2>2 DEF Answered
  <2>3. ASSUME NEW t \in Tasks, Onward(t) PROVE Answered'
    BY <1>0, <1>3, <2>1, <2>3 DEF Answered, Onward, Others
  <2>4. ASSUME NEW t \in Tasks, Answer(t) PROVE Answered'
    <3>1. /\ run'[t].reply.raw = Wire(driver, dev.flow)
          /\ run'[t].reply.sw = dev.sw
      BY <2>4, AnswerEffect, NowRead
    <3>2. \A u \in Tasks \ {t} : run'[u] = run[u]
      BY <2>4, AnswerEffect, Zenon DEF Others
    <3>3. ASSUME NEW u \in Tasks, run'[u].reply # NoReply
          PROVE  /\ run'[u].reply.raw = Wire(driver, dev.flow)
                 /\ run'[u].reply.sw = dev.sw
      BY <1>0, <1>3, <2>1, <3>1, <3>2, <3>3
    <3> QED BY <2>1, <3>3 DEF Answered
  <2>5. "sampler" \in Tasks /\ "worker" \in Tasks
    BY DEF Tasks
  <2> QED BY <2>1, <2>2, <2>3, <2>4, <2>5, SamplesEffect, HasSampleEffect,
             PublishEffect, TakesEffect, StepShape
             DEF Quiet, HandleNotification
<1> QED BY <1>1, <1>2, <1>3

\* No step changes the driver.
LEMMA DriverStays ==
    ASSUME [Next]_vars PROVE driver' = driver
BY DEF Next, vars, Changes, Dies, HandleNotification, MessageHandler, Tick,
   Proceeds, Samples, HasSample, Publish, Takes, Ack, Steps, NoAnswer, Answer,
   Reads, Remembers, FetchStatus, Invalidate, Forget, RequestData, Values,
   Reread, Writes, Echoed, Refuses, Rest

\* daly: what is cached has been so for as long as it is cached.
LEMMA NextCached ==
    ASSUME Types, Programs, Answered, Cached, [Next]_vars
    PROVE  Cached'
<1>0. /\ mem.swAge \in Nat /\ calm \in Nat /\ Ttl \in Nat /\ driver' = driver
      /\ mem \in Memory(driver) /\ calm' \in Nat
  BY NextTypes, DriverStays, ReadingsAssumption DEF Types, Memory
<1> SUFFICES ASSUME driver = "daly", mem'.sw # Unknown,
                    mem'.swAge <= Ttl, calm' > mem'.swAge
             PROVE  mem'.sw = dev'.sw
  BY <1>0 DEF Cached
<1>1. CASE Tick
  <2>1. mem'.swAge = After(mem.swAge, Ttl) /\ calm' = After(calm, Ttl)
    BY <1>0, <1>1 DEF Tick, Memory
  <2>2. mem.swAge <= Ttl /\ calm > mem.swAge
    BY <1>0, <2>1 DEF After
  <2> QED BY <1>1, <2>2, TickIdle DEF Cached
<1>2. CASE ~Tick
  <2>0. calm' # 0
    <3>1. mem'.swAge \in Nat
      BY NextTypes, ReadingsAssumption DEF Types, Memory
    <3> QED BY <1>0, <3>1
  <2>1. UNCHANGED <<driver, dev, set, calm>> /\ Quiet
    BY <1>2, <2>0, CalmStep
  <2>2. CASE mem' = mem
    BY <2>1, <2>2 DEF Cached
  <2>3. ASSUME NEW t \in Tasks, Steps(t), mem' # mem
        PROVE  mem'.sw = dev'.sw
    <3>2. CASE Reads(t)
      <4>1. Learns(t) \/ At(t, {"direction"})
        BY <2>3, <3>2, ReadsEffect
      <4>2. ~At(t, {"direction"})
        BY WhoseStep DEF Belongs
      <4>3. mem'.sw = run[t].reply.sw
        BY <1>0, <4>1, <4>2 DEF Learns, Memory
      <4> QED BY <2>0, <2>1, <3>2, <4>3, ReadsEffect, CalmAnswer
    <3>3. CASE Invalidate(t)
      BY <1>0, <2>3, <3>3, InvalidateEffect DEF Memory
    <3>4. ~Forget(t) /\ ~RequestData(t) /\ ~Reread(t) /\ ~Echoed(t)
      BY StepKinds, WhoseStep DEF Belongs
    <3>5. CASE \/ Answer(t) \/ Remembers(t) \/ FetchStatus(t) \/ Values(t)
               \/ Writes(t) \/ Refuses(t)
      BY <2>3, <3>5 DEF Answer, Remembers, FetchStatus, Values, Writes, Refuses
    <3> QED BY <2>3, <3>2, <3>3, <3>4, <3>5 DEF Steps
  <2>4. ~HandleNotification
    BY DEF HandleNotification
  <2> QED BY <2>1, <2>2, <2>3, <2>4 DEF Quiet, Samples, HasSample, Publish,
             Takes
<1> QED BY <1>1, <1>2

\* A task that is not about to forget leaves one that is.
LEMMA StillForgetting ==
    ASSUME Forgetting, NEW t \in Tasks, Others(t), ~At(t, {"forget"})
    PROVE  Forgetting'
<1>1. PICK u \in Tasks : At(u, {"forget"})
  BY DEF Forgetting
<1>2. run'[u] = run[u]
  BY <1>1 DEF Others
<1> QED BY <1>1, <1>2 DEF Forgetting, At

\* jk: what is not so any more is forgotten, while nothing is set.
LEMMA SameForgotten ==
    ASSUME Forgotten, driver = "jk", NEW t \in Tasks, Onward(t),
           ~At(t, {"forget"}), UNCHANGED <<driver, dev, set>>,
           mem'.sw = mem.sw \/ /\ At(t, {"ask_settings"})
                               /\ run[t].reply # NoReply
                               /\ mem'.sw = run[t].reply.sw
    PROVE  Forgotten'
<1>1. Forgetting => Forgetting'
  BY StillForgetting DEF Onward
<1>2. mem'.sw # Unknown /\ Differs(mem'.sw) => Forgetting
  BY DEF Forgotten
<1>3. ASSUME NEW u \in Tasks, (At(u, {"ask_settings"}))',
             run'[u].reply # NoReply, Differs(run'[u].reply.sw)
      PROVE  Forgetting
  <2>1. u # t /\ run'[u] = run[u]
    BY <1>3 DEF Onward, Others
  <2> QED BY <1>3, <2>1 DEF Forgotten, At
<1>4. ASSUME NEW sw PROVE (Differs(sw))' <=> Differs(sw)
  BY DEF Differs
<1> QED BY <1>1, <1>2, <1>3, <1>4 DEF Forgotten, Differs

\* A step of a program leaves jk's cache differing only until the
\* pending command forgets it.
LEMMA StepsForgotten ==
    ASSUME Types, Programs, Forgotten, driver = "jk", NEW t \in Tasks,
           Steps(t) \/ NoAnswer(t)
    PROVE  Forgotten'
<1>0. /\ mem \in Memory(driver) /\ run[t].reply \in Replies(driver)
      /\ \A s : At(t, {s}) => Belongs(driver, s)
  BY WhoseStep DEF Types, TaskState
<1>1. CASE Answer(t)
  <2>1. ~At(t, {"echo"})
    BY <1>0 DEF Belongs
  <2>2. UNCHANGED <<driver, dev, set, mem>>
    BY <1>1, <2>1 DEF Answer
  <2>3. /\ \A u \in Tasks : run'[u].todo = run[u].todo
        /\ run'[t].reply.sw = dev.sw /\ Others(t)
    BY <1>1, AnswerEffect, NowRead DEF Others
  <2>4. /\ Forgetting => Forgetting'
        /\ \A sw : (Differs(sw))' <=> Differs(sw)
    BY <2>2, <2>3 DEF Forgetting, At, Differs
  <2>5. ~(Differs(run[t].reply.sw))'
    BY <2>2, <2>3 DEF Differs
  <2>6. mem'.sw # Unknown /\ (Differs(mem.sw))' => Forgetting'
    BY <2>2, <2>4 DEF Forgotten, Differs
  <2>7. ASSUME NEW u \in Tasks, (At(u, {"ask_settings"}))',
               run'[u].reply # NoReply, (Differs(run[u].reply.sw))'
        PROVE  Forgetting'
    <3>1. u # t
      BY <2>5, <2>7
    <3>2. run'[u] = run[u]
      BY <2>3, <3>1 DEF Others
    <3> QED BY <2>2, <2>4, <2>7, <3>2 DEF Forgotten, At, Differs
  <2> QED BY <2>6, <2>7 DEF Forgotten
<1>2. CASE Writes(t)
  <2>1. /\ Onward(t) /\ mem' = mem /\ driver' = driver
        /\ run[t].todo # <<>> /\ At(t, {"write", "write_both"})
        /\ \/ UNCHANGED <<dev, set>>
           \/ run'[t].todo = Tail(run[t].todo)
    BY <1>2, WritesEffect DEF Writes, Rest
  <2>2. Head(run[t].todo) = "write"
    BY <1>0, <2>1 DEF Belongs, At
  <2>3. CASE UNCHANGED <<dev, set>>
    BY <2>1, <2>2, <2>3, SameForgotten DEF At
  <2>4. CASE run'[t].todo = Tail(run[t].todo)
    <3>1. /\ Tail(run[t].todo) # <<>>
          /\ <<"write", Head(Tail(run[t].todo))>> \in Follows(driver)
      BY <2>1, <2>2, TailProgram DEF Programs, Ends
    <3>2. Head(Tail(run[t].todo)) = "forget"
      BY <3>1, Predecessors
    <3>3. Forgetting'
      BY <2>4, <3>1, <3>2 DEF Forgetting, At
    <3> QED BY <3>3 DEF Forgotten
  <2> QED BY <2>1, <2>3, <2>4
<1>3. CASE Forget(t)
  <2>1. /\ Onward(t) /\ mem'.sw = Unknown
        /\ \A u \in Tasks : At(u, {"ask_settings"}) => ~run[u].reply.live
    BY <1>0, <1>3, ForgetEffect DEF Forget, Memory
  <2>2. ASSUME NEW u \in Tasks, (At(u, {"ask_settings"}))',
               run'[u].reply # NoReply
        PROVE  FALSE
    <3>1. run'[u] = run[u]
      BY <2>1, <2>2 DEF Onward, Others
    <3>2. run[u].reply.live
      BY <2>2, <3>1, LiveReply DEF Types, TaskState
    <3> QED BY <2>1, <2>2, <3>1, <3>2 DEF At
  <2> QED BY <2>1, <2>2 DEF Forgotten
<1>4. CASE ~Answer(t) /\ ~Writes(t) /\ ~Forget(t)
  <2>1. Onward(t) /\ driver' = driver
    BY <1>4, StepShape
  <2>2. ~At(t, {"forget"})
    BY <1>4, StepKinds DEF Steps, At, Asking
  <2>3. /\ ~Invalidate(t) /\ ~RequestData(t) /\ ~Reread(t) /\ ~Echoed(t)
        /\ ~At(t, {"ask_status"}) /\ ~At(t, {"ask_known"})
        /\ ~At(t, {"all"}) /\ ~At(t, {"direction"})
    BY <1>0, StepKinds DEF Belongs
  <2>4. UNCHANGED <<dev, set>>
    BY <1>4, <2>3 DEF Steps, NoAnswer, Reads, Remembers, FetchStatus, Values,
       Refuses
  <2>5. \/ mem'.sw = mem.sw
        \/ /\ At(t, {"ask_settings"}) /\ run[t].reply # NoReply
           /\ mem'.sw = run[t].reply.sw
    <3>1. CASE Reads(t)
      <4>1. \/ mem' = mem
            \/ At(t, {"ask_settings"}) /\ Learns(t)
        BY <2>3, <3>1, ReadsEffect DEF At
      <4>2. run[t].reply # NoReply
        BY <1>0, <3>1, ReadsEffect, LiveReply
      <4> QED BY <1>0, <4>1, <4>2 DEF Learns, Memory
    <3>2. CASE ~Reads(t)
      BY <1>4, <2>3, <3>2 DEF Steps, NoAnswer, Remembers, FetchStatus, Values,
         Refuses
    <3> QED BY <3>1, <3>2
  <2> QED BY <2>1, <2>2, <2>4, <2>5, SameForgotten
<1> QED BY <1>1, <1>2, <1>3, <1>4

\* Every step keeps jk's cache differing only until it is forgotten.
LEMMA NextForgotten ==
    ASSUME Types, Programs, Forgotten, [Next]_vars
    PROVE  Forgotten'
<1>0. driver' = driver
  BY DriverStays
<1> SUFFICES ASSUME driver = "jk" PROVE Forgotten'
  BY <1>0 DEF Forgotten
<1>1. CASE UNCHANGED <<run, mem, dev, set>>
  BY <1>0, <1>1 DEF Forgotten, Differs, Forgetting, At
<1>2. CASE Tick
  <2>1. UNCHANGED <<driver, dev, set, run>> /\ mem'.sw = mem.sw
    BY <1>2, TickIdle
  <2> QED BY <2>1 DEF Forgotten, Differs, Forgetting, At
<1>3. CASE Changes
  <2>1. /\ dev \in [flow : {-1, 1}, sw : Position]
        /\ set \in [Switches -> SUBSET BOOLEAN]
        /\ UNCHANGED <<run, mem>>
    BY <1>3 DEF Types, Changes
  <2>2. ASSUME NEW s \in Switches, set'[s] # {}
        PROVE  dev'.sw[s] = dev.sw[s] /\ set[s] # {}
    <3>1. CASE dev' = [dev EXCEPT !.flow = -@] /\ set' = set
      BY <2>1, <2>2, <3>1
    <3>2. ASSUME NEW u \in Switches, dev' = [dev EXCEPT !.sw[u] = ~@],
                 set' = [set EXCEPT ![u] = {}]
          PROVE  dev'.sw[s] = dev.sw[s] /\ set[s] # {}
      <4>1. u # s /\ set[s] # {}
        BY <2>1, <2>2, <3>2
      <4>2. dev'.sw = [dev.sw EXCEPT ![u] = ~dev.sw[u]]
        BY <2>1, <3>2
      <4> QED BY <2>1, <4>1, <4>2 DEF Position
    <3> QED BY <1>3, <3>1, <3>2 DEF Changes
  <2>4. Forgetting' <=> Forgetting
    BY <2>1 DEF Forgetting, At
  <2>5. mem.sw # Unknown /\ (Differs(mem.sw))' => Forgetting'
    <3>1. (Differs(mem.sw))' => Differs(mem.sw)
      BY <2>1, <2>2 DEF Differs
    <3> QED BY <2>4, <3>1 DEF Forgotten
  <2>6. ASSUME NEW u \in Tasks, At(u, {"ask_settings"}),
               run[u].reply # NoReply, (Differs(run[u].reply.sw))'
        PROVE  Forgetting'
    <3>1. Differs(run[u].reply.sw)
      BY <2>1, <2>2, <2>6 DEF Differs
    <3> QED BY <2>4, <2>6, <3>1 DEF Forgotten
  <2> QED BY <2>1, <2>5, <2>6 DEF Forgotten, At
<1>4. CASE Proceeds
  <2>1. PICK t \in Tasks :
            /\ Onward(t)
            /\ run[t].todo = <<>> \/ At(t, {"sample", "publish", "ack"})
    BY <1>4, ProceedsHeads
  <2>2. UNCHANGED <<dev, set, mem>>
    BY <1>4 DEF Proceeds, Samples, HasSample, Publish, Takes, Ack
  <2>3. ~At(t, {"forget"})
    BY <2>1 DEF At
  <2> QED BY <1>0, <2>1, <2>2, <2>3, SameForgotten
<1>5. ASSUME NEW t \in Tasks, Steps(t) \/ NoAnswer(t)
      PROVE  Forgotten'
  BY <1>5, StepsForgotten
<1>6. \/ UNCHANGED <<run, mem, dev, set>> \/ Tick \/ Changes \/ Proceeds
      \/ \E t \in Tasks : Steps(t) \/ NoAnswer(t)
  BY DEF Next, vars, Dies, HandleNotification, MessageHandler
<1> QED BY <1>1, <1>2, <1>3, <1>4, <1>5, <1>6

\* victron: a value that is fresh is that of a calm battery.
LEMMA NextNotified ==
    ASSUME Types, Programs, Answered, Notified, [Next]_vars
    PROVE  Notified'
<1>0. /\ driver' = driver /\ mem \in Memory(driver)
      /\ mem.age \in Nat /\ calm \in Nat /\ Ttl \in Nat /\ Ttl > 0
      /\ Expiry \in Nat /\ Expiry > 0 /\ mem'.age \in Nat /\ calm' \in Nat
  BY NextTypes, DriverStays, TypedTasks DEF Types, Memory
<1> SUFFICES ASSUME driver = "victron", mem'.age <= 1, calm' > mem'.age
             PROVE  mem'.flow = dev'.flow
  BY <1>0 DEF Notified
<1>1. CASE Tick
  <2>1. mem'.age = After(mem.age, Expiry) /\ calm' = After(calm, Ttl)
    BY <1>0, <1>1 DEF Tick, Memory
  <2>2. mem.age <= 1 /\ calm > mem.age
    BY <1>0, <2>1 DEF After
  <2> QED BY <1>1, <2>2, TickIdle DEF Notified
<1>2. CASE ~Tick
  <2>0. calm' # 0
    BY <1>0
  <2>1. UNCHANGED <<driver, dev, set, calm>> /\ Quiet
    BY <1>2, <2>0, CalmStep
  <2>2. CASE mem' = mem
    BY <2>1, <2>2 DEF Notified
  <2>3. CASE HandleNotification
    <3>1. mem'.flow = Current(driver, Wire(driver, dev.flow))
      BY <1>0, <2>3 DEF HandleNotification, Memory
    <3> QED BY <2>1, <3>1, NowRead
  <2>4. ASSUME NEW t \in Tasks, Steps(t), mem' # mem
        PROVE  mem'.flow = dev'.flow
    <3>1. CASE Reread(t)
      BY <2>0, <2>1, <3>1, RereadEffect, CalmAnswer
    <3>2. \A s : At(t, {s}) => Belongs(driver, s)
      BY WhoseStep
    <3>3. /\ ~Invalidate(t) /\ ~RequestData(t) /\ ~Forget(t) /\ ~Echoed(t)
          /\ ~FetchStatus(t) /\ ~Writes(t)
      BY <3>2, StepKinds, WritesEffect DEF Belongs, At
    <3>4. ~Reads(t)
      BY <3>2, StepKinds DEF Belongs, At, Asking
    <3> QED BY <2>4, <3>1, <3>3, <3>4 DEF Steps, Answer, Remembers, Values,
               Refuses
  <2> QED BY <2>1, <2>2, <2>3, <2>4 DEF Quiet, Samples, HasSample, Publish,
             Takes
<1> QED BY <1>1, <1>2

\* supervolt: what it has parsed, or is about to, is in time.
LEMMA NextParsed ==
    ASSUME Types, Programs, ParsedInTime, [Next]_vars
    PROVE  ParsedInTime'
<1>0. /\ driver' = driver /\ "sampler" \in Tasks /\ "worker" \in Tasks
      /\ calm \in Nat /\ calm' \in Nat /\ Ttl \in Nat /\ Ttl > 0
      /\ driver \in AllDrivers
  BY NextTypes, DriverStays, TypedTasks DEF Types, Tasks
<1> SUFFICES ASSUME driver = "supervolt",
                    calm' >= 2 \/ (calm' >= 1 /\ HasAsked')
             PROVE  UpToDate'
  BY <1>0 DEF ParsedInTime
<1>1. CASE Tick
  <2>1. calm' = After(calm, Ttl) /\ sampled' = "no" /\ sampled # "no"
    BY <1>1 DEF Tick
  <2>2. ~(At("sampler", Names \ {"request"}))'
    BY <1>0, <1>1, TickIdle DEF At
  <2>3. calm >= 1 /\ HasAsked
    BY <1>0, <2>1, <2>2 DEF After, HasAsked
  <2>4. UpToDate
    BY <1>0, <2>3 DEF ParsedInTime
  <2> QED BY <1>0, <1>1, <2>4, TickIdle DEF UpToDate
<1>2. CASE ~Tick
  <2>0. calm' # 0
    BY <1>0
  <2>1. UNCHANGED <<driver, dev, set, calm>> /\ Quiet
    BY <1>2, <2>0, CalmStep
  <2>2. CASE mem' = mem /\ (HasAsked' => HasAsked)
    <3>1. UpToDate
      BY <1>0, <2>1, <2>2 DEF ParsedInTime
    <3> QED BY <2>1, <2>2, <3>1 DEF UpToDate
  <2>3. ASSUME At("sampler", Names \ {"request"}) PROVE HasAsked
    BY <2>3 DEF HasAsked
  <2>4. ASSUME run'["sampler"] = run["sampler"], sampled' = sampled
        PROVE  HasAsked' => HasAsked
    BY <2>4 DEF HasAsked, At
  <2>5. CASE UNCHANGED <<run, mem, topic, sampled>>
    BY <2>2, <2>4, <2>5
  <2>6. ~HandleNotification
    BY DEF HandleNotification
  <2>7. CASE Samples
    <3>1. /\ Begins("sampler", Cycle(driver)) /\ mem' = mem
          /\ sampled' = sampled
      BY <2>7, SamplesEffect DEF Samples
    <3>2. /\ Head(Cycle(driver)) \in {"hear", "all", "status", "analog",
                                      "request", "values"}
          /\ Belongs(driver, Head(Cycle(driver)))
      BY <1>0, CycleProgram, TailProgram
    <3>3. Head(Cycle(driver)) = "request"
      BY <3>2 DEF Belongs
    <3>4. ~(At("sampler", Names \ {"request"}))'
      BY <3>1, <3>3 DEF At, Begins
    <3> QED BY <2>2, <3>1, <3>4 DEF HasAsked
  <2>8. CASE HasSample \/ Publish
    <3>1. mem' = mem /\ At("sampler", {"sample", "publish"})
      BY <2>8 DEF HasSample, Publish, At
    <3>2. At("sampler", Names \ {"request"})
      BY <3>1 DEF At, Names
    <3> QED BY <2>2, <2>3, <3>1, <3>2
  <2>9. CASE Takes
    <3>1. mem' = mem /\ sampled' = sampled /\ run'["sampler"] = run["sampler"]
      BY <1>0, <2>9, TakesEffect DEF Takes, Onward, Others
    <3> QED BY <2>2, <2>4, <3>1
  <2>10. ASSUME NEW t \in Tasks, Steps(t) PROVE UpToDate'
    <3>1. \A s : At(t, {s}) => Belongs(driver, s)
      BY WhoseStep
    <3>2. /\ ~Remembers(t) /\ ~FetchStatus(t) /\ ~Invalidate(t) /\ ~Forget(t)
          /\ ~Values(t) /\ ~Reread(t) /\ ~Echoed(t) /\ ~At(t, Asking)
          /\ ~At(t, {"write"}) /\ ~At(t, {"write_both"})
      BY <3>1, StepKinds DEF Belongs, At, Asking
    <3>3. ~Answer(t) /\ ~Reads(t) /\ ~Writes(t)
      BY <3>2, StepKinds DEF Answer, Waits, At
    <3>4. CASE RequestData(t)
      <4>1. \/ /\ mem'.flow = Current(driver, Wire(driver, dev.flow))
               /\ mem'.late = NoReply
            \/ mem'.late = Snapshot
        BY <2>0, <3>4, RequestDataEffect
      <4>2. ~NoReply.live
        BY DEF NoReply
      <4> QED BY <2>1, <4>1, <4>2, NowRead DEF UpToDate
    <3>5. CASE Refuses(t)
      <4>1. /\ mem' = mem /\ At(t, {"refuse"}) /\ Onward(t)
            /\ t # "sampler" => sampled' = sampled
        BY <3>5, FailsEffect DEF Refuses
      <4>2. CASE t = "sampler"
        <5>1. At("sampler", Names \ {"request"})
          BY <4>1, <4>2 DEF At, Names
        <5> QED BY <2>2, <2>3, <4>1, <5>1
      <4>3. CASE t # "sampler"
        <5>1. run'["sampler"] = run["sampler"]
          BY <1>0, <4>1, <4>3 DEF Onward, Others
        <5> QED BY <2>2, <2>4, <4>1, <4>3, <5>1
      <4> QED BY <4>2, <4>3
    <3> QED BY <2>10, <3>2, <3>3, <3>4, <3>5 DEF Steps
  <2> QED BY <2>1, <2>5, <2>6, <2>7, <2>8, <2>9, <2>10 DEF Quiet
<1> QED BY <1>1, <1>2

\* How many ticks a driver may be behind, in numbers.
LEMMA BehindTicks ==
    ASSUME Types
    PROVE  /\ Behind(driver) \in Nat /\ Behind(driver) >= 1
           /\ driver = "daly" => Behind(driver) = Ttl + 1
           /\ driver \in {"supervolt", "victron"} => Behind(driver) = 2
<1>1. Ttl \in Nat
  BY TypedTasks
<1>2. CASE driver = "daly"
  BY <1>1, <1>2 DEF Behind
<1>3. CASE driver \in {"supervolt", "victron"}
  BY <1>3 DEF Behind
<1>4. CASE driver \notin {"daly", "supervolt", "victron"}
  BY <1>4 DEF Behind
<1> QED BY <1>2, <1>3, <1>4

\* What the proofs of ReadRight use.
Calm == Answered /\ Disturbs /\ Cached /\ Forgotten /\ Notified /\ ParsedInTime

\* The sampler's step to its next query, or to its sample.
LEMMA SamplerTail ==
    ASSUME Types, Programs, Steps("sampler"), ~Answer("sampler"),
           NEW b \in {"settings", "ask_settings", "soc", "sample"},
           (At("sampler", {b}))'
    PROVE  LET p == run["sampler"].todo
           IN /\ p # <<>> /\ Belongs(driver, Head(p))
              /\ \/ /\ run'["sampler"].todo = Tail(p)
                    /\ <<Head(p), b>> \in Follows(driver)
                 \/ b = "ask_settings" /\ Head(p) = "settings"
<1> DEFINE p == run["sampler"].todo
<1>1. "sampler" \in Tasks
  BY DEF Tasks
<1>2. p # <<>> /\ Leaves("sampler") /\ driver' = driver
  BY <1>1, StepShape
<1>3. Program(driver, p)
  BY <1>1 DEF Programs
<1>4. run'["sampler"].todo # <<>> /\ Head(run'["sampler"].todo) = b
  BY DEF At
<1>5. Belongs(driver, Head(p))
  BY <1>2, <1>3, TailProgram
<1>6. CASE run'["sampler"].todo = Tail(p)
  <2>1. <<Head(p), b>> \in Follows(driver)
    BY <1>2, <1>3, <1>4, <1>6, TailProgram
  <2> QED BY <1>2, <1>5, <1>6, <2>1
<1>7. CASE ~(run'["sampler"].todo = Tail(p))
  <2>1. b = "ask_settings" /\ Head(p) = "settings"
    BY <1>2, <1>4, <1>7 DEF Leaves, Asks, At
  <2> QED BY <1>2, <1>5, <2>1
<1> QED BY <1>6, <1>7

\* What it has read of the current.
LEMMA SamplerFlow ==
    ASSUME Types, Programs, Calm, ReadRight, Steps("sampler"),
           ~Answer("sampler"), UNCHANGED <<driver, dev, set, calm>>,
           calm >= Behind(driver), driver # "jk_uart",
           (At("sampler", {"settings", "ask_settings", "sample"}))'
    PROVE  run'["sampler"].flow = dev.flow
<1> DEFINE p == run["sampler"].todo
           a == Head(p)
<1>0. /\ "sampler" \in Tasks /\ calm \in Nat /\ calm >= 1 /\ calm # 0
      /\ driver \in {"supervolt", "victron"} => calm >= 2
  BY BehindTicks, TypedTasks DEF Tasks, Types
<1>1. PICK b \in {"settings", "ask_settings", "sample"} :
          (At("sampler", {b}))'
  BY DEF At
<1>2. /\ p # <<>> /\ Belongs(driver, a)
      /\ \/ /\ run'["sampler"].todo = Tail(p)
            /\ <<a, b>> \in Follows(driver)
         \/ b = "ask_settings" /\ a = "settings"
  BY <1>1, SamplerTail
<1>3. run'["sampler"].todo # <<>> /\ Head(run'["sampler"].todo) = b
  BY <1>1 DEF At
<1>4. a \in {"hear", "settings", "ask_settings", "all", "soc", "direction",
             "request", "values", "reread"}
  BY <1>2, Predecessors
<1>5. At("sampler", {a})
  BY <1>2 DEF At
<1>6. a \in {"settings", "ask_settings"} => run["sampler"].flow = dev.flow
  BY <1>5 DEF ReadRight, At
<1>7. CASE a \in {"hear", "all", "soc", "direction", "ask_settings"}
  <2>1. Reads("sampler")
    BY <1>5, <1>7, StepKinds DEF Steps, At, Asking
  <2>2. CASE a \in {"hear", "all", "soc", "direction"}
    <3>1. run'["sampler"].flow = Current1("sampler")
      BY <1>0, <1>5, <2>1, <2>2, ReadsEffect DEF At
    <3> QED BY <1>0, <2>1, <3>1, ReadsEffect, CalmAnswer DEF Calm
  <2>3. CASE a = "ask_settings"
    <3>1. run'["sampler"].flow = run["sampler"].flow
      BY <1>0, <1>5, <2>1, <2>3, ReadsEffect DEF At
    <3> QED BY <1>6, <2>3, <3>1
  <2> QED BY <1>7, <2>2, <2>3
<1>8. CASE a = "settings"
  <2>1. Remembers("sampler")
    BY <1>5, <1>8, StepKinds DEF Steps, At, Asking
  <2> QED BY <1>0, <1>6, <1>8, <2>1, RemembersEffect
<1>9. CASE a = "request"
  <2>1. RequestData("sampler")
    BY <1>5, <1>9, StepKinds DEF Steps, At, Asking
  <2>2. driver = "supervolt"
    BY <1>2, <1>9 DEF Belongs
  <2>3. UpToDate
    <3>1. calm >= 2
      BY <1>0, <2>2
    <3>2. ParsedInTime
      BY DEF Calm
    <3> QED BY <2>2, <3>1, <3>2 DEF ParsedInTime
  <2>4. Parsed = dev.flow /\ Current(driver, Wire(driver, dev.flow)) = dev.flow
    BY <2>2, <2>3, NowRead DEF UpToDate, Parsed
  <2>5. mem'.flow = dev.flow
    BY <1>0, <2>1, <2>4, RequestDataEffect
  <2>6. run'["sampler"].flow = mem'.flow
    BY <1>0, <1>3, <2>1, RequestDataEffect
  <2> QED BY <2>5, <2>6
<1>10. CASE a = "values"
  <2>1. Values("sampler")
    BY <1>5, <1>10, StepKinds DEF Steps, At, Asking
  <2>2. driver = "victron"
    BY <1>2, <1>10 DEF Belongs
  <2>3. run'["sampler"].flow = mem.flow /\ mem.age <= 1
    BY <1>0, <1>3, <2>1, ValuesEffect DEF Asks
  <2>4. mem.age \in Nat
    BY TypedTasks DEF Types, Memory
  <2>5. mem.flow = dev.flow
    BY <1>0, <2>2, <2>3, <2>4 DEF Calm, Notified
  <2> QED BY <2>3, <2>5
<1>11. CASE a = "reread"
  <2>1. Reread("sampler")
    BY <1>5, <1>11, StepKinds DEF Steps, At, Asking
  <2> QED BY <1>0, <2>1, RereadEffect, CalmAnswer DEF Calm
<1> QED BY <1>4, <1>7, <1>8, <1>9, <1>10, <1>11

\* And of the switches.
LEMMA SamplerSwitches ==
    ASSUME Types, Programs, Calm, ReadRight, Steps("sampler"),
           ~Answer("sampler"), UNCHANGED <<driver, dev, set, calm>>,
           calm >= Behind(driver), driver \in Showing,
           (At("sampler", {"soc", "sample"}))'
    PROVE  /\ run'["sampler"].sw # Unknown
           /\ \A s \in Followed : run'["sampler"].sw[s] = dev.sw[s]
<1> DEFINE p == run["sampler"].todo
           a == Head(p)
<1>0. /\ "sampler" \in Tasks /\ calm \in Nat /\ calm >= 1 /\ calm # 0
      /\ driver = "daly" => calm >= Ttl + 1
      /\ Ttl \in Nat /\ mem.swAge \in Nat
  BY BehindTicks, TypedTasks DEF Tasks, Types, Memory
<1>1. PICK b \in {"soc", "sample"} : (At("sampler", {b}))'
  BY DEF At
<1>2. /\ p # <<>> /\ Belongs(driver, a)
      /\ run'["sampler"].todo = Tail(p) /\ <<a, b>> \in Follows(driver)
  BY <1>1, SamplerTail
<1>3. run'["sampler"].todo # <<>> /\ Head(run'["sampler"].todo) = b
  BY <1>1 DEF At
<1>4. a \in {"status", "ask_status", "settings", "ask_settings", "all", "soc",
             "direction"}
  <2>1. a \in {"status", "ask_status", "settings", "ask_settings", "all",
               "soc", "direction", "request", "values", "reread"}
    BY <1>2, Predecessors
  <2>2. a \notin {"request", "values", "reread"}
    BY <1>2 DEF Belongs, Showing, Switching
  <2> QED BY <2>1, <2>2
<1>5. At("sampler", {a})
  BY <1>2 DEF At
<1>6. CASE a \in {"ask_status", "ask_settings", "all", "direction"}
  <2>1. Reads("sampler")
    BY <1>5, <1>6, StepKinds DEF Steps, At, Asking
  <2>2. run'["sampler"].sw = run["sampler"].reply.sw
    BY <1>0, <1>5, <1>6, <2>1, ReadsEffect DEF At, Learns
  <2> QED BY <1>0, <2>1, <2>2, ReadsEffect, CalmAnswer DEF Calm
<1>7. CASE a = "soc"
  <2>1. Reads("sampler")
    BY <1>5, <1>7, StepKinds DEF Steps, At, Asking
  <2>2. run'["sampler"].sw = run["sampler"].sw
    BY <1>0, <1>5, <1>7, <2>1, ReadsEffect DEF At
  <2>3. /\ run["sampler"].sw # Unknown
        /\ \A s \in Followed : run["sampler"].sw[s] = dev.sw[s]
    BY <1>5, <1>7 DEF ReadRight, At
  <2> QED BY <2>2, <2>3
<1>8. CASE a = "status"
  <2>1. FetchStatus("sampler")
    BY <1>5, <1>8, StepKinds DEF Steps, At, Asking
  <2>2. driver = "daly"
    BY <1>2, <1>8 DEF Belongs
  <2>3. CASE /\ mem.sw # Unknown /\ mem.swAge <= Ttl
             /\ run'["sampler"].sw = mem.sw
    <3>1. mem.sw = dev.sw
      BY <1>0, <2>2, <2>3 DEF Calm, Cached
    <3> QED BY <2>3, <3>1
  <2>4. ~Asks("sampler", "ask_status")
    BY <1>1, <1>3 DEF Asks
  <2> QED BY <1>0, <2>1, <2>3, <2>4, FetchStatusEffect
<1>9. CASE a = "settings"
  <2>1. Remembers("sampler")
    BY <1>5, <1>9, StepKinds DEF Steps, At, Asking
  <2>2. driver = "jk"
    BY <1>2, <1>9 DEF Belongs
  <2>3. mem.sw # Unknown /\ run'["sampler"].sw = mem.sw
    BY <1>0, <1>1, <1>3, <2>1, RemembersEffect DEF Asks
  <2>4. ~Forgetting
    BY <1>0 DEF Calm, Disturbs, Forgetting, At
  <2>5. ~Differs(mem.sw)
    BY <2>2, <2>3, <2>4 DEF Calm, Forgotten
  <2> QED BY <2>2, <2>3, <2>5 DEF Differs, Followed
<1> QED BY <1>4, <1>6, <1>7, <1>8, <1>9

\* What the sampler has read of a calm battery stays right.
LEMMA NextReadRight ==
    ASSUME Types, Programs, Calm, ReadRight, [Next]_vars
    PROVE  ReadRight'
<1>0. /\ driver' = driver /\ "sampler" \in Tasks /\ "worker" \in Tasks
      /\ calm' \in Nat /\ Behind(driver) \in Nat /\ Behind(driver) >= 1
  BY NextTypes, DriverStays, TypedTasks, BehindTicks DEF Types, Tasks
<1>1. CASE calm' < Behind(driver)
  BY <1>0, <1>1 DEF ReadRight
<1>2. CASE Tick
  <2>1. ~(At("sampler", {"settings", "ask_settings", "sample"}))'
        /\ ~(At("sampler", {"soc", "sample"}))'
    BY <1>0, <1>2, TickIdle DEF At
  <2> QED BY <2>1 DEF ReadRight
<1>3. CASE ~Tick /\ calm' >= Behind(driver)
  <2>0. calm' # 0
    BY <1>0, <1>3
  <2>1. UNCHANGED <<driver, dev, set, calm>> /\ Quiet
    BY <1>3, <2>0, CalmStep
  <2>2. ASSUME run'["sampler"].todo = run["sampler"].todo,
               run'["sampler"].flow = run["sampler"].flow,
               run'["sampler"].sw = run["sampler"].sw
        PROVE  ReadRight'
    BY <2>1, <2>2 DEF ReadRight, At, Followed
  <2>3. ASSUME run'["sampler"] = run["sampler"] PROVE ReadRight'
    BY <2>2, <2>3
  <2>4. CASE Proceeds
    <3>1. PICK t \in Tasks :
              /\ Onward(t)
              /\ ~(At(t, {"forget", "publish", "ack", "settings",
                          "ask_settings", "sample", "soc"}))'
      BY <2>4, ProceedsHeads
    <3>2. CASE t = "sampler"
      BY <3>1, <3>2 DEF ReadRight, At
    <3>3. CASE t # "sampler"
      <4>1. run'["sampler"] = run["sampler"]
        BY <1>0, <3>1, <3>3 DEF Onward, Others
      <4> QED BY <2>3, <4>1
    <3> QED BY <3>2, <3>3
  <2>5. ASSUME NEW t \in Tasks, Steps(t) PROVE ReadRight'
    <3>1. CASE Answer(t)
      <4>1. CASE t = "sampler"
        BY <2>2, <3>1, <4>1, AnswerEffect
      <4>2. CASE t # "sampler"
        <5>1. \A u \in Tasks \ {t} : run'[u] = run[u]
          BY <3>1, AnswerEffect, Zenon DEF Others
        <5>2. run'["sampler"] = run["sampler"]
          BY <1>0, <4>2, <5>1
        <5> QED BY <2>3, <5>2
      <4> QED BY <4>1, <4>2
    <3>2. CASE ~Answer(t) /\ t # "sampler"
      <4>1. run'["sampler"] = run["sampler"]
        BY <1>0, <2>5, <3>2, StepShape DEF Onward, Others
      <4> QED BY <2>3, <4>1
    <3>3. CASE ~Answer(t) /\ t = "sampler"
      <4>1. driver # "jk_uart"
            /\ (At("sampler", {"settings", "ask_settings", "sample"}))'
            => run'["sampler"].flow = dev.flow
        BY <1>3, <2>1, <2>5, <3>3, SamplerFlow
      <4>2. driver \in Showing /\ (At("sampler", {"soc", "sample"}))'
            => /\ run'["sampler"].sw # Unknown
               /\ \A s \in Followed : run'["sampler"].sw[s] = dev.sw[s]
        BY <1>3, <2>1, <2>5, <3>3, SamplerSwitches
      <4> QED BY <2>1, <4>1, <4>2 DEF ReadRight, Followed
    <3> QED BY <3>1, <3>2, <3>3
  <2> QED BY <2>1, <2>3, <2>4, <2>5 DEF Quiet, HandleNotification, Proceeds
<1> QED BY <1>0, <1>1, <1>2, <1>3

\* What is published is what was read, and stays right.
LEMMA NextCatchesUp ==
    ASSUME Types, Programs, Calm, ReadRight, CatchesUp, [Next]_vars
    PROVE  CatchesUp'
<1>0. /\ driver' = driver /\ "sampler" \in Tasks
      /\ calm' \in Nat /\ Behind(driver) \in Nat /\ Behind(driver) >= 1
  BY NextTypes, DriverStays, TypedTasks, BehindTicks DEF Types, Tasks
<1>1. CASE calm' < Behind(driver)
  BY <1>0, <1>1 DEF CatchesUp
<1>2. CASE Tick
  BY <1>2 DEF Tick, CatchesUp
<1>3. CASE ~Tick /\ calm' >= Behind(driver)
  <2>0. calm' # 0
    BY <1>0, <1>3
  <2>1. UNCHANGED <<driver, dev, set, calm>> /\ Quiet
    BY <1>3, <2>0, CalmStep
  <2>2. CASE topic' = topic /\ (sampled' = "ok" => sampled = "ok")
    BY <2>1, <2>2 DEF CatchesUp, Followed
  <2>3. CASE HasSample
    <3>1. CASE At("sampler", {"sample"}) /\ topic' = Published(run["sampler"])
      <4>1. driver # "jk_uart" => run["sampler"].flow = dev.flow
        BY <1>3, <2>1, <3>1 DEF ReadRight, At
      <4>2. driver \in Showing =>
                /\ run["sampler"].sw # Unknown
                /\ \A s \in Followed : run["sampler"].sw[s] = dev.sw[s]
        BY <1>3, <2>1, <3>1 DEF ReadRight, At
      <4>3. /\ topic'.flow = run["sampler"].flow
            /\ driver \in Showing => topic'.sw = run["sampler"].sw
        BY <1>0, <3>1, <4>2, PublishedType
      <4> QED BY <2>1, <4>1, <4>2, <4>3 DEF CatchesUp, Followed
    <3> QED BY <2>2, <2>3, <3>1, HasSampleEffect
  <2>4. ~Publish
    BY <1>0, <2>0, <2>1 DEF Calm, Disturbs, Publish, At
  <2>5. ASSUME NEW t \in Tasks, Steps(t)
        PROVE  topic' = topic /\ (sampled' = "ok" => sampled = "ok")
    BY <2>5, StepShape DEF Answer
  <2> QED BY <2>1, <2>2, <2>3, <2>4, <2>5 DEF Quiet, HandleNotification,
             Samples, Takes
<1> QED BY <1>0, <1>1, <1>2, <1>3

\* No time has been calm initially.
LEMMA InitCalm ==
    ASSUME Init PROVE Calm /\ ReadRight /\ CatchesUp
<1>1. /\ \A t \in Tasks : run[t].todo = <<>> /\ run[t].reply = NoReply
      /\ calm = 0 /\ mem.sw = Unknown /\ mem.swAge = 0 /\ mem.age = 0
      /\ sampled = "no" /\ "sampler" \in Tasks
  BY DEF Init, Tasks, Idle
<1>2. \A steps : \A t \in Tasks : ~At(t, steps)
  BY <1>1 DEF At
<1>3. Types
  BY InitTypes
<1>4. 0 < Behind(driver)
  BY <1>3, BehindTicks
<1>5. Calm
  BY <1>1, <1>2 DEF Calm, Answered, Disturbs, Cached, Forgotten, Notified,
     ParsedInTime
<1> QED BY <1>1, <1>2, <1>5 DEF ReadRight, CatchesUp

\* What the battery has been doing for a while is what a sample says.
THEOREM TopicsCatchUp == Spec => []CatchesUp
<1> DEFINE IInv == Types /\ Programs /\ Calm /\ ReadRight /\ CatchesUp
<1>1. Init => IInv
  BY InitTypes, InitCalm
<1>2. IInv /\ [Next]_vars => IInv'
  <2> SUFFICES ASSUME IInv, [Next]_vars PROVE IInv'
    OBVIOUS
  <2>1. Calm'
    BY NextAnswered, NextDisturbs, NextCached, NextForgotten, NextNotified,
       NextParsed DEF Calm
  <2> QED BY <2>1, NextTypes, NextReadRight, NextCatchesUp
<1> QED BY <1>1, <1>2, PTL DEF Spec

=============================================================================
