------------------------ MODULE DriverAnswersProofs -------------------------
(***************************************************************************)
(* For all drivers, any noise and any number of faults: the link and the   *)
(* buffers hold bytes, an answer that names its command is taken for no    *)
(* other, and a driver that checks its frames hands on what the device     *)
(* sent as one answer.                                                     *)
(*                                                                         *)
(* The handlers are loops over bytes, so the proofs are by induction, on   *)
(* the rounds of a loop.  It is stated with sets: a set of numbers that    *)
(* holds 0, and n + 1 with n, holds all of them.                           *)
(*                                                                         *)
(* The last part is about the link, which cuts what a device sends where   *)
(* it likes: for the handlers that look for frames until none is left, it  *)
(* makes no difference where.                                              *)
(***************************************************************************)
EXTENDS DriverAnswers, FiniteSetTheorems, SequenceTheorems,
        WellFoundedInduction, TLAPS

-----------------------------------------------------------------------------
(* Numbers                                                                 *)

Less == {r \in Nat \X Nat : r[1] < r[2]}

\* There is no infinite descent in the numbers.
LEMMA LessFounded == IsWellFoundedOn(Less, Nat)
<1>1. OpToRel(<, Nat) = Less
  BY DEF OpToRel, Less
<1> QED BY <1>1, NatLessThanWellFounded

\* A set of numbers has a least one.
LEMMA Least ==
    ASSUME NEW T, T \subseteq Nat, T # {}
    PROVE  \E x \in T : \A y \in T : x <= y
<1>1. \E x \in T : \A y \in T : <<y, x>> \notin Less
  BY LessFounded, WFMin
<1>2. \A x, y \in Nat : <<y, x>> \in Less <=> y < x
  BY DEF Less
<1>3. PICK x \in T : \A y \in T : <<y, x>> \notin Less
  BY <1>1
<1>4. ASSUME NEW y \in T PROVE x <= y
  <2>1. x \in Nat /\ y \in Nat /\ <<y, x>> \notin Less
    BY <1>3
  <2>2. ~(y < x)
    BY <1>2, <2>1
  <2> QED BY <2>1, <2>2
<1> QED BY <1>4

\* Induction.
LEMMA Induction ==
    ASSUME NEW S, 0 \in S, \A n \in Nat : n \in S => n + 1 \in S
    PROVE  Nat \subseteq S
<1> DEFINE T == Nat \ S
<1>1. SUFFICES ASSUME T # {} PROVE FALSE
  OBVIOUS
<1>2. PICK x \in T : \A y \in T : x <= y
  <2> HIDE DEF T
  <2> QED BY <1>1, Least DEF T
<1>3. x # 0 /\ x - 1 \in Nat /\ x - 1 \notin T
  BY <1>2
<1> QED BY <1>2, <1>3

\* Min and Max of a set between two numbers.
LEMMA MinIs ==
    ASSUME NEW T, T \subseteq Nat, T # {}
    PROVE  Min(T) \in T /\ \A y \in T : Min(T) <= y
<1>1. \E x \in T : \A y \in T : x =< y
  BY Least
<1> QED BY <1>1 DEF Min

\* Max of a set of numbers up to a bound.
LEMMA MaxIs ==
    ASSUME NEW n \in Nat, NEW T, T \subseteq 0..n, T # {}
    PROVE  Max(T) \in T /\ \A y \in T : Max(T) >= y
<1> DEFINE D == {n - y : y \in T}
<1>1. D \subseteq Nat /\ D # {}
  <2>1. \A y \in T : n - y \in Nat
    OBVIOUS
  <2>2. D \subseteq Nat
    BY <2>1
  <2>3. PICK y : y \in T
    OBVIOUS
  <2>4. n - y \in D
    BY <2>3
  <2> QED BY <2>2, <2>4
<1>2. \E d \in D : \A e \in D : d <= e
  <2> HIDE DEF D
  <2> QED BY <1>1, Least
<1>3. PICK x \in T : \A e \in D : n - x <= e
  BY <1>2
<1>4. \A y \in T : x >= y
  <2> SUFFICES ASSUME NEW y \in T PROVE x >= y
    OBVIOUS
  <2>1. n - y \in D
    OBVIOUS
  <2>2. n - x <= n - y /\ x \in 0..n /\ y \in 0..n
    BY <1>3, <2>1
  <2> QED BY <2>2
<1> QED BY <1>4 DEF Max

-----------------------------------------------------------------------------
(* Pieces of sequences                                                     *)

\* What follows an index is a sequence, whatever the length.
LEMMA FromType ==
    ASSUME NEW S, NEW b \in Seq(S), NEW i \in Nat \ {0}
    PROVE  From(b, i) \in Seq(S)
<1>1. \A j \in i..Len(b) : b[j] \in S
  OBVIOUS
<1> QED BY <1>1, SubSeqProperties DEF From

\* How much that is.
LEMMA FromLen ==
    ASSUME NEW b \in Seq(Nat), NEW i \in Nat \ {0}
    PROVE  Len(From(b, i)) = IF i <= Len(b) THEN Len(b) - i + 1 ELSE 0
<1>1. \A j \in i..Len(b) : b[j] \in Nat
  OBVIOUS
<1> QED BY <1>1, SubSeqProperties DEF From

\* What comes up to an index is no longer than either.
LEMMA UptoType ==
    ASSUME NEW S, NEW b \in Seq(S), NEW i \in Nat
    PROVE  /\ Upto(b, i) \in Seq(S)
           /\ Len(Upto(b, i)) = IF i <= Len(b) THEN i ELSE Len(b)
           /\ \A j \in 1..Len(Upto(b, i)) : Upto(b, i)[j] = b[j]
<1> DEFINE m == Min({i, Len(b)})
<1>1. Len(b) \in Nat
  OBVIOUS
<1>2. m = IF i <= Len(b) THEN i ELSE Len(b)
  <2>1. m \in {i, Len(b)} /\ \A y \in {i, Len(b)} : m <= y
    BY <1>1, MinIs
  <2> QED BY <1>1, <2>1
<1>3. Upto(b, i) = SubSeq(b, 1, m) /\ m \in Nat
  BY <1>1, <1>2 DEF Upto
<1> HIDE DEF m
<1>4. \A j \in 1..m : b[j] \in S
  BY <1>2
<1>5. /\ SubSeq(b, 1, m) \in Seq(S)
      /\ Len(SubSeq(b, 1, m)) = IF 1 <= m THEN m - 1 + 1 ELSE 0
      /\ \A j \in 1..(m - 1 + 1) : SubSeq(b, 1, m)[j] = b[1 + j - 1]
  BY <1>3, <1>4, SubSeqProperties
<1>6. Len(SubSeq(b, 1, m)) = m
  BY <1>3, <1>5
<1>7. \A j \in 1..m : SubSeq(b, 1, m)[j] = b[j]
  BY <1>3, <1>5
<1> QED BY <1>2, <1>3, <1>5, <1>6, <1>7

\* The places where a pattern is found are indices.
LEMMA FindType ==
    ASSUME NEW b \in Seq(Nat), NEW p \in Seq(Nat),
           NEW T, T \subseteq Find(b, p), T # {}
    PROVE  Min(T) \in Nat \ {0} /\ Min(T) \in T
<1>1. T \subseteq Nat \ {0}
  BY DEF Find
<1> QED BY <1>1, MinIs

-----------------------------------------------------------------------------
(* Packets put together                                                    *)

\* Flat(w)[i] is what the first i packets come to.
Flat(w) ==
    CHOOSE g : g = [i \in 1..Len(w) |->
                        IF i = 1 THEN w[i] ELSE g[i - 1] \o w[i]]

\* There is such a function.
LEMMA FlatDefined ==
    ASSUME NEW S, NEW w \in Seq(Seq(S))
    PROVE  Flat(w) = [i \in 1..Len(w) |->
                          IF i = 1 THEN w[i] ELSE Flat(w)[i - 1] \o w[i]]
<1> DEFINE Is(n, g) ==
        g = [i \in 1..n |-> IF i = 1 THEN w[i] ELSE g[i - 1] \o w[i]]
<1> DEFINE Has == {n \in Nat : \E g : Is(n, g)}
<1>1. 0 \in Has
  <2> DEFINE g == [i \in 1..0 |-> <<>>]
  <2>1. Is(0, g)
    OBVIOUS
  <2> QED BY <2>1
<1>2. ASSUME NEW n \in Nat, n \in Has PROVE n + 1 \in Has
  <2>1. PICK g : Is(n, g)
    BY <1>2
  <2> DEFINE h == [i \in 1..(n + 1) |->
                      IF i <= n THEN g[i]
                      ELSE IF i = 1 THEN w[i] ELSE g[i - 1] \o w[i]]
  <2>2. \A i \in 1..n : g[i] = IF i = 1 THEN w[i] ELSE g[i - 1] \o w[i]
    BY <2>1
  <2>3. \A i \in 1..(n + 1) : i # 1 => h[i - 1] = g[i - 1]
    OBVIOUS
  <2>4. \A i \in 1..(n + 1) :
            h[i] = IF i = 1 THEN w[i] ELSE h[i - 1] \o w[i]
    <3> SUFFICES ASSUME NEW i \in 1..(n + 1)
                 PROVE  h[i] = IF i = 1 THEN w[i] ELSE h[i - 1] \o w[i]
      OBVIOUS
    <3>1. CASE i <= n
      BY <3>1, <2>2, <2>3
    <3>2. CASE i = n + 1
      BY <3>2, <2>3
    <3> QED BY <3>1, <3>2
  <2>5. Is(n + 1, h)
    BY <2>4
  <2> HIDE DEF h, Is
  <2> QED BY <2>5
<1>3. Nat \subseteq Has
  <2> HIDE DEF Has
  <2> QED BY <1>1, <1>2, Induction
<1>4. Len(w) \in Has
  <2> HIDE DEF Has
  <2>1. Len(w) \in Nat
    OBVIOUS
  <2> QED BY <1>3, <2>1
<1>5. \E g : Is(Len(w), g)
  BY <1>4
<1> QED BY <1>5 DEF Flat

\* What the first packets come to grows with each.
LEMMA FlatGrows ==
    ASSUME NEW S, NEW w \in Seq(Seq(S))
    PROVE  \A n \in 1..Len(w) :
               \A i \in 1..n : /\ Flat(w)[i] \in Seq(S)
                               /\ Len(Flat(w)[i]) <= Len(Flat(w)[n])
<1> DEFINE Grown(n) ==
        \A i \in 1..n : /\ Flat(w)[i] \in Seq(S)
                        /\ Len(Flat(w)[i]) <= Len(Flat(w)[n])
<1> DEFINE Has == {n \in Nat : n \in 1..Len(w) => Grown(n)}
<1>1. \A i \in 1..Len(w) :
          Flat(w)[i] = IF i = 1 THEN w[i] ELSE Flat(w)[i - 1] \o w[i]
  <2> DEFINE F == Flat(w)
  <2>1. F = [i \in 1..Len(w) |-> IF i = 1 THEN w[i] ELSE F[i - 1] \o w[i]]
    BY FlatDefined
  <2> HIDE DEF F
  <2>2. \A i \in 1..Len(w) : F[i] = IF i = 1 THEN w[i] ELSE F[i - 1] \o w[i]
    BY <2>1
  <2> QED BY <2>2 DEF F
<1>2. 0 \in Has
  OBVIOUS
<1>3. ASSUME NEW n \in Nat, n \in Has PROVE n + 1 \in Has
  <2> SUFFICES ASSUME n + 1 \in 1..Len(w) PROVE Grown(n + 1)
    OBVIOUS
  <2>1. w[n + 1] \in Seq(S)
    OBVIOUS
  <2>2. CASE n = 0
    <3>1. Flat(w)[1] = w[1]
      <4>1. 1 \in 1..Len(w)
        BY <2>2
      <4> QED BY <1>1, <4>1, Zenon
    <3>2. \A i \in 1..(n + 1) : i = 1
      BY <2>2
    <3> QED BY <2>1, <2>2, <3>1, <3>2
  <2>3. CASE n # 0
    <3>1. Flat(w)[n + 1] = Flat(w)[n] \o w[n + 1]
      <4>1. n + 1 # 1 /\ (n + 1) - 1 = n
        BY <2>3
      <4> QED BY <1>1, <4>1
    <3>2. Grown(n) /\ n \in 1..n /\ Flat(w)[n] \in Seq(S)
      BY <1>3, <2>3
    <3>3. /\ Flat(w)[n + 1] \in Seq(S)
          /\ Len(Flat(w)[n + 1]) = Len(Flat(w)[n]) + Len(w[n + 1])
      BY <2>1, <3>1, <3>2, ConcatProperties
    <3>4. ASSUME NEW i \in 1..(n + 1)
          PROVE  /\ Flat(w)[i] \in Seq(S)
                 /\ Len(Flat(w)[i]) <= Len(Flat(w)[n + 1])
      <4>1. CASE i = n + 1
        BY <4>1, <3>3
      <4>2. CASE i \in 1..n
        <5>1. /\ Flat(w)[i] \in Seq(S)
              /\ Len(Flat(w)[i]) <= Len(Flat(w)[n])
          BY <3>2, <4>2
        <5>2. /\ Len(Flat(w)[n]) \in Nat /\ Len(w[n + 1]) \in Nat
              /\ Len(Flat(w)[i]) \in Nat
          BY <3>2, <2>1, <5>1
        <5>3. \A x, y, z \in Nat : x <= y => x <= y + z
          OBVIOUS
        <5>4. Len(Flat(w)[i]) <= Len(Flat(w)[n]) + Len(w[n + 1])
          BY <5>1, <5>2, <5>3
        <5>5. Len(Flat(w)[i]) <= Len(Flat(w)[n + 1])
          BY <5>4, <3>3
        <5> QED BY <5>1, <5>5
      <4> QED BY <4>1, <4>2
    <3> QED BY <3>4
  <2> QED BY <2>2, <2>3
<1>4. Nat \subseteq Has
  <2> HIDE DEF Has
  <2> QED BY <1>2, <1>3, Induction
<1> QED BY <1>4

\* FlattenSeq of the first packets is what Flat says.
LEMMA FlatUpto ==
    ASSUME NEW S, NEW w \in Seq(Seq(S)), NEW j \in 1..Len(w)
    PROVE  FlattenSeq(Upto(w, j)) = Flat(w)[j]
<1> DEFINE u == Upto(w, j)
           U == Flat(u)
           F == Flat(w)
<1>1. u \in Seq(Seq(S)) /\ Len(u) = j /\ \A i \in 1..j : u[i] = w[i]
  BY UptoType
<1> HIDE DEF u
<1>2. FlattenSeq(u) = U[j]
  <2>1. Len(u) # 0
    BY <1>1
  <2> QED BY <1>1, <2>1 DEF FlattenSeq, Flat
<1>3. \A i \in 1..j : U[i] = IF i = 1 THEN u[i] ELSE U[i - 1] \o u[i]
  <2>1. U = [i \in 1..Len(u) |-> IF i = 1 THEN u[i] ELSE U[i - 1] \o u[i]]
    BY <1>1, FlatDefined
  <2> HIDE DEF U
  <2> QED BY <2>1, <1>1
<1>4. \A i \in 1..Len(w) : F[i] = IF i = 1 THEN w[i] ELSE F[i - 1] \o w[i]
  <2>1. F = [i \in 1..Len(w) |-> IF i = 1 THEN w[i] ELSE F[i - 1] \o w[i]]
    BY FlatDefined
  <2> HIDE DEF F
  <2> QED BY <2>1
<1> HIDE DEF U, F
<1> DEFINE Has == {n \in Nat : n \in 1..j => U[n] = F[n]}
<1>5. 0 \in Has
  OBVIOUS
<1>6. ASSUME NEW n \in Nat, n \in Has PROVE n + 1 \in Has
  <2> SUFFICES ASSUME n + 1 \in 1..j PROVE U[n + 1] = F[n + 1]
    OBVIOUS
  <2>1. n + 1 \in 1..Len(w) /\ u[n + 1] = w[n + 1] /\ (n + 1) - 1 = n
    BY <1>1
  <2>2. CASE n = 0
    BY <2>1, <2>2, <1>3, <1>4
  <2>3. CASE n # 0
    <3>1. U[n] = F[n]
      BY <1>6, <2>3
    <3> QED BY <2>1, <2>3, <3>1, <1>3, <1>4
  <2> QED BY <2>2, <2>3
<1>7. Nat \subseteq Has
  <2> HIDE DEF Has
  <2> QED BY <1>5, <1>6, Induction
<1>8. U[j] = F[j]
  BY <1>7
<1> QED BY <1>2, <1>8 DEF u, F

\* Packets of S put together are a sequence of S, as long as any start of it.
LEMMA FlatType ==
    ASSUME NEW S, NEW w \in Seq(Seq(S))
    PROVE  /\ FlattenSeq(w) \in Seq(S)
           /\ \A j \in 0..Len(w) :
                 /\ FlattenSeq(Upto(w, j)) \in Seq(S)
                 /\ Len(FlattenSeq(Upto(w, j))) <= Len(FlattenSeq(w))
<1>1. FlattenSeq(<<>>) = <<>>
  BY DEF FlattenSeq
<1>2. Upto(w, 0) = <<>> /\ Upto(w, Len(w)) = w
  <2>1. /\ Upto(w, 0) \in Seq(Seq(S)) /\ Len(Upto(w, 0)) = 0
        /\ Upto(w, Len(w)) \in Seq(Seq(S)) /\ Len(Upto(w, Len(w))) = Len(w)
        /\ \A j \in 1..Len(w) : Upto(w, Len(w))[j] = w[j]
    <3>1. 0 <= Len(w) /\ Len(w) \in Nat /\ Len(w) <= Len(w)
      OBVIOUS
    <3> QED BY <3>1, UptoType
  <2>2. Upto(w, 0) = <<>>
    BY <2>1, EmptySeq
  <2>3. Upto(w, Len(w)) = w
    BY <2>1, SeqEqual
  <2> QED BY <2>2, <2>3
<1>3. CASE w = <<>>
  <2>1. \A j \in 0..Len(w) : j = 0
    BY <1>3
  <2>2. <<>> \in Seq(S) /\ Len(<<>>) <= Len(<<>>)
    OBVIOUS
  <2> QED BY <1>1, <1>2, <1>3, <2>1, <2>2
<1>4. CASE w # <<>>
  <2>1. Len(w) \in 1..Len(w)
    BY <1>4
  <2>2. FlattenSeq(w) = Flat(w)[Len(w)]
    BY <1>2, <2>1, FlatUpto
  <2>3. FlattenSeq(w) \in Seq(S)
    BY <2>1, <2>2, FlatGrows
  <2>4. ASSUME NEW j \in 0..Len(w)
        PROVE  /\ FlattenSeq(Upto(w, j)) \in Seq(S)
               /\ Len(FlattenSeq(Upto(w, j))) <= Len(FlattenSeq(w))
    <3>1. CASE j = 0
      <4>1. FlattenSeq(Upto(w, j)) = <<>>
        BY <1>1, <1>2, <3>1
      <4>2. <<>> \in Seq(S) /\ Len(<<>>) = 0 /\ Len(FlattenSeq(w)) \in Nat
        BY <2>3
      <4> QED BY <4>1, <4>2
    <3>2. CASE j # 0
      <4>1. j \in 1..Len(w)
        BY <3>2
      <4>2. FlattenSeq(Upto(w, j)) = Flat(w)[j]
        BY <4>1, FlatUpto
      <4> QED BY <4>1, <4>2, <2>1, <2>2, FlatGrows
    <3> QED BY <3>1, <3>2
  <2> QED BY <2>3, <2>4
<1> QED BY <1>3, <1>4

\* One packet put together is that packet.
LEMMA FlatOne ==
    ASSUME NEW f
    PROVE  FlattenSeq(<<f>>) = f
<1> DEFINE flat == [i \in 1..1 |-> f]
<1>1. Len(<<f>>) = 1 /\ <<f>>[1] = f
  OBVIOUS
<1>2. flat = [i \in 1..1 |->
                 IF i = 1 THEN <<f>>[i] ELSE flat[i - 1] \o <<f>>[i]]
  BY <1>1
<1>3. \E g : g = [i \in 1..1 |->
                     IF i = 1 THEN <<f>>[i] ELSE g[i - 1] \o <<f>>[i]]
  BY <1>2
<1> QED BY <1>1, <1>3 DEF FlattenSeq

-----------------------------------------------------------------------------
(* What the devices send                                                   *)

\* A cycle has queries, and each is one of the commands.
LEMMA CycleType ==
    ASSUME NEW d \in AllDrivers
    PROVE  /\ Cycle(d) \in Seq(3..6)
           /\ Len(Cycle(d)) \in 1..3
           /\ \A i \in 1..Len(Cycle(d)) : Cycle(d)[i] \in Commands(d)
           /\ Commands(d) \subseteq 3..6
<1>1. Cycle(d) \in {<<3>>, <<4>>, <<3, 4>>, <<3, 5>>, <<6, 3>>, <<3, 4, 5>>}
  BY DEF Cycle, AllDrivers, Bluetooth, Serial
<1>2. Cycle(d) \in Seq(3..6) /\ Len(Cycle(d)) \in 1..3
  <2>1. /\ <<3>> \in Seq(3..6) /\ Len(<<3>>) = 1
        /\ <<4>> \in Seq(3..6) /\ Len(<<4>>) = 1
    OBVIOUS
  <2>2. /\ <<3, 4>> \in Seq(3..6) /\ Len(<<3, 4>>) = 2
        /\ <<3, 5>> \in Seq(3..6) /\ Len(<<3, 5>>) = 2
        /\ <<6, 3>> \in Seq(3..6) /\ Len(<<6, 3>>) = 2
    OBVIOUS
  <2>3. <<3, 4, 5>> \in Seq(3..6) /\ Len(<<3, 4, 5>>) = 3
    OBVIOUS
  <2>4. 1 \in 1..3 /\ 2 \in 1..3 /\ 3 \in 1..3
    OBVIOUS
  <2>5. \A x \in {<<3>>, <<4>>, <<3, 4>>, <<3, 5>>, <<6, 3>>, <<3, 4, 5>>} :
            x \in Seq(3..6) /\ Len(x) \in 1..3
    BY <2>1, <2>2, <2>3, <2>4, Zenon
  <2> QED BY <1>1, <2>5
<1>3. DOMAIN Cycle(d) = 1..Len(Cycle(d))
  BY <1>2
<1>4. \A i \in 1..Len(Cycle(d)) : Cycle(d)[i] \in 3..6
  BY <1>2
<1> QED BY <1>2, <1>3, <1>4 DEF Commands, Range

\* The commands of the drivers that ask one thing, and of daly2 and daly.
LEMMA CommandsAre ==
    ASSUME NEW d \in AllDrivers, NEW c \in Commands(d)
    PROVE  /\ d \in {"litime", "jk_uart", "basen_uart"} => c = 3
           /\ d = "daly2" => c \in {3, 6}
           /\ d \in {"daly", "daly_uart"} => c \in {3, 5}
<1>1. PICK i \in DOMAIN Cycle(d) : c = Cycle(d)[i]
  BY DEF Commands, Range
<1>2. CASE d \in {"litime", "jk_uart", "basen_uart"}
  <2>1. Cycle(d) = <<3>>
    BY <1>2 DEF Cycle
  <2> QED BY <1>1, <1>2, <2>1
<1>3. CASE d = "daly2"
  <2>1. Cycle(d) = <<6, 3>>
    BY <1>3 DEF Cycle
  <2> QED BY <1>1, <1>3, <2>1
<1>4. CASE d \in {"daly", "daly_uart"}
  <2>1. Cycle(d) = <<3, 5>>
    BY <1>4 DEF Cycle
  <2> QED BY <1>1, <1>4, <2>1
<1> QED BY <1>2, <1>3, <1>4

\* The payload is two bytes.
LEMMA ValueType ==
    ASSUME NEW s \in Stamps
    PROVE  /\ Value(s) \in Seq(Nat) /\ Len(Value(s)) = 2
           /\ HexValue(s) \in Seq(Nat) /\ Len(HexValue(s)) = 2
<1>1. s \in {0, 1, 2}
  BY DEF Stamps
<1> DEFINE all == <<<<H1, H2>>, <<End, Newline>>, <<Newline, 7>>>>
<1>2. all[1] = <<H1, H2>> /\ all[2] = <<End, Newline>> /\ all[3] = <<Newline, 7>>
  OBVIOUS
<1>3. Value(s) = all[s + 1]
  BY DEF Value
<1> HIDE DEF all
<1>4. Value(s) \in {<<H1, H2>>, <<End, Newline>>, <<Newline, 7>>}
  BY <1>1, <1>2, <1>3
<1>5. \A x, y \in Nat : <<x, y>> \in Seq(Nat) /\ Len(<<x, y>>) = 2
  OBVIOUS
<1>6. H1 \in Nat /\ H2 \in Nat /\ End \in Nat /\ Newline \in Nat
  BY DEF H1, H2, End, Newline
<1>7. Value(s) \in Seq(Nat) /\ Len(Value(s)) = 2
  BY <1>4, <1>5, <1>6
<1>8. HexValue(s) \in Seq(Nat) /\ Len(HexValue(s)) = 2
  BY <1>1, <1>5 DEF HexValue
<1> QED BY <1>7, <1>8

\* Three pieces put together begin as the first does.
LEMMA Glued ==
    ASSUME NEW a \in Seq(Nat), NEW v \in Seq(Nat), NEW e \in Seq(Nat)
    PROVE  /\ a \o v \o e \in Seq(Nat)
           /\ Len(a \o v \o e) = Len(a) + Len(v) + Len(e)
           /\ \A i \in 1..Len(a) : (a \o v \o e)[i] = a[i]
<1>1. /\ a \o v \in Seq(Nat) /\ Len(a \o v) = Len(a) + Len(v)
      /\ \A i \in 1..(Len(a) + Len(v)) :
            (a \o v)[i] = IF i <= Len(a) THEN a[i] ELSE v[i - Len(a)]
  BY ConcatProperties
<1> DEFINE b == a \o v
<1>2. /\ b \o e \in Seq(Nat) /\ Len(b \o e) = Len(b) + Len(e)
      /\ \A i \in 1..(Len(b) + Len(e)) :
            (b \o e)[i] = IF i <= Len(b) THEN b[i] ELSE e[i - Len(b)]
  BY <1>1, ConcatProperties
<1>3. ASSUME NEW i \in 1..Len(a) PROVE (b \o e)[i] = a[i]
  <2>1. Len(a) \in Nat /\ Len(v) \in Nat /\ Len(e) \in Nat
    OBVIOUS
  <2>2. i \in 1..(Len(a) + Len(v)) /\ i <= Len(a)
    BY <2>1
  <2>3. i \in 1..(Len(b) + Len(e)) /\ i <= Len(b)
    BY <2>1, <1>1
  <2> QED BY <2>2, <2>3, <1>1, <1>2
<1> QED BY <1>1, <1>2, <1>3

\* The check bytes are bytes.
LEMMA CrcType ==
    ASSUME NEW c \in 3..6, NEW s \in Stamps
    PROVE  Crc(c, s) \in Nat
BY DEF Crc, Stamps

\* An answer of one frame has bytes, and the command where it is looked for.
LEMMA AnswerIs ==
    ASSUME NEW d \in AllDrivers \ {"daly", "daly_uart"},
           NEW c \in 3..6, NEW s \in Stamps
    PROVE  \E f \in Seq(Nat) :
               /\ Answer(d, c, s) = <<f>>
               /\ d \in {"jk", "ant"} => f[3] = c
               /\ d \in {"jbd", "basen", "sok"} => f[2] = c
               /\ d = "daly2" /\ c \in {3, 6} => f[2] = c
<1>1. /\ Value(s) \in Seq(Nat) /\ HexValue(s) \in Seq(Nat)
      /\ Crc(c, s) \in Nat /\ c \in Nat
      /\ H1 \in Nat /\ H2 \in Nat /\ End \in Nat
  BY ValueType, CrcType DEF H1, H2, End
<1> DEFINE e == <<Crc(c, s)>>
           t == <<Crc(c, s), End>>
<1>2. e \in Seq(Nat) /\ t \in Seq(Nat) /\ <<End>> \in Seq(Nat)
  BY <1>1
<1>3. CASE d = "jk"
  <2> DEFINE a == <<H1, H2, c>>
  <2>1. a \in Seq(Nat) /\ Len(a) = 3 /\ a[3] = c
    BY <1>1
  <2>2. a \o Value(s) \o e \in Seq(Nat) /\ (a \o Value(s) \o e)[3] = c
    BY <1>1, <1>2, <2>1, Glued
  <2>3. Answer(d, c, s) = <<a \o Value(s) \o e>>
    BY <1>3 DEF Answer, JkAnswer
  <2> QED BY <1>3, <2>2, <2>3
<1>4. CASE d = "ant"
  <2> DEFINE a == <<H1, H2, c, 2>>
  <2>1. a \in Seq(Nat) /\ Len(a) = 4 /\ a[3] = c
    BY <1>1
  <2>2. a \o Value(s) \o t \in Seq(Nat) /\ (a \o Value(s) \o t)[3] = c
    BY <1>1, <1>2, <2>1, Glued
  <2>3. Answer(d, c, s) = <<a \o Value(s) \o t>>
    BY <1>4 DEF Answer, AntAnswer
  <2> QED BY <1>4, <2>2, <2>3
<1>5. CASE d \in {"jbd", "basen", "basen_uart"}
  <2> DEFINE a == <<H1, c, 2>>
  <2>1. a \in Seq(Nat) /\ Len(a) = 3 /\ a[2] = c
    BY <1>1
  <2>2. a \o Value(s) \o t \in Seq(Nat) /\ (a \o Value(s) \o t)[2] = c
    BY <1>1, <1>2, <2>1, Glued
  <2>3. Answer(d, c, s) = <<a \o Value(s) \o t>>
    BY <1>5 DEF Answer, JbdAnswer, BasenAnswer, BasenUartAnswer
  <2> QED BY <1>5, <2>2, <2>3
<1>6. CASE d = "sok"
  <2> DEFINE a == <<H1, c>>
  <2>1. a \in Seq(Nat) /\ Len(a) = 2 /\ a[2] = c
    BY <1>1
  <2>2. a \o Value(s) \o <<End>> \in Seq(Nat) /\ (a \o Value(s) \o <<End>>)[2] = c
    BY <1>1, <1>2, <2>1, Glued
  <2>3. Answer(d, c, s) = <<a \o Value(s) \o <<End>>>>
    BY <1>6 DEF Answer, SokAnswer
  <2> QED BY <1>6, <2>2, <2>3
<1>7. CASE d = "litime"
  <2> DEFINE a == <<c>>
  <2>1. a \in Seq(Nat)
    BY <1>1
  <2>2. a \o Value(s) \in Seq(Nat)
    BY <1>1, <2>1, ConcatProperties
  <2>3. Answer(d, c, s) = <<a \o Value(s)>>
    BY <1>7 DEF Answer, LitimeAnswer
  <2> QED BY <1>7, <2>2, <2>3
<1>8. CASE d = "pace"
  <2> DEFINE a == <<H1, c>>
  <2>1. a \in Seq(Nat)
    BY <1>1
  <2>2. a \o HexValue(s) \o t \in Seq(Nat)
    BY <1>1, <1>2, <2>1, Glued
  <2>3. Answer(d, c, s) = <<a \o HexValue(s) \o t>>
    BY <1>8 DEF Answer, PaceAnswer
  <2> QED BY <1>8, <2>2, <2>3
<1>9. CASE d = "daly2"
  <2> DEFINE a == IF c = 6 THEN <<H1, 6>> ELSE <<H1, 3, 2>>
  <2>1. a \in Seq(Nat) /\ 2 \in 1..Len(a) /\ a[2] = IF c = 6 THEN 6 ELSE 3
    BY <1>1
  <2>2. /\ a \o Value(s) \o e \in Seq(Nat)
        /\ (a \o Value(s) \o e)[2] = IF c = 6 THEN 6 ELSE 3
    BY <1>1, <1>2, <2>1, Glued
  <2>3. Answer(d, c, s) = <<a \o Value(s) \o e>>
    BY <1>9 DEF Answer, Daly2Answer
  <2> QED BY <1>9, <2>2, <2>3
<1>10. CASE d \in {"noname", "jk_uart"}
  <2> DEFINE a == IF d = "noname" THEN <<H1, 3, 2>> ELSE <<H1, H2, 2>>
  <2>1. a \in Seq(Nat)
    BY <1>1
  <2>2. a \o Value(s) \o e \in Seq(Nat)
    BY <1>1, <1>2, <2>1, Glued
  <2>3. Answer(d, c, s) = <<a \o Value(s) \o e>>
    BY <1>10 DEF Answer, NoNameAnswer, JkUartAnswer
  <2> QED BY <1>10, <2>2, <2>3
<1> QED BY <1>3, <1>4, <1>5, <1>6, <1>7, <1>8, <1>9, <1>10
        DEF AllDrivers, Bluetooth, Serial

\* Two packets put together are one after the other.
LEMMA FlatTwo ==
    ASSUME NEW S, NEW w \in Seq(Seq(S)), Len(w) = 2
    PROVE  FlattenSeq(w) = w[1] \o w[2]
<1> DEFINE F == Flat(w)
<1>1. F = [i \in 1..Len(w) |-> IF i = 1 THEN w[i] ELSE F[i - 1] \o w[i]]
  BY FlatDefined
<1>2. FlattenSeq(w) = F[Len(w)]
  BY DEF FlattenSeq, Flat
<1> HIDE DEF F
<1>3. F[1] = w[1] /\ F[2] = F[2 - 1] \o w[2]
  BY <1>1
<1>4. F[2 - 1] = F[1]
  OBVIOUS
<1> QED BY <1>2, <1>3, <1>4

\* A frame of daly names its command, in five bytes.
LEMMA DalyFrameIs ==
    ASSUME NEW c \in {3, 5}, NEW i \in 1..2, NEW s \in Stamps
    PROVE  /\ DalyFrame(c, i, s) \in Seq(Nat)
           /\ Len(DalyFrame(c, i, s)) = 5
           /\ DalyFrame(c, i, s)[2] = c
<1>1. /\ Value(s)[2] \in Nat /\ Crc(c, s) \in Nat
      /\ H1 \in Nat /\ c \in Nat /\ i \in Nat
  <2>1. Value(s) \in Seq(Nat) /\ Len(Value(s)) = 2
    BY ValueType
  <2>2. Value(s)[2] \in Nat
    <3>1. 2 \in 1..Len(Value(s))
      BY <2>1
    <3> QED BY <2>1, <3>1, ElementOfSeq
  <2>3. c \in 3..6
    OBVIOUS
  <2> QED BY <2>2, <2>3, CrcType DEF H1
<1>2. \A v, w, x, y, z \in Nat :
          /\ <<v, w, x, y, z>> \in Seq(Nat) /\ Len(<<v, w, x, y, z>>) = 5
          /\ <<v, w, x, y, z>>[2] = w
  OBVIOUS
<1> QED BY <1>1, <1>2 DEF DalyFrame

\* An answer of daly begins with its first frame; that to command 3 is it.
LEMMA DalyAnswerIs ==
    ASSUME NEW d \in {"daly", "daly_uart"}, NEW c \in {3, 5}, NEW s \in Stamps
    PROVE  /\ Answer(d, c, s) \in Seq(Seq(Nat))
           /\ FlattenSeq(Answer(d, c, s))[2] = c
           /\ c = 3 => FlattenSeq(Answer(d, c, s)) = DalyFrame(c, 1, s)
<1> DEFINE w == Answer(d, c, s)
<1>1. w = [i \in 1..DalyCount(c) |-> DalyFrame(c, i, s)]
  BY DEF Answer
<1>2. DalyCount(c) \in 1..2
  BY DEF DalyCount
<1>3. \A i \in 1..DalyCount(c) : DalyFrame(c, i, s) \in Seq(Nat)
  BY <1>2, DalyFrameIs
<1>4. /\ w \in Seq(Seq(Nat)) /\ Len(w) = DalyCount(c)
      /\ w[1] = DalyFrame(c, 1, s)
  BY <1>1, <1>2, <1>3
<1> HIDE DEF w
<1>5. CASE c = 3
  <2>1. Len(w) = 1
    BY <1>4, <1>5 DEF DalyCount
  <2>2. w = <<w[1]>>
    <3> DEFINE u == <<w[1]>>
    <3>1. u \in Seq(Seq(Nat)) /\ Len(u) = 1 /\ u[1] = w[1]
      <4>1. \A x \in Seq(Nat) : /\ <<x>> \in Seq(Seq(Nat)) /\ Len(<<x>>) = 1
                                /\ <<x>>[1] = x
        OBVIOUS
      <4>2. 1 \in 1..Len(w)
        BY <2>1
      <4>3. w[1] \in Seq(Nat)
        BY <1>4, <4>2, ElementOfSeq
      <4> QED BY <4>1, <4>3
    <3> HIDE DEF u
    <3>2. \A i \in 1..Len(u) : u[i] = w[i]
      BY <3>1
    <3>3. u = w
      BY <1>4, <2>1, <3>1, <3>2, SeqEqual
    <3> QED BY <3>3 DEF u
  <2>3. FlattenSeq(w) = w[1]
    BY <2>2, FlatOne
  <2> QED BY <2>3, <1>4, <1>5, DalyFrameIs DEF w
<1>6. CASE c = 5
  <2>1. Len(w) = 2
    BY <1>4, <1>6 DEF DalyCount
  <2>2. FlattenSeq(w) = w[1] \o w[2]
    BY <1>4, <2>1, FlatTwo
  <2>3. w[1] \in Seq(Nat) /\ Len(w[1]) = 5 /\ w[1][2] = c
    <3>1. 1 \in 1..2
      OBVIOUS
    <3> QED BY <1>4, <3>1, DalyFrameIs
  <2>4. w[2] \in Seq(Nat)
    <3>1. 2 \in 1..Len(w)
      BY <2>1
    <3> QED BY <1>4, <3>1, ElementOfSeq
  <2>5. (w[1] \o w[2])[2] = c
    <3>1. Len(w[2]) \in Nat
      BY <2>4
    <3>2. 2 \in 1..(Len(w[1]) + Len(w[2])) /\ 2 <= Len(w[1])
      BY <2>3, <3>1
    <3>3. (w[1] \o w[2])[2] = w[1][2]
      BY <2>3, <2>4, <3>2, ConcatProperties
    <3> QED BY <2>3, <3>3
  <2> QED BY <2>2, <2>5, <1>4, <1>6 DEF w
<1> QED BY <1>5, <1>6

\* What a device sends are packets of bytes.
LEMMA AnswerType ==
    ASSUME NEW d \in AllDrivers, NEW c \in Commands(d), NEW s \in Stamps
    PROVE  Answer(d, c, s) \in Seq(Seq(Nat))
<1>1. CASE d \in {"daly", "daly_uart"}
  BY <1>1, CommandsAre, DalyAnswerIs
<1>2. CASE d \notin {"daly", "daly_uart"}
  <2>1. d \in AllDrivers \ {"daly", "daly_uart"} /\ c \in 3..6
    BY <1>2, CycleType
  <2>2. PICK f \in Seq(Nat) : Answer(d, c, s) = <<f>>
    BY <2>1, AnswerIs
  <2> QED BY <2>2
<1> QED BY <1>1, <1>2

\* A frame that passes the check is part of an answer.
LEMMA FrameIs ==
    ASSUME NEW d \in AllDrivers, NEW f \in Frames[d]
    PROVE  /\ f \in Seq(Nat)
           /\ \E c \in Commands(d), s \in Stamps :
                 f \in Range(Answer(d, c, s))
<1>1. PICK c \in Commands(d), s \in Stamps : f \in Range(Answer(d, c, s))
  BY DEF Frames
<1>2. Answer(d, c, s) \in Seq(Seq(Nat))
  BY AnswerType
<1>3. f \in Seq(Nat)
  BY <1>1, <1>2 DEF Range
<1> QED BY <1>1, <1>3

\* A frame of daly is one of command 3 or of command 5.
LEMMA DalyFramesAre ==
    ASSUME NEW d \in {"daly", "daly_uart"}, NEW f \in Frames[d]
    PROVE  /\ f \in Seq(Nat) /\ Len(f) = 5
           /\ f[2] # 5 => \E s \in Stamps : f = DalyFrame(3, 1, s)
<1>1. d \in AllDrivers
  BY DEF AllDrivers, Bluetooth, Serial
<1>2. PICK c \in Commands(d), s \in Stamps : f \in Range(Answer(d, c, s))
  BY <1>1, FrameIs
<1>3. c \in {3, 5}
  BY <1>1, CommandsAre
<1>4. Answer(d, c, s) = [i \in 1..DalyCount(c) |-> DalyFrame(c, i, s)]
  BY DEF Answer
<1>5. PICK i \in 1..DalyCount(c) : f = DalyFrame(c, i, s)
  BY <1>2, <1>4 DEF Range
<1>6. i \in 1..2 /\ (c = 3 => i = 1)
  BY <1>3 DEF DalyCount
<1> QED BY <1>3, <1>5, <1>6, DalyFrameIs

-----------------------------------------------------------------------------
(* What an answer means                                                    *)

\* The queries whose answer is f.
Like(f) == {q \in Query : q.cmd \in Commands(driver)
                /\ FlattenSeq(Answer(driver, q.cmd, q.stamp)) = f}

\* A frame means a query whose answer it is, if there is one.
LEMMA MeaningIs ==
    ASSUME NEW f
    PROVE  /\ Meaning(f) \in Query \cup {None}
           /\ Like(f) # {} => Meaning(f) # None
           /\ Meaning(f) # None => Meaning(f) \in Like(f)
<1>1. None \notin Query
  BY DEF None, Query
<1>2. Meaning(f) = IF Like(f) = {} THEN None ELSE CHOOSE q \in Like(f) : TRUE
  BY DEF Meaning, Like
<1>3. Like(f) \subseteq Query
  BY DEF Like
<1>4. CASE Like(f) = {}
  BY <1>2, <1>4
<1>5. CASE Like(f) # {}
  <2>1. Meaning(f) \in Like(f)
    BY <1>2, <1>5
  <2> QED BY <1>1, <1>3, <1>5, <2>1
<1> QED BY <1>4, <1>5

\* An answer to a command of the driver, put together, means something.
LEMMA AnswerMeans ==
    ASSUME driver \in AllDrivers,
           NEW c \in Commands(driver), NEW s \in Stamps
    PROVE  Meaning(FlattenSeq(Answer(driver, c, s))) # None
<1> DEFINE q == [cmd |-> c, stamp |-> s]
           f == FlattenSeq(Answer(driver, c, s))
<1>1. q \in Query
  BY CycleType DEF Query
<1>2. q.cmd = c /\ q.stamp = s
  OBVIOUS
<1>3. q \in Like(f)
  BY <1>1, <1>2 DEF Like
<1> HIDE DEF q, f
<1>4. Meaning(f) # None
  BY <1>3, MeaningIs
<1> QED BY <1>4 DEF f

\* A frame that passes the check of a driver whose answers have one frame is
\* a whole answer.
LEMMA FrameMeans ==
    ASSUME driver \in AllDrivers \ {"daly", "daly_uart"},
           NEW f \in Frames[driver]
    PROVE  Meaning(f) # None
<1>1. PICK c \in Commands(driver), s \in Stamps : f \in Range(Answer(driver, c, s))
  BY FrameIs
<1>2. c \in 3..6
  BY CycleType
<1>3. PICK g \in Seq(Nat) : Answer(driver, c, s) = <<g>>
  BY <1>2, AnswerIs
<1>4. f = g
  BY <1>1, <1>3 DEF Range
<1>5. FlattenSeq(Answer(driver, c, s)) = f
  BY <1>3, <1>4, FlatOne
<1> QED BY <1>5, AnswerMeans

\* So is a frame of daly that is not of the cells.
LEMMA DalyFrameMeans ==
    ASSUME driver \in {"daly", "daly_uart"},
           NEW f \in Frames["daly"], f[2] # 5
    PROVE  Meaning(f) # None
<1>1. PICK s \in Stamps : f = DalyFrame(3, 1, s)
  BY DalyFramesAre
<1>2. FlattenSeq(Answer(driver, 3, s)) = f
  BY <1>1, DalyAnswerIs
<1>3. driver \in AllDrivers
  BY DEF AllDrivers, Bluetooth, Serial
<1>4. 3 \in Commands(driver)
  <2>1. Cycle(driver) = <<3, 5>>
    BY DEF Cycle
  <2>2. 1 \in DOMAIN Cycle(driver) /\ Cycle(driver)[1] = 3
    BY <2>1
  <2> QED BY <2>2 DEF Commands, Range
<1> QED BY <1>2, <1>3, <1>4, AnswerMeans

\* A whole answer that the driver takes for the answer to c is one, but for
\* the drivers whose answers do not name the command.
LEMMA Named ==
    ASSUME driver \in AllDrivers \ {"noname", "pace"},
           NEW c \in Commands(driver), NEW f,
           Answers(driver, f, c), Meaning(f) # None
    PROVE  Meaning(f).cmd = c
<1> DEFINE q == Meaning(f)
<1>1. /\ q \in Query /\ q.cmd \in Commands(driver)
      /\ FlattenSeq(Answer(driver, q.cmd, q.stamp)) = f
  BY MeaningIs DEF Like
<1> HIDE DEF q
<1>2. q.cmd \in 3..6 /\ q.stamp \in Stamps
  BY <1>1 DEF Query
<1>3. CASE driver \in {"daly", "daly_uart"}
  <2>1. q.cmd \in {3, 5}
    BY <1>1, <1>3, CommandsAre
  <2>2. f[2] = q.cmd
    BY <1>1, <1>2, <1>3, <2>1, DalyAnswerIs
  <2>3. f[2] = c
    BY <1>3 DEF Answers
  <2> QED BY <2>2, <2>3 DEF q
<1>4. CASE driver \in {"litime", "jk_uart", "basen_uart"}
  <2>1. q.cmd = 3 /\ c = 3
    BY <1>1, <1>4, CommandsAre
  <2> QED BY <2>1 DEF q
<1>5. CASE driver \notin {"daly", "daly_uart", "litime", "jk_uart", "basen_uart"}
  <2>1. PICK g \in Seq(Nat) :
            /\ Answer(driver, q.cmd, q.stamp) = <<g>>
            /\ driver \in {"jk", "ant"} => g[3] = q.cmd
            /\ driver \in {"jbd", "basen", "sok"} => g[2] = q.cmd
            /\ driver = "daly2" /\ q.cmd \in {3, 6} => g[2] = q.cmd
    BY <1>2, <1>5, AnswerIs
  <2>2. g = f
    BY <1>1, <2>1, FlatOne
  <2>3. driver = "daly2" => q.cmd \in {3, 6}
    BY <1>1, CommandsAre
  <2>4. driver \in {"jk", "ant", "jbd", "basen", "sok", "daly2"}
    BY <1>5 DEF AllDrivers, Bluetooth, Serial
  <2>5. /\ driver \in {"jk", "ant"} => f[3] = c
        /\ driver \in {"jbd", "basen", "sok", "daly2"} => f[2] = c
    BY DEF Answers
  <2> QED BY <2>1, <2>2, <2>3, <2>4, <2>5 DEF q
<1> QED BY <1>3, <1>4, <1>5

-----------------------------------------------------------------------------
(* The handlers that are loops                                             *)

Looping == {"jk", "jbd", "basen", "basen_uart", "pace", "daly_uart", "jk_uart"}

\* What a round comes to: the frames it hands on have passed the check.
Rounds(d) == [rest : Seq(Nat), out : Seq(Frames[d]), again : BOOLEAN]

\* What is kept in a buffer is less than a frame.
Partial(d, r) ==
    CASE d = "jk" -> Len(r) < JkSize
      [] d \in {"jbd", "basen", "basen_uart"} -> Len(r) < 3 \/ Len(r) < r[3] + 5
      [] d = "pace" -> Find(r, <<End>>) = {}
      [] d = "daly_uart" -> Len(r) < DalySize
      [] OTHER -> TRUE

\* What a round on b may come to: it leaves no more than it got, and less if
\* there is to be another; if not, it leaves no whole frame.
Steps(d, b) ==
    {x \in Rounds(d) :
        /\ Len(x.rest) <= Len(b)
        /\ x.again => Len(x.rest) < Len(b)
        /\ ~x.again => Partial(d, x.rest)}

\* Nothing is less than a frame.
LEMMA NothingKept == ASSUME NEW d \in Looping PROVE Partial(d, <<>>)
<1>1. Find(<<>>, <<End>>) = {}
  BY DEF Find
<1> QED BY <1>1 DEF Partial, Looping, JkSize, DalySize

\* A sequence of one.
LEMMA One ==
    ASSUME NEW S, NEW x \in S
    PROVE  <<x>> \in Seq(S) /\ Len(<<x>>) = 1 /\ <<x>>[1] = x
OBVIOUS

\* The three ways in which a round ends.
LEMMA Ends ==
    ASSUME NEW d, NEW b \in Seq(Nat)
    PROVE  /\ Waits(b) \in Rounds(d) /\ Skips(b) \in Rounds(d)
           /\ \A f : Valid(d, f) => Yields(f, b) \in Rounds(d)
<1>1. <<>> \in Seq(Frames[d])
  OBVIOUS
<1>2. \A f \in Frames[d] : <<f>> \in Seq(Frames[d])
  BY One
<1>3. Waits(b) \in Rounds(d) /\ Skips(b) \in Rounds(d)
  BY <1>1 DEF Waits, Skips, Rounds
<1>4. ASSUME NEW f, Valid(d, f) PROVE Yields(f, b) \in Rounds(d)
  BY <1>2, <1>4 DEF Valid, Yields, Rounds
<1> QED BY <1>3, <1>4

\* What they have to leave.
LEMMA Leaves ==
    ASSUME NEW d, NEW b \in Seq(Nat), NEW r \in Seq(Nat)
    PROVE  /\ Len(r) <= Len(b) /\ Partial(d, r) => Waits(r) \in Steps(d, b)
           /\ Len(r) < Len(b) =>
                  Skips(r) \in Steps(d, b)
                  /\ \A f : Valid(d, f) => Yields(f, r) \in Steps(d, b)
<1>1. Len(r) < Len(b) => Len(r) <= Len(b)
  OBVIOUS
<1>2. /\ Waits(r).rest = r /\ Waits(r).again = FALSE
      /\ Skips(r).rest = r /\ Skips(r).again = TRUE
      /\ \A f : Yields(f, r).rest = r /\ Yields(f, r).again = TRUE
  BY DEF Waits, Skips, Yields
<1> QED BY <1>1, <1>2, Ends DEF Steps

\* What is kept from a header on are bytes, and no more than there were.
LEMMA FromHead ==
    ASSUME NEW b \in Seq(Nat), NEW p \in Seq(Nat), Len(p) > 0,
           NEW T, T \subseteq Find(b, p), T # {}
    PROVE  /\ From(b, Min(T)) \in Seq(Nat)
           /\ Len(From(b, Min(T))) \in 1..Len(b)
           /\ Min(T) > 1 => Len(From(b, Min(T))) < Len(b)
<1>1. Min(T) \in Nat \ {0} /\ Min(T) \in T
  BY FindType
<1>2. Min(T) \in 1..(Len(b) - Len(p) + 1) /\ Len(b) \in Nat /\ Len(p) \in Nat
  BY <1>1 DEF Find
<1>3. Min(T) <= Len(b)
  BY <1>2
<1>4. Len(From(b, Min(T))) = Len(b) - Min(T) + 1
  BY <1>1, <1>3, FromLen
<1>5. From(b, Min(T)) \in Seq(Nat)
  BY <1>1, FromType
<1>6. Min(T) \in 1..Len(b)
  BY <1>2, <1>3
<1> DEFINE m == Min(T)
           l == Len(b)
           k == Len(From(b, m))
<1>7. k = l - m + 1 /\ m \in 1..l /\ l \in Nat
  BY <1>2, <1>4, <1>6
<1> HIDE DEF m, l, k
<1>8. k \in 1..l /\ (m > 1 => k < l)
  BY <1>7
<1> QED BY <1>5, <1>8 DEF m, l, k

\* The patterns that are looked for.
LEMMA Patterns ==
    /\ <<H1>> \in Seq(Nat) /\ <<H1, H2>> \in Seq(Nat) /\ <<End>> \in Seq(Nat)
    /\ Len(<<H1>>) > 0 /\ Len(<<H1, H2>>) > 0 /\ Len(<<End>>) > 0
BY DEF H1, H2, End

\* What follows a piece of n bytes is shorter than what begins with it.
LEMMA AfterPiece ==
    ASSUME NEW b \in Seq(Nat), NEW a \in Seq(Nat), Len(a) \in 1..Len(b),
           NEW n \in Nat \ {0}
    PROVE  From(a, n + 1) \in Seq(Nat) /\ Len(From(a, n + 1)) < Len(b)
<1>1. n + 1 \in Nat \ {0} /\ Len(a) \in Nat /\ Len(b) \in Nat
  OBVIOUS
<1>2. Len(From(a, n + 1)) = IF n + 1 <= Len(a) THEN Len(a) - (n + 1) + 1 ELSE 0
  BY <1>1, FromLen
<1>3. From(a, n + 1) \in Seq(Nat)
  BY <1>1, FromType
<1>4. \A k, l \in Nat : k \in 1..l =>
          (IF n + 1 <= k THEN k - (n + 1) + 1 ELSE 0) < l
  OBVIOUS
<1> QED BY <1>1, <1>2, <1>3, <1>4

\* The last byte.
LEMMA LastByte ==
    ASSUME NEW b \in Seq(Nat), Len(b) > 0
    PROVE  From(b, Len(b)) \in Seq(Nat) /\ Len(From(b, Len(b))) = 1
<1>1. Len(b) \in Nat \ {0}
  OBVIOUS
<1> DEFINE n == Len(b)
<1>2. Len(From(b, n)) = IF n <= n THEN n - n + 1 ELSE 0
  BY <1>1, FromLen
<1>3. From(b, n) \in Seq(Nat)
  BY <1>1, FromType
<1> HIDE DEF n
<1>4. (IF n <= n THEN n - n + 1 ELSE 0) = 1
  BY <1>1 DEF n
<1> QED BY <1>2, <1>3, <1>4 DEF n

\* jk.
LEMMA JkStepType ==
    ASSUME NEW b \in Seq(Nat), b # <<>>
    PROVE  JkStep(b) \in Steps("jk", b)
<1> DEFINE heads == Find(b, <<H1, H2>>)
           a == From(b, Min(heads))
           later == {i \in Find(a, <<H1, H2>>) : i > 2}
<1>0. \A r \in Seq(Nat) : Len(r) < 6 => Partial("jk", r)
  BY DEF Partial, JkSize
<1>1. Len(b) \in Nat \ {0}
  BY EmptySeq
<1>2. CASE Len(b) < 2
  <2>1. Partial("jk", b)
    BY <1>0, <1>1, <1>2
  <2> QED BY <1>1, <1>2, <2>1, Leaves DEF JkStep
<1>3. CASE Len(b) >= 2 /\ heads = {}
  <2> DEFINE r == From(b, Len(b))
  <2>1. r \in Seq(Nat) /\ Len(r) = 1
    BY <1>1, LastByte
  <2>2. JkStep(b) = Waits(r)
    BY <1>1, <1>3 DEF JkStep
  <2> HIDE DEF r
  <2>3. Len(r) <= Len(b) /\ Len(r) < 6
    BY <1>1, <2>1
  <2>4. Partial("jk", r)
    BY <1>0, <2>1, <2>3
  <2> QED BY <2>1, <2>2, <2>3, <2>4, Leaves
<1>4. CASE Len(b) >= 2 /\ heads # {}
  <2>1. a \in Seq(Nat) /\ Len(a) \in 1..Len(b)
    BY <1>4, Patterns, FromHead
  <2> DEFINE f == Upto(a, JkSize)
             rest == From(a, JkSize + 1)
  <2>2. JkStep(b) = IF Len(a) < JkSize THEN Waits(a)
                    ELSE IF Valid("jk", f) THEN Yields(f, rest)
                    ELSE IF later # {} THEN Skips(From(a, Min(later)))
                    ELSE Waits(From(a, Len(a)))
    <3>1. ~(Len(b) < 2) /\ heads # {}
      BY <1>1, <1>4
    <3> QED BY <3>1 DEF JkStep
  <2> HIDE DEF a, heads
  <2>3. rest \in Seq(Nat) /\ Len(rest) < Len(b)
    <3>1. JkSize \in Nat \ {0}
      BY DEF JkSize
    <3> QED BY <2>1, <3>1, AfterPiece
  <2>4. ASSUME later # {}
        PROVE  From(a, Min(later)) \in Seq(Nat) /\ Len(From(a, Min(later))) < Len(b)
    <3>1. later \subseteq Find(a, <<H1, H2>>) /\ Min(later) > 1
      <4>1. Min(later) \in later
        BY <2>1, <2>4, Patterns, FindType
      <4>2. Min(later) \in Nat /\ Min(later) > 2
        BY <4>1 DEF Find
      <4> QED BY <4>2
    <3> HIDE DEF later
    <3>2. /\ From(a, Min(later)) \in Seq(Nat)
          /\ Len(From(a, Min(later))) \in 1..Len(a)
          /\ Len(From(a, Min(later))) < Len(a)
      BY <2>1, <2>4, <3>1, Patterns, FromHead
    <3> QED BY <2>1, <3>2
  <2>5. From(a, Len(a)) \in Seq(Nat) /\ Len(From(a, Len(a))) = 1
    BY <2>1, LastByte
  <2>6. Len(a) < JkSize => Waits(a) \in Steps("jk", b)
    <3>1. Len(a) < JkSize => Partial("jk", a)
      BY <1>0, <2>1 DEF JkSize
    <3> QED BY <2>1, <3>1, Leaves
  <2>7. Waits(From(a, Len(a))) \in Steps("jk", b)
    <3> DEFINE r == From(a, Len(a))
    <3> HIDE DEF r
    <3>1. r \in Seq(Nat) /\ Len(r) = 1
      BY <2>5 DEF r
    <3>2. Len(r) <= Len(b) /\ Len(r) < 6
      BY <1>1, <3>1
    <3>3. Partial("jk", r)
      BY <1>0, <3>1, <3>2
    <3>4. Waits(r) \in Steps("jk", b)
      BY <3>1, <3>2, <3>3, Leaves
    <3> QED BY <3>4 DEF r
  <2> HIDE DEF f, rest, later
  <2> QED BY <2>2, <2>3, <2>4, <2>6, <2>7, Leaves
<1> QED BY <1>1, <1>2, <1>3, <1>4

\* jbd, basen, basen_uart: the size is the third byte, and five.
LEMMA SizedStepType ==
    ASSUME NEW b \in Seq(Nat), b # <<>>
    PROVE  /\ JbdStep(b) \in Steps("jbd", b)
           /\ BasenStep(b) \in Steps("basen", b)
           /\ BasenUartStep(b) \in Steps("basen_uart", b)
<1> DEFINE heads == Find(b, <<H1>>)
           a == From(b, Min(heads))
           size == a[3] + 5
           f == Upto(a, size)
           rest == From(a, size + 1)
           Sized == {"jbd", "basen", "basen_uart"}
<1>0. Len(b) \in Nat \ {0}
  BY EmptySeq
<1>1. \A d \in Sized : Waits(<<>>) \in Steps(d, b)
  <2>1. \A d \in Sized : Partial(d, <<>>)
    BY NothingKept DEF Looping
  <2>2. <<>> \in Seq(Nat) /\ Len(<<>>) = 0
    OBVIOUS
  <2>3. Len(<<>>) <= Len(b)
    BY <1>0, <2>2
  <2> QED BY <2>1, <2>2, <2>3, Leaves
<1>2. /\ JbdStep(b) =
            IF heads = {} THEN Waits(<<>>)
            ELSE IF Len(a) < 3 \/ Len(a) < size THEN Waits(a)
            ELSE IF Valid("jbd", f) THEN Yields(f, rest)
            ELSE Skips(rest)
      /\ BasenStep(b) =
            IF heads = {} THEN Waits(<<>>)
            ELSE IF Len(a) < 3 \/ Len(a) < size THEN Waits(a)
            ELSE IF Valid("basen", f) THEN Yields(f, rest)
            ELSE Skips(From(a, 2))
      /\ BasenUartStep(b) =
            IF heads = {} THEN Waits(<<>>)
            ELSE IF Len(a) < 3 \/ Len(a) < size THEN Waits(a)
            ELSE IF ~Valid("basen_uart", f) THEN Skips(From(a, 2))
            ELSE IF a[3] = 0 THEN Skips(rest)
            ELSE Yields(f, rest)
  BY DEF JbdStep, BasenStep, BasenUartStep
<1>3. heads # {} => a \in Seq(Nat) /\ Len(a) \in 1..Len(b)
  BY Patterns, FromHead
<1> HIDE DEF heads, a
<1>4. ASSUME heads # {}, ~(Len(a) < 3) PROVE rest \in Seq(Nat) /\ Len(rest) < Len(b)
  <2>1. Len(a) \in Nat
    BY <1>3, <1>4
  <2>2. 3 \in 1..Len(a)
    BY <2>1, <1>4
  <2>3. a[3] \in Nat
    BY <1>3, <1>4, <2>2, ElementOfSeq
  <2>4. size \in Nat \ {0}
    BY <2>3
  <2> QED BY <1>3, <1>4, <2>4, AfterPiece
<1>5. heads # {} => From(a, 2) \in Seq(Nat) /\ Len(From(a, 2)) < Len(b)
  <2>1. 1 \in Nat \ {0} /\ 1 + 1 = 2
    OBVIOUS
  <2> QED BY <1>3, <2>1, AfterPiece
<1>6. CASE heads = {}
  BY <1>1, <1>2, <1>6
<1>7. CASE heads # {} /\ (Len(a) < 3 \/ Len(a) < size)
  <2>1. \A d \in Sized : Partial(d, a)
    BY <1>7 DEF Partial
  <2>2. \A d \in Sized : Waits(a) \in Steps(d, b)
    BY <1>3, <1>7, <2>1, Leaves
  <2> HIDE DEF f, rest, size
  <2> QED BY <1>2, <1>7, <2>2
<1> HIDE DEF f, rest, size
<1>8. CASE heads # {} /\ ~(Len(a) < 3 \/ Len(a) < size)
  <2>1. /\ rest \in Seq(Nat) /\ From(a, 2) \in Seq(Nat)
        /\ Len(rest) < Len(b) /\ Len(From(a, 2)) < Len(b)
    BY <1>4, <1>5, <1>8
  <2>2. JbdStep(b) \in Steps("jbd", b)
    BY <1>2, <1>8, <2>1, Leaves
  <2>3. BasenStep(b) \in Steps("basen", b)
    BY <1>2, <1>8, <2>1, Leaves
  <2>4. BasenUartStep(b) \in Steps("basen_uart", b)
    BY <1>2, <1>8, <2>1, Leaves
  <2> QED BY <2>2, <2>3, <2>4
<1> QED BY <1>6, <1>7, <1>8

\* pace: up to the terminator.
LEMMA PaceStepType ==
    ASSUME NEW b \in Seq(Nat), b # <<>>
    PROVE  PaceStep(b) \in Steps("pace", b)
<1> DEFINE heads == Find(b, <<H1>>)
           a == From(b, Min(heads))
           ends == Find(a, <<End>>)
           f == Upto(a, Min(ends))
           rest == From(a, Min(ends) + 1)
<1>1. Waits(<<>>) \in Steps("pace", b)
  <2>1. Partial("pace", <<>>)
    BY NothingKept DEF Looping
  <2>2. <<>> \in Seq(Nat) /\ Len(<<>>) <= Len(b)
    BY EmptySeq
  <2> QED BY <2>1, <2>2, Leaves
<1>2. PaceStep(b) = IF heads = {} THEN Waits(<<>>)
                    ELSE IF ends = {} THEN Waits(a)
                    ELSE IF Valid("pace", f) THEN Yields(f, rest)
                    ELSE Skips(rest)
  BY DEF PaceStep
<1>3. heads # {} => a \in Seq(Nat) /\ Len(a) \in 1..Len(b)
  BY Patterns, FromHead
<1> HIDE DEF heads, a
<1>4. ASSUME heads # {}, ends # {} PROVE rest \in Seq(Nat) /\ Len(rest) < Len(b)
  <2>1. Min(ends) \in Nat \ {0}
    BY <1>3, <1>4, Patterns, FindType
  <2> QED BY <1>3, <1>4, <2>1, AfterPiece
<1>5. ASSUME heads # {}, ends = {} PROVE Waits(a) \in Steps("pace", b)
  <2>1. Partial("pace", a)
    BY <1>5 DEF Partial
  <2>2. Len(a) <= Len(b)
    BY <1>3, <1>5
  <2> QED BY <1>3, <1>5, <2>1, <2>2, Leaves
<1> HIDE DEF f, rest, ends
<1> QED BY <1>1, <1>2, <1>4, <1>5, Leaves

\* daly_uart: the size is fixed.
LEMMA DalyUartStepType ==
    ASSUME NEW b \in Seq(Nat), b # <<>>
    PROVE  DalyUartStep(b) \in Steps("daly_uart", b)
<1> DEFINE heads == Find(b, <<H1>>)
           a == From(b, Min(heads))
           f == Upto(a, DalySize)
           rest == From(a, DalySize + 1)
<1>1. Waits(<<>>) \in Steps("daly_uart", b)
  <2>1. Partial("daly_uart", <<>>)
    BY NothingKept DEF Looping
  <2>2. <<>> \in Seq(Nat) /\ Len(<<>>) <= Len(b)
    BY EmptySeq
  <2> QED BY <2>1, <2>2, Leaves
<1>2. DalyUartStep(b) = IF heads = {} THEN Waits(<<>>)
                        ELSE IF Len(a) < DalySize THEN Waits(a)
                        ELSE IF Valid("daly_uart", f) THEN Yields(f, rest)
                        ELSE Skips(rest)
  BY DEF DalyUartStep
<1>3. heads # {} => a \in Seq(Nat) /\ Len(a) \in 1..Len(b)
  BY Patterns, FromHead
<1> HIDE DEF heads, a
<1>4. heads # {} => rest \in Seq(Nat) /\ Len(rest) < Len(b)
  <2>1. DalySize \in Nat \ {0}
    BY DEF DalySize
  <2> QED BY <1>3, <2>1, AfterPiece
<1>5. ASSUME heads # {}, Len(a) < DalySize PROVE Waits(a) \in Steps("daly_uart", b)
  <2>1. Partial("daly_uart", a)
    BY <1>5 DEF Partial
  <2>2. Len(a) <= Len(b)
    BY <1>3, <1>5
  <2> QED BY <1>3, <1>5, <2>1, <2>2, Leaves
<1> HIDE DEF f, rest
<1> QED BY <1>1, <1>2, <1>4, <1>5, Leaves

\* jk_uart: the size is the third byte, and four; one frame at most.
LEMMA JkUartStepType ==
    ASSUME NEW b \in Seq(Nat), b # <<>>
    PROVE  JkUartStep(b) \in Steps("jk_uart", b)
<1> DEFINE heads == Find(b, <<H1, H2>>)
           a == IF heads = {} THEN From(b, Len(b)) ELSE From(b, Min(heads))
           size == a[3] + 4
           f == Upto(a, size)
           rest == From(a, size + 1)
           out == IF Valid("jk_uart", f) THEN <<f>> ELSE <<>>
<1>0. \A r : Partial("jk_uart", r)
  BY DEF Partial
<1>1. JkUartStep(b) = IF Len(b) < 2 \/ Len(a) < 3 \/ Len(a) < size THEN Waits(a)
                      ELSE [rest |-> rest, out |-> out, again |-> FALSE]
  BY DEF JkUartStep
<1>2. a \in Seq(Nat) /\ Len(a) \in 1..Len(b)
  <2>1. Len(b) \in Nat \ {0}
    BY EmptySeq
  <2>2. From(b, Len(b)) \in Seq(Nat) /\ Len(From(b, Len(b))) \in 1..Len(b)
    <3>1. From(b, Len(b)) \in Seq(Nat) /\ Len(From(b, Len(b))) = 1
      BY <2>1, LastByte
    <3>2. 1 \in 1..Len(b)
      BY <2>1
    <3> QED BY <3>1, <3>2
  <2>3. heads # {} => From(b, Min(heads)) \in Seq(Nat)
                      /\ Len(From(b, Min(heads))) \in 1..Len(b)
    BY Patterns, FromHead
  <2> HIDE DEF heads
  <2> QED BY <2>2, <2>3
<1> HIDE DEF heads, a
<1>3. ASSUME ~(Len(a) < 3) PROVE rest \in Seq(Nat) /\ Len(rest) < Len(b)
  <2>1. Len(a) \in Nat
    BY <1>2
  <2>2. 3 \in 1..Len(a)
    BY <2>1, <1>3
  <2>3. a[3] \in Nat
    BY <1>2, <2>2, ElementOfSeq
  <2>4. size \in Nat \ {0}
    BY <2>3
  <2> QED BY <1>2, <2>4, AfterPiece
<1> HIDE DEF f, rest, size
<1>4. out \in Seq(Frames["jk_uart"])
  <2>1. CASE Valid("jk_uart", f)
    BY <2>1, One DEF Valid
  <2>2. CASE ~Valid("jk_uart", f)
    BY <2>2, EmptySeq
  <2> QED BY <2>1, <2>2
<1> HIDE DEF out
<1>5. CASE Len(b) < 2 \/ Len(a) < 3 \/ Len(a) < size
  <2>1. Len(a) <= Len(b)
    BY <1>2
  <2> QED BY <1>0, <1>1, <1>2, <1>5, <2>1, Leaves
<1>6. CASE ~(Len(b) < 2 \/ Len(a) < 3 \/ Len(a) < size)
  <2> DEFINE x == [rest |-> rest, out |-> out, again |-> FALSE]
  <2>1. rest \in Seq(Nat) /\ Len(rest) < Len(b)
    BY <1>3, <1>6
  <2>2. x \in Rounds("jk_uart") /\ x.rest = rest /\ x.again = FALSE
    BY <1>4, <2>1 DEF Rounds
  <2>3. Len(rest) <= Len(b)
    BY <2>1
  <2>4. x \in Steps("jk_uart", b)
    <3> HIDE DEF x
    <3> QED BY <1>0, <2>2, <2>3 DEF Steps
  <2> QED BY <1>1, <1>6, <2>4
<1> QED BY <1>5, <1>6

\* A round of any of them.
LEMMA StepType ==
    ASSUME NEW d \in Looping, NEW b \in Seq(Nat), b # <<>>
    PROVE  Step(d, b) \in Steps(d, b)
<1> USE DEF Step
<1>1. CASE d = "jk"
  BY <1>1, JkStepType
<1>2. CASE d \in {"jbd", "basen", "basen_uart"}
  BY <1>2, SizedStepType
<1>3. CASE d = "pace"
  BY <1>3, PaceStepType
<1>4. CASE d = "daly_uart"
  BY <1>4, DalyUartStepType
<1>5. CASE d = "jk_uart"
  BY <1>5, JkUartStepType
<1> QED BY <1>1, <1>2, <1>3, <1>4, <1>5 DEF Looping

\* One more round: an end stays the end; before it, the rounds get shorter.
LEMMA RoundType ==
    ASSUME NEW d \in Looping, NEW x \in Rounds(d)
    PROVE  /\ Round(d, x) \in Rounds(d)
           /\ ~x.again \/ x.rest = <<>> => Round(d, x) = x
           /\ ~(~x.again \/ x.rest = <<>>) =>
                  IF Round(d, x).again THEN Len(Round(d, x).rest) < Len(x.rest)
                  ELSE Partial(d, Round(d, x).rest)
<1>1. CASE ~x.again \/ x.rest = <<>>
  BY <1>1 DEF Round
<1>2. CASE ~(~x.again \/ x.rest = <<>>)
  <2> DEFINE y == Step(d, x.rest)
             z == Round(d, x)
  <2>1. x.rest \in Seq(Nat) /\ x.out \in Seq(Frames[d])
    BY DEF Rounds
  <2>2. y \in Steps(d, x.rest)
    BY <1>2, <2>1, StepType
  <2>3. z = [y EXCEPT !.out = x.out \o @]
    BY <1>2 DEF Round
  <2> HIDE DEF y, z
  <2>4. /\ y \in Rounds(d)
        /\ y.again => Len(y.rest) < Len(x.rest)
        /\ ~y.again => Partial(d, y.rest)
    BY <2>2 DEF Steps
  <2>5. x.out \o y.out \in Seq(Frames[d])
    <3>1. y.out \in Seq(Frames[d])
      BY <2>4 DEF Rounds
    <3> QED BY <2>1, <3>1, ConcatProperties
  <2>6. z \in Rounds(d) /\ z.again = y.again /\ z.rest = y.rest
    BY <2>3, <2>4, <2>5 DEF Rounds
  <2>7. IF z.again THEN Len(z.rest) < Len(x.rest) ELSE Partial(d, z.rest)
    BY <2>4, <2>6
  <2> QED BY <1>2, <2>6, <2>7 DEF z
<1> QED BY <1>1, <1>2

\* The loop has ended: the handler waits for more, or nothing is left.
Ended(x) == ~x.again \/ x.rest = <<>>

\* g is the rounds of a loop on b, one after the other.
Runs(d, b, g) ==
    /\ g[0] = Skips(b) /\ g[Len(b)] = Scan(d, b)
    /\ \A i \in 0..Len(b) : g[i] \in Rounds(d)
    /\ \A i \in 0..Len(b) : i # 0 => g[i] = Round(d, g[i - 1])

\* Scan is what the last of them comes to.
LEMMA ScanRuns ==
    ASSUME NEW d \in Looping, NEW b \in Seq(Nat)
    PROVE  \E g : Runs(d, b, g)
<1> DEFINE After(X) == {Round(d, x) : x \in X}
           Is(n, g) ==
               g = [i \in 0..n |-> IF i = 0 THEN {Skips(b)} ELSE After(g[i - 1])]
           Has == {n \in Nat : \E g : Is(n, g)}
           N == Len(b)
           scan == CHOOSE g : Is(N, g)
<1>1. N \in Nat
  OBVIOUS
<1>2. Scan(d, b) = CHOOSE x \in scan[N] : TRUE
  BY DEF Scan
<1>3. \A x : After({x}) = {Round(d, x)}
  OBVIOUS
<1> HIDE DEF After
<1>4. 0 \in Has
  <2> DEFINE g == [i \in 0..0 |-> {Skips(b)}]
  <2>1. Is(0, g)
    OBVIOUS
  <2> HIDE DEF g, Is
  <2> QED BY <2>1
<1>5. ASSUME NEW n \in Nat, n \in Has PROVE n + 1 \in Has
  <2>1. PICK g : Is(n, g)
    BY <1>5
  <2> DEFINE h == [i \in 0..(n + 1) |->
                      IF i <= n THEN g[i] ELSE After(g[n])]
  <2>2. \A i \in 0..n : g[i] = IF i = 0 THEN {Skips(b)}
                               ELSE After(g[i - 1])
    BY <2>1
  <2>3. \A i \in 1..(n + 1) : h[i - 1] = g[i - 1]
    OBVIOUS
  <2>4. \A i \in 0..(n + 1) : h[i] = IF i = 0 THEN {Skips(b)}
                                     ELSE After(h[i - 1])
    <3> SUFFICES ASSUME NEW i \in 0..(n + 1)
                 PROVE  h[i] = IF i = 0 THEN {Skips(b)}
                               ELSE After(h[i - 1])
      OBVIOUS
    <3>1. i <= n => h[i] = g[i]
      OBVIOUS
    <3>2. i = n + 1 => h[i] = After(g[i - 1])
      OBVIOUS
    <3>3. i # 0 => h[i - 1] = g[i - 1]
      BY <2>3
    <3> HIDE DEF h
    <3>4. CASE i = 0
      BY <3>1, <3>4, <2>2
    <3>5. CASE i # 0 /\ i <= n
      BY <3>1, <3>3, <3>5, <2>2
    <3>6. CASE i = n + 1
      BY <3>2, <3>3, <3>6
    <3> QED BY <3>4, <3>5, <3>6
  <2>5. h = [i \in 0..(n + 1) |-> h[i]]
    OBVIOUS
  <2> HIDE DEF h
  <2>6. Is(n + 1, h)
    BY <2>4, <2>5
  <2> HIDE DEF Is
  <2> QED BY <2>6
<1>6. Nat \subseteq Has
  <2> HIDE DEF Has
  <2> QED BY <1>4, <1>5, Induction
<1>7. \E g : Is(N, g)
  BY <1>1, <1>6
<1>8. Is(N, scan)
  <2> HIDE DEF Is
  <2> QED BY <1>7
<1> HIDE DEF scan
<1>9. \A i \in 0..N : scan[i] = IF i = 0 THEN {Skips(b)}
                                ELSE After(scan[i - 1])
  BY <1>8
<1> HIDE DEF Is, Has, N
<1> DEFINE Good == {n \in Nat : n <= N => \E x \in Rounds(d) : scan[n] = {x}}
<1>10. 0 \in Good
  <2>1. 0 \in 0..N
    BY <1>1
  <2>2. scan[0] = {Skips(b)}
    BY <1>9, <2>1
  <2> QED BY <2>2, Ends
<1>11. ASSUME NEW n \in Nat, n \in Good PROVE n + 1 \in Good
  <2> SUFFICES ASSUME n + 1 <= N
               PROVE  \E x \in Rounds(d) : scan[n + 1] = {x}
    OBVIOUS
  <2>1. PICK x \in Rounds(d) : scan[n] = {x}
    BY <1>1, <1>11
  <2>2. n + 1 \in 0..N /\ n + 1 # 0 /\ (n + 1) - 1 = n
    BY <1>1
  <2>3. scan[n + 1] = After(scan[n])
    BY <1>9, <2>2
  <2>4. scan[n + 1] = {Round(d, x)}
    BY <2>1, <2>3, <1>3
  <2> QED BY <2>4, RoundType
<1>12. Nat \subseteq Good
  <2> HIDE DEF Good
  <2> QED BY <1>10, <1>11, Induction
<1>13. \A i \in 0..N : \E x \in Rounds(d) : scan[i] = {x}
  BY <1>1, <1>12
<1> DEFINE g == [i \in 0..N |-> CHOOSE x : x \in scan[i]]
<1>14. \A i \in 0..N : g[i] \in Rounds(d) /\ scan[i] = {g[i]}
  BY <1>13
<1>15. 0 \in 0..N /\ N \in 0..N
  BY <1>1
<1>16. g[N] = Scan(d, b)
  BY <1>2, <1>15
<1> HIDE DEF g
<1>17. g[0] = Skips(b)
  BY <1>9, <1>14, <1>15
<1>18. ASSUME NEW i \in 0..N, i # 0 PROVE g[i] = Round(d, g[i - 1])
  <2>1. i - 1 \in 0..N
    BY <1>1, <1>18
  <2>2. scan[i] = After({g[i - 1]})
    BY <1>9, <1>14, <1>18, <2>1
  <2>3. scan[i] = {Round(d, g[i - 1])}
    BY <1>3, <2>2
  <2>4. scan[i] = {g[i]}
    BY <1>14
  <2> QED BY <2>3, <2>4
<1> QED BY <1>14, <1>16, <1>17, <1>18 DEF Runs, N

\* The rounds of a loop, as long as there are any, keep bytes and hand on
\* frames that have passed the check; as many as there are bytes are enough,
\* and what is kept then is less than a frame.
LEMMA ScanType ==
    ASSUME NEW d \in Looping, NEW b \in Seq(Nat)
    PROVE  /\ Scan(d, b) \in Rounds(d)
           /\ Ended(Scan(d, b)) /\ Partial(d, Scan(d, b).rest)
<1> DEFINE N == Len(b)
<1>1. N \in Nat
  OBVIOUS
<1>2. PICK g : Runs(d, b, g)
  BY ScanRuns
<1>3. /\ g[0] = Skips(b) /\ g[N] = Scan(d, b)
      /\ \A i \in 0..N : g[i] \in Rounds(d)
      /\ \A i \in 0..N : i # 0 => g[i] = Round(d, g[i - 1])
  BY <1>2 DEF Runs
<1> DEFINE Fine(n, x) ==
               IF Ended(x) THEN Partial(d, x.rest) ELSE Len(x.rest) + n <= N
           Good == {n \in Nat : n <= N => Fine(n, g[n])}
<1>4. Len(b) + 0 <= N /\ Skips(b).rest = b
  BY <1>1 DEF Skips
<1> HIDE DEF N
<1>5. 0 \in Good
  <2>1. CASE Ended(g[0])
    <3>1. b = <<>>
      BY <1>3, <2>1 DEF Ended, Skips
    <3> QED BY <1>3, <1>4, <2>1, <3>1, NothingKept
  <2>2. CASE ~Ended(g[0])
    BY <1>3, <1>4, <2>2
  <2> QED BY <2>1, <2>2
<1>6. ASSUME NEW n \in Nat, n \in Good PROVE n + 1 \in Good
  <2> SUFFICES ASSUME n + 1 <= N
               PROVE  Fine(n + 1, g[n + 1])
    <3> HIDE DEF Fine
    <3> QED OBVIOUS
  <2> DEFINE x == g[n]
             y == g[n + 1]
  <2>1. n \in 0..N /\ n + 1 \in 0..N /\ n + 1 # 0 /\ (n + 1) - 1 = n
    BY <1>1
  <2>2. Fine(n, x) /\ x \in Rounds(d)
    BY <1>1, <1>3, <1>6, <2>1
  <2>3. y = Round(d, x)
    BY <1>3, <2>1
  <2> HIDE DEF x, y
  <2>4. /\ y \in Rounds(d)
        /\ Ended(x) => y = x
        /\ ~Ended(x) => IF y.again THEN Len(y.rest) < Len(x.rest)
                        ELSE Partial(d, y.rest)
    BY <2>2, <2>3, RoundType DEF Ended
  <2>5. Fine(n + 1, y)
    <3>1. CASE Ended(x)
      BY <2>2, <2>4, <3>1
    <3>2. CASE ~Ended(x) /\ ~y.again
      BY <2>4, <3>2 DEF Ended
    <3>3. CASE y.again /\ y.rest = <<>>
      BY <3>3, NothingKept DEF Ended
    <3>4. CASE ~Ended(x) /\ y.again /\ y.rest # <<>>
      <4>1. ~Ended(y)
        BY <3>4 DEF Ended
      <4>2. Len(x.rest) + n <= N /\ Len(y.rest) < Len(x.rest)
        BY <2>2, <2>4, <3>4
      <4>3. Len(x.rest) \in Nat /\ Len(y.rest) \in Nat
        BY <2>2, <2>4 DEF Rounds
      <4>4. \A k, l \in Nat : l + n <= N /\ k < l => k + (n + 1) <= N
        BY <1>1
      <4>5. Len(y.rest) + (n + 1) <= N
        BY <4>2, <4>3, <4>4
      <4> QED BY <4>1, <4>5
    <3> QED BY <3>1, <3>2, <3>3, <3>4
  <2> QED BY <2>5 DEF y
<1>7. Nat \subseteq Good
  <2> HIDE DEF Good
  <2> QED BY <1>5, <1>6, Induction
<1> DEFINE z == Scan(d, b)
<1>8. N \in 0..N /\ N <= N
  BY <1>1
<1>9. z \in Rounds(d) /\ Fine(N, z)
  BY <1>1, <1>3, <1>7, <1>8
<1> HIDE DEF z
<1>10. Ended(z)
  <2> SUFFICES ASSUME ~Ended(z) PROVE FALSE
    OBVIOUS
  <2>1. z.rest \in Seq(Nat) /\ z.rest # <<>> /\ Len(z.rest) + N <= N
    BY <1>9 DEF Ended, Rounds
  <2>2. Len(z.rest) \in Nat \ {0}
    BY <2>1, EmptySeq
  <2> QED BY <1>1, <2>1, <2>2
<1> QED BY <1>9, <1>10 DEF z

-----------------------------------------------------------------------------
(* The frames of daly                                                      *)

\* What is collected of the cells: nothing, or what begins with a frame.
Collected == {p \in Seq(Nat) : p = <<>> \/ (Len(p) >= 2 /\ p[2] = 5)}

\* What is handed on: a frame that has passed the check, or the cells.
DalyOuts == {f \in Frames["daly"] : f[2] # 5}
            \cup {f \in Seq(Nat) : Len(f) >= 2 /\ f[2] = 5}

Taken == [rest : Collected, out : Seq(DalyOuts)]

\* One frame more.
LEMMA TakesType ==
    ASSUME NEW s \in Taken, NEW f
    PROVE  DalyTakes(s, f) \in Taken
<1> DEFINE full == Len(s.rest) = 2 * DalySize
           all == s.rest \o f
<1>1. DalyTakes(s, f) =
          IF Len(f) < DalySize \/ ~Valid("daly", f) THEN s
          ELSE IF ~(f[2] = 5) THEN [s EXCEPT !.out = Append(s.out, f)]
          ELSE IF full THEN s
          ELSE IF Len(all) < 2 * DalySize THEN [s EXCEPT !.rest = all]
          ELSE [rest |-> all, out |-> Append(s.out, all)]
  BY DEF DalyTakes, Taken
<1>2. s.rest \in Collected /\ s.out \in Seq(DalyOuts)
  BY DEF Taken
<1>3. CASE ~Valid("daly", f)
  BY <1>1, <1>3
<1>4. CASE Valid("daly", f) /\ f[2] # 5
  <2>1. f \in DalyOuts
    BY <1>4 DEF Valid, DalyOuts
  <2>2. Append(s.out, f) \in Seq(DalyOuts)
    BY <1>2, <2>1, AppendProperties
  <2> QED BY <1>1, <1>2, <1>4, <2>2 DEF Taken
<1>5. CASE Valid("daly", f) /\ f[2] = 5
  <2>1. f \in Seq(Nat) /\ Len(f) = 5
    BY <1>5, DalyFramesAre DEF Valid
  <2>2. all \in Seq(Nat) /\ Len(all) >= 2 /\ all[2] = 5
    <3>1. s.rest \in Seq(Nat)
      BY <1>2 DEF Collected
    <3>2. /\ all \in Seq(Nat) /\ Len(all) = Len(s.rest) + Len(f)
          /\ \A i \in 1..(Len(s.rest) + Len(f)) :
                all[i] = IF i <= Len(s.rest) THEN s.rest[i]
                         ELSE f[i - Len(s.rest)]
      BY <2>1, <3>1, ConcatProperties
    <3> HIDE DEF all
    <3>3. Len(s.rest) \in Nat
      BY <3>1
    <3>4. CASE s.rest = <<>>
      <4>1. Len(s.rest) = 0
        BY <3>4
      <4>2. all[2] = f[2 - 0]
        BY <2>1, <3>2, <4>1
      <4> QED BY <1>5, <2>1, <3>2, <4>1, <4>2
    <3>5. CASE Len(s.rest) >= 2 /\ s.rest[2] = 5
      <4>1. 2 \in 1..(Len(s.rest) + 5) /\ 2 <= Len(s.rest)
        BY <3>3, <3>5
      <4>2. all[2] = s.rest[2]
        BY <2>1, <3>2, <4>1
      <4> QED BY <2>1, <3>2, <3>3, <3>5, <4>2
    <3> QED BY <1>2, <3>4, <3>5 DEF Collected
  <2>3. all \in Collected /\ all \in DalyOuts
    BY <2>2 DEF Collected, DalyOuts
  <2>4. Append(s.out, all) \in Seq(DalyOuts)
    BY <1>2, <2>3, AppendProperties
  <2> HIDE DEF all, full
  <2> QED BY <1>1, <1>2, <1>5, <2>3, <2>4 DEF Taken
<1> QED BY <1>3, <1>4, <1>5

\* The frames of a chunk, one by one.
LEMMA DalyFramesType ==
    ASSUME NEW p \in Collected, NEW b \in Seq(Nat)
    PROVE  DalyFrames(p, b) \in Taken
<1> DEFINE frame(i) == Upto(From(b, (i - 1) * DalySize + 1), DalySize)
           none == [rest |-> p, out |-> <<>>]
           After(i, X) == {DalyTakes(x, frame(i)) : x \in X}
           Is(n, g) ==
               g = [i \in 0..n |-> IF i = 0 THEN {none} ELSE After(i, g[i - 1])]
           Has == {n \in Nat : \E g : Is(n, g)}
           N == (Len(b) + DalySize - 1) \div DalySize
           take == CHOOSE g : Is(N, g)
<1>1. N \in Nat
  <2>1. Len(b) \in Nat
    OBVIOUS
  <2> QED BY <2>1 DEF DalySize
<1>2. DalyFrames(p, b) = CHOOSE x \in take[N] : TRUE
  BY DEF DalyFrames
<1>3. \A i, x : After(i, {x}) = {DalyTakes(x, frame(i))}
  OBVIOUS
<1> HIDE DEF After, frame
<1>4. 0 \in Has
  <2> DEFINE g == [i \in 0..0 |-> {none}]
  <2>1. Is(0, g)
    OBVIOUS
  <2> HIDE DEF g, Is
  <2> QED BY <2>1
<1>5. ASSUME NEW n \in Nat, n \in Has PROVE n + 1 \in Has
  <2>1. PICK g : Is(n, g)
    BY <1>5
  <2> DEFINE h == [i \in 0..(n + 1) |->
                      IF i <= n THEN g[i] ELSE After(n + 1, g[n])]
  <2>2. \A i \in 0..n : g[i] = IF i = 0 THEN {none}
                               ELSE After(i, g[i - 1])
    BY <2>1
  <2>3. \A i \in 1..(n + 1) : h[i - 1] = g[i - 1]
    OBVIOUS
  <2>4. \A i \in 0..(n + 1) : h[i] = IF i = 0 THEN {none}
                                     ELSE After(i, h[i - 1])
    <3> SUFFICES ASSUME NEW i \in 0..(n + 1)
                 PROVE  h[i] = IF i = 0 THEN {none}
                               ELSE After(i, h[i - 1])
      OBVIOUS
    <3>1. i <= n => h[i] = g[i]
      OBVIOUS
    <3>2. i = n + 1 => h[i] = After(i, g[i - 1])
      OBVIOUS
    <3>3. i # 0 => h[i - 1] = g[i - 1]
      BY <2>3
    <3> HIDE DEF h
    <3>4. CASE i = 0
      BY <3>1, <3>4, <2>2
    <3>5. CASE i # 0 /\ i <= n
      BY <3>1, <3>3, <3>5, <2>2
    <3>6. CASE i = n + 1
      BY <3>2, <3>3, <3>6
    <3> QED BY <3>4, <3>5, <3>6
  <2>5. h = [i \in 0..(n + 1) |-> h[i]]
    OBVIOUS
  <2> HIDE DEF h
  <2>6. Is(n + 1, h)
    BY <2>4, <2>5
  <2> HIDE DEF Is
  <2> QED BY <2>6
<1>6. Nat \subseteq Has
  <2> HIDE DEF Has
  <2> QED BY <1>4, <1>5, Induction
<1>7. \E g : Is(N, g)
  BY <1>1, <1>6
<1>8. Is(N, take)
  <2> HIDE DEF Is
  <2> QED BY <1>7
<1> HIDE DEF take
<1>9. \A i \in 0..N : take[i] = IF i = 0 THEN {none}
                                ELSE After(i, take[i - 1])
  BY <1>8
<1> HIDE DEF Is, Has, N
<1> DEFINE Good == {n \in Nat : n <= N => \E x \in Taken : take[n] = {x}}
<1>10. 0 \in Good
  <2>1. take[0] = {none}
    BY <1>1, <1>9
  <2>2. none \in Taken
    BY EmptySeq DEF Taken
  <2> QED BY <2>1, <2>2
<1>11. ASSUME NEW n \in Nat, n \in Good PROVE n + 1 \in Good
  <2> SUFFICES ASSUME n + 1 <= N
               PROVE  \E x \in Taken : take[n + 1] = {x}
    OBVIOUS
  <2>1. PICK x \in Taken : take[n] = {x}
    BY <1>1, <1>11
  <2>2. take[n + 1] = After(n + 1, take[(n + 1) - 1])
    BY <1>1, <1>9
  <2>3. (n + 1) - 1 = n
    OBVIOUS
  <2>4. take[n + 1] = {DalyTakes(x, frame(n + 1))}
    BY <2>1, <2>2, <2>3, <1>3
  <2> QED BY <2>4, TakesType
<1>12. Nat \subseteq Good
  <2> HIDE DEF Good
  <2> QED BY <1>10, <1>11, Induction
<1>13. PICK x \in Taken : take[N] = {x}
  BY <1>1, <1>12
<1> QED BY <1>2, <1>13

-----------------------------------------------------------------------------
(* A chunk                                                                 *)

\* What a handler hands on for the futures: frames that have passed its
\* check, or, where it has none, bytes.
Outs ==
    IF driver \in {"daly", "daly_uart"} THEN DalyOuts
    ELSE IF driver \in {"sok", "litime", "noname"} THEN Seq(Nat)
    ELSE Frames[driver]

\* The handlers that are no loop.
LEMMA AntFeedType ==
    ASSUME NEW b \in Seq(Nat), NEW chunk \in Seq(Nat)
    PROVE  AntFeed(b, chunk) \in [rest : Seq(Nat), out : Seq(Frames["ant"])]
<1> DEFINE c == (IF Upto(chunk, 2) = <<H1, H2>> THEN <<>> ELSE b) \o chunk
           f == Upto(c, c[4] + 6)
           out == IF Len(c) >= c[4] + 6 /\ Valid("ant", f) THEN <<f>> ELSE <<>>
<1>1. c \in Seq(Nat)
  <2>1. <<>> \in Seq(Nat)
    OBVIOUS
  <2> QED BY <2>1, ConcatProperties
<1>2. AntFeed(b, chunk) = IF Last(c) # End \/ Len(c) < 4
                          THEN [rest |-> c, out |-> <<>>]
                          ELSE [rest |-> <<>>, out |-> out]
  BY DEF AntFeed
<1>3. out \in Seq(Frames["ant"])
  <2> HIDE DEF f, c
  <2>1. CASE Valid("ant", f)
    BY <2>1, One, EmptySeq DEF Valid
  <2>2. CASE ~Valid("ant", f)
    BY <2>2, EmptySeq
  <2> QED BY <2>1, <2>2
<1> HIDE DEF c, out
<1> QED BY <1>1, <1>2, <1>3, EmptySeq

\* daly2.
LEMMA Daly2FeedType ==
    ASSUME NEW b \in Seq(Nat), NEW chunk \in Seq(Nat)
    PROVE  Daly2Feed(b, chunk) \in [rest : Seq(Nat), out : Seq(Frames["daly2"])]
<1> DEFINE c == b \o chunk
           size == CASE c[2] = 3 -> c[3] + 4 [] c[2] = 6 -> 5 [] c[2] = 7 -> 4
           f == Upto(c, size)
           out == IF Valid("daly2", f) THEN <<f>> ELSE <<>>
<1>1. c \in Seq(Nat)
  BY ConcatProperties
<1>2. Daly2Feed(b, chunk) =
          IF Len(c) < 3 THEN [rest |-> c, out |-> <<>>]
          ELSE IF c[2] \notin {3, 6, 7} THEN [rest |-> <<>>, out |-> <<>>]
          ELSE IF Len(c) < size THEN [rest |-> c, out |-> <<>>]
          ELSE [rest |-> <<>>, out |-> out]
  BY DEF Daly2Feed
<1>3. out \in Seq(Frames["daly2"])
  <2> HIDE DEF f, c, size
  <2>1. CASE Valid("daly2", f)
    BY <2>1, One DEF Valid
  <2>2. CASE ~Valid("daly2", f)
    BY <2>2, EmptySeq
  <2> QED BY <2>1, <2>2
<1> HIDE DEF c, out, size
<1> QED BY <1>1, <1>2, <1>3, EmptySeq

\* sok, litime and noname hand on bytes.
LEMMA UncheckedFeedType ==
    ASSUME NEW b \in Seq(Nat), NEW chunk \in Seq(Nat)
    PROVE  /\ SokFeed(b, chunk) \in [rest : Seq(Nat), out : Seq(Seq(Nat))]
           /\ LitimeFeed(chunk) \in [rest : Seq(Nat), out : Seq(Seq(Nat))]
           /\ NoNameFeed(b, chunk) \in [rest : Seq(Nat), out : Seq(Seq(Nat))]
<1> DEFINE c == b \o chunk
           f == Upto(c, c[3] + 4)
           rest == From(c, c[3] + 4 + 1)
<1>1. c \in Seq(Nat) /\ <<>> \in Seq(Nat) /\ <<>> \in Seq(Seq(Nat))
  BY ConcatProperties
<1>2. \A x \in Seq(Nat) : <<x>> \in Seq(Seq(Nat))
  BY One
<1>3. SokFeed(b, chunk) = IF Last(c) = End /\ Len(c) > 1
                          THEN [rest |-> <<>>, out |-> <<c>>]
                          ELSE [rest |-> c, out |-> <<>>]
  BY DEF SokFeed
<1>4. NoNameFeed(b, chunk) = IF Len(c) < 3 \/ Len(c) < c[3] + 4
                             THEN [rest |-> c, out |-> <<>>]
                             ELSE [rest |-> rest, out |-> <<f>>]
  BY DEF NoNameFeed
<1> HIDE DEF c
<1>5. ~(Len(c) < 3) => f \in Seq(Nat) /\ rest \in Seq(Nat)
  <2> SUFFICES ASSUME ~(Len(c) < 3) PROVE f \in Seq(Nat) /\ rest \in Seq(Nat)
    OBVIOUS
  <2>1. Len(c) \in Nat
    BY <1>1
  <2>2. 3 \in 1..Len(c)
    BY <2>1
  <2>3. c[3] \in Nat
    BY <1>1, <2>2, ElementOfSeq
  <2>4. c[3] + 4 \in Nat /\ c[3] + 4 + 1 \in Nat \ {0}
    BY <2>3
  <2> QED BY <1>1, <2>4, FromType, UptoType
<1>6. LitimeFeed(chunk) \in [rest : Seq(Nat), out : Seq(Seq(Nat))]
  BY <1>2 DEF LitimeFeed
<1> HIDE DEF f, rest
<1>7. SokFeed(b, chunk) \in [rest : Seq(Nat), out : Seq(Seq(Nat))]
  BY <1>1, <1>2, <1>3
<1>8. NoNameFeed(b, chunk) \in [rest : Seq(Nat), out : Seq(Seq(Nat))]
  BY <1>1, <1>2, <1>4, <1>5
<1> QED BY <1>6, <1>7, <1>8

\* What a handler leaves in the buffers, and what it hands on.
LEMMA FeedType ==
    ASSUME driver \in AllDrivers, buf \in Seq(Nat), parts \in Collected,
           NEW chunk \in Seq(Nat)
    PROVE  Feed(chunk) \in [rest : Seq(Nat), parts : Collected, out : Seq(Outs)]
<1> DEFINE plain == CASE driver = "ant" -> AntFeed(buf, chunk)
                      [] driver = "sok" -> SokFeed(buf, chunk)
                      [] driver = "litime" -> LitimeFeed(chunk)
                      [] driver = "daly2" -> Daly2Feed(buf, chunk)
                      [] driver = "noname" -> NoNameFeed(buf, chunk)
                      [] driver = "daly" -> [rest |-> <<>>, out |-> <<chunk>>]
                      [] OTHER -> Scan(driver, buf \o chunk)
           daly == DalyFrames(parts, FlattenSeq(plain.out))
<1>1. Feed(chunk) =
          IF driver \in {"daly", "daly_uart"}
          THEN [rest |-> plain.rest, parts |-> daly.rest, out |-> daly.out]
          ELSE [rest |-> plain.rest, parts |-> parts, out |-> plain.out]
  BY DEF Feed
<1>2. buf \o chunk \in Seq(Nat)
  BY ConcatProperties
<1>3. CASE driver = "daly"
  <2>1. plain = [rest |-> <<>>, out |-> <<chunk>>]
    BY <1>3
  <2>2. daly = DalyFrames(parts, chunk)
    BY <2>1, FlatOne
  <2> HIDE DEF plain, daly
  <2>3. daly \in Taken
    BY <2>2, DalyFramesType
  <2>4. plain.rest \in Seq(Nat)
    BY <2>1, EmptySeq
  <2> QED BY <1>1, <1>3, <2>3, <2>4 DEF Taken, Outs
<1>4. CASE driver = "daly_uart"
  <2>1. plain = Scan(driver, buf \o chunk)
    BY <1>4
  <2> HIDE DEF plain
  <2>2. plain \in Rounds("daly_uart")
    BY <1>2, <1>4, <2>1, ScanType DEF Looping
  <2>3. plain.rest \in Seq(Nat) /\ plain.out \in Seq(Frames["daly_uart"])
    BY <2>2 DEF Rounds
  <2>4. \A f \in Frames["daly_uart"] : f \in Seq(Nat)
    BY DalyFramesAre
  <2>5. plain.out \in Seq(Seq(Nat))
    BY <2>3, <2>4
  <2>6. FlattenSeq(plain.out) \in Seq(Nat)
    BY <2>5, FlatType
  <2>7. daly \in Taken
    BY <2>6, DalyFramesType
  <2> HIDE DEF daly
  <2> QED BY <1>1, <1>4, <2>3, <2>7 DEF Taken, Outs
<1>5. CASE driver \in {"sok", "litime", "noname"}
  <2>1. plain \in [rest : Seq(Nat), out : Seq(Seq(Nat))]
    BY <1>5, UncheckedFeedType
  <2> HIDE DEF plain, daly
  <2> QED BY <1>1, <1>5, <2>1 DEF Outs
<1>6. CASE driver \in {"ant", "daly2"}
  <2>1. plain \in [rest : Seq(Nat), out : Seq(Frames[driver])]
    BY <1>6, AntFeedType, Daly2FeedType
  <2> HIDE DEF plain, daly
  <2> QED BY <1>1, <1>6, <2>1 DEF Outs
<1>7. CASE driver \in Looping \ {"daly_uart"}
  <2>1. plain = Scan(driver, buf \o chunk)
    BY <1>7 DEF Looping
  <2> HIDE DEF plain, daly
  <2>2. plain \in Rounds(driver)
    BY <1>2, <1>7, <2>1, ScanType
  <2>3. driver \notin {"daly", "daly_uart", "sok", "litime", "noname"}
    BY <1>7 DEF Looping
  <2> QED BY <1>1, <2>2, <2>3 DEF Rounds, Outs
<1> QED BY <1>3, <1>4, <1>5, <1>6, <1>7
        DEF AllDrivers, Bluetooth, Serial, Looping

-----------------------------------------------------------------------------
(* The link                                                                *)

\* The first packets are no longer than the wire.
LEMMA StartIsShorter ==
    ASSUME NEW w \in Seq(Seq(Nat)), w # <<>>
    PROVE  /\ Len(w[1]) \in 0..Len(FlattenSeq(w))
           /\ Len(FlattenSeq(Upto(w, 2))) \in 0..Len(FlattenSeq(w))
<1>1. Len(w) \in Nat \ {0}
  BY EmptySeq
<1>2. FlattenSeq(w) \in Seq(Nat)
  BY FlatType
<1>3. ASSUME NEW j \in 1..Len(w)
      PROVE  Len(FlattenSeq(Upto(w, j))) \in 0..Len(FlattenSeq(w))
  <2>1. /\ FlattenSeq(Upto(w, j)) \in Seq(Nat)
        /\ Len(FlattenSeq(Upto(w, j))) <= Len(FlattenSeq(w))
    <3>1. j \in 0..Len(w)
      OBVIOUS
    <3> QED BY <3>1, FlatType
  <2> QED BY <1>2, <2>1
<1>4. 1 \in 1..Len(w)
  BY <1>1
<1>5. FlattenSeq(Upto(w, 1)) = w[1]
  <2> DEFINE F == Flat(w)
  <2>1. F = [i \in 1..Len(w) |-> IF i = 1 THEN w[i] ELSE F[i - 1] \o w[i]]
    BY FlatDefined
  <2> HIDE DEF F
  <2>2. F[1] = w[1]
    BY <1>4, <2>1
  <2>3. FlattenSeq(Upto(w, 1)) = F[1]
    BY <1>4, FlatUpto DEF F
  <2> QED BY <2>2, <2>3
<1>6. CASE Len(w) = 1
  <2>1. /\ Upto(w, 1) \in Seq(Seq(Nat)) /\ Len(Upto(w, 1)) = 1
        /\ Upto(w, 1)[1] = w[1]
    BY <1>6, UptoType, SMTT(30)
  <2>2. /\ Upto(w, 2) \in Seq(Seq(Nat)) /\ Len(Upto(w, 2)) = 1
        /\ Upto(w, 2)[1] = w[1]
    <3>1. 2 \in Nat /\ ~(2 <= Len(w))
      BY <1>6
    <3>2. Upto(w, 2) \in Seq(Seq(Nat)) /\ Len(Upto(w, 2)) = Len(w)
      BY <3>1, UptoType
    <3>3. \A j \in 1..Len(Upto(w, 2)) : Upto(w, 2)[j] = w[j]
      BY <3>1, UptoType
    <3>4. 1 \in 1..Len(Upto(w, 2))
      BY <1>6, <3>2
    <3> QED BY <1>6, <3>2, <3>3, <3>4
  <2>3. Upto(w, 2) = Upto(w, 1)
    <3> DEFINE u == Upto(w, 2)
               v == Upto(w, 1)
    <3>1. \A i \in 1..Len(u) : u[i] = v[i]
      BY <2>1, <2>2
    <3> HIDE DEF u, v
    <3>2. u = v
      BY <2>1, <2>2, <3>1, SeqEqual DEF u, v
    <3> QED BY <3>2 DEF u, v
  <2> QED BY <1>3, <1>4, <1>5, <2>3
<1>7. CASE Len(w) # 1
  <2>1. 2 \in 1..Len(w)
    <3>1. \A x \in Nat \ {0} : x # 1 => 2 \in 1..x
      OBVIOUS
    <3> QED BY <1>1, <1>7, <3>1
  <2> QED BY <1>3, <1>4, <1>5, <2>1
<1> QED BY <1>6, <1>7

\* A chunk is no longer than what is on the wire.
LEMMA CutsType ==
    ASSUME wire \in Seq(Seq(Nat))
    PROVE  Cuts \subseteq 0..Len(Sent)
<1>1. Sent \in Seq(Nat) /\ Len(Sent) \in Nat
  BY FlatType DEF Sent
<1>2. CASE wire = <<>>
  BY <1>2 DEF Cuts
<1>3. CASE wire # <<>>
  <2>1. /\ Len(wire[1]) \in 0..Len(Sent)
        /\ Len(FlattenSeq(Upto(wire, 2))) \in 0..Len(Sent)
    BY <1>3, StartIsShorter DEF Sent
  <2> DEFINE ends == Find(Sent, <<Newline>>)
             line == IF ends = {} THEN {} ELSE {Min(ends)}
  <2>2. line \subseteq 0..Len(Sent)
    <3>1. <<Newline>> \in Seq(Nat) /\ Len(<<Newline>>) = 1
      BY DEF Newline
    <3>2. ends \subseteq 1..Len(Sent)
      BY <1>1, <3>1 DEF Find
    <3>3. ends # {} => Min(ends) \in ends
      BY <1>1, <3>1, FindType
    <3> HIDE DEF ends
    <3>4. 1..Len(Sent) \subseteq 0..Len(Sent)
      BY <1>1
    <3>5. ASSUME NEW x \in line PROVE x \in 0..Len(Sent)
      <4>1. ends # {} /\ x = Min(ends)
        OBVIOUS
      <4> QED BY <3>2, <3>3, <3>4, <4>1
    <3> QED BY <3>5
  <2>3. Cuts = CASE ByLine -> line
                 [] ~ByLine /\ driver \in Serial \cup {"jk"} -> 1..Len(Sent)
                 [] driver = "litime" -> {Len(wire[1])}
                 [] driver = "daly" -> {Len(wire[1]), Len(FlattenSeq(Upto(wire, 2)))}
                 [] OTHER -> {n \in 1..Len(wire[1]) : n > 1 \/ n = Len(wire[1])}
    BY <1>3 DEF Cuts
  <2> HIDE DEF line
  <2>4. 1..Len(Sent) \subseteq 0..Len(Sent)
    BY <1>1
  <2>5. {n \in 1..Len(wire[1]) : n > 1 \/ n = Len(wire[1])} \subseteq 0..Len(Sent)
    BY <1>1, <2>1
  <2>6. CASE ByLine
    <3>1. driver \notin {"litime", "daly"}
      BY <2>6 DEF ByLine, Serial
    <3> QED BY <2>2, <2>3, <2>6, <3>1
  <2>7. CASE ~ByLine /\ driver \in Serial \cup {"jk"}
    <3>1. driver \notin {"litime", "daly"}
      BY <2>7 DEF Serial
    <3> QED BY <2>3, <2>4, <2>7, <3>1
  <2>8. CASE ~ByLine /\ driver \notin Serial \cup {"jk"}
    BY <2>1, <2>3, <2>5, <2>8
  <2> QED BY <2>6, <2>7, <2>8
<1> QED BY <1>2, <1>3

\* What is left of the wire are packets of bytes.
LEMMA UnreadType ==
    ASSUME wire \in Seq(Seq(Nat)), NEW n \in 0..Len(Sent)
    PROVE  Unread(n) \in Seq(Seq(Nat))
<1> DEFINE read(i) == Len(FlattenSeq(Upto(wire, i)))
           K == {i \in 0..Len(wire) : read(i) <= n}
           k == Max(K)
           cut == n - read(k)
<1>1. Len(wire) \in Nat /\ Sent \in Seq(Nat) /\ Len(Sent) \in Nat
  BY FlatType DEF Sent
<1>2. \A i \in 0..Len(wire) : read(i) \in Nat
  <2>1. \A i \in 0..Len(wire) : FlattenSeq(Upto(wire, i)) \in Seq(Nat)
    BY FlatType
  <2> QED BY <2>1
<1>3. read(0) = 0
  <2>1. Upto(wire, 0) \in Seq(Seq(Nat)) /\ Len(Upto(wire, 0)) = 0
    BY <1>1, UptoType
  <2>2. Upto(wire, 0) = <<>>
    BY <2>1, EmptySeq
  <2>3. FlattenSeq(<<>>) = <<>>
    BY DEF FlattenSeq
  <2> QED BY <2>2, <2>3
<1>4. read(Len(wire)) = Len(Sent)
  <2>1. Upto(wire, Len(wire)) = wire
    <3> DEFINE u == Upto(wire, Len(wire))
    <3>1. u \in Seq(Seq(Nat)) /\ Len(u) = Len(wire) /\ \A j \in 1..Len(u) : u[j] = wire[j]
      <4>1. Len(wire) <= Len(wire)
        BY <1>1
      <4> QED BY <1>1, <4>1, UptoType
    <3> HIDE DEF u
    <3>2. u = wire
      BY <3>1, SeqEqual
    <3> QED BY <3>2 DEF u
  <2> QED BY <2>1 DEF Sent
<1>5. Unread(n) = IF cut = 0 THEN From(wire, k + 1)
                  ELSE <<From(wire[k + 1], cut + 1)>> \o From(wire, k + 2)
  BY DEF Unread
<1>6. K \subseteq 0..Len(wire) /\ 0 \in K
  BY <1>1, <1>3
<1> HIDE DEF read
<1>7. k \in K
  <2> HIDE DEF K
  <2> QED BY <1>1, <1>6, MaxIs
<1>8. k \in 0..Len(wire) /\ read(k) <= n /\ read(k) \in Nat
  BY <1>2, <1>7
<1> HIDE DEF k, K
<1>9. CASE cut = 0
  <2>1. k + 1 \in Nat \ {0}
    BY <1>8
  <2> QED BY <1>5, <1>9, <2>1, FromType
<1>10. CASE cut # 0
  <2>1. k # Len(wire)
    BY <1>1, <1>4, <1>8, <1>10
  <2>2. k + 1 \in 1..Len(wire) /\ k + 2 \in Nat \ {0}
    BY <1>1, <1>8, <2>1
  <2>3. cut + 1 \in Nat \ {0}
    BY <1>1, <1>8
  <2> HIDE DEF cut
  <2>4. wire[k + 1] \in Seq(Nat)
    BY <2>2, ElementOfSeq
  <2>5. From(wire[k + 1], cut + 1) \in Seq(Nat) /\ From(wire, k + 2) \in Seq(Seq(Nat))
    BY <2>2, <2>3, <2>4, FromType
  <2>6. <<From(wire[k + 1], cut + 1)>> \in Seq(Seq(Nat))
    BY <2>5, One
  <2> QED BY <1>5, <1>10, <2>5, <2>6, ConcatProperties
<1> QED BY <1>9, <1>10

-----------------------------------------------------------------------------
(* The inductive invariant                                                 *)

\* What waits is a query of the driver.
Known == asked # None => asked.cmd \in Commands(driver)

\* What daly has collected are cells.
Gathers == parts \in Collected

IInv == TypeOK /\ Known /\ Gathers

\* What a chunk does, as far as the properties tell: a frame that answers
\* the query that waits is taken or raises, or nothing waits for it.
LEMMA Delivers ==
    ASSUME IInv, Deliver
    PROVE  /\ wire' \in Seq(Seq(Nat)) /\ buf' \in Seq(Nat) /\ parts' \in Collected
           /\ \/ UNCHANGED <<asked, at, got>>
              \/ /\ asked # None
                 /\ \E f \in Outs : /\ Answers(driver, f, asked.cmd)
                                    /\ Accepts(driver, asked.cmd, f)
                                    /\ Goes(f)
              \/ Fails
           /\ UNCHANGED <<device, stamp, faults>>
<1>1. PICK n \in Cuts :
          \E fed \in {Feed(Upto(Sent, n))} :
             LET mine == {i \in DOMAIN fed.out :
                              Answers(driver, fed.out[i], asked.cmd)}
                 first == fed.out[Min(mine)]
             IN /\ wire' = Unread(n)
                /\ buf' = fed.rest /\ parts' = fed.parts
                /\ IF asked = None \/ mine = {} THEN UNCHANGED <<asked, at, got>>
                   ELSE IF Accepts(driver, asked.cmd, first) THEN Goes(first)
                   ELSE Fails
  BY DEF Deliver
<1> DEFINE fed == Feed(Upto(Sent, n))
           mine == {i \in DOMAIN fed.out :
                        Answers(driver, fed.out[i], asked.cmd)}
           first == fed.out[Min(mine)]
<1>2. /\ wire' = Unread(n)
      /\ buf' = fed.rest /\ parts' = fed.parts
      /\ IF asked = None \/ mine = {} THEN UNCHANGED <<asked, at, got>>
         ELSE IF Accepts(driver, asked.cmd, first) THEN Goes(first)
         ELSE Fails
  BY <1>1
<1>3. UNCHANGED <<device, stamp, faults>>
  BY DEF Deliver
<1>4. /\ driver \in AllDrivers /\ wire \in Seq(Seq(Nat)) /\ buf \in Seq(Nat)
      /\ parts \in Collected
  BY AnswersAssumption DEF IInv, TypeOK, Gathers
<1>5. n \in 0..Len(Sent) /\ Sent \in Seq(Nat) /\ Len(Sent) \in Nat
  BY <1>4, CutsType, FlatType DEF Sent
<1>6. Upto(Sent, n) \in Seq(Nat)
  BY <1>5, UptoType
<1>7. fed \in [rest : Seq(Nat), parts : Collected, out : Seq(Outs)]
  BY <1>4, <1>6, FeedType
<1>8. wire' \in Seq(Seq(Nat))
  BY <1>2, <1>4, <1>5, UnreadType
<1> HIDE DEF fed
<1>9. DOMAIN fed.out = 1..Len(fed.out) /\ \A i \in DOMAIN fed.out : fed.out[i] \in Outs
  BY <1>7
<1>10. CASE asked = None \/ mine = {}
  BY <1>2, <1>3, <1>7, <1>8, <1>10
<1>11. CASE asked # None /\ mine # {}
  <2>1. mine \subseteq Nat
    BY <1>9
  <2>2. Min(mine) \in mine
    BY <1>11, <2>1, MinIs
  <2>3. first \in Outs /\ Answers(driver, first, asked.cmd)
    BY <1>9, <2>2
  <2> HIDE DEF first, mine
  <2> QED BY <1>2, <1>3, <1>7, <1>8, <1>11, <2>3
<1> QED BY <1>10, <1>11

\* The types hold at first.
LEMMA TypedInit ==
    ASSUME Init
    PROVE  IInv
<1>1. driver \in AllDrivers /\ driver \in Drivers
  BY AnswersAssumption DEF Init
<1>2. Len(Cycle(driver)) \in 1..3
  BY <1>1, CycleType
<1>3. 1 \in 1..Len(Cycle(driver))
  BY <1>2
<1>4. forwarded \in BOOLEAN
  BY AnswersAssumption DEF Init
<1>5. /\ <<>> \in Seq(Seq(Nat)) /\ <<>> \in Seq(Nat)
      /\ 0 \in Stamps /\ MaxFaults \in 0..MaxFaults
  BY AnswersAssumption DEF Stamps
<1>6. TypeOK
  BY <1>1, <1>3, <1>4, <1>5 DEF Init, TypeOK, Nothing
<1>7. Known /\ Gathers
  BY <1>5 DEF Init, Known, Gathers, Collected
<1> QED BY <1>6, <1>7 DEF IInv

\* Every action keeps them.
LEMMA TypedStep ==
    ASSUME IInv, [Next]_vars
    PROVE  IInv'
<1> USE DEF IInv
<1>1. /\ driver \in AllDrivers
      /\ Cycle(driver) \in Seq(3..6)
      /\ Len(Cycle(driver)) \in 1..3
      /\ \A i \in 1..Len(Cycle(driver)) : Cycle(driver)[i] \in Commands(driver)
      /\ Commands(driver) \subseteq 3..6
  BY AnswersAssumption, CycleType DEF TypeOK
<1>2. MaxFaults \in Nat /\ \A n \in 0..MaxFaults : n > 0 => n - 1 \in 0..MaxFaults
  BY AnswersAssumption
<1>3. <<>> \in Seq(Seq(Nat)) /\ <<>> \in Seq(Nat)
  OBVIOUS
<1>4. CASE Ask
  <2> DEFINE c == Cycle(driver)[at]
             s == (stamp + 1) % Cardinality(Stamps)
  <2>1. /\ asked' = [cmd |-> c, stamp |-> s] /\ stamp' = s
        /\ wire' = Arriving(Answer(driver, c, s))
        /\ parts' = PartsFor(driver, c, parts)
        /\ buf' = Cleared(driver, buf) /\ got' = Nothing
        /\ UNCHANGED <<device, at>>
        /\ faults' = faults \/ (faults > 0 /\ faults' = faults - 1)
    BY <1>4 DEF Ask
  <2>2. c \in Commands(driver)
    BY <1>1 DEF TypeOK
  <2>3. s \in Stamps
    <3>1. Cardinality(Stamps) = 3
      <4>1. 0 \in Int /\ 2 \in Int /\ ~(0 > 2) /\ 2 - 0 + 1 = 3
        OBVIOUS
      <4> QED BY <4>1, FS_Interval DEF Stamps
    <3>2. stamp \in 0..2
      BY DEF TypeOK, Stamps
    <3> QED BY <3>1, <3>2 DEF Stamps
  <2> HIDE DEF c, s
  <2>4. Answer(driver, c, s) \in Seq(Seq(Nat))
    BY <1>1, <2>2, <2>3, AnswerType
  <2>5. wire' \in Seq(Seq(Nat))
    <3>1. wire \in Seq(Seq(Nat))
      BY DEF TypeOK
    <3> QED BY <2>1, <2>4, <3>1, ConcatProperties DEF Arriving
  <2>6. buf' \in Seq(Nat)
    BY <1>3, <2>1 DEF Cleared, TypeOK
  <2>7. parts' \in Seq(Nat) /\ parts' \in Collected
    BY <1>3, <2>1 DEF PartsFor, TypeOK, Gathers, Collected
  <2>8. faults' \in 0..MaxFaults
    BY <1>2, <2>1 DEF TypeOK
  <2>9. asked' \in Query
    BY <1>1, <2>1, <2>2, <2>3 DEF Query
  <2>10. TypeOK'
    BY <2>1, <2>3, <2>5, <2>6, <2>7, <2>8, <2>9 DEF TypeOK, Nothing, device
  <2>11. Known' /\ Gathers'
    BY <2>1, <2>2, <2>7 DEF Known, Gathers, device
  <2> QED BY <2>10, <2>11
<1>5. CASE Deliver
  <2>1. /\ wire' \in Seq(Seq(Nat)) /\ buf' \in Seq(Nat) /\ parts' \in Collected
        /\ \/ UNCHANGED <<asked, at, got>>
           \/ asked # None /\ \E f : Goes(f)
           \/ Fails
        /\ UNCHANGED <<device, stamp, faults>>
    BY <1>5, Delivers
  <2>2. parts' \in Seq(Nat)
    BY <2>1 DEF Collected
  <2>3. CASE UNCHANGED <<asked, at, got>>
    BY <2>1, <2>2, <2>3 DEF TypeOK, Known, Gathers, device
  <2>4. ASSUME asked # None, NEW f, Goes(f) PROVE IInv'
    <3>1. /\ got' = [of |-> asked, ans |-> Meaning(f)]
          /\ at' = IF at = Len(Cycle(driver)) THEN 1 ELSE at + 1
          /\ asked' = None
      BY <2>4 DEF Goes
    <3>2. at' \in 1..Len(Cycle(driver))
      BY <1>1, <3>1 DEF TypeOK
    <3>3. got' \in [of : Query \cup {None}, ans : Query \cup {None}]
      BY <3>1, MeaningIs DEF TypeOK
    <3>4. TypeOK'
      BY <2>1, <2>2, <3>1, <3>2, <3>3 DEF TypeOK, device
    <3> QED BY <2>1, <3>1, <3>4 DEF Known, Gathers
  <2>5. CASE Fails
    <3>1. 1 \in 1..Len(Cycle(driver))
      BY <1>1
    <3> QED BY <2>1, <2>2, <2>5, <3>1 DEF Fails, TypeOK, Known, Gathers, device
  <2> QED BY <2>1, <2>3, <2>4, <2>5
<1>6. CASE Timeout
  <2>1. faults' \in 0..MaxFaults
    BY <1>2, <1>6 DEF Timeout, TypeOK
  <2>2. 1 \in 1..Len(Cycle(driver))
    BY <1>1
  <2> QED BY <1>6, <2>1, <2>2 DEF Timeout, Fails, TypeOK, Known, Gathers, device
<1>7. CASE LinkDrops
  BY <1>2, <1>3, <1>7 DEF LinkDrops, TypeOK, Known, Gathers, device
<1>8. CASE Noise
  <2>1. PICK x \in {H1, End, 7} : wire' = <<<<x>>>> \o wire
    BY <1>8 DEF Noise
  <2>2. <<<<x>>>> \in Seq(Seq(Nat))
    <3>1. x \in Nat
      BY DEF H1, End
    <3>2. <<x>> \in Seq(Nat)
      BY <3>1, One
    <3> QED BY <3>2, One
  <2>3. wire' \in Seq(Seq(Nat))
    BY <2>1, <2>2, ConcatProperties DEF TypeOK
  <2> QED BY <1>2, <1>8, <2>3 DEF Noise, TypeOK, Known, Gathers, device
<1>9. CASE UNCHANGED vars
  BY <1>9 DEF vars, device, TypeOK, Known, Gathers
<1> QED BY <1>4, <1>5, <1>6, <1>7, <1>8, <1>9 DEF Next

-----------------------------------------------------------------------------
(* The theorems                                                            *)

\* The link and the buffers hold bytes, a query of the cycle is always next,
\* and an answer that was taken is that of a query, or garbage.
THEOREM AnswersTyped == Spec => []TypeOK
<1>1. IInv => TypeOK
  BY DEF IInv
<1> QED BY <1>1, TypedInit, TypedStep, PTL DEF Spec

\* An answer that is taken: the properties of what was taken before it, and
\* of what waits, are all that is needed.
LEMMA Taking ==
    ASSUME IInv, [Next]_vars
    PROVE  \/ got' = got \/ got' = Nothing
           \/ /\ asked # None
              /\ \E f \in Outs : /\ Answers(driver, f, asked.cmd)
                                 /\ Accepts(driver, asked.cmd, f)
                                 /\ got' = [of |-> asked, ans |-> Meaning(f)]
<1>1. CASE Deliver
  BY <1>1, Delivers DEF Goes, Fails
<1>2. CASE ~Deliver
  BY <1>2 DEF Next, Ask, Timeout, Fails, LinkDrops, Noise, vars
<1> QED BY <1>1, <1>2

\* The driver never changes.
LEMMA SameDriver ==
    ASSUME IInv, [Next]_vars
    PROVE  driver' = driver /\ driver \in AllDrivers
BY AnswersAssumption, Delivers
   DEF Next, Ask, Timeout, LinkDrops, Noise, vars, device, IInv, TypeOK

\* Drivers whose answers name the query never take the late answer to one
\* command for the answer to another.
THEOREM AnswersFit == Spec => []AnswerFits
<1>1. Init => AnswerFits
  BY DEF Init, AnswerFits, Nothing
<1>2. IInv /\ AnswerFits /\ [Next]_vars => AnswerFits'
  <2> SUFFICES ASSUME IInv, AnswerFits, [Next]_vars,
                      driver' \notin {"noname", "pace"}, got'.ans # None
               PROVE  got'.ans.cmd = got'.of.cmd
    BY DEF AnswerFits
  <2>1. driver' = driver /\ driver \in AllDrivers \ {"noname", "pace"}
    BY SameDriver
  <2>2. CASE got' = got
    BY <2>1, <2>2 DEF AnswerFits
  <2>3. CASE got' = Nothing
    BY <2>3 DEF Nothing
  <2>4. ASSUME asked # None, NEW f \in Outs,
               Answers(driver, f, asked.cmd),
               got' = [of |-> asked, ans |-> Meaning(f)]
        PROVE  got'.ans.cmd = got'.of.cmd
    <3>1. Meaning(f) # None
      BY <2>4
    <3>2. asked.cmd \in Commands(driver)
      BY <2>4 DEF IInv, Known
    <3>3. Meaning(f).cmd = asked.cmd
      BY <2>1, <2>4, <3>1, <3>2, Named
    <3> QED BY <2>4, <3>3
  <2> QED BY <2>2, <2>3, <2>4, Taking
<1> QED BY <1>1, <1>2, TypedInit, TypedStep, PTL DEF Spec

\* Drivers that check what they get hand on only what the device sent as one
\* answer, but for the cells of daly, which come in pieces.
THEOREM AnswersWhole == Spec => []WholeAnswers
<1>1. Init => WholeAnswers
  BY DEF Init, WholeAnswers, Nothing
<1>2. IInv /\ WholeAnswers /\ [Next]_vars => WholeAnswers'
  <2> SUFFICES ASSUME IInv, WholeAnswers, [Next]_vars,
                      driver' \notin {"sok", "litime"}, ~InPieces',
                      got'.of # None
               PROVE  got'.ans # None
    BY DEF WholeAnswers
  <2>1. driver' = driver /\ driver \in AllDrivers
    BY SameDriver
  <2>2. CASE got' = got
    BY <2>1, <2>2 DEF WholeAnswers, InPieces
  <2>3. CASE got' = Nothing
    BY <2>3 DEF Nothing
  <2>4. ASSUME asked # None, NEW f \in Outs,
               Answers(driver, f, asked.cmd), Accepts(driver, asked.cmd, f),
               got' = [of |-> asked, ans |-> Meaning(f)]
        PROVE  got'.ans # None
    <3>1. CASE driver \in {"daly", "daly_uart"}
      <4>1. asked.cmd # 5
        BY <2>1, <2>4, <3>1 DEF InPieces, DalyCount
      <4>2. f[2] = asked.cmd
        BY <2>4, <3>1 DEF Answers
      <4>3. f \in Frames["daly"] /\ f[2] # 5
        BY <2>4, <3>1, <4>1, <4>2 DEF Outs, DalyOuts
      <4> QED BY <2>4, <3>1, <4>3, DalyFrameMeans
    <3>2. CASE driver = "noname"
      <4>1. f \in Frames[driver]
        BY <2>4, <3>2 DEF Accepts, NoNameAccepts, Valid
      <4> QED BY <2>1, <2>4, <3>2, <4>1, FrameMeans
    <3>3. CASE driver \notin {"daly", "daly_uart", "noname"}
      <4>1. f \in Frames[driver]
        BY <2>1, <2>4, <3>3 DEF Outs
      <4> QED BY <2>1, <2>4, <3>3, <4>1, FrameMeans
    <3> QED BY <3>1, <3>2, <3>3
  <2> QED BY <2>2, <2>3, <2>4, Taking
<1> QED BY <1>1, <1>2, TypedInit, TypedStep, PTL DEF Spec

\* The callback of a driver that loops comes to an end, whatever bytes it is
\* given: a round after which there is another has taken a byte.  What it
\* then keeps is less than a frame (jk_uart takes one frame and stops).
THEOREM LoopsEnd ==
    ASSUME NEW d \in Looping, NEW b \in Seq(Nat)
    PROVE  /\ b # <<>> /\ Step(d, b).again => Len(Step(d, b).rest) < Len(b)
           /\ Ended(Scan(d, b)) /\ Partial(d, Scan(d, b).rest)
<1>1. b # <<>> => Step(d, b) \in Steps(d, b)
  BY StepType
<1> QED BY <1>1, ScanType DEF Steps

\* What a driver that loops keeps between two chunks is less than a frame: an
\* answer that came whole and in step never waits for the next chunk.
Held == driver \in Looping => Partial(driver, buf)

\* A chunk leaves less than a frame.
LEMMA HeldAfter ==
    ASSUME IInv, Deliver, driver \in Looping
    PROVE  Partial(driver, buf')
<1>1. PICK n \in Cuts : buf' = Feed(Upto(Sent, n)).rest
  BY DEF Deliver
<1>2. /\ driver \in AllDrivers /\ wire \in Seq(Seq(Nat)) /\ buf \in Seq(Nat)
  BY AnswersAssumption DEF IInv, TypeOK
<1>3. n \in 0..Len(Sent) /\ Sent \in Seq(Nat) /\ Len(Sent) \in Nat
  BY <1>2, CutsType, FlatType DEF Sent
<1> DEFINE chunk == Upto(Sent, n)
<1>4. chunk \in Seq(Nat)
  BY <1>3, UptoType
<1>5. buf' = Feed(chunk).rest
  BY <1>1
<1> HIDE DEF chunk
<1>6. buf \o chunk \in Seq(Nat)
  BY <1>2, <1>4, ConcatProperties
<1>7. Feed(chunk).rest = Scan(driver, buf \o chunk).rest
  BY DEF Looping, Feed
<1> QED BY <1>5, <1>6, <1>7, ScanType

\* No whole frame is kept waiting: the buffer of jk has at most five bytes,
\* that of daly_uart four, that of pace no terminator, the others less than
\* the length that their third byte announces (jk_uart excepted).
THEOREM HeldIsPartial == Spec => []Held
<1>1. Init => Held
  BY NothingKept DEF Init, Held
<1>2. IInv /\ Held /\ [Next]_vars => Held'
  <2> SUFFICES ASSUME IInv, Held, [Next]_vars, driver' \in Looping
               PROVE  Partial(driver', buf')
    BY DEF Held
  <2>1. driver' = driver
    BY SameDriver
  <2>2. CASE Deliver
    BY <2>1, <2>2, HeldAfter
  <2>3. CASE ~Deliver
    <3>1. buf' = buf
      BY <2>1, <2>3 DEF Next, Ask, Cleared, Looping, Timeout, LinkDrops, Noise, vars
    <3> QED BY <2>1, <3>1 DEF Held
  <2> QED BY <2>2, <2>3
<1> QED BY <1>1, <1>2, TypedInit, TypedStep, PTL DEF Spec

-----------------------------------------------------------------------------
(* Rounds: a loop goes round once, and goes on with what is left           *)

\* What comes before is handed on before.
After(o, x) == [rest |-> x.rest, out |-> o \o x.out, again |-> x.again]

\* One more round leaves it there.
LEMMA RoundAfter ==
    ASSUME NEW d \in Looping, NEW x \in Rounds(d), NEW o \in Seq(Frames[d])
    PROVE  Round(d, After(o, x)) = After(o, Round(d, x))
<1>1. x.rest \in Seq(Nat) /\ x.out \in Seq(Frames[d])
  BY DEF Rounds
<1>2. CASE Ended(x)
  BY <1>2 DEF Ended, After, Round
<1>3. CASE ~Ended(x)
  <2> DEFINE y == Step(d, x.rest)
  <2>1. y \in Steps(d, x.rest)
    BY <1>1, <1>3, StepType DEF Ended
  <2>2. y \in Rounds(d) /\ y.out \in Seq(Frames[d])
    BY <2>1 DEF Steps, Rounds
  <2>3. /\ Round(d, x) = [y EXCEPT !.out = x.out \o @]
        /\ Round(d, After(o, x)) = [y EXCEPT !.out = (o \o x.out) \o @]
    BY <1>3 DEF Round, Ended, After
  <2> HIDE DEF y
  <2>4. (o \o x.out) \o y.out = o \o (x.out \o y.out)
    <3> DEFINE F == Frames[d]
               u == x.out
               v == y.out
    <3>1. o \in Seq(F) /\ u \in Seq(F) /\ v \in Seq(F)
      BY <1>1, <2>2
    <3> HIDE DEF F, u, v
    <3>2. (o \o u) \o v = o \o (u \o v)
      BY <3>1, ConcatAssociative
    <3> QED BY <3>2 DEF u, v
  <2>5. Round(d, x) = [rest |-> y.rest, out |-> x.out \o y.out, again |-> y.again]
    BY <2>2, <2>3 DEF Rounds
  <2>6. Round(d, After(o, x)) = [rest |-> y.rest, out |-> (o \o x.out) \o y.out, again |-> y.again]
    BY <2>2, <2>3 DEF Rounds
  <2> QED BY <2>4, <2>5, <2>6 DEF After
<1> QED BY <1>2, <1>3

\* A loop on no bytes.
LEMMA ScanEmpty ==
    ASSUME NEW d \in Looping
    PROVE  Scan(d, <<>>) = Skips(<<>>)
<1>0. <<>> \in Seq(Nat)
  OBVIOUS
<1>1. PICK g : Runs(d, <<>>, g)
  BY <1>0, ScanRuns
<1> QED BY <1>1 DEF Runs

\* The loop goes round once, and goes on with what is left.
LEMMA ScanUnfolds ==
    ASSUME NEW d \in Looping, NEW b \in Seq(Nat), b # <<>>
    PROVE  Scan(d, b) = IF Ended(Step(d, b)) THEN Step(d, b)
                        ELSE After(Step(d, b).out, Scan(d, Step(d, b).rest))
<1> DEFINE N == Len(b)
           y == Step(d, b)
           r == y.rest
           M == Len(r)
<1>1. N \in Nat \ {0}
  BY EmptySeq
<1>2. y \in Steps(d, b)
  BY StepType
<1>3. /\ y \in Rounds(d) /\ r \in Seq(Nat) /\ M \in Nat
      /\ y.again => M < N
      /\ y.out \in Seq(Frames[d]) /\ y.again \in BOOLEAN
      /\ y = [rest |-> r, out |-> y.out, again |-> y.again]
  BY <1>2 DEF Steps, Rounds
<1>4. PICK g : Runs(d, b, g)
  BY ScanRuns
<1>5. /\ g[0] = Skips(b) /\ g[N] = Scan(d, b)
      /\ \A i \in 0..N : g[i] \in Rounds(d)
      /\ \A i \in 0..N : i # 0 => g[i] = Round(d, g[i - 1])
  BY <1>4 DEF Runs
<1>6. PICK h : Runs(d, r, h)
  BY <1>3, ScanRuns
<1>7. /\ h[0] = Skips(r) /\ h[M] = Scan(d, r)
      /\ \A i \in 0..M : h[i] \in Rounds(d)
      /\ \A i \in 0..M : i # 0 => h[i] = Round(d, h[i - 1])
  BY <1>6 DEF Runs
<1>8. Round(d, Skips(b)) = y
  <2>1. Round(d, Skips(b)) = [y EXCEPT !.out = <<>> \o @]
    BY DEF Round, Skips
  <2>2. <<>> \o y.out = y.out
    BY <1>3, ConcatEmptySeq
  <2> HIDE DEF y, r
  <2> QED BY <1>3, <2>1, <2>2
<1> HIDE DEF N, y, r, M
<1>9. g[1] = y
  <2>1. 1 \in 0..N /\ 1 # 0 /\ 1 - 1 = 0
    BY <1>1
  <2>2. g[1] = Round(d, g[0])
    BY <1>5, <2>1
  <2> QED BY <1>5, <1>8, <2>2
\* An end stays.
<1>10. ASSUME NEW k \in 0..N, Ended(g[k]) PROVE g[N] = g[k]
  <2> DEFINE Good == {n \in Nat : k + n <= N => g[k + n] = g[k]}
  <2>1. 0 \in Good
    BY <1>1
  <2>2. ASSUME NEW n \in Nat, n \in Good PROVE n + 1 \in Good
    <3> SUFFICES ASSUME k + (n + 1) <= N PROVE g[k + (n + 1)] = g[k]
      OBVIOUS
    <3>1. k + n <= N /\ k + (n + 1) \in 0..N /\ k + (n + 1) # 0 /\ (k + (n + 1)) - 1 = k + n
      BY <1>1
    <3>2. g[k + n] = g[k]
      BY <2>2, <3>1
    <3>3. g[k + (n + 1)] = Round(d, g[k])
      BY <1>5, <3>1, <3>2
    <3>4. Round(d, g[k]) = g[k]
      BY <1>5, <1>10, RoundType DEF Ended
    <3> QED BY <3>3, <3>4
  <2>3. Nat \subseteq Good
    <3> HIDE DEF Good
    <3> QED BY <2>1, <2>2, Induction
  <2>4. N - k \in Nat /\ k + (N - k) <= N /\ k + (N - k) = N
    BY <1>1
  <2>5. N - k \in Good
    BY <2>3, <2>4
  <2> QED BY <2>4, <2>5
<1>11. CASE Ended(y)
  <2>1. 1 \in 0..N
    BY <1>1
  <2>2. g[N] = y
    BY <1>9, <1>10, <1>11, <2>1
  <2> QED BY <1>5, <1>11, <2>2 DEF y
<1>12. CASE ~Ended(y)
  <2>1. y.again /\ M < N
    BY <1>3, <1>12 DEF Ended
  <2> DEFINE Good == {n \in Nat : n <= M => g[n + 1] = After(y.out, h[n])}
  <2>2. 0 \in Good
    <3>1. y.out \o <<>> = y.out
      BY <1>3, ConcatEmptySeq
    <3>2. After(y.out, h[0]) = [rest |-> r, out |-> y.out, again |-> TRUE]
      BY <1>7, <3>1 DEF After, Skips
    <3>3. After(y.out, h[0]) = y
      BY <1>3, <2>1, <3>2
    <3>4. g[0 + 1] = After(y.out, h[0])
      BY <1>9, <3>3
    <3> QED BY <3>4
  <2>3. ASSUME NEW n \in Nat, n \in Good PROVE n + 1 \in Good
    <3> SUFFICES ASSUME n + 1 <= M PROVE g[(n + 1) + 1] = After(y.out, h[n + 1])
      OBVIOUS
    <3>0. N \in Nat /\ M \in Nat /\ M < N /\ n + 1 <= M
      BY <1>1, <1>3, <2>1
    <3>1. /\ n <= M /\ n \in 0..M /\ n + 1 \in 0..M /\ n + 1 # 0 /\ (n + 1) - 1 = n
          /\ (n + 1) + 1 \in 0..N /\ (n + 1) + 1 # 0 /\ ((n + 1) + 1) - 1 = n + 1
      BY <3>0
    <3>2. g[n + 1] = After(y.out, h[n])
      BY <2>3, <3>1
    <3>3. g[(n + 1) + 1] = Round(d, After(y.out, h[n]))
      BY <1>5, <3>1, <3>2
    <3>4. h[n + 1] = Round(d, h[n]) /\ h[n] \in Rounds(d)
      BY <1>7, <3>1
    <3> QED BY <1>3, <3>3, <3>4, RoundAfter
  <2>4. Nat \subseteq Good
    <3> HIDE DEF Good
    <3> QED BY <2>2, <2>3, Induction
  <2>5. M + 1 \in 0..N /\ M <= M
    BY <1>1, <1>3, <2>1
  <2>6. g[M + 1] = After(y.out, h[M])
    BY <1>3, <2>4, <2>5
  <2>7. Ended(h[M])
    BY <1>3, <1>7, ScanType
  <2>8. Ended(g[M + 1])
    BY <2>6, <2>7 DEF Ended, After
  <2>9. g[N] = After(y.out, Scan(d, r))
    BY <1>7, <1>10, <2>5, <2>6, <2>8
  <2> QED BY <1>5, <1>12, <2>9 DEF y, r
<1> QED BY <1>11, <1>12

-----------------------------------------------------------------------------
(* Pieces of what comes in two chunks                                      *)

\* What follows an index, byte by byte.
LEMMA FromIs ==
    ASSUME NEW b \in Seq(Nat), NEW i \in Nat \ {0}
    PROVE  \A j \in 1..Len(From(b, i)) : From(b, i)[j] = b[i + j - 1]
<1>1. \A j \in i..Len(b) : b[j] \in Nat
  OBVIOUS
<1>2. \A j \in 1..(Len(b) - i + 1) : From(b, i)[j] = b[i + j - 1]
  BY <1>1, SubSeqProperties DEF From
<1>3. Len(From(b, i)) = IF i <= Len(b) THEN Len(b) - i + 1 ELSE 0
  BY FromLen
<1>4. Len(From(b, i)) <= Len(b) - i + 1 \/ Len(From(b, i)) = 0
  BY <1>3
<1> QED BY <1>2, <1>3

\* A pattern is found where its bytes are.
LEMMA FindIs ==
    ASSUME NEW b \in Seq(Nat), NEW p \in Seq(Nat), Len(p) > 0
    PROVE  \A i \in Nat \ {0} :
               i \in Find(b, p) <=>
                   /\ i + Len(p) - 1 <= Len(b)
                   /\ \A j \in 1..Len(p) : b[i + j - 1] = p[j]
<1> DEFINE n == Len(p)
           l == Len(b)
<1>1. n \in Nat \ {0} /\ l \in Nat
  OBVIOUS
<1> SUFFICES ASSUME NEW i \in Nat \ {0}
             PROVE  i \in Find(b, p) <=>
                        /\ i + n - 1 <= l
                        /\ \A j \in 1..n : b[i + j - 1] = p[j]
  OBVIOUS
<1> DEFINE s == SubSeq(b, i, i + n - 1)
<1>2. i \in Find(b, p) <=> i \in 1..(l - n + 1) /\ s = p
  BY DEF Find
<1>3. i \in 1..(l - n + 1) <=> i + n - 1 <= l
  BY <1>1
<1>4. ASSUME i + n - 1 <= l
      PROVE  s = p <=> \A j \in 1..n : b[i + j - 1] = p[j]
  <2>1. \A j \in i..(i + n - 1) : b[j] \in Nat
    BY <1>1, <1>4
  <2>2. i \in Int /\ i + n - 1 \in Int
    BY <1>1
  <2>3. /\ s \in Seq(Nat)
        /\ Len(s) = IF i <= i + n - 1 THEN (i + n - 1) - i + 1 ELSE 0
        /\ \A j \in 1..((i + n - 1) - i + 1) : s[j] = b[i + j - 1]
    BY <2>1, <2>2, SubSeqProperties
  <2>4. (i + n - 1) - i + 1 = n /\ i <= i + n - 1
    BY <1>1
  <2>5. Len(s) = n /\ \A j \in 1..n : s[j] = b[i + j - 1]
    BY <2>3, <2>4
  <2> HIDE DEF s
  <2>6. ASSUME \A j \in 1..n : b[i + j - 1] = p[j] PROVE s = p
    <3>1. \A j \in 1..Len(s) : s[j] = p[j]
      BY <2>5, <2>6
    <3> QED BY <2>3, <2>5, <3>1, SeqEqual
  <2> QED BY <2>5, <2>6
<1> HIDE DEF n, l, s
<1> QED BY <1>2, <1>3, <1>4

\* What follows an index of what follows an index.
LEMMA FromFrom ==
    ASSUME NEW b \in Seq(Nat), NEW i \in Nat \ {0}, NEW j \in Nat \ {0}
    PROVE  From(From(b, i), j) = From(b, i + j - 1)
<1> DEFINE a == From(b, i)
           u == From(a, j)
           v == From(b, i + j - 1)
           l == Len(b)
<1>1. i + j - 1 \in Nat \ {0} /\ l \in Nat
  OBVIOUS
<1>2. a \in Seq(Nat) /\ Len(a) = IF i <= l THEN l - i + 1 ELSE 0
  BY FromType, FromLen
<1>3. \A x \in 1..Len(a) : a[x] = b[i + x - 1]
  BY FromIs
<1>4. v \in Seq(Nat) /\ Len(v) = IF i + j - 1 <= l THEN l - (i + j - 1) + 1 ELSE 0
  BY <1>1, FromType, FromLen
<1>5. \A x \in 1..Len(v) : v[x] = b[(i + j - 1) + x - 1]
  BY <1>1, FromIs
<1> HIDE DEF a, v
<1>6. u \in Seq(Nat) /\ Len(u) = IF j <= Len(a) THEN Len(a) - j + 1 ELSE 0
  BY <1>2, FromType, FromLen
<1>7. \A x \in 1..Len(u) : u[x] = a[j + x - 1]
  BY <1>2, FromIs
<1> HIDE DEF u, l
<1>8. Len(u) = Len(v)
  BY <1>1, <1>2, <1>4, <1>6
<1>9. ASSUME NEW x \in 1..Len(u) PROVE u[x] = v[x]
  <2>1. j + x - 1 \in 1..Len(a)
    BY <1>2, <1>6, <1>1
  <2>2. a[j + x - 1] = b[i + (j + x - 1) - 1]
    BY <1>3, <2>1
  <2>3. i + (j + x - 1) - 1 = (i + j - 1) + x - 1 /\ x \in 1..Len(v)
    BY <1>8
  <2> QED BY <1>5, <1>7, <2>2, <2>3
<1>10. u = v
  BY <1>4, <1>6, <1>8, <1>9, SeqEqual
<1> QED BY <1>10 DEF u, v, a

\* What follows an index, when more comes.
LEMMA FromCat ==
    ASSUME NEW b \in Seq(Nat), NEW c \in Seq(Nat), NEW i \in 1..(Len(b) + 1)
    PROVE  From(b \o c, i) = From(b, i) \o c
<1> DEFINE w == b \o c
           a == From(b, i)
           u == From(w, i)
           v == a \o c
           l == Len(b)
           m == Len(c)
<1>1. l \in Nat /\ m \in Nat /\ i \in Nat \ {0} /\ i \in 1..(l + 1)
  OBVIOUS
<1>2. /\ w \in Seq(Nat) /\ Len(w) = l + m
      /\ \A x \in 1..(l + m) : w[x] = IF x <= l THEN b[x] ELSE c[x - l]
  BY ConcatProperties
<1>3. /\ a \in Seq(Nat) /\ Len(a) = IF i <= l THEN l - i + 1 ELSE 0
      /\ \A x \in 1..Len(a) : a[x] = b[i + x - 1]
  BY <1>1, FromType, FromLen, FromIs
<1> HIDE DEF w, a
<1>4. /\ u \in Seq(Nat) /\ Len(u) = IF i <= Len(w) THEN Len(w) - i + 1 ELSE 0
      /\ \A x \in 1..Len(u) : u[x] = w[i + x - 1]
  BY <1>1, <1>2, FromType, FromLen, FromIs
<1>5. /\ v \in Seq(Nat) /\ Len(v) = Len(a) + m
      /\ \A x \in 1..(Len(a) + m) :
             v[x] = IF x <= Len(a) THEN a[x] ELSE c[x - Len(a)]
  BY <1>3, ConcatProperties
<1> HIDE DEF u, v, l, m
<1>6. Len(a) = l - i + 1
  BY <1>1, <1>3
<1>7. Len(u) = Len(v)
  BY <1>1, <1>2, <1>4, <1>5, <1>6
<1>8. ASSUME NEW x \in 1..Len(u) PROVE u[x] = v[x]
  <2>1. x \in Nat /\ x \in 1..(Len(a) + m) /\ i + x - 1 \in 1..(l + m)
    BY <1>1, <1>5, <1>6, <1>7
  <2>2. u[x] = IF i + x - 1 <= l THEN b[i + x - 1] ELSE c[(i + x - 1) - l]
    BY <1>2, <1>4, <2>1
  <2>3. v[x] = IF x <= Len(a) THEN a[x] ELSE c[x - Len(a)]
    BY <1>5, <2>1
  <2>4. (x <= Len(a) <=> i + x - 1 <= l) /\ (i + x - 1) - l = x - Len(a)
    BY <1>1, <1>6, <2>1
  <2>5. x <= Len(a) => a[x] = b[i + x - 1]
    BY <1>3, <2>1
  <2> QED BY <2>2, <2>3, <2>4, <2>5
<1>9. u = v
  BY <1>4, <1>5, <1>7, <1>8, SeqEqual
<1> QED BY <1>9 DEF u, v, w, a

\* What comes up to an index stays when more comes.
LEMMA UptoCat ==
    ASSUME NEW b \in Seq(Nat), NEW c \in Seq(Nat), NEW i \in 0..Len(b)
    PROVE  Upto(b \o c, i) = Upto(b, i)
<1> DEFINE w == b \o c
           u == Upto(w, i)
           v == Upto(b, i)
<1>1. Len(b) \in Nat /\ Len(c) \in Nat /\ i \in Nat
  OBVIOUS
<1>2. /\ w \in Seq(Nat) /\ Len(w) = Len(b) + Len(c)
      /\ \A x \in 1..(Len(b) + Len(c)) :
             w[x] = IF x <= Len(b) THEN b[x] ELSE c[x - Len(b)]
  BY ConcatProperties
<1>3. /\ v \in Seq(Nat) /\ Len(v) = IF i <= Len(b) THEN i ELSE Len(b)
      /\ \A x \in 1..Len(v) : v[x] = b[x]
  BY <1>1, UptoType
<1> HIDE DEF w, v
<1>4. /\ u \in Seq(Nat) /\ Len(u) = IF i <= Len(w) THEN i ELSE Len(w)
      /\ \A x \in 1..Len(u) : u[x] = w[x]
  BY <1>1, <1>2, UptoType
<1> HIDE DEF u
<1>5. Len(u) = i /\ Len(v) = i
  BY <1>1, <1>2, <1>3, <1>4
<1>6. ASSUME NEW x \in 1..Len(u) PROVE u[x] = v[x]
  <2>1. x <= Len(b) /\ x \in 1..(Len(b) + Len(c)) /\ x \in 1..Len(v)
    BY <1>1, <1>5
  <2> QED BY <1>2, <1>3, <1>4, <2>1
<1>7. u = v
  BY <1>3, <1>4, <1>5, <1>6, SeqEqual
<1> QED BY <1>7 DEF u, v, w

\* What is found stays when more comes, and the rest is found at the end.
LEMMA FindCat ==
    ASSUME NEW b \in Seq(Nat), NEW c \in Seq(Nat),
           NEW p \in Seq(Nat), Len(p) > 0
    PROVE  \A i \in Nat \ {0} :
               i \in Find(b, p) <=> /\ i \in Find(b \o c, p)
                                    /\ i + Len(p) - 1 <= Len(b)
<1> DEFINE w == b \o c
           n == Len(p)
           l == Len(b)
           m == Len(c)
<1>1. l \in Nat /\ m \in Nat /\ n \in Nat \ {0}
  OBVIOUS
<1>2. /\ w \in Seq(Nat) /\ Len(w) = l + m
      /\ \A x \in 1..(l + m) : w[x] = IF x <= l THEN b[x] ELSE c[x - l]
  BY ConcatProperties
<1> HIDE DEF w
<1> SUFFICES ASSUME NEW i \in Nat \ {0}
             PROVE  i \in Find(b, p) <=> i \in Find(w, p) /\ i + n - 1 <= l
  BY DEF w
<1>3. i \in Find(b, p) <=> /\ i + n - 1 <= l
                           /\ \A j \in 1..n : b[i + j - 1] = p[j]
  BY FindIs
<1>4. i \in Find(w, p) <=> /\ i + n - 1 <= Len(w)
                           /\ \A j \in 1..n : w[i + j - 1] = p[j]
  BY <1>2, FindIs
<1> HIDE DEF n, l, m
<1>5. i + n - 1 <= l => i + n - 1 <= Len(w)
  BY <1>1, <1>2
<1>6. ASSUME i + n - 1 <= l, NEW j \in 1..n PROVE w[i + j - 1] = b[i + j - 1]
  <2>1. i + j - 1 \in 1..(l + m) /\ i + j - 1 <= l
    BY <1>1, <1>6
  <2> QED BY <1>2, <2>1
<1> QED BY <1>3, <1>4, <1>5, <1>6

\* What is found after an index.
LEMMA FindFrom ==
    ASSUME NEW w \in Seq(Nat), NEW k \in 1..(Len(w) + 1),
           NEW p \in Seq(Nat), Len(p) > 0
    PROVE  \A j \in Nat \ {0} :
               j \in Find(From(w, k), p) <=> k + j - 1 \in Find(w, p)
<1> DEFINE v == From(w, k)
           n == Len(p)
           l == Len(w)
<1>1. l \in Nat /\ n \in Nat \ {0} /\ k \in Nat \ {0} /\ k \in 1..(l + 1)
  OBVIOUS
<1>2. /\ v \in Seq(Nat) /\ Len(v) = IF k <= l THEN l - k + 1 ELSE 0
      /\ \A x \in 1..Len(v) : v[x] = w[k + x - 1]
  BY <1>1, FromType, FromLen, FromIs
<1> HIDE DEF v
<1> SUFFICES ASSUME NEW j \in Nat \ {0}
             PROVE  j \in Find(v, p) <=> k + j - 1 \in Find(w, p)
  BY DEF v
<1>3. j \in Find(v, p) <=> /\ j + n - 1 <= Len(v)
                           /\ \A x \in 1..n : v[j + x - 1] = p[x]
  BY <1>2, FindIs
<1>4. k + j - 1 \in Nat \ {0}
  BY <1>1
<1>5. k + j - 1 \in Find(w, p) <=>
          /\ (k + j - 1) + n - 1 <= l
          /\ \A x \in 1..n : w[(k + j - 1) + x - 1] = p[x]
  BY <1>4, FindIs
<1> HIDE DEF n, l
<1>6. Len(v) = l - k + 1
  BY <1>1, <1>2
<1>7. j + n - 1 <= Len(v) <=> (k + j - 1) + n - 1 <= l
  BY <1>1, <1>6
<1>8. ASSUME j + n - 1 <= Len(v), NEW x \in 1..n
      PROVE  v[j + x - 1] = w[(k + j - 1) + x - 1]
  <2>1. j + x - 1 \in 1..Len(v) /\ k + (j + x - 1) - 1 = (k + j - 1) + x - 1
    BY <1>1, <1>6, <1>8
  <2> QED BY <1>2, <2>1
<1> QED BY <1>3, <1>5, <1>7, <1>8

\* The first that is found after an index k, where there is one.
Later(b, p, k) == {i \in Find(b, p) : i > k}

\* It is the first still when more comes.
LEMMA FirstStays ==
    ASSUME NEW b \in Seq(Nat), NEW c \in Seq(Nat),
           NEW p \in Seq(Nat), Len(p) > 0, NEW k \in Nat,
           Later(b, p, k) # {}
    PROVE  /\ Later(b \o c, p, k) # {}
           /\ Min(Later(b \o c, p, k)) = Min(Later(b, p, k))
           /\ Min(Later(b, p, k)) \in 1..Len(b)
<1> DEFINE S == Later(b, p, k)
           w == b \o c
           T == Later(w, p, k)
           m == Min(S)
           n == Len(p)
<1>1. S \subseteq Nat \ {0} /\ T \subseteq Nat \ {0} /\ n \in Nat \ {0}
  BY DEF Later, Find
<1>2. \A i \in Nat \ {0} : i \in S <=> i \in T /\ i + n - 1 <= Len(b)
  BY FindCat DEF Later
<1> HIDE DEF S, T, n
<1>3. m \in S /\ \A y \in S : m <= y
  BY <1>1, MinIs DEF S
<1>4. m \in T /\ m \in Nat \ {0} /\ m + n - 1 <= Len(b)
  BY <1>1, <1>2, <1>3
<1>5. Min(T) \in T /\ \A y \in T : Min(T) <= y
  BY <1>1, <1>4, MinIs
<1>6. Min(T) \in Nat \ {0} /\ Min(T) <= m
  BY <1>1, <1>4, <1>5
<1>7. Len(b) \in Nat
  OBVIOUS
<1> HIDE DEF m
<1>8. Min(T) + n - 1 <= Len(b)
  BY <1>1, <1>4, <1>6, <1>7
<1>9. Min(T) \in S
  BY <1>2, <1>5, <1>6, <1>8
<1>10. m <= Min(T)
  BY <1>3, <1>9 DEF m
<1>11. Min(T) = m
  BY <1>4, <1>6, <1>10
<1>12. m \in 1..Len(b)
  BY <1>1, <1>4, <1>7
<1> QED BY <1>4, <1>11, <1>12 DEF m, S, T

\* What precedes the first does not matter for what follows it.
LEMMA JunkAside ==
    ASSUME NEW w \in Seq(Nat), NEW k \in 1..(Len(w) + 1),
           NEW p \in Seq(Nat), Len(p) > 0, \A i \in Find(w, p) : i >= k
    PROVE  /\ Find(From(w, k), p) = {} <=> Find(w, p) = {}
           /\ Find(w, p) # {} =>
                  From(From(w, k), Min(Find(From(w, k), p)))
                      = From(w, Min(Find(w, p)))
<1> DEFINE v == From(w, k)
           S == Find(w, p)
           T == Find(v, p)
<1>1. S \subseteq Nat \ {0} /\ T \subseteq Nat \ {0} /\ k \in Nat \ {0}
  BY DEF Find
<1>2. \A j \in Nat \ {0} : j \in T <=> k + j - 1 \in S
  BY FindFrom
<1>3. \A i \in S : i >= k
  OBVIOUS
<1> HIDE DEF S, T
<1>4. \A i \in S : i - k + 1 \in Nat \ {0} /\ k + (i - k + 1) - 1 = i
  BY <1>1, <1>3
<1>5. \A i \in S : i - k + 1 \in T
  BY <1>2, <1>4
<1>6. T = {} <=> S = {}
  BY <1>1, <1>2, <1>5
<1>7. ASSUME S # {} PROVE From(v, Min(T)) = From(w, Min(S))
  <2>1. Min(S) \in S /\ \A y \in S : Min(S) <= y
    BY <1>1, <1>7, MinIs
  <2>2. Min(T) \in T /\ \A y \in T : Min(T) <= y
    BY <1>1, <1>6, <1>7, MinIs
  <2> DEFINE s == Min(S)
             t == Min(T)
  <2>3. s \in Nat \ {0} /\ t \in Nat \ {0}
    BY <1>1, <2>1, <2>2
  <2>4. k + t - 1 \in S /\ s - k + 1 \in T
    BY <1>2, <1>5, <2>1, <2>2, <2>3
  <2>5. s <= k + t - 1 /\ t <= s - k + 1
    BY <2>1, <2>2, <2>4
  <2> HIDE DEF s, t
  <2>6. k + t - 1 = s
    BY <1>1, <2>3, <2>5
  <2>7. From(v, t) = From(w, k + t - 1)
    BY <1>1, <2>3, FromFrom
  <2> QED BY <2>6, <2>7 DEF s, t
<1> QED BY <1>6, <1>7 DEF S, T

\* The drivers that look for one more frame until none is left.
Thorough == Looping \ {"jk_uart"}

\* What a driver takes for the start of a frame.
Header(d) == IF d = "jk" THEN <<H1, H2>> ELSE <<H1>>

\* The header that is looked for is the first.
LEMMA HeadStays ==
    ASSUME NEW b \in Seq(Nat), NEW c \in Seq(Nat),
           NEW p \in Seq(Nat), Len(p) > 0, Find(b, p) # {}
    PROVE  /\ Find(b \o c, p) # {}
           /\ Min(Find(b \o c, p)) = Min(Find(b, p))
           /\ Min(Find(b, p)) \in 1..Len(b)
           /\ From(b \o c, Min(Find(b \o c, p))) = From(b, Min(Find(b, p))) \o c
           /\ From(b, Min(Find(b, p))) \in Seq(Nat)
<1>1. b \o c \in Seq(Nat)
  OBVIOUS
<1>2. \A u \in Seq(Nat) : Later(u, p, 0) = Find(u, p)
  <2> SUFFICES ASSUME NEW u \in Seq(Nat) PROVE Later(u, p, 0) = Find(u, p)
    OBVIOUS
  <2>1. \A i \in Find(u, p) : i \in Nat \ {0}
    BY DEF Find
  <2>2. \A i \in Find(u, p) : i > 0
    BY <2>1
  <2> QED BY <2>2 DEF Later
<1>3. Later(b, p, 0) # {}
  BY <1>2
<1>4. /\ Later(b \o c, p, 0) # {}
      /\ Min(Later(b \o c, p, 0)) = Min(Later(b, p, 0))
      /\ Min(Later(b, p, 0)) \in 1..Len(b)
  BY <1>3, FirstStays
<1>5. /\ Find(b \o c, p) # {}
      /\ Min(Find(b \o c, p)) = Min(Find(b, p))
      /\ Min(Find(b, p)) \in 1..Len(b)
  BY <1>1, <1>2, <1>4
<1> DEFINE m == Min(Find(b, p))
<1>6. m \in 1..Len(b)
  BY <1>5
<1> HIDE DEF m
<1>7. m \in 1..(Len(b) + 1) /\ m \in Nat \ {0}
  BY <1>6
<1>8. From(b \o c, m) = From(b, m) \o c /\ From(b, m) \in Seq(Nat)
  BY <1>7, FromCat, FromType
<1> QED BY <1>5, <1>8 DEF m

\* Bytes before the first header make no difference.
LEMMA JunkSame ==
    ASSUME NEW d \in Thorough, NEW w \in Seq(Nat), NEW k \in 1..Len(w),
           \A i \in Find(w, Header(d)) : i >= k
    PROVE  Step(d, From(w, k)) = Step(d, w)
<1> DEFINE v == From(w, k)
           p == Header(d)
<1>1. p \in Seq(Nat) /\ Len(p) > 0
  BY Patterns DEF Header
<1>2. k \in 1..(Len(w) + 1) /\ k \in Nat \ {0} /\ Len(w) \in Nat
  OBVIOUS
<1>3. /\ Find(v, p) = {} <=> Find(w, p) = {}
      /\ Find(w, p) # {} => From(v, Min(Find(v, p))) = From(w, Min(Find(w, p)))
  BY <1>1, <1>2, JunkAside
<1>4. v \in Seq(Nat) /\ Len(v) = IF k <= Len(w) THEN Len(w) - k + 1 ELSE 0
  BY <1>2, FromType, FromLen
<1>5. Len(v) = Len(w) - k + 1
  BY <1>2, <1>4
<1>6. From(v, Len(v)) = From(w, Len(w))
  <2>1. Len(v) \in Nat \ {0} /\ k + Len(v) - 1 = Len(w)
    BY <1>2, <1>5
  <2> QED BY <1>2, <2>1, FromFrom
<1> HIDE DEF v
<1>7. CASE d = "jk"
  <2>1. p = <<H1, H2>> /\ Len(<<H1, H2>>) = 2
    BY <1>7 DEF Header
  <2>2. CASE Len(w) < 2
    <3>1. k = 1 /\ Len(w) = 1
      <4>1. \A l \in Nat : l < 2 => \A i \in 1..l : i = 1 /\ l = 1
        OBVIOUS
      <4> QED BY <1>2, <2>2, <4>1
    <3>2. v = From(w, 1)
      BY <3>1 DEF v
    <3>3. From(w, 1) = w
      BY <3>1 DEF From
    <3> QED BY <3>2, <3>3 DEF v
  <2>3. CASE Len(w) >= 2 /\ Len(v) < 2
    <3>1. k = Len(w)
      BY <1>2, <1>5, <2>3
    <3>2. Find(w, p) = {}
      <4>1. \A i \in Find(w, p) : i \in 1..(Len(w) - 2 + 1) /\ i >= Len(w)
        BY <2>1, <3>1 DEF Find
      <4> QED BY <1>2, <4>1
    <3>3. ~(Len(w) < 2)
      BY <1>2, <2>3
    <3>4. JkStep(w) = Waits(From(w, Len(w)))
      BY <2>1, <3>2, <3>3 DEF JkStep
    <3>5. JkStep(v) = Waits(v)
      BY <2>3 DEF JkStep
    <3>6. v = From(w, Len(w))
      BY <3>1 DEF v
    <3>7. JkStep(v) = JkStep(w)
      BY <3>4, <3>5, <3>6
    <3> QED BY <1>7, <3>7 DEF Step, v
  <2>4. CASE Len(w) >= 2 /\ Len(v) >= 2
    <3>1. ~(Len(w) < 2) /\ ~(Len(v) < 2)
      BY <1>2, <1>5, <2>4
    <3>2. JkStep(v) = JkStep(w)
      BY <1>3, <1>6, <2>1, <3>1 DEF JkStep
    <3> QED BY <1>7, <3>2 DEF Step, v
  <2> QED BY <1>2, <1>5, <2>2, <2>3, <2>4
<1>8. CASE d # "jk"
  <2>1. p = <<H1>>
    BY <1>8 DEF Header
  <2>2. JbdStep(v) = JbdStep(w)
    BY <1>3, <2>1 DEF JbdStep
  <2>3. BasenStep(v) = BasenStep(w)
    BY <1>3, <2>1 DEF BasenStep
  <2>4. BasenUartStep(v) = BasenUartStep(w)
    BY <1>3, <2>1 DEF BasenUartStep
  <2>5. PaceStep(v) = PaceStep(w)
    BY <1>3, <2>1 DEF PaceStep
  <2>6. DalyUartStep(v) = DalyUartStep(w)
    BY <1>3, <2>1 DEF DalyUartStep
  <2>7. d \in {"jbd", "basen", "basen_uart", "pace", "daly_uart"}
    BY <1>8 DEF Thorough, Looping
  <2> QED BY <2>2, <2>3, <2>4, <2>5, <2>6, <2>7 DEF Step, v
<1> QED BY <1>7, <1>8

-----------------------------------------------------------------------------
(* A round after which there is another                                    *)

\* The round s, with c still to come.
More(s, c) == [rest |-> s.rest \o c, out |-> s.out, again |-> s.again]

\* The ways in which a round ends, with c still to come.
LEMMA MoreIs ==
    \A f, b, c : /\ More(Skips(b), c) = Skips(b \o c)
                 /\ More(Yields(f, b), c) = Yields(f, b \o c)
                 /\ ~Waits(b).again
BY DEF More, Skips, Yields, Waits

\* A window of n bytes at the start, and what follows it.
LEMMA WindowStays ==
    ASSUME NEW a \in Seq(Nat), NEW c \in Seq(Nat), NEW n \in 1..Len(a)
    PROVE  /\ Upto(a \o c, n) = Upto(a, n)
           /\ From(a \o c, n + 1) = From(a, n + 1) \o c
           /\ (a \o c)[n] = a[n]
           /\ Len(a \o c) = Len(a) + Len(c) /\ Len(a) \in Nat /\ Len(c) \in Nat
<1>1. /\ Len(a \o c) = Len(a) + Len(c)
      /\ \A x \in 1..(Len(a) + Len(c)) :
             (a \o c)[x] = IF x <= Len(a) THEN a[x] ELSE c[x - Len(a)]
  BY ConcatProperties
<1>2. Len(a) \in Nat /\ Len(c) \in Nat
  OBVIOUS
<1>3. n \in 0..Len(a) /\ n + 1 \in 1..(Len(a) + 1)
  BY <1>2
<1>4. n \in 1..(Len(a) + Len(c)) /\ n <= Len(a)
  BY <1>2
<1>5. (a \o c)[n] = a[n]
  BY <1>1, <1>4
<1> QED BY <1>1, <1>2, <1>3, <1>5, UptoCat, FromCat

\* A whole window whose size is in its third byte is whole when more comes.
LEMMA SizedStays ==
    ASSUME NEW a \in Seq(Nat), NEW c \in Seq(Nat),
           ~(Len(a) < 3 \/ Len(a) < a[3] + 5)
    PROVE  LET w == a \o c
               n == a[3] + 5
           IN  /\ w[3] = a[3]
               /\ ~(Len(w) < 3 \/ Len(w) < w[3] + 5)
               /\ Upto(w, n) = Upto(a, n)
               /\ From(w, n + 1) = From(a, n + 1) \o c
               /\ From(w, 2) = From(a, 2) \o c
<1> DEFINE w == a \o c
           n == a[3] + 5
<1>1. Len(a) \in Nat /\ 1 \in 1..Len(a) /\ 3 \in 1..Len(a)
  OBVIOUS
<1>2. a[3] \in Nat
  BY <1>1
<1>3. n \in 1..Len(a)
  BY <1>1, <1>2
<1> HIDE DEF n
<1>4. w[3] = a[3] /\ Len(w) = Len(a) + Len(c) /\ Len(c) \in Nat
  BY <1>1, WindowStays
<1>5. Upto(w, n) = Upto(a, n) /\ From(w, n + 1) = From(a, n + 1) \o c
  BY <1>3, WindowStays
<1>6. From(w, 2) = From(a, 2) \o c
  <2>1. 2 \in 1..(Len(a) + 1)
    BY <1>1
  <2> QED BY <2>1, FromCat
<1> HIDE DEF w
<1>7. ~(Len(w) < 3) /\ ~(Len(w) < n)
  BY <1>1, <1>3, <1>4
<1>8. ~(Len(w) < 3 \/ Len(w) < w[3] + 5)
  BY <1>4, <1>7 DEF n
<1> QED BY <1>4, <1>5, <1>6, <1>8 DEF w, n

\* A round of jbd, basen or basen_uart after which there is another would be
\* the same with more bytes.
LEMMA SizedMore ==
    ASSUME NEW b \in Seq(Nat), NEW c \in Seq(Nat)
    PROVE  /\ JbdStep(b).again => JbdStep(b \o c) = More(JbdStep(b), c)
           /\ BasenStep(b).again => BasenStep(b \o c) = More(BasenStep(b), c)
           /\ BasenUartStep(b).again =>
                  BasenUartStep(b \o c) = More(BasenUartStep(b), c)
<1> DEFINE p == <<H1>>
           a == From(b, Min(Find(b, p)))
           w == a \o c
           n == a[3] + 5
           Short == Len(a) < 3 \/ Len(a) < n
<1>1. p \in Seq(Nat) /\ Len(p) > 0
  BY Patterns
<1>2. CASE Find(b, p) = {}
  <2>1. JbdStep(b) = Waits(<<>>) /\ BasenStep(b) = Waits(<<>>)
        /\ BasenUartStep(b) = Waits(<<>>)
    BY <1>2 DEF JbdStep, BasenStep, BasenUartStep
  <2> QED BY <2>1, MoreIs
<1>3. CASE Find(b, p) # {} /\ Short
  <2>1. JbdStep(b) = Waits(a) /\ BasenStep(b) = Waits(a)
        /\ BasenUartStep(b) = Waits(a)
    BY <1>3 DEF JbdStep, BasenStep, BasenUartStep
  <2> QED BY <2>1, MoreIs
<1>4. CASE Find(b, p) # {} /\ ~Short
  <2>1. /\ a \in Seq(Nat) /\ Find(b \o c, p) # {}
        /\ From(b \o c, Min(Find(b \o c, p))) = w
    BY <1>1, <1>4, HeadStays
  <2>2. /\ w[3] = a[3] /\ ~(Len(w) < 3 \/ Len(w) < w[3] + 5)
        /\ Upto(w, n) = Upto(a, n)
        /\ From(w, n + 1) = From(a, n + 1) \o c
        /\ From(w, 2) = From(a, 2) \o c
    <3> HIDE DEF a
    <3> QED BY <1>4, <2>1, SizedStays
  <2>6. /\ More(Yields(Upto(a, n), From(a, n + 1)), c)
               = Yields(Upto(a, n), From(a, n + 1) \o c)
        /\ More(Skips(From(a, n + 1)), c) = Skips(From(a, n + 1) \o c)
        /\ More(Skips(From(a, 2)), c) = Skips(From(a, 2) \o c)
    BY MoreIs
  <2>3. JbdStep(b \o c) = More(JbdStep(b), c)
    <3>1. JbdStep(b) = IF Valid("jbd", Upto(a, n)) THEN Yields(Upto(a, n), From(a, n + 1))
                       ELSE Skips(From(a, n + 1))
      BY <1>4 DEF JbdStep
    <3>2. JbdStep(b \o c) = IF Valid("jbd", Upto(w, n)) THEN Yields(Upto(w, n), From(w, n + 1))
                            ELSE Skips(From(w, n + 1))
      <4> HIDE DEF a, w
      <4> QED BY <2>1, <2>2 DEF JbdStep
    <3> HIDE DEF a, w, n
    <3> QED BY <2>2, <2>6, <3>1, <3>2
  <2>4. BasenStep(b \o c) = More(BasenStep(b), c)
    <3>1. BasenStep(b) = IF Valid("basen", Upto(a, n)) THEN Yields(Upto(a, n), From(a, n + 1))
                         ELSE Skips(From(a, 2))
      BY <1>4 DEF BasenStep
    <3>2. BasenStep(b \o c) = IF Valid("basen", Upto(w, n)) THEN Yields(Upto(w, n), From(w, n + 1))
                              ELSE Skips(From(w, 2))
      <4> HIDE DEF a, w
      <4> QED BY <2>1, <2>2 DEF BasenStep
    <3> HIDE DEF a, w, n
    <3> QED BY <2>2, <2>6, <3>1, <3>2
  <2>5. BasenUartStep(b \o c) = More(BasenUartStep(b), c)
    <3>1. BasenUartStep(b) = IF ~Valid("basen_uart", Upto(a, n)) THEN Skips(From(a, 2))
                             ELSE IF a[3] = 0 THEN Skips(From(a, n + 1))
                             ELSE Yields(Upto(a, n), From(a, n + 1))
      BY <1>4 DEF BasenUartStep
    <3>2. BasenUartStep(b \o c) =
              IF ~Valid("basen_uart", Upto(w, n)) THEN Skips(From(w, 2))
              ELSE IF a[3] = 0 THEN Skips(From(w, n + 1))
              ELSE Yields(Upto(w, n), From(w, n + 1))
      <4> HIDE DEF a, w
      <4> QED BY <2>1, <2>2 DEF BasenUartStep
    <3> HIDE DEF a, w, n
    <3> QED BY <2>2, <2>6, <3>1, <3>2
  <2> QED BY <2>3, <2>4, <2>5
<1> QED BY <1>2, <1>3, <1>4

\* The same for pace: the terminator that ends the frame is still the first.
LEMMA PaceMore ==
    ASSUME NEW b \in Seq(Nat), NEW c \in Seq(Nat), PaceStep(b).again
    PROVE  PaceStep(b \o c) = More(PaceStep(b), c)
<1> DEFINE p == <<H1>>
           e == <<End>>
           a == From(b, Min(Find(b, p)))
           w == a \o c
           n == Min(Find(a, e))
<1>1. p \in Seq(Nat) /\ Len(p) > 0 /\ <<End>> \in Seq(Nat) /\ Len(<<End>>) > 0
  BY Patterns
<1>2. Find(b, p) # {} /\ Find(a, <<End>>) # {}
  BY MoreIs DEF PaceStep
<1>3. /\ a \in Seq(Nat) /\ Find(b \o c, p) # {}
      /\ From(b \o c, Min(Find(b \o c, p))) = w
  BY <1>1, <1>2, HeadStays
<1>4. Find(w, e) # {} /\ Min(Find(w, e)) = n /\ n \in 1..Len(a)
  <2>1. e \in Seq(Nat) /\ Len(e) > 0 /\ a \in Seq(Nat) /\ Find(a, e) # {}
    BY <1>1, <1>2, <1>3
  <2> HIDE DEF a, e
  <2> QED BY <2>1, HeadStays
<1>5. Upto(w, n) = Upto(a, n) /\ From(w, n + 1) = From(a, n + 1) \o c
  <2> HIDE DEF a, n
  <2> QED BY <1>3, <1>4, WindowStays
<1>6. PaceStep(b) = IF Valid("pace", Upto(a, n)) THEN Yields(Upto(a, n), From(a, n + 1))
                    ELSE Skips(From(a, n + 1))
  BY <1>2 DEF PaceStep
<1>7. PaceStep(b \o c) = IF Valid("pace", Upto(w, n)) THEN Yields(Upto(w, n), From(w, n + 1))
                         ELSE Skips(From(w, n + 1))
  <2> HIDE DEF a, w, n
  <2> QED BY <1>3, <1>4 DEF PaceStep
<1>8. /\ More(Yields(Upto(a, n), From(a, n + 1)), c)
             = Yields(Upto(a, n), From(a, n + 1) \o c)
      /\ More(Skips(From(a, n + 1)), c) = Skips(From(a, n + 1) \o c)
  BY MoreIs
<1> HIDE DEF a, w, n
<1> QED BY <1>5, <1>6, <1>7, <1>8

\* The same for daly_uart, whose frames have one size.
LEMMA DalyUartMore ==
    ASSUME NEW b \in Seq(Nat), NEW c \in Seq(Nat), DalyUartStep(b).again
    PROVE  DalyUartStep(b \o c) = More(DalyUartStep(b), c)
<1> DEFINE p == <<H1>>
           a == From(b, Min(Find(b, p)))
           w == a \o c
           n == DalySize
<1>1. p \in Seq(Nat) /\ Len(p) > 0
  BY Patterns
<1>2. Find(b, p) # {} /\ ~(Len(a) < n)
  BY MoreIs DEF DalyUartStep
<1>3. /\ a \in Seq(Nat) /\ Find(b \o c, p) # {}
      /\ From(b \o c, Min(Find(b \o c, p))) = w
  BY <1>1, <1>2, HeadStays
<1>4. n \in 1..Len(a) /\ n \in Nat
  <2> HIDE DEF a
  <2> QED BY <1>2, <1>3 DEF DalySize
<1>5. /\ Upto(w, n) = Upto(a, n) /\ From(w, n + 1) = From(a, n + 1) \o c
      /\ Len(w) = Len(a) + Len(c) /\ Len(a) \in Nat /\ Len(c) \in Nat
  <2> HIDE DEF a, n
  <2> QED BY <1>3, <1>4, WindowStays
<1>6. DalyUartStep(b) =
          IF Valid("daly_uart", Upto(a, n)) THEN Yields(Upto(a, n), From(a, n + 1))
          ELSE Skips(From(a, n + 1))
  BY <1>2 DEF DalyUartStep
<1>7. ~(Len(w) < n)
  <2> HIDE DEF a, n, w
  <2> QED BY <1>2, <1>4, <1>5
<1>8. DalyUartStep(b \o c) =
          IF Valid("daly_uart", Upto(w, n)) THEN Yields(Upto(w, n), From(w, n + 1))
          ELSE Skips(From(w, n + 1))
  <2> HIDE DEF a, w
  <2> QED BY <1>3, <1>7 DEF DalyUartStep
<1>9. /\ More(Yields(Upto(a, n), From(a, n + 1)), c)
             = Yields(Upto(a, n), From(a, n + 1) \o c)
      /\ More(Skips(From(a, n + 1)), c) = Skips(From(a, n + 1) \o c)
  BY MoreIs
<1> HIDE DEF a, w, n
<1> QED BY <1>5, <1>6, <1>8, <1>9

\* jk, once there is a header: a is what begins with the first.
JkFrom(a) ==
    LET later == Later(a, <<H1, H2>>, 2)
    IN IF Len(a) < JkSize THEN Waits(a)
       ELSE IF Valid("jk", Upto(a, JkSize))
            THEN Yields(Upto(a, JkSize), From(a, JkSize + 1))
       ELSE IF later # {} THEN Skips(From(a, Min(later)))
       ELSE Waits(From(a, Len(a)))

\* A round of jk is what it makes of the bytes from the first header on.
LEMMA JkStepIs ==
    ASSUME NEW b, ~(Len(b) < 2), Find(b, <<H1, H2>>) # {}
    PROVE  JkStep(b) = JkFrom(From(b, Min(Find(b, <<H1, H2>>))))
BY DEF JkStep, JkFrom, Later

\* The same for jk: the next header of a bad window is still the next.
LEMMA JkFromMore ==
    ASSUME NEW a \in Seq(Nat), NEW c \in Seq(Nat), JkFrom(a).again
    PROVE  JkFrom(a \o c) = More(JkFrom(a), c)
<1> DEFINE p == <<H1, H2>>
           w == a \o c
           n == JkSize
           S == Later(a, p, 2)
           T == Later(w, p, 2)
           g == Valid("jk", Upto(a, n))
<1>1. p \in Seq(Nat) /\ Len(p) > 0
  BY Patterns
<1>2. ~(Len(a) < n) /\ (g \/ S # {})
  BY MoreIs DEF JkFrom
<1>3. n \in 1..Len(a) /\ n \in Nat
  BY <1>2 DEF JkSize
<1>4. /\ Upto(w, n) = Upto(a, n) /\ From(w, n + 1) = From(a, n + 1) \o c
      /\ Len(w) = Len(a) + Len(c) /\ Len(a) \in Nat /\ Len(c) \in Nat
  <2> HIDE DEF n
  <2> QED BY <1>3, WindowStays
<1>5. ~(Len(w) < n)
  <2> HIDE DEF w
  <2> QED BY <1>3, <1>4
<1>6. ASSUME S # {}
      PROVE  T # {} /\ Min(T) = Min(S) /\ From(w, Min(T)) = From(a, Min(S)) \o c
  <2>1. T # {} /\ Min(T) = Min(S) /\ Min(S) \in 1..Len(a)
    <3>1. 2 \in Nat
      OBVIOUS
    <3> HIDE DEF p
    <3> QED BY <1>1, <1>6, <3>1, FirstStays
  <2> DEFINE m == Min(S)
  <2>2. m \in 1..(Len(a) + 1)
    BY <1>4, <2>1
  <2> HIDE DEF m
  <2>3. From(w, m) = From(a, m) \o c
    BY <2>2, FromCat
  <2> QED BY <2>1, <2>3 DEF m
<1>7. JkFrom(a) = IF g THEN Yields(Upto(a, n), From(a, n + 1))
                  ELSE Skips(From(a, Min(S)))
  BY <1>2 DEF JkFrom
<1>8. JkFrom(w) = IF g THEN Yields(Upto(w, n), From(w, n + 1))
                  ELSE Skips(From(w, Min(T)))
  <2> HIDE DEF w, S
  <2> QED BY <1>2, <1>4, <1>5, <1>6 DEF JkFrom
<1>9. /\ More(Yields(Upto(a, n), From(a, n + 1)), c)
             = Yields(Upto(a, n), From(a, n + 1) \o c)
      /\ More(Skips(From(a, Min(S))), c) = Skips(From(a, Min(S)) \o c)
  BY MoreIs
<1> HIDE DEF w, n, S, T, g
<1>10. JkFrom(w) = More(JkFrom(a), c)
  BY <1>2, <1>4, <1>6, <1>7, <1>8, <1>9
<1> QED BY <1>10 DEF w

\* The round of jk as a whole.
LEMMA JkMore ==
    ASSUME NEW b \in Seq(Nat), NEW c \in Seq(Nat), JkStep(b).again
    PROVE  JkStep(b \o c) = More(JkStep(b), c)
<1> DEFINE p == <<H1, H2>>
           a == From(b, Min(Find(b, p)))
<1>1. p \in Seq(Nat) /\ Len(p) > 0
  BY Patterns
<1>2. ~(Len(b) < 2) /\ Find(b, p) # {}
  BY MoreIs DEF JkStep
<1>3. JkStep(b) = JkFrom(a)
  BY <1>2, JkStepIs
<1>4. /\ a \in Seq(Nat) /\ Find(b \o c, p) # {}
      /\ From(b \o c, Min(Find(b \o c, p))) = a \o c
  BY <1>1, <1>2, HeadStays
<1>5. ~(Len(b \o c) < 2)
  <2>1. Len(b \o c) = Len(b) + Len(c) /\ Len(b) \in Nat /\ Len(c) \in Nat
    BY ConcatProperties
  <2> QED BY <1>2, <2>1
<1> HIDE DEF a
<1>6. JkStep(b \o c) = JkFrom(a \o c)
  BY <1>4, <1>5, JkStepIs
<1> QED BY <1>3, <1>4, <1>6, JkFromMore

\* A round after which there is another would be the same with more bytes.
LEMMA StepMore ==
    ASSUME NEW d \in Thorough, NEW b \in Seq(Nat), NEW c \in Seq(Nat),
           Step(d, b).again
    PROVE  Step(d, b \o c) = More(Step(d, b), c)
<1>1. d \in {"jk", "jbd", "basen", "basen_uart", "pace", "daly_uart"}
  BY DEF Thorough, Looping
<1>2. CASE d = "jk"
  BY <1>2, JkMore DEF Step
<1>3. CASE d = "pace"
  BY <1>3, PaceMore DEF Step
<1>4. CASE d = "daly_uart"
  BY <1>4, DalyUartMore DEF Step
<1>5. CASE d = "jbd"
  BY <1>5, SizedMore DEF Step
<1>6. CASE d = "basen"
  BY <1>6, SizedMore DEF Step
<1>7. CASE d = "basen_uart"
  BY <1>7, SizedMore DEF Step
<1> QED BY <1>1, <1>2, <1>3, <1>4, <1>5, <1>6, <1>7

-----------------------------------------------------------------------------
(* A round that waits for more                                             *)

\* The jk driver keeps the last byte of a window that is bad.
LastOf(b) ==
    LET p == <<H1, H2>>
        a == From(b, Min(Find(b, p)))
    IN /\ Len(b) >= 2 /\ Find(b, p) # {}
       /\ JkStep(b) = Waits(From(a, Len(a)))
       /\ Len(a) >= JkSize /\ ~Valid("jk", Upto(a, JkSize))
       /\ Later(a, p, 2) = {}

\* A round that waits for more hands on nothing, and what it drops holds no
\* header, whatever comes after: but for the bad window of jk.
LEMMA WaitsFrom ==
    ASSUME NEW d \in Thorough, NEW b \in Seq(Nat), NEW c \in Seq(Nat),
           b # <<>>, ~Step(d, b).again
    PROVE  /\ Step(d, b).out = <<>>
           /\ \/ \E k \in 1..(Len(b) + 1) :
                     /\ Step(d, b).rest = From(b, k)
                     /\ \A i \in Find(b \o c, Header(d)) : i >= k
              \/ d = "jk" /\ LastOf(b)
<1> DEFINE p == Header(d)
           s == Step(d, b)
           a == From(b, Min(Find(b, p)))
           w == b \o c
           l == Len(b)
<1>1. p \in Seq(Nat) /\ Len(p) > 0
  BY Patterns DEF Header
<1>2. l \in Nat \ {0} /\ b \o c \in Seq(Nat)
  BY EmptySeq
<1>3. \A x : Waits(x).out = <<>> /\ Waits(x).rest = x
  BY DEF Waits
<1>4. \A f, x : Yields(f, x).again /\ Skips(x).again
  BY DEF Yields, Skips
<1>5. \A i \in Find(w, p) : i \in Nat \ {0}
  BY DEF Find
<1>6. \A i \in Find(w, p) : i \in Find(b, p) \/ ~(i + Len(p) - 1 <= l)
  <2> HIDE DEF p
  <2>1. \A i \in Nat \ {0} :
            i \in Find(b, p) <=> i \in Find(b \o c, p) /\ i + Len(p) - 1 <= Len(b)
    BY <1>1, FindCat
  <2> QED BY <1>5, <2>1
<1>7. ASSUME Find(b, p) # {}, s = Waits(a)
      PROVE  s.out = <<>> /\ \E k \in 1..(l + 1) : s.rest = From(b, k)
                                                   /\ \A i \in Find(w, p) : i >= k
  <2> DEFINE m == Min(Find(b, p))
  <2>1. Find(w, p) # {} /\ Min(Find(w, p)) = m /\ m \in 1..l
    <3> HIDE DEF p
    <3> QED BY <1>1, <1>7, HeadStays
  <2>2. \A i \in Find(w, p) : m <= i
    <3>1. Find(w, p) \subseteq Nat
      BY <1>5
    <3>2. \A i \in Find(w, p) : Min(Find(w, p)) <= i
      <4> HIDE DEF p, w
      <4> QED BY <2>1, <3>1, MinIs
    <3> QED BY <2>1, <3>2
  <2>3. s.out = <<>> /\ s.rest = From(b, m)
    BY <1>3, <1>7
  <2> HIDE DEF m, s, w, p
  <2>4. m \in 1..(l + 1) /\ \A i \in Find(w, p) : i >= m
    <3>1. m \in Nat
      BY <2>1
    <3>2. \A i \in Find(w, p) : i \in Nat /\ m <= i
      BY <1>5, <2>2
    <3>3. \A i \in Nat : m <= i => i >= m
      BY <3>1
    <3>4. m \in 1..(l + 1)
      BY <1>2, <2>1
    <3> QED BY <3>2, <3>3, <3>4
  <2> QED BY <2>3, <2>4
<1>8. ASSUME d # "jk", Find(b, p) = {}, s = Waits(<<>>)
      PROVE  s.out = <<>> /\ \E k \in 1..(l + 1) : s.rest = From(b, k)
                                                   /\ \A i \in Find(w, p) : i >= k
  <2>1. Len(p) = 1
    BY <1>8 DEF Header
  <2>2. From(b, l + 1) = <<>>
    <3>1. l < l + 1 /\ l \in Int /\ l + 1 \in Int
      BY <1>2
    <3> QED BY <3>1, SubSeqEmpty DEF From
  <2>3. \A i \in Find(w, p) : ~(i + 1 - 1 <= l) /\ i \in Nat
    BY <1>5, <1>6, <1>8, <2>1
  <2>4. \A i \in Find(w, p) : i >= l + 1
    <3> HIDE DEF l, w, p
    <3> QED BY <1>2, <2>3
  <2>5. l + 1 \in 1..(l + 1)
    BY <1>2
  <2>6. s.out = <<>> /\ s.rest = From(b, l + 1)
    BY <1>3, <1>8, <2>2
  <2> HIDE DEF l, w, p, s
  <2> QED BY <2>4, <2>5, <2>6
<1>9. CASE d = "jk"
  <2>1. p = <<H1, H2>> /\ Len(p) = 2 /\ s = JkStep(b)
    BY <1>9 DEF Header, Step
  <2>2. CASE l < 2
    <3>1. s = Waits(b)
      BY <2>1, <2>2 DEF JkStep
    <3>2. From(b, 1) = b
      BY DEF From
    <3>3. 1 \in 1..(l + 1) /\ \A i \in Find(w, p) : i >= 1
      <4>1. \A i \in Nat \ {0} : i >= 1
        OBVIOUS
      <4> QED BY <1>2, <1>5, <4>1
    <3>4. s.out = <<>> /\ s.rest = From(b, 1)
      BY <1>3, <3>1, <3>2
    <3> HIDE DEF s, w, p
    <3> QED BY <3>3, <3>4 DEF s, w, p
  <2>3. CASE ~(l < 2) /\ Find(b, p) = {}
    <3>1. s = Waits(From(b, l))
      BY <2>1, <2>3 DEF JkStep
    <3>2. \A i \in Find(w, p) : ~(i + 2 - 1 <= l) /\ i \in Nat
      BY <1>5, <1>6, <2>1, <2>3
    <3>3. \A i \in Find(w, p) : i >= l
      <4> HIDE DEF l, w, p
      <4> QED BY <1>2, <3>2
    <3>4. l \in 1..(l + 1)
      BY <1>2
    <3>5. s.out = <<>> /\ s.rest = From(b, l)
      BY <1>3, <3>1
    <3> HIDE DEF s, w, p
    <3> QED BY <3>3, <3>4, <3>5 DEF s, w, p
  <2>4. CASE ~(l < 2) /\ Find(b, p) # {}
    <3>1. s = JkFrom(a)
      BY <2>1, <2>4, JkStepIs
    <3>2. CASE Len(a) < JkSize
      <4>1. s = Waits(a)
        BY <3>1, <3>2 DEF JkFrom
      <4> QED BY <1>7, <2>4, <4>1
    <3>3. CASE ~(Len(a) < JkSize)
      <4>1. ~Valid("jk", Upto(a, JkSize)) /\ Later(a, p, 2) = {}
        BY <1>4, <2>1, <3>1, <3>3 DEF JkFrom
      <4>2. s = Waits(From(a, Len(a)))
        BY <2>1, <3>1, <3>3, <4>1 DEF JkFrom
      <4>3. a \in Seq(Nat)
        <5> HIDE DEF p
        <5> QED BY <1>1, <2>4, HeadStays
      <4>4. Len(a) >= JkSize /\ l >= 2
        <5> HIDE DEF a
        <5> QED BY <1>2, <2>4, <3>3, <4>3 DEF JkSize
      <4>5. LastOf(b)
        BY <2>1, <2>4, <4>1, <4>2, <4>4 DEF LastOf
      <4> QED BY <1>3, <1>9, <4>2, <4>5
    <3> QED BY <3>2, <3>3
  <2> QED BY <2>2, <2>3, <2>4
<1>10. CASE d # "jk"
  <2>1. p = <<H1>>
    BY <1>10 DEF Header
  <2>2. s = IF Find(b, p) = {} THEN Waits(<<>>) ELSE Waits(a)
    <3>1. CASE d = "jbd"
      BY <1>4, <2>1, <3>1 DEF Step, JbdStep
    <3>2. CASE d = "basen"
      BY <1>4, <2>1, <3>2 DEF Step, BasenStep
    <3>3. CASE d = "basen_uart"
      BY <1>4, <2>1, <3>3 DEF Step, BasenUartStep
    <3>4. CASE d = "pace"
      BY <1>4, <2>1, <3>4 DEF Step, PaceStep
    <3>5. CASE d = "daly_uart"
      BY <1>4, <2>1, <3>5 DEF Step, DalyUartStep
    <3> QED BY <1>10, <3>1, <3>2, <3>3, <3>4, <3>5 DEF Thorough, Looping
  <2> QED BY <1>7, <1>8, <1>10, <2>2
<1> QED BY <1>9, <1>10

\* What a loop hands on and keeps, whether it ended for want of a header or
\* for want of bytes.
Alike(x, y) == x.rest = y.rest /\ x.out = y.out

\* A loop whose first round is to be followed by another.
LEMMA ScanGoesOn ==
    ASSUME NEW d \in Looping, NEW b \in Seq(Nat), b # <<>>, Step(d, b).again
    PROVE  Alike(Scan(d, b), After(Step(d, b).out, Scan(d, Step(d, b).rest)))
<1> DEFINE y == Step(d, b)
<1>1. y \in Steps(d, b)
  BY StepType
<1>2. y.rest \in Seq(Nat) /\ y.out \in Seq(Frames[d])
  BY <1>1 DEF Steps, Rounds
<1> HIDE DEF y
<1>3. CASE y.rest # <<>>
  <2>1. Scan(d, b) = After(y.out, Scan(d, y.rest))
    BY <1>3, ScanUnfolds DEF Ended, y
  <2> QED BY <2>1 DEF Alike, y
<1>4. CASE y.rest = <<>>
  <2>1. Scan(d, b) = y
    BY <1>4, ScanUnfolds DEF Ended, y
  <2>2. Scan(d, y.rest) = Skips(<<>>)
    BY <1>4, ScanEmpty
  <2>3. y.out \o <<>> = y.out
    BY <1>2, ConcatEmptySeq
  <2>4. After(y.out, Scan(d, y.rest)).rest = <<>>
    BY <2>2 DEF After, Skips
  <2>5. After(y.out, Scan(d, y.rest)).out = y.out
    BY <2>2, <2>3 DEF After, Skips
  <2> QED BY <1>4, <2>1, <2>4, <2>5 DEF Alike, y
<1> QED BY <1>3, <1>4

\* A loop whose first round is the same is the same.
LEMMA ScanSame ==
    ASSUME NEW d \in Looping, NEW u \in Seq(Nat), NEW v \in Seq(Nat),
           u # <<>>, v # <<>>, Step(d, u) = Step(d, v)
    PROVE  Scan(d, u) = Scan(d, v)
BY ScanUnfolds

\* The bytes of a sequence are more than none.
LEMMA Some ==
    ASSUME NEW u \in Seq(Nat)
    PROVE  u # <<>> <=> Len(u) > 0
OBVIOUS

\* jk: to keep the last byte of a bad window is enough.
LEMMA LastByteSame ==
    ASSUME NEW b \in Seq(Nat), NEW c \in Seq(Nat), LastOf(b)
    PROVE  Alike(Scan("jk", b \o c), Scan("jk", JkStep(b).rest \o c))
<1> DEFINE p == <<H1, H2>>
           a == From(b, Min(Find(b, p)))
           w == a \o c
           l == Len(a)
           r == From(a, l)
           v == r \o c
           T == Later(w, p, 2)
<1>1. p \in Seq(Nat) /\ Len(p) > 0 /\ Len(p) = 2
  BY Patterns
<1>2. /\ Len(b) >= 2 /\ Find(b, p) # {} /\ JkStep(b).rest = r
      /\ l >= 6 /\ ~Valid("jk", Upto(a, JkSize)) /\ Later(a, p, 2) = {}
  <2>1. /\ Len(b) >= 2 /\ Find(b, p) # {} /\ JkStep(b) = Waits(r)
        /\ l >= JkSize /\ ~Valid("jk", Upto(a, JkSize)) /\ Later(a, p, 2) = {}
    BY DEF LastOf
  <2>2. JkStep(b).rest = r
    BY <2>1 DEF Waits
  <2> QED BY <2>1, <2>2 DEF JkSize
<1>3. /\ a \in Seq(Nat) /\ Find(b \o c, p) # {}
      /\ From(b \o c, Min(Find(b \o c, p))) = w
  <2> HIDE DEF p
  <2> QED BY <1>1, <1>2, HeadStays
<1> HIDE DEF a
<1>4. /\ l \in Nat \ {0} /\ Len(c) \in Nat /\ Len(b) \in Nat
      /\ w \in Seq(Nat) /\ Len(w) = l + Len(c)
      /\ b \o c \in Seq(Nat) /\ Len(b \o c) = Len(b) + Len(c)
  BY <1>2, <1>3, ConcatProperties
<1>5. v = From(w, l)
  <2>1. l \in 1..(l + 1)
    BY <1>4
  <2> QED BY <1>3, <2>1, FromCat
<1>6. l \in 1..(Len(w) + 1) /\ l <= Len(w)
  BY <1>4
<1>7. v \in Seq(Nat) /\ Len(v) = Len(w) - l + 1
  <2>1. Len(v) = IF l <= Len(w) THEN Len(w) - l + 1 ELSE 0
    <3> HIDE DEF w, v, l
    <3> QED BY <1>4, <1>5, FromLen
  <2>2. v \in Seq(Nat)
    <3> HIDE DEF w, v, l
    <3> QED BY <1>4, <1>5, FromType
  <2> HIDE DEF w, v, l
  <2> QED BY <1>6, <2>1, <2>2
<1>8. v # <<>> /\ b \o c # <<>>
  <2>1. Len(v) > 0 /\ Len(b \o c) > 0
    <3> HIDE DEF w, v, l
    <3> QED BY <1>2, <1>4, <1>7
  <2> HIDE DEF v
  <2> QED BY <1>4, <1>7, <2>1, Some
<1>9. \A j \in Nat \ {0} : j \in Find(v, p) <=> l + j - 1 \in Find(w, p)
  <2> HIDE DEF w, v, l, p
  <2> QED BY <1>1, <1>4, <1>5, <1>6, FindFrom
<1>10. JkStep(b \o c) = IF T # {} THEN Skips(From(w, Min(T)))
                        ELSE Waits(From(w, Len(w)))
  <2>1. Upto(w, JkSize) = Upto(a, JkSize)
    <3>1. JkSize \in 1..Len(a)
      BY <1>2, <1>4 DEF JkSize
    <3> QED BY <1>3, <3>1, WindowStays
  <2>2. ~(Len(w) < JkSize) /\ ~(Len(b \o c) < 2)
    <3> HIDE DEF w, l
    <3> QED BY <1>2, <1>4 DEF JkSize
  <2> HIDE DEF w
  <2>3. JkStep(b \o c) = JkFrom(w)
    BY <1>3, <2>2, JkStepIs
  <2> QED BY <1>2, <2>1, <2>2, <2>3 DEF JkFrom
\* Where the next header is.
<1>11. \A i \in T : i \in Find(w, p) /\ i \in Nat \ {0} /\ i > 2 /\ i >= l
  <2> SUFFICES ASSUME NEW i \in T
               PROVE  i \in Find(w, p) /\ i \in Nat \ {0} /\ i > 2 /\ i >= l
    OBVIOUS
  <2>1. i \in Find(w, p) /\ i > 2
    BY DEF Later
  <2>2. i \in Nat \ {0}
    BY <2>1 DEF Find
  <2>3. i \in Find(a, p) <=> i \in Find(a \o c, p) /\ i + Len(p) - 1 <= Len(a)
    <3> HIDE DEF p
    <3> QED BY <1>1, <1>3, <2>2, FindCat
  <2>4. i \notin Find(a, p)
    BY <1>2, <2>1 DEF Later
  <2>5. ~(i + 2 - 1 <= l)
    BY <1>1, <2>1, <2>3, <2>4
  <2> HIDE DEF l, w
  <2> QED BY <1>4, <2>1, <2>2, <2>5
<1>12. \A j \in Nat \ {0} : j \in Find(v, p) => l + j - 1 \in T
  <2> SUFFICES ASSUME NEW j \in Nat \ {0}, j \in Find(v, p)
               PROVE  l + j - 1 \in T
    OBVIOUS
  <2>1. l + j - 1 \in Find(w, p)
    BY <1>9
  <2>2. l + j - 1 > 2
    <3> HIDE DEF l
    <3> QED BY <1>2, <1>4
  <2> QED BY <2>1, <2>2 DEF Later
<1>13. "jk" \in Looping /\ "jk" \in Thorough /\ Header("jk") = p
  BY DEF Looping, Thorough, Header
<1>14. CASE T = {}
  <2>1. Find(v, p) = {}
    <3>1. \A j \in Find(v, p) : j \in Nat \ {0}
      BY DEF Find
    <3> QED BY <1>12, <1>14, <3>1
  <2>2. JkStep(v) = Waits(From(v, Len(v)))
    <3>1. CASE Len(v) < 2
      <4>1. Len(v) = 1
        <5> HIDE DEF v, w, l
        <5> QED BY <1>4, <1>7, <3>1
      <4>2. From(v, Len(v)) = v
        <5> HIDE DEF v
        <5> QED BY <1>7, <4>1 DEF From
      <4> QED BY <3>1, <4>2 DEF JkStep
    <3>2. CASE ~(Len(v) < 2)
      BY <2>1, <3>2 DEF JkStep
    <3> QED BY <3>1, <3>2
  <2>3. From(v, Len(v)) = From(w, Len(w))
    <3> DEFINE n == Len(v)
    <3>1. n \in Nat \ {0} /\ l + n - 1 = Len(w)
      <4> HIDE DEF v, w, l
      <4> QED BY <1>4, <1>7
    <3> HIDE DEF v, w, l, n
    <3>2. From(From(w, l), n) = From(w, l + n - 1)
      BY <1>4, <3>1, FromFrom
    <3> QED BY <1>5, <3>1, <3>2 DEF n
  <2>4. JkStep(v) = JkStep(b \o c)
    BY <1>10, <1>14, <2>2, <2>3
  <2>5. Step("jk", v) = Step("jk", b \o c)
    <3> HIDE DEF v
    <3> QED BY <2>4 DEF Step
  <2>6. Scan("jk", v) = Scan("jk", b \o c)
    <3> HIDE DEF v
    <3> QED BY <1>4, <1>7, <1>8, <1>13, <2>5, ScanSame
  <2> QED BY <1>2, <2>6 DEF Alike
<1>15. CASE T # {}
  <2> DEFINE m == Min(T)
             k == m - l + 1
             x == From(w, m)
  <2>1. m \in T /\ \A i \in T : m <= i
    <3>1. T \subseteq Nat
      BY <1>11
    <3> HIDE DEF T
    <3> QED BY <1>15, <3>1, MinIs
  <2>2. m \in Nat \ {0} /\ m >= l /\ m \in Find(w, p)
    <3> HIDE DEF m
    <3> QED BY <1>11, <2>1
  <2>3. m \in 1..Len(w)
    <3>1. m \in 1..(Len(w) - 2 + 1)
      <4> HIDE DEF m, w
      <4> QED BY <1>1, <2>2 DEF Find
    <3> HIDE DEF m, w
    <3> QED BY <1>4, <3>1
  <2> HIDE DEF m
  <2>4. k \in Nat \ {0} /\ l + k - 1 = m /\ k \in 1..Len(v)
    <3> HIDE DEF v, w, l
    <3> QED BY <1>4, <1>7, <2>2, <2>3
  <2>5. x = From(v, k)
    <3> HIDE DEF v, w, l, k
    <3> QED BY <1>4, <1>5, <2>4, FromFrom
  <2>6. \A j \in Find(v, p) : j >= k
    <3> SUFFICES ASSUME NEW j \in Find(v, p) PROVE j >= k
      OBVIOUS
    <3>1. j \in Nat \ {0}
      BY DEF Find
    <3>2. m <= l + j - 1
      <4> HIDE DEF T
      <4> QED BY <1>12, <2>1, <3>1
    <3> HIDE DEF l, v
    <3> QED BY <1>4, <2>2, <3>1, <3>2
  <2>7. Step("jk", x) = Step("jk", v)
    <3> HIDE DEF v, k, x, p
    <3> QED BY <1>7, <1>13, <2>4, <2>5, <2>6, JunkSame
  <2>8. x \in Seq(Nat) /\ x # <<>>
    <3>1. x \in Seq(Nat) /\ Len(x) = IF m <= Len(w) THEN Len(w) - m + 1 ELSE 0
      <4> HIDE DEF w
      <4> QED BY <1>4, <2>2, FromType, FromLen
    <3>2. Len(x) > 0
      <4> HIDE DEF w, x
      <4> QED BY <1>4, <2>2, <2>3, <3>1
    <3> HIDE DEF x
    <3> QED BY <3>1, <3>2, Some
  <2>9. Scan("jk", x) = Scan("jk", v)
    <3> HIDE DEF v, x
    <3> QED BY <1>7, <1>8, <1>13, <2>7, <2>8, ScanSame
  <2>10. Step("jk", b \o c) = Skips(x)
    BY <1>10, <1>15 DEF Step, m
  <2>11. /\ Step("jk", b \o c).again /\ Step("jk", b \o c).out = <<>>
         /\ Step("jk", b \o c).rest = x
    BY <2>10 DEF Skips
  <2>12. Alike(Scan("jk", b \o c), After(<<>>, Scan("jk", x)))
    <3> HIDE DEF x
    <3> QED BY <1>4, <1>8, <1>13, <2>11, ScanGoesOn
  <2>13. Scan("jk", x).out \in Seq(Frames["jk"])
    <3> HIDE DEF x
    <3> QED BY <1>13, <2>8, ScanType DEF Rounds
  <2>14. <<>> \o Scan("jk", x).out = Scan("jk", x).out
    <3> HIDE DEF x
    <3> QED BY <2>13, ConcatEmptySeq
  <2>15. Alike(Scan("jk", b \o c), Scan("jk", x))
    <3> HIDE DEF x
    <3> QED BY <2>12, <2>14 DEF Alike, After
  <2> QED BY <1>2, <2>9, <2>15
<1> QED BY <1>14, <1>15

-----------------------------------------------------------------------------
(* Two chunks or one                                                       *)

\* A round that waits for more drops nothing that matters.
LEMMA WaitsSame ==
    ASSUME NEW d \in Thorough, NEW b \in Seq(Nat), NEW c \in Seq(Nat),
           b # <<>>, ~Step(d, b).again
    PROVE  /\ Step(d, b).out = <<>>
           /\ Alike(Scan(d, b \o c), Scan(d, Step(d, b).rest \o c))
<1> DEFINE w == b \o c
           r == Step(d, b).rest
           v == r \o c
<1>1. d \in Looping
  BY DEF Thorough
<1>2. r \in Seq(Nat)
  <2>1. Step(d, b) \in Steps(d, b)
    BY <1>1, StepType
  <2> QED BY <2>1 DEF Steps, Rounds
<1>3. /\ w \in Seq(Nat) /\ Len(w) = Len(b) + Len(c)
      /\ Len(b) \in Nat \ {0} /\ Len(c) \in Nat
  BY EmptySeq, ConcatProperties
<1>4. v \in Seq(Nat)
  <2> HIDE DEF r
  <2> QED BY <1>2
<1> HIDE DEF w, v, r
<1>5. w # <<>>
  <2>1. Len(w) > 0
    BY <1>3
  <2> QED BY <1>3, <2>1, Some
<1>6. ASSUME NEW k \in 1..(Len(b) + 1), r = From(b, k),
             \A i \in Find(b \o c, Header(d)) : i >= k
      PROVE  Alike(Scan(d, w), Scan(d, v))
  <2>1. k \in Nat \ {0} /\ k \in 1..(Len(w) + 1)
    BY <1>3
  <2>2. v = From(w, k)
    BY <1>6, FromCat DEF v, w
  <2>3. CASE k <= Len(w)
    <3>1. k \in 1..Len(w)
      BY <2>1, <2>3
    <3>2. \A i \in Find(w, Header(d)) : i >= k
      BY <1>6 DEF w
    <3>3. Step(d, v) = Step(d, w)
      BY <1>3, <2>2, <3>1, <3>2, JunkSame
    <3>4. v # <<>>
      <4>1. Len(v) = IF k <= Len(w) THEN Len(w) - k + 1 ELSE 0
        BY <1>3, <2>1, <2>2, FromLen
      <4>2. Len(v) > 0
        BY <1>3, <2>1, <2>3, <4>1
      <4> QED BY <1>4, <4>2, Some
    <3>5. Scan(d, v) = Scan(d, w)
      BY <1>1, <1>3, <1>4, <1>5, <3>3, <3>4, ScanSame
    <3> QED BY <3>5 DEF Alike
  \* Nothing is left, and nothing has come.
  <2>4. CASE ~(k <= Len(w))
    <3>1. Len(c) = 0
      BY <1>3, <2>1, <2>4
    <3>2. c = <<>>
      BY <3>1, EmptySeq
    <3>3. w = b
      BY <3>2, ConcatEmptySeq DEF w
    <3>4. Len(r) = 0
      <4>1. Len(r) = IF k <= Len(b) THEN Len(b) - k + 1 ELSE 0
        BY <1>6, <2>1, FromLen
      <4> QED BY <2>4, <3>3, <4>1
    <3>5. r = <<>>
      BY <1>2, <3>4, EmptySeq
    <3>6. v = <<>>
      BY <3>2, <3>5, ConcatEmptySeq DEF v
    <3>7. Scan(d, v) = Skips(<<>>)
      BY <1>1, <3>6, ScanEmpty
    <3>8. Scan(d, w) = Step(d, b)
      BY <1>1, <3>3, ScanUnfolds DEF Ended
    <3>9. Step(d, b).out = <<>>
      BY WaitsFrom
    <3> QED BY <3>5, <3>7, <3>8, <3>9 DEF Alike, Skips, r
  <2> QED BY <2>3, <2>4
<1>7. ASSUME d = "jk", LastOf(b) PROVE Alike(Scan(d, w), Scan(d, v))
  <2>1. Step(d, b) = JkStep(b)
    BY <1>7 DEF Step
  <2> QED BY <1>7, <2>1, LastByteSame DEF w, v, r
<1>8. /\ Step(d, b).out = <<>>
      /\ \/ \E k \in 1..(Len(b) + 1) :
                /\ Step(d, b).rest = From(b, k)
                /\ \A i \in Find(b \o c, Header(d)) : i >= k
         \/ d = "jk" /\ LastOf(b)
  BY WaitsFrom
<1> QED BY <1>6, <1>7, <1>8 DEF w, v, r

\* What the loop makes of b and then of c is what it makes of both at once.
Cut(d, b, c) ==
    Alike(Scan(d, b \o c), After(Scan(d, b).out, Scan(d, Scan(d, b).rest \o c)))

\* Where the link cuts what a device sends does not matter: a driver that
\* looks for frames until none is left hands on the same frames, and keeps the
\* same bytes, whether b and c come as one chunk or as two.
THEOREM CutsDoNotMatter ==
    \A d \in Thorough : \A b, c \in Seq(Nat) : Cut(d, b, c)
<1> SUFFICES ASSUME NEW d \in Thorough
             PROVE  \A b, c \in Seq(Nat) : Cut(d, b, c)
  OBVIOUS
<1> DEFINE Good == {n \in Nat : \A b, c \in Seq(Nat) : Len(b) <= n => Cut(d, b, c)}
<1>1. d \in Looping
  BY DEF Thorough
<1>7. \A t, u, v \in Seq(Frames[d]) : (t \o u) \o v = t \o (u \o v)
  <2> DEFINE F == Frames[d]
  <2> HIDE DEF F
  <2> SUFFICES ASSUME NEW t \in Seq(F), NEW u \in Seq(F), NEW v \in Seq(F)
               PROVE  (t \o u) \o v = t \o (u \o v)
    BY DEF F
  <2> QED BY ConcatAssociative
<1>2. ASSUME NEW c \in Seq(Nat) PROVE Cut(d, <<>>, c)
  <2> DEFINE y == Scan(d, c)
  <2>1. <<>> \o c = c
    BY ConcatEmptySeq
  <2>2. Scan(d, <<>>) = Skips(<<>>)
    BY <1>1, ScanEmpty
  <2>3. Scan(d, <<>>).rest = <<>> /\ Scan(d, <<>>).out = <<>>
    BY <2>2 DEF Skips
  <2>4. y.out \in Seq(Frames[d])
    BY <1>1, ScanType DEF Rounds
  <2> HIDE DEF y
  <2>5. <<>> \o y.out = y.out
    BY <2>4, ConcatEmptySeq
  <2> QED BY <2>1, <2>3, <2>5 DEF Cut, Alike, After, y
<1>3. 0 \in Good
  <2> SUFFICES ASSUME NEW b \in Seq(Nat), NEW c \in Seq(Nat), Len(b) <= 0
               PROVE  Cut(d, b, c)
    OBVIOUS
  <2>1. b = <<>>
    BY EmptySeq
  <2> QED BY <1>2, <2>1
<1>4. ASSUME NEW n \in Nat, n \in Good PROVE n + 1 \in Good
  <2> SUFFICES ASSUME NEW b \in Seq(Nat), NEW c \in Seq(Nat), Len(b) <= n + 1
               PROVE  Cut(d, b, c)
    OBVIOUS
  <2>0. \A e, f \in Seq(Nat) : Len(e) <= n => Cut(d, e, f)
    BY <1>4
  <2> HIDE DEF Good
  <2> DEFINE s == Step(d, b)
             r == s.rest
  <2>4. b # <<>> => s \in Steps(d, b)
    BY <1>1, StepType
  <2>1. CASE b = <<>>
    BY <1>2, <2>1
  <2>2. CASE b # <<>> /\ ~s.again
    <3>1. /\ s.out = <<>>
          /\ Alike(Scan(d, b \o c), Scan(d, r \o c))
      BY <2>2, WaitsSame
    <3>2. Scan(d, b) = s
      BY <1>1, <2>2, ScanUnfolds DEF Ended
    <3>3. r \o c \in Seq(Nat)
      <4>1. r \in Seq(Nat)
        BY <2>2, <2>4 DEF Steps, Rounds
      <4> HIDE DEF r
      <4> QED BY <4>1
    <3> DEFINE y == Scan(d, r \o c)
    <3>4. y.out \in Seq(Frames[d])
      <4> HIDE DEF r
      <4> QED BY <1>1, <3>3, ScanType DEF Rounds
    <3> HIDE DEF y, s
    <3>5. <<>> \o y.out = y.out
      BY <3>4, ConcatEmptySeq
    <3>6. Alike(Scan(d, b \o c), y)
      BY <3>1 DEF y
    <3>7. Alike(y, After(s.out, y))
      BY <3>1, <3>5 DEF Alike, After
    <3>8. Alike(Scan(d, b \o c), After(s.out, y))
      BY <3>6, <3>7 DEF Alike
    <3> QED BY <3>2, <3>8 DEF Cut, y
  <2>3. CASE b # <<>> /\ s.again
    <3>2. r \in Seq(Nat) /\ Len(r) < Len(b) /\ s.out \in Seq(Frames[d])
      BY <2>3, <2>4 DEF Steps, Rounds
    <3>3. Step(d, b \o c) = More(s, c)
      BY <2>3, StepMore
    <3>4. /\ Step(d, b \o c).again /\ Step(d, b \o c).out = s.out
          /\ Step(d, b \o c).rest = r \o c
      BY <2>3, <3>3 DEF More
    <3>5. b \o c \in Seq(Nat) /\ b \o c # <<>>
      BY <2>3, ConcatEqualIffEmpty
    <3> HIDE DEF s, r
    <3> DEFINE X == Scan(d, r)
               Y == Scan(d, X.rest \o c)
    <3>6. Alike(Scan(d, b \o c), After(s.out, Scan(d, r \o c)))
      BY <1>1, <3>4, <3>5, ScanGoesOn
    <3>7. Alike(Scan(d, b), After(s.out, X))
      BY <1>1, <2>3, ScanGoesOn DEF s, r
    <3>8. Cut(d, r, c)
      <4>1. Len(r) \in Nat /\ Len(b) \in Nat
        BY <3>2
      <4>2. Len(r) <= n
        BY <3>2, <4>1
      <4> QED BY <2>0, <3>2, <4>2
    <3>9. Alike(Scan(d, r \o c), After(X.out, Y))
      BY <3>8 DEF Cut
    <3>10. X.rest \in Seq(Nat) /\ X.out \in Seq(Frames[d])
      BY <1>1, <3>2, ScanType DEF Rounds
    <3>11. Y.out \in Seq(Frames[d])
      <4>1. X.rest \o c \in Seq(Nat)
        <5> HIDE DEF X
        <5> QED BY <3>10
      <4> HIDE DEF X
      <4> QED BY <1>1, <4>1, ScanType DEF Rounds
    <3>12. (s.out \o X.out) \o Y.out = s.out \o (X.out \o Y.out)
      <4> HIDE DEF X, Y
      <4> QED BY <1>7, <3>2, <3>10, <3>11
    <3>13. /\ Scan(d, b \o c).rest = Y.rest
           /\ Scan(d, b \o c).out = s.out \o (X.out \o Y.out)
      <4> HIDE DEF X, Y
      <4> QED BY <3>6, <3>9 DEF Alike, After
    <3>14. Scan(d, b).rest = X.rest /\ Scan(d, b).out = s.out \o X.out
      <4> HIDE DEF X
      <4> QED BY <3>7 DEF Alike, After
    <3>15. Scan(d, Scan(d, b).rest \o c) = Y
      BY <3>14
    <3> HIDE DEF X, Y
    <3> QED BY <3>12, <3>13, <3>14, <3>15 DEF Cut, Alike, After
  <2> QED BY <2>1, <2>2, <2>3
<1>5. Nat \subseteq Good
  <2> HIDE DEF Good
  <2> QED BY <1>3, <1>4, Induction
<1>6. ASSUME NEW b \in Seq(Nat), NEW c \in Seq(Nat) PROVE Cut(d, b, c)
  <2>1. Len(b) \in Nat /\ Len(b) <= Len(b)
    OBVIOUS
  <2>2. Len(b) \in Good
    <3> HIDE DEF Good
    <3> QED BY <1>5, <2>1
  <2> QED BY <2>1, <2>2
<1> QED BY <1>6

\* s[i] is what the buffer holds, and what has been handed on, after the first
\* i chunks of w.
Heard(d, w, s) ==
    /\ s[0] = [rest |-> <<>>, out |-> <<>>]
    /\ \A i \in 1..Len(w) :
           /\ s[i].rest = Scan(d, s[i - 1].rest \o w[i]).rest
           /\ s[i].out = s[i - 1].out \o Scan(d, s[i - 1].rest \o w[i]).out

\* So it is for any number of chunks: what a driver has handed on, and what it
\* keeps, depend on the bytes that came, and not on how they were cut.
THEOREM StreamIsOne ==
    ASSUME NEW d \in Thorough, NEW w \in Seq(Seq(Nat)), NEW s, Heard(d, w, s)
    PROVE  \A n \in 1..Len(w) : Alike(s[n], Scan(d, Flat(w)[n]))
<1> DEFINE F == Flat(w)
           N == Len(w)
           Good == {n \in Nat : n \in 1..N => Alike(s[n], Scan(d, F[n]))}
<1>1. N \in Nat /\ d \in Looping
  BY DEF Thorough
<1>2. \A n \in 1..N : F[n] = IF n = 1 THEN w[n] ELSE F[n - 1] \o w[n]
  <2>1. F = [i \in 1..N |-> IF i = 1 THEN w[i] ELSE F[i - 1] \o w[i]]
    BY FlatDefined
  <2> HIDE DEF F
  <2> QED BY <2>1
<1>3. \A n \in 1..N : w[n] \in Seq(Nat) /\ F[n] \in Seq(Nat)
  <2>1. \A n \in 1..N : \A i \in 1..n : F[i] \in Seq(Nat)
    BY FlatGrows
  <2> HIDE DEF F
  <2> QED BY <2>1
<1>4. /\ s[0] = [rest |-> <<>>, out |-> <<>>]
      /\ \A n \in 1..N :
             /\ s[n].rest = Scan(d, s[n - 1].rest \o w[n]).rest
             /\ s[n].out = s[n - 1].out \o Scan(d, s[n - 1].rest \o w[n]).out
  BY DEF Heard
<1> HIDE DEF F, N
<1>5. 0 \in Good
  OBVIOUS
<1>6. ASSUME NEW n \in Nat, n \in Good PROVE n + 1 \in Good
  <2> SUFFICES ASSUME n + 1 \in 1..N
               PROVE  Alike(s[n + 1], Scan(d, F[n + 1]))
    OBVIOUS
  <2> DEFINE c == w[n + 1]
  <2>1. /\ s[n + 1].rest = Scan(d, s[n].rest \o c).rest
        /\ s[n + 1].out = s[n].out \o Scan(d, s[n].rest \o c).out
    <3>1. (n + 1) - 1 = n
      OBVIOUS
    <3> QED BY <1>4, <3>1
  <2>2. c \in Seq(Nat)
    BY <1>3
  <2>3. CASE n = 0
    <3>1. F[n + 1] = c
      BY <1>2, <2>3
    <3> HIDE DEF c
    <3>2. s[n].rest = <<>> /\ s[n].out = <<>> /\ <<>> \o c = c
      BY <1>4, <2>2, <2>3, ConcatEmptySeq
    <3> DEFINE y == Scan(d, c)
    <3>3. y.out \in Seq(Frames[d])
      BY <1>1, <2>2, ScanType DEF Rounds
    <3> HIDE DEF y
    <3>4. <<>> \o y.out = y.out
      BY <3>3, ConcatEmptySeq
    <3>5. s[n + 1].rest = y.rest /\ s[n + 1].out = y.out
      BY <2>1, <3>2, <3>4 DEF y
    <3> QED BY <3>1, <3>5 DEF Alike, y
  <2>4. CASE n # 0
    <3>1. n \in 1..N /\ n + 1 # 1 /\ (n + 1) - 1 = n
      BY <1>1, <2>4
    <3> DEFINE b == F[n]
    <3>2. F[n + 1] = b \o c /\ b \in Seq(Nat)
      BY <1>2, <1>3, <3>1
    <3>3. Alike(s[n], Scan(d, b))
      BY <1>6, <3>1
    <3> HIDE DEF b, c, Good
    <3>4. Cut(d, b, c)
      BY <2>2, <3>2, CutsDoNotMatter
    <3> QED BY <2>1, <3>2, <3>3, <3>4 DEF Cut, Alike, After
  <2> QED BY <2>3, <2>4
<1>7. Nat \subseteq Good
  <2> HIDE DEF Good
  <2> QED BY <1>5, <1>6, Induction
<1>8. ASSUME NEW n \in 1..N PROVE Alike(s[n], Scan(d, F[n]))
  <2>1. n \in Nat
    BY <1>1
  <2>2. n \in Good
    <3> HIDE DEF Good
    <3> QED BY <1>7, <2>1
  <2> QED BY <2>2
<1> QED BY <1>8 DEF F, N
=============================================================================
