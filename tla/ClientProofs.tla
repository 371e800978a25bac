----------------------------- MODULE ClientProofs -----------------------------
(***************************************************************************)
(* The client with any workers, bursts, preload, rings and losses: what it *)
(* has in flight never grows, and what main leaves in the output arrays is *)
(* the only thing that can leak, once.                                     *)
(***************************************************************************)
EXTENDS Client, FiniteSetTheorems, FunctionTheorems, TLAPS

\* --- Packets that move ---

LEMMA PlaceFacts ==
  /\ {In, TxOut, Net} \subseteq InFlightPlaces
  /\ \A w \in Workers : {RxOut(w), RxRing(w), WIn(w), WOut(w), TxRing(w)} \subseteq InFlightPlaces
  /\ InFlightPlaces \subseteq Places /\ {Freed, Lost, Leaked} \subseteq Places
BY DEF InFlightPlaces, Places

\* Packets that move are taken from one place and added to another.
MovedTo(g, f, a, b, k) ==
  /\ g \in [Places -> Nat]
  /\ g[a] = f[a] - k /\ g[b] = f[b] + k
  /\ \A c \in Places \ {a, b} : g[c] = f[c]

LEMMA MovedFacts ==
  ASSUME NEW f \in [Places -> Nat], NEW a \in Places, NEW b \in Places, a # b,
         NEW k \in Nat, k <= f[a]
  PROVE  MovedTo(Moved(f, a, b, k), f, a, b, k)
<1>1. f[a] - k \in Nat /\ f[b] + k \in Nat
  OBVIOUS
<1> QED
  BY <1>1 DEF Moved, MovedTo

\* What is in flight can be counted.
LEMMA NumberedFinite ==
  ASSUME NEW f \in [Places -> Nat]
  PROVE  IsFiniteSet(Numbered(f)) /\ Cardinality(Numbered(f)) \in Nat
<1> DEFINE Kinds == {"in", "txout", "net", "rxout", "rxring", "win", "wout", "txring"}
           At(c) == {c} \X (1..f[c])
           F == [c \in InFlightPlaces |-> At(c)]
           Sets == {At(c) : c \in InFlightPlaces}
<1>1. IsFiniteSet(Kinds)
  <2>1. \A S, x : IsFiniteSet(S) => IsFiniteSet(S \cup {x})
    BY FS_AddElement
  <2>2. IsFiniteSet({"in"})
    BY FS_Singleton
  <2>3. IsFiniteSet({"in"} \cup {"txout"} \cup {"net"} \cup {"rxout"})
    BY <2>1, <2>2
  <2>4. IsFiniteSet({"in"} \cup {"txout"} \cup {"net"} \cup {"rxout"} \cup {"rxring"}
                    \cup {"win"} \cup {"wout"} \cup {"txring"})
    BY <2>1, <2>3
  <2>5. Kinds = {"in"} \cup {"txout"} \cup {"net"} \cup {"rxout"} \cup {"rxring"}
                    \cup {"win"} \cup {"wout"} \cup {"txring"}
    OBVIOUS
  <2> QED
    BY <2>4, <2>5
<1>2. IsFiniteSet(0..NumWorkers)
  BY FS_Interval, ChosenAssumption
<1>3. IsFiniteSet(Kinds \X (0..NumWorkers))
  BY <1>1, <1>2, FS_Product
<1>4. InFlightPlaces \subseteq Kinds \X (0..NumWorkers)
  BY ChosenAssumption DEF InFlightPlaces, Workers, In, TxOut, Net, RxOut, RxRing, WIn, WOut, TxRing
<1>5. IsFiniteSet(InFlightPlaces)
  BY <1>3, <1>4, FS_Subset
<1>6. F \in Surjection(InFlightPlaces, Sets)
  BY DEF Surjection
<1>7. IsFiniteSet(Sets)
  <2> HIDE DEF F, Sets
  <2> QED
    BY <1>5, <1>6, FS_Surjection
<1>8. ASSUME NEW T \in Sets
      PROVE  IsFiniteSet(T)
  <2>1. PICK c \in InFlightPlaces : T = {c} \X (1..f[c])
    OBVIOUS
  <2>2. f[c] \in Nat
    BY PlaceFacts
  <2>3. IsFiniteSet({c}) /\ IsFiniteSet(1..f[c])
    <3>1. f[c] \in Int /\ 1 \in Int
      BY <2>2
    <3>2. IsFiniteSet(1..f[c])
      BY <3>1, FS_Interval
    <3> QED
      BY <3>2, FS_Singleton
  <2> QED
    BY <2>1, <2>3, FS_Product
<1>9. IsFiniteSet(UNION Sets)
  <2> HIDE DEF Sets
  <2> QED
    BY <1>7, <1>8, FS_UNION
<1>10. Numbered(f) = UNION Sets
  BY DEF Numbered
<1> QED
  BY <1>9, <1>10, FS_CardinalityType

\* g has no more in flight than f.
NoMore(g, f) == g \in [Places -> Nat] /\ Cardinality(Numbered(g)) <= Cardinality(Numbered(f))

LEMMA NoMoreTransitive ==
  ASSUME NEW f \in [Places -> Nat], NEW g, NEW h, NoMore(g, f), NoMore(h, g)
  PROVE  NoMore(h, f)
<1>1. \A i, j, k \in Nat : i <= j /\ j <= k => i <= k
  OBVIOUS
<1> QED
  BY <1>1, NumberedFinite DEF NoMore

\* Each packet of the later count is one of the earlier: those that moved in
\* flight take the numbers that the first place has lost.
LEMMA MovedNoMore ==
  ASSUME NEW f \in [Places -> Nat], NEW a \in InFlightPlaces, NEW b \in Places, a # b,
         NEW k \in Nat, k <= f[a]
  PROVE  NoMore(Moved(f, a, b, k), f)
<1> DEFINE g == Moved(f, a, b, k)
           Old(x) == IF x[1] = b /\ x[2] > f[b] THEN <<a, x[2] - f[b] + (f[a] - k)>> ELSE x
           F == [x \in Numbered(g) |-> Old(x)]
<1>1. a \in Places
  BY PlaceFacts
<1>2. /\ g \in [Places -> Nat]
      /\ g[a] = f[a] - k /\ g[b] = f[b] + k
      /\ \A c \in Places \ {a, b} : g[c] = f[c]
  BY <1>1, MovedFacts DEF MovedTo
<1> HIDE DEF g
<1>3. \A h \in [Places -> Nat] : \A x :
        x \in Numbered(h) <=> \E c \in InFlightPlaces : \E i \in 1..h[c] : x = <<c, i>>
  BY DEF Numbered
<1>4. ASSUME NEW c \in InFlightPlaces, NEW i \in 1..g[c]
      PROVE  /\ Old(<<c, i>>) \in Numbered(f)
             /\ \/ c = b /\ i > f[b] /\ Old(<<c, i>>) = <<a, i - f[b] + (f[a] - k)>>
                \/ (c # b \/ i <= f[b]) /\ Old(<<c, i>>) = <<c, i>>
             /\ c = a => i <= f[a] - k
  <2>1. c \in Places /\ f[c] \in Nat /\ g[c] \in Nat /\ f[a] \in Nat /\ f[b] \in Nat
    BY <1>1, <1>2, PlaceFacts
  <2>2. CASE c = b /\ i > f[b]
    <3>1. i - f[b] + (f[a] - k) \in 1..f[a]
      BY <1>2, <2>1, <2>2
    <3> QED
      BY <1>3, <2>2, <3>1
  <2>3. CASE c # b \/ i <= f[b]
    <3>1. i \in 1..f[c]
      <4>1. CASE c = b
        BY <2>1, <2>3, <4>1
      <4>2. CASE c = a
        BY <1>2, <2>1, <4>2
      <4>3. CASE c # a /\ c # b
        BY <1>2, <2>1, <4>3
      <4> QED
        BY <4>1, <4>2, <4>3
    <3>2. Old(<<c, i>>) = <<c, i>>
      BY <2>1, <2>3
    <3> QED
      BY <1>2, <1>3, <2>1, <2>3, <3>1, <3>2
  <2> QED
    BY <2>1, <2>2, <2>3
<1>5. F \in Injection(Numbered(g), Numbered(f))
  <2>1. F \in [Numbered(g) -> Numbered(f)]
    BY <1>2, <1>3, <1>4
  <2>2. ASSUME NEW x \in Numbered(g), NEW y \in Numbered(g), Old(x) = Old(y)
        PROVE  x = y
    <3>a. PICK c \in InFlightPlaces : \E i \in 1..g[c] : x = <<c, i>>
      BY <1>2, <1>3
    <3>b. PICK d \in InFlightPlaces : \E j \in 1..g[d] : y = <<d, j>>
      BY <1>2, <1>3
    <3>1. PICK i \in 1..g[c] : x = <<c, i>>
      BY <3>a
    <3>2. PICK j \in 1..g[d] : y = <<d, j>>
      BY <3>b
    <3>3. i \in Int /\ j \in Int /\ f[a] \in Nat /\ f[b] \in Nat
      BY <1>1, <1>2, <3>1, <3>2
    <3> DEFINE ox == Old(x)
               oy == Old(y)
    <3>4. /\ \/ c = b /\ i > f[b] /\ ox = <<a, i - f[b] + (f[a] - k)>>
             \/ (c # b \/ i <= f[b]) /\ ox = <<c, i>>
          /\ c = a => i <= f[a] - k
      BY <1>4, <3>1
    <3>5. /\ \/ d = b /\ j > f[b] /\ oy = <<a, j - f[b] + (f[a] - k)>>
             \/ (d # b \/ j <= f[b]) /\ oy = <<d, j>>
          /\ d = a => j <= f[a] - k
      BY <1>4, <3>2
    <3>6. ox = oy
      BY <2>2
    <3> HIDE DEF ox, oy
    <3>7. c = d /\ i = j
      BY <3>3, <3>4, <3>5, <3>6
    <3> QED
      BY <3>1, <3>2, <3>7
  <2> QED
    BY <2>1, <2>2 DEF Injection, IsInjective
<1>6. IsFiniteSet(Numbered(f)) /\ IsFiniteSet(Numbered(g))
  BY <1>2, NumberedFinite
<1>7. Cardinality(Numbered(g)) <= Cardinality(Numbered(f))
  <2> HIDE DEF F
  <2> QED
    BY <1>5, <1>6, FS_Injection
<1> QED
  BY <1>2, <1>7 DEF NoMore, g

\* --- What the handlers move ---

\* A burst that is handed over leaves the array empty, and what was beyond it
\* leaks (runtime.c:108-131).
LEMMA BulkFacts ==
  ASSUME NEW f \in [Places -> Nat], NEW a \in InFlightPlaces, NEW ring \in InFlightPlaces,
         a # ring, NEW k \in Nat, k <= f[a]
  PROVE  LET g == Bulk(f, a, ring, k)
         IN  /\ NoMore(g, f)
             /\ g[a] = 0 /\ g[Leaked] = f[Leaked] + (f[a] - k)
             /\ g[ring] \in {f[ring], f[ring] + k}
             /\ \A c \in Places \ {a, ring, Freed, Leaked} : g[c] = f[c]
<1> DEFINE to == IF f[ring] + k <= RingRoom THEN ring ELSE Freed
           h  == Moved(f, a, to, k)
           g  == Moved(h, a, Leaked, h[a])
<1>1. /\ a \in Places /\ ring \in Places /\ Freed \in Places /\ Leaked \in Places
      /\ Freed # Leaked /\ {Freed, Leaked} \cap InFlightPlaces = {}
  BY PlaceFacts DEF InFlightPlaces, In, TxOut, Net, RxOut, RxRing, WIn, WOut, TxRing, Freed, Leaked
<1>2. to \in Places /\ to # a /\ to # Leaked /\ to \in {ring, Freed} /\ a # Leaked
  BY <1>1
<1>3. MovedTo(h, f, a, to, k) /\ NoMore(h, f)
  <2> HIDE DEF to
  <2> QED
    BY <1>1, <1>2, MovedFacts, MovedNoMore
<1>4. h \in [Places -> Nat] /\ h[a] \in Nat
  BY <1>1, <1>3 DEF MovedTo
<1>5. MovedTo(g, h, a, Leaked, h[a]) /\ NoMore(g, h)
  <2> HIDE DEF h
  <2>1. h[a] <= h[a]
    BY <1>4
  <2> QED
    BY <1>1, <1>2, <1>4, <2>1, MovedFacts, MovedNoMore
<1>6. g = Bulk(f, a, ring, k)
  BY DEF Bulk
<1> HIDE DEF to, h, g
<1>7. NoMore(g, f)
  BY <1>3, <1>5, NoMoreTransitive
<1>8. g[a] = 0 /\ g[Leaked] = f[Leaked] + (f[a] - k)
  BY <1>1, <1>2, <1>3, <1>4, <1>5 DEF MovedTo
<1>9. \A c \in Places \ {a, ring, Freed, Leaked} : g[c] = f[c]
  BY <1>2, <1>3, <1>5 DEF MovedTo
<1>10. g[ring] \in {f[ring], f[ring] + k}
  BY <1>1, <1>2, <1>3, <1>5 DEF MovedTo
<1> QED
  BY <1>6, <1>7, <1>8, <1>9, <1>10

\* A packet joins an array; if that makes a burst the array is empty after it,
\* and what it held beyond a burst has leaked.
Joined(g, f, from, a, ring, bsz) ==
  /\ NoMore(g, f)
  /\ \/ /\ f[a] + 1 < bsz /\ g[a] = f[a] + 1 /\ g[Leaked] = f[Leaked]
     \/ /\ f[a] + 1 >= bsz /\ g[a] = 0
        /\ g[Leaked] = f[Leaked] + (f[a] + 1 - bsz)
  /\ \A c \in Places \ {from, a, ring, Freed, Leaked} : g[c] = f[c]

LEMMA BufferFacts ==
  ASSUME at \in [Places -> Nat], NEW from \in InFlightPlaces, NEW a \in InFlightPlaces,
         NEW ring \in InFlightPlaces, from # a, a # ring, NEW bsz \in Nat \ {0},
         at[from] > 0, Buffer(from, a, ring, bsz)
  PROVE  Joined(at', at, from, a, ring, bsz)
<1> DEFINE f == Moved(at, from, a, 1)
<1>1. /\ from \in Places /\ a \in Places /\ Leaked \in Places
      /\ Leaked \notin {from, a, ring}
  BY PlaceFacts DEF InFlightPlaces, In, TxOut, Net, RxOut, RxRing, WIn, WOut, TxRing, Leaked
<1>2. 1 <= at[from] /\ at[a] \in Nat /\ at[Leaked] \in Nat
  BY <1>1
<1>3. MovedTo(f, at, from, a, 1) /\ NoMore(f, at)
  BY <1>1, <1>2, MovedFacts, MovedNoMore
<1>4. f \in [Places -> Nat] /\ f[a] = at[a] + 1 /\ f[Leaked] = at[Leaked]
  BY <1>1, <1>3 DEF MovedTo
<1>5. IF f[a] < bsz THEN at' = f ELSE at' = Bulk(f, a, ring, bsz)
  BY DEF Buffer
<1> HIDE DEF f
<1>6. CASE f[a] < bsz
  BY <1>1, <1>3, <1>4, <1>5, <1>6 DEF Joined, MovedTo
<1>7. CASE ~(f[a] < bsz)
  <2>1. bsz <= f[a]
    BY <1>2, <1>4, <1>7
  <2>2. /\ NoMore(at', f) /\ at'[a] = 0 /\ at'[Leaked] = f[Leaked] + (f[a] - bsz)
        /\ \A c \in Places \ {a, ring, Freed, Leaked} : at'[c] = f[c]
    BY <1>4, <1>5, <1>7, <2>1, BulkFacts
  <2>3. NoMore(at', at)
    BY <1>3, <2>2, NoMoreTransitive
  <2>4. \A c \in Places \ {from, a, ring, Freed, Leaked} : at'[c] = at[c]
    BY <1>3, <2>2 DEF MovedTo
  <2>5. at[a] + 1 >= bsz /\ at'[Leaked] = at[Leaked] + (at[a] + 1 - bsz)
    BY <1>2, <1>4, <2>1, <2>2
  <2> QED
    BY <2>2, <2>3, <2>4, <2>5 DEF Joined
<1> QED
  BY <1>6, <1>7

\* A flush hands over what is there, and nothing leaks (runtime.c:258-286, 528-562).
Flushed(g, f, a, ring) ==
  /\ NoMore(g, f) /\ (g = f \/ g[a] = 0)
  /\ g[Leaked] = f[Leaked] /\ g[ring] \in {f[ring], f[ring] + f[a]}
  /\ \A c \in Places \ {a, ring, Freed, Leaked} : g[c] = f[c]

LEMMA SameNoMore == ASSUME NEW f \in [Places -> Nat] PROVE NoMore(f, f)
<1>1. Cardinality(Numbered(f)) \in Nat
  BY NumberedFinite
<1> QED
  BY <1>1 DEF NoMore

LEMMA FlushFacts ==
  ASSUME at \in [Places -> Nat], NEW a \in InFlightPlaces, NEW ring \in InFlightPlaces,
         a # ring, FlushArray(a, ring)
  PROVE  Flushed(at', at, a, ring)
<1>1. at[a] \in Nat /\ at[a] <= at[a] /\ at[Leaked] \in Nat
  BY PlaceFacts
<1>2. CASE flush[a]
  <2>1. at' = Bulk(at, a, ring, at[a])
    BY <1>2 DEF FlushArray
  <2>2. /\ NoMore(at', at) /\ at'[a] = 0 /\ at'[Leaked] = at[Leaked] + (at[a] - at[a])
        /\ at'[ring] \in {at[ring], at[ring] + at[a]}
        /\ \A c \in Places \ {a, ring, Freed, Leaked} : at'[c] = at[c]
    BY <1>1, <2>1, BulkFacts
  <2> QED
    BY <1>1, <2>2 DEF Flushed
<1>3. CASE ~flush[a]
  <2>1. at' = at
    BY <1>3 DEF FlushArray
  <2> QED
    BY <2>1, SameNoMore DEF Flushed
<1> QED
  BY <1>2, <1>3

\* What the NIC does not take is freed (runtime.c:321-348).
Sent(g, f) ==
  /\ NoMore(g, f) /\ g[TxOut] = 0 /\ g[Net] <= f[Net] + f[TxOut]
  /\ \A c \in Places \ {TxOut, Net, Lost} : g[c] = f[c]

LEMMA TransmittedFacts ==
  ASSUME NEW f \in [Places -> Nat], Transmitted(f), at[Lost] \in Nat
  PROVE  Sent(at', f)
<1>1. PICK k \in 0..(MaxLosses - at[Lost]) :
        k <= f[TxOut] /\ at' = Moved(Moved(f, TxOut, Net, f[TxOut] - k), TxOut, Lost, k)
  BY DEF Transmitted
<1> DEFINE m == f[TxOut] - k
           h == Moved(f, TxOut, Net, m)
<1>2. /\ TxOut \in InFlightPlaces /\ {TxOut, Net, Lost} \subseteq Places
      /\ TxOut # Net /\ TxOut # Lost /\ Net # Lost
  BY PlaceFacts DEF TxOut, Net, Lost
<1>3. k \in Nat /\ f[TxOut] \in Nat /\ f[Net] \in Nat
  BY <1>2, NumbersAssumption
<1>4. m \in Nat /\ m <= f[TxOut] /\ f[TxOut] - m = k
  BY <1>1, <1>3
<1> HIDE DEF m
<1>5. MovedTo(h, f, TxOut, Net, m) /\ NoMore(h, f)
  BY <1>2, <1>4, MovedFacts, MovedNoMore
<1>6. h \in [Places -> Nat] /\ h[TxOut] = k /\ at' = Moved(h, TxOut, Lost, k)
  BY <1>1, <1>4, <1>5 DEF MovedTo, m
<1> HIDE DEF h
<1>7. MovedTo(at', h, TxOut, Lost, k) /\ NoMore(at', h)
  BY <1>2, <1>3, <1>6, MovedFacts, MovedNoMore
<1>8. NoMore(at', f)
  BY <1>5, <1>7, NoMoreTransitive
<1>9. at'[TxOut] = 0 /\ at'[Net] = f[Net] + m
  BY <1>2, <1>3, <1>5, <1>6, <1>7 DEF MovedTo
<1>10. \A c \in Places \ {TxOut, Net, Lost} : at'[c] = f[c]
  BY <1>5, <1>7 DEF MovedTo
<1> QED
  BY <1>3, <1>4, <1>8, <1>9, <1>10 DEF Sent

\* --- What every step does to the places ---

\* The lcore that receives takes from the NIC, or the network and the server
\* lose a packet.
LEMMA NetStep ==
  ASSUME at \in [Places -> Nat], RxBurst(0) \/ Lose
  PROVE  /\ NoMore(at', at)
         /\ at' = at \/ \E b \in {In, Lost} : \E k \in Nat : k <= at[Net] /\ MovedTo(at', at, Net, b, k)
<1>1. /\ Net \in InFlightPlaces /\ {Net, In, Lost} \subseteq Places
      /\ Net # In /\ Net # Lost /\ at[Net] \in Nat
  BY PlaceFacts DEF In, Net, Lost
<1>2. PICK b \in {In, Lost}, k \in Nat : k <= at[Net] /\ at' = Moved(at, Net, b, k)
  BY <1>1, BurstsAssumption DEF RxBurst, Lose
<1>3. MovedTo(at', at, Net, b, k) /\ NoMore(at', at)
  BY <1>1, <1>2, MovedFacts, MovedNoMore
<1> QED
  BY <1>2, <1>3

\* The lcore that transmits takes a burst from a ring, or sends.
LEMMA TxStep ==
  ASSUME at \in [Places -> Nat], TakeForPort \/ TxFlush
  PROVE  /\ NoMore(at', at)
         /\ \/ Sent(at', at)
            \/ at' = at
            \/ \E w \in Workers : /\ at[TxRing(w)] >= TxRead
                                 /\ \A c \in Places \ {TxRing(w), TxOut, Net, Lost} : at'[c] = at[c]
<1>1. at[Lost] \in Nat
  BY PlaceFacts
<1>2. CASE at' = at
  BY <1>2, SameNoMore
<1>3. CASE Transmitted(at)
  BY <1>1, <1>3, TransmittedFacts DEF Sent
<1>4. CASE TakeForPort /\ at' # at
  <2>1. PICK w \in Workers :
          LET f == Moved(at, TxRing(w), TxOut, TxRead)
          IN  at[TxRing(w)] >= TxRead /\ (at' = f \/ Transmitted(f))
    BY <1>4 DEF TakeForPort
  <2> DEFINE f == Moved(at, TxRing(w), TxOut, TxRead)
  <2>2. /\ TxRing(w) \in InFlightPlaces /\ {TxRing(w), TxOut} \subseteq Places /\ TxRing(w) # TxOut
        /\ TxRead \in Nat /\ TxRead <= at[TxRing(w)]
    BY <2>1, PlaceFacts, BurstsAssumption DEF TxRing, TxOut
  <2>3. MovedTo(f, at, TxRing(w), TxOut, TxRead) /\ NoMore(f, at)
    BY <2>2, MovedFacts, MovedNoMore
  <2>4. at' = f \/ Transmitted(f)
    BY <2>1
  <2> HIDE DEF f
  <2>5. CASE at' = f
    BY <2>1, <2>3, <2>5 DEF MovedTo
  <2>6. CASE Transmitted(f)
    <3>1. Sent(at', f)
      BY <1>1, <2>3, <2>6, TransmittedFacts DEF MovedTo
    <3> QED
      BY <2>1, <2>3, <3>1, NoMoreTransitive DEF MovedTo, Sent
  <2> QED
    BY <2>4, <2>5, <2>6
<1> QED
  BY <1>2, <1>3, <1>4 DEF TxFlush

\* A worker takes a burst from its ring, or refuses an answer.
LEMMA WorkStep ==
  ASSUME at \in [Places -> Nat], NEW w \in Workers, TakeBurst(w) \/ Refuse(w)
  PROVE  /\ NoMore(at', at)
         /\ \/ at' = at
            \/ at[RxRing(w)] >= WorkerRead /\ MovedTo(at', at, RxRing(w), WIn(w), WorkerRead)
            \/ at[WIn(w)] > 0 /\ MovedTo(at', at, WIn(w), Lost, 1)
<1>1. /\ {RxRing(w), WIn(w)} \subseteq InFlightPlaces /\ {RxRing(w), WIn(w), Lost} \subseteq Places
      /\ RxRing(w) # WIn(w) /\ WIn(w) # Lost /\ at[WIn(w)] \in Nat /\ WorkerRead \in Nat
  BY PlaceFacts, BurstsAssumption DEF RxRing, WIn, Lost
<1>2. CASE at' = at
  BY <1>2, SameNoMore
<1>3. CASE at[RxRing(w)] >= WorkerRead /\ at' = Moved(at, RxRing(w), WIn(w), WorkerRead)
  <2>1. WorkerRead <= at[RxRing(w)]
    BY <1>1, <1>3
  <2> QED
    BY <1>1, <1>3, <2>1, MovedFacts, MovedNoMore
<1>4. CASE at[WIn(w)] > 0 /\ at' = Moved(at, WIn(w), Lost, 1)
  <2>1. 1 <= at[WIn(w)]
    BY <1>1, <1>4
  <2> QED
    BY <1>1, <1>4, <2>1, MovedFacts, MovedNoMore
<1> QED
  BY <1>2, <1>3, <1>4 DEF TakeBurst, Refuse

\* The four that put a packet into an array, or an array into a ring.
LEMMA ArrayStep ==
  ASSUME at \in [Places -> Nat], NEW w \in Workers
  PROVE  /\ HandOut => /\ at[In] > 0
                      /\ Joined(at', at, In, RxOut(Chosen), RxRing(Chosen), RxWrite)
         /\ Answer(w) => at[WIn(w)] > 0 /\ Joined(at', at, WIn(w), WOut(w), TxRing(w), WorkerWrite)
         /\ OutFlush(w) => Flushed(at', at, WOut(w), TxRing(w))
         /\ RxFlush => \E v \in Workers : Flushed(at', at, RxOut(v), RxRing(v))
<1>1. \A v \in Workers :
        /\ {RxOut(v), RxRing(v), WIn(v), WOut(v), TxRing(v)} \subseteq InFlightPlaces
        /\ RxOut(v) # In /\ RxOut(v) # RxRing(v) /\ WIn(v) # WOut(v) /\ WOut(v) # TxRing(v)
  BY PlaceFacts DEF In, RxOut, RxRing, WIn, WOut, TxRing
<1>2. In \in InFlightPlaces /\ Chosen \in Workers
  BY PlaceFacts, ChosenAssumption
<1>3. RxWrite \in Nat \ {0} /\ WorkerWrite \in Nat \ {0}
  BY BurstsAssumption
<1>4. HandOut => /\ at[In] > 0
                 /\ Joined(at', at, In, RxOut(Chosen), RxRing(Chosen), RxWrite)
  BY <1>1, <1>2, <1>3, BufferFacts DEF HandOut
<1>5. Answer(w) => at[WIn(w)] > 0 /\ Joined(at', at, WIn(w), WOut(w), TxRing(w), WorkerWrite)
  BY <1>1, <1>3, BufferFacts DEF Answer
<1>6. OutFlush(w) => Flushed(at', at, WOut(w), TxRing(w))
  BY <1>1, FlushFacts DEF OutFlush
<1>7. RxFlush => \E v \in Workers : Flushed(at', at, RxOut(v), RxRing(v))
  BY <1>1, FlushFacts DEF RxFlush
<1> QED
  BY <1>4, <1>5, <1>6, <1>7

LEMMA TurnStep == (RxNewTurn \/ TxNewTurn \/ \E w \in Workers : WorkerNewTurn(w)) => at' = at
BY DEF RxNewTurn, TxNewTurn, WorkerNewTurn, NewTurn

\* No step puts more in flight.
LEMMA StepNoMore ==
  ASSUME at \in [Places -> Nat], [Next]_vars
  PROVE  NoMore(at', at)
<1>1. CASE RxBurst(0) \/ Lose
  BY <1>1, NetStep
<1>2. CASE TakeForPort \/ TxFlush
  BY <1>2, TxStep
<1>3. CASE \E w \in Workers : TakeBurst(w) \/ Refuse(w)
  BY <1>3, WorkStep
<1>4. CASE HandOut \/ RxFlush \/ \E w \in Workers : Answer(w) \/ OutFlush(w)
  BY <1>4, ArrayStep, ChosenAssumption DEF Joined, Flushed
<1>5. CASE at' = at
  BY <1>5, SameNoMore
<1> QED
  BY <1>1, <1>2, <1>3, <1>4, <1>5, TurnStep DEF Next, RxIo, TxIo, Worker, vars

LEMMA InitTyped == Init => at \in [Places -> Nat]
<1> SUFFICES ASSUME Init
             PROVE  at \in [Places -> Nat]
  OBVIOUS
<1>1. PICK given \in [Workers -> {0, Preload}] :
        at = [c \in Places |-> IF \E w \in Workers : c = WOut(w) THEN given[c[2]] ELSE 0]
  BY DEF Init
<1>2. ASSUME NEW c \in Places, NEW w \in Workers, c = WOut(w)
      PROVE  given[c[2]] \in Nat
  BY <1>2, NumbersAssumption DEF WOut
<1> QED
  BY <1>1, <1>2

\* An answer never makes two requests: what the client has in flight never
\* grows, whatever is lost, refused, freed or leaked (client.c:50-75).
THEOREM InFlightNeverGrows == Spec => NeverMore
<1> DEFINE Counted == at \in [Places -> Nat]
<1>1. Counted /\ [Next]_vars => Counted' /\ [InFlight' <= InFlight]_vars
  <2> SUFFICES ASSUME Counted, [Next]_vars
               PROVE  Counted' /\ InFlight' <= InFlight
    OBVIOUS
  <2>1. NoMore(at', at)
    BY StepNoMore
  <2> QED
    BY <2>1 DEF NoMore, InFlight, Numbered
<1>2. Init => Counted
  BY InitTyped
<1> QED
  BY <1>1, <1>2, PTL DEF Spec, NeverMore

\* --- What leaks ---

\* Answers come to one worker only.
OthersIdle == \A w \in Workers \ {Chosen} : at[RxOut(w)] = 0 /\ at[RxRing(w)] = 0 /\ at[WIn(w)] = 0

\* Nothing but what main left in the array of a single worker.
NothingSent == \A c \in InFlightPlaces \ {WOut(Chosen)} : at[c] = 0

\* The worker has not yet touched an array that main filled to a burst: with a
\* single worker no answer can come before that array is flushed.
Untouched == /\ at[WOut(Chosen)] = Preload /\ Preload >= WorkerWrite
             /\ at[Leaked] = 0
             /\ NumWorkers = 1 => NothingSent

LInv == /\ at \in [Places -> Nat]
        /\ OthersIdle
        /\ at[RxOut(Chosen)] < RxWrite
        /\ Untouched \/ (at[WOut(Chosen)] < WorkerWrite /\ LeaksOnce)

LEMMA LInvInit == Init => LInv
<1> SUFFICES ASSUME Init
             PROVE  LInv
  OBVIOUS
<1>1. PICK given \in [Workers -> {0, Preload}] :
        at = [c \in Places |-> IF \E w \in Workers : c = WOut(w) THEN given[c[2]] ELSE 0]
  BY DEF Init
<1>2. at \in [Places -> Nat]
  BY InitTyped
<1>3. ASSUME NEW w \in Workers
      PROVE  at[RxOut(w)] = 0 /\ at[RxRing(w)] = 0 /\ at[WIn(w)] = 0
  BY <1>1, PlaceFacts DEF RxOut, RxRing, WIn, WOut
<1>4. at[Leaked] = 0
  BY <1>1, PlaceFacts DEF Leaked, WOut
<1>5. at[WOut(Chosen)] \in {0, Preload}
  <2>1. WOut(Chosen) \in Places /\ WOut(Chosen)[2] = Chosen
    BY PlaceFacts, ChosenAssumption DEF WOut
  <2>2. at[WOut(Chosen)] = given[Chosen]
    BY <1>1, <2>1, ChosenAssumption
  <2> QED
    BY <2>2, ChosenAssumption
<1>6. NumWorkers = 1 => NothingSent
  <2> SUFFICES ASSUME NumWorkers = 1, NEW c \in InFlightPlaces \ {WOut(Chosen)}
               PROVE  at[c] = 0
    BY DEF NothingSent
  <2>1. \A w \in Workers : w = Chosen
    BY ChosenAssumption DEF Workers
  <2> QED
    BY <1>1, <2>1, PlaceFacts
<1>7. LeaksOnce
  BY <1>4, NumbersAssumption, BurstsAssumption DEF LeaksOnce
<1>8. OthersIdle /\ at[RxOut(Chosen)] < RxWrite
  BY <1>3, ChosenAssumption, BurstsAssumption DEF OthersIdle
<1>9. Preload \in Nat /\ WorkerWrite \in Nat \ {0}
  BY NumbersAssumption, BurstsAssumption
<1> QED
  BY <1>2, <1>4, <1>5, <1>6, <1>7, <1>8, <1>9 DEF LInv, Untouched

\* Steps elsewhere.
LEMMA Elsewhere ==
  ASSUME LInv, at' \in [Places -> Nat],
         \A w \in Workers \ {Chosen} :
           at'[RxOut(w)] = at[RxOut(w)] /\ at'[RxRing(w)] = at[RxRing(w)] /\ at'[WIn(w)] = at[WIn(w)],
         at'[RxOut(Chosen)] <= at[RxOut(Chosen)],
         at'[WOut(Chosen)] = at[WOut(Chosen)], at'[Leaked] = at[Leaked],
         NothingSent => NothingSent'
  PROVE  LInv'
<1>1. at[RxOut(Chosen)] \in Nat /\ at'[RxOut(Chosen)] \in Nat /\ RxWrite \in Nat
  BY PlaceFacts, ChosenAssumption, BurstsAssumption DEF LInv
<1>2. at'[RxOut(Chosen)] < RxWrite
  BY <1>1 DEF LInv
<1>3. OthersIdle'
  BY DEF LInv, OthersIdle
<1>4. CASE Untouched
  <2>1. Untouched'
    BY <1>4 DEF Untouched
  <2> QED
    BY <1>2, <1>3, <2>1 DEF LInv
<1>5. CASE at[WOut(Chosen)] < WorkerWrite /\ LeaksOnce
  <2>1. at'[WOut(Chosen)] < WorkerWrite /\ LeaksOnce'
    BY <1>5 DEF LeaksOnce
  <2> QED
    BY <1>2, <1>3, <2>1 DEF LInv
<1> QED
  BY <1>4, <1>5 DEF LInv

\* Steps that touch other places than these four.
LEMMA OtherPlaces ==
  ASSUME LInv, NoMore(at', at), NEW busy, \A c \in Places \ busy : at'[c] = at[c],
         \A w \in Workers \ {Chosen} : RxOut(w) \notin busy /\ RxRing(w) \notin busy /\ WIn(w) \notin busy,
         RxOut(Chosen) \notin busy, WOut(Chosen) \notin busy, Leaked \notin busy,
         NothingSent => NothingSent'
  PROVE  LInv'
<1>1. \A w \in Workers : RxOut(w) \in Places /\ RxRing(w) \in Places /\ WIn(w) \in Places
                        /\ WOut(w) \in Places
  BY PlaceFacts
<1>2. Leaked \in Places /\ Chosen \in Workers
  BY PlaceFacts, ChosenAssumption
<1>3. at'[RxOut(Chosen)] <= at[RxOut(Chosen)]
  <2>1. at'[RxOut(Chosen)] = at[RxOut(Chosen)] /\ at[RxOut(Chosen)] \in Nat
    BY <1>1, <1>2 DEF LInv
  <2> QED
    BY <2>1
<1> QED
  BY <1>1, <1>2, <1>3, Elsewhere DEF NoMore

LEMMA Stands == ASSUME LInv, at' = at PROVE LInv'
BY DEF LInv, OthersIdle, Untouched, NothingSent, LeaksOnce

LEMMA Apart ==
  /\ Net # In /\ Net # TxOut /\ Net # Lost /\ In # Lost /\ In # TxOut /\ TxOut # Lost
  /\ Leaked \notin {In, TxOut, Net, Freed, Lost}
  /\ \A c \in {Freed, Lost, Leaked} : c \notin InFlightPlaces
  /\ \A w \in Workers : \A c \in {In, TxOut, Net, Freed, Lost, Leaked} :
       c # RxOut(w) /\ c # RxRing(w) /\ c # WIn(w) /\ c # WOut(w) /\ c # TxRing(w)
<1>1. Net # In /\ Net # TxOut /\ Net # Lost /\ In # Lost /\ In # TxOut /\ TxOut # Lost
  BY DEF In, TxOut, Net, Lost
<1>2. \A c \in {Freed, Lost, Leaked} : c \notin InFlightPlaces
  BY DEF InFlightPlaces, In, TxOut, Net, RxOut, RxRing, WIn, WOut, TxRing, Freed, Lost, Leaked
<1>3. \A w \in Workers : \A c \in {In, TxOut, Net, Freed, Lost, Leaked} :
       c # RxOut(w) /\ c # RxRing(w) /\ c # WIn(w) /\ c # WOut(w) /\ c # TxRing(w)
  BY DEF In, TxOut, Net, RxOut, RxRing, WIn, WOut, TxRing, Freed, Lost, Leaked
<1>4. Leaked \notin {In, TxOut, Net, Freed, Lost}
  BY DEF In, TxOut, Net, Freed, Lost, Leaked
<1> QED
  BY <1>1, <1>2, <1>3, <1>4

\* The places of the workers are different places.
LEMMA OwnPlaces ==
  ASSUME NEW v \in Workers, NEW w \in Workers
  PROVE  /\ RxOut(v) # RxRing(w) /\ RxOut(v) # WIn(w) /\ RxOut(v) # WOut(w) /\ RxOut(v) # TxRing(w)
         /\ RxRing(v) # WIn(w) /\ RxRing(v) # WOut(w) /\ RxRing(v) # TxRing(w)
         /\ WIn(v) # WOut(w) /\ WIn(v) # TxRing(w) /\ WOut(v) # TxRing(w)
         /\ v # w => /\ RxOut(v) # RxOut(w) /\ RxRing(v) # RxRing(w) /\ WIn(v) # WIn(w)
                     /\ WOut(v) # WOut(w)
BY DEF RxOut, RxRing, WIn, WOut, TxRing

LEMMA NetLeaks ==
  ASSUME LInv, RxBurst(0) \/ Lose
  PROVE  LInv'
<1>1. at \in [Places -> Nat] /\ {Net, In, Lost} \subseteq Places /\ {Net, In} \subseteq InFlightPlaces
  BY PlaceFacts DEF LInv
<1>2. at[Net] \in Nat /\ at[In] \in Nat
  BY <1>1
<1>3. /\ NoMore(at', at)
      /\ at' = at \/ \E b \in {In, Lost} : \E k \in Nat : k <= at[Net] /\ MovedTo(at', at, Net, b, k)
  BY <1>1, NetStep
<1>4. \A c \in Places \ {Net, In, Lost} : at'[c] = at[c]
  BY <1>3 DEF MovedTo
<1>5. at[Net] = 0 => at'[Net] = 0 /\ at'[In] = at[In]
  BY <1>1, <1>2, <1>3, Apart DEF MovedTo
<1>6. NothingSent => NothingSent'
  BY <1>1, <1>4, <1>5, Apart, PlaceFacts, ChosenAssumption DEF NothingSent
<1> QED
  BY <1>3, <1>4, <1>6, Apart, ChosenAssumption, OtherPlaces

LEMMA TxLeaks ==
  ASSUME LInv, TakeForPort \/ TxFlush
  PROVE  LInv'
<1> DEFINE busy == {TxOut, Net, Lost} \cup {TxRing(w) : w \in Workers}
<1>1. /\ at \in [Places -> Nat] /\ {Net, TxOut, Lost} \subseteq Places
      /\ {Net, TxOut} \subseteq InFlightPlaces /\ \A w \in Workers : TxRing(w) \in InFlightPlaces
  BY PlaceFacts DEF LInv
<1>2. /\ NoMore(at', at)
      /\ \/ Sent(at', at)
         \/ at' = at
         \/ \E w \in Workers : /\ at[TxRing(w)] >= TxRead
                              /\ \A c \in Places \ {TxRing(w), TxOut, Net, Lost} : at'[c] = at[c]
  BY <1>1, TxStep
<1>3. \A c \in Places \ busy : at'[c] = at[c]
  BY <1>2 DEF Sent
<1>4. /\ \A w \in Workers : RxOut(w) \notin busy /\ RxRing(w) \notin busy /\ WIn(w) \notin busy
                            /\ WOut(w) \notin busy
      /\ Leaked \notin busy
  <2>1. \A w \in Workers : RxOut(w) \notin busy /\ RxRing(w) \notin busy /\ WIn(w) \notin busy
                          /\ WOut(w) \notin busy
    BY Apart, OwnPlaces
  <2>2. Leaked \notin busy
    BY Apart
  <2> QED
    BY <2>1, <2>2
<1>5. NothingSent => NothingSent'
  <2> SUFFICES ASSUME NothingSent
               PROVE  NothingSent'
    OBVIOUS
  <2>1. at[TxOut] = 0 /\ at[Net] = 0 /\ \A w \in Workers : at[TxRing(w)] = 0
    BY <1>1, Apart, OwnPlaces, ChosenAssumption DEF NothingSent
  <2>2. TxRead > 0 /\ TxRead \in Nat
    BY BurstsAssumption
  <2>3. \A w \in Workers : ~(at[TxRing(w)] >= TxRead)
    BY <2>1, <2>2
  <2>4. at' = at \/ Sent(at', at)
    BY <1>2, <2>3
  <2>5. CASE Sent(at', at)
    <3>1. at'[TxOut] = 0 /\ at'[Net] <= 0 /\ at'[Net] \in Nat
      BY <1>1, <1>2, <2>1, <2>5 DEF Sent, NoMore
    <3>2. at'[Net] = 0
      BY <3>1
    <3> QED
      BY <2>5, <3>1, <3>2, PlaceFacts, Apart DEF Sent, NothingSent
  <2> QED
    BY <2>4, <2>5 DEF NothingSent
<1> HIDE DEF busy
<1> QED
  BY <1>2, <1>3, <1>4, <1>5, ChosenAssumption, OtherPlaces

LEMMA WorkLeaks ==
  ASSUME LInv, NEW w \in Workers, TakeBurst(w) \/ Refuse(w)
  PROVE  LInv'
<1>1. at \in [Places -> Nat] /\ RxRing(w) \in InFlightPlaces /\ WIn(w) \in InFlightPlaces
  BY PlaceFacts DEF LInv
<1>2. /\ NoMore(at', at)
      /\ \/ at' = at
         \/ at[RxRing(w)] >= WorkerRead /\ MovedTo(at', at, RxRing(w), WIn(w), WorkerRead)
         \/ at[WIn(w)] > 0 /\ MovedTo(at', at, WIn(w), Lost, 1)
  BY <1>1, WorkStep
<1>3. WorkerRead \in Nat /\ WorkerRead > 0
  BY BurstsAssumption
<1>4. CASE at' = at
  BY <1>4, Stands
<1>5. CASE at' # at
  <2>1. at[RxRing(w)] # 0 \/ at[WIn(w)] # 0
    BY <1>2, <1>3, <1>5
  <2>2. w = Chosen
    BY <2>1 DEF LInv, OthersIdle
  <2>3. ~NothingSent
    BY <1>1, <2>1, OwnPlaces, ChosenAssumption DEF NothingSent
  <2>4. \A c \in Places \ {RxRing(w), WIn(w), Lost} : at'[c] = at[c]
    BY <1>2, <1>5 DEF MovedTo
  <2>5. \A v \in Workers \ {Chosen} : /\ RxOut(v) \notin {RxRing(w), WIn(w), Lost}
                                    /\ RxRing(v) \notin {RxRing(w), WIn(w), Lost}
                                    /\ WIn(v) \notin {RxRing(w), WIn(w), Lost}
    BY <2>2, Apart, OwnPlaces
  <2>6. RxOut(w) \notin {RxRing(w), WIn(w), Lost} /\ WOut(w) \notin {RxRing(w), WIn(w), Lost}
    BY Apart, OwnPlaces
  <2>7. Leaked \notin {RxRing(w), WIn(w), Lost}
    BY Apart
  <2> QED
    BY <1>2, <2>2, <2>3, <2>4, <2>5, <2>6, <2>7, OtherPlaces
<1> QED
  BY <1>4, <1>5

\* The array that leads to the worker holds less than a burst, so that a full
\* one is just a burst; the packet at hand has been on its way.
LEMMA HandOutLeaks ==
  ASSUME LInv, HandOut
  PROVE  LInv'
<1>1. /\ Chosen \in Workers /\ at \in [Places -> Nat] /\ In \in Places /\ Leaked \in Places
      /\ In \in InFlightPlaces \ {WOut(Chosen)}
  BY PlaceFacts, Apart, ChosenAssumption DEF LInv
<1>2. \A w \in Workers : RxOut(w) \in Places /\ RxRing(w) \in Places /\ WIn(w) \in Places
                        /\ WOut(w) \in Places
  BY PlaceFacts
<1>3. at[In] > 0 /\ Joined(at', at, In, RxOut(Chosen), RxRing(Chosen), RxWrite)
  BY <1>1, ArrayStep
<1>4. NoMore(at', at) /\ \A c \in Places \ {In, RxOut(Chosen), RxRing(Chosen), Freed, Leaked} : at'[c] = at[c]
  BY <1>3 DEF Joined
<1>5. ~NothingSent
  BY <1>1, <1>3 DEF NothingSent
<1>6. at[RxOut(Chosen)] \in Nat /\ at[RxOut(Chosen)] < RxWrite /\ RxWrite \in Nat \ {0} /\ at[Leaked] \in Nat
  BY <1>1, <1>2, BurstsAssumption DEF LInv
<1>7. at'[RxOut(Chosen)] < RxWrite /\ at'[Leaked] = at[Leaked]
  <2>1. CASE at[RxOut(Chosen)] + 1 < RxWrite
    BY <1>3, <1>6, <2>1 DEF Joined
  <2>2. CASE at[RxOut(Chosen)] + 1 >= RxWrite
    <3>1. at[RxOut(Chosen)] + 1 - RxWrite = 0
      BY <1>6, <2>2
    <3> QED
      BY <1>3, <1>6, <2>2, <3>1 DEF Joined
  <2> QED
    BY <1>6, <2>1, <2>2
<1>8. OthersIdle'
  <2> SUFFICES ASSUME NEW w \in Workers \ {Chosen}
               PROVE  at'[RxOut(w)] = 0 /\ at'[RxRing(w)] = 0 /\ at'[WIn(w)] = 0
    BY DEF OthersIdle
  <2>1. at[RxOut(w)] = 0 /\ at[RxRing(w)] = 0 /\ at[WIn(w)] = 0
    BY DEF LInv, OthersIdle
  <2> QED
    BY <1>1, <1>2, <1>4, <2>1, Apart, OwnPlaces
<1>9. at'[WOut(Chosen)] = at[WOut(Chosen)]
  BY <1>1, <1>2, <1>4, Apart, OwnPlaces
<1>10. Untouched => Untouched'
  BY <1>5, <1>7, <1>9 DEF Untouched
<1>11. LeaksOnce => LeaksOnce'
  BY <1>7 DEF LeaksOnce
<1> QED
  BY <1>4, <1>7, <1>8, <1>9, <1>10, <1>11 DEF LInv, NoMore

\* A packet joins the answers of the worker.  What main left there to the size
\* of a burst is more than a burst now; but then there is another worker, whose
\* requests were answered before this one flushed.
LEMMA AnswerLeaks ==
  ASSUME LInv, NEW w \in Workers, Answer(w)
  PROVE  LInv'
<1>1. /\ Chosen \in Workers /\ at \in [Places -> Nat] /\ Leaked \in Places
      /\ WIn(w) \in InFlightPlaces \ {WOut(Chosen)}
  BY PlaceFacts, OwnPlaces, ChosenAssumption DEF LInv
<1>2. \A v \in Workers : RxOut(v) \in Places /\ RxRing(v) \in Places /\ WIn(v) \in Places
                        /\ WOut(v) \in Places
  BY PlaceFacts
<1>3. at[WIn(w)] > 0 /\ Joined(at', at, WIn(w), WOut(w), TxRing(w), WorkerWrite)
  BY <1>1, ArrayStep
<1>4. w = Chosen /\ ~NothingSent
  BY <1>1, <1>3 DEF LInv, OthersIdle, NothingSent
<1>5. NoMore(at', at) /\ \A c \in Places \ {WIn(w), WOut(w), TxRing(w), Freed, Leaked} : at'[c] = at[c]
  BY <1>3 DEF Joined
<1>6. /\ at[WOut(w)] \in Nat /\ WorkerWrite \in Nat \ {0} /\ at[Leaked] \in Nat
      /\ Preload \in Nat /\ NumWorkers \in Nat \ {0}
  BY <1>1, <1>2, BurstsAssumption, NumbersAssumption, ChosenAssumption
<1>7. OthersIdle' /\ at'[RxOut(Chosen)] = at[RxOut(Chosen)]
  <2>1. at'[RxOut(Chosen)] = at[RxOut(Chosen)]
    BY <1>1, <1>2, <1>5, Apart, OwnPlaces
  <2> SUFFICES ASSUME NEW v \in Workers \ {Chosen}
               PROVE  at'[RxOut(v)] = 0 /\ at'[RxRing(v)] = 0 /\ at'[WIn(v)] = 0
    BY <2>1 DEF OthersIdle
  <2>2. at[RxOut(v)] = 0 /\ at[RxRing(v)] = 0 /\ at[WIn(v)] = 0
    BY DEF LInv, OthersIdle
  <2> QED
    BY <1>2, <1>4, <1>5, <2>2, Apart, OwnPlaces
<1>8. at'[WOut(w)] < WorkerWrite /\ LeaksOnce'
  <2>1. CASE Untouched
    <3>1. NumWorkers > 1 /\ at[Leaked] = 0 /\ at[WOut(w)] = Preload /\ Preload >= WorkerWrite
      BY <1>4, <1>6, <2>1 DEF Untouched
    <3>2. at'[WOut(w)] = 0 /\ at'[Leaked] = Preload + 1 - WorkerWrite
      <4>1. ~(at[WOut(w)] + 1 < WorkerWrite)
        BY <1>6, <3>1
      <4> QED
        BY <1>3, <1>6, <3>1, <4>1 DEF Joined
    <3> QED
      BY <1>6, <3>1, <3>2 DEF LeaksOnce
  <2>2. CASE at[WOut(w)] < WorkerWrite /\ LeaksOnce
    <3>1. at'[WOut(w)] < WorkerWrite /\ at'[Leaked] = at[Leaked]
      <4>1. CASE at[WOut(w)] + 1 < WorkerWrite
        BY <1>3, <1>6, <4>1 DEF Joined
      <4>2. CASE at[WOut(w)] + 1 >= WorkerWrite
        <5>1. at[WOut(w)] + 1 - WorkerWrite = 0
          BY <1>6, <2>2, <4>2
        <5> QED
          BY <1>3, <1>6, <4>2, <5>1 DEF Joined
      <4> QED
        BY <1>6, <4>1, <4>2
    <3> QED
      BY <2>2, <3>1 DEF LeaksOnce
  <2> QED
    BY <1>4, <2>1, <2>2 DEF LInv
<1> QED
  BY <1>4, <1>5, <1>7, <1>8 DEF LInv, NoMore

LEMMA RxFlushLeaks ==
  ASSUME LInv, RxFlush
  PROVE  LInv'
<1>1. /\ Chosen \in Workers /\ at \in [Places -> Nat]
  BY ChosenAssumption DEF LInv
<1>2. PICK v \in Workers : Flushed(at', at, RxOut(v), RxRing(v))
  BY <1>1, ArrayStep
<1>3. \A w \in Workers : RxOut(w) \in Places /\ RxRing(w) \in Places /\ WIn(w) \in Places
                        /\ WOut(w) \in Places
  BY PlaceFacts
<1>4. /\ NoMore(at', at) /\ (at' = at \/ at'[RxOut(v)] = 0) /\ at'[Leaked] = at[Leaked]
      /\ at'[RxRing(v)] \in {at[RxRing(v)], at[RxRing(v)] + at[RxOut(v)]}
      /\ \A c \in Places \ {RxOut(v), RxRing(v), Freed, Leaked} : at'[c] = at[c]
  BY <1>2 DEF Flushed
<1>5. at'[WOut(Chosen)] = at[WOut(Chosen)]
  BY <1>1, <1>3, <1>4, Apart, OwnPlaces
<1>6. at'[RxOut(Chosen)] <= at[RxOut(Chosen)]
  <2>1. at[RxOut(Chosen)] \in Nat
    BY <1>1, <1>3
  <2>2. at'[RxOut(Chosen)] \in {0, at[RxOut(Chosen)]}
    BY <1>1, <1>3, <1>4, Apart, OwnPlaces
  <2> QED
    BY <2>1, <2>2
<1>7. ASSUME NEW w \in Workers \ {Chosen}
      PROVE  at'[RxOut(w)] = at[RxOut(w)] /\ at'[RxRing(w)] = at[RxRing(w)] /\ at'[WIn(w)] = at[WIn(w)]
  <2>1. at[RxOut(w)] = 0 /\ at[RxRing(w)] = 0 /\ at[WIn(w)] = 0
    BY DEF LInv, OthersIdle
  <2>2. at'[WIn(w)] = at[WIn(w)]
    BY <1>3, <1>4, Apart, OwnPlaces
  <2>3. CASE w = v
    BY <1>4, <2>1, <2>2, <2>3
  <2>4. CASE w # v
    BY <1>3, <1>4, <2>2, <2>4, Apart, OwnPlaces
  <2> QED
    BY <2>3, <2>4
<1>8. NothingSent => NothingSent'
  <2> SUFFICES ASSUME NothingSent, NEW c \in InFlightPlaces \ {WOut(Chosen)}
               PROVE  at'[c] = 0
    BY DEF NothingSent
  <2>1. {RxOut(v), RxRing(v)} \subseteq InFlightPlaces \ {WOut(Chosen)}
    BY <1>1, PlaceFacts, OwnPlaces
  <2>2. at[RxOut(v)] = 0 /\ at[RxRing(v)] = 0 /\ at[c] = 0
    BY <2>1 DEF NothingSent
  <2>3. at'[RxOut(v)] = 0 /\ at'[RxRing(v)] = 0
    BY <1>4, <2>2
  <2>4. c \in Places /\ c # Freed /\ c # Leaked
    BY PlaceFacts, Apart
  <2> QED
    BY <1>4, <2>2, <2>3, <2>4
<1> QED
  BY <1>4, <1>5, <1>6, <1>7, <1>8, Elsewhere DEF NoMore

\* A flush takes all that is there, a burst or not.
LEMMA OutFlushLeaks ==
  ASSUME LInv, NEW w \in Workers, OutFlush(w)
  PROVE  LInv'
<1>1. /\ Chosen \in Workers /\ at \in [Places -> Nat]
  BY ChosenAssumption DEF LInv
<1>2. \A v \in Workers : RxOut(v) \in Places /\ RxRing(v) \in Places /\ WIn(v) \in Places
                        /\ WOut(v) \in Places
  BY PlaceFacts
<1>3. /\ NoMore(at', at) /\ (at' = at \/ at'[WOut(w)] = 0) /\ at'[Leaked] = at[Leaked]
      /\ \A c \in Places \ {WOut(w), TxRing(w), Freed, Leaked} : at'[c] = at[c]
  BY <1>1, ArrayStep DEF Flushed
<1>4. CASE at' = at
  BY <1>4, Stands
<1>5. CASE at' # at
  <2>1. OthersIdle'
    BY <1>2, <1>3, Apart, OwnPlaces DEF LInv, OthersIdle
  <2>2. at'[RxOut(Chosen)] = at[RxOut(Chosen)]
    BY <1>1, <1>2, <1>3, Apart, OwnPlaces
  <2>3. CASE w = Chosen
    <3>1. at'[WOut(Chosen)] < WorkerWrite
      BY <1>3, <1>5, <2>3, BurstsAssumption
    <3>2. LeaksOnce'
      <4>1. CASE Untouched
        BY <1>3, <4>1, NumbersAssumption, BurstsAssumption DEF Untouched, LeaksOnce
      <4>2. CASE LeaksOnce
        BY <1>3, <4>2 DEF LeaksOnce
      <4> QED
        BY <4>1, <4>2 DEF LInv
    <3> QED
      BY <1>3, <2>1, <2>2, <3>1, <3>2 DEF LInv, NoMore
  <2>4. CASE w # Chosen
    <3>1. at'[WOut(Chosen)] = at[WOut(Chosen)]
      BY <1>1, <1>2, <1>3, <2>4, Apart, OwnPlaces
    <3>2. NumWorkers # 1
      BY <1>1, <2>4, ChosenAssumption DEF Workers
    <3>3. Untouched => Untouched'
      BY <1>3, <3>1, <3>2 DEF Untouched
    <3>4. LeaksOnce => LeaksOnce'
      BY <1>3 DEF LeaksOnce
    <3> QED
      BY <1>3, <2>1, <2>2, <3>1, <3>3, <3>4 DEF LInv, NoMore
  <2> QED
    BY <2>3, <2>4
<1> QED
  BY <1>4, <1>5

LEMMA LInvStep == LInv /\ [Next]_vars => LInv'
<1> SUFFICES ASSUME LInv, [Next]_vars
             PROVE  LInv'
  OBVIOUS
<1>1. CASE RxBurst(0) \/ Lose
  BY <1>1, NetLeaks
<1>2. CASE TakeForPort \/ TxFlush
  BY <1>2, TxLeaks
<1>3. CASE \E w \in Workers : TakeBurst(w) \/ Refuse(w)
  BY <1>3, WorkLeaks
<1>4. CASE HandOut \/ RxFlush
  BY <1>4, HandOutLeaks, RxFlushLeaks
<1>5. CASE \E w \in Workers : Answer(w) \/ OutFlush(w)
  BY <1>5, AnswerLeaks, OutFlushLeaks
<1>6. CASE at' = at
  BY <1>6, Stands
<1> QED
  BY <1>1, <1>2, <1>3, <1>4, <1>5, <1>6, TurnStep DEF Next, RxIo, TxIo, Worker, vars

\* What main left in the output arrays is all that can leak: once, from the
\* worker that gets the answers, only if there is another worker and the arrays
\* were filled to a burst, and no more than what is over (client.c:117,
\* runtime.c:489-519).
THEOREM PreloadLeaksOnce == Spec => []LeaksOnce
<1>1. LInv => LeaksOnce
  BY NumbersAssumption, BurstsAssumption DEF LInv, Untouched, LeaksOnce
<1> QED
  BY <1>1, LInvInit, LInvStep, PTL DEF Spec
==============================================================================
