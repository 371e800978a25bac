--------------------------- MODULE PipelineProofs ---------------------------
(***************************************************************************)
(* No mbuf is leaked, duplicated or freed twice, for any number of lcores, *)
(* ports and packets and any sizes of bursts and rings.  The invariant     *)
(* needs one strengthening: between steps an array a packet may join is    *)
(* short of a burst, so that emptying it after a bulk enqueue loses none.  *)
(*                                                                         *)
(* Packets stay in order because each move is a hop from one place of a    *)
(* road to the next: what is moved joins behind what is ahead of it and    *)
(* before what comes after it.  Two places are on roads of several flows,  *)
(* the input of a worker and the array of a port; packets of another flow  *)
(* that join there do not matter, and that they are of another flow is the *)
(* strengthening (Home).                                                   *)
(***************************************************************************)
EXTENDS Pipeline, SequenceTheorems, TLAPS

Full == [Places -> Seq(Nat)]

\* What is where after the first k mbufs of a went to the end of b.
Took(f, g, a, b, k) ==
  /\ \A c \in Places : Len(f[c]) \in Nat /\ Len(g[c]) \in Nat
  /\ Len(g[a]) = Len(f[a]) - k /\ Len(g[b]) = Len(f[b]) + k
  /\ \A i \in 1..Len(g[a]) : g[a][i] = f[a][i + k]
  /\ \A i \in 1..Len(g[b]) :
       g[b][i] = IF i <= Len(f[b]) THEN f[b][i] ELSE f[a][i - Len(f[b])]
  /\ \A c \in Places \ {a, b} : g[c] = f[c]

LEMMA MovedItems ==
  ASSUME NEW f \in Full, NEW a \in Places, NEW b \in Places, a # b,
         NEW k \in Nat, k <= Len(f[a]), NEW g, g = Moved(f, a, b, k)
  PROVE  g \in Full /\ Took(f, g, a, b, k)
<1> DEFINE head == SubSeq(f[a], 1, k)
           tail == SubSeq(f[a], k + 1, Len(f[a]))
<1>1. f[a] \in Seq(Nat) /\ f[b] \in Seq(Nat)
  BY DEF Full
<1>2. head \in Seq(Nat) /\ Len(head) = k /\ \A i \in 1..k : head[i] = f[a][i]
  BY <1>1
<1>3. tail \in Seq(Nat) /\ Len(tail) = Len(f[a]) - k
      /\ \A i \in 1..(Len(f[a]) - k) : tail[i] = f[a][i + k]
  BY <1>1
<1> HIDE DEF head, tail
<1>4. g = [f EXCEPT ![a] = tail, ![b] = f[b] \o head]
  BY DEF Moved, head, tail, Full
<1>5. g[a] = tail /\ g[b] = f[b] \o head /\ \A c \in Places \ {a, b} : g[c] = f[c]
  BY <1>4 DEF Full
<1>6. f[b] \o head \in Seq(Nat) /\ Len(f[b] \o head) = Len(f[b]) + k
  BY <1>1, <1>2, ConcatProperties
<1>7. \A i \in 1..(Len(f[b]) + k) :
        (f[b] \o head)[i] = IF i <= Len(f[b]) THEN f[b][i] ELSE f[a][i - Len(f[b])]
  BY <1>1, <1>2, ConcatProperties
<1>8. g \in Full
  BY <1>3, <1>4, <1>6 DEF Full
<1>9. \A c \in Places : Len(f[c]) \in Nat /\ Len(g[c]) \in Nat
  BY <1>8 DEF Full
<1> QED
  BY <1>3, <1>5, <1>6, <1>7, <1>8, <1>9 DEF Took

\* A prefix moved from one place to another keeps every mbuf, once.
LEMMA MovedKeeps ==
  ASSUME NEW f \in Full, NEW n \in Nat, OneEach(f, n),
         NEW a \in Places, NEW b \in Places, a # b,
         NEW k \in Nat, k <= Len(f[a])
  PROVE  /\ Moved(f, a, b, k) \in Full
         /\ OneEach(Moved(f, a, b, k), n)
         /\ Len(Moved(f, a, b, k)[a]) = Len(f[a]) - k
         /\ Len(Moved(f, a, b, k)[b]) = Len(f[b]) + k
         /\ \A c \in Places \ {a, b} : Moved(f, a, b, k)[c] = f[c]
<1> DEFINE g == Moved(f, a, b, k)
<1>1. g \in Full /\ Took(f, g, a, b, k)
  BY MovedItems
<1> HIDE DEF g
<1>3. \A i \in 1..(Len(f[a]) - k) : g[a][i] = f[a][i + k]
  BY <1>1 DEF Took
<1>5. \A c \in Places \ {a, b} : g[c] = f[c]
  BY <1>1 DEF Took
<1>7. \A i \in 1..(Len(f[b]) + k) :
        g[b][i] = IF i <= Len(f[b]) THEN f[b][i] ELSE f[a][i - Len(f[b])]
  BY <1>1 DEF Took
<1>9. Len(f[a]) \in Nat /\ Len(f[b]) \in Nat
      /\ Len(g[a]) = Len(f[a]) - k /\ Len(g[b]) = Len(f[b]) + k
  BY <1>1 DEF Took
<1> DEFINE P(c, i) == IF c = a \/ (c = b /\ i > Len(f[b])) THEN a ELSE c
           I(c, i) == IF c = a THEN i + k
                      ELSE IF c = b /\ i > Len(f[b]) THEN i - Len(f[b]) ELSE i
<1>10. \A c \in Places : Len(f[c]) \in Nat /\ Len(g[c]) \in Nat
  BY <1>1 DEF Took
<1>11. ASSUME NEW c \in Places, NEW i \in 1..Len(g[c])
       PROVE  /\ i \in Nat /\ i > 0
              /\ c = b => i <= Len(f[b]) + k
              /\ c = a => P(c, i) = a /\ I(c, i) = i + k
              /\ c = b /\ i > Len(f[b]) => P(c, i) = a /\ I(c, i) = i - Len(f[b])
              /\ c = b /\ i <= Len(f[b]) => P(c, i) = b /\ I(c, i) = i
              /\ c # a /\ c # b => P(c, i) = c /\ I(c, i) = i
  <2>1. i \in Nat /\ i > 0
    BY <1>10
  <2>2. c = b => i <= Len(f[b]) + k
    BY <1>9
  <2>3. c = a => P(c, i) = a /\ I(c, i) = i + k
    OBVIOUS
  <2>4. c = b /\ i > Len(f[b]) => P(c, i) = a /\ I(c, i) = i - Len(f[b])
    OBVIOUS
  <2>5. c = b /\ i <= Len(f[b]) => P(c, i) = b /\ I(c, i) = i
    <3>1. i <= Len(f[b]) => ~(i > Len(f[b]))
      BY <2>1, <1>9
    <3> QED
      BY <3>1
  <2>6. c # a /\ c # b => P(c, i) = c /\ I(c, i) = i
    OBVIOUS
  <2> HIDE DEF P, I
  <2> QED
    BY <2>1, <2>2, <2>3, <2>4, <2>5, <2>6
<1> HIDE DEF P, I
<1>12. ASSUME NEW c \in Places, NEW i \in 1..Len(g[c])
       PROVE  /\ P(c, i) \in Places /\ I(c, i) \in 1..Len(f[P(c, i)])
              /\ g[c][i] = f[P(c, i)][I(c, i)]
  <2>1. CASE c = a
    <3>1. P(c, i) = a /\ I(c, i) = i + k
      BY <1>11, <2>1
    <3>2. i \in 1..(Len(f[a]) - k) /\ i + k \in 1..Len(f[a])
      BY <1>9, <1>11, <2>1
    <3>3. g[c][i] = f[a][i + k]
      BY <1>3, <1>5, <2>1, <3>2
    <3> QED
      BY <3>1, <3>2, <3>3
  <2>2. CASE c = b /\ i > Len(f[b])
    <3>1. P(c, i) = a /\ I(c, i) = i - Len(f[b])
      BY <1>11, <2>2
    <3>2. i \in 1..(Len(f[b]) + k) /\ i - Len(f[b]) \in 1..Len(f[a])
      BY <1>9, <1>11, <2>2
    <3>3. g[c][i] = f[a][i - Len(f[b])]
      <4>1. ~(i <= Len(f[b]))
        BY <1>9, <2>2, <3>2
      <4>2. g[b][i] = f[a][i - Len(f[b])]
        BY <1>7, <3>2, <4>1
      <4> QED
        BY <2>2, <4>2
    <3> QED
      BY <3>1, <3>2, <3>3
  <2>3. CASE c = b /\ i <= Len(f[b])
    <3>1. P(c, i) = b /\ I(c, i) = i
      BY <1>11, <2>3
    <3>2. i \in 1..(Len(f[b]) + k) /\ i \in 1..Len(f[b])
      BY <1>9, <1>11, <2>3
    <3>3. g[c][i] = f[b][i]
      BY <1>5, <1>7, <1>9, <2>3, <3>2
    <3> QED
      BY <3>1, <3>2, <3>3
  <2>4. CASE c # a /\ c # b
    BY <2>4, <1>5, <1>9, <1>11
  <2> QED
    BY <1>9, <1>11, <2>1, <2>2, <2>3, <2>4
<1>15. ASSUME NEW c \in Places, NEW i \in 1..Len(g[c]),
              NEW d \in Places, NEW j \in 1..Len(g[d]),
              P(c, i) = P(d, j), I(c, i) = I(d, j)
       PROVE  c = d /\ i = j
  <2>1. CASE c = a
    BY <1>9, <1>11, <1>15, <2>1
  <2>2. CASE c = b /\ i > Len(f[b])
    BY <1>9, <1>11, <1>15, <2>2
  <2>3. CASE c = b /\ i <= Len(f[b])
    BY <1>9, <1>11, <1>15, <2>3
  <2>4. CASE c # a /\ c # b
    BY <1>9, <1>11, <1>15, <2>4
  <2> QED
    BY <1>9, <1>11, <2>1, <2>2, <2>3, <2>4
<1>13. ASSUME NEW x \in 1..n
       PROVE  \E c \in Places : \E i \in 1..Len(g[c]) : g[c][i] = x
  <2>1. PICK c \in Places : \E i \in 1..Len(f[c]) : f[c][i] = x
    BY DEF OneEach
  <2>2. PICK i \in 1..Len(f[c]) : f[c][i] = x
    BY <2>1
  <2>3. i \in Nat /\ i > 0
    BY <1>10
  <2>4. CASE c = a /\ i <= k
    <3>1. Len(f[b]) + i \in 1..Len(g[b])
      BY <2>3, <2>4, <1>9
    <3> DEFINE m == Len(f[b]) + i
    <3>a. m \in 1..(Len(f[b]) + k) /\ ~(m <= Len(f[b])) /\ m - Len(f[b]) = i
      BY <2>3, <2>4, <1>9
    <3> HIDE DEF m
    <3>b. g[b][m] = f[a][i]
      BY <1>5, <1>7, <3>a
    <3>2. g[b][Len(f[b]) + i] = f[a][i]
      BY <3>b DEF m
    <3> QED
      BY <2>2, <2>4, <3>1, <3>2
  <2>5. CASE c = a /\ i > k
    <3>1. i - k \in 1..Len(g[a]) /\ g[a][i - k] = x
      BY <2>2, <2>3, <2>5, <1>3, <1>5, <1>9
    <3> QED
      BY <3>1
  <2>6. CASE c = b
    <3>1. i \in 1..Len(g[b]) /\ g[b][i] = x
      BY <2>2, <2>3, <2>6, <1>5, <1>7, <1>9
    <3> QED
      BY <3>1
  <2>7. CASE c # a /\ c # b
    BY <2>2, <2>7, <1>5
  <2> QED
    BY <2>3, <2>4, <2>5, <2>6, <2>7
<1>14. OneEach(g, n)
  <2>1. \A c \in Places : \A i \in 1..Len(g[c]) : g[c][i] \in 1..n
    <3> SUFFICES ASSUME NEW c \in Places, NEW i \in 1..Len(g[c])
                 PROVE  g[c][i] \in 1..n
      OBVIOUS
    <3>1. P(c, i) \in Places /\ I(c, i) \in 1..Len(f[P(c, i)]) /\ g[c][i] = f[P(c, i)][I(c, i)]
      BY <1>12
    <3>2. \A d \in Places : \A j \in 1..Len(f[d]) : f[d][j] \in 1..n
      BY DEF OneEach
    <3> QED
      BY <3>1, <3>2
  <2>2. ASSUME NEW c \in Places, NEW d \in Places,
               NEW i \in 1..Len(g[c]), NEW j \in 1..Len(g[d]), g[c][i] = g[d][j]
        PROVE  c = d /\ i = j
    <3>1. P(c, i) \in Places /\ I(c, i) \in 1..Len(f[P(c, i)]) /\ g[c][i] = f[P(c, i)][I(c, i)]
      BY <1>12
    <3>2. P(d, j) \in Places /\ I(d, j) \in 1..Len(f[P(d, j)]) /\ g[d][j] = f[P(d, j)][I(d, j)]
      BY <1>12
    <3>3. P(c, i) = P(d, j) /\ I(c, i) = I(d, j)
      <4>1. \A u, v \in Places : \A q \in 1..Len(f[u]), r \in 1..Len(f[v]) :
              f[u][q] = f[v][r] => u = v /\ q = r
        BY DEF OneEach
      <4>2. f[P(c, i)][I(c, i)] = f[P(d, j)][I(d, j)]
        BY <2>2, <3>1, <3>2
      <4> QED
        BY <3>1, <3>2, <4>1, <4>2
    <3> QED
      BY <3>3, <1>15
  <2> QED
    BY <1>13, <2>1, <2>2 DEF OneEach
<1> QED
  BY <1>1, <1>5, <1>9, <1>14 DEF g

\* What the NIC took, port by port.
Sents == {Sent(p) : p \in Ports}

\* Places of different kinds are different: no array is a ring or an input.
LEMMA Kinds ==
  /\ \A c \in RxArrays : c[1] = "rxout"
  /\ \A c \in WArrays : c[1] = "wout"
  /\ \A c \in TxArrays : c[1] = "txout"
  /\ \A c \in RxRings : c[1] = "rxring"
  /\ \A c \in TxRings : c[1] = "txring"
  /\ \A c \in Inputs : c[1] \in {"in", "win"}
  /\ \A c \in Sents : c[1] = "sent"
  /\ Freed[1] = "freed"
BY DEF RxArrays, WArrays, TxArrays, RxRings, TxRings, Inputs, Sents,
       RxOut, WOut, TxOut, RxRing, TxRing, In, WIn, Sent, Freed

\* All of them are places.
LEMMA KindsArePlaces ==
  /\ RxArrays \subseteq Places /\ WArrays \subseteq Places /\ TxArrays \subseteq Places
  /\ RxRings \subseteq Places /\ TxRings \subseteq Places /\ Inputs \subseteq Places
  /\ Sents \subseteq Places /\ Freed \in Places
BY DEF Places, Arrays, Rings, Sents

\* A bulk enqueue of a whole array empties it and loses nothing, whether the
\* ring has room or not (runtime.c:106-118).
LEMMA BulkKeeps ==
  ASSUME NEW f \in Full, NEW n \in Nat, OneEach(f, n),
         NEW a \in Places, NEW ring \in Places, NEW room, NEW k,
         k = Len(f[a]), a # ring, a # Freed,
         NEW g, g = Bulk(f, a, ring, room, k)
  PROVE  /\ g \in Full /\ OneEach(g, n) /\ g[a] = <<>>
         /\ \A c \in Places \ {a, ring, Freed} : g[c] = f[c]
<1> DEFINE to == IF Len(f[ring]) + k <= room THEN ring ELSE Freed
           h == Moved(f, a, to, k)
<1>1. to \in {ring, Freed} /\ to \in Places /\ a # to
  BY KindsArePlaces
<1>2. f[a] \in Seq(Nat) /\ k \in Nat /\ k <= Len(f[a])
  BY DEF Full
<1>3. g = [h EXCEPT ![a] = <<>>]
  BY DEF Bulk
<1> HIDE DEF to
<1>4. /\ h \in Full /\ OneEach(h, n)
      /\ Len(h[a]) = Len(f[a]) - k
      /\ \A c \in Places \ {a, to} : h[c] = f[c]
  BY <1>1, <1>2, MovedKeeps
<1> HIDE DEF h
<1>5. h[a] \in Seq(Nat) /\ Len(h[a]) = 0
  BY <1>2, <1>4 DEF Full
<1>6. h[a] = <<>>
  BY <1>5, EmptySeq
<1>7. g = h
  BY <1>3, <1>4, <1>6 DEF Full
<1> QED
  BY <1>1, <1>4, <1>6, <1>7

\* A packet that joins an array leaves it short of a burst; other arrays are
\* as they were (runtime.c:93-118, 477-527).
LEMMA BufferKeeps ==
  ASSUME NEW n \in Nat, buf \in Full, OneEach(buf, n),
         NEW from \in Inputs, NEW a \in RxArrays \cup WArrays, NEW ring \in Rings,
         NEW room, NEW bsz \in Nat \ {0},
         Len(buf[a]) < bsz, buf[from] # <<>>,
         Buffer(from, a, ring, room, bsz)
  PROVE  /\ buf' \in Full /\ OneEach(buf', n)
         /\ Len(buf'[a]) < bsz
         /\ Len(buf'[from]) < Len(buf[from])
         /\ \A c \in (Arrays \cup Inputs) \ {a, from} : buf'[c] = buf[c]
         /\ \A c \in (RxArrays \cup WArrays) \ {a} : buf'[c] = buf[c]
<1> DEFINE f == Moved(buf, from, a, 1)
<1>1. /\ from \in Places /\ a \in Places /\ ring \in Places /\ from # a
      /\ a # ring /\ a # Freed
      /\ from # ring /\ from # Freed
      /\ \A c \in Arrays \cup Inputs : c \in Places /\ c # ring /\ c # Freed
      /\ \A c \in RxArrays \cup WArrays : c \in Arrays /\ c # from
  BY Kinds, KindsArePlaces DEF Rings, Arrays
<1>2. buf[from] \in Seq(Nat) /\ Len(buf[from]) \in Nat /\ 1 <= Len(buf[from])
  <2>1. buf[from] \in Seq(Nat)
    BY <1>1 DEF Full
  <2> QED
    BY <2>1, EmptySeq
<1>3. /\ f \in Full /\ OneEach(f, n) /\ Len(f[a]) = Len(buf[a]) + 1
      /\ Len(f[from]) = Len(buf[from]) - 1
      /\ \A c \in Places \ {from, a} : f[c] = buf[c]
  BY <1>1, <1>2, MovedKeeps
<1> HIDE DEF f
<1>4. CASE Len(f[a]) < bsz
  <2>1. buf' = f
    BY <1>4 DEF Buffer, f
  <2> QED
    BY <1>1, <1>2, <1>3, <1>4, <2>1
<1>5. CASE ~(Len(f[a]) < bsz)
  <2>1. Len(buf[a]) \in Nat
    BY <1>1 DEF Full
  <2>2. Len(f[a]) = bsz
    BY <1>3, <1>5, <2>1
  <2>3. buf' = Bulk(f, a, ring, room, bsz)
    BY <1>5 DEF Buffer, f
  <2>4. /\ buf' \in Full /\ OneEach(buf', n) /\ buf'[a] = <<>>
        /\ \A c \in Places \ {a, ring, Freed} : buf'[c] = f[c]
    BY <1>1, <1>3, <2>2, <2>3, BulkKeeps
  <2>5. Len(buf'[a]) = 0
    BY <2>4, EmptySeq
  <2> QED
    BY <1>1, <1>2, <1>3, <2>4, <2>5
<1> QED
  BY <1>4, <1>5

\* A flush empties the array or leaves it alone (runtime.c:262-290, 532-566).
LEMMA FlushKeeps ==
  ASSUME NEW n \in Nat, buf \in Full, OneEach(buf, n),
         NEW a \in RxArrays \cup WArrays, NEW ring \in Rings, NEW room,
         FlushArray(a, ring, room)
  PROVE  /\ buf' \in Full /\ OneEach(buf', n)
         /\ buf'[a] \in {<<>>, buf[a]}
         /\ \A c \in (Arrays \cup Inputs) \ {a} : buf'[c] = buf[c]
<1>1. /\ a \in Places /\ ring \in Places /\ a # ring /\ a # Freed
      /\ \A c \in Arrays \cup Inputs : c \in Places /\ c # ring /\ c # Freed
  BY Kinds, KindsArePlaces DEF Rings, Arrays
<1>2. CASE flush[a] /\ buf[a] # <<>>
  <2>1. buf' = Bulk(buf, a, ring, room, Len(buf[a]))
    BY <1>2 DEF FlushArray
  <2>2. /\ buf' \in Full /\ OneEach(buf', n) /\ buf'[a] = <<>>
        /\ \A c \in Places \ {a, ring, Freed} : buf'[c] = buf[c]
    BY <1>1, <2>1, BulkKeeps
  <2> QED
    BY <1>1, <2>1, <2>2
<1>3. CASE ~(flush[a] /\ buf[a] # <<>>)
  <2>1. buf' = buf
    BY <1>3 DEF FlushArray
  <2> QED
    BY <2>1
<1> QED
  BY <1>2, <1>3

\* What the NIC takes and what it refuses are all of the port's array
\* (runtime.c:318-352, 369-388).
LEMMA TransmitKeeps ==
  ASSUME NEW n \in Nat, NEW f \in Full, OneEach(f, n),
         NEW p \in Ports, NEW s \in 0..Len(f[TxOut(p)]),
         NEW h, h = Transmitted(f, p, s)
  PROVE  /\ h \in Full /\ OneEach(h, n) /\ h[TxOut(p)] = <<>>
         /\ \A c \in (Arrays \cup Inputs) \ {TxOut(p)} : h[c] = f[c]
<1> DEFINE a == TxOut(p)
           g == Moved(f, a, Sent(p), s)
<1>1. a \in TxArrays /\ Sent(p) \in Sents
  BY DEF TxArrays, Sents
<1>2. /\ a \in Places /\ Sent(p) \in Places /\ Freed \in Places
      /\ a # Sent(p) /\ a # Freed
      /\ \A c \in Arrays \cup Inputs : c \in Places /\ c # Sent(p) /\ c # Freed
  BY <1>1, Kinds, KindsArePlaces DEF Arrays
<1>3. f[a] \in Seq(Nat) /\ Len(f[a]) \in Nat /\ s \in Nat /\ s <= Len(f[a])
  BY <1>2 DEF Full
<1>4. /\ g \in Full /\ OneEach(g, n)
      /\ \A c \in Places \ {a, Sent(p)} : g[c] = f[c]
  BY <1>2, <1>3, MovedKeeps
<1>5. h = Moved(g, a, Freed, Len(g[a]))
  BY DEF Transmitted
<1> HIDE DEF g
<1>6. g[a] \in Seq(Nat) /\ Len(g[a]) \in Nat
  BY <1>2, <1>4 DEF Full
<1>7. /\ h \in Full /\ OneEach(h, n) /\ Len(h[a]) = Len(g[a]) - Len(g[a])
      /\ \A c \in Places \ {a, Freed} : h[c] = g[c]
  BY <1>2, <1>4, <1>5, <1>6, MovedKeeps
<1>8. h[a] = <<>>
  <2>1. h[a] \in Seq(Nat) /\ Len(h[a]) = 0
    BY <1>2, <1>6, <1>7 DEF Full
  <2> QED
    BY <2>1, EmptySeq
<1> QED
  BY <1>2, <1>4, <1>7, <1>8

\* A burst that arrives is new and fills the place it is put at
\* (runtime.c:160-171).
LEMMA ArrivalKeeps ==
  ASSUME NEW f \in Full, NEW n \in Nat, OneEach(f, n), NEW k \in Nat,
         NEW a \in Places, f[a] = <<>>,
         NEW g, g = [f EXCEPT ![a] = [i \in 1..k |-> n + i]]
  PROVE  g \in Full /\ OneEach(g, n + k)
<1> DEFINE s == [i \in 1..k |-> n + i]
<1>1. s \in Seq(Nat) /\ Len(s) = k /\ \A i \in 1..k : s[i] = n + i
  OBVIOUS
<1> HIDE DEF s
<1>2. g = [f EXCEPT ![a] = s]
  BY DEF s
<1>3. g \in Full /\ g[a] = s /\ \A c \in Places \ {a} : g[c] = f[c]
  BY <1>1, <1>2 DEF Full
<1>4. Len(f[a]) = 0
  OBVIOUS
<1>5. \A c \in Places : \A i \in 1..Len(g[c]) :
        /\ i \in Nat
        /\ c = a => i \in 1..k /\ g[c][i] = n + i
        /\ c # a => i \in 1..Len(f[c]) /\ g[c][i] = f[c][i] /\ g[c][i] \in 1..n
  <2> SUFFICES ASSUME NEW c \in Places, NEW i \in 1..Len(g[c])
               PROVE  /\ i \in Nat
                      /\ c = a => i \in 1..k /\ g[c][i] = n + i
                      /\ c # a => i \in 1..Len(f[c]) /\ g[c][i] = f[c][i] /\ g[c][i] \in 1..n
    OBVIOUS
  <2>1. g[c] \in Seq(Nat)
    BY <1>3 DEF Full
  <2>2. Len(g[c]) \in Nat /\ i \in Nat
    BY <2>1
  <2>3. CASE c = a
    BY <1>1, <1>3, <2>2, <2>3
  <2>4. CASE c # a
    <3>1. g[c] = f[c]
      BY <1>3, <2>4
    <3>2. f[c][i] \in 1..n
      BY <3>1 DEF OneEach
    <3> QED
      BY <2>2, <2>4, <3>1, <3>2
  <2> QED
    BY <2>3, <2>4
<1>6. ASSUME NEW x \in 1..(n + k)
      PROVE  \E c \in Places : \E i \in 1..Len(g[c]) : g[c][i] = x
  <2>1. CASE x \in 1..n
    <3>1. PICK c \in Places : \E i \in 1..Len(f[c]) : f[c][i] = x
      BY <2>1 DEF OneEach
    <3>2. c # a
      BY <1>4, <3>1
    <3> QED
      BY <1>3, <3>1, <3>2
  <2>2. CASE x \notin 1..n
    <3>1. x - n \in 1..k /\ n + (x - n) = x
      BY <2>2
    <3>2. s[x - n] = x /\ x - n \in 1..Len(g[a])
      BY <1>1, <1>3, <3>1
    <3> QED
      BY <1>3, <3>2
  <2> QED
    BY <2>1, <2>2
<1>7. ASSUME NEW c \in Places, NEW i \in 1..Len(g[c])
      PROVE  g[c][i] \in 1..(n + k)
  <2>1. CASE c = a
    <3>1. i \in 1..k /\ g[c][i] = n + i
      BY <1>5, <2>1
    <3> QED
      BY <3>1
  <2>2. CASE c # a
    <3>1. g[c][i] \in 1..n
      BY <1>5, <2>2
    <3> QED
      BY <3>1
  <2> QED
    BY <2>1, <2>2
<1>8. ASSUME NEW c \in Places, NEW d \in Places,
             NEW i \in 1..Len(g[c]), NEW j \in 1..Len(g[d]), g[c][i] = g[d][j]
      PROVE  c = d /\ i = j
  <2>1. CASE c = a /\ d = a
    <3>1. i \in Nat /\ j \in Nat /\ n + i = n + j
      BY <1>5, <1>8, <2>1
    <3> QED
      BY <2>1, <3>1
  <2>2. CASE c = a /\ d # a
    <3>1. i \in 1..k /\ g[c][i] = n + i /\ g[d][j] \in 1..n
      BY <1>5, <2>2
    <3> QED
      BY <1>8, <3>1
  <2>3. CASE c # a /\ d = a
    <3>1. j \in 1..k /\ g[d][j] = n + j /\ g[c][i] \in 1..n
      BY <1>5, <2>3
    <3> QED
      BY <1>8, <3>1
  <2>4. CASE c # a /\ d # a
    <3>1. i \in 1..Len(f[c]) /\ j \in 1..Len(f[d]) /\ f[c][i] = f[d][j]
      BY <1>5, <1>8, <2>4
    <3> QED
      BY <3>1 DEF OneEach
  <2> QED
    BY <2>1, <2>2, <2>3, <2>4
<1> QED
  BY <1>3, <1>6, <1>7, <1>8 DEF OneEach

-----------------------------------------------------------------------------
\* Between two steps no array that packets join one by one holds a burst.
Short == /\ \A a \in RxArrays : Len(buf[a]) < RxWrite
         /\ \A a \in WArrays : Len(buf[a]) < WorkerWrite
Typed == buf \in Full /\ pkts \in Seq(Packet)
PInv  == Typed /\ Conserved /\ Short

\* Arrays that did not grow are short as before.
LEMMA ShortKept ==
  ASSUME Typed, Short, \A a \in RxArrays \cup WArrays : buf'[a] \in {<<>>, buf[a]}
  PROVE  Short'
<1> USE BurstsAssumption DEF Bursts
<1>1. Len(<<>>) = 0
  OBVIOUS
<1>2. 0 < RxWrite /\ 0 < WorkerWrite
  OBVIOUS
<1>3. ASSUME NEW a \in RxArrays
      PROVE  Len(buf'[a]) < RxWrite
  BY <1>1, <1>2, <1>3 DEF Short
<1>4. ASSUME NEW a \in WArrays
      PROVE  Len(buf'[a]) < WorkerWrite
  BY <1>1, <1>2, <1>4 DEF Short
<1> QED
  BY <1>3, <1>4 DEF Short

\* A step that moves mbufs but no array of PInv, and no packet arrives.
LEMMA Elsewhere ==
  ASSUME PInv, pkts' = pkts, buf' \in Full, OneEach(buf', Len(pkts)),
         \A a \in RxArrays \cup WArrays : buf'[a] = buf[a]
  PROVE  PInv'
<1>1. Short'
  BY ShortKept DEF PInv
<1> QED
  BY <1>1 DEF PInv, Typed, Conserved

\* Nothing is anywhere at first.
LEMMA PInvInit == Init => PInv
<1> SUFFICES ASSUME Init
             PROVE  PInv
  OBVIOUS
<1>1. Len(<<>>) = 0 /\ <<>> \in Seq(Nat) /\ pkts \in Seq(Packet) /\ Len(pkts) = 0
  BY DEF Init
<1>2. \A c \in Places : buf[c] = <<>> /\ Len(buf[c]) = 0
  BY <1>1 DEF Init
<1>3. buf \in Full
  BY <1>1 DEF Init, Full
<1>4. Conserved
  BY <1>1, <1>2 DEF Conserved, OneEach
<1>5. Short
  <2>1. \A a \in RxArrays \cup WArrays : Len(buf[a]) = 0
    BY <1>2, KindsArePlaces
  <2>2. RxWrite \in Nat /\ RxWrite > 0 /\ WorkerWrite \in Nat /\ WorkerWrite > 0
    BY BurstsAssumption DEF Bursts
  <2>3. \A a \in RxArrays : Len(buf[a]) < RxWrite
    BY <2>1, <2>2
  <2>4. \A a \in WArrays : Len(buf[a]) < WorkerWrite
    BY <2>1, <2>2
  <2> QED
    BY <2>3, <2>4 DEF Short
<1> QED
  BY <1>1, <1>3, <1>4, <1>5 DEF PInv, Typed

\* One bit of a mask, and all four of them (LoadBalance).
LEMMA OneBit ==
  ASSUME NEW v \in {1, 2, 4, 8}, NEW b \in Nat, NEW m \in 0..15
  PROVE  \E k, n \in Nat : k = BothHave(v, b, m) /\ n = v * ((m \div v) % 2) /\ k <= n
<1>1. (m \div v) % 2 \in {0, 1}
  OBVIOUS
<1>2. BothHave(v, b, m) \in Nat /\ BothHave(v, b, m) <= v * ((m \div v) % 2)
  BY <1>1 DEF BothHave
<1>3. v * ((m \div v) % 2) \in Nat
  BY <1>1
<1> QED
  BY <1>2, <1>3

LEMMA FourBits ==
  ASSUME NEW m \in 0..15
  PROVE  m = 1 * ((m \div 1) % 2) + 2 * ((m \div 2) % 2)
               + 4 * ((m \div 4) % 2) + 8 * ((m \div 8) % 2)
  OBVIOUS

LEMMA MaskInRange ==
  ASSUME NEW b \in Nat, NEW n \in 1..16
  PROVE  WorkerFor(b, n) \in 0..(n - 1)
<1> DEFINE m == n - 1
<1>1. m \in 0..15
  OBVIOUS
<1> HIDE DEF m
<1>2. PICK k1, n1 \in Nat : k1 = BothHave(1, b, m) /\ n1 = 1 * ((m \div 1) % 2) /\ k1 <= n1
  BY <1>1, OneBit
<1>3. PICK k2, n2 \in Nat : k2 = BothHave(2, b, m) /\ n2 = 2 * ((m \div 2) % 2) /\ k2 <= n2
  BY <1>1, OneBit
<1>4. PICK k4, n4 \in Nat : k4 = BothHave(4, b, m) /\ n4 = 4 * ((m \div 4) % 2) /\ k4 <= n4
  BY <1>1, OneBit
<1>5. PICK k8, n8 \in Nat : k8 = BothHave(8, b, m) /\ n8 = 8 * ((m \div 8) % 2) /\ k8 <= n8
  BY <1>1, OneBit
<1>6. m = n1 + n2 + n4 + n8
  BY <1>1, <1>2, <1>3, <1>4, <1>5, FourBits
<1>7. WorkerFor(b, n) = k1 + k2 + k4 + k8
  BY <1>2, <1>3, <1>4, <1>5 DEF WorkerFor, m
<1>8. /\ k1 + k2 + k4 + k8 \in Nat
      /\ k1 + k2 + k4 + k8 <= n1 + n2 + n4 + n8
  <2> k1 <= n1 /\ k2 <= n2 /\ k4 <= n4 /\ k8 <= n8
    BY <1>2, <1>3, <1>4, <1>5
  <2> QED
    OBVIOUS
<1>9. WorkerFor(b, n) \in Nat /\ WorkerFor(b, n) <= m
  BY <1>6, <1>7, <1>8
<1> QED
  BY <1>1, <1>9 DEF m

\* The worker chosen for a packet is one there is (runtime.c:230).
LEMMA WorkerThere ==
  ASSUME Typed, NEW x \in 1..Len(pkts)
  PROVE  WorkerOf(x) \in Workers
<1>1. pkts[x] \in Packet
  BY DEF Typed
<1>2. pkts[x].byte \in Nat
  <2>1. pkts[x].byte \in Bytes
    BY <1>1 DEF Packet
  <2>2. \A b \in Bytes : b \in Nat
    BY BytesAssumption
  <2> QED
    BY <2>1, <2>2
<1>3. NumWorkers \in 1..16
  BY LcoresAssumption DEF MaxWorkerLcores
<1>4. WorkerFor(pkts[x].byte, NumWorkers) \in 0..(NumWorkers - 1)
  BY <1>2, <1>3, MaskInRange
<1> QED
  BY <1>4 DEF WorkerOf, Workers

\* A packet that joins an array, of either kind, keeps the invariant.
LEMMA BufferKeepsInv ==
  ASSUME PInv, pkts' = pkts, NEW from \in Inputs, buf[from] # <<>>,
         NEW a \in RxArrays \cup WArrays, NEW ring \in Rings, NEW room,
         NEW bsz,
         \/ a \in RxArrays /\ bsz = RxWrite
         \/ a \in WArrays /\ bsz = WorkerWrite,
         Buffer(from, a, ring, room, bsz)
  PROVE  PInv'
<1>1. bsz \in Nat \ {0}
  BY BurstsAssumption DEF Bursts
<1>2. Len(pkts) \in Nat /\ buf \in Full /\ OneEach(buf, Len(pkts)) /\ Len(buf[a]) < bsz
  <2>1. Len(pkts) \in Nat
    BY DEF PInv, Typed
  <2> QED
    BY <2>1 DEF PInv, Typed, Conserved, Short
<1>3. /\ buf' \in Full /\ OneEach(buf', Len(pkts))
      /\ Len(buf'[a]) < bsz
      /\ \A c \in (RxArrays \cup WArrays) \ {a} : buf'[c] = buf[c]
  BY <1>1, <1>2, BufferKeeps
<1>4. a \in RxArrays => bsz = RxWrite
  BY Kinds
<1>5. a \in WArrays => bsz = WorkerWrite
  BY Kinds
<1>6. ASSUME NEW c \in RxArrays
      PROVE  Len(buf'[c]) < RxWrite
  BY <1>3, <1>4 DEF PInv, Short
<1>7. ASSUME NEW c \in WArrays
      PROVE  Len(buf'[c]) < WorkerWrite
  BY <1>3, <1>5 DEF PInv, Short
<1> QED
  BY <1>3, <1>6, <1>7 DEF PInv, Typed, Conserved, Short

\* So does a flush.
LEMMA FlushKeepsInv ==
  ASSUME PInv, pkts' = pkts,
         NEW a \in RxArrays \cup WArrays, NEW ring \in Rings, NEW room,
         FlushArray(a, ring, room)
  PROVE  PInv'
<1>1. Len(pkts) \in Nat /\ buf \in Full /\ OneEach(buf, Len(pkts))
  BY DEF PInv, Typed, Conserved
<1>2. /\ buf' \in Full /\ OneEach(buf', Len(pkts))
      /\ buf'[a] \in {<<>>, buf[a]}
      /\ \A c \in (RxArrays \cup WArrays) \ {a} : buf'[c] = buf[c]
  BY <1>1, FlushKeeps DEF Arrays
<1>3. Short'
  BY <1>2, ShortKept DEF PInv
<1> QED
  BY <1>2, <1>3 DEF PInv, Typed, Conserved

\* A burst moved between places that are not arrays of PInv.
LEMMA MoveKeepsInv ==
  ASSUME PInv, pkts' = pkts,
         NEW a \in Places \ (RxArrays \cup WArrays),
         NEW b \in Places \ (RxArrays \cup WArrays), a # b,
         NEW k \in Nat, k <= Len(buf[a]), buf' = Moved(buf, a, b, k)
  PROVE  PInv'
<1>1. Len(pkts) \in Nat /\ buf \in Full /\ OneEach(buf, Len(pkts))
  BY DEF PInv, Typed, Conserved
<1>2. /\ buf' \in Full /\ OneEach(buf', Len(pkts))
      /\ \A c \in Places \ {a, b} : buf'[c] = buf[c]
  BY <1>1, MovedKeeps
<1>3. \A c \in RxArrays \cup WArrays : buf'[c] = buf[c]
  BY <1>2, KindsArePlaces
<1> QED
  BY <1>2, <1>3, Elsewhere

\* So does a transmission.
LEMMA TransmitKeepsInv ==
  ASSUME PInv, pkts' = pkts, NEW p \in Ports, NEW s \in 0..Len(buf[TxOut(p)]),
         buf' = Transmitted(buf, p, s)
  PROVE  PInv'
<1>1. Len(pkts) \in Nat /\ buf \in Full /\ OneEach(buf, Len(pkts))
  BY DEF PInv, Typed, Conserved
<1>2. /\ buf' \in Full /\ OneEach(buf', Len(pkts))
      /\ \A c \in Arrays \ {TxOut(p)} : buf'[c] = buf[c]
  BY <1>1, TransmitKeeps
<1>3. TxOut(p) \in TxArrays
  BY DEF TxArrays
<1>4. \A c \in RxArrays \cup WArrays : c \in Arrays \ {TxOut(p)}
  BY <1>3, Kinds DEF Arrays
<1> QED
  BY <1>2, <1>4, Elsewhere

\* One step of an I/O lcore.
LEMMA IoStep ==
  ASSUME PInv, NEW l \in Ios, IoLcore(l)
  PROVE  PInv'
<1>1. /\ In(l) \in Inputs /\ In(l) \in Places
      /\ \A w \in Workers : RxOut(l, w) \in RxArrays /\ RxRing(l, w) \in Rings
  BY KindsArePlaces DEF Inputs, RxArrays, RxRings, Rings
<1>2. \A p \in Ports : TxOut(p) \in TxArrays /\ \A w \in Workers : TxRing(w, p) \in TxRings
  BY DEF TxArrays, TxRings
<1>3. CASE IoTurn(l)
  <2>1. buf' = buf /\ pkts' = pkts
    BY <1>3 DEF IoTurn, NewTurn
  <2>2. buf \in Full /\ OneEach(buf, Len(pkts))
    BY DEF PInv, Typed, Conserved
  <2> QED
    BY <2>1, <2>2, Elsewhere
<1>4. CASE RxReadBurst(l)
  <2>1. buf[In(l)] = <<>>
    BY <1>4 DEF RxReadBurst, Does
  <2>2. PICK k \in 0..RxRead : \E byte \in [1..k -> Bytes] :
           /\ pkts' = pkts \o [i \in 1..k |-> [byte |-> byte[i], io |-> l]]
           /\ buf' = [buf EXCEPT ![In(l)] = [i \in 1..k |-> Len(pkts) + i]]
    BY <1>4 DEF RxReadBurst
  <2>3. PICK byte \in [1..k -> Bytes] :
           /\ pkts' = pkts \o [i \in 1..k |-> [byte |-> byte[i], io |-> l]]
           /\ buf' = [buf EXCEPT ![In(l)] = [i \in 1..k |-> Len(pkts) + i]]
    BY <2>2
  <2>4. k \in Nat
    BY BurstsAssumption DEF Bursts
  <2> DEFINE new == [i \in 1..k |-> [byte |-> byte[i], io |-> l]]
  <2>5. new \in Seq(Packet) /\ Len(new) = k
    BY <2>4 DEF Packet
  <2>6. pkts' \in Seq(Packet) /\ Len(pkts') = Len(pkts) + k
    BY <2>3, <2>5, ConcatProperties DEF PInv, Typed
  <2>7. Len(pkts) \in Nat /\ buf \in Full /\ OneEach(buf, Len(pkts))
    BY DEF PInv, Typed, Conserved
  <2>8. buf' \in Full /\ OneEach(buf', Len(pkts) + k)
    BY <1>1, <2>1, <2>3, <2>4, <2>7, ArrivalKeeps
  <2>9. \A c \in RxArrays \cup WArrays : buf'[c] = buf[c]
    BY <1>1, <2>3, <2>7, Kinds, KindsArePlaces DEF Full
  <2>10. Short'
    BY <2>9, ShortKept DEF PInv
  <2> QED
    BY <2>6, <2>8, <2>10 DEF PInv, Typed, Conserved
<1>5. CASE HandOut(l)
  <2> DEFINE x == Head(buf[In(l)])
             w == WorkerOf(x)
  <2>1. buf[In(l)] # <<>> /\ pkts' = pkts
        /\ Buffer(In(l), RxOut(l, w), RxRing(l, w), RxRingRoom, RxWrite)
    BY <1>5 DEF HandOut
  <2>2. x \in 1..Len(pkts)
    <3>1. buf[In(l)] \in Seq(Nat)
      BY <1>1 DEF PInv, Typed, Full
    <3>2. 1 \in 1..Len(buf[In(l)]) /\ x = buf[In(l)][1]
      BY <2>1, <3>1, EmptySeq
    <3>3. \A c \in Places : \A i \in 1..Len(buf[c]) : buf[c][i] \in 1..Len(pkts)
      BY DEF PInv, Conserved, OneEach
    <3> QED
      BY <1>1, <3>2, <3>3
  <2> HIDE DEF x
  <2>3. w \in Workers
    BY <2>2, WorkerThere DEF PInv
  <2> HIDE DEF w
  <2> QED
    BY <1>1, <2>1, <2>3, BufferKeepsInv
<1>6. CASE RxFlush(l)
  <2>1. PICK w \in Workers : FlushArray(RxOut(l, w), RxRing(l, w), RxRingRoom) /\ pkts' = pkts
    BY <1>6 DEF RxFlush
  <2> QED
    BY <1>1, <2>1, FlushKeepsInv
<1>7. CASE TakeForPort(l)
  <2>1. PICK w \in Workers, p \in Ports :
          /\ buf' = IF Len(buf[TxRing(w, p)]) >= TxRead
                      THEN Moved(buf, TxRing(w, p), TxOut(p), TxRead) ELSE buf
          /\ pkts' = pkts
    BY <1>7 DEF TakeForPort
  <2>2. /\ TxRing(w, p) \in Places \ (RxArrays \cup WArrays)
        /\ TxOut(p) \in Places \ (RxArrays \cup WArrays)
        /\ TxRing(w, p) # TxOut(p)
    BY <1>2, Kinds, KindsArePlaces
  <2>3. TxRead \in Nat /\ Len(buf[TxRing(w, p)]) \in Nat
    BY <2>2, BurstsAssumption DEF Bursts, PInv, Typed, Full
  <2>4. CASE Len(buf[TxRing(w, p)]) >= TxRead
    <3>1. TxRead <= Len(buf[TxRing(w, p)]) /\ buf' = Moved(buf, TxRing(w, p), TxOut(p), TxRead)
      BY <2>1, <2>3, <2>4
    <3> QED
      BY <2>1, <2>2, <2>3, <3>1, MoveKeepsInv
  <2>5. CASE ~(Len(buf[TxRing(w, p)]) >= TxRead)
    <3>1. buf' = buf
      BY <2>1, <2>5
    <3>2. buf \in Full /\ OneEach(buf, Len(pkts))
      BY DEF PInv, Typed, Conserved
    <3> QED
      BY <2>1, <3>1, <3>2, Elsewhere
  <2> QED
    BY <2>4, <2>5
<1>8. CASE TxSend(l)
  <2>1. PICK p \in Ports : \E s \in 0..Len(buf[TxOut(p)]) :
                             buf' = Transmitted(buf, p, s) /\ pkts' = pkts
    BY <1>8 DEF TxSend
  <2> QED
    BY <2>1, TransmitKeepsInv
<1>9. CASE TxFlush(l)
  <2>1. PICK p \in Ports :
          /\ \/ \E s \in 0..Len(buf[TxOut(p)]) : buf' = Transmitted(buf, p, s)
             \/ buf' = buf
          /\ pkts' = pkts
    BY <1>9 DEF TxFlush
  <2>2. CASE buf' = buf
    <3>1. buf \in Full /\ OneEach(buf, Len(pkts))
      BY DEF PInv, Typed, Conserved
    <3> QED
      BY <2>1, <2>2, <3>1, Elsewhere
  <2>3. CASE \E s \in 0..Len(buf[TxOut(p)]) : buf' = Transmitted(buf, p, s)
    BY <2>1, <2>3, TransmitKeepsInv
  <2> QED
    BY <2>1, <2>2, <2>3
<1> QED
  BY <1>3, <1>4, <1>5, <1>6, <1>7, <1>8, <1>9 DEF IoLcore

\* One step of a worker.
LEMMA WorkerStep ==
  ASSUME PInv, NEW w \in Workers, Worker(w)
  PROVE  PInv'
<1>1. /\ WIn(w) \in Inputs /\ WIn(w) \in Places \ (RxArrays \cup WArrays)
      /\ WIn(w) # Freed /\ Freed \in Places \ (RxArrays \cup WArrays)
      /\ \A p \in Ports : WOut(w, p) \in WArrays /\ TxRing(w, p) \in Rings
  <2>1. WIn(w) \in Inputs /\ \A p \in Ports : WOut(w, p) \in WArrays /\ TxRing(w, p) \in Rings
    BY DEF Inputs, WArrays, TxRings, Rings
  <2> QED
    BY <2>1, Kinds, KindsArePlaces
<1>2. buf \in Full /\ OneEach(buf, Len(pkts))
  BY DEF PInv, Typed, Conserved
<1>3. CASE WorkerTurn(w)
  <2>1. buf' = buf /\ pkts' = pkts
    BY <1>3 DEF WorkerTurn, NewTurn
  <2> QED
    BY <1>2, <2>1, Elsewhere
<1>4. CASE TakeBurst(w)
  <2>1. PICK l \in Ios :
          /\ buf' = IF Len(buf[RxRing(l, w)]) >= WorkerRead
                      THEN Moved(buf, RxRing(l, w), WIn(w), WorkerRead) ELSE buf
          /\ pkts' = pkts
    BY <1>4 DEF TakeBurst
  <2>2. RxRing(l, w) \in Places \ (RxArrays \cup WArrays) /\ RxRing(l, w) # WIn(w)
    <3>1. RxRing(l, w) \in RxRings
      BY DEF RxRings
    <3> QED
      BY <1>1, <3>1, Kinds, KindsArePlaces
  <2>3. WorkerRead \in Nat /\ Len(buf[RxRing(l, w)]) \in Nat
    BY <1>2, <2>2, BurstsAssumption DEF Bursts, Full
  <2>4. CASE Len(buf[RxRing(l, w)]) >= WorkerRead
    <3>1. WorkerRead <= Len(buf[RxRing(l, w)]) /\ buf' = Moved(buf, RxRing(l, w), WIn(w), WorkerRead)
      BY <2>1, <2>3, <2>4
    <3> QED
      BY <1>1, <2>1, <2>2, <2>3, <3>1, MoveKeepsInv
  <2>5. CASE ~(Len(buf[RxRing(l, w)]) >= WorkerRead)
    <3>1. buf' = buf
      BY <2>1, <2>5
    <3> QED
      BY <1>2, <2>1, <3>1, Elsewhere
  <2> QED
    BY <2>4, <2>5
<1>5. CASE Refuse(w)
  <2>1. buf[WIn(w)] # <<>> /\ buf' = Moved(buf, WIn(w), Freed, 1) /\ pkts' = pkts
    BY <1>5 DEF Refuse
  <2>2. 1 <= Len(buf[WIn(w)])
    <3>1. buf[WIn(w)] \in Seq(Nat)
      BY <1>1, <1>2 DEF Full
    <3> QED
      BY <2>1, <3>1, EmptySeq
  <2>3. 1 \in Nat
    OBVIOUS
  <2> QED
    BY <1>1, <2>1, <2>2, <2>3, MoveKeepsInv
<1>6. CASE Answer(w)
  <2>1. PICK p \in PortsOut :
          Buffer(WIn(w), WOut(w, p), TxRing(w, p), TxRingRoom, WorkerWrite)
    BY <1>6 DEF Answer
  <2>2. buf[WIn(w)] # <<>> /\ pkts' = pkts /\ p \in Ports
    BY <1>6 DEF Answer, PortsOut
  <2> QED
    BY <1>1, <2>1, <2>2, BufferKeepsInv
<1>7. CASE OutFlush(w)
  <2>1. PICK p \in Ports :
          /\ \/ FlushArray(WOut(w, p), TxRing(w, p), TxRingRoom)
             \/ buf' = buf
          /\ pkts' = pkts
    BY <1>7 DEF OutFlush
  <2>2. CASE buf' = buf
    BY <1>2, <2>1, <2>2, Elsewhere
  <2>3. CASE FlushArray(WOut(w, p), TxRing(w, p), TxRingRoom)
    BY <1>1, <2>1, <2>3, FlushKeepsInv
  <2> QED
    BY <2>1, <2>2, <2>3
<1> QED
  BY <1>3, <1>4, <1>5, <1>6, <1>7 DEF Worker

\* PInv is inductive.
LEMMA PInvStep == PInv /\ [Next]_vars => PInv'
<1> SUFFICES ASSUME PInv, [Next]_vars
             PROVE  PInv'
  OBVIOUS
<1>1. CASE Next
  BY <1>1, IoStep, WorkerStep DEF Next
<1>2. CASE UNCHANGED vars
  <2>1. buf' = buf /\ pkts' = pkts
    BY <1>2 DEF vars
  <2>2. buf \in Full /\ OneEach(buf, Len(pkts))
    BY DEF PInv, Typed, Conserved
  <2> QED
    BY <2>1, <2>2, Elsewhere
<1> QED
  BY <1>1, <1>2

\* Every mbuf is at one place, once, whichever rings are full and whatever
\* the NIC refuses, for any sizes (runtime.c:93-566).
THEOREM NoMbufLost == Spec => []Conserved
<1>1. PInv => Conserved
  BY DEF PInv
<1> QED
  BY <1>1, PInvInit, PInvStep, PTL DEF Spec

-----------------------------------------------------------------------------
\* Mbufs that move one place ahead on a road stay in order, and so do those of
\* F when others join a place of the road, or some leave the road.
LEMMA AheadKeepsOrder ==
  ASSUME NEW f \in Full, NEW a \in Places, NEW b \in Places, a # b,
         NEW k \in Nat, k <= Len(f[a]), NEW g, g = Moved(f, a, b, k),
         NEW R \in Seq(Places), \A m, n \in 1..Len(R) : R[m] = R[n] => m = n,
         NEW F, Ordered(f, R, F),
         \A m \in 1..Len(R) : R[m] = b => \/ m + 1 \in 1..Len(R) /\ R[m + 1] = a
                                          \/ \A i \in 1..k : f[a][i] \notin F
  PROVE  Ordered(g, R, F)
<1>1. /\ \A c \in Places : Len(f[c]) \in Nat /\ Len(g[c]) \in Nat
      /\ Len(g[a]) = Len(f[a]) - k /\ Len(g[b]) = Len(f[b]) + k
      /\ \A i \in 1..Len(g[a]) : g[a][i] = f[a][i + k]
      /\ \A i \in 1..Len(g[b]) :
           g[b][i] = IF i <= Len(f[b]) THEN f[b][i] ELSE f[a][i - Len(f[b])]
      /\ \A c \in Places \ {a, b} : g[c] = f[c]
  <2>1. Took(f, g, a, b, k)
    BY MovedItems
  <2> QED
    BY <2>1 DEF Took
<1>2. Len(R) \in Nat /\ \A m \in 1..Len(R) : R[m] \in Places
  OBVIOUS
\* Item i of the m-th place was item h of the q-th place.
<1> DEFINE Was(m, i, q, h) ==
             /\ q \in 1..Len(R) /\ h \in 1..Len(f[R[q]]) /\ g[R[m]][i] = f[R[q]][h]
             /\ \/ R[m] = a /\ q = m /\ h = i + k
                \/ R[m] = b /\ i <= Len(f[b]) /\ q = m /\ h = i
                \/ /\ R[m] = b /\ i > Len(f[b])
                   /\ q = m + 1 /\ R[q] = a /\ h = i - Len(f[b]) /\ h <= k
                \/ R[m] # a /\ R[m] # b /\ q = m /\ h = i
<1>3. ASSUME NEW m \in 1..Len(R), NEW i \in 1..Len(g[R[m]]), g[R[m]][i] \in F
      PROVE  \E q, h \in Nat : Was(m, i, q, h)
  <2>0. i \in Nat /\ i > 0 /\ R[m] \in Places /\ m \in Nat
    BY <1>1, <1>2
  <2>1. CASE R[m] = a
    <3>1. i + k \in 1..Len(f[a]) /\ g[R[m]][i] = f[R[m]][i + k]
      BY <1>1, <2>0, <2>1
    <3>2. Was(m, i, m, i + k)
      BY <2>1, <3>1
    <3> HIDE DEF Was
    <3> QED
      BY <2>0, <3>2
  <2>2. CASE R[m] = b /\ i <= Len(f[b])
    <3>1. i \in 1..Len(f[b]) /\ g[R[m]][i] = f[R[m]][i]
      BY <1>1, <2>0, <2>2
    <3>2. Was(m, i, m, i)
      BY <2>2, <3>1
    <3> HIDE DEF Was
    <3> QED
      BY <2>0, <3>2
  <2>3. CASE R[m] = b /\ ~(i <= Len(f[b]))
    <3> DEFINE h == i - Len(f[b])
    <3>1. /\ h \in 1..k /\ h \in 1..Len(f[a]) /\ g[R[m]][i] = f[a][h]
          /\ i > Len(f[b]) /\ h <= k /\ h \in Nat /\ h = i - Len(f[b])
      <4>1. i \in 1..(Len(f[b]) + k) /\ Len(f[b]) \in Nat /\ Len(f[a]) \in Nat
        BY <1>1, <2>0, <2>3
      <4>2. i > Len(f[b]) /\ h \in 1..k /\ h \in 1..Len(f[a])
        BY <2>3, <4>1
      <4>3. g[b][i] = f[a][h]
        BY <1>1, <2>3
      <4> QED
        BY <2>3, <4>2, <4>3
    <3> HIDE DEF h
    <3>2. m + 1 \in 1..Len(R) /\ R[m + 1] = a
      BY <1>3, <2>3, <3>1
    <3>3. Was(m, i, m + 1, h)
      BY <2>3, <3>1, <3>2
    <3> HIDE DEF Was
    <3> QED
      BY <2>0, <3>1, <3>3
  <2>4. CASE R[m] # a /\ R[m] # b
    <3>1. i \in 1..Len(f[R[m]]) /\ g[R[m]][i] = f[R[m]][i]
      BY <1>1, <2>0, <2>4
    <3>2. Was(m, i, m, i)
      BY <2>4, <3>1
    <3> HIDE DEF Was
    <3> QED
      BY <2>0, <3>2
  <2> HIDE DEF Was
  <2> QED
    BY <2>1, <2>2, <2>3, <2>4
<1> SUFFICES ASSUME NEW m \in 1..Len(R), NEW n \in 1..Len(R), m <= n,
                    NEW i \in 1..Len(g[R[m]]), NEW j \in 1..Len(g[R[n]]),
                    m < n \/ i < j, g[R[m]][i] \in F, g[R[n]][j] \in F
             PROVE  g[R[m]][i] < g[R[n]][j]
  BY DEF Ordered
<1>4. PICK q \in Nat, h \in Nat : Was(m, i, q, h)
  BY <1>3
<1>5. PICK r \in Nat, s \in Nat : Was(n, j, r, s)
  BY <1>3
<1>6. i \in Nat /\ j \in Nat /\ m \in Nat /\ n \in Nat /\ Len(f[b]) \in Nat
  BY <1>1, <1>2
<1>7. q <= r /\ (q < r \/ h < s)
  <2>1. CASE m = n
    BY <1>4, <1>5, <1>6, <2>1
  <2>2. CASE m < n /\ q = m
    BY <1>4, <1>5, <1>6, <2>2
  <2>3. CASE m < n /\ q = m + 1
    BY <1>4, <1>5, <1>6, <2>3
  <2> QED
    BY <1>4, <2>1, <2>2, <2>3, <1>6
<1>8. /\ f[R[q]][h] \in F /\ f[R[r]][s] \in F
      /\ q \in 1..Len(R) /\ r \in 1..Len(R) /\ h \in 1..Len(f[R[q]]) /\ s \in 1..Len(f[R[r]])
      /\ g[R[m]][i] = f[R[q]][h] /\ g[R[n]][j] = f[R[r]][s]
  BY <1>4, <1>5
<1> HIDE DEF Was
<1>9. f[R[q]][h] < f[R[r]][s]
  <2>1. \A c, d \in 1..Len(R) :
          c <= d => \A u \in 1..Len(f[R[c]]), v \in 1..Len(f[R[d]]) :
                      (c < d \/ u < v) /\ f[R[c]][u] \in F /\ f[R[d]][v] \in F
                        => f[R[c]][u] < f[R[d]][v]
    BY DEF Ordered
  <2> QED
    BY <1>7, <1>8, <2>1
<1> QED
  BY <1>8, <1>9

\* The places of a road are eight different places.
LEMMA RoadPlaces ==
  ASSUME NEW l \in Ios, NEW w \in Workers, NEW p \in Ports,
         NEW R, R = Road(l, w, p)
  PROVE  /\ R \in Seq(Places) /\ Len(R) = 8
         /\ R[1] = Sent(p) /\ R[2] = TxOut(p) /\ R[3] = TxRing(w, p) /\ R[4] = WOut(w, p)
         /\ R[5] = WIn(w) /\ R[6] = RxRing(l, w) /\ R[7] = RxOut(l, w) /\ R[8] = In(l)
         /\ \A m, n \in 1..Len(R) : R[m] = R[n] => m = n
<1>1. /\ Sent(p) \in Places /\ TxOut(p) \in Places /\ TxRing(w, p) \in Places
      /\ WOut(w, p) \in Places /\ WIn(w) \in Places /\ RxRing(l, w) \in Places
      /\ RxOut(l, w) \in Places /\ In(l) \in Places
  BY DEF Places, Inputs, Arrays, Rings, RxArrays, WArrays, TxArrays, RxRings, TxRings
<1>2. /\ R = <<Sent(p), TxOut(p), TxRing(w, p), WOut(w, p),
               WIn(w), RxRing(l, w), RxOut(l, w), In(l)>>
  BY DEF Road
<1>3. R \in Seq(Places) /\ Len(R) = 8
  BY <1>1, <1>2
<1>4. /\ R[1] = Sent(p) /\ R[2] = TxOut(p) /\ R[3] = TxRing(w, p) /\ R[4] = WOut(w, p)
      /\ R[5] = WIn(w) /\ R[6] = RxRing(l, w) /\ R[7] = RxOut(l, w) /\ R[8] = In(l)
  BY <1>2
<1>5. /\ R[1][1] = "sent" /\ R[2][1] = "txout" /\ R[3][1] = "txring" /\ R[4][1] = "wout"
      /\ R[5][1] = "win" /\ R[6][1] = "rxring" /\ R[7][1] = "rxout" /\ R[8][1] = "in"
  BY <1>4 DEF Sent, TxOut, TxRing, WOut, WIn, RxRing, RxOut, In
<1>6. \A m, n \in 1..8 : m # n => R[m][1] # R[n][1]
  BY <1>5
<1>7. \A m, n \in 1..Len(R) : R[m] = R[n] => m = n
  BY <1>3, <1>6
<1> QED
  BY <1>3, <1>4, <1>7

\* What brought a packet to a place.
Home(c, x) == /\ c[1] \in {"in", "rxout", "rxring"} => pkts[x].io = c[2]
              /\ c[1] \in {"rxout", "rxring"} => WorkerOf(x) = c[3]
              /\ c[1] \in {"win", "wout", "txring"} => WorkerOf(x) = c[2]

Orderly(f) == /\ \A c \in Places : \A i \in 1..Len(f[c]) : Home(c, f[c][i])
              /\ \A l \in Ios, w \in Workers, p \in Ports :
                   Ordered(f, Road(l, w, p), Flow(l, w))

\* The places an mbuf goes to next.
Hop(a, b) == \/ \E l \in Ios, w \in Workers :
                  \/ a = In(l) /\ b = RxOut(l, w)
                  \/ a = RxOut(l, w) /\ b = RxRing(l, w)
                  \/ a = RxRing(l, w) /\ b = WIn(w)
             \/ \E w \in Workers, p \in Ports :
                  \/ a = WIn(w) /\ b = WOut(w, p)
                  \/ a = WOut(w, p) /\ b = TxRing(w, p)
                  \/ a = TxRing(w, p) /\ b = TxOut(p)
             \/ \E p \in Ports : a = TxOut(p) /\ b = Sent(p)
             \/ b = Freed

\* A packet is at home wherever it goes; who hands it out has to look.
LEMMA HopKeepsHome ==
  ASSUME NEW a, NEW b, Hop(a, b), a[1] # "in", NEW x, Home(a, x)
  PROVE  Home(b, x)
<1> USE DEF In, RxOut, RxRing, WIn, WOut, TxRing, TxOut, Sent, Freed
<1>1. CASE \E l \in Ios, w \in Workers :
             \/ a = In(l) /\ b = RxOut(l, w)
             \/ a = RxOut(l, w) /\ b = RxRing(l, w)
             \/ a = RxRing(l, w) /\ b = WIn(w)
  BY <1>1 DEF Home
<1>2. CASE \E w \in Workers, p \in Ports :
             \/ a = WIn(w) /\ b = WOut(w, p)
             \/ a = WOut(w, p) /\ b = TxRing(w, p)
             \/ a = TxRing(w, p) /\ b = TxOut(p)
  BY <1>2 DEF Home
<1>3. CASE \E p \in Ports : a = TxOut(p) /\ b = Sent(p)
  BY <1>3 DEF Home
<1>4. CASE b = Freed
  BY <1>4 DEF Home
<1> QED
  BY <1>1, <1>2, <1>3, <1>4 DEF Hop

\* Who joins a road joins it behind those who are ahead, or is of another flow.
LEMMA HopOnRoad ==
  ASSUME NEW a, NEW b, Hop(a, b), NEW l \in Ios, NEW w \in Workers, NEW p \in Ports,
         NEW m \in 1..8, Road(l, w, p)[m] = b
  PROVE  \/ m + 1 \in 1..8 /\ Road(l, w, p)[m + 1] = a
         \/ \A x : Home(a, x) => x \notin Flow(l, w)
<1> DEFINE R == Road(l, w, p)
<1>1. /\ R[1] = Sent(p) /\ R[2] = TxOut(p) /\ R[3] = TxRing(w, p) /\ R[4] = WOut(w, p)
      /\ R[5] = WIn(w) /\ R[6] = RxRing(l, w) /\ R[7] = RxOut(l, w) /\ R[8] = In(l)
  BY RoadPlaces
<1>2. R[m] = b
  OBVIOUS
<1> HIDE DEF R
<1>a. m = 1 \/ m = 2 \/ m = 3 \/ m = 4 \/ m = 5 \/ m = 6 \/ m = 7 \/ m = 8
  OBVIOUS
<1>3. \/ m = 1 /\ b = Sent(p)
      \/ m = 2 /\ b = TxOut(p)
      \/ m = 3 /\ b = TxRing(w, p)
      \/ m = 4 /\ b = WOut(w, p)
      \/ m = 5 /\ b = WIn(w)
      \/ m = 6 /\ b = RxRing(l, w)
      \/ m = 7 /\ b = RxOut(l, w)
      \/ m = 8 /\ b = In(l)
  BY <1>1, <1>2, <1>a
<1> USE DEF In, RxOut, RxRing, WIn, WOut, TxRing, TxOut, Sent, Freed
<1>4. CASE b = Freed
  BY <1>3, <1>4
<1>5. CASE \E q \in Ports : a = TxOut(q) /\ b = Sent(q)
  BY <1>1, <1>3, <1>5 DEF R
<1>6. CASE \E v \in Workers, q \in Ports : a = WIn(v) /\ b = WOut(v, q)
  BY <1>1, <1>3, <1>6 DEF R
<1>7. CASE \E v \in Workers, q \in Ports : a = WOut(v, q) /\ b = TxRing(v, q)
  BY <1>1, <1>3, <1>7 DEF R
<1>8. CASE \E v \in Workers, q \in Ports : a = TxRing(v, q) /\ b = TxOut(q)
  <2>1. PICK v \in Workers, q \in Ports : a = TxRing(v, q) /\ b = TxOut(q)
    BY <1>8
  <2>2. m = 2 /\ q = p
    BY <1>3, <2>1
  <2>3. CASE v = w
    BY <1>1, <2>1, <2>2, <2>3 DEF R
  <2>4. CASE v # w
    BY <2>1, <2>4 DEF Home, Flow
  <2> QED
    BY <2>3, <2>4
<1>9. CASE \E k \in Ios, v \in Workers : a = In(k) /\ b = RxOut(k, v)
  BY <1>1, <1>3, <1>9 DEF R
<1>10. CASE \E k \in Ios, v \in Workers : a = RxOut(k, v) /\ b = RxRing(k, v)
  BY <1>1, <1>3, <1>10 DEF R
<1>11. CASE \E k \in Ios, v \in Workers : a = RxRing(k, v) /\ b = WIn(v)
  <2>1. PICK k \in Ios, v \in Workers : a = RxRing(k, v) /\ b = WIn(v)
    BY <1>11
  <2>2. m = 5 /\ v = w
    BY <1>3, <2>1
  <2>3. CASE k = l
    BY <1>1, <2>1, <2>2, <2>3 DEF R
  <2>4. CASE k # l
    BY <2>1, <2>4 DEF Home, Flow
  <2> QED
    BY <2>3, <2>4
<1> QED
  BY <1>4, <1>5, <1>6, <1>7, <1>8, <1>9, <1>10, <1>11 DEF Hop

\* A hop keeps packets at home and in order.
LEMMA HopKeeps ==
  ASSUME NEW f \in Full, Orderly(f), NEW a \in Places, NEW b \in Places, a # b,
         Hop(a, b), NEW k \in Nat, k <= Len(f[a]), NEW g, g = Moved(f, a, b, k),
         a[1] = "in" => \A i \in 1..k : Home(b, f[a][i])
  PROVE  g \in Full /\ Took(f, g, a, b, k) /\ Orderly(g)
<1>1. g \in Full /\ Took(f, g, a, b, k)
  BY MovedItems
<1>2. \A i \in 1..Len(f[a]) : Home(a, f[a][i])
  BY DEF Orderly
<1>3. Len(f[a]) \in Nat /\ Len(f[b]) \in Nat
  BY <1>1 DEF Took
<1>4. ASSUME NEW c \in Places, NEW i \in 1..Len(g[c])
      PROVE  Home(c, g[c][i])
  <2>1. CASE c = a
    <3>1. i + k \in 1..Len(f[a]) /\ g[c][i] = f[a][i + k]
      BY <1>1, <1>3, <2>1 DEF Took
    <3> QED
      BY <1>2, <2>1, <3>1
  <2>2. CASE c = b /\ i <= Len(f[b])
    <3>1. i \in 1..Len(f[b]) /\ g[c][i] = f[b][i]
      BY <1>1, <1>3, <2>2 DEF Took
    <3> QED
      BY <2>2, <3>1 DEF Orderly
  <2>3. CASE c = b /\ ~(i <= Len(f[b]))
    <3> DEFINE h == i - Len(f[b])
    <3>1. i \in 1..(Len(f[b]) + k)
      BY <1>1, <2>3 DEF Took
    <3>2. h \in 1..k /\ h \in 1..Len(f[a])
      BY <1>3, <2>3, <3>1
    <3>3. g[c][i] = f[a][h]
      BY <1>1, <2>3 DEF Took
    <3> HIDE DEF h
    <3>4. Home(b, f[a][h])
      BY <1>2, <3>2, HopKeepsHome
    <3> QED
      BY <2>3, <3>3, <3>4
  <2>4. CASE c # a /\ c # b
    <3>1. g[c] = f[c]
      BY <1>1, <2>4 DEF Took
    <3> QED
      BY <3>1 DEF Orderly
  <2> QED
    BY <2>1, <2>2, <2>3, <2>4
<1>5. ASSUME NEW l \in Ios, NEW w \in Workers, NEW p \in Ports
      PROVE  Ordered(g, Road(l, w, p), Flow(l, w))
  <2> DEFINE R == Road(l, w, p)
             F == Flow(l, w)
  <2>1. R \in Seq(Places) /\ Len(R) = 8 /\ \A m, n \in 1..Len(R) : R[m] = R[n] => m = n
    BY RoadPlaces
  <2>2. Ordered(f, R, F)
    BY DEF Orderly
  <2>3. \A m \in 1..Len(R) : R[m] = b => \/ m + 1 \in 1..Len(R) /\ R[m + 1] = a
                                         \/ \A i \in 1..k : f[a][i] \notin F
    <3> SUFFICES ASSUME NEW m \in 1..8, R[m] = b
                 PROVE  \/ m + 1 \in 1..8 /\ R[m + 1] = a
                        \/ \A i \in 1..k : f[a][i] \notin F
      BY <2>1
    <3>1. \/ m + 1 \in 1..8 /\ R[m + 1] = a
          \/ \A x : Home(a, x) => x \notin F
      BY HopOnRoad
    <3> HIDE DEF R, F
    <3>2. \A i \in 1..k : i \in 1..Len(f[a])
      BY <1>3
    <3>3. \A i \in 1..k : Home(a, f[a][i])
      BY <1>2, <3>2
    <3> QED
      BY <3>1, <3>3
  <2>4. R \in Seq(Places) /\ \A m, n \in 1..Len(R) : R[m] = R[n] => m = n
    BY <2>1
  <2> HIDE DEF R, F
  <2>5. Ordered(g, R, F)
    BY <2>2, <2>3, <2>4, AheadKeepsOrder
  <2> QED
    BY <2>5 DEF R, F
<1> QED
  BY <1>1, <1>4, <1>5 DEF Orderly

\* A bulk enqueue of a whole array is a hop to the ring or back to the pool.
LEMMA BulkKeepsOrder ==
  ASSUME NEW f \in Full, Orderly(f), NEW a \in RxArrays \cup WArrays, NEW ring \in Rings,
         Hop(a, ring), NEW room, NEW k, k = Len(f[a]),
         NEW g, g = Bulk(f, a, ring, room, k)
  PROVE  Orderly(g)
<1> DEFINE to == IF Len(f[ring]) + k <= room THEN ring ELSE Freed
           h == Moved(f, a, to, k)
<1>1. /\ a \in Places /\ ring \in Places /\ Freed \in Places
      /\ a # ring /\ a # Freed /\ a[1] # "in"
  BY Kinds, KindsArePlaces DEF Rings
<1>2. to \in Places /\ a # to /\ Hop(a, to)
  <2>1. Hop(a, Freed)
    BY DEF Hop
  <2> QED
    BY <1>1, <2>1
<1>3. k \in Nat /\ k <= Len(f[a])
  BY <1>1 DEF Full
<1>4. g = [h EXCEPT ![a] = <<>>]
  BY DEF Bulk
<1> HIDE DEF to
<1>5. h \in Full /\ Took(f, h, a, to, k) /\ Orderly(h)
  BY <1>1, <1>2, <1>3, HopKeeps
<1> HIDE DEF h
<1>6. h[a] \in Seq(Nat) /\ Len(h[a]) = 0
  BY <1>1, <1>3, <1>5 DEF Full, Took
<1>7. h[a] = <<>>
  BY <1>6, EmptySeq
<1>8. g = h
  BY <1>1, <1>4, <1>5, <1>7 DEF Full
<1> QED
  BY <1>5, <1>8

\* A packet joins an array behind those that came before it, and a full array
\* leaves with it (runtime.c:93-118, 477-527).
LEMMA BufferKeepsOrder ==
  ASSUME PInv, Orderly(buf), NEW from \in Inputs, buf[from] # <<>>,
         NEW a \in RxArrays \cup WArrays, NEW ring \in Rings, NEW room,
         Hop(from, a), Hop(a, ring),
         from[1] = "in" => Home(a, Head(buf[from])),
         NEW bsz,
         \/ a \in RxArrays /\ bsz = RxWrite
         \/ a \in WArrays /\ bsz = WorkerWrite,
         Buffer(from, a, ring, room, bsz)
  PROVE  Orderly(buf')
<1> DEFINE f == Moved(buf, from, a, 1)
<1>1. from \in Places /\ a \in Places /\ from # a /\ buf \in Full
  BY Kinds, KindsArePlaces DEF PInv, Typed
<1>2. buf[from] \in Seq(Nat) /\ 1 <= Len(buf[from]) /\ Head(buf[from]) = buf[from][1]
  <2>1. buf[from] \in Seq(Nat)
    BY <1>1 DEF Full
  <2> QED
    BY <2>1, EmptySeq
<1>3. from[1] = "in" => \A i \in 1..1 : Home(a, buf[from][i])
  BY <1>2
<1>4. 1 \in Nat
  OBVIOUS
<1>5. f \in Full /\ Took(buf, f, from, a, 1) /\ Orderly(f)
  BY <1>1, <1>2, <1>3, <1>4, HopKeeps
<1> HIDE DEF f
<1>6. CASE Len(f[a]) < bsz
  <2>1. buf' = f
    BY <1>6 DEF Buffer, f
  <2> QED
    BY <1>5, <2>1
<1>7. CASE ~(Len(f[a]) < bsz)
  <2>1. bsz \in Nat
    BY BurstsAssumption DEF Bursts
  <2>2. Len(buf[a]) < bsz
    BY Kinds DEF PInv, Short
  <2>3. Len(f[a]) = Len(buf[a]) + 1 /\ Len(buf[a]) \in Nat
    BY <1>1, <1>5 DEF Took
  <2>4. bsz = Len(f[a])
    BY <1>7, <2>1, <2>2, <2>3
  <2>5. buf' = Bulk(f, a, ring, room, bsz)
    BY <1>7 DEF Buffer, f
  <2> QED
    BY <1>5, <2>4, <2>5, BulkKeepsOrder
<1> QED
  BY <1>6, <1>7

\* So does a flush.
LEMMA FlushKeepsOrder ==
  ASSUME buf \in Full, Orderly(buf), NEW a \in RxArrays \cup WArrays,
         NEW ring \in Rings, NEW room, Hop(a, ring), FlushArray(a, ring, room)
  PROVE  Orderly(buf')
<1>1. CASE buf' = Bulk(buf, a, ring, room, Len(buf[a]))
  BY <1>1, BulkKeepsOrder
<1>2. CASE buf' = buf
  BY <1>2
<1> QED
  BY <1>1, <1>2 DEF FlushArray

\* The NIC takes the oldest (runtime.c:318-352, 369-388).
LEMMA TransmitKeepsOrder ==
  ASSUME NEW f \in Full, Orderly(f), NEW p \in Ports, NEW s \in 0..Len(f[TxOut(p)]),
         NEW h, h = Transmitted(f, p, s)
  PROVE  Orderly(h)
<1> DEFINE a == TxOut(p)
           g == Moved(f, a, Sent(p), s)
<1>1. a \in TxArrays /\ Sent(p) \in Sents
  BY DEF TxArrays, Sents
<1>2. /\ a \in Places /\ Sent(p) \in Places /\ Freed \in Places
      /\ a # Sent(p) /\ a # Freed /\ a[1] # "in"
  BY <1>1, Kinds, KindsArePlaces
<1>3. Hop(a, Sent(p)) /\ Hop(a, Freed)
  BY DEF Hop
<1>4. s \in Nat /\ s <= Len(f[a])
  BY <1>2 DEF Full
<1>5. h = Moved(g, a, Freed, Len(g[a]))
  BY DEF Transmitted
<1> HIDE DEF a
<1>6. g \in Full /\ Orderly(g)
  BY <1>2, <1>3, <1>4, HopKeeps
<1> HIDE DEF g
<1>7. Len(g[a]) \in Nat /\ Len(g[a]) <= Len(g[a])
  BY <1>2, <1>6 DEF Full
<1> QED
  BY <1>2, <1>3, <1>5, <1>6, <1>7, HopKeeps

\* Order is about packets that do not change.
LEMMA SamePackets ==
  ASSUME pkts' = pkts, Orderly(buf')
  PROVE  Orderly(buf)'
<1>1. \A x : WorkerOf(x)' = WorkerOf(x)
  BY DEF WorkerOf
<1>2. \A l, w : Flow(l, w)' = Flow(l, w)
  BY <1>1 DEF Flow
<1>3. \A c, x : Home(c, x)' <=> Home(c, x)
  BY <1>1 DEF Home
<1> QED
  BY <1>2, <1>3 DEF Orderly, Ordered, Road, Sent, TxOut, TxRing, WOut, WIn, RxRing, RxOut, In

\* Packets that arrive remember who read them.
LEMMA NewPackets ==
  ASSUME NEW l \in Ios, NEW k \in Nat, NEW byte \in [1..k -> Bytes],
         NEW new, new = [i \in 1..k |-> [byte |-> byte[i], io |-> l]]
  PROVE  new \in Seq(Packet) /\ Len(new) = k /\ \A i \in 1..k : new[i].io = l
<1>1. new \in Seq(Packet) /\ Len(new) = k
  BY DEF Packet
<1>2. \A i \in 1..k : new[i].io = l
  OBVIOUS
<1> QED
  BY <1>1, <1>2

\* Packets that arrive are the last of their road (runtime.c:160-171).
LEMMA ArrivalKeepsOrder ==
  ASSUME PInv, Orderly(buf), NEW l \in Ios, NEW k \in Nat, NEW byte \in [1..k -> Bytes],
         buf[In(l)] = <<>>,
         pkts' = pkts \o [i \in 1..k |-> [byte |-> byte[i], io |-> l]],
         buf' = [buf EXCEPT ![In(l)] = [i \in 1..k |-> Len(pkts) + i]]
  PROVE  Orderly(buf)'
<1> DEFINE N == Len(pkts)
<1>1. /\ N \in Nat /\ buf \in Full /\ pkts \in Seq(Packet)
      /\ \A c \in Places : Len(buf[c]) \in Nat /\ \A i \in 1..Len(buf[c]) : buf[c][i] \in 1..N
  <2>1. \A c \in Places : buf[c] \in Seq(Nat)
    BY DEF PInv, Typed, Full
  <2> QED
    BY <2>1 DEF PInv, Typed, Conserved, OneEach
<1>2. /\ Len(pkts') = N + k
      /\ \A x \in 1..N : pkts'[x] = pkts[x]
      /\ \A i \in 1..k : pkts'[N + i].io = l
  <2> DEFINE new == [i \in 1..k |-> [byte |-> byte[i], io |-> l]]
  <2>1. new \in Seq(Packet) /\ Len(new) = k /\ \A i \in 1..k : new[i].io = l
    BY NewPackets
  <2>2. pkts' = pkts \o new
    OBVIOUS
  <2> HIDE DEF new
  <2>3. /\ Len(pkts') = N + k
        /\ \A x \in 1..N : pkts'[x] = pkts[x]
        /\ \A i \in 1..k : pkts'[N + i] = new[i]
    BY <1>1, <2>1, <2>2, ConcatProperties
  <2> QED
    BY <2>1, <2>3
<1>4. \A x \in 1..N : \A m, w : x \in Flow(m, w)' => x \in Flow(m, w)
  BY <1>2 DEF Flow, WorkerOf
<1>5. In(l) \in Places /\ In(l)[1] = "in" /\ In(l)[2] = l
  BY KindsArePlaces DEF Inputs, In
<1>6. /\ Len(buf'[In(l)]) = k /\ \A i \in 1..k : buf'[In(l)][i] = N + i
      /\ \A c \in Places \ {In(l)} : buf'[c] = buf[c]
  <2> DEFINE s == [i \in 1..k |-> N + i]
  <2>1. Len(s) = k /\ \A i \in 1..k : s[i] = N + i
    OBVIOUS
  <2>2. buf' = [buf EXCEPT ![In(l)] = s]
    OBVIOUS
  <2> HIDE DEF s
  <2> QED
    BY <1>1, <1>5, <2>1, <2>2 DEF Full
<1> HIDE DEF N
<1>7. ASSUME NEW c \in Places, NEW i \in 1..Len(buf'[c])
      PROVE  Home(c, buf[c][i])'
  <2>1. CASE c = In(l)
    <3>1. pkts'[buf'[c][i]].io = l
      BY <1>2, <1>6, <2>1
    <3> QED
      BY <1>5, <2>1, <3>1 DEF Home
  <2>2. CASE c # In(l)
    <3>1. buf'[c] = buf[c] /\ buf[c][i] \in 1..N /\ Home(c, buf[c][i])
      BY <1>1, <1>6, <2>2 DEF Orderly
    <3> QED
      BY <1>2, <3>1 DEF Home, WorkerOf
  <2> QED
    BY <2>1, <2>2
<1>8. ASSUME NEW h \in Ios, NEW w \in Workers, NEW p \in Ports
      PROVE  Ordered(buf, Road(h, w, p), Flow(h, w))'
  <2> DEFINE R == Road(h, w, p)
             F == Flow(h, w)
             G == F'
  <2>1. Len(R) = 8 /\ \A m \in 1..8 : R[m] \in Places
    <3>1. R \in Seq(Places)
      BY RoadPlaces
    <3>2. Len(R) = 8
      BY RoadPlaces
    <3> HIDE DEF R
    <3>3. \A m \in 1..Len(R) : R[m] \in Places
      BY <3>1
    <3> QED
      BY <3>2, <3>3
  <2>2. \A m \in 1..8 : R[m] = In(l) => m = 8
    <3>1. /\ R[1] = Sent(p) /\ R[2] = TxOut(p) /\ R[3] = TxRing(w, p) /\ R[4] = WOut(w, p)
          /\ R[5] = WIn(w) /\ R[6] = RxRing(h, w) /\ R[7] = RxOut(h, w) /\ R[8] = In(h)
      BY RoadPlaces
    <3>2. /\ R[1][1] # "in" /\ R[2][1] # "in" /\ R[3][1] # "in" /\ R[4][1] # "in"
          /\ R[5][1] # "in" /\ R[6][1] # "in" /\ R[7][1] # "in"
      BY <3>1 DEF Sent, TxOut, TxRing, WOut, WIn, RxRing, RxOut
    <3> HIDE DEF R
    <3> QED
      BY <1>5, <3>2
  <2>3. Ordered(buf, R, F)
    BY DEF Orderly
  <2>4. Ordered(buf', R, G)
    <3>1. \A x \in 1..N : x \in G => x \in F
      BY <1>4
    <3> HIDE DEF R, F, G
    <3> SUFFICES ASSUME NEW m \in 1..8, NEW n \in 1..8, m <= n,
                        NEW i \in 1..Len(buf'[R[m]]), NEW j \in 1..Len(buf'[R[n]]),
                        m < n \/ i < j, buf'[R[m]][i] \in G, buf'[R[n]][j] \in G
                 PROVE  buf'[R[m]][i] < buf'[R[n]][j]
      BY <2>1 DEF Ordered
    <3>2. R[m] \in Places /\ R[n] \in Places
      BY <2>1
    <3>3. R[m] # In(l) => buf'[R[m]] = buf[R[m]] /\ buf[R[m]][i] \in 1..N
      BY <1>1, <1>6, <3>2
    <3>4. R[n] # In(l) => buf'[R[n]] = buf[R[n]] /\ buf[R[n]][j] \in 1..N
      BY <1>1, <1>6, <3>2
    <3>5. CASE R[m] = In(l)
      <4>1. m = 8 /\ n = 8 /\ i < j
        BY <2>2, <3>5
      <4>2. i \in 1..k /\ j \in 1..k
        BY <1>6, <3>5, <4>1
      <4>3. buf'[R[m]][i] = N + i /\ buf'[R[n]][j] = N + j
        BY <1>6, <3>5, <4>1, <4>2
      <4> QED
        BY <1>1, <4>1, <4>2, <4>3
    <3>6. CASE R[m] # In(l) /\ R[n] = In(l)
      <4>1. j \in 1..k /\ buf'[R[n]][j] = N + j
        BY <1>6, <3>6
      <4> QED
        BY <1>1, <3>3, <3>6, <4>1
    <3>7. CASE R[m] # In(l) /\ R[n] # In(l)
      <4>1. buf[R[m]][i] \in F /\ buf[R[n]][j] \in F
        BY <3>1, <3>3, <3>4, <3>7
      <4>2. i \in 1..Len(buf[R[m]]) /\ j \in 1..Len(buf[R[n]])
        BY <3>3, <3>4, <3>7
      <4>3. m \in 1..Len(R) /\ n \in 1..Len(R)
        BY <2>1
      <4>4. buf[R[m]][i] < buf[R[n]][j]
        BY <2>3, <4>1, <4>2, <4>3 DEF Ordered
      <4> QED
        BY <3>3, <3>4, <3>7, <4>4
    <3> QED
      BY <3>5, <3>6, <3>7
  <2>5. R' = R
    BY DEF Road, Sent, TxOut, TxRing, WOut, WIn, RxRing, RxOut, In
  <2> HIDE DEF R
  <2>6. Ordered(buf, R, F)' <=> Ordered(buf', R', F')
    BY DEF Ordered
  <2> QED
    BY <2>4, <2>5, <2>6 DEF R
<1> QED
  BY <1>7, <1>8 DEF Orderly

\* One step of an I/O lcore.
LEMMA IoOrder ==
  ASSUME PInv, Orderly(buf), NEW l \in Ios, IoLcore(l)
  PROVE  Orderly(buf)'
<1>1. /\ buf \in Full /\ In(l) \in Inputs /\ In(l) \in Places
      /\ \A w \in Workers : /\ RxOut(l, w) \in RxArrays /\ RxRing(l, w) \in Rings
                            /\ Hop(In(l), RxOut(l, w)) /\ Hop(RxOut(l, w), RxRing(l, w))
  BY KindsArePlaces DEF PInv, Typed, Inputs, RxArrays, RxRings, Rings, Hop
<1>2. CASE IoTurn(l)
  <2>1. buf' = buf /\ pkts' = pkts
    BY <1>2 DEF IoTurn, NewTurn
  <2> QED
    BY <2>1, SamePackets
<1>3. CASE RxReadBurst(l)
  <2>1. buf[In(l)] = <<>>
    BY <1>3 DEF RxReadBurst, Does
  <2>2. PICK k \in 0..RxRead : \E byte \in [1..k -> Bytes] :
           /\ pkts' = pkts \o [i \in 1..k |-> [byte |-> byte[i], io |-> l]]
           /\ buf' = [buf EXCEPT ![In(l)] = [i \in 1..k |-> Len(pkts) + i]]
    BY <1>3 DEF RxReadBurst
  <2>3. k \in Nat
    BY BurstsAssumption DEF Bursts
  <2> QED
    BY <2>1, <2>2, <2>3, ArrivalKeepsOrder
<1>4. CASE HandOut(l)
  <2> DEFINE x == Head(buf[In(l)])
             w == WorkerOf(x)
  <2>1. buf[In(l)] # <<>> /\ pkts' = pkts
        /\ Buffer(In(l), RxOut(l, w), RxRing(l, w), RxRingRoom, RxWrite)
    BY <1>4 DEF HandOut
  <2>2. buf[In(l)] \in Seq(Nat)
    BY <1>1 DEF Full
  <2>3. 1 \in 1..Len(buf[In(l)]) /\ x = buf[In(l)][1]
    BY <2>1, <2>2, EmptySeq
  <2>4. x \in 1..Len(pkts) /\ Home(In(l), x)
    BY <1>1, <2>3 DEF PInv, Conserved, OneEach, Orderly
  <2>5. w \in Workers
    BY <2>4, WorkerThere DEF PInv
  <2>6. Home(RxOut(l, w), x)
    BY <2>4 DEF Home, In, RxOut
  <2> HIDE DEF x, w
  <2>7. Home(RxOut(l, w), Head(buf[In(l)]))
    BY <2>6 DEF x
  <2>8. Orderly(buf')
    BY <1>1, <2>1, <2>5, <2>7, BufferKeepsOrder
  <2> QED
    BY <2>1, <2>8, SamePackets
<1>5. CASE RxFlush(l)
  <2>1. PICK w \in Workers : FlushArray(RxOut(l, w), RxRing(l, w), RxRingRoom) /\ pkts' = pkts
    BY <1>5 DEF RxFlush
  <2>2. Orderly(buf')
    BY <1>1, <2>1, FlushKeepsOrder
  <2> QED
    BY <2>1, <2>2, SamePackets
<1>6. CASE TakeForPort(l)
  <2>1. PICK w \in Workers, p \in Ports :
          /\ buf' = IF Len(buf[TxRing(w, p)]) >= TxRead
                      THEN Moved(buf, TxRing(w, p), TxOut(p), TxRead) ELSE buf
          /\ pkts' = pkts
    BY <1>6 DEF TakeForPort
  <2>2. /\ TxRing(w, p) \in Places /\ TxOut(p) \in Places /\ TxRing(w, p) # TxOut(p)
        /\ TxRing(w, p)[1] # "in" /\ Hop(TxRing(w, p), TxOut(p))
    <3>1. TxRing(w, p) \in TxRings /\ TxOut(p) \in TxArrays
      BY DEF TxRings, TxArrays
    <3>2. Hop(TxRing(w, p), TxOut(p))
      BY DEF Hop
    <3> QED
      BY <3>1, <3>2, Kinds, KindsArePlaces
  <2>3. TxRead \in Nat /\ Len(buf[TxRing(w, p)]) \in Nat
    BY <1>1, <2>2, BurstsAssumption DEF Bursts, Full
  <2>4. CASE Len(buf[TxRing(w, p)]) >= TxRead
    <3>1. TxRead <= Len(buf[TxRing(w, p)]) /\ buf' = Moved(buf, TxRing(w, p), TxOut(p), TxRead)
      BY <2>1, <2>3, <2>4
    <3>2. Orderly(buf')
      BY <1>1, <2>2, <2>3, <3>1, HopKeeps
    <3> QED
      BY <2>1, <3>2, SamePackets
  <2>5. CASE ~(Len(buf[TxRing(w, p)]) >= TxRead)
    BY <2>1, <2>5, SamePackets
  <2> QED
    BY <2>4, <2>5
<1>7. CASE TxSend(l)
  <2>1. PICK p \in Ports : \E s \in 0..Len(buf[TxOut(p)]) :
                             buf' = Transmitted(buf, p, s) /\ pkts' = pkts
    BY <1>7 DEF TxSend
  <2>2. Orderly(buf')
    BY <1>1, <2>1, TransmitKeepsOrder
  <2> QED
    BY <2>1, <2>2, SamePackets
<1>8. CASE TxFlush(l)
  <2>1. PICK p \in Ports :
          /\ \/ \E s \in 0..Len(buf[TxOut(p)]) : buf' = Transmitted(buf, p, s)
             \/ buf' = buf
          /\ pkts' = pkts
    BY <1>8 DEF TxFlush
  <2>2. Orderly(buf')
    BY <1>1, <2>1, TransmitKeepsOrder
  <2> QED
    BY <2>1, <2>2, SamePackets
<1> QED
  BY <1>2, <1>3, <1>4, <1>5, <1>6, <1>7, <1>8 DEF IoLcore

\* One step of a worker.
LEMMA WorkerOrder ==
  ASSUME PInv, Orderly(buf), NEW w \in Workers, Worker(w)
  PROVE  Orderly(buf)'
<1>1. /\ buf \in Full /\ WIn(w) \in Inputs /\ WIn(w) \in Places /\ WIn(w)[1] # "in"
      /\ WIn(w) # Freed /\ Freed \in Places /\ Hop(WIn(w), Freed)
      /\ \A p \in Ports : /\ WOut(w, p) \in WArrays /\ TxRing(w, p) \in Rings
                          /\ Hop(WIn(w), WOut(w, p)) /\ Hop(WOut(w, p), TxRing(w, p))
  <2>1. /\ WIn(w) \in Inputs /\ WIn(w)[1] # "in"
        /\ \A p \in Ports : WOut(w, p) \in WArrays /\ TxRing(w, p) \in Rings
    BY DEF Inputs, WArrays, TxRings, Rings, WIn
  <2>2. /\ Hop(WIn(w), Freed)
        /\ \A p \in Ports : Hop(WIn(w), WOut(w, p)) /\ Hop(WOut(w, p), TxRing(w, p))
    BY DEF Hop
  <2> QED
    BY <2>1, <2>2, Kinds, KindsArePlaces DEF PInv, Typed
<1>2. CASE WorkerTurn(w)
  <2>1. buf' = buf /\ pkts' = pkts
    BY <1>2 DEF WorkerTurn, NewTurn
  <2> QED
    BY <2>1, SamePackets
<1>3. CASE TakeBurst(w)
  <2>1. PICK l \in Ios :
          /\ buf' = IF Len(buf[RxRing(l, w)]) >= WorkerRead
                      THEN Moved(buf, RxRing(l, w), WIn(w), WorkerRead) ELSE buf
          /\ pkts' = pkts
    BY <1>3 DEF TakeBurst
  <2>2. /\ RxRing(l, w) \in Places /\ RxRing(l, w) # WIn(w)
        /\ RxRing(l, w)[1] # "in" /\ Hop(RxRing(l, w), WIn(w))
    <3>1. RxRing(l, w) \in RxRings
      BY DEF RxRings
    <3>2. Hop(RxRing(l, w), WIn(w))
      BY DEF Hop
    <3> QED
      BY <1>1, <3>1, <3>2, Kinds, KindsArePlaces
  <2>3. WorkerRead \in Nat /\ Len(buf[RxRing(l, w)]) \in Nat
    BY <1>1, <2>2, BurstsAssumption DEF Bursts, Full
  <2>4. CASE Len(buf[RxRing(l, w)]) >= WorkerRead
    <3>1. WorkerRead <= Len(buf[RxRing(l, w)]) /\ buf' = Moved(buf, RxRing(l, w), WIn(w), WorkerRead)
      BY <2>1, <2>3, <2>4
    <3>2. Orderly(buf')
      BY <1>1, <2>2, <2>3, <3>1, HopKeeps
    <3> QED
      BY <2>1, <3>2, SamePackets
  <2>5. CASE ~(Len(buf[RxRing(l, w)]) >= WorkerRead)
    BY <2>1, <2>5, SamePackets
  <2> QED
    BY <2>4, <2>5
<1>4. CASE Refuse(w)
  <2>1. buf[WIn(w)] # <<>> /\ buf' = Moved(buf, WIn(w), Freed, 1) /\ pkts' = pkts
    BY <1>4 DEF Refuse
  <2>2. 1 <= Len(buf[WIn(w)]) /\ 1 \in Nat
    <3>1. buf[WIn(w)] \in Seq(Nat)
      BY <1>1 DEF Full
    <3> QED
      BY <2>1, <3>1, EmptySeq
  <2>3. Orderly(buf')
    BY <1>1, <2>1, <2>2, HopKeeps
  <2> QED
    BY <2>1, <2>3, SamePackets
<1>5. CASE Answer(w)
  <2>1. PICK p \in PortsOut :
          Buffer(WIn(w), WOut(w, p), TxRing(w, p), TxRingRoom, WorkerWrite)
    BY <1>5 DEF Answer
  <2>2. buf[WIn(w)] # <<>> /\ pkts' = pkts /\ p \in Ports
    BY <1>5 DEF Answer, PortsOut
  <2>3. Orderly(buf')
    BY <1>1, <2>1, <2>2, BufferKeepsOrder
  <2> QED
    BY <2>2, <2>3, SamePackets
<1>6. CASE OutFlush(w)
  <2>1. PICK p \in Ports :
          /\ \/ FlushArray(WOut(w, p), TxRing(w, p), TxRingRoom)
             \/ buf' = buf
          /\ pkts' = pkts
    BY <1>6 DEF OutFlush
  <2>2. Orderly(buf')
    BY <1>1, <2>1, FlushKeepsOrder
  <2> QED
    BY <2>1, <2>2, SamePackets
<1> QED
  BY <1>2, <1>3, <1>4, <1>5, <1>6 DEF Worker

\* Packets that meet in a worker and on a port are answered in the order they
\* came, for any numbers of lcores, ports and packets and any sizes, whichever
\* rings are full, and though arrays leave when they are full or by a flush
\* (runtime.c:93-566).
THEOREM PacketsInOrder == Spec => []InOrder
<1> DEFINE OInv == PInv /\ Orderly(buf)
<1>1. Init => OInv
  <2> SUFFICES ASSUME Init
               PROVE  Orderly(buf)
    BY PInvInit
  <2>1. \A c \in Places : Len(buf[c]) = 0
    BY DEF Init
  <2>2. \A l \in Ios, w \in Workers, p \in Ports : \A m \in 1..Len(Road(l, w, p)) :
          Road(l, w, p)[m] \in Places
    <3> SUFFICES ASSUME NEW l \in Ios, NEW w \in Workers, NEW p \in Ports
                 PROVE  \A m \in 1..Len(Road(l, w, p)) : Road(l, w, p)[m] \in Places
      OBVIOUS
    <3>1. Road(l, w, p) \in Seq(Places)
      BY RoadPlaces
    <3> QED
      BY <3>1
  <2> QED
    BY <2>1, <2>2 DEF Orderly, Ordered
<1>2. OInv /\ [Next]_vars => OInv'
  <2> SUFFICES ASSUME OInv, [Next]_vars
               PROVE  Orderly(buf)'
    BY PInvStep
  <2>1. CASE Next
    BY <2>1, IoOrder, WorkerOrder DEF Next
  <2>2. CASE UNCHANGED vars
    <3>1. buf' = buf /\ pkts' = pkts
      BY <2>2 DEF vars
    <3> QED
      BY <3>1, SamePackets
  <2> QED
    BY <2>1, <2>2
<1>3. OInv => InOrder
  BY DEF Orderly, InOrder
<1> QED
  BY <1>1, <1>2, <1>3, PTL DEF Spec
=============================================================================
