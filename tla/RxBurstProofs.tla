---------------------------- MODULE RxBurstProofs ----------------------------
(***************************************************************************)
(* For every size of the array and of the bursts, packets are handed out   *)
(* once each and in order.  The inductive invariant says which packet each *)
(* register holds as long as that packet is inside the burst.              *)
(***************************************************************************)
EXTENDS RxBurst, TLAPS

\* What one hand-out appends keeps the order (runtime.c:208-259).
LEMMA AppendInOrder ==
  ASSUME NEW s \in Seq(Handed), NEW x \in Handed,
         \A i \in 1..Len(s) : s[i] = [mbuf |-> i, data |-> i],
         x = [mbuf |-> Len(s) + 1, data |-> Len(s) + 1]
  PROVE  /\ Append(s, x) \in Seq(Handed)
         /\ Len(Append(s, x)) = Len(s) + 1
         /\ \A i \in 1..Len(Append(s, x)) : Append(s, x)[i] = [mbuf |-> i, data |-> i]
  OBVIOUS

\* The initial state satisfies the invariant: nothing has arrived.
LEMMA RxInitially == Init => RxInv
<1> SUFFICES ASSUME Init PROVE RxInv
  OBVIOUS
<1> USE DEF Init
<1>1. ReadBurst \in Nat /\ 0 \in 0..ReadBurst
  BY BurstAssumption
<1>2. out \in Seq(Handed) /\ Len(out) = 0
  OBVIOUS
<1>3. TypeOK
  <2>1. array \in [Slots -> Held]
    BY DEF Held, NoMbuf, Stray
  <2>2. mbuf \in [1..4 -> Held] /\ data \in [1..2 -> Held]
    BY DEF Held, NoMbuf
  <2> QED
    BY <1>1, <1>2, <2>1, <2>2 DEF TypeOK
<1> QED
  BY <1>2, <1>3 DEF RxInv, Registers, HandedSoFar, InOrder, Complete, Base, Ahead

\* A burst loads the array and the registers with the packets that arrived.
LEMMA RxBurstStep ==
  ASSUME RxInv, NEW k \in 1..ReadBurst, Burst(k)
  PROVE  RxInv'
<1> USE BurstAssumption
<1> USE DEF RxInv, Burst
<1>1. TypeOK'
  BY DEF TypeOK, Held, Slots
<1>2. \A s \in 0..(k - 1) : array'[s] = arrived + s + 1
  BY DEF TypeOK, Slots
<1>3. \A r \in 1..4 : mbuf'[r] = array'[r - 1]
  OBVIOUS
<1>4. data'[1] = array'[0] /\ (k > 1 => data'[2] = array'[1])
  BY DEF TypeOK
<1>5. k \in Nat /\ arrived \in Nat /\ arrived' = arrived + k /\ n' = k /\ j' = 0
  BY DEF TypeOK
<1>6. Base' = arrived
  BY <1>5 DEF Base
<1>7. Registers'
  BY <1>2, <1>3, <1>4, <1>5, <1>6 DEF Registers, Ahead
<1>8. HandedSoFar' /\ Complete'
  BY <1>5, <1>6 DEF HandedSoFar, Complete
<1> QED
  BY <1>1, <1>7, <1>8 DEF InOrder

\* A turn of the loop moves each register to the packet two further on.
LEMMA RxPairStep ==
  ASSUME RxInv, HandOutPair
  PROVE  RxInv'
<1> USE BurstAssumption
<1> USE DEF RxInv, HandOutPair
<1> DEFINE x == [mbuf |-> mbuf[1], data |-> data[1]]
           y == [mbuf |-> mbuf[2], data |-> data[2]]
<1>1. /\ n \in Nat /\ j \in Nat /\ arrived \in Nat /\ n <= ArraySize
      /\ j + 3 < n /\ j' = j + 2
  BY DEF TypeOK
<1>2. x \in Handed /\ y \in Handed /\ out \in Seq(Handed)
  BY DEF TypeOK, Handed
<1>3. Len(out) = Base + j
  BY DEF HandedSoFar
<1>4. /\ mbuf[1] = Base + j + 1 /\ mbuf[2] = Base + j + 2
      /\ mbuf[3] = Base + j + 3 /\ mbuf[4] = Base + j + 4
      /\ data[1] = Base + j + 1 /\ data[2] = Base + j + 2
  BY <1>1 DEF Registers, Ahead
<1>5. mbuf[1] = Len(out) + 1 /\ data[1] = Len(out) + 1
      /\ mbuf[2] = Len(out) + 2 /\ data[2] = Len(out) + 2
  BY <1>1, <1>3, <1>4 DEF Base
<1> DEFINE o == Append(out, x)
<1>6. x = [mbuf |-> Len(out) + 1, data |-> Len(out) + 1]
  BY <1>5
<1>7. o \in Seq(Handed) /\ Len(o) = Len(out) + 1
      /\ \A i \in 1..Len(o) : o[i] = [mbuf |-> i, data |-> i]
  <2> HIDE DEF x
  <2>1. \A i \in 1..Len(out) : out[i] = [mbuf |-> i, data |-> i]
    BY DEF InOrder
  <2> QED
    BY <1>2, <1>6, <2>1, AppendInOrder
<1>8. out' = Append(o, y)
  BY <1>2
<1>20. y = [mbuf |-> Len(o) + 1, data |-> Len(o) + 1]
  <2>1. Len(o) + 1 = Len(out) + 2
    <3> HIDE DEF o
    <3> QED BY <1>2, <1>7
  <2> HIDE DEF o
  <2> QED BY <1>5, <2>1
<1> HIDE DEF o, y
<1>9. out' \in Seq(Handed) /\ Len(out') = Len(out) + 2 /\ InOrder'
  <2>1. /\ Append(o, y) \in Seq(Handed) /\ Len(Append(o, y)) = Len(o) + 1
        /\ \A i \in 1..Len(Append(o, y)) : Append(o, y)[i] = [mbuf |-> i, data |-> i]
    BY <1>2, <1>7, <1>20, AppendInOrder
  <2> HIDE DEF RxInv, HandOutPair
  <2>2. out' \in Seq(Handed) /\ Len(out') = Len(out) + 2
    BY <1>2, <1>7, <1>8, <2>1
  <2>3. InOrder'
    BY <1>8, <2>1 DEF InOrder
  <2> QED
    BY <2>2, <2>3
<1>10. j + 4 \in Slots /\ j + 5 \in Slots
  BY <1>1 DEF Slots
<1>11. mbuf' \in [1..4 -> Held] /\ data' \in [1..2 -> Held]
  BY <1>10 DEF TypeOK
<1>12. TypeOK'
  BY <1>1, <1>9, <1>11 DEF TypeOK
<1>13. Base' = Base /\ \A s \in 0..(n - 1) : array[s] = Base + s + 1
  BY DEF Base, Registers
<1>14. Registers'
  <2>1. \A r \in 1..4 : j' + (r - 1) < n => mbuf'[r] = Base + j' + r
    <3>1. mbuf'[1] = mbuf[3] /\ mbuf'[2] = mbuf[4] /\ mbuf'[3] = array[j + 4]
          /\ mbuf'[4] = array[j + 5]
      OBVIOUS
    <3>2. j + 4 < n => array[j + 4] = Base + j + 5
      BY <1>1, <1>13 DEF Base
    <3>3. j + 5 < n => array[j + 5] = Base + j + 6
      BY <1>1, <1>13 DEF Base
    <3> HIDE DEF RxInv, HandOutPair
    <3> QED
      BY <1>1, <1>4, <3>1, <3>2, <3>3 DEF Base
  <2>2. \A r \in 1..2 : j' + (r - 1) < n => data'[r] = Base + j' + r
    BY <1>1, <1>4 DEF Base
  <2> QED
    BY <1>1, <1>13, <2>1, <2>2 DEF Registers, Ahead
<1>15. HandedSoFar' /\ Complete'
  BY <1>1, <1>3, <1>9, <1>13 DEF HandedSoFar, Complete, Base
<1> QED
  BY <1>9, <1>12, <1>14, <1>15

\* A turn of the tail moves the registers up by one; three packets at most are
\* left, so what it leaves in the last register is beyond the burst.
LEMMA RxTailStep ==
  ASSUME RxInv, HandOutLast
  PROVE  RxInv'
<1> USE BurstAssumption
<1> USE DEF RxInv, HandOutLast
<1> DEFINE x == [mbuf |-> mbuf[1], data |-> mbuf[1]]
<1>1. /\ n \in Nat /\ j \in Nat /\ arrived \in Nat /\ n <= ArraySize
      /\ j < n /\ j' = j + 1 /\ j + 3 >= n
  BY DEF TypeOK, Registers
<1>2. x \in Handed /\ out \in Seq(Handed)
  BY DEF TypeOK, Handed
<1>3. Len(out) = Base + j
  BY DEF HandedSoFar
<1>4. \A r \in 1..4 : j + (r - 1) < n => mbuf[r] = Base + j + r
  BY DEF Registers, Ahead
<1>5. mbuf[1] = Len(out) + 1
  BY <1>1, <1>3, <1>4 DEF Base
<1>6. out' \in Seq(Handed) /\ Len(out') = Len(out) + 1 /\ InOrder'
  <2>1. out' = Append(out, x)
    OBVIOUS
  <2>2. x = [mbuf |-> Len(out) + 1, data |-> Len(out) + 1]
    BY <1>5
  <2>3. \A i \in 1..Len(out) : out[i] = [mbuf |-> i, data |-> i]
    BY DEF InOrder
  <2> HIDE DEF x
  <2> QED
    BY <1>2, <2>1, <2>2, <2>3, AppendInOrder DEF InOrder
<1>7. mbuf' \in [1..4 -> Held]
  BY DEF TypeOK
<1>8. TypeOK'
  BY <1>1, <1>6, <1>7 DEF TypeOK
<1>9. Base' = Base
  BY DEF Base
<1>10. Registers'
  <2>1. \A r \in 1..4 : j' + (r - 1) < n => mbuf'[r] = Base + j' + r
    BY <1>1, <1>4 DEF Base
  <2> QED
    BY <1>1, <1>9, <2>1 DEF Registers, Ahead
<1>11. HandedSoFar' /\ Complete'
  BY <1>1, <1>3, <1>6, <1>9 DEF HandedSoFar, Complete, Base
<1> QED
  BY <1>6, <1>8, <1>10, <1>11

\* The steps between the loops hand out nothing.
LEMMA RxTurnStep ==
  ASSUME RxInv, EndOfPairs \/ EndOfBurst \/ UNCHANGED vars
  PROVE  RxInv'
<1> USE DEF RxInv, TypeOK, Registers, HandedSoFar, InOrder, Complete, Base, Ahead
<1>1. CASE EndOfPairs
  BY <1>1, BurstAssumption DEF EndOfPairs
<1>2. CASE EndOfBurst
  BY <1>2, BurstAssumption DEF EndOfBurst
<1>3. CASE UNCHANGED vars
  BY <1>3 DEF vars
<1> QED
  BY <1>1, <1>2, <1>3

\* The invariant holds in every reachable state.
LEMMA RxInvariant == Spec => []RxInv
<1>1. RxInv /\ [Next]_vars => RxInv'
  BY RxBurstStep, RxPairStep, RxTailStep, RxTurnStep DEF Next
<1> QED
  BY <1>1, RxInitially, PTL DEF Spec

\* Every packet of a burst of any length leaves once, in order, sorted by its
\* own data (runtime.c:208-259).
THEOREM HandsOutInOrder == Spec => []InOrder
<1>1. RxInv => InOrder
  BY DEF RxInv
<1> QED
  BY <1>1, RxInvariant, PTL

\* No packet is left in the array when the next burst is read (runtime.c:243).
THEOREM HandsOutAll == Spec => []Complete
<1>1. RxInv => Complete
  BY DEF RxInv
<1> QED
  BY <1>1, RxInvariant, PTL
==============================================================================
