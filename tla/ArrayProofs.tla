---------------------------- MODULE ArrayProofs ----------------------------
(***************************************************************************)
(* How full the arrays get, for any number of lcores, ports and packets.   *)
(* The arrays of packets that join one by one follow from PInv.  A port's  *)
(* array needs more: it is a number of whole read bursts, and short of a   *)
(* write burst unless its lcore is about to send it, which is so because   *)
(* one lcore alone appends to it and sends it.  The command line provides  *)
(* the one (OneSenderPerPort of LcoreConfig).  That the array has room for *)
(* so much it does not provide, and nothing of that is assumed.            *)
(*                                                                         *)
(* What an lcore may have to do, needed for that, gives the variables      *)
(* their types as well.                                                    *)
(***************************************************************************)
EXTENDS PipelineProofs

Sends(l) == {p \in Ports : \E i \in 1..Len(TxPorts[l]) : TxPorts[l][i] = p}

\* What an I/O lcore may have to do.
OwnOps(l) == {<<"rx", p>> : p \in Ports} \cup {<<"flushRx", w>> : w \in Workers}
             \cup {<<"flushTx", p>> : p \in Ports} \cup {<<"send", p>> : p \in Sends(l)}
             \cup {<<"tx", w, p>> : w \in Workers, p \in Sends(l)}
Owned == /\ \A l \in Ios : todo[l] \in Seq(OwnOps(l))
         /\ DOMAIN todo = Lcores

\* Lcore l is about to send the array of port p.
Sending(l, p) == todo[l] # <<>> /\ Head(todo[l]) = <<"send", p>>

\* A number of whole read bursts.
Whole(n) == \E k \in Nat : n = k * TxRead

TxShort == \A p \in Ports :
             /\ Whole(Len(buf[TxOut(p)]))
             /\ \/ Len(buf[TxOut(p)]) < TxWrite
                \/ /\ \E l \in Ios : Sending(l, p)
                   /\ Len(buf[TxOut(p)]) < TxRead + TxWrite

InputsFit == /\ \A l \in Ios : Len(buf[In(l)]) <= RxRead
             /\ \A w \in Workers : Len(buf[WIn(w)]) <= WorkerRead

AInv == PInv /\ Owned /\ TxShort /\ InputsFit

\* Bursts add up, and the last of them may go over a write burst by less than
\* its own length.
LEMMA WholeBursts ==
  /\ Whole(0)
  /\ \A n \in Nat : Whole(n) => Whole(n + TxRead)
  /\ \A n \in Nat : Whole(n) /\ n < TxRead + TxWrite => n <= TxMost
<1>1. TxRead \in Nat /\ TxRead > 0 /\ TxWrite \in Nat /\ TxWrite > 0
  BY BurstsAssumption DEF Bursts
<1>2. Whole(0)
  BY <1>1 DEF Whole
<1>3. ASSUME NEW n \in Nat, Whole(n)
      PROVE  Whole(n + TxRead)
  <2>1. PICK k \in Nat : n = k * TxRead
    BY <1>3 DEF Whole
  <2>2. n + TxRead = (k + 1) * TxRead /\ k + 1 \in Nat
    BY <1>1, <2>1
  <2> QED
    BY <2>2 DEF Whole
<1>4. ASSUME NEW n \in Nat, Whole(n), n < TxRead + TxWrite
      PROVE  n <= TxMost
  <2> DEFINE c == (TxWrite + TxRead - 1) \div TxRead
             r == (TxWrite + TxRead - 1) % TxRead
  <2>1. PICK k \in Nat : n = k * TxRead
    BY <1>4 DEF Whole
  <2>2. c \in Int /\ r \in 0..(TxRead - 1) /\ TxWrite + TxRead - 1 = c * TxRead + r
    BY <1>1
  <2> HIDE DEF c, r
  <2>3. c * TxRead >= TxWrite
    BY <1>1, <2>2
  <2>4. k <= c
    <3>1. SUFFICES ASSUME k >= c + 1
                   PROVE  FALSE
      BY <2>2
    <3>2. k * TxRead >= (c + 1) * TxRead
      BY <1>1, <2>2, <3>1
    <3>3. (c + 1) * TxRead = c * TxRead + TxRead
      BY <1>1, <2>2
    <3> QED
      BY <1>1, <1>4, <2>1, <2>2, <2>3, <3>2, <3>3
  <2>5. k * TxRead <= c * TxRead
    BY <1>1, <2>2, <2>4
  <2>6. TxMost = TxRead * c
    BY DEF TxMost, c
  <2> QED
    BY <1>1, <2>1, <2>2, <2>5, <2>6
<1> QED
  BY <1>2, <1>3, <1>4

\* The first thing to do is one of an lcore's own, and so is what is left.
LEMMA FirstOp ==
  ASSUME Owned, NEW l \in Ios, todo[l] # <<>>
  PROVE  Head(todo[l]) \in OwnOps(l) /\ Tail(todo[l]) \in Seq(OwnOps(l))
<1>1. todo[l] \in Seq(OwnOps(l))
  BY DEF Owned
<1> QED
  BY <1>1

\* Who appends to a port's array, and who sends it, has it among its ports.
LEMMA OpsOfPort ==
  ASSUME NEW l \in Ios
  PROVE  /\ \A p : <<"send", p>> \in OwnOps(l) => p \in Sends(l)
         /\ \A w, p : <<"tx", w, p>> \in OwnOps(l) => p \in Sends(l)
<1>1. \A op \in OwnOps(l) : /\ op[1] = "send" => op[2] \in Sends(l)
                            /\ op[1] = "tx" => op[3] \in Sends(l)
  BY DEF OwnOps
<1> QED
  BY <1>1

\* The two loops of app_lcore_io_tx, flattened, stay within the workers and the
\* list of ports.
LEMMA Rest ==
  ASSUME NEW n \in Nat, NEW m \in Nat, m > 0, NEW x \in 0..(n * m - 1)
  PROVE  x \div m \in 0..(n - 1) /\ (x % m) + 1 \in 1..m
<1>0. n * m \in Int
  OBVIOUS
<1>1. x \in Nat /\ x < n * m
  BY <1>0
<1> DEFINE q == x \div m
           r == x % m
<1>2. q \in Int /\ r \in 0..(m - 1) /\ x = q * m + r
  BY <1>1
<1> HIDE DEF q, r
<1>3. q >= 0
  BY <1>1, <1>2
<1>4. q < n
  <2>1. q * m < n * m
    BY <1>1, <1>2, <1>0
  <2>2. ASSUME q >= n PROVE FALSE
    <3>1. PICK d \in Nat : q = n + d
      <4>1. q - n \in Nat /\ q = n + (q - n)
        BY <1>2, <2>2
      <4> QED
        BY <4>1
    <3>2. q * m = n * m + d * m
      BY <3>1
    <3>3. d * m \in Nat
      BY <3>1
    <3> QED
      BY <1>0, <2>1, <3>2, <3>3
  <2> QED
    BY <1>2, <2>2
<1> QED
  BY <1>2, <1>3, <1>4 DEF q, r

\* A new turn is made of an lcore's own operations.
LEMMA TurnOwned ==
  ASSUME NEW l \in Ios
  PROVE  IoFlushOps(l) \in Seq(OwnOps(l)) /\ IoOps(l) \in Seq(OwnOps(l))
<1>1. /\ RxPorts[l] \in Seq(Ports) /\ TxPorts[l] \in Seq(Ports)
      /\ NumWorkers \in Nat
  BY PortsAssumption, LcoresAssumption
<1>2. \A i \in 1..Len(TxPorts[l]) : TxPorts[l][i] \in Ports /\ TxPorts[l][i] \in Sends(l)
  BY <1>1 DEF Sends
<1>3. PortOps("rx", RxPorts[l]) \in Seq(OwnOps(l))
  <2>1. \A i \in 1..Len(RxPorts[l]) : <<"rx", RxPorts[l][i]>> \in OwnOps(l)
    BY <1>1 DEF OwnOps
  <2>2. Len(RxPorts[l]) \in Nat
    BY <1>1
  <2> QED
    BY <2>1, <2>2 DEF PortOps
<1>4. PortOps("flushTx", TxPorts[l]) \in Seq(OwnOps(l))
  <2>1. \A i \in 1..Len(TxPorts[l]) : <<"flushTx", TxPorts[l][i]>> \in OwnOps(l)
    BY <1>2 DEF OwnOps
  <2>2. Len(TxPorts[l]) \in Nat
    BY <1>1
  <2> QED
    BY <2>1, <2>2 DEF PortOps
<1>5. TxOps(TxPorts[l]) \in Seq(OwnOps(l))
  <2> DEFINE m == Len(TxPorts[l])
  <2>1. m \in Nat
    BY <1>1
  <2>2. NumWorkers * m \in Nat
    BY <1>1, <2>1
  <2>3. ASSUME NEW k \in 1..(NumWorkers * m)
        PROVE  <<"tx", (k - 1) \div m, TxPorts[l][((k - 1) % m) + 1]>> \in OwnOps(l)
    <3>1. m > 0
      <4>1. m = 0 => NumWorkers * m = 0
        BY <1>1
      <4>2. m # 0
        BY <4>1
      <4> QED
        BY <2>1, <4>2
    <3>2. k - 1 \in 0..(NumWorkers * m - 1)
      BY <2>2
    <3> HIDE DEF m
    <3>3. (k - 1) \div m \in Workers /\ ((k - 1) % m) + 1 \in 1..m
      BY <1>1, <2>1, <3>1, <3>2, Rest DEF Workers
    <3> DEFINE i == ((k - 1) % m) + 1
               w == (k - 1) \div m
    <3>4. TxPorts[l][i] \in Sends(l)
      BY <1>2, <3>3 DEF m
    <3> HIDE DEF i
    <3>5. w \in Workers
      BY <3>3
    <3> HIDE DEF w
    <3>6. <<"tx", w, TxPorts[l][i]>> \in OwnOps(l)
      BY <3>4, <3>5 DEF OwnOps
    <3> QED
      BY <3>6 DEF i, w
  <2>4. TxOps(TxPorts[l])
          = [k \in 1..(NumWorkers * m) |->
               <<"tx", (k - 1) \div m, TxPorts[l][((k - 1) % m) + 1]>>]
    BY DEF TxOps
  <2> HIDE DEF m
  <2> QED
    BY <2>2, <2>3, <2>4
<1>6. [k \in 1..NumWorkers |-> <<"flushRx", k - 1>>] \in Seq(OwnOps(l)) /\ <<>> \in Seq(OwnOps(l))
  BY <1>1 DEF OwnOps, Workers
<1>7. (IF RxPorts[l] # <<>> THEN [k \in 1..NumWorkers |-> <<"flushRx", k - 1>>] ELSE <<>>)
        \in Seq(OwnOps(l))
  BY <1>6
<1>8. IoFlushOps(l) \in Seq(OwnOps(l))
  BY <1>4, <1>7, ConcatProperties DEF IoFlushOps
<1>9. IoOps(l) \in Seq(OwnOps(l))
  BY <1>3, <1>5, ConcatProperties DEF IoOps
<1> QED
  BY <1>8, <1>9

-----------------------------------------------------------------------------
\* An lcore's list that changes stays a list of its own operations.
LEMMA ListOwned ==
  ASSUME Owned, NEW t \in Lcores, NEW s, todo' = [todo EXCEPT ![t] = s],
         t \in Ios => s \in Seq(OwnOps(t))
  PROVE  Owned' /\ todo'[t] = s /\ \A m \in Lcores \ {t} : todo'[m] = todo[m]
<1>1. DOMAIN todo = Lcores /\ Ios \subseteq Lcores
  BY DEF Owned, Lcores
<1>2. todo'[t] = s /\ \A m \in Lcores \ {t} : todo'[m] = todo[m]
  BY <1>1
<1>3. DOMAIN todo' = Lcores
  BY <1>1
<1>4. ASSUME NEW l \in Ios
      PROVE  todo'[l] \in Seq(OwnOps(l))
  BY <1>1, <1>2 DEF Owned
<1> QED
  BY <1>2, <1>3, <1>4 DEF Owned

\* An operation that is done disturbs no lcore that is about to send, unless
\* it is the sending.
LEMMA DoesKeeps ==
  ASSUME Owned, NEW t \in Lcores, NEW input, NEW op, Does(t, input, op)
  PROVE  /\ Owned'
         /\ \A m \in Ios, p \in Ports : Sending(m, p) /\ op # <<"send", p>> => todo'[m] = todo[m]
<1>1. /\ todo[t] # <<>> /\ Head(todo[t]) = op
      /\ todo' = [todo EXCEPT ![t] = Tail(todo[t])]
  BY DEF Does
<1>2. t \in Ios => Tail(todo[t]) \in Seq(OwnOps(t))
  BY <1>1, FirstOp
<1>3. Owned' /\ \A m \in Lcores \ {t} : todo'[m] = todo[m]
  BY <1>1, <1>2, ListOwned
<1>4. ASSUME NEW m \in Ios, NEW p \in Ports, Sending(m, p), op # <<"send", p>>
      PROVE  todo'[m] = todo[m]
  <2>1. m # t /\ m \in Lcores
    BY <1>1, <1>4 DEF Sending, Lcores
  <2> QED
    BY <1>3, <2>1
<1> QED
  BY <1>3, <1>4

\* A port's array that is emptied, or left alone with who is to send it.
LEMMA TxShortKept ==
  ASSUME TxShort,
         \A p \in Ports :
           \/ buf'[TxOut(p)] = <<>>
           \/ /\ buf'[TxOut(p)] = buf[TxOut(p)]
              /\ \A m \in Ios : Sending(m, p) => todo'[m] = todo[m]
  PROVE  TxShort'
<1> SUFFICES ASSUME NEW p \in Ports
             PROVE  /\ Whole(Len(buf'[TxOut(p)]))
                    /\ \/ Len(buf'[TxOut(p)]) < TxWrite
                       \/ /\ \E l \in Ios : Sending(l, p)'
                          /\ Len(buf'[TxOut(p)]) < TxRead + TxWrite
  BY DEF TxShort, Whole
<1>1. CASE buf'[TxOut(p)] = <<>>
  <2>1. Len(<<>>) = 0 /\ 0 < TxWrite /\ Whole(0)
    BY WholeBursts, BurstsAssumption DEF Bursts
  <2> QED
    BY <1>1, <2>1
<1>2. CASE /\ buf'[TxOut(p)] = buf[TxOut(p)]
           /\ \A m \in Ios : Sending(m, p) => todo'[m] = todo[m]
  BY <1>2 DEF TxShort, Sending
<1> QED
  BY <1>1, <1>2

\* Inputs and the arrays of ports are left alone, and so are the lcores that
\* are about to send.
LEMMA Aside ==
  ASSUME TxShort, InputsFit, \A c \in Inputs \cup TxArrays : buf'[c] = buf[c],
         \A m \in Ios, p \in Ports : Sending(m, p) => todo'[m] = todo[m]
  PROVE  TxShort' /\ InputsFit'
<1>1. \A p \in Ports : TxOut(p) \in TxArrays
  BY DEF TxArrays
<1>2. TxShort'
  BY <1>1, TxShortKept
<1>3. InputsFit'
  BY DEF InputsFit, Inputs
<1> QED
  BY <1>2, <1>3

\* One input gets shorter, or gets what it may hold; the others are left alone.
LEMMA OneInput ==
  ASSUME InputsFit, NEW c \in Inputs,
         \A d \in Inputs \ {c} : buf'[d] = buf[d],
         \/ Len(buf'[c]) <= Len(buf[c]) /\ Len(buf'[c]) \in Nat /\ Len(buf[c]) \in Nat
         \/ \E l \in Ios : c = In(l) /\ Len(buf'[c]) <= RxRead
         \/ \E w \in Workers : c = WIn(w) /\ Len(buf'[c]) <= WorkerRead
  PROVE  InputsFit'
<1>1. RxRead \in Nat /\ WorkerRead \in Nat
  BY BurstsAssumption DEF Bursts
<1>2. /\ \A l \in Ios : In(l) \in Inputs /\ In(l)[1] = "in"
      /\ \A w \in Workers : WIn(w) \in Inputs /\ WIn(w)[1] = "win"
  BY DEF Inputs, In, WIn
<1>3. ASSUME NEW l \in Ios
      PROVE  Len(buf'[In(l)]) <= RxRead
  <2>1. CASE In(l) # c
    BY <1>2, <2>1 DEF InputsFit
  <2>2. CASE In(l) = c
    <3>1. Len(buf[c]) <= RxRead
      BY <2>2 DEF InputsFit
    <3>2. \A w \in Workers : c # WIn(w)
      BY <1>2, <2>2
    <3> QED
      BY <1>1, <2>2, <3>1, <3>2
  <2> QED
    BY <2>1, <2>2
<1>4. ASSUME NEW w \in Workers
      PROVE  Len(buf'[WIn(w)]) <= WorkerRead
  <2>1. CASE WIn(w) # c
    BY <1>2, <2>1 DEF InputsFit
  <2>2. CASE WIn(w) = c
    <3>1. Len(buf[c]) <= WorkerRead
      BY <2>2 DEF InputsFit
    <3>2. \A l \in Ios : c # In(l)
      BY <1>2, <2>2
    <3> QED
      BY <1>1, <2>2, <3>1, <3>2
  <2> QED
    BY <2>1, <2>2
<1> QED
  BY <1>3, <1>4 DEF InputsFit

-----------------------------------------------------------------------------
\* What the command line has to provide: one lcore transmits on a port.
OneSender == \A l, m \in Ios : Sends(l) \cap Sends(m) # {} => l = m

\* Nothing is anywhere, and nobody has anything to do, at first.
LEMMA AInvInit == Init => AInv
<1> SUFFICES ASSUME Init
             PROVE  AInv
  OBVIOUS
<1>1. PInv
  BY PInvInit
<1>2. Len(<<>>) = 0 /\ 0 < TxWrite /\ 0 <= RxRead /\ 0 <= WorkerRead
  BY BurstsAssumption DEF Bursts
<1>3. \A c \in Places : buf[c] = <<>>
  BY DEF Init
<1>4. TxShort
  <2>1. \A p \in Ports : TxOut(p) \in Places
    BY KindsArePlaces DEF TxArrays
  <2> QED
    BY <1>2, <1>3, <2>1, WholeBursts DEF TxShort
<1>5. InputsFit
  <2>1. /\ \A l \in Ios : In(l) \in Places
        /\ \A w \in Workers : WIn(w) \in Places
    BY KindsArePlaces DEF Inputs
  <2> QED
    BY <1>2, <1>3, <2>1 DEF InputsFit
<1>6. Owned
  BY DEF Init, Owned, Lcores
<1> QED
  BY <1>1, <1>4, <1>5, <1>6 DEF AInv

\* One step of an I/O lcore.
LEMMA IoArrays ==
  ASSUME AInv, OneSender, NEW l \in Ios, IoLcore(l)
  PROVE  Owned' /\ TxShort' /\ InputsFit'
<1>1. /\ Owned /\ TxShort /\ InputsFit /\ buf \in Full /\ OneEach(buf, Len(pkts))
      /\ Len(pkts) \in Nat /\ Short
  BY DEF AInv, PInv, Typed, Conserved
<1>2. /\ l \in Lcores /\ In(l) \in Inputs /\ In(l) \in Places
      /\ \A w \in Workers : RxOut(l, w) \in RxArrays /\ RxRing(l, w) \in Rings
      /\ \A p \in Ports : TxOut(p) \in TxArrays
      /\ \A c \in Inputs \cup TxArrays : c \in Places /\ c \in Arrays \cup Inputs
      /\ \A c \in TxArrays : c \notin Inputs /\ c \notin RxArrays
      /\ \A c \in Inputs : c \notin RxArrays
  BY Kinds, KindsArePlaces DEF Lcores, Inputs, RxArrays, RxRings, Rings, TxArrays, Arrays
<1>3. CASE IoTurn(l)
  <2>1. /\ todo[l] = <<>> /\ buf' = buf
        /\ todo' = [todo EXCEPT ![l] = IF turn[l] = IoFlush THEN IoFlushOps(l) \o IoOps(l)
                                                            ELSE IoOps(l)]
    BY <1>3 DEF IoTurn, NewTurn
  <2>2. (IF turn[l] = IoFlush THEN IoFlushOps(l) \o IoOps(l) ELSE IoOps(l)) \in Seq(OwnOps(l))
    BY TurnOwned, ConcatProperties
  <2>3. Owned' /\ \A m \in Lcores \ {l} : todo'[m] = todo[m]
    BY <1>1, <1>2, <2>1, <2>2, ListOwned
  <2>4. \A m \in Ios, p \in Ports : Sending(m, p) => todo'[m] = todo[m]
    BY <2>1, <2>3 DEF Sending, Lcores
  <2> QED
    BY <1>1, <2>1, <2>3, <2>4, Aside
<1>4. CASE RxReadBurst(l)
  <2>1. PICK q \in Ports : Does(l, In(l), <<"rx", q>>)
    BY <1>4 DEF RxReadBurst
  <2>2. PICK k \in 0..RxRead : buf' = [buf EXCEPT ![In(l)] = [i \in 1..k |-> Len(pkts) + i]]
    BY <1>4 DEF RxReadBurst
  <2>3. \A p \in Ports : <<"rx", q>> # <<"send", p>>
    OBVIOUS
  <2>4. Owned' /\ \A m \in Ios, p \in Ports : Sending(m, p) => todo'[m] = todo[m]
    BY <1>1, <1>2, <2>1, <2>3, DoesKeeps
  <2>5. \A c \in Places \ {In(l)} : buf'[c] = buf[c]
    BY <1>1, <2>2 DEF Full
  <2>6. Len(buf'[In(l)]) <= RxRead
    <3>1. RxRead \in Nat
      BY BurstsAssumption DEF Bursts
    <3>2. buf'[In(l)] = [i \in 1..k |-> Len(pkts) + i] /\ k \in Nat /\ k <= RxRead
      BY <1>1, <1>2, <2>2, <3>1 DEF Full
    <3>3. Len([i \in 1..k |-> Len(pkts) + i]) = k
      BY <3>2
    <3> QED
      BY <3>2, <3>3
  <2>7. TxShort'
    BY <1>1, <1>2, <2>4, <2>5, TxShortKept
  <2>8. InputsFit'
    BY <1>1, <1>2, <2>5, <2>6, OneInput
  <2> QED
    BY <2>4, <2>7, <2>8
<1>5. CASE HandOut(l)
  <2> DEFINE x == Head(buf[In(l)])
             w == WorkerOf(x)
  <2>1. buf[In(l)] # <<>> /\ todo' = todo
        /\ Buffer(In(l), RxOut(l, w), RxRing(l, w), RxRingRoom, RxWrite)
    BY <1>5 DEF HandOut
  <2>2. x \in 1..Len(pkts)
    <3>1. buf[In(l)] \in Seq(Nat)
      BY <1>1, <1>2 DEF Full
    <3>2. 1 \in 1..Len(buf[In(l)]) /\ x = buf[In(l)][1]
      BY <2>1, <3>1, EmptySeq
    <3>3. \A c \in Places : \A i \in 1..Len(buf[c]) : buf[c][i] \in 1..Len(pkts)
      BY <1>1 DEF OneEach
    <3> QED
      BY <1>2, <3>2, <3>3
  <2> HIDE DEF x
  <2>3. w \in Workers
    BY <2>2, WorkerThere DEF AInv, PInv
  <2> HIDE DEF w
  <2>4. RxWrite \in Nat \ {0} /\ Len(buf[RxOut(l, w)]) < RxWrite
    BY <1>1, <1>2, <2>3, BurstsAssumption DEF Bursts, Short
  <2>5. /\ buf' \in Full /\ Len(buf'[In(l)]) < Len(buf[In(l)])
        /\ \A c \in (Arrays \cup Inputs) \ {RxOut(l, w), In(l)} : buf'[c] = buf[c]
    BY <1>1, <1>2, <2>1, <2>3, <2>4, BufferKeeps
  <2>6. Len(buf'[In(l)]) \in Nat /\ Len(buf[In(l)]) \in Nat
    BY <1>1, <1>2, <2>5 DEF Full
  <2>7. Len(buf'[In(l)]) <= Len(buf[In(l)])
    BY <2>5, <2>6
  <2>8. InputsFit'
    BY <1>1, <1>2, <2>3, <2>5, <2>6, <2>7, OneInput
  <2>9. \A p \in Ports : buf'[TxOut(p)] = buf[TxOut(p)]
    BY <1>2, <2>3, <2>5
  <2>10. TxShort'
    BY <1>1, <2>1, <2>9, TxShortKept
  <2>11. Owned'
    BY <1>1, <2>1 DEF Owned
  <2> QED
    BY <2>8, <2>10, <2>11
<1>6. CASE RxFlush(l)
  <2>1. PICK w \in Workers : /\ Does(l, In(l), <<"flushRx", w>>)
                             /\ FlushArray(RxOut(l, w), RxRing(l, w), RxRingRoom)
    BY <1>6 DEF RxFlush
  <2>2. \A p \in Ports : <<"flushRx", w>> # <<"send", p>>
    OBVIOUS
  <2>3. Owned' /\ \A m \in Ios, p \in Ports : Sending(m, p) => todo'[m] = todo[m]
    BY <1>1, <1>2, <2>1, <2>2, DoesKeeps
  <2>4. \A c \in (Arrays \cup Inputs) \ {RxOut(l, w)} : buf'[c] = buf[c]
    BY <1>1, <1>2, <2>1, FlushKeeps
  <2>5. \A c \in Inputs \cup TxArrays : buf'[c] = buf[c]
    BY <1>2, <2>4
  <2> QED
    BY <1>1, <2>3, <2>5, Aside
<1>7. CASE TakeForPort(l)
  <2>1. PICK w \in Workers, p \in Ports :
          LET took == Len(buf[TxRing(w, p)]) >= TxRead
              f    == IF took THEN Moved(buf, TxRing(w, p), TxOut(p), TxRead) ELSE buf
          IN  /\ todo[l] # <<>> /\ Head(todo[l]) = <<"tx", w, p>>
              /\ buf' = f
              /\ todo' = [todo EXCEPT ![l] =
                            IF took /\ Enough(f, p) THEN <<<<"send", p>>>> \o Tail(@) ELSE Tail(@)]
    BY <1>7 DEF TakeForPort
  <2> DEFINE took == Len(buf[TxRing(w, p)]) >= TxRead
             rest == IF took /\ Len(buf'[TxOut(p)]) >= TxWrite
                       THEN <<<<"send", p>>>> \o Tail(todo[l]) ELSE Tail(todo[l])
  <2>2. /\ todo[l] # <<>> /\ Head(todo[l]) = <<"tx", w, p>>
        /\ took => buf' = Moved(buf, TxRing(w, p), TxOut(p), TxRead)
        /\ ~took => buf' = buf
        /\ todo' = [todo EXCEPT ![l] = rest]
    BY <2>1 DEF Enough
  <2>3. p \in Sends(l) /\ Tail(todo[l]) \in Seq(OwnOps(l))
    <3>1. <<"tx", w, p>> \in OwnOps(l) /\ Tail(todo[l]) \in Seq(OwnOps(l))
      BY <1>1, <2>2, FirstOp
    <3> QED
      BY <3>1, OpsOfPort
  <2>4. rest \in Seq(OwnOps(l))
    <3>1. <<"send", p>> \in OwnOps(l)
      BY <2>3 DEF OwnOps
    <3>2. <<<<"send", p>>>> \in Seq(OwnOps(l))
      BY <3>1
    <3>3. <<<<"send", p>>>> \o Tail(todo[l]) \in Seq(OwnOps(l))
      BY <2>3, <3>2, ConcatProperties
    <3> QED
      BY <2>3, <3>3
  <2>5. took /\ Len(buf'[TxOut(p)]) >= TxWrite
          => rest # <<>> /\ Head(rest) = <<"send", p>>
    <3> DEFINE t == Tail(todo[l])
               o == <<"send", p>>
    <3>1. \A s \in Seq(OwnOps(l)) : <<o>> \o s # <<>> /\ Head(<<o>> \o s) = o
      OBVIOUS
    <3> QED
      BY <2>3, <3>1
  <2> HIDE DEF rest
  <2>6. Owned' /\ todo'[l] = rest /\ \A m \in Lcores \ {l} : todo'[m] = todo[m]
    BY <1>1, <1>2, <2>2, <2>4, ListOwned
  <2>7. \A m \in Ios, q \in Ports : Sending(m, q) => m # l /\ q # p /\ todo'[m] = todo[m]
    <3> SUFFICES ASSUME NEW m \in Ios, NEW q \in Ports, Sending(m, q)
                 PROVE  m # l /\ q # p /\ todo'[m] = todo[m]
      OBVIOUS
    <3>1. todo[m] # <<>> /\ Head(todo[m]) = <<"send", q>>
      BY DEF Sending
    <3>2. m # l
      BY <2>2, <3>1
    <3>3. q \in Sends(m)
      BY <1>1, <3>1, FirstOp, OpsOfPort
    <3>4. q # p
      BY <2>3, <3>2, <3>3 DEF OneSender
    <3> QED
      BY <2>6, <3>2, <3>4 DEF Lcores
  <2>8. /\ TxRing(w, p) \in Places /\ TxOut(p) \in Places /\ TxRing(w, p) # TxOut(p)
        /\ \A c \in Inputs : c # TxRing(w, p) /\ c # TxOut(p)
        /\ \A q \in Ports \ {p} : TxOut(q) # TxRing(w, p) /\ TxOut(q) # TxOut(p)
    <3>1. TxRing(w, p) \in TxRings /\ \A q \in Ports \ {p} : TxOut(q) # TxOut(p)
      BY DEF TxRings, TxOut
    <3> QED
      BY <1>2, <3>1, Kinds, KindsArePlaces
  <2>9. TxRead \in Nat /\ TxWrite \in Nat
        /\ Len(buf[TxRing(w, p)]) \in Nat /\ Len(buf[TxOut(p)]) \in Nat
    BY <1>1, <2>8, BurstsAssumption DEF Bursts, Full
  <2>10. /\ \A c \in Places \ {TxRing(w, p), TxOut(p)} : buf'[c] = buf[c]
         /\ took => Len(buf'[TxOut(p)]) = Len(buf[TxOut(p)]) + TxRead
         /\ ~took => buf'[TxOut(p)] = buf[TxOut(p)]
    <3>1. CASE took
      <4>1. TxRead <= Len(buf[TxRing(w, p)])
        BY <2>9, <3>1
      <4> QED
        BY <1>1, <2>2, <2>8, <2>9, <3>1, <4>1, MovedKeeps
    <3>2. CASE ~took
      BY <2>2, <3>2
    <3> QED
      BY <3>1, <3>2
  <2> HIDE DEF took
  <2>11. InputsFit'
    <3>1. \A c \in Inputs : buf'[c] = buf[c]
      BY <1>2, <2>8, <2>10
    <3> QED
      BY <1>1, <1>2, <3>1 DEF InputsFit, Inputs
  <2>12. TxShort'
    <3> SUFFICES ASSUME NEW q \in Ports
                 PROVE  /\ Whole(Len(buf'[TxOut(q)]))
                        /\ \/ Len(buf'[TxOut(q)]) < TxWrite
                           \/ /\ \E m \in Ios : Sending(m, q)'
                              /\ Len(buf'[TxOut(q)]) < TxRead + TxWrite
      BY DEF TxShort, Whole
    <3>1. CASE q # p
      <4>1. buf'[TxOut(q)] = buf[TxOut(q)]
        BY <1>2, <2>8, <2>10, <3>1
      <4> QED
        BY <1>1, <2>7, <4>1 DEF TxShort, Sending
    <3>2. CASE q = p
      <4>1. Len(buf[TxOut(p)]) < TxWrite /\ Whole(Len(buf[TxOut(p)]))
        BY <1>1, <2>7 DEF TxShort
      <4>2. CASE ~took
        BY <2>10, <3>2, <4>1, <4>2
      <4>3. CASE took
        <5>1. Len(buf'[TxOut(p)]) < TxRead + TxWrite /\ Len(buf'[TxOut(p)]) \in Nat
          BY <2>9, <2>10, <4>1, <4>3
        <5>4. Whole(Len(buf'[TxOut(p)]))
          BY <2>9, <2>10, <4>1, <4>3, WholeBursts
        <5>2. CASE Len(buf'[TxOut(p)]) < TxWrite
          BY <3>2, <5>4, <5>2
        <5>3. CASE ~(Len(buf'[TxOut(p)]) < TxWrite)
          <6>1. Len(buf'[TxOut(p)]) >= TxWrite
            BY <2>9, <5>1, <5>3
          <6>2. Sending(l, p)'
            BY <2>5, <2>6, <4>3, <6>1 DEF Sending
          <6> QED
            BY <3>2, <5>1, <5>4, <6>2
        <5> QED
          BY <5>2, <5>3
      <4> QED
        BY <4>2, <4>3
    <3> QED
      BY <3>1, <3>2
  <2> QED
    BY <2>6, <2>11, <2>12
<1>8. CASE TxSend(l)
  <2>1. PICK p \in Ports : /\ Does(l, In(l), <<"send", p>>)
                           /\ \E s \in 0..Len(buf[TxOut(p)]) : buf' = Transmitted(buf, p, s)
    BY <1>8 DEF TxSend
  <2>2. Owned' /\ \A m \in Ios, q \in Ports : Sending(m, q) /\ q # p => todo'[m] = todo[m]
    BY <1>1, <1>2, <2>1, DoesKeeps
  <2>3. buf'[TxOut(p)] = <<>> /\ \A c \in (Arrays \cup Inputs) \ {TxOut(p)} : buf'[c] = buf[c]
    BY <1>1, <2>1, TransmitKeeps
  <2>4. \A q \in Ports \ {p} : TxOut(q) \in Arrays \ {TxOut(p)}
    BY DEF TxOut, TxArrays, Arrays
  <2>5. TxShort'
    BY <1>1, <2>2, <2>3, <2>4, TxShortKept
  <2>6. InputsFit'
    <3>1. \A c \in Inputs : buf'[c] = buf[c]
      BY <1>2, <2>3
    <3> QED
      BY <1>1, <1>2, <3>1 DEF InputsFit, Inputs
  <2> QED
    BY <2>2, <2>5, <2>6
<1>9. CASE TxFlush(l)
  <2>1. PICK p \in Ports : /\ Does(l, In(l), <<"flushTx", p>>)
                           /\ \/ \E s \in 0..Len(buf[TxOut(p)]) : buf' = Transmitted(buf, p, s)
                              \/ buf' = buf
    BY <1>9 DEF TxFlush
  <2>2. \A q \in Ports : <<"flushTx", p>> # <<"send", q>>
    OBVIOUS
  <2>3. Owned' /\ \A m \in Ios, q \in Ports : Sending(m, q) => todo'[m] = todo[m]
    BY <1>1, <1>2, <2>1, <2>2, DoesKeeps
  <2>4. CASE buf' = buf
    BY <1>1, <2>3, <2>4, Aside
  <2>5. CASE \E s \in 0..Len(buf[TxOut(p)]) : buf' = Transmitted(buf, p, s)
    <3>1. buf'[TxOut(p)] = <<>> /\ \A c \in (Arrays \cup Inputs) \ {TxOut(p)} : buf'[c] = buf[c]
      BY <1>1, <2>5, TransmitKeeps
    <3>2. \A q \in Ports \ {p} : TxOut(q) \in Arrays \ {TxOut(p)}
      BY DEF TxOut, TxArrays, Arrays
    <3>3. TxShort'
      BY <1>1, <2>3, <3>1, <3>2, TxShortKept
    <3>4. \A c \in Inputs : buf'[c] = buf[c]
      BY <1>2, <3>1
    <3> QED
      BY <1>1, <1>2, <2>3, <3>3, <3>4 DEF InputsFit, Inputs
  <2> QED
    BY <2>1, <2>4, <2>5
<1> QED
  BY <1>3, <1>4, <1>5, <1>6, <1>7, <1>8, <1>9 DEF IoLcore

\* One step of a worker.
LEMMA WorkerArrays ==
  ASSUME AInv, NEW w \in Workers, Worker(w)
  PROVE  Owned' /\ TxShort' /\ InputsFit'
<1>1. /\ Owned /\ TxShort /\ InputsFit /\ buf \in Full /\ OneEach(buf, Len(pkts))
      /\ Len(pkts) \in Nat /\ Short
  BY DEF AInv, PInv, Typed, Conserved
<1>2. /\ w \in Lcores /\ w \notin Ios /\ WIn(w) \in Inputs /\ WIn(w) \in Places
      /\ \A p \in Ports : WOut(w, p) \in WArrays /\ TxRing(w, p) \in Rings
      /\ \A p \in Ports : TxOut(p) \in TxArrays
      /\ \A c \in Inputs \cup TxArrays : c \in Places /\ c \in Arrays \cup Inputs
      /\ \A c \in TxArrays : c \notin Inputs /\ c \notin WArrays
      /\ \A c \in Inputs : c \notin WArrays /\ c # Freed
      /\ \A c \in TxArrays : c # Freed
  <2>1. w \notin Ios /\ WIn(w) \in Inputs
        /\ \A p \in Ports : WOut(w, p) \in WArrays /\ TxRing(w, p) \in TxRings
                          /\ TxOut(p) \in TxArrays
    BY LcoresAssumption DEF Inputs, WArrays, TxRings, TxArrays
  <2> QED
    BY <2>1, Kinds, KindsArePlaces DEF Lcores, Rings, Arrays
<1>3. CASE WorkerTurn(w)
  <2>1. /\ buf' = buf
        /\ todo' = [todo EXCEPT ![w] = IF turn[w] = WorkerFlush THEN WorkerFlushOps \o WorkerOps
                                                               ELSE WorkerOps]
    BY <1>3 DEF WorkerTurn, NewTurn
  <2> DEFINE s == IF turn[w] = WorkerFlush THEN WorkerFlushOps \o WorkerOps ELSE WorkerOps
  <2>2. todo' = [todo EXCEPT ![w] = s]
    BY <2>1
  <2> HIDE DEF s
  <2>3. Owned' /\ \A m \in Lcores \ {w} : todo'[m] = todo[m]
    BY <1>1, <1>2, <2>2, ListOwned
  <2>4. \A m \in Ios, p \in Ports : Sending(m, p) => todo'[m] = todo[m]
    BY <1>2, <2>3 DEF Lcores
  <2> QED
    BY <1>1, <2>1, <2>3, <2>4, Aside
<1>4. CASE TakeBurst(w)
  <2>1. PICK l \in Ios :
          /\ Does(w, WIn(w), <<"work", l>>)
          /\ buf' = IF Len(buf[RxRing(l, w)]) >= WorkerRead
                      THEN Moved(buf, RxRing(l, w), WIn(w), WorkerRead) ELSE buf
    BY <1>4 DEF TakeBurst
  <2>2. \A p \in Ports : <<"work", l>> # <<"send", p>>
    OBVIOUS
  <2>3. Owned' /\ \A m \in Ios, p \in Ports : Sending(m, p) => todo'[m] = todo[m]
    BY <1>1, <1>2, <2>1, <2>2, DoesKeeps
  <2>4. buf[WIn(w)] = <<>>
    BY <2>1 DEF Does
  <2>5. /\ RxRing(l, w) \in Places /\ RxRing(l, w) # WIn(w)
        /\ \A c \in Inputs \cup TxArrays : c # RxRing(l, w)
        /\ \A c \in TxArrays : c # WIn(w)
    <3>1. RxRing(l, w) \in RxRings
      BY DEF RxRings
    <3> QED
      BY <1>2, <3>1, Kinds, KindsArePlaces
  <2>6. WorkerRead \in Nat /\ Len(buf[RxRing(l, w)]) \in Nat
    BY <1>1, <2>5, BurstsAssumption DEF Bursts, Full
  <2>7. CASE Len(buf[RxRing(l, w)]) >= WorkerRead
    <3>1. WorkerRead <= Len(buf[RxRing(l, w)]) /\ buf' = Moved(buf, RxRing(l, w), WIn(w), WorkerRead)
      BY <2>1, <2>6, <2>7
    <3>2. /\ Len(buf'[WIn(w)]) = Len(buf[WIn(w)]) + WorkerRead
          /\ \A c \in Places \ {RxRing(l, w), WIn(w)} : buf'[c] = buf[c]
      BY <1>1, <1>2, <2>5, <2>6, <3>1, MovedKeeps
    <3>3. Len(buf'[WIn(w)]) <= WorkerRead
      <4>1. Len(buf[WIn(w)]) = 0
        BY <2>4
      <4> QED
        BY <2>6, <3>2, <4>1
    <3>4. \A d \in Inputs \ {WIn(w)} : buf'[d] = buf[d]
      BY <1>2, <2>5, <3>2
    <3>5. InputsFit'
      BY <1>1, <1>2, <3>3, <3>4, OneInput
    <3>6. \A p \in Ports : buf'[TxOut(p)] = buf[TxOut(p)]
      BY <1>2, <2>5, <3>2
    <3>7. TxShort'
      BY <1>1, <2>3, <3>6, TxShortKept
    <3> QED
      BY <2>3, <3>5, <3>7
  <2>8. CASE ~(Len(buf[RxRing(l, w)]) >= WorkerRead)
    <3>1. buf' = buf
      BY <2>1, <2>8
    <3> QED
      BY <1>1, <2>3, <3>1, Aside
  <2> QED
    BY <2>7, <2>8
<1>5. CASE Refuse(w)
  <2>1. buf[WIn(w)] # <<>> /\ buf' = Moved(buf, WIn(w), Freed, 1) /\ todo' = todo
    BY <1>5 DEF Refuse
  <2>2. buf[WIn(w)] \in Seq(Nat) /\ Len(buf[WIn(w)]) \in Nat /\ 1 <= Len(buf[WIn(w)])
    <3>1. buf[WIn(w)] \in Seq(Nat)
      BY <1>1, <1>2 DEF Full
    <3> QED
      BY <2>1, <3>1, EmptySeq
  <2>3. 1 \in Nat
    OBVIOUS
  <2>4. /\ Len(buf'[WIn(w)]) = Len(buf[WIn(w)]) - 1
        /\ \A c \in Places \ {WIn(w), Freed} : buf'[c] = buf[c]
    BY <1>1, <1>2, <2>1, <2>2, <2>3, KindsArePlaces, MovedKeeps
  <2>5. /\ Len(buf'[WIn(w)]) \in Nat /\ Len(buf'[WIn(w)]) <= Len(buf[WIn(w)])
        /\ \A d \in Inputs \ {WIn(w)} : buf'[d] = buf[d]
    BY <1>2, <2>2, <2>4
  <2>6. InputsFit'
    BY <1>1, <1>2, <2>2, <2>5, OneInput
  <2>7. \A p \in Ports : buf'[TxOut(p)] = buf[TxOut(p)]
    BY <1>2, <2>4
  <2>8. TxShort'
    BY <1>1, <2>1, <2>7, TxShortKept
  <2>9. Owned'
    BY <1>1, <2>1 DEF Owned
  <2> QED
    BY <2>6, <2>8, <2>9
<1>6. CASE Answer(w)
  <2>1. PICK p \in PortsOut :
          Buffer(WIn(w), WOut(w, p), TxRing(w, p), TxRingRoom, WorkerWrite)
    BY <1>6 DEF Answer
  <2>2. buf[WIn(w)] # <<>> /\ todo' = todo /\ p \in Ports
    BY <1>6 DEF Answer, PortsOut
  <2>3. WorkerWrite \in Nat \ {0} /\ Len(buf[WOut(w, p)]) < WorkerWrite
    BY <1>1, <1>2, <2>2, BurstsAssumption DEF Bursts, Short
  <2>4. /\ buf' \in Full /\ Len(buf'[WIn(w)]) < Len(buf[WIn(w)])
        /\ \A c \in (Arrays \cup Inputs) \ {WOut(w, p), WIn(w)} : buf'[c] = buf[c]
    BY <1>1, <1>2, <2>1, <2>2, <2>3, BufferKeeps
  <2>5. Len(buf'[WIn(w)]) \in Nat /\ Len(buf[WIn(w)]) \in Nat
    BY <1>1, <1>2, <2>4 DEF Full
  <2>6. Len(buf'[WIn(w)]) <= Len(buf[WIn(w)])
    BY <2>4, <2>5
  <2>7. InputsFit'
    BY <1>1, <1>2, <2>2, <2>4, <2>5, <2>6, OneInput
  <2>8. \A q \in Ports : buf'[TxOut(q)] = buf[TxOut(q)]
    BY <1>2, <2>2, <2>4
  <2>9. TxShort'
    BY <1>1, <2>2, <2>8, TxShortKept
  <2>10. Owned'
    BY <1>1, <2>2 DEF Owned
  <2> QED
    BY <2>7, <2>9, <2>10
<1>7. CASE OutFlush(w)
  <2>1. PICK p \in Ports : /\ Does(w, WIn(w), <<"flushOut", p>>)
                           /\ \/ FlushArray(WOut(w, p), TxRing(w, p), TxRingRoom)
                              \/ buf' = buf
    BY <1>7 DEF OutFlush
  <2>2. \A q \in Ports : <<"flushOut", p>> # <<"send", q>>
    OBVIOUS
  <2>3. Owned' /\ \A m \in Ios, q \in Ports : Sending(m, q) => todo'[m] = todo[m]
    BY <1>1, <1>2, <2>1, <2>2, DoesKeeps
  <2>4. CASE buf' = buf
    BY <1>1, <2>3, <2>4, Aside
  <2>5. CASE FlushArray(WOut(w, p), TxRing(w, p), TxRingRoom)
    <3>1. \A c \in (Arrays \cup Inputs) \ {WOut(w, p)} : buf'[c] = buf[c]
      BY <1>1, <1>2, <2>5, FlushKeeps
    <3>2. \A c \in Inputs \cup TxArrays : buf'[c] = buf[c]
      BY <1>2, <3>1
    <3> QED
      BY <1>1, <2>3, <3>2, Aside
  <2> QED
    BY <2>1, <2>4, <2>5
<1> QED
  BY <1>3, <1>4, <1>5, <1>6, <1>7 DEF Worker

\* AInv is inductive.
LEMMA AInvStep ==
  ASSUME OneSender, AInv, [Next]_vars
  PROVE  AInv'
<1>1. PInv'
  BY PInvStep DEF AInv
<1>2. Owned' /\ TxShort' /\ InputsFit'
  <2>1. CASE Next
    BY <2>1, IoArrays, WorkerArrays DEF Next
  <2>2. CASE UNCHANGED vars
    <3>1. buf' = buf /\ todo' = todo
      BY <2>2 DEF vars
    <3> QED
      BY <3>1 DEF AInv, Owned, TxShort, Whole, InputsFit, Sending
  <2> QED
    BY <2>1, <2>2
<1> QED
  BY <1>1, <1>2 DEF AInv

\* AInv bounds every array.
LEMMA AInvBounds ==
  ASSUME AInv
  PROVE  ArraysBounded
<1>1. /\ ArraySize \in Nat /\ RxRead \in 1..ArraySize /\ RxWrite \in 1..ArraySize
      /\ WorkerRead \in 1..ArraySize /\ WorkerWrite \in 1..ArraySize
      /\ TxRead \in 1..ArraySize /\ TxWrite \in 1..ArraySize
  BY BurstsAssumption DEF Bursts
<1>2. \A c \in Places : Len(buf[c]) \in Nat
  BY DEF AInv, PInv, Typed, Full
<1>3. ASSUME NEW a \in RxArrays \cup WArrays
      PROVE  Len(buf[a]) < ArraySize
  <2>1. Len(buf[a]) < RxWrite \/ Len(buf[a]) < WorkerWrite
    BY <1>3 DEF AInv, PInv, Short
  <2>2. Len(buf[a]) \in Nat
    BY <1>2, <1>3, KindsArePlaces
  <2> QED
    BY <1>1, <2>1, <2>2
<1>4. ASSUME NEW p \in Ports
      PROVE  Len(buf[TxOut(p)]) <= TxMost
  <2>1. TxOut(p) \in Places
    BY KindsArePlaces DEF TxArrays
  <2>2. Len(buf[TxOut(p)]) \in Nat
    BY <1>2, <2>1
  <2>3. Len(buf[TxOut(p)]) < TxRead + TxWrite /\ Whole(Len(buf[TxOut(p)]))
    BY <1>1, <2>2 DEF AInv, TxShort
  <2> QED
    BY <2>2, <2>3, WholeBursts
<1>5. ASSUME NEW c \in Inputs
      PROVE  Len(buf[c]) <= ArraySize
  <2>1. Len(buf[c]) <= RxRead \/ Len(buf[c]) <= WorkerRead
    BY DEF AInv, InputsFit, Inputs
  <2>2. Len(buf[c]) \in Nat
    BY <1>2, KindsArePlaces
  <2> QED
    BY <1>1, <2>1, <2>2
<1> QED
  BY <1>3, <1>4, <1>5 DEF ArraysBounded, TxArrays

\* Whatever arrives, whichever rings are full and whatever bursts were accepted,
\* an array that holds bursts or takes packets one by one is not written behind
\* its end, and a port's array holds at most the read bursts that make a write
\* burst, if one lcore transmits on each port (runtime.c:97-99, 160-171, 302-316,
\* 438-443, 489-491).
THEOREM ArraysStayBounded ==
  ASSUME OneSender
  PROVE  Spec => []ArraysBounded
<1>1. AInv /\ [Next]_vars => AInv'
  BY AInvStep
<1>2. AInv => ArraysBounded
  BY AInvBounds
<1> QED
  BY <1>1, <1>2, AInvInit, PTL DEF Spec

-----------------------------------------------------------------------------
\* The limits of the loop counters, which the type of turn leaves out.
Types == /\ Typed
         /\ flush \in [Arrays -> BOOLEAN]
         /\ todo \in [Lcores -> Seq(Ops)]
         /\ turn \in [Lcores -> Nat]
         /\ \A l \in Ios : turn[l] <= IoFlush
         /\ \A w \in Workers : turn[w] <= WorkerFlush

\* What an lcore does in a turn is made of the operations there are.
LEMMA TurnsOfOps ==
  /\ \A l \in Ios : IoFlushOps(l) \in Seq(Ops) /\ IoOps(l) \in Seq(Ops)
  /\ WorkerFlushOps \in Seq(Ops) /\ WorkerOps \in Seq(Ops)
<1>1. ASSUME NEW l \in Ios
      PROVE  IoFlushOps(l) \in Seq(Ops) /\ IoOps(l) \in Seq(Ops)
  <2>1. OwnOps(l) \subseteq Ops
    BY DEF OwnOps, Ops, Sends
  <2>2. \A s \in Seq(OwnOps(l)) : s \in Seq(Ops)
    BY <2>1
  <2> QED
    BY <2>2, TurnOwned
<1>2. WorkerFlushOps \in Seq(Ops)
  <2>1. \A k \in 1..NumPorts : <<"flushOut", k - 1>> \in Ops
    BY PortsAssumption DEF Ops, Ports
  <2>2. NumPorts \in Nat
    BY PortsAssumption
  <2> QED
    BY <2>1, <2>2 DEF WorkerFlushOps
<1>3. WorkerOps \in Seq(Ops)
  <2>1. Len(RingsIn) \in Nat /\ \A k \in 1..Len(RingsIn) : RingsIn[k] \in Ios
    BY RingsInAssumption
  <2>2. \A k \in 1..Len(RingsIn) : <<"work", RingsIn[k]>> \in Ops
    BY <2>1 DEF Ops
  <2> QED
    BY <2>1, <2>2 DEF WorkerOps, PortOps
<1> QED
  BY <1>1, <1>2, <1>3

\* A step that changes neither a list nor a counter, or takes one thing off a list.
LEMMA TypesKept ==
  ASSUME Types, Typed', flush' \in [Arrays -> BOOLEAN], turn' = turn,
         \/ todo' = todo
         \/ \E t \in Lcores : todo[t] # <<>> /\ todo' = [todo EXCEPT ![t] = Tail(@)]
  PROVE  Types'
<1>1. \A t \in Lcores : todo[t] \in Seq(Ops)
  BY DEF Types
<1>2. \A t \in Lcores : todo[t] # <<>> => Tail(todo[t]) \in Seq(Ops)
  BY <1>1
<1>3. todo' \in [Lcores -> Seq(Ops)]
  BY <1>2 DEF Types
<1> QED
  BY <1>3 DEF Types

\* A new turn.
LEMMA TurnTyped ==
  ASSUME Types, NEW t \in Lcores, NEW limit \in Nat, NEW flushes \in Seq(Ops),
         NEW ops \in Seq(Ops), NewTurn(t, limit, flushes, ops),
         limit # 0, turn[t] <= limit,
         t \in Ios => limit = IoFlush, t \in Workers => limit = WorkerFlush
  PROVE  Types'
<1>1. flushes \o ops \in Seq(Ops)
  BY ConcatProperties
<1>2. todo' \in [Lcores -> Seq(Ops)]
  BY <1>1 DEF Types, NewTurn
<1>3. turn[t] \in Nat /\ turn' = [turn EXCEPT ![t] = IF turn[t] = limit THEN 1 ELSE turn[t] + 1]
  BY DEF Types, NewTurn
<1>4. turn' \in [Lcores -> Nat] /\ turn'[t] <= limit
      /\ \A m \in Lcores \ {t} : turn'[m] = turn[m]
  BY <1>3 DEF Types
<1>5. buf' = buf /\ pkts' = pkts /\ flush' = flush
  BY DEF NewTurn
<1>6. ASSUME NEW l \in Ios PROVE turn'[l] <= IoFlush
  BY <1>4 DEF Types, Lcores
<1>7. ASSUME NEW w \in Workers PROVE turn'[w] <= WorkerFlush
  BY <1>4 DEF Types, Lcores
<1> QED
  BY <1>2, <1>4, <1>5, <1>6, <1>7 DEF Types, Typed

\* One mark changes.
LEMMA MarkTyped ==
  ASSUME Types, NEW a,
         \/ flush' = flush
         \/ \E mark \in BOOLEAN : flush' = [flush EXCEPT ![a] = mark]
  PROVE  flush' \in [Arrays -> BOOLEAN]
BY DEF Types

\* One step of an I/O lcore.
LEMMA IoTypes ==
  ASSUME Types, Typed', NEW l \in Ios, IoLcore(l)
  PROVE  Types'
<1>1. l \in Lcores
  BY DEF Lcores
<1>2. CASE IoTurn(l)
  <2>1. l \notin Workers
    BY LcoresAssumption
  <2>2. IoFlush \in Nat /\ IoFlush # 0 /\ turn[l] <= IoFlush
    BY FlushAssumption DEF Types
  <2>3. NewTurn(l, IoFlush, IoFlushOps(l), IoOps(l))
    BY <1>2 DEF IoTurn
  <2> QED
    BY <1>1, <2>1, <2>2, <2>3, TurnsOfOps, TurnTyped
<1>3. CASE RxReadBurst(l)
  <2>1. flush' = flush /\ turn' = turn
        /\ todo[l] # <<>> /\ todo' = [todo EXCEPT ![l] = Tail(@)]
    BY <1>3 DEF RxReadBurst, Does
  <2>2. flush' \in [Arrays -> BOOLEAN]
    BY <2>1 DEF Types
  <2> QED
    BY <1>1, <2>1, <2>2, TypesKept
<1>4. CASE HandOut(l)
  <2>1. todo' = todo /\ turn' = turn
    BY <1>4 DEF HandOut
  <2>2. flush' \in [Arrays -> BOOLEAN]
    BY <1>4, MarkTyped DEF HandOut, Buffer
  <2> QED
    BY <2>1, <2>2, TypesKept
<1>5. CASE RxFlush(l)
  <2>1. turn' = turn /\ todo[l] # <<>> /\ todo' = [todo EXCEPT ![l] = Tail(@)]
    BY <1>5 DEF RxFlush, Does
  <2>2. flush' \in [Arrays -> BOOLEAN]
    BY <1>5, MarkTyped DEF RxFlush, FlushArray
  <2> QED
    BY <1>1, <2>1, <2>2, TypesKept
<1>6. CASE TakeForPort(l)
  <2>1. PICK w \in Workers, p \in Ports :
          LET took == Len(buf[TxRing(w, p)]) >= TxRead
              f    == IF took THEN Moved(buf, TxRing(w, p), TxOut(p), TxRead) ELSE buf
          IN  /\ todo[l] # <<>>
              /\ todo' = [todo EXCEPT ![l] =
                            IF took /\ Enough(f, p) THEN <<<<"send", p>>>> \o Tail(@) ELSE Tail(@)]
              /\ flush' = flush /\ turn' = turn
    BY <1>6 DEF TakeForPort
  <2> DEFINE o == <<"send", p>>
  <2>2. o \in Ops
    BY DEF Ops
  <2>3. Tail(todo[l]) \in Seq(Ops)
    BY <1>1, <2>1 DEF Types
  <2>4. <<o>> \o Tail(todo[l]) \in Seq(Ops)
    BY <2>2, <2>3, ConcatProperties
  <2>5. PICK s \in Seq(Ops) : todo' = [todo EXCEPT ![l] = s]
    BY <2>1, <2>3, <2>4
  <2>6. todo' \in [Lcores -> Seq(Ops)]
    BY <2>5 DEF Types
  <2> QED
    BY <2>1, <2>6 DEF Types
<1>7. CASE TxSend(l)
  <2>1. turn' = turn /\ todo[l] # <<>> /\ todo' = [todo EXCEPT ![l] = Tail(@)]
    BY <1>7 DEF TxSend, Does
  <2>2. flush' \in [Arrays -> BOOLEAN]
    BY <1>7, MarkTyped DEF TxSend
  <2> QED
    BY <1>1, <2>1, <2>2, TypesKept
<1>8. CASE TxFlush(l)
  <2>1. turn' = turn /\ todo[l] # <<>> /\ todo' = [todo EXCEPT ![l] = Tail(@)]
    BY <1>8 DEF TxFlush, Does
  <2>2. flush' \in [Arrays -> BOOLEAN]
    BY <1>8, MarkTyped DEF TxFlush
  <2> QED
    BY <1>1, <2>1, <2>2, TypesKept
<1> QED
  BY <1>2, <1>3, <1>4, <1>5, <1>6, <1>7, <1>8 DEF IoLcore

\* One step of a worker.
LEMMA WorkerTypes ==
  ASSUME Types, Typed', NEW w \in Workers, Worker(w)
  PROVE  Types'
<1>1. w \in Lcores
  BY DEF Lcores
<1>2. CASE WorkerTurn(w)
  <2>1. w \notin Ios
    BY LcoresAssumption
  <2>2. WorkerFlush \in Nat /\ WorkerFlush # 0 /\ turn[w] <= WorkerFlush
    BY FlushAssumption DEF Types
  <2>3. NewTurn(w, WorkerFlush, WorkerFlushOps, WorkerOps)
    BY <1>2 DEF WorkerTurn
  <2> QED
    BY <1>1, <2>1, <2>2, <2>3, TurnsOfOps, TurnTyped
<1>3. CASE TakeBurst(w)
  <2>1. flush' = flush /\ turn' = turn
        /\ todo[w] # <<>> /\ todo' = [todo EXCEPT ![w] = Tail(@)]
    BY <1>3 DEF TakeBurst, Does
  <2>2. flush' \in [Arrays -> BOOLEAN]
    BY <2>1 DEF Types
  <2> QED
    BY <1>1, <2>1, <2>2, TypesKept
<1>4. CASE Refuse(w)
  <2>1. todo' = todo /\ turn' = turn /\ flush' = flush
    BY <1>4 DEF Refuse
  <2>2. flush' \in [Arrays -> BOOLEAN]
    BY <2>1 DEF Types
  <2> QED
    BY <2>1, <2>2, TypesKept
<1>5. CASE Answer(w)
  <2>1. todo' = todo /\ turn' = turn
    BY <1>5 DEF Answer
  <2>2. flush' \in [Arrays -> BOOLEAN]
    BY <1>5, MarkTyped DEF Answer, Buffer
  <2> QED
    BY <2>1, <2>2, TypesKept
<1>6. CASE OutFlush(w)
  <2>1. turn' = turn /\ todo[w] # <<>> /\ todo' = [todo EXCEPT ![w] = Tail(@)]
    BY <1>6 DEF OutFlush, Does
  <2>2. flush' \in [Arrays -> BOOLEAN]
    BY <1>6, MarkTyped DEF OutFlush, FlushArray
  <2> QED
    BY <1>1, <2>1, <2>2, TypesKept
<1> QED
  BY <1>2, <1>3, <1>4, <1>5, <1>6 DEF Worker

\* The variables keep their types, for any number of lcores and any sizes; the
\* loop counters stay within their flush intervals (runtime.c:391-426, 568-585).
THEOREM PipelineTypes == Spec => []TypeOK
<1>1. Init => Types
  <2> SUFFICES ASSUME Init
               PROVE  Types
    OBVIOUS
  <2>1. Typed
    BY PInvInit DEF PInv
  <2>2. <<>> \in Seq(Ops)
    OBVIOUS
  <2>3. IoFlush \in Nat /\ WorkerFlush \in Nat
    BY FlushAssumption
  <2> QED
    BY <2>1, <2>2, <2>3 DEF Init, Types, Lcores
<1>2. Types /\ PInv /\ PInv' /\ [Next]_vars => Types'
  <2> SUFFICES ASSUME Types, PInv', [Next]_vars
               PROVE  Types'
    OBVIOUS
  <2>1. Typed'
    BY DEF PInv
  <2>2. CASE Next
    BY <2>1, <2>2, IoTypes, WorkerTypes DEF Next
  <2>3. CASE UNCHANGED vars
    BY <2>1, <2>3 DEF vars, Types
  <2> QED
    BY <2>2, <2>3
<1>3. Types => TypeOK
  <2> SUFFICES ASSUME Types
               PROVE  TypeOK
    OBVIOUS
  <2>1. IoFlush \in Nat /\ WorkerFlush \in Nat
    BY FlushAssumption
  <2>2. ASSUME NEW t \in Lcores
        PROVE  turn[t] \in 0..(IoFlush + WorkerFlush)
    BY <2>1 DEF Types, Lcores
  <2> QED
    BY <2>2 DEF Types, TypeOK, Typed, Full
<1> QED
  BY <1>1, <1>2, <1>3, PInvInit, PInvStep, PTL DEF Spec
=============================================================================
