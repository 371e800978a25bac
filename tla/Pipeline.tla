------------------------------ MODULE Pipeline ------------------------------
(***************************************************************************)
(* The way of a packet through the lcores (runtime.c).  An I/O lcore reads *)
(* bursts off its NIC queues and sorts the packets into one array per      *)
(* worker; arrays travel over rings to the workers, whose answers travel   *)
(* in arrays and over rings to the I/O lcore that transmits on the port.   *)
(* Rings have one producer and one consumer each and move whole bursts or  *)
(* nothing.  An array leaves when it is full, or when a flush finds it     *)
(* untouched since the flush before.                                       *)
(*                                                                         *)
(* Packets are numbered by arrival and stand for their mbufs.  Every place *)
(* an mbuf can be is a sequence in buf, "freed" and "sent" among them, so  *)
(* each operation moves a prefix of one place to the end of another.       *)
(*                                                                         *)
(* An lcore's turn of its main loop is a list of things to do; one step    *)
(* does one of them, or handles one packet of the burst it holds.  That a  *)
(* burst is handed out in order is shown in RxBurst.                       *)
(***************************************************************************)
EXTENDS Integers, Sequences, LoadBalance

CONSTANTS
  Ios,                        \* the I/O lcores
  NumWorkers, NumPorts,       \* workers, APP_MAX_NIC_PORTS
  RxPorts, TxPorts,           \* ports an I/O lcore receives on, transmits on
  RingsIn,                    \* rings_in of every worker: who is at their other end
  RxRead, RxWrite,            \* burst_size_io_rx_read, _write
  WorkerRead, WorkerWrite,    \* burst_size_worker_read, _write
  TxRead, TxWrite,            \* burst_size_io_tx_read, _write
  RxRingRoom, TxRingRoom,     \* ring_rx_size - 1, ring_tx_size - 1
  ArraySize,                  \* APP_MBUF_ARRAY_SIZE
  IoFlush, WorkerFlush,       \* APP_LCORE_IO_FLUSH, APP_LCORE_WORKER_FLUSH
  Bytes,                      \* values of the byte at pos_lb of a packet
  MaxPackets                  \* bound: packets that arrive in a run

Workers == 0..(NumWorkers - 1)
Ports   == 0..(NumPorts - 1)
Lcores  == Ios \cup Workers
Bursts  == {RxRead, RxWrite, WorkerRead, WorkerWrite, TxRead, TxWrite}

ASSUME LcoresAssumption  == /\ NumWorkers \in 1..MaxWorkerLcores
                            /\ Ios \cap Workers = {}
ASSUME PortsAssumption   == /\ NumPorts \in Nat
                            /\ RxPorts \in [Ios -> Seq(Ports)]
                            /\ TxPorts \in [Ios -> Seq(Ports)]
\* app_init_rings_rx gives each I/O lcore that receives a ring to each worker.
ASSUME RingsInAssumption == /\ RingsIn \in Seq(Ios)
                            /\ \A l \in Ios : RxPorts[l] # <<>>
                                 <=> \E k \in 1..Len(RingsIn) : RingsIn[k] = l
\* parse_arg_bsz refuses bursts of zero and bursts longer than an array.
ASSUME BurstsAssumption  == ArraySize \in Nat /\ Bursts \subseteq 1..ArraySize
ASSUME RingsAssumption   == RxRingRoom \in Nat /\ TxRingRoom \in Nat
ASSUME FlushAssumption   == {IoFlush, WorkerFlush} \subseteq Nat \ {0}
ASSUME BytesAssumption   == Bytes \subseteq 0..255 /\ MaxPackets \in Nat

\* The places of an mbuf.
In(l)        == <<"in", l, "-">>        \* rx.mbuf_in of an I/O lcore
RxOut(l, w)  == <<"rxout", l, w>>       \* its rx.mbuf_out[w]
RxRing(l, w) == <<"rxring", l, w>>      \* rx.rings[w], rings_in of the worker
WIn(w)       == <<"win", w, "-">>       \* mbuf_in of a worker
WOut(w, p)   == <<"wout", w, p>>        \* its mbuf_out[p]
TxRing(w, p) == <<"txring", w, p>>      \* its rings_out[p], tx.rings[p][w]
TxOut(p)     == <<"txout", p, "-">>     \* tx.mbuf_out[p]
Sent(p)      == <<"sent", p, "-">>      \* history: taken by the NIC
Freed        == <<"freed", "-", "-">>   \* history: back in the pool

RxArrays == {RxOut(l, w) : l \in Ios, w \in Workers}
WArrays  == {WOut(w, p) : w \in Workers, p \in Ports}
TxArrays == {TxOut(p) : p \in Ports}
RxRings  == {RxRing(l, w) : l \in Ios, w \in Workers}
TxRings  == {TxRing(w, p) : w \in Workers, p \in Ports}
Inputs   == {In(l) : l \in Ios} \cup {WIn(w) : w \in Workers}
Arrays   == RxArrays \cup WArrays \cup TxArrays
Rings    == RxRings \cup TxRings
Places   == Inputs \cup Arrays \cup Rings \cup {Sent(p) : p \in Ports} \cup {Freed}

VARIABLES
  buf,     \* what is where
  flush,   \* mbuf_out_flush of the arrays
  pkts,    \* the packets that arrived: byte at pos_lb, I/O lcore
  todo,    \* per lcore: what is left of its turn
  turn     \* per lcore: the loop counter i

vars == <<buf, flush, pkts, todo, turn>>

Packet  == [byte : Bytes, io : Ios]

-----------------------------------------------------------------------------
\* Moving mbufs.

\* The first k mbufs of a go to the end of b.
Moved(f, a, b, k) == [f EXCEPT ![a] = SubSeq(@, k + 1, Len(@)),
                               ![b] = @ \o SubSeq(f[a], 1, k)]

\* Mutant: a burst the ring has no room for is not freed.
BulkLeaking(f, a, ring, room, k) ==
  [f EXCEPT ![a] = <<>>,
            ![ring] = IF Len(@) + k <= room THEN @ \o SubSeq(f[a], 1, k) ELSE @]

\* rte_ring_sp_enqueue_bulk of the first k mbufs of array a, which are freed
\* if the ring has no room for all of them; then a.n_mbufs = 0.
Bulk(f, a, ring, room, k) ==
  LET to == IF Len(f[ring]) + k <= room THEN ring ELSE Freed
  IN  [Moved(f, a, to, k) EXCEPT ![a] = <<>>]

\* Mutant: the packet that fills an array is put on the ring before it.
BufferAhead(from, a, ring, room, bsz) ==
  IF Len(buf[a]) + 1 < bsz
    THEN buf' = Moved(buf, from, a, 1) /\ UNCHANGED flush
    ELSE /\ buf' = Bulk(Moved(buf, from, ring, 1), a, ring, room, Len(buf[a]))
         /\ flush' = [flush EXCEPT ![a] = FALSE]

\* Mutant: the array is put on its ring once it holds more than a burst.
BufferLate(from, a, ring, room, bsz) ==
  LET f == Moved(buf, from, a, 1)
  IN  IF Len(f[a]) <= bsz
        THEN buf' = f /\ UNCHANGED flush
        ELSE /\ buf' = Bulk(f, a, ring, room, bsz)
             /\ flush' = [flush EXCEPT ![a] = FALSE]

\* The packet at hand joins array a; a full array is put on its ring.
Buffer(from, a, ring, room, bsz) ==
  LET f == Moved(buf, from, a, 1)
  IN  IF Len(f[a]) < bsz
        THEN buf' = f /\ UNCHANGED flush
        ELSE /\ buf' = Bulk(f, a, ring, room, bsz)
             /\ flush' = [flush EXCEPT ![a] = FALSE]

\* Mutant: the array is not marked for the next flush.
FlushUnmarked(a, ring, room) ==
  /\ buf' = IF flush[a] /\ buf[a] # <<>>
              THEN Bulk(buf, a, ring, room, Len(buf[a])) ELSE buf
  /\ UNCHANGED flush

\* A flush takes an array that has mbufs and was marked by the flush before.
FlushArray(a, ring, room) ==
  /\ buf' = IF flush[a] /\ buf[a] # <<>>
              THEN Bulk(buf, a, ring, room, Len(buf[a])) ELSE buf
  /\ flush' = [flush EXCEPT ![a] = TRUE]

\* rte_eth_tx_burst takes the first s mbufs of the port's array, the others
\* are freed.
Transmitted(f, p, s) ==
  LET g == Moved(f, TxOut(p), Sent(p), s)
  IN  Moved(g, TxOut(p), Freed, Len(g[TxOut(p)]))

-----------------------------------------------------------------------------
\* Turns.

PortOps(op, ports) == [k \in 1..Len(ports) |-> <<op, ports[k]>>]

\* for each worker, for each port
TxOps(ports) ==
  LET m == Len(ports)
  IN  [k \in 1..(NumWorkers * m) |->
         <<"tx", (k - 1) \div m, ports[((k - 1) % m) + 1]>>]

IoFlushOps(l) ==
  (IF RxPorts[l] # <<>> THEN [k \in 1..NumWorkers |-> <<"flushRx", k - 1>>] ELSE <<>>)
  \o PortOps("flushTx", TxPorts[l])
IoOps(l) == PortOps("rx", RxPorts[l]) \o TxOps(TxPorts[l])

WorkerFlushOps == [k \in 1..NumPorts |-> <<"flushOut", k - 1>>]
WorkerOps      == PortOps("work", RingsIn)

\* Mutant: the counter is not reset by the flush.
NewTurnUnreset(t, limit, flushes, ops) ==
  /\ todo[t] = <<>>
  /\ todo' = [todo EXCEPT ![t] = IF turn[t] = limit THEN flushes \o ops ELSE ops]
  /\ turn' = [turn EXCEPT ![t] = @ + 1]
  /\ UNCHANGED <<buf, flush, pkts>>

\* A new turn of the main loop, with a flush when the counter says so.
NewTurn(t, limit, flushes, ops) ==
  /\ todo[t] = <<>>
  /\ todo' = [todo EXCEPT ![t] = IF turn[t] = limit THEN flushes \o ops ELSE ops]
  /\ turn' = [turn EXCEPT ![t] = IF @ = limit THEN 1 ELSE @ + 1]
  /\ UNCHANGED <<buf, flush, pkts>>

\* Lcore t has handled the burst it held, and op is next.
Does(t, input, op) ==
  /\ buf[input] = <<>>
  /\ todo[t] # <<>> /\ Head(todo[t]) = op
  /\ todo' = [todo EXCEPT ![t] = Tail(@)]
  /\ UNCHANGED turn

-----------------------------------------------------------------------------
\* The I/O lcores.

IoTurn(l) == buf[In(l)] = <<>> /\ NewTurn(l, IoFlush, IoFlushOps(l), IoOps(l))

\* app_lcore_io_rx reads what the NIC has, at most a burst.
RxReadBurst(l) ==
  \E p \in Ports :
    /\ Does(l, In(l), <<"rx", p>>)
    /\ \E k \in 0..RxRead : \E byte \in [1..k -> Bytes] :
         /\ Len(pkts) + k <= MaxPackets
         /\ pkts' = pkts \o [i \in 1..k |-> [byte |-> byte[i], io |-> l]]
         /\ buf' = [buf EXCEPT ![In(l)] = [i \in 1..k |-> Len(pkts) + i]]
    /\ UNCHANGED flush

\* data[pos_lb] & (n_workers - 1)
WorkerOf(x) == WorkerFor(pkts[x].byte, NumWorkers)

\* app_lcore_io_rx_buffer_to_send for the next packet of the burst.
HandOut(l) ==
  /\ buf[In(l)] # <<>>
  /\ LET w == WorkerOf(Head(buf[In(l)]))
     IN  Buffer(In(l), RxOut(l, w), RxRing(l, w), RxRingRoom, RxWrite)
  /\ UNCHANGED <<pkts, todo, turn>>

RxFlush(l) ==
  \E w \in Workers : /\ Does(l, In(l), <<"flushRx", w>>)
                     /\ FlushArray(RxOut(l, w), RxRing(l, w), RxRingRoom)
                     /\ UNCHANGED pkts

Enough(f, p) == Len(f[TxOut(p)]) >= TxWrite

\* app_lcore_io_tx: a whole burst joins the port's array, or nothing; an array
\* that is long enough is sent before the lcore does anything else.
TakeForPort(l) ==
  \E w \in Workers, p \in Ports :
    LET took == Len(buf[TxRing(w, p)]) >= TxRead
        f    == IF took THEN Moved(buf, TxRing(w, p), TxOut(p), TxRead) ELSE buf
    IN  /\ buf[In(l)] = <<>>
        /\ todo[l] # <<>> /\ Head(todo[l]) = <<"tx", w, p>>
        /\ buf' = f
        /\ todo' = [todo EXCEPT ![l] =
                      IF took /\ Enough(f, p) THEN <<<<"send", p>>>> \o Tail(@) ELSE Tail(@)]
        /\ UNCHANGED <<flush, pkts, turn>>

TxSend(l) ==
  \E p \in Ports :
    /\ Does(l, In(l), <<"send", p>>)
    /\ \E s \in 0..Len(buf[TxOut(p)]) : buf' = Transmitted(buf, p, s)
    /\ flush' = [flush EXCEPT ![TxOut(p)] = FALSE]
    /\ UNCHANGED pkts

TxFlush(l) ==
  \E p \in Ports :
    /\ Does(l, In(l), <<"flushTx", p>>)
    /\ IF flush[TxOut(p)]
         THEN \E s \in 0..Len(buf[TxOut(p)]) : buf' = Transmitted(buf, p, s)
         ELSE UNCHANGED buf
    /\ flush' = [flush EXCEPT ![TxOut(p)] = TRUE]
    /\ UNCHANGED pkts

\* app_lcore_main_loop_io
IoLcore(l) == IoTurn(l) \/ RxReadBurst(l) \/ HandOut(l) \/ RxFlush(l)
              \/ TakeForPort(l) \/ TxSend(l) \/ TxFlush(l)

-----------------------------------------------------------------------------
\* The workers.

WorkerTurn(w) ==
  buf[WIn(w)] = <<>> /\ NewTurn(w, WorkerFlush, WorkerFlushOps, WorkerOps)

\* app_lcore_worker takes a whole burst off the next ring, or nothing.
TakeBurst(w) ==
  \E l \in Ios :
    /\ Does(w, WIn(w), <<"work", l>>)
    /\ buf' = IF Len(buf[RxRing(l, w)]) >= WorkerRead
                THEN Moved(buf, RxRing(l, w), WIn(w), WorkerRead) ELSE buf
    /\ UNCHANGED <<flush, pkts>>

\* process_pkt returned -1.
Refuse(w) ==
  /\ buf[WIn(w)] # <<>>
  /\ buf' = Moved(buf, WIn(w), Freed, 1)
  /\ UNCHANGED <<flush, pkts, todo, turn>>

\* process_pkt returned 0: the packet goes to the port the LPM table or else
\* the packet names.  app_check_lpm_table and app_check_every_rx_port_is_tx_
\* enabled saw to it that the port has a ring.
PortsOut == {p \in Ports : \E l \in Ios : \E k \in 1..Len(TxPorts[l]) : TxPorts[l][k] = p}

Answer(w) ==
  /\ buf[WIn(w)] # <<>>
  /\ \E p \in PortsOut :
       Buffer(WIn(w), WOut(w, p), TxRing(w, p), TxRingRoom, WorkerWrite)
  /\ UNCHANGED <<pkts, todo, turn>>

\* app_lcore_worker_flush; a port without a ring is passed over.
OutFlush(w) ==
  \E p \in Ports : /\ Does(w, WIn(w), <<"flushOut", p>>)
                   /\ IF p \in PortsOut
                        THEN FlushArray(WOut(w, p), TxRing(w, p), TxRingRoom)
                        ELSE UNCHANGED <<buf, flush>>
                   /\ UNCHANGED pkts

\* app_lcore_main_loop_worker
Worker(w) == WorkerTurn(w) \/ TakeBurst(w) \/ Refuse(w) \/ Answer(w) \/ OutFlush(w)

-----------------------------------------------------------------------------
Init == /\ buf = [place \in Places |-> <<>>]
        /\ flush = [a \in Arrays |-> FALSE]
        /\ pkts = <<>>
        /\ todo = [t \in Lcores |-> <<>>]
        /\ turn = [t \in Lcores |-> 0]

Next == (\E l \in Ios : IoLcore(l)) \/ (\E w \in Workers : Worker(w))

\* Every lcore runs its own loop and never waits for another one.
Fairness == /\ \A l \in Ios : WF_vars(IoLcore(l))
            /\ \A w \in Workers : WF_vars(Worker(w))
Spec     == Init /\ [][Next]_vars /\ Fairness

-----------------------------------------------------------------------------
Ops == ({"rx", "send", "flushTx", "flushOut"} \X Ports) \cup ({"flushRx"} \X Workers)
       \cup ({"work"} \X Ios) \cup ({"tx"} \X Workers \X Ports)

TypeOK == /\ buf \in [Places -> Seq(Nat)]
          /\ flush \in [Arrays -> BOOLEAN]
          /\ pkts \in Seq(Packet)
          /\ todo \in [Lcores -> Seq(Ops)]
          /\ turn \in [Lcores -> 0..(IoFlush + WorkerFlush)]

\* Every mbuf is at one place, once: none is leaked or freed twice, whichever
\* rings are full and whatever the NIC refuses (runtime.c:97-133, 275-289,
\* 316-352, 369-388, 459-529, 544-565).
OneEach(f, n) ==
  /\ \A x \in 1..n : \E c \in Places : \E i \in 1..Len(f[c]) : f[c][i] = x
  /\ \A c \in Places : \A i \in 1..Len(f[c]) : f[c][i] \in 1..n
  /\ \A c, d \in Places : \A i \in 1..Len(f[c]), j \in 1..Len(f[d]) :
       f[c][i] = f[d][j] => c = d /\ i = j
Conserved == OneEach(buf, Len(pkts))

\* The most a port's array ever holds: read bursts up to the first that makes a
\* write burst.  parse_arg_bsz compares twice the read burst and the write burst
\* with the array, but not this (config.c:606-614).
TxMost == TxRead * ((TxWrite + TxRead - 1) \div TxRead)

\* How full the arrays get: one packet more is always about to join an array of
\* a worker, and a port's array, to which io_tx adds a burst before it looks
\* (runtime.c:302-316), may be longer than an array is if the two TX bursts are
\* chosen so, but for no other reason.
ArraysBounded == /\ \A a \in RxArrays \cup WArrays : Len(buf[a]) < ArraySize
                 /\ \A c \in Inputs : Len(buf[c]) <= ArraySize
                 /\ \A a \in TxArrays : Len(buf[a]) <= TxMost

\* The way of a packet from I/O lcore l through worker w to port p, its end first.
Road(l, w, p) == <<Sent(p), TxOut(p), TxRing(w, p), WOut(w, p),
                   WIn(w), RxRing(l, w), RxOut(l, w), In(l)>>

\* The packets that came in on l for worker w.
Flow(l, w) == {x \in 1..Len(pkts) : pkts[x].io = l /\ WorkerOf(x) = w}

\* Of two packets of F on the road, the one that is ahead came first.
Ordered(f, road, F) ==
  \A m, n \in 1..Len(road) :
    m <= n => \A i \in 1..Len(f[road[m]]), j \in 1..Len(f[road[n]]) :
                LET x == f[road[m]][i]
                    y == f[road[n]][j]
                IN  (m < n \/ i < j) /\ {x, y} \subseteq F => x < y

\* Packets that meet in a worker and on a port are handled and answered in the
\* order they came, though arrays, rings and flushes hold them up differently
\* (runtime.c:93-118, 160-232, 302-352, 438-527).
InOrder == \A l \in Ios, w \in Workers, p \in Ports :
             Ordered(buf, Road(l, w, p), Flow(l, w))

\* When no more packets come, every array is flushed, and what is left behind
\* is in rings, less than a burst in each (runtime.c:262-290, 438-443).
Settles == <>[](/\ \A a \in Arrays \cup Inputs : buf[a] = <<>>
                /\ \A r \in RxRings : Len(buf[r]) < WorkerRead
                /\ \A r \in TxRings : Len(buf[r]) < TxRead)
=============================================================================
