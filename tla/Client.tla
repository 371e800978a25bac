-------------------------------- MODULE Client --------------------------------
(***************************************************************************)
(* The client's closed loop (client.c and its own runtime.c): main leaves  *)
(* a few requests in the output array of every worker and starts the       *)
(* lcores; from then on a request is sent only because an answer came.     *)
(* One lcore receives, one transmits, as in start_client.sh.               *)
(*                                                                         *)
(* All requests are alike but for the leader field, so all answers carry   *)
(* the same byte at pos_lb and go to one worker, Chosen.  The model counts *)
(* the packets at each place; which ones they are makes no difference.     *)
(***************************************************************************)
EXTENDS Integers, Sequences, FiniteSets

CONSTANTS
  NumWorkers,
  Chosen,                     \* the worker whose number the byte at pos_lb gives
  Preload,                    \* requests submitted per worker: 4
  RxRead, RxWrite,            \* the burst sizes of --bsz
  WorkerRead, WorkerWrite,
  TxRead, TxWrite,
  RingRoom,                   \* what a ring holds
  IoFlush, WorkerFlush,       \* APP_LCORE_IO_FLUSH, APP_LCORE_WORKER_FLUSH
  MaxLosses                   \* bound: packets that are lost in a run

Workers == 0..(NumWorkers - 1)
Lcores  == Workers \cup {NumWorkers, NumWorkers + 1}
RxLcore == NumWorkers
TxLcore == NumWorkers + 1

ASSUME ChosenAssumption == NumWorkers \in Nat \ {0} /\ Chosen \in Workers
ASSUME NumbersAssumption == {Preload, MaxLosses} \subseteq Nat
\* A burst of no packets is refused (config.c:596-604).
ASSUME BurstsAssumption ==
  {RxRead, RxWrite, WorkerRead, WorkerWrite, TxRead, TxWrite} \subseteq Nat \ {0}

\* Where a packet can be.
In        == <<"in", 0>>          \* rx.mbuf_in
RxOut(w)  == <<"rxout", w>>       \* rx.mbuf_out[w]
RxRing(w) == <<"rxring", w>>
WIn(w)    == <<"win", w>>         \* mbuf_in of worker w
WOut(w)   == <<"wout", w>>        \* its mbuf_out[0]
TxRing(w) == <<"txring", w>>
TxOut     == <<"txout", 0>>       \* tx.mbuf_out[0]
Net       == <<"net", 0>>         \* on its way to the server, in it, or back
Freed     == <<"freed", 0>>       \* history: freed because there was no room
Lost      == <<"lost", 0>>        \* history: lost outside, or refused
Leaked    == <<"leaked", 0>>      \* history: in no array and not freed

InFlightPlaces == {In, TxOut, Net}
                  \cup UNION {{RxOut(w), RxRing(w), WIn(w), WOut(w), TxRing(w)} : w \in Workers}
Places == InFlightPlaces \cup {Freed, Lost, Leaked}
Arrays == UNION {{RxOut(w), WOut(w)} : w \in Workers} \cup {TxOut}

VARIABLES
  at,      \* how many packets are where
  flush,   \* mbuf_out_flush of the arrays
  todo,    \* per lcore: what is left of its turn
  turn     \* per lcore: the loop counter i

vars == <<at, flush, todo, turn>>

\* submit_bulk before the lcores start; nothing where the pool has too few.
Init == /\ \E given \in [Workers -> {0, Preload}] :
             /\ at = [c \in Places |-> IF \E w \in Workers : c = WOut(w) THEN given[c[2]] ELSE 0]
             /\ flush = [a \in Arrays |-> \E w \in Workers : a = WOut(w) /\ given[w] > 0]
        /\ todo = [t \in Lcores |-> <<>>]
        /\ turn = [t \in Lcores |-> 0]

Moved(f, a, b, k) == [f EXCEPT ![a] = @ - k, ![b] = @ + k]

\* Mutant: n_mbufs is left as it was.
BulkKept(f, a, ring, k) ==
  IF f[ring] + k <= RingRoom THEN [f EXCEPT ![ring] = @ + k] ELSE Moved(f, a, Freed, k)

\* rte_ring_sp_enqueue_bulk of the first k packets of array a, all freed if
\* there is no room; n_mbufs = 0 whatever else was there.
Bulk(f, a, ring, k) ==
  LET g == Moved(f, a, IF f[ring] + k <= RingRoom THEN ring ELSE Freed, k)
  IN  Moved(g, a, Leaked, g[a])

\* Mutant: the array is handed over when it holds more than a burst.
BufferLate(from, a, ring, bsz) ==
  LET f == Moved(at, from, a, 1)
  IN  IF f[a] <= bsz THEN at' = f /\ UNCHANGED flush
                     ELSE at' = Bulk(f, a, ring, bsz) /\ flush' = [flush EXCEPT ![a] = FALSE]

\* The packet at hand joins array a, of which a full burst is handed over.
Buffer(from, a, ring, bsz) ==
  LET f == Moved(at, from, a, 1)
  IN  IF f[a] < bsz THEN at' = f /\ UNCHANGED flush
                    ELSE at' = Bulk(f, a, ring, bsz) /\ flush' = [flush EXCEPT ![a] = FALSE]

FlushArray(a, ring) ==
  /\ at' = IF flush[a] THEN Bulk(at, a, ring, at[a]) ELSE at
  /\ flush' = [flush EXCEPT ![a] = TRUE]

-----------------------------------------------------------------------------
Each(op) == [k \in 1..NumWorkers |-> <<op, k - 1>>]

\* A new turn of a main loop, with a flush when the counter says so.
NewTurn(t, limit, flushes, work) ==
  /\ todo[t] = <<>>
  /\ todo' = [todo EXCEPT ![t] = IF turn[t] = limit THEN flushes \o work ELSE work]
  /\ turn' = [turn EXCEPT ![t] = IF @ = limit THEN 1 ELSE @ + 1]
  /\ UNCHANGED <<at, flush>>

\* Lcore t has no packet at hand, and op is next.
Does(t, input, op) ==
  /\ at[input] = 0 /\ todo[t] # <<>> /\ Head(todo[t]) = op
  /\ todo' = [todo EXCEPT ![t] = Tail(@)]
  /\ UNCHANGED turn

-----------------------------------------------------------------------------
RxNewTurn == at[In] = 0 /\ NewTurn(RxLcore, IoFlush, Each("flushRx"), <<<<"rx", 0>>>>)

\* app_lcore_io_rx: a burst of what the NIC has, nothing included.
RxBurst(least) ==
  /\ Does(RxLcore, In, <<"rx", 0>>)
  /\ \E k \in least..RxRead : k <= at[Net] /\ at' = Moved(at, Net, In, k)
  /\ UNCHANGED flush

HandOut == /\ at[In] > 0
           /\ Buffer(In, RxOut(Chosen), RxRing(Chosen), RxWrite)
           /\ UNCHANGED <<todo, turn>>

RxFlush == \E w \in Workers : /\ Does(RxLcore, In, <<"flushRx", w>>)
                              /\ FlushArray(RxOut(w), RxRing(w))

RxIo == RxNewTurn \/ RxBurst(0) \/ HandOut \/ RxFlush

-----------------------------------------------------------------------------
TxNewTurn == NewTurn(TxLcore, IoFlush, <<<<"flushTx", 0>>>>, Each("tx"))

\* The NIC takes what is in the array, all but a few that are freed.
Transmitted(f) ==
  \E k \in 0..(MaxLosses - at[Lost]) :
    k <= f[TxOut] /\ at' = Moved(Moved(f, TxOut, Net, f[TxOut] - k), TxOut, Lost, k)

\* app_lcore_io_tx for the ring of worker w: a whole burst or nothing.
TakeForPort ==
  \E w \in Workers :
    /\ todo[TxLcore] # <<>> /\ Head(todo[TxLcore]) = <<"tx", w>>
    /\ todo' = [todo EXCEPT ![TxLcore] = Tail(@)]
    /\ LET f == Moved(at, TxRing(w), TxOut, TxRead)
       IN  \/ at[TxRing(w)] < TxRead /\ UNCHANGED <<at, flush>>
           \/ at[TxRing(w)] >= TxRead /\ f[TxOut] < TxWrite /\ at' = f /\ UNCHANGED flush
           \/ /\ at[TxRing(w)] >= TxRead /\ f[TxOut] >= TxWrite
              /\ Transmitted(f) /\ flush' = [flush EXCEPT ![TxOut] = FALSE]
    /\ UNCHANGED turn

TxFlush == /\ todo[TxLcore] # <<>> /\ Head(todo[TxLcore]) = <<"flushTx", 0>>
           /\ todo' = [todo EXCEPT ![TxLcore] = Tail(@)]
           /\ IF flush[TxOut] THEN Transmitted(at) ELSE UNCHANGED at
           /\ flush' = [flush EXCEPT ![TxOut] = TRUE]
           /\ UNCHANGED turn

TxIo == TxNewTurn \/ TakeForPort \/ TxFlush

-----------------------------------------------------------------------------
WorkerNewTurn(w) ==
  at[WIn(w)] = 0 /\ NewTurn(w, WorkerFlush, <<<<"flushOut", 0>>>>, <<<<"work", 0>>>>)

\* Mutant: a burst has to be followed by another packet.
TakeAllButLast(w) ==
  /\ Does(w, WIn(w), <<"work", 0>>)
  /\ at' = IF at[RxRing(w)] > WorkerRead
             THEN Moved(at, RxRing(w), WIn(w), WorkerRead) ELSE at
  /\ UNCHANGED flush

\* Mutant: the worker takes what there is.
TakeAny(w) ==
  /\ Does(w, WIn(w), <<"work", 0>>)
  /\ \E k \in 0..WorkerRead : k <= at[RxRing(w)] /\ at' = Moved(at, RxRing(w), WIn(w), k)
  /\ UNCHANGED flush

\* app_lcore_worker: a whole burst or nothing.
TakeBurst(w) ==
  /\ Does(w, WIn(w), <<"work", 0>>)
  /\ at' = IF at[RxRing(w)] >= WorkerRead
             THEN Moved(at, RxRing(w), WIn(w), WorkerRead) ELSE at
  /\ UNCHANGED flush

\* handle_propose: an answer becomes the next request.
Answer(w) == /\ at[WIn(w)] > 0
             /\ Buffer(WIn(w), WOut(w), TxRing(w), WorkerWrite)
             /\ UNCHANGED <<todo, turn>>

\* handle_propose refuses what does not have msgtype 0.
Refuse(w) == /\ at[WIn(w)] > 0 /\ at[Lost] < MaxLosses
             /\ at' = Moved(at, WIn(w), Lost, 1)
             /\ UNCHANGED <<flush, todo, turn>>

OutFlush(w) == Does(w, WIn(w), <<"flushOut", 0>>) /\ FlushArray(WOut(w), TxRing(w))

Worker(w) == WorkerNewTurn(w) \/ TakeBurst(w) \/ Answer(w) \/ Refuse(w) \/ OutFlush(w)

-----------------------------------------------------------------------------
\* A request or its answer is lost, or the server refuses the request.
Lose == /\ at[Net] > 0 /\ at[Lost] < MaxLosses
        /\ at' = Moved(at, Net, Lost, 1)
        /\ UNCHANGED <<flush, todo, turn>>

Next == RxIo \/ TxIo \/ (\E w \in Workers : Worker(w)) \/ Lose

\* Every lcore runs its own loop.  What is not lost is answered, and an answer
\* that is there is read at some poll of the NIC.
Fairness == /\ WF_vars(RxIo) /\ WF_vars(TxIo) /\ \A w \in Workers : WF_vars(Worker(w))
            /\ SF_vars(RxBurst(1))
Spec     == Init /\ [][Next]_vars /\ Fairness

-----------------------------------------------------------------------------
\* The packets in flight, numbered at each place.
Numbered(f) == UNION {{c} \X (1..f[c]) : c \in InFlightPlaces}
InFlight    == Cardinality(Numbered(at))

\* An answer never makes two requests: what the client has in flight does not
\* grow (client.c:50-75).
NeverMore == [][InFlight' <= InFlight]_vars

\* submit_bulk fills the array behind the back of app_lcore_worker.  When that
\* makes a burst, an answer that comes before the array is flushed makes more
\* than a burst, and what is over is leaked (client.c:117, runtime.c:489-519);
\* that takes a second worker, happens once, and never in a smaller preload.
LeaksOnce ==
  at[Leaked] <= IF NumWorkers > 1 /\ Preload >= WorkerWrite THEN Preload + 1 - WorkerWrite ELSE 0

\* With bursts as long as a preload, the loop goes on as long as nothing is
\* lost, although what was leaked leaves an odd number (start_client.sh).
KeepsRunning == (InFlight > 0 /\ [](at[Lost] = 0)) => []<>(at[Net] > 0)

\* Once fewer are in flight than a worker takes at a time, the last of them
\* wait in a ring for good and the client is silent (client.c:50).
DriesUp == (InFlight < WorkerRead) ~> [](at[Net] = 0)
=============================================================================
