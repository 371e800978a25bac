------------------------------ MODULE LcoreInit ------------------------------
(***************************************************************************)
(* What app_init (init.c) builds on the roles the command line gave: ids,  *)
(* pools, LPM tables, the rings between I/O lcores and workers, the NIC    *)
(* queues, and the workers' callback.  One step is one function of init.c, *)
(* of app_init_nics one port.  A DPDK call may fail, and then the program  *)
(* panics.  The run time finds rings by worker id and by port; here is     *)
(* where these numbers are made to agree.                                  *)
(***************************************************************************)
EXTENDS Tuning

CONSTANTS
  MaxIos,        \* APP_MAX_IO_LCORES
  SocketOf,      \* rte_lcore_to_socket_id
  MaxSockets,    \* APP_MAX_SOCKETS
  ShortWidth,    \* bits of an uint16_t
  DescLimits     \* per port and way: the alignment, most and fewest descriptors
                 \* of its queues, an alignment or a most of 0 for none

\* The code does not compare the socket of an lcore with APP_MAX_SOCKETS.
ASSUME SocketsAssumption == SocketOf \in [Lcores -> 0..(MaxSockets - 1)]
ASSUME NullAssumption    ==
  /\ \A s \in 0..(MaxSockets - 1) : Null # <<"pool", s>> /\ Null # <<"table", s>>
  /\ \A l \in Lcores, p \in Ports : Null # <<"tx", l, p>>
  /\ Null \notin {"I/O RX rings", "worker input rings", "no I/O core to handle TX", "I/O TX rings"}
ASSUME SizesAssumption   ==
  /\ {ShortWidth, MaxIos} \subseteq Nat
  /\ DescLimits \in [Ports -> [{"nicRx", "nicTx"} -> [align : Nat, most : Nat, fewest : Nat]]]

VARIABLES
  stage,     \* "config", the next function of app_init, or the end
  panic,     \* what the program panicked about
  id,        \* lcore_params[].worker.worker_id
  pool,      \* lcore_params[].pool
  table,     \* lcore_params[].worker.lpm_table
  rxRings,   \* lcore_params[].io.rx.rings, n_rings of them
  ringsIn,   \* lcore_params[].worker.rings_in, n_rings_in of them
  ringsOut,  \* lcore_params[].worker.rings_out, by port
  txRings,   \* lcore_params[].io.tx.rings, by port and worker id
  nic,       \* per port: the sizes and the pools of the queues set up
  nextPort,  \* the loop of app_init_nics
  calls      \* the lcores with a process_pkt

rings == <<rxRings, ringsIn, ringsOut, txRings>>
built == <<id, pool, table, rings, nic, nextPort, calls>>
ivars == <<tvars, stage, panic, built>>

-----------------------------------------------------------------------------
\* The workers, whose number the lcores that receive take to be a power of two
\* (runtime.c:230); --w sees to that only if it comes once.
WorkerLcores == {l \in Lcores : type[l] = "worker"}

Receivers == {l \in Lcores : type[l] = "io" /\ queues[l] # <<>>}

\* How many lcores of a set the loops over 0..APP_MAX_LCORES meet before l.
Before(l, S) == Cardinality({m \in S : m < l})

\* The lcores of a set as these loops meet them.
Ordered(S) == [k \in 1..Cardinality(S) |-> CHOOSE l \in S : Before(l, S) = k - 1]

Panic(why)  == stage' = "panic" /\ panic' = why /\ UNCHANGED <<tvars, built>>
Continue(s) == stage' = s /\ UNCHANGED <<tvars, panic>>

\* Mutant: the id is the number of the lcore.
IdsOfLcores ==
  /\ stage = "config" /\ phase = "accepted"
  /\ id' = [l \in Lcores |-> IF l \in WorkerLcores THEN l ELSE 0]
  /\ Continue("pools")
  /\ UNCHANGED <<pool, table, rings, nic, nextPort, calls>>

\* Mutant: the ids count down.
IdsDescending ==
  /\ stage = "config" /\ phase = "accepted"
  /\ id' = [l \in Lcores |-> IF l \in WorkerLcores
                               THEN Cardinality({m \in WorkerLcores : m > l}) ELSE 0]
  /\ Continue("pools")
  /\ UNCHANGED <<pool, table, rings, nic, nextPort, calls>>

\* Workers are counted from 0 in the order of their lcores.
AssignWorkerIds ==
  /\ stage = "config" /\ phase = "accepted"
  /\ id' = [l \in Lcores |-> IF l \in WorkerLcores THEN Before(l, WorkerLcores) ELSE 0]
  /\ Continue("pools")
  /\ UNCHANGED <<pool, table, rings, nic, nextPort, calls>>

\* app_is_socket_used
SocketUsed(s) == \E l \in Lcores : type[l] # "disabled" /\ SocketOf[l] = s

\* What is made for each socket in use, as an lcore of role r finds it.
OfSocket(what, S) ==
  [l \in Lcores |-> IF l \in S /\ SocketUsed(SocketOf[l]) THEN <<what, SocketOf[l]>> ELSE Null]

InitMbufPools ==
  /\ stage = "pools"
  /\ \/ Panic("pool")
     \/ /\ pool' = OfSocket("pool", {l \in Lcores : type[l] # "disabled"})
        /\ Continue("tables")
        /\ UNCHANGED <<id, table, rings, nic, nextPort, calls>>

InitLpmTables ==
  /\ stage = "tables"
  /\ \/ Panic("table")
     \/ /\ table' = OfSocket("table", WorkerLcores)
        /\ Continue("ringsRx")
        /\ UNCHANGED <<id, pool, rings, nic, nextPort, calls>>

\* One ring from each I/O lcore that receives to each worker, put at the next
\* place of either; then the numbers are compared.  Nothing else keeps more
\* lcores than there are places from getting here: more workers than places
\* are found out in the comparison, or their rings have destroyed n_rings
\* before, and more I/O lcores than places destroy n_rings_in.
InitRingsRx ==
  LET workers == Ordered(WorkerLcores)
      ios     == Ordered(Receivers)
      rx      == [l \in Lcores |-> IF l \in Receivers
                    THEN [k \in 1..Len(workers) |-> <<"rx", l, workers[k]>>] ELSE <<>>]
      in      == [l \in Lcores |-> IF l \in WorkerLcores
                    THEN [k \in 1..Len(ios) |-> <<"rx", ios[k], l>>] ELSE <<>>]
  IN  /\ stage = "ringsRx"
      /\ \/ Panic("ring")
         \/ Len(workers) > MaxWorkers /\ Panic("too many worker lcores")
         \/ /\ Len(workers) > MaxWorkers \/ Len(ios) > MaxIos
            /\ Continue("crashed") /\ UNCHANGED built
         \/ /\ Len(workers) <= MaxWorkers /\ Len(ios) <= MaxIos
            /\ \/ /\ \E l \in Receivers : Len(rx[l]) # Cardinality(WorkerLcores)
                  /\ Panic("I/O RX rings")
               \/ /\ \E w \in WorkerLcores : Len(in[w]) # Cardinality(Receivers)
                  /\ Panic("worker input rings")
               \/ /\ \A l \in Receivers : Len(rx[l]) = Cardinality(WorkerLcores)
                  /\ \A w \in WorkerLcores : Len(in[w]) = Cardinality(Receivers)
                  /\ rxRings' = rx /\ ringsIn' = in
                  /\ Continue("ringsTx")
                  /\ UNCHANGED <<id, pool, table, ringsOut, txRings, nic, nextPort, calls>>

\* app_get_lcore_for_nic_tx, where there is one
HasLcoreForTx(p) == \E l \in Lcores : type[l] = "io" /\ Listed(p, ports[l])
LcoreForTx(p) ==
  CHOOSE l \in Lcores : /\ type[l] = "io" /\ Listed(p, ports[l])
                        /\ \A m \in Lcores : type[m] = "io" /\ Listed(p, ports[m]) => l <= m

\* Mutant: one ring for each port, shared by the workers.
RingsTxShared ==
  /\ stage = "ringsTx"
  /\ ringsOut' = [l \in Lcores |-> [p \in Ports |->
        IF l \in WorkerLcores /\ p \in txMask THEN <<"tx", Null, p>> ELSE Null]]
  /\ txRings' = [l \in Lcores |-> [p \in Ports |-> [k \in 0..(MaxWorkers - 1) |->
        IF p \in txMask /\ l = LcoreForTx(p) /\ \E w \in WorkerLcores : id[w] = k
          THEN <<"tx", Null, p>> ELSE Null]]]
  /\ Continue("nics")
  /\ UNCHANGED <<id, pool, table, rxRings, ringsIn, nic, nextPort, calls>>

\* One ring from each worker to the lcore that transmits on each port, put
\* under the port at the one and under port and worker id at the other.
InitRingsTx ==
  LET out == [l \in Lcores |-> [p \in Ports |->
                IF l \in WorkerLcores /\ p \in txMask THEN <<"tx", l, p>> ELSE Null]]
      tx  == [l \in Lcores |-> [p \in Ports |-> [k \in 0..(MaxWorkers - 1) |->
                IF p \in txMask /\ l = LcoreForTx(p) /\ \E w \in WorkerLcores : id[w] = k
                  THEN <<"tx", CHOOSE w \in WorkerLcores : id[w] = k, p>> ELSE Null]]]
      Missing == \E l \in Lcores : \E i \in 1..Len(ports[l]) :
                   \E k \in 0..(Cardinality(WorkerLcores) - 1) : tx[l][ports[l][i]][k] = Null
  IN  /\ stage = "ringsTx"
      /\ \/ Panic("ring")
         \/ /\ \E p \in txMask : ~HasLcoreForTx(p)
            /\ Panic("no I/O core to handle TX")
         \/ /\ \A p \in txMask : HasLcoreForTx(p)
            /\ \/ Missing /\ Panic("I/O TX rings")
               \/ /\ ~Missing
                  /\ ringsOut' = out /\ txRings' = tx
                  /\ Continue("nics")
                  /\ UNCHANGED <<id, pool, table, rxRings, ringsIn, nic, nextPort, calls>>

\* app_get_nic_rx_queues_per_port
QueuesOf(p) == {q \in Queues : <<p, q>> \in rxMask}

\* Mutant: the port is not compared.
LcoreForAnyRx(p, q) ==
  LET Reads(l) == type[l] = "io" /\ \E r \in Ports : Listed(<<r, q>>, queues[l])
  IN  CHOOSE l \in Lcores : Reads(l) /\ \A m \in Lcores : Reads(m) => l <= m

\* app_get_lcore_for_nic_rx
LcoreForRx(p, q) ==
  CHOOSE l \in Lcores : /\ type[l] = "io" /\ Listed(<<p, q>>, queues[l])
                        /\ \A m \in Lcores : type[m] = "io" /\ Listed(<<p, q>>, queues[m]) => l <= m

\* rte_eth_dev_adjust_nb_rx_tx_desc: up to the alignment, then into the limits
Adjusted(lim, size) ==
  LET up    == IF lim.align = 0 THEN size
                 ELSE ((size + lim.align - 1) \div lim.align) * lim.align
      short == up % 2^ShortWidth
      low   == IF lim.most # 0 /\ short > lim.most THEN lim.most ELSE short
  IN  IF low < lim.fewest THEN lim.fewest ELSE low

\* The next port: its queues have the sizes that were good for it and for the
\* ports before it.  rte_eth_dev_configure was told the number of queues, and
\* rte_eth_rx_queue_setup refuses a queue that is not below it.
InitNic ==
  LET p      == nextPort
      qs     == QueuesOf(p)
      fitted == [r \in Rings |->
                  IF r \in {"nicRx", "nicTx"}
                    THEN Adjusted(DescLimits[p][r], ringSizes[r] % 2^ShortWidth)
                    ELSE ringSizes[r]]
  IN  /\ stage = "nics" /\ p \in Ports
      /\ \/ /\ qs = {} /\ p \notin txMask
            /\ nextPort' = p + 1
            /\ UNCHANGED <<tvars, stage, panic, id, pool, table, rings, nic, calls>>
         \/ (qs # {} \/ p \in txMask) /\ Panic("nic")
         \/ /\ qs # {} \/ p \in txMask
            /\ \A q \in qs : q < Cardinality(qs)
            /\ ringSizes' = fitted
            /\ nic' = [nic EXCEPT ![p] = [rx    |-> fitted["nicRx"],
                                         tx    |-> fitted["nicTx"],
                                         pools |-> [q \in qs |-> pool[LcoreForRx(p, q)]]]]
            /\ nextPort' = p + 1
            /\ UNCHANGED <<vars, bursts, posLb, stage, panic, id, pool, table, rings, calls>>

\* The last port was started, whether its link is up or not.
NicsDone == /\ stage = "nics" /\ nextPort = NumPorts
            /\ Continue("callback") /\ UNCHANGED built

\* app_set_worker_callback, after app_init; then the lcores are launched.
SetWorkerCallback ==
  /\ stage = "callback"
  /\ calls' = WorkerLcores
  /\ Continue("ready")
  /\ UNCHANGED <<id, pool, table, rings, nic, nextPort>>

IInit == /\ TInit
         /\ stage = "config" /\ panic = Null
         /\ id = [l \in Lcores |-> 0]
         /\ pool = [l \in Lcores |-> Null] /\ table = [l \in Lcores |-> Null]
         /\ rxRings = [l \in Lcores |-> <<>>] /\ ringsIn = [l \in Lcores |-> <<>>]
         /\ ringsOut = [l \in Lcores |-> [p \in Ports |-> Null]]
         /\ txRings = [l \in Lcores |-> [p \in Ports |-> [k \in 0..(MaxWorkers - 1) |-> Null]]]
         /\ nic = [p \in Ports |-> Null] /\ nextPort = 0
         /\ calls = {}

\* app_parse_args
Configure == TNext /\ UNCHANGED <<stage, panic, built>>

INext == \/ Configure
         \/ AssignWorkerIds \/ InitMbufPools \/ InitLpmTables
         \/ InitRingsRx \/ InitRingsTx \/ InitNic \/ NicsDone \/ SetWorkerCallback

ISpec == IInit /\ [][INext]_ivars

-----------------------------------------------------------------------------
Ready == stage = "ready"

\* An I/O lcore puts a packet for worker k on its k-th ring, and on the other
\* end of that ring is the worker that answers for partition k
\* (runtime.c:230, init.c:79-81, 239-243).
RingsConnect ==
  Ready => \A l \in Receivers, w \in WorkerLcores :
             /\ Len(rxRings[l]) = Cardinality(WorkerLcores)
             /\ \E i \in 1..Len(ringsIn[w]) : ringsIn[w][i] = rxRings[l][id[w] + 1]

\* The rings are made for one producer and one consumer, and that is how many
\* they have: no ring is found at two places of either side (init.c:231, 323).
SingleEnds ==
  Ready => /\ OnceEach(rxRings) /\ OnceEach(ringsIn)
           /\ \A l, m \in Lcores, p, q \in Ports :
                ringsOut[l][p] # Null /\ ringsOut[l][p] = ringsOut[m][q] => l = m /\ p = q
           /\ \A l, m \in Lcores, p, q \in Ports, j, k \in 0..(MaxWorkers - 1) :
                txRings[l][p][j] # Null /\ txRings[l][p][j] = txRings[m][q][k]
                  => l = m /\ p = q /\ j = k

\* Wherever a worker sends an answer, a ring takes it to the lcore that
\* transmits on that port (runtime.c:484-515, init.c:331-332).
AnswersHaveARing ==
  Ready => \A w \in WorkerLcores, p \in PortsOfAnswers :
             /\ ringsOut[w][p] # Null
             /\ \E l \in Lcores : Listed(p, ports[l]) /\ txRings[l][p][id[w]] = ringsOut[w][p]

\* Every queue a NIC fills takes its mbufs from the pool of the socket of the
\* lcore that reads it, and every worker has the table of its own socket and
\* the handler, though pools are made by socket, handed out by lcore and looked
\* up by port and queue (init.c:112-119, 178-185, 504-520, 569-580).
PoolsThere ==
  Ready => /\ \A p \in Ports : \A q \in QueuesOf(p) :
                \E l \in Lcores : /\ Listed(<<p, q>>, queues[l])
                                  /\ nic[p].pools[q] = <<"pool", SocketOf[l]>>
           /\ \A w \in WorkerLcores : table[w] = <<"table", SocketOf[w]>> /\ w \in calls

\* The comparisons of init.c never fail, whatever the command line: only the
\* number of workers is compared for a reason (init.c:257-275, 307-357).
AlgorithmicErrorsDead ==
  panic \notin {"I/O RX rings", "worker input rings", "no I/O core to handle TX", "I/O TX rings"}
=============================================================================
