# A verification project for shardb

shardb is a sharded key-value server: a DPDK packet pipeline in front of
RocksDB transaction databases, one database per worker thread. This directory
holds TLA+ modules translated from its C code, TLC configurations that
model-check them on small instances, and proofs checked by TLAPS.

All source paths are relative to `src/`. Line numbers in `PROJECT.json` name
the code each definition stands for.

## 1. The system

| component | state | operations | talks to |
|---|---|---|---|
| message handler (`server/src/server.c`, `handle_db_message`) | locals of a call; `savepoint_count[]`, `workers[].transaction_done` | one call per packet: parse the text of commands, run them in a transaction, commit or roll back, answer or drop | data store, `strtok`, the other workers |
| data store (`server/src/datastore.c`) | per partition `db_path`, `tx_db`, `tx` | open, close, destroy; begin, savepoint, read, write, delete, roll back, commit, delete a transaction | RocksDB |
| partition map (the loop in `handle_multidb_read`, `_write`, `_delete`) | none | key to partition | - |
| shutdown (`int_handler`) | `force_quit` | close and destroy each database, set the flag | data store, every loop |
| worker loop (`server/src/runtime.c`) | input burst, output arrays, flush flags | poll rings, handle a burst, buffer the answers, flush | rings to and from the I/O lcore |
| I/O loop (`server/src/runtime.c`) | input burst, prefetch registers, output arrays per worker and port | receive, distribute to workers, transmit, flush | NIC queues, rings |
| configuration (`server/src/config.c`) | `app.lcore_params`, queue and port masks, rules, burst and ring sizes, `pos_lb` | parse `--rx --tx --w --lpm --rsz --bsz --pos-lb`, check them together | initialisation |
| initialisation (`server/src/init.c`) | worker numbers, pools, tables, rings, NIC queues | number the workers, connect the rings, set up the ports | all lcores |
| client (`client/src/client.c`, `net_util.c`) | packets in flight | send a first burst; answer every reply with a new request | server |

The client has its own copies of the server's files. `init.c`, `config.c` and
`main.h` differ in blanks, comments and an initialiser only, so what is said of
the server's holds for them as it stands. `runtime.c` calls the client's
handler and is modelled with it. `datastore.c` is compiled and never called.

**How a packet travels.** The I/O lcore reads a burst off a NIC queue, picks a
worker from one byte of each packet and appends it to that worker's array; full
arrays, or arrays left for two flush intervals, are put on the worker's ring in
bulk. A worker takes a burst off its ring, runs `handle_db_message` on each
packet, and frees what the handler refuses (-1) or sends back what it answers
(0).

**What a packet says.** `msgtype` 0 names one partition, `leader`, and is run
by the worker of that number. `msgtype` 1 may touch all partitions. The text is
a list of commands between `@`: `r key`, `w key value`, `d key`, `s` (set a
savepoint), `b` (roll back to the last one).

**What is hard here.**
- `strtok` has one static cursor for the whole process. The handler splits the
  text with it, each command handler splits a copy of the command with it, and
  so does every other worker thread, at the same time.
- A transaction is tracked twice, by the pointer `tx[i]` with RocksDB's stack
  of savepoints, and by the counter `savepoint_count[i]` the handlers keep.
- Every store call may fail; the clean-up repeats roll-backs until they succeed.
- SIGINT closes the databases in the middle of whatever the workers do.
- Multi-partition packets make workers wait for one another.
- An mbuf passes through a dozen places on its way; every full ring, refused
  packet and partial burst is a chance to lose it or to free it twice.
- Arrays are filled by one packet or one burst at a time and emptied by size, by
  a flush or by a refusal; bursts are moved whole or not at all.
- Options may come in any order and more than once, each adding to shared
  tables; initialisation relies on what they left without looking again.
- The client has a fixed number of packets in flight and no timer.

**What makes it correct.** A packet is all or nothing; a partition changes only
when its own worker answers a packet; counters and transactions agree; no
transaction is left behind; handlers return; the process stops when it is told
to; every mbuf is at one place; arrays hold what is put into them; packets are
answered in order; what an accepted command line leaves is consistent, and the
lcores are wired accordingly; the client's loop goes on. `PROJECT.json` lists
the hazards line by line with the properties that watch them.

## 2. Modules

| module | models | proofs |
|---|---|---|
| `StrTok` | `strtok(3)` on texts of commands of words, as its callers see it | `ShardServerProofs` |
| `PartitionMap` | the loop that selects a key's partition | `ShardServerProofs` |
| `Datastore` | one partition and the functions of `datastore.c` on it; RocksDB as those functions use it | `ShardServerProofs` |
| `ShardServer` | worker threads, `handle_db_message`, SIGINT | `ShardServerProofs`, `HandlerProofs` |
| `AtomicShards` | abstract specification: what a client may rely on about a partition's contents | `HandlerProofs` |
| `ShardServerProperties` | action and liveness properties of `ShardServer`, and its refinement of `AtomicShards` | `HandlerProofs` |
| `RxBurst` | how `app_lcore_io_rx` hands out a burst through prefetch registers | `RxBurstProofs` |
| `LoadBalance` | how an I/O lcore picks a worker: the low bits of a byte | `PipelineProofs` |
| `Pipeline` | the main loops of I/O and worker lcores: arrays, rings, flushes | `PipelineProofs`, `ArrayProofs` |
| `LcoreConfig` | `--rx`, `--tx`, `--w`, `--lpm` and the checks at the end of the command line | `LcoreConfigProofs` |
| `Tuning` | `--rsz`, `--bsz`, `--pos-lb` and the defaults, added to `LcoreConfig` | `StartupProofs` |
| `LcoreInit` | `app_init` and `app_set_worker_callback` on what the two before left | `StartupProofs` |
| `Client` | the client's closed loop of requests and answers over its own lcores | `ClientProofs` |
| `Wire` | where the fields of a request are for the client and for the server | |
| `MCShardServer`, `MCPipeline`, `MCLcoreInit` | the small instances TLC checks | |

`ShardServer` composes `StrTok`, `Datastore` and `PartitionMap`; `LcoreInit`
extends `Tuning`, which extends `LcoreConfig`; `Pipeline` and `Wire` share
`LoadBalance`. What one module assumes of its constants another one shows:
`BurstsAssumption` of `Pipeline` is `BurstsFitArrays` of `Tuning`, but for the TX
read burst (section 3); its one sender per port is `OneSenderPerPort`; its rings, found by worker number and port, are `RingsConnect`, `SingleEnds` and
`AnswersHaveARing` of `LcoreInit`; that a burst is handed out in order, one
packet a step, is `RxBurst`.

### StrTok
A text is a sequence of commands and a command a nonempty sequence of words.
`NextCommand`/`AfterCommand` is a call with delimiter `@`,
`NextWord`/`AfterWord` one with a blank. The two work on the same remainder, so
a caller that asks for the next command gets what the last caller left, which
is how the real cursor behaves. Words are abstract. Texts that need their
characters are not distinguished: a blank before a command's letter (as in the
client's own `"@ w 3 c"`), a value glued to `@`, a letter glued to its key.

### Datastore
`Shard` is one partition: handle, transaction (`live`), what it reads (`view`),
its savepoints (`saves`), and the committed contents (`db`). An operation is
the set of its outcomes `[ret, shard]`: it first makes the tests the C function
makes, in its order, and then RocksDB either does it or, if `FaultyOps` allows,
reports an error and changes nothing. Setting a savepoint cannot fail in
RocksDB. A refused commit leaves the transaction where it was and RocksDB
refuses it from then on (`spent`). `close_database` drops the transaction and
clears the path; `destroy_database` empties the contents unless it fails.

### ShardServer
`pc[w]` is where worker `w` is: between packets (`poll`, `ready`, `exited`) or
at a place in the handler. One action is one call of `strtok` or of the store
with the code up to the next one.

| code | actions |
|---|---|
| `app_lcore_main_loop_worker`, `app_lcore_worker` | `Dequeue`, `EmptyPoll`, `Exit` |
| head of `handle_db_message` | `Receive`, `Ignore` |
| single-partition branch | `BeginTransaction`, `FirstSavepoint`, `Discard`, `SetSavepoint`, `RollbackToSavepoint`, `UndoSavepoint`, `DropTransaction`, `Commit` |
| the command loop of both branches | `TakeKey`, `TakeValue`, `Apply`, `SkipUnknown`, `TakeCommand`, `EndOfText` |
| multi-partition branch | `LockOthers`, `Locate`, `MultiFirstSavepoint`, `Discard`, `MultiSetSavepoint`, `MultiRollback`, `MultiUndoSavepoint`, `MultiDropTransaction`, `MultiCommit` |
| `int_handler` | `RaiseSignal`; for each partition `CopyPath`, `CloseDb`; `Quit` |

Choices a reader should know:
- Workers interleave between calls of `strtok` and the store and nowhere else;
  the words of a token are those it has when `strtok` returns it.
- `strcpy(val, msg + 1)` with overlapping or dangling sources is a plain copy
  of the token; a cursor into a frame that has been left finds any of the
  `Garbage` texts.
- `ret` tested before its first assignment is a free choice.
- Passing NULL to `strlen`, `atoi` or `strcpy`, and closing a database under a
  call that uses it, may kill the process: `crashed`. For the closing, the run
  may also go on, since whether a call is in progress is not modelled.
- Each SIGINT has a handler of its own (`sig[h]`, `copied[h]`), which may start
  while an earlier one, on another thread, is anywhere in its loop. A path that
  was cleared is fatal to `strcpy`; so is destroying a database with the options
  that `deconstruct_database_env` has set to NULL, opened or not; two handlers
  that close one database, or destroy the options, at once may be fatal.
- The code opens four databases whatever the number of workers. Those from
  `NumWorkers` on are left out: no handler and no loop of `int_handler` gets to
  them.
- Unlocking the mutex that was not locked has no effect.
- A worker has one input ring. Packets arrive freely from `Packets`; the
  answer itself (address swap, checksum) is part of `Commit`.
- `NumWorkers` is at most 4, the length of `workers[]` and the number of
  databases opened. Configurations beyond that are not modelled. Which packets
  reach a worker, and in what order, is left to `Pipeline` and `Wire`.
- `ran` is a history variable: the commands the handler has attempted.

### AtomicShards
The contents of each partition (`store`), what its worker does with a packet
(`phase`) and what has become of its database (`status`). A packet is started,
and is then either answered or dropped; `Answer`, from the phase `answering`, is
the only step in which a partition that is `serving` changes, and only the
worker's own. A packet that is `dropping` cannot be answered any more. A
partition that is `closing` may be emptied, by the step that closes it or by a
further attempt to destroy it; one that is `retired` never changes.

`ShardServerProperties` maps `ShardServer` to it: `Phase` is decided by the place
in the handler, `answering` in front of the commits, behind which the handler
returns 0, and `dropping` in front of the clean-up and of the last line, which
return -1. `Status` calls a partition retired when it is closed and no SIGINT
handler has yet to destroy it, or when `force_quit` is set.

### RxBurst
A burst lies in `mbuf_in.array`. `mbuf[1..4]` and `data[1..2]` are the registers
`mbuf_1_0`, `mbuf_1_1`, `mbuf_2_0`, `mbuf_2_1`, `data_1_0` and `data_1_1`. `Burst`
reads from the NIC and loads them; `HandOutPair` is one turn of the loop of
`runtime.c:208`, `HandOutLast` one of the tail. Registers and array keep old
values from burst to burst, and two words behind the array are read.

### Pipeline
Packets are numbered and stand for their mbufs. Every place one can be in is a
sequence in `buf`: the input burst of an lcore, an output array, a ring, the NIC
(`Sent`) or the pool (`Freed`). An lcore's turn of its main loop is a list of
operations in `todo`; one step does one of them or handles one packet of the
burst at hand.

| code | actions |
|---|---|
| `app_lcore_main_loop_io`, `_worker` | `IoTurn`, `WorkerTurn` |
| `app_lcore_io_rx`, `app_lcore_io_rx_buffer_to_send`, `app_lcore_io_rx_flush` | `RxReadBurst`, `HandOut`, `RxFlush` |
| `app_lcore_io_tx`, `app_lcore_io_tx_flush` | `TakeForPort`, `TxSend`, `TxFlush` |
| `app_lcore_worker`, `app_lcore_worker_flush` | `TakeBurst`, `Refuse`, `Answer`, `OutFlush` |

`WorkerOf` is the mask of `runtime.c:230`, bit by bit, so that a number of workers
that is no power of two leaves workers out as in the code. What the handler
returns and which port the LPM table gives are free choices, as is the number of packets the NIC takes or hands out.

`Ios` are the I/O lcores and `RingsIn` the order in which a worker polls the rings
from them, the same for every worker since `app_init_rings_rx` appends to the lists
of all workers in turn; that it holds just the lcores that receive is what
`RingsConnect` of `LcoreInit` shows.

### LcoreConfig, Tuning, LcoreInit
The texts of options are the numbers `strtoul` makes of them. One step parses
one tuple with all its checks, in their order, since a later check may fail
after an earlier assignment; the first error ends the program (`refused`), and
a number that is none writes behind four pointers (`crashed`). `Tuning` adds the
three options that are single numbers or lists of them, cut to words of `Width`
bits, and the defaults. In `LcoreInit` one step is one function of `init.c`, and
of `app_init_nics` one port; any DPDK call may fail, which panics. Rings are
named by their ends and the lists they are put in are built as the code's loops
build them. The descriptors of a port's RX and TX queues are adjusted to the
port's alignment and limits, and the adjusted sizes are kept for the next port.

### Client
`main` leaves `Preload` requests per worker in the output arrays; from then on
an answer makes a request. One lcore receives, one transmits, as in
`start_client.sh`. Requests are alike, so the model counts the packets at each
place; `InFlight` adds the counts up by numbering the packets of each place. `Lose` is a request or answer lost outside or refused by the server,
`Refuse` one refused by the client. What the server does in between is nothing
but `Net`. All answers go to the worker `Chosen`: the byte at `pos_lb` is within
the first 64 bytes of the frame and no field there tells requests apart but a
checksum.

### Wire
The struct that client and server lay over the payload has a text of
`MAXBUFSIZE` characters first, and the two sides have different values of it.
`Found(l, off)` is what a reader of the field at `off` finds in a request for
shard `l`; behind the end it finds what the mbuf held before. The type is among
what is read there: with type 1 the worker goes to sleep as in `LockOthers`
(`asleep`).

## 3. What TLC checks

| run | instance | properties |
|---|---|---|
| `Race` | 2 workers, 2 bursts of one packet each, 4 single-partition packets and a multi-partition one, dangling cursors that find `b` | `TypeOK`, `SavepointsBackCount`, `NoTransactionLeftBehind`, `AllOrNothing`, `ImplementsAtomicShards`, `SinglePacketReturns` |
| `Faults` | 1 worker, 3 packets of 12 texts, every store call may fail | `ExactCounts`, `NoTransactionLeftBehind`, `AllOrNothing`, `HandlerReturns` |
| `Mixed` | 1 worker, 4 packets, 11 multi-partition texts among single ones, a SIGINT | `SavepointsBackCount`, `ImplementsAtomicShards`, `HandlerReturns` |
| `Shutdown` | 2 workers, a burst of 2 packets each, multi-partition ones among them, up to 2 SIGINTs, which may overlap, open and destroy may fail | `SavepointsBackCount`, `ImplementsAtomicShards`, `StopsWhenNothingCounted` |
| `Burst` | arrays and bursts of up to 6, 14 packets | `InOrder`, `Complete` |
| `Rings` | one lcore that receives, one that transmits, 2 workers, 1 port, bursts and rings of 2, TX reads of 1, a flush every turn, 3 packets | `TypeOK`, `Conserved`, `ArraysBounded`, `InOrder`, `Settles` |
| `Startup` | 5 lcores, 4 of them enabled, on 2 sockets; 2 ports with 1 queue; up to 5 options of up to 2 tuples; words of 4 bits and half words of 3 | `TypeOK`, `OneReaderPerQueue`, `OneSenderPerPort`, `UnionIntact`, `AnswersHaveASender`, `BurstsFitArrays`, `RingsConnect`, `SingleEnds`, `AnswersHaveARing`, `PoolsThere`, `AlgorithmicErrorsDead`, `RolesStay` |
| `ClosedLoop` | 2 workers, a preload of one burst (2) each, rings of 7, at most one packet lost | `LeaksOnce`, `NeverMore`, `KeepsRunning`, `DriesUp` |

The runs of `ShardServer` use keys `1` and `9`, of which only `1` is below
`NumKeys` = 8, and a database that holds `1`. They set `CHECK_DEADLOCK FALSE`:
a server whose workers have exited, crashed or fallen asleep in a
multi-partition packet has no further step, and whether it should have one is
the business of the liveness properties. So do `Burst` and `OwnLayouts`, where
packets run out, and `Startup`, which ends when the lcores are launched. `Rings`
and `ClosedLoop` check deadlock: lcores that poll never stop.

What the properties say:
- `SavepointsBackCount`: while a partition is open, a positive counter is
  backed by a transaction with that many savepoints. On it rests the
  termination of the clean-up loop. It says nothing of a counter that is zero or
  below zero; in particular not that the multi-partition packet which met one
  (`datastore.c:214`, `server.c:232`) is answered without a commit.
- `ExactCounts`: where no multi-partition packet is executed the counter is never
  negative, is the number of savepoints of the transaction at work, and is 0
  between packets, whatever failed in the last one.
- `NoTransactionLeftBehind`: a handler that has returned leaves no transaction
  on its partition, unless its commit was refused. It is checked where no
  multi-partition packet is executed; such a packet may leave a transaction when
  its counter has reached 0 by a `b` (see `Mixed`, which does not check it).
- `AllOrNothing`: when a commit succeeds, every command attempted succeeded and
  the partition holds what a reference interpreter (`Play`) makes of them; when
  it fails the partition is as it was. It too is checked where no multi-partition
  packet is executed: a single-partition packet that finds the transaction such a
  packet left fails to begin its own and goes on to commit what it found
  (`server.c:98`, `148`).
- `ImplementsAtomicShards`: the refinement. A partition changes only in the step
  in which its own worker answers, never by a dropped packet, and not at all
  once its shutdown is over.
- `HandlerReturns`: a handler returns, unless its database is closed under it.
- `SinglePacketReturns`: the handler of a single-partition packet returns while
  every other worker sleeps for good in a multi-partition packet. While another
  worker is awake nothing of the kind holds: each packet the other one receives
  refills strtok's cursor, and a handler may stay in `while (msg)`
  (`server.c:104-133`) for as long as packets keep coming.
- `StopsWhenNothingCounted`: once `force_quit` is set and no savepoint is counted,
  every worker exits, save one that sleeps in a multi-partition packet
  (`server.c:165-167`): nobody wakes it, and the process does not end.
- These progress properties allow a crash, so the process that dies of a second
  SIGINT violates none of them.
- `InOrder`, `Complete` (`RxBurst`): packets are handed out once, in order and
  by their own data; a burst is finished before the next is read.
- `Conserved`: every mbuf is at one place, once; `ArraysBounded`: the
  arrays of receivers and workers are not written behind their end, and a port's
  array holds no more than the read bursts up to the first that makes a write
  burst (`TxMost`, which may be more than an array has room for, see below);
  `InOrder` (`Pipeline`): packets that share receiving lcore, worker and port are
  answered in the order they came; `Settles`: when no more packets come, what
  stays behind is less than a burst in each ring.
- `OneReaderPerQueue`, `OneSenderPerPort`, `UnionIntact`, `RolesStay`,
  `AnswersHaveASender`, `BurstsFitArrays`: what the tables hold after any
  sequence of options, at every point or once the command line is accepted.
- `RingsConnect`, `SingleEnds`, `AnswersHaveARing`, `PoolsThere`: when the lcores
  are launched, the k-th ring of a receiver leads to the worker of partition k,
  every ring has one end of either kind, every answer has a way out, every queue
  has the pool of the socket of the lcore that reads it, and every worker the
  table of its own socket. `AlgorithmicErrorsDead`: of the consistency checks of `init.c`
  only the one on the number of workers can fail.
- `LeaksOnce`, `NeverMore`, `KeepsRunning`, `DriesUp`: the client leaks at most
  what its preload has over a full array, once (one packet here), and no step
  makes more packets than there were; without a loss it goes
  on for ever; with fewer requests than a worker takes at a time it is silent
  for good.

**Bounds.** `MaxBursts` packets or bursts per worker: what one packet leaves
behind (transaction, counters, cursor) is state the next one meets, and two
packets show each such pair; `Mixed` has four because a counter goes below zero
in the first, is met by the second and counted up again by later ones. Two
workers suffice for races on the cursor, since a third adds only another writer
of the same variable. Two signals: the second one finds the first one's work
half done or done, and its handler runs beside the first or after it. `Burst` has
bursts of every length modulo the stride of two, shorter and longer than the four
registers, one after another on used registers. In `Rings` one burst fills a ring, so the second is refused; three
packets are a burst and a rest, which is what flushes are for. In `Startup` four
of the five options are the mandatory ones, so that one is left to be repeated
or added; two lcores may receive and two work, which is the least for wrong
pairings of rings; words are so short that doubling a number a parser accepts
overflows them. `ClosedLoop` has the preload equal to the burst, the tightest
case that runs, and one loss, which is one too many. It transmits in reads of 1, so
that both outcomes of the comparison with a write burst occur, where
`start_client.sh` has bursts of one size only; with reads of 2, as long as the other
bursts, the four properties hold as well. The server in `Net` answers whatever is not
lost, although a server keeps partial bursts back (`Settles`): `KeepsRunning` is about
the client, given a server that answers.

**Fairness.** `ShardServer`: `WF(Exit(w) \/ Receive(w) \/ Handle(w))` for each
worker: it has an lcore of its own and never blocks except in the wait, where its
action is disabled. Of the arrival of packets nothing is assumed, which is why
`Dequeue` is not in it; `EmptyPoll` changes nothing and asks for no fairness.
`WF(SignalHandler(h))` for each SIGINT: a signal handler that has started runs to
its end. No signal has to come. One thing is assumed of the store: a roll-back to a
savepoint that exists does not fail for ever. A roll-back that fails once more leaves the state
as it is, so weak fairness of the worker asks for one that succeeds. RocksDB
reports an error there only for a missing savepoint, so the assumption is weaker
than what it does; that the savepoint does exist is `SavepointsBackCount`.
`Pipeline`: weak fairness of each lcore's loop, which polls and never waits; the
NIC may hand out nothing for ever. `Client`: the same, and strong fairness of a
read of at least one packet: an answer that is there again and again is read at
some poll. It is why `KeepsRunning` supposes that nothing is lost: what is not
lost is answered. The modules of the start-up state no fairness and no liveness.

**Mutants.** Definitions under a comment `Mutant:` are used by no model. Each is
a wrong variant of a definition translated from the code (a reset forgotten, a
loop one step too long, a test in the wrong place); put in its place, it makes
TLC report the property `PROJECT.json` names beside it.

### Runs that find a disagreement

| run | the repository says | the code does |
|---|---|---|
| `AllCommandsRun` | `server.c:78` go through the commands with a while loop | the `strtok` of the first data command ends the loop; the rest is dropped and the packet committed |
| `OwnCommandsOnly` | `server.c:97` read the commands from the buffer | a handler goes on in the packet of another worker |
| `MultiPartitionExecutes` | `server.c:161` lock all other shards for the duration of the execution | with two workers or more the leader waits for a flag nobody sets, and would return after the wait |
| `OwnLayouts` (`NamedShardOnly`) | `server/include/datastore.h:28` leader shard | `MAXBUFSIZE` is 64 in the client and 1024 in the server, which reads type and leader behind the end of the request |

Further disagreements the models show, for which no run is kept:
- `datastore.c:289` says that with a positive count a transaction should exist;
  `close_database` clears the transaction and not the count. It is why
  `SavepointsBackCount` speaks of open partitions.
- `server.c:266` sets the flag "for thread to exit"; a worker in the clean-up
  loop (`server.c:139`) with a counted savepoint repeats a roll-back on a closed
  database for ever. It is the case `StopsWhenNothingCounted` leaves out.
- `config.c:606-614` accepts TX bursts such as a read of 200 and a write of 512,
  for which `io_tx` (`runtime.c:306`) writes up to 600 packets, `TxMost`, into an
  array of 512: it compares each size with the array and not what they make
  together. `ArraysBounded` holds for such pairs too, with that bound.
- `config.c:610` doubles the TX read burst in 32 bits before it is compared, so
  the double of a very large one wraps and is accepted. `BurstsFitArrays` leaves
  this one size out.
- `config.c:400` counts the workers of one `--w`, not of all, and a worker named
  twice is counted twice. The number of workers may then be no power of two,
  and `data[pos_lb] & (n_workers - 1)` (`runtime.c:230`) never selects some of
  them. `RingsConnect` says where a packet goes for each number the mask gives,
  not that it gives every number.
- Each of `--rx`, `--tx`, `--w` bounds the tuples of one option only, so a second
  `--w` can pass the limit of workers (`config.c:382`). The rings of the workers
  beyond it are put behind the lists of `init.c:239` before the comparison
  panics (`InitRingsRx`, which ends in a panic or in `crashed`).
- `init.c:501-502` store the ring sizes adjusted for one port, and the next port
  starts from them, though `config.c:60` has them as the sizes of each.
- `runtime.c:230` picks a worker by one byte of the frame, so that it "delivers
  packets to different cores" (`runtime.c:236`); the client's requests are alike
  in every byte `pos_lb` may name but the checksum's, so one worker gets them all (`Client.Chosen`, `Wire.Pick`).

## 4. What is proved

TLAPS checks the following for every value of the constants that satisfies the
named assumptions of the modules. Those of `ShardServer` are `NumWorkers` in 1..4
and that texts are nonempty commands, `NULL` is no word, and counters and bounds
are numbers; those of `Pipeline` that there are 1 to 16 workers, that bursts are positive and fit
an array each, that
lists name lcores and ports, and that the rings a worker polls are those of lcores
that receive; those of `LcoreConfig` that limits are numbers; those of
`LcoreInit` that sockets are within the pools and that a null pointer is no pool,
table or ring; those of `Client` that its bursts are positive, which
`config.c:596-604` makes sure of.

| theorem | shows | inductive invariant |
|---|---|---|
| `TypeCorrect`, `CountedSavepointsExist` | `TypeOK`, `SavepointsBackCount` | `IInv` |
| `TransactionsEnd` | `NoTransactionLeftBehind`, if `NoMultiExecuted` | `AllTidy`, beside `IInv` |
| `CommitsAreAllOrNothing` | `AllOrNothing`, if `NoMultiExecuted` | `AllFaithful`, beside `AllTidy` and `IInv` |
| `SavepointsCounted` | `ExactCounts`, if `NoMultiExecuted` | `AllCounted`, beside `AllTidy` and `IInv` |
| `MultiPacketsOnlyWait` | with two workers or more a multi-partition packet is never executed | `AllTidy`, beside `IInv` |
| `ServerImplementsAtomicShards` | `ImplementsAtomicShards` | `Shut`, beside `IInv` |
| `OnlyTheFirstPartition` | the key loop selects partition 0 for a key in `0..Slice-1` and nothing for any other key, for any number of partitions | - |
| `HandsOutInOrder`, `HandsOutAll` | `InOrder` and `Complete` of `RxBurst` | `RxInv` |
| `NoMbufLost` | `Conserved` | `PInv` |
| `PacketsInOrder` | `InOrder` of `Pipeline` | `Orderly`, beside `PInv` |
| `PipelineTypes` | `TypeOK` of `Pipeline` | `Types` |
| `ArraysStayBounded` | `ArraysBounded`, if `OneSender` | `AInv` |
| `ConfigTypes` | `TypeOK` of `LcoreConfig` | `Control`, beside `CInv` |
| `EveryQueueOneReader`, `EveryPortOneSender`, `OneRoleEach`, `AcceptedCanAnswer`, `RolesAreKept` | `OneReaderPerQueue`, `OneSenderPerPort`, `UnionIntact`, `AnswersHaveASender`, `RolesStay`, of the command line | `CInv` |
| `RolesThroughout`, `RolesKeptThroughout` | the same and `TypeOK`, of the whole start-up | `Parsed` |
| `BurstsFit` | `BurstsFitArrays`, if `WordsHoldNumbers` | `BInv` |
| `RingsAgree`, `RingsHaveSingleEnds`, `AnswersFindRings`, `PoolsAreThere`, `ComparisonsHold` | `RingsConnect`, `SingleEnds`, `AnswersHaveARing`, `PoolsThere`, `AlgorithmicErrorsDead` | `SInv` |
| `InFlightNeverGrows` | `NeverMore` | the type of `at` |
| `PreloadLeaksOnce` | `LeaksOnce` | `LInv` |

**The handler.** `IInv` is `TypeOK`, `HandlerOK`, `AllAlone`, `NothingToDiscard` and
`SavepointsBackCount`. `TypeOK` alone is not inductive: a worker that takes the next
packet of its burst must have one left, and `Apply` needs a key and a data command,
which is `HandlerOK`. `Discard` deletes a transaction without clearing the counter,
which is harmless because a savepoint fails only where there is no transaction
(`NothingToDiscard`) and the partition is the worker's own (`AllAlone`).
Savepoints and types are carried together, since both speak of the stack of a
partition: each step that takes a savepoint or a transaction away lowers or
clears the counter or closes the partition, and each step that raises a counter
adds a savepoint. The lemmas at the head of `ShardServerProofs` say so function by
function, and `StoreStep` carries them to all partitions. `ShardServerProofs` has one lemma
per group of actions: the store and its counters first, then control and texts,
then `InvariantStep`.

`AllTidy` says at which places of the handler its partition may have an
unfinished transaction, and that a handler works on its own partition only.
`NoMultiExecuted` (more than one worker, or no multi-partition packet) is needed:
with one worker such a packet does leave a transaction, as said above, and the
next packet commits it. With more than one, `AllTidy` also says that such a packet
gets no further than the wait, which is `MultiPacketsOnlyWait` and the general form
of what the run `MultiPartitionExecutes` finds.

`SavepointsBackCount` bounds the counter by the savepoints, so that the clean-up
loop ends; `SavepointsCounted` is the other half, that no savepoint goes uncounted:
the loop undoes the whole packet, and the next one counts from 0 whatever became of
the last. `AllCounted` adds to it that nothing is counted before the first savepoint
and that a handler at work never holds a transaction whose commit was refused.

**All or nothing.** `AllFaithful` relates three records of the same packet: the
history of commands, RocksDB's transaction and `ret`. At every place of the handler
where no attempted command has failed, a transaction that can still be committed
has the savepoints and the view that `Played` computes from the history and the
contents of the partition. `SavepointPlays`, `RollbackPlays` and `OperatePlays` say
that one more command does the same to both. What `Played` computes is shown by
induction over the length of the history: the library's induction rules take an
operator and cannot be used, so `AllNumbers` states the rule for sets of numbers (a
set that holds 0 and the successor of each member is `Nat`), from the
well-foundedness of `<`, and `StacksExist` and `StacksAgree` use it. Nothing is said
of where the commands came from: the theorem holds although `OwnCommandsOnly` does
not.

The refinement needs no such restriction. Only a commit changes the contents of
an open partition, and a commit is made on the way to an answer only; the one step
in question is a multi-partition commit, which would change every partition in turn.
`AllAlone` says that a worker gets that far only if it is the only one, so that the
one partition is its own. `Shut` says that behind a SIGINT handler, and once
`force_quit` is set, no database is open, so that the loop of another handler finds
closed ones there. Every action is then shown to map to a step of `AtomicShards` or
to a stutter.

**The registers.** `RxInv` says which packet each register holds, as far as the
burst goes, in terms of the place `j` in the burst.

**The pipeline.** `PInv` adds to `Conserved` that an array which a packet may
join is below the size of a burst. Without it the packets of an array could be
more than the bulk that is enqueued and freed, and the rest be lost when
`n_mbufs` is set to 0, which is what happens in the client. `AInv` adds what a
port's array may hold between `io_tx`'s append and its send, which rests on one
lcore sending on the port (`OneSender`, that is `OneSenderPerPort`): a number of
whole read bursts, less than a write burst and one read burst together, which is
`TxMost`. Nothing is assumed of how the two bursts fit the array, since the parser
does not see to it. `Types` adds to `TypeOK` that the loop
counters stay below their limits, which is what resets them.

The order of packets is stated along roads: the places a packet passes that is
received by one lcore, handled by one worker and sent on one port. `Orderly` says
that along every road the packets that were received by its lcore for its worker
stand in the order they came, and that a packet is nowhere but on its own roads
(`Home`). Every move is a hop from the head of one place to the tail of the next on
each road both lie on (`Hop`), takes a prefix and keeps its order, so order along
the roads is kept; a packet that leaves for the pool leaves a shorter sequence.

**The configuration.** `CInv` adds to the properties that the lists hold nothing
that is not marked, since the masks and not the lists are what a new tuple is
compared with, and that the checks at the end hold once they have been passed.
`Control` is what there is besides: phase, error code and counters. `Parsed` is the
two together; `StartupProofs` shows that the options of `Tuning` and the functions of
`init.c` keep it, and so that what is proved of the command line alone holds from
there to the launch.
`BInv` says the same of burst sizes: whatever `--bsz` left is refused or good.
Its one assumption, that 2 to the width of a word is a positive number, is
beyond the provers.

**The start-up.** `SInv` says, function by function of `init.c`, what has been
made when a later one starts, in terms of the roles, which are frozen once the
command line is accepted. Ids and ring lists come from loops over the same
lcores; `Places`, `PlacesTaken` and `OrderedFacts` show that counting the lcores
before one gives each member of a set a place of its own and leaves no place
empty, so the k-th ring and the worker with id k - 1 are the same. From `CInv`
come the one reader of a queue and the one sender of a port that init.c looks
for, which is where the composition with the command line is used.

**The client.** `NeverMore` needs an induction only for the type of the counts:
each step takes packets from one place and puts no more at another, and
`Cardinality` of the numbered packets follows. `LInv` says how the one leak comes
about: answers go to one worker, whose array main filled; until that worker touches
it for the first time it holds the preload, and from then on less than a burst, so
that what is leaked is what the first touch finds too much. With a single worker the
array is flushed before an answer can come.

Only model-checked: the liveness properties (`HandlerReturns`,
`SinglePacketReturns`, `StopsWhenNothingCounted`, `Settles`, `KeepsRunning`,
`DriesUp`), which are outside the prover's reach. Every other property of the
passing runs is a theorem. Of the four disagreements the runs only show that they
happen.

## 5. Not modelled

- Usage texts, printing of parameters, statistics and the drop-all builds, which
  are off; waiting for the link; the contents of headers and checksums. None
  changes a state that a property speaks of.
- The client's copy of the data store, `common.h` and the build and start
  scripts: never called, never used, nothing at run time.
- More than four workers: `workers[]` has four places and the fifth writes behind
  it. `NumWorkersAssumption` keeps to four. In the same way lcores whose socket
  is beyond the pools, and ports numbered 16 or more in `tx.mbuf_out`, are
  outside the models; more receivers than `rings_in` has places end in `crashed`.
- SIGINT while the program starts, and the restart of a server that died: the
  code keeps nothing from one run for the next, and destroys its databases when
  it stops; what RocksDB recovers is RocksDB's.
- Duplicated packets. The server keeps no record of what it has answered, so a
  duplicate is another packet to it. In `Client` an answer is lost or it comes,
  once.
- The whole system in one model. The handler and the pipeline meet in one place,
  the call of `process_pkt`, and share no other variable: `Pipeline` takes any
  answer of the handler, and `ShardServer` any order and choice of packets. The
  client meets the server only through the packets in `Net`. What a joint model
  would add is the layout of a request, which is `Wire`.
