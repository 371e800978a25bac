----------------------------- MODULE ShardServer -----------------------------
(***************************************************************************)
(* The worker threads of the shardb server.  Worker w polls its ring,      *)
(* takes a burst of packets off it and runs handle_db_message on each one. *)
(* A packet is a text of commands for one partition (msgtype 0, run by the *)
(* worker whose number the packet names as leader) or for several          *)
(* (msgtype 1).  Partition i of the store belongs to worker i.  The        *)
(* workers share the store, the transaction_done flags and, unawares, the  *)
(* cursor of strtok.  SIGINT closes and destroys the databases and asks    *)
(* the threads to stop.  Each SIGINT has a handler, which is a process of  *)
(* its own here: the signal may arrive between any two steps of any        *)
(* worker, and, taken by another thread, while the handler of an earlier   *)
(* one is still at work.                                                   *)
(*                                                                         *)
(* One step is at most one call of strtok or of the store: two workers     *)
(* interleave between such calls and nowhere else.  A token is read when   *)
(* strtok returns it.                                                      *)
(***************************************************************************)
EXTENDS Integers, StrTok, Datastore, PartitionMap

CONSTANTS NumWorkers,   \* number of worker lcores, hence of partitions in use
          NumKeys,      \* MAX_NUM_KEYS
          Num,          \* atoi: the number a word starts with, 0 if none
          Packets,      \* the packets a client may send
          Garbage,      \* texts found behind a cursor into a dead stack frame
          FirstDb,      \* contents of a database directory at start
          ReadBurst,    \* bsz_rd of the workers
          MaxBursts,    \* bound: bursts a worker receives in a run
          MaxSignals    \* bound: SIGINTs in a run

Workers    == 0..(NumWorkers - 1)
MsgTypes   == {"single", "multi", "other"}
Handlers   == 1..MaxSignals           \* the SIGINT handlers of a run
PacketType == [type : MsgTypes, leader : Nat, text : Texts(Words)]

\* workers[MAX_WORKER_CORE] bounds the number of workers the server can hold.
ASSUME NumWorkersAssumption == NumWorkers \in 1..4
ASSUME NullAssumption       == NULL \notin Words
ASSUME NumAssumption        == NumKeys \in Nat /\ Num \in [Words -> Int]
ASSUME PacketsAssumption    == Packets \subseteq PacketType
ASSUME GarbageAssumption    == Garbage \subseteq Texts(Words)
                               /\ Garbage # {}
ASSUME FirstDbAssumption    == FirstDb \in Contents
ASSUME BoundsAssumption     == /\ ReadBurst \in Nat \ {0}
                               /\ MaxBursts \in Nat
                               /\ MaxSignals \in Nat

VARIABLES
  pc,               \* where each worker is
  left,             \* packets of its burst still to be handled
  bursts,           \* bursts it has received
  pkt, msg, key, val, ret, part, doomed,  \* locals of its handler
  ran,              \* history: commands its handler has attempted
  cursor,           \* strtok's static pointer: whose frame, and the rest there
  shard,            \* the partitions
  savepoint_count,  \* per partition, kept by the handlers beside the store
  done,             \* transaction_done of each worker
  sig,              \* each SIGINT handler: the partition it is at, -1 before
  copied,           \* it has a copy of that partition's db_path
  quit,             \* app.force_quit; the options are destroyed
  crashed           \* the process took a fatal signal

locals == <<pkt, key, val, part, doomed>>
store  == <<shard, savepoint_count>>
ring   == <<left, bursts>>
irq    == <<sig, copied, quit>>
vars   == <<pc, ring, locals, msg, ret, ran, cursor, store, done, irq, crashed>>

NoPacket == [type |-> "other", leader |-> 0, text |-> <<>>]
Between  == {"poll", "ready", "exited"}       \* outside the handler
Places   == Between \cup
            {"ignore", "begin", "savepoint", "discard", "command", "value", "locate",
             "first", "apply", "next", "rollback", "commit", "lock", "mrollback", "mcommit"}

\* Four databases are opened (datastore.c:415); those from NumWorkers on are
\* left out, since no loop of the handlers or of int_handler gets to them.
Init ==
  /\ pc      = [w \in Workers |-> "poll"]
  /\ left    = [w \in Workers |-> 0]
  /\ bursts  = [w \in Workers |-> 0]
  /\ pkt     = [w \in Workers |-> NoPacket]
  /\ msg     = [w \in Workers |-> NoCommand]
  /\ key     = [w \in Workers |-> NULL]
  /\ val     = [w \in Workers |-> NULL]
  /\ ret     = [w \in Workers |-> "unset"]
  /\ part    = [w \in Workers |-> w]
  /\ doomed  = [w \in Workers |-> FALSE]
  /\ ran     = [w \in Workers |-> <<>>]
  /\ cursor  = [own |-> NULL, rest |-> <<>>]
  /\ shard   \in [Workers -> open_database(FirstDb)]
  /\ savepoint_count = [i \in Workers |-> 0]
  /\ done    = [w \in Workers |-> FALSE]
  /\ sig     = [h \in Handlers |-> -1]
  /\ copied  = [h \in Handlers |-> FALSE]
  /\ quit    = FALSE
  /\ crashed = FALSE

-----------------------------------------------------------------------------
(* Steps shared by the handlers.                                           *)

Multi(w) == pkt[w].type = "multi"
At(w, place) == ~crashed /\ pc[w] = place
Goto(w, place) == pc' = [pc EXCEPT ![w] = place]

\* The process dies: nothing else it would have done matters.
Crash == /\ crashed' = TRUE
         /\ UNCHANGED <<pc, ring, locals, msg, ret, ran, cursor, store, done, irq>>

\* A cursor into the frame of a handler that returns points at whatever the
\* stack holds there.
LeaveFrame(w) ==
  IF cursor.own = w
  THEN \E g \in Garbage : cursor' = [own |-> NULL, rest |-> g]
  ELSE UNCHANGED cursor

\* Mutant: the loop over the burst takes one packet too many.
ReturnLate(w) ==
  /\ Goto(w, IF left[w] >= 0 THEN "ready" ELSE "poll")
  /\ LeaveFrame(w)

\* Leaving handle_db_message, for the next packet of the burst if there is one.
Return(w) ==
  /\ Goto(w, IF left[w] > 0 THEN "ready" ELSE "poll")
  /\ LeaveFrame(w)

Attempted(w, command) == ran' = [ran EXCEPT ![w] = Append(@, command)]

-----------------------------------------------------------------------------
(* The worker's main loop: poll, take a burst, handle each packet of it.   *)

\* rte_ring_sc_dequeue_bulk: a whole burst or nothing.
Dequeue(w) ==
  /\ At(w, "poll") /\ ~quit
  /\ bursts[w] < MaxBursts
  /\ left'   = [left EXCEPT ![w] = ReadBurst]
  /\ bursts' = [bursts EXCEPT ![w] = @ + 1]
  /\ Goto(w, "ready")
  /\ UNCHANGED <<locals, msg, ret, ran, cursor, store, done, irq, crashed>>

EmptyPoll(w) == At(w, "poll") /\ ~quit /\ UNCHANGED vars

Exit(w) ==
  /\ At(w, "poll") /\ quit
  /\ Goto(w, "exited")
  /\ UNCHANGED <<ring, locals, msg, ret, ran, cursor, store, done, irq, crashed>>

\* The head of handle_db_message: copy the text, strtok it, look at the header.
Receive(w) ==
  /\ At(w, "ready")
  /\ left' = [left EXCEPT ![w] = @ - 1]
  /\ \E p \in Packets :
       /\ pkt'    = [pkt EXCEPT ![w] = p]
       /\ msg'    = [msg EXCEPT ![w] = NextCommand(p.text)]
       /\ cursor' = [own |-> w, rest |-> AfterCommand(p.text)]
       /\ Goto(w, CASE p.type = "single" /\ p.leader = w -> "begin"
                    [] p.type = "multi" -> "lock"
                    [] OTHER -> "ignore")
  /\ ret'    = [ret EXCEPT ![w] = "unset"]
  /\ key'    = [key EXCEPT ![w] = NULL]
  /\ val'    = [val EXCEPT ![w] = NULL]
  /\ part'   = [part EXCEPT ![w] = w]
  /\ doomed' = [doomed EXCEPT ![w] = FALSE]
  /\ ran'    = [ran EXCEPT ![w] = <<>>]
  /\ UNCHANGED <<bursts, store, done, irq, crashed>>

\* Not this worker's packet, or of an unknown type: return -1.
Ignore(w) ==
  /\ At(w, "ignore")
  /\ Return(w)
  /\ UNCHANGED <<ring, locals, msg, ret, ran, store, done, irq, crashed>>

-----------------------------------------------------------------------------
(* A packet for one partition: the worker's own transaction.               *)

\* When the transaction cannot begin the handler still goes on to the commit.
BeginTransaction(w) ==
  /\ At(w, "begin")
  /\ \E r \in begin_transaction(shard[w]) :
       /\ shard' = [shard EXCEPT ![w] = r.shard]
       /\ ret'   = [ret EXCEPT ![w] = r.ret]
       /\ Goto(w, IF r.ret = "ok" THEN "savepoint" ELSE "commit")
  /\ UNCHANGED <<ring, locals, msg, ran, cursor, savepoint_count, done, irq, crashed>>

FirstSavepoint(w) ==
  /\ At(w, "savepoint")
  /\ \E r \in set_savepoint(shard[w]) :
       IF r.ret = "ok"
       THEN /\ shard' = [shard EXCEPT ![w] = r.shard]
            /\ savepoint_count' = [savepoint_count EXCEPT ![w] = @ + 1]
            /\ ret' = [ret EXCEPT ![w] = r.ret]
            /\ Attempted(w, <<"s">>)
            /\ Goto(w, "command")
       ELSE Goto(w, "discard") /\ UNCHANGED <<store, ran, ret>>
  /\ UNCHANGED <<ring, locals, msg, cursor, done, irq, crashed>>

\* delete_transaction where the first savepoint failed, in either kind of
\* packet: a single one goes on to the commit, in a multi-partition one the
\* command fails.
Discard(w) ==
  /\ At(w, "discard")
  /\ shard' = [shard EXCEPT ![part[w]] = delete_transaction(@)]
  /\ ret'   = [ret EXCEPT ![w] = IF Multi(w) THEN "err" ELSE @]
  /\ Goto(w, IF Multi(w) THEN "next" ELSE "commit")
  /\ UNCHANGED <<ring, locals, msg, ran, cursor, savepoint_count, done, irq, crashed>>

SetSavepoint(w) ==
  /\ At(w, "command") /\ msg[w] # NoCommand /\ Head(msg[w]) = "s" /\ ~Multi(w)
  /\ \E r \in set_savepoint(shard[w]) :
       /\ shard' = [shard EXCEPT ![w] = r.shard]
       /\ ret'   = [ret EXCEPT ![w] = r.ret]
       /\ savepoint_count' =
            [savepoint_count EXCEPT ![w] = IF r.ret = "ok" THEN @ + 1 ELSE @]
  /\ Attempted(w, <<"s">>)
  /\ Goto(w, "next")
  /\ UNCHANGED <<ring, locals, msg, cursor, done, irq, crashed>>

\* Mutant: the roll-back is not counted.
UncountedRollback(w) ==
  /\ At(w, "command") /\ msg[w] # NoCommand /\ Head(msg[w]) = "b" /\ ~Multi(w)
  /\ \E r \in rollback_to_last_savepoint(shard[w]) :
       /\ shard' = [shard EXCEPT ![w] = r.shard]
       /\ ret'   = [ret EXCEPT ![w] = r.ret]
  /\ Attempted(w, <<"b">>)
  /\ Goto(w, "next")
  /\ UNCHANGED <<ring, locals, msg, cursor, savepoint_count, done, irq, crashed>>

\* Mutant: a roll-back that failed is counted too, as in handle_multidb_rollback.
FailureCounted(w) ==
  /\ At(w, "command") /\ msg[w] # NoCommand /\ Head(msg[w]) = "b" /\ ~Multi(w)
  /\ \E r \in rollback_to_last_savepoint(shard[w]) :
       /\ shard' = [shard EXCEPT ![w] = r.shard]
       /\ ret'   = [ret EXCEPT ![w] = r.ret]
  /\ savepoint_count' = [savepoint_count EXCEPT ![w] = @ - 1]
  /\ Attempted(w, <<"b">>)
  /\ Goto(w, "next")
  /\ UNCHANGED <<ring, locals, msg, cursor, done, irq, crashed>>

RollbackToSavepoint(w) ==
  /\ At(w, "command") /\ msg[w] # NoCommand /\ Head(msg[w]) = "b" /\ ~Multi(w)
  /\ \E r \in rollback_to_last_savepoint(shard[w]) :
       /\ shard' = [shard EXCEPT ![w] = r.shard]
       /\ ret'   = [ret EXCEPT ![w] = r.ret]
       /\ savepoint_count' =
            [savepoint_count EXCEPT ![w] = IF r.ret = "ok" THEN @ - 1 ELSE @]
  /\ Attempted(w, <<"b">>)
  /\ Goto(w, "next")
  /\ UNCHANGED <<ring, locals, msg, cursor, done, irq, crashed>>

\* A failed command: undo as many savepoints as are counted, however often
\* the store refuses, then drop the transaction and return -1.
UndoSavepoint(w) ==
  /\ At(w, "rollback") /\ savepoint_count[w] > 0
  /\ \E r \in rollback_to_last_savepoint(shard[w]) :
       /\ shard' = [shard EXCEPT ![w] = r.shard]
       /\ ret'   = [ret EXCEPT ![w] = r.ret]
       /\ savepoint_count' =
            [savepoint_count EXCEPT ![w] = IF r.ret = "ok" THEN @ - 1 ELSE @]
  /\ UNCHANGED <<pc, ring, locals, msg, ran, cursor, done, irq, crashed>>

DropTransaction(w) ==
  /\ At(w, "rollback") /\ savepoint_count[w] <= 0
  /\ shard' = [shard EXCEPT ![w] = delete_transaction(@)]
  /\ Return(w)
  /\ UNCHANGED <<ring, locals, msg, ret, ran, savepoint_count, done, irq, crashed>>

\* Mutant: the counter is not cleared.
CommitStillCounted(w) ==
  /\ At(w, "commit")
  /\ \E r \in commit_transaction(shard[w]) :
       /\ shard' = [shard EXCEPT ![w] = r.shard]
       /\ ret'   = [ret EXCEPT ![w] = r.ret]
  /\ Return(w)
  /\ UNCHANGED <<ring, locals, msg, ran, savepoint_count, done, irq, crashed>>

\* Whatever the commit says, the counter is cleared and the packet answered.
Commit(w) ==
  /\ At(w, "commit")
  /\ \E r \in commit_transaction(shard[w]) :
       /\ shard' = [shard EXCEPT ![w] = r.shard]
       /\ ret'   = [ret EXCEPT ![w] = r.ret]
  /\ savepoint_count' = [savepoint_count EXCEPT ![w] = 0]
  /\ Return(w)
  /\ UNCHANGED <<ring, locals, msg, ran, done, irq, crashed>>

-----------------------------------------------------------------------------
(* The command loop, common to the two kinds of packet.                    *)

EndOfText(w) ==
  /\ At(w, "command") /\ msg[w] = NoCommand
  /\ IF Multi(w) THEN /\ Goto(w, "mcommit")
                      /\ part' = [part EXCEPT ![w] = 0]
                 ELSE Goto(w, "commit") /\ UNCHANGED part
  /\ UNCHANGED <<ring, pkt, key, val, doomed, msg, ret, ran, cursor, store,
                 done, irq, crashed>>

IsData(command) == command # NoCommand /\ Head(command) \in {"r", "w", "d"}

\* strtok(val, " ") on a copy of the command's arguments.
TakeKey(w) ==
  /\ At(w, "command") /\ IsData(msg[w])
  /\ LET args == Arguments(msg[w]) IN
     IF args = <<>> THEN Crash
     ELSE /\ key'    = [key EXCEPT ![w] = NextWord(args)]
          /\ cursor' = [own |-> w, rest |-> AfterWord(args)]
          /\ Goto(w, IF Head(msg[w]) = "w" THEN "value"
                     ELSE IF Multi(w) THEN "locate" ELSE "apply")
          /\ UNCHANGED <<ring, pkt, val, part, doomed, msg, ret, ran, store,
                         done, irq, crashed>>

\* strtok(NULL, " "): the next word behind the shared cursor.
TakeValue(w) ==
  /\ At(w, "value")
  /\ val'    = [val EXCEPT ![w] = NextWord(cursor.rest)]
  /\ cursor' = [cursor EXCEPT !.rest = AfterWord(@)]
  /\ Goto(w, IF Multi(w) THEN "locate" ELSE "apply")
  /\ UNCHANGED <<ring, pkt, key, part, doomed, msg, ret, ran, store, done, irq, crashed>>

\* The command itself; strlen(NULL) when a write has no value.
Apply(w) ==
  /\ At(w, "apply")
  /\ LET op == Head(msg[w])
         i  == part[w] IN
     IF op = "w" /\ val[w] = NULL THEN Crash
     ELSE /\ \E r \in Operate(op, key[w], val[w], shard[i]) :
               /\ shard' = [shard EXCEPT ![i] = r.shard]
               /\ ret'   = [ret EXCEPT ![w] = r.ret]
          /\ Attempted(w, IF op = "w" THEN <<op, key[w], val[w]>> ELSE <<op, key[w]>>)
          /\ Goto(w, "next")
          /\ UNCHANGED <<ring, locals, msg, cursor, savepoint_count, done, irq, crashed>>

\* A word that is no command is skipped; ret keeps its last value.
SkipUnknown(w) ==
  /\ At(w, "command") /\ msg[w] # NoCommand
  /\ Head(msg[w]) \notin {"r", "w", "d", "s", "b"}
  /\ Goto(w, "next")
  /\ UNCHANGED <<ring, locals, msg, ret, ran, cursor, store, done, irq, crashed>>

\* Mutant: the end of the text is noticed before the failure of its last command.
CarelessEnd(w) ==
  /\ At(w, "next")
  /\ msg'    = [msg EXCEPT ![w] = NextCommand(cursor.rest)]
  /\ cursor' = [cursor EXCEPT !.rest = AfterCommand(@)]
  /\ IF ret[w] = "err" /\ cursor.rest # <<>>
     THEN /\ Goto(w, IF Multi(w) THEN "mrollback" ELSE "rollback")
          /\ part' = [part EXCEPT ![w] = IF Multi(w) THEN 0 ELSE @]
     ELSE Goto(w, "command") /\ UNCHANGED part
  /\ UNCHANGED <<ring, pkt, key, val, doomed, ret, ran, store, done, irq, crashed>>

\* strtok(NULL, "@") behind the shared cursor, and only then the test of ret,
\* which may not have been assigned yet.
TakeCommand(w) ==
  /\ At(w, "next")
  /\ msg'    = [msg EXCEPT ![w] = NextCommand(cursor.rest)]
  /\ cursor' = [cursor EXCEPT !.rest = AfterCommand(@)]
  /\ \E failed \in {r = "err" : r \in IF ret[w] = "unset" THEN {"ok", "err"} ELSE {ret[w]}} :
       IF failed
       THEN /\ Goto(w, IF Multi(w) THEN "mrollback" ELSE "rollback")
            /\ part' = [part EXCEPT ![w] = IF Multi(w) THEN 0 ELSE @]
       ELSE Goto(w, "command") /\ UNCHANGED part
  /\ UNCHANGED <<ring, pkt, key, val, doomed, ret, ran, store, done, irq, crashed>>

-----------------------------------------------------------------------------
(* A packet for several partitions.                                        *)

\* The wait for the other workers: at the first partition that is not the
\* leader's the handler sleeps until that worker's transaction_done is set,
\* and then returns -1.  Only the leader of a server with one worker passes.
LockOthers(w) ==
  /\ At(w, "lock")
  /\ LET others == {i \in Workers : i # pkt[w].leader}
         first  == CHOOSE i \in others : \A j \in others : i <= j IN
     IF others = {}
     THEN /\ done' = [done EXCEPT ![pkt[w].leader] = FALSE]
          /\ Goto(w, "command")
          /\ UNCHANGED cursor
     ELSE done[first] /\ Return(w) /\ UNCHANGED done
  /\ UNCHANGED <<ring, locals, msg, ret, ran, store, irq, crashed>>

\* The partition of a key, where a transaction begins unless savepoint_count
\* says that there is one.
Locate(w) ==
  /\ At(w, "locate")
  /\ LET i == PartitionOf(Num[key[w]], NumKeys, NumWorkers)
         Refuse == /\ ret' = [ret EXCEPT ![w] = "err"]
                   /\ Goto(w, "next")
                   /\ UNCHANGED <<part, shard>>
         Proceed(place) == part' = [part EXCEPT ![w] = i] /\ Goto(w, place) /\ UNCHANGED ret IN
     \/ i = NoPartition /\ Refuse
     \/ /\ i # NoPartition /\ savepoint_count[i] # 0
        /\ Proceed("apply") /\ UNCHANGED shard
     \/ /\ i # NoPartition /\ savepoint_count[i] = 0
        /\ \E r \in begin_transaction(shard[i]) :
             IF r.ret = "ok" THEN Proceed("first") /\ shard' = [shard EXCEPT ![i] = r.shard]
                             ELSE Refuse
  /\ UNCHANGED <<ring, pkt, key, val, doomed, msg, ran, cursor, savepoint_count,
                 done, irq, crashed>>

\* The first savepoint on the partition of a key.
MultiFirstSavepoint(w) ==
  /\ At(w, "first")
  /\ \E r \in set_savepoint(shard[part[w]]) :
       IF r.ret = "ok"
       THEN /\ shard' = [shard EXCEPT ![part[w]] = r.shard]
            /\ savepoint_count' = [savepoint_count EXCEPT ![part[w]] = 1]
            /\ Attempted(w, <<"s">>)
            /\ Goto(w, "apply")
       ELSE Goto(w, "discard") /\ UNCHANGED <<store, ran>>
  /\ UNCHANGED <<ring, locals, msg, ret, cursor, done, irq, crashed>>

\* The loop over the partitions stops where the operation fails; it is
\* attempted where savepoint_count is positive.
MultiSetSavepoint(w) ==
  /\ At(w, "command") /\ msg[w] # NoCommand /\ Head(msg[w]) = "s" /\ Multi(w)
  /\ \E stop \in 0..NumWorkers :
       LET Counted(i) == i < stop /\ savepoint_count[i] > 0 IN
       /\ \A i \in Workers : Counted(i) => Usable(shard[i])
       /\ stop < NumWorkers => savepoint_count[stop] > 0 /\ ~Usable(shard[stop])
       /\ shard' = [i \in Workers |-> IF Counted(i) THEN Saved(shard[i]) ELSE shard[i]]
       /\ savepoint_count' = [i \in Workers |->
                     IF Counted(i) THEN savepoint_count[i] + 1 ELSE savepoint_count[i]]
       /\ ret' = [ret EXCEPT ![w] = IF stop = NumWorkers THEN "ok" ELSE "err"]
  /\ Attempted(w, <<"s">>)
  /\ Goto(w, "next")
  /\ UNCHANGED <<ring, locals, msg, cursor, done, irq, crashed>>

\* The counter goes down on every partition passed, counted or not.
MultiRollback(w) ==
  /\ At(w, "command") /\ msg[w] # NoCommand /\ Head(msg[w]) = "b" /\ Multi(w)
  /\ \E stop \in 0..NumWorkers :
       LET Counted(i)  == i < stop /\ savepoint_count[i] > 0
           Outcomes(i) == rollback_to_last_savepoint(shard[i]) IN
       /\ \A i \in Workers : Counted(i) => \E r \in Outcomes(i) : r.ret = "ok"
       /\ stop < NumWorkers => /\ savepoint_count[stop] > 0
                               /\ \E r \in Outcomes(stop) : r.ret = "err"
       /\ shard' = [i \in Workers |->
                     IF Counted(i) THEN RolledBack(shard[i]) ELSE shard[i]]
       /\ savepoint_count' = [i \in Workers |->
                     IF i < stop THEN savepoint_count[i] - 1 ELSE savepoint_count[i]]
       /\ ret' = [ret EXCEPT ![w] = IF stop = NumWorkers THEN "ok" ELSE "err"]
  /\ Attempted(w, <<"b">>)
  /\ Goto(w, "next")
  /\ UNCHANGED <<ring, locals, msg, cursor, done, irq, crashed>>

\* The two loops that end the packet, one partition at a time: part counts
\* them, Finish moves on to the next one or leaves the handler after the last.
\* What these loops assign to ret is never read.
Finish(w) ==
  /\ done' = [done EXCEPT ![part[w]] = @ \/ part[w] # pkt[w].leader]
  /\ IF part[w] = NumWorkers - 1
     THEN Return(w) /\ UNCHANGED part
     ELSE part' = [part EXCEPT ![w] = @ + 1] /\ UNCHANGED <<pc, cursor>>

MultiUndoSavepoint(w) ==
  /\ At(w, "mrollback") /\ savepoint_count[part[w]] > 0
  /\ \E r \in rollback_to_last_savepoint(shard[part[w]]) :
       /\ shard' = [shard EXCEPT ![part[w]] = r.shard]
       /\ savepoint_count' =
            [savepoint_count EXCEPT ![part[w]] = IF r.ret = "ok" THEN @ - 1 ELSE @]
  /\ doomed' = [doomed EXCEPT ![w] = TRUE]
  /\ UNCHANGED <<pc, ring, pkt, key, val, part, msg, ret, ran, cursor, done,
                 irq, crashed>>

\* Mutant: a commit in the place of the delete.
MultiDropCommitting(w) ==
  /\ At(w, "mrollback") /\ savepoint_count[part[w]] <= 0
  /\ \E r \in commit_transaction(shard[part[w]]) : shard' = [shard EXCEPT ![part[w]] = r.shard]
  /\ doomed' = [doomed EXCEPT ![w] = FALSE]
  /\ Finish(w)
  /\ UNCHANGED <<ring, pkt, key, val, msg, ret, ran, savepoint_count, irq, crashed>>

\* A transaction is deleted only where a savepoint was counted (tx_to_delete).
MultiDropTransaction(w) ==
  /\ At(w, "mrollback") /\ savepoint_count[part[w]] <= 0
  /\ shard'  = [shard EXCEPT ![part[w]] = IF doomed[w] THEN delete_transaction(@) ELSE @]
  /\ doomed' = [doomed EXCEPT ![w] = FALSE]
  /\ Finish(w)
  /\ UNCHANGED <<ring, pkt, key, val, msg, ret, ran, savepoint_count, irq, crashed>>

\* A transaction is committed only where a savepoint is counted.
MultiCommit(w) ==
  /\ At(w, "mcommit")
  /\ LET i == part[w] IN
     IF savepoint_count[i] > 0
     THEN /\ \E r \in commit_transaction(shard[i]) : shard' = [shard EXCEPT ![i] = r.shard]
          /\ savepoint_count' = [savepoint_count EXCEPT ![i] = 0]
     ELSE UNCHANGED store
  /\ Finish(w)
  /\ UNCHANGED <<ring, pkt, key, val, doomed, msg, ret, ran, irq, crashed>>

Handle(w) ==
  \/ Ignore(w)
  \/ BeginTransaction(w) \/ FirstSavepoint(w) \/ Discard(w)
  \/ SetSavepoint(w) \/ RollbackToSavepoint(w)
  \/ UndoSavepoint(w) \/ DropTransaction(w) \/ Commit(w)
  \/ EndOfText(w) \/ TakeKey(w) \/ TakeValue(w) \/ Apply(w)
  \/ SkipUnknown(w) \/ TakeCommand(w)
  \/ LockOthers(w) \/ Locate(w) \/ MultiFirstSavepoint(w)
  \/ MultiSetSavepoint(w) \/ MultiRollback(w)
  \/ MultiUndoSavepoint(w) \/ MultiDropTransaction(w) \/ MultiCommit(w)

Worker(w) ==
  Dequeue(w) \/ EmptyPoll(w) \/ Exit(w) \/ Receive(w) \/ Handle(w)

-----------------------------------------------------------------------------
(* SIGINT.                                                                 *)

RaiseSignal(h) ==
  /\ ~crashed /\ sig[h] = -1
  /\ \A g \in Handlers : g < h => sig[g] # -1
  /\ \E w \in Workers : pc[w] # "exited"
  /\ sig' = [sig EXCEPT ![h] = 0]
  /\ UNCHANGED <<pc, ring, locals, msg, ret, ran, cursor, store, done, copied, quit, crashed>>

\* strcpy of the path; one that was cleared is fatal.
CopyPath(h) ==
  /\ ~crashed /\ sig[h] \in Workers /\ ~copied[h]
  /\ IF shard[sig[h]].handle = "closed" THEN Crash
     ELSE /\ copied' = [copied EXCEPT ![h] = TRUE]
          /\ UNCHANGED <<pc, ring, locals, msg, ret, ran, cursor, store, done, sig,
                         quit, crashed>>

\* A worker whose handler is at work on partition i may be inside a call on it.
InUse(i) == \E w \in Workers :
  /\ pc[w] \notin Between \cup {"ignore", "lock"}
  /\ part[w] = i

\* A handler that has copied the path of partition i and has yet to close it.
Closing(h, i) == sig[h] = i /\ copied[h]

\* close_database and destroy_database.  Closing a database under a call, or
\* twice at once, may be fatal; destroying one with the options that an earlier
\* handler has set to NULL is.
CloseDb(h) ==
  /\ ~crashed
  /\ \E i \in Workers :
       /\ Closing(h, i)
       /\ \/ /\ ~quit
             /\ \E s \in CloseAndDestroy(shard[i]) : shard' = [shard EXCEPT ![i] = s]
             /\ sig'    = [sig EXCEPT ![h] = i + 1]
             /\ copied' = [copied EXCEPT ![h] = FALSE]
             /\ UNCHANGED <<pc, ring, locals, msg, ret, ran, cursor, savepoint_count,
                            done, quit, crashed>>
          \/ quit /\ Crash
          \/ /\ shard[i].handle = "open"
             /\ InUse(i) \/ \E g \in Handlers \ {h} : Closing(g, i)
             /\ Crash

\* deconstruct_database_env and force_quit; two handlers that destroy the
\* options at once may free them twice.
Quit(h) ==
  /\ ~crashed /\ sig[h] = NumWorkers
  /\ \/ /\ sig'  = [sig EXCEPT ![h] = NumWorkers + 1]
        /\ quit' = TRUE
        /\ UNCHANGED <<pc, ring, locals, msg, ret, ran, cursor, store, done, copied, crashed>>
     \/ (\E g \in Handlers \ {h} : sig[g] = NumWorkers) /\ Crash

SignalHandler(h) == CopyPath(h) \/ CloseDb(h) \/ Quit(h)

Next ==
  \/ \E w \in Workers : Worker(w)
  \/ \E h \in Handlers : RaiseSignal(h) \/ SignalHandler(h)

\* Every worker has an lcore of its own, and a signal handler, once entered,
\* runs to its end.  No packet and no signal has to come.
Fairness ==
  /\ \A w \in Workers : WF_vars(Exit(w) \/ Receive(w) \/ Handle(w))
  /\ \A h \in Handlers : WF_vars(SignalHandler(h))

Spec == Init /\ [][Next]_vars /\ Fairness

-----------------------------------------------------------------------------

ControlOK ==
  /\ pc      \in [Workers -> Places]
  /\ left    \in [Workers -> Nat]
  /\ bursts  \in [Workers -> Nat]
  /\ ret     \in [Workers -> {"ok", "err", "unset"}]
  /\ part    \in [Workers -> Workers]
  /\ doomed  \in [Workers -> BOOLEAN]
  /\ done    \in [Workers -> BOOLEAN]
  /\ sig     \in [Handlers -> -1..(NumWorkers + 1)]
  /\ copied  \in [Handlers -> BOOLEAN]
  /\ quit    \in BOOLEAN
  /\ crashed \in BOOLEAN

TextOK ==
  /\ pkt     \in [Workers -> PacketType]
  /\ msg     \in [Workers -> Seq(Words)]
  /\ key     \in [Workers -> Words \cup {NULL}]
  /\ val     \in [Workers -> Words \cup {NULL}]
  /\ ran     \in [Workers -> Seq(Seq(Words \cup {"s", "b"}))]
  /\ cursor  \in [own : Workers \cup {NULL}, rest : Texts(Words)]

StoreOK ==
  /\ shard   \in [Workers -> Shard]
  /\ savepoint_count \in [Workers -> Int]

\* The values of every variable: the threads, the texts they parse (no command
\* is ever empty), and the partitions.
TypeOK == ControlOK /\ TextOK /\ StoreOK

\* A counted savepoint exists (datastore.c: "if this count > 0, then a tx should
\* exist"): while a partition is open, rolling back as often as savepoint_count
\* says can neither lack a transaction nor run out of savepoints.
SavepointsBackCount ==
  \A i \in Workers :
    shard[i].handle = "open" /\ savepoint_count[i] > 0
      => shard[i].live /\ savepoint_count[i] <= Len(shard[i].saves)

\* A handler that has returned, by any path, leaves no transaction on its
\* partition, save one whose commit the store refused.
NoTransactionLeftBehind ==
  \A w \in Workers :
    pc[w] \in Between /\ Usable(shard[w]) => shard[w].spent
=============================================================================
