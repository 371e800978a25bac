------------------------ MODULE ShardServerProperties ------------------------
(***************************************************************************)
(* What the handlers of ShardServer achieve, packet by packet: properties  *)
(* of their steps and of their progress, and the abstract specification    *)
(* they implement.                                                         *)
(***************************************************************************)
EXTENDS ShardServer
LOCAL INSTANCE SequencesExt

\* The reference for the store: a stack of contents, the current one on top;
\* empty once a command could not have succeeded.
Top(stack) == stack[Len(stack)]

Play(stack, command) ==
  LET With(c) == [stack EXCEPT ![Len(stack)] = c]
      op      == Head(command) IN
  CASE stack = <<>> -> <<>>
    [] stack # <<>> /\ op = "s" -> Append(stack, Top(stack))
    [] stack # <<>> /\ op = "b" -> SubSeq(stack, 1, Len(stack) - 1)
    [] stack # <<>> /\ op = "w" -> With([Top(stack) EXCEPT ![command[2]] = command[3]])
    [] stack # <<>> /\ op = "d" -> With([Top(stack) EXCEPT ![command[2]] = NotFound])
    [] stack # <<>> /\ op = "r" -> IF Top(stack)[command[2]] = NotFound THEN <<>> ELSE stack

\* All commands, one after the other.
Played(commands, contents) ==
  LET stack[n \in 0..Len(commands)] ==
        IF n = 0 THEN <<contents>> ELSE Play(stack[n - 1], commands[n])
  IN  stack[Len(commands)]

\* The step that answers a single-partition packet (server.c:148-158).
Answers(w) == pc[w] = "commit" /\ pc'[w] \in Between

\* All or nothing: when the commit behind an answer succeeds, every command the
\* handler attempted had succeeded and the partition holds exactly what they
\* make, in their order and with their savepoints, of what it held before;
\* when the commit fails the partition is as it was.
AllOrNothing ==
  [][\A w \in Workers : Answers(w) =>
       LET stack == Played(ran[w], shard[w].db) IN
       IF ret'[w] = "ok" THEN stack # <<>> /\ shard'[w].db = Top(stack)
                         ELSE shard'[w].db = shard[w].db]_vars

\* A transaction that is still to be committed or dropped.
Unfinished(s) == Usable(s) /\ ~s.spent

\* Without multi-partition packets the counter of a partition (datastore.h:70,
\* server.c:102-149) is never negative, is the number of savepoints of the
\* transaction at work, and is 0 between two packets, whatever failed in the
\* last one: what SavepointsBackCount leaves out.
ExactCounts ==
  \A w \in Workers :
    /\ savepoint_count[w] >= 0
    /\ pc[w] \in Between => savepoint_count[w] = 0
    /\ Unfinished(shard[w]) => savepoint_count[w] = Len(shard[w].saves)

\* How far the handler of worker w is with its packet: before the step that
\* decides between the answer (return 0) and the drop (return -1), or behind it.
Phase(w) ==
  CASE pc[w] \in Between -> "idle"
    [] pc[w] \in {"commit", "mcommit"} -> "answering"
    [] pc[w] \in {"ignore", "rollback", "mrollback"} -> "dropping"
    [] OTHER -> "working"

\* A partition is retired once no SIGINT handler that is at work may still
\* destroy it; one that was never open, when the options are gone.
Status(i) ==
  CASE shard[i].handle = "open" -> "serving"
    [] shard[i].handle = "closed" /\ (quit \/ \A h \in Handlers : ~Closing(h, i)) -> "retired"
    [] shard[i].handle = "unopened" /\ quit -> "retired"
    [] OTHER -> "closing"

\* The server implements AtomicShards: partition w changes only in the step in
\* which worker w answers, never while a handler runs and never by a packet that
\* is dropped, whether its commands failed or it was for somebody else; a closed
\* one may be emptied by the signals that overlap with the closing, and never
\* changes after that.
Abstract == INSTANCE AtomicShards WITH
  Shards <- Workers,
  store  <- [w \in Workers |-> shard[w].db],
  phase  <- [w \in Workers |-> Phase(w)],
  status <- [w \in Workers |-> Status(w)]
ImplementsAtomicShards == Abstract!Spec

\* Whatever commands the store refuses, a handler returns: its clean-up loop,
\* which repeats a rollback until it succeeds, ends, unless SIGINT closes the
\* database under it.
HandlerReturns ==
  \A w \in Workers :
    pc[w] \notin Between ~> pc[w] \in Between \/ crashed \/ shard[w].handle = "closed"

\* A worker that sleeps for good in a multi-partition packet (server.c:165-167)
\* does not keep another worker from finishing its own packets.  While the other
\* one is awake nothing of the kind holds: each packet it receives refills
\* strtok's cursor, and a handler may stay in while (msg) as long as packets
\* keep coming.
SinglePacketReturns ==
  \A w \in Workers :
    /\ pc[w] \notin Between /\ ~Multi(w)
    /\ \A v \in Workers \ {w} : pc[v] = "lock"
    ~> pc[w] \in Between \/ crashed

\* After the shutdown every worker stops, save one that sleeps in a
\* multi-partition packet and is never woken (server.c:165-167), provided that
\* no savepoint is counted when force_quit is set: transactions begun before the
\* databases were closed and packets left in a burst do not hold them.
StopsWhenNothingCounted ==
  quit /\ (\A i \in Workers : savepoint_count[i] = 0)
    ~> crashed \/ \A w \in Workers : pc[w] \in {"exited", "lock"}

-----------------------------------------------------------------------------
(* What comments of the source say and the code does not do.               *)

\* server.c:78: "use a while loop to go through the commands, tokenize, and call
\* the correct functions": a committed packet has run all of its commands.
AllCommandsRun ==
  [][\A w \in Workers : Answers(w) /\ ret'[w] = "ok"
       => Tail(ran[w]) = pkt[w].text]_vars

\* server.c:97: "read the commands from the buffer": every command a handler
\* attempts, after its own first savepoint, is one of its packet.
OwnCommandsOnly ==
  \A w \in Workers :
    ran[w] # <<>> => \A n \in 2..Len(ran[w]) : ran[w][n] \in ToSet(pkt[w].text)

\* server.c:161: "lock all other shards for the duration of the execution of
\* this message": the leader of a multi-partition packet comes to execute it.
MultiPartitionExecutes ==
  \A w \in Workers :
    pc[w] = "lock" /\ pkt[w].leader = w ~> pc[w] = "command" \/ crashed
==============================================================================
