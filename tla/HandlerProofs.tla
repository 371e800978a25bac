---------------------------- MODULE HandlerProofs ----------------------------
(***************************************************************************)
(* What the handlers of ShardServer do with the partitions, for any number *)
(* of workers, any packets, any failures of the store and any signals:     *)
(* they leave no transaction behind, they implement AtomicShards, they     *)
(* count their savepoints, and a packet has the effect of all its commands *)
(* or of none.                                                             *)
(***************************************************************************)
EXTENDS ShardServerProofs, ShardServerProperties

-----------------------------------------------------------------------------
(* No transaction is left behind, as long as no packet is executed that    *)
(* touches several partitions: the code executes such a packet only on a   *)
(* server with one worker, and there it may leave one (see the run Mixed). *)

NoMultiExecuted == NumWorkers > 1 \/ \A p \in Packets : p.type # "multi"

\* The places where a handler may hold an unfinished transaction.
Holding == {"savepoint", "discard", "command", "value", "apply", "next", "rollback", "commit"}

\* Worker w executes packets for its own partition only, and an unfinished
\* transaction of that partition is in its hands.
Tidy(w) ==
  /\ pc[w] \notin {"locate", "first", "mrollback", "mcommit"}
  /\ pc[w] = "lock" => NumWorkers > 1
  /\ pc[w] \in Holding \cup {"begin"} => ~Multi(w)
  /\ part[w] = w
  /\ Unfinished(shard[w]) => pc[w] \in Holding

AllTidy == \A w \in Workers : Tidy(w)

\* After a commit or a roll-back nothing is left to finish.
LEMMA CommitFinishes ==
  ASSUME NEW s \in Shard, NEW r \in commit_transaction(s)
  PROVE  ~Unfinished(r.shard)
<1>1. CASE ~Usable(s) \/ s.spent
  BY <1>1, OutcomeFields DEF commit_transaction, Unfinished
<1>2. CASE Usable(s) /\ ~s.spent
  <2>1. \/ r = Ok(NoTransaction([s EXCEPT !.db = s.view]))
        \/ r = Err([s EXCEPT !.spent = TRUE])
    BY <1>2 DEF commit_transaction
  <2>2. ~NoTransaction([s EXCEPT !.db = s.view]).live
    BY DEF NoTransaction, Shard
  <2>3. [s EXCEPT !.spent = TRUE].spent
    BY DEF Shard
  <2>4. CASE r = Ok(NoTransaction([s EXCEPT !.db = s.view]))
    BY <2>2, <2>4, OutcomeFields DEF Unfinished, Usable
  <2>5. CASE r = Err([s EXCEPT !.spent = TRUE])
    <3>1. r.shard = [s EXCEPT !.spent = TRUE]
      BY <2>5, OutcomeFields
    <3>2. r.shard.spent
      BY <2>3, <3>1, Zenon
    <3>. QED
      BY <3>2 DEF Unfinished
  <2>. QED
    BY <2>1, <2>4, <2>5
<1>. QED
  BY <1>1, <1>2

\* Deleting a transaction leaves none.
LEMMA DeleteFinishes ==
  ASSUME NEW s \in Shard
  PROVE  ~Unfinished(delete_transaction(s))
<1>1. CASE Usable(s)
  <2>1. ~NoTransaction(s).live
    BY DEF NoTransaction, Shard
  <2>. QED
    BY <1>1, <2>1 DEF delete_transaction, Unfinished, Usable
<1>2. CASE ~Usable(s)
  BY <1>2 DEF delete_transaction, Unfinished
<1>. QED
  BY <1>1, <1>2

\* What a worker does to itself and to its own partition is all that counts.
LEMMA TidyStep ==
  ASSUME AllTidy, NEW w \in Workers, Tidy(w)',
         \A v \in Workers \ {w} : /\ pc'[v] = pc[v] /\ pkt'[v] = pkt[v]
                                  /\ part'[v] = part[v] /\ shard'[v] = shard[v]
  PROVE  AllTidy'
<1>1. ASSUME NEW v \in Workers \ {w} PROVE Tidy(v)'
  <2>1. Tidy(v)
    BY DEF AllTidy
  <2>. QED
    BY <2>1 DEF Tidy, Multi
<1>. QED
  BY <1>1 DEF AllTidy

\* Places of a handler at work on its own partition.
LEMMA TidyGoto ==
  ASSUME IInv, AllTidy, NEW w \in Workers, NEW place \in Holding, Goto(w, place),
         ~Multi(w), UNCHANGED <<pkt, part>>,
         \A v \in Workers \ {w} : shard'[v] = shard[v]
  PROVE  AllTidy'
<1>1. /\ pc'[w] = place
      /\ \A v \in Workers \ {w} : pc'[v] = pc[v]
  BY DEF Goto, IInv, TypeOK, ControlOK
<1>2. Tidy(w)
  BY DEF AllTidy
<1>3. Tidy(w)'
  BY <1>1, <1>2 DEF Tidy, Multi, Holding
<1>. QED
  BY <1>1, <1>3, TidyStep

\* Leaving the handler with nothing to finish.
LEMMA TidyReturn ==
  ASSUME IInv, AllTidy, NEW w \in Workers, Return(w), UNCHANGED <<pkt, part>>,
         ~Unfinished(shard'[w]),
         \A v \in Workers \ {w} : shard'[v] = shard[v]
  PROVE  AllTidy'
<1>1. /\ pc'[w] \in {"ready", "poll"}
      /\ \A v \in Workers \ {w} : pc'[v] = pc[v]
  BY ReturnTyping DEF IInv
<1>2. Tidy(w)
  BY DEF AllTidy
<1>3. Tidy(w)'
  BY <1>1, <1>2 DEF Tidy, Multi, Holding
<1>. QED
  BY <1>1, <1>3, TidyStep

\* A step that leaves the threads, their packets and the partitions alone.
LEMMA TidyStutter ==
  ASSUME AllTidy, UNCHANGED <<pc, pkt, part, shard>>
  PROVE  AllTidy'
  BY DEF AllTidy, Tidy, Multi

\* The burst, packet by packet.
LEMMA TidyLoop ==
  ASSUME NoMultiExecuted, IInv, AllTidy, NEW w \in Workers,
         Dequeue(w) \/ Exit(w) \/ Receive(w) \/ Ignore(w)
  PROVE  AllTidy'
<1>0. Tidy(w) /\ pc[w] \notin Holding /\ ~Unfinished(shard[w])
  BY DEF AllTidy, Tidy, Dequeue, Exit, Receive, Ignore, At, Holding
<1>s. shard' = shard
  BY DEF Dequeue, Exit, Receive, Ignore, store
<1>1. CASE Dequeue(w) \/ Exit(w)
  <2>1. pkt' = pkt /\ part' = part
    BY <1>1 DEF Dequeue, Exit, locals
  <2>2. /\ pc'[w] \in {"ready", "exited"}
        /\ \A v \in Workers \ {w} : pc'[v] = pc[v]
    BY <1>1 DEF Dequeue, Exit, Goto, IInv, TypeOK, ControlOK
  <2>3. Tidy(w)'
    BY <1>0, <1>s, <2>1, <2>2 DEF Tidy, Multi, Holding
  <2>. QED
    BY <1>s, <2>1, <2>2, <2>3, TidyStep
<1>2. CASE Receive(w)
  <2>1. PICK p \in Packets :
          /\ pkt' = [pkt EXCEPT ![w] = p]
          /\ Goto(w, CASE p.type = "single" /\ p.leader = w -> "begin"
                       [] p.type = "multi" -> "lock"
                       [] OTHER -> "ignore")
    BY <1>2 DEF Receive
  <2>2. part' = [part EXCEPT ![w] = w]
    BY <1>2 DEF Receive
  <2>3. pkt'[w] = p /\ part'[w] = w
    BY <2>1, <2>2 DEF IInv, TypeOK, ControlOK, TextOK
  <2>4. \/ pc'[w] = "begin" /\ p.type = "single"
        \/ pc'[w] = "lock" /\ p.type = "multi"
        \/ pc'[w] = "ignore"
    BY <2>1 DEF Goto, IInv, TypeOK, ControlOK
  <2>5. p.type = "multi" => NumWorkers > 1
    BY DEF NoMultiExecuted
  <2>6. Tidy(w)'
    BY <1>0, <1>s, <2>3, <2>4, <2>5 DEF Tidy, Multi, Holding
  <2>7. \A v \in Workers \ {w} : pc'[v] = pc[v] /\ pkt'[v] = pkt[v] /\ part'[v] = part[v]
    BY <2>1, <2>2 DEF Goto, IInv, TypeOK, ControlOK, TextOK
  <2>. QED
    BY <1>s, <2>6, <2>7, TidyStep
<1>3. CASE Ignore(w)
  <2>1. Return(w) /\ UNCHANGED <<pkt, part>>
    BY <1>3 DEF Ignore, locals
  <2>. QED
    BY <1>0, <1>s, <2>1, TidyReturn
<1>. QED
  BY <1>1, <1>2, <1>3

\* The calls of the store for a packet of one partition.
LEMMA TidySingle ==
  ASSUME IInv, AllTidy, NEW w \in Workers,
         \/ BeginTransaction(w) \/ FirstSavepoint(w) \/ Discard(w) \/ SetSavepoint(w)
         \/ RollbackToSavepoint(w) \/ UndoSavepoint(w) \/ DropTransaction(w) \/ Commit(w)
  PROVE  AllTidy'
<1>0. Tidy(w) /\ shard[w] \in Shard /\ shard \in [Workers -> Shard]
  BY DEF AllTidy, IInv, TypeOK, StoreOK
<1>1. UNCHANGED <<pkt, part>>
  BY DEF BeginTransaction, FirstSavepoint, Discard, SetSavepoint, RollbackToSavepoint,
         UndoSavepoint, DropTransaction, Commit, locals
<1>2. \E s : shard' = [shard EXCEPT ![w] = s]
  <2>1. part[w] = w /\ shard = [shard EXCEPT ![w] = shard[w]]
    BY <1>0 DEF Tidy
  <2>. QED
    BY <2>1 DEF BeginTransaction, FirstSavepoint, Discard, SetSavepoint, RollbackToSavepoint,
                UndoSavepoint, DropTransaction, Commit, store
<1>3. \A v \in Workers \ {w} : shard'[v] = shard[v]
  BY <1>0, <1>2
<1>4. CASE \/ BeginTransaction(w) \/ FirstSavepoint(w) \/ Discard(w)
           \/ SetSavepoint(w) \/ RollbackToSavepoint(w)
  <2>1. ~Multi(w)
    BY <1>0, <1>4 DEF Tidy, Holding, At, BeginTransaction, FirstSavepoint, Discard,
                      SetSavepoint, RollbackToSavepoint
  <2>2. \E place \in Holding : Goto(w, place)
    BY <1>4 DEF Holding, BeginTransaction, FirstSavepoint, Discard, SetSavepoint,
                RollbackToSavepoint
  <2>. QED
    BY <1>1, <1>3, <2>1, <2>2, TidyGoto
<1>5. CASE UndoSavepoint(w)
  <2>1. pc' = pc /\ pc[w] \in Holding
    BY <1>5 DEF UndoSavepoint, At, Holding
  <2>2. Tidy(w)'
    BY <1>0, <1>1, <2>1 DEF Tidy, Multi
  <2>. QED
    BY <1>1, <1>3, <2>1, <2>2, TidyStep
<1>6. CASE DropTransaction(w)
  <2>1. shard'[w] = delete_transaction(shard[w]) /\ Return(w)
    BY <1>0, <1>6 DEF DropTransaction
  <2>. QED
    BY <1>0, <1>1, <1>3, <2>1, DeleteFinishes, TidyReturn
<1>7. CASE Commit(w)
  <2>1. PICK r \in commit_transaction(shard[w]) : shard' = [shard EXCEPT ![w] = r.shard]
    BY <1>7 DEF Commit
  <2>2. shard'[w] = r.shard /\ Return(w)
    BY <1>0, <1>7, <2>1 DEF Commit
  <2>. QED
    BY <1>0, <1>1, <1>3, <2>1, <2>2, CommitFinishes, TidyReturn
<1>. QED
  BY <1>4, <1>5, <1>6, <1>7

\* The command loop, which a packet of one partition never leaves for the
\* places of a multi-partition one.
LEMMA TidyBody ==
  ASSUME IInv, AllTidy, NEW w \in Workers,
         \/ EndOfText(w) \/ TakeKey(w) \/ TakeValue(w) \/ Apply(w)
         \/ SkipUnknown(w) \/ TakeCommand(w)
  PROVE  AllTidy'
<1>0. Tidy(w) /\ ~Multi(w) /\ part[w] = w
  BY DEF AllTidy, Tidy, Holding, At, EndOfText, TakeKey, TakeValue, Apply, SkipUnknown,
         TakeCommand
<1>1. CASE Crash
  BY <1>1, TidyStutter DEF Crash, locals, store
<1>2. CASE ~Crash
  <2>1. pkt' = pkt
    BY <1>2 DEF EndOfText, TakeKey, TakeValue, Apply, SkipUnknown, TakeCommand, locals
  <2>2. part' = part
    <3>1. CASE TakeCommand(w)
      BY <1>0, <3>1 DEF TakeCommand, IInv, TypeOK, ControlOK
    <3>2. CASE ~TakeCommand(w)
      BY <1>0, <1>2, <3>2 DEF EndOfText, TakeKey, TakeValue, Apply, SkipUnknown, locals
    <3>. QED
      BY <3>1, <3>2
  <2>3. \E place \in Holding : Goto(w, place)
    BY <1>0, <1>2 DEF EndOfText, TakeKey, TakeValue, Apply, SkipUnknown, TakeCommand, Holding
  <2>4. \A v \in Workers \ {w} : shard'[v] = shard[v]
    <3>1. CASE Apply(w)
      <4>1. \E s : shard' = [shard EXCEPT ![w] = s]
        BY <1>0, <1>2, <3>1 DEF Apply
      <4>. QED
        BY <4>1 DEF IInv, TypeOK, StoreOK
    <3>2. CASE ~Apply(w)
      BY <1>2, <3>2 DEF EndOfText, TakeKey, TakeValue, SkipUnknown, TakeCommand, store
    <3>. QED
      BY <3>1, <3>2
  <2>. QED
    BY <1>0, <2>1, <2>2, <2>3, <2>4, TidyGoto
<1>. QED
  BY <1>1, <1>2

\* A multi-partition packet gets no further than the wait.
LEMMA TidyMulti ==
  ASSUME IInv, AllTidy, NEW w \in Workers,
         \/ LockOthers(w) \/ Locate(w) \/ MultiFirstSavepoint(w)
         \/ MultiSetSavepoint(w) \/ MultiRollback(w)
         \/ MultiUndoSavepoint(w) \/ MultiDropTransaction(w) \/ MultiCommit(w)
  PROVE  AllTidy'
<1>0. Tidy(w)
  BY DEF AllTidy
<1>1. LockOthers(w)
  BY <1>0 DEF Tidy, Holding, At, Locate, MultiFirstSavepoint, MultiSetSavepoint, MultiRollback,
              MultiUndoSavepoint, MultiDropTransaction, MultiCommit
<1>2. pc[w] = "lock" /\ NumWorkers > 1 /\ ~Unfinished(shard[w])
  BY <1>0, <1>1 DEF LockOthers, At, Tidy, Holding
<1>3. {i \in Workers : i # pkt[w].leader} # {}
  <2>1. 0 \in Workers /\ 1 \in Workers
    BY <1>2, NumWorkersAssumption DEF Workers
  <2>. QED
    BY <2>1
<1>4. Return(w) /\ UNCHANGED <<pkt, part, shard>>
  BY <1>1, <1>3 DEF LockOthers, locals, store
<1>. QED
  BY <1>2, <1>4, TidyReturn

\* Closing a partition takes its transaction away.
LEMMA TidySignal ==
  ASSUME IInv, AllTidy, NEW h \in Handlers, RaiseSignal(h) \/ SignalHandler(h)
  PROVE  AllTidy'
<1>1. UNCHANGED <<pc, pkt, part>>
  BY SignalShapes
<1>2. CASE shard' = shard
  BY <1>1, <1>2, TidyStutter
<1>3. ASSUME NEW i \in Workers, NEW s \in CloseAndDestroy(shard[i]),
             shard' = [shard EXCEPT ![i] = s]
      PROVE  AllTidy'
  <2>1. shard \in [Workers -> Shard]
    BY DEF IInv, TypeOK, StoreOK
  <2>2. s.handle # "open"
    BY <2>1, CloseKeeps
  <2>3. ASSUME NEW v \in Workers PROVE Tidy(v)'
    <3>1. Tidy(v)
      BY DEF AllTidy
    <3>2. Unfinished(shard'[v]) => shard'[v] = shard[v]
      BY <1>3, <2>1, <2>2 DEF Unfinished, Usable
    <3>. QED
      BY <1>1, <3>1, <3>2 DEF Tidy, Multi
  <2>. QED
    BY <2>3 DEF AllTidy
<1>. QED
  BY <1>2, <1>3, SignalShapes

\* Every step keeps unfinished transactions in the hands of their workers.
LEMMA TidyNext ==
  ASSUME NoMultiExecuted, IInv, AllTidy, [Next]_vars
  PROVE  AllTidy'
<1>1. CASE UNCHANGED vars
  BY <1>1, TidyStutter DEF vars, locals, store
<1>2. ASSUME NEW h \in Handlers, RaiseSignal(h) \/ SignalHandler(h) PROVE AllTidy'
  BY <1>2, TidySignal
<1>3. ASSUME NEW w \in Workers, Worker(w) PROVE AllTidy'
  <2>1. CASE EmptyPoll(w)
    BY <1>1, <2>1 DEF EmptyPoll
  <2>. QED
    BY <1>3, <2>1, TidyLoop, TidySingle, TidyBody, TidyMulti DEF Worker, Handle
<1>. QED
  BY <1>1, <1>2, <1>3 DEF Next

LEMMA TidyInit == Init => AllTidy
<1>. SUFFICES ASSUME Init, NEW w \in Workers PROVE Tidy(w)
  BY DEF AllTidy
<1>1. pc[w] = "poll" /\ part[w] = w
  BY DEF Init
<1>2. PICK db \in Contents : shard[w] \in open_database(db)
  BY FirstDbAssumption DEF Init
<1>3. ~Usable(shard[w])
  BY <1>2 DEF open_database, Usable
<1>. QED
  BY <1>1, <1>3 DEF Tidy, Holding, Unfinished

\* On a server with several workers, or one that is sent packets of a single
\* partition only, a handler that has returned, after whatever failures and
\* whatever another worker did to its text, has committed its transaction,
\* dropped it, or seen its commit refused.
THEOREM TransactionsEnd ==
  ASSUME NoMultiExecuted
  PROVE  Spec => []NoTransactionLeftBehind
<1>1. AllTidy => NoTransactionLeftBehind
  BY DEF AllTidy, Tidy, NoTransactionLeftBehind, Unfinished, Holding, Between
<1>2. IInv /\ AllTidy /\ [Next]_vars => AllTidy'
  BY TidyNext
<1>3. Init => AllTidy
  BY TidyInit
<1>. QED
  BY <1>1, <1>2, <1>3, Invariant, PTL DEF Spec

\* On a server with several workers no packet for several partitions is ever
\* executed, by its leader or by anyone else: its handler waits or returns
\* (server.c:161-167), whatever the other workers do.
THEOREM MultiPacketsOnlyWait ==
  ASSUME NumWorkers > 1
  PROVE  Spec => [](\A w \in Workers : Multi(w) => pc[w] \in Between \cup {"ignore", "lock"})
<1>1. IInv /\ AllTidy => \A w \in Workers : Multi(w) => pc[w] \in Between \cup {"ignore", "lock"}
  BY DEF IInv, TypeOK, ControlOK, AllTidy, Tidy, Holding, Places
<1>2. IInv /\ AllTidy /\ [Next]_vars => AllTidy'
  BY TidyNext DEF NoMultiExecuted
<1>. QED
  BY <1>1, <1>2, TidyInit, Invariant, PTL DEF Spec

-----------------------------------------------------------------------------
(* The server implements AtomicShards.  A handler changes what a partition *)
(* holds only by a commit, and every commit is the handler's last step.    *)
(* The commit of a multi-partition packet is its last step because such a  *)
(* packet is executed on a server with one worker only.                    *)

\* The same contents in the same database.
Same(s, t) == t.db = s.db /\ t.handle = s.handle

\* Every function of datastore.c but the commit, the close and the destroy leaves
\* the contents of the database alone.
LEMMA OperationsKeepContents ==
  ASSUME NEW s \in Shard
  PROVE  /\ \A r \in begin_transaction(s) : Same(s, r.shard)
         /\ \A r \in set_savepoint(s) : Same(s, r.shard)
         /\ \A r \in rollback_to_last_savepoint(s) : Same(s, r.shard)
         /\ \A op \in {"r", "w", "d"} : \A k, v :
              \A r \in Operate(op, k, v, s) : Same(s, r.shard)
         /\ Same(s, delete_transaction(s))
         /\ Same(s, Saved(s))
         /\ Same(s, RolledBack(s))
<1>1. ASSUME NEW r \in begin_transaction(s) PROVE Same(s, r.shard)
  <2>. DEFINE t == [s EXCEPT !.live = TRUE, !.spent = FALSE, !.view = s.db, !.saves = <<>>]
  <2>1. Same(s, t) /\ Same(s, s)
    BY DEF Same, Shard
  <2>2. r = Ok(t) \/ r = Err(s)
    BY DEF begin_transaction
  <2>. QED
    BY <2>1, <2>2, OutcomeFields
<1>2. Same(s, s) /\ Same(s, Saved(s)) /\ Same(s, RolledBack(s))
  BY DEF Same, Saved, RolledBack, Shard
<1>3. \A r \in set_savepoint(s) : Same(s, r.shard)
  BY <1>2, AttemptOutcome, OutcomeFields DEF set_savepoint
<1>4. \A r \in rollback_to_last_savepoint(s) : Same(s, r.shard)
  BY <1>2, AttemptOutcome, OutcomeFields DEF rollback_to_last_savepoint
<1>5. Same(s, delete_transaction(s))
  BY <1>2 DEF delete_transaction, NoTransaction, Same, Shard
<1>6. ASSUME NEW op \in {"r", "w", "d"}, NEW k, NEW v, NEW r \in Operate(op, k, v, s)
      PROVE  Same(s, r.shard)
  <2>1. CASE op = "r"
    <3>1. r \in read_keyval_pair(k, s)
      BY <2>1 DEF Operate
    <3>. QED
      BY <1>2, <3>1, AttemptOutcome, OutcomeFields DEF read_keyval_pair
  <2>2. CASE op = "w"
    <3>1. r \in Attempt("w", s, [s EXCEPT !.view[k] = v])
      BY <2>2 DEF Operate, write_keyval_pair
    <3>2. Same(s, [s EXCEPT !.view[k] = v])
      BY DEF Same, Shard
    <3>. QED
      BY <1>2, <3>1, <3>2, AttemptOutcome, OutcomeFields
  <2>3. CASE op = "d"
    <3>1. r \in Attempt("d", s, [s EXCEPT !.view[k] = NotFound])
      BY <2>3 DEF Operate, delete_keyval_pair
    <3>2. Same(s, [s EXCEPT !.view[k] = NotFound])
      BY DEF Same, Shard
    <3>. QED
      BY <1>2, <3>1, <3>2, AttemptOutcome, OutcomeFields
  <2>. QED
    BY <2>1, <2>2, <2>3
<1>. QED
  BY <1>1, <1>2, <1>3, <1>4, <1>5, <1>6

\* A commit changes the contents of an open database only.
LEMMA CommitContents ==
  ASSUME NEW s \in Shard, NEW r \in commit_transaction(s)
  PROVE  /\ Same(s, r.shard) \/ s.handle = "open"
         /\ r.shard.handle = s.handle
<1>1. CASE ~Usable(s) \/ s.spent
  BY <1>1, OutcomeFields DEF commit_transaction, Same
<1>2. CASE Usable(s) /\ ~s.spent
  <2>1. \/ r = Ok(NoTransaction([s EXCEPT !.db = s.view]))
        \/ r = Err([s EXCEPT !.spent = TRUE])
    BY <1>2 DEF commit_transaction
  <2>2. NoTransaction([s EXCEPT !.db = s.view]).handle = s.handle
    BY DEF NoTransaction, Shard
  <2>3. Same(s, [s EXCEPT !.spent = TRUE])
    BY DEF Same, Shard
  <2>4. CASE r = Ok(NoTransaction([s EXCEPT !.db = s.view]))
    BY <1>2, <2>2, <2>4, OutcomeFields DEF Usable
  <2>5. CASE r = Err([s EXCEPT !.spent = TRUE])
    <3>1. r.shard = [s EXCEPT !.spent = TRUE]
      BY <2>5, OutcomeFields
    <3>. QED
      BY <2>3, <3>1 DEF Same
  <2>. QED
    BY <2>1, <2>4, <2>5
<1>. QED
  BY <1>1, <1>2

AllSame == \A v \in Workers : Same(shard[v], shard'[v])

\* A partition replaced by one with the same contents.
LEMMA SameStep ==
  ASSUME StoreOK, NEW i \in Workers, NEW s, Same(shard[i], s),
         shard' = [shard EXCEPT ![i] = s]
  PROVE  AllSame
  BY DEF StoreOK, AllSame, Same

LEMMA SameStutter == ASSUME shard' = shard PROVE AllSame
  BY DEF AllSame, Same

\* No step of a handler but a commit changes what a partition holds.
LEMMA HandlersKeepContents ==
  ASSUME IInv, NEW w \in Workers, Handle(w), ~Commit(w), ~MultiCommit(w)
  PROVE  AllSame
<1>0. StoreOK /\ part[w] \in Workers
  BY DEF IInv, TypeOK, ControlOK
<1>s. \A i \in Workers : shard[i] \in Shard
  BY <1>0 DEF StoreOK
<1>1. CASE \/ Ignore(w) \/ EndOfText(w) \/ TakeKey(w) \/ TakeValue(w) \/ SkipUnknown(w)
           \/ TakeCommand(w) \/ LockOthers(w)
  <2>1. shard' = shard
    BY <1>1 DEF Ignore, EndOfText, TakeKey, TakeValue, SkipUnknown, TakeCommand, LockOthers,
                Crash, store
  <2>. QED
    BY <2>1, SameStutter
<1>2. CASE \/ BeginTransaction(w) \/ SetSavepoint(w) \/ RollbackToSavepoint(w)
           \/ UndoSavepoint(w) \/ DropTransaction(w)
  <2>1. \E s : Same(shard[w], s) /\ shard' = [shard EXCEPT ![w] = s]
    BY <1>2, <1>s, OperationsKeepContents
       DEF BeginTransaction, SetSavepoint, RollbackToSavepoint, UndoSavepoint, DropTransaction
  <2>. QED
    BY <1>0, <2>1, SameStep
<1>3. CASE FirstSavepoint(w) \/ MultiFirstSavepoint(w) \/ Discard(w)
  <2>1. CASE shard' = shard
    BY <2>1, SameStutter
  <2>2. CASE shard' # shard
    <3>1. part[w] = w
      BY DEF IInv, AllAlone, Alone
    <3>2. \E s : Same(shard[w], s) /\ shard' = [shard EXCEPT ![w] = s]
      BY <1>3, <1>s, <2>2, <3>1, OperationsKeepContents
         DEF FirstSavepoint, MultiFirstSavepoint, Discard, store
    <3>. QED
      BY <1>0, <3>2, SameStep
  <2>. QED
    BY <2>1, <2>2
<1>4. CASE Apply(w)
  <2>1. CASE Crash
    BY <2>1, SameStutter DEF Crash, store
  <2>2. CASE ~Crash
    <3>1. PICK r \in Operate(Head(msg[w]), key[w], val[w], shard[part[w]]) :
            shard' = [shard EXCEPT ![part[w]] = r.shard]
      BY <1>4, <2>2 DEF Apply
    <3>2. Head(msg[w]) \in {"r", "w", "d"}
      BY <1>4 DEF Apply, At, IInv, HandlerOK, IsData
    <3>3. Same(shard[part[w]], r.shard)
      BY <1>0, <1>s, <3>1, <3>2, OperationsKeepContents
    <3>. QED
      BY <1>0, <3>1, <3>3, SameStep
  <2>. QED
    BY <2>1, <2>2
<1>5. CASE Locate(w)
  <2>. DEFINE i == PartitionOf(Num[key[w]], NumKeys, NumWorkers)
  <2>1. CASE shard' = shard
    BY <2>1, SameStutter
  <2>2. CASE shard' # shard
    <3>1. key[w] \in Words
      BY <1>5 DEF Locate, At, IInv, HandlerOK
    <3>2. i # NoPartition
      BY <1>5, <2>2 DEF Locate, store
    <3>3. i \in Workers
      BY <3>1, <3>2, LocatedPartition
    <3>. HIDE DEF i
    <3>4. PICK b \in begin_transaction(shard[i]) : shard' = [shard EXCEPT ![i] = b.shard]
      BY <1>5, <2>2 DEF Locate, i
    <3>5. Same(shard[i], b.shard)
      BY <1>s, <3>3, OperationsKeepContents
    <3>. QED
      BY <1>0, <3>3, <3>4, <3>5, SameStep
  <2>. QED
    BY <2>1, <2>2
<1>6. CASE MultiSetSavepoint(w) \/ MultiRollback(w)
  <2>1. \A v \in Workers :
          \/ shard'[v] = shard[v] \/ shard'[v] = Saved(shard[v])
          \/ shard'[v] = RolledBack(shard[v])
    BY <1>6 DEF MultiSetSavepoint, MultiRollback
  <2>. QED
    BY <1>s, <2>1, OperationsKeepContents DEF AllSame, Same
<1>7. CASE MultiUndoSavepoint(w) \/ MultiDropTransaction(w)
  <2>1. \/ \E r \in rollback_to_last_savepoint(shard[part[w]]) :
             shard' = [shard EXCEPT ![part[w]] = r.shard]
        \/ shard' = [shard EXCEPT ![part[w]] = delete_transaction(shard[part[w]])]
        \/ shard' = [shard EXCEPT ![part[w]] = shard[part[w]]]
    BY <1>7 DEF MultiUndoSavepoint, MultiDropTransaction
  <2>2. \E s : Same(shard[part[w]], s) /\ shard' = [shard EXCEPT ![part[w]] = s]
    BY <1>0, <1>s, <2>1, OperationsKeepContents DEF Same
  <2>. QED
    BY <1>0, <2>2, SameStep
<1>. QED
  BY <1>1, <1>2, <1>3, <1>4, <1>5, <1>6, <1>7 DEF Handle

-----------------------------------------------------------------------------
(* The SIGINT handlers leave databases closed behind them.                 *)

\* Behind a handler, and once force_quit is set, no database is open; a path
\* is copied for a database that the loop of int_handler is at.
Shut ==
  /\ \A h \in Handlers, i \in Workers : i < sig[h] => shard[i].handle # "open"
  /\ quit => \A i \in Workers : shard[i].handle # "open"
  /\ \A h \in Handlers : copied[h] => sig[h] \in Workers

\* A worker opens and closes no database, and signals nobody.
LEMMA WorkerLeavesIrq ==
  ASSUME NEW w \in Workers, Worker(w)
  PROVE  UNCHANGED irq
<1>1. CASE Dequeue(w) \/ EmptyPoll(w) \/ Exit(w) \/ Receive(w) \/ Ignore(w)
  BY <1>1 DEF Dequeue, EmptyPoll, Exit, Receive, Ignore, vars
<1>2. CASE \/ BeginTransaction(w) \/ FirstSavepoint(w) \/ Discard(w) \/ SetSavepoint(w)
           \/ RollbackToSavepoint(w) \/ UndoSavepoint(w) \/ DropTransaction(w) \/ Commit(w)
  BY <1>2 DEF BeginTransaction, FirstSavepoint, Discard, SetSavepoint, RollbackToSavepoint,
              UndoSavepoint, DropTransaction, Commit
<1>3. CASE \/ EndOfText(w) \/ TakeKey(w) \/ TakeValue(w) \/ Apply(w) \/ SkipUnknown(w)
           \/ TakeCommand(w)
  BY <1>3 DEF EndOfText, TakeKey, TakeValue, Apply, SkipUnknown, TakeCommand, Crash
<1>4. CASE \/ LockOthers(w) \/ Locate(w) \/ MultiFirstSavepoint(w)
           \/ MultiSetSavepoint(w) \/ MultiRollback(w)
           \/ MultiUndoSavepoint(w) \/ MultiDropTransaction(w) \/ MultiCommit(w)
  BY <1>4 DEF LockOthers, Locate, MultiFirstSavepoint, MultiSetSavepoint, MultiRollback,
              MultiUndoSavepoint, MultiDropTransaction, MultiCommit
<1>. QED
  BY <1>1, <1>2, <1>3, <1>4 DEF Worker, Handle

\* What the two kinds of commit do to the partitions: that of a multi-partition
\* packet is the last step of its handler, too, since the worker is alone.
LEMMA CommitShapes ==
  ASSUME IInv, NEW w \in Workers, Commit(w) \/ MultiCommit(w)
  PROVE  /\ Return(w) /\ pc[w] \in {"commit", "mcommit"}
         /\ \/ shard' = shard
            \/ \E r \in commit_transaction(shard[w]) : shard' = [shard EXCEPT ![w] = r.shard]
<1>1. CASE Commit(w)
  BY <1>1 DEF Commit, At
<1>2. CASE MultiCommit(w)
  <2>1. NumWorkers = 1 /\ part[w] = w
    BY <1>2 DEF IInv, AllAlone, Alone, MultiCommit, At
  <2>2. part[w] = NumWorkers - 1
    BY <2>1 DEF Workers
  <2>. QED
    BY <1>2, <2>1, <2>2 DEF MultiCommit, Finish, At, store
<1>. QED
  BY <1>1, <1>2

LEMMA HandlesStay ==
  ASSUME IInv, NEW w \in Workers, Worker(w), NEW v \in Workers
  PROVE  shard'[v].handle = shard[v].handle
<1>0. shard \in [Workers -> Shard]
  BY DEF IInv, TypeOK, StoreOK
<1>1. CASE Dequeue(w) \/ EmptyPoll(w) \/ Exit(w) \/ Receive(w)
  BY <1>1 DEF Dequeue, EmptyPoll, Exit, Receive, vars, store
<1>2. CASE Handle(w) /\ ~Commit(w) /\ ~MultiCommit(w)
  BY <1>2, HandlersKeepContents DEF AllSame, Same
<1>3. CASE Commit(w) \/ MultiCommit(w)
  <2>1. ASSUME NEW r \in commit_transaction(shard[w]), shard' = [shard EXCEPT ![w] = r.shard]
        PROVE  shard'[v].handle = shard[v].handle
    <3>1. r.shard.handle = shard[w].handle
      BY <1>0, CommitContents DEF Same
    <3>. QED
      BY <1>0, <2>1, <3>1
  <2>. QED
    BY <1>3, <2>1, CommitShapes
<1>. QED
  BY <1>1, <1>2, <1>3 DEF Worker

LEMMA ShutNext ==
  ASSUME IInv, Shut, [Next]_vars
  PROVE  Shut'
<1>0. /\ shard \in [Workers -> Shard]
      /\ sig \in [Handlers -> -1..(NumWorkers + 1)] /\ copied \in [Handlers -> BOOLEAN]
      /\ Workers \subseteq Nat /\ NumWorkers \in Nat
  BY NumWorkersAssumption, WorkersAreNumbers DEF IInv, TypeOK, StoreOK, ControlOK
<1>1. CASE UNCHANGED vars
  BY <1>1 DEF vars, irq, store, Shut
<1>2. ASSUME NEW w \in Workers, Worker(w) PROVE Shut'
  <2>1. \A v \in Workers : shard'[v].handle = shard[v].handle
    BY <1>2, HandlesStay
  <2>. QED
    BY <1>2, <2>1, WorkerLeavesIrq DEF irq, Shut
<1>3. ASSUME NEW h \in Handlers, RaiseSignal(h) \/ SignalHandler(h) PROVE Shut'
  <2>1. CASE Crash
    BY <2>1 DEF Crash, irq, store, Shut
  <2>2. CASE RaiseSignal(h)
    <3>1. /\ sig' = [sig EXCEPT ![h] = 0] /\ UNCHANGED <<shard, copied, quit>>
          /\ sig[h] = -1
      BY <2>2 DEF RaiseSignal, store
    <3>2. -1 \notin Workers
      BY <1>0
    <3>. QED
      BY <1>0, <3>1, <3>2 DEF Shut
  <2>3. CASE CopyPath(h) /\ ~Crash
    <3>1. /\ copied' = [copied EXCEPT ![h] = TRUE] /\ UNCHANGED <<shard, sig, quit>>
          /\ sig[h] \in Workers
      BY <2>3 DEF CopyPath, store
    <3>. QED
      BY <1>0, <3>1 DEF Shut
  <2>4. CASE CloseDb(h) /\ ~Crash
    <3>0. PICK i \in Workers :
            /\ Closing(h, i) /\ ~quit /\ quit' = quit
            /\ \E t \in CloseAndDestroy(shard[i]) : shard' = [shard EXCEPT ![i] = t]
            /\ sig' = [sig EXCEPT ![h] = i + 1]
            /\ copied' = [copied EXCEPT ![h] = FALSE]
      BY <2>4 DEF CloseDb
    <3>1. PICK s \in CloseAndDestroy(shard[i]) : shard' = [shard EXCEPT ![i] = s]
      BY <3>0
    <3>2. s.handle # "open"
      BY <1>0, CloseKeeps
    <3>3. sig[h] = i
      BY <3>0 DEF Closing
    <3>4. ASSUME NEW g \in Handlers, NEW j \in Workers, j < sig'[g]
          PROVE  shard'[j].handle # "open"
      <4>1. j = i \/ j < sig[g]
        <5>1. CASE g = h
          BY <1>0, <3>0, <3>3, <3>4, <5>1
        <5>2. CASE g # h
          BY <1>0, <3>0, <3>4, <5>2
        <5>. QED
          BY <5>1, <5>2
      <4>. QED
        BY <1>0, <3>1, <3>2, <4>1 DEF Shut
    <3>5. \A g \in Handlers : copied'[g] => sig'[g] \in Workers
      BY <1>0, <3>0 DEF Shut
    <3>. QED
      BY <3>0, <3>4, <3>5 DEF Shut
  <2>5. CASE Quit(h) /\ ~Crash
    <3>1. /\ sig' = [sig EXCEPT ![h] = NumWorkers + 1] /\ UNCHANGED <<shard, copied>>
          /\ sig[h] = NumWorkers
      BY <2>5 DEF Quit, store
    <3>2. \A i \in Workers : i < NumWorkers
      BY NumWorkersAssumption DEF Workers
    <3>3. \A i \in Workers : shard[i].handle # "open"
      BY <3>1, <3>2 DEF Shut
    <3>4. NumWorkers \notin Workers
      BY <1>0, <3>2
    <3>. QED
      BY <1>0, <3>1, <3>3, <3>4 DEF Shut
  <2>. QED
    BY <1>3, <2>1, <2>2, <2>3, <2>4, <2>5 DEF SignalHandler
<1>. QED
  BY <1>1, <1>2, <1>3 DEF Next

-----------------------------------------------------------------------------
(* Every step maps to a step of AtomicShards or to none.                   *)

SamePhase(v)  == Phase(v)' = Phase(v)
SameStatus(v) == Status(v)' = Status(v)

\* Without a signal handler's step a partition keeps its status with its handle.
LEMMA StatusStays ==
  ASSUME UNCHANGED irq, NEW v \in Workers, shard'[v].handle = shard[v].handle
  PROVE  SameStatus(v)
  BY DEF SameStatus, Status, Closing, irq

\* What AtomicShards sees.
Stores   == [w \in Workers |-> shard[w].db]
Phases   == [w \in Workers |-> Phase(w)]
Statuses == [w \in Workers |-> Status(w)]

\* The parts of it that a step leaves alone.
LEMMA Unmoved ==
  /\ AllSame => Stores' = Stores
  /\ (\A v \in Workers : SamePhase(v)) => Phases' = Phases
  /\ (\A v \in Workers : SameStatus(v)) => Statuses' = Statuses
  BY DEF AllSame, Same, SamePhase, SameStatus, Stores, Phases, Statuses

\* A worker that stays where it is, is in the same phase.
LEMMA PhaseStays ==
  ASSUME NEW v \in Workers, pc'[v] = pc[v]
  PROVE  SamePhase(v)
  BY DEF SamePhase, Phase

\* Only one worker moves.
LEMMA PhaseMoves ==
  ASSUME NEW w \in Workers, \A v \in Workers \ {w} : SamePhase(v)
  PROVE  Phases' = [Phases EXCEPT ![w] = Phase(w)']
  BY DEF SamePhase, Phases

\* Nothing that AtomicShards sees has changed.
LEMMA StutterMaps ==
  ASSUME AllSame, \A v \in Workers : SamePhase(v) /\ SameStatus(v)
  PROVE  [Abstract!Next]_(Abstract!vars)
<1>1. Stores' = Stores /\ Phases' = Phases /\ Statuses' = Statuses
  BY Unmoved
<1>. QED
  BY <1>1 DEF Abstract!vars, Stores, Phases, Statuses

\* A worker goes on with its packet, and no partition changes.
LEMMA MoveMaps ==
  ASSUME AllSame, NEW w \in Workers, SameStatus(w),
         \A v \in Workers \ {w} : SamePhase(v) /\ SameStatus(v),
         \/ SamePhase(w)
         \/ Phase(w) = "idle" /\ Phase(w)' \in {"working", "dropping"}
         \/ Phase(w) = "working" /\ Phase(w)' \in {"answering", "dropping"}
         \/ Phase(w) \in {"working", "dropping"} /\ Phase(w)' = "idle"
  PROVE  [Abstract!Next]_(Abstract!vars)
<1>1. Stores' = Stores /\ Statuses' = Statuses /\ Phases[w] = Phase(w)
  BY Unmoved DEF Phases
<1>2. Phases' = [Phases EXCEPT ![w] = Phase(w)']
  BY PhaseMoves
<1>3. CASE SamePhase(w)
  BY <1>3, StutterMaps
<1>4. CASE Phase(w) = "idle" /\ Phase(w)' \in {"working", "dropping"}
  <2>1. Abstract!Start(w)
    BY <1>1, <1>2, <1>4 DEF Abstract!Start, Abstract!Enter, Stores, Phases, Statuses
  <2>. QED
    BY <2>1 DEF Abstract!Next
<1>5. CASE Phase(w) = "working" /\ Phase(w)' \in {"answering", "dropping"}
  <2>1. Abstract!Decide(w)
    BY <1>1, <1>2, <1>5 DEF Abstract!Decide, Abstract!Enter, Stores, Phases, Statuses
  <2>. QED
    BY <2>1 DEF Abstract!Next
<1>6. CASE Phase(w) \in {"working", "dropping"} /\ Phase(w)' = "idle"
  <2>1. Abstract!Drop(w)
    BY <1>1, <1>2, <1>6 DEF Abstract!Drop, Abstract!Enter, Stores, Phases, Statuses
  <2>. QED
    BY <2>1 DEF Abstract!Next
<1>. QED
  BY <1>3, <1>4, <1>5, <1>6

\* The last step of a packet that is answered: its commit, or none.
LEMMA AnswerMaps ==
  ASSUME IInv, IInv', NEW w \in Workers, Worker(w), Commit(w) \/ MultiCommit(w)
  PROVE  [Abstract!Next]_(Abstract!vars)
<1>0. /\ StoreOK /\ shard[w] \in Shard
      /\ pc[w] \in {"commit", "mcommit"} /\ pc'[w] \in {"ready", "poll"}
      /\ \A v \in Workers \ {w} : pc'[v] = pc[v]
  BY CommitShapes, ReturnTyping DEF IInv, TypeOK, StoreOK
<1>1. Phase(w) = "answering" /\ Phase(w)' = "idle" /\ Phases[w] = Phase(w)
  BY <1>0 DEF Phase, Between, Phases
<1>2. Phases' = [Phases EXCEPT ![w] = "idle"]
  BY <1>0, <1>1, PhaseStays, PhaseMoves
<1>3. Statuses' = Statuses
  BY WorkerLeavesIrq, HandlesStay, StatusStays, Unmoved
<1>4. Stores' \in [Workers -> Contents]
  BY ShardFields DEF IInv, TypeOK, StoreOK, Stores
<1>5. ASSUME NEW r \in Workers, r # w \/ Statuses[r] # "serving"
      PROVE  Stores'[r] = Stores[r]
  <2>1. CASE shard' = shard
    BY <2>1 DEF Stores
  <2>2. ASSUME NEW c \in commit_transaction(shard[w]), shard' = [shard EXCEPT ![w] = c.shard]
        PROVE  Stores'[r] = Stores[r]
    <3>1. CASE r # w
      BY <1>0, <2>2, <3>1 DEF Stores, StoreOK
    <3>2. CASE r = w
      <4>1. shard[w].handle # "open"
        BY <1>5, <3>2 DEF Statuses, Status
      <4>2. Same(shard[w], c.shard)
        BY <1>0, <4>1, CommitContents
      <4>. QED
        BY <1>0, <2>2, <3>2, <4>2 DEF Stores, StoreOK, Same
    <3>. QED
      BY <3>1, <3>2
  <2>. QED
    BY <2>1, <2>2, CommitShapes
<1>6. Abstract!Answer(w)
  BY <1>1, <1>2, <1>3, <1>4, <1>5 DEF Abstract!Answer, Abstract!Enter, Stores, Phases, Statuses
<1>. QED
  BY <1>6 DEF Abstract!Next

\* Where a step that is no commit may lead.
LEMMA HandlerPlaces ==
  ASSUME IInv, NEW w \in Workers, Handle(w), ~Commit(w), ~MultiCommit(w)
  PROVE  /\ pc[w] \notin Between \cup {"commit", "mcommit"}
         /\ pc[w] \in {"ignore", "rollback", "mrollback"}
              => pc'[w] = pc[w] \/ pc'[w] \in {"ready", "poll"}
<1>1. CASE \/ Ignore(w) \/ UndoSavepoint(w) \/ DropTransaction(w)
           \/ MultiUndoSavepoint(w) \/ MultiDropTransaction(w)
  BY <1>1, ReturnTyping DEF Ignore, UndoSavepoint, DropTransaction, MultiUndoSavepoint,
     MultiDropTransaction, Finish, At, Between, IInv
<1>2. CASE \/ BeginTransaction(w) \/ FirstSavepoint(w) \/ Discard(w) \/ SetSavepoint(w)
           \/ RollbackToSavepoint(w) \/ EndOfText(w) \/ TakeKey(w) \/ TakeValue(w)
           \/ Apply(w) \/ SkipUnknown(w) \/ TakeCommand(w)
  BY <1>2 DEF BeginTransaction, FirstSavepoint, Discard, SetSavepoint, RollbackToSavepoint,
              EndOfText, TakeKey, TakeValue, Apply, SkipUnknown, TakeCommand, At, Between
<1>3. CASE \/ LockOthers(w) \/ Locate(w) \/ MultiFirstSavepoint(w)
           \/ MultiSetSavepoint(w) \/ MultiRollback(w)
  BY <1>3 DEF LockOthers, Locate, MultiFirstSavepoint, MultiSetSavepoint, MultiRollback, At,
              Between
<1>. QED
  BY <1>1, <1>2, <1>3 DEF Handle

\* A step of a worker.
LEMMA WorkerMaps ==
  ASSUME IInv, IInv', NEW w \in Workers, Worker(w)
  PROVE  [Abstract!Next]_(Abstract!vars)
<1>1. \A v \in Workers : SameStatus(v)
  BY WorkerLeavesIrq, HandlesStay, StatusStays
<1>2. \A v \in Workers \ {w} : SamePhase(v)
  <2>1. ASSUME NEW v \in Workers \ {w} PROVE pc'[v] = pc[v]
    BY OwnPartitionOnly
  <2>. QED
    BY <2>1, PhaseStays
<1>3. CASE Commit(w) \/ MultiCommit(w)
  BY <1>3, AnswerMaps
<1>4. CASE Handle(w) /\ ~Commit(w) /\ ~MultiCommit(w)
  <2>1. AllSame
    BY <1>4, HandlersKeepContents
  <2>2. /\ pc[w] \notin Between \cup {"commit", "mcommit"}
        /\ pc[w] \in {"ignore", "rollback", "mrollback"}
             => pc'[w] = pc[w] \/ pc'[w] \in {"ready", "poll"}
    BY <1>4, HandlerPlaces
  <2>3. \/ SamePhase(w)
        \/ Phase(w) = "working" /\ Phase(w)' \in {"answering", "dropping"}
        \/ Phase(w) \in {"working", "dropping"} /\ Phase(w)' = "idle"
    BY <2>2 DEF SamePhase, Phase, Between
  <2>. QED
    BY <1>1, <1>2, <2>1, <2>3, MoveMaps
<1>5. CASE EmptyPoll(w) \/ Dequeue(w) \/ Exit(w) \/ Receive(w)
  <2>1. shard' = shard
    BY <1>5 DEF EmptyPoll, Dequeue, Exit, Receive, vars, store
  <2>2. pc[w] \in Between
    BY <1>5 DEF EmptyPoll, Dequeue, Exit, Receive, At, Between
  <2>3. pc'[w] = pc[w] \/ pc'[w] \in {"ready", "exited", "begin", "lock", "ignore"}
    BY <1>5 DEF EmptyPoll, Dequeue, Exit, Receive, Goto, vars, IInv, TypeOK, ControlOK
  <2>4. \/ SamePhase(w)
        \/ Phase(w) = "idle" /\ Phase(w)' \in {"working", "dropping"}
    BY <2>2, <2>3 DEF SamePhase, Phase, Between
  <2>. QED
    BY <1>1, <1>2, <2>1, <2>4, SameStutter, MoveMaps
<1>. QED
  BY <1>3, <1>4, <1>5 DEF Worker

\* SIGINT closes a database and destroys its files, or fails to.
LEMMA CloseMaps ==
  ASSUME IInv, Shut, NEW h \in Handlers, CloseDb(h), ~Crash
  PROVE  [Abstract!Next]_(Abstract!vars)
<1>0. /\ shard \in [Workers -> Shard]
      /\ sig \in [Handlers -> -1..(NumWorkers + 1)] /\ copied \in [Handlers -> BOOLEAN]
      /\ Workers \subseteq Nat
  BY WorkersAreNumbers DEF IInv, TypeOK, StoreOK, ControlOK
<1>a. PICK i \in Workers :
        /\ Closing(h, i) /\ ~quit /\ quit' = quit
        /\ \E t \in CloseAndDestroy(shard[i]) : shard' = [shard EXCEPT ![i] = t]
        /\ sig' = [sig EXCEPT ![h] = i + 1]
        /\ copied' = [copied EXCEPT ![h] = FALSE]
        /\ UNCHANGED pc
  BY DEF CloseDb
<1>1. PICK s \in CloseAndDestroy(shard[i]) : shard' = [shard EXCEPT ![i] = s]
  BY <1>a
<1>2. s \in Shard /\ s.handle # "open"
  BY <1>0, CloseKeeps
<1>3. s.db = shard[i].db \/ s.db = Empty
  <2>1. close_database(shard[i]).db = shard[i].db
    BY <1>0 DEF close_database, NoTransaction, Shard
  <2>2. close_database(shard[i]) \in Shard
    <3>1. [shard[i] EXCEPT !.handle = "closed"] \in Shard
      BY <1>0 DEF Shard, Handles
    <3>. QED
      BY <1>0, <3>1, NoTransactionTyping DEF close_database
  <2>. QED
    BY <2>1, <2>2 DEF CloseAndDestroy, Shard
<1>4. Statuses[i] # "retired" /\ Status(i)' \in {"closing", "retired"}
  <2>1. Statuses[i] # "retired"
    BY <1>a DEF Statuses, Status
  <2>2. shard'[i].handle # "open"
    BY <1>0, <1>1, <1>2
  <2>. QED
    BY <2>1, <2>2 DEF Status
<1>5. \A v \in Workers \ {i} : SameStatus(v)
  <2>1. ASSUME NEW v \in Workers \ {i} PROVE SameStatus(v)
    <3>1. shard'[v] = shard[v]
      BY <1>0, <1>1
    <3>2. ASSUME NEW g \in Handlers PROVE Closing(g, v)' <=> Closing(g, v)
      <4>1. CASE g = h
        BY <1>0, <1>a, <4>1 DEF Closing
      <4>2. CASE g # h
        BY <1>0, <1>a, <4>2 DEF Closing
      <4>. QED
        BY <4>1, <4>2
    <3>. QED
      BY <1>a, <3>1, <3>2 DEF SameStatus, Status
  <2>. QED
    BY <2>1
<1>6. Statuses' = [Statuses EXCEPT ![i] = Status(i)']
  BY <1>5 DEF Statuses, SameStatus
<1>7. Stores' \in {Stores, [Stores EXCEPT ![i] = Empty]}
  <2>1. Stores' = [Stores EXCEPT ![i] = s.db]
    BY <1>0, <1>1, <1>2 DEF Stores
  <2>2. Stores[i] = shard[i].db /\ Stores = [Stores EXCEPT ![i] = Stores[i]]
    BY DEF Stores
  <2>. QED
    BY <1>3, <2>1, <2>2
<1>8. Phases' = Phases
  BY <1>a, PhaseStays, Unmoved
<1>9. Abstract!Close(i)
  BY <1>4, <1>6, <1>7, <1>8 DEF Abstract!Close, Stores, Phases, Statuses
<1>. QED
  BY <1>9 DEF Abstract!Next

\* The end of the loop over the databases, with the options destroyed.
LEMMA QuitMaps ==
  ASSUME IInv, Shut, NEW h \in Handlers, Quit(h), ~Crash
  PROVE  [Abstract!Next]_(Abstract!vars)
<1>1. sig[h] = NumWorkers /\ quit' = TRUE /\ UNCHANGED <<shard, pc>>
  BY DEF Quit, store
<1>2. ASSUME NEW i \in Workers
      PROVE  shard[i].handle \in {"closed", "unopened"}
  <2>1. i < NumWorkers
    BY NumWorkersAssumption DEF Workers
  <2>. QED
    BY <1>1, <2>1, ShardFields DEF Shut, IInv, TypeOK, StoreOK, Handles
<1>3. \A i \in Workers : Statuses[i] # "serving"
  BY <1>2 DEF Statuses, Status
<1>4. Statuses' = [i \in Workers |-> "retired"]
  BY <1>1, <1>2 DEF Statuses, Status
<1>5. Stores' = Stores /\ Phases' = Phases
  BY <1>1, SameStutter, PhaseStays, Unmoved
<1>6. Abstract!Finish
  BY <1>3, <1>4, <1>5 DEF Abstract!Finish, Stores, Phases, Statuses
<1>. QED
  BY <1>6 DEF Abstract!Next

\* A step of a signal handler.
LEMMA SignalMaps ==
  ASSUME IInv, Shut, NEW h \in Handlers, RaiseSignal(h) \/ SignalHandler(h)
  PROVE  [Abstract!Next]_(Abstract!vars)
<1>0. sig \in [Handlers -> -1..(NumWorkers + 1)] /\ copied \in [Handlers -> BOOLEAN]
  BY DEF IInv, TypeOK, ControlOK
<1>1. ASSUME UNCHANGED <<pc, shard, quit>>,
             \A v \in Workers :
               \/ SameStatus(v)
               \/ \A g \in Handlers : Closing(g, v)' <=> Closing(g, v)
               \/ shard[v].handle # "closed"
      PROVE  [Abstract!Next]_(Abstract!vars)
  <2>1. \A v \in Workers : SameStatus(v)
    BY <1>1 DEF SameStatus, Status
  <2>. QED
    BY <1>1, <2>1, SameStutter, PhaseStays, StutterMaps
<1>2. CASE RaiseSignal(h)
  <2>1. /\ sig' = [sig EXCEPT ![h] = 0] /\ sig[h] = -1
        /\ UNCHANGED <<pc, shard, copied, quit>>
    BY <1>2 DEF RaiseSignal, store
  <2>2. ~copied[h]
    BY <2>1, WorkersAreNumbers DEF Shut
  <2>3. \A v \in Workers, g \in Handlers : Closing(g, v)' <=> Closing(g, v)
    BY <1>0, <2>1, <2>2 DEF Closing
  <2>. QED
    BY <1>1, <2>1, <2>3
<1>3. CASE Crash
  <2>1. UNCHANGED <<pc, shard, sig, copied, quit>>
    BY <1>3 DEF Crash, store, irq
  <2>2. \A v \in Workers, g \in Handlers : Closing(g, v)' <=> Closing(g, v)
    BY <2>1 DEF Closing
  <2>. QED
    BY <1>1, <2>1, <2>2
<1>4. CASE CopyPath(h) /\ ~Crash
  <2>1. /\ copied' = [copied EXCEPT ![h] = TRUE]
        /\ UNCHANGED <<pc, shard, sig, quit>>
        /\ shard[sig[h]].handle # "closed"
    BY <1>4 DEF CopyPath, store
  <2>2. ASSUME NEW v \in Workers, v # sig[h], NEW g \in Handlers
        PROVE  Closing(g, v)' <=> Closing(g, v)
    BY <1>0, <2>1, <2>2 DEF Closing
  <2>. QED
    BY <1>1, <2>1, <2>2
<1>. QED
  BY <1>2, <1>3, <1>4, CloseMaps, QuitMaps DEF SignalHandler

\* A step of the server.
LEMMA StepMaps ==
  ASSUME IInv, IInv', Shut, [Next]_vars
  PROVE  [Abstract!Next]_(Abstract!vars)
<1>1. CASE UNCHANGED vars
  <2>1. UNCHANGED <<pc, shard, sig, copied, quit>>
    BY <1>1 DEF vars, store, irq
  <2>. QED
    BY <2>1, SameStutter, PhaseStays, StatusStays, StutterMaps DEF irq
<1>. QED
  BY <1>1, WorkerMaps, SignalMaps DEF Next

\* Databases that are open, or failed to open, no packet and no signal.
LEMMA InitMaps == Init => Abstract!Init /\ Shut
<1>. SUFFICES ASSUME Init PROVE Abstract!Init /\ Shut
  OBVIOUS
<1>1. Stores \in [Workers -> Contents]
  BY InitInvariant, ShardFields DEF IInv, TypeOK, StoreOK, Stores
<1>2. Phases = [w \in Workers |-> "idle"]
  BY DEF Init, Phases, Phase, Between
<1>3. ASSUME NEW w \in Workers PROVE Status(w) \in {"serving", "closing"}
  <2>1. PICK db \in Contents : shard[w] \in open_database(db)
    BY FirstDbAssumption DEF Init
  <2>2. shard[w].handle \in {"open", "unopened"}
    BY <2>1 DEF open_database
  <2>. QED
    BY <2>2 DEF Init, Status
<1>4. Statuses \in [Workers -> {"serving", "closing"}]
  BY <1>3 DEF Statuses
<1>5. Shut
  BY WorkersAreNumbers DEF Init, Shut
<1>. QED
  BY <1>1, <1>2, <1>4, <1>5 DEF Abstract!Init, Stores, Phases, Statuses

\* Whatever packets arrive, whatever the workers do to one another's texts,
\* however the store fails and whenever SIGINTs come, once or several times, a
\* partition changes in one step, in which its own worker answers a packet; a
\* packet that is to be dropped is never answered and changes nothing; and a
\* partition whose shutdown is over stays as it is.
THEOREM ServerImplementsAtomicShards == Spec => ImplementsAtomicShards
<1>1. Init => Abstract!Init /\ Shut
  BY InitMaps
<1>2. IInv /\ Shut /\ [Next]_vars => Shut'
  BY ShutNext
<1>3. IInv /\ IInv' /\ Shut /\ [Next]_vars => [Abstract!Next]_(Abstract!vars)
  BY StepMaps
<1>. QED
  BY <1>1, <1>2, <1>3, Invariant, PTL DEF Spec, ImplementsAtomicShards, Abstract!Spec

-----------------------------------------------------------------------------
(* The counter of savepoints is exact, on the same servers.  That counted  *)
(* savepoints exist (SavepointsBackCount) lets the clean-up loop end; that *)
(* every savepoint is counted makes it undo the whole packet.              *)

\* Nothing is counted before the first savepoint, and a handler at work has no
\* transaction whose commit was refused.
Counted(w) ==
  /\ savepoint_count[w] >= 0
  /\ pc[w] \in Between \cup {"ignore", "lock", "begin", "savepoint"} => savepoint_count[w] = 0
  /\ pc[w] \in Holding \ {"commit"} /\ Usable(shard[w]) => ~shard[w].spent
  /\ Unfinished(shard[w]) => savepoint_count[w] = Len(shard[w].saves)

AllCounted == \A w \in Workers : Counted(w)

\* What a worker does to itself and to its own partition is all that counts.
LEMMA CountedStep ==
  ASSUME AllCounted, NEW w \in Workers, Counted(w)',
         \A v \in Workers \ {w} : /\ pc'[v] = pc[v] /\ shard'[v] = shard[v]
                                  /\ savepoint_count'[v] = savepoint_count[v]
  PROVE  AllCounted'
<1>1. ASSUME NEW v \in Workers \ {w} PROVE Counted(v)'
  <2>1. Counted(v)
    BY DEF AllCounted
  <2>. QED
    BY <2>1 DEF Counted
<1>. QED
  BY <1>1 DEF AllCounted

LEMMA CountedStutter ==
  ASSUME AllCounted, UNCHANGED <<pc, store>>
  PROVE  AllCounted'
  BY DEF AllCounted, Counted, store

\* Steps of the burst, of the wait and of the command loop leave the store alone.
LEMMA CountedMove ==
  ASSUME IInv, AllCounted, NEW w \in Workers, UNCHANGED store,
         \A v \in Workers \ {w} : pc'[v] = pc[v],
         \/ /\ pc[w] \in Between \cup {"ignore", "lock"}
            /\ pc'[w] \in Between \cup {"ignore", "lock", "begin"}
         \/ /\ pc[w] \in Holding \ {"savepoint", "commit"}
            /\ pc'[w] \in Holding \ {"savepoint"}
  PROVE  AllCounted'
<1>1. Counted(w)
  BY DEF AllCounted
<1>2. Counted(w)'
  BY <1>1 DEF Counted, store, Holding, Between
<1>. QED
  BY <1>2, CountedStep DEF store

\* The outcomes of a savepoint and of a roll-back.
LEMMA SavepointOutcomes ==
  ASSUME NEW s \in Shard, NEW r \in set_savepoint(s)
  PROVE  \/ r.ret = "ok" /\ r.shard = Saved(s)
         \/ r.ret = "err" /\ r.shard = s /\ ~Usable(s)
  BY FaultyOpsAssumption, AttemptOutcome, OutcomeFields DEF set_savepoint

LEMMA RollbackOutcomes ==
  ASSUME NEW s \in Shard, NEW r \in rollback_to_last_savepoint(s)
  PROVE  \/ r.ret = "ok" /\ Usable(s) /\ s.saves # <<>> /\ r.shard = RolledBack(s)
         \/ r.ret = "err" /\ r.shard = s
  BY AttemptOutcome, OutcomeFields DEF rollback_to_last_savepoint

\* One savepoint more or less, and the counter follows.
LEMMA SavedCounted ==
  ASSUME NEW s \in Shard
  PROVE  /\ Saved(s).handle = s.handle /\ Saved(s).live = s.live /\ Saved(s).spent = s.spent
         /\ Len(Saved(s).saves) = Len(s.saves) + 1
  BY DEF Saved, Shard

LEMMA RolledBackCounted ==
  ASSUME NEW s \in Shard, s.saves # <<>>
  PROVE  /\ RolledBack(s).handle = s.handle /\ RolledBack(s).live = s.live
         /\ RolledBack(s).spent = s.spent
         /\ Len(RolledBack(s).saves) = Len(s.saves) - 1
         /\ Len(s.saves) \in Nat \ {0}
<1>1. RolledBack(s).spent = s.spent
  BY DEF RolledBack, Shard
<1>2. Len(s.saves) \in Nat \ {0}
  BY ShardFields
<1>. QED
  BY <1>1, <1>2, RolledBackTyping

\* The calls of the store for a packet of one partition.
LEMMA CountedSingle ==
  ASSUME IInv, AllTidy, AllCounted, NEW w \in Workers,
         \/ BeginTransaction(w) \/ FirstSavepoint(w) \/ Discard(w) \/ SetSavepoint(w)
         \/ RollbackToSavepoint(w) \/ UndoSavepoint(w) \/ DropTransaction(w) \/ Commit(w)
  PROVE  AllCounted'
<1>. DEFINE s == shard[w]
            n == savepoint_count[w]
<1>0. /\ s \in Shard /\ shard \in [Workers -> Shard] /\ Counted(w) /\ Tidy(w)
      /\ n \in Int /\ savepoint_count \in [Workers -> Int]
      /\ pc \in [Workers -> Places]
      /\ Len(s.saves) \in Nat
  <2>1. s \in Shard
    BY DEF IInv, TypeOK, StoreOK
  <2>. QED
    BY <2>1, ShardFields DEF IInv, TypeOK, ControlOK, StoreOK, AllCounted, AllTidy
<1>1. /\ \E t : shard' = [shard EXCEPT ![w] = t]
      /\ savepoint_count' = savepoint_count
         \/ \E k : savepoint_count' = [savepoint_count EXCEPT ![w] = k]
  <2>1. shard = [shard EXCEPT ![w] = shard[w]]
    BY <1>0
  <2>2. Discard(w) => shard' = shard /\ savepoint_count' = savepoint_count
    BY DiscardStutters DEF store
  <2>. QED
    BY <2>1, <2>2 DEF BeginTransaction, FirstSavepoint, SetSavepoint,
       RollbackToSavepoint, UndoSavepoint, DropTransaction, Commit, store
<1>2. \A v \in Workers \ {w} : pc'[v] = pc[v]
  BY HandlerMoves DEF Handle
<1>3. \A v \in Workers \ {w} : /\ shard'[v] = shard[v]
                               /\ savepoint_count'[v] = savepoint_count[v]
  BY <1>0, <1>1
<1>. SUFFICES Counted(w)'
  BY <1>2, <1>3, CountedStep
<1>4. CASE BeginTransaction(w)
  <2>1. PICK r \in begin_transaction(s) :
          /\ shard' = [shard EXCEPT ![w] = r.shard]
          /\ Goto(w, IF r.ret = "ok" THEN "savepoint" ELSE "commit")
    BY <1>4 DEF BeginTransaction
  <2>2. pc[w] = "begin" /\ n = 0 /\ savepoint_count'[w] = 0 /\ shard'[w] = r.shard
    BY <1>0, <1>4, <2>1 DEF BeginTransaction, At, Counted
  <2>3. CASE s.handle = "open" /\ ~s.live
    <3>. DEFINE t == [s EXCEPT !.live = TRUE, !.spent = FALSE, !.view = s.db, !.saves = <<>>]
    <3>1. r = Ok(t)
      BY <2>3 DEF begin_transaction
    <3>2. r.shard = t
      BY <3>1, OutcomeFields
    <3>3. ~t.spent /\ t.saves = <<>>
      BY <1>0 DEF Shard
    <3>4. ~r.shard.spent /\ Len(r.shard.saves) = 0
      BY <3>2, <3>3
    <3>5. pc'[w] \in {"savepoint", "commit"}
      BY <1>0, <2>1 DEF Goto
    <3>. QED
      BY <2>2, <3>4, <3>5 DEF Counted, Holding, Between
  <2>4. CASE ~(s.handle = "open" /\ ~s.live)
    <3>1. r.ret = "err" /\ r.shard = s
      BY <2>4, OutcomeFields DEF begin_transaction
    <3>2. pc'[w] = "commit"
      BY <1>0, <2>1, <3>1 DEF Goto
    <3>3. ~Unfinished(s)
      BY <1>0, <2>2 DEF Tidy, Holding
    <3>. QED
      BY <2>2, <3>1, <3>2, <3>3 DEF Counted, Between, Holding
  <2>. QED
    BY <2>3, <2>4
<1>5. CASE FirstSavepoint(w)
  <2>0. pc[w] = "savepoint" /\ n = 0
    BY <1>0, <1>5 DEF FirstSavepoint, At, Counted
  <2>1. PICK r \in set_savepoint(s) :
          IF r.ret = "ok"
          THEN /\ shard' = [shard EXCEPT ![w] = r.shard]
               /\ savepoint_count' = [savepoint_count EXCEPT ![w] = @ + 1]
               /\ Goto(w, "command")
          ELSE Goto(w, "discard") /\ UNCHANGED store
    BY <1>5 DEF FirstSavepoint
  <2>2. CASE r.ret = "ok"
    <3>1. /\ shard'[w] = Saved(s) /\ savepoint_count'[w] = n + 1
          /\ pc'[w] = "command"
      BY <1>0, <2>1, <2>2, SavepointOutcomes DEF Goto
    <3>2. n >= 0 /\ (Usable(s) => ~s.spent /\ n = Len(s.saves))
      BY <1>0, <2>0 DEF Counted, Holding, Unfinished
    <3>. QED
      BY <1>0, <3>1, <3>2, SavedCounted DEF Counted, Between, Usable, Unfinished
  <2>3. CASE r.ret # "ok"
    <3>1. /\ shard'[w] = s /\ savepoint_count'[w] = 0 /\ ~Usable(s)
          /\ pc'[w] = "discard"
      BY <1>0, <2>0, <2>1, <2>3, SavepointOutcomes DEF Goto, store
    <3>. QED
      BY <1>0, <3>1 DEF Counted, Between, Unfinished
  <2>. QED
    BY <2>2, <2>3
<1>10. CASE Discard(w)
  <2>1. pc[w] = "discard" /\ shard' = shard /\ savepoint_count' = savepoint_count
    BY <1>10, DiscardStutters DEF Discard, At, store
  <2>2. pc'[w] \in {"next", "commit"} /\ ~Usable(s)
    BY <1>0, <1>10, <2>1 DEF Discard, Goto, IInv, NothingToDiscard
  <2>. QED
    BY <1>0, <2>1, <2>2 DEF Counted, Between, Unfinished
<1>6. CASE SetSavepoint(w)
  <2>0. pc[w] = "command" /\ pc'[w] = "next"
    BY <1>0, <1>6 DEF SetSavepoint, At, Goto
  <2>1. PICK r \in set_savepoint(s) :
          /\ shard' = [shard EXCEPT ![w] = r.shard]
          /\ savepoint_count' = [savepoint_count EXCEPT ![w] = IF r.ret = "ok" THEN @ + 1 ELSE @]
    BY <1>6 DEF SetSavepoint
  <2>2. CASE r.ret = "ok"
    <3>1. shard'[w] = Saved(s) /\ savepoint_count'[w] = n + 1
      BY <1>0, <2>1, <2>2, SavepointOutcomes
    <3>2. n >= 0 /\ (Usable(s) => ~s.spent /\ n = Len(s.saves))
      BY <1>0, <2>0 DEF Counted, Holding, Unfinished
    <3>. QED
      BY <1>0, <2>0, <3>1, <3>2, SavedCounted DEF Counted, Between, Usable, Unfinished
  <2>3. CASE r.ret # "ok"
    <3>1. shard'[w] = s /\ savepoint_count'[w] = n
      BY <1>0, <2>1, <2>3, SavepointOutcomes
    <3>. QED
      BY <1>0, <2>0, <3>1 DEF Counted, Between, Holding
  <2>. QED
    BY <2>2, <2>3
<1>7. CASE RollbackToSavepoint(w) \/ UndoSavepoint(w)
  <2>0. pc[w] \in {"command", "rollback"} /\ pc'[w] \in {"next", "rollback"}
    BY <1>0, <1>7 DEF RollbackToSavepoint, UndoSavepoint, At, Goto
  <2>1. PICK r \in rollback_to_last_savepoint(s) :
          /\ shard' = [shard EXCEPT ![w] = r.shard]
          /\ savepoint_count' = [savepoint_count EXCEPT ![w] = IF r.ret = "ok" THEN @ - 1 ELSE @]
    BY <1>7 DEF RollbackToSavepoint, UndoSavepoint
  <2>2. CASE r.ret = "ok"
    <3>1. /\ shard'[w] = RolledBack(s) /\ savepoint_count'[w] = n - 1
          /\ Usable(s) /\ s.saves # <<>>
      BY <1>0, <2>1, <2>2, RollbackOutcomes
    <3>2. ~s.spent /\ n = Len(s.saves)
      BY <1>0, <2>0, <3>1 DEF Counted, Holding, Unfinished
    <3>. QED
      BY <1>0, <2>0, <3>1, <3>2, RolledBackCounted DEF Counted, Between, Unfinished
  <2>3. CASE r.ret # "ok"
    <3>1. shard'[w] = s /\ savepoint_count'[w] = n
      BY <1>0, <2>1, <2>3, RollbackOutcomes
    <3>. QED
      BY <1>0, <2>0, <3>1 DEF Counted, Between, Holding
  <2>. QED
    BY <2>2, <2>3
<1>8. CASE DropTransaction(w)
  <2>1. /\ shard'[w] = delete_transaction(s) /\ savepoint_count'[w] = n /\ n <= 0
        /\ Return(w)
    BY <1>0, <1>8 DEF DropTransaction
  <2>2. pc'[w] \in {"ready", "poll"}
    BY <2>1, ReturnTyping DEF IInv
  <2>. QED
    BY <1>0, <2>1, <2>2, DeleteFinishes DEF Counted, Between, Holding
<1>9. CASE Commit(w)
  <2>1. PICK r \in commit_transaction(s) : shard' = [shard EXCEPT ![w] = r.shard]
    BY <1>9 DEF Commit
  <2>2. shard'[w] = r.shard /\ savepoint_count'[w] = 0 /\ Return(w)
    BY <1>0, <1>9, <2>1 DEF Commit
  <2>3. pc'[w] \in {"ready", "poll"}
    BY <2>2, ReturnTyping DEF IInv
  <2>. QED
    BY <1>0, <2>2, <2>3, CommitFinishes DEF Counted, Between, Holding
<1>. QED
  BY <1>4, <1>5, <1>6, <1>7, <1>8, <1>9, <1>10

\* A data command moves no savepoint.
LEMMA OperateCounted ==
  ASSUME NEW s \in Shard, NEW op \in {"r", "w", "d"}, NEW k, NEW v, NEW r \in Operate(op, k, v, s)
  PROVE  /\ r.shard.handle = s.handle /\ r.shard.live = s.live
         /\ r.shard.spent = s.spent /\ r.shard.saves = s.saves
<1>1. \E t \in {s, [s EXCEPT !.view[k] = v], [s EXCEPT !.view[k] = NotFound]} : r.shard = t
  BY AttemptOutcome, OutcomeFields
     DEF Operate, read_keyval_pair, write_keyval_pair, delete_keyval_pair
<1>. QED
  BY <1>1 DEF Shard

\* The command loop: no step of it but a data command touches the store.
LEMMA CountedBody ==
  ASSUME IInv, AllTidy, AllCounted, NEW w \in Workers,
         \/ EndOfText(w) \/ TakeKey(w) \/ TakeValue(w) \/ Apply(w)
         \/ SkipUnknown(w) \/ TakeCommand(w)
  PROVE  AllCounted'
<1>1. CASE Crash
  BY <1>1, CountedStutter DEF Crash, store
<1>2. CASE Apply(w) /\ ~Crash
  <2>. DEFINE s == shard[w]
  <2>1. /\ s \in Shard /\ shard \in [Workers -> Shard] /\ pc \in [Workers -> Places]
        /\ Counted(w) /\ part[w] = w /\ pc[w] = "apply"
    BY <1>2 DEF IInv, TypeOK, ControlOK, StoreOK, AllCounted, AllTidy, Tidy, Apply, At
  <2>2. Head(msg[w]) \in {"r", "w", "d"}
    BY <2>1 DEF IInv, HandlerOK, IsData
  <2>3. PICK r \in Operate(Head(msg[w]), key[w], val[w], s) : shard' = [shard EXCEPT ![w] = r.shard]
    BY <1>2, <2>1 DEF Apply
  <2>4. pc' = [pc EXCEPT ![w] = "next"] /\ savepoint_count' = savepoint_count
    BY <1>2 DEF Apply, Goto
  <2>5. /\ r.shard.handle = s.handle /\ r.shard.live = s.live
        /\ r.shard.spent = s.spent /\ r.shard.saves = s.saves
    BY <2>1, <2>2, <2>3, OperateCounted
  <2>6. shard'[w] = r.shard /\ pc'[w] = "next"
    BY <2>1, <2>3, <2>4
  <2>7. Counted(w)'
    BY <2>1, <2>4, <2>5, <2>6 DEF Counted, Usable, Unfinished, Between, Holding
  <2>8. \A v \in Workers \ {w} : /\ pc'[v] = pc[v] /\ shard'[v] = shard[v]
                                 /\ savepoint_count'[v] = savepoint_count[v]
    BY <2>1, <2>3, <2>4
  <2>. QED
    BY <2>7, <2>8, CountedStep
<1>3. CASE ~Crash /\ ~Apply(w)
  <2>1. UNCHANGED store
    BY <1>3 DEF EndOfText, TakeKey, TakeValue, SkipUnknown, TakeCommand, store
  <2>2. ~Multi(w) /\ pc[w] \in {"command", "value", "next"} /\ pc \in [Workers -> Places]
    BY <1>3 DEF IInv, TypeOK, ControlOK, AllTidy, Tidy, Holding, At, EndOfText, TakeKey,
                TakeValue, SkipUnknown, TakeCommand
  <2>3. PICK place \in {"command", "value", "apply", "next", "commit", "rollback"} : Goto(w, place)
    <3>1. CASE TakeCommand(w)
      BY <2>2, <3>1 DEF TakeCommand
    <3>2. CASE ~TakeCommand(w)
      BY <1>3, <2>2, <3>2 DEF EndOfText, TakeKey, TakeValue, SkipUnknown
    <3>. QED
      BY <3>1, <3>2
  <2>4. pc'[w] = place /\ \A v \in Workers \ {w} : pc'[v] = pc[v]
    BY <2>2, <2>3 DEF Goto
  <2>5. pc[w] \in Holding \ {"savepoint", "commit"} /\ pc'[w] \in Holding \ {"savepoint"}
    BY <2>2, <2>4 DEF Holding
  <2>. QED
    BY <2>1, <2>4, <2>5, CountedMove
<1>. QED
  BY <1>1, <1>2, <1>3

\* The burst, packet by packet.
LEMMA CountedLoop ==
  ASSUME IInv, AllCounted, NEW w \in Workers, Dequeue(w) \/ Exit(w) \/ Receive(w) \/ Ignore(w)
  PROVE  AllCounted'
<1>1. UNCHANGED store
  BY DEF Dequeue, Exit, Receive, Ignore
<1>2. pc[w] \in {"poll", "ready", "ignore"}
  BY DEF Dequeue, Exit, Receive, Ignore, At
<1>3. /\ pc'[w] \in {"ready", "exited", "poll", "begin", "lock", "ignore"}
      /\ \A v \in Workers \ {w} : pc'[v] = pc[v]
  <2>1. CASE Dequeue(w) \/ Exit(w) \/ Ignore(w)
    BY <2>1, GotoTyping, ReturnTyping DEF Dequeue, Exit, Ignore, IInv, TypeOK, Places, Between
  <2>2. CASE Receive(w)
    <3>1. PICK place \in {"begin", "lock", "ignore"} : Goto(w, place)
      BY <2>2 DEF Receive
    <3>. QED
      BY <3>1 DEF Goto, IInv, TypeOK, ControlOK
  <2>. QED
    BY <2>1, <2>2
<1>. QED
  BY <1>1, <1>2, <1>3, CountedMove DEF Between

\* A multi-partition packet gets no further than the wait, where it returns.
LEMMA CountedMulti ==
  ASSUME IInv, AllTidy, AllCounted, NEW w \in Workers,
         \/ LockOthers(w) \/ Locate(w) \/ MultiFirstSavepoint(w)
         \/ MultiSetSavepoint(w) \/ MultiRollback(w)
         \/ MultiUndoSavepoint(w) \/ MultiDropTransaction(w) \/ MultiCommit(w)
  PROVE  AllCounted'
<1>0. Tidy(w)
  BY DEF AllTidy
<1>1. LockOthers(w)
  BY <1>0 DEF Tidy, Holding, At, Locate, MultiFirstSavepoint, MultiSetSavepoint, MultiRollback,
              MultiUndoSavepoint, MultiDropTransaction, MultiCommit
<1>2. pc[w] = "lock" /\ NumWorkers > 1
  BY <1>0, <1>1 DEF LockOthers, At, Tidy
<1>3. {i \in Workers : i # pkt[w].leader} # {}
  <2>1. 0 \in Workers /\ 1 \in Workers
    BY <1>2, NumWorkersAssumption DEF Workers
  <2>. QED
    BY <2>1
<1>4. Return(w) /\ UNCHANGED store
  BY <1>1, <1>3 DEF LockOthers
<1>5. pc'[w] \in {"ready", "poll"} /\ \A v \in Workers \ {w} : pc'[v] = pc[v]
  BY <1>4, ReturnTyping DEF IInv
<1>. QED
  BY <1>2, <1>4, <1>5, CountedMove DEF Between

\* A partition that is closed has no transaction left to count for.
LEMMA CountedSignal ==
  ASSUME IInv, AllCounted, NEW h \in Handlers, RaiseSignal(h) \/ SignalHandler(h)
  PROVE  AllCounted'
<1>1. UNCHANGED <<pc, savepoint_count>>
  BY SignalShapes
<1>2. CASE shard' = shard
  BY <1>1, <1>2, CountedStutter DEF store
<1>3. ASSUME NEW i \in Workers, NEW s \in CloseAndDestroy(shard[i]),
             shard' = [shard EXCEPT ![i] = s]
      PROVE  AllCounted'
  <2>1. shard \in [Workers -> Shard]
    BY DEF IInv, TypeOK, StoreOK
  <2>2. s.handle # "open"
    BY <2>1, CloseKeeps
  <2>3. ASSUME NEW v \in Workers PROVE Counted(v)'
    <3>1. Counted(v)
      BY DEF AllCounted
    <3>2. Usable(shard'[v]) => shard'[v] = shard[v]
      BY <1>3, <2>1, <2>2 DEF Usable
    <3>. QED
      BY <1>1, <3>1, <3>2 DEF Counted, Unfinished
  <2>. QED
    BY <2>3 DEF AllCounted
<1>. QED
  BY <1>2, <1>3, SignalShapes

LEMMA CountedNext ==
  ASSUME IInv, AllTidy, AllCounted, [Next]_vars
  PROVE  AllCounted'
<1>1. CASE UNCHANGED vars
  BY <1>1, CountedStutter DEF vars, store
<1>2. ASSUME NEW h \in Handlers, RaiseSignal(h) \/ SignalHandler(h) PROVE AllCounted'
  BY <1>2, CountedSignal
<1>3. ASSUME NEW w \in Workers, Worker(w) PROVE AllCounted'
  <2>1. CASE EmptyPoll(w)
    BY <1>1, <2>1 DEF EmptyPoll
  <2>. QED
    BY <1>3, <2>1, CountedLoop, CountedSingle, CountedBody, CountedMulti DEF Worker, Handle
<1>. QED
  BY <1>1, <1>2, <1>3 DEF Next

\* On a server with several workers, or one that is sent packets of a single
\* partition only, savepoint_count (datastore.h:70) is the number of savepoints
\* of the transaction a handler works on (server.c:102, 118, 124) and is 0
\* between two packets, after one that ended in a roll-back, in a refused commit
\* or on a closed partition as well: the loop of server.c:139-143 undoes the
\* whole packet, and the next packet starts to count from 0.
THEOREM SavepointsCounted ==
  ASSUME NoMultiExecuted
  PROVE  Spec => []ExactCounts
<1>1. Init => AllCounted /\ AllTidy
  <2>1. Init => AllCounted
    <3>. SUFFICES ASSUME Init, NEW w \in Workers PROVE Counted(w)
      BY DEF AllCounted
    <3>1. pc[w] = "poll" /\ savepoint_count[w] = 0
      BY DEF Init
    <3>2. ~Unfinished(shard[w])
      BY <3>1, TidyInit DEF AllTidy, Tidy, Holding
    <3>. QED
      BY <3>1, <3>2 DEF Counted, Between, Holding
  <2>. QED
    BY <2>1, TidyInit
<1>2. IInv /\ AllTidy /\ AllCounted /\ [Next]_vars => AllTidy' /\ AllCounted'
  BY TidyNext, CountedNext
<1>3. AllCounted => ExactCounts
  BY DEF AllCounted, Counted, ExactCounts
<1>. QED
  BY <1>1, <1>2, <1>3, Invariant, PTL DEF Spec

-----------------------------------------------------------------------------
(* All or nothing.  While a handler works on a transaction that can still  *)
(* be committed, the transaction is what the commands attempted so far     *)
(* make of the partition: its savepoints with its view on top are the      *)
(* stack of contents that Played computes.  First what Played computes,    *)
(* by induction over the commands: the numbers of commands for which a     *)
(* fact holds are a set, and that set is Nat.                              *)

\* The stacks after the first N commands.
StacksUpto(f, commands, contents, N) ==
  f = [n \in 0..N |-> IF n = 0 THEN <<contents>> ELSE Play(f[n - 1], commands[n])]

\* There are such stacks: they are computed command by command.
LEMMA StacksExist ==
  ASSUME NEW commands, NEW contents, NEW N \in Nat
  PROVE  \E f : StacksUpto(f, commands, contents, N)
<1>. DEFINE S == {M \in Nat : \E f : StacksUpto(f, commands, contents, M)}
<1>1. 0 \in S
  <2>1. StacksUpto([n \in 0..0 |-> <<contents>>], commands, contents, 0)
    BY DEF StacksUpto
  <2>. QED
    BY <2>1
<1>2. ASSUME NEW M \in S PROVE M + 1 \in S
  <2>1. PICK f : StacksUpto(f, commands, contents, M)
    OBVIOUS
  <2>. DEFINE g == [n \in 0..(M + 1) |-> IF n = M + 1 THEN Play(f[M], commands[M + 1]) ELSE f[n]]
  <2>2. \A n \in 0..M : g[n] = f[n]
    OBVIOUS
  <2>3. ASSUME NEW n \in 0..(M + 1)
        PROVE  g[n] = IF n = 0 THEN <<contents>> ELSE Play(g[n - 1], commands[n])
    <3>1. CASE n = M + 1
      <4>1. n - 1 = M /\ M \in 0..M /\ n # 0
        BY <3>1
      <4>2. g[n] = Play(f[M], commands[M + 1])
        BY <3>1
      <4>3. g[n - 1] = f[M]
        BY <2>2, <4>1
      <4>. QED
        BY <3>1, <4>1, <4>2, <4>3
    <3>2. CASE n = 0
      BY <2>1, <2>2, <3>2 DEF StacksUpto
    <3>3. CASE n \in 1..M
      <4>1. n \in 0..M /\ n - 1 \in 0..M /\ n # 0
        BY <3>3
      <4>2. f[n] = Play(f[n - 1], commands[n])
        BY <2>1, <4>1 DEF StacksUpto
      <4>. QED
        BY <2>2, <4>1, <4>2
    <3>. QED
      BY <3>1, <3>2, <3>3
  <2>4. g = [n \in 0..(M + 1) |-> g[n]]
    OBVIOUS
  <2>. HIDE DEF g
  <2>5. StacksUpto(g, commands, contents, M + 1)
    BY <2>3, <2>4 DEF StacksUpto
  <2>. QED
    BY <2>5
<1>. HIDE DEF S
<1>3. S = Nat
  <2>1. S \in SUBSET Nat
    BY DEF S
  <2>. QED
    BY <1>1, <1>2, <2>1, AllNumbers
<1>4. N \in S
  BY <1>3
<1>. QED
  BY <1>4 DEF S

\* The stacks of a run depend on the commands so far and on no later one.
LEMMA StacksAgree ==
  ASSUME NEW c, NEW d, NEW contents, NEW M \in Nat, NEW N \in Nat, M <= N,
         \A n \in 1..M : c[n] = d[n],
         NEW f, StacksUpto(f, c, contents, M), NEW g, StacksUpto(g, d, contents, N)
  PROVE  f[M] = g[M]
<1>. DEFINE S == {n \in Nat : n <= M => f[n] = g[n]}
<1>1. 0 \in S
  BY DEF StacksUpto
<1>2. ASSUME NEW n \in S PROVE n + 1 \in S
  <2>. SUFFICES ASSUME n + 1 <= M PROVE f[n + 1] = g[n + 1]
    OBVIOUS
  <2>1. n + 1 \in 0..M /\ n + 1 \in 0..N /\ n + 1 \in 1..M /\ n + 1 # 0 /\ (n + 1) - 1 = n
    OBVIOUS
  <2>2. f[n + 1] = Play(f[n], c[n + 1])
    BY <2>1 DEF StacksUpto
  <2>3. g[n + 1] = Play(g[n], d[n + 1])
    BY <2>1 DEF StacksUpto
  <2>4. f[n] = g[n] /\ c[n + 1] = d[n + 1]
    BY <2>1
  <2>. QED
    BY <2>2, <2>3, <2>4
<1>. HIDE DEF S
<1>3. S = Nat
  <2>1. S \in SUBSET Nat
    BY DEF S
  <2>. QED
    BY <1>1, <1>2, <2>1, AllNumbers
<1>4. M \in S
  BY <1>3
<1>. QED
  BY <1>4 DEF S

\* Played is the last of the stacks.
LEMMA PlayedStacks ==
  ASSUME NEW commands, NEW contents, Len(commands) \in Nat
  PROVE  \E f : /\ StacksUpto(f, commands, contents, Len(commands))
                /\ Played(commands, contents) = f[Len(commands)]
<1>. DEFINE N == Len(commands)
            h == CHOOSE f : StacksUpto(f, commands, contents, N)
<1>1. StacksUpto(h, commands, contents, N)
  BY StacksExist
<1>2. Played(commands, contents) = h[N]
  BY DEF Played, StacksUpto
<1>. QED
  BY <1>1, <1>2

\* A handler that has attempted no command has done nothing.
LEMMA PlayedNone ==
  ASSUME NEW contents
  PROVE  Played(<<>>, contents) = <<contents>>
<1>1. PICK f : /\ StacksUpto(f, <<>>, contents, Len(<<>>))
               /\ Played(<<>>, contents) = f[Len(<<>>)]
  BY PlayedStacks
<1>. QED
  BY <1>1 DEF StacksUpto

\* One more command is played on what the earlier ones have made.
LEMMA PlayedMore ==
  ASSUME NEW X, NEW c \in Seq(X), NEW x \in X, NEW contents
  PROVE  Played(Append(c, x), contents) = Play(Played(c, contents), x)
<1>. DEFINE d == Append(c, x)
<1>1. /\ Len(c) \in Nat /\ Len(d) = Len(c) + 1
      /\ \A n \in 1..Len(c) : c[n] = d[n]
      /\ d[Len(c) + 1] = x
  OBVIOUS
<1>. HIDE DEF d
<1>2. PICK f : StacksUpto(f, c, contents, Len(c)) /\ Played(c, contents) = f[Len(c)]
  BY <1>1, PlayedStacks
<1>3. PICK g : StacksUpto(g, d, contents, Len(d)) /\ Played(d, contents) = g[Len(d)]
  BY <1>1, PlayedStacks
<1>4. f[Len(c)] = g[Len(c)]
  BY <1>1, <1>2, <1>3, StacksAgree
<1>5. g[Len(c) + 1] = Play(g[Len(c)], d[Len(c) + 1])
  <2>1. Len(c) + 1 \in 0..Len(d) /\ Len(c) + 1 # 0 /\ (Len(c) + 1) - 1 = Len(c)
    BY <1>1
  <2>. QED
    BY <1>3, <2>1 DEF StacksUpto
<1>. QED
  BY <1>1, <1>2, <1>3, <1>4, <1>5 DEF d
\* The stack a transaction stands for.
Stack(s) == Append(s.saves, s.view)

\* What a savepoint, a roll-back and the data commands do to that stack.
LEMMA SavepointPlays ==
  ASSUME NEW s \in Shard
  PROVE  Play(Stack(s), <<"s">>) = Stack(Saved(s))
<1>1. s.saves \in Seq(Contents) /\ s.view \in Contents
  BY ShardFields
<1>2. Stack(s) # <<>> /\ Top(Stack(s)) = s.view
  BY <1>1 DEF Stack, Top
<1>3. Play(Stack(s), <<"s">>) = Append(Stack(s), s.view)
  BY <1>2 DEF Play
<1>4. Saved(s).saves = Stack(s) /\ Saved(s).view = s.view
  BY DEF Saved, Stack, Shard
<1>. QED
  BY <1>3, <1>4 DEF Stack

LEMMA RollbackPlays ==
  ASSUME NEW s \in Shard, s.saves # <<>>
  PROVE  Play(Stack(s), <<"b">>) = Stack(RolledBack(s))
<1>1. s.saves \in Seq(Contents) /\ s.view \in Contents
  BY ShardFields
<1>2. Stack(s) # <<>> /\ SubSeq(Stack(s), 1, Len(Stack(s)) - 1) = s.saves
  BY <1>1 DEF Stack
<1>3. Play(Stack(s), <<"b">>) = s.saves
  BY <1>2 DEF Play
<1>4. /\ RolledBack(s).saves = SubSeq(s.saves, 1, Len(s.saves) - 1)
      /\ RolledBack(s).view = s.saves[Len(s.saves)]
  BY DEF RolledBack, Shard
<1>5. Append(SubSeq(s.saves, 1, Len(s.saves) - 1), s.saves[Len(s.saves)]) = s.saves
  BY <1>1
<1>. QED
  BY <1>3, <1>4, <1>5 DEF Stack

LEMMA OperatePlays ==
  ASSUME NEW s \in Shard, NEW op \in {"r", "w", "d"}, NEW k \in Words, NEW v,
         NEW r \in Operate(op, k, v, s), r.ret = "ok"
  PROVE  /\ Play(Stack(s), IF op = "w" THEN <<op, k, v>> ELSE <<op, k>>) = Stack(r.shard)
         /\ r.shard.spent = s.spent
<1>1. s.saves \in Seq(Contents) /\ s.view \in Contents
  BY ShardFields
<1>2. Stack(s) # <<>> /\ Top(Stack(s)) = s.view
  BY <1>1 DEF Stack, Top
<1>3. ASSUME NEW c PROVE [Stack(s) EXCEPT ![Len(Stack(s))] = c] = Append(s.saves, c)
  <2>. DEFINE n == Len(s.saves)
  <2>1. n \in Nat /\ Len(Stack(s)) = n + 1 /\ \A i \in 1..n : Stack(s)[i] = s.saves[i]
    BY <1>1 DEF Stack
  <2>2. Stack(s) = [i \in 1..(n + 1) |-> Stack(s)[i]]
    BY <1>1 DEF Stack
  <2>3. Append(s.saves, c) = [i \in 1..(n + 1) |-> IF i = n + 1 THEN c ELSE s.saves[i]]
    BY <1>1
  <2>. HIDE DEF n
  <2>4. \A i \in 1..(n + 1) : i = n + 1 \/ i \in 1..n
    BY <2>1
  <2>. QED
    BY <2>1, <2>2, <2>3, <2>4
<1>4. CASE op = "r"
  <2>1. r = Ok(s) /\ s.view[k] # NotFound
    BY <1>4, AttemptOutcome, OutcomeFields DEF Operate, read_keyval_pair
  <2>2. Play(Stack(s), <<"r", k>>) = Stack(s)
    BY <1>2, <2>1 DEF Play
  <2>. QED
    BY <1>4, <2>1, <2>2, OutcomeFields
<1>5. CASE op = "w"
  <2>. DEFINE t == [s EXCEPT !.view[k] = v]
  <2>1. r.shard = t
    BY <1>5, AttemptOutcome, OutcomeFields DEF Operate, write_keyval_pair
  <2>2. t.saves = s.saves /\ t.view = [s.view EXCEPT ![k] = v] /\ t.spent = s.spent
    BY DEF Shard
  <2>3. Play(Stack(s), <<"w", k, v>>)
          = [Stack(s) EXCEPT ![Len(Stack(s))] = [s.view EXCEPT ![k] = v]]
    BY <1>2 DEF Play
  <2>. QED
    BY <1>3, <1>5, <2>1, <2>2, <2>3 DEF Stack
<1>6. CASE op = "d"
  <2>. DEFINE t == [s EXCEPT !.view[k] = NotFound]
  <2>1. r.shard = t
    BY <1>6, AttemptOutcome, OutcomeFields DEF Operate, delete_keyval_pair
  <2>2. t.saves = s.saves /\ t.view = [s.view EXCEPT ![k] = NotFound] /\ t.spent = s.spent
    BY DEF Shard
  <2>3. Play(Stack(s), <<"d", k>>)
          = [Stack(s) EXCEPT ![Len(Stack(s))] = [s.view EXCEPT ![k] = NotFound]]
    BY <1>2 DEF Play
  <2>. QED
    BY <1>3, <1>6, <2>1, <2>2, <2>3 DEF Stack
<1>. QED
  BY <1>4, <1>5, <1>6

\* A command that succeeds had a transaction to run in.
LEMMA OperateNeeds ==
  ASSUME NEW op \in {"r", "w", "d"}, NEW k, NEW v, NEW s, NEW r \in Operate(op, k, v, s),
         r.ret = "ok"
  PROVE  Usable(s)
<1>1. r \in {Err(s)} \/ \E o, t : r \in Attempt(o, s, t)
  BY DEF Operate, read_keyval_pair, write_keyval_pair, delete_keyval_pair
<1>. QED
  BY <1>1, AttemptOutcome, OutcomeFields

\* The transaction of partition w is what the handler's commands make.
Mirrors(w) == Played(ran[w], shard[w].db) = Stack(shard[w])

\* The places of a handler none of whose commands has failed, or which commits.
Trusted(w) ==
  \/ pc[w] \in {"savepoint", "command", "value", "apply", "commit"}
  \/ pc[w] = "next" /\ ret[w] # "err"

Faithful(w) ==
  /\ pc[w] = "begin" => ran[w] = <<>>
  /\ Trusted(w) /\ Unfinished(shard[w]) => Mirrors(w)

AllFaithful == \A w \in Workers : Faithful(w)

\* What a worker does to itself and to its own partition is all that counts.
LEMMA FaithfulStep ==
  ASSUME AllFaithful, NEW w \in Workers, Faithful(w)',
         \A v \in Workers \ {w} : /\ pc'[v] = pc[v] /\ ret'[v] = ret[v]
                                  /\ ran'[v] = ran[v] /\ shard'[v] = shard[v]
  PROVE  AllFaithful'
<1>1. ASSUME NEW v \in Workers \ {w} PROVE Faithful(v)'
  <2>1. Faithful(v)
    BY DEF AllFaithful
  <2>. QED
    BY <2>1 DEF Faithful, Trusted, Mirrors
<1>. QED
  BY <1>1 DEF AllFaithful

LEMMA FaithfulStutter ==
  ASSUME AllFaithful, UNCHANGED <<pc, ret, ran, shard>>
  PROVE  AllFaithful'
  BY DEF AllFaithful, Faithful, Trusted, Mirrors

\* Leaving the handler, or giving up its packet.
LEMMA FaithfulAway ==
  ASSUME IInv, AllFaithful, NEW w \in Workers,
         pc'[w] \notin {"begin", "savepoint", "command", "value", "apply", "commit", "next"},
         \A v \in Workers \ {w} : /\ pc'[v] = pc[v] /\ ret'[v] = ret[v]
                                  /\ ran'[v] = ran[v] /\ shard'[v] = shard[v]
  PROVE  AllFaithful'
<1>1. Faithful(w)'
  BY DEF Faithful, Trusted
<1>. QED
  BY <1>1, FaithfulStep

\* One command more, and the transaction follows.
LEMMA FaithfulCommand ==
  ASSUME IInv, NEW w \in Workers, Mirrors(w), NEW command \in Seq(Words \cup {"s", "b"}),
         Attempted(w, command),
         Play(Stack(shard[w]), command) = Stack(shard'[w]), shard'[w].db = shard[w].db
  PROVE  Mirrors(w)'
<1>1. ran[w] \in Seq(Seq(Words \cup {"s", "b"})) /\ ran'[w] = Append(ran[w], command)
  BY DEF IInv, TypeOK, TextOK, Attempted
<1>2. Played(ran'[w], shard[w].db) = Play(Played(ran[w], shard[w].db), command)
  BY <1>1, PlayedMore
<1>. QED
  BY <1>2 DEF Mirrors

\* The burst, packet by packet.
LEMMA FaithfulLoop ==
  ASSUME IInv, AllFaithful, NEW w \in Workers, Dequeue(w) \/ Exit(w) \/ Receive(w) \/ Ignore(w)
  PROVE  AllFaithful'
<1>1. shard' = shard
  BY DEF Dequeue, Exit, Receive, Ignore, store
<1>2. CASE Dequeue(w) \/ Exit(w) \/ Ignore(w)
  <2>1. ret' = ret /\ ran' = ran
    BY <1>2 DEF Dequeue, Exit, Ignore
  <2>2. /\ pc'[w] \in {"ready", "exited", "poll"}
        /\ \A v \in Workers \ {w} : pc'[v] = pc[v]
    BY <1>2, GotoTyping, ReturnTyping DEF Dequeue, Exit, Ignore, IInv, TypeOK, Places, Between
  <2>. QED
    BY <1>1, <2>1, <2>2, FaithfulAway
<1>3. CASE Receive(w)
  <2>1. PICK place \in {"begin", "lock", "ignore"} : Goto(w, place)
    BY <1>3 DEF Receive
  <2>2. pc'[w] = place /\ \A v \in Workers \ {w} : pc'[v] = pc[v]
    BY <2>1 DEF Goto, IInv, TypeOK, ControlOK
  <2>3. ran' = [ran EXCEPT ![w] = <<>>] /\ ret' = [ret EXCEPT ![w] = "unset"]
    BY <1>3 DEF Receive
  <2>4. ran'[w] = <<>> /\ \A v \in Workers \ {w} : ran'[v] = ran[v] /\ ret'[v] = ret[v]
    BY <2>3 DEF IInv, TypeOK, TextOK, ControlOK
  <2>5. Faithful(w)'
    BY <2>2, <2>4 DEF Faithful, Trusted
  <2>. QED
    BY <1>1, <2>2, <2>4, <2>5, FaithfulStep
<1>. QED
  BY <1>2, <1>3

\* A new transaction mirrors the partition; one that did not begin can only
\* have been spent, or is on a partition that is not open.
LEMMA FaithfulBegin ==
  ASSUME IInv, AllTidy, AllFaithful, NEW w \in Workers, BeginTransaction(w)
  PROVE  AllFaithful'
<1>0. shard[w] \in Shard /\ shard \in [Workers -> Shard]
  BY DEF IInv, TypeOK, StoreOK
<1>1. PICK r \in begin_transaction(shard[w]) :
        /\ shard' = [shard EXCEPT ![w] = r.shard]
        /\ ret'   = [ret EXCEPT ![w] = r.ret]
        /\ Goto(w, IF r.ret = "ok" THEN "savepoint" ELSE "commit")
  BY DEF BeginTransaction
<1>2. /\ shard'[w] = r.shard /\ pc'[w] \in {"savepoint", "commit"}
      /\ \A v \in Workers \ {w} : /\ pc'[v] = pc[v] /\ ret'[v] = ret[v] /\ shard'[v] = shard[v]
  BY <1>0, <1>1 DEF Goto, IInv, TypeOK, ControlOK
<1>3. ran' = ran /\ ran[w] = <<>> /\ pc[w] = "begin"
  BY DEF BeginTransaction, At, AllFaithful, Faithful
<1>4. CASE shard[w].handle = "open" /\ ~shard[w].live
  <2>. DEFINE s == shard[w]
              t == [s EXCEPT !.live = TRUE, !.spent = FALSE, !.view = s.db, !.saves = <<>>]
  <2>1. r = Ok(t)
    BY <1>4 DEF begin_transaction
  <2>2. r.shard = t
    BY <2>1, OutcomeFields
  <2>3. t.db = s.db /\ t.view = s.db /\ t.saves = <<>>
    BY <1>0 DEF Shard
  <2>4. Stack(r.shard) = <<r.shard.db>>
    BY <2>2, <2>3 DEF Stack
  <2>5. Mirrors(w)'
    BY <1>2, <1>3, <2>4, PlayedNone DEF Mirrors
  <2>. QED
    BY <1>2, <1>3, <2>5, FaithfulStep DEF Faithful
<1>5. CASE ~(shard[w].handle = "open" /\ ~shard[w].live)
  <2>1. r = Err(shard[w])
    BY <1>5 DEF begin_transaction
  <2>2. shard'[w] = shard[w]
    BY <1>2, <2>1, OutcomeFields
  <2>3. ~Unfinished(shard[w])
    BY <1>3 DEF AllTidy, Tidy, Holding
  <2>4. Faithful(w)'
    BY <1>2, <2>2, <2>3 DEF Faithful
  <2>. QED
    BY <1>2, <1>3, <2>4, FaithfulStep
<1>. QED
  BY <1>4, <1>5

\* Savepoints and roll-backs, the handler's own and those of the packet.
LEMMA FaithfulSavepoints ==
  ASSUME IInv, AllFaithful, NEW w \in Workers,
         FirstSavepoint(w) \/ SetSavepoint(w) \/ RollbackToSavepoint(w)
  PROVE  AllFaithful'
<1>0. shard[w] \in Shard /\ shard \in [Workers -> Shard] /\ Faithful(w)
  BY DEF IInv, TypeOK, StoreOK, AllFaithful
<1>1. pc[w] \in {"savepoint", "command"} /\ Trusted(w)
  BY DEF FirstSavepoint, SetSavepoint, RollbackToSavepoint, At, Trusted
<1>2. \E s : shard' = [shard EXCEPT ![w] = s]
  <2>1. shard = [shard EXCEPT ![w] = shard[w]]
    BY <1>0
  <2>. QED
    BY <2>1 DEF FirstSavepoint, SetSavepoint, RollbackToSavepoint, store
<1>3. PICK place \in {"command", "discard", "next"} : Goto(w, place)
  BY DEF FirstSavepoint, SetSavepoint, RollbackToSavepoint
<1>4. ran' = ran \/ \E c : Attempted(w, c)
  BY DEF FirstSavepoint, SetSavepoint, RollbackToSavepoint
<1>5. ret' = ret \/ \E c : ret' = [ret EXCEPT ![w] = c]
  BY DEF FirstSavepoint, SetSavepoint, RollbackToSavepoint
<1>6. /\ pc'[w] = place
      /\ \A v \in Workers \ {w} : /\ pc'[v] = pc[v] /\ ret'[v] = ret[v]
                                  /\ ran'[v] = ran[v] /\ shard'[v] = shard[v]
  <2>1. \A v \in Workers \ {w} : ran'[v] = ran[v]
    BY <1>4 DEF Attempted, IInv, TypeOK, TextOK
  <2>. QED
    BY <1>0, <1>2, <1>3, <1>5, <2>1 DEF Goto, IInv, TypeOK, ControlOK
<1>. SUFFICES ASSUME Trusted(w)', Unfinished(shard[w])' PROVE Mirrors(w)'
  BY <1>6, FaithfulStep DEF Faithful
<1>s. ASSUME Attempted(w, <<"s">>), shard'[w] = Saved(shard[w])
      PROVE  Mirrors(w)'
  <2>1. Saved(shard[w]).db = shard[w].db /\ Unfinished(shard[w])
    BY <1>0, <1>s DEF Saved, Shard, Unfinished, Usable
  <2>2. Mirrors(w)
    BY <1>0, <1>1, <2>1 DEF Faithful
  <2>. QED
    BY <1>0, <1>s, <2>1, <2>2, CommandWords, SavepointPlays, FaithfulCommand
<1>7. CASE FirstSavepoint(w)
  <2>1. PICK r \in set_savepoint(shard[w]) :
          IF r.ret = "ok"
          THEN shard' = [shard EXCEPT ![w] = r.shard] /\ Attempted(w, <<"s">>)
          ELSE Goto(w, "discard")
    BY <1>7 DEF FirstSavepoint
  <2>2. pc'[w] # "discard"
    BY DEF Trusted
  <2>3. r.ret = "ok"
    BY <2>1, <2>2 DEF Goto, IInv, TypeOK, ControlOK
  <2>4. r.shard = Saved(shard[w])
    BY <1>0, <2>3, SavepointOutcomes
  <2>. QED
    BY <1>0, <1>s, <2>1, <2>3, <2>4
<1>8. ASSUME NEW r, ret' = [ret EXCEPT ![w] = r.ret], place = "next" PROVE r.ret # "err"
  <2>1. ret'[w] = r.ret
    BY <1>8 DEF IInv, TypeOK, ControlOK
  <2>2. pc'[w] = "next"
    BY <1>6, <1>8
  <2>. QED
    BY <2>1, <2>2 DEF Trusted
<1>9. CASE SetSavepoint(w)
  <2>1. PICK r \in set_savepoint(shard[w]) :
          shard' = [shard EXCEPT ![w] = r.shard] /\ ret' = [ret EXCEPT ![w] = r.ret]
    BY <1>9 DEF SetSavepoint
  <2>2. Attempted(w, <<"s">>) /\ Goto(w, "next")
    BY <1>9 DEF SetSavepoint
  <2>3. place = "next"
    BY <1>6, <2>2 DEF Goto, IInv, TypeOK, ControlOK
  <2>4. r.shard = Saved(shard[w])
    BY <1>0, <1>8, <2>1, <2>3, SavepointOutcomes
  <2>. QED
    BY <1>0, <1>s, <2>1, <2>2, <2>4
<1>10. CASE RollbackToSavepoint(w)
  <2>1. PICK r \in rollback_to_last_savepoint(shard[w]) :
          shard' = [shard EXCEPT ![w] = r.shard] /\ ret' = [ret EXCEPT ![w] = r.ret]
    BY <1>10 DEF RollbackToSavepoint
  <2>2. Attempted(w, <<"b">>) /\ Goto(w, "next")
    BY <1>10 DEF RollbackToSavepoint
  <2>3. place = "next"
    BY <1>6, <2>2 DEF Goto, IInv, TypeOK, ControlOK
  <2>4. shard[w].saves # <<>> /\ r.shard = RolledBack(shard[w])
    BY <1>0, <1>8, <2>1, <2>3, RollbackOutcomes
  <2>5. shard'[w] = RolledBack(shard[w])
    BY <1>0, <2>1, <2>4
  <2>6. RolledBack(shard[w]).db = shard[w].db /\ Unfinished(shard[w])
    BY <1>0, <2>5 DEF RolledBack, Shard, Unfinished, Usable
  <2>7. Mirrors(w)
    BY <1>0, <1>1, <2>6 DEF Faithful
  <2>. QED
    BY <1>0, <2>2, <2>4, <2>5, <2>6, <2>7, CommandWords, RollbackPlays, FaithfulCommand
<1>. QED
  BY <1>7, <1>9, <1>10

\* A handler that discards its transaction has none.
LEMMA FaithfulDiscard ==
  ASSUME IInv, AllFaithful, NEW w \in Workers, Discard(w)
  PROVE  AllFaithful'
<1>1. shard' = shard /\ ran' = ran /\ ~Usable(shard[w])
  BY DiscardStutters DEF Discard, At, store, IInv, NothingToDiscard
<1>2. /\ pc'[w] \in {"next", "commit"}
      /\ \A v \in Workers \ {w} : pc'[v] = pc[v] /\ ret'[v] = ret[v]
  BY DEF Discard, Goto, IInv, TypeOK, ControlOK
<1>3. Faithful(w)'
  BY <1>1, <1>2 DEF Faithful, Unfinished
<1>. QED
  BY <1>1, <1>2, <1>3, FaithfulStep

\* The clean-up after a failed command, the commit, and what leads there.
LEMMA FaithfulEnd ==
  ASSUME IInv, AllFaithful, NEW w \in Workers,
         UndoSavepoint(w) \/ DropTransaction(w) \/ Commit(w)
  PROVE  AllFaithful'
<1>1. \E s : shard' = [shard EXCEPT ![w] = s]
  BY DEF UndoSavepoint, DropTransaction, Commit
<1>2. ret' = ret \/ \E c : ret' = [ret EXCEPT ![w] = c]
  BY DEF UndoSavepoint, DropTransaction, Commit
<1>3. ran' = ran
  BY DEF UndoSavepoint, DropTransaction, Commit
<1>4. /\ pc'[w] \in {"rollback", "ready", "poll"}
      /\ \A v \in Workers \ {w} : pc'[v] = pc[v]
  <2>1. CASE UndoSavepoint(w)
    BY <2>1 DEF UndoSavepoint, At
  <2>2. CASE DropTransaction(w) \/ Commit(w)
    BY <2>2, ReturnTyping DEF DropTransaction, Commit, IInv
  <2>. QED
    BY <2>1, <2>2
<1>5. \A v \in Workers \ {w} : ret'[v] = ret[v] /\ shard'[v] = shard[v]
  BY <1>1, <1>2 DEF IInv, TypeOK, ControlOK, StoreOK
<1>. QED
  BY <1>3, <1>4, <1>5, FaithfulAway

\* A data command on the handler's own partition.
LEMMA FaithfulApply ==
  ASSUME IInv, AllTidy, AllFaithful, NEW w \in Workers, Apply(w), ~Crash
  PROVE  AllFaithful'
<1>. DEFINE op == Head(msg[w])
            command == IF op = "w" THEN <<op, key[w], val[w]>> ELSE <<op, key[w]>>
<1>0. shard[w] \in Shard /\ shard \in [Workers -> Shard] /\ Faithful(w)
  BY DEF IInv, TypeOK, StoreOK, AllFaithful
<1>1. pc[w] = "apply" /\ part[w] = w
  BY DEF Apply, At, AllTidy, Tidy
<1>2. op \in {"r", "w", "d"} /\ key[w] \in Words
  BY <1>1 DEF IInv, HandlerOK, IsData
<1>3. op = "w" => val[w] \in Words
  BY DEF Apply, IInv, TypeOK, TextOK
<1>4. op \in Words
  <2>1. msg[w] \in Seq(Words) /\ msg[w] # <<>>
    BY <1>1 DEF IInv, TypeOK, TextOK, HandlerOK, IsData, NoCommand
  <2>. QED
    BY <2>1
<1>5. command \in Seq(Words \cup {"s", "b"})
  BY <1>2, <1>3, <1>4, CommandWords
<1>6. PICK r \in Operate(op, key[w], val[w], shard[w]) :
        shard' = [shard EXCEPT ![w] = r.shard] /\ ret' = [ret EXCEPT ![w] = r.ret]
  BY <1>1 DEF Apply
<1>7. Attempted(w, command) /\ Goto(w, "next")
  BY DEF Apply
<1>8. shard'[w] = r.shard /\ ret'[w] = r.ret /\ pc'[w] = "next"
  BY <1>0, <1>6, <1>7 DEF Goto, IInv, TypeOK, ControlOK
<1>9. \A v \in Workers \ {w} : /\ pc'[v] = pc[v] /\ ret'[v] = ret[v]
                               /\ ran'[v] = ran[v] /\ shard'[v] = shard[v]
  <2>1. \A v \in Workers \ {w} : ran'[v] = ran[v]
    BY <1>7 DEF Attempted, IInv, TypeOK, TextOK
  <2>. QED
    BY <1>0, <1>6, <1>7, <2>1 DEF Goto, IInv, TypeOK, ControlOK
<1>. HIDE DEF op, command
<1>10. ASSUME r.ret # "err", Unfinished(r.shard) PROVE Mirrors(w)'
  <2>1. r.ret = "ok"
    <3>1. Backs(savepoint_count[w], shard[w]) /\ savepoint_count[w] \in Int
      BY BacksNow DEF IInv, TypeOK, StoreOK
    <3>2. r \in Outcome
      BY <1>0, <1>2, <1>3, <1>6, <3>1, OperateKeeps
    <3>. QED
      BY <1>10, <3>2 DEF Outcome
  <2>2. Play(Stack(shard[w]), command) = Stack(r.shard) /\ r.shard.spent = shard[w].spent
    BY <1>0, <1>2, <1>6, <2>1, OperatePlays DEF command
  <2>3. r.shard.db = shard[w].db
    BY <1>0, <1>2, <1>6, OperationsKeepContents DEF Same
  <2>4. Usable(shard[w])
    BY <1>2, <1>6, <2>1, OperateNeeds
  <2>5. Unfinished(shard[w])
    BY <1>10, <2>2, <2>4 DEF Unfinished
  <2>6. Mirrors(w)
    BY <1>0, <1>1, <2>5 DEF Faithful, Trusted
  <2>. QED
    BY <1>5, <1>7, <1>8, <2>2, <2>3, <2>6, FaithfulCommand
<1>11. Faithful(w)'
  BY <1>8, <1>10 DEF Faithful, Trusted
<1>. QED
  BY <1>9, <1>11, FaithfulStep

\* The rest of the command loop touches neither the transaction nor the history.
LEMMA FaithfulBody ==
  ASSUME IInv, AllTidy, AllFaithful, NEW w \in Workers,
         \/ EndOfText(w) \/ TakeKey(w) \/ TakeValue(w) \/ Apply(w)
         \/ SkipUnknown(w) \/ TakeCommand(w)
  PROVE  AllFaithful'
<1>1. CASE Crash
  BY <1>1, FaithfulStutter DEF Crash, store
<1>2. CASE Apply(w) /\ ~Crash
  BY <1>2, FaithfulApply
<1>3. CASE ~Crash /\ ~Apply(w)
  <2>1. UNCHANGED <<ret, ran, shard>>
    BY <1>3 DEF EndOfText, TakeKey, TakeValue, SkipUnknown, TakeCommand, store
  <2>2. Faithful(w) /\ ~Multi(w) /\ ret[w] \in {"ok", "err", "unset"}
    BY DEF AllFaithful, IInv, TypeOK, ControlOK, AllTidy, Tidy, Holding, At, EndOfText, TakeKey,
           TakeValue, Apply, SkipUnknown, TakeCommand
  <2>3. \/ pc[w] \in {"command", "value"}
        \/ pc[w] = "next"
    BY <1>3 DEF EndOfText, TakeKey, TakeValue, SkipUnknown, TakeCommand, At
  <2>4. PICK place \in {"command", "value", "apply", "next", "commit", "rollback"} :
          Goto(w, place) /\ (pc[w] = "next" /\ ret[w] = "err" => place = "rollback")
    <3>1. CASE TakeCommand(w)
      <4>1. PICK failed \in {r = "err" : r \in IF ret[w] = "unset" THEN {"ok", "err"} ELSE {ret[w]}} :
              IF failed THEN Goto(w, "rollback") ELSE Goto(w, "command")
        BY <2>2, <3>1 DEF TakeCommand
      <4>2. ret[w] = "err" => failed
        BY <4>1
      <4>. QED
        BY <4>1, <4>2
    <3>2. CASE ~TakeCommand(w)
      <4>1. pc[w] # "next"
        BY <1>3, <3>2 DEF EndOfText, TakeKey, TakeValue, SkipUnknown, At
      <4>2. \E p \in {"command", "value", "apply", "next", "commit"} : Goto(w, p)
        BY <1>3, <2>2, <3>2 DEF EndOfText, TakeKey, TakeValue, SkipUnknown
      <4>. QED
        BY <4>1, <4>2
    <3>. QED
      BY <3>1, <3>2
  <2>5. pc'[w] = place /\ \A v \in Workers \ {w} : pc'[v] = pc[v]
    BY <2>4 DEF Goto, IInv, TypeOK, ControlOK
  <2>6. Trusted(w)' => Trusted(w)
    BY <2>1, <2>3, <2>4, <2>5 DEF Trusted
  <2>7. Faithful(w)'
    BY <2>1, <2>2, <2>5, <2>6 DEF Faithful, Mirrors
  <2>. QED
    BY <2>1, <2>5, <2>7, FaithfulStep
<1>. QED
  BY <1>1, <1>2, <1>3

\* A multi-partition packet gets no further than the wait, where it returns.
LEMMA FaithfulMulti ==
  ASSUME IInv, AllTidy, AllFaithful, NEW w \in Workers,
         \/ LockOthers(w) \/ Locate(w) \/ MultiFirstSavepoint(w)
         \/ MultiSetSavepoint(w) \/ MultiRollback(w)
         \/ MultiUndoSavepoint(w) \/ MultiDropTransaction(w) \/ MultiCommit(w)
  PROVE  AllFaithful'
<1>0. Tidy(w)
  BY DEF AllTidy
<1>1. LockOthers(w)
  BY <1>0 DEF Tidy, Holding, At, Locate, MultiFirstSavepoint, MultiSetSavepoint, MultiRollback,
              MultiUndoSavepoint, MultiDropTransaction, MultiCommit
<1>2. pc[w] = "lock" /\ NumWorkers > 1
  BY <1>0, <1>1 DEF LockOthers, At, Tidy
<1>3. {i \in Workers : i # pkt[w].leader} # {}
  <2>1. 0 \in Workers /\ 1 \in Workers
    BY <1>2, NumWorkersAssumption DEF Workers
  <2>. QED
    BY <2>1
<1>4. Return(w) /\ UNCHANGED <<ret, ran, shard>>
  BY <1>1, <1>3 DEF LockOthers, store
<1>5. pc'[w] \in {"ready", "poll"} /\ \A v \in Workers \ {w} : pc'[v] = pc[v]
  BY <1>4, ReturnTyping DEF IInv
<1>. QED
  BY <1>4, <1>5, FaithfulAway

\* A partition that is closed has no transaction to commit.
LEMMA FaithfulSignal ==
  ASSUME IInv, AllFaithful, NEW h \in Handlers, RaiseSignal(h) \/ SignalHandler(h)
  PROVE  AllFaithful'
<1>1. UNCHANGED <<pc, ret, ran>>
  BY SignalShapes
<1>2. CASE shard' = shard
  BY <1>1, <1>2, FaithfulStutter
<1>3. ASSUME NEW i \in Workers, NEW s \in CloseAndDestroy(shard[i]),
             shard' = [shard EXCEPT ![i] = s]
      PROVE  AllFaithful'
  <2>1. shard \in [Workers -> Shard]
    BY DEF IInv, TypeOK, StoreOK
  <2>2. s.handle # "open"
    BY <2>1, CloseKeeps
  <2>3. ASSUME NEW v \in Workers PROVE Faithful(v)'
    <3>1. Faithful(v)
      BY DEF AllFaithful
    <3>2. Unfinished(shard'[v]) => shard'[v] = shard[v]
      BY <1>3, <2>1, <2>2 DEF Unfinished, Usable
    <3>. QED
      BY <1>1, <3>1, <3>2 DEF Faithful, Trusted, Mirrors
  <2>. QED
    BY <2>3 DEF AllFaithful
<1>. QED
  BY <1>2, <1>3, SignalShapes

LEMMA FaithfulNext ==
  ASSUME IInv, AllTidy, AllFaithful, [Next]_vars
  PROVE  AllFaithful'
<1>1. CASE UNCHANGED vars
  BY <1>1, FaithfulStutter DEF vars, store
<1>2. ASSUME NEW h \in Handlers, RaiseSignal(h) \/ SignalHandler(h) PROVE AllFaithful'
  BY <1>2, FaithfulSignal
<1>3. ASSUME NEW w \in Workers, Worker(w) PROVE AllFaithful'
  <2>1. CASE EmptyPoll(w)
    BY <1>1, <2>1 DEF EmptyPoll
  <2>. QED
    BY <1>3, <2>1, FaithfulLoop, FaithfulBegin, FaithfulSavepoints, FaithfulDiscard, FaithfulEnd,
       FaithfulBody, FaithfulMulti DEF Worker, Handle
<1>. QED
  BY <1>1, <1>2, <1>3 DEF Next

\* The commit publishes what the commands have made, or nothing.
LEMMA AnswerFaithful ==
  ASSUME IInv, AllFaithful, [Next]_vars, NEW w \in Workers, Answers(w)
  PROVE  LET stack == Played(ran[w], shard[w].db) IN
         IF ret'[w] = "ok" THEN stack # <<>> /\ shard'[w].db = Top(stack)
                           ELSE shard'[w].db = shard[w].db
<1>0. pc[w] = "commit" /\ pc'[w] \in Between /\ shard[w] \in Shard
  BY DEF Answers, IInv, TypeOK, StoreOK
<1>1. Commit(w)
  <2>1. pc' # pc
    BY <1>0 DEF Between
  <2>2. PICK v \in Workers : Worker(v)
    BY <2>1, SignalShapes DEF Next, vars
  <2>3. v = w
    BY <1>0, <2>2, OwnPartitionOnly DEF Between
  <2>. QED
    BY <1>0, <2>2, <2>3 DEF Worker, Handle, At, Dequeue, EmptyPoll, Exit, Receive, Ignore,
         BeginTransaction, FirstSavepoint, Discard, SetSavepoint, RollbackToSavepoint,
         UndoSavepoint, DropTransaction, EndOfText, TakeKey, TakeValue, Apply, SkipUnknown,
         TakeCommand, LockOthers, Locate, MultiFirstSavepoint, MultiSetSavepoint, MultiRollback,
         MultiUndoSavepoint, MultiDropTransaction, MultiCommit
<1>2. PICK r \in commit_transaction(shard[w]) :
        shard' = [shard EXCEPT ![w] = r.shard] /\ ret' = [ret EXCEPT ![w] = r.ret]
  BY <1>1 DEF Commit
<1>3. shard'[w] = r.shard /\ ret'[w] = r.ret
  BY <1>2 DEF IInv, TypeOK, ControlOK, StoreOK
<1>4. CASE ~Unfinished(shard[w])
  <2>1. r = Err(shard[w])
    BY <1>4 DEF commit_transaction, Unfinished
  <2>. QED
    BY <1>3, <2>1, OutcomeFields
<1>5. CASE Unfinished(shard[w]) /\ r = Ok(NoTransaction([shard[w] EXCEPT !.db = shard[w].view]))
  <2>1. Played(ran[w], shard[w].db) = Stack(shard[w])
    BY <1>0, <1>5 DEF AllFaithful, Faithful, Trusted, Mirrors
  <2>2. NoTransaction([shard[w] EXCEPT !.db = shard[w].view]).db = shard[w].view
    BY <1>0 DEF NoTransaction, Shard
  <2>3. shard'[w].db = shard[w].view
    BY <1>3, <1>5, <2>2, OutcomeFields
  <2>4. Stack(shard[w]) # <<>> /\ Top(Stack(shard[w])) = shard[w].view
    <3>1. shard[w].saves \in Seq(Contents) /\ shard[w].view \in Contents
      BY <1>0, ShardFields
    <3>. QED
      BY <3>1 DEF Stack, Top
  <2>5. ret'[w] = "ok"
    BY <1>3, <1>5, OutcomeFields
  <2>. QED
    BY <2>1, <2>3, <2>4, <2>5
<1>6. CASE r = Err([shard[w] EXCEPT !.spent = TRUE])
  <2>1. [shard[w] EXCEPT !.spent = TRUE].db = shard[w].db
    BY <1>0 DEF Shard
  <2>. QED
    BY <1>3, <1>6, <2>1, OutcomeFields
<1>. QED
  BY <1>4, <1>5, <1>6 DEF commit_transaction, Unfinished

\* On a server with several workers, or one that is sent packets of a single
\* partition only: when the commit that ends a packet succeeds, every command
\* the handler attempted had succeeded, and the partition holds what they make
\* of what it held before; when it fails the partition is as it was.  This is
\* so for packets of any length, whatever commands a handler took from another
\* worker's text, and however many savepoints and roll-backs were among them.
THEOREM CommitsAreAllOrNothing ==
  ASSUME NoMultiExecuted
  PROVE  Spec => AllOrNothing
<1>1. Init => AllFaithful /\ AllTidy
  <2>1. Init => AllFaithful
    BY DEF Init, AllFaithful, Faithful, Trusted
  <2>. QED
    BY <2>1, TidyInit
<1>2. IInv /\ AllTidy /\ AllFaithful /\ [Next]_vars => AllTidy' /\ AllFaithful'
  BY TidyNext, FaithfulNext
<1>3. IInv /\ AllFaithful /\ [Next]_vars =>
        \A w \in Workers : Answers(w) =>
          LET stack == Played(ran[w], shard[w].db) IN
          IF ret'[w] = "ok" THEN stack # <<>> /\ shard'[w].db = Top(stack)
                            ELSE shard'[w].db = shard[w].db
  BY AnswerFaithful
<1>. QED
  BY <1>1, <1>2, <1>3, Invariant, PTL DEF Spec, AllOrNothing
==============================================================================
