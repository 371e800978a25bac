-------------------------- MODULE ShardServerProofs --------------------------
(***************************************************************************)
(* ShardServer for any number of workers, any packets and texts, any       *)
(* behaviour of the store and any signals: its variables keep their types, *)
(* and every counted savepoint can be rolled back to.                      *)
(*                                                                         *)
(* Neither is inductive alone.  A burst in progress has packets left, and  *)
(* a handler that has taken its key is at a data command: HandlerOK.  The  *)
(* counters and the store are read together: a step is allowed to take a   *)
(* savepoint away from a partition only with a count.  The functions of    *)
(* the store come first, and which partition the multi-partition ones      *)
(* select.                                                                 *)
(***************************************************************************)
EXTENDS ShardServer, Integers, SequenceTheorems, WellFoundedInduction, TLAPS

\* --- Induction on the length of a history, by the set of lengths ---

\* The set of numbers that holds 0 and the successors of its members is Nat.
LEMMA AllNumbers ==
  ASSUME NEW S \in SUBSET Nat, 0 \in S, \A n \in S : n + 1 \in S
  PROVE  S = Nat
<1>. SUFFICES ASSUME Nat \ S # {} PROVE FALSE
  OBVIOUS
<1>1. PICK least \in Nat \ S : \A y \in Nat \ S : <<y, least>> \notin OpToRel(<, Nat)
  <2>. HIDE DEF OpToRel
  <2>1. Nat \ S \subseteq Nat
    OBVIOUS
  <2>. QED
    BY <2>1, NatLessThanWellFounded, WFMin
<1>2. least # 0 /\ least - 1 \in Nat
  OBVIOUS
<1>3. <<least - 1, least>> \in OpToRel(<, Nat)
  BY <1>2 DEF OpToRel
<1>4. least - 1 \in S
  BY <1>1, <1>2, <1>3
<1>. QED
  BY <1>4

\* --- What every function of the store keeps, whatever RocksDB answers ---

Outcome == [ret : {"ok", "err"}, shard : Shard]

\* n savepoints can be rolled back to on partition s, while it is open.
Backs(n, s) == s.handle = "open" /\ n > 0 => s.live /\ n <= Len(s.saves)

\* What a partition is made of (tx_db, tx and db_path of datastore.c), by field.
LEMMA ShardFields ==
  ASSUME NEW s \in Shard
  PROVE  /\ s.handle \in Handles /\ s.live \in BOOLEAN /\ s.spent \in BOOLEAN
         /\ s.view \in Contents /\ s.saves \in Seq(Contents) /\ s.db \in Contents
<1>1. s.handle \in Handles /\ s.view \in Contents
  BY DEF Shard
<1>2. s.saves \in Seq(Contents) /\ s.db \in Contents
  BY DEF Shard
<1>3. s.live \in BOOLEAN
  BY DEF Shard
<1>4. s.spent \in BOOLEAN
  BY DEF Shard
<1>. QED
  BY <1>1, <1>2, <1>3, <1>4

\* A destroyed database holds no keys.
LEMMA EmptyTyping == Empty \in Contents
  BY DEF Empty, Contents

\* delete tx[i] and the end of a commit leave a partition.
LEMMA NoTransactionTyping ==
  ASSUME NEW s \in Shard
  PROVE  NoTransaction(s) \in Shard
<1>1. <<>> \in Seq(Contents)
  OBVIOUS
<1>. QED
  BY <1>1, EmptyTyping DEF NoTransaction, Shard

\* An operation on an open transaction either has its effect or changes nothing.
LEMMA AttemptOutcome ==
  ASSUME NEW op, NEW s, NEW t, NEW r \in Attempt(op, s, t)
  PROVE  \/ r = Ok(t) /\ Usable(s)
         \/ r = Err(s) /\ (~Usable(s) \/ op \in FaultyOps)
  BY DEF Attempt

\* Every function of datastore.c leaves a partition and reports success or not.
LEMMA OutcomeTyping ==
  ASSUME NEW s \in Shard
  PROVE  Ok(s) \in Outcome /\ Err(s) \in Outcome
  BY DEF Ok, Err, Outcome

\* The same, field by field, for the functions that act on a transaction.
LEMMA OutcomeFields ==
  ASSUME NEW s
  PROVE  /\ Ok(s).ret = "ok" /\ Ok(s).shard = s
         /\ Err(s).ret = "err" /\ Err(s).shard = s
  BY DEF Ok, Err

\* A begun transaction has no savepoint: nothing may be counted on its
\* partition, and nothing was.
LEMMA BeginKeeps ==
  ASSUME NEW s \in Shard, NEW n \in Int, Backs(n, s), NEW r \in begin_transaction(s)
  PROVE  r \in Outcome /\ Backs(n, r.shard) /\ (r.ret = "err" => r.shard = s)
<1>1. CASE s.handle = "open" /\ ~s.live
  <2>. DEFINE t == [s EXCEPT !.live = TRUE, !.spent = FALSE, !.view = s.db, !.saves = <<>>]
  <2>1. r = Ok(t)
    BY <1>1 DEF begin_transaction
  <2>2. t \in Shard
    <3>1. <<>> \in Seq(Contents)
      OBVIOUS
    <3>. QED
      BY <3>1 DEF Shard
  <2>3. Backs(n, t)
    BY <1>1 DEF Backs, Shard
  <2>. QED
    BY <2>1, <2>2, <2>3, OutcomeTyping, OutcomeFields
<1>2. CASE ~(s.handle = "open" /\ ~s.live)
  BY <1>2, OutcomeTyping, OutcomeFields DEF begin_transaction
<1>. QED
  BY <1>1, <1>2

\* A savepoint that is set backs one more count; one that is not changes nothing.
LEMMA SavepointKeeps ==
  ASSUME NEW s \in Shard, NEW n \in Int, Backs(n, s), NEW r \in set_savepoint(s)
  PROVE  /\ r \in Outcome
         /\ r.ret = "ok" => Backs(n + 1, r.shard)
         /\ r.ret = "err" => r.shard = s /\ ~Usable(s)
<1>1. "s" \notin FaultyOps
  BY FaultyOpsAssumption
<1>2. Saved(s) \in Shard
  BY DEF Saved, Shard
<1>3. CASE r = Ok(Saved(s)) /\ Usable(s)
  <2>1. Len(Saved(s).saves) = Len(s.saves) + 1 /\ Saved(s).live
    BY <1>3 DEF Saved, Shard, Usable
  <2>2. Len(s.saves) \in Nat
    BY ShardFields
  <2>3. Backs(n + 1, Saved(s))
    <3>. SUFFICES n + 1 <= Len(s.saves) + 1
      BY <2>1 DEF Backs
    <3>1. CASE n > 0
      BY <1>3, <2>2, <3>1 DEF Backs, Usable
    <3>2. CASE ~(n > 0)
      BY <2>2, <3>2
    <3>. QED
      BY <3>1, <3>2
  <2>. QED
    BY <1>2, <1>3, <2>3, OutcomeTyping, OutcomeFields
<1>4. CASE r = Err(s) /\ ~Usable(s)
  BY <1>4, OutcomeTyping, OutcomeFields
<1>. QED
  BY <1>1, <1>3, <1>4, AttemptOutcome DEF set_savepoint

\* Rolling back needs a savepoint, and then leaves a partition.
LEMMA RolledBackTyping ==
  ASSUME NEW s \in Shard, s.saves # <<>>
  PROVE  /\ RolledBack(s) \in Shard
         /\ Len(RolledBack(s).saves) = Len(s.saves) - 1
         /\ RolledBack(s).live = s.live /\ RolledBack(s).handle = s.handle
<1>1. s.saves \in Seq(Contents) /\ Len(s.saves) \in Nat /\ Len(s.saves) # 0
  BY ShardFields
<1>2. s.saves[Len(s.saves)] \in Contents
  BY <1>1
<1>3. /\ SubSeq(s.saves, 1, Len(s.saves) - 1) \in Seq(Contents)
      /\ Len(SubSeq(s.saves, 1, Len(s.saves) - 1)) = Len(s.saves) - 1
  BY <1>1
<1>. QED
  BY <1>2, <1>3 DEF RolledBack, Shard

\* A rollback takes one savepoint away, and one count with it.
LEMMA RollbackKeeps ==
  ASSUME NEW s \in Shard, NEW n \in Int, Backs(n, s),
         NEW r \in rollback_to_last_savepoint(s)
  PROVE  /\ r \in Outcome
         /\ r.ret = "ok" => /\ s.saves # <<>> /\ r.shard = RolledBack(s)
                            /\ Backs(n - 1, r.shard)
         /\ r.ret = "err" => r.shard = s
<1>1. CASE s.saves = <<>>
  BY <1>1, OutcomeTyping, OutcomeFields DEF rollback_to_last_savepoint
<1>2. CASE s.saves # <<>>
  <2>1. (r = Ok(RolledBack(s)) /\ Usable(s)) \/ r = Err(s)
    BY <1>2, AttemptOutcome DEF rollback_to_last_savepoint
  <2>2. Backs(n - 1, RolledBack(s))
    <3>1. Len(s.saves) \in Nat
      BY ShardFields
    <3>. QED
      BY <1>2, <3>1, RolledBackTyping DEF Backs
  <2>. QED
    BY <1>2, <2>1, <2>2, RolledBackTyping, OutcomeTyping, OutcomeFields
<1>. QED
  BY <1>1, <1>2

\* A data command touches neither the savepoints nor the transaction's existence.
LEMMA OperateKeeps ==
  ASSUME NEW s \in Shard, NEW n \in Int, Backs(n, s), NEW op \in {"r", "w", "d"},
         NEW k \in Words, NEW v, op = "w" => v \in Words, NEW r \in Operate(op, k, v, s)
  PROVE  r \in Outcome /\ Backs(n, r.shard)
<1>. DEFINE put == [s EXCEPT !.view[k] = v]
            del == [s EXCEPT !.view[k] = NotFound]
<1>1. op = "w" => put \in Shard /\ Backs(n, put)
  BY DEF Shard, Contents, Backs
<1>2. del \in Shard /\ Backs(n, del)
  BY DEF Shard, Contents, Backs
<1>3. \/ r = Err(s) \/ r = Ok(s)
      \/ op = "w" /\ r = Ok(put)
      \/ r = Ok(del)
  <2>1. CASE op = "r"
    <3>1. r \in {Err(s)} \/ r \in Attempt("r", s, s)
      BY <2>1 DEF Operate, read_keyval_pair
    <3>. QED
      BY <3>1, AttemptOutcome
  <2>2. CASE op = "w"
    <3>1. r \in Attempt("w", s, put)
      BY <2>2 DEF Operate, write_keyval_pair
    <3>. QED
      BY <2>2, <3>1, AttemptOutcome
  <2>3. CASE op = "d"
    <3>1. r \in Attempt("d", s, del)
      BY <2>3 DEF Operate, delete_keyval_pair
    <3>. QED
      BY <3>1, AttemptOutcome
  <2>. QED
    BY <2>1, <2>2, <2>3
<1>. QED
  BY <1>1, <1>2, <1>3, OutcomeTyping, OutcomeFields

\* After a commit, whatever its result, no count is backed and none is needed.
LEMMA CommitTyping ==
  ASSUME NEW s \in Shard, NEW r \in commit_transaction(s)
  PROVE  r \in Outcome
<1>1. NoTransaction([s EXCEPT !.db = s.view]) \in Shard
  <2>1. [s EXCEPT !.db = s.view] \in Shard
    BY DEF Shard
  <2>. QED
    BY <2>1, NoTransactionTyping
<1>2. [s EXCEPT !.spent = TRUE] \in Shard
  BY DEF Shard
<1>. QED
  BY <1>1, <1>2, OutcomeTyping DEF commit_transaction

\* delete_transaction leaves a partition.
LEMMA DeleteTyping ==
  ASSUME NEW s \in Shard
  PROVE  delete_transaction(s) \in Shard
  BY NoTransactionTyping DEF delete_transaction

\* Closing a partition leaves nothing for a count to be backed by, and no need to.
LEMMA CloseKeeps ==
  ASSUME NEW s \in Shard, NEW t \in CloseAndDestroy(s)
  PROVE  t \in Shard /\ t.handle # "open"
<1>1. close_database(s) \in Shard /\ close_database(s).handle # "open"
  <2>1. CASE s.handle = "open"
    <3>1. [s EXCEPT !.handle = "closed"] \in Shard
      BY DEF Shard, Handles
    <3>2. NoTransaction([s EXCEPT !.handle = "closed"]).handle = "closed"
      BY DEF NoTransaction, Shard
    <3>. QED
      BY <2>1, <3>1, <3>2, NoTransactionTyping DEF close_database
  <2>2. CASE s.handle # "open"
    BY <2>2 DEF close_database
  <2>. QED
    BY <2>1, <2>2
<1>2. PICK c \in {Empty, s.db} : t = [close_database(s) EXCEPT !.db = c]
  BY DEF CloseAndDestroy
<1>3. c \in Contents
  BY EmptyTyping, ShardFields
<1>. QED
  BY <1>1, <1>2, <1>3 DEF Shard

\* --- The partition of a key ---

\* The loop finds a key in its first iteration or not at all, since the bound
\* the key is compared with never moves: whatever the number of partitions,
\* only partition 0 is ever selected, for the keys of the first slice.
THEOREM OnlyTheFirstPartition ==
  ASSUME NEW n \in Nat \ {0}, NEW numKeys \in Nat, NEW k \in Int
  PROVE  PartitionOf(k, numKeys, n) =
           IF 0 <= k /\ k < Slice(numKeys, n) THEN 0 ELSE NoPartition
<1>1. Slice(numKeys, n) \in Nat
  BY DEF Slice
<1>2. ASSUME NEW i \in Hits(k, numKeys, n)
      PROVE  i = 0
  <2>1. i \in Nat /\ k >= i * Slice(numKeys, n) /\ k < Slice(numKeys, n)
    BY <1>1 DEF Hits
  <2>2. ASSUME i >= 1 PROVE i * Slice(numKeys, n) >= Slice(numKeys, n)
    BY <1>1, <2>1, <2>2
  <2>. QED
    BY <1>1, <2>1, <2>2
<1>3. 0 \in Hits(k, numKeys, n) <=> 0 <= k /\ k < Slice(numKeys, n)
  BY <1>1 DEF Hits
<1>4. CASE 0 \in Hits(k, numKeys, n)
  <2>1. Hits(k, numKeys, n) = {0}
    BY <1>2, <1>4
  <2>. QED
    BY <1>3, <1>4, <2>1 DEF PartitionOf
<1>5. CASE 0 \notin Hits(k, numKeys, n)
  <2>1. Hits(k, numKeys, n) = {}
    BY <1>2, <1>5
  <2>. QED
    BY <1>3, <1>5, <2>1 DEF PartitionOf
<1>. QED
  BY <1>4, <1>5

\* --- What strtok returns and leaves behind its cursor ---

\* Taking a command off a text yields a command, or the null pointer, and a text.
LEMMA CommandTyping ==
  ASSUME NEW words, NEW t \in Texts(words)
  PROVE  NextCommand(t) \in Seq(words) /\ AfterCommand(t) \in Texts(words)
<1>. USE DEF Texts, NextCommand, AfterCommand, NoCommand
<1>1. CASE t = <<>>
  BY <1>1
<1>2. CASE t # <<>>
  <2>1. Head(t) \in Seq(words) \ {<<>>} /\ Tail(t) \in Seq(Seq(words) \ {<<>>})
    BY <1>2
  <2>. QED
    BY <1>2, <2>1
<1>. QED
  BY <1>1, <1>2

\* A nonempty sequence longer than one has a nonempty tail.
LEMMA TailNonempty ==
  ASSUME NEW words, NEW c \in Seq(words) \ {<<>>}, Len(c) # 1
  PROVE  Tail(c) \in Seq(words) \ {<<>>}
<1>1. Len(c) \in Nat /\ Len(c) # 0
  BY EmptySeq
<1>2. Tail(c) \in Seq(words) /\ Len(Tail(c)) = Len(c) - 1
  BY <1>1
<1>3. Len(Tail(c)) # 0
  BY <1>1, <1>2
<1>. QED
  BY <1>2, <1>3, EmptySeq

\* Taking a word off a text yields a word, or the null pointer, and a text: no
\* command is ever left empty, whichever command the word came from.
LEMMA WordTyping ==
  ASSUME NEW words, NEW t \in Texts(words)
  PROVE  NextWord(t) \in words \cup {NULL} /\ AfterWord(t) \in Texts(words)
<1>. USE DEF Texts
<1>1. CASE t = <<>>
  BY <1>1 DEF NextWord, AfterWord
<1>2. CASE t # <<>>
  <2>1. Head(t) \in Seq(words) \ {<<>>} /\ Tail(t) \in Seq(Seq(words) \ {<<>>})
    BY <1>2
  <2>2. Head(Head(t)) \in words
    BY <2>1
  <2>3. CASE Len(Head(t)) = 1
    BY <1>2, <2>1, <2>2, <2>3 DEF NextWord, AfterWord
  <2>4. CASE Len(Head(t)) # 1
    <3>1. Tail(Head(t)) \in Seq(words) \ {<<>>}
      BY <2>1, <2>4, TailNonempty
    <3>2. <<Tail(Head(t))>> \o Tail(t) \in Seq(Seq(words) \ {<<>>})
      BY <2>1, <3>1
    <3>. QED
      BY <1>2, <2>2, <2>4, <3>2 DEF NextWord, AfterWord
  <2>. QED
    BY <2>3, <2>4
<1>. QED
  BY <1>1, <1>2

\* There is a word to take off a text that is not empty.
LEMMA WordExists ==
  ASSUME NEW words, NEW t \in Texts(words), t # <<>>
  PROVE  NextWord(t) \in words
<1>1. Head(t) \in Seq(words) \ {<<>>}
  BY DEF Texts
<1>. QED
  BY <1>1 DEF NextWord

\* The arguments of a command are a text of at most one command.
LEMMA ArgumentsTyping ==
  ASSUME NEW words, NEW c \in Seq(words) \ {<<>>}
  PROVE  Arguments(c) \in Texts(words)
<1>1. CASE Len(c) = 1
  BY <1>1 DEF Arguments, Texts
<1>2. CASE Len(c) # 1
  BY <1>2, TailNonempty DEF Arguments, Texts
<1>. QED
  BY <1>1, <1>2

-----------------------------------------------------------------------------

HandlerOK ==
  \A w \in Workers :
    /\ pc[w] = "ready" => left[w] > 0
    /\ pc[w] \in {"value", "locate", "first", "apply"} => IsData(msg[w]) /\ key[w] \in Words

Executing == {"begin", "savepoint", "discard", "command", "value", "locate", "first",
              "apply", "next"}

\* A worker is at work on its own partition: a multi-partition packet that is
\* executed has the server to itself.
Alone(w) ==
  /\ part[w] = w
  /\ \/ pc[w] \in Executing /\ Multi(w)
     \/ pc[w] \in {"locate", "first", "mrollback", "mcommit"}
     => NumWorkers = 1

AllAlone == \A w \in Workers : Alone(w)

\* The transaction that is discarded after a failed savepoint is none.
NothingToDiscard == \A w \in Workers : pc[w] = "discard" => ~Usable(shard[w])

IInv == TypeOK /\ HandlerOK /\ AllAlone /\ NothingToDiscard /\ SavepointsBackCount

\* Workers are numbered from 0; the one after a worker that is not last exists.
LEMMA WorkersAreNumbers ==
  /\ Workers \subseteq Nat
  /\ 0 \in Workers
  /\ \A w \in Workers : w # NumWorkers - 1 => w + 1 \in Workers
  BY NumWorkersAssumption DEF Workers

-----------------------------------------------------------------------------
(* Steps that several actions share.                                       *)

\* A step of one worker moves no other.
LEMMA GotoTyping ==
  ASSUME ControlOK, NEW w \in Workers, NEW place \in Places, Goto(w, place)
  PROVE  /\ pc' \in [Workers -> Places]
         /\ pc'[w] = place
         /\ \A v \in Workers \ {w} : pc'[v] = pc[v]
  BY DEF ControlOK, Goto

\* Leaving handle_db_message: back to the burst only if packets are left of it,
\* and strtok's pointer, dangling or not, is at some text.
LEMMA ReturnTyping ==
  ASSUME TypeOK, NEW w \in Workers, Return(w)
  PROVE  /\ pc' \in [Workers -> Places]
         /\ pc'[w] \in {"ready", "poll"}
         /\ pc'[w] = "ready" => left[w] > 0
         /\ \A v \in Workers \ {w} : pc'[v] = pc[v]
         /\ cursor' \in [own : Workers \cup {NULL}, rest : Texts(Words)]
<1>1. {"ready", "poll"} \subseteq Places
  BY DEF Places, Between
<1>2. Goto(w, IF left[w] > 0 THEN "ready" ELSE "poll")
  BY DEF Return, LeaveFrame
<1>3. cursor' \in [own : Workers \cup {NULL}, rest : Texts(Words)]
  <2>1. CASE cursor.own = w
    <3>1. PICK g \in Garbage : cursor' = [own |-> NULL, rest |-> g]
      BY <2>1 DEF Return, LeaveFrame
    <3>. QED
      BY <3>1, GarbageAssumption
  <2>2. CASE cursor.own # w
    BY <2>2 DEF Return, LeaveFrame, TypeOK, TextOK
  <2>. QED
    BY <2>1, <2>2
<1>4. CASE left[w] > 0
  BY <1>1, <1>2, <1>3, <1>4, GotoTyping DEF TypeOK
<1>5. CASE ~(left[w] > 0)
  BY <1>1, <1>2, <1>3, <1>5, GotoTyping DEF TypeOK
<1>. QED
  BY <1>4, <1>5

\* A partition and its counter replaced by a pair that agrees.
LEMMA StoreStep ==
  ASSUME StoreOK, SavepointsBackCount, NEW i \in Workers, NEW s \in Shard, NEW n \in Int,
         Backs(n, s),
         shard' = [shard EXCEPT ![i] = s],
         savepoint_count' = [savepoint_count EXCEPT ![i] = n]
  PROVE  StoreOK' /\ SavepointsBackCount'
  BY DEF StoreOK, SavepointsBackCount, Backs

\* A step that touches neither partitions nor counters.
LEMMA StoreStutter ==
  ASSUME StoreOK, SavepointsBackCount, UNCHANGED store
  PROVE  StoreOK' /\ SavepointsBackCount'
  BY DEF StoreOK, SavepointsBackCount, store

\* The counter as it is backs the partition as it is.
LEMMA BacksNow ==
  ASSUME StoreOK, SavepointsBackCount, NEW i \in Workers
  PROVE  /\ shard[i] \in Shard /\ savepoint_count[i] \in Int
         /\ Backs(savepoint_count[i], shard[i])
  BY DEF StoreOK, SavepointsBackCount, Backs

\* A count that is not positive needs no backing, and neither does a partition
\* that is not open.
LEMMA BacksFreely ==
  ASSUME NEW n \in Int, NEW s, n <= 0 \/ s.handle # "open"
  PROVE  Backs(n, s)
  BY DEF Backs
-----------------------------------------------------------------------------
(* The partitions and their counters, action by action.                    *)

\* The actions of a single-partition packet touch the worker's own partition.
LEMMA SingleStoreStep ==
  ASSUME IInv, NEW w \in Workers,
         \/ BeginTransaction(w) \/ FirstSavepoint(w) \/ SetSavepoint(w)
         \/ RollbackToSavepoint(w) \/ UndoSavepoint(w) \/ DropTransaction(w) \/ Commit(w)
  PROVE  StoreOK' /\ SavepointsBackCount'
<1>. DEFINE n == savepoint_count[w]
<1>0. /\ StoreOK /\ SavepointsBackCount
      /\ shard[w] \in Shard /\ n \in Int /\ Backs(n, shard[w])
  BY BacksNow DEF IInv, TypeOK
<1>h. savepoint_count = [savepoint_count EXCEPT ![w] = n]
  BY <1>0 DEF StoreOK
<1>1. CASE BeginTransaction(w)
  <2>1. PICK r \in begin_transaction(shard[w]) : shard' = [shard EXCEPT ![w] = r.shard]
    BY <1>1 DEF BeginTransaction
  <2>2. r.shard \in Shard /\ Backs(n, r.shard)
    BY <1>0, BeginKeeps DEF Outcome
  <2>3. savepoint_count' = [savepoint_count EXCEPT ![w] = n]
    BY <1>1, <1>h DEF BeginTransaction
  <2>. QED
    BY <1>0, <2>1, <2>2, <2>3, StoreStep
<1>2. CASE FirstSavepoint(w)
  <2>1. PICK r \in set_savepoint(shard[w]) :
          \/ /\ r.ret = "ok"
             /\ shard' = [shard EXCEPT ![w] = r.shard]
             /\ savepoint_count' = [savepoint_count EXCEPT ![w] = n + 1]
          \/ UNCHANGED store
    BY <1>2 DEF FirstSavepoint
  <2>2. r \in Outcome /\ r.shard \in Shard
    BY <1>0, SavepointKeeps DEF Outcome
  <2>3. CASE /\ r.ret = "ok"
             /\ shard' = [shard EXCEPT ![w] = r.shard]
             /\ savepoint_count' = [savepoint_count EXCEPT ![w] = n + 1]
    <3>1. n + 1 \in Int /\ Backs(n + 1, r.shard)
      BY <1>0, <2>3, SavepointKeeps
    <3>. QED
      BY <1>0, <2>2, <2>3, <3>1, StoreStep
  <2>4. CASE UNCHANGED store
    BY <1>0, <2>4, StoreStutter
  <2>. QED
    BY <2>1, <2>3, <2>4
<1>3. CASE SetSavepoint(w)
  <2>1. PICK r \in set_savepoint(shard[w]) :
          /\ shard' = [shard EXCEPT ![w] = r.shard]
          /\ savepoint_count' = [savepoint_count EXCEPT ![w] = IF r.ret = "ok" THEN n + 1 ELSE n]
    BY <1>3 DEF SetSavepoint
  <2>2. r \in Outcome /\ r.shard \in Shard
    BY <1>0, SavepointKeeps DEF Outcome
  <2>. DEFINE m == IF r.ret = "ok" THEN n + 1 ELSE n
  <2>3. m \in Int /\ Backs(m, r.shard)
    BY <1>0, <2>2, SavepointKeeps DEF Outcome
  <2>4. savepoint_count' = [savepoint_count EXCEPT ![w] = m]
    BY <2>1
  <2>. HIDE DEF m
  <2>. QED
    BY <1>0, <2>1, <2>2, <2>3, <2>4, StoreStep
<1>4. CASE RollbackToSavepoint(w) \/ UndoSavepoint(w)
  <2>1. PICK r \in rollback_to_last_savepoint(shard[w]) :
          /\ shard' = [shard EXCEPT ![w] = r.shard]
          /\ savepoint_count' = [savepoint_count EXCEPT ![w] = IF r.ret = "ok" THEN n - 1 ELSE n]
    BY <1>4 DEF RollbackToSavepoint, UndoSavepoint
  <2>2. r \in Outcome /\ r.shard \in Shard
    BY <1>0, RollbackKeeps DEF Outcome
  <2>. DEFINE m == IF r.ret = "ok" THEN n - 1 ELSE n
  <2>3. m \in Int /\ Backs(m, r.shard)
    BY <1>0, <2>2, RollbackKeeps DEF Outcome
  <2>4. savepoint_count' = [savepoint_count EXCEPT ![w] = m]
    BY <2>1
  <2>. HIDE DEF m
  <2>. QED
    BY <1>0, <2>1, <2>2, <2>3, <2>4, StoreStep
<1>5. CASE DropTransaction(w)
  <2>1. /\ shard' = [shard EXCEPT ![w] = delete_transaction(shard[w])]
        /\ savepoint_count' = savepoint_count
        /\ n <= 0
    BY <1>5 DEF DropTransaction
  <2>. QED
    BY <1>0, <1>h, <2>1, DeleteTyping, BacksFreely, StoreStep
<1>6. CASE Commit(w)
  <2>1. PICK r \in commit_transaction(shard[w]) : shard' = [shard EXCEPT ![w] = r.shard]
    BY <1>6 DEF Commit
  <2>2. savepoint_count' = [savepoint_count EXCEPT ![w] = 0]
    BY <1>6 DEF Commit
  <2>3. r.shard \in Shard
    BY <1>0, CommitTyping DEF Outcome
  <2>4. 0 \in Int /\ Backs(0, r.shard)
    BY BacksFreely
  <2>. QED
    BY <1>0, <2>1, <2>2, <2>3, <2>4, StoreStep
<1>. QED
  BY <1>1, <1>2, <1>3, <1>4, <1>5, <1>6

\* A data command acts on the partition chosen for it.
LEMMA ApplyStoreStep ==
  ASSUME IInv, NEW w \in Workers, Apply(w)
  PROVE  StoreOK' /\ SavepointsBackCount'
<1>. DEFINE op == Head(msg[w])
            i  == part[w]
            n  == savepoint_count[i]
<1>0. StoreOK /\ SavepointsBackCount /\ i \in Workers
  BY DEF IInv, TypeOK, ControlOK
<1>1. shard[i] \in Shard /\ n \in Int /\ Backs(n, shard[i])
  BY <1>0, BacksNow
<1>2. CASE op = "w" /\ val[w] = NULL
  BY <1>0, <1>2, StoreStutter DEF Apply, Crash
<1>3. CASE ~(op = "w" /\ val[w] = NULL)
  <2>1. PICK r \in Operate(op, key[w], val[w], shard[i]) :
          shard' = [shard EXCEPT ![i] = r.shard]
    BY <1>3 DEF Apply
  <2>2. savepoint_count' = [savepoint_count EXCEPT ![i] = n]
    BY <1>0, <1>3 DEF Apply, StoreOK
  <2>3. op \in {"r", "w", "d"} /\ key[w] \in Words
    BY DEF Apply, At, IInv, HandlerOK, IsData
  <2>4. op = "w" => val[w] \in Words
    BY <1>3 DEF IInv, TypeOK, TextOK
  <2>5. r \in Outcome /\ Backs(n, r.shard)
    BY <1>1, <2>3, <2>4, OperateKeeps
  <2>. QED
    BY <1>0, <1>1, <2>1, <2>2, <2>5, StoreStep DEF Outcome
<1>. QED
  BY <1>2, <1>3
\* The partition a key selects is one of the server's.
LEMMA LocatedPartition ==
  ASSUME NEW k \in Words, PartitionOf(Num[k], NumKeys, NumWorkers) # NoPartition
  PROVE  PartitionOf(Num[k], NumKeys, NumWorkers) \in Workers
<1>1. Num[k] \in Int /\ NumKeys \in Nat /\ NumWorkers \in Nat \ {0}
  BY NumAssumption, NumWorkersAssumption
<1>2. PartitionOf(Num[k], NumKeys, NumWorkers) \in {0, NoPartition}
  BY <1>1, OnlyTheFirstPartition
<1>. QED
  BY <1>2, WorkersAreNumbers

\* Discarding a transaction that is none changes nothing.
LEMMA DiscardStutters ==
  ASSUME IInv, NEW w \in Workers, Discard(w)
  PROVE  UNCHANGED store
<1>1. ~Usable(shard[w]) /\ part[w] = w
  BY DEF Discard, At, IInv, NothingToDiscard, AllAlone, Alone
<1>2. shard' = [shard EXCEPT ![w] = shard[w]] /\ savepoint_count' = savepoint_count
  BY <1>1 DEF Discard, delete_transaction
<1>. QED
  BY <1>2 DEF store, IInv, TypeOK, StoreOK

\* A transaction begun for a key, on a partition where nothing is counted.
LEMMA LocateStoreStep ==
  ASSUME IInv, NEW w \in Workers, Locate(w)
  PROVE  StoreOK' /\ SavepointsBackCount'
<1>. DEFINE i == PartitionOf(Num[key[w]], NumKeys, NumWorkers)
<1>0. StoreOK /\ SavepointsBackCount
  BY DEF IInv, TypeOK
<1>1. CASE UNCHANGED store
  BY <1>0, <1>1, StoreStutter
<1>2. CASE ~UNCHANGED store
  <2>1. key[w] \in Words
    BY DEF Locate, At, IInv, HandlerOK
  <2>2. /\ i # NoPartition
        /\ \E r \in begin_transaction(shard[i]) : shard' = [shard EXCEPT ![i] = r.shard]
        /\ savepoint_count' = savepoint_count
    BY <1>2 DEF Locate, store
  <2>3. i \in Workers
    BY <2>1, <2>2, LocatedPartition
  <2>. HIDE DEF i
  <2>4. PICK r \in begin_transaction(shard[i]) : shard' = [shard EXCEPT ![i] = r.shard]
    BY <2>2
  <2>5. /\ shard[i] \in Shard /\ savepoint_count[i] \in Int
        /\ Backs(savepoint_count[i], shard[i])
    BY <1>0, <2>3, BacksNow
  <2>6. r.shard \in Shard /\ Backs(savepoint_count[i], r.shard)
    BY <2>5, BeginKeeps DEF Outcome
  <2>7. savepoint_count' = [savepoint_count EXCEPT ![i] = savepoint_count[i]]
    BY <1>0, <2>2, <2>3 DEF StoreOK
  <2>. QED
    BY <1>0, <2>3, <2>4, <2>5, <2>6, <2>7, StoreStep
<1>. QED
  BY <1>1, <1>2

\* The first savepoint of that transaction is counted as one.
LEMMA MultiFirstStoreStep ==
  ASSUME IInv, NEW w \in Workers, MultiFirstSavepoint(w)
  PROVE  StoreOK' /\ SavepointsBackCount'
<1>. DEFINE i == part[w]
<1>0. StoreOK /\ SavepointsBackCount /\ i \in Workers
  BY DEF IInv, TypeOK, ControlOK
<1>1. shard[i] \in Shard /\ Backs(0, shard[i])
  BY <1>0, BacksNow, BacksFreely
<1>2. PICK r \in set_savepoint(shard[i]) :
        \/ /\ r.ret = "ok"
           /\ shard' = [shard EXCEPT ![i] = r.shard]
           /\ savepoint_count' = [savepoint_count EXCEPT ![i] = 1]
        \/ UNCHANGED store
  BY DEF MultiFirstSavepoint
<1>3. CASE /\ r.ret = "ok"
           /\ shard' = [shard EXCEPT ![i] = r.shard]
           /\ savepoint_count' = [savepoint_count EXCEPT ![i] = 1]
  <2>1. r.shard \in Shard /\ Backs(0 + 1, r.shard)
    BY <1>1, <1>3, SavepointKeeps DEF Outcome
  <2>2. 1 \in Int /\ Backs(1, r.shard)
    BY <2>1
  <2>. QED
    BY <1>0, <1>3, <2>1, <2>2, StoreStep
<1>4. CASE UNCHANGED store
  BY <1>0, <1>4, StoreStutter
<1>. QED
  BY <1>2, <1>3, <1>4

\* A savepoint command counts on every partition where it set one.
LEMMA MultiSetSavepointStoreStep ==
  ASSUME IInv, NEW w \in Workers, MultiSetSavepoint(w)
  PROVE  StoreOK' /\ SavepointsBackCount'
<1>1. PICK stop \in 0..NumWorkers :
        LET Counted(i) == i < stop /\ savepoint_count[i] > 0 IN
        /\ \A i \in Workers : Counted(i) => Usable(shard[i])
        /\ shard' = [i \in Workers |-> IF Counted(i) THEN Saved(shard[i]) ELSE shard[i]]
        /\ savepoint_count' = [i \in Workers |->
             IF Counted(i) THEN savepoint_count[i] + 1 ELSE savepoint_count[i]]
  BY DEF MultiSetSavepoint
<1>2. ASSUME NEW i \in Workers
      PROVE  /\ shard'[i] \in Shard /\ savepoint_count'[i] \in Int
             /\ Backs(savepoint_count'[i], shard'[i])
  <2>1. /\ shard[i] \in Shard /\ savepoint_count[i] \in Int
        /\ Backs(savepoint_count[i], shard[i])
    BY BacksNow DEF IInv, TypeOK
  <2>2. CASE i < stop /\ savepoint_count[i] > 0
    <3>1. shard'[i] = Saved(shard[i]) /\ savepoint_count'[i] = savepoint_count[i] + 1
      BY <1>1, <2>2
    <3>2. Ok(Saved(shard[i])) \in set_savepoint(shard[i])
      BY <1>1, <2>2 DEF set_savepoint, Attempt
    <3>. QED
      BY <2>1, <3>1, <3>2, SavepointKeeps, OutcomeFields DEF Outcome
  <2>3. CASE ~(i < stop /\ savepoint_count[i] > 0)
    BY <1>1, <2>1, <2>3
  <2>. QED
    BY <2>2, <2>3
<1>3. /\ shard' = [i \in Workers |-> shard'[i]]
      /\ savepoint_count' = [i \in Workers |-> savepoint_count'[i]]
  BY <1>1
<1>. QED
  BY <1>2, <1>3 DEF StoreOK, SavepointsBackCount, Backs

\* A rollback command takes a count with every savepoint, and below zero where
\* there was none, which needs no savepoint.
LEMMA MultiRollbackStoreStep ==
  ASSUME IInv, NEW w \in Workers, MultiRollback(w)
  PROVE  StoreOK' /\ SavepointsBackCount'
<1>1. PICK stop \in 0..NumWorkers :
        LET Counted(i) == i < stop /\ savepoint_count[i] > 0 IN
        /\ \A i \in Workers : Counted(i) =>
             \E r \in rollback_to_last_savepoint(shard[i]) : r.ret = "ok"
        /\ shard' = [i \in Workers |-> IF Counted(i) THEN RolledBack(shard[i]) ELSE shard[i]]
        /\ savepoint_count' = [i \in Workers |->
             IF i < stop THEN savepoint_count[i] - 1 ELSE savepoint_count[i]]
  BY DEF MultiRollback
<1>2. ASSUME NEW i \in Workers
      PROVE  /\ shard'[i] \in Shard /\ savepoint_count'[i] \in Int
             /\ Backs(savepoint_count'[i], shard'[i])
  <2>1. /\ shard[i] \in Shard /\ savepoint_count[i] \in Int
        /\ Backs(savepoint_count[i], shard[i])
    BY BacksNow DEF IInv, TypeOK
  <2>2. CASE i < stop /\ savepoint_count[i] > 0
    <3>1. PICK r \in rollback_to_last_savepoint(shard[i]) : r.ret = "ok"
      BY <1>1, <2>2
    <3>2. r.shard = RolledBack(shard[i]) /\ Backs(savepoint_count[i] - 1, r.shard)
          /\ r \in Outcome
      BY <2>1, <3>1, RollbackKeeps
    <3>3. shard'[i] = RolledBack(shard[i]) /\ savepoint_count'[i] = savepoint_count[i] - 1
      BY <1>1, <2>2
    <3>. QED
      BY <2>1, <3>2, <3>3 DEF Outcome
  <2>3. CASE ~(i < stop /\ savepoint_count[i] > 0)
    <3>1. shard'[i] = shard[i]
      BY <1>1, <2>3
    <3>2. \/ savepoint_count'[i] = savepoint_count[i]
          \/ savepoint_count'[i] = savepoint_count[i] - 1 /\ ~(savepoint_count[i] > 0)
      BY <1>1, <2>3
    <3>. QED
      BY <2>1, <3>1, <3>2 DEF Backs
  <2>. QED
    BY <2>2, <2>3
<1>3. /\ shard' = [i \in Workers |-> shard'[i]]
      /\ savepoint_count' = [i \in Workers |-> savepoint_count'[i]]
  BY <1>1
<1>. QED
  BY <1>2, <1>3 DEF StoreOK, SavepointsBackCount, Backs
\* The loops that end a multi-partition packet act on one partition per step.
LEMMA MultiEndStoreStep ==
  ASSUME IInv, NEW w \in Workers,
         MultiUndoSavepoint(w) \/ MultiDropTransaction(w) \/ MultiCommit(w)
  PROVE  StoreOK' /\ SavepointsBackCount'
<1>. DEFINE i == part[w]
            n == savepoint_count[i]
<1>0. StoreOK /\ SavepointsBackCount /\ i \in Workers
  BY DEF IInv, TypeOK, ControlOK
<1>1. shard[i] \in Shard /\ n \in Int /\ Backs(n, shard[i])
  BY <1>0, BacksNow
<1>h. savepoint_count = [savepoint_count EXCEPT ![i] = n]
  BY <1>0 DEF StoreOK
<1>2. CASE MultiUndoSavepoint(w)
  <2>1. PICK r \in rollback_to_last_savepoint(shard[i]) :
          /\ shard' = [shard EXCEPT ![i] = r.shard]
          /\ savepoint_count' = [savepoint_count EXCEPT ![i] = IF r.ret = "ok" THEN n - 1 ELSE n]
    BY <1>2 DEF MultiUndoSavepoint
  <2>. DEFINE m == IF r.ret = "ok" THEN n - 1 ELSE n
  <2>2. r \in Outcome /\ r.shard \in Shard
    BY <1>1, RollbackKeeps DEF Outcome
  <2>3. m \in Int /\ Backs(m, r.shard)
    BY <1>1, <2>2, RollbackKeeps DEF Outcome
  <2>4. savepoint_count' = [savepoint_count EXCEPT ![i] = m]
    BY <2>1
  <2>. HIDE DEF m
  <2>. QED
    BY <1>0, <2>1, <2>2, <2>3, <2>4, StoreStep
<1>3. CASE MultiDropTransaction(w)
  <2>. DEFINE s == IF doomed[w] THEN delete_transaction(shard[i]) ELSE shard[i]
  <2>1. shard' = [shard EXCEPT ![i] = s] /\ savepoint_count' = savepoint_count /\ n <= 0
    BY <1>3 DEF MultiDropTransaction
  <2>2. s \in Shard
    BY <1>1, DeleteTyping
  <2>3. Backs(n, s)
    BY <1>1, <2>1, BacksFreely
  <2>. HIDE DEF s
  <2>. QED
    BY <1>0, <1>1, <1>h, <2>1, <2>2, <2>3, StoreStep
<1>4. CASE MultiCommit(w)
  <2>1. CASE n > 0
    <3>1. PICK r \in commit_transaction(shard[i]) :
            /\ shard' = [shard EXCEPT ![i] = r.shard]
            /\ savepoint_count' = [savepoint_count EXCEPT ![i] = 0]
      BY <1>4, <2>1 DEF MultiCommit
    <3>2. r.shard \in Shard
      BY <1>1, CommitTyping DEF Outcome
    <3>3. 0 \in Int /\ Backs(0, r.shard)
      BY BacksFreely
    <3>. QED
      BY <1>0, <3>1, <3>2, <3>3, StoreStep
  <2>2. CASE ~(n > 0)
    BY <1>0, <1>4, <2>2, StoreStutter DEF MultiCommit
  <2>. QED
    BY <2>1, <2>2
<1>. QED
  BY <1>2, <1>3, <1>4

\* A signal handler moves no worker, and touches the store only to close a
\* partition and destroy it.
LEMMA SignalShapes ==
  ASSUME NEW h \in Handlers, RaiseSignal(h) \/ SignalHandler(h)
  PROVE  /\ UNCHANGED <<pc, left, bursts, pkt, key, val, part, doomed, msg, ret, ran,
                        cursor, savepoint_count, done>>
         /\ \/ shard' = shard
            \/ \E i \in Workers : \E s \in CloseAndDestroy(shard[i]) :
                 shard' = [shard EXCEPT ![i] = s]
<1>1. CASE RaiseSignal(h)
  BY <1>1 DEF RaiseSignal, ring, locals, store
<1>2. CASE CopyPath(h)
  BY <1>2 DEF CopyPath, Crash, ring, locals, store
<1>3. CASE CloseDb(h)
  BY <1>3 DEF CloseDb, Crash, ring, locals, store
<1>4. CASE Quit(h)
  BY <1>4 DEF Quit, Crash, ring, locals, store
<1>. QED
  BY <1>1, <1>2, <1>3, <1>4 DEF SignalHandler

\* A closed partition needs no backing, whatever is still counted on it.
LEMMA SignalStoreStep ==
  ASSUME IInv, NEW h \in Handlers, RaiseSignal(h) \/ SignalHandler(h)
  PROVE  StoreOK' /\ SavepointsBackCount'
<1>0. StoreOK /\ SavepointsBackCount /\ savepoint_count' = savepoint_count
  BY SignalShapes DEF IInv, TypeOK
<1>1. ASSUME NEW i \in Workers, NEW s \in CloseAndDestroy(shard[i]),
             shard' = [shard EXCEPT ![i] = s]
      PROVE  StoreOK' /\ SavepointsBackCount'
  <2>1. shard[i] \in Shard /\ savepoint_count[i] \in Int
    BY <1>0, BacksNow
  <2>2. s \in Shard /\ Backs(savepoint_count[i], s)
    BY <2>1, CloseKeeps, BacksFreely
  <2>3. savepoint_count' = [savepoint_count EXCEPT ![i] = savepoint_count[i]]
    BY <1>0 DEF StoreOK
  <2>. QED
    BY <1>0, <1>1, <2>1, <2>2, <2>3, StoreStep
<1>2. CASE shard' = shard
  BY <1>0, <1>2, StoreStutter DEF store
<1>. QED
  BY <1>1, <1>2, SignalShapes

\* Every other action leaves partitions and counters alone.
LEMMA StoreInvariant ==
  ASSUME IInv, [Next]_vars
  PROVE  StoreOK' /\ SavepointsBackCount'
<1>0. StoreOK /\ SavepointsBackCount
  BY DEF IInv, TypeOK
<1>1. CASE UNCHANGED vars
  BY <1>0, <1>1, StoreStutter DEF vars
<1>2. ASSUME NEW h \in Handlers, RaiseSignal(h) \/ SignalHandler(h)
      PROVE  StoreOK' /\ SavepointsBackCount'
  BY <1>2, SignalStoreStep
<1>4. ASSUME NEW w \in Workers, Worker(w)
      PROVE  StoreOK' /\ SavepointsBackCount'
  <2>1. CASE Dequeue(w) \/ EmptyPoll(w) \/ Exit(w) \/ Receive(w) \/ Ignore(w)
    <3>1. UNCHANGED store
      BY <2>1 DEF Dequeue, EmptyPoll, Exit, Receive, Ignore, vars
    <3>. QED
      BY <1>0, <3>1, StoreStutter
  <2>2. CASE \/ BeginTransaction(w) \/ FirstSavepoint(w) \/ SetSavepoint(w)
             \/ RollbackToSavepoint(w) \/ UndoSavepoint(w) \/ DropTransaction(w) \/ Commit(w)
    BY <2>2, SingleStoreStep
  <2>3. CASE EndOfText(w) \/ TakeKey(w) \/ TakeValue(w) \/ SkipUnknown(w) \/ TakeCommand(w)
    <3>1. UNCHANGED store
      BY <2>3 DEF EndOfText, TakeKey, TakeValue, SkipUnknown, TakeCommand, Crash
    <3>. QED
      BY <1>0, <3>1, StoreStutter
  <2>4. CASE Apply(w)
    BY <2>4, ApplyStoreStep
  <2>5. CASE LockOthers(w)
    BY <1>0, <2>5, StoreStutter DEF LockOthers
  <2>6. CASE Locate(w)
    BY <2>6, LocateStoreStep
  <2>10. CASE MultiFirstSavepoint(w)
    BY <2>10, MultiFirstStoreStep
  <2>11. CASE Discard(w)
    BY <1>0, <2>11, DiscardStutters, StoreStutter
  <2>7. CASE MultiSetSavepoint(w)
    BY <2>7, MultiSetSavepointStoreStep
  <2>8. CASE MultiRollback(w)
    BY <2>8, MultiRollbackStoreStep
  <2>9. CASE MultiUndoSavepoint(w) \/ MultiDropTransaction(w) \/ MultiCommit(w)
    BY <2>9, MultiEndStoreStep
  <2>. QED
    BY <1>4, <2>1, <2>2, <2>3, <2>4, <2>5, <2>6, <2>7, <2>8, <2>9, <2>10, <2>11
       DEF Worker, Handle
<1>. QED
  BY <1>1, <1>2, <1>4 DEF Next
-----------------------------------------------------------------------------
(* The threads and the texts, action by action.                            *)

\* HandlerOK is about each worker alone.
LEMMA HandlerStep ==
  ASSUME HandlerOK, NEW w \in Workers,
         \A v \in Workers \ {w} : /\ pc'[v] = pc[v] /\ left'[v] = left[v]
                                 /\ msg'[v] = msg[v] /\ key'[v] = key[v],
         pc'[w] = "ready" => left'[w] > 0,
         pc'[w] \in {"value", "locate", "first", "apply"} => IsData(msg'[w]) /\ key'[w] \in Words
  PROVE  HandlerOK'
  BY DEF HandlerOK, IsData, NoCommand

\* A step that only goes to another place of the handler.
LEMMA PlaceNames ==
  /\ {"poll", "ready", "exited", "ignore", "begin", "savepoint", "discard", "command",
      "value", "locate", "first", "apply", "next", "rollback", "commit", "lock", "mrollback",
      "mcommit"} = Places
  BY DEF Places, Between

\* The main loop.
LEMMA LoopStep ==
  ASSUME IInv, NEW w \in Workers, Dequeue(w) \/ Exit(w) \/ Receive(w) \/ Ignore(w)
  PROVE  ControlOK' /\ TextOK' /\ HandlerOK'
<1>. USE DEF IInv, TypeOK
<1>1. CASE Dequeue(w)
  <2>1. Goto(w, "ready")
    BY <1>1 DEF Dequeue
  <2>2. left'[w] > 0 /\ left' \in [Workers -> Nat]
    BY <1>1, BoundsAssumption DEF Dequeue, ControlOK
  <2>3. ControlOK'
    BY <1>1, <2>1, <2>2, GotoTyping, PlaceNames DEF Dequeue, ControlOK, irq, locals
  <2>4. TextOK'
    BY <1>1 DEF Dequeue, TextOK, locals
  <2>5. HandlerOK'
    BY <1>1, <2>1, <2>2, GotoTyping, PlaceNames, HandlerStep DEF Dequeue, ControlOK, locals
  <2>. QED
    BY <2>3, <2>4, <2>5
<1>2. CASE Exit(w)
  <2>1. Goto(w, "exited")
    BY <1>2 DEF Exit
  <2>3. ControlOK'
    BY <1>2, <2>1, GotoTyping, PlaceNames DEF Exit, ControlOK, irq, locals, ring
  <2>4. TextOK'
    BY <1>2 DEF Exit, TextOK, locals
  <2>5. HandlerOK'
    BY <1>2, <2>1, GotoTyping, PlaceNames, HandlerStep DEF Exit, locals, ring
  <2>. QED
    BY <2>3, <2>4, <2>5
<1>3. CASE Ignore(w)
  <2>1. Return(w)
    BY <1>3 DEF Ignore
  <2>3. ControlOK'
    BY <1>3, <2>1, ReturnTyping DEF Ignore, ControlOK, irq, locals, ring
  <2>4. TextOK'
    BY <1>3, <2>1, ReturnTyping DEF Ignore, TextOK, locals
  <2>5. HandlerOK'
    BY <1>3, <2>1, ReturnTyping, HandlerStep DEF Ignore, locals, ring
  <2>. QED
    BY <2>3, <2>4, <2>5
<1>4. CASE Receive(w)
  <2>1. PICK p \in Packets :
          /\ pkt'    = [pkt EXCEPT ![w] = p]
          /\ msg'    = [msg EXCEPT ![w] = NextCommand(p.text)]
          /\ cursor' = [own |-> w, rest |-> AfterCommand(p.text)]
          /\ Goto(w, CASE p.type = "single" /\ p.leader = w -> "begin"
                       [] p.type = "multi" -> "lock"
                       [] OTHER -> "ignore")
    BY <1>4 DEF Receive
  <2>2. PICK place \in {"begin", "lock", "ignore"} : Goto(w, place)
    BY <2>1
  <2>3. left[w] > 0 /\ left' = [left EXCEPT ![w] = left[w] - 1]
    BY <1>4 DEF Receive, At, HandlerOK
  <2>4. p \in PacketType /\ p.text \in Texts(Words)
    BY PacketsAssumption DEF PacketType
  <2>5. NextCommand(p.text) \in Seq(Words) /\ AfterCommand(p.text) \in Texts(Words)
    BY <2>4, CommandTyping
  <2>6. ControlOK'
    <3>1. pc' \in [Workers -> Places]
      BY <2>2, GotoTyping, PlaceNames
    <3>2. left' \in [Workers -> Nat]
      BY <2>3 DEF ControlOK
    <3>. QED
      BY <1>4, <3>1, <3>2 DEF Receive, ControlOK, irq
  <2>7. TextOK'
    <3>1. /\ key' = [key EXCEPT ![w] = NULL] /\ val' = [val EXCEPT ![w] = NULL]
          /\ ran' = [ran EXCEPT ![w] = <<>>]
      BY <1>4 DEF Receive
    <3>2. <<>> \in Seq(Seq(Words \cup {"s", "b"}))
      OBVIOUS
    <3>. QED
      BY <2>1, <2>4, <2>5, <3>1, <3>2 DEF TextOK
  <2>8. HandlerOK'
    <3>1. \A v \in Workers \ {w} : pc'[v] = pc[v]
      BY <2>2, GotoTyping, PlaceNames
    <3>2. \A v \in Workers \ {w} : left'[v] = left[v] /\ msg'[v] = msg[v]
      BY <2>1, <2>3 DEF TextOK, ControlOK
    <3>3. \A v \in Workers \ {w} : key'[v] = key[v]
      BY <1>4 DEF Receive, TextOK
    <3>4. pc'[w] \in {"begin", "lock", "ignore"}
      BY <2>2, GotoTyping, PlaceNames
    <3>. QED
      BY <3>1, <3>2, <3>3, <3>4, HandlerStep
  <2>. QED
    BY <2>6, <2>7, <2>8
<1>. QED
  BY <1>1, <1>2, <1>3, <1>4
QuietPlaces == {"savepoint", "discard", "command", "next", "rollback", "commit", "mrollback", "mcommit"}

\* Going on inside the handler, but not to a data command.
LEMMA QuietStep ==
  ASSUME IInv, NEW w \in Workers, NEW place \in QuietPlaces, Goto(w, place),
         UNCHANGED <<left, key>>,
         \A v \in Workers \ {w} : msg'[v] = msg[v]
  PROVE  pc' \in [Workers -> Places] /\ HandlerOK'
<1>1. place \in Places /\ place \notin {"ready", "value", "locate", "first", "apply"}
  BY PlaceNames DEF QuietPlaces
<1>. QED
  BY <1>1, GotoTyping, HandlerStep DEF IInv, TypeOK

\* Leaving the handler.
LEMMA ReturnStep ==
  ASSUME IInv, NEW w \in Workers, Return(w), UNCHANGED <<left, msg, key>>
  PROVE  HandlerOK'
  BY ReturnTyping, HandlerStep DEF IInv, TypeOK

\* One more command in the history.
LEMMA HistoryStep ==
  ASSUME TextOK, NEW w \in Workers, NEW command \in Seq(Words \cup {"s", "b"}),
         Attempted(w, command)
  PROVE  ran' \in [Workers -> Seq(Seq(Words \cup {"s", "b"}))]
<1>1. ran[w] \in Seq(Seq(Words \cup {"s", "b"}))
  BY DEF TextOK
<1>2. Append(ran[w], command) \in Seq(Seq(Words \cup {"s", "b"}))
  BY <1>1
<1>. QED
  BY <1>2 DEF Attempted, TextOK

\* A command strtok has returned is not empty: it has a first letter.
LEMMA CommandWords ==
  /\ <<"s">> \in Seq(Words \cup {"s", "b"}) /\ <<"b">> \in Seq(Words \cup {"s", "b"})
  /\ \A op, k, v \in Words :
       <<op, k>> \in Seq(Words \cup {"s", "b"}) /\ <<op, k, v>> \in Seq(Words \cup {"s", "b"})
  OBVIOUS

\* The calls of a single-partition packet on its own partition.
LEMMA SingleStep ==
  ASSUME IInv, NEW w \in Workers,
         \/ BeginTransaction(w) \/ FirstSavepoint(w) \/ Discard(w) \/ SetSavepoint(w)
         \/ RollbackToSavepoint(w) \/ UndoSavepoint(w) \/ DropTransaction(w) \/ Commit(w)
  PROVE  ControlOK' /\ TextOK' /\ HandlerOK'
<1>0. shard[w] \in Shard /\ savepoint_count[w] \in Int /\ Backs(savepoint_count[w], shard[w])
  BY BacksNow DEF IInv, TypeOK
<1>r. ASSUME NEW r \in Outcome, ret' = [ret EXCEPT ![w] = r.ret]
      PROVE  ret' \in [Workers -> {"ok", "err", "unset"}]
  BY <1>r DEF Outcome, IInv, TypeOK, ControlOK
<1>1. CASE BeginTransaction(w)
  <2>1. PICK r \in begin_transaction(shard[w]) :
          /\ ret' = [ret EXCEPT ![w] = r.ret]
          /\ Goto(w, IF r.ret = "ok" THEN "savepoint" ELSE "commit")
    BY <1>1 DEF BeginTransaction
  <2>2. ret' \in [Workers -> {"ok", "err", "unset"}]
    BY <1>0, <1>r, <2>1, BeginKeeps
  <2>3. PICK place \in QuietPlaces : Goto(w, place)
    BY <2>1 DEF QuietPlaces
  <2>4. pc' \in [Workers -> Places] /\ HandlerOK'
    BY <1>1, <2>3, QuietStep DEF BeginTransaction, locals, ring
  <2>5. ControlOK'
    BY <1>1, <2>2, <2>4 DEF BeginTransaction, IInv, TypeOK, ControlOK, locals, ring, irq
  <2>6. TextOK'
    BY <1>1 DEF BeginTransaction, IInv, TypeOK, TextOK, locals
  <2>. QED
    BY <2>4, <2>5, <2>6
<1>2. CASE FirstSavepoint(w)
  <2>1. PICK r \in set_savepoint(shard[w]) :
          \/ /\ ret' = [ret EXCEPT ![w] = r.ret]
             /\ Attempted(w, <<"s">>)
             /\ Goto(w, "command")
          \/ ret' = ret /\ ran' = ran /\ Goto(w, "discard")
    BY <1>2 DEF FirstSavepoint
  <2>2. ret' \in [Workers -> {"ok", "err", "unset"}]
    BY <1>0, <1>r, <2>1, SavepointKeeps DEF IInv, TypeOK, ControlOK
  <2>3. PICK place \in QuietPlaces : Goto(w, place)
    BY <2>1 DEF QuietPlaces
  <2>4. pc' \in [Workers -> Places] /\ HandlerOK'
    BY <1>2, <2>3, QuietStep DEF FirstSavepoint, locals, ring
  <2>5. ControlOK'
    BY <1>2, <2>2, <2>4 DEF FirstSavepoint, IInv, TypeOK, ControlOK, locals, ring, irq
  <2>6. ran' \in [Workers -> Seq(Seq(Words \cup {"s", "b"}))]
    BY <2>1, HistoryStep, CommandWords DEF IInv, TypeOK, TextOK
  <2>7. TextOK'
    BY <1>2, <2>6 DEF FirstSavepoint, IInv, TypeOK, TextOK, locals
  <2>. QED
    BY <2>4, <2>5, <2>7
<1>3. CASE SetSavepoint(w) \/ RollbackToSavepoint(w)
  <2>1. PICK r \in set_savepoint(shard[w]) \cup rollback_to_last_savepoint(shard[w]) :
          ret' = [ret EXCEPT ![w] = r.ret]
    BY <1>3 DEF SetSavepoint, RollbackToSavepoint
  <2>2. ret' \in [Workers -> {"ok", "err", "unset"}]
    BY <1>0, <1>r, <2>1, SavepointKeeps, RollbackKeeps
  <2>3. Goto(w, "next") /\ "next" \in QuietPlaces
    BY <1>3 DEF QuietPlaces, SetSavepoint, RollbackToSavepoint
  <2>4. pc' \in [Workers -> Places] /\ HandlerOK'
    BY <1>3, <2>3, QuietStep DEF SetSavepoint, RollbackToSavepoint, locals, ring
  <2>5. ControlOK'
    BY <1>3, <2>2, <2>4
       DEF SetSavepoint, RollbackToSavepoint, IInv, TypeOK, ControlOK, locals, ring, irq
  <2>6. ran' \in [Workers -> Seq(Seq(Words \cup {"s", "b"}))]
    BY <1>3, HistoryStep, CommandWords DEF SetSavepoint, RollbackToSavepoint, IInv, TypeOK
  <2>7. TextOK'
    BY <1>3, <2>6 DEF SetSavepoint, RollbackToSavepoint, IInv, TypeOK, TextOK, locals
  <2>. QED
    BY <2>4, <2>5, <2>7
<1>4. CASE UndoSavepoint(w)
  <2>1. PICK r \in rollback_to_last_savepoint(shard[w]) : ret' = [ret EXCEPT ![w] = r.ret]
    BY <1>4 DEF UndoSavepoint
  <2>2. ret' \in [Workers -> {"ok", "err", "unset"}]
    BY <1>0, <1>r, <2>1, RollbackKeeps
  <2>3. ControlOK'
    BY <1>4, <2>2 DEF UndoSavepoint, IInv, TypeOK, ControlOK, locals, ring, irq
  <2>4. TextOK' /\ HandlerOK'
    BY <1>4 DEF UndoSavepoint, IInv, TypeOK, TextOK, HandlerOK, IsData, locals, ring
  <2>. QED
    BY <2>3, <2>4
<1>5. CASE DropTransaction(w) \/ Commit(w)
  <2>1. Return(w)
    BY <1>5 DEF DropTransaction, Commit
  <2>2. ret' \in [Workers -> {"ok", "err", "unset"}]
    <3>1. CASE DropTransaction(w)
      BY <3>1 DEF DropTransaction, IInv, TypeOK, ControlOK
    <3>2. CASE Commit(w)
      <4>1. PICK r \in commit_transaction(shard[w]) : ret' = [ret EXCEPT ![w] = r.ret]
        BY <3>2 DEF Commit
      <4>. QED
        BY <1>0, <1>r, <4>1, CommitTyping
    <3>. QED
      BY <1>5, <3>1, <3>2
  <2>3. HandlerOK'
    BY <1>5, <2>1, ReturnStep DEF DropTransaction, Commit, locals, ring
  <2>4. ControlOK'
    BY <1>5, <2>1, <2>2, ReturnTyping
       DEF DropTransaction, Commit, IInv, TypeOK, ControlOK, locals, ring, irq
  <2>5. TextOK'
    BY <1>5, <2>1, ReturnTyping DEF DropTransaction, Commit, IInv, TypeOK, TextOK, locals
  <2>. QED
    BY <2>3, <2>4, <2>5
<1>6. CASE Discard(w)
  <2>1. PICK place \in QuietPlaces : Goto(w, place)
    BY <1>6 DEF Discard, QuietPlaces
  <2>2. pc' \in [Workers -> Places] /\ HandlerOK'
    BY <1>6, <2>1, QuietStep DEF Discard, locals, ring
  <2>3. ret' \in [Workers -> {"ok", "err", "unset"}]
    BY <1>6 DEF Discard, IInv, TypeOK, ControlOK
  <2>4. ControlOK'
    BY <1>6, <2>2, <2>3 DEF Discard, IInv, TypeOK, ControlOK, locals, ring, irq
  <2>5. TextOK'
    BY <1>6 DEF Discard, IInv, TypeOK, TextOK, locals
  <2>. QED
    BY <2>2, <2>4, <2>5
<1>. QED
  BY <1>1, <1>2, <1>3, <1>4, <1>5, <1>6

\* The command loop: a key, once taken, is a word of a data command.
LEMMA LoopBodyStep ==
  ASSUME IInv, NEW w \in Workers,
         \/ EndOfText(w) \/ TakeKey(w) \/ TakeValue(w) \/ Apply(w)
         \/ SkipUnknown(w) \/ TakeCommand(w)
  PROVE  ControlOK' /\ TextOK' /\ HandlerOK'
<1>0. msg[w] \in Seq(Words) /\ cursor.rest \in Texts(Words)
  BY DEF IInv, TypeOK, TextOK
<1>c. ASSUME Crash PROVE ControlOK' /\ TextOK' /\ HandlerOK'
  BY <1>c DEF Crash, IInv, TypeOK, ControlOK, TextOK, HandlerOK, IsData, locals, ring, irq
<1>1. CASE EndOfText(w)
  <2>1. PICK place \in QuietPlaces : Goto(w, place)
    BY <1>1 DEF EndOfText, QuietPlaces
  <2>2. pc' \in [Workers -> Places] /\ HandlerOK'
    BY <1>1, <2>1, QuietStep DEF EndOfText, ring
  <2>3. part' \in [Workers -> Workers]
    BY <1>1, WorkersAreNumbers DEF EndOfText, IInv, TypeOK, ControlOK
  <2>4. ControlOK'
    BY <1>1, <2>2, <2>3 DEF EndOfText, IInv, TypeOK, ControlOK, ring, irq
  <2>5. TextOK'
    BY <1>1 DEF EndOfText, IInv, TypeOK, TextOK
  <2>. QED
    BY <2>2, <2>4, <2>5
<1>2. CASE TakeKey(w)
  <2>. DEFINE args == Arguments(msg[w])
  <2>1. IsData(msg[w]) /\ msg[w] \in Seq(Words) \ {<<>>}
    BY <1>0, <1>2 DEF TakeKey, IsData, NoCommand
  <2>2. args \in Texts(Words)
    BY <2>1, ArgumentsTyping
  <2>3. CASE args = <<>>
    BY <1>2, <1>c, <2>3 DEF TakeKey
  <2>4. CASE args # <<>>
    <3>1. /\ key'    = [key EXCEPT ![w] = NextWord(args)]
          /\ cursor' = [own |-> w, rest |-> AfterWord(args)]
          /\ UNCHANGED <<ring, pkt, val, part, doomed, msg, ret, ran, store, done, irq, crashed>>
      BY <1>2, <2>4 DEF TakeKey
    <3>2. PICK place \in {"value", "locate", "apply"} : Goto(w, place)
      BY <1>2, <2>4 DEF TakeKey
    <3>3. NextWord(args) \in Words /\ AfterWord(args) \in Texts(Words)
      BY <2>2, <2>4, WordExists, WordTyping
    <3>4. /\ pc' \in [Workers -> Places]
          /\ pc'[w] = place
          /\ \A v \in Workers \ {w} : pc'[v] = pc[v]
      BY <3>2, GotoTyping, PlaceNames DEF IInv, TypeOK
    <3>5. ControlOK'
      BY <3>1, <3>4 DEF IInv, TypeOK, ControlOK, ring, irq
    <3>6. TextOK'
      BY <3>1, <3>3 DEF IInv, TypeOK, TextOK
    <3>7. key'[w] \in Words /\ \A v \in Workers \ {w} : key'[v] = key[v]
      BY <3>1, <3>3 DEF IInv, TypeOK, TextOK
    <3>8. left' = left /\ msg' = msg
      BY <3>1 DEF ring
    <3>9. HandlerOK'
      BY <2>1, <3>4, <3>7, <3>8, HandlerStep DEF IInv
    <3>. QED
      BY <3>5, <3>6, <3>9
  <2>. QED
    BY <2>3, <2>4
<1>3. CASE TakeValue(w)
  <2>1. /\ val'    = [val EXCEPT ![w] = NextWord(cursor.rest)]
        /\ cursor' = [cursor EXCEPT !.rest = AfterWord(cursor.rest)]
        /\ UNCHANGED <<ring, pkt, key, part, doomed, msg, ret, ran, store, done, irq, crashed>>
    BY <1>3 DEF TakeValue
  <2>2. PICK place \in {"locate", "apply"} : Goto(w, place)
    BY <1>3 DEF TakeValue
  <2>3. NextWord(cursor.rest) \in Words \cup {NULL} /\ AfterWord(cursor.rest) \in Texts(Words)
    BY <1>0, WordTyping
  <2>4. /\ pc' \in [Workers -> Places]
        /\ pc'[w] = place
        /\ \A v \in Workers \ {w} : pc'[v] = pc[v]
    BY <2>2, GotoTyping, PlaceNames DEF IInv, TypeOK
  <2>5. ControlOK'
    BY <2>1, <2>4 DEF IInv, TypeOK, ControlOK, ring, irq
  <2>6. TextOK'
    BY <2>1, <2>3 DEF IInv, TypeOK, TextOK
  <2>7. IsData(msg[w]) /\ key[w] \in Words
    BY <1>3 DEF TakeValue, At, IInv, HandlerOK
  <2>8. left' = left /\ msg' = msg /\ key' = key
    BY <2>1 DEF ring
  <2>9. HandlerOK'
    BY <2>4, <2>7, <2>8, HandlerStep DEF IInv
  <2>. QED
    BY <2>5, <2>6, <2>9
<1>4. CASE Apply(w)
  <2>. DEFINE op == Head(msg[w])
              i  == part[w]
  <2>1. CASE op = "w" /\ val[w] = NULL
    BY <1>4, <1>c, <2>1 DEF Apply
  <2>2. CASE ~(op = "w" /\ val[w] = NULL)
    <3>1. PICK r \in Operate(op, key[w], val[w], shard[i]) : ret' = [ret EXCEPT ![w] = r.ret]
      BY <1>4, <2>2 DEF Apply
    <3>2. IsData(msg[w]) /\ key[w] \in Words
      BY <1>4 DEF Apply, At, IInv, HandlerOK
    <3>3. op \in {"r", "w", "d"} /\ op \in Words
      BY <1>0, <3>2 DEF IsData, NoCommand
    <3>4. op = "w" => val[w] \in Words
      BY <2>2 DEF IInv, TypeOK, TextOK
    <3>5. r \in Outcome
      <4>1. i \in Workers
        BY DEF IInv, TypeOK, ControlOK
      <4>2. /\ shard[i] \in Shard /\ savepoint_count[i] \in Int
            /\ Backs(savepoint_count[i], shard[i])
        BY <4>1, BacksNow DEF IInv, TypeOK
      <4>. QED
        BY <3>1, <3>2, <3>3, <3>4, <4>2, OperateKeeps
    <3>6. ret' \in [Workers -> {"ok", "err", "unset"}]
      BY <3>1, <3>5 DEF Outcome, IInv, TypeOK, ControlOK
    <3>7. Goto(w, "next") /\ "next" \in QuietPlaces
      BY <1>4, <2>2 DEF Apply, QuietPlaces
    <3>8. pc' \in [Workers -> Places] /\ HandlerOK'
      BY <1>4, <2>2, <3>7, QuietStep DEF Apply, locals, ring
    <3>9. ControlOK'
      BY <1>4, <2>2, <3>6, <3>8 DEF Apply, IInv, TypeOK, ControlOK, locals, ring, irq
    <3>10. ran' \in [Workers -> Seq(Seq(Words \cup {"s", "b"}))]
      <4>. DEFINE command == IF op = "w" THEN <<op, key[w], val[w]>> ELSE <<op, key[w]>>
      <4>1. command \in Seq(Words \cup {"s", "b"})
        BY <3>2, <3>3, <3>4, CommandWords
      <4>2. Attempted(w, command)
        BY <1>4, <2>2 DEF Apply
      <4>. HIDE DEF command
      <4>. QED
        BY <4>1, <4>2, HistoryStep DEF IInv, TypeOK
    <3>11. TextOK'
      BY <1>4, <2>2, <3>10 DEF Apply, IInv, TypeOK, TextOK, locals
    <3>. QED
      BY <3>8, <3>9, <3>11
  <2>. QED
    BY <2>1, <2>2
<1>5. CASE SkipUnknown(w)
  <2>1. Goto(w, "next") /\ "next" \in QuietPlaces
    BY <1>5 DEF SkipUnknown, QuietPlaces
  <2>2. pc' \in [Workers -> Places] /\ HandlerOK'
    BY <1>5, <2>1, QuietStep DEF SkipUnknown, locals, ring
  <2>3. ControlOK' /\ TextOK'
    BY <1>5, <2>2 DEF SkipUnknown, IInv, TypeOK, ControlOK, TextOK, locals, ring, irq
  <2>. QED
    BY <2>2, <2>3
<1>6. CASE TakeCommand(w)
  <2>1. /\ msg'    = [msg EXCEPT ![w] = NextCommand(cursor.rest)]
        /\ cursor' = [cursor EXCEPT !.rest = AfterCommand(cursor.rest)]
        /\ UNCHANGED <<ring, pkt, key, val, doomed, ret, ran, store, done, irq, crashed>>
    BY <1>6 DEF TakeCommand
  <2>2. PICK place \in QuietPlaces : Goto(w, place)
    BY <1>6 DEF TakeCommand, QuietPlaces
  <2>3. NextCommand(cursor.rest) \in Seq(Words) /\ AfterCommand(cursor.rest) \in Texts(Words)
    BY <1>0, CommandTyping
  <2>4. pc' \in [Workers -> Places] /\ HandlerOK'
    <3>1. \A v \in Workers \ {w} : msg'[v] = msg[v]
      BY <2>1 DEF IInv, TypeOK, TextOK
    <3>. QED
      BY <2>1, <2>2, <3>1, QuietStep DEF ring
  <2>5. part' \in [Workers -> Workers]
    BY <1>6, WorkersAreNumbers DEF TakeCommand, IInv, TypeOK, ControlOK
  <2>6. ControlOK'
    BY <2>1, <2>4, <2>5 DEF IInv, TypeOK, ControlOK, ring, irq
  <2>7. TextOK'
    BY <2>1, <2>3 DEF IInv, TypeOK, TextOK
  <2>. QED
    BY <2>4, <2>6, <2>7
<1>. QED
  BY <1>1, <1>2, <1>3, <1>4, <1>5, <1>6

\* The end of a multi-partition packet goes to the next partition or returns.
LEMMA FinishStep ==
  ASSUME IInv, NEW w \in Workers, Finish(w), UNCHANGED <<left, msg, key>>
  PROVE  /\ pc' \in [Workers -> Places] /\ HandlerOK'
         /\ part' \in [Workers -> Workers]
         /\ done' \in [Workers -> BOOLEAN]
         /\ cursor' \in [own : Workers \cup {NULL}, rest : Texts(Words)]
<1>0. part[w] \in Workers
  BY DEF IInv, TypeOK, ControlOK
<1>1. done' \in [Workers -> BOOLEAN]
  <2>1. done' = [done EXCEPT ![part[w]] = done[part[w]] \/ part[w] # pkt[w].leader]
    BY DEF Finish
  <2>2. (done[part[w]] \/ part[w] # pkt[w].leader) \in BOOLEAN
    OBVIOUS
  <2>. QED
    BY <2>1, <2>2, Zenon DEF IInv, TypeOK, ControlOK
<1>2. CASE part[w] = NumWorkers - 1
  <2>1. Return(w) /\ part' = part
    BY <1>2 DEF Finish
  <2>. QED
    BY <1>1, <2>1, ReturnTyping, ReturnStep DEF IInv, TypeOK, ControlOK
<1>3. CASE part[w] # NumWorkers - 1
  <2>1. part' = [part EXCEPT ![w] = part[w] + 1] /\ pc' = pc /\ cursor' = cursor
    BY <1>3 DEF Finish
  <2>2. part[w] + 1 \in Workers
    BY <1>0, <1>3, WorkersAreNumbers
  <2>3. part' \in [Workers -> Workers]
    BY <2>1, <2>2 DEF IInv, TypeOK, ControlOK
  <2>4. HandlerOK'
    BY <2>1 DEF IInv, HandlerOK, IsData
  <2>. QED
    BY <1>1, <2>1, <2>3, <2>4 DEF IInv, TypeOK, ControlOK, TextOK
<1>. QED
  BY <1>2, <1>3

\* A multi-partition packet.
LEMMA MultiStep ==
  ASSUME IInv, NEW w \in Workers,
         \/ LockOthers(w) \/ Locate(w) \/ MultiFirstSavepoint(w)
         \/ MultiSetSavepoint(w) \/ MultiRollback(w)
         \/ MultiUndoSavepoint(w) \/ MultiDropTransaction(w) \/ MultiCommit(w)
  PROVE  ControlOK' /\ TextOK' /\ HandlerOK'
<1>1. CASE LockOthers(w)
  <2>1. \/ /\ done' = [done EXCEPT ![pkt[w].leader] = FALSE]
           /\ Goto(w, "command")
           /\ cursor' = cursor
        \/ Return(w) /\ done' = done
    BY <1>1 DEF LockOthers
  <2>2. UNCHANGED <<left, bursts, locals, msg, ret, ran, irq, crashed>>
    BY <1>1 DEF LockOthers, ring
  <2>3. /\ pc' \in [Workers -> Places] /\ HandlerOK'
        /\ done' \in [Workers -> BOOLEAN]
        /\ cursor' \in [own : Workers \cup {NULL}, rest : Texts(Words)]
    <3>1. CASE /\ done' = [done EXCEPT ![pkt[w].leader] = FALSE]
               /\ Goto(w, "command")
               /\ cursor' = cursor
      <4>1. "command" \in QuietPlaces
        BY DEF QuietPlaces
      <4>2. pc' \in [Workers -> Places] /\ HandlerOK'
        BY <2>2, <3>1, <4>1, QuietStep DEF locals
      <4>3. done' \in [Workers -> BOOLEAN]
        BY <3>1, Zenon DEF IInv, TypeOK, ControlOK
      <4>. QED
        BY <3>1, <4>2, <4>3 DEF IInv, TypeOK, TextOK
    <3>2. CASE Return(w) /\ done' = done
      BY <2>2, <3>2, ReturnTyping, ReturnStep DEF IInv, TypeOK, ControlOK, locals
    <3>. QED
      BY <2>1, <3>1, <3>2
  <2>4. ControlOK'
    BY <2>2, <2>3 DEF IInv, TypeOK, ControlOK, locals, irq
  <2>5. TextOK'
    BY <2>2, <2>3 DEF IInv, TypeOK, TextOK, locals
  <2>. QED
    BY <2>3, <2>4, <2>5
<1>2. CASE Locate(w)
  <2>. DEFINE i == PartitionOf(Num[key[w]], NumKeys, NumWorkers)
  <2>1. i # NoPartition => i \in Workers
    <3>1. key[w] \in Words
      BY <1>2 DEF Locate, At, IInv, HandlerOK
    <3>. QED
      BY <3>1, LocatedPartition
  <2>. HIDE DEF i
  <2>2. UNCHANGED <<left, bursts, pkt, key, val, doomed, msg, cursor, done, irq, crashed>>
    BY <1>2 DEF Locate, ring
  <2>3. \/ ret' = [ret EXCEPT ![w] = "err"] /\ Goto(w, "next") /\ part' = part
        \/ /\ i # NoPartition
           /\ part' = [part EXCEPT ![w] = i] /\ ret' = ret
           /\ Goto(w, "apply") \/ Goto(w, "first")
    BY <1>2 DEF Locate, i
  <2>4. part' \in [Workers -> Workers] /\ ret' \in [Workers -> {"ok", "err", "unset"}]
    BY <2>1, <2>3 DEF IInv, TypeOK, ControlOK
  <2>5. ran' = ran
    BY <1>2 DEF Locate
  <2>6. pc' \in [Workers -> Places] /\ HandlerOK'
    <3>1. CASE Goto(w, "next")
      BY <2>2, <3>1, QuietStep DEF QuietPlaces
    <3>2. ASSUME NEW place \in {"first", "apply"}, Goto(w, place)
          PROVE  pc' \in [Workers -> Places] /\ HandlerOK'
      <4>1. IsData(msg[w]) /\ key[w] \in Words
        BY <1>2 DEF Locate, At, IInv, HandlerOK
      <4>2. /\ pc' \in [Workers -> Places]
            /\ pc'[w] = place
            /\ \A v \in Workers \ {w} : pc'[v] = pc[v]
        BY <3>2, GotoTyping, PlaceNames DEF IInv, TypeOK
      <4>. QED
        BY <2>2, <4>1, <4>2, HandlerStep DEF IInv
    <3>. QED
      BY <2>3, <3>1, <3>2
  <2>7. ControlOK'
    BY <2>2, <2>4, <2>6 DEF IInv, TypeOK, ControlOK, irq
  <2>8. TextOK'
    BY <2>2, <2>5 DEF IInv, TypeOK, TextOK
  <2>. QED
    BY <2>6, <2>7, <2>8
<1>6. CASE MultiFirstSavepoint(w)
  <2>1. UNCHANGED <<left, bursts, pkt, key, val, part, doomed, msg, ret, cursor, done, irq, crashed>>
    BY <1>6 DEF MultiFirstSavepoint, ring, locals
  <2>2. \/ Attempted(w, <<"s">>) /\ Goto(w, "apply")
        \/ ran' = ran /\ Goto(w, "discard")
    BY <1>6 DEF MultiFirstSavepoint
  <2>3. ran' \in [Workers -> Seq(Seq(Words \cup {"s", "b"}))]
    BY <2>2, HistoryStep, CommandWords DEF IInv, TypeOK, TextOK
  <2>4. pc' \in [Workers -> Places] /\ HandlerOK'
    <3>1. CASE Goto(w, "discard")
      BY <2>1, <3>1, QuietStep DEF QuietPlaces
    <3>2. CASE Goto(w, "apply")
      <4>1. IsData(msg[w]) /\ key[w] \in Words
        BY <1>6 DEF MultiFirstSavepoint, At, IInv, HandlerOK
      <4>2. /\ pc' \in [Workers -> Places]
            /\ pc'[w] = "apply"
            /\ \A v \in Workers \ {w} : pc'[v] = pc[v]
        BY <3>2, GotoTyping, PlaceNames DEF IInv, TypeOK
      <4>. QED
        BY <2>1, <4>1, <4>2, HandlerStep DEF IInv
    <3>. QED
      BY <2>2, <3>1, <3>2
  <2>5. ControlOK'
    BY <2>1, <2>4 DEF IInv, TypeOK, ControlOK, irq
  <2>6. TextOK'
    BY <2>1, <2>3 DEF IInv, TypeOK, TextOK
  <2>. QED
    BY <2>4, <2>5, <2>6
<1>3. CASE MultiSetSavepoint(w) \/ MultiRollback(w)
  <2>1. /\ Goto(w, "next") /\ "next" \in QuietPlaces
        /\ UNCHANGED <<left, bursts, locals, msg, cursor, done, irq, crashed>>
        /\ Attempted(w, <<"s">>) \/ Attempted(w, <<"b">>)
    BY <1>3 DEF MultiSetSavepoint, MultiRollback, QuietPlaces, ring
  <2>2. \E stop \in 0..NumWorkers :
          ret' = [ret EXCEPT ![w] = IF stop = NumWorkers THEN "ok" ELSE "err"]
    BY <1>3 DEF MultiSetSavepoint, MultiRollback
  <2>3. ret' \in [Workers -> {"ok", "err", "unset"}]
    BY <2>2 DEF IInv, TypeOK, ControlOK
  <2>4. pc' \in [Workers -> Places] /\ HandlerOK'
    BY <2>1, QuietStep DEF locals
  <2>5. ControlOK'
    BY <2>1, <2>3, <2>4 DEF IInv, TypeOK, ControlOK, locals, irq
  <2>6. ran' \in [Workers -> Seq(Seq(Words \cup {"s", "b"}))]
    BY <2>1, HistoryStep, CommandWords DEF IInv, TypeOK
  <2>7. TextOK'
    BY <2>1, <2>6 DEF IInv, TypeOK, TextOK, locals
  <2>. QED
    BY <2>4, <2>5, <2>7
<1>4. CASE MultiUndoSavepoint(w)
  <2>1. /\ doomed' = [doomed EXCEPT ![w] = TRUE]
        /\ UNCHANGED <<pc, left, bursts, pkt, key, val, part, msg, ret, ran, cursor, done,
                       irq, crashed>>
    BY <1>4 DEF MultiUndoSavepoint, ring
  <2>2. ControlOK'
    BY <2>1 DEF IInv, TypeOK, ControlOK, irq
  <2>3. TextOK' /\ HandlerOK'
    BY <2>1 DEF IInv, TypeOK, TextOK, HandlerOK, IsData
  <2>. QED
    BY <2>2, <2>3
<1>5. CASE MultiDropTransaction(w) \/ MultiCommit(w)
  <2>1. /\ Finish(w)
        /\ doomed' = doomed \/ doomed' = [doomed EXCEPT ![w] = FALSE]
        /\ UNCHANGED <<left, bursts, pkt, key, val, msg, ret, ran, irq, crashed>>
    BY <1>5 DEF MultiDropTransaction, MultiCommit, ring
  <2>2. /\ pc' \in [Workers -> Places] /\ HandlerOK'
        /\ part' \in [Workers -> Workers]
        /\ done' \in [Workers -> BOOLEAN]
        /\ cursor' \in [own : Workers \cup {NULL}, rest : Texts(Words)]
    BY <2>1, FinishStep
  <2>3. doomed' \in [Workers -> BOOLEAN]
    BY <2>1 DEF IInv, TypeOK, ControlOK
  <2>4. ControlOK'
    BY <2>1, <2>2, <2>3 DEF IInv, TypeOK, ControlOK, irq
  <2>5. TextOK'
    BY <2>1, <2>2 DEF IInv, TypeOK, TextOK
  <2>. QED
    BY <2>2, <2>4, <2>5
<1>. QED
  BY <1>1, <1>2, <1>3, <1>4, <1>5, <1>6

\* The SIGINT handlers.
LEMMA SignalStep ==
  ASSUME IInv, NEW h \in Handlers, RaiseSignal(h) \/ SignalHandler(h)
  PROVE  ControlOK' /\ TextOK' /\ HandlerOK'
<1>. DEFINE SigOK == /\ sig    \in [Handlers -> -1..(NumWorkers + 1)]
                     /\ copied \in [Handlers -> BOOLEAN]
                     /\ quit   \in BOOLEAN
                     /\ crashed \in BOOLEAN
<1>. USE NumWorkersAssumption
<1>0. SigOK
  BY DEF IInv, TypeOK, ControlOK
<1>1. UNCHANGED <<pc, left, bursts, pkt, key, val, part, doomed, msg, ret, ran, cursor, done>>
  BY SignalShapes
<1>2. SigOK'
  <2>1. CASE RaiseSignal(h)
    BY <1>0, <2>1 DEF RaiseSignal
  <2>2. CASE CopyPath(h)
    BY <1>0, <2>2 DEF CopyPath, Crash, irq
  <2>3. CASE Quit(h) /\ ~Crash
    <3>1. /\ sig' = [sig EXCEPT ![h] = NumWorkers + 1]
          /\ quit' = TRUE /\ copied' = copied /\ crashed' = crashed
      BY <2>3 DEF Quit
    <3>2. NumWorkers + 1 \in -1..(NumWorkers + 1)
      OBVIOUS
    <3>. QED
      BY <1>0, <3>1, <3>2
  <2>4. CASE Crash
    BY <1>0, <2>4 DEF Crash, irq
  <2>5. CASE CloseDb(h) /\ ~Crash
    <3>1. PICK i \in Workers : /\ sig' = [sig EXCEPT ![h] = i + 1]
                               /\ copied' = [copied EXCEPT ![h] = FALSE]
                               /\ quit' = quit /\ crashed' = crashed
      BY <2>5 DEF CloseDb
    <3>2. i + 1 \in -1..(NumWorkers + 1)
      BY DEF Workers
    <3>. QED
      BY <1>0, <3>1, <3>2
  <2>. QED
    BY <2>1, <2>2, <2>3, <2>4, <2>5 DEF SignalHandler
<1>3. ControlOK'
  BY <1>1, <1>2 DEF IInv, TypeOK, ControlOK
<1>4. TextOK' /\ HandlerOK'
  BY <1>1 DEF IInv, TypeOK, TextOK, HandlerOK, IsData
<1>. QED
  BY <1>3, <1>4

-----------------------------------------------------------------------------
(* A worker at work is at work on its own partition.                       *)

\* A step of a handler starts in the handler, keeps its packet, and moves no
\* other worker.
LEMMA HandlerMoves ==
  ASSUME IInv, NEW w \in Workers, Handle(w)
  PROVE  /\ pkt' = pkt
         /\ pc[w] \notin Between
         /\ \A v \in Workers \ {w} : pc'[v] = pc[v] /\ part'[v] = part[v]
<1>1. pkt' = pkt
  BY DEF Handle, Ignore, BeginTransaction, FirstSavepoint, Discard, SetSavepoint,
         RollbackToSavepoint, UndoSavepoint, DropTransaction, Commit, EndOfText, TakeKey,
         TakeValue, Apply, SkipUnknown, TakeCommand, LockOthers, Locate, MultiFirstSavepoint,
         MultiSetSavepoint, MultiRollback, MultiUndoSavepoint, MultiDropTransaction,
         MultiCommit, Crash, locals
<1>2. pc[w] \notin Between
  BY DEF Handle, Ignore, BeginTransaction, FirstSavepoint, Discard, SetSavepoint,
         RollbackToSavepoint, UndoSavepoint, DropTransaction, Commit, EndOfText, TakeKey,
         TakeValue, Apply, SkipUnknown, TakeCommand, LockOthers, Locate, MultiFirstSavepoint,
         MultiSetSavepoint, MultiRollback, MultiUndoSavepoint, MultiDropTransaction,
         MultiCommit, At, Between
<1>3. \/ pc' = pc
      \/ \E place \in Places : Goto(w, place)
      \/ Return(w)
  <2>1. CASE \/ Ignore(w) \/ DropTransaction(w) \/ Commit(w) \/ LockOthers(w)
             \/ MultiDropTransaction(w) \/ MultiCommit(w)
    BY <2>1 DEF Ignore, DropTransaction, Commit, LockOthers, MultiDropTransaction, MultiCommit,
                Finish, Places, Between
  <2>2. CASE UndoSavepoint(w) \/ MultiUndoSavepoint(w)
    BY <2>2 DEF UndoSavepoint, MultiUndoSavepoint
  <2>3. CASE \/ BeginTransaction(w) \/ FirstSavepoint(w) \/ Discard(w) \/ SetSavepoint(w)
             \/ RollbackToSavepoint(w)
    BY <2>3 DEF BeginTransaction, FirstSavepoint, Discard, SetSavepoint, RollbackToSavepoint,
                Places
  <2>4. CASE EndOfText(w) \/ TakeKey(w) \/ TakeValue(w) \/ Apply(w) \/ SkipUnknown(w)
    BY <2>4 DEF EndOfText, TakeKey, TakeValue, Apply, SkipUnknown, Crash, Places
  <2>5. CASE \/ TakeCommand(w) \/ Locate(w) \/ MultiFirstSavepoint(w)
             \/ MultiSetSavepoint(w) \/ MultiRollback(w)
    BY <2>5 DEF TakeCommand, Locate, MultiFirstSavepoint, MultiSetSavepoint, MultiRollback,
                Places
  <2>. QED
    BY <2>1, <2>2, <2>3, <2>4, <2>5 DEF Handle
<1>4. \A v \in Workers \ {w} : pc'[v] = pc[v]
  BY <1>3, GotoTyping, ReturnTyping DEF IInv, TypeOK
<1>5. part' = part \/ \E i : part' = [part EXCEPT ![w] = i]
  <2>1. CASE \/ Ignore(w) \/ BeginTransaction(w) \/ FirstSavepoint(w) \/ Discard(w)
             \/ SetSavepoint(w) \/ RollbackToSavepoint(w) \/ UndoSavepoint(w)
             \/ DropTransaction(w) \/ Commit(w)
    BY <2>1 DEF Ignore, BeginTransaction, FirstSavepoint, Discard, SetSavepoint,
                RollbackToSavepoint, UndoSavepoint, DropTransaction, Commit, locals
  <2>2. CASE EndOfText(w) \/ TakeCommand(w) \/ Locate(w)
    BY <2>2 DEF EndOfText, TakeCommand, Locate
  <2>3. CASE TakeKey(w) \/ TakeValue(w) \/ Apply(w) \/ SkipUnknown(w)
    BY <2>3 DEF TakeKey, TakeValue, Apply, SkipUnknown, Crash, locals
  <2>4. CASE \/ LockOthers(w) \/ MultiFirstSavepoint(w) \/ MultiSetSavepoint(w)
             \/ MultiRollback(w) \/ MultiUndoSavepoint(w)
    BY <2>4 DEF LockOthers, MultiFirstSavepoint, MultiSetSavepoint, MultiRollback,
                MultiUndoSavepoint, locals
  <2>5. CASE MultiDropTransaction(w) \/ MultiCommit(w)
    BY <2>5 DEF MultiDropTransaction, MultiCommit, Finish
  <2>. QED
    BY <2>1, <2>2, <2>3, <2>4, <2>5 DEF Handle
<1>6. \A v \in Workers \ {w} : part'[v] = part[v]
  BY <1>5 DEF IInv, TypeOK, ControlOK
<1>. QED
  BY <1>1, <1>2, <1>4, <1>6

\* What a worker is doing with its packet is all that counts.
LEMMA AloneStep ==
  ASSUME AllAlone, NEW w \in Workers, Alone(w)',
         \A v \in Workers \ {w} : /\ pc'[v] = pc[v]
                                  /\ pkt'[v] = pkt[v]
                                  /\ part'[v] = part[v]
  PROVE  AllAlone'
<1>1. ASSUME NEW v \in Workers \ {w} PROVE Alone(v)'
  <2>1. Alone(v)
    BY DEF AllAlone
  <2>. QED
    BY <2>1 DEF Alone, Multi
<1>. QED
  BY <1>1 DEF AllAlone

\* Among several workers a handler neither leaves its partition nor goes where
\* only multi-partition packets get to.
LEMMA AmongOthers ==
  ASSUME IInv, NumWorkers # 1, NEW w \in Workers, Handle(w)
  PROVE  /\ part' = part
         /\ \/ pc'[w] \in {"ready", "poll"}
            \/ pc' = pc
            \/ pc[w] \in Executing /\ pc'[w] \notin {"locate", "first", "mrollback", "mcommit"}
<1>1. /\ pc[w] \notin {"locate", "first", "mrollback", "mcommit"}
      /\ pc[w] \in Executing => ~Multi(w)
  BY DEF IInv, AllAlone, Alone
<1>2. ~ \/ Locate(w) \/ MultiFirstSavepoint(w) \/ MultiSetSavepoint(w) \/ MultiRollback(w)
        \/ MultiUndoSavepoint(w) \/ MultiDropTransaction(w) \/ MultiCommit(w)
  BY <1>1 DEF Locate, MultiFirstSavepoint, MultiSetSavepoint, MultiRollback,
              MultiUndoSavepoint, MultiDropTransaction, MultiCommit, At, Executing
<1>3. CASE Ignore(w) \/ DropTransaction(w) \/ Commit(w)
  BY <1>3, ReturnTyping DEF Ignore, DropTransaction, Commit, IInv, locals
<1>4. CASE UndoSavepoint(w)
  BY <1>4 DEF UndoSavepoint, locals
<1>5. CASE \/ BeginTransaction(w) \/ FirstSavepoint(w) \/ Discard(w) \/ SetSavepoint(w)
           \/ RollbackToSavepoint(w)
  <2>1. part' = part /\ pc[w] \in Executing
    BY <1>5 DEF BeginTransaction, FirstSavepoint, Discard, SetSavepoint, RollbackToSavepoint,
                At, Executing, locals
  <2>2. PICK place \in {"savepoint", "commit", "command", "discard", "next"} : Goto(w, place)
    BY <1>1, <1>5, <2>1 DEF BeginTransaction, FirstSavepoint, Discard, SetSavepoint,
                       RollbackToSavepoint
  <2>3. pc'[w] = place
    BY <2>2, GotoTyping, PlaceNames DEF IInv, TypeOK, Places
  <2>. QED
    BY <2>1, <2>3
<1>6. CASE \/ EndOfText(w) \/ TakeKey(w) \/ TakeValue(w) \/ Apply(w) \/ SkipUnknown(w)
           \/ TakeCommand(w)
  <2>1. pc[w] \in Executing
    BY <1>6 DEF EndOfText, TakeKey, TakeValue, Apply, SkipUnknown, TakeCommand, At, Executing
  <2>2. /\ part' = part
        /\ pc' = pc \/ \E place \in {"commit", "value", "apply", "next", "rollback", "command"} :
                         Goto(w, place)
    <3>1. ~Multi(w) /\ part = [part EXCEPT ![w] = part[w]]
      BY <1>1, <2>1 DEF IInv, TypeOK, ControlOK
    <3>2. CASE TakeCommand(w)
      BY <3>1, <3>2 DEF TakeCommand
    <3>3. CASE EndOfText(w) \/ TakeKey(w) \/ TakeValue(w)
      BY <3>1, <3>3 DEF EndOfText, TakeKey, TakeValue, Crash, locals
    <3>4. CASE Apply(w) \/ SkipUnknown(w)
      BY <3>4 DEF Apply, SkipUnknown, Crash, locals
    <3>. QED
      BY <1>6, <3>2, <3>3, <3>4
  <2>3. ASSUME NEW place \in {"commit", "value", "apply", "next", "rollback", "command"},
               Goto(w, place)
        PROVE  pc'[w] = place
    BY <2>3, GotoTyping DEF IInv, TypeOK, Places
  <2>. QED
    BY <2>1, <2>2, <2>3
<1>7. CASE LockOthers(w)
  <2>1. 0 \in Workers /\ 1 \in Workers
    BY NumWorkersAssumption DEF Workers
  <2>2. {i \in Workers : i # pkt[w].leader} # {}
    BY <2>1
  <2>3. Return(w) /\ part' = part
    BY <1>7, <2>2 DEF LockOthers, locals
  <2>. QED
    BY <2>3, ReturnTyping DEF IInv
<1>. QED
  BY <1>2, <1>3, <1>4, <1>5, <1>6, <1>7 DEF Handle

\* The wait lets only the leader of a server with one worker pass.
LEMMA AloneHandle ==
  ASSUME IInv, ControlOK', NEW w \in Workers, Handle(w)
  PROVE  AllAlone'
<1>0. AllAlone /\ Alone(w)
  BY DEF IInv, AllAlone
<1>1. /\ pkt' = pkt
      /\ \A v \in Workers \ {w} : pc'[v] = pc[v] /\ part'[v] = part[v]
  BY HandlerMoves
<1>2. CASE NumWorkers = 1
  <2>1. Workers = {0}
    BY <1>2 DEF Workers
  <2>2. part'[w] = w
    BY <2>1 DEF ControlOK
  <2>3. Alone(w)'
    BY <1>2, <2>2 DEF Alone
  <2>. QED
    BY <1>0, <1>1, <2>3, AloneStep
<1>3. CASE NumWorkers # 1
  <2>1. Alone(w)'
    BY <1>0, <1>1, <1>3, AmongOthers DEF Alone, Multi, Executing
  <2>. QED
    BY <1>0, <1>1, <2>1, AloneStep
<1>. QED
  BY <1>2, <1>3

\* A multi-partition packet is executed by a worker that is alone.
LEMMA AloneNext ==
  ASSUME IInv, ControlOK', [Next]_vars
  PROVE  AllAlone'
<1>0. AllAlone
  BY DEF IInv
<1>1. CASE UNCHANGED <<pc, pkt, part>>
  BY <1>0, <1>1 DEF AllAlone, Alone, Multi
<1>2. CASE UNCHANGED vars
  BY <1>1, <1>2 DEF vars, locals
<1>3. ASSUME NEW h \in Handlers, RaiseSignal(h) \/ SignalHandler(h) PROVE AllAlone'
  BY <1>1, <1>3, SignalShapes
<1>4. ASSUME NEW w \in Workers, Worker(w) PROVE AllAlone'
  <2>0. Alone(w)
    BY <1>0 DEF AllAlone
  <2>1. CASE EmptyPoll(w)
    BY <1>2, <2>1 DEF EmptyPoll
  <2>2. CASE Dequeue(w) \/ Exit(w)
    <3>1. /\ pkt' = pkt /\ part' = part /\ pc'[w] \in {"ready", "exited"}
          /\ \A v \in Workers \ {w} : pc'[v] = pc[v]
      BY <2>2 DEF Dequeue, Exit, locals, Goto, IInv, TypeOK, ControlOK
    <3>2. Alone(w)'
      BY <2>0, <3>1 DEF Alone, Executing
    <3>. QED
      BY <1>0, <3>1, <3>2, AloneStep
  <2>3. CASE Receive(w)
    <3>1. PICK p \in Packets :
            /\ pkt' = [pkt EXCEPT ![w] = p]
            /\ Goto(w, CASE p.type = "single" /\ p.leader = w -> "begin"
                         [] p.type = "multi" -> "lock"
                         [] OTHER -> "ignore")
      BY <2>3 DEF Receive
    <3>2. pkt'[w] = p /\ \A v \in Workers \ {w} : pkt'[v] = pkt[v] /\ pc'[v] = pc[v]
      BY <3>1 DEF Goto, IInv, TypeOK, ControlOK, TextOK
    <3>3. \/ pc'[w] = "begin" /\ p.type = "single"
          \/ pc'[w] \in {"lock", "ignore"}
      BY <3>1 DEF Goto, IInv, TypeOK, ControlOK
    <3>4. part'[w] = w /\ \A v \in Workers \ {w} : part'[v] = part[v]
      BY <2>3 DEF Receive, IInv, TypeOK, ControlOK
    <3>5. Alone(w)'
      BY <3>2, <3>3, <3>4 DEF Alone, Multi, Executing
    <3>. QED
      BY <1>0, <3>2, <3>4, <3>5, AloneStep
  <2>4. CASE Handle(w)
    BY <2>4, AloneHandle
  <2>. QED
    BY <1>4, <2>1, <2>2, <2>3, <2>4 DEF Worker
<1>. QED
  BY <1>2, <1>3, <1>4 DEF Next

-----------------------------------------------------------------------------
(* A failed first savepoint.                                               *)

\* The partitions a handler's step may change: its own, as it is alone on it.
LEMMA OwnPartitionOnly ==
  ASSUME IInv, NEW w \in Workers, Worker(w), NEW v \in Workers \ {w}
  PROVE  shard'[v] = shard[v] /\ pc'[v] = pc[v]
<1>0. shard \in [Workers -> Shard]
  BY DEF IInv, TypeOK, StoreOK
<1>1. part[w] = w /\ NumWorkers # 1
  <2>1. Workers # {w}
    OBVIOUS
  <2>. QED
    BY <2>1 DEF IInv, AllAlone, Alone, Workers
<1>2. pc'[v] = pc[v]
  <2>1. CASE Handle(w)
    BY <2>1, HandlerMoves
  <2>2. CASE Dequeue(w) \/ EmptyPoll(w) \/ Exit(w) \/ Receive(w)
    BY <2>2 DEF Dequeue, EmptyPoll, Exit, Receive, Goto, vars, IInv, TypeOK, ControlOK
  <2>. QED
    BY <2>1, <2>2 DEF Worker
<1>3. shard' = shard \/ \E s : shard' = [shard EXCEPT ![w] = s]
  <2>1. ~ \/ Locate(w) \/ MultiFirstSavepoint(w) \/ MultiSetSavepoint(w) \/ MultiRollback(w)
          \/ MultiUndoSavepoint(w) \/ MultiDropTransaction(w) \/ MultiCommit(w)
    BY <1>1 DEF Locate, MultiFirstSavepoint, MultiSetSavepoint, MultiRollback,
                MultiUndoSavepoint, MultiDropTransaction, MultiCommit, At, Executing,
                IInv, AllAlone, Alone
  <2>2. CASE Dequeue(w) \/ EmptyPoll(w) \/ Exit(w) \/ Receive(w) \/ Ignore(w) \/ LockOthers(w)
    BY <2>2 DEF Dequeue, EmptyPoll, Exit, Receive, Ignore, LockOthers, vars, store
  <2>3. CASE EndOfText(w) \/ TakeKey(w) \/ TakeValue(w) \/ SkipUnknown(w) \/ TakeCommand(w)
    BY <2>3 DEF EndOfText, TakeKey, TakeValue, SkipUnknown, TakeCommand, Crash, store
  <2>4. CASE \/ BeginTransaction(w) \/ FirstSavepoint(w) \/ SetSavepoint(w)
             \/ RollbackToSavepoint(w) \/ UndoSavepoint(w)
    BY <2>4 DEF BeginTransaction, FirstSavepoint, SetSavepoint, RollbackToSavepoint,
                UndoSavepoint, store
  <2>5. CASE DropTransaction(w) \/ Commit(w)
    BY <2>5 DEF DropTransaction, Commit
  <2>6. CASE Discard(w) \/ Apply(w)
    BY <1>1, <2>6 DEF Discard, Apply, Crash, store
  <2>. QED
    BY <2>1, <2>2, <2>3, <2>4, <2>5, <2>6 DEF Worker, Handle
<1>. QED
  BY <1>0, <1>2, <1>3

\* A failed set_savepoint means that there is no transaction.
LEMMA SavepointRefused ==
  ASSUME NEW s, NEW r \in set_savepoint(s), r.ret # "ok"
  PROVE  ~Usable(s)
<1>1. "s" \notin FaultyOps
  BY FaultyOpsAssumption
<1>. QED
  BY <1>1, AttemptOutcome, OutcomeFields DEF set_savepoint

\* Only a failed first savepoint leads there.
LEMMA DiscardEntry ==
  ASSUME IInv, NEW w \in Workers, Worker(w), pc'[w] = "discard"
  PROVE  FirstSavepoint(w) \/ MultiFirstSavepoint(w)
<1>1. ASSUME NEW place \in Places, Goto(w, place), place # "discard" PROVE FALSE
  BY <1>1, GotoTyping DEF IInv, TypeOK
<1>2. ASSUME Return(w) PROVE FALSE
  BY <1>2, ReturnTyping DEF IInv
<1>3. ASSUME pc' = pc, pc[w] # "discard" PROVE FALSE
  BY <1>3
<1>4. ~ (Dequeue(w) \/ EmptyPoll(w) \/ Exit(w))
  BY <1>1, <1>3 DEF Dequeue, EmptyPoll, Exit, vars, At, Places, Between
<1>5. ~Receive(w)
  <2>1. Receive(w) => \E place \in {"begin", "lock", "ignore"} : Goto(w, place)
    BY DEF Receive
  <2>. QED
    BY <1>1, <2>1 DEF Places, Between
<1>6. ~ (Ignore(w) \/ DropTransaction(w) \/ Commit(w))
  BY <1>2 DEF Ignore, DropTransaction, Commit
<1>7. ~ (BeginTransaction(w) \/ Discard(w) \/ SetSavepoint(w) \/ RollbackToSavepoint(w))
  BY <1>1 DEF BeginTransaction, Discard, SetSavepoint, RollbackToSavepoint, Places
<1>8. ~ (UndoSavepoint(w) \/ MultiUndoSavepoint(w))
  BY <1>3 DEF UndoSavepoint, MultiUndoSavepoint, At
<1>9. ~ (EndOfText(w) \/ TakeKey(w) \/ TakeValue(w))
  BY <1>1, <1>3 DEF EndOfText, TakeKey, TakeValue, Crash, At, Places
<1>10. ~ (Apply(w) \/ SkipUnknown(w) \/ TakeCommand(w))
  BY <1>1, <1>3 DEF Apply, SkipUnknown, TakeCommand, Crash, At, Places
<1>11. ~ (LockOthers(w) \/ Locate(w) \/ MultiSetSavepoint(w) \/ MultiRollback(w))
  BY <1>1, <1>2 DEF LockOthers, Locate, MultiSetSavepoint, MultiRollback, Places
<1>12. ~ (MultiDropTransaction(w) \/ MultiCommit(w))
  BY <1>2, <1>3 DEF MultiDropTransaction, MultiCommit, Finish, At
<1>. QED
  BY <1>4, <1>5, <1>6, <1>7, <1>8, <1>9, <1>10, <1>11, <1>12 DEF Worker, Handle

\* A handler comes to discard a transaction because the first savepoint on its
\* partition failed: there was none, or the database was closed.
LEMMA DiscardNext ==
  ASSUME IInv, [Next]_vars
  PROVE  NothingToDiscard'
<1>0. /\ NothingToDiscard
      /\ shard \in [Workers -> Shard] /\ savepoint_count \in [Workers -> Int]
  BY DEF IInv, TypeOK, StoreOK
<1>1. CASE UNCHANGED vars
  BY <1>0, <1>1 DEF vars, store, NothingToDiscard
<1>2. ASSUME NEW h \in Handlers, RaiseSignal(h) \/ SignalHandler(h)
      PROVE  NothingToDiscard'
  <2>1. pc' = pc /\ \A v \in Workers : Usable(shard'[v]) => Usable(shard[v])
    <3>1. ASSUME NEW i \in Workers, NEW s \in CloseAndDestroy(shard[i]),
                 shard' = [shard EXCEPT ![i] = s]
          PROVE  \A v \in Workers : Usable(shard'[v]) => Usable(shard[v])
      <4>1. ~Usable(s)
        BY <1>0, CloseKeeps DEF Usable
      <4>. QED
        BY <1>0, <3>1, <4>1
    <3>. QED
      BY <1>2, <3>1, SignalShapes
  <2>. QED
    BY <1>0, <2>1 DEF NothingToDiscard
<1>3. ASSUME NEW w \in Workers, Worker(w)
      PROVE  NothingToDiscard'
  <2>1. ASSUME NEW v \in Workers \ {w}, pc'[v] = "discard" PROVE ~Usable(shard'[v])
    BY <1>0, <1>3, <2>1, OwnPartitionOnly DEF NothingToDiscard
  <2>2. ASSUME pc'[w] = "discard" PROVE ~Usable(shard'[w])
    <3>1. FirstSavepoint(w) \/ MultiFirstSavepoint(w)
      BY <1>3, <2>2, DiscardEntry
    <3>2. PICK place \in {"command", "apply", "discard"} :
            /\ Goto(w, place)
            /\ place = "discard" => /\ shard' = shard
                                    /\ \E r \in set_savepoint(shard[w]) : r.ret # "ok"
      <4>1. part[w] = w
        BY DEF IInv, AllAlone, Alone
      <4>. QED
        BY <3>1, <4>1 DEF FirstSavepoint, MultiFirstSavepoint, store
    <3>3. pc'[w] = place
      BY <3>2, GotoTyping DEF IInv, TypeOK, Places
    <3>. QED
      BY <2>2, <3>2, <3>3, SavepointRefused
  <2>. QED
    BY <2>1, <2>2 DEF NothingToDiscard
<1>. QED
  BY <1>1, <1>2, <1>3 DEF Next

-----------------------------------------------------------------------------

\* Every step of a worker and of a signal handler preserves the invariant.
LEMMA InvariantStep ==
  ASSUME IInv, [Next]_vars
  PROVE  IInv'
<1>1. StoreOK' /\ SavepointsBackCount'
  BY StoreInvariant
<1>2. ControlOK' /\ TextOK' /\ HandlerOK'
  <2>1. CASE UNCHANGED vars
    BY <2>1 DEF vars, IInv, TypeOK, ControlOK, TextOK, HandlerOK, IsData, locals, ring, irq
  <2>2. ASSUME NEW h \in Handlers, RaiseSignal(h) \/ SignalHandler(h)
        PROVE  ControlOK' /\ TextOK' /\ HandlerOK'
    BY <2>2, SignalStep
  <2>3. ASSUME NEW w \in Workers, Worker(w)
        PROVE  ControlOK' /\ TextOK' /\ HandlerOK'
    <3>1. CASE EmptyPoll(w)
      BY <2>1, <3>1 DEF EmptyPoll
    <3>2. CASE Dequeue(w) \/ Exit(w) \/ Receive(w) \/ Ignore(w)
      BY <3>2, LoopStep
    <3>3. CASE \/ BeginTransaction(w) \/ FirstSavepoint(w) \/ Discard(w) \/ SetSavepoint(w)
               \/ RollbackToSavepoint(w) \/ UndoSavepoint(w) \/ DropTransaction(w) \/ Commit(w)
      BY <3>3, SingleStep
    <3>4. CASE \/ EndOfText(w) \/ TakeKey(w) \/ TakeValue(w) \/ Apply(w)
               \/ SkipUnknown(w) \/ TakeCommand(w)
      BY <3>4, LoopBodyStep
    <3>5. CASE \/ LockOthers(w) \/ Locate(w) \/ MultiFirstSavepoint(w)
               \/ MultiSetSavepoint(w) \/ MultiRollback(w)
               \/ MultiUndoSavepoint(w) \/ MultiDropTransaction(w) \/ MultiCommit(w)
      BY <3>5, MultiStep
    <3>. QED
      BY <2>3, <3>1, <3>2, <3>3, <3>4, <3>5 DEF Worker, Handle
  <2>. QED
    BY <2>1, <2>2, <2>3 DEF Next
<1>3. AllAlone'
  BY <1>2, AloneNext
<1>4. NothingToDiscard'
  BY DiscardNext
<1>. QED
  BY <1>1, <1>2, <1>3, <1>4 DEF IInv, TypeOK

\* A database directory is opened with no transaction on it, or not at all.
LEMMA OpenTyping ==
  ASSUME NEW db \in Contents, NEW s \in open_database(db)
  PROVE  s \in Shard
<1>1. <<>> \in Seq(Contents)
  OBVIOUS
<1>2. PICK h \in {"open", "unopened"} :
        s = [handle |-> h, live |-> FALSE, spent |-> FALSE,
             view |-> Empty, saves |-> <<>>, db |-> db]
  BY DEF open_database
<1>. QED
  BY <1>1, <1>2, EmptyTyping DEF Shard, Handles

\* The state after main has opened the databases satisfies it.
LEMMA InitInvariant == Init => IInv
<1>. SUFFICES ASSUME Init PROVE IInv
  OBVIOUS
<1>. USE NumWorkersAssumption
<1>1. <<>> \in Texts(Words) /\ NoCommand \in Seq(Words)
  BY DEF Texts, NoCommand
<1>2. ControlOK
  <2>1. /\ pc \in [Workers -> Places]
        /\ left \in [Workers -> Nat]
        /\ bursts \in [Workers -> Nat]
        /\ ret \in [Workers -> {"ok", "err", "unset"}]
        /\ part \in [Workers -> Workers]
    BY DEF Init, Places, Between
  <2>2. doomed \in [Workers -> BOOLEAN] /\ done \in [Workers -> BOOLEAN]
    BY DEF Init
  <2>3. sig \in [Handlers -> -1..(NumWorkers + 1)] /\ copied \in [Handlers -> BOOLEAN]
    BY DEF Init
  <2>4. quit \in BOOLEAN /\ crashed \in BOOLEAN
    BY DEF Init
  <2>. QED
    BY <2>1, <2>2, <2>3, <2>4 DEF ControlOK
<1>3. TextOK
  <2>1. NoPacket \in PacketType
    BY <1>1 DEF NoPacket, PacketType, MsgTypes
  <2>2. <<>> \in Seq(Seq(Words \cup {"s", "b"}))
    OBVIOUS
  <2>. QED
    BY <1>1, <2>1, <2>2 DEF Init, TextOK
<1>4. StoreOK
  <2>1. shard \in [Workers -> Shard]
    BY OpenTyping, FirstDbAssumption DEF Init
  <2>. QED
    BY <2>1 DEF Init, StoreOK
<1>5. HandlerOK
  BY DEF Init, HandlerOK
<1>6. SavepointsBackCount
  BY DEF Init, SavepointsBackCount
<1>7. AllAlone /\ NothingToDiscard
  BY DEF Init, AllAlone, Alone, Executing, NothingToDiscard
<1>. QED
  BY <1>2, <1>3, <1>4, <1>5, <1>6, <1>7 DEF IInv, TypeOK

-----------------------------------------------------------------------------

\* The inductive invariant holds throughout every run of the server.
LEMMA Invariant == Spec => []IInv
<1>1. Init => IInv
  BY InitInvariant
<1>2. IInv /\ [Next]_vars => IInv'
  BY InvariantStep
<1>. QED
  BY <1>1, <1>2, PTL DEF Spec

\* Whatever packets arrive, however the store fails and whenever SIGINT comes,
\* the handlers keep every variable in its type: no command is empty, and the
\* partition an operation is applied to is one that exists.
THEOREM TypeCorrect == Spec => []TypeOK
<1>1. IInv => TypeOK
  BY DEF IInv
<1>. QED
  BY <1>1, Invariant, PTL

\* Whatever packets arrive, however the store fails, on an open partition with
\* a positive savepoint_count the transaction exists and has that many
\* savepoints (the expectation of datastore.c:289-290, for open databases).
THEOREM CountedSavepointsExist == Spec => []SavepointsBackCount
<1>1. IInv => SavepointsBackCount
  BY DEF IInv
<1>. QED
  BY <1>1, Invariant, PTL
=============================================================================
