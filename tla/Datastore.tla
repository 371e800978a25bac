------------------------------ MODULE Datastore ------------------------------
(***************************************************************************)
(* One partition of the store: the RocksDB transaction database tx_db[i],  *)
(* the single transaction tx[i] that may be open on it, and the functions  *)
(* of datastore.c that act on the pair.                                    *)
(*                                                                         *)
(* An operation is the set of its possible outcomes, records [ret, shard]. *)
(* Every one of them first tests tx_db[i] and tx[i]; the calls into        *)
(* RocksDB behind those tests may report an error, which changes nothing,  *)
(* when FaultyOps says so.                                                 *)
(***************************************************************************)
EXTENDS Integers, Sequences

CONSTANTS Words,      \* what keys and values are made of
          NotFound,   \* in place of the value of a key that has none
          FaultyOps   \* the RocksDB calls that may report an error

ASSUME NotFoundAssumption == NotFound \notin Words
ASSUME FaultyOpsAssumption ==
  FaultyOps \subseteq {"open", "r", "w", "d", "b", "commit", "destroy"}

Contents == [Words -> Words \cup {NotFound}]
Empty    == [k \in Words |-> NotFound]

\* handle: tx_db[i] and db_path[i].  The pointer tx_db[i] is NULL unless the
\* handle is "open"; the path is NULL when close_database cleared it.
Handles == {"unopened", "open", "closed"}

\* live: tx[i] is not NULL.  view: what the transaction reads.  saves: its
\* stack of savepoints.  spent: a commit failed, after which RocksDB refuses
\* every further commit of the transaction.  db: the committed contents.
Shard == [handle : Handles, live : BOOLEAN, spent : BOOLEAN,
          view : Contents, saves : Seq(Contents), db : Contents]

NoTransaction(s) ==
  [s EXCEPT !.live = FALSE, !.spent = FALSE, !.view = Empty, !.saves = <<>>]

Usable(s) == s.handle = "open" /\ s.live

Ok(s)  == [ret |-> "ok", shard |-> s]
Err(s) == [ret |-> "err", shard |-> s]

\* The shape of every operation on an open transaction.
Attempt(op, s, t) ==
  IF Usable(s) THEN {Ok(t)} \cup (IF op \in FaultyOps THEN {Err(s)} ELSE {})
  ELSE {Err(s)}

begin_transaction(s) ==
  IF s.handle = "open" /\ ~s.live
  THEN {Ok([s EXCEPT !.live = TRUE, !.spent = FALSE, !.view = s.db, !.saves = <<>>])}
  ELSE {Err(s)}

Saved(s) == [s EXCEPT !.saves = Append(s.saves, s.view)]

\* Mutant: without the tests of tx_db and tx.
unchecked_savepoint(s) == {Ok(Saved(s))}

set_savepoint(s) == Attempt("s", s, Saved(s))

RolledBack(s) == [s EXCEPT !.view  = s.saves[Len(s.saves)],
                           !.saves = SubSeq(s.saves, 1, Len(s.saves) - 1)]

\* Mutant: the last savepoint cannot be rolled back to.
rollback_but_last(s) ==
  IF Len(s.saves) <= 1 THEN {Err(s)} ELSE Attempt("b", s, RolledBack(s))

\* RocksDB reports NotFound when there is no savepoint left.
rollback_to_last_savepoint(s) ==
  IF s.saves = <<>> THEN {Err(s)} ELSE Attempt("b", s, RolledBack(s))

\* Mutant: a key that is not found is no error (datastore.c:746 wonders).
lenient_read(k, s) == Attempt("r", s, s)

\* A key that is not found is an error.
read_keyval_pair(k, s) ==
  IF s.view[k] = NotFound THEN {Err(s)} ELSE Attempt("r", s, s)

\* Mutant: a put that bypasses the transaction.
write_through(k, v, s) == Attempt("w", s, [s EXCEPT !.view[k] = v, !.db[k] = v])

write_keyval_pair(k, v, s) == Attempt("w", s, [s EXCEPT !.view[k] = v])

delete_keyval_pair(k, s) == Attempt("d", s, [s EXCEPT !.view[k] = NotFound])

commit_transaction(s) ==
  IF ~Usable(s) \/ s.spent THEN {Err(s)}
  ELSE {Ok(NoTransaction([s EXCEPT !.db = s.view]))}
       \cup (IF "commit" \in FaultyOps THEN {Err([s EXCEPT !.spent = TRUE])} ELSE {})

\* Mutant: the transaction is never destroyed.
keep_transaction(s) == s

delete_transaction(s) == IF Usable(s) THEN NoTransaction(s) ELSE s

\* The three data commands; a read leaves the transaction as it is.
Operate(op, k, v, s) ==
  CASE op = "r" -> read_keyval_pair(k, s)
    [] op = "w" -> write_keyval_pair(k, v, s)
    [] op = "d" -> delete_keyval_pair(k, s)

open_database(db) ==
  {[handle |-> h, live |-> FALSE, spent |-> FALSE,
    view |-> Empty, saves |-> <<>>, db |-> db] :
      h \in {"open"} \cup (IF "open" \in FaultyOps THEN {"unopened"} ELSE {})}

\* Mutant: tx_db keeps pointing at the closed database.
close_but_keep(s) == s

\* close_database returns early, and leaves the path, when tx_db[i] is NULL.
close_database(s) ==
  IF s.handle = "open" THEN NoTransaction([s EXCEPT !.handle = "closed"]) ELSE s

\* close_database and then destroy_database on the saved path.
CloseAndDestroy(s) ==
  {[close_database(s) EXCEPT !.db = c] :
     c \in {Empty} \cup (IF "destroy" \in FaultyOps THEN {s.db} ELSE {})}
=============================================================================
