----------------------------- MODULE LoadBalance -----------------------------
(***************************************************************************)
(* How an I/O lcore picks the worker of a packet (runtime.c): by the low   *)
(* bits of one of its bytes.  Workers are at most APP_MAX_WORKER_LCORES,   *)
(* which is 16, so that four bits of the byte decide.                      *)
(***************************************************************************)
EXTENDS Integers

MaxWorkerLcores == 16

\* The bit of weight v of x & y.
BothHave(v, x, y) == IF (x \div v) % 2 = 1 /\ (y \div v) % 2 = 1 THEN v ELSE 0

\* byte & (n - 1).  Where n is no power of two this is not byte % n: some of
\* the workers are never picked.
WorkerFor(byte, n) == BothHave(1, byte, n - 1) + BothHave(2, byte, n - 1)
                        + BothHave(4, byte, n - 1) + BothHave(8, byte, n - 1)
=============================================================================
