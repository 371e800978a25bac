---------------------------- MODULE AtomicShards ----------------------------
(***************************************************************************)
(* What the server promises about its partitions, whatever its packets,    *)
(* threads and store do.  A partition changes in one step, in which its    *)
(* own worker answers a packet; a packet that is to be dropped is never    *)
(* answered, and changes nothing.  A partition that is being closed can    *)
(* only be emptied, and one whose shutdown is over stays as it is.         *)
(***************************************************************************)
CONSTANTS Shards,     \* one per worker
          Contents,   \* what a partition may hold
          Empty

VARIABLES store,      \* contents of each partition
          phase,      \* what its worker does with a packet
          status      \* of its database

vars == <<store, phase, status>>

Init ==
  /\ store  \in [Shards -> Contents]
  /\ phase  = [s \in Shards |-> "idle"]
  /\ status \in [Shards -> {"serving", "closing"}]   \* a database may fail to open

Enter(s, p) == phase' = [phase EXCEPT ![s] = p]

\* A packet for nobody here is condemned as it comes.
Start(s) ==
  /\ phase[s] = "idle"
  /\ Enter(s, "working") \/ Enter(s, "dropping")
  /\ UNCHANGED <<store, status>>

Decide(s) ==
  /\ phase[s] = "working"
  /\ Enter(s, "answering") \/ Enter(s, "dropping")
  /\ UNCHANGED <<store, status>>

Answer(s) ==
  /\ phase[s] = "answering"
  /\ Enter(s, "idle")
  /\ store' \in [Shards -> Contents]
  /\ \A r \in Shards : r # s \/ status[s] # "serving" => store'[r] = store[r]
  /\ UNCHANGED status

Drop(s) ==
  /\ phase[s] \in {"working", "dropping"}
  /\ Enter(s, "idle")
  /\ UNCHANGED <<store, status>>

\* The database is closed and its files are deleted, or could not be.  It is
\* "closing" as long as somebody may try to delete them again.
Close(s) ==
  /\ status[s] # "retired"
  /\ \E now \in {"closing", "retired"} : status' = [status EXCEPT ![s] = now]
  /\ store' \in {store, [store EXCEPT ![s] = Empty]}
  /\ UNCHANGED phase

\* The end of the shutdown.
Finish ==
  /\ \A s \in Shards : status[s] # "serving"
  /\ status' = [s \in Shards |-> "retired"]
  /\ UNCHANGED <<store, phase>>

Next ==
  \/ \E s \in Shards : Start(s) \/ Decide(s) \/ Answer(s) \/ Drop(s) \/ Close(s)
  \/ Finish

Spec == Init /\ [][Next]_vars
=============================================================================
