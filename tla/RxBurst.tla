------------------------------- MODULE RxBurst -------------------------------
(***************************************************************************)
(* How an I/O lcore hands out a burst (app_lcore_io_rx).  The burst is in  *)
(* mbuf_in.array; four registers run ahead of the hand-out so that headers *)
(* are prefetched: mbuf_1_x and data_1_x hold the next two packets,        *)
(* mbuf_2_x the two after them.  A loop hands out packets in pairs, a tail *)
(* hands out the last ones singly.  Packets are numbered 1, 2, ... in the  *)
(* order of arrival; a packet's data is named by the packet's number.      *)
(*                                                                         *)
(* The registers keep their values from burst to burst, and the slots of   *)
(* the array behind a short burst keep those of the bursts before it.      *)
(***************************************************************************)
EXTENDS Integers, Sequences

CONSTANTS ArraySize,   \* APP_MBUF_ARRAY_SIZE
          ReadBurst,   \* bsz_rd, burst_size_io_rx_read
          MaxPackets   \* bound: packets that arrive in a run

\* parse_arg_bsz refuses a read burst longer than the array.
ASSUME BurstAssumption == /\ ArraySize \in Nat \ {0, 1, 2, 3}
                          /\ ReadBurst \in 1..ArraySize
                          /\ MaxPackets \in Nat

NoMbuf == 0            \* a null pointer
Stray  == -1           \* what lies behind the array in memory

\* array[j + 5] is read while j + 3 < n, so two slots behind the array are too.
Slots == 0..(ArraySize + 1)
Held  == Int

VARIABLES
  pc,       \* "poll", "pairs" or "tail"
  arrived,  \* packets received so far
  n, j,     \* n_mbufs, j
  array,    \* mbuf_in.array and the two words behind it
  mbuf,     \* the registers mbuf_1_0, mbuf_1_1, mbuf_2_0, mbuf_2_1
  data,     \* the registers data_1_0, data_1_1
  out       \* history: what was handed out, and by which data it was sorted

vars == <<pc, arrived, n, j, array, mbuf, data, out>>

Handed == [mbuf : Held, data : Held]

Init == /\ pc = "poll"
        /\ arrived = 0 /\ n = 0 /\ j = 0
        /\ array = [s \in Slots |-> IF s < ArraySize THEN NoMbuf ELSE Stray]
        /\ mbuf = [r \in 1..4 |-> NoMbuf]
        /\ data = [r \in 1..2 |-> NoMbuf]
        /\ out = <<>>

\* rte_eth_rx_burst fills the first k slots, and the registers are loaded.
Burst(k) ==
  /\ pc = "poll"
  /\ arrived + k <= MaxPackets
  /\ array' = [s \in Slots |-> IF s < k THEN arrived + s + 1 ELSE array[s]]
  /\ mbuf' = [r \in 1..4 |-> array'[r - 1]]
  /\ data' = [data EXCEPT ![1] = array'[0],
                          ![2] = IF k > 1 THEN array'[1] ELSE @]
  /\ arrived' = arrived + k
  /\ n' = k /\ j' = 0
  /\ pc' = "pairs"
  /\ UNCHANGED out

\* Mutant: the data registers do not move up with the packets.
HandOutPairUnmoved ==
  /\ pc = "pairs"
  /\ j + 3 < n
  /\ out' = out \o <<[mbuf |-> mbuf[1], data |-> data[1]],
                     [mbuf |-> mbuf[2], data |-> data[2]]>>
  /\ mbuf' = <<mbuf[3], mbuf[4], array[j + 4], array[j + 5]>>
  /\ j' = j + 2
  /\ UNCHANGED <<pc, arrived, n, array, data>>

\* One turn of the loop: hand out two, move the registers up, read two ahead.
HandOutPair ==
  /\ pc = "pairs"
  /\ j + 3 < n
  /\ out' = out \o <<[mbuf |-> mbuf[1], data |-> data[1]],
                     [mbuf |-> mbuf[2], data |-> data[2]]>>
  /\ mbuf' = <<mbuf[3], mbuf[4], array[j + 4], array[j + 5]>>
  /\ data' = <<mbuf[3], mbuf[4]>>
  /\ j' = j + 2
  /\ UNCHANGED <<pc, arrived, n, array>>

EndOfPairs ==
  /\ pc = "pairs"
  /\ j + 3 >= n
  /\ pc' = "tail"
  /\ UNCHANGED <<arrived, n, j, array, mbuf, data, out>>

\* One turn of the tail: hand out one, by data read from the packet itself.
HandOutLast ==
  /\ pc = "tail"
  /\ j < n
  /\ out' = Append(out, [mbuf |-> mbuf[1], data |-> mbuf[1]])
  /\ mbuf' = <<mbuf[2], mbuf[3], mbuf[4], mbuf[4]>>
  /\ j' = j + 1
  /\ UNCHANGED <<pc, arrived, n, array, data>>

\* Mutant: the tail ends one packet early.
EndOfBurstEarly ==
  /\ pc = "tail"
  /\ j + 1 >= n
  /\ pc' = "poll"
  /\ UNCHANGED <<arrived, n, j, array, mbuf, data, out>>

EndOfBurst ==
  /\ pc = "tail"
  /\ j >= n
  /\ pc' = "poll"
  /\ UNCHANGED <<arrived, n, j, array, mbuf, data, out>>

Next == \/ \E k \in 1..ReadBurst : Burst(k)
        \/ HandOutPair \/ EndOfPairs \/ HandOutLast \/ EndOfBurst

Spec == Init /\ [][Next]_vars

-----------------------------------------------------------------------------
TypeOK == /\ pc \in {"poll", "pairs", "tail"}
          /\ arrived \in Nat /\ n \in 0..ReadBurst /\ j \in Nat
          /\ array \in [Slots -> Held]
          /\ mbuf \in [1..4 -> Held]
          /\ data \in [1..2 -> Held]
          /\ out \in Seq(Handed)

\* Packets leave once each and in the order they came, and each one is sorted
\* by its own data: neither a packet of an earlier burst nor a word behind the
\* array is handed out or looked into (runtime.c:208-259).
InOrder == \A i \in 1..Len(out) : out[i] = [mbuf |-> i, data |-> i]

\* A burst of any length is handed out to the last packet before the next is
\* read (runtime.c:243).
Complete == pc = "poll" => Len(out) = arrived

\* The inductive invariant: where the registers stand in the burst.
Base == arrived - n
Ahead(k) == j + k < n
Registers ==
  pc # "poll" =>
    /\ \A s \in 0..(n - 1) : array[s] = Base + s + 1
    /\ \A r \in 1..4 : Ahead(r - 1) => mbuf[r] = Base + j + r
    /\ pc = "pairs" => \A r \in 1..2 : Ahead(r - 1) => data[r] = Base + j + r
    /\ pc = "tail" => j + 3 >= n

HandedSoFar == /\ n <= arrived
               /\ pc # "poll" => j <= n /\ Len(out) = Base + j

RxInv == TypeOK /\ Registers /\ HandedSoFar /\ InOrder /\ Complete

==============================================================================
