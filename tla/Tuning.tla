-------------------------------- MODULE Tuning --------------------------------
(***************************************************************************)
(* --rsz, --bsz and --pos-lb, among the options of LcoreConfig (config.c): *)
(* numbers of any length come out of strtoul, are cut to 32 bits, stored,  *)
(* and then compared with the limits.  Each option may come more than      *)
(* once; at the end of the command line what is absent has its default.    *)
(***************************************************************************)
EXTENDS LcoreConfig

CONSTANTS
  Width,                      \* bits of an uint32_t
  ArraySize,                  \* APP_MBUF_ARRAY_SIZE
  MaxPos,                     \* 64
  RszArgs, BszArgs, PosArgs,  \* the numbers of --rsz, --bsz and --pos-lb
  DefaultBursts,              \* APP_DEFAULT_BURST_SIZE_*
  DefaultRings,               \* APP_DEFAULT_NIC_RX_RING_SIZE and the others
  DefaultPos,                 \* APP_DEFAULT_IO_RX_LB_POS
  Null                        \* not given, or not there

Bursts == {"rxRead", "rxWrite", "workerRead", "workerWrite", "txRead", "txWrite"}
Rings  == {"nicRx", "ringRx", "ringTx", "nicTx"}

\* The #error lines of main.h:178-226.
ASSUME DefaultsAssumption == /\ DefaultBursts \in [Bursts -> 1..ArraySize]
                             /\ 2 * DefaultBursts["workerRead"] <= ArraySize
                             /\ DefaultRings \in [Rings -> Nat \ {0}]
                             /\ DefaultPos \in 0..(MaxPos - 1)
ASSUME NumbersAssumption  == /\ {Width, ArraySize, MaxPos} \subseteq Nat
                             /\ RszArgs \subseteq [Rings -> Nat]
                             /\ BszArgs \subseteq [Bursts -> Nat]
                             /\ PosArgs \subseteq Nat

VARIABLES bursts,     \* burst_size_*
          ringSizes,  \* nic_rx_ring_size and the others
          posLb       \* pos_lb

sizes == <<bursts, ringSizes, posLb>>
tvars == <<vars, sizes>>

Word(x) == x % 2^Width

TInit == Init /\ bursts = Null /\ ringSizes = Null /\ posLb = Null

\* One more option, which is refused for a reason or not.
Option(bad, code) ==
  /\ phase = "options" /\ count < MaxOptions
  /\ UNCHANGED app
  /\ IF bad THEN Fail(code) ELSE count' = count + 1 /\ UNCHANGED <<phase, n, err, given>>

ParseRsz(v) ==
  /\ ringSizes' = [r \in Rings |-> Word(v[r])]
  /\ Option(\E r \in Rings : ringSizes'[r] = 0, -3)
  /\ UNCHANGED <<bursts, posLb>>

\* Mutant: one burst size is not among those compared.
TooBigForgotten(b) == \E s \in {"rxRead", "workerRead", "workerWrite", "txWrite"} : b[s] > ArraySize

TooBig(b) == \/ \E s \in Bursts \ {"txRead"} : b[s] > ArraySize
             \/ Word(2 * b["txRead"]) > ArraySize

ParseBsz(v) ==
  /\ bursts' = [s \in Bursts |-> Word(v[s])]
  /\ LET zero == \E s \in Bursts : bursts'[s] = 0
     IN  Option(zero \/ TooBig(bursts'), IF zero THEN -7 ELSE -8)
  /\ UNCHANGED <<ringSizes, posLb>>

ParsePosLb(x) ==
  /\ Option(Word(x) >= MaxPos, -3)
  /\ posLb' = IF Word(x) >= MaxPos THEN posLb ELSE Word(x)
  /\ UNCHANGED <<bursts, ringSizes>>

\* Numbers that are missing, or are none: see Malformed and StoredAstray.
SizesMalformed ==
  /\ phase = "options" /\ count < MaxOptions
  /\ \/ \E code \in -6..-1 : Fail(code)
     \/ phase' = "crashed" /\ UNCHANGED <<n, err, given, count>>
  /\ UNCHANGED <<app, sizes>>

\* The other options, and the defaults at the end.
ParseRoles ==
  /\ Next
  /\ LET Default(v, d) == IF phase' = "accepted" /\ v = Null THEN d ELSE v
     IN  /\ bursts'    = Default(bursts, DefaultBursts)
         /\ ringSizes' = Default(ringSizes, DefaultRings)
         /\ posLb'     = Default(posLb, DefaultPos)

TNext == \/ \E v \in RszArgs : ParseRsz(v)
         \/ \E v \in BszArgs : ParseBsz(v)
         \/ \E x \in PosArgs : ParsePosLb(x)
         \/ SizesMalformed \/ ParseRoles

-----------------------------------------------------------------------------
\* What the lcores rely on (BurstsAssumption of Pipeline), but for the reads
\* of an I/O TX lcore, twice of which is compared after it was cut to a word:
\* no burst is empty or longer than the array it is put in, whatever was given,
\* given twice or left out (config.c:556-614, 769-791).
BurstsFitArrays ==
  phase = "accepted" => \A s \in Bursts \ {"txRead"} : bursts[s] \in 1..ArraySize
=============================================================================
