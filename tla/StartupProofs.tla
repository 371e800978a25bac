---------------------------- MODULE StartupProofs ----------------------------
(***************************************************************************)
(* For any lcores, ports, queues, limits and sockets, any command line and *)
(* any failing call of DPDK: what is accepted has bursts that fit, and the *)
(* rings, pools and tables are where the run time looks for them.          *)
(***************************************************************************)
EXTENDS LcoreInit, LcoreConfigProofs, FiniteSetTheorems, FunctionTheorems

\* --- The places of lcores in the order the loops meet them ---

LEMMA LcoresFinite == ASSUME NEW S \in SUBSET Lcores PROVE IsFiniteSet(S)
<1>1. NumLcores \in Nat
  BY LimitsAssumption
<1>2. IsFiniteSet(Lcores)
  BY <1>1, FS_Interval DEF Lcores
<1> QED
  BY <1>2, FS_Subset

\* Each lcore of a set has a place of its own, below the number of them all.
LEMMA Places ==
  ASSUME NEW S \in SUBSET Lcores
  PROVE  /\ Cardinality(S) \in Nat
         /\ \A l \in S : Before(l, S) \in 0..(Cardinality(S) - 1)
         /\ \A l, m \in S : Before(l, S) = Before(m, S) => l = m
<1> DEFINE Less(l) == {m \in S : m < l}
<1>1. IsFiniteSet(S) /\ Cardinality(S) \in Nat
  BY LcoresFinite, FS_CardinalityType
<1>2. S \subseteq Int
  BY LimitsAssumption DEF Lcores
<1>3. ASSUME NEW l \in S
      PROVE  Cardinality(Less(l)) \in 0..(Cardinality(S) - 1)
  <2>1. Less(l) \subseteq S /\ l \notin Less(l)
    BY <1>2
  <2>2. /\ IsFiniteSet(Less(l)) /\ Cardinality(Less(l)) <= Cardinality(S)
        /\ Cardinality(S) # Cardinality(Less(l))
    BY <1>1, <2>1, FS_Subset
  <2>3. Cardinality(Less(l)) \in Nat
    BY <2>2, FS_CardinalityType
  <2> QED
    BY <1>1, <2>2, <2>3
<1>4. ASSUME NEW l \in S, NEW m \in S, l < m
      PROVE  Cardinality(Less(l)) # Cardinality(Less(m))
  <2>1. IsFiniteSet(Less(m))
    BY LcoresFinite
  <2>2. Less(l) \subseteq Less(m)
    <3>1. \A a, b, c \in Int : a < b /\ b < c => a < c
      OBVIOUS
    <3> QED
      BY <1>2, <1>4, <3>1
  <2>3. l \in Less(m) /\ l \notin Less(l)
    BY <1>2, <1>4
  <2> QED
    BY <2>1, <2>2, <2>3, FS_Subset
<1>5. \A l, m \in S : l = m \/ l < m \/ m < l
  BY <1>2
<1> QED
  BY <1>1, <1>3, <1>4, <1>5 DEF Before

\* Every place below the number of them all is that of one lcore.
LEMMA PlacesTaken ==
  ASSUME NEW S \in SUBSET Lcores
  PROVE  \A k \in 0..(Cardinality(S) - 1) : \E l \in S : Before(l, S) = k
<1> DEFINE T == 0..(Cardinality(S) - 1)
           f == [l \in S |-> Before(l, S)]
<1>1. Cardinality(S) \in Nat
  BY Places
<1>2. IsFiniteSet(T) /\ Cardinality(T) = Cardinality(S)
  <2>1. IsFiniteSet(T) /\ Cardinality(T) = IF 0 > Cardinality(S) - 1 THEN 0
                                            ELSE Cardinality(S) - 1 - 0 + 1
    BY <1>1, FS_Interval
  <2> QED
    BY <1>1, <2>1
<1>3. f \in Injection(S, T)
  <2>1. f \in [S -> T]
    BY Places
  <2>2. \A a, b \in S : f[a] = f[b] => a = b
    BY Places
  <2> QED
    BY <2>1, <2>2 DEF Injection, IsInjective
<1>4. f \in Surjection(S, T)
  <2> HIDE DEF f, T
  <2> QED
    BY <1>2, <1>3, FS_Injection
<1> QED
  BY <1>4 DEF Surjection

\* The k-th lcore of a set is the one at place k - 1.
LEMMA OrderedFacts ==
  ASSUME NEW S \in SUBSET Lcores
  PROVE  /\ Len(Ordered(S)) = Cardinality(S)
         /\ \A k \in 1..Cardinality(S) : /\ Ordered(S)[k] \in S
                                         /\ Before(Ordered(S)[k], S) = k - 1
         /\ \A l \in S : /\ Before(l, S) + 1 \in 1..Cardinality(S)
                         /\ Ordered(S)[Before(l, S) + 1] = l
<1>1. Cardinality(S) \in Nat
  BY Places
<1>2. Len(Ordered(S)) = Cardinality(S)
  BY <1>1 DEF Ordered
<1>3. ASSUME NEW k \in 1..Cardinality(S)
      PROVE  /\ Ordered(S)[k] \in S /\ Before(Ordered(S)[k], S) = k - 1
  <2>1. k - 1 \in 0..(Cardinality(S) - 1)
    BY <1>1
  <2>2. \E l \in S : Before(l, S) = k - 1
    BY <2>1, PlacesTaken
  <2> QED
    BY <2>2 DEF Ordered
<1>4. ASSUME NEW l \in S
      PROVE  /\ Before(l, S) + 1 \in 1..Cardinality(S)
             /\ Ordered(S)[Before(l, S) + 1] = l
  <2>1. Before(l, S) \in 0..(Cardinality(S) - 1)
    BY Places
  <2>2. Before(l, S) + 1 \in 1..Cardinality(S) /\ Before(l, S) + 1 - 1 = Before(l, S)
    BY <1>1, <2>1
  <2> DEFINE k == Before(l, S) + 1
  <2>3. Ordered(S)[k] \in S /\ Before(Ordered(S)[k], S) = Before(l, S)
    <3>1. k \in 1..Cardinality(S) /\ k - 1 = Before(l, S)
      BY <1>1, <2>1
    <3> HIDE DEF k
    <3> QED
      BY <1>3, <3>1
  <2> QED
    BY <2>2, <2>3, Places
<1> QED
  BY <1>2, <1>3, <1>4

\* --- The command line ---

\* A burst size in every place but the TX read.
Fitting(b) == \A s \in Bursts \ {"txRead"} : b[s] \in 1..ArraySize

\* What a --bsz left is either refused or good; a default fills the gap.
BInv == /\ CInv
        /\ Alive => bursts = Null \/ Fitting(bursts)
        /\ phase = "accepted" => Fitting(bursts)

\* True of every width, but a power is beyond the provers.
WordsHoldNumbers == 2^Width \in Nat \ {0}

LEMMA BInvInit == IInit => BInv
<1> SUFFICES ASSUME IInit
             PROVE  BInv
  OBVIOUS
<1>1. Init /\ bursts = Null
  BY DEF IInit, TInit
<1> QED
  BY <1>1, CInvInit DEF BInv, Init

LEMMA DefaultsFit == Fitting(DefaultBursts)
BY DefaultsAssumption DEF Fitting

\* An option with numbers changes nothing of the roles.
LEMMA NumbersKeep ==
  ASSUME CInv, phase = "options", UNCHANGED app,
         phase' \in {"options", "refused", "crashed"}
  PROVE  CInv'
BY AppKept DEF Alive

LEMMA BszStep ==
  ASSUME WordsHoldNumbers, BInv, NEW v \in BszArgs, ParseBsz(v)
  PROVE  BInv'
<1>1. /\ phase = "options" /\ UNCHANGED app
      /\ bursts' = [s \in Bursts |-> Word(v[s])]
  BY DEF ParseBsz, Option
<1>2. \A s \in Bursts : bursts'[s] \in Nat
  <2>1. \A x \in Nat : Word(x) \in Nat
    <3> DEFINE w == 2^Width
    <3>1. w \in Nat \ {0}
      BY DEF WordsHoldNumbers
    <3> HIDE DEF w
    <3>2. \A x \in Nat : x % w \in Nat
      BY <3>1
    <3> QED
      BY <3>2 DEF Word, w
  <2>2. v \in [Bursts -> Nat]
    BY NumbersAssumption
  <2> QED
    BY <1>1, <2>1, <2>2
<1>3. phase' = "refused" \/ (phase' = "options" /\ Fitting(bursts'))
  <2>1. CASE \E s \in Bursts : bursts'[s] = 0
    BY <2>1 DEF ParseBsz, Option, Fail
  <2>2. CASE TooBig(bursts')
    BY <2>2 DEF ParseBsz, Option, Fail
  <2>3. CASE ~(\E s \in Bursts : bursts'[s] = 0) /\ ~TooBig(bursts')
    <3>1. phase' = "options"
      BY <1>1, <2>3 DEF ParseBsz, Option
    <3>2. ArraySize \in Nat
      BY NumbersAssumption
    <3>3. \A s \in Bursts \ {"txRead"} : bursts'[s] # 0 /\ ~(bursts'[s] > ArraySize)
      BY <2>3 DEF TooBig
    <3> QED
      BY <1>2, <3>1, <3>2, <3>3 DEF Fitting
  <2> QED
    BY <2>1, <2>2, <2>3
<1>4. CInv'
  BY <1>1, <1>3, NumbersKeep DEF BInv
<1> QED
  BY <1>3, <1>4 DEF BInv, Alive, Fitting

LEMMA RolesStep ==
  ASSUME BInv, ParseRoles
  PROVE  BInv'
<1>1. CInv'
  BY CInvStep DEF ParseRoles, BInv
<1>2. Next /\ bursts' = IF phase' = "accepted" /\ bursts = Null THEN DefaultBursts ELSE bursts
  BY DEF ParseRoles
<1>3. Alive /\ phase # "accepted"
  BY <1>2 DEF Next, Begin, UnknownOption, Malformed, StoredAstray, RxTuple, TxTuple, WTuple,
     LpmRule, End, Finish, Alive, Options
<1>4. bursts = Null \/ Fitting(bursts)
  BY <1>3 DEF BInv
<1> QED
  BY <1>1, <1>2, <1>4, DefaultsFit DEF BInv, Fitting, Alive

\* Options come only before the command line was accepted.
LEMMA NotAccepted == TNext => phase # "accepted"
BY DEF TNext, ParseRsz, ParseBsz, ParsePosLb, SizesMalformed, ParseRoles, Option, Next, Begin,
   UnknownOption, Malformed, StoredAstray, RxTuple, TxTuple, WTuple, LpmRule, End, Finish, Options

LEMMA TNextStep ==
  ASSUME WordsHoldNumbers, BInv, TNext
  PROVE  BInv'
<1>1. CASE \E v \in BszArgs : ParseBsz(v)
  BY <1>1, BszStep
<1>2. CASE ParseRoles
  BY <1>2, RolesStep
<1>3. CASE \/ \E v \in RszArgs : ParseRsz(v)
           \/ \E x \in PosArgs : ParsePosLb(x)
           \/ SizesMalformed
  <2>1. /\ phase = "options" /\ UNCHANGED <<app, bursts>>
        /\ phase' \in {"options", "refused", "crashed"}
    BY <1>3 DEF ParseRsz, ParsePosLb, SizesMalformed, Option, Fail, sizes
  <2>2. CInv'
    BY <2>1, NumbersKeep DEF BInv
  <2> QED
    BY <2>1, <2>2 DEF BInv, Fitting, Alive
<1> QED
  BY <1>1, <1>2, <1>3 DEF TNext

\* The roles are consistent whatever numbers come between.
LEMMA RolesConsistent == CInv /\ TNext => CInv'
<1> SUFFICES ASSUME CInv, TNext
             PROVE  CInv'
  OBVIOUS
<1>1. CASE ParseRoles
  BY <1>1, CInvStep DEF ParseRoles
<1>2. CASE \/ \E v \in RszArgs : ParseRsz(v)
           \/ \E v \in BszArgs : ParseBsz(v)
           \/ \E x \in PosArgs : ParsePosLb(x)
           \/ SizesMalformed
  <2>1. /\ phase = "options" /\ UNCHANGED app
        /\ phase' \in {"options", "refused", "crashed"}
    BY <1>2 DEF ParseRsz, ParseBsz, ParsePosLb, SizesMalformed, Option, Fail
  <2> QED
    BY <2>1, NumbersKeep
<1> QED
  BY <1>1, <1>2 DEF TNext

\* The parser's own state, whatever numbers come between.
LEMMA ControlConsistent == Control /\ TNext => Control'
<1> SUFFICES ASSUME Control, TNext
             PROVE  Control'
  OBVIOUS
<1>1. {-3, -6, -7, -8} \subseteq -11..0 /\ -6..-1 \subseteq -11..0
  OBVIOUS
<1>2. CASE ParseRoles
  BY <1>2, ControlStep DEF ParseRoles
<1>3. ASSUME NEW bad, NEW code \in -11..0, Option(bad, code)
      PROVE  Control'
  <2>1. count < MaxOptions /\ MaxOptions \in Nat /\ count \in 0..MaxOptions
    BY <1>3, LimitsAssumption DEF Option, Control
  <2>2. count + 1 \in 0..MaxOptions
    BY <2>1
  <2> QED
    BY <1>3, <2>2, FaultsTyped DEF Option, Control
<1>4. CASE \E v \in RszArgs : ParseRsz(v)
  BY <1>1, <1>3, <1>4 DEF ParseRsz
<1>5. CASE \E v \in BszArgs : ParseBsz(v)
  BY <1>1, <1>3, <1>5 DEF ParseBsz
<1>6. CASE \E x \in PosArgs : ParsePosLb(x)
  BY <1>1, <1>3, <1>6 DEF ParsePosLb
<1>7. CASE SizesMalformed
  BY <1>1, <1>7, FaultsTyped DEF SizesMalformed, Control
<1> QED
  BY <1>2, <1>4, <1>5, <1>6, <1>7 DEF TNext

\* What is parsed, and never again once the program starts to build on it.
Parsed == CInv /\ Control

LEMMA ParsedInit == IInit => Parsed
BY CInvInit, ControlInit DEF IInit, TInit, Parsed

LEMMA ParsedOrKept == INext => Configure \/ UNCHANGED vars
BY DEF INext, AssignWorkerIds, InitMbufPools, InitLpmTables, InitRingsRx, InitRingsTx, InitNic,
   NicsDone, SetWorkerCallback, Panic, Continue, tvars

LEMMA ParsedStep == Parsed /\ [INext]_ivars => Parsed'
<1> SUFFICES ASSUME Parsed, [INext]_ivars
             PROVE  Parsed'
  OBVIOUS
<1>1. CASE TNext
  BY <1>1, RolesConsistent, ControlConsistent DEF Parsed
<1>2. CASE UNCHANGED vars
  BY <1>2, CInvStep, ControlStep DEF Parsed
<1>3. TNext \/ UNCHANGED vars
  BY ParsedOrKept DEF Configure, ivars, tvars
<1> QED
  BY <1>1, <1>2, <1>3

\* --- What initialisation has made so far ---

RxLists == [l \in Lcores |-> IF l \in Receivers
              THEN [k \in 1..Len(Ordered(WorkerLcores)) |-> <<"rx", l, Ordered(WorkerLcores)[k]>>]
              ELSE <<>>]
InLists == [l \in Lcores |-> IF l \in WorkerLcores
              THEN [k \in 1..Len(Ordered(Receivers)) |-> <<"rx", Ordered(Receivers)[k], l>>]
              ELSE <<>>]
OutTable == [l \in Lcores |-> [p \in Ports |->
               IF l \in WorkerLcores /\ p \in txMask THEN <<"tx", l, p>> ELSE Null]]
TxTable == [l \in Lcores |-> [p \in Ports |-> [k \in 0..(MaxWorkers - 1) |->
              IF p \in txMask /\ l = LcoreForTx(p) /\ \E w \in WorkerLcores : id[w] = k
                THEN <<"tx", CHOOSE w \in WorkerLcores : id[w] = k, p>> ELSE Null]]]

Last    == {"nics", "callback", "ready"}
Running == {"pools", "tables", "ringsRx", "ringsTx"} \cup Last

IdsMade  == stage \in Running =>
              id = [l \in Lcores |-> IF l \in WorkerLcores THEN Before(l, WorkerLcores) ELSE 0]
PoolMade == stage \in {"tables", "ringsRx", "ringsTx"} \cup Last =>
              pool = OfSocket("pool", {l \in Lcores : type[l] # "disabled"})
TableMade == stage \in {"ringsRx", "ringsTx"} \cup Last => table = OfSocket("table", WorkerLcores)
RxRingsMade == stage \in {"ringsTx"} \cup Last =>
                 /\ Cardinality(WorkerLcores) <= MaxWorkers
                 /\ rxRings = RxLists /\ ringsIn = InLists
TxRingsMade == stage \in Last => ringsOut = OutTable /\ txRings = TxTable
PoolOfReader(p, q) ==
  \E l \in Lcores : Listed(<<p, q>>, queues[l]) /\ nic[p].pools[q] = <<"pool", SocketOf[l]>>
NicsMade == /\ DOMAIN nic = Ports /\ nextPort \in 0..NumPorts
            /\ stage = "config" => nextPort = 0
            /\ stage \in {"callback", "ready"} => nextPort = NumPorts
            /\ \A p \in Ports : p < nextPort =>
                 \A q \in QueuesOf(p) : PoolOfReader(p, q)
CallsMade == stage = "ready" => calls = WorkerLcores

\* After the command line the roles are as they were accepted; each function
\* relies on those before it.
SInv == /\ CInv
        /\ stage # "config" => phase = "accepted"
        /\ IdsMade /\ PoolMade /\ TableMade /\ RxRingsMade /\ TxRingsMade /\ NicsMade /\ CallsMade
        /\ AlgorithmicErrorsDead

LEMMA SInvInit == IInit => SInv
<1> SUFFICES ASSUME IInit
             PROVE  SInv
  OBVIOUS
<1>1. CInv
  BY CInvInit DEF IInit, TInit
<1>2. stage = "config" /\ nextPort = 0 /\ nic = [p \in Ports |-> Null]
  BY DEF IInit
<1>3. panic = Null
  BY DEF IInit
<1>4. NicsMade
  BY <1>2, LimitsAssumption DEF NicsMade, Ports
<1>5. AlgorithmicErrorsDead
  BY <1>3, NullAssumption DEF AlgorithmicErrorsDead
<1> QED
  BY <1>1, <1>2, <1>4, <1>5 DEF SInv, IdsMade, PoolMade, TableMade, RxRingsMade, TxRingsMade,
     CallsMade, Running, Last

\* What is derived from the roles stays with them.
LEMMA RolesFrozen ==
  ASSUME UNCHANGED tvars
  PROVE  /\ WorkerLcores' = WorkerLcores /\ Receivers' = Receivers
         /\ \A p : QueuesOf(p)' = QueuesOf(p)
         /\ nic' = nic => \A p, q : PoolOfReader(p, q) => PoolOfReader(p, q)'
         /\ \A S, what : OfSocket(what, S)' = OfSocket(what, S)
         /\ {l \in Lcores : type[l] # "disabled"}' = {l \in Lcores : type[l] # "disabled"}
         /\ OutTable' = OutTable
         /\ RxLists' = RxLists /\ InLists' = InLists
         /\ id' = id => TxTable' = TxTable
         /\ phase' = phase
         /\ CInv => CInv'
<1>1. /\ type' = type /\ queues' = queues /\ ports' = ports /\ rxMask' = rxMask
      /\ txMask' = txMask /\ phase' = phase /\ UNCHANGED app /\ UNCHANGED vars
  BY DEF tvars, vars, app
<1>2. WorkerLcores' = WorkerLcores /\ Receivers' = Receivers
  BY <1>1 DEF WorkerLcores, Receivers
<1>3. \A p : QueuesOf(p)' = QueuesOf(p)
  BY <1>1 DEF QueuesOf
<1>4. \A S, what : OfSocket(what, S)' = OfSocket(what, S)
  BY <1>1 DEF OfSocket, SocketUsed
<1>5. OutTable' = OutTable /\ RxLists' = RxLists /\ InLists' = InLists
  BY <1>1, <1>2 DEF OutTable, RxLists, InLists
<1>6. id' = id => TxTable' = TxTable
  BY <1>1, <1>2 DEF TxTable, LcoreForTx
<1>7. CInv => CInv'
  BY <1>1, CInvStep
<1>8. {l \in Lcores : type[l] # "disabled"}' = {l \in Lcores : type[l] # "disabled"}
  BY <1>1
<1>9. nic' = nic => \A p, q : PoolOfReader(p, q) => PoolOfReader(p, q)'
  BY <1>1 DEF PoolOfReader
<1> QED
  BY <1>1, <1>2, <1>3, <1>4, <1>5, <1>6, <1>7, <1>8, <1>9

\* A port that is enabled has one sender, which is the one init.c finds.
LEMMA SenderFound ==
  ASSUME CInv, Alive, NEW p \in txMask
  PROVE  /\ HasLcoreForTx(p)
         /\ LcoreForTx(p) \in Lcores /\ Listed(p, ports[LcoreForTx(p)])
         /\ \A m \in Lcores : Listed(p, ports[m]) => m = LcoreForTx(p)
<1>1. PICK l \in Lcores : Listed(p, ports[l])
  BY DEF CInv, OneSenderPerPort
<1>2. \A m \in Lcores : Listed(p, ports[m]) => m = l
  BY <1>1 DEF CInv, OneSenderPerPort, OnceEach, Listed
<1>3. ports[l] # <<>>
  BY <1>1 DEF Listed
<1>4. type[l] = "io"
  BY <1>3 DEF CInv, UnionIntact
<1>5. l <= l
  BY LimitsAssumption DEF Lcores
<1>6. LcoreForTx(p) = l
  BY <1>1, <1>2, <1>4, <1>5 DEF LcoreForTx
<1> QED
  BY <1>1, <1>2, <1>4, <1>6 DEF HasLcoreForTx

\* A queue that is marked has one reader, which is the one init.c finds.
LEMMA ReaderFound ==
  ASSUME CInv, Alive, NEW p, NEW q, <<p, q>> \in rxMask
  PROVE  /\ LcoreForRx(p, q) \in Lcores /\ type[LcoreForRx(p, q)] = "io"
         /\ Listed(<<p, q>>, queues[LcoreForRx(p, q)])
<1>1. PICK l \in Lcores : Listed(<<p, q>>, queues[l])
  BY DEF CInv, OneReaderPerQueue
<1>2. \A m \in Lcores : Listed(<<p, q>>, queues[m]) => m = l
  BY <1>1 DEF CInv, OneReaderPerQueue, OnceEach, Listed
<1>3. queues[l] # <<>>
  BY <1>1 DEF Listed
<1>4. type[l] = "io"
  BY <1>3 DEF CInv, UnionIntact
<1>5. l <= l
  BY LimitsAssumption DEF Lcores
<1>6. LcoreForRx(p, q) = l
  BY <1>1, <1>2, <1>4, <1>5 DEF LcoreForRx
<1> QED
  BY <1>1, <1>4, <1>6

\* An lcore with a role has the pool, or the table, of its socket.
LEMMA MadeForSocket ==
  ASSUME NEW S \in SUBSET Lcores, NEW l \in S, type[l] # "disabled",
         NEW what \in {"pool", "table"}
  PROVE  OfSocket(what, S)[l] = <<what, SocketOf[l]>>
BY DEF OfSocket, SocketUsed

\* The ring of each place of each port: the id of a worker is its place.
LEMMA TxRingsFound ==
  ASSUME CInv, Alive, NEW p \in txMask,
         Cardinality(WorkerLcores) <= MaxWorkers,
         id = [l \in Lcores |-> IF l \in WorkerLcores THEN Before(l, WorkerLcores) ELSE 0]
  PROVE  /\ \A w \in WorkerLcores :
              /\ id[w] \in 0..(MaxWorkers - 1)
              /\ TxTable[LcoreForTx(p)][p][id[w]] = <<"tx", w, p>>
         /\ \A k \in 0..(Cardinality(WorkerLcores) - 1) : TxTable[LcoreForTx(p)][p][k] # Null
<1>1. WorkerLcores \in SUBSET Lcores
  BY DEF WorkerLcores
<1>2. p \in Ports /\ LcoreForTx(p) \in Lcores
  BY SenderFound DEF CInv, Typed
<1>3. \A w \in WorkerLcores : id[w] = Before(w, WorkerLcores)
  BY <1>1
<1>4. ASSUME NEW w \in WorkerLcores
      PROVE  /\ id[w] \in 0..(MaxWorkers - 1)
             /\ TxTable[LcoreForTx(p)][p][id[w]] = <<"tx", w, p>>
  <2>1. id[w] \in 0..(Cardinality(WorkerLcores) - 1) /\ Cardinality(WorkerLcores) \in Nat
    BY <1>1, <1>3, Places
  <2>2. id[w] \in 0..(MaxWorkers - 1)
    BY <2>1, LimitsAssumption
  <2>3. \A v \in WorkerLcores : id[v] = id[w] => v = w
    BY <1>1, <1>3, Places
  <2>4. (CHOOSE v \in WorkerLcores : id[v] = id[w]) = w
    BY <2>3
  <2>5. TxTable[LcoreForTx(p)][p][id[w]] = <<"tx", CHOOSE v \in WorkerLcores : id[v] = id[w], p>>
    BY <1>2, <2>2 DEF TxTable
  <2> QED
    BY <2>2, <2>4, <2>5
<1>5. ASSUME NEW k \in 0..(Cardinality(WorkerLcores) - 1)
      PROVE  TxTable[LcoreForTx(p)][p][k] # Null
  <2>1. PICK w \in WorkerLcores : id[w] = k
    BY <1>1, <1>3, PlacesTaken
  <2>2. w \in Lcores
    BY <1>1
  <2> QED
    BY <1>2, <1>4, <2>1, <2>2, NullAssumption
<1> QED
  BY <1>4, <1>5

\* --- One lemma for each function of init.c ---

LEMMA ConfigureStep == SInv /\ Configure => SInv'
<1> SUFFICES ASSUME SInv, Configure
             PROVE  SInv'
  OBVIOUS
<1>1. TNext /\ UNCHANGED <<stage, panic, built>>
  BY DEF Configure
<1>2. stage = "config"
  BY <1>1, NotAccepted DEF SInv
<1>3. CInv'
  BY <1>1, RolesConsistent DEF SInv
<1>4. NicsMade'
  <2>1. nextPort = 0 /\ nextPort' = 0 /\ nic' = nic
    BY <1>1, <1>2 DEF SInv, NicsMade, built
  <2> QED
    BY <1>1, <1>2, <2>1 DEF SInv, NicsMade, Ports
<1> QED
  BY <1>1, <1>2, <1>3, <1>4 DEF SInv, IdsMade, PoolMade, TableMade, RxRingsMade, TxRingsMade,
     CallsMade, AlgorithmicErrorsDead, Running, Last

\* A panic, or the end where lists would overflow.
LEMMA StopStep ==
  ASSUME SInv, stage # "config", stage' \in {"panic", "crashed"}, UNCHANGED <<tvars, built>>,
         AlgorithmicErrorsDead'
  PROVE  SInv'
<1>1. NicsMade'
  <2>1. nextPort' = nextPort /\ nic' = nic
    BY DEF built
  <2>2. /\ \A p : QueuesOf(p)' = QueuesOf(p)
        /\ \A p, q : PoolOfReader(p, q) => PoolOfReader(p, q)'
    BY <2>1, RolesFrozen
  <2> QED
    BY <2>1, <2>2 DEF SInv, NicsMade
<1> QED
  BY <1>1, RolesFrozen DEF SInv, IdsMade, PoolMade, TableMade, RxRingsMade, TxRingsMade, CallsMade,
     Running, Last

LEMMA PanicStep ==
  ASSUME SInv, stage # "config", NEW why, Panic(why),
         why \notin {"I/O RX rings", "worker input rings", "no I/O core to handle TX",
                     "I/O TX rings"}
  PROVE  SInv'
<1>1. stage' = "panic" /\ panic' = why /\ UNCHANGED <<tvars, built>>
  BY DEF Panic
<1>2. AlgorithmicErrorsDead'
  BY <1>1 DEF AlgorithmicErrorsDead
<1> QED
  BY <1>1, <1>2, StopStep

LEMMA NicsKept ==
  ASSUME NicsMade, UNCHANGED <<tvars, nic, nextPort>>,
         stage' # "config", stage' = "ready" => stage = "callback",
         stage' = "callback" => nextPort = NumPorts
  PROVE  NicsMade'
BY RolesFrozen DEF NicsMade

LEMMA IdsStep == SInv /\ AssignWorkerIds => SInv'
<1> SUFFICES ASSUME SInv, AssignWorkerIds
             PROVE  SInv'
  OBVIOUS
<1>1. stage = "config" /\ phase = "accepted" /\ stage' = "pools" /\ UNCHANGED <<tvars, panic>>
  BY DEF AssignWorkerIds, Continue
<1>2. id' = [l \in Lcores |-> IF l \in WorkerLcores THEN Before(l, WorkerLcores) ELSE 0]
  BY DEF AssignWorkerIds
<1>3. NicsMade'
  BY <1>1, NicsKept DEF AssignWorkerIds, SInv
<1> QED
  BY <1>1, <1>2, <1>3, RolesFrozen DEF SInv, IdsMade, PoolMade, TableMade, RxRingsMade,
     TxRingsMade, CallsMade, AlgorithmicErrorsDead, Running, Last

LEMMA PoolsStep == SInv /\ InitMbufPools => SInv'
<1> SUFFICES ASSUME SInv, InitMbufPools
             PROVE  SInv'
  OBVIOUS
<1>1. CASE Panic("pool")
  BY <1>1, PanicStep DEF InitMbufPools
<1>2. CASE /\ pool' = OfSocket("pool", {l \in Lcores : type[l] # "disabled"})
           /\ Continue("tables")
           /\ UNCHANGED <<id, table, rings, nic, nextPort, calls>>
  <2>1. stage = "pools" /\ stage' = "tables" /\ UNCHANGED <<tvars, panic>>
    BY <1>2 DEF InitMbufPools, Continue
  <2>2. NicsMade'
    BY <1>2, <2>1, NicsKept DEF SInv
  <2> QED
    BY <1>2, <2>1, <2>2, RolesFrozen DEF SInv, IdsMade, PoolMade, TableMade, RxRingsMade,
       TxRingsMade, CallsMade, AlgorithmicErrorsDead, Running, Last
<1> QED
  BY <1>1, <1>2 DEF InitMbufPools

LEMMA TablesStep == SInv /\ InitLpmTables => SInv'
<1> SUFFICES ASSUME SInv, InitLpmTables
             PROVE  SInv'
  OBVIOUS
<1>1. CASE Panic("table")
  BY <1>1, PanicStep DEF InitLpmTables
<1>2. CASE /\ table' = OfSocket("table", WorkerLcores)
           /\ Continue("ringsRx")
           /\ UNCHANGED <<id, pool, rings, nic, nextPort, calls>>
  <2>1. stage = "tables" /\ stage' = "ringsRx" /\ UNCHANGED <<tvars, panic>>
    BY <1>2 DEF InitLpmTables, Continue
  <2>2. NicsMade'
    BY <1>2, <2>1, NicsKept DEF SInv
  <2> QED
    BY <1>2, <2>1, <2>2, RolesFrozen DEF SInv, IdsMade, PoolMade, TableMade, RxRingsMade,
       TxRingsMade, CallsMade, AlgorithmicErrorsDead, Running, Last
<1> QED
  BY <1>1, <1>2 DEF InitLpmTables

\* As many rings as the lcores counted again, so the comparisons succeed.
LEMMA RingsRxStep == SInv /\ InitRingsRx => SInv'
<1> SUFFICES ASSUME SInv, InitRingsRx
             PROVE  SInv'
  OBVIOUS
<1> DEFINE W == Len(Ordered(WorkerLcores))
           R == Len(Ordered(Receivers))
<1>1. WorkerLcores \in SUBSET Lcores /\ Receivers \in SUBSET Lcores
  BY DEF WorkerLcores, Receivers
<1>2. W = Cardinality(WorkerLcores) /\ R = Cardinality(Receivers)
      /\ Cardinality(WorkerLcores) \in Nat /\ Cardinality(Receivers) \in Nat
  BY <1>1, OrderedFacts, Places
<1>3. stage = "ringsRx"
  BY DEF InitRingsRx
<1>4. /\ \A l \in Receivers : Len(RxLists[l]) = Cardinality(WorkerLcores)
      /\ \A w \in WorkerLcores : Len(InLists[w]) = Cardinality(Receivers)
  BY <1>1, <1>2 DEF RxLists, InLists
<1>5. \/ Panic("ring")
      \/ Panic("too many worker lcores")
      \/ Continue("crashed") /\ UNCHANGED built
      \/ /\ W <= MaxWorkers
         /\ \/ \E l \in Receivers : Len(RxLists[l]) # Cardinality(WorkerLcores)
            \/ \E w \in WorkerLcores : Len(InLists[w]) # Cardinality(Receivers)
            \/ /\ rxRings' = RxLists /\ ringsIn' = InLists
               /\ Continue("ringsTx")
               /\ UNCHANGED <<id, pool, table, ringsOut, txRings, nic, nextPort, calls>>
  BY DEF InitRingsRx, RxLists, InLists
<1>6. CASE Panic("ring") \/ Panic("too many worker lcores")
  BY <1>3, <1>6, PanicStep
<1>7. CASE Continue("crashed") /\ UNCHANGED built
  BY <1>3, <1>7, StopStep DEF Continue, SInv, AlgorithmicErrorsDead
<1>8. CASE /\ W <= MaxWorkers
           /\ rxRings' = RxLists /\ ringsIn' = InLists
           /\ Continue("ringsTx")
           /\ UNCHANGED <<id, pool, table, ringsOut, txRings, nic, nextPort, calls>>
  <2>1. stage' = "ringsTx" /\ UNCHANGED <<tvars, panic>>
    BY <1>8 DEF Continue
  <2>2. NicsMade'
    BY <1>8, <2>1, NicsKept DEF SInv
  <2>3. RxRingsMade'
    BY <1>2, <1>8, <2>1, RolesFrozen DEF RxRingsMade
  <2> QED
    BY <1>3, <1>8, <2>1, <2>2, <2>3, RolesFrozen DEF SInv, IdsMade, PoolMade, TableMade,
       TxRingsMade, CallsMade, AlgorithmicErrorsDead, Running, Last
<1> QED
  BY <1>4, <1>5, <1>6, <1>7, <1>8

\* Every enabled port has a sender, and every worker a place there.
LEMMA RingsTxStep == SInv /\ InitRingsTx => SInv'
<1> SUFFICES ASSUME SInv, InitRingsTx
             PROVE  SInv'
  OBVIOUS
<1> DEFINE Missing == \E l \in Lcores : \E i \in 1..Len(ports[l]) :
                        \E k \in 0..(Cardinality(WorkerLcores) - 1) :
                          TxTable[l][ports[l][i]][k] = Null
<1>1. stage = "ringsTx" /\ phase = "accepted" /\ Alive
  BY DEF InitRingsTx, SInv, Alive
<1>2. /\ Cardinality(WorkerLcores) <= MaxWorkers
      /\ id = [l \in Lcores |-> IF l \in WorkerLcores THEN Before(l, WorkerLcores) ELSE 0]
  BY <1>1 DEF SInv, RxRingsMade, IdsMade, Running
<1>3. \A p \in txMask : HasLcoreForTx(p)
  BY <1>1, SenderFound DEF SInv
<1>4. ~Missing
  <2> SUFFICES ASSUME NEW l \in Lcores, NEW i \in 1..Len(ports[l]),
                      NEW k \in 0..(Cardinality(WorkerLcores) - 1)
               PROVE  TxTable[l][ports[l][i]][k] # Null
    OBVIOUS
  <2>1. ports[l][i] \in txMask /\ Listed(ports[l][i], ports[l])
    BY DEF SInv, CInv, Marked, Listed
  <2>2. l = LcoreForTx(ports[l][i])
    BY <1>1, <2>1, SenderFound DEF SInv
  <2> DEFINE p == ports[l][i]
  <2>3. TxTable[LcoreForTx(p)][p][k] # Null
    <3>1. p \in txMask
      BY <2>1
    <3> HIDE DEF p
    <3> QED
      BY <1>1, <1>2, <3>1, TxRingsFound DEF SInv
  <2> QED
    BY <2>2, <2>3
<1>5. \/ Panic("ring")
      \/ (\E p \in txMask : ~HasLcoreForTx(p))
      \/ Missing
      \/ /\ ringsOut' = OutTable /\ txRings' = TxTable
         /\ Continue("nics")
         /\ UNCHANGED <<id, pool, table, rxRings, ringsIn, nic, nextPort, calls>>
  BY DEF InitRingsTx, OutTable, TxTable
<1>6. CASE Panic("ring")
  BY <1>1, <1>6, PanicStep
<1>7. CASE /\ ringsOut' = OutTable /\ txRings' = TxTable
           /\ Continue("nics")
           /\ UNCHANGED <<id, pool, table, rxRings, ringsIn, nic, nextPort, calls>>
  <2>1. stage' = "nics" /\ UNCHANGED <<tvars, panic>>
    BY <1>7 DEF Continue
  <2>2. NicsMade'
    BY <1>7, <2>1, NicsKept DEF SInv
  <2>3. TxRingsMade'
    BY <1>7, <2>1, RolesFrozen DEF TxRingsMade
  <2> QED
    BY <1>1, <1>7, <2>1, <2>2, <2>3, RolesFrozen DEF SInv, IdsMade, PoolMade, TableMade,
       RxRingsMade, CallsMade, AlgorithmicErrorsDead, Running, Last
<1> QED
  BY <1>3, <1>4, <1>5, <1>6, <1>7

\* While ports are set up nothing of the rings changes.
LEMMA NicStep ==
  ASSUME SInv, stage = "nics", stage' = "nics", UNCHANGED <<vars, panic, id, pool, table, rings, calls>>,
         NicsMade'
  PROVE  SInv'
<1>1. CInv'
  BY CInvStep DEF SInv
<1>2. WorkerLcores' = WorkerLcores /\ Receivers' = Receivers
  BY DEF vars, app, WorkerLcores, Receivers
<1>3. /\ OutTable' = OutTable /\ TxTable' = TxTable
      /\ RxLists' = RxLists /\ InLists' = InLists
  BY <1>2 DEF vars, app, OutTable, TxTable, LcoreForTx, RxLists, InLists
<1>4. /\ \A S, what : OfSocket(what, S)' = OfSocket(what, S)
      /\ {l \in Lcores : type[l] # "disabled"}' = {l \in Lcores : type[l] # "disabled"}
  BY DEF vars, app, OfSocket, SocketUsed
<1>5. phase' = phase
  BY DEF vars
<1> QED
  BY <1>1, <1>2, <1>3, <1>4, <1>5 DEF SInv, IdsMade, PoolMade, TableMade, RxRingsMade,
     TxRingsMade, CallsMade, AlgorithmicErrorsDead, Running, Last, rings

LEMMA InitNicStep == SInv /\ InitNic => SInv'
<1> SUFFICES ASSUME SInv, InitNic, NEW p, p = nextPort
             PROVE  SInv'
  OBVIOUS
<1> DEFINE qs == QueuesOf(p)
<1>1. stage = "nics" /\ p \in Ports /\ phase = "accepted" /\ Alive
  BY DEF InitNic, SInv, Alive
<1>2. DOMAIN nic = Ports /\ p \in 0..NumPorts /\ p + 1 \in 0..NumPorts
  BY <1>1, LimitsAssumption DEF SInv, NicsMade, Ports
<1>3. \A r \in Ports : r < p + 1 => r < p \/ r = p
  BY LimitsAssumption, <1>1 DEF Ports
<1>4. CASE Panic("nic")
  BY <1>1, <1>4, PanicStep
<1>5. CASE /\ qs = {} /\ nextPort' = p + 1
           /\ UNCHANGED <<tvars, stage, panic, id, pool, table, rings, nic, calls>>
  <2>1. /\ \A r : QueuesOf(r)' = QueuesOf(r)
        /\ \A r, q : PoolOfReader(r, q) => PoolOfReader(r, q)'
    BY <1>5, RolesFrozen
  <2>2. NicsMade'
    BY <1>1, <1>2, <1>3, <1>5, <2>1 DEF SInv, NicsMade
  <2> QED
    BY <1>1, <1>5, <2>2, NicStep DEF tvars
<1>6. CASE \E rx, tx :
           /\ nic' = [nic EXCEPT ![p] =
                 [rx |-> rx, tx |-> tx, pools |-> [q \in qs |-> pool[LcoreForRx(p, q)]]]]
           /\ nextPort' = p + 1
           /\ UNCHANGED <<vars, stage, panic, id, pool, table, rings, calls>>
  <2>1. \A r : QueuesOf(r)' = QueuesOf(r)
    BY <1>6 DEF vars, app, QueuesOf
  <2>2. \A q \in qs : PoolOfReader(p, q)'
    <3> SUFFICES ASSUME NEW q \in qs
                 PROVE  PoolOfReader(p, q)'
      OBVIOUS
    <3>1. nic'[p].pools[q] = pool[LcoreForRx(p, q)]
      BY <1>1, <1>2, <1>6
    <3>2. <<p, q>> \in rxMask
      BY DEF QueuesOf
    <3>3. /\ LcoreForRx(p, q) \in Lcores /\ type[LcoreForRx(p, q)] = "io"
          /\ Listed(<<p, q>>, queues[LcoreForRx(p, q)])
      BY <1>1, <3>2, ReaderFound DEF SInv
    <3>4. pool = OfSocket("pool", {l \in Lcores : type[l] # "disabled"})
      BY <1>1 DEF SInv, PoolMade, Last
    <3>5. OfSocket("pool", {l \in Lcores : type[l] # "disabled"})[LcoreForRx(p, q)]
            = <<"pool", SocketOf[LcoreForRx(p, q)]>>
      BY <3>3, MadeForSocket
    <3>6. queues' = queues
      BY <1>6 DEF vars, app
    <3> QED
      BY <3>1, <3>3, <3>4, <3>5, <3>6 DEF PoolOfReader
  <2>3. \A r \in Ports : r # p => nic'[r] = nic[r]
    BY <1>2, <1>6
  <2>4. ASSUME NEW r \in Ports, r < p, NEW q \in QueuesOf(r)
        PROVE  PoolOfReader(r, q)'
    <3>1. r # p /\ PoolOfReader(r, q)
      BY <1>1, <2>4, LimitsAssumption DEF SInv, NicsMade, Ports
    <3>2. queues' = queues
      BY <1>6 DEF vars, app
    <3> QED
      BY <2>3, <3>1, <3>2 DEF PoolOfReader
  <2>5. NicsMade'
    BY <1>1, <1>2, <1>3, <1>6, <2>1, <2>2, <2>4 DEF SInv, NicsMade
  <2> QED
    BY <1>1, <1>6, <2>5, NicStep
<1> QED
  <2>1. \/ Panic("nic")
        \/ /\ qs = {} /\ nextPort' = p + 1
           /\ UNCHANGED <<tvars, stage, panic, id, pool, table, rings, nic, calls>>
        \/ \E rx, tx :
           /\ nic' = [nic EXCEPT ![p] =
                 [rx |-> rx, tx |-> tx, pools |-> [q \in qs |-> pool[LcoreForRx(p, q)]]]]
           /\ nextPort' = p + 1
           /\ UNCHANGED <<vars, stage, panic, id, pool, table, rings, calls>>
    BY DEF InitNic
  <2> QED
    BY <1>4, <1>5, <1>6, <2>1

LEMMA LaunchStep == SInv /\ (NicsDone \/ SetWorkerCallback) => SInv'
<1> SUFFICES ASSUME SInv, NicsDone \/ SetWorkerCallback
             PROVE  SInv'
  OBVIOUS
<1>1. /\ UNCHANGED <<tvars, panic, id, pool, table, rings, nic, nextPort>>
      /\ \/ stage = "nics" /\ stage' = "callback" /\ nextPort = NumPorts
         \/ stage = "callback" /\ stage' = "ready" /\ calls' = WorkerLcores
  BY DEF NicsDone, SetWorkerCallback, Continue, built
<1>2. NicsMade'
  BY <1>1, NicsKept DEF SInv
<1> QED
  BY <1>1, <1>2, RolesFrozen DEF SInv, IdsMade, PoolMade, TableMade, RxRingsMade, TxRingsMade,
     CallsMade, AlgorithmicErrorsDead, Running, Last, rings

LEMMA SInvStep == SInv /\ [INext]_ivars => SInv'
<1> SUFFICES ASSUME SInv, [INext]_ivars
             PROVE  SInv'
  OBVIOUS
<1>1. CASE INext
  BY <1>1, ConfigureStep, IdsStep, PoolsStep, TablesStep, RingsRxStep, RingsTxStep, InitNicStep,
     LaunchStep DEF INext
<1>2. CASE UNCHANGED ivars
  <2>1. UNCHANGED <<tvars, stage, panic, id, pool, table, rings, nic, nextPort, calls>>
    BY <1>2 DEF ivars, built
  <2>2. NicsMade'
    BY <2>1, RolesFrozen DEF SInv, NicsMade
  <2> QED
    BY <2>1, <2>2, RolesFrozen DEF SInv, IdsMade, PoolMade, TableMade, RxRingsMade, TxRingsMade,
       CallsMade, AlgorithmicErrorsDead, Running, Last, rings
<1> QED
  BY <1>1, <1>2

\* --- What the lcores find ---

\* The roles of LcoreConfig, which initialisation finds and never touches: one
\* reader for every queue, one sender for every port, one role for every lcore,
\* and a way out for every answer (config.c:182-225, 274-315, 485-518).
THEOREM RolesThroughout ==
  ISpec => [](TypeOK /\ OneReaderPerQueue /\ OneSenderPerPort /\ UnionIntact /\ AnswersHaveASender)
<1>1. Parsed => TypeOK /\ OneReaderPerQueue /\ OneSenderPerPort /\ UnionIntact
  BY DEF Parsed, CInv, Control, Typed, TypeOK
<1>2. Parsed => AnswersHaveASender
  BY AcceptedAnswers DEF Parsed
<1> QED
  BY <1>1, <1>2, ParsedInit, ParsedStep, PTL DEF ISpec

\* An lcore that has a role keeps it, through the other options and through all
\* of app_init (config.c:204-208, 296-300, 375-379).
THEOREM RolesKeptThroughout == ISpec => RolesStay
<1>1. Parsed /\ [INext]_ivars
        => [\A l \in Lcores : type[l] # "disabled" => type'[l] = type[l]]_vars
  <2> SUFFICES ASSUME Parsed, [INext]_ivars, vars' # vars
               PROVE  \A l \in Lcores : type[l] # "disabled" => type'[l] = type[l]
    OBVIOUS
  <2>1. TNext
    BY ParsedOrKept DEF Configure, ivars, tvars
  <2>2. Next \/ UNCHANGED app
    BY <2>1 DEF TNext, ParseRoles, ParseRsz, ParseBsz, ParsePosLb, SizesMalformed, Option
  <2>3. CASE UNCHANGED app
    BY <2>3 DEF app
  <2> QED
    BY <2>2, <2>3, RoleKept DEF Parsed
<1> QED
  BY <1>1, ParsedInit, ParsedStep, PTL DEF ISpec, RolesStay

\* Any accepted command line leaves bursts that are not empty and fit the
\* arrays, but for the TX read (config.c:556-614, 769-791).
THEOREM BurstsFit == ASSUME WordsHoldNumbers PROVE ISpec => []BurstsFitArrays
<1>1. BInv => BurstsFitArrays
  BY DEF BInv, Fitting, BurstsFitArrays
<1>2. BInv /\ [INext]_ivars => BInv'
  <2> SUFFICES ASSUME BInv, [INext]_ivars
               PROVE  BInv'
    OBVIOUS
  <2>1. CASE Configure
    BY <2>1, TNextStep DEF Configure
  <2>2. CASE UNCHANGED tvars
    BY <2>2, RolesFrozen DEF BInv, Fitting, Alive, tvars, sizes
  <2>3. CASE InitNic
    <3>1. UNCHANGED <<vars, bursts>>
      BY <2>3 DEF InitNic, Panic, tvars, sizes
    <3> QED
      BY <3>1, CInvStep DEF BInv, Fitting, Alive, vars
  <2> QED
    BY <2>1, <2>2, <2>3 DEF INext, ivars, AssignWorkerIds, InitMbufPools, InitLpmTables,
       InitRingsRx, InitRingsTx, NicsDone, SetWorkerCallback, Panic, Continue
<1> QED
  BY <1>1, <1>2, BInvInit, PTL DEF ISpec

\* The k-th ring of an lcore that receives leads to the worker of partition k
\* (runtime.c:230, init.c:79-81, 239-243).
THEOREM RingsAgree == ISpec => []RingsConnect
<1>1. SInv => RingsConnect
  <2> SUFFICES ASSUME SInv, Ready, NEW l \in Receivers, NEW w \in WorkerLcores
               PROVE  /\ Len(rxRings[l]) = Cardinality(WorkerLcores)
                      /\ \E i \in 1..Len(ringsIn[w]) : ringsIn[w][i] = rxRings[l][id[w] + 1]
    BY DEF RingsConnect
  <2>1. /\ rxRings = RxLists /\ ringsIn = InLists
        /\ id = [m \in Lcores |-> IF m \in WorkerLcores THEN Before(m, WorkerLcores) ELSE 0]
    BY DEF SInv, Ready, RxRingsMade, IdsMade, Running, Last
  <2>2. /\ WorkerLcores \in SUBSET Lcores /\ Receivers \in SUBSET Lcores
        /\ Cardinality(WorkerLcores) \in Nat /\ Cardinality(Receivers) \in Nat
    BY Places DEF WorkerLcores, Receivers
  <2>3. /\ Len(Ordered(WorkerLcores)) = Cardinality(WorkerLcores)
        /\ Len(Ordered(Receivers)) = Cardinality(Receivers)
    BY <2>2, OrderedFacts
  <2>4. /\ id[w] + 1 \in 1..Cardinality(WorkerLcores)
        /\ Ordered(WorkerLcores)[id[w] + 1] = w
    BY <2>1, <2>2, OrderedFacts
  <2>5. rxRings[l][id[w] + 1] = <<"rx", l, w>> /\ Len(rxRings[l]) = Cardinality(WorkerLcores)
    BY <2>1, <2>2, <2>3, <2>4 DEF RxLists
  <2>6. PICK i \in 1..Cardinality(Receivers) : Ordered(Receivers)[i] = l
    BY <2>2, OrderedFacts
  <2>7. ringsIn[w][i] = <<"rx", l, w>> /\ Len(ringsIn[w]) = Cardinality(Receivers)
    BY <2>1, <2>2, <2>3, <2>6 DEF InLists
  <2> QED
    BY <2>5, <2>7
<1> QED
  BY <1>1, SInvInit, SInvStep, PTL DEF ISpec

\* No ring has two producers or two consumers (init.c:231, 323).
THEOREM RingsHaveSingleEnds == ISpec => []SingleEnds
<1>1. SInv => SingleEnds
  <2> SUFFICES ASSUME SInv, Ready
               PROVE  SingleEnds
    BY DEF SingleEnds
  <2>1. /\ rxRings = RxLists /\ ringsIn = InLists
        /\ ringsOut = OutTable /\ txRings = TxTable
    BY DEF SInv, Ready, RxRingsMade, TxRingsMade, Last
  <2>2. /\ WorkerLcores \in SUBSET Lcores /\ Receivers \in SUBSET Lcores
        /\ Cardinality(WorkerLcores) \in Nat /\ Cardinality(Receivers) \in Nat
    BY Places DEF WorkerLcores, Receivers
  <2>3. ASSUME NEW S \in {WorkerLcores, Receivers}, NEW i \in 1..Cardinality(S),
               NEW j \in 1..Cardinality(S), Ordered(S)[i] = Ordered(S)[j]
        PROVE  i = j
    <3>1. Before(Ordered(S)[i], S) = i - 1 /\ Before(Ordered(S)[j], S) = j - 1
      BY <2>2, OrderedFacts
    <3>2. i - 1 = j - 1
      BY <2>3, <3>1
    <3> QED
      BY <2>2, <3>2
  <2>4. /\ Len(Ordered(WorkerLcores)) = Cardinality(WorkerLcores)
        /\ Len(Ordered(Receivers)) = Cardinality(Receivers)
    BY <2>2, OrderedFacts
  <2>5. OnceEach(rxRings)
    BY <2>1, <2>2, <2>3, <2>4 DEF OnceEach, RxLists
  <2>6. OnceEach(ringsIn)
    BY <2>1, <2>2, <2>3, <2>4 DEF OnceEach, InLists
  <2>7. ASSUME NEW l \in Lcores, NEW m \in Lcores, NEW p \in Ports, NEW q \in Ports,
               ringsOut[l][p] # Null, ringsOut[l][p] = ringsOut[m][q]
        PROVE  l = m /\ p = q
    BY <2>1, <2>7 DEF OutTable
  <2>8. ASSUME NEW l \in Lcores, NEW m \in Lcores, NEW p \in Ports, NEW q \in Ports,
               NEW j \in 0..(MaxWorkers - 1), NEW k \in 0..(MaxWorkers - 1),
               txRings[l][p][j] # Null, txRings[l][p][j] = txRings[m][q][k]
        PROVE  l = m /\ p = q /\ j = k
    <3>1. ASSUME NEW a \in Lcores, NEW b \in Ports, NEW c \in 0..(MaxWorkers - 1),
                 txRings[a][b][c] # Null
          PROVE  /\ a = LcoreForTx(b)
                 /\ \E w \in WorkerLcores : id[w] = c /\ txRings[a][b][c] = <<"tx", w, b>>
      <4>1. /\ a = LcoreForTx(b) /\ \E w \in WorkerLcores : id[w] = c
            /\ txRings[a][b][c] = <<"tx", CHOOSE w \in WorkerLcores : id[w] = c, b>>
        BY <2>1, <3>1 DEF TxTable
      <4> QED
        BY <4>1
    <3>2. txRings[m][q][k] # Null
      BY <2>8
    <3>3. PICK v \in WorkerLcores : id[v] = j /\ txRings[l][p][j] = <<"tx", v, p>>
      BY <2>8, <3>1
    <3>4. PICK w \in WorkerLcores : id[w] = k /\ txRings[m][q][k] = <<"tx", w, q>>
      BY <3>1, <3>2
    <3>5. v = w /\ p = q
      <4>1. <<"tx", v, p>> = <<"tx", w, q>>
        BY <2>8, <3>3, <3>4
      <4> QED
        BY <4>1
    <3>6. l = LcoreForTx(p) /\ m = LcoreForTx(q)
      BY <2>8, <3>1, <3>2
    <3> QED
      BY <3>3, <3>4, <3>5, <3>6
  <2> QED
    BY <2>5, <2>6, <2>7, <2>8 DEF SingleEnds
<1> QED
  BY <1>1, SInvInit, SInvStep, PTL DEF ISpec

\* Whatever was accepted, a worker finds a ring for each answer, and its other
\* end is with the sender of the port (runtime.c:484-515, init.c:331-332).
THEOREM AnswersFindRings == ISpec => []AnswersHaveARing
<1>1. SInv => AnswersHaveARing
  <2> SUFFICES ASSUME SInv, Ready, NEW w \in WorkerLcores, NEW p \in PortsOfAnswers
               PROVE  /\ ringsOut[w][p] # Null
                      /\ \E l \in Lcores : Listed(p, ports[l]) /\ txRings[l][p][id[w]] = ringsOut[w][p]
    BY DEF AnswersHaveARing
  <2>1. /\ ringsOut = OutTable /\ txRings = TxTable
        /\ Cardinality(WorkerLcores) <= MaxWorkers
        /\ id = [m \in Lcores |-> IF m \in WorkerLcores THEN Before(m, WorkerLcores) ELSE 0]
        /\ phase = "accepted" /\ Alive
    BY DEF SInv, Ready, RxRingsMade, TxRingsMade, IdsMade, Running, Last, Alive
  <2>2. p \in txMask
    BY <2>1, AnswersLeave DEF SInv
  <2>3. p \in Ports /\ w \in Lcores
    BY <2>2 DEF SInv, CInv, Typed, WorkerLcores
  <2>4. ringsOut[w][p] = <<"tx", w, p>>
    BY <2>1, <2>2, <2>3 DEF OutTable
  <2>5. txRings[LcoreForTx(p)][p][id[w]] = <<"tx", w, p>>
    BY <2>1, <2>2, TxRingsFound DEF SInv
  <2>6. LcoreForTx(p) \in Lcores /\ Listed(p, ports[LcoreForTx(p)])
    BY <2>1, <2>2, SenderFound DEF SInv
  <2> QED
    BY <2>3, <2>4, <2>5, <2>6, NullAssumption
<1> QED
  BY <1>1, SInvInit, SInvStep, PTL DEF ISpec

\* Every queue has the pool of the socket of its reader, every worker the table
\* of its own and its handler (init.c:112-119, 178-185, 504-520, 569-580).
THEOREM PoolsAreThere == ISpec => []PoolsThere
<1>1. SInv => PoolsThere
  <2> SUFFICES ASSUME SInv, Ready
               PROVE  PoolsThere
    BY DEF PoolsThere
  <2>1. \A p \in Ports : p < nextPort
    BY LimitsAssumption DEF SInv, Ready, NicsMade, Ports
  <2>2. \A p \in Ports : \A q \in QueuesOf(p) :
          \E l \in Lcores : Listed(<<p, q>>, queues[l]) /\ nic[p].pools[q] = <<"pool", SocketOf[l]>>
    BY <2>1 DEF SInv, NicsMade, PoolOfReader
  <2>3. ASSUME NEW w \in WorkerLcores
        PROVE  table[w] = <<"table", SocketOf[w]>> /\ w \in calls
    <3>1. table = OfSocket("table", WorkerLcores) /\ calls = WorkerLcores
      BY DEF SInv, Ready, TableMade, CallsMade, Last
    <3>2. type[w] # "disabled" /\ WorkerLcores \in SUBSET Lcores
      BY DEF WorkerLcores
    <3> QED
      BY <3>1, <3>2, MadeForSocket
  <2> QED
    BY <2>2, <2>3 DEF PoolsThere
<1> QED
  BY <1>1, SInvInit, SInvStep, PTL DEF ISpec

\* The comparisons of init.c but the one on the number of workers never fail
\* (init.c:257-275, 307-357).
THEOREM ComparisonsHold == ISpec => []AlgorithmicErrorsDead
<1>1. SInv => AlgorithmicErrorsDead
  BY DEF SInv
<1> QED
  BY <1>1, SInvInit, SInvStep, PTL DEF ISpec
==============================================================================
