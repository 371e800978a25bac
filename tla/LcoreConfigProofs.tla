-------------------------- MODULE LcoreConfigProofs --------------------------
(***************************************************************************)
(* For any lcores, ports, queues and limits, and options in any number and *)
(* order: every queue has one reader and every port one sender, no lcore   *)
(* has two roles, and what is accepted can send its answers.               *)
(***************************************************************************)
EXTENDS LcoreConfig, TLAPS

\* What is marked is what is listed.
Marked(lists, mask) == \A l \in Lcores : \A i \in 1..Len(lists[l]) : lists[l][i] \in mask

Typed == /\ type \in [Lcores -> {"disabled", "io", "worker"}]
         /\ queues \in [Lcores -> Seq(Ports \X Queues)]
         /\ ports \in [Lcores -> Seq(Ports)]
         /\ rxMask \subseteq Ports \X Queues /\ txMask \subseteq Ports
         /\ rules \in Seq(Ports)

\* The masks are needed because they, not the lists, are what a new tuple is
\* compared with; the two checks at the end, because nothing later undoes them.
CInv == /\ Typed
        /\ OneReaderPerQueue /\ Marked(queues, rxMask)
        /\ OneSenderPerPort /\ Marked(ports, txMask)
        /\ UnionIntact
        /\ phase = "accepted" => LpmConsistent /\ RxIsTx

\* The list of lcore l has grown by x.
Grown(f, g, S, mask, x, l) ==
  /\ g \in [Lcores -> Seq(S)] /\ OnceEach(g) /\ Marked(g, mask \cup {x})
  /\ \A y : (y = x \/ \E m \in Lcores : Listed(y, f[m])) => \E m \in Lcores : Listed(y, g[m])
  /\ \A m \in Lcores \ {l} : g[m] = f[m]

\* A list takes an element that was not marked (config.c:223-225, 314-315).
LEMMA AppendKeeps ==
  ASSUME NEW S, NEW f \in [Lcores -> Seq(S)], NEW mask, OnceEach(f), Marked(f, mask),
         NEW x \in S, x \notin mask, NEW l \in Lcores,
         NEW g, g = [f EXCEPT ![l] = Append(@, x)]
  PROVE  Grown(f, g, S, mask, x, l)
<1>1. f[l] \in Seq(S) /\ Len(f[l]) \in Nat
  OBVIOUS
<1>2. /\ g \in [Lcores -> Seq(S)]
      /\ g[l] = Append(f[l], x) /\ \A m \in Lcores \ {l} : g[m] = f[m]
  BY <1>1
<1>3. /\ Len(g[l]) = Len(f[l]) + 1 /\ g[l][Len(f[l]) + 1] = x
      /\ \A i \in 1..Len(f[l]) : g[l][i] = f[l][i]
  BY <1>1, <1>2
<1>4. ASSUME NEW m \in Lcores, NEW i \in 1..Len(g[m])
      PROVE  \/ m = l /\ i = Len(f[l]) + 1 /\ g[m][i] = x
             \/ i \in 1..Len(f[m]) /\ g[m][i] = f[m][i] /\ g[m][i] \in mask
  <2>1. CASE m = l
    <3>1. i \in 1..Len(f[l]) \/ i = Len(f[l]) + 1
      BY <1>1, <1>3, <2>1
    <3>2. CASE i \in 1..Len(f[l])
      BY <1>3, <2>1, <3>2 DEF Marked
    <3>3. CASE i = Len(f[l]) + 1
      BY <1>3, <2>1, <3>3
    <3> QED
      BY <3>1, <3>2, <3>3
  <2>2. CASE m # l
    BY <1>2, <2>2 DEF Marked
  <2> QED
    BY <2>1, <2>2
<1>5. OnceEach(g)
  <2> SUFFICES ASSUME NEW m \in Lcores, NEW k \in Lcores,
                      NEW i \in 1..Len(g[m]), NEW j \in 1..Len(g[k]), g[m][i] = g[k][j]
               PROVE  m = k /\ i = j
    BY DEF OnceEach
  <2>1. CASE g[m][i] = x
    BY <1>4, <2>1
  <2>2. CASE g[m][i] # x
    <3>1. /\ i \in 1..Len(f[m]) /\ j \in 1..Len(f[k])
          /\ f[m][i] = f[k][j]
      BY <1>4, <2>2
    <3> QED
      BY <3>1 DEF OnceEach
  <2> QED
    BY <2>1, <2>2
<1>6. Marked(g, mask \cup {x})
  BY <1>4 DEF Marked
<1>7. ASSUME NEW y, y = x \/ \E m \in Lcores : Listed(y, f[m])
      PROVE  \E m \in Lcores : Listed(y, g[m])
  <2>1. CASE y = x
    <3>1. Len(f[l]) + 1 \in 1..Len(g[l])
      BY <1>1, <1>3
    <3> QED
      BY <1>3, <2>1, <3>1 DEF Listed
  <2>2. CASE \E m \in Lcores : Listed(y, f[m])
    <3>1. PICK m \in Lcores : \E i \in 1..Len(f[m]) : f[m][i] = y
      BY <2>2 DEF Listed
    <3>2. PICK i \in 1..Len(f[m]) : f[m][i] = y
      BY <3>1
    <3>3. CASE m = l
      <4>1. i \in 1..Len(g[l]) /\ g[l][i] = y
        BY <1>1, <1>3, <3>2, <3>3
      <4> QED
        BY <4>1 DEF Listed
    <3>4. CASE m # l
      BY <1>2, <3>2, <3>4 DEF Listed
    <3> QED
      BY <3>3, <3>4
  <2> QED
    BY <1>7, <2>1, <2>2
<1> QED
  BY <1>2, <1>5, <1>6, <1>7 DEF Grown

\* Before the first option no lcore has a role and no queue or port is marked.
LEMMA CInvInit == Init => CInv
<1> SUFFICES ASSUME Init
             PROVE  CInv
  OBVIOUS
<1>1. Typed
  BY DEF Init, Typed
<1>2. \A l \in Lcores : queues[l] = <<>> /\ ports[l] = <<>> /\ 1..Len(queues[l]) = {}
                        /\ 1..Len(ports[l]) = {}
  BY DEF Init
<1>3. OneReaderPerQueue /\ OneSenderPerPort /\ Marked(queues, rxMask) /\ Marked(ports, txMask)
  BY <1>2 DEF Init, OneReaderPerQueue, OneSenderPerPort, OnceEach, Marked
<1>4. UnionIntact
  BY <1>2 DEF UnionIntact
<1>5. phase # "accepted"
  BY DEF Init
<1> QED
  BY <1>1, <1>3, <1>4, <1>5 DEF CInv

\* Steps that change nothing in app keep the invariant if they do not revive
\* the program, and check before they accept.
LEMMA AppKept ==
  ASSUME CInv, UNCHANGED app, Alive' => Alive,
         phase' = "accepted" => phase = "accepted" \/ (LpmConsistent /\ RxIsTx)
  PROVE  CInv'
<1>1. /\ type' = type /\ queues' = queues /\ ports' = ports
      /\ rxMask' = rxMask /\ txMask' = txMask /\ rules' = rules
  BY DEF app
<1>2. Typed' /\ Marked(queues, rxMask)' /\ Marked(ports, txMask)' /\ UnionIntact'
  BY <1>1 DEF CInv, Typed, Marked, UnionIntact
<1>3. OneReaderPerQueue' /\ OneSenderPerPort'
  BY <1>1 DEF CInv, OneReaderPerQueue, OneSenderPerPort, OnceEach, Listed
<1>4. LpmConsistent' = LpmConsistent /\ RxIsTx' = RxIsTx
  BY <1>1 DEF LpmConsistent, RxIsTx
<1> QED
  BY <1>2, <1>3, <1>4 DEF CInv

\* A tuple of --rx (config.c:170-232).
LEMMA RxStep ==
  ASSUME CInv, NEW p \in PortArgs, NEW q \in QueueArgs, NEW l \in LcoreArgs, RxTuple(p, q, l)
  PROVE  CInv'
<1> DEFINE x == <<p, q>>
<1>1. phase = "rx" /\ UNCHANGED <<ports, txMask, rules>>
  BY DEF RxTuple
<1>2. Alive /\ phase' # "accepted"
  <2>1. phase' \in {"refused", phase}
    BY DEF RxTuple, Fail, FailTaken, Counted
  <2> QED
    BY <1>1, <2>1 DEF Alive
<1>3. CASE UNCHANGED <<type, queues, rxMask>>
  <2>1. UNCHANGED app
    BY <1>1, <1>3 DEF app
  <2> QED
    BY <1>2, <2>1, AppKept
<1>4. CASE /\ p \in Ports /\ q \in Queues /\ x \notin rxMask
           /\ rxMask' = rxMask \cup {x} /\ UNCHANGED queues
           /\ phase' = "refused"
           /\ \/ UNCHANGED type
              \/ l \in Enabled /\ type' = [type EXCEPT ![l] = "io"]
  <2>1. Typed'
    BY <1>1, <1>4, EnabledAssumption DEF CInv, Typed
  <2>2. ~Alive'
    BY <1>4 DEF Alive
  <2>3. OneReaderPerQueue' /\ Marked(queues, rxMask)'
    BY <1>4, <2>2 DEF CInv, OneReaderPerQueue, OnceEach, Marked
  <2>4. OneSenderPerPort' /\ Marked(ports, txMask)'
    BY <1>1, <2>2 DEF CInv, OneSenderPerPort, OnceEach, Marked
  <2>5. UnionIntact'
    BY <1>1, <1>4 DEF CInv, UnionIntact, Typed
  <2> QED
    BY <1>2, <2>1, <2>3, <2>4, <2>5 DEF CInv
<1>5. CASE /\ p \in Ports /\ q \in Queues /\ x \notin rxMask
           /\ rxMask' = rxMask \cup {x}
           /\ l \in Enabled /\ type' = [type EXCEPT ![l] = "io"]
           /\ queues' = [queues EXCEPT ![l] = Append(@, x)]
  <2>1. l \in Lcores /\ x \in Ports \X Queues
    BY <1>5, EnabledAssumption
  <2>2. /\ queues \in [Lcores -> Seq(Ports \X Queues)] /\ OnceEach(queues)
        /\ Marked(queues, rxMask)
    BY DEF CInv, Typed, OneReaderPerQueue
  <2>3. x \notin rxMask /\ queues' = [queues EXCEPT ![l] = Append(@, x)]
    BY <1>5
  <2> HIDE DEF x
  <2>4. /\ queues' \in [Lcores -> Seq(Ports \X Queues)] /\ OnceEach(queues')
        /\ Marked(queues', rxMask \cup {x})
        /\ \A y : (y = x \/ \E m \in Lcores : Listed(y, queues[m]))
                    => \E m \in Lcores : Listed(y, queues'[m])
        /\ \A m \in Lcores \ {l} : queues'[m] = queues[m]
    <3>1. Grown(queues, queues', Ports \X Queues, rxMask, x, l)
      BY <2>1, <2>2, <2>3, AppendKeeps
    <3> QED
      BY <3>1 DEF Grown
  <2>5. Typed'
    BY <1>1, <1>5, <2>1, <2>4 DEF CInv, Typed
  <2>6. Alive => \A y \in rxMask : \E m \in Lcores : Listed(y, queues[m])
    BY DEF CInv, OneReaderPerQueue
  <2>7. \A y \in rxMask' : \E m \in Lcores : Listed(y, queues'[m])
    BY <1>2, <1>5, <2>4, <2>6
  <2>8. OneReaderPerQueue' /\ Marked(queues, rxMask)'
    <3>1. OnceEach(queues)' /\ Marked(queues, rxMask)'
      BY <1>5, <2>4 DEF OnceEach, Marked
    <3>2. \A y \in rxMask' : \E m \in Lcores : Listed(y, queues[m])'
      BY <2>7 DEF Listed
    <3> QED
      BY <3>1, <3>2 DEF OneReaderPerQueue
  <2>9. OneSenderPerPort' /\ Marked(ports, txMask)'
    BY <1>1, <1>2 DEF CInv, OneSenderPerPort, OnceEach, Marked, Listed
  <2>10. UnionIntact'
    <3> SUFFICES ASSUME NEW m \in Lcores, type'[m] # "io"
                 PROVE  queues'[m] = <<>> /\ ports'[m] = <<>>
      BY DEF UnionIntact
    <3>1. m # l /\ type'[m] = type[m]
      BY <1>5, <2>1 DEF CInv, Typed
    <3> QED
      BY <1>1, <2>4, <3>1 DEF CInv, UnionIntact
  <2> QED
    BY <1>2, <2>5, <2>8, <2>9, <2>10 DEF CInv
<1> QED
  <2>1. \/ UNCHANGED <<type, queues, rxMask>>
        \/ /\ p \in Ports /\ q \in Queues /\ x \notin rxMask
           /\ rxMask' = rxMask \cup {x}
           /\ \/ UNCHANGED queues /\ phase' = "refused"
                 /\ \/ UNCHANGED type
                    \/ ~Taken(l, "worker") /\ type' = [type EXCEPT ![l] = "io"]
              \/ /\ ~Taken(l, "worker") /\ type' = [type EXCEPT ![l] = "io"]
                 /\ queues' = [queues EXCEPT ![l] = Append(@, x)]
    BY DEF RxTuple, Fail, FailTaken
  <2> QED
    BY <1>3, <1>4, <1>5, <2>1 DEF Taken

\* A tuple of --tx (config.c:262-322).
LEMMA TxStep ==
  ASSUME CInv, NEW p \in PortArgs, NEW l \in LcoreArgs, TxTuple(p, l)
  PROVE  CInv'
<1>1. phase = "tx" /\ UNCHANGED <<queues, rxMask, rules>>
  BY DEF TxTuple
<1>2. Alive /\ phase' # "accepted"
  <2>1. phase' \in {"refused", phase}
    BY DEF TxTuple, Fail, FailTaken, Counted
  <2> QED
    BY <1>1, <2>1 DEF Alive
<1>3. CASE UNCHANGED <<type, ports, txMask>>
  <2>1. UNCHANGED app
    BY <1>1, <1>3 DEF app
  <2> QED
    BY <1>2, <2>1, AppKept
<1>4. CASE /\ p \in Ports /\ p \notin txMask
           /\ txMask' = txMask \cup {p} /\ UNCHANGED ports
           /\ phase' = "refused"
           /\ \/ UNCHANGED type
              \/ l \in Enabled /\ type' = [type EXCEPT ![l] = "io"]
  <2>1. Typed'
    BY <1>1, <1>4, EnabledAssumption DEF CInv, Typed
  <2>2. ~Alive'
    BY <1>4 DEF Alive
  <2>3. OneSenderPerPort' /\ Marked(ports, txMask)'
    BY <1>4, <2>2 DEF CInv, OneSenderPerPort, OnceEach, Marked
  <2>4. OneReaderPerQueue' /\ Marked(queues, rxMask)'
    BY <1>1, <2>2 DEF CInv, OneReaderPerQueue, OnceEach, Marked
  <2>5. UnionIntact'
    BY <1>1, <1>4 DEF CInv, UnionIntact, Typed
  <2> QED
    BY <1>2, <2>1, <2>3, <2>4, <2>5 DEF CInv
<1>5. CASE /\ p \in Ports /\ p \notin txMask
           /\ txMask' = txMask \cup {p}
           /\ l \in Enabled /\ type' = [type EXCEPT ![l] = "io"]
           /\ ports' = [ports EXCEPT ![l] = Append(@, p)]
  <2>1. l \in Lcores
    BY <1>5, EnabledAssumption
  <2>2. ports \in [Lcores -> Seq(Ports)] /\ OnceEach(ports) /\ Marked(ports, txMask)
    BY DEF CInv, Typed, OneSenderPerPort
  <2>4. /\ ports' \in [Lcores -> Seq(Ports)] /\ OnceEach(ports')
        /\ Marked(ports', txMask \cup {p})
        /\ \A y : (y = p \/ \E m \in Lcores : Listed(y, ports[m]))
                    => \E m \in Lcores : Listed(y, ports'[m])
        /\ \A m \in Lcores \ {l} : ports'[m] = ports[m]
    <3>1. Grown(ports, ports', Ports, txMask, p, l)
      BY <1>5, <2>1, <2>2, AppendKeeps
    <3> QED
      BY <3>1 DEF Grown
  <2>5. Typed'
    BY <1>1, <1>5, <2>1, <2>4 DEF CInv, Typed
  <2>6. Alive => \A y \in txMask : \E m \in Lcores : Listed(y, ports[m])
    BY DEF CInv, OneSenderPerPort
  <2>7. \A y \in txMask' : \E m \in Lcores : Listed(y, ports'[m])
    BY <1>2, <1>5, <2>4, <2>6
  <2>8. OneSenderPerPort' /\ Marked(ports, txMask)'
    <3>1. OnceEach(ports)' /\ Marked(ports, txMask)'
      BY <1>5, <2>4 DEF OnceEach, Marked
    <3>2. \A y \in txMask' : \E m \in Lcores : Listed(y, ports[m])'
      BY <2>7 DEF Listed
    <3> QED
      BY <3>1, <3>2 DEF OneSenderPerPort
  <2>9. OneReaderPerQueue' /\ Marked(queues, rxMask)'
    BY <1>1, <1>2 DEF CInv, OneReaderPerQueue, OnceEach, Marked, Listed
  <2>10. UnionIntact'
    <3> SUFFICES ASSUME NEW m \in Lcores, type'[m] # "io"
                 PROVE  queues'[m] = <<>> /\ ports'[m] = <<>>
      BY DEF UnionIntact
    <3>1. m # l /\ type'[m] = type[m]
      BY <1>5, <2>1 DEF CInv, Typed
    <3> QED
      BY <1>1, <2>4, <3>1 DEF CInv, UnionIntact
  <2> QED
    BY <1>2, <2>5, <2>8, <2>9, <2>10 DEF CInv
<1> QED
  <2>1. \/ UNCHANGED <<type, ports, txMask>>
        \/ /\ p \in Ports /\ p \notin txMask
           /\ txMask' = txMask \cup {p}
           /\ \/ UNCHANGED ports /\ phase' = "refused"
                 /\ \/ UNCHANGED type
                    \/ ~Taken(l, "worker") /\ type' = [type EXCEPT ![l] = "io"]
              \/ /\ ~Taken(l, "worker") /\ type' = [type EXCEPT ![l] = "io"]
                 /\ ports' = [ports EXCEPT ![l] = Append(@, p)]
    BY DEF TxTuple, Fail, FailTaken
  <2> QED
    BY <1>3, <1>4, <1>5, <2>1 DEF Taken

\* A worker of --w has no queues and no ports (config.c:374-379).
LEMMA WStep ==
  ASSUME CInv, NEW l \in LcoreArgs, WTuple(l)
  PROVE  CInv'
<1>1. phase = "w" /\ UNCHANGED <<queues, ports, rxMask, txMask, rules>>
  BY DEF WTuple
<1>2. Alive /\ phase' # "accepted"
  BY <1>1 DEF Alive, WTuple, Fail, FailTaken, Counted
<1>3. CASE UNCHANGED type
  <2>1. UNCHANGED app
    BY <1>1, <1>3 DEF app
  <2> QED
    BY <1>2, <2>1, AppKept
<1>4. CASE l \in Enabled /\ type[l] # "io" /\ type' = [type EXCEPT ![l] = "worker"]
  <2>1. l \in Lcores
    BY <1>4, EnabledAssumption
  <2>2. Typed'
    BY <1>1, <1>4, <2>1 DEF CInv, Typed
  <2>3. /\ OneReaderPerQueue' /\ Marked(queues, rxMask)'
        /\ OneSenderPerPort' /\ Marked(ports, txMask)'
    BY <1>1, <1>2 DEF CInv, OneReaderPerQueue, OneSenderPerPort, OnceEach, Marked, Listed
  <2>4. UnionIntact'
    BY <1>1, <1>4, <2>1 DEF CInv, UnionIntact, Typed
  <2> QED
    BY <1>2, <2>2, <2>3, <2>4 DEF CInv
<1> QED
  BY <1>3, <1>4 DEF WTuple, Taken

\* A rule of --lpm (config.c:422-475).
LEMMA LpmStep ==
  ASSUME CInv, NEW p \in PortArgs, LpmRule(p)
  PROVE  CInv'
<1>1. phase = "lpm" /\ UNCHANGED <<type, queues, ports, rxMask, txMask>>
  BY DEF LpmRule
<1>2. Alive /\ phase' # "accepted"
  BY <1>1 DEF Alive, LpmRule, Fail
<1>3. rules' \in Seq(Ports)
  <2>1. rules \in Seq(Ports)
    BY DEF CInv, Typed
  <2>2. rules' = rules \/ (p \in Ports /\ rules' = Append(rules, p))
    BY DEF LpmRule
  <2> QED
    BY <2>1, <2>2
<1>4. Typed'
  BY <1>1, <1>3 DEF CInv, Typed
<1>5. /\ OneReaderPerQueue' /\ Marked(queues, rxMask)'
      /\ OneSenderPerPort' /\ Marked(ports, txMask)' /\ UnionIntact'
  BY <1>1, <1>2 DEF CInv, OneReaderPerQueue, OneSenderPerPort, OnceEach, Marked, Listed,
                    UnionIntact
<1> QED
  BY <1>2, <1>4, <1>5 DEF CInv

\* CInv is inductive.
LEMMA CInvStep == CInv /\ [Next]_vars => CInv'
<1> SUFFICES ASSUME CInv, [Next]_vars
             PROVE  CInv'
  OBVIOUS
<1>1. CASE \E o \in Options : Begin(o)
  BY <1>1, AppKept DEF Begin, Alive, Options
<1>2. CASE UnknownOption
  BY <1>2, AppKept DEF UnknownOption, Fail, Alive
<1>3. CASE Malformed
  BY <1>3, AppKept DEF Malformed, Fail, Alive
<1>4. CASE StoredAstray
  BY <1>4, AppKept DEF StoredAstray, Alive
<1>5. CASE \E p \in PortArgs, q \in QueueArgs, l \in LcoreArgs : RxTuple(p, q, l)
  BY <1>5, RxStep
<1>6. CASE \E p \in PortArgs, l \in LcoreArgs : TxTuple(p, l)
  BY <1>6, TxStep
<1>7. CASE \E l \in LcoreArgs : WTuple(l)
  BY <1>7, WStep
<1>8. CASE \E p \in PortArgs : LpmRule(p)
  BY <1>8, LpmStep
<1>9. CASE End
  BY <1>9, AppKept DEF End, Fail, Alive
<1>10. CASE Finish
  BY <1>10, AppKept DEF Finish, Fail, Alive
<1>11. CASE UNCHANGED vars
  BY <1>11, AppKept DEF vars, Alive
<1> QED
  BY <1>1, <1>2, <1>3, <1>4, <1>5, <1>6, <1>7, <1>8, <1>9, <1>10, <1>11 DEF Next

\* Where the parser is, beside what it left in app.
Control == /\ phase \in Options \cup {"options", "accepted", "refused", "crashed"}
           /\ n \in Nat /\ err \in -11..0 /\ given \subseteq Options /\ count \in 0..MaxOptions

\* Every fault has one of eleven codes, and a tuple counts one (config.c:124-477).
LEMMA FaultsTyped ==
  ASSUME Control, NEW code \in -11..0, NEW other \in -11..0, NEW limit, NEW l
  PROVE  Fail(code) \/ FailTaken(l, code, other) \/ Counted(limit, code) => Control'
<1>1. Fail(code) \/ Fail(other) => Control'
  BY DEF Fail, Control
<1> QED
  BY <1>1 DEF FailTaken, Counted, Control

LEMMA ControlInit == Init => Control
BY LimitsAssumption DEF Init, Control

LEMMA ControlStep == Control /\ [Next]_vars => Control'
<1> SUFFICES ASSUME Control, [Next]_vars
             PROVE  Control'
  OBVIOUS
<1>1. {-1, -2, -3, -4, -5, -6, -7, -8, -9, -10, -11} \subseteq -11..0
  OBVIOUS
<1>2. CASE \E o \in Options : Begin(o)
  <2>1. PICK o \in Options : Begin(o)
    BY <1>2
  <2>2. count' = count + 1 /\ count \in 0..MaxOptions /\ count < MaxOptions /\ MaxOptions \in Nat
    BY <2>1, LimitsAssumption DEF Begin, Control
  <2>3. count' \in 0..MaxOptions
    BY <2>2
  <2> QED
    BY <2>1, <2>3 DEF Begin, Control
<1>3. CASE UnknownOption \/ Malformed
  BY <1>1, <1>3, FaultsTyped DEF UnknownOption, Malformed
<1>4. CASE StoredAstray
  BY <1>4 DEF StoredAstray, Control
<1>5. CASE \E p \in PortArgs, q \in QueueArgs, l \in LcoreArgs : RxTuple(p, q, l)
  <2>1. PICK p \in PortArgs, q \in QueueArgs, l \in LcoreArgs : RxTuple(p, q, l)
    BY <1>5
  <2>2. \/ \E code \in -11..0 : Fail(code)
        \/ \E e \in -11..0, t \in -11..0 : FailTaken(l, e, t)
        \/ Counted(MaxTuples, -10)
    BY <1>1, <2>1 DEF RxTuple
  <2>3. -10 \in -11..0
    OBVIOUS
  <2> QED
    BY <2>2, <2>3, FaultsTyped
<1>6. CASE \E p \in PortArgs, l \in LcoreArgs : TxTuple(p, l)
  <2>1. PICK p \in PortArgs, l \in LcoreArgs : TxTuple(p, l)
    BY <1>6
  <2>2. \/ \E code \in -11..0 : Fail(code)
        \/ \E e \in -11..0, t \in -11..0 : FailTaken(l, e, t)
        \/ Counted(MaxTuples, -10)
    BY <1>1, <2>1 DEF TxTuple
  <2>3. -10 \in -11..0
    OBVIOUS
  <2> QED
    BY <2>2, <2>3, FaultsTyped
<1>7. CASE \E l \in LcoreArgs : WTuple(l)
  <2>1. PICK l \in LcoreArgs : WTuple(l)
    BY <1>7
  <2>2. \/ \E code \in -11..0 : Fail(code)
        \/ \E e \in -11..0, t \in -11..0 : FailTaken(l, e, t)
        \/ Counted(MaxWorkers, -6)
    BY <1>1, <2>1 DEF WTuple
  <2>3. -6 \in -11..0
    OBVIOUS
  <2> QED
    BY <2>2, <2>3, FaultsTyped
<1>8. CASE \E p \in PortArgs : LpmRule(p)
  <2>1. \/ \E code \in -11..0 : Fail(code)
        \/ UNCHANGED <<phase, n, err, given, count>>
    BY <1>1, <1>8 DEF LpmRule
  <2> QED
    BY <2>1, FaultsTyped DEF Control
<1>9. CASE End
  <2>1. \/ \E code \in -11..0 : Fail(code)
        \/ phase' = "options" /\ UNCHANGED <<n, err, given, count>>
    BY <1>1, <1>9 DEF End
  <2> QED
    BY <2>1, FaultsTyped DEF Control
<1>10. CASE Finish
  <2>1. \/ \E code \in -11..0 : Fail(code)
        \/ phase' = "accepted" /\ UNCHANGED <<n, err, given, count>>
    BY <1>1, <1>10 DEF Finish
  <2> QED
    BY <2>1, FaultsTyped DEF Control
<1>11. CASE UNCHANGED vars
  BY <1>11 DEF vars, Control
<1> QED
  BY <1>2, <1>3, <1>4, <1>5, <1>6, <1>7, <1>8, <1>9, <1>10, <1>11 DEF Next

\* What is stored is a port, a queue or a rule there is room for, and what is
\* returned one of the codes (config.c:124-477).
THEOREM ConfigTypes == Spec => []TypeOK
<1>1. Control /\ CInv => TypeOK
  BY DEF Control, CInv, Typed, TypeOK
<1> QED
  BY <1>1, ControlInit, ControlStep, CInvInit, CInvStep, PTL DEF Spec

\* Every marked queue is read by one lcore, at one place of its list
\* (config.c:182-225).
THEOREM EveryQueueOneReader == Spec => []OneReaderPerQueue
<1>1. CInv => OneReaderPerQueue
  BY DEF CInv
<1> QED
  BY <1>1, CInvInit, CInvStep, PTL DEF Spec

\* Every enabled port is transmitted on by one lcore (config.c:274-315).
THEOREM EveryPortOneSender == Spec => []OneSenderPerPort
<1>1. CInv => OneSenderPerPort
  BY DEF CInv
<1> QED
  BY <1>1, CInvInit, CInvStep, PTL DEF Spec

\* The union of an lcore's parameters is used in one way only (main.h:316-319).
THEOREM OneRoleEach == Spec => []UnionIntact
<1>1. CInv => UnionIntact
  BY DEF CInv
<1> QED
  BY <1>1, CInvInit, CInvStep, PTL DEF Spec

\* The checks at the end see to it that answers leave by ports that are enabled.
LEMMA AnswersLeave ==
  ASSUME CInv, phase = "accepted", NEW p \in PortsOfAnswers
  PROVE  p \in txMask
<1>1. CASE p \in {rules[r] : r \in 1..Len(rules)}
  BY <1>1 DEF CInv, LpmConsistent
<1>2. CASE p \in {x[1] : x \in rxMask}
  <2>1. PICK x \in rxMask : p = x[1]
    BY <1>2
  <2>2. x \in Ports \X Queues
    BY DEF CInv, Typed
  <2>3. p \in Ports /\ x[2] \in Queues /\ <<p, x[2]>> \in rxMask
    BY <2>1, <2>2
  <2> QED
    BY <2>3 DEF CInv, RxIsTx
<1> QED
  BY <1>1, <1>2 DEF PortsOfAnswers

LEMMA AcceptedAnswers == CInv => AnswersHaveASender
<1> SUFFICES ASSUME CInv, phase = "accepted", NEW p \in PortsOfAnswers
             PROVE  \E l \in Lcores : type[l] = "io" /\ Listed(p, ports[l])
  BY DEF AnswersHaveASender
<1>1. p \in txMask
  BY AnswersLeave
<1>2. PICK l \in Lcores : Listed(p, ports[l])
  BY <1>1 DEF CInv, OneSenderPerPort, Alive
<1>3. ports[l] # <<>>
  BY <1>2 DEF Listed
<1> QED
  BY <1>2, <1>3 DEF CInv, UnionIntact

\* What is accepted can send its answers (config.c:485-518).
THEOREM AcceptedCanAnswer == Spec => []AnswersHaveASender
BY AcceptedAnswers, CInvInit, CInvStep, PTL DEF Spec

\* A step of the parser gives an lcore a role only if it had none, or had it.
LEMMA RoleKept ==
  ASSUME CInv, Next, NEW l \in Lcores, type[l] # "disabled"
  PROVE  type'[l] = type[l]
<1>1. type \in [Lcores -> {"disabled", "io", "worker"}]
  BY DEF CInv, Typed
<1>2. \/ type' = type
      \/ \E m \in Lcores : type[m] # "worker" /\ type' = [type EXCEPT ![m] = "io"]
      \/ \E m \in Lcores : type[m] # "io" /\ type' = [type EXCEPT ![m] = "worker"]
  BY EnabledAssumption DEF Next, Begin, UnknownOption, Malformed, StoredAstray, RxTuple, TxTuple,
       WTuple, LpmRule, End, Finish, app, Taken
<1> QED
  BY <1>1, <1>2

\* No lcore ever changes its role (config.c:204-208, 296-300, 375-379).
THEOREM RolesAreKept == Spec => RolesStay
<1>1. CInv /\ [Next]_vars => [\A l \in Lcores : type[l] # "disabled" => type'[l] = type[l]]_vars
  BY RoleKept
<1> QED
  BY <1>1, CInvInit, CInvStep, PTL DEF Spec, RolesStay
=============================================================================
