----------------------------- MODULE LcoreConfig -----------------------------
(***************************************************************************)
(* The command line that gives every lcore its role (config.c): --rx, --tx *)
(* --w and --lpm, each of which may come more than once and adds to what   *)
(* the ones before it left in app.  One step parses one tuple, worker or   *)
(* rule, checks and all; the first fault ends the program.  The texts are  *)
(* taken as the numbers strtoul made of them: a worker that is no number   *)
(* at all reads as lcore 0.  --rsz, --bsz and --pos-lb are in Tuning.      *)
(***************************************************************************)
EXTENDS Integers, Sequences, FiniteSets

CONSTANTS
  NumLcores, NumPorts, NumQueues, \* APP_MAX_LCORES, _NIC_PORTS, _RX_QUEUES_PER_NIC_PORT
  Enabled,                        \* the lcores EAL was started with
  MaxTuples,                      \* APP_ARG_RX_MAX_TUPLES, APP_ARG_TX_MAX_TUPLES
  MaxQueues, MaxTxPorts,          \* APP_MAX_NIC_RX_QUEUES_, _TX_PORTS_PER_IO_LCORE
  MaxWorkers,                     \* APP_MAX_WORKER_LCORES, APP_ARG_W_MAX_TUPLES
  MaxRules,                       \* APP_MAX_LPM_RULES
  PortArgs, QueueArgs, LcoreArgs, \* numbers that occur on the command line
  MaxOptions                      \* bound: options on the command line

Lcores  == 0..(NumLcores - 1)
Ports   == 0..(NumPorts - 1)
Queues  == 0..(NumQueues - 1)
Options == {"rx", "tx", "w", "lpm"}

ASSUME EnabledAssumption == Enabled \subseteq Lcores
ASSUME LimitsAssumption  == {NumLcores, NumPorts, NumQueues, MaxTuples, MaxQueues,
                             MaxTxPorts, MaxWorkers, MaxRules, MaxOptions} \subseteq Nat

VARIABLES
  phase,   \* the option being parsed, "options" between two of them, or the end
  n,       \* n_tuples of the option
  err,     \* what a parser returned
  given,   \* arg_rx, arg_tx, arg_w, arg_lpm
  count,   \* options so far
  type,    \* lcore_params[].type
  queues,  \* lcore_params[].io.rx.nic_queues, n_nic_queues of them
  ports,   \* lcore_params[].io.tx.nic_ports, n_nic_ports of them
  rxMask,  \* the (port, queue) with nic_rx_queue_mask = 1
  txMask,  \* the ports with nic_tx_port_mask = 1
  rules    \* if_out of lpm_rules, n_lpm_rules of them

app  == <<type, queues, ports, rxMask, txMask, rules>>
vars == <<phase, n, err, given, count, app>>

-----------------------------------------------------------------------------
Init == /\ phase = "options" /\ n = 0 /\ err = 0
        /\ given = {} /\ count = 0
        /\ type = [l \in Lcores |-> "disabled"]
        /\ queues = [l \in Lcores |-> <<>>]
        /\ ports = [l \in Lcores |-> <<>>]
        /\ rxMask = {} /\ txMask = {} /\ rules = <<>>

Fail(code) == phase' = "refused" /\ err' = code /\ UNCHANGED <<n, given, count>>

\* One more tuple, or one too many.
Counted(limit, code) ==
  IF n + 1 > limit THEN Fail(code) ELSE n' = n + 1 /\ UNCHANGED <<phase, err, given, count>>

Listed(x, s) == \E i \in 1..Len(s) : s[i] = x

Begin(o) ==
  /\ phase = "options" /\ count < MaxOptions
  /\ phase' = o /\ n' = 0 /\ given' = given \cup {o} /\ count' = count + 1
  /\ UNCHANGED <<err, app>>

\* getopt_long met an option it does not know.
UnknownOption == phase = "options" /\ Fail(-1) /\ UNCHANGED app

\* An argument longer than it may be, or with a tuple that is cut short.
Malformed == phase \in Options /\ \E code \in {-1, -2} : Fail(code) /\ UNCHANGED app

\* str_to_unsigned_array returned -1 for a number that is none, and
\* str_to_unsigned_vals stores 2^32 - 1 values through its two, three or four
\* pointers and whatever lies behind them.
StoredAstray ==
  /\ phase \in {"rx", "tx", "lpm"}
  /\ phase' = "crashed"
  /\ UNCHANGED <<n, err, given, count, app>>

\* The lcore cannot take the role: it is not enabled, or has the other one.
Taken(l, other) == l \notin Enabled \/ type[l] = other

FailTaken(l, codeEnabled, codeTaken) ==
  Fail(IF l \notin Enabled THEN codeEnabled ELSE codeTaken)

\* Mutant: the queue is checked but not marked.
RxUnmarked(p, q, l) ==
  /\ phase = "rx"
  /\ p \in Ports /\ q \in Queues /\ <<p, q>> \notin rxMask /\ ~Taken(l, "worker")
  /\ ~Listed(<<p, q>>, queues[l]) /\ Len(queues[l]) < MaxQueues
  /\ type' = [type EXCEPT ![l] = "io"]
  /\ queues' = [queues EXCEPT ![l] = Append(@, <<p, q>>)]
  /\ Counted(MaxTuples, -10)
  /\ UNCHANGED <<ports, rxMask, txMask, rules>>

\* Mutant: a worker may become an I/O lcore.
RxAnyLcore(p, q, l) ==
  /\ phase = "rx"
  /\ p \in Ports /\ q \in Queues /\ <<p, q>> \notin rxMask /\ l \in Enabled
  /\ ~Listed(<<p, q>>, queues[l]) /\ Len(queues[l]) < MaxQueues
  /\ rxMask' = rxMask \cup {<<p, q>>}
  /\ type' = [type EXCEPT ![l] = "io"]
  /\ queues' = [queues EXCEPT ![l] = Append(@, <<p, q>>)]
  /\ Counted(MaxTuples, -10)
  /\ UNCHANGED <<ports, txMask, rules>>

\* One (port, queue, lcore) of --rx: the queue is marked, the lcore becomes an
\* I/O lcore, and only then is its list looked at.
RxTuple(p, q, l) ==
  /\ phase = "rx"
  /\ UNCHANGED <<ports, txMask, rules>>
  /\ \/ /\ p \notin Ports \/ q \notin Queues \/ <<p, q>> \in rxMask
        /\ Fail(IF <<p, q>> \in rxMask THEN -4 ELSE -3)
        /\ UNCHANGED <<type, queues, rxMask>>
     \/ /\ p \in Ports /\ q \in Queues /\ <<p, q>> \notin rxMask
        /\ rxMask' = rxMask \cup {<<p, q>>}
        /\ \/ /\ Taken(l, "worker")
              /\ FailTaken(l, -5, -7)
              /\ UNCHANGED <<type, queues>>
           \/ /\ ~Taken(l, "worker")
              /\ type' = [type EXCEPT ![l] = "io"]
              /\ \/ /\ Listed(<<p, q>>, queues[l]) /\ Fail(-8) /\ UNCHANGED queues
                 \/ /\ ~Listed(<<p, q>>, queues[l]) /\ Len(queues[l]) >= MaxQueues
                    /\ Fail(-9) /\ UNCHANGED queues
                 \/ /\ ~Listed(<<p, q>>, queues[l]) /\ Len(queues[l]) < MaxQueues
                    /\ queues' = [queues EXCEPT ![l] = Append(@, <<p, q>>)]
                    /\ Counted(MaxTuples, -10)

\* Mutant: the mask is not looked at, only the lcore's own list.
TxOwnListOnly(p, l) ==
  /\ phase = "tx"
  /\ p \in Ports /\ ~Taken(l, "worker") /\ ~Listed(p, ports[l]) /\ Len(ports[l]) < MaxTxPorts
  /\ txMask' = txMask \cup {p}
  /\ type' = [type EXCEPT ![l] = "io"]
  /\ ports' = [ports EXCEPT ![l] = Append(@, p)]
  /\ Counted(MaxTuples, -10)
  /\ UNCHANGED <<queues, rxMask, rules>>

\* One (port, lcore) of --tx.
TxTuple(p, l) ==
  /\ phase = "tx"
  /\ UNCHANGED <<queues, rxMask, rules>>
  /\ \/ /\ p \notin Ports \/ p \in txMask
        /\ Fail(IF p \in txMask THEN -4 ELSE -3)
        /\ UNCHANGED <<type, ports, txMask>>
     \/ /\ p \in Ports /\ p \notin txMask
        /\ txMask' = txMask \cup {p}
        /\ \/ /\ Taken(l, "worker")
              /\ FailTaken(l, -5, -7)
              /\ UNCHANGED <<type, ports>>
           \/ /\ ~Taken(l, "worker")
              /\ type' = [type EXCEPT ![l] = "io"]
              /\ \/ /\ Listed(p, ports[l]) /\ Fail(-8) /\ UNCHANGED ports
                 \/ /\ ~Listed(p, ports[l]) /\ Len(ports[l]) >= MaxTxPorts
                    /\ Fail(-9) /\ UNCHANGED ports
                 \/ /\ ~Listed(p, ports[l]) /\ Len(ports[l]) < MaxTxPorts
                    /\ ports' = [ports EXCEPT ![l] = Append(@, p)]
                    /\ Counted(MaxTuples, -10)

\* Mutant: an I/O lcore may become a worker.
WAnyLcore(l) ==
  /\ phase = "w" /\ l \in Enabled
  /\ type' = [type EXCEPT ![l] = "worker"]
  /\ Counted(MaxWorkers, -6)
  /\ UNCHANGED <<queues, ports, rxMask, txMask, rules>>

\* One lcore of --w, which may be a worker already.
WTuple(l) ==
  /\ phase = "w"
  /\ UNCHANGED <<queues, ports, rxMask, txMask, rules>>
  /\ \/ Taken(l, "io") /\ FailTaken(l, -3, -5) /\ UNCHANGED type
     \/ /\ ~Taken(l, "io")
        /\ type' = [type EXCEPT ![l] = "worker"]
        /\ Counted(MaxWorkers, -6)

\* Mutant: the port of a rule is not compared with the number of ports.
LpmAnyPort(p) ==
  /\ phase = "lpm" /\ Len(rules) < MaxRules
  /\ rules' = Append(rules, p)
  /\ UNCHANGED <<phase, n, err, given, count, type, queues, ports, rxMask, txMask>>

\* One rule of --lpm, ended by a semicolon.
LpmRule(p) ==
  /\ phase = "lpm"
  /\ UNCHANGED <<type, queues, ports, rxMask, txMask>>
  /\ \/ \E code \in -6..-3 : Fail(code) /\ UNCHANGED rules
     \/ p \notin Ports /\ Fail(-6) /\ UNCHANGED rules
     \/ p \in Ports /\ Len(rules) >= MaxRules /\ Fail(-7) /\ UNCHANGED rules
     \/ /\ p \in Ports /\ Len(rules) < MaxRules
        /\ rules' = Append(rules, p)
        /\ \/ Fail(-8)
           \/ UNCHANGED <<phase, n, err, given, count>>

\* The smallest powers of two, of which there are enough.
PowersOfTwo == {1, 2, 4, 8, 16, 32, 64, 128}

\* The end of the option's argument.
End ==
  /\ UNCHANGED app
  /\ \/ phase \in {"rx", "tx"} /\ n = 0 /\ Fail(-11)
     \/ phase = "w" /\ n = 0 /\ Fail(-7)
     \/ phase = "w" /\ n > 0 /\ n \notin PowersOfTwo /\ Fail(-8)
     \/ phase = "lpm" /\ rules = <<>> /\ Fail(-9)
     \/ /\ \/ phase \in {"rx", "tx"} /\ n > 0
           \/ phase = "w" /\ n \in PowersOfTwo
           \/ phase = "lpm" /\ rules # <<>>
        /\ phase' = "options"
        /\ UNCHANGED <<n, err, given, count>>

\* app_check_lpm_table
LpmConsistent == \A r \in 1..Len(rules) : rules[r] \in txMask

\* Mutant: it is enough that some port is enabled.
RxIsTxSomewhere == rxMask # {} => txMask # {}

\* app_check_every_rx_port_is_tx_enabled
RxIsTx == \A p \in Ports : (\E q \in Queues : <<p, q>> \in rxMask) => p \in txMask

\* The end of the command line.
Finish ==
  /\ phase = "options"
  /\ UNCHANGED app
  /\ \/ /\ given # Options \/ ~LpmConsistent
        /\ Fail(-1)
     \/ /\ given = Options /\ LpmConsistent /\ ~RxIsTx
        /\ Fail(-2)
     \/ /\ given = Options /\ LpmConsistent /\ RxIsTx
        /\ phase' = "accepted"
        /\ UNCHANGED <<n, err, given, count>>

Next == \/ \E o \in Options : Begin(o)
        \/ UnknownOption \/ Malformed \/ StoredAstray
        \/ \E p \in PortArgs, q \in QueueArgs, l \in LcoreArgs : RxTuple(p, q, l)
        \/ \E p \in PortArgs, l \in LcoreArgs : TxTuple(p, l)
        \/ \E l \in LcoreArgs : WTuple(l)
        \/ \E p \in PortArgs : LpmRule(p)
        \/ End \/ Finish

Spec == Init /\ [][Next]_vars

-----------------------------------------------------------------------------
TypeOK == /\ phase \in Options \cup {"options", "accepted", "refused", "crashed"}
          /\ n \in Nat /\ err \in -11..0 /\ given \subseteq Options /\ count \in 0..MaxOptions
          /\ type \in [Lcores -> {"disabled", "io", "worker"}]
          /\ queues \in [Lcores -> Seq(Ports \X Queues)]
          /\ ports \in [Lcores -> Seq(Ports)]
          /\ rxMask \subseteq Ports \X Queues /\ txMask \subseteq Ports
          /\ rules \in Seq(Ports)

Alive == phase \notin {"refused", "crashed"}

\* A list that no element is on twice, nor on the list of another lcore.
OnceEach(lists) ==
  \A l, m \in Lcores : \A i \in 1..Len(lists[l]), j \in 1..Len(lists[m]) :
    lists[l][i] = lists[m][j] => l = m /\ i = j

\* Every queue marked for the NIC is read by one lcore, in one place of its
\* list, however the options that named it were split (config.c:182-225): two
\* readers of one queue, or a queue nobody reads, would not show before
\* packets are lost.
OneReaderPerQueue ==
  /\ OnceEach(queues)
  /\ Alive => \A x \in rxMask : \E l \in Lcores : Listed(x, queues[l])

\* The same of the ports that are transmitted on (config.c:274-315), whose
\* software rings have a single consumer.
OneSenderPerPort ==
  /\ OnceEach(ports)
  /\ Alive => \A p \in txMask : \E l \in Lcores : Listed(p, ports[l])

\* The parameters of an I/O lcore and of a worker share their memory (the
\* union of main.h:316-319): a worker never has queues or ports.
UnionIntact == \A l \in Lcores : type[l] # "io" => queues[l] = <<>> /\ ports[l] = <<>>

\* An lcore that has a role keeps it, whatever options follow
\* (config.c:204-208, 296-300, 375-379).
RolesStay == [][\A l \in Lcores : type[l] # "disabled" => type'[l] = type[l]]_vars

\* What is accepted can answer: a packet leaves by the port of a rule or by
\* the port it came in on, and one lcore transmits there (config.c:485-518).
PortsOfAnswers == {rules[r] : r \in 1..Len(rules)} \cup {x[1] : x \in rxMask}
AnswersHaveASender ==
  phase = "accepted" => \A p \in PortsOfAnswers : \E l \in Lcores : type[l] = "io" /\ Listed(p, ports[l])
=============================================================================
