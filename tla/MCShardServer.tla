------------------------------ MODULE MCShardServer ------------------------------
(***************************************************************************)
(* Small instances of ShardServer.  Keys are "1" and "9", the second one   *)
(* beyond the NumKeys of the instances; "x" and "y" are values.            *)
(***************************************************************************)
EXTENDS ShardServerProperties

MCWords == {"r", "w", "d", "s", "b", "1", "9", "x", "y"}
MCNum   == [word \in MCWords |-> CASE word = "1" -> 1 [] word = "9" -> 9 [] OTHER -> 0]
MCFirstDb == [Empty EXCEPT !["1"] = "y"]

Packet(type, leader, text) == [type |-> type, leader |-> leader, text |-> text]

W1 == <<"w", "1", "x">>     W9 == <<"w", "9", "x">>
R1 == <<"r", "1">>          R9 == <<"r", "9">>
D1 == <<"d", "1">>
S  == <<"s">>               B  == <<"b">>

\* Two workers whose strtok calls interleave, and a multi-partition packet that
\* blocks among single ones.
RacePackets ==
  {Packet("single", 0, <<W1, R9>>), Packet("single", 0, <<S, R9>>),
   Packet("single", 1, <<W9>>), Packet("single", 1, <<S, D1>>),
   Packet("multi", 0, <<W1>>)}
RaceGarbage == {<<>>, <<B>>}

\* One worker, a store that may refuse anything; surplus words run as commands.
FaultPackets ==
  {Packet("single", 0, t) :
     t \in {<<>>, <<S, W1>>, <<S, S, D1>>, <<B, W1>>, <<S, <<"w", "1", "x", "b">>>>,
            <<S, <<"w", "9", "x", "s", "b">>>>, <<R1>>, <<R9>>, <<S, B, B>>,
            << <<"x">>, D1>>, << <<"r">> >>, << <<"w", "1">> >>}}
AllFaults == {"open", "r", "w", "d", "b", "commit"}
NoGarbage == {<<>>}

\* One worker, packets of both kinds.
MixedPackets ==
  {Packet("multi", 0, t) :
     t \in {<<>>, <<W1>>, <<B>>, <<S, W1>>, <<W9>>, << <<"w", "1", "x", "s">> >>,
            << <<"w", "1", "x", "b">> >>, <<R1>>, <<D1>>, << <<"x">> >>, << <<"w", "1">> >>}}
  \cup {Packet("single", 0, <<W1>>), Packet("single", 1, <<W1>>),
        Packet("other", 0, <<W1>>)}

\* Shutdown.
SignalPackets == {Packet("single", 0, <<D1>>), Packet("single", 1, <<>>),
                  Packet("multi", 0, <<D1>>)}
SignalFaults  == {"open", "destroy"}
TwoCommands   == {Packet("single", 0, <<W1, W9>>)}
==================================================================================
