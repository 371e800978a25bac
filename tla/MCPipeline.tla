------------------------------ MODULE MCPipeline ------------------------------
(***************************************************************************)
(* A small instance of Pipeline.                                           *)
(***************************************************************************)
EXTENDS Pipeline, TLC

CONSTANTS io, io2

\* As in the start scripts: one lcore receives, another transmits.
TwoIos     == {io, io2}
RingsToAll == <<io>>
RxByFirst  == (io :> <<0>>) @@ (io2 :> <<>>)
TxBySecond == (io :> <<>>) @@ (io2 :> <<0>>)
===============================================================================
