----------------------------- MODULE MCLcoreInit -----------------------------
(***************************************************************************)
(* A small instance of LcoreInit: words of four bits, half words of three. *)
(***************************************************************************)
EXTENDS LcoreInit

\* Lcore 2 is on the second socket.
LastFar == [l \in Lcores |-> IF l = 2 THEN 1 ELSE 0]

\* Port 0 has shorter queues, of an even size when they receive; port 1 has a
\* fewest.
FirstShort ==
  [p \in Ports |-> IF p = 0
     THEN [nicRx |-> [align |-> 2, most |-> 2, fewest |-> 0],
           nicTx |-> [align |-> 0, most |-> 3, fewest |-> 0]]
     ELSE [nicRx |-> [align |-> 0, most |-> 0, fewest |-> 3],
           nicTx |-> [align |-> 2, most |-> 6, fewest |-> 0]]]

BurstsOfTwo == [s \in Bursts |-> 2]
RingsOfFour == [r \in Rings |-> 4]

\* One burst size is 0, as long as an array, or longer than a word.
OddBursts == {[BurstsOfTwo EXCEPT ![s] = x] : s \in {"rxWrite", "txRead"}, x \in {0, 5, 22}}
OddRings  == {[RingsOfFour EXCEPT !["nicRx"] = x] : x \in {0, 9}}
===============================================================================
