------------------------------ MODULE MCKVRaft ------------------------------
(* Instances of KVRaft for TLC.                                            *)
EXTENDS KVRaft

CONSTANTS s0, s1, c0, c1, x, v1, v2

Ask(type, value) == [type |-> type, key |-> x, value |-> value]

\* One clerk writes while the other one reads.
WriteAndRead ==
  [c \in Clerk |-> IF c = c0 THEN <<{Ask("Append", v1)}>> ELSE <<{Ask("Get", v1)}>>]

\* A clerk writes, and then writes again or reads.
WriteThenAsk ==
  [c \in Clerk |-> <<{Ask("Append", v1)}, {Ask("Put", v2), Ask("Get", v1)}>>]

\* A clerk writes and then reads.
WriteThenRead == [c \in Clerk |-> <<{Ask("Append", v1)}, {Ask("Get", v1)}>>]
=============================================================================
