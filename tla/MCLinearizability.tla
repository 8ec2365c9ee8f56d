-------------------------- MODULE MCLinearizability --------------------------
(* An instance of Linearizability for TLC.                                 *)
EXTENDS Linearizability

CONSTANTS x, y, a, b

Get(key, out) == [key |-> key, kind |-> "get", value |-> a, out |-> out]
Put(key, value) == [key |-> key, kind |-> "put", value |-> value, out |-> << >>]
App(key, value) == [key |-> key, kind |-> "append", value |-> value, out |-> << >>]

Operations ==
  {Put(x, a), App(x, b), Put(y, a)} \cup
  {Get(x, out) : out \in {<<a>>, <<b>>, <<a, b>>}} \cup {Get(y, out) : out \in {<< >>, <<a>>}}
=============================================================================
