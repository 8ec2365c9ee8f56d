---------------------------- MODULE ReplicatedLog ----------------------------
(***************************************************************************)
(* What a service built on Raft relies on: there is one log, and the       *)
(* service of every peer receives its entries from the start, in order and *)
(* without a gap.  A peer that crashes receives entries again.  This is    *)
(* the contract stated by the comment on ApplyMsg (raft.go) and tested by  *)
(* the apply loop of raft/config.go.                                       *)
(***************************************************************************)
EXTENDS Naturals, Sequences

CONSTANTS Server,
          Value,
          MaxBatch   \* the most entries one step hands to a service

VARIABLES chosen,    \* the log
          pos        \* how much of it each service has received

Init ==
  /\ chosen = << >>
  /\ pos = [i \in Server |-> 0]

\* The service of i receives the next n entries; those nobody has received yet
\* become part of the log by it.
Receive(i) ==
  \E n \in 1..MaxBatch :
    LET new == IF pos[i] + n > Len(chosen) THEN pos[i] + n - Len(chosen) ELSE 0 IN
    /\ pos' = [pos EXCEPT ![i] = @ + n]
    /\ \E s \in [1..new -> Value] : chosen' = chosen \o s

\* i crashed and starts over from its snapshot.
Restart(i) ==
  /\ \E n \in 0..pos[i] : pos' = [pos EXCEPT ![i] = n]
  /\ UNCHANGED chosen

Next == \E i \in Server : Receive(i) \/ Restart(i)

Spec == Init /\ [][Next]_<<chosen, pos>>
==============================================================================
