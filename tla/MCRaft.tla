------------------------------- MODULE MCRaft -------------------------------
(* Instances of Raft for TLC.                                              *)
EXTENDS Raft, TLC

CONSTANTS s0, s1, s2, v1, v2, v3, v4

ValueSymmetry == Permutations(Value)
ServerSymmetry == Permutations(Server)

AllLinks == Server \X Server
NoLinks == {}
Links01 == {<<s0, s1>>}
Links02 == {<<s0, s2>>}
LinksDiverged == {<<s0, s1>>, <<s1, s0>>, <<s1, s2>>}

\* A later state of the start: every peer has refused the others its vote in
\* term 0 and waits in CandidateProcess for its timer.
AfterTermZero ==
  /\ Fresh
  /\ role = [i \in Server |-> "candidate"]
  /\ votedFor = [i \in Server |-> i]
  /\ granted = [i \in Server |-> 1]

SpecAfterTermZero == AfterTermZero /\ [][Next]_vars

-----------------------------------------------------------------------------
(* Later states that the program reaches.                                  *)

E(t, v) == [term |-> t, cmd |-> v]
Quiet ==
  /\ lastIndexInSnapshot = [i \in Server |-> 0]
  /\ lastTermInSnapshot = [i \in Server |-> 0]
  /\ votedFor = [i \in Server |-> i]
  /\ mainSave = [i \in Server |-> NoSave]
  /\ snapshot = [i \in Server |-> [index |-> 0, term |-> 0]]
  /\ persisted = [i \in Server |-> [term |-> currentTerm[i], log |-> log[i]]]
  /\ notify = [i \in Server |-> 0]
  /\ rvCalls = {} /\ aeCalls = {} /\ isCalls = {} /\ starts = {} /\ restarts = 0
  /\ applied = [i \in Server |-> [base |-> 0,
       msgs |-> [k \in 1..commitIndex[i] |-> [index |-> k, cmd |-> log[i][k + 1].cmd]]]]
  /\ delivered = UNION {{applied[i].msgs[k] : k \in 1..commitIndex[i]} : i \in Server}

\* l has just been elected for term 1.
Elected(l) ==
  /\ role = [i \in Server |-> IF i = l THEN "leader" ELSE "follower"]
  /\ currentTerm = [i \in Server |-> 1]
  /\ leaderNum = [i \in Server |-> l]
  /\ log = [i \in Server |-> <<E(0, Nil)>>]
  /\ commitIndex = [i \in Server |-> 0]
  /\ nextIndex = [i \in Server |-> IF i = l THEN [j \in Server |-> 1] ELSE NilSlice]
  /\ matchIndex = [i \in Server |-> IF i = l THEN [j \in Server |-> 0] ELSE NilSlice]
  /\ termList = [i \in Server |-> [snap |-> 0, terms |-> IF i = l THEN <<0>> ELSE << >>]]
  /\ granted = [i \in Server |-> IF i = l THEN 2 ELSE 1]
  /\ Quiet

\* s0 led term 1, committed v1 and v2 with s1, and was elected again for term 2;
\* s2 has neither.
Lagging ==
  /\ role = [i \in Server |-> IF i = s0 THEN "leader" ELSE "follower"]
  /\ currentTerm = [i \in Server |-> 2]
  /\ leaderNum = [i \in Server |-> s0]
  /\ log = [i \in Server |-> IF i = s2 THEN <<E(0, Nil)>> ELSE <<E(0, Nil), E(1, v1), E(1, v2)>>]
  /\ commitIndex = [i \in Server |-> IF i = s2 THEN 0 ELSE 2]
  /\ nextIndex = [i \in Server |-> IF i = s0 THEN [j \in Server |-> 3] ELSE NilSlice]
  /\ matchIndex = [i \in Server |-> IF i = s0 THEN [j \in Server |-> 0] ELSE NilSlice]
  /\ termList = [i \in Server |-> [snap |-> 0, terms |-> IF i = s0 THEN <<0, 1, 1>> ELSE << >>]]
  /\ granted = [i \in Server |-> IF i = s0 THEN 2 ELSE 1]
  /\ proposed = {v1, v2}
  /\ Quiet

\* s0 led term 1 and still takes itself for the leader; it holds v1 and v2, which
\* nobody else has.  s1 led term 2, stored v3 with s2, and was elected again for
\* term 3, before it had seen s2's answer.
Diverged ==
  /\ role = [i \in Server |-> IF i = s2 THEN "follower" ELSE "leader"]
  /\ currentTerm = [i \in Server |-> IF i = s0 THEN 1 ELSE 3]
  /\ leaderNum = [i \in Server |-> IF i = s2 THEN s1 ELSE i]
  /\ log = [i \in Server |-> IF i = s0 THEN <<E(0, Nil), E(1, v1), E(1, v2)>>
                                       ELSE <<E(0, Nil), E(2, v3)>>]
  /\ commitIndex = [i \in Server |-> 0]
  /\ nextIndex = [i \in Server |-> IF i = s2 THEN NilSlice
       ELSE [j \in Server |-> IF i = s0 THEN 1 ELSE 2]]
  /\ matchIndex = [i \in Server |-> IF i = s2 THEN NilSlice
       ELSE [j \in Server |-> IF i = s0 /\ j = s0 THEN 2 ELSE 0]]
  /\ termList = [i \in Server |-> [snap |-> 0, terms |-> IF i = s2 THEN << >>
       ELSE IF i = s0 THEN <<0>> ELSE <<0, 2>>]]
  /\ granted = [i \in Server |-> IF i = s2 THEN 1 ELSE 2]
  /\ proposed = {v1, v2, v3}
  /\ Quiet

SpecElected == Elected(s0) /\ proposed = {} /\ [][Next]_vars
SpecLagging == Lagging /\ [][Next]_vars

\* Or s0 or s1 has just been elected for term 1 and no client comes: with MaxTerm = 2
\* the timers fire in these behaviours only.
LaggingOrIdle ==
  \/ Lagging
  \/ proposed = Value /\ \E l \in {s0, s1} : Elected(l)
SpecReplication == LaggingOrIdle /\ [][Next]_vars

FairDiverged == Diverged /\ [][Next]_vars /\ Fairness
=============================================================================
