---------------------------- MODULE KVRaftProofs ----------------------------
(***************************************************************************)
(* Proofs about KVRaft, for any servers, clerks, scripts and bounds: the   *)
(* types, that acknowledged writes are in the agreed log, and that the     *)
(* maps of every server are those of that log, so that reads are           *)
(* linearizable.                                                           *)
(***************************************************************************)
EXTENDS KVRaft, NatSetLemmas, SequenceTheorems

Op == [client : Clerk, seq : Nat \ {0}, req : Request]
Entry == [op : Op, by : Server \X Nat]
Snapper == [srv : Server, index : Nat \ {0}, st : {"new", "locked"}, old : Maps \cup {None}]
Handler == [srv : Server, st : {"start", "wait", "look"}, index : Int, term : Nat,
            live : BOOLEAN, op : Op]
ClerkState == [st : {"idle", "send", "wait"}, seq : Nat \ {0}, leader : Server \cup {None},
               req : Request \cup {None}, floor : Nat]

\* The logs hold commands of clerks.
LogsOK ==
  /\ chosen \in Seq(Entry) /\ pending \in [Server -> Seq(Entry)]
  /\ leads \subseteq Server /\ elected \in Server /\ term \in Nat \ {0}

\* The maps, wherever they are: in the service, in the Persister, in a message on
\* its way to mainProcess, or in the hands of TakeSnapshots.
MapsOK ==
  /\ rsm \in [Server -> [Key -> Seq(Value)]]
  /\ ClientMaxRequestSeq \in [Server -> [Clerk -> Nat]]
  /\ upto \in [Server -> Nat]
  /\ snapshot \in [Server -> Saved]
  /\ install \in [Server -> Saved \cup {None}]
  /\ snaps \subseteq Snapper
  /\ DOMAIN got = Server
  /\ \A s \in Server : got[s] # None /\ ~got[s].valid => got[s].data \in Saved

\* No index a server has met is beyond the agreed log; what it has received, or
\* is receiving, or makes a snapshot of, is not beyond its own commitIndex.
IndexOK ==
  /\ booting \subseteq Server
  /\ commitIndex \in [Server -> Nat] /\ curCommitIndex \in [Server -> Nat]
  /\ lastIndexInSnapshot \in [Server -> Nat]
  /\ outbox \in [Server -> Seq(Nat)]
  /\ \A s \in Server :
       /\ commitIndex[s] <= Len(chosen)
       /\ lastIndexInSnapshot[s] <= commitIndex[s] /\ curCommitIndex[s] <= commitIndex[s]
       /\ snapshot[s].index <= Len(chosen)
       /\ install[s] # None => install[s].index <= Len(chosen)
       /\ got[s] # None /\ got[s].valid => got[s].index \in 1..commitIndex[s]
       /\ \A k \in 1..Len(outbox[s]) : outbox[s][k] \in 1..commitIndex[s]
  /\ \A g \in snaps : g.index <= commitIndex[g.srv]

\* A handler somebody listens to is the only one of its clerk, which waits for it.
CallsOK ==
  /\ clerk \in [Clerk -> ClerkState] /\ floor \in Nat
  /\ handlers \subseteq Handler
  /\ \A c \in Clerk : clerk[c].st # "idle" => clerk[c].req \in Request
  /\ \A h \in handlers :
       /\ h.st # "start" => h.live
       /\ h.live => clerk[h.op.client].st = "wait"
       /\ \A g \in handlers : g.live /\ h.live /\ g.op.client = h.op.client => g = h

\* What the log of the elected server holds at an index.
At(k) == IF k <= Len(chosen) THEN chosen[k] ELSE pending[elected][k - Len(chosen)]

\* While its server has led since it called Start, the command of a handler is at
\* the index it waits for, agreed on or still pending.
Placed(h) ==
  /\ h.index \in 1..(Len(chosen) + Len(pending[elected]))
  /\ At(h.index).op = h.op

PlacesOK ==
  \A h \in handlers :
    /\ h.term <= term /\ (h.st = "start" => h.term = 0)
    /\ Sure(h) => Placed(h)

KVInv == LogsOK /\ MapsOK /\ IndexOK /\ CallsOK /\ PlacesOK /\ AckedCommitted

-----------------------------------------------------------------------------
(* What a step that changes only one side has to show.                     *)

\* A step of mainProcess, TakeSnapshots or the delivery on applyCh.
LEMMA ServiceStep ==
  ASSUME KVInv, UNCHANGED <<raftVars, clientVars>>, MapsOK', IndexOK'
  PROVE  KVInv'
<1>1. UNCHANGED <<chosen, pending, leads, elected, term, handlers, clerk, floor, acked, answers>>
  BY DEF raftVars, clientVars
<1>2. LogsOK' /\ CallsOK'
  BY <1>1 DEF KVInv, LogsOK, CallsOK
<1>3. PlacesOK'
  BY <1>1 DEF KVInv, PlacesOK, Placed, At, Sure
<1>4. AckedCommitted'
  BY <1>1 DEF KVInv, AckedCommitted
<1> QED  BY <1>2, <1>3, <1>4 DEF KVInv

\* A step of a clerk or of a handler that leaves Raft alone.
LEMMA ClientStep ==
  ASSUME KVInv, UNCHANGED <<raftVars, applyVars, diskVars, serviceVars>>,
         CallsOK', PlacesOK', AckedCommitted'
  PROVE  KVInv'
<1>1. UNCHANGED <<chosen, pending, leads, elected, term, commitIndex, outbox, install, booting,
                  lastIndexInSnapshot, snapshot, got, rsm, ClientMaxRequestSeq, curCommitIndex,
                  snaps, upto>>
  BY DEF raftVars, applyVars, diskVars, serviceVars
<1>2. LogsOK' /\ MapsOK'
  BY <1>1 DEF KVInv, LogsOK, MapsOK
<1>3. IndexOK'
  BY <1>1 DEF KVInv, IndexOK
<1> QED  BY <1>2, <1>3 DEF KVInv

\* A step that makes no new handler and leaves the logs and the term alone.
LEMMA FewerPlaces ==
  ASSUME PlacesOK, handlers' \subseteq handlers, UNCHANGED <<chosen, pending, elected, term>>
  PROVE  PlacesOK'
  BY DEF PlacesOK, Placed, At, Sure

-----------------------------------------------------------------------------
(* Raft.                                                                   *)

\* After an election no handler is sure: all of them began in earlier terms.
LEMMA ElectKeeps ==
  ASSUME KVInv, NEW s \in Server, Elect(s)
  PROVE  KVInv'
<1>1. /\ UNCHANGED <<chosen, commitIndex, outbox, install, booting, lastIndexInSnapshot, snapshot,
                     got, rsm, ClientMaxRequestSeq, curCommitIndex, snaps, upto, handlers, clerk,
                     floor, acked>>
      /\ leads' = leads \cup {s} /\ elected' = s /\ term' = term + 1
  BY DEF Elect, applyVars, diskVars, serviceVars, clientVars
<1>2. pending' \in [Server -> Seq(Entry)]
  <2>1. CASE UNCHANGED pending
    BY <2>1 DEF KVInv, LogsOK
  <2>2. ASSUME NEW n \in 1..Len(pending[elected]),
               pending' = [pending EXCEPT ![s] = SubSeq(pending[elected], 1, n)]
        PROVE  pending' \in [Server -> Seq(Entry)]
    <3>1. pending \in [Server -> Seq(Entry)] /\ pending[elected] \in Seq(Entry)
      BY DEF KVInv, LogsOK
    <3>2. SubSeq(pending[elected], 1, n) \in Seq(Entry)
      BY <3>1, SubSeqProperties
    <3> QED  BY <2>2, <3>1, <3>2
  <2> QED  BY <2>1, <2>2 DEF Elect
<1>3. LogsOK'
  BY <1>1, <1>2 DEF KVInv, LogsOK
<1>4. MapsOK' /\ CallsOK'
  BY <1>1 DEF KVInv, MapsOK, CallsOK
<1>5. IndexOK'
  BY <1>1 DEF KVInv, IndexOK
<1>6. PlacesOK'
  <2>1. \A h \in handlers : h.term \in Nat /\ h.term <= term
    BY DEF KVInv, CallsOK, PlacesOK, Handler
  <2>2. \A h \in handlers : h.term # term + 1 /\ h.term <= term + 1
    BY <2>1 DEF KVInv, LogsOK
  <2> QED  BY <1>1, <2>2 DEF KVInv, PlacesOK, Sure
<1>7. AckedCommitted'
  BY <1>1 DEF KVInv, AckedCommitted
<1> QED  BY <1>3, <1>4, <1>5, <1>6, <1>7 DEF KVInv

\* A server that steps down keeps its log and its handlers.
LEMMA StepDownKeeps ==
  ASSUME KVInv, NEW s \in Server, StepDown(s)
  PROVE  KVInv'
<1>1. /\ UNCHANGED <<chosen, pending, elected, term, commitIndex, outbox, install, booting,
                     lastIndexInSnapshot, snapshot, got, rsm, ClientMaxRequestSeq,
                     curCommitIndex, snaps, upto, handlers, clerk, floor, acked>>
      /\ leads' = leads \ {s}
  BY DEF StepDown, applyVars, diskVars, serviceVars, clientVars
<1>2. LogsOK' /\ MapsOK' /\ CallsOK'
  BY <1>1 DEF KVInv, LogsOK, MapsOK, CallsOK
<1>3. IndexOK'
  BY <1>1 DEF KVInv, IndexOK
<1>4. PlacesOK'
  BY <1>1, FewerPlaces DEF KVInv
<1>5. AckedCommitted'
  BY <1>1 DEF KVInv, AckedCommitted
<1> QED  BY <1>2, <1>3, <1>4, <1>5 DEF KVInv

\* The entry that is agreed on moves from the leader's tail to the agreed log and
\* keeps its index.
LEMMA CommitKeeps ==
  ASSUME KVInv, Commit
  PROVE  KVInv'
<1> DEFINE q == pending[elected]
<1>1. /\ UNCHANGED <<leads, elected, term, commitIndex, outbox, install, booting,
                     lastIndexInSnapshot, snapshot, got, rsm, ClientMaxRequestSeq,
                     curCommitIndex, snaps, upto, handlers, clerk, floor, acked>>
      /\ q # << >> /\ chosen' = Append(chosen, Head(q))
      /\ pending' = [s \in Server |->
           IF pending[s] # << >> /\ Head(pending[s]) = Head(q) THEN Tail(pending[s]) ELSE << >>]
  BY DEF Commit, applyVars, diskVars, serviceVars, clientVars
<1>2. chosen \in Seq(Entry) /\ pending \in [Server -> Seq(Entry)] /\ elected \in Server
  BY DEF KVInv, LogsOK
<1>3. q \in Seq(Entry) /\ Head(q) \in Entry /\ Tail(q) \in Seq(Entry) /\ Len(q) \in Nat \ {0}
  BY <1>1, <1>2, HeadTailProperties, LenProperties, EmptySeq
<1>4. /\ chosen' \in Seq(Entry) /\ Len(chosen') = Len(chosen) + 1
      /\ \A k \in 1..Len(chosen) : chosen'[k] = chosen[k]
      /\ chosen'[Len(chosen) + 1] = q[1]
  BY <1>1, <1>2, <1>3, AppendProperties
<1>5. pending' \in [Server -> Seq(Entry)]
  BY <1>1, <1>2, HeadTailProperties
<1> DEFINE t == pending'[elected']
<1>6. t = Tail(q) /\ Len(t) = Len(q) - 1 /\ \A k \in 1..(Len(q) - 1) : t[k] = q[k + 1]
  BY <1>1, <1>2, <1>3, HeadTailProperties
<1>7. Len(chosen) \in Nat /\ elected' = elected
  BY <1>1, <1>2
<1>8. LogsOK'
  BY <1>1, <1>4, <1>5 DEF KVInv, LogsOK
<1>9. MapsOK' /\ CallsOK'
  BY <1>1 DEF KVInv, MapsOK, CallsOK
<1>10. IndexOK'
  BY <1>1, <1>4, <1>7 DEF KVInv, IndexOK, MapsOK, Saved
<1>11. ASSUME NEW h \in handlers, Sure(h)' PROVE Placed(h)'
  <2>1. Sure(h)
    BY <1>1, <1>11 DEF Sure
  <2>2. h.index \in 1..(Len(chosen) + Len(q)) /\ At(h.index).op = h.op
    BY <2>1 DEF KVInv, PlacesOK, Placed
  <2>3. h.index \in 1..(Len(chosen') + Len(pending'[elected']))
    <3>1. Len(chosen') + Len(t) = Len(chosen) + Len(q)
      <4> HIDE DEF q, t
      <4> QED  BY <1>3, <1>4, <1>6, <1>7
    <3> QED  BY <2>2, <3>1
  <2>4. At(h.index)' = At(h.index)
    <3>1. CASE h.index <= Len(chosen)
      BY <1>4, <1>7, <2>2, <3>1 DEF At
    <3>2. CASE h.index = Len(chosen) + 1
      BY <1>3, <1>4, <1>7, <2>2, <3>2 DEF At
    <3>3. CASE h.index > Len(chosen) + 1
      <4>1. h.index - (Len(chosen) + 1) \in 1..(Len(q) - 1)
        BY <1>3, <1>7, <2>2, <3>3
      <4>2. t[h.index - (Len(chosen) + 1)] = q[h.index - Len(chosen)]
        BY <1>3, <1>6, <1>7, <2>2, <4>1
      <4>3. At(h.index) = q[h.index - Len(chosen)]
        BY <1>7, <2>2, <3>3 DEF At
      <4>4. At(h.index)' = t[h.index - (Len(chosen) + 1)]
        <5>1. ~(h.index <= Len(chosen')) /\ h.index - Len(chosen') = h.index - (Len(chosen) + 1)
          BY <1>4, <1>7, <2>2, <3>3
        <5> QED  BY <5>1 DEF At
      <4> QED  BY <4>2, <4>3, <4>4
    <3> QED  BY <1>7, <2>2, <3>1, <3>2, <3>3
  <2> QED  BY <2>2, <2>3, <2>4 DEF Placed
<1>12. PlacesOK'
  BY <1>1, <1>11 DEF KVInv, PlacesOK
<1>13. AckedCommitted'
  <2>1. \A k \in DOMAIN chosen : k \in DOMAIN chosen' /\ chosen'[k] = chosen[k]
    BY <1>2, <1>4, <1>7
  <2> QED  BY <1>1, <2>1 DEF KVInv, AckedCommitted
<1> QED  BY <1>8, <1>9, <1>10, <1>12, <1>13 DEF KVInv

\* Sending on applyCh begins: the messages carry agreed indexes.
LEMMA DeliverKeeps ==
  ASSUME KVInv, NEW s \in Server, Deliver(s)
  PROVE  KVInv'
<1>1. PICK n \in (commitIndex[s] + 1)..Len(chosen) :
        /\ outbox' = [outbox EXCEPT ![s] = [k \in 1..(n - commitIndex[s]) |-> commitIndex[s] + k]]
        /\ commitIndex' = [commitIndex EXCEPT ![s] = n]
  BY DEF Deliver, Deliverable
<1>2. UNCHANGED <<raftVars, clientVars, install, booting, lastIndexInSnapshot, snapshot, got, rsm,
                  ClientMaxRequestSeq, curCommitIndex, snaps, upto, chosen>>
  BY DEF Deliver, diskVars, serviceVars, raftVars
<1>3. commitIndex[s] \in Nat /\ Len(chosen) \in Nat /\ n \in Nat
      /\ commitIndex[s] < n /\ n <= Len(chosen)
  BY DEF KVInv, IndexOK, LogsOK
<1> DEFINE new == [k \in 1..(n - commitIndex[s]) |-> commitIndex[s] + k]
<1>4. new \in Seq(Nat) /\ Len(new) = n - commitIndex[s] /\ \A k \in 1..Len(new) : new[k] \in 1..n
  <2>1. n - commitIndex[s] \in Nat
    BY <1>3
  <2>2. \A k \in 1..(n - commitIndex[s]) : new[k] \in Nat /\ new[k] \in 1..n
    BY <1>3
  <2>3. new \in Seq(Nat)
    <3>1. new \in [1..(n - commitIndex[s]) -> Nat]
      BY <2>2
    <3> QED  BY <2>1, <3>1, SeqDef
  <2>4. Len(new) = n - commitIndex[s]
    BY <2>1, <2>3, LenProperties
  <2> QED  BY <2>2, <2>3, <2>4
<1> HIDE DEF new
<1>5. /\ outbox' \in [Server -> Seq(Nat)] /\ commitIndex' \in [Server -> Nat]
      /\ outbox'[s] = new /\ commitIndex'[s] = n
      /\ \A r \in Server \ {s} : outbox'[r] = outbox[r] /\ commitIndex'[r] = commitIndex[r]
      /\ \A r \in Server : commitIndex[r] \in Nat /\ commitIndex[r] <= commitIndex'[r]
  BY <1>1, <1>3, <1>4 DEF KVInv, IndexOK, new
<1>6. MapsOK'
  BY <1>2 DEF KVInv, MapsOK
<1>7. IndexOK'
  <2>1. ASSUME NEW r \in Server
        PROVE  /\ commitIndex'[r] <= Len(chosen)
               /\ lastIndexInSnapshot[r] <= commitIndex'[r] /\ curCommitIndex[r] <= commitIndex'[r]
               /\ got[r] # None /\ got[r].valid => got[r].index \in 1..commitIndex'[r]
    <3>1. /\ commitIndex[r] \in Nat /\ commitIndex'[r] \in Nat /\ commitIndex[r] <= commitIndex'[r]
          /\ lastIndexInSnapshot[r] \in Nat /\ curCommitIndex[r] \in Nat
          /\ lastIndexInSnapshot[r] <= commitIndex[r] /\ curCommitIndex[r] <= commitIndex[r]
          /\ commitIndex[r] <= Len(chosen)
      BY <1>5 DEF KVInv, IndexOK
    <3>2. got[r] # None /\ got[r].valid => got[r].index \in 1..commitIndex[r]
      BY DEF KVInv, IndexOK
    <3>3. commitIndex'[r] <= Len(chosen)
      BY <1>3, <1>5, <3>1
    <3> QED  BY <3>1, <3>2, <3>3
  <2>2. ASSUME NEW r \in Server
        PROVE  \A k \in 1..Len(outbox'[r]) : outbox'[r][k] \in 1..commitIndex'[r]
    BY <1>4, <1>5 DEF KVInv, IndexOK
  <2>3. ASSUME NEW g \in snaps PROVE g.index <= commitIndex'[g.srv]
    BY <1>5 DEF KVInv, IndexOK, MapsOK, Snapper
  <2> QED  BY <1>2, <1>5, <2>1, <2>2, <2>3 DEF KVInv, IndexOK
<1> QED  BY <1>2, <1>6, <1>7, ServiceStep

\* A snapshot of the leader covers agreed entries only, and reaches no leader's log.
LEMMA InstallKeeps ==
  ASSUME KVInv, NEW s \in Server, Install(s)
  PROVE  KVInv'
<1> DEFINE data == snapshot[elected]
<1>1. /\ UNCHANGED <<chosen, leads, elected, term, outbox, booting, snapshot, got, rsm,
                     ClientMaxRequestSeq, curCommitIndex, snaps, upto, handlers, clerk, floor,
                     acked>>
      /\ lastIndexInSnapshot' = [lastIndexInSnapshot EXCEPT ![s] = data.index]
      /\ commitIndex' = [commitIndex EXCEPT ![s] = data.index]
      /\ pending' = [pending EXCEPT ![s] = << >>]
      /\ install' = [install EXCEPT ![s] = data]
      /\ s # elected /\ commitIndex[s] < data.index
  BY DEF Install, serviceVars, clientVars
<1>2. data \in Saved /\ data.index \in Nat /\ data.index <= Len(chosen)
  BY DEF KVInv, LogsOK, MapsOK, IndexOK, Saved
<1> HIDE DEF data
<1>3. LogsOK'
  BY <1>1 DEF KVInv, LogsOK
<1>4. MapsOK'
  BY <1>1, <1>2 DEF KVInv, MapsOK
<1>5. CallsOK'
  BY <1>1 DEF KVInv, CallsOK
<1>6. IndexOK'
  <2>1. /\ commitIndex' \in [Server -> Nat] /\ lastIndexInSnapshot' \in [Server -> Nat]
        /\ commitIndex'[s] = data.index /\ lastIndexInSnapshot'[s] = data.index
        /\ install'[s] = data
        /\ \A r \in Server \ {s} : /\ commitIndex'[r] = commitIndex[r]
                                   /\ lastIndexInSnapshot'[r] = lastIndexInSnapshot[r]
                                   /\ install'[r] = install[r]
        /\ \A r \in Server : commitIndex[r] \in Nat /\ commitIndex[r] <= commitIndex'[r]
    BY <1>1, <1>2 DEF KVInv, IndexOK, MapsOK
  <2>2. ASSUME NEW r \in Server
        PROVE  /\ commitIndex'[r] <= Len(chosen)
               /\ lastIndexInSnapshot'[r] <= commitIndex'[r]
               /\ install'[r] # None => install'[r].index <= Len(chosen)
    <3>1. CASE r = s
      BY <1>2, <2>1, <3>1
    <3>2. CASE r # s
      BY <2>1, <3>2 DEF KVInv, IndexOK
    <3> QED  BY <3>1, <3>2
  <2>3. ASSUME NEW r \in Server
        PROVE  /\ curCommitIndex[r] <= commitIndex'[r]
               /\ got[r] # None /\ got[r].valid => got[r].index \in 1..commitIndex'[r]
               /\ \A k \in 1..Len(outbox[r]) : outbox[r][k] \in 1..commitIndex'[r]
    BY <2>1 DEF KVInv, IndexOK
  <2>4. ASSUME NEW g \in snaps PROVE g.index <= commitIndex'[g.srv]
    BY <2>1 DEF KVInv, IndexOK, MapsOK, Snapper
  <2> QED  BY <1>1, <2>1, <2>2, <2>3, <2>4 DEF KVInv, IndexOK
<1>7. PlacesOK'
  <2>1. pending'[elected] = pending[elected]
    BY <1>1 DEF KVInv, LogsOK
  <2> QED  BY <1>1, <2>1 DEF KVInv, PlacesOK, Placed, At, Sure
<1>8. AckedCommitted'
  BY <1>1 DEF KVInv, AckedCommitted
<1> QED  BY <1>3, <1>4, <1>5, <1>6, <1>7, <1>8 DEF KVInv

-----------------------------------------------------------------------------
(* mainProcess.                                                            *)

\* mainProcess takes a command.
LEMMA ReceiveCommandKeeps ==
  ASSUME KVInv, NEW s \in Server, ReceiveCommand(s)
  PROVE  KVInv'
<1>1. /\ UNCHANGED <<raftVars, clientVars, commitIndex, install, booting, lastIndexInSnapshot,
                     snapshot, rsm, ClientMaxRequestSeq, curCommitIndex, snaps, upto, chosen>>
      /\ got' = [got EXCEPT ![s] = [valid |-> TRUE, index |-> Head(outbox[s])]]
      /\ outbox' = [outbox EXCEPT ![s] = Tail(outbox[s])]
      /\ outbox[s] # << >>
  BY DEF ReceiveCommand, raftVars, diskVars
<1>2. outbox \in [Server -> Seq(Nat)] /\ outbox[s] \in Seq(Nat)
  BY DEF KVInv, IndexOK
<1>3. /\ Tail(outbox[s]) \in Seq(Nat) /\ Len(Tail(outbox[s])) = Len(outbox[s]) - 1
      /\ Len(outbox[s]) \in Nat \ {0}
      /\ Head(outbox[s]) = outbox[s][1]
      /\ \A k \in 1..(Len(outbox[s]) - 1) : Tail(outbox[s])[k] = outbox[s][k + 1]
  BY <1>1, <1>2, HeadTailProperties, EmptySeq, LenProperties
<1>4. \A k \in 1..Len(outbox[s]) : outbox[s][k] \in 1..commitIndex[s]
  BY DEF KVInv, IndexOK
<1>5. /\ Head(outbox[s]) \in 1..commitIndex[s]
      /\ \A k \in 1..Len(Tail(outbox[s])) : Tail(outbox[s])[k] \in 1..commitIndex[s]
  BY <1>3, <1>4
<1>6. /\ DOMAIN got' = Server /\ got'[s].valid /\ got'[s].index = Head(outbox[s])
      /\ outbox' \in [Server -> Seq(Nat)] /\ outbox'[s] = Tail(outbox[s])
      /\ \A r \in Server \ {s} : got'[r] = got[r] /\ outbox'[r] = outbox[r]
  BY <1>1, <1>2, <1>3 DEF KVInv, MapsOK
<1>7. MapsOK'
  BY <1>1, <1>6 DEF KVInv, MapsOK
<1>8. IndexOK'
  <2>1. ASSUME NEW r \in Server
        PROVE  /\ got'[r] # None /\ got'[r].valid => got'[r].index \in 1..commitIndex[r]
               /\ \A k \in 1..Len(outbox'[r]) : outbox'[r][k] \in 1..commitIndex[r]
    BY <1>5, <1>6 DEF KVInv, IndexOK
  <2> QED  BY <1>1, <1>6, <2>1 DEF KVInv, IndexOK
<1> QED  BY <1>1, <1>7, <1>8, ServiceStep

\* mainProcess takes a snapshot, which is saved.
LEMMA ReceiveSnapshotKeeps ==
  ASSUME KVInv, NEW s \in Server, ReceiveSnapshot(s)
  PROVE  KVInv'
<1>1. /\ UNCHANGED <<raftVars, clientVars, commitIndex, outbox, lastIndexInSnapshot, rsm,
                     ClientMaxRequestSeq, curCommitIndex, snaps, upto, chosen>>
      /\ got' = [got EXCEPT ![s] = [valid |-> FALSE, data |-> install[s]]]
      /\ install' = [install EXCEPT ![s] = None]
      /\ snapshot' = [snapshot EXCEPT ![s] = install[s]]
      /\ booting' = booting \ {s}
      /\ install[s] # None
  BY DEF ReceiveSnapshot, raftVars
<1>2. install[s] \in Saved /\ install[s].index <= Len(chosen)
  BY <1>1 DEF KVInv, MapsOK, IndexOK
<1>3. /\ DOMAIN got' = Server /\ ~got'[s].valid /\ got'[s].data = install[s]
      /\ \A r \in Server \ {s} : got'[r] = got[r]
  BY <1>1 DEF KVInv, MapsOK
<1>4. MapsOK'
  BY <1>1, <1>2, <1>3 DEF KVInv, MapsOK
<1>5. /\ snapshot'[s] = install[s] /\ install'[s] = None
      /\ \A r \in Server \ {s} : snapshot'[r] = snapshot[r] /\ install'[r] = install[r]
  BY <1>1 DEF KVInv, MapsOK
<1>6. IndexOK'
  BY <1>1, <1>2, <1>3, <1>5 DEF KVInv, IndexOK
<1> QED  BY <1>1, <1>4, <1>6, ServiceStep

\* The maps of the message replace those of the service; TakeSnapshots keeps the
\* old ones.
LEMMA ApplySnapshotKeeps ==
  ASSUME KVInv, NEW s \in Server, ApplySnapshot(s)
  PROVE  KVInv'
<1> DEFINE data == got[s].data
           here == [seqs |-> ClientMaxRequestSeq[s], rsm |-> rsm[s], upto |-> upto[s]]
           kept(g) == IF g.srv = s /\ g.old = None THEN [g EXCEPT !.old = here] ELSE g
<1>1. /\ UNCHANGED <<raftVars, clientVars, commitIndex, outbox, install, booting,
                     lastIndexInSnapshot, snapshot, curCommitIndex, chosen>>
      /\ got' = [got EXCEPT ![s] = None]
      /\ ClientMaxRequestSeq' = [ClientMaxRequestSeq EXCEPT ![s] = data.seqs]
      /\ rsm' = [rsm EXCEPT ![s] = data.rsm]
      /\ upto' = [upto EXCEPT ![s] = data.upto]
      /\ snaps' = {kept(g) : g \in snaps}
      /\ got[s] # None /\ ~got[s].valid
  BY DEF ApplySnapshot, RestoredSeqs, raftVars, applyVars, diskVars
<1>2. data \in Saved
  BY <1>1 DEF KVInv, MapsOK
<1>3. here \in Maps
  BY DEF KVInv, MapsOK, Maps
<1>4. /\ DOMAIN got' = Server /\ got'[s] = None
      /\ \A r \in Server \ {s} : got'[r] = got[r]
  BY <1>1 DEF KVInv, MapsOK
<1>5. \A g \in snaps : kept(g) \in Snapper /\ kept(g).index = g.index /\ kept(g).srv = g.srv
  <2> HIDE DEF here
  <2> QED  BY <1>3 DEF KVInv, MapsOK, Snapper
<1>6. MapsOK'
  <2>1. snaps' \subseteq Snapper
    BY <1>1, <1>5
  <2>2. /\ rsm' \in [Server -> [Key -> Seq(Value)]]
        /\ ClientMaxRequestSeq' \in [Server -> [Clerk -> Nat]]
        /\ upto' \in [Server -> Nat]
    BY <1>1, <1>2 DEF KVInv, MapsOK, Saved
  <2> QED  BY <1>1, <1>4, <2>1, <2>2 DEF KVInv, MapsOK
<1>7. IndexOK'
  <2>1. \A g \in snaps' : g.index <= commitIndex[g.srv]
    <3> HIDE DEF kept
    <3> QED  BY <1>1, <1>5 DEF KVInv, IndexOK
  <2> QED  BY <1>1, <1>4, <2>1 DEF KVInv, IndexOK
<1> QED  BY <1>1, <1>6, <1>7, ServiceStep

\* Put and Append keep the store a store.
LEMMA WrittenType ==
  ASSUME NEW data \in [Key -> Seq(Value)], NEW req \in Request
  PROVE  Written(data, req) \in [Key -> Seq(Value)]
<1>1. req.key \in Key /\ req.value \in Value
  BY DEF Request
<1>2. <<req.value>> \in Seq(Value) /\ Append(data[req.key], req.value) \in Seq(Value)
  BY <1>1, AppendProperties
<1> QED  BY <1>1, <1>2 DEF Written

\* A command is applied, and perhaps a snapshot is asked for.
LEMMA ApplyCommandKeeps ==
  ASSUME KVInv, NEW s \in Server, ApplyCommand(s)
  PROVE  KVInv'
<1> DEFINE index == got[s].index
           op == chosen[index].op
           new == [srv |-> s, index |-> index, st |-> "new", old |-> None]
           max(m) == IF m < index THEN index ELSE m
<1>1. /\ UNCHANGED <<raftVars, clientVars, commitIndex, outbox, install, booting,
                     lastIndexInSnapshot, snapshot, chosen>>
      /\ got' = [got EXCEPT ![s] = None]
      /\ curCommitIndex' = [curCommitIndex EXCEPT ![s] = max(curCommitIndex[s])]
      /\ upto' = [upto EXCEPT ![s] = max(upto[s])]
      /\ got[s] # None /\ got[s].valid
  BY DEF ApplyCommand, raftVars, applyVars
<1>2. index \in 1..commitIndex[s] /\ commitIndex[s] \in Nat /\ commitIndex[s] <= Len(chosen)
  BY <1>1 DEF KVInv, IndexOK
<1>3. op \in Op
  <2>1. index \in 1..Len(chosen) /\ chosen \in Seq(Entry)
    BY <1>2 DEF KVInv, LogsOK
  <2>2. chosen[index] \in Entry
    BY <2>1, ElementOfSeq
  <2> QED  BY <2>2 DEF Entry
<1>4. op.req \in Request /\ op.client \in Clerk /\ op.seq \in Nat
  BY <1>3 DEF Op
<1>5. snaps' = snaps \/ snaps' = snaps \cup {new}
  BY DEF ApplyCommand, Outgrown
<1>6. new \in Snapper
  BY <1>2 DEF Snapper
<1>7. /\ rsm' \in [Server -> [Key -> Seq(Value)]]
      /\ ClientMaxRequestSeq' \in [Server -> [Clerk -> Nat]]
  <2>1. CASE UNCHANGED <<rsm, ClientMaxRequestSeq>>
    BY <2>1 DEF KVInv, MapsOK
  <2>2. CASE /\ ClientMaxRequestSeq' = [ClientMaxRequestSeq EXCEPT ![s][op.client] = op.seq]
             /\ rsm' = [rsm EXCEPT ![s] = Written(rsm[s], op.req)]
    <3>1. Written(rsm[s], op.req) \in [Key -> Seq(Value)]
      BY <1>4, WrittenType DEF KVInv, MapsOK
    <3> HIDE DEF op
    <3>2. rsm' \in [Server -> [Key -> Seq(Value)]]
      BY <2>2, <3>1 DEF KVInv, MapsOK
    <3>3. ClientMaxRequestSeq' \in [Server -> [Clerk -> Nat]]
      BY <1>4, <2>2 DEF KVInv, MapsOK
    <3> QED  BY <3>2, <3>3
  <2> QED  BY <2>1, <2>2 DEF ApplyCommand
<1>8. /\ DOMAIN got' = Server /\ got'[s] = None
      /\ \A r \in Server \ {s} : got'[r] = got[r]
  BY <1>1 DEF KVInv, MapsOK
<1> HIDE DEF index, op, new
<1>9. MapsOK'
  <2>1. snaps' \subseteq Snapper
    BY <1>5, <1>6 DEF KVInv, MapsOK
  <2>2. upto' \in [Server -> Nat]
    BY <1>1, <1>2 DEF KVInv, MapsOK
  <2> QED  BY <1>1, <1>7, <1>8, <2>1, <2>2 DEF KVInv, MapsOK
<1>10. IndexOK'
  <2>1. new.index <= commitIndex[new.srv]
    BY <1>2 DEF new
  <2>2. \A g \in snaps' : g.index <= commitIndex[g.srv]
    BY <1>5, <2>1 DEF KVInv, IndexOK
  <2>3. curCommitIndex' \in [Server -> Nat] /\ \A r \in Server : curCommitIndex'[r] <= commitIndex[r]
    BY <1>1, <1>2 DEF KVInv, IndexOK
  <2> QED  BY <1>1, <1>8, <2>2, <2>3 DEF KVInv, IndexOK
<1> QED  BY <1>1, <1>9, <1>10, ServiceStep

-----------------------------------------------------------------------------
(* TakeSnapshots, and a crash.                                             *)

\* TakeSnapshots returns at once, or takes rf.mu.
LEMMA SnapshotReturnLockKeeps ==
  ASSUME KVInv, NEW g \in snaps, SnapshotReturn(g) \/ SnapshotLock(g)
  PROVE  KVInv'
<1> DEFINE new == [g EXCEPT !.st = "locked"]
<1>1. UNCHANGED <<raftVars, clientVars, chosen, commitIndex, outbox, install, booting,
                  lastIndexInSnapshot, snapshot, got, rsm, ClientMaxRequestSeq, curCommitIndex,
                  upto>>
  BY DEF SnapshotReturn, SnapshotLock, raftVars, applyVars, diskVars
<1>2. snaps' \subseteq snaps \cup {new}
  BY DEF SnapshotReturn, SnapshotLock
<1>3. new \in Snapper /\ new.index = g.index /\ new.srv = g.srv
  BY DEF KVInv, MapsOK, Snapper
<1> HIDE DEF new
<1>4. MapsOK'
  BY <1>1, <1>2, <1>3 DEF KVInv, MapsOK
<1>5. IndexOK'
  BY <1>1, <1>2, <1>3 DEF KVInv, IndexOK
<1> QED  BY <1>1, <1>4, <1>5, ServiceStep

\* The snapshot ends one entry before the command that asked for it.
LEMMA SnapshotSaveKeeps ==
  ASSUME KVInv, NEW g \in snaps, SnapshotSave(g)
  PROVE  KVInv'
<1> DEFINE s == g.srv
           here == [seqs |-> ClientMaxRequestSeq[s], rsm |-> rsm[s], upto |-> upto[s]]
           maps == IF g.old = None THEN here ELSE g.old
           new == [index |-> g.index - 1, seqs |-> maps.seqs, rsm |-> maps.rsm, upto |-> maps.upto]
<1>1. /\ UNCHANGED <<raftVars, clientVars, chosen, commitIndex, outbox, install, booting, got, rsm,
                     ClientMaxRequestSeq, curCommitIndex, upto>>
      /\ snaps' = snaps \ {g}
      /\ lastIndexInSnapshot' = [lastIndexInSnapshot EXCEPT ![s] = g.index - 1]
      /\ snapshot' = [snapshot EXCEPT ![s] = new]
  BY DEF SnapshotSave, raftVars, applyVars
<1>2. s \in Server /\ g.index \in Nat \ {0} /\ g.old \in Maps \cup {None}
  BY DEF KVInv, MapsOK, Snapper
<1>3. maps \in Maps
  <2>1. here \in Maps
    BY <1>2 DEF KVInv, MapsOK, Maps
  <2> HIDE DEF here
  <2> QED  BY <1>2, <2>1
<1> HIDE DEF maps
<1>4. g.index - 1 \in Nat /\ new \in Saved /\ new.index = g.index - 1
  BY <1>2, <1>3 DEF Maps, Saved
<1>5. g.index <= commitIndex[s] /\ commitIndex[s] \in Nat /\ commitIndex[s] <= Len(chosen)
      /\ Len(chosen) \in Nat
  BY <1>2 DEF KVInv, IndexOK, LogsOK
<1> HIDE DEF new, s
<1>6. MapsOK'
  BY <1>1, <1>2, <1>4 DEF KVInv, MapsOK
<1>7. IndexOK'
  <2>1. /\ lastIndexInSnapshot' \in [Server -> Nat]
        /\ lastIndexInSnapshot'[s] = g.index - 1 /\ snapshot'[s] = new
        /\ \A r \in Server \ {s} : /\ lastIndexInSnapshot'[r] = lastIndexInSnapshot[r]
                                   /\ snapshot'[r] = snapshot[r]
    BY <1>1, <1>2, <1>4 DEF KVInv, IndexOK, MapsOK
  <2>2. ASSUME NEW r \in Server
        PROVE  lastIndexInSnapshot'[r] <= commitIndex[r] /\ snapshot'[r].index <= Len(chosen)
    <3>1. CASE r = s
      BY <1>2, <1>4, <1>5, <2>1, <3>1
    <3>2. CASE r # s
      BY <2>1, <3>2 DEF KVInv, IndexOK
    <3> QED  BY <3>1, <3>2
  <2> QED  BY <1>1, <2>1, <2>2 DEF KVInv, IndexOK
<1> QED  BY <1>1, <1>6, <1>7, ServiceStep

\* A server that starts again knows its snapshot and nothing else.
LEMMA CrashKeeps ==
  ASSUME KVInv, NEW s \in Server, Crash(s)
  PROVE  KVInv'
<1> DEFINE saved == snapshot[s]
<1>1. /\ UNCHANGED <<chosen, pending, elected, term, snapshot, clerk, floor, acked>>
      /\ leads' = leads \ {s}
      /\ snaps' = {g \in snaps : g.srv # s}
      /\ handlers' = {h \in handlers : h.srv # s}
      /\ booting' \subseteq booting \cup {s}
  BY DEF Crash
<1>2. /\ outbox' = [outbox EXCEPT ![s] = << >>]
      /\ install' = [install EXCEPT ![s] = IF saved.index > 0 THEN saved ELSE None]
      /\ commitIndex' = [commitIndex EXCEPT ![s] = saved.index]
      /\ lastIndexInSnapshot' = [lastIndexInSnapshot EXCEPT ![s] = saved.index]
      /\ got' = [got EXCEPT ![s] = None]
      /\ rsm' = [rsm EXCEPT ![s] = NoData]
      /\ ClientMaxRequestSeq' = [ClientMaxRequestSeq EXCEPT ![s] = NoSeqs]
      /\ curCommitIndex' = [curCommitIndex EXCEPT ![s] = 0]
      /\ upto' = [upto EXCEPT ![s] = 0]
  BY DEF Crash
<1>3. saved \in Saved /\ saved.index \in Nat /\ saved.index <= Len(chosen)
  BY DEF KVInv, MapsOK, IndexOK, Saved
<1> HIDE DEF saved
<1>4. LogsOK'
  BY <1>1 DEF KVInv, LogsOK
<1>5. CallsOK'
  BY <1>1 DEF KVInv, CallsOK
<1>6. PlacesOK'
  BY <1>1, FewerPlaces DEF KVInv
<1>7. AckedCommitted'
  BY <1>1 DEF KVInv, AckedCommitted
<1>8. /\ DOMAIN got' = Server /\ got'[s] = None
      /\ \A r \in Server \ {s} : got'[r] = got[r]
  BY <1>2 DEF KVInv, MapsOK
<1>9. MapsOK'
  <2>1. NoData \in [Key -> Seq(Value)] /\ NoSeqs \in [Clerk -> Nat]
    BY EmptySeq DEF NoData, NoSeqs
  <2>2. install' \in [Server -> Saved \cup {None}]
    BY <1>2, <1>3 DEF KVInv, MapsOK
  <2> QED  BY <1>1, <1>2, <1>8, <2>1, <2>2 DEF KVInv, MapsOK
<1>10. IndexOK'
  <2>1. /\ commitIndex' \in [Server -> Nat] /\ lastIndexInSnapshot' \in [Server -> Nat]
        /\ curCommitIndex' \in [Server -> Nat] /\ outbox' \in [Server -> Seq(Nat)]
    BY <1>2, <1>3, EmptySeq DEF KVInv, IndexOK
  <2>2. /\ commitIndex'[s] = saved.index /\ lastIndexInSnapshot'[s] = saved.index
        /\ curCommitIndex'[s] = 0 /\ outbox'[s] = << >>
        /\ install'[s] # None => install'[s] = saved
    BY <1>2 DEF KVInv, IndexOK, MapsOK
  <2>3. \A r \in Server \ {s} :
          /\ commitIndex'[r] = commitIndex[r] /\ curCommitIndex'[r] = curCommitIndex[r]
          /\ lastIndexInSnapshot'[r] = lastIndexInSnapshot[r]
          /\ outbox'[r] = outbox[r] /\ install'[r] = install[r]
    BY <1>2 DEF KVInv, IndexOK, MapsOK
  <2>4. ASSUME NEW r \in Server
        PROVE  /\ commitIndex'[r] <= Len(chosen)
               /\ lastIndexInSnapshot'[r] <= commitIndex'[r] /\ curCommitIndex'[r] <= commitIndex'[r]
               /\ install'[r] # None => install'[r].index <= Len(chosen)
               /\ got'[r] # None /\ got'[r].valid => got'[r].index \in 1..commitIndex'[r]
               /\ \A k \in 1..Len(outbox'[r]) : outbox'[r][k] \in 1..commitIndex'[r]
    <3>1. CASE r = s
      BY <1>3, <1>8, <2>2, <3>1
    <3>2. CASE r # s
      BY <1>8, <2>3, <3>2 DEF KVInv, IndexOK
    <3> QED  BY <3>1, <3>2
  <2>5. \A g \in snaps' : g.index <= commitIndex'[g.srv]
    BY <1>1, <2>3 DEF KVInv, IndexOK, MapsOK, Snapper
  <2> QED  BY <1>1, <2>1, <2>4, <2>5 DEF KVInv, IndexOK
<1> QED  BY <1>4, <1>5, <1>6, <1>7, <1>9, <1>10 DEF KVInv

-----------------------------------------------------------------------------
(* The clerks and the handlers.                                            *)

\* A clerk that has no handler any more goes on.
LEMMA ClerkGoesOn ==
  ASSUME CallsOK, NEW c \in Clerk, NEW q \in ClerkState, q.st # "idle" => q.req \in Request,
         clerk' = [clerk EXCEPT ![c] = q], floor' \in Nat, handlers' \subseteq handlers,
         \A h \in handlers' : h.op.client = c => ~h.live
  PROVE  CallsOK'
<1>1. /\ clerk' \in [Clerk -> ClerkState] /\ clerk'[c] = q
      /\ \A d \in Clerk \ {c} : clerk'[d] = clerk[d]
  BY DEF CallsOK
<1>2. \A h \in handlers' : h.op.client \in Clerk
  BY DEF CallsOK, Handler, Op
<1>3. \A d \in Clerk : clerk'[d].st # "idle" => clerk'[d].req \in Request
  BY <1>1 DEF CallsOK
<1>4. ASSUME NEW h \in handlers'
      PROVE  /\ h.st # "start" => h.live
             /\ h.live => clerk'[h.op.client].st = "wait"
             /\ \A g \in handlers' : g.live /\ h.live /\ g.op.client = h.op.client => g = h
  BY <1>1, <1>2 DEF CallsOK
<1> QED  BY <1>1, <1>3, <1>4 DEF CallsOK

\* The handler that answers a clerk is the last one of the clerk that is listened to.
LEMMA AnswersLast ==
  ASSUME CallsOK, NEW h \in handlers, h.st # "start"
  PROVE  /\ h.op.client \in Clerk /\ clerk[h.op.client] \in ClerkState
         /\ clerk[h.op.client].st = "wait" /\ clerk[h.op.client].req \in Request
         /\ \A g \in handlers \ {h} : g.op.client = h.op.client => ~g.live
<1>1. h.op.client \in Clerk /\ h.live
  BY DEF CallsOK, Handler, Op
<1>2. clerk[h.op.client] \in ClerkState /\ clerk[h.op.client].st = "wait"
  BY <1>1 DEF CallsOK
<1> QED  BY <1>1, <1>2 DEF CallsOK

\* The clerk of TryAnother.
LEMMA TryAnotherType ==
  ASSUME NEW r \in ClerkState, r.req \in Request
  PROVE  LET q == [r EXCEPT !.st = "send", !.leader = None]
         IN  q \in ClerkState /\ q.st = "send" /\ q.req \in Request
  BY DEF ClerkState

\* TryAnother replaces one record.
LEMMA TryAnotherIs ==
  ASSUME CallsOK, NEW c \in Clerk
  PROVE  TryAnother(c) = [clerk EXCEPT ![c] = [clerk[c] EXCEPT !.st = "send", !.leader = None]]
  BY DEF CallsOK, ClerkState, TryAnother

\* A clerk takes the next request of its script.
LEMMA ClerkBeginKeeps ==
  ASSUME KVInv, NEW c \in Clerk, ClerkBegin(c)
  PROVE  KVInv'
<1>1. PICK req \in (IF clerk[c].seq <= Len(Script[c]) THEN Script[c][clerk[c].seq] ELSE {}) :
        /\ clerk[c].st = "idle"
        /\ clerk' = [clerk EXCEPT ![c].st = "send", ![c].req = req, ![c].floor = floor]
        /\ UNCHANGED <<raftVars, applyVars, diskVars, serviceVars, handlers, floor, acked>>
  BY DEF ClerkBegin
<1>2. clerk \in [Clerk -> ClerkState] /\ clerk[c] \in ClerkState /\ floor \in Nat
  BY DEF KVInv, CallsOK
<1>3. req \in Request
  <2>1. clerk[c].seq <= Len(Script[c]) /\ req \in Script[c][clerk[c].seq]
    BY <1>1
  <2>2. Script[c] \in Seq(SUBSET Request)
    BY KVAssumption
  <2>3. clerk[c].seq \in 1..Len(Script[c])
    BY <1>2, <2>1, <2>2, LenProperties DEF ClerkState
  <2> QED  BY <2>1, <2>2, <2>3, ElementOfSeq
<1> DEFINE q == [clerk[c] EXCEPT !.st = "send", !.req = req, !.floor = floor]
<1>4. q \in ClerkState /\ q.req \in Request
  BY <1>2, <1>3 DEF ClerkState
<1>5. clerk' = [clerk EXCEPT ![c] = q]
  BY <1>1, <1>2 DEF ClerkState
<1> HIDE DEF q
<1>6. \A h \in handlers : h.op.client = c => ~h.live
  BY <1>1 DEF KVInv, CallsOK
<1>7. CallsOK'
  BY <1>1, <1>2, <1>4, <1>5, <1>6, ClerkGoesOn DEF KVInv
<1>8. PlacesOK'
  BY <1>1, FewerPlaces DEF KVInv, raftVars
<1>9. AckedCommitted'
  BY <1>1 DEF KVInv, AckedCommitted, raftVars
<1> QED  BY <1>1, <1>7, <1>8, <1>9, ClientStep

\* A call reaches a server, which starts a handler or turns it away.
LEMMA CallKeeps ==
  ASSUME KVInv, NEW c \in Clerk, NEW s \in Server, Call(c, s)
  PROVE  KVInv'
<1> DEFINE new == [srv |-> s, st |-> "start", index |-> -1, term |-> NoTerm, live |-> TRUE,
                   op |-> [client |-> c, seq |-> clerk[c].seq, req |-> clerk[c].req]]
<1>1. /\ clerk[c].st = "send"
      /\ UNCHANGED <<raftVars, applyVars, diskVars, serviceVars, floor, acked, chosen, pending,
                     elected, term>>
  BY DEF Call, raftVars
<1>2. clerk \in [Clerk -> ClerkState] /\ clerk[c] \in ClerkState /\ floor \in Nat
      /\ clerk[c].req \in Request
  BY <1>1 DEF KVInv, CallsOK
<1>3. \A h \in handlers : h.op.client = c => ~h.live
  BY <1>1 DEF KVInv, CallsOK
<1>4. CASE s \in leads /\ s \notin booting
  <2>1. handlers' = handlers \cup {new}
    BY <1>4 DEF Call
  <2> DEFINE q == [clerk[c] EXCEPT !.st = "wait", !.leader = s]
  <2>2. q \in ClerkState /\ q.st = "wait" /\ q.req \in Request
    BY <1>2 DEF ClerkState
  <2>3. clerk' = [clerk EXCEPT ![c] = q]
    BY <1>2, <1>4 DEF Call, ClerkState
  <2>4. new \in Handler /\ new.st = "start" /\ new.live /\ new.op.client = c /\ new.term = 0
    BY <1>2 DEF Handler, Op, NoTerm, ClerkState
  <2> HIDE DEF q, new
  <2>5. /\ clerk' \in [Clerk -> ClerkState] /\ clerk'[c] = q
        /\ \A d \in Clerk \ {c} : clerk'[d] = clerk[d]
    BY <1>2, <2>2, <2>3
  <2>6. \A d \in Clerk : clerk'[d].st # "idle" => clerk'[d].req \in Request
    BY <2>2, <2>5 DEF KVInv, CallsOK
  <2>7. \A h \in handlers : h.op.client \in Clerk
    BY DEF KVInv, CallsOK, Handler, Op
  <2>8. ASSUME NEW h \in handlers'
        PROVE  /\ h.st # "start" => h.live
               /\ h.live => clerk'[h.op.client].st = "wait"
               /\ \A g \in handlers' : g.live /\ h.live /\ g.op.client = h.op.client => g = h
    <3>1. CASE h = new
      BY <1>3, <2>1, <2>2, <2>4, <2>5, <3>1
    <3>2. CASE h \in handlers
      BY <1>3, <2>1, <2>4, <2>5, <2>7, <3>2 DEF KVInv, CallsOK
    <3> QED  BY <2>1, <3>1, <3>2
  <2>9. CallsOK'
    BY <1>1, <1>2, <2>1, <2>4, <2>5, <2>6, <2>8 DEF KVInv, CallsOK
  <2>10. PlacesOK'
    <3>1. term \in Nat /\ 0 <= term /\ term # 0
      BY DEF KVInv, LogsOK
    <3>2. \A h \in handlers' : h.term <= term /\ (h.st = "start" => h.term = 0)
      BY <2>1, <2>4, <3>1 DEF KVInv, PlacesOK
    <3>3. \A h \in handlers' : h.term = term => h \in handlers
      BY <2>1, <2>4, <3>1
    <3> QED  BY <1>1, <3>2, <3>3 DEF KVInv, PlacesOK, Placed, At, Sure
  <2>11. AckedCommitted'
    BY <1>1 DEF KVInv, AckedCommitted
  <2> QED  BY <1>1, <2>9, <2>10, <2>11, ClientStep
<1>5. CASE ~(s \in leads /\ s \notin booting)
  <2>1. clerk' = TryAnother(c) /\ UNCHANGED handlers
    BY <1>5 DEF Call
  <2>2. CallsOK'
    BY <1>1, <1>2, <1>3, <2>1, TryAnotherIs, TryAnotherType, ClerkGoesOn DEF KVInv
  <2>3. PlacesOK'
    BY <1>1, <2>1, FewerPlaces DEF KVInv
  <2>4. AckedCommitted'
    BY <1>1 DEF KVInv, AckedCommitted
  <2> QED  BY <1>1, <2>2, <2>3, <2>4, ClientStep
<1> QED  BY <1>4, <1>5

\* A call that fails leaves a handler behind only if it has not called Start yet.
LEMMA CallFailsKeeps ==
  ASSUME KVInv, NEW c \in Clerk, CallFails(c)
  PROVE  KVInv'
<1> DEFINE mute(h) == [h EXCEPT !.live = FALSE]
           late == {h \in HandlersOf(c) : h.st = "start"}
           left == handlers \ HandlersOf(c)
<1>1. /\ clerk[c].st = "wait" /\ clerk' = TryAnother(c)
      /\ handlers' = left \cup {mute(h) : h \in late}
      /\ UNCHANGED <<raftVars, applyVars, diskVars, serviceVars, floor, acked, chosen, pending,
                     elected, term>>
  BY DEF CallFails, raftVars
<1>2. clerk[c] \in ClerkState /\ clerk[c].req \in Request /\ floor \in Nat
  BY <1>1 DEF KVInv, CallsOK
<1> DEFINE q == [clerk[c] EXCEPT !.st = "send", !.leader = None]
<1>3. q \in ClerkState /\ q.req \in Request /\ clerk' = [clerk EXCEPT ![c] = q]
  BY <1>1, <1>2, TryAnotherIs, TryAnotherType DEF KVInv
<1> HIDE DEF q
<1>4. /\ clerk' \in [Clerk -> ClerkState] /\ clerk'[c] = q
      /\ \A d \in Clerk \ {c} : clerk'[d] = clerk[d]
  BY <1>3 DEF KVInv, CallsOK
<1>5. \A h \in left : h \in handlers /\ h.op.client \in Clerk /\ (h.live => h.op.client # c)
  BY DEF KVInv, CallsOK, Handler, Op, HandlersOf
<1>6. \A h \in late : /\ mute(h) \in Handler /\ ~mute(h).live /\ mute(h).st = "start"
                      /\ mute(h).term = 0
  BY DEF KVInv, CallsOK, PlacesOK, Handler, HandlersOf
<1> HIDE DEF mute, late, left
<1>7. \A h \in handlers' :
        h \in left \/ (h \in Handler /\ ~h.live /\ h.st = "start" /\ h.term = 0)
  BY <1>1, <1>6
<1>8. CallsOK'
  <2>1. \A d \in Clerk : clerk'[d].st # "idle" => clerk'[d].req \in Request
    BY <1>3, <1>4 DEF KVInv, CallsOK
  <2>2. handlers' \subseteq Handler
    BY <1>5, <1>7 DEF KVInv, CallsOK
  <2>3. ASSUME NEW h \in handlers'
        PROVE  /\ h.st # "start" => h.live
               /\ h.live => clerk'[h.op.client].st = "wait"
               /\ \A g \in handlers' : g.live /\ h.live /\ g.op.client = h.op.client => g = h
    BY <1>4, <1>5, <1>7 DEF KVInv, CallsOK
  <2> QED  BY <1>1, <1>2, <1>4, <2>1, <2>2, <2>3 DEF CallsOK
<1>9. PlacesOK'
  <2>1. term \in Nat /\ 0 <= term /\ term # 0
    BY DEF KVInv, LogsOK
  <2>2. \A h \in handlers' : h.term <= term /\ (h.st = "start" => h.term = 0)
    BY <1>5, <1>7, <2>1 DEF KVInv, PlacesOK
  <2>3. \A h \in handlers' : h.term = term => h \in handlers
    BY <1>5, <1>7, <2>1
  <2> QED  BY <1>1, <2>2, <2>3 DEF KVInv, PlacesOK, Placed, At, Sure
<1>10. AckedCommitted'
  BY <1>1 DEF KVInv, AckedCommitted
<1> QED  BY <1>1, <1>8, <1>9, <1>10, ClientStep

\* A clerk whose server has been stopped.
LEMMA CallDiesKeeps ==
  ASSUME KVInv, NEW c \in Clerk, CallDies(c)
  PROVE  KVInv'
<1>1. /\ clerk[c].st = "wait" /\ clerk' = TryAnother(c) /\ HandlersOf(c) = {}
      /\ UNCHANGED <<raftVars, applyVars, diskVars, serviceVars, handlers, floor, acked, chosen,
                     pending, elected, term>>
  BY DEF CallDies, raftVars
<1>2. clerk[c] \in ClerkState /\ clerk[c].req \in Request /\ floor \in Nat
  BY <1>1 DEF KVInv, CallsOK
<1>3. \A h \in handlers : h.op.client = c => ~h.live
  BY <1>1 DEF HandlersOf
<1>4. CallsOK'
  BY <1>1, <1>2, <1>3, TryAnotherIs, TryAnotherType, ClerkGoesOn DEF KVInv
<1>5. PlacesOK'
  BY <1>1, FewerPlaces DEF KVInv
<1>6. AckedCommitted'
  BY <1>1 DEF KVInv, AckedCommitted
<1> QED  BY <1>1, <1>4, <1>5, <1>6, ClientStep

\* Start appends the command at the index it returns.
LEMMA HandlerStartKeeps ==
  ASSUME KVInv, NEW h \in handlers, HandlerStart(h)
  PROVE  KVInv'
<1> DEFINE s == h.srv
           index == Len(chosen) + Len(pending[s]) + 1
           now == IF s = elected THEN term ELSE NoTerm
<1>e. PICK e : e = [op |-> h.op, by |-> <<s, term>>]
  OBVIOUS
<1>s. PICK started :
        started = IF s \in leads
                    THEN [h EXCEPT !.st = "wait", !.index = index, !.term = now]
                    ELSE [h EXCEPT !.st = "wait"]
  OBVIOUS
<1>1. /\ h.st = "start"
      /\ handlers' = (handlers \ {h}) \cup (IF h.live THEN {started} ELSE {})
      /\ pending' = IF s \in leads THEN [pending EXCEPT ![s] = Append(@, e)] ELSE pending
      /\ UNCHANGED <<chosen, leads, elected, term, commitIndex, outbox, install, booting,
                     lastIndexInSnapshot, snapshot, got, rsm, ClientMaxRequestSeq,
                     curCommitIndex, snaps, upto, clerk, floor, acked>>
  BY <1>e, <1>s DEF HandlerStart, applyVars, diskVars, serviceVars
<1>2. h \in Handler /\ s \in Server /\ h.op \in Op /\ h.term = 0
  BY <1>1 DEF KVInv, CallsOK, PlacesOK, Handler
<1>3. /\ chosen \in Seq(Entry) /\ pending \in [Server -> Seq(Entry)]
      /\ elected \in Server /\ term \in Nat /\ term # 0
      /\ Len(chosen) \in Nat /\ Len(pending[s]) \in Nat /\ Len(pending[elected]) \in Nat
  BY <1>2 DEF KVInv, LogsOK
<1>4. e \in Entry /\ e.op = h.op
  BY <1>2, <1>3, <1>e DEF Entry
<1>5. /\ started \in Handler /\ started.op = h.op /\ started.st = "wait" /\ started.srv = s
      /\ h.live => started.live
  <2>1. index \in Int /\ now \in Nat
    BY <1>3 DEF NoTerm
  <2> HIDE DEF index, now
  <2>2. CASE s \in leads
    BY <1>2, <1>s, <2>1, <2>2 DEF Handler
  <2>3. CASE s \notin leads
    BY <1>2, <1>s, <2>3 DEF Handler
  <2> QED  BY <2>2, <2>3
<1>6. /\ s \in leads /\ s = elected => started.index = Len(chosen) + Len(pending[s]) + 1
      /\ started.term # 0 => s \in leads /\ s = elected
      /\ started.term <= term
  <2>1. CASE s \in leads
    <3>1. started.index = index /\ started.term = now
      BY <1>2, <1>s, <2>1 DEF Handler
    <3> QED  BY <1>3, <2>1, <3>1 DEF NoTerm
  <2>2. CASE s \notin leads
    BY <1>2, <1>3, <1>s, <2>2 DEF Handler
  <2> QED  BY <2>1, <2>2
<1> HIDE DEF s
<1>7. /\ pending' \in [Server -> Seq(Entry)]
      /\ pending' = pending \/ (s \in leads /\ pending' = [pending EXCEPT ![s] = Append(@, e)])
  BY <1>1, <1>2, <1>3, <1>4, AppendProperties
<1>8. LogsOK'
  BY <1>1, <1>7 DEF KVInv, LogsOK
<1>9. MapsOK'
  BY <1>1 DEF KVInv, MapsOK
<1>10. IndexOK'
  BY <1>1 DEF KVInv, IndexOK
<1>11. CallsOK'
  <2>1. handlers' \subseteq Handler
    BY <1>1, <1>5 DEF KVInv, CallsOK
  <2>2. ASSUME NEW k \in handlers'
        PROVE  /\ k.st # "start" => k.live
               /\ k.live => clerk[k.op.client].st = "wait"
               /\ \A g \in handlers' : g.live /\ k.live /\ g.op.client = k.op.client => g = k
    BY <1>1, <1>5 DEF KVInv, CallsOK
  <2> QED  BY <1>1, <2>1, <2>2 DEF KVInv, CallsOK
<1>12. PlacesOK'
  <2>1. /\ Len(pending'[elected]) \in Nat /\ Len(pending[elected]) <= Len(pending'[elected])
        /\ \A k \in 1..Len(pending[elected]) : pending'[elected][k] = pending[elected][k]
    <3>1. CASE pending'[elected] = pending[elected]
      BY <1>3, <3>1
    <3>2. CASE pending'[elected] = Append(pending[elected], e)
      BY <1>3, <1>4, <3>2, AppendProperties
    <3> QED  BY <1>2, <1>3, <1>7, <3>1, <3>2
  <2>2. ASSUME NEW k \in handlers, Sure(k) PROVE Placed(k)'
    <3>1. k.index \in 1..(Len(chosen) + Len(pending[elected])) /\ At(k.index).op = k.op
      BY <2>2 DEF KVInv, PlacesOK, Placed
    <3>2. k.index \in 1..(Len(chosen) + Len(pending'[elected]))
      BY <1>3, <2>1, <3>1
    <3>3. At(k.index)' = At(k.index)
      BY <1>1, <1>3, <2>1, <3>1 DEF At
    <3> QED  BY <1>1, <3>1, <3>2, <3>3 DEF Placed
  <2>3. ASSUME Sure(started) PROVE Placed(started)'
    <3>1. s \in leads /\ s = elected
      BY <1>3, <1>6, <2>3 DEF Sure
    <3>2. /\ Len(pending'[elected]) = Len(pending[elected]) + 1
          /\ pending'[elected][Len(pending[elected]) + 1] = e
      BY <1>1, <1>3, <1>4, <3>1, AppendProperties
    <3>3. started.index = Len(chosen) + Len(pending[elected]) + 1
      BY <1>6, <3>1
    <3>4. At(started.index)' = e
      <4>1. ~(started.index <= Len(chosen)) /\ started.index - Len(chosen) = Len(pending[elected]) + 1
        BY <1>3, <3>3
      <4> QED  BY <1>1, <3>2, <4>1 DEF At
    <3>5. started.index \in 1..(Len(chosen) + Len(pending'[elected]))
      BY <1>3, <3>2, <3>3
    <3> QED  BY <1>1, <1>4, <1>5, <3>4, <3>5 DEF Placed
  <2>4. \A k \in handlers' : k \in handlers \/ k = started
    BY <1>1
  <2>5. \A k \in handlers' : Sure(k)' => Sure(k)
    BY <1>1 DEF Sure
  <2> QED  BY <1>1, <1>5, <1>6, <2>2, <2>3, <2>4, <2>5 DEF KVInv, PlacesOK
<1>13. AckedCommitted'
  BY <1>1 DEF KVInv, AckedCommitted
<1> QED  BY <1>8, <1>9, <1>10, <1>11, <1>12, <1>13 DEF KVInv

\* A handler that finds its server deposed.
LEMMA HandlerWrongLeaderKeeps ==
  ASSUME KVInv, NEW h \in handlers, HandlerWrongLeader(h)
  PROVE  KVInv'
<1>1. /\ h.st = "wait" /\ handlers' = handlers \ {h} /\ clerk' = TryAnother(h.op.client)
      /\ UNCHANGED <<raftVars, applyVars, diskVars, serviceVars, floor, acked, chosen, pending,
                     elected, term>>
  BY DEF HandlerWrongLeader, raftVars
<1>2. floor \in Nat
  BY DEF KVInv, CallsOK
<1>3. CallsOK'
  BY <1>1, <1>2, AnswersLast, TryAnotherIs, TryAnotherType, ClerkGoesOn DEF KVInv
<1>4. PlacesOK'
  BY <1>1, FewerPlaces DEF KVInv
<1>5. AckedCommitted'
  BY <1>1 DEF KVInv, AckedCommitted
<1> QED  BY <1>1, <1>3, <1>4, <1>5, ClientStep

\* A handler goes round its loop.
Turned(h) ==
  \E st \in {"wait", "look"} : handlers' = (handlers \ {h}) \cup {[h EXCEPT !.st = st]}

LEMMA LoopTurns ==
  ASSUME KVInv, NEW h \in handlers, HandlerLeads(h) \/ HandlerSleep(h)
  PROVE  /\ h.st # "start" /\ Turned(h)
         /\ UNCHANGED <<chosen, pending, elected, term, raftVars, applyVars, diskVars,
                        serviceVars, clerk, floor, acked, answers>>
  BY DEF HandlerLeads, HandlerSleep, Turned, raftVars

LEMMA LoopKeeps ==
  ASSUME KVInv, NEW h \in handlers, HandlerLeads(h) \/ HandlerSleep(h)
  PROVE  KVInv'
<1>1. /\ h.st # "start" /\ Turned(h)
      /\ UNCHANGED <<chosen, pending, elected, term, raftVars, applyVars, diskVars,
                     serviceVars, clerk, floor, acked>>
  BY LoopTurns
<1>2. h \in Handler /\ h.live
  BY <1>1 DEF KVInv, CallsOK
<1>3. PICK st \in {"wait", "look"} : handlers' = (handlers \ {h}) \cup {[h EXCEPT !.st = st]}
  BY <1>1 DEF Turned
<1>4. PICK turned : turned = [h EXCEPT !.st = st]
  OBVIOUS
<1>5. /\ turned \in Handler /\ turned.op = h.op /\ turned.live /\ turned.st # "start"
      /\ turned.srv = h.srv /\ turned.index = h.index /\ turned.term = h.term
  BY <1>2, <1>4 DEF Handler
<1>6. \A k \in handlers' : k \in handlers \ {h} \/ k = turned
  BY <1>3, <1>4
<1>7. CallsOK'
  <2>1. handlers' \subseteq Handler
    BY <1>5, <1>6 DEF KVInv, CallsOK
  <2>2. ASSUME NEW k \in handlers'
        PROVE  /\ k.st # "start" => k.live
               /\ k.live => clerk[k.op.client].st = "wait"
               /\ \A g \in handlers' : g.live /\ k.live /\ g.op.client = k.op.client => g = k
    BY <1>2, <1>5, <1>6 DEF KVInv, CallsOK
  <2> QED  BY <1>1, <2>1, <2>2 DEF KVInv, CallsOK
<1>8. PlacesOK'
  <2>1. \A k : Sure(k)' = Sure(k) /\ Placed(k)' = Placed(k)
    BY <1>1 DEF Sure, Placed, At
  <2>2. Sure(turned) = Sure(h) /\ Placed(turned) = Placed(h)
    BY <1>5 DEF Sure, Placed
  <2> QED  BY <1>1, <1>5, <1>6, <2>1, <2>2 DEF KVInv, PlacesOK
<1>9. AckedCommitted'
  BY <1>1 DEF KVInv, AckedCommitted
<1> QED  BY <1>1, <1>7, <1>8, <1>9, ClientStep

\* A handler returns to its clerk, which is ready for its next request.
LEMMA ReturnedKeeps ==
  ASSUME KVInv, NEW h \in handlers, h.st # "start", handlers' = handlers \ {h},
         clerk' = Returned(h.op.client, h.srv), floor' \in Nat
  PROVE  CallsOK'
<1> DEFINE c == h.op.client
           q == Idle(clerk[c].seq + 1, h.srv)
<1>1. /\ c \in Clerk /\ clerk[c] \in ClerkState
      /\ \A g \in handlers \ {h} : g.op.client = c => ~g.live
  BY AnswersLast DEF KVInv
<1>2. h.srv \in Server /\ clerk[c].seq + 1 \in Nat \ {0}
  BY <1>1 DEF KVInv, CallsOK, Handler, ClerkState
<1>3. q \in ClerkState /\ q.st = "idle"
  BY <1>2 DEF Idle, ClerkState
<1>4. clerk' = [clerk EXCEPT ![c] = q]
  BY DEF Returned
<1> QED  BY <1>1, <1>3, <1>4, ClerkGoesOn DEF KVInv

\* The later of two positions, when the other one is the least of a set.
LEMMA LaterType ==
  ASSUME NEW m \in Nat, NEW T, T \subseteq Nat, T # {}
  PROVE  Later(m, CHOOSE k \in T : \A n \in T : k <= n) \in Nat
<1>1. (CHOOSE k \in T : \A n \in T : k <= n) \in T
  BY LeastNat
<1> QED  BY <1>1 DEF Later

\* A write returns: if the server has led since Start, what is at the index the
\* handler waited for is its command, and it is agreed on.
LEMMA PutAppendReturnKeeps ==
  ASSUME KVInv, NEW h \in handlers, PutAppendReturn(h)
  PROVE  KVInv'
<1> DEFINE at == {k \in DOMAIN chosen : chosen[k].op = h.op}
<1>1. /\ h.st = "look" /\ curCommitIndex[h.srv] >= h.index
      /\ handlers' = handlers \ {h}
      /\ clerk' = Returned(h.op.client, h.srv)
      /\ acked' = acked \cup {[op |-> h.op, sure |-> Sure(h)]}
      /\ floor' = IF Sure(h) /\ at # {}
                    THEN Later(floor, CHOOSE k \in at : \A n \in at : k <= n) ELSE floor
      /\ UNCHANGED <<raftVars, applyVars, diskVars, serviceVars, chosen, pending, elected, term>>
  BY DEF PutAppendReturn, Committed, raftVars
<1>2. floor' \in Nat
  <2>1. at \subseteq Nat
    BY DEF KVInv, LogsOK
  <2>2. floor \in Nat
    BY DEF KVInv, CallsOK
  <2> HIDE DEF at
  <2> QED  BY <1>1, <2>1, <2>2, LaterType
<1>3. CallsOK'
  BY <1>1, <1>2, ReturnedKeeps
<1>4. PlacesOK'
  BY <1>1, FewerPlaces DEF KVInv
<1>5. ASSUME Sure(h) PROVE \E k \in DOMAIN chosen : chosen[k].op = h.op
  <2>1. h.index \in 1..(Len(chosen) + Len(pending[elected])) /\ At(h.index).op = h.op
    BY <1>5 DEF KVInv, PlacesOK, Placed
  <2>2. /\ h.srv \in Server /\ curCommitIndex[h.srv] \in Nat /\ commitIndex[h.srv] \in Nat
        /\ curCommitIndex[h.srv] <= commitIndex[h.srv] /\ commitIndex[h.srv] <= Len(chosen)
        /\ chosen \in Seq(Entry) /\ Len(chosen) \in Nat /\ h.index \in Int
    BY DEF KVInv, LogsOK, IndexOK, CallsOK, Handler
  <2>3. h.index <= Len(chosen) /\ 1 <= h.index
    BY <1>1, <2>1, <2>2
  <2>4. h.index \in DOMAIN chosen
    BY <2>2, <2>3
  <2> QED  BY <2>1, <2>3, <2>4 DEF At
<1>6. AckedCommitted'
  <2>1. ASSUME NEW a \in acked', a.sure PROVE \E k \in DOMAIN chosen : chosen[k].op = a.op
    <3>1. CASE a \in acked
      BY <2>1, <3>1 DEF KVInv, AckedCommitted
    <3>2. CASE a = [op |-> h.op, sure |-> Sure(h)]
      <4>1. Sure(h) /\ a.op = h.op
        BY <2>1, <3>2
      <4> QED  BY <1>5, <4>1
    <3> QED  BY <1>1, <3>1, <3>2
  <2> QED  BY <1>1, <2>1 DEF AckedCommitted
<1> QED  BY <1>1, <1>3, <1>4, <1>6, ClientStep

\* A read returns.
LEMMA GetReturnKeeps ==
  ASSUME KVInv, NEW h \in handlers, GetReturn(h)
  PROVE  KVInv'
<1> DEFINE at == PositionsOf(h.op.req.key, Result(h), clerk[h.op.client].floor)
<1>1. /\ h.st = "look" /\ handlers' = handlers \ {h}
      /\ clerk' = Returned(h.op.client, h.srv)
      /\ floor' = IF at # {} THEN Later(floor, CHOOSE k \in at : \A n \in at : k <= n) ELSE floor
      /\ UNCHANGED <<raftVars, applyVars, diskVars, serviceVars, acked, chosen, pending, elected,
                     term>>
  BY DEF GetReturn, raftVars
<1>2. floor' \in Nat
  <2>1. clerk[h.op.client].floor \in Nat
    BY <1>1, AnswersLast DEF KVInv, ClerkState
  <2>2. at \subseteq Nat
    BY <2>1 DEF PositionsOf
  <2>3. floor \in Nat
    BY DEF KVInv, CallsOK
  <2> HIDE DEF at
  <2> QED  BY <1>1, <2>2, <2>3, LaterType
<1>3. CallsOK'
  BY <1>1, <1>2, ReturnedKeeps
<1>4. PlacesOK'
  BY <1>1, FewerPlaces DEF KVInv
<1>5. AckedCommitted'
  BY <1>1 DEF KVInv, AckedCommitted
<1> QED  BY <1>1, <1>3, <1>4, <1>5, ClientStep

-----------------------------------------------------------------------------
(* The theorems.                                                           *)

\* The servers start with empty maps and logs, and nobody has called.
LEMMA KVInit == Init => KVInv
<1> SUFFICES ASSUME Init PROVE KVInv
  OBVIOUS
<1>1. \A S : << >> \in Seq(S)
  BY EmptySeq
<1>2. NoData \in [Key -> Seq(Value)] /\ NoSeqs \in [Clerk -> Nat]
  BY <1>1 DEF NoData, NoSeqs
<1>3. NoSnapshot \in Saved /\ NoSnapshot.index = 0
  BY <1>2 DEF NoSnapshot, Saved
<1>4. LogsOK
  BY <1>1, KVAssumption DEF Init, LogsOK
<1>5. MapsOK
  BY <1>2, <1>3 DEF Init, MapsOK
<1>6. IndexOK
  <2>1. Len(chosen) = 0 /\ \A s \in Server : Len(outbox[s]) = 0
    BY DEF Init
  <2>2. outbox \in [Server -> Seq(Nat)]
    BY <1>1 DEF Init
  <2> QED  BY <1>3, <2>1, <2>2 DEF Init, IndexOK
<1>7. CallsOK
  <2>1. Idle(1, None) \in ClerkState /\ Idle(1, None).st = "idle"
    BY DEF Idle, ClerkState
  <2> QED  BY <2>1 DEF Init, CallsOK
<1>8. PlacesOK /\ AckedCommitted
  BY DEF Init, PlacesOK, AckedCommitted
<1> QED  BY <1>4, <1>5, <1>6, <1>7, <1>8 DEF KVInv

\* No step of Raft, of a server, of TakeSnapshots, of a handler or of a clerk breaks
\* the invariant.
LEMMA KVNext == KVInv /\ [Next]_vars => KVInv'
<1> SUFFICES ASSUME KVInv, [Next]_vars PROVE KVInv'
  OBVIOUS
<1>1. CASE UNCHANGED vars
  <2>1. UNCHANGED <<raftVars, applyVars, diskVars, serviceVars, clientVars>>
    BY <1>1 DEF vars
  <2>2. CallsOK'
    BY <2>1 DEF KVInv, CallsOK, clientVars
  <2>3. PlacesOK'
    BY <2>1, FewerPlaces DEF KVInv, clientVars, raftVars
  <2>4. AckedCommitted'
    BY <2>1 DEF KVInv, AckedCommitted, clientVars, raftVars
  <2> QED  BY <2>1, <2>2, <2>3, <2>4, ClientStep
<1>2. ASSUME NEW s \in Server, Elect(s) \/ StepDown(s) \/ Install(s) \/ ServerStep(s) \/ Crash(s)
      PROVE  KVInv'
  BY <1>2, ElectKeeps, StepDownKeeps, InstallKeeps, CrashKeeps, DeliverKeeps,
     ReceiveCommandKeeps, ReceiveSnapshotKeeps, ApplySnapshotKeeps, ApplyCommandKeeps
     DEF ServerStep
<1>3. CASE Commit
  BY <1>3, CommitKeeps
<1>4. ASSUME NEW g \in snaps, SnapshotStep(g) PROVE KVInv'
  BY <1>4, SnapshotReturnLockKeeps, SnapshotSaveKeeps DEF SnapshotStep
<1>5. ASSUME NEW c \in Clerk,
             ClerkBegin(c) \/ CallFails(c) \/ CallDies(c) \/ \E s \in Server : Call(c, s)
      PROVE  KVInv'
  BY <1>5, ClerkBeginKeeps, CallFailsKeeps, CallDiesKeeps, CallKeeps
<1>6. ASSUME NEW h \in handlers, HandlerStep(h) PROVE KVInv'
  BY <1>6, HandlerStartKeeps, HandlerWrongLeaderKeeps, LoopKeeps, PutAppendReturnKeeps,
     GetReturnKeeps DEF HandlerStep
<1> QED  BY <1>1, <1>2, <1>3, <1>4, <1>5, <1>6 DEF Next

\* For any servers, clerks, crashes, elections and snapshots: no server has been sent
\* what is not agreed on, no snapshot ends after what its server was sent, and the
\* maps stay maps whatever message or Persister they come from.
THEOREM ServiceTypes == Spec => []TypeOK
<1>1. KVInv => TypeOK
  <2> SUFFICES ASSUME KVInv PROVE TypeOK
    OBVIOUS
  <2>1. \A h \in handlers : h.srv \in Server /\ h.op.client \in Clerk /\ h.index \in Int
    BY DEF KVInv, CallsOK, Handler, Op
  <2> QED  BY <2>1 DEF KVInv, LogsOK, MapsOK, IndexOK, TypeOK
<1> QED  BY <1>1, KVInit, KVNext, PTL DEF Spec

\* A Put or Append that returns from a server which has led since its Start is
\* committed, however often servers crash, snapshots replace logs, and calls are
\* repeated: to wait for an index is enough as long as the lead is not lost.
THEOREM WritesCommitted == Spec => []AckedCommitted
<1>1. KVInv => AckedCommitted
  BY DEF KVInv
<1> QED  BY <1>1, KVInit, KVNext, PTL DEF Spec

-----------------------------------------------------------------------------
(* The maps and the agreed log.                                            *)

\* Entry j of the log is a Put or Append of clerk c.
WriteOf(c, j) == chosen[j].op.client = c /\ chosen[j].op.req.type # "Get"

\* The maps are those of the first n entries of the log: the store is what the
\* effective writes leave, and the table has the latest write of every clerk.
Reflects(data, seqs, n) ==
  /\ n <= Len(chosen) /\ data = StoreAt(n)
  /\ \A c \in Clerk :
       /\ \A j \in 1..n : WriteOf(c, j) => chosen[j].op.seq <= seqs[c]
       /\ seqs[c] = 0 \/ \E j \in 1..n : WriteOf(c, j) /\ chosen[j].op.seq = seqs[c]

\* A snapshot never claims an entry that its maps do not hold; they may hold more.
Sound(d) == Reflects(d.rsm, d.seqs, d.upto) /\ d.index <= d.upto

\* The last index that has left the outbox of s.
Sent(s) == commitIndex[s] - Len(outbox[s])

\* What mainProcess will reflect once it has applied what it holds.
Reach(s) ==
  IF got[s] = None THEN upto[s] ELSE IF got[s].valid THEN got[s].index ELSE got[s].data.upto

\* Between the maps of s, the message it has taken and what is on its way to it
\* no entry is missing: a command is either the next one or one already applied.
InOrder(s) ==
  /\ \A k \in 1..Len(outbox[s]) : outbox[s][k] = Sent(s) + k
  /\ Reflects(rsm[s], ClientMaxRequestSeq[s], upto[s])
  /\ Sound(snapshot[s])
  /\ install[s] # None => Sound(install[s]) /\ install[s].index = Sent(s)
  /\ install[s] = None => Sent(s) <= Reach(s)
  /\ got[s] # None /\ got[s].valid => got[s].index <= upto[s] + 1
  /\ got[s] # None /\ ~got[s].valid => Sound(got[s].data)

\* A goroutine of TakeSnapshots has maps, current or replaced, that hold the entry
\* it was started for.
SnapsOK ==
  \A g \in snaps :
    /\ g.old = None => g.index <= upto[g.srv]
    /\ g.old # None => Reflects(g.old.rsm, g.old.seqs, g.old.upto) /\ g.index <= g.old.upto

\* The value of the key at a position at or after the entry of its Get.
Answered(id, value) ==
  \E k \in 1..Len(chosen) : \E p \in k..Len(chosen) :
    CommID(chosen[k].op) = id /\ value = StoreAt(p)[chosen[k].op.req.key]

\* Every answer that waits in a resultMap is one.
ResultsOK ==
  /\ DOMAIN resultMap = Server
  /\ \A s \in Server : \A id \in DOMAIN resultMap[s] : Answered(id, resultMap[s][id])

LogInv == ~overtaken => SnapsOK /\ ResultsOK /\ \A s \in Server : InOrder(s)

\* A sequence number names one request: the clerk's current one, or an older one.
Issued(op) ==
  LET k == clerk[op.client] IN
  op.seq <= k.seq /\ (op.seq = k.seq => k.st # "idle" /\ op.req = k.req)

\* Copies of a request exist only since its clerk began it, so all of them are
\* agreed on after what had been agreed on by then.
OpsOK ==
  /\ floor <= Len(chosen)
  /\ \A c \in Clerk : clerk[c].floor <= Len(chosen)
  /\ \A k \in 1..Len(chosen) :
       LET op == chosen[k].op IN
       Issued(op) /\ (op.seq = clerk[op.client].seq => clerk[op.client].floor < k)
  /\ \A s \in Server : \A k \in 1..Len(pending[s]) : Issued(pending[s][k].op)
  /\ \A h \in handlers : Issued(h.op) /\ (h.live => h.op.seq = clerk[h.op.client].seq)

\* What a Get was to follow is a position of the log.
AnswersOK == Linearizable /\ \A a \in answers : a.from \in Nat

LinInv == KVInv /\ LogInv /\ OpsOK /\ AnswersOK

-----------------------------------------------------------------------------
(* What StoreAt computes.                                                  *)

Store == [Key -> Seq(Value)]

\* StoreAt applies the effective writes of the log one after the other.
StoreFacts ==
  /\ StoreAt(0) = NoData
  /\ \A n \in 0..Len(chosen) : StoreAt(n) \in Store
  /\ \A n \in 1..Len(chosen) :
       StoreAt(n) = IF Effective(n) THEN Written(StoreAt(n - 1), chosen[n].op.req)
                                    ELSE StoreAt(n - 1)

\* The recursive function in StoreAt exists and does what its equation says.
LEMMA StoreIs == LogsOK => StoreFacts
<1> SUFFICES ASSUME LogsOK PROVE StoreFacts
  OBVIOUS
<1> DEFINE N == Len(chosen)
           step == [a \in Store \X (1..N) |->
                      IF Effective(a[2]) THEN Written(a[1], chosen[a[2]].op.req) ELSE a[1]]
<1>1. N \in Nat /\ \A k \in 1..N : chosen[k].op.req \in Request
  <2>1. chosen \in Seq(Entry)
    BY DEF LogsOK
  <2>2. \A k \in 1..Len(chosen) : chosen[k] \in Entry
    BY <2>1, ElementOfSeq
  <2> QED  BY <2>1, <2>2 DEF Entry, Op
<1>2. NoData \in Store
  BY EmptySeq DEF NoData, Store
<1>3. step \in [Store \X (1..N) -> Store]
  BY <1>1, WrittenType DEF Store
<1>4. PICK f \in [0..N -> Store] : f[0] = NoData /\ \A i \in 1..N : f[i] = step[<<f[i - 1], i>>]
  <2> HIDE DEF step, N
  <2>1. LoopBody(step, Store, N)
    BY <1>3 DEF LoopBody
  <2>2. \E f : LoopStates(f, step, Store, NoData, N)
    BY <1>1, <1>2, <2>1, RecursionExists
  <2> QED  BY <2>2 DEF LoopStates
<1>5. \A i \in 1..N :
        f[i] = IF Effective(i) THEN Written(f[i - 1], chosen[i].op.req) ELSE f[i - 1]
  <2>1. ASSUME NEW i \in 1..N
        PROVE  f[i] = IF Effective(i) THEN Written(f[i - 1], chosen[i].op.req) ELSE f[i - 1]
    <3>1. f[i - 1] \in Store
      BY <1>1
    <3>2. <<f[i - 1], i>> \in Store \X (1..N)
      BY <3>1
    <3>3. step[<<f[i - 1], i>>] = IF Effective(i) THEN Written(f[i - 1], chosen[i].op.req)
                                                  ELSE f[i - 1]
      BY <3>2
    <3> QED  BY <1>4, <3>3
  <2> QED  BY <2>1
<1> HIDE DEF step, N
<1>6. ASSUME NEW n \in 0..N PROVE StoreAt(n) = f[n]
  <2> DEFINE Grown(g) ==
        [k \in 0..n |-> IF k = 0 THEN NoData
                        ELSE IF Effective(k) THEN Written(g[k - 1], chosen[k].op.req) ELSE g[k - 1]]
      h == [k \in 0..n |-> f[k]]
      store == CHOOSE g : g = Grown(g)
  <2>1. h = Grown(h)
    <3>1. ASSUME NEW k \in 0..n PROVE h[k] = Grown(h)[k]
      <4>1. CASE k = 0
        BY <1>4, <4>1
      <4>2. CASE k # 0
        <5>1. k \in 1..N /\ k - 1 \in 0..n
          BY <1>1, <4>2
        <5> QED  BY <1>5, <4>2, <5>1
      <4> QED  BY <4>1, <4>2
    <3> QED  BY <3>1
  <2>2. store = Grown(store)
    <3> HIDE DEF h, Grown
    <3> QED  BY <2>1
  <2> HIDE DEF store
  <2>3. \A k \in 0..n : store[k] = Grown(store)[k]
    BY <2>2
  <2>4. \A i \in 0..n : store[i] = f[i]
    <3> DEFINE T == {i \in 0..n : store[i] = f[i]}
    <3>1. n \in Nat /\ 0 \in 0..n
      BY <1>1
    <3>2. 0 \in T
      BY <1>4, <2>3, <3>1
    <3>3. ASSUME NEW i \in 1..n, i - 1 \in T PROVE i \in T
      <4>1. i \in 1..N /\ i \in 0..n /\ i # 0
        BY <1>1
      <4>2. store[i] = IF Effective(i) THEN Written(store[i - 1], chosen[i].op.req)
                                       ELSE store[i - 1]
        BY <2>3, <4>1
      <4> QED  BY <1>5, <3>3, <4>1, <4>2
    <3>4. 0..n \subseteq T
      <4> HIDE DEF T
      <4> QED  BY <3>1, <3>2, <3>3, UpToBound
    <3> QED  BY <3>4
  <2>5. StoreAt(n) = store[n]
    BY DEF StoreAt, store, Grown
  <2> QED  BY <1>1, <2>4, <2>5
<1>7. \A n \in 1..N : n - 1 \in 0..N /\ n \in 0..N
  BY <1>1
<1>8. 0 \in 0..N
  BY <1>1
<1> QED  BY <1>4, <1>5, <1>6, <1>7, <1>8 DEF StoreFacts, N

\* The same after a step.
LEMMA StoreIsNext == LogsOK' => StoreFacts'
  BY StoreIs, PTL

-----------------------------------------------------------------------------
(* What a step that only adds to the log leaves as it was.                 *)

\* The log keeps what it has.
LogGrows ==
  Len(chosen) <= Len(chosen') /\ \A k \in 1..Len(chosen) : chosen'[k] = chosen[k]

\* The store at a position is decided once the log has reached it.
LEMMA StoreKept ==
  ASSUME LogsOK, LogsOK', LogGrows
  PROVE  \A n \in 0..Len(chosen) : StoreAt(n)' = StoreAt(n)
<1> DEFINE N == Len(chosen)
           T == {n \in 0..N : StoreAt(n)' = StoreAt(n)}
<1>1. N \in Nat /\ Len(chosen') \in Nat /\ N <= Len(chosen')
  BY DEF LogsOK, LogGrows
<1>2. StoreFacts /\ StoreFacts'
  BY StoreIs, StoreIsNext
<1>3. \A k \in 1..N : chosen'[k] = chosen[k]
  BY DEF LogGrows
<1> HIDE DEF N
<1>4. \A k \in 1..N : Effective(k)' <=> Effective(k)
  <2>1. \A k \in 1..N : \A j \in 1..(k - 1) : j \in 1..N
    BY <1>1
  <2> QED  BY <1>3, <2>1 DEF Effective
<1>5. 0 \in T
  BY <1>1, <1>2 DEF StoreFacts, NoData
<1>6. ASSUME NEW n \in 1..N, n - 1 \in T PROVE n \in T
  <2>1. n \in 1..Len(chosen) /\ n \in 1..Len(chosen') /\ n \in 0..N
    BY <1>1 DEF N
  <2>2. StoreAt(n) = IF Effective(n) THEN Written(StoreAt(n - 1), chosen[n].op.req)
                                     ELSE StoreAt(n - 1)
    BY <1>2, <2>1 DEF StoreFacts
  <2>3. StoreAt(n)' = IF Effective(n)' THEN Written(StoreAt(n - 1)', chosen'[n].op.req)
                                       ELSE StoreAt(n - 1)'
    BY <1>2, <2>1 DEF StoreFacts
  <2> QED  BY <1>3, <1>4, <1>6, <2>1, <2>2, <2>3
<1>7. 0..N \subseteq T
  <2> HIDE DEF T
  <2> QED  BY <1>1, <1>5, <1>6, UpToBound
<1> QED  BY <1>7 DEF N

\* Maps that reflect a prefix of the log go on reflecting it.
LEMMA ReflectsKept ==
  ASSUME LogsOK, LogsOK', LogGrows
  PROVE  \A d, q : \A n \in Nat : Reflects(d, q, n) => Reflects(d, q, n)'
<1> SUFFICES ASSUME NEW d, NEW q, NEW n \in Nat, Reflects(d, q, n) PROVE Reflects(d, q, n)'
  OBVIOUS
<1>1. Len(chosen) \in Nat /\ Len(chosen') \in Nat /\ Len(chosen) <= Len(chosen') /\ n <= Len(chosen)
  BY DEF LogsOK, LogGrows, Reflects
<1>2. \A j \in 1..n : chosen'[j] = chosen[j]
  BY <1>1 DEF LogGrows
<1>3. StoreAt(n)' = StoreAt(n)
  BY <1>1, StoreKept
<1>4. n <= Len(chosen') /\ d = StoreAt(n)'
  BY <1>1, <1>3 DEF Reflects
<1>5. ASSUME NEW c \in Clerk
      PROVE  /\ \A j \in 1..n : WriteOf(c, j)' => chosen'[j].op.seq <= q[c]
             /\ q[c] = 0 \/ \E j \in 1..n : WriteOf(c, j)' /\ chosen'[j].op.seq = q[c]
  BY <1>2 DEF Reflects, WriteOf
<1> QED  BY <1>4, <1>5 DEF Reflects

\* A snapshot that is sound stays sound.
LEMMA SoundKept ==
  ASSUME LogsOK, LogsOK', LogGrows
  PROVE  \A d \in Saved : Sound(d) => Sound(d)'
<1> SUFFICES ASSUME NEW d \in Saved, Sound(d) PROVE Sound(d)'
  OBVIOUS
<1>1. d.upto \in Nat
  BY DEF Saved
<1>2. Reflects(d.rsm, d.seqs, d.upto)'
  BY <1>1, ReflectsKept DEF Sound
<1> QED  BY <1>2 DEF Sound

\* A step that takes no message of server s leaves its messages in order.
LEMMA InOrderSent ==
  ASSUME KVInv, KVInv', LogGrows, NEW s \in Server, InOrder(s),
         Sent(s)' = Sent(s), \A k \in 1..Len(outbox'[s]) : outbox'[s][k] = Sent(s) + k,
         rsm'[s] = rsm[s],
         ClientMaxRequestSeq'[s] = ClientMaxRequestSeq[s], upto'[s] = upto[s],
         snapshot'[s] = snapshot[s], install'[s] = install[s], got'[s] = got[s]
  PROVE  InOrder(s)'
<1>1. LogsOK /\ LogsOK' /\ upto[s] \in Nat /\ snapshot[s] \in Saved
      /\ (install[s] # None => install[s] \in Saved)
      /\ (got[s] # None /\ ~got[s].valid => got[s].data \in Saved)
  BY DEF KVInv, MapsOK
<1>2. Reach(s)' = Reach(s)
  BY DEF Reach
<1>3. Reflects(rsm[s], ClientMaxRequestSeq[s], upto[s])'
  BY <1>1, ReflectsKept DEF InOrder
<1>4. Sound(snapshot[s])'
  BY <1>1, SoundKept DEF InOrder
<1>5. install[s] # None => Sound(install[s])'
  BY <1>1, SoundKept DEF InOrder
<1>6. got[s] # None /\ ~got[s].valid => Sound(got[s].data)'
  BY <1>1, SoundKept DEF InOrder
<1> QED  BY <1>2, <1>3, <1>4, <1>5, <1>6 DEF InOrder

\* A step that changes nothing at server s leaves its messages in order.
LEMMA InOrderKept ==
  ASSUME KVInv, KVInv', LogGrows, NEW s \in Server, InOrder(s),
         commitIndex'[s] = commitIndex[s], outbox'[s] = outbox[s], rsm'[s] = rsm[s],
         ClientMaxRequestSeq'[s] = ClientMaxRequestSeq[s], upto'[s] = upto[s],
         snapshot'[s] = snapshot[s], install'[s] = install[s], got'[s] = got[s]
  PROVE  InOrder(s)'
<1>1. Sent(s)' = Sent(s) /\ \A k \in 1..Len(outbox'[s]) : outbox'[s][k] = Sent(s) + k
  BY DEF Sent, InOrder
<1> QED  BY <1>1, InOrderSent

\* A goroutine of TakeSnapshots that the step leaves alone, at a server whose maps
\* lose nothing.
LEMMA SnapKept ==
  ASSUME KVInv, KVInv', LogGrows, SnapsOK, NEW g \in snaps,
         g.old = None => upto[g.srv] <= upto'[g.srv]
  PROVE  /\ g.old = None => g.index <= upto'[g.srv]
         /\ g.old # None => Reflects(g.old.rsm, g.old.seqs, g.old.upto)' /\ g.index <= g.old.upto
<1>1. g \in Snapper /\ g.srv \in Server /\ g.index \in Nat /\ (g.old # None => g.old \in Maps)
  BY DEF KVInv, MapsOK, Snapper
<1>2. upto[g.srv] \in Nat /\ upto'[g.srv] \in Nat
  BY <1>1 DEF KVInv, MapsOK
<1>3. g.old = None => g.index <= upto'[g.srv]
  BY <1>1, <1>2 DEF SnapsOK
<1>4. ASSUME g.old # None
      PROVE  Reflects(g.old.rsm, g.old.seqs, g.old.upto)' /\ g.index <= g.old.upto
  <2>1. g.old.upto \in Nat
    BY <1>1, <1>4 DEF Maps
  <2> QED  BY <1>4, <2>1, ReflectsKept DEF SnapsOK, KVInv
<1> QED  BY <1>3, <1>4

\* An answer stays the value at the position it had.
LEMMA AnsweredKept ==
  ASSUME LogsOK, LogsOK', LogGrows
  PROVE  \A id, value : Answered(id, value) => Answered(id, value)'
<1> SUFFICES ASSUME NEW id, NEW value, Answered(id, value) PROVE Answered(id, value)'
  OBVIOUS
<1>0. PICK k \in 1..Len(chosen) : \E p \in k..Len(chosen) :
        CommID(chosen[k].op) = id /\ value = StoreAt(p)[chosen[k].op.req.key]
  BY DEF Answered
<1>1. PICK p \in k..Len(chosen) :
        CommID(chosen[k].op) = id /\ value = StoreAt(p)[chosen[k].op.req.key]
  BY <1>0
<1>2. /\ Len(chosen) \in Nat /\ Len(chosen') \in Nat /\ Len(chosen) <= Len(chosen')
      /\ chosen'[k] = chosen[k]
  BY DEF LogsOK, LogGrows
<1>3. p \in 0..Len(chosen) /\ k \in 1..Len(chosen') /\ p \in k..Len(chosen')
  BY <1>2
<1>4. StoreAt(p)' = StoreAt(p)
  BY <1>3, StoreKept
<1>5. CommID(chosen'[k].op) = id /\ value = StoreAt(p)'[chosen'[k].op.req.key]
  BY <1>1, <1>2, <1>4
<1> QED  BY <1>3, <1>5 DEF Answered, CommID

\* Answers that wait stay right.
LEMMA ResultsKept ==
  ASSUME KVInv, KVInv', LogGrows, ResultsOK, DOMAIN resultMap' = DOMAIN resultMap,
         \A s \in Server : resultMap'[s] = resultMap[s] \/ DOMAIN resultMap'[s] = {}
  PROVE  ResultsOK'
<1>1. LogsOK /\ LogsOK'
  BY DEF KVInv
<1>2. ASSUME NEW s \in Server, NEW id \in DOMAIN resultMap'[s]
      PROVE  Answered(id, resultMap[s][id])'
  <2>1. id \in DOMAIN resultMap[s] /\ resultMap'[s][id] = resultMap[s][id]
    OBVIOUS
  <2>2. PICK value : value = resultMap[s][id]
    OBVIOUS
  <2>3. Answered(id, value)'
    BY <1>1, <2>1, <2>2, AnsweredKept DEF ResultsOK
  <2> QED  BY <2>1, <2>2, <2>3
<1> QED  BY <1>2 DEF ResultsOK

\* A step of Raft, of a clerk or of a handler, that leaves the servers' maps and what
\* is on its way to them alone.
LEMMA OutsideKeepsLog ==
  ASSUME KVInv, KVInv', LogInv, LogGrows, UNCHANGED <<applyVars, diskVars, serviceVars>>
  PROVE  LogInv'
<1>1. UNCHANGED <<commitIndex, outbox, install, snapshot, got, rsm, ClientMaxRequestSeq, resultMap,
                  snaps, upto, overtaken>>
  BY DEF applyVars, diskVars, serviceVars
<1> SUFFICES ASSUME ~overtaken PROVE SnapsOK' /\ ResultsOK' /\ \A s \in Server : InOrder(s)'
  BY <1>1 DEF LogInv
<1>2. SnapsOK /\ ResultsOK /\ \A s \in Server : InOrder(s)
  BY DEF LogInv
<1>3. ASSUME NEW s \in Server PROVE InOrder(s)'
  BY <1>1, <1>2, InOrderKept
<1>4. ResultsOK'
  BY <1>1, <1>2, ResultsKept
<1>5. SnapsOK'
  <2>1. \A g \in snaps : upto[g.srv] <= upto'[g.srv]
    BY <1>1 DEF KVInv, MapsOK, Snapper
  <2> QED  BY <1>1, <1>2, <2>1, SnapKept DEF SnapsOK
<1> QED  BY <1>3, <1>4, <1>5

\* A step of a server that leaves the log alone.
LEMMA SameLogGrows == ASSUME KVInv, UNCHANGED chosen PROVE LogGrows
  BY DEF KVInv, LogsOK, LogGrows

-----------------------------------------------------------------------------
(* Commands and snapshots on their way to mainProcess.                     *)

\* What begins to be sent follows what has been sent.
LEMMA DeliverKeepsLog ==
  ASSUME KVInv, KVInv', LogInv, NEW s \in Server, Deliver(s)
  PROVE  LogInv'
<1>1. PICK n \in (commitIndex[s] + 1)..Len(chosen) :
        /\ outbox' = [outbox EXCEPT ![s] = [k \in 1..(n - commitIndex[s]) |-> commitIndex[s] + k]]
        /\ commitIndex' = [commitIndex EXCEPT ![s] = n]
  BY DEF Deliver, Deliverable
<1>2. /\ UNCHANGED <<chosen, install, snapshot, got, rsm, ClientMaxRequestSeq, resultMap, snaps,
                     upto, overtaken>>
      /\ outbox[s] = << >>
  BY DEF Deliver, Locked, diskVars, serviceVars, raftVars
<1>3. LogGrows
  BY <1>2, SameLogGrows
<1> SUFFICES ASSUME ~overtaken PROVE SnapsOK' /\ ResultsOK' /\ \A r \in Server : InOrder(r)'
  BY <1>2 DEF LogInv
<1>4. SnapsOK /\ ResultsOK /\ \A r \in Server : InOrder(r)
  BY DEF LogInv
<1>5. InOrder(s)'
  <2>1. commitIndex[s] \in Nat /\ n \in Nat /\ n - commitIndex[s] \in Nat /\ Len(chosen) \in Nat
    <3>1. commitIndex[s] \in Nat /\ Len(chosen) \in Nat
      BY DEF KVInv, IndexOK, LogsOK
    <3> QED  BY <3>1
  <2> DEFINE new == [k \in 1..(n - commitIndex[s]) |-> commitIndex[s] + k]
  <2>2. new \in [1..(n - commitIndex[s]) -> Nat]
    BY <2>1
  <2>3. Len(new) = n - commitIndex[s]
    BY <2>1, <2>2, SeqDef, LenProperties
  <2>4. outbox'[s] = new /\ commitIndex'[s] = n
    BY <1>1 DEF KVInv, IndexOK
  <2>5. Sent(s) = commitIndex[s]
    BY <1>2, <2>1 DEF Sent
  <2>6. Sent(s)' = commitIndex[s]
    <3> HIDE DEF new
    <3> QED  BY <2>1, <2>3, <2>4 DEF Sent
  <2>7. \A k \in 1..Len(outbox'[s]) : outbox'[s][k] = Sent(s) + k
    BY <2>3, <2>4, <2>5
  <2> QED  BY <1>2, <1>3, <1>4, <2>5, <2>6, <2>7, InOrderSent
<1>6. ASSUME NEW r \in Server, r # s PROVE InOrder(r)'
  <2>1. outbox'[r] = outbox[r] /\ commitIndex'[r] = commitIndex[r]
    BY <1>1, <1>6 DEF KVInv, IndexOK
  <2> QED  BY <1>2, <1>3, <1>4, <2>1, InOrderKept
<1>7. ResultsOK'
  BY <1>2, <1>3, <1>4, ResultsKept
<1>8. SnapsOK'
  <2>1. \A g \in snaps : upto[g.srv] <= upto'[g.srv]
    BY <1>2 DEF KVInv, MapsOK, Snapper
  <2> QED  BY <1>2, <1>3, <1>4, <2>1, SnapKept DEF SnapsOK
<1> QED  BY <1>5, <1>6, <1>7, <1>8

\* The snapshot of the leader stands for all that the server was not sent yet.
LEMMA InstallKeepsLog ==
  ASSUME KVInv, KVInv', LogInv, NEW s \in Server, Install(s)
  PROVE  LogInv'
<1>d. PICK data : data = snapshot[elected]
  OBVIOUS
<1>1. /\ UNCHANGED <<chosen, outbox, snapshot, got, rsm, ClientMaxRequestSeq, resultMap, snaps,
                     upto, overtaken>>
      /\ commitIndex' = [commitIndex EXCEPT ![s] = data.index]
      /\ install' = [install EXCEPT ![s] = data]
      /\ outbox[s] = << >>
  BY <1>d DEF Install, Locked, serviceVars
<1>2. data \in Saved /\ data.index \in Nat /\ elected \in Server
  BY <1>d DEF KVInv, LogsOK, MapsOK, Saved
<1>3. LogGrows /\ LogsOK /\ LogsOK'
  BY <1>1, SameLogGrows DEF KVInv
<1> SUFFICES ASSUME ~overtaken PROVE SnapsOK' /\ ResultsOK' /\ \A r \in Server : InOrder(r)'
  BY <1>1 DEF LogInv
<1>4. SnapsOK /\ ResultsOK /\ \A r \in Server : InOrder(r)
  BY DEF LogInv
<1>5. InOrder(s)'
  <2>1. commitIndex'[s] = data.index /\ install'[s] = data
    BY <1>1 DEF KVInv, IndexOK, MapsOK
  <2>2. install'[s] # None
    BY <1>2, <2>1, KVAssumption
  <2>3. Sent(s)' = data.index
    BY <1>1, <1>2, <2>1 DEF Sent
  <2>4. Sound(data)'
    BY <1>2, <1>3, <1>4, <1>d, SoundKept DEF InOrder
  <2>5. Sound(snapshot[s])'
    BY <1>1, <1>3, <1>4, SoundKept DEF InOrder, KVInv, MapsOK
  <2>6. Reflects(rsm[s], ClientMaxRequestSeq[s], upto[s])'
    BY <1>1, <1>3, <1>4, ReflectsKept DEF InOrder, KVInv, MapsOK
  <2>7. got[s] # None /\ ~got[s].valid => Sound(got[s].data)'
    BY <1>1, <1>3, <1>4, SoundKept DEF InOrder, KVInv, MapsOK
  <2>8. got[s] # None /\ got[s].valid => got[s].index <= upto[s] + 1
    BY <1>4 DEF InOrder
  <2>9. Len(outbox'[s]) = 0
    BY <1>1
  <2> QED  BY <1>1, <2>1, <2>2, <2>3, <2>4, <2>5, <2>6, <2>7, <2>8, <2>9 DEF InOrder
<1>6. ASSUME NEW r \in Server, r # s PROVE InOrder(r)'
  <2>1. install'[r] = install[r] /\ commitIndex'[r] = commitIndex[r]
    BY <1>1, <1>6 DEF KVInv, IndexOK, MapsOK
  <2> QED  BY <1>1, <1>3, <1>4, <2>1, InOrderKept
<1>7. ResultsOK'
  BY <1>1, <1>3, <1>4, ResultsKept
<1>8. SnapsOK'
  <2>1. \A g \in snaps : upto[g.srv] <= upto'[g.srv]
    BY <1>1 DEF KVInv, MapsOK, Snapper
  <2> QED  BY <1>1, <1>3, <1>4, <2>1, SnapKept DEF SnapsOK
<1> QED  BY <1>5, <1>6, <1>7, <1>8

\* mainProcess takes the command that follows the last one it took, unless it
\* overtakes a snapshot.
LEMMA ReceiveCommandKeepsLog ==
  ASSUME KVInv, KVInv', LogInv, NEW s \in Server, ReceiveCommand(s)
  PROVE  LogInv'
<1>1. /\ UNCHANGED <<chosen, commitIndex, install, snapshot, rsm, ClientMaxRequestSeq, resultMap,
                     snaps, upto>>
      /\ got[s] = None /\ outbox[s] # << >>
      /\ got' = [got EXCEPT ![s] = [valid |-> TRUE, index |-> Head(outbox[s])]]
      /\ outbox' = [outbox EXCEPT ![s] = Tail(outbox[s])]
      /\ overtaken' = (overtaken \/ install[s] # None)
  BY DEF ReceiveCommand, Receives, raftVars, diskVars
<1>2. LogGrows /\ LogsOK /\ LogsOK'
  BY <1>1, SameLogGrows DEF KVInv
<1> SUFFICES ASSUME ~overtaken, install[s] = None
             PROVE  SnapsOK' /\ ResultsOK' /\ \A r \in Server : InOrder(r)'
  BY <1>1 DEF LogInv
<1>3. SnapsOK /\ ResultsOK /\ \A r \in Server : InOrder(r)
  BY DEF LogInv
<1>4. InOrder(s)'
  <2>1. /\ outbox[s] \in Seq(Nat) /\ Len(outbox[s]) \in Nat \ {0} /\ commitIndex[s] \in Nat
        /\ Head(outbox[s]) = outbox[s][1] /\ Len(Tail(outbox[s])) = Len(outbox[s]) - 1
        /\ \A k \in 1..(Len(outbox[s]) - 1) : Tail(outbox[s])[k] = outbox[s][k + 1]
    <3>1. outbox[s] \in Seq(Nat) /\ commitIndex[s] \in Nat
      BY DEF KVInv, IndexOK
    <3> QED  BY <1>1, <3>1, HeadTailProperties, EmptySeq, LenProperties
  <2>2. outbox'[s] = Tail(outbox[s]) /\ got'[s] = [valid |-> TRUE, index |-> Head(outbox[s])]
    BY <1>1 DEF KVInv, IndexOK, MapsOK
  <2>3. Sent(s) \in Int /\ Sent(s)' = Sent(s) + 1
    <3>1. PICK n \in Nat : n = Len(outbox[s])
      BY <2>1
    <3>2. Len(outbox'[s]) = n - 1
      BY <2>1, <2>2, <3>1
    <3>3. Sent(s) = commitIndex[s] - n /\ Sent(s)' = commitIndex[s] - (n - 1)
      BY <1>1, <3>1, <3>2 DEF Sent
    <3>4. PICK m \in Nat : m = commitIndex[s]
      BY <2>1
    <3>5. Sent(s) = m - n /\ Sent(s)' = m - (n - 1)
      BY <3>3, <3>4
    <3>6. m - n \in Int /\ m - (n - 1) = (m - n) + 1
      BY <3>1, <3>4
    <3> QED  BY <3>5, <3>6
  <2>4. Sent(s) <= upto[s] /\ upto[s] \in Nat
    BY <1>1, <1>3 DEF InOrder, Reach, KVInv, MapsOK
  <2>5. got'[s].valid /\ got'[s].index = Sent(s) + 1
    BY <1>3, <2>1, <2>2 DEF InOrder
  <2>6. got'[s] # None
    <3>1. Head(outbox[s]) \in Nat
      BY <2>1
    <3>2. [valid |-> TRUE, index |-> Head(outbox[s])] \in ApplyMsg
      BY <3>1 DEF ApplyMsg
    <3> QED  BY <2>2, <3>2, KVAssumption
  <2>7. \A k \in 1..Len(outbox'[s]) : outbox'[s][k] = Sent(s)' + k
    <3>1. ASSUME NEW k \in 1..(Len(outbox[s]) - 1) PROVE outbox'[s][k] = Sent(s)' + k
      <4>1. k + 1 \in 1..Len(outbox[s]) /\ outbox'[s][k] = outbox[s][k + 1]
        BY <2>1, <2>2
      <4>2. outbox[s][k + 1] = Sent(s) + (k + 1)
        BY <1>3, <4>1 DEF InOrder
      <4> QED  BY <2>3, <4>1, <4>2
    <3> QED  BY <2>1, <2>2, <3>1
  <2>8. Sound(snapshot[s])'
    BY <1>1, <1>2, <1>3, SoundKept DEF InOrder, KVInv, MapsOK
  <2>9. Reflects(rsm[s], ClientMaxRequestSeq[s], upto[s])'
    BY <1>1, <1>2, <1>3, ReflectsKept DEF InOrder, KVInv, MapsOK
  <2>10. got'[s].index <= upto'[s] + 1 /\ Sent(s)' <= Reach(s)'
    BY <1>1, <2>3, <2>4, <2>5, <2>6 DEF Reach
  <2> QED  BY <1>1, <2>5, <2>7, <2>8, <2>9, <2>10 DEF InOrder
<1>5. ASSUME NEW r \in Server, r # s PROVE InOrder(r)'
  <2>1. outbox'[r] = outbox[r] /\ got'[r] = got[r]
    BY <1>1, <1>5 DEF KVInv, IndexOK, MapsOK
  <2> QED  BY <1>1, <1>2, <1>3, <2>1, InOrderKept
<1>6. ResultsOK'
  BY <1>1, <1>2, <1>3, ResultsKept
<1>7. SnapsOK'
  <2>1. \A g \in snaps : upto[g.srv] <= upto'[g.srv]
    BY <1>1 DEF KVInv, MapsOK, Snapper
  <2> QED  BY <1>1, <1>2, <1>3, <2>1, SnapKept DEF SnapsOK
<1> QED  BY <1>4, <1>5, <1>6, <1>7

\* mainProcess takes the snapshot; what is sent next follows the index it names.
LEMMA ReceiveSnapshotKeepsLog ==
  ASSUME KVInv, KVInv', LogInv, NEW s \in Server, ReceiveSnapshot(s)
  PROVE  LogInv'
<1>d. PICK data : data = install[s]
  OBVIOUS
<1>1. /\ UNCHANGED <<chosen, commitIndex, outbox, rsm, ClientMaxRequestSeq, resultMap, snaps,
                     upto, overtaken>>
      /\ got[s] = None /\ data # None
      /\ got' = [got EXCEPT ![s] = [valid |-> FALSE, data |-> data]]
      /\ install' = [install EXCEPT ![s] = None]
      /\ snapshot' = [snapshot EXCEPT ![s] = data]
  BY <1>d DEF ReceiveSnapshot, Receives, raftVars
<1>2. LogGrows /\ LogsOK /\ LogsOK'
  BY <1>1, SameLogGrows DEF KVInv
<1> SUFFICES ASSUME ~overtaken PROVE SnapsOK' /\ ResultsOK' /\ \A r \in Server : InOrder(r)'
  BY <1>1 DEF LogInv
<1>3. SnapsOK /\ ResultsOK /\ \A r \in Server : InOrder(r)
  BY DEF LogInv
<1>4. InOrder(s)'
  <2>1. data \in Saved /\ data.index \in Nat /\ data.upto \in Nat
    BY <1>1, <1>d DEF KVInv, MapsOK, Saved
  <2>2. Sound(data) /\ data.index = Sent(s)
    BY <1>1, <1>3, <1>d DEF InOrder
  <2>3. Sound(data)'
    BY <1>2, <2>1, <2>2, SoundKept
  <2>4. /\ got'[s] = [valid |-> FALSE, data |-> data] /\ install'[s] = None /\ snapshot'[s] = data
    BY <1>1 DEF KVInv, MapsOK
  <2>5. Sent(s)' = Sent(s)
    BY <1>1 DEF Sent
  <2>6. got'[s] # None
    <3>1. [valid |-> FALSE, data |-> data] \in ApplyMsg
      BY <2>1 DEF ApplyMsg
    <3> QED  BY <2>4, <3>1, KVAssumption
  <2>7. Sent(s)' <= Reach(s)'
    BY <2>1, <2>2, <2>4, <2>5, <2>6 DEF Reach, Sound
  <2>8. Reflects(rsm[s], ClientMaxRequestSeq[s], upto[s])'
    BY <1>1, <1>2, <1>3, ReflectsKept DEF InOrder, KVInv, MapsOK
  <2>9. \A k \in 1..Len(outbox'[s]) : outbox'[s][k] = Sent(s)' + k
    BY <1>1, <1>3, <2>5 DEF InOrder
  <2> QED  BY <2>3, <2>4, <2>7, <2>8, <2>9 DEF InOrder
<1>5. ASSUME NEW r \in Server, r # s PROVE InOrder(r)'
  <2>1. install'[r] = install[r] /\ got'[r] = got[r] /\ snapshot'[r] = snapshot[r]
    BY <1>1, <1>5 DEF KVInv, MapsOK
  <2> QED  BY <1>1, <1>2, <1>3, <2>1, InOrderKept
<1>6. ResultsOK'
  BY <1>1, <1>2, <1>3, ResultsKept
<1>7. SnapsOK'
  <2>1. \A g \in snaps : upto[g.srv] <= upto'[g.srv]
    BY <1>1 DEF KVInv, MapsOK, Snapper
  <2> QED  BY <1>1, <1>2, <1>3, <2>1, SnapKept DEF SnapsOK
<1> QED  BY <1>4, <1>5, <1>6, <1>7

-----------------------------------------------------------------------------
(* mainProcess applies what it has taken.                                  *)

\* The maps of a sound snapshot replace those of the service; the replaced ones, in
\* the hands of TakeSnapshots, still hold the entry it was started for.
LEMMA ApplySnapshotKeepsLog ==
  ASSUME KVInv, KVInv', LogInv, NEW s \in Server, ApplySnapshot(s)
  PROVE  LogInv'
<1> DEFINE kept(g, here) == IF g.srv = s /\ g.old = None THEN [g EXCEPT !.old = here] ELSE g
<1>d. PICK data : data = got[s].data
  OBVIOUS
<1>h. PICK here : here = [seqs |-> ClientMaxRequestSeq[s], rsm |-> rsm[s], upto |-> upto[s]]
  OBVIOUS
<1>1. /\ UNCHANGED <<chosen, commitIndex, outbox, install, snapshot, resultMap, overtaken>>
      /\ got[s] # None /\ ~got[s].valid
      /\ got' = [got EXCEPT ![s] = None]
      /\ ClientMaxRequestSeq' = [ClientMaxRequestSeq EXCEPT ![s] = data.seqs]
      /\ rsm' = [rsm EXCEPT ![s] = data.rsm]
      /\ upto' = [upto EXCEPT ![s] = data.upto]
      /\ snaps' = {kept(g, here) : g \in snaps}
  BY <1>d, <1>h DEF ApplySnapshot, RestoredSeqs, raftVars, applyVars, diskVars
<1>2. LogGrows /\ LogsOK /\ LogsOK'
  BY <1>1, SameLogGrows DEF KVInv
<1> SUFFICES ASSUME ~overtaken PROVE SnapsOK' /\ ResultsOK' /\ \A r \in Server : InOrder(r)'
  BY <1>1 DEF LogInv
<1>3. SnapsOK /\ ResultsOK /\ \A r \in Server : InOrder(r)
  BY DEF LogInv
<1>4. /\ got'[s] = None /\ ClientMaxRequestSeq'[s] = data.seqs /\ rsm'[s] = data.rsm
      /\ upto'[s] = data.upto
      /\ \A r \in Server \ {s} :
           /\ got'[r] = got[r] /\ ClientMaxRequestSeq'[r] = ClientMaxRequestSeq[r]
           /\ rsm'[r] = rsm[r] /\ upto'[r] = upto[r]
  BY <1>1 DEF KVInv, MapsOK
<1>5. InOrder(s)'
  <2>1. data \in Saved /\ data.upto \in Nat
    BY <1>1, <1>d DEF KVInv, MapsOK, Saved
  <2>2. Sound(data)'
    BY <1>1, <1>2, <1>3, <1>d, <2>1, SoundKept DEF InOrder
  <2>3. Reflects(rsm[s], ClientMaxRequestSeq[s], upto[s])'
    BY <1>4, <2>2 DEF Sound
  <2>4. Sound(snapshot[s])'
    BY <1>1, <1>2, <1>3, SoundKept DEF InOrder, KVInv, MapsOK
  <2>5. install[s] # None => Sound(install[s])'
    BY <1>1, <1>2, <1>3, SoundKept DEF InOrder, KVInv, MapsOK
  <2>6. Sent(s)' = Sent(s) /\ Reach(s)' = Reach(s)
    BY <1>1, <1>4, <1>d DEF Sent, Reach
  <2> QED  BY <1>1, <1>3, <1>4, <2>3, <2>4, <2>5, <2>6 DEF InOrder
<1>6. ASSUME NEW r \in Server, r # s PROVE InOrder(r)'
  BY <1>1, <1>2, <1>3, <1>4, <1>6, InOrderKept
<1>7. ResultsOK'
  BY <1>1, <1>2, <1>3, ResultsKept
<1>8. SnapsOK'
  <2>1. ASSUME NEW g \in snaps, g.srv = s, g.old = None
        PROVE  LET k == kept(g, here) IN
               /\ k.old # None /\ k.index <= k.old.upto
               /\ Reflects(k.old.rsm, k.old.seqs, k.old.upto)'
    <3>1. here \in Maps /\ here.upto = upto[s] /\ here.rsm = rsm[s]
          /\ here.seqs = ClientMaxRequestSeq[s] /\ upto[s] \in Nat
      BY <1>h DEF KVInv, MapsOK, Maps
    <3>2. here # None
      BY <3>1, KVAssumption
    <3>3. Reflects(here.rsm, here.seqs, here.upto)'
      BY <1>2, <1>3, <3>1, ReflectsKept DEF InOrder
    <3>4. kept(g, here).old = here /\ kept(g, here).index = g.index
      BY <2>1 DEF KVInv, MapsOK, Snapper
    <3>5. g.index <= upto[s]
      BY <1>3, <2>1 DEF SnapsOK
    <3> HIDE DEF kept
    <3> QED  BY <3>1, <3>2, <3>3, <3>4, <3>5
  <2>2. ASSUME NEW g \in snaps, ~(g.srv = s /\ g.old = None)
        PROVE  /\ g.old = None => g.index <= upto'[g.srv]
               /\ g.old # None => Reflects(g.old.rsm, g.old.seqs, g.old.upto)' /\ g.index <= g.old.upto
    <3>1. g.old = None => upto[g.srv] <= upto'[g.srv]
      BY <1>4, <2>2 DEF KVInv, MapsOK, Snapper
    <3> QED  BY <1>2, <1>3, <3>1, SnapKept
  <2> QED  BY <1>1, <2>1, <2>2 DEF SnapsOK
<1> QED  BY <1>5, <1>6, <1>7, <1>8

\* An entry at or before the position the maps reflect, or the next one.  A read and
\* a repetition add nothing to the store; any other write is the next entry, and
\* it is effective.
LEMMA NextEntry ==
  ASSUME LogsOK, NEW d, NEW q \in [Clerk -> Nat], NEW n \in Nat, Reflects(d, q, n),
         NEW k \in 1..Len(chosen), k <= n + 1
  PROVE  LET op == chosen[k].op IN
         /\ op.req.type = "Get" \/ op.seq <= q[op.client] => Reflects(d, q, IF n < k THEN k ELSE n)
         /\ op.req.type # "Get" /\ ~(op.seq <= q[op.client]) =>
              n < k /\ Reflects(Written(d, op.req), [q EXCEPT ![op.client] = op.seq], k)
<1> DEFINE op == chosen[k].op
<1>1. chosen \in Seq(Entry) /\ Len(chosen) \in Nat /\ \A j \in 1..Len(chosen) : chosen[j] \in Entry
  <2>1. chosen \in Seq(Entry)
    BY DEF LogsOK
  <2> QED  BY <2>1, ElementOfSeq, LenProperties
<1>2. op \in Op /\ op.client \in Clerk /\ op.seq \in Nat \ {0} /\ op.req \in Request
  BY <1>1 DEF Entry, Op
<1>3. StoreFacts
  BY StoreIs
<1>4. /\ n <= Len(chosen) /\ d = StoreAt(n)
      /\ \A c \in Clerk :
           /\ \A j \in 1..n : WriteOf(c, j) => chosen[j].op.seq <= q[c]
           /\ q[c] = 0 \/ \E j \in 1..n : WriteOf(c, j) /\ chosen[j].op.seq = q[c]
  BY DEF Reflects
<1> HIDE DEF op
<1>5. ASSUME op.req.type = "Get" \/ op.seq <= q[op.client]
      PROVE  Reflects(d, q, IF n < k THEN k ELSE n)
  <2>1. CASE ~(n < k)
    BY <2>1
  <2>2. CASE n < k
    <3>1. k = n + 1
      BY <1>1, <2>2
    <3>2. ~Effective(k)
      <4>1. CASE op.req.type = "Get"
        BY <4>1 DEF Effective, op
      <4>2. CASE op.req.type # "Get" /\ op.seq <= q[op.client]
        <5>1. PICK j \in 1..n : WriteOf(op.client, j) /\ chosen[j].op.seq = q[op.client]
          BY <1>2, <1>4, <4>2
        <5>2. j \in 1..(k - 1) /\ ~(chosen[j].op.seq < op.seq)
          BY <1>2, <3>1, <4>2, <5>1
        <5> QED  BY <5>1, <5>2 DEF Effective, WriteOf, op
      <4> QED  BY <1>5, <4>1, <4>2
    <3>3. StoreAt(k) = StoreAt(n)
      BY <1>3, <3>1, <3>2 DEF StoreFacts
    <3>4. ASSUME NEW c \in Clerk
          PROVE  /\ \A j \in 1..k : WriteOf(c, j) => chosen[j].op.seq <= q[c]
                 /\ q[c] = 0 \/ \E j \in 1..k : WriteOf(c, j) /\ chosen[j].op.seq = q[c]
      <4>1. ASSUME NEW j \in 1..k, WriteOf(c, j) PROVE chosen[j].op.seq <= q[c]
        <5>1. CASE j \in 1..n
          BY <1>4, <4>1, <5>1
        <5>2. CASE j = k
          BY <1>5, <4>1, <5>2 DEF WriteOf, op
        <5> QED  BY <3>1, <5>1, <5>2
      <4>2. \A j \in 1..n : j \in 1..k
        BY <3>1
      <4> QED  BY <1>4, <4>1, <4>2
    <3> QED  BY <1>1, <1>4, <2>2, <3>3, <3>4 DEF Reflects
  <2> QED  BY <2>1, <2>2
<1>6. ASSUME op.req.type # "Get", ~(op.seq <= q[op.client])
      PROVE  n < k /\ Reflects(Written(d, op.req), [q EXCEPT ![op.client] = op.seq], k)
  <2>1. WriteOf(op.client, k)
    BY <1>6 DEF WriteOf, op
  <2>2. ~(k \in 1..n)
    BY <1>2, <1>4, <1>6, <2>1 DEF op
  <2>3. k = n + 1 /\ n < k
    BY <1>1, <2>2
  <2>4. \A j \in 1..Len(chosen) : chosen[j].op.seq \in Nat
    BY <1>1 DEF Entry, Op
  <2>5. Effective(k)
    <3>1. ASSUME NEW j \in 1..(k - 1), WriteOf(op.client, j) PROVE chosen[j].op.seq < op.seq
      <4>1. j \in 1..n /\ j \in 1..Len(chosen)
        BY <1>1, <1>4, <2>3
      <4>2. chosen[j].op.seq <= q[op.client] /\ q[op.client] \in Nat /\ chosen[j].op.seq \in Nat
        BY <1>2, <1>4, <2>4, <3>1, <4>1
      <4> QED  BY <1>2, <1>6, <4>2
    <3> QED  BY <1>6, <3>1 DEF Effective, WriteOf, op
  <2>6. StoreAt(k) = Written(d, op.req)
    BY <1>3, <1>4, <2>3, <2>5 DEF StoreFacts, op
  <2> DEFINE t == [q EXCEPT ![op.client] = op.seq]
  <2>7. ASSUME NEW c \in Clerk
        PROVE  /\ \A j \in 1..k : WriteOf(c, j) => chosen[j].op.seq <= t[c]
               /\ t[c] = 0 \/ \E j \in 1..k : WriteOf(c, j) /\ chosen[j].op.seq = t[c]
    <3>1. \A j \in 1..n : j \in 1..k /\ j \in 1..Len(chosen)
      BY <1>1, <1>4, <2>3
    <3>2. \A j \in 1..k : j = k \/ j \in 1..n
      BY <2>3
    <3>3. k \in 1..k
      BY <1>1
    <3>4. CASE c = op.client
      <4>1. t[c] = op.seq
        BY <1>2, <3>4
      <4>2. chosen[k].op.seq = op.seq /\ op.seq <= op.seq
        BY <1>2 DEF op
      <4>3. ASSUME NEW j \in 1..n, WriteOf(c, j) PROVE chosen[j].op.seq <= op.seq
        <5>1. chosen[j].op.seq <= q[c] /\ q[c] \in Nat /\ chosen[j].op.seq \in Nat
          BY <1>4, <2>4, <3>1, <4>3
        <5> QED  BY <1>2, <1>6, <3>4, <5>1
      <4> HIDE DEF t
      <4> QED  BY <2>1, <3>2, <3>3, <3>4, <4>1, <4>2, <4>3
    <3>5. CASE c # op.client
      <4>1. t[c] = q[c]
        BY <3>5
      <4>2. ~WriteOf(c, k)
        BY <3>5 DEF WriteOf, op
      <4> HIDE DEF t
      <4> QED  BY <1>4, <3>1, <3>2, <4>1, <4>2
    <3> QED  BY <3>4, <3>5
  <2>8. k <= Len(chosen)
    BY <1>1
  <2> QED  BY <2>3, <2>6, <2>7, <2>8 DEF Reflects
<1> QED  BY <1>5, <1>6 DEF op

\* mainProcess applies a command: the maps reflect the log as far as before or as far
\* as the command, and what a Get leaves in resultMap is the value at that position.
LEMMA ApplyCommandKeepsLog ==
  ASSUME KVInv, KVInv', LogInv, NEW s \in Server, ApplyCommand(s)
  PROVE  LogInv'
<1>k. PICK k : k = got[s].index
  OBVIOUS
<1>o. PICK op : op = chosen[k].op
  OBVIOUS
<1>1. /\ UNCHANGED <<chosen, commitIndex, outbox, install, snapshot, overtaken>>
      /\ got[s] # None /\ got[s].valid
      /\ got' = [got EXCEPT ![s] = None]
      /\ upto' = [upto EXCEPT ![s] = IF upto[s] < k THEN k ELSE upto[s]]
      /\ snaps' = snaps \/ snaps' = snaps \cup {[srv |-> s, index |-> k, st |-> "new", old |-> None]}
  BY <1>k DEF ApplyCommand, Outgrown, raftVars, applyVars
<1>2. \/ /\ op.req.type = "Get"
         /\ resultMap' = [resultMap EXCEPT ![s] =
              [id \in DOMAIN resultMap[s] \cup {CommID(op)} |->
                 IF id = CommID(op) THEN rsm[s][op.req.key] ELSE resultMap[s][id]]]
         /\ UNCHANGED <<rsm, ClientMaxRequestSeq>>
      \/ /\ op.seq <= ClientMaxRequestSeq[s][op.client]
         /\ UNCHANGED <<rsm, ClientMaxRequestSeq, resultMap>>
      \/ /\ op.req.type # "Get" /\ ~(op.seq <= ClientMaxRequestSeq[s][op.client])
         /\ ClientMaxRequestSeq' = [ClientMaxRequestSeq EXCEPT ![s][op.client] = op.seq]
         /\ rsm' = [rsm EXCEPT ![s] = Written(rsm[s], op.req)]
         /\ UNCHANGED resultMap
  BY <1>k, <1>o DEF ApplyCommand, Repeated
<1>3. LogGrows /\ LogsOK /\ LogsOK'
  BY <1>1, SameLogGrows DEF KVInv
<1> SUFFICES ASSUME ~overtaken PROVE SnapsOK' /\ ResultsOK' /\ \A r \in Server : InOrder(r)'
  BY <1>1 DEF LogInv
<1>4. SnapsOK /\ ResultsOK /\ \A r \in Server : InOrder(r)
  BY DEF LogInv
<1>5. /\ k \in 1..Len(chosen) /\ upto[s] \in Nat /\ k <= upto[s] + 1 /\ k \in Nat
      /\ ClientMaxRequestSeq[s] \in [Clerk -> Nat]
  <2>1. k \in 1..commitIndex[s] /\ commitIndex[s] \in Nat /\ commitIndex[s] <= Len(chosen)
    BY <1>1, <1>k DEF KVInv, IndexOK
  <2>2. Len(chosen) \in Nat /\ upto[s] \in Nat /\ ClientMaxRequestSeq[s] \in [Clerk -> Nat]
    BY DEF KVInv, LogsOK, MapsOK
  <2>3. k <= upto[s] + 1
    BY <1>1, <1>4, <1>k DEF InOrder
  <2> QED  BY <2>1, <2>2, <2>3
<1>n. PICK n : n = IF upto[s] < k THEN k ELSE upto[s]
  OBVIOUS
<1>6. n \in Nat /\ upto[s] <= n /\ k <= n /\ upto'[s] = n
  BY <1>1, <1>5, <1>n DEF KVInv, MapsOK
<1>7. /\ got'[s] = None
      /\ \A r \in Server \ {s} : got'[r] = got[r] /\ upto'[r] = upto[r]
  BY <1>1 DEF KVInv, MapsOK
<1>8. /\ op.req.type = "Get" \/ op.seq <= ClientMaxRequestSeq[s][op.client] =>
           Reflects(rsm[s], ClientMaxRequestSeq[s], n)
      /\ op.req.type # "Get" /\ ~(op.seq <= ClientMaxRequestSeq[s][op.client]) =>
           /\ n = k
           /\ Reflects(Written(rsm[s], op.req), [ClientMaxRequestSeq[s] EXCEPT ![op.client] = op.seq], k)
  <2>1. Reflects(rsm[s], ClientMaxRequestSeq[s], upto[s])
    BY <1>4 DEF InOrder
  <2> QED  BY <1>3, <1>5, <1>n, <1>o, <2>1, NextEntry
<1>9. /\ Reflects(rsm'[s], ClientMaxRequestSeq'[s], n)
      /\ \A r \in Server \ {s} :
           rsm'[r] = rsm[r] /\ ClientMaxRequestSeq'[r] = ClientMaxRequestSeq[r]
  BY <1>2, <1>8 DEF KVInv, MapsOK
<1>10. InOrder(s)'
  <2>1. PICK d, q : d = rsm'[s] /\ q = ClientMaxRequestSeq'[s]
    OBVIOUS
  <2>2. Reflects(d, q, n)'
    BY <1>3, <1>6, <1>9, <2>1, ReflectsKept
  <2>3. Reflects(rsm[s], ClientMaxRequestSeq[s], upto[s])'
    BY <1>6, <2>1, <2>2
  <2>4. Sound(snapshot[s])'
    BY <1>1, <1>3, <1>4, SoundKept DEF InOrder, KVInv, MapsOK
  <2>5. install[s] # None => Sound(install[s])'
    BY <1>1, <1>3, <1>4, SoundKept DEF InOrder, KVInv, MapsOK
  <2>6. Sent(s)' = Sent(s)
    BY <1>1 DEF Sent
  <2>7. install[s] = None => Sent(s)' <= Reach(s)'
    <3>1. install[s] = None => Sent(s) <= k
      BY <1>1, <1>4, <1>k DEF InOrder, Reach
    <3>2. Reach(s)' = n
      BY <1>6, <1>7 DEF Reach
    <3>3. Sent(s) \in Int
      BY DEF Sent, KVInv, IndexOK
    <3> QED  BY <1>5, <1>6, <2>6, <3>1, <3>2, <3>3
  <2> QED  BY <1>1, <1>4, <1>7, <2>3, <2>4, <2>5, <2>6, <2>7 DEF InOrder
<1>11. ASSUME NEW r \in Server, r # s PROVE InOrder(r)'
  BY <1>1, <1>3, <1>4, <1>7, <1>9, <1>11, InOrderKept
<1>12. ResultsOK'
  <2>1. CASE UNCHANGED resultMap
    BY <1>3, <1>4, <2>1, ResultsKept
  <2>2. CASE op.req.type = "Get" /\ ~UNCHANGED resultMap
    <3>1. /\ resultMap' = [resultMap EXCEPT ![s] =
               [id \in DOMAIN resultMap[s] \cup {CommID(op)} |->
                  IF id = CommID(op) THEN rsm[s][op.req.key] ELSE resultMap[s][id]]]
          /\ DOMAIN resultMap = Server
      BY <1>2, <1>4, <2>2 DEF ResultsOK
    <3>2. /\ DOMAIN resultMap' = Server
          /\ \A r \in Server \ {s} : resultMap'[r] = resultMap[r]
          /\ resultMap'[s] = [id \in DOMAIN resultMap[s] \cup {CommID(op)} |->
                               IF id = CommID(op) THEN rsm[s][op.req.key] ELSE resultMap[s][id]]
      BY <3>1
    <3>3. Answered(CommID(op), rsm[s][op.req.key])
      <4>1. rsm[s] = StoreAt(n) /\ n <= Len(chosen)
        BY <1>8, <2>2 DEF Reflects
      <4>2. n \in k..Len(chosen) /\ CommID(chosen[k].op) = CommID(op)
        BY <1>3, <1>5, <1>6, <1>o, <4>1 DEF LogsOK
      <4> QED  BY <1>5, <1>o, <4>1, <4>2 DEF Answered
    <3>4. ASSUME NEW r \in Server, NEW id \in DOMAIN resultMap'[r]
          PROVE  Answered(id, resultMap[r][id])'
      <4>1. PICK value : value = resultMap'[r][id]
        OBVIOUS
      <4>2. Answered(id, value)
        BY <1>4, <3>2, <3>3, <4>1 DEF ResultsOK
      <4>3. Answered(id, value)'
        BY <1>3, <4>2, AnsweredKept
      <4> QED  BY <4>1, <4>3
    <3> QED  BY <3>2, <3>4 DEF ResultsOK
  <2> QED  BY <1>2, <2>1, <2>2
<1>13. SnapsOK'
  <2>1. ASSUME NEW g \in snaps
        PROVE  /\ g.old = None => g.index <= upto'[g.srv]
               /\ g.old # None => Reflects(g.old.rsm, g.old.seqs, g.old.upto)' /\ g.index <= g.old.upto
    <3>1. g.srv \in Server /\ upto[g.srv] \in Nat
      BY DEF KVInv, MapsOK, Snapper
    <3>2. upto[g.srv] <= upto'[g.srv]
      BY <1>6, <1>7, <3>1
    <3> QED  BY <1>3, <1>4, <3>2, SnapKept
  <2>2. ASSUME NEW g, g = [srv |-> s, index |-> k, st |-> "new", old |-> None]
        PROVE  g.old = None /\ g.index <= upto'[g.srv]
    BY <1>6, <2>2
  <2> QED  BY <1>1, <2>1, <2>2 DEF SnapsOK
<1> QED  BY <1>10, <1>11, <1>12, <1>13

-----------------------------------------------------------------------------
(* TakeSnapshots, and a restart.                                           *)

\* TakeSnapshots returns at once, or takes the lock.
LEMMA SnapshotReturnLockKeepsLog ==
  ASSUME KVInv, KVInv', LogInv, NEW g \in snaps, SnapshotReturn(g) \/ SnapshotLock(g)
  PROVE  LogInv'
<1>1. /\ UNCHANGED <<chosen, commitIndex, outbox, install, snapshot, got, rsm, ClientMaxRequestSeq,
                     resultMap, upto, overtaken>>
      /\ snaps' = snaps \ {g} \/ snaps' = (snaps \ {g}) \cup {[g EXCEPT !.st = "locked"]}
  BY DEF SnapshotReturn, SnapshotLock, raftVars, applyVars, diskVars
<1>2. LogGrows
  BY <1>1, SameLogGrows
<1> SUFFICES ASSUME ~overtaken PROVE SnapsOK' /\ ResultsOK' /\ \A r \in Server : InOrder(r)'
  BY <1>1 DEF LogInv
<1>3. SnapsOK /\ ResultsOK /\ \A r \in Server : InOrder(r)
  BY DEF LogInv
<1>4. ASSUME NEW r \in Server PROVE InOrder(r)'
  BY <1>1, <1>2, <1>3, InOrderKept
<1>5. ResultsOK'
  BY <1>1, <1>2, <1>3, ResultsKept
<1>6. SnapsOK'
  <2>1. ASSUME NEW f \in snaps
        PROVE  /\ f.old = None => f.index <= upto'[f.srv]
               /\ f.old # None => Reflects(f.old.rsm, f.old.seqs, f.old.upto)' /\ f.index <= f.old.upto
    <3>1. upto[f.srv] <= upto'[f.srv]
      BY <1>1 DEF KVInv, MapsOK, Snapper
    <3> QED  BY <1>2, <1>3, <3>1, SnapKept
  <2>2. PICK f : f = [g EXCEPT !.st = "locked"]
    OBVIOUS
  <2>3. f.old = g.old /\ f.index = g.index /\ f.srv = g.srv
    BY <2>2 DEF KVInv, MapsOK, Snapper
  <2>4. \A e \in snaps' : e \in snaps \/ e = f
    BY <1>1, <2>2
  <2> QED  BY <2>1, <2>3, <2>4 DEF SnapsOK
<1> QED  BY <1>4, <1>5, <1>6

\* The snapshot that is saved under the index endIndex holds at least that much: the
\* maps hold the entry after it, whether they are current or were replaced.
LEMMA SnapshotSaveKeepsLog ==
  ASSUME KVInv, KVInv', LogInv, NEW g \in snaps, SnapshotSave(g)
  PROVE  LogInv'
<1>s. PICK s : s = g.srv
  OBVIOUS
<1>m. PICK maps : maps = IF g.old = None
                           THEN [seqs |-> ClientMaxRequestSeq[s], rsm |-> rsm[s], upto |-> upto[s]]
                           ELSE g.old
  OBVIOUS
<1>d. PICK data :
        data = [index |-> g.index - 1, seqs |-> maps.seqs, rsm |-> maps.rsm, upto |-> maps.upto]
  OBVIOUS
<1>1. /\ UNCHANGED <<chosen, commitIndex, outbox, install, got, rsm, ClientMaxRequestSeq,
                     resultMap, upto, overtaken>>
      /\ snaps' = snaps \ {g} /\ snapshot' = [snapshot EXCEPT ![s] = data]
  BY <1>s, <1>m, <1>d DEF SnapshotSave, raftVars, applyVars
<1>2. LogGrows /\ LogsOK /\ LogsOK'
  BY <1>1, SameLogGrows DEF KVInv
<1> SUFFICES ASSUME ~overtaken PROVE SnapsOK' /\ ResultsOK' /\ \A r \in Server : InOrder(r)'
  BY <1>1 DEF LogInv
<1>3. SnapsOK /\ ResultsOK /\ \A r \in Server : InOrder(r)
  BY DEF LogInv
<1>4. s \in Server /\ g.index \in Nat /\ upto[s] \in Nat /\ (g.old # None => g.old \in Maps)
  BY <1>s DEF KVInv, MapsOK, Snapper
<1>5. Reflects(maps.rsm, maps.seqs, maps.upto) /\ g.index <= maps.upto /\ maps.upto \in Nat
  <2>1. CASE g.old = None
    <3>1. maps.seqs = ClientMaxRequestSeq[s] /\ maps.rsm = rsm[s] /\ maps.upto = upto[s]
      BY <1>m, <2>1
    <3>2. g.index <= upto[s]
      BY <1>3, <1>s, <2>1 DEF SnapsOK
    <3>3. Reflects(rsm[s], ClientMaxRequestSeq[s], upto[s])
      BY <1>3, <1>4 DEF InOrder
    <3> QED  BY <1>4, <3>1, <3>2, <3>3
  <2>2. CASE g.old # None
    <3>1. maps = g.old /\ maps.upto \in Nat
      BY <1>4, <1>m, <2>2 DEF Maps
    <3> QED  BY <1>3, <2>2, <3>1 DEF SnapsOK
  <2> QED  BY <2>1, <2>2
<1>6. Sound(data)'
  <2>1. /\ data.index = g.index - 1 /\ data.seqs = maps.seqs /\ data.rsm = maps.rsm
        /\ data.upto = maps.upto
    BY <1>d
  <2>2. data.index <= data.upto
    BY <1>4, <1>5, <2>1
  <2>3. PICK d, q : d = maps.rsm /\ q = maps.seqs
    OBVIOUS
  <2>4. PICK u : u = maps.upto
    OBVIOUS
  <2>5. Reflects(d, q, u)'
    BY <1>2, <1>5, <2>3, <2>4, ReflectsKept
  <2> QED  BY <2>1, <2>2, <2>3, <2>4, <2>5 DEF Sound
<1>7. ASSUME NEW r \in Server PROVE InOrder(r)'
  <2>1. CASE r = s
    <3>1. snapshot'[r] = data
      BY <1>1, <2>1 DEF KVInv, MapsOK
    <3>2. Reflects(rsm[r], ClientMaxRequestSeq[r], upto[r])'
      BY <1>1, <1>2, <1>3, ReflectsKept DEF InOrder, KVInv, MapsOK
    <3>3. install[r] # None => Sound(install[r])'
      BY <1>1, <1>2, <1>3, SoundKept DEF InOrder, KVInv, MapsOK
    <3>4. got[r] # None /\ ~got[r].valid => Sound(got[r].data)'
      BY <1>1, <1>2, <1>3, SoundKept DEF InOrder, KVInv, MapsOK
    <3>5. Sent(r)' = Sent(r) /\ Reach(r)' = Reach(r)
      BY <1>1 DEF Sent, Reach
    <3> QED  BY <1>1, <1>3, <1>6, <3>1, <3>2, <3>3, <3>4, <3>5 DEF InOrder
  <2>2. CASE r # s
    <3>1. snapshot'[r] = snapshot[r]
      BY <1>1, <2>2 DEF KVInv, MapsOK
    <3> QED  BY <1>1, <1>2, <1>3, <3>1, InOrderKept
  <2> QED  BY <2>1, <2>2
<1>8. ResultsOK'
  BY <1>1, <1>2, <1>3, ResultsKept
<1>9. SnapsOK'
  <2>1. \A f \in snaps : upto[f.srv] <= upto'[f.srv]
    BY <1>1 DEF KVInv, MapsOK, Snapper
  <2> QED  BY <1>1, <1>2, <1>3, <2>1, SnapKept DEF SnapsOK
<1> QED  BY <1>7, <1>8, <1>9

\* Empty maps reflect the empty prefix of the log.
LEMMA EmptyReflects == ASSUME LogsOK PROVE Reflects(NoData, NoSeqs, 0)
<1>1. StoreAt(0) = NoData /\ Len(chosen) \in Nat
  BY StoreIs DEF StoreFacts, LogsOK
<1>2. \A c \in Clerk : NoSeqs[c] = 0
  BY DEF NoSeqs
<1> QED  BY <1>1, <1>2 DEF Reflects

\* A restarted server has empty maps, and its snapshot and the commands after it are
\* sent to it again.
LEMMA CrashKeepsLog ==
  ASSUME KVInv, KVInv', LogInv, NEW s \in Server, Crash(s)
  PROVE  LogInv'
<1>d. PICK saved : saved = snapshot[s]
  OBVIOUS
<1>1. /\ UNCHANGED <<chosen, snapshot, overtaken>>
      /\ outbox' = [outbox EXCEPT ![s] = << >>]
      /\ install' = [install EXCEPT ![s] = IF saved.index > 0 THEN saved ELSE None]
      /\ commitIndex' = [commitIndex EXCEPT ![s] = saved.index]
      /\ got' = [got EXCEPT ![s] = None]
      /\ rsm' = [rsm EXCEPT ![s] = NoData]
      /\ ClientMaxRequestSeq' = [ClientMaxRequestSeq EXCEPT ![s] = NoSeqs]
      /\ resultMap' = [resultMap EXCEPT ![s] = << >>]
      /\ upto' = [upto EXCEPT ![s] = 0]
      /\ snaps' = {g \in snaps : g.srv # s}
  BY <1>d DEF Crash
<1>2. LogGrows /\ LogsOK /\ LogsOK'
  BY <1>1, SameLogGrows DEF KVInv
<1> SUFFICES ASSUME ~overtaken PROVE SnapsOK' /\ ResultsOK' /\ \A r \in Server : InOrder(r)'
  BY <1>1 DEF LogInv
<1>3. SnapsOK /\ ResultsOK /\ \A r \in Server : InOrder(r)
  BY DEF LogInv
<1>4. saved \in Saved /\ saved.index \in Nat /\ saved # None
  <2>1. saved \in Saved
    BY <1>d DEF KVInv, MapsOK
  <2>2. saved # None
    BY <2>1, KVAssumption
  <2> QED  BY <2>1, <2>2 DEF Saved
<1>5. /\ outbox'[s] = << >> /\ commitIndex'[s] = saved.index /\ got'[s] = None /\ rsm'[s] = NoData
      /\ ClientMaxRequestSeq'[s] = NoSeqs /\ upto'[s] = 0
      /\ install'[s] = IF saved.index > 0 THEN saved ELSE None
  BY <1>1 DEF KVInv, MapsOK, IndexOK
<1>6. \A r \in Server \ {s} :
        /\ outbox'[r] = outbox[r] /\ commitIndex'[r] = commitIndex[r] /\ got'[r] = got[r]
        /\ rsm'[r] = rsm[r] /\ ClientMaxRequestSeq'[r] = ClientMaxRequestSeq[r]
        /\ upto'[r] = upto[r] /\ install'[r] = install[r]
  BY <1>1 DEF KVInv, MapsOK, IndexOK
<1>7. InOrder(s)'
  <2>1. Reflects(NoData, NoSeqs, 0)'
    BY <1>2, EmptyReflects, ReflectsKept DEF NoData, NoSeqs
  <2>2. Sound(saved)'
    BY <1>2, <1>3, <1>4, <1>d, SoundKept DEF InOrder
  <2>3. Sent(s)' = saved.index /\ Len(outbox'[s]) = 0
    BY <1>4, <1>5 DEF Sent
  <2>4. Reach(s)' = 0
    BY <1>5 DEF Reach
  <2>5. Reflects(rsm[s], ClientMaxRequestSeq[s], upto[s])'
    BY <1>5, <2>1 DEF NoData, NoSeqs
  <2>6. Sound(snapshot[s])'
    BY <1>1, <1>d, <2>2
  <2>7. install'[s] # None => install'[s] = saved
    BY <1>5
  <2>8. install'[s] = None => saved.index = 0
    BY <1>4, <1>5
  <2> QED  BY <1>4, <1>5, <2>2, <2>3, <2>4, <2>5, <2>6, <2>7, <2>8 DEF InOrder
<1>8. ASSUME NEW r \in Server, r # s PROVE InOrder(r)'
  BY <1>1, <1>2, <1>3, <1>6, <1>8, InOrderKept
<1>9. ResultsOK'
  <2>1. DOMAIN resultMap = Server
    BY <1>3 DEF ResultsOK
  <2>2. DOMAIN resultMap' = Server /\ resultMap'[s] = << >>
        /\ \A r \in Server \ {s} : resultMap'[r] = resultMap[r]
    BY <1>1, <2>1
  <2>3. DOMAIN resultMap'[s] = {}
    BY <2>2
  <2> QED  BY <1>2, <1>3, <2>1, <2>2, <2>3, ResultsKept
<1>10. SnapsOK'
  <2>1. ASSUME NEW g \in snaps'
        PROVE  /\ g.old = None => g.index <= upto'[g.srv]
               /\ g.old # None => Reflects(g.old.rsm, g.old.seqs, g.old.upto)' /\ g.index <= g.old.upto
    <3>1. g \in snaps /\ g.srv # s /\ g.srv \in Server /\ upto[g.srv] \in Nat
      BY <1>1 DEF KVInv, MapsOK, Snapper
    <3>2. upto[g.srv] <= upto'[g.srv]
      BY <1>6, <3>1
    <3> QED  BY <1>2, <1>3, <3>1, <3>2, SnapKept
  <2> QED  BY <2>1 DEF SnapsOK
<1> QED  BY <1>7, <1>8, <1>9, <1>10

-----------------------------------------------------------------------------
(* The copies of a request.                                                *)

\* Every clerk is busy with the request it was busy with.
SameCalls ==
  \A c \in Clerk :
    /\ clerk'[c].seq = clerk[c].seq /\ clerk'[c].req = clerk[c].req
    /\ clerk'[c].floor = clerk[c].floor /\ (clerk'[c].st = "idle" <=> clerk[c].st = "idle")

\* The entries of the logs and the handlers are about requests of clerks.
LEMMA OpsOfClerks ==
  ASSUME KVInv
  PROVE  /\ \A k \in 1..Len(chosen) : chosen[k] \in Entry /\ chosen[k].op \in Op
         /\ \A s \in Server : \A k \in 1..Len(pending[s]) : pending[s][k] \in Entry /\ pending[s][k].op \in Op
         /\ \A h \in handlers : h.op \in Op
         /\ \A op \in Op : op.client \in Clerk /\ op.seq \in Nat
         /\ \A c \in Clerk : clerk[c].seq \in Nat /\ clerk[c].floor \in Nat
<1>1. chosen \in Seq(Entry) /\ \A s \in Server : pending[s] \in Seq(Entry)
  BY DEF KVInv, LogsOK
<1>2. \A k \in 1..Len(chosen) : chosen[k] \in Entry
  BY <1>1, ElementOfSeq
<1>3. \A s \in Server : \A k \in 1..Len(pending[s]) : pending[s][k] \in Entry
  BY <1>1, ElementOfSeq
<1>4. \A c \in Clerk : clerk[c].seq \in Nat /\ clerk[c].floor \in Nat
  BY DEF KVInv, CallsOK, ClerkState
<1>5. \A h \in handlers : h.op \in Op
  BY DEF KVInv, CallsOK, Handler
<1>6. \A op \in Op : op.client \in Clerk /\ op.seq \in Nat
  BY DEF Op
<1>7. \A e \in Entry : e.op \in Op
  BY DEF Entry
<1> QED  BY <1>2, <1>3, <1>4, <1>5, <1>6, <1>7

\* A request that was issued stays so as long as its clerk is busy with it.
LEMMA SameCallsIssued ==
  ASSUME SameCalls PROVE \A op \in Op : Issued(op) => Issued(op)'
  BY DEF SameCalls, Issued, Op

\* A step that agrees on nothing and in which no clerk begins or ends a request
\* makes copies only of requests that have been issued.
LEMMA SameCallsOps ==
  ASSUME KVInv, KVInv', OpsOK, SameCalls, UNCHANGED <<chosen, floor>>,
         \A s \in Server : \A k \in 1..Len(pending'[s]) :
           \/ \E r \in Server : \E j \in 1..Len(pending[r]) : pending'[s][k] = pending[r][j]
           \/ \E h \in handlers : pending'[s][k].op = h.op,
         \A h \in handlers' : Issued(h.op) /\ (h.live => h.op.seq = clerk[h.op.client].seq)
  PROVE  OpsOK'
<1>1. \A k \in 1..Len(chosen) : Issued(chosen[k].op) /\ chosen[k].op \in Op
  BY OpsOfClerks DEF OpsOK
<1>2. \A k \in 1..Len(chosen') : Issued(chosen[k].op)'
  BY <1>1, SameCallsIssued
<1>3. \A k \in 1..Len(chosen') :
        LET op == chosen'[k].op IN op.seq = clerk'[op.client].seq => clerk'[op.client].floor < k
  BY <1>1, OpsOfClerks DEF OpsOK, SameCalls
<1>4. ASSUME NEW s \in Server, NEW k \in 1..Len(pending'[s]) PROVE Issued(pending[s][k].op)'
  <2>1. PICK op : op = pending'[s][k].op
    OBVIOUS
  <2>2. op \in Op /\ Issued(op)
    BY <2>1, OpsOfClerks DEF OpsOK
  <2>3. Issued(op)'
    BY <2>2, SameCallsIssued
  <2> QED  BY <2>1, <2>3
<1>5. ASSUME NEW h \in handlers' PROVE Issued(h.op)' /\ (h.live => h.op.seq = clerk'[h.op.client].seq)
  <2>1. h.op \in Op /\ h.op.client \in Clerk
    BY DEF KVInv, CallsOK, Handler, Op
  <2> QED  BY <2>1, SameCallsIssued DEF SameCalls
<1>6. floor' <= Len(chosen') /\ \A c \in Clerk : clerk'[c].floor <= Len(chosen')
  BY DEF OpsOK, SameCalls
<1> QED  BY <1>2, <1>3, <1>4, <1>5, <1>6 DEF OpsOK

\* A step of Raft or of a server that agrees on nothing.
LEMMA NoCallOps ==
  ASSUME KVInv, KVInv', OpsOK, UNCHANGED <<chosen, floor, clerk>>, handlers' \subseteq handlers,
         \A s \in Server : \A k \in 1..Len(pending'[s]) :
           \E r \in Server : \E j \in 1..Len(pending[r]) : pending'[s][k] = pending[r][j]
  PROVE  OpsOK'
<1>1. SameCalls
  BY DEF SameCalls
<1>2. \A h \in handlers' : Issued(h.op) /\ (h.live => h.op.seq = clerk[h.op.client].seq)
  BY DEF OpsOK
<1> QED  BY <1>1, <1>2, SameCallsOps

\* The log of a server that is elected is its own, or part of the old leader's.
LEMMA ElectKeepsOps ==
  ASSUME KVInv, KVInv', OpsOK, NEW s \in Server, Elect(s)
  PROVE  OpsOK'
<1>1. UNCHANGED <<chosen, floor, clerk, handlers>>
  BY DEF Elect, clientVars
<1>2. pending \in [Server -> Seq(Entry)] /\ elected \in Server
  BY DEF KVInv, LogsOK
<1>3. CASE UNCHANGED pending
  BY <1>1, <1>3, NoCallOps
<1>4. ASSUME NEW n \in 1..Len(pending[elected]),
             pending' = [pending EXCEPT ![s] = SubSeq(pending[elected], 1, n)]
      PROVE  OpsOK'
  <2>1. /\ Len(SubSeq(pending[elected], 1, n)) = n
        /\ \A k \in 1..n : SubSeq(pending[elected], 1, n)[k] = pending[elected][k]
        /\ Len(pending[elected]) \in Nat
    BY <1>2, SubSeqProperties
  <2>2. ASSUME NEW r \in Server, NEW k \in 1..Len(pending'[r])
        PROVE  \E q \in Server : \E j \in 1..Len(pending[q]) : pending'[r][k] = pending[q][j]
    <3>1. CASE r = s
      <4>1. pending'[r] = SubSeq(pending[elected], 1, n)
        BY <1>2, <1>4, <3>1
      <4>2. k \in 1..n /\ k \in 1..Len(pending[elected])
        BY <2>1, <4>1
      <4> QED  BY <1>2, <2>1, <4>1, <4>2
    <3>2. CASE r # s
      BY <1>2, <1>4, <3>2
    <3> QED  BY <3>1, <3>2
  <2> QED  BY <1>1, <2>2, NoCallOps
<1> QED  BY <1>3, <1>4 DEF Elect

\* A server whose log is dropped.
LEMMA InstallKeepsOps ==
  ASSUME KVInv, KVInv', OpsOK, NEW s \in Server, Install(s)
  PROVE  OpsOK'
<1>1. UNCHANGED <<chosen, floor, clerk, handlers>> /\ pending' = [pending EXCEPT ![s] = << >>]
  BY DEF Install, clientVars
<1>2. pending'[s] = << >> /\ \A r \in Server \ {s} : pending'[r] = pending[r]
  BY <1>1 DEF KVInv, LogsOK
<1>3. Len(pending'[s]) = 0
  BY <1>2
<1>4. ASSUME NEW r \in Server, NEW k \in 1..Len(pending'[r])
      PROVE  \E q \in Server : \E j \in 1..Len(pending[q]) : pending'[r][k] = pending[q][j]
  BY <1>2, <1>3
<1> QED  BY <1>1, <1>4, NoCallOps

\* The entry that is agreed on comes after all that had been agreed on.
LEMMA CommitKeepsOps ==
  ASSUME KVInv, KVInv', OpsOK, Commit
  PROVE  OpsOK'
<1>e. PICK e : e = Head(pending[elected])
  OBVIOUS
<1>1. /\ UNCHANGED <<floor, clerk, handlers>>
      /\ pending[elected] # << >> /\ chosen' = Append(chosen, e)
      /\ pending' = [s \in Server |->
           IF pending[s] # << >> /\ Head(pending[s]) = e THEN Tail(pending[s]) ELSE << >>]
  BY <1>e DEF Commit, clientVars
<1>2. /\ chosen \in Seq(Entry) /\ pending \in [Server -> Seq(Entry)] /\ elected \in Server
      /\ Len(chosen) \in Nat
  BY DEF KVInv, LogsOK
<1>3. e = pending[elected][1] /\ 1 \in 1..Len(pending[elected])
  BY <1>1, <1>2, <1>e, HeadTailProperties, EmptySeq, LenProperties
<1>4. e \in Entry /\ Issued(e.op) /\ e.op \in Op
  BY <1>2, <1>3, OpsOfClerks DEF OpsOK
<1>5. /\ Len(chosen') = Len(chosen) + 1 /\ chosen'[Len(chosen) + 1] = e
      /\ \A k \in 1..Len(chosen) : chosen'[k] = chosen[k]
  BY <1>1, <1>2, <1>4, AppendProperties
<1>6. \A op \in Op : Issued(op) => Issued(op)'
  BY <1>1 DEF Issued
<1>7. ASSUME NEW k \in 1..Len(chosen')
      PROVE  /\ Issued(chosen[k].op)'
             /\ LET op == chosen'[k].op IN
                op.seq = clerk'[op.client].seq => clerk'[op.client].floor < k
  <2>1. CASE k \in 1..Len(chosen)
    <3>1. chosen[k].op \in Op /\ Issued(chosen[k].op) /\ chosen'[k] = chosen[k]
      BY <1>5, <2>1, OpsOfClerks DEF OpsOK
    <3> QED  BY <1>1, <1>6, <2>1, <3>1 DEF OpsOK
  <2>2. CASE k = Len(chosen) + 1
    <3>1. chosen'[k] = e /\ e.op.client \in Clerk
      BY <1>4, <1>5, <2>2, OpsOfClerks
    <3>2. clerk[e.op.client].floor < k
      BY <1>2, <2>2, <3>1, OpsOfClerks DEF OpsOK
    <3> QED  BY <1>1, <1>4, <1>6, <3>1, <3>2
  <2> QED  BY <1>2, <1>5, <2>1, <2>2
<1>8. ASSUME NEW s \in Server, NEW k \in 1..Len(pending'[s]) PROVE Issued(pending[s][k].op)'
  <2>1. pending[s] # << >> /\ pending'[s] = Tail(pending[s])
    <3>1. CASE pending'[s] = << >>
      BY <3>1
    <3> QED  BY <1>1, <3>1
  <2>2. k + 1 \in 1..Len(pending[s]) /\ pending'[s][k] = pending[s][k + 1]
    BY <1>2, <2>1, HeadTailProperties, LenProperties
  <2>3. PICK op : op = pending[s][k + 1].op
    OBVIOUS
  <2>4. op \in Op /\ Issued(op)
    BY <2>2, <2>3, OpsOfClerks DEF OpsOK
  <2> QED  BY <1>6, <2>2, <2>3, <2>4
<1>9. \A h \in handlers' : Issued(h.op)' /\ (h.live => h.op.seq = clerk'[h.op.client].seq)
  BY <1>1, <1>6, OpsOfClerks DEF OpsOK
<1>10. floor' <= Len(chosen') /\ \A c \in Clerk : clerk'[c].floor <= Len(chosen')
  <2>1. floor \in Nat
    BY DEF KVInv, CallsOK
  <2> QED  BY <1>1, <1>2, <1>5, <2>1, OpsOfClerks DEF OpsOK
<1> QED  BY <1>7, <1>8, <1>9, <1>10 DEF OpsOK

\* No copy of a request exists before its clerk begins it.
LEMMA ClerkBeginKeepsOps ==
  ASSUME KVInv, KVInv', OpsOK, NEW c \in Clerk, ClerkBegin(c)
  PROVE  OpsOK'
<1>1. PICK req : clerk' = [clerk EXCEPT ![c].st = "send", ![c].req = req, ![c].floor = floor]
  BY DEF ClerkBegin
<1>2. clerk[c].st = "idle" /\ UNCHANGED <<chosen, pending, handlers, floor>>
  BY DEF ClerkBegin, raftVars
<1>3. clerk \in [Clerk -> ClerkState] /\ clerk[c] \in ClerkState /\ Len(chosen) \in Nat
  BY DEF KVInv, CallsOK, LogsOK
<1>4. /\ clerk'[c].seq = clerk[c].seq /\ clerk'[c].floor = floor
      /\ \A d \in Clerk \ {c} : clerk'[d] = clerk[d]
  BY <1>1, <1>3 DEF ClerkState
<1>5. \A op \in Op : Issued(op) /\ op.client = c => op.seq < clerk[c].seq
  BY <1>2, OpsOfClerks DEF Issued
<1>6. \A op \in Op : Issued(op) => Issued(op)'
  <2>1. ASSUME NEW op \in Op, Issued(op) PROVE Issued(op)'
    <3>1. CASE op.client = c
      BY <1>4, <1>5, <2>1, <3>1, OpsOfClerks DEF Issued
    <3>2. CASE op.client # c
      BY <1>4, <2>1, <3>2, OpsOfClerks DEF Issued
    <3> QED  BY <3>1, <3>2
  <2> QED  BY <2>1
<1>7. ASSUME NEW k \in 1..Len(chosen')
      PROVE  /\ Issued(chosen[k].op)'
             /\ LET op == chosen'[k].op IN
                op.seq = clerk'[op.client].seq => clerk'[op.client].floor < k
  <2>1. PICK op : op = chosen[k].op
    OBVIOUS
  <2>2. op \in Op /\ Issued(op) /\ op.client \in Clerk /\ op.seq \in Nat /\ clerk[op.client].seq \in Nat
    BY <1>2, <2>1, OpsOfClerks DEF OpsOK
  <2>3. op.seq = clerk'[op.client].seq => op.client # c
    BY <1>4, <1>5, <2>2
  <2> QED  BY <1>2, <1>4, <1>6, <2>1, <2>2, <2>3 DEF OpsOK
<1>8. ASSUME NEW s \in Server, NEW k \in 1..Len(pending'[s]) PROVE Issued(pending[s][k].op)'
  BY <1>2, <1>6, OpsOfClerks DEF OpsOK
<1>9. ASSUME NEW h \in handlers'
      PROVE  Issued(h.op)' /\ (h.live => h.op.seq = clerk'[h.op.client].seq)
  <2>1. h.op \in Op /\ h.op.client \in Clerk
    BY <1>2, OpsOfClerks
  <2> QED  BY <1>2, <1>4, <1>6, <2>1 DEF OpsOK
<1>10. floor' <= Len(chosen') /\ \A d \in Clerk : clerk'[d].floor <= Len(chosen')
  BY <1>2, <1>4 DEF OpsOK
<1> QED  BY <1>7, <1>8, <1>9, <1>10 DEF OpsOK

\* A clerk that tries another server is busy with the same request.
LEMMA TryAnotherSame ==
  ASSUME KVInv, NEW c \in Clerk, clerk[c].st # "idle", clerk' = TryAnother(c)
  PROVE  SameCalls
<1>1. clerk \in [Clerk -> ClerkState] /\ clerk[c] \in ClerkState
  BY DEF KVInv, CallsOK
<1>2. clerk' = [clerk EXCEPT ![c] = [clerk[c] EXCEPT !.st = "send", !.leader = None]]
  BY TryAnotherIs DEF KVInv
<1>3. /\ clerk'[c].seq = clerk[c].seq /\ clerk'[c].req = clerk[c].req
      /\ clerk'[c].floor = clerk[c].floor /\ clerk'[c].st = "send"
      /\ \A d \in Clerk \ {c} : clerk'[d] = clerk[d]
  BY <1>1, <1>2 DEF ClerkState
<1> QED  BY <1>3 DEF SameCalls

\* The handler of a call is about the request its clerk is busy with.
LEMMA CallKeepsOps ==
  ASSUME KVInv, KVInv', OpsOK, NEW c \in Clerk, NEW s \in Server, Call(c, s)
  PROVE  OpsOK'
<1>1. clerk[c].st = "send" /\ UNCHANGED <<chosen, pending, floor>>
  BY DEF Call, raftVars
<1>2. clerk \in [Clerk -> ClerkState] /\ clerk[c] \in ClerkState /\ clerk[c].seq \in Nat
  BY DEF KVInv, CallsOK, ClerkState
<1>3. CASE s \in leads /\ s \notin booting
  <2>n. PICK new :
          new = [srv |-> s, st |-> "start", index |-> -1, term |-> NoTerm, live |-> TRUE,
                 op |-> [client |-> c, seq |-> clerk[c].seq, req |-> clerk[c].req]]
    OBVIOUS
  <2>1. /\ handlers' = handlers \cup {new}
        /\ clerk' = [clerk EXCEPT ![c].st = "wait", ![c].leader = s]
    BY <1>3, <2>n DEF Call
  <2>2. new.op.client = c /\ new.op.seq = clerk[c].seq /\ new.op.req = clerk[c].req
    BY <2>n
  <2>3. Issued(new.op)
    BY <1>1, <1>2, <2>2 DEF Issued
  <2>4. SameCalls
    <3>1. /\ clerk'[c].seq = clerk[c].seq /\ clerk'[c].req = clerk[c].req
          /\ clerk'[c].floor = clerk[c].floor /\ clerk'[c].st = "wait"
          /\ \A d \in Clerk \ {c} : clerk'[d] = clerk[d]
      BY <1>2, <2>1 DEF ClerkState
    <3> QED  BY <1>1, <3>1 DEF SameCalls
  <2>5. \A h \in handlers' : Issued(h.op) /\ (h.live => h.op.seq = clerk[h.op.client].seq)
    BY <2>1, <2>2, <2>3 DEF OpsOK
  <2> QED  BY <1>1, <2>4, <2>5, SameCallsOps
<1>4. CASE ~(s \in leads /\ s \notin booting)
  <2>1. clerk' = TryAnother(c) /\ UNCHANGED handlers
    BY <1>4 DEF Call
  <2>2. SameCalls
    BY <1>1, <2>1, TryAnotherSame
  <2>3. \A h \in handlers' : Issued(h.op) /\ (h.live => h.op.seq = clerk[h.op.client].seq)
    BY <2>1 DEF OpsOK
  <2> QED  BY <1>1, <2>2, <2>3, SameCallsOps
<1> QED  BY <1>3, <1>4

\* A call that fails, or that finds its server deposed or stopped.
LEMMA RetryKeepsOps ==
  ASSUME KVInv, KVInv', OpsOK, NEW c \in Clerk, clerk[c].st = "wait", clerk' = TryAnother(c),
         UNCHANGED <<chosen, pending, floor>>,
         \A h \in handlers' : \E g \in handlers : h.op = g.op /\ (h.live => g.live)
  PROVE  OpsOK'
<1>1. SameCalls
  BY TryAnotherSame
<1>2. \A h \in handlers' : Issued(h.op) /\ (h.live => h.op.seq = clerk[h.op.client].seq)
  BY DEF OpsOK
<1> QED  BY <1>1, <1>2, SameCallsOps

\* A call that fails on a live server.
LEMMA CallFailsKeepsOps ==
  ASSUME KVInv, KVInv', OpsOK, NEW c \in Clerk, CallFails(c)
  PROVE  OpsOK'
<1>1. /\ clerk[c].st = "wait" /\ clerk' = TryAnother(c) /\ UNCHANGED <<chosen, pending, floor>>
      /\ handlers' = (handlers \ HandlersOf(c)) \cup
           {[h EXCEPT !.live = FALSE] : h \in {g \in HandlersOf(c) : g.st = "start"}}
  BY DEF CallFails, raftVars
<1>2. \A g \in handlers : [g EXCEPT !.live = FALSE].op = g.op /\ ~[g EXCEPT !.live = FALSE].live
  BY DEF KVInv, CallsOK, Handler
<1>3. \A h \in handlers' : \E g \in handlers : h.op = g.op /\ (h.live => g.live)
  BY <1>1, <1>2 DEF HandlersOf
<1> QED  BY <1>1, <1>3, RetryKeepsOps

\* Start copies the request of the handler into the log.
LEMMA HandlerStartKeepsOps ==
  ASSUME KVInv, KVInv', OpsOK, NEW h \in handlers, HandlerStart(h)
  PROVE  OpsOK'
<1>s. PICK s : s = h.srv
  OBVIOUS
<1>e. PICK e : e = [op |-> h.op, by |-> <<s, term>>]
  OBVIOUS
<1>1. /\ UNCHANGED <<chosen, clerk, floor>>
      /\ pending' = IF s \in leads THEN [pending EXCEPT ![s] = Append(@, e)] ELSE pending
  BY <1>e, <1>s DEF HandlerStart
<1>2. \A g \in handlers' : \E f \in handlers : g.op = f.op /\ (g.live => f.live)
  <2>1. PICK started :
          started = IF s \in leads
            THEN [h EXCEPT !.st = "wait", !.index = Len(chosen) + Len(pending[s]) + 1,
                           !.term = IF s = elected THEN term ELSE NoTerm]
            ELSE [h EXCEPT !.st = "wait"]
    OBVIOUS
  <2>2. handlers' = (handlers \ {h}) \cup (IF h.live THEN {started} ELSE {})
    BY <1>s, <2>1 DEF HandlerStart
  <2>3. started.op = h.op
    BY <2>1 DEF KVInv, CallsOK, Handler
  <2> QED  BY <2>2, <2>3
<1>3. SameCalls
  BY <1>1 DEF SameCalls
<1>4. \A g \in handlers' : Issued(g.op) /\ (g.live => g.op.seq = clerk[g.op.client].seq)
  BY <1>2 DEF OpsOK
<1>5. ASSUME NEW r \in Server, NEW k \in 1..Len(pending'[r])
      PROVE  \/ \E q \in Server : \E j \in 1..Len(pending[q]) : pending'[r][k] = pending[q][j]
             \/ \E f \in handlers : pending'[r][k].op = f.op
  <2>1. pending \in [Server -> Seq(Entry)] /\ s \in Server /\ h.op \in Op /\ term \in Nat
    BY <1>s DEF KVInv, LogsOK, CallsOK, Handler
  <2>2. e \in Entry /\ e.op = h.op
    BY <1>e, <2>1 DEF Entry
  <2>3. CASE pending'[r] = pending[r]
    BY <2>3
  <2>4. CASE pending'[r] = Append(pending[r], e)
    <3>1. /\ Len(pending[r]) \in Nat /\ Len(pending'[r]) = Len(pending[r]) + 1
          /\ pending'[r][Len(pending[r]) + 1] = e
          /\ \A j \in 1..Len(pending[r]) : pending'[r][j] = pending[r][j]
      BY <2>1, <2>2, <2>4, AppendProperties
    <3>2. k \in 1..Len(pending[r]) \/ k = Len(pending[r]) + 1
      BY <3>1
    <3> QED  BY <2>2, <3>1, <3>2
  <2> QED  BY <1>1, <2>1, <2>3, <2>4
<1> QED  BY <1>1, <1>3, <1>4, <1>5, SameCallsOps

\* A turn of the loop is about the same request.
LEMMA LoopKeepsOps ==
  ASSUME KVInv, KVInv', OpsOK, NEW h \in handlers, HandlerLeads(h) \/ HandlerSleep(h)
  PROVE  OpsOK'
<1>1. Turned(h) /\ UNCHANGED <<chosen, pending, clerk, floor>>
  BY LoopTurns
<1>2. \A st \in {"wait", "look"} :
        [h EXCEPT !.st = st].op = h.op /\ [h EXCEPT !.st = st].live = h.live
  BY DEF KVInv, CallsOK, Handler
<1>3. \A g \in handlers' : \E f \in handlers : g.op = f.op /\ g.live = f.live
  BY <1>1, <1>2 DEF Turned
<1>4. SameCalls
  BY <1>1 DEF SameCalls
<1>5. \A g \in handlers' : Issued(g.op) /\ (g.live => g.op.seq = clerk[g.op.client].seq)
  BY <1>3 DEF OpsOK
<1> QED  BY <1>1, <1>4, <1>5, SameCallsOps

\* A request that has returned is older than the next one of its clerk.
LEMMA ReturnedKeepsOps ==
  ASSUME KVInv, KVInv', OpsOK, NEW h \in handlers, h.st # "start", handlers' = handlers \ {h},
         clerk' = Returned(h.op.client, h.srv), UNCHANGED <<chosen, pending>>, floor' <= Len(chosen)
  PROVE  OpsOK'
<1>c. PICK c : c = h.op.client
  OBVIOUS
<1>1. /\ c \in Clerk /\ clerk[c] \in ClerkState /\ clerk[c].seq \in Nat
      /\ \A g \in handlers \ {h} : g.op.client = c => ~g.live
  BY <1>c, AnswersLast DEF KVInv, ClerkState
<1>2. /\ clerk'[c].seq = clerk[c].seq + 1 /\ clerk'[c].floor = 0
      /\ \A d \in Clerk \ {c} : clerk'[d] = clerk[d]
  BY <1>1, <1>c DEF Returned, Idle, KVInv, CallsOK
<1>3. \A op \in Op : Issued(op) => Issued(op)'
  <2>1. ASSUME NEW op \in Op, Issued(op) PROVE Issued(op)'
    <3>1. op.client \in Clerk /\ op.seq \in Nat
      BY OpsOfClerks
    <3>2. CASE op.client = c
      <4>1. op.seq <= clerk[c].seq
        BY <2>1, <3>2 DEF Issued
      <4>2. op.seq <= clerk'[c].seq /\ op.seq # clerk'[c].seq
        BY <1>1, <1>2, <3>1, <4>1
      <4> QED  BY <3>2, <4>2 DEF Issued
    <3>3. CASE op.client # c
      BY <1>2, <2>1, <3>1, <3>3 DEF Issued
    <3> QED  BY <3>2, <3>3
  <2> QED  BY <2>1
<1>4. ASSUME NEW k \in 1..Len(chosen')
      PROVE  /\ Issued(chosen[k].op)'
             /\ LET op == chosen'[k].op IN
                op.seq = clerk'[op.client].seq => clerk'[op.client].floor < k
  <2>1. PICK op : op = chosen[k].op
    OBVIOUS
  <2>2. op \in Op /\ Issued(op) /\ op.client \in Clerk /\ op.seq \in Nat
    BY <2>1, OpsOfClerks DEF OpsOK
  <2>3. 0 < k
    BY DEF KVInv, LogsOK
  <2> QED  BY <1>2, <1>3, <2>1, <2>2, <2>3 DEF OpsOK
<1>5. ASSUME NEW s \in Server, NEW k \in 1..Len(pending'[s]) PROVE Issued(pending[s][k].op)'
  BY <1>3, OpsOfClerks DEF OpsOK
<1>6. ASSUME NEW g \in handlers'
      PROVE  Issued(g.op)' /\ (g.live => g.op.seq = clerk'[g.op.client].seq)
  <2>1. g.op \in Op /\ g.op.client \in Clerk
    BY OpsOfClerks
  <2>2. g.live => g.op.client # c
    BY <1>1
  <2> QED  BY <1>2, <1>3, <2>1, <2>2 DEF OpsOK
<1>7. floor' <= Len(chosen') /\ \A d \in Clerk : clerk'[d].floor <= Len(chosen')
  <2>1. 0 <= Len(chosen)
    BY DEF KVInv, LogsOK
  <2> QED  BY <1>2, <2>1 DEF OpsOK
<1> QED  BY <1>4, <1>5, <1>6, <1>7 DEF OpsOK

\* The later of two positions of the log is one.
LEMMA LaterBound ==
  ASSUME NEW m \in Nat, NEW n \in Nat, m <= n, NEW T, T \subseteq 0..n, T # {}
  PROVE  Later(m, CHOOSE k \in T : \A j \in T : k <= j) <= n
<1>1. PICK p : p = CHOOSE k \in T : \A j \in T : k <= j
  OBVIOUS
<1>2. p \in T
  <2>1. T \subseteq Nat
    OBVIOUS
  <2> QED  BY <1>1, <2>1, LeastNat
<1>3. Later(m, p) <= n
  BY <1>2 DEF Later
<1> QED  BY <1>1, <1>3

\* A write that returns is sure of a position of the log at most.
LEMMA PutAppendReturnKeepsOps ==
  ASSUME KVInv, KVInv', OpsOK, NEW h \in handlers, PutAppendReturn(h)
  PROVE  OpsOK'
<1> DEFINE at == {k \in DOMAIN chosen : chosen[k].op = h.op}
<1>1. /\ h.st = "look" /\ handlers' = handlers \ {h} /\ clerk' = Returned(h.op.client, h.srv)
      /\ floor' = IF Sure(h) /\ at # {}
                    THEN Later(floor, CHOOSE k \in at : \A n \in at : k <= n) ELSE floor
      /\ UNCHANGED <<chosen, pending>>
  BY DEF PutAppendReturn, raftVars
<1>2. at \subseteq 0..Len(chosen) /\ Len(chosen) \in Nat /\ floor \in Nat /\ floor <= Len(chosen)
  BY DEF KVInv, LogsOK, CallsOK, OpsOK
<1> HIDE DEF at
<1>3. floor' <= Len(chosen)
  BY <1>1, <1>2, LaterBound
<1> QED  BY <1>1, <1>3, ReturnedKeepsOps

\* A read that returns too.
LEMMA GetReturnKeepsOps ==
  ASSUME KVInv, KVInv', OpsOK, NEW h \in handlers, GetReturn(h)
  PROVE  OpsOK'
<1> DEFINE at == PositionsOf(h.op.req.key, Result(h), clerk[h.op.client].floor)
<1>1. /\ h.st = "look" /\ handlers' = handlers \ {h} /\ clerk' = Returned(h.op.client, h.srv)
      /\ floor' = IF at # {} THEN Later(floor, CHOOSE k \in at : \A n \in at : k <= n) ELSE floor
      /\ UNCHANGED <<chosen, pending>>
  BY DEF GetReturn, raftVars
<1>2. Len(chosen) \in Nat /\ floor \in Nat /\ floor <= Len(chosen) /\ clerk[h.op.client].floor \in Nat
  BY OpsOfClerks DEF KVInv, LogsOK, CallsOK, OpsOK
<1>3. at \subseteq 0..Len(chosen)
  BY <1>2 DEF PositionsOf
<1> HIDE DEF at
<1>4. floor' <= Len(chosen)
  BY <1>1, <1>2, <1>3, LaterBound
<1> QED  BY <1>1, <1>4, ReturnedKeepsOps

-----------------------------------------------------------------------------
(* Answers, and the theorems.                                              *)

\* What was the value of a key at a position stays so.
LEMMA PositionsKept ==
  ASSUME LogsOK, LogsOK', LogGrows
  PROVE  \A key, value : \A from \in Nat :
           PositionsOf(key, value, from) # {} => PositionsOf(key, value, from)' # {}
<1> SUFFICES ASSUME NEW key, NEW value, NEW from \in Nat, PositionsOf(key, value, from) # {}
             PROVE  PositionsOf(key, value, from)' # {}
  OBVIOUS
<1>1. PICK p \in from..Len(chosen) : StoreAt(p)[key] = value
  BY DEF PositionsOf
<1>2. Len(chosen) \in Nat /\ Len(chosen') \in Nat /\ Len(chosen) <= Len(chosen')
  BY DEF LogsOK, LogGrows
<1>3. p \in 0..Len(chosen) /\ p \in from..Len(chosen')
  BY <1>2
<1>4. StoreAt(p)' = StoreAt(p)
  BY <1>3, StoreKept
<1> QED  BY <1>1, <1>3, <1>4 DEF PositionsOf

\* A step in which no read returns.
LEMMA AnswersKept ==
  ASSUME KVInv, KVInv', LogGrows, AnswersOK, UNCHANGED answers
  PROVE  AnswersOK'
<1>1. LogsOK /\ LogsOK'
  BY DEF KVInv
<1>2. ASSUME NEW a \in answers', a.sound PROVE PositionsOf(a.op.req.key, a.value, a.from)' # {}
  <2>1. PICK key, value, from : key = a.op.req.key /\ value = a.value /\ from = a.from
    OBVIOUS
  <2>2. from \in Nat /\ PositionsOf(key, value, from) # {}
    BY <1>2, <2>1 DEF AnswersOK, Linearizable
  <2>3. PositionsOf(key, value, from)' # {}
    BY <1>1, <2>2, PositionsKept
  <2> QED  BY <2>1, <2>3
<1> QED  BY <1>2 DEF AnswersOK, Linearizable

\* A read returns what the log gives for a position after its own entry, and its
\* entry was agreed on after all that had returned when the clerk began it.
LEMMA GetReturnKeepsAnswers ==
  ASSUME KVInv, KVInv', LogInv, OpsOK, AnswersOK, NEW h \in handlers, GetReturn(h)
  PROVE  AnswersOK'
<1>c. PICK c : c = h.op.client
  OBVIOUS
<1>n. PICK new : new = [op |-> h.op, value |-> Result(h), from |-> clerk[c].floor, sound |-> ~overtaken]
  OBVIOUS
<1>1. /\ h.st = "look" /\ CommID(h.op) \in DOMAIN resultMap[h.srv] /\ UNCHANGED chosen
      /\ answers' = answers \cup {new}
  BY <1>c, <1>n DEF GetReturn, ResultReady, raftVars
<1>2. LogGrows /\ LogsOK /\ LogsOK'
  BY <1>1, SameLogGrows DEF KVInv
<1>3. h.live /\ h.op \in Op /\ c \in Clerk /\ h.srv \in Server /\ clerk[c].floor \in Nat
  BY <1>1, <1>c, OpsOfClerks DEF KVInv, CallsOK, Handler
<1>4. /\ new.op = h.op /\ new.from = clerk[c].floor /\ new.sound = ~overtaken
      /\ new.value = resultMap[h.srv][CommID(h.op)]
  BY <1>1, <1>n DEF Result, ResultReady
<1>5. ASSUME ~overtaken PROVE PositionsOf(new.op.req.key, new.value, new.from) # {}
  <2>1. Answered(CommID(h.op), new.value)
    BY <1>1, <1>3, <1>4, <1>5 DEF LogInv, ResultsOK
  <2>2. PICK k \in 1..Len(chosen) : \E p \in k..Len(chosen) :
          CommID(chosen[k].op) = CommID(h.op) /\ new.value = StoreAt(p)[chosen[k].op.req.key]
    BY <2>1 DEF Answered
  <2>3. PICK p \in k..Len(chosen) :
          CommID(chosen[k].op) = CommID(h.op) /\ new.value = StoreAt(p)[chosen[k].op.req.key]
    BY <2>2
  <2>4. chosen[k].op.client = c /\ chosen[k].op.seq = h.op.seq
    BY <1>c, <2>3 DEF CommID
  <2>5. h.op.seq = clerk[c].seq /\ h.op.req = clerk[c].req
    BY <1>3, <1>c DEF OpsOK, Issued
  <2>6. chosen[k].op.req = h.op.req /\ clerk[c].floor < k
    BY <2>4, <2>5 DEF OpsOK, Issued
  <2>7. p \in clerk[c].floor..Len(chosen)
    BY <1>2, <1>3, <2>6 DEF LogsOK
  <2> QED  BY <1>4, <2>3, <2>6, <2>7 DEF PositionsOf
<1>6. ASSUME NEW a \in answers'
      PROVE  a.from \in Nat /\ (a.sound => PositionsOf(a.op.req.key, a.value, a.from)' # {})
  <2>1. PICK key, value, from : key = a.op.req.key /\ value = a.value /\ from = a.from
    OBVIOUS
  <2>2. from \in Nat /\ (a.sound => PositionsOf(key, value, from) # {})
    <3>1. CASE a \in answers
      BY <2>1, <3>1 DEF AnswersOK, Linearizable
    <3>2. CASE a = new
      BY <1>3, <1>4, <1>5, <2>1, <3>2
    <3> QED  BY <1>1, <3>1, <3>2
  <2>3. a.sound => PositionsOf(key, value, from)' # {}
    BY <1>2, <2>2, PositionsKept
  <2> QED  BY <2>1, <2>2, <2>3
<1> QED  BY <1>6 DEF AnswersOK, Linearizable

\* No server has applied anything, and no clerk has asked.
LEMMA LinInit == Init => LinInv
<1> SUFFICES ASSUME Init PROVE LinInv
  OBVIOUS
<1>1. KVInv /\ LogsOK
  BY KVInit DEF KVInv
<1>2. Reflects(NoData, NoSeqs, 0)
  BY <1>1, EmptyReflects
<1>3. Len(chosen) = 0 /\ \A s \in Server : Len(outbox[s]) = 0 /\ Len(pending[s]) = 0
  BY DEF Init
<1>4. ASSUME NEW s \in Server PROVE InOrder(s)
  <2>1. /\ rsm[s] = NoData /\ ClientMaxRequestSeq[s] = NoSeqs /\ upto[s] = 0 /\ got[s] = None
        /\ snapshot[s] = NoSnapshot /\ install[s] = None /\ commitIndex[s] = 0
    BY DEF Init
  <2>2. Sound(NoSnapshot)
    BY <1>2 DEF Sound, NoSnapshot
  <2>3. Sent(s) = 0 /\ Reach(s) = 0
    BY <1>3, <2>1 DEF Sent, Reach
  <2> QED  BY <1>2, <1>3, <2>1, <2>2, <2>3 DEF InOrder
<1>5. SnapsOK
  BY DEF Init, SnapsOK
<1>6. ResultsOK
  <2>1. DOMAIN resultMap = Server /\ \A s \in Server : resultMap[s] = << >>
    BY DEF Init
  <2>2. \A s \in Server : DOMAIN resultMap[s] = {}
    BY <2>1
  <2> QED  BY <2>1, <2>2 DEF ResultsOK
<1>7. OpsOK
  <2>1. floor = 0 /\ handlers = {} /\ \A c \in Clerk : clerk[c].floor = 0
    BY DEF Init, Idle
  <2> QED  BY <1>3, <2>1 DEF OpsOK
<1>8. AnswersOK
  BY DEF Init, AnswersOK, Linearizable
<1> QED  BY <1>1, <1>4, <1>5, <1>6, <1>7, <1>8 DEF LinInv, LogInv

\* To agree on an entry adds it to the log.
LEMMA CommitGrows == ASSUME KVInv, Commit PROVE LogGrows
<1>1. PICK e : e = Head(pending[elected])
  OBVIOUS
<1>2. pending[elected] # << >> /\ chosen' = Append(chosen, e)
  BY <1>1 DEF Commit
<1>3. chosen \in Seq(Entry) /\ pending[elected] \in Seq(Entry)
  BY DEF KVInv, LogsOK
<1>4. e \in Entry
  BY <1>1, <1>2, <1>3, HeadTailProperties
<1>5. Len(chosen') = Len(chosen) + 1 /\ \A k \in 1..Len(chosen) : chosen'[k] = chosen[k]
  BY <1>2, <1>3, <1>4, AppendProperties
<1>6. Len(chosen) \in Nat
  BY <1>3
<1> QED  BY <1>5, <1>6 DEF LogGrows

\* A step of Raft, of a server or of TakeSnapshots that leaves the calls alone.
LEMMA ServerStepKeeps ==
  ASSUME LinInv, KVInv', LogInv', OpsOK', LogGrows, UNCHANGED answers
  PROVE  LinInv'
  BY AnswersKept DEF LinInv

\* A step of mainProcess, of TakeSnapshots, or of the delivery on applyCh.
LEMMA InnerStepKeeps ==
  ASSUME LinInv, KVInv', LogInv', UNCHANGED <<raftVars, clientVars>>
  PROVE  LinInv'
<1>1. UNCHANGED <<chosen, pending, floor, clerk, handlers, answers>>
  BY DEF raftVars, clientVars
<1>2. LogGrows
  BY <1>1, SameLogGrows DEF LinInv
<1>3. OpsOK'
  BY <1>1, NoCallOps DEF LinInv
<1> QED  BY <1>1, <1>2, <1>3, ServerStepKeeps

\* A step of a clerk or of a handler that leaves the servers alone.
LEMMA CallStepKeeps ==
  ASSUME LinInv, KVInv', OpsOK', UNCHANGED <<chosen, applyVars, diskVars, serviceVars, answers>>
  PROVE  LinInv'
<1>1. LogGrows
  BY SameLogGrows DEF LinInv
<1>2. LogInv'
  BY <1>1, OutsideKeepsLog DEF LinInv
<1> QED  BY <1>1, <1>2, ServerStepKeeps

\* No step breaks the order of what is applied, or lets a read return a value that
\* is too old or that never was.
LEMMA LinNext == LinInv /\ [Next]_vars => LinInv'
<1> SUFFICES ASSUME LinInv, [Next]_vars PROVE LinInv'
  OBVIOUS
<1>1. KVInv /\ KVInv' /\ LogInv /\ OpsOK /\ AnswersOK
  BY KVNext DEF LinInv
<1>2. CASE UNCHANGED vars
  <2>1. UNCHANGED <<raftVars, clientVars, applyVars, diskVars, serviceVars, chosen>>
    BY <1>2 DEF vars, raftVars
  <2>2. LogInv'
    BY <1>1, <2>1, SameLogGrows, OutsideKeepsLog
  <2> QED  BY <1>1, <2>1, <2>2, InnerStepKeeps
<1>3. ASSUME NEW s \in Server, Elect(s) PROVE LinInv'
  BY <1>1, <1>3, ElectKeepsOps, CallStepKeeps DEF Elect, clientVars
<1>4. ASSUME NEW s \in Server, StepDown(s) PROVE LinInv'
  <2>1. UNCHANGED <<chosen, pending, floor, clerk, handlers, answers, applyVars, diskVars, serviceVars>>
    BY <1>4 DEF StepDown, clientVars
  <2>2. OpsOK'
    BY <1>1, <2>1, NoCallOps
  <2> QED  BY <1>1, <2>1, <2>2, CallStepKeeps
<1>5. ASSUME NEW s \in Server, Install(s) PROVE LinInv'
  <2>1. UNCHANGED <<chosen, answers>>
    BY <1>5 DEF Install, clientVars
  <2> QED  BY <1>1, <1>5, <2>1, InstallKeepsLog, InstallKeepsOps, SameLogGrows, ServerStepKeeps
<1>6. ASSUME NEW s \in Server, Crash(s) PROVE LinInv'
  <2>1. UNCHANGED <<chosen, pending, floor, clerk, answers>> /\ handlers' \subseteq handlers
    BY <1>6 DEF Crash
  <2>2. OpsOK'
    BY <1>1, <2>1, NoCallOps
  <2> QED  BY <1>1, <1>6, <2>1, <2>2, CrashKeepsLog, SameLogGrows, ServerStepKeeps
<1>7. ASSUME NEW s \in Server, ServerStep(s) PROVE LinInv'
  <2>1. UNCHANGED <<raftVars, clientVars>>
    BY <1>7 DEF ServerStep, Deliver, ReceiveCommand, ReceiveSnapshot, ApplySnapshot, ApplyCommand
  <2>2. LogInv'
    BY <1>1, <1>7, DeliverKeepsLog, ReceiveCommandKeepsLog, ReceiveSnapshotKeepsLog,
       ApplySnapshotKeepsLog, ApplyCommandKeepsLog DEF ServerStep
  <2> QED  BY <1>1, <2>1, <2>2, InnerStepKeeps
<1>8. CASE Commit
  <2>1. UNCHANGED <<applyVars, diskVars, serviceVars, answers>>
    BY <1>8 DEF Commit, clientVars
  <2>2. LogGrows
    BY <1>1, <1>8, CommitGrows
  <2> QED  BY <1>1, <1>8, <2>1, <2>2, OutsideKeepsLog, CommitKeepsOps, ServerStepKeeps
<1>9. ASSUME NEW g \in snaps, SnapshotStep(g) PROVE LinInv'
  <2>1. UNCHANGED <<raftVars, clientVars>>
    BY <1>9 DEF SnapshotStep, SnapshotReturn, SnapshotLock, SnapshotSave
  <2>2. LogInv'
    BY <1>1, <1>9, SnapshotReturnLockKeepsLog, SnapshotSaveKeepsLog DEF SnapshotStep
  <2> QED  BY <1>1, <2>1, <2>2, InnerStepKeeps
<1>10. ASSUME NEW c \in Clerk, ClerkBegin(c) PROVE LinInv'
  <2>1. UNCHANGED <<chosen, applyVars, diskVars, serviceVars, answers>>
    BY <1>10 DEF ClerkBegin, raftVars
  <2> QED  BY <1>1, <1>10, <2>1, ClerkBeginKeepsOps, CallStepKeeps
<1>11. ASSUME NEW c \in Clerk, NEW s \in Server, Call(c, s) PROVE LinInv'
  <2>1. UNCHANGED <<chosen, applyVars, diskVars, serviceVars, answers>>
    BY <1>11 DEF Call, raftVars
  <2> QED  BY <1>1, <1>11, <2>1, CallKeepsOps, CallStepKeeps
<1>12. ASSUME NEW c \in Clerk, CallFails(c) PROVE LinInv'
  <2>1. UNCHANGED <<chosen, applyVars, diskVars, serviceVars, answers>>
    BY <1>12 DEF CallFails, raftVars
  <2> QED  BY <1>1, <1>12, <2>1, CallFailsKeepsOps, CallStepKeeps
<1>13. ASSUME NEW c \in Clerk, CallDies(c) PROVE LinInv'
  <2>1. /\ UNCHANGED <<chosen, pending, floor, handlers, applyVars, diskVars, serviceVars, answers>>
        /\ clerk[c].st = "wait" /\ clerk' = TryAnother(c)
    BY <1>13 DEF CallDies, raftVars
  <2>2. OpsOK'
    BY <1>1, <2>1, RetryKeepsOps
  <2> QED  BY <1>1, <2>1, <2>2, CallStepKeeps
<1>14. ASSUME NEW h \in handlers, HandlerStart(h) PROVE LinInv'
  <2>1. UNCHANGED <<chosen, applyVars, diskVars, serviceVars, answers>>
    BY <1>14 DEF HandlerStart
  <2> QED  BY <1>1, <1>14, <2>1, HandlerStartKeepsOps, CallStepKeeps
<1>15. ASSUME NEW h \in handlers, HandlerWrongLeader(h) PROVE LinInv'
  <2>1. /\ UNCHANGED <<chosen, pending, floor, applyVars, diskVars, serviceVars, answers>>
        /\ h.st = "wait" /\ clerk' = TryAnother(h.op.client) /\ handlers' = handlers \ {h}
    BY <1>15 DEF HandlerWrongLeader, raftVars
  <2>2. h.op.client \in Clerk /\ clerk[h.op.client].st = "wait"
    BY <1>1, <2>1, AnswersLast DEF KVInv
  <2>3. OpsOK'
    BY <1>1, <2>1, <2>2, RetryKeepsOps
  <2> QED  BY <1>1, <2>1, <2>3, CallStepKeeps
<1>16. ASSUME NEW h \in handlers, PutAppendReturn(h) PROVE LinInv'
  <2>1. UNCHANGED <<chosen, applyVars, diskVars, serviceVars, answers>>
    BY <1>16 DEF PutAppendReturn, raftVars
  <2> QED  BY <1>1, <1>16, <2>1, PutAppendReturnKeepsOps, CallStepKeeps
<1>17. ASSUME NEW h \in handlers, GetReturn(h) PROVE LinInv'
  <2>1. UNCHANGED <<chosen, applyVars, diskVars, serviceVars>>
    BY <1>17 DEF GetReturn, raftVars
  <2>2. LogInv'
    BY <1>1, <2>1, SameLogGrows, OutsideKeepsLog
  <2> QED  BY <1>1, <1>17, <2>2, GetReturnKeepsOps, GetReturnKeepsAnswers DEF LinInv
<1>18. ASSUME NEW h \in handlers, HandlerLeads(h) \/ HandlerSleep(h) PROVE LinInv'
  <2>1. UNCHANGED <<chosen, applyVars, diskVars, serviceVars, answers>>
    BY <1>1, <1>18, LoopTurns
  <2> QED  BY <1>1, <1>18, <2>1, LoopKeepsOps, CallStepKeeps
<1> QED  BY <1>2, <1>3, <1>4, <1>5, <1>6, <1>7, <1>8, <1>9, <1>10, <1>11, <1>12, <1>13, <1>14,
            <1>15, <1>16, <1>17, <1>18 DEF Next, HandlerStep

\* On every server, for any number of crashes, elections, snapshots and repeated
\* calls: the store is what the effective writes of the agreed log, up to some
\* entry, leave.  A repeated or replayed command changes nothing.
THEOREM StoresFollowLog == Spec => []StateIsLog
<1>1. LinInv => StateIsLog
  BY DEF LinInv, LogInv, InOrder, Reflects, StateIsLog
<1> QED  BY <1>1, LinInit, LinNext, PTL DEF Spec

\* A Get returns the value at a position of the agreed log that is not before any
\* read, or any write of a server that had led since its Start, which had returned
\* when the Get began, whichever server answers; unless a command has overtaken a
\* snapshot message.
THEOREM ReadsLinearizable == Spec => []Linearizable
<1>1. LinInv => Linearizable
  BY DEF LinInv, AnswersOK
<1> QED  BY <1>1, LinInit, LinNext, PTL DEF Spec
=============================================================================
