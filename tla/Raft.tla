-------------------------------- MODULE Raft --------------------------------
(***************************************************************************)
(* The peers of src/src/raft/raft.go together: the next-state relation,    *)
(* the places where the Go program panics, and the properties.             *)
(***************************************************************************)
EXTENDS RaftElection, RaftSnapshot

\* Index expressions out of range, and the code's own calls of panic.
CanPanic(i) ==
  \/ \E s \in starts : s.node = i /\ s.save.st = "none" /\ matchIndex[i] = NilSlice
  \/ \E c \in aeCalls : c.dst = i /\ RangePanics(c)
  \/ \E c \in aeCalls : c.dst = i /\ c.st = "append" /\ c.save.st = "none"
                          /\ WritesNil(i, c.args)
  \/ \E c \in aeCalls : c.src = i /\ (FollowUpPanics(c) \/ RejectedPanics(c))
  \/ \E c \in isCalls : c.dst = i /\ InstallPanics(c)
  \/ \E c \in isCalls : c.src = i /\ ISReturnPanics(c)
  \/ \E n \in SnapshotAt : TakeSnapshotsPanics(i, n)

Panics(i) == Up(i) /\ CanPanic(i) /\ Panic(i)

Main(i) ==
  \/ CandidateStart(i) \/ CandidateTimeout(i) \/ CandidateNotified(i)
  \/ MainDispatch(i) \/ FollowerTimeout(i) \/ MainEncode(i) \/ MainSave(i)
  \/ LeaderTermTimeout(i) \/ LeaderNotified(i)
  \/ \E j \in Server : LeaderSend(i, j) \/ LeaderSendSnapshot(i, j)

Vote(c) ==
  \/ RVCheck(c) \/ RVLock(c) \/ RVEncode(c) \/ RVSave(c) \/ RVGrant(c) \/ RVFail(c)
  \/ CandidateWins(c) \/ CandidateReply(c) \/ LateVote(c)

Replicate(c) ==
  \/ AECheck(c) \/ AETerm(c) \/ AEPass(c) \/ AERange(c) \/ AEApply(c)
  \/ AEAppend(c) \/ AEEncode(c) \/ AESave(c)
  \/ AEFail(c) \/ AEHeartbeat(c) \/ AESuccess(c)
  \/ AECommit(c) \/ AEDeposed(c) \/ AERejected(c)

Install(c) ==
  \/ ISCheck(c) \/ ISLock(c) \/ ISDeliver(c) \/ ISFail(c) \/ ISReturn(c)

Client ==
  \/ \E i \in Server, v \in Value \ proposed : StartCheck(i, v)
  \/ \E s \in starts : StartAppend(s) \/ StartEncode(s) \/ StartSave(s)
  \/ \E i \in Server, n \in SnapshotAt : TakeSnapshots(i, n)

Next ==
  \/ \E i \in Server : Main(i) \/ Restart(i) \/ Panics(i)
  \/ \E c \in rvCalls : Vote(c)
  \/ \E c \in aeCalls : Replicate(c)
  \/ \E c \in isCalls : Install(c)
  \/ Client

Spec == Init /\ [][Next]_vars

-----------------------------------------------------------------------------
(* Properties.                                                             *)

\* Every field has the type its declaration gives it.
TypeOK ==
  /\ role \in [Server -> {"main", "candidate", "dispatch", "follower", "leader",
                          "snapshotting", "panic"}]
  /\ currentTerm \in [Server -> Nat]
  /\ leaderNum \in [Server -> Server \cup {None}]
  /\ votedFor \in [Server -> Server \cup {None}]
  /\ log \in [Server -> Seq(Entry) \ {<< >>}]
  /\ commitIndex \in [Server -> Nat]
  /\ lastIndexInSnapshot \in [Server -> Nat]
  /\ lastTermInSnapshot \in [Server -> Nat]
  /\ nextIndex \in [Server -> [Server -> Nat \ {0}] \cup {NilSlice}]
  /\ matchIndex \in [Server -> [Server -> Nat] \cup {NilSlice}]
  /\ termList \in [Server -> TermList]
  /\ notify \in [Server -> 0..3]
  /\ granted \in [Server -> Nat]
  /\ mainSave \in [Server -> Save]
  /\ persisted \in [Server -> [term : Nat, log : Seq(Entry)]]
  /\ snapshot \in [Server -> Snapshot]
  /\ rvCalls \subseteq RVCall
  /\ aeCalls \subseteq AECall
  /\ isCalls \subseteq ISCall
  /\ starts \subseteq StartCall
  /\ proposed \subseteq Value
  /\ restarts \in Nat
  /\ applied \in [Server -> [base : Nat, msgs : Seq([index : Nat, cmd : Value \cup {Nil}])]]
  /\ delivered \subseteq [index : Nat, cmd : Value \cup {Nil}]

\* The service of a peer receives successive entries: the indexes of the
\* messages on applyCh follow the last snapshot without a gap or a repetition,
\* however the AppendEntry handlers and the leader's reply goroutines interleave.
\* commitIndex is the last of them, except while an installed snapshot waits to
\* be sent to the service.
Installing(i) == \E c \in isCalls : c.dst = i /\ c.st = "deliver"

ApplyInOrder ==
  \A i \in Server :
    /\ \A k \in 1..Len(applied[i].msgs) : applied[i].msgs[k].index = applied[i].base + k
    /\ ~Installing(i) => commitIndex[i] = applied[i].base + Len(applied[i].msgs)

\* No two services ever receive different commands for one index.
StateMachineSafety ==
  \A m, n \in delivered : m.index = n.index => m.cmd = n.cmd

\* What GetState reports: no two peers lead the same term.
OneLeaderPerTerm ==
  \A i, j \in Server :
    Up(i) /\ Up(j) /\ leaderNum[i] = i /\ leaderNum[j] = j
      /\ currentTerm[i] = currentTerm[j] => i = j

\* The entry with name index n, if the log still holds it.
Holds(i, n) == n > lastIndexInSnapshot[i] /\ n <= LastLogIndex(i)
EntryAt(i, n) == At(i, TrueIndex(i, n))
Indexes == 1..Max({LastLogIndex(i) : i \in Server} \cup {1})

\* Two logs with the same term at an index agree there and at every index before.
LogMatching ==
  \A i, j \in Server : \A n \in Indexes :
    Holds(i, n) /\ Holds(j, n) /\ EntryAt(i, n).term = EntryAt(j, n).term =>
      \A m \in 1..n : Holds(i, m) /\ Holds(j, m) => EntryAt(i, m) = EntryAt(j, m)

\* An entry some service received is stored by more than half of the peers, although
\* matchIndex is computed from nextIndex, which several goroutines of one follower
\* move, and not from the request that was answered.
CommittedOnQuorum ==
  \A i \in Server : \A k \in 1..Len(applied[i].msgs) :
    LET m == applied[i].msgs[k] IN
    2 * Cardinality({j \in Server : \/ m.index <= lastIndexInSnapshot[j]
                                    \/ Holds(j, m.index) /\ EntryAt(j, m.index).cmd = m.cmd})
      > Cardinality(Server)

\* Nothing in the program panics: no index is out of range and no slice bounds are
\* inverted, in Start, in a handler or in a goroutine that sends.
NoPanic == \A i \in Server : Up(i)

\* Name indexes against slice positions, with a log that snapshots cut off: no
\* goroutine of a leader, after a reply or after sendSnapShot, reads the log at a
\* position that it does not have, and none sends the sentinel, at which
\* AppendEntry panics.
SendersInRange ==
  /\ \A c \in aeCalls :
       /\ ~FollowUpPanics(c) /\ ~RejectedPanics(c)
       /\ \A k \in 1..Len(c.args.entries) : c.args.entries[k].cmd # Nil
  /\ \A c \in isCalls : ~ISReturnPanics(c)

\* What was delivered stays in the log until a snapshot covers it.
CommittedPrefixKept ==
  \A i \in Server : \A k \in 1..Len(applied[i].msgs) :
    LET m == applied[i].msgs[k] IN
    m.index > lastIndexInSnapshot[i] =>
      Holds(i, m.index) /\ EntryAt(i, m.index).cmd = m.cmd

\* Some goroutine of the peer is in persist().
Saving(i) ==
  \/ mainSave[i].st # "none"
  \/ \E c \in rvCalls \cup aeCalls : c.dst = i /\ c.save.st # "none"
  \/ \E s \in starts : s.node = i /\ s.save.st # "none"

\* Once every persist() of a peer has returned, the Persister holds the term and the
\* log that the peer has in memory, whatever the order in which its goroutines
\* encoded and saved them: a crash then loses nothing.
SavedWhenQuiet ==
  \A i \in Server :
    Up(i) /\ ~Installing(i) /\ ~Saving(i) =>
      persisted[i].term = currentTerm[i] /\ RecoveredLog(i) = log[i]

\* The log as the services know it, with Nil where they disagree.
Commands(n) == {m.cmd : m \in {d \in delivered : d.index = n}}
Chosen ==
  [n \in 1..Max({m.index : m \in delivered} \cup {0}) |->
     IF Cardinality(Commands(n)) = 1 THEN CHOOSE v \in Commands(n) : TRUE ELSE Nil]

Promised == INSTANCE ReplicatedLog
              WITH chosen <- Chosen, pos <- commitIndex, MaxBatch <- Cardinality(Value)

\* Seen through what the services receive, the peers implement one replicated log.
ImplementsLog == Promised!Init /\ [][Promised!Next]_<<Chosen, commitIndex>>

-----------------------------------------------------------------------------
(* Liveness, for a leader whose messages all arrive.                       *)

\* The goroutines of a link, and LeaderProcess, are never starved.
Fairness ==
  /\ \A i \in Server : WF_vars(LeaderNotified(i))
  /\ \A l \in Links :
       /\ WF_vars(LeaderSend(l[1], l[2]))
       /\ WF_vars(\E c \in aeCalls : c.src = l[1] /\ c.dst = l[2] /\ Replicate(c))

\* A peer that no longer takes itself for the leader leaves LeaderProcess.
StepsDown ==
  \A i \in Server : (role[i] = "leader" /\ leaderNum[i] # i) ~> (role[i] # "leader")

\* What one service has received, every service receives.
CatchesUp ==
  \A n \in 1..Cardinality(Value) :
    (\E i \in Server : commitIndex[i] >= n) ~> (\A i \in Server : commitIndex[i] >= n)
=============================================================================
