----------------------------- MODULE RaftProofs -----------------------------
(***************************************************************************)
(* Proofs about Raft, for every number of peers and every value of the     *)
(* bounds: the types, and, in every behaviour of the peers while no        *)
(* service asks for a snapshot, that the service receives the entries in   *)
(* order.                                                                  *)
(*                                                                         *)
(* TypeOK is not inductive: an index expression has a value only because   *)
(* of what the code knows at that point.  Goroutines index nextIndex and   *)
(* matchIndex, which are nil until the first LeaderProcess; so the         *)
(* induction carries Slices and Callers, which say who can get there.      *)
(***************************************************************************)
EXTENDS Raft, NatSetLemmas, SequenceTheorems

Roles == {"main", "candidate", "dispatch", "follower", "leader", "snapshotting", "panic"}
Message == [index : Nat, cmd : Value \cup {Nil}]

ElectionOK ==
  /\ role \in [Server -> Roles]
  /\ votedFor \in [Server -> Server \cup {None}]
  /\ granted \in [Server -> Nat]
  /\ mainSave \in [Server -> Save]
TermOK ==
  /\ currentTerm \in [Server -> Nat]
  /\ leaderNum \in [Server -> Server \cup {None}]
LogOK ==
  /\ log \in [Server -> Seq(Entry) \ {<< >>}]
  /\ lastIndexInSnapshot \in [Server -> Nat]
  /\ lastTermInSnapshot \in [Server -> Nat]
CommitOK ==
  /\ commitIndex \in [Server -> Nat]
  /\ applied \in [Server -> [base : Nat, msgs : Seq(Message)]]
  /\ delivered \subseteq Message
LeaderOK ==
  /\ nextIndex \in [Server -> [Server -> Nat \ {0}] \cup {NilSlice}]
  /\ matchIndex \in [Server -> [Server -> Nat] \cup {NilSlice}]
  /\ termList \in [Server -> TermList]
DiskOK ==
  /\ persisted \in [Server -> [term : Nat, log : Seq(Entry)]]
  /\ snapshot \in [Server -> Snapshot]
StartOK ==
  /\ starts \subseteq StartCall
  /\ proposed \subseteq Value
NotifyOK == notify \in [Server -> 0..3]
RestartOK == restarts \in Nat
RVOK == rvCalls \subseteq RVCall
AEOK == aeCalls \subseteq AECall
ISOK == isCalls \subseteq ISCall

\* nextIndex and matchIndex are made together, before the leader's loop.
Slices ==
  /\ \A i \in Server : nextIndex[i] = NilSlice <=> matchIndex[i] = NilSlice
  /\ \A i \in Server : role[i] \in {"leader", "snapshotting"} => nextIndex[i] # NilSlice

\* A goroutine whose reply is still read belongs to a peer that made them.
AECallers ==
  \A c \in aeCalls : /\ c.live => nextIndex[c.src] # NilSlice
                     /\ c.st = "commit" => c.live

\* sendSnapShot goes on as the goroutine that called it.  LeaderProcess called
\* it for a peer whose next entry the snapshot covers.
ISCallers ==
  \A c \in isCalls : c.live =>
    /\ nextIndex[c.src] # NilSlice
    /\ c.sender.src = c.src /\ c.sender.live /\ c.sender.st # "commit"
    /\ c.inLoop => c.sender.prev < lastIndexInSnapshot[c.src]

TypeInv ==
  /\ ElectionOK /\ TermOK /\ LogOK /\ CommitOK /\ LeaderOK /\ DiskOK /\ StartOK
  /\ NotifyOK /\ RestartOK /\ RVOK /\ AEOK /\ ISOK
  /\ Slices /\ AECallers /\ ISCallers

-----------------------------------------------------------------------------
(* What an action leaves alone.                                            *)

\* A part of the invariant holds after a step that leaves its variables alone.
LEMMA Unchanged ==
  ASSUME TypeInv
  PROVE  /\ UNCHANGED electionVars => ElectionOK'
         /\ UNCHANGED termVars => TermOK'
         /\ UNCHANGED logVars => LogOK'
         /\ UNCHANGED commitVars => CommitOK'
         /\ UNCHANGED leaderVars => LeaderOK'
         /\ UNCHANGED diskVars => DiskOK'
         /\ UNCHANGED startVars => StartOK'
         /\ UNCHANGED notify => NotifyOK'
         /\ UNCHANGED restarts => RestartOK'
         /\ UNCHANGED rvCalls => RVOK'
         /\ UNCHANGED aeCalls => AEOK'
         /\ UNCHANGED isCalls => ISOK'
         /\ UNCHANGED <<nextIndex, matchIndex, role>> => Slices'
         /\ UNCHANGED <<nextIndex, aeCalls>> => AECallers'
         /\ UNCHANGED <<nextIndex, isCalls, lastIndexInSnapshot>> => ISCallers'
<1>1. UNCHANGED electionVars => ElectionOK'
  BY DEF TypeInv, ElectionOK, electionVars
<1>2. UNCHANGED termVars => TermOK'
  BY DEF TypeInv, TermOK, termVars
<1>3. UNCHANGED logVars => LogOK'
  BY DEF TypeInv, LogOK, logVars
<1>4. UNCHANGED commitVars => CommitOK'
  BY DEF TypeInv, CommitOK, commitVars
<1>5. UNCHANGED leaderVars => LeaderOK'
  BY DEF TypeInv, LeaderOK, leaderVars
<1>6. UNCHANGED diskVars => DiskOK'
  BY DEF TypeInv, DiskOK, diskVars
<1>7. UNCHANGED startVars => StartOK'
  BY DEF TypeInv, StartOK, startVars
<1>8. /\ UNCHANGED notify => NotifyOK'
      /\ UNCHANGED restarts => RestartOK'
      /\ UNCHANGED rvCalls => RVOK'
      /\ UNCHANGED aeCalls => AEOK'
      /\ UNCHANGED isCalls => ISOK'
  BY DEF TypeInv, NotifyOK, RestartOK, RVOK, AEOK, ISOK
<1>9. UNCHANGED <<nextIndex, matchIndex, role>> => Slices'
  BY DEF TypeInv, Slices, NilSlice
<1>10. UNCHANGED <<nextIndex, aeCalls>> => AECallers'
  BY DEF TypeInv, AECallers, NilSlice
<1>11. UNCHANGED <<nextIndex, isCalls, lastIndexInSnapshot>> => ISCallers'
  BY DEF TypeInv, ISCallers, NilSlice
<1> QED
  BY <1>1, <1>2, <1>3, <1>4, <1>5, <1>6, <1>7, <1>8, <1>9, <1>10, <1>11

-----------------------------------------------------------------------------
(* Operators.                                                              *)

\* The log is never empty, so it has a last index and a last term.
LEMMA LogFacts ==
  ASSUME LogOK, NEW i \in Server
  PROVE  /\ log[i] \in Seq(Entry) /\ Len(log[i]) \in Nat \ {0}
         /\ lastIndexInSnapshot[i] \in Nat
         /\ LastLogIndex(i) \in Nat
         /\ LastLogTerm(i) \in Nat
<1>1. log[i] \in Seq(Entry) /\ log[i] # << >> /\ lastIndexInSnapshot[i] \in Nat
  BY DEF LogOK
<1>2. Len(log[i]) \in Nat \ {0}
  BY <1>1
<1>3. LastLogIndex(i) \in Nat
  BY <1>1, <1>2 DEF LastLogIndex
<1>4. log[i][Len(log[i])] \in Entry
  BY <1>1, <1>2
<1> QED
  BY <1>1, <1>2, <1>3, <1>4 DEF LastLogTerm, Entry

\* A true index below len(rf.log) is that of an entry.
LEMMA AtType ==
  ASSUME LogOK, NEW i \in Server, NEW k \in Nat, k < Len(log[i])
  PROVE  At(i, k) \in Entry /\ At(i, k).term \in Nat /\ At(i, k).cmd \in Value \cup {Nil}
<1>1. log[i] \in Seq(Entry) /\ k + 1 \in 1..Len(log[i])
  BY LogFacts
<1>2. log[i][k + 1] \in Entry
  BY <1>1
<1> QED
  BY <1>2 DEF At, Entry

\* rf.log[k:] is a slice of entries.
LEMMA LogFromType ==
  ASSUME LogOK, NEW i \in Server, NEW k \in Nat
  PROVE  /\ LogFrom(i, k) \in Seq(Entry)
         /\ k < Len(log[i]) => LogFrom(i, k) # << >>
<1>1. log[i] \in Seq(Entry) /\ Len(log[i]) \in Nat
  BY LogFacts
<1>2. \A n \in (k + 1)..Len(log[i]) : log[i][n] \in Entry
  BY <1>1
<1>3. /\ LogFrom(i, k) \in Seq(Entry)
      /\ Len(LogFrom(i, k)) = IF k + 1 <= Len(log[i]) THEN Len(log[i]) - (k + 1) + 1 ELSE 0
  BY <1>1, <1>2, SubSeqProperties DEF LogFrom
<1> QED
  BY <1>1, <1>3

\* getTrueIndex maps the indexes up to the last one into the log.
LEMMA TrueIndexType ==
  ASSUME LogOK, NEW i \in Server, NEW n \in Nat
  PROVE  /\ TrueIndex(i, n) \in Nat
         /\ n <= LastLogIndex(i) => TrueIndex(i, n) < Len(log[i])
BY LogFacts DEF TrueIndex, LastLogIndex

\* A slice that was made is not nil.
LEMMA MadeNotNil ==
  ASSUME NEW S, NEW f \in [Server -> S]
  PROVE  f # NilSlice
<1>1. DOMAIN f # {}
  BY ServerAssumption
<1> QED
  BY <1>1 DEF NilSlice

\* What a goroutine knows of its persist(): nothing, that it is due, or what it encoded.
LEMMA SaveType ==
  ASSUME NEW i
  PROVE  NoSave \in Save /\ ToSave \in Save /\ SaveDue(i) \in Save
<1>1. << >> \in Seq(Entry)
  OBVIOUS
<1> QED
  BY <1>1 DEF NoSave, ToSave, SaveDue, Save

LEMMA EncodedType ==
  ASSUME TypeInv, NEW i \in Server
  PROVE  Encoded(i) \in Save
<1>1. log[i] \in Seq(Entry) /\ currentTerm[i] \in Nat
  BY LogFacts DEF TypeInv, TermOK
<1> QED
  BY <1>1 DEF Encoded, Save

\* persist() begins with a log of entries.
LEMMA PersistType ==
  ASSUME DiskOK, NEW i \in Server, NEW t \in Nat, NEW entries \in Seq(Entry),
         PersistBegins(i, t, entries), UNCHANGED snapshot
  PROVE  DiskOK'
<1> DEFINE state == [term |-> t, log |-> entries]
           States == [term : Nat, log : Seq(Entry)]
<1>1. persisted' = persisted \/ persisted' = [persisted EXCEPT ![i] = state]
  BY DEF PersistBegins, SaveRaftState
<1>2. state \in States /\ persisted \in [Server -> States]
  BY DEF DiskOK
<1>3. persisted' \in [Server -> States]
  <2> HIDE DEF state, States
  <2> QED  BY <1>1, <1>2
<1> QED
  BY <1>3 DEF DiskOK

\* persist() saves what it encoded.
LEMMA SavedType ==
  ASSUME DiskOK, NEW i \in Server, NEW save \in Save,
         Persist(i, save), UNCHANGED snapshot
  PROVE  DiskOK'
BY DEF DiskOK, Persist, SaveRaftState, Save

\* AENotifyChan never holds more than three tokens.
LEMMA NotifyType ==
  ASSUME NotifyOK, NEW i \in Server, NEW limit \in 2..3, Notify(i, limit)
  PROVE  NotifyOK'
<1>1. notify[i] \in 0..3
  BY DEF NotifyOK
<1>2. Pushed(i, limit) \in 0..3
  BY <1>1 DEF Pushed
<1> QED
  BY <1>2 DEF NotifyOK, Notify

\* Receiving tokens leaves at most what there was.
LEMMA TokensLeftType ==
  ASSUME NotifyOK, NEW i \in Server, NEW most \in Int, TokensLeft(i, most)
  PROVE  NotifyOK'
<1>1. PICK n \in {m \in 0..most : m <= notify[i]} : notify' = [notify EXCEPT ![i] = n]
  BY DEF TokensLeft
<1>2. n \in 0..3
  BY <1>1 DEF NotifyOK
<1> QED
  BY <1>1, <1>2 DEF NotifyOK

\* Leaving LeaderProcess, or never having been there.
LEMMA SlicesKept ==
  ASSUME TypeInv, NEW i \in Server, NEW r \in Roles \ {"leader", "snapshotting"},
         role' = [role EXCEPT ![i] = r], UNCHANGED <<nextIndex, matchIndex>>
  PROVE  Slices'
<1>1. \A j \in Server : role'[j] \in {"leader", "snapshotting"} => role[j] = role'[j]
  BY DEF TypeInv, ElectionOK
<1> QED
  BY <1>1 DEF TypeInv, Slices, NilSlice

\* The calls of a round that ended are still calls.
LEMMA RoundOverType ==
  ASSUME NEW i \in Server, NEW calls, calls \subseteq RVCall, RoundOver(i, calls)
  PROVE  RVOK'
<1>1. ASSUME NEW c \in calls
      PROVE  (IF c.src = i THEN [c EXCEPT !.live = FALSE] ELSE c) \in RVCall
  BY DEF RVCall
<1> QED
  BY <1>1 DEF RoundOver, RVKept, RVOK

-----------------------------------------------------------------------------
(* Elections.                                                              *)

\* Types are kept by CandidateProcess up to its select.
LEMMA CandidateStartType ==
  ASSUME TypeInv, NEW i \in Server, CandidateStart(i)
  PROVE  TypeInv'
<1>1. /\ LogOK' /\ CommitOK' /\ LeaderOK' /\ DiskOK' /\ StartOK' /\ NotifyOK'
      /\ RestartOK' /\ AEOK' /\ ISOK' /\ AECallers' /\ ISCallers'
  BY Unchanged DEF CandidateStart, logVars, leaderVars
<1>2. ElectionOK' /\ TermOK'
  BY DEF CandidateStart, TypeInv, ElectionOK, TermOK, Roles
<1>3. RVOK'
  <2>1. ASSUME NEW j \in Server PROVE NewRVCall(i, j) \in RVCall
    BY LogFacts, SaveType DEF NewRVCall, RVCall, TypeInv, TermOK
  <2> QED
    BY <2>1 DEF CandidateStart, TypeInv, RVOK
<1>4. Slices'
  BY DEF CandidateStart, TypeInv, Slices, leaderVars, NilSlice, ElectionOK
<1> QED
  BY <1>1, <1>2, <1>3, <1>4 DEF TypeInv

\* Types are kept by the timeout of CandidateProcess.
LEMMA CandidateTimeoutType ==
  ASSUME TypeInv, NEW i \in Server, CandidateTimeout(i)
  PROVE  TypeInv'
<1>1. /\ LogOK' /\ CommitOK' /\ LeaderOK' /\ StartOK' /\ NotifyOK'
      /\ RestartOK' /\ AEOK' /\ ISOK' /\ AECallers' /\ ISCallers'
  BY Unchanged DEF CandidateTimeout, logVars, leaderVars
<1>2. ElectionOK' /\ TermOK'
  BY SaveType DEF CandidateTimeout, TypeInv, ElectionOK, TermOK, Roles
<1>3. RVOK'
  BY RoundOverType DEF CandidateTimeout, TypeInv, RVOK
<1>4. DiskOK'
  <2>1. currentTerm[i] + 1 \in Nat
    BY DEF TypeInv, TermOK
  <2> QED
    BY <2>1, LogFacts, PersistType DEF CandidateTimeout, TypeInv
<1>5. Slices'
  BY SlicesKept DEF CandidateTimeout, leaderVars, Roles
<1> QED
  BY <1>1, <1>2, <1>3, <1>4, <1>5 DEF TypeInv

\* Types are kept by a token received by CandidateProcess.
LEMMA CandidateNotifiedType ==
  ASSUME TypeInv, NEW i \in Server, CandidateNotified(i)
  PROVE  TypeInv'
<1>1. /\ TermOK' /\ LogOK' /\ CommitOK' /\ LeaderOK' /\ DiskOK' /\ StartOK'
      /\ RestartOK' /\ AEOK' /\ ISOK' /\ AECallers' /\ ISCallers'
  BY Unchanged DEF CandidateNotified, logVars, leaderVars
<1>2. ElectionOK' /\ NotifyOK'
  BY DEF CandidateNotified, TypeInv, ElectionOK, NotifyOK, Roles
<1>3. RVOK'
  BY RoundOverType DEF CandidateNotified, TypeInv, RVOK
<1>4. Slices'
  BY SlicesKept DEF CandidateNotified, leaderVars, Roles
<1> QED
  BY <1>1, <1>2, <1>3, <1>4 DEF TypeInv

\* Types are kept by the vote that makes a majority.
LEMMA CandidateWinsType ==
  ASSUME TypeInv, NEW c \in rvCalls, CandidateWins(c)
  PROVE  TypeInv'
<1>0. c.src \in Server
  BY DEF TypeInv, RVOK, RVCall
<1>1. /\ LogOK' /\ CommitOK' /\ LeaderOK' /\ DiskOK' /\ StartOK' /\ NotifyOK'
      /\ RestartOK' /\ AEOK' /\ ISOK' /\ AECallers' /\ ISCallers'
  BY Unchanged DEF CandidateWins, logVars, leaderVars
<1>2. ElectionOK' /\ TermOK'
  BY <1>0 DEF CandidateWins, TypeInv, ElectionOK, TermOK, Roles
<1>3. RVOK'
  BY <1>0, RoundOverType DEF CandidateWins, TypeInv, RVOK
<1>4. Slices'
  BY <1>0, SlicesKept DEF CandidateWins, leaderVars, Roles
<1> QED
  BY <1>1, <1>2, <1>3, <1>4 DEF TypeInv

\* Types are kept by a vote or refusal counted by CandidateProcess.
LEMMA CandidateReplyType ==
  ASSUME TypeInv, NEW c \in rvCalls, CandidateReply(c)
  PROVE  TypeInv'
<1> DEFINE i == c.src
           count == granted[i] + (IF c.voteGranted THEN 1 ELSE 0)
<1>0. i \in Server /\ c.replyTerm \in Nat /\ count \in Nat
  BY DEF TypeInv, RVOK, RVCall, ElectionOK
<1>1. /\ LogOK' /\ CommitOK' /\ LeaderOK' /\ StartOK' /\ NotifyOK'
      /\ RestartOK' /\ AEOK' /\ ISOK' /\ AECallers' /\ ISCallers'
  BY Unchanged DEF CandidateReply, logVars, leaderVars
<1>2. granted' = [granted EXCEPT ![i] = count] /\ UNCHANGED <<votedFor, leaderNum>>
  BY DEF CandidateReply
<1>3. CASE c.replyTerm > currentTerm[i]
  <2>1. ElectionOK' /\ TermOK'
    BY <1>0, <1>2, <1>3, SaveType DEF CandidateReply, TypeInv, ElectionOK, TermOK, Roles
  <2>2. RVOK'
    BY <1>0, <1>3, RoundOverType DEF CandidateReply, TypeInv, RVOK
  <2>3. DiskOK'
    BY <1>0, <1>3, LogFacts, PersistType DEF CandidateReply, TypeInv
  <2>4. Slices'
    BY <1>0, <1>3, SlicesKept DEF CandidateReply, leaderVars, Roles
  <2> QED
    BY <1>1, <2>1, <2>2, <2>3, <2>4 DEF TypeInv
<1>4. CASE ~(c.replyTerm > currentTerm[i])
  <2>1. DiskOK' /\ Slices' /\ TermOK'
    BY <1>4, Unchanged DEF CandidateReply, diskVars, leaderVars, termVars
  <2>2. ElectionOK' /\ RVOK'
    BY <1>0, <1>2, <1>4 DEF CandidateReply, TypeInv, ElectionOK, RVOK
  <2> QED
    BY <1>1, <2>1, <2>2 DEF TypeInv
<1> QED
  BY <1>3, <1>4

\* Types are kept by a reply nobody reads.
LEMMA LateVoteType ==
  ASSUME TypeInv, NEW c \in rvCalls, LateVote(c)
  PROVE  TypeInv'
<1>1. /\ ElectionOK' /\ TermOK' /\ LogOK' /\ CommitOK' /\ LeaderOK' /\ DiskOK'
      /\ StartOK' /\ NotifyOK' /\ RestartOK' /\ AEOK' /\ ISOK'
      /\ Slices' /\ AECallers' /\ ISCallers'
  BY Unchanged DEF LateVote, peerVars, logVars, leaderVars, electionVars
<1>2. RVOK'
  BY DEF LateVote, TypeInv, RVOK
<1> QED
  BY <1>1, <1>2 DEF TypeInv

\* Types are kept by the timeout of Follower.
LEMMA FollowerTimeoutType ==
  ASSUME TypeInv, NEW i \in Server, FollowerTimeout(i)
  PROVE  TypeInv'
<1>1. /\ LogOK' /\ CommitOK' /\ LeaderOK' /\ StartOK' /\ RestartOK' /\ RVOK'
      /\ AEOK' /\ ISOK' /\ AECallers' /\ ISCallers'
  BY Unchanged DEF FollowerTimeout, logVars, leaderVars
<1>2. ElectionOK' /\ TermOK'
  BY SaveType DEF FollowerTimeout, TypeInv, ElectionOK, TermOK, Roles
<1>3. NotifyOK'
  BY TokensLeftType DEF FollowerTimeout, TypeInv
<1>4. DiskOK'
  <2>1. currentTerm[i] + 1 \in Nat
    BY DEF TypeInv, TermOK
  <2> QED
    BY <2>1, LogFacts, PersistType DEF FollowerTimeout, TypeInv
<1>5. Slices'
  BY SlicesKept DEF FollowerTimeout, leaderVars, Roles
<1> QED
  BY <1>1, <1>2, <1>3, <1>4, <1>5 DEF TypeInv

\* LeaderProcess makes the slices.
LEMMA LeaderBeginsType ==
  ASSUME TypeInv, NEW i \in Server, LeaderBegins(i),
         UNCHANGED <<votedFor, granted, mainSave>>
  PROVE  ElectionOK' /\ LeaderOK' /\ Slices'
<1> DEFINE match == [j \in Server |-> 0]
           next == [j \in Server |-> LastLogIndex(i) + 1]
           list == [snap |-> lastIndexInSnapshot[i],
                    terms |-> [k \in 1..Len(log[i]) |-> log[i][k].term]]
<1>1. match \in [Server -> Nat] /\ next \in [Server -> Nat \ {0}]
  BY LogFacts DEF TypeInv
<1>2. list \in TermList
  <2>1. log[i] \in Seq(Entry) /\ Len(log[i]) \in Nat /\ lastIndexInSnapshot[i] \in Nat
    BY LogFacts DEF TypeInv
  <2>2. \A k \in 1..Len(log[i]) : log[i][k].term \in Nat
    <3>1. \A k \in 1..Len(log[i]) : log[i][k] \in Entry
      BY <2>1
    <3> QED
      BY <3>1 DEF Entry
  <2>3. [k \in 1..Len(log[i]) |-> log[i][k].term] \in Seq(Nat)
    BY <2>1, <2>2
  <2> QED
    BY <2>1, <2>3 DEF TermList
<1>3. match # NilSlice /\ next # NilSlice
  BY <1>1, MadeNotNil
<1> HIDE DEF match, next, list
<1>4. /\ role' = [role EXCEPT ![i] = "leader"]
      /\ matchIndex' = [matchIndex EXCEPT ![i] = match]
      /\ nextIndex' = [nextIndex EXCEPT ![i] = next]
      /\ termList' = [termList EXCEPT ![i] = list]
  BY DEF LeaderBegins, match, next, list
<1>5. ElectionOK'
  BY <1>4 DEF TypeInv, ElectionOK, Roles
<1>6. LeaderOK'
  BY <1>1, <1>2, <1>4 DEF TypeInv, LeaderOK
<1>7. Slices'
  BY <1>3, <1>4 DEF TypeInv, Slices, ElectionOK, LeaderOK
<1> QED
  BY <1>5, <1>6, <1>7

\* Types are kept by mainProcess's look at leaderNum.
LEMMA MainDispatchType ==
  ASSUME TypeInv, NEW i \in Server, MainDispatch(i)
  PROVE  TypeInv'
<1>1. /\ TermOK' /\ LogOK' /\ CommitOK' /\ DiskOK' /\ StartOK' /\ NotifyOK'
      /\ RestartOK' /\ RVOK' /\ AEOK' /\ ISOK'
  BY Unchanged DEF MainDispatch
<1>2. CASE leaderNum[i] = i
  <2>1. ElectionOK' /\ LeaderOK' /\ Slices'
    BY <1>2, LeaderBeginsType DEF MainDispatch
  <2>2. \A j \in Server : nextIndex[j] # NilSlice => nextIndex'[j] # NilSlice
    <3>1. [j \in Server |-> LastLogIndex(i) + 1] # NilSlice
      BY MadeNotNil
    <3> QED
      BY <1>2, <3>1 DEF MainDispatch, LeaderBegins, TypeInv, LeaderOK
  <2>3. AECallers'
    <3>1. UNCHANGED aeCalls /\ \A c \in aeCalls : c.src \in Server
      BY DEF MainDispatch, TypeInv, AEOK, AECall
    <3> QED
      BY <2>2, <3>1 DEF TypeInv, AECallers
  <2>4. ISCallers'
    <3>1. /\ UNCHANGED <<isCalls, lastIndexInSnapshot>>
          /\ \A c \in isCalls : c.src \in Server
      BY DEF MainDispatch, TypeInv, ISOK, ISCall, logVars
    <3> QED
      BY <2>2, <3>1 DEF TypeInv, ISCallers
  <2> QED
    BY <1>1, <2>1, <2>3, <2>4 DEF TypeInv
<1>3. CASE leaderNum[i] # i
  <2>1. LeaderOK' /\ AECallers' /\ ISCallers'
    BY <1>3, Unchanged DEF MainDispatch, leaderVars, logVars
  <2>2. ElectionOK'
    BY <1>3 DEF MainDispatch, TypeInv, ElectionOK, Roles
  <2>3. Slices'
    BY <1>3, SlicesKept DEF MainDispatch, leaderVars, Roles
  <2> QED
    BY <1>1, <2>1, <2>2, <2>3 DEF TypeInv
<1> QED
  BY <1>2, <1>3

\* Types are kept by RequestVote's tests without the lock.
LEMMA RVCheckType ==
  ASSUME TypeInv, NEW c \in rvCalls, RVCheck(c)
  PROVE  TypeInv'
<1> DEFINE i == c.dst
           grant == ~RefusedAtOnce(i, c) /\ currentTerm[i] = c.term
           seen == [c EXCEPT !.replyTerm = currentTerm[i], !.voteGranted = grant,
                             !.st = IF currentTerm[i] < c.term THEN "lock" ELSE "reply"]
<1>0. c \in RVCall /\ i \in Server /\ currentTerm[i] \in Nat
  BY DEF TypeInv, RVOK, RVCall, TermOK
<1>1. /\ ElectionOK' /\ TermOK' /\ LogOK' /\ CommitOK' /\ LeaderOK' /\ DiskOK' /\ StartOK'
      /\ RestartOK' /\ AEOK' /\ ISOK' /\ Slices' /\ AECallers' /\ ISCallers'
  BY Unchanged DEF RVCheck, logVars, leaderVars, electionVars
<1>2. RVOK'
  <2>1. grant \in BOOLEAN
    OBVIOUS
  <2>2. seen \in RVCall
    <3> HIDE DEF grant
    <3> QED
      BY <1>0, <2>1 DEF RVCall
  <2> QED
    BY <2>2 DEF RVCheck, RVKept, TypeInv, RVOK
<1>3. NotifyOK'
  <2>1. Notify(i, 2) \/ UNCHANGED notify
    BY DEF RVCheck
  <2> QED
    BY <1>0, <2>1, NotifyType, Unchanged DEF TypeInv
<1> QED
  BY <1>1, <1>2, <1>3 DEF TypeInv

\* Types are kept by the persist() of mainProcess.
LEMMA MainEncodeType ==
  ASSUME TypeInv, NEW i \in Server, MainEncode(i)
  PROVE  TypeInv'
<1>1. /\ TermOK' /\ LogOK' /\ CommitOK' /\ LeaderOK' /\ DiskOK' /\ StartOK' /\ NotifyOK'
      /\ RestartOK' /\ RVOK' /\ AEOK' /\ ISOK' /\ Slices' /\ AECallers' /\ ISCallers'
  BY Unchanged DEF MainEncode, logVars, leaderVars
<1>2. ElectionOK'
  BY EncodedType DEF MainEncode, TypeInv, ElectionOK
<1> QED
  BY <1>1, <1>2 DEF TypeInv

LEMMA MainSaveType ==
  ASSUME TypeInv, NEW i \in Server, MainSave(i)
  PROVE  TypeInv'
<1>1. /\ TermOK' /\ LogOK' /\ CommitOK' /\ LeaderOK' /\ StartOK' /\ NotifyOK'
      /\ RestartOK' /\ RVOK' /\ AEOK' /\ ISOK' /\ Slices' /\ AECallers' /\ ISCallers'
  BY Unchanged DEF MainSave, logVars, leaderVars
<1>2. ElectionOK'
  BY SaveType DEF MainSave, TypeInv, ElectionOK
<1>3. DiskOK'
  <2>1. mainSave[i] \in Save
    BY DEF TypeInv, ElectionOK
  <2> QED
    BY <2>1, SavedType DEF MainSave, TypeInv
<1> QED
  BY <1>1, <1>2, <1>3 DEF TypeInv

\* Types are kept by RequestVote under the lock.
LEMMA RVLockType ==
  ASSUME TypeInv, NEW c \in rvCalls, RVLock(c)
  PROVE  TypeInv'
<1> DEFINE i == c.dst
<1>0. c \in RVCall /\ i \in Server /\ c.term \in Nat
  BY DEF TypeInv, RVOK, RVCall
<1>1. /\ ElectionOK' /\ LogOK' /\ CommitOK' /\ LeaderOK' /\ StartOK' /\ NotifyOK'
      /\ RestartOK' /\ AEOK' /\ ISOK' /\ Slices' /\ AECallers' /\ ISCallers'
  BY Unchanged DEF RVLock, logVars, leaderVars, electionVars
<1>2. RVOK'
  <2>1. /\ [c EXCEPT !.st = "reply"] \in RVCall
        /\ [c EXCEPT !.st = "grant", !.save = SaveDue(i)] \in RVCall
    BY <1>0, SaveType DEF RVCall
  <2> QED
    BY <2>1 DEF RVLock, RVKept, TypeInv, RVOK
<1>3. TermOK'
  BY <1>0 DEF RVLock, TypeInv, TermOK
<1>4. DiskOK'
  <2>1. (PersistBegins(i, c.term, log[i]) \/ UNCHANGED persisted) /\ UNCHANGED snapshot
    BY DEF RVLock
  <2>2. CASE PersistBegins(i, c.term, log[i])
    BY <1>0, <2>1, <2>2, LogFacts, PersistType DEF TypeInv
  <2>3. CASE UNCHANGED persisted
    BY <2>1, <2>3, Unchanged DEF diskVars
  <2> QED
    BY <2>1, <2>2, <2>3
<1> QED
  BY <1>1, <1>2, <1>3, <1>4 DEF TypeInv

\* Types are kept by the persist() of RequestVote.
LEMMA RVEncodeType ==
  ASSUME TypeInv, NEW c \in rvCalls, RVEncode(c)
  PROVE  TypeInv'
<1>1. /\ ElectionOK' /\ TermOK' /\ LogOK' /\ CommitOK' /\ LeaderOK' /\ DiskOK'
      /\ StartOK' /\ NotifyOK' /\ RestartOK' /\ AEOK' /\ ISOK'
      /\ Slices' /\ AECallers' /\ ISCallers'
  BY Unchanged DEF RVEncode, peerVars, logVars, leaderVars, electionVars
<1>2. [c EXCEPT !.save = Encoded(c.dst)] \in RVCall
  <2>1. c \in RVCall /\ Encoded(c.dst) \in Save
    BY EncodedType DEF TypeInv, RVOK, RVCall
  <2> QED
    BY <2>1 DEF RVCall
<1>3. RVOK'
  BY <1>2 DEF RVEncode, TypeInv, RVOK
<1> QED
  BY <1>1, <1>3 DEF TypeInv

LEMMA RVSaveType ==
  ASSUME TypeInv, NEW c \in rvCalls, RVSave(c)
  PROVE  TypeInv'
<1>0. c \in RVCall /\ c.dst \in Server /\ c.save \in Save
  BY DEF TypeInv, RVOK, RVCall
<1>1. /\ ElectionOK' /\ TermOK' /\ LogOK' /\ CommitOK' /\ LeaderOK'
      /\ StartOK' /\ NotifyOK' /\ RestartOK' /\ AEOK' /\ ISOK'
      /\ Slices' /\ AECallers' /\ ISCallers'
  BY Unchanged DEF RVSave, logVars, leaderVars, electionVars
<1>2. DiskOK'
  BY <1>0, SavedType DEF RVSave, TypeInv
<1>3. [c EXCEPT !.save = NoSave] \in RVCall
  BY <1>0, SaveType DEF RVCall
<1>4. RVOK'
  BY <1>3 DEF RVSave, TypeInv, RVOK
<1> QED
  BY <1>1, <1>2, <1>4 DEF TypeInv

\* Types are kept by the rest of RequestVote.
LEMMA RVGrantType ==
  ASSUME TypeInv, NEW c \in rvCalls, RVGrant(c)
  PROVE  TypeInv'
<1> DEFINE i == c.dst
           grant == UpToDate(i, c)
<1>0. c \in RVCall /\ i \in Server /\ c.src \in Server
  BY DEF TypeInv, RVOK, RVCall
<1>1. /\ ElectionOK' /\ LogOK' /\ CommitOK' /\ LeaderOK' /\ DiskOK' /\ StartOK'
      /\ RestartOK' /\ AEOK' /\ ISOK' /\ Slices' /\ AECallers' /\ ISCallers'
  BY Unchanged DEF RVGrant, logVars, leaderVars, electionVars
<1>2. RVOK'
  <2>1. grant \in BOOLEAN
    BY DEF UpToDate
  <2>2. [c EXCEPT !.st = "reply", !.voteGranted = grant] \in RVCall
    <3> HIDE DEF grant
    <3> QED
      BY <1>0, <2>1 DEF RVCall
  <2> QED
    BY <2>2 DEF RVGrant, RVKept, TypeInv, RVOK
<1>3. NotifyOK'
  <2>1. Notify(i, 2) \/ UNCHANGED notify
    BY DEF RVGrant
  <2> QED
    BY <1>0, <2>1, NotifyType, Unchanged DEF TypeInv
<1>4. TermOK'
  BY <1>0 DEF RVGrant, TypeInv, TermOK
<1> QED
  BY <1>1, <1>2, <1>3, <1>4 DEF TypeInv

\* Types are kept by a lost RequestVote.
LEMMA RVFailType ==
  ASSUME TypeInv, NEW c \in rvCalls, RVFail(c)
  PROVE  TypeInv'
<1>1. /\ ElectionOK' /\ TermOK' /\ LogOK' /\ CommitOK' /\ LeaderOK' /\ DiskOK'
      /\ StartOK' /\ NotifyOK' /\ RestartOK' /\ AEOK' /\ ISOK'
      /\ Slices' /\ AECallers' /\ ISCallers'
  BY Unchanged DEF RVFail, peerVars, logVars, leaderVars, electionVars
<1>2. c \in RVCall /\ c.tries + 1 \in Nat
  BY DEF TypeInv, RVOK, RVCall
<1>3. [c EXCEPT !.st = "net", !.save = NoSave, !.tries = @ + 1, !.replyTerm = 0,
                !.voteGranted = FALSE] \in RVCall
  BY <1>2, SaveType DEF RVCall
<1>4. [c EXCEPT !.live = FALSE, !.tries = RVTries] \in RVCall
  BY <1>2, BoundAssumption DEF RVCall
<1>5. RVOK'
  BY <1>3, <1>4 DEF RVFail, TypeInv, RVOK
<1> QED
  BY <1>1, <1>5 DEF TypeInv

-----------------------------------------------------------------------------
(* Start, and the AppendEntry handler.                                     *)

\* Types are kept by Start's first critical section.
LEMMA StartCheckType ==
  ASSUME TypeInv, NEW i \in Server, NEW v \in Value, StartCheck(i, v)
  PROVE  TypeInv'
<1>1. /\ ElectionOK' /\ TermOK' /\ LogOK' /\ CommitOK' /\ LeaderOK' /\ DiskOK'
      /\ NotifyOK' /\ RestartOK' /\ RVOK' /\ AEOK' /\ ISOK'
      /\ Slices' /\ AECallers' /\ ISCallers'
  BY Unchanged DEF StartCheck, logVars, leaderVars, electionVars
<1>2. StartOK'
  BY SaveType DEF StartCheck, TypeInv, StartOK, TermOK, StartCall
<1> QED
  BY <1>1, <1>2 DEF TypeInv

\* Types are kept by Start's second critical section.
LEMMA StartAppendType ==
  ASSUME TypeInv, NEW s \in starts, StartAppend(s)
  PROVE  TypeInv'
<1> DEFINE i == s.node
           newLog == Append(log[i], [term |-> s.term, cmd |-> s.cmd])
           match == [matchIndex[i] EXCEPT ![i] = NameIndex(i, Len(log[i]))]
<1>0. i \in Server /\ s.cmd \in Value /\ s.term \in Nat /\ currentTerm[i] \in Nat
  BY DEF TypeInv, StartOK, StartCall, TermOK
<1>1. /\ ElectionOK' /\ TermOK' /\ CommitOK'
      /\ NotifyOK' /\ RestartOK' /\ RVOK' /\ AEOK' /\ ISOK' /\ AECallers' /\ ISCallers'
  BY Unchanged DEF StartAppend
<1>2. newLog \in Seq(Entry) \ {<< >>}
  <2>1. [term |-> s.term, cmd |-> s.cmd] \in Entry
    BY <1>0 DEF Entry
  <2>2. log[i] \in Seq(Entry)
    BY <1>0, LogFacts DEF TypeInv
  <2> QED
    BY <2>1, <2>2
<1>3. matchIndex[i] \in [Server -> Nat]
  BY <1>0 DEF StartAppend, TypeInv, LeaderOK
<1>4. match \in [Server -> Nat] /\ match # NilSlice
  <2>1. NameIndex(i, Len(log[i])) \in Nat
    BY <1>0, LogFacts DEF TypeInv, NameIndex
  <2>2. match \in [Server -> Nat]
    BY <1>3, <2>1
  <2> QED
    BY <2>2, MadeNotNil
<1> HIDE DEF newLog, match
<1>5. /\ starts' \subseteq (starts \ {s}) \cup {[s EXCEPT !.save = ToSave]}
      /\ log' = [log EXCEPT ![i] = newLog]
      /\ matchIndex' = [matchIndex EXCEPT ![i] = match]
      /\ matchIndex[i] # NilSlice
      /\ PersistBegins(i, currentTerm[i], newLog)
      /\ UNCHANGED <<lastIndexInSnapshot, lastTermInSnapshot, nextIndex, termList, role,
                     snapshot, proposed>>
  BY DEF StartAppend, newLog, match, electionVars
<1>6. LogOK'
  BY <1>2, <1>5 DEF TypeInv, LogOK
<1>7. LeaderOK'
  BY <1>4, <1>5 DEF TypeInv, LeaderOK
<1>8. DiskOK'
  BY <1>0, <1>2, <1>5, PersistType DEF TypeInv
<1>9. StartOK'
  <2>1. [s EXCEPT !.save = ToSave] \in StartCall
    BY SaveType DEF TypeInv, StartOK, StartCall
  <2> QED
    BY <1>5, <2>1 DEF TypeInv, StartOK
<1>10. Slices'
  BY <1>0, <1>4, <1>5 DEF TypeInv, Slices, LeaderOK
<1> QED
  BY <1>1, <1>6, <1>7, <1>8, <1>9, <1>10 DEF TypeInv

\* Types are kept by the persist() of Start.
LEMMA StartEncodeType ==
  ASSUME TypeInv, NEW s \in starts, StartEncode(s)
  PROVE  TypeInv'
<1>1. /\ ElectionOK' /\ TermOK' /\ LogOK' /\ CommitOK' /\ LeaderOK' /\ DiskOK'
      /\ NotifyOK' /\ RestartOK' /\ RVOK' /\ AEOK' /\ ISOK'
      /\ Slices' /\ AECallers' /\ ISCallers'
  BY Unchanged DEF StartEncode, logVars, leaderVars, electionVars
<1>2. [s EXCEPT !.save = Encoded(s.node)] \in StartCall
  <2>1. s \in StartCall /\ Encoded(s.node) \in Save
    BY EncodedType DEF TypeInv, StartOK, StartCall
  <2> QED
    BY <2>1 DEF StartCall
<1>3. StartOK'
  BY <1>2 DEF StartEncode, TypeInv, StartOK
<1> QED
  BY <1>1, <1>3 DEF TypeInv

LEMMA StartSaveType ==
  ASSUME TypeInv, NEW s \in starts, StartSave(s)
  PROVE  TypeInv'
<1>0. s.node \in Server /\ s.save \in Save
  BY DEF TypeInv, StartOK, StartCall
<1>1. /\ ElectionOK' /\ TermOK' /\ LogOK' /\ CommitOK' /\ LeaderOK'
      /\ NotifyOK' /\ RestartOK' /\ RVOK' /\ AEOK' /\ ISOK'
      /\ Slices' /\ AECallers' /\ ISCallers'
  BY Unchanged DEF StartSave, logVars, leaderVars, electionVars
<1>2. DiskOK' /\ StartOK'
  BY <1>0, SavedType DEF StartSave, TypeInv, StartOK
<1> QED
  BY <1>1, <1>2 DEF TypeInv

-----------------------------------------------------------------------------
(* The calls of AppendEntry and InstallSnapShot that a step replaces.      *)

\* A slice that was made stays made.
SlicesStay == \A j \in Server : nextIndex[j] # NilSlice => nextIndex'[j] # NilSlice

\* The term, the snapshot and the slices allow d as a call of AppendEntry.
AEMay(d) ==
  /\ d \in AECall
  /\ d.live => nextIndex[d.src] # NilSlice
  /\ d.st = "commit" => d.live

ISMay(d) ==
  /\ d \in ISCall
  /\ d.live =>
       /\ nextIndex[d.src] # NilSlice
       /\ d.sender.src = d.src /\ d.sender.live /\ d.sender.st # "commit"
       /\ d.inLoop => d.sender.prev < lastIndexInSnapshot[d.src]

\* What the invariant says of a call of AppendEntry.
LEMMA AEHave ==
  ASSUME TypeInv, NEW c \in aeCalls
  PROVE  /\ AEMay(c) /\ c.src \in Server /\ c.dst \in Server
         /\ c.args \in AEArgs /\ c.reply \in AEReply
BY DEF TypeInv, AEOK, AECallers, AEMay, AECall

\* A step that replaces calls of AppendEntry by permitted ones keeps their part.
LEMMA AEReplaced ==
  ASSUME TypeInv, SlicesStay, NEW new,
         aeCalls' \subseteq aeCalls \cup new, \A d \in new : AEMay(d)
  PROVE  AEOK' /\ AECallers'
<1>1. ASSUME NEW d \in aeCalls' PROVE AEMay(d) /\ d.src \in Server
  BY AEHave DEF AEMay, AECall
<1>2. AEOK'
  BY <1>1 DEF AEOK, AEMay
<1>3. AECallers'
  BY <1>1 DEF AECallers, AEMay, SlicesStay
<1> QED
  BY <1>2, <1>3

\* The same for InstallSnapShot; lastIndexInSnapshot only grows.
LEMMA ISReplaced ==
  ASSUME TypeInv, SlicesStay, NEW new,
         \A j \in Server : lastIndexInSnapshot'[j] \in Nat
                             /\ lastIndexInSnapshot[j] <= lastIndexInSnapshot'[j],
         isCalls' \subseteq isCalls \cup new, \A d \in new : ISMay(d)
  PROVE  ISOK' /\ ISCallers'
<1>1. ASSUME NEW d \in isCalls' PROVE ISMay(d) /\ d.src \in Server /\ d.sender.prev \in Nat
  <2>1. ISMay(d)
    BY DEF TypeInv, ISOK, ISCallers, ISMay
  <2> QED
    BY <2>1 DEF ISMay, ISCall, AECall
<1>2. ISOK'
  BY <1>1 DEF ISOK, ISMay
<1>3. ASSUME NEW d \in isCalls', d.live
      PROVE  /\ nextIndex'[d.src] # NilSlice
             /\ d.sender.src = d.src /\ d.sender.live /\ d.sender.st # "commit"
             /\ d.inLoop => d.sender.prev < lastIndexInSnapshot'[d.src]
  <2>1. lastIndexInSnapshot[d.src] \in Nat
    BY <1>1 DEF TypeInv, LogOK
  <2> QED
    BY <1>1, <1>3, <2>1 DEF ISMay, SlicesStay
<1>4. ISCallers'
  BY <1>3 DEF ISCallers
<1> QED
  BY <1>2, <1>4

\* The empty reply of an AppendEntry.
LEMMA NoReplyType ==
  NoReply \in AEReply
BY DEF NoReply, AEReply

\* The term reported for a conflicting entry.
LEMMA ConflictTermType ==
  ASSUME LogOK, NEW i \in Server, NEW a \in AEArgs, a.prevLogIndex <= LastLogIndex(i)
  PROVE  ConflictTerm(i, a) \in Nat
<1> DEFINE k == TrueIndex(i, a.prevLogIndex)
           lower == {n \in 1..k : At(i, n).term < a.prevLogTerm}
<1>1. k \in Nat /\ k < Len(log[i])
  BY TrueIndexType DEF AEArgs
<1>2. At(i, k).term \in Nat
  BY <1>1, AtType
<1>3. ASSUME lower # {} PROVE At(i, Max(lower)).term \in Nat
  <2>1. lower \subseteq Nat /\ \A n \in lower : n <= k
    BY <1>1
  <2>2. Max(lower) \in lower
    <3> HIDE DEF lower, k
    <3> QED
      BY <1>1, <1>3, <2>1, MaxOfBounded
  <2>3. Max(lower) \in 1..k
    <3> DEFINE m == Max(lower)
    <3>1. m \in lower
      BY <2>2
    <3> HIDE DEF m
    <3>2. m \in 1..k
      BY <3>1
    <3> QED
      BY <3>2 DEF m
  <2>4. Max(lower) \in Nat /\ Max(lower) < Len(log[i])
    <3> HIDE DEF lower, k
    <3> QED
      BY <1>1, <2>3, LogFacts
  <2> HIDE DEF lower
  <2> QED
    BY <2>4, AtType
<1> HIDE DEF lower
<1>4. ConflictTerm(i, a) = IF At(i, k).term > a.prevLogTerm /\ lower # {}
                             THEN At(i, Max(lower)).term ELSE At(i, k).term
  BY DEF ConflictTerm, lower
<1> QED
  BY <1>2, <1>3, <1>4

\* What the consistency check of AppendEntry leaves behind.
LEMMA CheckedType ==
  ASSUME TypeInv, NEW c \in aeCalls, NEW t \in Nat
  PROVE  /\ Checked(c.dst, c, t) \in AECall
         /\ Checked(c.dst, c, t).src = c.src
         /\ Checked(c.dst, c, t).live = c.live
         /\ Checked(c.dst, c, t).st \in {"reply", "range", "apply"}
<1> DEFINE i == c.dst
           a == c.args
           failed == [NoReply EXCEPT !.term = t]
<1>0. /\ c \in AECall /\ i \in Server /\ a \in AEArgs /\ LogOK
      /\ a.prevLogIndex \in Nat /\ a.leaderCommit \in Nat
  BY AEHave DEF TypeInv, AEOK, AEArgs
<1>1. /\ LastLogIndex(i) \in Nat /\ LastLogTerm(i) \in Nat /\ commitIndex[i] \in Nat
  BY <1>0, LogFacts DEF TypeInv, CommitOK
<1>2. failed \in AEReply
  BY DEF NoReply, AEReply
<1> HIDE DEF failed
<1> USE DEF Checked
<1>3. CASE a.prevLogIndex > LastLogIndex(i)
  <2> DEFINE r == [failed EXCEPT !.lastLogIndex = LastLogIndex(i),
                                 !.termOfPrev = LastLogTerm(i)]
  <2>1. r \in AEReply
    BY <1>1, <1>2 DEF AEReply
  <2>2. Checked(i, c, t) = [c EXCEPT !.st = "reply", !.reply = r]
    BY <1>0, <1>1, <1>3 DEF failed
  <2> HIDE DEF r, Checked
  <2> QED
    BY <1>0, <2>1, <2>2 DEF AECall
<1>4. CASE a.prevLogIndex <= LastLogIndex(i) /\ ~PrevMatches(i, a)
  <2> DEFINE r == [failed EXCEPT !.termOfPrev = ConflictTerm(i, a)]
  <2>1. r \in AEReply
    BY <1>0, <1>2, <1>4, ConflictTermType DEF AEReply
  <2>2. Checked(i, c, t) = [c EXCEPT !.st = "reply", !.reply = r]
    BY <1>0, <1>1, <1>4 DEF failed
  <2> HIDE DEF r, Checked
  <2> QED
    BY <1>0, <2>1, <2>2 DEF AECall
<1>5. CASE /\ a.prevLogIndex <= LastLogIndex(i) /\ PrevMatches(i, a)
           /\ a.prevLogIndex < commitIndex[i]
  <2> DEFINE r == [failed EXCEPT !.success = TRUE, !.commitIndex = commitIndex[i]]
  <2>1. r \in AEReply
    BY <1>1, <1>2 DEF AEReply
  <2>2. Checked(i, c, t) = [c EXCEPT !.st = "reply", !.reply = r]
    BY <1>0, <1>1, <1>5 DEF failed
  <2> HIDE DEF r, Checked
  <2> QED
    BY <1>0, <2>1, <2>2 DEF AECall
<1>6. CASE /\ a.prevLogIndex <= LastLogIndex(i) /\ PrevMatches(i, a)
           /\ ~(a.prevLogIndex < commitIndex[i])
  <2> DEFINE st == IF a.leaderCommit > commitIndex[i] THEN "range" ELSE "apply"
  <2>1. st \in {"range", "apply"}
    OBVIOUS
  <2>2. Checked(i, c, t) = [c EXCEPT !.st = st, !.reply = failed]
    BY <1>0, <1>1, <1>6 DEF failed
  <2> HIDE DEF Checked, st
  <2> QED
    BY <1>0, <1>2, <2>1, <2>2 DEF AECall
<1> QED
  BY <1>0, <1>1, <1>3, <1>4, <1>5, <1>6

\* A handler of AppendEntry that goes on or is done.
LEMMA AEDoneType ==
  ASSUME TypeInv, UNCHANGED nextIndex, NEW c \in aeCalls, NEW d, d \in AECall,
         d.src = c.src, d.live = c.live, d.st # "commit", aeCalls' = AEDone(c, d)
  PROVE  AEOK' /\ AECallers'
<1>1. AEMay(d)
  BY AEHave DEF AEMay
<1>2. SlicesStay /\ aeCalls' \subseteq aeCalls \cup {d}
  BY DEF SlicesStay, AEDone, NilSlice
<1> DEFINE new == {d}
<1>3. aeCalls' \subseteq aeCalls \cup new /\ \A e \in new : AEMay(e)
  BY <1>1, <1>2
<1> HIDE DEF new
<1> QED
  BY <1>2, <1>3, AEReplaced

\* Types are kept by AppendEntry's tests.
LEMMA AECheckType ==
  ASSUME TypeInv, NEW c \in aeCalls, AECheck(c)
  PROVE  TypeInv'
<1> DEFINE i == c.dst
<1>0. c \in AECall /\ i \in Server /\ currentTerm[i] \in Nat /\ UNCHANGED nextIndex
  BY AEHave DEF TypeInv, TermOK, AEOK, AECheck, peerVars, leaderVars
<1>1. /\ ElectionOK' /\ TermOK' /\ LogOK' /\ CommitOK' /\ LeaderOK' /\ DiskOK' /\ StartOK'
      /\ RestartOK' /\ RVOK' /\ ISOK' /\ Slices' /\ ISCallers'
  BY Unchanged DEF AECheck, peerVars, logVars, leaderVars, electionVars
<1>2. NotifyOK'
  <2>1. Notify(i, 3) \/ UNCHANGED notify
    BY DEF AECheck
  <2> QED
    BY <1>0, <2>1, NotifyType, Unchanged DEF TypeInv
<1>3. AEOK' /\ AECallers'
  <2> DEFINE r == [NoReply EXCEPT !.term = currentTerm[i]]
             refused == [c EXCEPT !.st = "reply", !.reply = r]
             newer == [c EXCEPT !.st = "term", !.reply = r]
             checked == Checked(i, c, currentTerm[i])
  <2>1. r \in AEReply
    BY <1>0 DEF NoReply, AEReply
  <2>2. /\ refused \in AECall /\ newer \in AECall
        /\ refused.src = c.src /\ refused.live = c.live /\ refused.st = "reply"
        /\ newer.src = c.src /\ newer.live = c.live /\ newer.st = "term"
    <3> HIDE DEF r
    <3> QED
      BY <1>0, <2>1 DEF AECall
  <2>3. /\ checked \in AECall /\ checked.src = c.src /\ checked.live = c.live
        /\ checked.st \in {"reply", "range", "apply"}
    BY <1>0, CheckedType
  <2>4. \E d \in {refused, newer, checked} : aeCalls' = AEDone(c, d)
    BY DEF AECheck
  <2> HIDE DEF refused, newer, checked
  <2> QED
    BY <1>0, <2>2, <2>3, <2>4, AEDoneType
<1> QED
  BY <1>1, <1>2, <1>3 DEF TypeInv

\* Types are kept by AppendEntry's change of term.
LEMMA AETermType ==
  ASSUME TypeInv, NEW c \in aeCalls, AETerm(c)
  PROVE  TypeInv'
<1> DEFINE i == c.dst
           next == [c EXCEPT !.st = "check", !.save = SaveDue(i)]
<1>0. /\ i \in Server /\ c.src \in Server /\ c.args.term \in Nat /\ c \in AECall
      /\ UNCHANGED nextIndex
  BY AEHave DEF AETerm, AEArgs, leaderVars, TypeInv, AEOK
<1>1. /\ ElectionOK' /\ LogOK' /\ CommitOK' /\ LeaderOK' /\ StartOK' /\ NotifyOK'
      /\ RestartOK' /\ RVOK' /\ ISOK' /\ Slices' /\ ISCallers'
  BY Unchanged DEF AETerm, logVars, leaderVars, electionVars
<1>2. TermOK'
  BY <1>0 DEF AETerm, TypeInv, TermOK
<1>3. DiskOK'
  BY <1>0, LogFacts, PersistType DEF AETerm, TypeInv
<1>4. AEOK' /\ AECallers'
  <2>1. next \in AECall /\ next.src = c.src /\ next.live = c.live /\ next.st # "commit"
    BY <1>0, SaveType DEF AECall
  <2>2. aeCalls' = AEDone(c, next)
    BY DEF AETerm
  <2> HIDE DEF next
  <2> QED
    BY <1>0, <2>1, <2>2, AEDoneType
<1> QED
  BY <1>1, <1>2, <1>3, <1>4 DEF TypeInv

\* Types are kept by AppendEntry's tests after a change of term.
LEMMA AEPassType ==
  ASSUME TypeInv, NEW c \in aeCalls, AEPass(c)
  PROVE  TypeInv'
<1> DEFINE i == c.dst
           checked == Checked(i, c, c.reply.term)
<1>0. i \in Server /\ c.reply.term \in Nat /\ UNCHANGED nextIndex
  BY AEHave DEF AEPass, AEReply, peerVars, leaderVars
<1>1. /\ ElectionOK' /\ TermOK' /\ LogOK' /\ CommitOK' /\ LeaderOK' /\ DiskOK' /\ StartOK'
      /\ RestartOK' /\ RVOK' /\ ISOK' /\ Slices' /\ ISCallers'
  BY Unchanged DEF AEPass, peerVars, logVars, leaderVars, electionVars
<1>2. NotifyOK'
  BY <1>0, NotifyType DEF AEPass, TypeInv
<1>3. AEOK' /\ AECallers'
  <2>1. /\ checked \in AECall /\ checked.src = c.src /\ checked.live = c.live
        /\ checked.st \in {"reply", "range", "apply"}
    BY <1>0, CheckedType
  <2>2. aeCalls' = AEDone(c, checked)
    BY DEF AEPass
  <2> HIDE DEF checked
  <2> QED
    BY <1>0, <2>1, <2>2, AEDoneType
<1> QED
  BY <1>1, <1>2, <1>3 DEF TypeInv

\* Types are kept by the range that AppendEntry will commit.
LEMMA AERangeType ==
  ASSUME TypeInv, NEW c \in aeCalls, AERange(c)
  PROVE  TypeInv'
<1> DEFINE next == [c EXCEPT !.st = "apply", !.pre = commitIndex[c.dst],
                             !.aft = AftCommit(c.args)]
<1>1. /\ ElectionOK' /\ TermOK' /\ LogOK' /\ CommitOK' /\ LeaderOK' /\ DiskOK' /\ StartOK'
      /\ NotifyOK' /\ RestartOK' /\ RVOK' /\ ISOK' /\ Slices' /\ ISCallers'
  BY Unchanged DEF AERange, peerVars, logVars, leaderVars, electionVars
<1>2. AEOK' /\ AECallers'
  <2>1. c \in AECall /\ commitIndex[c.dst] \in Nat /\ AftCommit(c.args) \in Nat
    BY AEHave DEF TypeInv, AEOK, CommitOK, AftCommit, AEArgs
  <2>2. next \in AECall /\ next.src = c.src /\ next.live = c.live /\ next.st # "commit"
    BY <2>1 DEF AECall
  <2>3. aeCalls' = AEDone(c, next) /\ UNCHANGED nextIndex
    BY DEF AERange, peerVars, leaderVars
  <2> HIDE DEF next
  <2> QED
    BY <2>2, <2>3, AEDoneType
<1> QED
  BY <1>1, <1>2 DEF TypeInv

\* Types are kept by the persist() of AppendEntry.
LEMMA AEEncodeType ==
  ASSUME TypeInv, NEW c \in aeCalls, AEEncode(c)
  PROVE  TypeInv'
<1>1. /\ ElectionOK' /\ TermOK' /\ LogOK' /\ CommitOK' /\ LeaderOK' /\ DiskOK' /\ StartOK'
      /\ NotifyOK' /\ RestartOK' /\ RVOK' /\ ISOK' /\ Slices' /\ ISCallers'
  BY Unchanged DEF AEEncode, peerVars, logVars, leaderVars, electionVars
<1>2. AEMay([c EXCEPT !.save = Encoded(c.dst)])
  <2>1. c \in AECall /\ Encoded(c.dst) \in Save /\ AEMay(c)
    BY AEHave, EncodedType DEF TypeInv, AEOK
  <2> QED
    BY <2>1 DEF AECall, AEMay
<1>3. AEOK' /\ AECallers'
  <2> DEFINE new == {[c EXCEPT !.save = Encoded(c.dst)]}
  <2>1. aeCalls' \subseteq aeCalls \cup new /\ \A e \in new : AEMay(e)
    BY <1>2 DEF AEEncode, AEDone
  <2>2. SlicesStay
    BY DEF SlicesStay, AEEncode, peerVars, leaderVars
  <2> HIDE DEF new
  <2> QED
    BY <2>1, <2>2, AEReplaced
<1> QED
  BY <1>1, <1>3 DEF TypeInv

LEMMA AESaveType ==
  ASSUME TypeInv, NEW c \in aeCalls, AESave(c)
  PROVE  TypeInv'
<1> DEFINE next == [c EXCEPT !.save = NoSave]
<1>0. c \in AECall /\ c.dst \in Server /\ c.save \in Save /\ AEMay(c)
  BY AEHave DEF TypeInv, AEOK, AECall
<1>1. /\ ElectionOK' /\ TermOK' /\ LogOK' /\ CommitOK' /\ LeaderOK' /\ StartOK'
      /\ NotifyOK' /\ RestartOK' /\ RVOK' /\ ISOK' /\ Slices' /\ ISCallers'
  BY Unchanged DEF AESave, logVars, leaderVars, electionVars
<1>2. DiskOK'
  BY <1>0, SavedType DEF AESave, TypeInv
<1>3. AEOK' /\ AECallers'
  <2> DEFINE new == {next}
  <2>1. AEMay(next)
    BY <1>0, SaveType DEF AECall, AEMay
  <2> HIDE DEF next
  <2>2. aeCalls' \subseteq aeCalls \cup new /\ \A e \in new : AEMay(e)
    BY <2>1 DEF AESave, AEDone, next
  <2>3. SlicesStay
    BY DEF SlicesStay, AESave, leaderVars
  <2> HIDE DEF new
  <2> QED
    BY <2>2, <2>3, AEReplaced
<1> QED
  BY <1>1, <1>2, <1>3 DEF TypeInv

\* Delivering entries that the log holds.
LEMMA DeliverType ==
  ASSUME TypeInv, NEW i \in Server, NEW from \in Nat, NEW to \in Nat, from < to,
         lastIndexInSnapshot[i] <= from, to <= LastLogIndex(i), Deliver(i, from, to)
  PROVE  CommitOK'
<1> DEFINE ms == Messages(i, from, to)
<1>1. \A k \in 1..(to - from) :
        [index |-> from + k, cmd |-> At(i, TrueIndex(i, from + k)).cmd] \in Message
  <2>1. SUFFICES ASSUME NEW k \in 1..(to - from)
                 PROVE  At(i, TrueIndex(i, from + k)).cmd \in Value \cup {Nil}
    BY DEF Message
  <2>2. from + k \in Nat /\ from + k <= LastLogIndex(i)
    BY LogFacts DEF TypeInv
  <2>3. TrueIndex(i, from + k) \in Nat /\ TrueIndex(i, from + k) < Len(log[i])
    BY <2>2, TrueIndexType DEF TypeInv
  <2> QED
    BY <2>3, AtType DEF TypeInv
<1>2. ms \in Seq(Message) /\ \A k \in 1..(to - from) : ms[k] \in Message
  <2>1. to - from \in Nat
    OBVIOUS
  <2>2. ms = [k \in 1..(to - from) |->
                [index |-> from + k, cmd |-> At(i, TrueIndex(i, from + k)).cmd]]
    BY DEF Messages
  <2> HIDE DEF ms
  <2>3. ms \in [1..(to - from) -> Message]
    BY <1>1, <2>2
  <2> QED
    BY <2>1, <2>3
<1> HIDE DEF ms
<1>3. /\ commitIndex' = [commitIndex EXCEPT ![i] = to]
      /\ applied' = [applied EXCEPT ![i].msgs = @ \o ms]
      /\ delivered' = delivered \cup {ms[k] : k \in 1..(to - from)}
  BY DEF Deliver, ms
<1>4. applied[i] \in [base : Nat, msgs : Seq(Message)]
  BY DEF TypeInv, CommitOK
<1>5. applied[i].msgs \o ms \in Seq(Message)
  BY <1>2, <1>4
<1>6. applied' \in [Server -> [base : Nat, msgs : Seq(Message)]]
  BY <1>3, <1>4, <1>5 DEF TypeInv, CommitOK
<1> QED
  BY <1>2, <1>3, <1>6 DEF TypeInv, CommitOK

\* Types are kept by AppendEntry's delivery.
LEMMA AEApplyType ==
  ASSUME TypeInv, NEW c \in aeCalls, AEApply(c)
  PROVE  TypeInv'
<1> DEFINE i == c.dst
           pre == PreBound(c)
           from == CommitFrom(i, NameIndex(i, pre))
           to == NameIndex(i, AftBound(c))
           next == IF c.args.entries = << >>
                     THEN [c EXCEPT !.st = "reply", !.reply.success = TRUE,
                                    !.pre = 0, !.aft = 0, !.save = SaveDue(i)]
                     ELSE [c EXCEPT !.st = "append", !.pre = 0, !.aft = 0,
                                    !.save = SaveDue(i)]
<1>0. /\ c \in AECall /\ i \in Server /\ c.pre \in Nat /\ c.aft \in Nat /\ c.reply \in AEReply
      /\ currentTerm[i] \in Nat /\ commitIndex[i] \in Nat /\ LogOK
  BY AEHave DEF TypeInv, AEOK, AECall, TermOK, CommitOK
<1>1. /\ ElectionOK' /\ TermOK' /\ LogOK' /\ LeaderOK' /\ StartOK' /\ NotifyOK'
      /\ RestartOK' /\ RVOK' /\ ISOK' /\ Slices' /\ ISCallers'
  BY Unchanged DEF AEApply, logVars, leaderVars, electionVars
<1>2. AEOK' /\ AECallers'
  <2>1. [c.reply EXCEPT !.success = TRUE] \in AEReply
    BY <1>0 DEF AEReply
  <2>2. next \in AECall /\ next.src = c.src /\ next.live = c.live /\ next.st # "commit"
    BY <1>0, <2>1, SaveType DEF AECall
  <2>3. aeCalls' = AEDone(c, next) /\ UNCHANGED nextIndex
    BY DEF AEApply, leaderVars
  <2> HIDE DEF next
  <2> QED
    BY <2>2, <2>3, AEDoneType
<1>3. DiskOK'
  BY <1>0, LogFacts, PersistType DEF AEApply, TypeInv
<1>4. CommitOK'
  <2>1. CASE from < to
    <3>1. pre \in Nat /\ TrueIndex(i, c.aft) \in Nat
      BY <1>0, TrueIndexType DEF PreBound
    <3>2. /\ Len(log[i]) \in Nat /\ lastIndexInSnapshot[i] \in Nat
      BY <1>0, LogFacts
    <3> HIDE DEF pre, i
    <3>3. /\ from \in Nat /\ lastIndexInSnapshot[i] <= from
          /\ pre + lastIndexInSnapshot[i] <= from
      BY <1>0, <3>1, <3>2 DEF CommitFrom, NameIndex
    <3>4. to \in Nat /\ to <= LastLogIndex(i)
      <4> HIDE DEF from
      <4> QED
        BY <2>1, <3>1, <3>2, <3>3 DEF NameIndex, LastLogIndex, AftBound, pre, i
    <3>5. Deliver(i, from, to)
      BY <2>1 DEF AEApply, i, pre
    <3> HIDE DEF from, to
    <3> QED
      BY <1>0, <2>1, <3>3, <3>4, <3>5, DeliverType
  <2>2. CASE ~(from < to)
    BY <2>2, Unchanged DEF AEApply
  <2> QED
    BY <2>1, <2>2
<1> QED
  BY <1>1, <1>2, <1>3, <1>4 DEF TypeInv

\* Writing entries into rf.log leaves a log of entries.
LEMMA OverwriteType ==
  ASSUME NEW entries \in Seq(Entry), NEW new \in Seq(Entry), NEW start \in 1..Len(entries)
  PROVE  /\ Overwrite(entries, start, new) \in Seq(Entry)
         /\ Len(Overwrite(entries, start, new)) >= start + Len(new)
         /\ Len(Overwrite(entries, start, new)) >= Len(entries)
<1> DEFINE n == IF start + Len(new) > Len(entries) THEN start + Len(new) ELSE Len(entries)
<1>1. n \in Nat /\ n >= start + Len(new) /\ n >= Len(entries)
  OBVIOUS
<1>2. ASSUME NEW k \in 1..n
      PROVE  (IF k > start /\ k <= start + Len(new) THEN new[k - start] ELSE entries[k])
               \in Entry
  <2>1. CASE k > start /\ k <= start + Len(new)
    <3>1. k - start \in 1..Len(new)
      BY <2>1
    <3> QED
      BY <2>1, <3>1
  <2>2. CASE ~(k > start /\ k <= start + Len(new))
    <3>1. k \in 1..Len(entries)
      BY <2>2
    <3> QED
      BY <2>2, <3>1
  <2> QED
    BY <2>1, <2>2
<1>3. Overwrite(entries, start, new) =
        [k \in 1..n |-> IF k > start /\ k <= start + Len(new) THEN new[k - start]
                        ELSE entries[k]]
  BY DEF Overwrite
<1> HIDE DEF n
<1>4. Overwrite(entries, start, new) \in [1..n -> Entry]
  BY <1>2, <1>3
<1> QED
  BY <1>1, <1>4

\* Truncating rf.log leaves at least one entry.
LEMMA DropStaleType ==
  ASSUME NEW entries \in Seq(Entry), entries # << >>, NEW end \in Nat, end >= 1
  PROVE  DropStale(entries, end) \in Seq(Entry) \ {<< >>}
<1>1. CASE end < Len(entries) - 1
  <2>1. \A k \in 1..end : entries[k] \in Entry
    BY <1>1
  <2>2. SubSeq(entries, 1, end) \in Seq(Entry) /\ Len(SubSeq(entries, 1, end)) = end
    BY <2>1, SubSeqProperties
  <2>3. SubSeq(entries, 1, end) # << >>
    BY <2>2
  <2> QED
    BY <2>2, <2>3 DEF DropStale
<1>2. CASE ~(end < Len(entries) - 1)
  BY <1>2 DEF DropStale
<1> QED
  BY <1>1, <1>2

\* AppendEntry's new log is a log of entries.
LEMMA AppendedType ==
  ASSUME LogOK, NEW i \in Server, NEW a \in AEArgs
  PROVE  Appended(i, a) \in Seq(Entry) \ {<< >>}
<1> DEFINE start == TrueIndex(i, a.prevLogIndex + 1)
<1>0. a.entries \in Seq(Entry) /\ a.prevLogIndex + 1 \in Nat
  BY DEF AEArgs
<1>1. log[i] \in Seq(Entry) /\ log[i] # << >> /\ Len(log[i]) \in Nat /\ start \in Nat
  BY <1>0, LogFacts, TrueIndexType DEF LogOK
<1> DEFINE new == Overwrite(log[i], start, a.entries)
<1>2. CASE start < 1 \/ start > Len(log[i])
  BY <1>1, <1>2 DEF Appended
<1>3. CASE ~(start < 1 \/ start > Len(log[i]))
  <2>1. start \in 1..Len(log[i])
    BY <1>1, <1>3
  <2> HIDE DEF start
  <2>2. new \in Seq(Entry) /\ Len(new) >= start + Len(a.entries)
    BY <1>0, <1>1, <2>1, OverwriteType
  <2> HIDE DEF new
  <2>3. new # << >> /\ start + Len(a.entries) \in Nat /\ start + Len(a.entries) >= 1
    BY <1>0, <1>1, <2>1, <2>2
  <2>4. DropStale(new, start + Len(a.entries)) \in Seq(Entry) \ {<< >>}
    BY <2>2, <2>3, DropStaleType
  <2>5. DropStale(log[i], start) \in Seq(Entry) \ {<< >>}
    <3>1. start \in Nat /\ start >= 1
      BY <1>1, <2>1
    <3> QED
      BY <1>1, <3>1, DropStaleType
  <2>6. Appended(i, a) \in {DropStale(new, start + Len(a.entries)), DropStale(log[i], start)}
    BY <1>3 DEF Appended, start, new
  <2> QED
    BY <2>4, <2>5, <2>6
<1> QED
  BY <1>2, <1>3

\* Types are kept by AppendEntry's writing of the log.
LEMMA AEAppendType ==
  ASSUME TypeInv, NEW c \in aeCalls, AEAppend(c)
  PROVE  TypeInv'
<1> DEFINE i == c.dst
           next == [c EXCEPT !.st = "reply", !.reply.success = TRUE, !.save = SaveDue(i)]
           newLog == Appended(i, c.args)
<1>0. /\ c \in AECall /\ i \in Server /\ c.reply \in AEReply /\ currentTerm[i] \in Nat
      /\ newLog \in Seq(Entry) \ {<< >>}
  BY AEHave, AppendedType DEF TypeInv, AEOK, TermOK
<1>1. /\ ElectionOK' /\ TermOK' /\ CommitOK' /\ LeaderOK' /\ StartOK' /\ NotifyOK'
      /\ RestartOK' /\ RVOK' /\ ISOK' /\ Slices' /\ ISCallers'
  BY Unchanged DEF AEAppend, leaderVars, electionVars
<1>2. AEOK' /\ AECallers'
  <2>1. [c.reply EXCEPT !.success = TRUE] \in AEReply
    BY <1>0 DEF AEReply
  <2>2. next \in AECall /\ next.src = c.src /\ next.live = c.live /\ next.st # "commit"
    BY <1>0, <2>1, SaveType DEF AECall
  <2>3. aeCalls' = AEDone(c, next) /\ UNCHANGED nextIndex
    BY DEF AEAppend, leaderVars
  <2> HIDE DEF next
  <2> QED
    BY <2>2, <2>3, AEDoneType
<1> HIDE DEF newLog
<1>3. /\ log' = [log EXCEPT ![i] = newLog] /\ PersistBegins(i, currentTerm[i], newLog)
      /\ UNCHANGED <<lastIndexInSnapshot, lastTermInSnapshot, snapshot>>
  BY DEF AEAppend, newLog
<1>4. LogOK'
  BY <1>0, <1>3 DEF TypeInv, LogOK
<1>5. DiskOK'
  BY <1>0, <1>3, PersistType DEF TypeInv
<1> QED
  BY <1>1, <1>2, <1>4, <1>5 DEF TypeInv

-----------------------------------------------------------------------------
(* The leader and its goroutines.                                          *)

\* Types are kept by the leader's term timer.
LEMMA LeaderTermTimeoutType ==
  ASSUME TypeInv, NEW i \in Server, LeaderTermTimeout(i)
  PROVE  TypeInv'
<1>1. /\ LogOK' /\ CommitOK' /\ LeaderOK' /\ StartOK' /\ RestartOK' /\ RVOK'
      /\ AEOK' /\ ISOK' /\ AECallers' /\ ISCallers'
  BY Unchanged DEF LeaderTermTimeout, logVars, leaderVars
<1>2. ElectionOK' /\ TermOK'
  BY SaveType DEF LeaderTermTimeout, TypeInv, ElectionOK, TermOK, Roles
<1>3. NotifyOK'
  BY TokensLeftType DEF LeaderTermTimeout, TypeInv
<1>4. DiskOK'
  <2>1. currentTerm[i] + 1 \in Nat
    BY DEF TypeInv, TermOK
  <2> QED
    BY <2>1, LogFacts, PersistType DEF LeaderTermTimeout, TypeInv
<1>5. Slices'
  BY SlicesKept DEF LeaderTermTimeout, leaderVars, Roles
<1> QED
  BY <1>1, <1>2, <1>3, <1>4, <1>5 DEF TypeInv

\* Types are kept by a token that ends LeaderProcess.
LEMMA LeaderNotifiedType ==
  ASSUME TypeInv, NEW i \in Server, LeaderNotified(i)
  PROVE  TypeInv'
<1>1. /\ TermOK' /\ LogOK' /\ CommitOK' /\ LeaderOK' /\ DiskOK' /\ StartOK' /\ RestartOK'
      /\ RVOK' /\ AEOK' /\ ISOK' /\ AECallers' /\ ISCallers'
  BY Unchanged DEF LeaderNotified, logVars, leaderVars
<1>2. ElectionOK'
  BY DEF LeaderNotified, TypeInv, ElectionOK, Roles
<1>3. NotifyOK'
  <2> DEFINE most == IF notify[i] > 3 THEN 2 ELSE notify[i] - 1
  <2>1. most \in Int
    BY DEF TypeInv, NotifyOK
  <2>2. TokensLeft(i, most)
    BY DEF LeaderNotified
  <2> HIDE DEF most
  <2> QED
    BY <2>1, <2>2, TokensLeftType DEF TypeInv
<1>4. Slices'
  BY SlicesKept DEF LeaderNotified, leaderVars, Roles
<1> QED
  BY <1>1, <1>2, <1>3, <1>4 DEF TypeInv

\* The top of the goroutine's loop.
LEMMA LaunchType ==
  ASSUME TypeInv, SlicesStay, NEW others, others \subseteq aeCalls, NEW d, AEMay(d),
         Launch(others, d)
  PROVE  AEOK' /\ AECallers' /\ NotifyOK'
<1> DEFINE new == {d}
<1>1. aeCalls' \subseteq aeCalls \cup new /\ \A e \in new : AEMay(e)
  BY DEF Launch
<1>2. AEOK' /\ AECallers'
  <2> HIDE DEF new
  <2> QED
    BY <1>1, AEReplaced
<1>3. d.src \in Server
  BY DEF AEMay, AECall
<1>4. Notify(d.src, 2) \/ UNCHANGED notify
  BY DEF Launch
<1>5. NotifyOK'
  BY <1>3, <1>4, NotifyType, Unchanged DEF TypeInv
<1> QED
  BY <1>2, <1>5

\* A new goroutine for AppendEntry.
LEMMA NewSenderType ==
  ASSUME TypeInv, NEW i \in Server, NEW j \in Server, nextIndex[i] # NilSlice,
         NEW entries \in Seq(Entry), TrueIndex(i, nextIndex[i][j] - 1) < Len(log[i])
  PROVE  /\ AEMay(NewSender(i, j, entries)) /\ NewSender(i, j, entries).live
         /\ NewSender(i, j, entries).src = i /\ NewSender(i, j, entries).st = "net"
         /\ NewSender(i, j, entries).dst = j
         /\ NewSender(i, j, entries).prev = nextIndex[i][j] - 1
<1> DEFINE prev == nextIndex[i][j] - 1
           t == At(i, TrueIndex(i, prev)).term
           args == [term |-> currentTerm[i], prevLogIndex |-> prev, prevLogTerm |-> t,
                    entries |-> entries, leaderCommit |-> commitIndex[i]]
<1>1. prev \in Nat
  <2>1. nextIndex[i] \in [Server -> Nat \ {0}]
    BY DEF TypeInv, LeaderOK
  <2> QED
    BY <2>1
<1>2. t \in Nat
  BY <1>1, TrueIndexType, AtType DEF TypeInv
<1>3. currentTerm[i] \in Nat /\ commitIndex[i] \in Nat /\ termList[i] \in TermList
  BY DEF TypeInv, TermOK, CommitOK, LeaderOK
<1> HIDE DEF prev, t
<1>4. args \in AEArgs
  BY <1>1, <1>2, <1>3 DEF AEArgs
<1> HIDE DEF args
<1>5. NewSender(i, j, entries) =
        [src |-> i, dst |-> j, args |-> args, appEnTerm |-> currentTerm[i], prev |-> prev,
         termList |-> termList[i], st |-> "net", save |-> NoSave, pre |-> 0, aft |-> 0,
         upTo |-> 0, reply |-> NoReply, tries |-> 0, live |-> TRUE]
  BY DEF NewSender, args, prev, t
<1>6. NewSender(i, j, entries) \in AECall
  BY <1>1, <1>3, <1>4, <1>5, NoReplyType, SaveType DEF AECall
<1> QED
  BY <1>5, <1>6 DEF AEMay, prev

\* Types are kept by one AppendEntry of a distribution.
LEMMA LeaderSendType ==
  ASSUME TypeInv, NEW i \in Server, NEW j \in Server, LeaderSend(i, j)
  PROVE  TypeInv'
<1> DEFINE next == nextIndex[i][j]
           entries == IF next <= LastLogIndex(i) THEN LogFrom(i, TrueIndex(i, next)) ELSE << >>
<1>1. /\ ElectionOK' /\ TermOK' /\ LogOK' /\ CommitOK' /\ LeaderOK' /\ DiskOK' /\ StartOK'
      /\ RestartOK' /\ RVOK' /\ ISOK' /\ Slices' /\ ISCallers'
  BY Unchanged DEF LeaderSend, peerVars, logVars, leaderVars, electionVars
<1>2. nextIndex[i] # NilSlice /\ next \in Nat
  BY DEF LeaderSend, MaySend, TypeInv, Slices, LeaderOK
<1>3. entries \in Seq(Entry)
  <2>1. LogFrom(i, TrueIndex(i, next)) \in Seq(Entry)
    BY <1>2, TrueIndexType, LogFromType DEF TypeInv
  <2> QED
    BY <2>1
<1> HIDE DEF entries
<1>4. AEMay(NewSender(i, j, entries))
  BY <1>2, <1>3, NewSenderType DEF LeaderSend
<1>5. SlicesStay
  BY DEF LeaderSend, SlicesStay, peerVars, leaderVars, NilSlice
<1>6. Launch(aeCalls, NewSender(i, j, entries))
  BY DEF LeaderSend, entries
<1>7. AEOK' /\ AECallers' /\ NotifyOK'
  BY <1>4, <1>5, <1>6, LaunchType
<1> QED
  BY <1>1, <1>7 DEF TypeInv

\* A goroutine that calls sendSnapShot.
LEMMA NewISCallType ==
  ASSUME TypeInv, NEW c, AEMay(c), c.live, c.st # "commit", NEW inLoop \in BOOLEAN,
         inLoop => c.prev < lastIndexInSnapshot[c.src]
  PROVE  ISMay(NewISCall(c, inLoop))
<1>1. /\ c \in AECall /\ c.src \in Server /\ c.dst \in Server
      /\ currentTerm[c.src] \in Nat /\ lastIndexInSnapshot[c.src] \in Nat
      /\ lastTermInSnapshot[c.src] \in Nat /\ snapshot[c.src] \in Snapshot
  BY DEF AEMay, AECall, TypeInv, TermOK, LogOK, DiskOK
<1>2. NewISCall(c, inLoop) \in ISCall
  BY <1>1 DEF NewISCall, ISCall
<1>3. /\ NewISCall(c, inLoop).src = c.src /\ NewISCall(c, inLoop).sender = c
      /\ NewISCall(c, inLoop).inLoop = inLoop
  BY DEF NewISCall
<1> QED
  BY <1>2, <1>3 DEF ISMay, AEMay

\* Types are kept by sendSnapShot called by LeaderProcess.
LEMMA LeaderSendSnapshotType ==
  ASSUME TypeInv, NEW i \in Server, NEW j \in Server, LeaderSendSnapshot(i, j)
  PROVE  TypeInv'
<1> DEFINE c == NewSender(i, j, << >>)
<1>1. /\ TermOK' /\ LogOK' /\ CommitOK' /\ LeaderOK' /\ DiskOK' /\ StartOK' /\ NotifyOK'
      /\ RestartOK' /\ RVOK' /\ AEOK' /\ AECallers'
  BY Unchanged DEF LeaderSendSnapshot, leaderVars
<1>2. ElectionOK'
  BY DEF LeaderSendSnapshot, TypeInv, ElectionOK, Roles
<1>3. nextIndex[i] # NilSlice /\ nextIndex[i] \in [Server -> Nat \ {0}]
  BY DEF LeaderSendSnapshot, MaySend, TypeInv, Slices, LeaderOK
<1>4. Slices'
  BY <1>3 DEF LeaderSendSnapshot, leaderVars, TypeInv, Slices, ElectionOK, NilSlice
<1>5. ISOK' /\ ISCallers'
  <2>1. nextIndex[i][j] - 1 < lastIndexInSnapshot[i] /\ nextIndex[i][j] - 1 \in Nat
    BY <1>3, LogFacts DEF LeaderSendSnapshot, TypeInv
  <2>2. TrueIndex(i, nextIndex[i][j] - 1) < Len(log[i])
    BY <2>1, LogFacts DEF TrueIndex, TypeInv
  <2>3. /\ AEMay(c) /\ c.live /\ c.src = i /\ c.st # "commit"
        /\ c.prev < lastIndexInSnapshot[c.src]
    <3>1. << >> \in Seq(Entry)
      OBVIOUS
    <3> QED
      BY <1>3, <2>1, <2>2, <3>1, NewSenderType
  <2> DEFINE new == {NewISCall(c, TRUE)}
  <2>4. \A d \in new : ISMay(d)
    <3> HIDE DEF c
    <3> QED
      BY <2>3, NewISCallType
  <2>5. /\ SlicesStay /\ isCalls' \subseteq isCalls \cup new
        /\ \A k \in Server : lastIndexInSnapshot'[k] \in Nat
                               /\ lastIndexInSnapshot[k] <= lastIndexInSnapshot'[k]
    BY DEF LeaderSendSnapshot, SlicesStay, leaderVars, logVars, NilSlice, TypeInv, LogOK
  <2> HIDE DEF new
  <2> QED
    BY <2>4, <2>5, ISReplaced
<1> QED
  BY <1>1, <1>2, <1>4, <1>5 DEF TypeInv

\* Types are kept by a lost AppendEntry.
LEMMA AEFailType ==
  ASSUME TypeInv, NEW c \in aeCalls, AEFail(c)
  PROVE  TypeInv'
<1> DEFINE d == [c EXCEPT !.st = "net", !.save = NoSave, !.pre = 0, !.aft = 0,
                          !.tries = @ + 1, !.reply = NoReply]
           o == [c EXCEPT !.live = FALSE, !.tries = AETries]
           others == (aeCalls \ {c}) \cup (IF AEServing(c) THEN {o} ELSE {})
           new == {d, o}
<1>0. c \in AECall /\ c.tries + 1 \in Nat /\ AETries \in Nat /\ c.st # "commit"
  BY AEHave, BoundAssumption DEF AEMay, AECall, AEFail
<1>1. /\ ElectionOK' /\ TermOK' /\ LogOK' /\ CommitOK' /\ LeaderOK' /\ DiskOK' /\ StartOK'
      /\ RestartOK' /\ RVOK' /\ ISOK' /\ Slices' /\ ISCallers'
  BY Unchanged DEF AEFail, peerVars, logVars, leaderVars, electionVars
<1>2. AEMay(d) /\ d.src = c.src
  <2>1. d \in AECall /\ d.src = c.src /\ d.live = c.live /\ d.st = "net"
    BY <1>0, NoReplyType, SaveType DEF AECall
  <2> HIDE DEF d
  <2> QED
    BY <2>1, AEHave DEF AEMay
<1>3. AEMay(o)
  <2>1. o \in AECall /\ ~o.live /\ o.st = c.st
    BY <1>0 DEF AECall
  <2> HIDE DEF o
  <2> QED
    BY <1>0, <2>1 DEF AEMay
<1>4. SlicesStay
  BY DEF AEFail, SlicesStay, peerVars, leaderVars, NilSlice
<1>5. Launch(others, d)
  BY DEF AEFail
<1> HIDE DEF d, o
<1>6. AEOK' /\ AECallers'
  <2>1. aeCalls' \subseteq aeCalls \cup new /\ \A e \in new : AEMay(e)
    BY <1>2, <1>3, <1>5 DEF Launch
  <2> HIDE DEF new
  <2> QED
    BY <1>4, <2>1, AEReplaced
<1>7. NotifyOK'
  <2>1. Notify(d.src, 2) \/ UNCHANGED notify
    BY <1>5 DEF Launch
  <2>2. d.src \in Server
    BY <1>2, AEHave
  <2> QED
    BY <2>1, <2>2, NotifyType, Unchanged DEF TypeInv
<1> QED
  BY <1>1, <1>6, <1>7 DEF TypeInv

\* Types are kept by the reply to a heartbeat.
LEMMA AEHeartbeatType ==
  ASSUME TypeInv, NEW c \in aeCalls, AEHeartbeat(c)
  PROVE  TypeInv'
<1>1. /\ ElectionOK' /\ TermOK' /\ LogOK' /\ CommitOK' /\ LeaderOK' /\ DiskOK' /\ StartOK'
      /\ NotifyOK' /\ RestartOK' /\ RVOK' /\ ISOK' /\ Slices' /\ ISCallers'
  BY Unchanged DEF AEHeartbeat, peerVars, logVars, leaderVars, electionVars
<1>2. AEOK' /\ AECallers'
  BY DEF AEHeartbeat, TypeInv, AEOK, AECallers, peerVars, leaderVars, NilSlice
<1> QED
  BY <1>1, <1>2 DEF TypeInv

\* A live goroutine's peer has both slices.
LEMMA Made ==
  ASSUME TypeInv, NEW i \in Server, nextIndex[i] # NilSlice
  PROVE  nextIndex[i] \in [Server -> Nat \ {0}] /\ matchIndex[i] \in [Server -> Nat]
BY DEF TypeInv, LeaderOK, Slices

\* Storing a position in the slices keeps them made.
LEMMA SlicesStored ==
  ASSUME TypeInv, NEW i \in Server, nextIndex[i] # NilSlice,
         NEW next \in [Server -> Nat \ {0}], NEW match \in [Server -> Nat],
         nextIndex' = [nextIndex EXCEPT ![i] = next],
         matchIndex' = [matchIndex EXCEPT ![i] = match],
         UNCHANGED termList
  PROVE  LeaderOK' /\ SlicesStay /\ (role' = role => Slices')
<1>1. next # NilSlice /\ match # NilSlice
  BY MadeNotNil
<1>2. LeaderOK'
  BY DEF TypeInv, LeaderOK
<1>3. SlicesStay
  BY <1>1 DEF TypeInv, LeaderOK, SlicesStay
<1>4. ASSUME role' = role PROVE Slices'
  BY <1>1, <1>4 DEF TypeInv, LeaderOK, Slices
<1> QED
  BY <1>2, <1>3, <1>4

\* The positions computed from a successful reply.
LEMMA NextAfterType ==
  ASSUME TypeInv, NEW c \in aeCalls, c.live
  PROVE  NextAfter(c) \in Nat \ {0} /\ MatchAfter(c) \in Nat
<1>1. nextIndex[c.src][c.dst] \in Nat \ {0}
  BY AEHave, Made DEF AEMay
<1>2. /\ c.args.prevLogIndex \in Nat /\ Len(c.args.entries) \in Nat
      /\ c.reply.commitIndex \in Nat
  BY AEHave DEF AEArgs, AEReply
<1> DEFINE sent == c.args.prevLogIndex + Len(c.args.entries) + 1
           next == nextIndex[c.src][c.dst]
<1>3. NextAfter(c) = IF c.reply.commitIndex # 0 THEN c.reply.commitIndex + 1
                     ELSE IF next < sent THEN sent ELSE next
  BY DEF NextAfter
<1>4. sent \in Nat \ {0} /\ c.reply.commitIndex + 1 \in Nat \ {0}
  BY <1>2
<1> HIDE DEF sent, next
<1>5. NextAfter(c) \in Nat \ {0}
  BY <1>1, <1>3, <1>4 DEF next
<1> QED
  BY <1>5 DEF MatchAfter

\* The position that half of the peers have reached.
LEMMA MedianMatchType ==
  ASSUME NEW match \in [Server -> Nat]
  PROVE  MedianMatch(match) \in Nat
<1> DEFINE n == Cardinality(Server)
           Reached(m) == {j \in Server : match[j] >= m}
           S == {match[j] : j \in Server} \cap
                  {m \in Nat : Cardinality(Reached(m)) >= n - n \div 2}
<1>1. n \in Nat
  BY ServerAssumption, FS_CardinalityType
<1>2. PICK b \in Nat : \A j \in Server : match[j] <= b
  BY ServerAssumption, FiniteImageBounded
<1>3. S \subseteq Nat /\ \A s \in S : s <= b
  BY <1>2
<1>4. S # {}
  <2> DEFINE T == {match[j] : j \in Server}
  <2>1. T \subseteq Nat /\ T # {}
    BY ServerAssumption
  <2>2. PICK m \in T : \A k \in T : m <= k
    <3> HIDE DEF T
    <3> QED
      BY <2>1, LeastNat
  <2>3. Reached(m) = Server
    BY <2>2
  <2>4. Cardinality(Reached(m)) >= n - n \div 2
    <3>1. Cardinality(Reached(m)) = n
      BY <2>3
    <3> HIDE DEF n, Reached
    <3> QED
      BY <1>1, <3>1
  <2> QED
    BY <2>1, <2>4
<1> HIDE DEF S
<1>5. Max(S) \in S
  BY <1>3, <1>4, MaxOfBounded
<1>6. MedianMatch(match) = Max(S)
  BY DEF MedianMatch, S
<1> QED
  BY <1>3, <1>5, <1>6

\* The next request to a follower that is still behind.
LEMMA FollowUpType ==
  ASSUME TypeInv, NEW c \in aeCalls, c.live, TrueIndex(c.src, MatchAfter(c)) < Len(log[c.src]),
         c.reply.commitIndex # 0 => MatchAfter(c) < LastLogIndex(c.src)
  PROVE  AEMay(FollowUp(c))
<1> DEFINE i == c.src
           k == TrueIndex(i, MatchAfter(c))
           entries == IF c.reply.commitIndex = 0 THEN LogFrom(i, k + 1)
                      ELSE IF k > 0 THEN <<At(i, k + 1)>> ELSE << >>
           args == [term |-> currentTerm[i], prevLogIndex |-> MatchAfter(c),
                    prevLogTerm |-> At(i, k).term, entries |-> entries,
                    leaderCommit |-> commitIndex[i]]
<1>0. c \in AECall /\ i \in Server /\ MatchAfter(c) \in Nat /\ LogOK
  BY AEHave, NextAfterType DEF AEMay, TypeInv
<1>1. k \in Nat /\ k < Len(log[i]) /\ At(i, k).term \in Nat
  BY <1>0, TrueIndexType, AtType
<1>2. currentTerm[i] \in Nat /\ commitIndex[i] \in Nat
  BY <1>0 DEF TypeInv, TermOK, CommitOK
<1>3. entries \in Seq(Entry)
  <2>1. LogFrom(i, k + 1) \in Seq(Entry)
    BY <1>0, <1>1, LogFromType
  <2>2. ASSUME c.reply.commitIndex # 0, k > 0 PROVE At(i, k + 1) \in Entry
    <3>1. k + 1 < Len(log[i])
      <4>1. MatchAfter(c) < lastIndexInSnapshot[i] + Len(log[i]) - 1
        BY <2>2 DEF LastLogIndex
      <4>2. lastIndexInSnapshot[i] \in Nat /\ Len(log[i]) \in Nat \ {0}
        BY <1>0, LogFacts
      <4>3. CASE MatchAfter(c) < lastIndexInSnapshot[i]
        BY <2>2, <4>3 DEF TrueIndex
      <4>4. CASE ~(MatchAfter(c) < lastIndexInSnapshot[i])
        <5>1. k = MatchAfter(c) - lastIndexInSnapshot[i]
          BY <4>4 DEF TrueIndex
        <5> QED
          BY <1>0, <4>1, <4>2, <5>1
      <4> QED
        BY <4>3, <4>4
    <3> QED
      BY <1>0, <1>1, <3>1, AtType
  <2> HIDE DEF k, i
  <2> QED
    BY <2>1, <2>2
<1> HIDE DEF entries, k
<1>4. args \in AEArgs
  BY <1>0, <1>1, <1>2, <1>3 DEF AEArgs
<1> HIDE DEF args
<1>5. FollowUp(c) = [c EXCEPT !.st = "net", !.reply = NoReply,
                              !.appEnTerm = currentTerm[i], !.args = args]
  BY DEF FollowUp, args, entries, k
<1>6. /\ FollowUp(c) \in AECall /\ FollowUp(c).src = c.src /\ FollowUp(c).live = c.live
      /\ FollowUp(c).st = "net"
  BY <1>0, <1>2, <1>4, <1>5, NoReplyType DEF AECall
<1> QED
  BY <1>6, AEHave DEF AEMay

\* Types are kept by the reply to accepted entries.
LEMMA AESuccessType ==
  ASSUME TypeInv, NEW c \in aeCalls, AESuccess(c)
  PROVE  TypeInv'
<1> DEFINE i == c.src
           next == [nextIndex[i] EXCEPT ![c.dst] = NextAfter(c)]
           match == [matchIndex[i] EXCEPT ![c.dst] = MatchAfter(c)]
           upTo == MedianMatch(match)
           commit == [c EXCEPT !.st = "commit", !.upTo = upTo]
<1>0. /\ c \in AECall /\ i \in Server /\ c.dst \in Server /\ c.live
      /\ nextIndex[i] # NilSlice /\ NextAfter(c) \in Nat \ {0} /\ MatchAfter(c) \in Nat
      /\ ~FollowUpPanics(c) /\ Replied(c, TRUE) /\ c.args.entries # << >>
  BY AEHave, NextAfterType DEF AESuccess, Replied, AEMay
<1>1. /\ ElectionOK' /\ TermOK' /\ LogOK' /\ CommitOK' /\ DiskOK' /\ StartOK'
      /\ RestartOK' /\ RVOK' /\ ISOK' /\ role' = role /\ UNCHANGED <<isCalls, lastIndexInSnapshot>>
  BY Unchanged DEF AESuccess, electionVars, logVars
<1>2. next \in [Server -> Nat \ {0}] /\ match \in [Server -> Nat]
  BY <1>0, Made
<1>3. LeaderOK' /\ SlicesStay /\ Slices'
  <2>1. /\ nextIndex' = [nextIndex EXCEPT ![i] = next]
        /\ matchIndex' = [matchIndex EXCEPT ![i] = match] /\ UNCHANGED termList
    BY DEF AESuccess
  <2> HIDE DEF next, match
  <2> QED
    BY <1>0, <1>1, <1>2, <2>1, SlicesStored
<1>4. ISCallers'
  <2> DEFINE new == {}
  <2>1. /\ isCalls' \subseteq isCalls \cup new /\ \A d \in new : ISMay(d)
        /\ \A j \in Server : lastIndexInSnapshot'[j] \in Nat
                               /\ lastIndexInSnapshot[j] <= lastIndexInSnapshot'[j]
    BY <1>1 DEF TypeInv, LogOK
  <2> HIDE DEF new
  <2> QED
    BY <1>3, <2>1, ISReplaced
<1>5. AEMay(commit)
  <2>1. upTo \in Nat
    BY <1>2, MedianMatchType
  <2> HIDE DEF upTo
  <2>2. commit \in AECall /\ commit.src = c.src /\ commit.live = c.live
    BY <1>0, <2>1 DEF AECall
  <2> HIDE DEF commit
  <2> QED
    BY <1>0, <2>2 DEF AEMay
<1>6. CASE Behind(c) /\ ~(c.reply.commitIndex # 0 /\ MatchAfter(c) >= LastLogIndex(i))
  <2>1. Launch(aeCalls \ {c}, FollowUp(c))
    BY <1>6 DEF AESuccess
  <2>2. AEMay(FollowUp(c))
    <3>1. LastLogIndex(i) \in Nat /\ Len(log[i]) \in Nat /\ TrueIndex(i, MatchAfter(c)) \in Nat
      BY <1>0, LogFacts, TrueIndexType DEF TypeInv
    <3>2. CASE c.reply.commitIndex = 0
      <4>1. TrueIndex(i, MatchAfter(c)) < Len(log[i])
        <5>1. ~(TrueIndex(i, MatchAfter(c)) >= Len(log[i]))
          BY <1>0, <1>6, <3>2 DEF FollowUpPanics
        <5> QED
          BY <3>1, <5>1
      <4> QED
        BY <1>0, <3>2, <4>1, FollowUpType
    <3>3. CASE c.reply.commitIndex # 0
      <4>1. MatchAfter(c) < LastLogIndex(i)
        BY <1>0, <1>6, <3>1, <3>3
      <4>2. TrueIndex(i, MatchAfter(c)) < Len(log[i])
        <5>1. MatchAfter(c) <= LastLogIndex(i)
          BY <1>0, <3>1, <4>1
        <5> QED
          BY <1>0, <5>1, TrueIndexType DEF TypeInv
      <4> QED
        BY <1>0, <4>1, <4>2, FollowUpType
    <3> QED
      BY <3>2, <3>3
  <2>3. AEOK' /\ AECallers' /\ NotifyOK'
    BY <1>3, <2>1, <2>2, LaunchType
  <2> QED
    BY <1>1, <1>3, <1>4, <2>3 DEF TypeInv
<1>7. CASE ~(Behind(c) /\ ~(c.reply.commitIndex # 0 /\ MatchAfter(c) >= LastLogIndex(i)))
  <2> DEFINE new == {commit}
  <2>1. aeCalls' \subseteq aeCalls \cup new /\ UNCHANGED notify
    BY <1>7 DEF AESuccess
  <2>2. \A d \in new : AEMay(d)
    BY <1>5
  <2>3. NotifyOK'
    BY <2>1, Unchanged
  <2> HIDE DEF new, commit
  <2>4. AEOK' /\ AECallers'
    BY <1>3, <2>1, <2>2, AEReplaced
  <2> QED
    BY <1>1, <1>3, <1>4, <2>3, <2>4 DEF TypeInv
<1> QED
  BY <1>6, <1>7

\* Types are kept by the commit loop of a reply.
LEMMA AECommitType ==
  ASSUME TypeInv, NEW c \in aeCalls, AECommit(c)
  PROVE  TypeInv'
<1> DEFINE i == c.src
           from == commitIndex[i]
           to == CommitEnd(c)
           commits == leaderNum[i] = i /\ from >= lastIndexInSnapshot[i] /\ from < to
           own == IF leaderNum[i] = i /\ commitIndex'[i] > nextIndex[i][i]
                    THEN commitIndex'[i] ELSE nextIndex[i][i]
           next == [nextIndex[i] EXCEPT ![i] = own]
<1>0. i \in Server /\ nextIndex[i] # NilSlice /\ c.upTo \in Nat /\ from \in Nat
  BY AEHave DEF AECommit, AEMay, AECall, TypeInv, CommitOK
<1>1. /\ ElectionOK' /\ TermOK' /\ LogOK' /\ DiskOK' /\ StartOK' /\ NotifyOK'
      /\ RestartOK' /\ RVOK' /\ ISOK' /\ role' = role /\ UNCHANGED <<isCalls, lastIndexInSnapshot>>
  BY Unchanged DEF AECommit, electionVars, logVars
<1>2. CommitOK'
  <2>1. CASE commits
    <3>1. to \in Nat /\ to <= LastLogIndex(i)
      BY <1>0, LogFacts DEF CommitEnd, TypeInv
    <3>2. Deliver(i, from, to) /\ from < to /\ lastIndexInSnapshot[i] <= from
      BY <1>0, <2>1, LogFacts DEF AECommit, TypeInv
    <3> HIDE DEF to
    <3> QED
      BY <1>0, <3>1, <3>2, DeliverType
  <2>2. CASE ~commits
    BY <2>2, Unchanged DEF AECommit
  <2> QED
    BY <2>1, <2>2
<1>3. LeaderOK' /\ SlicesStay /\ Slices'
  <2>1. nextIndex[i] \in [Server -> Nat \ {0}] /\ matchIndex[i] \in [Server -> Nat]
    BY <1>0, Made
  <2>2. commitIndex'[i] \in Nat
    BY <1>0, <1>2 DEF CommitOK
  <2>3. own \in Nat \ {0}
    BY <1>0, <2>1, <2>2
  <2>4. next \in [Server -> Nat \ {0}]
    <3> HIDE DEF own
    <3> QED
      BY <2>1, <2>3
  <2>5. /\ nextIndex' = [nextIndex EXCEPT ![i] = next]
        /\ matchIndex' = [matchIndex EXCEPT ![i] = matchIndex[i]] /\ UNCHANGED termList
    BY DEF AECommit, TypeInv, LeaderOK
  <2> HIDE DEF next
  <2> QED
    BY <1>0, <1>1, <2>1, <2>4, <2>5, SlicesStored
<1>4. ISCallers'
  <2> DEFINE new == {}
  <2>1. /\ isCalls' \subseteq isCalls \cup new /\ \A d \in new : ISMay(d)
        /\ \A j \in Server : lastIndexInSnapshot'[j] \in Nat
                               /\ lastIndexInSnapshot[j] <= lastIndexInSnapshot'[j]
    BY <1>1 DEF TypeInv, LogOK
  <2> HIDE DEF new
  <2> QED
    BY <1>3, <2>1, ISReplaced
<1>5. AEOK' /\ AECallers'
  <2> DEFINE new == {}
  <2>1. aeCalls' \subseteq aeCalls \cup new /\ \A d \in new : AEMay(d)
    BY DEF AECommit
  <2> HIDE DEF new
  <2> QED
    BY <1>3, <2>1, AEReplaced
<1> QED
  BY <1>1, <1>2, <1>3, <1>4, <1>5 DEF TypeInv

\* Types are kept by a reply with a newer term.
LEMMA AEDeposedType ==
  ASSUME TypeInv, NEW c \in aeCalls, AEDeposed(c)
  PROVE  TypeInv'
<1>1. /\ ElectionOK' /\ LogOK' /\ CommitOK' /\ LeaderOK' /\ DiskOK' /\ StartOK'
      /\ RestartOK' /\ RVOK' /\ ISOK' /\ Slices' /\ ISCallers'
  BY Unchanged DEF AEDeposed, electionVars, logVars, leaderVars
<1>2. TermOK'
  BY AEHave DEF AEDeposed, TypeInv, TermOK
<1>3. NotifyOK'
  BY AEHave, NotifyType DEF AEDeposed, TypeInv
<1>4. AEOK' /\ AECallers'
  BY DEF AEDeposed, TypeInv, AEOK, AECallers, leaderVars, NilSlice
<1> QED
  BY <1>1, <1>2, <1>3, <1>4 DEF TypeInv

\* The search for a term of the reply, in the list made by LeaderProcess or a new one.
LEMMA BackToType ==
  ASSUME TypeInv, NEW c \in aeCalls
  PROVE  BackTo(c) \in Int
<1> DEFINE r == c.reply
           before == c.args.prevLogIndex - 1
           short == IF r.lastLogIndex # 0 /\ before > r.lastLogIndex THEN r.lastLogIndex
                    ELSE before
           terms == TermsKnown(c)
           known == {k \in 0..(Len(terms) - 1) : terms[k + 1] <= r.termOfPrev}
<1>1. c.src \in Server /\ c.args.prevLogIndex \in Nat /\ r.lastLogIndex \in Nat
  BY AEHave DEF AEArgs, AEReply
<1>2. Len(terms) \in Nat
  <2>1. log[c.src] \in Seq(Entry) /\ Len(log[c.src]) \in Nat
    BY <1>1, LogFacts DEF TypeInv
  <2>2. Len([k \in 1..Len(log[c.src]) |-> log[c.src][k].term]) \in Nat
    BY <2>1
  <2>3. Len(c.termList.terms) \in Nat
    BY AEHave DEF AEMay, AECall, TermList
  <2> QED
    BY <2>2, <2>3 DEF TermsKnown
<1> HIDE DEF terms
<1>3. short \in Int
  BY <1>1
<1>4. ASSUME known # {} PROVE Max(known) \in Int
  <2>1. known \subseteq Nat /\ \A k \in known : k <= Len(terms)
    BY <1>2
  <2> HIDE DEF known
  <2>2. Max(known) \in known
    BY <1>2, <1>4, <2>1, MaxOfBounded
  <2> DEFINE m == Max(known)
  <2>3. m \in known
    BY <2>2
  <2> HIDE DEF m
  <2>4. m \in Int
    BY <2>1, <2>3
  <2> QED
    BY <2>4 DEF m
<1> HIDE DEF short, known
<1>5. BackTo(c) = IF r.termOfPrev # 0 /\ known # {} /\ Max(known) < short
                    THEN Max(known) ELSE short
  BY DEF BackTo, short, known, terms
<1> QED
  BY <1>3, <1>4, <1>5

\* The attempt with one entry.
LEMMA OneEntryType ==
  ASSUME TypeInv, NEW c, AEMay(c), NEW p \in Nat, ~BacksPanics(c.src, p),
         ~GivesUp(c.src, p), currentTerm'[c.src] \in Nat
  PROVE  AEMay(OneEntry(c, p)) /\ OneEntry(c, p).src = c.src
<1> DEFINE i == c.src
           args == [term |-> currentTerm'[i], prevLogIndex |-> p,
                    prevLogTerm |-> At(i, TrueIndex(i, p)).term,
                    entries |-> <<At(i, TrueIndex(i, p + 1))>>, leaderCommit |-> 0]
<1>0. c \in AECall /\ i \in Server /\ LogOK
  BY DEF AEMay, AECall, TypeInv
<1>1. /\ Len(log[i]) \in Nat /\ lastIndexInSnapshot[i] \in Nat
      /\ TrueIndex(i, p) \in Nat /\ TrueIndex(i, p + 1) \in Nat
  <2>1. p + 1 \in Nat
    OBVIOUS
  <2> QED
    BY <1>0, <2>1, LogFacts, TrueIndexType
<1>2. TrueIndex(i, p + 1) < Len(log[i])
  <2>1. ~(TrueIndex(i, p + 1) >= Len(log[i]))
    BY DEF BacksPanics
  <2> QED
    BY <1>1, <2>1
<1>3. TrueIndex(i, p) < Len(log[i])
  <2>1. TrueIndex(i, p) <= TrueIndex(i, p + 1)
    BY <1>1 DEF TrueIndex
  <2> QED
    BY <1>1, <1>2, <2>1
<1>4. At(i, TrueIndex(i, p)).term \in Nat /\ At(i, TrueIndex(i, p + 1)) \in Entry
  BY <1>0, <1>1, <1>2, <1>3, AtType
<1>5. args \in AEArgs
  BY <1>4 DEF AEArgs
<1> HIDE DEF args
<1>6. OneEntry(c, p) = [c EXCEPT !.st = "net", !.reply = NoReply, !.args = args]
  BY DEF OneEntry, args
<1>7. /\ OneEntry(c, p) \in AECall /\ OneEntry(c, p).src = c.src
      /\ OneEntry(c, p).live = c.live /\ OneEntry(c, p).st = "net"
  BY <1>0, <1>5, <1>6, NoReplyType DEF AECall
<1> QED
  BY <1>7 DEF AEMay

\* Types are kept by the reply to rejected entries.
LEMMA AERejectedType ==
  ASSUME TypeInv, NEW c \in aeCalls, AERejected(c)
  PROVE  TypeInv'
<1> DEFINE i == c.src
           prevlog == BackTo(c)
           stale == c.args.prevLogIndex <= matchIndex[i][c.dst]
           next == [nextIndex[i] EXCEPT ![c.dst] = prevlog + 1]
<1>0. /\ AEMay(c) /\ i \in Server /\ c.dst \in Server /\ c.live /\ c.st = "reply"
      /\ nextIndex[i] # NilSlice /\ c.args.prevLogIndex \in Nat
      /\ Rejected(c) /\ ~RejectedPanics(c) /\ UNCHANGED currentTerm
  BY AEHave DEF AERejected, Rejected, Replied, AEMay, AEArgs
<1>1. /\ ElectionOK' /\ TermOK' /\ LogOK' /\ CommitOK' /\ DiskOK' /\ StartOK'
      /\ RestartOK' /\ RVOK' /\ role' = role /\ UNCHANGED lastIndexInSnapshot
  BY Unchanged DEF AERejected, electionVars, logVars, termVars
<1>2. /\ nextIndex[i] \in [Server -> Nat \ {0}] /\ matchIndex[i] \in [Server -> Nat]
      /\ prevlog \in Int /\ lastIndexInSnapshot[i] \in Nat
  BY <1>0, Made, BackToType, LogFacts DEF TypeInv
<1>3. ASSUME ~stale
      PROVE  /\ prevlog \in Nat
             /\ prevlog >= lastIndexInSnapshot[i] => ~BacksPanics(i, prevlog)
  <2>1. c.args.prevLogIndex > matchIndex[i][c.dst]
    BY <1>0, <1>2, <1>3
  <2>2. ~(prevlog < 0) /\ ~(prevlog >= lastIndexInSnapshot[i] /\ BacksPanics(i, prevlog))
    BY <1>0, <2>1 DEF RejectedPanics
  <2> HIDE DEF prevlog
  <2> QED
    BY <1>2, <2>2
<1>4. LeaderOK' /\ SlicesStay /\ Slices'
  <2>0. UNCHANGED <<matchIndex, termList>>
    BY DEF AERejected
  <2>1. CASE stale
    <3>1. UNCHANGED nextIndex
      BY <2>1 DEF AERejected
    <3>2. SlicesStay
      BY <3>1 DEF SlicesStay, NilSlice
    <3> QED
      BY <1>1, <2>0, <3>1, <3>2, Unchanged DEF leaderVars
  <2>2. CASE ~stale
    <3>1. nextIndex' = [nextIndex EXCEPT ![i] = next]
      BY <2>2 DEF AERejected
    <3>2. matchIndex' = [matchIndex EXCEPT ![i] = matchIndex[i]]
      BY <1>0, <2>0 DEF TypeInv, LeaderOK
    <3>3. next \in [Server -> Nat \ {0}]
      <4>1. prevlog + 1 \in Nat \ {0}
        BY <1>3, <2>2
      <4> HIDE DEF prevlog
      <4> QED
        BY <1>2, <4>1
    <3> HIDE DEF next
    <3> QED
      BY <1>0, <1>1, <1>2, <2>0, <3>1, <3>2, <3>3, SlicesStored
  <2> QED
    BY <2>1, <2>2
<1>5. ASSUME NEW new, isCalls' \subseteq isCalls \cup new, \A d \in new : ISMay(d)
      PROVE  ISOK' /\ ISCallers'
  <2>1. \A j \in Server : lastIndexInSnapshot'[j] \in Nat
                            /\ lastIndexInSnapshot[j] <= lastIndexInSnapshot'[j]
    BY <1>1 DEF TypeInv, LogOK
  <2> QED
    BY <1>4, <1>5, <2>1, ISReplaced
<1>6. CASE ~stale /\ prevlog >= lastIndexInSnapshot[i] /\ ~GivesUp(i, prevlog)
  <2>1. Launch(aeCalls \ {c}, OneEntry(c, prevlog)) /\ UNCHANGED isCalls
    <3>1. \/ stale \/ GivesUp(i, prevlog)
          \/ prevlog < lastIndexInSnapshot[i]
          \/ Launch(aeCalls \ {c}, OneEntry(c, prevlog)) /\ UNCHANGED isCalls
      BY Zenon DEF AERejected
    <3>2. ~(prevlog < lastIndexInSnapshot[i])
      <4> HIDE DEF prevlog
      <4> QED
        BY <1>2, <1>6
    <3> QED
      BY <1>6, <3>1, <3>2, Zenon
  <2>2. AEMay(OneEntry(c, prevlog))
    <3>1. currentTerm'[i] \in Nat
      BY <1>0, <1>1 DEF TermOK
    <3> HIDE DEF prevlog
    <3> QED
      BY <1>0, <1>3, <1>6, <3>1, OneEntryType
  <2>3. AEOK' /\ AECallers' /\ NotifyOK'
    <3> HIDE DEF prevlog
    <3> QED
      BY <1>4, <2>1, <2>2, LaunchType
  <2>4. ISOK' /\ ISCallers'
    <3> DEFINE new == {}
    <3>1. isCalls' \subseteq isCalls \cup new /\ \A d \in new : ISMay(d)
      BY <2>1
    <3> HIDE DEF new
    <3> QED
      BY <1>5, <3>1
  <2> QED
    BY <1>1, <1>4, <2>3, <2>4 DEF TypeInv
<1>7. CASE ~(~stale /\ prevlog >= lastIndexInSnapshot[i] /\ ~GivesUp(i, prevlog))
  <2> DEFINE new == {NewISCall(c, FALSE)}
  <2>1. /\ aeCalls' = aeCalls \ {c} /\ UNCHANGED notify
        /\ isCalls' \subseteq isCalls \cup new
    BY <1>7 DEF AERejected
  <2>2. \A d \in new : ISMay(d)
    BY <1>0, NewISCallType
  <2>3. ISOK' /\ ISCallers'
    <3> HIDE DEF new
    <3> QED
      BY <1>5, <2>1, <2>2
  <2>4. NotifyOK'
    BY <2>1, Unchanged
  <2>5. AEOK' /\ AECallers'
    <3> DEFINE none == {}
    <3>1. aeCalls' \subseteq aeCalls \cup none /\ \A d \in none : AEMay(d)
      BY <2>1
    <3> HIDE DEF none
    <3> QED
      BY <1>4, <3>1, AEReplaced
  <2> QED
    BY <1>1, <1>4, <2>3, <2>4, <2>5 DEF TypeInv
<1> QED
  BY <1>6, <1>7

-----------------------------------------------------------------------------
(* Snapshots.                                                              *)

\* Types are kept by TakeSnapshots.
LEMMA TakeSnapshotsType ==
  ASSUME TypeInv, NEW i \in Server, NEW index \in SnapshotAt, TakeSnapshots(i, index)
  PROVE  TypeInv'
<1> DEFINE end == index - 1
           t == At(i, TrueIndex(i, end)).term
           newLog == Truncated(i, end)
<1>0. end \in Nat /\ lastIndexInSnapshot[i] \in Nat /\ end > lastIndexInSnapshot[i]
  <2>1. index \in Nat /\ index - 1 >= 1 /\ end > lastIndexInSnapshot[i]
    BY BoundAssumption DEF TakeSnapshots, SnapshotDue
  <2> QED
    BY <2>1, LogFacts DEF TypeInv
<1>1. /\ ElectionOK' /\ TermOK' /\ CommitOK' /\ LeaderOK' /\ StartOK' /\ NotifyOK'
      /\ RestartOK' /\ RVOK' /\ AEOK' /\ ISOK' /\ Slices' /\ AECallers'
      /\ UNCHANGED <<nextIndex, isCalls>>
  BY Unchanged DEF TakeSnapshots, electionVars, leaderVars
<1>2. TrueIndex(i, end) \in Nat /\ TrueIndex(i, end) < Len(log[i])
  <2>1. ~(TrueIndex(i, end) >= Len(log[i]))
    BY DEF TakeSnapshots, TakeSnapshotsPanics
  <2>2. TrueIndex(i, end) \in Nat /\ Len(log[i]) \in Nat
    BY <1>0, TrueIndexType, LogFacts DEF TypeInv
  <2> QED
    BY <2>1, <2>2
<1>3. t \in Nat /\ newLog \in Seq(Entry) \ {<< >>}
  BY <1>2, AtType, LogFromType DEF Truncated, TypeInv
<1> HIDE DEF t, newLog, end
<1>4. /\ lastTermInSnapshot' = [lastTermInSnapshot EXCEPT ![i] = t]
      /\ lastIndexInSnapshot' = [lastIndexInSnapshot EXCEPT ![i] = end]
      /\ log' = [log EXCEPT ![i] = newLog]
      /\ persisted' = [persisted EXCEPT ![i] = [term |-> currentTerm[i], log |-> newLog]]
      /\ snapshot' = [snapshot EXCEPT ![i] = [index |-> end, term |-> t]]
  BY DEF TakeSnapshots, SaveStateAndSnapshot, SaveRaftState, t, newLog, end
<1>5. LogOK'
  BY <1>0, <1>3, <1>4 DEF TypeInv, LogOK
<1>6. DiskOK'
  <2>1. [term |-> currentTerm[i], log |-> newLog] \in [term : Nat, log : Seq(Entry)]
    BY <1>3 DEF TypeInv, TermOK
  <2>2. [index |-> end, term |-> t] \in Snapshot
    BY <1>0, <1>3 DEF Snapshot
  <2> QED
    BY <1>4, <2>1, <2>2 DEF TypeInv, DiskOK
<1>7. ISCallers'
  <2> DEFINE new == {}
  <2>1. isCalls' \subseteq isCalls \cup new /\ (\A d \in new : ISMay(d)) /\ SlicesStay
    BY <1>1 DEF SlicesStay, NilSlice
  <2>2. \A j \in Server : lastIndexInSnapshot'[j] \in Nat
                            /\ lastIndexInSnapshot[j] <= lastIndexInSnapshot'[j]
    BY <1>0, <1>4 DEF TypeInv, LogOK
  <2> HIDE DEF new
  <2> QED
    BY <2>1, <2>2, ISReplaced
<1> QED
  BY <1>1, <1>5, <1>6, <1>7 DEF TypeInv

\* What the invariant says of a call of InstallSnapShot.
LEMMA ISHave ==
  ASSUME TypeInv, NEW c \in isCalls
  PROVE  /\ ISMay(c) /\ c.src \in Server /\ c.dst \in Server /\ c.data \in Snapshot
         /\ c.sender \in AECall /\ c.index \in Nat /\ c.value \in Nat
         /\ c.replyTerm \in Nat /\ c.err \in 0..3 /\ c.tries \in Nat
BY DEF TypeInv, ISOK, ISCallers, ISMay, ISCall

\* d is c with other reply fields.
SameCaller(c, d) ==
  /\ d.src = c.src /\ d.live = c.live /\ d.sender = c.sender /\ d.inLoop = c.inLoop

\* A handler of InstallSnapShot that goes on or is done.
LEMMA ISDoneType ==
  ASSUME TypeInv, UNCHANGED nextIndex, NEW c \in isCalls, NEW d, d \in ISCall,
         SameCaller(c, d), isCalls' = ISDone(c, d),
         \A j \in Server : lastIndexInSnapshot'[j] \in Nat
                             /\ lastIndexInSnapshot[j] <= lastIndexInSnapshot'[j]
  PROVE  ISOK' /\ ISCallers'
<1>1. ISMay(d)
  BY ISHave DEF ISMay, SameCaller
<1> DEFINE new == {d}
<1>2. /\ isCalls' \subseteq isCalls \cup new /\ SlicesStay
      /\ \A e \in new : ISMay(e)
  BY <1>1 DEF SlicesStay, ISDone, NilSlice
<1> HIDE DEF new
<1> QED
  BY <1>2, ISReplaced

\* Types are kept by InstallSnapShot's tests.
LEMMA ISCheckType ==
  ASSUME TypeInv, NEW c \in isCalls, ISCheck(c)
  PROVE  TypeInv'
<1> DEFINE i == c.dst
           refused(e, v) == [c EXCEPT !.st = "reply", !.replyTerm = currentTerm[i],
                                      !.err = e, !.value = v]
           locks == [c EXCEPT !.st = "lock", !.replyTerm = currentTerm[i]]
           same == /\ LastLogIndex(i) >= c.index
                   /\ At(i, TrueIndex(i, c.index)).term = c.lastTerm
           d == CASE c.term < currentTerm[i] -> refused(1, 0)
                  [] c.term >= currentTerm[i] /\ c.index <= lastIndexInSnapshot[i] ->
                       refused(2, lastIndexInSnapshot[i])
                  [] c.term >= currentTerm[i] /\ c.index > lastIndexInSnapshot[i] /\ same ->
                       refused(3, 0)
                  [] OTHER -> locks
<1>0. /\ c \in ISCall /\ i \in Server /\ c.index \in Nat /\ c.term \in Nat
      /\ currentTerm[i] \in Nat /\ lastIndexInSnapshot[i] \in Nat
  BY ISHave DEF TypeInv, ISOK, ISCall, TermOK, LogOK
<1>1. /\ ElectionOK' /\ TermOK' /\ LogOK' /\ CommitOK' /\ LeaderOK' /\ DiskOK' /\ StartOK'
      /\ NotifyOK' /\ RestartOK' /\ RVOK' /\ AEOK' /\ Slices' /\ AECallers'
      /\ UNCHANGED <<nextIndex, lastIndexInSnapshot>>
  BY Unchanged DEF ISCheck, peerVars, electionVars, leaderVars, logVars
<1>2. \A e \in 0..3, v \in Nat : refused(e, v) \in ISCall /\ SameCaller(c, refused(e, v))
  BY <1>0 DEF ISCall, SameCaller
<1>3. locks \in ISCall /\ SameCaller(c, locks)
  BY <1>0 DEF ISCall, SameCaller
<1>4. isCalls' = ISDone(c, d)
  BY DEF ISCheck
<1>5. d \in {refused(1, 0), refused(2, lastIndexInSnapshot[i]), refused(3, 0), locks}
  <2> HIDE DEF refused, locks, same, i
  <2>1. CASE c.term < currentTerm[i]
    BY <1>0, <2>1
  <2>2. CASE c.term >= currentTerm[i] /\ c.index <= lastIndexInSnapshot[i]
    BY <1>0, <2>2
  <2>3. CASE c.term >= currentTerm[i] /\ c.index > lastIndexInSnapshot[i] /\ same
    BY <1>0, <2>3
  <2>4. CASE c.term >= currentTerm[i] /\ c.index > lastIndexInSnapshot[i] /\ ~same
    BY <1>0, <2>4
  <2> QED
    BY <1>0, <2>1, <2>2, <2>3, <2>4
<1> HIDE DEF d, refused, locks
<1>6. d \in ISCall /\ SameCaller(c, d)
  BY <1>0, <1>2, <1>3, <1>5
<1>7. \A j \in Server : lastIndexInSnapshot'[j] \in Nat
                          /\ lastIndexInSnapshot[j] <= lastIndexInSnapshot'[j]
  BY <1>1 DEF TypeInv, LogOK
<1>8. ISOK' /\ ISCallers'
  BY <1>1, <1>4, <1>6, <1>7, ISDoneType
<1> QED
  BY <1>1, <1>8 DEF TypeInv

\* Types are kept by the installation under the lock.
LEMMA ISLockType ==
  ASSUME TypeInv, NEW c \in isCalls, ISLock(c)
  PROVE  TypeInv'
<1> DEFINE i == c.dst
           first == [term |-> c.data.term, cmd |-> Nil]
           next == IF c.data.index > lastIndexInSnapshot[i] THEN [c EXCEPT !.st = "deliver"]
                   ELSE [c EXCEPT !.st = "reply"]
<1>0. /\ c \in ISCall /\ i \in Server /\ c.data.index \in Nat /\ c.data.term \in Nat
      /\ lastIndexInSnapshot[i] \in Nat
  BY ISHave DEF ISMay, Snapshot, TypeInv, LogOK
<1>1. /\ ElectionOK' /\ TermOK' /\ LeaderOK' /\ DiskOK' /\ StartOK'
      /\ NotifyOK' /\ RestartOK' /\ RVOK' /\ AEOK' /\ Slices' /\ AECallers'
      /\ UNCHANGED <<nextIndex, applied, delivered>>
  BY Unchanged DEF ISLock, electionVars, leaderVars
<1>2. next \in ISCall /\ SameCaller(c, next) /\ isCalls' = ISDone(c, next)
  <2>1. next \in ISCall /\ SameCaller(c, next)
    BY <1>0 DEF ISCall, SameCaller
  <2>2. isCalls' = ISDone(c, next)
    BY DEF ISLock
  <2> QED
    BY <2>1, <2>2
<1>3. <<first>> \in Seq(Entry) \ {<< >>}
  <2>1. first \in Entry
    BY <1>0 DEF Entry
  <2> QED
    BY <2>1
<1> HIDE DEF first, next
<1>4. LogOK' /\ CommitOK'
  <2>1. CASE c.data.index > lastIndexInSnapshot[i]
    <3>1. /\ log' = [log EXCEPT ![i] = <<first>>]
          /\ lastIndexInSnapshot' = [lastIndexInSnapshot EXCEPT ![i] = c.data.index]
          /\ lastTermInSnapshot' = [lastTermInSnapshot EXCEPT ![i] = c.data.term]
          /\ commitIndex' = [commitIndex EXCEPT ![i] = c.data.index]
      BY <2>1 DEF ISLock, first
    <3> QED
      BY <1>0, <1>1, <1>3, <3>1 DEF TypeInv, LogOK, CommitOK
  <2>2. CASE ~(c.data.index > lastIndexInSnapshot[i])
    BY <1>1, <2>2, Unchanged DEF ISLock, commitVars
  <2> QED
    BY <2>1, <2>2
<1>5. \A j \in Server : lastIndexInSnapshot'[j] \in Nat
                          /\ lastIndexInSnapshot[j] <= lastIndexInSnapshot'[j]
  <2>1. CASE c.data.index > lastIndexInSnapshot[i]
    <3>1. lastIndexInSnapshot' = [lastIndexInSnapshot EXCEPT ![i] = c.data.index]
      BY <2>1 DEF ISLock
    <3> QED
      BY <1>0, <2>1, <3>1 DEF TypeInv, LogOK
  <2>2. CASE ~(c.data.index > lastIndexInSnapshot[i])
    BY <2>2 DEF ISLock, logVars, TypeInv, LogOK
  <2> QED
    BY <2>1, <2>2
<1>6. ISOK' /\ ISCallers'
  BY <1>1, <1>2, <1>5, ISDoneType
<1> QED
  BY <1>1, <1>4, <1>6 DEF TypeInv

\* Types are kept by the snapshot message to the service.
LEMMA ISDeliverType ==
  ASSUME TypeInv, NEW c \in isCalls, ISDeliver(c)
  PROVE  TypeInv'
<1> DEFINE i == c.dst
           next == [c EXCEPT !.st = "reply"]
<1>0. c \in ISCall /\ i \in Server /\ c.data \in Snapshot /\ c.data.index \in Nat
  BY ISHave DEF ISMay, Snapshot
<1>1. /\ ElectionOK' /\ TermOK' /\ LogOK' /\ LeaderOK' /\ StartOK'
      /\ NotifyOK' /\ RestartOK' /\ RVOK' /\ AEOK' /\ Slices' /\ AECallers'
      /\ UNCHANGED <<nextIndex, lastIndexInSnapshot, commitIndex, delivered>>
  BY Unchanged DEF ISDeliver, electionVars, leaderVars, logVars
<1>2. next \in ISCall /\ SameCaller(c, next) /\ isCalls' = ISDone(c, next)
  BY <1>0 DEF ISDeliver, ISCall, SameCaller
<1>3. CommitOK'
  BY <1>0, <1>1 DEF ISDeliver, TypeInv, CommitOK
<1>4. DiskOK'
  BY <1>0 DEF ISDeliver, SaveStateAndSnapshot, SaveRaftState, TypeInv, DiskOK
<1>5. \A j \in Server : lastIndexInSnapshot'[j] \in Nat
                          /\ lastIndexInSnapshot[j] <= lastIndexInSnapshot'[j]
  BY <1>1 DEF TypeInv, LogOK
<1> HIDE DEF next
<1>6. ISOK' /\ ISCallers'
  BY <1>1, <1>2, <1>5, ISDoneType
<1> QED
  BY <1>1, <1>3, <1>4, <1>6 DEF TypeInv

\* Types are kept by a lost InstallSnapShot.
LEMMA ISFailType ==
  ASSUME TypeInv, NEW c \in isCalls, ISFail(c)
  PROVE  TypeInv'
<1> DEFINE st == IF c.tries + 1 < ISTries THEN "net" ELSE "reply"
           next == [c EXCEPT !.st = st, !.tries = @ + 1, !.replyTerm = 0, !.err = 0,
                             !.value = 0]
           o == [c EXCEPT !.live = FALSE, !.tries = ISTries]
           new == {next, o}
<1>0. c \in ISCall /\ c.tries + 1 \in Nat /\ ISTries \in Nat
  BY ISHave, BoundAssumption DEF ISMay
<1>1. /\ ElectionOK' /\ TermOK' /\ LogOK' /\ CommitOK' /\ LeaderOK' /\ DiskOK' /\ StartOK'
      /\ NotifyOK' /\ RestartOK' /\ RVOK' /\ AEOK' /\ Slices' /\ AECallers'
      /\ UNCHANGED <<nextIndex, lastIndexInSnapshot>>
  BY Unchanged DEF ISFail, peerVars, electionVars, leaderVars, logVars
<1>2. ISMay(next)
  <2>1. st \in {"net", "lock", "deliver", "reply"} /\ 0 \in 0..3
    OBVIOUS
  <2> HIDE DEF st
  <2>2. next \in ISCall /\ SameCaller(c, next)
    BY <1>0, <2>1 DEF ISCall, SameCaller
  <2> HIDE DEF next
  <2> QED
    BY <2>2, ISHave DEF ISMay, SameCaller
<1>3. ISMay(o)
  <2>1. o \in ISCall /\ ~o.live
    BY <1>0 DEF ISCall
  <2> HIDE DEF o
  <2> QED
    BY <2>1 DEF ISMay
<1>4. isCalls' = ISDone(c, next) \cup (IF ISServing(c) THEN {o} ELSE {})
  BY DEF ISFail
<1>5. \A j \in Server : lastIndexInSnapshot'[j] \in Nat
                          /\ lastIndexInSnapshot[j] <= lastIndexInSnapshot'[j]
  BY <1>1 DEF TypeInv, LogOK
<1> HIDE DEF next, o
<1>6. ISOK' /\ ISCallers'
  <2>1. isCalls' \subseteq isCalls \cup new /\ \A e \in new : ISMay(e)
    BY <1>2, <1>3, <1>4 DEF ISDone
  <2>2. SlicesStay
    BY <1>1 DEF SlicesStay
  <2> HIDE DEF new
  <2> QED
    BY <1>5, <2>1, <2>2, ISReplaced
<1> QED
  BY <1>1, <1>6 DEF TypeInv

\* The calls that go on after sendSnapShot.
ISGoesOn(c, d) ==
  IF (IF c.err = 1 THEN Node0 ELSE leaderNum[c.src]) = c.src
    THEN aeCalls' = aeCalls \cup {d} /\ UNCHANGED notify
    ELSE UNCHANGED aeCalls /\ Notify(c.src, 2)

\* The goroutine that goes on after sendSnapShot.
LEMMA ISGoesOnType ==
  ASSUME TypeInv, SlicesStay, NEW c \in isCalls, NEW d, AEMay(d),
         ISGoesOn(c, d) \/ UNCHANGED <<aeCalls, notify>>
  PROVE  AEOK' /\ AECallers' /\ NotifyOK'
<1> DEFINE new == {d}
<1>1. aeCalls' \subseteq aeCalls \cup new /\ \A e \in new : AEMay(e)
  BY DEF ISGoesOn
<1>2. AEOK' /\ AECallers'
  <2> HIDE DEF new
  <2> QED
    BY <1>1, AEReplaced
<1>3. Notify(c.src, 2) \/ UNCHANGED notify
  BY DEF ISGoesOn
<1>4. NotifyOK'
  BY <1>3, ISHave, NotifyType, Unchanged DEF TypeInv
<1> QED
  BY <1>2, <1>4

\* Types are kept by the return of sendSnapShot.
LEMMA ISReturnType ==
  ASSUME TypeInv, NEW c \in isCalls, ISReturn(c)
  PROVE  TypeInv'
<1> DEFINE i == c.src
           j == c.dst
           at == IF c.err = 1 THEN matchIndex[i][j] ELSE SnapshotPosition(c)
           leads == IF c.err = 1 THEN Node0 ELSE leaderNum[i]
           match == [matchIndex[i] EXCEPT ![j] = at]
           pos == IF c.err = 1 THEN nextIndex[i][j] ELSE at + 1
           next == [nextIndex[i] EXCEPT ![j] = pos]
<1>0. /\ i \in Server /\ j \in Server /\ nextIndex[i] # NilSlice
      /\ c.st = "reply" /\ c.live /\ c.replyTerm \in Nat /\ c.index \in Nat /\ c.value \in Nat
      /\ c.sender \in AECall /\ c.sender.src = i /\ c.sender.live
      /\ c.sender.st # "commit" /\ ~ISReturnPanics(c)
      /\ c.inLoop => c.sender.prev < lastIndexInSnapshot[i]
  BY ISHave DEF ISReturn, ISMay
<1>1. /\ LogOK' /\ CommitOK' /\ DiskOK' /\ StartOK' /\ RestartOK' /\ RVOK'
      /\ UNCHANGED <<votedFor, granted, mainSave, termList, lastIndexInSnapshot>>
  BY Unchanged DEF ISReturn, logVars
<1>2. nextIndex[i] \in [Server -> Nat \ {0}] /\ matchIndex[i] \in [Server -> Nat]
  BY <1>0, Made
<1>3. at \in Nat
  BY <1>0, <1>2 DEF SnapshotPosition
<1>4. match \in [Server -> Nat] /\ next \in [Server -> Nat \ {0}]
  <2> HIDE DEF at
  <2>1. pos \in Nat \ {0}
    BY <1>0, <1>2, <1>3
  <2> HIDE DEF pos
  <2> QED
    BY <1>2, <1>3, <2>1
<1>5. LeaderOK' /\ SlicesStay /\ (role' = role => Slices')
  <2>1. /\ matchIndex' = [matchIndex EXCEPT ![i] = match]
        /\ nextIndex' = [nextIndex EXCEPT ![i] = next]
    BY DEF ISReturn
  <2> HIDE DEF match, next
  <2> QED
    BY <1>0, <1>1, <1>4, <2>1, SlicesStored
<1>6. TermOK'
  <2>1. leads \in Server \cup {None}
    BY <1>0, ServerAssumption DEF TypeInv, TermOK
  <2>2. /\ leaderNum' = [leaderNum EXCEPT ![i] = leads]
        /\ currentTerm' = [currentTerm EXCEPT ![i] = IF c.err = 1 THEN c.replyTerm ELSE @]
    BY DEF ISReturn
  <2> HIDE DEF leads
  <2> QED
    BY <1>0, <2>1, <2>2 DEF TypeInv, TermOK
<1>7. ISOK' /\ ISCallers'
  <2> DEFINE new == {}
  <2>1. isCalls' \subseteq isCalls \cup new /\ \A d \in new : ISMay(d)
    BY DEF ISReturn
  <2>2. \A k \in Server : lastIndexInSnapshot'[k] \in Nat
                            /\ lastIndexInSnapshot[k] <= lastIndexInSnapshot'[k]
    BY <1>1 DEF TypeInv, LogOK
  <2> HIDE DEF new
  <2> QED
    BY <1>5, <2>1, <2>2, ISReplaced
<1>8. AEMay(c.sender)
  BY <1>0 DEF AEMay
<1>9. CASE c.inLoop
  <2> DEFINE t == At(i, TrueIndex(i, c.sender.prev)).term
             d == [c.sender EXCEPT !.args.prevLogTerm = t]
  <2>1. role' = [role EXCEPT ![i] = "leader"] /\ ISGoesOn(c, d)
    BY <1>9 DEF ISReturn, ISGoesOn
  <2>2. AEMay(d)
    <3>1. c.sender.prev \in Nat /\ c.sender.args \in AEArgs
      BY <1>0 DEF AECall
    <3>2. TrueIndex(i, c.sender.prev) = 0
      BY <1>0, <1>9 DEF TrueIndex
    <3>3. t \in Nat
      BY <1>0, <3>2, LogFacts, AtType DEF TypeInv
    <3> HIDE DEF t
    <3>4. [c.sender.args EXCEPT !.prevLogTerm = t] \in AEArgs
      BY <3>1, <3>3 DEF AEArgs
    <3>5. d \in AECall /\ d.src = c.sender.src /\ d.live = c.sender.live /\ d.st = c.sender.st
      BY <1>0, <3>4 DEF AECall
    <3> HIDE DEF d
    <3> QED
      BY <1>8, <3>5 DEF AEMay
  <2>3. AEOK' /\ AECallers' /\ NotifyOK'
    <3> HIDE DEF d
    <3> QED
      BY <1>5, <2>1, <2>2, ISGoesOnType
  <2>4. ElectionOK'
    BY <1>1, <2>1 DEF TypeInv, ElectionOK, Roles
  <2>5. Slices'
    <3>1. \A k \in Server : nextIndex'[k] = NilSlice <=> matchIndex'[k] = NilSlice
      <4>1. match # NilSlice /\ next # NilSlice
        BY <1>4, MadeNotNil
      <4>2. /\ matchIndex' = [matchIndex EXCEPT ![i] = match]
            /\ nextIndex' = [nextIndex EXCEPT ![i] = next]
        BY DEF ISReturn
      <4> HIDE DEF match, next
      <4> QED
        BY <1>0, <4>1, <4>2 DEF TypeInv, Slices, LeaderOK
    <3>2. ASSUME NEW k \in Server, role'[k] \in {"leader", "snapshotting"}
          PROVE  nextIndex'[k] # NilSlice
      <4>1. nextIndex[k] # NilSlice
        BY <1>0, <2>1, <3>2 DEF TypeInv, Slices, ElectionOK
      <4> QED
        BY <1>5, <4>1 DEF SlicesStay
    <3> QED
      BY <3>1, <3>2 DEF Slices, NilSlice
  <2> QED
    BY <1>1, <1>5, <1>6, <1>7, <2>3, <2>4, <2>5 DEF TypeInv
<1>10. CASE ~c.inLoop
  <2>1. UNCHANGED role
    BY <1>10 DEF ISReturn
  <2>2. ElectionOK' /\ Slices'
    BY <1>1, <1>5, <2>1, Unchanged DEF electionVars
  <2>3. CASE GivesUp(i, at)
    <3>1. UNCHANGED <<aeCalls, notify>>
      BY <1>10, <2>3 DEF ISReturn
    <3>2. AEOK' /\ AECallers' /\ NotifyOK'
      BY <1>5, <1>8, <3>1, ISGoesOnType
    <3> QED
      BY <1>1, <1>5, <1>6, <1>7, <2>2, <3>2 DEF TypeInv
  <2>4. CASE ~GivesUp(i, at)
    <3>1. ISGoesOn(c, OneEntry(c.sender, at))
      BY <1>10, <2>4 DEF ISReturn, ISGoesOn
    <3>2. ~BacksPanics(i, at)
      BY <1>0, <1>10 DEF ISReturnPanics
    <3>3. currentTerm'[i] \in Nat
      BY <1>0, <1>6 DEF TermOK
    <3> HIDE DEF at
    <3>4. AEMay(OneEntry(c.sender, at))
      BY <1>0, <1>3, <1>8, <2>4, <3>2, <3>3, OneEntryType
    <3>5. AEOK' /\ AECallers' /\ NotifyOK'
      BY <1>5, <3>1, <3>4, ISGoesOnType
    <3> QED
      BY <1>1, <1>5, <1>6, <1>7, <2>2, <3>5 DEF TypeInv
  <2> QED
    BY <2>3, <2>4
<1> QED
  BY <1>9, <1>10

-----------------------------------------------------------------------------
(* Crashes and panics.                                                     *)

\* What is left of the calls of a peer that stops.
LEMMA StopCallsType ==
  ASSUME TypeInv, NEW i \in Server, StopCalls(i),
         \A j \in Server \ {i} : /\ nextIndex'[j] = nextIndex[j]
                                 /\ lastIndexInSnapshot'[j] = lastIndexInSnapshot[j]
  PROVE  RVOK' /\ AEOK' /\ ISOK' /\ AECallers' /\ ISCallers' /\ starts' \subseteq starts
<1>1. RVOK'
  <2>1. ASSUME NEW c \in rvCalls
        PROVE  (IF c.src = i THEN [c EXCEPT !.live = FALSE, !.tries = RVTries] ELSE
                IF c.dst = i /\ RVServing(c)
                  THEN [c EXCEPT !.st = "net", !.save = NoSave, !.tries = @ + 1]
                ELSE c) \in RVCall
    <3>1. c \in RVCall /\ c.tries + 1 \in Nat /\ RVTries \in Nat
      BY BoundAssumption DEF TypeInv, RVOK, RVCall
    <3> QED
      BY <3>1, SaveType DEF RVCall
  <2> QED
    BY <2>1 DEF StopCalls, RVAfterStop, RVOK
<1>2. ASSUME NEW d \in aeCalls'
      PROVE  /\ d \in AECall
             /\ d.st = "commit" => d.live
             /\ d.live => nextIndex'[d.src] # NilSlice
  <2>1. PICK c \in aeCalls :
          /\ ~(c.src = i /\ c.st = "commit")
          /\ d = IF c.src = i THEN [c EXCEPT !.live = FALSE, !.tries = AETries] ELSE
                 IF c.dst = i /\ AEServing(c)
                   THEN [c EXCEPT !.st = "net", !.save = NoSave, !.pre = 0, !.aft = 0,
                                  !.reply = NoReply, !.tries = @ + 1] ELSE c
    BY DEF StopCalls, AEAfterStop
  <2>2. c \in AECall /\ c.src \in Server /\ c.tries + 1 \in Nat /\ AETries \in Nat
    BY BoundAssumption, AEHave DEF AEMay, AECall
  <2>3. d \in AECall /\ d.src = c.src /\ d.st \in {c.st, "net"}
    BY <2>1, <2>2, SaveType, NoReplyType DEF AECall
  <2>4. d.live = (c.src # i /\ c.live)
    <3>1. c.live \in BOOLEAN
      BY <2>2 DEF AECall
    <3> QED
      BY <2>1, <2>2, <3>1 DEF AECall
  <2>5. /\ c.live => nextIndex[c.src] # NilSlice
        /\ c.st = "commit" => c.live
    BY AEHave DEF AEMay
  <2> QED
    BY <2>1, <2>2, <2>3, <2>4, <2>5
<1>3. ASSUME NEW d \in isCalls'
      PROVE  /\ d \in ISCall
             /\ d.live =>
                  /\ nextIndex'[d.src] # NilSlice
                  /\ d.sender.src = d.src /\ d.sender.live /\ d.sender.st # "commit"
                  /\ d.inLoop => d.sender.prev < lastIndexInSnapshot'[d.src]
  <2>1. PICK c \in isCalls :
          d = IF c.src = i THEN [c EXCEPT !.live = FALSE, !.tries = ISTries] ELSE
              IF c.dst = i /\ ISServing(c)
                THEN [c EXCEPT !.st = IF c.tries + 1 < ISTries THEN "net" ELSE "reply",
                               !.tries = @ + 1] ELSE c
    BY DEF StopCalls, ISAfterStop
  <2>2. c \in ISCall /\ c.src \in Server /\ c.tries + 1 \in Nat /\ ISTries \in Nat
    BY BoundAssumption, ISHave DEF ISMay
  <2>3. d \in ISCall /\ d.src = c.src /\ d.sender = c.sender /\ d.inLoop = c.inLoop
    BY <2>1, <2>2 DEF ISCall
  <2>4. d.live = (c.src # i /\ c.live)
    <3>1. c.live \in BOOLEAN
      BY <2>2 DEF ISCall
    <3> QED
      BY <2>1, <2>2, <3>1 DEF ISCall
  <2>5. ISMay(c)
    BY ISHave
  <2> QED
    BY <2>2, <2>3, <2>4, <2>5 DEF ISMay
<1>4. AEOK' /\ AECallers'
  BY <1>2 DEF AEOK, AECallers
<1>5. ISOK' /\ ISCallers'
  BY <1>3 DEF ISOK, ISCallers
<1>6. starts' \subseteq starts
  BY DEF StopCalls
<1> QED
  BY <1>1, <1>4, <1>5, <1>6

\* Types are kept by a Go panic.
LEMMA PanicType ==
  ASSUME TypeInv, NEW i \in Server, Panic(i)
  PROVE  TypeInv'
<1>1. /\ TermOK' /\ LogOK' /\ CommitOK' /\ LeaderOK' /\ DiskOK' /\ NotifyOK' /\ RestartOK'
      /\ UNCHANGED <<votedFor, granted, mainSave, nextIndex, matchIndex, lastIndexInSnapshot,
                     proposed>>
  BY Unchanged DEF Panic, logVars, leaderVars
<1>2. ElectionOK'
  BY <1>1 DEF Panic, TypeInv, ElectionOK, Roles
<1>3. Slices'
  BY <1>1, SlicesKept DEF Panic, Roles
<1>4. RVOK' /\ AEOK' /\ ISOK' /\ AECallers' /\ ISCallers' /\ starts' \subseteq starts
  BY <1>1, StopCallsType DEF Panic
<1>5. StartOK'
  BY <1>1, <1>4 DEF TypeInv, StartOK
<1> QED
  BY <1>1, <1>2, <1>3, <1>4, <1>5 DEF TypeInv

\* Types are kept by a crash and Make.
LEMMA RestartType ==
  ASSUME TypeInv, NEW i \in Server, Restart(i)
  PROVE  TypeInv'
<1>0. /\ snapshot[i] \in Snapshot /\ snapshot[i].index \in Nat /\ snapshot[i].term \in Nat
      /\ persisted[i].term \in Nat /\ persisted[i].log \in Seq(Entry)
  BY DEF TypeInv, DiskOK, Snapshot
<1>1. DiskOK' /\ UNCHANGED <<delivered, proposed>>
  BY Unchanged DEF Restart
<1>2. ElectionOK' /\ TermOK' /\ NotifyOK' /\ RestartOK'
  <2>1. NoSave \in Save
    BY SaveType
  <2> QED
    BY <1>0, <2>1 DEF Restart, TypeInv, ElectionOK, TermOK, NotifyOK, RestartOK, Roles
<1>3. LogOK'
  <2>1. RecoveredLog(i) \in Seq(Entry) \ {<< >>}
    <3>1. [term |-> snapshot[i].term, cmd |-> Nil] \in Entry
      BY <1>0 DEF Entry
    <3>2. <<[term |-> snapshot[i].term, cmd |-> Nil]>> \in Seq(Entry) \ {<< >>}
      BY <3>1
    <3> QED
      BY <1>0, <3>2 DEF RecoveredLog
  <2> QED
    BY <1>0, <2>1 DEF Restart, TypeInv, LogOK
<1>4. CommitOK'
  <2>1. [base |-> snapshot[i].index, msgs |-> << >>] \in [base : Nat, msgs : Seq(Message)]
    BY <1>0
  <2> QED
    BY <1>0, <1>1, <2>1 DEF Restart, TypeInv, CommitOK
<1>5. LeaderOK'
  <2>1. [snap |-> 0, terms |-> << >>] \in TermList
    BY DEF TermList
  <2> QED
    BY <2>1 DEF Restart, TypeInv, LeaderOK
<1>6. Slices'
  <2>1. /\ nextIndex' = [nextIndex EXCEPT ![i] = NilSlice]
        /\ matchIndex' = [matchIndex EXCEPT ![i] = NilSlice]
        /\ role' = [role EXCEPT ![i] = "main"]
    BY DEF Restart
  <2> QED
    BY <2>1 DEF TypeInv, Slices, LeaderOK, ElectionOK
<1>7. RVOK' /\ AEOK' /\ ISOK' /\ AECallers' /\ ISCallers' /\ starts' \subseteq starts
  <2>1. StopCalls(i)
    BY DEF Restart
  <2>2. ASSUME NEW j \in Server \ {i}
        PROVE  /\ nextIndex'[j] = nextIndex[j]
               /\ lastIndexInSnapshot'[j] = lastIndexInSnapshot[j]
    BY DEF Restart, TypeInv, LeaderOK, LogOK
  <2> QED
    BY <2>1, <2>2, StopCallsType
<1>8. StartOK'
  BY <1>1, <1>7 DEF TypeInv, StartOK
<1> QED
  BY <1>1, <1>2, <1>3, <1>4, <1>5, <1>6, <1>7, <1>8 DEF TypeInv

-----------------------------------------------------------------------------
(* The theorem.                                                            *)

\* The invariant holds when the peers are made.
LEMMA TypeInit ==
  Init => TypeInv
<1> SUFFICES ASSUME Init PROVE TypeInv
  OBVIOUS
<1> USE DEF Init, Fresh
<1>1. ElectionOK /\ TermOK /\ NotifyOK /\ RestartOK
  <2>1. NoSave \in Save
    BY SaveType
  <2> QED
    BY <2>1 DEF ElectionOK, TermOK, NotifyOK, RestartOK, Roles
<1>2. LogOK
  <2>1. [term |-> 0, cmd |-> Nil] \in Entry
    BY DEF Entry
  <2>2. <<[term |-> 0, cmd |-> Nil]>> \in Seq(Entry) \ {<< >>}
    BY <2>1
  <2> QED
    BY <2>2 DEF LogOK
<1>3. CommitOK
  BY DEF CommitOK
<1>4. LeaderOK
  BY DEF LeaderOK, TermList
<1>5. DiskOK
  BY DEF DiskOK, Snapshot
<1>6. StartOK /\ RVOK /\ AEOK /\ ISOK /\ AECallers /\ ISCallers
  BY DEF StartOK, RVOK, AEOK, ISOK, AECallers, ISCallers
<1>7. Slices
  BY DEF Slices
<1> QED
  BY <1>1, <1>2, <1>3, <1>4, <1>5, <1>6, <1>7 DEF TypeInv

\* Every step keeps it.
LEMMA TypeNext ==
  TypeInv /\ [Next]_vars => TypeInv'
<1> SUFFICES ASSUME TypeInv, [Next]_vars PROVE TypeInv'
  OBVIOUS
<1>1. ASSUME NEW i \in Server, Main(i) PROVE TypeInv'
  BY <1>1, CandidateStartType, CandidateTimeoutType, CandidateNotifiedType,
     MainDispatchType, MainEncodeType, MainSaveType, FollowerTimeoutType, LeaderTermTimeoutType, LeaderNotifiedType,
     LeaderSendType, LeaderSendSnapshotType DEF Main
<1>2. ASSUME NEW i \in Server, Restart(i) \/ Panics(i) PROVE TypeInv'
  BY <1>2, RestartType, PanicType DEF Panics
<1>3. ASSUME NEW c \in rvCalls, Vote(c) PROVE TypeInv'
  BY <1>3, RVCheckType, RVLockType, RVEncodeType, RVSaveType, RVGrantType, RVFailType,
     CandidateWinsType, CandidateReplyType, LateVoteType DEF Vote
<1>4. ASSUME NEW c \in aeCalls, Replicate(c) PROVE TypeInv'
  BY <1>4, AECheckType, AETermType, AEPassType, AERangeType, AEApplyType, AEAppendType,
     AEEncodeType, AESaveType, AEFailType, AEHeartbeatType, AESuccessType, AECommitType, AEDeposedType, AERejectedType
     DEF Replicate
<1>5. ASSUME NEW c \in isCalls, Install(c) PROVE TypeInv'
  BY <1>5, ISCheckType, ISLockType, ISDeliverType, ISFailType, ISReturnType DEF Install
<1>6. ASSUME Client PROVE TypeInv'
  BY <1>6, StartCheckType, StartAppendType, StartEncodeType, StartSaveType,
     TakeSnapshotsType DEF Client
<1>7. CASE UNCHANGED vars
  BY <1>7, Unchanged DEF TypeInv, vars, peerVars, electionVars, leaderVars, logVars
<1> QED
  BY <1>1, <1>2, <1>3, <1>4, <1>5, <1>6, <1>7 DEF Next

\* Every field of every peer keeps its declared type, for any number of peers and
\* with snapshots: whatever the handlers and goroutines of raft.go store was read
\* at an index that exists, except where the model lets the peer panic.
THEOREM TypeCorrect == Spec => []TypeOK
<1>1. TypeInv => TypeOK
  BY DEF TypeInv, TypeOK, ElectionOK, TermOK, LogOK, CommitOK, LeaderOK, DiskOK, StartOK,
         NotifyOK, RestartOK, RVOK, AEOK, ISOK, Roles, Message
<1>2. Spec => []TypeInv
  BY TypeInit, TypeNext, PTL DEF Spec
<1> QED
  BY <1>1, <1>2, PTL

-----------------------------------------------------------------------------
(* Without snapshots: what the service receives.                           *)

\* No snapshot was taken, so none is sent or installed.
NoSnapshots ==
  /\ isCalls = {}
  /\ \A i \in Server : /\ lastIndexInSnapshot[i] = 0
                       /\ snapshot[i] = [index |-> 0, term |-> 0]

\* The service has the entries up to commitIndex.
Ordered ==
  \A i \in Server :
    /\ applied[i].base = 0
    /\ commitIndex[i] = Len(applied[i].msgs)
    /\ \A k \in 1..Len(applied[i].msgs) : applied[i].msgs[k].index = k

\* A handler that is about to deliver read a commitIndex that has not gone back
\* since, and no peer calls itself.
KnowsPre(c) == IF c.st = "apply" THEN c.pre <= commitIndex[c.dst] ELSE c.pre = 0
Prepared(c) == c.src # c.dst /\ KnowsPre(c)
PreCommitted == \A c \in aeCalls : Prepared(c)

SafetyInv == TypeInv /\ NoSnapshots /\ Ordered /\ PreCommitted

-----------------------------------------------------------------------------
(* What the steps other than Restart have in common: no snapshot, entries  *)
(* delivered from commitIndex on, and calls that know no more than         *)
(* commitIndex.                                                            *)

Delivers(i, to) ==
  /\ commitIndex[i] < to
  /\ commitIndex' = [commitIndex EXCEPT ![i] = to]
  /\ applied' = [applied EXCEPT ![i].msgs = @ \o Messages(i, commitIndex[i], to)]

NoneTaken == UNCHANGED <<lastIndexInSnapshot, snapshot, isCalls>>
Delivering ==
  UNCHANGED <<commitIndex, applied>> \/ \E i \in Server, to \in Nat : Delivers(i, to)
Calling == \A d \in aeCalls' : d \in aeCalls \/ Prepared(d)

Orderly == NoneTaken /\ Delivering /\ Calling

\* Delivering from commitIndex on keeps the messages of applyCh in order.
LEMMA DeliveryKeeps ==
  ASSUME TypeInv, Ordered, Delivering
  PROVE  /\ Ordered'
         /\ \A i \in Server : commitIndex[i] <= commitIndex'[i]
<1>0. \A i \in Server : commitIndex[i] \in Nat /\ applied[i].msgs \in Seq(Message)
  BY DEF TypeInv, CommitOK
<1>1. CASE UNCHANGED <<commitIndex, applied>>
  BY <1>0, <1>1 DEF Ordered
<1>2. ASSUME NEW i \in Server, NEW to \in Nat, Delivers(i, to)
      PROVE  Ordered' /\ \A j \in Server : commitIndex[j] <= commitIndex'[j]
  <2> DEFINE from == commitIndex[i]
             old == applied[i].msgs
             ms == Messages(i, from, to)
             n == to - from
  <2>1. from \in Nat /\ from < to /\ n \in Nat /\ from = Len(old) /\ old \in Seq(Message)
    BY <1>0, <1>2 DEF Delivers, Ordered
  <2>2. ms = [k \in 1..n |-> [index |-> from + k, cmd |-> At(i, TrueIndex(i, from + k)).cmd]]
    BY DEF Messages
  <2>3. ASSUME NEW k \in 1..n PROVE ms[k].index = from + k
    <3> HIDE DEF n, from, ms
    <3> QED
      BY <2>2
  <2>4. DOMAIN ms = 1..n
    <3> HIDE DEF n, from, ms
    <3> QED
      BY <2>2
  <2> HIDE DEF ms, n
  <2>5. Len(ms) = n
    BY <2>1, <2>4, LenProperties
  <2>6. /\ commitIndex' = [commitIndex EXCEPT ![i] = to]
        /\ applied' = [applied EXCEPT ![i].msgs = old \o ms]
    BY <1>2 DEF Delivers, ms
  <2>7. applied[i] \in [base : Nat, msgs : Seq(Message)]
    BY DEF TypeInv, CommitOK
  <2>8. /\ applied'[i].msgs = old \o ms /\ applied'[i].base = applied[i].base
        /\ commitIndex'[i] = to
        /\ \A j \in Server \ {i} : applied'[j] = applied[j] /\ commitIndex'[j] = commitIndex[j]
    BY <2>6, <2>7 DEF TypeInv, CommitOK
  <2>9. /\ Len(old \o ms) = to
        /\ \A k \in 1..to : (old \o ms)[k].index = k
    <3> DEFINE S == Message \cup {ms[k] : k \in 1..n}
    <3>1. ms \in Seq(S)
      <4>1. ms = [k \in 1..n |-> ms[k]]
        BY <2>2 DEF ms
      <4>2. \A k \in 1..n : ms[k] \in S
        OBVIOUS
      <4> HIDE DEF S
      <4>3. ms \in [1..n -> S]
        BY <4>1, <4>2
      <4> QED
        BY <2>1, <4>3
    <3>2. old \in Seq(S)
      <4>1. Message \subseteq S
        OBVIOUS
      <4> HIDE DEF S, old
      <4> QED
        BY <2>1, <4>1, SeqMonotonic
    <3> HIDE DEF S, old, from
    <3>3. /\ Len(old \o ms) = Len(old) + Len(ms)
          /\ \A k \in 1..(Len(old) + Len(ms)) :
               (old \o ms)[k] = IF k <= Len(old) THEN old[k] ELSE ms[k - Len(old)]
      BY <3>1, <3>2, ConcatProperties
    <3>4. Len(old) + Len(ms) = to
      BY <2>1, <2>5 DEF n
    <3>5. ASSUME NEW k \in 1..to PROVE (old \o ms)[k].index = k
      <4>1. CASE k <= Len(old)
        <5>1. k \in 1..Len(old)
          BY <2>1, <4>1
        <5>2. old[k].index = k
          BY <5>1 DEF Ordered, old
        <5> QED
          BY <3>3, <3>4, <4>1, <5>2
      <4>2. CASE ~(k <= Len(old))
        <5>1. k - Len(old) \in 1..n
          BY <2>1, <4>2 DEF n
        <5>2. ms[k - Len(old)].index = from + (k - Len(old))
          BY <2>3, <5>1
        <5>3. from + (k - Len(old)) = k
          BY <2>1
        <5> QED
          BY <3>3, <3>4, <4>2, <5>2, <5>3
      <4> QED
        BY <4>1, <4>2
    <3> QED
      BY <3>3, <3>4, <3>5
  <2>10. \A j \in Server : commitIndex[j] <= commitIndex'[j]
    BY <1>0, <2>1, <2>8
  <2>11. ASSUME NEW j \in Server
         PROVE  /\ applied'[j].base = 0
                /\ commitIndex'[j] = Len(applied'[j].msgs)
                /\ \A k \in 1..Len(applied'[j].msgs) : applied'[j].msgs[k].index = k
    <3>1. CASE j = i
      BY <2>8, <2>9, <3>1 DEF Ordered
    <3>2. CASE j # i
      BY <2>8, <3>2 DEF Ordered
    <3> QED
      BY <3>1, <3>2
  <2> QED
    BY <2>10, <2>11 DEF Ordered
<1> QED
  BY <1>1, <1>2 DEF Delivering

\* An orderly step keeps the invariant.
LEMMA OrderlyKeeps ==
  ASSUME SafetyInv, TypeInv', Orderly
  PROVE  SafetyInv'
<1>1. NoSnapshots'
  BY DEF SafetyInv, NoSnapshots, Orderly, NoneTaken
<1>2. Ordered' /\ \A i \in Server : commitIndex[i] <= commitIndex'[i]
  BY DeliveryKeeps DEF SafetyInv, Orderly
<1>3. PreCommitted'
  <2>1. SUFFICES ASSUME NEW d \in aeCalls'
                 PROVE  /\ d.src # d.dst
                        /\ IF d.st = "apply" THEN d.pre <= commitIndex'[d.dst] ELSE d.pre = 0
    BY DEF PreCommitted, Prepared, KnowsPre
  <2>2. Prepared(d)
    BY DEF Orderly, Calling, SafetyInv, PreCommitted
  <2>3. /\ d.dst \in Server /\ d.pre \in Nat
        /\ commitIndex[d.dst] \in Nat /\ commitIndex'[d.dst] \in Nat
    BY DEF SafetyInv, TypeInv, AEOK, AECall, CommitOK
  <2> QED
    BY <1>2, <2>2, <2>3 DEF Prepared, KnowsPre
<1> QED
  BY <1>1, <1>2, <1>3 DEF SafetyInv

\* The moves of mainProcess, its timers and its persist().
LEMMA ElectionOrderly ==
  ASSUME SafetyInv, NEW i \in Server,
         \/ CandidateStart(i) \/ CandidateNotified(i) \/ MainDispatch(i) \/ LeaderNotified(i)
         \/ CandidateTimeout(i) \/ FollowerTimeout(i) \/ LeaderTermTimeout(i)
         \/ MainEncode(i) \/ MainSave(i)
  PROVE  Orderly
<1>1. UNCHANGED <<lastIndexInSnapshot, snapshot, isCalls, commitIndex, applied, aeCalls>>
  BY DEF CandidateStart, CandidateNotified, MainDispatch, LeaderNotified, CandidateTimeout,
         FollowerTimeout, LeaderTermTimeout, MainEncode, MainSave, logVars, diskVars, commitVars
<1> QED
  BY <1>1 DEF Orderly, NoneTaken, Delivering, Calling

\* RequestVote and its replies.
LEMMA VoteOrderly ==
  ASSUME SafetyInv, NEW c \in rvCalls, Vote(c)
  PROVE  Orderly
<1>1. UNCHANGED <<lastIndexInSnapshot, snapshot, isCalls, commitIndex, applied, aeCalls>>
  BY DEF Vote, RVCheck, RVLock, RVEncode, RVSave, RVGrant, RVFail, CandidateWins,
         CandidateReply, LateVote, peerVars, logVars, commitVars, diskVars
<1> QED
  BY <1>1 DEF Orderly, NoneTaken, Delivering, Calling

\* Start.
LEMMA StartOrderly ==
  ASSUME SafetyInv,
         \/ \E i \in Server, v \in Value : StartCheck(i, v)
         \/ \E s \in starts : StartAppend(s) \/ StartEncode(s) \/ StartSave(s)
  PROVE  Orderly
<1>1. UNCHANGED <<lastIndexInSnapshot, snapshot, isCalls, commitIndex, applied, aeCalls>>
  BY DEF StartCheck, StartAppend, StartEncode, StartSave, logVars, commitVars, diskVars
<1> QED
  BY <1>1 DEF Orderly, NoneTaken, Delivering, Calling

-----------------------------------------------------------------------------
(* AppendEntry.                                                            *)

\* A call that is replaced by others of the same two peers.
LEMMA CallingKept ==
  ASSUME SafetyInv, NEW c \in aeCalls, NEW new, aeCalls' \subseteq aeCalls \cup new,
         \A d \in new : d.src = c.src /\ d.dst = c.dst /\ KnowsPre(d)
  PROVE  Calling
BY DEF SafetyInv, PreCommitted, Calling, Prepared

\* The consistency check leaves preCommitIndex at 0.
LEMMA CheckedPrepared ==
  ASSUME SafetyInv, NEW c \in aeCalls, NEW t \in Nat, c.st # "apply"
  PROVE  /\ Checked(c.dst, c, t).src = c.src
         /\ Checked(c.dst, c, t).dst = c.dst
         /\ KnowsPre(Checked(c.dst, c, t))
<1> DEFINE d == Checked(c.dst, c, t)
<1>0. /\ c \in AECall /\ c.pre = 0 /\ c.dst \in Server /\ commitIndex[c.dst] \in Nat
  BY AEHave DEF SafetyInv, TypeInv, AEOK, PreCommitted, Prepared, KnowsPre, CommitOK
<1>1. d.src = c.src /\ d.dst = c.dst /\ d.pre = c.pre
  <2> DEFINE i == c.dst
             a == c.args
             failed == [NoReply EXCEPT !.term = t]
             short == [failed EXCEPT !.lastLogIndex = LastLogIndex(i),
                                     !.termOfPrev = LastLogTerm(i)]
             conflict == [failed EXCEPT !.termOfPrev = ConflictTerm(i, a)]
             old == [failed EXCEPT !.success = TRUE, !.commitIndex = commitIndex[i]]
             st == IF a.leaderCommit > commitIndex[i] THEN "range" ELSE "apply"
  <2>1. d \in {[c EXCEPT !.st = "reply", !.reply = short],
               [c EXCEPT !.st = "reply", !.reply = conflict],
               [c EXCEPT !.st = "reply", !.reply = old],
               [c EXCEPT !.st = st, !.reply = failed]}
    BY DEF Checked
  <2> HIDE DEF short, conflict, old, st, failed
  <2>2. PICK s, r : d = [c EXCEPT !.st = s, !.reply = r]
    BY <2>1
  <2> HIDE DEF d
  <2> QED
    BY <1>0, <2>2 DEF AECall
<1> HIDE DEF d
<1>2. KnowsPre(d)
  BY <1>0, <1>1 DEF KnowsPre
<1> QED
  BY <1>1, <1>2 DEF d

\* AppendEntry's tests, its change of term and its persist().
LEMMA CheckOrderly ==
  ASSUME SafetyInv, NEW c \in aeCalls,
         AECheck(c) \/ AETerm(c) \/ AEPass(c) \/ AEEncode(c) \/ AESave(c)
  PROVE  Orderly
<1> DEFINE i == c.dst
           r == [NoReply EXCEPT !.term = currentTerm[i]]
           refused == [c EXCEPT !.st = "reply", !.reply = r]
           newer == [c EXCEPT !.st = "term", !.reply = r]
           check == [c EXCEPT !.st = "check", !.save = SaveDue(i)]
           tests == {refused, newer, check, Checked(i, c, currentTerm[i]),
                     Checked(i, c, c.reply.term)}
           saves == {[c EXCEPT !.save = Encoded(i)], [c EXCEPT !.save = NoSave]}
<1>0. /\ c \in AECall /\ i \in Server /\ currentTerm[i] \in Nat /\ TypeInv
      /\ c.reply.term \in Nat /\ KnowsPre(c)
  BY AEHave DEF SafetyInv, TypeInv, TermOK, AEOK, AEReply, PreCommitted, Prepared
<1>1. UNCHANGED <<lastIndexInSnapshot, snapshot, isCalls, commitIndex, applied>>
  BY DEF AECheck, AETerm, AEPass, AEEncode, AESave, peerVars, logVars, commitVars, diskVars
<1>2. CASE AECheck(c) \/ AETerm(c) \/ AEPass(c)
  <2>0. c.st # "apply" /\ c.pre = 0
    <3>1. c.st \in {"net", "term", "check"}
      BY <1>2 DEF AECheck, AETerm, AEPass
    <3> QED
      BY <1>0, <3>1 DEF KnowsPre
  <2>1. aeCalls' \subseteq aeCalls \cup tests
    BY <1>2 DEF AECheck, AETerm, AEPass, AEDone
  <2>2. \A d \in {refused, newer, check} :
          d.src = c.src /\ d.dst = c.dst /\ d.pre = 0 /\ d.st # "apply"
    <3> HIDE DEF r
    <3> QED
      BY <1>0, <2>0 DEF AECall
  <2>3. \A d \in {refused, newer, check} : d.src = c.src /\ d.dst = c.dst /\ KnowsPre(d)
    <3> HIDE DEF refused, newer, check
    <3> QED
      BY <2>2 DEF KnowsPre
  <2>4. /\ \A t \in {currentTerm[i], c.reply.term} :
             /\ Checked(i, c, t).src = c.src /\ Checked(i, c, t).dst = c.dst
             /\ KnowsPre(Checked(i, c, t))
    BY <1>0, <2>0, CheckedPrepared
  <2> HIDE DEF refused, newer, check
  <2>5. \A d \in tests : d.src = c.src /\ d.dst = c.dst /\ KnowsPre(d)
    BY <2>3, <2>4
  <2> HIDE DEF tests
  <2>6. Calling
    BY <2>1, <2>5, CallingKept
  <2> QED
    BY <1>1, <2>6 DEF Orderly, NoneTaken, Delivering
<1>3. CASE AEEncode(c) \/ AESave(c)
  <2>1. aeCalls' \subseteq aeCalls \cup saves
    BY <1>3 DEF AEEncode, AESave, AEDone
  <2>2. \A d \in saves : d.src = c.src /\ d.dst = c.dst /\ d.pre = c.pre /\ d.st = c.st
    BY <1>0 DEF AECall
  <2> HIDE DEF saves
  <2>3. \A d \in saves : d.src = c.src /\ d.dst = c.dst /\ KnowsPre(d)
    BY <1>0, <2>2 DEF KnowsPre
  <2>4. Calling
    BY <2>1, <2>3, CallingKept
  <2> QED
    BY <1>1, <2>4 DEF Orderly, NoneTaken, Delivering
<1> QED
  BY <1>2, <1>3

\* preCommitIndex is commitIndex when AppendEntry reads it.
LEMMA RangeOrderly ==
  ASSUME SafetyInv, NEW c \in aeCalls, AERange(c)
  PROVE  Orderly
<1> DEFINE next == [c EXCEPT !.st = "apply", !.pre = commitIndex[c.dst],
                             !.aft = AftCommit(c.args)]
           new == {next}
<1>0. c \in AECall /\ commitIndex[c.dst] \in Nat
  BY AEHave DEF SafetyInv, TypeInv, AEOK, CommitOK
<1>1. UNCHANGED <<lastIndexInSnapshot, snapshot, isCalls, commitIndex, applied>>
  BY DEF AERange, peerVars, logVars, commitVars, diskVars
<1>2. /\ next.src = c.src /\ next.dst = c.dst /\ next.st = "apply"
      /\ next.pre = commitIndex[c.dst]
  BY <1>0 DEF AECall
<1>3. aeCalls' \subseteq aeCalls \cup new
  BY DEF AERange, AEDone
<1> HIDE DEF next
<1>4. \A d \in new : d.src = c.src /\ d.dst = c.dst /\ KnowsPre(d)
  BY <1>0, <1>2 DEF KnowsPre
<1> HIDE DEF new
<1>5. Calling
  BY <1>3, <1>4, CallingKept
<1> QED
  BY <1>1, <1>5 DEF Orderly, NoneTaken, Delivering

\* AppendEntry's delivery, which begins at commitIndex whatever happened since.
LEMMA ApplyOrderly ==
  ASSUME SafetyInv, NEW c \in aeCalls, AEApply(c)
  PROVE  Orderly
<1> DEFINE i == c.dst
           pre == PreBound(c)
           from == CommitFrom(i, NameIndex(i, pre))
           to == NameIndex(i, AftBound(c))
           next == IF c.args.entries = << >>
                     THEN [c EXCEPT !.st = "reply", !.reply.success = TRUE,
                                    !.pre = 0, !.aft = 0, !.save = SaveDue(i)]
                     ELSE [c EXCEPT !.st = "append", !.pre = 0, !.aft = 0,
                                    !.save = SaveDue(i)]
<1>0. /\ c \in AECall /\ i \in Server /\ c.pre \in Nat /\ c.aft \in Nat /\ TypeInv /\ LogOK
      /\ commitIndex[i] \in Nat /\ lastIndexInSnapshot[i] = 0
      /\ c.pre <= commitIndex[i]
  BY AEHave DEF AEApply, SafetyInv, TypeInv, AEOK, AECall, CommitOK, NoSnapshots,
                PreCommitted, Prepared, KnowsPre
<1>1. UNCHANGED <<lastIndexInSnapshot, snapshot, isCalls>>
  BY DEF AEApply, logVars
<1>2. Calling
  <2> DEFINE new == {next}
  <2>1. next.src = c.src /\ next.dst = c.dst /\ next.st # "apply" /\ next.pre = 0
    BY <1>0 DEF AECall
  <2>2. aeCalls' \subseteq aeCalls \cup new
    BY DEF AEApply, AEDone
  <2> HIDE DEF next
  <2>3. \A d \in new : d.src = c.src /\ d.dst = c.dst /\ KnowsPre(d)
    BY <2>1 DEF KnowsPre
  <2> HIDE DEF new
  <2> QED
    BY <2>2, <2>3, CallingKept
<1>3. Delivering
  <2>1. CASE from < to
    <3>1. from = commitIndex[i]
      BY <1>0 DEF PreBound, TrueIndex, NameIndex, CommitFrom
    <3>2. to \in Nat
      <4>1. pre \in Nat /\ TrueIndex(i, c.aft) \in Nat
        BY <1>0, TrueIndexType DEF PreBound
      <4> QED
        BY <1>0, <4>1 DEF NameIndex, AftBound
    <3>3. Deliver(i, from, to)
      BY <2>1 DEF AEApply
    <3> HIDE DEF from, to
    <3>4. Delivers(i, to)
      BY <2>1, <3>1, <3>3 DEF Deliver, Delivers
    <3> QED
      BY <1>0, <3>2, <3>4 DEF Delivering
  <2>2. CASE ~(from < to)
    BY <2>2 DEF AEApply, Delivering, commitVars
  <2> QED
    BY <2>1, <2>2
<1> QED
  BY <1>1, <1>2, <1>3 DEF Orderly, NoneTaken

\* AppendEntry's writing of the log.
LEMMA AppendOrderly ==
  ASSUME SafetyInv, NEW c \in aeCalls, AEAppend(c)
  PROVE  Orderly
<1> DEFINE i == c.dst
           next == [c EXCEPT !.st = "reply", !.reply.success = TRUE, !.save = SaveDue(i)]
           new == {next}
<1>0. c \in AECall /\ i \in Server /\ c.pre = 0
  BY AEHave DEF AEAppend, SafetyInv, TypeInv, AEOK, PreCommitted, Prepared, KnowsPre
<1>1. UNCHANGED <<lastIndexInSnapshot, snapshot, isCalls, commitIndex, applied>>
  BY DEF AEAppend, commitVars
<1>2. next.src = c.src /\ next.dst = c.dst /\ next.st # "apply" /\ next.pre = 0
  BY <1>0 DEF AECall
<1>3. aeCalls' \subseteq aeCalls \cup new
  BY DEF AEAppend, AEDone
<1> HIDE DEF next
<1>4. \A d \in new : d.src = c.src /\ d.dst = c.dst /\ KnowsPre(d)
  BY <1>2 DEF KnowsPre
<1> HIDE DEF new
<1>5. Calling
  BY <1>3, <1>4, CallingKept
<1> QED
  BY <1>1, <1>5 DEF Orderly, NoneTaken, Delivering

\* The goroutines: no field of the peer but its slices and leaderNum changes, and
\* what is sent next is sent by a call in state "net".
LEMMA SenderOrderly ==
  ASSUME SafetyInv, NEW c \in aeCalls, AEFail(c) \/ AEHeartbeat(c) \/ AESuccess(c) \/ AEDeposed(c)
  PROVE  Orderly
<1>0. c \in AECall /\ KnowsPre(c) /\ SafetyInv
  BY DEF SafetyInv, TypeInv, AEOK, PreCommitted, Prepared
<1>1. UNCHANGED <<lastIndexInSnapshot, snapshot, isCalls, commitIndex, applied>>
  BY DEF AEFail, AEHeartbeat, AESuccess, AEDeposed, peerVars, logVars, commitVars, diskVars
<1>2. CASE AEHeartbeat(c) \/ AEDeposed(c)
  BY <1>1, <1>2 DEF AEHeartbeat, AEDeposed, Orderly, NoneTaken, Delivering, Calling
<1>3. CASE AEFail(c)
  <2> DEFINE again == [c EXCEPT !.st = "net", !.save = NoSave, !.pre = 0, !.aft = 0,
                                !.tries = @ + 1, !.reply = NoReply]
             unheard == [c EXCEPT !.live = FALSE, !.tries = AETries]
             new == {again, unheard}
  <2>1. aeCalls' \subseteq aeCalls \cup new
    BY <1>3 DEF AEFail, Launch
  <2>2. /\ again.src = c.src /\ again.dst = c.dst /\ again.st = "net" /\ again.pre = 0
        /\ unheard.src = c.src /\ unheard.dst = c.dst /\ unheard.st = c.st
        /\ unheard.pre = c.pre
    BY <1>0 DEF AECall
  <2> HIDE DEF again, unheard
  <2>3. \A d \in new : d.src = c.src /\ d.dst = c.dst /\ KnowsPre(d)
    BY <1>0, <2>2 DEF KnowsPre
  <2> HIDE DEF new
  <2>4. Calling
    BY <1>0, <2>1, <2>3, CallingKept
  <2> QED
    BY <1>1, <2>4 DEF Orderly, NoneTaken, Delivering
<1>4. CASE AESuccess(c)
  <2> DEFINE match == [matchIndex[c.src] EXCEPT ![c.dst] = MatchAfter(c)]
             commit == [c EXCEPT !.st = "commit", !.upTo = MedianMatch(match)]
             new == {FollowUp(c), commit}
  <2>0. c.pre = 0
    BY <1>0, <1>4 DEF AESuccess, Replied, KnowsPre
  <2>1. aeCalls' \subseteq aeCalls \cup new
    BY <1>4 DEF AESuccess, Launch
  <2>2. /\ commit.src = c.src /\ commit.dst = c.dst /\ commit.st = "commit"
        /\ commit.pre = 0
    BY <1>0, <2>0 DEF AECall
  <2>3. /\ FollowUp(c).src = c.src /\ FollowUp(c).dst = c.dst /\ FollowUp(c).st = "net"
        /\ FollowUp(c).pre = 0
    BY <1>0, <2>0 DEF AECall, FollowUp
  <2> HIDE DEF commit
  <2>4. \A d \in new : d.src = c.src /\ d.dst = c.dst /\ KnowsPre(d)
    BY <2>2, <2>3 DEF KnowsPre
  <2> HIDE DEF new
  <2>5. Calling
    BY <1>0, <2>1, <2>4, CallingKept
  <2> QED
    BY <1>1, <2>5 DEF Orderly, NoneTaken, Delivering
<1> QED
  BY <1>2, <1>3, <1>4

\* The leader's commit loop.
LEMMA CommitOrderly ==
  ASSUME SafetyInv, NEW c \in aeCalls, AECommit(c)
  PROVE  Orderly
<1> DEFINE i == c.src
           to == CommitEnd(c)
           commits == /\ leaderNum[i] = i /\ commitIndex[i] >= lastIndexInSnapshot[i]
                      /\ commitIndex[i] < to
<1>1. UNCHANGED <<lastIndexInSnapshot, snapshot, isCalls>>
  BY DEF AECommit, logVars, diskVars
<1>2. Calling
  BY DEF AECommit, Calling
<1>3. Delivering
  <2>1. CASE commits
    <3>1. i \in Server /\ to \in Nat
      <4>1. i \in Server /\ c.upTo \in Nat /\ LastLogIndex(i) \in Nat
        BY AEHave, LogFacts DEF SafetyInv, TypeInv, AEMay, AECall
      <4> QED
        BY <4>1 DEF CommitEnd
    <3>2. Delivers(i, to)
      BY <2>1 DEF AECommit, Deliver, Delivers
    <3> QED
      BY <3>1, <3>2 DEF Delivering
  <2>2. CASE ~commits
    BY <2>2 DEF AECommit, Delivering, commitVars
  <2> QED
    BY <2>1, <2>2
<1> QED
  BY <1>1, <1>2, <1>3 DEF Orderly, NoneTaken

\* A rejected goroutine never goes back below index 0, so it asks for no snapshot.
LEMMA RejectedOrderly ==
  ASSUME SafetyInv, NEW c \in aeCalls, AERejected(c)
  PROVE  Orderly
<1> DEFINE i == c.src
           prevlog == BackTo(c)
           stale == c.args.prevLogIndex <= matchIndex[i][c.dst]
<1>0. /\ c \in AECall /\ i \in Server /\ c.dst \in Server /\ TypeInv
      /\ lastIndexInSnapshot[i] = 0 /\ c.args.prevLogIndex \in Nat
      /\ matchIndex[i][c.dst] \in Nat /\ prevlog \in Int /\ Rejected(c) /\ ~RejectedPanics(c)
      /\ c.pre = 0
  <2>1. AEMay(c) /\ c.live /\ i \in Server /\ c.dst \in Server /\ TypeInv
    BY AEHave DEF AERejected, Rejected, Replied, SafetyInv
  <2>2. matchIndex[i] \in [Server -> Nat]
    BY <2>1, Made DEF AEMay
  <2>3. c.pre = 0
    BY DEF AERejected, Rejected, Replied, SafetyInv, PreCommitted, Prepared, KnowsPre
  <2> QED
    BY <2>1, <2>2, <2>3, AEHave, BackToType DEF AERejected, AEMay, AEArgs, SafetyInv, NoSnapshots
<1>1. ~(~stale /\ prevlog < lastIndexInSnapshot[i])
  <2> SUFFICES ASSUME ~stale, prevlog < lastIndexInSnapshot[i] PROVE FALSE
    OBVIOUS
  <2>1. c.args.prevLogIndex > matchIndex[i][c.dst]
    BY <1>0
  <2>2. prevlog < 0
    BY <1>0
  <2> QED
    BY <1>0, <2>1, <2>2 DEF RejectedPanics
<1>2. UNCHANGED <<lastIndexInSnapshot, snapshot, commitIndex, applied>>
  BY DEF AERejected, logVars, commitVars, diskVars
<1>3. /\ UNCHANGED isCalls
      /\ aeCalls' \subseteq aeCalls \cup {OneEntry(c, prevlog)}
  <2>1. \/ aeCalls' = aeCalls \ {c} /\ UNCHANGED isCalls
        \/ ~stale /\ prevlog < lastIndexInSnapshot[i]
        \/ Launch(aeCalls \ {c}, OneEntry(c, prevlog)) /\ UNCHANGED isCalls
    BY Zenon DEF AERejected
  <2> HIDE DEF prevlog, stale
  <2> QED
    BY <1>1, <2>1 DEF Launch
<1>4. Calling
  <2> DEFINE new == {OneEntry(c, prevlog)}
  <2>1. /\ OneEntry(c, prevlog).src = c.src /\ OneEntry(c, prevlog).dst = c.dst
        /\ OneEntry(c, prevlog).st = "net" /\ OneEntry(c, prevlog).pre = 0
    <3> HIDE DEF prevlog
    <3> QED
      BY <1>0 DEF OneEntry, AECall
  <2>2. \A d \in new : d.src = c.src /\ d.dst = c.dst /\ KnowsPre(d)
    <3> HIDE DEF prevlog
    <3> QED
      BY <2>1 DEF KnowsPre
  <2>3. aeCalls' \subseteq aeCalls \cup new
    BY <1>3
  <2> HIDE DEF new
  <2> QED
    BY <2>2, <2>3, CallingKept
<1> QED
  BY <1>2, <1>3, <1>4 DEF Orderly, NoneTaken, Delivering

\* The distribution: nextIndex is at least 1, so no peer needs a snapshot.
LEMMA SendOrderly ==
  ASSUME SafetyInv, NEW i \in Server, NEW j \in Server,
         LeaderSend(i, j) \/ LeaderSendSnapshot(i, j)
  PROVE  Orderly
<1>0. TypeInv /\ i # j /\ nextIndex[i] # NilSlice /\ lastIndexInSnapshot[i] = 0
  BY DEF LeaderSend, LeaderSendSnapshot, MaySend, SafetyInv, TypeInv, Slices, NoSnapshots
<1>1. nextIndex[i] \in [Server -> Nat \ {0}]
  BY <1>0, Made
<1>2. ~LeaderSendSnapshot(i, j)
  <2>1. ~(nextIndex[i][j] <= lastIndexInSnapshot[i])
    BY <1>0, <1>1
  <2> QED
    BY <2>1 DEF LeaderSendSnapshot
<1>3. UNCHANGED <<lastIndexInSnapshot, snapshot, isCalls, commitIndex, applied>>
  BY <1>2 DEF LeaderSend, peerVars, logVars, commitVars, diskVars
<1>4. Calling
  <2> DEFINE next == nextIndex[i][j]
             entries == IF next <= LastLogIndex(i) THEN LogFrom(i, TrueIndex(i, next)) ELSE << >>
             d == NewSender(i, j, entries)
  <2>1. aeCalls' \subseteq aeCalls \cup {d}
    BY <1>2 DEF LeaderSend, Launch
  <2> HIDE DEF entries
  <2>2. d.src = i /\ d.dst = j /\ d.st = "net" /\ d.pre = 0
    BY DEF NewSender
  <2> HIDE DEF d
  <2> QED
    BY <1>0, <2>1, <2>2 DEF Calling, Prepared, KnowsPre
<1> QED
  BY <1>3, <1>4 DEF Orderly, NoneTaken, Delivering

-----------------------------------------------------------------------------
(* Panics and crashes.                                                     *)

\* What is left of the calls knows nothing that the peer has forgotten.
LEMMA StopPrepared ==
  ASSUME SafetyInv, NEW i \in Server, StopCalls(i)
  PROVE  /\ isCalls' = {}
         /\ \A d \in aeCalls' : Prepared(d) /\ d.dst \in Server /\ (d.st = "apply" => d.dst # i)
<1>1. isCalls' = {}
  BY DEF StopCalls, ISAfterStop, SafetyInv, NoSnapshots
<1>2. ASSUME NEW d \in aeCalls'
      PROVE  Prepared(d) /\ d.dst \in Server /\ (d.st = "apply" => d.dst # i)
  <2>1. PICK c \in aeCalls :
          d = IF c.src = i THEN [c EXCEPT !.live = FALSE, !.tries = AETries] ELSE
              IF c.dst = i /\ AEServing(c)
                THEN [c EXCEPT !.st = "net", !.save = NoSave, !.pre = 0, !.aft = 0,
                               !.reply = NoReply, !.tries = @ + 1] ELSE c
    BY DEF StopCalls, AEAfterStop
  <2>2. c \in AECall /\ c.dst \in Server /\ Prepared(c) /\ c.src # c.dst
    BY AEHave DEF SafetyInv, AEMay, PreCommitted, Prepared
  <2>3. /\ d.src = c.src /\ d.dst = c.dst
        /\ (d.pre = c.pre /\ d.st = c.st) \/ (d.pre = 0 /\ d.st = "net")
    BY <2>1, <2>2 DEF AECall
  <2>4. c.dst = i => d.st # "apply"
    BY <2>1, <2>2 DEF AECall, AEServing
  <2> QED
    BY <2>2, <2>3, <2>4 DEF Prepared, KnowsPre
<1> QED
  BY <1>1, <1>2

\* A panic.
LEMMA PanicOrderly ==
  ASSUME SafetyInv, NEW i \in Server, Panic(i)
  PROVE  Orderly
<1>1. UNCHANGED <<lastIndexInSnapshot, snapshot, commitIndex, applied>>
  BY DEF Panic, logVars, commitVars, diskVars
<1>2. UNCHANGED isCalls /\ Calling
  BY StopPrepared DEF Panic, SafetyInv, NoSnapshots, Calling
<1> QED
  BY <1>1, <1>2 DEF Orderly, NoneTaken, Delivering

\* A crash, and Make on what the Persister kept.
LEMMA RestartKeeps ==
  ASSUME SafetyInv, TypeInv', NEW i \in Server, Restart(i)
  PROVE  SafetyInv'
<1>0. TypeInv /\ snapshot[i] = [index |-> 0, term |-> 0]
  BY DEF SafetyInv, NoSnapshots
<1>1. /\ lastIndexInSnapshot' = [lastIndexInSnapshot EXCEPT ![i] = 0]
      /\ commitIndex' = [commitIndex EXCEPT ![i] = 0]
      /\ applied' = [applied EXCEPT ![i] = [base |-> 0, msgs |-> << >>]]
      /\ UNCHANGED snapshot /\ StopCalls(i)
  BY <1>0 DEF Restart, diskVars
<1>2. NoSnapshots'
  BY <1>1, StopPrepared DEF SafetyInv, TypeInv, LogOK, NoSnapshots
<1>3. Ordered'
  <2>1. \A j \in Server : /\ commitIndex'[j] = IF j = i THEN 0 ELSE commitIndex[j]
                          /\ applied'[j] = IF j = i THEN [base |-> 0, msgs |-> << >>]
                                                   ELSE applied[j]
    BY <1>0, <1>1 DEF TypeInv, CommitOK
  <2>2. Len([base |-> 0, msgs |-> << >>].msgs) = 0
    OBVIOUS
  <2>3. ASSUME NEW j \in Server
        PROVE  /\ applied'[j].base = 0
               /\ commitIndex'[j] = Len(applied'[j].msgs)
               /\ \A k \in 1..Len(applied'[j].msgs) : applied'[j].msgs[k].index = k
    <3>1. CASE j = i
      BY <2>1, <2>2, <3>1
    <3>2. CASE j # i
      BY <2>1, <3>2 DEF SafetyInv, Ordered
    <3> QED
      BY <3>1, <3>2
  <2> QED
    BY <2>3 DEF Ordered
<1>4. PreCommitted'
  <2>1. ASSUME NEW d \in aeCalls'
        PROVE  /\ d.src # d.dst
               /\ IF d.st = "apply" THEN d.pre <= commitIndex'[d.dst] ELSE d.pre = 0
    <3>1. Prepared(d) /\ d.dst \in Server /\ (d.st = "apply" => d.dst # i)
      BY <1>1, StopPrepared
    <3>2. d.st = "apply" => commitIndex'[d.dst] = commitIndex[d.dst]
      BY <1>1, <3>1 DEF SafetyInv, TypeInv, CommitOK
    <3> QED
      BY <3>1, <3>2 DEF Prepared, KnowsPre
  <2> QED
    BY <2>1 DEF PreCommitted, Prepared, KnowsPre
<1> QED
  BY <1>2, <1>3, <1>4 DEF SafetyInv

-----------------------------------------------------------------------------
(* The theorems.                                                           *)

\* The invariant holds when the peers are made.
LEMMA SafetyInit ==
  Init => SafetyInv
<1> SUFFICES ASSUME Init PROVE SafetyInv
  OBVIOUS
<1>1. TypeInv
  BY TypeInit
<1>2. NoSnapshots /\ Ordered /\ PreCommitted
  BY DEF Init, Fresh, NoSnapshots, Ordered, PreCommitted
<1> QED
  BY <1>1, <1>2 DEF SafetyInv

\* Every step keeps it when no snapshot is ever asked for.
LEMMA SafetyNext ==
  ASSUME SnapshotAt = {}
  PROVE  SafetyInv /\ [Next]_vars => SafetyInv'
<1> SUFFICES ASSUME SafetyInv, [Next]_vars PROVE SafetyInv'
  OBVIOUS
<1>0. TypeInv'
  BY TypeNext DEF SafetyInv
<1>1. ASSUME NEW i \in Server, Main(i) PROVE SafetyInv'
  <2>1. Orderly
    BY <1>1, ElectionOrderly, SendOrderly DEF Main
  <2> QED
    BY <1>0, <2>1, OrderlyKeeps
<1>2. ASSUME NEW i \in Server, Restart(i) PROVE SafetyInv'
  BY <1>0, <1>2, RestartKeeps
<1>3. ASSUME NEW i \in Server, Panics(i) PROVE SafetyInv'
  BY <1>0, <1>3, PanicOrderly, OrderlyKeeps DEF Panics
<1>4. ASSUME NEW c \in rvCalls, Vote(c) PROVE SafetyInv'
  BY <1>0, <1>4, VoteOrderly, OrderlyKeeps
<1>5. ASSUME NEW c \in aeCalls, Replicate(c) PROVE SafetyInv'
  <2>1. Orderly
    BY <1>5, CheckOrderly, RangeOrderly, ApplyOrderly, AppendOrderly, SenderOrderly, CommitOrderly,
       RejectedOrderly DEF Replicate
  <2> QED
    BY <1>0, <2>1, OrderlyKeeps
<1>6. ASSUME NEW c \in isCalls, Install(c) PROVE SafetyInv'
  BY <1>6 DEF SafetyInv, NoSnapshots
<1>7. ASSUME Client PROVE SafetyInv'
  <2>1. Orderly
    BY <1>7, StartOrderly DEF Client
  <2> QED
    BY <1>0, <2>1, OrderlyKeeps
<1>8. CASE UNCHANGED vars
  <2>1. Orderly
    BY <1>8 DEF vars, peerVars, logVars, commitVars, diskVars,
                Orderly, NoneTaken, Delivering, Calling
  <2> QED
    BY <1>0, <2>1, OrderlyKeeps
<1> QED
  BY <1>1, <1>2, <1>3, <1>4, <1>5, <1>6, <1>7, <1>8 DEF Next

\* It always holds.
LEMMA SafetyAlways ==
  ASSUME SnapshotAt = {}
  PROVE  Spec => []SafetyInv
BY SafetyInit, SafetyNext, PTL DEF Spec

\* While no service asks for a snapshot, every service receives on applyCh the
\* entries 1, 2, 3, ... of its incarnation, each once, and commitIndex is the
\* last of them: handlers that overlap never deliver twice or leave a gap.
THEOREM DeliveryInOrder ==
  ASSUME SnapshotAt = {}
  PROVE  Spec => []ApplyInOrder
<1>1. SafetyInv => ApplyInOrder
  <2> SUFFICES ASSUME SafetyInv PROVE ApplyInOrder
    OBVIOUS
  <2>1. \A i \in Server : applied[i].msgs \in Seq(Message)
    BY DEF SafetyInv, TypeInv, CommitOK
  <2>2. \A i \in Server : Len(applied[i].msgs) \in Nat
    BY <2>1
  <2> QED
    BY <2>2 DEF SafetyInv, Ordered, ApplyInOrder
<1> QED
  BY <1>1, SafetyAlways, PTL
=============================================================================
