-------------------------------- MODULE RaftBase --------------------------------
(***************************************************************************)
(* The Raft peer of src/src/raft/raft.go: mainProcess and its three roles, *)
(* the RPC handlers RequestVote, AppendEntry and InstallSnapShot, the      *)
(* goroutines that send them, Start, TakeSnapshots, persist and Make.      *)
(*                                                                         *)
(* One action is what a goroutine does between two points where it can be  *)
(* delayed for long: an RPC, a wait on a channel or a timer, or the        *)
(* acquisition of rf.mu.  The code reads shared fields without rf.mu and   *)
(* takes the lock afterwards; those windows are separate actions here:     *)
(*   RequestVote  RVCheck, RVLock, RVGrant                                 *)
(*   AppendEntry  AECheck, AETerm, AEPass, AERange, AEApply, AEAppend      *)
(*   InstallSnapShot  ISCheck, ISLock, ISDeliver                           *)
(*   Start        StartCheck, StartAppend                                  *)
(*   the AE reply AESuccess, AECommit                                      *)
(* persist() follows the unlock: it encodes the term and the log that the  *)
(* peer has by then (..Encode), saves what it encoded (..Save), and only   *)
(* then does its goroutine go on.  Only a crash reads what was saved.      *)
(*                                                                         *)
(* log[i] is the Go slice: true index k is position k+1, and position 1    *)
(* holds the sentinel, or the last entry covered by the snapshot.          *)
(***************************************************************************)
EXTENDS Integers, Sequences, FiniteSets, FiniteSetsExt

CONSTANTS Server,        \* the peers
          Node0,         \* the peer whose number is 0
          Value,         \* commands; each is handed to Start at most once
          Nil,           \* the command of a sentinel entry
          None,          \* leaderNum or votedFor = -1
          MaxTerm,       \* bound: no timer fires in this term
          Timers,        \* bound: the peers whose timers fire at all
          Delayed,       \* bound: the peers whose persist() others can overtake
          Links,         \* bound: the pairs <<i, j>> such that i replicates to j
          MaxRestart,    \* bound: crashes in a behaviour
          MaxSenders,    \* bound: AppendEntry goroutines of one pair of peers
          RVTries,       \* attempts per RequestVote   (3 in the code)
          AETries,       \* attempts per AppendEntry   (8 in the code)
          ISTries,       \* attempts per InstallSnapShot (5 in the code)
          SnapshotAt     \* the indexes at which the service asks for a snapshot

\* AENotifyChan has capacity len(peers); three slots are needed for AppendEntry
\* never to block on it.
ASSUME ServerAssumption ==
  /\ IsFiniteSet(Server)
  /\ Cardinality(Server) >= 3
  /\ Node0 \in Server
  /\ None \notin Server
  /\ Nil \notin Value

ASSUME BoundAssumption ==
  /\ Timers \subseteq Server /\ Delayed \subseteq Server
  /\ Links \subseteq Server \X Server
  /\ MaxTerm \in Nat /\ MaxRestart \in Nat /\ MaxSenders \in Nat
  /\ RVTries \in Nat \ {0} /\ AETries \in Nat \ {0} /\ ISTries \in Nat \ {0}
  /\ SnapshotAt \subseteq Nat

VARIABLES
  role,         \* where mainProcess is
  currentTerm,
  leaderNum,
  votedFor,
  log,
  commitIndex,
  lastIndexInSnapshot,
  lastTermInSnapshot,
  nextIndex,
  matchIndex,   \* NilSlice until the first LeaderProcess
  termList,     \* the terms of the log when LeaderProcess began
  notify,       \* tokens in AENotifyChan
  granted,      \* votes counted by the current CandidateProcess
  mainSave,     \* the persist() that mainProcess is in
  persisted,    \* the Persister's raftstate; an empty log means none yet
  snapshot,     \* the Persister's snapshot; index 0 means none yet
  rvCalls, aeCalls, isCalls,  \* RPCs under way, and their goroutines
  starts,       \* Start calls under way
  proposed,     \* the commands handed to Start so far
  restarts,     \* crashes so far
  applied,      \* what the service received on applyCh in this incarnation
  delivered     \* history: every (index, command) any service received

electionVars == <<role, votedFor, granted, mainSave>>
termVars == <<currentTerm, leaderNum>>
logVars == <<log, lastIndexInSnapshot, lastTermInSnapshot>>
commitVars == <<commitIndex, applied, delivered>>
leaderVars == <<nextIndex, matchIndex, termList>>
diskVars == <<persisted, snapshot>>
startVars == <<starts, proposed>>
peerVars == <<electionVars, termVars, logVars, commitVars, leaderVars, diskVars,
              startVars, restarts>>
vars == <<peerVars, notify, rvCalls, aeCalls, isCalls>>

-----------------------------------------------------------------------------
(* The records that the variables hold.                                    *)

Entry == [term : Nat, cmd : Value \cup {Nil}]
NilSlice == << >>

\* A goroutine's persist(): none, about to encode, or about to save what it encoded.
Save == [st : {"none", "encode", "write"}, term : Nat, log : Seq(Entry)]
NoSave == [st |-> "none", term |-> 0, log |-> << >>]
ToSave == [st |-> "encode", term |-> 0, log |-> << >>]

RVCall == [src : Server, dst : Server, term : Nat, lastIndex : Nat,
           lastTerm : Nat, st : {"net", "lock", "grant", "reply"}, save : Save,
           replyTerm : Nat, voteGranted : BOOLEAN, tries : Nat, live : BOOLEAN]

AEArgs == [term : Nat, prevLogIndex : Nat, prevLogTerm : Nat,
           entries : Seq(Entry), leaderCommit : Nat]
AEReply == [term : Nat, success : BOOLEAN, lastLogIndex : Nat,
            commitIndex : Nat, termOfPrev : Nat]
TermList == [snap : Nat, terms : Seq(Nat)]

\* appEnTerm, prev and termList are the variables the goroutine closes over;
\* pre and aft are the handler's pre/aftCommitIndex; upTo is toBeCommitIndex.
AECall == [src : Server, dst : Server, args : AEArgs, appEnTerm : Nat,
           prev : Nat, termList : TermList,
           st : {"net", "term", "check", "range", "apply", "append", "reply", "commit"},
           save : Save, pre : Nat, aft : Nat, upTo : Nat, reply : AEReply,
           tries : Nat, live : BOOLEAN]

StartCall == [node : Server, cmd : Value, term : Nat, save : Save]

Snapshot == [index : Nat, term : Nat]

\* sender is the AppendEntry goroutine that called sendSnapShot; inLoop tells
\* that it is LeaderProcess itself, about to start that goroutine.
ISCall == [src : Server, dst : Server, term : Nat, index : Nat,
           lastTerm : Nat, data : Snapshot,
           st : {"net", "lock", "deliver", "reply"}, replyTerm : Nat,
           err : 0..3, value : Nat, tries : Nat, live : BOOLEAN,
           inLoop : BOOLEAN, sender : AECall]

NoReply == [term |-> 0, success |-> FALSE, lastLogIndex |-> 0,
            commitIndex |-> 0, termOfPrev |-> 0]

-----------------------------------------------------------------------------
(* Helpers.                                                                *)

LastLogIndex(i) == lastIndexInSnapshot[i] + Len(log[i]) - 1

TrueIndex(i, n) ==
  IF n < lastIndexInSnapshot[i] THEN 0 ELSE n - lastIndexInSnapshot[i]

NameIndex(i, k) == k + lastIndexInSnapshot[i]

At(i, k) == log[i][k + 1]

LastLogTerm(i) == log[i][Len(log[i])].term

Up(i) == role[i] # "panic"

\* majority := int(float32(peersNum)/2 + 0.5)
Majority == (Cardinality(Server) + 1) \div 2

\* The Persister: both parts are replaced as one.
SaveRaftState(i, state) == persisted' = [persisted EXCEPT ![i] = state]
SaveStateAndSnapshot(i, state, data) ==
  /\ SaveRaftState(i, state)
  /\ snapshot' = [snapshot EXCEPT ![i] = data]

\* persist(): currentTerm and log only, neither votedFor nor lastIndexInSnapshot,
\* encoded without rf.mu, and saved whatever has changed or been saved since.
Encoded(i) == [st |-> "write", term |-> currentTerm[i], log |-> log[i]]
Persist(i, save) == SaveRaftState(i, [term |-> save.term, log |-> save.log])

\* The start of persist(), for a peer that has term and entries by now: elsewhere
\* than at the Delayed peers it is over at once.
SaveDue(i) == IF i \in Delayed THEN ToSave ELSE NoSave
PersistBegins(i, term, entries) ==
  IF i \in Delayed THEN UNCHANGED persisted
  ELSE SaveRaftState(i, [term |-> term, log |-> entries])

\* Slips: the length is not tested; the token is forgotten.
PushedAlways(i, limit) == notify[i] + 1
PushedNever(i, limit) == notify[i]

\* if len(AENotifyChan) < limit { AENotifyChan <- true }
Pushed(i, limit) == IF notify[i] < limit THEN notify[i] + 1 ELSE notify[i]
Notify(i, limit) == notify' = [notify EXCEPT ![i] = Pushed(i, limit)]

TimerFires(i) == i \in Timers /\ currentTerm[i] < MaxTerm

\* Follower and LeaderProcess also receive tokens, which resets a timer or shows
\* that leaderNum has not changed, and has no other effect.  What they have
\* received by the time they end is chosen then.
TokensLeft(i, most) ==
  notify' \in {[notify EXCEPT ![i] = n] : n \in {m \in 0..most : m <= notify[i]}}

\* The service receives the entries with name indexes from + 1 .. to.
Messages(i, from, to) ==
  [k \in 1..(to - from) |-> [index |-> from + k,
                             cmd |-> At(i, TrueIndex(i, from + k)).cmd]]

Deliver(i, from, to) ==
  /\ commitIndex' = [commitIndex EXCEPT ![i] = to]
  /\ applied' = [applied EXCEPT ![i].msgs = @ \o Messages(i, from, to)]
  /\ delivered' = delivered \cup
       {Messages(i, from, to)[k] : k \in 1..(to - from)}

\* sort.Ints(match)[len/2]: the largest index that at least len - len/2 of
\* the peers have reached.
MedianMatch(match) ==
  Max({match[j] : j \in Server} \cap
      {m \in Nat : Cardinality({j \in Server : match[j] >= m})
                     >= Cardinality(Server) - Cardinality(Server) \div 2})

-----------------------------------------------------------------------------
(* Make.                                                                   *)

Fresh ==
  /\ currentTerm = [i \in Server |-> 0]
  /\ leaderNum = [i \in Server |-> None]
  /\ log = [i \in Server |-> <<[term |-> 0, cmd |-> Nil]>>]
  /\ commitIndex = [i \in Server |-> 0]
  /\ mainSave = [i \in Server |-> NoSave]
  /\ lastIndexInSnapshot = [i \in Server |-> 0]
  /\ lastTermInSnapshot = [i \in Server |-> 0]
  /\ nextIndex = [i \in Server |-> NilSlice]
  /\ matchIndex = [i \in Server |-> NilSlice]
  /\ termList = [i \in Server |-> [snap |-> 0, terms |-> << >>]]
  /\ notify = [i \in Server |-> 0]
  /\ persisted = [i \in Server |-> [term |-> 0, log |-> << >>]]
  /\ snapshot = [i \in Server |-> [index |-> 0, term |-> 0]]
  /\ rvCalls = {} /\ aeCalls = {} /\ isCalls = {}
  /\ starts = {} /\ proposed = {}
  /\ restarts = 0
  /\ applied = [i \in Server |-> [base |-> 0, msgs |-> << >>]]
  /\ delivered = {}

Init ==
  /\ Fresh
  /\ role = [i \in Server |-> "main"]
  /\ votedFor = [i \in Server |-> None]
  /\ granted = [i \in Server |-> 0]

\* The handler of the call is running.
RVServing(c) == c.st \in {"lock", "grant"}
AEServing(c) ==
  c.st \in {"term", "check", "range", "apply", "append"} \/ c.save.st # "none"
ISServing(c) == c.st \in {"lock", "deliver"}

\* What is left of the RPCs when peer i stops: requests it sent may still
\* arrive, replies to it are lost, and calls its handlers served fail.
RVAfterStop(i) ==
  {IF c.src = i THEN [c EXCEPT !.live = FALSE, !.tries = RVTries] ELSE
   IF c.dst = i /\ RVServing(c)
     THEN [c EXCEPT !.st = "net", !.save = NoSave, !.tries = @ + 1] ELSE c :
   c \in {d \in rvCalls : /\ ~(d.src = i /\ d.st = "reply")
                          /\ ~(d.dst = i /\ RVServing(d) /\ d.tries + 1 >= RVTries)}}

AEAfterStop(i) ==
  {IF c.src = i THEN [c EXCEPT !.live = FALSE, !.tries = AETries] ELSE
   IF c.dst = i /\ AEServing(c)
     THEN [c EXCEPT !.st = "net", !.save = NoSave, !.pre = 0, !.aft = 0,
                    !.reply = NoReply, !.tries = @ + 1] ELSE c :
   c \in {d \in aeCalls : /\ ~(d.src = i /\ d.st = "reply" /\ ~AEServing(d))
                          /\ ~(d.src = i /\ d.st = "commit")
                          /\ ~(d.dst = i /\ AEServing(d) /\ d.tries + 1 >= AETries)}}

ISAfterStop(i) ==
  {IF c.src = i THEN [c EXCEPT !.live = FALSE, !.tries = ISTries] ELSE
   IF c.dst = i /\ ISServing(c)
     THEN [c EXCEPT !.st = IF c.tries + 1 < ISTries THEN "net" ELSE "reply",
                    !.tries = @ + 1] ELSE c :
   c \in {d \in isCalls : /\ ~(d.src = i /\ d.st = "reply")
                          /\ ~(d.dst = i /\ ISServing(d) /\ ~d.live)}}

StopCalls(i) ==
  /\ rvCalls' = RVAfterStop(i)
  /\ aeCalls' = AEAfterStop(i)
  /\ isCalls' = ISAfterStop(i)
  /\ starts' = {s \in starts : s.node # i}

\* readSnapshotPersist leaves one entry, which readPersist replaces.
RecoveredLog(i) ==
  IF persisted[i].log = << >> THEN <<[term |-> snapshot[i].term, cmd |-> Nil]>>
  ELSE persisted[i].log

\* A crash, and Make on what the Persister kept.
Restart(i) ==
  /\ Up(i) /\ restarts < MaxRestart
  /\ restarts' = restarts + 1
  /\ role' = [role EXCEPT ![i] = "main"]
  /\ votedFor' = [votedFor EXCEPT ![i] = None]
  /\ leaderNum' = [leaderNum EXCEPT ![i] = None]
  /\ lastIndexInSnapshot' = [lastIndexInSnapshot EXCEPT ![i] = snapshot[i].index]
  /\ lastTermInSnapshot' = [lastTermInSnapshot EXCEPT ![i] = snapshot[i].term]
  /\ commitIndex' = [commitIndex EXCEPT ![i] = snapshot[i].index]
  /\ applied' = [applied EXCEPT ![i] = [base |-> snapshot[i].index, msgs |-> << >>]]
  /\ currentTerm' = [currentTerm EXCEPT ![i] = persisted[i].term]
  /\ log' = [log EXCEPT ![i] = RecoveredLog(i)]
  /\ nextIndex' = [nextIndex EXCEPT ![i] = NilSlice]
  /\ matchIndex' = [matchIndex EXCEPT ![i] = NilSlice]
  /\ termList' = [termList EXCEPT ![i] = [snap |-> 0, terms |-> << >>]]
  /\ notify' = [notify EXCEPT ![i] = 0]
  /\ granted' = [granted EXCEPT ![i] = 0]
  /\ mainSave' = [mainSave EXCEPT ![i] = NoSave]
  /\ StopCalls(i)
  /\ UNCHANGED <<diskVars, delivered, proposed>>

\* A Go panic: the process ends and is not restarted.
Panic(i) ==
  /\ role' = [role EXCEPT ![i] = "panic"]
  /\ StopCalls(i)
  /\ UNCHANGED <<votedFor, granted, mainSave, termVars, logVars, commitVars,
                 leaderVars, diskVars, proposed, notify, restarts>>
=============================================================================
