------------------------------- MODULE KVRaft -------------------------------
(***************************************************************************)
(* The key/value service of src/src/kvraft: the handlers Get and PutAppend,*)
(* the goroutine mainProcess that applies what Raft sends on applyCh, the  *)
(* snapshots it asks Raft for, and the clerks.                             *)
(*                                                                         *)
(* Raft is what a server sees of it: GetLeaderNum, Start, applyCh,         *)
(* TakeSnapshots and the snapshot Make reads.  chosen is the agreed log;   *)
(* pending[s] is what the log of s holds after it.  rf.mu is held across   *)
(* steps, by a sender on applyCh and by TakeSnapshots; what happens under  *)
(* kv.mu never blocks and is one step.                                     *)
(***************************************************************************)
EXTENDS Integers, Sequences, FiniteSets

CONSTANTS Server,
          First,       \* the server elected first
          Clerk,
          Key,
          Value,
          Script,      \* bound: Script[c][k] is what clerk c may ask for as its
                       \* k-th request
          None,
          MaxElect,    \* bound: elections
          MaxFault,    \* bound: crashes, and calls that fail on a live server
          MaxSnapshot, \* bound: goroutines of TakeSnapshots
          MaxInstall   \* bound: snapshots sent to a server that is behind

Request == [type : {"Get", "Put", "Append"}, key : Key, value : Value]

\* What mainProcess keeps, what readSnapshotPersist saves of it, and an ApplyMsg.
Maps == [seqs : [Clerk -> Nat], rsm : [Key -> Seq(Value)], upto : Nat]
Saved == [index : Nat, seqs : [Clerk -> Nat], rsm : [Key -> Seq(Value)], upto : Nat]
ApplyMsg == [valid : {TRUE}, index : Nat] \cup [valid : {FALSE}, data : Saved]

ASSUME KVAssumption ==
  /\ Script \in [Clerk -> Seq(SUBSET Request)]
  /\ First \in Server
  /\ None \notin Server /\ None \notin Maps /\ None \notin Saved /\ None \notin ApplyMsg

VARIABLES
  chosen,               \* Raft's log as far as it is agreed on
  pending,              \* what a server's log holds after it
  leads,                \* the servers with GetLeaderNum() = me
  elected, term,        \* the last server elected; the number of its election
  commitIndex,          \* Raft's: what has been, or is being, sent on applyCh
  outbox,               \* the messages the holder of rf.mu has still to send
  install,              \* the snapshot message readSnapshotPersist has to send
  booting,              \* the servers whose Make has not returned
  lastIndexInSnapshot,
  snapshot,             \* the Persister's
  got,                  \* the message mainProcess has taken and not yet applied
  rsm,
  ClientMaxRequestSeq,
  curCommitIndex,
  resultMap,
  snaps,                \* goroutines of TakeSnapshots
  handlers,             \* RPC handlers under way
  clerk,                \* what each clerk is doing
  faults, taken, installs,
  upto,                 \* history: how much of the log rsm reflects
  overtaken,            \* history: an entry overtook the snapshot before it
  floor,                \* history: the last log position a returned call is sure of
  acked, answers        \* history: the writes and reads that returned

raftVars == <<chosen, pending, leads, elected, term>>
applyVars == <<commitIndex, outbox, install, booting>>
diskVars == <<lastIndexInSnapshot, snapshot, taken, installs>>
serviceVars == <<got, rsm, ClientMaxRequestSeq, curCommitIndex, resultMap, snaps, upto, overtaken>>
clientVars == <<handlers, clerk, floor, acked, answers>>
vars == <<raftVars, applyVars, diskVars, serviceVars, clientVars, faults>>

\* A key that is absent reads as the empty string, a client that is absent as 0.
NoData == [k \in Key |-> << >>]
NoSeqs == [c \in Clerk |-> 0]
NoSnapshot == [index |-> 0, seqs |-> NoSeqs, rsm |-> NoData, upto |-> 0]

\* MakeClerk, and the clerk between two requests
Idle(seq, leader) ==
  [st |-> "idle", seq |-> seq, leader |-> leader, req |-> None, floor |-> 0]

Init ==
  /\ chosen = << >> /\ pending = [s \in Server |-> << >>]
  /\ elected = First /\ leads = {First} /\ term = 1
  /\ commitIndex = [s \in Server |-> 0]
  /\ outbox = [s \in Server |-> << >>]
  /\ install = [s \in Server |-> None]
  /\ booting = {}
  /\ lastIndexInSnapshot = [s \in Server |-> 0]
  /\ snapshot = [s \in Server |-> NoSnapshot]
  /\ got = [s \in Server |-> None]
  /\ rsm = [s \in Server |-> NoData]
  /\ ClientMaxRequestSeq = [s \in Server |-> NoSeqs]
  /\ curCommitIndex = [s \in Server |-> 0]
  /\ resultMap = [s \in Server |-> << >>]
  /\ snaps = {} /\ handlers = {}
  /\ clerk = [c \in Clerk |-> Idle(1, None)]
  /\ faults = 0 /\ taken = 0 /\ installs = 0
  /\ upto = [s \in Server |-> 0] /\ overtaken = FALSE
  /\ floor = 0 /\ acked = {} /\ answers = {}

-----------------------------------------------------------------------------
(* Raft, as far as a server can tell.                                      *)

\* A server that does not lead is elected.  Its log may hold what the old leader
\* had replicated so far.
Elect(s) ==
  /\ term < MaxElect /\ s \notin booting \cup leads
  /\ leads' = leads \cup {s} /\ elected' = s /\ term' = term + 1
  /\ \/ UNCHANGED pending
     \/ /\ s # elected
        /\ \E n \in 1..Len(pending[elected]) :
             pending' = [pending EXCEPT ![s] = SubSeq(pending[elected], 1, n)]
  /\ UNCHANGED <<chosen, applyVars, diskVars, serviceVars, clientVars, faults>>

\* A deposed server learns of it.
StepDown(s) ==
  /\ s \in leads /\ s # elected
  /\ leads' = leads \ {s}
  /\ UNCHANGED <<chosen, pending, elected, term, applyVars, diskVars, serviceVars,
                 clientVars, faults>>

\* The leader's next entry is agreed on; a server that holds another one drops it.
Commit ==
  /\ elected \in leads /\ pending[elected] # << >>
  /\ LET e == Head(pending[elected]) IN
       /\ chosen' = Append(chosen, e)
       /\ pending' = [s \in Server |->
            IF pending[s] # << >> /\ Head(pending[s]) = e THEN Tail(pending[s]) ELSE << >>]
  /\ UNCHANGED <<leads, elected, term, applyVars, diskVars, serviceVars, clientVars, faults>>

\* rf.mu of s is held by a sender on applyCh or by TakeSnapshots.
Locked(s) == outbox[s] # << >> \/ \E g \in snaps : g.srv = s /\ g.st = "locked"

\* Slip: what the server's own log holds, agreed on or not.
DeliverableAll(s) == (commitIndex[s] + 1)..(Len(chosen) + Len(pending[s]))

Deliverable(s) == (commitIndex[s] + 1)..Len(chosen)

\* The commit loop of the leader, or AppendEntry of a follower, locks rf.mu and
\* begins to send the entries up to n.
Deliver(s) ==
  /\ ~Locked(s) /\ s \notin booting
  /\ s \in leads => s = elected
  /\ \E n \in Deliverable(s) :
       /\ outbox' = [outbox EXCEPT ![s] = [k \in 1..(n - commitIndex[s]) |-> commitIndex[s] + k]]
       /\ commitIndex' = [commitIndex EXCEPT ![s] = n]
  /\ UNCHANGED <<raftVars, install, booting, diskVars, serviceVars, clientVars, faults>>

\* InstallSnapShot, up to the unlock in readSnapshotPersist, at a server that is
\* behind the leader's snapshot: its log is dropped.  (One at a time at a server.)
Install(s) ==
  LET data == snapshot[elected] IN
  /\ installs < MaxInstall
  /\ elected \in leads /\ s # elected /\ s \notin leads
  /\ s \notin booting /\ ~Locked(s) /\ install[s] = None
  /\ commitIndex[s] < data.index /\ lastIndexInSnapshot[s] < data.index
  /\ installs' = installs + 1
  /\ lastIndexInSnapshot' = [lastIndexInSnapshot EXCEPT ![s] = data.index]
  /\ commitIndex' = [commitIndex EXCEPT ![s] = data.index]
  /\ pending' = [pending EXCEPT ![s] = << >>]
  /\ install' = [install EXCEPT ![s] = data]
  /\ UNCHANGED <<chosen, leads, elected, term, outbox, booting, snapshot, taken, serviceVars, clientVars, faults>>

-----------------------------------------------------------------------------
(* mainProcess.                                                            *)

\* Slip: mainProcess waits for the goroutine of TakeSnapshots it has started.
ReceivesAfterSnapshot(s) == got[s] = None /\ ~\E g \in snaps : g.srv = s

Receives(s) == got[s] = None

\* The sender that holds rf.mu unlocks it after its last message.
ReceiveCommand(s) ==
  /\ Receives(s) /\ outbox[s] # << >>
  /\ got' = [got EXCEPT ![s] = [valid |-> TRUE, index |-> Head(outbox[s])]]
  /\ outbox' = [outbox EXCEPT ![s] = Tail(@)]
  /\ overtaken' = (overtaken \/ install[s] # None)
  /\ UNCHANGED <<raftVars, commitIndex, install, booting, diskVars, rsm, ClientMaxRequestSeq,
                 curCommitIndex, resultMap, snaps, upto, clientVars, faults>>

\* readSnapshotPersist sends without rf.mu, and saves; Make goes on.
ReceiveSnapshot(s) ==
  /\ Receives(s) /\ install[s] # None
  /\ got' = [got EXCEPT ![s] = [valid |-> FALSE, data |-> install[s]]]
  /\ install' = [install EXCEPT ![s] = None]
  /\ snapshot' = [snapshot EXCEPT ![s] = install[s]]
  /\ booting' = booting \ {s}
  /\ UNCHANGED <<raftVars, commitIndex, outbox, lastIndexInSnapshot, taken, installs, rsm,
                 ClientMaxRequestSeq, curCommitIndex, resultMap, snaps, upto, overtaken,
                 clientVars, faults>>

\* Slip: the table of the requests that have been applied is not restored.
RestoredNoSeqs(s, data) == ClientMaxRequestSeq[s]

RestoredSeqs(s, data) == data.seqs

\* The maps are replaced; goroutines of TakeSnapshots keep the old ones.
ApplySnapshot(s) ==
  LET data == got[s].data IN
  /\ got[s] # None /\ ~got[s].valid
  /\ got' = [got EXCEPT ![s] = None]
  /\ ClientMaxRequestSeq' = [ClientMaxRequestSeq EXCEPT ![s] = RestoredSeqs(s, data)]
  /\ rsm' = [rsm EXCEPT ![s] = data.rsm]
  /\ snaps' = {IF g.srv = s /\ g.old = None
                 THEN [g EXCEPT !.old = [seqs |-> ClientMaxRequestSeq[s], rsm |-> rsm[s], upto |-> upto[s]]]
                 ELSE g : g \in snaps}
  /\ upto' = [upto EXCEPT ![s] = data.upto]
  /\ UNCHANGED <<raftVars, applyVars, diskVars, curCommitIndex, resultMap, overtaken, clientVars,
                 faults>>

CommID(op) == <<op.client, op.seq>>

\* Slip: only a request older than the latest one is taken for a repetition.
RepeatedOlder(s, op) == op.seq < ClientMaxRequestSeq[s][op.client]

Repeated(s, op) == op.seq <= ClientMaxRequestSeq[s][op.client]

\* Put replaces the value, Append adds to it.
Written(data, req) ==
  [data EXCEPT ![req.key] = IF req.type = "Put" THEN <<req.value>> ELSE Append(@, req.value)]

\* Raft's state may or may not have outgrown maxraftstate.
Outgrown(s, index) ==
  \/ UNCHANGED <<snaps, taken>>
  \/ /\ taken < MaxSnapshot
     /\ taken' = taken + 1
     /\ snaps' = snaps \cup {[srv |-> s, index |-> index, st |-> "new", old |-> None]}

ApplyCommand(s) ==
  LET index == got[s].index
      op == chosen[index].op
  IN
  /\ got[s] # None /\ got[s].valid
  /\ got' = [got EXCEPT ![s] = None]
  /\ \/ /\ op.req.type = "Get"
        /\ resultMap' = [resultMap EXCEPT ![s] =
             [id \in DOMAIN @ \cup {CommID(op)} |->
                IF id = CommID(op) THEN rsm[s][op.req.key] ELSE @[id]]]
        /\ UNCHANGED <<rsm, ClientMaxRequestSeq>>
     \/ /\ op.req.type # "Get" /\ Repeated(s, op)
        /\ UNCHANGED <<rsm, ClientMaxRequestSeq, resultMap>>
     \/ /\ op.req.type # "Get" /\ ~Repeated(s, op)
        /\ ClientMaxRequestSeq' = [ClientMaxRequestSeq EXCEPT ![s][op.client] = op.seq]
        /\ rsm' = [rsm EXCEPT ![s] = Written(@, op.req)]
        /\ UNCHANGED resultMap
  /\ curCommitIndex' = [curCommitIndex EXCEPT ![s] = IF @ < index THEN index ELSE @]
  /\ upto' = [upto EXCEPT ![s] = IF @ < index THEN index ELSE @]
  /\ Outgrown(s, index)
  /\ UNCHANGED <<raftVars, applyVars, lastIndexInSnapshot, snapshot, installs, overtaken,
                 clientVars, faults>>

-----------------------------------------------------------------------------
(* TakeSnapshots.                                                          *)

\* Its test of endIndex, made without rf.mu and again with it.
Useless(g) == g.index - 1 < 1 \/ g.index - 1 <= lastIndexInSnapshot[g.srv]

SnapshotReturn(g) ==
  /\ g.st = "new" /\ Useless(g)
  /\ snaps' = snaps \ {g}
  /\ UNCHANGED <<raftVars, applyVars, diskVars, got, rsm, ClientMaxRequestSeq, curCommitIndex,
                 resultMap, upto, overtaken, clientVars, faults>>

SnapshotLock(g) ==
  /\ g.st = "new" /\ ~Useless(g) /\ ~Locked(g.srv)
  /\ snaps' = (snaps \ {g}) \cup {[g EXCEPT !.st = "locked"]}
  /\ UNCHANGED <<raftVars, applyVars, diskVars, got, rsm, ClientMaxRequestSeq, curCommitIndex,
                 resultMap, upto, overtaken, clientVars, faults>>

\* Under kv.mu the maps are encoded as they are now, which may be later than
\* endIndex; the log is truncated and both are saved.
SnapshotSave(g) ==
  LET s == g.srv
      maps == IF g.old = None
                THEN [seqs |-> ClientMaxRequestSeq[s], rsm |-> rsm[s], upto |-> upto[s]]
                ELSE g.old
  IN
  /\ g.st = "locked"
  /\ snaps' = snaps \ {g}
  /\ lastIndexInSnapshot' = [lastIndexInSnapshot EXCEPT ![s] = g.index - 1]
  /\ snapshot' = [snapshot EXCEPT ![s] =
       [index |-> g.index - 1, seqs |-> maps.seqs, rsm |-> maps.rsm, upto |-> maps.upto]]
  /\ UNCHANGED <<raftVars, applyVars, taken, installs, got, rsm, ClientMaxRequestSeq,
                 curCommitIndex, resultMap, upto, overtaken, clientVars, faults>>

\* The server is stopped and started again: StartKVServer, with empty maps, and
\* Make, which first sends the saved snapshot.  Its handlers never answer.
Crash(s) ==
  /\ faults < MaxFault
  /\ faults' = faults + 1
  /\ leads' = leads \ {s}
  /\ outbox' = [outbox EXCEPT ![s] = << >>]
  /\ LET saved == snapshot[s] IN
       /\ install' = [install EXCEPT ![s] = IF saved.index > 0 THEN saved ELSE None]
       /\ booting' = IF saved.index > 0 THEN booting \cup {s} ELSE booting
       /\ commitIndex' = [commitIndex EXCEPT ![s] = saved.index]
       /\ lastIndexInSnapshot' = [lastIndexInSnapshot EXCEPT ![s] = saved.index]
  /\ got' = [got EXCEPT ![s] = None]
  /\ rsm' = [rsm EXCEPT ![s] = NoData]
  /\ ClientMaxRequestSeq' = [ClientMaxRequestSeq EXCEPT ![s] = NoSeqs]
  /\ curCommitIndex' = [curCommitIndex EXCEPT ![s] = 0]
  /\ resultMap' = [resultMap EXCEPT ![s] = << >>]
  /\ upto' = [upto EXCEPT ![s] = 0]
  /\ snaps' = {g \in snaps : g.srv # s}
  /\ handlers' = {h \in handlers : h.srv # s}
  /\ UNCHANGED <<chosen, pending, elected, term, snapshot, taken, installs, overtaken,
                 clerk, floor, acked, answers>>

-----------------------------------------------------------------------------
(* The handlers, and the clerks that call them.                            *)

NoTerm == 0

\* Get and PutAppend of the clerk: the next sequence number.
ClerkBegin(c) ==
  \E req \in IF clerk[c].seq <= Len(Script[c]) THEN Script[c][clerk[c].seq] ELSE {} :
  /\ clerk[c].st = "idle"
  /\ clerk' = [clerk EXCEPT ![c].st = "send", ![c].req = req, ![c].floor = floor]
  /\ UNCHANGED <<raftVars, applyVars, diskVars, serviceVars, handlers, floor, acked,
                 answers, faults>>

\* WrongLeader, or Call returned false: any server is tried next.
TryAnother(c) == [clerk EXCEPT ![c].st = "send", ![c].leader = None]

\* The call arrives at the server that answered last, or at any.  A server that
\* does not lead answers at once, one that is not yet up does not answer.
Call(c, s) ==
  /\ clerk[c].st = "send" /\ clerk[c].leader \in {None, s}
  /\ IF s \in leads /\ s \notin booting
       THEN /\ clerk' = [clerk EXCEPT ![c].st = "wait", ![c].leader = s]
            /\ handlers' = handlers \cup
                 {[srv |-> s, st |-> "start", index |-> -1, term |-> NoTerm, live |-> TRUE,
                   op |-> [client |-> c, seq |-> clerk[c].seq, req |-> clerk[c].req]]}
       ELSE clerk' = TryAnother(c) /\ UNCHANGED handlers
  /\ UNCHANGED <<raftVars, applyVars, diskVars, serviceVars, floor, acked, answers, faults>>

HandlersOf(c) == {h \in handlers : h.op.client = c /\ h.live}

\* Call returns false though the server lives.  What a handler that is past Start
\* answers, nobody receives.
CallFails(c) ==
  /\ clerk[c].st = "wait" /\ faults < MaxFault
  /\ faults' = faults + 1
  /\ clerk' = TryAnother(c)
  /\ handlers' = (handlers \ HandlersOf(c)) \cup
       {[h EXCEPT !.live = FALSE] : h \in {g \in HandlersOf(c) : g.st = "start"}}
  /\ UNCHANGED <<raftVars, applyVars, diskVars, serviceVars, floor, acked, answers>>

\* Call returns false because the server has been stopped.
CallDies(c) ==
  /\ clerk[c].st = "wait" /\ HandlersOf(c) = {}
  /\ clerk' = TryAnother(c)
  /\ UNCHANGED <<raftVars, applyVars, diskVars, serviceVars, handlers, floor, acked,
                 answers, faults>>

\* rf.Start(comm): -1 if the server does not lead any more.
HandlerStart(h) ==
  LET s == h.srv
      started == IF s \in leads
        THEN [h EXCEPT !.st = "wait", !.index = Len(chosen) + Len(pending[s]) + 1,
                       !.term = IF s = elected THEN term ELSE NoTerm]
        ELSE [h EXCEPT !.st = "wait"]
  IN
  /\ h.st = "start" /\ ~Locked(s)
  /\ handlers' = (handlers \ {h}) \cup (IF h.live THEN {started} ELSE {})
  /\ pending' = IF s \in leads
                  THEN [pending EXCEPT ![s] = Append(@, [op |-> h.op, by |-> <<s, term>>])]
                  ELSE pending
  /\ UNCHANGED <<chosen, leads, elected, term, applyVars, diskVars, serviceVars, clerk,
                 floor, acked, answers, faults>>

\* The loop: whether the server still leads is asked first, and what is waited for
\* is looked at afterwards.
HandlerWrongLeader(h) ==
  /\ h.st = "wait" /\ h.srv \notin leads
  /\ handlers' = handlers \ {h}
  /\ clerk' = TryAnother(h.op.client)
  /\ UNCHANGED <<raftVars, applyVars, diskVars, serviceVars, floor, acked, answers, faults>>

HandlerLeads(h) ==
  /\ h.st = "wait" /\ h.srv \in leads
  /\ handlers' = (handlers \ {h}) \cup {[h EXCEPT !.st = "look"]}
  /\ UNCHANGED <<raftVars, applyVars, diskVars, serviceVars, clerk, floor, acked, answers, faults>>

\* Slip: one command too early.
CommittedEarly(h) == curCommitIndex[h.srv] + 1 >= h.index

Committed(h) == curCommitIndex[h.srv] >= h.index

\* Slip: an entry that is missing reads as the empty string.
ResultAlways(h) == TRUE

ResultReady(h) == CommID(h.op) \in DOMAIN resultMap[h.srv]

Result(h) == IF ResultReady(h) /\ CommID(h.op) \in DOMAIN resultMap[h.srv]
               THEN resultMap[h.srv][CommID(h.op)] ELSE << >>

\* It is not there yet: the handler sleeps and asks again.
HandlerSleep(h) ==
  /\ h.st = "look"
  /\ IF h.op.req.type = "Get" THEN ~ResultReady(h) ELSE ~Committed(h)
  /\ handlers' = (handlers \ {h}) \cup {[h EXCEPT !.st = "wait"]}
  /\ UNCHANGED <<raftVars, applyVars, diskVars, serviceVars, clerk, floor, acked, answers, faults>>

\* The entry of the log that makes a write effective: the first copy of a request
\* that no later request of its clerk precedes.
Effective(k) ==
  LET op == chosen[k].op IN
  /\ op.req.type # "Get"
  /\ \A j \in 1..(k - 1) :
       LET o == chosen[j].op IN o.client = op.client /\ o.req.type # "Get" => o.seq < op.seq

\* What the store holds after n entries of the log, by that definition.
StoreAt(n) ==
  LET store[k \in 0..n] ==
        IF k = 0 THEN NoData
        ELSE IF Effective(k) THEN Written(store[k - 1], chosen[k].op.req) ELSE store[k - 1]
  IN store[n]

\* history: the server has led since it called Start.
Sure(h) == h.term = term /\ h.srv = elected

Later(m, n) == IF m < n THEN n ELSE m
Returned(c, s) == [clerk EXCEPT ![c] = Idle(clerk[c].seq + 1, s)]

\* PutAppend returns, whatever was committed at the index.
PutAppendReturn(h) ==
  LET c == h.op.client
      at == {k \in DOMAIN chosen : chosen[k].op = h.op}
  IN
  /\ h.st = "look" /\ h.op.req.type # "Get" /\ Committed(h)
  /\ handlers' = handlers \ {h}
  /\ clerk' = Returned(c, h.srv)
  /\ acked' = acked \cup {[op |-> h.op, sure |-> Sure(h)]}
  /\ floor' = IF Sure(h) /\ at # {} THEN Later(floor, CHOOSE k \in at : \A n \in at : k <= n) ELSE floor
  /\ UNCHANGED <<raftVars, applyVars, diskVars, serviceVars, answers, faults>>

\* The log positions after which the key holds the value.
PositionsOf(key, value, from) == {p \in from..Len(chosen) : StoreAt(p)[key] = value}

GetReturn(h) ==
  LET c == h.op.client
      at == PositionsOf(h.op.req.key, Result(h), clerk[c].floor)
  IN
  /\ h.st = "look" /\ h.op.req.type = "Get" /\ ResultReady(h)
  /\ handlers' = handlers \ {h}
  /\ clerk' = Returned(c, h.srv)
  /\ answers' = answers \cup {[op |-> h.op, value |-> Result(h), from |-> clerk[c].floor,
                                sound |-> ~overtaken]}
  /\ floor' = IF at # {} THEN Later(floor, CHOOSE k \in at : \A n \in at : k <= n) ELSE floor
  /\ UNCHANGED <<raftVars, applyVars, diskVars, serviceVars, acked, faults>>

ServerStep(s) ==
  \/ Deliver(s) \/ ReceiveCommand(s) \/ ReceiveSnapshot(s)
  \/ ApplySnapshot(s) \/ ApplyCommand(s)
SnapshotStep(g) == SnapshotReturn(g) \/ SnapshotLock(g) \/ SnapshotSave(g)
HandlerStep(h) ==
  \/ HandlerStart(h) \/ HandlerWrongLeader(h) \/ HandlerLeads(h) \/ HandlerSleep(h)
  \/ PutAppendReturn(h) \/ GetReturn(h)

Next ==
  \/ \E s \in Server : Elect(s) \/ StepDown(s) \/ Install(s) \/ ServerStep(s) \/ Crash(s)
  \/ Commit
  \/ \E g \in snaps : SnapshotStep(g)
  \/ \E c \in Clerk : ClerkBegin(c) \/ CallFails(c) \/ CallDies(c) \/ \E s \in Server : Call(c, s)
  \/ \E h \in handlers : HandlerStep(h)

Spec == Init /\ [][Next]_vars

\* Goroutines run, a leader goes on replicating, and mutexes are handed on.
Fairness ==
  /\ WF_vars(Commit)
  /\ \A s \in Server : WF_vars(ServerStep(s)) /\ WF_vars(\E g \in snaps : g.srv = s /\ SnapshotStep(g))
  /\ \A c \in Clerk : SF_vars(\E h \in HandlersOf(c) : HandlerStep(h))

FairSpec == Spec /\ Fairness

-----------------------------------------------------------------------------
(* Properties.                                                             *)

\* Every variable has the type its declaration gives it.
TypeOK ==
  /\ leads \subseteq Server /\ elected \in Server /\ term \in Nat /\ booting \subseteq Server
  /\ commitIndex \in [Server -> Nat] /\ curCommitIndex \in [Server -> Nat]
  /\ rsm \in [Server -> [Key -> Seq(Value)]]
  /\ ClientMaxRequestSeq \in [Server -> [Clerk -> Nat]]
  /\ \A s \in Server : commitIndex[s] <= Len(chosen) /\ lastIndexInSnapshot[s] <= commitIndex[s]
  /\ \A h \in handlers : h.srv \in Server /\ h.op.client \in Clerk /\ h.index \in Int

\* A repeated Put or Append takes effect once, on every server: whether its copies
\* are delivered one after the other, are replayed after a restart on top of a
\* snapshot that already holds later commands, or are covered by a snapshot of
\* the leader, the maps are those of the log up to some entry.  (Unless a command
\* has overtaken the snapshot message it follows.)
StateIsLog ==
  ~overtaken => \A s \in Server : rsm[s] = StoreAt(upto[s])

\* A Put or Append that returns from a server that has led since it called Start
\* was committed, although the handler waits for an index and not for its command.
AckedCommitted ==
  \A a \in acked : a.sure => \E k \in DOMAIN chosen : chosen[k].op = a.op

\* Get is linearizable as far as sure answers go: it returns what the log gives for
\* some position that is not before the place of any read, nor of any write answered
\* by a server that had led since it called Start, that returned before the Get
\* began, whichever servers answered and whatever was repeated, replayed or
\* restored in between.  (Unless a command has overtaken a snapshot message.  A write
\* that was answered without being sure is the subject of ReadsOwnWrites.)
Linearizable ==
  \A a \in answers : a.sound => PositionsOf(a.op.req.key, a.value, a.from) # {}

\* What test_test.go:422 calls fatal when it fails, of the simplest histories: a Get
\* sees every write of its own clerk that PutAppend has answered, sure or not.
ReadsOwnWrites ==
  \A w \in acked, a \in answers :
    /\ w.op.client = a.op.client /\ w.op.seq < a.op.seq /\ w.op.req.key = a.op.req.key
    => \E k \in DOMAIN chosen :
         chosen[k].op = w.op /\ PositionsOf(a.op.req.key, a.value, k) # {}

Waiting(c) == clerk[c].st = "wait" /\ \E h \in HandlersOf(c) : h.st = "start" \/ Sure(h)

\* A call that reached the leader is answered while it stays the leader: neither
\* the sends on applyCh under rf.mu nor TakeSnapshots, which takes kv.mu under
\* rf.mu, can block the service for ever.
LeaderAnswers == \A c \in Clerk : Waiting(c) ~> ~Waiting(c)
=============================================================================
