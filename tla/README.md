# TLA+ specifications of mit_6.824

The repository is a set of solutions to the MIT 6.824 labs in Go: a Raft library
(`src/src/raft`), a replicated key/value service and a shard master on top of it
(`src/src/kvraft`, `src/src/shardmaster`), a MapReduce library (`src/src/mapreduce`),
and the course's simulated network (`src/src/labrpc`) and linearizability checker
(`src/src/linearizability`). This directory holds TLA+ models of the Raft peer, of
the two services, of a MapReduce job, of the network with the harness that crashes
peers on it, and of the checker; the TLC configurations that check them on small
instances; and proofs that hold for every instance. All line numbers refer to
`src/src/...`; `src/README.md` is the author's diary of the labs, in Chinese.

    tlc -workers 2 -config raft_election.cfg MCRaft      # and the other raft_*.cfg
    tlc -workers 2 -config kvraft.cfg MCKVRaft           # and the other kvraft*.cfg
    tlc -workers 2 -config shardmaster.cfg MCShardMaster
    tlc -workers 2 -config mapreduce.cfg MCMapReduce     # and mapreduce_uneven.cfg
    tlc -workers 2 -config labrpc.cfg MCLabRPC
    tlc -workers 2 -config linearizability.cfg MCLinearizability
    for m in NatSetLemmas RaftProofs LabRPCProofs KVRaftProofs ShardMasterProofs \
             LinearizabilityProofs VerdictProofs MapReduceProofs; do tlapm $m.tla; done

## 1. Inventory

### Components, their state and their operations

| component | state | operations | talks to |
|---|---|---|---|
| Raft peer, `raft/raft.go` | `currentTerm`, `votedFor`, `leaderNum`, `log`, `commitIndex`, `nextIndex`, `matchIndex`, `termList`, the snapshot position, `AENotifyChan`, the position of `mainProcess` | `mainProcess` with `CandidateProcess`, `Follower`, `LeaderProcess`; handlers `RequestVote`, `AppendEntry`, `InstallSnapShot`; the sending goroutines of `LeaderProcess`, `sendSnapShot`; `Start`, `TakeSnapshots`, `persist`, `Make` | other peers by RPC, its service by `applyCh`, its `Persister` |
| persister, `raft/persister.go` | `raftstate`, `snapshot` | `SaveRaftState`, `SaveStateAndSnapshot`, the reads | called by the peer |
| shard master, `shardmaster/*.go` | `configs`, `ClientMaxRequestSeq`, `resultMap`, `curCommitIndex` | handlers `Join`, `Leave`, `Move`, `Query`; `mainProcess`; `rebalance`; the clerk's retry loops | clerks by RPC, Raft by `Start`, `GetLeaderNum` and `applyCh` |
| key/value service, `kvraft/*.go` | `rsm`, `ClientMaxRequestSeq`, `resultMap`, `curCommitIndex` | handlers `Get`, `PutAppend`; `mainProcess` with snapshots; the clerk | as the shard master, and `TakeSnapshots` |
| MapReduce master and workers | worker list, task batches, worker counters | `schedule`, `Register`, `DoTask`, `Shutdown`, `run` | RPC over unix sockets |
| MapReduce data functions | files | `doMap`, `doReduce`, `merge` | files only |
| labrpc, `labrpc/labrpc.go` | `ends`, `enabled`, `servers`, `connections`, `reliable` | `Call`, `ProcessReq`, `Enable`, `Connect`, `AddServer`, `DeleteServer`, `Cleanup` | carries every RPC of the labs |
| harness, `raft/config.go`, `kvraft/config.go` | `endnames`, `saved`, `connected` | `crash1`, `start1`, `connect`, `disconnect`, and the tests' assertions | labrpc, peers, Persisters |
| linearizability checker | per key: a linked list, a cache, a stack of choices | `checkSingle`, `CheckOperationsTimeout` | judges the histories of the `kvraft` tests |
| labgob, programs in `main` | – | support code of the course | – |
| sharded key/value service, `shardkv/*.go` | – | the course's empty skeleton | – |

### What is hard here

* **Windows without the lock.** Handlers and reply goroutines of the peer read
  shared fields without `rf.mu`, decide, and take the lock later: the vote test
  before `raft.go:357`, the commit range at `raft.go:482`, the leader test of
  `Start`, the reply of an AppendEntry.
* **Many goroutines for one follower.** Every heartbeat and every `Start` launches
  a new one; all of them move the same `nextIndex` and compute `matchIndex` from it.
* **Two kinds of index.** Name indexes and slice positions differ by
  `lastIndexInSnapshot`.
* **Crashes.** The term and the log are persisted at many places, `votedFor` never.
  `persist()` comes after the unlock and reads, encodes and saves without `rf.mu`, so
  that several of them overlap.
* **Lost, late and repeated calls** at both levels; a clerk repeats a request at
  another server while the first copy is being committed.
* **Waiting.** `LeaderProcess` leaves its loop only if somebody puts a token into
  the bounded `AENotifyChan`.
* **Locks held over channels.** Raft sends on the unbuffered `applyCh` while it holds
  `rf.mu`; the service that should receive calls back into Raft, and `TakeSnapshots`
  takes `kv.mu` while it holds `rf.mu`.
* **Snapshots of moving maps.** `TakeSnapshots` encodes the service's maps when it gets
  to it, which may be many commands after the index it was asked for; a server that
  starts from it applies those commands again.
* **Instances that cannot be killed.** A crashed peer of the tests goes on running:
  it serves requests, saves to its Persister and sends.
* **Undoing.** The checker's search takes nodes out of a list and relies on the links
  they keep to put them back.

`PROJECT.json` lists these as hazards, each with its line and the properties that
would notice it going wrong.

### What makes each component correct

* Raft: one leader per term; logs that agree on a term at an index agree before
  it; nothing is delivered that a majority does not store; no two services receive
  different commands for one index; each service receives successive indexes; what
  was delivered is never overwritten; when no `persist()` is under way a restart brings
  back term and log; nothing panics; a deposed leader steps down; a follower that lags behind catches up.
* Shard master: every request takes effect once; what was acknowledged is
  committed and is seen by later queries; every group serves its share and no
  shard is with a group that does not exist.
* Key/value service: as above, on maps that may come from a snapshot: whatever was
  repeated, replayed or restored, the maps are those of a prefix of the log; a Get is
  linearizable; a call to a leader that stays is answered.
* labrpc and harness: a positive reply means that what the handler saved is in the
  Persister that will be used next; an instance that was replaced reaches nobody; a
  caller is not held by a server that is gone.
* Linearizability checker: the verdict agrees with the definition, and comes.
* MapReduce: every task is done, `schedule` returns after the last one, a failed
  worker's task is given to another.

## 2. Modules

| module | content |
|---|---|
| `RaftBase` | constants, variables, record types, index arithmetic, persist, restart, panic |
| `RaftElection` | the roles of `mainProcess` up to leadership, RequestVote and its replies |
| `RaftReplication` | `Start`, AppendEntry, `LeaderProcess`, the sender goroutine and its replies |
| `RaftSnapshot` | `TakeSnapshots`, InstallSnapShot, `sendSnapShot` |
| `Raft` | the peers together (`Next`, `Spec`), where the program panics, the properties, fairness |
| `ReplicatedLog` | abstract specification: one log, delivered to every service in order |
| `MCRaft` | instances for TLC and the states the runs start from |
| `ShardMaster`, `MCShardMaster` | the shard master and its clerks over the contract of Raft; the script of the clerk |
| `KVRaft`, `MCKVRaft` | the key/value service, its snapshots and clerks over the contract of Raft; the scripts of the clerks |
| `MapReduce`, `MCMapReduce` | a distributed MapReduce job: master, `schedule`, workers, files; how many RPCs the workers accept |
| `LabRPC`, `MCLabRPC` | the network, composed with the harness that crashes and restarts peers on it |
| `Linearizability`, `MCLinearizability` | the checker; the operations its histories are made of |
| `NatSetLemmas` | lemmas on maxima of bounded sets of numbers, on induction up to a bound and on functions defined by recursion |
| `RaftProofs` | proofs of type correctness and of delivery in order |
| `LabRPCProofs` | proofs about the network and the harness |
| `KVRaftProofs` | proofs about the key/value service: types, acknowledged writes; the maps are those of the log, and reads are linearizable |
| `ShardMasterProofs` | proofs about the shard master, `rebalance` included |
| `LinearizabilityProofs` | proof that lift and unlift keep the checker's list |
| `VerdictProofs` | on top of it: the verdict of the checker is right |
| `MapReduceProofs` | proof of the types of the MapReduce job |

### Raft: how the state corresponds

Variables carry the names of the fields. `log[i]` is the Go slice, so true index
`k` is position `k+1` and position 1 is the sentinel or the last entry covered by
the snapshot. `role` is the place of `mainProcess`. `persisted` and `snapshot` are
the Persister's two byte slices, by content. `rvCalls`, `aeCalls`, `isCalls` are
RPCs under way: one record is the request, the handler's progress and the local
variables of the goroutine that waits for the answer; `live` tells whether someone
still waits. `starts` are `Start` calls between their two critical sections or in their
`persist()`, `mainSave` is the `persist()` that `mainProcess` is in.
`applied` and `delivered` are what the services received from `applyCh`.
`NilSlice` is a slice before its `make`.

### Raft: grain of atomicity

An action is what a goroutine does between two points where it can be delayed for
long: an RPC, a wait on a channel or timer, taking `rf.mu`. The header of
`RaftBase` lists the handlers that are cut into several actions because of the
unlocked windows.

`persist()` is not part of the critical section before it. It begins after the unlock
(`..Encode`: the term and the log as they are by then), saves what it encoded
(`..Save`), and only then does its goroutine go on; meanwhile other goroutines of the
peer change the log, encode and save, and the peer may crash. `Start` counts itself in
`matchIndex` before (`StartAppend`). Because only a crash reads what was saved,
the constant `Delayed` names the peers for which this matters: elsewhere `persist()` is
over at once. In a run without crashes nothing depends on it, except for properties
about `persisted`. The place where memory and disk are far apart without any `persist()`
(`readSnapshotPersist`, with a send on `applyCh` between) is two actions, `ISLock` and
`ISDeliver`.

Windows that are merged: the unlocked reads at the top of a handler (`RVCheck`:
`raft.go:339-354`; `AECheck`, `AEPass`: `raft.go:421-465`), whose answer or next step they
decide together; in `RVGrant` the tests and the vote, in `CandidateReply` the test of the
reply's term and the lock, in `AETerm` the test of `leaderNum` and the lock; in
`persist()` the encoding of the term and of the log; in `ISDeliver` the read of the
raftstate and the save of both.

Other decisions:

* A token of `AENotifyChan` that nobody will read is left there until the next
  wait reads it (`TokensLeft`), as in the code.
* `LeaderSend` is enabled for every follower at any time while the peer is in
  `LeaderProcess`: this covers the heartbeat timer, `commandToBeExec` and
  `AEDistributedChan`, which only decide when a send happens.
* Calls are delayed without bound, answered out of order, or fail. A failed attempt
  consumes one try; the last failed attempt of RequestVote and AppendEntry changes
  nothing. An attempt also fails while its handler runs, because labrpc stops waiting
  when the end is disabled or the server replaced (`labrpc.go:243`): the handler runs on,
  unheard, beside the one of the next attempt. Two identical calls of one goroutine set are one element of the set.
* `Restart` is crash and restart in one action: calls that the stopped peer was
  serving fail, answers to it are lost, requests it had sent may still arrive.
  `Kill` and `exitFlag` are that crash.
* A panic (an index out of range, or the code's own `panic`) ends the peer for
  good: `role = "panic"`.
* `votedFor` is not persisted, as in the code, and terms start at 0 with a
  CandidateProcess in term 0, as in the code.
* `Cardinality(Server) >= 3` is assumed: with three slots no push into
  `AENotifyChan` blocks.

`Timers`, `Links`, `Delayed`, `MaxTerm`, `MaxSenders`, `MaxRestart` and `SnapshotAt` bound
the environment: which timers fire, which pairs replicate, whose `persist()` can be
overtaken, how many terms, goroutines per link, crashes, and where the service asks for a
snapshot. `RVTries`, `AETries`
and `ISTries` are the code's constants 3, 8 and 5, smaller in the runs: a second
attempt differs from the first, a third does not.

### Shard master: correspondence

The four handlers are the same code with another command, so they are one set of
actions and the map names one copy of each: `Call`, `HandlerStart`, and the loop, which
first asks for the leader (`HandlerWrongLeader`, `HandlerLeads`) and then, in a step of
its own, reads `curCommitIndex` (`HandlerSleep`, `HandlerReturn`). `Receive` and `Apply` are the two halves of an iteration of
`mainProcess`: `curCommitIndex` moves before `sm.mu` is taken. `Rebalanced` is
`rebalance`, with the remaining shards as the code places them. Lists of server
names are left out, a group is its id.

Raft is replaced by what the servers see of it: an agreed log `chosen`, unagreed
tails `pending`, the servers that take themselves for leaders, elections. This is
an assumption: a deposed leader receives nothing before it steps down. The Raft
model shows a peer can adopt a newer term in RequestVote and keep `leaderNum`, so
the assumption is stronger than what `raft.go` gives in every case.
`made`, `acked`, `answers` and `sure` are history.

### Key/value service: correspondence

Raft is again what the servers see of it: `chosen` is the agreed log, `pending[s]`
what the log of `s` holds after it, `leads` the servers whose `GetLeaderNum` is their
own number. `Elect`, `StepDown`, `Commit`, `Deliver` and `Install` are that contract,
with the assumption named under the shard master.

What matters beyond the shard master is blocking. `rf.mu` is held across steps: by a
sender while `outbox[s]`, the messages it has still to send on `applyCh`, is not empty,
and by a goroutine of `TakeSnapshots` in `snaps` that is `locked`. `Deliver`, `Install`,
`HandlerStart` and `SnapshotLock` wait for it. What is done under `kv.mu` never waits
for anything, so a step of `mainProcess` (`ApplyCommand`, `ApplySnapshot`) or the
encoding in `SnapshotSave` is one action. `install[s]` is the snapshot message that
`readSnapshotPersist` sends after it has released the lock, at a start (`booting`, in
`Make`) or for InstallSnapShot; entries can overtake it.

`Get` and `PutAppend` of the server are `HandlerStart`, the leader test of the loop
(`HandlerWrongLeader`, `HandlerLeads`), then `HandlerSleep` or one return action each,
because `Get` waits for `resultMap` and `PutAppend` for `curCommitIndex`. Between the test and
that look the server may lose the lead. A call is lost with its answer (`CallFails`; the handler that has not
yet called `Start` still will) or with its server (`CallDies`).

History variables: `upto[s]` is the position in the log the maps of `s` stand for;
`overtaken` tells that a command reached `mainProcess` before the snapshot it follows;
`floor` is the latest log position some returned call depends on (a Get, or a write whose
acknowledgement is `Sure`), copied into a clerk when it begins; `acked` and `answers` are what returned. `Sure(h)` says that the server of
a handler has led ever since it called `Start`.

### labrpc and harness: correspondence

A peer is a sequence of instances, numbered from 1; an instance that was crashed goes on.
`EndName(i, g, j)` is the random name of the end that instance `g` of peer `i` uses to
reach `j`: `randstring` is assumed not to repeat itself. `servers[i]` is the instance
registered in the network or `Nil`, `disk[i][g]` the content of its Persister, `saved[i]`
the instance whose Persister `cfg.saved` holds. Only one thing about a handler
matters: it saves something, sooner or later or never, on its own instance.

`crash1` is three actions of the `driver` (cut off, delete the server, copy the
Persister), between which requests and handlers run; `start1` is one, because a call
looks either at the ends or at the servers, and the new ends are not enabled yet.
A record in `calls` is the caller, the goroutine of `ProcessReq` and the goroutine of the
handler. Each delay of `ProcessReq` is some other step that comes first.
`kvraft/config.go` and `shardmaster/config.go` repeat the same pattern.

### Linearizability checker: correspondence

`entries` are the calls and returns of the history, sorted; a node of the linked list is a
position in it. `Iterate` is one iteration of the loop of `checkSingle`, `Lift` and
`Unlift` change the links exactly as the code does, through the links that lifted nodes keep.
`search[key]` is the goroutine of a key, `Result` and `TimeOut` are the two
cases of the `select` in `CheckOperationsTimeout`. The cache is a set: the hash only finds the
bucket. Histories have distinct times: the sort of equal times is not stable, and whether a
call at the time of a return comes first is then up to the sort.

### MapReduce: correspondence

`phase` is where `run` is, `pc` where `schedule` is: its one-second loop
(`register`), the head of its loop, `wg.Wait` (`wait`), its 20 ms loop (`listen`).
The other variables are its locals by name. Each element of `calls` is the
goroutine of one task together with the RPC and the `DoTask` it causes; goroutines
of the map phase live on when `schedule` has returned. The goroutine reads
`taskList[i]` and twice `workerAddr`, variables it shares with `schedule`, so these
reads are steps of their own (`GoBegin`, `GoCall`). They are assumed to happen within
the 20 ms for which `schedule` listens before it increments `i`; a registration may come
in between. A worker fails as in the tests: after `nRPC` connections it refuses
more and finishes what it accepted. A process that dies in the middle of a task is not
modelled, and `doMap` is one step: nobody reads the files of a task before its call has
returned, except after an early return of `schedule`, where the model leaves out the
half-written file. Input
files are taken to be readable; `common_map.go:75` reports a task with an unreadable one as done
without files. Files are counted, not read: `intermediate[m]` is the number of JSON arrays
that task `m` has appended to its files (two are not valid JSON, and `doReduce` ignores
the error), `output[r]` the map tasks whose data is in an output file.
`panic` stands for a panic or `log.Fatal` of the master, `crashed` for those of workers.

## 3. Runs

TLC explores each instance completely. `CHECK_DEADLOCK FALSE` is set everywhere
because bounds (terms, commands, calls) end behaviours.

The Raft runs start from reachable states rather than from `Init`, so that the
interesting part lies within reach: `AfterTermZero` (all three peers have refused
one another in term 0), `Elected` (a peer has just won term 1), `Lagging` (`s0`
committed two entries with `s1` and was elected again, `s2` has nothing),
`Diverged` (`s0` holds two entries of term 1 nobody else has and still takes itself
for the leader; `s1` leads term 3 with another entry).

| run | instance | properties | what it shows |
|---|---|---|---|
| `raft_election` | 3 peers, all timers, all links, every `persist()` in steps, term 1; 212 000 states up to symmetry | `TypeOK`, `OneLeaderPerTerm` | requests that pass the unlocked vote test together never give a second vote; a leader of term 1 is alone |
| `raft_replication` | from `Lagging`, one link with one goroutine, snapshot at index 2, 2 attempts per call, 1 new command; and from `Elected` without commands, where timers fire; 412 000 | `StateMachineSafety`, `SendersInRange` | retries, also beside a handler that still runs, back-up, a `sendSnapShot` that gives up and an installed snapshot bring a follower along, and index arithmetic stays within the log |
| `raft_restart` | from `Elected`, one link with two goroutines, `persist()` of the follower in steps, one crash, 2 commands; 815 000 | `ApplyInOrder`, `CommittedPrefixKept` | overlapping handlers on one follower and a crash between any two steps |
| `raft_live` | from `Diverged`, three links, 1 new command, fairness; 65 000 | `LogMatching`, `ImplementsLog`, `StepsDown`, `CatchesUp` | a stale and a real leader send at once; the logs converge, the services see one `ReplicatedLog` (refinement), the stale leader leaves, and every service catches up |
| `shardmaster` | 2 servers, 10 shards, a clerk that joins three groups, then leaves or moves, then queries; 2 terms, 1 lost call, 1 crash; 1 360 000 | `TypeOK`, `AppliedOnce`, `AckedCommitted`, `ReadsSeeWrites`, `ShareServed` | repeated requests take effect once, acknowledged ones survive and are seen |
| `kvraft` | 2 servers, a clerk that appends and one that gets, 3 elections; 2 390 000 | `TypeOK`, `AckedCommitted`, `Linearizable` | two clerks while the lead is lost, moves and comes back, and handlers of deposed leaders wait on; writes count when a server that led throughout acknowledged them |
| `kvraft_snapshot` | 2 servers, a clerk that appends and then puts or gets; 2 elections, 1 crash or lost call, 1 snapshot taken, 1 installed; fairness; 612 000 | `StateIsLog`, `Linearizable`, `LeaderAnswers` | maps encoded late, restored, replayed and sent on are still those of the log, until an entry overtakes a snapshot message; `rf.mu`, `kv.mu` and `applyCh` never block the answer |
| `mapreduce` | 6 map and 4 reduce tasks, 2 workers that register at once, one refuses calls after 1 to 12 of them; fairness; 4 400 | `TypeOK`, `OneCallPerWorker`, `MapsBeforeReduce`, `OutputComplete`, `NoCrash`, `EveryWorkerWorked`, `JobEnds` | when batches come out even, a failure at any point costs nothing |
| `labrpc` | 2 peers of up to 3 instances, one call of any instance, reliable or not, any crash, cut and cleanup; fairness; 138 000 | `TypeOK`, `PositiveReplyKept`, `OldInstanceSilent`, `CallsReturn` | the promise of the comment at `labrpc.go:254`, the reason for the fresh end names, and that no caller waits for a server that is gone |
| `linearizability` | all histories of 1 to 3 out of 8 operations on 2 keys, in all orders of calls and returns; fairness; 252 000 | `ListIsRest`, `VerdictRight`, `Terminates` | lifting and unlifting keep the list right; the verdict agrees with the definition over all keys; it comes |
| `raft_late_win` | two timers, terms up to 2 | `OneLeaderPerTerm` violated | finding 1 |
| `raft_torn_save` | snapshot and one crash | `StateMachineSafety` violated | finding 2 |

Five more configurations show disagreements of section 5, in seconds: TLC violates the one
property each of them names.

| configuration | instance | property |
|---|---|---|
| `raft_two_senders.cfg` (`MCRaft`) | from `Elected`, one link with two goroutines, 2 commands | `CommittedOnQuorum` |
| `raft_stale_save.cfg` (`MCRaft`) | the same, 1 command, `persist()` of the follower in steps, no crash | `SavedWhenQuiet` |
| `raft_early_start.cfg` (`MCRaft`) | an election and one command | `NoPanic` |
| `kvraft_lost_ack.cfg` (`MCKVRaft`) | 2 servers, 2 clerks that append and then get, 2 elections | `ReadsOwnWrites` |
| `mapreduce_uneven.cfg` (`MCMapReduce`) | 3 map tasks, 2 workers, no failure | `MapsBeforeReduce` |

Why the bounds suffice: each property is about two actors and the history of one
index. Two goroutines per link are the least that overlap; one crash reaches every
point between two steps, those of the follower's `persist()` included (`DeliveryInOrder`
is proved with any peers `Delayed`, the leader too); two new entries reach both a partial and a full overwrite;
three peers have every majority in two. For the key/value service two commands are the
least for which a snapshot holds more than the index it is named after, and three
elections the least with which a server loses the lead and regains it. A call in labrpc
meets no other call except through the tables, which the harness may change at any
time; three instances let a call outlive two restarts. Three operations are the least
with a choice that has to be undone and another that then succeeds. The runs of Raft's
safety properties under several terms or goroutines are limited by the code itself:
the findings and the list in section 5 say why they do not hold with more. In particular
`raft_replication` has one goroutine per link: with two, the leader's counts go wrong
(`raft_two_senders.cfg`).

The instance of the passing MapReduce run is deliberately even: the number of tasks is a multiple of
the number of workers, as in the tests of the repository (20 and 10 tasks, 2
workers), and when the failing worker is gone a batch is one task. The budget of
the failing worker ranges over the whole job, so that it fails at each task of each phase.
Uneven instances (`mapreduce_uneven.cfg`), late workers and the loss of all workers violate
these properties (section 5).

Symmetry is used only in runs without liveness. Commands are never compared except for
equality (`ValueSymmetry`). Peers are compared for equality too (`ServerSymmetry`, in
`raft_election` only); the one that is named, `Node0`, matters in `ISReturn`, which needs a
snapshot.

**Fairness.**

* `raft_live`: weak fairness of `LeaderNotified`, of `LeaderSend` for each link, and of
  the steps of the calls on each link. The Go scheduler does not starve a runnable
  goroutine, the heartbeat timer fires for ever, and a call between live peers that are
  connected is answered: AppendEntry fails in labrpc only when a peer is cut off or the
  network drops messages, which is the assumption under which Raft promises progress. No
  fairness is assumed of timers, of elections, of clients or of failing calls. `CatchesUp`
  is thus stated for a leader that stays.
* `kvraft_snapshot`: weak fairness of `Commit` (a leader that stays replicates), of each
  server's `mainProcess` and sender and of its `TakeSnapshots`; strong fairness of each
  clerk's handlers, because `Start` waits for `rf.mu`, which is free again and again and
  which Go's mutex hands to the goroutine that has waited longest. None of elections,
  crashes or losses.
* `mapreduce`: weak fairness of `Next`: while some goroutine of the master or a worker can
  run, one does. Steps do not compete for ever: every run of a job is finite.
* `labrpc`: weak fairness of the goroutines of the network for each call; its timers fire. None
  of handlers, which may never return, nor of the harness.
* `linearizability`: weak fairness of the goroutines together; none of the timeout.

### Findings

1. **A late majority** (`raft.go:837`). The winner test looks only at the count.
   A candidate that has adopted a newer term and voted for another peer in it still
   becomes leader, of the newer term. `raft/config.go:315` calls this fatal.
2. **Torn save** (`raft.go:622`). `readSnapshotPersist` changes the log in memory
   and saves later beside the old raftstate; a crash leaves a pair that does not
   fit, although `persister.go:51` describes an atomic save of both.

## 4. Proofs

The proofs about Raft hold for every finite set of at least three peers and every value
of the bounds (`ServerAssumption`, `BoundAssumption`), those about labrpc for any peers,
calls and number of instances (`RPCAssumption`), those about the key/value service and the
shard master for any servers, clerks, scripts and bounds (`KVAssumption`,
`ShardAssumption`), those about the checker for histories of any length over any set of
operations that are gets, puts and appends (`CheckerAssumption`), those about MapReduce for any
workers and numbers of tasks (`JobAssumption`). The assumptions on the two services say that scripts consist of requests, that a Join or
Leave names finitely many groups, and those on them and on MapReduce that `None`, the model's nil,
is none of the values it stands beside.

The prover has no induction over data that takes an operator as a parameter. Where one is needed
(`StoreAt` walks the log, `rebalance` the groups, `Chain` the list) it is done by hand:
`UpToBound` of `NatSetLemmas` takes the least counterexample in an explicit set of numbers, and
`RecursionExists` builds, by the same argument, a function that satisfies a recursive
equation, so that the `CHOOSE` behind the definition is known to satisfy it.

* **`TypeCorrect`** (`RaftProofs`): `Spec => []TypeOK`, snapshots included. `TypeOK`
  is not inductive: an action that dereferences `matchIndex` needs to know that it
  was made, and a goroutine that launches another needs to know where it stands.
  `TypeInv` adds `Slices` (`nextIndex` and `matchIndex` are made together, and a peer
  in `LeaderProcess` has made them), `AECallers` (someone who waits for an answer
  belongs to a peer that has led; only a live call commits) and `ISCallers` (what a
  waiting `sendSnapShot` knows of the goroutine that called it). There is one lemma per
  action. The content of the theorem is that every entry and element the code stores
  was read at an index that exists, except where the model says the program panics.
  Maxima over bounded sets (the back-up position, the conflict term, the middle of
  `matchIndex`) come from `NatSetLemmas`, which proves a least element for non-empty
  sets of numbers from the recursion-free part of the library.
* **`DeliveryInOrder`** (`RaftProofs`): with no snapshots (`SnapshotAt = {}`), `ApplyInOrder`
  is an invariant, with any number of goroutines per link, any crashes and any `persist()`
  in steps. `SafetyInv` joins `TypeInv` with `NoSnapshots` (no call of InstallSnapShot, no
  truncated log), `Ordered` (the services' messages are 1, 2, 3, ... up to `commitIndex`)
  and `PreCommitted` (the commit range a handler computed without the lock starts at most at
  today's `commitIndex`). Each action but `Restart` is shown to be `Orderly` - a
  description of what one step may do to these variables - and `OrderlyKeeps` closes the
  induction once for all of them; `RestartKeeps` treats the crash. The invariant was
  checked by TLC on the instances of the runs before it was proved.

  The hypothesis on snapshots is needed: with them an entry can be delivered before the
  snapshot it follows (section 5).

* **`NetworkTypes`**, **`PositiveRepliesKept`**, **`OldInstancesSilent`** (`LabRPCProofs`).
  The invariant joins `TypeOK` with `EndsCurrent` (an enabled end belongs to the present
  instances of two connected peers), `Places` (a registered instance is the one whose Persister
  counts, and a peer that is being crashed or has no server is cut off) and `Good` for
  each call. The heart of `Good` is that the instance a request was given to is at most `saved`:
  so `crash1` never copies onto a Persister somebody uses, a handler of an old instance
  writes to one that no longer counts, and the second look at the server table turns
  its reply into a failure. `OldInstancesSilent` rests on `EndsCurrent`: the ends of an old instance are
  never enabled again. The invariant was checked by TLC before it was proved.
* **`ServiceTypes`** and **`WritesCommitted`** (`KVRaftProofs`): `TypeOK`, which contains
  that no server was sent what is not agreed on and no snapshot ends after it, and
  `AckedCommitted`. `KVInv` joins `LogsOK` and `MapsOK` (types of logs and maps, wherever
  the maps are), `IndexOK` (every index in a message, in `outbox`, in a snapshot or asked for
  in `TakeSnapshots` is bounded by the server's `commitIndex`, and that by the agreed log),
  `CallsOK` (a handler somebody listens to is the only one of its clerk, which waits) and
  `PlacesOK`: while the server of a handler has led since `Start`, the handler's command is at
  its index in the agreed log followed by the leader's tail. `Commit` moves an entry
  from one to the other at the same index, `Elect` ends the claim by a new term, a crash
  removes the handlers. When `PutAppend` returns, its index is at most `curCommitIndex`,
  hence in the agreed part. The run `kvraft` checks this without crashes; the theorem
  includes crashes, snapshots and lost calls. TLC checked `KVInv` on both instances before it was
  proved.

* **`StoresFollowLog`** and **`ReadsLinearizable`** (`KVRaftProofs`): `StateIsLog` and
  `Linearizable`. Nothing inductive can be said of the maps alone, because they travel:
  through a goroutine of `TakeSnapshots` that encodes them late, the Persister, a message of
  `readSnapshotPersist`, another server. `LogInv` says of each of these places that the maps
  in it are those of some prefix of the log (`Reflects`: the store is `StoreAt(n)` and the table
  has the latest write of every clerk in the first `n` entries), that a snapshot's index is at
  most its prefix (`Sound`), and that between a server's maps, the message it has taken and what is
  on its way no entry is missing (`InOrder`): the next command is either the next entry
  or one that the maps already hold, and in the second case the table, which has the latest
  write of every clerk in the prefix, rejects it.
  `OpsOK` says that a sequence number names one request and that all copies of a request are
  agreed on after everything its clerk could know of when it began; `ResultsOK` that every
  answer waiting in a `resultMap` is the value at or after its Get's entry. A Get then returns the
  value at a position after its own copy, hence after its floor. Both properties are
  stated up to `overtaken` (section 5); nothing else is assumed of snapshots or crashes. The run
  `kvraft_snapshot` has one snapshot and one crash, the theorems have any number.
* **`TypeCorrect`**, **`EachAppliedOnce`**, **`AckedAreCommitted`**, **`QueriesSeeWrites`**,
  **`SharesServed`** (`ShardMasterProofs`): the five invariants of the run `shardmaster`. `SMInv`
  has the parts of `KVInv` (`CallsOK`, `PlacesOK`) and, for what a configuration contains, `Leading`:
  an entry of the log is leading if no later request of its clerk stands before it. The
  leading entries are exactly those that `mainProcess` does not skip; `Tabled` says that the
  table has every clerk's latest write and that the latest configuration was made by
  all leading entries up to now, `AckedLead` that what was acknowledged by a leader is leading,
  `BeforeOK` that it precedes every copy of a Query that began later. `ConfigOK` counts: `num` is
  the number of commands that made the configuration. `SharesServed` is about
  `rebalance`: `SortedGroups` (sorting loses no group), `BlocksFit` (the arithmetic of the blocks)
  and `RebalancedBlocks` (after turn `i` the first `i` blocks are with the first `i`
  groups, although each turn may also assign one shard of the next block). It holds for any number of
  shards and groups, more groups than shards included, where the share is 0.
* **`ListKept`** (`LinearizabilityProofs`): `ListIsRest`, which says that the list is the
  not linearized rest. A node that was lifted keeps links that are out of date, and only
  the order of undoing makes them right again. `ListInv` therefore fixes the links of *every* node:
  the call at depth `j` of the stack has the neighbours it had among the nodes left
  at depth `j - 1`, its return those it had when the call was already gone (`Lifted`). `Removed` and
  `Restored` show that taking out one node and putting it back are inverse and touch no
  node outside the list (`Untouched`), which is what keeps deeper levels intact. The entry looked at is always in
  the list, because a call is followed by its return at the latest (`AfterCall`). That a walk along `next`
  visits exactly these nodes (`WalkVisits`) is a counting argument: the walk climbs, so it cannot
  miss a node for as many steps as there are nodes.

* **`VerdictCorrect`** (`VerdictProofs`): `VerdictRight`, both halves. `VerdictInv` joins `ListInv`
  with `TimesOK` (calls and returns are where `Position` says), `MainOK` (what the `select` has seen)
  and, for each key, `VisitOK`. Its heart is what the search owes:
  on each level of the stack, no operation called before the entry it looks at can be taken next so
  that the rest is `Completable` (`Explored`), and a set and state in the cache is either one of the
  present stack or cannot be completed (`Settled`), so the cache loses nothing.
  `RejectedRight`: when the stack is empty, no order of the key's
  operations exists, hence none of the whole history. `AcceptedRight`: the stacks of the
  searches that succeeded are merged. An operation takes effect at the latest of the calls that
  precede it in its stack, a point between its own call and return; ordering all operations
  by these points, and those of one key at the same point by their depth, respects real time
  across keys and leaves every key its own order.
* **`TypeCorrect`** (`MapReduceProofs`): `TypeOK` of the job, with no condition. `TypeInv` adds
  `CallsOK` (a goroutine that has not dialled is about the task `schedule` is at, so that
  `taskList[i]` exists when it reads it) and `CountsOK` (a worker whose process lives counts
  exactly the `DoTask` it runs, so that the decrement never goes below 0).
  The other invariants of the run `mapreduce` have no theorem: `schedule` keeps them only when
  its batches come out even, which nothing in the code ensures (section 5).

TLC checked `LinInv`, `SMInv`, `ListInv` and `VerdictInv` on the instances of the runs before
they were proved.

Only model-checked:

* `OneLeaderPerTerm`, `LogMatching`, `StateMachineSafety`, `SendersInRange`,
  `ImplementsLog`: the findings and section 5 show that most of these
  fail on larger instances, so there is no general theorem to prove. The same is true of
  `CommittedPrefixKept`: `raft.go:358` can set a term back, and an old leader's AppendEntry is
  then accepted and removes entries that a service has received.
* `OneCallPerWorker`, `MapsBeforeReduce`, `OutputComplete`, `NoCrash`, `EveryWorkerWorked`, on an
  even job.
* Liveness (`StepsDown`, `CatchesUp`, `LeaderAnswers`, `CallsReturn`, `Terminates`, `JobEnds`),
  which is beyond the prover.

## 5. Disagreements beyond the findings

Met while modelling; each limits one of the runs above, or is left to the plan.

* `raft.go:358`: under the lock the term is compared for equality only. A request of
  an older term that waited sets `currentTerm` back, and the peer can vote twice.
* `CandidateProcess` does not raise the term, and `votedFor` is not persisted: a peer that votes
  before it enters its first CandidateProcess, or that restarts in a term it has voted in,
  votes again, for itself. From `Init`, or with a crash, there are two leaders of term 1.
* `LeaderTermTimeout` raises the term and keeps `leaderNum = me`, so the peer reports
  itself leader of a term nobody elected it for (seven steps from `Elected`).
* Entries of earlier terms are committed by counting (`README.md:89` says no).
* A single stale entry after the written ones is kept: `< len - 1` at `raft.go:538`
  (`README.md:101` says the suffix is deleted).
* **Success without a write** (`raft.go:520`, `raft_two_senders.cfg`). A handler whose first
  position is already committed leaves the loop and answers Success; the leader moves
  `nextIndex` and `matchIndex` by the request (`raft.go:1003-1008`), so that with two goroutines on
  one link a service receives what only the leader stores. `src/README.md:77` says that what more
  than half have not agreed to is not committed.
* **Stale save** (`raft.go:222`, `raft_stale_save.cfg`). Of two overlapping `persist()` calls the one
  that encoded first may save last; the Persister keeps a log without an entry the peer has
  acknowledged. The comment at `raft.go:200` promises that the state can be retrieved after a
  crash.
* **Early Start** (`raft.go:740`, `raft_early_start.cfg`). Between `leaderNum = me` (837) and
  `make(matchIndex)` (896) a `Start` panics; the comment at `raft.go:710` says that it starts the
  agreement and returns.
* The bounds of `rf.log[preCommitIndex:aftCommitIndex]` (`raft.go:490`) come from reads without
  the lock. When another handler commits beyond `aftCommitIndex` between the test at 465 and the
  read at 467, they are the wrong way round and the peer panics (`RangePanics`; it happens in
  `raft_restart`, where a peer that panics is gone).
* A leader that crashes between counting itself (`raft.go:740`) and the end of its `persist()`
  comes back without an entry that was counted for a majority.
* An entry may be delivered before the pending message of an installed snapshot
  (`raft.go:620`); the key/value service then puts the older maps over the newer ones, and
  `StateIsLog` without its condition on `overtaken` is violated.
* A goroutine of an earlier term computes `matchIndex` from the reset `nextIndex`.
* A `sendSnapShot` that gave up is treated as done; error 1 sets `leaderNum = 0`,
  whoever leads, and the term is not persisted.
* `Start` appends with the term it read before the lock.
* `prevlog`, a name index, is compared with `len(rf.log)`.
* The middle of `matchIndex` is not a majority for an even number of peers.
* Shard master: a `Move` is undone by the rebalance that follows it (`common.go:8`
  says it stays); a Query may be answered with the zero Config, because
  `curCommitIndex` moves early or because the handler of a repeated call deleted the
  result; a call may return for a lost command after its server lost and regained
  the lead; after the last group leaves, shards are with group -1. `rebalance`
  assigns a remaining shard without moving on (`server.go:73`): the next group overwrites
  it and the last shards stay where they were, with group 0 after the first Join of three
  groups, which `test_test.go:30` calls fatal.
* **Lost acknowledgement** (`kvraft/server.go:150`, `kvraft_lost_ack.cfg`). `PutAppend` asks for the
  leader, then looks at an index. If its server steps down in between, or loses and regains the
  lead while it sleeps, another command may be committed there: the write is acknowledged and
  lost, and the clerk's own next Get misses it. `kvraft/test_test.go:422` fails such a history.
  `AckedCommitted` and `Linearizable` therefore speak of servers that led throughout.
* Key/value service: `Get` looks neither at the index nor at the error of `Start`
  (`server.go:76`): a Get whose `Start` failed waits until the server steps down or, if it leads
  again, for ever.
* Linearizability checker: an empty history without a timeout waits for ever
  (`linearizability.go:251`); entries of equal time are sorted by an unstable sort.
* **Early return of `schedule`** (`schedule.go:97`, `mapreduce_uneven.cfg`). It waits only for full
  batches; with three tasks and two workers it returns while the third runs, and reads no
  failure of it. The comment at `schedule.go:32` says it returns once all tasks have completed.
* MapReduce: a worker that registers while a goroutine has not yet read `workerAddr`
  gets that task and, being marked free, the next one too, and `worker.go:50` ends its
  process; when all workers have failed, the next task goes to the last address with
  the WaitGroup at 0 and `wg.Done` panics; with more reduce tasks than files
  `mapFiles[taskList[i]]` is out of range; a map task done twice makes its files
  unreadable, because `doMap` appends; `Shutdown` sets `nRPC` to 1 after the call was
  counted, so that `RunWorker` mostly waits for one more connection instead of
  ending (`master.go:152` says all workers have been shut down).

## 6. Not modelled

* **Composition**: the services are checked over the contract of Raft, not over the Raft
  model; their product is out of TLC's reach, and the contract is stronger than the peer in the
  cases of section 5.
* **labrpc**: RPC counts, the lookup of methods by reflection, encoding; in the models of
  the labs its effect (delay, loss, reordering, dead servers) is part of every RPC.
* **Linearizability checker**: `CheckEvents`, which nothing calls, hash buckets, the words of
  a bitset.
* **Harnesses** beyond crash, restart, connect and disconnect: assertions, statistics.
* **labgob and the programs in `main`**: encoding by reflection; text functions and mains.
  **`shardkv`** is an empty skeleton.
* **MapReduce**: `Sequential`, keys and values, hashing, the parallelism counters of the
  tests, a worker's death in the middle of a task, an input file that cannot be read.
* Below the grain: a torn read of a slice header or of a word that another goroutine writes
  (`rf.log`, `commitIndex`, `curCommitIndex`), and the merged windows of section 2.

## 7. Plan

1. *(done)* Raft peer with persister; abstract log; shard master; MapReduce; key/value
   service with its locks and snapshots; labrpc with the harness; the checker.
2. *(done)* Proofs: Raft's types and delivery in order; the network; all safety invariants of the
   key/value service, of the shard master and of the checker; the MapReduce job's types.
3. Proofs next: the step part of the refinement of `ReplicatedLog` in a version of the peer
   in which `raft.go:358` compares the terms as the test before it does.
4. `MapReduce`: the death of a worker in the middle of a task, late registration.
5. Configurations for the remaining disagreements of section 5 that a line of the repository
   contradicts directly.
