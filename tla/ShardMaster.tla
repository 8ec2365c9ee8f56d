---------------------------- MODULE ShardMaster ----------------------------
(***************************************************************************)
(* The shard master of src/src/shardmaster: the handlers Join, Leave, Move *)
(* and Query, the goroutine mainProcess that applies committed commands,   *)
(* rebalance, and the clerks that repeat a call until it is answered.      *)
(*                                                                         *)
(* Raft is what the servers see of it: GetLeaderNum, the index returned by *)
(* Start, and applyCh.  chosen is the agreed log; log entries a server has *)
(* beyond it are pending and may still be replaced.  A server that has     *)
(* been deposed but does not know receives nothing before it steps down.   *)
(***************************************************************************)
EXTENDS Integers, Sequences, FiniteSets

CONSTANTS N,          \* the servers are 0..N-1, in the order clerks try them
          Clerk,
          NShards,
          Script,     \* bound: Script[c][k] is what clerk c may ask for as its k-th
                      \* request: the fields of Op other than the ids
          None,
          MaxElect,   \* bound: elections
          MaxLost,    \* bound: calls that fail
          MaxCrash    \* bound: crashes

Server == 0..(N - 1)
Shard == 0..(NShards - 1)

\* The fields of Op, by its Optype.
Request ==
  [type : {"Join", "Leave"}, gids : SUBSET Int] \cup [type : {"Move"}, shard : Shard, gid : Int]
    \cup [type : {"Query"}, num : Int]
Op == [client : Clerk, seq : Nat, req : Request]

ASSUME ShardAssumption ==
  /\ N \in Nat \ {0} /\ NShards \in Nat \ {0}
  /\ Script \in [Clerk -> Seq(SUBSET Request)]
  /\ \A c \in Clerk : \A k \in DOMAIN Script[c] : \A req \in Script[c][k] :
       req.type \in {"Join", "Leave"} => IsFiniteSet(req.gids)
  /\ None \notin Op

VARIABLES
  chosen,          \* the log of Raft that is agreed on
  pending,         \* what a server's log holds after it
  leads,           \* the servers with GetLeaderNum() = me
  elected, term,   \* the last server elected; the number of its election
  received,        \* messages a server has taken from applyCh
  curCommitIndex,
  got,             \* the command taken from applyCh and not yet applied
  configs,
  ClientMaxRequestSeq,
  resultMap,
  handlers,        \* RPC handlers under way
  clerk,           \* what each clerk is doing
  lost, crashes,   \* calls that failed, and crashes, so far
  acked,           \* history: Join, Leave and Move calls that returned
  answers          \* history: the answers to Query

raftVars == <<chosen, pending, leads, elected, term>>
applyVars == <<received, curCommitIndex, got, configs, ClientMaxRequestSeq>>
clientVars == <<clerk, lost, acked, answers>>
vars == <<raftVars, applyVars, resultMap, handlers, clientVars, crashes>>

NoTerm == 0

\* made is history: the commands that led to the configuration.
EmptyConfig == [num |-> 0, shards |-> [k \in Shard |-> 0], groups |-> {}, made |-> {}]

Init ==
  /\ chosen = << >>
  /\ pending = [s \in Server |-> << >>]
  /\ leads = {0} /\ elected = 0 /\ term = 1
  /\ received = [s \in Server |-> 0]
  /\ curCommitIndex = [s \in Server |-> 0]
  /\ got = [s \in Server |-> None]
  /\ configs = [s \in Server |-> <<EmptyConfig>>]
  /\ ClientMaxRequestSeq = [s \in Server |-> [c \in Clerk |-> -1]]
  /\ resultMap = [s \in Server |-> << >>]
  /\ handlers = {}
  /\ clerk = [c \in Clerk |-> [st |-> "idle", seq |-> 0, at |-> 0, req |-> None, before |-> {}]]
  /\ lost = 0 /\ crashes = 0 /\ acked = {} /\ answers = {}

-----------------------------------------------------------------------------
(* rebalance.                                                              *)

\* sort.Ints: the i-th one has i - 1 smaller ones.
GroupIDs(groups) ==
  [i \in 1..Cardinality(groups) |->
     CHOOSE g \in groups : Cardinality({h \in groups : h <= g}) = i]

\* Slip: the inner loop stops one shard early.
BlockShort(ind, per) == ind..(ind + per - 2)

\* The shards the inner loop assigns to one group.
Block(ind, per) == ind..(ind + per - 1)

\* After the shards of a group one of the remaining ones is assigned, but
\* shardInd stays, so that the next group's first shard is the same one.
Rebalanced(shards, groups) ==
  LET ids == GroupIDs(groups)
      per == NShards \div Cardinality(groups)
      remain == NShards - per * Cardinality(groups)
      after[i \in 0..Cardinality(groups)] ==
        IF i = 0 THEN shards
        ELSE LET ind == (i - 1) * per IN
             [k \in Shard |->
                IF k \in Block(ind, per) \/ (i <= remain /\ k = ind + per)
                  THEN ids[i] ELSE after[i - 1][k]]
  IN IF groups = {} THEN shards ELSE after[Cardinality(groups)]

-----------------------------------------------------------------------------
(* Raft, as far as a server can tell.                                      *)

\* The new leader's log may hold what the old leader had replicated so far.
Elect(s) ==
  /\ term < MaxElect
  /\ leads' = leads \cup {s} /\ elected' = s /\ term' = term + 1
  /\ \/ UNCHANGED pending
     \/ /\ s # elected
        /\ \E n \in 1..Len(pending[elected]) :
             pending' = [pending EXCEPT ![s] = SubSeq(pending[elected], 1, n)]
  /\ UNCHANGED <<chosen, applyVars, resultMap, handlers, clientVars, crashes>>

\* A deposed server learns of it.
StepDown(s) ==
  /\ s \in leads /\ s # elected
  /\ leads' = leads \ {s}
  /\ UNCHANGED <<chosen, pending, elected, term, applyVars, resultMap, handlers, clientVars, crashes>>

\* The leader's next entry is agreed on; a server that holds another one drops it.
Commit ==
  /\ elected \in leads /\ pending[elected] # << >>
  /\ LET e == Head(pending[elected]) IN
       /\ chosen' = Append(chosen, e)
       /\ pending' = [s \in Server |->
            IF pending[s] # << >> /\ Head(pending[s]) = e THEN Tail(pending[s]) ELSE << >>]
  /\ UNCHANGED <<leads, elected, term, applyVars, resultMap, handlers, clientVars, crashes>>

-----------------------------------------------------------------------------
(* mainProcess.                                                            *)

\* A message is taken from applyCh and curCommitIndex moves, before sm.mu is locked.
Receive(s) ==
  /\ got[s] = None /\ received[s] < Len(chosen)
  /\ s \in leads => s = elected
  /\ received' = [received EXCEPT ![s] = @ + 1]
  /\ curCommitIndex' = [curCommitIndex EXCEPT ![s] =
       IF received[s] + 1 > @ THEN received[s] + 1 ELSE @]
  /\ got' = [got EXCEPT ![s] = chosen[received[s] + 1].op]
  /\ UNCHANGED <<raftVars, configs, ClientMaxRequestSeq, resultMap, handlers, clientVars, crashes>>

CommID(op) == <<op.client, op.seq>>

\* Slip: the configuration before the latest one.
AskedBefore(s, num) == configs[s][IF Len(configs[s]) > 1 THEN Len(configs[s]) - 1 ELSE 1]

\* configs[num], or the latest one
Asked(s, num) ==
  IF num >= 0 /\ num < Len(configs[s]) THEN configs[s][num + 1] ELSE configs[s][Len(configs[s])]

\* Slip: only a request older than the latest one is taken for a repetition.
RepeatedOlder(s, op) == ClientMaxRequestSeq[s][op.client] > op.seq

Repeated(s, op) == ClientMaxRequestSeq[s][op.client] >= op.seq

\* The configuration a Join, Leave or Move makes, before rebalance.
Changed(cfg, req) ==
  CASE req.type = "Join" -> [cfg EXCEPT !.groups = @ \cup req.gids]
    [] req.type = "Leave" ->
         [cfg EXCEPT !.groups = @ \ req.gids,
                     !.shards = [k \in Shard |-> IF @[k] \in req.gids THEN -1 ELSE @[k]]]
    [] req.type = "Move" -> [cfg EXCEPT !.shards[req.shard] = req.gid]

NewConfig(s, op) ==
  LET last == configs[s][Len(configs[s])]
      cfg == Changed(last, op.req)
  IN [cfg EXCEPT !.num = last.num + 1, !.made = @ \cup {CommID(op)},
                 !.shards = Rebalanced(cfg.shards, cfg.groups)]

\* The rest of the iteration, under sm.mu.
Apply(s) ==
  LET op == got[s] IN
  /\ op # None
  /\ got' = [got EXCEPT ![s] = None]
  /\ \/ /\ op.req.type = "Query"
        /\ resultMap' = [resultMap EXCEPT ![s] =
             [id \in DOMAIN @ \cup {CommID(op)} |->
                IF id = CommID(op) THEN Asked(s, op.req.num) ELSE @[id]]]
        /\ UNCHANGED <<configs, ClientMaxRequestSeq>>
     \/ /\ op.req.type # "Query" /\ Repeated(s, op)
        /\ UNCHANGED <<configs, ClientMaxRequestSeq, resultMap>>
     \/ /\ op.req.type # "Query" /\ ~Repeated(s, op)
        /\ ClientMaxRequestSeq' = [ClientMaxRequestSeq EXCEPT ![s][op.client] = op.seq]
        /\ configs' = [configs EXCEPT ![s] = Append(@, NewConfig(s, op))]
        /\ UNCHANGED resultMap
  /\ UNCHANGED <<raftVars, received, curCommitIndex, handlers, clientVars, crashes>>

\* The server is stopped and started again: StartServer, on Raft's log, which is
\* delivered from the beginning.  Its handlers never answer.
Crash(s) ==
  /\ crashes < MaxCrash
  /\ crashes' = crashes + 1
  /\ leads' = leads \ {s}
  /\ received' = [received EXCEPT ![s] = 0]
  /\ curCommitIndex' = [curCommitIndex EXCEPT ![s] = 0]
  /\ got' = [got EXCEPT ![s] = None]
  /\ configs' = [configs EXCEPT ![s] = <<EmptyConfig>>]
  /\ ClientMaxRequestSeq' = [ClientMaxRequestSeq EXCEPT ![s] = [c \in Clerk |-> -1]]
  /\ resultMap' = [resultMap EXCEPT ![s] = << >>]
  /\ handlers' = {h \in handlers : h.srv # s}
  /\ UNCHANGED <<chosen, pending, elected, term, clientVars>>

-----------------------------------------------------------------------------
(* The handlers, and the clerks that call them.                            *)

ClerkBegin(c) ==
  \E req \in IF clerk[c].seq < Len(Script[c]) THEN Script[c][clerk[c].seq + 1] ELSE {} :
  /\ clerk[c].st = "idle"
  /\ clerk' = [clerk EXCEPT ![c].st = "send", ![c].at = 0, ![c].req = req,
                            ![c].before = {a.id : a \in {b \in acked : b.sure}}]
  /\ UNCHANGED <<raftVars, applyVars, resultMap, handlers, lost, acked, answers, crashes>>

\* Slip: the list of servers has no end.
NextServerOnly(c) == [clerk EXCEPT ![c].st = "send", ![c].at = @ + 1]

\* The clerk turns to the next server, after the last one to the first.
NextServer(c) == [clerk EXCEPT ![c].st = "send", ![c].at = (@ + 1) % N]

\* The call arrives; a server that does not lead answers at once.
Call(c) ==
  LET s == clerk[c].at IN
  /\ clerk[c].st = "send"
  /\ IF s \in leads
       THEN /\ clerk' = [clerk EXCEPT ![c].st = "wait"]
            /\ handlers' = handlers \cup
                 {[srv |-> s, st |-> "start", index |-> -1, term |-> NoTerm, live |-> TRUE,
                   op |-> [client |-> c, seq |-> clerk[c].seq, req |-> clerk[c].req]]}
       ELSE clerk' = NextServer(c) /\ UNCHANGED handlers
  /\ UNCHANGED <<raftVars, applyVars, resultMap, lost, acked, answers, crashes>>

\* Call returns false: the request never arrived, or its answer is lost.
CallFails(c) ==
  /\ clerk[c].st \in {"send", "wait"} /\ lost < MaxLost
  /\ lost' = lost + 1
  /\ clerk' = NextServer(c)
  /\ handlers' = {IF h.op.client = c THEN [h EXCEPT !.live = FALSE] ELSE h : h \in handlers}
  /\ UNCHANGED <<raftVars, applyVars, resultMap, acked, answers, crashes>>

\* rf.Start(comm): -1 if the server does not lead any more.
HandlerStart(h) ==
  LET s == h.srv IN
  /\ h.st = "start"
  /\ IF s \in leads
       THEN /\ pending' = [pending EXCEPT ![s] = Append(@, [op |-> h.op, term |-> term])]
            /\ handlers' = (handlers \ {h}) \cup
                 {[h EXCEPT !.st = "wait", !.index = Len(chosen) + Len(pending[s]) + 1,
                            !.term = IF s = elected THEN term ELSE NoTerm]}
       ELSE /\ handlers' = (handlers \ {h}) \cup {[h EXCEPT !.st = "wait"]}
            /\ UNCHANGED pending
  /\ UNCHANGED <<chosen, leads, elected, term, applyVars, resultMap, clientVars, crashes>>

\* The loop: whether the server still leads is asked first, and curCommitIndex is
\* read afterwards, without sm.mu.
HandlerWrongLeader(h) ==
  /\ h.st = "wait" /\ h.srv \notin leads
  /\ handlers' = handlers \ {h}
  /\ clerk' = IF h.live THEN NextServer(h.op.client) ELSE clerk
  /\ UNCHANGED <<raftVars, applyVars, resultMap, lost, acked, answers, crashes>>

HandlerLeads(h) ==
  /\ h.st = "wait" /\ h.srv \in leads
  /\ handlers' = (handlers \ {h}) \cup {[h EXCEPT !.st = "look"]}
  /\ UNCHANGED <<raftVars, applyVars, resultMap, clientVars, crashes>>

\* Slip: one command too early.
CommittedEarly(h) == curCommitIndex[h.srv] + 1 >= h.index

Committed(h) == curCommitIndex[h.srv] >= h.index

HandlerSleep(h) ==
  /\ h.st = "look" /\ ~Committed(h)
  /\ handlers' = (handlers \ {h}) \cup {[h EXCEPT !.st = "wait"]}
  /\ UNCHANGED <<raftVars, applyVars, resultMap, clientVars, crashes>>

\* sm.resultMap[commID], the zero Config if there is none
Result(s, id) == IF id \in DOMAIN resultMap[s] THEN resultMap[s][id] ELSE EmptyConfig

\* Whatever was committed at the index, the call returns.
HandlerReturn(h) ==
  LET s == h.srv
      c == h.op.client
      query == h.op.req.type = "Query"
      sure == h.term = term /\ s = elected   \* history: the server led all the time
  IN
  /\ h.st = "look" /\ Committed(h)
  /\ handlers' = handlers \ {h}
  /\ resultMap' = IF query THEN [resultMap EXCEPT ![s] = [id \in DOMAIN @ \ {CommID(h.op)} |-> @[id]]]
                  ELSE resultMap
  /\ IF h.live
       THEN /\ clerk' = [clerk EXCEPT ![c] = [st |-> "idle", seq |-> @.seq + 1, at |-> 0,
                                              req |-> None, before |-> {}]]
            /\ acked' = IF query THEN acked
                        ELSE acked \cup {[srv |-> s, id |-> CommID(h.op), sure |-> sure]}
            /\ answers' = IF query THEN answers \cup {[num |-> h.op.req.num, before |-> clerk[c].before,
                                                       config |-> Result(s, CommID(h.op))]}
                          ELSE answers
       ELSE UNCHANGED <<clerk, acked, answers>>
  /\ UNCHANGED <<raftVars, applyVars, lost, crashes>>

Next ==
  \/ \E s \in Server : Elect(s) \/ StepDown(s) \/ Receive(s) \/ Apply(s)
                         \/ Crash(s)
  \/ Commit
  \/ \E c \in Clerk : ClerkBegin(c) \/ Call(c) \/ CallFails(c)
  \/ \E h \in handlers : \/ HandlerStart(h) \/ HandlerWrongLeader(h) \/ HandlerLeads(h)
                          \/ HandlerSleep(h) \/ HandlerReturn(h)

Spec == Init /\ [][Next]_vars

-----------------------------------------------------------------------------
(* Properties.                                                             *)

Config == [num : Nat, shards : [Shard -> Int], groups : SUBSET Int,
           made : SUBSET (Clerk \X Nat)]

\* Every field has the type its declaration gives it.
TypeOK ==
  /\ leads \subseteq Server /\ elected \in Server /\ term \in Nat
  /\ received \in [Server -> Nat] /\ curCommitIndex \in [Server -> Nat]
  /\ \A s \in Server :
       /\ \A k \in DOMAIN configs[s] : configs[s][k] \in Config
       /\ \A id \in DOMAIN resultMap[s] : resultMap[s][id] \in Config
       /\ received[s] <= Len(chosen)
  /\ ClientMaxRequestSeq \in [Server -> [Clerk -> Int]]
  /\ \A c \in Clerk : clerk[c].at \in Server /\ clerk[c].seq \in Nat
  /\ \A h \in handlers : h.srv \in Server /\ h.index \in Int /\ h.live \in BOOLEAN

\* A Join, Leave or Move that a clerk repeats, to the same leader or the next one,
\* makes one configuration only, also when both copies of it are committed.
AppliedOnce ==
  \A s \in Server : \A k \in DOMAIN configs[s] :
    configs[s][k].num = Cardinality(configs[s][k].made)

\* A call that returns from a server that has led since it called Start was
\* committed.
AckedCommitted ==
  \A a \in acked : a.sure => \E k \in DOMAIN chosen : CommID(chosen[k].op) = a.id

\* The latest configuration, asked for after such a call returned, reflects that
\* call, whichever servers answered the two and whatever crashed between them.
\* (An empty answer is possible: the handler may be ahead of mainProcess.)
ReadsSeeWrites ==
  \A a \in answers : a.num = -1 /\ a.config # EmptyConfig => a.before \subseteq a.config.made

Owned(cfg, g) == {k \in Shard : cfg.shards[k] = g}

\* Every group of a configuration serves its share of the shards, rounded down.
ShareServed ==
  \A s \in Server : \A k \in DOMAIN configs[s] :
    LET cfg == configs[s][k] IN
    \A g \in cfg.groups : Cardinality(Owned(cfg, g)) >= NShards \div Cardinality(cfg.groups)
=============================================================================
