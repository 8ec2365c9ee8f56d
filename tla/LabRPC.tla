------------------------------- MODULE LabRPC -------------------------------
(***************************************************************************)
(* The simulated network of src/src/labrpc, together with the part of the  *)
(* harness src/src/raft/config.go that crashes, restarts, connects and     *)
(* disconnects peers.  A peer is an instance after the other: an old one   *)
(* cannot be killed and goes on running, with its own Persister and its    *)
(* own ClientEnds.  A handler's effect is that it saves something.         *)
(*                                                                         *)
(* Every delay (short, long, reordered, 100 ms) is some other step that    *)
(* comes first.                                                            *)
(***************************************************************************)
EXTENDS Integers, FiniteSets

CONSTANTS Peer,
          Id,       \* bound: the calls made
          MaxGen,   \* bound: the instances of a peer
          Nil

ASSUME RPCAssumption == MaxGen \in Nat \ {0} /\ Nil \notin Nat

Gen == 1..MaxGen

VARIABLES
  enabled,    \* Network.enabled: the names of the ends that are
  servers,    \* Network.servers: the instance registered under a peer's name
  reliable,
  done,       \* Cleanup has closed the channel
  looping,    \* the goroutine of MakeNetwork
  endnames,   \* the instance whose ends cfg.endnames holds
  connected,
  saved,      \* the instance for which cfg.saved holds the Persister
  disk,       \* what the Persister of each instance contains
  driver,     \* how far the test has got in crash1 and start1
  calls

netVars == <<enabled, servers, reliable, done, looping>>
cfgVars == <<endnames, connected, saved, driver>>
vars == <<netVars, cfgVars, disk, calls>>

Idle == [st |-> "idle", peer |-> Nil]
NoCall == [st |-> "none", from |-> Nil, gen |-> 0, to |-> Nil, srv |-> Nil, reliable |-> TRUE,
           handler |-> "none", replyOK |-> FALSE, ok |-> FALSE, retired |-> FALSE]

\* Slip: the names of the first instance are used again.
EndNameAgain(i, g, j) == <<i, 1, j>>

\* randstring: a name no other instance has used
EndName(i, g, j) == <<i, g, j>>

\* MakeEnd, Connect and Enable for every pair, in make_config.
Init ==
  /\ enabled = {EndName(i, 1, j) : i, j \in Peer}
  /\ servers = [i \in Peer |-> 1]
  /\ reliable \in BOOLEAN /\ done = FALSE /\ looping = TRUE
  /\ endnames = [i \in Peer |-> 1]
  /\ connected = Peer
  /\ saved = [i \in Peer |-> 1]
  /\ disk = [i \in Peer |-> [g \in Gen |-> {}]]
  /\ driver = Idle
  /\ calls = [c \in Id |-> NoCall]

-----------------------------------------------------------------------------
(* ClientEnd.Call, and the goroutine that accepts requests.                *)

\* Any instance calls another peer, one that has been crashed too.
Call(c, i, g, j) ==
  /\ calls[c].st = "none" /\ i # j /\ g <= endnames[i]
  /\ calls' = [calls EXCEPT ![c] = [NoCall EXCEPT !.st = "send", !.from = i, !.gen = g, !.to = j]]
  /\ UNCHANGED <<netVars, cfgVars, disk>>

Answered(c, ok) == calls' = [calls EXCEPT ![c].st = "reply", ![c].ok = ok]

Accept(c) ==
  /\ calls[c].st = "send" /\ looping
  /\ calls' = [calls EXCEPT ![c].st = "request"]
  /\ UNCHANGED <<netVars, cfgVars, disk>>

\* The case <-e.done of the select.
Refuse(c) ==
  /\ calls[c].st = "send" /\ done
  /\ Answered(c, FALSE)
  /\ UNCHANGED <<netVars, cfgVars, disk>>

Return(c) ==
  /\ calls[c].st = "reply"
  /\ calls' = [calls EXCEPT ![c].st = "returned"]
  /\ UNCHANGED <<netVars, cfgVars, disk>>

LoopExit ==
  /\ looping /\ done
  /\ looping' = FALSE
  /\ UNCHANGED <<enabled, servers, reliable, done, cfgVars, disk, calls>>

-----------------------------------------------------------------------------
(* ProcessReq.                                                             *)

End(r) == EndName(r.from, r.gen, r.to)

\* ReadEndnameInfo; an end that leads nowhere is answered after a delay.
ReadEndnameInfo(c) ==
  LET r == calls[c] IN
  /\ r.st = "request"
  /\ IF End(r) \in enabled /\ servers[r.to] # Nil
       THEN calls' = [calls EXCEPT ![c].st = "dispatch", ![c].srv = servers[r.to],
                                   ![c].reliable = reliable,
                                   ![c].retired = (r.gen # endnames[r.from])]
       ELSE Answered(c, FALSE)
  /\ UNCHANGED <<netVars, cfgVars, disk>>

DropRequest(c) ==
  /\ calls[c].st = "dispatch" /\ ~calls[c].reliable
  /\ Answered(c, FALSE)
  /\ UNCHANGED <<netVars, cfgVars, disk>>

\* The goroutine that calls the handler.
Dispatch(c) ==
  /\ calls[c].st = "dispatch"
  /\ calls' = [calls EXCEPT ![c].st = "wait", ![c].handler = "run"]
  /\ UNCHANGED <<netVars, cfgVars, disk>>

\* The handler saves to the Persister of its instance and returns, perhaps never.
Handler(c) ==
  LET r == calls[c] IN
  /\ r.handler = "run"
  /\ disk' = [disk EXCEPT ![r.to][r.srv] = @ \cup {c}]
  /\ calls' = [calls EXCEPT ![c].handler = "end"]
  /\ UNCHANGED <<netVars, cfgVars>>

\* Slip: a server of the name is there, whichever it is.
IsAnyServerDead(r) == End(r) \notin enabled \/ servers[r.to] = Nil

IsServerDead(r) == End(r) \notin enabled \/ servers[r.to] # r.srv

HandlerReplied(c) ==
  /\ calls[c].st = "wait" /\ calls[c].handler = "end"
  /\ calls' = [calls EXCEPT ![c].st = "check", ![c].replyOK = TRUE]
  /\ UNCHANGED <<netVars, cfgVars, disk>>

\* Slip: nobody looks while the handler runs.
PollNever(r) == FALSE

PollDead(r) == IsServerDead(r)

\* The 100 ms are over, and the server is found dead.
Poll(c) ==
  /\ calls[c].st = "wait" /\ PollDead(calls[c])
  /\ calls' = [calls EXCEPT ![c].st = "check"]
  /\ UNCHANGED <<netVars, cfgVars, disk>>

\* The second test, and the replies that are dropped.
Reply(c) ==
  LET r == calls[c] IN
  /\ r.st = "check"
  /\ \/ Answered(c, r.replyOK /\ ~IsServerDead(r))
     \/ ~r.reliable /\ Answered(c, FALSE)
  /\ UNCHANGED <<netVars, cfgVars, disk>>

-----------------------------------------------------------------------------
(* The test: one goroutine.                                                *)

Cleanup ==
  /\ driver = Idle /\ ~done
  /\ done' = TRUE
  /\ UNCHANGED <<enabled, servers, reliable, looping, cfgVars, disk, calls>>

Reliable(yes) ==
  /\ driver = Idle /\ ~done /\ reliable # yes
  /\ reliable' = yes
  /\ UNCHANGED <<enabled, servers, done, looping, cfgVars, disk, calls>>

\* The ends of the instances in cfg.endnames from and to a peer.  (A call looks at
\* one end only: enabling and disabling them is one step.)
EndsOf(i, others) ==
  {EndName(i, endnames[i], j) : j \in others} \cup {EndName(j, endnames[j], i) : j \in others}

ConnectPeer(i) ==
  /\ driver = Idle /\ ~done /\ i \notin connected /\ servers[i] # Nil
  /\ connected' = connected \cup {i}
  /\ enabled' = enabled \cup EndsOf(i, connected \cup {i})
  /\ UNCHANGED <<servers, reliable, done, looping, endnames, saved, driver, disk, calls>>

Disconnected(i) ==
  /\ connected' = connected \ {i}
  /\ enabled' = enabled \ EndsOf(i, Peer)

DisconnectPeer(i) ==
  /\ driver = Idle /\ ~done /\ i \in connected
  /\ Disconnected(i)
  /\ UNCHANGED <<servers, reliable, done, looping, endnames, saved, driver, disk, calls>>

CrashDisconnect(i) ==
  /\ driver = Idle /\ ~done /\ servers[i] # Nil /\ saved[i] < MaxGen
  /\ Disconnected(i)
  /\ driver' = [st |-> "delete", peer |-> i]
  /\ UNCHANGED <<servers, reliable, done, looping, endnames, saved, disk, calls>>

CrashDelete(i) ==
  /\ driver = [st |-> "delete", peer |-> i]
  /\ servers' = [servers EXCEPT ![i] = Nil]
  /\ driver' = [driver EXCEPT !.st = "copy"]
  /\ UNCHANGED <<enabled, reliable, done, looping, endnames, connected, saved, disk, calls>>

\* A copy of the Persister, and then one that holds its raftstate only.
CrashCopy(i) ==
  /\ driver = [st |-> "copy", peer |-> i]
  /\ saved' = [saved EXCEPT ![i] = @ + 1]
  /\ disk' = [disk EXCEPT ![i][saved[i] + 1] = disk[i][saved[i]]]
  /\ driver' = Idle
  /\ UNCHANGED <<netVars, endnames, connected, calls>>

\* Slip: the ends of the instance before it are kept.
KeptEnds(i) == endnames

FreshEnds(i) == [endnames EXCEPT ![i] = saved[i]]

\* AddServer
Registered(i) == [servers EXCEPT ![i] = saved[i]]

\* start1, its crash1 aside: a fresh set of ends, which are not enabled yet, and
\* Make on what was saved.
Start(i) ==
  /\ driver = Idle /\ ~done /\ servers[i] = Nil
  /\ endnames' = FreshEnds(i)
  /\ servers' = Registered(i)
  /\ UNCHANGED <<enabled, reliable, done, looping, connected, saved, driver, disk, calls>>

ProcessReq(c) ==
  \/ ReadEndnameInfo(c) \/ DropRequest(c) \/ Dispatch(c)
  \/ HandlerReplied(c) \/ Poll(c) \/ Reply(c)

Next ==
  \/ \E c \in Id :
       \/ \E i, j \in Peer, g \in Gen : Call(c, i, g, j)
       \/ Accept(c) \/ Refuse(c) \/ Return(c) \/ Handler(c)
       \/ ProcessReq(c)
  \/ LoopExit \/ Cleanup \/ \E yes \in BOOLEAN : Reliable(yes)
  \/ \E i \in Peer :
       \/ ConnectPeer(i) \/ DisconnectPeer(i)
       \/ CrashDisconnect(i) \/ CrashDelete(i) \/ CrashCopy(i) \/ Start(i)

Spec == Init /\ [][Next]_vars

\* Goroutines run and timers fire; handlers need not return.
Fairness ==
  \A c \in Id : WF_vars(Accept(c) \/ Refuse(c)) /\ WF_vars(ProcessReq(c)) /\ WF_vars(Return(c))

FairSpec == Spec /\ Fairness

-----------------------------------------------------------------------------
(* Properties.                                                             *)

CallRecord ==
  [st : {"none", "send", "request", "dispatch", "wait", "check", "reply", "returned"},
   from : Peer \cup {Nil}, gen : 0..MaxGen, to : Peer \cup {Nil}, srv : Gen \cup {Nil},
   reliable : BOOLEAN, handler : {"none", "run", "end"}, replyOK : BOOLEAN, ok : BOOLEAN,
   retired : BOOLEAN]

\* Every variable has the type its declaration gives it, and no instance is
\* registered or has ends that has no Persister.
TypeOK ==
  /\ enabled \subseteq Peer \X Gen \X Peer
  /\ servers \in [Peer -> Gen \cup {Nil}]
  /\ reliable \in BOOLEAN /\ done \in BOOLEAN /\ looping \in BOOLEAN
  /\ endnames \in [Peer -> Gen] /\ saved \in [Peer -> Gen] /\ connected \subseteq Peer
  /\ disk \in [Peer -> [Gen -> SUBSET Id]]
  /\ driver.st \in {"idle", "delete", "copy"} /\ driver.peer \in Peer \cup {Nil}
  /\ calls \in [Id -> CallRecord]
  /\ \A i \in Peer : servers[i] # Nil => servers[i] = endnames[i]

\* What the comment in ProcessReq promises: when a call is answered with success,
\* what its handler saved is in the Persister the peer has then, or is started
\* with next, although an instance that was crashed goes on running handlers.
PositiveReplyKept ==
  \A c \in Id : calls[c].ok => c \in disk[calls[c].to][saved[calls[c].to]]

\* The fresh names of start1: once a peer has been started again, no handler runs
\* for a request of the old instance that is looked up after that.
OldInstanceSilent ==
  \A c \in Id : calls[c].handler # "none" => ~calls[c].retired

Pending(c) == calls[c].st \notin {"none", "returned"}

\* Call returns, except while its handler runs on at a server that is still there:
\* a deleted server or a disabled end releases the caller, and so does Cleanup.
CallsReturn ==
  \A c \in Id :
    []<>(Pending(c) => calls[c].handler = "run" /\ ~IsServerDead(calls[c]))
=============================================================================
