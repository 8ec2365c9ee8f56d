---------------------------- MODULE LabRPCProofs ----------------------------
(***************************************************************************)
(* Proofs about LabRPC, for any number of peers, calls and restarts.       *)
(***************************************************************************)
EXTENDS LabRPC, TLAPS

\* What is known of one call, given the Persisters and which one counts.
Good(c, r, dsk, sav) ==
  /\ r \in CallRecord
  /\ r.st # "none" => r.from \in Peer /\ r.to \in Peer /\ r.gen \in Gen
  /\ r.st \in {"none", "send", "request", "dispatch"} => r.handler = "none" /\ ~r.ok
  /\ ~r.retired
  /\ r.st \in {"dispatch", "wait", "check"} \/ r.handler # "none" =>
       r.srv \in Gen /\ r.srv <= sav[r.to]
  /\ r.handler = "end" => c \in dsk[r.to][r.srv]
  /\ r.replyOK => r.handler = "end"
  /\ r.ok => c \in dsk[r.to][sav[r.to]]

\* Every end that is enabled joins the present instances of two peers that are
\* connected.
EndsCurrent ==
  \A e \in enabled : e[2] = endnames[e[1]] /\ e[1] \in connected /\ e[3] \in connected

\* A registered instance is the one whose Persister counts; a peer without one is
\* cut off, and so is the peer that is being crashed.
Places ==
  /\ \A i \in Peer : IF servers[i] = Nil THEN i \notin connected ELSE servers[i] = saved[i]
  /\ driver.st # "idle" =>
       /\ driver.peer \in Peer /\ driver.peer \notin connected
       /\ saved[driver.peer] + 1 \in Gen
  /\ driver.st = "copy" => servers[driver.peer] = Nil

Inv ==
  /\ TypeOK /\ EndsCurrent /\ Places
  /\ \A c \in Id : Good(c, calls[c], disk, saved)

-----------------------------------------------------------------------------
(* The steps of a call.                                                    *)

\* The constants.
LEMMA Constants == MaxGen \in Nat \ {0} /\ Nil \notin Gen /\ 1 \in Gen /\ Gen \subseteq Nat
  BY RPCAssumption DEF Gen

\* A step that replaces the record of one call by a good one keeps the invariant.
LEMMA CallStep ==
  ASSUME Inv, NEW c \in Id, NEW q,
         calls' = [calls EXCEPT ![c] = q],
         Good(c, q, disk, saved),
         UNCHANGED <<netVars, cfgVars, disk>>
  PROVE  Inv'
<1>1. UNCHANGED <<enabled, servers, reliable, done, looping, endnames, connected, saved, driver, disk>>
  BY DEF netVars, cfgVars
<1>2. calls \in [Id -> CallRecord] /\ q \in CallRecord
  BY DEF Inv, TypeOK, Good
<1>3. calls' \in [Id -> CallRecord] /\ calls'[c] = q /\ \A d \in Id \ {c} : calls'[d] = calls[d]
  BY <1>2
<1>4. TypeOK' /\ EndsCurrent' /\ Places'
  BY <1>1, <1>3 DEF Inv, TypeOK, EndsCurrent, Places
<1>5. \A d \in Id : Good(d, calls'[d], disk', saved')
  BY <1>1, <1>3 DEF Inv
<1> QED  BY <1>4, <1>5 DEF Inv

\* ClientEnd.Call makes a request.
LEMMA CallKeeps ==
  ASSUME Inv, NEW c \in Id, NEW i \in Peer, NEW g \in Gen, NEW j \in Peer, Call(c, i, g, j)
  PROVE  Inv'
<1> DEFINE q == [NoCall EXCEPT !.st = "send", !.from = i, !.gen = g, !.to = j]
<1>1. calls' = [calls EXCEPT ![c] = q] /\ UNCHANGED <<netVars, cfgVars, disk>>
  BY DEF Call
<1>2. g \in 0..MaxGen /\ 0 \in 0..MaxGen
  BY Constants DEF Gen
<1>3. NoCall \in CallRecord
  BY <1>2 DEF NoCall, CallRecord
<1>4. q \in CallRecord
  BY <1>2, <1>3 DEF CallRecord
<1>5. /\ q.st = "send" /\ q.from = i /\ q.gen = g /\ q.to = j
      /\ q.handler = "none" /\ ~q.replyOK /\ ~q.ok /\ ~q.retired
  BY DEF NoCall
<1>6. Good(c, q, disk, saved)
  BY <1>4, <1>5 DEF Good
<1> QED  BY <1>1, <1>6, CallStep

\* MakeNetwork's goroutine takes the request.
LEMMA AcceptKeeps ==
  ASSUME Inv, NEW c \in Id, Accept(c)
  PROVE  Inv'
<1> DEFINE q == [calls[c] EXCEPT !.st = "request"]
<1>1. calls' = [calls EXCEPT ![c] = q] /\ UNCHANGED <<netVars, cfgVars, disk>>
  BY DEF Accept
<1>2. Good(c, calls[c], disk, saved)
  BY DEF Inv
<1>3. Good(c, q, disk, saved)
  BY <1>2 DEF Accept, Good, CallRecord
<1> QED  BY <1>1, <1>3, CallStep

\* The network has been cleaned up.
LEMMA RefuseKeeps ==
  ASSUME Inv, NEW c \in Id, Refuse(c)
  PROVE  Inv'
<1> DEFINE q == [calls[c] EXCEPT !.st = "reply", !.ok = FALSE]
<1>1. calls' = [calls EXCEPT ![c] = q] /\ UNCHANGED <<netVars, cfgVars, disk>>
  BY DEF Refuse, Answered
<1>2. Good(c, calls[c], disk, saved)
  BY DEF Inv
<1>3. Good(c, q, disk, saved)
  BY <1>2 DEF Refuse, Good, CallRecord
<1> QED  BY <1>1, <1>3, CallStep

\* Call returns.
LEMMA ReturnKeeps ==
  ASSUME Inv, NEW c \in Id, Return(c)
  PROVE  Inv'
<1> DEFINE q == [calls[c] EXCEPT !.st = "returned"]
<1>1. calls' = [calls EXCEPT ![c] = q] /\ UNCHANGED <<netVars, cfgVars, disk>>
  BY DEF Return
<1>2. Good(c, calls[c], disk, saved)
  BY DEF Inv
<1>3. Good(c, q, disk, saved)
  BY <1>2 DEF Return, Good, CallRecord
<1> QED  BY <1>1, <1>3, CallStep

\* The request is dropped.
LEMMA DropRequestKeeps ==
  ASSUME Inv, NEW c \in Id, DropRequest(c)
  PROVE  Inv'
<1> DEFINE q == [calls[c] EXCEPT !.st = "reply", !.ok = FALSE]
<1>1. calls' = [calls EXCEPT ![c] = q] /\ UNCHANGED <<netVars, cfgVars, disk>>
  BY DEF DropRequest, Answered
<1>2. Good(c, calls[c], disk, saved)
  BY DEF Inv
<1>3. Good(c, q, disk, saved)
  BY <1>2 DEF DropRequest, Good, CallRecord
<1> QED  BY <1>1, <1>3, CallStep

\* The handler's goroutine starts.
LEMMA DispatchKeeps ==
  ASSUME Inv, NEW c \in Id, Dispatch(c)
  PROVE  Inv'
<1> DEFINE q == [calls[c] EXCEPT !.st = "wait", !.handler = "run"]
<1>1. calls' = [calls EXCEPT ![c] = q] /\ UNCHANGED <<netVars, cfgVars, disk>>
  BY DEF Dispatch
<1>2. Good(c, calls[c], disk, saved)
  BY DEF Inv
<1>3. Good(c, q, disk, saved)
  BY <1>2 DEF Dispatch, Good, CallRecord
<1> QED  BY <1>1, <1>3, CallStep

\* The handler's reply arrives.
LEMMA HandlerRepliedKeeps ==
  ASSUME Inv, NEW c \in Id, HandlerReplied(c)
  PROVE  Inv'
<1> DEFINE q == [calls[c] EXCEPT !.st = "check", !.replyOK = TRUE]
<1>1. calls' = [calls EXCEPT ![c] = q] /\ UNCHANGED <<netVars, cfgVars, disk>>
  BY DEF HandlerReplied
<1>2. Good(c, calls[c], disk, saved)
  BY DEF Inv
<1>3. Good(c, q, disk, saved)
  BY <1>2 DEF HandlerReplied, Good, CallRecord
<1> QED  BY <1>1, <1>3, CallStep

\* The server is found dead.
LEMMA PollKeeps ==
  ASSUME Inv, NEW c \in Id, Poll(c)
  PROVE  Inv'
<1> DEFINE q == [calls[c] EXCEPT !.st = "check"]
<1>1. calls' = [calls EXCEPT ![c] = q] /\ UNCHANGED <<netVars, cfgVars, disk>>
  BY DEF Poll
<1>2. Good(c, calls[c], disk, saved)
  BY DEF Inv
<1>3. Good(c, q, disk, saved)
  BY <1>2 DEF Poll, Good, CallRecord
<1> QED  BY <1>1, <1>3, CallStep

-----------------------------------------------------------------------------
(* The steps that look at the tables, and those that change them.          *)

\* An end that is enabled belongs to the present instance of its peer, so the call
\* is not one of an instance that has been replaced.
LEMMA ReadEndnameInfoKeeps ==
  ASSUME Inv, NEW c \in Id, ReadEndnameInfo(c)
  PROVE  Inv'
<1> DEFINE r == calls[c]
<1>1. Good(c, r, disk, saved) /\ r.st = "request" /\ UNCHANGED <<netVars, cfgVars, disk>>
  BY DEF Inv, ReadEndnameInfo
<1>2. r \in CallRecord /\ r.from \in Peer /\ r.to \in Peer /\ r.gen \in Gen
  BY <1>1 DEF Good
<1>3. CASE End(r) \in enabled /\ servers[r.to] # Nil
  <2> DEFINE q == [r EXCEPT !.st = "dispatch", !.srv = servers[r.to], !.reliable = reliable,
                            !.retired = (r.gen # endnames[r.from])]
  <2>1. calls' = [calls EXCEPT ![c] = q]
    BY <1>3 DEF ReadEndnameInfo
  <2>2. r.gen = endnames[r.from]
    BY <1>2, <1>3 DEF Inv, EndsCurrent, End, EndName
  <2>3. servers[r.to] \in Gen /\ servers[r.to] <= saved[r.to] /\ reliable \in BOOLEAN
    <3>1. servers[r.to] = saved[r.to]
      BY <1>2, <1>3 DEF Inv, Places
    <3>2. saved \in [Peer -> Gen] /\ reliable \in BOOLEAN
      BY DEF Inv, TypeOK
    <3>3. saved[r.to] \in Gen
      BY <1>2, <3>2
    <3>4. saved[r.to] <= saved[r.to]
      BY <3>3, Constants DEF Gen
    <3> QED  BY <3>1, <3>2, <3>3, <3>4
  <2>4. Good(c, q, disk, saved)
    BY <1>1, <1>2, <2>2, <2>3 DEF Good, CallRecord
  <2> QED  BY <1>1, <2>1, <2>4, CallStep
<1>4. CASE ~(End(r) \in enabled /\ servers[r.to] # Nil)
  <2> DEFINE q == [r EXCEPT !.st = "reply", !.ok = FALSE]
  <2>1. calls' = [calls EXCEPT ![c] = q]
    BY <1>4 DEF ReadEndnameInfo, Answered
  <2>2. Good(c, q, disk, saved)
    BY <1>1 DEF Good, CallRecord
  <2> QED  BY <1>1, <2>1, <2>2, CallStep
<1> QED  BY <1>3, <1>4

\* A positive reply: the instance that ran the handler is still registered, so its
\* Persister is the one that counts.
LEMMA ReplyKeeps ==
  ASSUME Inv, NEW c \in Id, Reply(c)
  PROVE  Inv'
<1> DEFINE r == calls[c]
<1>1. Good(c, r, disk, saved) /\ r.st = "check" /\ UNCHANGED <<netVars, cfgVars, disk>>
  BY DEF Inv, Reply
<1>2. PICK ok \in BOOLEAN :
        /\ calls' = [calls EXCEPT ![c] = [r EXCEPT !.st = "reply", !.ok = ok]]
        /\ ok => r.replyOK /\ ~IsServerDead(r)
  <2>1. r.replyOK \in BOOLEAN
    BY <1>1 DEF Good, CallRecord
  <2> QED  BY <2>1 DEF Reply, Answered
<1> DEFINE q == [r EXCEPT !.st = "reply", !.ok = ok]
<1>3. ok => c \in disk[r.to][saved[r.to]]
  <2>1. HAVE ok
  <2>2. r.to \in Peer /\ r.srv \in Gen /\ c \in disk[r.to][r.srv] /\ servers[r.to] = r.srv
    BY <1>1, <1>2, <2>1 DEF Good, IsServerDead
  <2>3. saved[r.to] = r.srv
    BY <2>2, Constants DEF Inv, Places
  <2> QED  BY <2>2, <2>3
<1>4. Good(c, q, disk, saved)
  BY <1>1, <1>3 DEF Good, CallRecord
<1> QED  BY <1>1, <1>2, <1>4, CallStep

\* The handler saves, to the Persister of the instance it runs in.
LEMMA HandlerKeeps ==
  ASSUME Inv, NEW c \in Id, Handler(c)
  PROVE  Inv'
<1> DEFINE r == calls[c]
           q == [r EXCEPT !.handler = "end"]
<1>1. /\ Good(c, r, disk, saved) /\ r.handler = "run"
      /\ calls' = [calls EXCEPT ![c] = q]
      /\ UNCHANGED <<enabled, servers, reliable, done, looping, endnames, connected, saved, driver>>
  BY DEF Inv, Handler, netVars, cfgVars
<1>2. r.to \in Peer /\ r.srv \in Gen /\ r \in CallRecord
  BY <1>1 DEF Good
<1>3. /\ disk \in [Peer -> [Gen -> SUBSET Id]]
      /\ disk' = [disk EXCEPT ![r.to] = [disk[r.to] EXCEPT ![r.srv] = disk[r.to][r.srv] \cup {c}]]
  BY DEF Inv, TypeOK, Handler
<1>4. disk' \in [Peer -> [Gen -> SUBSET Id]]
  BY <1>2, <1>3
<1>5. \A i \in Peer, g \in Gen : disk[i][g] \subseteq disk'[i][g]
  BY <1>2, <1>3
<1>6. c \in disk'[r.to][r.srv]
  BY <1>2, <1>3
<1>7. saved \in [Peer -> Gen] /\ calls \in [Id -> CallRecord]
  BY DEF Inv, TypeOK
<1>8. Good(c, q, disk', saved)
  BY <1>1, <1>2, <1>5, <1>6, <1>7 DEF Good, CallRecord
<1>9. ASSUME NEW d \in Id \ {c}  PROVE Good(d, calls[d], disk', saved)
  <2>1. Good(d, calls[d], disk, saved)
    BY <1>9 DEF Inv
  <2> QED  BY <1>5, <1>7, <2>1 DEF Good
<1>10. q \in CallRecord
  BY <1>8 DEF Good
<1> HIDE DEF q
<1>11. calls' \in [Id -> CallRecord] /\ calls'[c] = q /\ \A d \in Id \ {c} : calls'[d] = calls[d]
  BY <1>1, <1>7, <1>10
<1>12. TypeOK' /\ EndsCurrent' /\ Places'
  BY <1>1, <1>4, <1>11 DEF Inv, TypeOK, EndsCurrent, Places
<1> QED  BY <1>1, <1>8, <1>9, <1>11, <1>12 DEF Inv

\* A step that changes neither a call, nor a Persister, nor which one counts.
LEMMA TableStep ==
  ASSUME Inv, UNCHANGED <<disk, saved, calls>>, TypeOK', EndsCurrent', Places'
  PROVE  Inv'
  BY DEF Inv

\* Cleanup, Reliable, and the end of MakeNetwork's goroutine.
LEMMA NetworkKeeps ==
  ASSUME Inv, Cleanup \/ LoopExit \/ \E yes \in BOOLEAN : Reliable(yes)
  PROVE  Inv'
<1>1. /\ UNCHANGED <<enabled, servers, endnames, connected, saved, driver, disk, calls>>
      /\ reliable' \in BOOLEAN /\ done' \in BOOLEAN /\ looping' \in BOOLEAN
  BY DEF Cleanup, LoopExit, Reliable, cfgVars, Inv, TypeOK
<1>2. TypeOK' /\ EndsCurrent' /\ Places'
  BY <1>1 DEF Inv, TypeOK, EndsCurrent, Places
<1> QED  BY <1>1, <1>2, TableStep

\* What connect enables joins present instances of connected peers.
LEMMA ConnectPeerKeeps ==
  ASSUME Inv, NEW i \in Peer, ConnectPeer(i)
  PROVE  Inv'
<1>1. /\ UNCHANGED <<servers, reliable, done, looping, endnames, saved, driver, disk, calls>>
      /\ driver.st = "idle" /\ servers[i] # Nil
      /\ connected' = connected \cup {i}
      /\ enabled' = enabled \cup EndsOf(i, connected \cup {i})
  BY DEF ConnectPeer, Idle
<1>2. endnames \in [Peer -> Gen] /\ connected \subseteq Peer /\ enabled \subseteq Peer \X Gen \X Peer
  BY DEF Inv, TypeOK
<1>3. ASSUME NEW e \in EndsOf(i, connected \cup {i})
      PROVE  /\ e \in Peer \X Gen \X Peer
             /\ e[2] = endnames[e[1]] /\ e[1] \in connected' /\ e[3] \in connected'
  <2>1. PICK j \in connected \cup {i} : e = <<i, endnames[i], j>> \/ e = <<j, endnames[j], i>>
    BY <1>3 DEF EndsOf, EndName
  <2> QED  BY <1>1, <1>2, <2>1
<1>4. TypeOK'
  BY <1>1, <1>2, <1>3 DEF Inv, TypeOK
<1>5. EndsCurrent'
  BY <1>1, <1>3 DEF Inv, EndsCurrent
<1>6. Places'
  BY <1>1 DEF Inv, Places
<1> QED  BY <1>1, <1>4, <1>5, <1>6, TableStep

\* After disconnect no enabled end has the peer at either side.
LEMMA DisconnectedEnds ==
  ASSUME Inv, NEW i \in Peer, Disconnected(i), UNCHANGED endnames
  PROVE  /\ enabled' \subseteq Peer \X Gen \X Peer /\ connected' \subseteq Peer
         /\ connected' \subseteq connected /\ i \notin connected'
         /\ EndsCurrent'
<1>1. /\ connected' = connected \ {i} /\ enabled' = enabled \ EndsOf(i, Peer)
      /\ connected \subseteq Peer /\ enabled \subseteq Peer \X Gen \X Peer
  BY DEF Inv, TypeOK, Disconnected
<1>2. ASSUME NEW e \in enabled'
      PROVE  e[2] = endnames'[e[1]] /\ e[1] \in connected' /\ e[3] \in connected'
  <2>1. /\ e \in enabled /\ e \notin EndsOf(i, Peer)
        /\ e[1] \in Peer /\ e[3] \in Peer /\ e = <<e[1], e[2], e[3]>>
    BY <1>1, <1>2
  <2>2. e[2] = endnames[e[1]] /\ e[1] \in connected /\ e[3] \in connected
    BY <2>1 DEF Inv, EndsCurrent
  <2>3. e[1] # i /\ e[3] # i
    BY <2>1, <2>2 DEF EndsOf, EndName
  <2> QED  BY <1>1, <2>2, <2>3
<1> QED  BY <1>1, <1>2 DEF EndsCurrent

\* disconnect cuts a peer off.
LEMMA DisconnectPeerKeeps ==
  ASSUME Inv, NEW i \in Peer, DisconnectPeer(i)
  PROVE  Inv'
<1>1. /\ UNCHANGED <<servers, reliable, done, looping, endnames, saved, driver, disk, calls>>
      /\ Disconnected(i)
  BY DEF DisconnectPeer
<1>2. /\ enabled' \subseteq Peer \X Gen \X Peer /\ connected' \subseteq Peer
      /\ connected' \subseteq connected /\ EndsCurrent'
  BY <1>1, DisconnectedEnds
<1>3. TypeOK'
  BY <1>1, <1>2 DEF Inv, TypeOK
<1>4. Places'
  BY <1>1, <1>2 DEF Inv, Places
<1> QED  BY <1>1, <1>2, <1>3, <1>4, TableStep

\* crash1 cuts the peer off first.
LEMMA CrashDisconnectKeeps ==
  ASSUME Inv, NEW i \in Peer, CrashDisconnect(i)
  PROVE  Inv'
<1>1. /\ UNCHANGED <<servers, reliable, done, looping, endnames, saved, disk, calls>>
      /\ Disconnected(i) /\ saved[i] < MaxGen
      /\ driver' = [st |-> "delete", peer |-> i]
  BY DEF CrashDisconnect
<1>2. /\ enabled' \subseteq Peer \X Gen \X Peer /\ connected' \subseteq Peer
      /\ connected' \subseteq connected /\ i \notin connected' /\ EndsCurrent'
  BY <1>1, DisconnectedEnds
<1>3. TypeOK'
  BY <1>1, <1>2 DEF Inv, TypeOK
<1>4. saved[i] + 1 \in Gen
  BY <1>1, Constants DEF Inv, TypeOK, Gen
<1>5. Places'
  BY <1>1, <1>2, <1>4 DEF Inv, Places
<1> QED  BY <1>1, <1>2, <1>3, <1>5, TableStep

\* crash1 takes the server out of the network.
LEMMA CrashDeleteKeeps ==
  ASSUME Inv, NEW i \in Peer, CrashDelete(i)
  PROVE  Inv'
<1>1. /\ UNCHANGED <<enabled, reliable, done, looping, endnames, connected, saved, disk, calls>>
      /\ servers' = [servers EXCEPT ![i] = Nil]
      /\ driver.st = "delete" /\ driver.peer = i /\ driver'.st = "copy" /\ driver'.peer = i
  BY DEF CrashDelete
<1>2. TypeOK' /\ EndsCurrent'
  BY <1>1 DEF Inv, TypeOK, EndsCurrent
<1>3. Places'
  BY <1>1 DEF Inv, TypeOK, Places
<1> QED  BY <1>1, <1>2, <1>3, TableStep

\* The copy holds all that the Persister did, and nobody has used it yet.
LEMMA CrashCopyKeeps ==
  ASSUME Inv, NEW i \in Peer, CrashCopy(i)
  PROVE  Inv'
<1> DEFINE n == saved[i] + 1
<1>1. /\ UNCHANGED <<enabled, servers, reliable, done, looping, endnames, connected, calls>>
      /\ driver.st = "copy" /\ driver.peer = i /\ driver' = Idle
      /\ saved' = [saved EXCEPT ![i] = n]
      /\ disk' = [disk EXCEPT ![i] = [disk[i] EXCEPT ![n] = disk[i][saved[i]]]]
  BY DEF CrashCopy, netVars
<1>2. /\ saved \in [Peer -> Gen] /\ disk \in [Peer -> [Gen -> SUBSET Id]]
      /\ n \in Gen /\ servers[i] = Nil /\ saved[i] \in Gen
  BY <1>1 DEF Inv, TypeOK, Places
<1>3. saved' \in [Peer -> Gen] /\ disk' \in [Peer -> [Gen -> SUBSET Id]]
  <2>1. disk[i][saved[i]] \in SUBSET Id
    BY <1>2
  <2> HIDE DEF n
  <2> QED  BY <1>1, <1>2, <2>1
<1>4. ASSUME NEW d \in Id  PROVE Good(d, calls[d], disk', saved')
  <2> DEFINE r == calls[d]
  <2>1. Good(d, r, disk, saved)
    BY DEF Inv
  <2>2. CASE r.to # i
    <3>1. r.to \in Peer => disk'[r.to] = disk[r.to] /\ saved'[r.to] = saved[r.to]
      BY <1>1, <1>2, <2>2
    <3>2. r.to \notin Peer => r.st = "none" /\ r.handler = "none" /\ ~r.ok
      BY <2>1 DEF Good
    <3> QED  BY <2>1, <3>1, <3>2 DEF Good
  <2>3. CASE r.to = i
    <3>1. saved'[i] = n /\ disk'[i][n] = disk[i][saved[i]]
      BY <1>1, <1>2
    <3>2. \A g \in Gen : g <= saved[i] => g <= n /\ disk'[i][g] = disk[i][g]
      <4>1. \A g \in Gen : g <= saved[i] => g <= n /\ g # n
        BY <1>2, Constants DEF Gen
      <4> HIDE DEF n
      <4> QED  BY <1>1, <1>2, <4>1
    <3> HIDE DEF n
    <3> QED  BY <2>1, <2>3, <3>1, <3>2 DEF Good
  <2> QED  BY <2>2, <2>3
<1>5. TypeOK' /\ EndsCurrent'
  BY <1>1, <1>3 DEF Inv, TypeOK, EndsCurrent, Idle
<1>6. Places'
  BY <1>1, <1>2 DEF Inv, Places, Idle
<1> QED  BY <1>1, <1>4, <1>5, <1>6 DEF Inv

\* A peer that is started has no enabled end, so that its new names replace no
\* end somebody could still use.
LEMMA StartKeeps ==
  ASSUME Inv, NEW i \in Peer, Start(i)
  PROVE  Inv'
<1>1. /\ UNCHANGED <<enabled, reliable, done, looping, connected, saved, driver, disk, calls>>
      /\ driver.st = "idle" /\ servers[i] = Nil
      /\ endnames' = [endnames EXCEPT ![i] = saved[i]]
      /\ servers' = [servers EXCEPT ![i] = saved[i]]
  BY DEF Start, FreshEnds, Registered, Idle
<1>2. /\ saved \in [Peer -> Gen] /\ endnames \in [Peer -> Gen] /\ i \notin connected
      /\ servers \in [Peer -> Gen \cup {Nil}] /\ connected \subseteq Peer
      /\ enabled \subseteq Peer \X Gen \X Peer
  BY <1>1 DEF Inv, TypeOK, Places
<1>3. TypeOK'
  BY <1>1, <1>2 DEF Inv, TypeOK
<1>4. EndsCurrent'
  BY <1>1, <1>2 DEF Inv, EndsCurrent
<1>5. Places'
  BY <1>1, <1>2, Constants DEF Inv, Places
<1> QED  BY <1>1, <1>3, <1>4, <1>5, TableStep

-----------------------------------------------------------------------------
(* The theorems.                                                           *)

\* make_config leaves every peer started once, and connected.
LEMMA InitInv == Init => Inv
<1> SUFFICES ASSUME Init PROVE Inv
  OBVIOUS
<1>1. 1 \in Gen /\ 0 \in 0..MaxGen /\ Nil \notin Gen
  BY Constants
<1>2. NoCall \in CallRecord
  BY <1>1 DEF NoCall, CallRecord
<1>3. ASSUME NEW c \in Id  PROVE Good(c, calls[c], disk, saved)
  <2>1. calls[c] = NoCall
    BY DEF Init
  <2>2. /\ NoCall.st = "none" /\ NoCall.handler = "none" /\ ~NoCall.ok /\ ~NoCall.retired
        /\ ~NoCall.replyOK
    BY DEF NoCall
  <2> QED  BY <1>2, <2>1, <2>2 DEF Good
<1>4. \A e \in enabled : \E i, j \in Peer : e = <<i, 1, j>>
  BY DEF Init, EndName
<1>5. TypeOK
  <2>1. calls \in [Id -> CallRecord]
    BY <1>2 DEF Init
  <2>2. enabled \subseteq Peer \X Gen \X Peer
    BY <1>1, <1>4
  <2>3. reliable \in BOOLEAN /\ done \in BOOLEAN /\ looping \in BOOLEAN
    BY DEF Init
  <2> QED  BY <1>1, <2>1, <2>2, <2>3 DEF Init, TypeOK, Idle
<1>6. EndsCurrent
  BY <1>4 DEF Init, EndsCurrent
<1>7. Places
  BY <1>1 DEF Init, Places, Idle
<1> QED  BY <1>3, <1>5, <1>6, <1>7 DEF Inv

\* No step of the network, of a call or of the harness breaks the invariant.
LEMMA NextInv == Inv /\ [Next]_vars => Inv'
<1> SUFFICES ASSUME Inv, [Next]_vars PROVE Inv'
  OBVIOUS
<1>1. CASE UNCHANGED vars
  BY <1>1 DEF vars, netVars, cfgVars, Inv, TypeOK, EndsCurrent, Places
<1>2. ASSUME NEW c \in Id, NEW i \in Peer, NEW j \in Peer, NEW g \in Gen, Call(c, i, g, j)
      PROVE  Inv'
  BY <1>2, CallKeeps
<1>3. ASSUME NEW c \in Id, Accept(c) \/ Refuse(c) \/ Return(c) \/ Handler(c)
      PROVE  Inv'
  BY <1>3, AcceptKeeps, RefuseKeeps, ReturnKeeps, HandlerKeeps
<1>4. ASSUME NEW c \in Id, ProcessReq(c)  PROVE Inv'
  BY <1>4, ReadEndnameInfoKeeps, DropRequestKeeps, DispatchKeeps, HandlerRepliedKeeps,
     PollKeeps, ReplyKeeps DEF ProcessReq
<1>5. ASSUME NEW i \in Peer,
             \/ ConnectPeer(i) \/ DisconnectPeer(i)
             \/ CrashDisconnect(i) \/ CrashDelete(i) \/ CrashCopy(i) \/ Start(i)
      PROVE  Inv'
  BY <1>5, ConnectPeerKeeps, DisconnectPeerKeeps, CrashDisconnectKeeps, CrashDeleteKeeps,
     CrashCopyKeeps, StartKeeps
<1>6. CASE LoopExit \/ Cleanup \/ \E yes \in BOOLEAN : Reliable(yes)
  BY <1>6, NetworkKeeps
<1> QED  BY <1>1, <1>2, <1>3, <1>4, <1>5, <1>6 DEF Next

\* No step of the network, of a call or of the harness leaves the tables and the
\* calls in a state without meaning; in particular a registered instance is always
\* the one whose ends the harness knows.
THEOREM NetworkTypes == Spec => []TypeOK
<1>1. Inv => TypeOK
  BY DEF Inv
<1> QED  BY <1>1, InitInv, NextInv, PTL DEF Spec

\* The promise of the comment in ProcessReq, for any number of peers, calls and
\* restarts: what a handler saved before a positive reply is in the Persister that
\* the peer is, or will next be, started with.
THEOREM PositiveRepliesKept == Spec => []PositiveReplyKept
<1>1. Inv => PositiveReplyKept
  BY DEF Inv, Good, PositiveReplyKept
<1> QED  BY <1>1, InitInv, NextInv, PTL DEF Spec

\* The fresh names of start1 silence the instance before it, for any number of
\* peers, calls and restarts.
THEOREM OldInstancesSilent == Spec => []OldInstanceSilent
<1>1. Inv => OldInstanceSilent
  BY DEF Inv, Good, OldInstanceSilent
<1> QED  BY <1>1, InitInv, NextInv, PTL DEF Spec
=============================================================================
