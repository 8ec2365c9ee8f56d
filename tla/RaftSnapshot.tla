---------------------------- MODULE RaftSnapshot ----------------------------
EXTENDS RaftReplication

(* Snapshots: TakeSnapshots, sendSnapShot and InstallSnapShot.             *)

\* Slip: the entry before endIndex becomes the first one.
TruncatedLong(i, endIndex) == LogFrom(i, TrueIndex(i, endIndex) - 1)

\* truncate: the entry at endIndex becomes the first one.
Truncated(i, endIndex) == LogFrom(i, TrueIndex(i, endIndex))

\* The service asks, from a goroutine of its own, for a snapshot after a command
\* it received; the snapshot covers the entries before that one.
SnapshotDue(i, index) ==
  /\ \E k \in 1..Len(applied[i].msgs) : applied[i].msgs[k].index = index
  /\ index - 1 >= 1 /\ index - 1 > lastIndexInSnapshot[i]

\* The entry is no longer in the log.
TakeSnapshotsPanics(i, index) ==
  SnapshotDue(i, index) /\ TrueIndex(i, index - 1) >= Len(log[i])

TakeSnapshots(i, index) ==
  LET endIndex == index - 1
      entry == At(i, TrueIndex(i, endIndex))
  IN
  /\ Up(i) /\ SnapshotDue(i, index) /\ ~TakeSnapshotsPanics(i, index)
  /\ lastTermInSnapshot' = [lastTermInSnapshot EXCEPT ![i] = entry.term]
  /\ lastIndexInSnapshot' = [lastIndexInSnapshot EXCEPT ![i] = endIndex]
  /\ log' = [log EXCEPT ![i] = Truncated(i, endIndex)]
  /\ SaveStateAndSnapshot(i, [term |-> currentTerm[i], log |-> Truncated(i, endIndex)],
                             [index |-> endIndex, term |-> entry.term])
  /\ UNCHANGED <<electionVars, termVars, commitVars, leaderVars, startVars, notify,
                 rvCalls, aeCalls, isCalls, restarts>>

ISDone(c, d) == (isCalls \ {c}) \cup (IF d.st = "reply" /\ ~d.live THEN {} ELSE {d})

ISCheck(c) ==
  LET i == c.dst
      refused(e, v) == [c EXCEPT !.st = "reply", !.replyTerm = currentTerm[i],
                                 !.err = e, !.value = v]
      same == /\ LastLogIndex(i) >= c.index
              /\ At(i, TrueIndex(i, c.index)).term = c.lastTerm
  IN
  /\ c.st = "net" /\ Up(i)
  /\ isCalls' = ISDone(c,
       CASE c.term < currentTerm[i] -> refused(1, 0)
         [] c.term >= currentTerm[i] /\ c.index <= lastIndexInSnapshot[i] ->
              refused(2, lastIndexInSnapshot[i])
         [] c.term >= currentTerm[i] /\ c.index > lastIndexInSnapshot[i] /\ same ->
              refused(3, 0)
         [] OTHER -> [c EXCEPT !.st = "lock", !.replyTerm = currentTerm[i]])
  /\ UNCHANGED <<peerVars, notify, rvCalls, aeCalls>>

\* panic("install error"): the data is older than LastIncludedIndex
InstallPanics(c) ==
  /\ c.index > lastIndexInSnapshot[c.dst]
  /\ \/ c.st = "lock" /\ c.data.index <= lastIndexInSnapshot[c.dst]
     \/ c.st = "deliver"

\* readSnapshotPersist up to the unlock, unless there is no data or it is old.
ISLock(c) ==
  LET i == c.dst
      fresh == c.data.index > lastIndexInSnapshot[i]
  IN
  /\ c.st = "lock" /\ Up(i) /\ ~InstallPanics(c)
  /\ IF fresh
       THEN /\ log' = [log EXCEPT ![i] = <<[term |-> c.data.term, cmd |-> Nil]>>]
            /\ lastIndexInSnapshot' = [lastIndexInSnapshot EXCEPT ![i] = c.data.index]
            /\ lastTermInSnapshot' = [lastTermInSnapshot EXCEPT ![i] = c.data.term]
            /\ commitIndex' = [commitIndex EXCEPT ![i] = c.data.index]
            /\ isCalls' = ISDone(c, [c EXCEPT !.st = "deliver"])
       ELSE /\ UNCHANGED <<logVars, commitIndex>>
            /\ isCalls' = ISDone(c, [c EXCEPT !.st = "reply"])
  /\ UNCHANGED <<electionVars, termVars, applied, delivered, leaderVars, diskVars,
                 startVars, notify, rvCalls, aeCalls, restarts>>

\* The rest of it: the message to the service, and the Persister's snapshot
\* replaced beside whatever raftstate it held.
ISDeliver(c) ==
  LET i == c.dst IN
  /\ c.st = "deliver" /\ Up(i) /\ ~InstallPanics(c)
  /\ applied' = [applied EXCEPT ![i] = [base |-> c.data.index, msgs |-> << >>]]
  /\ SaveStateAndSnapshot(i, persisted[i], c.data)
  /\ isCalls' = ISDone(c, [c EXCEPT !.st = "reply"])
  /\ UNCHANGED <<electionVars, termVars, logVars, commitIndex, delivered, leaderVars,
                 startVars, notify, rvCalls, aeCalls, restarts>>

\* Call returned false.  After the last attempt the empty reply counts as success.
\* A handler that nobody waits for any more runs on.
ISFail(c) ==
  /\ c.st = "net" \/ (c.live /\ c.tries < ISTries)
  /\ isCalls' = ISDone(c, [c EXCEPT !.st = IF c.tries + 1 < ISTries THEN "net" ELSE "reply",
                                    !.tries = @ + 1, !.replyTerm = 0, !.err = 0, !.value = 0])
       \cup (IF ISServing(c) THEN {[c EXCEPT !.live = FALSE, !.tries = ISTries]} ELSE {})
  /\ UNCHANGED <<peerVars, notify, rvCalls, aeCalls>>

\* The follower's position after sendSnapShot, err_code 1 aside.
SnapshotPosition(c) == IF c.err = 2 THEN c.value ELSE c.index

ISReturnPanics(c) ==
  /\ c.st = "reply" /\ c.live /\ ~c.inLoop
  /\ BacksPanics(c.src, IF c.err = 1 THEN matchIndex[c.src][c.dst]
                                     ELSE SnapshotPosition(c))

\* sendSnapShot returns, and its caller goes on.  err_code 1 takes over the term
\* and sets leaderNum to reply.Value, which is 0.
ISReturn(c) ==
  LET i == c.src
      j == c.dst
      at == IF c.err = 1 THEN matchIndex[i][j] ELSE SnapshotPosition(c)
      leads == IF c.err = 1 THEN Node0 ELSE leaderNum[i]
      go(d) == IF leads = i THEN aeCalls' = aeCalls \cup {d} /\ UNCHANGED notify
               ELSE UNCHANGED aeCalls /\ Notify(i, 2)
  IN
  /\ c.st = "reply" /\ c.live
  /\ ~ISReturnPanics(c)
  /\ isCalls' = isCalls \ {c}
  /\ leaderNum' = [leaderNum EXCEPT ![i] = leads]
  /\ currentTerm' = [currentTerm EXCEPT ![i] = IF c.err = 1 THEN c.replyTerm ELSE @]
  /\ matchIndex' = [matchIndex EXCEPT ![i][j] = at]
  /\ nextIndex' = [nextIndex EXCEPT ![i][j] = IF c.err = 1 THEN @ ELSE at + 1]
  /\ IF c.inLoop
       THEN /\ role' = [role EXCEPT ![i] = "leader"]
            /\ go([c.sender EXCEPT !.args.prevLogTerm = At(i, TrueIndex(i, c.sender.prev)).term])
       ELSE /\ UNCHANGED role
            /\ IF GivesUp(i, at) THEN UNCHANGED <<aeCalls, notify>>
               ELSE go(OneEntry(c.sender, at))
  /\ UNCHANGED <<votedFor, granted, mainSave, logVars, commitVars, termList, diskVars,
                 startVars, rvCalls, restarts>>
=============================================================================
