-------------------------- MODULE RaftReplication --------------------------
EXTENDS RaftBase

(* Start.                                                                  *)

StartCheck(i, v) ==
  /\ Up(i) /\ leaderNum[i] = i
  /\ proposed' = proposed \cup {v}
  /\ starts' = starts \cup {[node |-> i, cmd |-> v, term |-> currentTerm[i],
                             save |-> NoSave]}
  /\ UNCHANGED <<electionVars, termVars, logVars, commitVars, leaderVars, diskVars,
                 notify, rvCalls, aeCalls, isCalls, restarts>>

\* The entry carries the term read before the channel send, and nothing checks
\* that the peer still leads.  The peer counts itself before it saves the entry.
StartAppend(s) ==
  LET i == s.node
      newLog == Append(log[i], [term |-> s.term, cmd |-> s.cmd])
  IN
  /\ s.save.st = "none" /\ matchIndex[i] # NilSlice
  /\ starts' = (starts \ {s}) \cup
       (IF i \in Delayed THEN {[s EXCEPT !.save = ToSave]} ELSE {})
  /\ log' = [log EXCEPT ![i] = newLog]
  /\ PersistBegins(i, currentTerm[i], newLog)
  /\ matchIndex' = [matchIndex EXCEPT ![i][i] = NameIndex(i, Len(log[i]))]
  /\ UNCHANGED <<electionVars, termVars, lastIndexInSnapshot, lastTermInSnapshot,
                 commitVars, nextIndex, termList, snapshot, proposed, notify,
                 rvCalls, aeCalls, isCalls, restarts>>

StartEncode(s) ==
  /\ s.save.st = "encode"
  /\ starts' = (starts \ {s}) \cup {[s EXCEPT !.save = Encoded(s.node)]}
  /\ UNCHANGED <<electionVars, termVars, logVars, commitVars, leaderVars, diskVars,
                 proposed, notify, rvCalls, aeCalls, isCalls, restarts>>

\* Start returns.
StartSave(s) ==
  /\ s.save.st = "write"
  /\ Persist(s.node, s.save)
  /\ starts' = starts \ {s}
  /\ UNCHANGED <<electionVars, termVars, logVars, commitVars, leaderVars, snapshot,
                 proposed, notify, rvCalls, aeCalls, isCalls, restarts>>

-----------------------------------------------------------------------------
(* AppendEntry, the handler.                                               *)

\* The term reported for a conflicting entry: its own or, if that is higher
\* than the leader's, the first lower one found walking back to index 1.
ConflictTerm(i, a) ==
  LET k == TrueIndex(i, a.prevLogIndex)
      lower == {n \in 1..k : At(i, n).term < a.prevLogTerm}
  IN IF At(i, k).term > a.prevLogTerm /\ lower # {}
       THEN At(i, Max(lower)).term
       ELSE At(i, k).term

\* Slip: LeaderCommit is taken as it is, beyond what the request has checked.
AftUnchecked(a) == a.leaderCommit

\* aftCommitIndex
AftCommit(a) ==
  IF a.leaderCommit > a.prevLogIndex THEN a.prevLogIndex ELSE a.leaderCommit

\* Slip: the terms are not compared.
PrevIgnored(i, a) == TRUE

\* The entry before the new ones is the leader's.
PrevMatches(i, a) == At(i, TrueIndex(i, a.prevLogIndex)).term = a.prevLogTerm

\* The call after the consistency check, for a request of the current term;
\* term is reply.Term, read on entry.
Checked(i, c, term) ==
  LET a == c.args
      failed == [NoReply EXCEPT !.term = term]
  IN
  CASE a.prevLogIndex > LastLogIndex(i) ->
         [c EXCEPT !.st = "reply",
                   !.reply = [failed EXCEPT !.lastLogIndex = LastLogIndex(i),
                                            !.termOfPrev = LastLogTerm(i)]]
    [] a.prevLogIndex <= LastLogIndex(i) /\ ~PrevMatches(i, a) ->
         [c EXCEPT !.st = "reply",
                   !.reply = [failed EXCEPT !.termOfPrev = ConflictTerm(i, a)]]
    [] a.prevLogIndex <= LastLogIndex(i) /\ PrevMatches(i, a)
         /\ a.prevLogIndex < commitIndex[i] ->
         [c EXCEPT !.st = "reply",
                   !.reply = [failed EXCEPT !.success = TRUE,
                                            !.commitIndex = commitIndex[i]]]
    [] OTHER ->
         [c EXCEPT !.st = IF a.leaderCommit > commitIndex[i] THEN "range" ELSE "apply",
                   !.reply = failed]

\* A handler's step from c to d; once it has returned, a caller that crashed or
\* gave up has no use for the reply.
AEDone(c, d) ==
  (aeCalls \ {c}) \cup (IF d.st = "reply" /\ ~AEServing(d) /\ ~d.live THEN {} ELSE {d})

AECheck(c) ==
  LET i == c.dst IN
  /\ c.st = "net" /\ Up(i)
  /\ \/ /\ c.args.term < currentTerm[i]
        /\ aeCalls' = AEDone(c, [c EXCEPT !.st = "reply",
                                         !.reply = [NoReply EXCEPT !.term = currentTerm[i]]])
        /\ UNCHANGED notify
     \/ /\ c.args.term > currentTerm[i]
        /\ aeCalls' = AEDone(c, [c EXCEPT !.st = "term",
                                         !.reply = [NoReply EXCEPT !.term = currentTerm[i]]])
        /\ UNCHANGED notify
     \/ /\ c.args.term = currentTerm[i]
        /\ aeCalls' = AEDone(c, Checked(i, c, currentTerm[i]))
        /\ Notify(i, 3)
  /\ UNCHANGED <<peerVars, rvCalls, isCalls>>

\* The request's term replaces currentTerm under rf.mu; a peer that follows
\* keeps its leaderNum.
AETerm(c) ==
  LET i == c.dst IN
  /\ c.st = "term" /\ Up(i)
  /\ currentTerm' = [currentTerm EXCEPT ![i] = c.args.term]
  /\ leaderNum' = [leaderNum EXCEPT ![i] = IF @ = i THEN c.src ELSE @]
  /\ aeCalls' = AEDone(c, [c EXCEPT !.st = "check", !.save = SaveDue(i)])
  /\ PersistBegins(i, c.args.term, log[i])
  /\ UNCHANGED <<electionVars, logVars, commitVars, leaderVars, snapshot, startVars,
                 notify, rvCalls, isCalls, restarts>>

\* The persist() of the handler, wherever it stands.
AEEncode(c) ==
  /\ Up(c.dst) /\ c.save.st = "encode"
  /\ aeCalls' = AEDone(c, [c EXCEPT !.save = Encoded(c.dst)])
  /\ UNCHANGED <<peerVars, notify, rvCalls, isCalls>>

AESave(c) ==
  /\ Up(c.dst) /\ c.save.st = "write"
  /\ Persist(c.dst, c.save)
  /\ aeCalls' = AEDone(c, [c EXCEPT !.save = NoSave])
  /\ UNCHANGED <<electionVars, termVars, logVars, commitVars, leaderVars, snapshot,
                 startVars, notify, rvCalls, isCalls, restarts>>

\* The handler of a newer term goes on as one of the current term does.
AEPass(c) ==
  LET i == c.dst IN
  /\ c.st = "check" /\ c.save.st = "none" /\ Up(i)
  /\ Notify(i, 3)
  /\ aeCalls' = AEDone(c, Checked(i, c, c.reply.term))
  /\ UNCHANGED <<peerVars, rvCalls, isCalls>>

\* There was something to commit when the handler looked: it reads commitIndex
\* again, still without rf.mu.
AERange(c) ==
  /\ c.st = "range" /\ Up(c.dst)
  /\ aeCalls' = AEDone(c, [c EXCEPT !.st = "apply", !.pre = commitIndex[c.dst],
                                    !.aft = AftCommit(c.args)])
  /\ UNCHANGED <<peerVars, notify, rvCalls, isCalls>>

\* Slip: entries are delivered although another handler delivered them.
CommitAgain(i, from) == from

\* Entries up to aft are delivered, those that some other handler delivered in
\* the meantime (index <= commitIndex) are skipped.
CommitFrom(i, from) == IF from > commitIndex[i] THEN from ELSE commitIndex[i]

\* The bounds of rf.log[preCommitIndex:aftCommitIndex]
PreBound(c) == TrueIndex(c.dst, c.pre)
AftBound(c) ==
  IF TrueIndex(c.dst, c.aft) >= Len(log[c.dst]) THEN PreBound(c) ELSE TrueIndex(c.dst, c.aft)

\* They are the wrong way round once another handler has committed beyond aft
\* before AERange.  An empty range beyond the log panics or not, as the capacity
\* of the slice will have it.
RangeInverted(c) == c.st = "apply" /\ PreBound(c) > AftBound(c)
RangePanics(c) ==
  RangeInverted(c) \/ (c.st = "apply" /\ PreBound(c) > Len(log[c.dst]))

AEApply(c) ==
  LET i == c.dst
      from == CommitFrom(i, NameIndex(i, PreBound(c)))
      to == NameIndex(i, AftBound(c))
      next == IF c.args.entries = << >>
                THEN [c EXCEPT !.st = "reply", !.reply.success = TRUE, !.pre = 0, !.aft = 0,
                               !.save = SaveDue(i)]
                ELSE [c EXCEPT !.st = "append", !.pre = 0, !.aft = 0, !.save = SaveDue(i)]
  IN
  /\ c.st = "apply" /\ Up(i) /\ ~RangeInverted(c)
  /\ IF from < to THEN Deliver(i, from, to) ELSE UNCHANGED commitVars
  /\ PersistBegins(i, currentTerm[i], log[i])
  /\ aeCalls' = AEDone(c, next)
  /\ UNCHANGED <<electionVars, termVars, logVars, leaderVars, snapshot, startVars,
                 notify, rvCalls, isCalls, restarts>>

\* The entries are written from true index start, all of them or, when start
\* is committed by now, none.
Writes(i, start) == NameIndex(i, start) > commitIndex[i]

Overwrite(entries, start, new) ==
  [k \in 1..(IF start + Len(new) > Len(entries) THEN start + Len(new) ELSE Len(entries)) |->
     IF k > start /\ k <= start + Len(new) THEN new[k - start] ELSE entries[k]]

\* Slip: whatever follows is dropped, as if the request were the latest one.
DropAlways(entries, end) == SubSeq(entries, 1, end)

\* What follows the written entries goes only if there are two entries or more
\* of it and its last term is lower.
DropStale(entries, end) ==
  IF end < Len(entries) - 1 /\ entries[end].term > entries[Len(entries)].term
    THEN SubSeq(entries, 1, end)
    ELSE entries

Appended(i, a) ==
  LET start == TrueIndex(i, a.prevLogIndex + 1) IN
  IF start < 1 \/ start > Len(log[i]) THEN log[i]
  ELSE IF Writes(i, start)
         THEN DropStale(Overwrite(log[i], start, a.entries), start + Len(a.entries))
         ELSE DropStale(log[i], start)

\* panic("comm is nil") on a sentinel among the entries
WritesNil(i, a) ==
  LET start == TrueIndex(i, a.prevLogIndex + 1) IN
  /\ start >= 1 /\ start <= Len(log[i]) /\ Writes(i, start)
  /\ \E k \in 1..Len(a.entries) : a.entries[k].cmd = Nil

AEAppend(c) ==
  LET i == c.dst IN
  /\ c.st = "append" /\ c.save.st = "none" /\ Up(i)
  /\ ~WritesNil(i, c.args)
  /\ log' = [log EXCEPT ![i] = Appended(i, c.args)]
  /\ PersistBegins(i, currentTerm[i], Appended(i, c.args))
  /\ aeCalls' = AEDone(c, [c EXCEPT !.st = "reply", !.reply.success = TRUE,
                                    !.save = SaveDue(i)])
  /\ UNCHANGED <<electionVars, termVars, lastIndexInSnapshot, lastTermInSnapshot,
                 commitVars, leaderVars, snapshot, startVars, notify, rvCalls,
                 isCalls, restarts>>

-----------------------------------------------------------------------------
(* LeaderProcess and the goroutines that send AppendEntry.                 *)

LeaderTermTimeout(i) ==
  /\ role[i] = "leader" /\ TimerFires(i)
  /\ role' = [role EXCEPT ![i] = "main"]
  /\ currentTerm' = [currentTerm EXCEPT ![i] = @ + 1]
  /\ mainSave' = [mainSave EXCEPT ![i] = SaveDue(i)]
  /\ PersistBegins(i, currentTerm[i] + 1, log[i])
  /\ TokensLeft(i, 3)
  /\ UNCHANGED <<votedFor, granted, leaderNum, logVars, commitVars, leaderVars,
                 snapshot, startVars, rvCalls, aeCalls, isCalls, restarts>>

\* A token received once leaderNum has changed; at most two are left behind.
LeaderNotified(i) ==
  /\ role[i] = "leader" /\ notify[i] > 0 /\ leaderNum[i] # i
  /\ role' = [role EXCEPT ![i] = "follower"]
  /\ TokensLeft(i, IF notify[i] > 3 THEN 2 ELSE notify[i] - 1)
  /\ UNCHANGED <<votedFor, granted, mainSave, termVars, logVars, commitVars, leaderVars,
                 diskVars, startVars, rvCalls, aeCalls, isCalls, restarts>>

\* The top of the goroutine's loop: it gives up, with a token for LeaderProcess,
\* once its peer no longer takes itself for the leader.
Launch(others, c) ==
  IF leaderNum[c.src] = c.src
    THEN aeCalls' = others \cup {c} /\ UNCHANGED notify
    ELSE aeCalls' = others /\ Notify(c.src, 2)

NewSender(i, j, entries) ==
  LET prev == nextIndex[i][j] - 1 IN
  [src |-> i, dst |-> j,
   args |-> [term |-> currentTerm[i], prevLogIndex |-> prev,
             prevLogTerm |-> At(i, TrueIndex(i, prev)).term,
             entries |-> entries, leaderCommit |-> commitIndex[i]],
   appEnTerm |-> currentTerm[i], prev |-> prev, termList |-> termList[i],
   st |-> "net", save |-> NoSave, pre |-> 0, aft |-> 0, upTo |-> 0, reply |-> NoReply,
   tries |-> 0, live |-> TRUE]

\* log[k:] from true index k
LogFrom(i, k) == SubSeq(log[i], k + 1, Len(log[i]))

MaySend(i, j) ==
  /\ role[i] = "leader" /\ i # j /\ <<i, j>> \in Links
  /\ Cardinality({c \in aeCalls : c.src = i /\ c.dst = j}) < MaxSenders

\* One peer's share of a distribution, by the heartbeat timer or a new command.
LeaderSend(i, j) ==
  LET next == nextIndex[i][j] IN
  /\ MaySend(i, j)
  /\ next > lastIndexInSnapshot[i]
  /\ TrueIndex(i, next - 1) < Len(log[i])
  /\ Launch(aeCalls, NewSender(i, j, IF next <= LastLogIndex(i)
                                       THEN LogFrom(i, TrueIndex(i, next)) ELSE << >>))
  /\ UNCHANGED <<peerVars, rvCalls, isCalls>>

NewISCall(c, inLoop) ==
  LET i == c.src IN
  [src |-> i, dst |-> c.dst, term |-> currentTerm[i],
   index |-> lastIndexInSnapshot[i], lastTerm |-> lastTermInSnapshot[i],
   data |-> snapshot[i], st |-> "net", replyTerm |-> 0, err |-> 0, value |-> 0,
   tries |-> 0, live |-> TRUE, inLoop |-> inLoop, sender |-> c]

\* The peer needs entries the snapshot replaced: LeaderProcess itself waits in
\* sendSnapShot and then starts the goroutine without entries.
LeaderSendSnapshot(i, j) ==
  /\ MaySend(i, j)
  /\ nextIndex[i][j] <= lastIndexInSnapshot[i]
  /\ isCalls' = isCalls \cup {NewISCall(NewSender(i, j, << >>), TRUE)}
  /\ role' = [role EXCEPT ![i] = "snapshotting"]
  /\ UNCHANGED <<votedFor, granted, mainSave, termVars, logVars, commitVars, leaderVars,
                 diskVars, startVars, notify, rvCalls, aeCalls, restarts>>

\* Call returned false: the request or the reply was lost, or the network stopped
\* waiting for the handler, which runs on unheard beside the next attempt.  (After
\* the last attempt the goroutine ends, which changes nothing else.)
AEFail(c) ==
  /\ c.st # "commit" /\ c.tries + 1 < AETries
  /\ Launch((aeCalls \ {c}) \cup
              (IF AEServing(c) THEN {[c EXCEPT !.live = FALSE, !.tries = AETries]} ELSE {}),
            [c EXCEPT !.st = "net", !.save = NoSave, !.pre = 0, !.aft = 0,
                      !.tries = @ + 1, !.reply = NoReply])
  /\ UNCHANGED <<peerVars, rvCalls, isCalls>>

Replied(c, success) ==
  c.st = "reply" /\ ~AEServing(c) /\ c.live /\ c.reply.success = success

AEHeartbeat(c) ==
  /\ Replied(c, TRUE) /\ c.args.entries = << >>
  /\ aeCalls' = aeCalls \ {c}
  /\ UNCHANGED <<peerVars, notify, rvCalls, isCalls>>

\* nextIndex never decreases here, and matchIndex follows it, not the request.
NextAfter(c) ==
  LET sent == c.args.prevLogIndex + Len(c.args.entries) + 1
      next == nextIndex[c.src][c.dst]
  IN IF c.reply.commitIndex # 0 THEN c.reply.commitIndex + 1
     ELSE IF next < sent THEN sent ELSE next

MatchAfter(c) == NextAfter(c) - 1

AlreadyProcessed(c) ==
  c.reply.commitIndex = 0 /\ matchIndex[c.src][c.dst] = MatchAfter(c)

\* The follower is still behind what the goroutine set out to send: it goes on,
\* with one entry after the follower's commitIndex, or with all that follow.
Behind(c) == ~AlreadyProcessed(c) /\ MatchAfter(c) < c.prev

FollowUp(c) ==
  LET i == c.src
      k == TrueIndex(i, MatchAfter(c))
  IN [c EXCEPT !.st = "net", !.reply = NoReply, !.appEnTerm = currentTerm[i],
               !.args = [term |-> currentTerm[i], prevLogIndex |-> MatchAfter(c),
                         prevLogTerm |-> At(i, k).term,
                         entries |-> IF c.reply.commitIndex = 0 THEN LogFrom(i, k + 1)
                                     ELSE IF k > 0 THEN <<At(i, k + 1)>> ELSE << >>,
                         leaderCommit |-> commitIndex[i]]]

FollowUpPanics(c) ==
  /\ Replied(c, TRUE) /\ c.args.entries # << >>
  /\ Behind(c) /\ c.reply.commitIndex = 0
  /\ TrueIndex(c.src, MatchAfter(c)) >= Len(log[c.src])

AESuccess(c) ==
  LET i == c.src
      match == [matchIndex[i] EXCEPT ![c.dst] = MatchAfter(c)]
      upTo == MedianMatch(match)
  IN
  /\ Replied(c, TRUE) /\ c.args.entries # << >>
  /\ ~FollowUpPanics(c)
  /\ nextIndex' = [nextIndex EXCEPT ![i][c.dst] = NextAfter(c)]
  /\ matchIndex' = [matchIndex EXCEPT ![i] = match]
  /\ IF Behind(c)
       THEN IF c.reply.commitIndex # 0 /\ MatchAfter(c) >= LastLogIndex(i)
              THEN aeCalls' = aeCalls \ {c} /\ UNCHANGED notify
              ELSE Launch(aeCalls \ {c}, FollowUp(c))
       ELSE /\ UNCHANGED notify
            /\ aeCalls' = (aeCalls \ {c}) \cup
                 (IF AlreadyProcessed(c) \/ MatchAfter(c) <= commitIndex[i]
                       \/ upTo <= commitIndex[i]
                    THEN {} ELSE {[c EXCEPT !.st = "commit", !.upTo = upTo]})
  /\ UNCHANGED <<electionVars, termVars, logVars, commitVars, termList, diskVars,
                 startVars, rvCalls, isCalls, restarts>>

\* The commit loop, of a peer that still takes itself for the leader.  It stops
\* at the end of the log, and no entry's term is looked at.
CommitEnd(c) ==
  IF c.upTo < LastLogIndex(c.src) THEN c.upTo ELSE LastLogIndex(c.src)

AECommit(c) ==
  LET i == c.src
      from == commitIndex[i]
      to == CommitEnd(c)
      commits == leaderNum[i] = i /\ from >= lastIndexInSnapshot[i] /\ from < to
  IN
  /\ c.st = "commit"
  /\ IF commits THEN Deliver(i, from, to) ELSE UNCHANGED commitVars
  /\ nextIndex' = [nextIndex EXCEPT ![i][i] =
       IF leaderNum[i] = i /\ commitIndex'[i] > @ THEN commitIndex'[i] ELSE @]
  /\ aeCalls' = aeCalls \ {c}
  /\ UNCHANGED <<electionVars, termVars, logVars, matchIndex, termList, diskVars,
                 startVars, notify, rvCalls, isCalls, restarts>>

\* A newer term in the reply: the peer stops taking itself for the leader.
AEDeposed(c) ==
  LET i == c.src IN
  /\ Replied(c, FALSE) /\ c.reply.term > c.appEnTerm
  /\ leaderNum' = [leaderNum EXCEPT ![i] = None]
  /\ Notify(i, 2)
  /\ aeCalls' = aeCalls \ {c}
  /\ UNCHANGED <<electionVars, currentTerm, logVars, commitVars, leaderVars, diskVars,
                 startVars, rvCalls, isCalls, restarts>>

\* makeTermIndex: the list is rebuilt once a snapshot was taken since LeaderProcess
\* began.  The search ends at the last true index whose term is not above lastTerm.
TermsKnown(c) ==
  IF c.termList.snap = lastIndexInSnapshot[c.src] THEN c.termList.terms
  ELSE [k \in 1..Len(log[c.src]) |-> log[c.src][k].term]

\* Slip: the position that was rejected is tried again.
BackNowhere(c) == c.args.prevLogIndex

\* Where a rejected goroutine goes back to.
BackTo(c) ==
  LET r == c.reply
      before == c.args.prevLogIndex - 1
      short == IF r.lastLogIndex # 0 /\ before > r.lastLogIndex THEN r.lastLogIndex ELSE before
      terms == TermsKnown(c)
      known == {k \in 0..(Len(terms) - 1) : terms[k + 1] <= r.termOfPrev}
  IN IF r.termOfPrev # 0 /\ known # {} /\ Max(known) < short THEN Max(known) ELSE short

\* Slip: the entry at prevlog instead of the one after it.
OneEntryEarly(c, prevlog) ==
  LET i == c.src IN
  [c EXCEPT !.st = "net", !.reply = NoReply,
            !.args = [term |-> currentTerm'[i], prevLogIndex |-> prevlog,
                      prevLogTerm |-> At(i, TrueIndex(i, prevlog)).term,
                      entries |-> <<At(i, TrueIndex(i, prevlog))>>,
                      leaderCommit |-> 0]]

\* The next attempt carries the one entry after prevlog, and no LeaderCommit.
OneEntry(c, prevlog) ==
  LET i == c.src IN
  [c EXCEPT !.st = "net", !.reply = NoReply,
            !.args = [term |-> currentTerm'[i], prevLogIndex |-> prevlog,
                      prevLogTerm |-> At(i, TrueIndex(i, prevlog)).term,
                      entries |-> <<At(i, TrueIndex(i, prevlog + 1))>>,
                      leaderCommit |-> 0]]

\* prevlog, a name index, is compared with len(rf.log), a true one.
GivesUp(i, prevlog) == prevlog >= Len(log[i])
BacksPanics(i, prevlog) ==
  ~GivesUp(i, prevlog) /\ TrueIndex(i, prevlog + 1) >= Len(log[i])

Rejected(c) == Replied(c, FALSE) /\ c.reply.term <= c.appEnTerm

RejectedPanics(c) ==
  /\ Rejected(c)
  /\ c.args.prevLogIndex > matchIndex[c.src][c.dst]
  /\ \/ BackTo(c) < 0
     \/ BackTo(c) >= lastIndexInSnapshot[c.src] /\ BacksPanics(c.src, BackTo(c))

AERejected(c) ==
  LET i == c.src
      prevlog == BackTo(c)
      stale == c.args.prevLogIndex <= matchIndex[i][c.dst]
  IN
  /\ Rejected(c) /\ ~RejectedPanics(c)
  /\ UNCHANGED currentTerm
  /\ \/ /\ stale \/ (prevlog >= lastIndexInSnapshot[i] /\ GivesUp(i, prevlog))
        /\ aeCalls' = aeCalls \ {c}
        /\ UNCHANGED <<notify, isCalls>>
     \/ /\ ~stale /\ prevlog < lastIndexInSnapshot[i]
        /\ aeCalls' = aeCalls \ {c}
        /\ isCalls' = isCalls \cup {NewISCall(c, FALSE)}
        /\ UNCHANGED notify
     \/ /\ ~stale /\ prevlog >= lastIndexInSnapshot[i]
        /\ ~GivesUp(i, prevlog)
        /\ Launch(aeCalls \ {c}, OneEntry(c, prevlog))
        /\ UNCHANGED isCalls
  /\ nextIndex' = IF stale THEN nextIndex
                  ELSE [nextIndex EXCEPT ![i][c.dst] = prevlog + 1]
  /\ UNCHANGED <<electionVars, leaderNum, logVars, commitVars, matchIndex, termList,
                 diskVars, startVars, rvCalls, restarts>>
=============================================================================
