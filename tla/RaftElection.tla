---------------------------- MODULE RaftElection ----------------------------
EXTENDS RaftBase

(* mainProcess, CandidateProcess and Follower.                             *)

\* A call whose reply nobody reads and that will not be repeated is forgotten.
RVKept(calls) ==
  {c \in calls : ~(c.st = "reply" /\ ~c.live /\ c.tries + 1 >= RVTries)}

\* The goroutines of a round that ends keep calling, but nobody reads RVchan
\* any more.
RoundOver(i, calls) ==
  rvCalls' = RVKept({IF c.src = i THEN [c EXCEPT !.live = FALSE] ELSE c : c \in calls})

NewRVCall(i, j) ==
  [src |-> i, dst |-> j, term |-> currentTerm[i], lastIndex |-> LastLogIndex(i),
   lastTerm |-> LastLogTerm(i), st |-> "net", save |-> NoSave, replyTerm |-> 0,
   voteGranted |-> FALSE, tries |-> 0, live |-> TRUE]

CandidateStart(i) ==
  /\ role[i] = "main" /\ mainSave[i].st = "none"
  /\ role' = [role EXCEPT ![i] = "candidate"]
  /\ granted' = [granted EXCEPT ![i] = 1]
  /\ votedFor' = [votedFor EXCEPT ![i] = i]
  /\ leaderNum' = [leaderNum EXCEPT ![i] = None]
  /\ rvCalls' = rvCalls \cup {NewRVCall(i, j) : j \in Server \ {i}}
  /\ UNCHANGED <<mainSave, currentTerm, logVars, commitVars, leaderVars, diskVars,
                 startVars, notify, aeCalls, isCalls, restarts>>

\* rf.currentTerm++ ; the round restarts in the next term
CandidateTimeout(i) ==
  /\ role[i] = "candidate" /\ TimerFires(i)
  /\ role' = [role EXCEPT ![i] = "main"]
  /\ currentTerm' = [currentTerm EXCEPT ![i] = @ + 1]
  /\ RoundOver(i, rvCalls)
  /\ mainSave' = [mainSave EXCEPT ![i] = SaveDue(i)]
  /\ PersistBegins(i, currentTerm[i] + 1, log[i])
  /\ UNCHANGED <<votedFor, granted, leaderNum, logVars, commitVars,
                 leaderVars, snapshot, startVars, notify, aeCalls, isCalls, restarts>>

CandidateNotified(i) ==
  /\ role[i] = "candidate" /\ notify[i] > 0
  /\ notify' = [notify EXCEPT ![i] = 0]
  /\ role' = [role EXCEPT ![i] = "dispatch"]
  /\ RoundOver(i, rvCalls)
  /\ UNCHANGED <<votedFor, granted, mainSave, termVars, logVars, commitVars,
                 leaderVars, diskVars, startVars, aeCalls, isCalls, restarts>>

\* The vote that makes a majority: leaderNum is set whatever currentTerm is by now.
CandidateWins(c) ==
  LET i == c.src IN
  /\ c.st = "reply" /\ c.live /\ role[i] = "candidate"
  /\ c.voteGranted /\ granted[i] + 1 >= Majority
  /\ granted' = [granted EXCEPT ![i] = @ + 1]
  /\ leaderNum' = [leaderNum EXCEPT ![i] = i]
  /\ role' = [role EXCEPT ![i] = "dispatch"]
  /\ RoundOver(i, rvCalls \ {c})
  /\ UNCHANGED <<votedFor, mainSave, currentTerm, logVars, commitVars, leaderVars,
                 diskVars, startVars, notify, aeCalls, isCalls, restarts>>

\* Any other reply of the round; one with a higher term ends it.
CandidateReply(c) ==
  LET i == c.src
      count == granted[i] + (IF c.voteGranted THEN 1 ELSE 0)
  IN
  /\ c.st = "reply" /\ c.live /\ role[i] = "candidate"
  /\ ~(c.voteGranted /\ count >= Majority)
  /\ granted' = [granted EXCEPT ![i] = count]
  /\ IF c.replyTerm > currentTerm[i]
       THEN /\ currentTerm' = [currentTerm EXCEPT ![i] = c.replyTerm]
            /\ role' = [role EXCEPT ![i] = "dispatch"]
            /\ RoundOver(i, rvCalls \ {c})
            /\ mainSave' = [mainSave EXCEPT ![i] = SaveDue(i)]
            /\ PersistBegins(i, c.replyTerm, log[i])
       ELSE /\ rvCalls' = rvCalls \ {c}
            /\ UNCHANGED <<role, currentTerm, mainSave, persisted>>
  /\ UNCHANGED <<votedFor, leaderNum, logVars, commitVars, leaderVars,
                 snapshot, startVars, notify, aeCalls, isCalls, restarts>>

\* The goroutine of a round that is over sends on a channel nobody reads.
LateVote(c) ==
  /\ c.st = "reply" /\ ~c.live
  /\ rvCalls' = rvCalls \ {c}
  /\ UNCHANGED <<peerVars, notify, aeCalls, isCalls>>

FollowerTimeout(i) ==
  /\ role[i] = "follower" /\ TimerFires(i)
  /\ role' = [role EXCEPT ![i] = "main"]
  /\ currentTerm' = [currentTerm EXCEPT ![i] = @ + 1]
  /\ leaderNum' = [leaderNum EXCEPT ![i] = None]
  /\ mainSave' = [mainSave EXCEPT ![i] = SaveDue(i)]
  /\ PersistBegins(i, currentTerm[i] + 1, log[i])
  /\ TokensLeft(i, 3)
  /\ UNCHANGED <<votedFor, granted, logVars, commitVars, leaderVars,
                 snapshot, startVars, rvCalls, aeCalls, isCalls, restarts>>

\* LeaderProcess up to its loop.
LeaderBegins(i) ==
  /\ role' = [role EXCEPT ![i] = "leader"]
  /\ matchIndex' = [matchIndex EXCEPT ![i] = [j \in Server |-> 0]]
  /\ nextIndex' = [nextIndex EXCEPT ![i] = [j \in Server |-> LastLogIndex(i) + 1]]
  /\ termList' = [termList EXCEPT ![i] =
       [snap |-> lastIndexInSnapshot[i],
        terms |-> [k \in 1..Len(log[i]) |-> log[i][k].term]]]

\* CandidateProcess returned false: mainProcess looks at leaderNum.
MainDispatch(i) ==
  /\ role[i] = "dispatch" /\ mainSave[i].st = "none"
  /\ IF leaderNum[i] = i
       THEN LeaderBegins(i)
       ELSE /\ role' = [role EXCEPT ![i] = "follower"]
            /\ UNCHANGED leaderVars
  /\ UNCHANGED <<votedFor, granted, mainSave, termVars, logVars, commitVars, diskVars,
                 startVars, notify, rvCalls, aeCalls, isCalls, restarts>>

\* The persist() of mainProcess, which waits for it.
MainEncode(i) ==
  /\ Up(i) /\ mainSave[i].st = "encode"
  /\ mainSave' = [mainSave EXCEPT ![i] = Encoded(i)]
  /\ UNCHANGED <<role, votedFor, granted, termVars, logVars, commitVars, leaderVars,
                 diskVars, startVars, notify, rvCalls, aeCalls, isCalls, restarts>>

MainSave(i) ==
  /\ Up(i) /\ mainSave[i].st = "write"
  /\ Persist(i, mainSave[i])
  /\ mainSave' = [mainSave EXCEPT ![i] = NoSave]
  /\ UNCHANGED <<role, votedFor, granted, termVars, logVars, commitVars, leaderVars,
                 snapshot, startVars, notify, rvCalls, aeCalls, isCalls, restarts>>

-----------------------------------------------------------------------------
(* RequestVote.                                                            *)

\* Test 1 and test 2, and the early grant in the candidate's own term; all
\* without rf.mu.
RefusedAtOnce(i, c) ==
  \/ currentTerm[i] > c.term
  \/ currentTerm[i] = c.term /\ votedFor[i] # i
  \/ currentTerm[i] = c.term /\ c.lastTerm <= LastLogTerm(i)

RVCheck(c) ==
  LET i == c.dst
      grant == ~RefusedAtOnce(i, c) /\ currentTerm[i] = c.term
      seen == [c EXCEPT !.replyTerm = currentTerm[i], !.voteGranted = grant,
                        !.st = IF currentTerm[i] < c.term THEN "lock" ELSE "reply"]
  IN
  /\ c.st = "net" /\ Up(i)
  /\ rvCalls' = RVKept((rvCalls \ {c}) \cup {seen})
  /\ IF grant
       THEN Notify(i, 2)
       ELSE UNCHANGED notify
  /\ UNCHANGED <<electionVars, termVars, logVars, commitVars, leaderVars,
                 diskVars, startVars, aeCalls, isCalls, restarts>>

\* Tests 3 and 4: the candidate's log is at least as up to date.
UpToDate(i, c) ==
  \/ c.lastTerm > LastLogTerm(i)
  \/ c.lastTerm = LastLogTerm(i) /\ c.lastIndex >= LastLogIndex(i)

\* Slip: the term is not looked at again under rf.mu.
NeverInTerm(i, c) == FALSE

\* Under rf.mu the handler only looks whether another one has already moved
\* the peer to exactly this term; otherwise it stores the term, also a lower one.
AlreadyInTerm(i, c) == currentTerm[i] = c.term

RVLock(c) ==
  LET i == c.dst
      next == IF AlreadyInTerm(i, c) THEN [c EXCEPT !.st = "reply"]
                                     ELSE [c EXCEPT !.st = "grant", !.save = SaveDue(i)]
  IN
  /\ c.st = "lock" /\ Up(i)
  /\ rvCalls' = RVKept((rvCalls \ {c}) \cup {next})
  /\ IF AlreadyInTerm(i, c)
       THEN UNCHANGED <<currentTerm, persisted>>
       ELSE /\ currentTerm' = [currentTerm EXCEPT ![i] = c.term]
            /\ PersistBegins(i, c.term, log[i])
  /\ UNCHANGED <<electionVars, leaderNum, logVars, commitVars, leaderVars, snapshot,
                 startVars, notify, aeCalls, isCalls, restarts>>

RVEncode(c) ==
  /\ Up(c.dst) /\ c.save.st = "encode"
  /\ rvCalls' = (rvCalls \ {c}) \cup {[c EXCEPT !.save = Encoded(c.dst)]}
  /\ UNCHANGED <<peerVars, notify, aeCalls, isCalls>>

RVSave(c) ==
  /\ Up(c.dst) /\ c.save.st = "write"
  /\ Persist(c.dst, c.save)
  /\ rvCalls' = (rvCalls \ {c}) \cup {[c EXCEPT !.save = NoSave]}
  /\ UNCHANGED <<electionVars, termVars, logVars, commitVars, leaderVars, snapshot,
                 startVars, notify, aeCalls, isCalls, restarts>>

\* The rest of the handler is without rf.mu again: whatever the term is by now,
\* the peer votes, and follows the candidate, if the logs allow it.
RVGrant(c) ==
  LET i == c.dst
      grant == UpToDate(i, c)
  IN
  /\ c.st = "grant" /\ c.save.st = "none" /\ Up(i)
  /\ rvCalls' = RVKept((rvCalls \ {c}) \cup
                        {[c EXCEPT !.st = "reply", !.voteGranted = grant]})
  /\ IF grant
       THEN /\ leaderNum' = [leaderNum EXCEPT ![i] = c.src]
            /\ Notify(i, 2)
       ELSE UNCHANGED <<leaderNum, notify>>
  /\ UNCHANGED <<electionVars, currentTerm, logVars, commitVars, leaderVars, diskVars,
                 startVars, aeCalls, isCalls, restarts>>

\* Call returns false and the goroutine tries again: the request or the reply is
\* lost, or the network stops waiting for a handler, which runs on unheard.  (The
\* failure of the last attempt changes nothing: it is a request that never
\* arrives or a reply that is never read.)
RVFail(c) ==
  /\ c.tries + 1 < RVTries
  /\ rvCalls' = (rvCalls \ {c}) \cup
       {[c EXCEPT !.st = "net", !.save = NoSave, !.tries = @ + 1, !.replyTerm = 0,
                  !.voteGranted = FALSE]} \cup
       (IF RVServing(c) THEN {[c EXCEPT !.live = FALSE, !.tries = RVTries]} ELSE {})
  /\ UNCHANGED <<peerVars, notify, aeCalls, isCalls>>
=============================================================================
