--------------------------- MODULE Linearizability ---------------------------
(***************************************************************************)
(* The checker of src/src/linearizability that judges the histories of the *)
(* key/value tests: one goroutine per key searches for an order of the     *)
(* operations on that key (checkSingle), and CheckOperationsTimeout        *)
(* collects the verdicts.                                                  *)
(*                                                                         *)
(* A string is the sequence of the values appended to it.  The buckets of  *)
(* the cache and the words of a bitset are left out: elements are compared *)
(* in full within a bucket.                                                *)
(***************************************************************************)
EXTENDS Integers, Sequences, FiniteSets, SequencesExt

CONSTANTS Op,       \* bound: the operations a history may contain: key, kind,
                    \* value, and the output of a get
          MaxOps,   \* bound: the operations in a history
          Timeout   \* a timeout was given

ASSUME CheckerAssumption ==
  /\ MaxOps \in Nat \ {0} /\ Timeout \in BOOLEAN
  /\ \A op \in Op : op.kind \in {"get", "put", "append"}

VARIABLES
  history,   \* the operations
  entries,   \* makeEntries: their calls and returns, sorted by time
  search,    \* the goroutine of each key
  kill,
  main       \* CheckOperationsTimeout: its verdict and count

vars == <<history, entries, search, kill, main>>

Head0 == 0     \* headEntry
NilNode == -1

-----------------------------------------------------------------------------
(* The histories, and the list a goroutine works on.                       *)

CallOf(id) == [kind |-> "call", id |-> id]
ReturnOf(id) == [kind |-> "return", id |-> id]

\* The place of an event in a sequence of events.
Position(es, e) == CHOOSE k \in DOMAIN es : es[k] = e

\* Calls in the order of the ids, each before its return, at distinct times.
Orders(n) ==
  {es \in SetToSeqs({CallOf(id) : id \in 1..n} \cup {ReturnOf(id) : id \in 1..n}) :
     /\ \A id \in 1..n : Position(es, CallOf(id)) < Position(es, ReturnOf(id))
     /\ \A id \in 1..(n - 1) : Position(es, CallOf(id)) < Position(es, CallOf(id + 1))}

KeysOf(h) == {h[id].key : id \in DOMAIN h}

\* Partition: the nodes of one key are positions of entries.
NodesOf(h, es, key) == {k \in DOMAIN es : h[es[k].id].key = key}

Least(S) == IF S = {} THEN NilNode ELSE CHOOSE k \in S : \A n \in S : k <= n
Greatest(S) == IF S = {} THEN Head0 ELSE CHOOSE k \in S : \A n \in S : n <= k

\* makeLinkedEntries, with headEntry before the first node.
LinkedEntries(h, es, key) ==
  LET nodes == NodesOf(h, es, key) IN
  [next |-> [k \in nodes \cup {Head0} |-> Least({n \in nodes : n > k})],
   prev |-> [k \in nodes |-> Greatest({n \in nodes : n < k})]]

NewSearch(h, es, key) ==
  LET list == LinkedEntries(h, es, key) IN
  [next |-> list.next, prev |-> list.prev, entry |-> list.next[Head0], calls |-> << >>,
   cache |-> {}, linearized |-> {}, state |-> << >>, st |-> "run", result |-> FALSE]

\* A history that is not empty: with no partition the loop would have nothing to
\* wait for.
Init ==
  /\ \E n \in 1..MaxOps : history \in [1..n -> Op] /\ entries \in Orders(n)
  /\ search = [key \in KeysOf(history) |-> NewSearch(history, entries, key)]
  /\ kill = FALSE
  /\ main = [st |-> "loop", ok |-> TRUE, count |-> 0, timedOut |-> FALSE]

-----------------------------------------------------------------------------
(* checkSingle.                                                            *)

\* KvModel.Step: whether the output is possible, and the new state.
Possible(state, op) == op.kind = "get" => op.out = state
Step(state, op) ==
  CASE op.kind = "get" -> state
    [] op.kind = "put" -> <<op.value>>
    [] op.kind = "append" -> Append(state, op.value)

IsCall(k) == entries[k].kind = "call"
Match(k) == CHOOSE n \in DOMAIN entries : entries[n] = ReturnOf(entries[k].id)

\* a.next = n and n.prev = a, as far as there is a node n
Join(p, a, n) ==
  [p EXCEPT !.next = [@ EXCEPT ![a] = n],
            !.prev = IF n = NilNode THEN @ ELSE [@ EXCEPT ![n] = a]]

\* Slip: the node after the return keeps its link back.
LiftHalf(p, k) ==
  LET q == Join(p, p.prev[k], p.next[k])
  IN [q EXCEPT !.next = [@ EXCEPT ![q.prev[Match(k)]] = q.next[Match(k)]]]

\* lift: the call, then the return, leave the list but keep their own links.
Lift(p, k) ==
  LET q == Join(p, p.prev[k], p.next[k]) IN Join(q, q.prev[Match(k)], q.next[Match(k)])

\* unlift: the return, then the call, come back where they were.
Unlift(p, k) ==
  LET back(q, n) == Join(Join(q, q.prev[n], n), n, q.next[n])
  IN back(back(p, Match(k)), k)

\* Slip: the operations alone are compared.
CacheContainsSet(p, set, state) == \E e \in p.cache : e.linearized = set

CacheContains(p, set, state) == [linearized |-> set, state |-> state] \in p.cache

Ended(p, result) == [p EXCEPT !.st = "send", !.result = result]
Skipped(p) == [p EXCEPT !.entry = p.next[p.entry]]

\* An operation that may come next is taken, unless the same choice was made before.
TryCall(p) ==
  LET id == entries[p.entry].id
      set == p.linearized \cup {id}
      state == Step(p.state, history[id])
      q == Lift(p, p.entry)
  IN IF ~Possible(p.state, history[id]) \/ CacheContains(p, set, state) THEN Skipped(p)
     ELSE [q EXCEPT !.cache = @ \cup {[linearized |-> set, state |-> state]},
                    !.calls = Append(@, [entry |-> p.entry, state |-> p.state]),
                    !.state = state, !.linearized = set,
                    !.entry = q.next[Head0]]

\* A return whose call has not been taken: the last choice is undone.
Backtrack(p) ==
  LET top == p.calls[Len(p.calls)]
      q == Unlift(p, top.entry)
  IN IF p.calls = << >> THEN Ended(p, FALSE)
     ELSE [q EXCEPT !.entry = q.next[top.entry], !.state = top.state,
                    !.linearized = @ \ {entries[top.entry].id},
                    !.calls = SubSeq(@, 1, Len(@) - 1)]

\* One iteration of the loop.
Iterate(key) ==
  LET p == search[key] IN
  /\ p.st = "run"
  /\ search' = [search EXCEPT ![key] =
       IF p.next[Head0] = NilNode THEN Ended(p, TRUE)
       ELSE IF kill THEN Ended(p, FALSE)
       ELSE IF IsCall(p.entry) THEN TryCall(p) ELSE Backtrack(p)]
  /\ UNCHANGED <<history, entries, kill, main>>

-----------------------------------------------------------------------------
(* CheckOperationsTimeout.                                                 *)

\* Slip: one result too many is waited for.
AllMore(count) == count > Cardinality(DOMAIN search)

All(count) == count >= Cardinality(DOMAIN search)

Result(key) ==
  LET ok == search[key].result IN
  /\ main.st = "loop" /\ search[key].st = "send"
  /\ search' = [search EXCEPT ![key].st = "sent"]
  /\ kill' = ~ok
  /\ main' = [main EXCEPT !.ok = ok, !.count = IF ok THEN @ + 1 ELSE @,
                          !.st = IF ~ok \/ All(main.count + 1) THEN "returned" ELSE "loop"]
  /\ UNCHANGED <<history, entries>>

TimeOut ==
  /\ Timeout /\ main.st = "loop"
  /\ main' = [main EXCEPT !.st = "returned", !.timedOut = TRUE]
  /\ UNCHANGED <<history, entries, search, kill>>

Next == (\E key \in DOMAIN search : Iterate(key) \/ Result(key)) \/ TimeOut

\* The goroutines run.
Fairness == WF_vars(\E key \in DOMAIN search : Iterate(key) \/ Result(key))

FairSpec == Init /\ [][Next]_vars /\ Fairness

-----------------------------------------------------------------------------
(* Properties.                                                             *)

\* The places in the list, from n on.
Chain(p, n) ==
  LET len == Cardinality(DOMAIN p.prev)
      at[k \in 0..len] == IF k = 0 THEN n ELSE IF at[k - 1] = NilNode THEN NilNode ELSE p.next[at[k - 1]]
  IN {at[k] : k \in 0..len} \ {NilNode}

\* However the search has lifted nodes out of the list and put them back, the list
\* holds exactly the calls and returns that are not linearized, in their order and
\* linked both ways, and the entry looked at is one of them.
ListIsRest ==
  \A key \in DOMAIN search :
    LET p == search[key]
        rest == {k \in NodesOf(history, entries, key) : entries[k].id \notin p.linearized}
    IN /\ Chain(p, Head0) = rest \cup {Head0}
       /\ \A k \in rest \cup {Head0} :
            /\ p.next[k] = Least({n \in rest : n > k})
            /\ k \in rest => p.prev[k] = Greatest({n \in rest : n < k})
       /\ p.st = "run" /\ rest # {} => p.entry \in rest

\* The operation a returned before b was called.
Before(a, b) == Position(entries, ReturnOf(a)) < Position(entries, CallOf(b))

\* The value of each key after the first k operations of the order s.
StoreAfter(s) ==
  LET store[k \in 0..Len(s)] ==
        IF k = 0 THEN [key \in KeysOf(history) |-> << >>]
        ELSE [store[k - 1] EXCEPT ![history[s[k]].key] = Step(@, history[s[k]])]
  IN store

\* Whether some order of all the operations, on all keys, explains every output
\* and keeps an operation that returned before another one was called before it.
IsLinearizable ==
  \E s \in SetToSeqs(DOMAIN history) :
    /\ \A m, n \in DOMAIN s : m < n => ~Before(s[n], s[m])
    /\ \A k \in DOMAIN s : Possible(StoreAfter(s)[k - 1][history[s[k]].key], history[s[k]])

\* The verdict is right, although each key is judged alone, by goroutines that run
\* at the same time and are stopped by the first failure: a history is rejected
\* only if no order explains it, and accepted only if one does or the time is up.
VerdictRight ==
  main.st = "returned" =>
    IF main.ok THEN main.timedOut \/ IsLinearizable ELSE ~IsLinearizable

\* The search ends.
Terminates == <>(main.st = "returned")
=============================================================================
