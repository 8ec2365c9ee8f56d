----------------------- MODULE LinearizabilityProofs -----------------------
(***************************************************************************)
(* The list of checkSingle, for histories of any length: nodes are lifted  *)
(* out of it and put back where they were, however the search goes.        *)
(***************************************************************************)
EXTENDS Linearizability, NatSetLemmas, SequenceTheorems

\* The values an object can have.
Value == Seq({op.value : op \in Op})

\* The call and the return of an operation are in the list once, in this order.
EntriesOK ==
  /\ \E len \in Nat : DOMAIN entries = 1..len
  /\ \A k \in DOMAIN entries :
       /\ entries[k].id \in DOMAIN history /\ history[entries[k].id] \in Op
       /\ IsCall(k) =>
            /\ Match(k) \in DOMAIN entries /\ k < Match(k) /\ entries[Match(k)].id = entries[k].id
            /\ \A n \in DOMAIN entries : entries[n].id = entries[k].id => n \in {k, Match(k)}

Nodes(key) == NodesOf(history, entries, key)

SearchState(nodes) ==
  [next : [nodes \cup {Head0} -> Int], prev : [nodes -> Int], entry : Int,
   calls : Seq([entry : nodes, state : Value]),
   cache : SUBSET [linearized : SUBSET DOMAIN history, state : Value],
   linearized : SUBSET DOMAIN history, state : Value,
   st : {"run", "send", "sent"}, result : BOOLEAN]

\* What the links of a node are in a list of the nodes in S.
NextIn(S, k) == Least({n \in S : n > k})
PrevIn(S, k) == Greatest({n \in S : n < k})
Linked(p, k, S) == p.next[k] = NextIn(S, k) /\ p.prev[k] = PrevIn(S, k)

\* The list that starts at headEntry has the nodes in S.
ListOf(p, S) == p.next[Head0] = NextIn(S, Head0) /\ \A k \in S : Linked(p, k, S)

\* The nodes that are left when the first j operations of the stack are taken.
Left(key, p, j) ==
  {k \in Nodes(key) : \A l \in 1..j : entries[k].id # entries[p.calls[l].entry].id}

\* The operation at depth j of the stack: its nodes have the links they had when
\* they were lifted.
Lifted(key, p, j) ==
  LET a == p.calls[j].entry IN
  /\ IsCall(a) /\ a \in Left(key, p, j - 1)
  /\ Linked(p, a, Left(key, p, j - 1))
  /\ Linked(p, Match(a), Left(key, p, j - 1) \ {a})

SearchOK(key, p) ==
  /\ p \in SearchState(Nodes(key))
  /\ \A j \in 1..Len(p.calls) : Lifted(key, p, j)
  /\ p.linearized = {entries[p.calls[j].entry].id : j \in 1..Len(p.calls)}
  /\ ListOf(p, Left(key, p, Len(p.calls)))
  /\ p.st = "run" /\ Left(key, p, Len(p.calls)) # {} => p.entry \in Left(key, p, Len(p.calls))

ListInv == EntriesOK /\ \A key \in DOMAIN search : SearchOK(key, search[key])

-----------------------------------------------------------------------------
(* Least and Greatest.                                                     *)

\* The least node of a set of nodes, or none.
LEMMA LeastOf ==
  ASSUME NEW T, T \subseteq Nat
  PROVE  /\ T = {} => Least(T) = NilNode
         /\ T # {} => Least(T) \in T /\ \A n \in T : Least(T) <= n
<1>1. CASE T = {}
  BY <1>1 DEF Least
<1>2. CASE T # {}
  <2>1. \E m \in T : \A n \in T : m <= n
    BY <1>2, LeastNat
  <2> QED  BY <1>2, <2>1 DEF Least
<1> QED  BY <1>1, <1>2

\* The greatest node of a set of nodes below some node, or headEntry.
LEMMA GreatestOf ==
  ASSUME NEW T, T \subseteq Nat, NEW b \in Nat, \A n \in T : n <= b
  PROVE  /\ T = {} => Greatest(T) = Head0
         /\ T # {} => Greatest(T) \in T /\ \A n \in T : n <= Greatest(T)
<1>1. CASE T = {}
  BY <1>1 DEF Greatest
<1>2. CASE T # {}
  <2>1. Max(T) \in T /\ \A n \in T : n <= Max(T)
    BY <1>2, MaxOfBounded
  <2> QED  BY <1>2, <2>1 DEF Greatest
<1> QED  BY <1>1, <1>2

\* The neighbours of a node in a list.
LEMMA Neighbours ==
  ASSUME NEW S, S \subseteq Nat, 0 \notin S, NEW k \in Nat
  PROVE  /\ \/ NextIn(S, k) = NilNode /\ \A n \in S : n <= k
            \/ /\ NextIn(S, k) \in S /\ NextIn(S, k) > k
               /\ \A n \in S : n > k => NextIn(S, k) <= n
         /\ \/ PrevIn(S, k) = Head0 /\ \A n \in S : n >= k
            \/ /\ PrevIn(S, k) \in S /\ PrevIn(S, k) < k
               /\ \A n \in S : n < k => n <= PrevIn(S, k)
<1> DEFINE above == {n \in S : n > k}
           below == {n \in S : n < k}
<1>1. \A n \in S : n \in Nat /\ (n < k => n <= k)
  OBVIOUS
<1>2. above \subseteq Nat /\ below \subseteq Nat /\ \A n \in below : n <= k
  BY <1>1
<1>3. /\ above = {} => Least(above) = NilNode
      /\ above # {} => Least(above) \in above /\ \A n \in above : Least(above) <= n
  <2> HIDE DEF above, below
  <2> QED  BY <1>2, LeastOf
<1>4. /\ below = {} => Greatest(below) = Head0
      /\ below # {} => Greatest(below) \in below /\ \A n \in below : n <= Greatest(below)
  <2> HIDE DEF above, below
  <2> QED  BY <1>2, GreatestOf
<1>5. NextIn(S, k) = Least(above) /\ PrevIn(S, k) = Greatest(below)
  BY DEF NextIn, PrevIn
<1>6. above = {} => \A n \in S : n <= k
  BY <1>1
<1>7. below = {} => \A n \in S : n >= k
  BY <1>1
<1> QED  BY <1>3, <1>4, <1>5, <1>6, <1>7

\* A node between which and k there is no other is the neighbour of k.
LEMMA NeighbourIs ==
  ASSUME NEW S, S \subseteq Nat, 0 \notin S, NEW k \in Nat, NEW m \in S
  PROVE  /\ m > k /\ (\A n \in S : n > k => m <= n) => NextIn(S, k) = m
         /\ m < k /\ (\A n \in S : n < k => n <= m) => PrevIn(S, k) = m
<1>1. \A n \in S : n \in Nat
  OBVIOUS
<1>2. ASSUME m > k, \A n \in S : n > k => m <= n PROVE NextIn(S, k) = m
  <2>1. PICK x : x = NextIn(S, k)
    OBVIOUS
  <2>2. \/ x = NilNode /\ \A n \in S : n <= k
        \/ x \in S /\ x > k /\ \A n \in S : n > k => x <= n
    BY <2>1, Neighbours
  <2>3. x \in S /\ x > k /\ x <= m
    BY <1>1, <1>2, <2>2
  <2>4. m <= x
    BY <1>2, <2>3
  <2> QED  BY <1>1, <2>1, <2>3, <2>4
<1>3. ASSUME m < k, \A n \in S : n < k => n <= m PROVE PrevIn(S, k) = m
  <2>1. PICK x : x = PrevIn(S, k)
    OBVIOUS
  <2>2. \/ x = Head0 /\ \A n \in S : n >= k
        \/ x \in S /\ x < k /\ \A n \in S : n < k => n <= x
    BY <2>1, Neighbours
  <2>3. x \in S /\ x < k /\ m <= x
    BY <1>1, <1>3, <2>2
  <2>4. x <= m
    BY <1>3, <2>3
  <2> QED  BY <1>1, <2>1, <2>3, <2>4
<1> QED  BY <1>2, <1>3

\* The neighbours of the others in a list R that lacks the node a of S.
Spliced(S, a, R) ==
  /\ \A k \in R \cup {Head0} :
       /\ NextIn(R, k) = IF k = PrevIn(S, a) THEN NextIn(S, a) ELSE NextIn(S, k)
       /\ NextIn(S, k) = a <=> k = PrevIn(S, a)
  /\ \A k \in R :
       /\ PrevIn(R, k) = IF k = NextIn(S, a) THEN PrevIn(S, a) ELSE PrevIn(S, k)
       /\ PrevIn(S, k) = a <=> k = NextIn(S, a)

\* The neighbours of the others when a node leaves the list or comes back to it.
LEMMA NeighboursWithout ==
  ASSUME NEW S, S \subseteq Nat, 0 \notin S, NEW a, a \in S, NEW R, R = S \ {a}
  PROVE  Spliced(S, a, R)
<1> USE DEF Head0
<1> DEFINE prv == PrevIn(S, a)
           nxt == NextIn(S, a)
<1>0. a \in Nat /\ a > 0 /\ (\A n \in S : n \in Nat /\ n > 0) /\ R \subseteq Nat /\ 0 \notin R /\ 0 \in Nat
  OBVIOUS
<1>1. /\ \/ nxt = NilNode /\ \A n \in S : n <= a
         \/ nxt \in S /\ nxt > a /\ \A n \in S : n > a => nxt <= n
      /\ \/ prv = Head0 /\ \A n \in S : n >= a
         \/ prv \in S /\ prv < a /\ \A n \in S : n < a => n <= prv
  BY <1>0, Neighbours
<1> HIDE DEF prv, nxt
<1>2. /\ prv \in Nat /\ prv < a /\ (prv = 0 \/ prv \in R)
      /\ \A n \in S : n < a => n <= prv
  <2>1. CASE prv = Head0 /\ \A n \in S : n >= a
    <3>1. \A n \in S : ~(n < a)
      BY <1>0, <2>1
    <3> QED  BY <1>0, <2>1, <3>1
  <2>2. CASE prv \in S /\ prv < a /\ \A n \in S : n < a => n <= prv
    <3>1. prv \in Nat /\ prv # a
      BY <1>0, <2>2
    <3> QED  BY <2>2, <3>1
  <2> QED  BY <1>1, <2>1, <2>2
<1>3. \/ nxt = NilNode /\ \A n \in S : n <= a
      \/ nxt \in R /\ nxt > a /\ \A n \in S : n > a => nxt <= n
  BY <1>0, <1>1
<1>4. ASSUME NEW k \in R \cup {0}
      PROVE  /\ NextIn(R, k) = IF k = prv THEN nxt ELSE NextIn(S, k)
             /\ NextIn(S, k) = a <=> k = prv
  <2>1. k \in Nat /\ k # a /\ (k < a => k <= prv)
    BY <1>0, <1>2
  <2>2. CASE k = prv
    <3>0. \A n \in S : n \in R /\ n > k <=> n > a
      BY <1>0, <1>2, <2>1, <2>2
    <3>1. {n \in R : n > k} = {n \in S : n > a}
      BY <3>0
    <3>2. NextIn(R, k) = nxt
      BY <3>1 DEF NextIn, nxt
    <3>3. a > k /\ \A n \in S : n > k => a <= n
      BY <1>0, <1>2, <2>1, <2>2
    <3>4. NextIn(S, k) = a
      BY <2>1, <3>3, NeighbourIs
    <3> QED  BY <2>2, <3>2, <3>4
  <2>3. CASE k > a
    <3>1. {n \in R : n > k} = {n \in S : n > k}
      BY <1>0, <2>1, <2>3
    <3>2. NextIn(R, k) = NextIn(S, k)
      BY <3>1 DEF NextIn
    <3>3. NextIn(S, k) # a /\ k # prv
      <4>1. NextIn(S, k) = NilNode \/ NextIn(S, k) > k
        BY <2>1, Neighbours
      <4> QED  BY <1>0, <1>2, <2>1, <2>3, <4>1 DEF NilNode
    <3> QED  BY <3>2, <3>3
  <2>4. CASE k < a /\ k # prv
    <3>1. k < prv /\ prv \in R
      BY <1>0, <1>2, <2>1, <2>4
    <3>2. PICK m : m = NextIn(S, k)
      OBVIOUS
    <3>7. \/ m = NilNode /\ \A n \in S : n <= k
          \/ m \in S /\ m > k /\ \A n \in S : n > k => m <= n
      BY <2>1, <3>2, Neighbours
    <3>3. m \in S /\ m > k /\ \A n \in S : n > k => m <= n
      BY <1>0, <2>1, <3>1, <3>7
    <3>4. m <= prv /\ m \in Nat
      BY <1>0, <3>1, <3>3
    <3>5. m # a /\ m \in R
      BY <1>0, <1>2, <3>3, <3>4
    <3>6. NextIn(R, k) = m
      BY <1>0, <2>1, <3>3, <3>5, NeighbourIs
    <3> QED  BY <2>4, <3>2, <3>5, <3>6
  <2> QED  BY <1>0, <1>2, <2>1, <2>2, <2>3, <2>4
<1>5. ASSUME NEW k \in R
      PROVE  /\ PrevIn(R, k) = IF k = nxt THEN prv ELSE PrevIn(S, k)
             /\ PrevIn(S, k) = a <=> k = nxt
  <2>1. k \in Nat /\ k \in S /\ k # a /\ k > 0
    BY <1>0
  <2>2. CASE k = nxt
    <3>1. nxt \in R /\ nxt > a /\ \A n \in S : n > a => nxt <= n
      BY <1>0, <1>3, <2>1, <2>2 DEF NilNode
    <3>0. \A n \in S : n \in R /\ n < k <=> n < a
      BY <1>0, <2>1, <2>2, <3>1
    <3>2. {n \in R : n < k} = {n \in S : n < a}
      BY <3>0
    <3>3. PrevIn(R, k) = prv
      BY <3>2 DEF PrevIn, prv
    <3>4. a < k /\ \A n \in S : n < k => n <= a
      BY <1>0, <2>1, <2>2, <3>1
    <3>5. PrevIn(S, k) = a
      BY <2>1, <3>4, NeighbourIs
    <3> QED  BY <2>2, <3>3, <3>5
  <2>3. CASE k < a
    <3>1. {n \in R : n < k} = {n \in S : n < k}
      BY <1>0, <2>1, <2>3
    <3>2. PrevIn(R, k) = PrevIn(S, k)
      BY <3>1 DEF PrevIn
    <3>3. PrevIn(S, k) # a
      <4>1. PrevIn(S, k) = 0 \/ PrevIn(S, k) < k
        BY <2>1, Neighbours
      <4> QED  BY <1>0, <2>1, <2>3, <4>1
    <3>4. k # nxt
      BY <1>0, <1>3, <2>1, <2>3 DEF NilNode
    <3> QED  BY <3>2, <3>3, <3>4
  <2>4. CASE k > a /\ k # nxt
    <3>0. nxt \in R /\ nxt > a /\ nxt <= k
      <4>1. ~(k <= a)
        BY <1>0, <2>1, <2>4
      <4> QED  BY <1>3, <2>1, <2>4, <4>1
    <3>1. nxt < k /\ nxt \in R /\ nxt > a
      <4>1. nxt \in Nat
        BY <1>0, <3>0
      <4> QED  BY <2>1, <2>4, <3>0, <4>1
    <3>2. PICK m : m = PrevIn(S, k)
      OBVIOUS
    <3>7. \/ m = Head0 /\ \A n \in S : n >= k
          \/ m \in S /\ m < k /\ \A n \in S : n < k => n <= m
      BY <2>1, <3>2, Neighbours
    <3>3. m \in S /\ m < k /\ \A n \in S : n < k => n <= m
      BY <1>0, <2>1, <3>1, <3>7
    <3>4. nxt <= m /\ m \in Nat
      BY <1>0, <3>1, <3>3
    <3>5. m # a /\ m \in R
      BY <1>0, <3>1, <3>3, <3>4
    <3>6. PrevIn(R, k) = m
      BY <1>0, <2>1, <3>3, <3>5, NeighbourIs
    <3> QED  BY <2>4, <3>2, <3>5, <3>6
  <2> QED  BY <1>0, <2>1, <2>2, <2>3, <2>4
<1> QED  BY <1>4, <1>5 DEF Spliced, prv, nxt

-----------------------------------------------------------------------------
(* A node leaves the list, and comes back.                                 *)

\* The search but for its links is the same.
Kept(p, q) ==
  /\ q.entry = p.entry /\ q.calls = p.calls /\ q.cache = p.cache
  /\ q.linearized = p.linearized /\ q.state = p.state /\ q.st = p.st /\ q.result = p.result

SameLinks(p, q, k) == q.next[k] = p.next[k] /\ q.prev[k] = p.prev[k]

\* Nothing happens to the nodes that are not in S.
Untouched(p, q, nodes, S) == \A k \in nodes : k \notin S => SameLinks(p, q, k)

\* The links of p and of q differ in that n follows a.
Joined(p, q, nodes, a, n) ==
  /\ q \in SearchState(nodes) /\ Kept(p, q)
  /\ \A k \in nodes \cup {Head0} : q.next[k] = IF k = a THEN n ELSE p.next[k]
  /\ \A k \in nodes : q.prev[k] = IF k = n THEN a ELSE p.prev[k]

\* What Join changes.
LEMMA JoinIs ==
  ASSUME NEW nodes, nodes \subseteq Nat, 0 \notin nodes, NEW p \in SearchState(nodes),
         NEW a \in nodes \cup {Head0}, NEW n \in nodes \cup {NilNode},
         NEW q, q = Join(p, a, n)
  PROVE  Joined(p, q, nodes, a, n)
<1> DEFINE nx == [p.next EXCEPT ![a] = n]
           pv == IF n = NilNode THEN p.prev ELSE [p.prev EXCEPT ![n] = a]
<1>1. /\ p.next \in [nodes \cup {Head0} -> Int] /\ p.prev \in [nodes -> Int]
      /\ a \in Int /\ n \in Int /\ NilNode \notin nodes
  BY DEF SearchState, Head0, NilNode
<1>2. /\ nx \in [nodes \cup {Head0} -> Int]
      /\ \A k \in nodes \cup {Head0} : nx[k] = IF k = a THEN n ELSE p.next[k]
  BY <1>1
<1>3. /\ pv \in [nodes -> Int]
      /\ \A k \in nodes : pv[k] = IF k = n THEN a ELSE p.prev[k]
  BY <1>1
<1>4. q = [p EXCEPT !.next = nx, !.prev = pv]
  BY DEF Join
<1> HIDE DEF nx, pv
<1>5. q.next = nx /\ q.prev = pv /\ Kept(p, q) /\ q \in SearchState(nodes)
  BY <1>2, <1>3, <1>4 DEF SearchState, Kept
<1> QED  BY <1>2, <1>3, <1>5 DEF Joined

\* A search over a set of nodes, S of them in its list.
Over(p, nodes, S) ==
  /\ nodes \subseteq Nat /\ 0 \notin nodes /\ S \subseteq nodes
  /\ p \in SearchState(nodes)

\* The list of q is S, where it was another one in p.
Relinked(p, q, nodes, S) ==
  q \in SearchState(nodes) /\ Kept(p, q) /\ ListOf(q, S) /\ Untouched(p, q, nodes, S)

\* The two halves of lift, and those of unlift, do the same to one node each.
TakeOut(p, a) == Join(p, p.prev[a], p.next[a])
PutBack(p, a) == Join(Join(p, p.prev[a], a), a, p.next[a])

\* A node that leaves the list keeps its own links, and so does every node that has
\* left it before.
LEMMA Removed ==
  ASSUME NEW nodes, NEW S, NEW p, Over(p, nodes, S), ListOf(p, S), NEW a, a \in S,
         NEW R, R = S \ {a}, NEW q, q = TakeOut(p, a)
  PROVE  Relinked(p, q, nodes, R)
<1> DEFINE prv == PrevIn(S, a)
           nxt == NextIn(S, a)
<1>0. nodes \subseteq Nat /\ 0 \notin nodes /\ S \subseteq nodes /\ p \in SearchState(nodes)
  BY DEF Over
<1> USE <1>0
<1>1. q = Join(p, prv, nxt)
  BY DEF TakeOut, ListOf, Linked
<1>2. S \subseteq Nat /\ 0 \notin S /\ a \in Nat /\ NilNode \notin nodes
  BY DEF NilNode
<1>3. nxt \in R \cup {NilNode} /\ prv \in R \cup {Head0}
  <2>1. /\ nxt = NilNode \/ (nxt \in S /\ nxt > a)
        /\ prv = Head0 \/ (prv \in S /\ prv < a)
    BY <1>2, Neighbours
  <2>2. ~(a > a) /\ ~(a < a)
    BY <1>2
  <2> HIDE DEF prv, nxt
  <2> QED  BY <2>1, <2>2
<1>4. /\ q \in SearchState(nodes) /\ Kept(p, q)
      /\ \A k \in nodes \cup {Head0} : q.next[k] = IF k = prv THEN nxt ELSE p.next[k]
      /\ \A k \in nodes : q.prev[k] = IF k = nxt THEN prv ELSE p.prev[k]
  <2> HIDE DEF prv, nxt
  <2>1. prv \in nodes \cup {Head0} /\ nxt \in nodes \cup {NilNode}
    BY <1>3
  <2>2. Joined(p, q, nodes, prv, nxt)
    BY <1>1, <2>1, JoinIs
  <2> QED  BY <2>2 DEF Joined
<1>5. /\ \A k \in R \cup {Head0} : NextIn(R, k) = IF k = prv THEN nxt ELSE NextIn(S, k)
      /\ \A k \in R : PrevIn(R, k) = IF k = nxt THEN prv ELSE PrevIn(S, k)
  <2>1. a \in S /\ R = S \ {a}
    OBVIOUS
  <2>2. Spliced(S, a, R)
    BY ONLY <1>2, <2>1, NeighboursWithout
  <2> QED  BY <2>2 DEF Spliced
<1>6. /\ p.next[Head0] = NextIn(S, Head0)
      /\ \A k \in R : p.next[k] = NextIn(S, k) /\ p.prev[k] = PrevIn(S, k)
  BY DEF ListOf, Linked
<1> HIDE DEF prv, nxt
<1>7. /\ q.next[Head0] = NextIn(R, Head0)
      /\ \A k \in R : q.next[k] = NextIn(R, k) /\ q.prev[k] = PrevIn(R, k)
  BY <1>4, <1>5, <1>6
<1>8. ListOf(q, R)
  BY <1>7 DEF ListOf, Linked
<1>9. ASSUME NEW k \in nodes, k \notin R PROVE SameLinks(p, q, k)
  <2>1. k # nxt /\ k # prv
    BY <1>2, <1>3, <1>9 DEF Head0
  <2> QED  BY <1>4, <2>1 DEF Untouched, SameLinks
<1> QED  BY <1>4, <1>8, <1>9 DEF Relinked, Untouched

\* A node that comes back where it was restores the list it left.
LEMMA Restored ==
  ASSUME NEW nodes, NEW S, NEW p, Over(p, nodes, S), NEW a, a \in S, Linked(p, a, S),
         NEW R, R = S \ {a}, ListOf(p, R), NEW q, q = PutBack(p, a)
  PROVE  Relinked(p, q, nodes, S)
<1> DEFINE prv == PrevIn(S, a)
           nxt == NextIn(S, a)
           r == Join(p, prv, a)
<1>0. nodes \subseteq Nat /\ 0 \notin nodes /\ S \subseteq nodes /\ p \in SearchState(nodes)
  BY DEF Over
<1> USE <1>0
<1>1. q = Join(r, a, nxt)
  BY DEF PutBack, Linked
<1>2. S \subseteq Nat /\ 0 \notin S /\ a \in Nat /\ a # 0 /\ a \in nodes /\ NilNode \notin nodes
  BY DEF NilNode
<1>3. nxt \in R \cup {NilNode} /\ prv \in R \cup {Head0}
  <2>1. /\ nxt = NilNode \/ (nxt \in S /\ nxt > a)
        /\ prv = Head0 \/ (prv \in S /\ prv < a)
    BY <1>2, Neighbours
  <2>2. ~(a > a) /\ ~(a < a)
    BY <1>2
  <2> HIDE DEF prv, nxt
  <2> QED  BY <2>1, <2>2
<1>4. /\ \A k \in R \cup {Head0} : NextIn(R, k) = IF k = prv THEN nxt ELSE NextIn(S, k)
      /\ \A k \in R : PrevIn(R, k) = IF k = nxt THEN prv ELSE PrevIn(S, k)
      /\ \A k \in R \cup {Head0} : NextIn(S, k) = a <=> k = prv
      /\ \A k \in R : PrevIn(S, k) = a <=> k = nxt
  <2>1. a \in S /\ R = S \ {a}
    OBVIOUS
  <2>2. Spliced(S, a, R)
    BY ONLY <1>2, <2>1, NeighboursWithout
  <2> QED  BY <2>2 DEF Spliced
<1>5. /\ p.next[Head0] = NextIn(R, Head0)
      /\ \A k \in R : p.next[k] = NextIn(R, k) /\ p.prev[k] = PrevIn(R, k)
  BY DEF ListOf, Linked
<1>6. nxt = NextIn(S, a) /\ prv = PrevIn(S, a)
  OBVIOUS
<1>7. /\ q \in SearchState(nodes) /\ Kept(p, q)
      /\ \A k \in nodes \cup {Head0} :
           q.next[k] = IF k = a THEN nxt ELSE IF k = prv THEN a ELSE p.next[k]
      /\ \A k \in nodes :
           q.prev[k] = IF k = nxt THEN a ELSE IF k = a THEN prv ELSE p.prev[k]
  <2> HIDE DEF prv, nxt
  <2>0. prv \in nodes \cup {Head0} /\ nxt \in nodes \cup {NilNode} /\ a \in nodes \cup {Head0}
    BY <1>2, <1>3
  <2>1. r \in SearchState(nodes) /\ Joined(p, r, nodes, prv, a)
    <3>1. Joined(p, r, nodes, prv, a)
      BY <1>2, <2>0, JoinIs
    <3> QED  BY <3>1 DEF Joined
  <2> HIDE DEF r
  <2>2. Joined(r, q, nodes, a, nxt)
    BY <1>1, <2>0, <2>1, JoinIs
  <2>3. Kept(p, q)
    BY <2>1, <2>2 DEF Joined, Kept
  <2> QED  BY <2>1, <2>2, <2>3 DEF Joined
<1> HIDE DEF prv, nxt
<1>8. /\ q.next[Head0] = NextIn(S, Head0)
      /\ \A k \in R : q.next[k] = NextIn(S, k) /\ q.prev[k] = PrevIn(S, k)
  BY <1>2, <1>7, <1>4, <1>5 DEF Head0
<1>9. q.next[a] = NextIn(S, a) /\ q.prev[a] = PrevIn(S, a)
  BY <1>2, <1>3, <1>7, <1>6 DEF Head0
<1>10. ListOf(q, S)
  BY <1>8, <1>9 DEF ListOf, Linked
<1>11. ASSUME NEW k \in nodes, k \notin S PROVE SameLinks(p, q, k)
  <2>1. k # nxt /\ k # prv /\ k # a
    BY <1>2, <1>3, <1>11 DEF Head0
  <2> QED  BY <1>7, <2>1 DEF Untouched, SameLinks
<1> QED  BY <1>7, <1>10, <1>11 DEF Relinked, Untouched

-----------------------------------------------------------------------------
(* lift and unlift.                                                        *)

\* The nodes of a key, and the return of a call among them.
LEMMA NodesFacts ==
  ASSUME EntriesOK, NEW key
  PROVE  /\ Nodes(key) \subseteq Nat /\ 0 \notin Nodes(key) /\ Nodes(key) \subseteq DOMAIN entries
         /\ \A k \in Nodes(key) : IsCall(k) =>
              Match(k) \in Nodes(key) /\ k < Match(k) /\ k # Match(k)
<1>1. PICK len \in Nat : DOMAIN entries = 1..len
  BY DEF EntriesOK
<1>2. Nodes(key) \subseteq DOMAIN entries
  BY DEF Nodes, NodesOf
<1>3. Nodes(key) \subseteq Nat /\ 0 \notin Nodes(key)
  BY <1>1, <1>2
<1>4. ASSUME NEW k \in Nodes(key), IsCall(k)
      PROVE  Match(k) \in Nodes(key) /\ k < Match(k) /\ k # Match(k)
  <2>1. Match(k) \in DOMAIN entries /\ k < Match(k) /\ entries[Match(k)].id = entries[k].id
    BY <1>2, <1>4 DEF EntriesOK
  <2>2. Match(k) \in Nodes(key)
    BY <2>1 DEF Nodes, NodesOf
  <2>3. PICK m \in Nat : m = Match(k)
    BY <1>3, <2>2
  <2>4. k \in Nat /\ k < m
    BY <1>3, <2>1, <2>3
  <2> QED  BY <2>1, <2>2, <2>3, <2>4
<1> QED  BY <1>2, <1>3, <1>4

\* The call and the return leave the list and remember where they were.
LEMMA LiftIs ==
  ASSUME EntriesOK, NEW key, NEW p, p \in SearchState(Nodes(key)),
         NEW S, S \subseteq Nodes(key), NEW a, a \in S, IsCall(a), Match(a) \in S, ListOf(p, S),
         NEW q, q = Lift(p, a)
  PROVE  /\ q \in SearchState(Nodes(key)) /\ Kept(p, q) /\ ListOf(q, (S \ {a}) \ {Match(a)})
         /\ Linked(q, a, S) /\ Linked(q, Match(a), S \ {a})
         /\ Untouched(p, q, Nodes(key), S)
<1> DEFINE nodes == Nodes(key)
<1>0. PICK b : b = Match(a)
  OBVIOUS
<1>1. nodes \subseteq Nat /\ 0 \notin nodes /\ a \in nodes /\ b \in S \ {a} /\ b \in nodes
  BY <1>0, NodesFacts
<1> HIDE DEF nodes
<1>2. PICK T : T = S \ {a}
  OBVIOUS
<1>3. PICK R : R = T \ {b}
  OBVIOUS
<1>4. PICK r : r = TakeOut(p, a)
  OBVIOUS
<1>5. Relinked(p, r, nodes, T)
  <2>1. Over(p, nodes, S)
    BY <1>1 DEF Over, nodes
  <2>2. a \in S /\ ListOf(p, S)
    OBVIOUS
  <2> QED  BY ONLY <1>2, <1>4, <2>1, <2>2, Removed
<1>6. Relinked(r, q, nodes, R)
  <2>1. Over(r, nodes, T) /\ ListOf(r, T)
    BY <1>1, <1>2, <1>5 DEF Over, Relinked, nodes
  <2>2. q = TakeOut(r, b) /\ b \in T
    BY <1>0, <1>1, <1>2, <1>4 DEF Lift, TakeOut
  <2> QED  BY ONLY <1>3, <2>1, <2>2, Removed
<1>7. Kept(p, q)
  BY <1>5, <1>6 DEF Relinked, Kept
<1>8. Linked(q, a, S)
  <2>1. SameLinks(p, r, a) /\ SameLinks(r, q, a)
    BY <1>1, <1>2, <1>3, <1>5, <1>6 DEF Relinked, Untouched
  <2>2. Linked(p, a, S)
    BY DEF ListOf
  <2> QED  BY <2>1, <2>2 DEF Linked, SameLinks
<1>9. Linked(q, b, T)
  <2>1. SameLinks(r, q, b) /\ b \in T
    BY <1>1, <1>2, <1>3, <1>6 DEF Relinked, Untouched
  <2>2. Linked(r, b, T)
    BY <1>5, <2>1 DEF Relinked, ListOf
  <2> QED  BY <2>1, <2>2 DEF Linked, SameLinks
<1>10. Untouched(p, q, nodes, S)
  BY <1>2, <1>3, <1>5, <1>6 DEF Relinked, Untouched, SameLinks
<1>11. q \in SearchState(nodes) /\ ListOf(q, R)
  BY <1>6 DEF Relinked
<1> QED  BY <1>0, <1>2, <1>3, <1>7, <1>8, <1>9, <1>10, <1>11 DEF nodes

\* The return and the call come back, which restores the list they left.
LEMMA UnliftIs ==
  ASSUME EntriesOK, NEW key, NEW p, p \in SearchState(Nodes(key)),
         NEW S, S \subseteq Nodes(key), NEW a, a \in S, IsCall(a), Match(a) \in S,
         ListOf(p, (S \ {a}) \ {Match(a)}), Linked(p, a, S), Linked(p, Match(a), S \ {a}),
         NEW q, q = Unlift(p, a)
  PROVE  /\ q \in SearchState(Nodes(key)) /\ Kept(p, q) /\ ListOf(q, S)
         /\ Untouched(p, q, Nodes(key), S)
<1> DEFINE nodes == Nodes(key)
<1>0. PICK b : b = Match(a)
  OBVIOUS
<1>1. nodes \subseteq Nat /\ 0 \notin nodes /\ a \in nodes /\ b \in S \ {a} /\ b \in nodes
  BY <1>0, NodesFacts
<1> HIDE DEF nodes
<1>2. PICK T : T = S \ {a}
  OBVIOUS
<1>3. PICK R : R = T \ {b}
  OBVIOUS
<1>4. PICK r : r = PutBack(p, b)
  OBVIOUS
<1>5. Relinked(p, r, nodes, T)
  <2>1. Over(p, nodes, T) /\ b \in T
    BY <1>1, <1>2 DEF Over, nodes
  <2>2. ListOf(p, R) /\ Linked(p, b, T)
    BY <1>0, <1>2, <1>3
  <2> QED  BY ONLY <1>3, <1>4, <2>1, <2>2, Restored
<1>6. Relinked(r, q, nodes, S)
  <2>1. Over(r, nodes, S)
    BY <1>1, <1>5 DEF Over, Relinked, nodes
  <2>2. SameLinks(p, r, a)
    BY <1>1, <1>2, <1>5 DEF Relinked, Untouched
  <2>3. Linked(r, a, S) /\ ListOf(r, T)
    BY <1>5, <2>2 DEF Relinked, Linked, SameLinks
  <2>4. q = PutBack(r, a) /\ a \in S
    BY <1>0, <1>4 DEF Unlift, PutBack
  <2> QED  BY ONLY <1>2, <2>1, <2>3, <2>4, Restored
<1>7. Kept(p, q)
  BY <1>5, <1>6 DEF Relinked, Kept
<1>8. Untouched(p, q, nodes, S)
  BY <1>2, <1>5, <1>6 DEF Relinked, Untouched, SameLinks
<1>9. q \in SearchState(nodes) /\ ListOf(q, S)
  BY <1>6 DEF Relinked
<1> QED  BY <1>7, <1>8, <1>9 DEF nodes

-----------------------------------------------------------------------------
(* The nodes that are left.                                                *)

\* Taking one more operation takes its two nodes.
LEMMA LeftNext ==
  ASSUME EntriesOK, NEW key, NEW p, NEW m \in Nat, NEW j, j = m + 1,
         NEW a, a = p.calls[j].entry, a \in Left(key, p, m), IsCall(a)
  PROVE  /\ Left(key, p, j) = (Left(key, p, m) \ {a}) \ {Match(a)}
         /\ Match(a) \in Left(key, p, m) /\ Left(key, p, m) \subseteq Nodes(key)
         /\ Match(a) \in Nodes(key) /\ Match(a) > a
<1>1. Left(key, p, m) \subseteq Nodes(key) /\ a \in Nodes(key) /\ a \in DOMAIN entries
  BY DEF Left, Nodes, NodesOf
<1>2. /\ Match(a) \in DOMAIN entries /\ a < Match(a) /\ entries[Match(a)].id = entries[a].id
      /\ \A n \in DOMAIN entries : entries[n].id = entries[a].id => n \in {a, Match(a)}
  BY <1>1 DEF EntriesOK
<1>3. Match(a) \in Nodes(key) /\ Match(a) > a
  BY <1>1, NodesFacts
<1>4. Match(a) \in Left(key, p, m)
  BY <1>2, <1>3 DEF Left
<1>5. ASSUME NEW k \in Nodes(key)
      PROVE  k \in Left(key, p, j) <=> k \in Left(key, p, m) /\ k # a /\ k # Match(a)
  <2>1. k \in DOMAIN entries
    BY DEF Nodes, NodesOf
  <2>2. entries[k].id = entries[a].id <=> k = a \/ k = Match(a)
    BY <1>2, <2>1
  <2>3. \A l : l \in 1..j <=> l \in 1..m \/ l = j
    OBVIOUS
  <2>4. k \in Left(key, p, j) <=> k \in Left(key, p, m) /\ entries[k].id # entries[a].id
    BY <2>3 DEF Left
  <2> QED  BY <2>2, <2>4
<1>6. Left(key, p, j) \subseteq Nodes(key)
  BY DEF Left
<1> QED  BY <1>1, <1>3, <1>4, <1>5, <1>6

\* What is left depends only on the operations taken.
LEMMA LeftSame ==
  ASSUME NEW key, NEW p, NEW q, NEW m \in Nat,
         \A l \in 1..m : q.calls[l].entry = p.calls[l].entry
  PROVE  Left(key, q, m) = Left(key, p, m)
BY DEF Left

\* The more operations are taken, the less is left, and an operation taken is not.
LEMMA LeftShrinks ==
  ASSUME NEW key, NEW p, NEW m \in Nat, NEW j \in 1..m
  PROVE  /\ Left(key, p, m) \subseteq Left(key, p, j)
         /\ \A k \in Nodes(key) : entries[k].id = entries[p.calls[j].entry].id => k \notin Left(key, p, m)
<1>1. \A l \in 1..j : l \in 1..m
  OBVIOUS
<1> QED  BY <1>1 DEF Left

\* The nodes lifted before keep their links while others come and go.
LEMMA LiftedStays ==
  ASSUME EntriesOK, NEW key, NEW p, NEW q, NEW m \in Nat, NEW j \in 1..m, Lifted(key, p, j),
         \A l \in 1..m : q.calls[l].entry = p.calls[l].entry,
         Untouched(p, q, Nodes(key), Left(key, p, m))
  PROVE  Lifted(key, q, j)
<1>1. PICK a : a = p.calls[j].entry
  OBVIOUS
<1>2. PICK i \in Nat : i = j - 1
  OBVIOUS
<1>3. /\ IsCall(a) /\ a \in Left(key, p, i)
      /\ Linked(p, a, Left(key, p, i)) /\ Linked(p, Match(a), Left(key, p, i) \ {a})
  BY <1>1, <1>2 DEF Lifted
<1>4. \A l \in 1..i : q.calls[l].entry = p.calls[l].entry
  BY <1>2
<1>5. Left(key, q, i) = Left(key, p, i)
  BY <1>4, LeftSame
<1>6. a \in Nodes(key) /\ Match(a) \in Nodes(key) /\ entries[Match(a)].id = entries[a].id
  <2>1. a \in Nodes(key) /\ a \in DOMAIN entries
    BY <1>3 DEF Left, Nodes, NodesOf
  <2>2. entries[Match(a)].id = entries[a].id
    BY <1>3, <2>1 DEF EntriesOK
  <2> QED  BY <1>3, <2>1, <2>2, NodesFacts
<1>7. a \notin Left(key, p, m) /\ Match(a) \notin Left(key, p, m)
  BY <1>1, <1>6, LeftShrinks
<1>8. SameLinks(p, q, a) /\ SameLinks(p, q, Match(a))
  BY <1>6, <1>7 DEF Untouched
<1>9. Linked(q, a, Left(key, q, i)) /\ Linked(q, Match(a), Left(key, q, i) \ {a})
  BY <1>3, <1>5, <1>8 DEF Linked, SameLinks
<1>10. q.calls[j].entry = a
  BY <1>1
<1> QED  BY <1>2, <1>3, <1>5, <1>9, <1>10 DEF Lifted

-----------------------------------------------------------------------------
(* One iteration of checkSingle.                                           *)

\* A call is followed by some node, its return at the latest.
LEMMA AfterCall ==
  ASSUME NEW S, S \subseteq Nat, 0 \notin S, NEW a \in S, NEW b \in S, a < b
  PROVE  NextIn(S, a) \in S
<1>1. ~(b <= a) /\ a \in Nat
  OBVIOUS
<1> QED  BY <1>1, Neighbours

\* The list is empty exactly if nothing follows headEntry.
LEMMA AfterHead ==
  ASSUME NEW S, S \subseteq Nat, 0 \notin S
  PROVE  /\ S = {} => NextIn(S, Head0) = NilNode
         /\ S # {} => NextIn(S, Head0) \in S
<1>1. \/ NextIn(S, Head0) = NilNode /\ \A n \in S : n <= Head0
      \/ NextIn(S, Head0) \in S
  <2>1. Head0 \in Nat
    BY DEF Head0
  <2> QED  BY <2>1, Neighbours
<1>2. \A n \in S : ~(n <= Head0)
  BY DEF Head0
<1> QED  BY <1>1, <1>2

\* A step that changes neither the links nor the operations taken.
LEMMA SearchOKSame ==
  ASSUME NEW key, NEW p, SearchOK(key, p), NEW q, q \in SearchState(Nodes(key)),
         q.next = p.next, q.prev = p.prev, q.calls = p.calls, q.linearized = p.linearized,
         q.st = "run" /\ Left(key, p, Len(p.calls)) # {} => q.entry \in Left(key, p, Len(p.calls))
  PROVE  SearchOK(key, q)
<1>1. \A j : Left(key, q, j) = Left(key, p, j)
  BY DEF Left
<1>2. \A j \in 1..Len(q.calls) : Lifted(key, q, j)
  BY <1>1 DEF SearchOK, Lifted, Linked
<1>3. ListOf(q, Left(key, q, Len(q.calls)))
  BY <1>1 DEF SearchOK, ListOf, Linked
<1> QED  BY <1>1, <1>2, <1>3 DEF SearchOK

\* An operation is taken: its nodes leave the list.
LEMMA TakeOK ==
  ASSUME EntriesOK, NEW key, NEW p, SearchOK(key, p),
         NEW a, a \in Left(key, p, Len(p.calls)), IsCall(a),
         NEW r, r = Lift(p, a), NEW s, s \in Value,
         NEW q, q \in SearchState(Nodes(key)), q.next = r.next, q.prev = r.prev,
         q.calls = Append(p.calls, [entry |-> a, state |-> s]),
         q.linearized = p.linearized \cup {entries[a].id}, q.entry = r.next[Head0]
  PROVE  SearchOK(key, q)
<1> DEFINE nodes == Nodes(key)
           Call == [entry : nodes, state : Value]
<1>1. PICK m \in Nat : m = Len(p.calls)
  BY DEF SearchOK, SearchState
<1>2. PICK S : S = Left(key, p, m)
  OBVIOUS
<1>3. PICK b : b = Match(a)
  OBVIOUS
<1>4. S \subseteq nodes /\ a \in S /\ a \in nodes /\ nodes \subseteq Nat /\ 0 \notin nodes
  BY <1>1, <1>2, NodesFacts DEF Left
<1>5. /\ p \in SearchState(nodes) /\ p.calls \in Seq(Call)
      /\ [entry |-> a, state |-> s] \in Call
  BY <1>4 DEF SearchOK, SearchState
<1>6. /\ Len(q.calls) = m + 1 /\ q.calls[m + 1] = [entry |-> a, state |-> s]
      /\ \A l \in 1..m : q.calls[l] = p.calls[l]
  <2> HIDE DEF Call
  <2> QED  BY <1>1, <1>5, AppendProperties
<1>7. q.calls[m + 1].entry = a /\ \A l \in 1..m : q.calls[l].entry = p.calls[l].entry
  BY <1>6
<1>8. Left(key, q, m) = S
  BY <1>2, <1>7, LeftSame
<1>9. Left(key, q, m + 1) = (S \ {a}) \ {b} /\ b \in S
  <2>1. a = q.calls[m + 1].entry /\ a \in Left(key, q, m) /\ IsCall(a) /\ EntriesOK
    BY <1>4, <1>7, <1>8
  <2>2. /\ Left(key, q, m + 1) = (Left(key, q, m) \ {a}) \ {Match(a)}
        /\ Match(a) \in Left(key, q, m)
    BY ONLY m \in Nat, <2>1, LeftNext
  <2> QED  BY <1>3, <1>8, <2>2
<1>10. /\ ListOf(r, (S \ {a}) \ {b}) /\ Linked(r, a, S) /\ Linked(r, b, S \ {a})
       /\ Untouched(p, r, nodes, S)
  <2>1. ListOf(p, S)
    BY <1>1, <1>2 DEF SearchOK
  <2> HIDE DEF nodes
  <2>2. p \in SearchState(Nodes(key)) /\ S \subseteq Nodes(key) /\ Match(a) \in S
    BY <1>3, <1>4, <1>5, <1>9 DEF nodes
  <2>3. /\ ListOf(r, (S \ {a}) \ {Match(a)}) /\ Linked(r, a, S) /\ Linked(r, Match(a), S \ {a})
        /\ Untouched(p, r, Nodes(key), S)
    <3>1. a \in S /\ IsCall(a) /\ r = Lift(p, a) /\ EntriesOK
      BY <1>4
    <3> QED  BY ONLY <2>1, <2>2, <3>1, LiftIs
  <2> QED  BY <1>3, <2>3 DEF nodes
<1>11. /\ ListOf(q, (S \ {a}) \ {b}) /\ Linked(q, a, S) /\ Linked(q, b, S \ {a})
       /\ Untouched(p, q, nodes, S)
  BY <1>10 DEF ListOf, Linked, Untouched, SameLinks
<1>12. Lifted(key, q, m + 1)
  <2>1. (m + 1) - 1 = m
    OBVIOUS
  <2> QED  BY <1>3, <1>4, <1>7, <1>8, <1>11, <2>1 DEF Lifted
<1>13. ASSUME NEW j \in 1..m PROVE Lifted(key, q, j)
  <2>1. Lifted(key, p, j)
    BY <1>1 DEF SearchOK
  <2>2. Untouched(p, q, Nodes(key), Left(key, p, m))
    BY <1>2, <1>11
  <2> QED  BY <1>7, <2>1, <2>2, LiftedStays
<1>14. \A j \in 1..Len(q.calls) : Lifted(key, q, j)
  BY <1>6, <1>12, <1>13
<1>15. q.linearized = {entries[q.calls[j].entry].id : j \in 1..Len(q.calls)}
  <2>1. p.linearized = {entries[p.calls[j].entry].id : j \in 1..m}
    BY <1>1 DEF SearchOK
  <2>2. \A j : j \in 1..(m + 1) <=> j \in 1..m \/ j = m + 1
    OBVIOUS
  <2>3. {entries[q.calls[j].entry].id : j \in 1..(m + 1)}
          = {entries[p.calls[j].entry].id : j \in 1..m} \cup {entries[a].id}
    BY <1>7, <2>2
  <2> QED  BY <1>6, <2>1, <2>3
<1>16. (S \ {a}) \ {b} # {} => q.entry \in (S \ {a}) \ {b}
  <2>1. q.entry = NextIn((S \ {a}) \ {b}, Head0)
    BY <1>10 DEF ListOf
  <2>2. PICK T : T = (S \ {a}) \ {b}
    OBVIOUS
  <2>3. T \subseteq Nat /\ 0 \notin T
    BY <1>4, <2>2
  <2> QED  BY <2>1, <2>2, <2>3, AfterHead
<1> QED  BY <1>6, <1>9, <1>11, <1>14, <1>15, <1>16 DEF SearchOK

\* The last choice is undone: its nodes come back.
LEMMA UndoOK ==
  ASSUME EntriesOK, NEW key, NEW p, SearchOK(key, p), p.calls # << >>,
         NEW a, a = p.calls[Len(p.calls)].entry, NEW r, r = Unlift(p, a),
         NEW q, q \in SearchState(Nodes(key)), q.next = r.next, q.prev = r.prev,
         q.calls = SubSeq(p.calls, 1, Len(p.calls) - 1),
         q.linearized = p.linearized \ {entries[a].id}, q.entry = r.next[a]
  PROVE  SearchOK(key, q)
<1> DEFINE nodes == Nodes(key)
           Call == [entry : nodes, state : Value]
<1>1. p \in SearchState(nodes) /\ p.calls \in Seq(Call)
  BY DEF SearchOK, SearchState
<1> HIDE DEF Call
<1>2. PICK m \in Nat : Len(p.calls) = m + 1
  <2>1. Len(p.calls) \in Nat /\ Len(p.calls) # 0
    BY <1>1, EmptySeq
  <2>2. Len(p.calls) - 1 \in Nat /\ Len(p.calls) = (Len(p.calls) - 1) + 1
    BY <2>1
  <2> QED  BY <2>2
<1>3. Len(q.calls) = m /\ \A l \in 1..m : q.calls[l] = p.calls[l]
  <2>1. q.calls = SubSeq(p.calls, 1, m)
    BY <1>2
  <2>2. 1 \in 1..(Len(p.calls) + 1) /\ m \in 0..Len(p.calls)
    BY <1>2
  <2> QED  BY <1>1, <1>2, <2>1, <2>2, SubSeqProperties
<1>4. PICK S : S = Left(key, p, m)
  OBVIOUS
<1>5. PICK b : b = Match(a)
  OBVIOUS
<1>6. a = p.calls[m + 1].entry /\ a \in S /\ IsCall(a) /\ Linked(p, a, S) /\ Linked(p, b, S \ {a})
  <2>1. Lifted(key, p, m + 1) /\ (m + 1) - 1 = m
    BY <1>2 DEF SearchOK
  <2> QED  BY <1>2, <1>4, <1>5, <2>1 DEF Lifted
<1>7. S \subseteq nodes /\ a \in nodes /\ nodes \subseteq Nat /\ 0 \notin nodes
  BY <1>4, <1>6, NodesFacts DEF Left
<1>8. Left(key, p, m + 1) = (S \ {a}) \ {b} /\ b \in S /\ a < b
  BY <1>4, <1>5, <1>6, <1>7, NodesFacts, LeftNext
<1>9. ListOf(r, S) /\ Untouched(p, r, nodes, S)
  <2>1. ListOf(p, (S \ {a}) \ {Match(a)}) /\ Linked(p, Match(a), S \ {a}) /\ Match(a) \in S
    BY <1>2, <1>5, <1>6, <1>8 DEF SearchOK
  <2>2. p \in SearchState(Nodes(key)) /\ S \subseteq Nodes(key)
    BY <1>1, <1>7
  <2>3. EntriesOK /\ r = Unlift(p, a)
    OBVIOUS
  <2> QED  BY ONLY <1>6, <2>1, <2>2, <2>3, UnliftIs
<1>10. ListOf(q, S) /\ Untouched(p, q, nodes, S)
  BY <1>9 DEF ListOf, Linked, Untouched, SameLinks
<1>11. \A l \in 1..m : q.calls[l].entry = p.calls[l].entry
  BY <1>3
<1>12. Left(key, q, m) = S
  BY <1>4, <1>11, LeftSame
<1>13. ASSUME NEW j \in 1..m PROVE Lifted(key, q, j)
  <2>1. Lifted(key, p, j)
    BY <1>2 DEF SearchOK
  <2>2. Untouched(p, q, Nodes(key), Left(key, p, m))
    BY <1>4, <1>10
  <2> QED  BY <1>11, <2>1, <2>2, LiftedStays
<1>14. q.linearized = {entries[q.calls[j].entry].id : j \in 1..m}
  <2>1. p.linearized = {entries[p.calls[j].entry].id : j \in 1..(m + 1)}
    BY <1>2 DEF SearchOK
  <2>2. \A j : j \in 1..(m + 1) <=> j \in 1..m \/ j = m + 1
    OBVIOUS
  <2>3. \A j \in 1..m : entries[p.calls[j].entry].id # entries[a].id
    BY <1>4, <1>6 DEF Left
  <2>4. p.linearized \ {entries[a].id} = {entries[p.calls[j].entry].id : j \in 1..m}
    BY <1>6, <2>1, <2>2, <2>3
  <2> QED  BY <1>11, <2>4
<1>15. q.entry \in S
  <2>1. q.entry = NextIn(S, a)
    BY <1>6, <1>9 DEF ListOf, Linked
  <2>2. S \subseteq Nat /\ 0 \notin S
    BY <1>7
  <2>3. NextIn(S, a) \in S
    BY ONLY <1>6, <1>8, <2>2, AfterCall
  <2> QED  BY <2>1, <2>3
<1> QED  BY <1>3, <1>10, <1>12, <1>13, <1>14, <1>15 DEF SearchOK

\* KvModel.Step gives a value of the object.
LEMMA StepType ==
  ASSUME NEW state, state \in Value, NEW op, op \in Op
  PROVE  Step(state, op) \in Value
<1>1. op.kind \in {"get", "put", "append"}
  BY CheckerAssumption
<1>2. op.value \in {o.value : o \in Op}
  OBVIOUS
<1>3. <<op.value>> \in Value /\ Append(state, op.value) \in Value
  BY <1>2, AppendProperties DEF Value
<1> QED  BY <1>1, <1>3 DEF Step

\* TryCall: the operation is taken or passed over.
LEMMA TryCallOK ==
  ASSUME EntriesOK, NEW key, NEW p, SearchOK(key, p), p.st = "run",
         p.entry \in Left(key, p, Len(p.calls)), IsCall(p.entry)
  PROVE  SearchOK(key, TryCall(p))
<1> DEFINE nodes == Nodes(key)
           Call == [entry : nodes, state : Value]
           id == entries[p.entry].id
           set == p.linearized \cup {id}
           state == Step(p.state, history[id])
           r == Lift(p, p.entry)
           call == [entry |-> p.entry, state |-> p.state]
           seen == [linearized |-> set, state |-> state]
           q == [r EXCEPT !.cache = @ \cup {seen}, !.calls = Append(@, call),
                          !.state = state, !.linearized = set, !.entry = r.next[Head0]]
<1>1. PICK m \in Nat : m = Len(p.calls)
  BY DEF SearchOK, SearchState
<1>2. PICK S : S = Left(key, p, m)
  OBVIOUS
<1>3. PICK a : a = p.entry
  OBVIOUS
<1>4. S \subseteq nodes /\ a \in S /\ a \in nodes /\ nodes \subseteq Nat /\ 0 \notin nodes
  BY <1>1, <1>2, <1>3, NodesFacts DEF Left
<1>5. p \in SearchState(nodes) /\ ListOf(p, S)
  BY <1>1, <1>2 DEF SearchOK
<1>6. Match(a) \in S /\ Match(a) \in nodes /\ a < Match(a)
  <2>1. a \in DOMAIN entries /\ IsCall(a)
    BY <1>3, <1>4, NodesFacts
  <2>2. entries[Match(a)].id = entries[a].id
    BY <2>1 DEF EntriesOK
  <2>3. Match(a) \in nodes /\ a < Match(a)
    BY <1>4, <2>1, NodesFacts
  <2> QED  BY <1>2, <1>4, <2>2, <2>3 DEF Left
<1>7. SearchOK(key, Skipped(p))
  <2>1. PICK w : w = Skipped(p)
    OBVIOUS
  <2>2. NextIn(S, a) \in S
    <3>1. S \subseteq Nat /\ 0 \notin S
      BY <1>4
    <3> QED  BY ONLY <1>4, <1>6, <3>1, AfterCall
  <2>3. p.next[a] \in S
    BY <1>4, <1>5, <2>2 DEF ListOf, Linked
  <2>4. /\ w \in SearchState(nodes) /\ w.next = p.next /\ w.prev = p.prev
        /\ w.calls = p.calls /\ w.linearized = p.linearized /\ w.entry \in S
    <3>1. p.next[a] \in Int
      BY <1>4, <2>3
    <3> QED  BY <1>3, <1>5, <2>1, <2>3, <3>1 DEF SearchState, Skipped
  <2> QED  BY <1>1, <1>2, <2>1, <2>4, SearchOKSame
<1>8. SearchOK(key, q)
  <2>1. r \in SearchState(nodes) /\ Kept(p, r)
    <3>1. p \in SearchState(Nodes(key)) /\ S \subseteq Nodes(key) /\ r = Lift(p, a) /\ EntriesOK /\ IsCall(a)
      BY <1>3, <1>4, <1>5
    <3> HIDE DEF r
    <3> QED  BY ONLY <1>4, <1>5, <1>6, <3>1, LiftIs DEF nodes
  <2>2. id \in DOMAIN history /\ history[id] \in Op
    BY <1>3, <1>4, NodesFacts DEF EntriesOK
  <2>3. p.state \in Value /\ p.linearized \in SUBSET DOMAIN history
    BY <1>5 DEF SearchState
  <2>4. state \in Value
    BY <2>2, <2>3, StepType
  <2>5. call \in Call /\ set \in SUBSET DOMAIN history
    BY <1>3, <1>4, <2>2, <2>3
  <2> HIDE DEF r, state, id, set, call
  <2>6. seen \in [linearized : SUBSET DOMAIN history, state : Value]
    BY <2>4, <2>5
  <2>7. /\ r.calls \in Seq(Call) /\ r.next[Head0] \in Int
        /\ r.cache \in SUBSET [linearized : SUBSET DOMAIN history, state : Value]
    BY <2>1 DEF SearchState
  <2>8. Append(r.calls, call) \in Seq(Call)
    <3> HIDE DEF Call
    <3> QED  BY <2>5, <2>7, AppendProperties
  <2> HIDE DEF seen, Call
  <2>9. /\ q.next = r.next /\ q.prev = r.prev /\ q.calls = Append(r.calls, call)
        /\ q.linearized = set /\ q.entry = r.next[Head0] /\ q.state = state
        /\ q.cache = r.cache \cup {seen} /\ q.st = r.st /\ q.result = r.result
        /\ q \in [next : {r.next}, prev : {r.prev}, entry : {r.next[Head0]},
                  calls : {Append(r.calls, call)}, cache : {r.cache \cup {seen}},
                  linearized : {set}, state : {state}, st : {r.st}, result : {r.result}]
    BY <2>1 DEF SearchState
  <2> HIDE DEF q
  <2>10. q \in SearchState(nodes)
    BY <2>1, <2>4, <2>5, <2>6, <2>7, <2>8, <2>9 DEF SearchState, Call
  <2>11. q.calls = Append(p.calls, [entry |-> a, state |-> p.state])
    BY <1>3, <2>1, <2>9 DEF Kept, call
  <2>12. q.linearized = p.linearized \cup {entries[a].id}
    BY <1>3, <2>9 DEF set, id
  <2>13. a \in Left(key, p, Len(p.calls)) /\ IsCall(a) /\ r = Lift(p, a)
    BY <1>3 DEF r
  <2>14. EntriesOK /\ SearchOK(key, p) /\ q \in SearchState(Nodes(key))
    BY <2>10
  <2> QED  BY ONLY <2>3, <2>9, <2>11, <2>12, <2>13, <2>14, TakeOK
<1>9. TryCall(p) = Skipped(p) \/ TryCall(p) = q
  BY DEF TryCall
<1> HIDE DEF q
<1> QED  BY <1>7, <1>8, <1>9

\* Backtrack: the last choice is undone, or there is none and the search fails.
LEMMA BacktrackOK ==
  ASSUME EntriesOK, NEW key, NEW p, SearchOK(key, p)
  PROVE  SearchOK(key, Backtrack(p))
<1> DEFINE nodes == Nodes(key)
           Call == [entry : nodes, state : Value]
           top == p.calls[Len(p.calls)]
           r == Unlift(p, top.entry)
           q == [r EXCEPT !.entry = r.next[top.entry], !.state = top.state,
                          !.linearized = @ \ {entries[top.entry].id},
                          !.calls = SubSeq(@, 1, Len(@) - 1)]
<1>1. p \in SearchState(nodes) /\ p.calls \in Seq(Call)
  BY DEF SearchOK, SearchState
<1>2. CASE p.calls = << >>
  <2>1. PICK w : w = Ended(p, FALSE)
    OBVIOUS
  <2>2. /\ w \in SearchState(nodes) /\ w.next = p.next /\ w.prev = p.prev
        /\ w.calls = p.calls /\ w.linearized = p.linearized /\ w.st # "run"
    BY <1>1, <2>1 DEF SearchState, Ended
  <2>3. SearchOK(key, w)
    BY <2>2, SearchOKSame
  <2> QED  BY <1>2, <2>1, <2>3 DEF Backtrack
<1>3. CASE p.calls # << >>
  <2>1. PICK m \in Nat : Len(p.calls) = m + 1
    <3>1. Len(p.calls) \in Nat /\ Len(p.calls) # 0
      <4> HIDE DEF Call
      <4> QED  BY <1>1, <1>3, EmptySeq
    <3>2. Len(p.calls) - 1 \in Nat /\ Len(p.calls) = (Len(p.calls) - 1) + 1
      BY <3>1
    <3> QED  BY <3>2
  <2>2. top \in Call
    <3>1. Len(p.calls) \in 1..Len(p.calls)
      BY <2>1
    <3> HIDE DEF Call
    <3> QED  BY <1>1, <3>1, ElementOfSeq
  <2>3. PICK a : a = top.entry
    OBVIOUS
  <2>4. PICK S : S = Left(key, p, m)
    OBVIOUS
  <2>5. IsCall(a) /\ a \in S /\ Linked(p, a, S) /\ Linked(p, Match(a), S \ {a})
    <3>1. Lifted(key, p, m + 1) /\ (m + 1) - 1 = m
      BY <2>1 DEF SearchOK
    <3> QED  BY <2>1, <2>3, <2>4, <3>1 DEF Lifted
  <2>6. S \subseteq nodes /\ Match(a) \in S /\ Left(key, p, m + 1) = (S \ {a}) \ {Match(a)}
    <3>1. a = p.calls[m + 1].entry /\ a \in Left(key, p, m) /\ IsCall(a) /\ EntriesOK
      BY <2>1, <2>3, <2>4, <2>5
    <3>2. /\ Left(key, p, m + 1) = (Left(key, p, m) \ {a}) \ {Match(a)}
          /\ Match(a) \in Left(key, p, m) /\ Left(key, p, m) \subseteq Nodes(key)
      BY ONLY m \in Nat, <3>1, LeftNext
    <3> QED  BY <2>4, <3>2
  <2>7. ListOf(p, (S \ {a}) \ {Match(a)})
    BY <2>1, <2>6 DEF SearchOK
  <2>8. r \in SearchState(nodes) /\ Kept(p, r)
    <3>1. p \in SearchState(Nodes(key)) /\ S \subseteq Nodes(key) /\ r = Unlift(p, a) /\ EntriesOK
      BY <1>1, <2>3, <2>6
    <3> HIDE DEF r
    <3> QED  BY ONLY <2>5, <2>6, <2>7, <3>1, UnliftIs DEF nodes
  <2> HIDE DEF r, top
  <2>9. /\ r.calls = p.calls /\ r.linearized = p.linearized
        /\ r.next[a] \in Int /\ top.state \in Value /\ a \in nodes
    <3>1. a \in nodes
      BY <2>5, <2>6
    <3> QED  BY <2>2, <2>8, <3>1 DEF SearchState, Kept
  <2>10. SubSeq(p.calls, 1, Len(p.calls) - 1) \in Seq(Call)
    <3>1. \A i \in 1..m : i \in 1..Len(p.calls)
      BY <2>1
    <3>2. Len(p.calls) - 1 = m /\ 1 \in 1..(Len(p.calls) + 1) /\ m \in 0..Len(p.calls)
      BY <2>1
    <3> HIDE DEF Call
    <3> QED  BY <1>1, <2>1, <3>1, <3>2, SubSeqProperties
  <2> HIDE DEF Call
  <2>11. /\ q.next = r.next /\ q.prev = r.prev /\ q.entry = r.next[a] /\ q.state = top.state
         /\ q.calls = SubSeq(p.calls, 1, Len(p.calls) - 1)
         /\ q.linearized = p.linearized \ {entries[a].id}
         /\ q \in [next : {r.next}, prev : {r.prev}, entry : {r.next[a]},
                   calls : {SubSeq(p.calls, 1, Len(p.calls) - 1)}, cache : {r.cache},
                   linearized : {p.linearized \ {entries[a].id}}, state : {top.state},
                   st : {r.st}, result : {r.result}]
    BY <2>3, <2>8, <2>9 DEF SearchState
  <2> HIDE DEF q
  <2>12. p.linearized \ {entries[a].id} \in SUBSET DOMAIN history
    BY <1>1 DEF SearchState
  <2>13. q \in SearchState(nodes)
    BY <2>8, <2>9, <2>10, <2>11, <2>12 DEF SearchState, Call
  <2>14. /\ EntriesOK /\ SearchOK(key, p) /\ q \in SearchState(Nodes(key)) /\ p.calls # << >>
         /\ a = p.calls[Len(p.calls)].entry /\ r = Unlift(p, a)
    BY <1>3, <2>3, <2>13 DEF top, r
  <2>15. SearchOK(key, q)
    BY ONLY <2>11, <2>14, UndoOK
  <2> QED  BY <1>3, <2>15 DEF Backtrack, q, r, top
<1> QED  BY <1>2, <1>3

\* One iteration of the loop.
LEMMA IterationOK ==
  ASSUME EntriesOK, NEW key, NEW p, SearchOK(key, p), p.st = "run", NEW q,
         q = IF p.next[Head0] = NilNode THEN Ended(p, TRUE)
             ELSE IF kill THEN Ended(p, FALSE)
             ELSE IF IsCall(p.entry) THEN TryCall(p) ELSE Backtrack(p)
  PROVE  SearchOK(key, q)
<1>1. ASSUME NEW result \in BOOLEAN PROVE SearchOK(key, Ended(p, result))
  <2>1. PICK w : w = Ended(p, result)
    OBVIOUS
  <2>2. /\ w \in SearchState(Nodes(key)) /\ w.next = p.next /\ w.prev = p.prev
        /\ w.calls = p.calls /\ w.linearized = p.linearized /\ w.st # "run"
    BY <2>1 DEF SearchOK, SearchState, Ended
  <2>3. SearchOK(key, w)
    BY <2>2, SearchOKSame
  <2> QED  BY <2>1, <2>3
<1>2. SearchOK(key, Backtrack(p))
  BY BacktrackOK
<1>3. ASSUME p.next[Head0] # NilNode, IsCall(p.entry) PROVE SearchOK(key, TryCall(p))
  <2>1. PICK S : S = Left(key, p, Len(p.calls))
    OBVIOUS
  <2>2. S \subseteq Nat /\ 0 \notin S
    BY <2>1, NodesFacts DEF Left
  <2>3. p.next[Head0] = NextIn(S, Head0)
    BY <2>1 DEF SearchOK, ListOf
  <2>4. S # {}
    BY <1>3, <2>2, <2>3, AfterHead
  <2>5. p.entry \in S
    BY <2>1, <2>4 DEF SearchOK
  <2> QED  BY <1>3, <2>1, <2>5, TryCallOK
<1>4. SearchOK(key, Ended(p, TRUE)) /\ SearchOK(key, Ended(p, FALSE))
  BY <1>1
<1> QED  BY <1>2, <1>3, <1>4

\* The invariant of a search reads the history only.
LEMMA SameHistory ==
  ASSUME entries' = entries, history' = history
  PROVE  /\ EntriesOK => EntriesOK'
         /\ \A key, p : SearchOK(key, p) => SearchOK(key, p)'
<1>1. EntriesOK => EntriesOK'
  <2>1. \A k : Match(k)' = Match(k) /\ (IsCall(k)' <=> IsCall(k))
    BY DEF IsCall, Match
  <2> QED  BY <2>1 DEF EntriesOK
<1>2. \A key : Nodes(key)' = Nodes(key)
  BY DEF Nodes, NodesOf
<1>3. \A nodes : SearchState(nodes)' = SearchState(nodes)
  BY DEF SearchState
<1>4. ASSUME NEW key, NEW p PROVE SearchOK(key, p) => SearchOK(key, p)'
  <2>1. \A j : Left(key, p, j)' = Left(key, p, j)
    BY <1>2 DEF Left
  <2>2. \A j : Lifted(key, p, j)' <=> Lifted(key, p, j)
    BY <2>1 DEF Lifted, IsCall, Match, Linked
  <2>3. \A S : ListOf(p, S)' <=> ListOf(p, S)
    BY DEF ListOf, Linked
  <2> QED  BY <1>2, <1>3, <2>1, <2>2, <2>3 DEF SearchOK
<1> QED  BY <1>1, <1>4

\* Every step keeps the lists of all searches.
LEMMA ListInvNext ==
  ASSUME ListInv, [Next]_vars
  PROVE  ListInv'
<1>1. ASSUME NEW key \in DOMAIN search, Iterate(key) PROVE ListInv'
  <2>1. entries' = entries /\ history' = history
    BY <1>1 DEF Iterate
  <2>2. PICK q : q = IF search[key].next[Head0] = NilNode THEN Ended(search[key], TRUE)
                     ELSE IF kill THEN Ended(search[key], FALSE)
                     ELSE IF IsCall(search[key].entry) THEN TryCall(search[key])
                     ELSE Backtrack(search[key])
    OBVIOUS
  <2>3. search' = [search EXCEPT ![key] = q] /\ search[key].st = "run"
    BY <1>1, <2>2 DEF Iterate
  <2>4. EntriesOK /\ SearchOK(key, search[key])
    BY DEF ListInv
  <2>5. PICK p : p = search[key]
    OBVIOUS
  <2>6. SearchOK(key, q)
    <3>1. /\ EntriesOK /\ SearchOK(key, p) /\ p.st = "run"
          /\ q = IF p.next[Head0] = NilNode THEN Ended(p, TRUE)
                 ELSE IF kill THEN Ended(p, FALSE)
                 ELSE IF IsCall(p.entry) THEN TryCall(p) ELSE Backtrack(p)
      BY <2>2, <2>3, <2>4, <2>5
    <3> QED  BY ONLY <3>1, IterationOK
  <2>7. EntriesOK' /\ \A k, s : SearchOK(k, s) => SearchOK(k, s)'
    BY <2>1, <2>4, SameHistory
  <2>8. ASSUME NEW k \in DOMAIN search PROVE SearchOK(k, search[k])'
    <3>1. PICK s : s = search'[k]
      OBVIOUS
    <3>2. SearchOK(k, s)
      BY <2>3, <2>6, <3>1 DEF ListInv
    <3>3. SearchOK(k, s)'
      BY <2>7, <3>2
    <3> QED  BY <3>1, <3>3
  <2> QED  BY <2>3, <2>7, <2>8 DEF ListInv
<1>2. ASSUME NEW key \in DOMAIN search, Result(key) PROVE ListInv'
  <2>1. entries' = entries /\ history' = history /\ search' = [search EXCEPT ![key].st = "sent"]
    BY <1>2 DEF Result
  <2>2. PICK q : q = [search[key] EXCEPT !.st = "sent"]
    OBVIOUS
  <2>3. search' = [search EXCEPT ![key] = q]
    BY <2>1, <2>2
  <2>4. EntriesOK /\ SearchOK(key, search[key])
    BY DEF ListInv
  <2>5. PICK p : p = search[key]
    OBVIOUS
  <2>6. SearchOK(key, q)
    <3>1. p \in SearchState(Nodes(key)) /\ SearchOK(key, p)
      BY <2>4, <2>5 DEF SearchOK
    <3>2. /\ q \in SearchState(Nodes(key)) /\ q.next = p.next /\ q.prev = p.prev
          /\ q.calls = p.calls /\ q.linearized = p.linearized /\ q.st # "run"
      BY <2>2, <2>5, <3>1 DEF SearchState
    <3> QED  BY <3>1, <3>2, SearchOKSame
  <2>7. EntriesOK' /\ \A k, s : SearchOK(k, s) => SearchOK(k, s)'
    BY <2>1, <2>4, SameHistory
  <2>8. ASSUME NEW k \in DOMAIN search PROVE SearchOK(k, search[k])'
    <3>1. PICK s : s = search'[k]
      OBVIOUS
    <3>2. SearchOK(k, s)
      BY <2>3, <2>6, <3>1 DEF ListInv
    <3>3. SearchOK(k, s)'
      BY <2>7, <3>2
    <3> QED  BY <3>1, <3>3
  <2> QED  BY <2>3, <2>7, <2>8 DEF ListInv
<1>3. CASE TimeOut \/ UNCHANGED vars
  <2>1. entries' = entries /\ history' = history /\ search' = search
    BY <1>3 DEF TimeOut, vars
  <2>2. EntriesOK' /\ \A k, s : SearchOK(k, s) => SearchOK(k, s)'
    BY <2>1, SameHistory DEF ListInv
  <2>3. ASSUME NEW k \in DOMAIN search PROVE SearchOK(k, search[k])'
    <3>1. PICK s : s = search'[k]
      OBVIOUS
    <3>2. SearchOK(k, s)
      BY <2>1, <3>1 DEF ListInv
    <3>3. SearchOK(k, s)'
      BY <2>2, <3>2
    <3> QED  BY <3>1, <3>3
  <2> QED  BY <2>1, <2>2, <2>3 DEF ListInv
<1> QED  BY <1>1, <1>2, <1>3 DEF Next

-----------------------------------------------------------------------------
(* The lists as makeLinkedEntries makes them.                              *)

\* The events of n operations are finitely many.
LEMMA EventsFinite ==
  ASSUME NEW n \in Nat
  PROVE  IsFiniteSet({CallOf(id) : id \in 1..n} \cup {ReturnOf(id) : id \in 1..n})
<1> DEFINE calls == {CallOf(id) : id \in 1..n}
           returns == {ReturnOf(id) : id \in 1..n}
           c == [id \in 1..n |-> CallOf(id)]
           r == [id \in 1..n |-> ReturnOf(id)]
<1>1. IsFiniteSet(1..n)
  BY FS_Interval
<1>2. c \in Surjection(1..n, calls) /\ r \in Surjection(1..n, returns)
  BY DEF Surjection
<1> HIDE DEF calls, returns, c, r
<1>3. IsFiniteSet(calls) /\ IsFiniteSet(returns)
  BY <1>1, <1>2, FS_Surjection
<1>4. IsFiniteSet(calls \cup returns)
  BY <1>3, FS_Union
<1> QED  BY <1>4 DEF calls, returns

\* A sequence of all the events has each of them at one place.
LEMMA OrderFacts ==
  ASSUME NEW n \in Nat, NEW es, es \in Orders(n)
  PROVE  /\ \E len \in Nat : DOMAIN es = 1..len
         /\ \A k \in DOMAIN es : \E id \in 1..n : es[k] = CallOf(id) \/ es[k] = ReturnOf(id)
         /\ \A k, l \in DOMAIN es : es[k] = es[l] => k = l
         /\ \A id \in 1..n : \E k, l \in DOMAIN es :
              es[k] = CallOf(id) /\ es[l] = ReturnOf(id) /\ k < l
<1> DEFINE E == {CallOf(id) : id \in 1..n} \cup {ReturnOf(id) : id \in 1..n}
           pos(e) == Position(es, e)
<1>1. IsFiniteSet(E)
  BY EventsFinite
<1>2. PICK len \in Nat : len = Cardinality(E)
  BY <1>1, FS_CardinalityType
<1>3. es \in SetToSeqs(E) /\ \A id \in 1..n : pos(CallOf(id)) < pos(ReturnOf(id))
  BY DEF Orders
<1>4. es \in [1..len -> E] /\ \A k, l \in 1..len : es[k] = es[l] => k = l
  <2> HIDE DEF E
  <2> QED  BY <1>2, <1>3 DEF SetToSeqs
<1>5. \A e \in E : \E k \in 1..len : es[k] = e
  <2> HIDE DEF E
  <2>1. es \in Injection(1..len, E)
    BY <1>4 DEF Injection, IsInjective
  <2>2. Cardinality(1..len) = Cardinality(E)
    BY <1>2, FS_Interval
  <2>3. es \in Surjection(1..len, E)
    BY <1>1, <2>1, <2>2, FS_Injection
  <2> QED  BY <2>3 DEF Surjection
<1>6. DOMAIN es = 1..len
  BY <1>4
<1>7. \A k \in DOMAIN es : \E id \in 1..n : es[k] = CallOf(id) \/ es[k] = ReturnOf(id)
  BY <1>4, <1>6
<1>8. ASSUME NEW id \in 1..n
      PROVE  \E k, l \in DOMAIN es : es[k] = CallOf(id) /\ es[l] = ReturnOf(id) /\ k < l
  <2>1. CallOf(id) \in E /\ ReturnOf(id) \in E
    OBVIOUS
  <2>2. PICK k \in DOMAIN es : es[k] = CallOf(id)
    BY <1>5, <1>6, <2>1
  <2>3. PICK l \in DOMAIN es : es[l] = ReturnOf(id)
    BY <1>5, <1>6, <2>1
  <2>4. pos(CallOf(id)) \in DOMAIN es /\ es[pos(CallOf(id))] = CallOf(id)
    BY <2>2 DEF Position
  <2>5. pos(ReturnOf(id)) \in DOMAIN es /\ es[pos(ReturnOf(id))] = ReturnOf(id)
    BY <2>3 DEF Position
  <2>6. pos(CallOf(id)) < pos(ReturnOf(id))
    BY <1>3
  <2> HIDE DEF pos
  <2> QED  BY <2>4, <2>5, <2>6
<1> QED  BY <1>4, <1>6, <1>7, <1>8

\* makeEntries gives every call its return.
LEMMA InitEntries ==
  ASSUME Init
  PROVE  EntriesOK
<1>1. PICK n \in 1..MaxOps : history \in [1..n -> Op] /\ entries \in Orders(n)
  BY DEF Init
<1>2. n \in Nat
  OBVIOUS
<1>3. /\ \E len \in Nat : DOMAIN entries = 1..len
      /\ \A k \in DOMAIN entries : \E id \in 1..n : entries[k] = CallOf(id) \/ entries[k] = ReturnOf(id)
      /\ \A k, l \in DOMAIN entries : entries[k] = entries[l] => k = l
      /\ \A id \in 1..n : \E k, l \in DOMAIN entries :
           entries[k] = CallOf(id) /\ entries[l] = ReturnOf(id) /\ k < l
  BY <1>1, <1>2, OrderFacts
<1>4. ASSUME NEW k \in DOMAIN entries
      PROVE  /\ entries[k].id \in DOMAIN history /\ history[entries[k].id] \in Op
             /\ IsCall(k) =>
                  /\ Match(k) \in DOMAIN entries /\ k < Match(k)
                  /\ entries[Match(k)].id = entries[k].id
                  /\ \A m \in DOMAIN entries : entries[m].id = entries[k].id => m \in {k, Match(k)}
  <2>1. PICK id \in 1..n : entries[k] = CallOf(id) \/ entries[k] = ReturnOf(id)
    BY <1>3
  <2>2. entries[k].id = id /\ id \in DOMAIN history /\ history[id] \in Op
    BY <1>1, <2>1 DEF CallOf, ReturnOf
  <2>3. ASSUME IsCall(k)
        PROVE  /\ Match(k) \in DOMAIN entries /\ k < Match(k)
               /\ entries[Match(k)].id = entries[k].id
               /\ \A m \in DOMAIN entries : entries[m].id = entries[k].id => m \in {k, Match(k)}
    <3>1. entries[k] = CallOf(id)
      BY <2>1, <2>3 DEF IsCall, CallOf, ReturnOf
    <3>2. PICK c \in DOMAIN entries, l \in DOMAIN entries :
            entries[c] = CallOf(id) /\ entries[l] = ReturnOf(id) /\ c < l
      BY <1>3
    <3>3. c = k
      BY <1>3, <3>1, <3>2
    <3>4. Match(k) \in DOMAIN entries /\ entries[Match(k)] = ReturnOf(id)
      BY <2>2, <3>2 DEF Match
    <3>5. Match(k) = l
      BY <1>3, <3>2, <3>4
    <3>6. entries[l].id = id
      BY <3>2 DEF ReturnOf
    <3>7. ASSUME NEW m \in DOMAIN entries, entries[m].id = id PROVE m \in {k, l}
      <4>1. PICK o \in 1..n : entries[m] = CallOf(o) \/ entries[m] = ReturnOf(o)
        BY <1>3
      <4>2. o = id
        BY <3>7, <4>1 DEF CallOf, ReturnOf
      <4> QED  BY <1>3, <3>1, <3>2, <4>1, <4>2
    <3> QED  BY <2>2, <3>2, <3>3, <3>5, <3>6, <3>7
  <2> QED  BY <2>2, <2>3
<1> QED  BY <1>3, <1>4 DEF EntriesOK

\* At first nothing is lifted.
LEMMA InitSearch ==
  ASSUME EntriesOK, NEW key
  PROVE  SearchOK(key, NewSearch(history, entries, key))
<1> DEFINE nodes == Nodes(key)
           nx == [k \in nodes \cup {Head0} |-> Least({n \in nodes : n > k})]
           pv == [k \in nodes |-> Greatest({n \in nodes : n < k})]
<1>1. nodes \subseteq Nat /\ 0 \notin nodes
  BY NodesFacts
<1>2. PICK p : p = NewSearch(history, entries, key)
  OBVIOUS
<1>3. p = [next |-> nx, prev |-> pv, entry |-> nx[Head0], calls |-> << >>, cache |-> {},
           linearized |-> {}, state |-> << >>, st |-> "run", result |-> FALSE]
  BY <1>2 DEF NewSearch, LinkedEntries, Nodes
<1> HIDE DEF nodes
<1>4. /\ \A k \in nodes \cup {Head0} : nx[k] = NextIn(nodes, k)
      /\ \A k \in nodes : pv[k] = PrevIn(nodes, k)
  BY DEF NextIn, PrevIn
<1>5. \A k \in nodes \cup {Head0} : NextIn(nodes, k) \in Int /\ PrevIn(nodes, k) \in Int
  <2>1. ASSUME NEW k \in nodes \cup {Head0} PROVE NextIn(nodes, k) \in Int /\ PrevIn(nodes, k) \in Int
    <3>1. k \in Nat
      BY <1>1 DEF Head0
    <3>2. NextIn(nodes, k) \in nodes \cup {NilNode} /\ PrevIn(nodes, k) \in nodes \cup {Head0}
      BY <1>1, <3>1, Neighbours
    <3>3. \A x \in nodes \cup {NilNode, Head0} : x \in Int
      BY <1>1 DEF Head0, NilNode
    <3> QED  BY <3>2, <3>3
  <2> QED  BY <2>1
<1>6. nx \in [nodes \cup {Head0} -> Int] /\ pv \in [nodes -> Int] /\ nx[Head0] \in Int
  BY <1>4, <1>5
<1> HIDE DEF nx, pv
<1>7. << >> \in Value /\ << >> \in Seq([entry : nodes, state : Value])
  BY DEF Value
<1>8. p \in SearchState(nodes)
  BY <1>3, <1>6, <1>7 DEF SearchState
<1>9. p.calls = << >> /\ Len(p.calls) = 0 /\ p.linearized = {} /\ p.entry = nx[Head0]
      /\ p.next = nx /\ p.prev = pv
  BY <1>3
<1>10. Left(key, p, 0) = nodes
  BY DEF Left, nodes
<1>11. ListOf(p, nodes)
  BY <1>4, <1>9 DEF ListOf, Linked
<1>12. nodes # {} => p.entry \in nodes
  BY <1>1, <1>4, <1>9, AfterHead
<1>13. p.linearized = {entries[p.calls[j].entry].id : j \in 1..Len(p.calls)}
  BY <1>9
<1>14. \A j \in 1..Len(p.calls) : Lifted(key, p, j)
  BY <1>9
<1>15. p \in SearchState(Nodes(key))
  BY <1>8 DEF nodes
<1>16. SearchOK(key, p)
  BY <1>9, <1>10, <1>11, <1>12, <1>13, <1>14, <1>15 DEF SearchOK
<1> QED  BY <1>2, <1>16

\* The invariant holds at first.
LEMMA ListInvInit ==
  ASSUME Init
  PROVE  ListInv
<1>1. EntriesOK
  BY InitEntries
<1>2. \A key : SearchOK(key, NewSearch(history, entries, key))
  BY <1>1, InitSearch
<1>3. search = [key \in KeysOf(history) |-> NewSearch(history, entries, key)]
  BY DEF Init
<1>4. \A key \in DOMAIN search : search[key] = NewSearch(history, entries, key)
  BY <1>3
<1> QED  BY <1>1, <1>2, <1>4 DEF ListInv

-----------------------------------------------------------------------------
(* What a walk from headEntry visits.                                      *)

\* Some of the nodes are linked by next.
Follows(nodes, S, next) ==
  /\ IsFiniteSet(nodes) /\ S \subseteq nodes /\ S \subseteq Nat /\ 0 \notin S
  /\ \A k \in S \cup {Head0} : next[k] = NextIn(S, k)

\* The places of a walk at, and that it goes along next.
Visited(at, len) == {at[i] : i \in 0..len} \ {NilNode}

Walks(at, next, len) ==
  \A i \in 0..len : at[i] = IF i = 0 THEN Head0
                            ELSE IF at[i - 1] = NilNode THEN NilNode ELSE next[at[i - 1]]

\* A walk along the list of the nodes in S visits these and no other.
LEMMA WalkVisits ==
  ASSUME NEW nodes, NEW S, NEW next, Follows(nodes, S, next),
         NEW len, len = Cardinality(nodes), NEW at, Walks(at, next, len)
  PROVE  Visited(at, len) = S \cup {Head0}
<1>0. /\ IsFiniteSet(nodes) /\ S \subseteq nodes /\ S \subseteq Nat /\ 0 \notin S
      /\ \A k \in S \cup {Head0} : next[k] = NextIn(S, k)
  BY DEF Follows
<1> USE <1>0
<1>1. len \in Nat
  BY FS_CardinalityType
<1>2. at[0] = Head0 /\ \A i \in 1..len : at[i] = IF at[i - 1] = NilNode THEN NilNode ELSE next[at[i - 1]]
  <2>1. 0 \in 0..len /\ \A i \in 1..len : i \in 0..len /\ i # 0
    BY <1>1
  <2> QED  BY <2>1 DEF Walks
<1>3. \A k \in S \cup {Head0} : k \in Nat /\ next[k] \in S \cup {NilNode}
  <2>1. ASSUME NEW k \in S \cup {Head0} PROVE k \in Nat /\ next[k] \in S \cup {NilNode}
    <3>1. k \in Nat
      BY DEF Head0
    <3>2. NextIn(S, k) \in S \cup {NilNode}
      BY <3>1, Neighbours
    <3> QED  BY <3>1, <3>2
  <2> QED  BY <2>1
<1>4. \A i \in 0..len : at[i] \in S \cup {Head0, NilNode}
  <2> DEFINE T == {i \in 0..len : at[i] \in S \cup {Head0, NilNode}}
  <2>1. 0 \in T
    BY <1>1, <1>2
  <2>2. ASSUME NEW i \in 1..len, i - 1 \in T PROVE i \in T
    <3>1. i \in 0..len /\ at[i - 1] \in S \cup {Head0, NilNode}
      BY <1>1, <2>2
    <3>2. at[i] \in S \cup {Head0, NilNode}
      BY <1>2, <1>3, <3>1
    <3> QED  BY <3>1, <3>2
  <2> HIDE DEF T
  <2>3. 0..len \subseteq T
    BY <1>1, <2>1, <2>2, UpToBound
  <2> QED  BY <2>3 DEF T
<1>5. ASSUME NEW r \in S PROVE \E i \in 0..len : at[i] = r
  <2>1. SUFFICES ASSUME \A i \in 0..len : at[i] # r PROVE FALSE
    OBVIOUS
  <2>2. r \in Nat /\ r > 0
    OBVIOUS
  \* up to r the walk only climbs
  <2> DEFINE Climbs(i) == /\ at[i] \in S \cup {Head0} /\ at[i] < r
                          /\ \A l \in 0..i : l < i => at[l] < at[i]
             T == {i \in 0..len : \A l \in 0..i : Climbs(l)}
  <2>3. 0 \in T
    <3>1. Climbs(0)
      BY <1>2, <2>2 DEF Head0
    <3>2. \A l \in 0..0 : l = 0
      OBVIOUS
    <3> HIDE DEF Climbs
    <3> QED  BY <1>1, <3>1, <3>2
  <2>4. ASSUME NEW i \in 1..len, i - 1 \in T PROVE i \in T
    <3>1. PICK j \in Nat : j = i - 1
      BY <1>1
    <3>2. i \in 0..len /\ j \in 0..len /\ j \in 0..j
      BY <1>1, <3>1
    <3>3. \A l \in 0..j : Climbs(l)
      BY <2>4, <3>1
    <3>4. at[j] \in S \cup {Head0} /\ at[j] < r /\ \A l \in 0..j : l < j => at[l] < at[j]
      BY <3>2, <3>3
    <3>5. at[j] \in Nat /\ at[j] # NilNode
      <4>1. at[j] \in Nat
        BY <1>3, <3>4
      <4> QED  BY <4>1 DEF NilNode
    <3>6. at[i] = NextIn(S, at[j])
      BY <1>2, <3>1, <3>4, <3>5
    <3>7. at[i] \in S /\ at[i] > at[j] /\ at[i] <= r
      <4>1. ~(r <= at[j])
        BY <2>2, <3>4, <3>5
      <4>2. r > at[j]
        BY <2>2, <3>4, <3>5
      <4>3. PICK x : x = NextIn(S, at[j])
        OBVIOUS
      <4>4. \/ x = NilNode /\ \A n \in S : n <= at[j]
            \/ x \in S /\ x > at[j] /\ \A n \in S : n > at[j] => x <= n
        BY <3>5, <4>3, Neighbours
      <4> QED  BY <3>6, <4>1, <4>2, <4>3, <4>4
    <3>8. at[i] \in Nat /\ at[i] < r
      <4>1. at[i] \in Nat /\ at[i] # r
        BY <2>1, <3>2, <3>7
      <4> QED  BY <2>2, <3>7, <4>1
    <3>9. ASSUME NEW l \in 0..i, l < i PROVE at[l] < at[i]
      <4>1. l \in 0..j /\ (l = j \/ l < j)
        BY <1>1, <3>1, <3>9
      <4>2. at[l] \in Nat
        BY <1>3, <3>3, <4>1
      <4>3. at[l] = at[j] \/ at[l] < at[j]
        BY <3>4, <4>1
      <4> QED  BY <3>5, <3>7, <3>8, <4>2, <4>3
    <3>10. Climbs(i)
      BY <3>7, <3>8, <3>9
    <3>11. \A l \in 0..i : l \in 0..j \/ l = i
      BY <3>1
    <3> HIDE DEF Climbs
    <3> QED  BY <3>2, <3>3, <3>10, <3>11
  <2>5. 0..len \subseteq T
    <3> HIDE DEF T
    <3> QED  BY <1>1, <2>3, <2>4, UpToBound
  <2>6. \A i \in 0..len : Climbs(i)
    <3>1. ASSUME NEW i \in 0..len PROVE Climbs(i)
      <4>1. i \in T /\ i \in 0..i
        BY <1>1, <2>5
      <4> HIDE DEF Climbs
      <4> QED  BY <4>1
    <3> QED  BY <3>1
  \* so it finds a new node at each of len steps, and never r
  <2> DEFINE f == [i \in 1..len |-> at[i]]
  <2>7. ASSUME NEW i \in 1..len PROVE at[i] \in nodes \ {r}
    <3>1. i \in 0..len /\ 0 \in 0..i /\ 0 < i
      BY <1>1
    <3>2. Climbs(i)
      BY <2>6, <3>1
    <3>3. at[0] < at[i]
      BY <3>1, <3>2
    <3>4. at[i] # Head0
      BY <1>2, <3>3 DEF Head0
    <3> QED  BY <2>1, <3>1, <3>2, <3>4
  <2>8. \A i, l \in 1..len : i # l => at[i] # at[l]
    <3>1. ASSUME NEW i \in 1..len, NEW l \in 1..len, l < i PROVE at[i] # at[l]
      <4>1. i \in 0..len /\ l \in 0..i
        BY <1>1, <3>1
      <4>2. Climbs(i)
        BY <2>6, <4>1
      <4>3. at[l] < at[i] /\ at[i] \in Nat
        BY <1>3, <3>1, <4>1, <4>2
      <4> QED  BY <4>3
    <3>2. \A i, l \in 1..len : i # l => i < l \/ l < i
      BY <1>1
    <3> QED  BY <3>1, <3>2
  <2>9. IsFiniteSet(nodes \ {r}) /\ Cardinality(nodes \ {r}) = len - 1
    BY FS_RemoveElement
  <2>10. IsFiniteSet(1..len) /\ Cardinality(1..len) = len
    BY <1>1, FS_Interval
  <2>11. f \in [1..len -> nodes \ {r}]
    BY <2>7
  <2> HIDE DEF f
  <2>12. PICK x \in 1..len, y \in 1..len : x # y /\ f[x] = f[y]
    <3>1. Cardinality(nodes \ {r}) < Cardinality(1..len)
      BY <1>1, <2>9, <2>10
    <3>2. PICK D : D = 1..len
      OBVIOUS
    <3>3. PICK R : R = nodes \ {r}
      OBVIOUS
    <3>4. IsFiniteSet(D) /\ IsFiniteSet(R) /\ Cardinality(R) < Cardinality(D) /\ f \in [D -> R]
      BY <2>9, <2>10, <2>11, <3>1, <3>2, <3>3
    <3>5. \E x, y \in D : x # y /\ f[x] = f[y]
      BY ONLY <3>4, FS_PigeonHole
    <3> QED  BY <3>2, <3>5
  <2> QED  BY <2>8, <2>12 DEF f
<1>6. Head0 # NilNode /\ \A r \in S : r # NilNode
  BY DEF Head0, NilNode
<1>7. 0 \in 0..len
  BY <1>1
<1>8. \A x \in S \cup {Head0} : x \in Visited(at, len)
  BY <1>2, <1>5, <1>6, <1>7 DEF Visited
<1>9. \A x \in Visited(at, len) : x \in S \cup {Head0}
  BY <1>4 DEF Visited
<1> QED  BY <1>8, <1>9

\* A walk along next exists, whatever follows a node: it is what Chain collects.
LEMMA ChainIs ==
  ASSUME NEW p, IsFiniteSet(DOMAIN p.prev), NEW S, S \subseteq DOMAIN p.prev, S \subseteq Nat,
         0 \notin S, \A k \in S \cup {Head0} : p.next[k] = NextIn(S, k)
  PROVE  Chain(p, Head0) = S \cup {Head0}
<1> DEFINE len == Cardinality(DOMAIN p.prev)
           Places == S \cup {Head0, NilNode}
           After(x) == IF x \in S \cup {Head0} THEN p.next[x] ELSE NilNode
           step == [x \in Places \X (1..len) |-> After(x[1])]
           Walk(g) == [k \in 0..len |-> IF k = 0 THEN Head0
                                        ELSE IF g[k - 1] = NilNode THEN NilNode ELSE p.next[g[k - 1]]]
           at == CHOOSE g : g = Walk(g)
<1>1. Chain(p, Head0) = Visited(at, len)
  BY DEF Chain, Visited
<1>2. len \in Nat
  BY FS_CardinalityType
<1> HIDE DEF len
<1>3. \A x : After(x) \in Places
  <2>1. ASSUME NEW x \in S \cup {Head0} PROVE p.next[x] \in Places
    <3>1. x \in Nat
      BY DEF Head0
    <3>2. NextIn(S, x) \in S \cup {NilNode}
      BY <3>1, Neighbours
    <3> QED  BY <3>2
  <2> QED  BY <2>1
<1> HIDE DEF After
<1>4. step \in [Places \X (1..len) -> Places]
  BY <1>3
<1>5. PICK f \in [0..len -> Places] : f[0] = Head0 /\ \A i \in 1..len : f[i] = step[<<f[i - 1], i>>]
  <2>1. PICK P : P = Places
    OBVIOUS
  <2>2. PICK first : first = Head0
    OBVIOUS
  <2>3. PICK turn : turn = step
    OBVIOUS
  <2>4. first \in P
    BY <2>1, <2>2
  <2>5. LoopBody(turn, P, len)
    BY <1>4, <2>1, <2>3 DEF LoopBody
  <2> HIDE DEF step, Places
  <2>6. \E f : LoopStates(f, turn, P, first, len)
    BY ONLY <1>2, <2>4, <2>5, RecursionExists
  <2> QED  BY <2>1, <2>2, <2>3, <2>6 DEF LoopStates
<1>6. ASSUME NEW i \in 1..len
      PROVE  f[i] = IF f[i - 1] = NilNode THEN NilNode ELSE p.next[f[i - 1]]
  <2>1. i - 1 \in 0..len
    BY <1>2
  <2>2. f[i - 1] \in Places
    BY <2>1
  <2> HIDE DEF Places
  <2>3. <<f[i - 1], i>> \in Places \X (1..len)
    BY <2>2
  <2>4. f[i] = After(f[i - 1])
    BY <1>5, <2>3
  <2>5. NilNode \notin S \cup {Head0}
    BY DEF NilNode, Head0
  <2> QED  BY <2>2, <2>4, <2>5 DEF After, Places
<1> HIDE DEF step, Places
<1>7. f = Walk(f)
  <2>1. ASSUME NEW i \in 0..len PROVE f[i] = Walk(f)[i]
    <3>1. CASE i = 0
      BY <1>5, <3>1
    <3>2. CASE i # 0
      <4>1. i \in 1..len
        BY <1>2, <3>2
      <4> QED  BY <1>6, <3>2, <4>1
    <3> QED  BY <3>1, <3>2
  <2> QED  BY <2>1
<1>8. at = Walk(at)
  <2> HIDE DEF Walk
  <2> QED  BY <1>7
<1> HIDE DEF at
<1>9. Walks(at, p.next, len)
  BY <1>8 DEF Walks
<1>10. PICK nodes : nodes = DOMAIN p.prev
  OBVIOUS
<1>11. PICK next : next = p.next
  OBVIOUS
<1>12. Visited(at, len) = S \cup {Head0}
  <2>1. Follows(nodes, S, next)
    BY <1>10, <1>11 DEF Follows
  <2>2. len = Cardinality(nodes)
    BY <1>10 DEF len
  <2>3. Walks(at, next, len)
    BY <1>9, <1>11
  <2> QED  BY ONLY <2>1, <2>2, <2>3, WalkVisits
<1> QED  BY <1>1, <1>12

\* What the invariant says of the list is what ListIsRest says.
LEMMA ListInvImplies ==
  ASSUME ListInv
  PROVE  ListIsRest
<1> DEFINE Rest(key) == {k \in NodesOf(history, entries, key) : entries[k].id \notin search[key].linearized}
<1>1. SUFFICES ASSUME NEW key \in DOMAIN search
               PROVE  /\ Chain(search[key], Head0) = Rest(key) \cup {Head0}
                      /\ \A k \in Rest(key) \cup {Head0} :
                           /\ search[key].next[k] = Least({n \in Rest(key) : n > k})
                           /\ k \in Rest(key) => search[key].prev[k] = Greatest({n \in Rest(key) : n < k})
                      /\ search[key].st = "run" /\ Rest(key) # {} => search[key].entry \in Rest(key)
  BY DEF ListIsRest
<1>2. PICK p : p = search[key]
  OBVIOUS
<1>3. PICK S : S = Left(key, p, Len(p.calls))
  OBVIOUS
<1>4. EntriesOK /\ SearchOK(key, p)
  BY <1>2 DEF ListInv
<1>5. Rest(key) = S
  <2>1. p.linearized = {entries[p.calls[j].entry].id : j \in 1..Len(p.calls)}
    BY <1>4 DEF SearchOK
  <2>2. Rest(key) = {k \in Nodes(key) : entries[k].id \notin p.linearized}
    BY <1>2 DEF Nodes
  <2> QED  BY <1>3, <2>1, <2>2 DEF Left
<1> HIDE DEF Rest
<1>6. S \subseteq Nodes(key) /\ Nodes(key) \subseteq Nat /\ 0 \notin Nodes(key) /\ IsFiniteSet(Nodes(key))
  <2>1. PICK len \in Nat : DOMAIN entries = 1..len
    BY <1>4 DEF EntriesOK
  <2>2. IsFiniteSet(1..len)
    BY <2>1, FS_Interval
  <2>3. Nodes(key) \in SUBSET (1..len)
    BY <2>1 DEF Nodes, NodesOf
  <2>4. IsFiniteSet(Nodes(key))
    BY <2>2, <2>3, FS_Subset
  <2> QED  BY <1>3, <1>4, <2>4, NodesFacts DEF Left
<1>7. DOMAIN p.prev = Nodes(key)
  BY <1>4 DEF SearchOK, SearchState
<1>8. p.next[Head0] = NextIn(S, Head0) /\ \A k \in S : p.next[k] = NextIn(S, k) /\ p.prev[k] = PrevIn(S, k)
  BY <1>3, <1>4 DEF SearchOK, ListOf, Linked
<1>9. Chain(p, Head0) = S \cup {Head0}
  <2>1. /\ IsFiniteSet(DOMAIN p.prev) /\ S \subseteq DOMAIN p.prev /\ S \subseteq Nat /\ 0 \notin S
        /\ \A k \in S \cup {Head0} : p.next[k] = NextIn(S, k)
    BY <1>6, <1>7, <1>8
  <2> QED  BY ONLY <2>1, ChainIs
<1>10. p.st = "run" /\ S # {} => p.entry \in S
  BY <1>3, <1>4 DEF SearchOK
<1> QED  BY <1>2, <1>5, <1>8, <1>9, <1>10 DEF NextIn, PrevIn

-----------------------------------------------------------------------------
\* However many operations a history has, on however many keys, and however the
\* goroutines of checkSingle take operations and give them back: what lift and
\* unlift do to the list is exactly to remove and to restore the operations that
\* are linearized.
THEOREM ListKept == FairSpec => []ListIsRest
<1>1. Init => ListInv
  BY ListInvInit
<1>2. ListInv /\ [Next]_vars => ListInv'
  BY ListInvNext
<1>3. ListInv => ListIsRest
  BY ListInvImplies
<1> QED  BY <1>1, <1>2, <1>3, PTL DEF FairSpec
=============================================================================
