---------------------------- MODULE VerdictProofs ----------------------------
(***************************************************************************)
(* The verdict of the checker is right, for histories of any length over   *)
(* any number of keys: checkSingle tries every order of the operations on  *)
(* a key in spite of its cache, and orders that were found for each key    *)
(* alone can be merged into one.                                           *)
(***************************************************************************)
EXTENDS LinearizabilityProofs

CallAt(id) == Position(entries, CallOf(id))
ReturnAt(id) == Position(entries, ReturnOf(id))

\* The operations, and where their calls and returns are.
TimesOK ==
  /\ \E n \in Nat : DOMAIN history = 1..n
  /\ \A id \in DOMAIN history :
       /\ history[id] \in Op
       /\ CallAt(id) \in DOMAIN entries /\ entries[CallAt(id)] = CallOf(id)
       /\ ReturnAt(id) \in DOMAIN entries /\ entries[ReturnAt(id)] = ReturnOf(id)
       /\ CallAt(id) < ReturnAt(id)
  /\ \A k \in DOMAIN entries :
       k = IF IsCall(k) THEN CallAt(entries[k].id) ELSE ReturnAt(entries[k].id)

OpsOf(key) == {id \in DOMAIN history : history[id].key = key}

-----------------------------------------------------------------------------
(* What is left to do for a key.                                           *)

\* The operations in R can be taken at the times ord, out of 1..n, when the object
\* has the value v; f is its value after each time.
Plan(R, v, n, ord, f) ==
  /\ ord \in [R -> 1..n] /\ \A x, y \in R : ord[x] = ord[y] => x = y
  /\ f \in [0..n -> Value] /\ f[0] = v
  /\ \A x \in R : /\ Possible(f[ord[x] - 1], history[x])
                  /\ f[ord[x]] = Step(f[ord[x] - 1], history[x])
  /\ \A k \in 1..n : (\A x \in R : ord[x] # k) => f[k] = f[k - 1]
  /\ \A x, y \in R : ord[x] < ord[y] => ~Before(y, x)

Completable(R, v) == \E n \in Nat : \E ord, f : Plan(R, v, n, ord, f)

\* The ids on the stack up to depth j, and those left.
Taken(p, j) == {entries[p.calls[l].entry].id : l \in 1..j}
Rest(key, p, j) == OpsOf(key) \ Taken(p, j)

\* The value of the object at depth j.
StateAt(p, j) == IF j = Len(p.calls) THEN p.state ELSE p.calls[j + 1].state

\* No operation in R returned before the place e.
NoneReturned(R, e) == \A x \in R : ReturnAt(x) >= e

\* No operation in R that was called before e can be the next one.
Explored(R, v, e) ==
  \A x \in R : CallAt(x) < e /\ Possible(v, history[x]) =>
    ~Completable(R \ {x}, Step(v, history[x]))

\* The choice at depth j.
Chosen(key, p, j) ==
  LET a == p.calls[j].entry
      v == p.calls[j].state
      op == history[entries[a].id]
  IN /\ NoneReturned(Rest(key, p, j - 1), a) /\ Explored(Rest(key, p, j - 1), v, a)
     /\ Possible(v, op) /\ StateAt(p, j) = Step(v, op)

\* A choice in the cache is under way or has failed.
Settled(key, p, c) ==
  \/ \E j \in 1..Len(p.calls) : c.linearized = Taken(p, j) /\ c.state = StateAt(p, j)
  \/ ~Completable(OpsOf(key) \ c.linearized, c.state)

VisitOK(key, p) ==
  /\ StateAt(p, 0) = << >>
  /\ \A j \in 1..Len(p.calls) : Chosen(key, p, j)
  /\ \A c \in p.cache : Settled(key, p, c)
  /\ p.st = "run" => /\ NoneReturned(Rest(key, p, Len(p.calls)), p.entry)
                     /\ Explored(Rest(key, p, Len(p.calls)), p.state, p.entry)
  /\ p.st # "run" /\ p.result => Rest(key, p, Len(p.calls)) = {}

Fails(key) == ~Completable(OpsOf(key), << >>)

\* What CheckOperationsTimeout knows.
MainOK ==
  /\ DOMAIN search = KeysOf(history)
  /\ main \in [st : {"loop", "returned"}, ok : BOOLEAN, count : Nat, timedOut : BOOLEAN]
  /\ kill => main.st = "returned"
  /\ main.st = "loop" =>
       /\ main.ok /\ main.count = Cardinality({key \in DOMAIN search : search[key].st = "sent"})
       /\ \A key \in DOMAIN search :
            /\ search[key].st # "run" /\ ~search[key].result => Fails(key)
            /\ search[key].st = "sent" => search[key].result
  /\ main.st = "returned" =>
       /\ ~main.ok => \E key \in DOMAIN search : Fails(key)
       /\ main.ok => main.timedOut \/ \A key \in DOMAIN search :
                                         search[key].st = "sent" /\ search[key].result

VerdictInv == ListInv /\ TimesOK /\ MainOK /\ \A key \in DOMAIN search : VisitOK(key, search[key])

-----------------------------------------------------------------------------
(* Places of calls and returns.                                            *)

\* Every event of an operation is at one place.
LEMMA InitTimes ==
  ASSUME Init
  PROVE  TimesOK
<1>1. PICK n \in 1..MaxOps : history \in [1..n -> Op] /\ entries \in Orders(n)
  BY DEF Init
<1>2. n \in Nat /\ DOMAIN history = 1..n
  BY <1>1
<1>3. /\ \A k \in DOMAIN entries : \E id \in 1..n : entries[k] = CallOf(id) \/ entries[k] = ReturnOf(id)
      /\ \A k, l \in DOMAIN entries : entries[k] = entries[l] => k = l
      /\ \A id \in 1..n : \E k, l \in DOMAIN entries :
           entries[k] = CallOf(id) /\ entries[l] = ReturnOf(id) /\ k < l
  BY <1>1, <1>2, OrderFacts
<1>4. ASSUME NEW id \in 1..n
      PROVE  /\ CallAt(id) \in DOMAIN entries /\ entries[CallAt(id)] = CallOf(id)
             /\ ReturnAt(id) \in DOMAIN entries /\ entries[ReturnAt(id)] = ReturnOf(id)
             /\ CallAt(id) < ReturnAt(id)
  <2>1. PICK k \in DOMAIN entries, l \in DOMAIN entries :
          entries[k] = CallOf(id) /\ entries[l] = ReturnOf(id) /\ k < l
    BY <1>3
  <2>2. CallAt(id) \in DOMAIN entries /\ entries[CallAt(id)] = CallOf(id)
    BY <2>1 DEF CallAt, Position
  <2>3. ReturnAt(id) \in DOMAIN entries /\ entries[ReturnAt(id)] = ReturnOf(id)
    BY <2>1 DEF ReturnAt, Position
  <2>4. CallAt(id) = k /\ ReturnAt(id) = l
    BY <1>3, <2>1, <2>2, <2>3
  <2> QED  BY <2>1, <2>2, <2>3, <2>4
<1>5. ASSUME NEW k \in DOMAIN entries
      PROVE  k = IF IsCall(k) THEN CallAt(entries[k].id) ELSE ReturnAt(entries[k].id)
  <2>1. PICK id \in 1..n : entries[k] = CallOf(id) \/ entries[k] = ReturnOf(id)
    BY <1>3
  <2>2. CASE entries[k] = CallOf(id)
    <3>1. IsCall(k) /\ entries[k].id = id
      BY <2>2 DEF IsCall, CallOf
    <3> QED  BY <1>3, <1>4, <2>2, <3>1
  <2>3. CASE entries[k] = ReturnOf(id)
    <3>1. ~IsCall(k) /\ entries[k].id = id
      BY <2>3 DEF IsCall, ReturnOf
    <3> QED  BY <1>3, <1>4, <2>3, <3>1
  <2> QED  BY <2>1, <2>2, <2>3
<1> QED  BY <1>1, <1>2, <1>4, <1>5 DEF TimesOK

\* Places are natural numbers; a call is not where a return is, and two operations
\* are not called at the same place.
LEMMA PlaceFacts ==
  ASSUME EntriesOK, TimesOK
  PROVE  /\ \A x \in DOMAIN history :
              /\ CallAt(x) \in Nat /\ CallAt(x) > 0 /\ ReturnAt(x) \in Nat /\ CallAt(x) < ReturnAt(x)
              /\ entries[CallAt(x)].id = x /\ entries[ReturnAt(x)].id = x
              /\ IsCall(CallAt(x)) /\ ~IsCall(ReturnAt(x))
         /\ \A x, y \in DOMAIN history :
              /\ CallAt(x) # ReturnAt(y)
              /\ CallAt(x) = CallAt(y) => x = y
<1>1. PICK len \in Nat : DOMAIN entries = 1..len
  BY DEF EntriesOK
<1>2. ASSUME NEW x \in DOMAIN history
      PROVE  /\ CallAt(x) \in Nat /\ CallAt(x) > 0 /\ ReturnAt(x) \in Nat /\ CallAt(x) < ReturnAt(x)
             /\ entries[CallAt(x)].id = x /\ entries[ReturnAt(x)].id = x
             /\ IsCall(CallAt(x)) /\ ~IsCall(ReturnAt(x))
  <2>1. /\ CallAt(x) \in DOMAIN entries /\ entries[CallAt(x)] = CallOf(x)
        /\ ReturnAt(x) \in DOMAIN entries /\ entries[ReturnAt(x)] = ReturnOf(x)
        /\ CallAt(x) < ReturnAt(x)
    BY DEF TimesOK
  <2>2. entries[CallAt(x)].id = x /\ entries[ReturnAt(x)].id = x
    BY <2>1 DEF CallOf, ReturnOf
  <2>3. IsCall(CallAt(x)) /\ ~IsCall(ReturnAt(x))
    BY <2>1 DEF IsCall, CallOf, ReturnOf
  <2>4. CallAt(x) \in Nat /\ CallAt(x) > 0 /\ ReturnAt(x) \in Nat
    BY <1>1, <2>1
  <2> QED  BY <2>1, <2>2, <2>3, <2>4
<1> QED  BY <1>2

\* An operation that returned before another was called did so at a lower place.
LEMMA BeforeIs ==
  ASSUME NEW x, NEW y
  PROVE  Before(x, y) <=> ReturnAt(x) < CallAt(y)
BY DEF Before, CallAt, ReturnAt

-----------------------------------------------------------------------------
(* The first operation of a plan.                                          *)

\* If the operations left can be taken in some order, one of them can be taken now,
\* and the others after it.
LEMMA FirstOfPlan ==
  ASSUME EntriesOK, TimesOK, NEW R, R \subseteq DOMAIN history, R # {}, NEW v, Completable(R, v)
  PROVE  \E x \in R : /\ Possible(v, history[x]) /\ \A y \in R : ~Before(y, x)
                      /\ Completable(R \ {x}, Step(v, history[x]))
<1>0. PICK n \in Nat : \E ord, f : Plan(R, v, n, ord, f)
  BY DEF Completable
<1>1. PICK ord, f : Plan(R, v, n, ord, f)
  BY <1>0
<1>2. /\ ord \in [R -> 1..n] /\ \A x, y \in R : ord[x] = ord[y] => x = y
  BY <1>1 DEF Plan
<1>3. f \in [0..n -> Value] /\ f[0] = v
  BY <1>1 DEF Plan
<1>4. \A x \in R : Possible(f[ord[x] - 1], history[x]) /\ f[ord[x]] = Step(f[ord[x] - 1], history[x])
  BY <1>1 DEF Plan
<1>5. \A k \in 1..n : (\A x \in R : ord[x] # k) => f[k] = f[k - 1]
  BY <1>1 DEF Plan
<1>6. \A x, y \in R : ord[x] < ord[y] => ~Before(y, x)
  BY <1>1 DEF Plan
<1>7. PICK x \in R : \A y \in R : ord[x] <= ord[y]
  <2> DEFINE T == {ord[y] : y \in R}
  <2>1. T \subseteq Nat /\ T # {}
    BY <1>2
  <2>2. PICK m \in T : \A k \in T : m <= k
    <3> HIDE DEF T
    <3> QED  BY <2>1, LeastNat
  <2> QED  BY <2>2
<1>8. PICK m \in 1..n : m = ord[x]
  BY <1>2
<1>9. m \in Nat /\ m - 1 \in Nat /\ m - 1 \in 0..n
  OBVIOUS
<1>10. \A k \in 0..(m - 1) : f[k] = v
  <2> DEFINE T == {k \in 0..(m - 1) : f[k] = v}
  <2>1. 0 \in T
    BY <1>3, <1>9
  <2>2. ASSUME NEW i \in 1..(m - 1), i - 1 \in T PROVE i \in T
    <3>1. i \in 1..n /\ i < m /\ i \in 0..(m - 1) /\ \A y \in R : ord[y] \in Nat
      BY <1>2, <1>9
    <3>2. \A y \in R : ord[y] # i
      BY <1>7, <1>8, <3>1
    <3>3. f[i] = f[i - 1]
      BY <1>5, <3>1, <3>2
    <3> QED  BY <2>2, <3>1, <3>3
  <2>3. 0..(m - 1) \subseteq T
    <3> HIDE DEF T
    <3> QED  BY <1>9, <2>1, <2>2, UpToBound
  <2> QED  BY <2>3
<1>11. f[m - 1] = v
  BY <1>9, <1>10
<1>12. PICK w : w = Step(v, history[x])
  OBVIOUS
<1>13. Possible(v, history[x]) /\ f[m] = w
  BY <1>4, <1>8, <1>11, <1>12
<1>14. ASSUME NEW y \in R PROVE ~Before(y, x)
  <2>1. CASE y = x
    <3>1. CallAt(x) \in Nat /\ ReturnAt(x) \in Nat /\ CallAt(x) < ReturnAt(x)
      BY PlaceFacts
    <3> QED  BY <2>1, <3>1, BeforeIs
  <2>2. CASE y # x
    <3>1. ord[x] # ord[y] /\ ord[x] <= ord[y] /\ ord[x] \in Nat /\ ord[y] \in Nat
      BY <1>2, <1>7, <2>2
    <3>2. ord[x] < ord[y]
      BY <3>1
    <3> QED  BY <1>6, <3>2
  <2> QED  BY <2>1, <2>2
<1>15. Completable(R \ {x}, w)
  <2> DEFINE o == [y \in R \ {x} |-> ord[y]]
             g == [k \in 0..n |-> IF k <= m THEN w ELSE f[k]]
  <2>0. \A y \in R \ {x} : o[y] = ord[y] /\ o[y] \in 1..n /\ o[y] > m
    <3>1. ASSUME NEW y \in R \ {x} PROVE ord[y] \in 1..n /\ ord[y] > m
      <4>1. ord[y] \in 1..n /\ ord[y] # m /\ m <= ord[y]
        BY <1>2, <1>7, <1>8
      <4> QED  BY <4>1
    <3> QED  BY <3>1
  <2>1. w \in Value
    BY <1>3, <1>13
  <2>2. g \in [0..n -> Value] /\ g[0] = w
    BY <1>3, <2>1
  <2>3. \A k \in 0..n : k >= m => g[k] = f[k]
    BY <1>13
  <2>4. \A k \in 0..n : k <= m => g[k] = w
    OBVIOUS
  <2>5. o \in [R \ {x} -> 1..n]
    BY <2>0
  <2> HIDE DEF o, g
  <2>6. \A y, z \in R \ {x} : o[y] = o[z] => y = z
    BY <1>2, <2>0
  <2>7. ASSUME NEW y \in R \ {x}
        PROVE  Possible(g[o[y] - 1], history[y]) /\ g[o[y]] = Step(g[o[y] - 1], history[y])
    <3>1. PICK k \in 1..n : k = o[y] /\ k = ord[y] /\ k > m
      BY <2>0
    <3>2. g[k] = f[k] /\ g[k - 1] = f[k - 1]
      <4>1. k \in 0..n /\ k - 1 \in 0..n /\ k >= m /\ k - 1 >= m
        BY <3>1
      <4> QED  BY <2>3, <4>1
    <3> QED  BY <1>4, <3>1, <3>2
  <2>8. ASSUME NEW k \in 1..n, \A y \in R \ {x} : o[y] # k PROVE g[k] = g[k - 1]
    <3>1. CASE k <= m
      <4>1. k - 1 <= m /\ k \in 0..n /\ k - 1 \in 0..n
        BY <3>1
      <4> QED  BY <2>4, <3>1, <4>1
    <3>2. CASE k > m
      <4>1. k - 1 >= m /\ k \in 0..n /\ k - 1 \in 0..n /\ k >= m
        BY <3>2
      <4>2. \A y \in R : ord[y] # k
        BY <1>8, <2>0, <2>8, <3>2
      <4> QED  BY <1>5, <2>3, <4>1, <4>2
    <3> QED  BY <3>1, <3>2
  <2>9. \A y, z \in R \ {x} : o[y] < o[z] => ~Before(z, y)
    BY <1>6, <2>0
  <2>10. Plan(R \ {x}, w, n, o, g)
    BY <2>2, <2>5, <2>6, <2>7, <2>8, <2>9 DEF Plan
  <2> QED  BY <2>10 DEF Completable
<1> QED  BY <1>12, <1>13, <1>14, <1>15

-----------------------------------------------------------------------------
(* Walking along the list.                                                 *)

\* The nodes of the operations in R.
NodesIn(R) == {k \in DOMAIN entries : entries[k].id \in R}

\* The nodes left at a depth are those of the operations left.
LEMMA LeftIsRest ==
  ASSUME EntriesOK, NEW key, NEW p, NEW j
  PROVE  /\ Left(key, p, j) = NodesIn(Rest(key, p, j))
         /\ Rest(key, p, j) \subseteq DOMAIN history /\ OpsOf(key) \subseteq DOMAIN history
<1>1. \A k \in DOMAIN entries : entries[k].id \in DOMAIN history
  BY DEF EntriesOK
<1>2. ASSUME NEW k PROVE k \in Left(key, p, j) <=> k \in NodesIn(Rest(key, p, j))
  <2>1. k \in Left(key, p, j) <=>
          /\ k \in DOMAIN entries /\ history[entries[k].id].key = key
          /\ \A l \in 1..j : entries[k].id # entries[p.calls[l].entry].id
    BY DEF Left, Nodes, NodesOf
  <2>2. k \in NodesIn(Rest(key, p, j)) <=>
          /\ k \in DOMAIN entries /\ entries[k].id \in DOMAIN history
          /\ history[entries[k].id].key = key
          /\ \A l \in 1..j : entries[k].id # entries[p.calls[l].entry].id
    BY DEF NodesIn, Rest, OpsOf, Taken
  <2> QED  BY <1>1, <2>1, <2>2
<1>3. Rest(key, p, j) \subseteq DOMAIN history /\ OpsOf(key) \subseteq DOMAIN history
  BY DEF Rest, OpsOf
<1> QED  BY <1>2, <1>3

\* The call and the return of every operation left are in the list.
LEMMA NodesInFacts ==
  ASSUME EntriesOK, TimesOK, NEW R, R \subseteq DOMAIN history
  PROVE  /\ NodesIn(R) \subseteq Nat /\ 0 \notin NodesIn(R)
         /\ \A x \in R : CallAt(x) \in NodesIn(R) /\ ReturnAt(x) \in NodesIn(R)
         /\ \A k \in NodesIn(R) :
              /\ entries[k].id \in R
              /\ k = IF IsCall(k) THEN CallAt(entries[k].id) ELSE ReturnAt(entries[k].id)
<1>1. PICK len \in Nat : DOMAIN entries = 1..len
  BY DEF EntriesOK
<1>2. NodesIn(R) \subseteq Nat /\ 0 \notin NodesIn(R)
  BY <1>1 DEF NodesIn
<1>3. ASSUME NEW x \in R PROVE CallAt(x) \in NodesIn(R) /\ ReturnAt(x) \in NodesIn(R)
  <2>1. CallAt(x) \in DOMAIN entries /\ ReturnAt(x) \in DOMAIN entries
    BY DEF TimesOK
  <2>2. entries[CallAt(x)].id = x /\ entries[ReturnAt(x)].id = x
    BY PlaceFacts
  <2> QED  BY <2>1, <2>2 DEF NodesIn
<1>4. \A k \in NodesIn(R) :
              /\ entries[k].id \in R
              /\ k = IF IsCall(k) THEN CallAt(entries[k].id) ELSE ReturnAt(entries[k].id)
  BY DEF NodesIn, TimesOK
<1> QED  BY <1>2, <1>3, <1>4

\* At the head of the list nothing has been passed over.
LEMMA AtHead ==
  ASSUME EntriesOK, TimesOK, NEW R, R \subseteq DOMAIN history, NEW v,
         NEW b, b = NextIn(NodesIn(R), Head0)
  PROVE  NoneReturned(R, b) /\ Explored(R, v, b)
<1>1. PICK S : S = NodesIn(R)
  OBVIOUS
<1>2. S \subseteq Nat /\ 0 \notin S /\ \A x \in R : CallAt(x) \in S /\ ReturnAt(x) \in S
  BY <1>1, NodesInFacts
<1>3. \/ b = NilNode /\ \A n \in S : n <= Head0
      \/ b \in S /\ b > Head0 /\ \A n \in S : n > Head0 => b <= n
  <2>1. Head0 \in Nat
    BY DEF Head0
  <2> QED  BY <1>1, <1>2, <2>1, Neighbours
<1>4. \A n \in S : n \in Nat /\ n >= b /\ ~(n < b)
  <2>1. ASSUME NEW n \in S PROVE n \in Nat /\ n >= b /\ ~(n < b)
    <3>1. n \in Nat /\ n > 0 /\ ~(n <= 0)
      BY <1>2
    <3>2. b \in S /\ b <= n
      BY <1>3, <3>1 DEF Head0
    <3>3. b \in Nat
      BY <1>2, <3>2
    <3> QED  BY <3>1, <3>2, <3>3
  <2> QED  BY <2>1
<1>5. NoneReturned(R, b)
  BY <1>2, <1>4 DEF NoneReturned
<1>6. Explored(R, v, b)
  BY <1>2, <1>4 DEF Explored
<1> QED  BY <1>5, <1>6

\* A call that cannot come next is passed over.
LEMMA Advance ==
  ASSUME EntriesOK, TimesOK, NEW R, R \subseteq DOMAIN history, NEW v,
         NEW a, a \in NodesIn(R), IsCall(a), NoneReturned(R, a), Explored(R, v, a),
         NEW x, x = entries[a].id,
         Possible(v, history[x]) => ~Completable(R \ {x}, Step(v, history[x])),
         NEW b, b = NextIn(NodesIn(R), a), b \in NodesIn(R)
  PROVE  NoneReturned(R, b) /\ Explored(R, v, b)
<1>1. PICK S : S = NodesIn(R)
  OBVIOUS
<1>2. S \subseteq Nat /\ 0 \notin S /\ \A y \in R : CallAt(y) \in S /\ ReturnAt(y) \in S
  BY <1>1, NodesInFacts
<1>3. x \in R /\ a = CallAt(x) /\ a \in Nat
  BY <1>1, <1>2, NodesInFacts
<1>4. b \in Nat /\ b > a /\ \A n \in S : n > a => b <= n
  <2>1. \/ b = NilNode /\ \A n \in S : n <= a
        \/ b \in S /\ b > a /\ \A n \in S : n > a => b <= n
    BY <1>1, <1>2, <1>3, Neighbours
  <2>2. b # NilNode /\ b \in Nat
    BY <1>1, <1>2 DEF NilNode
  <2> QED  BY <2>1, <2>2
<1>5. ASSUME NEW y \in R PROVE ReturnAt(y) >= b
  <2>1. ReturnAt(y) >= a /\ ReturnAt(y) # a /\ ReturnAt(y) \in Nat
    <3>1. ReturnAt(y) # CallAt(x) /\ ReturnAt(y) \in Nat
      BY <1>3, PlaceFacts
    <3> QED  BY <1>3, <3>1 DEF NoneReturned
  <2>2. ReturnAt(y) > a
    BY <1>3, <2>1
  <2>3. b <= ReturnAt(y)
    BY <1>2, <1>4, <2>2
  <2> QED  BY <1>4, <2>1, <2>3
<1>6. ASSUME NEW y \in R, CallAt(y) < b, Possible(v, history[y])
      PROVE  ~Completable(R \ {y}, Step(v, history[y]))
  <2>1. CallAt(y) \in Nat /\ ~(b <= CallAt(y))
    <3>1. CallAt(y) \in Nat
      BY <1>2
    <3> QED  BY <1>4, <1>6, <3>1
  <2>2. ~(CallAt(y) > a)
    BY <1>2, <1>4, <2>1
  <2>3. CASE CallAt(y) < a
    BY <1>6, <2>3 DEF Explored
  <2>4. CASE CallAt(y) = a
    <3>1. y = x
      BY <1>3, <2>4, PlaceFacts
    <3> QED  BY <1>6, <3>1
  <2> QED  BY <1>3, <2>1, <2>2, <2>3, <2>4
<1> QED  BY <1>5, <1>6 DEF NoneReturned, Explored

\* At a return no operation can be the next one: those called later come after it.
LEMMA Stuck ==
  ASSUME EntriesOK, TimesOK, NEW R, R \subseteq DOMAIN history, NEW v,
         NEW e, e \in NodesIn(R), ~IsCall(e), Explored(R, v, e)
  PROVE  ~Completable(R, v)
<1>1. SUFFICES ASSUME Completable(R, v) PROVE FALSE
  OBVIOUS
<1>2. PICK y \in R : e = ReturnAt(y)
  BY NodesInFacts
<1>3. PICK x \in R : /\ Possible(v, history[x]) /\ \A z \in R : ~Before(z, x)
                     /\ Completable(R \ {x}, Step(v, history[x]))
  BY <1>1, <1>2, FirstOfPlan
<1>4. ~(e < CallAt(x))
  BY <1>2, <1>3, BeforeIs
<1>5. CallAt(x) # e /\ CallAt(x) \in Nat /\ e \in Nat
  BY <1>2, PlaceFacts
<1>6. CallAt(x) < e
  BY <1>4, <1>5
<1> QED  BY <1>3, <1>6 DEF Explored

-----------------------------------------------------------------------------
(* What an iteration does to the stack and the cache.                      *)

\* The fields a search has after it has taken the operation at its entry.
TakenNext(p, q, id, w) ==
  /\ q.calls = Append(p.calls, [entry |-> p.entry, state |-> p.state])
  /\ q.cache = p.cache \cup {[linearized |-> p.linearized \cup {id}, state |-> w]}
  /\ q.state = w /\ q.st = p.st /\ q.entry = q.next[Head0]

\* TryCall takes the operation, or passes it over.
LEMMA TryCallIs ==
  ASSUME EntriesOK, NEW key, NEW p, SearchOK(key, p),
         p.entry \in Left(key, p, Len(p.calls)), IsCall(p.entry),
         NEW id, id = entries[p.entry].id, NEW w, w = Step(p.state, history[id]),
         NEW q, q = TryCall(p)
  PROVE  IF ~Possible(p.state, history[id])
              \/ [linearized |-> p.linearized \cup {id}, state |-> w] \in p.cache
           THEN q = Skipped(p)
           ELSE Possible(p.state, history[id]) /\ TakenNext(p, q, id, w)
<1> DEFINE nodes == Nodes(key)
           set == p.linearized \cup {id}
           r == Lift(p, p.entry)
           call == [entry |-> p.entry, state |-> p.state]
           seen == [linearized |-> set, state |-> w]
           t == [r EXCEPT !.cache = @ \cup {seen}, !.calls = Append(@, call),
                          !.state = w, !.linearized = set, !.entry = r.next[Head0]]
<1>1. q = IF ~Possible(p.state, history[id]) \/ seen \in p.cache THEN Skipped(p) ELSE t
  BY DEF TryCall, CacheContains
<1>2. PICK S : S = Left(key, p, Len(p.calls))
  OBVIOUS
<1>3. PICK a : a = p.entry
  OBVIOUS
<1>4. S \subseteq nodes /\ a \in S
  BY <1>2, <1>3 DEF Left
<1>5. p \in SearchState(nodes) /\ ListOf(p, S)
  BY <1>2 DEF SearchOK
<1>6. Match(a) \in S
  <2>1. a \in DOMAIN entries /\ IsCall(a)
    BY <1>3, <1>4, NodesFacts
  <2>2. entries[Match(a)].id = entries[a].id
    BY <2>1 DEF EntriesOK
  <2>3. Match(a) \in nodes
    BY <1>4, <2>1, NodesFacts
  <2> QED  BY <1>2, <1>4, <2>2, <2>3 DEF Left
<1>7. r \in SearchState(nodes) /\ Kept(p, r)
  <2>1. p \in SearchState(Nodes(key)) /\ S \subseteq Nodes(key) /\ r = Lift(p, a) /\ EntriesOK /\ IsCall(a)
    BY <1>3, <1>4, <1>5
  <2> HIDE DEF r
  <2> QED  BY ONLY <1>4, <1>5, <1>6, <2>1, LiftIs DEF nodes
<1> HIDE DEF r, call, seen, set
<1>8. /\ t.calls = Append(r.calls, call) /\ t.cache = r.cache \cup {seen} /\ t.state = w
      /\ t.st = r.st /\ t.entry = r.next[Head0] /\ t.next = r.next
  BY <1>7 DEF SearchState
<1> HIDE DEF t
<1>9. TakenNext(p, t, id, w)
  BY <1>7, <1>8 DEF TakenNext, Kept, call, seen, set
<1> QED  BY <1>1, <1>9 DEF seen, set

\* The fields a search has after its last choice a was undone.
Undone(p, q, m) ==
  /\ Len(p.calls) = m + 1 /\ Len(q.calls) = m
  /\ \A l \in 1..m : q.calls[l] = p.calls[l]
  /\ q.cache = p.cache /\ q.st = p.st /\ q.state = p.calls[m + 1].state
  /\ q.entry = q.next[p.calls[m + 1].entry]

\* Backtrack undoes the last choice.
LEMMA BacktrackIs ==
  ASSUME EntriesOK, NEW key, NEW p, SearchOK(key, p), p.calls # << >>, NEW q, q = Backtrack(p)
  PROVE  \E m \in Nat : Undone(p, q, m)
<1> DEFINE nodes == Nodes(key)
           Call == [entry : nodes, state : Value]
           top == p.calls[Len(p.calls)]
           r == Unlift(p, top.entry)
           t == [r EXCEPT !.entry = r.next[top.entry], !.state = top.state,
                          !.linearized = @ \ {entries[top.entry].id},
                          !.calls = SubSeq(@, 1, Len(@) - 1)]
<1>1. p \in SearchState(nodes) /\ p.calls \in Seq(Call)
  BY DEF SearchOK, SearchState
<1>2. q = t
  BY DEF Backtrack
<1>3. PICK m \in Nat : Len(p.calls) = m + 1
  <2>1. Len(p.calls) \in Nat /\ Len(p.calls) # 0
    <3> HIDE DEF Call
    <3> QED  BY <1>1, EmptySeq
  <2>2. Len(p.calls) - 1 \in Nat /\ Len(p.calls) = (Len(p.calls) - 1) + 1
    BY <2>1
  <2> QED  BY <2>2
<1>4. PICK a : a = top.entry
  OBVIOUS
<1>5. PICK S : S = Left(key, p, m)
  OBVIOUS
<1>6. IsCall(a) /\ a \in S /\ Linked(p, a, S) /\ Linked(p, Match(a), S \ {a})
  <2>1. Lifted(key, p, m + 1) /\ (m + 1) - 1 = m
    BY <1>3 DEF SearchOK
  <2> QED  BY <1>3, <1>4, <1>5, <2>1 DEF Lifted
<1>7. S \subseteq nodes /\ Match(a) \in S /\ Left(key, p, m + 1) = (S \ {a}) \ {Match(a)}
  <2>1. a = p.calls[m + 1].entry /\ a \in Left(key, p, m) /\ IsCall(a) /\ EntriesOK
    BY <1>3, <1>4, <1>5, <1>6
  <2>2. /\ Left(key, p, m + 1) = (Left(key, p, m) \ {a}) \ {Match(a)}
        /\ Match(a) \in Left(key, p, m) /\ Left(key, p, m) \subseteq Nodes(key)
    BY ONLY m \in Nat, <2>1, LeftNext
  <2> QED  BY <1>5, <2>2
<1>8. ListOf(p, (S \ {a}) \ {Match(a)})
  BY <1>3, <1>7 DEF SearchOK
<1>9. r \in SearchState(nodes) /\ Kept(p, r)
  <2>1. p \in SearchState(Nodes(key)) /\ S \subseteq Nodes(key) /\ r = Unlift(p, a) /\ EntriesOK
    BY <1>1, <1>4, <1>7
  <2> HIDE DEF r
  <2> QED  BY ONLY <1>6, <1>7, <1>8, <2>1, UnliftIs DEF nodes
<1> HIDE DEF r, top, Call
<1>10. /\ t.calls = SubSeq(r.calls, 1, Len(r.calls) - 1) /\ t.cache = r.cache
       /\ t.state = top.state /\ t.st = r.st /\ t.entry = r.next[top.entry] /\ t.next = r.next
  BY <1>9 DEF SearchState
<1> HIDE DEF t
<1>11. t.calls = SubSeq(p.calls, 1, m) /\ t.cache = p.cache /\ t.st = p.st
  <2>1. r.calls = p.calls /\ r.cache = p.cache /\ r.st = p.st /\ (m + 1) - 1 = m
    BY <1>9 DEF Kept
  <2> QED  BY <1>3, <1>10, <2>1
<1>12. Len(t.calls) = m /\ \A l \in 1..m : t.calls[l] = p.calls[l]
  <2>1. 1 \in 1..(Len(p.calls) + 1) /\ m \in 0..Len(p.calls)
    BY <1>3
  <2> QED  BY <1>1, <1>3, <1>11, <2>1, SubSeqProperties
<1>13. Undone(p, t, m)
  BY <1>3, <1>10, <1>11, <1>12 DEF Undone, top
<1> QED  BY <1>2, <1>13

\* The stack up to a depth fixes what is taken and left there.
LEMMA TakenSame ==
  ASSUME NEW p, NEW q, NEW m \in Nat, \A l \in 1..m : q.calls[l] = p.calls[l], NEW j \in 0..m, NEW key
  PROVE  Taken(q, j) = Taken(p, j) /\ Rest(key, q, j) = Rest(key, p, j)
<1>1. \A l \in 1..j : l \in 1..m
  OBVIOUS
<1>2. Taken(q, j) = Taken(p, j)
  BY <1>1 DEF Taken
<1> QED  BY <1>2 DEF Rest

\* The choice at a depth depends on the stack up to it and on the value after it.
LEMMA ChosenSame ==
  ASSUME NEW p, NEW q, NEW m \in Nat, \A l \in 1..m : q.calls[l] = p.calls[l], NEW j \in 1..m,
         NEW key, StateAt(q, j) = StateAt(p, j), Chosen(key, p, j)
  PROVE  Chosen(key, q, j)
<1>1. j - 1 \in 0..m
  OBVIOUS
<1>2. Rest(key, q, j - 1) = Rest(key, p, j - 1)
  BY <1>1, TakenSame
<1> QED  BY <1>2 DEF Chosen

\* The stack, the cache and the value of the object have not changed.
LEMMA VisitSame ==
  ASSUME NEW key, NEW p, VisitOK(key, p), NEW q, q.calls = p.calls, q.state = p.state, q.cache = p.cache
  PROVE  /\ StateAt(q, 0) = << >>
         /\ \A j \in 1..Len(q.calls) : Chosen(key, q, j)
         /\ \A c \in q.cache : Settled(key, q, c)
         /\ \A j : Rest(key, q, j) = Rest(key, p, j)
<1>1. \A j : StateAt(q, j) = StateAt(p, j)
  BY DEF StateAt
<1>2. \A j : Taken(q, j) = Taken(p, j)
  BY DEF Taken
<1>3. \A j : Rest(key, q, j) = Rest(key, p, j)
  BY <1>2 DEF Rest
<1>4. \A j : Chosen(key, p, j) => Chosen(key, q, j)
  BY <1>1, <1>3 DEF Chosen
<1>5. \A c : Settled(key, p, c) => Settled(key, q, c)
  BY <1>1, <1>2 DEF Settled
<1> QED  BY <1>1, <1>3, <1>4, <1>5 DEF VisitOK

\* The operation at a node that is left has not been taken.
LEMMA NotTaken ==
  ASSUME NEW key, NEW p, NEW m \in Nat, NEW a, a \in Left(key, p, m), NEW j \in 0..m
  PROVE  entries[a].id \notin Taken(p, j)
<1>1. \A l \in 1..j : l \in 1..m
  OBVIOUS
<1> QED  BY <1>1 DEF Left, Taken

\* The bitset holds what is on the stack.
LEMMA LinearizedIs ==
  ASSUME NEW key, NEW p, SearchOK(key, p)
  PROVE  p.linearized = Taken(p, Len(p.calls)) /\ Len(p.calls) \in Nat
<1>1. Len(p.calls) \in Nat
  BY DEF SearchOK, SearchState
<1> QED  BY <1>1 DEF SearchOK, Taken

\* A call is passed over because it cannot come next, or because the choice was made
\* before: then it has failed, for it is not on the stack.
LEMMA VisitSkip ==
  ASSUME EntriesOK, TimesOK, NEW key, NEW p, SearchOK(key, p), VisitOK(key, p), p.st = "run",
         p.entry \in Left(key, p, Len(p.calls)), IsCall(p.entry),
         NEW id, id = entries[p.entry].id, NEW w, w = Step(p.state, history[id]),
         \/ ~Possible(p.state, history[id])
         \/ [linearized |-> p.linearized \cup {id}, state |-> w] \in p.cache,
         NEW q, q = Skipped(p), SearchOK(key, q)
  PROVE  VisitOK(key, q)
<1>1. PICK m \in Nat : m = Len(p.calls)
  BY LinearizedIs
<1>2. PICK a : a = p.entry
  OBVIOUS
<1>3. PICK R : R = Rest(key, p, m)
  OBVIOUS
<1>4. R \subseteq DOMAIN history /\ Left(key, p, m) = NodesIn(R) /\ a \in NodesIn(R) /\ IsCall(a)
  BY <1>1, <1>2, <1>3, LeftIsRest
<1>5. p \in SearchState(Nodes(key)) /\ ListOf(p, NodesIn(R))
  BY <1>1, <1>4 DEF SearchOK
<1>6. /\ q.calls = p.calls /\ q.state = p.state /\ q.cache = p.cache /\ q.st = p.st
      /\ q.entry = p.next[a]
  BY <1>2, <1>5 DEF Skipped, SearchState
<1>7. q.entry = NextIn(NodesIn(R), a)
  BY <1>4, <1>5, <1>6 DEF ListOf, Linked
<1>8. q.entry \in NodesIn(R)
  <2>1. \A l \in 1..m : q.calls[l].entry = p.calls[l].entry
    BY <1>6
  <2>2. Left(key, q, m) = NodesIn(R)
    BY <1>4, <2>1, LeftSame
  <2> QED  BY <1>1, <1>4, <1>6, <2>2 DEF SearchOK
<1>9. ASSUME Possible(p.state, history[id]) PROVE ~Completable(R \ {id}, w)
  <2>1. PICK c : c = [linearized |-> p.linearized \cup {id}, state |-> w]
    OBVIOUS
  <2>2. c \in p.cache /\ c.linearized = p.linearized \cup {id} /\ c.state = w
    BY <1>9, <2>1
  <2>3. Settled(key, p, c)
    BY <2>2 DEF VisitOK
  <2>4. id \in c.linearized
    BY <2>2
  <2>5. \A j \in 1..m : id \notin Taken(p, j)
    <3>1. \A j \in 1..m : j \in 0..m
      OBVIOUS
    <3> QED  BY <1>1, <1>2, <3>1, NotTaken
  <2>6. ~Completable(OpsOf(key) \ c.linearized, w)
    BY <1>1, <2>2, <2>3, <2>4, <2>5 DEF Settled
  <2>7. OpsOf(key) \ c.linearized = R \ {id}
    BY <1>1, <1>3, <2>2, LinearizedIs DEF Rest
  <2> QED  BY <2>6, <2>7
<1>10. NoneReturned(R, q.entry) /\ Explored(R, p.state, q.entry)
  <2>1. NoneReturned(R, a) /\ Explored(R, p.state, a)
    BY <1>1, <1>2, <1>3 DEF VisitOK
  <2>2. id = entries[a].id /\ (Possible(p.state, history[id]) => ~Completable(R \ {id}, Step(p.state, history[id])))
    BY <1>2, <1>9
  <2>3. EntriesOK /\ TimesOK
    OBVIOUS
  <2> QED  BY ONLY <1>4, <1>7, <1>8, <2>1, <2>2, <2>3, Advance
<1> QED  BY <1>1, <1>3, <1>6, <1>10, VisitSame DEF VisitOK

\* A call is taken: a new depth begins.
LEMMA VisitTake ==
  ASSUME EntriesOK, TimesOK, NEW key, NEW p, SearchOK(key, p), VisitOK(key, p), p.st = "run",
         p.entry \in Left(key, p, Len(p.calls)), IsCall(p.entry),
         NEW id, id = entries[p.entry].id, NEW w, w = Step(p.state, history[id]),
         Possible(p.state, history[id]), NEW q, TakenNext(p, q, id, w), SearchOK(key, q)
  PROVE  VisitOK(key, q)
<1> DEFINE Call == [entry : Nodes(key), state : Value]
           call == [entry |-> p.entry, state |-> p.state]
<1>1. PICK m \in Nat : m = Len(p.calls)
  BY LinearizedIs
<1>2. p.calls \in Seq(Call) /\ call \in Call
  <2>1. p.entry \in Nodes(key)
    BY DEF Left
  <2> QED  BY <2>1 DEF SearchOK, SearchState
<1>3. q.calls = Append(p.calls, call) /\ q.state = w /\ q.st = "run" /\ q.entry = q.next[Head0]
  BY DEF TakenNext
<1>3a. q.cache = p.cache \cup {[linearized |-> p.linearized \cup {id}, state |-> w]}
  BY DEF TakenNext
<1>4. Len(q.calls) = m + 1 /\ q.calls[m + 1] = call /\ \A l \in 1..m : q.calls[l] = p.calls[l]
  <2> HIDE DEF Call, call
  <2> QED  BY <1>1, <1>2, <1>3, AppendProperties
<1>5. \A j \in 0..m : StateAt(q, j) = StateAt(p, j)
  <2>1. ASSUME NEW j \in 0..m PROVE StateAt(q, j) = StateAt(p, j)
    <3>1. CASE j = m
      <4>1. StateAt(p, j) = p.state
        BY <1>1, <3>1 DEF StateAt
      <4>2. StateAt(q, j) = p.state
        <5>1. m # m + 1
          OBVIOUS
        <5> QED  BY <1>4, <3>1, <5>1 DEF StateAt
      <4> QED  BY <4>1, <4>2
    <3>2. CASE j # m
      <4>1. j + 1 \in 1..m /\ j # m + 1
        BY <3>2
      <4> QED  BY <1>1, <1>4, <3>2, <4>1 DEF StateAt
    <3> QED  BY <3>1, <3>2
  <2> QED  BY <2>1
<1>6. StateAt(q, m + 1) = w
  BY <1>3, <1>4 DEF StateAt
<1>7. \A j \in 0..m : Taken(q, j) = Taken(p, j) /\ Rest(key, q, j) = Rest(key, p, j)
  BY <1>4, TakenSame
<1>8. ASSUME NEW j \in 1..m PROVE Chosen(key, q, j)
  <2>1. Chosen(key, p, j) /\ j \in 0..m
    BY <1>1 DEF VisitOK
  <2>2. StateAt(q, j) = StateAt(p, j)
    BY <1>5, <2>1
  <2> QED  BY <1>4, <2>1, <2>2, ChosenSame
<1>9. Chosen(key, q, m + 1)
  <2>1. (m + 1) - 1 = m /\ m \in 0..m
    OBVIOUS
  <2>2. q.calls[m + 1].entry = p.entry /\ q.calls[m + 1].state = p.state
    BY <1>4
  <2>3. NoneReturned(Rest(key, p, m), p.entry) /\ Explored(Rest(key, p, m), p.state, p.entry)
    BY <1>1 DEF VisitOK
  <2>4. Rest(key, q, m) = Rest(key, p, m)
    BY <1>7, <2>1
  <2> QED  BY <1>6, <2>1, <2>2, <2>3, <2>4 DEF Chosen
<1>10. \A j \in 1..Len(q.calls) : Chosen(key, q, j)
  <2>1. \A j \in 1..(m + 1) : j \in 1..m \/ j = m + 1
    OBVIOUS
  <2> QED  BY <1>4, <1>8, <1>9, <2>1
<1>11. Taken(q, m + 1) = p.linearized \cup {id}
  <2>1. p.linearized = Taken(p, m)
    BY <1>1, LinearizedIs
  <2>2. \A l : l \in 1..(m + 1) <=> l \in 1..m \/ l = m + 1
    OBVIOUS
  <2>3. q.calls[m + 1].entry = p.entry
    BY <1>4
  <2> QED  BY <1>4, <2>1, <2>2, <2>3 DEF Taken
<1>12. ASSUME NEW c \in q.cache PROVE Settled(key, q, c)
  <2>1. CASE c = [linearized |-> p.linearized \cup {id}, state |-> w]
    <3>1. c.linearized = Taken(q, m + 1) /\ c.state = StateAt(q, m + 1) /\ m + 1 \in 1..Len(q.calls)
      BY <1>4, <1>6, <1>11, <2>1
    <3> QED  BY <3>1 DEF Settled
  <2>2. CASE c \in p.cache
    <3>1. Settled(key, p, c)
      BY <2>2 DEF VisitOK
    <3>2. ASSUME NEW j \in 1..m, c.linearized = Taken(p, j), c.state = StateAt(p, j)
          PROVE  Settled(key, q, c)
      <4>1. j \in 0..m /\ j \in 1..Len(q.calls)
        BY <1>4
      <4> QED  BY <1>5, <1>7, <3>2, <4>1 DEF Settled
    <3> QED  BY <1>1, <3>1, <3>2 DEF Settled
  <2> QED  BY <1>3a, <2>1, <2>2
<1>13. /\ NoneReturned(Rest(key, q, m + 1), q.entry)
       /\ Explored(Rest(key, q, m + 1), q.state, q.entry)
  <2>1. PICK R : R = Rest(key, q, m + 1)
    OBVIOUS
  <2>2. R \subseteq DOMAIN history /\ Left(key, q, m + 1) = NodesIn(R)
    BY <2>1, LeftIsRest
  <2>3. q.entry = NextIn(NodesIn(R), Head0)
    BY <1>3, <1>4, <2>2 DEF SearchOK, ListOf
  <2> QED  BY <2>1, <2>2, <2>3, AtHead
<1>14. StateAt(q, 0) = << >>
  <2>1. 0 \in 0..m
    OBVIOUS
  <2> QED  BY <1>5, <2>1 DEF VisitOK
<1> QED  BY <1>3, <1>4, <1>10, <1>12, <1>13, <1>14 DEF VisitOK

\* At a return the operations left cannot be completed.
LEMMA AtReturn ==
  ASSUME EntriesOK, TimesOK, NEW key, NEW p, SearchOK(key, p), VisitOK(key, p), p.st = "run",
         p.entry \in Left(key, p, Len(p.calls)), ~IsCall(p.entry)
  PROVE  ~Completable(Rest(key, p, Len(p.calls)), p.state)
<1>1. PICK R : R = Rest(key, p, Len(p.calls))
  OBVIOUS
<1>2. R \subseteq DOMAIN history /\ p.entry \in NodesIn(R)
  BY <1>1, LeftIsRest
<1>3. Explored(R, p.state, p.entry)
  BY <1>1 DEF VisitOK
<1> QED  BY <1>1, <1>2, <1>3, Stuck

\* The last choice has failed, and the search goes on behind it.
LEMMA VisitUndo ==
  ASSUME EntriesOK, TimesOK, NEW key, NEW p, SearchOK(key, p), VisitOK(key, p), p.st = "run",
         p.entry \in Left(key, p, Len(p.calls)), ~IsCall(p.entry),
         NEW m, m \in Nat, NEW q, Undone(p, q, m), SearchOK(key, q)
  PROVE  VisitOK(key, q)
<1>1. /\ Len(p.calls) = m + 1 /\ Len(q.calls) = m
      /\ \A l \in 1..m : q.calls[l] = p.calls[l]
      /\ q.cache = p.cache /\ q.st = "run" /\ q.state = p.calls[m + 1].state
      /\ q.entry = q.next[p.calls[m + 1].entry]
  BY DEF Undone
<1>2. PICK a : a = p.calls[m + 1].entry
  OBVIOUS
<1>3. PICK id : id = entries[a].id
  OBVIOUS
<1>4. PICK R : R = Rest(key, q, m)
  OBVIOUS
<1>5. R = Rest(key, p, m) /\ R \subseteq DOMAIN history /\ Left(key, q, m) = NodesIn(R)
  <2>1. m \in 0..m
    OBVIOUS
  <2>2. Rest(key, q, m) = Rest(key, p, m)
    <3>1. m \in Nat /\ \A l \in 1..m : q.calls[l] = p.calls[l]
      BY <1>1
    <3> QED  BY ONLY <2>1, <3>1, TakenSame
  <2>3. Rest(key, q, m) \subseteq DOMAIN history /\ Left(key, q, m) = NodesIn(Rest(key, q, m))
    BY LeftIsRest
  <2> QED  BY <1>4, <2>2, <2>3
<1>6. \A j \in 0..m : StateAt(q, j) = StateAt(p, j)
  <2>1. ASSUME NEW j \in 0..m PROVE StateAt(q, j) = StateAt(p, j)
    <3>1. j # m + 1
      OBVIOUS
    <3>2. StateAt(p, j) = p.calls[j + 1].state
      BY <1>1, <3>1 DEF StateAt
    <3>3. CASE j = m
      BY <1>1, <3>2, <3>3 DEF StateAt
    <3>4. CASE j # m
      <4>1. j + 1 \in 1..m
        BY <3>4
      <4>2. q.calls[j + 1] = p.calls[j + 1]
        BY <1>1, <4>1
      <4> QED  BY <1>1, <3>2, <3>4, <4>2 DEF StateAt
    <3> QED  BY <3>3, <3>4
  <2> QED  BY <2>1
<1>7. \A j \in 0..m : Taken(q, j) = Taken(p, j)
  BY <1>1, TakenSame
<1>8. ASSUME NEW j \in 1..m PROVE Chosen(key, q, j)
  <2>1. Chosen(key, p, j) /\ j \in 0..m
    BY <1>1 DEF VisitOK
  <2>2. StateAt(q, j) = StateAt(p, j)
    BY <1>6, <2>1
  <2> QED  BY <1>1, <2>1, <2>2, ChosenSame
<1>9. ~Completable(Rest(key, p, m + 1), p.state)
  BY <1>1, AtReturn
<1>10. p.state = StateAt(p, m + 1)
  BY <1>1 DEF StateAt
<1>11. /\ NoneReturned(R, a) /\ Explored(R, q.state, a)
       /\ Possible(q.state, history[id]) /\ p.state = Step(q.state, history[id])
  <2>1. Chosen(key, p, m + 1) /\ (m + 1) - 1 = m
    BY <1>1 DEF VisitOK
  <2> QED  BY <1>1, <1>2, <1>3, <1>5, <1>10, <2>1 DEF Chosen
<1>12. Rest(key, p, m + 1) = R \ {id}
  <2>1. \A l : l \in 1..(m + 1) <=> l \in 1..m \/ l = m + 1
    OBVIOUS
  <2>2. Taken(p, m + 1) = Taken(p, m) \cup {id}
    BY <1>2, <1>3, <2>1 DEF Taken
  <2> QED  BY <1>5, <2>2 DEF Rest
<1>13. ASSUME NEW c \in q.cache PROVE Settled(key, q, c)
  <2>1. Settled(key, p, c)
    BY <1>1 DEF VisitOK
  <2>2. ASSUME NEW j \in 1..(m + 1), c.linearized = Taken(p, j), c.state = StateAt(p, j)
        PROVE  Settled(key, q, c)
    <3>1. CASE j = m + 1
      <4>1. OpsOf(key) \ c.linearized = Rest(key, p, m + 1) /\ c.state = p.state
        BY <1>10, <2>2, <3>1 DEF Rest
      <4> QED  BY <1>9, <4>1 DEF Settled
    <3>2. CASE j # m + 1
      <4>1. j \in 1..m /\ j \in 0..m
        BY <3>2
      <4>2. c.linearized = Taken(q, j) /\ c.state = StateAt(q, j)
        BY <1>6, <1>7, <2>2, <4>1
      <4> QED  BY <1>1, <4>1, <4>2 DEF Settled
    <3> QED  BY <3>1, <3>2
  <2> QED  BY <1>1, <2>1, <2>2 DEF Settled
<1>14. IsCall(a) /\ a \in NodesIn(R)
  <2>1. Lifted(key, p, m + 1) /\ (m + 1) - 1 = m
    BY <1>1 DEF SearchOK
  <2>2. a \in Left(key, p, m) /\ IsCall(a)
    BY <1>2, <2>1 DEF Lifted
  <2> QED  BY <1>5, <2>2, LeftIsRest
<1>15. q.entry = NextIn(NodesIn(R), a) /\ q.entry \in NodesIn(R)
  <2>1. ListOf(q, NodesIn(R))
    BY <1>1, <1>5 DEF SearchOK
  <2>2. q.entry = NextIn(NodesIn(R), a)
    BY <1>1, <1>2, <1>14, <2>1 DEF ListOf, Linked
  <2>3. q.entry \in NodesIn(R)
    BY <1>1, <1>5, <1>14 DEF SearchOK
  <2> QED  BY <2>2, <2>3
<1>16. NoneReturned(R, q.entry) /\ Explored(R, q.state, q.entry)
  <2>1. Possible(q.state, history[id]) => ~Completable(R \ {id}, Step(q.state, history[id]))
    BY <1>9, <1>11, <1>12
  <2>2. EntriesOK /\ TimesOK
    OBVIOUS
  <2> QED  BY ONLY <1>3, <1>5, <1>11, <1>14, <1>15, <2>1, <2>2, Advance
<1>17. StateAt(q, 0) = << >>
  <2>1. 0 \in 0..m
    OBVIOUS
  <2> QED  BY <1>6, <2>1 DEF VisitOK
<1> QED  BY <1>1, <1>4, <1>8, <1>13, <1>16, <1>17 DEF VisitOK

\* An iteration, in which the search fails only if the operations on its key have no
\* order, or because it was told to stop.
LEMMA IterationVisits ==
  ASSUME EntriesOK, TimesOK, NEW key, NEW p, SearchOK(key, p), VisitOK(key, p), p.st = "run", NEW q,
         q = IF p.next[Head0] = NilNode THEN Ended(p, TRUE)
             ELSE IF kill THEN Ended(p, FALSE)
             ELSE IF IsCall(p.entry) THEN TryCall(p) ELSE Backtrack(p)
  PROVE  /\ SearchOK(key, q) /\ VisitOK(key, q)
         /\ q.st # "run" /\ ~q.result => kill \/ Fails(key)
         /\ q.st # "sent"
<1>1. SearchOK(key, q)
  BY IterationOK
<1>2. PICK m \in Nat : m = Len(p.calls)
  BY LinearizedIs
<1>3. PICK S : S = Left(key, p, m)
  OBVIOUS
<1>4. S \subseteq Nat /\ 0 \notin S
  BY <1>3, NodesFacts DEF Left
<1>5. p \in SearchState(Nodes(key)) /\ p.next[Head0] = NextIn(S, Head0)
  BY <1>2, <1>3 DEF SearchOK, ListOf
<1>6. ASSUME NEW result \in BOOLEAN, NEW t, t = Ended(p, result), result => Rest(key, p, m) = {}
      PROVE  VisitOK(key, t) /\ t.st = "send" /\ t.result = result
  <2>1. t.calls = p.calls /\ t.state = p.state /\ t.cache = p.cache /\ t.st = "send" /\ t.result = result
    BY <1>5, <1>6 DEF Ended, SearchState
  <2>2. /\ StateAt(t, 0) = << >> /\ \A j \in 1..Len(t.calls) : Chosen(key, t, j)
        /\ \A c \in t.cache : Settled(key, t, c)
        /\ \A j : Rest(key, t, j) = Rest(key, p, j)
    BY <2>1, VisitSame
  <2>3. t.result => Rest(key, t, Len(t.calls)) = {}
    BY <1>2, <1>6, <2>1, <2>2
  <2> QED  BY <2>1, <2>2, <2>3 DEF VisitOK
<1>7. CASE p.next[Head0] = NilNode
  <2>1. S = {}
    <3>1. NilNode \notin S
      BY <1>4 DEF NilNode
    <3> QED  BY <1>4, <1>5, <1>7, <3>1, AfterHead
  <2>2. Rest(key, p, m) = {}
    <3>1. PICK R : R = Rest(key, p, m)
      OBVIOUS
    <3>2. NodesIn(R) = {} /\ R \subseteq DOMAIN history
      BY <1>3, <2>1, <3>1, LeftIsRest
    <3> QED  BY <3>1, <3>2, NodesInFacts
  <2>3. q = Ended(p, TRUE)
    BY <1>7
  <2> QED  BY <1>1, <1>6, <2>2, <2>3
<1>8. CASE p.next[Head0] # NilNode /\ kill
  <2>1. q = Ended(p, FALSE)
    BY <1>8
  <2> QED  BY <1>1, <1>6, <1>8, <2>1
<1>9. CASE p.next[Head0] # NilNode /\ ~kill
  <2>1. p.entry \in Left(key, p, Len(p.calls))
    <3>1. S # {}
      BY <1>4, <1>5, <1>9, AfterHead
    <3> QED  BY <1>2, <1>3, <3>1 DEF SearchOK
  <2>2. CASE IsCall(p.entry)
    <3>1. q = TryCall(p)
      BY <1>9, <2>2
    <3>2. PICK id : id = entries[p.entry].id
      OBVIOUS
    <3>3. PICK w : w = Step(p.state, history[id])
      OBVIOUS
    <3>4. IF ~Possible(p.state, history[id])
               \/ [linearized |-> p.linearized \cup {id}, state |-> w] \in p.cache
            THEN q = Skipped(p)
            ELSE Possible(p.state, history[id]) /\ TakenNext(p, q, id, w)
      BY <2>1, <2>2, <3>1, <3>2, <3>3, TryCallIs
    <3>5. EntriesOK /\ TimesOK /\ SearchOK(key, p) /\ VisitOK(key, p) /\ p.st = "run" /\ SearchOK(key, q)
      BY <1>1
    <3>6. CASE /\ \/ ~Possible(p.state, history[id])
                  \/ [linearized |-> p.linearized \cup {id}, state |-> w] \in p.cache
               /\ q = Skipped(p)
      <4>1. VisitOK(key, q)
        BY ONLY <2>1, <2>2, <3>2, <3>3, <3>5, <3>6, VisitSkip
      <4>2. q.st = "run"
        BY <1>5, <3>6 DEF Skipped, SearchState
      <4> QED  BY <1>1, <4>1, <4>2
    <3>7. CASE Possible(p.state, history[id]) /\ TakenNext(p, q, id, w)
      <4>1. VisitOK(key, q)
        BY ONLY <2>1, <2>2, <3>2, <3>3, <3>5, <3>7, VisitTake
      <4>2. q.st = "run"
        BY <3>7 DEF TakenNext
      <4> QED  BY <1>1, <4>1, <4>2
    <3> QED  BY <3>4, <3>6, <3>7
  <2>3. CASE ~IsCall(p.entry)
    <3>1. q = Backtrack(p)
      BY <1>9, <2>3
    <3>2. CASE p.calls = << >>
      <4>1. q = Ended(p, FALSE)
        BY <3>1, <3>2 DEF Backtrack
      <4>2. Len(p.calls) = 0
        BY <3>2
      <4>3. p.state = << >> /\ Rest(key, p, 0) = OpsOf(key)
        BY <4>2 DEF VisitOK, StateAt, Rest, Taken
      <4>4. Fails(key)
        <5>1. ~Completable(Rest(key, p, Len(p.calls)), p.state)
          BY <2>1, <2>3, AtReturn
        <5> QED  BY <4>2, <4>3, <5>1 DEF Fails
      <4> QED  BY <1>1, <1>6, <4>1, <4>4
    <3>3. CASE p.calls # << >>
      <4>1. PICK n \in Nat : Undone(p, q, n)
        BY <3>1, <3>3, BacktrackIs
      <4>2. EntriesOK /\ TimesOK /\ SearchOK(key, p) /\ VisitOK(key, p) /\ p.st = "run" /\ SearchOK(key, q)
        BY <1>1
      <4>3. VisitOK(key, q)
        BY ONLY n \in Nat, <2>1, <2>3, <4>1, <4>2, VisitUndo
      <4>4. q.st = "run"
        BY <4>1 DEF Undone
      <4> QED  BY <1>1, <4>3, <4>4
    <3> QED  BY <3>2, <3>3
  <2> QED  BY <2>2, <2>3
<1> QED  BY <1>7, <1>8, <1>9

-----------------------------------------------------------------------------
(* Every step keeps the invariant.                                         *)

\* What is left to do is a matter of the history only.
LEMMA SameVerdicts ==
  ASSUME entries' = entries, history' = history
  PROVE  /\ TimesOK => TimesOK'
         /\ \A key, p : VisitOK(key, p) => VisitOK(key, p)'
         /\ \A key : Fails(key)' <=> Fails(key)
         /\ KeysOf(history)' = KeysOf(history)
<1>1. \A x : CallAt(x)' = CallAt(x) /\ ReturnAt(x)' = ReturnAt(x)
  BY DEF CallAt, ReturnAt, Position
<1>2. \A x, y : Before(x, y)' <=> Before(x, y)
  BY <1>1, BeforeIs DEF Before, CallAt, ReturnAt
<1>3. TimesOK => TimesOK'
  BY <1>1 DEF TimesOK, IsCall
<1>4. \A R, v : Completable(R, v)' <=> Completable(R, v)
  <2>1. \A R, v, n, ord, f : Plan(R, v, n, ord, f)' <=> Plan(R, v, n, ord, f)
    BY <1>2 DEF Plan
  <2> QED  BY <2>1 DEF Completable
<1>5. \A key : OpsOf(key)' = OpsOf(key)
  BY DEF OpsOf
<1>6. \A key : Fails(key)' <=> Fails(key)
  BY <1>4, <1>5 DEF Fails
<1>7. ASSUME NEW key, NEW p PROVE VisitOK(key, p) => VisitOK(key, p)'
  <2>1. \A j : Taken(p, j)' = Taken(p, j)
    BY DEF Taken
  <2>2. \A j : Rest(key, p, j)' = Rest(key, p, j)
    BY <1>5, <2>1 DEF Rest
  <2>3. \A R, e : NoneReturned(R, e)' <=> NoneReturned(R, e)
    BY <1>1 DEF NoneReturned
  <2>4. \A R, v, e : Explored(R, v, e)' <=> Explored(R, v, e)
    BY <1>1, <1>4 DEF Explored
  <2>5. \A j : Chosen(key, p, j)' <=> Chosen(key, p, j)
    BY <2>2, <2>3, <2>4 DEF Chosen, StateAt
  <2>6. \A c : Settled(key, p, c)' <=> Settled(key, p, c)
    BY <1>4, <1>5, <2>1 DEF Settled, StateAt
  <2> QED  BY <2>2, <2>3, <2>4, <2>5, <2>6 DEF VisitOK, StateAt
<1>8. KeysOf(history)' = KeysOf(history)
  BY DEF KeysOf
<1> QED  BY <1>3, <1>6, <1>7, <1>8

\* There are finitely many keys.
LEMMA KeysFinite ==
  ASSUME TimesOK
  PROVE  IsFiniteSet(KeysOf(history))
<1>1. PICK n \in Nat : DOMAIN history = 1..n
  BY DEF TimesOK
<1>2. IsFiniteSet(1..n)
  BY <1>1, FS_Interval
<1> DEFINE f == [id \in 1..n |-> history[id].key]
<1>3. f \in Surjection(1..n, KeysOf(history))
  BY <1>1 DEF Surjection, KeysOf
<1> HIDE DEF f
<1> QED  BY <1>2, <1>3, FS_Surjection

\* Every search is as before or has made an iteration or sent its result.
LEMMA AllVisits ==
  ASSUME VerdictInv, entries' = entries, history' = history,
         NEW key, key \in DOMAIN search, NEW q, search' = [search EXCEPT ![key] = q], VisitOK(key, q)
  PROVE  TimesOK' /\ \A k \in DOMAIN search' : VisitOK(k, search[k])'
<1>1. TimesOK' /\ \A k, p : VisitOK(k, p) => VisitOK(k, p)'
  BY SameVerdicts DEF VerdictInv
<1>2. ASSUME NEW k \in DOMAIN search' PROVE VisitOK(k, search[k])'
  <2>1. PICK p : p = search'[k]
    OBVIOUS
  <2>2. VisitOK(k, p)
    BY <2>1 DEF VerdictInv
  <2>3. VisitOK(k, p)'
    BY <1>1, <2>2
  <2> QED  BY <2>1, <2>3
<1> QED  BY <1>1, <1>2

\* An iteration of one search.
LEMMA IterateKeeps ==
  ASSUME VerdictInv, NEW key \in DOMAIN search, Iterate(key), ListInv'
  PROVE  VerdictInv'
<1>1. entries' = entries /\ history' = history /\ main' = main /\ kill' = kill
  BY DEF Iterate
<1>2. PICK p : p = search[key]
  OBVIOUS
<1>3. PICK q : q = IF p.next[Head0] = NilNode THEN Ended(p, TRUE)
                   ELSE IF kill THEN Ended(p, FALSE)
                   ELSE IF IsCall(p.entry) THEN TryCall(p) ELSE Backtrack(p)
  OBVIOUS
<1>4. search' = [search EXCEPT ![key] = q] /\ p.st = "run"
  BY <1>2, <1>3 DEF Iterate
<1>5. /\ VisitOK(key, q) /\ (q.st # "run" /\ ~q.result => kill \/ Fails(key)) /\ q.st # "sent"
  <2>1. EntriesOK /\ TimesOK /\ SearchOK(key, p) /\ VisitOK(key, p)
    BY <1>2 DEF VerdictInv, ListInv
  <2> QED  BY ONLY <1>3, <1>4, <2>1, IterationVisits
<1>6. TimesOK' /\ \A k \in DOMAIN search' : VisitOK(k, search[k])'
  BY ONLY VerdictInv, key \in DOMAIN search, <1>1, <1>4, <1>5, AllVisits
<1>7. DOMAIN search' = DOMAIN search /\ search'[key] = q /\ \A k \in DOMAIN search : k # key => search'[k] = search[k]
  BY <1>4
<1>8. (\A k : Fails(k)' <=> Fails(k)) /\ KeysOf(history)' = KeysOf(history)
  BY <1>1, SameVerdicts
<1>9. {k \in DOMAIN search : search[k].st = "sent"} = {k \in DOMAIN search' : search'[k].st = "sent"}
  BY <1>2, <1>4, <1>5, <1>7
<1>10. MainOK
  BY DEF VerdictInv
<1>11. MainOK'
  <2>1. /\ DOMAIN search' = KeysOf(history)'
        /\ main' \in [st : {"loop", "returned"}, ok : BOOLEAN, count : Nat, timedOut : BOOLEAN]
        /\ (kill' => main'.st = "returned")
    BY <1>1, <1>7, <1>8, <1>10 DEF MainOK
  <2>2. ASSUME main.st = "loop"
        PROVE  /\ main.ok /\ main.count = Cardinality({k \in DOMAIN search' : search'[k].st = "sent"})
               /\ \A k \in DOMAIN search' :
                    /\ search'[k].st # "run" /\ ~search'[k].result => Fails(k)
                    /\ search'[k].st = "sent" => search'[k].result
    <3>1. ~kill
      BY <1>10, <2>2 DEF MainOK
    <3>2. main.ok /\ main.count = Cardinality({k \in DOMAIN search : search[k].st = "sent"})
      BY <1>10, <2>2 DEF MainOK
    <3>3. \A k \in DOMAIN search :
            /\ search[k].st # "run" /\ ~search[k].result => Fails(k)
            /\ search[k].st = "sent" => search[k].result
      BY <1>10, <2>2 DEF MainOK
    <3>4. \A k \in DOMAIN search' :
            /\ search'[k].st # "run" /\ ~search'[k].result => Fails(k)
            /\ search'[k].st = "sent" => search'[k].result
      BY <1>5, <1>7, <3>1, <3>3
    <3> QED  BY <1>9, <3>2, <3>4
  <2>3. ASSUME main.st = "returned"
        PROVE  /\ ~main.ok => \E k \in DOMAIN search' : Fails(k)
               /\ main.ok => main.timedOut \/ \A k \in DOMAIN search' :
                                                 search'[k].st = "sent" /\ search'[k].result
    <3>1. /\ ~main.ok => \E k \in DOMAIN search : Fails(k)
          /\ main.ok => main.timedOut \/ search[key].st = "sent"
      BY <1>10, <2>3 DEF MainOK
    <3> QED  BY <1>2, <1>4, <1>7, <3>1
  <2> QED  BY <1>1, <1>8, <2>1, <2>2, <2>3 DEF MainOK
<1> QED  BY <1>6, <1>11 DEF VerdictInv

\* CheckOperationsTimeout receives a result: it fails for the whole history, or it is
\* one more, perhaps the last one.
LEMMA ResultKeeps ==
  ASSUME VerdictInv, NEW key \in DOMAIN search, Result(key), ListInv'
  PROVE  VerdictInv'
<1>1. PICK p : p = search[key]
  OBVIOUS
<1>2. PICK q : q = [p EXCEPT !.st = "sent"]
  OBVIOUS
<1>3. /\ entries' = entries /\ history' = history /\ main.st = "loop" /\ p.st = "send"
      /\ search' = [search EXCEPT ![key] = q] /\ kill' = ~p.result
      /\ main' = [main EXCEPT !.ok = p.result, !.count = IF p.result THEN @ + 1 ELSE @,
                              !.st = IF ~p.result \/ All(main.count + 1) THEN "returned" ELSE "loop"]
  BY <1>1, <1>2 DEF Result
<1>4. SearchOK(key, p) /\ VisitOK(key, p) /\ p \in SearchState(Nodes(key)) /\ p.result \in BOOLEAN
  <2>1. SearchOK(key, p) /\ VisitOK(key, p)
    BY <1>1 DEF VerdictInv, ListInv
  <2>2. p \in SearchState(Nodes(key))
    BY <2>1 DEF SearchOK
  <2>3. p.result \in BOOLEAN
    BY <2>2 DEF SearchState
  <2> QED  BY <2>1, <2>2, <2>3
<1>5. q.st = "sent" /\ q.calls = p.calls /\ q.state = p.state /\ q.cache = p.cache /\ q.result = p.result
  BY <1>2, <1>4 DEF SearchState
<1>6. VisitOK(key, q)
  <2>1. /\ StateAt(q, 0) = << >> /\ \A j \in 1..Len(q.calls) : Chosen(key, q, j)
        /\ \A c \in q.cache : Settled(key, q, c)
        /\ \A j : Rest(key, q, j) = Rest(key, p, j)
    BY <1>4, <1>5, VisitSame
  <2>2. q.result => Rest(key, q, Len(q.calls)) = {}
    BY <1>3, <1>4, <1>5, <2>1 DEF VisitOK
  <2> QED  BY <1>5, <2>1, <2>2 DEF VisitOK
<1>7. TimesOK' /\ \A k \in DOMAIN search' : VisitOK(k, search[k])'
  BY ONLY VerdictInv, key \in DOMAIN search, <1>3, <1>6, AllVisits
<1>8. DOMAIN search' = DOMAIN search /\ search'[key] = q /\ \A k \in DOMAIN search : k # key => search'[k] = search[k]
  BY <1>3
<1>9. (\A k : Fails(k)' <=> Fails(k)) /\ KeysOf(history)' = KeysOf(history)
  BY <1>3, SameVerdicts
<1>10. MainOK
  BY DEF VerdictInv
<1>11. /\ main \in [st : {"loop", "returned"}, ok : BOOLEAN, count : Nat, timedOut : BOOLEAN]
       /\ DOMAIN search = KeysOf(history) /\ main.ok /\ ~kill
  BY <1>3, <1>10 DEF MainOK
<1>12. \A k \in DOMAIN search :
         /\ search[k].st # "run" /\ ~search[k].result => Fails(k)
         /\ search[k].st = "sent" => search[k].result
  BY <1>3, <1>10 DEF MainOK
<1> DEFINE sent == {k \in DOMAIN search : search[k].st = "sent"}
           sentNow == {k \in DOMAIN search' : search'[k].st = "sent"}
<1>13. sentNow = sent \cup {key} /\ key \notin sent /\ main.count = Cardinality(sent)
  BY <1>1, <1>3, <1>5, <1>8, <1>10 DEF MainOK
<1>14. IsFiniteSet(DOMAIN search)
  BY <1>11, KeysFinite DEF VerdictInv
<1>15. Cardinality(sentNow) = main.count + 1 /\ sentNow \in SUBSET DOMAIN search
  <2>1. sent \in SUBSET DOMAIN search /\ sentNow \in SUBSET DOMAIN search
    BY <1>8
  <2> HIDE DEF sent, sentNow
  <2>2. IsFiniteSet(sent)
    BY <1>14, <2>1, FS_Subset
  <2> QED  BY <1>13, <2>1, <2>2, FS_AddElement
<1>16. \A k \in DOMAIN search' :
         /\ search'[k].st = "sent" => search'[k].result \/ (k = key /\ ~p.result)
         /\ search'[k].st # "run" /\ ~search'[k].result => Fails(k)
  <2>1. search[key].st = "send" /\ search[key].result = q.result
    BY <1>1, <1>3, <1>5
  <2> QED  BY <1>5, <1>8, <1>12, <2>1
<1> PICK num \in Nat : num = main.count + 1
  BY <1>11
<1>17. MainOK'
  <2>1. CASE ~p.result
    <3>0. main' = [main EXCEPT !.ok = FALSE, !.count = main.count, !.st = "returned"]
      <4>1. p.result = FALSE
        BY <1>4, <2>1
      <4> QED  BY <1>3, <2>1, <4>1
    <3>1. main'.st = "returned" /\ main'.ok = FALSE /\ main' \in [st : {"loop", "returned"}, ok : BOOLEAN, count : Nat, timedOut : BOOLEAN]
      BY <1>11, <3>0
    <3>2. Fails(key)
      BY <1>1, <1>3, <1>12, <2>1
    <3> QED  BY <1>8, <1>9, <1>11, <3>1, <3>2 DEF MainOK
  <2>2. CASE p.result /\ All(main.count + 1)
    <3>0. main' = [main EXCEPT !.ok = TRUE, !.count = num, !.st = "returned"]
      <4>1. p.result = TRUE
        BY <1>4, <2>2
      <4> QED  BY <1>3, <2>2, <4>1
    <3>1. /\ main'.st = "returned" /\ main'.ok = TRUE
          /\ main' \in [st : {"loop", "returned"}, ok : BOOLEAN, count : Nat, timedOut : BOOLEAN]
      BY <1>11, <3>0
    <3>2. sentNow = DOMAIN search
      <4>1. main.count + 1 >= Cardinality(DOMAIN search)
        BY <2>2 DEF All
      <4> HIDE DEF sent, sentNow
      <4>2. Cardinality(DOMAIN search) \in Nat /\ Cardinality(sentNow) \in Nat /\ Cardinality(sentNow) <= Cardinality(DOMAIN search)
        BY <1>14, <1>15, FS_Subset, FS_CardinalityType
      <4>3. Cardinality(sentNow) = Cardinality(DOMAIN search)
        BY <1>15, <4>1, <4>2
      <4> QED  BY <1>14, <1>15, <4>3, FS_Subset
    <3>3. \A k \in DOMAIN search' : search'[k].st = "sent" /\ search'[k].result
      BY <1>8, <1>16, <2>2, <3>2
    <3> QED  BY <1>3, <1>8, <1>9, <1>11, <2>2, <3>1, <3>3 DEF MainOK
  <2>3. CASE p.result /\ ~All(main.count + 1)
    <3>0. main' = [main EXCEPT !.ok = TRUE, !.count = num, !.st = "loop"]
      <4>1. p.result = TRUE
        BY <1>4, <2>3
      <4> QED  BY <1>3, <2>3, <4>1
    <3>1. /\ main'.st = "loop" /\ main'.ok = TRUE /\ main'.count = num
          /\ main' \in [st : {"loop", "returned"}, ok : BOOLEAN, count : Nat, timedOut : BOOLEAN]
      BY <1>11, <3>0
    <3>2. main'.count = Cardinality({k \in DOMAIN search' : search'[k].st = "sent"})
      BY <1>15, <3>1
    <3> QED  BY <1>3, <1>8, <1>9, <1>11, <1>16, <2>3, <3>1, <3>2 DEF MainOK
  <2> QED  BY <1>4, <2>1, <2>2, <2>3
<1> QED  BY <1>7, <1>17 DEF VerdictInv

\* The time is up, or nothing happens.
LEMMA OtherKeeps ==
  ASSUME VerdictInv, TimeOut \/ UNCHANGED vars, ListInv'
  PROVE  VerdictInv'
<1>1. entries' = entries /\ history' = history /\ search' = search /\ kill' = kill
  BY DEF TimeOut, vars
<1>2. /\ TimesOK' /\ \A k, p : VisitOK(k, p) => VisitOK(k, p)'
      /\ (\A k : Fails(k)' <=> Fails(k)) /\ KeysOf(history)' = KeysOf(history)
  BY <1>1, SameVerdicts DEF VerdictInv
<1>3. ASSUME NEW k \in DOMAIN search' PROVE VisitOK(k, search[k])'
  <2>1. PICK p : p = search'[k]
    OBVIOUS
  <2>2. VisitOK(k, p)'
    BY <1>1, <1>2, <2>1 DEF VerdictInv
  <2> QED  BY <2>1, <2>2
<1>4. MainOK
  BY DEF VerdictInv
<1>5. MainOK'
  <2>1. CASE main' = main
    BY <1>1, <1>2, <1>4, <2>1 DEF MainOK
  <2>2. CASE TimeOut
    <3>1. main.st = "loop" /\ main' = [main EXCEPT !.st = "returned", !.timedOut = TRUE]
      BY <2>2 DEF TimeOut
    <3>2. /\ main \in [st : {"loop", "returned"}, ok : BOOLEAN, count : Nat, timedOut : BOOLEAN]
          /\ main.ok
      BY <1>4, <3>1 DEF MainOK
    <3>3. /\ main'.st = "returned" /\ main'.timedOut = TRUE /\ main'.ok
          /\ main' \in [st : {"loop", "returned"}, ok : BOOLEAN, count : Nat, timedOut : BOOLEAN]
      BY <3>1, <3>2
    <3> QED  BY <1>1, <1>2, <1>4, <3>3 DEF MainOK
  <2> QED  BY <2>1, <2>2 DEF vars
<1> QED  BY <1>2, <1>3, <1>5 DEF VerdictInv

\* Every step keeps the invariant.
LEMMA VerdictInvNext ==
  ASSUME VerdictInv, [Next]_vars
  PROVE  VerdictInv'
<1>1. ListInv'
  BY ListInvNext DEF VerdictInv
<1>2. ASSUME NEW key \in DOMAIN search, Iterate(key) PROVE VerdictInv'
  BY <1>1, <1>2, IterateKeeps
<1>3. ASSUME NEW key \in DOMAIN search, Result(key) PROVE VerdictInv'
  BY <1>1, <1>3, ResultKeeps
<1>4. CASE TimeOut \/ UNCHANGED vars
  BY <1>1, <1>4, OtherKeeps
<1> QED  BY <1>2, <1>3, <1>4 DEF Next

\* At first nothing is taken, and no result has come.
LEMMA VerdictInvInit ==
  ASSUME Init
  PROVE  VerdictInv
<1>1. ListInv /\ TimesOK /\ EntriesOK
  BY ListInvInit, InitTimes DEF ListInv
<1>2. /\ search = [key \in KeysOf(history) |-> NewSearch(history, entries, key)]
      /\ kill = FALSE /\ main = [st |-> "loop", ok |-> TRUE, count |-> 0, timedOut |-> FALSE]
  BY DEF Init
<1>3. ASSUME NEW key \in KeysOf(history)
      PROVE  VisitOK(key, search[key]) /\ search[key].st = "run"
  <2>1. PICK p : p = search[key]
    OBVIOUS
  <2>2. /\ p.calls = << >> /\ p.state = << >> /\ p.cache = {} /\ p.st = "run"
        /\ p.entry = p.next[Head0]
    BY <1>2, <2>1 DEF NewSearch, LinkedEntries
  <2>3. Len(p.calls) = 0
    BY <2>2
  <2>4. StateAt(p, 0) = << >>
    BY <2>2, <2>3 DEF StateAt
  <2>5. NoneReturned(Rest(key, p, 0), p.entry) /\ Explored(Rest(key, p, 0), p.state, p.entry)
    <3>1. PICK R : R = Rest(key, p, 0)
      OBVIOUS
    <3>2. R \subseteq DOMAIN history /\ Left(key, p, 0) = NodesIn(R)
      BY <1>1, <3>1, LeftIsRest
    <3>3. SearchOK(key, p)
      BY <1>1, <1>2, <2>1 DEF ListInv
    <3>4. p.entry = NextIn(NodesIn(R), Head0)
      BY <2>2, <2>3, <3>2, <3>3 DEF SearchOK, ListOf
    <3> QED  BY <1>1, <3>1, <3>2, <3>4, AtHead
  <2> QED  BY <2>1, <2>2, <2>3, <2>4, <2>5 DEF VisitOK
<1>4. DOMAIN search = KeysOf(history)
  BY <1>2
<1>5. MainOK
  <2>1. {key \in DOMAIN search : search[key].st = "sent"} = {}
    BY <1>3, <1>4
  <2>2. main.count = Cardinality({key \in DOMAIN search : search[key].st = "sent"})
    BY <1>2, <2>1, FS_EmptySet
  <2>3. main \in [st : {"loop", "returned"}, ok : BOOLEAN, count : Nat, timedOut : BOOLEAN]
    BY <1>2
  <2> QED  BY <1>2, <1>3, <1>4, <2>2, <2>3 DEF MainOK
<1> QED  BY <1>1, <1>3, <1>4, <1>5 DEF VerdictInv

-----------------------------------------------------------------------------
(* An order of all operations is an order for each key.                    *)

\* An order of the operations has each of them at one place.
LEMMA WholeOrder ==
  ASSUME NEW n, n \in Nat, NEW s, s \in SetToSeqs(1..n)
  PROVE  /\ s \in [1..n -> 1..n] /\ Len(s) = n /\ DOMAIN s = 1..n
         /\ \A i, j \in 1..n : s[i] = s[j] => i = j
         /\ \A x \in 1..n : \E i \in 1..n : s[i] = x
<1>1. IsFiniteSet(1..n) /\ Cardinality(1..n) = n
  BY FS_Interval
<1>2. s \in [1..n -> 1..n] /\ \A i, j \in 1..n : s[i] = s[j] => i = j
  BY <1>1 DEF SetToSeqs
<1>3. Len(s) = n /\ DOMAIN s = 1..n
  BY <1>2
<1>4. s \in Injection(1..n, 1..n)
  BY <1>2 DEF Injection, IsInjective
<1>5. s \in Surjection(1..n, 1..n)
  BY <1>1, <1>4, FS_Injection
<1> QED  BY <1>2, <1>3, <1>5 DEF Surjection

\* What the store holds: store[k] after the first k operations of s.
Stores(store, s, n) ==
  /\ store \in [0..n -> [KeysOf(history) -> Value]]
  /\ \A key \in KeysOf(history) : store[0][key] = << >>
  /\ \A k \in 1..n : \A key \in KeysOf(history) :
       store[k][key] = IF history[s[k]].key = key THEN Step(store[k - 1][key], history[s[k]])
                       ELSE store[k - 1][key]

\* StoreAfter goes through the values that the operations give to their keys.
LEMMA StoreAfterIs ==
  ASSUME TimesOK, NEW n, n \in Nat, DOMAIN history = 1..n, NEW s, s \in [1..n -> 1..n]
  PROVE  Stores(StoreAfter(s), s, n)
<1> DEFINE K == KeysOf(history)
           Store == [K -> Value]
           Upd(t, i) == [t EXCEPT ![history[s[i]].key] = Step(@, history[s[i]])]
           step == [x \in Store \X (1..n) |-> Upd(x[1], x[2])]
           zero == [key \in K |-> << >>]
           Walk(g) == [k \in 0..n |-> IF k = 0 THEN zero ELSE Upd(g[k - 1], k)]
           at == CHOOSE g : g = Walk(g)
<1>0. Len(s) = n
  OBVIOUS
<1>1. StoreAfter(s) = at
  BY <1>0 DEF StoreAfter
<1>2. \A i \in 1..n : s[i] \in DOMAIN history /\ history[s[i]] \in Op /\ history[s[i]].key \in K
  BY DEF TimesOK, KeysOf
<1> HIDE DEF K
<1>3. ASSUME NEW t \in Store, NEW i \in 1..n
      PROVE  /\ Upd(t, i) \in Store
             /\ \A key \in K : Upd(t, i)[key] = IF history[s[i]].key = key THEN Step(t[key], history[s[i]])
                                                ELSE t[key]
  <2>1. PICK a \in K : a = history[s[i]].key
    BY <1>2
  <2>2. PICK w : w = Step(t[a], history[s[i]])
    OBVIOUS
  <2>3. w \in Value
    <3>1. t[a] \in Value
      OBVIOUS
    <3> QED  BY <1>2, <2>2, <3>1, StepType
  <2>4. Upd(t, i) = [t EXCEPT ![a] = w]
    BY <2>1, <2>2
  <2> HIDE DEF Upd
  <2> QED  BY <2>1, <2>2, <2>3, <2>4
<1>4. zero \in Store
  <2>1. << >> \in Value
    BY DEF Value
  <2> QED  BY <2>1
<1> HIDE DEF Upd, Store, zero
<1>5. step \in [Store \X (1..n) -> Store]
  BY <1>3
<1>6. PICK f \in [0..n -> Store] : f[0] = zero /\ \A i \in 1..n : f[i] = step[<<f[i - 1], i>>]
  <2>1. PICK P : P = Store
    OBVIOUS
  <2>2. PICK first : first = zero
    OBVIOUS
  <2>3. PICK turn : turn = step
    OBVIOUS
  <2>4. first \in P
    BY <1>4, <2>1, <2>2
  <2>5. LoopBody(turn, P, n)
    BY <1>5, <2>1, <2>3 DEF LoopBody
  <2> HIDE DEF step
  <2>6. \E f : LoopStates(f, turn, P, first, n)
    BY ONLY n \in Nat, <2>4, <2>5, RecursionExists
  <2> QED  BY <2>1, <2>2, <2>3, <2>6 DEF LoopStates
<1>7. f = Walk(f)
  <2>1. ASSUME NEW i \in 0..n PROVE f[i] = Walk(f)[i]
    <3>1. CASE i = 0
      BY <1>6, <3>1
    <3>2. CASE i # 0
      <4>1. i \in 1..n /\ i - 1 \in 0..n
        BY <3>2
      <4>2. <<f[i - 1], i>> \in Store \X (1..n)
        BY <4>1
      <4>3. f[i] = Upd(f[i - 1], i)
        BY <1>6, <4>1, <4>2
      <4> QED  BY <3>2, <4>3
    <3> QED  BY <3>1, <3>2
  <2> QED  BY <2>1
<1>8. at = Walk(at)
  <2> HIDE DEF Walk
  <2> QED  BY <1>7
<1> HIDE DEF at, step
<1>9. at[0] = zero /\ DOMAIN at = 0..n /\ \A i \in 1..n : at[i] = Upd(at[i - 1], i)
  <2>1. \A g : Walk(g)[0] = zero /\ DOMAIN Walk(g) = 0..n
    OBVIOUS
  <2>2. ASSUME NEW g, NEW i \in 1..n PROVE Walk(g)[i] = Upd(g[i - 1], i)
    <3>1. i \in 0..n /\ i # 0
      OBVIOUS
    <3> QED  BY <3>1
  <2> HIDE DEF Walk
  <2>3. at[0] = zero /\ DOMAIN at = 0..n
    BY <1>8, <2>1
  <2>4. ASSUME NEW i \in 1..n PROVE at[i] = Upd(at[i - 1], i)
    <3>1. Walk(at)[i] = Upd(at[i - 1], i)
      BY <2>2
    <3> QED  BY <1>8, <3>1
  <2> QED  BY <2>3, <2>4
<1> HIDE DEF Walk
<1>10. \A i \in 0..n : at[i] \in Store
  <2> DEFINE T == {i \in 0..n : at[i] \in Store}
  <2>1. 0 \in T
    BY <1>4, <1>9
  <2>2. \A i \in 1..n : i - 1 \in T => i \in T
    BY <1>3, <1>9
  <2>3. 0..n \subseteq T
    <3> HIDE DEF T
    <3> QED  BY <2>1, <2>2, UpToBound
  <2> QED  BY <2>3
<1>11. at \in [0..n -> Store]
  <2>1. at = [i \in 0..n |-> at[i]]
    BY <1>8 DEF Walk
  <2> QED  BY <1>10, <2>1
<1>12. ASSUME NEW i \in 1..n, NEW key \in K
       PROVE  at[i][key] = IF history[s[i]].key = key THEN Step(at[i - 1][key], history[s[i]])
                           ELSE at[i - 1][key]
  <2>1. at[i - 1] \in Store
    BY <1>10
  <2>2. PICK t \in Store : t = at[i - 1]
    BY <2>1
  <2>3. at[i] = Upd(t, i)
    BY <1>9, <2>2
  <2>4. Upd(t, i)[key] = IF history[s[i]].key = key THEN Step(t[key], history[s[i]]) ELSE t[key]
    <3>1. \A k \in K : Upd(t, i)[k] = IF history[s[i]].key = k THEN Step(t[k], history[s[i]]) ELSE t[k]
      BY <1>3, <2>2, Zenon
    <3> QED  BY <3>1, Zenon
  <2> QED  BY <2>2, <2>3, <2>4
<1>13. \A key \in K : at[0][key] = << >>
  BY <1>9 DEF zero
<1> QED  BY <1>1, <1>11, <1>12, <1>13 DEF Stores, Store, K

\* If all operations can be put in order, so can those on one key.
LEMMA RejectedRight ==
  ASSUME EntriesOK, TimesOK, NEW key, key \in KeysOf(history), IsLinearizable
  PROVE  ~Fails(key)
<1>1. PICK n \in Nat : DOMAIN history = 1..n
  BY DEF TimesOK
<1>2. PICK s \in SetToSeqs(1..n) :
        /\ \A m, k \in DOMAIN s : m < k => ~Before(s[k], s[m])
        /\ \A k \in DOMAIN s : Possible(StoreAfter(s)[k - 1][history[s[k]].key], history[s[k]])
  BY <1>1 DEF IsLinearizable
<1>3. /\ s \in [1..n -> 1..n] /\ DOMAIN s = 1..n
      /\ \A i, j \in 1..n : s[i] = s[j] => i = j
      /\ \A x \in 1..n : \E i \in 1..n : s[i] = x
  BY <1>1, WholeOrder
<1>4. PICK store : store = StoreAfter(s)
  OBVIOUS
<1>5. Stores(store, s, n)
  BY <1>1, <1>3, <1>4, StoreAfterIs
<1> DEFINE R == OpsOf(key)
           ord == [x \in R |-> CHOOSE i \in 1..n : s[i] = x]
           f == [k \in 0..n |-> store[k][key]]
<1>6. R \subseteq 1..n /\ \A x \in R : history[x].key = key
  BY <1>1 DEF OpsOf
<1>7. \A x \in R : ord[x] \in 1..n /\ s[ord[x]] = x
  <2>1. ASSUME NEW x \in R PROVE ord[x] \in 1..n /\ s[ord[x]] = x
    <3>1. \E i \in 1..n : s[i] = x
      BY <1>3, <1>6
    <3> QED  BY <3>1
  <2> QED  BY <2>1
<1>8. ord \in [R -> 1..n]
  BY <1>7
<1> HIDE DEF ord
<1>9. \A x, y \in R : ord[x] = ord[y] => x = y
  BY <1>7
<1>10. f \in [0..n -> Value] /\ f[0] = << >> /\ \A k \in 0..n : f[k] = store[k][key]
  BY <1>1, <1>5 DEF Stores
<1> HIDE DEF f
<1>11. ASSUME NEW x \in R
       PROVE  Possible(f[ord[x] - 1], history[x]) /\ f[ord[x]] = Step(f[ord[x] - 1], history[x])
  <2>1. PICK k \in 1..n : k = ord[x]
    BY <1>7
  <2>2. s[k] = x /\ history[s[k]].key = key /\ k - 1 \in 0..n /\ k \in 0..n
    BY <1>1, <1>6, <1>7, <2>1
  <2>3. Possible(store[k - 1][key], history[x])
    BY <1>2, <1>3, <1>4, <2>2
  <2>4. store[k][key] = Step(store[k - 1][key], history[x])
    BY <1>5, <2>2 DEF Stores
  <2>5. f[k] = store[k][key] /\ f[k - 1] = store[k - 1][key]
    BY <1>10, <2>2
  <2> QED  BY <2>1, <2>3, <2>4, <2>5
<1>12. ASSUME NEW k \in 1..n, \A x \in R : ord[x] # k PROVE f[k] = f[k - 1]
  <2>1. k - 1 \in 0..n /\ k \in 0..n
    BY <1>1
  <2>2. s[k] \in 1..n /\ history[s[k]].key # key
    <3>1. s[k] \in 1..n
      BY <1>3
    <3>2. SUFFICES ASSUME history[s[k]].key = key PROVE FALSE
      BY <3>1
    <3>3. s[k] \in R
      BY <1>1, <3>1, <3>2 DEF OpsOf
    <3>4. ord[s[k]] = k
      BY <1>3, <1>7, <3>3
    <3> QED  BY <1>12, <3>3, <3>4
  <2>3. store[k][key] = store[k - 1][key]
    BY <1>5, <2>2 DEF Stores
  <2> QED  BY <1>10, <2>1, <2>3
<1>13. \A x, y \in R : ord[x] < ord[y] => ~Before(y, x)
  <2>1. ASSUME NEW x \in R, NEW y \in R, ord[x] < ord[y] PROVE ~Before(y, x)
    <3>1. ord[x] \in DOMAIN s /\ ord[y] \in DOMAIN s
      BY <1>3, <1>7
    <3>2. ~Before(s[ord[y]], s[ord[x]])
      BY <1>2, <2>1, <3>1
    <3> QED  BY <1>7, <3>2
  <2> QED  BY <2>1
<1>14. Plan(R, << >>, n, ord, f)
  BY <1>8, <1>9, <1>10, <1>11, <1>12, <1>13 DEF Plan
<1> QED  BY <1>1, <1>14 DEF Fails, Completable

-----------------------------------------------------------------------------
(* Orders for each key are merged into one.                                *)

\* The operations on a key in the order x, with the values v between them; none is
\* called after a later one has returned.
KeyOrder(key, d, x, v) ==
  /\ d \in Nat /\ x \in [1..d -> OpsOf(key)] /\ v \in [0..d -> Value]
  /\ \A i, j \in 1..d : x[i] = x[j] => i = j
  /\ \A id \in OpsOf(key) : \E i \in 1..d : x[i] = id
  /\ v[0] = << >>
  /\ \A j \in 1..d : Possible(v[j - 1], history[x[j]]) /\ v[j] = Step(v[j - 1], history[x[j]])
  /\ \A i, j \in 1..d : i <= j => CallAt(x[i]) < ReturnAt(x[j])

StackIds(p) == [j \in 1..Len(p.calls) |-> entries[p.calls[j].entry].id]
StackValues(p) == [j \in 0..Len(p.calls) |-> StateAt(p, j)]

\* The stack of a search that has succeeded is an order of all the operations.
LEMMA StackIsOrder ==
  ASSUME EntriesOK, TimesOK, NEW key, NEW p, SearchOK(key, p), VisitOK(key, p), p.st = "sent", p.result
  PROVE  KeyOrder(key, Len(p.calls), StackIds(p), StackValues(p))
<1>1. PICK d \in Nat : d = Len(p.calls)
  BY DEF SearchOK, SearchState
<1>2. PICK x : x = StackIds(p)
  OBVIOUS
<1>3. PICK v : v = StackValues(p)
  OBVIOUS
<1>4. Rest(key, p, d) = {}
  BY <1>1 DEF VisitOK
<1>5. ASSUME NEW j \in 1..d
      PROVE  /\ p.calls[j].entry \in Nodes(key) /\ p.calls[j].state \in Value
             /\ x[j] \in OpsOf(key) /\ IsCall(p.calls[j].entry) /\ p.calls[j].entry = CallAt(x[j])
             /\ \A i \in 1..(j - 1) : x[i] # x[j]
  <2>1. PICK a : a = p.calls[j].entry
    OBVIOUS
  <2>2. p.calls \in Seq([entry : Nodes(key), state : Value])
    BY DEF SearchOK, SearchState
  <2>3. a \in Nodes(key) /\ p.calls[j].state \in Value
    <3>1. PICK cs \in Seq([entry : Nodes(key), state : Value]) : cs = p.calls
      BY <2>2
    <3>2. j \in 1..Len(cs)
      BY <1>1, <3>1
    <3>3. cs[j] \in [entry : Nodes(key), state : Value]
      BY <3>2, ElementOfSeq
    <3> QED  BY <2>1, <3>1, <3>3
  <2>4. IsCall(a) /\ a \in Left(key, p, j - 1)
    BY <1>1, <2>1 DEF SearchOK, Lifted
  <2>5. x[j] = entries[a].id /\ \A i \in 1..(j - 1) : x[i] = entries[p.calls[i].entry].id
    BY <1>1, <1>2, <2>1 DEF StackIds
  <2>6. a \in DOMAIN entries /\ history[entries[a].id].key = key /\ entries[a].id \in DOMAIN history
    BY <2>3 DEF Nodes, NodesOf, EntriesOK
  <2>7. a = CallAt(entries[a].id)
    BY <2>4, <2>6 DEF TimesOK
  <2>8. \A i \in 1..(j - 1) : x[i] # x[j]
    BY <2>4, <2>5 DEF Left
  <2> QED  BY <2>1, <2>3, <2>4, <2>5, <2>6, <2>7, <2>8 DEF OpsOf
<1>6. x \in [1..d -> OpsOf(key)]
  BY <1>1, <1>2, <1>5 DEF StackIds
<1>7. \A j \in 0..d : v[j] = StateAt(p, j)
  BY <1>1, <1>3 DEF StackValues
<1>8. \A j \in 1..d : v[j - 1] = p.calls[j].state
  BY <1>1, <1>7 DEF StateAt
<1>9. v[d] \in Value
  BY <1>1, <1>7 DEF StateAt, SearchOK, SearchState
<1>10. v \in [0..d -> Value]
  <2>1. ASSUME NEW j \in 0..d PROVE v[j] \in Value
    <3>1. CASE j = d
      BY <1>9, <3>1
    <3>2. CASE j # d
      <4>1. j + 1 \in 1..d /\ (j + 1) - 1 = j
        BY <3>2
      <4> QED  BY <1>5, <1>8, <4>1
    <3> QED  BY <3>1, <3>2
  <2>2. v = [j \in 0..d |-> v[j]]
    BY <1>1, <1>3 DEF StackValues
  <2> QED  BY <2>1, <2>2
<1>11. \A i, j \in 1..d : x[i] = x[j] => i = j
  <2>1. ASSUME NEW i \in 1..d, NEW j \in 1..d, i < j PROVE x[i] # x[j]
    <3>1. i \in 1..(j - 1)
      BY <2>1
    <3> QED  BY <1>5, <3>1
  <2>2. \A i, j \in 1..d : i = j \/ i < j \/ j < i
    OBVIOUS
  <2> QED  BY <2>1, <2>2
<1>12. \A id \in OpsOf(key) : \E i \in 1..d : x[i] = id
  <2>1. ASSUME NEW id \in OpsOf(key) PROVE \E i \in 1..d : x[i] = id
    <3>1. id \in Taken(p, d)
      BY <1>4 DEF Rest
    <3>2. PICK l \in 1..d : id = entries[p.calls[l].entry].id
      BY <3>1 DEF Taken
    <3> QED  BY <1>1, <1>2, <3>2 DEF StackIds
  <2> QED  BY <2>1
<1>13. v[0] = << >>
  BY <1>7 DEF VisitOK
<1>14. ASSUME NEW j \in 1..d
       PROVE  /\ Possible(v[j - 1], history[x[j]]) /\ v[j] = Step(v[j - 1], history[x[j]])
              /\ NoneReturned(Rest(key, p, j - 1), CallAt(x[j]))
  <2>1. Chosen(key, p, j)
    BY <1>1 DEF VisitOK
  <2>2. x[j] = entries[p.calls[j].entry].id
    BY <1>1, <1>2 DEF StackIds
  <2>3. v[j - 1] = p.calls[j].state /\ v[j] = StateAt(p, j)
    BY <1>7, <1>8
  <2>4. p.calls[j].entry = CallAt(x[j])
    BY <1>5
  <2> QED  BY <2>1, <2>2, <2>3, <2>4 DEF Chosen
<1>15. ASSUME NEW i \in 1..d, NEW j \in 1..d, i <= j PROVE CallAt(x[i]) < ReturnAt(x[j])
  <2>1. x[i] \in OpsOf(key) /\ x[j] \in OpsOf(key) /\ OpsOf(key) \subseteq DOMAIN history
    BY <1>5 DEF OpsOf
  <2>2. CallAt(x[i]) \in Nat /\ ReturnAt(x[j]) \in Nat /\ CallAt(x[i]) # ReturnAt(x[j])
    BY <2>1, PlaceFacts
  <2>3. x[j] \in Rest(key, p, i - 1)
    <3>1. ASSUME NEW l \in 1..(i - 1) PROVE x[j] # entries[p.calls[l].entry].id
      <4>1. l \in 1..d /\ l # j
        BY <1>15
      <4>2. x[l] = entries[p.calls[l].entry].id
        BY <1>1, <1>2, <4>1 DEF StackIds
      <4> QED  BY <1>11, <4>1, <4>2
    <3> QED  BY <2>1, <3>1 DEF Rest, Taken
  <2>4. ReturnAt(x[j]) >= CallAt(x[i])
    BY <1>14, <2>3 DEF NoneReturned
  <2> QED  BY <2>2, <2>4
<1>16. KeyOrder(key, d, x, v)
  BY <1>6, <1>10, <1>11, <1>12, <1>13, <1>14, <1>15 DEF KeyOrder
<1> QED  BY <1>1, <1>2, <1>3, <1>16

\* A strict total order on the operations, as a set of pairs.
StrictOrder(L, n) ==
  /\ \A a \in 1..n : <<a, a>> \notin L
  /\ \A a, b, c \in 1..n : <<a, b>> \in L /\ <<b, c>> \in L => <<a, c>> \in L
  /\ \A a, b \in 1..n : a # b => <<a, b>> \in L \/ <<b, a>> \in L

\* The places of the operations in a sequence that keeps to an order.
Sorted(L, n, s, pos) ==
  /\ s \in [1..n -> 1..n] /\ pos \in [1..n -> 1..n]
  /\ \A i \in 1..n : pos[s[i]] = i /\ s[pos[i]] = i
  /\ \A i, j \in 1..n : i < j => <<s[i], s[j]>> \in L

\* Finitely many operations can be sorted.
LEMMA SortedExists ==
  ASSUME NEW n, n \in Nat, NEW L, StrictOrder(L, n)
  PROVE  \E s, pos : Sorted(L, n, s, pos)
<1> DEFINE Upto(a) == {b \in 1..n : b = a \/ <<b, a>> \in L}
           pos == [a \in 1..n |-> Cardinality(Upto(a))]
<1>1. IsFiniteSet(1..n) /\ Cardinality(1..n) = n
  BY FS_Interval
<1>2. ASSUME NEW a \in 1..n
      PROVE  IsFiniteSet(Upto(a)) /\ Cardinality(Upto(a)) \in 1..n
  <2>1. Upto(a) \in SUBSET (1..n) /\ a \in Upto(a)
    OBVIOUS
  <2> HIDE DEF Upto
  <2>2. IsFiniteSet(Upto(a)) /\ Cardinality(Upto(a)) <= n
    BY <1>1, <2>1, FS_Subset
  <2>3. Cardinality(Upto(a)) \in Nat /\ Cardinality(Upto(a)) # 0
    BY <2>1, <2>2, FS_CardinalityType, FS_EmptySet
  <2> QED  BY <2>2, <2>3
<1>3. ASSUME NEW a \in 1..n, NEW b \in 1..n, <<b, a>> \in L
      PROVE  Cardinality(Upto(b)) < Cardinality(Upto(a))
  <2>1. a \notin Upto(b)
    BY <1>3 DEF StrictOrder
  <2>2. Upto(b) \in SUBSET Upto(a) /\ a \in Upto(a)
    BY <1>3 DEF StrictOrder
  <2> HIDE DEF Upto
  <2>3. Cardinality(Upto(b)) <= Cardinality(Upto(a)) /\ Cardinality(Upto(b)) # Cardinality(Upto(a))
    BY <1>2, <2>1, <2>2, FS_Subset
  <2> QED  BY <1>2, <2>3
<1>4. \A a \in 1..n : pos[a] = Cardinality(Upto(a))
  OBVIOUS
<1>5. pos \in [1..n -> 1..n]
  BY <1>2
<1> HIDE DEF Upto, pos
<1>6. \A a, b \in 1..n : <<b, a>> \in L => pos[b] < pos[a]
  BY <1>3, <1>4
<1>7. \A a, b \in 1..n : pos[b] = pos[a] => b = a
  <2>1. ASSUME NEW a \in 1..n, NEW b \in 1..n, b # a PROVE pos[b] # pos[a]
    <3>1. <<a, b>> \in L \/ <<b, a>> \in L
      BY <2>1 DEF StrictOrder
    <3>2. pos[a] < pos[b] \/ pos[b] < pos[a]
      BY <1>6, <3>1
    <3>3. pos[a] \in Nat /\ pos[b] \in Nat
      BY <1>5
    <3> QED  BY <3>2, <3>3
  <2> QED  BY <2>1
<1>8. \A i \in 1..n : \E a \in 1..n : pos[a] = i
  <2>1. pos \in Injection(1..n, 1..n)
    BY <1>5, <1>7 DEF Injection, IsInjective
  <2>2. pos \in Surjection(1..n, 1..n)
    BY <1>1, <2>1, FS_Injection
  <2> QED  BY <2>2 DEF Surjection
<1> DEFINE s == [i \in 1..n |-> CHOOSE a \in 1..n : pos[a] = i]
<1>9. \A i \in 1..n : s[i] \in 1..n /\ pos[s[i]] = i
  BY <1>8
<1>10. s \in [1..n -> 1..n]
  BY <1>9
<1> HIDE DEF s
<1>11. \A i \in 1..n : s[pos[i]] = i
  BY <1>5, <1>7, <1>9
<1>12. ASSUME NEW i \in 1..n, NEW j \in 1..n, i < j PROVE <<s[i], s[j]>> \in L
  <2>1. s[i] # s[j] /\ s[i] \in 1..n /\ s[j] \in 1..n
    BY <1>9, <1>12
  <2>2. <<s[i], s[j]>> \in L \/ <<s[j], s[i]>> \in L
    BY <2>1 DEF StrictOrder
  <2>3. ~(<<s[j], s[i]>> \in L)
    <3>1. <<s[j], s[i]>> \in L => j < i
      BY <1>6, <1>9, <2>1
    <3> QED  BY <1>12, <3>1
  <2> QED  BY <2>2, <2>3
<1>13. Sorted(L, n, s, pos)
  BY <1>5, <1>9, <1>10, <1>11, <1>12 DEF Sorted
<1> QED  BY <1>13

\* An order for every key, and one sequence s of all operations that keeps to them;
\* pos gives the place of each.
Merged(n, d, x, v, s, pos) ==
  /\ \A key \in KeysOf(history) : KeyOrder(key, d[key], x[key], v[key])
  /\ s \in [1..n -> 1..n] /\ pos \in [1..n -> 1..n]
  /\ \A i \in 1..n : pos[s[i]] = i /\ s[pos[i]] = i
  /\ \A key \in KeysOf(history) : \A i, j \in 1..d[key] : i < j => pos[x[key][i]] < pos[x[key][j]]

\* After k operations of the sequence, j operations on the key are done.
DoneOn(key, k, j, d, x, v, pos, store) ==
  /\ j \in 0..d[key] /\ store[k][key] = v[key][j]
  /\ \A i \in 1..d[key] : i <= j <=> pos[x[key][i]] <= k

\* The next operation of the sequence is the next one on its key.
LEMMA MergeStep ==
  ASSUME TimesOK, NEW n, n \in Nat, DOMAIN history = 1..n,
         NEW d, NEW x, NEW v, NEW s, NEW pos, Merged(n, d, x, v, s, pos),
         NEW store, Stores(store, s, n), NEW k, k \in 1..n,
         \A key \in KeysOf(history) : \E j : DoneOn(key, k - 1, j, d, x, v, pos, store)
  PROVE  /\ Possible(store[k - 1][history[s[k]].key], history[s[k]])
         /\ \A key \in KeysOf(history) : \E j : DoneOn(key, k, j, d, x, v, pos, store)
<1>1. PICK id \in 1..n : id = s[k] /\ pos[id] = k
  BY DEF Merged
<1>2. PICK key \in KeysOf(history) : key = history[id].key
  BY DEF KeysOf
<1>3. id \in OpsOf(key) /\ \A other : OpsOf(other) \subseteq 1..n
  BY <1>2 DEF OpsOf
<1>4. KeyOrder(key, d[key], x[key], v[key])
  BY DEF Merged
<1>5. PICK len \in Nat : len = d[key]
  BY <1>4 DEF KeyOrder
<1>6. PICK ids : ids = x[key]
  OBVIOUS
<1>7. PICK vals : vals = v[key]
  OBVIOUS
<1>8. KeyOrder(key, len, ids, vals)
  BY <1>4, <1>5, <1>6, <1>7
<1>9. ids \in [1..len -> OpsOf(key)] /\ \A i \in 1..len : ids[i] \in 1..n
  BY <1>3, <1>8 DEF KeyOrder
<1>10. PICK e \in 1..len : ids[e] = id
  BY <1>3, <1>8 DEF KeyOrder
<1>11. pos \in [1..n -> 1..n] /\ \A i, j \in 1..len : i < j => pos[ids[i]] < pos[ids[j]]
  BY <1>5, <1>6 DEF Merged
<1>12. PICK j \in 0..len : /\ store[k - 1][key] = vals[j]
                           /\ \A i \in 1..len : i <= j <=> pos[ids[i]] <= k - 1
  BY <1>5, <1>6, <1>7 DEF DoneOn
<1>13. \A i \in 1..len : pos[ids[i]] \in Nat
  BY <1>9, <1>11
<1>14. e = j + 1
  <2>1. ~(e <= j)
    BY <1>1, <1>10, <1>12
  <2>2. ASSUME e > j + 1 PROVE FALSE
    <3>1. j + 1 \in 1..len /\ j + 1 < e
      BY <2>2
    <3>2. pos[ids[j + 1]] < k
      BY <1>1, <1>10, <1>11, <3>1
    <3>3. pos[ids[j + 1]] <= k - 1
      BY <1>13, <3>1, <3>2
    <3>4. j + 1 <= j
      BY <1>12, <3>1, <3>3
    <3> QED  BY <3>4
  <2> QED  BY <2>1, <2>2
<1>15. e - 1 = j
  BY <1>14
<1>16. Possible(vals[j], history[id]) /\ vals[e] = Step(vals[j], history[id])
  BY <1>8, <1>10, <1>15 DEF KeyOrder
<1>17. Possible(store[k - 1][history[s[k]].key], history[s[k]])
  BY <1>1, <1>2, <1>12, <1>16
<1>18. DoneOn(key, k, e, d, x, v, pos, store)
  <2>1. store[k][key] = vals[e]
    <3>1. store[k][key] = Step(store[k - 1][key], history[id])
      BY <1>1, <1>2 DEF Stores
    <3> QED  BY <1>12, <1>16, <3>1
  <2>2. ASSUME NEW i \in 1..len PROVE i <= e <=> pos[ids[i]] <= k
    <3>1. CASE i <= j
      <4>1. pos[ids[i]] <= k - 1
        BY <1>12, <3>1
      <4> QED  BY <1>13, <1>14, <3>1, <4>1
    <3>2. CASE i = e
      BY <1>1, <1>10, <3>2
    <3>3. CASE i > e
      <4>1. k < pos[ids[i]]
        BY <1>1, <1>10, <1>11, <3>3
      <4> QED  BY <1>13, <3>3, <4>1
    <3>4. i <= j \/ i = e \/ i > e
      BY <1>14
    <3> QED  BY <3>1, <3>2, <3>3, <3>4
  <2>3. e \in 0..d[key]
    BY <1>5
  <2> QED  BY <1>5, <1>6, <1>7, <2>1, <2>2, <2>3 DEF DoneOn
<1>19. ASSUME NEW other \in KeysOf(history), other # key
       PROVE  \E l : DoneOn(other, k, l, d, x, v, pos, store)
  <2>1. PICK l : DoneOn(other, k - 1, l, d, x, v, pos, store)
    OBVIOUS
  <2>2. KeyOrder(other, d[other], x[other], v[other])
    BY DEF Merged
  <2>3. store[k][other] = store[k - 1][other]
    BY <1>1, <1>2, <1>19 DEF Stores
  <2>4. ASSUME NEW i \in 1..d[other] PROVE pos[x[other][i]] <= k - 1 <=> pos[x[other][i]] <= k
    <3>1. x[other][i] \in OpsOf(other)
      BY <2>2 DEF KeyOrder
    <3>2. x[other][i] \in 1..n /\ history[x[other][i]].key = other
      BY <1>3, <3>1 DEF OpsOf
    <3>3. x[other][i] # id
      BY <1>2, <1>19, <3>2
    <3>4. pos[x[other][i]] # k /\ pos[x[other][i]] \in Nat
      <4>1. PICK y \in 1..n : y = x[other][i]
        BY <3>2
      <4>2. s[pos[y]] = y /\ pos[y] \in 1..n
        BY <1>11 DEF Merged
      <4> QED  BY <1>1, <3>3, <4>1, <4>2
    <3> QED  BY <3>4
  <2>5. DoneOn(other, k, l, d, x, v, pos, store)
    BY <2>1, <2>3, <2>4 DEF DoneOn
  <2> QED  BY <2>5
<1> QED  BY <1>17, <1>18, <1>19

\* So every output is explained.
LEMMA MergedExplains ==
  ASSUME TimesOK, NEW n, n \in Nat, DOMAIN history = 1..n,
         NEW d, NEW x, NEW v, NEW s, NEW pos, Merged(n, d, x, v, s, pos)
  PROVE  \A k \in 1..n : Possible(StoreAfter(s)[k - 1][history[s[k]].key], history[s[k]])
<1>1. PICK store : store = StoreAfter(s)
  OBVIOUS
<1>2. Stores(store, s, n)
  BY <1>1, StoreAfterIs DEF Merged
<1> DEFINE Along(k) == \A key \in KeysOf(history) : \E j : DoneOn(key, k, j, d, x, v, pos, store)
           T == {k \in 0..n : Along(k)}
<1>3. ASSUME NEW k \in 1..n, Along(k - 1)
      PROVE  Possible(store[k - 1][history[s[k]].key], history[s[k]]) /\ Along(k)
  BY ONLY TimesOK, n \in Nat, DOMAIN history = 1..n, Merged(n, d, x, v, s, pos), <1>2, <1>3, MergeStep
<1>4. Along(0)
  <2>1. ASSUME NEW key \in KeysOf(history) PROVE DoneOn(key, 0, 0, d, x, v, pos, store)
    <3>1. KeyOrder(key, d[key], x[key], v[key])
      BY DEF Merged
    <3>2. d[key] \in Nat /\ v[key][0] = << >>
      BY <3>1 DEF KeyOrder
    <3>3. store[0][key] = v[key][0]
      BY <1>2, <3>2 DEF Stores
    <3>4. ASSUME NEW i \in 1..d[key] PROVE ~(i <= 0) /\ ~(pos[x[key][i]] <= 0)
      <4>1. x[key][i] \in OpsOf(key)
        BY <3>1 DEF KeyOrder
      <4>2. x[key][i] \in 1..n
        BY <4>1 DEF OpsOf
      <4>3. pos[x[key][i]] \in 1..n
        BY <4>2 DEF Merged
      <4> QED  BY <3>2, <4>3
    <3> QED  BY <3>2, <3>3, <3>4 DEF DoneOn
  <2> QED  BY <2>1
<1> HIDE DEF Along
<1>5. 0..n \subseteq T
  <2>1. 0 \in T
    BY <1>4
  <2>2. \A i \in 1..n : i - 1 \in T => i \in T
    BY <1>3
  <2> HIDE DEF T
  <2> QED  BY <2>1, <2>2, UpToBound
<1>6. ASSUME NEW k \in 1..n PROVE Along(k - 1)
  <2>1. k - 1 \in 0..n
    OBVIOUS
  <2> QED  BY <1>5, <2>1
<1> QED  BY <1>1, <1>3, <1>6

\* When an operation takes effect: the last call among those that come before it on
\* its key, and its own.
Effects(n, d, x, idx, point) ==
  /\ idx \in [1..n -> Nat] /\ point \in [1..n -> Nat]
  /\ \A a \in 1..n : /\ idx[a] \in 1..d[history[a].key] /\ x[history[a].key][idx[a]] = a
                     /\ CallAt(a) <= point[a] /\ point[a] < ReturnAt(a)
  /\ \A a, b \in 1..n :
       /\ history[a].key = history[b].key /\ idx[a] <= idx[b] => point[a] <= point[b]
       /\ point[a] = point[b] => history[a].key = history[b].key

LEMMA EffectsExist ==
  ASSUME EntriesOK, TimesOK, NEW n, n \in Nat, DOMAIN history = 1..n,
         NEW d, NEW x, NEW v, \A key \in KeysOf(history) : KeyOrder(key, d[key], x[key], v[key])
  PROVE  \E idx, point : Effects(n, d, x, idx, point)
<1> DEFINE K(a) == history[a].key
           idx == [a \in 1..n |-> CHOOSE i \in 1..d[K(a)] : x[K(a)][i] = a]
           Calls(a) == {CallAt(x[K(a)][i]) : i \in 1..idx[a]}
           point == [a \in 1..n |-> Max(Calls(a))]
<1>1. \A a \in 1..n : K(a) \in KeysOf(history) /\ a \in OpsOf(K(a))
  BY DEF KeysOf, OpsOf
<1>2. \A key : \A a \in OpsOf(key) : a \in 1..n /\ history[a].key = key
  BY DEF OpsOf
<1>3. \A a \in 1..n : d[K(a)] \in Nat /\ x[K(a)] \in [1..d[K(a)] -> OpsOf(K(a))]
  BY <1>1 DEF KeyOrder
<1>4. \A a \in 1..n : idx[a] \in 1..d[K(a)] /\ x[K(a)][idx[a]] = a
  <2>1. ASSUME NEW a \in 1..n PROVE idx[a] \in 1..d[K(a)] /\ x[K(a)][idx[a]] = a
    <3>1. \E i \in 1..d[K(a)] : x[K(a)][i] = a
      BY <1>1 DEF KeyOrder
    <3> QED  BY <3>1
  <2> QED  BY <2>1
<1>5. idx \in [1..n -> Nat]
  <2>1. ASSUME NEW a \in 1..n PROVE idx[a] \in Nat
    <3> HIDE DEF idx
    <3>1. idx[a] \in 1..d[K(a)] /\ d[K(a)] \in Nat
      BY <1>3, <1>4
    <3> QED  BY <3>1
  <2> QED  BY <2>1
<1> HIDE DEF idx
<1>6. ASSUME NEW a \in 1..n
      PROVE  /\ Max(Calls(a)) \in Calls(a) /\ \A c \in Calls(a) : c <= Max(Calls(a))
             /\ Calls(a) \subseteq Nat /\ CallAt(a) \in Calls(a) /\ \A c \in Calls(a) : c < ReturnAt(a)
             /\ \A c \in Calls(a) : \E y \in OpsOf(K(a)) : c = CallAt(y)
  <2>1. PICK m \in 1..d[K(a)] : m = idx[a] /\ m \in Nat
    BY <1>3, <1>4
  <2>2. ASSUME NEW i \in 1..m
        PROVE  /\ CallAt(x[K(a)][i]) \in Nat /\ CallAt(x[K(a)][i]) < ReturnAt(a)
               /\ x[K(a)][i] \in OpsOf(K(a))
    <3>1. i \in 1..d[K(a)] /\ i <= m
      BY <1>3, <2>1
    <3>2. x[K(a)][i] \in OpsOf(K(a))
      BY <1>3, <3>1
    <3>3. CallAt(x[K(a)][i]) \in Nat
      BY <1>2, <3>2, PlaceFacts
    <3>4. CallAt(x[K(a)][i]) < ReturnAt(x[K(a)][m])
      BY <1>1, <2>1, <3>1 DEF KeyOrder
    <3> QED  BY <1>4, <2>1, <3>2, <3>3, <3>4
  <2>3. /\ Calls(a) \subseteq Nat /\ \A c \in Calls(a) : c < ReturnAt(a)
        /\ \A c \in Calls(a) : \E y \in OpsOf(K(a)) : c = CallAt(y)
    BY <2>1, <2>2
  <2>4. CallAt(a) \in Calls(a)
    BY <1>4, <2>1
  <2>5. ReturnAt(a) \in Nat
    BY PlaceFacts
  <2> HIDE DEF Calls
  <2>6. \A c \in Calls(a) : c <= ReturnAt(a)
    BY <2>3, <2>5
  <2>7. Max(Calls(a)) \in Calls(a) /\ \A c \in Calls(a) : c <= Max(Calls(a))
    BY <2>3, <2>4, <2>5, <2>6, MaxOfBounded
  <2> QED  BY <2>3, <2>4, <2>7
<1>7. ASSUME NEW a \in 1..n, NEW b \in 1..n, K(a) = K(b), idx[a] <= idx[b] PROVE Calls(a) \subseteq Calls(b)
  <2>1. idx[a] \in Nat /\ idx[b] \in Nat
    BY <1>5
  <2>2. 1..idx[a] \subseteq 1..idx[b]
    BY <1>7, <2>1
  <2> QED  BY <1>7, <2>2
<1> HIDE DEF Calls
<1>8. \A a \in 1..n : point[a] \in Calls(a) /\ \A c \in Calls(a) : c <= point[a]
  BY <1>6
<1>9. point \in [1..n -> Nat]
  BY <1>6
<1> HIDE DEF point
<1>10. \A a \in 1..n : CallAt(a) <= point[a] /\ point[a] < ReturnAt(a)
  BY <1>6, <1>8
<1>11. ASSUME NEW a \in 1..n, NEW b \in 1..n, K(a) = K(b), idx[a] <= idx[b] PROVE point[a] <= point[b]
  <2>1. Calls(a) \subseteq Calls(b)
    BY <1>7, <1>11
  <2> QED  BY <1>8, <2>1
<1>12. ASSUME NEW a \in 1..n, NEW b \in 1..n, point[a] = point[b] PROVE K(a) = K(b)
  <2>1. PICK y \in OpsOf(K(a)) : point[a] = CallAt(y)
    BY <1>6, <1>8
  <2>2. PICK z \in OpsOf(K(b)) : point[b] = CallAt(z)
    BY <1>6, <1>8
  <2>3. y \in DOMAIN history /\ z \in DOMAIN history /\ CallAt(y) = CallAt(z)
    BY <1>2, <1>12, <2>1, <2>2
  <2>4. y = z
    BY <2>3, PlaceFacts
  <2> QED  BY <1>2, <2>4
<1>13. Effects(n, d, x, idx, point)
  BY <1>4, <1>5, <1>9, <1>10, <1>11, <1>12 DEF Effects
<1> QED  BY <1>13

\* The operations sorted by these points, and on the same key in the order found:
\* no operation comes after one that was called when it had returned.
LEMMA EffectsSorted ==
  ASSUME EntriesOK, TimesOK, NEW n, n \in Nat, DOMAIN history = 1..n,
         NEW d, NEW x, NEW v, \A key \in KeysOf(history) : KeyOrder(key, d[key], x[key], v[key]),
         NEW idx, NEW point, Effects(n, d, x, idx, point)
  PROVE  \E s, pos : /\ Merged(n, d, x, v, s, pos)
                     /\ \A i, j \in 1..n : i < j => ~Before(s[j], s[i])
<1> DEFINE Lex(a, b) == point[a] < point[b] \/ (point[a] = point[b] /\ idx[a] < idx[b])
           L == {w \in (1..n) \X (1..n) : Lex(w[1], w[2])}
<1>1. \A a, b \in 1..n : <<a, b>> \in L <=> Lex(a, b)
  OBVIOUS
<1>2. idx \in [1..n -> Nat] /\ point \in [1..n -> Nat]
  BY DEF Effects
<1> HIDE DEF L
<1>3. \A a \in 1..n : ~Lex(a, a)
  BY <1>2
<1>4. \A a, b, c \in 1..n : Lex(a, b) /\ Lex(b, c) => Lex(a, c)
  <2>1. ASSUME NEW a \in 1..n, NEW b \in 1..n, NEW c \in 1..n, Lex(a, b), Lex(b, c) PROVE Lex(a, c)
    <3>1. /\ point[a] \in Nat /\ point[b] \in Nat /\ point[c] \in Nat
          /\ idx[a] \in Nat /\ idx[b] \in Nat /\ idx[c] \in Nat
      BY <1>2
    <3> QED  BY <2>1, <3>1
  <2> QED  BY <2>1
<1>5. ASSUME NEW a \in 1..n, NEW b \in 1..n, a # b PROVE Lex(a, b) \/ Lex(b, a)
  <2>1. point[a] \in Nat /\ point[b] \in Nat /\ idx[a] \in Nat /\ idx[b] \in Nat
    BY <1>2
  <2>2. ~(point[a] = point[b] /\ idx[a] = idx[b])
    <3>1. SUFFICES ASSUME point[a] = point[b], idx[a] = idx[b] PROVE FALSE
      OBVIOUS
    <3>2. history[a].key = history[b].key
      BY <3>1 DEF Effects
    <3>3. x[history[a].key][idx[a]] = a /\ x[history[b].key][idx[b]] = b
      BY DEF Effects
    <3> QED  BY <1>5, <3>1, <3>2, <3>3
  <2> QED  BY <2>1, <2>2
<1> HIDE DEF Lex
<1>6. StrictOrder(L, n)
  BY <1>1, <1>3, <1>4, <1>5 DEF StrictOrder
<1>7. PICK s, pos : Sorted(L, n, s, pos)
  BY <1>6, SortedExists
<1>8. /\ s \in [1..n -> 1..n] /\ pos \in [1..n -> 1..n]
      /\ \A i \in 1..n : pos[s[i]] = i /\ s[pos[i]] = i
      /\ \A i, j \in 1..n : i < j => Lex(s[i], s[j])
  BY <1>1, <1>7 DEF Sorted
<1>9. ASSUME NEW a \in 1..n, NEW b \in 1..n, Lex(a, b) PROVE pos[a] < pos[b]
  <2>1. pos[a] \in 1..n /\ pos[b] \in 1..n /\ s[pos[a]] = a /\ s[pos[b]] = b
    BY <1>8
  <2>2. CASE pos[a] = pos[b]
    BY <1>3, <1>9, <2>1, <2>2
  <2>3. CASE pos[b] < pos[a]
    <3>1. Lex(b, a)
      BY <1>8, <2>1, <2>3
    <3> QED  BY <1>3, <1>4, <1>9, <3>1
  <2>4. pos[a] = pos[b] \/ pos[b] < pos[a] \/ pos[a] < pos[b]
    BY <2>1
  <2> QED  BY <2>2, <2>3, <2>4
<1>10. ASSUME NEW key \in KeysOf(history), NEW i \in 1..d[key], NEW j \in 1..d[key], i < j
       PROVE  pos[x[key][i]] < pos[x[key][j]]
  <2>1. KeyOrder(key, d[key], x[key], v[key])
    OBVIOUS
  <2>2. PICK a \in OpsOf(key) : a = x[key][i]
    BY <2>1 DEF KeyOrder
  <2>3. PICK b \in OpsOf(key) : b = x[key][j]
    BY <2>1 DEF KeyOrder
  <2>4. a \in 1..n /\ b \in 1..n /\ history[a].key = key /\ history[b].key = key
    BY DEF OpsOf
  <2>5. idx[a] \in 1..d[key] /\ x[key][idx[a]] = a /\ idx[b] \in 1..d[key] /\ x[key][idx[b]] = b
    BY <2>4 DEF Effects
  <2>6. idx[a] = i /\ idx[b] = j
    BY <2>1, <2>2, <2>3, <2>5 DEF KeyOrder
  <2>7. d[key] \in Nat
    BY <2>1 DEF KeyOrder
  <2>8. idx[a] <= idx[b] /\ idx[a] < idx[b]
    BY <1>10, <2>6, <2>7
  <2>9. point[a] <= point[b] /\ point[a] \in Nat /\ point[b] \in Nat
    BY <1>2, <2>4, <2>8 DEF Effects
  <2>10. Lex(a, b)
    BY <2>8, <2>9 DEF Lex
  <2> QED  BY <1>9, <2>2, <2>3, <2>4, <2>10
<1>11. ASSUME NEW i \in 1..n, NEW j \in 1..n, i < j PROVE ~Before(s[j], s[i])
  <2>1. PICK a \in 1..n : a = s[i]
    BY <1>8
  <2>2. PICK b \in 1..n : b = s[j]
    BY <1>8
  <2>3. Lex(a, b)
    BY <1>8, <1>11, <2>1, <2>2
  <2>4. /\ CallAt(a) \in Nat /\ ReturnAt(b) \in Nat /\ point[a] \in Nat /\ point[b] \in Nat
    BY <1>2, PlaceFacts
  <2>5. CallAt(a) <= point[a] /\ point[b] < ReturnAt(b)
    BY DEF Effects
  <2>6. point[a] <= point[b]
    BY <2>3, <2>4 DEF Lex
  <2>7. ~(ReturnAt(b) < CallAt(a))
    BY <2>4, <2>5, <2>6
  <2> QED  BY <2>1, <2>2, <2>7, BeforeIs
<1>12. Merged(n, d, x, v, s, pos)
  BY <1>8, <1>10 DEF Merged
<1> QED  BY <1>11, <1>12

\* If an order was found for every key, the history is linearizable.
LEMMA AcceptedRight ==
  ASSUME VerdictInv, \A key \in DOMAIN search : search[key].st = "sent" /\ search[key].result
  PROVE  IsLinearizable
<1>1. EntriesOK /\ TimesOK /\ DOMAIN search = KeysOf(history)
  BY DEF VerdictInv, ListInv, MainOK
<1>2. PICK n \in Nat : DOMAIN history = 1..n
  BY <1>1 DEF TimesOK
<1>3. PICK d : d = [key \in KeysOf(history) |-> Len(search[key].calls)]
  OBVIOUS
<1>4. PICK x : x = [key \in KeysOf(history) |-> StackIds(search[key])]
  OBVIOUS
<1>5. PICK v : v = [key \in KeysOf(history) |-> StackValues(search[key])]
  OBVIOUS
<1>6. ASSUME NEW key \in KeysOf(history) PROVE KeyOrder(key, d[key], x[key], v[key])
  <2>1. PICK p : p = search[key]
    OBVIOUS
  <2>2. SearchOK(key, p) /\ VisitOK(key, p) /\ p.st = "sent" /\ p.result
    BY <1>1, <2>1 DEF VerdictInv, ListInv
  <2>3. KeyOrder(key, Len(p.calls), StackIds(p), StackValues(p))
    BY <1>1, <2>2, StackIsOrder
  <2>4. d[key] = Len(p.calls) /\ x[key] = StackIds(p) /\ v[key] = StackValues(p)
    BY <1>3, <1>4, <1>5, <2>1
  <2> QED  BY <2>3, <2>4
<1>7. PICK idx, point : Effects(n, d, x, idx, point)
  BY ONLY <1>1, <1>2, <1>6, EffectsExist
<1>8. PICK s, pos : /\ Merged(n, d, x, v, s, pos)
                    /\ \A i, j \in 1..n : i < j => ~Before(s[j], s[i])
  BY ONLY <1>1, <1>2, <1>6, <1>7, EffectsSorted
<1>9. /\ s \in [1..n -> 1..n] /\ DOMAIN s = 1..n
      /\ \A i, j \in 1..n : s[i] = s[j] => i = j
  <2>1. s \in [1..n -> 1..n] /\ \A i \in 1..n : pos[s[i]] = i
    BY <1>8 DEF Merged
  <2> QED  BY <2>1
<1>10. s \in SetToSeqs(DOMAIN history)
  <2>1. Cardinality(1..n) = n
    BY <1>2, FS_Interval
  <2> QED  BY <1>2, <1>9, <2>1 DEF SetToSeqs
<1>11. \A k \in 1..n : Possible(StoreAfter(s)[k - 1][history[s[k]].key], history[s[k]])
  BY ONLY <1>1, <1>2, <1>8, MergedExplains
<1> QED  BY <1>8, <1>9, <1>10, <1>11 DEF IsLinearizable

\* What the invariant says of CheckOperationsTimeout.
LEMMA VerdictInvImplies ==
  ASSUME VerdictInv
  PROVE  VerdictRight
<1>1. SUFFICES ASSUME main.st = "returned"
               PROVE  IF main.ok THEN main.timedOut \/ IsLinearizable ELSE ~IsLinearizable
  BY DEF VerdictRight
<1>2. EntriesOK /\ TimesOK /\ MainOK
  BY DEF VerdictInv, ListInv
<1>3. CASE main.ok
  <2>1. main.timedOut \/ \A key \in DOMAIN search : search[key].st = "sent" /\ search[key].result
    BY <1>1, <1>2, <1>3 DEF MainOK
  <2> QED  BY <1>3, <2>1, AcceptedRight
<1>4. CASE ~main.ok
  <2>1. PICK key \in KeysOf(history) : Fails(key)
    BY <1>1, <1>2, <1>4 DEF MainOK
  <2>2. ~IsLinearizable
    BY <1>2, <2>1, RejectedRight
  <2> QED  BY <1>4, <2>2
<1> QED  BY <1>3, <1>4

-----------------------------------------------------------------------------
\* For histories of any length, on any number of keys, and whatever the operations
\* read: CheckOperationsTimeout rejects a history only if no order of its operations
\* explains it, and accepts one only if some order does or the time is up, although
\* checkSingle prunes its search by a cache, judges the keys apart, and is stopped
\* when another key has failed.
THEOREM VerdictCorrect == FairSpec => []VerdictRight
<1>1. Init => VerdictInv
  BY VerdictInvInit
<1>2. VerdictInv /\ [Next]_vars => VerdictInv'
  BY VerdictInvNext
<1>3. VerdictInv => VerdictRight
  BY VerdictInvImplies
<1> QED  BY <1>1, <1>2, <1>3, PTL DEF FairSpec
=============================================================================
