------------------------- MODULE ShardMasterProofs -------------------------
(***************************************************************************)
(* Proofs about ShardMaster, for any servers, clerks, scripts, number of   *)
(* shards and bounds.                                                      *)
(***************************************************************************)
EXTENDS ShardMaster, NatSetLemmas, SequenceTheorems

Entry == [op : Op, term : Nat]
Handler == [srv : Server, st : {"start", "wait", "look"}, index : Int, term : Nat,
            live : BOOLEAN, op : Op]
ClerkState == [st : {"idle", "send", "wait"}, seq : Nat, at : Server, req : Request \cup {None},
               before : SUBSET (Clerk \X Nat)]

\* A Join or Leave names finitely many groups.
Finite(req) == req.type \in {"Join", "Leave"} => IsFiniteSet(req.gids)

\* The logs hold commands of clerks.
LogsOK ==
  /\ chosen \in Seq(Entry) /\ pending \in [Server -> Seq(Entry)]
  /\ leads \subseteq Server /\ elected \in Server /\ term \in Nat \ {0}

\* What a server has applied, is applying and has received is agreed on.
AppliedOK ==
  /\ received \in [Server -> Nat] /\ curCommitIndex \in [Server -> Nat]
  /\ DOMAIN got = Server
  /\ \A s \in Server :
       /\ received[s] <= Len(chosen) /\ curCommitIndex[s] <= Len(chosen)
       /\ got[s] # None => received[s] >= 1 /\ got[s] = chosen[received[s]].op

\* A handler somebody listens to is the only one of its clerk, which waits for it.
CallsOK ==
  /\ clerk \in [Clerk -> ClerkState]
  /\ handlers \subseteq Handler
  /\ \A c \in Clerk : clerk[c].st # "idle" => clerk[c].req \in Request /\ Finite(clerk[c].req)
  /\ \A h \in handlers :
       /\ h.live => clerk[h.op.client].st = "wait"
       /\ \A g \in handlers : g.live /\ h.live /\ g.op.client = h.op.client => g = h

\* What the log of the elected server holds at an index.
At(k) == IF k <= Len(chosen) THEN chosen[k] ELSE pending[elected][k - Len(chosen)]

\* While its server has led since it called Start, the command of a handler is at
\* the index it waits for, agreed on or still pending.
Placed(h) ==
  /\ h.index \in 1..(Len(chosen) + Len(pending[elected]))
  /\ At(h.index).op = h.op

PlacesOK ==
  \A h \in handlers :
    /\ h.term <= term /\ (h.st = "start" => h.term = 0)
    /\ h.term = term /\ h.srv = elected => Placed(h)

\* A sequence number names one request: the clerk's current one, or an older one.
Issued(op) ==
  LET k == clerk[op.client] IN
  op.seq <= k.seq /\ (op.seq = k.seq => k.st # "idle" /\ op.req = k.req)

IssuedOK ==
  /\ \A k \in 1..Len(chosen) : Issued(chosen[k].op) /\ Finite(chosen[k].op.req)
  /\ \A s \in Server : \A k \in 1..Len(pending[s]) :
       Issued(pending[s][k].op) /\ Finite(pending[s][k].op.req)
  /\ \A h \in handlers :
       Issued(h.op) /\ Finite(h.op.req) /\ (h.live => h.op.seq = clerk[h.op.client].seq)

WriteOf(c, j) == chosen[j].op.client = c /\ chosen[j].op.req.type # "Query"

\* Entry j is a copy of a request that no later request of its clerk precedes.
Leading(j) ==
  /\ chosen[j].op.req.type # "Query"
  /\ \A i \in 1..(j - 1) :
       WriteOf(chosen[j].op.client, i) => chosen[i].op.seq <= chosen[j].op.seq

\* Every leading command of the first n entries has made a configuration.
Covers(made, n) == \A j \in 1..n : Leading(j) => CommID(chosen[j].op) \in made

\* The entries that mainProcess has applied.
Done(s) == IF got[s] = None THEN received[s] ELSE received[s] - 1

Made(s) == configs[s][Len(configs[s])].made

\* The table has the latest write of every clerk, and the latest configuration all
\* leading ones.
Tabled(s) ==
  /\ \A c \in Clerk : LET q == ClientMaxRequestSeq[s][c] IN
       /\ \A j \in 1..Done(s) : WriteOf(c, j) => chosen[j].op.seq <= q
       /\ q = -1 \/ (<<c, q>> \in Made(s) /\ \E j \in 1..Done(s) : WriteOf(c, j) /\ chosen[j].op.seq = q)
       /\ \A id \in Made(s) : id[1] = c => id[2] <= q
  /\ Covers(Made(s), Done(s))

TablesOK ==
  /\ ClientMaxRequestSeq \in [Server -> [Clerk -> Int]]
  /\ \A s \in Server : Tabled(s)

\* A group serves its share.
Shared(cfg) ==
  \A g \in cfg.groups : Cardinality(Owned(cfg, g)) >= NShards \div Cardinality(cfg.groups)

\* A configuration is numbered by the commands that led to it and shared out.
ConfigOK(cfg) ==
  /\ cfg \in Config /\ IsFiniteSet(cfg.groups) /\ IsFiniteSet(cfg.made)
  /\ cfg.num = Cardinality(cfg.made) /\ Shared(cfg)

ConfigsOK ==
  /\ DOMAIN configs = Server
  /\ \A s \in Server :
       /\ configs[s] \in Seq(Config) /\ Len(configs[s]) >= 1
       /\ \A k \in 1..Len(configs[s]) : ConfigOK(configs[s][k])

\* The answer r to a Query that was agreed on: if that asked for the latest
\* configuration, it has all that precedes the Query.
Reflects(r, id) ==
  /\ r \in Config
  /\ \E k \in 1..Len(chosen) :
       /\ CommID(chosen[k].op) = id
       /\ chosen[k].op.req.type = "Query" /\ chosen[k].op.req.num = -1 => Covers(r.made, k)

\* What waits in a resultMap is such an answer.
ResultsOK ==
  /\ DOMAIN resultMap = Server
  /\ \A s \in Server : \A id \in DOMAIN resultMap[s] : Reflects(resultMap[s][id], id)

\* A command that returned from a server which led all the time is agreed on, and
\* leads.
AckedLead ==
  \A a \in acked : a.id \in Clerk \X Nat
    /\ (a.sure => \E j \in 1..Len(chosen) : CommID(chosen[j].op) = a.id /\ Leading(j))

\* What had returned when a clerk began is agreed on before all copies of what it
\* asks for.
BeforeOK ==
  \A c \in Clerk : \A id \in clerk[c].before :
    \E j \in 1..Len(chosen) :
      /\ CommID(chosen[j].op) = id /\ Leading(j)
      /\ \A k \in 1..Len(chosen) :
           chosen[k].op.client = c /\ chosen[k].op.seq = clerk[c].seq => j < k

SMInv == LogsOK /\ AppliedOK /\ CallsOK /\ PlacesOK /\ IssuedOK /\ TablesOK /\ ConfigsOK
           /\ ResultsOK /\ AckedLead /\ BeforeOK /\ ReadsSeeWrites

-----------------------------------------------------------------------------
(* rebalance.                                                              *)

\* Sorting the groups keeps all of them: every position holds a group, and every
\* group has a position.
LEMMA SortedGroups ==
  ASSUME NEW groups, groups \subseteq Int, IsFiniteSet(groups)
  PROVE  /\ \A i \in 1..Cardinality(groups) : GroupIDs(groups)[i] \in groups
         /\ \A g \in groups : \E i \in 1..Cardinality(groups) : GroupIDs(groups)[i] = g
<1> DEFINE m == Cardinality(groups)
           Upto(g) == {h \in groups : h <= g}
           rank == [g \in groups |-> Cardinality(Upto(g))]
<1>1. m \in Nat
  BY FS_CardinalityType
<1>2. ASSUME NEW g \in groups
      PROVE  IsFiniteSet(Upto(g)) /\ Cardinality(Upto(g)) \in 1..m
  <2>1. Upto(g) \in SUBSET groups /\ g \in Upto(g)
    OBVIOUS
  <2> HIDE DEF Upto
  <2>2. IsFiniteSet(Upto(g)) /\ Cardinality(Upto(g)) <= m
    BY <2>1, FS_Subset
  <2>3. Cardinality(Upto(g)) \in Nat /\ Cardinality(Upto(g)) # 0
    BY <2>1, <2>2, FS_CardinalityType, FS_EmptySet
  <2> HIDE DEF m
  <2> QED  BY <1>1, <2>2, <2>3
<1>3. ASSUME NEW g \in groups, NEW h \in groups, h < g
      PROVE  Cardinality(Upto(h)) # Cardinality(Upto(g))
  <2>1. Upto(h) \in SUBSET Upto(g) /\ g \in Upto(g) /\ g \notin Upto(h)
    <3>1. \A f \in groups : f \in Int
      OBVIOUS
    <3>2. \A f \in groups : f <= h => f <= g
      BY <1>3, <3>1
    <3>3. g <= g /\ ~(g <= h)
      BY <1>3, <3>1
    <3> QED  BY <3>2, <3>3
  <2> HIDE DEF Upto
  <2> QED  BY <1>2, <2>1, FS_Subset
<1>4. \A g, h \in groups : Cardinality(Upto(h)) = Cardinality(Upto(g)) => h = g
  <2> HIDE DEF Upto
  <2>1. ASSUME NEW g \in groups, NEW h \in groups, h # g
        PROVE  Cardinality(Upto(h)) # Cardinality(Upto(g))
    <3>1. g \in Int /\ h \in Int
      OBVIOUS
    <3>2. h < g \/ g < h
      BY <2>1, <3>1
    <3> QED  BY <1>3, <3>2
  <2> QED  BY <2>1
<1>5. \A i \in 1..m : \E g \in groups : Cardinality(Upto(g)) = i
  <2> HIDE DEF Upto
  <2>1. rank \in Injection(groups, 1..m)
    BY <1>2, <1>4 DEF Injection, IsInjective
  <2>2. IsFiniteSet(1..m) /\ Cardinality(1..m) = m
    BY <1>1, FS_Interval
  <2>3. rank \in Surjection(groups, 1..m)
    BY <2>1, <2>2, FS_Injection
  <2>4. \A i \in 1..m : \E g \in groups : rank[g] = i
    BY <2>3 DEF Surjection
  <2> QED  BY <2>4
<1>6. \A i \in 1..m : GroupIDs(groups)[i] = CHOOSE g \in groups : Cardinality(Upto(g)) = i
  BY DEF GroupIDs
<1> HIDE DEF Upto, m
<1>7. \A i \in 1..m : GroupIDs(groups)[i] \in groups /\ Cardinality(Upto(GroupIDs(groups)[i])) = i
  BY <1>5, <1>6
<1>8. \A g \in groups : \E i \in 1..m : GroupIDs(groups)[i] = g
  <2> TAKE g \in groups
  <2>1. GroupIDs(groups)[Cardinality(Upto(g))] = g
    BY <1>2, <1>4, <1>7
  <2> QED  BY <1>2, <2>1
<1> QED  BY <1>7, <1>8 DEF m

\* The blocks of the groups follow each other and end before the last shard does.
LEMMA BlocksFit ==
  ASSUME NEW m \in Nat \ {0}
  PROVE  /\ NShards \div m \in Nat
         /\ \A j \in 1..m : (j - 1) * (NShards \div m) \in Nat
                            /\ j * (NShards \div m) \in Nat
                            /\ j * (NShards \div m) = (j - 1) * (NShards \div m) + NShards \div m
                            /\ j * (NShards \div m) <= NShards
         /\ \A i \in 1..m : \A j \in 1..(i - 1) : j * (NShards \div m) <= (i - 1) * (NShards \div m)
<1> DEFINE per == NShards \div m
<1>1. NShards \in Nat /\ m > 0
  BY ShardAssumption
<1>2. per \in Nat /\ m * per <= NShards
  BY <1>1
<1> HIDE DEF per
<1>3. \A a, b \in Nat : a <= b => a * per <= b * per
  BY <1>2
<1>4. \A j \in 1..m : (j - 1) * per \in Nat /\ j * per \in Nat /\ j * per = (j - 1) * per + per
  BY <1>2
<1>5. \A j \in 1..m : j * per <= NShards
  BY <1>1, <1>2, <1>3, <1>4
<1>6. \A i \in 1..m : \A j \in 1..(i - 1) : j * per <= (i - 1) * per
  BY <1>3
<1> QED  BY <1>2, <1>4, <1>5, <1>6 DEF per

\* What the loop over the groups does to the array of shards: it stays an array of
\* groups, and the group at position i has the i-th block when the loop is over.
LEMMA RebalancedBlocks ==
  ASSUME NEW groups, groups \subseteq Int, IsFiniteSet(groups), groups # {},
         NEW shards, shards \in [Shard -> Int]
  PROVE  LET m == Cardinality(groups)
             per == NShards \div m
         IN  /\ Rebalanced(shards, groups) \in [Shard -> Int]
             /\ \A j \in 1..m : \A k \in Block((j - 1) * per, per) :
                  k \in Shard /\ Rebalanced(shards, groups)[k] = GroupIDs(groups)[j]
<1> DEFINE m == Cardinality(groups)
           per == NShards \div m
           ids == GroupIDs(groups)
           remain == NShards - per * m
           Owners == [Shard -> Int]
           Turn(a, i) == [k \in Shard |->
                            IF k \in Block((i - 1) * per, per) \/ (i <= remain /\ k = (i - 1) * per + per)
                              THEN ids[i] ELSE a[k]]
           step == [a \in Owners \X (1..m) |-> Turn(a[1], a[2])]
           Grown(g) == [i \in 0..m |-> IF i = 0 THEN shards ELSE Turn(g[i - 1], i)]
           after == CHOOSE g : g = Grown(g)
<1>1. m \in Nat \ {0}
  BY FS_CardinalityType, FS_EmptySet
<1>2. Rebalanced(shards, groups) = after[m]
  BY DEF Rebalanced
<1>3. \A i \in 1..m : ids[i] \in Int
  BY SortedGroups
<1>4. /\ per \in Nat
      /\ \A j \in 1..m : /\ (j - 1) * per \in Nat /\ j * per \in Nat
                         /\ j * per = (j - 1) * per + per /\ j * per <= NShards
      /\ \A i \in 1..m : \A j \in 1..(i - 1) : j * per <= (i - 1) * per
  <2> HIDE DEF m
  <2> QED  BY <1>1, BlocksFit
<1> HIDE DEF m, per, ids, remain
<1>5. \A a \in Owners : \A i \in 1..m : Turn(a, i) \in Owners
  BY <1>3
<1> HIDE DEF Turn
<1>6. step \in [Owners \X (1..m) -> Owners]
  BY <1>5
<1>7. PICK f \in [0..m -> Owners] : f[0] = shards /\ \A i \in 1..m : f[i] = step[<<f[i - 1], i>>]
  <2>1. shards \in Owners /\ m \in Nat
    BY <1>1
  <2> HIDE DEF step, Owners
  <2>2. LoopBody(step, Owners, m)
    BY <1>6 DEF LoopBody
  <2>3. \E f : LoopStates(f, step, Owners, shards, m)
    BY ONLY <2>1, <2>2, RecursionExists
  <2> QED  BY <2>3 DEF LoopStates
<1>8. \A i \in 1..m : f[i - 1] \in Owners /\ f[i] = Turn(f[i - 1], i)
  <2> HIDE DEF Owners
  <2>1. ASSUME NEW i \in 1..m PROVE f[i - 1] \in Owners /\ f[i] = Turn(f[i - 1], i)
    <3>1. i - 1 \in 0..m
      BY <1>1
    <3>2. <<f[i - 1], i>> \in Owners \X (1..m)
      BY <3>1
    <3>3. step[<<f[i - 1], i>>] = Turn(f[i - 1], i)
      BY <3>2
    <3> QED  BY <1>7, <3>2, <3>3
  <2> QED  BY <2>1
<1> HIDE DEF step, Owners
<1>9. f = Grown(f)
  <2>1. ASSUME NEW i \in 0..m PROVE f[i] = Grown(f)[i]
    <3>1. CASE i = 0
      BY <1>7, <3>1
    <3>2. CASE i # 0
      <4>1. i \in 1..m
        BY <1>1, <3>2
      <4> QED  BY <1>8, <3>2, <4>1
    <3> QED  BY <3>1, <3>2
  <2> QED  BY <2>1
<1>10. after = Grown(after)
  <2> HIDE DEF Grown
  <2> QED  BY <1>9
<1> HIDE DEF after
<1>11. \A i \in 0..m : after[i] = IF i = 0 THEN shards ELSE Turn(after[i - 1], i)
  BY <1>10
<1> DEFINE Blocks(i) ==
      /\ after[i] \in Owners
      /\ \A j \in 1..i : \A k \in Block((j - 1) * per, per) : k \in Shard /\ after[i][k] = ids[j]
           T == {i \in 0..m : Blocks(i)}
<1>12. 0 \in T
  <2>1. after[0] = shards
    BY <1>1, <1>11
  <2> QED  BY <1>1, <2>1 DEF Owners
<1>13. ASSUME NEW i \in 1..m, i - 1 \in T PROVE i \in T
  <2>1. i \in 0..m /\ i # 0 /\ i - 1 \in 0..m
    BY <1>1
  <2>2. Blocks(i - 1)
    BY <1>13
  <2>3. after[i] = Turn(after[i - 1], i)
    BY <1>11, <2>1
  <2>4. after[i] \in Owners
    BY <1>5, <2>2, <2>3
  <2>5. \A k \in Shard :
          after[i][k] = IF k \in Block((i - 1) * per, per) \/ (i <= remain /\ k = (i - 1) * per + per)
                          THEN ids[i] ELSE after[i - 1][k]
    BY <2>3 DEF Turn
  <2> HIDE DEF Blocks, T
  <2>6. ASSUME NEW j \in 1..i, NEW k \in Block((j - 1) * per, per)
        PROVE  k \in Shard /\ after[i][k] = ids[j]
    <3>1. j \in 1..m /\ k \in Int /\ (j - 1) * per <= k /\ k < (j - 1) * per + per
      BY <1>1, <1>4 DEF Block
    <3>2. k \in Shard
      <4>1. PICK ind \in Nat : ind = (j - 1) * per
        BY <1>4, <3>1
      <4>2. ind + per <= NShards /\ ind <= k /\ k < ind + per
        BY <1>4, <3>1, <4>1
      <4>3. NShards \in Nat
        BY ShardAssumption
      <4>4. 0 <= k /\ k <= NShards - 1
        BY <1>4, <3>1, <4>2, <4>3
      <4> QED  BY <3>1, <4>3, <4>4 DEF Shard
    <3>3. CASE j = i
      BY <2>5, <3>2, <3>3
    <3>4. CASE j # i
      <4>1. j \in 1..(i - 1)
        BY <1>1, <3>4
      <4>2. k < (i - 1) * per /\ (i - 1) * per \in Nat
        <5>1. j * per <= (i - 1) * per /\ j * per = (j - 1) * per + per
               /\ j * per \in Nat /\ (i - 1) * per \in Nat /\ (j - 1) * per \in Nat
          BY <1>4, <3>1, <4>1
        <5> QED  BY <3>1, <5>1, <1>4
      <4>3. k \notin Block((i - 1) * per, per) /\ k # (i - 1) * per + per
        BY <1>4, <3>1, <4>2 DEF Block
      <4>4. after[i - 1][k] = ids[j]
        BY <2>2, <4>1 DEF Blocks
      <4> QED  BY <2>5, <3>2, <4>3, <4>4
    <3> QED  BY <3>3, <3>4
  <2> QED  BY <2>1, <2>4, <2>6 DEF T, Blocks
<1>14. m \in T
  <2> HIDE DEF T
  <2>1. 0..m \subseteq T
    BY <1>1, <1>12, <1>13, UpToBound
  <2> QED  BY <1>1, <2>1
<1>15. Blocks(m)
  BY <1>14
<1> QED  BY <1>2, <1>15 DEF Owners, per, ids, m

\* After rebalance every group has at least its share of the shards.
LEMMA RebalancedShares ==
  ASSUME NEW groups, groups \subseteq Int, IsFiniteSet(groups),
         NEW shards \in [Shard -> Int]
  PROVE  /\ Rebalanced(shards, groups) \in [Shard -> Int]
         /\ \A g \in groups :
              Cardinality({k \in Shard : Rebalanced(shards, groups)[k] = g})
                >= NShards \div Cardinality(groups)
<1>1. CASE groups = {}
  BY <1>1 DEF Rebalanced
<1>2. CASE groups # {}
  <2> DEFINE m == Cardinality(groups)
             per == NShards \div m
             new == Rebalanced(shards, groups)
  <2>1. m \in Nat \ {0}
    BY <1>2, FS_CardinalityType, FS_EmptySet
  <2>2. /\ new \in [Shard -> Int]
        /\ \A j \in 1..m : \A k \in Block((j - 1) * per, per) :
             k \in Shard /\ new[k] = GroupIDs(groups)[j]
    BY <1>2, RebalancedBlocks
  <2> HIDE DEF m, new
  <2>3. per \in Nat /\ \A j \in 1..m : (j - 1) * per \in Nat
    BY <2>1, BlocksFit
  <2> HIDE DEF per
  <2>4. ASSUME NEW g \in groups PROVE Cardinality({k \in Shard : new[k] = g}) >= per
    <3> DEFINE own == {k \in Shard : new[k] = g}
    <3>1. PICK j \in 1..m : GroupIDs(groups)[j] = g
      BY SortedGroups DEF m
    <3> DEFINE ind == (j - 1) * per
    <3>2. ind \in Nat
      BY <2>3
    <3>3. Block(ind, per) \in SUBSET own
      BY <2>2, <3>1
    <3> HIDE DEF ind
    <3>4. Cardinality(Block(ind, per)) = per
      <4>1. Cardinality(ind..(ind + per - 1)) = IF ind > ind + per - 1 THEN 0 ELSE (ind + per - 1) - ind + 1
        BY <2>3, <3>2, FS_Interval
      <4> QED  BY <2>3, <3>2, <4>1 DEF Block
    <3>5. IsFiniteSet(Shard)
      BY ShardAssumption, FS_Interval DEF Shard
    <3>6. own \in SUBSET Shard
      OBVIOUS
    <3> HIDE DEF own
    <3>7. IsFiniteSet(own) /\ Cardinality(own) \in Nat
      BY <3>5, <3>6, FS_Subset, FS_CardinalityType
    <3>8. Cardinality(Block(ind, per)) <= Cardinality(own)
      BY <3>3, <3>7, FS_Subset
    <3>9. Cardinality(own) >= per
      BY <2>3, <3>4, <3>7, <3>8
    <3> QED  BY <3>9 DEF own
  <2> QED  BY <2>2, <2>4 DEF m, per, new
<1> QED  BY <1>1, <1>2

\* A Join, Leave or Move changes only the groups and the shards, and finitely many
\* groups stay finitely many.
LEMMA ChangedConfig ==
  ASSUME NEW cfg \in Config, IsFiniteSet(cfg.groups), NEW op \in Op, Finite(op.req),
         op.req.type # "Query"
  PROVE  LET new == Changed(cfg, op.req) IN
         new \in Config /\ IsFiniteSet(new.groups) /\ new.num = cfg.num /\ new.made = cfg.made
<1> DEFINE req == op.req
           new == Changed(cfg, req)
<1>1. req \in Request /\ (req.type \in {"Join", "Leave"} => IsFiniteSet(req.gids))
  BY DEF Op, Finite
<1>2. req.type # "Query"
  OBVIOUS
<1> HIDE DEF req
<1>3. CASE req.type = "Join"
  <2>1. req.gids \in SUBSET Int /\ IsFiniteSet(req.gids)
    BY <1>1, <1>3 DEF Request
  <2>2. new = [cfg EXCEPT !.groups = @ \cup req.gids]
    BY <1>3 DEF Changed
  <2>3. new \in Config /\ new.groups = cfg.groups \cup req.gids /\ new.num = cfg.num /\ new.made = cfg.made
    BY <2>1, <2>2 DEF Config
  <2>4. IsFiniteSet(cfg.groups \cup req.gids)
    BY <2>1, FS_Union
  <2> QED  BY <2>3, <2>4 DEF req
<1>4. CASE req.type = "Leave"
  <2>1. req.gids \in SUBSET Int
    BY <1>1, <1>4 DEF Request
  <2>2. PICK shards : shards = [k \in Shard |-> IF cfg.shards[k] \in req.gids THEN -1 ELSE cfg.shards[k]]
    OBVIOUS
  <2>3. shards \in [Shard -> Int]
    BY <2>2 DEF Config
  <2>4. new = [cfg EXCEPT !.groups = @ \ req.gids, !.shards = shards]
    BY <1>4, <2>2 DEF Changed
  <2>5. new \in Config /\ new.groups = cfg.groups \ req.gids /\ new.num = cfg.num /\ new.made = cfg.made
    BY <2>1, <2>3, <2>4 DEF Config
  <2>6. IsFiniteSet(cfg.groups \ req.gids)
    BY FS_Difference
  <2> QED  BY <2>5, <2>6 DEF req
<1>5. CASE req.type = "Move"
  <2>1. req.shard \in Shard /\ req.gid \in Int
    BY <1>1, <1>5 DEF Request
  <2>2. new = [cfg EXCEPT !.shards[req.shard] = req.gid]
    BY <1>5 DEF Changed
  <2>3. new \in Config /\ new.groups = cfg.groups /\ new.num = cfg.num /\ new.made = cfg.made
    BY <2>1, <2>2 DEF Config
  <2> QED  BY <2>3 DEF req
<1>6. req.type \in {"Join", "Leave", "Move", "Query"}
  BY <1>1 DEF Request
<1> QED  BY <1>2, <1>3, <1>4, <1>5, <1>6 DEF req

\* The configuration that a command makes is numbered and shared out, if the
\* command has not made one before.
LEMMA NewConfigOK ==
  ASSUME ConfigsOK, NEW s \in Server, NEW op \in Op, Finite(op.req), op.req.type # "Query",
         CommID(op) \notin Made(s)
  PROVE  ConfigOK(NewConfig(s, op)) /\ NewConfig(s, op).made = Made(s) \cup {CommID(op)}
<1> DEFINE last == configs[s][Len(configs[s])]
           cfg == Changed(last, op.req)
           new == NewConfig(s, op)
           shards == Rebalanced(cfg.shards, cfg.groups)
           id == CommID(op)
<1>1. ConfigOK(last)
  <2>1. configs[s] \in Seq(Config) /\ Len(configs[s]) >= 1
         /\ \A k \in 1..Len(configs[s]) : ConfigOK(configs[s][k])
    BY DEF ConfigsOK
  <2>2. Len(configs[s]) \in 1..Len(configs[s])
    BY <2>1
  <2> QED  BY <2>1, <2>2
<1>2. last.made = Made(s)
  BY DEF Made
<1>3. new = [cfg EXCEPT !.num = last.num + 1, !.made = @ \cup {id}, !.shards = shards]
  BY DEF NewConfig
<1> HIDE DEF last
<1>4. cfg \in Config /\ IsFiniteSet(cfg.groups) /\ cfg.num = last.num /\ cfg.made = last.made
  BY <1>1, ChangedConfig DEF ConfigOK
<1>5. id \in Clerk \X Nat
  BY DEF CommID, Op
<1> HIDE DEF cfg, new, id
<1>6. cfg.shards \in [Shard -> Int] /\ cfg.groups \subseteq Int
  BY <1>4 DEF Config
<1>7. /\ shards \in [Shard -> Int]
      /\ \A g \in cfg.groups :
           Cardinality({k \in Shard : shards[k] = g}) >= NShards \div Cardinality(cfg.groups)
  BY <1>4, <1>6, RebalancedShares
<1> HIDE DEF shards
<1>8. last.num \in Nat /\ last.made \subseteq Clerk \X Nat /\ IsFiniteSet(last.made)
       /\ last.num = Cardinality(last.made)
  BY <1>1 DEF ConfigOK, Config
<1>9. new \in Config /\ new.num = last.num + 1 /\ new.made = last.made \cup {id}
       /\ new.shards = shards /\ new.groups = cfg.groups
  <2>1. PICK num \in Nat : num = last.num + 1
    BY <1>8
  <2>2. PICK made \in SUBSET (Clerk \X Nat) : made = last.made \cup {id}
    BY <1>5, <1>8
  <2>3. new = [cfg EXCEPT !.num = num, !.made = made, !.shards = shards]
    BY <1>3, <1>4, <2>1, <2>2
  <2>4. new \in Config /\ new.num = num /\ new.made = made /\ new.shards = shards
         /\ new.groups = cfg.groups
    BY <1>4, <1>7, <2>3 DEF Config
  <2> QED  BY <2>1, <2>2, <2>4
<1>10. IsFiniteSet(new.made) /\ Cardinality(new.made) = Cardinality(last.made) + 1
  <2>1. id \notin last.made
    BY <1>2 DEF id
  <2>2. IsFiniteSet(last.made \cup {id})
         /\ Cardinality(last.made \cup {id}) = Cardinality(last.made) + 1
    BY <1>8, <2>1, FS_AddElement
  <2> QED  BY <1>9, <2>2
<1>11. Shared(new)
  BY <1>7, <1>9 DEF Shared, Owned
<1>12. ConfigOK(new)
  BY <1>4, <1>8, <1>9, <1>10, <1>11 DEF ConfigOK
<1> QED  BY <1>2, <1>9, <1>12 DEF new, id

-----------------------------------------------------------------------------
(* What a step leaves as it was.                                           *)

\* Each part of the invariant is about some of the variables only.
LEMMA LogsKept == LogsOK /\ UNCHANGED raftVars => LogsOK'
  BY DEF LogsOK, raftVars

\* What is applied, by the variables of mainProcess and the log.
LEMMA AppliedKept == AppliedOK /\ UNCHANGED <<chosen, received, curCommitIndex, got>> => AppliedOK'
  BY DEF AppliedOK

\* The places of commands, by the log and the handlers.
LEMMA PlacesKept == PlacesOK /\ UNCHANGED <<chosen, pending, elected, term, handlers>> => PlacesOK'
  BY DEF PlacesOK, Placed, At

\* Which requests are in the logs, by these and the clerks.
LEMMA IssuedKept == IssuedOK /\ UNCHANGED <<chosen, pending, handlers, clerk>> => IssuedOK'
  BY DEF IssuedOK, Issued

\* The tables, by the variables of mainProcess and the log.
LEMMA TablesKept ==
  TablesOK /\ UNCHANGED <<chosen, received, got, configs, ClientMaxRequestSeq>> => TablesOK'
  BY DEF TablesOK, Tabled, Done, Made, WriteOf, Covers, Leading

\* The configurations.
LEMMA ConfigsKept == ConfigsOK /\ UNCHANGED configs => ConfigsOK'
  BY DEF ConfigsOK

\* The answers that wait.
LEMMA ResultsKept == ResultsOK /\ UNCHANGED <<chosen, resultMap>> => ResultsOK'
  BY DEF ResultsOK, Reflects, Covers, Leading, WriteOf

\* The calls that returned.
LEMMA AckedKept == AckedLead /\ UNCHANGED <<chosen, acked>> => AckedLead'
  BY DEF AckedLead, Leading, WriteOf

\* What preceded a request.
LEMMA BeforeKept == BeforeOK /\ UNCHANGED <<chosen, clerk>> => BeforeOK'
  BY DEF BeforeOK, Leading, WriteOf

\* The answers given.
LEMMA ReadsKept == ReadsSeeWrites /\ UNCHANGED answers => ReadsSeeWrites'
  BY DEF ReadsSeeWrites

\* The calls under way.
LEMMA CallsKept == CallsOK /\ UNCHANGED <<handlers, clerk>> => CallsOK'
  BY DEF CallsOK

\* The log keeps what it has.
LogGrows ==
  Len(chosen) <= Len(chosen') /\ \A k \in 1..Len(chosen) : chosen'[k] = chosen[k]

\* Which of the agreed commands lead is decided when they are agreed on.
LEMMA LeadingKept ==
  ASSUME LogsOK, LogsOK', LogGrows
  PROVE  /\ \A c : \A j \in 1..Len(chosen) : WriteOf(c, j)' <=> WriteOf(c, j)
         /\ \A j \in 1..Len(chosen) : Leading(j)' <=> Leading(j)
         /\ \A made : \A n \in 0..Len(chosen) : Covers(made, n)' <=> Covers(made, n)
<1>1. Len(chosen) \in Nat /\ \A k \in 1..Len(chosen) : chosen'[k] = chosen[k]
  BY DEF LogsOK, LogGrows
<1>2. ASSUME NEW c, NEW j \in 1..Len(chosen) PROVE WriteOf(c, j)' <=> WriteOf(c, j)
  BY <1>1 DEF WriteOf
<1>3. ASSUME NEW j \in 1..Len(chosen) PROVE Leading(j)' <=> Leading(j)
  <2>1. chosen'[j] = chosen[j]
    BY <1>1
  <2>2. \A i \in 1..(j - 1) : i \in 1..Len(chosen) /\ chosen'[i] = chosen[i]
    BY <1>1
  <2>3. \A i \in 1..(j - 1) : WriteOf(chosen[j].op.client, i)' <=> WriteOf(chosen[j].op.client, i)
    BY <2>1, <2>2 DEF WriteOf
  <2> QED  BY <2>1, <2>2 DEF Leading, WriteOf
<1>4. ASSUME NEW made, NEW n \in 0..Len(chosen) PROVE Covers(made, n)' <=> Covers(made, n)
  <2>1. \A j \in 1..n : j \in 1..Len(chosen) /\ chosen'[j] = chosen[j]
    BY <1>1
  <2> QED  BY <1>3, <2>1 DEF Covers
<1> QED  BY <1>2, <1>3, <1>4

\* What a server has applied is a prefix of the log.
LEMMA DoneInLog ==
  ASSUME LogsOK, AppliedOK, NEW s \in Server
  PROVE  Done(s) \in 0..Len(chosen) /\ Len(chosen) \in Nat
<1>1. Len(chosen) \in Nat
  BY DEF LogsOK
<1>2. received[s] \in Nat /\ received[s] <= Len(chosen) /\ (got[s] # None => received[s] >= 1)
  BY DEF AppliedOK
<1> QED  BY <1>1, <1>2 DEF Done

\* A table stays right when only the log grows.
LEMMA TabledKept ==
  ASSUME LogsOK, LogsOK', LogGrows, AppliedOK, NEW s \in Server, Tabled(s),
         Done(s)' = Done(s), Made(s)' = Made(s), ClientMaxRequestSeq'[s] = ClientMaxRequestSeq[s]
  PROVE  Tabled(s)'
<1>1. Done(s) \in 0..Len(chosen) /\ Len(chosen) \in Nat
  BY DoneInLog
<1>2. \A j \in 1..Done(s) : j \in 1..Len(chosen) /\ chosen'[j] = chosen[j]
  BY <1>1 DEF LogGrows
<1>3. \A c : \A j \in 1..Done(s) : WriteOf(c, j)' <=> WriteOf(c, j)
  BY <1>2, LeadingKept
<1>4. Covers(Made(s), Done(s))'
  BY <1>1, LeadingKept DEF Tabled
<1>5. ASSUME NEW c \in Clerk
      PROVE  LET q == ClientMaxRequestSeq'[s][c] IN
             /\ \A j \in 1..Done(s)' : WriteOf(c, j)' => chosen'[j].op.seq <= q
             /\ q = -1 \/ (<<c, q>> \in Made(s)' /\ \E j \in 1..Done(s)' : WriteOf(c, j)' /\ chosen'[j].op.seq = q)
             /\ \A id \in Made(s)' : id[1] = c => id[2] <= q
  BY <1>2, <1>3 DEF Tabled
<1> QED  BY <1>4, <1>5 DEF Tabled

\* An answer that has all that precedes its Query still has when the log has grown.
LEMMA ReflectsKept ==
  ASSUME LogsOK, LogsOK', LogGrows
  PROVE  \A r, id : Reflects(r, id) => Reflects(r, id)'
<1> SUFFICES ASSUME NEW r, NEW id, Reflects(r, id) PROVE Reflects(r, id)'
  OBVIOUS
<1>1. PICK k \in 1..Len(chosen) :
        /\ CommID(chosen[k].op) = id
        /\ chosen[k].op.req.type = "Query" /\ chosen[k].op.req.num = -1 => Covers(r.made, k)
  BY DEF Reflects
<1>2. k \in 1..Len(chosen') /\ chosen'[k] = chosen[k] /\ k \in 0..Len(chosen)
  BY DEF LogsOK, LogGrows
<1>3. Covers(r.made, k) => Covers(r.made, k)'
  BY <1>2, LeadingKept
<1> QED  BY <1>1, <1>2, <1>3 DEF Reflects, CommID

\* An answer that waits stays sound while the log grows.
LEMMA ResultsGrow ==
  ASSUME LogsOK, LogsOK', LogGrows, ResultsOK, UNCHANGED resultMap
  PROVE  ResultsOK'
  BY ReflectsKept DEF ResultsOK

\* A command that was acknowledged still leads when the log has grown.
LEMMA AckedGrow ==
  ASSUME LogsOK, LogsOK', LogGrows, AckedLead, UNCHANGED acked
  PROVE  AckedLead'
<1>1. ASSUME NEW a \in acked, a.sure
      PROVE  \E j \in 1..Len(chosen') : CommID(chosen'[j].op) = a.id /\ Leading(j)'
  <2>1. PICK j \in 1..Len(chosen) : CommID(chosen[j].op) = a.id /\ Leading(j)
    BY <1>1 DEF AckedLead
  <2>2. j \in 1..Len(chosen') /\ chosen'[j] = chosen[j]
    BY DEF LogsOK, LogGrows
  <2> QED  BY <2>1, <2>2, LeadingKept
<1> QED  BY <1>1 DEF AckedLead, CommID

-----------------------------------------------------------------------------
(* The initial states.                                                     *)

\* The configuration with number 0 belongs to no group and was made by no command.
LEMMA EmptyConfigOK == ConfigOK(EmptyConfig) /\ EmptyConfig.made = {}
<1>1. EmptyConfig \in Config
  BY DEF EmptyConfig, Config
<1>2. EmptyConfig.num = 0 /\ EmptyConfig.groups = {} /\ EmptyConfig.made = {}
  BY DEF EmptyConfig
<1> QED  BY <1>1, <1>2, FS_EmptySet DEF ConfigOK, Shared

\* A server that has applied nothing has a right table.
LEMMA TabledAtStart ==
  ASSUME NEW s \in Server, got[s] = None, received[s] = 0, configs[s] = <<EmptyConfig>>,
         ClientMaxRequestSeq[s] = [c \in Clerk |-> -1]
  PROVE  Tabled(s)
<1>1. Done(s) = 0
  BY DEF Done
<1>2. Made(s) = {}
  BY EmptyConfigOK DEF Made
<1>3. \A j \in 1..Done(s) : FALSE
  BY <1>1
<1> QED  BY <1>2, <1>3 DEF Tabled, Covers

\* The invariant holds when StartServer returns.
LEMMA SMInit == Init => SMInv
<1> SUFFICES ASSUME Init PROVE SMInv
  OBVIOUS
<1> USE DEF Init
<1>1. 0 \in Server
  BY ShardAssumption DEF Server
<1>2. chosen = << >> /\ chosen \in Seq(Entry) /\ Len(chosen) = 0 /\ \A k \in 1..Len(chosen) : FALSE
  BY EmptySeq
<1>3. \A s \in Server : pending[s] = << >> /\ \A k \in 1..Len(pending[s]) : FALSE
  BY EmptySeq
<1>4. LogsOK
  BY <1>1, <1>2, EmptySeq DEF LogsOK
<1>5. AppliedOK
  BY <1>2 DEF AppliedOK
<1>6. CallsOK
  BY <1>1 DEF CallsOK, ClerkState
<1>7. PlacesOK
  BY DEF PlacesOK
<1>8. IssuedOK
  BY <1>2, <1>3 DEF IssuedOK
<1>9. TablesOK
  <2>1. \A s \in Server : Tabled(s)
    BY TabledAtStart
  <2> QED  BY <2>1 DEF TablesOK
<1>10. ConfigsOK
  <2>1. <<EmptyConfig>> \in Seq(Config) /\ Len(<<EmptyConfig>>) = 1
         /\ \A k \in 1..1 : <<EmptyConfig>>[k] = EmptyConfig
    BY EmptyConfigOK DEF ConfigOK
  <2> QED  BY <2>1, EmptyConfigOK DEF ConfigsOK
<1>11. ResultsOK
  BY DEF ResultsOK
<1>12. AckedLead
  BY DEF AckedLead
<1>13. BeforeOK
  BY DEF BeforeOK
<1>14. ReadsSeeWrites
  BY DEF ReadsSeeWrites
<1> QED  BY <1>4, <1>5, <1>6, <1>7, <1>8, <1>9, <1>10, <1>11, <1>12, <1>13, <1>14 DEF SMInv

-----------------------------------------------------------------------------
(* Raft's steps.                                                           *)

\* An election hands on commands of the old leader; no handler counts as sure any more.
LEMMA ElectOK == ASSUME SMInv, NEW s \in Server, Elect(s) PROVE SMInv'
<1>1. /\ UNCHANGED <<chosen, received, curCommitIndex, got, configs, ClientMaxRequestSeq,
                     resultMap, handlers, clerk, acked, answers>>
      /\ leads' = leads \cup {s} /\ elected' = s /\ term' = term + 1
      /\ \/ UNCHANGED pending
         \/ \E n \in 1..Len(pending[elected]) :
              pending' = [pending EXCEPT ![s] = SubSeq(pending[elected], 1, n)]
  BY DEF Elect, applyVars, clientVars
<1>2. AppliedOK' /\ CallsOK' /\ TablesOK' /\ ConfigsOK' /\ ResultsOK' /\ AckedLead' /\ BeforeOK'
       /\ ReadsSeeWrites'
  BY <1>1, AppliedKept, CallsKept, TablesKept, ConfigsKept, ResultsKept, AckedKept, BeforeKept,
     ReadsKept DEF SMInv
<1>3. LogsOK
  BY DEF SMInv
<1>4. /\ pending' \in [Server -> Seq(Entry)]
      /\ \A r \in Server : \A k \in 1..Len(pending'[r]) :
           \E q \in Server : k \in 1..Len(pending[q]) /\ pending'[r][k] = pending[q][k]
  <2>1. CASE UNCHANGED pending
    BY <1>3, <2>1 DEF LogsOK
  <2>2. ASSUME NEW n \in 1..Len(pending[elected]),
               pending' = [pending EXCEPT ![s] = SubSeq(pending[elected], 1, n)]
        PROVE  <1>4!1 /\ <1>4!2
    <3>1. elected \in Server /\ pending \in [Server -> Seq(Entry)] /\ pending[elected] \in Seq(Entry)
      BY <1>3 DEF LogsOK
    <3>2. PICK front : front = SubSeq(pending[elected], 1, n)
      OBVIOUS
    <3>3. front \in Seq(Entry) /\ Len(front) = n /\ \A k \in 1..n : front[k] = pending[elected][k]
      BY <3>1, <3>2, SubSeqProperties
    <3>4. pending' = [pending EXCEPT ![s] = front]
      BY <2>2, <3>2
    <3>5. ASSUME NEW r \in Server, NEW k \in 1..Len(pending'[r])
          PROVE  \E q \in Server : k \in 1..Len(pending[q]) /\ pending'[r][k] = pending[q][k]
      <4>1. CASE r = s
        <5>1. pending'[r] = front
          BY <3>1, <3>4, <4>1
        <5>2. k \in 1..Len(pending[elected])
          BY <3>1, <3>3, <5>1
        <5> QED  BY <3>1, <3>3, <5>1, <5>2
      <4>2. CASE r # s
        BY <3>1, <3>4, <4>2
      <4> QED  BY <4>1, <4>2
    <3> QED  BY <3>1, <3>3, <3>4, <3>5
  <2> QED  BY <1>1, <2>1, <2>2
<1>5. LogsOK'
  BY <1>1, <1>3, <1>4 DEF LogsOK
<1>6. PlacesOK'
  <2>1. term \in Nat /\ \A h \in handlers : h.term \in Nat /\ h.term <= term /\ (h.st = "start" => h.term = 0)
    BY <1>3 DEF SMInv, LogsOK, PlacesOK, CallsOK, Handler
  <2>2. \A h \in handlers : h.term <= term' /\ h.term # term'
    BY <1>1, <2>1
  <2> QED  BY <1>1, <2>1, <2>2 DEF PlacesOK
<1>7. IssuedOK'
  <2>1. \A r \in Server : \A k \in 1..Len(pending'[r]) :
          Issued(pending'[r][k].op) /\ Finite(pending'[r][k].op.req)
    BY <1>4 DEF SMInv, IssuedOK
  <2>2. clerk' = clerk
    BY <1>1
  <2> QED  BY <1>1, <2>1, <2>2 DEF SMInv, IssuedOK, Issued
<1> QED  BY <1>2, <1>5, <1>6, <1>7 DEF SMInv

\* Stepping down changes no log.
LEMMA StepDownOK == ASSUME SMInv, NEW s \in Server, StepDown(s) PROVE SMInv'
<1>1. /\ UNCHANGED <<chosen, pending, elected, term, received, curCommitIndex, got, configs,
                     ClientMaxRequestSeq, resultMap, handlers, clerk, acked, answers>>
      /\ leads' = leads \ {s}
  BY DEF StepDown, applyVars, clientVars
<1>2. AppliedOK' /\ CallsOK' /\ PlacesOK' /\ IssuedOK' /\ TablesOK' /\ ConfigsOK' /\ ResultsOK'
       /\ AckedLead' /\ BeforeOK' /\ ReadsSeeWrites'
  BY <1>1, AppliedKept, CallsKept, PlacesKept, IssuedKept, TablesKept, ConfigsKept, ResultsKept,
     AckedKept, BeforeKept, ReadsKept DEF SMInv
<1>3. LogsOK'
  BY <1>1 DEF SMInv, LogsOK
<1> QED  BY <1>2, <1>3 DEF SMInv

\* The entry that is agreed on was pending; what is at an index of the leader's log
\* stays there.
LEMMA CommitOK == ASSUME SMInv, Commit PROVE SMInv'
<1>1. PICK e : e = Head(pending[elected])
  OBVIOUS
<1>2. /\ UNCHANGED <<leads, elected, term, received, curCommitIndex, got, configs,
                     ClientMaxRequestSeq, resultMap, handlers, clerk, acked, answers>>
      /\ elected \in leads /\ pending[elected] # << >> /\ chosen' = Append(chosen, e)
      /\ pending' = [s \in Server |->
           IF pending[s] # << >> /\ Head(pending[s]) = e THEN Tail(pending[s]) ELSE << >>]
  BY <1>1 DEF Commit, applyVars, clientVars
<1>3. LogsOK /\ elected \in Server /\ chosen \in Seq(Entry) /\ pending \in [Server -> Seq(Entry)]
  BY DEF SMInv, LogsOK
<1>4. e \in Entry /\ e = pending[elected][1] /\ 1 \in 1..Len(pending[elected])
  BY <1>1, <1>2, <1>3, HeadTailProperties
<1>5. /\ chosen' \in Seq(Entry) /\ Len(chosen') = Len(chosen) + 1 /\ Len(chosen) \in Nat
      /\ \A k \in 1..Len(chosen) : chosen'[k] = chosen[k]
      /\ chosen'[Len(chosen) + 1] = e
  BY <1>2, <1>3, <1>4, AppendProperties
<1>6. ASSUME NEW s \in Server
      PROVE  /\ pending'[s] \in Seq(Entry)
             /\ \A k \in 1..Len(pending'[s]) : k + 1 \in 1..Len(pending[s]) /\ pending'[s][k] = pending[s][k + 1]
             /\ s = elected => Len(pending'[s]) = Len(pending[s]) - 1
  <2>1. pending[s] \in Seq(Entry)
    BY <1>3
  <2>2. CASE pending[s] # << >> /\ Head(pending[s]) = e
    <3>1. pending'[s] = Tail(pending[s])
      BY <1>2, <2>2
    <3>2. /\ Tail(pending[s]) \in Seq(Entry) /\ Len(Tail(pending[s])) = Len(pending[s]) - 1
          /\ \A k \in 1..(Len(pending[s]) - 1) : Tail(pending[s])[k] = pending[s][k + 1]
      BY <2>1, <2>2, HeadTailProperties
    <3>3. Len(pending[s]) \in Nat
      BY <2>1
    <3> QED  BY <3>1, <3>2, <3>3
  <2>3. CASE ~(pending[s] # << >> /\ Head(pending[s]) = e)
    <3>1. pending'[s] = << >> /\ s # elected
      BY <1>1, <1>2, <2>3
    <3> QED  BY <3>1, EmptySeq
  <2> QED  BY <2>2, <2>3
<1>7. LogsOK'
  <2>1. pending' \in [Server -> Seq(Entry)]
    BY <1>2, <1>6
  <2> QED  BY <1>2, <1>5, <2>1 DEF SMInv, LogsOK
<1>8. LogGrows
  BY <1>5 DEF LogGrows
<1>9. AppliedOK'
  <2>1. AppliedOK
    BY DEF SMInv
  <2>2. ASSUME NEW s \in Server
        PROVE  /\ received[s] <= Len(chosen') /\ curCommitIndex[s] <= Len(chosen')
               /\ got[s] # None => received[s] >= 1 /\ got[s] = chosen'[received[s]].op
    <3>1. received[s] \in Nat /\ curCommitIndex[s] \in Nat /\ received[s] <= Len(chosen)
           /\ curCommitIndex[s] <= Len(chosen)
           /\ (got[s] # None => received[s] >= 1 /\ got[s] = chosen[received[s]].op)
      BY <2>1 DEF AppliedOK
    <3>2. received[s] >= 1 => received[s] \in 1..Len(chosen)
      BY <1>5, <3>1
    <3> QED  BY <1>5, <3>1, <3>2
  <2> QED  BY <1>2, <2>1, <2>2 DEF AppliedOK
<1>10. CallsOK' /\ ConfigsOK' /\ ReadsSeeWrites'
  BY <1>2, CallsKept, ConfigsKept, ReadsKept DEF SMInv
<1>11. PlacesOK'
  <2>1. ASSUME NEW k \in 1..(Len(chosen) + Len(pending[elected]))
        PROVE  At(k)' = At(k) /\ k \in 1..(Len(chosen') + Len(pending'[elected]))
    <3>1. PICK n \in Nat : n = Len(chosen)
      BY <1>5
    <3>2. PICK m \in Nat : m = Len(pending[elected])
      BY <1>3
    <3>3. Len(chosen') = n + 1 /\ Len(pending'[elected]) = m - 1 /\ m >= 1 /\ k \in 1..(n + m)
      BY <1>3, <1>4, <1>5, <1>6, <3>1, <3>2
    <3>4. CASE k <= n
      <4>1. chosen'[k] = chosen[k]
        BY <1>5, <3>1, <3>3, <3>4
      <4> QED  BY <3>1, <3>3, <3>4, <4>1 DEF At
    <3>5. CASE k = n + 1
      <4>1. At(k)' = e
        BY <1>5, <3>1, <3>3, <3>5 DEF At
      <4>2. At(k) = pending[elected][1]
        BY <3>1, <3>5 DEF At
      <4> QED  BY <1>4, <3>3, <4>1, <4>2
    <3>6. CASE k > n + 1
      <4>1. k - (n + 1) \in 1..(m - 1)
        BY <3>3, <3>6
      <4>2. pending'[elected][k - (n + 1)] = pending[elected][k - (n + 1) + 1]
        BY <1>3, <1>6, <3>3, <4>1
      <4>3. k - (n + 1) + 1 = k - n
        BY <3>3
      <4>4. At(k)' = pending'[elected][k - (n + 1)] /\ At(k) = pending[elected][k - n]
        BY <1>2, <3>1, <3>3, <3>6 DEF At
      <4> QED  BY <3>3, <4>2, <4>3, <4>4
    <3> QED  BY <3>3, <3>4, <3>5, <3>6
  <2>2. \A h \in handlers : Placed(h) => Placed(h)'
    BY <1>2, <2>1 DEF Placed
  <2> QED  BY <1>2, <2>2 DEF SMInv, PlacesOK
<1>12. IssuedOK'
  <2>1. IssuedOK
    BY DEF SMInv
  <2>2. ASSUME NEW k \in 1..Len(chosen') PROVE Issued(chosen'[k].op) /\ Finite(chosen'[k].op.req)
    <3>1. CASE k \in 1..Len(chosen)
      BY <1>5, <2>1, <3>1 DEF IssuedOK
    <3>2. CASE k = Len(chosen) + 1
      BY <1>3, <1>4, <1>5, <2>1, <3>2 DEF IssuedOK
    <3> QED  BY <1>5, <3>1, <3>2
  <2>3. \A s \in Server : \A k \in 1..Len(pending'[s]) :
          Issued(pending'[s][k].op) /\ Finite(pending'[s][k].op.req)
    BY <1>6, <2>1 DEF IssuedOK
  <2>4. clerk' = clerk /\ handlers' = handlers
    BY <1>2
  <2> QED  BY <2>1, <2>2, <2>3, <2>4 DEF IssuedOK, Issued
<1>13. TablesOK'
  <2>1. \A s \in Server : Done(s)' = Done(s) /\ Made(s)' = Made(s)
    BY <1>2 DEF Done, Made
  <2>2. \A s \in Server : Tabled(s)'
    BY <1>2, <1>3, <1>7, <1>8, <2>1, TabledKept DEF SMInv, TablesOK
  <2> QED  BY <1>2, <2>2 DEF SMInv, TablesOK
<1>14. ResultsOK' /\ AckedLead'
  BY <1>2, <1>3, <1>7, <1>8, ResultsGrow, AckedGrow DEF SMInv
<1>15. BeforeOK'
  <2>1. ASSUME NEW c \in Clerk, NEW id \in clerk[c].before
        PROVE  \E j \in 1..Len(chosen') :
                 /\ CommID(chosen'[j].op) = id /\ Leading(j)'
                 /\ \A k \in 1..Len(chosen') :
                      chosen'[k].op.client = c /\ chosen'[k].op.seq = clerk[c].seq => j < k
    <3>1. PICK j \in 1..Len(chosen) :
            /\ CommID(chosen[j].op) = id /\ Leading(j)
            /\ \A k \in 1..Len(chosen) :
                 chosen[k].op.client = c /\ chosen[k].op.seq = clerk[c].seq => j < k
      BY DEF SMInv, BeforeOK
    <3>2. j \in 1..Len(chosen') /\ chosen'[j] = chosen[j] /\ Leading(j)'
      BY <1>3, <1>5, <1>7, <1>8, <3>1, LeadingKept
    <3>3. \A k \in 1..Len(chosen') : k \in 1..Len(chosen) \/ j < k
      BY <1>5
    <3> QED  BY <1>5, <3>1, <3>2, <3>3
  <2> QED  BY <1>2, <2>1 DEF BeforeOK, CommID
<1> QED  BY <1>7, <1>9, <1>10, <1>11, <1>12, <1>13, <1>14, <1>15 DEF SMInv

-----------------------------------------------------------------------------
(* mainProcess.                                                            *)

\* A command that is taken from applyCh is the next one of the log, and not applied
\* yet.
LEMMA ReceiveOK == ASSUME SMInv, NEW s \in Server, Receive(s) PROVE SMInv'
<1>1. PICK op : op = chosen[received[s] + 1].op
  OBVIOUS
<1>2. /\ UNCHANGED <<chosen, pending, leads, elected, term, configs, ClientMaxRequestSeq, resultMap,
                     handlers, clerk, acked, answers>>
      /\ got[s] = None /\ received[s] < Len(chosen)
      /\ received' = [received EXCEPT ![s] = received[s] + 1]
      /\ curCommitIndex' = [curCommitIndex EXCEPT ![s] =
           IF received[s] + 1 > curCommitIndex[s] THEN received[s] + 1 ELSE curCommitIndex[s]]
      /\ got' = [got EXCEPT ![s] = op]
  BY <1>1 DEF Receive, raftVars, clientVars
<1>3. LogsOK' /\ CallsOK' /\ PlacesOK' /\ IssuedOK' /\ ConfigsOK' /\ ResultsOK' /\ AckedLead'
       /\ BeforeOK' /\ ReadsSeeWrites'
  <2>1. UNCHANGED raftVars
    BY <1>2 DEF raftVars
  <2> QED  BY <1>2, <2>1, LogsKept, CallsKept, PlacesKept, IssuedKept, ConfigsKept, ResultsKept,
              AckedKept, BeforeKept, ReadsKept DEF SMInv
<1>4. AppliedOK /\ LogsOK /\ Len(chosen) \in Nat
  BY DEF SMInv, LogsOK
<1>5. /\ received \in [Server -> Nat] /\ curCommitIndex \in [Server -> Nat] /\ DOMAIN got = Server
      /\ received[s] \in Nat /\ curCommitIndex[s] \in Nat /\ curCommitIndex[s] <= Len(chosen)
  BY <1>4 DEF AppliedOK
<1>6. op # None
  <2>1. received[s] + 1 \in 1..Len(chosen)
    BY <1>2, <1>4, <1>5
  <2>2. chosen[received[s] + 1] \in Entry
    BY <1>4, <2>1, ElementOfSeq DEF LogsOK
  <2> QED  BY <1>1, <2>2, ShardAssumption DEF Entry
<1>7. /\ received'[s] = received[s] + 1 /\ got'[s] = op
      /\ curCommitIndex'[s] \in Nat /\ curCommitIndex'[s] <= Len(chosen)
  BY <1>2, <1>4, <1>5
<1>8. \A r \in Server : r # s => received'[r] = received[r] /\ got'[r] = got[r]
                                  /\ curCommitIndex'[r] = curCommitIndex[r]
  BY <1>2, <1>5
<1>9. AppliedOK'
  <2>1. ASSUME NEW r \in Server
        PROVE  /\ received'[r] <= Len(chosen) /\ curCommitIndex'[r] <= Len(chosen)
               /\ got'[r] # None => received'[r] >= 1 /\ got'[r] = chosen[received'[r]].op
    <3>1. CASE r = s
      BY <1>1, <1>2, <1>4, <1>5, <1>7, <3>1
    <3>2. CASE r # s
      BY <1>4, <1>8, <3>2 DEF AppliedOK
    <3> QED  BY <3>1, <3>2
  <2>2. received' \in [Server -> Nat] /\ curCommitIndex' \in [Server -> Nat] /\ DOMAIN got' = Server
    BY <1>2, <1>5
  <2> QED  BY <1>2, <2>1, <2>2 DEF AppliedOK
<1>10. TablesOK'
  <2>1. ASSUME NEW r \in Server PROVE Done(r)' = Done(r)
    <3>1. CASE r = s
      BY <1>2, <1>5, <1>6, <1>7, <3>1 DEF Done
    <3>2. CASE r # s
      BY <1>8, <3>2 DEF Done
    <3> QED  BY <3>1, <3>2
  <2>2. \A r \in Server : Made(r)' = Made(r)
    BY <1>2 DEF Made
  <2>3. LogGrows
    BY <1>2, <1>4 DEF LogGrows
  <2>4. \A r \in Server : Tabled(r)'
    BY <1>2, <1>3, <1>4, <2>1, <2>2, <2>3, TabledKept DEF SMInv, TablesOK
  <2> QED  BY <1>2, <2>4 DEF SMInv, TablesOK
<1> QED  BY <1>3, <1>9, <1>10 DEF SMInv

\* A restarted server has applied nothing and answers no call.
LEMMA CrashOK == ASSUME SMInv, NEW s \in Server, Crash(s) PROVE SMInv'
<1>1. /\ UNCHANGED <<chosen, pending, elected, term, clerk, acked, answers>>
      /\ leads' = leads \ {s}
      /\ received' = [received EXCEPT ![s] = 0]
      /\ curCommitIndex' = [curCommitIndex EXCEPT ![s] = 0]
      /\ got' = [got EXCEPT ![s] = None]
      /\ configs' = [configs EXCEPT ![s] = <<EmptyConfig>>]
      /\ ClientMaxRequestSeq' = [ClientMaxRequestSeq EXCEPT ![s] = [c \in Clerk |-> -1]]
      /\ resultMap' = [resultMap EXCEPT ![s] = << >>]
      /\ handlers' = {h \in handlers : h.srv # s}
  BY DEF Crash, clientVars
<1>2. AckedLead' /\ BeforeOK' /\ ReadsSeeWrites'
  BY <1>1, AckedKept, BeforeKept, ReadsKept DEF SMInv
<1>3. LogsOK'
  BY <1>1 DEF SMInv, LogsOK
<1>4. LogsOK /\ AppliedOK /\ TablesOK /\ ConfigsOK /\ ResultsOK /\ Len(chosen) \in Nat
  BY DEF SMInv, LogsOK
<1>5. /\ received'[s] = 0 /\ curCommitIndex'[s] = 0 /\ got'[s] = None
      /\ configs'[s] = <<EmptyConfig>> /\ ClientMaxRequestSeq'[s] = [c \in Clerk |-> -1]
      /\ resultMap'[s] = << >>
  BY <1>1, <1>4 DEF AppliedOK, TablesOK, ConfigsOK, ResultsOK
<1>6. \A r \in Server : r # s =>
        /\ received'[r] = received[r] /\ curCommitIndex'[r] = curCommitIndex[r] /\ got'[r] = got[r]
        /\ configs'[r] = configs[r] /\ ClientMaxRequestSeq'[r] = ClientMaxRequestSeq[r]
        /\ resultMap'[r] = resultMap[r]
  BY <1>1, <1>4 DEF AppliedOK, TablesOK, ConfigsOK, ResultsOK
<1>7. AppliedOK'
  <2>1. received' \in [Server -> Nat] /\ curCommitIndex' \in [Server -> Nat] /\ DOMAIN got' = Server
    BY <1>1, <1>4 DEF AppliedOK
  <2>2. ASSUME NEW r \in Server
        PROVE  /\ received'[r] <= Len(chosen) /\ curCommitIndex'[r] <= Len(chosen)
               /\ got'[r] # None => received'[r] >= 1 /\ got'[r] = chosen[received'[r]].op
    <3>1. CASE r = s
      BY <1>4, <1>5, <3>1
    <3>2. CASE r # s
      BY <1>4, <1>6, <3>2 DEF AppliedOK
    <3> QED  BY <3>1, <3>2
  <2> QED  BY <1>1, <2>1, <2>2 DEF AppliedOK
<1>8. CallsOK'
  BY <1>1 DEF SMInv, CallsOK
<1>9. PlacesOK'
  BY <1>1 DEF SMInv, PlacesOK, Placed, At
<1>10. IssuedOK'
  BY <1>1 DEF SMInv, IssuedOK, Issued
<1>11. TablesOK'
  <2>1. ASSUME NEW r \in Server PROVE Tabled(r)'
    <3>1. CASE r = s
      <4>1. Done(s)' = 0
        BY <1>5 DEF Done
      <4>2. Made(s)' = {}
        BY <1>5, EmptyConfigOK DEF Made
      <4>3. \A j \in 1..Done(s)' : FALSE
        BY <4>1
      <4> QED  BY <1>5, <3>1, <4>2, <4>3 DEF Tabled, Covers
    <3>2. CASE r # s
      <4>1. Done(r)' = Done(r) /\ Made(r)' = Made(r) /\ ClientMaxRequestSeq'[r] = ClientMaxRequestSeq[r]
        BY <1>6, <3>2 DEF Done, Made
      <4>2. LogGrows
        BY <1>1, <1>4 DEF LogGrows
      <4> QED  BY <1>3, <1>4, <4>1, <4>2, TabledKept DEF TablesOK
    <3> QED  BY <3>1, <3>2
  <2>2. ClientMaxRequestSeq' \in [Server -> [Clerk -> Int]]
    BY <1>1, <1>4 DEF TablesOK
  <2> QED  BY <2>1, <2>2 DEF TablesOK
<1>12. ConfigsOK'
  <2>1. <<EmptyConfig>> \in Seq(Config) /\ Len(<<EmptyConfig>>) = 1
         /\ \A k \in 1..1 : <<EmptyConfig>>[k] = EmptyConfig
    BY EmptyConfigOK DEF ConfigOK
  <2>2. ASSUME NEW r \in Server
        PROVE  /\ configs'[r] \in Seq(Config) /\ Len(configs'[r]) >= 1
               /\ \A k \in 1..Len(configs'[r]) : ConfigOK(configs'[r][k])
    <3>1. CASE r = s
      <4>1. PICK one : one = <<EmptyConfig>>
        OBVIOUS
      <4>2. one \in Seq(Config) /\ Len(one) = 1 /\ \A k \in 1..1 : ConfigOK(one[k])
        BY <2>1, <4>1, EmptyConfigOK
      <4>3. configs'[r] = one
        BY <1>5, <3>1, <4>1
      <4>4. Len(one) >= 1 /\ \A k \in 1..Len(one) : ConfigOK(one[k])
        BY <4>2
      <4> HIDE DEF ConfigOK
      <4> QED  BY <4>2, <4>3, <4>4
    <3>2. CASE r # s
      BY <1>4, <1>6, <3>2 DEF ConfigsOK
    <3> QED  BY <3>1, <3>2
  <2> QED  BY <1>1, <1>4, <2>2 DEF ConfigsOK
<1>13. ResultsOK'
  <2>1. LogGrows
    BY <1>1, <1>4 DEF LogGrows
  <2>2. ASSUME NEW r \in Server, NEW id \in DOMAIN resultMap'[r] PROVE Reflects(resultMap[r][id], id)'
    <3>1. r # s /\ resultMap'[r] = resultMap[r]
      BY <1>5, <1>6
    <3>2. Reflects(resultMap[r][id], id)
      BY <1>4, <3>1 DEF ResultsOK
    <3>3. PICK a : a = resultMap[r][id]
      OBVIOUS
    <3>4. Reflects(a, id)'
      BY <1>3, <1>4, <2>1, <3>2, <3>3, ReflectsKept
    <3>5. resultMap'[r][id] = a
      BY <3>1, <3>3
    <3> QED  BY <3>4, <3>5 DEF Reflects
  <2> QED  BY <1>1, <1>4, <2>2 DEF ResultsOK
<1> QED  BY <1>2, <1>3, <1>7, <1>8, <1>9, <1>10, <1>11, <1>12, <1>13 DEF SMInv

\* The command that is being applied follows those that have been applied.
LEMMA AppliedNext ==
  ASSUME SMInv, NEW s \in Server, got[s] # None
  PROVE  /\ received[s] \in 1..Len(chosen) /\ Done(s) = received[s] - 1
         /\ got[s] = chosen[received[s]].op /\ got[s] \in Op /\ Finite(got[s].req)
<1>1. LogsOK /\ chosen \in Seq(Entry) /\ Len(chosen) \in Nat
  BY DEF SMInv, LogsOK
<1>2. received[s] \in Nat /\ received[s] <= Len(chosen) /\ received[s] >= 1
       /\ got[s] = chosen[received[s]].op
  BY DEF SMInv, AppliedOK
<1>3. received[s] \in 1..Len(chosen)
  BY <1>1, <1>2
<1>4. chosen[received[s]] \in Entry
  BY <1>1, <1>3, ElementOfSeq
<1>5. Finite(chosen[received[s]].op.req)
  BY <1>3 DEF SMInv, IssuedOK
<1> QED  BY <1>2, <1>3, <1>4, <1>5 DEF Done, Entry

\* A table stays right over the command that is applied: a Query leaves it, a
\* repetition is not newer than the latest write, and any other write becomes it.
LEMMA TabledApplied ==
  ASSUME SMInv, NEW s \in Server, got[s] # None, UNCHANGED <<chosen, received>>,
         got'[s] = None,
         LET op == got[s] IN
         \/ op.req.type = "Query" /\ UNCHANGED <<configs[s], ClientMaxRequestSeq[s]>>
         \/ /\ op.req.type # "Query" /\ Repeated(s, op)
            /\ UNCHANGED <<configs[s], ClientMaxRequestSeq[s]>>
         \/ /\ op.req.type # "Query" /\ ~Repeated(s, op)
            /\ ClientMaxRequestSeq'[s] = [ClientMaxRequestSeq[s] EXCEPT ![op.client] = op.seq]
            /\ Made(s)' = Made(s) \cup {CommID(op)}
  PROVE  Tabled(s)'
<1>1. PICK n : n = received[s]
  OBVIOUS
<1>2. PICK op : op = got[s]
  OBVIOUS
<1>3. /\ n \in 1..Len(chosen) /\ Len(chosen) \in Nat /\ op = chosen[n].op /\ op \in Op
      /\ Done(s) = n - 1 /\ Done(s)' = n
  BY <1>1, <1>2, AppliedNext DEF SMInv, LogsOK, Done
<1>4. op.client \in Clerk /\ op.seq \in Nat /\ CommID(op) = <<op.client, op.seq>>
  BY <1>3 DEF Op, CommID
<1>5. PICK q : q = ClientMaxRequestSeq[s]
  OBVIOUS
<1>6. PICK made : made = Made(s)
  OBVIOUS
<1>7. q \in [Clerk -> Int]
  BY <1>5 DEF SMInv, TablesOK
<1>8. ASSUME NEW c \in Clerk
      PROVE  /\ \A j \in 1..(n - 1) : WriteOf(c, j) => chosen[j].op.seq <= q[c]
             /\ q[c] = -1 \/ (<<c, q[c]>> \in made /\ \E j \in 1..(n - 1) : WriteOf(c, j) /\ chosen[j].op.seq = q[c])
             /\ \A id \in made : id[1] = c => id[2] <= q[c]
  BY <1>3, <1>5, <1>6 DEF SMInv, TablesOK, Tabled
<1>9. Covers(made, n - 1)
  BY <1>3, <1>6 DEF SMInv, TablesOK, Tabled
<1>10. \A j \in 1..n : j \in 1..(n - 1) \/ j = n
  BY <1>3
<1>11. \A j \in 1..(n - 1) : j \in 1..n
  BY <1>3
<1>12. PICK q2 : q2 = ClientMaxRequestSeq'[s]
  OBVIOUS
<1>13. PICK made2 : made2 = Made(s)'
  OBVIOUS
<1>14. \A j \in 1..n : chosen[j].op.seq \in Nat
  <2>1. \A j \in 1..n : j \in 1..Len(chosen)
    BY <1>3
  <2>2. \A j \in 1..Len(chosen) : chosen[j] \in Entry
    BY ElementOfSeq DEF SMInv, LogsOK
  <2> QED  BY <2>1, <2>2 DEF Entry, Op
<1>15. SUFFICES
         /\ \A c \in Clerk :
              /\ \A j \in 1..n : WriteOf(c, j) => chosen[j].op.seq <= q2[c]
              /\ q2[c] = -1 \/ (<<c, q2[c]>> \in made2 /\ \E j \in 1..n : WriteOf(c, j) /\ chosen[j].op.seq = q2[c])
              /\ \A id \in made2 : id[1] = c => id[2] <= q2[c]
         /\ Covers(made2, n)
  BY <1>3, <1>12, <1>13 DEF Tabled, WriteOf, Covers, Leading
<1>16. CASE op.req.type = "Query" /\ UNCHANGED <<configs[s], ClientMaxRequestSeq[s]>>
  <2>1. q2 = q /\ made2 = made
    BY <1>5, <1>6, <1>12, <1>13, <1>16 DEF Made
  <2>2. ~Leading(n) /\ \A c : ~WriteOf(c, n)
    BY <1>3, <1>16 DEF Leading, WriteOf
  <2>3. Covers(made2, n)
    BY <1>9, <1>10, <2>1, <2>2 DEF Covers
  <2> QED  BY <1>8, <1>10, <1>11, <2>1, <2>2, <2>3
<1>17. CASE /\ op.req.type # "Query" /\ Repeated(s, op)
            /\ UNCHANGED <<configs[s], ClientMaxRequestSeq[s]>>
  <2>1. q2 = q /\ made2 = made
    BY <1>5, <1>6, <1>12, <1>13, <1>17 DEF Made
  <2>2. q[op.client] >= op.seq /\ q[op.client] \in Int
    BY <1>4, <1>5, <1>7, <1>17 DEF Repeated
  <2>3. \A c \in Clerk : WriteOf(c, n) => c = op.client
    BY <1>3 DEF WriteOf
  <2>4. ASSUME Leading(n) PROVE CommID(op) \in made
    <3>1. q[op.client] # -1
      BY <1>4, <2>2
    <3>2. <<op.client, q[op.client]>> \in made
          /\ \E j \in 1..(n - 1) : WriteOf(op.client, j) /\ chosen[j].op.seq = q[op.client]
      BY <1>4, <1>8, <3>1
    <3>3. q[op.client] <= op.seq
      BY <1>3, <2>4, <3>2 DEF Leading
    <3>4. q[op.client] = op.seq
      BY <1>4, <2>2, <3>3
    <3> QED  BY <1>4, <3>2, <3>4
  <2>5. Covers(made2, n)
    BY <1>3, <1>9, <1>10, <2>1, <2>4 DEF Covers
  <2>6. chosen[n].op.seq <= q[op.client]
    BY <1>3, <1>4, <2>2
  <2> QED  BY <1>8, <1>10, <1>11, <2>1, <2>3, <2>5, <2>6
<1>18. CASE /\ op.req.type # "Query" /\ ~Repeated(s, op)
            /\ ClientMaxRequestSeq'[s] = [ClientMaxRequestSeq[s] EXCEPT ![op.client] = op.seq]
            /\ Made(s)' = Made(s) \cup {CommID(op)}
  <2>1. q2 = [q EXCEPT ![op.client] = op.seq] /\ made2 = made \cup {CommID(op)}
    BY <1>5, <1>6, <1>12, <1>13, <1>18
  <2>2. q[op.client] < op.seq /\ q[op.client] \in Int
    BY <1>4, <1>5, <1>7, <1>18 DEF Repeated
  <2>3. Covers(made2, n)
    BY <1>3, <1>9, <1>10, <2>1 DEF Covers
  <2>4. ASSUME NEW c \in Clerk
        PROVE  /\ \A j \in 1..n : WriteOf(c, j) => chosen[j].op.seq <= q2[c]
               /\ q2[c] = -1 \/ (<<c, q2[c]>> \in made2 /\ \E j \in 1..n : WriteOf(c, j) /\ chosen[j].op.seq = q2[c])
               /\ \A id \in made2 : id[1] = c => id[2] <= q2[c]
    <3>1. CASE c = op.client
      <4>1. q2[c] = op.seq
        BY <1>7, <2>1, <3>1
      <4>2. WriteOf(c, n) /\ chosen[n].op.seq = q2[c] /\ n \in 1..n
        BY <1>3, <1>18, <3>1, <4>1 DEF WriteOf
      <4>3. \A j \in 1..n : WriteOf(c, j) => chosen[j].op.seq <= q2[c]
        <5>1. ASSUME NEW j \in 1..(n - 1), WriteOf(c, j) PROVE chosen[j].op.seq <= q2[c]
          <6>1. chosen[j].op.seq <= q[c] /\ chosen[j].op.seq \in Nat
            BY <1>8, <1>11, <1>14, <5>1
          <6> QED  BY <1>4, <2>2, <3>1, <4>1, <6>1
        <5> QED  BY <1>4, <1>10, <4>1, <4>2, <5>1
      <4>4. <<c, q2[c]>> \in made2
        BY <1>4, <2>1, <3>1, <4>1
      <4>5. ASSUME NEW id \in made2, id[1] = c PROVE id[2] <= q2[c]
        <5>1. CASE id \in made
          <6>1. id[2] <= q[c]
            BY <1>8, <4>5, <5>1
          <6>2. id[2] \in Nat
            <7>1. made \subseteq Clerk \X Nat
              <8>1. configs[s] \in Seq(Config) /\ Len(configs[s]) >= 1
                BY DEF SMInv, ConfigsOK
              <8>2. configs[s][Len(configs[s])] \in Config
                BY <8>1, ElementOfSeq
              <8> QED  BY <1>6, <8>2 DEF Made, Config
            <7> QED  BY <5>1, <7>1
          <6> QED  BY <1>4, <2>2, <3>1, <4>1, <6>1, <6>2
        <5>2. CASE id = CommID(op)
          BY <1>4, <4>1, <5>2
        <5> QED  BY <2>1, <5>1, <5>2
      <4> QED  BY <4>2, <4>3, <4>4, <4>5
    <3>2. CASE c # op.client
      <4>1. q2[c] = q[c]
        BY <1>7, <2>1, <3>2
      <4>2. ~WriteOf(c, n)
        BY <1>3, <3>2 DEF WriteOf
      <4>3. \A id \in made2 : id[1] = c => id \in made
        BY <1>4, <2>1, <3>2
      <4> QED  BY <1>8, <1>10, <1>11, <2>1, <4>1, <4>2, <4>3
    <3> QED  BY <3>1, <3>2
  <2> QED  BY <2>3, <2>4
<1> QED  BY <1>2, <1>16, <1>17, <1>18

\* A Query is answered by a configuration with all that precedes it.
LEMMA AskedReflects ==
  ASSUME SMInv, NEW s \in Server, got[s] # None, got[s].req.type = "Query"
  PROVE  Reflects(Asked(s, got[s].req.num), CommID(got[s]))
<1>1. PICK n : n = received[s]
  OBVIOUS
<1>2. PICK op : op = got[s]
  OBVIOUS
<1>3. n \in 1..Len(chosen) /\ Len(chosen) \in Nat /\ op = chosen[n].op /\ op \in Op /\ Done(s) = n - 1
  BY <1>1, <1>2, AppliedNext DEF SMInv, LogsOK
<1>4. op.req.num \in Int
  BY <1>2, <1>3 DEF Op, Request
<1>5. configs[s] \in Seq(Config) /\ Len(configs[s]) \in Nat \ {0}
  BY DEF SMInv, ConfigsOK
<1>6. Asked(s, op.req.num) \in Config
  <2>1. \A k \in 1..Len(configs[s]) : configs[s][k] \in Config
    BY <1>5, ElementOfSeq
  <2>2. Len(configs[s]) \in 1..Len(configs[s])
    BY <1>5
  <2>3. op.req.num >= 0 /\ op.req.num < Len(configs[s]) => op.req.num + 1 \in 1..Len(configs[s])
    BY <1>4, <1>5
  <2> QED  BY <2>1, <2>2, <2>3 DEF Asked
<1>7. ASSUME op.req.num = -1 PROVE Covers(Asked(s, op.req.num).made, n)
  <2>1. Asked(s, op.req.num) = configs[s][Len(configs[s])]
    BY <1>7 DEF Asked
  <2>2. Covers(Made(s), n - 1)
    BY <1>3 DEF SMInv, TablesOK, Tabled
  <2>3. ~Leading(n)
    BY <1>2, <1>3 DEF Leading
  <2>4. \A j \in 1..n : j \in 1..(n - 1) \/ j = n
    BY <1>3
  <2> QED  BY <2>1, <2>2, <2>3, <2>4 DEF Made, Covers
<1> QED  BY <1>2, <1>3, <1>6, <1>7 DEF Reflects

\* mainProcess applies a command: a Query is answered, a repetition skipped, and any
\* other command makes one configuration.
LEMMA ApplyOK == ASSUME SMInv, NEW s \in Server, Apply(s) PROVE SMInv'
<1>1. PICK op : op = got[s]
  OBVIOUS
<1>2. /\ UNCHANGED <<chosen, pending, leads, elected, term, received, curCommitIndex, handlers, clerk,
                     acked, answers>>
      /\ op # None /\ got' = [got EXCEPT ![s] = None]
  BY <1>1 DEF Apply, raftVars, clientVars
<1>3. \/ /\ op.req.type = "Query" /\ UNCHANGED <<configs, ClientMaxRequestSeq>>
         /\ resultMap' = [resultMap EXCEPT ![s] =
              [id \in DOMAIN resultMap[s] \cup {CommID(op)} |->
                 IF id = CommID(op) THEN Asked(s, op.req.num) ELSE resultMap[s][id]]]
      \/ op.req.type # "Query" /\ Repeated(s, op) /\ UNCHANGED <<configs, ClientMaxRequestSeq, resultMap>>
      \/ /\ op.req.type # "Query" /\ ~Repeated(s, op) /\ UNCHANGED resultMap
         /\ ClientMaxRequestSeq' = [ClientMaxRequestSeq EXCEPT ![s][op.client] = op.seq]
         /\ configs' = [configs EXCEPT ![s] = Append(configs[s], NewConfig(s, op))]
  BY <1>1 DEF Apply
<1>4. LogsOK' /\ CallsOK' /\ PlacesOK' /\ IssuedOK' /\ AckedLead' /\ BeforeOK' /\ ReadsSeeWrites'
  <2>1. UNCHANGED raftVars
    BY <1>2 DEF raftVars
  <2> QED  BY <1>2, <2>1, LogsKept, CallsKept, PlacesKept, IssuedKept, AckedKept, BeforeKept,
              ReadsKept DEF SMInv
<1>5. LogsOK /\ AppliedOK /\ TablesOK /\ ConfigsOK /\ ResultsOK /\ Len(chosen) \in Nat
  BY DEF SMInv, LogsOK
<1>6. got'[s] = None /\ \A r \in Server : r # s => got'[r] = got[r]
  BY <1>2, <1>5 DEF AppliedOK
<1>7. AppliedOK'
  BY <1>2, <1>5, <1>6 DEF AppliedOK
<1>8. op \in Op /\ op.client \in Clerk /\ op.seq \in Nat /\ Finite(op.req)
  BY <1>1, <1>2, AppliedNext DEF Op
<1>9. LogGrows
  BY <1>2, <1>5 DEF LogGrows
<1>10. \A r \in Server : r # s => configs'[r] = configs[r] /\ ClientMaxRequestSeq'[r] = ClientMaxRequestSeq[r]
  BY <1>3, <1>5 DEF ConfigsOK, TablesOK
<1>11. ASSUME op.req.type # "Query", ~Repeated(s, op)
       PROVE  ConfigOK(NewConfig(s, op)) /\ NewConfig(s, op).made = Made(s) \cup {CommID(op)}
  <2>1. CommID(op) \notin Made(s)
    <3>1. ClientMaxRequestSeq[s][op.client] < op.seq
      BY <1>5, <1>8, <1>11 DEF Repeated, TablesOK
    <3>2. ClientMaxRequestSeq[s][op.client] \in Int
      BY <1>5, <1>8 DEF TablesOK
    <3>3. \A id \in Made(s) : id[1] = op.client => id[2] <= ClientMaxRequestSeq[s][op.client]
      BY <1>5, <1>8 DEF TablesOK, Tabled
    <3>4. CommID(op)[1] = op.client /\ CommID(op)[2] = op.seq
      BY DEF CommID
    <3> QED  BY <1>8, <3>1, <3>2, <3>3, <3>4
  <2> QED  BY <1>5, <1>8, <1>11, <2>1, NewConfigOK
<1>12. ConfigsOK' /\ (op.req.type # "Query" /\ ~Repeated(s, op) => Made(s)' = Made(s) \cup {CommID(op)})
  <2>1. CASE UNCHANGED configs /\ ~(op.req.type # "Query" /\ ~Repeated(s, op))
    BY <1>5, <2>1, ConfigsKept
  <2>2. CASE /\ op.req.type # "Query" /\ ~Repeated(s, op)
             /\ configs' = [configs EXCEPT ![s] = Append(configs[s], NewConfig(s, op))]
    <3>1. PICK new : new = NewConfig(s, op)
      OBVIOUS
    <3>2. ConfigOK(new) /\ new \in Config /\ new.made = Made(s) \cup {CommID(op)}
      BY <1>11, <2>2, <3>1 DEF ConfigOK
    <3>3. PICK old : old = configs[s]
      OBVIOUS
    <3>4. old \in Seq(Config) /\ Len(old) \in Nat /\ \A k \in 1..Len(old) : ConfigOK(old[k])
      BY <1>5, <3>3 DEF ConfigsOK
    <3>5. PICK all : all = Append(old, new)
      OBVIOUS
    <3>6. /\ all \in Seq(Config) /\ Len(all) = Len(old) + 1 /\ all[Len(old) + 1] = new
          /\ \A k \in 1..Len(old) : all[k] = old[k]
      BY <3>2, <3>4, <3>5, AppendProperties
    <3>7. Len(all) >= 1 /\ \A k \in 1..Len(all) : ConfigOK(all[k])
      <4>1. \A k \in 1..Len(all) : k \in 1..Len(old) \/ k = Len(old) + 1
        BY <3>4, <3>6
      <4>2. Len(all) >= 1
        BY <3>4, <3>6
      <4> QED  BY <3>2, <3>4, <3>6, <4>1, <4>2
    <3>8. configs'[s] = all /\ DOMAIN configs' = Server
      BY <1>5, <2>2, <3>1, <3>3, <3>5 DEF ConfigsOK
    <3>9. ConfigsOK'
      BY <1>5, <1>10, <3>6, <3>7, <3>8 DEF ConfigsOK
    <3>10. Made(s)' = new.made
      BY <3>6, <3>8 DEF Made
    <3> QED  BY <3>2, <3>9, <3>10
  <2> QED  BY <1>3, <2>1, <2>2
<1>13. TablesOK'
  <2>1. ClientMaxRequestSeq' \in [Server -> [Clerk -> Int]]
    <3>1. ClientMaxRequestSeq \in [Server -> [Clerk -> Int]]
      BY <1>5 DEF TablesOK
    <3>2. PICK q : q = [ClientMaxRequestSeq[s] EXCEPT ![op.client] = op.seq]
      OBVIOUS
    <3>3. q \in [Clerk -> Int]
      BY <1>8, <3>1, <3>2
    <3>4. \/ ClientMaxRequestSeq' = ClientMaxRequestSeq
          \/ ClientMaxRequestSeq' = [ClientMaxRequestSeq EXCEPT ![s] = q]
      BY <1>3, <3>2
    <3> QED  BY <3>1, <3>3, <3>4
  <2>2. Tabled(s)'
    <3>1. op.req.type # "Query" /\ ~Repeated(s, op) =>
            ClientMaxRequestSeq'[s] = [ClientMaxRequestSeq[s] EXCEPT ![op.client] = op.seq]
      BY <1>3, <1>5 DEF TablesOK
    <3> QED  BY <1>1, <1>2, <1>3, <1>6, <1>12, <3>1, TabledApplied
  <2>3. ASSUME NEW r \in Server, r # s PROVE Tabled(r)'
    <3>1. Done(r)' = Done(r) /\ Made(r)' = Made(r) /\ ClientMaxRequestSeq'[r] = ClientMaxRequestSeq[r]
      BY <1>2, <1>6, <1>10, <2>3 DEF Done, Made
    <3> QED  BY <1>4, <1>5, <1>9, <3>1, TabledKept DEF TablesOK
  <2> QED  BY <2>1, <2>2, <2>3 DEF TablesOK
<1>14. ResultsOK'
  <2>1. CASE UNCHANGED resultMap
    BY <1>4, <1>5, <1>9, <2>1, ResultsGrow
  <2>2. CASE /\ op.req.type = "Query"
             /\ resultMap' = [resultMap EXCEPT ![s] =
                  [id \in DOMAIN resultMap[s] \cup {CommID(op)} |->
                     IF id = CommID(op) THEN Asked(s, op.req.num) ELSE resultMap[s][id]]]
    <3>1. DOMAIN resultMap' = Server /\ \A r \in Server : r # s => resultMap'[r] = resultMap[r]
      BY <1>5, <2>2 DEF ResultsOK
    <3>2. /\ DOMAIN resultMap'[s] = DOMAIN resultMap[s] \cup {CommID(op)}
          /\ \A id \in DOMAIN resultMap'[s] :
               resultMap'[s][id] = IF id = CommID(op) THEN Asked(s, op.req.num) ELSE resultMap[s][id]
      BY <1>5, <2>2 DEF ResultsOK
    <3>3. Reflects(Asked(s, op.req.num), CommID(op))
      BY <1>1, <1>2, <2>2, AskedReflects
    <3>4. ASSUME NEW r \in Server, NEW id \in DOMAIN resultMap'[r] PROVE Reflects(resultMap[r][id], id)'
      <4>1. PICK a : a = resultMap'[r][id]
        OBVIOUS
      <4>2. Reflects(a, id)
        <5>1. CASE r = s /\ id = CommID(op)
          BY <3>2, <3>3, <4>1, <5>1
        <5>2. CASE r = s /\ id # CommID(op)
          BY <1>5, <3>2, <4>1, <5>2 DEF ResultsOK
        <5>3. CASE r # s
          BY <1>5, <3>1, <4>1, <5>3 DEF ResultsOK
        <5> QED  BY <5>1, <5>2, <5>3
      <4>3. Reflects(a, id)'
        BY <1>4, <1>5, <1>9, <4>2, ReflectsKept
      <4> QED  BY <4>1, <4>3 DEF Reflects
    <3> QED  BY <3>1, <3>4 DEF ResultsOK
  <2> QED  BY <1>3, <2>1, <2>2
<1> QED  BY <1>4, <1>7, <1>12, <1>13, <1>14 DEF SMInv

-----------------------------------------------------------------------------
(* The clerks and the handlers.                                            *)

\* The logs hold commands.
LEMMA LoggedOps ==
  ASSUME SMInv
  PROVE  /\ \A k \in 1..Len(chosen) : chosen[k].op \in Op
         /\ \A s \in Server : \A k \in 1..Len(pending[s]) : pending[s][k].op \in Op
<1>1. chosen \in Seq(Entry) /\ pending \in [Server -> Seq(Entry)]
  BY DEF SMInv, LogsOK
<1>2. \A k \in 1..Len(chosen) : chosen[k] \in Entry
  BY <1>1, ElementOfSeq
<1>3. ASSUME NEW s \in Server, NEW k \in 1..Len(pending[s]) PROVE pending[s][k] \in Entry
  <2>1. pending[s] \in Seq(Entry)
    BY <1>1
  <2> QED  BY <2>1, ElementOfSeq
<1> QED  BY <1>2, <1>3 DEF Entry

\* When no clerk takes back a request, those in the logs stay requests of their clerks.
LEMMA IssuedMoves ==
  ASSUME SMInv, UNCHANGED <<chosen, pending>>, \A op \in Op : Issued(op) => Issued(op)',
         \A h \in handlers' :
           Issued(h.op)' /\ Finite(h.op.req) /\ (h.live => h.op.seq = clerk'[h.op.client].seq)
  PROVE  IssuedOK'
<1>1. IssuedOK
  BY DEF SMInv
<1>2. ASSUME NEW k \in 1..Len(chosen) PROVE Issued(chosen[k].op)'
  <2>1. PICK op : op = chosen[k].op
    OBVIOUS
  <2>2. Issued(op)'
    BY <1>1, <2>1, LoggedOps DEF IssuedOK
  <2> QED  BY <2>1, <2>2 DEF Issued
<1>3. ASSUME NEW s \in Server, NEW k \in 1..Len(pending[s]) PROVE Issued(pending[s][k].op)'
  <2>1. PICK op : op = pending[s][k].op
    OBVIOUS
  <2>2. Issued(op)'
    BY <1>1, <2>1, LoggedOps DEF IssuedOK
  <2> QED  BY <2>1, <2>2 DEF Issued
<1>4. UNCHANGED <<chosen, pending>>
  OBVIOUS
<1> QED  BY <1>1, <1>2, <1>3, <1>4 DEF IssuedOK

\* A clerk that begins has asked for nothing with its sequence number yet, so that
\* all that has returned precedes whatever is agreed on for it.
LEMMA ClerkBeginOK == ASSUME SMInv, NEW c \in Clerk, ClerkBegin(c) PROVE SMInv'
<1>1. PICK req \in IF clerk[c].seq < Len(Script[c]) THEN Script[c][clerk[c].seq + 1] ELSE {} :
        /\ clerk[c].st = "idle"
        /\ clerk' = [clerk EXCEPT ![c].st = "send", ![c].at = 0, ![c].req = req,
                                  ![c].before = {a.id : a \in {b \in acked : b.sure}}]
        /\ UNCHANGED <<raftVars, applyVars, resultMap, handlers, lost, acked, answers, crashes>>
  BY DEF ClerkBegin
<1>2. UNCHANGED <<raftVars, chosen, pending, elected, term, received, curCommitIndex, got, configs,
                  ClientMaxRequestSeq, resultMap, handlers, acked, answers>>
  BY <1>1 DEF raftVars, applyVars
<1>3. LogsOK' /\ AppliedOK' /\ PlacesOK' /\ TablesOK' /\ ConfigsOK' /\ ResultsOK' /\ AckedLead'
       /\ ReadsSeeWrites'
  BY <1>2, LogsKept, AppliedKept, PlacesKept, TablesKept, ConfigsKept, ResultsKept, AckedKept,
     ReadsKept DEF SMInv
<1>4. clerk \in [Clerk -> ClerkState] /\ clerk[c] \in ClerkState /\ clerk[c].seq \in Nat
       /\ handlers \subseteq Handler
  BY DEF SMInv, CallsOK, ClerkState
<1>5. req \in Request /\ Finite(req)
  <2>1. clerk[c].seq < Len(Script[c]) /\ req \in Script[c][clerk[c].seq + 1]
    BY <1>1
  <2>2. Script[c] \in Seq(SUBSET Request)
    BY ShardAssumption
  <2>3. clerk[c].seq + 1 \in 1..Len(Script[c]) /\ DOMAIN Script[c] = 1..Len(Script[c])
    BY <1>4, <2>1, <2>2
  <2>4. Script[c][clerk[c].seq + 1] \in SUBSET Request
    BY <2>2, <2>3, ElementOfSeq
  <2>5. req.type \in {"Join", "Leave"} => IsFiniteSet(req.gids)
    BY <2>1, <2>3, ShardAssumption
  <2> QED  BY <2>1, <2>4, <2>5 DEF Finite
<1>6. PICK before : before = {a.id : a \in {b \in acked : b.sure}}
  OBVIOUS
<1>7. before \subseteq Clerk \X Nat /\ \A id \in before : \E a \in acked : a.sure /\ a.id = id
  <2>1. \A a \in acked : a.id \in Clerk \X Nat
    BY DEF SMInv, AckedLead
  <2> QED  BY <1>6, <2>1
<1>8. PICK new : new = [clerk[c] EXCEPT !.st = "send", !.at = 0, !.req = req, !.before = before]
  OBVIOUS
<1>9. 0 \in Server
  BY ShardAssumption DEF Server
<1>10. new \in ClerkState /\ new.st = "send" /\ new.seq = clerk[c].seq /\ new.req = req /\ new.before = before
  BY <1>4, <1>5, <1>7, <1>8, <1>9 DEF ClerkState
<1>11. clerk'[c] = new /\ \A d \in Clerk : d # c => clerk'[d] = clerk[d]
  <2>1. clerk' = [clerk EXCEPT ![c] = new]
    BY <1>1, <1>4, <1>6, <1>8
  <2> QED  BY <1>4, <2>1
<1>12. clerk' \in [Clerk -> ClerkState]
  <2>1. clerk' = [clerk EXCEPT ![c] = clerk'[c]]
    BY <1>1, <1>4
  <2> QED  BY <1>4, <1>10, <1>11, <2>1
<1>13. \A h \in handlers : h.op \in Op /\ h.op.client \in Clerk
  BY <1>4 DEF Handler, Op
<1>14. CallsOK'
  <2>1. ASSUME NEW h \in handlers, h.live PROVE clerk'[h.op.client].st = "wait"
    <3>1. clerk[h.op.client].st = "wait"
      BY <2>1 DEF SMInv, CallsOK
    <3>2. h.op.client # c
      BY <1>1, <3>1
    <3> QED  BY <1>11, <1>13, <3>1, <3>2
  <2>2. \A d \in Clerk : clerk'[d].st # "idle" => clerk'[d].req \in Request /\ Finite(clerk'[d].req)
    BY <1>5, <1>10, <1>11 DEF SMInv, CallsOK
  <2> QED  BY <1>2, <1>12, <2>1, <2>2 DEF SMInv, CallsOK
<1>15. ASSUME NEW op \in Op, Issued(op) PROVE Issued(op)' /\ ~(op.client = c /\ op.seq = clerk[c].seq)
  <2>1. op.client \in Clerk
    BY DEF Op
  <2>2. CASE op.client = c
    BY <1>1, <1>4, <1>10, <1>11, <1>15, <2>2 DEF Issued, Op
  <2>3. CASE op.client # c
    BY <1>11, <1>15, <2>1, <2>3 DEF Issued
  <2> QED  BY <2>2, <2>3
<1>16. \A k \in 1..Len(chosen) : chosen[k].op \in Op
  BY LoggedOps
<1>17. IssuedOK'
  <2>1. ASSUME NEW h \in handlers
        PROVE  Issued(h.op)' /\ Finite(h.op.req) /\ (h.live => h.op.seq = clerk'[h.op.client].seq)
    <3>1. Issued(h.op)'
      BY <1>13, <1>15 DEF SMInv, IssuedOK
    <3>2. clerk'[h.op.client].seq = clerk[h.op.client].seq
      BY <1>10, <1>11, <1>13
    <3> QED  BY <3>1, <3>2 DEF SMInv, IssuedOK
  <2> QED  BY <1>2, <1>15, <2>1, IssuedMoves
<1>18. BeforeOK'
  <2>1. ASSUME NEW d \in Clerk, NEW id \in clerk'[d].before
        PROVE  \E j \in 1..Len(chosen) :
                 /\ CommID(chosen[j].op) = id /\ Leading(j)
                 /\ \A k \in 1..Len(chosen) :
                      chosen[k].op.client = d /\ chosen[k].op.seq = clerk'[d].seq => j < k
    <3>1. CASE d = c
      <4>1. PICK a \in acked : a.sure /\ a.id = id
        BY <1>7, <1>10, <1>11, <2>1, <3>1
      <4>2. PICK j \in 1..Len(chosen) : CommID(chosen[j].op) = id /\ Leading(j)
        BY <4>1 DEF SMInv, AckedLead
      <4>3. \A k \in 1..Len(chosen) : ~(chosen[k].op.client = c /\ chosen[k].op.seq = clerk[c].seq)
        BY <1>15, <1>16 DEF SMInv, IssuedOK
      <4> QED  BY <1>10, <1>11, <3>1, <4>2, <4>3
    <3>2. CASE d # c
      BY <1>11, <2>1, <3>2 DEF SMInv, BeforeOK
    <3> QED  BY <3>1, <3>2
  <2> QED  BY <1>2, <2>1 DEF BeforeOK, Leading, WriteOf
<1> QED  BY <1>3, <1>14, <1>17, <1>18 DEF SMInv

\* A clerk that has a request under way turns to the same or another server with it.
LEMMA ClerkMoves ==
  ASSUME SMInv, NEW c \in Clerk, NEW new \in ClerkState, clerk[c].st # "idle", new.st # "idle",
         new.seq = clerk[c].seq, new.req = clerk[c].req, new.before = clerk[c].before,
         clerk' = [clerk EXCEPT ![c] = new], UNCHANGED chosen
  PROVE  /\ clerk' \in [Clerk -> ClerkState] /\ clerk'[c] = new
         /\ \A d \in Clerk : d # c => clerk'[d] = clerk[d]
         /\ \A d \in Clerk : clerk'[d].seq = clerk[d].seq
         /\ \A d \in Clerk : clerk'[d].st # "idle" => clerk'[d].req \in Request /\ Finite(clerk'[d].req)
         /\ \A op \in Op : Issued(op) => Issued(op)'
         /\ BeforeOK'
<1>1. clerk \in [Clerk -> ClerkState]
  BY DEF SMInv, CallsOK
<1>2. /\ clerk' \in [Clerk -> ClerkState] /\ clerk'[c] = new
      /\ \A d \in Clerk : d # c => clerk'[d] = clerk[d]
  BY <1>1
<1>3. \A d \in Clerk : /\ clerk'[d].seq = clerk[d].seq /\ clerk'[d].req = clerk[d].req
                       /\ clerk'[d].before = clerk[d].before
                       /\ (clerk'[d].st # "idle" <=> clerk[d].st # "idle")
  BY <1>2
<1>4. \A d \in Clerk : clerk'[d].st # "idle" => clerk'[d].req \in Request /\ Finite(clerk'[d].req)
  BY <1>3 DEF SMInv, CallsOK
<1>5. ASSUME NEW op \in Op, Issued(op) PROVE Issued(op)'
  <2>1. op.client \in Clerk
    BY DEF Op
  <2> QED  BY <1>3, <1>5, <2>1 DEF Issued
<1>6. BeforeOK'
  BY <1>3 DEF SMInv, BeforeOK, Leading, WriteOf
<1> QED  BY <1>2, <1>3, <1>4, <1>5, <1>6

\* NextServer names a server and keeps the request.
LEMMA NextServerMoves ==
  ASSUME SMInv, NEW c \in Clerk
  PROVE  \E new \in ClerkState :
           /\ NextServer(c) = [clerk EXCEPT ![c] = new] /\ new.st = "send"
           /\ new.seq = clerk[c].seq /\ new.req = clerk[c].req /\ new.before = clerk[c].before
<1>1. clerk \in [Clerk -> ClerkState] /\ clerk[c] \in ClerkState
  BY DEF SMInv, CallsOK
<1>2. clerk[c].at \in Server
  BY <1>1 DEF ClerkState
<1>3. PICK at : at = (clerk[c].at + 1) % N
  OBVIOUS
<1>4. at \in Server
  BY <1>2, <1>3, ShardAssumption DEF Server
<1>5. PICK new : new = [clerk[c] EXCEPT !.st = "send", !.at = at]
  OBVIOUS
<1>6. NextServer(c) = [clerk EXCEPT ![c] = new]
  BY <1>1, <1>3, <1>5 DEF NextServer
<1>7. new \in ClerkState /\ new.st = "send" /\ new.seq = clerk[c].seq /\ new.req = clerk[c].req
       /\ new.before = clerk[c].before
  BY <1>1, <1>4, <1>5 DEF ClerkState
<1> QED  BY <1>6, <1>7

\* A call that arrives starts the only handler its clerk listens to.
LEMMA CallOK == ASSUME SMInv, NEW c \in Clerk, Call(c) PROVE SMInv'
<1>1. UNCHANGED <<raftVars, chosen, pending, elected, term, received, curCommitIndex, got, configs,
                  ClientMaxRequestSeq, resultMap, acked, answers>>
  BY DEF Call, raftVars, applyVars
<1>2. clerk[c].st = "send"
  BY DEF Call
<1>3. LogsOK' /\ AppliedOK' /\ TablesOK' /\ ConfigsOK' /\ ResultsOK' /\ AckedLead' /\ ReadsSeeWrites'
  BY <1>1, LogsKept, AppliedKept, TablesKept, ConfigsKept, ResultsKept, AckedKept, ReadsKept DEF SMInv
<1>4. clerk \in [Clerk -> ClerkState] /\ clerk[c] \in ClerkState /\ handlers \subseteq Handler
       /\ clerk[c].at \in Server
  BY DEF SMInv, CallsOK, ClerkState
<1>5. \A h \in handlers : h.op \in Op /\ h.op.client \in Clerk /\ (h.live => h.op.client # c)
  <2>1. \A h \in handlers : h.live => clerk[h.op.client].st = "wait"
    BY DEF SMInv, CallsOK
  <2> QED  BY <1>2, <1>4, <2>1 DEF Handler, Op
<1>6. CASE clerk[c].at \in leads
  <2>1. PICK g : g = [srv |-> clerk[c].at, st |-> "start", index |-> -1, term |-> NoTerm, live |-> TRUE,
                      op |-> [client |-> c, seq |-> clerk[c].seq, req |-> clerk[c].req]]
    OBVIOUS
  <2>2. handlers' = handlers \cup {g} /\ clerk' = [clerk EXCEPT ![c].st = "wait"]
    BY <1>6, <2>1 DEF Call
  <2>3. g \in Handler /\ g.op.client = c /\ g.op.seq = clerk[c].seq /\ g.op.req = clerk[c].req
         /\ g.op.req \in Request /\ Finite(g.op.req) /\ g.term = 0 /\ g.op \in Op
    <3>1. clerk[c].req \in Request /\ Finite(clerk[c].req) /\ clerk[c].seq \in Nat
      BY <1>2, <1>4 DEF SMInv, CallsOK, ClerkState
    <3>2. PICK op : op = [client |-> c, seq |-> clerk[c].seq, req |-> clerk[c].req]
      OBVIOUS
    <3>3. op \in Op /\ op.client = c /\ op.seq = clerk[c].seq /\ op.req = clerk[c].req
      BY <3>1, <3>2 DEF Op
    <3>4. g = [srv |-> clerk[c].at, st |-> "start", index |-> -1, term |-> 0, live |-> TRUE, op |-> op]
      BY <2>1, <3>2 DEF NoTerm
    <3>5. g \in Handler /\ g.op = op /\ g.term = 0
      BY <1>4, <3>3, <3>4 DEF Handler
    <3> QED  BY <3>1, <3>3, <3>5
  <2>4. PICK new : new = [clerk[c] EXCEPT !.st = "wait"]
    OBVIOUS
  <2>5. new \in ClerkState /\ new.st = "wait" /\ new.seq = clerk[c].seq /\ new.req = clerk[c].req
         /\ new.before = clerk[c].before
    BY <1>4, <2>4 DEF ClerkState
  <2>6. clerk' = [clerk EXCEPT ![c] = new]
    BY <1>4, <2>2, <2>4
  <2>7. /\ clerk' \in [Clerk -> ClerkState] /\ clerk'[c] = new
        /\ \A d \in Clerk : d # c => clerk'[d] = clerk[d]
        /\ \A d \in Clerk : clerk'[d].seq = clerk[d].seq
        /\ \A d \in Clerk : clerk'[d].st # "idle" => clerk'[d].req \in Request /\ Finite(clerk'[d].req)
        /\ \A op \in Op : Issued(op) => Issued(op)'
        /\ BeforeOK'
    BY <1>1, <1>2, <2>5, <2>6, ClerkMoves
  <2>8. CallsOK'
    <3>1. \A h \in handlers' : h = g \/ h \in handlers
      BY <2>2
    <3>2. ASSUME NEW h \in handlers', h.live PROVE clerk'[h.op.client].st = "wait"
      BY <1>5, <2>3, <2>5, <2>7, <3>1, <3>2 DEF SMInv, CallsOK
    <3>3. ASSUME NEW h \in handlers', NEW f \in handlers', f.live, h.live, f.op.client = h.op.client
          PROVE  f = h
      BY <1>5, <2>3, <3>1, <3>3 DEF SMInv, CallsOK
    <3> QED  BY <1>4, <2>2, <2>3, <2>7, <3>2, <3>3 DEF CallsOK
  <2>9. PlacesOK'
    <3>1. term \in Nat /\ term # 0
      BY DEF SMInv, LogsOK
    <3> QED  BY <1>1, <2>2, <2>3, <3>1 DEF SMInv, PlacesOK, Placed, At
  <2>10. IssuedOK'
    <3>1. Issued(g.op)'
      BY <1>4, <2>3, <2>5, <2>7 DEF Issued, ClerkState
    <3>2. \A h \in handlers : Issued(h.op)' /\ Finite(h.op.req) /\ (h.live => h.op.seq = clerk'[h.op.client].seq)
      BY <1>5, <2>7 DEF SMInv, IssuedOK
    <3> QED  BY <1>1, <2>2, <2>3, <2>7, <3>1, <3>2, IssuedMoves
  <2> QED  BY <1>3, <2>7, <2>8, <2>9, <2>10 DEF SMInv
<1>7. CASE clerk[c].at \notin leads
  <2>1. clerk' = NextServer(c) /\ UNCHANGED handlers
    BY <1>7 DEF Call
  <2>2. PICK new \in ClerkState :
           /\ NextServer(c) = [clerk EXCEPT ![c] = new] /\ new.st = "send"
           /\ new.seq = clerk[c].seq /\ new.req = clerk[c].req /\ new.before = clerk[c].before
    BY NextServerMoves
  <2>3. /\ clerk' \in [Clerk -> ClerkState] /\ clerk'[c] = new
        /\ \A d \in Clerk : d # c => clerk'[d] = clerk[d]
        /\ \A d \in Clerk : clerk'[d].seq = clerk[d].seq
        /\ \A d \in Clerk : clerk'[d].st # "idle" => clerk'[d].req \in Request /\ Finite(clerk'[d].req)
        /\ \A op \in Op : Issued(op) => Issued(op)'
        /\ BeforeOK'
    BY <1>1, <1>2, <2>1, <2>2, ClerkMoves
  <2>4. CallsOK'
    BY <1>5, <2>1, <2>3 DEF SMInv, CallsOK
  <2>5. PlacesOK'
    BY <1>1, <2>1, PlacesKept DEF SMInv
  <2>6. IssuedOK'
    <3>1. \A h \in handlers : Issued(h.op)' /\ Finite(h.op.req) /\ (h.live => h.op.seq = clerk'[h.op.client].seq)
      BY <1>5, <2>3 DEF SMInv, IssuedOK
    <3> QED  BY <1>1, <2>1, <2>3, <3>1, IssuedMoves
  <2> QED  BY <1>3, <2>3, <2>4, <2>5, <2>6 DEF SMInv
<1> QED  BY <1>6, <1>7

\* When a call fails nobody listens to its handler any more; what the handler does
\* goes on.
LEMMA CallFailsOK == ASSUME SMInv, NEW c \in Clerk, CallFails(c) PROVE SMInv'
<1>1. UNCHANGED <<raftVars, chosen, pending, elected, term, received, curCommitIndex, got, configs,
                  ClientMaxRequestSeq, resultMap, acked, answers>>
  BY DEF CallFails, raftVars, applyVars
<1>2. clerk[c].st # "idle" /\ clerk' = NextServer(c)
       /\ handlers' = {IF h.op.client = c THEN [h EXCEPT !.live = FALSE] ELSE h : h \in handlers}
  BY DEF CallFails
<1>3. LogsOK' /\ AppliedOK' /\ TablesOK' /\ ConfigsOK' /\ ResultsOK' /\ AckedLead' /\ ReadsSeeWrites'
  BY <1>1, LogsKept, AppliedKept, TablesKept, ConfigsKept, ResultsKept, AckedKept, ReadsKept DEF SMInv
<1>4. PICK new \in ClerkState :
         /\ NextServer(c) = [clerk EXCEPT ![c] = new] /\ new.st = "send"
         /\ new.seq = clerk[c].seq /\ new.req = clerk[c].req /\ new.before = clerk[c].before
  BY NextServerMoves
<1>5. /\ clerk' \in [Clerk -> ClerkState] /\ clerk'[c] = new
      /\ \A d \in Clerk : d # c => clerk'[d] = clerk[d]
      /\ \A d \in Clerk : clerk'[d].seq = clerk[d].seq
      /\ \A d \in Clerk : clerk'[d].st # "idle" => clerk'[d].req \in Request /\ Finite(clerk'[d].req)
      /\ \A op \in Op : Issued(op) => Issued(op)'
      /\ BeforeOK'
  BY <1>1, <1>2, <1>4, ClerkMoves
<1>6. \A h \in handlers : h \in Handler /\ h.op \in Op /\ h.op.client \in Clerk
  BY DEF SMInv, CallsOK, Handler, Op
<1>7. ASSUME NEW h \in handlers'
      PROVE  \E g \in handlers : /\ h.op = g.op /\ h.srv = g.srv /\ h.st = g.st /\ h.term = g.term
                                 /\ h.index = g.index /\ h \in Handler
                                 /\ (h.live => h = g /\ g.op.client # c)
  <2>1. PICK g \in handlers : h = IF g.op.client = c THEN [g EXCEPT !.live = FALSE] ELSE g
    BY <1>2
  <2>2. CASE g.op.client = c
    <3>1. h = [g EXCEPT !.live = FALSE] /\ g \in Handler
      BY <1>6, <2>1, <2>2
    <3>2. h.op = g.op /\ h.srv = g.srv /\ h.st = g.st /\ h.term = g.term /\ h.index = g.index
           /\ h \in Handler /\ ~h.live
      BY <3>1 DEF Handler
    <3> QED  BY <3>2
  <2>3. CASE g.op.client # c
    BY <1>6, <2>1, <2>3
  <2> QED  BY <2>2, <2>3
<1>8. CallsOK'
  <2>1. \A h \in handlers' : h \in Handler /\ (h.live => h \in handlers /\ h.op.client # c)
    BY <1>7
  <2>2. \A h \in handlers' : h.live => clerk'[h.op.client].st = "wait"
    BY <1>5, <1>6, <2>1 DEF SMInv, CallsOK
  <2>3. \A h, g \in handlers' : g.live /\ h.live /\ g.op.client = h.op.client => g = h
    BY <2>1 DEF SMInv, CallsOK
  <2> QED  BY <1>5, <2>1, <2>2, <2>3 DEF CallsOK
<1>9. PlacesOK'
  <2>1. ASSUME NEW h \in handlers'
        PROVE  /\ h.term <= term /\ (h.st = "start" => h.term = 0)
               /\ h.term = term /\ h.srv = elected => Placed(h)
    <3>1. PICK g \in handlers : h.op = g.op /\ h.srv = g.srv /\ h.st = g.st /\ h.term = g.term
                                 /\ h.index = g.index
      BY <1>7
    <3> QED  BY <3>1 DEF SMInv, PlacesOK, Placed
  <2> QED  BY <1>1, <2>1 DEF PlacesOK, Placed, At
<1>10. IssuedOK'
  <2>1. ASSUME NEW h \in handlers'
        PROVE  Issued(h.op)' /\ Finite(h.op.req) /\ (h.live => h.op.seq = clerk'[h.op.client].seq)
    <3>1. PICK g \in handlers : h.op = g.op /\ (h.live => h = g)
      BY <1>7
    <3>2. Issued(g.op) /\ Finite(g.op.req) /\ (g.live => g.op.seq = clerk[g.op.client].seq)
      BY DEF SMInv, IssuedOK
    <3>3. PICK op : op = g.op
      OBVIOUS
    <3>4. Issued(op)' /\ op.client \in Clerk
      BY <1>5, <1>6, <3>2, <3>3
    <3>5. h.live => h.op.seq = clerk'[h.op.client].seq
      BY <1>5, <3>1, <3>2, <3>3, <3>4
    <3> QED  BY <3>1, <3>2, <3>3, <3>4, <3>5
  <2> QED  BY <1>1, <1>5, <2>1, IssuedMoves
<1> QED  BY <1>3, <1>5, <1>8, <1>9, <1>10 DEF SMInv

\* Start puts the command of the handler behind what the log holds; the index it
\* returns is that place as long as the server leads.
LEMMA HandlerStartOK == ASSUME SMInv, NEW h \in handlers, HandlerStart(h) PROVE SMInv'
<1>1. UNCHANGED <<chosen, leads, elected, term, received, curCommitIndex, got, configs,
                  ClientMaxRequestSeq, resultMap, clerk, acked, answers>>
  BY DEF HandlerStart, applyVars, clientVars
<1>2. AppliedOK' /\ TablesOK' /\ ConfigsOK' /\ ResultsOK' /\ AckedLead' /\ BeforeOK' /\ ReadsSeeWrites'
  BY <1>1, AppliedKept, TablesKept, ConfigsKept, ResultsKept, AckedKept, BeforeKept, ReadsKept DEF SMInv
<1>3. h.st = "start" /\ h \in Handler /\ h.srv \in Server /\ h.op \in Op /\ h.term = 0
  BY DEF HandlerStart, SMInv, CallsOK, Handler, PlacesOK
<1>4. PICK e : e = [op |-> h.op, term |-> term]
  OBVIOUS
<1>5. LogsOK /\ chosen \in Seq(Entry) /\ pending \in [Server -> Seq(Entry)] /\ elected \in Server
       /\ term \in Nat /\ term # 0 /\ Len(chosen) \in Nat
  BY DEF SMInv, LogsOK
<1>6. e \in Entry /\ e.op = h.op
  BY <1>3, <1>4, <1>5 DEF Entry
<1>7. PICK old : old = pending[h.srv]
  OBVIOUS
<1>8. old \in Seq(Entry) /\ Len(old) \in Nat
  BY <1>3, <1>5, <1>7
<1>9. PICK longer : longer = Append(old, e)
  OBVIOUS
<1>10. /\ longer \in Seq(Entry) /\ Len(longer) = Len(old) + 1 /\ longer[Len(old) + 1] = e
       /\ \A k \in 1..Len(old) : longer[k] = old[k]
  BY <1>6, <1>8, <1>9, AppendProperties
<1>11. PICK g :
         /\ handlers' = (handlers \ {h}) \cup {g}
         /\ g \in Handler /\ g.op = h.op /\ g.srv = h.srv /\ g.live = h.live /\ g.st = "wait"
         /\ \/ pending' = pending /\ g.term = 0
            \/ /\ pending' = [pending EXCEPT ![h.srv] = longer]
               /\ g.index = Len(chosen) + Len(old) + 1
               /\ g.term = IF h.srv = elected THEN term ELSE 0
  <2>1. CASE h.srv \in leads
    <3>1. PICK place : place = Len(chosen) + Len(old) + 1
      OBVIOUS
    <3>2. PICK t : t = IF h.srv = elected THEN term ELSE 0
      OBVIOUS
    <3>3. place \in Int /\ t \in Nat
      BY <1>5, <1>8, <3>1, <3>2
    <3>4. PICK g : g = [h EXCEPT !.st = "wait", !.index = place, !.term = t]
      OBVIOUS
    <3>5. g \in Handler /\ g.op = h.op /\ g.srv = h.srv /\ g.live = h.live /\ g.st = "wait"
           /\ g.index = place /\ g.term = t
      BY <1>3, <3>3, <3>4 DEF Handler
    <3>6. handlers' = (handlers \ {h}) \cup {g}
      BY <1>7, <2>1, <3>1, <3>2, <3>4 DEF HandlerStart, NoTerm
    <3>7. pending' = [pending EXCEPT ![h.srv] = longer]
      BY <1>3, <1>4, <1>5, <1>7, <1>9, <2>1 DEF HandlerStart
    <3> QED  BY <3>1, <3>2, <3>5, <3>6, <3>7
  <2>2. CASE h.srv \notin leads
    <3>1. PICK g : g = [h EXCEPT !.st = "wait"]
      OBVIOUS
    <3>2. g \in Handler /\ g.op = h.op /\ g.srv = h.srv /\ g.live = h.live /\ g.st = "wait" /\ g.term = 0
      BY <1>3, <3>1 DEF Handler
    <3>3. handlers' = (handlers \ {h}) \cup {g} /\ pending' = pending
      BY <2>2, <3>1 DEF HandlerStart
    <3> QED  BY <3>2, <3>3
  <2> QED  BY <2>1, <2>2
<1>12. LogsOK'
  <2>1. pending' \in [Server -> Seq(Entry)]
    BY <1>5, <1>10, <1>11
  <2> QED  BY <1>1, <2>1 DEF SMInv, LogsOK
<1>13. CallsOK'
  <2>1. ASSUME NEW f \in handlers', NEW k \in handlers', f.live, k.live, f.op.client = k.op.client
        PROVE  f = k
    <3>1. \A x \in handlers' : x = g \/ (x \in handlers /\ x # h)
      BY <1>11
    <3>2. \A x \in handlers : x.live /\ h.live /\ x.op.client = h.op.client => x = h
      BY DEF SMInv, CallsOK
    <3>3. \A x, y \in handlers : x.live /\ y.live /\ x.op.client = y.op.client => x = y
      BY DEF SMInv, CallsOK
    <3> QED  BY <1>11, <2>1, <3>1, <3>2, <3>3
  <2>2. \A f \in handlers' : f \in Handler /\ (f.live => clerk[f.op.client].st = "wait")
    BY <1>11 DEF SMInv, CallsOK
  <2> QED  BY <1>1, <2>1, <2>2 DEF SMInv, CallsOK
<1>14. PlacesOK'
  <2>1. /\ Len(pending[elected]) \in Nat /\ Len(pending'[elected]) \in Nat
        /\ Len(pending[elected]) <= Len(pending'[elected])
        /\ \A k \in 1..Len(pending[elected]) : pending'[elected][k] = pending[elected][k]
    <3>1. CASE pending' = pending
      BY <1>5, <3>1
    <3>2. CASE pending' = [pending EXCEPT ![h.srv] = longer]
      <4>1. CASE h.srv = elected
        <5>1. pending'[elected] = longer /\ pending[elected] = old
          BY <1>5, <1>7, <3>2, <4>1
        <5> QED  BY <1>8, <1>10, <5>1
      <4>2. CASE h.srv # elected
        <5>1. pending'[elected] = pending[elected]
          BY <1>5, <3>2, <4>2
        <5> QED  BY <1>5, <5>1
      <4> QED  BY <4>1, <4>2
    <3> QED  BY <1>11, <3>1, <3>2
  <2>2. ASSUME NEW k \in 1..(Len(chosen) + Len(pending[elected]))
        PROVE  At(k)' = At(k) /\ k \in 1..(Len(chosen') + Len(pending'[elected]))
    <3>1. PICK n \in Nat : n = Len(chosen)
      BY <1>5
    <3>2. PICK m \in Nat : m = Len(pending[elected])
      BY <2>1
    <3>3. k \in 1..(n + m) /\ (k > n => k - n \in 1..m)
      BY <3>1, <3>2
    <3>4. At(k)' = At(k)
      BY <1>1, <2>1, <3>1, <3>2, <3>3 DEF At
    <3>5. k \in 1..(n + Len(pending'[elected]))
      BY <2>1, <3>2, <3>3
    <3> QED  BY <1>1, <3>1, <3>4, <3>5
  <2>3. \A f \in handlers : Placed(f) => Placed(f)'
    BY <1>1, <2>2 DEF Placed
  <2>4. ASSUME g.term = term, g.srv = elected PROVE Placed(g)'
    <3>1. /\ pending' = [pending EXCEPT ![h.srv] = longer] /\ g.index = Len(chosen) + Len(old) + 1
          /\ h.srv = elected
      BY <1>5, <1>11, <2>4
    <3>2. pending'[elected] = longer
      BY <1>5, <3>1
    <3>3. PICK n \in Nat : n = Len(chosen)
      BY <1>5
    <3>4. PICK m \in Nat : m = Len(old)
      BY <1>8
    <3>5. g.index = n + m + 1 /\ g.index - n = m + 1 /\ ~(g.index <= n) /\ g.index \in 1..(n + (m + 1))
      BY <3>1, <3>3, <3>4
    <3>6. At(g.index)' = longer[m + 1]
      BY <1>1, <3>2, <3>3, <3>5 DEF At
    <3>7. At(g.index)'.op = g.op
      BY <1>6, <1>10, <1>11, <3>4, <3>6
    <3> QED  BY <1>1, <1>10, <3>2, <3>3, <3>4, <3>5, <3>7 DEF Placed
  <2>5. g.term <= term /\ g.st # "start"
    BY <1>5, <1>11
  <2> QED  BY <1>1, <1>11, <2>3, <2>4, <2>5 DEF SMInv, PlacesOK
<1>15. IssuedOK'
  <2>1. IssuedOK
    BY DEF SMInv
  <2>2. Issued(e.op) /\ Finite(e.op.req)
    BY <1>6, <2>1 DEF IssuedOK
  <2>3. ASSUME NEW s \in Server, NEW k \in 1..Len(pending'[s])
        PROVE  Issued(pending'[s][k].op) /\ Finite(pending'[s][k].op.req)
    <3>1. CASE pending'[s] = pending[s]
      BY <2>1, <3>1 DEF IssuedOK
    <3>2. CASE pending'[s] = longer /\ pending[s] = old
      <4>1. k \in 1..Len(old) \/ k = Len(old) + 1
        BY <1>8, <1>10, <3>2
      <4> QED  BY <1>10, <2>1, <2>2, <3>2, <4>1 DEF IssuedOK
    <3> QED  BY <1>5, <1>7, <1>11, <3>1, <3>2
  <2>4. \A f \in handlers' : Issued(f.op) /\ Finite(f.op.req) /\ (f.live => f.op.seq = clerk[f.op.client].seq)
    BY <1>11, <2>1 DEF IssuedOK
  <2> QED  BY <1>1, <2>1, <2>3, <2>4 DEF IssuedOK, Issued
<1> QED  BY <1>2, <1>12, <1>13, <1>14, <1>15 DEF SMInv

\* A handler whose server does not lead sends its clerk to the next server.
LEMMA HandlerWrongLeaderOK == ASSUME SMInv, NEW h \in handlers, HandlerWrongLeader(h) PROVE SMInv'
<1>1. UNCHANGED <<raftVars, chosen, pending, elected, term, received, curCommitIndex, got, configs,
                  ClientMaxRequestSeq, resultMap, acked, answers>>
  BY DEF HandlerWrongLeader, raftVars, applyVars
<1>2. handlers' = handlers \ {h}
  BY DEF HandlerWrongLeader
<1>3. LogsOK' /\ AppliedOK' /\ TablesOK' /\ ConfigsOK' /\ ResultsOK' /\ AckedLead' /\ ReadsSeeWrites'
  BY <1>1, LogsKept, AppliedKept, TablesKept, ConfigsKept, ResultsKept, AckedKept, ReadsKept DEF SMInv
<1>4. PlacesOK'
  BY <1>1, <1>2 DEF SMInv, PlacesOK, Placed, At
<1>5. \A g \in handlers : g \in Handler /\ g.op \in Op /\ g.op.client \in Clerk
  BY DEF SMInv, CallsOK, Handler, Op
<1>6. CASE ~h.live
  <2>1. UNCHANGED clerk
    BY <1>6 DEF HandlerWrongLeader
  <2>2. CallsOK' /\ IssuedOK'
    BY <1>1, <1>2, <2>1 DEF SMInv, CallsOK, IssuedOK, Issued
  <2> QED  BY <1>1, <1>3, <1>4, <2>1, <2>2, BeforeKept DEF SMInv
<1>7. CASE h.live
  <2>1. PICK c \in Clerk : c = h.op.client
    BY <1>5
  <2>2. clerk' = NextServer(c) /\ clerk[c].st = "wait"
    BY <1>7, <2>1 DEF HandlerWrongLeader, SMInv, CallsOK
  <2>3. PICK new \in ClerkState :
           /\ NextServer(c) = [clerk EXCEPT ![c] = new] /\ new.st = "send"
           /\ new.seq = clerk[c].seq /\ new.req = clerk[c].req /\ new.before = clerk[c].before
    BY NextServerMoves
  <2>4. /\ clerk' \in [Clerk -> ClerkState] /\ clerk'[c] = new
        /\ \A d \in Clerk : d # c => clerk'[d] = clerk[d]
        /\ \A d \in Clerk : clerk'[d].seq = clerk[d].seq
        /\ \A d \in Clerk : clerk'[d].st # "idle" => clerk'[d].req \in Request /\ Finite(clerk'[d].req)
        /\ \A op \in Op : Issued(op) => Issued(op)'
        /\ BeforeOK'
    BY <1>1, <2>2, <2>3, ClerkMoves
  <2>5. CallsOK'
    <3>1. \A g \in handlers' : g.live => g.op.client # c
      BY <1>2, <1>7, <2>1 DEF SMInv, CallsOK
    <3> QED  BY <1>2, <1>5, <2>4, <3>1 DEF SMInv, CallsOK
  <2>6. IssuedOK'
    <3>1. \A g \in handlers : Issued(g.op)' /\ Finite(g.op.req) /\ (g.live => g.op.seq = clerk'[g.op.client].seq)
      BY <1>5, <2>4 DEF SMInv, IssuedOK
    <3> QED  BY <1>1, <1>2, <2>4, <3>1, IssuedMoves
  <2> QED  BY <1>3, <1>4, <2>4, <2>5, <2>6 DEF SMInv
<1> QED  BY <1>6, <1>7

\* A handler goes round its loop.
LEMMA LoopOK ==
  ASSUME SMInv, NEW h \in handlers, HandlerLeads(h) \/ HandlerSleep(h)
  PROVE  SMInv'
<1>1. UNCHANGED <<raftVars, chosen, pending, elected, term, received, curCommitIndex, got, configs,
                  ClientMaxRequestSeq, resultMap, clerk, acked, answers>>
  BY DEF HandlerLeads, HandlerSleep, raftVars, applyVars, clientVars
<1>2. PICK st \in {"wait", "look"} : handlers' = (handlers \ {h}) \cup {[h EXCEPT !.st = st]}
  BY DEF HandlerLeads, HandlerSleep
<1>3. PICK turned : turned = [h EXCEPT !.st = st]
  OBVIOUS
<1>4. /\ turned \in Handler /\ turned.op = h.op /\ turned.live = h.live /\ turned.st # "start"
      /\ turned.srv = h.srv /\ turned.index = h.index /\ turned.term = h.term
  BY <1>2, <1>3 DEF SMInv, CallsOK, Handler
<1>5. \A k \in handlers' : k \in handlers \ {h} \/ k = turned
  BY <1>2, <1>3
<1>6. LogsOK' /\ AppliedOK' /\ TablesOK' /\ ConfigsOK' /\ ResultsOK' /\ AckedLead' /\ ReadsSeeWrites'
  BY <1>1, LogsKept, AppliedKept, TablesKept, ConfigsKept, ResultsKept, AckedKept, ReadsKept DEF SMInv
<1>7. CallsOK'
  <2>1. handlers' \subseteq Handler
    BY <1>4, <1>5 DEF SMInv, CallsOK
  <2>2. ASSUME NEW k \in handlers'
        PROVE  /\ k.live => clerk[k.op.client].st = "wait"
               /\ \A g \in handlers' : g.live /\ k.live /\ g.op.client = k.op.client => g = k
    BY <1>4, <1>5 DEF SMInv, CallsOK
  <2> QED  BY <1>1, <2>1, <2>2 DEF SMInv, CallsOK
<1>8. PlacesOK'
  <2>1. \A k : Placed(k)' = Placed(k)
    BY <1>1 DEF Placed, At
  <2>2. Placed(turned) = Placed(h)
    BY <1>4 DEF Placed
  <2> QED  BY <1>1, <1>4, <1>5, <2>1, <2>2 DEF SMInv, PlacesOK
<1>9. IssuedOK'
  <2>1. \A op : Issued(op)' = Issued(op)
    BY <1>1 DEF Issued
  <2>2. \A k \in handlers' :
          Issued(k.op) /\ Finite(k.op.req) /\ (k.live => k.op.seq = clerk[k.op.client].seq)
    BY <1>4, <1>5 DEF SMInv, IssuedOK
  <2> QED  BY <1>1, <2>1, <2>2 DEF SMInv, IssuedOK
<1> QED  BY <1>1, <1>6, <1>7, <1>8, <1>9, BeforeKept DEF SMInv

\* A write that returns from a server which has led since it called Start is agreed
\* on at its index, and no later request of its clerk precedes it.
LEMMA SureReturns ==
  ASSUME SMInv, NEW h \in handlers, Committed(h), h.live, h.op.req.type # "Query",
         h.term = term, h.srv = elected
  PROVE  \E j \in 1..Len(chosen) : CommID(chosen[j].op) = CommID(h.op) /\ Leading(j)
<1>1. h \in Handler /\ h.op \in Op /\ h.srv \in Server /\ h.op.client \in Clerk
  BY DEF SMInv, CallsOK, Handler, Op
<1>2. Placed(h)
  BY DEF SMInv, PlacesOK
<1>3. PICK j : j = h.index
  OBVIOUS
<1>4. Len(chosen) \in Nat /\ curCommitIndex[h.srv] \in Nat /\ curCommitIndex[h.srv] <= Len(chosen)
       /\ Len(pending[elected]) \in Nat
  BY <1>1 DEF SMInv, LogsOK, AppliedOK
<1>5. j \in 1..Len(chosen)
  BY <1>2, <1>3, <1>4 DEF Placed, Committed
<1>6. chosen[j].op = h.op
  BY <1>2, <1>3, <1>4, <1>5 DEF Placed, At
<1>7. h.op.seq = clerk[h.op.client].seq
  BY DEF SMInv, IssuedOK
<1>8. \A i \in 1..Len(chosen) : chosen[i].op.client = h.op.client => chosen[i].op.seq <= h.op.seq
  BY <1>7 DEF SMInv, IssuedOK, Issued
<1>9. \A i \in 1..(j - 1) : i \in 1..Len(chosen)
  BY <1>4, <1>5
<1>10. Leading(j)
  BY <1>6, <1>8, <1>9 DEF Leading, WriteOf
<1> QED  BY <1>5, <1>6, <1>10

\* An answer to a Query for the latest configuration has all that had returned when
\* the clerk began.
LEMMA AnswerSees ==
  ASSUME SMInv, NEW h \in handlers, h.live, h.op.req.type = "Query", h.op.req.num = -1,
         Result(h.srv, CommID(h.op)) # EmptyConfig
  PROVE  clerk[h.op.client].before \subseteq Result(h.srv, CommID(h.op)).made
<1>1. h \in Handler /\ h.op \in Op /\ h.srv \in Server /\ h.op.client \in Clerk
  BY DEF SMInv, CallsOK, Handler, Op
<1>2. PICK c \in Clerk : c = h.op.client
  BY <1>1
<1>3. PICK r : r = Result(h.srv, CommID(h.op))
  OBVIOUS
<1>4. CommID(h.op) \in DOMAIN resultMap[h.srv] /\ r = resultMap[h.srv][CommID(h.op)]
  BY <1>3 DEF Result
<1>5. Reflects(r, CommID(h.op))
  BY <1>1, <1>4 DEF SMInv, ResultsOK
<1>6. PICK k \in 1..Len(chosen) :
        /\ CommID(chosen[k].op) = CommID(h.op)
        /\ chosen[k].op.req.type = "Query" /\ chosen[k].op.req.num = -1 => Covers(r.made, k)
  BY <1>5 DEF Reflects
<1>7. chosen[k].op.client = c /\ chosen[k].op.seq = h.op.seq /\ h.op.seq = clerk[c].seq
  BY <1>2, <1>6 DEF CommID, SMInv, IssuedOK
<1>8. chosen[k].op.req = h.op.req
  BY <1>2, <1>7 DEF SMInv, IssuedOK, Issued
<1>9. Covers(r.made, k)
  BY <1>6, <1>8
<1>10. ASSUME NEW id \in clerk[c].before PROVE id \in r.made
  <2>1. PICK j \in 1..Len(chosen) :
          /\ CommID(chosen[j].op) = id /\ Leading(j)
          /\ \A i \in 1..Len(chosen) :
               chosen[i].op.client = c /\ chosen[i].op.seq = clerk[c].seq => j < i
    BY DEF SMInv, BeforeOK
  <2>2. j < k
    BY <1>7, <2>1
  <2>3. j \in 1..k
    BY <2>2
  <2> QED  BY <1>9, <2>1, <2>3 DEF Covers
<1> QED  BY <1>2, <1>3, <1>10

\* A handler that returns ends its clerk's request.
LEMMA HandlerReturnOK == ASSUME SMInv, NEW h \in handlers, HandlerReturn(h) PROVE SMInv'
<1>1. UNCHANGED <<raftVars, chosen, pending, elected, term, received, curCommitIndex, got, configs,
                  ClientMaxRequestSeq>>
  BY DEF HandlerReturn, raftVars, applyVars
<1>2. handlers' = handlers \ {h} /\ Committed(h)
  BY DEF HandlerReturn
<1>3. LogsOK' /\ AppliedOK' /\ TablesOK' /\ ConfigsOK'
  BY <1>1, LogsKept, AppliedKept, TablesKept, ConfigsKept DEF SMInv
<1>4. PlacesOK'
  BY <1>1, <1>2 DEF SMInv, PlacesOK, Placed, At
<1>5. \A g \in handlers : g \in Handler /\ g.op \in Op /\ g.op.client \in Clerk /\ g.srv \in Server
  BY DEF SMInv, CallsOK, Handler, Op
<1>6. ResultsOK'
  <2>1. ResultsOK /\ LogsOK
    BY DEF SMInv
  <2>2. LogGrows
    BY <1>1, <2>1 DEF LogGrows, LogsOK
  <2>3. CASE UNCHANGED resultMap
    BY <1>1, <2>1, <2>3, ResultsKept
  <2>4. CASE resultMap' = [resultMap EXCEPT ![h.srv] =
               [id \in DOMAIN resultMap[h.srv] \ {CommID(h.op)} |-> resultMap[h.srv][id]]]
    <3>1. DOMAIN resultMap' = Server
      BY <2>1, <2>4 DEF ResultsOK
    <3>2. \A s \in Server : \A id \in DOMAIN resultMap'[s] :
            id \in DOMAIN resultMap[s] /\ resultMap'[s][id] = resultMap[s][id]
      BY <2>1, <2>4 DEF ResultsOK
    <3>3. ASSUME NEW s \in Server, NEW id \in DOMAIN resultMap'[s] PROVE Reflects(resultMap[s][id], id)'
      <4>1. PICK a : a = resultMap[s][id]
        OBVIOUS
      <4>2. Reflects(a, id)
        BY <2>1, <3>2, <4>1 DEF ResultsOK
      <4>3. Reflects(a, id)'
        BY <1>3, <2>1, <2>2, <4>2, ReflectsKept
      <4>4. resultMap'[s][id] = a
        BY <3>2, <4>1
      <4> QED  BY <4>3, <4>4 DEF Reflects
    <3> QED  BY <3>1, <3>3 DEF ResultsOK
  <2> QED  BY <2>3, <2>4 DEF HandlerReturn
<1>7. CASE ~h.live
  <2>1. UNCHANGED <<clerk, acked, answers>>
    BY <1>7 DEF HandlerReturn
  <2>2. CallsOK' /\ IssuedOK'
    BY <1>1, <1>2, <2>1 DEF SMInv, CallsOK, IssuedOK, Issued
  <2> QED  BY <1>1, <1>3, <1>4, <1>6, <2>1, <2>2, AckedKept, BeforeKept, ReadsKept DEF SMInv
<1>8. CASE h.live
  <2>1. PICK c \in Clerk : c = h.op.client
    BY <1>5
  <2>2. PICK new : new = [st |-> "idle", seq |-> clerk[c].seq + 1, at |-> 0, req |-> None, before |-> {}]
    OBVIOUS
  <2>3. clerk \in [Clerk -> ClerkState] /\ clerk[c].seq \in Nat
    BY DEF SMInv, CallsOK, ClerkState
  <2>4. new \in ClerkState /\ new.st = "idle" /\ new.seq = clerk[c].seq + 1 /\ new.before = {}
    <3>1. 0 \in Server
      BY ShardAssumption DEF Server
    <3> QED  BY <2>2, <2>3, <3>1 DEF ClerkState
  <2>5. clerk' = [clerk EXCEPT ![c] = new]
    BY <1>8, <2>1, <2>2 DEF HandlerReturn
  <2>6. clerk' \in [Clerk -> ClerkState] /\ clerk'[c] = new /\ \A d \in Clerk : d # c => clerk'[d] = clerk[d]
    BY <2>3, <2>4, <2>5
  <2>7. \A g \in handlers' : g.live => g.op.client # c
    BY <1>2, <1>8, <2>1 DEF SMInv, CallsOK
  <2>8. CallsOK'
    BY <1>2, <1>5, <2>4, <2>6, <2>7 DEF SMInv, CallsOK
  <2>9. ASSUME NEW op \in Op, Issued(op) PROVE Issued(op)'
    <3>1. op.client \in Clerk /\ op.seq \in Nat
      BY DEF Op
    <3>2. CASE op.client = c
      <4>1. op.seq <= clerk[c].seq
        BY <2>9, <3>2 DEF Issued
      <4>2. op.seq < clerk'[c].seq
        BY <2>3, <2>4, <2>6, <3>1, <4>1
      <4>3. clerk'[c].seq \in Nat
        BY <2>3, <2>4, <2>6
      <4> QED  BY <3>1, <3>2, <4>2, <4>3 DEF Issued
    <3>3. CASE op.client # c
      BY <2>6, <2>9, <3>1, <3>3 DEF Issued
    <3> QED  BY <3>2, <3>3
  <2>10. IssuedOK'
    <3>1. \A g \in handlers' : Issued(g.op)' /\ Finite(g.op.req) /\ (g.live => g.op.seq = clerk'[g.op.client].seq)
      BY <1>2, <1>5, <2>6, <2>7, <2>9 DEF SMInv, IssuedOK
    <3> QED  BY <1>1, <2>9, <3>1, IssuedMoves
  <2>11. BeforeOK'
    <3>1. ASSUME NEW d \in Clerk, NEW id \in clerk'[d].before
          PROVE  \E j \in 1..Len(chosen) :
                   /\ CommID(chosen[j].op) = id /\ Leading(j)
                   /\ \A k \in 1..Len(chosen) :
                        chosen[k].op.client = d /\ chosen[k].op.seq = clerk'[d].seq => j < k
      <4>1. d # c
        BY <2>4, <2>6, <3>1
      <4> QED  BY <2>6, <3>1, <4>1 DEF SMInv, BeforeOK
    <3> QED  BY <1>1, <3>1 DEF BeforeOK, Leading, WriteOf
  <2>12. AckedLead'
    <3>1. AckedLead
      BY DEF SMInv
    <3>2. CASE UNCHANGED acked
      BY <1>1, <3>1, <3>2, AckedKept
    <3>3. CASE /\ h.op.req.type # "Query"
               /\ acked' = acked \cup {[srv |-> h.srv, id |-> CommID(h.op),
                                        sure |-> h.term = term /\ h.srv = elected]}
      <4>1. CommID(h.op) \in Clerk \X Nat
        BY <1>5 DEF CommID, Op
      <4>2. ASSUME h.term = term, h.srv = elected
            PROVE  \E j \in 1..Len(chosen) : CommID(chosen[j].op) = CommID(h.op) /\ Leading(j)
        BY <1>2, <1>8, <3>3, <4>2, SureReturns
      <4>3. PICK sure : sure = (h.term = term /\ h.srv = elected)
        OBVIOUS
      <4>4. PICK id : id = CommID(h.op)
        OBVIOUS
      <4>5. PICK b : b = [srv |-> h.srv, id |-> id, sure |-> sure]
        OBVIOUS
      <4>6. b.id = id /\ b.sure = sure /\ acked' = acked \cup {b}
        BY <3>3, <4>3, <4>4, <4>5
      <4>7. ASSUME NEW a \in acked'
            PROVE  /\ a.id \in Clerk \X Nat
                   /\ a.sure => \E j \in 1..Len(chosen) : CommID(chosen[j].op) = a.id /\ Leading(j)
        <5>1. CASE a \in acked
          BY <3>1, <5>1 DEF AckedLead
        <5>2. CASE a = b
          BY <4>1, <4>2, <4>3, <4>4, <4>6, <5>2
        <5> QED  BY <4>6, <5>1, <5>2
      <4> QED  BY <1>1, <4>7 DEF AckedLead, Leading, WriteOf
    <3> QED  BY <1>8, <3>2, <3>3 DEF HandlerReturn
  <2>13. ReadsSeeWrites'
    <3>1. ReadsSeeWrites
      BY DEF SMInv
    <3>2. CASE UNCHANGED answers
      BY <3>1, <3>2, ReadsKept
    <3>3. CASE /\ h.op.req.type = "Query"
               /\ answers' = answers \cup {[num |-> h.op.req.num, before |-> clerk[c].before,
                                            config |-> Result(h.srv, CommID(h.op))]}
      <4>1. h.op.req.num = -1 /\ Result(h.srv, CommID(h.op)) # EmptyConfig =>
              clerk[c].before \subseteq Result(h.srv, CommID(h.op)).made
        BY <1>8, <2>1, <3>3, AnswerSees
      <4> QED  BY <3>1, <3>3, <4>1 DEF ReadsSeeWrites
    <3> QED  BY <1>8, <2>1, <3>2, <3>3 DEF HandlerReturn
  <2> QED  BY <1>3, <1>4, <1>6, <2>8, <2>10, <2>11, <2>12, <2>13 DEF SMInv
<1> QED  BY <1>7, <1>8

-----------------------------------------------------------------------------
(* The theorems.                                                           *)

\* Every step keeps the invariant.
LEMMA SMNext == SMInv /\ [Next]_vars => SMInv'
<1> SUFFICES ASSUME SMInv, [Next]_vars PROVE SMInv'
  OBVIOUS
<1>1. CASE UNCHANGED vars
  <2>1. UNCHANGED <<raftVars, chosen, pending, elected, term, received, curCommitIndex, got, configs,
                    ClientMaxRequestSeq, resultMap, handlers, clerk, acked, answers>>
    BY <1>1 DEF vars, raftVars, applyVars, clientVars
  <2> QED  BY <2>1, LogsKept, AppliedKept, CallsKept, PlacesKept, IssuedKept, TablesKept, ConfigsKept,
              ResultsKept, AckedKept, BeforeKept, ReadsKept DEF SMInv
<1>2. CASE \E s \in Server : Elect(s) \/ StepDown(s) \/ Receive(s) \/ Apply(s) \/ Crash(s)
  BY <1>2, ElectOK, StepDownOK, ReceiveOK, ApplyOK, CrashOK
<1>3. CASE Commit
  BY <1>3, CommitOK
<1>4. CASE \E c \in Clerk : ClerkBegin(c) \/ Call(c) \/ CallFails(c)
  BY <1>4, ClerkBeginOK, CallOK, CallFailsOK
<1>5. CASE \E h \in handlers : \/ HandlerStart(h) \/ HandlerWrongLeader(h) \/ HandlerLeads(h)
                                \/ HandlerSleep(h) \/ HandlerReturn(h)
  BY <1>5, HandlerStartOK, HandlerWrongLeaderOK, LoopOK, HandlerReturnOK
<1> QED  BY <1>1, <1>2, <1>3, <1>4, <1>5 DEF Next

\* The invariant holds in every reachable state of the shard master.
LEMMA SMInvariant == Spec => []SMInv
<1>1. Init => SMInv
  BY SMInit
<1>2. SMInv /\ [Next]_vars => SMInv'
  BY SMNext
<1> QED  BY <1>1, <1>2, PTL DEF Spec

\* The indices of a server's configurations.
LEMMA ConfigIndices ==
  ASSUME SMInv, NEW s \in Server, NEW k \in DOMAIN configs[s]
  PROVE  ConfigOK(configs[s][k])
<1>1. configs[s] \in Seq(Config) /\ \A i \in 1..Len(configs[s]) : ConfigOK(configs[s][i])
  BY DEF SMInv, ConfigsOK
<1>2. DOMAIN configs[s] = 1..Len(configs[s])
  BY <1>1
<1> QED  BY <1>1, <1>2

\* Every field of the shard master, its handlers and its clerks always has the type
\* its declaration gives it, and a clerk's list of servers has the server it turns to.
THEOREM TypeCorrect == Spec => []TypeOK
<1>1. SMInv => TypeOK
  <2> SUFFICES ASSUME SMInv PROVE TypeOK
    OBVIOUS
  <2>1. leads \subseteq Server /\ elected \in Server /\ term \in Nat
    BY DEF SMInv, LogsOK
  <2>2. /\ received \in [Server -> Nat] /\ curCommitIndex \in [Server -> Nat]
        /\ \A s \in Server : received[s] <= Len(chosen)
    BY DEF SMInv, AppliedOK
  <2>3. \A s \in Server : \A k \in DOMAIN configs[s] : configs[s][k] \in Config
    BY ConfigIndices DEF ConfigOK
  <2>4. \A s \in Server : \A id \in DOMAIN resultMap[s] : resultMap[s][id] \in Config
    BY DEF SMInv, ResultsOK, Reflects
  <2>5. ClientMaxRequestSeq \in [Server -> [Clerk -> Int]]
    BY DEF SMInv, TablesOK
  <2>6. \A c \in Clerk : clerk[c].at \in Server /\ clerk[c].seq \in Nat
    BY DEF SMInv, CallsOK, ClerkState
  <2>7. \A h \in handlers : h.srv \in Server /\ h.index \in Int /\ h.live \in BOOLEAN
    BY DEF SMInv, CallsOK, Handler
  <2> QED  BY <2>1, <2>2, <2>3, <2>4, <2>5, <2>6, <2>7 DEF TypeOK
<1> QED  BY <1>1, SMInvariant, PTL

\* However often a clerk repeats a Join, Leave or Move and wherever the copies are
\* agreed on, mainProcess makes one configuration of it.
THEOREM EachAppliedOnce == Spec => []AppliedOnce
<1>1. SMInv => AppliedOnce
  BY ConfigIndices DEF ConfigOK, AppliedOnce
<1> QED  BY <1>1, SMInvariant, PTL

\* A call that returns from a server that has led since it called Start is agreed on:
\* the wait for curCommitIndex is enough.
THEOREM AckedAreCommitted == Spec => []AckedCommitted
<1>1. SMInv => AckedCommitted
  <2> SUFFICES ASSUME SMInv, NEW a \in acked, a.sure
               PROVE  \E k \in DOMAIN chosen : CommID(chosen[k].op) = a.id
    BY DEF AckedCommitted
  <2>1. \E j \in 1..Len(chosen) : CommID(chosen[j].op) = a.id
    BY DEF SMInv, AckedLead
  <2>2. DOMAIN chosen = 1..Len(chosen)
    BY DEF SMInv, LogsOK
  <2> QED  BY <2>1, <2>2
<1> QED  BY <1>1, SMInvariant, PTL

\* A Query for the latest configuration sees every such call that returned before it
\* began, whichever server answers it.
THEOREM QueriesSeeWrites == Spec => []ReadsSeeWrites
<1>1. SMInv => ReadsSeeWrites
  BY DEF SMInv
<1> QED  BY <1>1, SMInvariant, PTL

\* However the groups join and leave, and for any number of shards, rebalance gives
\* every group its share.
THEOREM SharesServed == Spec => []ShareServed
<1>1. SMInv => ShareServed
  BY ConfigIndices DEF ConfigOK, Shared, ShareServed
<1> QED  BY <1>1, SMInvariant, PTL
=============================================================================
