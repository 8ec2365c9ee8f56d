--------------------------- MODULE MapReduceProofs ---------------------------
(***************************************************************************)
(* The distributed MapReduce job, for any number of workers and tasks: the *)
(* types.                                                                  *)
(***************************************************************************)
EXTENDS MapReduce, NatSetLemmas, SequenceTheorems

TaskNumber == 0..(NTasks - 1)

\* What TypeOK leaves open.
DetailOK ==
  /\ workerState \in [DOMAIN workerState -> BOOLEAN]
  /\ IsFiniteSet(DOMAIN workerState) /\ IsFiniteSet(told)
  /\ taskList \in Seq(TaskNumber)
  /\ failedChan \in Seq([cur : Worker \cup {None}, num : TaskNumber])
  /\ DOMAIN output = ReduceTask
  /\ pc \in {"wait", "listen"} => i < Len(taskList)
  /\ pc \in {"register", "loop", "wait", "listen"} => phase \in {"map", "reduce"}

\* The goroutines: their tasks are tasks of their phase, and those that have not
\* dialled are about the task schedule is at.
CallsOK ==
  \A g \in calls :
    /\ g.task = g.num /\ (g.phase = phase => g.num \in TaskNumber)
    /\ IF g.phase = "map" THEN g.task \in MapTask ELSE g.task \in ReduceTask
    /\ g.st \in {"new", "begun"} =>
         /\ pc \in {"wait", "listen", "panic"} /\ g.phase = phase
         /\ i < Len(taskList) /\ g.task = taskList[i + 1]
    /\ g.st \in {"accepted", "running", "ended"} => g.at \in Worker
    /\ g.st \in {"new", "begun", "refused"} => g.at = None

\* A worker that is alive has at most one DoTask under way, and has counted it.
CountsOK ==
  \A w \in Worker \ crashed :
    /\ concurrent[w] = IF \E g \in calls : g.st = "running" /\ g.at = w THEN 1 ELSE 0
    /\ \A g, h \in calls : g.st = "running" /\ h.st = "running" /\ g.at = w /\ h.at = w => g = h

TypeInv == TypeOK /\ DetailOK /\ CallsOK /\ CountsOK

-----------------------------------------------------------------------------
(* Types: the steps of the master.                                         *)

\* The counts of DoTask calls do not depend on the master.
LEMMA SameCounts ==
  ASSUME CountsOK, crashed' = crashed, concurrent' = concurrent, calls' = calls
  PROVE  CountsOK'
BY DEF CountsOK

\* While schedule stays at the same task, the goroutines stay what they are.
LEMMA SameCalls ==
  ASSUME CallsOK, calls' = calls, phase' = phase, taskList' = taskList, i' = i,
         pc' = pc \/ pc' = "panic"
  PROVE  CallsOK'
BY DEF CallsOK, TaskNumber, NTasks

LEMMA TypeInit ==
  ASSUME Init
  PROVE  TypeInv
<1>1. NTasks \in Nat \ {0}
  BY JobAssumption DEF Init, NTasks
<1>2. nRPC \in [Worker -> Int]
  BY JobAssumption DEF Init
<1>3. TypeOK
  BY <1>2 DEF Init, TypeOK, NoWorkers, CallRecord
<1>4. DetailOK
  <2>1. IsFiniteSet({})
    BY FS_EmptySet
  <2> QED  BY <2>1 DEF Init, DetailOK, NoWorkers
<1>5. CallsOK /\ CountsOK
  BY DEF Init, CallsOK, CountsOK
<1> QED  BY <1>3, <1>4, <1>5 DEF TypeInv

LEMMA TypeRegister ==
  ASSUME TypeInv, NEW w \in Worker, Register(w)
  PROVE  TypeInv'
<1>1. TypeOK'
  BY DEF TypeInv, TypeOK, Register, workerVars, scheduleVars, batchVars, fileVars, NTasks
<1>2. DetailOK'
  BY DEF TypeInv, DetailOK, Register, scheduleVars, batchVars, fileVars, TaskNumber, NTasks
<1>3. CallsOK' /\ CountsOK'
  BY SameCalls, SameCounts DEF TypeInv, Register, workerVars, scheduleVars, batchVars
<1> QED  BY <1>1, <1>2, <1>3 DEF TypeInv

LEMMA TypeReceive ==
  ASSUME TypeInv, NEW w \in Worker, Receive(w)
  PROVE  TypeInv'
<1>1. TypeOK'
  BY DEF TypeInv, TypeOK, Receive, workerVars, masterVars, fileVars, NTasks
<1>2. DetailOK'
  <2>1. DOMAIN workerState' = DOMAIN workerState \cup {w} /\ told' = told \cup {w}
    BY DEF Receive
  <2>2. IsFiniteSet(DOMAIN workerState') /\ IsFiniteSet(told')
    BY <2>1, FS_AddElement DEF TypeInv, DetailOK
  <2> QED  BY <2>2 DEF TypeInv, DetailOK, Receive, masterVars, fileVars, TaskNumber, NTasks
<1>3. CallsOK' /\ CountsOK'
  BY SameCalls, SameCounts DEF TypeInv, Receive, workerVars, masterVars
<1> QED  BY <1>1, <1>2, <1>3 DEF TypeInv

LEMMA TypeRegisterTimeout ==
  ASSUME TypeInv, RegisterTimeout
  PROVE  TypeInv'
<1>0. Cardinality(told) \in Nat
  BY FS_CardinalityType DEF TypeInv, DetailOK
<1>1. NTasks \in Nat \ {0} /\ NTasks' = NTasks /\ TaskNumber' = TaskNumber
  BY JobAssumption DEF RegisterTimeout, masterVars, NTasks, TaskNumber
<1>2. /\ taskList' \in Seq(TaskNumber) /\ Len(taskList') = NTasks
      /\ \A k \in DOMAIN taskList' : taskList'[k] \in 0..(NTasks - 1)
  BY <1>1 DEF RegisterTimeout, TaskNumber
<1>3. TypeOK'
  BY <1>0, <1>1, <1>2 DEF TypeInv, TypeOK, RegisterTimeout, workerVars, masterVars, fileVars
<1>4. DetailOK'
  BY <1>1, <1>2 DEF TypeInv, DetailOK, RegisterTimeout, masterVars, fileVars
<1>5. CountsOK'
  BY SameCounts DEF TypeInv, RegisterTimeout, workerVars
<1>6. CallsOK'
  BY <1>1 DEF TypeInv, CallsOK, RegisterTimeout, masterVars
<1> QED  BY <1>3, <1>4, <1>5, <1>6 DEF TypeInv

LEMMA TypeLaunch ==
  ASSUME TypeInv, Launch
  PROVE  TypeInv'
<1>1. /\ NTasks' = NTasks /\ TaskNumber' = TaskNumber /\ pc = "loop" /\ i < Len(taskList)
      /\ taskList' = taskList /\ i' = i /\ phase' = phase
      /\ crashed' = crashed /\ concurrent' = concurrent /\ told' = told
  BY DEF Launch, masterVars, workerVars, NTasks, TaskNumber
<1>2. PICK task : task = taskList[i + 1]
  OBVIOUS
<1>3. i \in Nat /\ i + 1 \in 1..Len(taskList) /\ task \in TaskNumber
  BY <1>1, <1>2 DEF TypeInv, TypeOK, DetailOK
<1>4. CASE task >= NMap
  <2>1. /\ pc' = "panic" /\ workerState' = workerState /\ workerAddr' = workerAddr
        /\ runningTask' = runningTask /\ calls' = calls
    BY <1>2, <1>4 DEF Launch
  <2>2. TypeOK' /\ DetailOK'
    BY <1>1, <2>1 DEF TypeInv, TypeOK, DetailOK, Launch, workerVars, masterVars, fileVars
  <2>3. CallsOK' /\ CountsOK'
    BY <1>1, <2>1, SameCalls, SameCounts DEF TypeInv
  <2> QED  BY <2>2, <2>3 DEF TypeInv
<1>5. CASE task < NMap
  <2>1. ~(task >= NMap)
    BY <1>3, <1>5, JobAssumption DEF TaskNumber
  <2>2. PICK w \in IF FreeWorker = {} THEN {workerAddr} ELSE FreeWorker :
          /\ workerAddr' = w
          /\ workerState' = [v \in DOMAIN workerState \cup {w} |-> v = w \/ workerState[v]]
          /\ runningTask' = runningTask + 1
          /\ calls' = calls \cup {[phase |-> phase, task |-> task, st |-> "new", num |-> task,
                                   cur |-> None, at |-> None]}
          /\ pc' \in {"wait", "listen"}
    BY <1>2, <2>1 DEF Launch
  <2>3. w \in Worker \cup {None}
    BY <2>2 DEF FreeWorker, TypeInv, TypeOK
  <2>4. PICK g : g = [phase |-> phase, task |-> task, st |-> "new", num |-> task, cur |-> None, at |-> None]
    OBVIOUS
  <2>5. phase \in {"map", "reduce"}
    BY <1>1 DEF TypeInv, DetailOK
  <2>6. /\ g \in CallRecord /\ g.phase = phase /\ g.task = task /\ g.num = task /\ g.st = "new"
        /\ g.at = None
    BY <1>3, <2>4, <2>5 DEF CallRecord, TaskNumber
  <2>7. TypeOK'
    <3>1. calls' \subseteq CallRecord
      BY <2>2, <2>4, <2>6 DEF TypeInv, TypeOK
    <3>2. DOMAIN workerState' \subseteq Worker \cup {None} /\ workerAddr' \in Worker \cup {None}
      BY <2>2, <2>3 DEF TypeInv, TypeOK
    <3>3. runningTask' \in Nat
      BY <2>2 DEF TypeInv, TypeOK
    <3> QED  BY <1>1, <2>2, <3>1, <3>2, <3>3 DEF TypeInv, TypeOK, Launch, workerVars, masterVars, fileVars
  <2>8. DetailOK'
    <3>1. DOMAIN workerState' = DOMAIN workerState \cup {w}
      BY <2>2
    <3>2. IsFiniteSet(DOMAIN workerState')
      BY <3>1, FS_AddElement DEF TypeInv, DetailOK
    <3> QED  BY <1>1, <2>2, <2>5, <3>2 DEF TypeInv, DetailOK, Launch, masterVars, fileVars
  <2>9. IF g.phase = "map" THEN g.task \in MapTask ELSE g.task \in ReduceTask
    BY <1>3, <1>5, <2>5, <2>6 DEF TaskNumber, NTasks, MapTask, ReduceTask
  <2>10. CallsOK'
    <3>1. \A h \in calls : h.st \notin {"new", "begun"}
      BY <1>1 DEF TypeInv, CallsOK
    <3>2. calls' = calls \cup {g}
      BY <2>2, <2>4
    <3> QED  BY <1>1, <1>2, <1>3, <2>2, <2>6, <2>9, <3>1, <3>2 DEF TypeInv, CallsOK
  <2>11. CountsOK'
    <3>1. calls' = calls \cup {g}
      BY <2>2, <2>4
    <3> QED  BY <1>1, <2>6, <3>1 DEF TypeInv, CountsOK
  <2> QED  BY <2>7, <2>8, <2>10, <2>11 DEF TypeInv
<1>6. task >= NMap \/ task < NMap
  BY <1>3, JobAssumption DEF TaskNumber
<1> QED  BY <1>4, <1>5, <1>6

\* The tasks of the failures are appended to the list.
LEMMA AgainIs ==
  ASSUME DetailOK
  PROVE  /\ Again(failedChan) \in Seq(TaskNumber) /\ Len(Again(failedChan)) = Len(failedChan)
         /\ Len(taskList) \in Nat /\ Len(failedChan) \in Nat
         /\ taskList \o Again(failedChan) \in Seq(TaskNumber)
         /\ Len(taskList \o Again(failedChan)) = Len(taskList) + Len(failedChan)
         /\ \A k \in 1..Len(taskList) : (taskList \o Again(failedChan))[k] = taskList[k]
         /\ \A k \in 1..Len(failedChan) :
              (taskList \o Again(failedChan))[Len(taskList) + k] = failedChan[k].num
<1>1. taskList \in Seq(TaskNumber) /\ failedChan \in Seq([cur : Worker \cup {None}, num : TaskNumber])
  BY DEF DetailOK
<1>2. PICK n \in Nat : n = Len(failedChan)
  BY <1>1
<1>3. \A k \in 1..n : failedChan[k] \in [cur : Worker \cup {None}, num : TaskNumber]
  BY <1>1, <1>2, ElementOfSeq
<1>4. \A k \in 1..n : failedChan[k].num \in TaskNumber
  BY <1>3
<1>5. PICK a : a = Again(failedChan)
  OBVIOUS
<1>6. a = [k \in 1..n |-> failedChan[k].num]
  BY <1>2, <1>5 DEF Again
<1>7. a \in [1..n -> TaskNumber]
  BY <1>4, <1>6
<1>8. a \in Seq(TaskNumber) /\ Len(a) = n
  BY <1>7
<1>9. PICK t \in Seq(TaskNumber) : t = taskList
  BY <1>1
<1>10. /\ t \o a \in Seq(TaskNumber) /\ Len(t \o a) = Len(t) + n
       /\ \A k \in 1..Len(t) : (t \o a)[k] = t[k]
       /\ \A k \in 1..n : (t \o a)[Len(t) + k] = a[k]
  BY <1>8, <1>9
<1> QED  BY <1>2, <1>5, <1>6, <1>8, <1>9, <1>10

LEMMA TypeBatchDone ==
  ASSUME TypeInv, BatchDone
  PROVE  TypeInv'
<1> DEFINE gone == {f.cur : f \in Range(failedChan)}
           left == [w \in DOMAIN workerState \ gone |-> FALSE]
<1>1. /\ NTasks' = NTasks /\ TaskNumber' = TaskNumber /\ pc = "wait" /\ pc' = "listen"
      /\ i' = i /\ phase' = phase /\ calls' = calls /\ runningTask' = 0 /\ failedChan' = << >>
      /\ crashed' = crashed /\ concurrent' = concurrent /\ told' = told
      /\ workerState' = left /\ wg' = Count(left)
      /\ taskList' = taskList \o Again(failedChan)
  BY DEF BatchDone, masterVars, workerVars, NTasks, TaskNumber
<1>2. IsFiniteSet(DOMAIN left) /\ DOMAIN left \subseteq DOMAIN workerState
  <2>1. DOMAIN left = DOMAIN workerState \ gone
    OBVIOUS
  <2>2. IsFiniteSet(DOMAIN workerState)
    BY DEF TypeInv, DetailOK
  <2> HIDE DEF left, gone
  <2>3. DOMAIN left \in SUBSET DOMAIN workerState
    BY <2>1
  <2>4. IsFiniteSet(DOMAIN left)
    BY <2>2, <2>3, FS_Subset
  <2> QED  BY <2>3, <2>4
<1>3. wg' \in Nat
  BY <1>1, <1>2, FS_CardinalityType DEF Count
<1>4. left \in [DOMAIN left -> BOOLEAN]
  OBVIOUS
<1> HIDE DEF left
<1>5. /\ taskList' \in Seq(TaskNumber) /\ Len(taskList') \in Nat /\ Len(taskList) <= Len(taskList')
      /\ \A k \in 1..Len(taskList) : taskList'[k] = taskList[k]
  BY <1>1, AgainIs DEF TypeInv
<1>6. i \in Nat /\ i < Len(taskList) /\ Len(taskList) \in Nat
  BY <1>1 DEF TypeInv, TypeOK, DetailOK
<1>7. \A k \in DOMAIN taskList' : taskList'[k] \in 0..(NTasks - 1)
  <2>1. PICK t \in Seq(TaskNumber) : t = taskList'
    BY <1>5
  <2>2. \A k \in DOMAIN t : t[k] \in TaskNumber
    OBVIOUS
  <2> QED  BY <2>1, <2>2 DEF TaskNumber
<1>8. TypeOK'
  BY <1>1, <1>2, <1>3, <1>5, <1>6, <1>7 DEF TypeInv, TypeOK, BatchDone, workerVars, masterVars, fileVars
<1>9. DetailOK'
  BY <1>1, <1>2, <1>4, <1>5, <1>6 DEF TypeInv, DetailOK, BatchDone, fileVars
<1>10. CountsOK'
  BY <1>1, SameCounts DEF TypeInv
<1>11. CallsOK'
  <2>1. taskList'[i + 1] = taskList[i + 1]
    BY <1>5, <1>6
  <2> QED  BY <1>1, <1>5, <1>6, <2>1 DEF TypeInv, CallsOK
<1> QED  BY <1>8, <1>9, <1>10, <1>11 DEF TypeInv

LEMMA TypeListenTimeout ==
  ASSUME TypeInv, ListenTimeout
  PROVE  TypeInv'
<1>1. NTasks' = NTasks /\ TaskNumber' = TaskNumber
  BY DEF ListenTimeout, masterVars, NTasks, TaskNumber
<1>2. i \in Nat /\ i < Len(taskList) /\ Len(taskList) \in Nat /\ i' \in 0..Len(taskList)
  BY DEF TypeInv, TypeOK, DetailOK, ListenTimeout
<1>3. TypeOK'
  BY <1>1, <1>2 DEF TypeInv, TypeOK, ListenTimeout, workerVars, masterVars, fileVars
<1>4. DetailOK'
  BY <1>1 DEF TypeInv, DetailOK, ListenTimeout, masterVars, fileVars
<1>5. CountsOK'
  BY SameCounts DEF TypeInv, ListenTimeout, workerVars
<1>6. CallsOK'
  BY <1>1 DEF TypeInv, CallsOK, ListenTimeout, masterVars
<1> QED  BY <1>3, <1>4, <1>5, <1>6 DEF TypeInv

LEMMA TypeReturn ==
  ASSUME TypeInv, Return
  PROVE  TypeInv'
<1>1. phase \in {"map", "reduce"} /\ phase' \in {"reduce", "finish"} /\ pc = "loop"
      /\ pc' \in {"register", "returned"} /\ (pc' = "register" => phase' = "reduce") /\ phase' # phase
  BY DEF Return, TypeInv, DetailOK
<1>2. /\ taskList' = << >> /\ failedChan' = << >> /\ i' = 0 /\ wg' = 0 /\ runningTask' = 0
      /\ workerState' = NoWorkers /\ told' = {} /\ workerAddr' = None /\ calls' = calls
  BY DEF Return
<1>3. NTasks' \in Nat
  BY JobAssumption DEF NTasks
<1>4. TypeOK'
  BY <1>1, <1>2, <1>3 DEF TypeInv, TypeOK, Return, NoWorkers, workerVars, fileVars
<1>5. DetailOK'
  <2>1. IsFiniteSet({})
    BY FS_EmptySet
  <2> QED  BY <1>1, <1>2, <2>1 DEF TypeInv, DetailOK, Return, NoWorkers, fileVars
<1>6. CountsOK'
  BY SameCounts DEF TypeInv, Return, workerVars
<1>7. CallsOK'
  <2>1. ASSUME NEW g \in calls, g.phase = phase' PROVE g.num \in TaskNumber'
    <3>1. phase' = "reduce" /\ g.task = g.num /\ g.task \in ReduceTask
      BY <1>1, <2>1 DEF TypeInv, TypeOK, CallRecord, CallsOK
    <3> QED  BY <3>1 DEF TaskNumber, NTasks, ReduceTask
  <2> QED  BY <1>1, <1>2, <2>1 DEF TypeInv, CallsOK
<1> QED  BY <1>4, <1>5, <1>6, <1>7 DEF TypeInv

LEMMA TypeKill ==
  ASSUME TypeInv, NEW w \in Worker, KillWorker(w)
  PROVE  TypeInv'
<1>1. /\ phase' = phase /\ NTasks' = NTasks /\ TaskNumber' = TaskNumber /\ told' = told \cup {w} /\ w \in workers
      /\ calls' = calls /\ taskList' = taskList /\ i' = i /\ pc' = pc
      /\ crashed' = crashed /\ concurrent' = concurrent /\ nTasks' = nTasks
  BY DEF KillWorker, batchVars, NTasks, TaskNumber
<1>2. nRPC' \in [Worker -> Int] /\ stats' \subseteq [worker : Worker, tasks : Nat]
  <2>1. CASE ~Listening(w)
    BY <2>1 DEF KillWorker, TypeInv, TypeOK
  <2>2. CASE Listening(w)
    <3>1. stats' = stats \cup {[worker |-> w, tasks |-> nTasks[w]]}
      BY <2>2 DEF KillWorker
    <3>2. PICK n \in {0, 1} : nRPC' = [nRPC EXCEPT ![w] = n]
      BY <2>2 DEF KillWorker
    <3>3. nTasks[w] \in Nat
      BY DEF TypeInv, TypeOK
    <3>4. stats' \subseteq [worker : Worker, tasks : Nat]
      BY <3>1, <3>3 DEF TypeInv, TypeOK
    <3>5. nRPC' \in [Worker -> Int]
      BY <3>2 DEF TypeInv, TypeOK
    <3> QED  BY <3>4, <3>5
  <2> QED  BY <2>1, <2>2
<1>3. TypeOK'
  BY <1>1, <1>2 DEF TypeInv, TypeOK, KillWorker, batchVars, fileVars
<1>4. DetailOK'
  <2>1. IsFiniteSet(told')
    BY <1>1, FS_AddElement DEF TypeInv, DetailOK
  <2> QED  BY <1>1, <2>1 DEF TypeInv, DetailOK, KillWorker, batchVars, fileVars
<1>5. CallsOK' /\ CountsOK'
  BY <1>1, SameCalls, SameCounts DEF TypeInv
<1> QED  BY <1>3, <1>4, <1>5 DEF TypeInv

LEMMA TypeMerge ==
  ASSUME TypeInv, Merge
  PROVE  TypeInv'
<1>1. /\ phase = "finish" /\ phase' \in {"finish", "done"} /\ (pc' = pc \/ pc' = "panic")
      /\ NTasks' = NTasks /\ TaskNumber' = TaskNumber
  BY DEF Merge, NTasks, TaskNumber
<1>2. pc \in {"returned", "panic"} /\ pc' \in {"returned", "panic"}
  BY <1>1 DEF Merge, TypeInv, TypeOK, DetailOK
<1>3. phase' \in {"finish", "done"}
  BY <1>1 DEF Merge
<1>4. TypeOK'
  BY <1>1, <1>2, <1>3 DEF TypeInv, TypeOK, Merge, workerVars, batchVars, fileVars
<1>5. DetailOK'
  BY <1>1, <1>2 DEF TypeInv, DetailOK, Merge, batchVars, fileVars
<1>6. CountsOK'
  BY SameCounts DEF TypeInv, Merge, workerVars
<1>7. CallsOK'
  <2>1. \A g \in calls : g.phase \in {"map", "reduce"} /\ g.phase # phase /\ g.phase # phase'
    <3>1. \A g \in calls : g \in CallRecord
      BY DEF TypeInv, TypeOK
    <3>2. \A g \in CallRecord : g.phase \in {"map", "reduce"}
      BY DEF CallRecord
    <3> QED  BY <1>1, <1>3, <3>1, <3>2
  <2> QED  BY <1>1, <1>2, <2>1 DEF TypeInv, CallsOK, Merge
<1> QED  BY <1>4, <1>5, <1>6, <1>7 DEF TypeInv

-----------------------------------------------------------------------------
(* Types: the steps of a goroutine and of the worker it calls.             *)

\* A goroutine that moves on keeps its phase and its task.
LEMMA TypeGoBegin ==
  ASSUME TypeInv, NEW g, g \in calls, GoBegin(g)
  PROVE  TypeInv'
<1>1. PICK h : h = [g EXCEPT !.st = "begun", !.num = taskList[i + 1], !.cur = workerAddr]
  OBVIOUS
<1>2. g.st = "new" /\ calls' = (calls \ {g}) \cup {h}
  BY <1>1 DEF GoBegin, Becomes
<1>3. /\ NTasks' = NTasks /\ TaskNumber' = TaskNumber /\ pc' = pc /\ phase' = phase
      /\ taskList' = taskList /\ i' = i /\ crashed' = crashed /\ concurrent' = concurrent
  BY DEF GoBegin, masterVars, workerVars, scheduleVars, batchVars, NTasks, TaskNumber
<1>4. g \in CallRecord /\ g.task = g.num /\ g.task = taskList[i + 1] /\ g.at = None
  BY <1>2 DEF TypeInv, TypeOK, CallsOK
<1>5. /\ h \in CallRecord /\ h.phase = g.phase /\ h.task = g.task /\ h.num = g.num /\ h.st = "begun"
      /\ h.at = None
  BY <1>1, <1>4 DEF CallRecord, TypeInv, TypeOK
<1>6. TypeOK'
  BY <1>2, <1>3, <1>5 DEF TypeInv, TypeOK, GoBegin, masterVars, workerVars, scheduleVars, batchVars, fileVars
<1>7. DetailOK'
  BY <1>3 DEF TypeInv, DetailOK, GoBegin, masterVars, scheduleVars, batchVars, fileVars
<1>8. CallsOK'
  BY <1>2, <1>3, <1>5 DEF TypeInv, CallsOK
<1>9. CountsOK'
  BY <1>2, <1>3, <1>5 DEF TypeInv, CountsOK
<1> QED  BY <1>6, <1>7, <1>8, <1>9 DEF TypeInv

LEMMA TypeGoCall ==
  ASSUME TypeInv, NEW g, g \in calls, GoCall(g)
  PROVE  TypeInv'
<1>1. PICK h : /\ calls' = (calls \ {g}) \cup {h}
               /\ \/ h = [g EXCEPT !.st = "accepted", !.at = workerAddr] /\ workerAddr \in Worker
                  \/ h = [g EXCEPT !.st = "refused"]
  BY DEF GoCall, Becomes, Listening
<1>2. nRPC' \in [Worker -> Int]
  <2>1. CASE ~Listening(workerAddr)
    BY <2>1 DEF GoCall, TypeInv, TypeOK
  <2>2. CASE Listening(workerAddr)
    <3>1. workerAddr \in Worker /\ nRPC' = [nRPC EXCEPT ![workerAddr] = @ - 1]
      BY <2>2 DEF GoCall, Listening
    <3> QED  BY <3>1 DEF TypeInv, TypeOK
  <2> QED  BY <2>1, <2>2
<1>3. /\ NTasks' = NTasks /\ TaskNumber' = TaskNumber /\ pc' = pc /\ phase' = phase
      /\ taskList' = taskList /\ i' = i /\ crashed' = crashed /\ concurrent' = concurrent /\ g.st = "begun"
  BY DEF GoCall, masterVars, scheduleVars, batchVars, NTasks, TaskNumber
<1>4. g \in CallRecord /\ g.at = None
  BY <1>3 DEF TypeInv, TypeOK, CallsOK
<1>5. /\ h \in CallRecord /\ h.phase = g.phase /\ h.task = g.task /\ h.num = g.num
      /\ (h.st = "accepted" /\ h.at \in Worker) \/ (h.st = "refused" /\ h.at = None)
  BY <1>1, <1>4 DEF CallRecord
<1>6. TypeOK'
  BY <1>1, <1>2, <1>3, <1>5 DEF TypeInv, TypeOK, GoCall, masterVars, scheduleVars, batchVars, fileVars
<1>7. DetailOK'
  BY <1>3 DEF TypeInv, DetailOK, GoCall, masterVars, scheduleVars, batchVars, fileVars
<1>8. CallsOK'
  BY <1>1, <1>3, <1>5 DEF TypeInv, CallsOK
<1>9. CountsOK'
  BY <1>1, <1>3, <1>5 DEF TypeInv, CountsOK
<1> QED  BY <1>6, <1>7, <1>8, <1>9 DEF TypeInv

LEMMA TypeTaskBegin ==
  ASSUME TypeInv, NEW g, g \in calls, TaskBegin(g)
  PROVE  TypeInv'
<1>1. PICK h : h = [g EXCEPT !.st = "running"]
  OBVIOUS
<1>2. PICK w : w = g.at
  OBVIOUS
<1>3. /\ g.st = "accepted" /\ calls' = (calls \ {g}) \cup {h} /\ w \notin crashed
      /\ nTasks' = [nTasks EXCEPT ![w] = @ + 1] /\ concurrent' = [concurrent EXCEPT ![w] = @ + 1]
      /\ crashed' = IF concurrent[w] + 1 > 1 THEN crashed \cup {w} ELSE crashed
  BY <1>1, <1>2 DEF TaskBegin, Becomes
<1>4. w \in Worker /\ g \in CallRecord
  BY <1>2, <1>3 DEF TypeInv, TypeOK, CallsOK
<1>5. /\ NTasks' = NTasks /\ TaskNumber' = TaskNumber /\ pc' = pc /\ phase' = phase
      /\ taskList' = taskList /\ i' = i
  BY DEF TaskBegin, masterVars, scheduleVars, batchVars, NTasks, TaskNumber
<1>6. /\ h \in CallRecord /\ h.phase = g.phase /\ h.task = g.task /\ h.num = g.num /\ h.st = "running"
      /\ h.at = w
  BY <1>1, <1>2, <1>4 DEF CallRecord
<1>7. TypeOK'
  <2>1. nTasks' \in [Worker -> Nat] /\ concurrent' \in [Worker -> Nat] /\ crashed' \subseteq Worker
    BY <1>3, <1>4 DEF TypeInv, TypeOK
  <2>2. calls' \subseteq CallRecord
    BY <1>3, <1>6 DEF TypeInv, TypeOK
  <2> QED  BY <1>5, <2>1, <2>2 DEF TypeInv, TypeOK, TaskBegin, masterVars, scheduleVars, batchVars, fileVars
<1>8. DetailOK'
  BY <1>5 DEF TypeInv, DetailOK, TaskBegin, masterVars, scheduleVars, batchVars, fileVars
<1>9. CallsOK'
  BY <1>3, <1>4, <1>5, <1>6 DEF TypeInv, CallsOK
<1>10. CountsOK'
  <2>1. concurrent \in [Worker -> Nat]
    BY DEF TypeInv, TypeOK
  <2>2. ASSUME NEW v \in Worker \ crashed', v # w
        PROVE  /\ v \notin crashed /\ concurrent'[v] = concurrent[v]
               /\ \A e \in calls' : e.at = v => e \in calls
               /\ \A e \in calls : e.at = v => e \in calls'
    BY <1>2, <1>3, <1>6, <2>1, <2>2
  <2>3. CASE w \in crashed'
    BY <2>2, <2>3 DEF TypeInv, CountsOK
  <2>4. CASE w \notin crashed'
    <3>1. concurrent[w] = 0 /\ concurrent'[w] = 1
      BY <1>3, <1>4, <2>1, <2>4
    <3>2. \A e \in calls : ~(e.st = "running" /\ e.at = w)
      BY <1>3, <1>4, <3>1 DEF TypeInv, CountsOK
    <3>3. \A e \in calls' : e.st = "running" /\ e.at = w <=> e = h
      BY <1>3, <1>6, <3>2
    <3> QED  BY <1>3, <2>2, <3>1, <3>3 DEF TypeInv, CountsOK
  <2> QED  BY <2>3, <2>4
<1> QED  BY <1>7, <1>8, <1>9, <1>10 DEF TypeInv

\* What doMap and doReduce write has its type.
LEMMA FilesType ==
  ASSUME TypeInv, NEW g, g \in calls, TaskEnd(g)
  PROVE  /\ intermediate' \in [MapTask -> Nat] /\ DOMAIN output' = ReduceTask
         /\ \A r \in ReduceTask : output'[r] = None \/ output'[r] \subseteq MapTask
         /\ crashed \subseteq crashed' /\ crashed' \subseteq crashed \cup {g.at}
<1>1. /\ intermediate \in [MapTask -> Nat] /\ DOMAIN output = ReduceTask
      /\ \A r \in ReduceTask : output[r] = None \/ output[r] \subseteq MapTask
      /\ g.phase = "map" => g.task \in MapTask
  BY DEF TypeInv, TypeOK, DetailOK, CallsOK
<1>2. CASE MapTaskEnd(g)
  BY <1>1, <1>2 DEF MapTaskEnd
<1>3. CASE ReduceTaskEnd(g)
  BY <1>1, <1>3 DEF ReduceTaskEnd
<1> QED  BY <1>2, <1>3 DEF TaskEnd

LEMMA TypeTaskEnd ==
  ASSUME TypeInv, NEW g, g \in calls, TaskEnd(g)
  PROVE  TypeInv'
<1>1. PICK h : h = [g EXCEPT !.st = "ended"]
  OBVIOUS
<1>2. PICK w : w = g.at
  OBVIOUS
<1>3. /\ g.st = "running" /\ calls' = (calls \ {g}) \cup {h} /\ w \notin crashed
      /\ concurrent' = [concurrent EXCEPT ![w] = @ - 1]
  BY <1>1, <1>2 DEF TaskEnd, Becomes
<1>4. w \in Worker /\ g \in CallRecord
  BY <1>2, <1>3 DEF TypeInv, TypeOK, CallsOK
<1>5. /\ NTasks' = NTasks /\ TaskNumber' = TaskNumber /\ pc' = pc /\ phase' = phase
      /\ taskList' = taskList /\ i' = i
  BY DEF TaskEnd, masterVars, scheduleVars, batchVars, NTasks, TaskNumber
<1>6. /\ h \in CallRecord /\ h.phase = g.phase /\ h.task = g.task /\ h.num = g.num /\ h.st = "ended"
      /\ h.at = w
  BY <1>1, <1>2, <1>4 DEF CallRecord
<1>7. /\ intermediate' \in [MapTask -> Nat] /\ DOMAIN output' = ReduceTask
      /\ \A r \in ReduceTask : output'[r] = None \/ output'[r] \subseteq MapTask
      /\ crashed \subseteq crashed' /\ crashed' \subseteq crashed \cup {w}
  BY <1>2, FilesType
<1>8. concurrent \in [Worker -> Nat] /\ concurrent[w] = 1 /\ concurrent'[w] = 0
  <2>1. concurrent \in [Worker -> Nat]
    BY DEF TypeInv, TypeOK
  <2>2. concurrent[w] = 1
    BY <1>2, <1>3, <1>4 DEF TypeInv, CountsOK
  <2> QED  BY <1>3, <1>4, <2>1, <2>2
<1>9. TypeOK'
  <2>1. concurrent' \in [Worker -> Nat] /\ crashed' \subseteq Worker
    BY <1>3, <1>4, <1>7, <1>8 DEF TypeInv, TypeOK
  <2>2. calls' \subseteq CallRecord
    BY <1>3, <1>6 DEF TypeInv, TypeOK
  <2> QED  BY <1>5, <1>7, <2>1, <2>2 DEF TypeInv, TypeOK, TaskEnd, masterVars, scheduleVars, batchVars
<1>10. DetailOK'
  BY <1>5, <1>7 DEF TypeInv, DetailOK, TaskEnd, masterVars, scheduleVars, batchVars
<1>11. CallsOK'
  BY <1>3, <1>4, <1>5, <1>6 DEF TypeInv, CallsOK
<1>12. CountsOK'
  <2>1. ASSUME NEW v \in Worker \ crashed', v # w
        PROVE  /\ v \notin crashed /\ concurrent'[v] = concurrent[v]
               /\ \A e \in calls' : e.at = v => e \in calls
               /\ \A e \in calls : e.at = v => e \in calls'
    BY <1>2, <1>3, <1>6, <1>7, <1>8, <2>1
  <2>2. \A e \in calls : e.st = "running" /\ e.at = w => e = g
    BY <1>2, <1>3, <1>4 DEF TypeInv, CountsOK
  <2>3. \A e \in calls' : ~(e.st = "running" /\ e.at = w)
    BY <1>3, <1>6, <2>2
  <2> QED  BY <1>8, <2>1, <2>3 DEF TypeInv, CountsOK
<1> QED  BY <1>9, <1>10, <1>11, <1>12 DEF TypeInv

LEMMA TypeGoReturn ==
  ASSUME TypeInv, NEW g, g \in calls, GoReturn(g)
  PROVE  TypeInv'
<1>1. /\ NTasks' = NTasks /\ TaskNumber' = TaskNumber /\ phase' = phase /\ (pc' = pc \/ pc' = "panic")
  BY DEF GoReturn, masterVars, NTasks, TaskNumber
<1>2. /\ g.st \in {"refused", "ended"} \/ g.at \in crashed
      /\ calls' = calls \ {g} /\ taskList' = taskList /\ i' = i /\ phase' = phase
      /\ crashed' = crashed /\ concurrent' = concurrent /\ (pc' = pc \/ pc' = "panic")
  BY DEF GoReturn, masterVars, workerVars
<1>3. wg' \in Nat
  BY DEF GoReturn, TypeInv, TypeOK
<1>4. failedChan' \in Seq([cur : Worker \cup {None}, num : TaskNumber])
  <2>1. failedChan \in Seq([cur : Worker \cup {None}, num : TaskNumber])
    BY DEF TypeInv, DetailOK
  <2>2. CASE failedChan' = failedChan
    BY <2>1, <2>2
  <2>3. CASE failedChan' # failedChan
    <3>1. PICK f : f = [cur |-> g.cur, num |-> g.num]
      OBVIOUS
    <3>2. g.phase = phase /\ failedChan' = Append(failedChan, f)
      BY <2>3, <3>1 DEF GoReturn
    <3>3. g.cur \in Worker \cup {None} /\ g.num \in TaskNumber
      BY <3>2 DEF TypeInv, TypeOK, CallRecord, CallsOK
    <3>4. f \in [cur : Worker \cup {None}, num : TaskNumber]
      BY <3>1, <3>3
    <3> QED  BY <2>1, <3>2, <3>4, AppendProperties
  <2> QED  BY <2>2, <2>3
<1>5. TypeOK'
  BY <1>1, <1>2, <1>3 DEF TypeInv, TypeOK, GoReturn, workerVars, masterVars, fileVars
<1>6. DetailOK'
  BY <1>1, <1>2, <1>4 DEF TypeInv, DetailOK, GoReturn, masterVars, fileVars
<1>7. CallsOK'
  BY <1>1, <1>2 DEF TypeInv, CallsOK
<1>8. CountsOK'
  <2>1. ASSUME NEW w \in Worker \ crashed, g.st = "running" PROVE g.at # w
    BY <1>2, <2>1
  <2>2. ASSUME NEW w \in Worker \ crashed, NEW e, e.st = "running", e.at = w
        PROVE  e \in calls <=> e \in calls'
    BY <1>2, <2>1, <2>2
  <2> QED  BY <1>2, <2>2 DEF TypeInv, CountsOK
<1> QED  BY <1>5, <1>6, <1>7, <1>8 DEF TypeInv

\* Every step keeps the types.
LEMMA TypeNext ==
  ASSUME TypeInv, [Next]_vars
  PROVE  TypeInv'
<1>1. ASSUME NEW w \in Worker, Register(w) \/ Receive(w) \/ KillWorker(w) PROVE TypeInv'
  BY <1>1, TypeRegister, TypeReceive, TypeKill
<1>2. CASE RegisterTimeout \/ Launch \/ BatchDone \/ ListenTimeout \/ Return \/ Merge
  BY <1>2, TypeRegisterTimeout, TypeLaunch, TypeBatchDone, TypeListenTimeout, TypeReturn, TypeMerge
<1>3. ASSUME NEW g \in calls, Call(g) PROVE TypeInv'
  BY <1>3, TypeGoBegin, TypeGoCall, TypeTaskBegin, TypeTaskEnd, TypeGoReturn DEF Call
<1>4. CASE UNCHANGED vars
  <2>1. TypeOK' /\ DetailOK'
    BY <1>4 DEF vars, workerVars, masterVars, scheduleVars, batchVars, fileVars, TypeInv, TypeOK,
                DetailOK, TaskNumber, NTasks
  <2>2. CallsOK' /\ CountsOK'
    BY <1>4, SameCalls, SameCounts DEF vars, workerVars, masterVars, scheduleVars, batchVars, TypeInv
  <2> QED  BY <2>1, <2>2 DEF TypeInv
<1> QED  BY <1>1, <1>2, <1>3, <1>4 DEF Next

\* Whatever the numbers of workers and tasks, and whatever workers register late or
\* refuse calls: the counter of a worker's DoTask calls does not become negative, no
\* goroutine reads beyond the end of taskList, and a task that comes back from
\* failedChan is a task of the phase.
THEOREM TypeCorrect == FairSpec => []TypeOK
<1>1. Init => TypeInv
  BY TypeInit
<1>2. TypeInv /\ [Next]_vars => TypeInv'
  BY TypeNext
<1>3. TypeInv => TypeOK
  BY DEF TypeInv
<1> QED  BY <1>1, <1>2, <1>3, PTL DEF FairSpec, Spec
=============================================================================
