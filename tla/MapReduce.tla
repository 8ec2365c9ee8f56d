----------------------------- MODULE MapReduce -----------------------------
(***************************************************************************)
(* A distributed job of src/src/mapreduce: the master's run, Register,     *)
(* forwardRegistrations, schedule and the goroutines it starts,            *)
(* killWorkers and merge; the workers, which accept a number of RPCs and   *)
(* then no more; doMap and doReduce by the files they read and write.      *)
(*                                                                         *)
(* schedule hands out one task per worker, a batch, and waits for the      *)
(* batch with a WaitGroup.  The goroutine of a task reads i and workerAddr *)
(* of schedule, which may have moved on; it is assumed to begin, and to    *)
(* dial, within the 20 ms that schedule listens for registrations, and     *)
(* registrations that are under way to arrive within them.                 *)
(***************************************************************************)
EXTENDS Integers, Sequences, FiniteSets, Functions

CONSTANTS Worker,
          Prompt,    \* the workers that register in the first second
          Budget,    \* nRPC for each worker may be any of these functions; -1 is no limit
          NMap, NReduce,
          None       \* no worker: the address ""; no file

ASSUME JobAssumption ==
  /\ Prompt \subseteq Worker /\ None \notin Worker /\ None # 0..(NMap - 1)
  /\ Budget \subseteq [Worker -> Int]
  /\ NMap \in Nat \ {0} /\ NReduce \in Nat \ {0}

MapTask == 0..(NMap - 1)
ReduceTask == 0..(NReduce - 1)

VARIABLES
  \* the workers
  nRPC, concurrent, nTasks,
  crashed,       \* the workers whose process has ended, by a panic or log.Fatal
  \* the master
  workers,       \* those that called Register
  phase,         \* what run is doing: a phase, finish, merge or nothing more
  stats,
  \* schedule
  pc,            \* where it is: its two select loops, the head of the loop, wg.Wait
  told,          \* the workers received from registerChan
  workerState, workerAddr, runningTask,
  wg,            \* the counter of the WaitGroup
  failedChan, taskList, i,
  calls,         \* the goroutines, of earlier phases too, with their RPCs
  \* the files
  intermediate,  \* how many JSON arrays a map task's files hold
  output         \* the map tasks whose data a reduce task's file contains

workerVars == <<nRPC, concurrent, nTasks, crashed>>
masterVars == <<workers, phase, stats>>
batchVars == <<workerState, workerAddr, runningTask, wg, failedChan, taskList, i>>
scheduleVars == <<pc, told, batchVars>>
fileVars == <<intermediate, output>>
vars == <<workerVars, masterVars, scheduleVars, calls, fileVars>>

NoWorkers == [w \in {} |-> FALSE]

Init ==
  /\ nRPC \in Budget
  /\ concurrent = [w \in Worker |-> 0]
  /\ nTasks = [w \in Worker |-> 0]
  /\ crashed = {}
  /\ workers = {} /\ phase = "map" /\ stats = {}
  /\ pc = "register" /\ told = {}
  /\ workerState = NoWorkers /\ workerAddr = None /\ runningTask = 0
  /\ wg = 0 /\ failedChan = << >> /\ taskList = << >> /\ i = 0
  /\ calls = {}
  /\ intermediate = [m \in MapTask |-> 0]
  /\ output = [r \in ReduceTask |-> None]

-----------------------------------------------------------------------------
(* Registration.                                                           *)

\* A worker starts and registers; after killWorkers nobody listens any more.
Register(w) ==
  /\ w \notin workers /\ phase \in {"map", "reduce"} /\ pc # "panic"
  /\ workers' = workers \cup {w}
  /\ UNCHANGED <<workerVars, phase, stats, scheduleVars, calls, fileVars>>

\* schedule receives what forwardRegistrations sends, each worker once per phase
\* and in any order.
Receive(w) ==
  /\ pc \in {"register", "listen"} /\ w \in workers \ told
  /\ told' = told \cup {w}
  /\ workerAddr' = w
  /\ workerState' = [v \in DOMAIN workerState \cup {w} |-> v # w /\ workerState[v]]
  /\ wg' = IF pc = "listen" THEN wg + 1 ELSE wg
  /\ UNCHANGED <<workerVars, masterVars, pc, runningTask, failedChan, taskList, i, calls, fileVars>>

NTasks == IF phase = "map" THEN NMap ELSE NReduce

\* No worker for one second.
RegisterTimeout ==
  /\ pc = "register" /\ workers = told /\ Prompt \subseteq workers
  /\ runningTask' = 0
  /\ wg' = Cardinality(told)
  /\ failedChan' = << >>
  /\ taskList' = [k \in 1..NTasks |-> k - 1]
  /\ i' = 0
  /\ pc' = "loop"
  /\ UNCHANGED <<workerVars, masterVars, told, workerState, workerAddr, calls, fileVars>>

-----------------------------------------------------------------------------
(* The loop of schedule.                                                   *)

\* Slip: any worker, also one that has a task.
AnyWorker == DOMAIN workerState

\* The last free worker the iteration over the map meets.
FreeWorker == {w \in DOMAIN workerState : ~workerState[w]}

\* A free worker is chosen, or the address stays what it was; workerState and
\* runningTask change while the goroutine starts.  In both phases the task's
\* number is used as an index into mapFiles.
Launch ==
  /\ pc = "loop" /\ i < Len(taskList)
  /\ LET task == taskList[i + 1] IN
     IF task >= NMap
       THEN pc' = "panic" /\ UNCHANGED <<workerState, workerAddr, runningTask, calls>>
       ELSE \E w \in IF FreeWorker = {} THEN {workerAddr} ELSE FreeWorker :
              /\ workerAddr' = w
              /\ workerState' = [v \in DOMAIN workerState \cup {w} |-> v = w \/ workerState[v]]
              /\ runningTask' = runningTask + 1
              /\ calls' = calls \cup {[phase |-> phase, task |-> task, st |-> "new", num |-> task,
                                       cur |-> None, at |-> None]}
              /\ pc' = IF runningTask + 1 = Cardinality(DOMAIN workerState')
                         THEN "wait" ELSE "listen"
  /\ UNCHANGED <<workerVars, masterVars, told, wg, failedChan, taskList, i, fileVars>>

\* Slips: the counter for the next batch is off by one.
CountOneLess(ws) == Cardinality(DOMAIN ws) - 1
CountOneMore(ws) == Cardinality(DOMAIN ws) + 1

\* wg.Add for the next batch
Count(ws) == Cardinality(DOMAIN ws)

\* Slip: the failed tasks are not handed out again.
Forgotten(failed) == << >>

\* Slip: the failed tasks are handed out twice.
Twice(failed) == [k \in 1..2 * Len(failed) |-> failed[(k + 1) \div 2].num]

\* Slip: the number that follows the failed task's.
AgainNext(failed) == [k \in 1..Len(failed) |-> failed[k].num + 1]

\* The tasks to be handed out again.
Again(failed) == [k \in 1..Len(failed) |-> failed[k].num]

\* wg.Wait returns; the failures of the batch are read.
BatchDone ==
  /\ pc = "wait" /\ wg = 0
  /\ LET gone == {f.cur : f \in Range(failedChan)}
         left == [w \in DOMAIN workerState \ gone |-> FALSE]
     IN /\ workerState' = left
        /\ wg' = Count(left)
  /\ taskList' = taskList \o Again(failedChan)
  /\ failedChan' = << >>
  /\ runningTask' = 0
  /\ pc' = "listen"
  /\ UNCHANGED <<workerVars, masterVars, told, workerAddr, i, calls, fileVars>>

\* No worker for 20 ms: the next task.
ListenTimeout ==
  /\ pc = "listen" /\ workers = told
  /\ \A g \in calls : g.st \notin {"new", "begun"}
  /\ i' = i + 1
  /\ pc' = "loop"
  /\ UNCHANGED <<workerVars, masterVars, told, workerState, workerAddr, runningTask, wg,
                 failedChan, taskList, calls, fileVars>>

\* schedule returns: the next phase, with a new registerChan and new variables.
Return ==
  /\ pc = "loop" /\ i = Len(taskList)
  /\ phase' = IF phase = "map" THEN "reduce" ELSE "finish"
  /\ pc' = IF phase = "map" THEN "register" ELSE "returned"
  /\ told' = {}
  /\ workerState' = NoWorkers /\ workerAddr' = None /\ runningTask' = 0
  /\ wg' = 0 /\ failedChan' = << >> /\ taskList' = << >> /\ i' = 0
  /\ UNCHANGED <<workerVars, workers, stats, calls, fileVars>>

-----------------------------------------------------------------------------
(* The goroutine of a task, and the worker it calls.                       *)

Becomes(g, h) == calls' = (calls \ {g}) \cup {h}

\* Its copies of the task's number and of the address, as they are now.
GoBegin(g) ==
  /\ g.st = "new"
  /\ Becomes(g, [g EXCEPT !.st = "begun", !.num = taskList[i + 1], !.cur = workerAddr])
  /\ UNCHANGED <<workerVars, masterVars, scheduleVars, fileVars>>

\* A worker without RPCs left has closed its listener.
Listening(w) == w \in Worker \ crashed /\ nRPC[w] # 0

\* call reads workerAddr once more, and dials.
GoCall(g) ==
  /\ g.st = "begun"
  /\ IF Listening(workerAddr)
       THEN /\ nRPC' = [nRPC EXCEPT ![workerAddr] = @ - 1]
            /\ Becomes(g, [g EXCEPT !.st = "accepted", !.at = workerAddr])
       ELSE Becomes(g, [g EXCEPT !.st = "refused"]) /\ UNCHANGED nRPC
  /\ UNCHANGED <<concurrent, nTasks, crashed, masterVars, scheduleVars, fileVars>>

\* DoTask begins; it ends the process if another DoTask is under way.
TaskBegin(g) ==
  /\ g.st = "accepted" /\ g.at \notin crashed
  /\ nTasks' = [nTasks EXCEPT ![g.at] = @ + 1]
  /\ concurrent' = [concurrent EXCEPT ![g.at] = @ + 1]
  /\ crashed' = IF concurrent[g.at] + 1 > 1 THEN crashed \cup {g.at} ELSE crashed
  /\ Becomes(g, [g EXCEPT !.st = "running"])
  /\ UNCHANGED <<nRPC, masterVars, scheduleVars, fileVars>>

\* doMap appends an array of pairs to each of its files.  (The input files are taken
\* to be readable: a task whose input is not is reported done without any files.)
MapTaskEnd(g) ==
  /\ g.phase = "map"
  /\ intermediate' = [intermediate EXCEPT ![g.task] = @ + 1]
  /\ UNCHANGED <<output, crashed>>

\* doReduce panics if a file is missing; a file with two arrays is not valid JSON
\* and contributes nothing.
ReduceTaskEnd(g) ==
  /\ g.phase = "reduce"
  /\ IF \E m \in MapTask : intermediate[m] = 0
       THEN crashed' = crashed \cup {g.at} /\ UNCHANGED output
       ELSE /\ output' = [output EXCEPT ![g.task] = {m \in MapTask : intermediate[m] = 1}]
            /\ UNCHANGED crashed
  /\ UNCHANGED intermediate

TaskEnd(g) ==
  /\ g.st = "running" /\ g.at \notin crashed
  /\ MapTaskEnd(g) \/ ReduceTaskEnd(g)
  /\ concurrent' = [concurrent EXCEPT ![g.at] = @ - 1]
  /\ Becomes(g, [g EXCEPT !.st = "ended"])
  /\ UNCHANGED <<nRPC, nTasks, masterVars, scheduleVars>>

\* call returns, false if the worker refused or is gone; then wg.Done.  Nobody
\* looks at the WaitGroup and the channel of an earlier phase.
GoReturn(g) ==
  /\ g.st \in {"refused", "ended"} \/ g.at \in crashed
  /\ calls' = calls \ {g}
  /\ IF g.phase = phase
       THEN /\ failedChan' = IF g.st = "ended" /\ g.at \notin crashed THEN failedChan
                             ELSE Append(failedChan, [cur |-> g.cur, num |-> g.num])
            /\ IF wg = 0 THEN pc' = "panic" /\ UNCHANGED wg
                         ELSE wg' = wg - 1 /\ UNCHANGED pc
       ELSE UNCHANGED <<failedChan, wg, pc>>
  /\ UNCHANGED <<workerVars, masterVars, told, workerState, workerAddr, runningTask, taskList, i,
                 fileVars>>

-----------------------------------------------------------------------------
(* The end of run.                                                         *)

\* killWorkers calls Shutdown of the workers one after the other: told holds those
\* it has called.  Shutdown sets nRPC to 1 when the call has been counted, before or
\* after RunWorker compares it with 0.
KillWorker(w) ==
  /\ phase = "finish" /\ w \in workers \ told
  /\ told' = told \cup {w}
  /\ IF Listening(w)
       THEN /\ stats' = stats \cup {[worker |-> w, tasks |-> nTasks[w]]}
            /\ \E n \in {1} \cup (IF nRPC[w] = 1 THEN {0} ELSE {}) :
                 nRPC' = [nRPC EXCEPT ![w] = n]
       ELSE UNCHANGED <<stats, nRPC>>
  /\ UNCHANGED <<concurrent, nTasks, crashed, workers, phase, pc, batchVars, calls, fileVars>>

\* stopRPCServer, then merge, which gives up if an output is missing; the signal on
\* doneChannel.
Merge ==
  /\ phase = "finish" /\ pc # "panic" /\ workers = told
  /\ IF \E r \in ReduceTask : output[r] = None
       THEN pc' = "panic" /\ UNCHANGED phase
       ELSE phase' = "done" /\ UNCHANGED pc
  /\ UNCHANGED <<workerVars, workers, stats, told, batchVars, calls, fileVars>>

\* A panic of the master's process ends all of its goroutines.
Call(g) ==
  /\ pc # "panic"
  /\ GoBegin(g) \/ GoCall(g) \/ TaskBegin(g) \/ TaskEnd(g) \/ GoReturn(g)

Next ==
  \/ \E w \in Worker : Register(w) \/ Receive(w) \/ KillWorker(w)
  \/ RegisterTimeout \/ Launch \/ BatchDone \/ ListenTimeout \/ Return \/ Merge
  \/ \E g \in calls : Call(g)

Spec == Init /\ [][Next]_vars

\* As long as a goroutine of the master or of a worker can run, one does.
FairSpec == Spec /\ WF_vars(Next)

-----------------------------------------------------------------------------
(* Properties.                                                             *)

CallRecord == [phase : {"map", "reduce"}, task : Nat, num : Nat,
               st : {"new", "begun", "accepted", "running", "refused", "ended"},
               cur : Worker \cup {None}, at : Worker \cup {None}]

\* Every variable has the type of its declaration.
TypeOK ==
  /\ nRPC \in [Worker -> Int]
  /\ concurrent \in [Worker -> Nat]
  /\ nTasks \in [Worker -> Nat]
  /\ crashed \subseteq Worker /\ workers \subseteq Worker /\ told \subseteq workers
  /\ phase \in {"map", "reduce", "finish", "done"}
  /\ stats \subseteq [worker : Worker, tasks : Nat]
  /\ pc \in {"register", "loop", "wait", "listen", "returned", "panic"}
  /\ DOMAIN workerState \subseteq Worker \cup {None}
  /\ workerAddr \in Worker \cup {None}
  /\ runningTask \in Nat /\ wg \in Nat /\ i \in 0..Len(taskList)
  /\ \A k \in DOMAIN taskList : taskList[k] \in 0..(NTasks - 1)
  /\ calls \subseteq CallRecord
  /\ intermediate \in [MapTask -> Nat]
  /\ \A r \in ReduceTask : output[r] = None \/ output[r] \subseteq MapTask

\* A worker never has two DoTask calls at once, though tasks come back from failed
\* workers and a phase begins while the calls of the last one return.
OneCallPerWorker ==
  \A g, h \in calls :
    g # h /\ g.at = h.at => g.st \in {"ended", "refused"} \/ h.st \in {"ended", "refused"}

\* No reduce task is handed out before each map task has been done, and once only:
\* a second array in a file would make the file unreadable.
MapsBeforeReduce ==
  (phase # "map") => \A m \in MapTask : intermediate[m] = 1

\* When Wait returns, every output file holds the data of every map task.
OutputComplete ==
  phase = "done" => \A r \in ReduceTask : output[r] = MapTask

\* Neither the WaitGroup's counter nor an index nor a missing file ends the master,
\* and no worker's process ends.
NoCrash == pc # "panic" /\ crashed = {}

\* What checkWorker of mapreduce/test_test.go demands: every worker that answers
\* Shutdown has done some work.
EveryWorkerWorked == \A s \in stats : s.tasks > 0

\* Wait returns, with any of the workers but one out of service at any time.
JobEnds == <>(phase = "done")
=============================================================================
