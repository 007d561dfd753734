------------------------- MODULE WorkerPool_proofs --------------------------
(* Theorems about WorkerPool, for every pool size and set of pids and jobs. *)
EXTENDS WorkerPool, FiniteSetTheorems, FunctionTheorems, SequenceTheorems, TLAPS

(***************************************************************************)
(* Type correctness.                                                       *)
(***************************************************************************)

\* Starting workers keeps the types of the worker variables.
LEMMA StartType ==
    ASSUME TypeOK, NEW new \in SUBSET Pid, Start(new)
    PROVE  /\ wstate' \in [Pid -> {"dead", "idle", "ran", "marked"}]
           /\ inbox' \in [Pid -> Seq(WorkerMessage)]
           /\ cur' \in [Pid -> Task \cup {NoTask}]
           /\ \A w \in Pid : wstate'[w] \in {"ran", "marked"} => cur'[w] \in Task
BY DEF TypeOK, Start

\* So does the end of a worker process, which may send the pool a message.
LEMMA WorkerDiesType ==
    ASSUME TypeOK, NEW w \in Pid, NEW r \in {"normal", "abnormal"}, WorkerDies(w, r)
    PROVE  /\ wstate' \in [Pid -> {"dead", "idle", "ran", "marked"}]
           /\ inbox' \in [Pid -> Seq(WorkerMessage)]
           /\ cur' \in [Pid -> Task \cup {NoTask}]
           /\ \A v \in Pid : wstate'[v] \in {"ran", "marked"} => cur'[v] \in Task
           /\ orphans' \subseteq Pid
           /\ mailbox' \in Seq(Message)
BY DEF TypeOK, WorkerDies, SendPool, ExitMsg, Message

\* And the step into terminate/2, which sends every live worker an EXIT.
LEMMA TerminateType ==
    ASSUME TypeOK, NEW ws \in SUBSET Pid, Terminate(ws)
    PROVE  /\ pool' = "terminating"
           /\ awaited' \subseteq Pid
           /\ inbox' \in [Pid -> Seq(WorkerMessage)]
<1>1. ParentExitMsg \in WorkerMessage
  BY DEF ParentExitMsg, WorkerMessage
<1>2. \A w \in Pid : Append(inbox[w], ParentExitMsg) \in Seq(WorkerMessage)
  BY <1>1 DEF TypeOK
<1> QED BY <1>2 DEF TypeOK, Terminate

\* The telemetry message a process finds in its own mailbox is one of its messages.
LEMMA TelemetryType ==
    /\ Telemetry \in Seq(Message)
    /\ Telemetry \in Seq(WorkerMessage)
<1>1. TelemetryMsg \in Message /\ TelemetryMsg \in WorkerMessage
  BY DEF TelemetryMsg, Message, WorkerMessage
<1> QED BY <1>1 DEF Telemetry

\* The pool process's exit keeps every type.
LEMMA PoolExitsType ==
    ASSUME TypeOK, PoolExits
    PROVE  TypeOK'
<1>1. ParentExitMsg \in WorkerMessage
  BY DEF ParentExitMsg, WorkerMessage
<1>2. \A w \in Pid : Append(inbox[w], ParentExitMsg) \in Seq(WorkerMessage)
  BY <1>1 DEF TypeOK
<1>3. inbox' \in [Pid -> Seq(WorkerMessage)]
  BY <1>2 DEF TypeOK, PoolExits
<1> QED BY <1>3 DEF TypeOK, PoolExits, workerHist

\* TypeOK is inductive: every handler and every process step keeps it.
LEMMA TypeInductive ==
    ASSUME TypeOK, [Next]_vars
    PROVE  TypeOK'
<1> USE ConstantsAssumption
<1>1. ASSUME NEW j \in Job, SubmitTask(j) PROVE TypeOK'
  <2>1. SubmitMsg(j) \in Message
    BY DEF SubmitMsg, Message
  <2>2. Append(mailbox, SubmitMsg(j)) \in Seq(Message)
    BY <2>1, AppendProperties DEF TypeOK
  <2> QED BY <1>1, <2>2 DEF TypeOK, SubmitTask, workerVars, poolHist, workerHist
<1>2. ASSUME NEW j \in Job, CallTimeout(j) PROVE TypeOK'
  BY <1>2 DEF TypeOK, CallTimeout, poolVars, workerVars, poolHist, workerHist
<1>3. CASE SubscribeToEvents
  BY <1>3 DEF TypeOK, SubscribeToEvents, poolVars, workerVars, poolHist, workerHist
<1>4. CASE HandleStartWorkers
  <2>1. PICK new \in SUBSET Fresh : Start(new) /\ workers' = workers \cup new
    BY <1>4 DEF HandleStartWorkers
  <2>2. new \in SUBSET Pid
    BY DEF Fresh
  <2>3. mailbox' \in Seq(Message)
    BY <1>4 DEF HandleStartWorkers, Receives, TypeOK
  <2> QED BY <1>4, <2>1, <2>2, <2>3, StartType DEF TypeOK, HandleStartWorkers, poolHist, workerHist
<1>5. CASE HandleSubmitTask
  <2>1. /\ mailbox \in Seq(Message) /\ mailbox # <<>> /\ Head(mailbox).type = "submit_task"
        /\ Head(mailbox) \in Message
    BY <1>5 DEF HandleSubmitTask, Receives, TypeOK
  <2>2. PICK j \in Job : j = Head(mailbox).job
    BY <2>1 DEF Message
  <2>3. mailbox' \in Seq(Message)
    BY <1>5, <2>1, TelemetryType DEF HandleSubmitTask
  <2> DEFINE q == Append(tasks, [job |-> j, attempt |-> 1])
  <2>4. q \in Seq(Task) /\ q # <<>>
    <3>1. [job |-> j, attempt |-> 1] \in Task
      BY DEF Task
    <3>2. tasks \in Seq(Task)
      BY DEF TypeOK
    <3> QED BY <3>1, <3>2, AppendProperties
  <2>5. AssignPendingTasks(q)
    BY <1>5, <2>2 DEF HandleSubmitTask
  <2> HIDE DEF q
  <2>6. /\ tasks' \in Seq(Task)
        /\ processing' \in [Pid -> Task \cup {NoTask}]
        /\ inbox' \in [Pid -> Seq(WorkerMessage)]
    <3>1. CASE Available = {} \/ q = <<>>
      BY <2>4, <2>5, <3>1 DEF AssignPendingTasks, TypeOK
    <3>2. CASE ~(Available = {} \/ q = <<>>)
      <4>1. PICK w \in Available :
              /\ tasks' = Tail(q)
              /\ processing' = [processing EXCEPT ![w] = Head(q)]
              /\ inbox' = [inbox EXCEPT ![w] =
                    IF w \in Alive THEN Append(@, ProcessTaskMsg(Head(q))) ELSE @]
        BY <2>5, <3>2 DEF AssignPendingTasks
      <4>2. Head(q) \in Task /\ Tail(q) \in Seq(Task)
        BY <2>4
      <4>3. ProcessTaskMsg(Head(q)) \in WorkerMessage
        BY <4>2 DEF ProcessTaskMsg, WorkerMessage
      <4>4. w \in Pid
        BY DEF Available, TypeOK
      <4> QED BY <4>1, <4>2, <4>3, <4>4 DEF TypeOK
    <3> QED BY <3>1, <3>2
  <2>7. calls' \in [Job -> {"new", "waiting", "ok", "error", "exit"}]
    BY <1>5, <2>2 DEF HandleSubmitTask, Reply, TypeOK
  <2>8. accepted' \subseteq Job
    BY <1>5, <2>2 DEF HandleSubmitTask, TypeOK
  <2> QED BY <1>5, <2>3, <2>6, <2>7, <2>8 DEF TypeOK, HandleSubmitTask, workerHist
<1>6. CASE RejectTask
  <2>1. Head(mailbox) \in Message /\ Head(mailbox).job \in Job /\ mailbox' \in Seq(Message)
    BY <1>6 DEF RejectTask, Receives, TypeOK
  <2>2. calls' \in [Job -> {"new", "waiting", "ok", "error", "exit"}]
    BY <1>6, <2>1 DEF RejectTask, Reply, TypeOK
  <2> QED BY <1>6, <2>1, <2>2 DEF TypeOK, RejectTask, workerVars, poolHist, workerHist
<1>7. CASE HandleWorkerExit
  <2>1. /\ mailbox \in Seq(Message) /\ mailbox # <<>> /\ Head(mailbox).type = "EXIT"
        /\ Head(mailbox) \in Message
    BY <1>7 DEF HandleWorkerExit, Receives, TypeOK
  <2>2. PICK w \in Pid : w = Head(mailbox).pid
    BY <2>1 DEF Message
  <2>3. Tail(mailbox) \in Seq(Message) /\ Tail(mailbox) \o Telemetry \in Seq(Message)
    BY <2>1, TelemetryType
  <2>4. processing' \in [Pid -> Task \cup {NoTask}]
    BY <1>7, <2>2 DEF HandleWorkerExit, TypeOK
  <2>5. /\ workers' \subseteq Pid
        /\ wstate' \in [Pid -> {"dead", "idle", "ran", "marked"}]
        /\ inbox' \in [Pid -> Seq(WorkerMessage)]
        /\ cur' \in [Pid -> Task \cup {NoTask}]
        /\ \A v \in Pid : wstate'[v] \in {"ran", "marked"} => cur'[v] \in Task
    <3>1. MaybeRestartWorker(workers \ {w})
      BY <1>7, <2>2 DEF HandleWorkerExit
    <3>2. CASE Cardinality(workers \ {w}) < Size
      <4>1. PICK v \in Fresh : Start({v}) /\ workers' = (workers \ {w}) \cup {v}
        BY <3>1, <3>2 DEF MaybeRestartWorker
      <4>2. {v} \in SUBSET Pid
        BY DEF Fresh
      <4> QED BY <4>1, <4>2, StartType DEF TypeOK
    <3>3. CASE ~(Cardinality(workers \ {w}) < Size)
      BY <3>1, <3>3 DEF MaybeRestartWorker, TypeOK
    <3> QED BY <3>2, <3>3
  <2>6. tasks' \in Seq(Task) /\ mailbox' \in Seq(Message) /\ dropped' \subseteq Job
    <3>1. processing[w] \in Task \cup {NoTask}
      BY DEF TypeOK
    <3>2. processing[w] # NoTask => processing[w].job \in Job
      BY <3>1 DEF Task
    <3>3. CASE Head(mailbox).reason = "normal"
      BY <1>7, <2>2, <2>3, <3>2, <3>3 DEF HandleWorkerExit, TypeOK
    <3>4. CASE Head(mailbox).reason # "normal"
      <4>1. MaybeRetryTask(processing[w])
        BY <1>7, <2>2, <3>4 DEF HandleWorkerExit
      <4>2. CASE processing[w] = NoTask
        BY <2>3, <4>1, <4>2 DEF MaybeRetryTask, TypeOK
      <4>3. CASE processing[w] # NoTask /\ processing[w].attempt < MaxAttempts
        <5>1. [processing[w] EXCEPT !.attempt = @ + 1] \in Task
          BY <3>1, <4>3 DEF Task
        <5>2. tasks' = Append(tasks, [processing[w] EXCEPT !.attempt = @ + 1])
          BY <4>1, <4>3 DEF MaybeRetryTask
        <5>3. tasks' \in Seq(Task)
          BY <5>1, <5>2, AppendProperties DEF TypeOK
        <5> QED BY <2>3, <4>1, <4>3, <5>3 DEF MaybeRetryTask, TypeOK
      <4>4. CASE processing[w] # NoTask /\ ~(processing[w].attempt < MaxAttempts)
        BY <2>3, <3>2, <4>1, <4>4 DEF MaybeRetryTask, TypeOK
      <4> QED BY <4>2, <4>3, <4>4
    <3> QED BY <3>3, <3>4
  <2> QED BY <1>7, <2>4, <2>5, <2>6 DEF TypeOK, HandleWorkerExit, workerHist
<1>8. CASE LastWorkerExit
  <2>1. Head(mailbox) \in Message /\ Head(mailbox).pid \in Pid /\ mailbox' \in Seq(Message)
    BY <1>8 DEF LastWorkerExit, Receives, TypeOK
  <2>2. Terminate({})
    BY <1>8 DEF LastWorkerExit
  <2>3. processing' \in [Pid -> Task \cup {NoTask}] /\ workers' \subseteq Pid
    BY <1>8, <2>1 DEF LastWorkerExit, TypeOK
  <2> QED BY <1>8, <2>1, <2>2, <2>3, TerminateType DEF TypeOK, LastWorkerExit, poolHist, workerHist
<1>9. ASSUME NEW type, NoClause(type) PROVE TypeOK'
  <2>1. mailbox' \in Seq(Message)
    BY <1>9 DEF NoClause, Receives, TypeOK
  <2>2. Terminate(workers) /\ workers \in SUBSET Pid
    BY <1>9 DEF NoClause, TypeOK
  <2> QED BY <1>9, <2>1, <2>2, TerminateType DEF TypeOK, NoClause, poolHist, workerHist
<1>10. CASE WaitForWorkers
  BY <1>10 DEF TypeOK, WaitForWorkers, workerVars, poolHist, workerHist
<1>11. CASE AllWorkersStopped \/ ShutdownTimeout
  BY <1>11, PoolExitsType DEF AllWorkersStopped, ShutdownTimeout
<1>12. CASE RestartPool
  BY <1>12 DEF TypeOK, RestartPool, StartWorkersMsg, Message, workerVars, poolHist, workerHist
<1>13. ASSUME NEW w \in Pid, RunTask(w) PROVE TypeOK'
  <2>1. /\ inbox[w] \in Seq(WorkerMessage) /\ inbox[w] # <<>>
        /\ Head(inbox[w]) \in WorkerMessage /\ Head(inbox[w]).type = "process_task"
    BY <1>13 DEF RunTask, WorkerReceives, TypeOK
  <2>2. PICK t \in Task : t = Head(inbox[w]).task
    BY <2>1 DEF WorkerMessage
  <2>3. Tail(inbox[w]) \o Telemetry \in Seq(WorkerMessage)
    BY <2>1, TelemetryType
  <2>4. t.job \in Job
    BY DEF Task
  <2> QED BY <1>13, <2>2, <2>3, <2>4 DEF TypeOK, RunTask, poolVars, poolHist
<1>14. ASSUME NEW w \in Pid, MarkBlock(w) PROVE TypeOK'
  <2>1. cur[w] \in Task /\ cur[w].job \in Job
    BY <1>14 DEF MarkBlock, TypeOK, Task
  <2>2. PICK result \in {"ok", "error"} : marks' = marks \cup {<<cur[w].job, result>>}
    BY <1>14 DEF MarkBlock
  <2>3. marks' \subseteq Job \X {"ok", "error"}
    BY <2>1, <2>2 DEF TypeOK
  <2> QED BY <1>14, <2>1, <2>3 DEF TypeOK, MarkBlock, poolVars, poolHist
<1>15. ASSUME NEW w \in Pid, MarkRaises(w) PROVE TypeOK'
  BY <1>15, WorkerDiesType DEF TypeOK, MarkRaises, poolHist, workerHist
<1>16. ASSUME NEW w \in Pid, NotifyPool(w) PROVE TypeOK'
  <2>1. CompleteMsg(w) \in Message
    BY DEF CompleteMsg, Message
  <2>2. mailbox' \in Seq(Message)
    BY <1>16, <2>1 DEF NotifyPool, SendPool, TypeOK
  <2>3. cur[w] \in Task /\ cur[w].job \in Job
    BY <1>16 DEF NotifyPool, TypeOK, Task
  <2> QED BY <1>16, <2>2, <2>3 DEF TypeOK, NotifyPool, poolHist
<1>17. ASSUME NEW w \in Pid, WorkerStops(w) PROVE TypeOK'
  BY <1>17, WorkerDiesType DEF TypeOK, WorkerStops, poolHist, workerHist
<1>18. ASSUME NEW w \in Pid, NEW r \in {"normal", "abnormal"}, WorkerExits(w, r) PROVE TypeOK'
  BY <1>18, WorkerDiesType DEF TypeOK, WorkerExits, poolHist, workerHist
<1>19. CASE UNCHANGED vars
  BY <1>19 DEF TypeOK, vars, poolVars, workerVars, poolHist, workerHist
<1>. QED
  BY <1>1, <1>2, <1>3, <1>4, <1>5, <1>6, <1>7, <1>8, <1>9, <1>10, <1>11, <1>12, <1>13,
     <1>14, <1>15, <1>16, <1>17, <1>18, <1>19
  DEF Next, CallerStep, PoolStep, WorkerStep, HandleTaskComplete, HandleTelemetryEvent

\* Theorem: every reachable state of the pool, its workers and its callers is
\* well typed.
THEOREM TypeCorrect == Spec => []TypeOK
<1>1. Init => TypeOK
  <2>1. StartWorkersMsg \in Message
    BY DEF StartWorkersMsg, Message
  <2>2. <<StartWorkersMsg>> \in Seq(Message)
    BY <2>1
  <2> SUFFICES ASSUME Init PROVE TypeOK
    OBVIOUS
  <2>3. mailbox \in Seq(Message) /\ tasks \in Seq(Task)
    BY <2>2 DEF Init
  <2>4. /\ inbox \in [Pid -> Seq(WorkerMessage)]
        /\ processing \in [Pid -> Task \cup {NoTask}]
        /\ cur \in [Pid -> Task \cup {NoTask}]
    BY DEF Init
  <2>5. /\ wstate \in [Pid -> {"dead", "idle", "ran", "marked"}]
        /\ \A w \in Pid : wstate[w] \in {"ran", "marked"} => cur[w] \in Task
    BY DEF Init
  <2>6. /\ calls \in [Job -> {"new", "waiting", "ok", "error", "exit"}]
        /\ runs \in [Job -> Nat] /\ exits \in 0..MaxExits
    BY ConstantsAssumption DEF Init
  <2>7. /\ pool \in {"up", "terminating", "down"} /\ attached \in BOOLEAN
        /\ workers \subseteq Pid /\ awaited \subseteq Pid /\ orphans \subseteq Pid
        /\ marks \subseteq Job \X {"ok", "error"}
        /\ notified \subseteq Job /\ accepted \subseteq Job /\ dropped \subseteq Job
    BY DEF Init
  <2> QED BY <2>3, <2>4, <2>5, <2>6, <2>7 DEF TypeOK
<1>2. TypeOK /\ [Next]_vars => TypeOK'
  BY TypeInductive
<1> QED BY <1>1, <1>2, PTL DEF Spec

(***************************************************************************)
(* The registry of workers and the exits in the pool's mailbox.            *)
(***************************************************************************)

\* The inductive form of ExitsAreOfRegisteredWorkers and WorkersBounded.  Every
\* live worker belongs to the pool process or outlived one, never both, and
\* :start_workers is only ever the first message of a pool process that has no
\* workers yet.
RegistryInv ==
    /\ orphans \subseteq Alive
    /\ workers \cap orphans = {}
    /\ Alive \subseteq workers \cup orphans
    /\ pool = "down" => workers = {}
    /\ pool = "up" => \A i \in 1..Len(mailbox) :
          mailbox[i].type = "start_workers" => i = 1 /\ workers = {}
    /\ ExitsAreOfRegisteredWorkers
    /\ WorkersBounded

\* A message that is neither an exit nor :start_workers, put at the back of the
\* mailbox, changes nothing the registry depends on.
LEMMA RegistryAppend ==
    ASSUME TypeOK, RegistryInv, NEW m \in Message,
           m.type \notin {"EXIT", "start_workers"},
           mailbox' = Append(mailbox, m) \/ mailbox' = mailbox,
           UNCHANGED <<pool, workers, orphans>>, Alive' = Alive
    PROVE  RegistryInv'
<1>1. CASE mailbox' = mailbox
  BY <1>1 DEF RegistryInv, ExitsAreOfRegisteredWorkers, IsExitOf, WorkersBounded
<1>2. CASE mailbox' = Append(mailbox, m)
  <2>1. /\ Len(mailbox') = Len(mailbox) + 1 /\ Len(mailbox) \in Nat
        /\ \A i \in 1..Len(mailbox) : mailbox'[i] = mailbox[i]
        /\ mailbox'[Len(mailbox) + 1] = m
    BY <1>2, AppendProperties DEF TypeOK
  <2>2. \A i \in 1..Len(mailbox'), w \in Pid :
           IsExitOf(i, w)' <=> i \in 1..Len(mailbox) /\ IsExitOf(i, w)
    BY <2>1 DEF IsExitOf
  <2>3. ExitsAreOfRegisteredWorkers'
    BY <2>1, <2>2 DEF RegistryInv, ExitsAreOfRegisteredWorkers, TypeOK
  <2>4. pool' = "up" => \A i \in 1..Len(mailbox') :
          mailbox'[i].type = "start_workers" => i = 1 /\ workers' = {}
    BY <2>1 DEF RegistryInv
  <2> QED BY <2>3, <2>4 DEF RegistryInv, WorkersBounded
<1> QED BY <1>1, <1>2

\* The end of a worker process takes it out of Alive and, unless it is an orphan,
\* puts its exit in the mailbox.
LEMMA RegistryWorkerDies ==
    ASSUME TypeOK, RegistryInv, NEW w \in Pid, w \in Alive,
           NEW r \in {"normal", "abnormal"},
           WorkerDies(w, r), UNCHANGED <<pool, workers>>
    PROVE  RegistryInv'
<1>1. Alive' = Alive \ {w}
  BY DEF Alive, WorkerDies, TypeOK
<1>2. orphans' = orphans \ {w}
  BY DEF WorkerDies
<1>3. CASE w \in orphans \/ pool = "down"
  <2>1. mailbox' = mailbox
    BY <1>3 DEF WorkerDies, SendPool
  <2>2. pool = "up" => w \notin workers
    BY <1>3 DEF RegistryInv
  <2>3. ExitsAreOfRegisteredWorkers'
    BY <1>1, <2>1, <2>2 DEF RegistryInv, ExitsAreOfRegisteredWorkers, IsExitOf
  <2> QED BY <1>1, <1>2, <2>1, <2>3 DEF RegistryInv, WorkersBounded
<1>4. CASE ~(w \in orphans \/ pool = "down")
  <2>1. mailbox' = Append(mailbox, ExitMsg(w, r)) /\ ExitMsg(w, r) \in Message
    BY <1>4 DEF WorkerDies, SendPool, ExitMsg, Message
  <2>2. /\ Len(mailbox') = Len(mailbox) + 1 /\ Len(mailbox) \in Nat
        /\ \A i \in 1..Len(mailbox) : mailbox'[i] = mailbox[i]
        /\ mailbox'[Len(mailbox) + 1] = ExitMsg(w, r)
    BY <2>1, AppendProperties DEF TypeOK
  <2>3. w \in workers
    BY <1>4 DEF RegistryInv
  <2>4. \A i \in 1..Len(mailbox'), v \in Pid :
           IsExitOf(i, v)' <=> \/ i \in 1..Len(mailbox) /\ IsExitOf(i, v)
                               \/ i = Len(mailbox) + 1 /\ v = w
    BY <2>2 DEF IsExitOf, ExitMsg
  <2>5. ExitsAreOfRegisteredWorkers'
    <3> SUFFICES ASSUME pool = "up"
                 PROVE  /\ \A v \in workers \ Alive' : \E i \in 1..Len(mailbox') : IsExitOf(i, v)'
                        /\ \A i \in 1..Len(mailbox'), v \in Pid : IsExitOf(i, v)' =>
                              /\ v \in workers \ Alive'
                              /\ \A k \in 1..Len(mailbox') : IsExitOf(k, v)' => k = i
      BY DEF ExitsAreOfRegisteredWorkers
    <3>1. ExitsAreOfRegisteredWorkers
      BY DEF RegistryInv
    <3>2. \A v \in workers \ Alive : \E i \in 1..Len(mailbox) : IsExitOf(i, v)
      BY <3>1 DEF ExitsAreOfRegisteredWorkers
    <3>3. \A i \in 1..Len(mailbox), v \in Pid : IsExitOf(i, v) =>
             /\ v \in workers \ Alive
             /\ \A k \in 1..Len(mailbox) : IsExitOf(k, v) => k = i
      BY <3>1 DEF ExitsAreOfRegisteredWorkers
    <3>4. ASSUME NEW v \in workers \ Alive' PROVE \E i \in 1..Len(mailbox') : IsExitOf(i, v)'
      <4>1. CASE v = w
        BY <2>2, <2>4, <4>1
      <4>2. CASE v # w
        <5>1. PICK i \in 1..Len(mailbox) : IsExitOf(i, v)
          BY <1>1, <3>2, <4>2
        <5> QED BY <2>2, <2>4, <5>1 DEF TypeOK
      <4> QED BY <4>1, <4>2
    <3>5. ASSUME NEW i \in 1..Len(mailbox'), NEW v \in Pid, IsExitOf(i, v)'
          PROVE  /\ v \in workers \ Alive'
                 /\ \A k \in 1..Len(mailbox') : IsExitOf(k, v)' => k = i
      BY <1>1, <2>2, <2>3, <2>4, <3>3, <3>5
    <3> QED BY <3>4, <3>5
  <2>6. pool' = "up" => \A i \in 1..Len(mailbox') :
          mailbox'[i].type = "start_workers" => i = 1 /\ workers' = {}
    BY <2>2 DEF RegistryInv, ExitMsg
  <2> QED BY <1>1, <1>2, <2>3, <2>5, <2>6 DEF RegistryInv, WorkersBounded
<1> QED BY <1>3, <1>4

\* Consuming the head of the mailbox shifts the exits by one.
LEMMA TailShifts ==
    ASSUME TypeOK, mailbox # <<>>, NEW rest \in Seq(Message),
           \A i \in 1..Len(rest) : rest[i].type \notin {"EXIT", "start_workers"},
           mailbox' = Tail(mailbox) \o rest
    PROVE  /\ Len(mailbox) \in Nat \ {0}
           /\ Len(mailbox') \in Nat /\ Len(mailbox') >= Len(mailbox) - 1
           /\ \A i \in 1..Len(mailbox'), w \in Pid :
                 IsExitOf(i, w)' <=> i + 1 \in 1..Len(mailbox) /\ IsExitOf(i + 1, w)
           /\ \A i \in 1..Len(mailbox') : mailbox'[i].type = "start_workers" =>
                 i + 1 \in 1..Len(mailbox) /\ mailbox[i + 1].type = "start_workers"
<1>1. /\ mailbox \in Seq(Message) /\ Len(mailbox) \in Nat \ {0}
      /\ Tail(mailbox) \in Seq(Message) /\ Len(Tail(mailbox)) = Len(mailbox) - 1
      /\ \A i \in 1..Len(Tail(mailbox)) : Tail(mailbox)[i] = mailbox[i + 1]
  BY HeadTailProperties, EmptySeq, LenProperties DEF TypeOK
<1>2. /\ Len(mailbox') = Len(Tail(mailbox)) + Len(rest) /\ Len(rest) \in Nat
      /\ \A i \in 1..Len(mailbox') : mailbox'[i] =
            IF i <= Len(Tail(mailbox)) THEN Tail(mailbox)[i] ELSE rest[i - Len(Tail(mailbox))]
  BY <1>1, ConcatProperties
<1>3. \A i \in 1..Len(mailbox') :
        IF i + 1 \in 1..Len(mailbox)
          THEN mailbox'[i] = mailbox[i + 1]
          ELSE mailbox'[i].type \notin {"EXIT", "start_workers"}
  BY <1>1, <1>2
<1> QED BY <1>1, <1>2, <1>3 DEF IsExitOf

\* A handler that consumes a message which is neither an exit nor :start_workers
\* keeps the registry as long as the workers stay as they are.
LEMMA RegistryConsume ==
    ASSUME TypeOK, RegistryInv, mailbox # <<>>, Head(mailbox).type # "EXIT",
           NEW rest \in Seq(Message),
           \A i \in 1..Len(rest) : rest[i].type \notin {"EXIT", "start_workers"},
           mailbox' = Tail(mailbox) \o rest,
           UNCHANGED <<workers, orphans>>, Alive' = Alive,
           pool' = pool \/ pool' = "terminating"
    PROVE  RegistryInv'
<1>1. mailbox[1].type # "EXIT"
  BY HeadTailProperties DEF TypeOK
<1>2. /\ Len(mailbox) \in Nat \ {0}
      /\ Len(mailbox') \in Nat /\ Len(mailbox') >= Len(mailbox) - 1
      /\ \A i \in 1..Len(mailbox'), w \in Pid :
            IsExitOf(i, w)' <=> i + 1 \in 1..Len(mailbox) /\ IsExitOf(i + 1, w)
      /\ \A i \in 1..Len(mailbox') : mailbox'[i].type = "start_workers" =>
            i + 1 \in 1..Len(mailbox) /\ mailbox[i + 1].type = "start_workers"
  BY TailShifts
<1>3. ExitsAreOfRegisteredWorkers'
  <2> SUFFICES ASSUME pool' = "up"
               PROVE  /\ \A v \in workers \ Alive : \E i \in 1..Len(mailbox') : IsExitOf(i, v)'
                      /\ \A i \in 1..Len(mailbox'), v \in Pid : IsExitOf(i, v)' =>
                            /\ v \in workers \ Alive
                            /\ \A k \in 1..Len(mailbox') : IsExitOf(k, v)' => k = i
    BY DEF ExitsAreOfRegisteredWorkers
  <2>1. /\ \A v \in workers \ Alive : \E i \in 1..Len(mailbox) : IsExitOf(i, v)
        /\ \A i \in 1..Len(mailbox), v \in Pid : IsExitOf(i, v) =>
              /\ v \in workers \ Alive
              /\ \A k \in 1..Len(mailbox) : IsExitOf(k, v) => k = i
    BY DEF RegistryInv, ExitsAreOfRegisteredWorkers
  <2>2. ASSUME NEW v \in workers \ Alive PROVE \E i \in 1..Len(mailbox') : IsExitOf(i, v)'
    <3>1. PICK i \in 1..Len(mailbox) : IsExitOf(i, v)
      BY <2>1
    <3>2. i # 1
      BY <1>1, <3>1 DEF IsExitOf
    <3>3. i - 1 \in 1..Len(mailbox') /\ (i - 1) + 1 = i
      BY <1>2, <3>2
    <3> QED BY <1>2, <3>1, <3>3 DEF TypeOK
  <2>3. ASSUME NEW i \in 1..Len(mailbox'), NEW v \in Pid, IsExitOf(i, v)'
        PROVE  /\ v \in workers \ Alive
               /\ \A k \in 1..Len(mailbox') : IsExitOf(k, v)' => k = i
    <3>1. i + 1 \in 1..Len(mailbox) /\ IsExitOf(i + 1, v)
      BY <1>2, <2>3
    <3>2. ASSUME NEW k \in 1..Len(mailbox'), IsExitOf(k, v)' PROVE k = i
      <4>1. k + 1 \in 1..Len(mailbox) /\ IsExitOf(k + 1, v)
        BY <1>2, <3>2
      <4>2. k + 1 = i + 1
        BY <2>1, <3>1, <4>1
      <4> QED BY <4>2, <1>2
    <3> QED BY <2>1, <3>1, <3>2
  <2> QED BY <2>2, <2>3
<1>4. pool' = "up" => \A i \in 1..Len(mailbox') :
        mailbox'[i].type = "start_workers" => i = 1 /\ workers' = {}
  BY <1>2 DEF RegistryInv
<1> QED BY <1>3, <1>4 DEF RegistryInv, WorkersBounded

\* The messages that neither report an exit nor start workers.
LEMMA PlainMessages ==
    /\ Telemetry \in Seq(Message)
    /\ \A i \in 1..Len(Telemetry) : Telemetry[i].type \notin {"EXIT", "start_workers"}
    /\ TelemetryMsg \in Message /\ TelemetryMsg.type \notin {"EXIT", "start_workers"}
<1>1. TelemetryMsg \in Message /\ TelemetryMsg.type \notin {"EXIT", "start_workers"}
  BY DEF TelemetryMsg, Message
<1> QED BY <1>1, TelemetryType DEF Telemetry

\* A finite set of pids has a cardinality, and one pid more or less changes it by
\* at most one.
LEMMA WorkerCount ==
    ASSUME TypeOK, NEW w \in Pid, NEW v \in Pid
    PROVE  /\ Cardinality(workers) \in Nat /\ Cardinality(workers \ {w}) \in Nat
           /\ Cardinality(workers \ {w}) <= Cardinality(workers)
           /\ Cardinality((workers \ {w}) \cup {v}) \in Nat
           /\ Cardinality((workers \ {w}) \cup {v}) <= Cardinality(workers \ {w}) + 1
<1>1. IsFiniteSet(workers) /\ IsFiniteSet(workers \ {w})
  BY ConstantsAssumption, FS_Subset DEF TypeOK
<1>2. Cardinality(workers) \in Nat /\ Cardinality(workers \ {w}) \in Nat
  BY <1>1, FS_CardinalityType
<1>3. Cardinality(workers \ {w}) <= Cardinality(workers)
  BY <1>1, FS_Subset
<1>4. /\ Cardinality((workers \ {w}) \cup {v}) \in Nat
      /\ Cardinality((workers \ {w}) \cup {v}) <= Cardinality(workers \ {w}) + 1
  <2> DEFINE rest == workers \ {w}
  <2>1. IsFiniteSet(rest) /\ Cardinality(rest) \in Nat
    BY <1>1, <1>2
  <2> HIDE DEF rest
  <2>2. Cardinality(rest \cup {v}) = IF v \in rest THEN Cardinality(rest)
                                                 ELSE Cardinality(rest) + 1
    BY <2>1, FS_AddElement
  <2>3. Cardinality(rest \cup {v}) \in Nat /\ Cardinality(rest \cup {v}) <= Cardinality(rest) + 1
    BY <2>1, <2>2
  <2> QED BY <2>3 DEF rest
<1> QED BY <1>2, <1>3, <1>4

\* Handling the exit of a registered worker keeps the registry and the mailbox in
\* step: the pid leaves both, and the pid of the replacement is in neither.
LEMMA RegistryExitHandled ==
    ASSUME TypeOK, RegistryInv, HandleWorkerExit
    PROVE  RegistryInv'
<1> USE ConstantsAssumption
<1>1. /\ pool = "up" /\ pool' = "up" /\ orphans' = orphans
      /\ mailbox \in Seq(Message) /\ mailbox # <<>> /\ Head(mailbox) \in Message
      /\ Head(mailbox).type = "EXIT" /\ Head(mailbox) = mailbox[1]
  BY HeadTailProperties DEF HandleWorkerExit, Receives, TypeOK
<1>2. PICK w \in Pid : w = Head(mailbox).pid
  BY <1>1 DEF Message
<1>3. PICK rest \in Seq(Message) :
        /\ mailbox' = Tail(mailbox) \o rest
        /\ \A i \in 1..Len(rest) : rest[i].type \notin {"EXIT", "start_workers"}
  <2>1. Tail(mailbox) = Tail(mailbox) \o <<>> /\ <<>> \in Seq(Message) /\ Len(<<>>) = 0
    BY <1>1, ConcatEmptySeq, HeadTailProperties, EmptySeq
  <2>2. mailbox' = Tail(mailbox) \/ mailbox' = Tail(mailbox) \o Telemetry
    BY DEF HandleWorkerExit, MaybeRetryTask
  <2>3. CASE mailbox' = Tail(mailbox)
    <3> DEFINE none == <<>>
    <3>1. none \in Seq(Message) /\ \A i \in 1..Len(none) : FALSE
      OBVIOUS
    <3>2. mailbox' = Tail(mailbox) \o none
      BY <2>1, <2>3
    <3> HIDE DEF none
    <3> QED BY <3>1, <3>2
  <2>4. CASE mailbox' = Tail(mailbox) \o Telemetry
    BY <2>4, PlainMessages
  <2> QED BY <2>2, <2>3, <2>4
<1>4. /\ Len(mailbox) \in Nat \ {0}
      /\ Len(mailbox') \in Nat /\ Len(mailbox') >= Len(mailbox) - 1
      /\ \A i \in 1..Len(mailbox'), v \in Pid :
            IsExitOf(i, v)' <=> i + 1 \in 1..Len(mailbox) /\ IsExitOf(i + 1, v)
      /\ \A i \in 1..Len(mailbox') : mailbox'[i].type = "start_workers" =>
            i + 1 \in 1..Len(mailbox) /\ mailbox[i + 1].type = "start_workers"
  BY <1>1, <1>3, TailShifts
<1>5. /\ \A v \in workers \ Alive : \E i \in 1..Len(mailbox) : IsExitOf(i, v)
      /\ \A i \in 1..Len(mailbox), v \in Pid : IsExitOf(i, v) =>
            /\ v \in workers \ Alive
            /\ \A k \in 1..Len(mailbox) : IsExitOf(k, v) => k = i
  BY <1>1 DEF RegistryInv, ExitsAreOfRegisteredWorkers
<1>6. /\ IsExitOf(1, w) /\ w \in workers /\ w \notin Alive
      /\ \A i \in 1..Len(mailbox) : IsExitOf(i, w) => i = 1
  BY <1>1, <1>2, <1>4, <1>5 DEF IsExitOf
<1>7. PICK new \in SUBSET Pid :
        /\ workers' = (workers \ {w}) \cup new
        /\ Alive' = Alive \cup new
        /\ new \cap workers = {} /\ new \cap Alive = {}
        /\ Cardinality((workers \ {w}) \cup new) <= Size
  <2>1. MaybeRestartWorker(workers \ {w})
    BY <1>2 DEF HandleWorkerExit
  <2>2. CASE Cardinality(workers \ {w}) < Size
    <3>1. PICK v \in Fresh : Start({v}) /\ workers' = (workers \ {w}) \cup {v}
      BY <2>1, <2>2 DEF MaybeRestartWorker
    <3>2. v \in Pid /\ v \notin Alive /\ v \notin workers
      BY DEF Fresh
    <3>3. Alive' = Alive \cup {v}
      BY <3>1, <3>2 DEF Start, Alive, TypeOK
    <3>4. Cardinality((workers \ {w}) \cup {v}) <= Size
      <4>1. /\ Cardinality(workers \ {w}) \in Nat
            /\ Cardinality((workers \ {w}) \cup {v}) \in Nat
            /\ Cardinality((workers \ {w}) \cup {v}) <= Cardinality(workers \ {w}) + 1
        BY <3>2, WorkerCount
      <4>2. Size \in Nat
        OBVIOUS
      <4> QED BY <2>2, <4>1, <4>2
    <3> QED BY <3>1, <3>2, <3>3, <3>4
  <2>3. CASE ~(Cardinality(workers \ {w}) < Size)
    <3>1. workers' = workers \ {w} /\ wstate' = wstate
      BY <2>1, <2>3 DEF MaybeRestartWorker
    <3>2. Cardinality(workers \ {w}) <= Size
      <4>1. /\ Cardinality(workers \ {w}) \in Nat /\ Cardinality(workers) \in Nat
            /\ Cardinality(workers \ {w}) <= Cardinality(workers)
        BY WorkerCount
      <4>2. Cardinality(workers) <= Size /\ Size \in Nat
        BY DEF RegistryInv, WorkersBounded
      <4> QED BY <4>1, <4>2
    <3>3. (workers \ {w}) \cup {} = workers \ {w} /\ Alive' = Alive \cup {}
      BY <3>1 DEF Alive
    <3> QED BY <3>1, <3>2, <3>3
  <2> QED BY <2>2, <2>3
<1>8. ExitsAreOfRegisteredWorkers'
  <2>1. ASSUME NEW v \in workers' \ Alive' PROVE \E i \in 1..Len(mailbox') : IsExitOf(i, v)'
    <3>1. v \in workers \ Alive /\ v # w /\ v \in Pid
      BY <1>7, <2>1 DEF TypeOK
    <3>2. PICK i \in 1..Len(mailbox) : IsExitOf(i, v)
      BY <1>5, <3>1
    <3>3. i # 1
      BY <1>6, <3>1, <3>2 DEF IsExitOf
    <3>4. i - 1 \in 1..Len(mailbox') /\ (i - 1) + 1 = i
      BY <1>4, <3>3
    <3> QED BY <1>4, <3>1, <3>2, <3>4
  <2>2. ASSUME NEW i \in 1..Len(mailbox'), NEW v \in Pid, IsExitOf(i, v)'
        PROVE  /\ v \in workers' \ Alive'
               /\ \A k \in 1..Len(mailbox') : IsExitOf(k, v)' => k = i
    <3>1. i + 1 \in 1..Len(mailbox) /\ IsExitOf(i + 1, v)
      BY <1>4, <2>2
    <3>2. v \in workers \ Alive
      BY <1>5, <3>1
    <3>3. v # w
      BY <1>4, <1>6, <3>1
    <3>4. ASSUME NEW k \in 1..Len(mailbox'), IsExitOf(k, v)' PROVE k = i
      <4>1. k + 1 \in 1..Len(mailbox) /\ IsExitOf(k + 1, v)
        BY <1>4, <3>4
      <4>2. k + 1 = i + 1
        BY <1>5, <3>1, <4>1
      <4> QED BY <4>2, <1>4
    <3> QED BY <1>7, <3>2, <3>3, <3>4
  <2> QED BY <2>1, <2>2 DEF ExitsAreOfRegisteredWorkers
<1>9. \A i \in 1..Len(mailbox') : mailbox'[i].type # "start_workers"
  BY <1>1, <1>4, <1>6 DEF RegistryInv
<1> QED BY <1>1, <1>6, <1>7, <1>8, <1>9 DEF RegistryInv, WorkersBounded

\* RegistryInv is inductive.
LEMMA RegistryInductive ==
    ASSUME TypeOK, RegistryInv, [Next]_vars
    PROVE  RegistryInv'
<1> USE ConstantsAssumption
<1>1. ASSUME NEW j \in Job, SubmitTask(j) PROVE RegistryInv'
  <2>1. SubmitMsg(j) \in Message /\ SubmitMsg(j).type \notin {"EXIT", "start_workers"}
    BY DEF SubmitMsg, Message
  <2> QED BY <1>1, <2>1, RegistryAppend DEF SubmitTask, workerVars, Alive
<1>2. ASSUME mailbox' = mailbox, UNCHANGED <<pool, workers, orphans>>, Alive' = Alive
      PROVE  RegistryInv'
  BY <1>2, PlainMessages, RegistryAppend
<1>3. CASE HandleStartWorkers
  <2>1. /\ pool = "up" /\ pool' = "up" /\ orphans' = orphans
        /\ mailbox \in Seq(Message) /\ mailbox # <<>>
        /\ Head(mailbox).type = "start_workers" /\ Head(mailbox) = mailbox[1]
        /\ Len(mailbox) \in Nat \ {0}
        /\ mailbox' = Tail(mailbox) \o <<>>
    BY <1>3, HeadTailProperties, EmptySeq, LenProperties, ConcatEmptySeq
    DEF HandleStartWorkers, Receives, TypeOK
  <2>2. workers = {} /\ \A i \in 1..Len(mailbox) : mailbox[i].type = "start_workers" => i = 1
    BY <2>1 DEF RegistryInv
  <2>3. \A i \in 1..Len(mailbox), w \in Pid : ~IsExitOf(i, w)
    BY <2>1, <2>2 DEF RegistryInv, ExitsAreOfRegisteredWorkers
  <2>4. /\ \A i \in 1..Len(mailbox'), w \in Pid : ~IsExitOf(i, w)'
        /\ \A i \in 1..Len(mailbox') : mailbox'[i].type # "start_workers"
    <3> DEFINE none == <<>>
    <3>1. none \in Seq(Message) /\ \A i \in 1..Len(none) : FALSE
      OBVIOUS
    <3>2. mailbox' = Tail(mailbox) \o none
      BY <2>1
    <3> HIDE DEF none
    <3>3. /\ \A i \in 1..Len(mailbox'), w \in Pid :
               IsExitOf(i, w)' <=> i + 1 \in 1..Len(mailbox) /\ IsExitOf(i + 1, w)
          /\ \A i \in 1..Len(mailbox') : mailbox'[i].type = "start_workers" =>
               i + 1 \in 1..Len(mailbox) /\ mailbox[i + 1].type = "start_workers"
          /\ Len(mailbox') \in Nat
      BY <2>1, <3>1, <3>2, TailShifts
    <3> QED BY <2>2, <2>3, <3>3
  <2>5. PICK new \in SUBSET Fresh : /\ Cardinality(new) = Size
                                    /\ Start(new) /\ workers' = workers \cup new
    BY <1>3 DEF HandleStartWorkers
  <2>6. new \in SUBSET Pid /\ new \cap Alive = {}
    BY DEF Fresh
  <2>7. Alive' = Alive \cup new
    BY <2>5, <2>6 DEF Start, Alive, TypeOK
  <2>8. workers' = new /\ WorkersBounded'
    BY <2>2, <2>5 DEF WorkersBounded
  <2>9. ExitsAreOfRegisteredWorkers'
    BY <2>4, <2>7, <2>8 DEF ExitsAreOfRegisteredWorkers
  <2> QED BY <2>1, <2>2, <2>4, <2>6, <2>7, <2>8, <2>9 DEF RegistryInv
<1>4. CASE HandleSubmitTask
  <2>1. mailbox' = Tail(mailbox) \o Telemetry /\ mailbox # <<>> /\ Head(mailbox).type # "EXIT"
    BY <1>4 DEF HandleSubmitTask, Receives
  <2>2. UNCHANGED <<pool, workers, orphans>> /\ Alive' = Alive
    BY <1>4 DEF HandleSubmitTask, Alive
  <2> QED BY <2>1, <2>2, PlainMessages, RegistryConsume
<1>5. ASSUME mailbox # <<>>, Head(mailbox).type # "EXIT", mailbox' = Tail(mailbox),
             UNCHANGED <<workers, orphans>>, Alive' = Alive,
             pool' = pool \/ pool' = "terminating"
      PROVE  RegistryInv'
  <2> DEFINE none == <<>>
  <2>1. none \in Seq(Message) /\ \A i \in 1..Len(none) : FALSE
    OBVIOUS
  <2>2. mailbox' = Tail(mailbox) \o none
    BY <1>5, ConcatEmptySeq, HeadTailProperties DEF TypeOK
  <2> HIDE DEF none
  <2> QED BY <1>5, <2>1, <2>2, RegistryConsume
<1>6. CASE RejectTask
  BY <1>5, <1>6 DEF RejectTask, Receives, workerVars, Alive
<1>7. CASE HandleWorkerExit
  BY <1>7, RegistryExitHandled
<1>8. CASE LastWorkerExit
  <2>1. /\ pool = "up" /\ mailbox \in Seq(Message) /\ mailbox # <<>>
        /\ Head(mailbox) \in Message /\ Len(mailbox) \in Nat \ {0}
        /\ Head(mailbox).type = "EXIT" /\ Head(mailbox) = mailbox[1]
    BY <1>8, HeadTailProperties, EmptySeq, LenProperties DEF LastWorkerExit, Receives, TypeOK
  <2>2. PICK w \in Pid : w = Head(mailbox).pid
    BY <2>1 DEF Message
  <2>3. w \notin Alive
    BY <2>1, <2>2 DEF RegistryInv, ExitsAreOfRegisteredWorkers, IsExitOf
  <2>4. /\ workers \subseteq {w} /\ workers' = {} /\ pool' = "terminating"
        /\ orphans' = orphans /\ Alive' = Alive
    BY <1>8, <2>2 DEF LastWorkerExit, Terminate, Alive
  <2>5. WorkersBounded'
    BY <2>4, FS_EmptySet DEF WorkersBounded
  <2> QED BY <2>3, <2>4, <2>5 DEF RegistryInv, ExitsAreOfRegisteredWorkers
<1>9. CASE HandleTaskComplete \/ HandleTelemetryEvent
  BY <1>5, <1>9
  DEF HandleTaskComplete, HandleTelemetryEvent, NoClause, Receives, Terminate, Alive
<1>10. CASE WaitForWorkers
  BY <1>10 DEF RegistryInv, ExitsAreOfRegisteredWorkers, WorkersBounded, WaitForWorkers,
               workerVars, Alive
<1>11. CASE AllWorkersStopped \/ ShutdownTimeout
  <2>1. PoolExits
    BY <1>11 DEF AllWorkersStopped, ShutdownTimeout
  <2>2. /\ pool' = "down" /\ workers' = {} /\ Alive' = Alive
        /\ orphans' = orphans \cup (workers \cap Alive)
    BY <2>1 DEF PoolExits, Alive
  <2>3. WorkersBounded'
    BY <2>2, FS_EmptySet DEF WorkersBounded
  <2> QED BY <2>2, <2>3 DEF RegistryInv, ExitsAreOfRegisteredWorkers
<1>12. CASE RestartPool
  <2>1. /\ pool = "down" /\ pool' = "up" /\ workers' = workers /\ workers = {}
        /\ orphans' = orphans /\ Alive' = Alive
    BY <1>12 DEF RestartPool, RegistryInv, workerVars, Alive
  <2>2. Len(mailbox') = 1 /\ mailbox'[1] = StartWorkersMsg
    BY <1>12 DEF RestartPool
  <2>3. ExitsAreOfRegisteredWorkers'
    BY <2>1, <2>2 DEF ExitsAreOfRegisteredWorkers, IsExitOf, StartWorkersMsg
  <2> QED BY <2>1, <2>2, <2>3 DEF RegistryInv, WorkersBounded
<1>13. ASSUME NEW w \in Pid, RunTask(w) \/ MarkBlock(w) PROVE RegistryInv'
  <2>1. mailbox' = mailbox /\ UNCHANGED <<pool, workers, orphans>>
    BY <1>13 DEF RunTask, MarkBlock, poolVars
  <2>2. Alive' = Alive
    BY <1>13 DEF RunTask, WorkerReceives, MarkBlock, Alive, TypeOK
  <2> QED BY <1>2, <2>1, <2>2
<1>14. ASSUME NEW w \in Pid, NotifyPool(w) PROVE RegistryInv'
  <2>1. CompleteMsg(w) \in Message /\ CompleteMsg(w).type \notin {"EXIT", "start_workers"}
    BY DEF CompleteMsg, Message
  <2>2. mailbox' = Append(mailbox, CompleteMsg(w)) \/ mailbox' = mailbox
    BY <1>14 DEF NotifyPool, SendPool
  <2>3. UNCHANGED <<pool, workers, orphans>> /\ Alive' = Alive
    BY <1>14 DEF NotifyPool, Alive, TypeOK
  <2> QED BY <2>1, <2>2, <2>3, RegistryAppend
<1>15. ASSUME NEW w \in Pid, MarkRaises(w) \/ WorkerStops(w) PROVE RegistryInv'
  <2>1. w \in Alive /\ WorkerDies(w, "abnormal") /\ UNCHANGED <<pool, workers>>
    BY <1>15 DEF MarkRaises, WorkerStops, WorkerReceives, Alive
  <2> QED BY <2>1, RegistryWorkerDies
<1>16. ASSUME NEW w \in Pid, NEW r \in {"normal", "abnormal"}, WorkerExits(w, r)
       PROVE  RegistryInv'
  BY <1>16, RegistryWorkerDies DEF WorkerExits
<1>17. CASE UNCHANGED vars
  BY <1>2, <1>17 DEF vars, poolVars, workerVars, Alive
<1>18. ASSUME NEW j \in Job, CallTimeout(j) PROVE RegistryInv'
  BY <1>2, <1>18 DEF CallTimeout, poolVars, workerVars, Alive
<1>19. CASE SubscribeToEvents
  BY <1>2, <1>19 DEF SubscribeToEvents, poolVars, workerVars, Alive
<1> QED
  BY <1>1, <1>3, <1>4, <1>6, <1>7, <1>8, <1>9, <1>10, <1>11, <1>12, <1>13, <1>14, <1>15,
     <1>16, <1>17, <1>18, <1>19
  DEF Next, CallerStep, PoolStep, WorkerStep

\* RegistryInv holds in every reachable state.
LEMMA RegistryInvariant == Spec => []RegistryInv
<1>1. Init => RegistryInv
  <2> SUFFICES ASSUME Init PROVE RegistryInv
    OBVIOUS
  <2>1. /\ Alive = {} /\ workers = {} /\ orphans = {} /\ pool = "up"
        /\ Len(mailbox) = 1 /\ mailbox[1] = StartWorkersMsg
    BY DEF Init, Alive
  <2>2. ExitsAreOfRegisteredWorkers
    BY <2>1 DEF ExitsAreOfRegisteredWorkers, IsExitOf, StartWorkersMsg
  <2>3. WorkersBounded
    BY <2>1, FS_EmptySet, ConstantsAssumption DEF WorkersBounded
  <2> QED BY <2>1, <2>2, <2>3 DEF RegistryInv
<1>2. TypeOK /\ RegistryInv /\ [Next]_vars => RegistryInv'
  BY RegistryInductive
<1> QED BY <1>1, <1>2, TypeCorrect, PTL DEF Spec

\* Theorem: for every pool size, number of callers and order of crashes, the
\* exits in the mailbox of a serving pool are exactly those of its registered
\* dead workers, so handle_worker_exit never demonitors a pid it does not know.
THEOREM ExitsMatchRegistry == Spec => []ExitsAreOfRegisteredWorkers
<1>1. RegistryInv => ExitsAreOfRegisteredWorkers
  BY DEF RegistryInv
<1> QED BY <1>1, RegistryInvariant, PTL

\* Theorem: the pool never registers more than Size workers.
THEOREM PoolSizeRespected == Spec => []WorkersBounded
<1>1. RegistryInv => WorkersBounded
  BY DEF RegistryInv
<1> QED BY <1>1, RegistryInvariant, PTL

(***************************************************************************)
(* Where tasks are: the queue, the processing map, the workers' hands.     *)
(***************************************************************************)

\* The tasks in a worker's mailbox, and that there is at most one.
TasksIn(s) == {s[i].task : i \in {k \in 1..Len(s) : s[k].type = "process_task"}}
OneTask(s) == \A i, k \in 1..Len(s) :
                  s[i].type = "process_task" /\ s[k].type = "process_task" => i = k

Inboxed(w) == TasksIn(inbox[w])

\* A dead process has nothing, an idle one no task in its hands, and a worker that
\* handles a task has no other one waiting.
HandsInv ==
    \A w \in Pid :
        /\ wstate[w] = "dead" => inbox[w] = <<>>
        /\ wstate[w] \in {"dead", "idle"} => cur[w] = NoTask
        /\ OneTask(inbox[w])
        /\ cur[w] # NoTask => Inboxed(w) = {}

\* The pool's mailbox has the request of job j at position i.
IsRequest(i, j) == mailbox[i].type = "submit_task" /\ mailbox[i].job = j
Requested(j) == \E i \in 1..Len(mailbox) : IsRequest(i, j)

\* There is one request per call, and until it is served nobody has seen its job.
OneRequest == \A j \in Job : \A i, k \in 1..Len(mailbox) :
                  IsRequest(i, j) /\ IsRequest(k, j) => i = k
RequestInv ==
    /\ OneRequest
    /\ \A j \in Job : Requested(j) => calls[j] # "new"
    /\ \A j \in Job : calls[j] = "new" \/ Requested(j) =>
          /\ j \notin accepted /\ j \notin notified /\ runs[j] = 0
          /\ \A w \in Pid : \A t \in Holds(w) : t.job # j

\* No job is twice in the queue.
Distinct(q) == \A i, k \in 1..Len(q) : q[i].job = q[k].job => i = k

\* A registered worker holds at most the task the pool assigned to it, an orphan
\* only jobs that this pool process has not accepted; and every accepted job is in
\* one place.
PlaceInv ==
    /\ \A w \in Pid : processing[w] # NoTask => w \in workers
    /\ \A w \in workers : Holds(w) \subseteq {processing[w]}
    /\ \A w \in orphans : \A t \in Holds(w) : t.job \notin accepted
    /\ OneRunner
    /\ Distinct(tasks)
    /\ \A v, w \in Pid :
          processing[v] # NoTask /\ processing[w] # NoTask
            /\ processing[v].job = processing[w].job => v = w
    /\ Queued \cap InProgress = {}
    /\ Queued \subseteq accepted /\ InProgress \subseteq accepted /\ dropped \subseteq accepted
    /\ pool # "terminating" => accepted \ dropped = Queued \cup InProgress

\* The attempt number of a task that waits counts the run to come; one that may
\* have run counts that run.
CountInv ==
    /\ AttemptsBounded
    /\ \A w \in Pid : processing[w] # NoTask =>
          runs[processing[w].job] <= processing[w].attempt
    /\ \A w \in Pid : \A t \in Inboxed(w) : runs[t.job] < t.attempt

\* Worker w's {:task_complete, w, _} is in the pool's mailbox, ahead of its exit.
Announced(w) ==
    \E i \in 1..Len(mailbox) :
        /\ mailbox[i].type = "task_complete" /\ mailbox[i].pid = w
        /\ \A k \in 1..Len(mailbox) : IsExitOf(k, w) => i < k

\* A finished job waits nowhere to be run, and if it is still in the processing map
\* the message that ends the pool comes before the exit that would retry it.
DoneInv ==
    /\ Queued \cap notified = {}
    /\ \A w \in Pid : \A t \in Inboxed(w) : t.job \notin notified
    /\ pool = "up" => \A w \in Pid :
          processing[w] # NoTask /\ processing[w].job \in notified => Announced(w)

TaskInv == HandsInv /\ RequestInv /\ PlaceInv /\ CountInv /\ DoneInv

(* Facts about the sequences. *)

\* An empty mailbox holds no task.
LEMMA TasksInEmpty == TasksIn(<<>>) = {} /\ OneTask(<<>>)
BY DEF TasksIn, OneTask

\* What a mailbox holds are tasks.
LEMMA TasksInType ==
    ASSUME NEW s \in Seq(WorkerMessage)
    PROVE  TasksIn(s) \subseteq Task
<1> SUFFICES ASSUME NEW i \in 1..Len(s), s[i].type = "process_task"
             PROVE  s[i].task \in Task
  BY DEF TasksIn
<1>1. s[i] \in WorkerMessage
  OBVIOUS
<1> QED BY <1>1 DEF WorkerMessage

\* A message that is no task changes nothing; a task for a worker that has none is
\* the only one.
LEMMA TasksInAppend ==
    ASSUME NEW s \in Seq(WorkerMessage), NEW m \in WorkerMessage
    PROVE  /\ m.type # "process_task" =>
                 TasksIn(Append(s, m)) = TasksIn(s) /\ (OneTask(s) => OneTask(Append(s, m)))
           /\ m.type = "process_task" /\ TasksIn(s) = {} =>
                 TasksIn(Append(s, m)) = {m.task} /\ OneTask(Append(s, m))
<1> DEFINE z == Append(s, m)
<1>1. /\ Len(z) = Len(s) + 1 /\ Len(s) \in Nat /\ z[Len(s) + 1] = m
      /\ \A i \in 1..Len(s) : z[i] = s[i]
  BY AppendProperties
<1> HIDE DEF z
<1>2. ASSUME m.type # "process_task" PROVE TasksIn(z) = TasksIn(s)
  <2>1. {k \in 1..Len(z) : z[k].type = "process_task"} = {k \in 1..Len(s) : s[k].type = "process_task"}
    BY <1>1, <1>2
  <2>2. ASSUME NEW i \in {k \in 1..Len(s) : s[k].type = "process_task"} PROVE z[i].task = s[i].task
    BY <1>1
  <2> QED BY <2>1, <2>2 DEF TasksIn
<1>3. ASSUME m.type # "process_task", OneTask(s) PROVE OneTask(z)
  BY <1>1, <1>3 DEF OneTask
<1>4. ASSUME m.type = "process_task", TasksIn(s) = {} PROVE TasksIn(z) = {m.task} /\ OneTask(z)
  <2>1. \A k \in 1..Len(s) : s[k].type # "process_task"
    BY <1>4 DEF TasksIn
  <2>2. {k \in 1..Len(z) : z[k].type = "process_task"} = {Len(s) + 1}
    BY <1>1, <1>4, <2>1
  <2> QED BY <1>1, <2>1, <2>2 DEF TasksIn, OneTask
<1> QED BY <1>2, <1>3, <1>4 DEF z

\* Consuming the only task leaves none.
LEMMA TasksInRun ==
    ASSUME NEW s \in Seq(WorkerMessage), s # <<>>, Head(s).type = "process_task", OneTask(s)
    PROVE  /\ TasksIn(s) = {Head(s).task}
           /\ TasksIn(Tail(s) \o Telemetry) = {} /\ OneTask(Tail(s) \o Telemetry)
<1> DEFINE z == Tail(s) \o Telemetry
<1>1. /\ Len(s) \in Nat \ {0} /\ s[1] = Head(s)
      /\ Tail(s) \in Seq(WorkerMessage) /\ Len(Tail(s)) = Len(s) - 1
      /\ \A i \in 1..Len(Tail(s)) : Tail(s)[i] = s[i + 1]
  BY HeadTailProperties, EmptySeq, LenProperties
<1>2. Telemetry \in Seq(WorkerMessage) /\ \A i \in 1..Len(Telemetry) : Telemetry[i].type # "process_task"
  BY TelemetryType DEF Telemetry, TelemetryMsg
<1>3. \A i \in 1..Len(s) : s[i].type = "process_task" => i = 1
  BY <1>1 DEF OneTask
<1>4. \A i \in 1..Len(Tail(s)) : Tail(s)[i].type # "process_task"
  BY <1>1, <1>3
<1>5. \A i \in 1..Len(z) : z[i].type # "process_task"
  <2>1. /\ Len(z) = Len(Tail(s)) + Len(Telemetry) /\ Len(Telemetry) \in Nat
        /\ \A i \in 1..Len(z) : z[i] =
             IF i <= Len(Tail(s)) THEN Tail(s)[i] ELSE Telemetry[i - Len(Tail(s))]
    BY <1>1, <1>2, ConcatProperties
  <2> QED BY <1>1, <1>2, <1>4, <2>1
<1>6. {k \in 1..Len(s) : s[k].type = "process_task"} = {1}
  BY <1>1, <1>3
<1> HIDE DEF z
<1>7. TasksIn(z) = {} /\ OneTask(z)
  BY <1>5 DEF TasksIn, OneTask
<1>8. TasksIn(s) = {Head(s).task}
  BY <1>1, <1>6 DEF TasksIn
<1> QED BY <1>7, <1>8 DEF z

\* The jobs of a queue, and the queue a task is put in or taken from.
Jobs(q) == {q[i].job : i \in 1..Len(q)}

\* A task of a new job put at the back keeps the jobs distinct and adds that job.
LEMMA JobsAppend ==
    ASSUME NEW q \in Seq(Task), NEW t \in Task, Distinct(q), t.job \notin Jobs(q)
    PROVE  /\ Append(q, t) \in Seq(Task) /\ Append(q, t) # <<>>
           /\ Jobs(Append(q, t)) = Jobs(q) \cup {t.job}
           /\ Distinct(Append(q, t))
           /\ \A i \in 1..Len(Append(q, t)) :
                 Append(q, t)[i] = t \/ \E k \in 1..Len(q) : Append(q, t)[i] = q[k]
<1> DEFINE z == Append(q, t)
<1>1. /\ Len(z) = Len(q) + 1 /\ Len(q) \in Nat /\ z[Len(q) + 1] = t
      /\ \A i \in 1..Len(q) : z[i] = q[i]
  BY AppendProperties
<1>2. z \in Seq(Task) /\ z # <<>>
  BY AppendProperties
<1> HIDE DEF z
<1>3. Jobs(z) = Jobs(q) \cup {t.job}
  <2>1. ASSUME NEW i \in 1..Len(z) PROVE z[i].job \in Jobs(q) \cup {t.job}
    BY <1>1 DEF Jobs
  <2>2. ASSUME NEW i \in 1..Len(q) PROVE q[i].job \in Jobs(z)
    BY <1>1 DEF Jobs
  <2>3. t.job \in Jobs(z)
    BY <1>1 DEF Jobs
  <2> QED BY <2>1, <2>2, <2>3 DEF Jobs
<1>4. Distinct(z)
  BY <1>1 DEF Distinct, Jobs
<1>5. \A i \in 1..Len(z) : z[i] = t \/ \E k \in 1..Len(q) : z[i] = q[k]
  BY <1>1
<1> QED BY <1>2, <1>3, <1>4, <1>5 DEF z

\* Taking the head of a queue of distinct jobs removes that job and no other.
LEMMA JobsTail ==
    ASSUME NEW q \in Seq(Task), q # <<>>, Distinct(q)
    PROVE  /\ Head(q) \in Task /\ Tail(q) \in Seq(Task)
           /\ \E k \in 1..Len(q) : Head(q) = q[k]
           /\ Head(q).job \in Jobs(q)
           /\ Jobs(Tail(q)) = Jobs(q) \ {Head(q).job}
           /\ Distinct(Tail(q))
           /\ \A i \in 1..Len(Tail(q)) : \E k \in 1..Len(q) : Tail(q)[i] = q[k]
<1> DEFINE z == Tail(q)
<1>1. /\ Len(q) \in Nat \ {0} /\ q[1] = Head(q)
      /\ z \in Seq(Task) /\ Len(z) = Len(q) - 1
      /\ \A i \in 1..Len(z) : z[i] = q[i + 1]
  BY HeadTailProperties, EmptySeq, LenProperties
<1>2. Head(q) \in Task
  BY HeadTailProperties
<1> HIDE DEF z
<1>3. Jobs(z) = Jobs(q) \ {Head(q).job}
  <2>1. ASSUME NEW i \in 1..Len(z) PROVE z[i].job \in Jobs(q) /\ z[i].job # Head(q).job
    BY <1>1 DEF Jobs, Distinct
  <2>2. ASSUME NEW i \in 1..Len(q), q[i].job # Head(q).job PROVE q[i].job \in Jobs(z)
    <3>1. i # 1 /\ i - 1 \in 1..Len(z)
      BY <1>1, <2>2
    <3>2. z[i - 1] = q[i]
      BY <1>1, <3>1
    <3> QED BY <3>1, <3>2 DEF Jobs
  <2> QED BY <2>1, <2>2 DEF Jobs
<1>4. Distinct(z)
  <2> SUFFICES ASSUME NEW i \in 1..Len(z), NEW k \in 1..Len(z), z[i].job = z[k].job PROVE i = k
    BY DEF Distinct
  <2>1. i + 1 \in 1..Len(q) /\ k + 1 \in 1..Len(q) /\ q[i + 1].job = q[k + 1].job
    BY <1>1
  <2> QED BY <1>1, <2>1 DEF Distinct
<1>5. \A i \in 1..Len(z) : \E k \in 1..Len(q) : z[i] = q[k]
  BY <1>1
<1>6. Head(q).job \in Jobs(q)
  BY <1>1 DEF Jobs
<1> QED BY <1>1, <1>2, <1>3, <1>4, <1>5, <1>6 DEF z

\* A queue of distinct jobs is as long as it has jobs.
LEMMA JobsCount ==
    ASSUME NEW q \in Seq(Task), Distinct(q)
    PROVE  Cardinality(Jobs(q)) = Len(q)
<1> DEFINE f == [i \in 1..Len(q) |-> q[i].job]
<1>1. Len(q) \in Nat
  OBVIOUS
<1>2. f \in Bijection(1..Len(q), Jobs(q))
  <2>1. f \in [1..Len(q) -> Jobs(q)] /\ \A j \in Jobs(q) : \E i \in 1..Len(q) : f[i] = j
    BY DEF Jobs
  <2>2. \A i, k \in 1..Len(q) : f[i] = f[k] => i = k
    BY DEF Distinct
  <2> QED BY <2>1, <2>2, Fun_IsBij
<1>3. ExistsBijection(1..Len(q), Jobs(q))
  BY <1>2 DEF ExistsBijection
<1> QED BY <1>1, <1>3, FS_CountingElements

(* What the steps do to the pool's mailbox. *)

\* A step that leaves the mailbox alone keeps its requests and announcements.
LEMMA MailSame ==
    ASSUME mailbox' = mailbox
    PROVE  /\ \A j : Requested(j)' <=> Requested(j)
           /\ OneRequest => OneRequest'
           /\ \A w : Announced(w) => Announced(w)'
BY DEF Requested, OneRequest, Announced, IsRequest, IsExitOf

\* A message at the back adds at most its own request; a task_complete is an
\* announcement if the worker's exit is not in the mailbox yet.
LEMMA MailAppend ==
    ASSUME TypeOK, NEW m \in Message, mailbox' = Append(mailbox, m)
    PROVE  /\ \A j : Requested(j)' <=> Requested(j) \/ (m.type = "submit_task" /\ m.job = j)
           /\ OneRequest /\ (m.type = "submit_task" => ~Requested(m.job)) => OneRequest'
           /\ \A w : Announced(w) => Announced(w)'
           /\ \A w : /\ m.type = "task_complete" /\ m.pid = w
                     /\ \A k \in 1..Len(mailbox) : ~IsExitOf(k, w)
                     => Announced(w)'
<1>1. /\ Len(mailbox') = Len(mailbox) + 1 /\ Len(mailbox) \in Nat
      /\ \A i \in 1..Len(mailbox) : mailbox'[i] = mailbox[i]
      /\ mailbox'[Len(mailbox) + 1] = m
  BY AppendProperties DEF TypeOK
<1>2. /\ \A i \in 1..Len(mailbox') : \A j : IsRequest(i, j)' <=>
            \/ i \in 1..Len(mailbox) /\ IsRequest(i, j)
            \/ i = Len(mailbox) + 1 /\ m.type = "submit_task" /\ m.job = j
      /\ \A i \in 1..Len(mailbox') : \A w : IsExitOf(i, w)' <=>
            \/ i \in 1..Len(mailbox) /\ IsExitOf(i, w)
            \/ i = Len(mailbox) + 1 /\ m.type = "EXIT" /\ m.pid = w
  BY <1>1 DEF IsRequest, IsExitOf
<1>3. \A j : Requested(j)' <=> Requested(j) \/ (m.type = "submit_task" /\ m.job = j)
  BY <1>1, <1>2 DEF Requested
<1>4. ASSUME OneRequest, m.type = "submit_task" => ~Requested(m.job) PROVE OneRequest'
  BY <1>1, <1>2, <1>4 DEF OneRequest, Requested
<1>5. ASSUME NEW w, Announced(w) PROVE Announced(w)'
  BY <1>1, <1>2, <1>5 DEF Announced
<1>6. ASSUME NEW w, m.type = "task_complete", m.pid = w,
             \A k \in 1..Len(mailbox) : ~IsExitOf(k, w)
      PROVE  Announced(w)'
  BY <1>1, <1>2, <1>6 DEF Announced
<1> QED BY <1>3, <1>4, <1>5, <1>6

\* A handler takes the first message and may find an event of its own at the end.
Consumed == mailbox # <<>> /\ mailbox' \in {Tail(mailbox), Tail(mailbox) \o Telemetry}

\* Taking the first message can only remove its request or its announcement.
LEMMA MailConsume ==
    ASSUME TypeOK, Consumed
    PROVE  /\ \A j : Requested(j)' => Requested(j)
           /\ OneRequest => OneRequest'
           /\ \A j \in Job : OneRequest /\ Head(mailbox).type = "submit_task" /\ Head(mailbox).job = j
                => Requested(j) /\ ~Requested(j)'
           /\ \A w : Announced(w) /\ ~(Head(mailbox).type = "task_complete" /\ Head(mailbox).pid = w)
                => Announced(w)'
           /\ \A w : Announced(w) => ~(Head(mailbox).type = "EXIT" /\ Head(mailbox).pid = w)
<1>1. /\ mailbox \in Seq(Message) /\ Len(mailbox) \in Nat \ {0} /\ mailbox[1] = Head(mailbox)
      /\ Tail(mailbox) \in Seq(Message) /\ Len(Tail(mailbox)) = Len(mailbox) - 1
      /\ \A i \in 1..Len(Tail(mailbox)) : Tail(mailbox)[i] = mailbox[i + 1]
  BY HeadTailProperties, EmptySeq, LenProperties DEF TypeOK, Consumed
<1>2. /\ Len(mailbox') \in Nat /\ Len(mailbox') >= Len(mailbox) - 1
      /\ \A i \in 1..Len(mailbox') :
            IF i + 1 \in 1..Len(mailbox)
              THEN mailbox'[i] = mailbox[i + 1]
              ELSE mailbox'[i].type = "telemetry_event"
  <2>1. CASE mailbox' = Tail(mailbox)
    BY <1>1, <2>1
  <2>2. CASE mailbox' = Tail(mailbox) \o Telemetry
    <3>1. /\ Telemetry \in Seq(Message)
          /\ \A i \in 1..Len(Telemetry) : Telemetry[i].type = "telemetry_event"
      BY TelemetryType DEF Telemetry, TelemetryMsg
    <3>2. /\ Len(mailbox') = Len(Tail(mailbox)) + Len(Telemetry) /\ Len(Telemetry) \in Nat
          /\ \A i \in 1..Len(mailbox') : mailbox'[i] =
               IF i <= Len(Tail(mailbox)) THEN Tail(mailbox)[i] ELSE Telemetry[i - Len(Tail(mailbox))]
      BY <1>1, <2>2, <3>1, ConcatProperties
    <3> QED BY <1>1, <3>1, <3>2
  <2> QED BY <2>1, <2>2 DEF Consumed
<1>3. /\ \A i \in 1..Len(mailbox') : \A j :
            IsRequest(i, j)' <=> i + 1 \in 1..Len(mailbox) /\ IsRequest(i + 1, j)
      /\ \A i \in 1..Len(mailbox') : \A w :
            IsExitOf(i, w)' <=> i + 1 \in 1..Len(mailbox) /\ IsExitOf(i + 1, w)
  BY <1>2 DEF IsRequest, IsExitOf
<1>4. ASSUME NEW j, Requested(j)' PROVE Requested(j)
  BY <1>3, <1>4 DEF Requested
<1>5. ASSUME OneRequest PROVE OneRequest'
  <2> SUFFICES ASSUME NEW j \in Job, NEW i \in 1..Len(mailbox'), NEW k \in 1..Len(mailbox'),
                      IsRequest(i, j)', IsRequest(k, j)'
               PROVE  i = k
    BY DEF OneRequest
  <2>1. i + 1 = k + 1
    BY <1>3, <1>5 DEF OneRequest
  <2> QED BY <1>2, <2>1
<1>6. ASSUME NEW j \in Job, OneRequest, Head(mailbox).type = "submit_task", Head(mailbox).job = j
      PROVE  Requested(j) /\ ~Requested(j)'
  <2>1. 1 \in 1..Len(mailbox) /\ IsRequest(1, j)
    BY <1>1, <1>6 DEF IsRequest
  <2>2. ASSUME NEW i \in 1..Len(mailbox'), IsRequest(i, j)' PROVE FALSE
    <3>1. i + 1 = 1
      BY <1>3, <1>6, <2>1, <2>2 DEF OneRequest
    <3> QED BY <1>2, <3>1
  <2> QED BY <2>1, <2>2 DEF Requested
<1>7. ASSUME NEW w, Announced(w),
             ~(Head(mailbox).type = "task_complete" /\ Head(mailbox).pid = w)
      PROVE  Announced(w)'
  <2>1. PICK i \in 1..Len(mailbox) :
          /\ mailbox[i].type = "task_complete" /\ mailbox[i].pid = w
          /\ \A k \in 1..Len(mailbox) : IsExitOf(k, w) => i < k
    BY <1>7 DEF Announced
  <2>2. i # 1 /\ i - 1 \in 1..Len(mailbox') /\ (i - 1) + 1 = i
    BY <1>1, <1>2, <1>7, <2>1
  <2>3. mailbox'[i - 1].type = "task_complete" /\ mailbox'[i - 1].pid = w
    BY <1>2, <2>1, <2>2
  <2>4. ASSUME NEW k \in 1..Len(mailbox'), IsExitOf(k, w)' PROVE i - 1 < k
    BY <1>2, <1>3, <2>1, <2>4
  <2> QED BY <2>2, <2>3, <2>4 DEF Announced
<1>8. ASSUME NEW w, Announced(w), Head(mailbox).type = "EXIT", Head(mailbox).pid = w PROVE FALSE
  <2>1. 1 \in 1..Len(mailbox) /\ IsExitOf(1, w)
    BY <1>1, <1>8 DEF IsExitOf
  <2> QED BY <1>8, <2>1 DEF Announced
<1> QED BY <1>4, <1>5, <1>6, <1>7, <1>8

(* What they do to the workers' hands. *)

HandsSame == \A v \in Pid : Holds(v)' = Holds(v) /\ Inboxed(v)' = Inboxed(v)

\* Nobody's hands change except worker w's, who has nothing afterwards.
HandsEmptied(w) ==
    /\ Holds(w)' = {} /\ Inboxed(w)' = {}
    /\ \A v \in Pid \ {w} : Holds(v)' = Holds(v) /\ Inboxed(v)' = Inboxed(v)

\* What a worker holds, now and after the step, in terms of its mailbox's tasks.
LEMMA HoldsIs ==
    \A w : /\ Holds(w) = ({cur[w]} \ {NoTask}) \cup Inboxed(w)
           /\ Holds(w)' = ({cur'[w]} \ {NoTask}) \cup Inboxed(w)'
BY DEF Holds, Inboxed, TasksIn

\* Workers hold tasks.
LEMMA HoldsType ==
    ASSUME TypeOK, NEW w \in Pid
    PROVE  Holds(w) \subseteq Task /\ Inboxed(w) \subseteq Task /\ Inboxed(w) \subseteq Holds(w)
<1>1. Inboxed(w) \subseteq Task
  BY TasksInType DEF Inboxed, TypeOK
<1> QED BY <1>1, HoldsIs DEF TypeOK

\* A step that leaves the workers alone leaves their hands as they were.
LEMMA HandsUnchanged ==
    ASSUME HandsInv, UNCHANGED <<wstate, inbox, cur>>
    PROVE  HandsInv' /\ HandsSame
BY DEF HandsInv, HandsSame, Holds, Inboxed

\* A started worker held nothing before and holds nothing now.
LEMMA HandsStart ==
    ASSUME TypeOK, HandsInv, NEW new \in SUBSET Pid, new \cap Alive = {}, Start(new)
    PROVE  HandsInv' /\ HandsSame
<1>1. \A v \in new : wstate[v] = "dead" /\ inbox[v] = <<>> /\ cur[v] = NoTask
  BY DEF Alive, HandsInv
<1>2. \A v \in Pid : inbox'[v] = inbox[v] /\ cur'[v] = cur[v]
  BY <1>1 DEF Start
<1>3. \A v \in Pid : wstate'[v] = IF v \in new THEN "idle" ELSE wstate[v]
  BY DEF Start
<1>4. HandsSame
  BY <1>2 DEF HandsSame, Holds, Inboxed
<1> QED BY <1>1, <1>2, <1>3, <1>4 DEF HandsInv, Inboxed

\* An EXIT of the pool to workers that live.
LEMMA HandsParentExit ==
    ASSUME TypeOK, HandsInv, NEW S \in SUBSET Alive, UNCHANGED <<wstate, cur>>,
           inbox' = [w \in Pid |-> IF w \in S THEN Append(inbox[w], ParentExitMsg) ELSE inbox[w]]
    PROVE  HandsInv' /\ HandsSame
<1>1. ParentExitMsg \in WorkerMessage /\ ParentExitMsg.type # "process_task"
  BY DEF ParentExitMsg, WorkerMessage
<1>2. \A w \in Pid : inbox[w] \in Seq(WorkerMessage)
  BY DEF TypeOK
<1>3. \A w \in Pid : Inboxed(w)' = Inboxed(w) /\ (OneTask(inbox[w]) => OneTask(inbox'[w]))
  BY <1>1, <1>2, TasksInAppend DEF Inboxed
<1>4. \A w \in Pid : wstate[w] = "dead" => inbox'[w] = inbox[w]
  BY DEF Alive
<1>5. HandsInv'
  BY <1>3, <1>4 DEF HandsInv
<1>6. \A w \in Pid : Holds(w)' = Holds(w)
  BY <1>3, HoldsIs
<1> QED BY <1>3, <1>5, <1>6 DEF HandsSame

\* A worker that dies loses what it held.
LEMMA HandsDie ==
    ASSUME TypeOK, HandsInv, NEW w \in Pid, NEW r, WorkerDies(w, r)
    PROVE  HandsInv' /\ HandsEmptied(w)
<1>1. /\ wstate'[w] = "dead" /\ inbox'[w] = <<>> /\ cur'[w] = NoTask
      /\ \A v \in Pid \ {w} : wstate'[v] = wstate[v] /\ inbox'[v] = inbox[v] /\ cur'[v] = cur[v]
  BY DEF WorkerDies, TypeOK
<1>2. Inboxed(w)' = {} /\ OneTask(inbox'[w])
  BY <1>1, TasksInEmpty DEF Inboxed
<1>3. Holds(w)' = {}
  BY <1>1, <1>2, HoldsIs
<1>4. \A v \in Pid \ {w} : Inboxed(v)' = Inboxed(v) /\ Holds(v)' = Holds(v)
  BY <1>1 DEF Inboxed, Holds
<1>5. HandsInv'
  BY <1>1, <1>2, <1>4 DEF HandsInv
<1> QED BY <1>2, <1>3, <1>4, <1>5 DEF HandsEmptied

\* A worker that announces completion has nothing left: no other task was waiting.
LEMMA HandsNotify ==
    ASSUME TypeOK, HandsInv, NEW w \in Pid, NotifyPool(w)
    PROVE  HandsInv' /\ HandsEmptied(w)
<1>1. /\ wstate[w] = "marked" /\ wstate'[w] = "idle" /\ inbox'[w] = inbox[w] /\ cur'[w] = NoTask
      /\ \A v \in Pid \ {w} : wstate'[v] = wstate[v] /\ inbox'[v] = inbox[v] /\ cur'[v] = cur[v]
  BY DEF NotifyPool, TypeOK
<1>2. cur[w] # NoTask
  BY <1>1 DEF TypeOK, Task, NoTask
<1>3. Inboxed(w)' = {} /\ OneTask(inbox'[w])
  BY <1>1, <1>2 DEF Inboxed, HandsInv
<1>4. Holds(w)' = {}
  BY <1>1, <1>3, HoldsIs
<1>5. \A v \in Pid \ {w} : Inboxed(v)' = Inboxed(v) /\ Holds(v)' = Holds(v)
  BY <1>1 DEF Inboxed, Holds
<1>6. HandsInv'
  BY <1>1, <1>3, <1>5 DEF HandsInv
<1> QED BY <1>3, <1>4, <1>5, <1>6 DEF HandsEmptied

\* Marking the block moves no task.
LEMMA HandsMark ==
    ASSUME TypeOK, HandsInv, NEW w \in Pid, MarkBlock(w)
    PROVE  HandsInv' /\ HandsSame
<1>1. UNCHANGED <<inbox, cur>> /\ wstate'[w] = "marked" /\ \A v \in Pid \ {w} : wstate'[v] = wstate[v]
  BY DEF MarkBlock, TypeOK
<1> QED BY <1>1 DEF HandsInv, HandsSame, Holds, Inboxed

\* The task moves from the mailbox to the worker's hands.
LEMMA HandsRun ==
    ASSUME TypeOK, HandsInv, NEW w \in Pid, RunTask(w)
    PROVE  /\ HandsInv'
           /\ \E t \in Task :
                 /\ t = Head(inbox[w]).task /\ t \in Inboxed(w)
                 /\ Holds(w) = {t} /\ Holds(w)' = {t}
           /\ Inboxed(w)' = {}
           /\ \A v \in Pid \ {w} : Holds(v)' = Holds(v) /\ Inboxed(v)' = Inboxed(v)
<1> DEFINE t == Head(inbox[w]).task
<1>1. /\ wstate[w] = "idle" /\ inbox[w] \in Seq(WorkerMessage) /\ inbox[w] # <<>>
      /\ Head(inbox[w]).type = "process_task"
      /\ wstate'[w] = "ran" /\ cur'[w] = t /\ inbox'[w] = Tail(inbox[w]) \o Telemetry
      /\ \A v \in Pid \ {w} : wstate'[v] = wstate[v] /\ inbox'[v] = inbox[v] /\ cur'[v] = cur[v]
  BY DEF RunTask, WorkerReceives, TypeOK
<1>2. OneTask(inbox[w]) /\ cur[w] = NoTask
  BY <1>1 DEF HandsInv
<1>3. TasksIn(inbox[w]) = {t} /\ TasksIn(inbox'[w]) = {} /\ OneTask(inbox'[w])
  BY <1>1, <1>2, TasksInRun
<1>4. t \in Task
  BY <1>1, <1>3, TasksInType
<1> HIDE DEF t
<1>5. t # NoTask
  BY <1>4 DEF Task, NoTask
<1>6. Inboxed(w) = {t} /\ Holds(w) = {t}
  BY <1>2, <1>3, HoldsIs DEF Inboxed
<1>7. Inboxed(w)' = {}
  BY <1>3 DEF Inboxed
<1>8. Holds(w)' = {t}
  BY <1>1, <1>5, <1>7, HoldsIs
<1>9. \A v \in Pid \ {w} : Inboxed(v)' = Inboxed(v) /\ Holds(v)' = Holds(v)
  <2>1. \A v \in Pid \ {w} : Inboxed(v)' = Inboxed(v)
    BY <1>1 DEF Inboxed
  <2> QED BY <1>1, <2>1, HoldsIs
<1>10. HandsInv'
  BY <1>1, <1>3, <1>7, <1>9 DEF HandsInv
<1> QED BY <1>4, <1>6, <1>7, <1>8, <1>9, <1>10 DEF t

\* A task is sent to a worker without one; if it is dead the message is lost.
LEMMA HandsAssign ==
    ASSUME TypeOK, HandsInv, NEW w \in Pid, NEW t \in Task, Holds(w) = {},
           UNCHANGED <<wstate, cur>>,
           inbox' = [inbox EXCEPT ![w] = IF w \in Alive THEN Append(@, ProcessTaskMsg(t)) ELSE @]
    PROVE  /\ HandsInv'
           /\ Holds(w)' \subseteq {t} /\ Inboxed(w)' \subseteq {t}
           /\ \A v \in Pid \ {w} : Holds(v)' = Holds(v) /\ Inboxed(v)' = Inboxed(v)
<1>1. /\ inbox'[w] = IF w \in Alive THEN Append(inbox[w], ProcessTaskMsg(t)) ELSE inbox[w]
      /\ \A v \in Pid \ {w} : inbox'[v] = inbox[v]
      /\ inbox[w] \in Seq(WorkerMessage)
  BY DEF TypeOK
<1>2. Inboxed(w) = {} /\ cur[w] = NoTask
  BY HoldsIs
<1>3. /\ ProcessTaskMsg(t) \in WorkerMessage /\ ProcessTaskMsg(t).type = "process_task"
      /\ ProcessTaskMsg(t).task = t
  BY DEF ProcessTaskMsg, WorkerMessage
<1>4. Inboxed(w)' \subseteq {t} /\ OneTask(inbox'[w])
  <2>1. CASE w \in Alive
    BY <1>1, <1>2, <1>3, <2>1, TasksInAppend DEF Inboxed
  <2>2. CASE w \notin Alive
    BY <1>1, <1>2, <2>2 DEF Inboxed, HandsInv
  <2> QED BY <2>1, <2>2
<1>5. Holds(w)' \subseteq {t}
  BY <1>2, <1>4, HoldsIs
<1>6. \A v \in Pid \ {w} : Inboxed(v)' = Inboxed(v) /\ Holds(v)' = Holds(v)
  BY <1>1 DEF Inboxed, Holds
<1>7. HandsInv'
  BY <1>1, <1>2, <1>4, <1>6 DEF HandsInv, Alive
<1> QED BY <1>4, <1>5, <1>6, <1>7

(* Consequences of the invariant. *)

\* Queued is the set of jobs of the queue, now and after the step.
LEMMA QueuedIs == Queued = Jobs(tasks) /\ Queued' = Jobs(tasks)'
BY DEF Queued, Jobs

\* A dead worker holds no task.
LEMMA DeadHoldsNothing ==
    ASSUME TypeOK, HandsInv, NEW w \in Pid, w \notin Alive
    PROVE  Holds(w) = {}
<1>1. inbox[w] = <<>> /\ cur[w] = NoTask
  BY DEF HandsInv, Alive
<1>2. Inboxed(w) = {}
  BY <1>1, TasksInEmpty DEF Inboxed
<1> QED BY <1>1, <1>2, HoldsIs

\* A task in a worker's hands is not in the queue, and if the pool has its job in
\* the processing map, then as this worker's task.
LEMMA HeldPlace ==
    ASSUME TypeOK, RegistryInv, TaskInv, NEW w \in Pid, NEW t \in Holds(w)
    PROVE  /\ t.job \notin Queued
           /\ \A v \in Pid : processing[v] # NoTask /\ processing[v].job = t.job =>
                 v = w /\ w \in workers /\ processing[w] = t
           /\ \A v \in Pid : \A s \in Holds(v) : s.job = t.job => v = w
           /\ ~Requested(t.job) /\ calls[t.job] # "new"
<1>1. w \in Alive
  BY DeadHoldsNothing DEF TaskInv
<1>2. t \in Task /\ t # NoTask /\ t.job \in Job
  BY HoldsType DEF Task, NoTask
<1>3. \A v \in Pid : processing[v] # NoTask => processing[v].job \in accepted
  BY DEF TaskInv, PlaceInv, InProgress
<1>4. \A v \in Pid : \A s \in Holds(v) : s.job = t.job => v = w
  BY DEF TaskInv, PlaceInv, OneRunner
<1>5. ~Requested(t.job) /\ calls[t.job] # "new"
  BY <1>2 DEF TaskInv, RequestInv
<1>6. CASE w \in workers
  <2>1. processing[w] = t
    BY <1>6 DEF TaskInv, PlaceInv
  <2>2. t.job \in InProgress
    BY <1>2, <2>1 DEF InProgress
  <2> QED BY <1>2, <1>4, <1>5, <1>6, <2>1, <2>2 DEF TaskInv, PlaceInv
<1>7. CASE w \in orphans
  <2>1. t.job \notin accepted
    BY <1>7 DEF TaskInv, PlaceInv
  <2> QED BY <1>3, <1>4, <1>5, <2>1 DEF TaskInv, PlaceInv
<1> QED BY <1>1, <1>6, <1>7 DEF RegistryInv

\* A step that leaves the queue, the processing map and the history alone, and in
\* which tasks can only disappear from hands and requests only from the mailbox.
LEMMA TaskQuietStep ==
    ASSUME TypeOK, RegistryInv, TaskInv, HandsInv',
           \A v \in Pid : Holds(v)' \subseteq Holds(v) /\ Inboxed(v)' \subseteq Inboxed(v),
           UNCHANGED <<tasks, processing, accepted, dropped, runs, notified>>,
           orphans' \subseteq orphans, workers \subseteq workers', workers' \subseteq Pid,
           \A v \in workers' \ workers : Holds(v) = {},
           OneRequest',
           \A j \in Job : Requested(j)' => calls'[j] # "new",
           \A j \in Job : calls'[j] = "new" \/ Requested(j)' => calls[j] = "new" \/ Requested(j),
           pool = "terminating" => pool' = "terminating",
           pool' = "up" => \A v \in Pid : processing[v] # NoTask =>
                              pool = "up" /\ (Announced(v) => Announced(v)')
    PROVE  TaskInv'
<1>1. Queued' = Queued /\ InProgress' = InProgress /\ orphans \subseteq Pid
  BY DEF Queued, InProgress, TypeOK
<1>2. RequestInv'
  <2>1. ASSUME NEW j \in Job, calls'[j] = "new" \/ Requested(j)'
        PROVE  /\ j \notin accepted' /\ j \notin notified' /\ runs'[j] = 0
               /\ \A w \in Pid : \A t \in Holds(w)' : t.job # j
    BY <2>1 DEF TaskInv, RequestInv
  <2> QED BY <2>1 DEF RequestInv
<1>3. PlaceInv'
  <2>1. \A w \in Pid : processing'[w] # NoTask => w \in workers'
    BY DEF TaskInv, PlaceInv
  <2>2. \A w \in workers' : Holds(w)' \subseteq {processing'[w]}
    BY DEF TaskInv, PlaceInv
  <2>3. \A w \in orphans' : \A t \in Holds(w)' : t.job \notin accepted'
    BY <1>1 DEF TaskInv, PlaceInv
  <2>4. OneRunner'
    BY DEF TaskInv, PlaceInv, OneRunner
  <2>5. /\ Distinct(tasks')
        /\ \A v, w \in Pid :
              processing'[v] # NoTask /\ processing'[w] # NoTask
                /\ processing'[v].job = processing'[w].job => v = w
        /\ Queued' \cap InProgress' = {} /\ Queued' \subseteq accepted'
        /\ InProgress' \subseteq accepted' /\ dropped' \subseteq accepted'
        /\ pool' # "terminating" => accepted' \ dropped' = Queued' \cup InProgress'
    BY <1>1 DEF TaskInv, PlaceInv
  <2> QED BY <2>1, <2>2, <2>3, <2>4, <2>5 DEF PlaceInv
<1>4. CountInv'
  BY DEF TaskInv, CountInv, AttemptsBounded
<1>5. DoneInv'
  <2>1. pool' = "up" => \A w \in Pid :
          processing'[w] # NoTask /\ processing'[w].job \in notified' => Announced(w)'
    BY DEF TaskInv, DoneInv
  <2> QED BY <1>1, <2>1 DEF TaskInv, DoneInv
<1> QED BY <1>2, <1>3, <1>4, <1>5 DEF TaskInv

\* The pool process exits: nothing is queued or assigned any more, and whatever its
\* workers still hold is no longer accepted by anybody.
LEMMA TaskPoolExits ==
    ASSUME TypeOK, RegistryInv, TaskInv, PoolExits
    PROVE  TaskInv'
<1>1. HandsInv' /\ HandsSame
  <2>1. workers \cap Alive \in SUBSET Alive /\ UNCHANGED <<wstate, cur>>
    BY DEF PoolExits
  <2> QED BY <2>1, HandsParentExit DEF TaskInv, PoolExits
<1>2. /\ pool' = "down" /\ mailbox' = <<>> /\ workers' = {} /\ tasks' = <<>>
      /\ processing' = [w \in Pid |-> NoTask] /\ accepted' = {} /\ dropped' = {}
      /\ UNCHANGED <<runs, notified>>
      /\ \A j \in Job : calls'[j] = "new" => calls[j] = "new"
  BY DEF PoolExits, workerHist
<1>3. Queued' = {} /\ InProgress' = {} /\ \A j : ~Requested(j)'
  BY <1>2 DEF Queued, InProgress, Requested
<1>4. RequestInv'
  BY <1>1, <1>2, <1>3 DEF TaskInv, RequestInv, OneRequest, HandsSame
<1>5. PlaceInv'
  <2>1. OneRunner'
    BY <1>1 DEF TaskInv, PlaceInv, OneRunner, HandsSame
  <2>2. Distinct(tasks')
    BY <1>2 DEF Distinct
  <2> QED BY <1>2, <1>3, <2>1, <2>2 DEF PlaceInv
<1>6. CountInv'
  BY <1>1, <1>2 DEF TaskInv, CountInv, AttemptsBounded, HandsSame
<1>7. DoneInv'
  BY <1>1, <1>2, <1>3 DEF TaskInv, DoneInv, HandsSame
<1> QED BY <1>1, <1>4, <1>5, <1>6, <1>7 DEF TaskInv

\* The exit of the last worker ends the pool: no task is assigned any more, and the
\* pool no longer promises where accepted tasks are.
LEMMA TaskLastWorkerExit ==
    ASSUME TypeOK, RegistryInv, TaskInv, LastWorkerExit
    PROVE  TaskInv'
<1>1. HandsInv' /\ HandsSame
  <2>1. /\ {} \in SUBSET Alive /\ UNCHANGED <<wstate, cur>>
        /\ inbox' = [w \in Pid |-> IF w \in {} THEN Append(inbox[w], ParentExitMsg) ELSE inbox[w]]
    BY DEF LastWorkerExit, Terminate
  <2> QED BY <2>1, HandsParentExit DEF TaskInv
<1>2. /\ pool' = "terminating" /\ workers' = {} /\ Consumed
      /\ UNCHANGED <<tasks, accepted, dropped, runs, notified, calls, orphans>>
  BY DEF LastWorkerExit, Terminate, Receives, Consumed, poolHist, workerHist
<1>3. \A v \in Pid : processing'[v] = NoTask
  <2> DEFINE w == Head(mailbox).pid
  <2>1. workers \subseteq {w} /\ processing' = [processing EXCEPT ![w] = NoTask]
    BY DEF LastWorkerExit
  <2>2. \A v \in Pid : processing[v] # NoTask => v = w
    BY <2>1 DEF TaskInv, PlaceInv
  <2> QED BY <2>1, <2>2 DEF TypeOK
<1>4. Queued' = Queued /\ InProgress' = {}
  BY <1>2, <1>3 DEF Queued, InProgress
<1>5. RequestInv'
  BY <1>1, <1>2, MailConsume DEF TaskInv, RequestInv, HandsSame
<1>6. PlaceInv'
  <2>1. OneRunner'
    BY <1>1 DEF TaskInv, PlaceInv, OneRunner, HandsSame
  <2>2. \A w \in orphans' : \A t \in Holds(w)' : t.job \notin accepted'
    BY <1>1, <1>2 DEF TaskInv, PlaceInv, HandsSame, TypeOK
  <2> QED BY <1>2, <1>3, <1>4, <2>1, <2>2 DEF TaskInv, PlaceInv
<1>7. CountInv'
  BY <1>1, <1>2, <1>3 DEF TaskInv, CountInv, AttemptsBounded, HandsSame
<1>8. DoneInv'
  BY <1>1, <1>2, <1>3, <1>4 DEF TaskInv, DoneInv, HandsSame
<1> QED BY <1>1, <1>5, <1>6, <1>7, <1>8 DEF TaskInv

\* Running a task takes it from the mailbox into the worker's hands and counts it;
\* it is the only copy of its job.
LEMMA TaskRun ==
    ASSUME TypeOK, RegistryInv, TaskInv, NEW w \in Pid, RunTask(w)
    PROVE  TaskInv'
<1> USE ConstantsAssumption
<1>1. PICK t \in Task :
        /\ t = Head(inbox[w]).task /\ t \in Inboxed(w)
        /\ Holds(w) = {t} /\ Holds(w)' = {t}
  BY HandsRun DEF TaskInv
<1>2. /\ HandsInv' /\ Inboxed(w)' = {}
      /\ \A v \in Pid : Holds(v)' = Holds(v) /\ Inboxed(v)' \subseteq Inboxed(v)
      /\ \A v \in Pid \ {w} : Inboxed(v)' = Inboxed(v)
  BY <1>1, HandsRun DEF TaskInv
<1>3. /\ UNCHANGED <<pool, mailbox, workers, tasks, processing, orphans, calls, accepted,
                     dropped, notified>>
      /\ runs' = [runs EXCEPT ![t.job] = @ + 1]
  BY <1>1 DEF RunTask, poolVars, poolHist
<1>4. /\ t.job \in Job /\ t.attempt \in 1..MaxAttempts
      /\ runs[t.job] \in Nat /\ runs'[t.job] = runs[t.job] + 1
      /\ \A j \in Job : j # t.job => runs'[j] = runs[j]
      /\ \A j \in Job : runs[j] \in Nat /\ runs'[j] \in Nat
  BY <1>3 DEF TypeOK, Task
<1>5. /\ t.job \notin Queued
      /\ \A v \in Pid : processing[v] # NoTask /\ processing[v].job = t.job => processing[v] = t
      /\ \A v \in Pid : \A s \in Holds(v) : s.job = t.job => v = w
      /\ ~Requested(t.job) /\ calls[t.job] # "new"
  BY <1>1, HeldPlace
<1>6. runs[t.job] < t.attempt
  BY <1>1 DEF TaskInv, CountInv
<1>7. Queued' = Queued /\ InProgress' = InProgress
  BY <1>3 DEF Queued, InProgress
<1>8. RequestInv'
  <2>1. OneRequest' /\ \A j : Requested(j)' <=> Requested(j)
    BY <1>3, MailSame DEF TaskInv, RequestInv
  <2> QED BY <1>2, <1>3, <1>4, <1>5, <2>1 DEF TaskInv, RequestInv
<1>9. PlaceInv'
  <2>1. OneRunner'
    BY <1>2 DEF TaskInv, PlaceInv, OneRunner
  <2>2. workers \subseteq Pid /\ orphans \subseteq Pid
    BY DEF TypeOK
  <2>3. /\ \A v \in workers' : Holds(v)' \subseteq {processing'[v]}
        /\ \A v \in orphans' : \A s \in Holds(v)' : s.job \notin accepted'
    BY <1>2, <1>3, <2>2 DEF TaskInv, PlaceInv
  <2> QED BY <1>3, <1>7, <2>1, <2>3 DEF TaskInv, PlaceInv
<1>10. CountInv'
  <2>1. \A j \in Job : runs'[j] <= MaxAttempts
    BY <1>4, <1>6 DEF TaskInv, CountInv, AttemptsBounded
  <2>2. ASSUME NEW i \in 1..Len(tasks') PROVE runs'[tasks'[i].job] < tasks'[i].attempt
    <3>1. tasks[i] \in Task /\ tasks[i].job \in Queued /\ i \in 1..Len(tasks) /\ tasks'[i] = tasks[i]
      BY <1>3, <2>2 DEF TypeOK, Queued
    <3>2. tasks[i].job \in Job /\ tasks[i].job # t.job
      BY <1>5, <3>1 DEF Task
    <3> QED BY <1>4, <3>1, <3>2 DEF TaskInv, CountInv, AttemptsBounded
  <2>3. ASSUME NEW v \in Pid, processing'[v] # NoTask
        PROVE  runs'[processing'[v].job] <= processing'[v].attempt
    <3>1. processing[v] \in Task /\ processing[v].job \in Job /\ processing'[v] = processing[v]
      BY <1>3, <2>3 DEF TypeOK, Task
    <3>2. CASE processing[v].job = t.job
      BY <1>4, <1>5, <1>6, <2>3, <3>1, <3>2
    <3>3. CASE processing[v].job # t.job
      BY <1>4, <2>3, <3>1, <3>3 DEF TaskInv, CountInv
    <3> QED BY <3>2, <3>3
  <2>4. ASSUME NEW v \in Pid, NEW s \in Inboxed(v)' PROVE runs'[s.job] < s.attempt
    <3>1. v # w /\ s \in Inboxed(v) /\ s \in Holds(v) /\ s \in Task
      BY <1>2, <2>4, HoldsType
    <3>2. s.job \in Job /\ s.job # t.job
      BY <1>5, <3>1 DEF Task
    <3> QED BY <1>4, <3>1, <3>2 DEF TaskInv, CountInv
  <2> QED BY <2>1, <2>2, <2>3, <2>4 DEF CountInv, AttemptsBounded
<1>11. DoneInv'
  <2>1. \A v : Announced(v) => Announced(v)'
    BY <1>3, MailSame
  <2> QED BY <1>2, <1>3, <1>7, <2>1 DEF TaskInv, DoneInv
<1> QED BY <1>2, <1>8, <1>9, <1>10, <1>11 DEF TaskInv

\* A worker announces the completion of the job in its hands, which nobody else has;
\* if the pool still serves, the announcement goes ahead of the worker's exit.
LEMMA TaskNotify ==
    ASSUME TypeOK, RegistryInv, TaskInv, NEW w \in Pid, NotifyPool(w)
    PROVE  TaskInv'
<1> DEFINE t == cur[w]
<1>1. HandsInv' /\ HandsEmptied(w)
  BY HandsNotify DEF TaskInv
<1>2. \A v \in Pid : Holds(v)' \subseteq Holds(v) /\ Inboxed(v)' \subseteq Inboxed(v)
  BY <1>1 DEF HandsEmptied
<1>3. /\ UNCHANGED <<pool, workers, tasks, processing, orphans, calls, accepted, dropped, runs>>
      /\ notified' = notified \cup {t.job}
      /\ wstate[w] = "marked"
  BY DEF NotifyPool, poolHist
<1>4. t \in Task /\ t # NoTask /\ t \in Holds(w) /\ t.job \in Job /\ w \in Alive
  BY <1>3, HoldsIs DEF TypeOK, Task, NoTask, Alive
<1> HIDE DEF t
<1>5. /\ t.job \notin Queued
      /\ \A v \in Pid : processing[v] # NoTask /\ processing[v].job = t.job =>
            v = w /\ w \in workers
      /\ \A v \in Pid : \A s \in Holds(v) : s.job = t.job => v = w
      /\ ~Requested(t.job) /\ calls[t.job] # "new"
  BY <1>4, HeldPlace
<1>6. Queued' = Queued /\ InProgress' = InProgress
  BY <1>3 DEF Queued, InProgress
<1>7. CompleteMsg(w) \in Message /\ CompleteMsg(w).type = "task_complete" /\ CompleteMsg(w).pid = w
  BY DEF CompleteMsg, Message
<1>8. mailbox' = mailbox \/ mailbox' = Append(mailbox, CompleteMsg(w))
  BY DEF NotifyPool, SendPool
<1>9. /\ OneRequest' /\ \A j : Requested(j)' <=> Requested(j)
      /\ \A v : Announced(v) => Announced(v)'
  BY <1>7, <1>8, MailSame, MailAppend DEF TaskInv, RequestInv
<1>10. RequestInv'
  BY <1>2, <1>3, <1>5, <1>9 DEF TaskInv, RequestInv
<1>11. PlaceInv'
  <2>1. OneRunner'
    BY <1>2 DEF TaskInv, PlaceInv, OneRunner
  <2>2. workers \subseteq Pid /\ orphans \subseteq Pid
    BY DEF TypeOK
  <2>3. /\ \A v \in workers' : Holds(v)' \subseteq {processing'[v]}
        /\ \A v \in orphans' : \A s \in Holds(v)' : s.job \notin accepted'
    BY <1>2, <1>3, <2>2 DEF TaskInv, PlaceInv
  <2> QED BY <1>3, <1>6, <2>1, <2>3 DEF TaskInv, PlaceInv
<1>12. CountInv'
  BY <1>2, <1>3 DEF TaskInv, CountInv, AttemptsBounded
<1>13. DoneInv'
  <2>1. Queued' \cap notified' = {}
    BY <1>3, <1>5, <1>6 DEF TaskInv, DoneInv
  <2>2. ASSUME NEW v \in Pid, NEW s \in Inboxed(v)' PROVE s.job \notin notified'
    <3>1. v # w /\ s \in Inboxed(v)
      BY <1>1, <1>2, <2>2 DEF HandsEmptied
    <3>2. s \in Holds(v)
      BY <3>1, HoldsType
    <3> QED BY <1>3, <1>5, <3>1, <3>2 DEF TaskInv, DoneInv
  <2>3. ASSUME pool' = "up", NEW v \in Pid, processing'[v] # NoTask, processing'[v].job \in notified'
        PROVE  Announced(v)'
    <3>1. CASE processing[v].job \in notified
      BY <1>3, <1>9, <2>3, <3>1 DEF TaskInv, DoneInv
    <3>2. CASE processing[v].job = t.job
      <4>1. v = w /\ w \in workers /\ pool = "up"
        BY <1>3, <1>5, <2>3, <3>2
      <4>2. w \notin orphans /\ \A k \in 1..Len(mailbox) : ~IsExitOf(k, w)
        BY <1>4, <4>1 DEF RegistryInv, ExitsAreOfRegisteredWorkers
      <4>3. mailbox' = Append(mailbox, CompleteMsg(w))
        BY <4>1, <4>2 DEF NotifyPool, SendPool
      <4> QED BY <1>7, <4>1, <4>2, <4>3, MailAppend
    <3> QED BY <1>3, <2>3, <3>1, <3>2
  <2> QED BY <2>1, <2>2, <2>3 DEF DoneInv
<1> QED BY <1>1, <1>10, <1>11, <1>12, <1>13 DEF TaskInv

\* A submitted job is new to everybody: it goes to the back of the queue, and the
\* head of the queue, which nobody holds, may go to an idle worker.
LEMMA TaskSubmit ==
    ASSUME TypeOK, RegistryInv, TaskInv, HandleSubmitTask
    PROVE  TaskInv'
<1> USE ConstantsAssumption
<1>1. /\ pool = "up" /\ Consumed /\ Head(mailbox).type = "submit_task"
      /\ mailbox \in Seq(Message) /\ Head(mailbox) \in Message
  BY DEF HandleSubmitTask, Receives, Consumed, TypeOK
<1>2. PICK j \in Job : j = Head(mailbox).job
  BY <1>1 DEF Message
<1> DEFINE n == [job |-> j, attempt |-> 1]
           q == Append(tasks, n)
<1>3. /\ AssignPendingTasks(q) /\ accepted' = accepted \cup {j}
      /\ UNCHANGED <<pool, workers, wstate, cur, orphans, dropped, runs, notified>>
      /\ \A k \in Job : calls'[k] = "new" <=> calls[k] = "new"
  BY <1>2 DEF HandleSubmitTask, Reply, workerHist, TypeOK
<1>4. /\ Requested(j) /\ ~Requested(j)' /\ OneRequest'
      /\ \A k : Requested(k)' => Requested(k)
      /\ \A v : Announced(v) => Announced(v)'
  BY <1>1, <1>2, MailConsume DEF TaskInv, RequestInv
<1>5. /\ j \notin accepted /\ j \notin notified /\ runs[j] = 0
      /\ \A v \in Pid : \A s \in Holds(v) : s.job # j
      /\ calls[j] # "new"
  BY <1>4 DEF TaskInv, RequestInv
<1>6. j \notin Queued /\ j \notin InProgress /\ j \notin dropped
  BY <1>5 DEF TaskInv, PlaceInv
<1>7. n \in Task /\ n.job = j /\ n.attempt = 1
  BY DEF Task
<1>8. /\ q \in Seq(Task) /\ q # <<>> /\ Jobs(q) = Queued \cup {j} /\ Distinct(q)
      /\ \A i \in 1..Len(q) : q[i] = n \/ \E k \in 1..Len(tasks) : q[i] = tasks[k]
  <2> HIDE DEF n
  <2>1. tasks \in Seq(Task) /\ Distinct(tasks) /\ n.job \notin Jobs(tasks)
    BY <1>6, <1>7, QueuedIs DEF TypeOK, TaskInv, PlaceInv
  <2> QED BY <1>7, <2>1, JobsAppend, QueuedIs
<1> HIDE DEF q
\* What holds of every task in the queue.
<1>9. ASSUME NEW i \in 1..Len(q)
      PROVE  /\ q[i] \in Task /\ q[i] # NoTask
             /\ q[i].job \notin InProgress /\ q[i].job \notin notified
             /\ runs[q[i].job] < q[i].attempt
             /\ \A v \in Pid : \A s \in Holds(v) : s.job # q[i].job
             /\ \A k \in Job : calls[k] = "new" \/ Requested(k)' => k # q[i].job
  <2>1. q[i] \in Task /\ q[i] # NoTask /\ q[i].job \in Job
    <3>1. q[i] \in Task
      BY <1>8
    <3> QED BY <3>1 DEF Task, NoTask
  <2>2. CASE q[i] = n
    BY <1>4, <1>5, <1>6, <1>7, <2>1, <2>2
  <2>3. CASE \E k \in 1..Len(tasks) : q[i] = tasks[k]
    <3>1. PICK m \in 1..Len(tasks) : q[i] = tasks[m]
      BY <2>3
    <3>2. q[i].job \in Queued
      BY <3>1 DEF Queued
    <3>3. q[i].job \in accepted
      BY <3>2 DEF TaskInv, PlaceInv
    <3>4. \A k \in Job : calls[k] = "new" \/ Requested(k)' => k # q[i].job
      BY <1>4, <2>1, <3>3 DEF TaskInv, RequestInv
    <3>5. q[i].job \notin InProgress /\ q[i].job \notin notified
      BY <3>2 DEF TaskInv, PlaceInv, DoneInv
    <3>6. runs[q[i].job] < q[i].attempt
      BY <3>1 DEF TaskInv, CountInv, AttemptsBounded
    <3>7. \A v \in Pid : \A s \in Holds(v) : s.job # q[i].job
      BY <3>2, HeldPlace
    <3> QED BY <2>1, <3>4, <3>5, <3>6, <3>7
  <2> QED BY <1>8, <2>2, <2>3
<1>10. CASE Available = {} \/ q = <<>>
  <2>1. tasks' = q /\ UNCHANGED <<processing, inbox>>
    BY <1>3, <1>10 DEF AssignPendingTasks
  <2>2. HandsInv' /\ HandsSame
    BY <1>3, <2>1, HandsUnchanged DEF TaskInv
  <2>3. Queued' = Queued \cup {j} /\ InProgress' = InProgress
    BY <1>8, <2>1, QueuedIs DEF InProgress
  <2>4. RequestInv'
    BY <1>3, <1>4, <1>5, <2>2 DEF TaskInv, RequestInv, HandsSame
  <2>5. PlaceInv'
    <3>1. OneRunner'
      BY <2>2 DEF TaskInv, PlaceInv, OneRunner, HandsSame
    <3>2. workers \subseteq Pid /\ orphans \subseteq Pid
      BY DEF TypeOK
    <3>3. /\ \A v \in workers' : Holds(v)' \subseteq {processing'[v]}
          /\ \A v \in orphans' : \A s \in Holds(v)' : s.job \notin accepted'
      BY <1>3, <1>5, <2>1, <2>2, <3>2 DEF TaskInv, PlaceInv, HandsSame
    <3>4. Distinct(tasks')
      BY <1>8, <2>1
    <3>5. /\ Queued' \cap InProgress' = {} /\ Queued' \subseteq accepted'
          /\ InProgress' \subseteq accepted' /\ dropped' \subseteq accepted'
          /\ pool' # "terminating" => accepted' \ dropped' = Queued' \cup InProgress'
      BY <1>1, <1>3, <1>6, <2>3 DEF TaskInv, PlaceInv
    <3> QED BY <1>3, <2>1, <3>1, <3>3, <3>4, <3>5 DEF TaskInv, PlaceInv
  <2>6. CountInv'
    BY <1>3, <1>9, <2>1, <2>2 DEF TaskInv, CountInv, AttemptsBounded, HandsSame
  <2>7. DoneInv'
    BY <1>3, <1>4, <1>5, <2>1, <2>2, <2>3 DEF TaskInv, DoneInv, HandsSame
  <2> QED BY <2>2, <2>4, <2>5, <2>6, <2>7 DEF TaskInv
<1>11. CASE ~(Available = {} \/ q = <<>>)
  <2> DEFINE h == Head(q)
  <2>1. PICK w \in Available :
          /\ tasks' = Tail(q)
          /\ processing' = [processing EXCEPT ![w] = h]
          /\ inbox' = [inbox EXCEPT ![w] =
                IF w \in Alive THEN Append(@, ProcessTaskMsg(h)) ELSE @]
    BY <1>3, <1>11 DEF AssignPendingTasks
  <2>2. w \in workers /\ w \in Pid /\ processing[w] = NoTask /\ w \notin orphans
    BY DEF Available, TypeOK, RegistryInv
  <2>3. /\ h \in Task /\ \E k \in 1..Len(q) : h = q[k]
        /\ h.job \in Queued \cup {j}
        /\ Jobs(Tail(q)) = (Queued \cup {j}) \ {h.job} /\ Distinct(Tail(q))
        /\ \A i \in 1..Len(Tail(q)) : \E k \in 1..Len(q) : Tail(q)[i] = q[k]
    BY <1>8, JobsTail
  <2> HIDE DEF h
  <2>4. /\ h # NoTask /\ h.job \notin InProgress /\ h.job \notin notified
        /\ runs[h.job] < h.attempt
        /\ \A v \in Pid : \A s \in Holds(v) : s.job # h.job
        /\ \A k \in Job : calls[k] = "new" \/ Requested(k)' => k # h.job
    BY <1>9, <2>3
  <2>5. Holds(w) = {}
    <3>1. Holds(w) \subseteq {NoTask} /\ Holds(w) \subseteq Task
      BY <2>2, HoldsType DEF TaskInv, PlaceInv
    <3> QED BY <3>1 DEF Task, NoTask
  <2>6. /\ HandsInv'
        /\ Holds(w)' \subseteq {h} /\ Inboxed(w)' \subseteq {h}
        /\ \A v \in Pid \ {w} : Holds(v)' = Holds(v) /\ Inboxed(v)' = Inboxed(v)
    BY <1>3, <2>1, <2>2, <2>3, <2>5, HandsAssign DEF TaskInv
  <2>7. /\ processing'[w] = h /\ \A v \in Pid \ {w} : processing'[v] = processing[v]
    BY <2>1, <2>2 DEF TypeOK
  <2>8. Queued' = (Queued \cup {j}) \ {h.job} /\ InProgress' = InProgress \cup {h.job}
    <3>1. InProgress' = InProgress \cup {h.job}
      BY <2>2, <2>4, <2>7 DEF InProgress
    <3> QED BY <2>1, <2>3, <3>1, QueuedIs
  <2>9. RequestInv'
    <3>1. ASSUME NEW k \in Job, calls'[k] = "new" \/ Requested(k)'
          PROVE  /\ k \notin accepted' /\ k \notin notified' /\ runs'[k] = 0
                 /\ \A v \in Pid : \A s \in Holds(v)' : s.job # k
      <4>1. k # j /\ k # h.job /\ (calls[k] = "new" \/ Requested(k))
        BY <1>3, <1>4, <1>5, <2>3, <2>4, <3>1 DEF Task
      <4>2. /\ k \notin accepted /\ k \notin notified /\ runs[k] = 0
            /\ \A v \in Pid : \A s \in Holds(v) : s.job # k
        BY <4>1 DEF TaskInv, RequestInv
      <4> QED BY <1>3, <2>6, <4>1, <4>2
    <3>2. \A k \in Job : Requested(k)' => calls'[k] # "new"
      BY <1>3, <1>4 DEF TaskInv, RequestInv
    <3> QED BY <1>4, <3>1, <3>2 DEF RequestInv
  <2>10. PlaceInv'
    <3>1. OneRunner'
      <4> SUFFICES ASSUME NEW u \in Pid, NEW v \in Pid, NEW s \in Holds(u)', NEW t \in Holds(v)',
                          s.job = t.job
                   PROVE  u = v
        BY DEF OneRunner
      <4>1. CASE u = w /\ v # w
        BY <2>4, <2>6, <4>1
      <4>2. CASE u # w /\ v = w
        BY <2>4, <2>6, <4>2
      <4>3. CASE u # w /\ v # w
        BY <2>6, <4>3 DEF TaskInv, PlaceInv, OneRunner
      <4> QED BY <4>1, <4>2, <4>3
    <3>2. workers \subseteq Pid /\ orphans \subseteq Pid
      BY DEF TypeOK
    <3>3. \A v \in workers' : Holds(v)' \subseteq {processing'[v]}
      BY <1>3, <2>6, <2>7, <3>2 DEF TaskInv, PlaceInv
    <3>4. \A v \in orphans' : \A s \in Holds(v)' : s.job \notin accepted'
      BY <1>3, <1>5, <2>2, <2>6, <3>2 DEF TaskInv, PlaceInv
    <3>5. Distinct(tasks')
      BY <2>1, <2>3
    <3>6. /\ Queued' \cap InProgress' = {} /\ Queued' \subseteq accepted'
          /\ InProgress' \subseteq accepted' /\ dropped' \subseteq accepted'
          /\ pool' # "terminating" => accepted' \ dropped' = Queued' \cup InProgress'
      BY <1>1, <1>3, <1>6, <2>3, <2>4, <2>8 DEF TaskInv, PlaceInv
    <3>7. \A v \in Pid : processing'[v] # NoTask => v \in workers'
      BY <1>3, <2>2, <2>7 DEF TaskInv, PlaceInv
    <3>8. ASSUME NEW u \in Pid, NEW v \in Pid, processing'[u] # NoTask, processing'[v] # NoTask,
                 processing'[u].job = processing'[v].job
          PROVE  u = v
      <4>1. ASSUME NEW x \in Pid, processing[x] # NoTask PROVE processing[x].job \in InProgress
        BY <4>1 DEF InProgress
      <4>2. CASE u = w /\ v # w
        BY <2>4, <2>7, <3>8, <4>1, <4>2
      <4>3. CASE u # w /\ v = w
        BY <2>4, <2>7, <3>8, <4>1, <4>3
      <4>4. CASE u # w /\ v # w
        BY <2>7, <3>8, <4>4 DEF TaskInv, PlaceInv
      <4> QED BY <4>2, <4>3, <4>4
    <3> QED BY <3>1, <3>3, <3>4, <3>5, <3>6, <3>7, <3>8 DEF PlaceInv
  <2>11. CountInv'
    <3>1. \A k \in Job : runs'[k] <= MaxAttempts
      BY <1>3 DEF TaskInv, CountInv, AttemptsBounded
    <3>2. \A i \in 1..Len(tasks') : runs'[tasks'[i].job] < tasks'[i].attempt
      BY <1>3, <1>9, <2>1, <2>3
    <3>3. \A v \in Pid : processing'[v] # NoTask =>
             runs'[processing'[v].job] <= processing'[v].attempt
      <4>1. runs[h.job] <= h.attempt
        BY <2>3, <2>4 DEF Task, TypeOK
      <4> QED BY <1>3, <2>7, <4>1 DEF TaskInv, CountInv
    <3>4. \A v \in Pid : \A s \in Inboxed(v)' : runs'[s.job] < s.attempt
      BY <1>3, <2>4, <2>6 DEF TaskInv, CountInv
    <3> QED BY <3>1, <3>2, <3>3, <3>4 DEF CountInv, AttemptsBounded
  <2>12. DoneInv'
    <3>1. Queued' \cap notified' = {}
      BY <1>3, <1>5, <2>8 DEF TaskInv, DoneInv
    <3>2. \A v \in Pid : \A s \in Inboxed(v)' : s.job \notin notified'
      BY <1>3, <2>4, <2>6 DEF TaskInv, DoneInv
    <3>3. \A v \in Pid : processing'[v] # NoTask /\ processing'[v].job \in notified' => Announced(v)'
      BY <1>1, <1>3, <1>4, <2>4, <2>7 DEF TaskInv, DoneInv
    <3> QED BY <3>1, <3>2, <3>3 DEF DoneInv
  <2> QED BY <2>6, <2>9, <2>10, <2>11, <2>12 DEF TaskInv
<1> QED BY <1>10, <1>11

\* Handling a worker's exit moves its task to the back of the queue, or gives it up:
\* the worker is dead and holds nothing, and it did not announce the job's completion,
\* since that message would have come first.
LEMMA TaskExitHandled ==
    ASSUME TypeOK, RegistryInv, TaskInv, HandleWorkerExit
    PROVE  TaskInv'
<1> USE ConstantsAssumption
<1>1. /\ pool = "up" /\ mailbox # <<>> /\ mailbox \in Seq(Message) /\ Head(mailbox) \in Message
      /\ Head(mailbox).type = "EXIT" /\ Head(mailbox) = mailbox[1] /\ Len(mailbox) \in Nat \ {0}
  BY HeadTailProperties, EmptySeq, LenProperties DEF HandleWorkerExit, Receives, TypeOK
<1>2. PICK w \in Pid : w = Head(mailbox).pid
  BY <1>1 DEF Message
<1>3. Consumed
  BY <1>1 DEF HandleWorkerExit, MaybeRetryTask, Consumed
<1>4. /\ OneRequest' /\ \A k : Requested(k)' => Requested(k)
      /\ \A v : Announced(v) => Announced(v)'
      /\ ~Announced(w)
  BY <1>1, <1>2, <1>3, MailConsume DEF TaskInv, RequestInv
<1>5. UNCHANGED <<pool, orphans, calls, accepted, runs, notified>>
  BY DEF HandleWorkerExit, workerHist
<1>6. w \in workers /\ w \notin Alive
  BY <1>1, <1>2 DEF RegistryInv, ExitsAreOfRegisteredWorkers, IsExitOf
<1>7. PICK new \in SUBSET Pid :
        /\ workers' = (workers \ {w}) \cup new /\ new \cap Alive = {}
        /\ HandsInv' /\ HandsSame
  <2>1. MaybeRestartWorker(workers \ {w})
    BY <1>2 DEF HandleWorkerExit
  <2>2. CASE Cardinality(workers \ {w}) < Size
    <3>1. PICK v \in Fresh : Start({v}) /\ workers' = (workers \ {w}) \cup {v}
      BY <2>1, <2>2 DEF MaybeRestartWorker
    <3>2. {v} \in SUBSET Pid /\ {v} \cap Alive = {}
      BY DEF Fresh
    <3> QED BY <3>1, <3>2, HandsStart DEF TaskInv
  <2>3. CASE ~(Cardinality(workers \ {w}) < Size)
    <3>1. workers' = (workers \ {w}) \cup {} /\ UNCHANGED <<wstate, inbox, cur>>
      BY <2>1, <2>3 DEF MaybeRestartWorker
    <3>2. {} \in SUBSET Pid /\ {} \cap Alive = {}
      OBVIOUS
    <3> QED BY <3>1, <3>2, HandsUnchanged DEF TaskInv
  <2> QED BY <2>2, <2>3
<1> DEFINE t == processing[w]
<1>8. /\ processing'[w] = NoTask
      /\ \A v \in Pid \ {w} : processing'[v] = processing[v]
  BY <1>2 DEF HandleWorkerExit, TypeOK
<1>9. t \in Task \cup {NoTask}
  BY DEF TypeOK
<1>10. t # NoTask => /\ t \in Task /\ t.job \in Job /\ t.attempt \in 1..MaxAttempts
                     /\ t.job \in InProgress /\ t.job \notin Queued /\ t.job \in accepted
                     /\ t.job \notin dropped /\ t.job \notin notified
                     /\ runs[t.job] <= t.attempt
  <2> HAVE t # NoTask
  <2>1. t \in Task /\ t.job \in Job /\ t.attempt \in 1..MaxAttempts
    BY <1>9 DEF Task
  <2>2. t.job \in InProgress
    BY DEF InProgress
  <2>3. t.job \notin Queued /\ t.job \in accepted /\ t.job \notin dropped
    BY <1>1, <2>2 DEF TaskInv, PlaceInv
  <2>4. t.job \notin notified
    BY <1>1, <1>4 DEF TaskInv, DoneInv
  <2>5. runs[t.job] <= t.attempt
    BY DEF TaskInv, CountInv
  <2> QED BY <2>1, <2>2, <2>3, <2>4, <2>5
<1>11. InProgress' = InProgress \ (IF t = NoTask THEN {} ELSE {t.job})
  <2>1. \A v \in Pid : t # NoTask /\ processing[v] # NoTask /\ processing[v].job = t.job => v = w
    BY DEF TaskInv, PlaceInv
  <2> QED BY <1>8, <2>1 DEF InProgress
\* What happens to the task: nothing if there is none, given up, or queued again.
<1>12. \/ t = NoTask /\ UNCHANGED <<tasks, dropped>>
       \/ t # NoTask /\ tasks' = tasks /\ dropped' = dropped \cup {t.job}
       \/ /\ t # NoTask /\ t.attempt < MaxAttempts /\ dropped' = dropped
          /\ tasks' = Append(tasks, [t EXCEPT !.attempt = @ + 1])
  BY <1>2 DEF HandleWorkerExit, MaybeRetryTask
<1>13. /\ Distinct(tasks')
       /\ Queued' \cap InProgress' = {} /\ Queued' \subseteq accepted
       /\ InProgress' \subseteq accepted /\ dropped' \subseteq accepted
       /\ accepted \ dropped' = Queued' \cup InProgress'
       /\ Queued' \cap notified = {}
       /\ \A i \in 1..Len(tasks') : runs[tasks'[i].job] < tasks'[i].attempt
  <2>1. /\ Distinct(tasks) /\ Queued \cap InProgress = {} /\ Queued \subseteq accepted
        /\ InProgress \subseteq accepted /\ dropped \subseteq accepted
        /\ accepted \ dropped = Queued \cup InProgress
        /\ Queued \cap notified = {}
        /\ \A i \in 1..Len(tasks) : runs[tasks[i].job] < tasks[i].attempt
    BY <1>1 DEF TaskInv, PlaceInv, DoneInv, CountInv, AttemptsBounded
  <2>2. CASE tasks' = tasks
    <3>1. Queued' = Queued
      BY <2>2 DEF Queued
    <3>2. dropped' = dropped \cup (IF t = NoTask THEN {} ELSE {t.job})
      <4> HIDE DEF t
      <4>1. tasks # Append(tasks, [t EXCEPT !.attempt = @ + 1])
        <5>1. tasks \in Seq(Task)
          BY DEF TypeOK
        <5>2. \A x : Len(Append(tasks, x)) = Len(tasks) + 1 /\ Len(tasks) \in Nat
          BY <5>1
        <5>3. Len(Append(tasks, [t EXCEPT !.attempt = @ + 1])) # Len(tasks)
          BY <5>2
        <5> QED BY <5>3
      <4> QED BY <1>12, <2>2, <4>1
    <3> HIDE DEF t
    <3> QED BY <1>10, <1>11, <2>1, <2>2, <3>1, <3>2
  <2>3. CASE tasks' # tasks
    <3> DEFINE r == [t EXCEPT !.attempt = @ + 1]
    <3>1. /\ t # NoTask /\ t.attempt < MaxAttempts /\ dropped' = dropped
          /\ tasks' = Append(tasks, r)
      BY <1>12, <2>3
    <3>2. r \in Task /\ r.job = t.job /\ r.attempt = t.attempt + 1
      BY <1>10, <3>1 DEF Task
    <3> HIDE DEF r, t
    <3>3. tasks \in Seq(Task) /\ r.job \notin Jobs(tasks)
      BY <1>10, <3>1, <3>2, QueuedIs DEF TypeOK
    <3>4. /\ Jobs(Append(tasks, r)) = Jobs(tasks) \cup {r.job}
          /\ Distinct(Append(tasks, r))
          /\ \A i \in 1..Len(Append(tasks, r)) : Append(tasks, r)[i] = r
                \/ \E k \in 1..Len(tasks) : Append(tasks, r)[i] = tasks[k]
      BY <2>1, <3>2, <3>3, JobsAppend
    <3>5. Queued' = Queued \cup {t.job}
      BY <3>1, <3>2, <3>4, QueuedIs
    <3>6. runs[r.job] < r.attempt
      <4>1. runs[t.job] \in Nat
        BY <1>10, <3>1 DEF TypeOK
      <4> QED BY <1>10, <3>1, <3>2, <4>1
    <3> QED BY <1>10, <1>11, <2>1, <3>1, <3>4, <3>5, <3>6
  <2> QED BY <2>2, <2>3
<1> HIDE DEF t
<1>14. RequestInv'
  BY <1>4, <1>5, <1>7 DEF TaskInv, RequestInv, HandsSame
<1>15. PlaceInv'
  <2>1. OneRunner'
    BY <1>7 DEF TaskInv, PlaceInv, OneRunner, HandsSame
  <2>2. \A v \in Pid : processing'[v] # NoTask => v \in workers'
    BY <1>7, <1>8 DEF TaskInv, PlaceInv
  <2>3. ASSUME NEW v \in workers' PROVE Holds(v)' \subseteq {processing'[v]}
    <3>1. CASE v \in new
      BY <1>7, <3>1, DeadHoldsNothing DEF TaskInv, HandsSame
    <3>2. CASE v \in workers \ {w}
      BY <1>7, <1>8, <3>2 DEF TaskInv, PlaceInv, HandsSame, TypeOK
    <3> QED BY <1>7, <2>3, <3>1, <3>2
  <2>4. \A v \in orphans' : \A s \in Holds(v)' : s.job \notin accepted'
    BY <1>5, <1>7 DEF TaskInv, PlaceInv, HandsSame, TypeOK
  <2>5. \A u, v \in Pid : processing'[u] # NoTask /\ processing'[v] # NoTask
                            /\ processing'[u].job = processing'[v].job => u = v
    BY <1>8 DEF TaskInv, PlaceInv
  <2> QED BY <1>5, <1>13, <2>1, <2>2, <2>3, <2>4, <2>5 DEF PlaceInv
<1>16. CountInv'
  <2>1. \A v \in Pid : processing'[v] # NoTask =>
           runs'[processing'[v].job] <= processing'[v].attempt
    BY <1>5, <1>8 DEF TaskInv, CountInv
  <2> QED BY <1>5, <1>7, <1>13, <2>1 DEF TaskInv, CountInv, AttemptsBounded, HandsSame
<1>17. DoneInv'
  BY <1>4, <1>5, <1>7, <1>8, <1>13 DEF TaskInv, DoneInv, HandsSame
<1> QED BY <1>7, <1>14, <1>15, <1>16, <1>17 DEF TaskInv

\* TaskInv is inductive, given the registry's invariant.
LEMMA TaskInductive ==
    ASSUME TypeOK, RegistryInv, TaskInv, [Next]_vars
    PROVE  TaskInv'
<1>1. ASSUME UNCHANGED <<pool, mailbox, workers, tasks, processing, wstate, inbox, cur, orphans,
                         accepted, dropped, runs, notified>>,
             \A j \in Job : calls'[j] = "new" <=> calls[j] = "new"
      PROVE  TaskInv'
  <2>1. HandsInv' /\ HandsSame
    BY <1>1, HandsUnchanged DEF TaskInv
  <2>2. OneRequest' /\ (\A j : Requested(j)' <=> Requested(j)) /\ \A v : Announced(v) => Announced(v)'
    BY <1>1, MailSame DEF TaskInv, RequestInv
  <2>3. /\ \A v \in Pid : Holds(v)' \subseteq Holds(v) /\ Inboxed(v)' \subseteq Inboxed(v)
        /\ \A j \in Job : Requested(j)' => calls'[j] # "new"
        /\ \A j \in Job : calls'[j] = "new" \/ Requested(j)' => calls[j] = "new" \/ Requested(j)
    BY <1>1, <2>1, <2>2 DEF HandsSame, TaskInv, RequestInv
  <2>4. workers' \subseteq Pid
    BY <1>1 DEF TypeOK
  <2> QED BY <1>1, <2>1, <2>2, <2>3, <2>4, TaskQuietStep
<1>2. ASSUME NEW j \in Job, SubmitTask(j) PROVE TaskInv'
  <2>1. CASE pool = "down"
    <3>1. /\ mailbox' = mailbox /\ calls' = [calls EXCEPT ![j] = "exit"] /\ calls[j] = "new"
          /\ UNCHANGED <<pool, workers, tasks, processing, wstate, inbox, cur, orphans,
                         accepted, dropped, runs, notified>>
      BY <1>2, <2>1 DEF SubmitTask, workerVars, poolHist, workerHist
    <3>2. HandsInv' /\ HandsSame
      BY <3>1, HandsUnchanged DEF TaskInv
    <3>3. OneRequest' /\ (\A k : Requested(k)' <=> Requested(k)) /\ \A v : Announced(v) => Announced(v)'
      BY <3>1, MailSame DEF TaskInv, RequestInv
    <3>4. /\ \A k \in Job : Requested(k)' => calls'[k] # "new"
          /\ \A k \in Job : calls'[k] = "new" \/ Requested(k)' => calls[k] = "new" \/ Requested(k)
      BY <3>1, <3>3 DEF TaskInv, RequestInv, TypeOK
    <3>5. /\ \A v \in Pid : Holds(v)' \subseteq Holds(v) /\ Inboxed(v)' \subseteq Inboxed(v)
          /\ workers' \subseteq Pid
      BY <3>1, <3>2 DEF HandsSame, TypeOK
    <3> QED BY <3>1, <3>2, <3>3, <3>4, <3>5, TaskQuietStep
  <2>2. CASE pool # "down"
    <3>1. /\ mailbox' = Append(mailbox, SubmitMsg(j)) /\ SubmitMsg(j) \in Message
          /\ SubmitMsg(j).type = "submit_task" /\ SubmitMsg(j).job = j
          /\ calls[j] = "new" /\ calls' = [calls EXCEPT ![j] = "waiting"]
      BY <1>2, <2>2 DEF SubmitTask, SubmitMsg, Message
    <3>2. UNCHANGED <<pool, workers, tasks, processing, wstate, inbox, cur, orphans,
                      accepted, dropped, runs, notified>>
      BY <1>2 DEF SubmitTask, workerVars, poolHist, workerHist
    <3>3. HandsInv' /\ HandsSame
      BY <3>2, HandsUnchanged DEF TaskInv
    <3>4. ~Requested(j)
      BY <3>1 DEF TaskInv, RequestInv
    <3>5. /\ OneRequest' /\ \A k : Requested(k)' <=> Requested(k) \/ k = j
          /\ \A v : Announced(v) => Announced(v)'
      BY <3>1, <3>4, MailAppend DEF TaskInv, RequestInv
    <3>6. /\ \A k \in Job : Requested(k)' => calls'[k] # "new"
          /\ \A k \in Job : calls'[k] = "new" \/ Requested(k)' => calls[k] = "new" \/ Requested(k)
      BY <3>1, <3>5 DEF TaskInv, RequestInv, TypeOK
    <3>7. /\ \A v \in Pid : Holds(v)' \subseteq Holds(v) /\ Inboxed(v)' \subseteq Inboxed(v)
          /\ workers' \subseteq Pid
      BY <3>2, <3>3 DEF HandsSame, TypeOK
    <3> QED BY <3>2, <3>3, <3>5, <3>6, <3>7, TaskQuietStep
  <2> QED BY <2>1, <2>2
<1>3. ASSUME NEW j \in Job, CallTimeout(j) PROVE TaskInv'
  <2>1. \A k \in Job : calls'[k] = "new" <=> calls[k] = "new"
    BY <1>3 DEF CallTimeout, TypeOK
  <2> QED BY <1>1, <1>3, <2>1 DEF CallTimeout, poolVars, workerVars, poolHist, workerHist
<1>4. CASE SubscribeToEvents \/ UNCHANGED vars
  BY <1>1, <1>4 DEF SubscribeToEvents, vars, poolVars, workerVars, poolHist, workerHist
\* A handler that takes the first message and touches no task.
<1>5. ASSUME Consumed, HandsInv', HandsSame,
             \A j \in Job : calls'[j] = "new" <=> calls[j] = "new",
             UNCHANGED <<tasks, processing, orphans, accepted, dropped, runs, notified>>,
             workers \subseteq workers', workers' \subseteq Pid,
             \A v \in workers' \ workers : Holds(v) = {},
             pool' = pool \/ pool' = "terminating",
             pool' = "up" => Head(mailbox).type # "task_complete"
      PROVE  TaskInv'
  <2>1. /\ OneRequest' /\ \A j : Requested(j)' => Requested(j)
        /\ Head(mailbox).type # "task_complete" => \A v : Announced(v) => Announced(v)'
    BY <1>5, MailConsume DEF TaskInv, RequestInv
  <2>2. /\ \A v \in Pid : Holds(v)' \subseteq Holds(v) /\ Inboxed(v)' \subseteq Inboxed(v)
        /\ \A j \in Job : Requested(j)' => calls'[j] # "new"
        /\ \A j \in Job : calls'[j] = "new" \/ Requested(j)' => calls[j] = "new" \/ Requested(j)
    BY <1>5, <2>1 DEF HandsSame, TaskInv, RequestInv
  <2> QED BY <1>5, <2>1, <2>2, TaskQuietStep
<1>6. CASE RejectTask
  <2>1. Head(mailbox) \in Message /\ Head(mailbox).type = "submit_task" /\ Consumed
    BY <1>6 DEF RejectTask, Receives, Consumed, TypeOK
  <2>2. \A j \in Job : calls'[j] = "new" <=> calls[j] = "new"
    BY <1>6, <2>1 DEF RejectTask, Reply, TypeOK
  <2>3. UNCHANGED <<pool, workers, tasks, processing, wstate, inbox, cur, orphans,
                    accepted, dropped, runs, notified>>
    BY <1>6 DEF RejectTask, workerVars, poolHist, workerHist
  <2>4. HandsInv' /\ HandsSame /\ workers' \subseteq Pid
    BY <2>3, HandsUnchanged DEF TaskInv, TypeOK
  <2> QED BY <1>5, <2>1, <2>2, <2>3, <2>4
<1>7. CASE HandleStartWorkers
  <2>1. /\ Head(mailbox).type = "start_workers" /\ Consumed
        /\ UNCHANGED <<pool, calls, tasks, processing, orphans, accepted, dropped, runs, notified>>
    BY <1>7 DEF HandleStartWorkers, Receives, Consumed, poolHist, workerHist
  <2>2. PICK new \in SUBSET Fresh : Start(new) /\ workers' = workers \cup new
    BY <1>7 DEF HandleStartWorkers
  <2>3. new \in SUBSET Pid /\ new \cap Alive = {}
    BY DEF Fresh
  <2>4. HandsInv' /\ HandsSame /\ workers' \subseteq Pid
    BY <2>2, <2>3, HandsStart DEF TaskInv, TypeOK
  <2>5. \A v \in workers' \ workers : Holds(v) = {}
    BY <2>2, <2>3, DeadHoldsNothing DEF TaskInv
  <2> QED BY <1>5, <2>1, <2>2, <2>4, <2>5
<1>8. CASE HandleTaskComplete \/ HandleTelemetryEvent
  <2>1. PICK type : NoClause(type)
    BY <1>8 DEF HandleTaskComplete, HandleTelemetryEvent
  <2>2. /\ Consumed /\ pool' = "terminating"
        /\ UNCHANGED <<workers, calls, tasks, processing, wstate, cur, orphans, accepted, dropped,
                       runs, notified>>
    BY <2>1 DEF NoClause, Terminate, Receives, Consumed, poolHist, workerHist
  <2>3. workers \cap Alive \in SUBSET Alive
    OBVIOUS
  <2>4. HandsInv' /\ HandsSame /\ workers' \subseteq Pid
    BY <2>1, <2>2, <2>3, HandsParentExit DEF TaskInv, NoClause, Terminate, TypeOK
  <2> QED BY <1>5, <2>2, <2>4
<1>9. CASE WaitForWorkers
  <2>1. /\ Consumed /\ pool = "terminating" /\ pool' = pool
        /\ UNCHANGED <<workers, calls, tasks, processing, wstate, inbox, cur, orphans, accepted,
                       dropped, runs, notified>>
    BY <1>9 DEF WaitForWorkers, Consumed, workerVars, poolHist, workerHist
  <2>2. HandsInv' /\ HandsSame /\ workers' \subseteq Pid
    BY <2>1, HandsUnchanged DEF TaskInv, TypeOK
  <2> QED BY <1>5, <2>1, <2>2
<1>10. CASE RestartPool
  <2>1. /\ pool = "down" /\ pool' = "up" /\ Len(mailbox') = 1
        /\ mailbox'[1].type = "start_workers" /\ workers = {}
        /\ UNCHANGED <<workers, calls, tasks, processing, wstate, inbox, cur, orphans, accepted,
                       dropped, runs, notified>>
    BY <1>10 DEF RestartPool, StartWorkersMsg, RegistryInv, workerVars, poolHist, workerHist
  <2>2. HandsInv' /\ HandsSame
    BY <2>1, HandsUnchanged DEF TaskInv
  <2>3. OneRequest' /\ \A j : ~Requested(j)'
    BY <2>1 DEF OneRequest, Requested, IsRequest
  <2>4. \A v \in Pid : Holds(v)' \subseteq Holds(v) /\ Inboxed(v)' \subseteq Inboxed(v)
    BY <2>2 DEF HandsSame
  <2>5. \A v \in Pid : processing[v] = NoTask
    BY <2>1 DEF TaskInv, PlaceInv
  <2> QED BY <2>1, <2>2, <2>3, <2>4, <2>5, TaskQuietStep
<1>11. ASSUME NEW w \in Pid, MarkBlock(w) PROVE TaskInv'
  <2>1. UNCHANGED <<pool, mailbox, workers, calls, tasks, processing, orphans, accepted, dropped,
                    runs, notified>>
    BY <1>11 DEF MarkBlock, poolVars, poolHist
  <2>2. HandsInv' /\ HandsSame
    BY <1>11, HandsMark DEF TaskInv
  <2>3. OneRequest' /\ (\A j : Requested(j)' <=> Requested(j)) /\ \A v : Announced(v) => Announced(v)'
    BY <2>1, MailSame DEF TaskInv, RequestInv
  <2>4. /\ \A v \in Pid : Holds(v)' \subseteq Holds(v) /\ Inboxed(v)' \subseteq Inboxed(v)
        /\ \A j \in Job : Requested(j)' => calls'[j] # "new"
        /\ workers' \subseteq Pid
    BY <2>1, <2>2, <2>3 DEF HandsSame, TaskInv, RequestInv, TypeOK
  <2> QED BY <2>1, <2>2, <2>3, <2>4, TaskQuietStep
<1>12. ASSUME NEW w \in Pid, NEW r \in {"normal", "abnormal"}, WorkerDies(w, r),
              UNCHANGED <<pool, workers, tasks, processing, calls, accepted, dropped, runs, notified>>
       PROVE  TaskInv'
  <2>1. HandsInv' /\ HandsEmptied(w)
    BY <1>12, HandsDie DEF TaskInv
  <2>2. ExitMsg(w, r) \in Message /\ ExitMsg(w, r).type = "EXIT"
    BY DEF ExitMsg, Message
  <2>3. mailbox' = mailbox \/ mailbox' = Append(mailbox, ExitMsg(w, r))
    BY <1>12 DEF WorkerDies, SendPool
  <2>4. OneRequest' /\ (\A j : Requested(j)' <=> Requested(j)) /\ \A v : Announced(v) => Announced(v)'
    BY <2>2, <2>3, MailSame, MailAppend DEF TaskInv, RequestInv
  <2>5. /\ \A v \in Pid : Holds(v)' \subseteq Holds(v) /\ Inboxed(v)' \subseteq Inboxed(v)
        /\ \A j \in Job : Requested(j)' => calls'[j] # "new"
        /\ workers' \subseteq Pid /\ orphans' \subseteq orphans
    BY <1>12, <2>1, <2>4 DEF HandsEmptied, WorkerDies, TaskInv, RequestInv, TypeOK
  <2> QED BY <1>12, <2>1, <2>4, <2>5, TaskQuietStep
<1>13. ASSUME NEW w \in Pid, MarkRaises(w) \/ WorkerStops(w) PROVE TaskInv'
  BY <1>12, <1>13 DEF MarkRaises, WorkerStops, poolHist, workerHist
<1>14. ASSUME NEW w \in Pid, NEW r \in {"normal", "abnormal"}, WorkerExits(w, r) PROVE TaskInv'
  BY <1>12, <1>14 DEF WorkerExits, poolHist, workerHist
<1>15. CASE AllWorkersStopped \/ ShutdownTimeout
  BY <1>15, TaskPoolExits DEF AllWorkersStopped, ShutdownTimeout
<1> QED
  BY <1>2, <1>3, <1>4, <1>6, <1>7, <1>8, <1>9, <1>10, <1>11, <1>13, <1>14, <1>15,
     TaskSubmit, TaskExitHandled, TaskLastWorkerExit, TaskRun, TaskNotify
  DEF Next, CallerStep, PoolStep, WorkerStep

\* TaskInv holds in every reachable state.
LEMMA TaskInvariant == Spec => []TaskInv
<1>1. Init => TaskInv
  <2> SUFFICES ASSUME Init PROVE TaskInv
    OBVIOUS
  <2>1. /\ \A w \in Pid : /\ inbox[w] = <<>> /\ cur[w] = NoTask /\ processing[w] = NoTask
                          /\ wstate[w] = "dead"
        /\ workers = {} /\ orphans = {} /\ tasks = <<>> /\ accepted = {} /\ dropped = {}
        /\ notified = {} /\ pool = "up" /\ \A j \in Job : runs[j] = 0
        /\ Len(mailbox) = 1 /\ mailbox[1].type = "start_workers"
    BY DEF Init, StartWorkersMsg
  <2>2. \A w \in Pid : Inboxed(w) = {} /\ OneTask(inbox[w]) /\ Holds(w) = {}
    BY <2>1, TasksInEmpty, HoldsIs DEF Inboxed
  <2>3. Queued = {} /\ InProgress = {} /\ Distinct(tasks) /\ Len(tasks) = 0
    BY <2>1 DEF Queued, InProgress, Distinct
  <2>4. OneRequest /\ \A j : ~Requested(j)
    BY <2>1 DEF OneRequest, Requested, IsRequest
  <2>5. HandsInv
    BY <2>1, <2>2 DEF HandsInv
  <2>6. RequestInv
    BY <2>1, <2>2, <2>4 DEF RequestInv
  <2>7. PlaceInv
    BY <2>1, <2>2, <2>3 DEF PlaceInv, OneRunner
  <2>8. CountInv
    BY <2>1, <2>2, <2>3, ConstantsAssumption DEF CountInv, AttemptsBounded
  <2>9. DoneInv
    BY <2>1, <2>2, <2>3 DEF DoneInv
  <2> QED BY <2>5, <2>6, <2>7, <2>8, <2>9 DEF TaskInv
<1>2. TypeOK /\ RegistryInv /\ TaskInv /\ [Next]_vars => TaskInv'
  BY TaskInductive
<1> QED BY <1>1, <1>2, TypeCorrect, RegistryInvariant, PTL DEF Spec

\* Theorem: whatever the workers, the callers and the supervisor do, a task that a
\* serving pool process has accepted and not given up is in exactly one of the queue
\* and the processing map, once.
THEOREM TasksConserved == Spec => []NoSilentLoss
<1>1. TypeOK /\ TaskInv => NoSilentLoss
  <2> SUFFICES ASSUME TypeOK, TaskInv, pool = "up" PROVE NoSilentLoss
    BY DEF NoSilentLoss
  <2>1. Cardinality(Queued) = Len(tasks)
    BY JobsCount, QueuedIs DEF TypeOK, TaskInv, PlaceInv
  <2> QED BY <2>1 DEF NoSilentLoss, TaskInv, PlaceInv
<1> QED BY <1>1, TypeCorrect, TaskInvariant, PTL

\* Theorem: no two worker processes ever hold the same job, the workers that outlived
\* their pool process included.
THEOREM JobsHaveOneRunner == Spec => []OneRunner
<1>1. TaskInv => OneRunner
  BY DEF TaskInv, PlaceInv
<1> QED BY <1>1, TaskInvariant, PTL

\* Theorem: no job runs more often than @max_attempts, and a queued task's attempt
\* number exceeds the number of its runs.
THEOREM RunsBounded == Spec => []AttemptsBounded
<1>1. TaskInv => AttemptsBounded
  BY DEF TaskInv, CountInv
<1> QED BY <1>1, TaskInvariant, PTL

\* Theorem: a job whose worker has announced its completion is never run again.
THEOREM CompletedNotRerun == Spec => NoRunAfterCompletion
<1>1. TypeOK /\ RegistryInv /\ TaskInv /\ [Next]_vars => [\A j \in notified : runs'[j] = runs[j]]_vars
  <2> SUFFICES ASSUME TypeOK, RegistryInv, TaskInv, Next, NEW j \in notified
               PROVE  runs'[j] = runs[j]
    OBVIOUS
  <2>1. ASSUME NEW w \in Pid, RunTask(w) PROVE runs'[j] = runs[j]
    <3>1. PICK t \in Task : t = Head(inbox[w]).task /\ t \in Inboxed(w)
      BY <2>1, HandsRun DEF TaskInv
    <3>2. t.job # j /\ t.job \in Job /\ j \in Job
      BY <3>1 DEF TaskInv, DoneInv, Task, TypeOK
    <3> QED BY <2>1, <3>1, <3>2 DEF RunTask, TypeOK
  <2>2. CASE UNCHANGED runs
    BY <2>2
  <2>3. ASSUME ~\E w \in Pid : RunTask(w) PROVE UNCHANGED runs
    BY <2>3
    DEF Next, CallerStep, PoolStep, WorkerStep, SubmitTask, CallTimeout, SubscribeToEvents,
        HandleStartWorkers, HandleSubmitTask, RejectTask, HandleWorkerExit, LastWorkerExit,
        HandleTaskComplete, HandleTelemetryEvent, NoClause, WaitForWorkers, AllWorkersStopped,
        ShutdownTimeout, PoolExits, RestartPool, MarkBlock, MarkRaises, NotifyPool, WorkerStops,
        WorkerExits, workerHist
  <2> QED BY <2>1, <2>2, <2>3
<1> QED BY <1>1, TypeCorrect, RegistryInvariant, TaskInvariant, PTL DEF Spec, NoRunAfterCompletion
=============================================================================
