----------------------------- MODULE WorkerPool -----------------------------
(***************************************************************************)
(* The task pool of apps/core: Core.DataProcessor.WorkerPool (a GenServer),*)
(* the Core.DataProcessor.Worker processes it links to, the processes that *)
(* call submit_task/4, the supervisor that restarts the pool, and the      *)
(* telemetry handler that Core.DataProcessor.Monitor attaches.             *)
(*                                                                         *)
(* A process is a mailbox handled head first, one handler at a time; a     *)
(* message to a dead process is dropped.  A job is one call of submit_task;*)
(* a task is the map the pool queues for it, reduced to the job and its    *)
(* attempt number.                                                         *)
(***************************************************************************)
EXTENDS Naturals, Sequences, FiniteSets

CONSTANTS
    Pid,         \* process identifiers workers are given
    Job,         \* calls of submit_task
    Invalid,     \* jobs whose chain, type or data validate_task rejects
    NoNumber,    \* jobs whose data has no :number key
    Size,        \* the pool's size option
    MaxAttempts, \* @max_attempts
    MaxExits     \* bound: worker exits injected by the environment

ASSUME ConstantsAssumption ==
    /\ IsFiniteSet(Pid)
    /\ Invalid \subseteq Job /\ NoNumber \subseteq Job
    /\ Size \in Nat \ {0} /\ MaxAttempts \in Nat \ {0} /\ MaxExits \in Nat

VARIABLES
    pool,       \* "up", "terminating" (in terminate/2) or "down"
    mailbox,    \* the pool's mailbox
    workers,    \* state.workers: the registered worker pids
    tasks,      \* state.tasks: the queue
    processing, \* state.processing: the task assigned to a pid, or none
    awaited,    \* the argument of wait_for_workers
    wstate,     \* what each worker process is doing
    inbox,      \* each worker's mailbox
    cur,        \* the task a worker is handling
    orphans,    \* live workers of a pool process that is dead
    calls,      \* what each caller of submit_task knows
    marks,      \* casts made to Core.DataProcessor.State
    attached,   \* the Monitor's telemetry handler is attached
    runs,       \* history: how often each job was run
    notified,   \* history: jobs whose worker announced completion
    accepted,   \* history: jobs this pool process has queued
    dropped,    \* history: jobs it gave up on purpose
    exits       \* worker exits injected so far

poolVars   == <<pool, mailbox, workers, tasks, processing, awaited>>
workerVars == <<wstate, inbox, cur, orphans>>
poolHist   == <<accepted, dropped>>
workerHist == <<marks, runs, notified>>
vars == <<poolVars, workerVars, calls, attached, poolHist, workerHist, exits>>

Task   == [job : Job, attempt : 1..MaxAttempts]
NoTask == [job |-> "none", attempt |-> 0]

Message == [type : {"start_workers", "telemetry_event"}]
             \cup [type : {"submit_task"}, job : Job]
             \cup [type : {"task_complete"}, pid : Pid]
             \cup [type : {"EXIT"}, pid : Pid, reason : {"normal", "abnormal"}]

WorkerMessage == [type : {"EXIT", "telemetry_event"}]
                   \cup [type : {"process_task"}, task : Task]

StartWorkersMsg   == [type |-> "start_workers"]
TelemetryMsg      == [type |-> "telemetry_event"]
ParentExitMsg     == [type |-> "EXIT"]
SubmitMsg(j)      == [type |-> "submit_task", job |-> j]
CompleteMsg(w)    == [type |-> "task_complete", pid |-> w]
ExitMsg(w, r)     == [type |-> "EXIT", pid |-> w, reason |-> r]
ProcessTaskMsg(t) == [type |-> "process_task", task |-> t]

Alive == {w \in Pid : wstate[w] # "dead"}

\* Pids the runtime may hand out: of a process that is dead and that no
\* message of the pool's mailbox and no field of its state still names.
Fresh == {w \in Pid \ (Alive \cup workers \cup awaited) :
            \A i \in 1..Len(mailbox) :
                mailbox[i].type \in {"EXIT", "task_complete"} => mailbox[i].pid # w}

-----------------------------------------------------------------------------
(* Initial state: init/1 of the pool has run, so its mailbox holds the     *)
(* :start_workers it sent itself; no worker exists.                        *)

Init ==
    /\ pool = "up"
    /\ mailbox = <<StartWorkersMsg>>
    /\ workers = {}
    /\ tasks = <<>>
    /\ processing = [w \in Pid |-> NoTask]
    /\ awaited = {}
    /\ wstate = [w \in Pid |-> "dead"]
    /\ inbox = [w \in Pid |-> <<>>]
    /\ cur = [w \in Pid |-> NoTask]
    /\ orphans = {}
    /\ calls = [j \in Job |-> "new"]
    /\ marks = {}
    /\ attached = FALSE
    /\ runs = [j \in Job |-> 0]
    /\ notified = {}
    /\ accepted = {}
    /\ dropped = {}
    /\ exits = 0

-----------------------------------------------------------------------------
(* Callers of submit_task/4 and the Monitor.                               *)

\* GenServer.call to a registered name: without a process behind the name it
\* exits at once, otherwise the request is in the mailbox and the caller waits.
SubmitTask(j) ==
    /\ calls[j] = "new"
    /\ IF pool = "down"
         THEN /\ calls' = [calls EXCEPT ![j] = "exit"]
              /\ UNCHANGED mailbox
         ELSE /\ calls' = [calls EXCEPT ![j] = "waiting"]
              /\ mailbox' = Append(mailbox, SubmitMsg(j))
    /\ UNCHANGED <<pool, workers, tasks, processing, awaited, workerVars,
                   attached, poolHist, workerHist, exits>>

\* The call's default timeout of five seconds: the caller exits, the request
\* stays where it is and the pool may still serve it.
CallTimeout(j) ==
    /\ calls[j] = "waiting"
    /\ calls' = [calls EXCEPT ![j] = "exit"]
    /\ UNCHANGED <<poolVars, workerVars, attached, poolHist, workerHist, exits>>

\* Monitor.init attaches a handler for five events.  Handlers run in the
\* process that emits the event, so its send(self(), ...) reaches that process
\* and not the Monitor; nothing ever detaches it.
SubscribeToEvents ==
    /\ ~attached
    /\ attached' = TRUE
    /\ UNCHANGED <<poolVars, workerVars, calls, poolHist, workerHist, exits>>

\* What a process that emits a subscribed event finds in its own mailbox.
Telemetry == IF attached THEN <<TelemetryMsg>> ELSE <<>>

-----------------------------------------------------------------------------
(* The pool's handlers.  Each consumes the head of the mailbox.            *)

Receives(type) == pool = "up" /\ mailbox # <<>> /\ Head(mailbox).type = type

\* Workers started with start_link: processes with an empty mailbox.
Start(new) ==
    /\ wstate' = [w \in Pid |-> IF w \in new THEN "idle" ELSE wstate[w]]
    /\ inbox' = [w \in Pid |-> IF w \in new THEN <<>> ELSE inbox[w]]
    /\ cur' = [w \in Pid |-> IF w \in new THEN NoTask ELSE cur[w]]

\* Mutant of HandleStartWorkers: 0..size instead of 1..size.
StartOneTooMany ==
    /\ Receives("start_workers")
    /\ mailbox' = Tail(mailbox)
    /\ \E new \in SUBSET Fresh :
          /\ Cardinality(new) = Size + 1
          /\ Start(new)
          /\ workers' = workers \cup new
    /\ UNCHANGED <<pool, tasks, processing, awaited, orphans, calls, attached,
                   poolHist, workerHist, exits>>

HandleStartWorkers ==
    /\ Receives("start_workers")
    /\ mailbox' = Tail(mailbox)
    /\ \E new \in SUBSET Fresh :
          /\ Cardinality(new) = Size
          /\ Start(new)
          /\ workers' = workers \cup new
    /\ UNCHANGED <<pool, tasks, processing, awaited, orphans, calls, attached,
                   poolHist, workerHist, exits>>

Reply(j, r) == calls' = IF calls[j] = "waiting" THEN [calls EXCEPT ![j] = r] ELSE calls

Available == {w \in workers : processing[w] = NoTask}

\* Mutant of AssignPendingTasks: the assigned task stays in the queue.
AssignWithoutDequeue(queue) ==
    /\ tasks' = queue
    /\ IF Available = {} \/ queue = <<>>
         THEN UNCHANGED <<processing, inbox>>
         ELSE \E w \in Available :
                 /\ processing' = [processing EXCEPT ![w] = Head(queue)]
                 /\ inbox' = [inbox EXCEPT ![w] =
                       IF w \in Alive THEN Append(@, ProcessTaskMsg(Head(queue))) ELSE @]

\* At most one task leaves the queue per submission, for a worker that the pool
\* believes idle; the worker may be dead with its exit still in the mailbox.
AssignPendingTasks(queue) ==
    IF Available = {} \/ queue = <<>>
      THEN tasks' = queue /\ UNCHANGED <<processing, inbox>>
      ELSE \E w \in Available :
              /\ tasks' = Tail(queue)
              /\ processing' = [processing EXCEPT ![w] = Head(queue)]
              /\ inbox' = [inbox EXCEPT ![w] =
                    IF w \in Alive THEN Append(@, ProcessTaskMsg(Head(queue))) ELSE @]

HandleSubmitTask ==
    /\ Receives("submit_task")
    /\ Head(mailbox).job \notin Invalid
    /\ LET j == Head(mailbox).job
       IN  /\ mailbox' = Tail(mailbox) \o Telemetry
           /\ AssignPendingTasks(Append(tasks, [job |-> j, attempt |-> 1]))
           /\ Reply(j, "ok")
           /\ accepted' = accepted \cup {j}
    /\ UNCHANGED <<pool, workers, awaited, wstate, cur, orphans, attached,
                   dropped, workerHist, exits>>

\* Mutant of RejectTask: {:noreply, state} for a task that does not validate.
RejectSilently ==
    /\ Receives("submit_task")
    /\ Head(mailbox).job \in Invalid
    /\ mailbox' = Tail(mailbox)
    /\ UNCHANGED <<pool, workers, tasks, processing, awaited, workerVars, calls,
                   attached, poolHist, workerHist, exits>>

RejectTask ==
    /\ Receives("submit_task")
    /\ Head(mailbox).job \in Invalid
    /\ mailbox' = Tail(mailbox)
    /\ Reply(Head(mailbox).job, "error")
    /\ UNCHANGED <<pool, workers, tasks, processing, awaited, workerVars,
                   attached, poolHist, workerHist, exits>>

\* Mutant of MaybeRestartWorker: the exited pid is not removed from the map.
RestartKeepsDeadWorker(remaining) ==
    \E w \in Fresh : Start({w}) /\ workers' = workers \cup {w}

\* maybe_restart_worker: one worker, if there are fewer than Size.
MaybeRestartWorker(remaining) ==
    IF Cardinality(remaining) < Size
      THEN \E w \in Fresh : Start({w}) /\ workers' = remaining \cup {w}
      ELSE workers' = remaining /\ UNCHANGED <<wstate, inbox, cur>>

\* Mutants of MaybeRetryTask: no counting; a task that is forgotten.
RetryWithoutCounting(t) ==
    /\ tasks' = IF t = NoTask THEN tasks ELSE Append(tasks, t)
    /\ mailbox' = Tail(mailbox)
    /\ UNCHANGED dropped

RetryForgotten(t) ==
    /\ tasks' = tasks
    /\ mailbox' = Tail(mailbox)
    /\ UNCHANGED dropped

\* maybe_retry_task: back of the queue with the next attempt number, without
\* looking for a worker; after the last attempt the task is given up and
\* task_failed is emitted.
MaybeRetryTask(t) ==
    IF t = NoTask
      THEN tasks' = tasks /\ mailbox' = Tail(mailbox) /\ UNCHANGED dropped
      ELSE IF t.attempt < MaxAttempts
        THEN /\ tasks' = Append(tasks, [t EXCEPT !.attempt = @ + 1])
             /\ mailbox' = Tail(mailbox)
             /\ UNCHANGED dropped
        ELSE /\ tasks' = tasks
             /\ mailbox' = Tail(mailbox) \o Telemetry
             /\ dropped' = dropped \cup {t.job}

\* handle_worker_exit with other workers left.  The monitor's :DOWN never
\* reaches a handler: exit signals to links precede those to monitors, and
\* demonitor with :flush removes it.  Map.get(workers, pid) is never nil here,
\* which demonitor could not take: that is ExitsAreOfRegisteredWorkers.
HandleWorkerExit ==
    /\ Receives("EXIT")
    /\ LET w == Head(mailbox).pid
           remaining == workers \ {w}
       IN  /\ w \in workers
           /\ remaining # {}
           /\ processing' = [processing EXCEPT ![w] = NoTask]
           /\ MaybeRestartWorker(remaining)
           /\ IF Head(mailbox).reason = "normal"
                THEN /\ mailbox' = Tail(mailbox)
                     /\ tasks' = tasks
                     /\ dropped' = IF processing[w] = NoTask THEN dropped
                                   ELSE dropped \cup {processing[w].job}
                ELSE MaybeRetryTask(processing[w])
    /\ UNCHANGED <<pool, awaited, orphans, calls, attached, accepted, workerHist, exits>>

\* terminate/2: Process.exit(pid, :shutdown) for every registered worker; a
\* worker traps exits, so this is a message.
Terminate(registered) ==
    /\ pool' = "terminating"
    /\ awaited' = registered
    /\ inbox' = [w \in Pid |-> IF w \in registered \cap Alive
                               THEN Append(inbox[w], ParentExitMsg) ELSE inbox[w]]

\* handle_worker_exit of the last worker: {:stop, :shutdown, state}.
LastWorkerExit ==
    /\ Receives("EXIT")
    /\ LET w == Head(mailbox).pid
       IN  /\ w \in workers
           /\ workers \ {w} = {}
           /\ workers' = {}
           /\ processing' = [processing EXCEPT ![w] = NoTask]
    /\ mailbox' = Tail(mailbox)
    /\ Terminate({})
    /\ UNCHANGED <<tasks, wstate, cur, orphans, calls, attached, poolHist,
                   workerHist, exits>>

\* Mutant of NoClause: a clause that ignores the message.
IgnoreMessage(type) ==
    /\ Receives(type)
    /\ mailbox' = Tail(mailbox)
    /\ UNCHANGED <<pool, workers, tasks, processing, awaited, workerVars, calls,
                   attached, poolHist, workerHist, exits>>

\* handle_info has no clause for {:task_complete, pid, result}, nor for
\* {:telemetry_event, ...}: a FunctionClauseError, and terminate/2 runs.
NoClause(type) ==
    /\ Receives(type)
    /\ mailbox' = Tail(mailbox)
    /\ Terminate(workers)
    /\ UNCHANGED <<workers, tasks, processing, wstate, cur, orphans, calls,
                   attached, poolHist, workerHist, exits>>

HandleTaskComplete   == NoClause("task_complete")
HandleTelemetryEvent == NoClause("telemetry_event")

-----------------------------------------------------------------------------
(* The end of the pool process, and its supervisor.                        *)

\* wait_for_workers: a selective receive of {:EXIT, pid, _}; a message of
\* another kind stays in the mailbox, where nothing reads it any more.
WaitForWorkers ==
    /\ pool = "terminating"
    /\ awaited # {}
    /\ mailbox # <<>>
    /\ mailbox' = Tail(mailbox)
    /\ awaited' = IF Head(mailbox).type = "EXIT"
                  THEN awaited \ {Head(mailbox).pid} ELSE awaited
    /\ UNCHANGED <<pool, workers, tasks, processing, workerVars, calls, attached,
                   poolHist, workerHist, exits>>

\* The pool process exits: its state and mailbox are gone, calls in progress
\* exit, and the links turn into exit messages to the workers still alive.
PoolExits ==
    /\ pool' = "down"
    /\ mailbox' = <<>>
    /\ workers' = {}
    /\ tasks' = <<>>
    /\ processing' = [w \in Pid |-> NoTask]
    /\ awaited' = {}
    /\ orphans' = orphans \cup (workers \cap Alive)
    /\ inbox' = [w \in Pid |-> IF w \in workers \cap Alive
                               THEN Append(inbox[w], ParentExitMsg) ELSE inbox[w]]
    /\ calls' = [j \in Job |-> IF calls[j] = "waiting" THEN "exit" ELSE calls[j]]
    /\ accepted' = {}
    /\ dropped' = {}
    /\ UNCHANGED <<wstate, cur, attached, workerHist, exits>>

AllWorkersStopped == pool = "terminating" /\ awaited = {} /\ PoolExits

\* @shutdown_timeout without an {:EXIT, ...} in the mailbox.
ShutdownTimeout ==
    /\ pool = "terminating"
    /\ awaited # {}
    /\ \A i \in 1..Len(mailbox) : mailbox[i].type # "EXIT"
    /\ PoolExits

\* Mutant of RestartPool: init/1 without the send of :start_workers.
RestartWithoutWorkers ==
    /\ pool = "down"
    /\ pool' = "up"
    /\ UNCHANGED <<mailbox, workers, tasks, processing, awaited, workerVars, calls,
                   attached, poolHist, workerHist, exits>>

\* The supervisor starts the pool again; init/1 sends :start_workers.
RestartPool ==
    /\ pool = "down"
    /\ pool' = "up"
    /\ mailbox' = <<StartWorkersMsg>>
    /\ UNCHANGED <<workers, tasks, processing, awaited, workerVars, calls, attached,
                   poolHist, workerHist, exits>>

-----------------------------------------------------------------------------
(* The worker processes.                                                   *)

SendPool(w, m) ==
    mailbox' = IF w \in orphans \/ pool = "down" THEN mailbox ELSE Append(mailbox, m)

\* A worker process ends: its link to the pool delivers the reason.
WorkerDies(w, reason) ==
    /\ wstate' = [wstate EXCEPT ![w] = "dead"]
    /\ inbox' = [inbox EXCEPT ![w] = <<>>]
    /\ cur' = [cur EXCEPT ![w] = NoTask]
    /\ orphans' = orphans \ {w}
    /\ SendPool(w, ExitMsg(w, reason))

WorkerReceives(w, type) ==
    wstate[w] = "idle" /\ inbox[w] # <<>> /\ Head(inbox[w]).type = type

\* handle_info({:process_task, task}) up to the end of process_task: the task
\* has run, inside a try that turns every raise into an {:error, _} result, and
\* task_complete or task_error was emitted in this process.
RunTask(w) ==
    /\ WorkerReceives(w, "process_task")
    /\ LET t == Head(inbox[w]).task
       IN  /\ wstate' = [wstate EXCEPT ![w] = "ran"]
           /\ cur' = [cur EXCEPT ![w] = t]
           /\ runs' = [runs EXCEPT ![t.job] = @ + 1]
    /\ inbox' = [inbox EXCEPT ![w] = Tail(@) \o Telemetry]
    /\ UNCHANGED <<poolVars, orphans, calls, attached, poolHist, marks, notified, exits>>

\* mark_block_complete or mark_block_failed: a cast to State, which cannot
\* fail.
MarkBlock(w) ==
    /\ wstate[w] = "ran"
    /\ cur[w].job \notin NoNumber
    /\ \E result \in {"ok", "error"} : marks' = marks \cup {<<cur[w].job, result>>}
    /\ wstate' = [wstate EXCEPT ![w] = "marked"]
    /\ UNCHANGED <<poolVars, inbox, cur, orphans, calls, attached, poolHist,
                   runs, notified, exits>>

\* task.data.number on a map without that key raises outside the try.
MarkRaises(w) ==
    /\ wstate[w] = "ran"
    /\ cur[w].job \in NoNumber
    /\ WorkerDies(w, "abnormal")
    /\ UNCHANGED <<pool, workers, tasks, processing, awaited, calls, attached,
                   poolHist, workerHist, exits>>

\* send(state.pool, {:task_complete, self(), result})
NotifyPool(w) ==
    /\ wstate[w] = "marked"
    /\ wstate' = [wstate EXCEPT ![w] = "idle"]
    /\ cur' = [cur EXCEPT ![w] = NoTask]
    /\ notified' = notified \cup {cur[w].job}
    /\ SendPool(w, CompleteMsg(w))
    /\ UNCHANGED <<pool, workers, tasks, processing, awaited, inbox, orphans,
                   calls, attached, poolHist, marks, runs, exits>>

\* An EXIT message of the pool (the worker's gen_server parent) stops it; for
\* {:telemetry_event, ...} handle_info has no clause.
WorkerStops(w) ==
    /\ WorkerReceives(w, "EXIT") \/ WorkerReceives(w, "telemetry_event")
    /\ WorkerDies(w, "abnormal")
    /\ UNCHANGED <<pool, workers, tasks, processing, awaited, calls, attached,
                   poolHist, workerHist, exits>>

\* Any other end of a worker process: killed, or (with another worker_module)
\* stopped with reason :normal.
WorkerExits(w, reason) ==
    /\ exits < MaxExits
    /\ w \in Alive
    /\ exits' = exits + 1
    /\ WorkerDies(w, reason)
    /\ UNCHANGED <<pool, workers, tasks, processing, awaited, calls, attached,
                   poolHist, workerHist>>

-----------------------------------------------------------------------------
CallerStep(j) == SubmitTask(j) \/ CallTimeout(j)

PoolStep ==
    \/ HandleStartWorkers \/ HandleSubmitTask \/ RejectTask
    \/ HandleWorkerExit \/ LastWorkerExit
    \/ HandleTaskComplete \/ HandleTelemetryEvent
    \/ WaitForWorkers \/ AllWorkersStopped \/ ShutdownTimeout

WorkerStep(w) ==
    RunTask(w) \/ MarkBlock(w) \/ MarkRaises(w) \/ NotifyPool(w) \/ WorkerStops(w)

Next ==
    \/ \E j \in Job : CallerStep(j)
    \/ SubscribeToEvents
    \/ PoolStep
    \/ RestartPool
    \/ \E w \in Pid : WorkerStep(w)
    \/ \E w \in Pid, reason \in {"normal", "abnormal"} : WorkerExits(w, reason)

Spec == Init /\ [][Next]_vars

\* The scheduler runs every process that has something to do, the supervisor
\* restarts its child, and the 30 s receive timer fires.  Callers need not
\* call, no call need time out and no worker need be killed.
Fairness ==
    /\ WF_vars(PoolStep)
    /\ WF_vars(RestartPool)
    /\ \A w \in Pid : WF_vars(WorkerStep(w))

FairSpec == Spec /\ Fairness

-----------------------------------------------------------------------------
(* Properties.                                                             *)

Queued     == {tasks[i].job : i \in 1..Len(tasks)}
InProgress == {processing[w].job : w \in {p \in Pid : processing[p] # NoTask}}

\* The tasks a worker process holds: in its mailbox or in its hands.
Holds(w) == ({cur[w]} \ {NoTask})
              \cup {inbox[w][i].task : i \in {k \in 1..Len(inbox[w]) :
                                               inbox[w][k].type = "process_task"}}

\* The pool's mailbox has worker w's {:EXIT, w, _} at position i.
IsExitOf(i, w) == mailbox[i].type = "EXIT" /\ mailbox[i].pid = w

\* Every variable holds a value of the kind the code gives it, and a worker in
\* the middle of handle_info({:process_task, task}) has a task in its hands.
TypeOK ==
    /\ pool \in {"up", "terminating", "down"}
    /\ mailbox \in Seq(Message)
    /\ workers \subseteq Pid
    /\ tasks \in Seq(Task)
    /\ processing \in [Pid -> Task \cup {NoTask}]
    /\ awaited \subseteq Pid
    /\ wstate \in [Pid -> {"dead", "idle", "ran", "marked"}]
    /\ inbox \in [Pid -> Seq(WorkerMessage)]
    /\ cur \in [Pid -> Task \cup {NoTask}]
    /\ \A w \in Pid : wstate[w] \in {"ran", "marked"} => cur[w] \in Task
    /\ orphans \subseteq Pid
    /\ calls \in [Job -> {"new", "waiting", "ok", "error", "exit"}]
    /\ marks \subseteq Job \X {"ok", "error"}
    /\ attached \in BOOLEAN
    /\ runs \in [Job -> Nat]
    /\ notified \subseteq Job
    /\ accepted \subseteq Job
    /\ dropped \subseteq Job
    /\ exits \in 0..MaxExits

\* While the pool serves requests, state.workers and the exits still in its
\* mailbox agree: a registered worker is dead exactly when its {:EXIT, ...} is
\* waiting, once, and no exit is of a pid that is not registered.  Otherwise
\* handle_worker_exit would pass nil to Process.demonitor, or a dead worker
\* would count as available for ever (worker_pool.ex, handle_worker_exit).
ExitsAreOfRegisteredWorkers ==
    pool = "up" =>
        /\ \A w \in workers \ Alive : \E i \in 1..Len(mailbox) : IsExitOf(i, w)
        /\ \A i \in 1..Len(mailbox), w \in Pid : IsExitOf(i, w) =>
               /\ w \in workers \ Alive
               /\ \A k \in 1..Len(mailbox) : IsExitOf(k, w) => k = i

\* start_workers and maybe_restart_worker together never register more than
\* Size workers, whatever the order of exits, crashes and restarts.
WorkersBounded == Cardinality(workers) <= Size

\* A task the pool accepted is, while that pool process serves, either given up
\* on purpose (normal exit of its worker, last attempt) or in exactly one of the
\* queue and the processing map, once: assignment, retry and restart neither
\* lose nor duplicate it.
NoSilentLoss ==
    pool = "up" =>
        /\ accepted \ dropped = Queued \cup InProgress
        /\ Queued \cap InProgress = {}
        /\ Cardinality(Queued) = Len(tasks)
        /\ \A v, w \in Pid :
              processing[v] # NoTask /\ processing[w] # NoTask
                /\ processing[v].job = processing[w].job => v = w

\* Two worker processes never hold the same job, workers left over from a dead
\* pool process and tasks sent to a worker that has just died included.
OneRunner ==
    \A v, w \in Pid : \A s \in Holds(v), t \in Holds(w) : s.job = t.job => v = w

\* No job is run more often than @max_attempts, and a task that waits in the
\* queue has been run fewer times than its attempt number says: no crash, retry
\* or restart loses count.
AttemptsBounded ==
    /\ \A j \in Job : runs[j] <= MaxAttempts
    /\ \A i \in 1..Len(tasks) : runs[tasks[i].job] < tasks[i].attempt

\* A job whose worker has announced its completion is never run again, although
\* its task stays in the processing map and the worker may crash later: the
\* announcement is ahead of the worker's exit in the pool's mailbox.
NoRunAfterCompletion ==
    [][\A j \in notified : runs'[j] = runs[j]]_vars

\* A pool that has begun to terminate serves again with all its workers:
\* wait_for_workers ends, the supervisor restarts it, and :start_workers is
\* handled before any request.
PoolRecovers == pool # "up" ~> (pool = "up" /\ Cardinality(workers) = Size)

\* Every caller of submit_task gets an answer or exits, even if no call timeout
\* ever fires: a request that the pool does not serve dies with the pool.
CallsResolve == \A j \in Job : calls[j] = "waiting" ~> calls[j] # "waiting"

\* What the comment "Notify worker pool task complete" (worker.ex:84) and the
\* send after it expect: the pool takes the notification and goes on serving.
NotificationAccepted ==
    [][Receives("task_complete") => pool' = "up"]_vars
=============================================================================
