---------------------------- MODULE SolverService ----------------------------
(***************************************************************************)
(* core::sat::solver::SequentialSolverService: a FIFO of packaged tasks,   *)
(* one working thread per solver, and a util::Timer that interrupts the    *)
(* solver of a task whose time limit has passed.                           *)
(*                                                                         *)
(* Threads: the workers; Main, which calls solve() and the destructor;     *)
(* Event, the event-handling thread, which calls interrupt(); and the      *)
(* timer's own thread.  One action is what a thread does between two       *)
(* points where another thread can see or change what it uses: a critical  *)
(* section of _queue_m or of the timer's _m, or one store to a flag.       *)
(***************************************************************************)
EXTENDS Naturals, Sequences, FiniteSets

CONSTANTS Workers,       \* the solvers; each has a working thread of its own
          Tasks,         \* the tasks the client may submit, each at most once
          Limited,       \* those submitted with time_limit # DUR_INDEF
          Verdict,       \* [Tasks -> {"SAT", "UNSAT"}], what a full search finds
          MaxInterrupts, \* bound on the calls of interrupt() by the Event thread
          None

Main  == "main"
Event == "event"
Outside == {Main, Event}

Results == {"SAT", "UNSAT", "UNKNOWN"}

ASSUME ConstantsAssumption ==
    /\ Limited \subseteq Tasks
    /\ Verdict \in [Tasks -> {"SAT", "UNSAT"}]
    /\ MaxInterrupts \in Nat
    /\ None \notin Tasks \cup Workers \cup Results
    /\ Outside \cap Workers = {}

(* The constructor starts one thread for each member of a vector of solvers. *)
ASSUME WorkersAssumption == IsFiniteSet(Workers)

VARIABLES
    stop,       \* _stop
    queue,      \* _task_queue
    future,     \* the shared state behind each task's std::future
    pc,         \* where each working thread is
    task,       \* the task a worker has popped
    res,        \* the State its solver returned
    flag,       \* the asynchronous interrupt flag of each solver
    timer,      \* the TimerEvent of each limited task
    armedBy,    \* the solver captured by the event's callback
    todo,       \* solvers a running interrupt() or destructor has yet to reach
    client,     \* where the threads Main and Event are
    interrupts, \* calls of interrupt() so far
    blame       \* history: who interrupted the solver while it held the task

serviceVars == <<stop, queue, future, pc, task, res>>
solverVars  == <<flag, timer, armedBy, blame>>
callerVars  == <<todo, client, interrupts>>
vars == <<stop, queue, future, pc, task, res, flag, timer, armedBy,
          todo, client, interrupts, blame>>

Callers == Outside \cup Workers

(* "armed" and "aborted" events are in Timer::_events; a "lost" one never    *)
(* got there, a "firing" one has been found due and not aborted, under _m.   *)
TimerStates == {"none", "armed", "lost", "firing", "fired", "aborted"}

WorkerStates == {"idle", "waiting", "arm", "enter", "search", "abort",
                 "callback", "interrupting", "finish", "exited"}

Holding == WorkerStates \ {"idle", "waiting", "exited"}

TypeOK ==
    /\ stop \in BOOLEAN
    /\ queue \in Seq(Tasks)
    /\ future \in [Tasks -> {"none", "pending", "broken"} \cup Results]
    /\ pc \in [Workers -> WorkerStates]
    /\ task \in [Workers -> Tasks \cup {None}]
    /\ res \in [Workers -> Results \cup {None}]
    /\ flag \in [Workers -> BOOLEAN]
    /\ timer \in [Tasks -> TimerStates]
    /\ armedBy \in [Tasks -> Workers \cup {None}]
    /\ todo \in [Callers -> SUBSET Workers]
    /\ client \in [Outside -> {"free", "notifying", "interrupting", "joining", "gone"}]
    /\ interrupts \in 0..MaxInterrupts
    /\ blame \in [Tasks -> SUBSET (Tasks \cup {None})]

Init ==
    /\ stop = FALSE
    /\ queue = <<>>
    /\ future = [t \in Tasks |-> "none"]
    /\ pc = [w \in Workers |-> "idle"]
    /\ task = [w \in Workers |-> None]
    /\ res = [w \in Workers |-> None]
    /\ flag = [w \in Workers |-> FALSE]
    /\ timer = [t \in Tasks |-> "none"]
    /\ armedBy = [t \in Tasks |-> None]
    /\ todo = [c \in Callers |-> {}]
    /\ client = [c \in Outside |-> "free"]
    /\ interrupts = 0
    /\ blame = [t \in Tasks |-> {}]

----------------------------------------------------------------------------
(* Helpers.                                                                *)

Goto(w, to) == pc' = [pc EXCEPT ![w] = to]

InQueue == {queue[i] : i \in 1..Len(queue)}

(* _queue_cv.notify_one(): some waiting thread, if there is one, is woken. *)
NotifyOne ==
    IF \E w \in Workers : pc[w] = "waiting"
    THEN \E w \in Workers : pc[w] = "waiting" /\ Goto(w, "idle")
    ELSE UNCHANGED pc

(* _task_queue = {}: destroying a packaged task that has not run stores a    *)
(* broken_promise in its future.                                            *)
DropQueue ==
    /\ queue' = <<>>
    /\ future' = [t \in Tasks |-> IF t \in InQueue THEN "broken" ELSE future[t]]

(* solver.interrupt() by `who`: a task (its timer) or None (interrupt()).   *)
SetFlag(w, who) ==
    /\ flag' = [flag EXCEPT ![w] = TRUE]
    /\ blame' = [t \in Tasks |-> IF t = task[w] THEN blame[t] \cup {who} ELSE blame[t]]

(* Timer::_m is held from the check of `aborted` to the end of the callback. *)
TimerBusy == \E t \in Tasks : timer[t] = "firing"

----------------------------------------------------------------------------
(* Faulty variants of the operations below; the properties must notice them. *)

NotifyNobody ==
    /\ client[Main] = "notifying"
    /\ client' = [client EXCEPT ![Main] = "free"]
    /\ UNCHANGED <<serviceVars, solverVars, todo, interrupts>>

NotifyAllWakesOne ==
    /\ client[Main] = "interrupting"
    /\ todo[Main] = {}
    /\ NotifyOne
    /\ client' = [client EXCEPT ![Main] = "joining"]
    /\ UNCHANGED <<stop, queue, future, task, res, solverVars, todo, interrupts>>

TakeWithoutPop(w) ==
    /\ pc[w] = "idle"
    /\ ~stop
    /\ queue # <<>>
    /\ task' = [task EXCEPT ![w] = Head(queue)]
    /\ Goto(w, IF Head(queue) \in Limited THEN "arm" ELSE "enter")
    /\ UNCHANGED <<stop, queue, future, res, solverVars, callerVars>>

EnterWithoutClear(w) ==
    /\ pc[w] = "enter"
    /\ Goto(w, "search")
    /\ UNCHANGED <<stop, queue, future, task, res, solverVars, callerVars>>

FinishTwoValued(w) ==
    /\ pc[w] = "finish"
    /\ future' = [future EXCEPT ![task[w]] = IF res[w] = "SAT" THEN "SAT" ELSE "UNSAT"]
    /\ task' = [task EXCEPT ![w] = None]
    /\ res' = [res EXCEPT ![w] = None]
    /\ Goto(w, "idle")
    /\ UNCHANGED <<stop, queue, solverVars, callerVars>>

----------------------------------------------------------------------------
(* The API: solve(), interrupt(), the destructor.                          *)

Solve(t) ==
    /\ client[Main] = "free"
    /\ future[t] = "none"
    /\ future' = [future EXCEPT ![t] = "pending"]
    /\ queue' = Append(queue, t)
    /\ client' = [client EXCEPT ![Main] = "notifying"]
    /\ UNCHANGED <<stop, pc, task, res, solverVars, todo, interrupts>>

(* The end of solve(): notify_one, after _queue_m has been released. *)
Notify ==
    /\ client[Main] = "notifying"
    /\ NotifyOne
    /\ client' = [client EXCEPT ![Main] = "free"]
    /\ UNCHANGED <<stop, queue, future, task, res, solverVars, todo, interrupts>>

Interrupt ==
    /\ client[Event] = "free"
    /\ client[Main] \in {"free", "notifying"}
    /\ interrupts < MaxInterrupts
    /\ interrupts' = interrupts + 1
    /\ DropQueue
    /\ client' = [client EXCEPT ![Event] = "interrupting"]
    /\ todo' = [todo EXCEPT ![Event] = Workers]
    /\ UNCHANGED <<stop, pc, task, res, solverVars>>

(* The destructor's critical section.  No call is in progress by then: the  *)
(* object may not be used by another thread while it is destroyed.           *)
Destroy ==
    /\ client[Main] = "free"
    /\ client[Event] = "free"
    /\ stop' = TRUE
    /\ DropQueue
    /\ client' = [client EXCEPT ![Main] = "interrupting"]
    /\ todo' = [todo EXCEPT ![Main] = Workers]
    /\ UNCHANGED <<pc, task, res, solverVars, interrupts>>

(* One call of solver->interrupt() of the for_each over _solvers, which     *)
(* IPS_EXEC_POLICY may run in any order.                                    *)
InterruptSolver(c, w) ==
    /\ w \in todo[c]
    /\ todo' = [todo EXCEPT ![c] = @ \ {w}]
    /\ SetFlag(w, None)
    /\ UNCHANGED <<serviceVars, timer, armedBy, client, interrupts>>

InterruptReturns ==
    /\ client[Event] = "interrupting"
    /\ todo[Event] = {}
    /\ client' = [client EXCEPT ![Event] = "free"]
    /\ UNCHANGED <<serviceVars, solverVars, todo, interrupts>>

(* The destructor again: notify_all, then the joins. *)
NotifyAll ==
    /\ client[Main] = "interrupting"
    /\ todo[Main] = {}
    /\ pc' = [w \in Workers |-> IF pc[w] = "waiting" THEN "idle" ELSE pc[w]]
    /\ client' = [client EXCEPT ![Main] = "joining"]
    /\ UNCHANGED <<stop, queue, future, task, res, solverVars, todo, interrupts>>

Join ==
    /\ client[Main] = "joining"
    /\ \A w \in Workers : pc[w] = "exited"
    /\ client' = [client EXCEPT ![Main] = "gone"]
    /\ UNCHANGED <<serviceVars, solverVars, todo, interrupts>>

----------------------------------------------------------------------------
(* _solver_working_thread: the wait, the pop, and task(solver).            *)

Wait(w) ==
    /\ pc[w] = "idle"
    /\ ~stop
    /\ queue = <<>>
    /\ Goto(w, "waiting")
    /\ UNCHANGED <<stop, queue, future, task, res, solverVars, callerVars>>

SpuriousWakeup(w) ==
    /\ pc[w] = "waiting"
    /\ Goto(w, "idle")
    /\ UNCHANGED <<stop, queue, future, task, res, solverVars, callerVars>>

Exit(w) ==
    /\ pc[w] = "idle"
    /\ stop
    /\ Goto(w, "exited")
    /\ UNCHANGED <<stop, queue, future, task, res, solverVars, callerVars>>

Take(w) ==
    /\ pc[w] = "idle"
    /\ ~stop
    /\ queue # <<>>
    /\ task' = [task EXCEPT ![w] = Head(queue)]
    /\ queue' = Tail(queue)
    /\ Goto(w, IF Head(queue) \in Limited THEN "arm" ELSE "enter")
    /\ UNCHANGED <<stop, future, res, solverVars, callerVars>>

(* Timer::launch -> Timer::add.  std::set compares events by `when` alone,   *)
(* so an event due at the very instant of another one is not inserted.      *)
Arm(w) ==
    /\ pc[w] = "arm"
    /\ ~TimerBusy
    /\ \E s \in {"armed", "lost"} :
          /\ s = "lost" => \E t \in Tasks : timer[t] \in {"armed", "aborted"}
          /\ timer' = [timer EXCEPT ![task[w]] = s]
    /\ armedBy' = [armedBy EXCEPT ![task[w]] = w]
    /\ Goto(w, "enter")
    /\ UNCHANGED <<stop, queue, future, task, res, flag, blame, callerVars>>

(* The first line of every Solver::solve(): clear_interrupt(). *)
Enter(w) ==
    /\ pc[w] = "enter"
    /\ flag' = [flag EXCEPT ![w] = FALSE]
    /\ Goto(w, "search")
    /\ UNCHANGED <<stop, queue, future, task, res, timer, armedBy, blame, callerVars>>

Returned(w, r) ==
    /\ pc[w] = "search"
    /\ res' = [res EXCEPT ![w] = r]
    /\ Goto(w, IF task[w] \in Limited THEN "abort" ELSE "callback")
    /\ UNCHANGED <<stop, queue, future, task, solverVars, callerVars>>

(* The search ends by itself. *)
Answer(w) == Returned(w, Verdict[task[w]])

(* The search sees its interrupt flag. *)
GiveUp(w) == flag[w] /\ Returned(w, "UNKNOWN")

(* Timer::launch -> handle->abort(), without the timer's mutex. *)
Abort(w) ==
    /\ pc[w] = "abort"
    /\ timer' = [timer EXCEPT ![task[w]] = IF @ = "armed" THEN "aborted" ELSE @]
    /\ Goto(w, "callback")
    /\ UNCHANGED <<stop, queue, future, task, res, flag, armedBy, blame, callerVars>>

(* The callbacks of both clients call interrupt() on SAT and only record    *)
(* the State otherwise.                                                     *)
Callback(w) ==
    /\ pc[w] = "callback"
    /\ res[w] # "SAT"
    /\ Goto(w, "finish")
    /\ UNCHANGED <<stop, queue, future, task, res, solverVars, callerVars>>

CallbackInterrupts(w) ==
    /\ pc[w] = "callback"
    /\ res[w] = "SAT"
    /\ DropQueue
    /\ todo' = [todo EXCEPT ![w] = Workers]
    /\ Goto(w, "interrupting")
    /\ UNCHANGED <<stop, task, res, solverVars, client, interrupts>>

CallbackReturns(w) ==
    /\ pc[w] = "interrupting"
    /\ todo[w] = {}
    /\ Goto(w, "finish")
    /\ UNCHANGED <<stop, queue, future, task, res, solverVars, callerVars>>

(* The packaged task stores its result. *)
Finish(w) ==
    /\ pc[w] = "finish"
    /\ future' = [future EXCEPT ![task[w]] = res[w]]
    /\ task' = [task EXCEPT ![w] = None]
    /\ res' = [res EXCEPT ![w] = None]
    /\ Goto(w, "idle")
    /\ UNCHANGED <<stop, queue, solverVars, callerVars>>

----------------------------------------------------------------------------
(* The timer's thread.  Time is abstracted: an event may be found due at any *)
(* moment after it was added (Timer.tla has the clock).                      *)

Due(t) ==
    /\ timer[t] = "armed"
    /\ ~TimerBusy
    /\ timer' = [timer EXCEPT ![t] = "firing"]
    /\ UNCHANGED <<serviceVars, flag, armedBy, blame, callerVars>>

Fire(t) ==
    /\ timer[t] = "firing"
    /\ timer' = [timer EXCEPT ![t] = "fired"]
    /\ SetFlag(armedBy[t], t)
    /\ UNCHANGED <<serviceVars, armedBy, callerVars>>

----------------------------------------------------------------------------
WorkerStep(w) ==
    \/ Wait(w) \/ Exit(w) \/ Take(w) \/ Arm(w) \/ Enter(w) \/ GiveUp(w)
    \/ Abort(w) \/ Callback(w) \/ CallbackInterrupts(w) \/ CallbackReturns(w)
    \/ Finish(w)

CallerStep(c) ==
    \/ \E w \in Workers : InterruptSolver(c, w)
    \/ c = Event /\ InterruptReturns
    \/ c = Main /\ (Notify \/ NotifyAll \/ Join)

TimerStep == \E t \in Tasks : Fire(t)

(* Main may do nothing more at all once it has destroyed the service, or     *)
(* when it has nothing left to submit.                                       *)
Quiet ==
    /\ \A w \in Workers : pc[w] = "exited"
    /\ client[Main] = "gone"
    /\ UNCHANGED vars

Next ==
    \/ \E t \in Tasks : Solve(t) \/ Due(t)
    \/ Interrupt \/ Destroy
    \/ \E w \in Workers : WorkerStep(w) \/ Answer(w) \/ SpuriousWakeup(w)
    \/ \E c \in Callers : CallerStep(c)
    \/ TimerStep
    \/ Quiet

Spec == Init /\ [][Next]_vars

(* Every thread that can run runs.  Nothing is assumed of how long a search *)
(* takes, of whether a limit is reached, or of what the client calls.        *)
Fairness ==
    /\ \A w \in Workers : WF_vars(WorkerStep(w))
    /\ \A c \in Callers : WF_vars(CallerStep(c))
    /\ WF_vars(TimerStep)

FairSpec == Spec /\ Fairness

(* Moreover, every search ends by itself sooner or later. *)
SearchesEnd == \A w \in Workers : WF_vars(Answer(w))

TerminatingSpec == FairSpec /\ SearchesEnd

----------------------------------------------------------------------------
(* Properties.                                                             *)

HeldBy(w) == IF pc[w] \in Holding THEN {task[w]} ELSE {}

QueuedOnce == \A i, j \in 1..Len(queue) : queue[i] = queue[j] => i = j

HeldOnce == \A v, w \in Workers : v # w => HeldBy(v) \cap HeldBy(w) = {}

HeldNotQueued == \A w \in Workers : HeldBy(w) \cap InQueue = {}

Owned(t) == t \in InQueue \/ \E w \in Workers : t \in HeldBy(w)

PendingOwned == \A t \in Tasks : future[t] = "pending" <=> Owned(t)

(* Every pending future has exactly one owner who will settle it: its task *)
(* is in _task_queue once, or in the hands of one working thread, never    *)
(* both, and no settled task is anywhere.  (solve, pop, interrupt and the  *)
(* destructor all move tasks; none may duplicate or strand one.)           *)
OneOwner == QueuedOnce /\ HeldOnce /\ HeldNotQueued /\ PendingOwned

(* A task ends UNKNOWN only if somebody interrupted its solver while the   *)
(* solver held it: an interrupt of an earlier task, or of an idle solver,  *)
(* is cleared on entry to Solver::solve and never spoils the next task.    *)
UnknownExplained ==
    \A t \in Tasks : future[t] = "UNKNOWN" => blame[t] # {}

(* The pool is work-conserving: while some thread sleeps on _queue_cv there *)
(* are as many threads awake and about to pop as there are tasks queued,    *)
(* one less only while solve() is about to notify, so no wake-up is lost    *)
(* between push, notify_one, the wait and a concurrent interrupt().         *)
InState(s) == {w \in Workers : pc[w] = s}

AboutToWake == IF client[Main] = "notifying" THEN 1 ELSE 0

WorkConserving ==
    InState("waiting") # {} =>
        Cardinality(InState("idle")) + AboutToWake >= Len(queue)

(* The service implements its contract, task by task. *)
Holder(t) == CHOOSE w \in Workers : t \in HeldBy(w)

StageOf(t) ==
    IF future[t] \in {"none", "broken"} THEN future[t]
    ELSE IF future[t] # "pending" THEN "ready"
    ELSE IF t \in InQueue THEN "queued"
    ELSE IF res[Holder(t)] = None THEN "running" ELSE "reporting"

AnswerOf(t) ==
    IF future[t] \in Results THEN future[t]
    ELSE IF StageOf(t) = "reporting" THEN res[Holder(t)]
    ELSE "none"

Contract == INSTANCE ServiceContract
                WITH verdict <- Verdict,
                     stage   <- [t \in Tasks |-> StageOf(t)],
                     answer  <- [t \in Tasks |-> AnswerOf(t)]

(* The refinement: every step of the service is a step of ServiceContract, *)
(* so a client sees only truthful answers, a future that becomes ready     *)
(* after its callback has returned and never changes afterwards, and no    *)
(* dropped task that is run after all.                                     *)
ImplementsContract == Contract!ContractSpec

(* Every future is settled, if every search ends: no task is forgotten by  *)
(* the queue, by the workers, by interrupt() or by the destructor.         *)
FuturesSettle ==
    \A t \in Tasks : (future[t] = "pending") ~> (future[t] # "pending")

(* The destructor returns, if every search ends. *)
DestructorReturns == (client[Main] = "interrupting") ~> (client[Main] = "gone")

=============================================================================
