------------------------------- MODULE Painless -------------------------------
(***************************************************************************)
(* core::sat::solver::PainlessSolver with the painless::Portfolio and the  *)
(* painless::SequentialWorker threads behind it: solve() hands the same    *)
(* assumptions to every worker, the first answer that joins wins, the      *)
(* others are interrupted; interrupt() may come at any time; the           *)
(* destructor stops and joins the workers.                                 *)
(*                                                                         *)
(* A call of solve() is known by its index, so a result names the call     *)
(* whose assumptions it answers.  The unlocked fields are read and written *)
(* one at a time in the order of the source.                               *)
(***************************************************************************)
EXTENDS Naturals, Sequences, FiniteSets

CONSTANTS Workers,       \* the SequentialWorkers, one per solver
          Reducers,      \* those whose solver is a painless::Reducer
          Truth,         \* Truth[k]: the right answer to the k-th solve()
          MaxInterrupts, \* calls of interrupt() from another thread
          Nobody

ASSUME PainlessAssumption ==
    /\ IsFiniteSet(Workers)
    /\ Reducers \subseteq Workers /\ Reducers # Workers
    /\ Truth \in Seq({"SAT", "UNSAT"})
    /\ MaxInterrupts \in Nat
    /\ {Nobody, "caller", "interrupter"} \cap Workers = {}

VARIABLES
    pc,              \* where the thread inside PainlessSolver is
    todo,            \* the workers its current loop has not visited
    solve_index,     \* PainlessSolver::solve_index
    interrupted,     \* PainlessSolver::_interrupted
    global_ending, final_result, final_model,   \* WorkingResult; a model is the index it belongs to
    current_index, strategyEnding,              \* Portfolio
    join_mutex,      \* who holds Portfolio::join_mutex
    result_lock,     \* who holds WorkingResult::lock for more than one step
    wpc,             \* where each worker's thread is
    index,           \* the current_index of each worker
    task,            \* its _task; 0 when there is none
    job,             \* the task it has popped
    res,             \* the result of its last search
    w_interrupted,   \* SequentialWorker::_interrupted
    s_interrupt,     \* the interrupt flag of its solver
    w_stop,          \* SequentialWorker::_stop
    sets,            \* the flag writes of a setInterrupt() in progress, by thread
    got,             \* what the last wait read from final_result
    answers,         \* history: what the calls of solve() returned
    interrupts       \* history: calls of interrupt() so far

callerVars == <<pc, todo, solve_index, got, answers>>
resultVars == <<global_ending, final_result, final_model>>
portVars   == <<current_index, strategyEnding>>
workVars   == <<wpc, index, task, job, res, w_stop>>
flagVars   == <<w_interrupted, s_interrupt>>
lockVars   == <<join_mutex, result_lock>>
breakVars  == <<interrupted, interrupts>>
vars == <<callerVars, resultVars, portVars, workVars, flagVars, lockVars, breakVars, sets>>

Results == {"SAT", "UNSAT", "UNKNOWN"}
MaxSolves == Len(Truth)
Threads == Workers \cup {"caller", "interrupter"}

(* setInterrupt() writes the solver's flag and then the worker's. *)
SetInterrupt(ws) == {<<w, f>> : w \in ws, f \in {"solver", "worker"}}

Init ==
    /\ pc = "idle" /\ todo = {} /\ solve_index = 0
    /\ got = "UNKNOWN" /\ answers = <<>>
    /\ global_ending = FALSE /\ final_result = "UNKNOWN" /\ final_model = 0
    /\ current_index = 0 /\ strategyEnding = FALSE
    /\ join_mutex = Nobody /\ result_lock = Nobody
    /\ wpc = [w \in Workers |-> "wait"]
    /\ index = [w \in Workers |-> 0]
    /\ task = [w \in Workers |-> 0]
    /\ job = [w \in Workers |-> 0]
    /\ res = [w \in Workers |-> "UNKNOWN"]
    /\ w_interrupted = [w \in Workers |-> FALSE]
    /\ s_interrupt = [w \in Workers |-> FALSE]
    /\ w_stop = [w \in Workers |-> FALSE]
    /\ sets = [t \in Threads |-> {}]
    /\ interrupted = FALSE /\ interrupts = 0

Goto(w, to) == wpc' = [wpc EXCEPT ![w] = to]

(* One write of a setInterrupt() that thread t is in. *)
WriteFlag(t) ==
    /\ \E x \in sets[t] :
          /\ x[2] = "worker" => <<x[1], "solver">> \notin sets[t]
          /\ sets' = [sets EXCEPT ![t] = @ \ {x}]
          /\ IF x[2] = "solver"
             THEN s_interrupt' = [s_interrupt EXCEPT ![x[1]] = TRUE] /\ UNCHANGED w_interrupted
             ELSE w_interrupted' = [w_interrupted EXCEPT ![x[1]] = TRUE] /\ UNCHANGED s_interrupt
    /\ UNCHANGED <<callerVars, resultVars, portVars, workVars, lockVars, breakVars>>

----------------------------------------------------------------------------
(* Faulty variants of the operations below; the properties must notice them. *)

(* Portfolio::solve with its two assignments swapped. *)
SetIndexLast ==
    /\ \/ pc = "index" /\ strategyEnding' = FALSE /\ pc' = "ending"
          /\ UNCHANGED <<current_index, todo>>
       \/ pc = "ending" /\ current_index' = solve_index /\ pc' = "post" /\ todo' = Workers
          /\ UNCHANGED strategyEnding
    /\ UNCHANGED <<solve_index, got, answers, resultVars, workVars, flagVars, lockVars, breakVars, sets>>

(* A wait for a result that does not look at _interrupted. *)
WaitOnlyForResult ==
    /\ pc = "wait" /\ result_lock = Nobody
    /\ global_ending
    /\ got' = final_result
    /\ sets' = [sets EXCEPT !["caller"] = SetInterrupt(Workers)]
    /\ pc' = "await" /\ todo' = Workers
    /\ UNCHANGED <<solve_index, answers, resultVars, portVars, workVars, flagVars, lockVars, breakVars>>

(* Portfolio::join without the test of strategyEnding and global_ending. *)
JoinTwice(w) ==
    /\ wpc[w] = "lock" /\ join_mutex = Nobody
    /\ IF res[w] = "UNKNOWN" \/ job[w] # current_index
       THEN Goto(w, "wait") /\ UNCHANGED <<strategyEnding, join_mutex, sets>>
       ELSE /\ strategyEnding' = TRUE
            /\ join_mutex' = w
            /\ sets' = [sets EXCEPT ![w] = SetInterrupt(Workers)]
            /\ Goto(w, "store")
    /\ UNCHANGED <<callerVars, resultVars, current_index, index, task, job, res, w_stop, flagVars,
                   result_lock, breakVars>>

----------------------------------------------------------------------------
(* PainlessSolver::solve and ~PainlessSolver. *)

(* clear_interrupt, under WorkingResult::lock, and ++solve_index. *)
Solve ==
    /\ pc = "idle" /\ solve_index < MaxSolves /\ result_lock = Nobody
    /\ interrupted' = FALSE
    /\ w_interrupted' = [w \in Workers |-> FALSE]
    /\ s_interrupt' = [w \in Workers |-> FALSE]
    /\ solve_index' = solve_index + 1
    /\ pc' = "reset"
    /\ UNCHANGED <<todo, got, answers, resultVars, portVars, workVars, lockVars, interrupts, sets>>

(* The three assignments to _result, without the lock. *)
ResetResult ==
    /\ \/ pc = "reset" /\ global_ending' = FALSE /\ pc' = "result"
          /\ UNCHANGED <<final_result, final_model>>
       \/ pc = "result" /\ final_result' = "UNKNOWN" /\ pc' = "model"
          /\ UNCHANGED <<global_ending, final_model>>
       \/ pc = "model" /\ final_model' = 0 /\ pc' = "index"
          /\ UNCHANGED <<global_ending, final_result>>
    /\ UNCHANGED <<todo, solve_index, got, answers, portVars, workVars, flagVars, lockVars, breakVars, sets>>

(* The two assignments of Portfolio::solve. *)
SetIndex ==
    /\ \/ pc = "index" /\ current_index' = solve_index /\ pc' = "ending"
          /\ UNCHANGED <<strategyEnding, todo>>
       \/ pc = "ending" /\ strategyEnding' = FALSE /\ pc' = "post" /\ todo' = Workers
          /\ UNCHANGED current_index
    /\ UNCHANGED <<solve_index, got, answers, resultVars, workVars, flagVars, lockVars, breakVars, sets>>

(* SequentialWorker::solve: it replaces a task that has not been popped. *)
Post(w) ==
    /\ pc = "post" /\ w \in todo
    /\ w_interrupted' = [w_interrupted EXCEPT ![w] = FALSE]
    /\ s_interrupt' = [s_interrupt EXCEPT ![w] = FALSE]
    /\ index' = [index EXCEPT ![w] = solve_index]
    /\ task' = [task EXCEPT ![w] = solve_index]
    /\ todo' = todo \ {w}
    /\ pc' = IF todo' = {} THEN "wait" ELSE pc
    /\ UNCHANGED <<solve_index, got, answers, resultVars, portVars, wpc, job, res, w_stop, lockVars,
                   breakVars, sets>>

(* The wait for a result or an interrupt ends; setInterrupt() begins. *)
WaitResult ==
    /\ pc = "wait" /\ result_lock = Nobody
    /\ global_ending \/ interrupted
    /\ got' = final_result
    /\ sets' = [sets EXCEPT !["caller"] = SetInterrupt(Workers)]
    /\ pc' = "await" /\ todo' = Workers
    /\ UNCHANGED <<solve_index, answers, resultVars, portVars, workVars, flagVars, lockVars, breakVars>>

(* waitInterrupt: the worker's interrupt_mutex is free at some moment. *)
WaitInterrupt(w) ==
    /\ pc = "await" /\ sets["caller"] = {} /\ w \in todo
    /\ wpc[w] # "search"
    /\ todo' = todo \ {w}
    /\ UNCHANGED <<pc, solve_index, got, answers, resultVars, portVars, workVars, flagVars, lockVars,
                   breakVars, sets>>

Return ==
    /\ pc = "await" /\ sets["caller"] = {} /\ todo = {}
    /\ answers' = Append(answers, [state |-> got, model |-> final_model])
    /\ pc' = "idle"
    /\ UNCHANGED <<todo, solve_index, got, resultVars, portVars, workVars, flagVars, lockVars, breakVars,
                   sets>>

Destroy ==
    /\ pc = "idle" /\ sets["interrupter"] = {} /\ result_lock = Nobody
    /\ pc' = "stop" /\ todo' = Workers
    /\ sets' = [sets EXCEPT !["caller"] = SetInterrupt(Workers)]
    /\ UNCHANGED <<solve_index, got, answers, resultVars, portVars, workVars, flagVars, lockVars, breakVars>>

(* SequentialWorker::stop, up to the join of its thread. *)
Stop(w) ==
    /\ pc = "stop" /\ sets["caller"] = {} /\ w \in todo /\ ~w_stop[w]
    /\ sets' = [sets EXCEPT !["caller"] = SetInterrupt({w})]
    /\ w_stop' = [w_stop EXCEPT ![w] = TRUE]
    /\ UNCHANGED <<callerVars, resultVars, portVars, wpc, index, task, job, res, flagVars, lockVars,
                   breakVars>>

JoinThread(w) ==
    /\ pc = "stop" /\ w \in todo /\ w_stop[w] /\ wpc[w] = "done"
    /\ sets["caller"] = {}
    /\ todo' = todo \ {w}
    /\ pc' = IF todo' = {} THEN "destroyed" ELSE pc
    /\ UNCHANGED <<solve_index, got, answers, resultVars, portVars, workVars, flagVars, lockVars, breakVars,
                   sets>>

----------------------------------------------------------------------------
(* PainlessSolver::interrupt, from another thread, under WorkingResult::lock. *)

Interrupt ==
    /\ interrupts < MaxInterrupts /\ pc \notin {"stop", "destroyed"}
    /\ result_lock = Nobody
    /\ result_lock' = "interrupter"
    /\ interrupted' = TRUE
    /\ sets' = [sets EXCEPT !["interrupter"] = SetInterrupt(Workers)]
    /\ interrupts' = interrupts + 1
    /\ UNCHANGED <<callerVars, resultVars, portVars, workVars, flagVars, join_mutex>>

InterruptEnds ==
    /\ result_lock = "interrupter" /\ sets["interrupter"] = {}
    /\ result_lock' = Nobody
    /\ UNCHANGED <<callerVars, resultVars, portVars, workVars, flagVars, join_mutex, breakVars, sets>>

----------------------------------------------------------------------------
(* SequentialWorker::main_worker_thread. *)

Quit(w) ==
    /\ wpc[w] = "wait" /\ w_stop[w]
    /\ Goto(w, "done")
    /\ UNCHANGED <<callerVars, resultVars, portVars, index, task, job, res, w_stop, flagVars, lockVars,
                   breakVars, sets>>

Pop(w) ==
    /\ wpc[w] = "wait" /\ ~w_stop[w] /\ task[w] # 0
    /\ job' = [job EXCEPT ![w] = task[w]]
    /\ task' = [task EXCEPT ![w] = 0]
    /\ Goto(w, "enter")
    /\ UNCHANGED <<callerVars, resultVars, portVars, index, res, w_stop, flagVars, lockVars, breakVars,
                   sets>>

(* interrupt_mutex is taken; MapleCOMSPSSolver::solve clears the interrupt *)
(* flag before it searches, Reducer::solve does not.                       *)
Enter(w) ==
    /\ wpc[w] = "enter"
    /\ s_interrupt' = IF w \in Reducers THEN s_interrupt ELSE [s_interrupt EXCEPT ![w] = FALSE]
    /\ Goto(w, "search")
    /\ UNCHANGED <<callerVars, resultVars, portVars, index, task, job, res, w_stop, w_interrupted,
                   lockVars, breakVars, sets>>

(* The search returns r.  A Reducer only ever answers UNSAT. *)
SearchReturns(w, r) ==
    /\ wpc[w] = "search"
    /\ res' = [res EXCEPT ![w] = r]
    /\ Goto(w, "check")
    /\ UNCHANGED <<callerVars, resultVars, portVars, index, task, job, w_stop, flagVars, lockVars,
                   breakVars, sets>>

Answer(w) ==
    /\ wpc[w] = "search"
    /\ w \in Reducers => Truth[job[w]] = "UNSAT" /\ ~s_interrupt[w]
    /\ SearchReturns(w, Truth[job[w]])

GiveUp(w) == s_interrupt[w] /\ SearchReturns(w, "UNKNOWN")

(* The condition of the do-while loop; join() begins with setInterrupt(). *)
Check(w) ==
    /\ wpc[w] = "check"
    /\ IF res[w] = "UNKNOWN" /\ ~w_interrupted[w]
       THEN Goto(w, "enter") /\ UNCHANGED sets
       ELSE Goto(w, "join") /\ sets' = [sets EXCEPT ![w] = SetInterrupt({w})]
    /\ UNCHANGED <<callerVars, resultVars, portVars, index, task, job, res, w_stop, flagVars, lockVars,
                   breakVars>>

(* SequentialWorker::join after its setInterrupt(). *)
Join(w) ==
    /\ wpc[w] = "join" /\ sets[w] = {}
    /\ Goto(w, IF global_ending \/ index[w] # job[w] THEN "wait" ELSE "lock")
    /\ UNCHANGED <<callerVars, resultVars, portVars, index, task, job, res, w_stop, flagVars, lockVars,
                   breakVars, sets>>

(* Portfolio::join up to its setInterrupt(), under join_mutex. *)
PortfolioJoin(w) ==
    /\ wpc[w] = "lock" /\ join_mutex = Nobody
    /\ IF res[w] = "UNKNOWN" \/ strategyEnding \/ global_ending \/ job[w] # current_index
       THEN Goto(w, "wait") /\ UNCHANGED <<strategyEnding, join_mutex, sets>>
       ELSE /\ strategyEnding' = TRUE
            /\ join_mutex' = w
            /\ sets' = [sets EXCEPT ![w] = SetInterrupt(Workers)]
            /\ Goto(w, "store")
    /\ UNCHANGED <<callerVars, resultVars, current_index, index, task, job, res, w_stop, flagVars,
                   result_lock, breakVars>>

(* The result is stored under WorkingResult::lock. *)
Store(w) ==
    /\ wpc[w] = "store" /\ sets[w] = {} /\ result_lock = Nobody
    /\ final_result' = res[w]
    /\ final_model' = IF res[w] = "SAT" THEN job[w] ELSE final_model
    /\ global_ending' = TRUE
    /\ join_mutex' = Nobody
    /\ Goto(w, "wait")
    /\ UNCHANGED <<callerVars, portVars, index, task, job, res, w_stop, flagVars, result_lock, breakVars,
                   sets>>

----------------------------------------------------------------------------
CallerNext ==
    \/ Solve \/ ResetResult \/ SetIndex \/ WaitResult \/ Return \/ Destroy
    \/ \E w \in Workers : Post(w) \/ WaitInterrupt(w) \/ Stop(w) \/ JoinThread(w)

WorkerNext(w) ==
    \/ Quit(w) \/ Pop(w) \/ Enter(w) \/ Answer(w) \/ GiveUp(w) \/ Check(w)
    \/ Join(w) \/ PortfolioJoin(w) \/ Store(w)

(* The solver has been destroyed and everyone has finished. *)
Finished == pc = "destroyed" /\ UNCHANGED vars

Next ==
    \/ CallerNext \/ Interrupt \/ InterruptEnds \/ Finished
    \/ \E w \in Workers : WorkerNext(w)
    \/ \E t \in Threads : WriteFlag(t)

Spec == Init /\ [][Next]_vars

(* Every thread goes on while it can; a search ends by itself (Answer) or by *)
(* the flag; nobody has to call interrupt().                                 *)
FairSpec ==
    /\ Spec
    /\ WF_vars(CallerNext)
    /\ WF_vars(InterruptEnds)
    /\ \A w \in Workers : WF_vars(WorkerNext(w))
    /\ \A t \in Threads : WF_vars(WriteFlag(t))

----------------------------------------------------------------------------
TypeOK ==
    /\ pc \in {"idle", "reset", "result", "model", "index", "ending", "post", "wait", "await",
               "stop", "destroyed"}
    /\ todo \subseteq Workers
    /\ solve_index \in 0..MaxSolves /\ current_index \in 0..MaxSolves
    /\ final_model \in 0..MaxSolves
    /\ global_ending \in BOOLEAN /\ interrupted \in BOOLEAN /\ strategyEnding \in BOOLEAN
    /\ final_result \in Results /\ got \in Results
    /\ join_mutex \in Workers \cup {Nobody} /\ result_lock \in {Nobody, "interrupter"}
    /\ wpc \in [Workers -> {"wait", "enter", "search", "check", "join", "lock", "store", "done"}]
    /\ index \in [Workers -> 0..MaxSolves]
    /\ task \in [Workers -> 0..MaxSolves]
    /\ job \in [Workers -> 0..MaxSolves]
    /\ res \in [Workers -> Results]
    /\ w_interrupted \in [Workers -> BOOLEAN]
    /\ s_interrupt \in [Workers -> BOOLEAN]
    /\ w_stop \in [Workers -> BOOLEAN]
    /\ sets \in [Threads -> SUBSET SetInterrupt(Workers)]
    /\ answers \in Seq([state : Results, model : 0..MaxSolves])
    /\ interrupts \in 0..MaxInterrupts
    /\ \A w \in Workers : join_mutex = w <=> wpc[w] = "store"

(* A call that a late join can reach: an earlier one was interrupted. *)
AfterInterrupt(k) == \E j \in 1..(k - 1) : answers[j].state = "UNKNOWN"

(* The only way to a wrong answer, or to SAT with the model of another      *)
(* call: an earlier call was interrupted.  As long as every call is         *)
(* answered, strategyEnding keeps late joins out until current_index has    *)
(* moved on (Portfolio.cpp:41-42, in this order), and the model is in       *)
(* _result before global_ending lets solve() return (Portfolio.cpp:58-66).  *)
(* After an interrupt a worker that already had its answer may join between *)
(* the next call's resets (PainlessSolver.cpp:68) and its new               *)
(* current_index, so that the result is not that of the assumptions         *)
(* (Solver.h:37-40); strategyEnding is then reset after that join, which    *)
(* leaves the way open for a late join of the call so answered, and so on:  *)
(* the wrong answer is that of the interrupted call or of a later one.      *)
WrongOnlyAfterInterrupt ==
    \A k \in DOMAIN answers :
        /\ answers[k].state \notin {Truth[k], "UNKNOWN"} =>
               \E i \in 1..(k - 1) : AfterInterrupt(i + 1) /\ answers[k].state = Truth[i]
        /\ answers[k].state = "SAT" => answers[k].model = k \/ AfterInterrupt(k)

(* The first worker to join wins: a result that has been stored is only   *)
(* ever replaced by the reset of the next call (Portfolio.cpp:49-53).     *)
FirstResultStays ==
    [][final_result # "UNKNOWN" /\ global_ending /\ pc \notin {"reset", "result", "model"}
          => final_result' = final_result /\ final_model' = final_model]_vars

(* The first call to end UNKNOWN was interrupted: no call gives up by       *)
(* itself.  (A later one may be ended by a late join between the resets of  *)
(* global_ending and final_result, PainlessSolver.cpp:68-69.)               *)
UnknownHasCause ==
    (\E k \in DOMAIN answers : answers[k].state = "UNKNOWN") => interrupts > 0

(* Every call of solve() returns, when searches end: although flags are    *)
(* cleared by the solvers as they enter a search, and although a late join *)
(* sets them again.                                                        *)
SolveReturns == (pc = "reset") ~> (pc = "idle")

(* ~PainlessSolver returns: no worker misses _stop or waits for a task     *)
(* that never comes, and a Reducer, which only ends when told to, is told. *)
DestructorReturns == (pc = "stop") ~> (pc = "destroyed")

(* The calls on one PainlessSolver do not disturb each other until one of   *)
(* them is interrupted.                                                     *)
AnswersExplained == WrongOnlyAfterInterrupt /\ UnknownHasCause

(* No call blocks for ever, ~PainlessSolver included.                      *)
CallsReturn == SolveReturns /\ DestructorReturns
=============================================================================
