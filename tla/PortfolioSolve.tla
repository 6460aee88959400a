---------------------------- MODULE PortfolioSolve ----------------------------
(***************************************************************************)
(* The solve command: main() with core::solve::PortfolioSolve, which runs  *)
(* several solves in threads of their own and takes the first answer;      *)
(* util::signal::SigHandler, which turns SIGINT into an event; and the     *)
(* EventHandler, which calls main's callback and those of the backdoor     *)
(* searches.                                                               *)
(*                                                                         *)
(* A solve is a NaiveSolve, or it looks for a backdoor with a              *)
(* CartesianRBSearch, which has a callback attached while it runs: once    *)
(* (SingleReduceSolve), or once for each branch (RecurringReduceSolve).    *)
(* What those two do with a backdoor is in their own modules; here they    *)
(* answer what those modules establish.                                    *)
(***************************************************************************)
EXTENDS EventHandler

CONSTANTS Solves,      \* the solves of the portfolio
          Searching,   \* those that look for a backdoor
          Recurring,   \* those that do so again for each branch
          Main,        \* main's handle; a searching solve is its own handle
          MaxSignals,  \* SIGINTs
          MaxBranches  \* searches of a recurring solve

ASSUME PortfolioAssumption ==
    /\ Solves # {} /\ Recurring \subseteq Searching /\ Searching \subseteq Solves
    /\ Handles = Searching \cup {Main} /\ Main \notin Solves /\ End \notin Handles \cup Solves
    /\ EventOf = [h \in Handles |-> IF h = Main THEN "INTERRUPT" ELSE "SBS_FOUND"]
    /\ MaxSignals \in Nat /\ MaxBranches \in Nat \ {0}

Naive == Solves \ Searching

VARIABLES
    mpc,      \* where main() is
    pc,       \* where the thread of each solve is
    flag,     \* the interrupt flag of the solver of each NaiveSolve
    wanted,   \* Solve::_interrupted of each solve
    stopped,  \* RBSearch::_interrupted of each solve's current search
    sbs,      \* CartesianRBSearch::_sbs_found of it
    branch,   \* the searches each solve has begun
    dropped,  \* a branch was given up because its search was stopped
    truth,    \* the right answer
    result,   \* the atomic `result`
    answer,   \* what each solve returned
    model,    \* _model: the solve it was taken from, End if it has not been set
    output,   \* what main() prints: the State, and whose model
    signals,  \* history: SIGINTs received
    sideways  \* history: a recurring solve raised SBS_FOUND

searchVars == <<stopped, sbs, branch, dropped, sideways>>
solveVars == <<searchVars, pc, flag, wanted, result, answer, model>>
mainVars  == <<mpc, output, signals>>
vars == <<eventVars, mainVars, solveVars, truth>>

Init ==
    /\ EventInit
    /\ mpc = "attach"
    /\ pc = [s \in Solves |-> "unborn"]
    /\ flag = [s \in Naive |-> FALSE]
    /\ wanted = [s \in Solves |-> FALSE]
    /\ stopped = [s \in Searching |-> FALSE]
    /\ sbs = [s \in Searching |-> FALSE]
    /\ branch = [s \in Searching |-> 0]
    /\ dropped = [s \in Searching |-> FALSE]
    /\ sideways = FALSE
    /\ truth \in {"SAT", "UNSAT"}
    /\ result = "UNKNOWN"
    /\ answer = [s \in Solves |-> "UNKNOWN"]
    /\ model = End
    /\ output = [state |-> "UNKNOWN", model |-> End]
    /\ signals = 0

Goto(s, to) == pc' = [pc EXCEPT ![s] = to]

(* The objects a callback refers to are gone. *)
Gone(h) == IF h = Main THEN mpc \in {"signals", "exit", "join", "exited"}
           ELSE pc[h] \notin {"assign", "find", "detach"}

(* attach() has linked the handle, and the variable of its owner, by which   *)
(* the callback knows it, does not have its value yet.                       *)
Assigning(h) == IF h = Main THEN mpc = "assign" ELSE pc[h] = "assign"

(* PortfolioSolve::_interrupt_impl: every solve is interrupted, and with it *)
(* its solver, or its search while that runs.                               *)
InterruptAll ==
    /\ wanted' = [s \in Solves |-> TRUE]
    /\ flag' = [s \in Naive |-> TRUE]
    /\ stopped' = [s \in Searching |-> ~Gone(s)]

(* What solve() may return once the problem is being searched: the right   *)
(* answer; UNKNOWN when the solver of a NaiveSolve is interrupted, or      *)
(* another solve sees its _interrupted, which also keeps it from saying    *)
(* UNSAT; and UNSAT when a branch was dropped.                             *)
Returns(s, r) ==
    \/ r = "UNKNOWN" /\ IF s \in Naive THEN flag[s] ELSE wanted[s]
    \/ r = truth /\ ~(r = "UNSAT" /\ s \in Searching /\ wanted[s])
    \/ r = "UNSAT" /\ s \in Recurring /\ dropped[s] /\ ~wanted[s]

----------------------------------------------------------------------------
(* Faulty variants of the operations below; the properties must notice them. *)

(* The result stored whatever is there. *)
StoreResult(s) ==
    /\ pc[s] = "cas"
    /\ result' = answer[s]
    /\ Goto(s, "model")
    /\ UNCHANGED <<eventVars, mainVars, searchVars, flag, wanted, answer, model>>

(* The model taken from a solve before its result is compared. *)
ModelFirst(s, r) ==
    /\ pc[s] = "search" /\ Returns(s, r)
    /\ answer' = [answer EXCEPT ![s] = r]
    /\ model' = s
    /\ Goto(s, "cas")
    /\ UNCHANGED <<eventVars, mainVars, searchVars, flag, wanted, result>>

----------------------------------------------------------------------------
(* main(). *)

MainAttach ==
    /\ mpc = "attach" /\ Attach(Main)
    /\ mpc' = "assign"
    /\ UNCHANGED <<output, signals, solveVars>>

(* The return value of attach() becomes solve_interrupt_handler. *)
MainAssign ==
    /\ mpc = "assign" /\ mpc' = "solve"
    /\ UNCHANGED <<eventVars, output, signals, solveVars>>

(* PortfolioSolve::solve starts the threads... *)
StartSolves ==
    /\ mpc = "solve" /\ mpc' = "wait"
    /\ pc' = [s \in Solves |-> IF s \in Searching THEN "attach" ELSE "load"]
    /\ UNCHANGED <<eventVars, output, signals, searchVars, flag, wanted, result, answer, model>>

(* ... and joins them all. *)
JoinSolves ==
    /\ mpc = "wait" /\ \A s \in Solves : pc[s] = "done"
    /\ mpc' = "detach"
    /\ UNCHANGED <<eventVars, output, signals, solveVars>>

(* The handle is detached, the result and the model are taken, and the *)
(* solve and the handle go out of scope.                               *)
MainDetach ==
    /\ mpc = "detach" /\ Detach(Main)
    /\ output' = [state |-> result, model |-> model]
    /\ mpc' = "signals"
    /\ UNCHANGED <<signals, solveVars>>

(* ~SigHandler: its thread looks at _shutdown every 0.1 s. *)
StopSignals ==
    /\ mpc = "signals" /\ mpc' = "exit"
    /\ UNCHANGED <<eventVars, output, signals, solveVars>>

(* ~EventHandler, a static object. *)
ExitEvents ==
    /\ mpc = "exit" /\ Shutdown /\ mpc' = "join"
    /\ UNCHANGED <<output, signals, solveVars>>

Exit ==
    /\ mpc = "join" /\ epc = "stopped" /\ mpc' = "exited"
    /\ UNCHANGED <<eventVars, output, signals, solveVars>>

(* SigHandler's thread gets a SIGINT and raises the event. *)
Signal ==
    /\ signals < MaxSignals /\ mpc \notin {"exit", "join", "exited"}
    /\ Raise("INTERRUPT")
    /\ signals' = signals + 1
    /\ UNCHANGED <<mpc, output, solveVars>>

----------------------------------------------------------------------------
(* The threads of PortfolioSolve::solve. *)

(* A new CartesianRBSearch, neither stopped nor with a strong backdoor; its *)
(* handle is attached while _pre_solve runs.                                *)
AttachSearch(s) ==
    /\ pc[s] = "attach" /\ Attach(s)
    /\ branch' = [branch EXCEPT ![s] = @ + 1]
    /\ Goto(s, "assign")
    /\ UNCHANGED <<mainVars, stopped, sbs, dropped, sideways, flag, wanted, result, answer, model>>

(* The return value of attach() becomes sbs_found_handle. *)
AssignSearch(s) ==
    /\ pc[s] = "assign" /\ Goto(s, "find")
    /\ UNCHANGED <<eventVars, mainVars, searchVars, flag, wanted, result, answer, model>>

(* A strong backdoor: of an unsatisfiable formula, of a branch without     *)
(* solutions, or an empty list left by a search that was stopped.  Every   *)
(* search with a handle hears the event.                                   *)
FoundSbs(s) ==
    /\ pc[s] = "find" /\ Raise("SBS_FOUND")
    /\ truth = "UNSAT" \/ stopped[s] \/ branch[s] > 1
    /\ sbs' = [sbs EXCEPT ![s] = TRUE]
    /\ sideways' = (sideways \/ s \in Recurring)
    /\ Goto(s, "detach")
    /\ UNCHANGED <<mainVars, stopped, branch, dropped, flag, wanted, result, answer, model>>

NoSbs(s) ==
    /\ pc[s] = "find" /\ Goto(s, "detach")
    /\ UNCHANGED <<eventVars, mainVars, searchVars, flag, wanted, result, answer, model>>

(* The end of find_rb.  Without a base assumption a strong backdoor means  *)
(* UNSAT; a search that was stopped means UNKNOWN to a SingleReduceSolve   *)
(* and the end of the branch to a RecurringReduceSolve.                    *)
DetachSearch(s) ==
    /\ pc[s] = "detach" /\ Detach(s)
    /\ LET ends == \/ sbs[s] /\ branch[s] = 1
                   \/ ~sbs[s] /\ stopped[s] /\ s \notin Recurring
           says == IF sbs[s] /\ ~(s \in Recurring /\ wanted[s]) THEN "UNSAT" ELSE "UNKNOWN"
       IN /\ Goto(s, IF ends THEN "cas" ELSE "search")
          /\ answer' = [answer EXCEPT ![s] = IF ends THEN says ELSE @]
          /\ dropped' = [dropped EXCEPT ![s] = @ \/ (~ends /\ ~sbs[s] /\ stopped[s])]
    /\ stopped' = [stopped EXCEPT ![s] = FALSE]
    /\ sbs' = [sbs EXCEPT ![s] = FALSE]
    /\ UNCHANGED <<mainVars, branch, sideways, flag, wanted, result, model>>

(* load_problem; then Solver::solve clears an interrupt that came before. *)
EnterSearch(s) ==
    /\ pc[s] = "load" /\ s \in Naive
    /\ flag' = [flag EXCEPT ![s] = FALSE]
    /\ Goto(s, "search")
    /\ UNCHANGED <<eventVars, mainVars, searchVars, wanted, result, answer, model>>

(* The next branch on the stack of a RecurringReduceSolve. *)
NextBranch(s) ==
    /\ pc[s] = "search"
    /\ s \in Recurring /\ ~wanted[s] /\ branch[s] < MaxBranches
    /\ Goto(s, "attach")
    /\ UNCHANGED <<eventVars, mainVars, searchVars, flag, wanted, result, answer, model>>

SolveReturns(s, r) ==
    /\ pc[s] = "search" /\ Returns(s, r)
    /\ answer' = [answer EXCEPT ![s] = r]
    /\ Goto(s, "cas")
    /\ UNCHANGED <<eventVars, mainVars, searchVars, flag, wanted, result, model>>

(* compare_exchange_strong from UNKNOWN, which an UNKNOWN wins too. *)
Compete(s) ==
    /\ pc[s] = "cas"
    /\ IF result = "UNKNOWN"
       THEN result' = answer[s] /\ Goto(s, "model")
       ELSE Goto(s, "done") /\ UNCHANGED result
    /\ UNCHANGED <<eventVars, mainVars, searchVars, flag, wanted, answer, model>>

TakeModel(s) ==
    /\ pc[s] = "model"
    /\ model' = s
    /\ Goto(s, "interrupt")
    /\ UNCHANGED <<eventVars, mainVars, searchVars, flag, wanted, result, answer>>

InterruptOthers(s) ==
    /\ pc[s] = "interrupt" /\ InterruptAll
    /\ Goto(s, "done")
    /\ UNCHANGED <<eventVars, mainVars, sbs, branch, dropped, sideways, result, answer, model>>

----------------------------------------------------------------------------
(* The callback the event thread is in: main's interrupts the portfolio, a *)
(* search's interrupts that search; both then detach themselves.           *)
Callback ==
    /\ epc = "call"
    /\ \/ Gone(cur) /\ epc' = "crashed" /\ UNCHANGED <<flag, wanted, stopped>>
       \/ ~Gone(cur) /\ epc' = "self" /\ cur = Main /\ InterruptAll
       \/ ~Gone(cur) /\ epc' = "self" /\ cur # Main
            /\ stopped' = [stopped EXCEPT ![cur] = TRUE] /\ UNCHANGED <<flag, wanted>>
    /\ UNCHANGED <<equeue, list, attached, shutdown, threadVars, missed, raced, mainVars,
                   sbs, branch, dropped, sideways, pc, result, answer, model>>

EventThread ==
    \/ (\/ Test \/ Block \/ Begin \/ StepIterator
        \/ SelfDetach(Gone(cur), Assigning(cur)) \/ SelfUnlink(Gone(cur)))
         /\ UNCHANGED <<mainVars, solveVars>>
    \/ Callback

SolveThread(s) ==
    \/ AttachSearch(s) \/ AssignSearch(s) \/ FoundSbs(s) \/ NoSbs(s) \/ DetachSearch(s) \/ EnterSearch(s)
    \/ NextBranch(s)
    \/ \E r \in {"SAT", "UNSAT", "UNKNOWN"} : SolveReturns(s, r)
    \/ Compete(s) \/ TakeModel(s) \/ InterruptOthers(s)

MainThread ==
    \/ MainAttach \/ MainAssign \/ StartSolves \/ JoinSolves \/ MainDetach \/ StopSignals
    \/ ExitEvents \/ Exit

Running(A) == epc # "crashed" /\ A /\ UNCHANGED truth

(* The program has ended, crashed, or main() waits for a lost notification. *)
Over == (mpc = "exited" \/ epc = "crashed" \/ missed) /\ UNCHANGED vars

Next ==
    \/ Over
    \/ Running(Signal) \/ Running(MainThread) \/ Running(EventThread)
    \/ \E s \in Solves : Running(SolveThread(s))

Spec == Init /\ [][Next]_vars

Program == MainThread \/ EventThread \/ \E s \in Solves : SolveThread(s)

(* While some thread can run, one does; nobody has to send a signal. *)
FairSpec == Spec /\ WF_vars(Running(Program))

----------------------------------------------------------------------------
(* No SIGINT, and no SBS_FOUND of a RecurringReduceSolve.  The event of a   *)
(* SingleReduceSolve comes with its UNSAT; that of a RecurringReduceSolve   *)
(* may be about a branch, and its UNSAT for the whole formula gives way to  *)
(* an interrupt from a solve whose search the event has just stopped.       *)
Undisturbed == signals = 0 /\ ~sideways

Printed == mpc \in {"signals", "exit", "join", "exited"}

(* An answer is never lost: although a solve that ends UNKNOWN wins the     *)
(* compare-and-swap as well and interrupts the others                       *)
(* (PortfolioSolve.cpp:32-35), main() prints UNKNOWN only if every solve    *)
(* came back with UNKNOWN; and if nothing disturbed them it prints the      *)
(* right answer, although the winner's interrupt can cut searches short     *)
(* that then take a truncated list for a strong backdoor.                   *)
AnswerNotLost ==
    Printed => /\ output.state = "UNKNOWN" <=> \A s \in Solves : answer[s] = "UNKNOWN"
               /\ Undisturbed => output.state = truth

(* What get_model() promises (Solve.h:40): the model printed with SAT is    *)
(* that of a solve that answered SAT, unless the solves were disturbed: a   *)
(* solve without an answer can then win first, and overwrite the model of   *)
(* the one with the answer (PortfolioSolve.cpp:34).                         *)
SatHasModel ==
    output.state = "SAT" =>
        output.model # End /\ (Undisturbed => answer[output.model] = "SAT")

(* A callback may detach itself: the event thread fails only when the owner *)
(* of a handle detaches it while its event is being served, since the list  *)
(* is walked without its mutex and detach() does not wait for the callback  *)
(* (EventHandler.cpp:12-19 and 67-74); or when it calls back while the      *)
(* owner is still in the initialiser of the variable by which the callback  *)
(* detaches itself (main.cpp:89-93, CartesianRBSearch.cpp:50-54).           *)
CrashOnlyByRace == epc = "crashed" => raced \/ (cur # End /\ Assigning(cur))

(* The program comes to its end whatever the order of signals, answers and  *)
(* interrupts, unless the event thread failed or missed the notification of *)
(* ~EventHandler, which stores _shutdown without the mutex                  *)
(* (EventHandler.cpp:26).                                                   *)
ProgramExits == <>(mpc = "exited" \/ epc = "crashed" \/ missed)
=============================================================================
