---------------------------- MODULE PainlessProofs ----------------------------
(***************************************************************************)
(* Theorems about Painless, for every number of workers, calls of solve()  *)
(* and interrupts.                                                         *)
(***************************************************************************)
EXTENDS Painless, TLAPS

----------------------------------------------------------------------------
(* Strengthenings that make the invariants inductive.                      *)

InCall == pc \notin {"idle", "stop", "destroyed"}

(* Portfolio::solve has not yet moved current_index on. *)
Resetting == pc \in {"reset", "result", "model", "index"}

Working == {"enter", "search", "check", "join", "lock", "store"}

(* Every call so far was answered. *)
Calm == \A j \in DOMAIN answers : answers[j].state # "UNKNOWN"

(* One of the first i calls was not. *)
Cut(i) == \E j \in DOMAIN answers : j <= i /\ answers[j].state = "UNKNOWN"

(* The calls are counted alike by the caller, the portfolio and its workers. *)
IndexInv ==
    /\ solve_index = IF InCall THEN Len(answers) + 1 ELSE Len(answers)
    /\ current_index = IF Resetting THEN Len(answers) ELSE solve_index
    /\ \A w \in Workers : task[w] <= solve_index /\ job[w] <= solve_index

(* A worker that has searched has the truth about its task, or nothing.  It  *)
(* stores a result only while there is none, and only that of the current   *)
(* call unless an earlier one was interrupted.                              *)
WorkerInv ==
    \A w \in Workers :
        /\ wpc[w] \in Working => job[w] \in 1..MaxSolves
        /\ wpc[w] \in {"check", "join", "lock", "store"} =>
               res[w] \in {Truth[job[w]], "UNKNOWN"}
        /\ wpc[w] = "store" =>
               /\ res[w] # "UNKNOWN"
               /\ ~global_ending
               /\ (InCall /\ job[w] = solve_index) \/ Cut(job[w])

(* Nobody can join: strategyEnding is set, or no task was ever posted. *)
Closed ==
    /\ strategyEnding \/ \A w \in Workers : wpc[w] \in {"wait", "done"} /\ task[w] = 0
    /\ \A w \in Workers : wpc[w] # "store"

Right(r) == r = Truth[solve_index] /\ (r = "SAT" => final_model = solve_index)

(* As long as every call is answered, late joins are kept out until          *)
(* current_index has moved on, and the result stored is that of this call.  *)
CalmInv ==
    Calm =>
        /\ pc \notin {"post", "wait", "await"} => Closed
        /\ pc \in {"result", "model", "index", "ending"} => ~global_ending
        /\ pc \in {"model", "index", "ending"} => final_result = "UNKNOWN"
        /\ pc \in {"post", "wait"} =>
               /\ \A w \in Workers : wpc[w] = "store" => job[w] = solve_index /\ strategyEnding
               /\ global_ending <=> final_result # "UNKNOWN"
               /\ global_ending => strategyEnding /\ Right(final_result)
        /\ pc = "await" /\ got # "UNKNOWN" => global_ending /\ strategyEnding /\ Right(got)

(* Whose answer a result can be: this call's, or that of a call since the    *)
(* first that was interrupted.                                              *)
Found(r) ==
    r # "UNKNOWN" =>
        \E i \in 1..solve_index : r = Truth[i] /\ (i = solve_index \/ Cut(i))

FoundInv ==
    /\ pc \in {"model", "index", "ending", "post", "wait"} => Found(final_result)
    /\ pc = "await" => Found(got)

(* Somebody called interrupt() before the first UNKNOWN. *)
BlameInv ==
    /\ interrupted => interrupts > 0
    /\ ~Calm => interrupts > 0
    /\ pc = "await" /\ got = "UNKNOWN" => interrupts > 0

PInv == TypeOK /\ IndexInv /\ WorkerInv /\ CalmInv /\ FoundInv /\ BlameInv

----------------------------------------------------------------------------

(* The right answers are SAT and UNSAT. *)
LEMMA TruthFacts ==
  /\ MaxSolves \in Nat
  /\ \A k \in 1..MaxSolves : Truth[k] \in {"SAT", "UNSAT"}
  BY PainlessAssumption DEF MaxSolves

(* A setInterrupt() writes flags of workers. *)
LEMMA SetInterruptType ==
  ASSUME NEW ws \in SUBSET Workers
  PROVE  SetInterrupt(ws) \in SUBSET SetInterrupt(Workers)
  BY DEF SetInterrupt

(* The initial state. *)
LEMMA PainlessInit == Init => PInv /\ AnswersExplained
  <1> SUFFICES ASSUME Init PROVE PInv /\ AnswersExplained
    OBVIOUS
  <1> USE TruthFacts, PainlessAssumption DEF Init
  <1>1. TypeOK
    <2>1. answers \in Seq([state : Results, model : 0..MaxSolves])
      OBVIOUS
    <2>2. /\ wpc \in [Workers -> {"wait", "enter", "search", "check", "join", "lock", "store", "done"}]
          /\ res \in [Workers -> Results]
      BY DEF Results
    <2>3. /\ index \in [Workers -> 0..MaxSolves]
          /\ task \in [Workers -> 0..MaxSolves]
          /\ job \in [Workers -> 0..MaxSolves]
      OBVIOUS
    <2>4. /\ w_interrupted \in [Workers -> BOOLEAN]
          /\ s_interrupt \in [Workers -> BOOLEAN]
          /\ w_stop \in [Workers -> BOOLEAN]
          /\ sets \in [Threads -> SUBSET SetInterrupt(Workers)]
      OBVIOUS
    <2>5. /\ solve_index \in 0..MaxSolves /\ current_index \in 0..MaxSolves
          /\ final_model \in 0..MaxSolves /\ interrupts \in 0..MaxInterrupts
      OBVIOUS
    <2>6. \A w \in Workers : join_mutex = w <=> wpc[w] = "store"
      OBVIOUS
    <2> QED
      BY <2>1, <2>2, <2>3, <2>4, <2>5, <2>6 DEF TypeOK, Results
  <1>2. IndexInv /\ WorkerInv /\ CalmInv /\ FoundInv /\ BlameInv
    BY DEF IndexInv, WorkerInv, CalmInv, FoundInv, BlameInv, InCall, Resetting, Working, Calm,
           Closed
  <1>3. AnswersExplained
    BY DEF AnswersExplained, WrongOnlyAfterInterrupt, UnknownHasCause
  <1> QED
    BY <1>1, <1>2, <1>3 DEF PInv

(* Every step of the caller and of the interrupting thread keeps the types. *)
LEMMA CallerTypes ==
  ASSUME TypeOK, IndexInv, CallerNext \/ Interrupt \/ InterruptEnds
  PROVE  TypeOK'
  <1> USE TruthFacts, PainlessAssumption
      DEF callerVars, resultVars, portVars, workVars, flagVars, lockVars, breakVars
  <1>0. \A ws \in SUBSET Workers, t \in Threads :
           [sets EXCEPT ![t] = SetInterrupt(ws)] \in [Threads -> SUBSET SetInterrupt(Workers)]
    BY SetInterruptType DEF TypeOK
  <1>1. CASE Solve
    <2>1. solve_index' \in 0..MaxSolves
      BY <1>1 DEF Solve, TypeOK
    <2>2. w_interrupted' \in [Workers -> BOOLEAN] /\ s_interrupt' \in [Workers -> BOOLEAN]
      BY <1>1 DEF Solve
    <2> QED
      BY <1>1, <2>1, <2>2 DEF Solve, TypeOK
  <1>2. CASE ResetResult
    <2>1. /\ global_ending' \in BOOLEAN
          /\ final_result' \in Results
          /\ final_model' \in 0..MaxSolves
          /\ pc' \in {"result", "model", "index"}
      <3>1. CASE pc = "reset"
        BY <1>2, <3>1 DEF ResetResult, TypeOK
      <3>2. CASE pc = "result"
        BY <1>2, <3>2 DEF ResetResult, TypeOK, Results
      <3>3. CASE pc = "model"
        BY <1>2, <3>3 DEF ResetResult, TypeOK
      <3> QED
        BY <1>2, <3>1, <3>2, <3>3 DEF ResetResult
    <2> QED
      BY <1>2, <2>1 DEF ResetResult, TypeOK
  <1>3. CASE SetIndex
    BY <1>3 DEF SetIndex, TypeOK
  <1>4. CASE WaitResult \/ Destroy
    BY <1>4, <1>0 DEF WaitResult, Destroy, TypeOK, Threads
  <1>5. CASE Return
    <2>1. answers' \in Seq([state : Results, model : 0..MaxSolves])
      BY <1>5 DEF Return, TypeOK
    <2> QED
      BY <1>5, <2>1 DEF Return, TypeOK
  <1>6. ASSUME NEW w \in Workers, Post(w) PROVE TypeOK'
    BY <1>6 DEF Post, TypeOK
  <1>7. ASSUME NEW w \in Workers, WaitInterrupt(w) \/ JoinThread(w) PROVE TypeOK'
    BY <1>7 DEF WaitInterrupt, JoinThread, TypeOK
  <1>8. ASSUME NEW w \in Workers, Stop(w) PROVE TypeOK'
    <2>1. sets' \in [Threads -> SUBSET SetInterrupt(Workers)]
      BY <1>8, <1>0 DEF Stop, Threads
    <2>2. w_stop' \in [Workers -> BOOLEAN]
      BY <1>8 DEF Stop, TypeOK
    <2> QED
      BY <1>8, <2>1, <2>2 DEF Stop, TypeOK
  <1>9. CASE Interrupt
    BY <1>9, <1>0 DEF Interrupt, TypeOK, Threads
  <1>10. CASE InterruptEnds
    BY <1>10 DEF InterruptEnds, TypeOK
  <1> QED
    BY <1>1, <1>2, <1>3, <1>4, <1>5, <1>6, <1>7, <1>8, <1>9, <1>10 DEF CallerNext

(* So does every step of a worker. *)
LEMMA WorkerTypes ==
  ASSUME TypeOK, WorkerInv, NEW w \in Workers, WorkerNext(w)
  PROVE  TypeOK'
  <1> USE TruthFacts, PainlessAssumption
      DEF callerVars, resultVars, portVars, workVars, flagVars, lockVars, breakVars, Goto
  <1>0. \A ws \in SUBSET Workers :
           [sets EXCEPT ![w] = SetInterrupt(ws)] \in [Threads -> SUBSET SetInterrupt(Workers)]
    BY SetInterruptType DEF TypeOK, Threads
  <1>1. CASE Quit(w) \/ Join(w)
    <2>1. PICK to \in {"done", "wait", "lock"} : Goto(w, to) /\ wpc[w] # "store"
      BY <1>1 DEF Quit, Join
    <2> QED
      BY <1>1, <2>1, SMTT(30) DEF Quit, Join, TypeOK
  <1>7. CASE Pop(w)
    <2>1. task' \in [Workers -> 0..MaxSolves] /\ job' \in [Workers -> 0..MaxSolves]
      BY <1>7 DEF Pop, TypeOK
    <2> QED
      BY <1>7, <2>1 DEF Pop, TypeOK
  <1>2. CASE Enter(w)
    BY <1>2 DEF Enter, TypeOK
  <1>3. CASE Answer(w) \/ GiveUp(w)
    <2>1. PICK r \in Results : SearchReturns(w, r)
      BY <1>3 DEF Answer, GiveUp, SearchReturns, WorkerInv, Working, Results
    <2> QED
      BY <2>1 DEF SearchReturns, TypeOK
  <1>4. CASE Check(w)
    <2>1. sets' \in [Threads -> SUBSET SetInterrupt(Workers)]
      <3>1. CASE res[w] = "UNKNOWN" /\ ~w_interrupted[w]
        BY <1>4, <3>1 DEF Check, TypeOK
      <3>2. CASE ~(res[w] = "UNKNOWN" /\ ~w_interrupted[w])
        BY <1>4, <1>0, <3>2 DEF Check
      <3> QED
        BY <3>1, <3>2
    <2>2. PICK to \in {"enter", "join"} : Goto(w, to) /\ wpc[w] # "store"
      BY <1>4 DEF Check
    <2> QED
      BY <1>4, <2>1, <2>2 DEF Check, TypeOK
  <1>5. CASE PortfolioJoin(w)
    <2>1. CASE res[w] = "UNKNOWN" \/ strategyEnding \/ global_ending \/ job[w] # current_index
      BY <1>5, <2>1 DEF PortfolioJoin, TypeOK
    <2>2. CASE ~(res[w] = "UNKNOWN" \/ strategyEnding \/ global_ending \/ job[w] # current_index)
      <3>1. sets' \in [Threads -> SUBSET SetInterrupt(Workers)]
        BY <1>5, <2>2, <1>0 DEF PortfolioJoin
      <3>2. \A v \in Workers : join_mutex' = v <=> wpc'[v] = "store"
        BY <1>5, <2>2 DEF PortfolioJoin, TypeOK
      <3> QED
        BY <1>5, <2>2, <3>1, <3>2 DEF PortfolioJoin, TypeOK
    <2> QED
      BY <2>1, <2>2
  <1>6. CASE Store(w)
    BY <1>6 DEF Store, TypeOK
  <1> QED
    BY <1>1, <1>2, <1>3, <1>4, <1>5, <1>6, <1>7 DEF WorkerNext

(* And every write of a flag. *)
LEMMA FlagTypes ==
  ASSUME TypeOK, NEW t \in Threads, WriteFlag(t)
  PROVE  TypeOK'
  <1> USE DEF callerVars, resultVars, portVars, workVars, lockVars, breakVars
  <1>1. PICK x \in sets[t] :
           /\ sets' = [sets EXCEPT ![t] = @ \ {x}]
           /\ IF x[2] = "solver"
              THEN s_interrupt' = [s_interrupt EXCEPT ![x[1]] = TRUE] /\ UNCHANGED w_interrupted
              ELSE w_interrupted' = [w_interrupted EXCEPT ![x[1]] = TRUE] /\ UNCHANGED s_interrupt
    BY DEF WriteFlag
  <1>2. sets' \in [Threads -> SUBSET SetInterrupt(Workers)]
    BY <1>1 DEF TypeOK
  <1>3. s_interrupt' \in [Workers -> BOOLEAN] /\ w_interrupted' \in [Workers -> BOOLEAN]
    BY <1>1 DEF TypeOK
  <1> QED
    BY <1>2, <1>3 DEF WriteFlag, TypeOK

(* What Return appends. *)
LEMMA ReturnFacts ==
  ASSUME TypeOK, Return
  PROVE  /\ Len(answers) \in Nat /\ Len(answers') = Len(answers) + 1
         /\ DOMAIN answers = 1..Len(answers) /\ DOMAIN answers' = 1..(Len(answers) + 1)
         /\ \A j \in 1..Len(answers) : answers'[j] = answers[j]
         /\ answers'[Len(answers) + 1] = [state |-> got, model |-> final_model]
  BY DEF Return, TypeOK

(* Steps that only touch the flags of the solvers, a lock or a loop's set.  *)
Aside ==
    UNCHANGED <<pc, solve_index, got, answers, resultVars, portVars, wpc, task, job, res,
                interrupted, interrupts>>

(* They are these. *)
LEMMA AsideSteps ==
  /\ \A t \in Threads : WriteFlag(t) => Aside
  /\ \A w \in Workers : WaitInterrupt(w) \/ Stop(w) => Aside
  /\ InterruptEnds => Aside
  BY DEF Aside, WriteFlag, WaitInterrupt, Stop, InterruptEnds, callerVars, workVars, breakVars,
         flagVars, lockVars

(* A call that was not answered stays in the history. *)
LEMMA CutStays ==
  ASSUME TypeOK, answers' = answers \/ Return
  PROVE  /\ \A i \in Nat : Cut(i) => Cut(i)'
         /\ Calm' => Calm
  <1>1. CASE answers' = answers
    BY <1>1 DEF Cut, Calm
  <1>2. CASE Return
    BY <1>2, ReturnFacts DEF Cut, Calm
  <1> QED
    BY <1>1, <1>2

(* Only Return changes the history. *)
LEMMA HistoryStep ==
  ASSUME [Next]_vars
  PROVE  answers' = answers \/ Return
  <1> USE DEF callerVars
  <1>1. ASSUME NEW w \in Workers, WorkerNext(w) PROVE answers' = answers
    BY <1>1 DEF WorkerNext, Quit, Pop, Enter, Answer, GiveUp, SearchReturns, Check, Join,
                PortfolioJoin, Store
  <1>2. CASE CallerNext
    BY <1>2 DEF CallerNext, Solve, ResetResult, SetIndex, Post, WaitResult, WaitInterrupt,
                Destroy, Stop, JoinThread
  <1>3. CASE Interrupt \/ InterruptEnds \/ Finished \/ UNCHANGED vars
    BY <1>3 DEF Interrupt, InterruptEnds, Finished, vars
  <1>4. ASSUME NEW t \in Threads, WriteFlag(t) PROVE answers' = answers
    BY <1>4 DEF WriteFlag
  <1> QED
    BY <1>1, <1>2, <1>3, <1>4 DEF Next

(* The three counts of calls agree. *)
LEMMA IndexStep ==
  ASSUME TypeOK, IndexInv, [Next]_vars
  PROVE  IndexInv'
  <1> USE PainlessAssumption, TruthFacts
      DEF callerVars, resultVars, portVars, workVars, breakVars, InCall, Resetting
  <1>0. Len(answers) \in Nat
    BY DEF TypeOK
  <1>1. CASE Solve
    BY <1>0, <1>1 DEF Solve, IndexInv, TypeOK
  <1>2. CASE ResetResult \/ SetIndex
    BY <1>0, <1>2 DEF ResetResult, SetIndex, IndexInv, TypeOK
  <1>3. ASSUME NEW w \in Workers, Post(w) PROVE IndexInv'
    <2>1. \A v \in Workers : task'[v] <= solve_index /\ job'[v] <= solve_index
      BY <1>3 DEF Post, IndexInv, TypeOK
    <2> QED
      BY <1>3, <2>1 DEF Post, IndexInv
  <1>4. CASE WaitResult \/ Destroy
    BY <1>0, <1>4 DEF WaitResult, Destroy, IndexInv
  <1>5. CASE Return
    BY <1>5, ReturnFacts DEF Return, IndexInv
  <1>6. ASSUME NEW w \in Workers, JoinThread(w) PROVE IndexInv'
    BY <1>6 DEF JoinThread, IndexInv
  <1>7. CASE Aside
    BY <1>7 DEF Aside, IndexInv
  <1>8. CASE Interrupt \/ Finished \/ UNCHANGED vars
    BY <1>8 DEF Interrupt, Finished, vars, IndexInv
  <1>9. ASSUME NEW w \in Workers, WorkerNext(w) PROVE IndexInv'
    <2>1. \A v \in Workers : task'[v] <= solve_index /\ job'[v] <= solve_index
      <3>1. CASE Pop(w)
        BY <3>1, <1>0 DEF Pop, IndexInv, TypeOK
      <3>2. CASE ~Pop(w)
        <4>1. task' = task /\ job' = job
          BY <1>9, <3>2 DEF WorkerNext, Quit, Enter, Answer, GiveUp, SearchReturns, Check, Join,
                            PortfolioJoin, Store
        <4> QED
          BY <4>1 DEF IndexInv
      <3> QED
        BY <3>1, <3>2
    <2>2. UNCHANGED <<pc, solve_index, current_index, answers>>
      BY <1>9 DEF WorkerNext, Quit, Pop, Enter, Answer, GiveUp, SearchReturns, Check, Join,
                  PortfolioJoin, Store
    <2> QED
      BY <2>1, <2>2 DEF IndexInv
  <1> QED
    BY <1>1, <1>2, <1>3, <1>4, <1>5, <1>6, <1>7, <1>8, <1>9, AsideSteps DEF Next, CallerNext

(* The caller's steps do not touch a worker's result; a worker that is about *)
(* to store one when the call returns makes no difference to a call that     *)
(* was answered.                                                             *)
LEMMA WorkerInvByCaller ==
  ASSUME PInv, CallerNext \/ Interrupt \/ Aside \/ UNCHANGED vars
  PROVE  WorkerInv'
  <1> USE PainlessAssumption, TruthFacts
      DEF callerVars, resultVars, portVars, workVars, breakVars, PInv
  <1>0. /\ wpc' = wpc /\ job' = job /\ res' = res
        /\ global_ending' => global_ending
    <2>1. wpc' = wpc /\ job' = job /\ res' = res
      BY DEF CallerNext, Solve, ResetResult, SetIndex, Post, WaitResult, WaitInterrupt, Return,
             Destroy, Stop, JoinThread, Interrupt, Aside, vars
    <2>2. global_ending' = FALSE \/ global_ending' = global_ending
      BY DEF CallerNext, Solve, ResetResult, SetIndex, Post, WaitResult, WaitInterrupt, Return,
             Destroy, Stop, JoinThread, Interrupt, Aside, vars
    <2> QED
      BY <2>1, <2>2
  <1>1. answers' = answers \/ Return
    BY DEF CallerNext, Solve, ResetResult, SetIndex, Post, WaitResult, WaitInterrupt, Return,
           Destroy, Stop, JoinThread, Interrupt, Aside, vars
  <1>2. ASSUME NEW w \in Workers, wpc[w] = "store"
        PROVE  (InCall' /\ job[w] = solve_index') \/ Cut(job[w])'
    <2>0. job[w] \in Nat /\ job'[w] = job[w] /\ (Cut(job[w]) => Cut(job[w])')
      <3>1. job[w] \in Nat /\ job'[w] = job[w]
        BY <1>0 DEF TypeOK
      <3>2. \A i \in Nat : Cut(i) => Cut(i)'
        BY <1>1, CutStays
      <3> QED
        BY <3>1, <3>2 DEF Cut
    <2>a. (InCall /\ job[w] = solve_index) \/ Cut(job[w])
      BY <1>2 DEF WorkerInv
    <2>1. CASE Cut(job[w])
      BY <2>0, <2>1
    <2>2. CASE ~Cut(job[w]) /\ Return
      <3>1. job[w] = Len(answers) + 1
        BY <2>a, <2>2 DEF IndexInv
      <3>2. Calm
        <4>1. \A j \in DOMAIN answers : j <= job[w]
          BY <2>2, <3>1, ReturnFacts
        <4> QED
          BY <2>2, <4>1 DEF Cut, Calm
      <3>3. got = "UNKNOWN"
        BY <1>2, <2>2, <3>2 DEF CalmInv, WorkerInv, Return
      <3>4. /\ Len(answers) + 1 \in DOMAIN answers'
            /\ answers'[Len(answers) + 1].state = "UNKNOWN"
        BY <2>2, <3>3, ReturnFacts
      <3> QED
        BY <3>1, <3>4, <2>0 DEF Cut
    <2>3. CASE ~Cut(job[w]) /\ ~Return
      <3>1. InCall
        BY <2>a, <2>3
      <3>2. InCall' /\ solve_index' = solve_index
        BY <2>3, <3>1 DEF InCall, CallerNext, Solve, ResetResult, SetIndex, Post, WaitResult,
                          WaitInterrupt, Destroy, Stop, JoinThread, Interrupt, Aside, vars
      <3> QED
        BY <2>a, <2>3, <3>2
    <2> QED
      BY <2>1, <2>2, <2>3
  <1> QED
    BY <1>0, <1>2 DEF WorkerInv

(* A worker reports the truth about its task, and joins only where it may.  *)
LEMMA WorkerInvByWorker ==
  ASSUME PInv, NEW w \in Workers, WorkerNext(w)
  PROVE  WorkerInv'
  <1> USE PainlessAssumption, TruthFacts
      DEF callerVars, resultVars, portVars, workVars, breakVars, PInv
  <1>0. pc' = pc /\ solve_index' = solve_index /\ answers' = answers
    BY DEF WorkerNext, Quit, Pop, Enter, Answer, GiveUp, SearchReturns, Check, Join,
           PortfolioJoin, Store
  <1>a. (InCall' <=> InCall) /\ \A i : Cut(i)' <=> Cut(i)
    BY <1>0 DEF InCall, Cut
  <1>b. /\ wpc \in [Workers -> {"wait", "enter", "search", "check", "join", "lock", "store", "done"}]
        /\ job \in [Workers -> 0..MaxSolves] /\ task \in [Workers -> 0..MaxSolves]
        /\ res \in [Workers -> Results]
    BY DEF TypeOK
  <1>1. CASE Quit(w) \/ Enter(w) \/ Check(w) \/ Join(w)
    <2>1. /\ job' = job /\ res' = res /\ global_ending' = global_ending
          /\ \A v \in Workers : v # w => wpc'[v] = wpc[v]
          /\ wpc'[w] \in Working => wpc[w] \in Working
          /\ wpc'[w] \in {"check", "join", "lock", "store"} => wpc[w] \in {"check", "join", "lock"}
          /\ wpc'[w] # "store"
      BY <1>1, <1>b DEF Quit, Enter, Check, Join, Goto, Working
    <2> QED
      BY <1>0, <1>a, <2>1 DEF WorkerInv
  <1>2. CASE Pop(w)
    <2>1. /\ res' = res /\ global_ending' = global_ending
          /\ \A v \in Workers : v # w => wpc'[v] = wpc[v] /\ job'[v] = job[v]
          /\ wpc'[w] = "enter" /\ job'[w] \in 1..MaxSolves
      BY <1>2, <1>b DEF Pop, Goto
    <2> QED
      BY <1>0, <1>a, <2>1 DEF WorkerInv
  <1>3. CASE Answer(w) \/ GiveUp(w)
    <2>1. /\ job' = job /\ global_ending' = global_ending
          /\ \A v \in Workers : v # w => wpc'[v] = wpc[v] /\ res'[v] = res[v]
          /\ wpc[w] = "search" /\ wpc'[w] = "check"
          /\ res'[w] \in {Truth[job[w]], "UNKNOWN"}
      BY <1>3, <1>b DEF Answer, GiveUp, SearchReturns, Goto
    <2> QED
      BY <1>0, <1>a, <2>1 DEF WorkerInv, Working
  <1>4. CASE PortfolioJoin(w)
    <2>1. /\ job' = job /\ res' = res /\ global_ending' = global_ending
          /\ \A v \in Workers : v # w => wpc'[v] = wpc[v]
          /\ wpc[w] = "lock" /\ wpc'[w] \in {"wait", "store"}
      BY <1>4, <1>b DEF PortfolioJoin, Goto
    <2>2. ASSUME wpc'[w] = "store"
          PROVE  /\ res[w] # "UNKNOWN" /\ ~global_ending
                 /\ (InCall /\ job[w] = solve_index) \/ Cut(job[w])
      <3>1. /\ res[w] # "UNKNOWN" /\ ~global_ending /\ ~strategyEnding
            /\ job[w] = current_index
        BY <1>4, <1>b, <2>2 DEF PortfolioJoin, Goto
      <3>2. CASE Calm
        <4>1. ~Closed
          BY <1>4, <3>1 DEF PortfolioJoin, Closed
        <4> QED
          BY <3>1, <3>2, <4>1 DEF CalmInv, IndexInv, InCall, Resetting
      <3>3. CASE ~Calm
        <4>1. PICK j \in DOMAIN answers : answers[j].state = "UNKNOWN"
          BY <3>3 DEF Calm
        <4>2. j <= Len(answers) /\ j \in Nat /\ Len(answers) \in Nat
          BY DEF TypeOK
        <4>3. Len(answers) <= current_index
          BY <4>2 DEF IndexInv
        <4>4. j <= job[w]
          BY <3>1, <4>2, <4>3 DEF TypeOK
        <4> QED
          BY <3>1, <4>1, <4>4 DEF Cut
      <3> QED
        BY <3>2, <3>3
    <2>3. wpc'[w] \in Working => wpc'[w] = "store"
      BY <2>1 DEF Working
    <2> QED
      BY <1>0, <1>a, <2>1, <2>2, <2>3 DEF WorkerInv, Working
  <1>5. CASE Store(w)
    <2>1. /\ job' = job /\ res' = res
          /\ \A v \in Workers : v # w => wpc'[v] = wpc[v]
          /\ wpc[w] = "store" /\ wpc'[w] = "wait"
      BY <1>5, <1>b DEF Store, Goto
    <2>2. \A v \in Workers : wpc'[v] # "store"
      BY <2>1 DEF TypeOK
    <2> QED
      BY <1>0, <1>a, <2>1, <2>2 DEF WorkerInv, Working
  <1> QED
    BY <1>1, <1>2, <1>3, <1>4, <1>5 DEF WorkerNext

(* Where nobody can join, no step of a worker changes that. *)
LEMMA ClosedStays ==
  ASSUME TypeOK, Closed, NEW w \in Workers, WorkerNext(w)
  PROVE  Closed' /\ ~Store(w)
  <1> USE DEF callerVars, resultVars, portVars, workVars, Goto
  <1>0. /\ wpc \in [Workers -> {"wait", "enter", "search", "check", "join", "lock", "store", "done"}]
        /\ task \in [Workers -> 0..MaxSolves]
        /\ wpc[w] # "store"
    BY DEF TypeOK, Closed
  <1>1. CASE strategyEnding
    <2>1. strategyEnding'
      BY <1>1 DEF WorkerNext, Quit, Pop, Enter, Answer, GiveUp, SearchReturns, Check, Join,
                  PortfolioJoin, Store
    <2>2. wpc'[w] # "store" /\ \A v \in Workers : v # w => wpc'[v] = wpc[v]
      BY <1>0, <1>1 DEF WorkerNext, Quit, Pop, Enter, Answer, GiveUp, SearchReturns, Check, Join,
                        PortfolioJoin, Store
    <2> QED
      BY <1>0, <2>1, <2>2 DEF Closed, Store
  <1>2. CASE ~strategyEnding
    <2>1. wpc[w] \in {"wait", "done"} /\ task[w] = 0
      BY <1>2 DEF Closed
    <2>2. Quit(w)
      BY <2>1 DEF WorkerNext, Pop, Enter, Answer, GiveUp, SearchReturns, Check, Join,
                  PortfolioJoin, Store
    <2> QED
      BY <1>0, <2>2 DEF Quit, Closed, Store
  <1> QED
    BY <1>1, <1>2

(* The caller's part of keeping late joins out. *)
LEMMA CalmByCaller ==
  ASSUME PInv, CallerNext \/ Interrupt \/ Aside \/ UNCHANGED vars
  PROVE  CalmInv'
  <1> USE PainlessAssumption, TruthFacts
      DEF callerVars, resultVars, portVars, workVars, breakVars, PInv
  <1>0. answers' = answers \/ Return
    BY DEF CallerNext, Solve, ResetResult, SetIndex, Post, WaitResult, WaitInterrupt, Return,
           Destroy, Stop, JoinThread, Interrupt, Aside, vars
  <1> SUFFICES ASSUME Calm' PROVE CalmInv'
    BY DEF CalmInv
  <1>a. Calm
    BY <1>0, CutStays
  <1>1. CASE Solve
    BY <1>1, <1>a DEF Solve, CalmInv, Closed
  <1>2. CASE ResetResult
    BY <1>2, <1>a DEF ResetResult, CalmInv, Closed
  <1>3. CASE SetIndex
    BY <1>3, <1>a DEF SetIndex, CalmInv, Closed
  <1>4. ASSUME NEW w \in Workers, Post(w) PROVE CalmInv'
    BY <1>4, <1>a DEF Post, CalmInv, Right
  <1>5. CASE WaitResult
    BY <1>5, <1>a DEF WaitResult, CalmInv, Right
  <1>6. CASE Return
    <2>1. got # "UNKNOWN"
      BY <1>6, ReturnFacts DEF Calm
    <2>2. global_ending /\ strategyEnding
      BY <1>6, <1>a, <2>1 DEF Return, CalmInv
    <2>3. \A w \in Workers : wpc[w] # "store"
      BY <2>2 DEF WorkerInv
    <2> QED
      BY <1>6, <2>2, <2>3 DEF Return, CalmInv, Closed
  <1>7. CASE Destroy
    BY <1>7, <1>a DEF Destroy, CalmInv, Closed
  <1>8. ASSUME NEW w \in Workers, JoinThread(w) PROVE CalmInv'
    BY <1>8, <1>a DEF JoinThread, CalmInv, Closed
  <1>9. CASE Aside \/ Interrupt \/ UNCHANGED vars
    <2>1. UNCHANGED <<pc, solve_index, got, resultVars, strategyEnding, wpc, task, job>>
      BY <1>9 DEF Aside, Interrupt, vars
    <2> QED
      BY <1>a, <2>1 DEF CalmInv, Closed, Right
  <1> QED
    BY <1>1, <1>2, <1>3, <1>4, <1>5, <1>6, <1>7, <1>8, <1>9, AsideSteps DEF CallerNext

(* A worker's part: the first join of this call sets strategyEnding and     *)
(* stores the answer of this call.                                          *)
LEMMA CalmByWorker ==
  ASSUME PInv, NEW w \in Workers, WorkerNext(w)
  PROVE  CalmInv'
  <1> USE PainlessAssumption, TruthFacts
      DEF callerVars, resultVars, portVars, workVars, breakVars, PInv, Goto
  <1>0. /\ pc' = pc /\ solve_index' = solve_index /\ answers' = answers /\ got' = got
        /\ current_index' = current_index
    BY DEF WorkerNext, Quit, Pop, Enter, Answer, GiveUp, SearchReturns, Check, Join,
           PortfolioJoin, Store
  <1>t. /\ wpc \in [Workers -> {"wait", "enter", "search", "check", "join", "lock", "store", "done"}]
        /\ job \in [Workers -> 0..MaxSolves]
    BY DEF TypeOK
  <1> SUFFICES ASSUME Calm' PROVE CalmInv'
    BY DEF CalmInv
  <1>a. Calm
    BY <1>0 DEF Calm
  <1>1. CASE pc \notin {"post", "wait", "await"}
    <2>1. Closed' /\ ~Store(w)
      BY <1>1, <1>a, ClosedStays DEF CalmInv
    <2>2. UNCHANGED resultVars
      BY <2>1 DEF WorkerNext, Quit, Pop, Enter, Answer, GiveUp, SearchReturns, Check, Join,
                  PortfolioJoin
    <2> QED
      BY <1>0, <1>1, <1>a, <2>1, <2>2 DEF CalmInv
  <1>2. CASE pc = "await"
    <2> SUFFICES ASSUME got # "UNKNOWN"
                 PROVE  (global_ending /\ strategyEnding /\ Right(got))'
      BY <1>0, <1>2 DEF CalmInv
    <2>1. global_ending /\ strategyEnding /\ Right(got)
      BY <1>2, <1>a DEF CalmInv
    <2>2. ~Store(w)
      BY <2>1 DEF WorkerInv, Store
    <2>3. UNCHANGED <<resultVars, strategyEnding>>
      BY <2>1, <2>2 DEF WorkerNext, Quit, Pop, Enter, Answer, GiveUp, SearchReturns, Check, Join,
                        PortfolioJoin
    <2> QED
      BY <1>0, <2>1, <2>3 DEF Right
  <1>3. CASE pc \in {"post", "wait"}
    <2>0. /\ \A v \in Workers : wpc[v] = "store" => job[v] = solve_index /\ strategyEnding
          /\ global_ending <=> final_result # "UNKNOWN"
          /\ global_ending => strategyEnding /\ Right(final_result)
          /\ current_index = solve_index
      BY <1>3, <1>a DEF CalmInv, IndexInv, Resetting
    <2>1. CASE Store(w)
      <3>1. /\ wpc[w] = "store" /\ final_result' = res[w] /\ global_ending' = TRUE
            /\ final_model' = IF res[w] = "SAT" THEN job[w] ELSE final_model
            /\ strategyEnding' = strategyEnding /\ job' = job
            /\ \A v \in Workers : wpc'[v] = "store" => wpc[v] = "store"
        BY <1>t, <2>1 DEF Store
      <3>2. /\ job[w] = solve_index /\ strategyEnding
            /\ res[w] = Truth[job[w]] /\ res[w] # "UNKNOWN"
        BY <2>0, <3>1 DEF WorkerInv
      <3>3. Right(final_result)'
        BY <1>0, <3>1, <3>2 DEF Right
      <3> QED
        BY <1>0, <1>3, <2>0, <3>1, <3>2, <3>3 DEF CalmInv
    <2>2. CASE PortfolioJoin(w)
      <3>1. /\ UNCHANGED resultVars /\ job' = job
            /\ strategyEnding => strategyEnding'
            /\ \A v \in Workers : v # w /\ wpc'[v] = "store" => wpc[v] = "store"
            /\ wpc'[w] = "store" => strategyEnding' /\ job[w] = current_index
        <4>1. CASE res[w] = "UNKNOWN" \/ strategyEnding \/ global_ending \/ job[w] # current_index
          BY <1>t, <2>2, <4>1 DEF PortfolioJoin
        <4>2. CASE ~(res[w] = "UNKNOWN" \/ strategyEnding \/ global_ending
                        \/ job[w] # current_index)
          BY <1>t, <2>2, <4>2 DEF PortfolioJoin
        <4> QED
          BY <4>1, <4>2
      <3> QED
        BY <1>0, <1>3, <2>0, <3>1 DEF CalmInv, Right
    <2>3. CASE ~Store(w) /\ ~PortfolioJoin(w)
      <3>1. /\ UNCHANGED <<resultVars, strategyEnding>>
            /\ \A v \in Workers : wpc'[v] = "store" => wpc[v] = "store" /\ job'[v] = job[v]
        BY <1>t, <2>3 DEF WorkerNext, Quit, Pop, Enter, Answer, GiveUp, SearchReturns, Check, Join
      <3> QED
        BY <1>0, <1>3, <2>0, <3>1 DEF CalmInv, Right
    <2> QED
      BY <2>1, <2>2, <2>3
  <1> QED
    BY <1>1, <1>2, <1>3

(* Every result comes from a worker that may store it. *)
LEMMA FoundStep ==
  ASSUME PInv, [Next]_vars
  PROVE  FoundInv'
  <1> USE PainlessAssumption, TruthFacts
      DEF callerVars, resultVars, portVars, workVars, breakVars, PInv
  <1>1. CASE Solve \/ Return \/ Destroy
    BY <1>1 DEF Solve, Return, Destroy, FoundInv
  <1>2. ASSUME NEW w \in Workers, JoinThread(w) PROVE FoundInv'
    BY <1>2 DEF JoinThread, FoundInv
  <1>3. CASE ResetResult
    <2>1. UNCHANGED <<answers, solve_index>>
      BY <1>3 DEF ResetResult
    <2>2. CASE pc = "reset"
      BY <1>3, <2>2 DEF ResetResult, FoundInv
    <2>3. CASE pc = "result"
      BY <1>3, <2>3 DEF ResetResult, FoundInv, Found
    <2>4. CASE pc = "model"
      BY <1>3, <2>1, <2>4 DEF ResetResult, FoundInv, Found, Cut
    <2> QED
      BY <1>3, <2>2, <2>3, <2>4 DEF ResetResult
  <1>4. CASE SetIndex \/ WaitResult
    BY <1>4 DEF SetIndex, WaitResult, FoundInv, Found, Cut
  <1>5. ASSUME NEW w \in Workers, Post(w) PROVE FoundInv'
    BY <1>5 DEF Post, FoundInv, Found, Cut
  <1>6. CASE Aside \/ Interrupt \/ Finished \/ UNCHANGED vars
    <2>1. UNCHANGED <<pc, solve_index, got, answers, final_result>>
      BY <1>6 DEF Aside, Interrupt, Finished, vars
    <2> QED
      BY <2>1 DEF FoundInv, Found, Cut
  <1>7. ASSUME NEW w \in Workers, WorkerNext(w), ~Store(w) PROVE FoundInv'
    <2>1. UNCHANGED <<pc, solve_index, got, answers, final_result>>
      BY <1>7 DEF WorkerNext, Quit, Pop, Enter, Answer, GiveUp, SearchReturns, Check, Join,
                  PortfolioJoin
    <2> QED
      BY <2>1 DEF FoundInv, Found, Cut
  <1>8. ASSUME NEW w \in Workers, Store(w) PROVE FoundInv'
    <2>1. UNCHANGED <<pc, solve_index, got, answers>> /\ final_result' = res[w]
      BY <1>8 DEF Store
    <2>2. /\ job[w] \in 1..MaxSolves /\ res[w] = Truth[job[w]]
          /\ (InCall /\ job[w] = solve_index) \/ Cut(job[w])
      BY <1>8 DEF Store, WorkerInv, Working
    <2>3. job[w] \in 1..solve_index
      BY <2>2 DEF IndexInv, TypeOK
    <2>4. Found(res[w])
      BY <2>2, <2>3 DEF Found
    <2> QED
      BY <2>1, <2>4 DEF FoundInv, Found, Cut
  <1> QED
    BY <1>1, <1>2, <1>3, <1>4, <1>5, <1>6, <1>7, <1>8, AsideSteps DEF Next, CallerNext

(* The first UNKNOWN is the work of interrupt(). *)
LEMMA BlameStep ==
  ASSUME PInv, [Next]_vars
  PROVE  BlameInv'
  <1> USE PainlessAssumption, TruthFacts
      DEF callerVars, resultVars, portVars, workVars, breakVars, PInv
  <1>0. interrupts \in Nat
    BY DEF TypeOK
  <1>1. CASE Solve \/ ResetResult \/ SetIndex \/ Destroy
    BY <1>1 DEF Solve, ResetResult, SetIndex, Destroy, BlameInv, Calm
  <1>2. ASSUME NEW w \in Workers, Post(w) \/ JoinThread(w) PROVE BlameInv'
    BY <1>2 DEF Post, JoinThread, BlameInv, Calm
  <1>3. CASE WaitResult
    <2>1. got' = "UNKNOWN" => interrupts > 0
      BY <1>3 DEF WaitResult, BlameInv, CalmInv
    <2> QED
      BY <1>3, <2>1 DEF WaitResult, BlameInv, Calm
  <1>4. CASE Return
    <2>1. ~Calm' => ~Calm \/ got = "UNKNOWN"
      BY <1>4, ReturnFacts DEF Calm
    <2> QED
      BY <1>4, <2>1 DEF Return, BlameInv
  <1>5. CASE Interrupt
    BY <1>0, <1>5 DEF Interrupt, BlameInv, Calm
  <1>6. CASE Aside \/ Finished \/ UNCHANGED vars
    BY <1>6 DEF Aside, Finished, vars, BlameInv, Calm
  <1>7. ASSUME NEW w \in Workers, WorkerNext(w) PROVE BlameInv'
    <2>1. UNCHANGED <<pc, got, answers, interrupted, interrupts>>
      BY <1>7 DEF WorkerNext, Quit, Pop, Enter, Answer, GiveUp, SearchReturns, Check, Join,
                  PortfolioJoin, Store
    <2> QED
      BY <2>1 DEF BlameInv, Calm
  <1> QED
    BY <1>1, <1>2, <1>3, <1>4, <1>5, <1>6, <1>7, AsideSteps DEF Next, CallerNext

(* The inductive invariant. *)
LEMMA PainlessStep == PInv /\ [Next]_vars => PInv'
  <1> SUFFICES ASSUME PInv, [Next]_vars PROVE PInv'
    OBVIOUS
  <1>1. IndexInv' /\ FoundInv' /\ BlameInv'
    BY IndexStep, FoundStep, BlameStep DEF PInv
  <1>2. TypeOK'
    <2>1. CASE Finished \/ UNCHANGED vars
      BY <2>1 DEF PInv, Finished, vars, TypeOK, callerVars, resultVars, portVars, workVars,
                  flagVars, lockVars, breakVars
    <2> QED
      BY <2>1, CallerTypes, WorkerTypes, FlagTypes DEF PInv, Next
  <1>3. WorkerInv' /\ CalmInv'
    <2>1. CASE \E w \in Workers : WorkerNext(w)
      BY <2>1, WorkerInvByWorker, CalmByWorker
    <2>2. CASE CallerNext \/ Interrupt \/ Aside \/ UNCHANGED vars
      BY <2>2, WorkerInvByCaller, CalmByCaller
    <2> QED
      BY <2>1, <2>2, AsideSteps DEF Next, Finished
  <1> QED
    BY <1>1, <1>2, <1>3 DEF PInv

(* What a call returns is explained when it is appended to the history. *)
LEMMA ExplainedStep ==
  ASSUME PInv, AnswersExplained, [Next]_vars
  PROVE  AnswersExplained'
  <1> USE TruthFacts DEF PInv
  <1>a. PInv'
    BY PainlessStep
  <1>1. UnknownHasCause'
    BY <1>a DEF BlameInv, Calm, UnknownHasCause
  <1>2. WrongOnlyAfterInterrupt'
    <2>1. CASE answers' = answers
      BY <2>1 DEF AnswersExplained, WrongOnlyAfterInterrupt, AfterInterrupt
    <2>2. CASE Return
      <3>z. Len(answers) + 1 \in Nat
        BY DEF TypeOK
      <3>y. PICK n \in Nat : n = Len(answers) + 1
        BY <3>z
      <3>0. /\ n \in Nat /\ DOMAIN answers = 1..(n - 1) /\ DOMAIN answers' = 1..n
            /\ \A j \in 1..(n - 1) : answers'[j] = answers[j]
            /\ answers'[n] = [state |-> got, model |-> final_model]
            /\ solve_index = n /\ pc = "await"
        BY <2>2, <3>y, ReturnFacts DEF Return, IndexInv, InCall
      <3>1. \A k \in 1..n : AfterInterrupt(k) => AfterInterrupt(k)'
        BY <3>0 DEF AfterInterrupt
      <3>2. ASSUME NEW k \in 1..(n - 1)
            PROVE  /\ answers'[k].state \notin {Truth[k], "UNKNOWN"} =>
                          \E i \in 1..(k - 1) : AfterInterrupt(i + 1)' /\ answers'[k].state = Truth[i]
                   /\ answers'[k].state = "SAT" => answers'[k].model = k \/ AfterInterrupt(k)'
        <4>1. /\ answers[k].state \notin {Truth[k], "UNKNOWN"} =>
                     \E i \in 1..(k - 1) : AfterInterrupt(i + 1) /\ answers[k].state = Truth[i]
              /\ answers[k].state = "SAT" => answers[k].model = k \/ AfterInterrupt(k)
          BY <3>0 DEF AnswersExplained, WrongOnlyAfterInterrupt
        <4>2. answers'[k] = answers[k] /\ k \in 1..n
          BY <3>0
        <4>3. \A i \in 1..(k - 1) : i + 1 \in 1..n
          BY <3>0
        <4> QED
          BY <3>1, <4>1, <4>2, <4>3
      <3>3. got \notin {Truth[n], "UNKNOWN"} =>
               \E i \in 1..(n - 1) : AfterInterrupt(i + 1)' /\ got = Truth[i]
        <4> SUFFICES ASSUME got \notin {Truth[n], "UNKNOWN"}
                     PROVE  \E i \in 1..(n - 1) : AfterInterrupt(i + 1)' /\ got = Truth[i]
          OBVIOUS
        <4>1. PICK i \in 1..n : got = Truth[i] /\ (i = n \/ Cut(i))
          BY <3>0 DEF FoundInv, Found
        <4>2. i \in 1..(n - 1) /\ Cut(i)
          BY <3>0, <4>1
        <4>3. AfterInterrupt(i + 1)'
          BY <3>0, <4>2 DEF Cut, AfterInterrupt
        <4> QED
          BY <4>1, <4>2, <4>3
      <3>4. got = "SAT" => final_model = n \/ AfterInterrupt(n)'
        <4>1. CASE Calm
          BY <3>0, <4>1 DEF CalmInv, Right
        <4>2. CASE ~Calm
          <5>1. AfterInterrupt(n)'
            BY <3>0, <4>2 DEF Calm, AfterInterrupt
          <5> QED
            BY <5>1
        <4> QED
          BY <4>1, <4>2
      <3>5. answers'[n].state = got /\ answers'[n].model = final_model
        BY <3>0
      <3>6. \A k \in 1..n : k \in 1..(n - 1) \/ k = n
        BY <3>0
      <3> QED
        BY <3>0, <3>2, <3>3, <3>4, <3>5, <3>6 DEF WrongOnlyAfterInterrupt
    <2> QED
      BY <2>1, <2>2, HistoryStep
  <1> QED
    BY <1>1, <1>2 DEF AnswersExplained

(* A stored result is left alone by everyone but the next call's resets.    *)
LEMMA FirstResultStep ==
  ASSUME PInv, [Next]_vars, global_ending, pc \notin {"reset", "result", "model"}
  PROVE  final_result' = final_result /\ final_model' = final_model
  <1> USE DEF resultVars
  <1>1. ASSUME NEW w \in Workers, WorkerNext(w) PROVE UNCHANGED <<final_result, final_model>>
    <2>1. ~Store(w)
      BY DEF PInv, WorkerInv, Store
    <2> QED
      BY <1>1, <2>1 DEF WorkerNext, Quit, Pop, Enter, Answer, GiveUp, SearchReturns, Check, Join,
                        PortfolioJoin
  <1>2. CASE CallerNext
    BY <1>2 DEF CallerNext, Solve, ResetResult, SetIndex, Post, WaitResult, WaitInterrupt, Return,
                Destroy, Stop, JoinThread
  <1>3. CASE Interrupt \/ InterruptEnds \/ Finished \/ UNCHANGED vars
    BY <1>3 DEF Interrupt, InterruptEnds, Finished, vars
  <1>4. ASSUME NEW t \in Threads, WriteFlag(t) PROVE UNCHANGED <<final_result, final_model>>
    BY <1>4 DEF WriteFlag
  <1> QED
    BY <1>1, <1>2, <1>3, <1>4 DEF Next

----------------------------------------------------------------------------

(* Every variable keeps its type, and join_mutex is held exactly by the     *)
(* worker that is about to store its result.                                *)
THEOREM PainlessTypeCorrect == Spec => []TypeOK
  <1>1. Init => PInv
    BY PainlessInit
  <1>2. PInv => TypeOK
    BY DEF PInv
  <1> QED
    BY <1>1, <1>2, PainlessStep, PTL DEF Spec

(* However the workers' joins, the resets of solve() and interrupt()         *)
(* interleave, and over any number of calls: until a call is interrupted,   *)
(* every answer is right and has its own model; a wrong one is that of the  *)
(* interrupted call or of a later one; and no call gives up by itself.      *)
THEOREM AnswersCorrect == Spec => []AnswersExplained
  <1>1. Init => PInv /\ AnswersExplained
    BY PainlessInit
  <1>2. PInv /\ AnswersExplained /\ [Next]_vars => (PInv /\ AnswersExplained)'
    BY PainlessStep, ExplainedStep
  <1> QED
    BY <1>1, <1>2, PTL DEF Spec

(* The first worker to join wins: what it stored is replaced only by the     *)
(* resets of the next call.                                                  *)
THEOREM FirstResultCorrect == Spec => FirstResultStays
  <1>1. Init => PInv
    BY PainlessInit
  <1>2. PInv /\ [Next]_vars =>
           [final_result # "UNKNOWN" /\ global_ending /\ pc \notin {"reset", "result", "model"}
               => final_result' = final_result /\ final_model' = final_model]_vars
    BY FirstResultStep
  <1> QED
    BY <1>1, <1>2, PainlessStep, PTL DEF Spec, FirstResultStays
=============================================================================
