------------------------- MODULE SolverServiceProofs -------------------------
(***************************************************************************)
(* Theorems about SolverService, for every number of solvers, every set of *)
(* tasks and every number of interrupts.                                   *)
(***************************************************************************)
EXTENDS SolverService, FiniteSetTheorems, TLAPS

----------------------------------------------------------------------------
(* Strengthenings that make the invariants inductive.                      *)

Reported == {"abort", "callback", "interrupting", "finish"}

(* A working thread has a task from the pop to the end of the packaged      *)
(* task, and a State from the moment its solver returns; the State is the   *)
(* truth or UNKNOWN.                                                        *)
WorkerInv ==
    \A w \in Workers :
        /\ pc[w] \in Holding <=> task[w] \in Tasks
        /\ pc[w] \in Reported <=> res[w] \in Results
        /\ pc[w] \in Reported => res[w] \in {Verdict[task[w]], "UNKNOWN"}

(* A flag seen by a search, and an UNKNOWN on its way to the future, were   *)
(* caused by somebody who interrupted the solver of that very task.         *)
BlameInv ==
    \A w \in Workers :
        /\ pc[w] = "search" /\ flag[w] => blame[task[w]] # {}
        /\ res[w] = "UNKNOWN" => blame[task[w]] # {}

----------------------------------------------------------------------------

(* The variables keep their types: the initial state. *)
LEMMA TypeInit == Init => TypeOK
  <1> SUFFICES ASSUME Init PROVE TypeOK
    OBVIOUS
  <1> USE ConstantsAssumption DEF Init
  <1>0. interrupts \in 0..MaxInterrupts
    OBVIOUS
  <1>1. queue \in Seq(Tasks)
    OBVIOUS
  <1>2. stop \in BOOLEAN
    OBVIOUS
  <1>6. future \in [Tasks -> {"none", "pending", "broken"} \cup Results]
    OBVIOUS
  <1>3. /\ pc \in [Workers -> WorkerStates]
        /\ task \in [Workers -> Tasks \cup {None}]
        /\ res \in [Workers -> Results \cup {None}]
        /\ flag \in [Workers -> BOOLEAN]
    BY DEF WorkerStates
  <1>4. /\ timer \in [Tasks -> TimerStates]
        /\ armedBy \in [Tasks -> Workers \cup {None}]
        /\ blame \in [Tasks -> SUBSET (Tasks \cup {None})]
    BY DEF TimerStates
  <1>5. /\ todo \in [Callers -> SUBSET Workers]
        /\ client \in [Outside -> {"free", "notifying", "interrupting", "joining", "gone"}]
    OBVIOUS
  <1> QED
    BY <1>0, <1>1, <1>2, <1>3, <1>4, <1>5, <1>6 DEF TypeOK

(* A notification moves at most one waiting thread. *)
LEMMA NotifyOneType ==
  ASSUME TypeOK, NotifyOne
  PROVE  pc' \in [Workers -> WorkerStates]
  BY DEF TypeOK, NotifyOne, Goto, WorkerStates

(* An emptied queue is a sequence of tasks, and its futures are broken. *)
LEMMA DropQueueType ==
  ASSUME TypeOK, DropQueue
  PROVE  /\ queue' \in Seq(Tasks)
         /\ future' \in [Tasks -> {"none", "pending", "broken"} \cup Results]
  BY DEF TypeOK, DropQueue

(* Every step keeps the types. *)
LEMMA TypeStep == TypeOK /\ WorkerInv /\ [Next]_vars => TypeOK'
  <1> SUFFICES ASSUME TypeOK, WorkerInv, [Next]_vars PROVE TypeOK'
    OBVIOUS
  <1> USE ConstantsAssumption DEF TypeOK, serviceVars, solverVars, callerVars
  <1>1. ASSUME NEW t \in Tasks, Solve(t) PROVE TypeOK'
    BY <1>1 DEF Solve, Outside
  <1>2. ASSUME Notify PROVE TypeOK'
    <2>1. pc' \in [Workers -> WorkerStates]
      BY <1>2, NotifyOneType DEF Notify
    <2> QED
      BY <1>2, <2>1 DEF Notify, Outside
  <1>3. ASSUME Interrupt PROVE TypeOK'
    <2>1. /\ queue' \in Seq(Tasks)
          /\ future' \in [Tasks -> {"none", "pending", "broken"} \cup Results]
      BY <1>3, DropQueueType DEF Interrupt
    <2> QED
      BY <1>3, <2>1 DEF Interrupt, Outside, Callers
  <1>4. ASSUME Destroy PROVE TypeOK'
    <2>1. /\ queue' \in Seq(Tasks)
          /\ future' \in [Tasks -> {"none", "pending", "broken"} \cup Results]
      BY <1>4, DropQueueType DEF Destroy
    <2> QED
      BY <1>4, <2>1 DEF Destroy, Outside, Callers
  <1>5. ASSUME NEW c \in Callers, NEW w \in Workers, InterruptSolver(c, w) PROVE TypeOK'
    BY <1>5 DEF InterruptSolver, SetFlag
  <1>6. ASSUME InterruptReturns PROVE TypeOK'
    BY <1>6 DEF InterruptReturns, Outside
  <1>7. ASSUME NotifyAll PROVE TypeOK'
    BY <1>7 DEF NotifyAll, Outside, WorkerStates
  <1>8. ASSUME Join PROVE TypeOK'
    BY <1>8 DEF Join, Outside
  <1>9. ASSUME NEW w \in Workers, Wait(w) \/ SpuriousWakeup(w) \/ Exit(w) \/ Enter(w) PROVE TypeOK'
    BY <1>9, ZenonT(60) DEF Wait, SpuriousWakeup, Exit, Enter, Goto, WorkerStates
  <1>10. ASSUME NEW w \in Workers, Take(w) PROVE TypeOK'
    BY <1>10 DEF Take, Goto, WorkerStates
  <1>11. ASSUME NEW w \in Workers, Arm(w) PROVE TypeOK'
    <2>1. timer' \in [Tasks -> TimerStates]
      BY <1>11 DEF Arm, TimerStates
    <2>2. armedBy' \in [Tasks -> Workers \cup {None}]
      BY <1>11 DEF Arm
    <2> QED
      BY <1>11, <2>1, <2>2 DEF Arm, Goto, WorkerStates
  <1>12. ASSUME NEW w \in Workers, Answer(w) PROVE TypeOK'
    <2>1. task[w] \in Tasks
      BY <1>12 DEF Answer, Returned, WorkerInv, Holding, WorkerStates
    <2>2. Verdict[task[w]] \in Results
      BY <2>1 DEF Results
    <2> QED
      BY <1>12, <2>2 DEF Answer, Returned, Goto, WorkerStates
  <1>13. ASSUME NEW w \in Workers, GiveUp(w) PROVE TypeOK'
    BY <1>13 DEF GiveUp, Returned, Goto, WorkerStates, Results
  <1>14. ASSUME NEW w \in Workers, Abort(w) PROVE TypeOK'
    BY <1>14 DEF Abort, Goto, WorkerStates, TimerStates
  <1>15. ASSUME NEW w \in Workers, Callback(w) \/ CallbackReturns(w) PROVE TypeOK'
    BY <1>15 DEF Callback, CallbackReturns, Goto, WorkerStates
  <1>16. ASSUME NEW w \in Workers, CallbackInterrupts(w) PROVE TypeOK'
    <2>1. /\ queue' \in Seq(Tasks)
          /\ future' \in [Tasks -> {"none", "pending", "broken"} \cup Results]
      BY <1>16, DropQueueType DEF CallbackInterrupts
    <2> QED
      BY <1>16, <2>1 DEF CallbackInterrupts, Goto, WorkerStates, Callers
  <1>17. ASSUME NEW w \in Workers, Finish(w) PROVE TypeOK'
    <2>1. res[w] \in Results
      BY <1>17 DEF Finish, WorkerInv, Reported
    <2> QED
      BY <1>17, <2>1 DEF Finish, Goto, WorkerStates
  <1>18. ASSUME NEW t \in Tasks, Due(t) PROVE TypeOK'
    BY <1>18 DEF Due, TimerStates
  <1>19. ASSUME NEW t \in Tasks, Fire(t) PROVE TypeOK'
    BY <1>19 DEF Fire, SetFlag, TimerStates
  <1>20. ASSUME UNCHANGED vars PROVE TypeOK'
    BY <1>20 DEF vars
  <1> QED
    BY <1>1, <1>2, <1>3, <1>4, <1>5, <1>6, <1>7, <1>8, <1>9, <1>10, <1>11, <1>12,
       <1>13, <1>14, <1>15, <1>16, <1>17, <1>18, <1>19, <1>20
    DEF Next, WorkerStep, CallerStep, TimerStep, Quiet

----------------------------------------------------------------------------
(* What a working thread holds: nothing, to begin with. *)
LEMMA WorkerInvInit == Init => WorkerInv
  BY ConstantsAssumption
  DEF Init, WorkerInv, Holding, Reported, Results

(* Every step keeps WorkerInv. *)
LEMMA WorkerInvStep == TypeOK /\ WorkerInv /\ [Next]_vars => WorkerInv'
  <1> SUFFICES ASSUME TypeOK, WorkerInv, [Next]_vars PROVE WorkerInv'
    OBVIOUS
  <1> USE ConstantsAssumption
      DEF WorkerInv, Holding, WorkerStates, Reported, serviceVars, solverVars, callerVars
  <1>1. ASSUME UNCHANGED <<pc, task, res>> PROVE WorkerInv'
    BY <1>1
  <1>2. ASSUME NotifyOne, UNCHANGED <<task, res>> PROVE WorkerInv'
    BY <1>2 DEF NotifyOne, Goto, TypeOK
  <1>3. ASSUME NotifyAll PROVE WorkerInv'
    BY <1>3 DEF NotifyAll, TypeOK
  <1>4. ASSUME NEW w \in Workers, Wait(w) \/ SpuriousWakeup(w) \/ Exit(w) PROVE WorkerInv'
    BY <1>4 DEF Wait, SpuriousWakeup, Exit, Goto, TypeOK
  <1>5. ASSUME NEW w \in Workers, Take(w) PROVE WorkerInv'
    <2>1. Head(queue) \in Tasks
      BY <1>5 DEF Take, TypeOK
    <2> QED
      BY <1>5, <2>1 DEF Take, Goto, TypeOK
  <1>6. ASSUME NEW w \in Workers, Arm(w) \/ Enter(w) PROVE WorkerInv'
    BY <1>6 DEF Arm, Enter, Goto, TypeOK
  <1>7. ASSUME NEW w \in Workers, Answer(w) PROVE WorkerInv'
    <2>1. Verdict[task[w]] \in Results
      BY <1>7 DEF Answer, Returned, Results
    <2> QED
      BY <1>7, <2>1 DEF Answer, Returned, Goto, TypeOK
  <1>8. ASSUME NEW w \in Workers, GiveUp(w) PROVE WorkerInv'
    BY <1>8 DEF GiveUp, Returned, Goto, TypeOK, Results
  <1>9. ASSUME NEW w \in Workers,
               Abort(w) \/ Callback(w) \/ CallbackInterrupts(w) \/ CallbackReturns(w)
        PROVE  WorkerInv'
    BY <1>9 DEF Abort, Callback, CallbackInterrupts, CallbackReturns, Goto, TypeOK
  <1>10. ASSUME NEW w \in Workers, Finish(w) PROVE WorkerInv'
    BY <1>10 DEF Finish, Goto, TypeOK
  <1> QED
    BY <1>1, <1>2, <1>3, <1>4, <1>5, <1>6, <1>7, <1>8, <1>9, <1>10
    DEF Next, WorkerStep, CallerStep, TimerStep, Quiet, vars, Solve, Notify, Interrupt,
        Destroy, InterruptSolver, InterruptReturns, Join, Due, Fire

(* Every variable of the service keeps its type, in every behaviour. *)
THEOREM TypeCorrect == Spec => []TypeOK
  <1>1. TypeOK /\ WorkerInv /\ [Next]_vars => (TypeOK /\ WorkerInv)'
    BY TypeStep, WorkerInvStep
  <1> QED
    BY TypeInit, WorkerInvInit, <1>1, PTL DEF Spec

----------------------------------------------------------------------------
(* One owner for every pending task.                                       *)

Elems(s) == {s[i] : i \in 1..Len(s)}

Distinct(s) == \A i, j \in 1..Len(s) : s[i] = s[j] => i = j

(* A push adds one element at the end. *)
LEMMA AppendElems ==
  ASSUME NEW S, NEW s \in Seq(S), NEW t \in S
  PROVE  /\ Elems(Append(s, t)) = Elems(s) \cup {t}
         /\ Distinct(s) /\ t \notin Elems(s) => Distinct(Append(s, t))
  <1>1. /\ Len(Append(s, t)) = Len(s) + 1
        /\ \A i \in 1..Len(s) : Append(s, t)[i] = s[i]
        /\ Append(s, t)[Len(s) + 1] = t
        /\ Len(s) \in Nat
    OBVIOUS
  <1>2. Elems(Append(s, t)) = Elems(s) \cup {t}
    BY <1>1 DEF Elems
  <1>3. ASSUME Distinct(s), t \notin Elems(s) PROVE Distinct(Append(s, t))
    <2> SUFFICES ASSUME NEW i \in 1..(Len(s) + 1), NEW j \in 1..(Len(s) + 1),
                        Append(s, t)[i] = Append(s, t)[j]
                 PROVE  i = j
      BY <1>1 DEF Distinct
    <2>1. CASE i \in 1..Len(s) /\ j \in 1..Len(s)
      BY <1>1, <1>3, <2>1 DEF Distinct
    <2>2. CASE i = Len(s) + 1 /\ j = Len(s) + 1
      BY <2>2
    <2>3. CASE i = Len(s) + 1 /\ j \in 1..Len(s)
      BY <1>1, <1>3, <2>3 DEF Elems
    <2>4. CASE i \in 1..Len(s) /\ j = Len(s) + 1
      BY <1>1, <1>3, <2>4 DEF Elems
    <2> QED
      BY <1>1, <2>1, <2>2, <2>3, <2>4
  <1> QED
    BY <1>2, <1>3

(* A pop removes the first element, which occurs nowhere else. *)
LEMMA TailElems ==
  ASSUME NEW S, NEW s \in Seq(S), s # <<>>, Distinct(s)
  PROVE  /\ Head(s) \in Elems(s)
         /\ Elems(Tail(s)) = Elems(s) \ {Head(s)}
         /\ Distinct(Tail(s))
  <1>1. /\ Len(s) \in Nat \ {0}
        /\ Head(s) = s[1]
        /\ Len(Tail(s)) = Len(s) - 1
        /\ \A i \in 1..(Len(s) - 1) : Tail(s)[i] = s[i + 1]
    OBVIOUS
  <1>2. Head(s) \in Elems(s)
    BY <1>1 DEF Elems
  <1>3. ASSUME NEW x \in Elems(Tail(s)) PROVE x \in Elems(s) /\ x # Head(s)
    <2>1. PICK i \in 1..(Len(s) - 1) : x = s[i + 1]
      BY <1>1, <1>3 DEF Elems
    <2>2. i + 1 \in 1..Len(s) /\ i + 1 # 1 /\ 1 \in 1..Len(s)
      BY <1>1
    <2> QED
      BY <1>1, <2>1, <2>2 DEF Elems, Distinct
  <1>4. ASSUME NEW x \in Elems(s), x # Head(s) PROVE x \in Elems(Tail(s))
    <2>1. PICK i \in 1..Len(s) : x = s[i]
      BY DEF Elems
    <2>2. i # 1
      BY <1>1, <1>4, <2>1
    <2>3. i - 1 \in 1..(Len(s) - 1) /\ Tail(s)[i - 1] = s[i]
      BY <1>1, <2>2
    <2> QED
      BY <1>1, <2>1, <2>3 DEF Elems
  <1>5. Distinct(Tail(s))
    <2> SUFFICES ASSUME NEW i \in 1..(Len(s) - 1), NEW j \in 1..(Len(s) - 1),
                        Tail(s)[i] = Tail(s)[j]
                 PROVE  i = j
      BY <1>1 DEF Distinct
    <2>1. i + 1 \in 1..Len(s) /\ j + 1 \in 1..Len(s) /\ s[i + 1] = s[j + 1]
      BY <1>1
    <2> QED
      BY <2>1 DEF Distinct
  <1> QED
    BY <1>2, <1>3, <1>4, <1>5

(* What is queued and held, written with the operators of the two lemmas. *)
LEMMA QueueElems == InQueue = Elems(queue) /\ (QueuedOnce <=> Distinct(queue))
  BY DEF InQueue, Elems, QueuedOnce, Distinct

(* At the start nothing is pending, queued or held. *)
LEMMA OneOwnerInit == Init => OneOwner
  <1> SUFFICES ASSUME Init PROVE OneOwner
    OBVIOUS
  <1>1. Len(queue) = 0 /\ InQueue = {}
    BY DEF Init, InQueue
  <1>2. \A w \in Workers : HeldBy(w) = {}
    BY DEF Init, HeldBy, Holding
  <1> QED
    BY <1>1, <1>2
    DEF Init, OneOwner, QueuedOnce, HeldOnce, HeldNotQueued, PendingOwned, Owned

(* A thread that goes on with what it holds, or without a task, leaves all  *)
(* tasks where they are.                                                    *)
LEMMA GotoKeeps ==
  ASSUME TypeOK, NEW w \in Workers, NEW to, Goto(w, to), UNCHANGED task,
         pc[w] \in Holding <=> to \in Holding
  PROVE  \A v \in Workers : HeldBy(v)' = HeldBy(v)
  <1>1. pc' = [pc EXCEPT ![w] = to] /\ pc \in [Workers -> WorkerStates]
    BY DEF Goto, TypeOK
  <1>2. \A v \in Workers : pc'[v] \in Holding <=> pc[v] \in Holding
    BY <1>1
  <1> QED
    BY <1>2 DEF HeldBy

(* So does every step of a thread between the pop and the end of its task,  *)
(* and every step of a thread without a task.                               *)
LEMMA ThreadKeeps ==
  ASSUME TypeOK, NEW w \in Workers,
         \/ Wait(w) \/ SpuriousWakeup(w) \/ Exit(w)
         \/ Arm(w) \/ Enter(w) \/ Answer(w) \/ GiveUp(w)
         \/ Abort(w) \/ Callback(w) \/ CallbackInterrupts(w) \/ CallbackReturns(w)
  PROVE  \A v \in Workers : HeldBy(v)' = HeldBy(v)
  <1> USE DEF Holding, WorkerStates
  <1>1. CASE Wait(w) \/ SpuriousWakeup(w) \/ Exit(w)
    BY <1>1, GotoKeeps DEF Wait, SpuriousWakeup, Exit
  <1>2. CASE Arm(w) \/ Enter(w)
    BY <1>2, GotoKeeps DEF Arm, Enter
  <1>3. ASSUME NEW r, Returned(w, r) PROVE \A v \in Workers : HeldBy(v)' = HeldBy(v)
    <2>1. CASE task[w] \in Limited
      BY <1>3, <2>1, GotoKeeps DEF Returned
    <2>2. CASE task[w] \notin Limited
      BY <1>3, <2>2, GotoKeeps DEF Returned
    <2> QED
      BY <2>1, <2>2
  <1>4. CASE Abort(w) \/ Callback(w)
    BY <1>4, GotoKeeps DEF Abort, Callback
  <1>5. CASE CallbackInterrupts(w) \/ CallbackReturns(w)
    BY <1>5, GotoKeeps DEF CallbackInterrupts, CallbackReturns
  <1> QED
    BY <1>1, <1>2, <1>3, <1>4, <1>5 DEF Answer, GiveUp

(* Every step keeps OneOwner: only solve(), the pop, the end of a task and  *)
(* the two operations that empty the queue move a task.                     *)
LEMMA OneOwnerStep == TypeOK /\ WorkerInv /\ OneOwner /\ [Next]_vars => OneOwner'
  <1> SUFFICES ASSUME TypeOK, WorkerInv, OneOwner, [Next]_vars PROVE OneOwner'
    OBVIOUS
  <1> USE ConstantsAssumption DEF serviceVars, solverVars, callerVars
  <1> DEFINE Same == \A v \in Workers : HeldBy(v)' = HeldBy(v)
  <1>1. ASSUME Same, UNCHANGED <<queue, future>> PROVE OneOwner'
    BY <1>1
    DEF OneOwner, QueuedOnce, HeldOnce, HeldNotQueued, PendingOwned, Owned, InQueue
  <1>2. ASSUME Same, DropQueue PROVE OneOwner'
    <2>1. Len(queue') = 0 /\ InQueue' = {}
      BY <1>2 DEF DropQueue, InQueue
    <2>2. \A t \in Tasks : future'[t] = "pending" <=> (future[t] = "pending" /\ t \notin InQueue)
      BY <1>2 DEF DropQueue
    <2>3. \A t \in Tasks : future'[t] = "pending" <=> \E w \in Workers : t \in HeldBy(w)
      BY <2>2 DEF OneOwner, PendingOwned, Owned, HeldNotQueued
    <2> QED
      BY <1>2, <2>1, <2>3
      DEF OneOwner, QueuedOnce, HeldOnce, HeldNotQueued, PendingOwned, Owned
  <1>3. ASSUME NEW t \in Tasks, Solve(t) PROVE OneOwner'
    <2>1. Same
      BY <1>3 DEF Solve, HeldBy
    <2>2. t \notin InQueue /\ \A w \in Workers : t \notin HeldBy(w)
      BY <1>3 DEF Solve, OneOwner, PendingOwned, Owned
    <2>3. Elems(queue') = Elems(queue) \cup {t} /\ Distinct(queue')
      BY <1>3, <2>2, AppendElems, QueueElems DEF Solve, TypeOK, OneOwner
    <2>4. InQueue' = InQueue \cup {t} /\ QueuedOnce'
      BY <2>3 DEF InQueue, Elems, QueuedOnce, Distinct
    <2>5. \A u \in Tasks : future'[u] = "pending" <=> (u = t \/ future[u] = "pending")
      BY <1>3 DEF Solve, TypeOK
    <2> QED
      BY <2>1, <2>2, <2>4, <2>5 DEF OneOwner, HeldOnce, HeldNotQueued, PendingOwned, Owned
  <1>4. ASSUME NEW w \in Workers, Take(w) PROVE OneOwner'
    <2> DEFINE h == Head(queue)
    <2>1. h \in Tasks /\ queue # <<>> /\ HeldBy(w) = {}
      BY <1>4 DEF Take, TypeOK, HeldBy, Holding
    <2>2. HeldBy(w)' = {h} /\ \A v \in Workers : v # w => HeldBy(v)' = HeldBy(v)
      BY <1>4 DEF Take, Goto, TypeOK, HeldBy, Holding, WorkerStates
    <2>3. h \in Elems(queue) /\ Elems(queue') = Elems(queue) \ {h} /\ Distinct(queue')
      BY <1>4, TailElems, QueueElems DEF Take, TypeOK, OneOwner
    <2>4. h \in InQueue /\ InQueue' = InQueue \ {h} /\ QueuedOnce'
      BY <2>3 DEF InQueue, Elems, QueuedOnce, Distinct
    <2>5. future' = future
      BY <1>4 DEF Take
    <2> HIDE DEF h
    <2>6. HeldOnce'
      BY <2>2, <2>4 DEF OneOwner, HeldOnce, HeldNotQueued
    <2>7. HeldNotQueued'
      BY <2>2, <2>4 DEF OneOwner, HeldNotQueued
    <2>8. \A t \in Tasks : Owned(t)' <=> Owned(t)
      BY <2>1, <2>2, <2>4 DEF Owned
    <2> QED
      BY <2>4, <2>5, <2>6, <2>7, <2>8 DEF OneOwner, PendingOwned
  <1>5. ASSUME NEW w \in Workers, Finish(w) PROVE OneOwner'
    <2> DEFINE t == task[w]
    <2>1. t \in Tasks /\ HeldBy(w) = {t} /\ res[w] # "pending"
      BY <1>5 DEF Finish, WorkerInv, Holding, WorkerStates, Reported, HeldBy, Results
    <2>2. HeldBy(w)' = {} /\ \A v \in Workers : v # w => HeldBy(v)' = HeldBy(v)
      BY <1>5 DEF Finish, Goto, TypeOK, HeldBy, Holding, WorkerStates
    <2>3. queue' = queue /\ InQueue' = InQueue /\ QueuedOnce'
      BY <1>5 DEF Finish, InQueue, OneOwner, QueuedOnce
    <2>4. \A u \in Tasks : future'[u] = "pending" <=> (u # t /\ future[u] = "pending")
      BY <1>5, <2>1 DEF Finish, TypeOK
    <2> HIDE DEF t
    <2>5. HeldOnce' /\ HeldNotQueued'
      BY <2>2, <2>3 DEF OneOwner, HeldOnce, HeldNotQueued
    <2>6. \A u \in Tasks : Owned(u)' <=> (u # t /\ Owned(u))
      BY <2>1, <2>2, <2>3 DEF Owned, OneOwner, HeldOnce, HeldNotQueued
    <2> QED
      BY <2>3, <2>4, <2>5, <2>6 DEF OneOwner, PendingOwned
  <1>6. ASSUME UNCHANGED <<pc, task>> PROVE Same
    BY <1>6 DEF HeldBy
  <1>7. ASSUME NotifyOne, UNCHANGED task PROVE Same
    BY <1>7 DEF NotifyOne, Goto, HeldBy, Holding, TypeOK
  <1>8. ASSUME NotifyAll PROVE Same
    BY <1>8 DEF NotifyAll, HeldBy, Holding, TypeOK
  <1>9. ASSUME NEW w \in Workers,
               \/ Wait(w) \/ SpuriousWakeup(w) \/ Exit(w)
               \/ Arm(w) \/ Enter(w) \/ Answer(w) \/ GiveUp(w)
               \/ Abort(w) \/ Callback(w) \/ CallbackInterrupts(w) \/ CallbackReturns(w)
        PROVE  Same
    BY <1>9, ThreadKeeps
  <1> HIDE DEF Same
  <1> QED
    BY <1>1, <1>2, <1>3, <1>4, <1>5, <1>6, <1>7, <1>8, <1>9
    DEF Next, WorkerStep, CallerStep, TimerStep, Quiet, vars, Notify, NotifyAll, Interrupt,
        Destroy, InterruptSolver, InterruptReturns, Join, Due, Fire, Wait, SpuriousWakeup,
        Exit, Arm, Enter, Answer, GiveUp, Returned, Abort, Callback, CallbackInterrupts,
        CallbackReturns

(* No task is duplicated or stranded, however solve(), the pops,            *)
(* interrupt(), the callbacks and the destructor interleave.                *)
THEOREM OwnershipCorrect == Spec => []OneOwner
  <1> DEFINE IInv == TypeOK /\ WorkerInv /\ OneOwner
  <1>1. Init => IInv
    BY TypeInit, WorkerInvInit, OneOwnerInit
  <1>2. IInv /\ [Next]_vars => IInv'
    BY TypeStep, WorkerInvStep, OneOwnerStep
  <1> QED
    BY <1>1, <1>2, PTL DEF Spec

----------------------------------------------------------------------------
(* Why a task ends UNKNOWN.                                                *)

(* At the start no flag is set and no task is UNKNOWN. *)
LEMMA BlameInvInit == Init => BlameInv /\ UnknownExplained
  BY ConstantsAssumption DEF Init, BlameInv, UnknownExplained, Results

(* Every step keeps BlameInv. *)
LEMMA BlameInvStep ==
  TypeOK /\ WorkerInv /\ BlameInv /\ [Next]_vars => BlameInv'
  <1> SUFFICES ASSUME TypeOK, WorkerInv, BlameInv, [Next]_vars PROVE BlameInv'
    OBVIOUS
  <1> USE ConstantsAssumption DEF BlameInv, serviceVars, solverVars, callerVars
  <1>1. ASSUME UNCHANGED <<pc, task, res, flag, blame>> PROVE BlameInv'
    BY <1>1
  <1>2. ASSUME NotifyOne, UNCHANGED <<task, res, flag, blame>> PROVE BlameInv'
    BY <1>2 DEF NotifyOne, Goto, TypeOK
  <1>3. ASSUME NotifyAll PROVE BlameInv'
    BY <1>3 DEF NotifyAll, TypeOK
  <1>4. ASSUME NEW v, NEW who, SetFlag(v, who), UNCHANGED <<pc, task, res>> PROVE BlameInv'
    <2>1. ASSUME NEW w \in Workers, pc[w] = "search", flag'[w] PROVE blame'[task[w]] # {}
      <3>1. task[w] \in Tasks
        BY <2>1 DEF WorkerInv, Holding, WorkerStates
      <3>2. CASE w = v
        BY <1>4, <3>1, <3>2 DEF SetFlag
      <3>3. CASE w # v
        BY <1>4, <2>1, <3>1, <3>3 DEF SetFlag, TypeOK
      <3> QED
        BY <3>2, <3>3
    <2>2. ASSUME NEW w \in Workers, res[w] = "UNKNOWN" PROVE blame'[task[w]] # {}
      <3>1. task[w] \in Tasks
        BY <2>2 DEF WorkerInv, Holding, WorkerStates, Reported, Results
      <3> QED
        BY <1>4, <2>2, <3>1 DEF SetFlag, TypeOK
    <2> QED
      BY <1>4, <2>1, <2>2
  <1>0. ASSUME NEW w \in Workers, NEW to, to # "search", Goto(w, to),
               UNCHANGED <<task, res, flag, blame>>
        PROVE  BlameInv'
    BY <1>0 DEF Goto, TypeOK
  <1>5. ASSUME NEW w \in Workers, Wait(w) \/ SpuriousWakeup(w) \/ Exit(w) \/ Arm(w)
        PROVE  BlameInv'
    BY <1>0, <1>5 DEF Wait, SpuriousWakeup, Exit, Arm
  <1>11. ASSUME NEW w \in Workers, Enter(w) PROVE BlameInv'
    <2>1. /\ flag' = [flag EXCEPT ![w] = FALSE]
          /\ \A v \in Workers : v # w => pc'[v] = pc[v]
          /\ UNCHANGED <<task, res, blame>>
      BY <1>11 DEF Enter, Goto, TypeOK
    <2>2. ~flag'[w] /\ \A v \in Workers : v # w => flag'[v] = flag[v]
      BY <2>1 DEF TypeOK
    <2> QED
      BY <2>1, <2>2
  <1>6. ASSUME NEW w \in Workers, Take(w) PROVE BlameInv'
    <2>1. res[w] # "UNKNOWN"
      BY <1>6 DEF Take, WorkerInv, Reported, Results
    <2> QED
      BY <1>6, <2>1 DEF Take, Goto, TypeOK
  <1>7. ASSUME NEW w \in Workers, Answer(w) PROVE BlameInv'
    <2>1. Verdict[task[w]] # "UNKNOWN"
      BY <1>7 DEF Answer, Returned, WorkerInv, Holding, WorkerStates
    <2> QED
      BY <1>7, <2>1 DEF Answer, Returned, Goto, TypeOK
  <1>8. ASSUME NEW w \in Workers, GiveUp(w) PROVE BlameInv'
    BY <1>8 DEF GiveUp, Returned, Goto, TypeOK
  <1>9. ASSUME NEW w \in Workers,
               Abort(w) \/ Callback(w) \/ CallbackInterrupts(w) \/ CallbackReturns(w)
        PROVE  BlameInv'
    BY <1>0, <1>9 DEF Abort, Callback, CallbackInterrupts, CallbackReturns
  <1>10. ASSUME NEW w \in Workers, Finish(w) PROVE BlameInv'
    BY <1>10 DEF Finish, Goto, TypeOK, Results
  <1> QED
    BY <1>1, <1>2, <1>3, <1>4, <1>5, <1>6, <1>7, <1>8, <1>9, <1>10, <1>11
    DEF Next, WorkerStep, CallerStep, TimerStep, Quiet, vars, Solve, Notify, Interrupt,
        Destroy, InterruptSolver, InterruptReturns, Join, Due, Fire

(* Only Finish writes an UNKNOWN, and nothing takes blame away. *)
LEMMA UnknownStep ==
  TypeOK /\ WorkerInv /\ BlameInv /\ UnknownExplained /\ [Next]_vars => UnknownExplained'
  <1> SUFFICES ASSUME TypeOK, WorkerInv, BlameInv, UnknownExplained, [Next]_vars
               PROVE  UnknownExplained'
    OBVIOUS
  <1> USE ConstantsAssumption DEF serviceVars, solverVars, callerVars
  <1>1. ASSUME NEW t \in Tasks, blame[t] # {} PROVE blame'[t] # {}
    <2>1. ASSUME NEW w, NEW who, SetFlag(w, who) PROVE blame'[t] # {}
      BY <1>1, <2>1 DEF SetFlag, TypeOK
    <2> QED
      BY <1>1, <2>1
      DEF Next, WorkerStep, CallerStep, TimerStep, Quiet, vars, Solve, Notify, NotifyAll,
          Interrupt, Destroy, InterruptSolver, InterruptReturns, Join, Due, Fire, Wait,
          SpuriousWakeup, Exit, Take, Arm, Enter, Answer, GiveUp, Returned, Abort, Callback,
          CallbackInterrupts, CallbackReturns, Finish
  <1>2. ASSUME NEW t \in Tasks, future'[t] = "UNKNOWN", future[t] # "UNKNOWN"
        PROVE  blame[t] # {}
    <2>1. ASSUME NEW u \in Tasks, Solve(u) PROVE FALSE
      BY <1>2, <2>1 DEF Solve, TypeOK
    <2>2. ~DropQueue
      BY <1>2 DEF DropQueue
    <2>3. ASSUME NEW w \in Workers, Finish(w) PROVE blame[t] # {}
      <3>1. task[w] = t /\ res[w] = "UNKNOWN"
        BY <1>2, <2>3 DEF Finish, TypeOK
      <3> QED
        BY <3>1 DEF BlameInv
    <2> QED
      BY <1>2, <2>1, <2>2, <2>3
      DEF Next, WorkerStep, CallerStep, TimerStep, Quiet, vars, Notify, NotifyAll,
          Interrupt, Destroy, InterruptSolver, InterruptReturns, Join, Due, Fire, Wait,
          SpuriousWakeup, Exit, Take, Arm, Enter, Answer, GiveUp, Returned, Abort, Callback,
          CallbackInterrupts, CallbackReturns
  <1> QED
    BY <1>1, <1>2 DEF UnknownExplained

(* No interrupt of an earlier task, or of an idle solver, makes a later     *)
(* task UNKNOWN.                                                            *)
THEOREM UnknownCorrect == Spec => []UnknownExplained
  <1> DEFINE IInv == TypeOK /\ WorkerInv /\ BlameInv /\ UnknownExplained
  <1>1. Init => IInv
    BY TypeInit, WorkerInvInit, BlameInvInit
  <1>2. IInv /\ [Next]_vars => IInv'
    BY TypeStep, WorkerInvStep, BlameInvStep, UnknownStep
  <1> QED
    BY <1>1, <1>2, PTL DEF Spec

----------------------------------------------------------------------------
(* No wake-up is lost.                                                     *)

(* The strengthening: a thread leaves the pool only when nothing is queued,  *)
(* and nothing is queued any more.                                           *)
StopInv == stop => queue = <<>> /\ client[Main] \notin {"free", "notifying"}

PoolInv == TypeOK /\ WorkerInv /\ StopInv /\ WorkConserving

Idle == InState("idle")

(* The idle threads can be counted. *)
LEMMA IdleFinite == IsFiniteSet(Idle) /\ Cardinality(Idle) \in Nat
  <1>1. Idle \in SUBSET Workers
    BY DEF Idle, InState
  <1>2. IsFiniteSet(Idle)
    BY <1>1, WorkersAssumption, FS_Subset
  <1> QED
    BY <1>2, FS_CardinalityType

(* A thread that becomes idle counts for one. *)
LEMMA IdleGains ==
  ASSUME NEW w \in Workers, w \notin Idle, Idle' = Idle \cup {w}
  PROVE  Cardinality(Idle') = Cardinality(Idle) + 1
  BY IdleFinite, FS_AddElement

(* The same for a thread that stops being idle. *)
LEMMA IdleLoses ==
  ASSUME NEW w \in Workers, w \in Idle, Idle' = Idle \ {w}
  PROVE  Cardinality(Idle') = Cardinality(Idle) - 1
  BY IdleFinite, FS_RemoveElement

(* Where a thread that moves was and is. *)
LEMMA GotoStates ==
  ASSUME TypeOK, NEW w \in Workers, NEW to \in WorkerStates, Goto(w, to)
  PROVE  \A s \in WorkerStates :
            InState(s)' = IF s = to THEN InState(s) \cup {w} ELSE InState(s) \ {w}
  BY DEF TypeOK, Goto, InState

(* At the start nothing is queued. *)
LEMMA PoolInit == Init => PoolInv
  <1> SUFFICES ASSUME Init PROVE PoolInv
    OBVIOUS
  <1>1. InState("waiting") = {} /\ ~stop
    BY DEF Init, InState
  <1> QED
    BY <1>1, TypeInit, WorkerInvInit DEF PoolInv, StopInv, WorkConserving

(* Only the destructor sets _stop, and Main calls nothing after it. *)
LEMMA StopStep == TypeOK /\ StopInv /\ [Next]_vars => StopInv'
  <1> SUFFICES ASSUME TypeOK, StopInv, [Next]_vars PROVE StopInv'
    OBVIOUS
  <1> USE DEF serviceVars, solverVars, callerVars, StopInv, Main, Event, Outside
  <1>1. ASSUME UNCHANGED <<stop, queue, client>> PROVE StopInv'
    BY <1>1
  <1>2. ASSUME NEW w \in Workers, Take(w) \/ CallbackInterrupts(w) PROVE StopInv'
    BY <1>2 DEF Take, CallbackInterrupts, DropQueue
  <1>3. ASSUME NEW t \in Tasks, Solve(t) PROVE StopInv'
    BY <1>3 DEF Solve
  <1>4. CASE Notify \/ NotifyAll \/ Join
    BY <1>4 DEF Notify, NotifyAll, Join, TypeOK
  <1>5. CASE Interrupt \/ InterruptReturns
    BY <1>5 DEF Interrupt, InterruptReturns, DropQueue, TypeOK
  <1>6. CASE Destroy
    BY <1>6 DEF Destroy, DropQueue, TypeOK
  <1> QED
    BY <1>1, <1>2, <1>3, <1>4, <1>5, <1>6
    DEF Next, WorkerStep, CallerStep, TimerStep, Quiet, vars, InterruptSolver, Due, Fire, Wait,
        SpuriousWakeup, Exit, Arm, Enter, Answer, GiveUp, Returned, Abort, Callback,
        CallbackReturns, Finish

(* A step that empties the queue, or finds it empty, cannot strand a task. *)
LEMMA EmptyConserves ==
  ASSUME queue' = <<>>, client' \in [Outside -> {"free", "notifying", "interrupting", "joining", "gone"}]
  PROVE  WorkConserving'
  <1>1. IsFiniteSet(Idle)' /\ (Cardinality(Idle) \in Nat)'
    BY IdleFinite, PTL
  <1>2. AboutToWake' \in Nat /\ Len(queue') = 0
    BY DEF AboutToWake
  <1>3. Cardinality(Idle') + AboutToWake' >= Len(queue')
    BY <1>1, <1>2
  <1> QED
    BY <1>3 DEF WorkConserving, Idle

(* A step that leaves the queue and the idle threads alone. *)
LEMMA SameConserves ==
  ASSUME WorkConserving, UNCHANGED queue, AboutToWake' = AboutToWake, Idle' = Idle,
         InState("waiting")' = InState("waiting")
  PROVE  WorkConserving'
  BY DEF WorkConserving, Idle

(* One more thread makes up for one notification less. *)
LEMMA OneForOne ==
  \A idle, before, after, length \in Nat :
      idle + before >= length /\ after + 1 >= before => idle + 1 + after >= length
  OBVIOUS

(* A step that makes a thread idle. *)
LEMMA WokenConserves ==
  ASSUME TypeOK, WorkConserving, UNCHANGED queue, NEW w \in Workers, w \notin Idle,
         Idle' = Idle \cup {w}, AboutToWake' \in Nat, AboutToWake' + 1 >= AboutToWake,
         InState("waiting") = {} => InState("waiting")' = {}
  PROVE  WorkConserving'
  <1>1. Cardinality(Idle') = Cardinality(Idle) + 1
    BY IdleGains
  <1>2. Cardinality(Idle) \in Nat /\ AboutToWake \in Nat /\ Len(queue) \in Nat
    BY IdleFinite DEF AboutToWake, TypeOK
  <1>3. InState("waiting")' # {} => Cardinality(Idle) + AboutToWake >= Len(queue)
    BY DEF WorkConserving, Idle
  <1>4. InState("waiting")' # {} => Cardinality(Idle') + AboutToWake' >= Len(queue)
    BY <1>1, <1>2, <1>3, OneForOne
  <1> QED
    BY <1>4 DEF WorkConserving, Idle

(* Every step keeps as many threads awake as there are tasks to take. *)
LEMMA ConservingStep == PoolInv /\ [Next]_vars => WorkConserving'
  <1> SUFFICES ASSUME PoolInv, [Next]_vars PROVE WorkConserving'
    OBVIOUS
  <1> USE DEF PoolInv, serviceVars, solverVars, callerVars, WorkerStates
  <1>0. TypeOK'
    BY TypeStep
  <1>a. AboutToWake \in Nat /\ AboutToWake' \in Nat /\ AboutToWake <= 1
    BY DEF AboutToWake
  <1>b. ASSUME UNCHANGED client PROVE AboutToWake' = AboutToWake
    BY <1>b DEF AboutToWake
  <1>1. ASSUME UNCHANGED <<queue, pc>>, client'[Main] = "notifying" <=> client[Main] = "notifying"
        PROVE  WorkConserving'
    BY <1>1, SameConserves DEF AboutToWake, InState, Idle
  <1>2. ASSUME queue' = <<>> PROVE WorkConserving'
    BY <1>0, <1>2, EmptyConserves DEF TypeOK
  <1>3. ASSUME NEW t \in Tasks, Solve(t) PROVE WorkConserving'
    <2>1. AboutToWake = 0 /\ AboutToWake' = 1
      BY <1>3 DEF Solve, AboutToWake, TypeOK, Outside, Main
    <2>2. Len(queue') = Len(queue) + 1 /\ Len(queue) \in Nat
      BY <1>3 DEF Solve, TypeOK
    <2>3. InState("waiting")' = InState("waiting") /\ Idle' = Idle
      BY <1>3 DEF Solve, InState, Idle
    <2>4. InState("waiting") # {} => Cardinality(Idle) + 1 >= Len(queue')
      BY <2>1, <2>2, IdleFinite DEF WorkConserving, Idle
    <2> QED
      BY <2>1, <2>3, <2>4 DEF WorkConserving, Idle
  <1>4. CASE Notify
    <2>1. UNCHANGED queue /\ AboutToWake' + 1 >= AboutToWake
      BY <1>4 DEF Notify, AboutToWake
    <2>2. CASE InState("waiting") = {}
      <3>1. InState("waiting")' = {}
        BY <1>4, <2>2 DEF Notify, NotifyOne, InState
      <3> QED
        BY <3>1 DEF WorkConserving
    <2>3. CASE InState("waiting") # {}
      <3>1. PICK w \in Workers : pc[w] = "waiting" /\ Goto(w, "idle")
        BY <1>4, <2>3 DEF Notify, NotifyOne, InState
      <3>2. w \notin Idle /\ Idle' = Idle \cup {w}
        BY <3>1, GotoStates DEF Idle, InState
      <3> QED
        BY <1>a, <2>1, <2>3, <3>2, WokenConserves
    <2> QED
      BY <2>2, <2>3
  <1>5. CASE NotifyAll
    <2>1. InState("waiting")' = {}
      BY <1>5 DEF NotifyAll, InState, TypeOK
    <2> QED
      BY <2>1 DEF WorkConserving
  <1>6. ASSUME NEW w \in Workers, Exit(w) PROVE WorkConserving'
    BY <1>2, <1>6 DEF Exit, StopInv
  <1>7. ASSUME NEW w \in Workers, Wait(w) PROVE WorkConserving'
    BY <1>2, <1>7 DEF Wait
  <1>8. ASSUME NEW w \in Workers, SpuriousWakeup(w) \/ Finish(w) PROVE WorkConserving'
    <2>1. Goto(w, "idle") /\ pc[w] # "idle" /\ UNCHANGED <<queue, client>>
      BY <1>8 DEF SpuriousWakeup, Finish
    <2>2. w \notin Idle /\ Idle' = Idle \cup {w} /\ InState("waiting")' = InState("waiting") \ {w}
      BY <2>1, GotoStates DEF Idle, InState
    <2>3. AboutToWake' + 1 >= AboutToWake
      BY <2>1, <1>a, <1>b
    <2> QED
      BY <1>a, <2>1, <2>2, <2>3, WokenConserves
  <1>9. ASSUME NEW w \in Workers, Take(w) PROVE WorkConserving'
    <2>1. PICK to \in {"arm", "enter"} : Goto(w, to)
      BY <1>9 DEF Take
    <2>2. w \in Idle /\ Idle' = Idle \ {w} /\ InState("waiting")' = InState("waiting")
      BY <1>9, <2>1, GotoStates DEF Take, Idle, InState
    <2>3. Cardinality(Idle') = Cardinality(Idle) - 1
      BY <2>2, IdleLoses
    <2>4. Len(queue') = Len(queue) - 1 /\ Len(queue) \in Nat
      BY <1>9 DEF Take, TypeOK
    <2>5. AboutToWake' = AboutToWake
      BY <1>9, <1>b DEF Take
    <2>6. InState("waiting") # {} => Cardinality(Idle') + AboutToWake' >= Len(queue')
      BY <1>a, <2>3, <2>4, <2>5, IdleFinite DEF WorkConserving, Idle
    <2> QED
      BY <2>2, <2>6 DEF WorkConserving, Idle
  <1>10. ASSUME NEW w \in Workers, CallbackInterrupts(w) PROVE WorkConserving'
    BY <1>2, <1>10 DEF CallbackInterrupts, DropQueue
  <1>11. ASSUME NEW w \in Workers, NEW to \in WorkerStates \ {"idle", "waiting"}, Goto(w, to),
                pc[w] \notin {"idle", "waiting"}, UNCHANGED <<queue, client>>
         PROVE  WorkConserving'
    <2>1. Idle' = Idle /\ InState("waiting")' = InState("waiting")
      BY <1>11, GotoStates DEF Idle, InState
    <2> QED
      BY <1>11, <1>b, <2>1, SameConserves
  <1>12. ASSUME NEW w \in Workers,
                \/ Arm(w) \/ Enter(w) \/ Abort(w) \/ Callback(w) \/ CallbackReturns(w)
         PROVE  WorkConserving'
    BY <1>11, <1>12 DEF Arm, Enter, Abort, Callback, CallbackReturns
  <1>13. ASSUME NEW w \in Workers, NEW r, Returned(w, r) PROVE WorkConserving'
    <2>1. PICK to \in {"abort", "callback"} : Goto(w, to)
      BY <1>13 DEF Returned
    <2> QED
      BY <1>11, <1>13, <2>1 DEF Returned
  <1>14. CASE InterruptReturns \/ Join
    BY <1>1, <1>14 DEF InterruptReturns, Join, TypeOK, Outside, Main, Event
  <1>15. CASE Interrupt \/ Destroy
    BY <1>2, <1>15 DEF Interrupt, Destroy, DropQueue
  <1>16. ASSUME UNCHANGED <<queue, pc, client>> PROVE WorkConserving'
    BY <1>1, <1>16
  <1> QED
    BY <1>3, <1>4, <1>5, <1>6, <1>7, <1>8, <1>9, <1>10, <1>12, <1>13, <1>14, <1>15, <1>16
    DEF Next, WorkerStep, CallerStep, TimerStep, Quiet, vars, InterruptSolver, Due, Fire,
        Answer, GiveUp

(* No wake-up is lost between the push, notify_one, the wait, the pop and a  *)
(* concurrent interrupt(): while a thread sleeps, every queued task has a    *)
(* thread that is awake, or about to be woken, to take it.                   *)
THEOREM ConservingCorrect == Spec => []WorkConserving
  <1>1. PoolInv /\ [Next]_vars => PoolInv'
    BY TypeStep, WorkerInvStep, StopStep, ConservingStep DEF PoolInv
  <1>2. PoolInv => WorkConserving
    BY DEF PoolInv
  <1> QED
    BY PoolInit, <1>1, <1>2, PTL DEF Spec

----------------------------------------------------------------------------
(* SolverService implements ServiceContract. *)


IInv == TypeOK /\ WorkerInv /\ OneOwner

(* What the refinement mapping says of a task that is settled, queued, or   *)
(* held by a working thread, without its CHOOSE.                            *)
SettledView ==
    \A t \in Tasks : future[t] # "pending" =>
        /\ StageOf(t) = IF future[t] \in {"none", "broken"} THEN future[t] ELSE "ready"
        /\ AnswerOf(t) = IF future[t] \in Results THEN future[t] ELSE "none"

QueuedView ==
    \A t \in Tasks : t \in InQueue => StageOf(t) = "queued" /\ AnswerOf(t) = "none"

HeldView ==
    \A t \in Tasks, w \in Workers : t \in HeldBy(w) =>
        /\ StageOf(t) = IF res[w] \in Results THEN "reporting" ELSE "running"
        /\ AnswerOf(t) = IF res[w] \in Results THEN res[w] ELSE "none"

View == SettledView /\ QueuedView /\ HeldView /\ PendingOwned

(* The mapping has these values whenever the invariant holds: a held task   *)
(* has one holder, so CHOOSE finds it.                                      *)
LEMMA ViewHolds == IInv => View
  <1> SUFFICES ASSUME IInv PROVE View
    OBVIOUS
  <1> USE ConstantsAssumption
  <1>1. SettledView
    BY DEF IInv, TypeOK, SettledView, StageOf, AnswerOf, Results
  <1>2. ASSUME NEW t \in Tasks, t \in InQueue PROVE StageOf(t) = "queued" /\ AnswerOf(t) = "none"
    <2>1. future[t] = "pending"
      BY <1>2 DEF IInv, OneOwner, PendingOwned, Owned
    <2> QED
      BY <1>2, <2>1 DEF StageOf, AnswerOf, Results
  <1>3. ASSUME NEW t \in Tasks, NEW w \in Workers, t \in HeldBy(w)
        PROVE  /\ StageOf(t) = IF res[w] \in Results THEN "reporting" ELSE "running"
               /\ AnswerOf(t) = IF res[w] \in Results THEN res[w] ELSE "none"
    <2>1. future[t] = "pending" /\ t \notin InQueue
      BY <1>3 DEF IInv, OneOwner, PendingOwned, Owned, HeldNotQueued
    <2>2. Holder(t) = w
      <3>1. \A v \in Workers : t \in HeldBy(v) => v = w
        BY <1>3 DEF IInv, OneOwner, HeldOnce
      <3> QED
        BY <1>3, <3>1 DEF Holder
    <2>3. res[w] = None <=> res[w] \notin Results
      BY DEF IInv, TypeOK
    <2> QED
      BY <2>1, <2>2, <2>3 DEF StageOf, AnswerOf, Results
  <1> QED
    BY <1>1, <1>2, <1>3 DEF View, QueuedView, HeldView, IInv, OneOwner

(* A step that does not touch task t does not change its view. *)
Untouched(t) ==
    /\ future'[t] = future[t]
    /\ t \in InQueue' <=> t \in InQueue
    /\ \A w \in Workers : t \in HeldBy(w)' <=> t \in HeldBy(w)
    /\ \A w \in Workers : t \in HeldBy(w) => res'[w] = res[w]

(* Its stage and its answer stay what they were. *)
LEMMA UntouchedView ==
  ASSUME View, View', NEW t \in Tasks, Untouched(t)
  PROVE  StageOf(t)' = StageOf(t) /\ AnswerOf(t)' = AnswerOf(t)
  <1>1. CASE future[t] # "pending"
    BY <1>1 DEF View, SettledView, Untouched
  <1>2. CASE t \in InQueue
    BY <1>2 DEF View, QueuedView, Untouched
  <1>3. ASSUME NEW w \in Workers, t \in HeldBy(w)
        PROVE  StageOf(t)' = StageOf(t) /\ AnswerOf(t)' = AnswerOf(t)
    BY <1>3 DEF View, HeldView, Untouched
  <1> QED
    BY <1>1, <1>2, <1>3 DEF View, PendingOwned, Owned

----------------------------------------------------------------------------
(* Initial states map to initial states. *)
LEMMA RefinementInit == Init => Contract!ContractInit
  <1> SUFFICES ASSUME Init PROVE Contract!ContractInit
    OBVIOUS
  <1>1. \A t \in Tasks : StageOf(t) = "none" /\ AnswerOf(t) = "none"
    BY DEF Init, StageOf, AnswerOf, Results
  <1> QED
    BY <1>1, ConstantsAssumption DEF Contract!ContractInit, Contract!Definite

(* Emptying the queue is Cancel. *)
LEMMA DropIsCancel ==
  ASSUME View, View', IInv, DropQueue,
         \A w \in Workers : HeldBy(w)' = HeldBy(w), UNCHANGED res
  PROVE  Contract!Cancel
  <1>1. ASSUME NEW t \in Tasks, t \in InQueue
        PROVE  /\ StageOf(t) = "queued" /\ AnswerOf(t) = "none"
               /\ StageOf(t)' = "broken" /\ AnswerOf(t)' = "none"
    <2>1. future'[t] = "broken"
      BY <1>1 DEF DropQueue
    <2> QED
      BY <1>1, <2>1 DEF View, QueuedView, SettledView, Results
  <1>2. ASSUME NEW t \in Tasks, t \notin InQueue
        PROVE  /\ StageOf(t) # "queued"
               /\ StageOf(t)' = StageOf(t) /\ AnswerOf(t)' = AnswerOf(t)
    <2>1. future'[t] = future[t] /\ InQueue' = {}
      BY <1>2 DEF DropQueue, InQueue
    <2>2. StageOf(t) # "queued"
      BY <1>2 DEF View, SettledView, HeldView, PendingOwned, Owned
    <2> QED
      BY <1>2, <2>1, <2>2, UntouchedView DEF Untouched
  <1> QED
    BY <1>1, <1>2 DEF Contract!Cancel

(* A step that moves one task, and no other. *)
OnlyMoves(t) == \A u \in Tasks \ {t} : Untouched(u)

(* solve() is Submit. *)
LEMMA SolveIsSubmit ==
  ASSUME IInv, View, View', NEW t \in Tasks, Solve(t)
  PROVE  Contract!Submit(t)
  <1> USE DEF solverVars, IInv
  <1>1. /\ future' = [future EXCEPT ![t] = "pending"]
        /\ future[t] = "none"
        /\ \A w \in Workers : HeldBy(w)' = HeldBy(w)
        /\ res' = res
    BY DEF Solve, HeldBy
  <1>2. InQueue' = InQueue \cup {t}
    BY AppendElems, QueueElems DEF Solve, TypeOK, InQueue, Elems
  <1>3. OnlyMoves(t)
    BY <1>1, <1>2 DEF OnlyMoves, Untouched, TypeOK
  <1>4. StageOf(t) = "none" /\ AnswerOf(t) = "none"
    BY <1>1 DEF View, SettledView, Results
  <1>5. StageOf(t)' = "queued" /\ AnswerOf(t)' = "none"
    BY <1>2 DEF View, QueuedView
  <1>6. \A u \in Tasks \ {t} : StageOf(u)' = StageOf(u) /\ AnswerOf(u)' = AnswerOf(u)
    BY <1>3, UntouchedView DEF OnlyMoves
  <1> QED
    BY <1>4, <1>5, <1>6 DEF Contract!Submit

(* The pop is Begin. *)
LEMMA TakeIsBegin ==
  ASSUME IInv, View, View', NEW w \in Workers, Take(w)
  PROVE  \E t \in Tasks : Contract!Begin(t)
  <1> USE DEF solverVars, callerVars, IInv
  <1>1. PICK t \in Tasks : t = Head(queue)
    BY DEF Take, TypeOK
  <1>2. /\ HeldBy(w) = {} /\ HeldBy(w)' = {t}
        /\ \A v \in Workers : v # w => HeldBy(v)' = HeldBy(v)
        /\ future' = future /\ res' = res
    BY <1>1 DEF Take, Goto, TypeOK, HeldBy, Holding, WorkerStates
  <1>3. t \in Elems(queue) /\ Elems(queue') = Elems(queue) \ {t}
    BY <1>1, TailElems, QueueElems DEF Take, TypeOK, OneOwner
  <1>4. t \in InQueue /\ InQueue' = InQueue \ {t}
    BY <1>3 DEF InQueue, Elems
  <1>5. res[w] \notin Results
    BY DEF Take, WorkerInv, Reported
  <1>6. OnlyMoves(t)
    BY <1>2, <1>4 DEF OnlyMoves, Untouched
  <1>7. StageOf(t) = "queued" /\ AnswerOf(t) = "none"
    BY <1>1, <1>4 DEF View, QueuedView
  <1>8. StageOf(t)' = "running" /\ AnswerOf(t)' = "none"
    BY <1>1, <1>2, <1>5 DEF View, HeldView
  <1>9. \A u \in Tasks \ {t} : StageOf(u)' = StageOf(u) /\ AnswerOf(u)' = AnswerOf(u)
    BY <1>6, UntouchedView DEF OnlyMoves
  <1>10. Contract!Begin(t)
    BY <1>1, <1>7, <1>8, <1>9 DEF Contract!Begin
  <1> QED
    BY <1>1, <1>10

(* The return of the solver is Report. *)
LEMMA ReturnIsReport ==
  ASSUME IInv, View, View', NEW w \in Workers, Answer(w) \/ GiveUp(w)
  PROVE  \E t \in Tasks : Contract!Report(t)
  <1> USE DEF solverVars, callerVars, IInv
  <1>1. PICK t \in Tasks : t = task[w]
    BY DEF Answer, GiveUp, Returned, WorkerInv, Holding, WorkerStates
  <1>2. PICK r \in {Verdict[t], "UNKNOWN"} : Returned(w, r)
    BY <1>1 DEF Answer, GiveUp
  <1>3. HeldBy(w) = {t} /\ res[w] \notin Results
    BY <1>1, <1>2 DEF Returned, WorkerInv, Holding, WorkerStates, Reported, HeldBy
  <1>4. r \in Results
    BY <1>3, ConstantsAssumption DEF Results
  <1>5. /\ \A v \in Workers : HeldBy(v)' = HeldBy(v)
        /\ res' = [res EXCEPT ![w] = r]
        /\ future' = future /\ InQueue' = InQueue
    BY <1>2 DEF Returned, Goto, TypeOK, HeldBy, Holding, WorkerStates, InQueue
  <1>6. OnlyMoves(t)
    BY <1>3, <1>5 DEF OnlyMoves, Untouched, TypeOK
  <1>7. StageOf(t) = "running" /\ AnswerOf(t) = "none"
    BY <1>3 DEF View, HeldView
  <1>8. StageOf(t)' = "reporting" /\ AnswerOf(t)' = r
    BY <1>3, <1>4, <1>5 DEF View, HeldView, TypeOK
  <1>9. \A u \in Tasks \ {t} : StageOf(u)' = StageOf(u) /\ AnswerOf(u)' = AnswerOf(u)
    BY <1>6, UntouchedView DEF OnlyMoves
  <1>10. Contract!Report(t)
    BY <1>2, <1>3, <1>7, <1>8, <1>9 DEF Contract!Report
  <1> QED
    BY <1>3, <1>10

(* The end of the packaged task is Complete. *)
LEMMA FinishIsComplete ==
  ASSUME IInv, View, View', NEW w \in Workers, Finish(w)
  PROVE  \E t \in Tasks : Contract!Complete(t)
  <1> USE DEF solverVars, callerVars, IInv
  <1>1. PICK t \in Tasks : t = task[w]
    BY DEF Finish, WorkerInv, Holding, WorkerStates
  <1>2. PICK r \in Results : r = res[w]
    BY DEF Finish, WorkerInv, Reported
  <1>3. HeldBy(w) = {t}
    BY <1>1 DEF Finish, Holding, WorkerStates, HeldBy
  <1>4. /\ HeldBy(w)' = {}
        /\ \A v \in Workers : v # w => HeldBy(v)' = HeldBy(v) /\ res'[v] = res[v]
        /\ future' = [future EXCEPT ![t] = r]
        /\ InQueue' = InQueue
    BY <1>1, <1>2 DEF Finish, Goto, TypeOK, HeldBy, Holding, WorkerStates, InQueue
  <1>5. OnlyMoves(t)
    BY <1>3, <1>4 DEF OnlyMoves, Untouched, TypeOK
  <1>6. StageOf(t) = "reporting" /\ AnswerOf(t) = r
    BY <1>3, <1>2 DEF View, HeldView
  <1>7. future'[t] = r
    BY <1>3, <1>4 DEF TypeOK
  <1>8. StageOf(t)' = "ready" /\ AnswerOf(t)' = r
    BY <1>3, <1>7 DEF View, SettledView, Results
  <1>9. \A u \in Tasks \ {t} : StageOf(u)' = StageOf(u) /\ AnswerOf(u)' = AnswerOf(u)
    BY <1>5, UntouchedView DEF OnlyMoves
  <1>10. Contract!Complete(t)
    BY <1>3, <1>6, <1>8, <1>9 DEF Contract!Complete
  <1> QED
    BY <1>10

(* A step that moves no task is a stuttering step of the contract. *)
LEMMA OtherwiseStutters ==
  ASSUME View, View', UNCHANGED <<queue, future, res>>,
         \A w \in Workers : HeldBy(w)' = HeldBy(w)
  PROVE  UNCHANGED Contract!contractVars
  <1>1. \A t \in Tasks : Untouched(t)
    BY DEF Untouched, InQueue
  <1>2. \A t \in Tasks : StageOf(t)' = StageOf(t) /\ AnswerOf(t)' = AnswerOf(t)
    BY <1>1, UntouchedView
  <1> QED
    BY <1>2 DEF Contract!contractVars

(* Every step maps to a step of the contract or to a stutter. *)
LEMMA RefinementStep ==
  ASSUME IInv, IInv', [Next]_vars
  PROVE  [Contract!ContractNext]_(Contract!contractVars)
  <1> USE DEF serviceVars, solverVars, callerVars
  <1>0. View /\ View'
    <2>1. View
      BY ViewHolds
    <2>2. IInv' => View'
      BY ViewHolds, PTL
    <2> QED
      BY <2>1, <2>2
  <1> DEFINE Same == \A v \in Workers : HeldBy(v)' = HeldBy(v)
             Goal == [Contract!ContractNext]_(Contract!contractVars)
  <1>1. ASSUME NEW t \in Tasks, Solve(t) PROVE Goal
    BY <1>0, <1>1, SolveIsSubmit DEF Contract!ContractNext
  <1>2. ASSUME NEW w \in Workers, Take(w) PROVE Goal
    <2>1. \E t \in Tasks : Contract!Begin(t)
      BY <1>0, <1>2, TakeIsBegin
    <2> QED
      BY <2>1 DEF Contract!ContractNext
  <1>3. ASSUME NEW w \in Workers, Answer(w) \/ GiveUp(w) PROVE Goal
    <2>1. \E t \in Tasks : Contract!Report(t)
      BY <1>0, <1>3, ReturnIsReport
    <2> QED
      BY <2>1 DEF Contract!ContractNext
  <1>4. ASSUME NEW w \in Workers, Finish(w) PROVE Goal
    <2>1. \E t \in Tasks : Contract!Complete(t)
      BY <1>0, <1>4, FinishIsComplete
    <2> QED
      BY <2>1 DEF Contract!ContractNext
  <1>5. ASSUME DropQueue, Same, UNCHANGED res PROVE Goal
    BY <1>0, <1>5, DropIsCancel DEF Contract!ContractNext
  <1>6. ASSUME Same, UNCHANGED <<queue, future, res>> PROVE Goal
    BY <1>0, <1>6, OtherwiseStutters
  <1> HIDE DEF Goal
  <1>7. ASSUME UNCHANGED <<pc, task>> PROVE Same
    BY <1>7 DEF HeldBy
  <1>8. ASSUME NotifyOne, UNCHANGED task PROVE Same
    BY <1>8 DEF NotifyOne, Goto, HeldBy, Holding, IInv, TypeOK
  <1>9. ASSUME NotifyAll PROVE Same
    BY <1>9 DEF NotifyAll, HeldBy, Holding, IInv, TypeOK
  <1>10. ASSUME NEW w \in Workers,
                \/ Wait(w) \/ SpuriousWakeup(w) \/ Exit(w) \/ Arm(w) \/ Enter(w)
                \/ Abort(w) \/ Callback(w) \/ CallbackInterrupts(w) \/ CallbackReturns(w)
         PROVE  Same
    BY <1>10, ThreadKeeps DEF IInv
  <1> HIDE DEF Same
  <1>11. Goal
    BY <1>1, <1>2, <1>3, <1>4, <1>5, <1>6, <1>7, <1>8, <1>9, <1>10
    DEF Next, WorkerStep, CallerStep, TimerStep, Quiet, vars, Notify, NotifyAll, Interrupt,
        Destroy, InterruptSolver, InterruptReturns, Join, Due, Fire, Wait, SpuriousWakeup,
        Exit, Arm, Enter, Abort, Callback, CallbackInterrupts, CallbackReturns
  <1> QED
    BY <1>11 DEF Goal

(* Every behaviour of the service is a behaviour of its contract: a client  *)
(* sees only truthful answers, futures that are settled once, and dropped   *)
(* tasks that never run.                                                    *)
THEOREM RefinementCorrect == Spec => ImplementsContract
  <1>1. Init => IInv
    BY TypeInit, WorkerInvInit, OneOwnerInit DEF IInv
  <1>2. IInv /\ [Next]_vars => IInv'
    BY TypeStep, WorkerInvStep, OneOwnerStep DEF IInv
  <1>3. IInv /\ IInv' /\ [Next]_vars => [Contract!ContractNext]_(Contract!contractVars)
    BY RefinementStep
  <1> QED
    BY <1>1, <1>2, <1>3, RefinementInit, PTL DEF Spec, ImplementsContract, Contract!ContractSpec
=============================================================================
