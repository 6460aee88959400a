------------------------------- MODULE ParProp -------------------------------
(***************************************************************************)
(* core::sat::prop::ParProp and the util::WorkerPool it runs on: a search, *)
(* or the tree below some variables, is cut into tasks; each thread of the *)
(* pool propagates the assignments of its task one after another and calls *)
(* the caller's callback; the caller adds up the conflicts.                *)
(*                                                                         *)
(* Several callers share the pool.  The pool's owner destroys it when all  *)
(* calls have returned.                                                    *)
(***************************************************************************)
EXTENDS Search, FiniteSets, Bags, SequencesExt

CONSTANTS Workers,    \* the threads of the pool; max_threads of them
          Callers,    \* threads that call prop_search or prop_tree, once each
          Requests,   \* what each may ask for; conf: the assignments that conflict
          SeqSplit,   \* seq_split_samples
          TreeSplit,  \* tree_split_vars
          None

ASSUME ParPropAssumption ==
    /\ IsFiniteSet(Workers) /\ Workers # {}
    /\ SeqSplit \in Nat \ {0}
    /\ TreeSplit \in Nat
    /\ \A c \in Callers : \A r \in Requests[c] : r.conf \subseteq Space(r)

VARIABLES
    stop,    \* WorkerPool::_stop
    queue,   \* _task_queue: pairs <<caller, index of the part>>
    pc,      \* where each thread of the pool is
    task,    \* the task it has popped
    search,  \* the part it steps through
    count,   \* `conflicts` of sequential_propagate
    cpc,     \* where each caller is
    req,     \* what it asked for
    whole,   \* its search_p
    future,  \* the futures of its tasks, in order
    result,  \* what the call returned
    seen,    \* history: bag of the assignments propagated for it
    quit,    \* history: one of its callbacks has returned false
    owner,   \* where ~WorkerPool is
    missed   \* history: threads about to block when _stop was stored

poolVars   == <<stop, queue, pc, task, search, count>>
callVars   == <<cpc, req, whole, future, result>>
seenVars   == <<seen, quit>>
ownerVars  == <<owner, missed>>
vars == <<stop, queue, pc, task, search, count, cpc, req, whole, future, result,
          seen, quit, owner, missed>>

----------------------------------------------------------------------------
MaxThreads == Cardinality(Workers)

Smaller(a, b) == IF a <= b THEN a ELSE b

(* The number of binary digits of x. *)
ilog2(x) == CHOOSE k \in 0..x : 2^k > x /\ \A j \in 0..(k - 1) : 2^j <= x

(* prop_tree: how many variables are fixed by the choice of the task. *)
FixedVars(n) ==
    IF n <= TreeSplit THEN 0 ELSE Smaller(ilog2(MaxThreads), n - TreeSplit)

NumThreads(s) == Smaller(s.total \div SeqSplit, MaxThreads)

NumTasks(r, s) ==
    IF r.kind = "tree" THEN 2^FixedVars(r.n)
    ELSE IF s.total <= SeqSplit THEN 1
    ELSE NumThreads(s)

(* The searches a task may be given; a small one is passed on as it is. *)
PartsOf(s, index) ==
    IF s.total <= SeqSplit THEN {s} ELSE SplitSearch(s, NumThreads(s), index)

(* The leaves of the subtree of a task of prop_tree. *)
Subtree(r, index) ==
    LET head == SetAssignment(FixedVars(r.n), index)
    IN {a \in Bits(r.n) : \A i \in DOMAIN head : a[i] = head[i]}

Init ==
    /\ stop = FALSE
    /\ queue = <<>>
    /\ pc = [w \in Workers |-> "top"]
    /\ task = [w \in Workers |-> None]
    /\ search = [w \in Workers |-> None]
    /\ count = [w \in Workers |-> 0]
    /\ cpc = [c \in Callers |-> "idle"]
    /\ req = [c \in Callers |-> None]
    /\ whole = [c \in Callers |-> None]
    /\ future = [c \in Callers |-> <<>>]
    /\ result = [c \in Callers |-> None]
    /\ seen = [c \in Callers |-> EmptyBag]
    /\ quit = [c \in Callers |-> FALSE]
    /\ owner = "alive"
    /\ missed = {}

Goto(w, to) == pc' = [pc EXCEPT ![w] = to]

(* A thread that has found nothing to do holds the mutex until it blocks. *)
MutexFree == \A w \in Workers : pc[w] # "checked"

NotifyOne ==
    IF \E w \in Workers : pc[w] = "waiting"
    THEN \E w \in Workers : pc[w] = "waiting" /\ Goto(w, "top")
    ELSE UNCHANGED pc

----------------------------------------------------------------------------
(* Faulty variants of the operations below; the properties must notice them. *)

NotifyLastOnly(c) ==
    /\ cpc[c] = "notify"
    /\ IF Len(future[c]) = NumTasks(req[c], whole[c])
       THEN UNCHANGED pc /\ cpc' = [cpc EXCEPT ![c] = "collect"]
       ELSE NotifyOne /\ cpc' = [cpc EXCEPT ![c] = "submit"]
    /\ UNCHANGED <<stop, queue, task, search, count, req, whole, future, result,
                   seenVars, ownerVars>>

----------------------------------------------------------------------------
(* A call of prop_search or prop_tree. *)

Call(c) ==
    /\ cpc[c] = "idle"
    /\ owner = "alive"
    /\ \E r \in Requests[c] :
          /\ req' = [req EXCEPT ![c] = r]
          /\ \E s \in IF r.kind = "tree" THEN {None} ELSE Create(r) :
                whole' = [whole EXCEPT ![c] = s]
    /\ cpc' = [cpc EXCEPT ![c] = "submit"]
    /\ UNCHANGED <<poolVars, future, result, seenVars, ownerVars>>

(* WorkerPool::submit: the push under the mutex, then the notification. *)
Submit(c) ==
    /\ cpc[c] = "submit"
    /\ MutexFree
    /\ queue' = Append(queue, <<c, Len(future[c])>>)
    /\ future' = [future EXCEPT ![c] = Append(@, None)]
    /\ cpc' = [cpc EXCEPT ![c] = "notify"]
    /\ UNCHANGED <<stop, pc, task, search, count, req, whole, result, seenVars, ownerVars>>

Notify(c) ==
    /\ cpc[c] = "notify"
    /\ NotifyOne
    /\ cpc' = [cpc EXCEPT ![c] =
                  IF Len(future[c]) = NumTasks(req[c], whole[c]) THEN "collect" ELSE "submit"]
    /\ UNCHANGED <<stop, queue, task, search, count, req, whole, future, result,
                   seenVars, ownerVars>>

(* _sum: every get() has returned. *)
Collect(c) ==
    /\ cpc[c] = "collect"
    /\ \A i \in DOMAIN future[c] : future[c][i] # None
    /\ result' = [result EXCEPT ![c] = FoldLeft(LAMBDA a, b : a + b, 0, future[c])]
    /\ cpc' = [cpc EXCEPT ![c] = "done"]
    /\ UNCHANGED <<poolVars, req, whole, future, seenVars, ownerVars>>

----------------------------------------------------------------------------
(* A thread of the pool.  At "top" it is before the loop test, or has been  *)
(* woken and is about to evaluate the predicate of the wait again.          *)

Exit(w) ==
    /\ pc[w] = "top"
    /\ stop
    /\ Goto(w, "exited")
    /\ UNCHANGED <<stop, queue, task, search, count, callVars, seenVars, ownerVars>>

FindNothing(w) ==
    /\ pc[w] = "top" /\ MutexFree /\ ~stop /\ queue = <<>>
    /\ Goto(w, "checked")
    /\ UNCHANGED <<stop, queue, task, search, count, callVars, seenVars, ownerVars>>

Block(w) ==
    /\ pc[w] = "checked"
    /\ Goto(w, "waiting")
    /\ UNCHANGED <<stop, queue, task, search, count, callVars, seenVars, ownerVars>>

SpuriousWakeup(w) ==
    /\ pc[w] = "waiting"
    /\ Goto(w, "top")
    /\ UNCHANGED <<stop, queue, task, search, count, callVars, seenVars, ownerVars>>

(* The pop, and the beginning of the task. *)
Pop(w) ==
    /\ pc[w] = "top" /\ MutexFree /\ ~stop /\ queue # <<>>
    /\ LET c == Head(queue)[1] IN
          /\ task' = [task EXCEPT ![w] = Head(queue)]
          /\ \E s \in IF req[c].kind = "tree" THEN {None} ELSE PartsOf(whole[c], Head(queue)[2]) :
                search' = [search EXCEPT ![w] = s]
    /\ queue' = Tail(queue)
    /\ count' = [count EXCEPT ![w] = 0]
    /\ Goto(w, "run")
    /\ UNCHANGED <<stop, callVars, seenVars, ownerVars>>

(* One turn of the loop of sequential_propagate.  A callback that returns   *)
(* false ends this part only.                                               *)
Propagate(w, continue) ==
    /\ pc[w] = "run"
    /\ search[w] # None
    /\ LET c == task[w][1]
           a == search[w].cur
       IN /\ seen' = [seen EXCEPT ![c] = @ (+) SetToBag({a})]
          /\ count' = [count EXCEPT ![w] = IF a \in req[c].conf THEN @ + 1 ELSE @]
          /\ quit' = [quit EXCEPT ![c] = @ \/ ~continue]
    /\ IF continue /\ HasNext(search[w])
       THEN /\ \E s \in Increment(search[w]) : search' = [search EXCEPT ![w] = s]
            /\ UNCHANGED pc
       ELSE Goto(w, "finish") /\ UNCHANGED search
    /\ UNCHANGED <<stop, queue, task, callVars, ownerVars>>

(* prop_check_subtree counts the conflicts of all leaves of the subtree. *)
PropagateTree(w) ==
    /\ pc[w] = "run"
    /\ search[w] = None
    /\ LET c == task[w][1]
           leaves == Subtree(req[c], task[w][2])
       IN /\ seen' = [seen EXCEPT ![c] = @ (+) SetToBag(leaves)]
          /\ count' = [count EXCEPT ![w] = Cardinality(leaves \cap req[c].conf)]
    /\ Goto(w, "finish")
    /\ UNCHANGED <<stop, queue, task, search, callVars, quit, ownerVars>>

Finish(w) ==
    /\ pc[w] = "finish"
    /\ future' = [future EXCEPT ![task[w][1]][task[w][2] + 1] = count[w]]
    /\ task' = [task EXCEPT ![w] = None]
    /\ search' = [search EXCEPT ![w] = None]
    /\ Goto(w, "top")
    /\ UNCHANGED <<stop, queue, count, cpc, req, whole, result, seenVars, ownerVars>>

----------------------------------------------------------------------------
(* ~WorkerPool: _stop is stored without the mutex. *)

Destroy ==
    /\ owner = "alive"
    /\ \A c \in Callers : cpc[c] = "done"
    /\ owner' = "stopping"
    /\ stop' = TRUE
    /\ missed' = {w \in Workers : pc[w] = "checked"}
    /\ UNCHANGED <<queue, pc, task, search, count, callVars, seenVars>>

NotifyAll ==
    /\ owner = "stopping"
    /\ pc' = [w \in Workers |-> IF pc[w] = "waiting" THEN "top" ELSE pc[w]]
    /\ owner' = "joining"
    /\ UNCHANGED <<stop, queue, task, search, count, callVars, seenVars, missed>>

Join ==
    /\ owner = "joining"
    /\ \A w \in Workers : pc[w] = "exited"
    /\ owner' = "gone"
    /\ UNCHANGED <<poolVars, callVars, seenVars, missed>>

Gone == owner = "gone" /\ UNCHANGED vars

----------------------------------------------------------------------------
WorkerStep(w) ==
    \/ Exit(w) \/ FindNothing(w) \/ Block(w) \/ Pop(w) \/ PropagateTree(w) \/ Finish(w)
    \/ \E continue \in BOOLEAN : Propagate(w, continue)

CallerStep(c) == Submit(c) \/ Notify(c) \/ Collect(c)

OwnerStep == NotifyAll \/ Join

Next ==
    \/ \E c \in Callers : Call(c) \/ CallerStep(c)
    \/ \E w \in Workers : WorkerStep(w) \/ SpuriousWakeup(w)
    \/ Destroy \/ OwnerStep \/ Gone

Spec == Init /\ [][Next]_vars

(* Every thread runs, and one that wants the mutex gets it if it is free    *)
(* again and again.                                                         *)
FairSpec ==
    /\ Spec
    /\ \A w \in Workers : SF_vars(WorkerStep(w))
    /\ \A c \in Callers : SF_vars(CallerStep(c))
    /\ WF_vars(OwnerStep)

----------------------------------------------------------------------------
(* Types; a digit is below its radix, a part lies within its search. *)
TypeOK ==
    /\ stop \in BOOLEAN
    /\ queue \in Seq(Callers \X Nat)
    /\ pc \in [Workers -> {"top", "checked", "waiting", "run", "finish", "exited"}]
    /\ task \in [Workers -> (Callers \X Nat) \cup {None}]
    /\ \A w \in Workers : search[w] # None =>
          /\ search[w].cur \in Space(req[task[w][1]])
          /\ search[w].done < search[w].total
    /\ count \in [Workers -> Nat]
    /\ cpc \in [Callers -> {"idle", "submit", "notify", "collect", "done"}]
    /\ \A c \in Callers : req[c] \in Requests[c] \cup {None}
    /\ future \in [Callers -> Seq(Nat \cup {None})]
    /\ result \in [Callers -> Nat \cup {None}]
    /\ quit \in [Callers -> BOOLEAN]
    /\ owner \in {"alive", "stopping", "joining", "gone"}
    /\ missed \subseteq Workers

(* The parts cover the search: no assignment is propagated twice, and when   *)
(* a call returns without any callback having stopped it, each one was       *)
(* propagated.  (A random search draws as many samples as it was asked for.) *)
EachOnce ==
    \A c \in {d \in Callers : req[d] # None} :
        /\ req[c].kind # "random" => seen[c] \sqsubseteq SetToBag(Space(req[c]))
        /\ cpc[c] = "done" /\ ~quit[c] =>
              IF req[c].kind = "random" THEN BagCardinality(seen[c]) = req[c].total
              ELSE seen[c] = SetToBag(Space(req[c]))

(* "@return the number of conflicts": of the assignments that were           *)
(* propagated, whichever threads did it, for this caller and no other.       *)
ConflictsCounted ==
    \A c \in Callers : cpc[c] = "done" =>
        result[c] = BagCardinality([a \in DOMAIN seen[c] \cap req[c].conf |-> seen[c][a]])

(* Every call returns: no task is left in the queue with all threads asleep, *)
(* and no future is forgotten.                                               *)
CallsReturn == \A c \in Callers : (cpc[c] = "submit") ~> (cpc[c] = "done")

(* The destructor returns, unless some thread was between the predicate and *)
(* the wait when _stop was stored: such a thread may miss the notification. *)
DestructorReturns == (owner = "stopping") ~> (owner = "gone" \/ missed # {})

(* prop_search and prop_tree count each assignment of their search once,     *)
(* whichever threads propagate which parts.                                  *)
CountedOnce == EachOnce /\ ConflictsCounted

(* No caller and no owner of a ParProp waits for ever, but for the lost      *)
(* notification of the destructor.                                           *)
NobodyWaitsForever == CallsReturn /\ DestructorReturns
=============================================================================
