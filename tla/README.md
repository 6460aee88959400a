# A TLA+ model of itmo_parsat

`itmo_parsat` decides whether a propositional formula is satisfiable by looking
for a *rho-backdoor* (a small set of variables, most of whose assignments are
refuted by unit propagation alone), splitting the formula along the assignments
that are left, and solving the subproblems in parallel. This directory models
the concurrent core of the program and the MiniSat solver at its bottom, checks
them with TLC on small instances, and proves with TLAPS, for all instances, the safety of
the solver service, the timer, the solves, the two backdoor searches, the event handler,
the portfolios and the lock-free queue of clauses.

Contents: 1 the system; 2 the modules; 3 abstractions; 4 what each run checks;
5 bounds; 6 fairness; 7 what is proved; 8 what the checks found; 9 what is not
modelled; 10 the plan.

## 1. The system

The program is a stack of layers. Everything below `core/` and `util/` that is
not vendored is listed here, and of the vendored code what the program has adapted
or depends on, with the state it keeps and what makes it correct.

| Component | Source | State | Operations | Correct when |
|---|---|---|---|---|
| SequentialSolverService | `core/sat/solver/service/` | `_stop`, `_task_queue`, the futures, one thread per solver, a `Timer` | `solve`, `interrupt`, destructor, the working thread | a submitted task is run by one solver or dropped, never both, never twice; its future is settled once, with the truth, UNKNOWN, or a broken promise; an interrupt affects the tasks it was meant for; nobody sleeps while work is queued; the destructor returns |
| Sequential solvers | `core/sat/solver/sequential/` | an asynchronous interrupt flag, the solver | `solve`, `interrupt`, `clear_interrupt` | an interrupt during a search ends it |
| Timer | `util/Timer.{h,cpp}` | `_events` ordered by deadline, `_stop`, its thread | `add`, `launch`, `abort`, destructor | every event is called at its time unless aborted; the destructor returns |
| Solve, ReduceSolve | `core/solve/` | `_interrupted`, `_model`, the service, the backdoor search | `solve`, `interrupt`, `_filter_conflict` | the answer is true, SAT comes with a model, UNKNOWN has a reason, `solve` returns |
| SingleReduceSolve | `core/solve/reduce/SingleReduceSolve.cpp` | locals of one batch | `_solve_impl`, `_solve_final` | as above |
| RecurringReduceSolve | `core/solve/reduce/RecurringReduceSolve.cpp` | a stack of base assumptions with depths | `_solve_impl`, `_filter_fast` | as above, and no branch of the recursion is forgotten |
| OneRBSearch, CartesianRBSearch | `core/solve/rbs/` | `_interrupted`, `_sbs_found`, one thread and one list per algorithm | `find_rb`, `interrupt` | a returned search space covers all models; a strong backdoor is reported only where there is one |
| EventHandler, SigHandler | `util/` | a queue of events, lists of callbacks, a thread | `attach`, `detach`, `raise` | events are delivered once, in order, to the handlers attached |
| WorkerPool | `util/WorkerPool.h` | a queue of packaged tasks, threads, `_stop` | `submit`, destructor, `wait_for_futures` | as for the service |
| Search | `core/search/` | an index range and the current assignment | `operator++`, `split_search` | the parts cover every assignment exactly once |
| Prop, ParProp | `core/sat/prop/` | one MiniSat per thread | `prop_search`, `propagate` | the parallel result is the sequential one |
| PortfolioSolve, NaiveSolve | `core/solve/` | an atomic result, a model, child solves | `solve`, `interrupt` | the first definite answer wins, with its model |
| Evolution (algorithm, instance, limits, cache) | `core/evol/` | a population with ratings, a cache of ratings, counters | `prepare`, `process`, `interrupt`, `get_best` | a set reported as a strong backdoor is one; it stops at its limits and when interrupted |
| Painless | `PainlessSolver.cpp`, `core/sat/native/painless/painless-src/working/` | the result with its lock, an index per call, two interrupt flags, a task and a thread per worker | `solve`, `interrupt`, `join`, destructor | the first answer to *this* call is its result; a late worker does no harm; the destructor returns |
| Clause sharing | `core/sat/sharing/`, `painless-src/sharing/`, `painless-src/clauses/` | lock-free queues of clauses, databases, reference counts, a thread per sharer | export, import, `doSharing`, `stop` | a clause is freed once, when nobody holds it; each solver gets the clauses of the others, once |
| MiniSat | `core/sat/native/mini/minisat/minisat/core/` | clauses and their watchers, the trail with its levels and reasons, the heap of variables, `ok`, the interrupt flag | `solve`, and the program's own `prop_check`, `prop_check_subtree` | a solver that has served any calls, finished or interrupted, answers the next one right; it answers |
| Problem, SimpSolver | `core/sat/Problem.cpp`, `.../minisat/simp/` | the solver that read the formula, the eliminated clauses, the numbering of the variables left | reading with elimination, `remap_and_extend_model` | the clauses handed out describe the formula, and a model of them becomes one of the formula |
| Infrastructure, CLI | `infra/`, `cli/` | processes and files | launching and printing | |

How they interact:

* The thread that calls `Solve::solve` runs preprocessing, asks an `RBSearch`
  for a backdoor, filters its assignments by unit propagation, submits the rest
  to the service one by one, and waits for the futures.
* A working thread of the service pops a task, loads a timer event for its limit,
  runs the solver and then the *callback* of the task. On SAT the callback stores
  the model and calls `interrupt()` of the very service it is running in.
* The timer's thread calls `solver.interrupt()` from an event's callback while
  it holds the timer's mutex.
* The event thread calls `Solve::interrupt()` for signals,
  and the handler of `CartesianRBSearch` for `SBS_FOUND`. The event
  queue is process-wide and outlives the searches that raise events.
* The threads of a `PortfolioSolve` race for one result with a compare-and-swap;
  the winner takes its model and interrupts all of them, itself included.
* The workers of a `PainlessSolver` race for one result too, under locks, and the
  call that lost interest goes on to the next without waiting for their `join`.
* Every thread of `ParProp` and every solver of the service has a MiniSat of its own,
  loaded once and then called for as long as the program runs; all of them get their
  clauses from one `Problem`, to which the model of an answer goes back.
* A sharer's thread pops clauses that searching threads push, and pushes clauses
  that searching threads pop.

So up to four kinds of threads touch the same solver and the same queue, and the
hard behaviours are about their order: an interrupt between the pop and the start
of a search; a timer event that has passed its test of `aborted` when the task
ends; a notification sent to nobody; a queue emptied while it is being filled; an
event of one search delivered to the next; a list cut short by an interrupt and
then believed; a worker that joins the wrong call; a node freed under a reader. Below
them the hard behaviours are those of one thread over a long history: a watch that
was right before ten backtracks, a clause strengthened while it is a candidate, a
variable eliminated before the one it depends on. `PROJECT.json` lists them as
hazards, each at its line.

## 2. The modules

    ServiceContract          what a SolverService promises (abstract)
      ^ implemented by       SolverService  <- SolverServiceProofs
      ^ used by              ReduceSolve    <- SingleReduceSolve
                                            <- RecurringReduceSolve
    Timer                    the clocked timer behind SolverService's timer events
    CartesianRBSearch        the backdoor search behind ReduceSolve's find_rb
    Evolution                the other one: OneRBSearch with its algorithm
    Search                   assignments one after another, and in parts
      ^ used by              ParProp (with the WorkerPool)
    EventHandler             events, callbacks and their thread
      ^ extended by          PortfolioSolve (the portfolio, and main() of solve)
    Painless                 PainlessSolver with its Portfolio and workers
    ClauseBuffer             the lock-free queue of clauses, access by access
      ^ atomic in            ClauseSharing (sharers, databases, reference counts)
    MiniSat                  the solver's data structure and its methods
      ^ extended by          MiniSatSearch (propagation calls and solve)
      ^ extended by          Problem (reading with elimination, models)
    MC<M>                    definitions that instantiate M for TLC
    <M>Proofs                theorems about M; ReduceSolveProofs is about both solves that
                             extend ReduceSolve, CartesianRBSearchProofs also about Search

**ServiceContract** is the life of a task as its client sees it: *none, queued,
running, reporting* (the callback runs), then *ready* or, for a task dropped from
the queue, *broken*. It knows no threads. `SolverService` refines it, and
`ReduceSolve` is written against it, which is what makes the composition of the
two layers sound and keeps the state space of the upper one small.

**SolverService** is `SequentialSolverService` with its threads. `pc[w]` is the
position of a working thread in `_solver_working_thread`: `idle` (about to test
the predicate), `waiting` (blocked in `_queue_cv.wait`), `arm` (inside
`Timer::launch`), `enter` (before the first line of `Solver::solve`, which clears
the interrupt flag), `search`, `abort`, `callback`, `interrupting`, `finish`,
`exited`. `client` is where the two outside threads are, Main (solve, destructor)
and Event (interrupt). `solve()` is two steps, the push under the mutex and the
notification after it. `interrupt()` is several: the queue is emptied under the
mutex, then the solvers are interrupted in any order, because the loop over them
runs under an execution policy. The history variable `blame[t]` records who
interrupted a solver while it held `t`.

**Timer** has a clock. The thread computes its timeout from the first event,
blocks, and on waking calls or erases the events that are due. `Add` keeps one event per
deadline, as a `std::set` ordered by `when` alone does. With an empty set the code
dereferences `begin()`; on the library's `std::set` that reads a zero, i.e. a
timeout that has already passed, so the thread spins. `Stop` stores `_stop`
without the mutex: its notification reaches the thread only if it is blocked.

**ReduceSolve**, **SingleReduceSolve**, **RecurringReduceSolve** are the solving
threads. An assumption is a cube, the set of points (total assignments) that
agree with it; the formula is its set of satisfying points. A backdoor is then a
partition of the base cube (`Splits`), the meaning of the enumeration of
`core/search`. `Solve::interrupt()` is three steps: the flag, the service, the
backdoor search. `RecurringReduceSolve` adds the stack, the depth, and the queue of
`SBS_FOUND` events.

**CartesianRBSearch** is `find_rb` with one thread per algorithm, the callback of
`prop_search` value by value, the event and its handler, the interrupt of the owner,
and a sequence of calls on new objects over one event queue.

**Search** is `core/search`: what a search object holds (range, current
assignment, indices, visited samples), how it steps and how `split_search` cuts
it, and `_prepare_cartesian`, which decides what the Cartesian product is made
of. An assignment is the sequence of its digits. `Space` is the reference: what a
search is to visit, said without any stepping.

**ParProp** is `prop_search` and `prop_tree` over the threads of a `WorkerPool`.
`pc[w]` is the position of a thread in its loop: `top` (before the loop test, or
woken and about to test the predicate again), `checked` (the predicate was false
and the thread, which holds the mutex, is about to block), `waiting`, `run`,
`finish`, `exited`. `cpc[c]` is the position of a caller: `submit` and `notify`
alternate for each task, then it collects the futures. The history variable `seen`
is the bag of the assignments propagated for a caller, `missed` the set of
threads at `checked` when the destructor stored `_stop`.

**EventHandler** has one action per access of the event thread to what others
touch: the predicate and the pop, the block, `begin()`, and `(it++)->_callback()`,
in which the iterator moves on before the call. Lists are sequences of handles; an
iterator is a handle, and stepping on one that has been unlinked ends in
`crashed`. A callback detaches its own handle in two steps, the compare-and-swap
and the unlink, and the owner may do the same at any moment. `raced` records that
an owner detached a handle while its event was being served. A callback knows its handle
by a variable of the owner, captured by reference in the initialiser of that very
variable: between `Attach` and the end of the initialiser (`Assigning`) a callback
that detaches itself uses an uninitialised `shared_ptr` and ends in `crashed` as well.

**PortfolioSolve** composes it with `main()` of `cli/solve`, the signal thread and
`PortfolioSolve::solve`. A solve is reduced to what its own module says: a
`NaiveSolve` clears the flag of its solver on entry and may then be interrupted; a
`SingleReduceSolve` and a `RecurringReduceSolve` attach a handler for `SBS_FOUND`,
may raise that event, may be stopped by it, and may answer (`Returns`) the truth,
UNKNOWN, or the wrong UNSAT of section 8. The steps from the answer to the end of the
thread are those of the code: compare-and-swap, model, interrupt of everyone.
`main()` and each search have a place `assign` between the attach and the use of the
handle. A compiler that builds the returned handle in place gives the variable its value
before the handle is in the list; that program has the behaviours in which `MainAssign`
and `AssignSearch` follow at once.

**Evolution** is `OneRBSearch::find_rb` with `Algorithm::process`. A mask is a set of
variables; the formula is reduced to the least assignments that unit propagation
refutes, without the base assumption and under it. A rating is the triple of
conflicts, tried assignments and size, so that it can be the exact one, a
sample, or the leftover of a mutated parent. Random choices are nondeterministic.
`GAAlgorithm` ends in `crashed` when it indexes its population beyond its end, and when
`get_best` dereferences the end of an empty one. That powers of the scale are positive
numbers is part of `EvolutionAssumption`, since the provers know nothing of `^`.

**Painless** follows `PainlessSolver::solve` field by field, because its resets take
no lock: `global_ending`, `final_result`, `final_model`, then `current_index` and
`strategyEnding` of the `Portfolio`. `setInterrupt()` is the set `sets[t]` of flag
writes still to be done by thread `t`, in any order between workers, the solver's
flag before the worker's. A result carries the index of the call whose assumptions it
answers.

**ClauseBuffer** is the Michael-Scott queue of Painless without its hazard pointers:
every shared read, write and compare-and-swap is a step, a deleted address may be
allocated again, and an access to a dead one ends in `crashed`. `misused` records
that two adders or two poppers overlapped.

**ClauseSharing** takes the queues as atomic, as `ClauseBuffer` shows them to be for
one adder and one popper, except that the counter follows the push. A clause is a
record of its size, LBD, issuer and reference count; which ones a solver learns is an
input (`learns`). `doSharing` is five steps per producer and
consumer: count, pop, store and select, refer and push, release.

**MiniSat** has no variables of its own: a solver is a record with the fields of
`Minisat::Solver`, and a method is an operator from solvers to solvers. Clauses are
sequences, because the order of their literals says what is watched and implied;
watcher lists are sequences, because propagation depends on their order. The loops of
the code are recursive functions over the steps of the loop.

**MiniSatSearch** is one `SimpSolver` and the calls that `SimpProp`, `ParProp` and the
wrapper `core/sat/solver/sequential/SimpSolver.cpp` make of it. A propagation call is
one step, since nobody else touches the solver; `solve()` is a step per iteration of
`search()`, where the flag set by `interrupt()` is read, and one for the test between
two calls of `search()`. The reference definitions `Closure`, `Refutes` and `Models`
in `MiniSat` know nothing of watches and trails.

**Problem** is `read_clauses()` from the clauses of the file on. `phase` says which
loop of `eliminate()` is running: gathering touched clauses, backward subsumption (a
step per clause of the queue and per unit of the trail), elimination (a step per
variable taken from the heap). `Export` is the rest, with `toDimacs` and its
numbering; `Load` gives the clauses to the solver of `MiniSatSearch`, whose steps are
steps of this module from then on; `GiveModel` is what `main()` does with the answer SAT.

`PROJECT.json` maps every definition to its lines. The definitions called "variants"
in the modules are not part of any specification: they are plausible
mistakes in the code (a missing pop, a forgotten notification, a test left out),
and each property is known to fail for one of them.

## 3. Abstractions

* A step is what a thread does between two points at which another thread can
  see or change what it uses: a critical section, or one access to an atomic flag.
* A search is an oracle: it ends with the truth, or with UNKNOWN after it has
  seen its flag. In `ServiceContract` UNKNOWN may come at any time, since the
  client cannot see limits and interrupts.
* Time is absent from `SolverService` (an armed event may be found due at any
  moment) and present in `Timer`.
* Literals, clauses, models and backdoors are sets of points. What unit
  propagation refutes is chosen freely among the cubes without a model.
* The order in which failed assumptions are pushed on the stack is the order in
  which their callbacks happened to run, so `PopBase` takes any of the deepest.
* `future.wait()` is modelled by its effect. In `CartesianRBSearch` and
  `RecurringReduceSolve` so is the callback list of one event, and the handler of a
  backdoor search counts as attached while its `find_rb` runs; `PortfolioSolve`
  has the list and the handles.
* Memory orders: atomics are sequentially consistent. The relaxed flags of the code
  are each read for themselves, next to a mutex that orders the rest.
* `ClauseSharing`: `roundBeforeIncrease` may be passed in any round. Clauses are never
  added or removed through `addProducer` and its kin, which nothing calls. The clause
  that a `Reducer` makes of an assignment which turned out satisfiable
  (`Reducer.cpp:109-126`) is not shorter, so it is not exported; it goes to the inner
  solver, which releases it, and is left out.
* `MiniSat`: activities, phases, random choices, the proof file and garbage collection
  are left out. What they decide is chosen freely: the next decision and its sign, the
  clauses that `reduceDB` drops, whether `simplify` has enough propagations behind it
  to run. `max_learnts` is a third of the clauses; its increase after 100
  conflicts is not reached. Removed clauses leave the watcher lists at once, where the
  code waits for the next lookup of the list.
* `Problem`: variables leave `elim_heap` in any order. The limits on the size of
  clauses (20 literals for resolvents, 1000 for subsumption), asymmetric branching and
  redundancy checks (off by default) and the file `_simp.cnf` are left out; nothing
  interrupts the reading.
* `Evolution`: fitness is compared exactly, where the code compares logarithms in
  floating point; `StallLimit` is without its time; the number of samples is a product of
  integers, where `Instance.cpp:99` multiplies by a double (2 in all configurations).
* Some neighbouring accesses are one step where nothing the properties speak of can come
  between: `PortfolioSolve::interrupt` reaches all its solves at once (the code goes
  from one to the next, each with a flag of its own); `Timer::add` reads the clock and
  inserts together (under the prompt scheduling of section 6); `RecurringReduceSolve`
  tests its loop and replaces its search together; `Painless` sets `w_stop` when a
  `setInterrupt()` begins rather than when it has ended. `MiniSat` reuses a freed clause
  reference at once, the code after garbage collection; only the order of references
  differs. Without elimination, the closing `solve()` of `read_clauses` is any
  assignment of the free variables, a superset of what it can leave.

## 4. What each run checks

All properties are stated and explained in the modules.

| Run | What it shows |
|---|---|
| `service` | Two solvers, two tasks (one limited, one satisfiable), two interrupts, callbacks that interrupt, the destructor. `OneOwner`: a pending future has exactly one owner, a settled task is nowhere. `UnknownExplained`: an interrupt of an earlier task or of an idle solver never spoils a later one. `WorkConserving`: while a thread sleeps there are enough awake threads for the queued tasks. `ImplementsContract`: refinement of `ServiceContract`. `FuturesSettle`, `DestructorReturns`: liveness. |
| `timer` | `LatenessBounded`: an event is late by at most the difference of two delays, although `add` does not shorten a wait in progress. `ThreadResponds` has two parts. `Served`: the thread neither sleeps nor spins past an event, if only one event per instant. `DestructorReturns`: although its notification can be lost, `~Timer` returns, because the wait has a timeout. |
| `single` | `SingleAnswerExplained` has three parts. `WrongOnlyIfCut`: the answer is true, with an interrupt between any two steps of the three-step `interrupt()` and with a SAT callback that empties the queue while it is being filled, except for UNSAT after an interrupt cut a `CartesianRBSearch` short. `SatHasModel`: SAT comes with a satisfying point, and with nothing exactly on the path that has no callback. `UnknownJustified`: UNKNOWN needs an interrupt or a subproblem left open. And `SingleReturns`. |
| `recurring` | `RecurringAnswerExplained`: the same, where the exception is an `SBS_FOUND` event of an earlier search, and UNKNOWN needs an interrupt or, on the direct path, a service that says so. `NothingForgotten`: until the call is satisfied, interrupted or hit by such an event, every satisfying point is under an assumption on the stack, in the current batch and unanswered, or under the current base. `RecurringReturns`. |
| `cartesian` | `ResultExplained` has two parts. `SearchIsComplete`: a list cut short by an interrupt or by another algorithm is never used as a search space. `AbortHasCause`: without the owner's interrupt the first call is aborted only for a real strong backdoor. And `FindRbReturns`. |
| `parprop` | `CountedOnce` is `EachOnce`: whatever the kind of search and the order of the threads, no assignment is propagated twice, and when no callback stopped, all were; and `ConflictsCounted`: a caller gets the conflicts of its own assignments. `NobodyWaitsForever` is `CallsReturn`: no task is left behind with all threads asleep; and `DestructorReturns`: `~WorkerPool` returns, unless a thread was between its predicate and the wait when `_stop` was stored; that window is real, and the property says it is the only one. |
| `portfolio` | `AnswerNotLost`: although an UNKNOWN wins the compare-and-swap as well, UNKNOWN is printed only if all solves said so, and without a SIGINT or an event of a recurring solve the truth is printed. `SatHasModel`: a printed SAT has the model of a solve that said SAT, under the same condition. `CrashOnlyByRace`: the walk over the callback list survives callbacks that unlink themselves; it fails only when an owner detaches a handle while its event is served, or in a callback that runs before the owner's variable has the handle. `ProgramExits`: the program ends, unless that happened or `~EventHandler` missed its thread. |
| `evolution` | `SbsSound`: neither samples, nor ratings made before the base assumption was set, nor those a mutant inherits are taken for a strong backdoor. `WildIndexOnlyIfOdd`: the population keeps its size for even `q - h`. `SearchEnds`: `EAAlgorithm` ends, with a cache that evicts and with one that comes to hold every mask, in which case its next step would never end; and both algorithms end after an interrupt. |
| `painless` | `AnswersExplained` has two parts. `WrongOnlyAfterInterrupt`: a result and its model belong to this call, however late the workers of earlier ones are, unless an earlier one was interrupted. `UnknownHasCause`: no call gives up by itself. `FirstResultStays`: the winner's result is not overwritten. `CallsReturn`: although a solver clears its flag when it enters a search, no worker searches for ever, so that `solve()` and the destructor return. |
| `buffer` | `SafeForOneOfEach`: as long as adders do not overlap each other and poppers neither, no deleted node is touched. `LinearizesToFifo`: until then the list is a first-in first-out queue, step by step. |
| `sharing` | `RefsExact`: the counter of a clause is the number of queues, databases, hands and vectors that hold it, so none is freed early, late or twice; one reference too many exactly for the clauses `getClauses` loses. `GivenOnce`: nobody gets a clause twice or his own. `EventuallyShared`: when solvers have stopped learning, the clauses kept back for shorter and newer ones go out too, all but those lost, refused or longer than a round. |
| `problem` | A formula is read, simplified, renumbered and loaded; then the solver is called. `EliminationExact`: after every step of `eliminate()` the clauses have exactly the models of the formula, seen on the variables left. `ClausesDescribeFormula`: what is handed out has a model if and only if the formula has one, except after a contradiction (section 8). `StructureHolds`: the invariant of the two watched literals, and reasons that imply their first literal, through all swaps, backtracking and removals. `PropagationExact`: both kinds of `prop_check` say what unit propagation says by its definition, and `prop_check_subtree` counts what single propagations would. `ModelsKept`: learnt, minimised and trimmed clauses follow from the formula. `AnswerSound`: SAT with a model of formula and assumptions, UNSAT with assumptions that do refute it, UNKNOWN only if interrupted, and an UNSAT under assumptions does not outlive its call. `ModelsExtend`: a model given out is one of the formula, and the second one from a `Problem` is too. `CallsReturn`: the loops of `eliminate()` run dry, and a solve ends whatever is decided, restarted and forgotten. |

## 5. Bounds

* `service`: two workers and two tasks suffice for every race between two
  owners of a task, a pop against the emptying of the queue, and an idle solver
  next to a busy one; two interrupts let one fall on an idle solver and one on a
  busy one. Three tasks bring no new state of a single task, and all but
  the liveness properties are proved without bounds anyway.
* `timer`: three events with delays 1 and 3 give an early event added during the
  wait for a late one, a collision, and a third event behind them. `MaxTime`
  ends the clock after the last deadline that may be added.
* `single`, `recurring`: three points give partitions into one, two and three
  cubes and a cube with and without a model beside each other. `MaxDepth` 1 gives
  a limited and an unlimited level; the code distinguishes no others. `MaxEvents`
  1 bounds the undelivered `SBS_FOUND` events; a second one has the effect of the
  first.
* `cartesian`: two algorithms stop each other; two values allow a list that is
  empty, partial or full; two calls let an event survive its search.
* `parprop`: two threads and one request of each kind. Three samples on two
  threads do not divide evenly; lists of 3, 2 and 2 assignments make a product
  that exceeds both `MaxCartesianSize` and the 3-bit integers that stand for the
  32-bit ones, so that the bound matters; lists of 5 and 4 are all too long. Of
  the two trees one is split over more tasks than there are threads. The second
  caller's single task is enough to mix the tasks of two calls.
* `portfolio`: one solve of each kind and one SIGINT; two branches of the recurring
  solve, so that its event can be about a part of the formula. A second signal
  finds the handler detached.
* `evolution`: two variables make four masks, with a cache of three, which evicts, and
  for `EAAlgorithm` also one of four, which comes to hold them all; masks
  of one variable are searched fully, that of two is sampled by one assignment and
  then by two, which is still half of it. Populations of one, two and three, with
  even and odd `q - h`, and one (`q = 1`, `h = 0`) that dies out.
  Three points, fewer than there are masks, or two steps without progress, end a
  search; with the second of these limits the larger cache comes to hold every mask.
* `painless`: a MapleCOMSPS worker and a `Reducer`, which only an interrupt stops;
  two calls with different truths, so that a late answer shows; one interrupt. A third
  call shows that the effects of an interrupt are not confined to the next call, which
  the properties allow for; they are proved for any number of calls.
* `buffer`: two threads of each role, three clauses, four addresses, so that an
  address is reused while a thread still remembers it. The run may stop when all
  clauses have been added and popped or a thread has crashed.
* `sharing`: one block as `PainlessSolver` builds it, two literals a round and five per
  length in the database. Three inputs of three clauses each: lengths 2, 1, 2, so that a
  database holds two lengths and a unit goes before an older clause; lengths 2, 3, 1, one
  of them longer than a round; and three of length 2, so that clauses wait for a round
  and the database overflows. `MaxClauses` 3 lets the `Reducer` make one in place of the
  last.
* `problem`: to be read with elimination, all sequences of up to three of seven clauses
  over three variables, i.e. every order of units, contradictions, duplicates, subsumed
  and strengthened clauses; and three formulas of up to six variables that are refuted
  only by eliminating, that cascade, and that run into the limit on growth and leave
  clauses for the solver. Read without it, so that the solver has more to do: formulas
  that are unsatisfiable only after learning, satisfiable by one assignment, refuted by
  propagation under assumptions only, with units, and with learnt clauses that have a
  redundant literal or are long enough for `reduceDB` to drop. Two calls of one solver
  let leftovers of the first show; learnt clauses, a level-0 trail and a cleared `ok` do
  survive into the second. The larger a formula, the more of its variables are assumed
  (`MCAssumptions`), which keeps free search to two or three variables. `restart_first`
  is 1 instead of 100, so that restarts happen; they are counted up to 6, where the
  limit is 4 conflicts, enough for these formulas to be decided in one `search()`.

The inputs of the reduce runs (`Checked` in the MC modules) cover formulas with no,
one and two satisfying points, the direct path, and both backdoor searches.

## 6. Fairness

Every weak fairness condition says that a thread which can run continuously is
scheduled: the workers, the threads that call the API, the timer's thread, the
threads of a search. Nothing obliges a client to call `interrupt` or the
destructor, an event to be due, or a thread to wake spuriously.

* `SearchesEnd` (only in `TerminatingSpec`): a search ends by itself sooner or
  later. SAT search is finite.
* `Decide` in `RecurringReduceSolve`: at the maximal depth, where there is no
  limit, subproblems are not *all* left UNKNOWN for ever. The code has no reason to
  answer UNKNOWN there at all; strong fairness is the weak form of that.
* In `Timer`, the clock advances only while the thread is blocked or spins: the
  thread is prompt. This matters for `LatenessBounded` alone.
* In `ParProp` the threads and callers have strong fairness: a thread that waits
  for a mutex which is free again and again gets it at last. A blocked thread may
  wake spuriously but is not obliged to, so the notifications have to suffice.
* In `PortfolioSolve` it is enough that some thread of the program goes on while one
  can: no thread can go on for ever, as searches end and events are few. Nobody has
  to send a signal.
* In `Evolution` and `Painless` every thread goes on while it can, searches end, and
  nobody has to interrupt. In `Painless` a
  worker may answer whenever it searches; a `Reducer` need not, so its end depends
  on the flags.
* In `ClauseSharing` the sharers keep their rounds and a push is completed; no
  solver has to learn or to import, and nobody has to stop.
* In `MiniSatSearch` and `Problem` one thread runs the call and goes on until it
  returns. The condition is written without `ENABLED`, which TLC cannot evaluate for
  actions that compute a whole solver: either the call is over again and again, or
  steps of its thread are taken again and again. The runs check that such a step is
  always possible (no deadlock), so this is the weak fairness of the thread. The
  interrupt is not obliged to come.
* `ClauseBuffer` has no fairness: its properties are about safety.

## 7. What is proved

Eight modules hold theorems and the lemmas they rest on. They hold for every value of
the constants: any number of threads, tasks, events, points, calls and interrupts. Every
theorem about a specification is shown in the same way: an inductive invariant holds
initially, each action keeps it (one step of the proof per action), and the property
follows from it. These invariants were model-checked on small instances before they were
proved. The assumptions are the named `ASSUME`s of the modules, which TLC evaluates in
the runs: the constants have their types, names that must differ do, a portfolio has a
solve (`PortfolioAssumption`), Painless has a worker that is no `Reducer`
(`PainlessAssumption`), the service has finitely many workers (`WorkersAssumption`, for
its counting only), the queue of clauses finitely many addresses (`BufferAssumption`), a
formula finitely many variables and a base assumption refutes what is refuted without it
(`EvolutionAssumption`).

**SolverServiceProofs**

* `TypeCorrect`: `Spec => []TypeOK`. Not inductive by itself: that `Finish`
  stores a State, and `Answer` looks up the verdict of a task, needs `WorkerInv` -
  a thread has a task exactly from the pop to the end of the packaged task, a
  State exactly from the return of its solver, and that State is the verdict of
  the task or UNKNOWN.
* `OwnershipCorrect`: `Spec => []OneOwner`, inductive together with `TypeOK` and
  `WorkerInv`. Only `solve`, the pop, `Finish` and the two operations that empty the
  queue move a task; the rest leave `HeldBy`, the queue and the futures alone.
  `AppendElems` and `TailElems` say what a push and a pop do to the elements of a
  sequence without duplicates.
* `UnknownCorrect`: `Spec => []UnknownExplained`, by `BlameInv`: a flag seen during
  a search, and an UNKNOWN on its way to a future, have their entry in `blame`. It
  holds because `Enter` clears the flag; the price is the lost interrupt of
  section 8.
* `ConservingCorrect`: `Spec => []WorkConserving`. A count: `solve()` adds a task and owes
  a wake-up, the notification pays it if a thread sleeps, a pop takes one task and one
  idle thread, a thread that goes to sleep has seen an empty queue. `StopInv` covers the
  destructor: once `_stop` is set the queue is empty and stays so, because nobody is in
  `solve()`. `IdleGains`, `IdleLoses` and `OneForOne` are the arithmetic of the finite set
  of idle threads.
* `RefinementCorrect`: `Spec => ImplementsContract`. The mapping contains a
  `CHOOSE` of the thread that holds a task; `ViewHolds` removes it, using `OneOwner`.
  Then `Solve`, `Take`, `Answer`/`GiveUp`, `Finish` and `DropQueue` are shown to be
  `Submit`, `Begin`, `Report`, `Complete` and `Cancel`, and all other steps to
  stutter.

**TimerProofs**: `LatenessCorrect`: `Spec => []LatenessBounded`, for any events and
delays. What a sleeping thread overlooks is bounded by what it sleeps for: `UntilInv`, no
event precedes the timeout by more than the difference of two delays, which holds when the
timeout is computed, since it is that of the first event, and is kept by `add`, since by
`NearInv` the timeout is no further away than one delay. With it `LateInv` survives the
clock. Also `TimerTypeCorrect`.

**ReduceSolveProofs** begins with what the two reducing solves share: `ServiceInv` (the service
says the truth or UNKNOWN, and drops a subproblem only when interrupted), `PlaceInv`
(which subproblems it has at which point of `solve()`), `NotedInv` (an answer is noted by
its callback before its future is ready), `FlowInv` (the model is a satisfying point).

* `SingleAnswerCorrect`: `SingleSpec => []SingleAnswerExplained`. The
  argument is `SingleInv`: without an interrupt the batch covers every satisfying point,
  from the backdoor through the filter to the answers.
* `NothingForgottenCorrect`: `RecurringSpec => []NothingForgotten`,
  for any depth. A base that is popped is covered by its batch, a batch by the failed
  assumptions pushed back and the ones answered UNSAT, which have no satisfying point.
* `RecurringAnswerCorrect`: `RecurringSpec => []RecurringAnswerExplained`; the loop ends with an empty stack, so by
  `NothingForgotten` an UNSAT is right unless an event of an earlier search intervened.
  The proof first failed for a problem without preprocessed variables, whose UNKNOWN is
  whatever the service says; the property now says so, and the run has such an input.

**CartesianRBSearchProofs**

* `ResultCorrect`: `Spec => []ResultExplained`, for any number of algorithms and calls. `ListInv`:
  the list of an algorithm is what its enumeration has come to and found not to
  conflict, and ends early only if the search is stopping. `CauseInv` traces what stops
  an undisturbed first call back to a strong backdoor; it needs `EventInv` to know that no
  event is older than the call.
* `PartsAreConsecutive`, `PartsPartition`: the arithmetic of `get_start_and_todo` in
  `Search`, for every length and every positive number of parts. The parts follow one
  another from zero to the length, every number below it lies in exactly one, and with at
  most as many parts as assignments none is empty. `_prop_search` makes
  no more parts than that, and needs it: its loop propagates before it asks for a
  next assignment. Uniqueness comes from `PartsAreOrdered`, existence from
  `PartsCover`, which computes the part by a second division.

**PortfolioSolveProofs**

* `CrashCorrect`: `Spec => []CrashOnlyByRace`. `WalkInv`: unless an owner interfered, the
  iterator and the handle being called are two different elements of the list of the event
  served. It is kept by a callback that unlinks itself because the iterator has moved on
  before the call, and by the attach of others because that is at the end. So a crash
  without such an interference can only come from the use of a handle its owner does not
  have yet, and the state of the crash shows it (`Assigning`). It rests on
  `ListInv` (a handle is in one list, once) and `LiveInv` (a linked handle has a live owner).
* `AnswerKept`: `Spec => []AnswerNotLost`. The hard part is that the printed answer is the
  truth when nothing disturbed the solves, although an event or an interrupt of a winner
  cuts searches short. `TruthInv`: the truth has won; or nobody has been stopped by
  anything (`Calm`); or the formula is unsatisfiable and a single reduce solve has raised its
  event and is on its way to say UNSAT (`Promises`), so that the wrong UNSAT of
  section 8 is right here.
* `ModelCorrect`: `Spec => []SatHasModel`, from `ModelInv` and `WinnerInv`: undisturbed and
  satisfiable, only a solve that said SAT ever takes the model.

**PainlessProofs**

* `AnswersCorrect`: `Spec => []AnswersExplained`, for any number of workers and calls.
  `CalmInv`: as long as every call was answered, `strategyEnding` keeps late joins out from the winning
  join until `current_index` has moved on, so what is stored belongs to this call.
  `FoundInv`: otherwise it belongs to this call or to one since the first that was
  interrupted. An earlier wording allowed a wrong answer only right after an interrupted
  call. That held in the two calls of the run and is false: a worker delayed over three
  calls still has its answer. The proof showed it, and the property says it now.
* `FirstResultCorrect`: `Spec => FirstResultStays`, an action property, from `WorkerInv`: a
  worker about to store has seen `global_ending` unset under the lock.

**ClauseBufferProofs**, for any number of threads, addresses and clauses

* `BufferSafe`: `Spec => []SafeForOneOfEach`. As long as adders do not overlap, nor
  poppers, `ListInv` says that there is a path of different live nodes from `head` to a
  node without a successor, that `tail` is the last of it or the one before, and that the
  node an adder prepares and the one a popper deletes are not on it and not the same.
  `AdderInv` and `PopperInv` say which of the values a thread has read are still true: an
  adder's view of `tail` until it links its node; a popper's view of `head`, and that
  `tail` has left the dummy for good once it was seen elsewhere. The second is why
  the popper's deletion does not leave `tail` on a dead node, although the adder that
  linked a node may not have moved `tail` yet.
* `BufferLinearizes`: `Spec => LinearizesToFifo`, an action property. `Contents` follows
  the pointers by a recursive function. `LayersExist` shows that this function exists and
  `BehindPath` that it reads off the clauses of the path; then each step of the path is a
  push, a pop or a stutter of the sequence (`MovesFifo`): the link of a node and the
  compare-and-swap of `head` are the points where the operations take effect.

**EvolutionProofs**, for any variables, formulas, configurations, samplings and caches

* `EvolutionSbsSound`: `Spec => []SbsSound`. The invariant is `Backed`: every rating that an
  instance has or the cache keeps, if it says *strong backdoor*, is true of that mask under
  the base assumption. A rating of a full search is true by counting: a mask has
  `2^|mask|` assignments (`Assignments`) and as many conflict. A sample never passes for a
  full search because it has fewer tries than that, also when their number is cut to its
  width (`SampleIsNotAll`). A rating older than the base assumption stays true, for
  propagation refutes more under it (`UnderRefutesMore`). The fitness a mutant inherits is not trusted, since it is not
  `cached`, and `Staged` says that all are when the best is asked for.
  `BestIsThere` shows that there is one, from the order of fitness values being total and
  transitive (`Fractions`, `NotBetterTransitive`).
* `EvolutionStaysInside`: `Spec => []WildIndexOnlyIfOdd`, from `Complete`: for even `q - h`
  the `h` best and the children are `q` again (`SelectedFacts`, `PairsFacts`).

That there is a best instance could not be proved at first, for `q = 1`, `h = 0`: the
population dies out, a case the model had left out and has now.

Both modules use induction over natural numbers, in the form that a set of naturals that
is not empty has a least member (`NatMin`, `NatUpTo`).

`SearchTypeCorrect`, `SingleTypeCorrect`, `RecurringTypeCorrect` and
`PainlessTypeCorrect` are the type invariants of these modules.

Only model-checked:

* all liveness properties: they rest on fairness and `ENABLED`, outside the reach of the
  prover;
* `MiniSatSearch` and `Problem`: what they say is about what loops over literals and
  clauses compute; each loop is a recursive function from solver to solver and would need
  its existence and an induction, as `Behind` of `ClauseBuffer` did, with an invariant of
  the whole data structure;
* `RefsExact`, `GivenOnce` (`ClauseSharing`) and `CountedOnce` (`ParProp`): they compare
  counters with sums over all queues, databases or tasks, written with folds over sets,
  sequences and bags, for which the library has no theorems. Of what
  `CountedOnce` rests on, `PartsPartition` proves the arithmetic.

## 8. What the checks found

Each behaviour is an exception that a passing property names: the property says under
which condition it happens, and that it happens under no other.

| Where | The code | What is said of it |
|---|---|---|
| `RecurringAnswerExplained` | an `SBS_FOUND` event of one iteration interrupts the next; its RBS_INTERRUPTED counts as a finished branch: UNSAT for a satisfiable formula | `Solve.h:30` "result of the solution" |
| `ClausesDescribeFormula` | `read_clauses` does not look at `ok` before it takes the clauses left in the solver: of `(-1)(-2 3)(1)`, contradictory while it is read, the satisfiable `(-2 3)` is handed to the solvers. A contradiction met during elimination has the same effect, and without elimination a contradictory formula that leaves no clauses counts as SAT | `Problem.h:47` "the set of clauses describing the formula"; `Solver.h:263` of `ok`: "If FALSE, the constraints are already unsatisfiable. No part of the solver state may be used!" |
| `WrongOnlyIfCut` in `SingleAnswerExplained` | an interrupted enumeration in `CartesianRBSearch` leaves an empty list, which counts as a strong backdoor: UNSAT for a satisfiable formula | `Solve.h:30` |
| `SatHasModel` in `SingleAnswerExplained` | without preprocessed variables the problem is solved by a task without a callback: SAT without a model | `Solve.h:40` |
| `UnknownExplained` | `Solver::solve` first clears the flag, so an interrupt (or a time limit) between the pop and that line is lost and the task runs on; and a timer event that passed its test of `aborted` may hit the next task, which then ends UNKNOWN and is explained by an interrupt nobody meant for it | `SolverService.h:42` "Interrupt all solvers in the service." |
| `Served` in `ThreadResponds` | of two timer events due at one instant the second is not inserted | `SolverService.h:28`: the solver "will be interrupted" after the limit |
| `AnswerNotLost`, `SatHasModel` (PortfolioSolve) | `SBS_FOUND` of a recurring solve stops the search of another solve, whose UNKNOWN wins the compare-and-swap and interrupts the recurring solve before it can say UNSAT: UNKNOWN without a signal. And an UNKNOWN that won first may store its empty model over that of the solve with the answer | `Solve.h:40` |
| `CrashOnlyByRace` | `detach()` does not wait for a callback that is running: `main()` may destroy the solve under `solve->interrupt()`, and the list is walked without its mutex. And a callback refers to a handle variable that is being initialised by the `attach` it was given to (`main.cpp:89-93`, `CartesianRBSearch.cpp:50-54`): an event served before `attach` has returned finds it uninitialised, unless the compiler builds the result in place | |
| `ProgramExits`, `NobodyWaitsForever` | `~EventHandler` and `~WorkerPool` store their flag without the mutex; a thread about to block misses it and the join hangs | |
| `AnswersExplained` (Painless) | a worker of an interrupted call that already has its answer joins the next call between its resets and its new `current_index`: the next call returns the last one's result, or UNKNOWN; so may any later call | `Solver.h:37-40` |
| `SafeForOneOfEach` | a node is deleted at once, so two poppers (sharers of two blocks, or of a ring of solves) or two adders can touch freed memory | |
| `RefsExact` | `getClauses` pops before it tests its count: a clause that arrived meanwhile is lost, and its memory | |
| `EventuallyShared` | `giveSelection` takes the shortest clauses first, and of a length that does not fit the newest: while a solver keeps learning short clauses, its longer and older ones may wait for ever, and are at last refused when their length is full. A clause with more literals than a round passes on (`shr_lit`) is never handed out | |
| `WildIndexOnlyIfOdd` | with odd `q - h` the population of `GAAlgorithm` shrinks, and parents are still drawn from `q` entries; with `q = 1`, `h = 0` nothing is left and `get_best` dereferences the end | |
| `SbsSound` | `GAAlgorithm` rates its first population before `OneRBSearch` sets the base assumption: the ratings are too low, never too high, so the answer stays right and the search starts from the wrong order | |

## 9. What is not modelled, and why

* MapleCOMSPS, LMaple and the copies of them in Painless: descendants of MiniSat with
  other heuristics (and, in the first, linear algebra by the library m4ri). They are
  third-party code the program has not changed in substance, some three quarters of the
  lines in the repository, and oracles for everything here; what they share with MiniSat is modelled there.
  As a share of all lines the models therefore cover little.
* Of MiniSat: activities, phases, the proof file, garbage collection, `implies`,
  released variables and asymmetric branching, which the program does not use or which
  change no answer; the options and `main()` of the stand-alone solvers.
* `Preprocess`: counts unit propagations to rank variables, sequentially, before any
  search; one Boolean outcome in `ReduceSolve`.
* `FitnessLimit` and `ResourceLimit`, which only end a search earlier, the
  distributions of mutation and crossover, and the order of floating-point fitness
  values beyond 62 variables.
* A cache of size zero (`LRUCache.h:29` erases the first element of an empty map) and
  the loop in `Preprocess.cpp` that expects a variable it does not take: configurations
  and inputs outside the assumptions of the models.
* `rb_search` and `verify`, which call one search and MiniSat in sequence, and the test
  infrastructure, which launches the program.
* Reading the DIMACS text, copies of a `Problem` (they lack the mapping and the solver,
  and only tests make them), `remap_variables`, which `rb_search` uses for its output.
* Logging, configuration, the command line: sequential, without state
  that a property would relate.
* The order in which the members of the service are destroyed: the model ends
  with the joins.
* An exception that leaves a thread of a portfolio: the broken promise of
  `ReduceSolve.cpp:97`, which `ReduceSolve` has, would end the program there.
* `ParProp::load_problem` (it runs before any call) and `ParProp::propagate` (one
  task whose result is that of `prop_check` in `MiniSatSearch`).

## 10. Plan

Done, in this order: `ServiceContract`, `SolverService`, `Timer`,
`ReduceSolve` with its two strategies, `CartesianRBSearch`, `Search`,
`ParProp` with the `WorkerPool`, `Painless`, `ClauseBuffer`,
`ClauseSharing`, `EventHandler` with `PortfolioSolve`, `Evolution`, `MiniSat` with
`MiniSatSearch` and `Problem`, and the proofs of section 7.

Worth adding: an abstract `PropSearch` (each assignment visited once, or the callback
said stop) that `ParProp` refines; `PainlessSolver` as a client of `ClauseSharing`,
whose sharers interrupt its workers when they add clauses.

Next theorems: `RefsExact` and `GivenOnce`, for any number of sharers, once there is a
library of facts about sums over finite sets; and of `StructureHolds`, what `CancelUntil` and
`AttachClause` preserve, one method of `MiniSat` at a time, which needs no induction over a
loop.
