------------------------ MODULE RecurringReduceSolve ------------------------
(***************************************************************************)
(* core::solve::RecurringReduceSolve: a stack of base assumptions.  Each   *)
(* iteration pops one, looks for a backdoor under it, gives the resulting  *)
(* subproblems a time limit, and pushes those that were not solved in time *)
(* one level deeper.  At max_recursion_depth there is no limit any more.   *)
(*                                                                         *)
(* With a CartesianRBSearch, whose algorithms stop each other through the  *)
(* process-wide SBS_FOUND event, that event may outlive its search.        *)
(***************************************************************************)
EXTENDS ReduceSolve

CONSTANTS MaxDepth,   \* max_recursion_depth
          MaxEvents   \* bound on the undelivered SBS_FOUND events

ASSUME RecurringAssumption ==
    /\ MaxDepth \in Nat
    /\ MaxEvents \in Nat

VARIABLES stack,   \* the pairs <<base assumption, depth>> still to be solved
          depth,   \* of the current iteration
          events,  \* SBS_FOUND events in EventHandler::_event_queue
          stale    \* history: one of them interrupted a later search

recurringVars == <<reduceVars, stack, depth, events, stale>>

RecurringTypeOK ==
    /\ ReduceTypeOK
    /\ stack \in SUBSET (Cubes \X (0..MaxDepth))
    /\ depth \in 0..MaxDepth
    /\ events \in 0..MaxEvents
    /\ stale \in BOOLEAN

RecurringInit ==
    /\ ReduceInit
    /\ stack = {<<Points, 0>>}
    /\ depth = 0
    /\ events = 0
    /\ stale = FALSE

(* Depths beyond max_recursion_depth all mean "no time limit". *)
Deeper == IF depth < MaxDepth THEN depth + 1 ELSE depth

Shared == MainShared /\ UNCHANGED <<stack, depth, events, stale>>

----------------------------------------------------------------------------
(* Faulty variants of the operations below; the properties must notice them. *)

FindRbStrongDecides ==
    /\ mpc = "rbs"
    /\ ReturnsSbs
    /\ Return(IF interrupted THEN "UNKNOWN" ELSE "UNSAT")
    /\ UNCHANGED <<serviceVars, intrVars, base, batch, dataVars, stack, depth, events, stale>>

FilterFastRequeues(deepest, next) ==
    /\ mpc = "wait"
    /\ AllSettled
    /\ Service!Forget(batch)
    /\ batch' = {}
    /\ IF interrupted THEN Return("UNKNOWN") /\ UNCHANGED stack
       ELSE IF satisfied THEN Return("SAT") /\ UNCHANGED stack
       ELSE /\ stack' = IF depth > deepest THEN stack
                        ELSE stack \cup {<<c, next>> : c \in failed}
            /\ mpc' = "iterate"
            /\ UNCHANGED result
    /\ UNCHANGED <<intrVars, base, depth, dataVars, events, stale>>

FilterFastDropsDeepest == FilterFastRequeues(MaxDepth - 1, depth + 1)

FilterFastKeepsDepth == FilterFastRequeues(MaxDepth, depth)

----------------------------------------------------------------------------
(* The loop test, the pop and _rb_search.reset(...).  The failed            *)
(* assumptions are pushed in the order in which they happened to fail, so   *)
(* the top is any of the deepest.                                           *)
PopBase ==
    /\ mpc = "iterate"
    /\ ~interrupted
    /\ \E e \in stack :
          /\ \A f \in stack : f[2] <= e[2]
          /\ base' = e[1]
          /\ depth' = e[2]
          /\ stack' = stack \ {e}
    /\ rbsInterrupted' = FALSE
    /\ mpc' = "rbs"
    /\ UNCHANGED <<serviceVars, interrupted, intr, batch, dataVars, result, events, stale>>

LoopEnds ==
    /\ mpc = "iterate"
    /\ stack = {} \/ interrupted
    /\ Return(IF interrupted THEN "UNKNOWN" ELSE "UNSAT")
    /\ UNCHANGED <<serviceVars, intrVars, base, batch, dataVars, stack, depth, events, stale>>

(* The end of an iteration that produced a State: UNKNOWN goes on with the  *)
(* loop and pushes nothing.                                                 *)
EndWithState(s) ==
    /\ IF interrupted THEN Return("UNKNOWN")
       ELSE IF s # "UNKNOWN" THEN Return(s)
       ELSE mpc' = "iterate" /\ UNCHANGED result
    /\ UNCHANGED <<intrVars, base, stack, depth, stale>>

(* find_rb() returned RBS_INTERRUPTED. *)
RecurringRbInterrupted ==
    /\ mpc = "rbs"
    /\ rbsInterrupted
    /\ EndWithState("UNKNOWN")
    /\ UNCHANGED <<serviceVars, batch, dataVars, events>>

(* find_rb() returned RBS_SBS_FOUND, which settles only the branch of the   *)
(* base assumption.  CartesianRBSearch has raised the event.                *)
RecurringRbStrong ==
    /\ mpc = "rbs"
    /\ ReturnsSbs
    /\ \/ input.rb = "one" /\ UNCHANGED events
       \/ input.rb = "cartesian" /\ events < MaxEvents /\ events' = events + 1
    /\ EndWithState(IF base = Points THEN "UNSAT" ELSE "UNKNOWN")
    /\ UNCHANGED <<serviceVars, batch, dataVars>>

RecurringRbSearch ==
    /\ mpc = "rbs"
    /\ ~rbsInterrupted
    /\ \E S \in Splits(base) : batch' = S
    /\ mpc' = "filter"
    /\ UNCHANGED <<serviceVars, intrVars, base, dataVars, result, stack, depth, events,
                   stale>>

(* The event thread runs the handler that the search attached, if one is    *)
(* attached by now: whichever search that is, it is interrupted.            *)
DeliverSbsEvent ==
    /\ events > 0
    /\ events' = events - 1
    /\ rbsInterrupted' = (rbsInterrupted \/ mpc = "rbs")
    /\ stale' = (stale \/ mpc = "rbs")
    /\ UNCHANGED <<serviceVars, interrupted, intr, mpc, base, batch, dataVars,
                   result, stack, depth>>

(* The end of _filter_fast and of the iteration. *)
FilterFastReturns ==
    /\ mpc = "wait"
    /\ AllSettled
    /\ Service!Forget(batch)
    /\ batch' = {}
    /\ IF satisfied \/ failed = {}
       THEN EndWithState(IF satisfied THEN "SAT" ELSE "UNKNOWN")
       ELSE /\ IF interrupted THEN Return("UNKNOWN") /\ UNCHANGED stack
               ELSE /\ stack' = stack \cup {<<c, Deeper>> : c \in failed}
                    /\ mpc' = "iterate"
                    /\ UNCHANGED result
            /\ UNCHANGED <<intrVars, base, depth, stale>>
    /\ UNCHANGED <<dataVars, events>>

----------------------------------------------------------------------------
RecurringMainStep ==
    \/ Shared
    \/ PopBase \/ LoopEnds
    \/ RecurringRbInterrupted \/ RecurringRbStrong \/ RecurringRbSearch
    \/ FilterFastReturns

Outer ==
    /\ InterruptFlag \/ InterruptStep \/ ServiceStep
    /\ UNCHANGED <<stack, depth, events, stale>>

RecurringNext ==
    \/ RecurringMainStep
    \/ Outer
    \/ DeliverSbsEvent
    \/ Returned /\ UNCHANGED recurringVars

RecurringSpec == RecurringInit /\ [][RecurringNext]_recurringVars

(* Subproblems without a time limit that are started again and again are   *)
(* not all left unanswered for ever.                                       *)
Decide ==
    \E c \in Cubes :
        /\ depth = MaxDepth
        /\ Service!Report(c)
        /\ answer'[c] # "UNKNOWN"
        /\ UNCHANGED <<dataVars, intrVars, mpc, base, batch, result, stack, depth, events,
                       stale>>

RecurringFairSpec ==
    /\ RecurringSpec
    /\ WF_recurringVars(RecurringMainStep)
    /\ WF_recurringVars(InterruptStep /\ UNCHANGED <<stack, depth, events, stale>>)
    /\ WF_recurringVars(ServiceStep /\ UNCHANGED <<stack, depth, events, stale>>)
    /\ SF_recurringVars(Decide)

----------------------------------------------------------------------------
(* solve() returns: every branch of the recursion is finished at            *)
(* max_recursion_depth at the latest.                                       *)
RecurringReturns == <>(mpc = "done")

(* The answer, whatever was interrupted, left unsolved or pushed back on    *)
(* the way: SAT is true and leaves a model; UNKNOWN is for an interrupted   *)
(* call, or repeats what the service said of the whole problem where the    *)
(* preprocessing left no variables; only an interrupted call throws; and    *)
(* UNSAT is false only after an event of an earlier search stopped a later  *)
(* one.                                                                     *)
RecurringAnswerExplained ==
    /\ SatHasModel
    /\ result = "SAT" => Truth(Points) = "SAT"
    /\ result = "UNSAT" => Truth(Points) = "UNSAT" \/ stale
    /\ result = "UNKNOWN" => interrupted \/ (~input.pre /\ answer[Points] = "UNKNOWN")
    /\ result = "exception" => interrupted

(* Where the points not yet ruled out are, while the loop runs. *)
Unsolved ==
    CASE mpc \in {"preprocess", "iterate"} -> {}
      [] mpc = "rbs"                       -> base
      [] mpc = "filter"                    -> UNION batch
      [] mpc \in {"submit", "wait"}        ->
             UNION {c \in batch : c \in failed \/ stage[c] # "ready"}
      [] OTHER                             -> {}

(* Nothing is forgotten: as long as the call is neither interrupted nor      *)
(* satisfied, and no event of an earlier search stopped a later one (which  *)
(* drops its base assumption, RecurringReduceSolve.cpp:45), every           *)
(* satisfying point lies under an assumption that is on the stack or in the *)
(* current batch and not yet answered.                                      *)
NothingForgotten ==
    mpc \notin {"direct", "directwait", "done"} /\ ~interrupted /\ ~satisfied /\ ~stale =>
        Sols \subseteq Unsolved \cup UNION {e[1] : e \in stack}
=============================================================================
