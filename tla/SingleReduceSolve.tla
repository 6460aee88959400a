-------------------------- MODULE SingleReduceSolve --------------------------
(***************************************************************************)
(* core::solve::SingleReduceSolve: one search for a backdoor, one batch of *)
(* subproblems, each solved without a time limit.                          *)
(***************************************************************************)
EXTENDS ReduceSolve

SingleInit == ReduceInit

(* _rb_search.reset(...) of _solve_impl. *)
NewRbSearch ==
    /\ mpc = "iterate"
    /\ rbsInterrupted' = FALSE
    /\ mpc' = "rbs"
    /\ UNCHANGED <<serviceVars, interrupted, intr, base, batch, dataVars, result>>

(* find_rb(), and the visit of its result. *)
SingleRbInterrupted ==
    /\ mpc = "rbs"
    /\ rbsInterrupted
    /\ Return("UNKNOWN")
    /\ UNCHANGED <<serviceVars, intrVars, base, batch, dataVars>>

SingleRbStrong ==
    /\ mpc = "rbs"
    /\ ReturnsSbs
    /\ Return("UNSAT")
    /\ UNCHANGED <<serviceVars, intrVars, base, batch, dataVars>>

SingleRbSearch ==
    /\ mpc = "rbs"
    /\ ~rbsInterrupted
    /\ \E S \in Splits(base) : batch' = S
    /\ mpc' = "filter"
    /\ UNCHANGED <<serviceVars, intrVars, base, dataVars, result>>

(* A faulty end of _solve_final, which does not ask for an interrupt. *)
SolveFinalIgnoresInterrupt ==
    /\ mpc = "wait"
    /\ AllSettled
    /\ Return(IF satisfied THEN "SAT" ELSE IF ~unknown THEN "UNSAT" ELSE "UNKNOWN")
    /\ UNCHANGED <<serviceVars, intrVars, base, batch, dataVars>>

(* The end of _solve_final. *)
SolveFinalReturns ==
    /\ mpc = "wait"
    /\ AllSettled
    /\ Return(IF satisfied THEN "SAT"
              ELSE IF ~unknown /\ ~interrupted THEN "UNSAT"
              ELSE "UNKNOWN")
    /\ UNCHANGED <<serviceVars, intrVars, base, batch, dataVars>>

SingleMainStep ==
    \/ MainShared
    \/ NewRbSearch \/ SingleRbInterrupted \/ SingleRbStrong \/ SingleRbSearch
    \/ SolveFinalReturns

SingleNext == SingleMainStep \/ InterruptFlag \/ InterruptStep \/ ServiceStep \/ Returned

SingleSpec == SingleInit /\ [][SingleNext]_reduceVars

(* The threads run and every subproblem is answered in the end. *)
SingleFairSpec ==
    /\ SingleSpec
    /\ WF_reduceVars(SingleMainStep)
    /\ WF_reduceVars(InterruptStep)
    /\ WF_reduceVars(ServiceStep)

----------------------------------------------------------------------------
(* solve() returns: no wait on a future lasts for ever, however interrupt() *)
(* and a satisfying answer interleave with the submissions.                 *)
SingleReturns == <>(mpc = "done")

(* SAT is never wrong, and UNSAT is only wrong when find_rb() of a          *)
(* CartesianRBSearch was interrupted: it takes the list that the interrupt  *)
(* cut short for a strong backdoor, and tests for the backdoor before it    *)
(* tests for the interrupt (CartesianRBSearch.cpp:18-20, 90).  Everything   *)
(* else that an interrupt truncates or drops ends UNKNOWN.                  *)
WrongOnlyIfCut ==
    result \in {"SAT", "UNSAT"} /\ result # Truth(Points) =>
        result = "UNSAT" /\ input.rb = "cartesian" /\ rbsInterrupted /\ batch = {}

(* Without an interrupt, solve() says UNKNOWN only if some subproblem was    *)
(* answered UNKNOWN, and it never throws.                                   *)
UnknownJustified ==
    result \in {"UNKNOWN", "exception"} =>
        interrupted \/ \E c \in Cubes : answer[c] = "UNKNOWN"

(* What solve() answers, interrupted or not, is explained: a verdict is the  *)
(* truth unless a cut backdoor made it UNSAT, SAT comes with its model, and  *)
(* UNKNOWN has a cause.                                                     *)
SingleAnswerExplained == WrongOnlyIfCut /\ SatHasModel /\ UnknownJustified
=============================================================================
