----------------------------- MODULE ReduceSolve -----------------------------
(***************************************************************************)
(* core::solve::ReduceSolve: what SingleReduceSolve and                    *)
(* RecurringReduceSolve share.  A formula is reduced to subproblems, each  *)
(* the formula under an assumption; they are handed to a SolverService and *)
(* their answers are put together.                                         *)
(*                                                                         *)
(* The data is abstracted to its meaning: an assumption is a cube, the set *)
(* of points (total assignments) that agree with it, and the formula is    *)
(* the set of the points that satisfy it.                                  *)
(*                                                                         *)
(* Threads: the one that called solve(), the event-handling thread, which  *)
(* calls Solve::interrupt(), and those of the service, seen through        *)
(* ServiceContract.                                                        *)
(***************************************************************************)
EXTENDS Naturals, Sequences

CONSTANTS Points,   \* total assignments
          Inputs,   \* the problems and configurations solve() may be given
          None

(* sols: the points that satisfy the formula; pre: what Preprocess::preprocess *)
(* returns for it; rb: the RBSearch of the configuration.                      *)
AllInputs == [sols : SUBSET Points, pre : BOOLEAN, rb : {"one", "cartesian"}]

ASSUME ReduceAssumption ==
    /\ Points # {}
    /\ Inputs \subseteq AllInputs
    /\ None \notin Points
    /\ None \notin {"SAT", "UNSAT", "UNKNOWN", "exception"}

Cubes == SUBSET Points

VARIABLES
    input,           \* the problem loaded and the configuration; never changes
    stage,           \* the service: how far each subproblem has come
    answer,          \* the service: the State it answered
    interrupted,     \* Solve::_interrupted
    rbsInterrupted,  \* RBSearch::_interrupted of the current _rb_search
    intr,            \* where a call of Solve::interrupt() is
    mpc,             \* where the solving thread is
    base,            \* _cur_base_assumption (the whole space in a single run)
    batch,           \* the assumptions of the current call
    noted,           \* subproblems whose callback has run
    satisfied,       \* local of _solve_final and _filter_fast
    unknown,         \* local of _solve_final and _filter_fast
    failed,          \* local of _filter_fast
    model,           \* _model
    result           \* what solve() returned

serviceVars == <<stage, answer>>
intrVars    == <<interrupted, rbsInterrupted, intr>>
dataVars    == <<input, noted, satisfied, unknown, failed, model>>
reduceVars  == <<input, stage, answer, interrupted, rbsInterrupted, intr, mpc,
                 base, batch, noted, satisfied, unknown, failed, model, result>>

States == {"SAT", "UNSAT", "UNKNOWN"}

Sols == input.sols

Truth(c) == IF c \cap Sols # {} THEN "SAT" ELSE "UNSAT"

Service == INSTANCE ServiceContract
               WITH Tasks <- Cubes, verdict <- [c \in Cubes |-> Truth(c)]

ReduceTypeOK ==
    /\ input \in Inputs
    /\ Service!ContractTypeOK
    /\ interrupted \in BOOLEAN
    /\ rbsInterrupted \in BOOLEAN
    /\ intr \in {"idle", "flagged", "cancelled"}
    /\ mpc \in {"preprocess", "direct", "directwait", "iterate", "rbs", "filter",
                "submit", "wait", "done"}
    /\ base \in Cubes
    /\ batch \in SUBSET Cubes
    /\ noted \in SUBSET Cubes
    /\ satisfied \in BOOLEAN
    /\ unknown \in BOOLEAN
    /\ failed \in SUBSET Cubes
    /\ model \in Points \cup {None}
    /\ result \in States \cup {"exception", None}

ReduceInit ==
    /\ input \in Inputs
    /\ Service!ContractInit
    /\ interrupted = FALSE
    /\ rbsInterrupted = FALSE
    /\ intr = "idle"
    /\ mpc = "preprocess"
    /\ base = Points
    /\ batch = {}
    /\ noted = {}
    /\ satisfied = FALSE
    /\ unknown = FALSE
    /\ failed = {}
    /\ model = None
    /\ result = None

Return(r) == mpc' = "done" /\ result' = r

(* The search over the values of the backdoor's variables, under the base   *)
(* assumption, whose variables it leaves out: each point of the base cube   *)
(* lies in exactly one of its cubes.                                        *)
Splits(c) ==
    {S \in SUBSET ((SUBSET c) \ {{}}) :
        /\ UNION S = c
        /\ \A a, b \in S : a # b => a \cap b = {}}

(* find_rb() returns RBS_SBS_FOUND: all assignments of a backdoor lead to a  *)
(* conflict, so the base assumption is refuted.  OneRBSearch tests for an    *)
(* interrupt first; CartesianRBSearch does not, and takes an enumeration     *)
(* that an interrupt cut short for a strong backdoor.                        *)
ReturnsSbs ==
    \/ input.rb = "one" /\ ~rbsInterrupted /\ Truth(base) = "UNSAT"
    \/ input.rb = "cartesian" /\ (rbsInterrupted \/ Truth(base) = "UNSAT")

----------------------------------------------------------------------------
(* Solve::interrupt(): the flag first, then _interrupt_impl(), which goes   *)
(* to the service and then to _rb_search.                                   *)
InterruptFlag ==
    /\ intr = "idle"
    /\ mpc # "done"
    /\ interrupted' = TRUE
    /\ intr' = "flagged"
    /\ UNCHANGED <<serviceVars, rbsInterrupted, mpc, base, batch, dataVars, result>>

InterruptService ==
    /\ intr = "flagged"
    /\ Service!Cancel
    /\ intr' = "cancelled"
    /\ UNCHANGED <<interrupted, rbsInterrupted, mpc, base, batch, dataVars, result>>

InterruptRbSearch ==
    /\ intr = "cancelled"
    /\ rbsInterrupted' = TRUE
    /\ intr' = "idle"
    /\ UNCHANGED <<serviceVars, interrupted, mpc, base, batch, dataVars, result>>

InterruptStep == InterruptService \/ InterruptRbSearch

----------------------------------------------------------------------------
(* ReduceSolve::solve: with no variables left by the preprocessing the      *)
(* whole problem is one task, solved without a callback.                    *)
Preprocess ==
    /\ mpc = "preprocess"
    /\ mpc' = IF input.pre THEN "iterate" ELSE "direct"
    /\ UNCHANGED <<serviceVars, intrVars, base, batch, dataVars, result>>

SolveDirectly ==
    /\ mpc = "direct"
    /\ Service!Submit(Points)
    /\ mpc' = "directwait"
    /\ UNCHANGED <<intrVars, base, batch, dataVars, result>>

(* .get(): the State, or the broken_promise is thrown. *)
GetDirect ==
    /\ mpc = "directwait"
    /\ stage[Points] \in {"ready", "broken"}
    /\ Return(IF stage[Points] = "ready" THEN answer[Points] ELSE "exception")
    /\ UNCHANGED <<serviceVars, intrVars, base, batch, dataVars>>

(* _filter_conflict: unit propagation drops assumptions it refutes; once     *)
(* _interrupted is set the callback stops the enumeration, so that any      *)
(* assumption may be missing.                                               *)
FilterConflict ==
    /\ mpc = "filter"
    /\ \E keep \in SUBSET batch :
          /\ interrupted \/ \A c \in batch \ keep : Truth(c) = "UNSAT"
          /\ batch' = keep
    /\ noted' = {}
    /\ satisfied' = FALSE
    /\ unknown' = FALSE
    /\ failed' = {}
    /\ mpc' = "submit"
    /\ UNCHANGED <<input, serviceVars, intrVars, base, model, result>>

(* The loop of _solver_service->solve(...) calls. *)
SubmitNext(c) ==
    /\ mpc = "submit"
    /\ c \in batch
    /\ Service!Submit(c)
    /\ UNCHANGED <<intrVars, mpc, base, batch, dataVars, result>>

SubmitEnds ==
    /\ mpc = "submit"
    /\ \A c \in batch : stage[c] # "none"
    /\ mpc' = "wait"
    /\ UNCHANGED <<serviceVars, intrVars, base, batch, dataVars, result>>

(* util::wait_for_futures. *)
AllSettled == \A c \in batch : stage[c] \in {"ready", "broken"}

----------------------------------------------------------------------------
(* The service at work, with the callback passed to it.                     *)
Begin(c) ==
    /\ Service!Begin(c)
    /\ UNCHANGED <<intrVars, mpc, base, batch, dataVars, result>>

Report(c) ==
    /\ Service!Report(c)
    /\ UNCHANGED <<intrVars, mpc, base, batch, dataVars, result>>

(* The callback of _solve_final and of _filter_fast; the latter also keeps  *)
(* the assumptions that were not solved in time.  On SAT the flag and the   *)
(* model are set before the service is interrupted.                         *)
Callback(c) ==
    /\ stage[c] = "reporting"
    /\ c \in batch \ noted
    /\ noted' = noted \cup {c}
    /\ unknown' = (unknown \/ answer[c] = "UNKNOWN")
    /\ failed' = IF answer[c] = "UNKNOWN" THEN failed \cup {c} ELSE failed
    /\ satisfied' = (satisfied \/ answer[c] = "SAT")
    /\ IF answer[c] = "SAT"
       THEN /\ \E p \in c \cap Sols : model' = p
            /\ Service!Cancel
       ELSE UNCHANGED <<model, serviceVars>>
    /\ UNCHANGED <<input, intrVars, mpc, base, batch, result>>

Complete(c) ==
    /\ c \in batch => c \in noted
    /\ Service!Complete(c)
    /\ UNCHANGED <<intrVars, mpc, base, batch, dataVars, result>>

ServiceStep == \E c \in Cubes : Begin(c) \/ Report(c) \/ Callback(c) \/ Complete(c)

----------------------------------------------------------------------------
MainShared ==
    \/ Preprocess \/ SolveDirectly \/ GetDirect \/ FilterConflict \/ SubmitEnds
    \/ \E c \in Cubes : SubmitNext(c)

(* solve() has returned and no interrupt() is in progress. *)
Returned == mpc = "done" /\ intr = "idle" /\ UNCHANGED reduceVars

----------------------------------------------------------------------------
(* "The satisfying model if any has been found" (Solve.h:40): solve()       *)
(* answers SAT with a model that satisfies the formula in hand, except when *)
(* preprocessing left no variables: the direct call of the service has no   *)
(* callback that would store one (ReduceSolve.cpp:97).                      *)
SatHasModel == result = "SAT" => model \in IF input.pre THEN Sols ELSE {None}
=============================================================================
