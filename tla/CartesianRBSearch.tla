-------------------------- MODULE CartesianRBSearch --------------------------
(***************************************************************************)
(* core::solve::CartesianRBSearch: several evolutionary algorithms look    *)
(* for a rho-backdoor in threads of their own, each then enumerates the    *)
(* values of its backdoor and keeps those without a conflict.  A strong    *)
(* backdoor (every value conflicts) stops all of them, through the         *)
(* process-wide event SBS_FOUND and the handler the search attached.       *)
(*                                                                         *)
(* Calls of find_rb follow each other, each on a new object, as the        *)
(* iterations of RecurringReduceSolve make them; the event queue outlives  *)
(* them.                                                                   *)
(***************************************************************************)
EXTENDS Naturals, FiniteSets

CONSTANTS Algs,            \* the algorithms of one search
          Values,          \* the assignments of a backdoor's variables
          MaxCalls,        \* bound on the calls of find_rb
          MaxInterrupts    \* bound on the owner's calls of interrupt()

ASSUME CartesianAssumption ==
    /\ Algs # {}
    /\ Values # {}
    /\ MaxCalls \in Nat \ {0}
    /\ MaxInterrupts \in Nat

VARIABLES
    satisfiable,  \* whether the formula has a model under the base assumption
    mpc,          \* where the thread that called find_rb is
    pc,           \* where each algorithm's thread is
    interrupted,  \* RBSearch::_interrupted
    sbsFound,     \* _sbs_found
    conflicting,  \* conflicting[i]: the values unit propagation refutes
    unseen,       \* unseen[i]: values prop_search has not come to yet
    kept,         \* non_conflict_assignments[i]
    attached,     \* the handler is in the event's callback list
    events,       \* SBS_FOUND events in the queue
    result,       \* what find_rb returned
    calls,        \* calls of find_rb so far
    interrupts    \* calls of interrupt() by the owner so far

vars == <<satisfiable, mpc, pc, interrupted, sbsFound, conflicting, unseen, kept,
          attached, events, result, calls, interrupts>>

None == "none"

TypeOK ==
    /\ satisfiable \in BOOLEAN
    /\ mpc \in {"idle", "create", "spawn", "join"}
    /\ pc \in [Algs -> {"off", "process", "best", "prop", "check", "done"}]
    /\ interrupted \in BOOLEAN
    /\ sbsFound \in BOOLEAN
    /\ conflicting \in [Algs -> SUBSET Values]
    /\ unseen \in [Algs -> SUBSET Values]
    /\ kept \in [Algs -> SUBSET Values]
    /\ attached \in BOOLEAN
    /\ events \in 0..MaxCalls
    /\ result \in {None, "SBS_FOUND", "INTERRUPTED", "SEARCH"}
    /\ calls \in 0..MaxCalls
    /\ interrupts \in 0..MaxInterrupts

Init ==
    /\ satisfiable = TRUE
    /\ mpc = "idle"
    /\ pc = [i \in Algs |-> "off"]
    /\ interrupted = FALSE
    /\ sbsFound = FALSE
    /\ conflicting = [i \in Algs |-> {}]
    /\ unseen = [i \in Algs |-> {}]
    /\ kept = [i \in Algs |-> {}]
    /\ attached = FALSE
    /\ events = 0
    /\ result = None
    /\ calls = 0
    /\ interrupts = 0

Goto(i, to) == pc' = [pc EXCEPT ![i] = to]

(* The values of a backdoor that conflict: all of them only if the formula  *)
(* has no model, since one of the values agrees with it.                    *)
ConflictSets == IF satisfiable THEN (SUBSET Values) \ {Values} ELSE SUBSET Values

Stopping == sbsFound \/ interrupted

----------------------------------------------------------------------------
(* Faulty variants of the operations below; the properties must notice them. *)

JoinIgnoresInterrupt ==
    /\ mpc = "join"
    /\ \A i \in Algs : pc[i] \in {"off", "done"}
    /\ mpc' = "idle"
    /\ attached' = FALSE
    /\ result' = IF sbsFound THEN "SBS_FOUND" ELSE "SEARCH"
    /\ UNCHANGED <<satisfiable, pc, interrupted, sbsFound, conflicting, unseen, kept, events,
                   calls, interrupts>>

JoinAwaitsAll ==
    /\ mpc = "join"
    /\ \A i \in Algs : pc[i] = "done"
    /\ mpc' = "idle"
    /\ attached' = FALSE
    /\ result' = IF sbsFound THEN "SBS_FOUND"
                 ELSE IF interrupted THEN "INTERRUPTED"
                 ELSE "SEARCH"
    /\ UNCHANGED <<satisfiable, pc, interrupted, sbsFound, conflicting, unseen, kept, events,
                   calls, interrupts>>

----------------------------------------------------------------------------
(* A new object, and find_rb on it. *)
FindRb ==
    /\ mpc = "idle"
    /\ calls < MaxCalls
    /\ calls' = calls + 1
    /\ mpc' = "create"
    /\ satisfiable' \in BOOLEAN
    /\ pc' = [i \in Algs |-> "off"]
    /\ interrupted' = FALSE
    /\ sbsFound' = FALSE
    /\ conflicting' = [i \in Algs |-> {}]
    /\ unseen' = [i \in Algs |-> {}]
    /\ kept' = [i \in Algs |-> {}]
    /\ result' = None
    /\ UNCHANGED <<attached, events, interrupts>>

(* The algorithms are created, then the handler is attached. *)
Attach ==
    /\ mpc = "create"
    /\ attached' = TRUE
    /\ mpc' = "spawn"
    /\ UNCHANGED <<satisfiable, pc, interrupted, sbsFound, conflicting, unseen, kept, events,
                   result, calls, interrupts>>

(* The loop that starts the threads, cut short by an interrupt. *)
Spawn(i) ==
    /\ mpc = "spawn"
    /\ ~interrupted
    /\ pc[i] = "off"
    /\ Goto(i, "process")
    /\ UNCHANGED <<satisfiable, mpc, interrupted, sbsFound, conflicting, unseen, kept, attached,
                   events, result, calls, interrupts>>

SpawnEnds ==
    /\ mpc = "spawn"
    /\ interrupted \/ \A i \in Algs : pc[i] # "off"
    /\ mpc' = "join"
    /\ UNCHANGED <<satisfiable, pc, interrupted, sbsFound, conflicting, unseen, kept, attached,
                   events, result, calls, interrupts>>

(* The joins; the handle goes out of scope and detaches; find_rb decides.   *)
Join ==
    /\ mpc = "join"
    /\ \A i \in Algs : pc[i] \in {"off", "done"}
    /\ mpc' = "idle"
    /\ attached' = FALSE
    /\ result' = IF sbsFound THEN "SBS_FOUND"
                 ELSE IF interrupted THEN "INTERRUPTED"
                 ELSE "SEARCH"
    /\ UNCHANGED <<satisfiable, pc, interrupted, sbsFound, conflicting, unseen, kept, events,
                   calls, interrupts>>

----------------------------------------------------------------------------
(* An algorithm's thread. *)

(* algorithm->process() returns, at its limit or because it was interrupted. *)
Process(i) ==
    /\ pc[i] = "process"
    /\ Goto(i, IF Stopping THEN "done" ELSE "best")
    /\ UNCHANGED <<satisfiable, mpc, interrupted, sbsFound, conflicting, unseen, kept, attached,
                   events, result, calls, interrupts>>

(* _raise_for_sbs: only the first to find one raises the event. *)
RaiseForSbs ==
    /\ sbsFound' = TRUE
    /\ events' = IF sbsFound THEN events ELSE events + 1

(* get_best(): a strong backdoor, or one whose values are to be tried. *)
BestIsSbs(i) ==
    /\ pc[i] = "best"
    /\ ~satisfiable
    /\ RaiseForSbs
    /\ Goto(i, "done")
    /\ UNCHANGED <<satisfiable, mpc, interrupted, conflicting, unseen, kept, attached, result,
                   calls, interrupts>>

BestIsWeak(i) ==
    /\ pc[i] = "best"
    /\ \E C \in ConflictSets : conflicting' = [conflicting EXCEPT ![i] = C]
    /\ unseen' = [unseen EXCEPT ![i] = Values]
    /\ Goto(i, "prop")
    /\ UNCHANGED <<satisfiable, mpc, interrupted, sbsFound, kept, attached, events, result,
                   calls, interrupts>>

(* One call of the callback of prop_search; false ends the enumeration. *)
PropCallback(i, v) ==
    /\ pc[i] = "prop"
    /\ v \in unseen[i]
    /\ kept' = [kept EXCEPT ![i] = IF v \in conflicting[i] THEN @ ELSE @ \cup {v}]
    /\ unseen' = [unseen EXCEPT ![i] = @ \ {v}]
    /\ Goto(i, IF Stopping \/ unseen[i] = {v} THEN "check" ELSE "prop")
    /\ UNCHANGED <<satisfiable, mpc, interrupted, sbsFound, conflicting, attached, events,
                   result, calls, interrupts>>

(* No assignment without a conflict was met: that counts as a strong        *)
(* backdoor.                                                                *)
CheckKept(i) ==
    /\ pc[i] = "check"
    /\ IF kept[i] = {} THEN RaiseForSbs ELSE UNCHANGED <<sbsFound, events>>
    /\ Goto(i, "done")
    /\ UNCHANGED <<satisfiable, mpc, interrupted, conflicting, unseen, kept, attached, result,
                   calls, interrupts>>

----------------------------------------------------------------------------
(* The event thread runs the callback of the handler that is attached now:  *)
(* interrupt() of that search, and detach.                                  *)
Deliver ==
    /\ events > 0
    /\ events' = events - 1
    /\ interrupted' = (interrupted \/ attached)
    /\ attached' = FALSE
    /\ UNCHANGED <<satisfiable, mpc, pc, sbsFound, conflicting, unseen, kept, result, calls,
                   interrupts>>

(* The owner of the search, from Solve::interrupt(). *)
Interrupt ==
    /\ interrupts < MaxInterrupts
    /\ mpc # "idle"
    /\ interrupts' = interrupts + 1
    /\ interrupted' = TRUE
    /\ UNCHANGED <<satisfiable, mpc, pc, sbsFound, conflicting, unseen, kept, attached, events,
                   result, calls>>

----------------------------------------------------------------------------
MainStep == Attach \/ SpawnEnds \/ Join \/ \E i \in Algs : Spawn(i)

AlgStep(i) ==
    \/ Process(i) \/ BestIsSbs(i) \/ BestIsWeak(i) \/ CheckKept(i)
    \/ \E v \in Values : PropCallback(i, v)

(* All calls have been made. *)
Over == calls = MaxCalls /\ mpc = "idle" /\ events = 0 /\ UNCHANGED vars

Next ==
    \/ FindRb \/ MainStep \/ Deliver \/ Interrupt \/ Over
    \/ \E i \in Algs : AlgStep(i)

Spec == Init /\ [][Next]_vars

(* Every thread runs; the algorithms stop at their limits. *)
FairSpec == Spec /\ WF_vars(MainStep) /\ \A i \in Algs : WF_vars(AlgStep(i))

----------------------------------------------------------------------------
(* A list that was cut short is never used: when find_rb returns a search   *)
(* space, every algorithm's list holds all the assignments without a        *)
(* conflict.  (A missing one would make an UNSAT answer wrong.)             *)
SearchIsComplete ==
    result = "SEARCH" => \A i \in Algs : kept[i] = Values \ conflicting[i]

(* An interrupt is not mistaken for a strong backdoor, nor the other way     *)
(* round, as long as the owner does not interrupt: a search that is aborted  *)
(* in a single call found a strong backdoor.                                 *)
AbortHasCause ==
    result \in {"SBS_FOUND", "INTERRUPTED"} /\ interrupts = 0 /\ calls = 1 =>
        sbsFound /\ ~satisfiable

(* find_rb returns: the algorithms, stopping each other, never wait for one *)
(* another.                                                                 *)
FindRbReturns == (mpc # "idle") ~> (mpc = "idle")

(* What find_rb says of a strong backdoor, an interrupt or a search space is *)
(* so.                                                                       *)
ResultExplained == SearchIsComplete /\ AbortHasCause
=============================================================================
