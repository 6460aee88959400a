--------------------------- MODULE ServiceContract ---------------------------
(***************************************************************************)
(* What a SolverService promises to the code that submits work to it       *)
(* (core/sat/solver/service/SolverService.h): the life of every task, seen *)
(* from the future that solve() returns and from the callback.  No worker, *)
(* no queue, no timer and no solver flag is visible here.                  *)
(*                                                                         *)
(* SolverService.tla is the implementation, shown to refine this module;   *)
(* ReduceSolve.tla is a client, written against it.                        *)
(***************************************************************************)
CONSTANT Tasks       \* identities of the tasks that may be submitted

Definite == {"SAT", "UNSAT"}
Answers  == Definite \cup {"UNKNOWN"}

Stages == {"none", "queued", "running", "reporting", "ready", "broken"}

VARIABLES verdict,   \* verdict[t]: what a complete search of the problem loaded finds
          stage,     \* stage[t]: how far task t has come
          answer     \* answer[t]: the State given to its callback, or "none"

contractVars == <<verdict, stage, answer>>

ContractTypeOK ==
    /\ verdict \in [Tasks -> Definite]
    /\ stage \in [Tasks -> Stages]
    /\ answer \in [Tasks -> Answers \cup {"none"}]

ContractInit ==
    /\ verdict \in [Tasks -> Definite]
    /\ stage = [t \in Tasks |-> "none"]
    /\ answer = [t \in Tasks |-> "none"]

----------------------------------------------------------------------------
(* solve(): the task is accepted and its future is pending. *)
Submit(t) ==
    /\ stage[t] = "none"
    /\ stage' = [stage EXCEPT ![t] = "queued"]
    /\ UNCHANGED answer

(* Some solver starts to work on it. *)
Begin(t) ==
    /\ stage[t] = "queued"
    /\ stage' = [stage EXCEPT ![t] = "running"]
    /\ UNCHANGED answer

(* The solver has stopped, with the truth or with UNKNOWN, and the callback  *)
(* is being executed with that State.                                       *)
Report(t) ==
    /\ stage[t] = "running"
    /\ stage' = [stage EXCEPT ![t] = "reporting"]
    /\ \E r \in {verdict[t], "UNKNOWN"} : answer' = [answer EXCEPT ![t] = r]

(* The callback has returned: the future is ready. *)
Complete(t) ==
    /\ stage[t] = "reporting"
    /\ stage' = [stage EXCEPT ![t] = "ready"]
    /\ UNCHANGED answer

(* A faulty Cancel: the tasks vanish and their futures never become ready. *)
CancelLeaks ==
    /\ stage' = [t \in Tasks |-> IF stage[t] = "queued" THEN "none" ELSE stage[t]]
    /\ UNCHANGED answer

(* interrupt() or the destructor: the tasks nobody has started are dropped   *)
(* and their futures hold a broken_promise.                                 *)
Cancel ==
    /\ stage' = [t \in Tasks |-> IF stage[t] = "queued" THEN "broken" ELSE stage[t]]
    /\ UNCHANGED answer

(* The client forgets a future that is ready and uses the identity again. *)
Forget(T) ==
    /\ \A t \in T : stage[t] \in {"none", "ready", "broken"}
    /\ stage' = [t \in Tasks |-> IF t \in T THEN "none" ELSE stage[t]]
    /\ answer' = [t \in Tasks |-> IF t \in T THEN "none" ELSE answer[t]]

ContractNext ==
    /\ \/ \E t \in Tasks : Submit(t) \/ Begin(t) \/ Report(t) \/ Complete(t)
       \/ Cancel
       \/ \E T \in SUBSET Tasks : Forget(T)
    /\ UNCHANGED verdict

ContractSpec == ContractInit /\ [][ContractNext]_contractVars

=============================================================================
