-------------------------- MODULE ReduceSolveProofs --------------------------
(***************************************************************************)
(* Theorems about SingleReduceSolve and RecurringReduceSolve, for every    *)
(* formula over every set of points, every split of the space that a       *)
(* backdoor may give, every recursion depth and every number of events.    *)
(* First comes what holds of every step that the two share.                *)
(***************************************************************************)
EXTENDS SingleReduceSolve, RecurringReduceSolve, TLAPS

(* The service tells the truth or UNKNOWN, and drops a subproblem only when *)
(* it was interrupted, by the owner or by a satisfying answer.              *)
ServiceInv ==
    \A c \in Cubes :
        /\ stage[c] \in {"reporting", "ready"} => answer[c] \in {Truth(c), "UNKNOWN"}
        /\ stage[c] \notin {"reporting", "ready"} => answer[c] = "none"
        /\ stage[c] = "broken" => interrupted \/ satisfied

(* Which subproblems are with the service: those of the current batch, or   *)
(* the whole problem.                                                       *)
PlaceInv ==
    /\ mpc \in {"preprocess", "direct", "iterate", "rbs", "filter"} =>
           \A c \in Cubes : stage[c] = "none"
    /\ mpc \in {"preprocess", "direct", "directwait", "iterate", "rbs"} => batch = {}
    /\ mpc = "directwait" => \A c \in Cubes : c # Points => stage[c] = "none"
    /\ mpc \in {"submit", "wait"} => \A c \in Cubes : c \notin batch => stage[c] = "none"
    /\ mpc = "done" => \A c \in Cubes : stage[c] \in {"none", "ready", "broken"}

(* The callbacks keep the flags in step with the answers: each answer is    *)
(* noted before its future is ready.                                        *)
NotedInv ==
    mpc \in {"submit", "wait"} =>
        /\ noted \subseteq batch
        /\ \A c \in noted : stage[c] \in {"reporting", "ready"}
        /\ \A c \in batch : stage[c] = "ready" => c \in noted
        /\ failed = {c \in noted : answer[c] = "UNKNOWN"}
        /\ unknown <=> failed # {}
        /\ \A c \in noted : answer[c] = "SAT" => satisfied

(* The model is that of a satisfying answer, and which way solve() takes    *)
(* depends on the preprocessing alone.                                      *)
FlowInv ==
    /\ intr # "idle" => interrupted
    /\ satisfied => model \in Sols
    /\ mpc \in {"preprocess", "direct", "directwait"} => model = None /\ ~satisfied
    /\ mpc \in {"direct", "directwait"} => ~input.pre
    /\ mpc \in {"iterate", "rbs", "filter", "submit", "wait"} => input.pre
    /\ result # None => mpc = "done"

ReduceInv == ReduceTypeOK /\ ServiceInv /\ PlaceInv /\ NotedInv /\ FlowInv

(* The steps shared by the two ways of reducing a formula. *)
SharedStep ==
    \/ MainShared \/ InterruptFlag \/ InterruptStep \/ ServiceStep
    \/ UNCHANGED reduceVars

----------------------------------------------------------------------------

(* The formula is a set of points, and a cube has a satisfying point or is  *)
(* unsatisfiable.                                                           *)
LEMMA InputFacts ==
  ASSUME ReduceTypeOK
  PROVE  /\ Sols \subseteq Points
         /\ \A c \in Cubes : Truth(c) \in {"SAT", "UNSAT"}
         /\ \A c \in Cubes : Truth(c) = "SAT" <=> c \cap Sols # {}
         /\ Points \in Cubes
  <1>1. input \in AllInputs
    BY ReduceAssumption DEF ReduceTypeOK
  <1>2. Sols \subseteq Points
    BY <1>1 DEF AllInputs, Sols
  <1> QED
    BY <1>2 DEF Truth, Cubes

(* No step changes the formula or the configuration. *)
LEMMA InputStays == SharedStep => input' = input
  BY DEF SharedStep, MainShared, Preprocess, SolveDirectly, GetDirect, FilterConflict, SubmitEnds,
         SubmitNext, InterruptFlag, InterruptStep, InterruptService, InterruptRbSearch,
         ServiceStep, Begin, Report, Callback, Complete, dataVars, reduceVars

(* The initial state. *)
LEMMA ReduceInitInv == ReduceInit => ReduceInv
  <1> SUFFICES ASSUME ReduceInit PROVE ReduceInv
    OBVIOUS
  <1> USE ReduceAssumption DEF ReduceInit, Service!ContractInit
  <1>0. input \in AllInputs
    OBVIOUS
  <1>1. \A c \in Cubes : Truth(c) \in {"SAT", "UNSAT"}
    BY DEF Truth
  <1>2. Service!ContractTypeOK
    BY <1>1 DEF Service!ContractTypeOK, Service!Definite, Service!Answers, Service!Stages
  <1>3. ReduceTypeOK
    BY <1>2 DEF ReduceTypeOK, Cubes
  <1>4. ServiceInv /\ PlaceInv /\ NotedInv /\ FlowInv
    BY DEF ServiceInv, PlaceInv, NotedInv, FlowInv
  <1> QED
    BY <1>3, <1>4 DEF ReduceInv

(* Every shared step keeps the types. *)
LEMMA SharedTypes == ReduceInv /\ SharedStep => ReduceTypeOK'
  <1> SUFFICES ASSUME ReduceInv, SharedStep PROVE ReduceTypeOK'
    OBVIOUS
  <1> USE DEF ReduceInv, serviceVars, intrVars, dataVars
  <1>0. /\ input' = input /\ (Service!ContractTypeOK)
        /\ stage \in [Cubes -> Service!Stages]
        /\ answer \in [Cubes -> Service!Answers \cup {"none"}]
    BY InputStays DEF ReduceTypeOK, Service!ContractTypeOK
  <1>a. /\ \A c \in Cubes : Truth(c) \in {"SAT", "UNSAT"}
        /\ \A c \in Cubes : Truth(c)' \in {"SAT", "UNSAT"}
        /\ Points \in Cubes
    BY <1>0, InputFacts DEF Truth, Sols
  <1>b. ASSUME /\ stage' \in [Cubes -> Service!Stages]
               /\ answer' \in [Cubes -> Service!Answers \cup {"none"}]
        PROVE  Service!ContractTypeOK'
    BY <1>a, <1>b DEF Service!ContractTypeOK, Service!Definite
  <1>1. ASSUME Preprocess \/ SubmitEnds \/ InterruptFlag \/ InterruptRbSearch PROVE ReduceTypeOK'
    BY <1>0, <1>1, <1>b DEF Preprocess, SubmitEnds, InterruptFlag, InterruptRbSearch, ReduceTypeOK
  <1>2. ASSUME GetDirect PROVE ReduceTypeOK'
    <2>1. result' \in States \cup {"exception", None}
      <3>1. stage[Points] = "ready" => answer[Points] \in {Truth(Points), "UNKNOWN"}
        BY <1>a DEF ServiceInv
      <3> QED
        BY <1>2, <1>a, <3>1 DEF GetDirect, Return, States
    <2> QED
      BY <1>0, <1>2, <1>b, <2>1 DEF GetDirect, Return, ReduceTypeOK
  <1>3. ASSUME FilterConflict PROVE ReduceTypeOK'
    BY <1>0, <1>3, <1>b DEF FilterConflict, ReduceTypeOK
  <1>4. ASSUME NEW c \in Cubes,
               (SolveDirectly /\ c = Points) \/ SubmitNext(c) \/ Begin(c) \/ Complete(c)
        PROVE  ReduceTypeOK'
    <2>1. /\ stage' \in [Cubes -> Service!Stages]
          /\ answer' = answer
      BY <1>0, <1>4 DEF SolveDirectly, SubmitNext, Begin, Complete, Service!Submit,
                        Service!Begin, Service!Complete, Service!Stages
    <2>2. Service!ContractTypeOK'
      BY <1>0, <1>b, <2>1
    <2> QED
      BY <1>0, <1>4, <2>2 DEF SolveDirectly, SubmitNext, Begin, Complete, ReduceTypeOK
  <1>5. ASSUME NEW c \in Cubes, Report(c) PROVE ReduceTypeOK'
    <2>1. /\ stage' \in [Cubes -> Service!Stages]
          /\ answer' \in [Cubes -> Service!Answers \cup {"none"}]
      BY <1>0, <1>5, <1>a DEF Report, Service!Report, Service!Stages, Service!Answers,
                              Service!Definite
    <2>2. Service!ContractTypeOK'
      BY <1>b, <2>1
    <2> QED
      BY <1>0, <1>5, <2>2 DEF Report, ReduceTypeOK
  <1>6. ASSUME Service!Cancel PROVE Service!ContractTypeOK'
    <2>1. /\ stage' \in [Cubes -> Service!Stages]
          /\ answer' = answer
      BY <1>0, <1>6 DEF Service!Cancel, Service!Stages
    <2> QED
      BY <1>0, <1>b, <2>1
  <1>7. ASSUME InterruptService PROVE ReduceTypeOK'
    BY <1>0, <1>6, <1>7 DEF InterruptService, ReduceTypeOK
  <1>8. ASSUME NEW c \in Cubes, Callback(c) PROVE ReduceTypeOK'
    <2>1. Service!ContractTypeOK'
      <3>1. CASE answer[c] = "SAT"
        BY <1>6, <1>8, <3>1 DEF Callback
      <3>2. CASE answer[c] # "SAT"
        BY <1>0, <1>8, <3>2, <1>b DEF Callback
      <3> QED
        BY <3>1, <3>2
    <2>2. model' \in Points \cup {None}
      BY <1>8 DEF Callback, ReduceTypeOK, Cubes
    <2>3. satisfied' \in BOOLEAN /\ unknown' \in BOOLEAN
      BY <1>8, Zenon DEF Callback
    <2>4. failed' \in SUBSET Cubes /\ noted' \in SUBSET Cubes
      BY <1>8 DEF Callback, ReduceTypeOK
    <2> QED
      BY <1>0, <1>8, <2>1, <2>2, <2>3, <2>4 DEF Callback, ReduceTypeOK
  <1>9. ASSUME UNCHANGED reduceVars PROVE ReduceTypeOK'
    BY <1>0, <1>9, <1>b DEF reduceVars, ReduceTypeOK
  <1> QED
    BY <1>1, <1>2, <1>3, <1>4, <1>5, <1>7, <1>8, <1>9, <1>a
       DEF SharedStep, MainShared, InterruptStep, ServiceStep

(* The service keeps its promises. *)
LEMMA SharedServiceInv == ReduceInv /\ SharedStep => ServiceInv'
  <1> SUFFICES ASSUME ReduceInv, SharedStep, NEW c \in Cubes
               PROVE  /\ stage'[c] \in {"reporting", "ready"} => answer'[c] \in {Truth(c)', "UNKNOWN"}
                      /\ stage'[c] \notin {"reporting", "ready"} => answer'[c] = "none"
                      /\ stage'[c] = "broken" => interrupted' \/ satisfied'
    BY DEF ServiceInv
  <1> DEFINE Kept == /\ stage'[c] \in {"reporting", "ready"} => answer'[c] \in {Truth(c)', "UNKNOWN"}
                     /\ stage'[c] \notin {"reporting", "ready"} => answer'[c] = "none"
                     /\ stage'[c] = "broken" => interrupted' \/ satisfied'
  <1> USE DEF ReduceInv, serviceVars, intrVars, dataVars
  <1>0. /\ Truth(c)' = Truth(c)
        /\ stage \in [Cubes -> Service!Stages]
        /\ answer \in [Cubes -> Service!Answers \cup {"none"}]
        /\ Points \in Cubes
    BY InputStays DEF Truth, Sols, ReduceTypeOK, Service!ContractTypeOK, Cubes
  <1>a. /\ stage[c] \in {"reporting", "ready"} => answer[c] \in {Truth(c), "UNKNOWN"}
        /\ stage[c] \notin {"reporting", "ready"} => answer[c] = "none"
        /\ stage[c] = "broken" => interrupted \/ satisfied
    BY DEF ServiceInv
  <1>1. CASE Preprocess \/ GetDirect \/ SubmitEnds \/ InterruptFlag \/ InterruptRbSearch
    BY <1>0, <1>a, <1>1
       DEF Preprocess, GetDirect, SubmitEnds, InterruptFlag, InterruptRbSearch
  <1>2. CASE FilterConflict
    BY <1>0, <1>a, <1>2 DEF FilterConflict, PlaceInv
  <1>3. ASSUME NEW d \in Cubes,
               (SolveDirectly /\ d = Points) \/ SubmitNext(d) \/ Begin(d) \/ Complete(d)
        PROVE  Kept
    BY <1>0, <1>a, <1>3
       DEF SolveDirectly, SubmitNext, Begin, Complete, Service!Submit, Service!Begin,
           Service!Complete, Service!Stages
  <1>4. ASSUME NEW d \in Cubes, Report(d) PROVE Kept
    BY <1>0, <1>a, <1>4 DEF Report, Service!Report
  <1>5. CASE InterruptService
    <2>1. interrupted'
      BY <1>5 DEF InterruptService, FlowInv
    <2> QED
      BY <1>0, <1>a, <1>5, <2>1 DEF InterruptService, Service!Cancel
  <1>6. ASSUME NEW d \in Cubes, Callback(d) PROVE Kept
    <2>1. CASE answer[d] = "SAT"
      BY <1>0, <1>a, <1>6, <2>1 DEF Callback, Service!Cancel
    <2>2. CASE answer[d] # "SAT"
      BY <1>0, <1>a, <1>6, <2>2 DEF Callback
    <2> QED
      BY <2>1, <2>2
  <1>7. CASE UNCHANGED reduceVars
    BY <1>0, <1>a, <1>7 DEF reduceVars
  <1> QED
    BY <1>0, <1>1, <1>2, <1>3, <1>4, <1>5, <1>6, <1>7
       DEF SharedStep, MainShared, InterruptStep, ServiceStep

(* Subproblems are with the service only while their batch is. *)
LEMMA SharedPlaceInv == ReduceInv /\ SharedStep => PlaceInv'
  <1> SUFFICES ASSUME ReduceInv, SharedStep PROVE PlaceInv'
    OBVIOUS
  <1> USE DEF ReduceInv, PlaceInv, serviceVars, intrVars, dataVars
  <1>0. /\ stage \in [Cubes -> Service!Stages]
        /\ Points \in Cubes
        /\ batch \in SUBSET Cubes
    BY DEF ReduceTypeOK, Service!ContractTypeOK, Cubes
  <1>1. CASE Preprocess \/ SubmitEnds \/ InterruptFlag \/ InterruptRbSearch
    BY <1>1 DEF Preprocess, SubmitEnds, InterruptFlag, InterruptRbSearch
  <1>2. CASE GetDirect
    BY <1>2, <1>0 DEF GetDirect, Return
  <1>3. CASE FilterConflict
    BY <1>3 DEF FilterConflict
  <1>4. CASE SolveDirectly
    BY <1>0, <1>4 DEF SolveDirectly, Service!Submit
  <1>5. ASSUME NEW c \in Cubes, SubmitNext(c) PROVE PlaceInv'
    BY <1>0, <1>5 DEF SubmitNext, Service!Submit
  <1>6. ASSUME NEW c \in Cubes, Begin(c) \/ Complete(c) PROVE PlaceInv'
    BY <1>0, <1>6 DEF Begin, Complete, Service!Begin, Service!Complete, ReduceTypeOK
  <1>7. ASSUME NEW c \in Cubes, Report(c) PROVE PlaceInv'
    BY <1>0, <1>7 DEF Report, Service!Report, ReduceTypeOK
  <1>8. CASE InterruptService
    BY <1>0, <1>8 DEF InterruptService, Service!Cancel
  <1>9. ASSUME NEW c \in Cubes, Callback(c) PROVE PlaceInv'
    <2>1. CASE answer[c] = "SAT"
      BY <1>0, <1>9, <2>1 DEF Callback, Service!Cancel
    <2>2. CASE answer[c] # "SAT"
      BY <1>0, <1>9, <2>2 DEF Callback
    <2> QED
      BY <2>1, <2>2
  <1>10. CASE UNCHANGED reduceVars
    BY <1>10 DEF reduceVars
  <1> QED
    BY <1>1, <1>2, <1>3, <1>4, <1>5, <1>6, <1>7, <1>8, <1>9, <1>10
       DEF SharedStep, MainShared, InterruptStep, ServiceStep

(* Only the callback of a subproblem notes its answer, which is final then. *)
LEMMA SharedNotedInv == ReduceInv /\ SharedStep => NotedInv'
  <1> SUFFICES ASSUME ReduceInv, SharedStep PROVE NotedInv'
    OBVIOUS
  <1> USE DEF ReduceInv, NotedInv, serviceVars, intrVars, dataVars
  <1>0. /\ stage \in [Cubes -> Service!Stages]
        /\ answer \in [Cubes -> Service!Answers \cup {"none"}]
        /\ batch \in SUBSET Cubes /\ noted \in SUBSET Cubes
        /\ unknown \in BOOLEAN /\ satisfied \in BOOLEAN
    BY DEF ReduceTypeOK, Service!ContractTypeOK
  <1>1. CASE InterruptFlag \/ InterruptRbSearch
    BY <1>1 DEF InterruptFlag, InterruptRbSearch
  <1>2. CASE Preprocess \/ GetDirect \/ SolveDirectly
    BY <1>2 DEF Preprocess, GetDirect, SolveDirectly, Return
  <1>3. CASE FilterConflict
    <2>1. noted' = {} /\ failed' = {} /\ unknown' = FALSE /\ stage' = stage
      BY <1>3 DEF FilterConflict
    <2>2. batch' \subseteq Cubes /\ \A c \in Cubes : stage[c] = "none"
      BY <1>0, <1>3 DEF FilterConflict, PlaceInv
    <2> QED
      BY <2>1, <2>2
  <1>4. CASE SubmitEnds
    BY <1>4 DEF SubmitEnds
  <1>5. ASSUME NEW c \in Cubes, SubmitNext(c) \/ Begin(c) PROVE NotedInv'
    BY <1>0, <1>5 DEF SubmitNext, Begin, Service!Submit, Service!Begin
  <1>6. ASSUME NEW c \in Cubes, Complete(c) PROVE NotedInv'
    BY <1>0, <1>6 DEF Complete, Service!Complete
  <1>7. ASSUME NEW c \in Cubes, Report(c), mpc \in {"submit", "wait"} PROVE NotedInv'
    <2>1. c \notin noted
      BY <1>7 DEF Report, Service!Report
    <2>2. \A d \in noted : stage'[d] = stage[d] /\ answer'[d] = answer[d]
      BY <1>0, <1>7, <2>1 DEF Report, Service!Report
    <2>3. \A d \in batch : stage'[d] = "ready" => stage[d] = "ready"
      BY <1>0, <1>7 DEF Report, Service!Report
    <2> QED
      BY <1>7, <2>2, <2>3 DEF Report
  <1>8. CASE InterruptService
    BY <1>0, <1>8 DEF InterruptService, Service!Cancel
  <1>9. ASSUME NEW c \in Cubes, Callback(c), mpc \in {"submit", "wait"} PROVE NotedInv'
    <2>1. /\ answer' = answer
          /\ \A d \in Cubes : stage[d] # "queued" => stage'[d] = stage[d]
          /\ \A d \in Cubes : stage'[d] = "ready" => stage[d] = "ready"
      <3>1. CASE answer[c] = "SAT"
        BY <1>0, <1>9, <3>1 DEF Callback, Service!Cancel
      <3>2. CASE answer[c] # "SAT"
        BY <1>9, <3>2 DEF Callback
      <3> QED
        BY <3>1, <3>2
    <2>2. /\ noted' = noted \cup {c} /\ batch' = batch /\ c \in batch
          /\ stage[c] = "reporting"
      BY <1>9 DEF Callback
    <2>3. /\ noted' \subseteq batch'
          /\ \A d \in noted' : stage'[d] \in {"reporting", "ready"}
          /\ \A d \in batch' : stage'[d] = "ready" => d \in noted'
      BY <1>0, <1>9, <2>1, <2>2
    <2>4. failed' = {d \in noted' : answer'[d] = "UNKNOWN"}
      BY <1>9, <2>1, <2>2 DEF Callback
    <2>5. unknown' <=> failed' # {}
      BY <1>0, <1>9 DEF Callback
    <2>6. \A d \in noted' : answer'[d] = "SAT" => satisfied'
      BY <1>0, <1>9, <2>1, <2>2 DEF Callback
    <2> QED
      BY <2>3, <2>4, <2>5, <2>6
  <1>10. ASSUME NEW c \in Cubes, Callback(c) \/ Report(c), mpc \notin {"submit", "wait"}
         PROVE  NotedInv'
    BY <1>10 DEF Callback, Report
  <1>11. CASE UNCHANGED reduceVars
    BY <1>11 DEF reduceVars
  <1> QED
    BY <1>1, <1>2, <1>3, <1>4, <1>5, <1>6, <1>7, <1>8, <1>9, <1>10, <1>11
       DEF SharedStep, MainShared, InterruptStep, ServiceStep

(* The interrupt flag comes first, and a model is that of a satisfying      *)
(* answer.                                                                  *)
LEMMA SharedFlowInv == ReduceInv /\ SharedStep => FlowInv'
  <1> SUFFICES ASSUME ReduceInv, SharedStep PROVE FlowInv'
    OBVIOUS
  <1> USE DEF ReduceInv, FlowInv, serviceVars, intrVars, dataVars
  <1>0. Sols' = Sols /\ input' = input
    BY InputStays DEF Sols
  <1>1. CASE InterruptFlag \/ InterruptStep
    BY <1>0, <1>1 DEF InterruptFlag, InterruptStep, InterruptService, InterruptRbSearch
  <1>2. CASE Preprocess \/ SolveDirectly \/ SubmitEnds
    BY <1>0, <1>2 DEF Preprocess, SolveDirectly, SubmitEnds, ReduceTypeOK, AllInputs
  <1>3. CASE GetDirect \/ FilterConflict
    BY <1>0, <1>3 DEF GetDirect, FilterConflict, Return
  <1>4. ASSUME NEW c \in Cubes, SubmitNext(c) \/ Begin(c) \/ Report(c) \/ Complete(c)
        PROVE  FlowInv'
    BY <1>0, <1>4 DEF SubmitNext, Begin, Report, Complete
  <1>5. ASSUME NEW c \in Cubes, Callback(c) PROVE FlowInv'
    <2>1. mpc \notin {"preprocess", "direct", "directwait"}
      BY <1>5 DEF Callback, PlaceInv
    <2>2. satisfied' => model' \in Sols
      BY <1>5 DEF Callback, ReduceTypeOK
    <2> QED
      BY <1>0, <1>5, <2>1, <2>2 DEF Callback
  <1>6. CASE UNCHANGED reduceVars
    BY <1>0, <1>6 DEF reduceVars
  <1> QED
    BY <1>1, <1>2, <1>3, <1>4, <1>5, <1>6 DEF SharedStep, MainShared, ServiceStep

(* The shared steps keep the shared invariant. *)
LEMMA SharedInv == ReduceInv /\ SharedStep => ReduceInv'
  BY SharedTypes, SharedServiceInv, SharedPlaceInv, SharedNotedInv, SharedFlowInv DEF ReduceInv

(* Once solve() has returned, no shared step changes what it left behind,   *)
(* and an interrupt is not taken back.                                      *)
LEMMA SharedWhenDone ==
  ASSUME ReduceInv, SharedStep, mpc = "done"
  PROVE  /\ mpc' = "done" /\ result' = result /\ model' = model
         /\ batch' = batch /\ answer' = answer
         /\ interrupted => interrupted'
         /\ rbsInterrupted => rbsInterrupted'
  <1> USE DEF serviceVars, intrVars, dataVars
  <1>1. CASE MainShared
    BY <1>1 DEF MainShared, Preprocess, SolveDirectly, GetDirect, FilterConflict, SubmitEnds,
                SubmitNext
  <1>2. CASE InterruptFlag \/ InterruptStep
    BY <1>2 DEF InterruptFlag, InterruptStep, InterruptService, InterruptRbSearch, Service!Cancel
  <1>3. CASE ServiceStep
    <2>1. \A c \in Cubes : stage[c] \notin {"queued", "running", "reporting"}
      BY DEF ReduceInv, PlaceInv
    <2>2. ASSUME NEW c \in Cubes, Begin(c) \/ Report(c) \/ Callback(c) \/ Complete(c)
          PROVE  stage[c] \in {"queued", "running", "reporting"}
      BY <2>2 DEF Begin, Report, Callback, Complete, Service!Begin, Service!Report,
                  Service!Complete
    <2> QED
      BY <1>3, <2>1, <2>2 DEF ServiceStep
  <1>4. CASE UNCHANGED reduceVars
    BY <1>4 DEF reduceVars
  <1> QED
    BY <1>1, <1>2, <1>3, <1>4 DEF SharedStep

(* The direct call gives the truth or what the service made of it: UNKNOWN, *)
(* or a broken promise after an interrupt.                                  *)
LEMMA DirectAnswer ==
  ASSUME ReduceInv, GetDirect
  PROVE  /\ result' \in {"SAT", "UNSAT"} => result' = Truth(Points)
         /\ result' = "UNKNOWN" => answer'[Points] = "UNKNOWN"
         /\ result' = "exception" => interrupted'
         /\ result' \in States \cup {"exception"}
         /\ ~input'.pre /\ model' = None
  <1> USE DEF ReduceInv, serviceVars, intrVars, dataVars
  <1>1. Points \in Cubes /\ Truth(Points) \in {"SAT", "UNSAT"}
    BY InputFacts
  <1>2. CASE stage[Points] = "ready"
    BY <1>1, <1>2 DEF GetDirect, Return, ServiceInv, FlowInv, States
  <1>3. CASE stage[Points] = "broken"
    BY <1>1, <1>3 DEF GetDirect, Return, ServiceInv, FlowInv, States
  <1> QED
    BY <1>2, <1>3 DEF GetDirect

----------------------------------------------------------------------------
(* SingleReduceSolve. *)

(* Only the owner interrupts the search for a backdoor; the batch covers    *)
(* the satisfying points unless an interrupt cut the enumeration short.     *)
SingleInv ==
    /\ base = Points
    /\ rbsInterrupted => interrupted
    /\ mpc = "filter" => Sols \subseteq UNION batch
    /\ mpc \in {"submit", "wait"} /\ ~interrupted => Sols \subseteq UNION batch

(* The initial state. *)
LEMMA SingleInitInv == SingleInit => ReduceInv /\ SingleInv /\ SingleAnswerExplained
  <1> SUFFICES ASSUME SingleInit PROVE ReduceInv /\ SingleInv /\ SingleAnswerExplained
    OBVIOUS
  <1>1. ReduceInv
    BY ReduceInitInv DEF SingleInit
  <1>2. SingleInv /\ SingleAnswerExplained
    BY ReduceAssumption DEF SingleInit, ReduceInit, SingleInv, SingleAnswerExplained, WrongOnlyIfCut,
                            SatHasModel, UnknownJustified
  <1> QED
    BY <1>1, <1>2

(* The steps of SingleReduceSolve's own keep the shared invariant. *)
LEMMA SingleReduceInv == ReduceInv /\ SingleInv /\ [SingleNext]_reduceVars => ReduceInv'
  <1> SUFFICES ASSUME ReduceInv, SingleInv, [SingleNext]_reduceVars PROVE ReduceInv'
    OBVIOUS
  <1> USE DEF serviceVars, intrVars, dataVars
  <1>1. CASE SharedStep \/ Returned
    BY <1>1, SharedInv DEF Returned, SharedStep
  <1> SUFFICES ASSUME NewRbSearch \/ SingleRbInterrupted \/ SingleRbStrong \/ SingleRbSearch
                         \/ SolveFinalReturns
               PROVE  ReduceInv'
    BY <1>1 DEF SingleNext, SingleMainStep, SharedStep, reduceVars
  <1>2. /\ input' = input /\ stage' = stage /\ answer' = answer /\ noted' = noted
        /\ satisfied' = satisfied /\ unknown' = unknown /\ failed' = failed /\ model' = model
        /\ interrupted' = interrupted /\ intr' = intr /\ base' = base
        /\ mpc \in {"iterate", "rbs", "wait"} /\ mpc' \in {"rbs", "filter", "done"}
    BY DEF NewRbSearch, SingleRbInterrupted, SingleRbStrong, SingleRbSearch, SolveFinalReturns, Return
  <1>3. ReduceTypeOK'
    <2>1. Service!ContractTypeOK'
      BY <1>2 DEF ReduceInv, ReduceTypeOK, Service!ContractTypeOK, Truth, Sols
    <2>2. batch' \in SUBSET Cubes
      BY DEF NewRbSearch, SingleRbInterrupted, SingleRbStrong, SingleRbSearch, SolveFinalReturns,
             Splits, ReduceInv, ReduceTypeOK, Cubes
    <2>3. rbsInterrupted' \in BOOLEAN /\ result' \in States \cup {"exception", None}
      BY DEF NewRbSearch, SingleRbInterrupted, SingleRbStrong, SingleRbSearch, SolveFinalReturns,
             Return, States, ReduceInv, ReduceTypeOK
    <2> QED
      BY <1>2, <2>1, <2>2, <2>3 DEF ReduceInv, ReduceTypeOK
  <1>4. ServiceInv'
    BY <1>2 DEF ReduceInv, ServiceInv, Truth, Sols
  <1>5. PlaceInv'
    <2>1. CASE NewRbSearch \/ SingleRbInterrupted \/ SingleRbStrong
      BY <2>1 DEF NewRbSearch, SingleRbInterrupted, SingleRbStrong, Return, ReduceInv, PlaceInv
    <2>2. CASE SingleRbSearch
      BY <2>2 DEF SingleRbSearch, ReduceInv, PlaceInv
    <2>3. CASE SolveFinalReturns
      <3>1. \A c \in Cubes : stage[c] \in {"none", "ready", "broken"}
        BY <2>3 DEF SolveFinalReturns, AllSettled, ReduceInv, PlaceInv
      <3> QED
        BY <2>3, <3>1 DEF SolveFinalReturns, Return, PlaceInv
    <2> QED
      BY <2>1, <2>2, <2>3
  <1>6. NotedInv'
    BY <1>2 DEF NotedInv
  <1>7. FlowInv'
    BY <1>2 DEF NewRbSearch, SingleRbInterrupted, SingleRbStrong, SingleRbSearch, SolveFinalReturns,
                Return, ReduceInv, FlowInv, Sols
  <1> QED
    BY <1>3, <1>4, <1>5, <1>6, <1>7 DEF ReduceInv

(* The batch keeps covering the satisfying points. *)
LEMMA SingleStep == ReduceInv /\ SingleInv /\ [SingleNext]_reduceVars => SingleInv'
  <1> SUFFICES ASSUME ReduceInv, SingleInv, [SingleNext]_reduceVars PROVE SingleInv'
    OBVIOUS
  <1> USE DEF SingleInv, serviceVars, intrVars, dataVars
  <1>1. CASE NewRbSearch \/ SingleRbInterrupted \/ SingleRbStrong \/ SolveFinalReturns
    BY <1>1 DEF NewRbSearch, SingleRbInterrupted, SingleRbStrong, SolveFinalReturns, Return, Sols
  <1>2. CASE SingleRbSearch
    BY <1>2, InputFacts DEF SingleRbSearch, Splits, Sols, ReduceInv
  <1>3. CASE FilterConflict
    <2>1. ASSUME ~interrupted, NEW p \in Sols PROVE p \in UNION batch'
      <3>1. PICK c \in batch : p \in c
        BY <1>3 DEF FilterConflict
      <3>2. Truth(c) = "SAT"
        BY <2>1, <3>1 DEF Truth
      <3>3. c \in batch'
        BY <1>3, <2>1, <3>1, <3>2 DEF FilterConflict
      <3> QED
        BY <3>1, <3>3
    <2> QED
      BY <1>3, <2>1 DEF FilterConflict, Sols
  <1>4. CASE Preprocess \/ SolveDirectly \/ GetDirect \/ SubmitEnds
    BY <1>4 DEF Preprocess, SolveDirectly, GetDirect, SubmitEnds, Return, Sols
  <1>5. ASSUME NEW c \in Cubes,
               SubmitNext(c) \/ Begin(c) \/ Report(c) \/ Callback(c) \/ Complete(c)
        PROVE  SingleInv'
    BY <1>5 DEF SubmitNext, Begin, Report, Callback, Complete, Sols
  <1>6. CASE InterruptFlag \/ InterruptStep
    BY <1>6 DEF InterruptFlag, InterruptStep, InterruptService, InterruptRbSearch, Sols,
                ReduceInv, FlowInv
  <1>7. CASE UNCHANGED reduceVars
    BY <1>7 DEF reduceVars, Sols
  <1> QED
    BY <1>1, <1>2, <1>3, <1>4, <1>5, <1>6, <1>7
       DEF SingleNext, SingleMainStep, MainShared, ServiceStep, Returned, reduceVars

(* Whatever solve() returns with is explained when it returns. *)
LEMMA SingleReturnsExplained ==
  ASSUME ReduceInv, SingleInv, [SingleNext]_reduceVars, mpc # "done"
  PROVE  SingleAnswerExplained'
  <1> USE DEF serviceVars, intrVars, dataVars
  <1> DEFINE Explained == SingleAnswerExplained'
  <1>0. /\ Sols \subseteq Points /\ Truth(Points) \in {"SAT", "UNSAT"}
        /\ \A c \in Cubes : Truth(c) = "SAT" <=> c \cap Sols # {}
        /\ Points \in Cubes /\ result = None
    BY InputFacts DEF ReduceInv, FlowInv
  <1>a. ASSUME result' = None PROVE Explained
    BY <1>a, ReduceAssumption DEF SingleAnswerExplained, WrongOnlyIfCut, SatHasModel, UnknownJustified
  <1>1. CASE GetDirect
    <2>1. input' = input /\ Truth(Points)' = Truth(Points)
      BY <1>1 DEF GetDirect, Truth, Sols
    <2> QED
      BY <1>0, <1>1, <2>1, DirectAnswer
         DEF SingleAnswerExplained, WrongOnlyIfCut, SatHasModel, UnknownJustified
  <1>2. CASE SingleRbInterrupted
    <2>1. result' = "UNKNOWN" /\ interrupted'
      BY <1>2 DEF SingleRbInterrupted, Return, SingleInv
    <2> QED
      BY <2>1 DEF SingleAnswerExplained, WrongOnlyIfCut, SatHasModel, UnknownJustified
  <1>3. CASE SingleRbStrong
    <2>1. /\ result' = "UNSAT" /\ input' = input /\ rbsInterrupted' = rbsInterrupted
          /\ batch' = {} /\ Truth(Points)' = Truth(Points)
      BY <1>3 DEF SingleRbStrong, Return, ReduceInv, PlaceInv, Truth, Sols
    <2>2. Truth(Points) # "UNSAT" => input.rb = "cartesian" /\ rbsInterrupted
      BY <1>3 DEF SingleRbStrong, ReturnsSbs, SingleInv
    <2> QED
      BY <2>1, <2>2 DEF SingleAnswerExplained, WrongOnlyIfCut, SatHasModel, UnknownJustified
  <1>4. CASE SolveFinalReturns
    <2>0. /\ input' = input /\ model' = model /\ interrupted' = interrupted /\ answer' = answer
          /\ Truth(Points)' = Truth(Points) /\ Sols' = Sols /\ input.pre /\ mpc = "wait"
      BY <1>4 DEF SolveFinalReturns, ReduceInv, FlowInv, Truth, Sols
    <2>1. CASE satisfied
      <3>1. model \in Sols /\ Truth(Points) = "SAT" /\ result' = "SAT"
        BY <1>0, <1>4, <2>1 DEF ReduceInv, FlowInv, SolveFinalReturns, Return
      <3> QED
        BY <2>0, <3>1 DEF SingleAnswerExplained, WrongOnlyIfCut, SatHasModel, UnknownJustified
    <2>2. CASE ~satisfied /\ ~unknown /\ ~interrupted
      <3>1. ASSUME NEW c \in batch PROVE c \cap Sols = {}
        <4>1. c \in Cubes /\ stage[c] = "ready"
          BY <1>4, <2>2 DEF ReduceInv, ReduceTypeOK, ServiceInv, SolveFinalReturns, AllSettled
        <4>2. c \in noted /\ answer[c] \in {Truth(c), "UNKNOWN"}
          BY <2>0, <4>1 DEF ReduceInv, NotedInv, ServiceInv
        <4>3. answer[c] # "UNKNOWN" /\ answer[c] # "SAT"
          BY <2>0, <2>2, <4>2 DEF ReduceInv, NotedInv
        <4> QED
          BY <1>0, <4>1, <4>2, <4>3
      <3>2. Sols = {}
        BY <2>0, <2>2, <3>1 DEF SingleInv
      <3>3. Truth(Points) = "UNSAT" /\ result' = "UNSAT"
        BY <1>4, <2>2, <3>2 DEF Truth, SolveFinalReturns, Return
      <3> QED
        BY <2>0, <3>3 DEF SingleAnswerExplained, WrongOnlyIfCut, SatHasModel, UnknownJustified
    <2>3. CASE ~satisfied /\ (unknown \/ interrupted)
      <3>1. result' = "UNKNOWN"
        BY <1>4, <2>3 DEF SolveFinalReturns, Return
      <3>2. unknown => \E c \in Cubes : answer[c] = "UNKNOWN"
        BY <2>0 DEF ReduceInv, ReduceTypeOK, NotedInv
      <3> QED
        BY <2>0, <2>3, <3>1, <3>2
           DEF SingleAnswerExplained, WrongOnlyIfCut, SatHasModel, UnknownJustified
    <2> QED
      BY <2>1, <2>2, <2>3
  <1>5. CASE NewRbSearch \/ SingleRbSearch \/ InterruptFlag \/ InterruptStep \/ UNCHANGED reduceVars
    BY <1>0, <1>5, <1>a DEF NewRbSearch, SingleRbSearch, InterruptFlag, InterruptStep,
                            InterruptService, InterruptRbSearch, reduceVars
  <1>6. CASE Preprocess \/ SolveDirectly \/ FilterConflict \/ SubmitEnds
    BY <1>0, <1>6, <1>a DEF Preprocess, SolveDirectly, FilterConflict, SubmitEnds
  <1>7. ASSUME NEW c \in Cubes,
               SubmitNext(c) \/ Begin(c) \/ Report(c) \/ Callback(c) \/ Complete(c)
        PROVE  Explained
    BY <1>0, <1>7, <1>a DEF SubmitNext, Begin, Report, Callback, Complete
  <1> QED
    BY <1>1, <1>2, <1>3, <1>4, <1>5, <1>6, <1>7
       DEF SingleNext, SingleMainStep, MainShared, ServiceStep, Returned, reduceVars

(* A late interrupt or a late step of the service does not make the answer  *)
(* inexplicable.                                                            *)
LEMMA SingleStaysExplained ==
  ASSUME ReduceInv, SingleAnswerExplained, [SingleNext]_reduceVars, mpc = "done"
  PROVE  SingleAnswerExplained'
  <1>1. SharedStep
    BY DEF SingleNext, SingleMainStep, NewRbSearch, SingleRbInterrupted, SingleRbStrong, SingleRbSearch,
           SolveFinalReturns, Returned, SharedStep, reduceVars
  <1>2. /\ result' = result /\ model' = model /\ batch' = batch /\ answer' = answer
        /\ input' = input
        /\ interrupted => interrupted'
        /\ rbsInterrupted => rbsInterrupted'
    BY <1>1, SharedWhenDone, InputStays
  <1>3. Truth(Points)' = Truth(Points) /\ Sols' = Sols
    BY <1>2 DEF Truth, Sols
  <1> QED
    BY <1>2, <1>3 DEF SingleAnswerExplained, WrongOnlyIfCut, SatHasModel, UnknownJustified

----------------------------------------------------------------------------

(* Every variable of the reduction keeps its type: in particular solve()     *)
(* returns one of the three States, or the exception of a broken promise.   *)
THEOREM SingleTypeCorrect == SingleSpec => []ReduceTypeOK
  <1>1. SingleInit => ReduceInv /\ SingleInv
    BY SingleInitInv
  <1>2. ReduceInv /\ SingleInv /\ [SingleNext]_reduceVars => (ReduceInv /\ SingleInv)'
    BY SingleReduceInv, SingleStep
  <1>3. ReduceInv => ReduceTypeOK
    BY DEF ReduceInv
  <1> QED
    BY <1>1, <1>2, <1>3, PTL DEF SingleSpec

(* Whatever solve() answers is explained, however interrupt(), the service  *)
(* and the callbacks interleave: a verdict is the truth unless the          *)
(* interrupt cut the search of a CartesianRBSearch, SAT comes with a        *)
(* satisfying model, and UNKNOWN has a cause.                               *)
THEOREM SingleAnswerCorrect == SingleSpec => []SingleAnswerExplained
  <1> DEFINE IInv == ReduceInv /\ SingleInv /\ SingleAnswerExplained
  <1>1. SingleInit => IInv
    BY SingleInitInv
  <1>2. IInv /\ [SingleNext]_reduceVars => IInv'
    BY SingleReduceInv, SingleStep, SingleReturnsExplained, SingleStaysExplained
  <1> QED
    BY <1>1, <1>2, PTL DEF SingleSpec

----------------------------------------------------------------------------
(* RecurringReduceSolve. *)

(* Steps that belong to this way of reducing alone. *)
OwnStep ==
    \/ PopBase \/ LoopEnds \/ RecurringRbInterrupted \/ RecurringRbStrong \/ RecurringRbSearch
    \/ FilterFastReturns \/ DeliverSbsEvent

(* The search of this iteration is interrupted by the owner or by an event  *)
(* of an earlier search, and a satisfying answer ends the loop.             *)
RecurringInv ==
    /\ stack \in SUBSET (Cubes \X (0..MaxDepth))
    /\ depth \in 0..MaxDepth
    /\ events \in 0..MaxEvents
    /\ stale \in BOOLEAN
    /\ rbsInterrupted => interrupted \/ stale
    /\ mpc \in {"iterate", "rbs", "filter"} /\ satisfied => interrupted

----------------------------------------------------------------------------

(* Every step is one of the shared ones or one of this module's. *)
LEMMA StepKinds ==
  ASSUME [RecurringNext]_recurringVars
  PROVE  OwnStep \/ (SharedStep /\ UNCHANGED <<stack, depth, events, stale>>)
  BY DEF RecurringNext, RecurringMainStep, Shared, Outer, OwnStep, SharedStep, recurringVars

(* The initial state. *)
LEMMA RecurringInitInv == RecurringInit => ReduceInv /\ RecurringInv /\ NothingForgotten /\ RecurringAnswerExplained
  <1> SUFFICES ASSUME RecurringInit PROVE ReduceInv /\ RecurringInv /\ NothingForgotten /\ RecurringAnswerExplained
    OBVIOUS
  <1>1. ReduceInv
    BY ReduceInitInv DEF RecurringInit
  <1>2. RecurringInv
    <2>1. stack \in SUBSET (Cubes \X (0..MaxDepth))
      BY RecurringAssumption DEF RecurringInit, Cubes
    <2>2. depth \in 0..MaxDepth /\ events \in 0..MaxEvents
      BY RecurringAssumption DEF RecurringInit
    <2> QED
      BY <2>1, <2>2 DEF RecurringInit, ReduceInit, RecurringInv
  <1>3. NothingForgotten
    <2>1. Sols \subseteq Points
      BY <1>1, InputFacts DEF ReduceInv
    <2>2. <<Points, 0>> \in stack
      BY DEF RecurringInit
    <2> QED
      BY <2>1, <2>2 DEF NothingForgotten
  <1>4. RecurringAnswerExplained
    BY ReduceAssumption DEF RecurringInit, ReduceInit, RecurringAnswerExplained, SatHasModel
  <1> QED
    BY <1>1, <1>2, <1>3, <1>4

(* What the steps of this module leave alone. *)
LEMMA OwnFrame ==
  OwnStep => /\ input' = input /\ noted' = noted /\ satisfied' = satisfied
             /\ unknown' = unknown /\ failed' = failed /\ model' = model
             /\ interrupted' = interrupted /\ intr' = intr
  BY DEF OwnStep, PopBase, LoopEnds, RecurringRbInterrupted, RecurringRbStrong, RecurringRbSearch,
         FilterFastReturns, DeliverSbsEvent, EndWithState, dataVars, intrVars

(* An event that stopped a later search is not forgotten. *)
LEMMA StaleStays == OwnStep /\ stale => stale'
  <1> SUFFICES ASSUME OwnStep, stale PROVE stale'
    OBVIOUS
  <1>1. CASE DeliverSbsEvent
    BY <1>1, Zenon DEF DeliverSbsEvent
  <1>2. CASE PopBase \/ LoopEnds \/ RecurringRbSearch
    BY <1>2 DEF PopBase, LoopEnds, RecurringRbSearch
  <1>3. CASE RecurringRbInterrupted \/ RecurringRbStrong \/ FilterFastReturns
    BY <1>3 DEF RecurringRbInterrupted, RecurringRbStrong, FilterFastReturns, EndWithState
  <1> QED
    BY <1>1, <1>2, <1>3 DEF OwnStep

(* They keep the shared invariant. *)
LEMMA RecurringReduceInv == ReduceInv /\ RecurringInv /\ OwnStep => ReduceInv'
  <1> SUFFICES ASSUME ReduceInv, RecurringInv, OwnStep PROVE ReduceInv'
    OBVIOUS
  <1> USE DEF serviceVars, intrVars, dataVars
  <1>0. /\ input' = input /\ noted' = noted /\ satisfied' = satisfied
        /\ unknown' = unknown /\ failed' = failed /\ model' = model
        /\ interrupted' = interrupted /\ intr' = intr
    BY OwnFrame
  <1>a. /\ stage \in [Cubes -> Service!Stages]
        /\ answer \in [Cubes -> Service!Answers \cup {"none"}]
        /\ \A c \in Cubes : Truth(c)' = Truth(c)
        /\ Sols' = Sols
    BY <1>0 DEF ReduceInv, ReduceTypeOK, Service!ContractTypeOK, Truth, Sols
  <1>b. /\ result' \in States \cup {"exception", None}
        /\ result' # None => mpc' = "done"
        /\ mpc' \in {"preprocess", "direct", "directwait", "iterate", "rbs", "filter",
                     "submit", "wait", "done"}
        /\ mpc' \in {"direct", "directwait", "submit", "wait"} => mpc' = mpc
        /\ rbsInterrupted' \in BOOLEAN
    <2>1. CASE PopBase \/ LoopEnds \/ RecurringRbSearch \/ DeliverSbsEvent
      BY <2>1 DEF PopBase, LoopEnds, RecurringRbSearch, DeliverSbsEvent, Return, States, ReduceInv,
                  ReduceTypeOK, FlowInv
    <2>2. CASE RecurringRbInterrupted \/ RecurringRbStrong
      BY <2>2 DEF RecurringRbInterrupted, RecurringRbStrong, EndWithState, Return, States, ReduceInv,
                  ReduceTypeOK, FlowInv
    <2>3. CASE FilterFastReturns
      BY <2>3 DEF FilterFastReturns, EndWithState, Return, States, ReduceInv, ReduceTypeOK, FlowInv
    <2> QED
      BY <2>1, <2>2, <2>3 DEF OwnStep
  <1>1. CASE FilterFastReturns
    <2>1. /\ stage' = [c \in Cubes |-> IF c \in batch THEN "none" ELSE stage[c]]
          /\ answer' = [c \in Cubes |-> IF c \in batch THEN "none" ELSE answer[c]]
          /\ batch' = {} /\ base' = base /\ mpc = "wait" /\ mpc' \in {"iterate", "done"}
      BY <1>1 DEF FilterFastReturns, EndWithState, Return, Service!Forget
    <2>2. \A c \in Cubes : stage'[c] = "none" /\ answer'[c] = "none"
      <3>1. \A c \in Cubes : c \notin batch => stage[c] = "none" /\ answer[c] = "none"
        BY <2>1 DEF ReduceInv, PlaceInv, ServiceInv
      <3> QED
        BY <2>1, <3>1
    <2>3. ReduceTypeOK'
      <3>1. /\ stage' \in [Cubes -> Service!Stages]
            /\ answer' \in [Cubes -> Service!Answers \cup {"none"}]
        BY <1>a, <2>1 DEF Service!Stages, Service!Answers
      <3>2. Service!ContractTypeOK'
        BY <1>a, <3>1 DEF ReduceInv, ReduceTypeOK, Service!ContractTypeOK, Service!Definite, Truth
      <3> QED
        BY <1>0, <1>b, <2>1, <3>2 DEF ReduceInv, ReduceTypeOK
    <2>4. ServiceInv' /\ PlaceInv' /\ NotedInv'
      BY <2>1, <2>2 DEF ServiceInv, PlaceInv, NotedInv
    <2>5. FlowInv'
      BY <1>0, <1>a, <1>b, <2>1 DEF ReduceInv, FlowInv
    <2> QED
      BY <2>3, <2>4, <2>5 DEF ReduceInv
  <1>2. CASE ~FilterFastReturns
    <2>1. /\ stage' = stage /\ answer' = answer
          /\ batch' \in SUBSET Cubes /\ base' \in Cubes
      <3>1. CASE PopBase
        BY <3>1 DEF PopBase, ReduceInv, ReduceTypeOK, RecurringInv
      <3>2. CASE RecurringRbSearch
        BY <3>2 DEF RecurringRbSearch, Splits, ReduceInv, ReduceTypeOK, Cubes
      <3>3. CASE LoopEnds \/ RecurringRbInterrupted \/ RecurringRbStrong \/ DeliverSbsEvent
        BY <3>3 DEF LoopEnds, RecurringRbInterrupted, RecurringRbStrong, DeliverSbsEvent, EndWithState,
                    ReduceInv, ReduceTypeOK
      <3> QED
        BY <1>2, <3>1, <3>2, <3>3 DEF OwnStep
    <2>2. /\ mpc' # mpc => mpc \in {"iterate", "rbs"}
          /\ mpc' # mpc => mpc' \in {"iterate", "rbs", "filter", "done"}
          /\ batch' # batch => mpc' = "filter"
          /\ mpc' = mpc => batch' = batch
      BY <1>2 DEF OwnStep, PopBase, LoopEnds, RecurringRbInterrupted, RecurringRbStrong, RecurringRbSearch,
                  DeliverSbsEvent, EndWithState, Return
    <2>3. ReduceTypeOK'
      <3>1. Service!ContractTypeOK'
        BY <1>a, <2>1 DEF ReduceInv, ReduceTypeOK, Service!ContractTypeOK, Truth
      <3> QED
        BY <1>0, <1>b, <2>1, <3>1 DEF ReduceInv, ReduceTypeOK
    <2>4. ServiceInv'
      BY <1>0, <1>a, <2>1 DEF ReduceInv, ServiceInv
    <2>5. PlaceInv'
      BY <2>1, <2>2 DEF ReduceInv, PlaceInv
    <2>6. NotedInv'
      BY <1>0, <1>b, <2>1, <2>2 DEF ReduceInv, NotedInv
    <2>7. FlowInv'
      BY <1>0, <1>a, <1>b, <2>2 DEF ReduceInv, FlowInv
    <2> QED
      BY <2>3, <2>4, <2>5, <2>6, <2>7 DEF ReduceInv
  <1> QED
    BY <1>1, <1>2

(* The loop's own bookkeeping. *)
LEMMA RecurringStep == ReduceInv /\ RecurringInv /\ [RecurringNext]_recurringVars => RecurringInv'
  <1> SUFFICES ASSUME ReduceInv, RecurringInv, [RecurringNext]_recurringVars PROVE RecurringInv'
    OBVIOUS
  <1> USE RecurringAssumption DEF serviceVars, intrVars, dataVars
  <1>1. ASSUME SharedStep, UNCHANGED <<stack, depth, events, stale>> PROVE RecurringInv'
    <2>1. rbsInterrupted' => interrupted' \/ stale'
      BY <1>1 DEF SharedStep, MainShared, Preprocess, SolveDirectly, GetDirect, FilterConflict,
                  SubmitEnds, SubmitNext, InterruptFlag, InterruptStep, InterruptService,
                  InterruptRbSearch, ServiceStep, Begin, Report, Callback, Complete, reduceVars,
                  RecurringInv, ReduceInv, FlowInv
    <2>2. mpc' \in {"iterate", "rbs", "filter"} /\ satisfied' => interrupted'
      <3>1. CASE MainShared \/ UNCHANGED reduceVars
        BY <3>1 DEF MainShared, Preprocess, SolveDirectly, GetDirect, FilterConflict, SubmitEnds,
                    SubmitNext, reduceVars, Return, RecurringInv, ReduceInv, FlowInv
      <3>2. CASE InterruptFlag \/ InterruptStep
        BY <3>2 DEF InterruptFlag, InterruptStep, InterruptService, InterruptRbSearch,
                    RecurringInv
      <3>3. ASSUME NEW c \in Cubes, Begin(c) \/ Report(c) \/ Complete(c)
            PROVE  mpc' \in {"iterate", "rbs", "filter"} /\ satisfied' => interrupted'
        BY <3>3 DEF Begin, Report, Complete, RecurringInv
      <3>4. ASSUME NEW c \in Cubes, Callback(c) PROVE mpc' \notin {"iterate", "rbs", "filter"}
        BY <3>4 DEF Callback, ReduceInv, PlaceInv
      <3> QED
        BY <1>1, <3>1, <3>2, <3>3, <3>4 DEF SharedStep, ServiceStep
    <2> QED
      BY <1>1, <2>1, <2>2 DEF RecurringInv
  <1>2. CASE PopBase
    <2>1. PICK e \in stack : base' = e[1] /\ depth' = e[2] /\ stack' = stack \ {e}
      BY <1>2 DEF PopBase
    <2> QED
      BY <1>2, <2>1 DEF PopBase, RecurringInv
  <1>3. CASE LoopEnds \/ RecurringRbInterrupted \/ RecurringRbSearch
    BY <1>3 DEF LoopEnds, RecurringRbInterrupted, RecurringRbSearch, EndWithState, Return, RecurringInv
  <1>4. CASE RecurringRbStrong
    <2>1. events' \in 0..MaxEvents
      BY <1>4 DEF RecurringRbStrong, RecurringInv
    <2> QED
      BY <1>4, <2>1 DEF RecurringRbStrong, EndWithState, Return, RecurringInv
  <1>5. CASE DeliverSbsEvent
    <2>1. events' \in 0..MaxEvents
      BY <1>5 DEF DeliverSbsEvent, RecurringInv
    <2>2. stale' \in BOOLEAN
      BY <1>5, Zenon DEF DeliverSbsEvent
    <2> QED
      BY <1>5, <2>1, <2>2 DEF DeliverSbsEvent, RecurringInv
  <1>6. CASE FilterFastReturns
    <2>1. Deeper \in 0..MaxDepth
      BY DEF Deeper, RecurringInv
    <2>2. stack' \in SUBSET (Cubes \X (0..MaxDepth))
      <3>1. failed \in SUBSET Cubes
        BY DEF ReduceInv, ReduceTypeOK
      <3> QED
        BY <1>6, <2>1, <3>1 DEF FilterFastReturns, EndWithState, RecurringInv
    <2>3. mpc' = "iterate" => ~satisfied'
      BY <1>6 DEF FilterFastReturns, EndWithState, Return
    <2> QED
      BY <1>6, <2>2, <2>3 DEF FilterFastReturns, EndWithState, Return, RecurringInv
  <1> QED
    BY <1>1, <1>2, <1>3, <1>4, <1>5, <1>6, StepKinds DEF OwnStep

(* The points not yet ruled out, place by place. *)
LEMMA UnsolvedPlaces ==
  /\ mpc \in {"preprocess", "iterate"} => Unsolved = {}
  /\ mpc = "rbs" => Unsolved = base
  /\ mpc = "filter" => Unsolved = UNION batch
  /\ mpc \in {"submit", "wait"} =>
         Unsolved = UNION {c \in batch : c \in failed \/ stage[c] # "ready"}
  BY DEF Unsolved

(* Nothing is forgotten by the shared steps: a subproblem leaves the batch  *)
(* only with an answer, and one left unanswered is noted as failed.         *)
LEMMA SharedForgetsNothing ==
  ASSUME ReduceInv, RecurringInv, NothingForgotten, SharedStep,
         UNCHANGED <<stack, depth, events, stale>>
  PROVE  NothingForgotten'
  <1> USE DEF serviceVars, intrVars, dataVars
  <1> SUFFICES ASSUME mpc' \notin {"direct", "directwait", "done"},
                      ~interrupted', ~satisfied', ~stale', NEW p \in Sols',
                      \A e \in stack : p \notin e[1]
               PROVE  p \in Unsolved'
    BY DEF NothingForgotten
  <1>0. Sols' = Sols /\ p \in Sols
    BY InputStays DEF Sols
  <1>a. ASSUME mpc \notin {"direct", "directwait", "done"}, ~interrupted, ~satisfied
        PROVE  p \in Unsolved
    BY <1>0, <1>a DEF NothingForgotten
  <1>b. /\ stage \in [Cubes -> Service!Stages]
        /\ answer \in [Cubes -> Service!Answers \cup {"none"}]
        /\ batch \in SUBSET Cubes
    BY DEF ReduceInv, ReduceTypeOK, Service!ContractTypeOK
  <1>1. CASE Preprocess \/ GetDirect \/ SolveDirectly
    BY <1>1, <1>a, UnsolvedPlaces DEF Preprocess, GetDirect, SolveDirectly, Return, ReduceInv,
                                      FlowInv
  <1>2. CASE FilterConflict
    <2>1. p \in UNION batch
      BY <1>2, <1>a, UnsolvedPlaces DEF FilterConflict, RecurringInv
    <2>2. PICK c \in batch : p \in c
      BY <2>1
    <2>3. c \in batch'
      <3>1. Truth(c) = "SAT"
        BY <1>0, <2>2 DEF Truth
      <3> QED
        BY <1>2, <2>2, <3>1 DEF FilterConflict
    <2>4. stage'[c] # "ready" /\ mpc' = "submit"
      BY <1>2, <1>b, <2>2 DEF FilterConflict, ReduceInv, PlaceInv
    <2>5. Unsolved' = UNION {d \in batch' : d \in failed' \/ stage'[d] # "ready"}
      BY <2>4 DEF Unsolved
    <2> QED
      BY <2>2, <2>3, <2>4, <2>5
  <1>3. CASE SubmitEnds
    <2>1. Unsolved' = Unsolved
      BY <1>3 DEF SubmitEnds, Unsolved
    <2> QED
      BY <1>3, <1>a, <2>1 DEF SubmitEnds
  <1>4. CASE InterruptFlag
    BY <1>4 DEF InterruptFlag
  <1>5. CASE InterruptStep
    BY <1>5 DEF InterruptStep, InterruptService, InterruptRbSearch, ReduceInv, FlowInv
  <1>6. CASE UNCHANGED reduceVars
    <2>1. Unsolved' = Unsolved
      BY <1>6 DEF reduceVars, Unsolved
    <2> QED
      BY <1>6, <1>a, <2>1 DEF reduceVars
  <1>7. ASSUME NEW c \in Cubes,
               SubmitNext(c) \/ Begin(c) \/ Report(c) \/ Callback(c) \/ Complete(c)
        PROVE  p \in Unsolved'
    <2>1. /\ mpc' = mpc /\ interrupted' = interrupted /\ batch' = batch /\ ~satisfied
          /\ failed \subseteq failed'
      <3>1. CASE Callback(c)
        <4>1. failed \subseteq failed'
          BY <3>1 DEF Callback
        <4>2. ~satisfied
          BY <3>1, Zenon DEF Callback
        <4> QED
          BY <3>1, <4>1, <4>2 DEF Callback
      <3>2. CASE SubmitNext(c) \/ Begin(c) \/ Report(c) \/ Complete(c)
        BY <3>2 DEF SubmitNext, Begin, Report, Complete
      <3> QED
        BY <1>7, <3>1, <3>2
    <2>2. mpc \in {"submit", "wait"}
      <3>1. stage[c] # "none" \/ mpc = "submit"
        BY <1>7 DEF SubmitNext, Begin, Report, Callback, Complete, Service!Begin,
                    Service!Report, Service!Complete
      <3> QED
        BY <2>1, <3>1 DEF ReduceInv, PlaceInv, ReduceTypeOK
    <2>3. PICK d \in batch : p \in d /\ (d \in failed \/ stage[d] # "ready")
      BY <1>a, <2>1, <2>2, UnsolvedPlaces
    <2>4. d \in failed' \/ stage'[d] # "ready"
      <3>1. CASE d \in failed
        BY <2>1, <3>1
      <3>2. CASE d \notin failed /\ ~Complete(c)
        <4>1. stage'[d] = stage[d] \/ stage'[d] # "ready"
          BY <1>7, <1>b, <3>2 DEF SubmitNext, Begin, Report, Callback, Service!Submit,
                                  Service!Begin, Service!Report, Service!Cancel
        <4> QED
          BY <2>3, <3>2, <4>1
      <3>3. CASE d \notin failed /\ Complete(c) /\ c # d
        <4>1. stage'[d] = stage[d]
          BY <1>b, <3>3 DEF Complete, Service!Complete
        <4> QED
          BY <2>3, <3>3, <4>1
      <3>4. CASE d \notin failed /\ Complete(c) /\ c = d
        <4>1. d \in noted /\ stage[d] = "reporting"
          BY <3>4 DEF Complete, Service!Complete
        <4>2. answer[d] \in {Truth(d), "UNKNOWN"} /\ Truth(d) = "SAT"
          BY <1>0, <1>7, <2>3, <3>4, <4>1 DEF ReduceInv, ServiceInv, Truth
        <4>3. FALSE
          BY <2>1, <2>2, <3>4, <4>1, <4>2 DEF ReduceInv, NotedInv
        <4> QED
          BY <4>3
      <3> QED
        BY <3>1, <3>2, <3>3, <3>4
    <2>5. Unsolved' = UNION {e \in batch' : e \in failed' \/ stage'[e] # "ready"}
      BY <2>1, <2>2 DEF Unsolved
    <2> QED
      BY <2>1, <2>3, <2>4, <2>5
  <1> QED
    BY <1>1, <1>2, <1>3, <1>4, <1>5, <1>6, <1>7 DEF SharedStep, MainShared, ServiceStep

(* Nor by the loop: what is popped is searched, what failed is pushed.      *)
LEMMA LoopForgetsNothing ==
  ASSUME ReduceInv, RecurringInv, NothingForgotten, OwnStep
  PROVE  NothingForgotten'
  <1> USE DEF serviceVars, intrVars, dataVars
  <1> SUFFICES ASSUME mpc' \notin {"direct", "directwait", "done"},
                      ~interrupted', ~satisfied', ~stale', NEW p \in Sols'
               PROVE  p \in Unsolved' \/ \E e \in stack' : p \in e[1]
    BY DEF NothingForgotten
  <1>0. /\ Sols' = Sols /\ p \in Sols /\ ~interrupted /\ ~satisfied
        /\ failed' = failed
    BY OwnFrame DEF Sols
  <1>a. ASSUME mpc \notin {"direct", "directwait", "done"}, ~stale
        PROVE  p \in Unsolved \/ \E e \in stack : p \in e[1]
    BY <1>0, <1>a DEF NothingForgotten
  <1>1. CASE PopBase
    <2>1. PICK e \in stack : base' = e[1] /\ stack' = stack \ {e}
      BY <1>1 DEF PopBase
    <2>2. \E f \in stack : p \in f[1]
      BY <1>1, <1>a, UnsolvedPlaces DEF PopBase
    <2>3. Unsolved' = base'
      BY <1>1 DEF PopBase, Unsolved
    <2> QED
      BY <2>1, <2>2, <2>3
  <1>2. CASE LoopEnds
    BY <1>2 DEF LoopEnds, Return
  <1>3. CASE RecurringRbInterrupted
    BY <1>0, <1>3 DEF RecurringRbInterrupted, EndWithState, RecurringInv
  <1>4. CASE RecurringRbStrong
    <2>1. ~rbsInterrupted /\ ~stale /\ mpc = "rbs" /\ stack' = stack
      BY <1>0, <1>4 DEF RecurringRbStrong, EndWithState, RecurringInv
    <2>2. base \cap Sols = {}
      BY <1>4, <2>1 DEF RecurringRbStrong, ReturnsSbs, Truth
    <2> QED
      BY <1>0, <1>a, <2>1, <2>2, UnsolvedPlaces
  <1>5. CASE RecurringRbSearch
    <2>1. p \in base \/ \E e \in stack : p \in e[1]
      BY <1>5, <1>a, UnsolvedPlaces DEF RecurringRbSearch
    <2>2. Unsolved' = UNION batch' /\ UNION batch' = base
      BY <1>5 DEF RecurringRbSearch, Unsolved, Splits
    <2> QED
      BY <1>5, <2>1, <2>2 DEF RecurringRbSearch
  <1>6. CASE DeliverSbsEvent
    <2>1. ~stale /\ mpc' = mpc /\ stack' = stack
      BY <1>6 DEF DeliverSbsEvent, RecurringInv
    <2>2. Unsolved' = Unsolved
      BY <1>6 DEF DeliverSbsEvent, Unsolved
    <2> QED
      BY <1>a, <2>1, <2>2
  <1>7. CASE FilterFastReturns
    <2>1. ~stale /\ mpc = "wait" /\ AllSettled /\ mpc' = "iterate"
      BY <1>0, <1>7 DEF FilterFastReturns, EndWithState, Return
    <2>2. stack' = stack \cup {<<c, Deeper>> : c \in failed}
      BY <1>0, <1>7 DEF FilterFastReturns, EndWithState
    <2>3. CASE \E e \in stack : p \in e[1]
      BY <2>2, <2>3
    <2>4. CASE p \in Unsolved
      <3>1. PICK c \in batch : p \in c /\ (c \in failed \/ stage[c] # "ready")
        BY <2>1, <2>4, UnsolvedPlaces
      <3>2. stage[c] = "ready"
        BY <1>0, <2>1, <3>1 DEF AllSettled, ReduceInv, ReduceTypeOK, ServiceInv
      <3>3. <<c, Deeper>> \in stack' /\ <<c, Deeper>>[1] = c
        BY <2>2, <3>1, <3>2
      <3> QED
        BY <3>1, <3>3
    <2> QED
      BY <1>a, <2>1, <2>3, <2>4
  <1> QED
    BY <1>1, <1>2, <1>3, <1>4, <1>5, <1>6, <1>7 DEF OwnStep

(* The answer is explained when solve() returns. *)
LEMMA RecurringReturnsExplained ==
  ASSUME ReduceInv, RecurringInv, NothingForgotten, [RecurringNext]_recurringVars, mpc # "done"
  PROVE  RecurringAnswerExplained'
  <1> USE DEF serviceVars, intrVars, dataVars
  <1> DEFINE Explained == RecurringAnswerExplained'
  <1>0. /\ Sols \subseteq Points /\ Truth(Points) \in {"SAT", "UNSAT"}
        /\ \A c \in Cubes : Truth(c) = "SAT" <=> c \cap Sols # {}
        /\ Points \in Cubes /\ result = None
    BY InputFacts DEF ReduceInv, FlowInv
  <1>a. ASSUME result' = None PROVE Explained
    BY <1>a, ReduceAssumption DEF RecurringAnswerExplained, SatHasModel
  <1>b. ASSUME OwnStep
        PROVE  /\ input' = input /\ model' = model /\ interrupted' = interrupted
               /\ Sols' = Sols /\ Truth(Points)' = Truth(Points)
               /\ stale => stale'
    BY <1>b, OwnFrame, StaleStays DEF Sols, Truth
  <1>1. CASE GetDirect
    <2>1. input' = input /\ Truth(Points)' = Truth(Points)
      BY <1>1 DEF GetDirect, Truth, Sols
    <2> QED
      BY <1>0, <1>1, <2>1, DirectAnswer DEF RecurringAnswerExplained, SatHasModel
  <1>2. CASE SharedStep /\ ~GetDirect
    <2>1. result' = None
      BY <1>0, <1>2 DEF SharedStep, MainShared, Preprocess, SolveDirectly, FilterConflict,
                        SubmitEnds, SubmitNext, InterruptFlag, InterruptStep, InterruptService,
                        InterruptRbSearch, ServiceStep, Begin, Report, Callback, Complete,
                        reduceVars
    <2> QED
      BY <1>a, <2>1
  <1>3. CASE PopBase \/ RecurringRbSearch \/ DeliverSbsEvent
    BY <1>0, <1>3, <1>a DEF PopBase, RecurringRbSearch, DeliverSbsEvent
  <1>4. CASE LoopEnds
    <2>1. CASE interrupted
      BY <1>4, <1>b, <2>1 DEF LoopEnds, Return, OwnStep, RecurringAnswerExplained, SatHasModel
    <2>2. CASE ~interrupted
      <3>1. stack = {} /\ result' = "UNSAT" /\ mpc = "iterate"
        BY <1>4, <2>2 DEF LoopEnds, Return
      <3>2. Sols = {} \/ stale
        BY <2>2, <3>1, UnsolvedPlaces DEF NothingForgotten, RecurringInv
      <3>3. Truth(Points) = "UNSAT" \/ stale
        BY <3>2 DEF Truth
      <3> QED
        BY <1>4, <1>b, <3>1, <3>3 DEF OwnStep, RecurringAnswerExplained, SatHasModel
    <2> QED
      BY <2>1, <2>2
  <1>5. CASE RecurringRbInterrupted
    BY <1>0, <1>5, <1>a, <1>b DEF RecurringRbInterrupted, EndWithState, Return, OwnStep,
                                  RecurringAnswerExplained, SatHasModel
  <1>6. CASE RecurringRbStrong
    <2>1. CASE interrupted
      BY <1>6, <1>b, <2>1 DEF RecurringRbStrong, EndWithState, Return, OwnStep, RecurringAnswerExplained,
                              SatHasModel
    <2>2. CASE ~interrupted /\ base # Points
      BY <1>0, <1>6, <1>a, <2>2 DEF RecurringRbStrong, EndWithState
    <2>3. CASE ~interrupted /\ base = Points
      <3>1. result' = "UNSAT"
        BY <1>6, <2>3 DEF RecurringRbStrong, EndWithState, Return
      <3>2. Truth(Points) = "UNSAT" \/ stale
        BY <1>6, <2>3 DEF RecurringRbStrong, ReturnsSbs, RecurringInv
      <3> QED
        BY <1>6, <1>b, <3>1, <3>2 DEF OwnStep, RecurringAnswerExplained, SatHasModel
    <2> QED
      BY <2>1, <2>2, <2>3
  <1>7. CASE FilterFastReturns
    <2>1. CASE interrupted
      <3>1. result' = "UNKNOWN"
        BY <1>7, <2>1 DEF FilterFastReturns, EndWithState, Return
      <3> QED
        BY <1>7, <1>b, <2>1, <3>1 DEF OwnStep, RecurringAnswerExplained, SatHasModel
    <2>2. CASE ~interrupted /\ satisfied
      <3>1. result' = "SAT" /\ mpc = "wait"
        BY <1>7, <2>2 DEF FilterFastReturns, EndWithState, Return
      <3>2. model \in Sols /\ Truth(Points) = "SAT" /\ input.pre
        BY <1>0, <2>2, <3>1 DEF ReduceInv, FlowInv
      <3> QED
        BY <1>7, <1>b, <3>1, <3>2 DEF OwnStep, RecurringAnswerExplained, SatHasModel
    <2>3. CASE ~interrupted /\ ~satisfied
      BY <1>0, <1>7, <1>a, <2>3 DEF FilterFastReturns, EndWithState
    <2> QED
      BY <2>1, <2>2, <2>3
  <1> QED
    BY <1>1, <1>2, <1>3, <1>4, <1>5, <1>6, <1>7, StepKinds DEF OwnStep

(* And stays so: an interrupt or an event that comes too late changes       *)
(* nothing of it.                                                           *)
LEMMA RecurringStaysExplained ==
  ASSUME ReduceInv, RecurringInv, RecurringAnswerExplained, [RecurringNext]_recurringVars, mpc = "done"
  PROVE  RecurringAnswerExplained'
  <1>1. /\ result' = result /\ model' = model /\ answer' = answer /\ input' = input
        /\ interrupted => interrupted'
        /\ stale => stale'
    <2>1. CASE SharedStep /\ UNCHANGED <<stack, depth, events, stale>>
      BY <2>1, SharedWhenDone, InputStays
    <2>2. CASE OwnStep
      <3>1. DeliverSbsEvent
        BY <2>2 DEF OwnStep, PopBase, LoopEnds, RecurringRbInterrupted, RecurringRbStrong, RecurringRbSearch,
                    FilterFastReturns
      <3>2. result' = result /\ answer' = answer
        BY <3>1 DEF DeliverSbsEvent, serviceVars
      <3> QED
        BY <2>2, <3>2, OwnFrame, StaleStays
    <2> QED
      BY <2>1, <2>2, StepKinds
  <1>2. Truth(Points)' = Truth(Points) /\ Sols' = Sols
    BY <1>1 DEF Truth, Sols
  <1> QED
    BY <1>1, <1>2 DEF RecurringAnswerExplained, SatHasModel

----------------------------------------------------------------------------

(* Nothing is forgotten: however deep the recursion goes, and whatever is   *)
(* left unsolved and pushed back, every satisfying point stays under an     *)
(* assumption that is on the stack or in the current batch, as long as the  *)
(* loop is neither interrupted nor satisfied and no event of an earlier     *)
(* search stopped a later one.                                              *)
THEOREM NothingForgottenCorrect == RecurringSpec => []NothingForgotten
  <1> DEFINE IInv == ReduceInv /\ RecurringInv /\ NothingForgotten
  <1>1. RecurringInit => IInv
    BY RecurringInitInv
  <1>2. IInv /\ [RecurringNext]_recurringVars => IInv'
    BY StepKinds, SharedInv, RecurringReduceInv, RecurringStep, SharedForgetsNothing,
       LoopForgetsNothing
  <1> QED
    BY <1>1, <1>2, PTL DEF RecurringSpec

(* Every variable keeps its type: in particular no base assumption is       *)
(* pushed below max_recursion_depth.                                        *)
THEOREM RecurringTypeCorrect == RecurringSpec => []RecurringTypeOK
  <1> DEFINE IInv == ReduceInv /\ RecurringInv
  <1>1. RecurringInit => IInv
    BY RecurringInitInv
  <1>2. IInv /\ [RecurringNext]_recurringVars => IInv'
    BY StepKinds, SharedInv, RecurringReduceInv, RecurringStep
  <1>3. IInv => RecurringTypeOK
    BY DEF ReduceInv, RecurringInv, RecurringTypeOK
  <1> QED
    BY <1>1, <1>2, <1>3, PTL DEF RecurringSpec

(* Whatever solve() answers is explained: SAT is true and has its model,    *)
(* UNSAT is true unless an event of an earlier search stopped a later one,  *)
(* UNKNOWN and an exception need an interrupt (or, where the preprocessing  *)
(* left no variables, an UNKNOWN of the service).                           *)
THEOREM RecurringAnswerCorrect == RecurringSpec => []RecurringAnswerExplained
  <1> DEFINE IInv == ReduceInv /\ RecurringInv /\ NothingForgotten /\ RecurringAnswerExplained
  <1>1. RecurringInit => IInv
    BY RecurringInitInv
  <1>2. IInv /\ [RecurringNext]_recurringVars => IInv'
    BY StepKinds, SharedInv, RecurringReduceInv, RecurringStep, SharedForgetsNothing,
       LoopForgetsNothing, RecurringReturnsExplained, RecurringStaysExplained
  <1> QED
    BY <1>1, <1>2, PTL DEF RecurringSpec
=============================================================================
