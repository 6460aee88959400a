----------------------- MODULE CartesianRBSearchProofs -----------------------
(***************************************************************************)
(* Theorems about CartesianRBSearch, for every number of algorithms, every *)
(* set of values, and every number of calls and interrupts; and about the  *)
(* parts into which Search cuts the enumeration that find_rb and ParProp   *)
(* run, for every length and every number of parts.                        *)
(***************************************************************************)
EXTENDS CartesianRBSearch, Search, TLAPS

----------------------------------------------------------------------------
(* Strengthenings that make the invariants inductive.                      *)

(* Threads run only between the spawn loop and the joins, and a result is   *)
(* there only once find_rb has returned.                                    *)
CallInv ==
    /\ mpc = "idle" => \A i \in Algs : pc[i] \in {"off", "done"}
    /\ mpc = "create" => \A i \in Algs : pc[i] = "off"
    /\ mpc = "join" => interrupted \/ \A i \in Algs : pc[i] # "off"
    /\ result # None => mpc = "idle"
    /\ calls = 0 => mpc = "idle" /\ ~sbsFound /\ result = None

(* An algorithm's list holds the values that prop_search has come to and    *)
(* that do not conflict; the enumeration ends early only if the search is   *)
(* stopping.                                                                *)
ListInv ==
    \A i \in Algs :
        /\ pc[i] \in {"off", "process", "best"} => kept[i] = {}
        /\ pc[i] \in {"prop", "check"} => kept[i] = (Values \ unseen[i]) \ conflicting[i]
        /\ pc[i] = "check" => Stopping \/ unseen[i] = {}
        /\ pc[i] = "done" => Stopping \/ kept[i] = Values \ conflicting[i]

(* Each call raises the event at most once. *)
EventInv ==
    /\ events <= calls
    /\ mpc # "idle" /\ ~sbsFound => events < calls

(* In a first call that its owner leaves alone, all that stops the search   *)
(* is a strong backdoor.                                                    *)
CauseInv ==
    calls <= 1 /\ interrupts = 0 =>
        /\ sbsFound => ~satisfiable
        /\ events > 0 \/ interrupted => sbsFound
        /\ \A i \in Algs : conflicting[i] = Values => ~satisfiable
        /\ result \in {"SBS_FOUND", "INTERRUPTED"} => sbsFound

----------------------------------------------------------------------------

(* The initial state satisfies the inductive invariant. *)
LEMMA SearchInit == Init => TypeOK /\ CallInv /\ ListInv /\ EventInv /\ CauseInv /\ SearchIsComplete
  <1> SUFFICES ASSUME Init
               PROVE  TypeOK /\ CallInv /\ ListInv /\ EventInv /\ CauseInv /\ SearchIsComplete
    OBVIOUS
  <1> USE CartesianAssumption DEF Init, None
  <1>1. TypeOK
    <2>1. events \in 0..MaxCalls /\ calls \in 0..MaxCalls /\ interrupts \in 0..MaxInterrupts
      OBVIOUS
    <2>2. pc \in [Algs -> {"off", "process", "best", "prop", "check", "done"}]
      OBVIOUS
    <2>3. /\ conflicting \in [Algs -> SUBSET Values]
          /\ unseen \in [Algs -> SUBSET Values]
          /\ kept \in [Algs -> SUBSET Values]
      OBVIOUS
    <2> QED
      BY <2>1, <2>2, <2>3 DEF TypeOK
  <1>2. CallInv /\ ListInv /\ EventInv /\ SearchIsComplete
    BY DEF CallInv, ListInv, EventInv, SearchIsComplete
  <1>3. CauseInv
    BY DEF CauseInv
  <1> QED
    BY <1>1, <1>2, <1>3

(* Every step keeps the types; the events stay bounded because only the     *)
(* first to find a strong backdoor raises one.                              *)
LEMMA SearchTypeStep == TypeOK /\ CallInv /\ EventInv /\ [Next]_vars => TypeOK' /\ EventInv'
  <1> SUFFICES ASSUME TypeOK, CallInv, EventInv, [Next]_vars PROVE TypeOK' /\ EventInv'
    OBVIOUS
  <1> USE CartesianAssumption DEF TypeOK, EventInv, None
  <1>1. ASSUME FindRb PROVE TypeOK' /\ EventInv'
    <2>1. EventInv' /\ calls' \in 0..MaxCalls
      BY <1>1 DEF FindRb
    <2>2. /\ pc' \in [Algs -> {"off", "process", "best", "prop", "check", "done"}]
          /\ conflicting' \in [Algs -> SUBSET Values]
          /\ unseen' \in [Algs -> SUBSET Values]
          /\ kept' \in [Algs -> SUBSET Values]
      BY <1>1 DEF FindRb
    <2> QED
      BY <1>1, <2>1, <2>2 DEF FindRb
  <1>2. ASSUME Attach \/ SpawnEnds \/ Join PROVE TypeOK' /\ EventInv'
    BY <1>2 DEF Attach, SpawnEnds, Join
  <1>3. ASSUME NEW i \in Algs, Spawn(i) \/ Process(i) PROVE TypeOK' /\ EventInv'
    BY <1>3 DEF Spawn, Process, Goto
  <1>4. ASSUME NEW i \in Algs, BestIsSbs(i) PROVE TypeOK' /\ EventInv'
    <2>1. mpc # "idle"
      BY <1>4 DEF BestIsSbs, CallInv
    <2>2. EventInv' /\ events' \in 0..MaxCalls /\ sbsFound' \in BOOLEAN
      BY <1>4, <2>1 DEF BestIsSbs, RaiseForSbs
    <2> QED
      BY <1>4, <2>2 DEF BestIsSbs, Goto
  <1>5. ASSUME NEW i \in Algs, BestIsWeak(i) PROVE TypeOK' /\ EventInv'
    BY <1>5 DEF BestIsWeak, ConflictSets, Goto
  <1>6. ASSUME NEW i \in Algs, NEW v \in Values, PropCallback(i, v) PROVE TypeOK' /\ EventInv'
    BY <1>6 DEF PropCallback, Goto
  <1>7. ASSUME NEW i \in Algs, CheckKept(i) PROVE TypeOK' /\ EventInv'
    <2>1. mpc # "idle"
      BY <1>7 DEF CheckKept, CallInv
    <2>2. EventInv' /\ events' \in 0..MaxCalls /\ sbsFound' \in BOOLEAN
      <3>1. CASE kept[i] = {}
        BY <1>7, <2>1, <3>1 DEF CheckKept, RaiseForSbs
      <3>2. CASE kept[i] # {}
        BY <1>7, <3>2 DEF CheckKept
      <3> QED
        BY <3>1, <3>2
    <2> QED
      BY <1>7, <2>2 DEF CheckKept, Goto
  <1>8. ASSUME Deliver PROVE TypeOK' /\ EventInv'
    <2>1. EventInv' /\ events' \in 0..MaxCalls
      BY <1>8 DEF Deliver
    <2>2. interrupted' \in BOOLEAN /\ attached' \in BOOLEAN
      BY <1>8 DEF Deliver
    <2> QED
      BY <1>8, <2>1, <2>2 DEF Deliver
  <1>9. ASSUME Interrupt PROVE TypeOK' /\ EventInv'
    BY <1>9 DEF Interrupt
  <1>10. CASE Over \/ UNCHANGED vars
    BY <1>10 DEF Over, vars
  <1> QED
    BY <1>1, <1>2, <1>3, <1>4, <1>5, <1>6, <1>7, <1>8, <1>9, <1>10 DEF Next, MainStep, AlgStep

(* Threads are spawned and joined within the call. *)
LEMMA CallStep == TypeOK /\ CallInv /\ [Next]_vars => CallInv'
  <1> SUFFICES ASSUME TypeOK, CallInv, [Next]_vars PROVE CallInv'
    OBVIOUS
  <1> USE DEF TypeOK, CallInv, None
  <1>1. ASSUME FindRb PROVE CallInv'
    BY <1>1 DEF FindRb
  <1>2. ASSUME Attach \/ SpawnEnds \/ Join PROVE CallInv'
    BY <1>2 DEF Attach, SpawnEnds, Join
  <1>3. ASSUME NEW i \in Algs, Spawn(i) \/ Process(i) PROVE CallInv'
    BY <1>3 DEF Spawn, Process, Goto
  <1>4. ASSUME NEW i \in Algs, BestIsSbs(i) \/ CheckKept(i) PROVE CallInv'
    BY <1>4 DEF BestIsSbs, CheckKept, RaiseForSbs, Goto
  <1>5. ASSUME NEW i \in Algs, BestIsWeak(i) PROVE CallInv'
    BY <1>5 DEF BestIsWeak, Goto
  <1>6. ASSUME NEW i \in Algs, NEW v \in Values, PropCallback(i, v) PROVE CallInv'
    BY <1>6 DEF PropCallback, Goto
  <1>7. ASSUME Deliver \/ Interrupt PROVE CallInv'
    BY <1>7 DEF Deliver, Interrupt
  <1>8. CASE Over \/ UNCHANGED vars
    BY <1>8 DEF Over, vars
  <1> QED
    BY <1>1, <1>2, <1>3, <1>4, <1>5, <1>6, <1>7, <1>8 DEF Next, MainStep, AlgStep

(* A list is complete for the values enumerated so far. *)
LEMMA ListStep == TypeOK /\ CallInv /\ ListInv /\ [Next]_vars => ListInv'
  <1> SUFFICES ASSUME TypeOK, CallInv, ListInv, [Next]_vars PROVE ListInv'
    OBVIOUS
  <1> USE DEF TypeOK, ListInv, Stopping
  <1>1. ASSUME FindRb PROVE ListInv'
    BY <1>1 DEF FindRb
  <1>2. ASSUME Attach \/ SpawnEnds \/ Join PROVE ListInv'
    BY <1>2 DEF Attach, SpawnEnds, Join
  <1>3. ASSUME NEW i \in Algs, Spawn(i) \/ Process(i) PROVE ListInv'
    BY <1>3 DEF Spawn, Process, Goto
  <1>4. ASSUME NEW i \in Algs, BestIsSbs(i) PROVE ListInv'
    BY <1>4 DEF BestIsSbs, RaiseForSbs, Goto
  <1>5. ASSUME NEW i \in Algs, BestIsWeak(i) PROVE ListInv'
    <2>1. PICK C \in ConflictSets : conflicting' = [conflicting EXCEPT ![i] = C]
      BY <1>5 DEF BestIsWeak
    <2>2. kept[i] = {}
      BY <1>5 DEF BestIsWeak
    <2> QED
      BY <1>5, <2>1, <2>2 DEF BestIsWeak, Goto
  <1>6. ASSUME NEW i \in Algs, NEW v \in Values, PropCallback(i, v) PROVE ListInv'
    <2>1. /\ kept'[i] = (Values \ unseen'[i]) \ conflicting'[i]
          /\ pc'[i] = "check" => Stopping' \/ unseen'[i] = {}
          /\ pc'[i] \in {"prop", "check"}
      BY <1>6 DEF PropCallback, Goto
    <2>2. \A j \in Algs \ {i} : /\ kept'[j] = kept[j] /\ unseen'[j] = unseen[j]
                                /\ conflicting'[j] = conflicting[j] /\ pc'[j] = pc[j]
      BY <1>6 DEF PropCallback, Goto
    <2> QED
      BY <1>6, <2>1, <2>2 DEF PropCallback
  <1>7. ASSUME NEW i \in Algs, CheckKept(i) PROVE ListInv'
    BY <1>7 DEF CheckKept, RaiseForSbs, Goto
  <1>8. ASSUME Deliver \/ Interrupt PROVE ListInv'
    BY <1>8 DEF Deliver, Interrupt
  <1>9. CASE Over \/ UNCHANGED vars
    BY <1>9 DEF Over, vars
  <1> QED
    BY <1>1, <1>2, <1>3, <1>4, <1>5, <1>6, <1>7, <1>8, <1>9 DEF Next, MainStep, AlgStep

(* A search space is returned only when no algorithm was cut short, and no  *)
(* thread is left that could change a list afterwards.                      *)
LEMMA CompleteStep ==
  TypeOK /\ CallInv /\ ListInv /\ SearchIsComplete /\ [Next]_vars => SearchIsComplete'
  <1> SUFFICES ASSUME TypeOK, CallInv, ListInv, SearchIsComplete, [Next]_vars
               PROVE  SearchIsComplete'
    OBVIOUS
  <1> USE DEF SearchIsComplete, None
  <1>1. ASSUME FindRb PROVE SearchIsComplete'
    BY <1>1 DEF FindRb
  <1>2. ASSUME Join PROVE SearchIsComplete'
    BY <1>2 DEF Join, TypeOK, CallInv, ListInv, Stopping
  <1>3. ASSUME NEW i \in Algs, AlgStep(i) PROVE SearchIsComplete'
    <2>1. mpc # "idle"
      BY <1>3 DEF CallInv, AlgStep, Process, BestIsSbs, BestIsWeak, CheckKept, PropCallback
    <2>2. result' = result
      BY <1>3 DEF AlgStep, Process, BestIsSbs, BestIsWeak, CheckKept, PropCallback
    <2> QED
      BY <2>1, <2>2 DEF CallInv
  <1>4. CASE Attach \/ SpawnEnds \/ Deliver \/ Interrupt
    BY <1>4 DEF Attach, SpawnEnds, Deliver, Interrupt
  <1>5. ASSUME NEW i \in Algs, Spawn(i) PROVE SearchIsComplete'
    BY <1>5 DEF Spawn
  <1>6. CASE Over \/ UNCHANGED vars
    BY <1>6 DEF Over, vars
  <1> QED
    BY <1>1, <1>2, <1>3, <1>4, <1>5, <1>6 DEF Next, MainStep

(* A strong backdoor is reported only of an unsatisfiable formula. *)
LEMMA CauseStep ==
  TypeOK /\ CallInv /\ EventInv /\ ListInv /\ CauseInv /\ [Next]_vars => CauseInv'
  <1> SUFFICES ASSUME TypeOK, CallInv, EventInv, ListInv, CauseInv, [Next]_vars,
                      calls' <= 1, interrupts' = 0
               PROVE  CauseInv'
    BY DEF CauseInv
  <1> USE DEF TypeOK, None
  <1>0. CASE ~FindRb
    <2>0. calls' = calls /\ interrupts = 0 /\ interrupts' = 0 /\ ~Interrupt
      BY <1>0 DEF Next, MainStep, AlgStep, Attach, SpawnEnds, Join, Spawn, Process, BestIsSbs,
                  BestIsWeak, PropCallback, CheckKept, Deliver, Interrupt, Over, vars
    <2>a. /\ sbsFound => ~satisfiable
          /\ events > 0 \/ interrupted => sbsFound
          /\ \A i \in Algs : conflicting[i] = Values => ~satisfiable
          /\ result \in {"SBS_FOUND", "INTERRUPTED"} => sbsFound
      BY <2>0 DEF CauseInv
    <2> USE <2>a
    <2>1. ASSUME Join PROVE CauseInv'
      BY <2>1 DEF Join, CauseInv
    <2>2. ASSUME NEW i \in Algs, BestIsSbs(i) PROVE CauseInv'
      BY <2>2 DEF BestIsSbs, RaiseForSbs, CauseInv
    <2>3. ASSUME NEW i \in Algs, BestIsWeak(i) PROVE CauseInv'
      BY <2>3 DEF BestIsWeak, ConflictSets, CauseInv
    <2>4. ASSUME NEW i \in Algs, CheckKept(i) PROVE CauseInv'
      <3>1. kept[i] = {} => ~satisfiable
        <4> SUFFICES ASSUME kept[i] = {}, ~sbsFound PROVE ~satisfiable
          OBVIOUS
        <4>1. ~Stopping
          BY DEF Stopping
        <4>2. conflicting[i] = Values
          BY <2>4, <4>1 DEF ListInv, CheckKept
        <4> QED
          BY <4>2
      <3> QED
        BY <2>4, <3>1 DEF CheckKept, RaiseForSbs, CauseInv
    <2>5. ASSUME NEW i \in Algs, NEW v \in Values, PropCallback(i, v) PROVE CauseInv'
      BY <2>5 DEF PropCallback, CauseInv
    <2>6. ASSUME NEW i \in Algs, Process(i) \/ Spawn(i) PROVE CauseInv'
      BY <2>6 DEF Process, Spawn, CauseInv
    <2>7. CASE Attach \/ SpawnEnds \/ Deliver
      BY <2>7 DEF Attach, SpawnEnds, Deliver, CauseInv
    <2>8. CASE Over \/ UNCHANGED vars
      BY <2>8 DEF Over, vars, CauseInv
    <2> QED
      BY <1>0, <2>0, <2>1, <2>2, <2>3, <2>4, <2>5, <2>6, <2>7, <2>8 DEF Next, MainStep, AlgStep
  <1>1. CASE FindRb
    <2>1. calls = 0 /\ interrupts = 0
      BY <1>1 DEF FindRb
    <2>2. events = 0
      BY <2>1 DEF EventInv
    <2> QED
      BY <1>1, <2>2, CartesianAssumption DEF FindRb, CauseInv
  <1> QED
    BY <1>0, <1>1

----------------------------------------------------------------------------

(* Every variable of the search keeps its type: in particular a call raises  *)
(* SBS_FOUND at most once, whoever finds a strong backdoor.                  *)
THEOREM SearchTypeCorrect == Spec => []TypeOK
  <1> DEFINE IInv == TypeOK /\ CallInv /\ EventInv
  <1>1. Init => IInv
    BY SearchInit
  <1>2. IInv /\ [Next]_vars => IInv'
    BY SearchTypeStep, CallStep
  <1> QED
    BY <1>1, <1>2, PTL DEF Spec

(* What find_rb says is so, however the algorithms' threads, the event       *)
(* thread and the owner's interrupts interleave: a returned search space     *)
(* holds every assignment without a conflict, and a first call that its      *)
(* owner leaves alone is aborted only by a strong backdoor of an             *)
(* unsatisfiable formula.                                                    *)
THEOREM ResultCorrect == Spec => []ResultExplained
  <1> DEFINE IInv == TypeOK /\ CallInv /\ ListInv /\ EventInv /\ CauseInv /\ SearchIsComplete
  <1>1. Init => IInv
    BY SearchInit
  <1>2. IInv /\ [Next]_vars => IInv'
    BY SearchTypeStep, CallStep, ListStep, CompleteStep, CauseStep
  <1>3. IInv => ResultExplained
    BY DEF CauseInv, ResultExplained, AbortHasCause, TypeOK
  <1> QED
    BY <1>1, <1>2, <1>3, PTL DEF Spec

----------------------------------------------------------------------------
(* The parts of split_search, by which the backdoors a search tries are      *)
(* shared among threads: they tile the range of the search, whatever its    *)
(* length and however many parts it is cut into.                            *)

(* What the divisions of get_start_and_todo yield. *)
LEMMA Division ==
    ASSUME NEW total \in Nat, NEW num_split \in Nat \ {0}
    PROVE  /\ total \div num_split \in Nat
           /\ total % num_split \in 0..(num_split - 1)
           /\ total = num_split * (total \div num_split) + (total % num_split)
OBVIOUS

(* A product grows with its first factor. *)
LEMMA TimesMonotone ==
    ASSUME NEW a \in Nat, NEW b \in Nat, NEW d \in Nat, a <= b
    PROVE  a * d <= b * d
<1> DEFINE c == b - a
<1>1. c \in Nat /\ b = a + c
    OBVIOUS
<1> HIDE DEF c
<1>2. (a + c) * d = a * d + c * d
    BY <1>1
<1>3. c * d \in Nat /\ a * d \in Nat
    BY <1>1
<1> QED
    BY <1>1, <1>2, <1>3

(* split_search(num_split, index): the first part starts at zero, each part *)
(* starts where the one before it ends, and the last ends with the search.  *)
THEOREM PartsAreConsecutive ==
    ASSUME NEW total \in Nat, NEW num_split \in Nat \ {0}
    PROVE  /\ StartOf(total, num_split, 0) = 0
           /\ \A i \in 0..(num_split - 1) :
                 StartOf(total, num_split, i + 1) =
                     StartOf(total, num_split, i) + TodoOf(total, num_split, i)
           /\ StartOf(total, num_split, num_split) = total
<1> DEFINE div == total \div num_split
           rem == total % num_split
<1>0. /\ div \in Nat
      /\ rem \in 0..(num_split - 1)
      /\ total = num_split * div + rem
    BY Division
<1>a. /\ \A i \in Nat : StartOf(total, num_split, i) =
             IF i < rem THEN i * (div + 1) ELSE rem * (div + 1) + (i - rem) * div
      /\ \A i \in Nat : TodoOf(total, num_split, i) = IF i < rem THEN div + 1 ELSE div
    BY DEF StartOf, TodoOf
<1> HIDE DEF div, rem
<1>1. StartOf(total, num_split, 0) = 0
    BY <1>0, <1>a
<1>2. ASSUME NEW i \in 0..(num_split - 1)
      PROVE  StartOf(total, num_split, i + 1) =
                 StartOf(total, num_split, i) + TodoOf(total, num_split, i)
  <2>1. CASE i + 1 < rem
      BY <2>1, <1>0, <1>a
  <2>2. CASE i + 1 = rem
      BY <2>2, <1>0, <1>a
  <2>3. CASE rem <= i
      BY <2>3, <1>0, <1>a
  <2> QED
      BY <2>1, <2>2, <2>3, <1>0
<1>3. StartOf(total, num_split, num_split) = total
    BY <1>0, <1>a
<1> QED
    BY <1>1, <1>2, <1>3

(* The numbers of the assignments in a part. *)
Part(total, num_split, i) ==
    StartOf(total, num_split, i)..(StartOf(total, num_split, i) + TodoOf(total, num_split, i) - 1)

(* A later part starts where an earlier one has ended, or after that. *)
LEMMA PartsAreOrdered ==
    ASSUME NEW total \in Nat, NEW num_split \in Nat \ {0},
           NEW i \in Nat, NEW j \in Nat, i < j
    PROVE  /\ StartOf(total, num_split, i) \in Nat
           /\ TodoOf(total, num_split, i) \in Nat
           /\ StartOf(total, num_split, j) \in Nat
           /\ StartOf(total, num_split, i) + TodoOf(total, num_split, i)
                 <= StartOf(total, num_split, j)
<1> DEFINE div == total \div num_split
           rem == total % num_split
<1>0. div \in Nat /\ rem \in Nat
    BY Division
<1>a. /\ \A k \in Nat : StartOf(total, num_split, k) =
             IF k < rem THEN k * (div + 1) ELSE rem * (div + 1) + (k - rem) * div
      /\ \A k \in Nat : TodoOf(total, num_split, k) = IF k < rem THEN div + 1 ELSE div
    BY DEF StartOf, TodoOf
<1> HIDE DEF div, rem
<1>1. CASE j <= rem
  <2>1. (i + 1) * (div + 1) <= j * (div + 1)
      BY <1>0, TimesMonotone, i + 1 <= j, i + 1 \in Nat, div + 1 \in Nat
  <2>2. /\ StartOf(total, num_split, i) = i * (div + 1)
        /\ TodoOf(total, num_split, i) = div + 1
        /\ StartOf(total, num_split, j) = j * (div + 1)
    <3>1. i < rem /\ (j < rem \/ j = rem)
        BY <1>0, <1>1
    <3>2. rem * (div + 1) + (rem - rem) * div = rem * (div + 1)
        BY <1>0
    <3> QED
        BY <1>a, <3>1, <3>2
  <2>3. (i + 1) * (div + 1) = i * (div + 1) + (div + 1)
      BY <1>0
  <2>4. i * (div + 1) \in Nat /\ j * (div + 1) \in Nat /\ div + 1 \in Nat
      BY <1>0
  <2> QED
      BY <2>1, <2>2, <2>3, <2>4
<1>2. CASE i < rem /\ rem < j
  <2>1. (i + 1) * (div + 1) <= rem * (div + 1)
      BY <1>0, <1>2, TimesMonotone, i + 1 <= rem, i + 1 \in Nat, div + 1 \in Nat
  <2>2. /\ StartOf(total, num_split, i) = i * (div + 1)
        /\ TodoOf(total, num_split, i) = div + 1
        /\ StartOf(total, num_split, j) = rem * (div + 1) + (j - rem) * div
      BY <1>0, <1>2, <1>a
  <2>3. (i + 1) * (div + 1) = i * (div + 1) + (div + 1)
      BY <1>0
  <2>4. /\ i * (div + 1) \in Nat /\ rem * (div + 1) \in Nat
        /\ (j - rem) * div \in Nat /\ div + 1 \in Nat
      BY <1>0, <1>2
  <2> QED
      BY <2>1, <2>2, <2>3, <2>4
<1>3. CASE rem <= i
  <2>1. (i + 1 - rem) * div <= (j - rem) * div
      BY <1>0, <1>3, TimesMonotone, i + 1 - rem <= j - rem, i + 1 - rem \in Nat, j - rem \in Nat
  <2>2. /\ StartOf(total, num_split, i) = rem * (div + 1) + (i - rem) * div
        /\ TodoOf(total, num_split, i) = div
        /\ StartOf(total, num_split, j) = rem * (div + 1) + (j - rem) * div
      BY <1>0, <1>3, <1>a
  <2>3. (i + 1 - rem) * div = (i - rem) * div + div
      BY <1>0
  <2>4. /\ (i - rem) * div \in Nat /\ rem * (div + 1) \in Nat
        /\ (j - rem) * div \in Nat
      BY <1>0, <1>3
  <2> QED
      BY <1>0, <2>1, <2>2, <2>3, <2>4
<1> QED
    BY <1>0, <1>1, <1>2, <1>3

(* Some part contains the assignment with a given number. *)
LEMMA PartsCover ==
    ASSUME NEW total \in Nat, NEW num_split \in Nat \ {0}, NEW v \in 0..(total - 1)
    PROVE  \E i \in 0..(num_split - 1) : v \in Part(total, num_split, i)
<1> DEFINE div == total \div num_split
           rem == total % num_split
<1>0. /\ div \in Nat
      /\ rem \in 0..(num_split - 1)
      /\ total = num_split * div + rem
    BY Division
<1>a. /\ \A k \in Nat : StartOf(total, num_split, k) =
             IF k < rem THEN k * (div + 1) ELSE rem * (div + 1) + (k - rem) * div
      /\ \A k \in Nat : TodoOf(total, num_split, k) = IF k < rem THEN div + 1 ELSE div
    BY DEF StartOf, TodoOf
<1> HIDE DEF div, rem
<1>1. CASE v < rem * (div + 1)
  <2> DEFINE q == v \div (div + 1)
             r == v % (div + 1)
  <2>1. q \in Nat /\ r \in 0..div /\ v = (div + 1) * q + r
    <3>1. div + 1 \in Nat \ {0} /\ (div + 1) - 1 = div /\ v \in Nat
        BY <1>0
    <3>2. /\ q \in Nat /\ r \in 0..((div + 1) - 1)
          /\ v = (div + 1) * q + r
        BY <3>1, Division
    <3> QED
        BY <3>1, <3>2
  <2> HIDE DEF q, r
  <2>2. q < rem
    <3>1. SUFFICES ASSUME rem <= q PROVE FALSE
        BY <2>1, <1>0
    <3>2. rem * (div + 1) <= q * (div + 1)
        BY <3>1, <2>1, <1>0, TimesMonotone, div + 1 \in Nat
    <3> QED
        BY <3>2, <1>1, <2>1, <1>0
  <2>3. /\ StartOf(total, num_split, q) = q * (div + 1)
        /\ TodoOf(total, num_split, q) = div + 1
      BY <1>0, <1>a, <2>1, <2>2
  <2>4. v \in Part(total, num_split, q)
      BY <1>0, <2>1, <2>3 DEF Part
  <2> QED
      BY <1>0, <2>1, <2>2, <2>4
<1>2. CASE rem * (div + 1) <= v
  <2> DEFINE w == v - rem * (div + 1)
             q == w \div div
             r == w % div
  <2>1. /\ w \in Nat /\ v = rem * (div + 1) + w
        /\ w < (num_split - rem) * div
      BY <1>0, <1>2
  <2> HIDE DEF w
  <2>2. div # 0
      BY <1>0, <2>1
  <2>3. q \in Nat /\ r \in 0..(div - 1) /\ w = div * q + r
      BY <1>0, <2>1, <2>2, Division
  <2> HIDE DEF q, r
  <2>4. q < num_split - rem
    <3>1. SUFFICES ASSUME num_split - rem <= q PROVE FALSE
        BY <2>3, <1>0
    <3>2. (num_split - rem) * div <= q * div
        BY <3>1, <2>3, <1>0, TimesMonotone, num_split - rem \in Nat
    <3> QED
        BY <3>2, <2>1, <2>3, <1>0
  <2>5. /\ StartOf(total, num_split, rem + q) = rem * (div + 1) + q * div
        /\ TodoOf(total, num_split, rem + q) = div
      BY <1>0, <1>a, <2>3, rem + q \in Nat, ~(rem + q < rem), rem + q - rem = q
  <2>6. v \in Part(total, num_split, rem + q)
      BY <1>0, <2>1, <2>3, <2>5 DEF Part
  <2> QED
      BY <1>0, <2>3, <2>4, <2>6
<1> QED
    BY <1>0, <1>1, <1>2

(* split_search, as _prop_search calls it with no more parts than           *)
(* assignments: every assignment of the search is in exactly one part, and  *)
(* no part is empty, so that the loop of sequential_propagate, which        *)
(* propagates before it asks for a next one, propagates nothing foreign.    *)
THEOREM PartsPartition ==
    ASSUME NEW total \in Nat, NEW num_split \in Nat \ {0}
    PROVE  /\ \A v \in 0..(total - 1) : \E i \in 0..(num_split - 1) :
                 /\ v \in Part(total, num_split, i)
                 /\ \A j \in 0..(num_split - 1) : v \in Part(total, num_split, j) => j = i
           /\ num_split <= total =>
                 \A i \in 0..(num_split - 1) : TodoOf(total, num_split, i) > 0
<1>1. ASSUME NEW v \in 0..(total - 1), NEW i \in 0..(num_split - 1), NEW j \in 0..(num_split - 1),
             v \in Part(total, num_split, i), v \in Part(total, num_split, j)
      PROVE  j = i
  <2>1. CASE i < j
    <3>1. /\ StartOf(total, num_split, i) \in Nat
          /\ TodoOf(total, num_split, i) \in Nat
          /\ StartOf(total, num_split, j) \in Nat
          /\ StartOf(total, num_split, i) + TodoOf(total, num_split, i)
                <= StartOf(total, num_split, j)
        BY <2>1, PartsAreOrdered, i \in Nat, j \in Nat
    <3>2. /\ v < StartOf(total, num_split, i) + TodoOf(total, num_split, i)
          /\ StartOf(total, num_split, j) <= v
        BY <1>1, <3>1 DEF Part
    <3> QED
        BY <3>1, <3>2
  <2>2. CASE j < i
    <3>1. /\ StartOf(total, num_split, j) \in Nat
          /\ TodoOf(total, num_split, j) \in Nat
          /\ StartOf(total, num_split, i) \in Nat
          /\ StartOf(total, num_split, j) + TodoOf(total, num_split, j)
                <= StartOf(total, num_split, i)
        BY <2>2, PartsAreOrdered, i \in Nat, j \in Nat
    <3>2. /\ v < StartOf(total, num_split, j) + TodoOf(total, num_split, j)
          /\ StartOf(total, num_split, i) <= v
        BY <1>1, <3>1 DEF Part
    <3> QED
        BY <3>1, <3>2
  <2> QED
      BY <2>1, <2>2
<1>2. ASSUME num_split <= total PROVE total \div num_split > 0
    BY <1>2, Division
<1>3. ASSUME num_split <= total, NEW i \in 0..(num_split - 1)
      PROVE  TodoOf(total, num_split, i) > 0
    BY <1>2, <1>3, Division DEF TodoOf
<1> QED
    BY <1>1, <1>3, PartsCover
=============================================================================
