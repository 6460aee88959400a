------------------------ MODULE PortfolioSolveProofs ------------------------
(***************************************************************************)
(* Theorems about PortfolioSolve and the EventHandler it uses, for every   *)
(* portfolio, every number of SIGINTs and every number of branches.        *)
(***************************************************************************)
EXTENDS PortfolioSolve, TLAPS

----------------------------------------------------------------------------
(* No element occurs twice. *)
Distinct(l) == \A i, j \in DOMAIN l : l[i] = l[j] => i = j

----------------------------------------------------------------------------
(* The inductive invariant.                                                *)

Results == {"SAT", "UNSAT", "UNKNOWN"}

EventPlaces == {"top", "checked", "blocked", "begin", "next", "call", "self", "unlink",
                "stopped", "crashed"}

SolvePlaces == {"unborn", "attach", "assign", "load", "find", "detach", "search", "cas",
                "model", "interrupt", "done"}

MainPlaces == {"attach", "assign", "solve", "wait", "detach", "signals", "exit", "join",
               "exited"}

EventTypes ==
    /\ equeue \in Seq(Events)
    /\ list \in [Events -> Seq(Handles)]
    /\ epc \in EventPlaces
    /\ event \in Events \cup {End}
    /\ it \in Handles \cup {End}
    /\ cur \in Handles \cup {End}
    /\ raced \in BOOLEAN

SolveTypes ==
    /\ mpc \in MainPlaces
    /\ pc \in [Solves -> SolvePlaces]
    /\ flag \in [Naive -> BOOLEAN]
    /\ wanted \in [Solves -> BOOLEAN]
    /\ stopped \in [Searching -> BOOLEAN]
    /\ sbs \in [Searching -> BOOLEAN]
    /\ branch \in [Searching -> Nat]
    /\ dropped \in [Searching -> BOOLEAN]
    /\ sideways \in BOOLEAN
    /\ truth \in {"SAT", "UNSAT"}
    /\ result \in Results
    /\ answer \in [Solves -> Results]
    /\ model \in Solves \cup {End}
    /\ output \in [state : Results, model : Solves \cup {End}]
    /\ signals \in Nat

(* Which thread may be where: only a searching solve has a search, only a   *)
(* naive one loads its solver; main() starts the solves and waits for all.  *)
PlaceInv ==
    /\ \A s \in Solves : pc[s] \in {"attach", "assign", "find", "detach"} => s \in Searching
    /\ mpc \in {"attach", "assign", "solve"} => \A s \in Solves : pc[s] = "unborn"
    /\ mpc = "detach" \/ Printed => \A s \in Solves : pc[s] = "done"

(* A handle is in the list of its event, once, and only while the objects   *)
(* its callback refers to are there.                                        *)
ListInv ==
    \A e \in Events : Distinct(list[e]) /\ \A h \in ToSet(list[e]) : EventOf[h] = e

Alive(h) == IF h = Main THEN mpc \in {"assign", "solve", "wait", "detach"}
            ELSE pc[h] \in {"assign", "find", "detach"}

LiveInv == \A h \in Handles : Linked(h) => Alive(h)

(* The event thread walks the list of its event. *)
ServingInv ==
    /\ Serving => event \in Events
    /\ epc \in {"next", "call", "self", "unlink"} /\ it # End => EventOf[it] = event
    /\ epc \in {"call", "self", "unlink"} => cur \in Handles /\ EventOf[cur] = event

(* Unless an owner interfered, its iterator and the handle whose callback   *)
(* runs are two elements of that list, and it fails only in the callback of *)
(* a handle that its owner does not have yet.                               *)
WalkInv ==
    ~raced =>
        /\ epc = "crashed" => cur # End /\ Assigning(cur)
        /\ epc \in {"next", "call", "self", "unlink"} /\ it # End => Linked(it)
        /\ epc \in {"call", "self", "unlink"} => Linked(cur) /\ it # cur

----------------------------------------------------------------------------
(* The answers.                                                            *)

Ended == {"cas", "model", "interrupt", "done"}

(* A solve has an answer from its return on, SAT only if that is right; the *)
(* result is an answer, and is there once a solve with one has competed.    *)
ResultInv ==
    /\ \A s \in Solves : pc[s] \notin Ended => answer[s] = "UNKNOWN"
    /\ \A s \in Solves : answer[s] = "SAT" => truth = "SAT"
    /\ result # "UNKNOWN" => \E s \in Solves : answer[s] = result
    /\ result = "UNKNOWN" =>
           \A s \in Solves : pc[s] \in Ended \ {"cas"} => answer[s] = "UNKNOWN"

(* A model has been taken once somebody has won, or the winner is about to. *)
ModelInv ==
    /\ result # "UNKNOWN" => model # End \/ \E s \in Solves : pc[s] = "model"
    /\ model # End => pc[model] \in {"interrupt", "done"}

(* What main() has printed is the result and the model. *)
OutputInv ==
    /\ Printed => output.state = result /\ output.model = model
    /\ ~Printed => output.state = "UNKNOWN"

(* Nobody has won, nobody was interrupted and no event was raised. *)
Calm ==
    /\ equeue = <<>> /\ ~Serving
    /\ \A s \in Solves : ~wanted[s] /\ pc[s] \notin {"model", "interrupt", "done"}
    /\ \A s \in Naive : ~flag[s]
    /\ \A s \in Searching : ~stopped[s] /\ ~sbs[s] /\ ~dropped[s]
    /\ \A s \in Solves : pc[s] = "cas" => answer[s] = truth
    /\ model = End

(* A solve that has raised SBS_FOUND is on its way to say UNSAT. *)
Promises(s) ==
    \/ pc[s] = "detach" /\ sbs[s]
    \/ pc[s] = "cas" /\ answer[s] = "UNSAT"

(* A solve that searches once has begun one search. *)
BranchInv ==
    \A s \in Searching \ Recurring :
        /\ pc[s] \in {"unborn", "attach"} => branch[s] = 0
        /\ pc[s] \notin {"unborn", "attach"} => branch[s] = 1

(* Undisturbed, the right answer has won, or everything is calm, or a       *)
(* single reduce solve is on its way to say UNSAT, whoever it interrupted.  *)
TruthInv ==
    Undisturbed =>
        \/ result = truth
        \/ /\ result = "UNKNOWN"
           /\ \/ Calm
              \/ truth = "UNSAT" /\ \E s \in Searching \ Recurring : Promises(s)

(* Undisturbed, only a solve that found the solution takes the model. *)
WinnerInv ==
    Undisturbed /\ truth = "SAT" =>
        /\ \A s \in Solves : pc[s] = "model" => answer[s] = "SAT"
        /\ model # End => answer[model] = "SAT"

EventInv == EventTypes /\ SolveTypes /\ PlaceInv /\ ListInv /\ LiveInv /\ ServingInv /\ WalkInv

AnswerInv == ResultInv /\ ModelInv /\ OutputInv /\ BranchInv /\ TruthInv /\ WinnerInv

----------------------------------------------------------------------------
(* Callback lists.                                                         *)

(* push_back adds one element at the end. *)
LEMMA AppendElems ==
  ASSUME NEW S, NEW l \in Seq(S), NEW h \in S, Distinct(l), h \notin ToSet(l)
  PROVE  /\ Append(l, h) \in Seq(S)
         /\ ToSet(Append(l, h)) = ToSet(l) \cup {h}
         /\ Distinct(Append(l, h))
  <1>1. /\ Append(l, h) \in Seq(S) /\ DOMAIN Append(l, h) = 1..(Len(l) + 1)
        /\ \A i \in 1..Len(l) : Append(l, h)[i] = l[i]
        /\ Append(l, h)[Len(l) + 1] = h
        /\ Len(l) \in Nat /\ DOMAIN l = 1..Len(l)
    OBVIOUS
  <1>2. ToSet(Append(l, h)) = ToSet(l) \cup {h}
    BY <1>1 DEF ToSet
  <1>3. \A i \in 1..Len(l) : l[i] # h
    BY <1>1 DEF ToSet
  <1>4. \A i \in 1..(Len(l) + 1) : i \in 1..Len(l) \/ i = Len(l) + 1
    BY <1>1
  <1> QED
    BY <1>1, <1>2, <1>3, <1>4 DEF Distinct

(* unlink takes one element out, which is nowhere else in the list. *)
LEMMA RemoveElems ==
  ASSUME NEW S, NEW l \in Seq(S), Distinct(l), NEW k \in DOMAIN l
  PROVE  /\ RemoveAt(l, k) \in Seq(S)
         /\ ToSet(RemoveAt(l, k)) = ToSet(l) \ {l[k]}
         /\ Distinct(RemoveAt(l, k))
  <1> DEFINE r == RemoveAt(l, k)
             n == Len(l)
  <1>0. n \in Nat /\ DOMAIN l = 1..n /\ k \in 1..n
    OBVIOUS
  <1>1. /\ r \in Seq(S) /\ Len(r) = n - 1 /\ DOMAIN r = 1..(n - 1)
        /\ \A i \in 1..(n - 1) : r[i] = IF i < k THEN l[i] ELSE l[i + 1]
    <2> DEFINE a == SubSeq(l, 1, k - 1)
               b == SubSeq(l, k + 1, n)
    <2>1. /\ a \in Seq(S) /\ Len(a) = k - 1
          /\ \A i \in 1..(k - 1) : a[i] = l[i]
      BY <1>0
    <2>2. /\ b \in Seq(S) /\ Len(b) = n - k
          /\ \A i \in 1..(n - k) : b[i] = l[k + i]
      BY <1>0
    <2>3. r = a \o b
      BY DEF RemoveAt
    <2> HIDE DEF a, b, r, n
    <2>4. /\ r \in Seq(S) /\ Len(r) = Len(a) + Len(b)
          /\ \A i \in 1..(Len(a) + Len(b)) : r[i] = IF i <= Len(a) THEN a[i] ELSE b[i - Len(a)]
      BY <2>1, <2>2, <2>3
    <2>5. Len(a) + Len(b) = n - 1
      BY <1>0, <2>1, <2>2
    <2>6. ASSUME NEW i \in 1..(n - 1) PROVE r[i] = IF i < k THEN l[i] ELSE l[i + 1]
      <3>1. CASE i < k
        BY <1>0, <2>1, <2>4, <2>5, <3>1
      <3>2. CASE ~(i < k)
        <4>1. i - (k - 1) \in 1..(n - k) /\ k + (i - (k - 1)) = i + 1 /\ ~(i <= k - 1)
          BY <1>0, <3>2
        <4> QED
          BY <2>1, <2>2, <2>4, <2>5, <3>2, <4>1
      <3> QED
        BY <3>1, <3>2
    <2> QED
      BY <1>0, <2>4, <2>5, <2>6
  <1> HIDE DEF r, n
  <1>2. ASSUME NEW i \in 1..(n - 1) PROVE r[i] \in ToSet(l) \ {l[k]}
    <2>1. CASE i < k
      BY <1>0, <1>1, <2>1 DEF ToSet, Distinct
    <2>2. CASE ~(i < k)
      <3>1. i + 1 \in 1..n /\ i + 1 # k
        BY <1>0, <2>2
      <3> QED
        BY <1>0, <1>1, <2>2, <3>1 DEF ToSet, Distinct
    <2> QED
      BY <2>1, <2>2
  <1>3. ASSUME NEW i \in 1..n, i # k PROVE l[i] \in ToSet(r)
    <2>1. CASE i < k
      <3>1. i \in 1..(n - 1) /\ r[i] = l[i]
        BY <1>0, <1>1, <2>1
      <3> QED
        BY <1>1, <3>1 DEF ToSet
    <2>2. CASE ~(i < k)
      <3>1. i - 1 \in 1..(n - 1) /\ ~(i - 1 < k) /\ (i - 1) + 1 = i
        BY <1>0, <1>3, <2>2
      <3> QED
        BY <1>1, <3>1 DEF ToSet
    <2> QED
      BY <2>1, <2>2
  <1>4. ToSet(r) = ToSet(l) \ {l[k]}
    BY <1>0, <1>1, <1>2, <1>3 DEF ToSet
  <1>5. ASSUME NEW i \in 1..(n - 1), NEW j \in 1..(n - 1), r[i] = r[j] PROVE i = j
    <2>1. i \in 1..n /\ i + 1 \in 1..n /\ j \in 1..n /\ j + 1 \in 1..n
      BY <1>0
    <2>2. CASE i < k /\ j < k
      BY <1>0, <1>1, <1>5, <2>1, <2>2 DEF Distinct
    <2>3. CASE ~(i < k) /\ ~(j < k)
      <3>1. l[i + 1] = l[j + 1]
        BY <1>1, <1>5, <2>3
      <3>2. i + 1 = j + 1
        BY <1>0, <2>1, <3>1 DEF Distinct
      <3> QED
        BY <1>0, <3>2
    <2>4. CASE i < k /\ ~(j < k)
      BY <1>0, <1>1, <1>5, <2>1, <2>4, SMTT(30) DEF Distinct
    <2>5. CASE ~(i < k) /\ j < k
      BY <1>0, <1>1, <1>5, <2>1, <2>5, SMTT(30) DEF Distinct
    <2> QED
      BY <2>2, <2>3, <2>4, <2>5
  <1>6. Distinct(r)
    BY <1>1, <1>5 DEF Distinct
  <1> QED
    BY <1>1, <1>4, <1>6 DEF r

(* The events of the handles. *)
LEMMA EventFacts ==
  /\ Main \in Handles /\ EventOf[Main] = "INTERRUPT" /\ "INTERRUPT" \in Events
  /\ \A h \in Handles : EventOf[h] \in Events /\ (h = Main \/ h \in Searching)
  /\ \A s \in Searching : /\ s \in Handles /\ s \in Solves /\ s # Main
                          /\ EventOf[s] = "SBS_FOUND" /\ "SBS_FOUND" \in Events
  /\ End \notin Handles /\ End \notin Solves /\ Main \notin Solves
  <1>1. /\ Main \in Handles /\ End \notin Handles /\ End \notin Solves /\ Main \notin Solves
        /\ \A h \in Handles : h = Main \/ h \in Searching
        /\ \A s \in Searching : s \in Handles /\ s \in Solves /\ s # Main
    BY PortfolioAssumption
  <1>2. \A h \in Handles : EventOf[h] = IF h = Main THEN "INTERRUPT" ELSE "SBS_FOUND"
    BY PortfolioAssumption
  <1>3. \A h \in Handles : EventOf[h] \in Events
    BY DEF Events
  <1> QED
    BY <1>1, <1>2, <1>3

(* A handle is in no other list than that of its event. *)
LEMMA LinkedFacts ==
  ASSUME ListInv
  PROVE  \A h \in Handles, e \in Events : h \in ToSet(list[e]) <=> e = EventOf[h] /\ Linked(h)
  BY DEF ListInv, Linked

(* The iterator moves on to another element of the same list. *)
LEMMA SuccessorFacts ==
  ASSUME EventTypes, ListInv, NEW h \in Handles, Linked(h)
  PROVE  /\ Place(h) \in DOMAIN list[EventOf[h]] /\ list[EventOf[h]][Place(h)] = h
         /\ \/ Successor(h) = End
            \/ /\ Successor(h) \in Handles /\ Successor(h) # h
               /\ EventOf[Successor(h)] = EventOf[h] /\ Linked(Successor(h))
  <1> DEFINE l == list[EventOf[h]]
  <1>1. EventOf[h] \in Events /\ l \in Seq(Handles) /\ Distinct(l)
    BY EventFacts DEF EventTypes, ListInv
  <1>2. \E k \in DOMAIN l : l[k] = h
    BY DEF Linked, ToSet
  <1>3. Place(h) \in DOMAIN l /\ l[Place(h)] = h
    BY <1>2 DEF Place
  <1> DEFINE k == Place(h)
  <1>4. ASSUME k # Len(l)
        PROVE  /\ Successor(h) \in Handles /\ Successor(h) # h
               /\ EventOf[Successor(h)] = EventOf[h] /\ Linked(Successor(h))
    <2>1. Successor(h) = l[k + 1]
      BY <1>4 DEF Successor
    <2> HIDE DEF k
    <2>2. k + 1 \in DOMAIN l /\ k + 1 # k
      BY <1>1, <1>3, <1>4 DEF k
    <2>3. l[k + 1] \in Handles /\ l[k + 1] \in ToSet(l) /\ l[k + 1] # h
      BY <1>1, <1>3, <2>2 DEF ToSet, Distinct, k
    <2>4. EventOf[l[k + 1]] = EventOf[h]
      BY <1>1, <2>3 DEF ListInv
    <2> QED
      BY <2>1, <2>3, <2>4 DEF Linked
  <1> QED
    BY <1>3, <1>4 DEF Successor

(* What attach() and unlink() do to the lists. *)
LEMMA AttachList ==
  ASSUME EventTypes, ListInv, NEW h \in Handles, ~Linked(h), Attach(h)
  PROVE  /\ list' \in [Events -> Seq(Handles)] /\ ListInv'
         /\ \A g \in Handles : Linked(g)' <=> Linked(g) \/ g = h
  <1> DEFINE e == EventOf[h]
  <1>1. /\ e \in Events /\ list[e] \in Seq(Handles) /\ Distinct(list[e]) /\ h \notin ToSet(list[e])
        /\ \A g \in ToSet(list[e]) : EventOf[g] = e
    BY EventFacts DEF EventTypes, ListInv, Linked
  <1>2. list' = [list EXCEPT ![e] = Append(list[e], h)]
    BY DEF Attach
  <1>3. /\ Append(list[e], h) \in Seq(Handles) /\ Distinct(Append(list[e], h))
        /\ ToSet(Append(list[e], h)) = ToSet(list[e]) \cup {h}
    BY <1>1, AppendElems
  <1>4. /\ list'[e] = Append(list[e], h)
        /\ \A f \in Events : f # e => list'[f] = list[f]
        /\ list' \in [Events -> Seq(Handles)]
    BY <1>1, <1>2, <1>3 DEF EventTypes
  <1>5. /\ Distinct(list'[e]) /\ ToSet(list'[e]) = ToSet(list[e]) \cup {h}
        /\ \A g \in ToSet(list'[e]) : EventOf[g] = e
    BY <1>1, <1>3, <1>4
  <1>6. ListInv'
    BY <1>4, <1>5 DEF ListInv
  <1>7. ASSUME NEW g \in Handles PROVE Linked(g)' <=> Linked(g) \/ g = h
    <2>1. EventOf[g] \in Events
      BY EventFacts
    <2>2. CASE EventOf[g] = e
      BY <1>5, <2>2 DEF Linked
    <2>3. CASE EventOf[g] # e
      BY <1>4, <2>1, <2>3 DEF Linked
    <2> QED
      BY <2>2, <2>3
  <1> QED
    BY <1>4, <1>6, <1>7

(* unlink() of a handle that is, or is not, in its list. *)
LEMMA UnlinkList ==
  ASSUME EventTypes, ListInv, NEW h \in Handles, Unlink(h)
  PROVE  /\ list' \in [Events -> Seq(Handles)] /\ ListInv'
         /\ \A g \in Handles : Linked(g)' <=> Linked(g) /\ g # h
  <1>1. CASE ~Linked(h)
    <2>1. list' = list
      BY <1>1 DEF Unlink
    <2> QED
      BY <1>1, <2>1 DEF EventTypes, ListInv, Linked
  <1>2. CASE Linked(h)
    <2> DEFINE e == EventOf[h]
               r == RemoveAt(list[e], Place(h))
    <2>1. /\ e \in Events /\ list[e] \in Seq(Handles) /\ Distinct(list[e])
          /\ Place(h) \in DOMAIN list[e] /\ list[e][Place(h)] = h
          /\ \A g \in ToSet(list[e]) : EventOf[g] = e
      BY <1>2, EventFacts, SuccessorFacts DEF EventTypes, ListInv
    <2>2. list' = [list EXCEPT ![e] = r]
      BY <1>2 DEF Unlink
    <2>3. r \in Seq(Handles) /\ Distinct(r) /\ ToSet(r) = ToSet(list[e]) \ {h}
      BY <2>1, RemoveElems
    <2> HIDE DEF r
    <2>4. /\ list'[e] = r
          /\ \A f \in Events : f # e => list'[f] = list[f]
          /\ list' \in [Events -> Seq(Handles)]
      BY <2>1, <2>2, <2>3 DEF EventTypes
    <2>5. /\ Distinct(list'[e]) /\ ToSet(list'[e]) = ToSet(list[e]) \ {h}
          /\ \A g \in ToSet(list'[e]) : EventOf[g] = e
      BY <2>1, <2>3, <2>4
    <2>6. ListInv'
      BY <2>4, <2>5 DEF ListInv
    <2>7. ASSUME NEW g \in Handles PROVE Linked(g)' <=> Linked(g) /\ g # h
      <3>1. EventOf[g] \in Events
        BY EventFacts
      <3>2. CASE EventOf[g] = e
        BY <2>5, <3>2 DEF Linked
      <3>3. CASE EventOf[g] # e
        BY <2>4, <3>1, <3>3 DEF Linked
      <3> QED
        BY <3>2, <3>3
    <2> QED
      BY <2>4, <2>6, <2>7
  <1> QED
    BY <1>1, <1>2

----------------------------------------------------------------------------
(* The EventHandler.                                                       *)

(* What any step is to the EventHandler: a handle is attached only while it *)
(* is in no list.                                                           *)
LEMMA EventCases ==
  ASSUME EventInv, [Next]_vars
  PROVE  \/ UNCHANGED eventVars
         \/ \E e \in Events : Raise(e)
         \/ \E h \in Handles : ~Linked(h) /\ Attach(h)
         \/ \E h \in Handles : Detach(h)
         \/ Shutdown
         \/ Test \/ Block \/ Begin \/ StepIterator
         \/ SelfDetach(Gone(cur), Assigning(cur)) /\ UNCHANGED <<mpc, pc>>
         \/ SelfUnlink(Gone(cur))
         \/ Callback
  <1> DEFINE Goal == \/ UNCHANGED eventVars
                     \/ \E e \in Events : Raise(e)
                     \/ \E h \in Handles : ~Linked(h) /\ Attach(h)
                     \/ \E h \in Handles : Detach(h)
                     \/ Shutdown
                     \/ Test \/ Block \/ Begin \/ StepIterator
                     \/ SelfDetach(Gone(cur), Assigning(cur)) /\ UNCHANGED <<mpc, pc>>
                     \/ SelfUnlink(Gone(cur))
                     \/ Callback
  <1> USE EventFacts
  <1>1. CASE Over \/ UNCHANGED vars
    BY <1>1 DEF Over, vars
  <1>2. CASE Signal
    BY <1>2 DEF Signal
  <1>3. CASE MainThread
    <2>1. CASE MainAttach
      <3>1. ~Linked(Main)
        BY <2>1 DEF MainAttach, EventInv, LiveInv, Alive
      <3> QED
        BY <2>1, <3>1 DEF MainAttach
    <2>2. CASE MainDetach
      BY <2>2 DEF MainDetach
    <2>3. CASE MainAssign \/ StartSolves \/ JoinSolves \/ StopSignals \/ ExitEvents \/ Exit
      BY <2>3 DEF MainAssign, StartSolves, JoinSolves, StopSignals, ExitEvents, Exit
    <2> QED
      BY <1>3, <2>1, <2>2, <2>3 DEF MainThread
  <1>4. CASE EventThread
    BY <1>4 DEF EventThread, mainVars, solveVars
  <1>5. ASSUME NEW s \in Solves, SolveThread(s) PROVE Goal
    <2>1. CASE AttachSearch(s)
      <3>1. s \in Searching
        BY <2>1 DEF AttachSearch, EventInv, PlaceInv
      <3>2. ~Linked(s)
        BY <2>1, <3>1 DEF AttachSearch, EventInv, LiveInv, Alive
      <3> QED
        BY <2>1, <3>1, <3>2 DEF AttachSearch
    <2>2. CASE FoundSbs(s)
      <3>1. s \in Searching
        BY <2>2 DEF FoundSbs, EventInv, PlaceInv
      <3> QED
        BY <2>2, <3>1 DEF FoundSbs
    <2>3. CASE DetachSearch(s)
      <3>1. s \in Searching
        BY <2>3 DEF DetachSearch, EventInv, PlaceInv
      <3> QED
        BY <2>3, <3>1 DEF DetachSearch
    <2>4. ASSUME NEW r, SolveReturns(s, r) PROVE Goal
      BY <2>4 DEF SolveReturns
    <2>5. CASE AssignSearch(s) \/ NoSbs(s) \/ EnterSearch(s) \/ NextBranch(s) \/ Compete(s)
               \/ TakeModel(s) \/ InterruptOthers(s)
      BY <2>5 DEF AssignSearch, NoSbs, EnterSearch, NextBranch, Compete, TakeModel, InterruptOthers
    <2> QED
      BY <1>5, <2>1, <2>2, <2>3, <2>4, <2>5 DEF SolveThread
  <1> QED
    BY <1>1, <1>2, <1>3, <1>4, <1>5 DEF Next, Running

(* notify_one wakes the event thread only if it is blocked. *)
LEMMA NotifyFacts ==
  ASSUME EventTypes, NotifyOne
  PROVE  epc' \in EventPlaces /\ (epc' = epc \/ epc' = "top")
  BY DEF NotifyOne, EventTypes, EventPlaces

(* The lists stay lists of handles, each in its own list once. *)
LEMMA ListStep ==
  ASSUME EventInv, [Next]_vars
  PROVE  EventTypes' /\ ListInv'
  <1> USE EventFacts DEF EventInv, threadVars, eventVars
  <1>a. EventTypes /\ ListInv
    OBVIOUS
  <1>b. ASSUME list' = list PROVE ListInv'
    BY <1>b DEF ListInv
  <1>1. CASE UNCHANGED eventVars
    BY <1>1, <1>b DEF EventTypes
  <1>2. ASSUME NEW e \in Events, Raise(e) PROVE EventTypes' /\ ListInv'
    BY <1>2, <1>b, NotifyFacts DEF Raise, EventTypes
  <1>3. ASSUME NEW h \in Handles, ~Linked(h), Attach(h) PROVE EventTypes' /\ ListInv'
    <2>1. list' \in [Events -> Seq(Handles)] /\ ListInv'
      BY <1>3, AttachList
    <2> QED
      BY <1>3, <2>1, NotifyFacts DEF Attach, EventTypes
  <1>4. ASSUME NEW h \in Handles, Detach(h) PROVE EventTypes' /\ ListInv'
    <2>1. list' \in [Events -> Seq(Handles)] /\ ListInv'
      BY <1>4, UnlinkList DEF Detach
    <2>2. raced' \in BOOLEAN
      BY <1>4 DEF Detach
    <2> QED
      BY <1>4, <2>1, <2>2 DEF Detach, EventTypes
  <1>5. CASE Shutdown
    BY <1>5, <1>b, NotifyFacts DEF Shutdown, EventTypes
  <1>6. CASE Test
    <2>0. equeue # <<>> => Head(equeue) \in Events /\ Tail(equeue) \in Seq(Events)
      BY DEF EventTypes
    <2>1. equeue' \in Seq(Events) /\ event' \in Events \cup {End}
      BY <1>6, <2>0 DEF Test, EventTypes
    <2>2. epc' \in EventPlaces
      BY <1>6 DEF Test, EventPlaces
    <2> QED
      BY <1>6, <1>b, <2>1, <2>2 DEF Test, EventTypes
  <1>7. CASE Block
    BY <1>7, <1>b DEF Block, EventTypes, EventPlaces
  <1>8. CASE Begin
    <2>1. it' \in Handles \cup {End}
      <3>1. event \in Events
        BY <1>8 DEF Begin, ServingInv, Serving
      <3>2. list[event] \in Seq(Handles)
        BY <3>1 DEF EventTypes
      <3> QED
        BY <1>8, <3>2 DEF Begin
    <2> QED
      BY <1>8, <1>b, <2>1 DEF Begin, EventTypes, EventPlaces
  <1>9. CASE StepIterator
    <2>1. CASE it # End /\ Linked(it)
      <3>1. it \in Handles
        BY <2>1 DEF EventTypes
      <3>2. Successor(it) \in Handles \cup {End}
        BY <2>1, <3>1, SuccessorFacts
      <3> QED
        BY <1>9, <1>b, <2>1, <3>1, <3>2 DEF StepIterator, EventTypes, EventPlaces
    <2>2. CASE it = End \/ ~Linked(it)
      BY <1>9, <1>b, <2>2 DEF StepIterator, EventTypes, EventPlaces
    <2> QED
      BY <2>1, <2>2
  <1>10. CASE SelfDetach(Gone(cur), Assigning(cur))
    BY <1>10, <1>b DEF SelfDetach, EventTypes, EventPlaces
  <1>11. CASE SelfUnlink(Gone(cur))
    <2>1. cur \in Handles
      BY <1>11 DEF SelfUnlink, ServingInv
    <2>2. list' \in [Events -> Seq(Handles)] /\ ListInv'
      <3>1. CASE list' = list
        BY <1>b, <3>1 DEF EventTypes
      <3>2. CASE Unlink(cur)
        BY <2>1, <3>2, UnlinkList
      <3> QED
        BY <1>11, <3>1, <3>2 DEF SelfUnlink
    <2>3. epc' \in EventPlaces
      BY <1>11 DEF SelfUnlink, EventPlaces
    <2> QED
      BY <1>11, <2>2, <2>3 DEF SelfUnlink, EventTypes
  <1>12. CASE Callback
    BY <1>12, <1>b DEF Callback, EventTypes, EventPlaces
  <1> QED
    BY <1>1, <1>2, <1>3, <1>4, <1>5, <1>6, <1>7, <1>8, <1>9, <1>10, <1>11, <1>12, EventCases

(* Another thread leaves the event thread where it is, or wakes it. *)
Elsewhere == threadVars' = threadVars /\ (epc' = epc \/ epc' = "top")

(* The iterator and the current handle belong to the event being served. *)
LEMMA ServingStep ==
  ASSUME EventInv, [Next]_vars
  PROVE  ServingInv'
  <1> USE EventFacts DEF EventInv, threadVars, eventVars
  <1>1. CASE Elsewhere
    BY <1>1 DEF Elsewhere, ServingInv, Serving
  <1>2. ASSUME NEW e \in Events, Raise(e) PROVE Elsewhere
    BY <1>2, NotifyFacts DEF Raise, Elsewhere
  <1>3. ASSUME NEW h \in Handles, Attach(h) \/ Detach(h) PROVE Elsewhere
    BY <1>3, NotifyFacts DEF Attach, Detach, Elsewhere
  <1>4. CASE Shutdown \/ UNCHANGED eventVars
    <2>1. CASE Shutdown
      BY <1>1, <2>1, NotifyFacts DEF Shutdown, Elsewhere
    <2>2. CASE UNCHANGED eventVars
      BY <1>1, <2>2 DEF Elsewhere
    <2> QED
      BY <1>4, <2>1, <2>2
  <1>5. CASE Test
    <2>1. epc' = "begin" => event' \in Events
      BY <1>5 DEF Test, EventTypes
    <2>2. epc' \in {"begin", "stopped", "checked"}
      BY <1>5 DEF Test
    <2> QED
      BY <2>1, <2>2 DEF ServingInv, Serving
  <1>6. CASE Block
    BY <1>6 DEF Block, ServingInv, Serving
  <1>7. CASE Begin
    <2>1. event \in Events /\ event' = event /\ epc' = "next"
      BY <1>7 DEF Begin, ServingInv, Serving
    <2>2. it' # End => it' \in ToSet(list[event])
      <3>1. list[event] \in Seq(Handles)
        BY <2>1 DEF EventTypes
      <3>2. CASE list[event] = <<>>
        BY <1>7, <3>2 DEF Begin
      <3>3. CASE list[event] # <<>>
        <4>1. Head(list[event]) = list[event][1] /\ 1 \in DOMAIN list[event]
          BY <3>1, <3>3
        <4> QED
          BY <1>7, <3>3, <4>1 DEF Begin, ToSet
      <3> QED
        BY <3>2, <3>3
    <2>3. it' # End => EventOf[it'] = event'
      BY <2>1, <2>2 DEF ListInv
    <2> QED
      BY <2>1, <2>3 DEF ServingInv, Serving
  <1>8. CASE StepIterator
    <2>1. CASE it # End /\ Linked(it)
      <3>1. it \in Handles
        BY <2>1 DEF EventTypes
      <3>2. Successor(it) = End \/ EventOf[Successor(it)] = EventOf[it]
        BY <2>1, <3>1, SuccessorFacts
      <3> QED
        BY <1>8, <2>1, <3>1, <3>2 DEF StepIterator, ServingInv, Serving
    <2>2. CASE it = End \/ ~Linked(it)
      BY <1>8, <2>2 DEF StepIterator, ServingInv, Serving
    <2> QED
      BY <2>1, <2>2
  <1>9. CASE SelfDetach(Gone(cur), Assigning(cur)) \/ SelfUnlink(Gone(cur)) \/ Callback
    BY <1>9 DEF SelfDetach, SelfUnlink, Callback, ServingInv, Serving
  <1> QED
    BY <1>1, <1>2, <1>3, <1>4, <1>5, <1>6, <1>7, <1>8, <1>9, EventCases

(* Unless an owner takes a handle out of the list being walked, the event   *)
(* thread finds every element it steps to.                                  *)
LEMMA WalkStep ==
  ASSUME EventInv, [Next]_vars
  PROVE  WalkInv'
  <1> USE EventFacts DEF EventInv, threadVars, eventVars
  <1>a. CASE epc = "crashed"
    <2>1. UNCHANGED vars
      BY <1>a DEF Next, Running, Over
    <2> QED
      BY <1>a, <2>1 DEF vars, mainVars, solveVars, WalkInv, Assigning
  <1> SUFFICES ASSUME epc # "crashed" PROVE WalkInv'
    BY <1>a
  <1>0. ASSUME NEW h \in Handles, Linked(h) PROVE ~Gone(h)
    BY <1>0 DEF LiveInv, Alive, Gone
  <1>1. ASSUME Elsewhere, raced' = raced, \A h \in Handles : Linked(h) => Linked(h)'
        PROVE  WalkInv'
    BY <1>1 DEF Elsewhere, WalkInv, EventTypes, ServingInv
  <1>2. ASSUME list' = list, NEW h PROVE Linked(h)' <=> Linked(h)
    BY <1>2 DEF Linked
  <1>3. ASSUME NEW e \in Events, Raise(e) PROVE WalkInv'
    BY <1>1, <1>2, <1>3, NotifyFacts DEF Raise, Elsewhere
  <1>4. CASE Shutdown \/ UNCHANGED eventVars
    BY <1>1, <1>2, <1>4, NotifyFacts DEF Shutdown, Elsewhere
  <1>5. ASSUME NEW h \in Handles, ~Linked(h), Attach(h) PROVE WalkInv'
    BY <1>1, <1>5, AttachList, NotifyFacts DEF Attach, Elsewhere
  <1>6. ASSUME NEW h \in Handles, Detach(h) PROVE WalkInv'
    <2>1. \A g \in Handles : Linked(g)' <=> Linked(g) /\ g # h
      BY <1>6, UnlinkList DEF Detach
    <2>2. UNCHANGED <<epc, it, cur, event>>
      BY <1>6 DEF Detach
    <2>3. raced' <=> raced \/ (Serving /\ event = EventOf[h])
      BY <1>6 DEF Detach
    <2> QED
      BY <2>1, <2>2, <2>3 DEF WalkInv, ServingInv, Serving, EventTypes
  <1>7. CASE Test
    <2>1. epc' \in {"begin", "stopped", "checked"}
      BY <1>7 DEF Test
    <2> QED
      BY <2>1 DEF WalkInv
  <1>8. CASE Block
    BY <1>8 DEF Block, WalkInv
  <1>9. CASE Begin
    <2>1. event \in Events /\ epc' = "next" /\ list' = list
      BY <1>9 DEF Begin, ServingInv, Serving
    <2>2. it' # End => it' \in ToSet(list[event])
      <3>1. list[event] \in Seq(Handles)
        BY <2>1 DEF EventTypes
      <3>2. CASE list[event] = <<>>
        BY <1>9, <3>2 DEF Begin
      <3>3. CASE list[event] # <<>>
        <4>1. Head(list[event]) = list[event][1] /\ 1 \in DOMAIN list[event]
          BY <3>1, <3>3
        <4> QED
          BY <1>9, <3>3, <4>1 DEF Begin, ToSet
      <3> QED
        BY <3>2, <3>3
    <2>3. it' # End => Linked(it)'
      BY <2>1, <2>2 DEF ListInv, Linked
    <2> QED
      BY <2>1, <2>3 DEF WalkInv
  <1>10. CASE StepIterator
    <2>0. list' = list /\ raced' = raced
      BY <1>10 DEF StepIterator
    <2>1. CASE it # End /\ Linked(it)
      <3>1. it \in Handles
        BY <2>1 DEF EventTypes
      <3>2. \/ Successor(it) = End
            \/ Linked(Successor(it)) /\ Successor(it) # it
        BY <2>1, <3>1, SuccessorFacts
      <3>3. epc' = "call" /\ cur' = it /\ it' = Successor(it)
        BY <1>10, <2>1 DEF StepIterator
      <3>4. Linked(cur)' /\ (it' # End => Linked(it)') /\ it' # cur'
        BY <2>0, <2>1, <3>1, <3>2, <3>3 DEF Linked
      <3> QED
        BY <3>3, <3>4 DEF WalkInv
    <2>2. CASE it = End
      BY <1>10, <2>2 DEF StepIterator, WalkInv
    <2>3. CASE it # End /\ ~Linked(it)
      BY <1>10, <2>0, <2>3 DEF StepIterator, WalkInv
    <2> QED
      BY <2>1, <2>2, <2>3
  <1>11. CASE \/ SelfDetach(Gone(cur), Assigning(cur)) /\ UNCHANGED <<mpc, pc>>
              \/ Callback
    <2>1. list' = list /\ UNCHANGED <<it, cur, raced, mpc, pc>>
      BY <1>11 DEF SelfDetach, Callback, mainVars
    <2>2. epc \in {"self", "call"} /\ epc' \in {"next", "unlink", "self", "crashed"}
      BY <1>11 DEF SelfDetach, Callback
    <2>3. epc' = "crashed" => Gone(cur) \/ Assigning(cur)
      BY <1>11 DEF SelfDetach, Callback
    <2>a. cur # End /\ (Assigning(cur) => Assigning(cur)')
      BY <2>1, <2>2 DEF ServingInv, Assigning
    <2>4. ~raced => ~Gone(cur)
      BY <1>0, <2>2 DEF WalkInv, ServingInv
    <2>5. Linked(cur)' <=> Linked(cur)
      BY <2>1 DEF Linked
    <2>6. Linked(it)' <=> Linked(it)
      BY <2>1 DEF Linked
    <2> QED
      BY <2>1, <2>2, <2>3, <2>a, <2>4, <2>5, <2>6 DEF WalkInv
  <1>12. CASE SelfUnlink(Gone(cur))
    <2>1. UNCHANGED <<it, cur, raced>> /\ epc = "unlink" /\ cur \in Handles
      BY <1>12 DEF SelfUnlink, ServingInv
    <2>2. CASE raced
      BY <2>1, <2>2 DEF WalkInv
    <2>3. CASE ~raced
      <3>1. Linked(cur) /\ it # cur /\ (it # End => Linked(it)) /\ ~Gone(cur)
        BY <1>0, <2>1, <2>3 DEF WalkInv
      <3>2. epc' = "next" /\ Unlink(cur)
        BY <1>12, <3>1 DEF SelfUnlink
      <3>3. \A g \in Handles : Linked(g)' <=> Linked(g) /\ g # cur
        BY <2>1, <3>2, UnlinkList
      <3>4. it # End => Linked(it)'
        BY <2>1, <3>1, <3>3 DEF EventTypes, Linked
      <3> QED
        BY <2>1, <3>2, <3>4 DEF WalkInv
    <2> QED
      BY <2>2, <2>3
  <1> QED
    BY <1>3, <1>4, <1>5, <1>6, <1>7, <1>8, <1>9, <1>10, <1>11, <1>12, EventCases

----------------------------------------------------------------------------
(* main() and the solves.                                                  *)

(* PortfolioSolve::interrupt, by whomever, leaves flags. *)
LEMMA InterruptTypes ==
  ASSUME InterruptAll
  PROVE  /\ wanted' \in [Solves -> BOOLEAN] /\ flag' \in [Naive -> BOOLEAN]
         /\ stopped' \in [Searching -> BOOLEAN]
  <1>1. \A s \in Searching : (~Gone(s)) \in BOOLEAN
    BY DEF Gone
  <1> QED
    BY <1>1 DEF InterruptAll

(* Where a solve that moves was and is. *)
LEMMA GotoFacts ==
  ASSUME SolveTypes, NEW s \in Solves, NEW to \in SolvePlaces, Goto(s, to)
  PROVE  /\ pc' \in [Solves -> SolvePlaces] /\ pc'[s] = to
         /\ \A r \in Solves : r # s => pc'[r] = pc[r]
  BY DEF SolveTypes, Goto

(* The variables of main() and of the solves keep their types. *)
LEMMA SolveTypesStep ==
  ASSUME EventInv, [Next]_vars
  PROVE  SolveTypes'
  <1> USE EventFacts DEF EventInv, searchVars, solveVars, mainVars
  <1>a. SolveTypes
    OBVIOUS
  <1>b. ASSUME NEW s \in Solves, pc[s] \in {"attach", "assign", "find", "detach"} PROVE s \in Searching
    BY <1>b DEF PlaceInv
  <1>1. CASE UNCHANGED <<mainVars, solveVars, truth>>
    BY <1>1 DEF SolveTypes
  <1>2. CASE Signal /\ UNCHANGED truth
    BY <1>2 DEF Signal, SolveTypes
  <1>3. CASE MainThread /\ UNCHANGED truth
    <2>1. CASE MainAttach \/ MainAssign \/ JoinSolves \/ StopSignals \/ ExitEvents \/ Exit
      BY <1>3, <2>1
      DEF MainAttach, MainAssign, JoinSolves, StopSignals, ExitEvents, Exit, SolveTypes, MainPlaces
    <2>2. CASE StartSolves
      <3>1. pc' \in [Solves -> SolvePlaces]
        BY <2>2 DEF StartSolves, SolvePlaces
      <3> QED
        BY <1>3, <2>2, <3>1 DEF StartSolves, SolveTypes, MainPlaces
    <2>3. CASE MainDetach
      <3>1. output' \in [state : Results, model : Solves \cup {End}]
        BY <2>3 DEF MainDetach, SolveTypes
      <3> QED
        BY <1>3, <2>3, <3>1 DEF MainDetach, SolveTypes, MainPlaces
    <2> QED
      BY <1>3, <2>1, <2>2, <2>3 DEF MainThread
  <1>4. CASE Callback /\ UNCHANGED truth
    <2>1. /\ wanted' \in [Solves -> BOOLEAN] /\ flag' \in [Naive -> BOOLEAN]
          /\ stopped' \in [Searching -> BOOLEAN]
      BY <1>4, InterruptTypes DEF Callback, SolveTypes
    <2> QED
      BY <1>4, <2>1 DEF Callback, SolveTypes
  <1>5. ASSUME NEW s \in Solves, SolveThread(s), UNCHANGED truth PROVE SolveTypes'
    <2>1. CASE AttachSearch(s)
      <3>1. branch' \in [Searching -> Nat]
        BY <1>b, <2>1 DEF AttachSearch, SolveTypes
      <3>2. pc' \in [Solves -> SolvePlaces]
        BY <2>1, GotoFacts DEF AttachSearch, SolvePlaces
      <3> QED
        BY <1>5, <2>1, <3>1, <3>2 DEF AttachSearch, SolveTypes
    <2>2. CASE FoundSbs(s)
      <3>1. sbs' \in [Searching -> BOOLEAN] /\ sideways' \in BOOLEAN
        BY <2>2 DEF FoundSbs, SolveTypes
      <3>2. pc' \in [Solves -> SolvePlaces]
        BY <2>2, GotoFacts DEF FoundSbs, SolvePlaces
      <3> QED
        BY <1>5, <2>2, <3>1, <3>2 DEF FoundSbs, SolveTypes
    <2>3. CASE DetachSearch(s)
      <3>1. PICK to \in {"cas", "search"} : Goto(s, to)
        BY <2>3 DEF DetachSearch
      <3>2. pc' \in [Solves -> SolvePlaces]
        BY <3>1, GotoFacts DEF SolvePlaces
      <3>3. PICK r \in Results : answer' = [answer EXCEPT ![s] = r]
        BY <2>3 DEF DetachSearch, SolveTypes, Results
      <3>4. answer' \in [Solves -> Results]
        BY <3>3 DEF SolveTypes
      <3>5. /\ stopped' \in [Searching -> BOOLEAN] /\ sbs' \in [Searching -> BOOLEAN]
            /\ dropped' \in [Searching -> BOOLEAN]
        BY <2>3 DEF DetachSearch, SolveTypes
      <3> QED
        BY <1>5, <2>3, <3>2, <3>4, <3>5 DEF DetachSearch, SolveTypes
    <2>4. CASE AssignSearch(s) \/ EnterSearch(s) \/ NoSbs(s) \/ NextBranch(s)
      <3>1. PICK to \in {"find", "search", "detach", "attach"} : Goto(s, to)
        BY <2>4 DEF AssignSearch, EnterSearch, NoSbs, NextBranch
      <3>2. pc' \in [Solves -> SolvePlaces]
        BY <3>1, GotoFacts DEF SolvePlaces
      <3>3. flag' \in [Naive -> BOOLEAN]
        BY <2>4 DEF AssignSearch, EnterSearch, NoSbs, NextBranch, SolveTypes
      <3> QED
        BY <1>5, <2>4, <3>2, <3>3 DEF AssignSearch, EnterSearch, NoSbs, NextBranch, SolveTypes
    <2>5. ASSUME NEW r \in Results, SolveReturns(s, r) PROVE SolveTypes'
      <3>1. pc' \in [Solves -> SolvePlaces]
        BY <2>5, GotoFacts DEF SolveReturns, SolvePlaces
      <3>2. answer' \in [Solves -> Results]
        BY <2>5 DEF SolveReturns, SolveTypes
      <3> QED
        BY <1>5, <2>5, <3>1, <3>2 DEF SolveReturns, SolveTypes
    <2>6. CASE Compete(s) \/ TakeModel(s)
      <3>1. PICK to \in {"model", "done", "interrupt"} : Goto(s, to)
        BY <2>6 DEF Compete, TakeModel
      <3>2. pc' \in [Solves -> SolvePlaces]
        BY <3>1, GotoFacts DEF SolvePlaces
      <3>3. result' \in Results /\ model' \in Solves \cup {End}
        BY <2>6 DEF Compete, TakeModel, SolveTypes
      <3> QED
        BY <1>5, <2>6, <3>2, <3>3 DEF Compete, TakeModel, SolveTypes
    <2>7. CASE InterruptOthers(s)
      <3>1. pc' \in [Solves -> SolvePlaces]
        BY <2>7, GotoFacts DEF InterruptOthers, SolvePlaces
      <3> QED
        BY <1>5, <2>7, <3>1, InterruptTypes DEF InterruptOthers, SolveTypes
    <2> QED
      BY <1>5, <2>1, <2>2, <2>3, <2>4, <2>5, <2>6, <2>7 DEF SolveThread, Results
  <1> QED
    BY <1>1, <1>2, <1>3, <1>4, <1>5 DEF Next, Running, Over, vars, EventThread

(* What any step is to the places of main() and of the solves. *)
LEMMA PlaceCases ==
  ASSUME EventInv, [Next]_vars
  PROVE  \/ UNCHANGED <<mpc, pc>>
         \/ MainThread /\ UNCHANGED truth
         \/ \E s \in Solves : SolveThread(s) /\ UNCHANGED <<mainVars, truth>>
  <1>1. ASSUME NEW s \in Solves, SolveThread(s) PROVE UNCHANGED mainVars
    BY <1>1 DEF SolveThread, AttachSearch, AssignSearch, FoundSbs, NoSbs, DetachSearch, EnterSearch, NextBranch,
                SolveReturns, Compete, TakeModel, InterruptOthers
  <1> QED
    BY <1>1 DEF Next, Running, Over, vars, EventThread, Callback, Signal, mainVars, solveVars

(* Threads are where they may be. *)
LEMMA PlaceStep ==
  ASSUME EventInv, [Next]_vars
  PROVE  PlaceInv'
  <1> USE EventFacts DEF EventInv, searchVars, solveVars, mainVars, Printed
  <1>1. CASE UNCHANGED <<mpc, pc>>
    BY <1>1 DEF PlaceInv
  <1>2. CASE MainThread
    <2>1. CASE StartSolves
      BY <2>1 DEF StartSolves, PlaceInv
    <2>2. CASE MainAttach \/ MainAssign \/ JoinSolves \/ MainDetach \/ StopSignals \/ ExitEvents \/ Exit
      BY <2>2 DEF MainAttach, MainAssign, JoinSolves, MainDetach, StopSignals, ExitEvents, Exit, PlaceInv
    <2> QED
      BY <1>2, <2>1, <2>2 DEF MainThread
  <1>3. ASSUME NEW s \in Solves, SolveThread(s), UNCHANGED mainVars PROVE PlaceInv'
    <2>1. PICK to \in SolvePlaces : /\ Goto(s, to)
                                    /\ to \in {"attach", "assign", "find", "detach"} => s \in Searching
      <3>1. CASE DetachSearch(s)
        BY <3>1 DEF DetachSearch, SolvePlaces
      <3>2. CASE Compete(s)
        BY <3>2 DEF Compete, SolvePlaces
      <3>3. CASE NextBranch(s)
        BY <3>3, PortfolioAssumption DEF NextBranch, SolvePlaces
      <3>4. CASE AttachSearch(s) \/ AssignSearch(s) \/ FoundSbs(s) \/ NoSbs(s)
        BY <3>4 DEF AttachSearch, AssignSearch, FoundSbs, NoSbs, SolvePlaces, PlaceInv
      <3>5. CASE EnterSearch(s) \/ (\E r \in Results : SolveReturns(s, r)) \/ TakeModel(s)
                 \/ InterruptOthers(s)
        BY <3>5 DEF EnterSearch, SolveReturns, TakeModel, InterruptOthers, SolvePlaces
      <3> QED
        BY <1>3, <3>1, <3>2, <3>3, <3>4, <3>5 DEF SolveThread, Results
    <2>2. pc[s] \notin {"unborn", "done"}
      BY <1>3 DEF SolveThread, AttachSearch, AssignSearch, FoundSbs, NoSbs, DetachSearch, EnterSearch,
                  NextBranch, SolveReturns, Compete, TakeModel, InterruptOthers
    <2>3. mpc' = mpc /\ mpc \notin {"attach", "assign", "solve", "detach"} /\ ~Printed
      BY <1>3, <2>2 DEF PlaceInv
    <2>4. pc'[s] = to /\ \A r \in Solves : r # s => pc'[r] = pc[r]
      BY <2>1, GotoFacts
    <2> QED
      BY <2>1, <2>3, <2>4 DEF PlaceInv
  <1> QED
    BY <1>1, <1>2, <1>3, PlaceCases

(* A handle leaves its list before the objects of its callback are gone. *)
LEMMA LiveStep ==
  ASSUME EventInv, [Next]_vars
  PROVE  LiveInv'
  <1> USE EventFacts DEF EventInv, searchVars, solveVars, mainVars, eventVars
  <1>a. EventTypes /\ ListInv /\ SolveTypes
    OBVIOUS
  <1>b. ASSUME \A h \in Handles : Linked(h)' => Linked(h), UNCHANGED <<mpc, pc>> PROVE LiveInv'
    BY <1>b DEF LiveInv, Alive
  <1>c. ASSUME list' = list, NEW h PROVE Linked(h)' <=> Linked(h)
    BY <1>c DEF Linked
  <1>1. CASE Over \/ UNCHANGED vars \/ Signal
    BY <1>1, <1>b, <1>c DEF Over, vars, Signal, Raise
  <1>2. CASE EventThread
    <2>1. UNCHANGED <<mpc, pc>>
      BY <1>2 DEF EventThread, Callback
    <2>2. CASE list' = list
      BY <1>b, <1>c, <2>1, <2>2
    <2>3. CASE SelfUnlink(Gone(cur)) /\ Unlink(cur)
      BY <1>b, <2>1, <2>3, UnlinkList DEF SelfUnlink, ServingInv
    <2> QED
      BY <1>2, <2>2, <2>3 DEF EventThread, Test, Block, Begin, StepIterator, SelfDetach, SelfUnlink,
                              Callback
  <1>3. CASE MainThread
    <2>1. CASE MainAttach
      <3>1. ~Linked(Main)
        BY <2>1 DEF MainAttach, LiveInv, Alive
      <3>2. \A h \in Handles : Linked(h)' <=> Linked(h) \/ h = Main
        BY <2>1, <3>1, AttachList DEF MainAttach
      <3>3. mpc' = "assign" /\ pc' = pc
        BY <2>1 DEF MainAttach
      <3> QED
        BY <3>2, <3>3 DEF LiveInv, Alive
    <2>2. CASE MainDetach
      <3>1. \A h \in Handles : Linked(h)' <=> Linked(h) /\ h # Main
        BY <2>2, UnlinkList DEF MainDetach, Detach
      <3>2. pc' = pc
        BY <2>2 DEF MainDetach
      <3> QED
        BY <3>1, <3>2 DEF LiveInv, Alive
    <2>3. CASE StartSolves
      <3>1. list' = list /\ mpc = "solve" /\ mpc' = "wait"
        BY <2>3 DEF StartSolves
      <3>2. \A h \in Handles : Linked(h) => h = Main
        BY <3>1 DEF LiveInv, Alive, PlaceInv
      <3> QED
        BY <1>c, <3>1, <3>2 DEF LiveInv, Alive
    <2>4. CASE MainAssign \/ JoinSolves \/ StopSignals \/ ExitEvents \/ Exit
      <3>1. list' = list /\ pc' = pc
        BY <2>4 DEF MainAssign, JoinSolves, StopSignals, ExitEvents, Exit, Shutdown
      <3>2. mpc' \in {"solve", "detach"} \/ mpc \notin {"assign", "solve", "wait", "detach"}
        BY <2>4 DEF MainAssign, JoinSolves, StopSignals, ExitEvents, Exit
      <3> QED
        BY <1>c, <3>1, <3>2 DEF LiveInv, Alive
    <2> QED
      BY <1>3, <2>1, <2>2, <2>3, <2>4 DEF MainThread
  <1>4. ASSUME NEW s \in Solves, SolveThread(s), UNCHANGED mainVars PROVE LiveInv'
    <2>0. s # Main /\ mpc' = mpc
      BY <1>4
    <2>1. CASE AttachSearch(s)
      <3>1. s \in Searching /\ ~Linked(s)
        BY <2>0, <2>1 DEF AttachSearch, LiveInv, Alive, PlaceInv
      <3>2. \A h \in Handles : Linked(h)' <=> Linked(h) \/ h = s
        BY <2>1, <3>1, AttachList DEF AttachSearch
      <3>3. pc'[s] = "assign" /\ \A r \in Solves : r # s => pc'[r] = pc[r]
        BY <2>1, GotoFacts DEF AttachSearch, SolvePlaces
      <3> QED
        BY <2>0, <3>2, <3>3 DEF LiveInv, Alive
    <2>2. CASE DetachSearch(s)
      <3>1. s \in Searching
        BY <2>2 DEF DetachSearch, PlaceInv
      <3>2. \A h \in Handles : Linked(h)' <=> Linked(h) /\ h # s
        BY <2>2, <3>1, UnlinkList DEF DetachSearch, Detach
      <3>3. PICK to \in {"cas", "search"} : Goto(s, to)
        BY <2>2 DEF DetachSearch
      <3>4. \A r \in Solves : r # s => pc'[r] = pc[r]
        BY <3>3, GotoFacts DEF SolvePlaces
      <3> QED
        BY <2>0, <3>2, <3>4 DEF LiveInv, Alive
    <2>3. CASE AssignSearch(s) \/ FoundSbs(s) \/ NoSbs(s)
      <3>1. PICK to \in {"find", "detach"} : list' = list /\ Goto(s, to)
        BY <2>3 DEF AssignSearch, FoundSbs, NoSbs, Raise
      <3>2. pc'[s] = to /\ \A r \in Solves : r # s => pc'[r] = pc[r]
        BY <3>1, GotoFacts DEF SolvePlaces
      <3> QED
        BY <1>c, <2>0, <3>1, <3>2 DEF LiveInv, Alive
    <2>4. CASE \/ EnterSearch(s) \/ NextBranch(s) \/ (\E r \in Results : SolveReturns(s, r))
               \/ Compete(s) \/ TakeModel(s) \/ InterruptOthers(s)
      <3>1. list' = list /\ pc[s] \notin {"assign", "find", "detach"}
        BY <2>4 DEF EnterSearch, NextBranch, SolveReturns, Compete, TakeModel, InterruptOthers
      <3>2. \E to \in SolvePlaces : Goto(s, to)
        BY <2>4 DEF EnterSearch, NextBranch, SolveReturns, Compete, TakeModel, InterruptOthers,
                    SolvePlaces
      <3>3. \A r \in Solves : r # s => pc'[r] = pc[r]
        BY <3>2, GotoFacts
      <3> QED
        BY <1>c, <2>0, <3>1, <3>3 DEF LiveInv, Alive
    <2> QED
      BY <1>4, <2>1, <2>2, <2>3, <2>4 DEF SolveThread, Results
  <1>5. ASSUME NEW s \in Solves, SolveThread(s) PROVE UNCHANGED mainVars
    BY <1>5 DEF SolveThread, AttachSearch, AssignSearch, FoundSbs, NoSbs, DetachSearch, EnterSearch, NextBranch,
                SolveReturns, Compete, TakeModel, InterruptOthers
  <1> QED
    BY <1>1, <1>2, <1>3, <1>4, <1>5 DEF Next, Running

(* Nothing is attached, raised or running at the start. *)
LEMMA EventInvInit == Init => EventInv
  <1> SUFFICES ASSUME Init PROVE EventInv
    OBVIOUS
  <1> USE EventFacts DEF Init, EventInit
  <1>1. EventTypes
    <2>1. equeue \in Seq(Events) /\ <<>> \in Seq(Handles)
      OBVIOUS
    <2>2. list \in [Events -> Seq(Handles)]
      BY <2>1
    <2> QED
      BY <2>1, <2>2 DEF EventTypes, EventPlaces
  <1>2. SolveTypes
    <2>1. /\ pc \in [Solves -> SolvePlaces] /\ flag \in [Naive -> BOOLEAN]
          /\ wanted \in [Solves -> BOOLEAN] /\ stopped \in [Searching -> BOOLEAN]
          /\ sbs \in [Searching -> BOOLEAN] /\ branch \in [Searching -> Nat]
          /\ dropped \in [Searching -> BOOLEAN] /\ answer \in [Solves -> Results]
      BY DEF SolvePlaces, Results
    <2>2. output \in [state : Results, model : Solves \cup {End}]
      BY DEF Results
    <2> QED
      BY <2>1, <2>2 DEF SolveTypes, MainPlaces, Results
  <1>3. ASSUME NEW e \in Events PROVE ToSet(list[e]) = {} /\ Distinct(list[e])
    <2>1. list[e] = <<>> /\ DOMAIN list[e] = {}
      OBVIOUS
    <2> QED
      BY <2>1 DEF ToSet, Distinct
  <1>4. ListInv /\ LiveInv
    BY <1>3 DEF ListInv, LiveInv, Linked
  <1> QED
    BY <1>1, <1>2, <1>4
    DEF EventInv, PlaceInv, Printed, ServingInv, Serving, WalkInv

(* The invariant of the EventHandler and its users is inductive. *)
LEMMA EventInvStep == EventInv /\ [Next]_vars => EventInv'
  BY ListStep, SolveTypesStep, PlaceStep, LiveStep, ServingStep, WalkStep DEF EventInv

(* A callback may detach itself, and others may attach and raise meanwhile: *)
(* whatever the number of solves, searches and events, the event thread     *)
(* only fails when an owner detaches a handle of the event being served, or *)
(* in the callback of a handle that attach() has not yet given its owner.   *)
THEOREM CrashCorrect == Spec => []CrashOnlyByRace
  <1>1. EventInv => CrashOnlyByRace
    BY DEF EventInv, EventTypes, WalkInv, CrashOnlyByRace
  <1> QED
    BY <1>1, EventInvInit, EventInvStep, PTL DEF Spec

----------------------------------------------------------------------------
(* The answers of the solves.                                              *)

(* A solve goes on without an answer. *)
GoesOn(s) ==
    /\ pc[s] \notin Ended
    /\ \E to \in SolvePlaces \ Ended : Goto(s, to)
    /\ UNCHANGED <<answer, result, model>>

(* A solve returns; SAT is never wrong. *)
Answers(s) ==
    /\ pc[s] \notin Ended
    /\ Goto(s, "cas")
    /\ \E r \in Results : answer' = [answer EXCEPT ![s] = r] /\ (r = "SAT" => truth = "SAT")
    /\ UNCHANGED <<result, model>>

(* What any step is to the answers. *)
LEMMA AnswerCases ==
  ASSUME EventInv, [Next]_vars
  PROVE  /\ truth' = truth
         /\ \/ UNCHANGED <<pc, answer, result, model>>
            \/ StartSolves
            \/ \E s \in Solves : GoesOn(s) \/ Answers(s) \/ Compete(s) \/ TakeModel(s)
                                                          \/ InterruptOthers(s)
  <1> USE DEF EventInv, searchVars, solveVars, mainVars
  <1>1. ASSUME NEW s \in Solves, SolveThread(s), UNCHANGED truth
        PROVE  GoesOn(s) \/ Answers(s) \/ Compete(s) \/ TakeModel(s) \/ InterruptOthers(s)
    <2>1. CASE \/ AttachSearch(s) \/ AssignSearch(s) \/ FoundSbs(s) \/ NoSbs(s) \/ EnterSearch(s)
               \/ NextBranch(s)
      BY <2>1 DEF AttachSearch, AssignSearch, FoundSbs, NoSbs, EnterSearch, NextBranch, GoesOn, Ended,
                  SolvePlaces
    <2>2. CASE DetachSearch(s)
      <3>1. pc[s] = "detach" /\ UNCHANGED <<result, model>>
        BY <2>2 DEF DetachSearch
      <3>2. CASE Goto(s, "search") /\ answer' = [answer EXCEPT ![s] = answer[s]]
        <4>1. answer' = answer
          BY <3>2 DEF SolveTypes
        <4> QED
          BY <3>1, <3>2, <4>1 DEF GoesOn, Ended, SolvePlaces
      <3>3. CASE Goto(s, "cas") /\ \E r \in {"UNSAT", "UNKNOWN"} : answer' = [answer EXCEPT ![s] = r]
        BY <3>1, <3>3 DEF Answers, Ended, Results
      <3> QED
        BY <2>2, <3>2, <3>3 DEF DetachSearch
    <2>3. ASSUME NEW r \in Results, SolveReturns(s, r) PROVE Answers(s)
      <3>1. r = "SAT" => truth = "SAT"
        BY <2>3 DEF SolveReturns, Returns
      <3> QED
        BY <2>3, <3>1 DEF SolveReturns, Answers, Ended
    <2> QED
      BY <1>1, <2>1, <2>2, <2>3 DEF SolveThread, Results
  <1>2. ASSUME MainThread PROVE StartSolves \/ UNCHANGED <<pc, answer, result, model>>
    BY <1>2 DEF MainThread, MainAttach, MainAssign, JoinSolves, MainDetach, StopSignals, ExitEvents, Exit
  <1>3. ASSUME Signal \/ EventThread \/ Over \/ UNCHANGED vars
        PROVE  UNCHANGED <<pc, answer, result, model>>
    BY <1>3 DEF Signal, EventThread, Callback, Over, vars
  <1>4. \/ Over \/ UNCHANGED vars
        \/ (Signal \/ MainThread \/ EventThread) /\ UNCHANGED truth
        \/ \E s \in Solves : SolveThread(s) /\ UNCHANGED truth
    BY DEF Next, Running
  <1>5. truth' = truth
    <2>1. CASE Over \/ UNCHANGED vars
      BY <2>1 DEF Over, vars
    <2> QED
      BY <1>4, <2>1
  <1> QED
    BY <1>1, <1>2, <1>3, <1>4, <1>5

(* The step of one solve changes only its own place and answer. *)
LEMMA AnswersFacts ==
  ASSUME SolveTypes, NEW s \in Solves, Answers(s)
  PROVE  /\ pc'[s] = "cas" /\ \A r \in Solves : r # s => pc'[r] = pc[r] /\ answer'[r] = answer[r]
         /\ answer'[s] = "SAT" => truth = "SAT"
  <1>1. pc'[s] = "cas" /\ \A r \in Solves : r # s => pc'[r] = pc[r]
    BY GotoFacts DEF Answers, SolvePlaces
  <1> QED
    BY <1>1 DEF Answers, SolveTypes

(* The same for a step without an answer. *)
LEMMA GoesOnFacts ==
  ASSUME SolveTypes, NEW s \in Solves, GoesOn(s)
  PROVE  pc'[s] \notin Ended /\ \A r \in Solves : r # s => pc'[r] = pc[r]
  BY GotoFacts DEF GoesOn

(* The same for the three steps after the answer. *)
LEMMA CompeteFacts ==
  ASSUME SolveTypes, NEW s \in Solves, Compete(s) \/ TakeModel(s) \/ InterruptOthers(s)
  PROVE  /\ answer' = answer /\ \A r \in Solves : r # s => pc'[r] = pc[r]
         /\ Compete(s) => /\ pc[s] = "cas" /\ model' = model
                          /\ result = "UNKNOWN" => pc'[s] = "model" /\ result' = answer[s]
                          /\ result # "UNKNOWN" => pc'[s] = "done" /\ result' = result
         /\ TakeModel(s) => pc[s] = "model" /\ pc'[s] = "interrupt" /\ model' = s /\ result' = result
         /\ InterruptOthers(s) => /\ pc[s] = "interrupt" /\ pc'[s] = "done"
                                  /\ model' = model /\ result' = result
  <1>1. CASE Compete(s)
    <2>1. CASE result = "UNKNOWN"
      BY <1>1, <2>1, GotoFacts DEF Compete, SolvePlaces, TakeModel, InterruptOthers
    <2>2. CASE result # "UNKNOWN"
      BY <1>1, <2>2, GotoFacts DEF Compete, SolvePlaces, TakeModel, InterruptOthers
    <2> QED
      BY <2>1, <2>2
  <1>2. CASE TakeModel(s)
    BY <1>2, GotoFacts DEF Compete, SolvePlaces, TakeModel, InterruptOthers
  <1>3. CASE InterruptOthers(s)
    BY <1>3, GotoFacts DEF Compete, SolvePlaces, TakeModel, InterruptOthers
  <1> QED
    BY <1>1, <1>2, <1>3

(* Starting the solves. *)
LEMMA StartFacts ==
  ASSUME EventInv, StartSolves
  PROVE  /\ \A s \in Solves : pc[s] = "unborn" /\ pc'[s] \in {"attach", "load"}
         /\ UNCHANGED <<answer, result, model>>
  BY DEF StartSolves, EventInv, PlaceInv

(* The compare-and-swap keeps the first answer there is. *)
LEMMA ResultStep ==
  ASSUME EventInv, ResultInv, [Next]_vars
  PROVE  ResultInv'
  <1>a. SolveTypes
    BY DEF EventInv
  <1>b. truth' = truth
    BY AnswerCases
  <1>1. CASE UNCHANGED <<pc, answer, result, model>>
    BY <1>1, <1>b DEF ResultInv
  <1>2. CASE StartSolves
    BY <1>2, <1>b, StartFacts DEF ResultInv, Ended
  <1>3. ASSUME NEW s \in Solves, GoesOn(s) PROVE ResultInv'
    BY <1>3, <1>a, <1>b, GoesOnFacts DEF GoesOn, ResultInv, Ended
  <1>4. ASSUME NEW s \in Solves, Answers(s) PROVE ResultInv'
    <2>1. /\ pc'[s] = "cas" /\ \A r \in Solves : r # s => pc'[r] = pc[r] /\ answer'[r] = answer[r]
          /\ answer'[s] = "SAT" => truth = "SAT"
      BY <1>4, <1>a, AnswersFacts
    <2>2. answer[s] = "UNKNOWN" /\ result' = result
      BY <1>4 DEF Answers, ResultInv
    <2>3. \A r \in Solves : pc'[r] \notin Ended => answer'[r] = "UNKNOWN"
      BY <2>1 DEF ResultInv, Ended
    <2>4. \A r \in Solves : answer'[r] = "SAT" => truth' = "SAT"
      BY <1>b, <2>1 DEF ResultInv
    <2>5. result' # "UNKNOWN" => \E r \in Solves : answer'[r] = result'
      BY <2>1, <2>2 DEF ResultInv
    <2>6. result' = "UNKNOWN" =>
             \A r \in Solves : pc'[r] \in Ended \ {"cas"} => answer'[r] = "UNKNOWN"
      BY <2>1, <2>2 DEF ResultInv
    <2> QED
      BY <2>3, <2>4, <2>5, <2>6 DEF ResultInv
  <1>5. ASSUME NEW s \in Solves, Compete(s) PROVE ResultInv'
    <2>1. /\ answer' = answer /\ \A r \in Solves : r # s => pc'[r] = pc[r]
          /\ pc[s] = "cas"
          /\ result = "UNKNOWN" => pc'[s] = "model" /\ result' = answer[s]
          /\ result # "UNKNOWN" => pc'[s] = "done" /\ result' = result
      BY <1>5, <1>a, CompeteFacts
    <2> QED
      BY <1>b, <2>1 DEF ResultInv, Ended
  <1>6. ASSUME NEW s \in Solves, TakeModel(s) \/ InterruptOthers(s) PROVE ResultInv'
    <2>1. /\ answer' = answer /\ \A r \in Solves : r # s => pc'[r] = pc[r]
          /\ pc[s] \in {"model", "interrupt"} /\ pc'[s] \in {"interrupt", "done"}
          /\ result' = result
      BY <1>6, <1>a, CompeteFacts
    <2> QED
      BY <1>b, <2>1 DEF ResultInv, Ended
  <1> QED
    BY <1>1, <1>2, <1>3, <1>4, <1>5, <1>6, AnswerCases

(* A winner takes its model before it is done. *)
LEMMA ModelStep ==
  ASSUME EventInv, ModelInv, [Next]_vars
  PROVE  ModelInv'
  <1> USE EventFacts
  <1>a. SolveTypes /\ model \in Solves \cup {End}
    BY DEF EventInv, SolveTypes
  <1>1. CASE UNCHANGED <<pc, answer, result, model>>
    BY <1>1 DEF ModelInv
  <1>2. CASE StartSolves
    BY <1>2, <1>a, StartFacts DEF ModelInv
  <1>3. ASSUME NEW s \in Solves, GoesOn(s) PROVE ModelInv'
    BY <1>3, <1>a, GoesOnFacts DEF GoesOn, ModelInv, Ended
  <1>4. ASSUME NEW s \in Solves, Answers(s) PROVE ModelInv'
    BY <1>4, <1>a, AnswersFacts DEF Answers, ModelInv, Ended
  <1>5. ASSUME NEW s \in Solves, Compete(s) PROVE ModelInv'
    BY <1>5, <1>a, CompeteFacts DEF ModelInv
  <1>6. ASSUME NEW s \in Solves, TakeModel(s) PROVE ModelInv'
    BY <1>6, <1>a, CompeteFacts DEF ModelInv
  <1>7. ASSUME NEW s \in Solves, InterruptOthers(s) PROVE ModelInv'
    BY <1>7, <1>a, CompeteFacts DEF ModelInv
  <1> QED
    BY <1>1, <1>2, <1>3, <1>4, <1>5, <1>6, <1>7, AnswerCases

(* A solve moves only while main() waits. *)
LEMMA SolvesWait ==
  ASSUME EventInv, NEW s \in Solves, SolveThread(s)
  PROVE  mpc = "wait" /\ UNCHANGED mainVars
  <1>1. pc[s] \notin {"unborn", "done"} /\ UNCHANGED mainVars
    BY DEF SolveThread, AttachSearch, AssignSearch, FoundSbs, NoSbs, DetachSearch, EnterSearch, NextBranch,
           SolveReturns, Compete, TakeModel, InterruptOthers
  <1> QED
    BY <1>1 DEF EventInv, SolveTypes, PlaceInv, MainPlaces, Printed

(* The kinds of step, by who takes it. *)
LEMMA Steps ==
  ASSUME [Next]_vars
  PROVE  \/ UNCHANGED vars \/ Signal \/ MainThread \/ EventThread
         \/ \E s \in Solves : SolveThread(s)
  BY DEF Next, Running, Over

(* main() prints what there is when all solves are done. *)
LEMMA OutputStep ==
  ASSUME EventInv, OutputInv, [Next]_vars
  PROVE  OutputInv'
  <1> USE DEF solveVars, mainVars, Printed
  <1>1. CASE UNCHANGED <<mpc, output, result, model>>
    BY <1>1 DEF OutputInv
  <1>2. CASE Signal \/ EventThread \/ UNCHANGED vars
    BY <1>1, <1>2 DEF Signal, EventThread, Callback, vars
  <1>3. CASE MainThread
    <2>1. CASE MainDetach
      BY <2>1 DEF MainDetach, OutputInv
    <2>2. CASE MainAttach \/ MainAssign \/ StartSolves \/ JoinSolves \/ StopSignals \/ ExitEvents \/ Exit
      BY <2>2 DEF MainAttach, MainAssign, StartSolves, JoinSolves, StopSignals, ExitEvents, Exit, OutputInv
    <2> QED
      BY <1>3, <2>1, <2>2 DEF MainThread
  <1>4. ASSUME NEW s \in Solves, SolveThread(s) PROVE OutputInv'
    BY <1>4, SolvesWait DEF OutputInv
  <1> QED
    BY <1>2, <1>3, <1>4, Steps

(* A solve that does not recur attaches one search. *)
LEMMA BranchStep ==
  ASSUME EventInv, BranchInv, [Next]_vars
  PROVE  BranchInv'
  <1> USE EventFacts DEF solveVars, mainVars, searchVars
  <1>a. SolveTypes
    BY DEF EventInv
  <1>1. CASE UNCHANGED <<pc, branch>>
    BY <1>1 DEF BranchInv
  <1>2. CASE Signal \/ EventThread \/ UNCHANGED vars
    BY <1>1, <1>2 DEF Signal, EventThread, Callback, vars
  <1>3. CASE MainThread
    <2>1. CASE StartSolves
      BY <2>1, StartFacts DEF StartSolves, BranchInv
    <2>2. CASE MainAttach \/ MainAssign \/ JoinSolves \/ MainDetach \/ StopSignals \/ ExitEvents \/ Exit
      BY <1>1, <2>2 DEF MainAttach, MainAssign, JoinSolves, MainDetach, StopSignals, ExitEvents, Exit
    <2> QED
      BY <1>3, <2>1, <2>2 DEF MainThread
  <1>4. ASSUME NEW s \in Solves, SolveThread(s) PROVE BranchInv'
    <2>1. CASE AttachSearch(s)
      <3>1. pc[s] = "attach" /\ pc'[s] = "assign" /\ \A r \in Solves : r # s => pc'[r] = pc[r]
        BY <1>a, <2>1, GotoFacts DEF AttachSearch, SolvePlaces
      <3>2. \A r \in Searching : branch'[r] = IF r = s THEN branch[r] + 1 ELSE branch[r]
        BY <1>a, <2>1 DEF AttachSearch, SolveTypes
      <3> QED
        BY <3>1, <3>2 DEF BranchInv
    <2>2. CASE NextBranch(s)
      <3>1. s \in Recurring /\ branch' = branch /\ \A r \in Solves : r # s => pc'[r] = pc[r]
        BY <1>a, <2>2, GotoFacts DEF NextBranch, SolvePlaces
      <3> QED
        BY <3>1 DEF BranchInv
    <2>3. CASE \/ AssignSearch(s) \/ FoundSbs(s) \/ NoSbs(s) \/ DetachSearch(s) \/ EnterSearch(s)
               \/ (\E r \in Results : SolveReturns(s, r))
               \/ Compete(s) \/ TakeModel(s) \/ InterruptOthers(s)
      <3>1. branch' = branch /\ pc[s] \notin {"unborn", "attach"}
        BY <2>3 DEF AssignSearch, FoundSbs, NoSbs, DetachSearch, EnterSearch, SolveReturns, Compete,
                    TakeModel, InterruptOthers
      <3>2. PICK to \in SolvePlaces \ {"unborn", "attach"} : Goto(s, to)
        BY <2>3 DEF AssignSearch, FoundSbs, NoSbs, DetachSearch, EnterSearch, SolveReturns, Compete,
                    TakeModel, InterruptOthers, SolvePlaces
      <3>3. pc'[s] = to /\ \A r \in Solves : r # s => pc'[r] = pc[r]
        BY <1>a, <3>2, GotoFacts
      <3> QED
        BY <3>1, <3>2, <3>3 DEF BranchInv
    <2> QED
      BY <1>4, <2>1, <2>2, <2>3 DEF SolveThread, Results
  <1> QED
    BY <1>2, <1>3, <1>4, Steps

----------------------------------------------------------------------------
(* The right answer wins.                                                  *)

(* A disturbance is not undone, and a SIGINT is one. *)
LEMMA UndisturbedStays ==
  ASSUME EventInv, [Next]_vars, Undisturbed'
  PROVE  Undisturbed /\ ~Signal
  <1> USE DEF solveVars, mainVars, searchVars, EventInv, SolveTypes, Undisturbed
  <1>1. CASE Signal
    BY <1>1 DEF Signal
  <1>2. CASE MainThread \/ EventThread \/ UNCHANGED vars
    BY <1>2 DEF MainThread, MainAttach, MainAssign, StartSolves, JoinSolves, MainDetach, StopSignals,
                ExitEvents, Exit, EventThread, Callback, vars, Signal
  <1>3. ASSUME NEW s \in Solves, SolveThread(s) PROVE Undisturbed /\ ~Signal
    <2>1. signals' = signals
      BY <1>3, SolvesWait
    <2>2. CASE FoundSbs(s)
      BY <2>1, <2>2 DEF FoundSbs, Signal
    <2>3. CASE ~FoundSbs(s)
      <3>1. sideways' = sideways
        BY <1>3, <2>3 DEF SolveThread, AttachSearch, AssignSearch, NoSbs, DetachSearch, EnterSearch, NextBranch,
                          SolveReturns, Compete, TakeModel, InterruptOthers
      <3> QED
        BY <2>1, <3>1 DEF Signal
    <2> QED
      BY <2>2, <2>3
  <1> QED
    BY <1>1, <1>2, <1>3, Steps

(* main() and the event thread do not end the calm. *)
LEMMA CalmOutside ==
  ASSUME EventInv, Calm, MainThread \/ EventThread \/ UNCHANGED vars, truth' = truth
  PROVE  Calm'
  <1> USE DEF solveVars, mainVars, searchVars, eventVars
  <1>a. EventTypes
    BY DEF EventInv
  <1>1. ASSUME UNCHANGED <<equeue, solveVars>>, epc' = epc \/ epc' \notin {"begin", "next", "call", "self", "unlink"}
        PROVE  Calm'
    BY <1>1 DEF Calm, Serving
  <1>2. CASE StartSolves
    <2>1. UNCHANGED <<eventVars, searchVars, flag, wanted, model, answer>>
      BY <1>2 DEF StartSolves
    <2> QED
      BY <1>2, <2>1, StartFacts DEF Calm, Serving
  <1>3. CASE MainThread /\ ~StartSolves
    <2>1. UNCHANGED <<equeue, solveVars>>
      BY <1>3 DEF MainThread, MainAttach, MainAssign, JoinSolves, MainDetach, StopSignals, ExitEvents, Exit,
                  Attach, Detach, Shutdown
    <2>2. epc' = epc \/ epc' = "top"
      BY <1>3, <1>a, NotifyFacts DEF MainThread, MainAttach, MainAssign, JoinSolves, MainDetach, StopSignals,
                                     ExitEvents, Exit, Attach, Detach, Shutdown
    <2> QED
      BY <1>1, <2>1, <2>2
  <1>4. CASE EventThread
    <2>1. epc \in {"top", "checked"} /\ equeue = <<>>
      BY <1>4 DEF EventThread, Calm, Serving, Test, Block, Begin, StepIterator, SelfDetach, SelfUnlink,
                  Callback
    <2>2. (Test \/ Block) /\ UNCHANGED solveVars
      BY <1>4, <2>1 DEF EventThread, Begin, StepIterator, SelfDetach, SelfUnlink, Callback
    <2>3. equeue' = equeue /\ epc' \in {"stopped", "checked", "blocked"}
      BY <2>1, <2>2 DEF Test, Block
    <2> QED
      BY <1>1, <2>2, <2>3
  <1>5. CASE UNCHANGED vars
    BY <1>1, <1>5 DEF vars
  <1> QED
    BY <1>2, <1>3, <1>4, <1>5

(* A solve ends the calm with the right answer, or with a promise of it. *)
LEMMA CalmSolve ==
  ASSUME EventInv, BranchInv, Calm, result = "UNKNOWN", truth' = truth, Undisturbed',
         NEW s \in Solves, SolveThread(s)
  PROVE  \/ result' = "UNKNOWN" /\ Calm'
         \/ result' = truth
         \/ /\ result' = "UNKNOWN" /\ truth = "UNSAT"
            /\ \E p \in Searching \ Recurring : Promises(p)'
  <1> USE EventFacts DEF solveVars, mainVars, searchVars, eventVars
  <1>a. SolveTypes /\ EventTypes
    BY DEF EventInv
  <1>b. pc[s] \in {"attach", "assign", "find", "detach"} => s \in Searching
    BY DEF EventInv, PlaceInv
  <1>c. ASSUME epc' = epc \/ epc' = "top" PROVE ~Serving'
    BY <1>c DEF Calm, Serving
  <1>1. CASE AttachSearch(s)
    <2>1. pc'[s] = "assign" /\ \A r \in Solves : r # s => pc'[r] = pc[r]
      BY <1>a, <1>1, GotoFacts DEF AttachSearch, SolvePlaces
    <2>2. /\ UNCHANGED <<equeue, stopped, sbs, dropped, flag, wanted, result, answer, model>>
          /\ ~Serving'
      BY <1>a, <1>c, <1>1, NotifyFacts DEF AttachSearch, Attach
    <2> QED
      BY <2>1, <2>2 DEF Calm
  <1>2. CASE FoundSbs(s)
    <2>1. s \in Searching \ Recurring
      BY <1>b, <1>2 DEF FoundSbs, Undisturbed
    <2>2. branch[s] = 1 /\ ~stopped[s]
      BY <1>2, <2>1 DEF FoundSbs, BranchInv, Calm
    <2>3. truth = "UNSAT" /\ result' = result
      BY <1>2, <2>2 DEF FoundSbs
    <2>4. pc'[s] = "detach" /\ sbs'[s]
      BY <1>a, <1>2, <2>1, GotoFacts DEF FoundSbs, SolvePlaces, SolveTypes
    <2>5. Promises(s)'
      BY <2>4 DEF Promises
    <2> QED
      BY <2>1, <2>3, <2>5
  <1>3. CASE AssignSearch(s) \/ NoSbs(s) \/ NextBranch(s)
    <2>1. PICK to \in {"find", "detach", "attach"} : Goto(s, to)
      BY <1>3 DEF AssignSearch, NoSbs, NextBranch
    <2>2. pc'[s] = to /\ \A r \in Solves : r # s => pc'[r] = pc[r]
      BY <1>a, <2>1, GotoFacts DEF SolvePlaces
    <2>3. UNCHANGED <<eventVars, searchVars, flag, wanted, result, answer, model>>
      BY <1>3 DEF AssignSearch, NoSbs, NextBranch
    <2> QED
      BY <2>1, <2>2, <2>3 DEF Calm, Serving
  <1>4. CASE DetachSearch(s)
    <2>1. s \in Searching /\ ~sbs[s] /\ ~stopped[s] /\ ~dropped[s]
      BY <1>b, <1>4 DEF DetachSearch, Calm
    <2>2. /\ Goto(s, "search") /\ answer' = [answer EXCEPT ![s] = answer[s]]
          /\ dropped' = [dropped EXCEPT ![s] = FALSE]
          /\ stopped' = [stopped EXCEPT ![s] = FALSE] /\ sbs' = [sbs EXCEPT ![s] = FALSE]
      BY <1>4, <2>1 DEF DetachSearch
    <2>3. pc'[s] = "search" /\ \A r \in Solves : r # s => pc'[r] = pc[r]
      BY <1>a, <2>2, GotoFacts DEF SolvePlaces
    <2>4. answer' = answer /\ \A r \in Searching : ~dropped'[r] /\ ~stopped'[r] /\ ~sbs'[r]
      BY <1>a, <2>2 DEF SolveTypes, Calm
    <2>5. UNCHANGED <<equeue, epc, flag, wanted, result, model>>
      BY <1>4 DEF DetachSearch, Detach
    <2>6. ~Serving'
      BY <1>c, <2>5
    <2> QED
      BY <2>3, <2>4, <2>5, <2>6 DEF Calm
  <1>5. CASE EnterSearch(s)
    <2>1. pc'[s] = "search" /\ \A r \in Solves : r # s => pc'[r] = pc[r]
      BY <1>a, <1>5, GotoFacts DEF EnterSearch, SolvePlaces
    <2>2. \A r \in Naive : ~flag'[r]
      BY <1>a, <1>5 DEF EnterSearch, SolveTypes, Calm
    <2>3. UNCHANGED <<eventVars, searchVars, wanted, result, answer, model>>
      BY <1>5 DEF EnterSearch
    <2> QED
      BY <2>1, <2>2, <2>3 DEF Calm, Serving
  <1>6. ASSUME NEW r \in Results, SolveReturns(s, r) PROVE result' = "UNKNOWN" /\ Calm'
    <2>1. r = truth
      <3>1. ~wanted[s] /\ (s \in Naive => ~flag[s]) /\ (s \in Recurring => ~dropped[s])
        BY PortfolioAssumption DEF Calm
      <3> QED
        BY <1>6, <3>1 DEF SolveReturns, Returns
    <2>2. pc'[s] = "cas" /\ \A q \in Solves : q # s => pc'[q] = pc[q]
      BY <1>a, <1>6, GotoFacts DEF SolveReturns, SolvePlaces
    <2>3. answer'[s] = truth /\ \A q \in Solves : q # s => answer'[q] = answer[q]
      BY <1>a, <1>6, <2>1 DEF SolveReturns, SolveTypes
    <2>4. UNCHANGED <<eventVars, searchVars, flag, wanted, result, model>>
      BY <1>6 DEF SolveReturns
    <2> QED
      BY <2>2, <2>3, <2>4 DEF Calm, Serving
  <1>7. CASE Compete(s)
    <2>1. pc[s] = "cas" /\ result' = answer[s]
      BY <1>a, <1>7, CompeteFacts
    <2> QED
      BY <2>1 DEF Calm
  <1>8. ~TakeModel(s) /\ ~InterruptOthers(s)
    BY DEF TakeModel, InterruptOthers, Calm
  <1> QED
    BY <1>1, <1>2, <1>3, <1>4, <1>5, <1>6, <1>7, <1>8 DEF SolveThread, Results

(* A promise of UNSAT is kept, whoever wins with UNKNOWN before. *)
LEMMA PromiseStep ==
  ASSUME EventInv, ResultInv, BranchInv, result = "UNKNOWN", truth = "UNSAT",
         NEW p \in Searching \ Recurring, Promises(p), [Next]_vars
  PROVE  \/ result' = "UNSAT"
         \/ result' = "UNKNOWN" /\ Promises(p)'
  <1> USE EventFacts DEF solveVars, mainVars, searchVars, eventVars
  <1>a. SolveTypes /\ p \in Solves /\ pc[p] \in {"detach", "cas"}
    BY DEF EventInv, Promises
  <1>1. ASSUME pc'[p] = pc[p], sbs'[p] = sbs[p], answer'[p] = answer[p] PROVE Promises(p)'
    BY <1>1 DEF Promises
  <1>2. CASE Signal \/ EventThread \/ UNCHANGED vars
    BY <1>1, <1>2 DEF Signal, EventThread, Callback, vars
  <1>3. CASE MainThread
    <2>1. ~StartSolves
      BY <1>a DEF StartSolves, EventInv, PlaceInv
    <2> QED
      BY <1>1, <1>3, <2>1 DEF MainThread, MainAttach, MainAssign, JoinSolves, MainDetach, StopSignals,
                              ExitEvents, Exit
  <1>4. ASSUME NEW s \in Solves, SolveThread(s)
        PROVE  \/ result' = "UNSAT"
               \/ result' = "UNKNOWN" /\ Promises(p)'
    <2>1. CASE Compete(s)
      <3>1. /\ answer' = answer /\ \A r \in Solves : r # s => pc'[r] = pc[r]
            /\ result' = answer[s] /\ pc[s] = "cas" /\ sbs' = sbs
        BY <1>a, <2>1, CompeteFacts DEF Compete
      <3>2. answer[s] \in {"UNSAT", "UNKNOWN"}
        BY <1>a DEF SolveTypes, Results, ResultInv
      <3>3. s = p => answer[s] = "UNSAT"
        BY <3>1 DEF Promises
      <3> QED
        BY <1>a, <1>1, <3>1, <3>2, <3>3
    <2>2. CASE ~Compete(s) /\ s = p
      <3>1. DetachSearch(p) /\ pc[p] = "detach" /\ sbs[p]
        BY <1>a, <1>4, <2>2
        DEF Promises, SolveThread, AttachSearch, AssignSearch, FoundSbs, NoSbs, DetachSearch, EnterSearch,
            NextBranch, SolveReturns, TakeModel, InterruptOthers
      <3>2. branch[p] = 1
        BY <3>1 DEF BranchInv
      <3>3. Goto(p, "cas") /\ answer' = [answer EXCEPT ![p] = "UNSAT"] /\ result' = result
        BY <3>1, <3>2 DEF DetachSearch
      <3>4. pc'[p] = "cas" /\ answer'[p] = "UNSAT"
        BY <1>a, <3>3, GotoFacts DEF SolvePlaces, SolveTypes
      <3> QED
        BY <3>3, <3>4 DEF Promises
    <2>3. CASE ~Compete(s) /\ s # p
      <3>1. result' = result
        BY <1>4, <2>3
        DEF SolveThread, AttachSearch, AssignSearch, FoundSbs, NoSbs, DetachSearch, EnterSearch, NextBranch,
            SolveReturns, TakeModel, InterruptOthers
      <3>2. sbs'[p] = sbs[p]
        BY <1>a, <1>4, <2>3
        DEF SolveThread, AttachSearch, AssignSearch, FoundSbs, NoSbs, DetachSearch, EnterSearch, NextBranch,
            SolveReturns, TakeModel, InterruptOthers, SolveTypes
      <3>3. answer'[p] = answer[p]
        BY <1>a, <1>4, <2>3
        DEF SolveThread, AttachSearch, AssignSearch, FoundSbs, NoSbs, DetachSearch, EnterSearch, NextBranch,
            SolveReturns, TakeModel, InterruptOthers, SolveTypes
      <3>4. pc'[p] = pc[p]
        BY <1>a, <1>4, <2>3
        DEF SolveThread, AttachSearch, AssignSearch, FoundSbs, NoSbs, DetachSearch, EnterSearch, NextBranch,
            SolveReturns, TakeModel, InterruptOthers, SolveTypes, Goto
      <3> QED
        BY <1>1, <3>1, <3>2, <3>3, <3>4
    <2> QED
      BY <2>1, <2>2, <2>3
  <1> QED
    BY <1>2, <1>3, <1>4, Steps

(* So the right answer wins. *)
LEMMA TruthStep ==
  ASSUME EventInv, AnswerInv, [Next]_vars
  PROVE  TruthInv'
  <1> SUFFICES ASSUME Undisturbed'
               PROVE  \/ result' = truth'
                      \/ /\ result' = "UNKNOWN"
                         /\ \/ Calm'
                            \/ truth' = "UNSAT" /\ \E s \in Searching \ Recurring : Promises(s)'
    BY DEF TruthInv
  <1>a. truth' = truth /\ Undisturbed /\ ~Signal
    BY AnswerCases, UndisturbedStays
  <1>b. EventInv /\ SolveTypes /\ ResultInv /\ BranchInv /\ TruthInv
    BY DEF AnswerInv, EventInv
  <1>c. ASSUME ~(\E s \in Solves : Compete(s)) PROVE result' = result
    BY <1>c, <1>b, AnswerCases, StartFacts
    DEF GoesOn, Answers, TakeModel, InterruptOthers
  <1>1. CASE result = truth
    <2>1. result # "UNKNOWN"
      BY <1>1, <1>b DEF SolveTypes
    <2>2. ASSUME NEW s \in Solves, Compete(s) PROVE result' = result
      BY <1>b, <2>1, <2>2, CompeteFacts
    <2> QED
      BY <1>a, <1>c, <1>1, <2>2
  <1>2. CASE result = "UNKNOWN" /\ Calm
    <2>1. CASE MainThread \/ EventThread \/ UNCHANGED vars
      <3>1. Calm'
        BY <1>a, <1>2, <2>1, CalmOutside
      <3>2. result' = result
        BY <2>1
        DEF MainThread, MainAttach, MainAssign, StartSolves, JoinSolves, MainDetach, StopSignals, ExitEvents,
            Exit, EventThread, Callback, vars, solveVars
      <3> QED
        BY <1>2, <3>1, <3>2
    <2>2. ASSUME NEW s \in Solves, SolveThread(s)
          PROVE  \/ result' = truth'
                 \/ /\ result' = "UNKNOWN"
                    /\ \/ Calm'
                       \/ truth' = "UNSAT" /\ \E r \in Searching \ Recurring : Promises(r)'
      BY <1>a, <1>b, <1>2, <2>2, CalmSolve
    <2> QED
      BY <1>a, <2>1, <2>2, Steps
  <1>3. CASE /\ result = "UNKNOWN" /\ truth = "UNSAT"
             /\ \E s \in Searching \ Recurring : Promises(s)
    BY <1>a, <1>b, <1>3, PromiseStep
  <1> QED
    BY <1>a, <1>b, <1>1, <1>2, <1>3 DEF TruthInv

(* So does the model, when there is one. *)
LEMMA WinnerStep ==
  ASSUME EventInv, AnswerInv, [Next]_vars
  PROVE  WinnerInv'
  <1> USE EventFacts
  <1> SUFFICES ASSUME Undisturbed', truth' = "SAT"
               PROVE  /\ \A s \in Solves : pc'[s] = "model" => answer'[s] = "SAT"
                      /\ model' # End => answer'[model'] = "SAT"
    BY DEF WinnerInv
  <1>a. Undisturbed /\ truth = "SAT"
    BY AnswerCases, UndisturbedStays
  <1>b. SolveTypes /\ model \in Solves \cup {End} /\ ModelInv /\ TruthInv
    BY DEF AnswerInv, EventInv, SolveTypes
  <1>c. /\ \A s \in Solves : pc[s] = "model" => answer[s] = "SAT"
        /\ model # End => answer[model] = "SAT"
    BY <1>a DEF AnswerInv, WinnerInv
  <1> DEFINE Goal == /\ \A s \in Solves : pc'[s] = "model" => answer'[s] = "SAT"
                     /\ model' # End => answer'[model'] = "SAT"
  <1>1. CASE UNCHANGED <<pc, answer, result, model>>
    BY <1>1, <1>c
  <1>2. CASE StartSolves
    BY <1>2, <1>c, StartFacts
  <1>3. ASSUME NEW s \in Solves, GoesOn(s) PROVE Goal
    BY <1>3, <1>b, <1>c, GoesOnFacts DEF GoesOn, Ended
  <1>4. ASSUME NEW s \in Solves, Answers(s) PROVE Goal
    BY <1>4, <1>b, <1>c, AnswersFacts, ZenonT(60) DEF Answers, ModelInv, Ended
  <1>5. ASSUME NEW s \in Solves, Compete(s) PROVE Goal
    <2>1. pc[s] = "cas" /\ (result = "UNKNOWN" => answer[s] = "SAT")
      BY <1>a, <1>5 DEF Compete, AnswerInv, TruthInv, Calm
    <2> QED
      BY <1>5, <1>b, <1>c, <2>1, CompeteFacts
  <1>6. ASSUME NEW s \in Solves, TakeModel(s) \/ InterruptOthers(s) PROVE Goal
    BY <1>6, <1>b, <1>c, CompeteFacts
  <1> QED
    BY <1>1, <1>2, <1>3, <1>4, <1>5, <1>6, AnswerCases

(* No solve runs at the start. *)
LEMMA AnswerInvInit == Init => AnswerInv
  <1> SUFFICES ASSUME Init PROVE AnswerInv
    OBVIOUS
  <1> USE DEF Init, EventInit
  <1>1. \A s \in Solves : pc[s] = "unborn" /\ answer[s] = "UNKNOWN" /\ ~wanted[s]
    OBVIOUS
  <1>2. Calm
    BY <1>1 DEF Calm, Serving
  <1>3. BranchInv
    BY <1>1, EventFacts DEF BranchInv
  <1> QED
    BY <1>1, <1>2, <1>3
    DEF AnswerInv, ResultInv, ModelInv, OutputInv, Printed, TruthInv, WinnerInv, Ended

(* Both invariants together are inductive. *)
LEMMA AnswerInvStep == EventInv /\ AnswerInv /\ [Next]_vars => (EventInv /\ AnswerInv)'
  BY EventInvStep, ResultStep, ModelStep, OutputStep, BranchStep, TruthStep, WinnerStep
  DEF AnswerInv

(* Whatever the portfolio and however the answers, the winner's interrupts, *)
(* the signals and the events interleave: main() prints UNKNOWN only if     *)
(* every solve said so, and undisturbed it prints the right answer.         *)
THEOREM AnswerKept == Spec => []AnswerNotLost
  <1>1. ASSUME EventInv, AnswerInv PROVE AnswerNotLost
    <2> SUFFICES ASSUME Printed
                 PROVE  /\ output.state = "UNKNOWN" <=> \A s \in Solves : answer[s] = "UNKNOWN"
                        /\ Undisturbed => output.state = truth
      BY DEF AnswerNotLost
    <2>1. output.state = result /\ \A s \in Solves : pc[s] = "done"
      BY <1>1 DEF AnswerInv, OutputInv, EventInv, PlaceInv
    <2>2. result = "UNKNOWN" <=> \A s \in Solves : answer[s] = "UNKNOWN"
      BY <1>1, <2>1 DEF AnswerInv, ResultInv, Ended
    <2>3. ~Calm /\ \A s \in Searching : ~Promises(s)
      BY <2>1, EventFacts, PortfolioAssumption DEF Calm, Promises
    <2>4. Undisturbed => result = truth
      BY <1>1, <2>3 DEF AnswerInv, TruthInv
    <2> QED
      BY <2>1, <2>2, <2>4
  <1>2. EventInv /\ AnswerInv => AnswerNotLost
    BY <1>1
  <1> QED
    BY <1>2, EventInvInit, AnswerInvInit, AnswerInvStep, PTL DEF Spec

(* What main() prints with SAT is a model some solve handed over, and,      *)
(* undisturbed, that of a solve which answered SAT.                         *)
THEOREM ModelCorrect == Spec => []SatHasModel
  <1>1. ASSUME EventInv, AnswerInv PROVE SatHasModel
    <2> SUFFICES ASSUME output.state = "SAT"
                 PROVE  output.model # End /\ (Undisturbed => answer[output.model] = "SAT")
      BY DEF SatHasModel
    <2>1. Printed /\ result = "SAT" /\ output.model = model
      BY <1>1 DEF AnswerInv, OutputInv
    <2>2. \A s \in Solves : pc[s] = "done"
      BY <1>1, <2>1 DEF EventInv, PlaceInv
    <2>3. model # End
      BY <1>1, <2>1, <2>2 DEF AnswerInv, ModelInv
    <2>4. truth = "SAT"
      BY <1>1, <2>1 DEF AnswerInv, ResultInv
    <2> QED
      BY <1>1, <2>1, <2>3, <2>4 DEF AnswerInv, WinnerInv
  <1>2. EventInv /\ AnswerInv => SatHasModel
    BY <1>1
  <1> QED
    BY <1>2, EventInvInit, AnswerInvInit, AnswerInvStep, PTL DEF Spec
=============================================================================
