--------------------------- MODULE MiniSatSearch ---------------------------
(***************************************************************************)
(* A Minisat::SimpSolver as the program uses it: loaded once, then asked   *)
(* again and again, by SimpProp and ParProp to propagate assumptions        *)
(* (prop_check, prop_check_subtree) and by the wrapper SimpSolver to solve  *)
(* under assumptions, a call that another thread may interrupt.             *)
(*                                                                         *)
(* A propagation call is one step.  A solve is a step per iteration of the *)
(* loop in search(), where the interrupt flag is read.  What the           *)
(* heuristics choose (the next decision, whether simplify() runs, the       *)
(* clauses that reduceDB() drops) is chosen freely.                         *)
(***************************************************************************)
EXTENDS MiniSat

CONSTANTS Assumptions(_), \* the arguments of the calls, for the clauses loaded
          Heads,         \* head sizes of prop_check_subtree
          RestartFirst,  \* restart_first
          MaxRestarts    \* bound: restarts are counted up to this number

ASSUME SearchParameters ==
    /\ RestartFirst \in Nat \ {0}
    /\ MaxRestarts \in Nat

VARIABLES loaded,       \* the clauses loaded
          solver,
          mode,         \* "new", "idle", "search", or "restart" in solve_()
          assumptions,  \* of the solve() in progress
          conflictC,    \* conflicts in this search()
          restarts,     \* curr_restarts
          interrupt,    \* asynch_interrupt
          calls,        \* bound: the calls still to be made of the solver
          res           \* the last call and what it returned

searchVars == <<loaded, solver, mode, assumptions, conflictC, restarts, interrupt, calls, res>>

----------------------------------------------------------------------------
(* Variant: an assumption that is false already is passed over. *)
EnqueueFree(t, ps) ==
    LET next(e, p) == IF Value(e.s, p) # Undef THEN e
                      ELSE [e EXCEPT !.s = UncheckedEnqueue(@, p, NoRef)]
        after[i \in 0..Len(ps)] ==
            IF i = 0 THEN [s |-> t, st |-> TRUE] ELSE next(after[i - 1], ps[i])
    IN after[Len(ps)]

(* prop_check without the literals propagated: all assumptions at one level, *)
(* up to one that is false.                                                  *)
EnqueueAll(t, ps) ==
    LET next(e, p) == IF ~e.st \/ Value(e.s, p) = True THEN e
                      ELSE IF Value(e.s, p) = False THEN [e EXCEPT !.st = FALSE]
                      ELSE [e EXCEPT !.s = UncheckedEnqueue(@, p, NoRef)]
        after[i \in 0..Len(ps)] ==
            IF i = 0 THEN [s |-> t, st |-> TRUE] ELSE next(after[i - 1], ps[i])
    IN after[Len(ps)]

PropagateIf(st, t) == IF st THEN Propagate(t) ELSE [s |-> t, confl |-> NoRef]

PropCheck(t, ps) ==
    LET e == EnqueueAll(NewDecisionLevel(t), ps)
        r == PropagateIf(e.st, e.s)
    IN IF ~t.ok THEN [s |-> t, ret |-> FALSE]
       ELSE [s |-> CancelUntil(r.s, DecisionLevel(t)), ret |-> e.st /\ r.confl = NoRef]

(* prop_check with them: a level per assumption, propagated at once. *)
PropagateEach(t, ps) ==
    LET decide(u, p) == Propagate(UncheckedEnqueue(NewDecisionLevel(u), p, NoRef))
        next(r, p) == IF ~r.st \/ r.confl # NoRef \/ Value(r.s, p) = True THEN r
                      ELSE IF Value(r.s, p) = False THEN [r EXCEPT !.st = FALSE]
                      ELSE decide(r.s, p) @@ r
        after[i \in 0..Len(ps)] ==
            IF i = 0 THEN [s |-> t, st |-> TRUE, confl |-> NoRef] ELSE next(after[i - 1], ps[i])
    IN after[Len(ps)]

PropCheckLits(t, ps) ==
    LET r == PropagateEach(t, ps)
        lits == SubSeq(r.s.trail, Len(t.trail) + 1, Len(r.s.trail))
    IN IF ~t.ok THEN [s |-> t, ret |-> FALSE, prop |-> <<>>]
       ELSE [s |-> CancelUntil(r.s, DecisionLevel(t)), ret |-> r.st /\ r.confl = NoRef,
             prop |-> IF r.confl = NoRef THEN lits ELSE Append(lits, r.s.ca[r.confl][1])]

(* prop_check_subtree: how many assignments of the variables past the head    *)
(* conflict.  The recursion of prop_check_subtree_impl keeps what is left to  *)
(* do: trying a literal of the i-th variable, or going back to a level.       *)
Try(i, p) == [i |-> i, p |-> p]
Retract(lvl) == [i |-> 0, p |-> lvl]

Halves(vs, i) ==
    IF i > Len(vs) THEN <<>> ELSE <<Try(i, -Abs(vs[i])), Try(i, Abs(vs[i]))>>

SubtreeStep(a, vs) ==
    LET top == Head(a.todo)
        s == a.s
        r == Propagate(UncheckedEnqueue(NewDecisionLevel(s), top.p, NoRef))
        refuted(u) == [s |-> u, n |-> a.n + 2^(Len(vs) - top.i), todo |-> Tail(a.todo)]
        descend(u, rest) == [s |-> u, n |-> a.n, todo |-> Halves(vs, top.i + 1) \o rest]
    IN IF a.todo = <<>> THEN a
       ELSE IF top.i = 0 THEN [a EXCEPT !.s = CancelUntil(@, top.p), !.todo = Tail(@)]
       ELSE IF Value(s, top.p) = False THEN refuted(s)
       ELSE IF Value(s, top.p) = True THEN descend(s, Tail(a.todo))
       ELSE IF r.confl # NoRef THEN refuted(CancelUntil(r.s, DecisionLevel(s)))
       ELSE descend(r.s, <<Retract(DecisionLevel(s))>> \o Tail(a.todo))

Subtree(t, vs, head) ==
    LET steps == 2^(Len(vs) - head + 2)
        after[i \in 0..steps] ==
            IF i = 0 THEN [s |-> t, n |-> 0, todo |-> Halves(vs, head + 1)]
            ELSE SubtreeStep(after[i - 1], vs)
    IN after[steps]

PropCheckSubtree(t, vs, head) ==
    LET e == EnqueueAll(NewDecisionLevel(t), SubSeq(vs, 1, head))
        r == PropagateIf(e.st, e.s)
        sub == IF e.st /\ r.confl = NoRef THEN Subtree(r.s, vs, head)
               ELSE [s |-> r.s, n |-> 2^(Len(vs) - head)]
    IN IF ~t.ok THEN [s |-> t, n |-> 2^(Len(vs) - head)]
       ELSE [s |-> CancelUntil(sub.s, DecisionLevel(t)), n |-> sub.n]

----------------------------------------------------------------------------
(* The parts of search() and solve_(). *)

(* luby(2, x). *)
Luby(x) ==
    LET size(n) == CHOOSE m \in 1..(2 * n + 1) : /\ m > n
                                                 /\ \E k \in 1..(n + 1) : m = 2^k - 1
                                                 /\ \A l \in (n + 1)..(m - 1) :
                                                       \A k \in 1..(n + 1) : l # 2^k - 1
        luby[n \in 0..x] == IF size(n) = n + 1 THEN (size(n) + 1) \div 2
                            ELSE luby[n % ((size(n) - 1) \div 2)]
    IN luby[x]

(* The learnt clause is kept and propagates its first literal. *)
Record(t, learnt) ==
    LET a == Alloc(t, learnt)
    IN IF Len(learnt) = 1 THEN UncheckedEnqueue(t, learnt[1], NoRef)
       ELSE UncheckedEnqueue([a.s EXCEPT !.learnts = @ \cup {a.cref}], learnt[1], a.cref)

(* What a conflict above level 0 leads to. *)
Learn(t, confl) ==
    LET a == Analyze(t, confl)
    IN Record(CancelUntil(t, a.btlevel), a.learnt)

(* simplify(): the counters that let it run less often are left out. *)
Simplify(t) ==
    [RemoveSatisfied(t, t.learnts) EXCEPT !.heap = {v \in t.decision : t.assigns[v] = Undef}]

Simplified(t) == IF DecisionLevel(t) = 0 THEN {t, Simplify(t)} ELSE {t}

(* reduceDB(): learnt clauses that are long and not a reason. *)
Removable(t) == {cr \in t.learnts : Len(t.ca[cr]) > 2 /\ ~Locked(t, cr)}

Reduced(t) ==
    IF 3 * (Cardinality(t.learnts) - Len(t.trail)) >= Cardinality(Clauses(t))
    THEN {RemoveClauses(t, dropped) : dropped \in SUBSET Removable(t)}
    ELSE {t}

(* The levels of the assumptions: the first one not true yet. *)
Assume(t, ps) ==
    LET lvl == DecisionLevel(t)
        open == {i \in (lvl + 1)..Len(ps) : Value(t, ps[i]) # True}
        first == CHOOSE i \in open : \A j \in open : i <= j
        dummies(n) == [t EXCEPT !.trail_lim = @ \o [i \in 1..n |-> Len(t.trail)]]
    IN IF lvl >= Len(ps) THEN [s |-> t, next |-> Undef]
       ELSE IF open = {} THEN [s |-> dummies(Len(ps) - lvl), next |-> Undef]
       ELSE [s |-> dummies(first - 1 - lvl), next |-> ps[first]]

(* pickBranchLit: the variables it can choose.  Those of the others that       *)
(* have a higher activity leave the heap as well, until cancelUntil puts them  *)
(* back; here all of them do.                                                  *)
Free(t) == {v \in t.heap \cap t.decision : t.assigns[v] = Undef}

----------------------------------------------------------------------------
SearchInit(n) ==
    /\ loaded = <<>>
    /\ solver = NewSolver({})
    /\ mode = "new"
    /\ assumptions = <<>>
    /\ conflictC = 0
    /\ restarts = 0
    /\ interrupt = FALSE
    /\ calls = n
    /\ res = [call |-> "none"]

LoadProblem(clauses) ==
    /\ mode = "new"
    /\ loaded' = clauses
    /\ solver' = LoadClauses(clauses)
    /\ mode' = "idle"
    /\ UNCHANGED <<assumptions, conflictC, restarts, interrupt, calls, res>>

Call ==
    /\ mode = "idle"
    /\ calls > 0
    /\ calls' = calls - 1

Propagation(ps) ==
    LET r == PropCheck(solver, ps)
    IN /\ Call
       /\ solver' = r.s
       /\ res' = [call |-> "prop", lits |-> ps, ret |-> r.ret]
       /\ UNCHANGED <<loaded, mode, assumptions, conflictC, restarts, interrupt>>

PropagationLits(ps) ==
    LET r == PropCheckLits(solver, ps)
    IN /\ Call
       /\ solver' = r.s
       /\ res' = [call |-> "lits", lits |-> ps, ret |-> r.ret, prop |-> r.prop]
       /\ UNCHANGED <<loaded, mode, assumptions, conflictC, restarts, interrupt>>

PropagationTree(ps, head) ==
    LET r == PropCheckSubtree(solver, ps, head)
    IN /\ Call
       /\ head <= Len(ps)
       /\ solver' = r.s
       /\ res' = [call |-> "tree", lits |-> ps, head |-> head, n |-> r.n]
       /\ UNCHANGED <<loaded, mode, assumptions, conflictC, restarts, interrupt>>

(* Variant: every UNSAT is for ever. *)
ReturnForEver(t, status, conflict) ==
    /\ mode' = "idle"
    /\ solver' = CancelUntil([t EXCEPT !.ok = @ /\ status # "UNSAT"], 0)
    /\ res' = [call |-> "solve", lits |-> assumptions', status |-> status, conflict |-> conflict,
               model |-> IF status = "SAT" THEN ToSet(t.trail) ELSE {},
               interrupted |-> interrupt']

(* The end of solve_(): UNSAT without assumptions to blame is for ever. *)
Return(t, status, conflict) ==
    /\ mode' = "idle"
    /\ solver' = CancelUntil([t EXCEPT !.ok = @ /\ ~(status = "UNSAT" /\ conflict = {})], 0)
    /\ res' = [call |-> "solve", lits |-> assumptions', status |-> status, conflict |-> conflict,
               model |-> IF status = "SAT" THEN ToSet(t.trail) ELSE {},
               interrupted |-> interrupt']

Solve(ps) ==
    /\ Call
    /\ interrupt' = FALSE
    /\ assumptions' = ps
    /\ conflictC' = 0
    /\ restarts' = 0
    /\ IF solver.ok THEN mode' = "search" /\ res' = [call |-> "none"] /\ UNCHANGED solver
       ELSE Return(solver, "UNSAT", {})
    /\ UNCHANGED loaded

Interrupt ==
    /\ mode \in {"search", "restart"}
    /\ ~interrupt
    /\ interrupt' = TRUE
    /\ UNCHANGED <<loaded, solver, mode, assumptions, conflictC, restarts, calls, res>>

(* The iterations of search(). *)
Conflict ==
    LET r == Propagate(solver)
    IN /\ mode = "search"
       /\ r.confl # NoRef
       /\ conflictC' = conflictC + 1
       /\ UNCHANGED <<loaded, assumptions, restarts, interrupt, calls>>
       /\ IF DecisionLevel(solver) = 0 THEN Return(r.s, "UNSAT", {})
          ELSE solver' = Learn(r.s, r.confl) /\ UNCHANGED <<mode, res>>

Stop == interrupt \/ conflictC >= Luby(restarts) * RestartFirst

EndSearch ==
    LET r == Propagate(solver)
    IN /\ mode = "search"
       /\ r.confl = NoRef
       /\ Stop
       /\ solver' = CancelUntil(r.s, 0)
       /\ mode' = "restart"
       /\ UNCHANGED <<loaded, assumptions, conflictC, restarts, interrupt, calls, res>>

Decide ==
    LET r == Propagate(solver)
    IN /\ mode = "search"
       /\ r.confl = NoRef
       /\ ~Stop
       /\ UNCHANGED <<loaded, assumptions, conflictC, restarts, interrupt, calls>>
       /\ \E t \in Simplified(r.s) : \E u \in Reduced(t) :
             LET a == Assume(u, assumptions)
             IN \/ /\ a.next # Undef
                   /\ Value(u, a.next) = False
                   /\ Return(a.s, "UNSAT", AnalyzeFinal(a.s, -a.next))
                \/ /\ a.next # Undef
                   /\ Value(u, a.next) = Undef
                   /\ solver' = UncheckedEnqueue(NewDecisionLevel(a.s), a.next, NoRef)
                   /\ UNCHANGED <<mode, res>>
                \/ /\ a.next = Undef
                   /\ Free(a.s) = {}
                   /\ Return([a.s EXCEPT !.heap = {}], "SAT", {})
                \/ /\ a.next = Undef
                   /\ \E v \in Free(a.s) : \E p \in {v, -v} :
                         LET b == [a.s EXCEPT !.heap = Free(a.s) \ {v}]
                         IN solver' = UncheckedEnqueue(NewDecisionLevel(b), p, NoRef)
                   /\ UNCHANGED <<mode, res>>

(* Variant: the restarts are not counted. *)
RestartNotCounted ==
    /\ mode = "restart"
    /\ UNCHANGED <<loaded, assumptions, interrupt, calls, restarts>>
    /\ IF interrupt THEN Return(solver, "UNKNOWN", {}) /\ UNCHANGED conflictC
       ELSE /\ conflictC' = 0
            /\ mode' = "search"
            /\ UNCHANGED <<solver, res>>

(* The loop of solve_(), after a search() that returned l_Undef. *)
Restart ==
    /\ mode = "restart"
    /\ UNCHANGED <<loaded, assumptions, interrupt, calls>>
    /\ IF interrupt THEN Return(solver, "UNKNOWN", {}) /\ UNCHANGED <<restarts, conflictC>>
       ELSE /\ restarts' = IF restarts < MaxRestarts THEN restarts + 1 ELSE restarts
            /\ conflictC' = 0
            /\ mode' = "search"
            /\ UNCHANGED <<solver, res>>

(* The thread that called solve() runs it. *)
SearchStep == Conflict \/ EndSearch \/ Decide \/ Restart

SearchNext ==
    \/ \E ps \in Assumptions(loaded) : Propagation(ps) \/ PropagationLits(ps) \/ Solve(ps)
    \/ \E ps \in Assumptions(loaded), head \in Heads : PropagationTree(ps, head)
    \/ Interrupt
    \/ SearchStep

----------------------------------------------------------------------------
(* What is checked. *)

LoadedModels == Models(ToSet(loaded), VarsUpTo(loaded))

(* The clauses that are propagated, and the literals that are true for good. *)
SolverClauses ==
    {ToSet(solver.ca[cr]) : cr \in Attached(solver)} \cup
    {{p} : p \in {q \in ToSet(solver.trail) : solver.level[Abs(q)] = 0}}

(* A clause is in the lists of its first two literals and in no other; if one  *)
(* of the two is false and was propagated, then a literal of the clause is     *)
(* true, and became so no later than that one became false.                    *)
Watched(cr) ==
    LET c == solver.ca[cr]
        watching(p) == {i \in DOMAIN solver.watches[p] : solver.watches[p][i].cref = cr}
        propagated == {-solver.trail[i] : i \in 1..solver.qhead}
    IN /\ \A p \in Lit : Cardinality(watching(p)) = IF -p \in {c[1], c[2]} THEN 1 ELSE 0
       /\ \A p \in {c[1], c[2]} \cap propagated :
             \E q \in ToSet(c) : /\ Value(solver, q) = True
                                 /\ solver.level[Abs(q)] <= solver.level[Abs(p)]

(* The reason of the i-th literal of the trail implies it: it is the first     *)
(* literal of the clause, and the others became false before.                  *)
Implied(i) ==
    LET cr == solver.reason[Abs(solver.trail[i])]
        before == {-solver.trail[j] : j \in 1..(i - 1)}
    IN cr # NoRef => /\ cr \in Attached(solver)
                     /\ solver.ca[cr][1] = solver.trail[i]
                     /\ ToSet(Tail(solver.ca[cr])) \subseteq before

(* What the methods take for granted through every backtracking, swap and      *)
(* removal: propagate() relies on the watches, and analyze(), analyzeFinal()   *)
(* and locked() never look at the first literal of a reason.  (The state of a  *)
(* solver that is not ok is not used any more.)                                *)
StructureHolds ==
    /\ solver.ok => \A cr \in Attached(solver) : Watched(cr)
    /\ \A i \in DOMAIN solver.trail : Implied(i)

(* Learning, minimising and trimming clauses, and the conflicts after which    *)
(* the solver says UNSAT for ever, never lose a model of the formula.          *)
ModelsKept ==
    /\ \A a \in LoadedModels : \A c \in SolverClauses : c \cap a # {}
    /\ ~solver.ok => LoadedModels = {}

(* What solve() answers, whatever was asked of the solver before and however   *)
(* often it was interrupted: SAT with an assignment of all variables that      *)
(* satisfies the formula and the assumptions, UNSAT with assumptions to blame  *)
(* that do refute it, UNKNOWN only after interrupt().                          *)
AnswerSound ==
    res.call = "solve" =>
        /\ res.status = "SAT" => /\ res.model \in LoadedModels
                                 /\ ToSet(res.lits) \subseteq res.model
        /\ res.status = "UNSAT" =>
              LET blamed == {-p : p \in res.conflict}
              IN blamed \subseteq ToSet(res.lits) /\ \A a \in LoadedModels : ~(blamed \subseteq a)
        /\ res.status = "UNKNOWN" => res.interrupted

(* The propagation calls say what unit propagation of the clauses says by its  *)
(* definition, whatever was asked of the solver before: prop_check, for all    *)
(* assumptions at once or one after the other, with all literals propagated;   *)
(* and prop_check_subtree counts the assignments below the head for which      *)
(* prop_check would find a conflict.                                           *)
PropagationExact ==
    LET refuted(ps) == ~solver.ok \/ Refutes(SolverClauses, ps)
        lits == ToSet(res.lits)
        tail == (res.head + 1)..Len(res.lits)
        leaf(b) == {IF i \in tail /\ b[i] THEN -res.lits[i] ELSE res.lits[i] : i \in DOMAIN res.lits}
    IN /\ res.call \in {"prop", "lits"} => res.ret = ~refuted(lits)
       /\ res.call = "lits" /\ res.ret =>
             ToSet(res.prop) \cup ToSet(solver.trail) = Closure(SolverClauses, lits)
       /\ res.call = "tree" =>
             res.n = Cardinality({b \in [tail -> BOOLEAN] : refuted(leaf(b))})
=============================================================================
