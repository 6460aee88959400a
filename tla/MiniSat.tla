------------------------------ MODULE MiniSat ------------------------------
(***************************************************************************)
(* The data structure of Minisat::Solver and what its methods do to it:    *)
(* clauses with two watched literals, the trail, unit propagation, back-   *)
(* tracking, conflict analysis.  A solver is a record and a method is an   *)
(* operator from solvers to solvers.  MiniSatSearch and Problem are the    *)
(* state machines that call the methods.                                   *)
(*                                                                         *)
(* Variables are 1..NumVars and the literals of variable v are v and -v.   *)
(* Activities and saved phases, which only order the search, are left out. *)
(***************************************************************************)
EXTENDS Integers, Sequences, FiniteSets, SequencesExt

CONSTANT NumVars

ASSUME NumVarsAssumption == NumVars \in Nat \ {0}

Var == 1..NumVars
Lit == Var \cup {-v : v \in Var}

True == 1
False == -1
Undef == 0

(* The reason of a decision, and propagate's result without a conflict: CRef_Undef. *)
NoRef == 0

Abs(p) == IF p < 0 THEN -p ELSE p

Vars(ps) == {Abs(p) : p \in ps}

(* ca[cr] is the clause, with its watched literals first; a removed clause    *)
(* is empty.  vs are the variables that newVar has made, heap those of them   *)
(* in order_heap.                                                             *)
NewSolver(vs) ==
    [ca |-> <<>>, learnts |-> {}, watches |-> [p \in Lit |-> <<>>],
     assigns |-> [v \in Var |-> Undef], reason |-> [v \in Var |-> NoRef],
     level |-> [v \in Var |-> 0], trail |-> <<>>, trail_lim |-> <<>>, qhead |-> 0,
     ok |-> TRUE, decision |-> vs, heap |-> vs]

Value(s, p) == IF p > 0 THEN s.assigns[p] ELSE -s.assigns[-p]

DecisionLevel(s) == Len(s.trail_lim)

Attached(s) == {cr \in DOMAIN s.ca : s.ca[cr] # <<>>}

Clauses(s) == Attached(s) \ s.learnts

Satisfied(s, cr) == \E p \in ToSet(s.ca[cr]) : Value(s, p) = True

----------------------------------------------------------------------------
(* The trail. *)

NewDecisionLevel(s) == [s EXCEPT !.trail_lim = Append(@, Len(s.trail))]

UncheckedEnqueue(s, p, from) ==
    [s EXCEPT !.assigns[Abs(p)] = IF p > 0 THEN True ELSE False,
              !.reason[Abs(p)] = from,
              !.level[Abs(p)] = DecisionLevel(s),
              !.trail = Append(@, p)]

CancelUntil(s, lvl) ==
    IF DecisionLevel(s) <= lvl THEN s
    ELSE LET cut == s.trail_lim[lvl + 1]
             undone == Vars(ToSet(SubSeq(s.trail, cut + 1, Len(s.trail))))
         IN [s EXCEPT !.assigns = [v \in Var |-> IF v \in undone THEN Undef ELSE @[v]],
                      !.heap = @ \cup (undone \cap s.decision),
                      !.qhead = cut,
                      !.trail = SubSeq(@, 1, cut),
                      !.trail_lim = SubSeq(@, 1, lvl)]

----------------------------------------------------------------------------
(* Unit propagation.  The watchers of p stand in watches[p]: their clauses    *)
(* contain -p, which p has made false.                                       *)

Watcher(cr, blocker) == [cref |-> cr, blocker |-> blocker]

AttachClause(s, cr) ==
    LET c == s.ca[cr]
    IN [s EXCEPT !.watches[-c[1]] = Append(@, Watcher(cr, c[2])),
                 !.watches[-c[2]] = Append(@, Watcher(cr, c[1]))]

(* The clause with its false literal in the second place. *)
FalseSecond(c, false_lit) ==
    IF c[1] = false_lit THEN [c EXCEPT ![1] = c[2], ![2] = false_lit] ELSE c

(* The places past the watches that can take over the watch of the false literal. *)
NewWatches(s, c) == {k \in 3..Len(c) : Value(s, c[k]) # False}

(* Variant: a blocker that is not false is taken for a true one. *)
BlockedUnlessFalse(s, w) == Value(s, w.blocker) # False

(* The clause is not looked at if its blocker is true. *)
Blocked(s, w) == Value(s, w.blocker) = True

(* The visit of one watcher of p in a propagation r that has rewritten the    *)
(* list of p up to it: the solver and the clause found false, if any.         *)
VisitWatcher(r, p, w) ==
    LET s == r.s
        c == FalseSecond(s.ca[w.cref], -p)
        first == c[1]
        places == NewWatches(s, c)
        k == CHOOSE k \in places : \A l \in places : k <= l
        keep(u, x) == [u EXCEPT !.watches[p] = Append(@, x)]
        seen == keep([s EXCEPT !.ca[w.cref] = c], Watcher(w.cref, first))
    IN IF r.confl # NoRef \/ Blocked(s, w) THEN [r EXCEPT !.s = keep(s, w)]
       ELSE IF Value(s, first) = True THEN [r EXCEPT !.s = seen]
       ELSE IF places # {}
       THEN [r EXCEPT !.s = [s EXCEPT !.ca[w.cref] = [c EXCEPT ![2] = c[k], ![k] = -p],
                                      !.watches[-c[k]] = Append(@, Watcher(w.cref, first))]]
       ELSE IF Value(s, first) = False
       THEN [s |-> [seen EXCEPT !.qhead = Len(s.trail)], confl |-> w.cref]
       ELSE [r EXCEPT !.s = UncheckedEnqueue(seen, first, w.cref)]

PropagateLit(s, p) ==
    LET ws == s.watches[p]
        visit[i \in 0..Len(ws)] ==
            IF i = 0 THEN [s |-> [s EXCEPT !.watches[p] = <<>>], confl |-> NoRef]
            ELSE VisitWatcher(visit[i - 1], p, ws[i])
    IN visit[Len(ws)]

(* propagate(): one literal of the trail after the other. *)
Propagate(s) ==
    LET dequeue(t) == [t EXCEPT !.qhead = @ + 1]
        next(r) == IF r.s.qhead = Len(r.s.trail) THEN r
                   ELSE PropagateLit(dequeue(r.s), r.s.trail[r.s.qhead + 1])
        after[i \in 0..NumVars] ==
            IF i = 0 THEN [s |-> s, confl |-> NoRef] ELSE next(after[i - 1])
    IN after[NumVars]

----------------------------------------------------------------------------
(* Adding and removing clauses, at decision level 0. *)

(* A clause of two or more literals gets the first reference that is free. *)
Alloc(s, c) ==
    LET free == {i \in 1..(Len(s.ca) + 1) : i \notin Attached(s)}
        cr == CHOOSE i \in free : \A j \in free : i <= j
    IN [s |-> AttachClause([s EXCEPT !.ca = IF cr > Len(@) THEN Append(@, c) ELSE [@ EXCEPT ![cr] = c]],
                           cr),
        cref |-> cr]

(* The order of the integers that represent literals: x, ~x, y, ~y, ... *)
LitBefore(p, q) == Abs(p) < Abs(q) \/ (Abs(p) = Abs(q) /\ p > q)

AddClause(s, ps) ==
    LET lits == {p \in ps : Value(s, p) # False}
    IN IF ~s.ok \/ \E p \in ps : Value(s, p) = True \/ (p \in lits /\ -p \in lits) THEN s
       ELSE IF lits = {} THEN [s EXCEPT !.ok = FALSE]
       ELSE IF Cardinality(lits) = 1
       THEN LET r == Propagate(UncheckedEnqueue(s, CHOOSE p \in lits : TRUE, NoRef))
            IN [r.s EXCEPT !.ok = r.confl = NoRef]
       ELSE Alloc(s, SetToSortSeq(lits, LitBefore)).s

(* loadClauses, which makes the variables up to the largest in the clauses. *)
VarsUpTo(clauses) == 1..Max(Vars(UNION ToSet(clauses)) \cup {0})

LoadClauses(clauses) ==
    LET loaded[i \in 0..Len(clauses)] ==
            IF i = 0 THEN NewSolver(VarsUpTo(clauses)) ELSE AddClause(loaded[i - 1], clauses[i])
    IN loaded[Len(clauses)]

(* The clause is the reason of its first literal. *)
Locked(s, cr) ==
    LET p == s.ca[cr][1]
    IN Value(s, p) = True /\ s.reason[Abs(p)] = cr

(* removeClause of some clauses: their watchers go when the lists are next    *)
(* looked up.                                                                 *)
RemoveClauses(s, crs) ==
    [s EXCEPT !.reason = [v \in Var |-> IF \E cr \in crs : Locked(s, cr) /\ Abs(s.ca[cr][1]) = v
                                        THEN NoRef ELSE @[v]],
              !.watches = [p \in Lit |-> SelectSeq(@[p], LAMBDA w : w.cref \notin crs)],
              !.learnts = @ \ crs,
              !.ca = [cr \in DOMAIN @ |-> IF cr \in crs THEN <<>> ELSE @[cr]]]

(* The last literal takes the place of each false one past the watches. *)
Trim(s, c) ==
    LET next(t) == IF t.k > Len(t.c) THEN t
                   ELSE IF Value(s, t.c[t.k]) # False THEN [t EXCEPT !.k = @ + 1]
                   ELSE [t EXCEPT !.c = Front([@ EXCEPT ![t.k] = Last(t.c)])]
        trim[i \in 0..Len(c)] == IF i = 0 THEN [c |-> c, k |-> 3] ELSE next(trim[i - 1])
    IN trim[Len(c)].c

(* removeSatisfied: satisfied clauses go, the others lose their false literals. *)
RemoveSatisfied(s, crs) ==
    LET t == RemoveClauses(s, {cr \in crs : Satisfied(s, cr)})
    IN [t EXCEPT !.ca = [cr \in DOMAIN @ |-> IF cr \in crs THEN Trim(s, @[cr]) ELSE @[cr]]]

----------------------------------------------------------------------------
(* Conflict analysis. *)

(* The loop of analyze: resolve the conflict with the reasons of its literals *)
(* of the current level, from the end of the trail, until one such literal is *)
(* left.  seen and lower are the variables and the literals of lower levels   *)
(* met so far, pathC the literals of this level that are not resolved.        *)
Resolve(s, a) ==
    LET c == s.ca[a.confl]
        fresh == SelectSeq(SubSeq(c, a.from, Len(c)),
                           LAMBDA q : Abs(q) \notin a.seen /\ s.level[Abs(q)] > 0)
        below == SelectSeq(fresh, LAMBDA q : s.level[Abs(q)] < DecisionLevel(s))
        seen == a.seen \cup Vars(ToSet(fresh))
        i == CHOOSE i \in 1..a.index : /\ Abs(s.trail[i]) \in seen
                                       /\ \A j \in (i + 1)..a.index : Abs(s.trail[j]) \notin seen
        p == s.trail[i]
    IN [confl |-> s.reason[Abs(p)], from |-> 2, index |-> i - 1, seen |-> seen \ {Abs(p)},
        lower |-> a.lower \o below, pathC |-> a.pathC + Len(fresh) - Len(below) - 1, uip |-> -p]

Resolved(s, confl) ==
    LET start == [confl |-> confl, from |-> 1, index |-> Len(s.trail), seen |-> {},
                  lower |-> <<>>, pathC |-> 0, uip |-> Undef]
        step[i \in 1..NumVars] ==
            IF i = 1 THEN Resolve(s, start)
            ELSE LET a == step[i - 1] IN IF a.pathC = 0 THEN a ELSE Resolve(s, a)
    IN step[NumVars]

Position(s, p) == CHOOSE i \in DOMAIN s.trail : s.trail[i] = -p

(* Variant: a decision is redundant, having no reason to look at. *)
LitRedundantDecision(s, p, learnt) ==
    LET implied[i \in DOMAIN s.trail] ==
            LET v == Abs(s.trail[i])
            IN s.reason[v] # NoRef =>
                  \A q \in ToSet(Tail(s.ca[s.reason[v]])) :
                     s.level[Abs(q)] = 0 \/ q \in learnt \/ implied[Position(s, q)]
    IN implied[Position(s, p)]

(* litRedundant: p follows from the other literals of the learnt clause. *)
LitRedundant(s, p, learnt) ==
    LET implied[i \in DOMAIN s.trail] ==
            LET v == Abs(s.trail[i])
            IN /\ s.reason[v] # NoRef
               /\ \A q \in ToSet(Tail(s.ca[s.reason[v]])) :
                     s.level[Abs(q)] = 0 \/ q \in learnt \/ implied[Position(s, q)]
    IN implied[Position(s, p)]

(* The literal of the highest level, the first one of several. *)
Highest(s, out) ==
    LET lvl(i) == s.level[Abs(out[i])]
    IN CHOOSE i \in DOMAIN out : /\ \A j \in DOMAIN out : lvl(j) <= lvl(i)
                                /\ \A j \in 1..(i - 1) : lvl(j) < lvl(i)

(* The learnt clause, with that literal second, and the level to go back to. *)
Asserting(s, uip, out) ==
    LET max == Highest(s, out)
    IN IF out = <<>> THEN [learnt |-> <<uip>>, btlevel |-> 0]
       ELSE [learnt |-> <<uip>> \o [out EXCEPT ![max] = out[1], ![1] = out[max]],
             btlevel |-> s.level[Abs(out[max])]]

Minimised(s, lower) == SelectSeq(lower, LAMBDA p : ~LitRedundant(s, p, ToSet(lower)))

Analyze(s, confl) ==
    LET r == Resolved(s, confl)
    IN Asserting(s, r.uip, Minimised(s, r.lower))

(* analyzeFinal: the decisions, all of them assumptions, from which p follows, *)
(* negated, and p.                                                             *)
Sources(s, v) ==
    LET n == Len(s.trail)
        parents(u) == IF s.reason[u] = NoRef THEN {} ELSE Vars(ToSet(Tail(s.ca[s.reason[u]])))
        seen[i \in 0..n] ==
            IF i = 0 THEN {v}
            ELSE LET u == Abs(s.trail[n + 1 - i])
                     vs == seen[i - 1]
                 IN IF u \in vs /\ s.level[u] > 0 THEN vs \cup parents(u) ELSE vs
    IN seen[n]

AnalyzeFinal(s, p) ==
    {p} \cup {-q : q \in {q \in ToSet(s.trail) :
                            /\ Abs(q) \in Sources(s, Abs(p))
                            /\ s.level[Abs(q)] > 0
                            /\ s.reason[Abs(q)] = NoRef}}

----------------------------------------------------------------------------
(* What the methods are checked against. *)

(* A clause as a set of literals; an assignment as the set of its true literals. *)
Assignments(vs) == {{IF b[v] THEN v ELSE -v : v \in vs} : b \in [vs -> BOOLEAN]}

(* The models of f over the variables vs. *)
Models(f, vs) == {a \in Assignments(vs) : \A c \in f : c \cap a # {}}

(* Unit propagation by its definition: the literals that follow from f and   *)
(* lits, and whether a contradiction does.                                   *)
Closure(f, lits) ==
    LET candidates == lits \cup UNION f
        closed(ps) == \A c \in f : \A p \in c : (\A q \in c \ {p} : -q \in ps) => p \in ps
    IN {p \in candidates :
           \A ps \in {qs \in SUBSET candidates : lits \subseteq qs /\ closed(qs)} : p \in ps}

Refutes(f, lits) ==
    {} \in f \/ LET closure == Closure(f, lits) IN \E p \in closure : -p \in closure
=============================================================================
