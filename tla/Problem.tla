------------------------------ MODULE Problem ------------------------------
(***************************************************************************)
(* core::sat::Problem: it reads a formula into a Minisat::SimpSolver, lets *)
(* it eliminate variables, takes the clauses that are left with their      *)
(* variables renumbered, and later turns a model of these clauses into a   *)
(* model of the formula.                                                   *)
(*                                                                         *)
(* The steps are the iterations of the loops in eliminate() and            *)
(* backwardSubsumptionCheck().  The order in which variables leave         *)
(* elim_heap is left open; clauses are looked up in the order of their     *)
(* references.  Then the solver of MiniSatSearch is given the clauses, is  *)
(* asked, and what it answers is turned into a model of the formula.       *)
(***************************************************************************)
EXTENDS MiniSatSearch

(* The formula (a sequence of clauses, each a set of literals), _eliminate,   *)
(* and the number of calls made of the solver.                                *)
CONSTANT Inputs

ASSUME InputsAssumption ==
    \A in \in Inputs : /\ in.calls \in Nat
                       /\ \A c \in ToSet(in.formula) : c \subseteq Lit

VARIABLES formula,    \* the file that is read
          eliminate,  \* _eliminate
          simp,       \* the SimpSolver
          phase,      \* "gather", "subsume", "eliminate", then "export", then "read"
          clauses,    \* _clauses
          mapping,    \* _mapping
          result,     \* _result
          model       \* the last model of the formula given out

problemVars == <<formula, eliminate, simp, phase, clauses, mapping, result, model>>

vars == <<problemVars, searchVars>>

----------------------------------------------------------------------------
Ascending(crs) == SelectSeq([i \in 1..Max(crs \cup {0}) |-> i], LAMBDA i : i \in crs)

(* The SimpSolver: the solver, the clauses to check for subsumption, the      *)
(* variables of new clauses, the variables to eliminate, the number of        *)
(* assignments used for subsumption, the clauses eliminated (the literal of   *)
(* the variable first) and the variables eliminated.                          *)
NewSimp(s) ==
    [s |-> s, queue |-> Ascending(Clauses(s)), touched |-> UNION {Vars(ToSet(s.ca[cr])) : cr \in Clauses(s)},
     heap |-> s.decision, bwdsub_assigns |-> 0, elimclauses |-> <<>>, eliminated |-> {}, ret |-> TRUE]

ClauseSet(t, cr) == ToSet(t.s.ca[cr])

Open(t, v) == v \notin t.eliminated /\ t.s.assigns[v] = Undef

UpdateElimHeap(t, vs) == [t EXCEPT !.heap = @ \cup {v \in vs : Open(t, v)}]

RemoveClause(t, cr) ==
    UpdateElimHeap([t EXCEPT !.s = RemoveClauses(@, {cr})], Vars(ClauseSet(t, cr)))

(* addClause_ of SimpSolver, when the solver has done its part. *)
Added(t, s, new) ==
    [t EXCEPT !.s = s, !.ret = s.ok,
              !.queue = @ \o Ascending(new),
              !.touched = @ \cup UNION {Vars(ToSet(s.ca[cr])) : cr \in new}]

SimpAddClause(t, ps) ==
    LET s == AddClause(t.s, ps)
    IN Added(t, s, Clauses(s) \ Clauses(t.s))

----------------------------------------------------------------------------
(* Subsumption. *)

(* Variant: enqueue fails for a literal that is true already. *)
EnqueueOnlyNew(t, p) ==
    LET r == Propagate(UncheckedEnqueue(t.s, p, NoRef))
    IN IF Value(t.s, p) # Undef THEN [t EXCEPT !.ret = FALSE]
       ELSE [t EXCEPT !.s = r.s, !.ret = r.confl = NoRef]

(* enqueue(p) && propagate() == CRef_Undef. *)
EnqueueAndPropagate(t, p) ==
    LET r == Propagate(UncheckedEnqueue(t.s, p, NoRef))
    IN IF Value(t.s, p) # Undef THEN [t EXCEPT !.ret = Value(t.s, p) = True]
       ELSE [t EXCEPT !.s = r.s, !.ret = r.confl = NoRef]

(* detachClause, strengthen and attachClause. *)
Reattach(s, cr, c) ==
    AttachClause([s EXCEPT !.watches = [p \in Lit |-> SelectSeq(@[p], LAMBDA w : w.cref # cr)],
                           !.ca[cr] = c], cr)

StrengthenClause(t, cr, l) ==
    LET c == SelectSeq(t.s.ca[cr], LAMBDA p : p # l)
        u == [t EXCEPT !.queue = Append(@, cr)]
    IN IF Len(c) = 1 THEN EnqueueAndPropagate(RemoveClause(u, cr), c[1])
       ELSE UpdateElimHeap([u EXCEPT !.s = Reattach(@, cr, c)], {Abs(l)})

(* The literals of c whose complement is in d, if c without them subsumes d. *)
Flipped(c, d) == {l \in c : -l \in d}

(* Variant: a candidate that could be strengthened is removed. *)
CheckRemoves(t, c, cr) ==
    LET d == ClauseSet(t, cr)
        flipped == Flipped(c, d)
    IN IF t.ret /\ Cardinality(flipped) <= 1 /\ c \ flipped \subseteq d THEN RemoveClause(t, cr) ELSE t

(* c is checked against one candidate. *)
CheckCandidate(t, c, cr) ==
    LET d == ClauseSet(t, cr)
        flipped == Flipped(c, d)
    IN IF ~t.ret \/ ~(c \ flipped \subseteq d) THEN t
       ELSE IF flipped = {} THEN RemoveClause(t, cr)
       ELSE IF Cardinality(flipped) = 1
       THEN StrengthenClause(t, cr, -(CHOOSE l \in flipped : TRUE))
       ELSE t

(* One clause of the queue, or one unit, is checked against all the others.   *)
CheckAll(t, c, crs) ==
    LET others == Ascending(crs)
        checked[i \in 0..Len(others)] ==
            IF i = 0 THEN t ELSE CheckCandidate(checked[i - 1], c, others[i])
    IN checked[Len(others)]

----------------------------------------------------------------------------
(* Elimination of a variable. *)

Occurrences(t, p) == {cr \in Clauses(t.s) : p \in ClauseSet(t, cr)}

(* merge: FALSE for two clauses that differ in another variable as well. *)
Mergeable(c, d, v) == Flipped(c, d) = {v}
Merge(c, d, v) == (c \cup d) \ {v, -v}

(* The cross product of the clauses with v and those with -v. *)
Resolvents(t, v) ==
    LET pos == Ascending(Occurrences(t, v))
        neg == Ascending(Occurrences(t, -v))
        pair(k) == <<ClauseSet(t, pos[1 + (k \div Len(neg))]), ClauseSet(t, neg[1 + (k % Len(neg))])>>
        pairs == [k \in 1..(Len(pos) * Len(neg)) |-> pair(k - 1)]
        merged == SelectSeq(pairs, LAMBDA q : Mergeable(q[1], q[2], v))
    IN [i \in DOMAIN merged |-> Merge(merged[i][1], merged[i][2], v)]

(* The increase in the number of clauses stays within grow, which is 0.  (The *)
(* limit of 20 literals is out of reach with NumVars variables.)              *)
WithinGrow(t, v) ==
    Len(Resolvents(t, v)) <= Cardinality(Occurrences(t, v) \cup Occurrences(t, -v))

(* The smaller side is kept for extendModel, with the value for the case that *)
(* these clauses are satisfied otherwise.                                     *)
ElimClauses(t, v) ==
    LET pos == Occurrences(t, v)
        neg == Occurrences(t, -v)
        p == IF Cardinality(pos) > Cardinality(neg) THEN -v ELSE v
        side == Ascending(Occurrences(t, p))
    IN [i \in DOMAIN side |-> [lit |-> p, rest |-> ClauseSet(t, side[i]) \ {p}]] \o <<[lit |-> -p, rest |-> {}]>>

RemoveAll(t, crs) ==
    LET seq == Ascending(crs)
        removed[i \in 0..Len(seq)] == IF i = 0 THEN t ELSE RemoveClause(removed[i - 1], seq[i])
    IN removed[Len(seq)]

AddAll(t, ps) ==
    LET next(u, c) == IF u.ret THEN SimpAddClause(u, c) ELSE u
        added[i \in 0..Len(ps)] == IF i = 0 THEN t ELSE next(added[i - 1], ps[i])
    IN added[Len(ps)]

EliminateVar(t, v) ==
    LET u == [t EXCEPT !.eliminated = @ \cup {v}, !.s.decision = @ \ {v},
                       !.elimclauses = @ \o ElimClauses(t, v)]
    IN AddAll(RemoveAll(u, Occurrences(t, v) \cup Occurrences(t, -v)), Resolvents(t, v))

----------------------------------------------------------------------------
(* The clauses taken and the models given back. *)

(* toDimacs: a clause without its false literals. *)
Remaining(s, cr) == SelectSeq(s.ca[cr], LAMBDA p : Value(s, p) # False)

Kept(s) == Ascending({cr \in Clauses(s) : ~Satisfied(s, cr)})

(* mapVar: the variables are numbered, from 0 in the code, as they appear. *)
MapVars(s) ==
    LET lits == FlattenSeq([i \in DOMAIN Kept(s) |-> Remaining(s, Kept(s)[i])])
        first(v) == CHOOSE i \in DOMAIN lits : Abs(lits[i]) = v /\ \A j \in 1..(i - 1) : Abs(lits[j]) # v
        vs == Vars(ToSet(lits))
    IN [v \in vs |-> Cardinality({u \in vs : first(u) <= first(v)})]

ToDimacs(s, map) ==
    LET renamed(cr) == {IF p > 0 THEN map[p] ELSE -map[-p] : p \in ToSet(Remaining(s, cr))}
    IN SelectSeq([i \in DOMAIN Kept(s) |-> renamed(Kept(s)[i])], LAMBDA c : c # {})

ModelValue(m, p) == IF p > 0 THEN m[p] ELSE -m[-p]

(* Variant: from the first eliminated clause to the last. *)
ExtendForward(m, elims) ==
    LET next(k, e) == IF \E q \in e.rest : ModelValue(k, q) # False THEN k
                      ELSE [k EXCEPT ![Abs(e.lit)] = IF e.lit > 0 THEN True ELSE False]
        extended[i \in 0..Len(elims)] == IF i = 0 THEN m ELSE next(extended[i - 1], elims[i])
    IN extended[Len(elims)]

(* extendModel, from the last eliminated clause to the first. *)
ExtendModel(m, elims) ==
    LET n == Len(elims)
        next(k, e) == IF \E q \in e.rest : ModelValue(k, q) # False THEN k
                      ELSE [k EXCEPT ![Abs(e.lit)] = IF e.lit > 0 THEN True ELSE False]
        extended[i \in 0..n] == IF i = 0 THEN m ELSE next(extended[i - 1], elims[n + 1 - i])
    IN extended[n]

(* remap_and_extend_model of the model ps of the renumbered clauses; m is the  *)
(* model vector of the solver, with what an earlier call has left there.       *)
RemapAndExtend(t, map, m, ps) ==
    ExtendModel([v \in Var |-> IF t.s.assigns[v] # Undef THEN t.s.assigns[v]
                               ELSE IF v \notin DOMAIN map THEN m[v]
                               ELSE IF map[v] \in ps THEN True ELSE False],
                t.elimclauses)
----------------------------------------------------------------------------
(* eliminate() begins with simplify(), which fails if the solver is not ok. *)
Init ==
    /\ \E in \in Inputs : formula = in.formula /\ eliminate = in.eliminate /\ SearchInit(in.calls)
    /\ LET t == NewSimp(LoadClauses(formula))
       IN /\ simp = [t EXCEPT !.ret = ~eliminate \/ t.s.ok]
          /\ phase = IF eliminate /\ t.s.ok THEN "gather" ELSE "export"
    /\ clauses = <<>>
    /\ mapping = <<>>
    /\ result = "none"
    /\ model = [v \in Var |-> Undef]

(* A step that failed makes eliminate() set ok and return. *)
Step(t, next) ==
    /\ simp' = IF t.ret THEN t ELSE [t EXCEPT !.s.ok = FALSE]
    /\ phase' = IF t.ret THEN next ELSE "export"
    /\ UNCHANGED <<formula, eliminate, clauses, mapping, result, model>>
    /\ UNCHANGED searchVars

More(t) == t.touched # {} \/ t.bwdsub_assigns < Len(t.s.trail) \/ t.heap # {}

(* The clauses with a touched variable that are not in the queue already. *)
Touched(t) ==
    {cr \in Clauses(t.s) \ ToSet(t.queue) : Vars(ClauseSet(t, cr)) \cap t.touched # {}}

GatherTouchedClauses ==
    /\ phase = "gather"
    /\ IF More(simp)
       THEN Step([simp EXCEPT !.queue = @ \o Ascending(Touched(simp)), !.touched = {}], "subsume")
       ELSE Step(simp, "export")

(* The iterations of backwardSubsumptionCheck. *)
BackwardClause ==
    /\ phase = "subsume"
    /\ simp.queue # <<>>
    /\ LET cr == Head(simp.queue)
           t == [simp EXCEPT !.queue = Tail(@)]
       IN IF cr \in Clauses(simp.s)
          THEN Step(CheckAll(t, ClauseSet(simp, cr), Clauses(simp.s) \ {cr}), phase)
          ELSE Step(t, phase)

BackwardUnit ==
    /\ phase = "subsume"
    /\ simp.queue = <<>>
    /\ simp.bwdsub_assigns < Len(simp.s.trail)
    /\ LET n == simp.bwdsub_assigns + 1
       IN Step(CheckAll([simp EXCEPT !.bwdsub_assigns = n], {simp.s.trail[n]}, Clauses(simp.s)), phase)

EndBackward ==
    /\ phase = "subsume"
    /\ simp.queue = <<>>
    /\ simp.bwdsub_assigns = Len(simp.s.trail)
    /\ Step(simp, "eliminate")

EliminateNext ==
    /\ phase = "eliminate"
    /\ \E v \in simp.heap :
          LET t == [simp EXCEPT !.heap = @ \ {v}]
          IN IF Open(simp, v) /\ WithinGrow(simp, v) THEN Step(EliminateVar(t, v), "subsume")
             ELSE Step(t, phase)

EndEliminate ==
    /\ phase = "eliminate"
    /\ simp.heap = {}
    /\ Step(simp, "gather")

(* The rest of read_clauses().  The solve() at its end has no clause to        *)
(* satisfy; of a solver that is not ok it gives back no model.                 *)
Export ==
    LET map == MapVars(simp.s)
        free == {v \in simp.s.decision : simp.s.assigns[v] = Undef}
    IN /\ phase = "export"
       /\ phase' = "read"
       /\ mapping' = map
       /\ clauses' = ToDimacs(simp.s, map)
       /\ result' = IF clauses' # <<>> THEN "UNKNOWN" ELSE IF simp.ret THEN "SAT" ELSE "UNSAT"
       /\ IF result' = "SAT" /\ simp.s.ok
          THEN \E b \in [free -> {True, False}] :
                  model' = ExtendModel([v \in Var |-> IF v \in free THEN b[v] ELSE simp.s.assigns[v]],
                                       simp.elimclauses)
          ELSE UNCHANGED model
       /\ UNCHANGED <<formula, eliminate, simp>>
       /\ UNCHANGED searchVars

(* The solver of a problem that is not decided yet. *)
Load ==
    /\ phase = "read"
    /\ result = "UNKNOWN"
    /\ LoadProblem(clauses)
    /\ UNCHANGED problemVars

(* The solver found a model of the clauses. *)
GiveModel ==
    /\ mode = "idle"
    /\ res.call = "solve" /\ res.status = "SAT"
    /\ model' = RemapAndExtend(simp, mapping, model, res.model)
    /\ UNCHANGED <<formula, eliminate, simp, phase, clauses, mapping, result>>
    /\ UNCHANGED searchVars

Done ==
    /\ phase = "read"
    /\ result # "UNKNOWN" \/ (mode = "idle" /\ calls = 0)
    /\ UNCHANGED vars

Next ==
    \/ GatherTouchedClauses
    \/ BackwardClause
    \/ BackwardUnit
    \/ EndBackward
    \/ EliminateNext
    \/ EndEliminate
    \/ Export
    \/ Load
    \/ SearchNext /\ UNCHANGED problemVars
    \/ GiveModel
    \/ Done

(* One thread reads the problem, then calls the solver, and goes on until a    *)
(* call returns: of the steps taken meanwhile all but Interrupt are its own,   *)
(* and they leave the flag alone.  One of them is possible as long as the call *)
(* lasts (the run checks that there is no deadlock), so that Fairness says     *)
(* what weak fairness of the thread says.                                      *)
Busy == phase # "read" \/ mode \in {"search", "restart"}

Running == Busy /\ interrupt' = interrupt

Fairness == []<>~Busy \/ []<><<Running>>_vars

Spec == Init /\ [][Next]_vars /\ Fairness

----------------------------------------------------------------------------
(* What is checked. *)

FileVars == VarsUpTo(formula)

FileModels == Models(ToSet(formula), FileVars)

(* The clauses of the solver and the literals that are true for good. *)
Database == {ClauseSet(simp, cr) : cr \in Clauses(simp.s)} \cup {{p} : p \in ToSet(simp.s.trail)}

Left(a) == {p \in a : Abs(p) \notin simp.eliminated}

(* Elimination, subsumption and strengthening keep exactly the models of the   *)
(* formula, seen on the variables that are left; a solver that is not ok has   *)
(* seen a contradiction.                                                       *)
EliminationExact ==
    IF simp.s.ok THEN {Left(a) : a \in FileModels} = {Left(a) : a \in Models(Database, FileVars)}
    ELSE FileModels = {}

(* do_print_model prints a variable without a value as false. *)
Printed == {IF model[v] = True THEN v ELSE -v : v \in FileVars}

(* Unless the solver is in a contradictory state, a model that is given out,   *)
(* by the solve() at the end of read_clauses() or from an answer of the solver *)
(* of the renumbered clauses, is one of the formula, with nothing left in it   *)
(* from the model given out before.                                            *)
ModelsExtend ==
    phase = "read" /\ simp.s.ok /\ (result = "SAT" \/ \E v \in Var : model[v] # Undef) =>
        Printed \in FileModels

(* "The set of clauses describing the formula" and "the result of parsing"     *)
(* (Problem.h:47, 54): they have a model if and only if the formula has one,   *)
(* unless a contradiction was met on the way: read_clauses() does not look at  *)
(* ok, so that the clauses that happen to be left then may have a model        *)
(* although the formula has none, but never the other way round.               *)
ClausesDescribeFormula ==
    LET satisfiable == \/ result = "SAT"
                       \/ result = "UNKNOWN" /\ Models(ToSet(clauses), VarsUpTo(clauses)) # {}
    IN phase = "read" =>
          /\ FileModels # {} => satisfiable
          /\ FileModels = {} /\ simp.s.ok => ~satisfiable

(* The constructor returns, and so does every solve(), interrupted or not: no  *)
(* cycle of strengthened and touched clauses, nor of restarts and forgotten    *)
(* clauses.                                                                    *)
CallsReturn == Busy ~> ~Busy
=============================================================================
