------------------------------ MODULE Evolution ------------------------------
(***************************************************************************)
(* ea::algorithm::Algorithm with its EAAlgorithm and GAAlgorithm, as       *)
(* core::solve::OneRBSearch::find_rb runs it: a population of sets of      *)
(* variables (masks), each rated by how many assignments of its variables  *)
(* unit propagation refutes.  A set whose assignments are all refuted is a *)
(* strong backdoor, and the problem is then UNSAT, so that what is_sbs()   *)
(* says decides an answer although the ratings may be sampled, cached, or  *)
(* left over from before a mutation.                                       *)
(*                                                                         *)
(* Random choices are nondeterministic.  A formula is abstracted to the    *)
(* assignments that unit propagation refutes, without the base assumption  *)
(* and under it.                                                           *)
(***************************************************************************)
EXTENDS Integers, Sequences, FiniteSets

CONSTANTS
    Vars,           \* the variables of Preprocess::var_view
    Formulas,       \* [plain, under]: the least assignments that are refuted
    Configs,        \* [kind, q, h, limit, cache]: AlgorithmConfigs, with max_cache_size
    MaxVarsFs,      \* sampling_config: max_vars_fs,
    BaseSamples,    \*   base_count,
    Scale,          \*   scale,
    MaxScaleSteps,  \*   max_steps
    SampleBits,     \* the width of Fitness::samples
    OmegaX,         \* omega_x
    MaxPoints,      \* max_points_visited
    StallSteps,     \* steps_before_stall
    None

Masks == SUBSET Vars

(* Unit propagation refutes what it refutes of a part. *)
Refutes(least, a) ==
    \E l \in least : DOMAIN l \subseteq DOMAIN a /\ \A v \in DOMAIN l : a[v] = l[v]

ASSUME EvolutionAssumption ==
    /\ Vars # {} /\ IsFiniteSet(Vars) /\ None # "SBS_FOUND"
    /\ StallSteps > 0
    /\ {MaxVarsFs, MaxScaleSteps, SampleBits, OmegaX} \subseteq Nat
    /\ BaseSamples \in Nat \ {0}
    /\ \A s \in 0..MaxScaleSteps : Scale^s \in Nat \ {0}
    /\ \A f \in Formulas : \A l \in f.plain : Refutes(f.under, l)
    /\ \A c \in Configs : /\ c.kind \in {"EA", "GA"} /\ c.q \in Nat \ {0} /\ c.h \in 0..c.q
                           /\ c.cache \in Nat \ {0}

VARIABLES
    formula, cfg,  \* the input; never changes
    base,          \* the base assumption has been set
    pop,           \* _population: [mask, cached, fit]
    cache,         \* SharedData::cache
    points,        \* inaccurate_visited_points
    same, last,    \* StallLimit: _steps_already, and _last_rho with _last_size
    interrupted,   \* RBSearch::_interrupted
    stop,          \* Algorithm::_interrupted
    alive,         \* _algorithm is not null
    ipc,           \* where a call of RBSearch::interrupt is
    pc, result     \* where find_rb is, and what it returned

inputVars == <<formula, cfg>>
algVars   == <<pop, cache, points, same, last>>
intVars   == <<interrupted, stop, alive, ipc>>
vars == <<inputVars, base, algVars, intVars, pc, result>>

NoFit == [conf |-> 0, tried |-> 1, size |-> 0]

Init ==
    /\ formula \in Formulas /\ cfg \in Configs
    /\ base = FALSE
    /\ pop = <<>>
    /\ cache = [m \in {} |-> NoFit]
    /\ points = 0
    /\ same = 0 /\ last = NoFit
    /\ interrupted = FALSE /\ stop = FALSE /\ alive = FALSE /\ ipc = "idle"
    /\ pc = "resolve" /\ result = None

----------------------------------------------------------------------------
(* Fitness. *)

Conflicts(m) ==
    Cardinality({a \in [m -> BOOLEAN] :
                    Refutes(IF base THEN formula.under ELSE formula.plain, a)})

(* A smaller value of log2(rho 2^size + (1 - rho) 2^omega_x). *)
Better(a, b) ==
    LET Value(f) == f.conf * 2^f.size + (f.tried - f.conf) * 2^OmegaX
    IN Value(a) * b.tried < Value(b) * a.tried

Samples(s) == BaseSamples * Scale^s

IsFull(size, s) == size <= MaxVarsFs \/ 2^size <= Samples(s)

(* How many of a random sample, drawn with repetition, may conflict. *)
Sampled(m, k) ==
    IF Conflicts(m) = 2^Cardinality(m) THEN {k}
    ELSE IF Conflicts(m) = 0 THEN {0} ELSE 0..k

(* _calc_fitness: the sample grows while all of it conflicts, up to a number *)
(* of times or until it is as large as a full search.                        *)
CalcFitness(m) ==
    LET size == Cardinality(m)
        Reached(s) == \A r \in 0..(s - 1) :
                          ~IsFull(size, r) /\ Samples(r) \in Sampled(m, Samples(r))
        Fit(c, k) == [conf |-> c, tried |-> k, size |-> size]
        At(s) == IF IsFull(size, s) THEN {Fit(Conflicts(m), 2^size)}
                 ELSE {Fit(c, Samples(s)) : c \in {x \in Sampled(m, Samples(s)) :
                                                      x < Samples(s) \/ s = MaxScaleSteps}}
    IN UNION {At(s) : s \in {t \in 0..MaxScaleSteps : Reached(t)}}

(* Instance::is_sbs: everything that was tried conflicts, and as much was   *)
(* tried as there is.                                                       *)
IsSbsByRho(f) == f.conf = f.tried

IsSbs(f) == f.conf = f.tried /\ f.tried % 2^SampleBits = 2^f.size

(* LRUCache::add: some entry makes room for a new one. *)
CacheAdd(m, f) ==
    \E out \in SUBSET DOMAIN cache :
        /\ Cardinality(out) = IF Cardinality(DOMAIN cache) = cfg.cache THEN 1 ELSE 0
        /\ cache' = [k \in (DOMAIN cache \ out) \cup {m} |-> IF k = m THEN f ELSE cache[k]]

(* get_best: the first of the best. *)
Best ==
    pop[CHOOSE i \in DOMAIN pop :
            /\ \A j \in DOMAIN pop : ~Better(pop[j].fit, pop[i].fit)
            /\ \A j \in 1..(i - 1) : Better(pop[i].fit, pop[j].fit)]

(* BestSelector::select: std::sort, and the first n. *)
Selected(n) ==
    IF Len(pop) <= n THEN {pop}
    ELSE LET Sorted(ix) ==
                 /\ \A i, j \in 1..n : i < j =>
                        ix[i] # ix[j] /\ ~Better(pop[ix[j]].fit, pop[ix[i]].fit)
                 /\ \A i \in 1..n, k \in DOMAIN pop \ {ix[x] : x \in 1..n} :
                        ~Better(pop[k].fit, pop[ix[i]].fit)
         IN {[i \in 1..n |-> pop[ix[i]]] : ix \in {x \in [1..n -> DOMAIN pop] : Sorted(x)}}

(* A copy of p that was mutated: get_vars() clears _cached, fit_ stays. *)
Mutated(p, m) == [mask |-> m, cached |-> FALSE, fit |-> p.fit]

----------------------------------------------------------------------------
(* find_rb up to the loop. *)
Resolve ==
    /\ pc = "resolve" /\ pc' = "prepare"
    /\ alive' = TRUE
    /\ UNCHANGED <<inputVars, base, algVars, interrupted, stop, ipc, result>>

(* Algorithm::prepare: one or q instances of one variable each.  GAAlgorithm *)
(* rates them at once, before the base assumption is set.                    *)
Prepare ==
    /\ pc = "prepare"
    /\ \E first \in [1..(IF cfg.kind = "EA" THEN 1 ELSE cfg.q) -> Vars] :
          pop' = [i \in DOMAIN first |-> [mask |-> {first[i]}, cached |-> FALSE, fit |-> NoFit]]
    /\ pc' = IF cfg.kind = "EA" THEN "base" ELSE "rate"
    /\ UNCHANGED <<inputVars, base, cache, points, same, last, intVars, result>>

SetBaseAssumption ==
    /\ pc = "base" /\ pc' = "step"
    /\ base' = TRUE
    /\ UNCHANGED <<inputVars, algVars, intVars, result>>

----------------------------------------------------------------------------
(* One _step(). *)

(* EAAlgorithm: the child is mutated until it is one the cache does not have. *)
Mutate ==
    /\ pc = "step" /\ cfg.kind = "EA"
    /\ \E m \in Masks \ DOMAIN cache : pop' = Append(pop, Mutated(pop[1], m))
    /\ pc' = "rate"
    /\ UNCHANGED <<inputVars, base, cache, points, same, last, intVars, result>>

Pairs == 2 * ((cfg.q - cfg.h) \div 2)

BreedHalf ==
    /\ pc = "step" /\ cfg.kind = "GA"
    /\ \E parents \in [1..Pairs -> 1..cfg.q] :
          \/ /\ \E i \in DOMAIN parents : parents[i] > Len(pop)
             /\ pc' = "crashed" /\ UNCHANGED pop
          \/ /\ \A i \in DOMAIN parents : parents[i] <= Len(pop)
             /\ pc' = "rate"
             /\ \E masks \in [1..(Pairs \div 2) -> Masks], kept \in Selected(cfg.h) :
                   pop' = kept \o [i \in DOMAIN masks |-> Mutated(pop[parents[i]], masks[i])]
    /\ UNCHANGED <<inputVars, base, cache, points, same, last, intVars, result>>

(* GAAlgorithm: parents are chosen by fits_, which keeps its q entries; each *)
(* pair is crossed and mutated, into any masks; the best h and the children  *)
(* are the next population.                                                  *)
Breed ==
    /\ pc = "step" /\ cfg.kind = "GA"
    /\ \E parents \in [1..Pairs -> 1..cfg.q] :
          \/ /\ \E i \in DOMAIN parents : parents[i] > Len(pop)
             /\ pc' = "crashed" /\ UNCHANGED pop
          \/ /\ \A i \in DOMAIN parents : parents[i] <= Len(pop)
             /\ pc' = "rate"
             /\ \E masks \in [1..Pairs -> Masks], kept \in Selected(cfg.h) :
                   pop' = kept \o [i \in DOMAIN masks |-> Mutated(pop[parents[i]], masks[i])]
    /\ UNCHANGED <<inputVars, base, cache, points, same, last, intVars, result>>

(* Instance::fitness() of an instance that is not _cached, as the sort, or   *)
(* the loop over the population, comes to it.                                *)
Rate(i) ==
    /\ pc = "rate" /\ ~pop[i].cached
    /\ LET m == pop[i].mask
           Set(f) == pop' = [pop EXCEPT ![i] = [mask |-> m, cached |-> TRUE, fit |-> f]]
       IN \/ m \in DOMAIN cache /\ Set(cache[m]) /\ UNCHANGED <<cache, points>>
          \/ /\ m \notin DOMAIN cache
             /\ \E f \in CalcFitness(m) : Set(f) /\ CacheAdd(m, f)
             /\ points' = points + 1
    /\ UNCHANGED <<inputVars, base, same, last, intVars, pc, result>>

(* All are rated; EAAlgorithm keeps the better of the two.  get_best takes   *)
(* the end of a population without members.                                  *)
Rated ==
    /\ pc = "rate" /\ \A i \in DOMAIN pop : pop[i].cached
    /\ IF cfg.kind = "EA" THEN pop' \in Selected(1) ELSE UNCHANGED pop
    /\ pc' = IF pop = <<>> THEN "crashed" ELSE IF base THEN "test" ELSE "base"
    /\ UNCHANGED <<inputVars, base, cache, points, same, last, intVars, result>>

----------------------------------------------------------------------------
(* The loop test: the flag, and Limit::proceed. *)
AtMostAllPoints == points <= 2^Cardinality(Vars)

HasUnvisitedPoints == points < 2^Cardinality(Vars)

(* PointsLimit, and StallLimit without its time: the best has had the same   *)
(* rho and size for so many steps.                                           *)
Stalls == Best.fit.size = last.size /\ Best.fit.conf * last.tried = last.conf * Best.fit.tried

LimitProceeds ==
    IF cfg.limit = "points" THEN points < MaxPoints /\ UNCHANGED <<same, last>>
    ELSE IF Stalls THEN same' = same + 1 /\ same + 1 # StallSteps /\ UNCHANGED last
    ELSE same' = 0 /\ last' = Best.fit

Proceed ==
    /\ pc = "test" /\ ~stop
    /\ HasUnvisitedPoints /\ LimitProceeds /\ ~IsSbs(Best.fit)
    /\ pc' = "step"
    /\ UNCHANGED <<inputVars, base, pop, cache, points, intVars, result>>

LimitStops ==
    \/ cfg.limit = "points" /\ points >= MaxPoints
    \/ cfg.limit = "stall" /\ Stalls /\ same + 1 = StallSteps

ProcessEnds ==
    /\ pc = "test"
    /\ stop \/ ~HasUnvisitedPoints \/ LimitStops \/ IsSbs(Best.fit)
    /\ pc' = "result"
    /\ UNCHANGED <<inputVars, base, algVars, intVars, result>>

(* The end of find_rb: an interrupt is asked for first. *)
FindRbReturns ==
    /\ pc = "result" /\ pc' = "done"
    /\ result' = IF interrupted THEN "INTERRUPTED"
                 ELSE IF IsSbs(Best.fit) THEN "SBS_FOUND" ELSE "SEARCH"
    /\ alive' = FALSE
    /\ UNCHANGED <<inputVars, base, algVars, interrupted, stop, ipc>>

----------------------------------------------------------------------------
(* RBSearch::interrupt from another thread: the flag, and the algorithm if  *)
(* there is one by then.                                                    *)
Interrupt ==
    /\ ~interrupted /\ interrupted' = TRUE /\ ipc' = "impl"
    /\ UNCHANGED <<inputVars, base, algVars, stop, alive, pc, result>>

InterruptAlgorithm ==
    /\ ipc = "impl" /\ ipc' = "idle"
    /\ stop' = (stop \/ alive)
    /\ UNCHANGED <<inputVars, base, algVars, interrupted, alive, pc, result>>

FindRb ==
    \/ Resolve \/ Prepare \/ SetBaseAssumption \/ Mutate \/ Breed
    \/ \E i \in DOMAIN pop : Rate(i)
    \/ Rated \/ Proceed \/ ProcessEnds \/ FindRbReturns

Over == pc \in {"done", "crashed"} /\ UNCHANGED vars

Next == FindRb \/ Interrupt \/ InterruptAlgorithm \/ Over

Spec == Init /\ [][Next]_vars

FairSpec == Spec /\ WF_vars(FindRb)

----------------------------------------------------------------------------
(* A strong backdoor is one: find_rb reports it only if propagation refutes *)
(* every assignment of its variables under the base assumption, although    *)
(* ratings are sampled (Instance.cpp:79-93), shared through a cache that    *)
(* does not know the base assumption, made before it was set               *)
(* (GAAlgorithm.cpp:42), and kept in copies that were mutated since.        *)
SbsSound ==
    result = "SBS_FOUND" => \A a \in [Best.mask -> BOOLEAN] : Refutes(formula.under, a)

(* GAAlgorithm indexes its population with numbers below q: it is as large  *)
(* as that unless q - h is odd, when the last parent has no partner, the    *)
(* population shrinks, to nothing if q is 1 and h is 0, and fits_ does not  *)
(* (GAAlgorithm.cpp:48, 64, 75, Algorithm.cpp:69).                          *)
WildIndexOnlyIfOdd == pc = "crashed" => (cfg.q - cfg.h) % 2 = 1

(* find_rb ends after an interrupt that reached the algorithm, and with     *)
(* EAAlgorithm in any case: it never looks for a mask that is not cached    *)
(* when a cache that does not evict has them all, since each entry is a     *)
(* point visited (EAAlgorithm.cpp:15, SearchSpace.cpp:15): Mutate would be  *)
(* disabled for good, as that loop is endless.  GAAlgorithm has only chance *)
(* for that: it may breed known masks without end, and a best of the same   *)
(* fitness and another size starts the StallLimit over.                     *)
SearchEnds ==
    /\ cfg.kind = "EA" => <>(pc = "done")
    /\ stop ~> pc \in {"done", "crashed"}
=============================================================================
