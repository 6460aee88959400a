--------------------------- MODULE EvolutionProofs ---------------------------
(***************************************************************************)
(* Theorems about Evolution, for all formulas, configurations and bounds:  *)
(* what find_rb reports as a strong backdoor is one, and GAAlgorithm stays *)
(* inside its population unless q - h is odd.                              *)
(***************************************************************************)
EXTENDS Evolution, FiniteSetTheorems, SequenceTheorems, WellFoundedInduction, TLAPS

----------------------------------------------------------------------------
(* The inductive invariant.                                                *)

Fits == [conf : Nat, tried : Nat \ {0}, size : Nat]
Insts == [mask : Masks, cached : BOOLEAN, fit : Fits]

Types ==
    /\ formula \in Formulas /\ cfg \in Configs
    /\ pop \in Seq(Insts)
    /\ \A m \in DOMAIN cache : cache[m] \in Fits

(* A rating that says strong backdoor of the mask m is right, in the end:  *)
(* it may be older than the base assumption, which only refutes more.      *)
Good(m, f) == IsSbs(f) => \A a \in [m -> BOOLEAN] : Refutes(formula.under, a)

Backed ==
    /\ \A i \in 1..Len(pop) : pop[i].cached => Good(pop[i].mask, pop[i].fit)
    /\ \A m \in DOMAIN cache : Good(m, cache[m])

(* There is a best instance when one is asked for, and it is rated.        *)
Staged ==
    /\ pc \in {"step", "test"} => base
    /\ pc \in {"base", "step", "test", "result", "done"} => pop # <<>>
    /\ pc = "rate" /\ (cfg.kind = "EA" \/ ~base) => pop # <<>>
    /\ pc \in {"test", "result", "done"} => \A i \in 1..Len(pop) : pop[i].cached
    /\ result = "SBS_FOUND" => pc = "done" /\ IsSbs(Best.fit)

(* The population is complete if every parent has a partner.               *)
Complete ==
    /\ cfg.kind = "GA" /\ (cfg.q - cfg.h) % 2 = 0 /\ pc \notin {"resolve", "prepare"} =>
           Len(pop) = cfg.q
    /\ pc = "crashed" => (cfg.q - cfg.h) % 2 = 1

EvolutionInv == Types /\ Backed /\ Staged /\ Complete

----------------------------------------------------------------------------
(* Induction over the naturals, as the existence of a least one.           *)

Less == {p \in Nat \X Nat : p[1] < p[2]}

LEMMA NatMin ==
  ASSUME NEW T \in SUBSET Nat, T # {}
  PROVE  \E x \in T : \A y \in T : x <= y
  <1>1. OpToRel(<, Nat) = Less
    BY DEF OpToRel, Less
  <1>2. IsWellFoundedOn(Less, Nat)
    BY <1>1, NatLessThanWellFounded
  <1>3. \E x \in T : \A y \in T : ~(<<y, x>> \in Less)
    BY <1>2, WFMin, Zenon
  <1>4. \A x, y \in Nat : ~(<<y, x>> \in Less) => x <= y
    BY DEF Less
  <1> QED
    BY <1>3, <1>4

(* A set of naturals with 0, and with the successor of each of its members  *)
(* below N, reaches N.                                                      *)
LEMMA NatUpTo ==
  ASSUME NEW N \in Nat, NEW S, 0 \in S, \A k \in 0..(N - 1) : k \in S => k + 1 \in S
  PROVE  0..N \subseteq S
  <1> DEFINE T == {k \in 0..N : k \notin S}
  <1>1. SUFFICES ASSUME T # {}
                 PROVE  FALSE
    OBVIOUS
  <1>2. T \in SUBSET Nat
    OBVIOUS
  <1>3. PICK x \in T : \A y \in T : x <= y
    BY <1>1, <1>2, NatMin
  <1>4. x \in 0..N /\ x # 0 /\ x \notin S
    OBVIOUS
  <1>5. x - 1 \in 0..(N - 1) /\ x - 1 \in 0..N /\ (x - 1) + 1 = x /\ ~(x <= x - 1)
    BY <1>4
  <1>6. x - 1 \in S
    BY <1>3, <1>5
  <1> QED
    BY <1>4, <1>5, <1>6

----------------------------------------------------------------------------
(* Ratings.                                                                *)

(* There are as many assignments of a set of variables as subsets of it.   *)
LEMMA Assignments ==
  ASSUME NEW m, IsFiniteSet(m)
  PROVE  /\ IsFiniteSet([m -> BOOLEAN])
         /\ Cardinality([m -> BOOLEAN]) = 2^Cardinality(m)
  <1> DEFINE F == [A \in SUBSET m |-> [v \in m |-> v \in A]]
  <1>1. F \in [SUBSET m -> [m -> BOOLEAN]]
    OBVIOUS
  <1>2. ASSUME NEW A \in SUBSET m, NEW B \in SUBSET m, F[A] = F[B]
        PROVE  A = B
    <2>1. \A v \in m : F[A][v] = (v \in A) /\ F[B][v] = (v \in B)
      OBVIOUS
    <2>2. \A v \in m : v \in A <=> v \in B
      BY <1>2, <2>1
    <2> QED
      BY <2>2
  <1>3. ASSUME NEW a \in [m -> BOOLEAN]
        PROVE  \E A \in SUBSET m : F[A] = a
    <2> DEFINE A == {v \in m : a[v]}
    <2>1. A \in SUBSET m
      OBVIOUS
    <2>2. F[A] = [v \in m |-> v \in A]
      BY <2>1
    <2>3. \A v \in m : (v \in A) = a[v]
      OBVIOUS
    <2>4. [v \in m |-> v \in A] = a
      BY <2>3
    <2> QED
      BY <2>1, <2>2, <2>4
  <1>4. F \in Bijection(SUBSET m, [m -> BOOLEAN])
    <2>1. DOMAIN F = SUBSET m
      OBVIOUS
    <2> HIDE DEF F
    <2> QED
      BY <1>1, <1>2, <1>3, <2>1 DEF Bijection, Injection, Surjection, IsInjective
  <1>5. IsFiniteSet(SUBSET m) /\ Cardinality(SUBSET m) = 2^Cardinality(m)
    BY FS_SUBSET
  <1>6. ExistsBijection(SUBSET m, [m -> BOOLEAN])
    BY <1>4 DEF ExistsBijection
  <1> QED
    BY <1>5, <1>6, FS_Bijection

LEMMA TwoPower ==
  ASSUME NEW n \in Nat
  PROVE  2^n \in Nat \ {0}
  <1>1. IsFiniteSet(1..n) /\ Cardinality(1..n) = n
    <2>1. IsFiniteSet(1..n) /\ Cardinality(1..n) = IF 1 > n THEN 0 ELSE n - 1 + 1
      BY FS_Interval
    <2> QED
      BY <2>1
  <1>2. IsFiniteSet(SUBSET (1..n)) /\ Cardinality(SUBSET (1..n)) = 2^n
    BY <1>1, FS_SUBSET
  <1>3. 2^n \in Nat
    BY <1>2, FS_CardinalityType
  <1>4. 2^n # 0
    BY <1>2, FS_EmptySet
  <1> QED
    BY <1>3, <1>4

(* What is refuted without the base assumption is refuted under it.        *)
LEMMA UnderRefutesMore ==
  ASSUME NEW f \in Formulas, NEW a, Refutes(f.plain, a)
  PROVE  Refutes(f.under, a)
  <1>1. PICK l \in f.plain : DOMAIN l \subseteq DOMAIN a /\ \A v \in DOMAIN l : a[v] = l[v]
    BY DEF Refutes
  <1>2. PICK k \in f.under : DOMAIN k \subseteq DOMAIN l /\ \A v \in DOMAIN k : l[v] = k[v]
    BY <1>1, EvolutionAssumption DEF Refutes
  <1> QED
    BY <1>1, <1>2 DEF Refutes

LEMMA ConflictsFacts ==
  ASSUME Types, NEW m \in Masks
  PROVE  /\ Conflicts(m) \in Nat
         /\ Conflicts(m) = 2^Cardinality(m) => \A a \in [m -> BOOLEAN] : Refutes(formula.under, a)
  <1> DEFINE all == [m -> BOOLEAN]
             least == IF base THEN formula.under ELSE formula.plain
             bad == {a \in all : Refutes(least, a)}
  <1>1. IsFiniteSet(m)
    BY EvolutionAssumption, FS_Subset DEF Masks
  <1>2. IsFiniteSet(all) /\ Cardinality(all) = 2^Cardinality(m)
    BY <1>1, Assignments
  <1>3. bad \in SUBSET all
    OBVIOUS
  <1>4. IsFiniteSet(bad) /\ (Cardinality(all) = Cardinality(bad) => all = bad)
    BY <1>2, <1>3, FS_Subset
  <1>5. Conflicts(m) = Cardinality(bad)
    BY DEF Conflicts
  <1>6. ASSUME all = bad
        PROVE  \A a \in all : Refutes(formula.under, a)
    BY <1>6, UnderRefutesMore DEF Types
  <1>7. Cardinality(bad) \in Nat
    BY <1>4, FS_CardinalityType
  <1> QED
    BY <1>2, <1>4, <1>5, <1>6, <1>7

(* A sample that is smaller than what there is never passes for all of it. *)
LEMMA SampleIsNotAll ==
  ASSUME NEW k \in Nat, NEW n \in Nat, ~(2^n <= k)
  PROVE  k % 2^SampleBits # 2^n
  <1>1. 2^SampleBits \in Nat \ {0} /\ 2^n \in Nat
    BY TwoPower, EvolutionAssumption
  <1>2. \A x \in Nat, y \in Nat \ {0} : x % y <= x /\ x % y \in Nat
    OBVIOUS
  <1>3. k % 2^SampleBits <= k /\ k % 2^SampleBits \in Nat
    BY <1>1, <1>2
  <1> QED
    BY <1>1, <1>3

(* Every rating that _calc_fitness may make. *)
LEMMA RatingsGood ==
  ASSUME Types, NEW m \in Masks, NEW f \in CalcFitness(m)
  PROVE  f \in Fits /\ Good(m, f)
  <1> DEFINE size == Cardinality(m)
  <1>1. IsFiniteSet(m)
    BY EvolutionAssumption, FS_Subset DEF Masks
  <1>2. size \in Nat /\ 2^size \in Nat \ {0}
    BY <1>1, FS_CardinalityType, TwoPower
  <1> HIDE DEF size
  <1>3. PICK s \in 0..MaxScaleSteps :
           f \in IF IsFull(size, s) THEN {[conf |-> Conflicts(m), tried |-> 2^size, size |-> size]}
                 ELSE {[conf |-> c, tried |-> Samples(s), size |-> size] :
                          c \in {x \in Sampled(m, Samples(s)) :
                                     x < Samples(s) \/ s = MaxScaleSteps}}
    BY DEF CalcFitness, size
  <1>4. CASE IsFull(size, s)
    <2>1. f = [conf |-> Conflicts(m), tried |-> 2^size, size |-> size]
      BY <1>3, <1>4
    <2>2. f \in Fits
      BY <1>2, <2>1, ConflictsFacts DEF Fits
    <2>3. IsSbs(f) => Conflicts(m) = 2^size
      BY <2>1 DEF IsSbs
    <2> QED
      BY <2>2, <2>3, ConflictsFacts DEF Good, size
  <1>5. CASE ~IsFull(size, s)
    <2>1. PICK c \in Sampled(m, Samples(s)) : f = [conf |-> c, tried |-> Samples(s), size |-> size]
      BY <1>3, <1>5
    <2>2. Samples(s) \in Nat \ {0}
      <3>1. \A x, y \in Nat \ {0} : x * y \in Nat \ {0}
        OBVIOUS
      <3> QED
        BY <3>1, EvolutionAssumption DEF Samples
    <2>3. c \in Nat
      BY <2>2 DEF Sampled
    <2>4. f \in Fits
      BY <1>2, <2>1, <2>2, <2>3 DEF Fits
    <2>5. ~(2^size <= Samples(s))
      BY <1>5 DEF IsFull
    <2>6. Samples(s) % 2^SampleBits # 2^size
      BY <1>2, <2>2, <2>5, SampleIsNotAll
    <2> QED
      BY <2>1, <2>4, <2>6 DEF Good, IsSbs
  <1> QED
    BY <1>4, <1>5

----------------------------------------------------------------------------
(* The best of a population.                                               *)

Value(f) == f.conf * 2^f.size + (f.tried - f.conf) * 2^OmegaX

LEMMA ValueType ==
  ASSUME NEW f \in Fits
  PROVE  Value(f) \in Int /\ f.tried \in Nat \ {0}
  <1>1. f.conf \in Nat /\ f.tried \in Nat \ {0} /\ f.size \in Nat
    BY DEF Fits
  <1>2. 2^f.size \in Nat /\ 2^OmegaX \in Nat
    BY <1>1, TwoPower, EvolutionAssumption
  <1>3. \A a, b, c, d \in Nat : a * b + (c - a) * d \in Int
    OBVIOUS
  <1> QED
    BY <1>1, <1>2, <1>3 DEF Value

LEMMA BetterIs ==
  ASSUME NEW a, NEW b
  PROVE  Better(a, b) <=> Value(a) * b.tried < Value(b) * a.tried
  BY DEF Better, Value

(* No worse than is transitive: these are fractions. *)
LEMMA Fractions ==
  ASSUME NEW u \in Int, NEW v \in Int, NEW w \in Int,
         NEW p \in Nat \ {0}, NEW q \in Nat \ {0}, NEW r \in Nat \ {0},
         u * q <= v * p, v * r <= w * q
  PROVE  u * r <= w * p
  <1>1. (u * q) * r <= (v * p) * r
    OBVIOUS
  <1>2. (v * r) * p <= (w * q) * p
    OBVIOUS
  <1>3. (u * r) * q <= (w * p) * q
    BY <1>1, <1>2
  <1> QED
    BY <1>3

LEMMA NotBetterTransitive ==
  ASSUME NEW a \in Fits, NEW b \in Fits, NEW c \in Fits, ~Better(b, a), ~Better(c, b)
  PROVE  ~Better(c, a)
  <1>1. /\ Value(a) \in Int /\ Value(b) \in Int /\ Value(c) \in Int
        /\ a.tried \in Nat \ {0} /\ b.tried \in Nat \ {0} /\ c.tried \in Nat \ {0}
    BY ValueType
  <1>2. \A u, v \in Int, p, q \in Nat : (u * p <= v * q) <=> ~(v * q < u * p)
    OBVIOUS
  <1>3. Value(a) * b.tried <= Value(b) * a.tried /\ Value(b) * c.tried <= Value(c) * b.tried
    BY <1>1, <1>2, BetterIs
  <1>4. Value(a) * c.tried <= Value(c) * a.tried
    BY <1>1, <1>3, Fractions
  <1> QED
    BY <1>1, <1>2, <1>4, BetterIs

LEMMA BetterTotal ==
  ASSUME NEW a \in Fits, NEW b \in Fits
  PROVE  ~Better(a, a) /\ (Better(a, b) => ~Better(b, a))
  <1>1. Value(a) \in Int /\ Value(b) \in Int /\ a.tried \in Nat \ {0} /\ b.tried \in Nat \ {0}
    BY ValueType
  <1>2. \A u, v \in Int, p, q \in Nat : u * p < v * q => ~(v * q < u * p)
    OBVIOUS
  <1>3. \A u \in Int, p \in Nat : ~(u * p < u * p)
    OBVIOUS
  <1> QED
    BY <1>1, <1>2, <1>3, BetterIs

LEMMA InstsOf ==
  ASSUME NEW p \in Seq(Insts)
  PROVE  \A i \in 1..Len(p) : p[i] \in Insts /\ p[i].fit \in Fits /\ p[i].mask \in Masks
  <1>1. \A i \in 1..Len(p) : p[i] \in Insts
    OBVIOUS
  <1>2. \A x \in Insts : x.fit \in Fits /\ x.mask \in Masks
    BY DEF Insts
  <1> QED
    BY <1>1, <1>2

(* Some instance is no worse than any other. *)
LEMMA NoWorseExists ==
  ASSUME NEW p \in Seq(Insts), p # <<>>
  PROVE  \E i \in 1..Len(p) : \A j \in 1..Len(p) : ~Better(p[j].fit, p[i].fit)
  <1> DEFINE S == {n \in Nat : n < Len(p) => \E i \in 1..(n + 1) : \A j \in 1..(n + 1) :
                                     ~Better(p[j].fit, p[i].fit)}
             N == Len(p) - 1
  <1>1. Len(p) \in Nat /\ Len(p) > 0 /\ N \in Nat
    OBVIOUS
  <1>2. \A i \in 1..Len(p) : p[i].fit \in Fits
    BY InstsOf
  <1>3. 0 \in S
    <2>1. 1..(0 + 1) = {1} /\ 1 \in 1..Len(p)
      BY <1>1
    <2>2. ~Better(p[1].fit, p[1].fit)
      BY <1>2, <2>1, BetterTotal
    <2> QED
      BY <2>1, <2>2
  <1>4. ASSUME NEW n \in 0..(N - 1), n \in S
        PROVE  n + 1 \in S
    <2> DEFINE k == (n + 1) + 1
    <2>1. n \in Nat /\ n + 1 \in Nat /\ n < Len(p) /\ k \in 1..Len(p) /\ k \in 1..k
      BY <1>1
    <2>2. PICK i \in 1..(n + 1) : \A j \in 1..(n + 1) : ~Better(p[j].fit, p[i].fit)
      BY <1>4, <2>1
    <2>3. \A j \in 1..k : (j \in 1..(n + 1) \/ j = k) /\ j \in 1..Len(p)
      BY <1>1, <2>1
    <2>4. i \in 1..k /\ i \in 1..Len(p)
      BY <1>1, <2>1
    <2>5. \E l \in 1..k : \A j \in 1..k : ~Better(p[j].fit, p[l].fit)
      <3> HIDE DEF k
      <3>1. CASE Better(p[k].fit, p[i].fit)
        <4>1. ~Better(p[i].fit, p[k].fit)
          BY <1>2, <2>1, <2>4, <3>1, BetterTotal
        <4>2. \A j \in 1..(n + 1) : ~Better(p[j].fit, p[k].fit)
          <5>1. SUFFICES ASSUME NEW j \in 1..(n + 1)
                         PROVE  ~Better(p[j].fit, p[k].fit)
            OBVIOUS
          <5>2. j \in 1..Len(p)
            BY <1>1, <2>1
          <5>3. ~Better(p[j].fit, p[i].fit)
            BY <2>2
          <5> QED
            BY <1>2, <2>1, <2>4, <4>1, <5>2, <5>3, NotBetterTransitive
        <4>3. ~Better(p[k].fit, p[k].fit)
          BY <1>2, <2>1, BetterTotal
        <4> QED
          BY <2>1, <2>3, <4>2, <4>3
      <3>2. CASE ~Better(p[k].fit, p[i].fit)
        BY <2>2, <2>3, <2>4, <3>2
      <3> QED
        BY <3>1, <3>2
    <2> QED
      BY <2>1, <2>5
  <1> HIDE DEF S
  <1>5. N \in S
    <2>1. 0..N \subseteq S
      BY <1>1, <1>3, <1>4, NatUpTo
    <2> QED
      BY <1>1, <2>1
  <1>6. N < Len(p) /\ N + 1 = Len(p)
    BY <1>1
  <1> HIDE DEF N
  <1>7. N < Len(p) => \E i \in 1..(N + 1) : \A j \in 1..(N + 1) : ~Better(p[j].fit, p[i].fit)
    BY <1>5 DEF S
  <1> QED
    BY <1>6, <1>7

(* So get_best finds one: the first of these. *)
LEMMA BestIsThere ==
  ASSUME pop \in Seq(Insts), pop # <<>>
  PROVE  \E i \in 1..Len(pop) : Best = pop[i]
  <1> DEFINE First(i) == /\ \A j \in DOMAIN pop : ~Better(pop[j].fit, pop[i].fit)
                         /\ \A j \in 1..(i - 1) : Better(pop[i].fit, pop[j].fit)
             T == {i \in 1..Len(pop) : \A j \in 1..Len(pop) : ~Better(pop[j].fit, pop[i].fit)}
  <1>1. DOMAIN pop = 1..Len(pop) /\ Len(pop) \in Nat
    OBVIOUS
  <1>2. \A i \in 1..Len(pop) : pop[i].fit \in Fits
    BY InstsOf
  <1>3. T # {} /\ T \in SUBSET Nat
    BY NoWorseExists
  <1>4. PICK x \in T : \A y \in T : x <= y
    BY <1>3, NatMin
  <1>5. x \in 1..Len(pop) /\ \A j \in 1..Len(pop) : ~Better(pop[j].fit, pop[x].fit)
    OBVIOUS
  <1>6. ASSUME NEW j \in 1..(x - 1)
        PROVE  Better(pop[x].fit, pop[j].fit)
    <2>1. j \in 1..Len(pop) /\ ~(x <= j)
      BY <1>1, <1>5
    <2>2. j \notin T
      BY <1>4, <2>1
    <2>3. PICK k \in 1..Len(pop) : Better(pop[k].fit, pop[j].fit)
      BY <2>1, <2>2
    <2>4. SUFFICES ASSUME ~Better(pop[x].fit, pop[j].fit)
                   PROVE  FALSE
      OBVIOUS
    <2>5. ~Better(pop[k].fit, pop[x].fit)
      BY <1>5
    <2> QED
      BY <1>2, <1>5, <2>1, <2>3, <2>4, <2>5, NotBetterTransitive
  <1>7. First(x)
    BY <1>1, <1>5, <1>6
  <1>8. \E i \in DOMAIN pop : First(i)
    BY <1>1, <1>5, <1>7
  <1>9. Best = pop[CHOOSE i \in DOMAIN pop : First(i)]
    BY DEF Best
  <1> HIDE DEF First
  <1>10. (CHOOSE i \in DOMAIN pop : First(i)) \in DOMAIN pop
    BY <1>8
  <1> QED
    BY <1>1, <1>9, <1>10

(* The selector keeps instances of the population. *)
LEMMA SelectedFacts ==
  ASSUME Types, NEW n \in Nat, NEW s \in Selected(n)
  PROVE  /\ s \in Seq(Insts)
         /\ Len(s) = IF Len(pop) <= n THEN Len(pop) ELSE n
         /\ \A i \in 1..Len(s) : \E j \in 1..Len(pop) : s[i] = pop[j]
  <1>1. pop \in Seq(Insts) /\ Len(pop) \in Nat /\ DOMAIN pop = 1..Len(pop)
    BY DEF Types
  <1>2. CASE Len(pop) <= n
    <2>1. s = pop
      BY <1>2 DEF Selected
    <2> QED
      BY <1>1, <1>2, <2>1
  <1>3. CASE ~(Len(pop) <= n)
    <2>1. PICK ix \in [1..n -> 1..Len(pop)] : s = [i \in 1..n |-> pop[ix[i]]]
      BY <1>1, <1>3 DEF Selected
    <2>2. \A i \in 1..n : ix[i] \in 1..Len(pop) /\ pop[ix[i]] \in Insts
      BY <1>1
    <2>3. s \in Seq(Insts) /\ Len(s) = n /\ \A i \in 1..n : s[i] = pop[ix[i]]
      BY <2>1, <2>2
    <2> QED
      BY <1>3, <2>2, <2>3
  <1> QED
    BY <1>2, <1>3

----------------------------------------------------------------------------
(* The steps.                                                              *)

(* One that leaves the ratings alone. *)
LEMMA RatingsStay ==
  ASSUME Types, Backed, UNCHANGED <<formula, cfg, pop, cache>>
  PROVE  Types' /\ Backed'
  BY DEF Types, Backed, Good

LEMMA ConfigFacts ==
  ASSUME Types
  PROVE  cfg.kind \in {"EA", "GA"} /\ cfg.q \in Nat \ {0} /\ cfg.h \in 0..cfg.q
  BY EvolutionAssumption DEF Types

LEMMA InitHolds ==
  ASSUME Init
  PROVE  EvolutionInv
  <1>1. pop = <<>> /\ DOMAIN cache = {} /\ pc = "resolve" /\ result # "SBS_FOUND"
    BY EvolutionAssumption DEF Init
  <1>2. Types
    <2>1. pop \in Seq(Insts)
      BY <1>1
    <2> QED
      BY <1>1, <2>1 DEF Init, Types
  <1>3. Backed
    <2>1. Len(pop) = 0
      BY <1>1
    <2> QED
      BY <1>1, <2>1 DEF Backed
  <1> QED
    BY <1>1, <1>2, <1>3 DEF EvolutionInv, Staged, Complete

LEMMA ResolveStep ==
  ASSUME EvolutionInv, Resolve
  PROVE  EvolutionInv'
  <1>1. Types' /\ Backed'
    BY RatingsStay DEF EvolutionInv, Resolve, inputVars, algVars
  <1>2. pc' = "prepare" /\ result' # "SBS_FOUND"
    BY DEF EvolutionInv, Staged, Resolve
  <1> QED
    BY <1>1, <1>2 DEF EvolutionInv, Staged, Complete

(* The first population has one instance, or q, and nothing is rated. *)
LEMMA PrepareStep ==
  ASSUME EvolutionInv, Prepare
  PROVE  EvolutionInv'
  <1> DEFINE n == IF cfg.kind = "EA" THEN 1 ELSE cfg.q
  <1>0. cfg.kind \in {"EA", "GA"} /\ cfg.q \in Nat \ {0}
    BY ConfigFacts DEF EvolutionInv
  <1>1. n \in Nat \ {0}
    BY <1>0
  <1>2. UNCHANGED <<formula, cfg, base, cache, result>> /\ pc = "prepare"
        /\ pc' = (IF cfg.kind = "EA" THEN "base" ELSE "rate")
    BY DEF Prepare, inputVars
  <1>3. PICK first \in [1..n -> Vars] :
           pop' = [i \in 1..n |-> [mask |-> {first[i]}, cached |-> FALSE, fit |-> NoFit]]
    BY DEF Prepare
  <1>4. NoFit \in Fits
    BY DEF NoFit, Fits
  <1>5. \A i \in 1..n : [mask |-> {first[i]}, cached |-> FALSE, fit |-> NoFit] \in Insts
    BY <1>4 DEF Insts, Masks
  <1> HIDE DEF n
  <1>6. pop' \in Seq(Insts) /\ Len(pop') = n /\ \A i \in 1..n : pop'[i].cached = FALSE
    BY <1>1, <1>3, <1>5
  <1>7. Types'
    BY <1>2, <1>6 DEF EvolutionInv, Types
  <1>8. Backed'
    BY <1>2, <1>6 DEF EvolutionInv, Backed, Good
  <1>9. pop' # <<>>
    BY <1>1, <1>6
  <1>10. result' # "SBS_FOUND"
    BY <1>2 DEF EvolutionInv, Staged
  <1>11. Staged'
    BY <1>2, <1>9, <1>10 DEF Staged
  <1>12. Complete'
    BY <1>2, <1>6 DEF Complete, n
  <1> QED
    BY <1>7, <1>8, <1>11, <1>12 DEF EvolutionInv

LEMMA SetBaseAssumptionStep ==
  ASSUME EvolutionInv, SetBaseAssumption
  PROVE  EvolutionInv'
  <1>1. Types' /\ Backed'
    BY RatingsStay DEF EvolutionInv, SetBaseAssumption, inputVars, algVars
  <1>2. pc = "base" /\ pc' = "step" /\ base' = TRUE /\ UNCHANGED <<cfg, pop, result>>
    BY DEF SetBaseAssumption, inputVars, algVars
  <1>3. Staged'
    BY <1>2 DEF EvolutionInv, Staged
  <1>4. Complete'
    BY <1>2 DEF EvolutionInv, Complete
  <1> QED
    BY <1>1, <1>3, <1>4 DEF EvolutionInv

LEMMA MutatedFacts ==
  ASSUME NEW p \in Insts, NEW m \in Masks
  PROVE  Mutated(p, m) \in Insts /\ Mutated(p, m).cached = FALSE
  BY DEF Mutated, Insts

LEMMA MutateStep ==
  ASSUME EvolutionInv, Mutate
  PROVE  EvolutionInv'
  <1>1. UNCHANGED <<formula, cfg, base, cache, result>> /\ pc = "step" /\ pc' = "rate"
        /\ cfg.kind = "EA"
    BY DEF Mutate, inputVars
  <1>2. pop \in Seq(Insts) /\ pop # <<>>
    BY <1>1 DEF EvolutionInv, Types, Staged
  <1>3. PICK m \in Masks : pop' = Append(pop, Mutated(pop[1], m))
    BY DEF Mutate
  <1> DEFINE c == Mutated(pop[1], m)
  <1>4. c \in Insts /\ c.cached = FALSE
    <2>1. 1 \in 1..Len(pop)
      BY <1>2
    <2>2. pop[1] \in Insts
      BY <1>2, <2>1
    <2> QED
      BY <2>2, MutatedFacts
  <1> HIDE DEF c
  <1>5. /\ pop' \in Seq(Insts) /\ pop' # <<>> /\ Len(pop') = Len(pop) + 1
        /\ \A i \in 1..Len(pop) : pop'[i] = pop[i]
        /\ pop'[Len(pop) + 1] = c
    BY <1>2, <1>3, <1>4, AppendProperties DEF c
  <1>6. \A i \in 1..Len(pop') : i \in 1..Len(pop) \/ i = Len(pop) + 1
    BY <1>2, <1>5
  <1>7. Types'
    BY <1>1, <1>5 DEF EvolutionInv, Types
  <1>8. Backed'
    BY <1>1, <1>4, <1>5, <1>6 DEF EvolutionInv, Backed, Good
  <1>9. Staged'
    BY <1>1, <1>5 DEF EvolutionInv, Staged
  <1>10. Complete'
    BY <1>1 DEF Complete
  <1> QED
    BY <1>7, <1>8, <1>9, <1>10 DEF EvolutionInv

LEMMA PairsFacts ==
  ASSUME Types
  PROVE  /\ Pairs \in Nat
         /\ (cfg.q - cfg.h) % 2 = 0 \/ (cfg.q - cfg.h) % 2 = 1
         /\ (cfg.q - cfg.h) % 2 = 0 => Pairs = cfg.q - cfg.h
  <1>1. \A d \in Nat : /\ 2 * (d \div 2) \in Nat
                       /\ d % 2 = 0 \/ d % 2 = 1
                       /\ d % 2 = 0 => 2 * (d \div 2) = d
    OBVIOUS
  <1>2. cfg.q - cfg.h \in Nat
    BY ConfigFacts
  <1> QED
    BY <1>1, <1>2 DEF Pairs

(* The children are not rated yet, and there are as many as fell away, if   *)
(* that is an even number.                                                  *)
LEMMA BreedStep ==
  ASSUME EvolutionInv, Breed
  PROVE  EvolutionInv'
  <1>0. Types /\ cfg.kind = "GA" /\ cfg.q \in Nat \ {0} /\ cfg.h \in 0..cfg.q
    BY ConfigFacts DEF EvolutionInv, Breed
  <1>1. UNCHANGED <<formula, cfg, base, cache, result>> /\ pc = "step" /\ base
    BY DEF Breed, inputVars, EvolutionInv, Staged
  <1>2. pop \in Seq(Insts) /\ Len(pop) \in Nat
    BY <1>0 DEF Types
  <1>3. (cfg.q - cfg.h) % 2 = 0 => Len(pop) = cfg.q
    BY <1>0, <1>1 DEF EvolutionInv, Complete
  <1>4. result' # "SBS_FOUND"
    BY <1>1 DEF EvolutionInv, Staged
  <1>5. PICK parents \in [1..Pairs -> 1..cfg.q] :
          \/ /\ \E i \in DOMAIN parents : parents[i] > Len(pop)
             /\ pc' = "crashed" /\ UNCHANGED pop
          \/ /\ \A i \in DOMAIN parents : parents[i] <= Len(pop)
             /\ pc' = "rate"
             /\ \E masks \in [1..Pairs -> Masks], kept \in Selected(cfg.h) :
                   pop' = kept \o [i \in DOMAIN masks |-> Mutated(pop[parents[i]], masks[i])]
    BY DEF Breed
  <1>6. Pairs \in Nat
    BY <1>0, PairsFacts
  <1>7. CASE (\E i \in DOMAIN parents : parents[i] > Len(pop)) /\ pc' = "crashed" /\ UNCHANGED pop
    <2>1. PICK i \in 1..Pairs : parents[i] > Len(pop)
      BY <1>7
    <2>2. Len(pop) # cfg.q
      <3>1. parents[i] \in 1..cfg.q
        OBVIOUS
      <3> QED
        BY <1>0, <1>2, <2>1, <3>1
    <2>3. (cfg.q - cfg.h) % 2 = 1
      BY <1>0, <1>3, <2>2, PairsFacts
    <2>4. Types' /\ Backed'
      BY <1>1, <1>7, RatingsStay DEF EvolutionInv
    <2>5. Staged'
      BY <1>4, <1>7 DEF Staged
    <2>6. Complete'
      BY <1>1, <1>0, <1>7, <2>3 DEF Complete
    <2> QED
      BY <2>4, <2>5, <2>6 DEF EvolutionInv
  <1>8. CASE /\ \A i \in DOMAIN parents : parents[i] <= Len(pop)
             /\ pc' = "rate"
             /\ \E masks \in [1..Pairs -> Masks], kept \in Selected(cfg.h) :
                   pop' = kept \o [i \in DOMAIN masks |-> Mutated(pop[parents[i]], masks[i])]
    <2>1. PICK masks \in [1..Pairs -> Masks], kept \in Selected(cfg.h) :
             pop' = kept \o [i \in 1..Pairs |-> Mutated(pop[parents[i]], masks[i])]
      BY <1>8
    <2> DEFINE kids == [i \in 1..Pairs |-> Mutated(pop[parents[i]], masks[i])]
    <2>2. \A i \in 1..Pairs : /\ Mutated(pop[parents[i]], masks[i]) \in Insts
                             /\ Mutated(pop[parents[i]], masks[i]).cached = FALSE
      <3>1. SUFFICES ASSUME NEW i \in 1..Pairs
                     PROVE  /\ Mutated(pop[parents[i]], masks[i]) \in Insts
                            /\ Mutated(pop[parents[i]], masks[i]).cached = FALSE
        OBVIOUS
      <3>2. parents[i] \in 1..Len(pop)
        <4>1. parents[i] \in 1..cfg.q /\ parents[i] <= Len(pop)
          BY <1>8
        <4> QED
          BY <1>0, <1>2, <4>1
      <3>3. pop[parents[i]] \in Insts /\ masks[i] \in Masks
        BY <1>2, <3>2
      <3> QED
        BY <3>3, MutatedFacts
    <2>3. kids \in Seq(Insts) /\ Len(kids) = Pairs /\ \A i \in 1..Pairs : kids[i].cached = FALSE
      BY <1>6, <2>2
    <2>4. cfg.h \in Nat
      BY <1>0
    <2>5. /\ kept \in Seq(Insts)
          /\ Len(kept) = IF Len(pop) <= cfg.h THEN Len(pop) ELSE cfg.h
          /\ \A i \in 1..Len(kept) : \E j \in 1..Len(pop) : kept[i] = pop[j]
      BY <1>0, <2>4, SelectedFacts
    <2>6. pop' = kept \o kids
      BY <2>1
    <2> HIDE DEF kids
    <2>7. /\ pop' \in Seq(Insts) /\ Len(pop') = Len(kept) + Pairs
          /\ \A i \in 1..(Len(kept) + Pairs) :
                pop'[i] = IF i <= Len(kept) THEN kept[i] ELSE kids[i - Len(kept)]
      <3>1. /\ kept \o kids \in Seq(Insts) /\ Len(kept \o kids) = Len(kept) + Len(kids)
            /\ \A i \in 1..(Len(kept) + Len(kids)) :
                  (kept \o kids)[i] = IF i <= Len(kept) THEN kept[i] ELSE kids[i - Len(kept)]
        BY <2>3, <2>5, ConcatProperties
      <3> QED
        BY <2>3, <2>6, <3>1
    <2>8. ASSUME NEW i \in 1..Len(pop')
          PROVE  (\E j \in 1..Len(pop) : pop'[i] = pop[j]) \/ pop'[i].cached = FALSE
      <3>1. Len(kept) \in Nat
        BY <2>5
      <3>2. CASE i <= Len(kept)
        <4>1. i \in 1..Len(kept) /\ i \in 1..(Len(kept) + Pairs)
          BY <1>6, <2>7, <3>1, <3>2
        <4> QED
          BY <2>5, <2>7, <3>2, <4>1
      <3>3. CASE ~(i <= Len(kept))
        <4>1. i - Len(kept) \in 1..Pairs /\ i \in 1..(Len(kept) + Pairs)
          BY <1>6, <2>7, <3>1, <3>3
        <4> QED
          BY <2>3, <2>7, <3>3, <4>1
      <3> QED
        BY <3>2, <3>3
    <2>9. Types'
      BY <1>0, <1>1, <2>7 DEF Types
    <2>10. Backed'
      BY <1>1, <2>8 DEF EvolutionInv, Backed, Good
    <2>11. Staged'
      BY <1>0, <1>1, <1>4, <1>8 DEF Staged
    <2>12. Complete'
      <3>1. ASSUME (cfg.q - cfg.h) % 2 = 0
            PROVE  Len(pop') = cfg.q
        <4>1. Pairs = cfg.q - cfg.h /\ Len(pop) = cfg.q
          BY <1>0, <1>3, <3>1, PairsFacts
        <4>2. Len(kept) = cfg.h
          BY <1>0, <2>4, <2>5, <4>1
        <4> QED
          BY <1>0, <2>4, <2>7, <4>1, <4>2
      <3> QED
        BY <1>0, <1>1, <1>8, <3>1 DEF Complete
    <2> QED
      BY <2>9, <2>10, <2>11, <2>12 DEF EvolutionInv
  <1> QED
    BY <1>5, <1>7, <1>8

(* A rating comes from the cache, which may have it from another instance   *)
(* with the same mask, or is made and put there.                            *)
LEMMA RateStep ==
  ASSUME EvolutionInv, NEW i \in DOMAIN pop, Rate(i)
  PROVE  EvolutionInv'
  <1>0. Types /\ pop \in Seq(Insts) /\ i \in 1..Len(pop)
    BY DEF EvolutionInv, Types
  <1>1. UNCHANGED <<formula, cfg, base, pc, result>> /\ pc = "rate"
    BY DEF Rate, inputVars
  <1> DEFINE m == pop[i].mask
  <1>2. m \in Masks
    BY <1>0, InstsOf
  <1>3. \E f \in Fits :
           /\ Good(m, f)
           /\ pop' = [pop EXCEPT ![i] = [mask |-> m, cached |-> TRUE, fit |-> f]]
           /\ \A k \in DOMAIN cache' : cache'[k] \in Fits /\ Good(k, cache'[k])
    <2>0. \A k \in DOMAIN cache : cache[k] \in Fits /\ Good(k, cache[k])
      BY DEF EvolutionInv, Types, Backed
    <2>1. CASE /\ m \in DOMAIN cache
               /\ pop' = [pop EXCEPT ![i] = [mask |-> m, cached |-> TRUE, fit |-> cache[m]]]
               /\ UNCHANGED <<cache, points>>
      BY <2>0, <2>1
    <2>2. CASE \E f \in CalcFitness(m) :
                  /\ pop' = [pop EXCEPT ![i] = [mask |-> m, cached |-> TRUE, fit |-> f]]
                  /\ CacheAdd(m, f)
      <3>1. PICK f \in CalcFitness(m) :
                  /\ pop' = [pop EXCEPT ![i] = [mask |-> m, cached |-> TRUE, fit |-> f]]
                  /\ CacheAdd(m, f)
        BY <2>2
      <3>2. f \in Fits /\ Good(m, f)
        BY <1>0, <1>2, RatingsGood
      <3>3. PICK out \in SUBSET DOMAIN cache :
               cache' = [k \in (DOMAIN cache \ out) \cup {m} |-> IF k = m THEN f ELSE cache[k]]
        BY <3>1 DEF CacheAdd
      <3> HIDE DEF m
      <3>4. \A k \in DOMAIN cache' : (k = m /\ cache'[k] = f)
                                    \/ (k \in DOMAIN cache /\ cache'[k] = cache[k])
        BY <3>3
      <3> QED
        BY <2>0, <3>1, <3>2, <3>4
    <2> QED
      BY <2>1, <2>2 DEF Rate
  <1>4. PICK f \in Fits :
           /\ Good(m, f)
           /\ pop' = [pop EXCEPT ![i] = [mask |-> m, cached |-> TRUE, fit |-> f]]
           /\ \A k \in DOMAIN cache' : cache'[k] \in Fits /\ Good(k, cache'[k])
    BY <1>3
  <1> DEFINE r == [mask |-> m, cached |-> TRUE, fit |-> f]
  <1>5. r \in Insts /\ r.mask = m /\ r.fit = f
    BY <1>2 DEF Insts
  <1> HIDE DEF r, m
  <1>6. /\ pop' \in Seq(Insts) /\ Len(pop') = Len(pop)
        /\ \A j \in 1..Len(pop) : pop'[j] = IF j = i THEN r ELSE pop[j]
    BY <1>0, <1>4, <1>5 DEF r
  <1>7. Types'
    BY <1>0, <1>1, <1>4, <1>6 DEF Types
  <1>8. Backed'
    <2>1. \A j \in 1..Len(pop) : pop'[j].cached => Good(pop'[j].mask, pop'[j].fit)
      BY <1>4, <1>5, <1>6 DEF EvolutionInv, Backed
    <2> QED
      BY <1>1, <1>4, <1>6, <2>1 DEF Backed, Good
  <1>9. pop # <<>> => pop' # <<>>
    BY <1>0, <1>6
  <1>10. Staged'
    BY <1>1, <1>9 DEF EvolutionInv, Staged
  <1>11. Complete'
    BY <1>1, <1>6 DEF EvolutionInv, Complete
  <1> QED
    BY <1>7, <1>8, <1>10, <1>11 DEF EvolutionInv

(* EAAlgorithm keeps one of two; a population that was bred empty ends here. *)
LEMMA RatedStep ==
  ASSUME EvolutionInv, Rated
  PROVE  EvolutionInv'
  <1>0. Types /\ pop \in Seq(Insts) /\ Len(pop) \in Nat /\ DOMAIN pop = 1..Len(pop)
    BY DEF EvolutionInv, Types
  <1>1. UNCHANGED <<formula, cfg, base, cache, result>> /\ pc = "rate"
        /\ pc' = (IF pop = <<>> THEN "crashed" ELSE IF base THEN "test" ELSE "base")
    BY DEF Rated, inputVars
  <1>2. \A i \in 1..Len(pop) : pop[i].cached
    BY <1>0 DEF Rated
  <1>3. cfg.kind \in {"EA", "GA"} /\ cfg.q \in Nat \ {0}
    BY <1>0, ConfigFacts
  <1>4. /\ pop' \in Seq(Insts)
        /\ cfg.kind = "GA" => pop' = pop
        /\ pop # <<>> => pop' # <<>>
        /\ \A i \in 1..Len(pop') : \E j \in 1..Len(pop) : pop'[i] = pop[j]
    <2>1. CASE cfg.kind = "EA"
      <3>1. pop' \in Selected(1)
        BY <2>1 DEF Rated
      <3>2. PICK s \in Selected(1) : s = pop'
        BY <3>1
      <3>3. /\ s \in Seq(Insts) /\ Len(s) = IF Len(pop) <= 1 THEN Len(pop) ELSE 1
            /\ \A i \in 1..Len(s) : \E j \in 1..Len(pop) : s[i] = pop[j]
        BY <1>0, SelectedFacts
      <3>4. pop # <<>> => s # <<>>
        <4>1. pop # <<>> => Len(pop) # 0
          BY <1>0
        <4>2. s = <<>> => Len(s) = 0
          OBVIOUS
        <4> QED
          BY <1>0, <3>3, <4>1, <4>2
      <3> QED
        BY <2>1, <3>2, <3>3, <3>4
    <2>2. CASE cfg.kind # "EA"
      BY <1>0, <2>2 DEF Rated
    <2> QED
      BY <2>1, <2>2
  <1>5. Types'
    BY <1>0, <1>1, <1>4 DEF Types
  <1>6. Backed'
    BY <1>1, <1>4 DEF EvolutionInv, Backed, Good
  <1>7. Staged'
    <2>1. result' # "SBS_FOUND"
      BY <1>1 DEF EvolutionInv, Staged
    <2>2. \A i \in 1..Len(pop') : pop'[i].cached
      BY <1>2, <1>4
    <2> QED
      BY <1>1, <1>4, <2>1, <2>2 DEF Staged
  <1>8. Complete'
    <2>1. ASSUME cfg.kind = "GA", (cfg.q - cfg.h) % 2 = 0
          PROVE  Len(pop') = cfg.q
      BY <1>1, <1>4, <2>1 DEF EvolutionInv, Complete
    <2>2. ASSUME pop = <<>>
          PROVE  (cfg.q - cfg.h) % 2 = 1
      <3>1. cfg.kind = "GA" /\ base
        BY <1>1, <1>3, <2>2 DEF EvolutionInv, Staged
      <3>2. Len(pop) # cfg.q
        BY <1>3, <2>2
      <3>3. (cfg.q - cfg.h) % 2 # 0
        BY <1>1, <3>1, <3>2 DEF EvolutionInv, Complete
      <3> QED
        BY <1>0, <3>3, PairsFacts
    <2> QED
      BY <1>1, <2>1, <2>2 DEF Complete
  <1> QED
    BY <1>5, <1>6, <1>7, <1>8 DEF EvolutionInv

LEMMA ProceedStep ==
  ASSUME EvolutionInv, Proceed \/ ProcessEnds
  PROVE  EvolutionInv'
  <1>1. /\ UNCHANGED <<formula, cfg, base, pop, cache, result>>
        /\ pc = "test" /\ pc' \in {"step", "result"}
    BY DEF Proceed, ProcessEnds, inputVars, algVars
  <1>2. Types' /\ Backed'
    BY <1>1, RatingsStay DEF EvolutionInv
  <1>3. Staged'
    BY <1>1 DEF EvolutionInv, Staged
  <1>4. Complete'
    BY <1>1 DEF EvolutionInv, Complete
  <1> QED
    BY <1>2, <1>3, <1>4 DEF EvolutionInv

LEMMA FindRbReturnsStep ==
  ASSUME EvolutionInv, FindRbReturns
  PROVE  EvolutionInv'
  <1>1. /\ UNCHANGED <<formula, cfg, base, pop, cache>>
        /\ pc = "result" /\ pc' = "done"
        /\ result' = (IF interrupted THEN "INTERRUPTED"
                      ELSE IF IsSbs(Best.fit) THEN "SBS_FOUND" ELSE "SEARCH")
    BY DEF FindRbReturns, inputVars, algVars
  <1>2. Types' /\ Backed'
    BY <1>1, RatingsStay DEF EvolutionInv
  <1>3. Best' = Best
    BY <1>1 DEF Best
  <1>4. result' = "SBS_FOUND" => IsSbs(Best.fit)
    BY <1>1
  <1>5. (IsSbs(Best.fit))' <=> IsSbs(Best.fit)
    BY <1>3 DEF IsSbs
  <1>6. Staged'
    BY <1>1, <1>4, <1>5 DEF EvolutionInv, Staged
  <1>7. Complete'
    BY <1>1 DEF EvolutionInv, Complete
  <1> QED
    BY <1>2, <1>6, <1>7 DEF EvolutionInv

(* Interrupts change flags alone. *)
LEMMA OtherStep ==
  ASSUME EvolutionInv, UNCHANGED <<formula, cfg, base, pop, cache, pc, result>>
  PROVE  EvolutionInv'
  <1>1. Types' /\ Backed'
    BY RatingsStay DEF EvolutionInv
  <1>2. Best' = Best
    BY DEF Best
  <1>3. (IsSbs(Best.fit))' <=> IsSbs(Best.fit)
    BY <1>2 DEF IsSbs
  <1>4. Staged'
    BY <1>3 DEF EvolutionInv, Staged
  <1>5. Complete'
    BY DEF EvolutionInv, Complete
  <1> QED
    BY <1>1, <1>4, <1>5 DEF EvolutionInv

LEMMA EvolutionStep ==
  ASSUME EvolutionInv, [Next]_vars
  PROVE  EvolutionInv'
  <1>1. CASE FindRb
    BY <1>1, ResolveStep, PrepareStep, SetBaseAssumptionStep, MutateStep, BreedStep, RateStep,
       RatedStep, ProceedStep, FindRbReturnsStep DEF FindRb
  <1>2. CASE Interrupt \/ InterruptAlgorithm \/ Over \/ UNCHANGED vars
    <2>1. UNCHANGED <<formula, cfg, base, pop, cache, pc, result>>
      BY <1>2 DEF Interrupt, InterruptAlgorithm, Over, vars, inputVars, algVars
    <2> QED
      BY <2>1, OtherStep
  <1> QED
    BY <1>1, <1>2 DEF Next

----------------------------------------------------------------------------
(* The inductive invariant holds in every run. *)
THEOREM EvolutionInvariant == Spec => []EvolutionInv
  <1>1. EvolutionInv /\ [Next]_vars => EvolutionInv'
    BY EvolutionStep
  <1> QED
    BY <1>1, InitHolds, PTL DEF Spec

(* What find_rb reports as a strong backdoor is one, for all formulas,      *)
(* configurations and sizes of the samples and the cache                    *)
(* (Instance.cpp:53-116, OneRBSearch.cpp:15-31).                            *)
THEOREM EvolutionSbsSound == Spec => []SbsSound
  <1>1. ASSUME EvolutionInv
        PROVE  SbsSound
    <2>1. SUFFICES ASSUME result = "SBS_FOUND"
                   PROVE  \A a \in [Best.mask -> BOOLEAN] : Refutes(formula.under, a)
      BY DEF SbsSound
    <2>2. pc = "done" /\ IsSbs(Best.fit) /\ pop # <<>>
      BY <1>1, <2>1 DEF EvolutionInv, Staged
    <2>3. \A i \in 1..Len(pop) : pop[i].cached
      BY <1>1, <2>2 DEF EvolutionInv, Staged
    <2>4. PICK i \in 1..Len(pop) : Best = pop[i]
      BY <1>1, <2>2, BestIsThere DEF EvolutionInv, Types
    <2>5. Good(Best.mask, Best.fit)
      BY <1>1, <2>3, <2>4 DEF EvolutionInv, Backed
    <2> QED
      BY <2>2, <2>5 DEF Good
  <1> QED
    BY <1>1, EvolutionInvariant, PTL

(* GAAlgorithm leaves its population only where q - h is odd                *)
(* (GAAlgorithm.cpp:47-74, Algorithm.cpp:68-70).                            *)
THEOREM EvolutionStaysInside == Spec => []WildIndexOnlyIfOdd
  <1>1. EvolutionInv => WildIndexOnlyIfOdd
    BY DEF EvolutionInv, Complete, WildIndexOnlyIfOdd
  <1> QED
    BY <1>1, EvolutionInvariant, PTL
=============================================================================
