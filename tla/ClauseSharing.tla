---------------------------- MODULE ClauseSharing ----------------------------
(***************************************************************************)
(* Clause sharing: the solvers of a core::sat::sharing::Sharing export the *)
(* clauses they learn; each painless::Sharer thread collects those of its  *)
(* producers in a ClauseDatabase, and in rounds of HordeSatSharing hands a *)
(* selection to its consumers; a Reducer also exports shorter versions of  *)
(* what it imports.  A clause is freed with its last reference.            *)
(*                                                                         *)
(* The queues between the threads are FIFO queues: ClauseBuffer shows that *)
(* the code's lists are, where one thread adds and one thread pops.  Their *)
(* size counter is updated a step later.                                   *)
(***************************************************************************)
EXTENDS Integers, SequencesExt

CONSTANTS Solvers,      \* every SolverInterface that shares
          Reducers,     \* those that are a painless::Reducer
          Sharers,      \* the Sharer threads
          Producers,    \* Producers[h]: the sequence of solvers sharer h reads
          Consumers,    \* Consumers[h]: those it writes to
          Inputs,       \* the possible values of learns
          MaxSize,      \* bound: the length of the longest clause
          LitsPerRound, \* literalPerRound
          DbLits,       \* the 1000 of ClauseDatabase::addClause
          LbdLimit,     \* the configured lbd_limit
          MaxLbd,       \* bound: the largest limit that matters
          MaxClauses    \* bound: clauses ever allocated

ASSUME SharingAssumption ==
    /\ Reducers \subseteq Solvers
    /\ \A h \in Sharers : Producers[h] \in Seq(Solvers) /\ Consumers[h] \in Seq(Solvers)
    /\ \A l \in Inputs, s \in Solvers : \A c \in ToSet(l[s]) : c.size \in 1..MaxSize
    /\ {LitsPerRound, DbLits, LbdLimit, MaxLbd, MaxClauses} \subseteq Nat \ {0}

VARIABLES
    learns,    \* [size, lbd] of the clauses each solver learns, in order; never changes
    clauses,   \* the ClauseExchange objects: size, lbd, issuer and nbRefs
    learned,   \* how many clauses each solver has learned
    exports,   \* clausesToExport of each solver
    size,      \* the counter of that queue
    imports,   \* clausesToImport and unitsToImport of each solver
    limit,     \* lbdLimit of each solver
    hand,      \* the clause each solver has popped; 0 when there is none
    spc,       \* where each solver is
    pc,        \* where each sharer is
    from,      \* its i: which producer it serves
    wanted,    \* nClauses of getClauses
    tmp,       \* its tmp
    to,        \* its j: which consumer comes next
    database,  \* its databases: the clauses kept of each producer
    initPhase, \* HordeSatSharing::initPhase
    stop,      \* Sharer::_stop
    owner,     \* where the owner of the Sharing is
    dropped,   \* history: clauses popped by getClauses and not stored
    refused,   \* history: clauses released because the database is full
    given      \* history: how often each solver has imported each clause

clauseVars == <<clauses, learns, learned>>
queueVars  == <<exports, size, imports>>
solverVars == <<hand, spc>>
sharerVars == <<pc, from, wanted, tmp, to, database, initPhase>>
ownerVars  == <<stop, owner>>
histVars   == <<dropped, refused, given>>
vars == <<clauseVars, queueVars, limit, solverVars, sharerVars, ownerVars, histVars>>

Ids == DOMAIN clauses
Sizes == 1..MaxSize

Init ==
    /\ learns \in Inputs
    /\ clauses = <<>>
    /\ learned = [s \in Solvers |-> 0]
    /\ exports = [s \in Solvers |-> <<>>]
    /\ size = [s \in Solvers |-> 0]
    /\ imports = [s \in Solvers |-> [units |-> <<>>, longer |-> <<>>]]
    /\ limit = [s \in Solvers |-> LbdLimit]
    /\ hand = [s \in Solvers |-> 0]
    /\ spc = [s \in Solvers |-> "search"]
    /\ pc = [h \in Sharers |-> "sleep"]
    /\ from = [h \in Sharers |-> 1]
    /\ wanted = [h \in Sharers |-> 0]
    /\ tmp = [h \in Sharers |-> <<>>]
    /\ to = [h \in Sharers |-> 1]
    /\ database = [h \in Sharers |-> [s \in Solvers |-> [n \in Sizes |-> <<>>]]]
    /\ initPhase = [h \in Sharers |-> TRUE]
    /\ stop = [h \in Sharers |-> FALSE]
    /\ owner = "running"
    /\ dropped = {} /\ refused = {}
    /\ given = [s \in Solvers |-> <<>>]

Producer(h) == Producers[h][from[h]]
Consumer(h) == Consumers[h][to[h]]

Occurrences(c, seq) == Len(SelectSeq(seq, LAMBDA d : d = c))

(* ClauseManager: n references more, or fewer, to each clause of a sequence. *)
Refer(cs, seq, n) ==
    IF seq = <<>> THEN cs ELSE [c \in DOMAIN cs |-> [cs[c] EXCEPT !.nbRefs = @ + n * Occurrences(c, seq)]]

(* ClauseManager::allocClause and the owner's first fields. *)
Alloc(cs, s, n, lbd) == Append(cs, [size |-> n, lbd |-> lbd, issuer |-> s, nbRefs |-> 1])

(* ClauseDatabase::addClause; what does not fit is released by the caller. *)
Fits(db, n) == (Len(db[n]) + 1) * n < DbLits

(* The database after the clauses of seq, and the clauses it refused. *)
Store(db, seq) ==
    FoldLeft(LAMBDA acc, c :
        LET n == clauses[c].size
        IN IF Fits(acc.db, n) THEN [acc EXCEPT !.db[n] = Append(@, c)]
           ELSE [acc EXCEPT !.full = Append(@, c)],
        [db |-> db, full |-> <<>>], seq)

(* A selection that leaves what it takes from the back in the database. *)
SelectionNotPopped(db) ==
    LET used[n \in 0..MaxSize] ==
            IF n = 0 THEN 0
            ELSE used[n - 1] + n * Min({Len(db[n]), (LitsPerRound - used[n - 1]) \div n})
        taken(n) == (used[n] - used[n - 1]) \div n
        whole(n) == taken(n) = Len(db[n])
    IN [chosen |-> FlattenSeq([n \in Sizes |->
                       IF whole(n) THEN db[n] ELSE SubSeq(Reverse(db[n]), 1, taken(n))]),
        rest   |-> [n \in Sizes |-> IF whole(n) THEN <<>> ELSE db[n]],
        used   |-> used[MaxSize]]

(* A selection that takes a length as a whole or not at all. *)
WholeLengthsOnly(db) ==
    LET used[n \in 0..MaxSize] ==
            IF n = 0 THEN 0
            ELSE used[n - 1] + IF n * Len(db[n]) <= LitsPerRound - used[n - 1]
                             THEN n * Len(db[n]) ELSE 0
        taken(n) == (used[n] - used[n - 1]) \div n
    IN [chosen |-> FlattenSeq([n \in Sizes |-> SubSeq(db[n], 1, taken(n))]),
        rest   |-> [n \in Sizes |-> SubSeq(db[n], 1, Len(db[n]) - taken(n))],
        used   |-> used[MaxSize]]

(* ClauseDatabase::giveSelection: the clauses it takes, the ones it leaves *)
(* and the literals it uses.  Shorter clauses go first; of a length that   *)
(* does not fit as a whole, as many as there is room for, from the back.   *)
GiveSelection(db) ==
    LET used[n \in 0..MaxSize] ==
            IF n = 0 THEN 0
            ELSE used[n - 1] + n * Min({Len(db[n]), (LitsPerRound - used[n - 1]) \div n})
        taken(n) == (used[n] - used[n - 1]) \div n
        whole(n) == taken(n) = Len(db[n])
    IN [chosen |-> FlattenSeq([n \in Sizes |->
                       IF whole(n) THEN db[n] ELSE SubSeq(Reverse(db[n]), 1, taken(n))]),
        rest   |-> [n \in Sizes |-> SubSeq(db[n], 1, Len(db[n]) - taken(n))],
        used   |-> used[MaxSize]]

----------------------------------------------------------------------------
(* Faulty variants of the operations below; the properties must notice them. *)

(* One reference for all consumers together. *)
GiveOneReference(h) ==
    /\ pc[h] = "give" /\ to[h] <= Len(Consumers[h])
    /\ IF Consumer(h) = Producer(h)
       THEN /\ to' = [to EXCEPT ![h] = @ + 1]
            /\ UNCHANGED <<clauses, pc>>
       ELSE /\ clauses' = IF to[h] = 1 THEN Refer(clauses, tmp[h], 1) ELSE clauses
            /\ pc' = [pc EXCEPT ![h] = "push"]
            /\ UNCHANGED to
    /\ UNCHANGED <<learns, learned, queueVars, limit, solverVars, from, wanted, tmp, database, initPhase,
                   ownerVars, histVars>>

----------------------------------------------------------------------------
(* The solvers. *)

(* cbkMapleCOMSPSExportClause: a clause above the limit is not exported. *)
Learn(s) ==
    /\ owner # "destroyed" /\ s \notin Reducers /\ spc[s] = "search"
    /\ learned[s] < Len(learns[s]) /\ Len(clauses) < MaxClauses
    /\ learned' = [learned EXCEPT ![s] = @ + 1]
    /\ LET c == learns[s][learned'[s]] IN
          IF c.lbd > limit[s]
          THEN UNCHANGED <<clauses, exports, spc>>
          ELSE /\ clauses' = Alloc(clauses, s, c.size, c.lbd)
               /\ exports' = [exports EXCEPT ![s] = Append(@, Len(clauses'))]
               /\ spc' = [spc EXCEPT ![s] = "count"]
    /\ UNCHANGED <<learns, size, imports, limit, hand, sharerVars, ownerVars, histVars>>

(* The counter of clausesToExport follows. *)
CountExport(s) ==
    /\ spc[s] = "count"
    /\ size' = [size EXCEPT ![s] = @ + 1]
    /\ spc' = [spc EXCEPT ![s] = IF hand[s] = 0 THEN "search" ELSE "release"]
    /\ UNCHANGED <<clauseVars, exports, imports, limit, hand, sharerVars, ownerVars, histVars>>

(* cbkMapleCOMSPSImportUnit, cbkMapleCOMSPSImportClause and the pop of *)
(* Reducer::solve.                                                     *)
Import(s, kind) ==
    /\ owner # "destroyed" /\ spc[s] = "search" /\ imports[s][kind] # <<>>
    /\ hand' = [hand EXCEPT ![s] = Head(imports[s][kind])]
    /\ imports' = [imports EXCEPT ![s][kind] = Tail(@)]
    /\ given' = [given EXCEPT ![s] = Append(@, hand'[s])]
    /\ spc' = [spc EXCEPT ![s] = "use"]
    /\ UNCHANGED <<clauseVars, exports, size, limit, sharerVars, ownerVars, dropped, refused>>

(* Reducer::strengthed found a shorter clause, which is exported. *)
Strengthen(s) ==
    /\ s \in Reducers /\ spc[s] = "use" /\ clauses[hand[s]].size > 1
    /\ Len(clauses) < MaxClauses
    /\ LET c == clauses[hand[s]] IN
          \E n \in 1..(c.size - 1) : clauses' = Alloc(clauses, s, n, Min({c.lbd, n}))
    /\ exports' = [exports EXCEPT ![s] = Append(@, Len(clauses'))]
    /\ spc' = [spc EXCEPT ![s] = "count"]
    /\ UNCHANGED <<learns, learned, size, imports, limit, hand, sharerVars, ownerVars, histVars>>

Release(s) ==
    /\ spc[s] \in {"use", "release"}
    /\ clauses' = Refer(clauses, <<hand[s]>>, -1)
    /\ hand' = [hand EXCEPT ![s] = 0]
    /\ spc' = [spc EXCEPT ![s] = "search"]
    /\ UNCHANGED <<learns, learned, queueVars, limit, sharerVars, ownerVars, histVars>>

----------------------------------------------------------------------------
(* Sharer::main_sharing_thread and HordeSatSharing::doSharing; share_mutex *)
(* is held for a whole round.                                              *)

Wake(h) ==
    /\ pc[h] = "sleep"
    /\ pc' = [pc EXCEPT ![h] = IF stop[h] THEN "done" ELSE "count"]
    /\ UNCHANGED <<clauseVars, queueVars, limit, solverVars, from, wanted, tmp, to, database, initPhase,
                   ownerVars, histVars>>

(* getClauses reads the counter first... *)
Count(h) ==
    /\ pc[h] = "count"
    /\ wanted' = [wanted EXCEPT ![h] = size[Producer(h)]]
    /\ pc' = [pc EXCEPT ![h] = "pop"]
    /\ UNCHANGED <<clauseVars, queueVars, limit, solverVars, from, tmp, to, database, initPhase,
                   ownerVars, histVars>>

(* ... and tests it after each pop: a clause too many is popped and lost. *)
Pop(h) ==
    /\ pc[h] = "pop"
    /\ IF exports[Producer(h)] = <<>>
       THEN /\ pc' = [pc EXCEPT ![h] = "select"]
            /\ UNCHANGED <<exports, size, wanted, tmp, dropped>>
       ELSE LET c == Head(exports[Producer(h)]) IN
            /\ exports' = [exports EXCEPT ![Producer(h)] = Tail(@)]
            /\ size' = [size EXCEPT ![Producer(h)] = @ - 1]
            /\ IF wanted[h] > 0
               THEN /\ tmp' = [tmp EXCEPT ![h] = Append(@, c)]
                    /\ wanted' = [wanted EXCEPT ![h] = @ - 1]
                    /\ UNCHANGED <<dropped, pc>>
               ELSE /\ dropped' = dropped \cup {c}
                    /\ pc' = [pc EXCEPT ![h] = "select"]
                    /\ UNCHANGED <<tmp, wanted>>
    /\ UNCHANGED <<clauseVars, imports, limit, solverVars, from, to, database, initPhase, ownerVars,
                   refused, given>>

(* The clauses go into the database and a selection comes out; the limit *)
(* of the producer is adapted.  roundBeforeIncrease may have been passed. *)
Select(h) ==
    /\ pc[h] = "select"
    /\ \E stored \in {Store(database[h][Producer(h)], tmp[h])} :
       \E selection \in {GiveSelection(stored.db)} :
       LET percent == (100 * selection.used) \div LitsPerRound
           old     == limit[Producer(h)]
       IN /\ database' = [database EXCEPT ![h][Producer(h)] = selection.rest]
          /\ clauses' = Refer(clauses, stored.full, -1)
          /\ refused' = refused \cup ToSet(stored.full)
          /\ tmp' = [tmp EXCEPT ![h] = selection.chosen]
          /\ limit' = [limit EXCEPT ![Producer(h)] =
                          IF percent < 75 /\ ~initPhase[h] THEN Min({old + 1, MaxLbd})
                          ELSE IF percent > 98 /\ old > 2 THEN old - 1 ELSE old]
          /\ \E late \in BOOLEAN :
                initPhase' = [initPhase EXCEPT ![h] = @ /\ selection.chosen = <<>> /\ ~late]
    /\ wanted' = [wanted EXCEPT ![h] = 0]
    /\ pc' = [pc EXCEPT ![h] = "give"]
    /\ UNCHANGED <<learns, learned, queueVars, solverVars, from, to, ownerVars, dropped, given>>

(* References for the next consumer, unless it is the producer. *)
Give(h) ==
    /\ pc[h] = "give" /\ to[h] <= Len(Consumers[h])
    /\ IF Consumer(h) = Producer(h)
       THEN /\ to' = [to EXCEPT ![h] = @ + 1]
            /\ UNCHANGED <<clauses, pc>>
       ELSE /\ clauses' = Refer(clauses, tmp[h], 1)
            /\ pc' = [pc EXCEPT ![h] = "push"]
            /\ UNCHANGED to
    /\ UNCHANGED <<learns, learned, queueVars, limit, solverVars, from, wanted, tmp, database, initPhase,
                   ownerVars, histVars>>

(* addLearnedClauses: units have a queue of their own. *)
Push(h) ==
    /\ pc[h] = "push"
    /\ LET unit(c) == clauses[c].size = 1
           long(c) == ~unit(c)
       IN imports' = [imports EXCEPT ![Consumer(h)] =
              [units  |-> @.units \o SelectSeq(tmp[h], unit),
               longer |-> @.longer \o SelectSeq(tmp[h], long)]]
    /\ to' = [to EXCEPT ![h] = @ + 1]
    /\ pc' = [pc EXCEPT ![h] = "give"]
    /\ UNCHANGED <<clauseVars, exports, size, limit, solverVars, from, wanted, tmp, database, initPhase,
                   ownerVars, histVars>>

(* The sharer's own references go, and the next producer comes. *)
Finish(h) ==
    /\ pc[h] = "give" /\ to[h] > Len(Consumers[h])
    /\ clauses' = Refer(clauses, tmp[h], -1)
    /\ tmp' = [tmp EXCEPT ![h] = <<>>]
    /\ to' = [to EXCEPT ![h] = 1]
    /\ from' = [from EXCEPT ![h] = (@ % Len(Producers[h])) + 1]
    /\ pc' = [pc EXCEPT ![h] = IF from[h] = Len(Producers[h]) THEN "sleep" ELSE "count"]
    /\ UNCHANGED <<learns, learned, queueVars, limit, solverVars, wanted, database, initPhase, ownerVars,
                   histVars>>

----------------------------------------------------------------------------
(* Sharing::stop and the destruction of the solvers after it. *)

(* ~Sharer, which needs share_mutex; one sharer after the other. *)
Stop(h) ==
    /\ ~stop[h] /\ pc[h] = "sleep"
    /\ \A g \in Sharers : stop[g] => pc[g] = "gone"
    /\ stop' = [stop EXCEPT ![h] = TRUE]
    /\ owner' = "stopping"
    /\ UNCHANGED <<clauseVars, queueVars, limit, solverVars, sharerVars, histVars>>

(* Its thread is joined and its databases are destroyed. *)
JoinSharer(h) ==
    /\ pc[h] = "done"
    /\ clauses' = Refer(clauses,
           FlattenSeq([i \in 1..Len(Producers[h]) |->
              FlattenSeq([n \in Sizes |-> database[h][Producers[h][i]][n]])]), -1)
    /\ database' = [database EXCEPT ![h] = [s \in Solvers |-> [n \in Sizes |-> <<>>]]]
    /\ pc' = [pc EXCEPT ![h] = "gone"]
    /\ UNCHANGED <<learns, learned, queueVars, limit, solverVars, from, wanted, tmp, to, initPhase, ownerVars,
                   histVars>>

(* ~ClauseBuffer of every queue. *)
DestroySolvers ==
    /\ owner = "stopping"
    /\ \A h \in Sharers : pc[h] = "gone"
    /\ \A s \in Solvers : spc[s] = "search"
    /\ clauses' = [c \in Ids |-> [clauses[c] EXCEPT !.nbRefs = @ -
           Cardinality({s \in Solvers : c \in ToSet(exports[s])})
           - Cardinality({s \in Solvers : c \in ToSet(imports[s].units \o imports[s].longer)})]]
    /\ exports' = [s \in Solvers |-> <<>>]
    /\ imports' = [s \in Solvers |-> [units |-> <<>>, longer |-> <<>>]]
    /\ owner' = "destroyed"
    /\ UNCHANGED <<learns, learned, size, limit, solverVars, sharerVars, stop, histVars>>

----------------------------------------------------------------------------
SolverNext(s) ==
    \/ Learn(s) \/ CountExport(s) \/ Strengthen(s) \/ Release(s)
    \/ \E kind \in {"units", "longer"} : Import(s, kind)

SharerNext(h) ==
    \/ Wake(h) \/ Count(h) \/ Pop(h) \/ Select(h) \/ Give(h) \/ Push(h) \/ Finish(h)
    \/ JoinSharer(h)

Next ==
    \/ \E s \in Solvers : SolverNext(s)
    \/ \E h \in Sharers : SharerNext(h) \/ Stop(h)
    \/ DestroySolvers
    \/ owner = "destroyed" /\ UNCHANGED vars

Spec == Init /\ [][Next]_vars

(* Sharers keep their rounds and a solver finishes an export; nobody has to *)
(* learn, import or stop.                                                   *)
FairSpec ==
    /\ Spec
    /\ \A s \in Solvers : WF_vars(CountExport(s))
    /\ \A h \in Sharers : WF_vars(SharerNext(h))

----------------------------------------------------------------------------
(* How many places refer to clause c: queues, databases, hands, and the    *)
(* vector of a sharer, twice while a reference for a consumer is in there. *)
Holders(c) ==
    LET AtSolver(s) ==
            Occurrences(c, exports[s] \o imports[s].units \o imports[s].longer \o <<hand[s]>>)
        AtSharer(h) ==
            (IF pc[h] = "push" THEN 2 ELSE 1) * Occurrences(c, tmp[h])
              + Cardinality({s \in Solvers : \E n \in Sizes : c \in ToSet(database[h][s][n])})
    IN MapThenSumSet(AtSolver, Solvers) + MapThenSumSet(AtSharer, Sharers)

(* The counter of a clause is the number of places that refer to it, so    *)
(* that a clause in use is never freed, none is freed twice and all are    *)
(* freed in the end; except those that getClauses popped and lost          *)
(* (ClauseBuffer.cpp:110), whose reference leaks.                          *)
RefsExact ==
    \A c \in Ids : clauses[c].nbRefs = Holders(c) + (IF c \in dropped THEN 1 ELSE 0)

Received(s) == given[s] \o imports[s].units \o imports[s].longer

(* No solver is given a clause twice, or one of its own                    *)
(* (HordeSatSharing.cpp:73, ClauseDatabase.cpp:66 and 74), in whichever    *)
(* rounds it waits in the database.                                        *)
GivenOnce ==
    \A s \in Solvers, c \in Ids :
        Occurrences(c, Received(s)) <= (IF clauses[c].issuer = s THEN 0 ELSE 1)

(* Everyone whom a sharer of its issuer serves has clause c. *)
Shared(c) ==
    \E h \in Sharers : \A i \in DOMAIN Consumers[h] :
        /\ clauses[c].issuer \in ToSet(Producers[h])
        /\ Consumers[h][i] # clauses[c].issuer => c \in ToSet(Received(Consumers[h][i]))

(* Clauses that no round has room for (ClauseDatabase.cpp:62). *)
TooLong == {c \in Ids : clauses[c].size > LitsPerRound}

(* While sharing goes on and its solvers learn no more, every exported     *)
(* clause reaches every consumer, although shorter clauses and, of one     *)
(* length, the newest go first (ClauseDatabase.cpp:54-77) and the counter  *)
(* of the queue lags; except those that getClauses lost, that the database *)
(* was too full for, and that are longer than the literals of a round.     *)
(* A solver that keeps learning may keep a clause back for ever.           *)
EventuallyShared ==
    []<>(owner # "running" \/ \A c \in Ids : c \in dropped \cup refused \cup TooLong \/ Shared(c))
=============================================================================
