----------------------------- MODULE TimerProofs -----------------------------
(***************************************************************************)
(* Theorems about Timer, for every set of events and every set of delays.  *)
(***************************************************************************)
EXTENDS Timer, TLAPS

----------------------------------------------------------------------------
(* The strengthening that makes LatenessBounded inductive.                 *)

(* t - s is at most the difference of two delays in use. *)
Within(t, s) == \E long, short \in Delays : t - s <= long - short

(* No event, and no timeout the thread waits for, is further ahead than one *)
(* delay.                                                                   *)
NearInv ==
    /\ \A e \in Pending : \E d \in Delays : when[e] <= now + d
    /\ pc \in {"checked", "asleep"} => \E d \in Delays : until <= now + d

(* The timeout the thread waits for was that of the first event: one added  *)
(* since then precedes it by no more than its delay is shorter.             *)
UntilInv ==
    /\ pc \in {"checked", "asleep"} => \A e \in Pending : Within(until, when[e])
    /\ pc = "asleep" => now <= until

(* LatenessBounded, of events that were aborted too. *)
LateInv == \A e \in Pending : when[e] < now => Within(now, when[e])

CurInv == pc = "calling" => cur \in Ids

TimerInv == TypeOK /\ CurInv /\ NearInv /\ UntilInv /\ LateInv

(* The facts about delays that the proofs use. *)
LEMMA DelayFacts ==
  /\ \A d \in Delays : d \in Nat /\ d > 0 /\ d <= MaxTime
  /\ \E d \in Delays : TRUE
  /\ MaxTime \in Nat
  <1>1. MaxTime \in Nat
    BY TimerAssumption
  <1>2. \A d \in Delays : d \in Nat /\ d > 0 /\ d <= MaxTime
    <2>1. \A d \in Delays : d \in 1..MaxTime
      BY TimerAssumption
    <2> QED
      BY <1>1, <2>1
  <1>3. \E d \in Delays : TRUE
    BY TimerAssumption
  <1> QED
    BY <1>1, <1>2, <1>3

(* Nothing has been added yet. *)
LEMMA TimerInit == Init => TimerInv
  <1> SUFFICES ASSUME Init PROVE TimerInv
    OBVIOUS
  <1>1. Pending = {} /\ pc = "top"
    BY DEF Init, Pending
  <1>2. TypeOK
    <2>1. 0 \in 0..MaxTime
      BY DelayFacts
    <2>2. /\ when \in [Ids -> 0..MaxTime]
          /\ state \in [Ids -> {"none", "pending", "lost", "called", "erased"}]
          /\ aborted \in [Ids -> BOOLEAN]
      BY <2>1 DEF Init
    <2> QED
      BY <2>1, <2>2 DEF Init, TypeOK
  <1> QED
    BY <1>1, <1>2 DEF TimerInv, CurInv, NearInv, UntilInv, LateInv

----------------------------------------------------------------------------
(* Types.                                                                  *)

(* The event whose callback runs is one that was added. *)
LEMMA TimerTypes == TimerInv /\ [Next]_vars => TypeOK' /\ CurInv'
  <1> SUFFICES ASSUME TimerInv, [Next]_vars PROVE TypeOK' /\ CurInv'
    OBVIOUS
  <1> USE DelayFacts DEF TimerInv, TypeOK, CurInv
  <1>1. ASSUME NEW e \in Ids, NEW d \in Delays, Add(e, d) PROVE TypeOK' /\ CurInv'
    <2>1. now + d \in 0..MaxTime
      BY <1>1 DEF Add
    <2>2. when' \in [Ids -> 0..MaxTime]
      BY <1>1, <2>1 DEF Add
    <2> QED
      BY <1>1, <2>2 DEF Add
  <1>2. ASSUME NEW e \in Ids, Abort(e) PROVE TypeOK' /\ CurInv'
    BY <1>2 DEF Abort
  <1>3. CASE Stop
    BY <1>3 DEF Stop
  <1>4. CASE Join
    BY <1>4 DEF Join
  <1>5. CASE ComputeWait
    <2>1. until' \in 0..MaxTime
      BY <1>5 DEF ComputeWait
    <2> QED
      BY <1>5, <2>1 DEF ComputeWait
  <1>6. CASE Block
    BY <1>6 DEF Block
  <1>7. CASE TimeOut
    BY <1>7 DEF TimeOut
  <1>8. CASE TestStop
    BY <1>8 DEF TestStop
  <1>9. CASE ScanEnds
    BY <1>9 DEF ScanEnds
  <1>10. ASSUME NEW e \in Ids, ScanFirst(e) PROVE TypeOK' /\ CurInv'
    BY <1>10 DEF ScanFirst
  <1>11. CASE CallbackReturns
    BY <1>11 DEF CallbackReturns
  <1>12. CASE Tick
    BY <1>12 DEF Tick
  <1>13. CASE UNCHANGED vars
    BY <1>13 DEF vars
  <1> QED
    BY <1>1, <1>2, <1>3, <1>4, <1>5, <1>6, <1>7, <1>8, <1>9, <1>10, <1>11, <1>12, <1>13
    DEF Next, ThreadStep, Destroyed

----------------------------------------------------------------------------
(* The three parts of the strengthening.                                   *)

(* The steps at which neither the clock nor the timeout moves, nothing is   *)
(* added and the thread does not go to wait.                                *)
Aside ==
    /\ UNCHANGED <<now, when, until>>
    /\ Pending' \subseteq Pending
    /\ pc' \in {"checked", "asleep"} => pc' = pc

(* Only four kinds of step are not of this kind. *)
LEMMA AsideSteps ==
  ASSUME TimerInv, [Next]_vars
  PROVE  \/ Aside \/ ComputeWait \/ Block \/ Tick
         \/ \E e \in Ids, d \in Delays : Add(e, d)
  <1> USE DEF TimerInv, TypeOK, Aside, Pending
  <1>1. ASSUME NEW e \in Ids, Abort(e) PROVE Aside
    BY <1>1 DEF Abort
  <1>2. CASE Stop \/ Join \/ TimeOut \/ TestStop \/ ScanEnds \/ UNCHANGED vars
    BY <1>2 DEF Stop, Join, TimeOut, TestStop, ScanEnds, vars
  <1>3. ASSUME NEW e \in Ids, ScanFirst(e) PROVE Aside
    BY <1>3 DEF ScanFirst
  <1>4. CASE CallbackReturns
    BY <1>4 DEF CallbackReturns, CurInv
  <1> QED
    BY <1>1, <1>2, <1>3, <1>4 DEF Next, ThreadStep, Destroyed

(* add() puts its event one delay ahead, after everything that is late. *)
LEMMA AddFacts ==
  ASSUME TimerInv, NEW e \in Ids, NEW d \in Delays, Add(e, d)
  PROVE  /\ when'[e] = now + d /\ when'[e] > now
         /\ \A f \in Pending' : f = e \/ (f \in Pending /\ when'[f] = when[f])
         /\ UNCHANGED <<now, until, pc>>
  BY DelayFacts DEF TimerInv, TypeOK, Add, Pending

(* The clock only brings deadlines nearer. *)
LEMMA NearStep == TimerInv /\ [Next]_vars => NearInv'
  <1> SUFFICES ASSUME TimerInv, [Next]_vars PROVE NearInv'
    OBVIOUS
  <1> USE DelayFacts DEF TimerInv, TypeOK, NearInv
  <1>1. CASE Aside
    BY <1>1 DEF Aside
  <1>2. CASE ComputeWait
    <2>1. UNCHANGED <<now, when>> /\ Pending' = Pending
      BY <1>2 DEF ComputeWait, Pending
    <2>2. CASE stop
      BY <1>2, <2>1, <2>2 DEF ComputeWait
    <2>3. CASE ~stop /\ Pending = {}
      BY <1>2, <2>1, <2>3 DEF ComputeWait
    <2>4. CASE ~stop /\ Pending # {}
      BY <1>2, <2>1, <2>4 DEF ComputeWait, IsFirst
    <2> QED
      BY <2>2, <2>3, <2>4
  <1>3. CASE Block
    BY <1>3 DEF Block, Pending
  <1>4. CASE Tick
    <2>1. now' = now + 1 /\ UNCHANGED <<when, until, pc>> /\ Pending' = Pending
      BY <1>4 DEF Tick, Pending
    <2>2. ASSUME NEW t \in Int, \E d \in Delays : t <= now + d
          PROVE  \E d \in Delays : t <= now' + d
      BY <2>1, <2>2
    <2>3. \A e \in Pending : when[e] \in Int
      BY DEF Pending
    <2> QED
      BY <2>1, <2>2, <2>3
  <1>5. ASSUME NEW e \in Ids, NEW d \in Delays, Add(e, d) PROVE NearInv'
    BY <1>5, AddFacts
  <1> QED
    BY <1>1, <1>2, <1>3, <1>4, <1>5, AsideSteps

(* An event added while the thread sleeps lies its own delay ahead, the     *)
(* timeout at most one delay ahead.                                         *)
LEMMA UntilStep == TimerInv /\ [Next]_vars => UntilInv'
  <1> SUFFICES ASSUME TimerInv, [Next]_vars PROVE UntilInv'
    OBVIOUS
  <1> USE DelayFacts DEF TimerInv, TypeOK, UntilInv
  <1>1. CASE Aside
    BY <1>1 DEF Aside, Within
  <1>2. CASE ComputeWait
    <2>1. UNCHANGED <<now, when>> /\ Pending' = Pending /\ pc' # "asleep"
      BY <1>2 DEF ComputeWait, Pending
    <2>2. CASE stop
      BY <1>2, <2>1, <2>2 DEF ComputeWait
    <2>3. CASE ~stop /\ Pending = {}
      BY <1>2, <2>1, <2>3 DEF ComputeWait
    <2>4. CASE ~stop /\ Pending # {}
      <3>1. \A e \in Pending : until' <= when[e] /\ when[e] \in Int /\ until' \in Int
        BY <1>2, <2>4 DEF ComputeWait, IsFirst, Pending
      <3>2. \A e \in Pending : \E d \in Delays : until' - when[e] <= d - d
        BY <3>1
      <3> QED
        BY <2>1, <3>2 DEF Within
    <2> QED
      BY <2>2, <2>3, <2>4
  <1>3. CASE Block
    BY <1>3 DEF Block, Pending, Within
  <1>4. CASE Tick
    <2>1. now' = now + 1 /\ UNCHANGED <<when, until, pc>> /\ Pending' = Pending
      BY <1>4 DEF Tick, Pending
    <2>2. pc = "asleep" => until > now
      BY <1>4 DEF Tick
    <2> QED
      BY <2>1, <2>2 DEF Within
  <1>5. ASSUME NEW e \in Ids, NEW d \in Delays, Add(e, d) PROVE UntilInv'
    <2>1. ASSUME pc \in {"checked", "asleep"} PROVE Within(until, now + d)
      <3>1. PICK long \in Delays : until <= now + long
        BY <2>1 DEF NearInv
      <3>2. until - (now + d) <= long - d
        BY <3>1
      <3> QED
        BY <3>2 DEF Within
    <2> QED
      BY <1>5, <2>1, AddFacts DEF Within
  <1> QED
    BY <1>1, <1>2, <1>3, <1>4, <1>5, AsideSteps

(* The clock passes an event only while the thread sleeps, and not past     *)
(* the timeout.                                                             *)
LEMMA LateStep == TimerInv /\ [Next]_vars => LateInv'
  <1> SUFFICES ASSUME TimerInv, [Next]_vars PROVE LateInv'
    OBVIOUS
  <1> USE DelayFacts DEF TimerInv, TypeOK, LateInv
  <1>1. CASE Aside
    BY <1>1 DEF Aside, Within
  <1>2. CASE ComputeWait \/ Block
    <2>1. UNCHANGED <<now, when>> /\ Pending' = Pending
      BY <1>2 DEF ComputeWait, Block, Pending
    <2> QED
      BY <2>1 DEF Within
  <1>3. CASE Tick
    <2>1. now' = now + 1 /\ UNCHANGED when /\ Pending' = Pending
      BY <1>3 DEF Tick, Pending
    <2>2. CASE Pending = {}
      BY <2>1, <2>2
    <2>3. CASE pc = "asleep" /\ until > now
      <3>1. ASSUME NEW e \in Pending PROVE Within(now', when[e])
        <4>1. when[e] \in Int /\ now' <= until
          BY <2>1, <2>3 DEF Pending
        <4>2. PICK long \in Delays, short \in Delays : until - when[e] <= long - short
          BY <2>3 DEF UntilInv, Within
        <4>3. now' - when[e] <= long - short
          BY <4>1, <4>2, <2>1
        <4> QED
          BY <4>3 DEF Within
      <3> QED
        BY <2>1, <3>1 DEF Within
    <2> QED
      BY <1>3, <2>2, <2>3 DEF Tick
  <1>4. ASSUME NEW e \in Ids, NEW d \in Delays, Add(e, d) PROVE LateInv'
    BY <1>4, AddFacts DEF Within
  <1> QED
    BY <1>1, <1>2, <1>3, <1>4, AsideSteps

(* The invariant is inductive. *)
LEMMA TimerStep == TimerInv /\ [Next]_vars => TimerInv'
  BY TimerTypes, NearStep, UntilStep, LateStep DEF TimerInv

----------------------------------------------------------------------------

(* Every variable keeps its type: no deadline lies beyond the last instant, *)
(* the timeouts of the thread included.                                     *)
THEOREM TimerTypeCorrect == Spec => []TypeOK
  <1>1. TimerInv => TypeOK
    BY DEF TimerInv
  <1> QED
    BY <1>1, TimerInit, TimerStep, PTL DEF Spec

(* Whatever is added while the thread sleeps, and however many events there *)
(* are, none is served later than the longest delay exceeds the shortest.   *)
THEOREM LatenessCorrect == Spec => []LatenessBounded
  <1>1. TimerInv => LatenessBounded
    BY DEF TimerInv, LateInv, Within, LatenessBounded, Overdue
  <1> QED
    BY <1>1, TimerInit, TimerStep, PTL DEF Spec
=============================================================================
