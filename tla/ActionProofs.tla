------------------------------ MODULE ActionProofs ------------------------------
(***************************************************************************)
(* Proofs about the actions of the adapter: first ActionScheduler, those   *)
(* of an order, then StateActions, those of a working state.  The two have *)
(* no variable in common, and neither part uses the other.                 *)
(*                                                                         *)
(* The steps of ActionScheduler are of four kinds: something winds down    *)
(* (Winds), a runner makes the tasks of a stretch (Stretches), it starts   *)
(* an exclusive action (Starts), or the worker ends runners and begins one *)
(* (Opens).  Most invariants are shown to be kept kind by kind.            *)
(***************************************************************************)
EXTENDS ActionScheduler, StateActions, WellFoundedInduction, TLAPS

-----------------------------------------------------------------------------
(* The lists of the points *)

\* A set of naturals that is not empty has a least element.
LEMMA LeastElement ==
  ASSUME NEW S \in SUBSET Nat, S # {}
  PROVE  \E x \in S : \A y \in S : x <= y
<1> DEFINE R == {ij \in Nat \X Nat : ij[1] < ij[2]}
<1>1. IsWellFoundedOn(R, Nat)
  BY NatLessThanWellFounded DEF OpToRel
<1>2. \E x \in S : \A y \in S : <<y, x>> \notin R
  <2> HIDE DEF R
  <2> QED
    BY <1>1, WFMin
<1>3. PICK x \in S : \A y \in S : <<y, x>> \notin R
  BY <1>2
<1>4. \A y \in S : ~(y < x)
  BY <1>3
<1> QED
  BY <1>4

\* A list is a sequence of blocking types within the bound.
LEMMA ListShape ==
  ASSUME NEW l \in Lists \cup {<<>>}
  PROVE  l \in Seq(BlockingTypes) /\ Len(l) \in 0..MaxActions
<1>1. CASE l = <<>>
  BY <1>1, ActionSchedulerAssumption
<1>2. CASE l \in Lists
  <2>1. PICK n \in 1..MaxActions : l \in [1..n -> BlockingTypes]
    BY <1>2, ActionSchedulerAssumption
  <2>2. n \in Nat /\ l \in Seq(BlockingTypes) /\ Len(l) = n
    BY <2>1, ActionSchedulerAssumption
  <2> QED
    BY <2>1, <2>2, ActionSchedulerAssumption
<1> QED
  BY <1>1, <1>2

\* LastBlocker is what its name says.
LEMMA LastBlockerIs ==
  ASSUME NEW l \in Lists \cup {<<>>}
  PROVE  /\ LastBlocker(l) \in 0..Len(l)
         /\ LastBlocker(l) > 0 => StopsDriving(l[LastBlocker(l)])
         /\ \A j \in (LastBlocker(l) + 1)..Len(l) : ~StopsDriving(l[j])
<1> DEFINE Is(i) == /\ i > 0 => StopsDriving(l[i])
                    /\ \A j \in (i + 1)..Len(l) : ~StopsDriving(l[j])
<1>0. Len(l) \in Nat
  BY ListShape, ActionSchedulerAssumption
<1>1. \E i \in 0..Len(l) : Is(i)
  <2> DEFINE S == {d \in 0..Len(l) : d = Len(l) \/ StopsDriving(l[Len(l) - d])}
  <2>1. PICK d \in S : \A e \in S : d <= e
    <3>1. S \in SUBSET Nat /\ Len(l) \in S
      BY <1>0
    <3> HIDE DEF S
    <3> QED
      BY <3>1, LeastElement
  <2>2. d \in 0..Len(l) /\ Len(l) - d \in 0..Len(l)
    BY <1>0, <2>1
  <2>3. Len(l) - d > 0 => StopsDriving(l[Len(l) - d])
    BY <1>0, <2>1, <2>2
  <2>4. ASSUME NEW j \in (Len(l) - d + 1)..Len(l), StopsDriving(l[j])
        PROVE  FALSE
    <3>1. j \in Nat /\ Len(l) - j \in 0..Len(l) /\ Len(l) - (Len(l) - j) = j /\ ~(d <= Len(l) - j)
      BY <1>0, <2>2, <2>4
    <3>2. Len(l) - j \in S
      BY <2>4, <3>1
    <3> QED
      BY <2>1, <3>1, <3>2
  <2> QED
    BY <2>2, <2>3, <2>4
<1>2. Is(CHOOSE i \in 0..Len(l) : Is(i)) /\ (CHOOSE i \in 0..Len(l) : Is(i)) \in 0..Len(l)
  <2> HIDE DEF Is
  <2> QED
    BY <1>1
<1> QED
  BY <1>2 DEF LastBlocker

\* The shapes of the variables, piece by piece
ListOK == list \in [Points -> Lists \cup {<<>>}] /\ next \in 1..(N + 1)
WorkerOK ==
  /\ worker \in {"moving", "stopping", "acting", "parked", "done", "dead"}
  /\ residual \in BOOLEAN
TaskOK == task \in [Tasks -> {"none", "live", "cancelling"} \cup Over]
Frames ==
  [mode: {"none", "barriers", "before", "inside", "last"}, at: 0..(MaxActions + 1),
   wait: SUBSET Tasks, prior: SUBSET Tasks]
FrameOK == frame \in [Runners -> Frames]
SetsOK == tracked \subseteq Tasks /\ canceller \in BOOLEAN /\ cancelWait \subseteq Tasks

\* The types, part by part
LEMMA TypeParts == TypeOK <=> ListOK /\ WorkerOK /\ TaskOK /\ FrameOK /\ SetsOK
  BY DEF TypeOK, ListOK, WorkerOK, TaskOK, FrameOK, Frames, SetsOK

\* The actions that runner r makes tasks of
Own(r) == {a \in Listed : Owner(a) = r}

\* Runners are not actions, and each is the foreground or the background of a point.
LEMMA TaskKinds ==
  /\ Actions \cap Runners = {}
  /\ \A p \in Points : /\ Foreground(p) \in Runners /\ Background(p) \in Runners
                       /\ Foreground(p)[1] = p /\ Background(p)[1] = p
                       /\ IsForeground(Foreground(p)) /\ ~IsForeground(Background(p))
                       /\ Foreground(p) # Background(p)
  /\ \A r \in Runners : /\ r[1] \in Points
                        /\ r = IF IsForeground(r) THEN Foreground(r[1]) ELSE Background(r[1])
  /\ \A a \in Actions : a[1] \in Points /\ a[2] \in 1..MaxActions /\ a = <<a[1], a[2]>>
  /\ Actions \subseteq Tasks /\ Runners \subseteq Tasks
  /\ \A t \in Tasks : t[1] \in Points
  /\ \A t \in Tasks : t \in Actions \/ t \in Runners
  BY ActionSchedulerAssumption
  DEF Actions, Runners, Tasks, Foreground, Background, IsForeground

\* The list of a point, and where its foreground ends
LEMMA PointList ==
  ASSUME ListOK, NEW p \in Points
  PROVE  /\ list[p] \in Lists \cup {<<>>}
         /\ Len(list[p]) \in 0..MaxActions
         /\ LastBlocker(list[p]) \in 0..Len(list[p])
         /\ \A i \in 1..Len(list[p]) : /\ list[p][i] \in BlockingTypes
                                       /\ StopsDriving(list[p][i]) => i <= LastBlocker(list[p])
<1>1. list[p] \in Lists \cup {<<>>}
  BY DEF ListOK
<1>2. Len(list[p]) \in 0..MaxActions /\ list[p] \in Seq(BlockingTypes)
  BY <1>1, ListShape
<1>3. /\ LastBlocker(list[p]) \in 0..Len(list[p])
      /\ \A j \in (LastBlocker(list[p]) + 1)..Len(list[p]) : ~StopsDriving(list[p][j])
  BY <1>1, LastBlockerIs
<1> HIDE DEF StopsDriving, BlockingTypes
<1> QED
  BY <1>1, <1>2, <1>3, ActionSchedulerAssumption

\* An action on the list of its point lies among the entries of its runner.
LEMMA OwnerIs ==
  ASSUME ListOK, NEW a \in Listed
  PROVE  /\ a \in Actions /\ a \in Own(Owner(a))
         /\ Owner(a) \in Runners /\ Owner(a)[1] = a[1]
         /\ IsForeground(Owner(a)) <=> a[2] <= LastBlocker(list[a[1]])
         /\ a[2] \in First(Owner(a))..Last(Owner(a))
         /\ StopsDriving(TypeOf(a)) => IsForeground(Owner(a))
<1>1. a \in Actions /\ a[1] \in Points /\ a[2] \in 1..Len(list[a[1]])
  BY TaskKinds, PointList DEF Listed
<1>2. LastBlocker(list[a[1]]) \in Nat /\ Len(list[a[1]]) \in Nat
  BY <1>1, PointList, ActionSchedulerAssumption
<1>3. StopsDriving(TypeOf(a)) => a[2] <= LastBlocker(list[a[1]])
  BY <1>1, PointList DEF TypeOf
<1>4. /\ Owner(a) \in Runners /\ Owner(a)[1] = a[1]
      /\ IsForeground(Owner(a)) <=> a[2] <= LastBlocker(list[a[1]])
  BY <1>1, TaskKinds DEF Owner
<1>5. a[2] \in First(Owner(a))..Last(Owner(a))
  BY <1>1, <1>2, <1>4 DEF First, Last
<1> QED
  BY <1>1, <1>3, <1>4, <1>5 DEF Own

\* The entries of a runner
LEMMA EntryIs ==
  ASSUME ListOK, NEW r \in Runners
  PROVE  /\ First(r) \in 1..(MaxActions + 1) /\ Last(r) \in 0..MaxActions
         /\ Last(r) <= Len(list[r[1]]) /\ First(r) <= Last(r) + 1
         /\ \A k \in First(r)..Last(r) : <<r[1], k>> \in Own(r)
         /\ \A a \in Own(r) : a = <<r[1], a[2]>> /\ a[2] \in First(r)..Last(r)
<1>1. r[1] \in Points
  BY TaskKinds
<1>2. /\ LastBlocker(list[r[1]]) \in 0..Len(list[r[1]]) /\ Len(list[r[1]]) \in 0..MaxActions
  BY <1>1, PointList
<1>3. /\ First(r) \in 1..(MaxActions + 1) /\ Last(r) \in 0..MaxActions
      /\ Last(r) <= Len(list[r[1]]) /\ First(r) <= Last(r) + 1
  BY <1>2, ActionSchedulerAssumption DEF First, Last
<1>4. ASSUME NEW k \in First(r)..Last(r)
      PROVE  <<r[1], k>> \in Own(r)
  <2>1. k \in 1..MaxActions /\ k <= Len(list[r[1]])
    BY <1>3, ActionSchedulerAssumption
  <2>2. <<r[1], k>> \in Listed
    BY <1>1, <2>1 DEF Listed, Actions
  <2>3. k <= LastBlocker(list[r[1]]) <=> IsForeground(r)
    BY <1>2, <1>3, ActionSchedulerAssumption DEF First, Last
  <2>4. Owner(<<r[1], k>>) = r
    BY <1>1, <2>3, TaskKinds DEF Owner
  <2> QED
    BY <2>2, <2>4 DEF Own
<1>5. ASSUME NEW a \in Own(r)
      PROVE  a = <<r[1], a[2]>> /\ a[2] \in First(r)..Last(r)
  <2>1. a \in Listed /\ Owner(a) = r
    BY DEF Own
  <2>2. a \in Actions /\ a[1] = r[1] /\ a[2] \in First(r)..Last(r)
    BY <2>1, OwnerIs
  <2> QED
    BY <2>2, TaskKinds
<1> QED
  BY <1>3, <1>4, <1>5

\* NextExclusive is what its name says.
LEMMA NextExclusiveIs ==
  ASSUME ListOK, NEW r \in Runners, NEW i \in First(r)..(Last(r) + 1)
  PROVE  /\ NextExclusive(r, i) \in i..(Last(r) + 1)
         /\ NextExclusive(r, i) <= Last(r) => IsExclusive(TypeOf(<<r[1], NextExclusive(r, i)>>))
         /\ \A k \in i..(NextExclusive(r, i) - 1) : ~IsExclusive(TypeOf(<<r[1], k>>))
<1> DEFINE Is(j) == /\ j <= Last(r) => IsExclusive(TypeOf(<<r[1], j>>))
                    /\ \A k \in i..(j - 1) : ~IsExclusive(TypeOf(<<r[1], k>>))
           S == {j \in i..(Last(r) + 1) : j = Last(r) + 1 \/ IsExclusive(TypeOf(<<r[1], j>>))}
<1>0. i \in Nat /\ Last(r) \in Nat /\ i <= Last(r) + 1
  BY EntryIs, ActionSchedulerAssumption
<1>1. PICK j \in S : \A k \in S : j <= k
  <2>1. S \in SUBSET Nat /\ Last(r) + 1 \in S
    BY <1>0
  <2> HIDE DEF S
  <2> QED
    BY <2>1, LeastElement
<1>2. j \in i..(Last(r) + 1) /\ (j <= Last(r) => IsExclusive(TypeOf(<<r[1], j>>)))
  BY <1>0, <1>1
<1>3. ASSUME NEW k \in i..(j - 1), IsExclusive(TypeOf(<<r[1], k>>))
      PROVE  FALSE
  <2>1. k \in i..(Last(r) + 1) /\ ~(j <= k)
    BY <1>0, <1>2
  <2>2. k \in S
    BY <1>3, <2>1
  <2> QED
    BY <1>1, <2>1, <2>2
<1>4. \E m \in i..(Last(r) + 1) : Is(m)
  BY <1>2, <1>3
<1>5. /\ Is(CHOOSE m \in i..(Last(r) + 1) : Is(m))
      /\ (CHOOSE m \in i..(Last(r) + 1) : Is(m)) \in i..(Last(r) + 1)
  <2> HIDE DEF Is
  <2> QED
    BY <1>4
<1> QED
  BY <1>5 DEF NextExclusive

-----------------------------------------------------------------------------
(* The types *)

\* Where the worker is: the points it has not come to have no list and no tasks; it
\* is at a point with actions to stop for when it says so, and nothing there has begun
\* before the robot stands; the foreground of its point runs while it acts and no other
\* does, and the background of a point begins when it leaves it.
PlaceInv ==
  /\ worker = "moving" /\ next <= N => list[next] = <<>>
  /\ \A p \in Points : p > next => list[p] = <<>>
  /\ worker \in {"stopping", "acting", "parked"} => next \in Points /\ LastBlocker(list[next]) > 0
  /\ worker = "acting" => ~residual /\ Running(Foreground(next))
  /\ worker = "stopping" => \A t \in Tasks : t[1] = next => task[t] = "none"
  /\ \A t \in Tasks : list[t[1]] = <<>> => task[t] = "none"
  /\ \A p \in Points : Running(Foreground(p)) => worker = "acting" /\ p = next
  /\ \A p \in Points : task[Background(p)] # "none" => p < next

\* A runner that runs an exclusive action, or is about to, is at an entry of its own.
EntryInv ==
  \A r \in Runners : frame[r].mode \in {"before", "inside"} => frame[r].at \in First(r)..Last(r)

TypeInv == TypeOK /\ PlaceInv /\ EntryInv

\* The entries from i to before j, of which a runner makes tasks together
Batch(r, i, j) == {<<r[1], k>> : k \in i..(j - 1)}

\* What Stretch does, with the entries it comes from and goes to
StretchTo(r, i, j) ==
  /\ frame[r].mode \in {"barriers", "inside"} /\ Released(r)
  /\ i = IF frame[r].mode = "barriers" THEN First(r) ELSE frame[r].at + 1
  /\ Batch(r, i, j) \subseteq Own(r)
  /\ \A a \in Own(r) : a \in Batch(r, i, j) <=> i <= a[2] /\ a[2] < j
  /\ \A a \in Batch(r, i, j) : ~IsExclusive(TypeOf(a))
  /\ j <= Last(r) => <<r[1], j>> \in Own(r) /\ IsExclusive(TypeOf(<<r[1], j>>))
  /\ task' = [t \in Tasks |-> IF t \in Batch(r, i, j) THEN "live" ELSE task[t]]
  /\ j <= Last(r) =>
       frame' = [frame EXCEPT ![r] = Await("before", j, frame[r].prior \cup Batch(r, i, j), {})]
  /\ j > Last(r) =>
       frame' = [frame EXCEPT ![r] =
                   Await("last", j, IF IsForeground(r)
                                    THEN {a \in Batch(r, i, j) : TypeOf(a) = "SOFT"}
                                    ELSE Batch(r, i, j), frame[r].prior)]
  /\ UNCHANGED <<list, next, worker, residual, tracked, cancelVars>>

\* Stretch, with the choice of its end made explicit
LEMMA StretchIs ==
  ASSUME TypeInv, NEW r \in Runners, Stretch(r)
  PROVE  \E i \in First(r)..(Last(r) + 1) : \E j \in i..(Last(r) + 1) : StretchTo(r, i, j)
<1>0. ListOK
  BY TypeParts DEF TypeInv
<1>1. First(r) \in Nat /\ Last(r) \in Nat /\ First(r) <= Last(r) + 1
  BY <1>0, EntryIs, ActionSchedulerAssumption
<1> DEFINE i == IF frame[r].mode = "barriers" THEN First(r) ELSE frame[r].at + 1
           j == NextExclusive(r, i)
<1>2. frame[r].mode \in {"barriers", "inside"} /\ Released(r)
  BY DEF Stretch
<1>3. i \in First(r)..(Last(r) + 1)
  BY <1>1, <1>2 DEF TypeInv, EntryInv
<1>4. /\ j \in i..(Last(r) + 1)
      /\ j <= Last(r) => IsExclusive(TypeOf(<<r[1], j>>))
      /\ \A k \in i..(j - 1) : ~IsExclusive(TypeOf(<<r[1], k>>))
  <2> HIDE DEF i
  <2> QED
    BY <1>0, <1>3, NextExclusiveIs
<1>5. /\ task' = [t \in Tasks |-> IF t \in Batch(r, i, j) THEN "live" ELSE task[t]]
      /\ frame' = [frame EXCEPT ![r] =
             IF j <= Last(r) THEN Await("before", j, frame[r].prior \cup Batch(r, i, j), {})
             ELSE Await("last", j, IF IsForeground(r)
                                   THEN {a \in Batch(r, i, j) : TypeOf(a) = "SOFT"}
                                   ELSE Batch(r, i, j), frame[r].prior)]
      /\ UNCHANGED <<list, next, worker, residual, tracked, cancelVars>>
  BY DEF Stretch, Batch
<1> HIDE DEF i, j
<1>6. Batch(r, i, j) \subseteq Own(r)
  BY <1>0, <1>1, <1>3, <1>4, EntryIs DEF Batch
<1>7. \A a \in Own(r) : a \in Batch(r, i, j) <=> i <= a[2] /\ a[2] < j
  <2> TAKE a \in Own(r)
  <2>1. a = <<r[1], a[2]>> /\ a[2] \in First(r)..Last(r)
    BY <1>0, EntryIs
  <2>2. a \in Batch(r, i, j) => i <= a[2] /\ a[2] < j
    BY <1>1, <1>3, <1>4 DEF Batch
  <2>3. i <= a[2] /\ a[2] < j => a[2] \in i..(j - 1)
    BY <1>1, <1>3, <1>4, <2>1
  <2> QED
    BY <2>1, <2>2, <2>3 DEF Batch
<1>8. j <= Last(r) => <<r[1], j>> \in Own(r)
  BY <1>0, <1>1, <1>3, <1>4, EntryIs
<1>9. j > Last(r) => ~(j <= Last(r))
  BY <1>1, <1>3, <1>4
<1>10. \A a \in Batch(r, i, j) : ~IsExclusive(TypeOf(a))
  BY <1>4 DEF Batch
<1>11. i = IF frame[r].mode = "barriers" THEN First(r) ELSE frame[r].at + 1
  BY DEF i
<1> QED
  BY <1>2, <1>3, <1>4, <1>5, <1>6, <1>7, <1>8, <1>9, <1>10, <1>11 DEF StretchTo

\* With the lists, what is said of them stays the same.
LEMMA SameLists ==
  ASSUME UNCHANGED list
  PROVE  /\ Listed' = Listed
         /\ \A a : TypeOf(a)' = TypeOf(a) /\ Owner(a)' = Owner(a)
         /\ \A r : First(r)' = First(r) /\ Last(r)' = Last(r) /\ Own(r)' = Own(r)
  BY DEF Listed, TypeOf, Owner, First, Last, Own

\* An await has the shape of a frame.
LEMMA AwaitIs ==
  ASSUME NEW mode \in {"none", "barriers", "before", "inside", "last"},
         NEW at \in 0..(MaxActions + 1), NEW wait \in SUBSET Tasks, NEW prior \in SUBSET Tasks
  PROVE  /\ Await(mode, at, wait, prior) \in Frames
         /\ Await(mode, at, wait, prior).mode = mode /\ Await(mode, at, wait, prior).at = at
         /\ Await(mode, at, wait, prior).wait = wait /\ Await(mode, at, wait, prior).prior = prior
  BY DEF Await, Frames

\* What a runner awaits when it begins
LEMMA BeginIs ==
  ASSUME NEW S \in SUBSET Tasks
  PROVE  /\ Begin(S) \in Frames /\ Begin(S).mode = "barriers"
         /\ Begin(S).wait = Exclusives(S) /\ Begin(S).prior = S \ Exclusives(S)
         /\ Exclusives(S) \subseteq S
<1>1. Exclusives(S) \subseteq S
  BY DEF Exclusives
<1>2. 0 \in 0..(MaxActions + 1)
  BY ActionSchedulerAssumption
<1> HIDE DEF Exclusives
<1> QED
  BY <1>1, <1>2, AwaitIs DEF Begin

\* A runner that is not under way awaits nothing.
LEMMA NoFrameIs == NoFrame \in Frames /\ NoFrame.mode = "none" /\ NoFrame.wait = {} /\ NoFrame.prior = {}
<1>1. 0 \in 0..(MaxActions + 1)
  BY ActionSchedulerAssumption
<1> QED
  BY <1>1, AwaitIs DEF NoFrame

TaskStates == {"none", "live", "cancelling"} \cup Over

\* A runner gets another frame while the lists stay.
LEMMA FrameSet ==
  ASSUME FrameOK, EntryInv, UNCHANGED list, NEW r \in Runners, NEW f \in Frames,
         frame' = [frame EXCEPT ![r] = f],
         f.mode \in {"before", "inside"} => f.at \in First(r)..Last(r)
  PROVE  FrameOK' /\ EntryInv'
<1>1. FrameOK'
  BY DEF FrameOK
<1>2. ASSUME NEW q \in Runners, frame'[q].mode \in {"before", "inside"}
      PROVE  frame'[q].at \in First(q)'..Last(q)'
  <2>1. First(q)' = First(q) /\ Last(q)' = Last(q)
    BY SameLists
  <2>2. frame'[q] = IF q = r THEN f ELSE frame[q]
    BY DEF FrameOK
  <2> QED
    BY <1>2, <2>1, <2>2 DEF EntryInv
<1> QED
  BY <1>1, <1>2 DEF EntryInv

\* Entries stay within their lists when lists and frames stay.
LEMMA SameEntries ==
  ASSUME EntryInv, UNCHANGED <<list, frame>>
  PROVE  EntryInv'
<1>1. \A q \in Runners : First(q)' = First(q) /\ Last(q)' = Last(q)
  BY SameLists
<1> QED
  BY <1>1 DEF EntryInv

\* What the creation of a background task does to the shapes
LEMMA ScheduleTypes ==
  ASSUME NEW p \in Points, NEW background \in SUBSET Tasks,
         NEW tasks \in [Tasks -> TaskStates], NEW frames \in [Runners -> Frames],
         Schedule(p, background, tasks, frames)
  PROVE  /\ TaskOK' /\ FrameOK' /\ tracked' \subseteq Tasks
         /\ frame' = [frames EXCEPT ![Background(p)] = Begin(background)]
         /\ frame'[Background(p)].mode = "barriers"
<1>1. Background(p) \in Runners /\ Background(p) \in Tasks
  BY TaskKinds
<1>2. Begin(background) \in Frames /\ Begin(background).mode = "barriers"
  BY BeginIs
<1>3. TaskOK'
  BY <1>1 DEF Schedule, TaskOK, TaskStates
<1>4. frame' = [frames EXCEPT ![Background(p)] = Begin(background)] /\ tracked' \subseteq Tasks
  BY <1>1 DEF Schedule
<1> QED
  BY <1>1, <1>2, <1>3, <1>4 DEF FrameOK

\* Every step keeps the types.
LEMMA TypeStep ==
  ASSUME TypeInv, [Next]_vars
  PROVE  TypeOK' /\ EntryInv'
<1>0. /\ ListOK /\ WorkerOK /\ TaskOK /\ FrameOK /\ SetsOK /\ PlaceInv /\ EntryInv
      /\ N \in Nat /\ next \in Nat /\ MaxActions \in Nat
  BY TypeParts, ActionSchedulerAssumption DEF TypeInv, ListOK
<1> DEFINE Goal == ListOK' /\ WorkerOK' /\ TaskOK' /\ FrameOK' /\ SetsOK' /\ EntryInv'
<1> SUFFICES Goal
  BY DEF TypeOK, ListOK, WorkerOK, TaskOK, FrameOK, Frames, SetsOK
<1>1. ASSUME NEW r \in Runners, RunnerStep(r)
      PROVE  Goal
  <2>0. /\ frame[r] \in Frames /\ frame[r].wait \subseteq Tasks /\ frame[r].prior \subseteq Tasks
        /\ frame[r].at \in 0..(MaxActions + 1) /\ r \in Tasks /\ Last(r) \in 0..MaxActions
    BY <1>0, TaskKinds, EntryIs DEF FrameOK, Frames
  <2>1. CASE Stretch(r)
    <3>1. PICK i \in First(r)..(Last(r) + 1) : \E j \in i..(Last(r) + 1) : StretchTo(r, i, j)
      BY <2>1, StretchIs
    <3>1a. PICK j \in i..(Last(r) + 1) : StretchTo(r, i, j)
      BY <3>1
    <3>2. j \in 0..(MaxActions + 1) /\ (j <= Last(r) => j \in First(r)..Last(r))
      BY <1>0, <2>0, EntryIs
    <3>3. Batch(r, i, j) \subseteq Tasks
      BY <1>0, <3>1a, OwnerIs, TaskKinds DEF StretchTo, Own
    <3>4. TaskOK' /\ ListOK' /\ WorkerOK' /\ SetsOK'
      BY <1>0, <3>1a, <3>3
      DEF StretchTo, TaskOK, ListOK, WorkerOK, SetsOK, cancelVars
    <3>5. \E f \in Frames : /\ frame' = [frame EXCEPT ![r] = f]
                            /\ f.mode \in {"before", "inside"} => f.at \in First(r)..Last(r)
      <4>1. CASE j <= Last(r)
        <5> DEFINE f == Await("before", j, frame[r].prior \cup Batch(r, i, j), {})
        <5>1. f \in Frames /\ f.at = j
          BY <2>0, <3>2, <3>3, AwaitIs
        <5> HIDE DEF f
        <5>2. frame' = [frame EXCEPT ![r] = f]
          BY <3>1a, <4>1 DEF StretchTo, f
        <5> QED
          BY <5>1, <5>2, <3>2, <4>1
      <4>2. CASE j > Last(r)
        <5> DEFINE w == IF IsForeground(r) THEN {a \in Batch(r, i, j) : TypeOf(a) = "SOFT"}
                                           ELSE Batch(r, i, j)
                   f == Await("last", j, w, frame[r].prior)
        <5>1. f \in Frames /\ f.mode = "last"
          <6>1. w \in SUBSET Tasks
            BY <3>3
          <6> HIDE DEF w
          <6> QED
            BY <2>0, <3>2, <6>1, AwaitIs
        <5>2. frame' = [frame EXCEPT ![r] = f]
          BY <3>1a, <4>2 DEF StretchTo
        <5> HIDE DEF f
        <5> QED
          BY <5>1, <5>2
      <4> QED
        BY <2>0, <3>2, <4>1, <4>2, ActionSchedulerAssumption
    <3>6. FrameOK' /\ EntryInv'
      BY <1>0, <3>1a, <3>5, FrameSet DEF StretchTo
    <3> QED
      BY <3>4, <3>6
  <2>2. CASE StartExclusive(r)
    <3> DEFINE a == <<r[1], frame[r].at>>
               f == Await("inside", a[2], {a}, {})
    <3>1. frame[r].at \in First(r)..Last(r)
      BY <1>0, <2>2 DEF StartExclusive, EntryInv
    <3>2. a \in Tasks
      BY <1>0, <3>1, EntryIs, OwnerIs, TaskKinds DEF Own
    <3>3. f \in Frames /\ f.at = frame[r].at
      BY <2>0, <3>2, AwaitIs
    <3>4. frame' = [frame EXCEPT ![r] = f] /\ UNCHANGED list
      BY <2>2 DEF StartExclusive
    <3>5. FrameOK' /\ EntryInv'
      <4> HIDE DEF f
      <4> QED
        BY <1>0, <3>1, <3>3, <3>4, FrameSet
    <3>6. TaskOK' /\ ListOK' /\ WorkerOK' /\ SetsOK'
      BY <1>0, <2>2 DEF StartExclusive, TaskOK, ListOK, WorkerOK, SetsOK, cancelVars
    <3> QED
      BY <3>5, <3>6
  <2>3. CASE EndBackground(r) \/ EndCancelled(r)
    <3>1. frame' = [frame EXCEPT ![r] = NoFrame] /\ UNCHANGED list
      BY <2>3 DEF EndBackground, EndCancelled
    <3>2. FrameOK' /\ EntryInv'
      BY <1>0, <3>1, FrameSet, NoFrameIs
    <3>3. TaskOK' /\ ListOK' /\ WorkerOK' /\ SetsOK'
      BY <1>0, <2>3
      DEF EndBackground, EndCancelled, EndTask, TaskOK, Over, ListOK, WorkerOK, SetsOK, cancelVars
    <3> QED
      BY <3>2, <3>3
  <2>4. CASE EndForeground(r)
    <3> DEFINE background == tracked \cup LeftRunning(r)
               tasks == [task EXCEPT ![r] = "ended"]
               frames == [frame EXCEPT ![r] = NoFrame]
    <3>1. /\ tasks \in [Tasks -> TaskStates] /\ frames \in [Runners -> Frames]
          /\ background \in SUBSET Tasks /\ r[1] \in Points
      BY <1>0, NoFrameIs, TaskKinds, OwnerIs
      DEF TaskOK, TaskStates, Over, FrameOK, SetsOK, LeftRunning
    <3>2. /\ UNCHANGED <<list, residual, cancelVars>> /\ worker' = "moving" /\ next' = next + 1
          /\ \/ Schedule(r[1], background, tasks, frames)
             \/ task' = tasks /\ frame' = frames /\ tracked' = background
      BY <2>4 DEF EndForeground
    <3>3. /\ TaskOK' /\ FrameOK' /\ tracked' \subseteq Tasks
          /\ \A q \in Runners : \/ frame'[q] = frame[q] \/ frame'[q].mode \in {"none", "barriers"}
      <4> HIDE DEF background, tasks
      <4>1. CASE Schedule(r[1], background, tasks, frames)
        <5>1. /\ TaskOK' /\ FrameOK' /\ tracked' \subseteq Tasks
              /\ frame' = [frames EXCEPT ![Background(r[1])] = Begin(background)]
              /\ frame'[Background(r[1])].mode = "barriers"
          <6> HIDE DEF frames
          <6> QED
            BY <3>1, <4>1, ScheduleTypes
        <5> QED
          BY <1>0, <5>1, NoFrameIs DEF FrameOK
      <4>2. CASE task' = tasks /\ frame' = frames /\ tracked' = background
        BY <1>0, <3>1, <4>2, NoFrameIs DEF TaskOK, TaskStates, FrameOK
      <4> QED
        BY <3>2, <4>1, <4>2
    <3>4. EntryInv'
      BY <1>0, <3>2, <3>3, SameLists DEF EntryInv
    <3>5. next \in Points
      BY <1>0, <2>4, TaskKinds DEF EndForeground, Released, PlaceInv, Running
    <3>6. ListOK' /\ WorkerOK' /\ SetsOK'
      BY <1>0, <3>2, <3>3, <3>5 DEF ListOK, WorkerOK, SetsOK, cancelVars, Points
    <3> QED
      BY <3>3, <3>4, <3>6
  <2> QED
    BY <1>1, <2>1, <2>2, <2>3, <2>4 DEF RunnerStep
<1>2. ASSUME NEW a \in Actions, EndAction(a)
      PROVE  Goal
  <2>1. TaskOK' /\ ListOK' /\ WorkerOK' /\ SetsOK' /\ FrameOK'
    BY <1>0, <1>2 DEF EndAction, EndTask, TaskOK, Over, ListOK, WorkerOK, SetsOK, FrameOK, cancelVars
  <2> QED
    BY <1>0, <1>2, <2>1, SameEntries DEF EndAction
<1>3. CASE Arrive
  <2>1. PICK l \in Lists :
          /\ list' = [list EXCEPT ![next] = l]
          /\ IF LastBlocker(l) > 0
             THEN /\ worker' = "stopping" /\ residual' \in BOOLEAN
                  /\ UNCHANGED <<next, task, frame, tracked>>
             ELSE /\ Schedule(next, tracked, task, frame)
                  /\ next' = next + 1
                  /\ UNCHANGED <<worker, residual>>
    BY <1>3 DEF Arrive
  <2>2. next \in Points /\ next' \in 1..(N + 1) /\ worker = "moving" /\ UNCHANGED cancelVars
    BY <1>0, <1>3, <2>1 DEF Arrive, ListOK, Points
  <2>3. ListOK' /\ WorkerOK'
    BY <1>0, <2>1, <2>2 DEF ListOK, WorkerOK
  <2>4. /\ TaskOK' /\ FrameOK' /\ tracked' \subseteq Tasks
        /\ \A q \in Runners : frame'[q] = frame[q] \/ frame'[q].mode = "barriers"
    <3>1. CASE LastBlocker(l) > 0
      BY <1>0, <2>1, <3>1 DEF TaskOK, FrameOK, SetsOK
    <3>2. CASE ~(LastBlocker(l) > 0)
      <4>1. Schedule(next, tracked, task, frame)
        BY <2>1, <3>2
      <4>2. /\ TaskOK' /\ FrameOK' /\ tracked' \subseteq Tasks
            /\ frame' = [frame EXCEPT ![Background(next)] = Begin(tracked)]
            /\ frame'[Background(next)].mode = "barriers"
        BY <1>0, <2>2, <4>1, ScheduleTypes DEF TaskOK, TaskStates, FrameOK, SetsOK
      <4> QED
        BY <1>0, <4>2 DEF FrameOK
    <3> QED
      BY <3>1, <3>2
  <2>5. EntryInv'
    <3> SUFFICES ASSUME NEW q \in Runners, frame'[q].mode \in {"before", "inside"}
                 PROVE  frame'[q].at \in First(q)'..Last(q)'
      BY DEF EntryInv
    <3>1. frame'[q] = frame[q] /\ frame[q].at \in First(q)..Last(q)
      BY <1>0, <2>4 DEF EntryInv
    <3>2. list[next] = <<>>
      BY <1>0, <2>2 DEF PlaceInv, Points
    <3>3. q[1] # next
      BY <1>0, <2>2, <3>1, <3>2, TaskKinds, PointList DEF First, Last
    <3>4. list'[q[1]] = list[q[1]]
      BY <1>0, <2>1, <3>3, TaskKinds DEF ListOK
    <3> QED
      BY <3>1, <3>4 DEF First, Last
  <2> QED
    BY <1>0, <2>2, <2>3, <2>4, <2>5 DEF SetsOK, cancelVars
<1>4. CASE StopForActions
  <2>1. Foreground(next) \in Runners /\ Foreground(next) \in Tasks
    BY <1>0, <1>4, TaskKinds DEF StopForActions, PlaceInv
  <2>2. Begin(tracked) \in Frames /\ Begin(tracked).mode = "barriers"
    BY <1>0, BeginIs DEF SetsOK
  <2>3. frame' = [frame EXCEPT ![Foreground(next)] = Begin(tracked)] /\ UNCHANGED list
    BY <1>4 DEF StopForActions
  <2>4. FrameOK' /\ EntryInv'
    BY <1>0, <2>1, <2>2, <2>3, FrameSet
  <2>5. TaskOK' /\ ListOK' /\ WorkerOK' /\ SetsOK'
    BY <1>0, <1>4, <2>1 DEF StopForActions, TaskOK, ListOK, WorkerOK, SetsOK, cancelVars
  <2> QED
    BY <2>4, <2>5
<1>5. CASE StopFails
  <2>1. TaskOK' /\ ListOK' /\ WorkerOK' /\ SetsOK' /\ FrameOK'
    BY <1>0, <1>5 DEF StopFails, TaskOK, Over, ListOK, WorkerOK, SetsOK, FrameOK, cancelVars
  <2> QED
    BY <1>0, <1>5, <2>1, SameEntries DEF StopFails
<1>6. CASE Restart \/ CompleteOrder \/ NewOrder \/ FinishCancel
  <2>0. next \in 1..(N + 1) /\ (worker = "parked" => next \in 1..N)
    BY <1>0 DEF PlaceInv, Points, ListOK
  <2>1. UNCHANGED <<list, task, frame>> /\ next' \in 1..(N + 1)
    <3>1. CASE Restart
      BY <1>0, <2>0, <3>1 DEF Restart
    <3>2. CASE NewOrder
      BY <1>0, <2>0, <3>2 DEF NewOrder
    <3>3. CASE CompleteOrder \/ FinishCancel
      BY <1>0, <2>0, <3>3 DEF CompleteOrder, FinishCancel
    <3> QED
      BY <1>6, <3>1, <3>2, <3>3
  <2>2. TaskOK' /\ ListOK' /\ WorkerOK' /\ SetsOK' /\ FrameOK'
    BY <1>0, <1>6, <2>1
    DEF Restart, CompleteOrder, NewOrder, FinishCancel, TaskOK, ListOK, WorkerOK, SetsOK, FrameOK, cancelVars
  <2> QED
    BY <1>0, <2>1, <2>2, SameEntries
<1>7. CASE CancelOrder
  <2>1. \E S : CancelTasks(S)
    BY <1>7 DEF CancelOrder
  <2>2. TaskOK'
    BY <1>0, <2>1 DEF CancelTasks, TaskOK
  <2>3. ListOK' /\ WorkerOK' /\ SetsOK' /\ FrameOK' /\ UNCHANGED <<list, frame>>
    BY <1>0, <1>7 DEF CancelOrder, ListOK, WorkerOK, SetsOK, FrameOK
  <2> QED
    BY <1>0, <2>2, <2>3, SameEntries
<1>8. CASE UNCHANGED vars
  <2>1. TaskOK' /\ ListOK' /\ WorkerOK' /\ SetsOK' /\ FrameOK' /\ UNCHANGED <<list, frame>>
    BY <1>0, <1>8 DEF vars, cancelVars, TaskOK, ListOK, WorkerOK, SetsOK, FrameOK
  <2> QED
    BY <1>0, <2>1, SameEntries
<1> HIDE DEF Goal
<1> QED
  BY <1>1, <1>2, <1>3, <1>4, <1>5, <1>6, <1>7, <1>8 DEF Next

\* A step that takes the worker to no other point: what begins has been listed, a
\* background task does not, and no foreground but that of an acting worker runs.
LEMMA PlaceKeeps ==
  ASSUME TypeInv, UNCHANGED <<list, next>>,
         worker' = "moving" => worker = "moving",
         worker' \in {"stopping", "acting", "parked"} => worker \in {"stopping", "acting", "parked"},
         worker' = "stopping" => worker = "stopping",
         worker' = "acting" => ~residual' /\ Running(Foreground(next))',
         \A t \in Tasks : task[t] = "none" /\ task'[t] # "none" =>
           /\ list[t[1]] # <<>> /\ \A p \in Points : t # Background(p)
           /\ worker' = "stopping" => t[1] # next,
         \A p \in Points : Running(Foreground(p))' => worker' = "acting" /\ p = next
  PROVE  PlaceInv'
<1>1. PlaceInv /\ \A p \in Points : Background(p) \in Tasks
  BY TaskKinds DEF TypeInv
<1>2. \A t \in Tasks : list'[t[1]] = <<>> => task'[t] = "none"
  BY <1>1 DEF PlaceInv
<1>3. worker' = "stopping" => \A t \in Tasks : t[1] = next' => task'[t] = "none"
  BY <1>1 DEF PlaceInv
<1>4. \A p \in Points : task'[Background(p)] # "none" => p < next'
  BY <1>1 DEF PlaceInv
<1>5. worker' = "acting" => ~residual' /\ Running(Foreground(next))'
  OBVIOUS
<1>6. \A p \in Points : Running(Foreground(p))' => worker' = "acting" /\ p = next'
  OBVIOUS
<1>7. worker' \in {"stopping", "acting", "parked"} =>
        next' \in Points /\ LastBlocker(list'[next']) > 0
  BY <1>1 DEF PlaceInv
<1>8. /\ worker' = "moving" /\ next' <= N => list'[next'] = <<>>
      /\ \A p \in Points : p > next' => list'[p] = <<>>
  BY <1>1 DEF PlaceInv
<1> QED
  BY <1>2, <1>3, <1>4, <1>5, <1>6, <1>7, <1>8 DEF PlaceInv

\* The tasks of a runner that runs have a list behind them.
LEMMA RunnersListed ==
  ASSUME TypeInv, NEW r \in Runners, task[r] # "none"
  PROVE  list[r[1]] # <<>>
  BY TaskKinds DEF TypeInv, PlaceInv

\* The background of a point begins as the worker leaves it.
LEMMA PlaceLeaves ==
  ASSUME TypeInv, worker' = "moving", next' = next + 1, next \in Points,
         \A p \in Points : p # next => list'[p] = list[p],
         list'[next] # <<>>,
         \A t \in Tasks : task[t] = "none" /\ task'[t] # "none" => t = Background(next),
         \A p \in Points : ~Running(Foreground(p))'
  PROVE  PlaceInv'
<1>1. /\ PlaceInv /\ N \in Nat /\ next \in Nat /\ Background(next)[1] = next
      /\ \A p \in Points : Background(p) \in Tasks /\ Background(p)[1] = p
      /\ \A t \in Tasks : t[1] \in Points
  BY TaskKinds, ActionSchedulerAssumption DEF TypeInv, Points
<1>2. \A t \in Tasks : list'[t[1]] = <<>> => task'[t] = "none"
  BY <1>1 DEF PlaceInv
<1>3. \A p \in Points : task'[Background(p)] # "none" => p < next'
  BY <1>1 DEF PlaceInv, Points
<1>4. /\ next' <= N => list'[next'] = <<>>
      /\ \A p \in Points : p > next' => list'[p] = <<>>
  BY <1>1 DEF PlaceInv, Points
<1> QED
  BY <1>2, <1>3, <1>4 DEF PlaceInv

\* Every step keeps it: the worker comes to the points one after the other.
LEMMA PlaceStep ==
  ASSUME TypeInv, TypeOK', [Next]_vars
  PROVE  PlaceInv'
<1>0. /\ ListOK /\ WorkerOK /\ TaskOK /\ FrameOK /\ SetsOK /\ PlaceInv /\ EntryInv
      /\ N \in Nat /\ next \in Nat /\ MaxActions \in Nat
  BY TypeParts, ActionSchedulerAssumption DEF TypeInv, ListOK
<1>0a. /\ \A p \in Points : /\ Foreground(p) \in Runners /\ Background(p) \in Runners
                            /\ Foreground(p)[1] = p /\ Background(p)[1] = p
                            /\ \A q \in Points : Foreground(p) # Background(q)
       /\ \A a \in Actions : a \notin Runners /\ a \in Tasks
       /\ \A r \in Runners : r \in Tasks /\ r[1] \in Points
       /\ worker = "acting" => next \in Points
  BY <1>0, TaskKinds DEF PlaceInv
<1>1. ASSUME NEW r \in Runners, RunnerStep(r)
      PROVE  PlaceInv'
  <2>1. CASE Stretch(r)
    <3>1. PICK i \in First(r)..(Last(r) + 1) : \E j \in i..(Last(r) + 1) : StretchTo(r, i, j)
      BY <2>1, StretchIs
    <3>2. PICK j \in i..(Last(r) + 1) : StretchTo(r, i, j)
      BY <3>1
    <3>3. \A a \in Batch(r, i, j) : a \in Actions /\ a[1] = r[1]
      BY <1>0, <3>2, OwnerIs DEF StretchTo, Own
    <3>4. list[r[1]] # <<>> /\ (worker = "stopping" => r[1] # next) /\ task[r] = "live"
      BY <1>0, <1>0a, <3>2, RunnersListed DEF StretchTo, Released, PlaceInv
    <3>5. \A t \in Tasks : task[t] = "none" /\ task'[t] # "none" => t \in Batch(r, i, j)
      BY <1>0, <3>2 DEF StretchTo
    <3>6. \A q \in Runners : task'[q] = task[q]
      BY <1>0, <1>0a, <3>2, <3>3 DEF StretchTo
    <3>7. UNCHANGED <<list, next, worker, residual>>
      BY <3>2 DEF StretchTo
    <3> QED
      BY <1>0, <1>0a, <3>3, <3>4, <3>5, <3>6, <3>7, PlaceKeeps DEF PlaceInv, Running
  <2>2. CASE StartExclusive(r)
    <3> DEFINE a == <<r[1], frame[r].at>>
    <3>1. a \in Own(r) /\ task[r] = "live"
      BY <1>0, <2>2, EntryIs DEF StartExclusive, EntryInv, Released
    <3>2. a \in Actions /\ a[1] = r[1]
      BY <1>0, <3>1, OwnerIs DEF Own
    <3>3. list[r[1]] # <<>> /\ (worker = "stopping" => r[1] # next)
      BY <1>0, <1>0a, <3>1, RunnersListed DEF PlaceInv
    <3>4. task' = [task EXCEPT ![a] = "live"] /\ UNCHANGED <<list, next, worker, residual>>
      BY <2>2 DEF StartExclusive
    <3> HIDE DEF a
    <3>5. /\ \A t \in Tasks : task[t] = "none" /\ task'[t] # "none" => t = a
          /\ \A q \in Runners : task'[q] = task[q]
      BY <1>0, <1>0a, <3>2, <3>4 DEF TaskOK
    <3> QED
      BY <1>0, <1>0a, <3>2, <3>3, <3>4, <3>5, PlaceKeeps DEF PlaceInv, Running
  <2>3. CASE EndBackground(r)
    <3>1. /\ UNCHANGED <<list, next, worker, residual>> /\ task' = [task EXCEPT ![r] = "ended"]
          /\ task[r] = "live" /\ ~IsForeground(r)
      BY <2>3 DEF EndBackground, EndTask, Released
    <3>2. \A p \in Points : Foreground(p) # r
      BY <3>1, TaskKinds
    <3>3. /\ \A t \in Tasks : task[t] = "none" => task'[t] = "none"
          /\ \A p \in Points : task'[Foreground(p)] = task[Foreground(p)]
      BY <1>0, <1>0a, <3>1, <3>2 DEF TaskOK
    <3> QED
      BY <1>0, <1>0a, <3>1, <3>3, PlaceKeeps DEF PlaceInv, Running
  <2>4. CASE EndCancelled(r)
    <3>1. /\ UNCHANGED <<list, next, residual>> /\ task' = [task EXCEPT ![r] = "cancelled"]
          /\ worker' = IF IsForeground(r) THEN "dead" ELSE worker
          /\ task[r] # "none" /\ Running(r)
      BY <2>4 DEF EndCancelled, EndTask, Broken, Running
    <3>2. /\ \A t \in Tasks : task[t] = "none" => task'[t] = "none"
          /\ \A q \in Runners : q # r => task'[q] = task[q]
          /\ task'[r] = "cancelled"
      BY <1>0, <1>0a, <3>1 DEF TaskOK
    <3>3. CASE IsForeground(r)
      <4>1. r = Foreground(r[1]) /\ worker = "acting" /\ r[1] = next
        BY <1>0, <1>0a, <3>1, <3>3, TaskKinds DEF PlaceInv
      <4>2. \A p \in Points : ~Running(Foreground(p))'
        BY <1>0, <1>0a, <3>2, <4>1 DEF PlaceInv, Running
      <4> QED
        BY <1>0, <3>1, <3>2, <3>3, <4>2, PlaceKeeps
    <3>4. CASE ~IsForeground(r)
      <4>1. \A p \in Points : task'[Foreground(p)] = task[Foreground(p)]
        BY <1>0a, <3>2, <3>4, TaskKinds
      <4> QED
        BY <1>0, <1>0a, <3>1, <3>2, <3>4, <4>1, PlaceKeeps DEF PlaceInv, Running
    <3> QED
      BY <3>3, <3>4
  <2>5. CASE EndForeground(r)
    <3>1. /\ task[r] = "live" /\ r = Foreground(next) /\ worker = "acting" /\ next \in Points /\ r[1] = next
      BY <1>0, <1>0a, <2>5, TaskKinds DEF EndForeground, Released, PlaceInv, Running
    <3>2. list[next] # <<>>
      BY <1>0a, <3>1, RunnersListed
    <3>3. /\ worker' = "moving" /\ next' = next + 1 /\ UNCHANGED list
          /\ \/ task' = [task EXCEPT ![r] = "ended"]
             \/ task' = [[task EXCEPT ![r] = "ended"] EXCEPT ![Background(next)] = "live"]
      BY <2>5, <3>1 DEF EndForeground, Schedule
    <3>4. /\ \A t \in Tasks : task[t] = "none" /\ task'[t] # "none" => t = Background(next)
          /\ \A p \in Points : p # next => task'[Foreground(p)] = task[Foreground(p)]
          /\ task'[Foreground(next)] = "ended"
      BY <1>0, <1>0a, <3>1, <3>3, TaskKinds DEF TaskOK
    <3>5. \A p \in Points : ~Running(Foreground(p))'
      BY <1>0, <3>1, <3>4 DEF PlaceInv, Running
    <3> QED
      BY <3>1, <3>2, <3>3, <3>4, <3>5, PlaceLeaves
  <2> QED
    BY <1>1, <2>1, <2>2, <2>3, <2>4, <2>5 DEF RunnerStep
<1>2. ASSUME NEW a \in Actions, EndAction(a)
      PROVE  PlaceInv'
  <2>1. /\ UNCHANGED <<list, next, worker, residual>> /\ task[a] # "none"
        /\ \E o \in TaskStates \ {"none"} : task' = [task EXCEPT ![a] = o]
    BY <1>2 DEF EndAction, EndTask, TaskStates, Over, Running
  <2>2. /\ \A t \in Tasks : task[t] = "none" => task'[t] = "none"
        /\ \A q \in Runners : task'[q] = task[q]
    BY <1>0, <1>0a, <2>1 DEF TaskOK
  <2> QED
    BY <1>0, <1>0a, <2>1, <2>2, PlaceKeeps DEF PlaceInv, Running
<1>3. CASE Arrive
  <2>1. PICK l \in Lists :
          /\ list' = [list EXCEPT ![next] = l]
          /\ IF LastBlocker(l) > 0
             THEN /\ worker' = "stopping" /\ residual' \in BOOLEAN
                  /\ UNCHANGED <<next, task, frame, tracked>>
             ELSE /\ Schedule(next, tracked, task, frame)
                  /\ next' = next + 1
                  /\ UNCHANGED <<worker, residual>>
    BY <1>3 DEF Arrive
  <2>2. next \in Points /\ worker = "moving"
    BY <1>0, <1>3 DEF Arrive, ListOK, Points
  <2>3. list'[next] = l /\ \A p \in Points : p # next => list'[p] = list[p]
    BY <1>0, <2>1, <2>2 DEF ListOK
  <2>4. /\ list[next] = <<>> /\ \A t \in Tasks : t[1] = next => task[t] = "none"
        /\ \A p \in Points : ~Running(Foreground(p))
    BY <1>0, <1>0a, <2>2 DEF PlaceInv, Points
  <2>5. CASE LastBlocker(l) > 0
    <3>1. worker' = "stopping" /\ UNCHANGED <<next, task>>
      BY <2>1, <2>5
    <3>2. \A t \in Tasks : list'[t[1]] = <<>> => task'[t] = "none"
      BY <1>0, <2>3, <2>4, <3>1, TaskKinds DEF PlaceInv
    <3>3. \A p \in Points : ~Running(Foreground(p))'
      BY <2>4, <3>1 DEF Running
    <3>4. \A p \in Points : p > next' => list'[p] = <<>>
      BY <1>0, <2>2, <2>3, <3>1 DEF PlaceInv
    <3> QED
      BY <1>0, <2>2, <2>3, <2>4, <2>5, <3>1, <3>2, <3>3, <3>4 DEF PlaceInv
  <2>6. CASE ~(LastBlocker(l) > 0)
    <3>1. /\ task' = [task EXCEPT ![Background(next)] = "live"]
          /\ next' = next + 1 /\ worker' = "moving"
      BY <2>1, <2>2, <2>6 DEF Schedule
    <3>2. l # <<>>
      BY ActionSchedulerAssumption
    <3>3. /\ \A t \in Tasks : task[t] = "none" /\ task'[t] # "none" => t = Background(next)
          /\ \A p \in Points : task'[Foreground(p)] = task[Foreground(p)]
      BY <1>0, <1>0a, <2>2, <3>1 DEF TaskOK
    <3>4. \A p \in Points : ~Running(Foreground(p))'
      BY <2>4, <3>3 DEF Running
    <3> QED
      BY <2>2, <2>3, <3>1, <3>2, <3>3, <3>4, PlaceLeaves
  <2> QED
    BY <2>5, <2>6
<1>4. CASE StopForActions
  <2>1. /\ worker = "stopping" /\ worker' = "acting" /\ residual' = FALSE
        /\ task' = [task EXCEPT ![Foreground(next)] = "live"] /\ UNCHANGED <<list, next>>
        /\ next \in Points /\ LastBlocker(list[next]) > 0
    BY <1>0, <1>4 DEF StopForActions, PlaceInv
  <2>2. list[next] # <<>>
    BY <1>0, <2>1, PointList
  <2>3. /\ \A t \in Tasks : t # Foreground(next) => task'[t] = task[t]
        /\ task'[Foreground(next)] = "live"
    BY <1>0, <1>0a, <2>1 DEF TaskOK
  <2>4. \A p \in Points : Running(Foreground(p))' => p = next
    BY <1>0, <1>0a, <2>1, <2>3 DEF PlaceInv, Running
  <2>5. Running(Foreground(next))'
    BY <2>1, <2>3 DEF Running
  <2> QED
    BY <1>0a, <2>1, <2>2, <2>3, <2>4, <2>5, PlaceKeeps
<1>5. CASE StopFails
  <2>1. /\ worker = "stopping" /\ worker' = "parked" /\ UNCHANGED <<list, next>>
        /\ task' = [t \in Tasks |->
                IF t \notin Listed \/ t[1] # next THEN task[t]
                ELSE IF StopsDriving(TypeOf(t)) THEN "ended" ELSE "skipped"]
    BY <1>5 DEF StopFails
  <2>2. next \in Points /\ list[next] # <<>>
    BY <1>0, <2>1, PointList DEF PlaceInv
  <2>3. /\ \A q \in Runners : task'[q] = task[q]
        /\ \A t \in Tasks : task'[t] # task[t] => t[1] = next
    BY <1>0, <1>0a, <2>1, OwnerIs
  <2>4. \A p \in Points : ~Running(Foreground(p))'
    BY <1>0, <1>0a, <2>1, <2>3 DEF PlaceInv, Running
  <2> QED
    BY <1>0a, <2>1, <2>2, <2>3, <2>4, PlaceKeeps
<1>6. CASE Restart \/ NewOrder
  <2>1. UNCHANGED <<list, task>> /\ worker' = "moving" /\ worker # "acting"
    BY <1>6 DEF Restart, NewOrder
  <2>2. next' \in Nat /\ next <= next' /\ (next' <= N => list[next'] = <<>>)
    <3>1. \A p \in 1..N : p > next => list[p] = <<>>
      BY <1>0 DEF PlaceInv, Points
    <3>2. CASE next' = next + 1
      BY <1>0, <3>1, <3>2
    <3>3. CASE next' # next + 1
      BY <1>0, <1>6, <3>3 DEF Restart, NewOrder
    <3> QED
      BY <3>2, <3>3
  <2>3. \A p \in Points : ~Running(Foreground(p))'
    BY <1>0, <2>1 DEF PlaceInv, Running
  <2>4. \A p \in Points : p > next' => list'[p] = <<>>
    BY <1>0, <2>1, <2>2 DEF PlaceInv, Points
  <2>5. \A p \in Points : task'[Background(p)] # "none" => p < next'
    BY <1>0, <2>1, <2>2 DEF PlaceInv, Points
  <2>6. \A t \in Tasks : list'[t[1]] = <<>> => task'[t] = "none"
    BY <1>0, <2>1 DEF PlaceInv
  <2> QED
    BY <2>1, <2>2, <2>3, <2>4, <2>5, <2>6 DEF PlaceInv
<1>7. CASE CompleteOrder \/ FinishCancel \/ UNCHANGED vars
  <2>1. /\ UNCHANGED <<list, next, task>>
        /\ worker' = worker \/ (worker = "moving" /\ worker' = "done")
        /\ residual' \in {FALSE, residual}
    BY <1>7 DEF CompleteOrder, FinishCancel, vars
  <2>2. worker' = "acting" => ~residual' /\ Running(Foreground(next))'
    BY <1>0, <2>1 DEF PlaceInv, Running
  <2>3. \A p \in Points : Running(Foreground(p))' => worker' = "acting" /\ p = next
    BY <1>0, <2>1 DEF PlaceInv, Running
  <2> QED
    BY <2>1, <2>2, <2>3, PlaceKeeps
<1>8. CASE CancelOrder
  <2>1. /\ UNCHANGED <<list, next>>
        /\ worker' = IF worker \in {"moving", "stopping", "parked"} THEN "dead" ELSE worker
        /\ residual' = (residual \/ worker = "moving")
        /\ CancelTasks(tracked \cup {r \in Runners : IsForeground(r) /\ Running(r)})
    BY <1>8 DEF CancelOrder
  <2>2. \A t \in Tasks : task'[t] = task[t] \/ (task[t] = "live" /\ task'[t] = "cancelling")
    BY <2>1 DEF CancelTasks
  <2>3. \A p \in Points : Running(Foreground(p))' <=> Running(Foreground(p))
    BY <1>0a, <2>2 DEF Running
  <2>4. worker = "acting" => Running(Foreground(next))'
    BY <1>0, <1>0a, <2>1, <2>3 DEF PlaceInv, Running
  <2>5. \A p \in Points : Running(Foreground(p))' => worker' = "acting" /\ p = next
    BY <1>0, <2>1, <2>3 DEF PlaceInv
  <2>6. \A t \in Tasks : task[t] = "none" => task'[t] = "none"
    BY <2>2
  <2> QED
    BY <1>0, <2>1, <2>4, <2>5, <2>6, PlaceKeeps DEF PlaceInv, WorkerOK
<1> QED
  BY <1>1, <1>2, <1>3, <1>4, <1>5, <1>6, <1>7, <1>8 DEF Next

\* No point has a list at first.
LEMMA TypeInit ==
  ASSUME Init
  PROVE  TypeInv
<1>0. N \in Nat \ {0} /\ MaxActions \in Nat /\ \A p \in Points : Foreground(p) \in Tasks /\ Background(p) \in Tasks
  BY TaskKinds, ActionSchedulerAssumption
<1>1. TypeOK
  <2>1. ListOK /\ WorkerOK /\ SetsOK
    <3>1. 1 \in 1..(N + 1)
      BY <1>0
    <3>2. ListOK
      BY <3>1 DEF Init, ListOK
    <3>3. WorkerOK
      BY DEF Init, WorkerOK
    <3> QED
      BY <3>2, <3>3 DEF Init, SetsOK
  <2>2. TaskOK
    BY DEF Init, TaskOK
  <2>3. FrameOK
    <3>1. frame = [r \in Runners |-> NoFrame] /\ NoFrame \in Frames
      BY NoFrameIs DEF Init
    <3> HIDE DEF NoFrame
    <3> QED
      BY <3>1 DEF FrameOK
  <2> QED
    BY <2>1, <2>2, <2>3, TypeParts
<1>2. PlaceInv
  BY <1>0, TaskKinds DEF Init, PlaceInv, Running, Points
<1>3. EntryInv
  BY NoFrameIs DEF Init, EntryInv
<1> QED
  BY <1>1, <1>2, <1>3 DEF TypeInv

\* The lists, the tasks, the awaits and the sets of the scheduler keep their types: in
\* particular a runner's own entries stay within its list, however it was resumed
\* (_execute_order_action_sequence).
THEOREM ActionTypes == Spec => []TypeOK
<1>1. TypeInv /\ [Next]_vars => TypeInv'
  BY TypeStep, PlaceStep DEF TypeInv
<1>2. TypeInv => TypeOK
  BY DEF TypeInv
<1> QED
  BY TypeInit, <1>1, <1>2, PTL DEF Spec

-----------------------------------------------------------------------------
(* What the steps do to tasks and awaits.  Every step is of one of four kinds:   *)
(* it winds tasks down, a runner makes a stretch of tasks, a runner starts an    *)
(* exclusive action, or runners begin at the point of the worker.                *)

\* Tasks end or are cancelled, and a runner that ends has nothing left to await.
Winds ==
  /\ UNCHANGED list
  /\ \A t \in Tasks : task'[t] # task[t] =>
       \/ task[t] = "live" /\ task'[t] \in {"cancelling", "ended", "cancelled"}
       \/ task[t] = "cancelling" /\ task'[t] = "cancelled"
       \/ /\ task[t] = "none" /\ task'[t] \in {"ended", "skipped"}
          /\ worker = "stopping" /\ t \in Listed /\ t[1] = next
  /\ \A r \in Runners :
       \/ frame'[r] = frame[r] /\ (Running(r) => Running(r)')
       \/ /\ Running(r) /\ ~Running(r)'
          /\ \A t \in frame[r].wait : task[t] \in {"ended", "cancelled"}
          /\ task'[r] = "ended" => task[r] = "live" /\ ~IsForeground(r)
  /\ \A t \in Tasks : t \in tracked' <=> t \in tracked /\ ~(Running(t) /\ ~Running(t)')
  /\ \A a \in Actions : task[a] = "live" /\ task'[a] \in {"cancelling", "cancelled"} =>
       \/ a \in tracked
       \/ \E r \in Runners : /\ r \in tracked \/ (IsForeground(r) /\ Running(r))
                             /\ a \in frame[r].wait /\ task'[r] # "live"
  /\ \A r \in Runners : task[r] = "live" =>
       /\ task'[r] = "cancelled" => \E t \in frame[r].wait : task[t] = "cancelled"
       /\ task'[r] = "cancelling" /\ HoldsUntracked(r) => "cancelDuringSoft" \in May

\* Runner r makes tasks of its entries from i to before j.
Stretches(r, i, j) ==
  /\ UNCHANGED list /\ tracked' = tracked /\ Released(r)
  /\ \/ frame[r].mode = "barriers" /\ i = First(r)
     \/ frame[r].mode = "inside" /\ i = frame[r].at + 1
  /\ Batch(r, i, j) \subseteq Own(r)
  /\ \A a \in Own(r) : /\ a \in Batch(r, i, j) <=> i <= a[2] /\ a[2] < j
                       /\ a[2] = j => IsExclusive(TypeOf(a))
  /\ \A a \in Batch(r, i, j) : ~IsExclusive(TypeOf(a))
  /\ \A t \in Tasks : task'[t] = IF t \in Batch(r, i, j) THEN "live" ELSE task[t]
  /\ \A q \in Runners : q # r => frame'[q] = frame[q]
  /\ \/ /\ frame'[r].mode = "before" /\ frame'[r].at = j /\ j <= Last(r)
        /\ frame'[r].wait = frame[r].prior \cup Batch(r, i, j) /\ frame'[r].prior = {}
     \/ /\ frame'[r].mode = "last" /\ j > Last(r) /\ frame'[r].prior = frame[r].prior
        /\ frame'[r].wait = IF IsForeground(r) THEN {a \in Batch(r, i, j) : TypeOf(a) = "SOFT"}
                                               ELSE Batch(r, i, j)

\* Runner r starts its exclusive action a.
Starts(r, a) ==
  /\ UNCHANGED list /\ tracked' = tracked /\ Released(r)
  /\ frame[r].mode = "before" /\ a \in Own(r) /\ a[2] = frame[r].at
  /\ \A t \in Tasks : task'[t] = IF t = a THEN "live" ELSE task[t]
  /\ \A q \in Runners : q # r => frame'[q] = frame[q]
  /\ frame'[r].mode = "inside" /\ frame'[r].at = a[2]
  /\ frame'[r].wait = {a} /\ frame'[r].prior = {}

\* The runners Q begin, those of E end, and B is what is tracked and left running.
Opens(Q, E, B) ==
  /\ \A q \in Q : /\ q \in Runners /\ q[1] = next /\ task[q] = "none" /\ task'[q] = "live"
                  /\ frame'[q].mode = "barriers"
                  /\ frame'[q].wait = Exclusives(B) /\ frame'[q].prior = B \ Exclusives(B)
  /\ \A r \in E : /\ r = Foreground(next) /\ frame[r].mode = "last" /\ Released(r)
                  /\ task'[r] = "ended"
                  /\ \A q \in Q : q = Background(next)
  /\ \A t \in Tasks : t \notin Q \cup E => task'[t] = task[t]
  /\ \A r \in Runners : r \notin Q \cup E => frame'[r] = frame[r]
  /\ B = tracked \cup UNION {LeftRunning(r) : r \in E}
  /\ tracked' = B \cup {q \in Q : ~IsForeground(q)}
  /\ E = {} => /\ \A p \in Points : ~Running(Foreground(p))
               /\ \A t \in Tasks : t[1] = next => task[t] = "none"
  /\ E # {} => UNCHANGED list
  /\ \A p \in Points : \/ list'[p] = list[p]
                       \/ p = next /\ list[p] = <<>> /\ \A r \in Runners : Running(r) => r[1] < next
  /\ next \in Points /\ E \subseteq Runners /\ \A p, q \in Q : p = q

\* These actions wind something down.
LEMMA WindsIs ==
  ASSUME TypeInv, [Next]_vars,
         \/ \E r \in Runners : EndBackground(r) \/ EndCancelled(r)
         \/ \E a \in Actions : EndAction(a)
         \/ StopFails \/ Restart \/ CompleteOrder \/ NewOrder \/ CancelOrder \/ FinishCancel
         \/ UNCHANGED vars
  PROVE  Winds
<1>0. /\ ListOK /\ WorkerOK /\ TaskOK /\ FrameOK /\ SetsOK /\ PlaceInv
      /\ Runners \subseteq Tasks /\ Actions \subseteq Tasks /\ \A a \in Actions : a \notin Runners
  BY TypeParts, TaskKinds DEF TypeInv
<1>1. ASSUME NEW r \in Runners, EndBackground(r) \/ EndCancelled(r)
      PROVE  Winds
  <2>1. /\ UNCHANGED list /\ frame' = [frame EXCEPT ![r] = NoFrame]
        /\ tracked' = tracked \ {r} /\ Running(r)
        /\ \E o \in {"ended", "cancelled"} :
             /\ task' = [task EXCEPT ![r] = o]
             /\ o = "ended" => task[r] = "live" /\ ~IsForeground(r)
             /\ o = "cancelled" /\ task[r] = "live" => \E t \in frame[r].wait : task[t] = "cancelled"
        /\ \A t \in frame[r].wait : task[t] \in {"ended", "cancelled"}
    BY <1>1 DEF EndBackground, EndCancelled, EndTask, Released, Broken, Running
  <2>2. /\ \A t \in Tasks : t # r => task'[t] = task[t]
        /\ task'[r] \in {"ended", "cancelled"}
        /\ task'[r] = "ended" => task[r] = "live" /\ ~IsForeground(r)
        /\ task'[r] = "cancelled" /\ task[r] = "live" => \E t \in frame[r].wait : task[t] = "cancelled"
        /\ \A q \in Runners : q # r => frame'[q] = frame[q]
    BY <1>0, <2>1 DEF TaskOK, FrameOK
  <2> QED
    BY <1>0, <2>1, <2>2 DEF Winds, Running
<1>2. ASSUME NEW a \in Actions, EndAction(a)
      PROVE  Winds
  <2>1. /\ UNCHANGED <<list, frame>> /\ tracked' = tracked \ {a} /\ Running(a)
        /\ task' = [task EXCEPT ![a] = IF task[a] = "live" THEN "ended" ELSE "cancelled"]
    BY <1>2 DEF EndAction, EndTask
  <2>2. /\ \A t \in Tasks : t # a => task'[t] = task[t]
        /\ task'[a] = IF task[a] = "live" THEN "ended" ELSE "cancelled"
    BY <1>0, <2>1 DEF TaskOK
  <2> QED
    BY <1>0, <2>1, <2>2 DEF Winds, Running
<1>3. CASE StopFails
  <2>1. /\ UNCHANGED <<list, frame, tracked>> /\ worker = "stopping"
        /\ task' = [t \in Tasks |->
                IF t \notin Listed \/ t[1] # next THEN task[t]
                ELSE IF StopsDriving(TypeOf(t)) THEN "ended" ELSE "skipped"]
    BY <1>3 DEF StopFails
  <2>2. \A t \in Tasks : task'[t] # task[t] =>
          task[t] = "none" /\ t \in Listed /\ t[1] = next /\ task'[t] \in {"ended", "skipped"}
    BY <1>0, <2>1 DEF PlaceInv
  <2>3. \A r \in Runners : task'[r] = task[r]
    BY <1>0, <2>1 DEF Listed
  <2> QED
    BY <1>0, <2>1, <2>2, <2>3 DEF Winds, Running
<1>4. CASE CancelOrder
  <2> DEFINE S == tracked \cup {r \in Runners : IsForeground(r) /\ Running(r)}
  <2>1. /\ UNCHANGED <<list, frame, tracked>> /\ CancelTasks(S)
        /\ \A r \in Runners : HoldsUntracked(r) => "cancelDuringSoft" \in May
    BY <1>4 DEF CancelOrder
  <2>2. \A t \in Tasks : task'[t] = task[t] \/ (task[t] = "live" /\ task'[t] = "cancelling")
    BY <2>1 DEF CancelTasks
  <2>3. \A r \in Runners : r \in S => task'[r] # "live"
    BY <1>0, <2>1 DEF CancelTasks
  <2>4. \A t \in Tasks : task'[t] # task[t] =>
          t \in S \/ \E r \in Runners : r \in S /\ t \in frame[r].wait
    BY <2>1 DEF CancelTasks
  <2>5. \A a \in Actions : task[a] = "live" /\ task'[a] \in {"cancelling", "cancelled"} =>
          \/ a \in tracked
          \/ \E r \in Runners : /\ r \in tracked \/ (IsForeground(r) /\ Running(r))
                                /\ a \in frame[r].wait /\ task'[r] # "live"
    BY <1>0, <2>3, <2>4
  <2> QED
    BY <1>0, <2>1, <2>2, <2>5 DEF Winds, Running
<1>5. CASE Restart \/ CompleteOrder \/ NewOrder \/ FinishCancel \/ UNCHANGED vars
  <2>1. UNCHANGED <<list, task, frame, tracked>>
    BY <1>5 DEF Restart, CompleteOrder, NewOrder, FinishCancel, vars
  <2> QED
    BY <1>0, <2>1 DEF Winds, Running
<1> QED
  BY <1>1, <1>2, <1>3, <1>4, <1>5

\* Stretch makes the tasks of a stretch, and nothing else.
LEMMA StretchesIs ==
  ASSUME TypeInv, NEW r \in Runners, Stretch(r)
  PROVE  \E i \in First(r)..(Last(r) + 1) : \E j \in i..(Last(r) + 1) : Stretches(r, i, j)
<1>0. /\ ListOK /\ FrameOK /\ MaxActions \in Nat /\ First(r) \in Nat /\ Last(r) \in 0..MaxActions
      /\ frame[r] \in Frames
  BY TypeParts, EntryIs, ActionSchedulerAssumption DEF TypeInv, FrameOK
<1>1. PICK i \in First(r)..(Last(r) + 1) : \E j \in i..(Last(r) + 1) : StretchTo(r, i, j)
  BY StretchIs
<1>2. PICK j \in i..(Last(r) + 1) : StretchTo(r, i, j)
  BY <1>1
<1>3. j \in 0..(MaxActions + 1) /\ (j <= Last(r) \/ j > Last(r))
  BY <1>0
<1> DEFINE B == Batch(r, i, j)
<1>4. B \in SUBSET Tasks /\ frame[r].prior \in SUBSET Tasks
  BY <1>0, <1>2, OwnerIs, TaskKinds DEF StretchTo, Own, Frames
<1>5. ASSUME NEW a \in Own(r), a[2] = j
      PROVE  IsExclusive(TypeOf(a))
  BY <1>0, <1>2, <1>5, EntryIs DEF StretchTo
<1>6. \/ frame[r].mode = "barriers" /\ i = First(r)
      \/ frame[r].mode = "inside" /\ i = frame[r].at + 1
  BY <1>2 DEF StretchTo
<1>7. \/ /\ frame'[r].mode = "before" /\ frame'[r].at = j /\ j <= Last(r)
         /\ frame'[r].wait = frame[r].prior \cup B /\ frame'[r].prior = {}
      \/ /\ frame'[r].mode = "last" /\ j > Last(r) /\ frame'[r].prior = frame[r].prior
         /\ frame'[r].wait = IF IsForeground(r) THEN {a \in B : TypeOf(a) = "SOFT"} ELSE B
  <2>1. CASE j <= Last(r)
    <3>1. frame'[r] = Await("before", j, frame[r].prior \cup B, {})
      BY <1>0, <1>2, <2>1 DEF StretchTo, FrameOK
    <3> HIDE DEF B
    <3> QED
      BY <1>3, <1>4, <2>1, <3>1, AwaitIs
  <2>2. CASE j > Last(r)
    <3> DEFINE w == IF IsForeground(r) THEN {a \in B : TypeOf(a) = "SOFT"} ELSE B
    <3>1. frame'[r] = Await("last", j, w, frame[r].prior)
      BY <1>0, <1>2, <2>2 DEF StretchTo, FrameOK
    <3>2. w \in SUBSET Tasks
      BY <1>4
    <3>3. frame'[r].mode = "last" /\ frame'[r].wait = w /\ frame'[r].prior = frame[r].prior
      <4> HIDE DEF w
      <4> QED
        BY <1>3, <1>4, <3>1, <3>2, AwaitIs
    <3> QED
      BY <2>2, <3>3
  <2> QED
    BY <1>3, <2>1, <2>2
<1>8. \A q \in Runners : q # r => frame'[q] = frame[q]
  BY <1>0, <1>2, <1>3 DEF StretchTo, FrameOK
<1>9. /\ UNCHANGED list /\ tracked' = tracked /\ Released(r) /\ B \subseteq Own(r)
      /\ \A a \in Own(r) : a \in B <=> i <= a[2] /\ a[2] < j
      /\ \A a \in B : ~IsExclusive(TypeOf(a))
      /\ \A t \in Tasks : task'[t] = IF t \in B THEN "live" ELSE task[t]
  BY <1>2 DEF StretchTo
<1> QED
  BY <1>5, <1>6, <1>7, <1>8, <1>9 DEF Stretches

\* StartExclusive starts one action, and nothing else.
LEMMA StartsIs ==
  ASSUME TypeInv, NEW r \in Runners, StartExclusive(r)
  PROVE  Starts(r, <<r[1], frame[r].at>>)
<1> DEFINE a == <<r[1], frame[r].at>>
<1>0. /\ ListOK /\ FrameOK /\ TaskOK /\ MaxActions \in Nat /\ frame[r] \in Frames /\ a[2] = frame[r].at
      /\ frame[r].at \in 0..(MaxActions + 1)
  BY TypeParts, ActionSchedulerAssumption DEF TypeInv, FrameOK, Frames
<1>1. a \in Own(r)
  BY <1>0, EntryIs DEF TypeInv, EntryInv, StartExclusive
<1>2. a \in Tasks
  BY <1>0, <1>1, OwnerIs, TaskKinds DEF Own
<1>3. /\ frame[r].mode = "before" /\ Released(r) /\ task' = [task EXCEPT ![a] = "live"]
      /\ frame' = [frame EXCEPT ![r] = Await("inside", a[2], {a}, {})]
      /\ UNCHANGED <<list, tracked>>
  BY DEF StartExclusive
<1> HIDE DEF a
<1>4. /\ \A q \in Runners : q # r => frame'[q] = frame[q]
      /\ frame'[r] = Await("inside", a[2], {a}, {})
  BY <1>0, <1>3 DEF FrameOK
<1>5. /\ frame'[r].mode = "inside" /\ frame'[r].at = a[2]
      /\ frame'[r].wait = {a} /\ frame'[r].prior = {}
  BY <1>0, <1>2, <1>4, AwaitIs
<1>6. \A t \in Tasks : task'[t] = IF t = a THEN "live" ELSE task[t]
  BY <1>0, <1>2, <1>3 DEF TaskOK
<1> QED
  BY <1>0, <1>1, <1>3, <1>4, <1>5, <1>6 DEF Starts, a

\* These actions end the runner of the worker or begin one, and nothing else.
LEMMA OpensIs ==
  ASSUME TypeInv, Arrive \/ StopForActions \/ \E r \in Runners : EndForeground(r)
  PROVE  \E Q, E \in SUBSET Runners : \E B \in SUBSET Tasks : Opens(Q, E, B)
<1>0. /\ ListOK /\ WorkerOK /\ TaskOK /\ FrameOK /\ SetsOK /\ PlaceInv
      /\ Runners \subseteq Tasks /\ Actions \subseteq Tasks /\ tracked \in SUBSET Tasks
  BY TypeParts, TaskKinds DEF TypeInv, SetsOK
<1>1. ASSUME Arrive
      PROVE  \E Q, E \in SUBSET Runners : \E B \in SUBSET Tasks : Opens(Q, E, B)
  <2> DEFINE b == Background(next)
  <2>1. PICK l \in Lists :
          /\ list' = [list EXCEPT ![next] = l]
          /\ IF LastBlocker(l) > 0
             THEN /\ worker' = "stopping" /\ residual' \in BOOLEAN
                  /\ UNCHANGED <<next, task, frame, tracked>>
             ELSE /\ Schedule(next, tracked, task, frame)
                  /\ next' = next + 1
                  /\ UNCHANGED <<worker, residual>>
    BY <1>1 DEF Arrive
  <2>2. next \in Points /\ worker = "moving" /\ b \in Runners /\ b[1] = next /\ ~IsForeground(b)
    BY <1>0, <1>1, TaskKinds DEF Arrive, ListOK, Points
  <2>3. list'[next] = l /\ \A p \in Points : p # next => list'[p] = list[p]
    BY <1>0, <2>1, <2>2 DEF ListOK
  <2>4. /\ list[next] = <<>> /\ task[b] = "none"
        /\ \A p \in Points : ~Running(Foreground(p))
        /\ \A t \in Tasks : t[1] = next => task[t] = "none"
    BY <1>0, <2>2, TaskKinds DEF PlaceInv, Points
  <2>5. \A r \in Runners : Running(r) => r[1] < next
    <3> SUFFICES ASSUME NEW r \in Runners, Running(r)
                 PROVE  r[1] < next
      OBVIOUS
    <3>1. r = Background(r[1]) /\ r[1] \in Points
      BY <2>4, TaskKinds
    <3>2. task[r] # "none"
      BY DEF Running
    <3> QED
      BY <1>0, <3>1, <3>2 DEF PlaceInv
  <2>6. CASE LastBlocker(l) > 0
    <3>1. UNCHANGED <<next, task, frame, tracked>>
      BY <2>1, <2>6
    <3>2. Opens({}, {}, tracked)
      BY <2>2, <2>3, <2>4, <2>5, <3>1 DEF Opens
    <3> QED
      BY <1>0, <3>2
  <2>7. CASE ~(LastBlocker(l) > 0)
    <3>1. Schedule(next, tracked, task, frame)
      BY <2>1, <2>7
    <3>2. /\ \A t \in Tasks : task'[t] = IF t = b THEN "live" ELSE task[t]
          /\ \A r \in Runners : frame'[r] = IF r = b THEN Begin(tracked) ELSE frame[r]
          /\ tracked' = tracked \cup {b}
      BY <1>0, <2>2, <3>1 DEF Schedule, TaskOK, FrameOK
    <3>3. /\ Begin(tracked).mode = "barriers"
          /\ Begin(tracked).wait = Exclusives(tracked) /\ Begin(tracked).prior = tracked \ Exclusives(tracked)
      BY <1>0, BeginIs
    <3> HIDE DEF b
    <3>4. Opens({b}, {}, tracked)
      BY <1>0, <2>2, <2>3, <2>4, <2>5, <3>2, <3>3 DEF Opens
    <3> QED
      BY <1>0, <2>2, <3>4
  <2> QED
    BY <2>6, <2>7
<1>2. ASSUME StopForActions
      PROVE  \E Q, E \in SUBSET Runners : \E B \in SUBSET Tasks : Opens(Q, E, B)
  <2> DEFINE f == Foreground(next)
  <2>1. /\ worker = "stopping" /\ UNCHANGED <<list, next, tracked>>
        /\ task' = [task EXCEPT ![f] = "live"]
        /\ frame' = [frame EXCEPT ![f] = Begin(tracked)]
    BY <1>2 DEF StopForActions
  <2>2. next \in Points /\ f \in Runners /\ f[1] = next /\ IsForeground(f) /\ task[f] = "none"
    BY <1>0, <2>1, TaskKinds DEF PlaceInv
  <2>3. /\ \A p \in Points : ~Running(Foreground(p))
        /\ \A t \in Tasks : t[1] = next => task[t] = "none"
    BY <1>0, <2>1 DEF PlaceInv
  <2> HIDE DEF f
  <2>4. /\ \A t \in Tasks : task'[t] = IF t = f THEN "live" ELSE task[t]
        /\ \A r \in Runners : frame'[r] = IF r = f THEN Begin(tracked) ELSE frame[r]
    BY <1>0, <2>1, <2>2 DEF TaskOK, FrameOK
  <2>5. /\ Begin(tracked).mode = "barriers"
        /\ Begin(tracked).wait = Exclusives(tracked) /\ Begin(tracked).prior = tracked \ Exclusives(tracked)
    BY <1>0, BeginIs
  <2>6. Opens({f}, {}, tracked)
    BY <1>0, <2>1, <2>2, <2>3, <2>4, <2>5 DEF Opens
  <2> QED
    BY <1>0, <2>2, <2>6
<1>3. ASSUME NEW r \in Runners, EndForeground(r)
      PROVE  \E Q, E \in SUBSET Runners : \E B \in SUBSET Tasks : Opens(Q, E, B)
  <2> DEFINE b == Background(next)
             B == tracked \cup LeftRunning(r)
             tasks == [task EXCEPT ![r] = "ended"]
             frames == [frame EXCEPT ![r] = NoFrame]
  <2>1. /\ IsForeground(r) /\ frame[r].mode = "last" /\ Released(r) /\ UNCHANGED list
        /\ \/ Schedule(r[1], B, tasks, frames)
           \/ task' = tasks /\ frame' = frames /\ tracked' = B
    BY <1>3 DEF EndForeground
  <2>2. r = Foreground(next) /\ r[1] = next /\ next \in Points
    BY <1>0, <2>1, TaskKinds DEF Released, PlaceInv, Running
  <2>3. b \in Runners /\ b[1] = next /\ ~IsForeground(b) /\ b # r /\ task[b] = "none"
    BY <1>0, <2>2, TaskKinds DEF PlaceInv, Points
  <2>4. B = tracked \cup UNION {LeftRunning(q) : q \in {r}}
    OBVIOUS
  <2>5. B \in SUBSET Tasks
    BY <1>0, OwnerIs DEF LeftRunning
  <2> HIDE DEF b, B
  <2>6. CASE Schedule(r[1], B, tasks, frames)
    <3>1. /\ \A t \in Tasks : task'[t] = IF t = b THEN "live" ELSE IF t = r THEN "ended" ELSE task[t]
          /\ \A q \in Runners : q \notin {r, b} => frame'[q] = frame[q]
          /\ frame'[b] = Begin(B) /\ tracked' = B \cup {b}
      BY <1>0, <2>2, <2>3, <2>6 DEF Schedule, TaskOK, FrameOK, b
    <3>2. /\ Begin(B).mode = "barriers"
          /\ Begin(B).wait = Exclusives(B) /\ Begin(B).prior = B \ Exclusives(B)
      BY <2>5, BeginIs
    <3>3. Opens({b}, {r}, B)
      <4>1. b = Background(next)
        BY DEF b
      <4>2. \A t \in Tasks : t \notin {b} \cup {r} => task'[t] = task[t]
        BY <3>1
      <4>3. \A q \in Runners : q \notin {b} \cup {r} => frame'[q] = frame[q]
        BY <3>1
      <4>4. tracked' = B \cup {q \in {b} : ~IsForeground(q)}
        BY <2>3, <3>1
      <4>5. /\ task[b] = "none" /\ task'[b] = "live" /\ b \in Runners /\ b[1] = next
            /\ frame'[b].mode = "barriers"
            /\ frame'[b].wait = Exclusives(B) /\ frame'[b].prior = B \ Exclusives(B)
        BY <1>0, <2>3, <3>1, <3>2
      <4>6. /\ frame[r].mode = "last" /\ Released(r) /\ task'[r] = "ended" /\ r \in Runners
        BY <1>0, <2>1, <2>3, <3>1
      <4> QED
        BY <2>1, <2>2, <2>4, <4>1, <4>2, <4>3, <4>4, <4>5, <4>6 DEF Opens
    <3> QED
      BY <2>3, <2>5, <3>3
  <2>7. CASE task' = tasks /\ frame' = frames /\ tracked' = B
    <3>1. /\ \A t \in Tasks : task'[t] = IF t = r THEN "ended" ELSE task[t]
          /\ \A q \in Runners : q # r => frame'[q] = frame[q]
      BY <1>0, <2>7 DEF TaskOK, FrameOK
    <3>2. Opens({}, {r}, B)
      BY <1>0, <2>1, <2>2, <2>4, <2>7, <3>1 DEF Opens
    <3> QED
      BY <2>5, <3>2
  <2> QED
    BY <2>1, <2>6, <2>7
<1> QED
  BY <1>1, <1>2, <1>3

\* Every step is of one of the four kinds.
LEMMA Kinds ==
  ASSUME TypeInv, [Next]_vars
  PROVE  \/ Winds
         \/ \E r \in Runners : Stretch(r) /\ \E i \in First(r)..(Last(r) + 1) :
              \E j \in i..(Last(r) + 1) : Stretches(r, i, j)
         \/ \E r \in Runners : StartExclusive(r) /\ \E a \in Own(r) : Starts(r, a)
         \/ /\ Arrive \/ StopForActions \/ \E r \in Runners : EndForeground(r)
            /\ \E Q, E \in SUBSET Runners : \E B \in SUBSET Tasks : Opens(Q, E, B)
<1>1. ASSUME NEW r \in Runners, StartExclusive(r)
      PROVE  \E a \in Own(r) : Starts(r, a)
  BY <1>1, StartsIs DEF Starts
<1> QED
  BY <1>1, WindsIs, StretchesIs, OpensIs DEF Next, RunnerStep

-----------------------------------------------------------------------------
(* The robot stands still *)

\* Where its list stays, so does what is said of the entries of a point.
LEMMA PointKept ==
  ASSUME NEW p \in Points, list'[p] = list[p]
  PROVE  /\ \A a \in Actions : a[1] = p => /\ a \in Listed' <=> a \in Listed
                                           /\ TypeOf(a)' = TypeOf(a) /\ Owner(a)' = Owner(a)
         /\ \A r \in Runners : r[1] = p => First(r)' = First(r) /\ Last(r)' = Last(r)
  BY DEF Listed, TypeOf, Owner, First, Last

\* Where runners begin, the tasks that have begun keep their entries, and those of a
\* runner that has begun are the ones it had.
LEMMA OpensKeeps ==
  ASSUME TypeInv, NEW Q, NEW E, NEW B, Opens(Q, E, B)
  PROVE  /\ \A a \in Actions : task[a] # "none" =>
              /\ a \in Listed' <=> a \in Listed
              /\ TypeOf(a)' = TypeOf(a) /\ Owner(a)' = Owner(a)
         /\ \A r \in Runners : Running(r) =>
              Own(r)' = Own(r) /\ \A a \in Own(r) : TypeOf(a)' = TypeOf(a)
<1>0. /\ PlaceInv /\ ListOK /\ \A p \in Points : list'[p] = list[p] \/ (p = next /\ list[p] = <<>>)
      /\ \A a \in Actions : a[1] \in Points /\ a \in Tasks
      /\ \A p \in Points : list'[p] = list[p] \/ \A r \in Runners : Running(r) => r[1] < next
  BY TypeParts, TaskKinds DEF TypeInv, Opens
<1>1. \A a \in Actions : task[a] # "none" => list'[a[1]] = list[a[1]]
  BY <1>0 DEF PlaceInv
<1>2. ASSUME NEW r \in Runners, Running(r)
      PROVE  Own(r)' = Own(r) /\ \A a \in Own(r) : TypeOf(a)' = TypeOf(a)
  <2>1. /\ r[1] \in Points /\ list'[r[1]] = list[r[1]]
    BY <1>0, <1>2, TaskKinds DEF PlaceInv, Running
  <2>2. \A a \in Actions : Owner(a) = r \/ Owner(a)' = r => a[1] = r[1]
    BY TaskKinds DEF Owner
  <2>3. \A a \in Actions : a[1] = r[1] => /\ a \in Listed' <=> a \in Listed
                                          /\ Owner(a)' = Owner(a) /\ TypeOf(a)' = TypeOf(a)
    BY <2>1, PointKept
  <2>4. Listed \subseteq Actions /\ Listed' \subseteq Actions
    BY DEF Listed
  <2>5. Own(r)' = Own(r)
    BY <2>2, <2>3, <2>4 DEF Own
  <2>6. \A a \in Own(r) : TypeOf(a)' = TypeOf(a)
    BY <2>2, <2>3, <2>4 DEF Own
  <2> QED
    BY <2>5, <2>6
<1> QED
  BY <1>0, <1>1, <1>2, PointKept

\* What its runner awaits
Awaited(a) == Running(Owner(a)) /\ a \in frame[Owner(a)].wait

\* A runner need not await this action: the worker drives on beside it.
Loose(a) == TypeOf(a) = "NONE" /\ IsForeground(Owner(a))

\* An action that runs is awaited by its runner, unless it is a NONE action of the
\* foreground, which no longer awaits it at its end.
AwaitInv ==
  \A a \in Actions : Running(a) =>
    /\ a \in Listed
    /\ \/ Awaited(a)
       \/ Loose(a) /\ (Running(Owner(a)) => frame[Owner(a)].mode = "last")

\* Every step keeps it: a runner leaves no action behind but NONE ones.
LEMMA AwaitStep ==
  ASSUME TypeInv, AwaitInv, [Next]_vars
  PROVE  AwaitInv'
<1>0. /\ ListOK /\ \A a \in Actions : a \in Tasks /\ a \notin Runners
      /\ \A r \in Runners : r \in Tasks
      /\ \A a \in Listed : a \in Actions /\ Owner(a) \in Runners
  BY TypeParts, TaskKinds, OwnerIs DEF TypeInv
<1> DEFINE Goal(a) ==
      /\ a \in Listed'
      /\ \/ Awaited(a)'
         \/ Loose(a)' /\ (Running(Owner(a))' => (frame[Owner(a)].mode)' = "last")
<1> SUFFICES ASSUME NEW a \in Actions, Running(a)'
             PROVE  Goal(a)
  BY DEF AwaitInv
<1>1. CASE Winds
  <2>1. Running(a) /\ Listed' = Listed /\ Owner(a)' = Owner(a) /\ TypeOf(a)' = TypeOf(a)
    BY <1>0, <1>1, SameLists DEF Winds, Running
  <2>2. a \in Listed /\ Owner(a) \in Runners /\ (Running(Owner(a))' => Running(Owner(a)))
    BY <1>0, <1>1, <2>1 DEF AwaitInv, Winds, Running
  <2>3. CASE Awaited(a)
    BY <1>1, <2>1, <2>2, <2>3 DEF Winds, Awaited, Running
  <2>4. CASE ~Awaited(a)
    BY <1>1, <2>1, <2>2, <2>4 DEF Winds, AwaitInv, Loose
  <2> QED
    BY <2>3, <2>4
<1>2. ASSUME NEW r \in Runners, NEW i, NEW j, Stretches(r, i, j)
      PROVE  Goal(a)
  <2>0. Listed' = Listed /\ Owner(a)' = Owner(a) /\ TypeOf(a)' = TypeOf(a)
    BY <1>2, SameLists DEF Stretches
  <2>0a. task'[r] = "live"
    BY <1>0, <1>2, OwnerIs DEF Stretches, Own, Released
  <2>1. CASE a \in Batch(r, i, j)
    <3>1. a \in Listed /\ Owner(a) = r /\ Running(Owner(a))' /\ ~IsExclusive(TypeOf(a))
      BY <1>0, <1>2, <2>0, <2>0a, <2>1 DEF Stretches, Own, Running
    <3>2. TypeOf(a) \in {"NONE", "SOFT"}
      BY <1>0, <3>1, PointList, TaskKinds DEF TypeOf, Listed, BlockingTypes, IsExclusive
    <3> QED
      BY <1>2, <2>0, <2>1, <3>1, <3>2 DEF Stretches, Awaited, Loose
  <2>2. CASE a \notin Batch(r, i, j)
    <3>1. Running(a)
      BY <1>0, <1>2, <2>2 DEF Stretches, Running
    <3>2. a \in Listed /\ Owner(a) \in Runners
      BY <1>0, <3>1 DEF AwaitInv
    <3>3. CASE Owner(a) = r
      <4>1. a \notin frame[r].wait /\ frame[r].mode # "last" /\ Running(r)
        BY <1>2, <3>1 DEF Stretches, Released, Running
      <4> QED
        BY <3>1, <3>3, <4>1 DEF AwaitInv, Awaited
    <3>4. CASE Owner(a) # r
      <4>1. task'[Owner(a)] = task[Owner(a)] /\ frame'[Owner(a)] = frame[Owner(a)]
        BY <1>0, <1>2, <3>2, <3>4, OwnerIs DEF Stretches, Own
      <4> QED
        BY <2>0, <3>1, <3>2, <4>1 DEF AwaitInv, Awaited, Loose, Running
    <3> QED
      BY <3>3, <3>4
  <2> QED
    BY <2>1, <2>2
<1>3. ASSUME NEW r \in Runners, NEW b \in Own(r), Starts(r, b)
      PROVE  Goal(a)
  <2>0. Listed' = Listed /\ Owner(a)' = Owner(a) /\ TypeOf(a)' = TypeOf(a)
    BY <1>3, SameLists DEF Starts
  <2>0a. task'[r] = "live" /\ b \in Actions
    BY <1>0, <1>3 DEF Starts, Own, Released
  <2>1. CASE a = b
    BY <1>3, <2>0, <2>0a, <2>1 DEF Starts, Awaited, Running, Own
  <2>2. CASE a # b
    <3>1. Running(a)
      BY <1>0, <1>3, <2>2 DEF Starts, Running
    <3>2. a \in Listed /\ Owner(a) \in Runners
      BY <1>0, <3>1 DEF AwaitInv
    <3>3. CASE Owner(a) = r
      <4>1. a \notin frame[r].wait /\ frame[r].mode # "last" /\ Running(r)
        BY <1>3, <3>1 DEF Starts, Released, Running
      <4> QED
        BY <3>1, <3>3, <4>1 DEF AwaitInv, Awaited
    <3>4. CASE Owner(a) # r
      <4>1. task'[Owner(a)] = task[Owner(a)] /\ frame'[Owner(a)] = frame[Owner(a)]
        BY <1>0, <1>3, <2>0a, <3>2, <3>4 DEF Starts
      <4> QED
        BY <2>0, <3>1, <3>2, <4>1 DEF AwaitInv, Awaited, Loose, Running
    <3> QED
      BY <3>3, <3>4
  <2> QED
    BY <2>1, <2>2
<1>4. ASSUME NEW Q \in SUBSET Runners, NEW E \in SUBSET Runners, NEW B \in SUBSET Tasks,
             Opens(Q, E, B)
      PROVE  Goal(a)
  <2> DEFINE r == Owner(a)
  <2>1. Running(a) /\ task[a] # "none"
    BY <1>0, <1>4 DEF Opens, Running
  <2>2. /\ a \in Listed /\ r \in Runners
        /\ a \in Listed' /\ TypeOf(a)' = TypeOf(a) /\ Owner(a)' = Owner(a)
    BY <1>0, <1>4, <2>1, OpensKeeps DEF AwaitInv
  <2>3. CASE r \in Q
    <3>1. ~Running(r) /\ r[1] = next
      BY <1>4, <2>3 DEF Opens, Running
    <3>2. IsForeground(r) /\ a[1] = next
      BY <1>0, <2>1, <2>2, <3>1, OwnerIs DEF AwaitInv, Awaited, Loose
    <3>3. E = {} => task[a] = "none"
      BY <1>0, <1>4, <3>2 DEF Opens
    <3>4. E # {} => r = Background(next)
      BY <1>4, <2>3 DEF Opens
    <3> QED
      BY <1>4, <2>1, <3>2, <3>3, <3>4, TaskKinds DEF Opens
  <2>4. CASE r \in E /\ r \notin Q
    <3>1. a \notin frame[r].wait /\ task'[r] = "ended"
      BY <1>4, <2>1, <2>4 DEF Opens, Released, Running
    <3> QED
      BY <2>1, <2>2, <3>1 DEF AwaitInv, Awaited, Loose, Running
  <2>5. CASE r \notin Q \cup E
    <3>1. task'[r] = task[r] /\ frame'[r] = frame[r]
      BY <1>0, <1>4, <2>2, <2>5 DEF Opens
    <3> QED
      BY <2>1, <2>2, <3>1 DEF AwaitInv, Awaited, Loose, Running
  <2> QED
    BY <2>3, <2>4, <2>5
<1> HIDE DEF Goal
<1> QED
  BY <1>1, <1>2, <1>3, <1>4, Kinds

\* The robot does not drive beside a SOFT or HARD action, however cancelOrder and new
\* orders fall: such an action is awaited by a foreground, which runs only while its
\* worker acts with the robot at rest (_stop_for_blocking_order_actions).
THEOREM RobotStands == Spec => []StandsStill
<1> DEFINE I == TypeInv /\ AwaitInv
<1>1. Init => I
  <2>1. Init => AwaitInv
    BY TaskKinds DEF Init, AwaitInv, Running
  <2> QED
    BY <2>1, TypeInit
<1>2. I /\ [Next]_vars => I'
  BY TypeStep, PlaceStep, AwaitStep DEF TypeInv
<1>3. I => StandsStill
  <2> SUFFICES ASSUME TypeInv, AwaitInv, NEW a \in Listed, Running(a), StopsDriving(TypeOf(a))
               PROVE  worker # "moving" /\ ~residual
    BY DEF StandsStill
  <2>1. a \in Actions /\ Owner(a) \in Runners /\ IsForeground(Owner(a))
    BY TypeParts, OwnerIs DEF TypeInv
  <2>2. Running(Owner(a))
    BY <2>1 DEF AwaitInv, Awaited, Loose, StopsDriving
  <2>3. worker = "acting"
    BY <2>1, <2>2, TaskKinds DEF TypeInv, PlaceInv
  <2> QED
    BY <2>3 DEF TypeInv, PlaceInv
<1> QED
  BY <1>1, <1>2, <1>3, PTL DEF Spec

-----------------------------------------------------------------------------
(* What is tracked, and what the runners have made *)

\* Tracked are the background tasks that run, and NONE actions that a foreground has
\* left running.
TrackInv ==
  /\ \A p \in Points : /\ Foreground(p) \notin tracked
                       /\ Running(Background(p)) <=> Background(p) \in tracked
  /\ \A a \in Actions : a \in tracked =>
       a \in Listed /\ Running(a) /\ Loose(a) /\ task[Owner(a)] = "ended"

\* What a foreground leaves running is its own.
LEMMA LeftIs ==
  ASSUME ListOK, NEW r \in Runners, IsForeground(r), NEW a \in LeftRunning(r)
  PROVE  a \in Actions /\ a \in Own(r) /\ a \in Listed /\ Running(a) /\ Loose(a) /\ Owner(a) = r
<1>1. a \in Listed /\ a[1] = r[1] /\ a[2] <= LastBlocker(list[a[1]]) /\ TypeOf(a) = "NONE" /\ Running(a)
  BY DEF LeftRunning, Last
<1>2. r = Foreground(r[1])
  BY TaskKinds
<1> QED
  BY <1>1, <1>2 DEF Owner, Loose, Own, Listed

\* Every step keeps it: a task that is done is tracked no longer.
LEMMA TrackStep ==
  ASSUME TypeInv, AwaitInv, TrackInv, [Next]_vars
  PROVE  TrackInv'
<1>0. /\ ListOK /\ tracked \subseteq Tasks
      /\ \A a \in Actions : a \in Tasks /\ a \notin Runners
      /\ \A r \in Runners : r \in Tasks
      /\ \A a \in Listed : a \in Actions /\ Owner(a) \in Runners /\ Owner(a) \in Tasks
      /\ \A p \in Points : /\ Foreground(p) \in Runners /\ Background(p) \in Runners
                           /\ ~IsForeground(Background(p)) /\ IsForeground(Foreground(p))
                           /\ \A q \in Points : Foreground(p) # Background(q)
  BY TypeParts, TaskKinds, OwnerIs DEF TypeInv, SetsOK
<1>1. CASE Winds
  <2>1. Listed' = Listed /\ \A a : Loose(a)' = Loose(a) /\ Owner(a)' = Owner(a)
    BY <1>1, SameLists DEF Winds, Loose
  <2>2. \A p \in Points : /\ Foreground(p) \notin tracked'
                          /\ Running(Background(p))' <=> Background(p) \in tracked'
    BY <1>0, <1>1 DEF Winds, Running, TrackInv
  <2>3. \A a \in Actions : a \in tracked' => a \in tracked /\ Running(a)'
    BY <1>0, <1>1 DEF Winds, TrackInv
  <2>4. \A a \in Listed : task[Owner(a)] = "ended" => task'[Owner(a)] = "ended"
    BY <1>0, <1>1 DEF Winds
  <2> QED
    BY <2>1, <2>2, <2>3, <2>4 DEF TrackInv
<1>2. ASSUME NEW r \in Runners, NEW S \in SUBSET Own(r), UNCHANGED <<list, tracked>>,
             \A t \in Tasks : task'[t] = IF t \in S THEN "live" ELSE task[t]
      PROVE  TrackInv'
  <2>1. Listed' = Listed /\ \A a : Loose(a)' = Loose(a) /\ Owner(a)' = Owner(a)
    BY <1>2, SameLists DEF Loose
  <2>2. S \subseteq Actions /\ \A q \in Runners : task'[q] = task[q]
    BY <1>0, <1>2 DEF Own
  <2>3. \A a \in Actions : Running(a) => Running(a)'
    BY <1>0, <1>2 DEF Running
  <2> QED
    BY <1>0, <1>2, <2>1, <2>2, <2>3 DEF TrackInv, Running
<1>3. ASSUME NEW r \in Runners, NEW i, NEW j, Stretches(r, i, j)
      PROVE  TrackInv'
  BY <1>2, <1>3 DEF Stretches
<1>4. ASSUME NEW r \in Runners, NEW b \in Own(r), Starts(r, b)
      PROVE  TrackInv'
  <2>1. \A t \in Tasks : task'[t] = IF t \in {b} THEN "live" ELSE task[t]
    BY <1>4 DEF Starts
  <2> QED
    BY <1>2, <1>4, <2>1 DEF Starts
<1>5. ASSUME NEW Q \in SUBSET Runners, NEW E \in SUBSET Runners, NEW B \in SUBSET Tasks,
             Opens(Q, E, B)
      PROVE  TrackInv'
  <2>1. \A p \in Points : /\ Foreground(p) \notin tracked'
                          /\ Running(Background(p))' <=> Background(p) \in tracked'
    <3> TAKE p \in Points
    <3>1. \A r \in E : \A t \in LeftRunning(r) : t \in Actions
      BY <1>5, <1>0 DEF LeftRunning
    <3>2. Foreground(p) \notin B /\ (Background(p) \in B <=> Background(p) \in tracked)
      BY <1>0, <1>5, <3>1 DEF Opens, TrackInv
    <3>3. Foreground(p) \notin tracked'
      BY <1>0, <1>5, <3>2 DEF Opens
    <3>4. Background(p) \in tracked' <=> Background(p) \in tracked \/ Background(p) \in Q
      BY <1>0, <1>5, <3>2 DEF Opens
    <3>5. CASE Background(p) \in Q
      BY <1>5, <3>3, <3>4, <3>5 DEF Opens, Running
    <3>6. CASE Background(p) \notin Q
      <4>1. Background(p) \notin E
        BY <1>0, <1>5 DEF Opens
      <4>2. task'[Background(p)] = task[Background(p)]
        BY <1>0, <1>5, <3>6, <4>1 DEF Opens
      <4> QED
        BY <3>3, <3>4, <3>6, <4>2 DEF TrackInv, Running
    <3> QED
      BY <3>5, <3>6
  <2>2. ASSUME NEW a \in Actions, a \in tracked'
        PROVE  a \in Listed' /\ Running(a)' /\ Loose(a)' /\ (task[Owner(a)])' = "ended"
    <3>1. a \in B
      BY <1>0, <1>5, <2>2 DEF Opens
    <3>2. /\ a \in Listed /\ Running(a) /\ Loose(a)
          /\ task[Owner(a)] = "ended" \/ Owner(a) \in E
      <4>1. CASE a \in tracked
        BY <4>1 DEF TrackInv
      <4>2. CASE a \notin tracked
        <5>1. PICK r \in E : a \in LeftRunning(r)
          BY <1>5, <3>1, <4>2 DEF Opens
        <5>2. IsForeground(r)
          BY <1>0, <1>5 DEF Opens
        <5> QED
          BY <1>0, <5>1, <5>2, LeftIs
      <4> QED
        BY <4>1, <4>2
    <3>3. /\ a \in Listed' /\ TypeOf(a)' = TypeOf(a) /\ Owner(a)' = Owner(a)
      BY <1>5, <3>2, OpensKeeps DEF Running
    <3>4. Running(a)'
      BY <1>0, <1>5, <3>2 DEF Opens, Running
    <3>5. task'[Owner(a)] = "ended"
      BY <1>0, <1>5, <3>2 DEF Opens
    <3> QED
      BY <3>2, <3>3, <3>4, <3>5 DEF Loose
  <2> QED
    BY <2>1, <2>2 DEF TrackInv
<1> QED
  BY <1>1, <1>3, <1>4, <1>5, Kinds

\* The entries whose tasks the runner has made: those before the one it has come to
Made(r, a) ==
  \/ frame[r].mode = "before" /\ a[2] < frame[r].at
  \/ frame[r].mode = "inside" /\ a[2] <= frame[r].at
  \/ frame[r].mode = "last"

\* What a runner has made, and what of it runs
RunnerIs(r) ==
  /\ frame[r].mode # "none"
  /\ frame[r].mode \in {"before", "inside"} => frame[r].prior = {}
  /\ \A a \in Own(r) :
       /\ task[a] # "none" <=> Made(r, a)
       /\ frame[r].mode \in {"before", "inside"} /\ a[2] = frame[r].at => IsExclusive(TypeOf(a))
       /\ Running(a) /\ IsExclusive(TypeOf(a)) => frame[r].mode = "inside"
       /\ Running(a) /\ frame[r].mode = "inside" => a[2] = frame[r].at

\* A runner makes its entries in order and runs an exclusive one alone, and the
\* background of a point does not run beside its foreground.
RunnerInv ==
  \A r \in Runners : Running(r) =>
    /\ RunnerIs(r)
    /\ IsForeground(r) => \A a \in Own(Background(r[1])) : task[a] = "none"

\* Every step keeps it: an entry is started in its turn and once.
LEMMA RunnerInvStep ==
  ASSUME TypeInv, AwaitInv, RunnerInv, [Next]_vars
  PROVE  RunnerInv'
<1>0. /\ ListOK /\ PlaceInv /\ MaxActions \in Nat
      /\ \A a \in Actions : a \in Tasks /\ a \notin Runners
      /\ \A r \in Runners : r \in Tasks /\ r[1] \in Points
      /\ \A p \in Points : /\ Foreground(p) \in Runners /\ Background(p) \in Runners
                           /\ Foreground(p)[1] = p /\ Background(p)[1] = p
                           /\ ~IsForeground(Background(p)) /\ IsForeground(Foreground(p))
      /\ \A r \in Runners : IsForeground(r) => r = Foreground(r[1])
  BY TypeParts, TaskKinds, ActionSchedulerAssumption DEF TypeInv
<1>0a. \A r \in Runners : \A a \in Own(r) :
         a \in Actions /\ a \in Listed /\ a \in Tasks /\ a[1] = r[1] /\ Owner(a) = r
  BY <1>0, OwnerIs DEF Own
<1>0b. \A r \in Runners : /\ First(r) \in Nat /\ Last(r) \in Nat
                          /\ \A a \in Own(r) : /\ a[2] \in Nat /\ First(r) <= a[2] /\ a[2] <= Last(r)
                                               /\ a = <<r[1], a[2]>>
  BY <1>0, EntryIs
<1>0c. \A r \in Runners : \A a \in Own(r) : Running(a) /\ Running(r) /\ frame[r].mode # "last" =>
         a \in frame[r].wait
  BY <1>0a DEF AwaitInv, Awaited
<1> DEFINE Goal(q) == /\ RunnerIs(q)'
                      /\ IsForeground(q) => \A a \in Own(Background(q[1]))' : task'[a] = "none"
<1> SUFFICES ASSUME NEW q \in Runners, Running(q)'
             PROVE  Goal(q)
  BY DEF RunnerInv
<1>1. CASE Winds
  <2>1. Running(q) /\ frame'[q] = frame[q]
    BY <1>0, <1>1 DEF Winds, Running
  <2>2. /\ \A r \in Runners : Own(r)' = Own(r)
        /\ \A a : TypeOf(a)' = TypeOf(a)
    BY <1>1, SameLists DEF Winds
  <2>3. ~(worker = "stopping" /\ q[1] = next)
    BY <1>0, <2>1 DEF PlaceInv, Running
  <2>4. \A a \in Tasks : a[1] = q[1] => /\ task'[a] = "none" <=> task[a] = "none"
                                        /\ Running(a)' => Running(a)
    BY <1>1, <2>3 DEF Winds, Running
  <2>5. RunnerIs(q)'
    BY <1>0a, <2>1, <2>2, <2>4 DEF RunnerInv, RunnerIs, Made
  <2>6. IsForeground(q) => \A a \in Own(Background(q[1]))' : task'[a] = "none"
    BY <1>0, <1>0a, <2>1, <2>2, <2>4 DEF RunnerInv
  <2> QED
    BY <2>5, <2>6
<1>2. ASSUME NEW r \in Runners, NEW S \in SUBSET Own(r), UNCHANGED list, Running(r),
             \A t \in Tasks : task'[t] = IF t \in S THEN "live" ELSE task[t],
             \A p \in Runners : p # r => frame'[p] = frame[p],
             q = r => RunnerIs(q)'
      PROVE  Goal(q)
  <2>1. /\ \A p \in Runners : Own(p)' = Own(p)
        /\ \A a : TypeOf(a)' = TypeOf(a)
    BY <1>2, SameLists
  <2>2. \A t \in Runners : task'[t] = task[t]
    BY <1>0, <1>0a, <1>2
  <2>3. Running(q)
    BY <1>0, <2>2 DEF Running
  <2>4. IsForeground(q) => \A a \in Own(Background(q[1]))' : task'[a] = "none"
    <3> SUFFICES ASSUME IsForeground(q), NEW a \in Own(Background(q[1]))
                 PROVE  task'[a] = "none"
      BY <1>0, <2>1
    <3>1. task[a] = "none" /\ a \in Tasks /\ Owner(a) = Background(q[1])
      BY <1>0, <1>0a, <2>3 DEF RunnerInv
    <3>2. q[1] = next /\ N \in Nat /\ next \in Nat
      BY <1>0, <2>3, ActionSchedulerAssumption DEF PlaceInv, ListOK
    <3>3. task[Background(q[1])] = "none"
      BY <1>0, <3>2 DEF PlaceInv
    <3>4. a \notin S
      BY <1>0, <1>0a, <1>2, <3>1, <3>3 DEF Running
    <3> QED
      BY <1>2, <3>1, <3>4
  <2>5. q # r => RunnerIs(q)'
    <3> SUFFICES ASSUME q # r
                 PROVE  RunnerIs(q)'
      OBVIOUS
    <3>1. frame'[q] = frame[q] /\ \A a \in Own(q) : task'[a] = task[a]
      BY <1>0a, <1>2
    <3> QED
      BY <2>1, <2>3, <3>1 DEF RunnerInv, RunnerIs, Made, Running
  <2> QED
    BY <1>2, <2>4, <2>5
<1>3. ASSUME NEW r \in Runners, NEW i \in First(r)..(Last(r) + 1), NEW j \in i..(Last(r) + 1),
             Stretches(r, i, j)
      PROVE  Goal(q)
  <2> DEFINE S == Batch(r, i, j)
  <2>0. S \in SUBSET Own(r) /\ Running(r) /\ UNCHANGED list
    BY <1>3 DEF Stretches, Released, Running
  <2>1. /\ \A p \in Runners : Own(p)' = Own(p)
        /\ \A a : TypeOf(a)' = TypeOf(a)
    BY <2>0, SameLists
  <2>2. ASSUME NEW a \in Own(r)
        PROVE  /\ (task'[a] # "none" <=> Made(r, a)')
               /\ (frame'[r].mode = "before" /\ a[2] = frame'[r].at => IsExclusive(TypeOf(a)))
               /\ (Running(a)' => ~IsExclusive(TypeOf(a)))
    <3>1. /\ task[a] # "none" <=> Made(r, a)
          /\ Running(a) /\ IsExclusive(TypeOf(a)) => frame[r].mode = "inside"
      BY <2>0, <2>2 DEF RunnerInv, RunnerIs
    <3>2. a \in S <=> i <= a[2] /\ a[2] < j
      BY <1>3, <2>2 DEF Stretches
    <3>3. task'[a] = IF a \in S THEN "live" ELSE task[a]
      BY <1>0a, <1>3, <2>2 DEF Stretches
    <3>4. First(r) \in Nat /\ Last(r) \in Nat /\ a[2] \in Nat /\ First(r) <= a[2] /\ a[2] <= Last(r)
      BY <1>0b, <2>2
    <3>5. Made(r, a)' <=> a[2] < j
      BY <1>3, <3>4 DEF Stretches, Made
    <3>6. Made(r, a) \/ a \in S <=> a[2] < j
      <4>1. CASE frame[r].mode = "barriers" /\ i = First(r)
        BY <3>2, <3>4, <4>1 DEF Made
      <4>2. CASE frame[r].mode = "inside" /\ i = frame[r].at + 1
        <5>1. frame[r].at \in Nat
          BY <1>0, <4>2, <1>0b DEF TypeInv, EntryInv
        <5> QED
          BY <3>2, <3>4, <4>2, <5>1 DEF Made
      <4> QED
        BY <1>3, <4>1, <4>2 DEF Stretches
    <3>7. Running(a)' => ~IsExclusive(TypeOf(a))
      <4>1. CASE a \in S
        BY <1>3, <4>1 DEF Stretches
      <4>2. CASE a \notin S
        <5>1. Running(a)' => Running(a)
          BY <3>3, <4>2 DEF Running
        <5>2. Running(a) => task[a] = "ended" \/ frame[r].mode = "last"
          BY <1>0c, <1>3, <2>0, <2>2 DEF Stretches, Released
        <5> QED
          BY <1>3, <5>1, <5>2 DEF Stretches, Running
      <4> QED
        BY <4>1, <4>2
    <3> HIDE DEF S
    <3> QED
      BY <1>3, <2>2, <3>1, <3>3, <3>5, <3>6, <3>7 DEF Stretches
  <2>3. /\ frame'[r].mode \in {"before", "last"}
        /\ frame'[r].mode = "before" => frame'[r].prior = {}
    BY <1>3 DEF Stretches
  <2>4. RunnerIs(r)'
    BY <2>1, <2>2, <2>3 DEF RunnerIs
  <2> QED
    BY <1>2, <1>3, <2>0, <2>4 DEF Stretches
<1>4. ASSUME NEW r \in Runners, NEW b \in Own(r), Starts(r, b)
      PROVE  Goal(q)
  <2>0. {b} \in SUBSET Own(r) /\ Running(r) /\ UNCHANGED list
        /\ \A t \in Tasks : task'[t] = IF t \in {b} THEN "live" ELSE task[t]
    BY <1>4 DEF Starts, Released, Running
  <2>1. /\ \A p \in Runners : Own(p)' = Own(p)
        /\ \A a : TypeOf(a)' = TypeOf(a)
    BY <2>0, SameLists
  <2>2. ASSUME NEW a \in Own(r)
        PROVE  /\ (task'[a] # "none" <=> Made(r, a)')
               /\ (a[2] = frame'[r].at => IsExclusive(TypeOf(a)))
               /\ (Running(a)' => a[2] = frame'[r].at)
    <3>1. /\ task[a] # "none" <=> Made(r, a)
          /\ a[2] = frame[r].at => IsExclusive(TypeOf(a))
      BY <1>4, <2>0, <2>2 DEF RunnerInv, RunnerIs, Starts
    <3>2. a[2] = b[2] <=> a = b
      BY <1>0b, <2>2
    <3>3. a[2] \in Nat /\ b[2] \in Nat
      BY <1>0b, <2>2
    <3>4. Running(a) => task[a] = "ended"
      BY <1>0c, <1>4, <2>0, <2>2 DEF Starts, Released
    <3> QED
      BY <1>0a, <1>4, <2>0, <2>2, <3>1, <3>2, <3>3, <3>4 DEF Starts, Made, Running
  <2>3. RunnerIs(r)'
    BY <1>4, <2>1, <2>2 DEF RunnerIs, Starts
  <2> QED
    BY <1>2, <1>4, <2>0, <2>3 DEF Starts
<1>5. ASSUME NEW Q \in SUBSET Runners, NEW E \in SUBSET Runners, NEW B \in SUBSET Tasks,
             Opens(Q, E, B)
      PROVE  Goal(q)
  <2>0. \A r \in Runners : \A a \in Own(r)' : a \in Actions /\ a \in Tasks /\ a[1] = r[1]
    BY <1>0, TaskKinds DEF Own, Listed, Owner
  <2>1. CASE q \in Q
    <3>1. q[1] = next /\ frame'[q].mode = "barriers"
      BY <1>5, <2>1 DEF Opens
    <3>2. ASSUME NEW a \in Own(q)'
          PROVE  task'[a] = "none"
      <4>1. a \in Tasks /\ a[1] = next /\ a \notin Runners
        BY <1>0, <2>0, <3>1
      <4>2. task[a] = "none"
        <5>1. CASE E = {}
          BY <1>5, <4>1, <5>1 DEF Opens
        <5>2. CASE E # {}
          <6>1. PICK r \in E : TRUE
            BY <5>2
          <6>2. /\ r \in Runners /\ r = Foreground(next) /\ next \in Points /\ Released(r)
                /\ q = Background(next) /\ UNCHANGED list
            BY <1>5, <2>1, <6>1 DEF Opens
          <6>3. Running(r) /\ IsForeground(r) /\ q = Background(r[1])
            BY <1>0, <6>2 DEF Released, Running
          <6>4. a \in Own(q)
            BY <6>2, SameLists
          <6> QED
            BY <6>2, <6>3, <6>4 DEF RunnerInv
        <5> QED
          BY <5>1, <5>2
      <4> QED
        BY <1>5, <4>1, <4>2 DEF Opens
    <3>3. RunnerIs(q)'
      BY <3>1, <3>2 DEF RunnerIs, Made, Running
    <3>4. IsForeground(q) => \A a \in Own(Background(q[1]))' : task'[a] = "none"
      <4> SUFFICES ASSUME IsForeground(q), NEW a \in Own(Background(q[1]))'
                   PROVE  task'[a] = "none"
        BY <1>0
      <4>1. a \in Tasks /\ a[1] = next /\ a \notin Runners
        BY <1>0, <2>0, <3>1
      <4>2. E = {}
        BY <1>0, <1>5, <2>1 DEF Opens
      <4> QED
        BY <1>5, <4>1, <4>2 DEF Opens
    <3> QED
      BY <3>3, <3>4
  <2>2. CASE q \notin Q
    <3>1. q \notin E
      BY <1>5, <2>2 DEF Opens, Running
    <3>2. Running(q) /\ frame'[q] = frame[q]
      BY <1>0, <1>5, <2>2, <3>1 DEF Opens, Running
    <3>3. Own(q)' = Own(q) /\ \A a \in Own(q) : TypeOf(a)' = TypeOf(a)
      BY <1>5, <3>2, OpensKeeps
    <3>4. \A a \in Own(q) : task'[a] = task[a]
      BY <1>0, <1>0a, <1>5 DEF Opens
    <3>5. RunnerIs(q)'
      BY <3>2, <3>3, <3>4 DEF RunnerInv, RunnerIs, Made, Running
    <3>6. ~IsForeground(q)
      <4> SUFFICES ASSUME IsForeground(q)
                   PROVE  FALSE
        OBVIOUS
      <4>1. E # {}
        BY <1>0, <1>5, <3>2 DEF Opens
      <4>2. q = Foreground(next)
        BY <1>0, <3>2 DEF PlaceInv
      <4> QED
        BY <1>5, <3>1, <4>1, <4>2 DEF Opens
    <3> QED
      BY <3>5, <3>6
  <2> QED
    BY <2>1, <2>2
<1> QED
  BY <1>1, <1>3, <1>4, <1>5, Kinds

-----------------------------------------------------------------------------
(* What the runners await *)

\* What runner r awaits, or has yet to await
Pending(r) == frame[r].wait \cup frame[r].prior

\* A runner awaits tasks that have begun: its own, and what was tracked as it began.
WaitIs(r) ==
  /\ \A t \in Pending(r) : task[t] # "none"
  /\ \A a \in Actions : a \in Pending(r) => Owner(a) = r \/ (Running(a) => a \in tracked)
  /\ IsForeground(r) /\ frame[r].mode = "last" => frame[r].wait \subseteq Own(r)
  /\ task[r] = "live" => \A a \in Own(r) : a \in frame[r].wait => task[a] \in {"live", "ended"}

WaitInv == \A r \in Runners : Running(r) => WaitIs(r)

\* Facts of the runners that the steps below share
LEMMA RunnerFacts ==
  ASSUME TypeInv, AwaitInv, RunnerInv
  PROVE  /\ ListOK /\ PlaceInv /\ MaxActions \in Nat
         /\ \A a \in Actions : a \in Tasks /\ a \notin Runners
         /\ \A r \in Runners : r \in Tasks /\ r[1] \in Points
         /\ \A r \in Runners : frame[r].wait \subseteq Tasks /\ frame[r].prior \subseteq Tasks
         /\ tracked \subseteq Tasks
         /\ \A r \in Runners : \A a \in Own(r) :
              a \in Actions /\ a \in Listed /\ a \in Tasks /\ a[1] = r[1] /\ Owner(a) = r
         /\ \A a \in Listed : /\ a \in Actions /\ Owner(a) \in Runners /\ a \in Own(Owner(a))
                              /\ Owner(a)[1] = a[1]
         /\ \A r \in Runners : \A i \in First(r)..(Last(r) + 1) : \A j : Stretches(r, i, j) =>
              \A a \in Batch(r, i, j) : task[a] = "none"
         /\ \A r \in Runners : \A a \in Own(r) : Starts(r, a) => task[a] = "none"
<1>1. /\ ListOK /\ PlaceInv /\ MaxActions \in Nat /\ tracked \subseteq Tasks
      /\ \A a \in Actions : a \in Tasks /\ a \notin Runners
      /\ \A r \in Runners : r \in Tasks /\ r[1] \in Points
  BY TypeParts, TaskKinds, ActionSchedulerAssumption DEF TypeInv, SetsOK
<1>2. \A r \in Runners : frame[r].wait \subseteq Tasks /\ frame[r].prior \subseteq Tasks
  BY TypeParts DEF TypeInv, FrameOK, Frames
<1>3. /\ \A r \in Runners : \A a \in Own(r) :
           a \in Actions /\ a \in Listed /\ a \in Tasks /\ a[1] = r[1] /\ Owner(a) = r
      /\ \A a \in Listed : /\ a \in Actions /\ Owner(a) \in Runners /\ a \in Own(Owner(a))
                           /\ Owner(a)[1] = a[1]
  BY <1>1, OwnerIs DEF Own
<1>4. ASSUME NEW r \in Runners, NEW i \in First(r)..(Last(r) + 1), NEW j,
             Stretches(r, i, j), NEW a \in Batch(r, i, j)
      PROVE  task[a] = "none"
  <2>1. a \in Own(r) /\ i <= a[2] /\ Running(r)
    BY <1>4 DEF Stretches, Released, Running
  <2>2. a[2] \in Nat /\ i \in Nat
    BY <1>1, <2>1, EntryIs
  <2>3. ~Made(r, a)
    <3>1. CASE frame[r].mode = "barriers"
      BY <3>1 DEF Made
    <3>2. CASE frame[r].mode = "inside" /\ i = frame[r].at + 1
      <4>1. frame[r].at \in Nat
        BY <1>1, <3>2, EntryIs DEF TypeInv, EntryInv
      <4> QED
        BY <2>1, <2>2, <3>2, <4>1 DEF Made
    <3> QED
      BY <1>4, <3>1, <3>2 DEF Stretches
  <2> QED
    BY <2>1, <2>3 DEF RunnerInv, RunnerIs
<1>5. ASSUME NEW r \in Runners, NEW a \in Own(r), Starts(r, a)
      PROVE  task[a] = "none"
  <2>1. Running(r) /\ a[2] = frame[r].at /\ frame[r].mode = "before" /\ a[2] \in Nat
    BY <1>1, <1>5, EntryIs DEF Starts, Released, Running
  <2>2. ~Made(r, a)
    BY <2>1 DEF Made
  <2> QED
    BY <1>5, <2>1, <2>2 DEF RunnerInv, RunnerIs
<1> QED
  BY <1>1, <1>2, <1>3, <1>4, <1>5

\* A runner that awaits what it is cancelled with: an action that is cancelled was
\* tracked, or is awaited by a runner that is cancelled.
LEMMA CancelledBy ==
  ASSUME TypeInv, TrackInv, WaitInv, Winds, NEW a \in Actions,
         task[a] = "live", task'[a] \in {"cancelling", "cancelled"}
  PROVE  \/ a \in tracked
         \/ \E r \in Runners : /\ Running(r) /\ a \in frame[r].wait /\ task'[r] # "live"
                               /\ Owner(a) = r
<1>1. CASE a \notin tracked
  <2>1. PICK r \in Runners : /\ r \in tracked \/ (IsForeground(r) /\ Running(r))
                             /\ a \in frame[r].wait /\ task'[r] # "live"
    BY <1>1 DEF Winds
  <2>2. Running(r)
    BY <2>1, TaskKinds DEF TrackInv
  <2>3. Owner(a) = r
    BY <1>1, <2>1, <2>2 DEF WaitInv, WaitIs, Pending, Running
  <2> QED
    BY <2>1, <2>2, <2>3
<1> QED
  BY <1>1

\* Every step keeps it: a runner awaits what was tracked when it began, or its own.
LEMMA WaitStep ==
  ASSUME TypeInv, AwaitInv, TrackInv, RunnerInv, RunnerInv', WaitInv, [Next]_vars
  PROVE  WaitInv'
<1>0. /\ ListOK /\ PlaceInv /\ MaxActions \in Nat
      /\ \A a \in Actions : a \in Tasks /\ a \notin Runners
      /\ \A r \in Runners : r \in Tasks /\ r[1] \in Points
      /\ \A r \in Runners : frame[r].wait \subseteq Tasks /\ frame[r].prior \subseteq Tasks
      /\ tracked \subseteq Tasks
      /\ \A r \in Runners : \A a \in Own(r) :
           a \in Actions /\ a \in Listed /\ a \in Tasks /\ a[1] = r[1] /\ Owner(a) = r
  BY RunnerFacts
<1> SUFFICES ASSUME NEW q \in Runners, Running(q)'
             PROVE  WaitIs(q)'
  BY DEF WaitInv
<1>1. CASE Winds
  <2>1. Running(q) /\ frame'[q] = frame[q] /\ WaitIs(q)
    BY <1>0, <1>1 DEF Winds, Running, WaitInv
  <2>2. /\ \A r \in Runners : Own(r)' = Own(r)
        /\ \A a : Owner(a)' = Owner(a)
    BY <1>1, SameLists DEF Winds
  <2>3. \A t \in Pending(q) : task'[t] # "none"
    BY <1>0, <1>1, <2>1 DEF WaitIs, Winds, Pending
  <2>4. \A a \in Actions : a \in Pending(q) => Owner(a) = q \/ (Running(a)' => a \in tracked')
    <3>1. \A a \in Actions : Running(a)' => Running(a)
      BY <1>0, <1>1 DEF Winds, Running
    <3> QED
      BY <1>0, <1>1, <2>1, <3>1 DEF WaitIs, Winds
  <2>5. ASSUME task'[q] = "live", NEW a \in Own(q), a \in frame[q].wait
        PROVE  task'[a] \in {"live", "ended"}
    <3>1. task[q] = "live"
      BY <1>0, <1>1, <2>5 DEF Winds
    <3>2. task[a] \in {"live", "ended"}
      BY <2>1, <2>5, <3>1 DEF WaitIs
    <3>3. a \notin tracked
      BY <1>0, <3>1 DEF TrackInv
    <3>4. ~(task[a] = "live" /\ task'[a] \in {"cancelling", "cancelled"})
      BY <1>0, <1>1, <2>5, <3>3, CancelledBy
    <3> QED
      BY <1>0, <1>1, <3>2, <3>4 DEF Winds
  <2> QED
    BY <2>1, <2>2, <2>3, <2>4, <2>5 DEF WaitIs, Pending
<1>2. ASSUME NEW r \in Runners, NEW S \in SUBSET Own(r), UNCHANGED <<list, tracked>>, Running(r),
             \A a \in S : task[a] = "none",
             \A t \in Tasks : task'[t] = IF t \in S THEN "live" ELSE task[t],
             \A p \in Runners : p # r => frame'[p] = frame[p],
             \A t \in Pending(r)' : t \in S \/ t \in frame[r].prior,
             IsForeground(r) /\ frame'[r].mode = "last" => frame'[r].wait \subseteq S,
             \A a \in Own(r) : a \notin frame[r].prior
      PROVE  WaitIs(q)'
  <2>1. /\ \A p \in Runners : Own(p)' = Own(p)
        /\ \A a : Owner(a)' = Owner(a)
    BY <1>2, SameLists
  <2>2. Running(q) /\ WaitIs(q)
    BY <1>0, <1>2 DEF Running, WaitInv
  <2>3. task'[q] = task[q]
    BY <1>0, <1>2
  <2>4. \A t \in Pending(q) : t \notin S
    BY <1>2, <2>2 DEF WaitIs
  <2>4a. \A a \in Actions : a \in S => Owner(a) = r
    BY <1>0, <1>2
  <2>5. CASE q # r
    <3>1. frame'[q] = frame[q] /\ Pending(q)' = Pending(q)
      BY <1>2, <2>5 DEF Pending
    <3>2. \A t \in Pending(q) : task'[t] = task[t]
      BY <1>0, <1>2, <2>4 DEF Pending
    <3> QED
      BY <1>2, <2>1, <2>2, <2>3, <3>1, <3>2 DEF WaitIs, Running, Pending
  <2>6. CASE q = r
    <3>1. /\ \A t \in Pending(q)' : task'[t] # "none"
      BY <1>0, <1>2, <2>2, <2>6 DEF WaitIs, Pending
    <3>2. \A a \in Actions : a \in Pending(q)' => Owner(a) = q \/ (Running(a)' => a \in tracked')
      <4> SUFFICES ASSUME NEW a \in Actions, a \in frame[r].prior, a \notin S, Running(a)'
                   PROVE  Owner(a) = q \/ a \in tracked
        BY <1>2, <2>4a, <2>6
      <4>1. Running(a)
        BY <1>0, <1>2 DEF Running
      <4> QED
        BY <2>2, <2>6, <4>1 DEF WaitIs, Pending
    <3>3. \A a \in Own(q) : a \in frame'[q].wait => task'[a] = "live"
      BY <1>0, <1>2, <2>6 DEF Pending
    <3> QED
      BY <1>2, <2>1, <2>6, <3>1, <3>2, <3>3 DEF WaitIs
  <2> QED
    BY <2>5, <2>6
<1>3. ASSUME NEW r \in Runners, NEW i \in First(r)..(Last(r) + 1), NEW j \in i..(Last(r) + 1),
             Stretches(r, i, j)
      PROVE  WaitIs(q)'
  <2>1. Running(r) /\ Batch(r, i, j) \in SUBSET Own(r)
    BY <1>3 DEF Stretches, Released, Running
  <2>2. \A a \in Batch(r, i, j) : task[a] = "none"
    BY <1>3, RunnerFacts
  <2>3. \A a \in Own(r) : a \notin frame[r].prior
    <3>1. CASE frame[r].mode = "barriers"
      BY <2>1, <3>1 DEF RunnerInv, RunnerIs, Made, WaitInv, WaitIs, Pending
    <3>2. CASE frame[r].mode = "inside"
      BY <2>1, <3>2 DEF RunnerInv, RunnerIs
    <3> QED
      BY <1>3, <3>1, <3>2 DEF Stretches
  <2>4. \A t \in Pending(r)' : t \in Batch(r, i, j) \/ t \in frame[r].prior
    BY <1>3 DEF Stretches, Pending
  <2> QED
    BY <1>2, <1>3, <2>1, <2>2, <2>3, <2>4 DEF Stretches
<1>4. ASSUME NEW r \in Runners, NEW b \in Own(r), Starts(r, b)
      PROVE  WaitIs(q)'
  <2>1. Running(r) /\ {b} \in SUBSET Own(r) /\ task[b] = "none"
    BY <1>4, RunnerFacts DEF Starts, Released, Running
  <2>2. frame[r].prior = {}
    BY <1>4, <2>1 DEF RunnerInv, RunnerIs, Starts
  <2>3. /\ \A t \in Pending(r)' : t \in {b}
        /\ \A t \in Tasks : task'[t] = IF t \in {b} THEN "live" ELSE task[t]
    BY <1>4 DEF Starts, Pending
  <2> QED
    BY <1>2, <1>4, <2>1, <2>2, <2>3 DEF Starts
<1>5. ASSUME NEW Q \in SUBSET Runners, NEW E \in SUBSET Runners, NEW B \in SUBSET Tasks,
             Opens(Q, E, B)
      PROVE  WaitIs(q)'
  <2>0. \A a \in Actions : task[a] # "none" => Owner(a)' = Owner(a)
    BY <1>5, OpensKeeps
  <2>0a. \A a \in Actions : task'[a] = task[a]
    BY <1>0, <1>5 DEF Opens
  <2>0b. ASSUME NEW t \in Tasks, task[t] # "none"
         PROVE  task'[t] # "none"
    <3>1. CASE t \in Q \cup E
      BY <1>5, <3>1 DEF Opens
    <3>2. CASE t \notin Q \cup E
      BY <1>5, <2>0b, <3>2 DEF Opens
    <3> QED
      BY <3>1, <3>2
  <2>1. CASE q \in Q
    <3>1. frame'[q].mode = "barriers" /\ Pending(q)' = B
      BY <1>5, <2>1 DEF Opens, Pending, Exclusives
    <3>2. \A t \in B : task[t] # "none"
      <4> SUFFICES ASSUME NEW t \in B, task[t] = "none"
                   PROVE  FALSE
        OBVIOUS
      <4>1. t \in tracked
        BY <1>5 DEF Opens, LeftRunning, Running
      <4>2. ~Running(t)
        BY DEF Running
      <4>3. CASE t \in Actions
        BY <4>1, <4>2, <4>3 DEF TrackInv
      <4>4. CASE t \in Runners
        BY <4>1, <4>2, <4>4, TaskKinds DEF TrackInv
      <4> QED
        BY <4>3, <4>4, TaskKinds
    <3>3. \A t \in B : task'[t] # "none"
      BY <2>0b, <3>2
    <3>4. \A a \in Actions : a \in B => a \in tracked'
      BY <1>5 DEF Opens
    <3>5. \A a \in Own(q)' : task'[a] = "none"
      BY <3>1 DEF RunnerInv, RunnerIs, Made
    <3>6. \A a \in Own(q)' : a \notin frame'[q].wait
      BY <3>1, <3>3, <3>5 DEF Pending
    <3> QED
      BY <3>1, <3>3, <3>4, <3>6 DEF WaitIs
  <2>2. CASE q \notin Q
    <3>1. q \notin E
      BY <1>5, <2>2 DEF Opens, Running
    <3>2. Running(q) /\ frame'[q] = frame[q] /\ task'[q] = task[q]
      BY <1>0, <1>5, <2>2, <3>1 DEF Opens, Running
    <3>3. Own(q)' = Own(q) /\ WaitIs(q) /\ Pending(q)' = Pending(q)
      BY <1>5, <3>2, OpensKeeps DEF WaitInv, Pending
    <3>4. \A t \in Pending(q) : task'[t] # "none"
      BY <1>0, <2>0b, <3>3 DEF WaitIs, Pending
    <3>5. \A a \in Actions : a \in Pending(q) => Owner(a)' = q \/ (Running(a)' => a \in tracked')
      <4>1. tracked \subseteq tracked'
        BY <1>5 DEF Opens
      <4> QED
        BY <2>0, <2>0a, <3>3, <4>1 DEF WaitIs, Running
    <3>6. task'[q] = "live" => \A a \in Own(q) : a \in frame[q].wait => task'[a] \in {"live", "ended"}
      BY <1>0, <2>0a, <3>2, <3>3 DEF WaitIs
    <3> QED
      BY <3>2, <3>3, <3>4, <3>5, <3>6 DEF WaitIs
  <2> QED
    BY <2>1, <2>2
<1> QED
  BY <1>1, <1>3, <1>4, <1>5, Kinds

\* What is awaited stays awaited as long as it runs.
LEMMA AwaitedKept ==
  ASSUME TypeInv, AwaitInv, RunnerInv, [Next]_vars, NEW a \in Actions, Running(a), Awaited(a)
  PROVE  Awaited(a)'
<1>0. /\ a \in Listed /\ Owner(a) \in Runners /\ Owner(a) \in Tasks /\ task[a] # "none"
      /\ Running(Owner(a)) /\ a \in frame[Owner(a)].wait
  BY RunnerFacts DEF AwaitInv, Awaited, Running
<1>1. CASE Winds
  BY <1>0, <1>1, SameLists DEF Winds, Awaited, Running
<1>2. ASSUME NEW r \in Runners, UNCHANGED list, Released(r),
             \A q \in Runners : task'[q] = task[q] /\ (q # r => frame'[q] = frame[q])
      PROVE  Awaited(a)'
  <2>1. Owner(a) # r
    BY <1>0, <1>2 DEF Released, Running
  <2> QED
    BY <1>0, <1>2, <2>1, SameLists DEF Awaited, Running
<1>3. ASSUME NEW r \in Runners, NEW i \in First(r)..(Last(r) + 1), NEW j \in i..(Last(r) + 1),
             Stretches(r, i, j)
      PROVE  Awaited(a)'
  <2>1. \A q \in Runners : task'[q] = task[q]
    BY <1>3, RunnerFacts DEF Stretches
  <2> QED
    BY <1>2, <1>3, <2>1 DEF Stretches
<1>4. ASSUME NEW r \in Runners, NEW b \in Own(r), Starts(r, b)
      PROVE  Awaited(a)'
  <2>1. \A q \in Runners : task'[q] = task[q]
    BY <1>4, RunnerFacts DEF Starts
  <2> QED
    BY <1>2, <1>4, <2>1 DEF Starts
<1>5. ASSUME NEW Q \in SUBSET Runners, NEW E \in SUBSET Runners, NEW B \in SUBSET Tasks,
             Opens(Q, E, B)
      PROVE  Awaited(a)'
  <2>1. Owner(a) \notin Q \cup E
    BY <1>0, <1>5 DEF Opens, Released, Running
  <2>2. Owner(a)' = Owner(a)
    BY <1>0, <1>5, OpensKeeps
  <2> QED
    BY <1>0, <1>5, <2>1, <2>2 DEF Opens, Awaited, Running
<1> QED
  BY <1>1, <1>3, <1>4, <1>5, Kinds

\* What is tracked stays tracked as long as it runs.
LEMMA TrackedKept ==
  ASSUME TypeInv, AwaitInv, RunnerInv, [Next]_vars, NEW t \in Tasks, t \in tracked, Running(t)'
  PROVE  t \in tracked'
<1>1. CASE Winds
  BY <1>1 DEF Winds
<1>2. CASE \E Q, E \in SUBSET Runners : \E B \in SUBSET Tasks : Opens(Q, E, B)
  BY <1>2 DEF Opens
<1>3. CASE \E r, i, j : Stretches(r, i, j)
  BY <1>3 DEF Stretches
<1>4. CASE \E r, a : Starts(r, a)
  BY <1>4 DEF Starts
<1> QED
  BY <1>1, <1>2, <1>3, <1>4, Kinds

\* An action that is being cancelled is still awaited or tracked.
HeldInv == \A a \in Actions : task[a] = "cancelling" => Awaited(a) \/ a \in tracked

\* Every step keeps it: only tracked tasks and what they await are cancelled.
LEMMA HeldStep ==
  ASSUME TypeInv, AwaitInv, TrackInv, RunnerInv, WaitInv, HeldInv, [Next]_vars
  PROVE  HeldInv'
<1> SUFFICES ASSUME NEW a \in Actions, task'[a] = "cancelling"
             PROVE  Awaited(a)' \/ a \in tracked'
  BY DEF HeldInv
<1>0. Running(a)' /\ a \in Tasks
  BY RunnerFacts DEF Running
<1>1. ASSUME task[a] = "cancelling"
      PROVE  Awaited(a)' \/ a \in tracked'
  <2>1. Running(a) /\ (Awaited(a) \/ a \in tracked)
    BY <1>1 DEF HeldInv, Running
  <2> QED
    BY <1>0, <2>1, AwaitedKept, TrackedKept
<1>2. CASE Winds
  <2>1. CASE task[a] # "cancelling"
    <3>1. task[a] = "live" /\ Running(a)
      BY <1>0, <1>2, <2>1 DEF Winds, Running
    <3>2. a \in tracked \/ Awaited(a)
      BY <1>2, <3>1, CancelledBy DEF Awaited
    <3> QED
      BY <1>0, <3>1, <3>2, AwaitedKept, TrackedKept
  <2> QED
    BY <1>1, <2>1
<1>3. CASE \E Q, E \in SUBSET Runners : \E B \in SUBSET Tasks : Opens(Q, E, B)
  <2>1. task[a] = "cancelling"
    BY <1>0, <1>3, RunnerFacts DEF Opens
  <2> QED
    BY <1>1, <2>1
<1>4. CASE \E r, i, j : Stretches(r, i, j)
  BY <1>0, <1>1, <1>4 DEF Stretches
<1>5. CASE \E r, b : Starts(r, b)
  BY <1>0, <1>1, <1>5 DEF Starts
<1> QED
  BY <1>2, <1>3, <1>4, <1>5, Kinds

-----------------------------------------------------------------------------
(* Exclusive actions run in their turn *)

\* An action that runs is awaited, or tracked, or its runner is there to track it.
StrayInv == \A a \in Actions : Running(a) => Awaited(a) \/ a \in tracked \/ task[Owner(a)] = "live"

\* Every step keeps it, if no cancelOrder comes before the NONE actions are tracked.
LEMMA StrayStep ==
  ASSUME TypeInv, AwaitInv, TrackInv, RunnerInv, WaitInv, StrayInv, [Next]_vars,
         "cancelDuringSoft" \notin May
  PROVE  StrayInv'
<1> DEFINE Goal(a) == Awaited(a)' \/ a \in tracked' \/ (task[Owner(a)])' = "live"
<1> SUFFICES ASSUME NEW a \in Actions, Running(a)'
             PROVE  Goal(a)
  BY DEF StrayInv
<1>0. a \in Tasks /\ a \notin Runners
  BY RunnerFacts
<1>1. ASSUME Running(a), Awaited(a) \/ a \in tracked
      PROVE  Goal(a)
  BY <1>0, <1>1, AwaitedKept, TrackedKept
<1>2. ASSUME Running(a), ~Awaited(a), a \notin tracked
      PROVE  /\ a \in Listed /\ Loose(a) /\ Owner(a) \in Runners /\ task[Owner(a)] = "live"
             /\ frame[Owner(a)].mode = "last" /\ a \in LeftRunning(Owner(a))
             /\ a[1] = Owner(a)[1]
  <2>1. a \in Listed /\ Loose(a) /\ task[Owner(a)] = "live" /\ frame[Owner(a)].mode = "last"
    BY <1>2 DEF AwaitInv, StrayInv, Running
  <2>2. Owner(a) \in Runners /\ Owner(a)[1] = a[1] /\ a[2] <= Last(Owner(a))
    <3>1. ListOK /\ a \in Own(Owner(a)) /\ Owner(a) \in Runners /\ Owner(a)[1] = a[1]
      BY <2>1, RunnerFacts
    <3>2. a[2] \in First(Owner(a))..Last(Owner(a))
      BY <3>1, EntryIs
    <3> QED
      BY <3>1, <3>2
  <2> QED
    BY <1>2, <2>1, <2>2 DEF LeftRunning, Loose
<1>3. CASE Winds
  <2>1. Running(a) /\ Owner(a)' = Owner(a)
    BY <1>0, <1>3, SameLists DEF Winds, Running
  <2>2. CASE ~Awaited(a) /\ a \notin tracked
    <3> DEFINE r == Owner(a)
    <3>1. /\ r \in Runners /\ r \in Tasks /\ IsForeground(r) /\ task[r] = "live"
          /\ frame[r].mode = "last" /\ a \in LeftRunning(r)
      BY <1>2, <2>1, <2>2, TaskKinds DEF Loose
    <3>2. WaitIs(r)
      BY <3>1 DEF WaitInv, Running
    <3> HIDE DEF r
    <3>3. task'[r] # "cancelled"
      BY <1>3, <3>1, <3>2 DEF Winds, WaitIs
    <3>4. task'[r] # "cancelling"
      BY <1>3, <3>1 DEF Winds, HoldsUntracked
    <3>5. task'[r] # "ended"
      BY <1>3, <3>1 DEF Winds, Running
    <3>6. task'[r] = "live"
      BY <1>3, <3>1, <3>3, <3>4, <3>5 DEF Winds
    <3> QED
      BY <2>1, <3>6 DEF r
  <2> QED
    BY <1>1, <2>1, <2>2
<1>4. ASSUME NEW r \in Runners, NEW S \in SUBSET Own(r), UNCHANGED list, Released(r),
             \A t \in Tasks : task'[t] = IF t \in S THEN "live" ELSE task[t]
      PROVE  Goal(a)
  <2>1. Owner(a)' = Owner(a) /\ \A q \in Runners : task'[q] = task[q]
    BY <1>4, SameLists, RunnerFacts
  <2>2. CASE a \in S
    <3>1. Owner(a) = r
      BY <1>4, <2>2, RunnerFacts
    <3> QED
      BY <1>4, <2>1, <3>1 DEF Released
  <2>3. CASE a \notin S
    <3>1. Running(a)
      BY <1>0, <1>4, <2>3 DEF Running
    <3> QED
      BY <1>1, <1>2, <2>1, <3>1
  <2> QED
    BY <2>2, <2>3
<1>5. ASSUME NEW r \in Runners, NEW i, NEW j, Stretches(r, i, j)
      PROVE  Goal(a)
  <2>1. Batch(r, i, j) \in SUBSET Own(r)
    BY <1>5 DEF Stretches
  <2> QED
    BY <1>4, <1>5, <2>1 DEF Stretches
<1>6. ASSUME NEW r \in Runners, NEW b \in Own(r), Starts(r, b)
      PROVE  Goal(a)
  <2>1. {b} \in SUBSET Own(r) /\ \A t \in Tasks : task'[t] = IF t \in {b} THEN "live" ELSE task[t]
    BY <1>6 DEF Starts
  <2> QED
    BY <1>4, <1>6, <2>1 DEF Starts
<1>7. ASSUME NEW Q \in SUBSET Runners, NEW E \in SUBSET Runners, NEW B \in SUBSET Tasks,
             Opens(Q, E, B)
      PROVE  Goal(a)
  <2>1. Running(a)
    BY <1>0, <1>7 DEF Opens, Running
  <2>2. CASE ~Awaited(a) /\ a \notin tracked
    <3>1. /\ Owner(a) \in Runners /\ Owner(a) \in Tasks /\ task[Owner(a)] = "live"
          /\ a \in LeftRunning(Owner(a))
      BY <1>2, <2>1, <2>2, TaskKinds
    <3>2. Owner(a)' = Owner(a)
      BY <1>7, <2>1, OpensKeeps DEF Running
    <3>3. CASE Owner(a) \in E
      BY <1>7, <3>1, <3>3 DEF Opens
    <3>4. CASE Owner(a) \notin E
      BY <1>7, <3>1, <3>2, <3>4 DEF Opens
    <3> QED
      BY <3>3, <3>4
  <2> QED
    BY <1>1, <2>1, <2>2
<1> HIDE DEF Goal
<1> QED
  BY <1>3, <1>5, <1>6, <1>7, Kinds

\* Actions that runner r does not run beside an exclusive one: those of earlier points,
\* and for a background those of the foreground of its point
Ahead(a, r) ==
  /\ a \in Listed
  /\ a[1] < r[1] \/ (a[1] = r[1] /\ ~IsForeground(r) /\ IsForeground(Owner(a)))

\* What is ahead of a runner and unfinished is among what it has yet to await, itself or
\* with its own runner, and it runs no exclusive action; it makes no task at all while
\* one ahead is exclusive.
CoverIs(r, a) ==
  /\ a \in Pending(r) \/ (~IsForeground(Owner(a)) /\ Owner(a) \in Pending(r))
  /\ frame[r].mode # "inside"
  /\ IsExclusive(TypeOf(a)) =>
       frame[r].mode = "barriers" /\ ~IsForeground(Owner(a)) /\ Owner(a) \in frame[r].wait

CoverInv ==
  \A r \in Runners, a \in Actions : Running(r) /\ Ahead(a, r) /\ Unfinished(a) => CoverIs(r, a)

\* A background with an exclusive action is an exclusive runner.
LEMMA BarrierIs ==
  ASSUME ListOK, NEW a \in Listed, ~IsForeground(Owner(a)), IsExclusive(TypeOf(a))
  PROVE  ExclusiveRunner(Owner(a))
<1>1. /\ Owner(a) \in Runners /\ a[1] = Owner(a)[1] /\ a[2] \in First(Owner(a))..Last(Owner(a))
      /\ ~StopsDriving(TypeOf(a)) /\ a = <<a[1], a[2]>>
  BY OwnerIs, TaskKinds
<1>2. TypeOf(a) = "SINGLE"
  BY <1>1 DEF IsExclusive, StopsDriving
<1> QED
  BY <1>1, <1>2 DEF ExclusiveRunner

\* Every step keeps it: what a runner is to await, it keeps until it has ended.
LEMMA CoverStep ==
  ASSUME TypeInv, AwaitInv, TrackInv, RunnerInv, WaitInv, StrayInv, CoverInv, [Next]_vars
  PROVE  CoverInv'
<1>0. /\ ListOK /\ PlaceInv /\ N \in Nat
      /\ \A a \in Actions : a \in Tasks /\ a \notin Runners /\ a[1] \in Nat
      /\ \A r \in Runners : r \in Tasks /\ r[1] \in Points /\ r[1] \in Nat
      /\ \A r \in Runners : r = IF IsForeground(r) THEN Foreground(r[1]) ELSE Background(r[1])
      /\ \A a \in Listed : /\ a \in Actions /\ Owner(a) \in Runners /\ Owner(a) \in Tasks
                           /\ a \in Own(Owner(a)) /\ Owner(a)[1] = a[1]
  BY RunnerFacts, TaskKinds, ActionSchedulerAssumption DEF Points
<1> SUFFICES ASSUME NEW q \in Runners, NEW a \in Actions, Running(q)', Ahead(a, q)', Unfinished(a)'
             PROVE  CoverIs(q, a)'
  BY DEF CoverInv
<1>1. CASE Winds
  <2>1. Listed' = Listed /\ Owner(a)' = Owner(a) /\ TypeOf(a)' = TypeOf(a)
    BY <1>1, SameLists DEF Winds
  <2>2. Running(q) /\ frame'[q] = frame[q] /\ Ahead(a, q)
    BY <1>0, <1>1, <2>1 DEF Winds, Running, Ahead
  <2>3. Unfinished(a)
    <3>1. Owner(a) \in Tasks /\ a \in Tasks
      BY <1>0, <2>2 DEF Ahead
    <3> QED
      BY <1>1, <2>1, <3>1 DEF Winds, Unfinished, Running
  <2> QED
    BY <2>1, <2>2, <2>3 DEF CoverInv, CoverIs, Pending
<1>2. ASSUME NEW r \in Runners, NEW S \in SUBSET Own(r), UNCHANGED list, Released(r),
             \A t \in Tasks : task'[t] = IF t \in S THEN "live" ELSE task[t],
             \A x \in S : task[x] = "none",
             \A p \in Runners : p # r => frame'[p] = frame[p],
             frame[r].prior \subseteq Pending(r)', frame'[r].mode = "inside" => frame[r].prior = {}
      PROVE  CoverIs(q, a)'
  <2>1. Listed' = Listed /\ Owner(a)' = Owner(a) /\ TypeOf(a)' = TypeOf(a)
    BY <1>2, SameLists
  <2>2. Ahead(a, q) /\ a \in Listed /\ \A p \in Runners : task'[p] = task[p]
    BY <1>2, <2>1, RunnerFacts DEF Ahead
  <2>3. Running(q) /\ Unfinished(a)
    <3>1. CASE a \in S
      <4>1. Owner(a) = r /\ task[a] = "none"
        BY <1>2, <3>1, RunnerFacts
      <4> QED
        BY <2>2, <4>1, <1>2 DEF Running, Unfinished, Released
    <3>2. CASE a \notin S
      <4>1. task'[a] = task[a] /\ task'[Owner(a)] = task[Owner(a)]
        BY <1>0, <1>2, <2>2, <3>2
      <4> QED
        BY <2>1, <2>2, <4>1 DEF Running, Unfinished
    <3> QED
      BY <3>1, <3>2
  <2>4. CoverIs(q, a)
    BY <2>2, <2>3 DEF CoverInv
  <2>5. CASE q # r
    BY <1>2, <2>1, <2>4, <2>5 DEF CoverIs, Pending
  <2>6. CASE q = r
    <3>1. a \notin frame[r].wait
      BY <1>2, <2>3 DEF Released, Unfinished, Running
    <3>2. ~IsForeground(Owner(a)) => Owner(a) \notin frame[r].wait
      <4> SUFFICES ASSUME ~IsForeground(Owner(a)), Owner(a) \in frame[r].wait
                   PROVE  FALSE
        OBVIOUS
      <4>1. task[Owner(a)] = "ended"
        BY <1>2 DEF Released
      <4> QED
        BY <2>3, <4>1 DEF Unfinished, AwaitInv, Awaited, Loose, Running
    <3>3. /\ a \in frame[r].prior \/ (~IsForeground(Owner(a)) /\ Owner(a) \in frame[r].prior)
          /\ ~IsExclusive(TypeOf(a))
      BY <2>4, <2>6, <3>1, <3>2 DEF CoverIs, Pending
    <3> QED
      BY <1>2, <2>1, <2>6, <3>3 DEF CoverIs
  <2> QED
    BY <2>5, <2>6
<1>3. ASSUME NEW r \in Runners, NEW i \in First(r)..(Last(r) + 1), NEW j \in i..(Last(r) + 1),
             Stretches(r, i, j)
      PROVE  CoverIs(q, a)'
  <2>1. Batch(r, i, j) \in SUBSET Own(r) /\ \A x \in Batch(r, i, j) : task[x] = "none"
    BY <1>3, RunnerFacts DEF Stretches
  <2>2. frame[r].prior \subseteq Pending(r)' /\ frame'[r].mode # "inside"
    BY <1>3 DEF Stretches, Pending
  <2> QED
    BY <1>2, <1>3, <2>1, <2>2 DEF Stretches
<1>4. ASSUME NEW r \in Runners, NEW b \in Own(r), Starts(r, b)
      PROVE  CoverIs(q, a)'
  <2>1. {b} \in SUBSET Own(r) /\ \A x \in {b} : task[x] = "none"
    BY <1>4, RunnerFacts
  <2>2. frame[r].prior = {}
    BY <1>4 DEF RunnerInv, RunnerIs, Starts, Released, Running
  <2>3. \A t \in Tasks : task'[t] = IF t \in {b} THEN "live" ELSE task[t]
    BY <1>4 DEF Starts
  <2> QED
    BY <1>2, <1>4, <2>1, <2>2, <2>3 DEF Starts
<1>5. ASSUME NEW Q \in SUBSET Runners, NEW E \in SUBSET Runners, NEW B \in SUBSET Tasks,
             Opens(Q, E, B)
      PROVE  CoverIs(q, a)'
  <2>0. /\ next \in Points /\ next \in Nat /\ a \in Tasks /\ a[1] \in Points
        /\ task'[a] = task[a]
    BY <1>0, <1>5, TaskKinds DEF Opens, Points
  <2>0a. /\ \A r \in Runners : Running(r) => r \in E \/ r[1] < next \/ ~IsForeground(r)
         /\ \A r \in Runners : Running(r) /\ ~IsForeground(r) => r[1] < next /\ r \in tracked
    <3>1. \A r \in Runners : Running(r) /\ ~IsForeground(r) => r[1] < next /\ r \in tracked
      BY <1>0 DEF PlaceInv, Running, TrackInv
    <3>2. \A r \in Runners : Running(r) /\ IsForeground(r) => r \in E
      BY <1>0, <1>5 DEF PlaceInv, Opens
    <3> QED
      BY <3>1, <3>2
  <2>0b. list'[a[1]] = list[a[1]] =>
           /\ a \in Listed /\ Owner(a)' = Owner(a) /\ TypeOf(a)' = TypeOf(a)
           /\ Owner(a) \in Runners /\ Owner(a) \in Tasks /\ Owner(a)[1] = a[1]
    BY <1>0, <2>0, PointKept DEF Ahead
  <2>0c. /\ list'[a[1]] # list[a[1]] => a[1] = next /\ list[next] = <<>> /\ E = {}
         /\ \A p \in Q : p[1] = next
    <3>1. /\ \A p \in Points : list'[p] = list[p] \/ (p = next /\ list[p] = <<>>)
          /\ E # {} => UNCHANGED list
          /\ \A p \in Q : p[1] = next
      BY <1>5 DEF Opens
    <3> QED
      BY <2>0, <3>1
  <2>1. CASE q \notin Q
    <3>1. q \notin E
      BY <1>5, <2>1 DEF Opens, Running
    <3>2. Running(q) /\ frame'[q] = frame[q]
      BY <1>0, <1>5, <2>1, <3>1 DEF Opens, Running
    <3>3. q[1] < next /\ a[1] <= q[1] /\ a[1] < next
      BY <1>0, <2>0, <2>0a, <3>1, <3>2 DEF Ahead
    <3>4. list'[a[1]] = list[a[1]]
      BY <2>0, <2>0c, <3>3
    <3>5. Ahead(a, q)
      BY <2>0b, <3>4 DEF Ahead
    <3>6. Unfinished(a)
      <4>1. Owner(a) \notin Q
        BY <2>0, <2>0b, <2>0c, <3>3, <3>4
      <4>2. task'[Owner(a)] = "live" => task[Owner(a)] = "live"
        BY <1>5, <2>0b, <3>4, <4>1 DEF Opens
      <4> QED
        BY <2>0, <2>0b, <3>4, <4>2 DEF Unfinished, Running
    <3> QED
      BY <2>0b, <3>2, <3>4, <3>5, <3>6 DEF CoverInv, CoverIs, Pending
  <2>2. CASE q \in Q
    <3> DEFINE o == Owner(a)
    <3>1. /\ q[1] = next /\ frame'[q].mode = "barriers" /\ Pending(q)' = B
          /\ frame'[q].wait = Exclusives(B) /\ \A p \in Q : p = q
      BY <1>5, <2>2 DEF Opens, Pending, Exclusives
    <3>2. a[1] < next \/ (a[1] = next /\ ~IsForeground(q) /\ IsForeground(o)')
      BY <3>1 DEF Ahead
    <3>3. list'[a[1]] = list[a[1]]
      <4> SUFFICES ASSUME list'[a[1]] # list[a[1]]
                   PROVE  FALSE
        OBVIOUS
      <4>1. a[1] = next /\ list[next] = <<>> /\ E = {} /\ ~IsForeground(q) /\ IsForeground(o)'
        BY <2>0, <2>0c, <3>2
      <4>2. \A t \in Tasks : t[1] = next => task[t] = "none"
        BY <1>5, <4>1 DEF Opens
      <4>3. ~Running(a)'
        BY <2>0, <4>1, <4>2 DEF Running
      <4>4. /\ o' = Foreground(next) /\ Foreground(next) \in Tasks /\ Foreground(next)[1] = next
            /\ IsForeground(Foreground(next))
        BY <2>0, <4>1, TaskKinds DEF Owner
      <4>5. Foreground(next) \notin Q
        BY <3>1, <4>1, <4>4
      <4>6. task'[Foreground(next)] = "none"
        BY <1>5, <4>1, <4>2, <4>4, <4>5 DEF Opens
      <4> QED
        BY <4>3, <4>4, <4>6 DEF Unfinished
    <3>4. /\ a \in Listed /\ o' = o /\ TypeOf(a)' = TypeOf(a)
          /\ o \in Runners /\ o \in Tasks /\ o[1] = a[1]
      BY <2>0b, <3>3
    <3>5. o # q
      BY <3>1, <3>2, <3>4, <2>0
    <3> HIDE DEF o
    <3>6. ASSUME Running(o), ~IsForeground(o)
          PROVE  o \in B /\ (IsExclusive(TypeOf(a)) => o \in Exclusives(B))
      <4>1. o \in B
        BY <1>5, <2>0a, <3>4, <3>6 DEF Opens
      <4>2. IsExclusive(TypeOf(a)) => ExclusiveRunner(o)
        BY <1>0, <3>4, <3>6, BarrierIs DEF o
      <4> QED
        BY <4>1, <4>2 DEF Exclusives
    <3>7. ASSUME Running(o), IsForeground(o)
          PROVE  o \in E /\ o = Foreground(next) /\ Released(o) /\ frame[o].mode = "last"
      <4>1. o \in E
        BY <1>0, <1>5, <3>4, <3>7 DEF Opens, PlaceInv
      <4> QED
        BY <1>5, <4>1 DEF Opens
    <3>8. CASE Running(a)
      <4>1. CASE a \in tracked
        <5>1. a \in B /\ ~IsExclusive(TypeOf(a))
          BY <1>5, <4>1 DEF Opens, TrackInv, Loose, IsExclusive
        <5> QED
          BY <3>1, <3>4, <5>1 DEF CoverIs
      <4>2. CASE a \notin tracked /\ Awaited(a)
        <5>1. Running(o) /\ a \in frame[o].wait
          BY <4>2 DEF Awaited, o
        <5>2. ~IsForeground(o)
          BY <3>7, <3>8, <5>1 DEF Released, Running
        <5> QED
          BY <3>1, <3>4, <3>6, <5>1, <5>2 DEF CoverIs, o
      <4>3. CASE a \notin tracked /\ ~Awaited(a)
        <5>1. task[o] = "live" /\ TypeOf(a) = "NONE" /\ IsForeground(o) /\ Running(o)
          BY <3>8, <4>3 DEF StrayInv, AwaitInv, Loose, Running, o
        <5>2. o \in E
          BY <3>7, <5>1
        <5>3. a[2] <= Last(o)
          <6>1. a \in Own(o) /\ ListOK
            BY <1>0, <3>4 DEF o
          <6>2. a[2] \in First(o)..Last(o)
            BY <3>4, <6>1, EntryIs
          <6> QED
            BY <6>2
        <5>4. a \in LeftRunning(o)
          BY <3>4, <3>8, <5>1, <5>3 DEF LeftRunning
        <5>5. a \in B /\ ~IsExclusive(TypeOf(a))
          BY <1>5, <5>1, <5>2, <5>4 DEF Opens, IsExclusive
        <5> QED
          BY <3>1, <3>4, <5>5 DEF CoverIs
      <4> QED
        BY <4>1, <4>2, <4>3
    <3>9. CASE ~Running(a)
      <4>1. task[a] = "none" /\ task'[o] = "live"
        BY <2>0, <3>4, <3>9 DEF Unfinished, Running, o
      <4>2. o \notin Q \cup E
        BY <1>5, <3>1, <3>5, <4>1 DEF Opens
      <4>3. task[o] = "live" /\ Running(o)
        BY <1>5, <3>4, <4>1, <4>2 DEF Opens, Running
      <4>4. ~IsForeground(o)
        BY <3>7, <4>2, <4>3
      <4> QED
        BY <3>1, <3>4, <3>6, <4>3, <4>4 DEF CoverIs, o
    <3> QED
      BY <3>8, <3>9
  <2> QED
    BY <2>1, <2>2
<1> QED
  BY <1>1, <1>3, <1>4, <1>5, Kinds

\* While an action runs, nothing exclusive ahead of its runner is unfinished.
TurnInv ==
  \A a, b \in Listed : Ahead(a, Owner(b)) /\ Running(b) /\ IsExclusive(TypeOf(a)) => ~Unfinished(a)

\* CoverInv says so as long as the runner runs.
TurnNow ==
  \A a, b \in Listed :
    Ahead(a, Owner(b)) /\ Running(b) /\ IsExclusive(TypeOf(a)) /\ Running(Owner(b)) => ~Unfinished(a)

\* An exclusive action that runs has awaited all there was before it.
LEMMA CoverTurns == TypeInv /\ AwaitInv /\ RunnerInv /\ CoverInv => TurnNow
<1> SUFFICES ASSUME TypeInv, AwaitInv, RunnerInv, CoverInv, NEW a \in Listed, NEW b \in Listed,
                    Ahead(a, Owner(b)), Running(b), IsExclusive(TypeOf(a)), Running(Owner(b)),
                    Unfinished(a)
             PROVE  FALSE
  BY DEF TurnNow
<1>1. a \in Actions /\ Owner(b) \in Runners /\ b \in Own(Owner(b)) /\ task[b] # "none"
  BY RunnerFacts DEF Running
<1>2. frame[Owner(b)].mode = "barriers"
  BY <1>1 DEF CoverInv, CoverIs
<1> QED
  BY <1>1, <1>2 DEF RunnerInv, RunnerIs, Made

\* After it has ended, nothing ahead of it begins again.
LEMMA TurnStep ==
  ASSUME TypeInv, AwaitInv, TrackInv, RunnerInv, TurnInv, TurnNow', [Next]_vars
  PROVE  TurnInv'
<1>0. /\ ListOK /\ PlaceInv /\ N \in Nat /\ next \in Nat
      /\ \A a \in Actions : a \in Tasks /\ a \notin Runners /\ a[1] \in Nat /\ a[1] \in Points
      /\ \A r \in Runners : r \in Tasks /\ r[1] \in Points
      /\ \A a \in Listed : /\ a \in Actions /\ Owner(a) \in Runners /\ Owner(a) \in Tasks
                           /\ a \in Own(Owner(a)) /\ Owner(a)[1] = a[1]
  BY RunnerFacts, TaskKinds, ActionSchedulerAssumption DEF Points, ListOK
<1> SUFFICES ASSUME NEW a \in Actions, NEW b \in Actions, a \in Listed', b \in Listed',
                    Ahead(a, Owner(b))', Running(b)', IsExclusive(TypeOf(a))', Unfinished(a)',
                    ~Running(Owner(b))'
             PROVE  FALSE
  <2>1. Listed' \subseteq Actions
    BY DEF Listed
  <2> QED
    BY <2>1 DEF TurnInv, TurnNow
<1>1. ASSUME UNCHANGED <<Listed, TypeOf(a), Owner(a), Owner(b)>>, Running(b),
             Unfinished(a)
      PROVE  FALSE
  BY <1>1 DEF TurnInv, Ahead
<1>2. CASE Winds
  <2>1. /\ Listed' = Listed /\ TypeOf(a)' = TypeOf(a) /\ Owner(a)' = Owner(a) /\ Owner(b)' = Owner(b)
    BY <1>2, SameLists DEF Winds
  <2>2. Running(b) /\ Unfinished(a)
    <3>1. Owner(a) \in Tasks /\ a \in Tasks /\ b \in Tasks
      BY <1>0, <2>1
    <3> QED
      BY <1>2, <2>1, <3>1 DEF Winds, Unfinished, Running
  <2> QED
    BY <1>1, <2>1, <2>2
<1>3. ASSUME NEW r \in Runners, NEW S \in SUBSET Own(r), UNCHANGED list, Released(r),
             \A t \in Tasks : task'[t] = IF t \in S THEN "live" ELSE task[t],
             \A x \in S : task[x] = "none"
      PROVE  FALSE
  <2>1. /\ Listed' = Listed /\ TypeOf(a)' = TypeOf(a) /\ Owner(a)' = Owner(a) /\ Owner(b)' = Owner(b)
    BY <1>3, SameLists
  <2>2. \A p \in Runners : task'[p] = task[p]
    BY <1>3, RunnerFacts
  <2>3. Running(b)
    <3>1. b \notin S
      <4>1. b \in S => Owner(b) = r
        BY <1>3, RunnerFacts
      <4> QED
        BY <1>3, <2>1, <2>2, <4>1 DEF Released, Running
    <3> QED
      BY <1>0, <1>3, <3>1 DEF Running
  <2>4. Unfinished(a)
    <3>1. a \in S => Owner(a) = r /\ task[a] = "none"
      BY <1>3, RunnerFacts
    <3>2. a \notin S => task'[a] = task[a]
      BY <1>0, <1>3
    <3>3. task'[Owner(a)] = task[Owner(a)]
      BY <1>0, <2>1, <2>2
    <3> QED
      BY <1>3, <2>1, <3>1, <3>2, <3>3 DEF Unfinished, Running, Released
  <2> QED
    BY <1>1, <2>1, <2>3, <2>4
<1>4. ASSUME NEW r \in Runners, NEW i \in First(r)..(Last(r) + 1), NEW j \in i..(Last(r) + 1),
             Stretches(r, i, j)
      PROVE  FALSE
  <2>1. Batch(r, i, j) \in SUBSET Own(r) /\ \A x \in Batch(r, i, j) : task[x] = "none"
    BY <1>4, RunnerFacts DEF Stretches
  <2> QED
    BY <1>3, <1>4, <2>1 DEF Stretches
<1>5. ASSUME NEW r \in Runners, NEW c \in Own(r), Starts(r, c)
      PROVE  FALSE
  <2>1. {c} \in SUBSET Own(r) /\ \A x \in {c} : task[x] = "none"
    BY <1>5, RunnerFacts
  <2>2. \A t \in Tasks : task'[t] = IF t \in {c} THEN "live" ELSE task[t]
    BY <1>5 DEF Starts
  <2> QED
    BY <1>3, <1>5, <2>1, <2>2 DEF Starts
<1>6. ASSUME NEW Q \in SUBSET Runners, NEW E \in SUBSET Runners, NEW B \in SUBSET Tasks,
             Opens(Q, E, B)
      PROVE  FALSE
  <2>1. /\ task'[a] = task[a] /\ task'[b] = task[b] /\ Running(b)
    BY <1>0, <1>6 DEF Opens, Running
  <2>2. /\ b \in Listed /\ Owner(b)' = Owner(b) /\ Owner(b) \in Runners /\ Owner(b)[1] = b[1]
    BY <1>0, <1>6, <2>1, OpensKeeps DEF Running
  <2>3. b[1] <= next /\ list[b[1]] # <<>> /\ (E = {} => b[1] # next)
    <3>1. task[b] # "none" /\ b[1] \in Points
      BY <1>0, <2>1 DEF Running
    <3>2. list[b[1]] # <<>>
      BY <1>0, <3>1 DEF PlaceInv
    <3>3. ~(b[1] > next)
      BY <1>0, <3>1, <3>2 DEF PlaceInv
    <3>4. E = {} => b[1] # next
      BY <1>0, <1>6, <3>1 DEF Opens
    <3> QED
      BY <1>0, <3>1, <3>2, <3>3, <3>4
  <2>4. a[1] <= b[1] /\ (a[1] = b[1] => IsForeground(Owner(a))')
    BY <1>0, <2>2 DEF Ahead
  <2>5. list'[a[1]] = list[a[1]]
    <3>1. /\ \A p \in Points : list'[p] = list[p] \/ (p = next /\ list[p] = <<>>)
          /\ E # {} => UNCHANGED list
      BY <1>6 DEF Opens
    <3> QED
      BY <1>0, <2>3, <2>4, <3>1
  <2>6. /\ a \in Listed /\ Owner(a)' = Owner(a) /\ TypeOf(a)' = TypeOf(a)
        /\ Owner(a) \in Runners /\ Owner(a) \in Tasks /\ Owner(a)[1] = a[1]
    BY <1>0, <2>5, PointKept
  <2>7. Owner(a) \notin Q
    <3> SUFFICES ASSUME Owner(a) \in Q
                 PROVE  FALSE
      OBVIOUS
    <3>1. a[1] = next /\ b[1] = next
      <4>1. a[1] = next
        BY <1>6, <2>6 DEF Opens
      <4> QED
        BY <1>0, <2>3, <2>4, <4>1
    <3>2. E # {} /\ Owner(a) = Background(next) /\ IsForeground(Owner(a))
      BY <1>6, <2>3, <2>4, <2>6, <3>1 DEF Opens
    <3> QED
      BY <1>6, <3>2, TaskKinds DEF Opens
  <2>8. Unfinished(a)
    <3>1. task'[Owner(a)] = "live" => task[Owner(a)] = "live"
      BY <1>6, <2>6, <2>7 DEF Opens
    <3> QED
      BY <2>1, <2>6, <3>1 DEF Unfinished, Running
  <2>9. Ahead(a, Owner(b))
    BY <2>2, <2>6 DEF Ahead
  <2> QED
    BY <2>1, <2>2, <2>6, <2>8, <2>9 DEF TurnInv
<1> QED
  BY <1>2, <1>4, <1>5, <1>6, Kinds

\* What ExclusiveInTurn says follows from the invariants.
LEMMA InTurn ==
  ASSUME TypeInv, AwaitInv, RunnerInv, CoverInv, TurnInv
  PROVE  ExclusiveInTurn
<1>0. /\ ListOK /\ \A a \in Listed : /\ a \in Actions /\ Owner(a) \in Runners /\ a \in Own(Owner(a))
                                     /\ Owner(a)[1] = a[1] /\ a[1] \in Nat /\ a[2] \in Nat
      /\ \A a \in Listed : a[1] \in Points
  BY RunnerFacts, TaskKinds, ActionSchedulerAssumption DEF Points
<1> SUFFICES ASSUME NEW a \in Listed, NEW b \in Listed, Earlier(a, b), Running(b),
                    IsExclusive(TypeOf(a)) \/ IsExclusive(TypeOf(b)), Unfinished(a)
             PROVE  FALSE
  BY DEF ExclusiveInTurn
<1>1. CASE Owner(a) = Owner(b)
  <2> DEFINE o == Owner(b)
  <2>0. o \in Runners /\ a \in Own(o) /\ b \in Own(o) /\ a[1] = b[1] /\ a[2] < b[2]
        /\ a[2] \in Nat /\ b[2] \in Nat /\ a \in Actions /\ b \in Actions
    BY <1>0, <1>1 DEF Earlier
  <2>1. CASE Running(o)
    <3>1. RunnerIs(o) /\ task[b] # "none" /\ Made(o, b)
      BY <2>0, <2>1 DEF RunnerInv, RunnerIs, Running
    <3>2. frame[o].mode \in {"before", "inside"} => frame[o].at \in Nat
      BY <1>0, <2>0, EntryIs DEF TypeInv, EntryInv
    <3>3. Made(o, a)
      BY <2>0, <3>1, <3>2 DEF Made
    <3>4. Running(a)
      BY <2>0, <3>1, <3>3 DEF RunnerIs, Unfinished
    <3>5. frame[o].mode = "inside" /\ a[2] = frame[o].at /\ b[2] = frame[o].at
      BY <2>0, <3>1, <3>4 DEF RunnerIs
    <3> QED
      BY <2>0, <3>5
  <2>2. CASE ~Running(o)
    <3>1. Running(a)
      BY <1>1, <2>2 DEF Unfinished, Running
    <3> QED
      BY <1>1, <2>0, <2>2, <3>1 DEF AwaitInv, Awaited, Loose, IsExclusive
  <2> QED
    BY <2>1, <2>2
<1>2. CASE Owner(a) # Owner(b)
  <2>1. Ahead(a, Owner(b))
    <3>1. CASE a[1] < b[1]
      BY <1>0, <3>1 DEF Ahead
    <3>2. CASE a[1] = b[1] /\ a[2] < b[2]
      <4>1. IsForeground(Owner(a)) /\ ~IsForeground(Owner(b))
        <5>1. LastBlocker(list[a[1]]) \in Nat
          BY <1>0, PointList
        <5>2. /\ IsForeground(Owner(a)) <=> a[2] <= LastBlocker(list[a[1]])
              /\ IsForeground(Owner(b)) <=> b[2] <= LastBlocker(list[a[1]])
          BY <1>0, <3>2, OwnerIs
        <5>3. a[2] <= LastBlocker(list[a[1]]) /\ ~(b[2] <= LastBlocker(list[a[1]]))
          BY <1>0, <1>2, <3>2, <5>1 DEF Owner
        <5> QED
          BY <5>2, <5>3
      <4> QED
        BY <1>0, <3>2, <4>1 DEF Ahead
    <3> QED
      BY <3>1, <3>2 DEF Earlier
  <2>2. CASE IsExclusive(TypeOf(a))
    BY <2>1, <2>2 DEF TurnInv
  <2>3. CASE IsExclusive(TypeOf(b))
    <3>1. Running(Owner(b)) /\ b \in Own(Owner(b)) /\ Owner(b) \in Runners
      BY <1>0, <2>3 DEF AwaitInv, Awaited, Loose, IsExclusive
    <3>2. frame[Owner(b)].mode = "inside"
      BY <2>3, <3>1 DEF RunnerInv, RunnerIs
    <3> QED
      BY <1>0, <2>1, <3>1, <3>2 DEF CoverInv, CoverIs
  <2> QED
    BY <2>2, <2>3
<1> QED
  BY <1>1, <1>2

\* The invariants that hold under every liberty
SchedInv == TypeInv /\ AwaitInv /\ TrackInv /\ RunnerInv /\ WaitInv /\ HeldInv

\* Nothing runs at first.
LEMMA SchedInit == Init => SchedInv
<1> SUFFICES ASSUME Init
             PROVE  SchedInv
  OBVIOUS
<1>1. /\ \A t \in Tasks : task[t] = "none" /\ ~Running(t)
      /\ tracked = {}
  BY DEF Init, Running
<1>2. /\ \A p \in Points : Background(p) \in Tasks
      /\ Actions \subseteq Tasks /\ Runners \subseteq Tasks
  BY TaskKinds
<1>3. AwaitInv /\ TrackInv /\ RunnerInv /\ WaitInv /\ HeldInv
  BY <1>1, <1>2 DEF AwaitInv, TrackInv, RunnerInv, WaitInv, HeldInv
<1> QED
  BY <1>3, TypeInit DEF SchedInv

\* Every step keeps the invariants that hold under either liberty.
LEMMA SchedStep == SchedInv /\ [Next]_vars => SchedInv'
<1>1. SchedInv /\ [Next]_vars => TypeInv' /\ AwaitInv' /\ TrackInv' /\ RunnerInv' /\ HeldInv'
  BY TypeStep, PlaceStep, AwaitStep, TrackStep, RunnerInvStep, HeldStep DEF SchedInv, TypeInv
<1>2. SchedInv /\ [Next]_vars => WaitInv'
  BY <1>1, WaitStep DEF SchedInv
<1> QED
  BY <1>1, <1>2 DEF SchedInv

\* A SINGLE or HARD action runs alone and in its turn, whatever tasks its order left in
\* the background and however late they end: the barriers of
\* _execute_order_action_sequence are enough, unless cancelOrder finds the worker in the
\* wait for SOFT actions.
THEOREM TakesItsTurn ==
  ASSUME "cancelDuringSoft" \notin May
  PROVE  Spec => []ExclusiveInTurn
<1> DEFINE I == SchedInv /\ StrayInv /\ CoverInv /\ TurnInv
<1>1. Init => I
  <2>1. ASSUME Init
        PROVE  StrayInv /\ CoverInv /\ TurnInv
    <3>1. \A t \in Tasks : ~Running(t)
      BY <2>1 DEF Init, Running
    <3>2. Actions \subseteq Tasks /\ Runners \subseteq Tasks /\ Listed \subseteq Actions
      BY TaskKinds DEF Listed
    <3> QED
      BY <3>1, <3>2 DEF StrayInv, CoverInv, TurnInv
  <2> QED
    BY <2>1, SchedInit
<1>2. I /\ [Next]_vars => SchedInv' /\ StrayInv' /\ CoverInv'
  BY SchedStep, StrayStep, CoverStep DEF SchedInv
<1>3. (SchedInv /\ CoverInv => TurnNow) /\ (SchedInv' /\ CoverInv' => TurnNow')
  <2>1. SchedInv /\ CoverInv => TurnNow
    BY CoverTurns DEF SchedInv
  <2> QED
    BY <2>1, PTL
<1>4. I /\ TurnNow' /\ [Next]_vars => TurnInv'
  BY TurnStep DEF SchedInv
<1>5. I => ExclusiveInTurn
  BY InTurn DEF SchedInv
<1> QED
  BY <1>1, <1>2, <1>3, <1>4, <1>5, PTL DEF Spec

-----------------------------------------------------------------------------
(* What cancelOrder reaches *)

\* The foreground that the worker is in has been cancelled.
Stopped == worker = "acting" /\ task[Foreground(next)] = "cancelling"

\* An order that is being cancelled, or that was
Halted == canceller \/ worker = "dead" \/ Stopped

\* What is being cancelled belongs to a cancelOrder that still awaits it, or to the
\* foreground that was cancelled; no runner is live until the next order, and one that
\* is live has nothing cancelled before it.
CancelInv ==
  /\ \A t \in Tasks : task[t] = "cancelling" =>
       canceller \/ (Stopped /\ (t = Foreground(next) \/ t \in frame[Foreground(next)].wait))
  /\ canceller => worker \in {"done", "dead"} \/ Stopped
  /\ canceller => tracked \subseteq cancelWait
  /\ Halted => \A r \in Runners : task[r] # "live"
  /\ \A r \in Runners : task[r] = "live" =>
       \A t \in Pending(r) : task[t] \in {"live", "ended"}

\* A runner that is live shows that nothing is being cancelled.
LEMMA NothingCancelled ==
  ASSUME CancelInv, \/ \E r \in Runners : task[r] = "live"
                    \/ worker \in {"moving", "stopping", "parked"}
                    \/ ~Halted
  PROVE  ~Halted /\ ~canceller /\ \A t \in Tasks : task[t] # "cancelling"
<1>1. ~Halted
  BY DEF CancelInv, Halted, Stopped
<1> QED
  BY <1>1 DEF CancelInv, Halted

\* A step after which nothing is being cancelled
LEMMA CalmAfter ==
  ASSUME ~canceller', worker' # "dead", \A t \in Tasks : task'[t] # "cancelling",
         next' \in Points \/ worker' # "acting",
         \A r \in Runners : task'[r] = "live" =>
           \A t \in Pending(r)' : task'[t] \in {"live", "ended"}
  PROVE  CancelInv' /\ ~Halted'
<1>1. ~Stopped'
  BY TaskKinds DEF Stopped
<1> QED
  BY <1>1 DEF CancelInv, Halted

\* Every step keeps it, if no order begins while cancelOrder is being handled.
LEMMA CancelStep ==
  ASSUME SchedInv, SchedInv', CancelInv, [Next]_vars, "orderDuringCancel" \notin May
  PROVE  CancelInv' /\ (Halted' => Halted \/ CancelOrder)
<1>0. /\ TypeInv /\ AwaitInv /\ TrackInv /\ RunnerInv /\ WaitInv /\ HeldInv
      /\ ListOK /\ WorkerOK /\ TaskOK /\ PlaceInv /\ SetsOK
      /\ \A a \in Actions : a \in Tasks /\ a \notin Runners
      /\ \A r \in Runners : r \in Tasks
      /\ \A r \in Runners : frame[r].wait \subseteq Tasks /\ frame[r].prior \subseteq Tasks
      /\ tracked \subseteq Tasks
      /\ \A t \in Tasks : t \in Actions \/ t \in Runners
      /\ worker = "acting" => next \in Points /\ Foreground(next) \in Runners /\ Running(Foreground(next))
  BY RunnerFacts, TypeParts, TaskKinds DEF SchedInv, TypeInv, PlaceInv
<1> DEFINE Goal == CancelInv' /\ (Halted' => Halted \/ CancelOrder)
           InOrder == \A r \in Runners : task'[r] = "live" =>
                        \A t \in Pending(r)' : task'[t] \in {"live", "ended"}
<1> SUFFICES Goal
  OBVIOUS
<1>1. ASSUME NEW r \in Runners, NEW S \in SUBSET Actions, Released(r),
             \A t \in Tasks : task'[t] = IF t \in S THEN "live" ELSE task[t],
             \A p \in Runners : p # r => frame'[p] = frame[p],
             \A t \in Pending(r)' : t \in S \/ t \in frame[r].prior,
             UNCHANGED <<worker, next, canceller>>
      PROVE  Goal
  <2>1. ~Halted /\ ~canceller /\ \A t \in Tasks : task[t] # "cancelling"
    BY <1>1, NothingCancelled DEF Released
  <2>2. \A t \in Tasks : task'[t] # "cancelling"
    BY <1>1, <2>1
  <2>3. worker # "dead"
    BY <2>1 DEF Halted
  <2>4. InOrder
    <3> SUFFICES ASSUME NEW q \in Runners, task'[q] = "live", NEW t \in Pending(q)'
                 PROVE  task'[t] \in {"live", "ended"}
      OBVIOUS
    <3>1. task[q] = "live"
      BY <1>0, <1>1
    <3>2. t \in S \/ t \in Pending(q)
      BY <1>1 DEF Pending
    <3>3. t \in Tasks
      BY <1>0, <3>2 DEF Pending
    <3>4. t \in Pending(q) => task[t] \in {"live", "ended"}
      BY <3>1 DEF CancelInv
    <3> QED
      BY <1>1, <3>2, <3>3, <3>4
  <2> QED
    BY <1>0, <1>1, <2>1, <2>2, <2>3, <2>4, CalmAfter
<1>2. ASSUME NEW r \in Runners, Stretch(r)
      PROVE  Goal
  <2>1. PICK i \in First(r)..(Last(r) + 1) : \E j \in i..(Last(r) + 1) : Stretches(r, i, j)
    BY <1>0, <1>2, StretchesIs
  <2>2. PICK j \in i..(Last(r) + 1) : Stretches(r, i, j)
    BY <2>1
  <2>3. Batch(r, i, j) \in SUBSET Actions
    BY <1>0, <2>2, RunnerFacts DEF Stretches
  <2>4. \A t \in Pending(r)' : t \in Batch(r, i, j) \/ t \in frame[r].prior
    BY <2>2 DEF Stretches, Pending
  <2>5. UNCHANGED <<worker, next, canceller>>
    BY <1>2 DEF Stretch, cancelVars
  <2> QED
    BY <1>1, <2>2, <2>3, <2>4, <2>5 DEF Stretches
<1>3. ASSUME NEW r \in Runners, StartExclusive(r)
      PROVE  Goal
  <2> DEFINE a == <<r[1], frame[r].at>>
  <2>1. Starts(r, a)
    BY <1>0, <1>3, StartsIs
  <2> HIDE DEF a
  <2>2. {a} \in SUBSET Actions
    BY <1>0, <2>1, RunnerFacts DEF Starts
  <2>3. \A t \in Tasks : task'[t] = IF t \in {a} THEN "live" ELSE task[t]
    BY <2>1 DEF Starts
  <2>4. \A t \in Pending(r)' : t \in {a}
    BY <2>1 DEF Starts, Pending
  <2>5. UNCHANGED <<worker, next, canceller>>
    BY <1>3 DEF StartExclusive, cancelVars
  <2> QED
    BY <1>1, <2>1, <2>2, <2>3, <2>4, <2>5 DEF Starts
<1>4. ASSUME Arrive \/ StopForActions \/ \E r \in Runners : EndForeground(r)
      PROVE  Goal
  <2>1. /\ ~Halted /\ ~canceller /\ \A t \in Tasks : task[t] # "cancelling"
        /\ worker' # "dead" /\ ~canceller'
        /\ next' \in Points \/ worker' # "acting"
    <3>1. \/ \E r \in Runners : task[r] = "live"
          \/ worker \in {"moving", "stopping", "parked"}
      BY <1>4 DEF Arrive, StopForActions, EndForeground, Released
    <3>2. ~Halted /\ ~canceller /\ \A t \in Tasks : task[t] # "cancelling"
      BY <3>1, NothingCancelled
    <3>3. /\ worker' # "dead" /\ canceller' = canceller
          /\ next' = next \/ worker' # "acting"
          /\ worker' = "acting" => next \in Points
      BY <1>0, <1>4 DEF Arrive, StopForActions, EndForeground, cancelVars, PlaceInv
    <3> QED
      BY <3>2, <3>3
  <2>2. PICK Q, E \in SUBSET Runners : \E B \in SUBSET Tasks : Opens(Q, E, B)
    BY <1>0, <1>4, OpensIs
  <2>3. PICK B \in SUBSET Tasks : Opens(Q, E, B)
    BY <2>2
  <2>4. \A t \in Tasks : task'[t] = IF t \in Q THEN "live" ELSE IF t \in E THEN "ended" ELSE task[t]
    BY <1>0, <2>3 DEF Opens
  <2>5. \A t \in B : task'[t] = "live"
    <3> SUFFICES ASSUME NEW t \in B
                 PROVE  task'[t] = "live"
      OBVIOUS
    <3>1. Running(t) /\ t \notin E
      <4>1. CASE t \in tracked
        <5>1. Running(t)
          BY <1>0, <4>1, TaskKinds DEF TrackInv
        <5>2. next \in Points => t # Foreground(next)
          BY <1>0, <4>1 DEF TrackInv
        <5> QED
          BY <2>3, <5>1, <5>2 DEF Opens
      <4>2. CASE t \notin tracked
        <5>1. t \in Actions /\ Running(t)
          BY <2>3, <4>2 DEF Opens, LeftRunning, Listed
        <5> QED
          BY <1>0, <5>1
      <4> QED
        BY <4>1, <4>2
    <3>2. task[t] = "live"
      BY <2>1, <3>1 DEF Running
    <3> QED
      BY <2>4, <3>1, <3>2
  <2>6. InOrder
    <3> SUFFICES ASSUME NEW q \in Runners, task'[q] = "live", NEW t \in Pending(q)'
                 PROVE  task'[t] \in {"live", "ended"}
      OBVIOUS
    <3>1. CASE q \in Q
      <4>1. t \in B
        BY <2>3, <3>1 DEF Opens, Pending, Exclusives
      <4> QED
        BY <2>5, <4>1
    <3>2. CASE q \notin Q
      <4>1. q \notin E
        BY <2>3, <3>2 DEF Opens
      <4>2. task[q] = "live" /\ frame'[q] = frame[q]
        BY <1>0, <2>3, <3>2, <4>1 DEF Opens
      <4>3. t \in Pending(q) /\ t \in Tasks
        BY <1>0, <4>2 DEF Pending
      <4>4. task[t] \in {"live", "ended"}
        BY <4>2, <4>3 DEF CancelInv
      <4> QED
        BY <2>4, <4>3, <4>4
    <3> QED
      BY <3>1, <3>2
  <2>7. \A t \in Tasks : task'[t] # "cancelling"
    BY <2>1, <2>4
  <2> QED
    BY <2>1, <2>6, <2>7, CalmAfter
<1>5. ASSUME NEW r \in Runners, EndBackground(r)
      PROVE  Goal
  <2>1. /\ task' = [task EXCEPT ![r] = "ended"] /\ frame' = [frame EXCEPT ![r] = NoFrame]
        /\ UNCHANGED <<worker, next, canceller>> /\ task[r] = "live"
    BY <1>5 DEF EndBackground, EndTask, Released, cancelVars
  <2>2. ~Halted /\ ~canceller /\ worker # "dead" /\ \A t \in Tasks : task[t] # "cancelling"
    BY <2>1, NothingCancelled DEF Halted
  <2>3. \A t \in Tasks : task'[t] = IF t = r THEN "ended" ELSE task[t]
    BY <1>0, <2>1 DEF TaskOK
  <2>4. InOrder
    <3>1. \A q \in Runners : task'[q] = "live" => task[q] = "live" /\ Pending(q)' = Pending(q)
      BY <1>0, <2>1, <2>3, TypeParts DEF Pending, TypeInv, FrameOK
    <3> QED
      BY <1>0, <2>3, <3>1 DEF CancelInv, Pending
  <2>5. \A t \in Tasks : task'[t] # "cancelling"
    BY <2>2, <2>3
  <2> QED
    BY <1>0, <2>1, <2>2, <2>4, <2>5, CalmAfter
<1>6. ASSUME NEW r \in Runners, EndCancelled(r)
      PROVE  Goal
  <2>1. /\ task' = [task EXCEPT ![r] = "cancelled"] /\ frame' = [frame EXCEPT ![r] = NoFrame]
        /\ UNCHANGED <<next, cancelVars>> /\ Broken(r) /\ tracked' = tracked \ {r}
        /\ worker' = IF IsForeground(r) THEN "dead" ELSE worker
    BY <1>6 DEF EndCancelled, EndTask
  <2>2. task[r] = "cancelling" /\ Running(r)
    BY <2>1 DEF Broken, CancelInv, Pending, Running
  <2>3. Halted /\ \A q \in Runners : task[q] # "live"
    BY <1>0, <2>2 DEF CancelInv, Halted
  <2>4. \A t \in Tasks : task'[t] = IF t = r THEN "cancelled" ELSE task[t]
    BY <1>0, <2>1 DEF TaskOK
  <2>5. \A q \in Runners : q # r => frame'[q] = frame[q]
    BY <1>0, <2>1, TypeParts DEF TypeInv, FrameOK
  <2>6. \A q \in Runners : task'[q] # "live"
    BY <1>0, <2>3, <2>4
  <2>7. CASE IsForeground(r)
    <3>1. r = Foreground(next) /\ worker = "acting"
      BY <1>0, <2>2, <2>7, TaskKinds DEF PlaceInv
    <3>2. \A t \in frame[r].wait : task[t] # "cancelling"
      BY <2>1 DEF Broken
    <3>3. \A t \in Tasks : task'[t] = "cancelling" => canceller'
      BY <1>0, <2>1, <2>4, <3>1, <3>2 DEF CancelInv, cancelVars
    <3>4. canceller' => worker' = "dead" /\ tracked' \subseteq cancelWait'
      BY <2>1, <2>7 DEF CancelInv, cancelVars
    <3> QED
      BY <2>3, <2>6, <3>3, <3>4 DEF CancelInv
  <2>8. CASE ~IsForeground(r)
    <3>1. worker = "acting" => r # Foreground(next) /\ Foreground(next) \in Runners /\ Foreground(next) \in Tasks
      BY <1>0, <2>8, TaskKinds
    <3>2. Stopped' <=> Stopped
      BY <2>1, <2>4, <2>8, <3>1 DEF Stopped
    <3>3. \A t \in Tasks : task'[t] = "cancelling" =>
            canceller' \/ (Stopped' /\ (t = Foreground(next)' \/ t \in (frame[Foreground(next)].wait)'))
      <4> SUFFICES ASSUME NEW t \in Tasks, task'[t] = "cancelling", ~canceller
                   PROVE  Stopped /\ (t = Foreground(next)' \/ t \in (frame[Foreground(next)].wait)')
        BY <2>1, <3>2 DEF cancelVars
      <4>1. Stopped /\ (t = Foreground(next) \/ t \in frame[Foreground(next)].wait)
        BY <2>4 DEF CancelInv
      <4>2. Foreground(next)' = Foreground(next)
        BY <2>1 DEF Foreground
      <4>3. frame'[Foreground(next)] = frame[Foreground(next)]
        BY <2>5, <3>1, <4>1 DEF Stopped
      <4> QED
        BY <4>1, <4>2, <4>3
    <3>4. canceller' => (worker' \in {"done", "dead"} \/ Stopped') /\ tracked' \subseteq cancelWait'
      BY <2>1, <2>8, <3>2 DEF CancelInv, cancelVars
    <3> QED
      BY <2>3, <2>6, <3>3, <3>4 DEF CancelInv
  <2> QED
    BY <2>7, <2>8
<1>7. ASSUME NEW a \in Actions, EndAction(a)
      PROVE  Goal
  <2>1. /\ task' = [task EXCEPT ![a] = IF task[a] = "live" THEN "ended" ELSE "cancelled"]
        /\ UNCHANGED <<worker, next, frame, cancelVars>> /\ Running(a) /\ tracked' \subseteq tracked
    BY <1>7 DEF EndAction, EndTask
  <2>2. /\ \A t \in Tasks : t # a => task'[t] = task[t]
        /\ task'[a] = IF task[a] = "live" THEN "ended" ELSE "cancelled"
    BY <1>0, <2>1 DEF TaskOK
  <2>3. Stopped' <=> Stopped
    BY <1>0, <2>1, <2>2 DEF Stopped
  <2>4. (Halted' <=> Halted) /\ Foreground(next)' = Foreground(next)
    BY <2>1, <2>3 DEF Halted, cancelVars, Foreground
  <2>5. \A q \in Runners : task'[q] = task[q] /\ Pending(q)' = Pending(q)
    BY <1>0, <2>1, <2>2 DEF Pending
  <2>6. InOrder
    <3> SUFFICES ASSUME NEW q \in Runners, task[q] = "live", NEW t \in Pending(q)
                 PROVE  task'[t] \in {"live", "ended"}
      BY <2>5
    <3>1. task[t] \in {"live", "ended"} /\ t \in Tasks
      BY <1>0 DEF CancelInv, Pending
    <3>2. t = a => task'[a] = "ended"
      BY <2>1, <2>2, <3>1 DEF Running
    <3> QED
      BY <2>2, <3>1, <3>2
  <2>7. \A t \in Tasks : task'[t] = "cancelling" => task[t] = "cancelling"
    BY <2>2
  <2> QED
    BY <2>1, <2>3, <2>4, <2>5, <2>6, <2>7 DEF CancelInv, cancelVars
<1>8. CASE StopFails \/ Restart \/ CompleteOrder \/ NewOrder
  <2>1. /\ UNCHANGED <<frame, cancelVars>>
        /\ worker \in {"stopping", "parked", "moving", "done", "dead"}
        /\ worker \in {"done", "dead"} => ~canceller
        /\ worker' \notin {"dead", "acting"}
        /\ \A t \in Tasks : task'[t] = task[t] \/ (task[t] = "none" /\ task'[t] \in {"ended", "skipped"})
    <3>1. CASE StopFails
      <4>1. \A t \in Tasks : task'[t] # task[t] => t[1] = next /\ task'[t] \in {"ended", "skipped"}
        BY <3>1 DEF StopFails
      <4> QED
        BY <1>0, <3>1, <4>1 DEF StopFails, PlaceInv
    <3>2. CASE Restart \/ CompleteOrder \/ NewOrder
      BY <3>2 DEF Restart, CompleteOrder, NewOrder
    <3> QED
      BY <1>8, <3>1, <3>2
  <2>2. ~canceller /\ ~Stopped
    BY <2>1, NothingCancelled DEF Stopped
  <2>3. \A t \in Tasks : task[t] # "cancelling"
    BY <2>2 DEF CancelInv
  <2>4. InOrder
    <3> SUFFICES ASSUME NEW q \in Runners, task'[q] = "live", NEW t \in Pending(q)
                 PROVE  task'[t] \in {"live", "ended"}
      BY <2>1 DEF Pending
    <3>1. task[q] = "live" /\ t \in Tasks
      BY <1>0, <2>1 DEF Pending
    <3>2. task[t] \in {"live", "ended"}
      BY <3>1 DEF CancelInv
    <3> QED
      BY <2>1, <3>1, <3>2
  <2>5. \A t \in Tasks : task'[t] # "cancelling"
    BY <2>1, <2>3
  <2> QED
    BY <2>1, <2>2, <2>4, <2>5, CalmAfter DEF cancelVars
<1>9. CASE CancelOrder
  <2> DEFINE S == tracked \cup {r \in Runners : IsForeground(r) /\ Running(r)}
  <2>1. /\ CancelTasks(S) /\ UNCHANGED <<next, frame, tracked>>
        /\ canceller' = TRUE /\ cancelWait' = tracked
        /\ worker' = IF worker \in {"moving", "stopping", "parked"} THEN "dead" ELSE worker
    BY <1>9 DEF CancelOrder
  <2>2. /\ \A t \in Tasks : task'[t] # task[t] => task[t] = "live"
        /\ \A t \in S : t \in Tasks => task'[t] # "live" /\ (Running(t) => task'[t] = "cancelling")
    BY <2>1 DEF CancelTasks, Running
  <2>3. \A r \in Runners : task'[r] # "live"
    <3> SUFFICES ASSUME NEW r \in Runners, task'[r] = "live"
                 PROVE  FALSE
      OBVIOUS
    <3>1. r \notin S /\ r \in Tasks
      BY <1>0, <2>2
    <3>2. task[r] = "live"
      BY <2>1, <3>1 DEF CancelTasks
    <3> QED
      BY <1>0, <3>1, <3>2, TaskKinds DEF TrackInv, Running
  <2>4. worker = "acting" => Stopped'
    <3>1. worker = "acting" => Foreground(next) \in S /\ Running(Foreground(next)) /\ Foreground(next) \in Tasks
      BY <1>0, TaskKinds
    <3> QED
      BY <2>1, <2>2, <3>1 DEF Stopped
  <2>5. worker' \in {"done", "dead"} \/ Stopped'
    BY <1>0, <2>1, <2>4 DEF WorkerOK
  <2> QED
    BY <1>9, <2>1, <2>3, <2>5 DEF CancelInv
<1>10. CASE FinishCancel
  <2>1. /\ canceller /\ \A t \in cancelWait : ~Running(t)
        /\ canceller' = FALSE /\ UNCHANGED <<next, worker, task, frame, tracked>>
    BY <1>10 DEF FinishCancel
  <2>2. tracked = {}
    <3> SUFFICES ASSUME NEW t \in tracked
                 PROVE  FALSE
      OBVIOUS
    <3>1. ~Running(t)
      BY <2>1 DEF CancelInv
    <3> QED
      BY <1>0, <3>1, TaskKinds DEF TrackInv
  <2>3. \A q \in Runners : task[q] # "live"
    BY <2>1 DEF CancelInv, Halted
  <2>4. \A q \in Runners : Running(q) => Stopped /\ q = Foreground(next)
    <3> SUFFICES ASSUME NEW q \in Runners, Running(q)
                 PROVE  Stopped /\ q = Foreground(next)
      OBVIOUS
    <3>1. IsForeground(q)
      BY <1>0, <2>2, TaskKinds DEF TrackInv
    <3>2. q = Foreground(next) /\ worker = "acting"
      BY <1>0, <3>1, TaskKinds DEF PlaceInv
    <3> QED
      BY <2>3, <3>2 DEF Stopped, Running
  <2>5. \A t \in Tasks : task[t] = "cancelling" =>
          Stopped /\ (t = Foreground(next) \/ t \in frame[Foreground(next)].wait)
    <3> SUFFICES ASSUME NEW t \in Tasks, task[t] = "cancelling"
                 PROVE  Stopped /\ (t = Foreground(next) \/ t \in frame[Foreground(next)].wait)
      OBVIOUS
    <3>1. CASE t \in Runners
      BY <2>4, <3>1 DEF Running
    <3>2. CASE t \in Actions
      <4>1. Awaited(t) /\ t \in Listed
        BY <1>0, <2>2, <3>2 DEF HeldInv, AwaitInv, Running
      <4>2. Owner(t) \in Runners
        BY <1>0, <4>1, RunnerFacts
      <4> QED
        BY <2>4, <4>1, <4>2 DEF Awaited
    <3> QED
      BY <1>0, <3>1, <3>2
  <2>6. Stopped' <=> Stopped
    BY <2>1 DEF Stopped
  <2>7. Halted /\ Foreground(next)' = Foreground(next)
    BY <2>1 DEF Halted, Foreground
  <2> QED
    BY <2>1, <2>3, <2>5, <2>6, <2>7 DEF CancelInv
<1>11. CASE UNCHANGED vars
  <2>1. UNCHANGED <<next, worker, task, frame, tracked, canceller, cancelWait>>
    BY <1>11 DEF vars, cancelVars
  <2>2. UNCHANGED <<Stopped, Halted>>
    BY <2>1 DEF Stopped, Halted
  <2>3. \A q \in Runners : Pending(q)' = Pending(q)
    BY <2>1 DEF Pending
  <2> QED
    BY <2>1, <2>2, <2>3 DEF CancelInv
<1> HIDE DEF Goal
<1> QED
  BY <1>2, <1>3, <1>4, <1>5, <1>6, <1>7, <1>8, <1>9, <1>10, <1>11 DEF Next, RunnerStep

\* The cancellation of an order ends no task of another one: a runner that is live
\* awaits nothing that was cancelled, since cancelOrder cancels every runner there is and
\* no order begins before it has awaited what it cancelled.
THEOREM CancelKeepsToItsOrder ==
  ASSUME "orderDuringCancel" \notin May
  PROVE  Spec => []CancelStaysInOrder
<1> DEFINE I == SchedInv /\ CancelInv
<1>1. Init => I
  <2>1. ASSUME Init
        PROVE  CancelInv
    <3>1. /\ \A t \in Tasks : task[t] = "none"
          /\ ~canceller /\ worker = "moving"
      BY <2>1 DEF Init
    <3> QED
      BY <3>1, TaskKinds DEF CancelInv, Halted, Stopped
  <2> QED
    BY <2>1, SchedInit
<1>2. I /\ [Next]_vars => I'
  BY SchedStep, CancelStep
<1>3. I => CancelStaysInOrder
  BY DEF CancelInv, CancelStaysInOrder, Pending
<1> QED
  BY <1>1, <1>2, <1>3, PTL DEF Spec

\* No action is live where the order is halted.
ReachInv == Halted => \A a \in Actions : task[a] # "live"

\* Every step keeps it: cancelOrder cancels all that runs.
LEMMA ReachStep ==
  ASSUME SchedInv, StrayInv, CancelInv, ReachInv, [Next]_vars, Halted' => Halted \/ CancelOrder,
         "cancelDuringSoft" \notin May
  PROVE  ReachInv'
<1>0. /\ TypeInv /\ AwaitInv /\ TrackInv /\ RunnerInv /\ WaitInv
      /\ \A a \in Actions : a \in Tasks /\ a \notin Runners
      /\ \A r \in Runners : r \in Tasks
      /\ \A a \in Listed : a \in Own(Owner(a)) /\ Owner(a) \in Runners
  BY RunnerFacts DEF SchedInv
<1> SUFFICES ASSUME Halted', NEW a \in Actions, task'[a] = "live"
             PROVE  FALSE
  BY DEF ReachInv
<1>1. ASSUME Halted, task[a] = "live"
      PROVE  FALSE
  BY <1>1 DEF ReachInv
<1>2. CASE CancelOrder
  <2> DEFINE S == tracked \cup {r \in Runners : IsForeground(r) /\ Running(r)}
  <2>1. /\ CancelTasks(S) /\ \A r \in Runners : ~HoldsUntracked(r)
    BY <1>2 DEF CancelOrder
  <2>2. /\ task[a] = "live" /\ a \notin S
        /\ \A r \in Runners : r \in S => a \notin frame[r].wait
    BY <1>0, <2>1 DEF CancelTasks
  <2>3. a \in Listed /\ Owner(a) \in Runners /\ Running(a)
    BY <1>0, <2>2 DEF AwaitInv, Running
  <2>4. CASE Awaited(a)
    <3>1. Owner(a) \in S
      BY <1>0, <2>3, <2>4, TaskKinds DEF Awaited, TrackInv
    <3> QED
      BY <2>2, <2>3, <2>4, <3>1 DEF Awaited
  <2>5. CASE ~Awaited(a)
    <3>0. a \notin tracked
      BY <2>2
    <3>1. Loose(a) /\ task[Owner(a)] = "live" /\ frame[Owner(a)].mode = "last"
      <4>1. task[Owner(a)] = "live"
        BY <2>3, <2>5, <3>0 DEF StrayInv
      <4>2. Running(Owner(a))
        BY <4>1 DEF Running
      <4> QED
        BY <1>0, <2>3, <2>5, <4>1, <4>2 DEF AwaitInv
    <3>2. a[2] <= Last(Owner(a)) /\ a[1] = Owner(a)[1]
      <4>1. ListOK /\ a \in Own(Owner(a)) /\ a[1] = Owner(a)[1]
        BY <1>0, <2>3, RunnerFacts
      <4>2. a[2] \in First(Owner(a))..Last(Owner(a))
        BY <2>3, <4>1, EntryIs
      <4> QED
        BY <4>1, <4>2
    <3>3. a \in LeftRunning(Owner(a))
      BY <2>3, <3>1, <3>2 DEF LeftRunning, Loose
    <3> QED
      BY <2>1, <2>3, <3>1, <3>3 DEF HoldsUntracked, Loose
  <2> QED
    BY <2>4, <2>5
<1>3. CASE ~CancelOrder
  <2>0. Halted /\ \A r \in Runners : task[r] # "live"
    BY <1>3 DEF CancelInv
  <2>1. CASE Winds
    BY <1>0, <1>1, <2>0, <2>1 DEF Winds
  <2>2. CASE \E Q, E \in SUBSET Runners : \E B \in SUBSET Tasks : Opens(Q, E, B)
    <3>1. task'[a] = task[a]
      BY <1>0, <2>2 DEF Opens
    <3> QED
      BY <1>1, <2>0, <3>1
  <2>3. ASSUME NEW r \in Runners, Released(r)
        PROVE  FALSE
    BY <2>0, <2>3 DEF Released
  <2> QED
    BY <1>0, <2>1, <2>2, <2>3, Kinds DEF Stretches, Starts
<1> QED
  BY <1>2, <1>3

\* cancelOrder reaches every action of the order: those that are awaited through their
\* runner, those left running because they are tracked, and no other one runs.
THEOREM CancelReaches ==
  ASSUME "cancelDuringSoft" \notin May, "orderDuringCancel" \notin May
  PROVE  Spec => []CancelReachesAll
<1> DEFINE I == SchedInv /\ StrayInv /\ CancelInv /\ ReachInv
<1>1. Init => I
  <2>1. ASSUME Init
        PROVE  StrayInv /\ CancelInv /\ ReachInv
    <3>1. /\ \A t \in Tasks : task[t] = "none" /\ ~Running(t)
          /\ ~canceller /\ worker = "moving"
      BY <2>1 DEF Init, Running
    <3> QED
      BY <3>1, TaskKinds DEF StrayInv, CancelInv, ReachInv, Halted, Stopped
  <2> QED
    BY <2>1, SchedInit
<1>2. I /\ [Next]_vars => SchedInv' /\ StrayInv'
  BY SchedStep, StrayStep DEF SchedInv
<1>3. I /\ SchedInv' /\ [Next]_vars => CancelInv' /\ (Halted' => Halted \/ CancelOrder)
  BY CancelStep
<1>4. I /\ [Next]_vars /\ (Halted' => Halted \/ CancelOrder) => ReachInv'
  BY ReachStep
<1>5. I => CancelReachesAll
  BY DEF ReachInv, Halted, CancelReachesAll
<1>6. I /\ [Next]_vars => I'
  BY <1>2, <1>3, <1>4
<1> QED
  BY <1>1, <1>5, <1>6, PTL DEF Spec

-----------------------------------------------------------------------------
(* StateActions without its liberty: the types, and that lifecycle actions are
   serialized, that an end action follows the start actions, and that every entry is
   left once.  The argument rests on there being one worker. *)

Alive(w) == pc[w] \notin {"none", "gone"}

\* A worker that has taken a state and not entered it yet.
Holding == {"leaving", "left", "ending", "enter"}

StateTyped ==
  /\ observed \in SUBSET States
  /\ changes \in 0..MaxChanges
  /\ queue \in Seq(States)
  /\ place \in Seq(States)
  /\ stateWorker \in 0..(2 * MaxChanges)
  /\ pc \in [Workers -> Waiting \cup Awake]
  /\ taken \in [Workers -> SUBSET States]
  /\ active \in {0, Len(place)}
  /\ starter \in 0..Len(place)
  /\ leaving \in [Workers -> 0..Len(place)]
  /\ startTask \in [Entries -> TaskStages \cup {"none"}]
  /\ ends \in [Entries -> 0..1]

OneWorker == \A w \in Workers : Alive(w) => w = stateWorker

\* A state that was observed is queued, in the hands of a worker, or entered.
Counted ==
  /\ Len(queue) + Len(place) <= changes
  /\ \A w \in Workers : pc[w] \in Holding => Len(queue) + Len(place) < changes

\* A worker leaves the entry that is active, and enters when none is.
LeavesActive ==
  \A w \in Workers :
    /\ pc[w] \in {"leaving", "left", "ending"} => leaving[w] = active /\ active # 0
    /\ pc[w] = "enter" => active = 0

\* Only the start action of the active entry is under way, and none past the wait for it.
StartIsActive ==
  /\ \A e \in Entries : startTask[e] \in Live => e = starter /\ e = active
  /\ \A w \in Workers : pc[w] \in {"left", "ending", "enter"} =>
       \A e \in Entries : startTask[e] \notin Live

\* The end action of an entry was begun once it is left, if its state has one.
IsLeft(e) ==
  /\ e <= Len(place)
  /\ place[e] \in Ended
  /\ e # active \/ \E w \in Workers : pc[w] = "ending"
EndsCounted == \A e \in Entries : ends[e] = IF IsLeft(e) THEN 1 ELSE 0

StateInv == StateTyped /\ OneWorker /\ Counted /\ LeavesActive /\ StartIsActive /\ EndsCounted

-------------------------------------------------------------------------------
\* Facts of the arithmetic of the bounds, and where entries lie.
LEMMA EntriesBounded ==
  ASSUME StateTyped, Counted
  PROVE  /\ MaxChanges \in Nat
         /\ active # 0 => active \in Entries
         /\ \A w \in Workers : pc[w] \in Holding => Len(place) + 1 \in Entries
  BY BoundAssumption DEF StateTyped, Counted, Entries

\* Workers come, wake and go without a state in hand: what is said of the active
\* entry and of its actions stays true.
LEMMA IdleMove ==
  ASSUME StateInv, pc' \in [Workers -> Waiting \cup Awake],
         \A v \in Workers : pc'[v] # pc[v] => pc[v] \notin Holding /\ pc'[v] \notin Holding,
         UNCHANGED <<place, active, leaving, starter, startTask, ends>>
  PROVE  LeavesActive' /\ StartIsActive' /\ EndsCounted'
<1>1. \A v \in Workers : pc'[v] \in Holding \/ pc[v] \in Holding => pc'[v] = pc[v]
  OBVIOUS
<1>2. LeavesActive'
  BY <1>1 DEF StateInv, LeavesActive, Holding
<1>3. StartIsActive'
  BY <1>1 DEF StateInv, StartIsActive, Holding
<1>4. (\E v \in Workers : pc[v] = "ending") <=> (\E v \in Workers : pc'[v] = "ending")
  BY <1>1 DEF Holding
<1>5. EndsCounted'
  BY <1>4 DEF StateInv, EndsCounted, IsLeft
<1> QED BY <1>2, <1>3, <1>5

\* A worker that is made is the only one when no other is alive.
LEMMA NewWorkerKeeps ==
  ASSUME StateTyped, NEW pcs \in [Workers -> Waiting \cup Awake],
         \A v \in Workers : pcs[v] \in {"none", "gone"}, NewWorker(pcs)
  PROVE  /\ pc' \in [Workers -> Waiting \cup Awake]
         /\ stateWorker' \in 0..(2 * MaxChanges)
         /\ OneWorker'
         /\ \A v \in Workers : pc'[v] # pcs[v] => pc'[v] = "queued"
<1>1. PICK u \in Workers : pcs[u] = "none" /\ pc' = [pcs EXCEPT ![u] = "queued"] /\ stateWorker' = u
  BY DEF NewWorker
<1>2. u \in 0..(2 * MaxChanges)
  BY BoundAssumption DEF Workers
<1> QED BY <1>1, <1>2 DEF OneWorker, Alive, Waiting

\* A change is queued, and a worker made only when there is none.
LEMMA ObserveKeeps ==
  ASSUME StateInv, StateMay = {}, NEW s \in States, Observe(s)
  PROVE  StateInv'
<1> USE DEF StateInv
<1>1. /\ pc' \in [Workers -> Waiting \cup Awake]
      /\ stateWorker' \in 0..(2 * MaxChanges)
      /\ OneWorker'
      /\ \A v \in Workers : pc'[v] # pc[v] => pc[v] \in {"none", "gone"} /\ pc'[v] = "queued"
  <2>1. CASE WorkerIsDone
    <3>1. \A v \in Workers : pc[v] # "returned"
      BY DEF Observe
    <3>2. \A v \in Workers : pc[v] \in {"none", "gone"}
      BY <2>1, <3>1 DEF WorkerIsDone, OneWorker, Alive, Workers
    <3> QED BY <2>1, <3>2, NewWorkerKeeps DEF Observe, StateTyped
  <2>2. CASE ~WorkerIsDone
    BY <2>2 DEF Observe, StateTyped, OneWorker, Alive
  <2> QED BY <2>1, <2>2
<1>2. queue' \in Seq(States) /\ Len(queue') = Len(queue) + 1
  BY DEF Observe, StateTyped
<1>3. changes' \in 0..MaxChanges /\ changes' = changes + 1
  BY BoundAssumption DEF Observe, StateTyped
<1>4. StateTyped'
  BY <1>1, <1>2, <1>3 DEF StateTyped, Observe
<1>5. Counted'
  <2>1. \A v \in Workers : pc'[v] \in Holding => pc[v] \in Holding
    BY <1>1 DEF Holding
  <2>2. place' = place /\ Len(place) \in Nat /\ Len(queue) \in Nat /\ changes \in Nat
    BY BoundAssumption DEF StateTyped, Observe
  <2> QED BY <1>2, <1>3, <2>1, <2>2 DEF Counted
<1>6. LeavesActive' /\ StartIsActive' /\ EndsCounted'
  BY <1>1, IdleMove DEF Observe, Holding
<1> QED BY <1>1, <1>4, <1>5, <1>6

\* The callback of the last worker may make the next one.
LEMMA WorkerDoneKeeps ==
  ASSUME StateInv, NEW w \in Workers, WorkerDone(w)
  PROVE  StateInv'
<1> USE DEF StateInv
<1> DEFINE gone == [pc EXCEPT ![w] = "gone"]
<1>1. gone \in [Workers -> Waiting \cup Awake]
  BY DEF StateTyped, Waiting
<1>2. \A v \in Workers : gone[v] \in {"none", "gone"}
  BY DEF StateTyped, WorkerDone, OneWorker, Alive
<1>3. /\ pc' \in [Workers -> Waiting \cup Awake]
      /\ stateWorker' \in 0..(2 * MaxChanges)
      /\ OneWorker'
      /\ \A v \in Workers : pc'[v] # gone[v] => pc'[v] = "queued"
  <2>1. CASE queue # <<>>
    <3>1. NewWorker(gone)
      BY <2>1 DEF WorkerDone
    <3> HIDE DEF gone
    <3> QED BY <1>1, <1>2, <3>1, NewWorkerKeeps
  <2>2. CASE queue = <<>>
    <3>1. pc' = gone /\ stateWorker' = stateWorker
      BY <2>2 DEF WorkerDone
    <3> HIDE DEF gone
    <3> QED BY <1>1, <1>2, <3>1 DEF OneWorker, Alive, StateTyped
  <2> QED BY <2>1, <2>2
<1>4. \A v \in Workers : pc'[v] # pc[v] => pc[v] \notin Holding /\ pc'[v] \notin Holding
  <2> SUFFICES ASSUME NEW v \in Workers, pc'[v] # pc[v]
               PROVE  pc[v] \notin Holding /\ pc'[v] \notin Holding
    OBVIOUS
  <2>1. pc[v] \in {"none", "gone", "returned"}
    BY <1>2 DEF StateTyped, WorkerDone
  <2>2. pc'[v] \in {"none", "gone", "queued"}
    BY <1>2, <1>3
  <2> QED BY <2>1, <2>2 DEF Holding
<1>5. StateTyped'
  BY <1>3 DEF StateTyped, WorkerDone
<1>6. Counted'
  BY <1>4 DEF Counted, WorkerDone
<1>7. LeavesActive' /\ StartIsActive' /\ EndsCounted'
  BY <1>3, <1>4, IdleMove DEF WorkerDone
<1> QED BY <1>3, <1>5, <1>6, <1>7

\* The worker takes a state, and cancels a start action that is under way.
LEMMA TakeKeeps ==
  ASSUME StateInv, NEW w \in Workers, Take(w)
  PROVE  StateInv'
<1> USE DEF StateInv
<1>a. /\ MaxChanges \in Nat
      /\ active # 0 => active \in Entries
      /\ pc[w] \in Holding => Len(place) + 1 \in Entries
  BY EntriesBounded
<1> USE <1>a
<1>1. StateTyped'
  <2>1. queue' \in Seq(States) /\ Head(queue) \in States
    BY DEF StateTyped, Take
  <2>2. startTask' \in [Entries -> TaskStages \cup {"none"}]
    BY DEF StateTyped, Take, Cancelled, TaskStages, Live
  <2>3. pc' \in [Workers -> Waiting \cup Awake]
    BY DEF StateTyped, Take, Waiting, Awake
  <2>4. taken' \in [Workers -> SUBSET States] /\ leaving' \in [Workers -> 0..Len(place)]
    BY <2>1 DEF StateTyped, Take
  <2> QED BY <2>1, <2>2, <2>3, <2>4 DEF StateTyped, Take
<1>2. OneWorker'
  BY DEF StateTyped, Entries, Workers, Waiting, Awake, TaskStages, Live, OneWorker, Alive, Take, Cancelled
<1>3. Counted'
  <2>1. queue \in Seq(States) /\ queue # <<>> /\ queue' = Tail(queue)
    BY DEF StateTyped, Take
  <2>2. Len(queue') = Len(queue) - 1 /\ Len(queue) \in Nat
    BY <2>1
  <2>3. /\ Len(place) \in Nat /\ changes \in Nat /\ place' = place /\ changes' = changes
        /\ Len(queue) + Len(place) <= changes
    BY DEF StateTyped, Counted, Take
  <2> QED BY <2>2, <2>3 DEF Counted
<1>4. LeavesActive'
  <2>1. \A v \in Workers \ {w} : pc'[v] = pc[v] /\ pc[v] \in {"none", "gone"}
    BY DEF StateTyped, OneWorker, Alive, Take
  <2>2. active' = active /\ leaving'[w] = active
    BY DEF StateTyped, Take
  <2>3. \/ active = 0 /\ pc'[w] = "enter"
        \/ active # 0 /\ pc'[w] \in {"leaving", "left"}
    BY DEF StateTyped, Take
  <2> QED BY <2>1, <2>2, <2>3 DEF LeavesActive
<1>5. StartIsActive'
  <2>1. \A e \in Entries : startTask'[e] \in Live => startTask[e] \in Live
    BY DEF StateTyped, Take, Cancelled, Live
  <2>2. \A e \in Entries : startTask'[e] \in Live => e = starter /\ e = active
    BY <2>1 DEF StartIsActive
  <2>3. pc'[w] \in {"left", "ending", "enter"} => \A e \in Entries : startTask'[e] \notin Live
    BY <2>2 DEF Take, StateTyped, Entries
  <2>4. \A v \in Workers \ {w} : pc'[v] \notin {"left", "ending", "enter"}
    BY DEF Take, StateTyped, OneWorker, Alive
  <2> QED BY <2>2, <2>3, <2>4 DEF StartIsActive, Take
<1>6. EndsCounted'
  BY DEF StateTyped, Entries, Workers, Waiting, Awake, TaskStages, Live, OneWorker, Alive, LeavesActive, EndsCounted, IsLeft, Take, Cancelled
<1> QED BY <1>1, <1>2, <1>3, <1>4, <1>5, <1>6

\* The start action the worker waits for is over.
LEMMA StartOverKeeps ==
  ASSUME StateInv, NEW w \in Workers, StartOver(w)
  PROVE  StateInv'
<1> USE DEF StateInv
<1>a. /\ MaxChanges \in Nat
      /\ active # 0 => active \in Entries
      /\ pc[w] \in Holding => Len(place) + 1 \in Entries
  BY EntriesBounded
<1> USE <1>a
<1>1. StateTyped'
  BY DEF StateTyped, Entries, Workers, Waiting, Awake, TaskStages, Live, OneWorker, Alive, Counted, LeavesActive, Holding, StartOver, Quiet
<1>2. OneWorker'
  BY DEF StateTyped, Entries, Workers, Waiting, Awake, TaskStages, Live, OneWorker, Alive, StartOver, Quiet
<1>3. Counted'
  BY DEF StateTyped, Entries, Workers, Waiting, Awake, TaskStages, Live, OneWorker, Alive, Counted, Holding, StartOver, Quiet
<1>4. LeavesActive'
  BY DEF StateTyped, Entries, Workers, Waiting, Awake, TaskStages, Live, OneWorker, Alive, LeavesActive, Holding, StartOver, Quiet
<1>5. StartIsActive'
  BY DEF StateTyped, Entries, Workers, Waiting, Awake, TaskStages, Live, OneWorker, Alive, LeavesActive, StartIsActive, StartOver, Quiet
<1>6. EndsCounted'
  BY DEF StateTyped, Entries, Workers, Waiting, Awake, TaskStages, Live, OneWorker, Alive, LeavesActive, EndsCounted, IsLeft, StartOver, Quiet
<1> QED BY <1>1, <1>2, <1>3, <1>4, <1>5, <1>6

\* The end action of the active entry begins, if there is one.
LEMMA LeaveKeeps ==
  ASSUME StateInv, NEW w \in Workers, Leave(w)
  PROVE  StateInv'
<1> USE DEF StateInv
<1>a. /\ MaxChanges \in Nat
      /\ active # 0 => active \in Entries
      /\ pc[w] \in Holding => Len(place) + 1 \in Entries
  BY EntriesBounded
<1> USE <1>a
<1>0. /\ pc[w] = "left" /\ leaving[w] = active /\ active \in Entries
      /\ \A v \in Workers : pc[v] # "ending"
      /\ ends[active] = 0
  <2>1. pc[w] = "left" /\ leaving[w] = active /\ active \in Entries
    BY DEF Leave, LeavesActive
  <2>2. \A v \in Workers : pc[v] # "ending"
    BY <2>1 DEF OneWorker, Alive
  <2> QED BY <2>1, <2>2 DEF EndsCounted, IsLeft
<1>1. StateTyped'
  <2>1. pc' \in [Workers -> Waiting \cup Awake]
    BY DEF StateTyped, Leave, Waiting, Awake
  <2>2. ends' \in [Entries -> 0..1]
    BY <1>0 DEF StateTyped, Leave
  <2>3. active' \in {0, Len(place)} /\ starter' \in 0..Len(place)
    BY DEF StateTyped, Leave
  <2> QED BY <2>1, <2>2, <2>3 DEF StateTyped, Leave
<1>2. OneWorker'
  BY DEF StateTyped, Entries, Workers, Waiting, Awake, TaskStages, Live, OneWorker, Alive, Leave
<1>3. Counted'
  BY DEF StateTyped, Entries, Workers, Waiting, Awake, TaskStages, Live, OneWorker, Alive, Counted, Holding, Leave
<1>4. LeavesActive'
  BY DEF StateTyped, Entries, Workers, Waiting, Awake, TaskStages, Live, OneWorker, Alive, LeavesActive, Holding, Leave
<1>5. StartIsActive'
  BY DEF StateTyped, Entries, Workers, Waiting, Awake, TaskStages, Live, OneWorker, Alive, LeavesActive, StartIsActive, Leave
<1>6. EndsCounted'
  <2>1. CASE place[active] \in Ended
    <3>1. pc' = [pc EXCEPT ![w] = "ending"] /\ ends' = [ends EXCEPT ![active] = 1] /\ active' = active
      BY <1>0, <2>1 DEF Leave
    <3>2. pc'[w] = "ending"
      BY <3>1 DEF StateTyped
    <3>3. active <= Len(place)
      BY DEF StateTyped
    <3> QED BY <1>0, <2>1, <3>1, <3>2, <3>3 DEF EndsCounted, IsLeft, Leave, StateTyped
  <2>2. CASE place[active] \notin Ended
    <3>1. pc' = [pc EXCEPT ![w] = "enter"] /\ ends' = ends /\ active' = 0
      BY <1>0, <2>2 DEF Leave
    <3>2. \A v \in Workers : pc'[v] # "ending"
      BY <1>0, <3>1 DEF StateTyped
    <3>3. \A e \in Entries : e # 0
      BY DEF Entries
    <3> QED BY <1>0, <2>2, <3>1, <3>2, <3>3 DEF EndsCounted, IsLeft, Leave
  <2> QED BY <2>1, <2>2
<1> QED BY <1>1, <1>2, <1>3, <1>4, <1>5, <1>6

\* The end action is over and no entry is active.
LEMMA EndOverKeeps ==
  ASSUME StateInv, NEW w \in Workers, EndOver(w)
  PROVE  StateInv'
<1> USE DEF StateInv
<1>a. /\ MaxChanges \in Nat
      /\ active # 0 => active \in Entries
      /\ pc[w] \in Holding => Len(place) + 1 \in Entries
  BY EntriesBounded
<1> USE <1>a
<1>1. StateTyped'
  BY DEF StateTyped, Entries, Workers, Waiting, Awake, TaskStages, Live, OneWorker, Alive, Counted, LeavesActive, Holding, EndOver, Quiet
<1>2. OneWorker'
  BY DEF StateTyped, Entries, Workers, Waiting, Awake, TaskStages, Live, OneWorker, Alive, EndOver, Quiet
<1>3. Counted'
  BY DEF StateTyped, Entries, Workers, Waiting, Awake, TaskStages, Live, OneWorker, Alive, Counted, Holding, EndOver, Quiet
<1>4. LeavesActive'
  BY DEF StateTyped, Entries, Workers, Waiting, Awake, TaskStages, Live, OneWorker, Alive, LeavesActive, Holding, EndOver, Quiet
<1>5. StartIsActive'
  BY DEF StateTyped, Entries, Workers, Waiting, Awake, TaskStages, Live, OneWorker, Alive, LeavesActive, StartIsActive, EndOver, Quiet
<1>6. EndsCounted'
  BY DEF StateTyped, Entries, Workers, Waiting, Awake, TaskStages, Live, OneWorker, Alive, LeavesActive, EndsCounted, IsLeft, EndOver, Quiet
<1> QED BY <1>1, <1>2, <1>3, <1>4, <1>5, <1>6

\* The state taken becomes the active entry.
LEMMA EnterKeeps ==
  ASSUME StateInv, NEW w \in Workers, Enter(w)
  PROVE  StateInv'
<1> USE DEF StateInv
<1>a. /\ MaxChanges \in Nat
      /\ active # 0 => active \in Entries
      /\ pc[w] \in Holding => Len(place) + 1 \in Entries
  BY EntriesBounded
<1> USE <1>a
<1>0. PICK s \in taken[w] :
        /\ place' = Append(place, s)
        /\ IF s \in Started
             THEN /\ startTask' = [startTask EXCEPT ![Len(place) + 1] = "queued"]
                  /\ starter' = Len(place) + 1
             ELSE UNCHANGED <<startTask, starter>>
  BY DEF Enter
<1>b. s \in States /\ pc[w] = "enter" /\ Len(place) \in Nat
  BY DEF StateTyped, Enter
<1>c. place' \in Seq(States) /\ Len(place') = Len(place) + 1
  BY <1>0, <1>b DEF StateTyped
<1>d. \A i \in 1..Len(place) : place'[i] = place[i]
  BY <1>0, <1>b DEF StateTyped
<1>e. pc' = [pc EXCEPT ![w] = "loop"] /\ \A v \in Workers \ {w} : pc[v] \in {"none", "gone"}
  BY <1>b DEF Enter, OneWorker, Alive, StateTyped
<1>1. StateTyped'
  <2>1. pc' \in [Workers -> Waiting \cup Awake]
    BY <1>e DEF StateTyped, Awake
  <2>2. startTask' \in [Entries -> TaskStages \cup {"none"}] /\ starter' \in 0..Len(place')
    <3>1. Len(place) + 1 \in Entries
      BY <1>b DEF Holding
    <3>2. CASE s \in Started
      <4>1. startTask' = [startTask EXCEPT ![Len(place) + 1] = "queued"] /\ starter' = Len(place) + 1
        BY <1>0, <3>2
      <4>2. startTask' \in [Entries -> TaskStages \cup {"none"}]
        BY <4>1 DEF StateTyped, TaskStages
      <4>3. starter' \in 0..Len(place')
        BY <1>b, <1>c, <4>1
      <4> QED BY <4>2, <4>3
    <3>3. CASE s \notin Started
      BY <1>0, <1>b, <1>c, <3>3 DEF StateTyped
    <3> QED BY <3>2, <3>3
  <2>3. leaving' \in [Workers -> 0..Len(place')] /\ active' \in {0, Len(place')}
    BY <1>b, <1>c DEF StateTyped, Enter
  <2> QED BY <1>c, <2>1, <2>2, <2>3 DEF StateTyped, Enter
<1>2. OneWorker'
  BY DEF StateTyped, Entries, Workers, Waiting, Awake, TaskStages, Live, OneWorker, Alive, Enter
<1>3. Counted'
  <2>1. Len(queue) + Len(place) < changes
    BY <1>b DEF Counted, Holding
  <2>2. \A v \in Workers : pc'[v] \notin Holding
    BY <1>e DEF StateTyped, Holding
  <2>3. Len(queue) \in Nat /\ changes \in Nat
    BY DEF StateTyped
  <2> QED BY <1>b, <1>c, <2>1, <2>2, <2>3 DEF Counted, Enter
<1>4. LeavesActive'
  BY DEF StateTyped, Entries, Workers, Waiting, Awake, TaskStages, Live, OneWorker, Alive, LeavesActive, Holding, Enter
<1>5. StartIsActive'
  BY DEF StateTyped, Entries, Workers, Waiting, Awake, TaskStages, Live, OneWorker, Alive, LeavesActive, StartIsActive, Enter
<1>6. EndsCounted'
  <2>1. active = 0 /\ active' = Len(place) + 1
    BY <1>b DEF LeavesActive, Enter
  <2>2. \A v \in Workers : pc[v] # "ending" /\ pc'[v] # "ending"
    BY <1>b, <1>e DEF StateTyped
  <2>3. ASSUME NEW e \in Entries PROVE IsLeft(e)' <=> IsLeft(e)
    BY <1>b, <1>c, <1>d, <2>1, <2>2 DEF IsLeft, Entries
  <2> QED BY <2>3 DEF EndsCounted, Enter
<1> QED BY <1>1, <1>2, <1>3, <1>4, <1>5, <1>6

\* A start action goes on; only the one of the active entry can.
LEMMA TaskRunsKeeps ==
  ASSUME StateInv, NEW e \in Entries, TaskRuns(e)
  PROVE  StateInv'
<1> USE BoundAssumption DEF StateInv
<1>1. PICK s \in TaskStages, c \in BOOLEAN :
        startTask' = [startTask EXCEPT ![e] = s] /\ Task(e, c)!Step
  BY DEF TaskRuns
<1>2. startTask[e] \in Live
  BY <1>1 DEF Task!Step, Task!Moves, StateTyped, Live
<1>3. StateTyped'
  BY <1>1 DEF TaskRuns, StateTyped
<1>4. OneWorker' /\ Counted' /\ LeavesActive' /\ EndsCounted'
  BY DEF TaskRuns, OneWorker, Alive, Counted, LeavesActive, EndsCounted, IsLeft
<1>5. StartIsActive'
  BY <1>1, <1>2 DEF TaskRuns, StartIsActive, StateTyped
<1> QED BY <1>3, <1>4, <1>5

\* A worker that waits for its turn gets it.
LEMMA WakeKeeps ==
  ASSUME StateInv, NEW w \in Workers, Wake(w)
  PROVE  StateInv'
<1> USE DEF StateInv
<1>1. pc[w] = "queued" /\ pc' = [pc EXCEPT ![w] = "loop"] /\ pc \in [Workers -> Waiting \cup Awake]
  BY DEF Wake, StateTyped
<1>2. pc' \in [Workers -> Waiting \cup Awake]
  BY <1>1 DEF Awake
<1>3. \A v \in Workers : pc'[v] # pc[v] => pc[v] \notin Holding /\ pc'[v] \notin Holding
  BY <1>1 DEF Holding
<1>4. StateTyped' /\ OneWorker' /\ Counted'
  BY <1>1, <1>2, <1>3 DEF Wake, StateTyped, OneWorker, Alive, Counted
<1> QED BY <1>2, <1>3, <1>4, IdleMove DEF Wake

\* A worker that finds the queue empty returns.
LEMMA ReturnKeeps ==
  ASSUME StateInv, NEW w \in Workers, Return(w)
  PROVE  StateInv'
<1> USE DEF StateInv
<1>1. pc[w] = "loop" /\ pc' = [pc EXCEPT ![w] = "returned"] /\ pc \in [Workers -> Waiting \cup Awake]
  BY DEF Return, StateTyped
<1>2. pc' \in [Workers -> Waiting \cup Awake]
  BY <1>1 DEF Waiting
<1>3. \A v \in Workers : pc'[v] # pc[v] => pc[v] \notin Holding /\ pc'[v] \notin Holding
  BY <1>1 DEF Holding
<1>4. StateTyped' /\ OneWorker' /\ Counted'
  BY <1>1, <1>2, <1>3 DEF Return, StateTyped, OneWorker, Alive, Counted
<1> QED BY <1>2, <1>3, <1>4, IdleMove DEF Return

\* A step that changes nothing keeps everything.
LEMMA StutterKeeps ==
  ASSUME StateInv, UNCHANGED stateVars
  PROVE  StateInv'
BY DEF StateInv, stateVars, StateTyped, OneWorker, Alive, Counted, LeavesActive, StartIsActive, EndsCounted, IsLeft

\* Initially no worker is alive and nothing was entered.
LEMMA StateInitInv == StateInit => StateInv
<1> SUFFICES ASSUME StateInit PROVE StateInv
  OBVIOUS
<1> USE BoundAssumption DEF StateInit
<1>1. <<>> \in Seq(States) /\ Len(place) = 0
  OBVIOUS
<1>2. StateTyped
  BY <1>1 DEF StateTyped, Waiting
<1>3. OneWorker /\ Counted /\ LeavesActive /\ StartIsActive
  BY <1>1 DEF OneWorker, Alive, Counted, LeavesActive, StartIsActive, Holding, Live
<1>4. EndsCounted
  BY <1>1 DEF EndsCounted, IsLeft, Entries
<1> QED BY <1>2, <1>3, <1>4 DEF StateInv

\* Every step keeps the invariant, as long as no liberty is taken.
LEMMA StateNextInv == StateMay = {} /\ StateInv /\ [StateNext]_stateVars => StateInv'
<1> SUFFICES ASSUME StateMay = {}, StateInv, [StateNext]_stateVars PROVE StateInv'
  OBVIOUS
<1>1. ASSUME NEW s \in States, Observe(s) PROVE StateInv'
  BY <1>1, ObserveKeeps
<1>2. ASSUME NEW w \in Workers, WorkerStep(w) PROVE StateInv'
  BY <1>2, WakeKeeps, ReturnKeeps, TakeKeeps, StartOverKeeps, LeaveKeeps, EndOverKeeps,
     EnterKeeps, WorkerDoneKeeps DEF WorkerStep
<1>3. ASSUME NEW e \in Entries, TaskRuns(e) PROVE StateInv'
  BY <1>3, TaskRunsKeeps
<1>4. CASE UNCHANGED stateVars
  BY <1>4, StutterKeeps
<1> QED BY <1>1, <1>2, <1>3, <1>4 DEF StateNext

\* What is inductive holds in every state.
LEMMA StateInvariance == StateMay = {} /\ StateSpec => []StateInv
<1>1. StateMay = {} /\ StateInv /\ [StateNext]_stateVars => StateInv'
  BY StateNextInv
<1>2. StateMay = {} => (StateMay = {})'
  OBVIOUS
<1> QED BY StateInitInv, <1>1, <1>2, PTL DEF StateSpec

-------------------------------------------------------------------------------
\* The variables of the controller have their types.
THEOREM StateTypes == StateMay = {} /\ StateSpec => []StateTypeOK
<1>1. StateInv => StateTypeOK
  <2> SUFFICES ASSUME StateInv PROVE StateTypeOK
    OBVIOUS
  <2>1. \A w \in Workers : taken[w] \in SUBSET States
    BY DEF StateInv, StateTyped
  <2>2. active \in 0..Len(place) /\ ends \in [Entries -> Nat]
    BY DEF StateInv, StateTyped
  <2> QED BY <2>1, <2>2 DEF StateInv, StateTyped, StateTypeOK, Counted
<1> QED BY StateInvariance, <1>1, PTL

\* An end action begins when the start action was awaited, whatever came in between.
THEOREM EndsAfterStarts == StateMay = {} /\ StateSpec => []EndFollowsStart
<1>1. StateInv => EndFollowsStart
  BY DEF StateInv, StartIsActive, EndFollowsStart
<1> QED BY StateInvariance, <1>1, PTL

\* _leave_active_state runs the end action of every state that was entered and left,
\* and runs it once.
THEOREM LeftExactlyOnce == StateMay = {} /\ StateSpec => []LeftOnce
<1>1. StateInv => LeftOnce
  <2> SUFFICES ASSUME StateInv, NEW e \in 1..Len(place)
               PROVE  ends[e] <= 1 /\ (e < Len(place) /\ place[e] \in Ended => ends[e] = 1)
    BY DEF LeftOnce
  <2>1. e \in Entries
    BY BoundAssumption DEF StateInv, StateTyped, Counted, Entries
  <2>2. e < Len(place) => e # active
    BY <2>1 DEF StateInv, StateTyped, Entries
  <2>3. e < Len(place) /\ place[e] \in Ended => IsLeft(e)
    BY <2>2 DEF IsLeft
  <2> QED BY <2>1, <2>3 DEF StateInv, EndsCounted
<1> QED BY StateInvariance, <1>1, PTL
=================================================================================
