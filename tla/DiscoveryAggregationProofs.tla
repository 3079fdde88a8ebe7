---------------------- MODULE DiscoveryAggregationProofs ----------------------
(***************************************************************************)
(* For any number of workers, events and batch sizes, and any of the       *)
(* workers deployed: the counters add up to the marked events, no batch is *)
(* above its limit, and a profile lacks a marked event only where one      *)
(* worker has overtaken another.                                           *)
(***************************************************************************)
EXTENDS DiscoveryDeployment, FiniteSetTheorems, WellFoundedInduction, TLAPS

\* What a worker holds is recorded, not aggregated, and counted no further
\* than claimed; past Mark all of it is counted.
ClaimsAreWaiting ==
  \A w \in Worker :
    /\ worker[w].claimed \subseteq events \ aggregated
    /\ worker[w].counted \subseteq worker[w].claimed
    /\ worker[w].pc = "refreshing" => worker[w].counted = worker[w].claimed

\* No row is claimed twice: the row locks.
ClaimsAreApart ==
  \A w, x \in Worker : w # x => worker[w].claimed \cap worker[x].claimed = {}

IInv == Types /\ ClaimsAreWaiting /\ ClaimsAreApart /\ CountedOnce

\* The events of S that count in c.
In(S, c) == {e \in S : CounterOf[e] = c}

\* The events of a cell can be counted.
LEMMA InFinite ==
  ASSUME NEW S \in SUBSET Event, NEW c
  PROVE  IsFiniteSet(In(S, c)) /\ Cardinality(In(S, c)) \in Nat
  <1>1. IsFiniteSet(Event)
    BY FS_Interval, DiscoveryAssumption DEF Event
  <1>2. In(S, c) \in SUBSET Event
    BY DEF In
  <1>3. IsFiniteSet(In(S, c))
    BY <1>1, <1>2, FS_Subset
  <1> QED
    BY <1>3, FS_CardinalityType

\* Counting two sets of events apart counts their union.
LEMMA InUnion ==
  ASSUME NEW S \in SUBSET Event, NEW T \in SUBSET Event, S \cap T = {}, NEW c
  PROVE  Cardinality(In(S \cup T, c)) = Cardinality(In(S, c)) + Cardinality(In(T, c))
  <1>1. In(S \cup T, c) = In(S, c) \cup In(T, c)
    BY DEF In
  <1>2. In(S, c) \cap In(T, c) = {}
    BY DEF In
  <1>3. Cardinality(In(S, c) \cap In(T, c)) = 0
    BY <1>2, FS_EmptySet
  <1>4. Cardinality(In(S, c) \cup In(T, c))
          = Cardinality(In(S, c)) + Cardinality(In(T, c)) - Cardinality(In(S, c) \cap In(T, c))
    BY InFinite, FS_Union
  <1>5. Cardinality(In(S, c)) \in Nat /\ Cardinality(In(T, c)) \in Nat
    BY InFinite
  <1>6. \A a, b, z : a \in Nat /\ b \in Nat /\ z = 0 => a + b - z = a + b
    OBVIOUS
  <1>7. Cardinality(In(S, c)) + Cardinality(In(T, c)) - Cardinality(In(S, c) \cap In(T, c))
          = Cardinality(In(S, c)) + Cardinality(In(T, c))
    BY <1>3, <1>5, <1>6
  <1> QED
    BY <1>1, <1>4, <1>7, Zenon

\* A run that has just come to a place holds nothing.
LEMMA AtIsRun ==
  ASSUME NEW pc \in {"stopped", "failed", "polling", "counting", "refreshing"}
  PROVE  /\ At(pc) \in Run
         /\ At(pc).pc = pc
         /\ At(pc).claimed = {} /\ At(pc).counted = {}
  BY DEF At, Run

\* No event, no counter, no claim.
LEMMA InitIInv == Init => IInv
  <1> SUFFICES ASSUME Init PROVE IInv
    OBVIOUS
  <1>1. At("stopped") \in Run /\ At("stopped").claimed = {} /\ At("stopped").counted = {}
          /\ At("stopped").pc = "stopped"
    BY AtIsRun
  <1>2. Types
    BY <1>1 DEF Init, Types
  <1>3. ClaimsAreWaiting /\ ClaimsAreApart
    BY <1>1 DEF Init, ClaimsAreWaiting, ClaimsAreApart
  <1>4. CountedOnce
    <2> SUFFICES ASSUME NEW c \in Counter
                 PROVE  metric[c] = Cardinality({e \in aggregated : CounterOf[e] = c})
      BY DEF CountedOnce
    <2>1. {e \in aggregated : CounterOf[e] = c} = {}
      BY DEF Init
    <2> QED
      BY <2>1, FS_EmptySet DEF Init
  <1> QED
    BY <1>2, <1>3, <1>4 DEF IInv

-----------------------------------------------------------------------------
(* Steps that change one run and no table.                                 *)

\* The run r of w becomes q, which claims and counts what the invariant allows.
LEMMA RunStep ==
  ASSUME IInv, NEW w \in Worker, NEW q \in Run,
         worker' = [worker EXCEPT ![w] = q],
         UNCHANGED <<events, aggregated, metric, profile>>,
         q.claimed \subseteq events \ aggregated,
         q.counted \subseteq q.claimed,
         q.pc = "refreshing" => q.counted = q.claimed,
         \A x \in Worker \ {w} : q.claimed \cap worker[x].claimed = {}
  PROVE  IInv'
  <1>1. worker'[w] = q /\ \A x \in Worker \ {w} : worker'[x] = worker[x]
    BY DEF IInv, Types
  <1>2. Types'
    BY DEF IInv, Types
  <1>3. ClaimsAreWaiting'
    BY <1>1 DEF IInv, ClaimsAreWaiting
  <1>4. ClaimsAreApart'
    BY <1>1 DEF IInv, ClaimsAreApart
  <1>5. CountedOnce'
    BY DEF IInv, CountedOnce
  <1> QED
    BY <1>2, <1>3, <1>4, <1>5 DEF IInv

\* A run that goes on with what it has claimed.
LEMMA SameClaim ==
  ASSUME IInv, NEW w \in Worker, NEW q \in Run,
         worker' = [worker EXCEPT ![w] = q],
         UNCHANGED <<events, aggregated, metric, profile>>,
         q.claimed = worker[w].claimed,
         q.counted \subseteq q.claimed,
         q.pc = "refreshing" => q.counted = q.claimed
  PROVE  IInv'
  <1>1. q.claimed \subseteq events \ aggregated
    BY DEF IInv, ClaimsAreWaiting
  <1>2. \A x \in Worker \ {w} : q.claimed \cap worker[x].claimed = {}
    BY DEF IInv, ClaimsAreApart
  <1> QED
    BY <1>1, <1>2, RunStep

\* A run that holds nothing.
LEMMA NoClaim ==
  ASSUME IInv, NEW w \in Worker,
         NEW pc \in {"stopped", "failed", "polling"},
         worker' = [worker EXCEPT ![w] = At(pc)],
         UNCHANGED <<events, aggregated, metric, profile>>
  PROVE  IInv'
  <1>1. At(pc) \in Run /\ At(pc).claimed = {} /\ At(pc).counted = {}
    BY AtIsRun
  <1> QED
    BY <1>1, RunStep

-----------------------------------------------------------------------------
\* A new event is not marked and in no batch.
LEMMA RecordStep ==
  ASSUME IInv, NEW e \in Event, Record(e)
  PROVE  IInv'
  <1>1. Types'
    BY DEF IInv, Types, Record
  <1>2. ClaimsAreWaiting' /\ ClaimsAreApart' /\ CountedOnce'
    BY DEF IInv, Record, ClaimsAreWaiting, ClaimsAreApart, CountedOnce
  <1> QED
    BY <1>1, <1>2 DEF IInv

\* The rows of a new batch are waiting and nobody else's.
LEMMA ClaimStep ==
  ASSUME IInv, NEW w \in Worker, Claim(w)
  PROVE  IInv'
  <1> DEFINE batch == Oldest(Waiting(w))
             q == [At("counting") EXCEPT !.claimed = batch]
  <1>1. /\ batch \subseteq events \ aggregated
        /\ \A x \in Worker \ {w} : batch \cap worker[x].claimed = {}
    BY DEF Oldest, Waiting
  <1>2. CASE batch = {}
    BY <1>2, NoClaim DEF Claim
  <1>3. CASE batch # {}
    <2>1. batch \subseteq Event
      BY <1>1 DEF IInv, Types
    <2>2. q \in Run /\ q.claimed = batch /\ q.counted = {} /\ q.pc = "counting"
      BY <2>1 DEF At, Run
    <2>3. worker' = [worker EXCEPT ![w] = q] /\ UNCHANGED <<events, aggregated, metric, profile>>
      BY <1>3 DEF Claim
    <2> HIDE DEF batch, q
    <2> QED
      BY <1>1, <2>2, <2>3, RunStep
  <1> QED
    BY <1>2, <1>3

\* One more event of the batch is counted, still uncommitted.
LEMMA CountStep ==
  ASSUME IInv, NEW w \in Worker, NEW e \in Event, Count(w, e)
  PROVE  IInv'
  <1> DEFINE q == [worker[w] EXCEPT !.counted = @ \cup {e}]
  <1>1. worker[w] \in Run
    BY DEF IInv, Types
  <1>2. q \in Run /\ q.claimed = worker[w].claimed /\ q.pc = worker[w].pc
          /\ q.counted = worker[w].counted \cup {e}
    BY <1>1 DEF Run
  <1>3. q.pc = "counting" /\ q.counted \subseteq q.claimed
    BY <1>2 DEF Count, IsNext, IInv, ClaimsAreWaiting
  <1>4. worker' = [worker EXCEPT ![w] = q] /\ UNCHANGED <<events, aggregated, metric, profile>>
    BY DEF Count
  <1> HIDE DEF q
  <1> QED
    BY <1>2, <1>3, <1>4, SameClaim

\* The batch is marked, still uncommitted.
LEMMA MarkStep ==
  ASSUME IInv, NEW w \in Worker, Mark(w)
  PROVE  IInv'
  <1> DEFINE q == [worker[w] EXCEPT !.pc = "refreshing"]
  <1>1. worker[w] \in Run
    BY DEF IInv, Types
  <1>2. q \in Run /\ q.claimed = worker[w].claimed /\ q.counted = worker[w].counted
    BY <1>1 DEF Run
  <1>3. q.counted = q.claimed
    BY <1>2 DEF Mark
  <1>4. worker' = [worker EXCEPT ![w] = q] /\ UNCHANGED <<events, aggregated, metric, profile>>
    BY DEF Mark
  <1> HIDE DEF q
  <1> QED
    BY <1>2, <1>3, <1>4, SameClaim

\* A profile statement takes its snapshot.
LEMMA ReadStep ==
  ASSUME IInv, NEW w \in Worker, NEW v \in Viewer, ReadInteractions(w, v)
  PROVE  IInv'
  <1> DEFINE seen == {e \in events : ViewerOf[e] = v}
             q == [worker[w] EXCEPT !.begun = @ \cup {v}, !.read[v] = seen]
  <1>1. worker[w] \in Run /\ seen \in SUBSET Event
    BY DEF IInv, Types
  <1>2. q \in Run /\ q.claimed = worker[w].claimed /\ q.counted = worker[w].counted
          /\ q.pc = worker[w].pc
    BY <1>1 DEF Run
  <1>3. q.counted = q.claimed
    BY <1>2 DEF ReadInteractions, IInv, ClaimsAreWaiting
  <1>4. worker' = [worker EXCEPT ![w] = q] /\ UNCHANGED <<events, aggregated, metric, profile>>
    BY DEF ReadInteractions
  <1> HIDE DEF q
  <1> QED
    BY <1>2, <1>3, <1>4, SameClaim

\* A profile is written, still uncommitted.
LEMMA WriteStep ==
  ASSUME IInv, NEW w \in Worker, NEW v \in Viewer, WriteProfile(w, v)
  PROVE  IInv'
  <1> DEFINE q == [worker[w] EXCEPT !.written = @ \cup {v}]
  <1>1. worker[w] \in Run
    BY DEF IInv, Types
  <1>2. q \in Run /\ q.claimed = worker[w].claimed /\ q.counted = worker[w].counted
    BY <1>1 DEF Run
  <1>3. q.counted = q.claimed
    BY <1>2 DEF WriteProfile, IsBegun, IInv, ClaimsAreWaiting
  <1>4. worker' = [worker EXCEPT ![w] = q] /\ UNCHANGED <<events, aggregated, metric, profile>>
    BY DEF WriteProfile
  <1> HIDE DEF q
  <1> QED
    BY <1>2, <1>3, <1>4, SameClaim

\* The commit: the batch moves to aggregated and its counts to the cells.
LEMMA CommitStep ==
  ASSUME IInv, NEW w \in Worker, Commit(w)
  PROVE  IInv'
  <1> DEFINE batch == worker[w].claimed
  <1>1. /\ worker[w].counted = batch
        /\ batch \subseteq events \ aggregated
        /\ batch \subseteq Event /\ aggregated \subseteq Event
    BY DEF Commit, IInv, ClaimsAreWaiting, Types
  <1>2. PICK pc \in {"stopped", "polling"} : worker' = [worker EXCEPT ![w] = At(pc)]
    BY DEF Commit
  <1>3. At(pc) \in Run /\ At(pc).claimed = {} /\ At(pc).counted = {} /\ At(pc).pc = pc
    BY AtIsRun
  <1>4. worker'[w] = At(pc) /\ \A x \in Worker \ {w} : worker'[x] = worker[x]
    BY <1>2 DEF IInv, Types
  <1>5. events' = events /\ aggregated' = aggregated \cup batch
    BY DEF Commit
  <1>6. \A c \in Counter :
          metric[c] \in Nat /\ metric'[c] = metric[c] + Cardinality(In(batch, c))
    BY <1>1 DEF Commit, In, IInv, Types
  <1>7. Types'
    <2>1. metric' \in [Counter -> Nat]
      <3>1. \A c \in Counter : Cardinality(In(batch, c)) \in Nat
        BY <1>1, InFinite
      <3>2. metric' = [c \in Counter |-> metric'[c]]
        BY DEF Commit
      <3>3. \A c \in Counter : metric'[c] \in Nat
        BY <1>6, <3>1
      <3> QED
        BY <3>2, <3>3
    <2>2. profile' \in [Viewer -> SUBSET Event]
      BY <1>5 DEF Commit, IInv, Types, Run
    <2>3. worker' \in [Worker -> Run]
      BY <1>2, <1>3 DEF IInv, Types
    <2>4. events' \subseteq Event /\ aggregated' \subseteq events'
      BY <1>1, <1>5 DEF IInv, Types
    <2> QED
      BY <2>1, <2>2, <2>3, <2>4 DEF Types
  <1>8. ClaimsAreWaiting'
    <2> SUFFICES ASSUME NEW x \in Worker
                 PROVE  /\ worker'[x].claimed \subseteq events' \ aggregated'
                        /\ worker'[x].counted \subseteq worker'[x].claimed
                        /\ worker'[x].pc = "refreshing" => worker'[x].counted = worker'[x].claimed
      BY DEF ClaimsAreWaiting
    <2>1. CASE x = w
      BY <2>1, <1>3, <1>4
    <2>2. CASE x # w
      <3>1. worker[x].claimed \cap batch = {}
        BY <2>2 DEF IInv, ClaimsAreApart
      <3>2. worker[x].claimed \subseteq events \ aggregated
        BY DEF IInv, ClaimsAreWaiting
      <3> QED
        BY <2>2, <3>1, <3>2, <1>4, <1>5 DEF IInv, ClaimsAreWaiting
    <2> QED
      BY <2>1, <2>2
  <1>9. ClaimsAreApart'
    BY <1>3, <1>4 DEF IInv, ClaimsAreApart
  <1>10. CountedOnce'
    <2> SUFFICES ASSUME NEW c \in Counter
                 PROVE  metric'[c] = Cardinality(In(aggregated', c))
      BY DEF CountedOnce, In
    <2>1. metric[c] = Cardinality(In(aggregated, c))
      BY DEF IInv, CountedOnce, In
    <2>2. Cardinality(In(aggregated \cup batch, c))
            = Cardinality(In(aggregated, c)) + Cardinality(In(batch, c))
      BY <1>1, InUnion
    <2> QED
      BY <1>5, <1>6, <2>1, <2>2
  <1> QED
    BY <1>7, <1>8, <1>9, <1>10 DEF IInv

\* Every step keeps the invariant.
LEMMA NextIInv ==
  ASSUME IInv, [Next]_vars
  PROVE  IInv'
  <1>1. ASSUME NEW w \in Worker, Start(w) PROVE IInv'
    BY <1>1, NoClaim DEF Start
  <1>2. ASSUME NEW w \in Worker, Abort(w) PROVE IInv'
    BY <1>2, NoClaim DEF Abort
  <1>3. CASE UNCHANGED vars
    BY <1>3 DEF vars, IInv, Types, ClaimsAreWaiting, ClaimsAreApart, CountedOnce
  <1> QED
    BY <1>1, <1>2, <1>3, RecordStep, ClaimStep, CountStep, MarkStep, ReadStep, WriteStep,
       CommitStep DEF Next

\* The counters of listing_metrics_daily count every aggregated event once,
\* with any number of workers, crashes and deadlocks
\* (AggregateDiscoveryEvents).
THEOREM CountersAreExact == DeployedSpec => []CountedOnce
  <1>1. DeployedInit => IInv
    BY InitIInv DEF DeployedInit
  <1>2. IInv /\ [DeployedNext]_deployedVars => IInv'
    <2>1. [DeployedNext]_deployedVars => [Next]_vars
      BY DEF DeployedNext, Deployed, deployedVars, vars
    <2> QED
      BY <2>1, NextIInv
  <1>3. IInv => CountedOnce
    BY DEF IInv
  <1> QED
    BY <1>1, <1>2, <1>3, PTL DEF DeployedSpec

-----------------------------------------------------------------------------
(* The limit of a batch.                                                   *)

\* A finite set of numbers that is not empty has a greatest.
LEMMA Greatest ==
  ASSUME NEW P \in SUBSET Nat, IsFiniteSet(P), P # {}
  PROVE  \E e \in P : \A f \in P : f <= e
  <1> DEFINE Above(e) == {f \in P : f > e}
             Aboves == {Above(e) : e \in P}
  <1>1. Aboves \subseteq FiniteSubsetsOf(P) /\ Aboves # {}
    <2>1. Aboves \subseteq SUBSET P /\ Aboves # {}
      OBVIOUS
    <2> HIDE DEF Aboves
    <2> QED
      BY <2>1, FS_FiniteSubsetsOfFinite
  <1>2. IsWellFoundedOn(StrictSubsetOrdering(P), FiniteSubsetsOf(P))
    BY FS_StrictSubsetOrderingWellFounded
  <1>3. PICK A \in Aboves : \A B \in Aboves : <<B, A>> \notin StrictSubsetOrdering(P)
    <2> HIDE DEF Aboves
    <2> QED
      BY <1>1, <1>2, WFMin, Zenon
  <1>4. PICK e \in P : A = Above(e)
    OBVIOUS
  <1>5. ASSUME NEW f \in P, f > e PROVE FALSE
    <2>1. Above(f) \subseteq Above(e) /\ f \in Above(e) /\ f \notin Above(f)
      <3>1. \A g \in P : g \in Nat
        OBVIOUS
      <3>2. \A g \in P : g > f => g > e
        BY <1>5, <3>1
      <3>3. ~(f > f)
        BY <3>1
      <3> QED
        BY <1>5, <3>2, <3>3
    <2>2. <<Above(f), Above(e)>> \in StrictSubsetOrdering(P)
      BY <2>1 DEF StrictSubsetOrdering
    <2> QED
      BY <1>3, <1>4, <2>2
  <1> QED
    BY <1>5

\* The oldest waiting events fit in a batch.
LEMMA OldestFits ==
  ASSUME NEW S \in SUBSET Event
  PROVE  Oldest(S) \in SUBSET S /\ Cardinality(Oldest(S)) <= BatchSize
  <1> DEFINE P == Oldest(S)
  <1>1. /\ BatchSize \in Nat /\ P \subseteq S /\ S \subseteq Nat
        /\ IsFiniteSet(S) /\ IsFiniteSet(P) /\ Cardinality(P) \in Nat
    <2>1. IsFiniteSet(Event) /\ Event \subseteq Nat
      BY FS_Interval, DiscoveryAssumption DEF Event
    <2>2. IsFiniteSet(S)
      BY <2>1, FS_Subset
    <2>3. P \subseteq S
      BY DEF Oldest
    <2> HIDE DEF P
    <2> QED
      BY <2>1, <2>2, <2>3, FS_Subset, FS_CardinalityType, DiscoveryAssumption
  <1>2. CASE P = {}
    BY <1>1, <1>2, FS_EmptySet
  <1>3. CASE P # {}
    <2>1. PICK e \in P : \A f \in P : f <= e
      <3> HIDE DEF P
      <3> QED
        BY <1>1, <1>3, Greatest
    <2> DEFINE Older == {f \in S : f < e}
    <2>2. P \subseteq Older \cup {e} /\ e \notin Older
      <3>1. \A f \in P : f \in S /\ f \in Nat
        BY <1>1
      <3>2. \A f \in P : f < e \/ f = e
        BY <2>1, <3>1
      <3>3. ~(e < e)
        BY <3>1
      <3> HIDE DEF P
      <3> QED
        BY <3>1, <3>2, <3>3
    <2>3. Cardinality(Older) < BatchSize
      BY DEF Oldest
    <2>4. IsFiniteSet(Older) /\ Cardinality(Older) \in Nat
      BY <1>1, FS_Subset, FS_CardinalityType
    <2>5. /\ IsFiniteSet(Older \cup {e})
          /\ Cardinality(Older \cup {e}) = Cardinality(Older) + 1
      <3> HIDE DEF Older
      <3> QED
        BY <2>2, <2>4, FS_AddElement
    <2>6. Cardinality(P) <= Cardinality(Older \cup {e})
      BY <2>2, <2>5, FS_Subset
    <2> QED
      BY <1>1, <2>3, <2>4, <2>5, <2>6
  <1> QED
    BY <1>1, <1>2, <1>3

Limits == \A w \in Worker : Cardinality(worker[w].claimed) <= BatchSize

\* No batch grows beyond the limit.
LEMMA NextLimits == IInv /\ Limits /\ [Next]_vars => Limits'
  <1> SUFFICES ASSUME IInv, Limits, [Next]_vars, NEW x \in Worker
               PROVE  Cardinality(worker'[x].claimed) <= BatchSize
    BY DEF Limits
  <1>1. /\ worker \in [Worker -> Run] /\ BatchSize \in Nat
        /\ Cardinality({}) <= BatchSize /\ Cardinality(worker[x].claimed) <= BatchSize
    BY FS_EmptySet, DiscoveryAssumption DEF IInv, Types, Limits
  <1>2. CASE worker'[x] = worker[x]
    BY <1>1, <1>2
  <1>3. ASSUME NEW pc \in {"stopped", "failed", "polling"}, worker'[x] = At(pc)
        PROVE  worker'[x].claimed = {}
    BY <1>3, AtIsRun
  <1>4. CASE Start(x) \/ Abort(x) \/ Commit(x)
    <2>1. \E pc \in {"stopped", "failed", "polling"} : worker'[x] = At(pc)
      BY <1>1, <1>4 DEF Start, Abort, Commit
    <2> QED
      BY <1>1, <1>3, <2>1
  <1>5. CASE Claim(x)
    <2>1. CASE Oldest(Waiting(x)) = {}
      <3>1. worker'[x] = At("stopped")
        BY <1>1, <1>5, <2>1 DEF Claim
      <3> QED
        BY <1>1, <1>3, <3>1
    <2>2. CASE Oldest(Waiting(x)) # {}
      <3>1. worker'[x].claimed = Oldest(Waiting(x))
        BY <1>1, <1>5, <2>2 DEF Claim, At
      <3>2. Waiting(x) \in SUBSET Event
        BY DEF Waiting, IInv, Types
      <3> QED
        BY <3>1, <3>2, OldestFits
    <2> QED
      BY <2>1, <2>2
  <1>6. CASE \/ Mark(x)
             \/ \E e \in Event : Count(x, e)
             \/ \E v \in Viewer : ReadInteractions(x, v) \/ WriteProfile(x, v)
    <2>1. CASE Mark(x)
      BY <1>1, <2>1 DEF Mark, Run
    <2>2. ASSUME NEW e \in Event, Count(x, e)
          PROVE  worker'[x].claimed = worker[x].claimed
      BY <1>1, <2>2 DEF Count, Run
    <2>3. ASSUME NEW v \in Viewer, ReadInteractions(x, v) \/ WriteProfile(x, v)
          PROVE  worker'[x].claimed = worker[x].claimed
      BY <1>1, <2>3 DEF ReadInteractions, WriteProfile, Run
    <2> QED
      BY <1>1, <1>6, <2>1, <2>2, <2>3
  <1>7. ASSUME NEW w \in Worker \ {x},
               \/ Start(w) \/ Claim(w) \/ Mark(w) \/ Commit(w) \/ Abort(w)
               \/ \E e \in Event : Count(w, e)
               \/ \E v \in Viewer : ReadInteractions(w, v) \/ WriteProfile(w, v)
        PROVE  worker'[x] = worker[x]
    BY <1>1, <1>7
    DEF Start, Claim, Mark, Commit, Abort, Count, ReadInteractions, WriteProfile
  <1>8. ASSUME UNCHANGED vars \/ \E e \in Event : Record(e)
        PROVE  worker'[x] = worker[x]
    BY <1>8 DEF vars, Record
  <1> QED
    BY <1>2, <1>4, <1>5, <1>6, <1>7, <1>8 DEF Next

\* Every variable keeps its type, and no batch is above DISCOVERY_BATCH_SIZE.
THEOREM TypeCorrect == DeployedSpec => []TypeOK
  <1>1. DeployedInit => IInv /\ Limits
    <2> SUFFICES ASSUME DeployedInit PROVE IInv /\ Limits
      OBVIOUS
    <2>1. IInv /\ Init
      BY InitIInv DEF DeployedInit
    <2>2. \A w \in Worker : worker[w].claimed = {}
      BY <2>1, AtIsRun DEF Init
    <2> QED
      BY <2>1, <2>2, FS_EmptySet, DiscoveryAssumption DEF Limits
  <1>2. IInv /\ Limits /\ [DeployedNext]_deployedVars => IInv' /\ Limits'
    <2>1. [DeployedNext]_deployedVars => [Next]_vars
      BY DEF DeployedNext, Deployed, deployedVars, vars
    <2> QED
      BY <2>1, NextIInv, NextLimits
  <1>3. IInv /\ Limits => TypeOK
    BY DEF IInv, Limits, TypeOK
  <1> QED
    BY <1>1, <1>2, <1>3, PTL DEF DeployedSpec

-----------------------------------------------------------------------------
(* Profiles.                                                               *)

\* A snapshot that is not out of date has the viewer's events that are
\* aggregated or in its worker's batch.
ReadsAreWhole ==
  \A w \in Worker :
    /\ worker[w].written \subseteq worker[w].begun
    /\ \A v \in worker[w].begun \ late[w] : \A e \in aggregated \cup worker[w].claimed :
         ViewerOf[e] = v => e \in worker[w].read[v]

\* A profile that was not overtaken has what is marked for it.
ProfilesAreWhole ==
  \A e \in aggregated : e \in profile[ViewerOf[e]] \/ ViewerOf[e] \in overtaken

ProfileInv == ReadsAreWhole /\ ProfilesAreWhole

\* A run that has just come to a place has read and written no profile.
LEMMA AtIsFresh ==
  ASSUME NEW pc
  PROVE  At(pc).begun = {} /\ At(pc).written = {}
  BY DEF At

\* A step that leaves the tables alone.
LEMMA ProfileRunStep ==
  ASSUME IInv, ProfileInv, Watch, NEW w \in Worker, NEW q \in Run,
         worker' = [worker EXCEPT ![w] = q],
         aggregated' = aggregated, profile' = profile,
         q.written \subseteq q.begun,
         \A v \in q.begun \ late[w] : \A e \in aggregated \cup q.claimed :
           ViewerOf[e] = v => e \in q.read[v]
  PROVE  ProfileInv'
  <1>1. worker'[w] = q /\ \A x \in Worker \ {w} : worker'[x] = worker[x]
    BY DEF IInv, Types
  <1>2. \A x \in Worker : \A v : ~Commits(x, v)
    BY DEF Commits
  <1>3. \A x \in Worker : \A v \in worker'[x].begun : v \in late[x] => v \in late'[x]
    BY DEF Watch
  <1>4. ReadsAreWhole'
    BY <1>1, <1>3 DEF ProfileInv, ReadsAreWhole
  <1>5. \A v \in Viewer : v \in overtaken => v \in overtaken'
    BY <1>2 DEF Watch
  <1>6. \A e \in aggregated : ViewerOf[e] \in Viewer
    BY DiscoveryAssumption DEF IInv, Types
  <1>7. ProfilesAreWhole'
    BY <1>5, <1>6 DEF ProfileInv, ProfilesAreWhole
  <1> QED
    BY <1>4, <1>7 DEF ProfileInv

\* A commit writes what its snapshots had, and makes those of others that it
\* concerns out of date.
LEMMA ProfileCommitStep ==
  ASSUME IInv, ProfileInv, Watch, NEW w \in Worker, Commit(w)
  PROVE  ProfileInv'
  <1> DEFINE r == worker[w]
  <1>0. /\ r \in Run /\ aggregated \subseteq events /\ events \subseteq Event
        /\ r.claimed \subseteq events \ aggregated
    BY DEF IInv, Types, ClaimsAreWaiting
  <1>1. PICK pc \in {"stopped", "polling"} : worker' = [worker EXCEPT ![w] = At(pc)]
    BY DEF Commit
  <1>2. /\ worker'[w] = At(pc) /\ worker'[w].begun = {} /\ worker'[w].written = {}
        /\ \A x \in Worker \ {w} : worker'[x] = worker[x]
    BY <1>1, AtIsFresh DEF IInv, Types
  <1>3. r.pc = "refreshing" /\ r.written = Viewers(w) /\ aggregated' = aggregated \cup r.claimed
    BY DEF Commit
  <1>4. worker'[w] # worker[w]
    <2>1. At(pc).pc = pc
      BY DEF At
    <2> QED
      BY <1>1, <1>2, <1>3, <2>1
  <1>5. \A v \in Viewers(w) : Commits(w, v)
    <2> SUFFICES ASSUME NEW v \in Viewers(w) PROVE aggregated' # aggregated
      BY <1>4 DEF Commits
    <2>1. PICK e \in r.claimed : ViewerOf[e] = v
      BY DEF Viewers
    <2> QED
      BY <1>0, <1>3, <2>1
  <1>6. \A x \in Worker : \A v : Commits(x, v) => x = w /\ v \in Viewers(w)
    BY <1>2 DEF Commits
  <1>7. ReadsAreWhole'
    <2> SUFFICES ASSUME NEW x \in Worker
                 PROVE  /\ worker'[x].written \subseteq worker'[x].begun
                        /\ \A v \in worker'[x].begun \ late'[x] :
                             \A e \in aggregated' \cup worker'[x].claimed :
                               ViewerOf[e] = v => e \in worker'[x].read[v]
      BY DEF ReadsAreWhole
    <2>1. CASE x = w
      BY <1>2, <2>1
    <2>2. CASE x # w
      <3>1. worker'[x] = worker[x]
        BY <1>2, <2>2
      <3>2. ASSUME NEW v \in worker[x].begun \ late'[x],
                   NEW e \in aggregated' \cup worker[x].claimed, ViewerOf[e] = v
            PROVE  e \in worker[x].read[v]
        <4>1. v \notin late[x] /\ ~Commits(w, v)
          BY <2>2, <3>1, <3>2 DEF Watch
        <4>2. e \notin r.claimed
          BY <1>5, <3>2, <4>1 DEF Viewers
        <4>3. e \in aggregated \cup worker[x].claimed
          BY <1>3, <4>2
        <4> QED
          BY <3>2, <4>1, <4>3 DEF ProfileInv, ReadsAreWhole
      <3> QED
        BY <3>1, <3>2 DEF ProfileInv, ReadsAreWhole
    <2> QED
      BY <2>1, <2>2
  <1>8. ProfilesAreWhole'
    <2> SUFFICES ASSUME NEW e \in aggregated'
                 PROVE  e \in profile'[ViewerOf[e]] \/ ViewerOf[e] \in overtaken'
      BY DEF ProfilesAreWhole
    <2> DEFINE v == ViewerOf[e]
    <2>1. e \in aggregated \cup r.claimed /\ e \in Event
      BY <1>0, <1>3
    <2>2. v \in Viewer
      BY <2>1, DiscoveryAssumption
    <2> HIDE DEF v
    <2>3. CASE v \in Viewers(w)
      <3>1. profile'[v] = r.read[v]
        BY <1>3, <2>2, <2>3 DEF Commit
      <3>2. v \in r.begun
        BY <1>3, <2>3 DEF ProfileInv, ReadsAreWhole
      <3>3. CASE v \in late[w]
        <4>1. v \in overtaken'
          BY <1>5, <2>2, <2>3, <3>3 DEF Watch
        <4> QED
          BY <4>1 DEF v
      <3>4. CASE v \notin late[w]
        <4>1. e \in r.read[v]
          BY <2>1, <3>2, <3>4 DEF ProfileInv, ReadsAreWhole, v
        <4> QED
          BY <3>1, <4>1 DEF v
      <3> QED
        BY <3>3, <3>4
    <2>4. CASE v \notin Viewers(w)
      <3>1. e \in aggregated
        BY <2>1, <2>4 DEF Viewers, v
      <3>2. profile'[v] = profile[v]
        BY <1>3, <2>2, <2>4 DEF Commit
      <3>3. v \in overtaken => v \in overtaken'
        BY <1>6, <2>2, <2>4 DEF Watch
      <3> QED
        BY <3>1, <3>2, <3>3 DEF ProfileInv, ProfilesAreWhole, v
    <2> QED
      BY <2>3, <2>4
  <1> QED
    BY <1>7, <1>8 DEF ProfileInv

\* Every step keeps the snapshots and profiles that are not out of date whole.
LEMMA ProfileStep ==
  ASSUME IInv, ProfileInv, Watch, Next
  PROVE  ProfileInv'
  <1>1. ASSUME NEW e \in Event, Record(e) PROVE ProfileInv'
    <2>1. UNCHANGED <<aggregated, profile, worker>>
      BY <1>1 DEF Record
    <2>2. \A x \in Worker : \A v : ~Commits(x, v)
      BY <2>1 DEF Commits
    <2>3. \A x \in Worker : \A v \in worker[x].begun : v \in late[x] => v \in late'[x]
      BY <2>1 DEF Watch
    <2>4. \A v \in Viewer : v \in overtaken => v \in overtaken'
      BY <2>2 DEF Watch
    <2>5. \A f \in aggregated : ViewerOf[f] \in Viewer
      BY DiscoveryAssumption DEF IInv, Types
    <2>6. ReadsAreWhole'
      BY <2>1, <2>3 DEF ProfileInv, ReadsAreWhole
    <2>7. ProfilesAreWhole'
      BY <2>1, <2>4, <2>5 DEF ProfileInv, ProfilesAreWhole
    <2> QED
      BY <2>6, <2>7 DEF ProfileInv
  <1>2. ASSUME NEW w \in Worker, Start(w) \/ Claim(w) \/ Mark(w) \/ Abort(w) \/ Commit(w)
        PROVE  ProfileInv'
    <2> DEFINE r == worker[w]
    <2>1. ASSUME NEW pc \in {"stopped", "failed", "polling"},
                 worker' = [worker EXCEPT ![w] = At(pc)],
                 aggregated' = aggregated, profile' = profile
          PROVE  ProfileInv'
      <3>1. At(pc) \in Run
        BY AtIsRun
      <3> QED
        BY <2>1, <3>1, AtIsFresh, ProfileRunStep
    <2>2. CASE Start(w) \/ Abort(w)
      BY <2>1, <2>2 DEF Start, Abort
    <2>3. CASE Claim(w)
      <3> DEFINE batch == Oldest(Waiting(w))
                 q == [At("counting") EXCEPT !.claimed = batch]
      <3>1. CASE batch = {}
        BY <2>1, <2>3, <3>1 DEF Claim
      <3>2. CASE batch # {}
        <4>1. batch \subseteq Event
          BY DEF Oldest, Waiting, IInv, Types
        <4>2. q \in Run /\ q.begun = {} /\ q.written = {}
          BY <4>1 DEF At, Run
        <4>3. worker' = [worker EXCEPT ![w] = q] /\ aggregated' = aggregated /\ profile' = profile
          BY <2>3, <3>2 DEF Claim
        <4> HIDE DEF batch, q
        <4> QED
          BY <4>2, <4>3, ProfileRunStep
      <3> QED
        BY <3>1, <3>2
    <2>4. CASE Mark(w)
      <3> DEFINE q == [r EXCEPT !.pc = "refreshing"]
      <3>1. /\ q \in Run /\ q.claimed = r.claimed /\ q.begun = r.begun
            /\ q.written = r.written /\ q.read = r.read
        BY DEF Run, IInv, Types
      <3>2. worker' = [worker EXCEPT ![w] = q] /\ aggregated' = aggregated /\ profile' = profile
        BY <2>4 DEF Mark
      <3>3. /\ r.written \subseteq r.begun
            /\ \A v \in r.begun \ late[w] : \A e \in aggregated \cup r.claimed :
                 ViewerOf[e] = v => e \in r.read[v]
        BY DEF ProfileInv, ReadsAreWhole
      <3> HIDE DEF q, r
      <3> QED
        BY <3>1, <3>2, <3>3, ProfileRunStep
    <2> QED
      BY <1>2, <2>2, <2>3, <2>4, ProfileCommitStep
  <1>3. ASSUME NEW w \in Worker, NEW e \in Event, Count(w, e) PROVE ProfileInv'
    <2> DEFINE r == worker[w]
               q == [r EXCEPT !.counted = @ \cup {e}]
    <2>1. /\ q \in Run /\ q.claimed = r.claimed /\ q.begun = r.begun
          /\ q.written = r.written /\ q.read = r.read
      BY DEF Run, IInv, Types
    <2>2. worker' = [worker EXCEPT ![w] = q] /\ aggregated' = aggregated /\ profile' = profile
      BY <1>3 DEF Count
    <2>3. /\ r.written \subseteq r.begun
          /\ \A v \in r.begun \ late[w] : \A f \in aggregated \cup r.claimed :
               ViewerOf[f] = v => f \in r.read[v]
      BY DEF ProfileInv, ReadsAreWhole
    <2> HIDE DEF q, r
    <2> QED
      BY <2>1, <2>2, <2>3, ProfileRunStep
  <1>4. ASSUME NEW w \in Worker, NEW v \in Viewer, ReadInteractions(w, v) PROVE ProfileInv'
    <2> DEFINE r == worker[w]
               seen == {e \in events : ViewerOf[e] = v}
               q == [r EXCEPT !.begun = @ \cup {v}, !.read[v] = seen]
    <2>1. /\ seen \in SUBSET Event /\ r \in Run /\ aggregated \subseteq events
          /\ r.claimed \subseteq events /\ r.written \subseteq r.begun
          /\ \A u \in r.begun \ late[w] : \A e \in aggregated \cup r.claimed :
               ViewerOf[e] = u => e \in r.read[u]
      BY DEF IInv, Types, ClaimsAreWaiting, ProfileInv, ReadsAreWhole
    <2>2. /\ q \in Run /\ q.claimed = r.claimed
          /\ q.begun = r.begun \cup {v} /\ q.written = r.written
          /\ q.read = [r.read EXCEPT ![v] = seen]
      BY <2>1 DEF Run
    <2>3. \A u \in q.begun \ late[w] : \A e \in aggregated \cup q.claimed :
            ViewerOf[e] = u => e \in q.read[u]
      <3> SUFFICES ASSUME NEW u \in q.begun \ late[w], NEW e \in aggregated \cup q.claimed,
                          ViewerOf[e] = u
                   PROVE  e \in q.read[u]
        OBVIOUS
      <3>1. r.read \in [Viewer -> SUBSET Event] /\ r.begun \subseteq Viewer
        BY <2>1 DEF Run
      <3>2. CASE u = v
        BY <2>1, <2>2, <3>1, <3>2
      <3>3. CASE u # v
        <4>1. q.read[u] = r.read[u] /\ u \in r.begun \ late[w]
          BY <2>2, <3>1, <3>3
        <4> QED
          BY <2>1, <2>2, <4>1
      <3> QED
        BY <3>2, <3>3
    <2>4. worker' = [worker EXCEPT ![w] = q] /\ aggregated' = aggregated /\ profile' = profile
      BY <1>4 DEF ReadInteractions
    <2>5. q.written \subseteq q.begun
      BY <2>1, <2>2
    <2> HIDE DEF q
    <2> QED
      BY <2>2, <2>3, <2>4, <2>5, ProfileRunStep
  <1>5. ASSUME NEW w \in Worker, NEW v \in Viewer, WriteProfile(w, v) PROVE ProfileInv'
    <2> DEFINE r == worker[w]
               q == [r EXCEPT !.written = @ \cup {v}]
    <2>1. /\ q \in Run /\ q.claimed = r.claimed /\ q.begun = r.begun /\ q.read = r.read
          /\ q.written = r.written \cup {v}
      BY DEF Run, IInv, Types
    <2>2. v \in r.begun
      BY <1>5 DEF WriteProfile, IsBegun
    <2>3. worker' = [worker EXCEPT ![w] = q] /\ aggregated' = aggregated /\ profile' = profile
      BY <1>5 DEF WriteProfile
    <2>4. /\ r.written \subseteq r.begun
          /\ \A u \in r.begun \ late[w] : \A f \in aggregated \cup r.claimed :
               ViewerOf[f] = u => f \in r.read[u]
      BY DEF ProfileInv, ReadsAreWhole
    <2> HIDE DEF q, r
    <2> QED
      BY <2>1, <2>2, <2>3, <2>4, ProfileRunStep
  <1> QED
    BY <1>1, <1>2, <1>3, <1>4, <1>5 DEF Next

\* A worker that runs alone is never overtaken.
LoneInv == \A w \in Worker : deployed = {w} => late[w] = {} /\ overtaken = {}

\* Nobody else commits.
LEMMA LoneStep ==
  ASSUME LoneInv, DeployedNext
  PROVE  LoneInv'
  <1> SUFFICES ASSUME NEW w \in Worker, deployed = {w}
               PROVE  late'[w] = {} /\ overtaken' = {}
    BY DEF LoneInv, DeployedNext, Deployed
  <1>1. late[w] = {} /\ overtaken = {}
    BY DEF LoneInv
  <1>2. \A x \in Worker : \A v : Commits(x, v) => x = w
    BY DEF DeployedNext, Deployed, Commits
  <1>3. Watch
    BY DEF DeployedNext, Deployed
  <1> QED
    BY <1>1, <1>2, <1>3 DEF Watch

\* However many workers run, stop and overlap, a profile lacks an event that is
\* marked only while it is one that another worker's commit overtook, and one
\* worker alone leaves none (refreshDiscoveryProfile).
THEOREM ProfilesMissLittle == DeployedSpec => []OnlyOvertakenProfilesMissEvents
  <1>1. DeployedInit => IInv /\ ProfileInv /\ LoneInv
    <2> SUFFICES ASSUME DeployedInit PROVE IInv /\ ProfileInv /\ LoneInv
      OBVIOUS
    <2>1. Init /\ IInv
      BY InitIInv DEF DeployedInit
    <2>2. ProfileInv
      BY <2>1, AtIsFresh DEF Init, ProfileInv, ReadsAreWhole, ProfilesAreWhole
    <2> QED
      BY <2>1, <2>2 DEF DeployedInit, LoneInv
  <1>2. IInv /\ ProfileInv /\ LoneInv /\ [DeployedNext]_deployedVars
          => IInv' /\ ProfileInv' /\ LoneInv'
    <2> SUFFICES ASSUME IInv, ProfileInv, LoneInv, [DeployedNext]_deployedVars
                 PROVE  IInv' /\ ProfileInv' /\ LoneInv'
      OBVIOUS
    <2>1. [Next]_vars
      BY DEF DeployedNext, Deployed, deployedVars, vars
    <2>2. IInv'
      BY <2>1, NextIInv
    <2>3. CASE DeployedNext
      <3>1. Next /\ Watch
        BY <2>3 DEF DeployedNext, Deployed
      <3> QED
        BY <2>2, <2>3, <3>1, ProfileStep, LoneStep
    <2>4. CASE UNCHANGED deployedVars
      BY <2>2, <2>4 DEF deployedVars, ProfileInv, ReadsAreWhole, ProfilesAreWhole, LoneInv
    <2> QED
      BY <2>3, <2>4
  <1>3. ProfileInv /\ LoneInv => OnlyOvertakenProfilesMissEvents
    BY DEF ProfileInv, ProfilesAreWhole, LoneInv, OnlyOvertakenProfilesMissEvents
  <1> QED
    BY <1>1, <1>2, <1>3, PTL DEF DeployedSpec
=============================================================================
