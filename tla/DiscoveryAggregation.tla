------------------------ MODULE DiscoveryAggregation ------------------------
(***************************************************************************)
(* The discovery worker: it moves raw events to daily counters and viewer  *)
(* profiles, a batch to a transaction, next to other workers and to the    *)
(* service that records events.  One action per statement.                 *)
(*                                                                         *)
(* Data.  An event is its place in the order of (created_at, id); what it  *)
(* counts in (listing, day and type) and whose it is are constants.        *)
(* Events are inserted in any order: created_at is set before the insert.  *)
(* A profile is the set of interactions it was derived from, all of them   *)
(* younger than thirty days; impressions, which no profile reads, are out. *)
(*                                                                         *)
(* What a transaction has written stays in worker[w] until it commits, and *)
(* the rows it wrote are locked: that is why the counters may be added up  *)
(* at the commit.                                                          *)
(***************************************************************************)
EXTENDS Naturals, FiniteSets

CONSTANTS
  MaxEvent,   \* bound: events recorded
  Counter,    \* cells of listing_metrics_daily
  Viewer,     \* viewers, each with a row of discovery_profiles
  CounterOf,  \* the cell an event counts in
  ViewerOf,   \* the viewer an event is of
  Worker,     \* worker processes
  BatchSize   \* DISCOVERY_BATCH_SIZE

Event == 1..MaxEvent

ASSUME DiscoveryAssumption ==
  /\ MaxEvent \in Nat
  /\ CounterOf \in [Event -> Counter]
  /\ ViewerOf \in [Event -> Viewer]
  /\ Counter \cap Viewer = {}
  /\ BatchSize \in Nat \ {0}

VARIABLES
  events,      \* discovery_events
  aggregated,  \* those with aggregated_at set
  metric,      \* listing_metrics_daily
  profile,     \* discovery_profiles
  worker       \* the run of each worker process

vars == <<events, aggregated, metric, profile, worker>>

\* claimed: the rows locked by the batch; counted: those whose counter row is
\* written; read: the viewers whose profile statement has begun, with the
\* interactions its snapshot has; written: those whose row is written.
Run == [pc: {"stopped", "failed", "polling", "counting", "refreshing"},
        claimed: SUBSET Event, counted: SUBSET Event,
        read: [Viewer -> SUBSET Event], begun: SUBSET Viewer, written: SUBSET Viewer]

At(pc) == [pc |-> pc, claimed |-> {}, counted |-> {},
           read |-> [v \in Viewer |-> {}], begun |-> {}, written |-> {}]

Types ==
  /\ events \subseteq Event
  /\ aggregated \subseteq events
  /\ metric \in [Counter -> Nat]
  /\ profile \in [Viewer -> SUBSET Event]
  /\ worker \in [Worker -> Run]

TypeOK == Types /\ \A w \in Worker : Cardinality(worker[w].claimed) <= BatchSize

Init ==
  /\ events = {}
  /\ aggregated = {}
  /\ metric = [c \in Counter |-> 0]
  /\ profile = [v \in Viewer |-> {}]
  /\ worker = [w \in Worker |-> At("stopped")]

-----------------------------------------------------------------------------
\* RecordDiscoveryEvents commits an event.
Record(e) ==
  /\ e \notin events
  /\ events' = events \cup {e}
  /\ UNCHANGED <<aggregated, metric, profile, worker>>

\* The schedule starts a worker, or its interval is over.
Start(w) ==
  /\ worker[w].pc \in {"stopped", "failed"}
  /\ worker' = [worker EXCEPT ![w] = At("polling")]
  /\ UNCHANGED <<events, aggregated, metric, profile>>

-----------------------------------------------------------------------------
(* AggregateDiscoveryEvents.                                               *)

\* Fault: FOR UPDATE SKIP LOCKED left out.
WaitingOrClaimed(w) == events \ aggregated

\* Fault: the worker remembers how far it got instead of marking rows.
WaitingAfterLast(w) ==
  {e \in events \ aggregated :
     /\ \A f \in aggregated : f < e
     /\ \A x \in Worker \ {w} : e \notin worker[x].claimed}

\* WHERE aggregated_at IS NULL ... FOR UPDATE SKIP LOCKED
Waiting(w) ==
  {e \in events \ aggregated : \A x \in Worker \ {w} : e \notin worker[x].claimed}

\* Fault: one row too many.
OldestAndOne(S) == {e \in S : Cardinality({f \in S : f < e}) <= BatchSize}

\* ORDER BY created_at, id LIMIT
Oldest(S) == {e \in S : Cardinality({f \in S : f < e}) < BatchSize}

Claim(w) ==
  LET batch == Oldest(Waiting(w))
  IN  /\ worker[w].pc = "polling"
      /\ worker' = [worker EXCEPT ![w] =
                      IF batch = {} THEN At("stopped")
                      ELSE [At("counting") EXCEPT !.claimed = batch]]
      /\ UNCHANGED <<events, aggregated, metric, profile>>

\* The rows a transaction has written and holds until it ends.
Locked(w) == {CounterOf[e] : e \in worker[w].counted} \cup worker[w].written

Free(w, row) == \A x \in Worker \ {w} : row \notin Locked(x)

\* The event the loop of w is at.
IsNext(w, e) ==
  /\ worker[w].pc = "counting"
  /\ e \in worker[w].claimed \ worker[w].counted
  /\ \A f \in worker[w].claimed \ worker[w].counted : e <= f

\* The profile row the statement of w is to write.
IsBegun(w, v) ==
  /\ worker[w].pc = "refreshing"
  /\ v \in worker[w].begun \ worker[w].written

\* INSERT INTO listing_metrics_daily ... ON CONFLICT ... DO UPDATE
Count(w, e) ==
  /\ IsNext(w, e)
  /\ Free(w, CounterOf[e])
  /\ worker' = [worker EXCEPT ![w].counted = @ \cup {e}]
  /\ UNCHANGED <<events, aggregated, metric, profile>>

\* UPDATE discovery_events SET aggregated_at: the rows are claimed already.
Mark(w) ==
  /\ worker[w].pc = "counting"
  /\ worker[w].counted = worker[w].claimed
  /\ worker' = [worker EXCEPT ![w].pc = "refreshing"]
  /\ UNCHANGED <<events, aggregated, metric, profile>>

Viewers(w) == {ViewerOf[e] : e \in worker[w].claimed}

\* Fault: only the events aggregated before this transaction are read.
ReadAggregated(w, v) ==
  /\ worker[w].pc = "refreshing"
  /\ worker[w].begun = worker[w].written
  /\ v \in Viewers(w) \ worker[w].begun
  /\ worker' = [worker EXCEPT ![w].begun = @ \cup {v},
                              ![w].read[v] = {e \in aggregated : ViewerOf[e] = v}]
  /\ UNCHANGED <<events, aggregated, metric, profile>>

\* refreshDiscoveryProfile, in any order of the viewers (a Go map): the
\* statement's snapshot has every committed event, aggregated or not ...
ReadInteractions(w, v) ==
  /\ worker[w].pc = "refreshing"
  /\ worker[w].begun = worker[w].written
  /\ v \in Viewers(w) \ worker[w].begun
  /\ worker' = [worker EXCEPT ![w].begun = @ \cup {v},
                              ![w].read[v] = {e \in events : ViewerOf[e] = v}]
  /\ UNCHANGED <<events, aggregated, metric, profile>>

\* ... and what it writes is what the snapshot had, however long it waited for
\* the row.
WriteProfile(w, v) ==
  /\ IsBegun(w, v)
  /\ Free(w, v)
  /\ worker' = [worker EXCEPT ![w].written = @ \cup {v}]
  /\ UNCHANGED <<events, aggregated, metric, profile>>

\* The transaction commits; a batch below the limit ends runUntilCaughtUp.
Commit(w) ==
  /\ worker[w].pc = "refreshing"
  /\ worker[w].written = Viewers(w)
  /\ aggregated' = aggregated \cup worker[w].claimed
  /\ metric' = [c \in Counter |->
                  metric[c] + Cardinality({e \in worker[w].counted : CounterOf[e] = c})]
  /\ profile' = [v \in Viewer |-> IF v \in worker[w].written THEN worker[w].read[v]
                                                             ELSE profile[v]]
  /\ worker' = [worker EXCEPT ![w] = At(IF Cardinality(worker[w].claimed) < BatchSize
                                        THEN "stopped" ELSE "polling")]
  /\ UNCHANGED events

\* An error or a crash: the process exits, its transaction rolls back.
Abort(w) ==
  /\ worker[w].pc \notin {"stopped", "failed"}
  /\ worker' = [worker EXCEPT ![w] = At("failed")]
  /\ UNCHANGED <<events, aggregated, metric, profile>>

-----------------------------------------------------------------------------
(* Postgres ends one of the transactions that wait for each other.         *)

WaitsFor(w, x) ==
  /\ x # w
  /\ \/ \E e \in Event : IsNext(w, e) /\ CounterOf[e] \in Locked(x)
     \/ \E v \in Viewer : IsBegun(w, v) /\ v \in Locked(x)

Deadlocked(w) ==
  \E S \in SUBSET Worker :
    /\ w \in S
    /\ \A x \in S : (\E y \in S : WaitsFor(x, y)) /\ (\E y \in S : WaitsFor(y, x))

EndDeadlock(w) == Deadlocked(w) /\ Abort(w)

Next ==
  \/ \E e \in Event : Record(e)
  \/ \E w \in Worker : Start(w) \/ Claim(w) \/ Mark(w) \/ Commit(w) \/ Abort(w)
  \/ \E w \in Worker, e \in Event : Count(w, e)
  \/ \E w \in Worker, v \in Viewer : ReadInteractions(w, v) \/ WriteProfile(w, v)

Spec == Init /\ [][Next]_vars

-----------------------------------------------------------------------------
(* What holds.                                                             *)

\* "SKIP LOCKED permits more than one worker without double-counting rows"
\* (discovery_aggregate.go:30): the committed counters add up to the marked
\* events, through overlapping workers, crashes and rolled back batches.
CountedOnce ==
  \A c \in Counter : metric[c] = Cardinality({e \in aggregated : CounterOf[e] = c})

\* Every recorded event is counted in the end, however late it was inserted,
\* unless workers are ended again and again for ever.
EveryEventIsCounted ==
  \/ []<><<\E w \in Worker : Abort(w)>>_vars
  \/ \A e \in Event : e \in events ~> e \in aggregated

\* migrations/006_discovery_aggregation.sql:1: "The aggregation worker marks a
\* row only after its daily metric and viewer profile updates commit in the
\* same transaction": the profile of a viewer has every event that is marked.
\* It holds of one worker and not of several (OnlyOvertakenProfilesMissEvents).
ProfilesHaveMarkedEvents == \A e \in aggregated : e \in profile[ViewerOf[e]]
=============================================================================
