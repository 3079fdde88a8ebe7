------------------------ MODULE DiscoveryDeployment -------------------------
(***************************************************************************)
(* DiscoveryAggregation under a schedule that runs one worker process, or  *)
(* under one that runs all of them: which of the two is fixed by whoever   *)
(* deploys the service, and the code cannot tell.                          *)
(*                                                                         *)
(* Two history variables say which profiles were written out of turn: a    *)
(* profile statement takes its snapshot before it waits for the row, so    *)
(* another worker may commit events of the same viewer in between, and     *)
(* what is written then is older than what is overwritten.                 *)
(***************************************************************************)
EXTENDS DiscoveryAggregation

VARIABLES
  deployed,  \* the workers that are ever started
  late,      \* of each worker, the viewers whose snapshot is out of date
  overtaken  \* the viewers whose profile was written from such a snapshot

deployedVars == <<events, aggregated, metric, profile, worker, deployed, late, overtaken>>

DeployedInit ==
  /\ Init
  /\ deployed \in {Worker} \cup {{w} : w \in Worker}
  /\ late = [w \in Worker |-> {}]
  /\ overtaken = {}

\* In this step w commits a batch with an event of v.
Commits(w, v) ==
  /\ aggregated' # aggregated
  /\ worker'[w] # worker[w]
  /\ v \in Viewers(w)

\* A snapshot is out of date once another worker has committed events of its
\* viewer; a profile is put right by the next batch with one of its events.
Watch ==
  /\ late' = [w \in Worker |->
                {v \in worker'[w].begun :
                   v \in late[w] \/ \E x \in Worker \ {w} : Commits(x, v)}]
  /\ overtaken' = {v \in Viewer : IF \E w \in Worker : Commits(w, v)
                                  THEN \E w \in Worker : Commits(w, v) /\ v \in late[w]
                                  ELSE v \in overtaken}

\* A step that no worker outside the deployment takes.
Deployed(A) ==
  /\ A
  /\ \A w \in Worker \ deployed : worker'[w] = worker[w]
  /\ Watch
  /\ UNCHANGED deployed

DeployedNext == Deployed(Next)

\* The next statement of w; there is never more than one kind of it.
Step(w) ==
  \/ Start(w) \/ Claim(w) \/ Mark(w) \/ Commit(w)
  \/ \E e \in Event : Count(w, e)
  \/ \E v \in Viewer : ReadInteractions(w, v) \/ WriteProfile(w, v)

\* A worker is started again and again, goes on when it can, and Postgres ends
\* a deadlock that lasts.  Events need not come.
DeployedFairness(w) ==
  /\ WF_vars(w \in deployed /\ Step(w))
  /\ WF_vars(w \in deployed /\ EndDeadlock(w))

DeployedSpec ==
  /\ DeployedInit
  /\ [][DeployedNext]_deployedVars
  /\ \A w \in Worker : DeployedFairness(w)

-----------------------------------------------------------------------------
\* migrations/006_discovery_aggregation.sql:1 as far as it goes: a viewer's
\* profile lacks an event that is marked only if it was written from a snapshot
\* that another worker's commit had overtaken, and only until the viewer's next
\* event is aggregated; a worker that runs alone leaves none so, whatever was
\* rolled back before and however late the event was inserted.
OnlyOvertakenProfilesMissEvents ==
  /\ \A e \in aggregated : e \in profile[ViewerOf[e]] \/ ViewerOf[e] \in overtaken
  /\ (\E w \in Worker : deployed = {w}) => overtaken = {}
=============================================================================
