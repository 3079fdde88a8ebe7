------------------------- MODULE SupportReportsProofs -------------------------
(***************************************************************************)
(* For any reports, staff, overlapping handlers and either store: the      *)
(* audit rows of a report are its complete story, the service implements   *)
(* ReportTrail, and the staff list leaves out no report of a later second  *)
(* than one it shows.                                                      *)
(***************************************************************************)
EXTENDS SupportReports, SequenceTheorems, TLAPS

\* What a handler in flight may rely on: the report it names is filed, the move
\* it is about to make is one from the status it has read, and it is in a state
\* its store has.
RequestsAreSound ==
    \A q \in Requests : ~At(q, "idle") =>
        /\ status[req[q].report] # "none"
        /\ ~At(q, "sent") => ValidTransition(req[q].from, req[q].to)
        /\ At(q, "read") => store # "memory"
        /\ At(q, "writing") => store = "sqlite"

\* Postgres: one handler at a time holds the lock of a row.  SQLite: one
\* transaction at a time writes.
OneHolder ==
    \A p, q \in Requests : p # q =>
        /\ store = "postgres" /\ At(p, "read") /\ At(q, "read")
               => req[p].report # req[q].report
        /\ ~(At(p, "writing") /\ At(q, "writing"))

IInv == /\ TypeOK
        /\ AuditChains
        /\ HeldStatusIsCurrent
        /\ RequestsAreSound
        /\ OneHolder

\* No report and no request yet.
LEMMA InitIInv == Init => IInv
  BY StoresAssumption, ClockAssumption
     DEF Init, IInv, TypeOK, AuditChains, Chain, HeldStatusIsCurrent, RequestsAreSound,
         OneHolder, At, Idle

\* The fields of a handler in flight.
LEMMA InFlightFields ==
  ASSUME TypeOK, NEW q \in Requests, ~At(q, "idle")
  PROVE  /\ req[q] \in InFlight
         /\ req[q].report \in Reports /\ req[q].actor \in Staff
         /\ req[q].to \in Status /\ req[q].from \in Status /\ req[q].stale \in BOOLEAN
  BY DEF TypeOK, InFlight, Idle, At

\* One more row that leaves the report's status makes a longer chain.
LEMMA ChainGrows ==
  ASSUME NEW rows \in Seq(Step), NEW s \in Status, NEW a \in Staff, NEW to \in Status,
         Chain(s, rows), ValidTransition(s, to)
  PROVE  Chain(to, Append(rows, [actor |-> a, from |-> s, to |-> to]))
  <1> DEFINE row == [actor |-> a, from |-> s, to |-> to]
             longer == Append(rows, row)
  <1>1. row \in Step /\ row.from = s /\ row.to = to
    BY DEF Step
  <1>2. /\ longer \in Seq(Step) /\ Len(longer) = Len(rows) + 1
        /\ longer[Len(rows) + 1] = row
        /\ \A i \in 1..Len(rows) : longer[i] = rows[i]
    BY <1>1
  <1>3. longer[1].from = "open"
    BY <1>1, <1>2 DEF Chain, Status, ValidTransition
  <1>4. longer[Len(longer)].to = to
    BY <1>1, <1>2
  <1>5. \A i \in 1..Len(longer) : ValidTransition(longer[i].from, longer[i].to)
    BY <1>1, <1>2 DEF Chain
  <1>6. \A i \in 1..(Len(longer) - 1) : longer[i].to = longer[i + 1].from
    <2> SUFFICES ASSUME NEW i \in 1..Len(rows) PROVE longer[i].to = longer[i + 1].from
      BY <1>2
    <2>1. CASE i = Len(rows)
      BY <2>1, <1>1, <1>2 DEF Chain
    <2>2. CASE i # Len(rows)
      BY <2>2, <1>2 DEF Chain
    <2> QED
      BY <2>1, <2>2
  <1>7. longer # <<>>
    BY <1>2
  <1> QED
    BY <1>3, <1>4, <1>5, <1>6, <1>7 DEF Chain

\* Applying a move from the status the report has keeps types and chains.
LEMMA ApplyKeeps ==
  ASSUME IInv, NEW q \in Requests, ~At(q, "idle"),
         Apply(q, status[req[q].report]),
         ValidTransition(status[req[q].report], req[q].to)
  PROVE  /\ status' \in [Reports -> Status \union {"none"}]
         /\ stamp' \in [Reports -> 0..MaxTime]
         /\ audit' \in [Reports -> Seq(Step)]
         /\ now' \in 0..MaxTime
         /\ store' \in Stores
         /\ AuditChains'
  <1> DEFINE r == req[q].report
             row == [actor |-> req[q].actor, from |-> status[r], to |-> req[q].to]
  <1>1. r \in Reports /\ req[q].actor \in Staff /\ req[q].to \in Status
    BY InFlightFields DEF IInv
  <1>2. status[r] \in Status
    BY <1>1 DEF ValidTransition, Status
  <1>3. /\ status \in [Reports -> Status \union {"none"}]
        /\ stamp \in [Reports -> 0..MaxTime]
        /\ audit \in [Reports -> Seq(Step)]
        /\ now \in 0..MaxTime /\ store \in Stores
    BY DEF IInv, TypeOK
  <1>4. row \in Step
    BY <1>1, <1>2 DEF Step
  <1>5. /\ status' = [status EXCEPT ![r] = req[q].to]
        /\ audit' = [audit EXCEPT ![r] = Append(audit[r], row)]
        /\ UNCHANGED <<store, stamp, now>>
    BY DEF Apply
  <1>6. audit' \in [Reports -> Seq(Step)]
    BY <1>1, <1>3, <1>4, <1>5
  <1>7. Chain(req[q].to, Append(audit[r], row))
    BY <1>1, <1>2, <1>3, ChainGrows DEF IInv, AuditChains
  <1>8. AuditChains'
    <2> SUFFICES ASSUME NEW s \in Reports PROVE Chain(status'[s], audit'[s])
      BY DEF AuditChains, Chain, ValidTransition
    <2>1. CASE s = r
      BY <2>1, <1>1, <1>3, <1>5, <1>7
    <2>2. CASE s # r
      BY <2>2, <1>1, <1>3, <1>5 DEF IInv, AuditChains
    <2> QED
      BY <2>1, <2>2
  <1> QED
    BY <1>1, <1>3, <1>5, <1>6, <1>8

\* Handlers other than q keep everything but the freshness of their snapshot.
SameBut(q) == \A p \in Requests : p # q => req'[p] = req[p]

\* Time passes.
LEMMA TickStep ==
  ASSUME IInv, Tick
  PROVE  IInv'
  <1>1. now' \in 0..MaxTime
    BY ClockAssumption DEF Tick, IInv, TypeOK
  <1>2. UNCHANGED <<store, status, stamp, audit, req>>
    BY DEF Tick
  <1>3. TypeOK'
    BY <1>1, <1>2 DEF IInv, TypeOK
  <1>4. AuditChains'
    <2> SUFFICES ASSUME NEW r \in Reports PROVE Chain(status'[r], audit'[r])
      BY DEF AuditChains, Chain, ValidTransition
    <2> QED
      BY <1>2 DEF IInv, AuditChains
  <1>5. HeldStatusIsCurrent' /\ RequestsAreSound' /\ OneHolder'
    BY <1>2 DEF IInv, HeldStatusIsCurrent, RequestsAreSound, OneHolder, At
  <1> QED
    BY <1>3, <1>4, <1>5 DEF IInv

\* Filing touches a report no handler names.
LEMMA CreateStep ==
  ASSUME IInv, NEW r \in Reports, NEW input, CreateReport(r, input)
  PROVE  IInv'
  <1>1. /\ status[r] = "none"
        /\ status' = [status EXCEPT ![r] = "open"]
        /\ stamp' = [stamp EXCEPT ![r] = now]
        /\ UNCHANGED <<store, audit, now>>
    BY DEF CreateReport, CreatePostgres, CreateSQLite, CreateMemory, Insert
  <1>2. \/ req' = req /\ store # "sqlite"
        \/ req' = [q \in Requests |-> Outdated(q)] /\ store = "sqlite"
    BY DEF CreateReport, CreatePostgres, CreateSQLite, CreateMemory
  <1>3. \A q \in Requests : /\ req'[q].pc = req[q].pc
                            /\ ~At(q, "idle") => /\ req'[q].report = req[q].report
                                                 /\ req'[q].from = req[q].from
                                                 /\ req'[q].to = req[q].to
                            /\ req'[q] \in InFlight \union {Idle}
                            /\ At(q, "read") /\ store = "sqlite" => req'[q].stale
    <2> SUFFICES ASSUME NEW q \in Requests
                 PROVE  /\ req'[q].pc = req[q].pc
                        /\ ~At(q, "idle") => /\ req'[q].report = req[q].report
                                             /\ req'[q].from = req[q].from
                                             /\ req'[q].to = req[q].to
                        /\ req'[q] \in InFlight \union {Idle}
                        /\ At(q, "read") /\ store = "sqlite" => req'[q].stale
      OBVIOUS
    <2>1. req[q] \in InFlight \union {Idle}
      BY DEF IInv, TypeOK
    <2>2. CASE req' = req /\ store # "sqlite"
      BY <2>1, <2>2
    <2>3. CASE req' = [p \in Requests |-> Outdated(p)] /\ store = "sqlite"
      <3>1. CASE At(q, "read")
        <4>1. req[q] \in InFlight
          BY <2>1, <3>1 DEF At, Idle
        <4>2. req'[q] = [req[q] EXCEPT !.stale = TRUE]
          BY <2>3, <3>1 DEF Outdated
        <4> QED
          BY <3>1, <4>1, <4>2 DEF InFlight
      <3>2. CASE ~At(q, "read")
        BY <2>1, <2>3, <3>2 DEF Outdated
      <3> QED
        BY <3>1, <3>2
    <2> QED
      BY <1>2, <2>2, <2>3
  <1>4. req' \in [Requests -> InFlight \union {Idle}]
    BY <1>2, <1>3 DEF IInv, TypeOK
  <1>5. TypeOK'
    BY <1>1, <1>4 DEF IInv, TypeOK, Status
  <1>6. AuditChains'
    <2> SUFFICES ASSUME NEW s \in Reports PROVE Chain(status'[s], audit'[s])
      BY DEF AuditChains, Chain, ValidTransition
    <2>1. Chain(status[s], audit[s]) /\ audit[s] \in Seq(Step)
      BY DEF IInv, AuditChains, TypeOK
    <2>2. CASE s = r
      <3>1. audit[s] = <<>>
        <4> SUFFICES ASSUME audit[s] # <<>> PROVE FALSE
          OBVIOUS
        <4>1. Len(audit[s]) \in 1..Len(audit[s])
          BY <2>1
        <4>2. audit[s][Len(audit[s])] \in Step
          BY <2>1, <4>1
        <4>3. audit[s][Len(audit[s])].to = "none"
          BY <1>1, <2>1, <2>2 DEF Chain
        <4> QED
          BY <4>2, <4>3 DEF Step, Status
      <3>2. audit'[s] = <<>> /\ status'[s] = "open"
        BY <1>1, <2>2, <3>1 DEF IInv, TypeOK
      <3> QED
        BY <3>2 DEF Chain
    <2>3. CASE s # r
      BY <1>1, <2>1, <2>3 DEF IInv, TypeOK
    <2> QED
      BY <2>2, <2>3
  <1>7. \A q \in Requests : ~At(q, "idle") =>
            req[q].report \in Reports /\ req[q].report # r
                /\ status'[req[q].report] = status[req[q].report]
    BY <1>1, InFlightFields DEF IInv, TypeOK, RequestsAreSound
  <1>8. HeldStatusIsCurrent'
    <2> SUFFICES ASSUME NEW q \in Requests,
                        \/ req'[q].pc = "writing"
                        \/ req'[q].pc = "read" /\ (store = "postgres" \/ ~req'[q].stale)
                 PROVE  status'[req'[q].report] = req'[q].from
      BY <1>1 DEF HeldStatusIsCurrent, At
    <2>1. req[q].pc \in {"writing", "read"} /\ req'[q].pc = req[q].pc
      BY <1>3
    <2>2. /\ req'[q].report = req[q].report /\ req'[q].from = req[q].from
          /\ status'[req[q].report] = status[req[q].report]
      BY <1>3, <1>7, <2>1 DEF At
    <2>3. CASE req' = req
      BY <2>1, <2>2, <2>3 DEF IInv, HeldStatusIsCurrent, At
    <2>4. CASE store = "sqlite"
      <3>1. req[q].pc = "writing"
        BY <1>3, <2>1, <2>4 DEF At
      <3> QED
        BY <2>2, <3>1 DEF IInv, HeldStatusIsCurrent, At
    <2> QED
      BY <1>2, <2>3, <2>4
  <1>9. RequestsAreSound'
    BY <1>1, <1>3, <1>7 DEF IInv, RequestsAreSound, At, ValidTransition
  <1>10. OneHolder'
    BY <1>1, <1>3 DEF IInv, OneHolder, At
  <1> QED
    BY <1>5, <1>6, <1>8, <1>9, <1>10 DEF IInv

\* A step of q that writes no table.
LEMMA QuietStep ==
  ASSUME IInv, NEW q \in Requests, NEW new \in InFlight \union {Idle},
         req' = [req EXCEPT ![q] = new],
         UNCHANGED <<store, status, stamp, audit, now>>,
         new.pc # "idle" => /\ status[new.report] # "none"
                            /\ new.pc # "sent" => ValidTransition(new.from, new.to)
                            /\ new.pc = "read" => store # "memory"
                            /\ new.pc = "writing" => store = "sqlite",
         new.pc = "writing" \/ (new.pc = "read" /\ (store = "postgres" \/ ~new.stale))
             => status[new.report] = new.from,
         new.pc = "read" /\ store = "postgres" =>
             \A p \in Requests : p # q /\ At(p, "read") => req[p].report # new.report,
         new.pc = "writing" => \A p \in Requests : p # q => ~At(p, "writing")
  PROVE  IInv'
  <1>1. req \in [Requests -> InFlight \union {Idle}] /\ req'[q] = new /\ SameBut(q)
    BY DEF IInv, TypeOK, SameBut
  <1>2. TypeOK'
    BY <1>1 DEF IInv, TypeOK
  <1>3. AuditChains'
    BY DEF IInv, AuditChains, Chain, ValidTransition
  <1>4. HeldStatusIsCurrent'
    <2> SUFFICES ASSUME NEW p \in Requests,
                        \/ req'[p].pc = "writing"
                        \/ req'[p].pc = "read" /\ (store = "postgres" \/ ~req'[p].stale)
                 PROVE  status[req'[p].report] = req'[p].from
      BY DEF HeldStatusIsCurrent, At
    <2>1. CASE p = q
      <3>1. req'[p] = new
        BY <1>1, <2>1
      <3> QED
        BY <3>1
    <2>2. CASE p # q
      <3>1. req'[p] = req[p]
        BY <1>1, <2>2 DEF SameBut
      <3> QED
        BY <3>1 DEF IInv, HeldStatusIsCurrent, At
    <2> QED
      BY <2>1, <2>2
  <1>5. RequestsAreSound'
    BY <1>1 DEF IInv, RequestsAreSound, At, SameBut, ValidTransition
  <1>6. OneHolder'
    BY <1>1 DEF IInv, OneHolder, At, SameBut
  <1> QED
    BY <1>2, <1>3, <1>4, <1>5, <1>6 DEF IInv

\* A request that ends and wrote nothing.
LEMMA BackToIdle ==
  ASSUME IInv, NEW q \in Requests, req' = [req EXCEPT ![q] = Idle],
         UNCHANGED <<store, status, stamp, audit, now>>
  PROVE  IInv'
  <1>1. Idle \in InFlight \union {Idle} /\ Idle.pc = "idle"
    BY DEF Idle
  <1> QED
    BY <1>1, QuietStep

\* A request reads a status it may leave; with Postgres, under the row lock.
LEMMA ReadKeeps ==
  ASSUME IInv, NEW q \in Requests, At(q, "sent"), Read(q),
         ValidTransition(status[req[q].report], req[q].to),
         store # "memory", store = "postgres" => Unlocked(req[q].report)
  PROVE  IInv'
  <1> DEFINE new == [req[q] EXCEPT !.pc = "read", !.from = status[req[q].report]]
  <1>1. req[q] \in InFlight /\ status[req[q].report] \in Status
    BY InFlightFields DEF IInv, At, ValidTransition, Status
  <1>2. /\ new \in InFlight /\ new.pc = "read" /\ new.from = status[req[q].report]
        /\ new.report = req[q].report /\ new.to = req[q].to
    BY <1>1 DEF InFlight
  <1>3. req' = [req EXCEPT ![q] = new] /\ UNCHANGED <<store, status, stamp, audit, now>>
    BY DEF Read
  <1>4. \A p \in Requests : p # q /\ At(p, "read") /\ store = "postgres"
            => req[p].report # new.report
    BY <1>2 DEF Unlocked
  <1>5. status[new.report] # "none" /\ ValidTransition(new.from, new.to)
    BY <1>2 DEF ValidTransition
  <1> HIDE DEF new
  <1> QED
    BY <1>2, <1>3, <1>4, <1>5, QuietStep

\* A request arrives.
LEMMA TransitionReportStep ==
  ASSUME IInv, NEW q \in Requests, NEW a \in Staff, NEW r \in Reports, NEW to \in Status,
         TransitionReport(q, a, r, to)
  PROVE  IInv'
  <1> DEFINE new == [pc |-> "sent", actor |-> a, report |-> r, to |-> to, from |-> "open",
                     stale |-> FALSE]
  <1>1. new \in InFlight /\ new.pc = "sent" /\ status[new.report] # "none"
    BY DEF InFlight, Status, TransitionReport, Filed
  <1>2. req' = [req EXCEPT ![q] = new] /\ UNCHANGED <<store, status, stamp, audit, now>>
    BY DEF TransitionReport
  <1> HIDE DEF new
  <1> QED
    BY <1>1, <1>2, QuietStep

\* A SQLite transaction becomes the writer, with a fresh snapshot.
LEMMA WriteSQLiteStep ==
  ASSUME IInv, NEW q \in Requests, WriteSQLite(q)
  PROVE  IInv'
  <1> DEFINE new == [req[q] EXCEPT !.pc = "writing"]
  <1>1. req[q] \in InFlight /\ store = "sqlite" /\ At(q, "read") /\ ~req[q].stale
    BY InFlightFields DEF IInv, At, WriteSQLite
  <1>2. /\ new \in InFlight /\ new.pc = "writing" /\ new.from = req[q].from
        /\ new.report = req[q].report /\ new.to = req[q].to
    BY <1>1 DEF InFlight
  <1>3. req' = [req EXCEPT ![q] = new] /\ UNCHANGED <<store, status, stamp, audit, now>>
    BY DEF WriteSQLite
  <1>4. status[new.report] # "none" /\ ValidTransition(new.from, new.to)
        /\ status[new.report] = new.from
    BY <1>1, <1>2 DEF IInv, RequestsAreSound, HeldStatusIsCurrent, At
  <1>5. \A p \in Requests : ~At(p, "writing")
    BY DEF WriteSQLite, Writer
  <1> HIDE DEF new
  <1> QED
    BY <1>1, <1>2, <1>3, <1>4, <1>5, QuietStep

\* A commit: q held the report's status, so no other handler does.
LEMMA CommitKeeps ==
  ASSUME IInv, NEW q \in Requests, Apply(q, req[q].from),
         \/ At(q, "read") /\ store = "postgres" /\ req' = [req EXCEPT ![q] = Idle]
         \/ At(q, "writing") /\ store = "sqlite"
                /\ req' = [p \in Requests |-> IF p = q THEN Idle ELSE Outdated(p)]
  PROVE  IInv'
  <1> DEFINE r == req[q].report
  <1>1. ~At(q, "idle") /\ req[q].from = status[r] /\ ValidTransition(req[q].from, req[q].to)
    BY DEF IInv, HeldStatusIsCurrent, RequestsAreSound, At
  <1>2. /\ status' \in [Reports -> Status \union {"none"}]
        /\ stamp' \in [Reports -> 0..MaxTime]
        /\ audit' \in [Reports -> Seq(Step)]
        /\ now' \in 0..MaxTime
        /\ store' \in Stores
        /\ AuditChains'
    BY <1>1, ApplyKeeps
  <1>3. r \in Reports /\ req[q].to \in Status /\ status' = [status EXCEPT ![r] = req[q].to]
            /\ store' = store
    BY <1>1, InFlightFields DEF IInv, Apply
  <1>4. req'[q] = Idle /\ Idle.pc = "idle"
    BY DEF IInv, TypeOK, Idle
  <1>5. \A p \in Requests : p # q =>
            /\ req'[p] \in InFlight \union {Idle}
            /\ req'[p].pc = req[p].pc
            /\ ~At(p, "idle") => /\ req'[p].report = req[p].report
                                 /\ req'[p].from = req[p].from
                                 /\ req'[p].to = req[p].to
            /\ At(p, "read") /\ store = "sqlite" => req'[p].stale
    <2> SUFFICES ASSUME NEW p \in Requests, p # q
                 PROVE  /\ req'[p] \in InFlight \union {Idle}
                        /\ req'[p].pc = req[p].pc
                        /\ ~At(p, "idle") => /\ req'[p].report = req[p].report
                                             /\ req'[p].from = req[p].from
                                             /\ req'[p].to = req[p].to
                        /\ At(p, "read") /\ store = "sqlite" => req'[p].stale
      OBVIOUS
    <2>1. req[p] \in InFlight \union {Idle}
      BY DEF IInv, TypeOK
    <2>2. CASE store = "postgres"
      BY <2>1, <2>2 DEF IInv, TypeOK
    <2>3. CASE store = "sqlite"
      <3>1. req'[p] = Outdated(p)
        BY <2>3
      <3>2. CASE At(p, "read")
        <4>1. req[p] \in InFlight /\ req'[p] = [req[p] EXCEPT !.stale = TRUE]
          BY <2>1, <3>1, <3>2 DEF Outdated, At, Idle
        <4> QED
          BY <4>1, <3>2 DEF InFlight
      <3>3. CASE ~At(p, "read")
        BY <2>1, <3>1, <3>3 DEF Outdated
      <3> QED
        BY <3>2, <3>3
    <2> QED
      BY <2>2, <2>3
  <1>6. req' \in [Requests -> InFlight \union {Idle}]
    BY <1>4, <1>5 DEF IInv, TypeOK
  <1>7. TypeOK'
    BY <1>2, <1>6 DEF TypeOK
  <1>8. \A p \in Requests : p # q =>
            /\ ~At(p, "writing")
            /\ At(p, "read") /\ store = "postgres" => req[p].report # r
    <2> SUFFICES ASSUME NEW p \in Requests, p # q
                 PROVE  /\ ~At(p, "writing")
                        /\ At(p, "read") /\ store = "postgres" => req[p].report # r
      OBVIOUS
    <2>1. At(p, "writing") => store = "sqlite"
      BY DEF IInv, RequestsAreSound, At
    <2>2. ~(At(p, "writing") /\ At(q, "writing"))
      BY DEF IInv, OneHolder
    <2>3. store = "postgres" /\ At(p, "read") /\ At(q, "read") => req[p].report # r
      BY DEF IInv, OneHolder
    <2> QED
      BY <2>1, <2>2, <2>3
  <1>9. \A s \in Reports : status[s] # "none" => status'[s] # "none"
    BY <1>3 DEF Status, IInv, TypeOK
  <1>10. HeldStatusIsCurrent'
    <2> SUFFICES ASSUME NEW p \in Requests,
                        \/ req'[p].pc = "writing"
                        \/ req'[p].pc = "read" /\ (store = "postgres" \/ ~req'[p].stale)
                 PROVE  status'[req'[p].report] = req'[p].from
      BY <1>3 DEF HeldStatusIsCurrent, At
    <2>1. p # q
      BY <1>4
    <2>2. At(p, "read") /\ store = "postgres"
      BY <1>5, <1>8, <2>1 DEF At
    <2>3. req[p].report \in Reports /\ req[p].report # r
      BY <1>8, <2>1, <2>2, InFlightFields DEF IInv, At
    <2>4. status[req[p].report] = req[p].from
      BY <2>2 DEF IInv, HeldStatusIsCurrent
    <2> QED
      BY <1>3, <1>5, <2>1, <2>2, <2>3, <2>4 DEF At, IInv, TypeOK
  <1>11. RequestsAreSound'
    <2> SUFFICES ASSUME NEW p \in Requests, req'[p].pc # "idle"
                 PROVE  /\ status'[req'[p].report] # "none"
                        /\ req'[p].pc # "sent" => ValidTransition(req'[p].from, req'[p].to)
                        /\ req'[p].pc = "read" => store # "memory"
                        /\ req'[p].pc = "writing" => store = "sqlite"
      BY <1>3 DEF RequestsAreSound, At, ValidTransition
    <2>1. p # q
      BY <1>4
    <2>2. ~At(p, "idle") /\ req[p].report \in Reports
      BY <1>5, <2>1, InFlightFields DEF At, IInv
    <2> QED
      BY <1>5, <1>9, <2>1, <2>2 DEF IInv, RequestsAreSound, At
  <1>12. OneHolder'
    BY <1>3, <1>4, <1>5 DEF IInv, OneHolder, At
  <1> QED
    BY <1>2, <1>7, <1>10, <1>11, <1>12 DEF IInv

\* Read, check and write under the memory store's mutex.
LEMMA TransitionMemoryStep ==
  ASSUME IInv, NEW q \in Requests, TransitionMemory(q)
  PROVE  IInv'
  <1>1. CASE Conflict(q)
    BY <1>1, BackToIdle DEF Conflict
  <1>2. CASE /\ ValidTransition(status[req[q].report], req[q].to)
             /\ Apply(q, status[req[q].report])
             /\ req' = [req EXCEPT ![q] = Idle]
    <2> DEFINE r == req[q].report
    <2>1. store = "memory" /\ ~At(q, "idle") /\ r \in Reports /\ req[q].to \in Status
      BY InFlightFields DEF TransitionMemory, At, IInv
    <2>2. /\ status' \in [Reports -> Status \union {"none"}]
          /\ stamp' \in [Reports -> 0..MaxTime]
          /\ audit' \in [Reports -> Seq(Step)]
          /\ now' \in 0..MaxTime
          /\ store' \in Stores
          /\ AuditChains'
      BY <1>2, <2>1, ApplyKeeps
    <2>3. store' = store /\ status' = [status EXCEPT ![r] = req[q].to]
      BY <1>2 DEF Apply
    <2>4. req'[q] = Idle /\ Idle.pc = "idle" /\ SameBut(q)
      BY <1>2 DEF IInv, TypeOK, SameBut, Idle
    <2>5. \A p \in Requests : ~At(p, "read") /\ ~At(p, "writing")
      BY <2>1 DEF IInv, RequestsAreSound, At
    <2>6. \A s \in Reports : status[s] # "none" => status'[s] # "none"
      BY <2>1, <2>3 DEF Status, IInv, TypeOK
    <2>7. TypeOK'
      BY <1>2, <2>2 DEF IInv, TypeOK
    <2>8. \A p \in Requests : req'[p].pc \in {"idle", "sent"}
                                /\ (req'[p].pc = "sent" => p # q /\ At(p, "sent"))
      <3> SUFFICES ASSUME NEW p \in Requests
                   PROVE  req'[p].pc \in {"idle", "sent"}
                              /\ (req'[p].pc = "sent" => p # q /\ At(p, "sent"))
        OBVIOUS
      <3>1. req[p].pc \in {"idle", "sent"}
        BY <2>5 DEF At, IInv, TypeOK, InFlight, Idle
      <3> QED
        BY <2>4, <3>1 DEF SameBut, At
    <2>9. HeldStatusIsCurrent' /\ OneHolder'
      BY <2>8 DEF HeldStatusIsCurrent, OneHolder, At
    <2>10. RequestsAreSound'
      <3> SUFFICES ASSUME NEW p \in Requests, req'[p].pc = "sent"
                   PROVE  status'[req'[p].report] # "none"
        BY <2>8 DEF RequestsAreSound, At
      <3>1. p # q /\ At(p, "sent") /\ req'[p] = req[p]
        BY <2>4, <2>8 DEF SameBut
      <3>2. req[p].report \in Reports /\ status[req[p].report] # "none"
        BY <3>1, InFlightFields DEF IInv, RequestsAreSound, At
      <3> QED
        BY <2>6, <3>1, <3>2
    <2> QED
      BY <2>2, <2>7, <2>9, <2>10 DEF IInv
  <1> QED
    BY <1>1, <1>2 DEF TransitionMemory

\* Every step of a transition, or its failure, keeps the invariant.
LEMMA HandleStep ==
  ASSUME IInv, NEW q \in Requests, Handle(q) \/ Fail(q)
  PROVE  IInv'
  <1>1. CASE LockPostgres(q)
    <2>1. CASE Conflict(q)
      BY <2>1, BackToIdle DEF Conflict
    <2>2. CASE ValidTransition(status[req[q].report], req[q].to) /\ Read(q)
      BY <1>1, <2>2, ReadKeeps DEF LockPostgres
    <2> QED
      BY <1>1, <2>1, <2>2 DEF LockPostgres
  <1>2. CASE CommitPostgres(q)
    BY <1>2, CommitKeeps DEF CommitPostgres
  <1>3. CASE ReadSQLite(q)
    <2>1. CASE Conflict(q)
      BY <2>1, BackToIdle DEF Conflict
    <2>2. CASE ValidTransition(status[req[q].report], req[q].to) /\ Read(q)
      BY <1>3, <2>2, ReadKeeps DEF ReadSQLite
    <2> QED
      BY <1>3, <2>1, <2>2 DEF ReadSQLite
  <1>4. CASE WriteSQLite(q)
    BY <1>4, WriteSQLiteStep
  <1>5. CASE CommitSQLite(q)
    BY <1>5, CommitKeeps DEF CommitSQLite
  <1>6. CASE TransitionMemory(q)
    BY <1>6, TransitionMemoryStep
  <1>7. CASE Fail(q)
    BY <1>7, BackToIdle DEF Fail
  <1> QED
    BY <1>1, <1>2, <1>3, <1>4, <1>5, <1>6, <1>7 DEF Handle

\* Nothing happens.
LEMMA StutterStep ==
  ASSUME IInv, UNCHANGED vars
  PROVE  IInv'
  BY DEF vars, IInv, TypeOK, AuditChains, Chain, HeldStatusIsCurrent, RequestsAreSound,
         OneHolder, At, ValidTransition

\* Every step keeps the invariant.
LEMMA IInvStep ==
  ASSUME IInv, [Next]_vars
  PROVE  IInv'
  <1>1. CASE Tick
    BY <1>1, TickStep
  <1>2. CASE \E r \in Reports, input \in {"valid", "wide", "invalid"} : CreateReport(r, input)
    BY <1>2, CreateStep
  <1>3. CASE \E q \in Requests, a \in Staff, r \in Reports, to \in Status :
                 TransitionReport(q, a, r, to)
    BY <1>3, TransitionReportStep
  <1>4. CASE \E q \in Requests : Handle(q) \/ Fail(q)
    BY <1>4, HandleStep
  <1>5. CASE UNCHANGED vars
    BY <1>5, StutterStep
  <1> QED
    BY <1>1, <1>2, <1>3, <1>4, <1>5 DEF Next

\* The inductive invariant of the reports and their audit (postgres.go:68-95,
\* sqlite.go:153-180, memory.go:27-45).
THEOREM Invariance == Spec => []IInv
  <1>1. Init => IInv
    BY InitIInv
  <1>2. IInv /\ [Next]_vars => IInv'
    BY IInvStep
  <1> QED
    BY <1>1, <1>2, PTL DEF Spec

\* Every variable of the report model keeps its type.
THEOREM TypeCorrect == Spec => []TypeOK
  <1>1. IInv => TypeOK
    BY DEF IInv
  <1> QED
    BY <1>1, Invariance, PTL

\* The audit rows of a report are its complete story, whichever store keeps them.
THEOREM AuditIsComplete == Spec => []AuditChains
  <1>1. IInv => AuditChains
    BY DEF IInv
  <1> QED
    BY <1>1, Invariance, PTL

\* The status a transaction is about to leave is the one the report has.
THEOREM HeldStatusesAreCurrent == Spec => []HeldStatusIsCurrent
  <1>1. IInv => HeldStatusIsCurrent
    BY DEF IInv
  <1> QED
    BY <1>1, Invariance, PTL

--------------------------------------------------------------------------------
(***************************************************************************)
(* The refinement.                                                         *)
(***************************************************************************)

\* The trail of a report ends at its status.
LEMMA LastOfTrail ==
  ASSUME IInv, NEW r \in Reports, status[r] # "none"
  PROVE  /\ Trail(r) # <<>>
         /\ Trail(r)[Len(Trail(r))] = status[r]
  <1> DEFINE tos == [i \in 1..Len(audit[r]) |-> audit[r][i].to]
  <1>1. audit[r] \in Seq(Step) /\ Chain(status[r], audit[r]) /\ status[r] \in Status
    BY DEF IInv, TypeOK, AuditChains
  <1>2. tos \in Seq(Status) /\ Len(tos) = Len(audit[r])
    <2>1. Len(audit[r]) \in Nat /\ \A i \in 1..Len(audit[r]) : audit[r][i].to \in Status
      <3>1. Len(audit[r]) \in Nat /\ \A i \in 1..Len(audit[r]) : audit[r][i] \in Step
        BY <1>1
      <3> QED
        BY <3>1 DEF Step
    <2> HIDE DEF Status
    <2> QED
      BY <2>1
  <1>3. Trail(r) = <<"open">> \o tos /\ Len(Trail(r)) = 1 + Len(audit[r])
    BY <1>2 DEF Trail, Status
  <1>4. CASE audit[r] = <<>>
    BY <1>1, <1>2, <1>3, <1>4 DEF Chain, Status
  <1>5. CASE audit[r] # <<>>
    <2>1. Len(audit[r]) \in Nat /\ Len(audit[r]) > 0
      BY <1>1, <1>5
    <2>2. Trail(r)[1 + Len(audit[r])] = tos[Len(audit[r])]
      BY <1>2, <1>3, <2>1 DEF Status
    <2>3. tos[Len(audit[r])] = status[r]
      BY <1>1, <1>5, <2>1 DEF Chain
    <2> QED
      BY <1>3, <2>1, <2>2, <2>3
  <1> QED
    BY <1>4, <1>5

\* No report has a trail yet.
LEMMA TrailInit ==
  ASSUME Init
  PROVE  Desk!Init
  BY DEF Init, Desk!Init, Trail

\* Filing a report: its audit rows are none, so its trail is now <<"open">>.
LEMMA TrailOfCreate ==
  ASSUME IInv, NEW r \in Reports, NEW input, CreateReport(r, input)
  PROVE  Desk!Next
  <1>1. /\ status[r] = "none" /\ status' = [status EXCEPT ![r] = "open"] /\ audit' = audit
    BY DEF CreateReport, CreatePostgres, CreateSQLite, CreateMemory, Insert
  <1>2. audit[r] = <<>>
    <2>1. Chain("none", audit[r]) /\ audit[r] \in Seq(Step)
      BY <1>1 DEF IInv, AuditChains, TypeOK
    <2> SUFFICES ASSUME audit[r] # <<>> PROVE FALSE
      OBVIOUS
    <2>2. Len(audit[r]) \in 1..Len(audit[r])
      BY <2>1
    <2>3. audit[r][Len(audit[r])] \in Step /\ audit[r][Len(audit[r])].to = "none"
      BY <2>1, <2>2 DEF Chain
    <2> QED
      BY <2>3 DEF Step, Status
  <1>3. status' \in [Reports -> Status \union {"none"}] /\ status'[r] = "open"
    BY <1>1 DEF IInv, TypeOK, Status
  <1>4. Trail(r)' = <<"open">> /\ Trail(r) = <<>>
    BY <1>1, <1>2, <1>3 DEF Trail
  <1>5. \A s \in Reports : s # r => Trail(s)' = Trail(s)
    BY <1>1 DEF Trail, IInv, TypeOK
  <1>6. [s \in Reports |-> Trail(s)'] =
            [[s \in Reports |-> Trail(s)] EXCEPT ![r] = <<"open">>]
    BY <1>4, <1>5
  <1>7. Desk!File(r)
    BY <1>4, <1>6 DEF Desk!File
  <1> QED
    BY <1>7 DEF Desk!Next

\* Applying a move appends the status it reaches.
LEMMA TrailOfMove ==
  ASSUME IInv, NEW r \in Reports, NEW to \in {"triaged", "resolved"}, NEW a \in Staff,
         status[r] # "none", ValidTransition(status[r], to),
         status' = [status EXCEPT ![r] = to],
         audit' = [audit EXCEPT ![r] =
                      Append(audit[r], [actor |-> a, from |-> status[r], to |-> to])]
  PROVE  Desk!Next
  <1> DEFINE row == [actor |-> a, from |-> status[r], to |-> to]
  <1>1. status[r] \in Status
    BY DEF IInv, TypeOK
  <1>3. audit[r] \in Seq(Step) /\ row \in Step /\ row.to = to
    BY <1>1 DEF IInv, TypeOK, Step, Status
  <1>4. status'[r] = to /\ audit'[r] = Append(audit[r], row)
    BY DEF IInv, TypeOK
  <1> DEFINE tos == [i \in 1..Len(audit[r]) |-> audit[r][i].to]
             tos2 == [i \in 1..Len(Append(audit[r], row)) |-> Append(audit[r], row)[i].to]
  <1>5. tos \in Seq(Status) /\ Len(tos) = Len(audit[r])
    <2>1. Len(audit[r]) \in Nat /\ \A i \in 1..Len(audit[r]) : audit[r][i].to \in Status
      <3>1. Len(audit[r]) \in Nat /\ \A i \in 1..Len(audit[r]) : audit[r][i] \in Step
        BY <1>3
      <3> QED
        BY <3>1 DEF Step
    <2> HIDE DEF Status
    <2> QED
      BY <2>1
  <1>6. tos2 = Append(tos, to)
    <2> HIDE DEF row, Status
    <2>1. Len(Append(audit[r], row)) = Len(audit[r]) + 1
      BY <1>3
    <2>2. \A i \in 1..(Len(audit[r]) + 1) :
              Append(audit[r], row)[i] = IF i = Len(audit[r]) + 1 THEN row ELSE audit[r][i]
      BY <1>3
    <2>3. \A i \in 1..(Len(audit[r]) + 1) :
              tos2[i] = IF i = Len(audit[r]) + 1 THEN to ELSE audit[r][i].to
      BY <1>3, <2>1, <2>2
    <2>4. \A i \in 1..Len(audit[r]) : audit[r][i].to = tos[i] /\ tos[i] \in Status
      BY <1>5
    <2>5. to \in Status
      BY DEF Status
    <2>6. tos2 \in Seq(Status) /\ Len(tos2) = Len(audit[r]) + 1
      <3>1. \A i \in 1..(Len(audit[r]) + 1) : Append(audit[r], row)[i].to \in Status
        <4> SUFFICES ASSUME NEW i \in 1..(Len(audit[r]) + 1)
                     PROVE  Append(audit[r], row)[i].to \in Status
          OBVIOUS
        <4>1. CASE i = Len(audit[r]) + 1
          BY <1>3, <2>2, <2>5, <4>1
        <4>2. CASE i # Len(audit[r]) + 1
          <5>1. i \in 1..Len(audit[r])
            BY <1>3, <4>2
          <5> QED
            BY <2>2, <2>4, <4>2, <5>1
        <4> QED
          BY <4>1, <4>2
      <3> QED
        BY <2>1, <3>1
    <2>7. /\ Append(tos, to) \in Seq(Status) /\ Len(Append(tos, to)) = Len(audit[r]) + 1
          /\ \A i \in 1..(Len(audit[r]) + 1) :
                 Append(tos, to)[i] = IF i = Len(audit[r]) + 1 THEN to ELSE tos[i]
      <3> HIDE DEF tos
      <3> QED
        BY <1>5, <2>5, AppendProperties
    <2>8. \A i \in 1..Len(tos2) : tos2[i] = Append(tos, to)[i]
      <3> HIDE DEF tos, tos2
      <3> QED
        BY <2>3, <2>4, <2>6, <2>7
    <2> HIDE DEF tos, tos2
    <2> QED
      BY <2>6, <2>7, <2>8, SeqEqual
  <1>7. Trail(r) = <<"open">> \o tos /\ Trail(r)' = <<"open">> \o tos2
    <2>1. [i \in 1..Len(audit'[r]) |-> audit'[r][i].to] = tos2
      BY <1>4
    <2>2. status'[r] # "none"
      BY <1>4
    <2> QED
      BY <2>1, <2>2 DEF Trail
  <1>8. <<"open">> \o Append(tos, to) = Append(<<"open">> \o tos, to)
    <2> HIDE DEF tos
    <2>1. to \in Status /\ "open" \in Status
      BY DEF Status
    <2> HIDE DEF Status
    <2> QED
      BY <1>5, <2>1
  <1>9. Trail(r)' = Append(Trail(r), to)
    BY <1>6, <1>7, <1>8
  <1>10. \A s \in Reports : s # r => Trail(s)' = Trail(s)
    <2> SUFFICES ASSUME NEW s \in Reports, s # r PROVE Trail(s)' = Trail(s)
      OBVIOUS
    <2>1. status'[s] = status[s] /\ audit'[s] = audit[s]
      BY DEF IInv, TypeOK
    <2> QED
      BY <2>1 DEF Trail
  <1>11. [s \in Reports |-> Trail(s)'] =
             [[s \in Reports |-> Trail(s)] EXCEPT ![r] = Append(@, to)]
    BY <1>1, <1>9, <1>10
  <1>12. Trail(r) # <<>> /\ Trail(r)[Len(Trail(r))] = status[r]
    BY <1>1, LastOfTrail
  <1>13. Desk!Leads(status[r], to)
    BY DEF Desk!Leads, ValidTransition
  <1>14. Desk!Move(r, to)
    BY <1>1, <1>11, <1>12, <1>13 DEF Desk!Move
  <1> QED
    BY <1>1, <1>14 DEF Desk!Next

\* A transition is a step of the abstract desk, or none.
LEMMA TrailOfHandle ==
  ASSUME IInv, NEW q \in Requests, Handle(q) \/ Fail(q)
  PROVE  Desk!Next \/ UNCHANGED <<status, audit>>
  <1>1. ASSUME ~At(q, "idle"), Apply(q, status[req[q].report]),
               ValidTransition(status[req[q].report], req[q].to)
        PROVE  Desk!Next
    <2>1. PICK r \in Reports, a \in Staff, to \in Status :
              r = req[q].report /\ a = req[q].actor /\ to = req[q].to
      BY <1>1, InFlightFields DEF IInv
    <2>2. /\ status[r] # "none" /\ to \in {"triaged", "resolved"}
          /\ ValidTransition(status[r], to)
      BY <1>1, <2>1 DEF ValidTransition
    <2>3. /\ status' = [status EXCEPT ![r] = to]
          /\ audit' = [audit EXCEPT ![r] =
                          Append(audit[r], [actor |-> a, from |-> status[r], to |-> to])]
      BY <1>1, <2>1 DEF Apply
    <2> QED
      BY <2>2, <2>3, TrailOfMove
  <1>2. CASE CommitPostgres(q)
    BY <1>1, <1>2 DEF CommitPostgres, IInv, HeldStatusIsCurrent, RequestsAreSound, At
  <1>3. CASE CommitSQLite(q)
    BY <1>1, <1>3 DEF CommitSQLite, IInv, HeldStatusIsCurrent, RequestsAreSound, At
  <1>4. CASE TransitionMemory(q)
    BY <1>1, <1>4 DEF TransitionMemory, Conflict, At
  <1>5. CASE LockPostgres(q) \/ ReadSQLite(q) \/ WriteSQLite(q) \/ Fail(q)
    BY <1>5 DEF LockPostgres, ReadSQLite, WriteSQLite, Fail, Conflict, Read
  <1> QED
    BY <1>2, <1>3, <1>4, <1>5 DEF Handle

\* Every step is a step of the abstract desk, or none.
LEMMA TrailStep ==
  ASSUME IInv, [Next]_vars
  PROVE  [Desk!Next]_([r \in Reports |-> Trail(r)])
  <1>1. ASSUME UNCHANGED <<status, audit>>
        PROVE  UNCHANGED [r \in Reports |-> Trail(r)]
    BY <1>1 DEF Trail
  <1>2. CASE Tick \/ UNCHANGED vars
    BY <1>1, <1>2 DEF Tick, vars
  <1>3. CASE \E r \in Reports, input \in {"valid", "wide", "invalid"} : CreateReport(r, input)
    BY <1>3, TrailOfCreate
  <1>4. CASE \E q \in Requests, a \in Staff, r \in Reports, to \in Status :
                 TransitionReport(q, a, r, to)
    BY <1>1, <1>4 DEF TransitionReport
  <1>5. CASE \E q \in Requests : Handle(q) \/ Fail(q)
    BY <1>1, <1>5, TrailOfHandle
  <1> QED
    BY <1>2, <1>3, <1>4, <1>5 DEF Next

\* The reports implement ReportTrail: a report's statuses are one walk along the
\* status machine, however many staff members move it at once.
THEOREM Implements == Spec => ImplementsReportTrail
  <1>1. Init => Desk!Init
    BY TrailInit
  <1>2. IInv /\ [Next]_vars => [Desk!Next]_([r \in Reports |-> Trail(r)])
    BY TrailStep
  <1> QED
    BY <1>1, <1>2, Invariance, PTL DEF Spec, ImplementsReportTrail, Desk!Spec

--------------------------------------------------------------------------------
(***************************************************************************)
(* The staff list.                                                         *)
(***************************************************************************)

\* A time is the ticks of its seconds, and what is left of a second.
LEMMA TicksOfSecond ==
  ASSUME NEW t \in Nat
  PROVE  /\ Second(t) \in Nat
         /\ \E p, m \in Nat : /\ p = Parts * Second(t) /\ m = t % Parts
                              /\ t = p + m /\ m < Parts
  <1>1. Parts \in Nat /\ Parts > 0
    BY ClockAssumption
  <1>2. t \div Parts \in Nat /\ t % Parts \in 0..(Parts - 1)
    BY <1>1
  <1>3. t % Parts = t - Parts * (t \div Parts)
    BY <1>1, Z3
  <1>4. PICK p \in Nat, m \in Nat : p = Parts * Second(t) /\ m = t % Parts
    BY <1>1, <1>2 DEF Second
  <1>5. m = t - p /\ m < Parts
    BY <1>1, <1>2, <1>3, <1>4 DEF Second
  <1>6. t = p + m
    BY <1>5
  <1> QED
    BY <1>2, <1>4, <1>5, <1>6, Zenon DEF Second

\* A later second is later by all of a second's ticks.
LEMMA SecondsApart ==
  ASSUME NEW a \in Nat, NEW b \in Nat, a < b
  PROVE  Parts * a + Parts <= Parts * b
  <1>1. PICK d \in Nat : b = (a + 1) + d
    <2>1. b - (a + 1) \in Nat /\ b = (a + 1) + (b - (a + 1))
      OBVIOUS
    <2> QED
      BY <2>1
  <1>2. Parts * b = (Parts * a + Parts) + Parts * d
    BY <1>1, ClockAssumption
  <1>3. Parts * d \in Nat /\ Parts * a \in Nat
    BY ClockAssumption
  <1> QED
    BY <1>2, <1>3, ClockAssumption

\* The order of the stored times, and that of their texts, are those of the
\* seconds: a whole second's text sorts as if at the end of its second.
LEMMA OrderOfSeconds ==
  ASSUME NEW t \in Nat, NEW u \in Nat, Second(t) < Second(u)
  PROVE  t < u /\ TextRank(t) < TextRank(u)
  <1>1. Parts * Second(t) + Parts <= Parts * Second(u)
    BY TicksOfSecond, SecondsApart
  <1>2. PICK p \in Nat, m \in Nat :
            p = Parts * Second(t) /\ m = t % Parts /\ t = p + m /\ m < Parts
    BY TicksOfSecond
  <1>3. PICK q \in Nat, n \in Nat :
            q = Parts * Second(u) /\ n = u % Parts /\ u = q + n /\ n < Parts
    BY TicksOfSecond
  <1>4. Parts \in Nat /\ Parts > 0
    BY ClockAssumption
  <1>5. TextRank(t) = IF m = 0 THEN t + Parts ELSE t
    BY <1>2, Zenon DEF TextRank
  <1>6. TextRank(u) = IF n = 0 THEN u + Parts ELSE u
    BY <1>3, Zenon DEF TextRank
  <1>7. p + Parts <= q
    BY <1>1, <1>2, <1>3, Zenon
  <1>8. t = p + m /\ m < Parts /\ u = q + n
    BY <1>2, <1>3, Zenon
  <1> QED
    BY <1>4, <1>5, <1>6, <1>7, <1>8

\* A report the staff list leaves out was filed in no later second than any it
\* shows, on both stores the service is deployed with (postgres.go:42 and
\* sqlite.go:112, whose times are texts).
THEOREM ListOmitsNoNewerSecond == Spec => []OmitsNoNewerSecond
  <1>1. TypeOK => OmitsNoNewerSecond
    <2> SUFFICES ASSUME TypeOK, store # "memory",
                        NEW L \in Lists, NEW r \in L, NEW s \in Filed \ L,
                        Second(stamp[r]) < Second(stamp[s])
                 PROVE  FALSE
      <3>1. ASSUME TypeOK, NEW r \in Reports PROVE Second(stamp[r]) \in Nat
        BY <3>1, TicksOfSecond, ClockAssumption DEF TypeOK
      <3>2. \A L \in Lists : L \in SUBSET Reports
        BY DEF Lists, Filed
      <3> QED
        BY <3>1, <3>2 DEF OmitsNoNewerSecond, Filed
    <2>1. stamp[r] \in Nat /\ stamp[s] \in Nat
      BY ClockAssumption DEF TypeOK, Lists, Filed
    <2>2. Rank(s) <= Rank(r)
      BY DEF Lists
    <2>3. Rank(r) < Rank(s)
      BY <2>1, OrderOfSeconds, StoresAssumption DEF Rank, TypeOK
    <2>4. Rank(r) \in Int /\ Rank(s) \in Int
      BY <2>1, ClockAssumption, StoresAssumption DEF Rank, TextRank, TypeOK
    <2> QED
      BY <2>2, <2>3, <2>4
  <1> QED
    BY <1>1, TypeCorrect, PTL
================================================================================
