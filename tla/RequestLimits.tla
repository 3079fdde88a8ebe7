---------------------------- MODULE RequestLimits ----------------------------
(***************************************************************************)
(* The limits the services keep in memory: the auth service's five failed  *)
(* logins per address and quarter of an hour (auth/internal/handlers/      *)
(* login.go), the one-minute windows for discovery events and image        *)
(* uploads (listings/internal/handlers/listings.go) and for reports        *)
(* (support/internal/handlers/reports.go).  Each service is a process of   *)
(* its own: a behaviour follows one of them through one life.              *)
(*                                                                         *)
(* Data.  Times are ages, in ticks: what is a Period old has no effect any *)
(* more (the code deletes it on its next call) and is dropped.  A log is   *)
(* the ages of its entries, the newest first.                              *)
(***************************************************************************)
EXTENDS Integers, Sequences, FiniteSets

CONSTANTS Email,        \* addresses, known to the service or not
          Slot,         \* login handlers at a time
          MaxFailures,  \* failures that block an address (5)
          MaxTracked,   \* addresses that are tracked (10,000)
          Caller,       \* sellers, visitors, reporters
          Proxy,        \* the address all of them have behind the Next server
          Limit,        \* requests of a window (120, 30 and 10)
          Period,       \* the quarter of an hour, the minute
          Services      \* services that are followed

ASSUME LimitsAssumption ==
  /\ {MaxFailures, MaxTracked, Limit, Period} \subseteq Nat \ {0}
  /\ Proxy \notin Caller
  /\ IsFiniteSet(Slot)
  /\ Services \subseteq {"auth", "listings", "support"}

VARIABLES service,   \* the service
          proxyKey,  \* whether it shares a secret with the Next server
          failures,  \* loginLimiter.failures
          attempt,   \* login handlers whose address was not blocked
          window,    \* the windows of each kind of request
          granted,   \* requests of each caller let through (history)
          passed     \* requests let through in each window (history)

limitVars == <<service, proxyKey, failures, attempt, window, granted, passed>>

Age == 0..(Period - 1)

Log == {log \in Seq(Age) :
          \A i, j \in 1..Len(log) : i <= j => log[i] <= log[j]}

EmptyLog == <<>>

Size(log) == Len(log)

With(log) == <<0>> \o log

\* The entries that are old enough are the last of the log.
Older(log) == LET Kept == {i \in 1..Len(log) : log[i] < Period - 1}
              IN  [i \in 1..Cardinality(Kept) |-> log[i] + 1]

Kinds == CASE service = "listings" -> {"event", "image"}
           [] service = "support"  -> {"report"}
           [] service = "auth"     -> {}

AllKinds == {"event", "image", "report"}

WindowKey == AllKinds \X (Caller \cup {Proxy})

\* age = Period: no window, or one that is over.
Window == [age : 0..Period, requests : 0..Limit]

Idle == [at |-> "idle"]

Attempt == [at : {"checking"}, email : Email, right : BOOLEAN]

LimitInit == /\ service \in Services
             /\ proxyKey \in BOOLEAN
             /\ failures = [e \in Email |-> EmptyLog]
             /\ attempt = [s \in Slot |-> Idle]
             /\ window = [k \in WindowKey |-> [age |-> Period, requests |-> 0]]
             /\ granted = [g \in AllKinds \X Caller |-> EmptyLog]
             /\ passed = [k \in WindowKey |-> EmptyLog]

Tick == /\ failures' = [e \in Email |-> Older(failures[e])]
        /\ window' = [k \in WindowKey |->
                        [window[k] EXCEPT !.age = IF @ < Period THEN @ + 1 ELSE @]]
        /\ granted' = [g \in AllKinds \X Caller |-> Older(granted[g])]
        /\ passed' = [k \in WindowKey |-> Older(passed[k])]
        /\ UNCHANGED <<service, proxyKey, attempt>>

--------------------------------------------------------------------------------
(***************************************************************************)
(* POST /auth/login.                                                       *)
(***************************************************************************)

Tracked == {e \in Email : Size(failures[e]) > 0}

\* Fault: one failure too many.
BlockedLate(e) == Size(failures[e]) > MaxFailures

Blocked(e) == Size(failures[e]) >= MaxFailures

UnchangedLogins == UNCHANGED <<failures, attempt>>

UnchangedWindows == UNCHANGED <<window, granted, passed>>

\* Fault: a blocked attempt starts the quarter of an hour anew.
RenewBlocked(e) ==
  /\ service = "auth"
  /\ Blocked(e)
  /\ failures' = [failures EXCEPT ![e] = [i \in 1..MaxFailures |-> 0]]
  /\ UNCHANGED <<service, proxyKey, attempt>> /\ UnchangedWindows

\* An address that is blocked is answered 429 and nothing happens.
RefuseLogin(e) ==
  /\ service = "auth"
  /\ Blocked(e)
  /\ UNCHANGED <<service, proxyKey, attempt, failures>> /\ UnchangedWindows

\* blocked() lets the attempt through to the slow password check.
Check(s, e, right) ==
  /\ service = "auth"
  /\ attempt[s] = Idle
  /\ ~Blocked(e)
  /\ attempt' = [attempt EXCEPT ![s] = [at |-> "checking", email |-> e, right |-> right]]
  /\ UNCHANGED <<service, proxyKey, failures>> /\ UnchangedWindows

\* A full table takes no further address.
Counts(e) == e \in Tracked \/ Cardinality(Tracked) < MaxTracked

\* The password is wrong or the address unknown: recordFailure.
WrongPassword(s) ==
  /\ attempt[s] # Idle
  /\ ~attempt[s].right
  /\ LET e == attempt[s].email
     IN  failures' = IF Counts(e) THEN [failures EXCEPT ![e] = With(@)] ELSE failures
  /\ attempt' = [attempt EXCEPT ![s] = Idle]
  /\ UNCHANGED <<service, proxyKey>> /\ UnchangedWindows

\* reset, before the session is issued.
RightPassword(s) ==
  /\ attempt[s] # Idle
  /\ attempt[s].right
  /\ failures' = [failures EXCEPT ![attempt[s].email] = EmptyLog]
  /\ attempt' = [attempt EXCEPT ![s] = Idle]
  /\ UNCHANGED <<service, proxyKey>> /\ UnchangedWindows

\* The store fails: 500, and no failure is counted.
LookupFails(s) ==
  /\ attempt[s] # Idle
  /\ attempt' = [attempt EXCEPT ![s] = Idle]
  /\ UNCHANGED <<service, proxyKey, failures>> /\ UnchangedWindows

--------------------------------------------------------------------------------
(***************************************************************************)
(* The one-minute windows: allowDiscoveryRequest, allowImageUpload, allow. *)
(***************************************************************************)

\* Fault: uploads are counted by the address they come from.
AddressOnly(kind, c) == IF kind = "report" /\ proxyKey THEN c ELSE Proxy

\* What a request counts for: an upload for its seller; a report for the address
\* the Next server forwards, if it proves to be that; events for the address of
\* the connection.
KeyOf(kind, c) == IF kind = "image" \/ (kind = "report" /\ proxyKey) THEN c ELSE Proxy

\* Fault: a window is over one tick early.
CurrentEarly(w) == IF w.age >= Period - 1 THEN [age |-> 0, requests |-> 0] ELSE w

\* The window of now: a new one when the minute is over.
Current(w) == IF w.age >= Period THEN [age |-> 0, requests |-> 0] ELSE w

Full(w) == Current(w).requests >= Limit

Allow(kind, c) ==
  LET k == <<kind, KeyOf(kind, c)>>
  IN  /\ kind \in Kinds
      /\ ~Full(window[k])
      /\ window' = [window EXCEPT ![k] = [Current(window[k]) EXCEPT !.requests = @ + 1]]
      /\ granted' = [granted EXCEPT ![<<kind, c>>] = With(@)]
      /\ passed' = [passed EXCEPT ![k] = With(@)]
      /\ UNCHANGED <<service, proxyKey>> /\ UnchangedLogins

Refuse(kind, c) == /\ kind \in Kinds
                   /\ Full(window[<<kind, KeyOf(kind, c)>>])
                   /\ UNCHANGED limitVars

LimitNext == \/ Tick
             \/ \E e \in Email : RefuseLogin(e)
             \/ \E s \in Slot, e \in Email, right \in BOOLEAN : Check(s, e, right)
             \/ \E s \in Slot : WrongPassword(s) \/ RightPassword(s) \/ LookupFails(s)
             \/ \E kind \in AllKinds, c \in Caller : Allow(kind, c) \/ Refuse(kind, c)

\* Time goes on; a password check comes to an end.
LimitSpec == /\ LimitInit /\ [][LimitNext]_limitVars
             /\ WF_limitVars(Tick)
             /\ \A s \in Slot : WF_limitVars(WrongPassword(s) \/ RightPassword(s))

--------------------------------------------------------------------------------
(***************************************************************************)
(* What holds.                                                             *)
(***************************************************************************)

LimitTypeOK == /\ service \in Services /\ proxyKey \in BOOLEAN
               /\ failures \in [Email -> Log]
               /\ attempt \in [Slot -> {Idle} \cup Attempt]
               /\ window \in [WindowKey -> Window]
               /\ granted \in [AllKinds \X Caller -> Log]
               /\ passed \in [WindowKey -> Log]

Checking(e) == {s \in Slot : attempt[s] # Idle /\ attempt[s].email = e}

\* docs/authentication.md:51 has "max 5 failures/email/15m".  blocked is asked
\* before the password check and the failure is recorded after it, so attempts
\* that overlap go over it, but by no more than there are at a time: four on
\* record and one for each handler.
OverlapIsBounded ==
  \A e \in Email : Size(failures[e]) + Cardinality(Checking(e)) <=
                     MaxFailures - 1 + Cardinality(Slot)

\* Not so: no more than five failures of an address are on record.
FiveFailures == \A e \in Email : Size(failures[e]) <= MaxFailures

\* An address is not shut out for good: the block ends although attempts go on
\* all the time, those refused not counting.
BlockEnds == \A e \in Email : Blocked(e) ~> ~Blocked(e)

\* Within any one minute at most one less than twice the limit gets through for
\* a key: a full window can follow the last request of another.
BurstIsBounded == \A k \in WindowKey : Size(passed[k]) <= 2 * Limit - 1

\* listings.go:77: uploads do not "make unrelated sellers share one quota", nor
\* do reports forwarded by the Next server (docs/SUPPORT.md:27): who is refused
\* has used the whole quota within this minute.
QuotaIsOwn ==
  \A kind \in Kinds, c \in Caller :
    /\ kind = "image" \/ (kind = "report" /\ proxyKey)
    /\ Full(window[<<kind, KeyOf(kind, c)>>])
    => Size(granted[<<kind, c>>]) >= Limit

\* Not so for discovery events, which all come from the Next server's address:
\* one visitor's events use up the quota of all.
EventQuotaIsOwn ==
  \A c \in Caller : /\ service = "listings"
                    /\ Full(window[<<"event", KeyOf("event", c)>>])
                    => Size(granted[<<"event", c>>]) >= Limit

================================================================================
