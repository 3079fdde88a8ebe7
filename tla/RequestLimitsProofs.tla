------------------------- MODULE RequestLimitsProofs -------------------------
(***************************************************************************)
(* What RequestLimits promises, for every number of addresses, callers and *)
(* handlers and for every limit and period.                                *)
(*                                                                         *)
(* Five failures and one per overlapping attempt: the bound is inductive   *)
(* once the types are known, a check being begun below the limit only.     *)
(* The windows need an invariant: a window that is not over has its        *)
(* requests at the head of the log of what it let through, the last of     *)
(* them as old as the window, and fewer than Limit others behind them.     *)
(***************************************************************************)
EXTENDS RequestLimits, FiniteSetTheorems, SequenceTheorems, TLAPS

\* What a window w knows of the log of the requests it let through.
WindowFits(w, log) ==
  IF w.age = Period
  THEN Len(log) <= Limit - 1
  ELSE /\ w.requests \in 1..Len(log)
       /\ log[w.requests] = w.age
       /\ Len(log) - w.requests <= Limit - 1

WindowsFit == \A k \in WindowKey : WindowFits(window[k], passed[k])

\* Whose requests count in a window of their own.
OwnWindow(kind) == kind = "image" \/ (kind = "report" /\ proxyKey)

\* The requests of such a caller are those of its window.
OwnRequests == \A kind \in AllKinds, c \in Caller :
                 OwnWindow(kind) => granted[<<kind, c>>] = passed[<<kind, c>>]

WindowInv == WindowsFit /\ OwnRequests

--------------------------------------------------------------------------------
(***************************************************************************)
(* Logs.                                                                   *)
(***************************************************************************)

\* A set that is closed downwards in 1..n is 1..Cardinality of it.
LEMMA PrefixIsInterval ==
  ASSUME NEW n \in Nat, NEW S \in SUBSET (1..n),
         \A i \in S, j \in 1..n : j <= i => j \in S
  PROVE  /\ Cardinality(S) \in 0..n
         /\ S = 1..Cardinality(S)
<1> DEFINE c == Cardinality(S)
<1>1. IsFiniteSet(1..n) /\ Cardinality(1..n) = n
  BY FS_Interval
<1>2. IsFiniteSet(S) /\ c <= n
  BY <1>1, FS_Subset
<1>3. c \in Nat
  BY <1>2, FS_CardinalityType
<1>4. ASSUME NEW i \in 1..c
      PROVE  i \in S
  <2>1. SUFFICES ASSUME i \notin S
                 PROVE  FALSE
    OBVIOUS
  <2>2. i \in 1..n
    BY <1>2, <1>3
  <2>3. \A j \in S : j < i
    BY <2>1, <2>2
  <2>4. S \in SUBSET (1..(i - 1))
    BY <2>2, <2>3
  <2>5. IsFiniteSet(1..(i - 1)) /\ Cardinality(1..(i - 1)) = i - 1
    <3>1. i - 1 \in Int /\ 1 \in Int /\ (1 > i - 1 => i = 1)
      BY <2>2
    <3> QED BY <3>1, FS_Interval
  <2>6. c <= i - 1
    BY <2>4, <2>5, FS_Subset
  <2> QED BY <2>6, <1>3, <2>2
<1>5. ASSUME NEW i \in S
      PROVE  i \in 1..c
  <2>1. i \in 1..n
    OBVIOUS
  <2>2. (1..i) \in SUBSET S
    BY <2>1
  <2>3. IsFiniteSet(1..i) /\ Cardinality(1..i) = i
    BY <2>1, FS_Interval
  <2>4. i <= c
    BY <1>2, <2>2, <2>3, FS_Subset
  <2> QED BY <2>1, <2>4, <1>3
<1> HIDE DEF c
<1>6. S = 1..c
  BY <1>4, <1>5
<1> QED BY <1>2, <1>3, <1>6 DEF c

\* The constants are positive numbers.
LEMMA LimitsArePositive == MaxFailures \in Nat \ {0} /\ Limit \in Nat \ {0} /\ Period \in Nat \ {0}
BY LimitsAssumption DEF LimitsAssumption

\* A log is as long as it is, and its entries are ages.
LEMMA LogType ==
  ASSUME NEW log \in Log
  PROVE  /\ log \in Seq(Age)
         /\ Len(log) \in Nat
         /\ \A i \in 1..Len(log) : log[i] \in 0..(Period - 1)
         /\ \A i, j \in 1..Len(log) : i <= j => log[i] <= log[j]
<1>1. log \in Seq(Age) /\ \A i, j \in 1..Len(log) : i <= j => log[i] <= log[j]
  BY DEF Log
<1>2. Len(log) \in Nat /\ \A i \in 1..Len(log) : log[i] \in Age
  BY <1>1, LenProperties, ElementOfSeq
<1> QED BY <1>1, <1>2 DEF Age

\* The empty log is one.
LEMMA EmptyIsLog == EmptyLog \in Log /\ Len(EmptyLog) = 0
<1>1. <<>> \in Seq(Age) /\ Len(<<>>) = 0
  BY EmptySeq
<1> QED BY <1>1 DEF EmptyLog, Log

\* An entry that is added is the newest one and moves the others down by one.
LEMMA WithLog ==
  ASSUME NEW log \in Log
  PROVE  /\ With(log) \in Log
         /\ Len(With(log)) = Len(log) + 1
         /\ With(log)[1] = 0
         /\ \A i \in 2..(Len(log) + 1) : With(log)[i] = log[i - 1]
<1> DEFINE n == Len(log)
           new == With(log)
<1>1. 0 \in Age
  BY LimitsArePositive DEF Age
<1>2. <<0>> \in Seq(Age) /\ Len(<<0>>) = 1 /\ <<0>>[1] = 0
  BY <1>1
<1>3. /\ log \in Seq(Age) /\ n \in Nat
      /\ \A i \in 1..n : log[i] \in 0..(Period - 1)
      /\ \A i, j \in 1..n : i <= j => log[i] <= log[j]
  BY LogType
<1>4. /\ new \in Seq(Age)
      /\ Len(new) = 1 + n
      /\ \A i \in 1..(1 + n) : new[i] = IF i <= 1 THEN <<0>>[i] ELSE log[i - 1]
  BY <1>2, <1>3, ConcatProperties DEF With
<1> HIDE DEF new
<1>5. Len(new) = n + 1 /\ new[1] = 0
  BY <1>2, <1>3, <1>4
<1>6. \A i \in 2..(n + 1) : new[i] = log[i - 1]
  BY <1>3, <1>4
<1>7. ASSUME NEW i \in 1..Len(new), NEW j \in 1..Len(new), i <= j
      PROVE  new[i] <= new[j]
  <2>1. CASE j = 1
    BY <2>1, <1>3, <1>5, <1>7
  <2>2. CASE i = 1 /\ j # 1
    <3>1. j - 1 \in 1..n /\ new[j] = log[j - 1]
      BY <2>2, <1>3, <1>5, <1>6
    <3> QED BY <3>1, <2>2, <1>3, <1>5
  <2>3. CASE i # 1
    <3>1. i - 1 \in 1..n /\ j - 1 \in 1..n /\ i - 1 <= j - 1
      BY <2>3, <1>3, <1>5, <1>7
    <3>2. new[i] = log[i - 1] /\ new[j] = log[j - 1]
      BY <3>1, <1>3, <1>6
    <3> QED BY <3>1, <3>2, <1>3
  <2> QED BY <2>1, <2>2, <2>3
<1>8. new \in Log
  BY <1>4, <1>7 DEF Log
<1> QED BY <1>5, <1>6, <1>8 DEF new

\* The log a tick leaves: the entries that are not a Period old yet, each a tick older.
LEMMA OlderLog ==
  ASSUME NEW log \in Log
  PROVE  /\ Older(log) \in Log
         /\ Len(Older(log)) \in 0..Len(log)
         /\ \A i \in 1..Len(log) : i <= Len(Older(log)) <=> log[i] < Period - 1
         /\ \A i \in 1..Len(Older(log)) : Older(log)[i] = log[i] + 1
<1> DEFINE n == Len(log)
           Kept == {i \in 1..n : log[i] < Period - 1}
           c == Cardinality(Kept)
           old == Older(log)
<1>1. /\ n \in Nat
      /\ \A i \in 1..n : log[i] \in 0..(Period - 1)
      /\ \A i, j \in 1..n : i <= j => log[i] <= log[j]
  BY LogType
<1>2. Period \in Nat \ {0}
  BY LimitsArePositive
<1>3. ASSUME NEW i \in Kept, NEW j \in 1..n, j <= i
      PROVE  j \in Kept
  <2>1. log[j] <= log[i] /\ log[i] < Period - 1
    BY <1>1, <1>3
  <2> QED BY <2>1, <1>1, <1>2
<1>4. c \in 0..n /\ Kept = 1..c
  <2>1. Kept \in SUBSET (1..n)
    OBVIOUS
  <2> HIDE DEF Kept, n
  <2> QED BY <1>1, <1>3, <2>1, PrefixIsInterval
<1>5. old = [i \in 1..c |-> log[i] + 1]
  BY DEF Older
<1> HIDE DEF c, old
<1>6. \A i \in 1..c : log[i] + 1 \in Age
  <2> SUFFICES ASSUME NEW i \in 1..c
               PROVE  log[i] + 1 \in Age
    OBVIOUS
  <2>1. i \in 1..n /\ log[i] < Period - 1
    BY <1>4
  <2> QED BY <2>1, <1>1, <1>2 DEF Age
<1>7. old \in Seq(Age) /\ Len(old) = c
  <2>1. c \in Nat
    BY <1>1, <1>4
  <2>2. old \in [1..c -> Age]
    BY <1>5, <1>6
  <2> QED BY <2>1, <2>2
<1>8. \A i \in 1..c : old[i] = log[i] + 1
  BY <1>5
<1>9. ASSUME NEW i \in 1..Len(old), NEW j \in 1..Len(old), i <= j
      PROVE  old[i] <= old[j]
  <2>1. i \in 1..n /\ j \in 1..n
    BY <1>1, <1>4, <1>7
  <2>2. old[i] = log[i] + 1 /\ old[j] = log[j] + 1
    BY <1>7, <1>8
  <2> QED BY <2>1, <2>2, <1>1, <1>9
<1>10. old \in Log
  BY <1>7, <1>9 DEF Log
<1>11. \A i \in 1..n : i <= c <=> log[i] < Period - 1
  <2> SUFFICES ASSUME NEW i \in 1..n
               PROVE  i <= c <=> log[i] < Period - 1
    OBVIOUS
  <2>1. i \in Kept <=> log[i] < Period - 1
    OBVIOUS
  <2>2. i \in Kept <=> i <= c
    BY <1>1, <1>4
  <2> QED BY <2>1, <2>2
<1> QED BY <1>4, <1>7, <1>8, <1>10, <1>11 DEF old

--------------------------------------------------------------------------------
(***************************************************************************)
(* Types.                                                                  *)
(***************************************************************************)

\* A window that takes a request is still one.
LEMMA WindowTakesRequest ==
  ASSUME NEW w \in Window, ~Full(w)
  PROVE  [Current(w) EXCEPT !.requests = @ + 1] \in Window
<1>1. Period \in Nat \ {0} /\ Limit \in Nat \ {0}
  BY LimitsArePositive
<1>2. w.age \in 0..Period /\ w.requests \in 0..Limit
  BY DEF Window
<1>3. CASE w.age = Period
  <2>1. Current(w) = [age |-> 0, requests |-> 0]
    BY <1>1, <1>2, <1>3 DEF Current
  <2>2. [Current(w) EXCEPT !.requests = @ + 1] = [age |-> 0, requests |-> 1]
    BY <2>1
  <2> QED BY <2>2, <1>1 DEF Window
<1>4. CASE w.age # Period
  <2>1. Current(w) = w
    BY <1>1, <1>2, <1>4 DEF Current
  <2>2. w.requests < Limit
    BY <2>1, <1>1, <1>2 DEF Full
  <2> QED BY <2>1, <2>2, <1>1, <1>2 DEF Window
<1> QED BY <1>3, <1>4

\* A tick makes a window older, unless it is over.
LEMMA WindowGrowsOlder ==
  ASSUME NEW w \in Window
  PROVE  [w EXCEPT !.age = IF @ < Period THEN @ + 1 ELSE @] \in Window
<1>1. Period \in Nat \ {0}
  BY LimitsArePositive
<1>2. w.age \in 0..Period
  BY DEF Window
<1>3. (IF w.age < Period THEN w.age + 1 ELSE w.age) \in 0..Period
  BY <1>1, <1>2
<1> QED BY <1>3 DEF Window

\* The first state is as it should be.
LEMMA LimitTypeInit == LimitInit => LimitTypeOK
<1> SUFFICES ASSUME LimitInit PROVE LimitTypeOK
  OBVIOUS
<1>1. Period \in Nat \ {0} /\ Limit \in Nat \ {0} /\ EmptyLog \in Log
  BY LimitsArePositive, EmptyIsLog
<1>2. [age |-> Period, requests |-> 0] \in Window
  BY <1>1 DEF Window
<1>3. attempt \in [Slot -> {Idle} \cup Attempt]
  BY DEF LimitInit
<1> QED BY <1>1, <1>2, <1>3 DEF LimitInit, LimitTypeOK

\* Every step keeps the types: logs stay in order, windows within their limit.
LEMMA LimitTypeStep == LimitTypeOK /\ [LimitNext]_limitVars => LimitTypeOK'
<1> SUFFICES ASSUME LimitTypeOK, [LimitNext]_limitVars
             PROVE  LimitTypeOK'
  OBVIOUS
<1> DEFINE NoLogin == UNCHANGED <<service, proxyKey, failures, attempt>>
           NoWindow == UNCHANGED <<service, proxyKey, window, granted, passed>>
<1>1. ASSUME NoWindow,
             attempt' \in [Slot -> {Idle} \cup Attempt],
             failures' \in [Email -> Log]
      PROVE  LimitTypeOK'
  BY <1>1 DEF LimitTypeOK
<1>2. CASE Tick
  <2>1. \A log \in Log : Older(log) \in Log
    BY OlderLog
  <2>2. /\ failures' \in [Email -> Log]
        /\ granted' \in [AllKinds \X Caller -> Log]
        /\ passed' \in [WindowKey -> Log]
    BY <1>2, <2>1 DEF Tick, LimitTypeOK
  <2>3. window' \in [WindowKey -> Window]
    BY <1>2, WindowGrowsOlder DEF Tick, LimitTypeOK
  <2> QED BY <1>2, <2>2, <2>3 DEF Tick, LimitTypeOK
<1>3. ASSUME NEW e \in Email, RefuseLogin(e)
      PROVE  LimitTypeOK'
  BY <1>1, <1>3 DEF RefuseLogin, UnchangedWindows, LimitTypeOK
<1>4. ASSUME NEW s \in Slot, NEW e \in Email, NEW right \in BOOLEAN, Check(s, e, right)
      PROVE  LimitTypeOK'
  <2>1. [at |-> "checking", email |-> e, right |-> right] \in Attempt
    BY DEF Attempt
  <2>2. attempt' \in [Slot -> {Idle} \cup Attempt]
    BY <1>4, <2>1 DEF Check, LimitTypeOK
  <2> QED BY <1>1, <1>4, <2>2 DEF Check, UnchangedWindows, LimitTypeOK
<1>5. ASSUME NEW s \in Slot, WrongPassword(s) \/ RightPassword(s) \/ LookupFails(s)
      PROVE  LimitTypeOK'
  <2>1. attempt' \in [Slot -> {Idle} \cup Attempt]
    <3>1. attempt' = [attempt EXCEPT ![s] = Idle]
      BY <1>5 DEF WrongPassword, RightPassword, LookupFails
    <3> QED BY <3>1 DEF LimitTypeOK
  <2>2. \A log \in Log : With(log) \in Log
    BY WithLog
  <2>3. failures' \in [Email -> Log]
    BY <1>5, <2>2, EmptyIsLog DEF WrongPassword, RightPassword, LookupFails, LimitTypeOK
  <2>4. NoWindow
    BY <1>5 DEF WrongPassword, RightPassword, LookupFails, UnchangedWindows
  <2> QED BY <1>1, <2>1, <2>3, <2>4
<1>6. ASSUME NEW kind \in AllKinds, NEW c \in Caller, Allow(kind, c)
      PROVE  LimitTypeOK'
  <2> DEFINE k == <<kind, KeyOf(kind, c)>>
  <2>1. k \in WindowKey
    BY DEF WindowKey, KeyOf
  <2>2. \A log \in Log : With(log) \in Log
    BY WithLog
  <2>3. [Current(window[k]) EXCEPT !.requests = @ + 1] \in Window
    BY <1>6, <2>1, WindowTakesRequest DEF Allow, LimitTypeOK
  <2>4. window' \in [WindowKey -> Window]
    <3> DEFINE new == [Current(window[k]) EXCEPT !.requests = @ + 1]
    <3>1. window' = [window EXCEPT ![k] = new]
      BY <1>6 DEF Allow
    <3> HIDE DEF k, new
    <3>2. window \in [WindowKey -> Window]
      BY DEF LimitTypeOK
    <3>3. new \in Window
      BY <2>3 DEF new
    <3> QED BY <2>1, <3>1, <3>2, <3>3
  <2>5. granted' \in [AllKinds \X Caller -> Log] /\ passed' \in [WindowKey -> Log]
    BY <1>6, <2>1, <2>2 DEF Allow, LimitTypeOK
  <2> QED BY <1>6, <2>4, <2>5 DEF Allow, UnchangedLogins, LimitTypeOK
<1>7. CASE UNCHANGED limitVars
  BY <1>7 DEF limitVars, LimitTypeOK
<1> QED BY <1>2, <1>3, <1>4, <1>5, <1>6, <1>7 DEF LimitNext, Refuse

\* The logs, the windows and the password checks are what the code keeps there.
THEOREM LimitTypeCorrect == LimitSpec => []LimitTypeOK
<1>1. LimitInit => LimitTypeOK
  BY LimitTypeInit
<1>2. LimitTypeOK /\ [LimitNext]_limitVars => LimitTypeOK'
  BY LimitTypeStep
<1> QED BY <1>1, <1>2, PTL DEF LimitSpec

--------------------------------------------------------------------------------
(***************************************************************************)
(* Failed logins.                                                          *)
(***************************************************************************)

\* An attempt that begins or ends changes the attempts of its address by one.
LEMMA CheckingStep ==
  ASSUME NEW e, NEW s \in Slot,
         \A q \in Slot \ {s} : attempt'[q] = attempt[q]
  PROVE  /\ IsFiniteSet(Checking(e)) /\ Cardinality(Checking(e)) \in Nat
         /\ Cardinality(Checking(e)) <= Cardinality(Slot)
         /\ Cardinality(Checking(e)') <= Cardinality(Slot)
         /\ Checking(e) \ {s} = Checking(e)' \ {s}
         /\ s \in Checking(e) /\ s \notin Checking(e)' =>
              Cardinality(Checking(e)') = Cardinality(Checking(e)) - 1
         /\ (s \in Checking(e)' => s \in Checking(e)) =>
              Cardinality(Checking(e)') <= Cardinality(Checking(e))
<1> DEFINE A == Checking(e)
           B == Checking(e)'
<1>1. A \in SUBSET Slot /\ B \in SUBSET Slot /\ IsFiniteSet(Slot)
  BY LimitsAssumption DEF LimitsAssumption, Checking
<1>2. A \ {s} = B \ {s}
  BY DEF Checking
<1> HIDE DEF A, B
<1>3. /\ IsFiniteSet(A) /\ Cardinality(A) <= Cardinality(Slot)
      /\ IsFiniteSet(B) /\ Cardinality(B) <= Cardinality(Slot)
  BY <1>1, FS_Subset
<1>4. Cardinality(A) \in Nat /\ Cardinality(B) \in Nat
  BY <1>3, FS_CardinalityType
<1>5. ASSUME s \in A, s \notin B
      PROVE  Cardinality(B) = Cardinality(A) - 1
  <2>1. B = A \ {s}
    BY <1>2, <1>5
  <2> QED BY <2>1, <1>3, <1>5, FS_RemoveElement
<1>6. ASSUME s \in B => s \in A
      PROVE  Cardinality(B) <= Cardinality(A)
  <2>1. B \in SUBSET A
    BY <1>2, <1>6
  <2> QED BY <2>1, <1>3, FS_Subset
<1> QED BY <1>2, <1>3, <1>4, <1>5, <1>6 DEF A, B

\* What is on record for an address never grows but by the attempt that ends.
LEMMA OverlapStep == LimitTypeOK /\ OverlapIsBounded /\ [LimitNext]_limitVars => OverlapIsBounded'
<1> SUFFICES ASSUME LimitTypeOK, OverlapIsBounded, [LimitNext]_limitVars, NEW e \in Email
             PROVE  Size(failures'[e]) + Cardinality(Checking(e)') <=
                      MaxFailures - 1 + Cardinality(Slot)
  BY DEF OverlapIsBounded
<1> DEFINE n == Len(failures[e])
           m == Len(failures'[e])
           k == Cardinality(Checking(e))
           l == Cardinality(Checking(e)')
           all == Cardinality(Slot)
<1>1. /\ MaxFailures \in Nat \ {0}
      /\ failures[e] \in Log /\ failures'[e] \in Log
      /\ n \in Nat /\ m \in Nat
  <2>1. LimitTypeOK'
    BY LimitTypeStep
  <2>2. failures[e] \in Log /\ failures'[e] \in Log
    BY <2>1 DEF LimitTypeOK
  <2> QED BY <2>2, LimitsArePositive, LogType
<1>2. k \in Nat /\ l \in Nat /\ all \in Nat
  <2>1. IsFiniteSet(Slot) /\ Checking(e) \in SUBSET Slot /\ Checking(e)' \in SUBSET Slot
    BY LimitsAssumption DEF LimitsAssumption, Checking
  <2> QED BY <2>1, FS_Subset, FS_CardinalityType
<1>3. n + k <= MaxFailures - 1 + all
  BY DEF OverlapIsBounded, Size
<1>4. SUFFICES m + l <= MaxFailures - 1 + all
  BY DEF Size
<1>5. ASSUME m <= n, l <= k
      PROVE  m + l <= MaxFailures - 1 + all
  BY <1>1, <1>2, <1>3, <1>5
<1>6. ASSUME attempt' = attempt, m <= n
      PROVE  m + l <= MaxFailures - 1 + all
  <2>1. l = k
    BY <1>6 DEF Checking
  <2> QED BY <1>2, <1>5, <1>6, <2>1
<1>7. CASE Tick
  <2>1. m <= n
    <3>1. failures'[e] = Older(failures[e])
      BY <1>7 DEF Tick
    <3> QED BY <1>1, <3>1, OlderLog
  <2> QED BY <1>6, <1>7, <2>1 DEF Tick
<1>8. ASSUME failures' = failures, attempt' = attempt
      PROVE  m + l <= MaxFailures - 1 + all
  BY <1>1, <1>6, <1>8
<1>9. ASSUME NEW s \in Slot, NEW x \in Email, NEW right \in BOOLEAN, Check(s, x, right)
      PROVE  m + l <= MaxFailures - 1 + all
  <2>1. \A q \in Slot \ {s} : attempt'[q] = attempt[q]
    BY <1>9 DEF Check, LimitTypeOK
  <2>2. failures' = failures /\ m = n
    BY <1>9 DEF Check
  <2>3. CASE x = e
    <3>1. n < MaxFailures
      BY <1>1, <1>9, <2>3 DEF Check, Blocked, Size
    <3>2. l <= all
      BY <2>1, CheckingStep
    <3> QED BY <1>1, <1>2, <2>2, <3>1, <3>2
  <2>4. CASE x # e
    <3>1. attempt'[s].email = x
      BY <1>9 DEF Check, LimitTypeOK
    <3>2. s \notin Checking(e)'
      BY <2>4, <3>1 DEF Checking
    <3>3. l <= k
      BY <2>1, <3>2, CheckingStep
    <3> QED BY <1>1, <1>5, <2>2, <3>3
  <2> QED BY <2>3, <2>4
<1>10. ASSUME NEW s \in Slot, WrongPassword(s) \/ RightPassword(s) \/ LookupFails(s)
       PROVE  m + l <= MaxFailures - 1 + all
  <2>1. attempt' = [attempt EXCEPT ![s] = Idle] /\ attempt[s] # Idle
    BY <1>10 DEF WrongPassword, RightPassword, LookupFails
  <2>2. attempt'[s] = Idle /\ \A q \in Slot \ {s} : attempt'[q] = attempt[q]
    BY <2>1 DEF LimitTypeOK
  <2>3. s \notin Checking(e)'
    BY <2>2 DEF Checking
  <2>4. l <= k
    BY <2>2, <2>3, CheckingStep
  <2>5. CASE WrongPassword(s)
    <3>1. CASE attempt[s].email = e
      <4>1. s \in Checking(e)
        BY <2>1, <3>1 DEF Checking
      <4>2. l = k - 1
        BY <2>2, <2>3, <4>1, CheckingStep
      <4>3. failures'[e] = failures[e] \/ failures'[e] = With(failures[e])
        BY <2>5, <3>1 DEF WrongPassword, LimitTypeOK
      <4>4. m <= n + 1
        BY <1>1, <4>3, WithLog
      <4> QED BY <1>1, <1>2, <1>3, <4>2, <4>4
    <3>2. CASE attempt[s].email # e
      <4>1. failures'[e] = failures[e]
        BY <2>5, <3>2 DEF WrongPassword, LimitTypeOK
      <4> QED BY <1>1, <1>5, <2>4, <4>1
    <3> QED BY <3>1, <3>2
  <2>6. CASE RightPassword(s)
    <3>1. failures'[e] = failures[e] \/ failures'[e] = EmptyLog
      BY <2>6 DEF RightPassword, LimitTypeOK
    <3>2. m <= n
      BY <1>1, <3>1, EmptyIsLog
    <3> QED BY <1>5, <2>4, <3>2
  <2>7. CASE LookupFails(s)
    BY <1>1, <1>5, <2>4, <2>7 DEF LookupFails
  <2> QED BY <1>10, <2>5, <2>6, <2>7
<1>11. ASSUME NEW kind \in AllKinds, NEW c \in Caller, Allow(kind, c)
       PROVE  m + l <= MaxFailures - 1 + all
  BY <1>8, <1>11 DEF Allow, UnchangedLogins
<1>12. ASSUME NEW x \in Email, RefuseLogin(x)
       PROVE  m + l <= MaxFailures - 1 + all
  BY <1>8, <1>12 DEF RefuseLogin
<1>13. CASE UNCHANGED limitVars
  BY <1>8, <1>13 DEF limitVars
<1> QED BY <1>7, <1>9, <1>10, <1>11, <1>12, <1>13 DEF LimitNext, Refuse

\* Failures on record of an address and the attempts under way for it are never more
\* than the limit less one and the handlers there are.
THEOREM OverlapBound == LimitSpec => []OverlapIsBounded
<1>1. LimitInit => OverlapIsBounded
  <2> SUFFICES ASSUME LimitInit, NEW e \in Email
               PROVE  Size(failures[e]) + Cardinality(Checking(e)) <=
                        MaxFailures - 1 + Cardinality(Slot)
    BY DEF OverlapIsBounded
  <2>1. Size(failures[e]) = 0
    BY EmptyIsLog DEF LimitInit, Size
  <2>2. Checking(e) = {}
    BY DEF LimitInit, Checking
  <2>3. Cardinality(Slot) \in Nat /\ Cardinality(Checking(e)) = 0
    BY <2>2, LimitsAssumption, FS_CardinalityType, FS_EmptySet DEF LimitsAssumption
  <2> QED BY <2>1, <2>3, LimitsArePositive
<1>2. LimitInit => LimitTypeOK
  BY LimitTypeInit
<1>3. LimitTypeOK /\ [LimitNext]_limitVars => LimitTypeOK'
  BY LimitTypeStep
<1>4. LimitTypeOK /\ OverlapIsBounded /\ [LimitNext]_limitVars => OverlapIsBounded'
  BY OverlapStep
<1> QED BY <1>1, <1>2, <1>3, <1>4, PTL DEF LimitSpec

--------------------------------------------------------------------------------
(***************************************************************************)
(* Windows.                                                                *)
(***************************************************************************)

\* A window and its log fit after a tick: what the window counted stays at the head of
\* the log until all of it is a Period old, and then the window is over.
LEMMA TickFits ==
  ASSUME NEW w \in Window, NEW log \in Log, WindowFits(w, log)
  PROVE  WindowFits([w EXCEPT !.age = IF @ < Period THEN @ + 1 ELSE @], Older(log))
<1> DEFINE v == [w EXCEPT !.age = IF @ < Period THEN @ + 1 ELSE @]
           old == Older(log)
           n == Len(log)
           m == Len(old)
           r == w.requests
<1>1. Period \in Nat \ {0} /\ Limit \in Nat \ {0}
  BY LimitsArePositive
<1>2. w.age \in 0..Period /\ r \in 0..Limit
  BY DEF Window
<1>3. /\ v.requests = r
      /\ v.age = IF w.age < Period THEN w.age + 1 ELSE w.age
  BY DEF Window
<1>4. /\ n \in Nat
      /\ \A i \in 1..n : log[i] \in 0..(Period - 1)
      /\ \A i, j \in 1..n : i <= j => log[i] <= log[j]
  BY LogType
<1>5. /\ m \in 0..n
      /\ \A i \in 1..n : i <= m <=> log[i] < Period - 1
      /\ \A i \in 1..m : old[i] = log[i] + 1
  BY OlderLog
<1> HIDE DEF v, old, n, m, r
<1>6. CASE w.age = Period
  <2>1. v.age = Period /\ n <= Limit - 1
    BY <1>1, <1>3, <1>6 DEF WindowFits, n
  <2>2. m <= Limit - 1
    BY <2>1, <1>1, <1>4, <1>5
  <2> QED BY <2>1, <2>2 DEF WindowFits, m, v, old
<1>7. CASE w.age = Period - 1
  <2>1. v.age = Period /\ r \in 1..n /\ log[r] = Period - 1
    BY <1>1, <1>3, <1>7 DEF WindowFits, n, r
  <2>2. m < r
    BY <2>1, <1>1, <1>4, <1>5
  <2>3. m <= Limit - 1
    BY <2>1, <2>2, <1>1, <1>2, <1>4, <1>5
  <2> QED BY <2>1, <2>3 DEF WindowFits, m, v, old
<1>8. CASE w.age < Period - 1
  <2>1. /\ v.age = w.age + 1 /\ v.age # Period
        /\ r \in 1..n /\ log[r] = w.age /\ n - r <= Limit - 1
    BY <1>1, <1>2, <1>3, <1>8 DEF WindowFits, n, r
  <2>2. r \in 1..m
    BY <2>1, <1>1, <1>2, <1>4, <1>5, <1>8
  <2>3. old[r] = v.age
    BY <2>1, <2>2, <1>5
  <2>4. m - r <= Limit - 1
    BY <2>1, <2>2, <1>1, <1>4, <1>5
  <2> QED BY <2>1, <2>2, <2>3, <2>4, <1>3 DEF WindowFits, m, v, old
<1> QED BY <1>1, <1>2, <1>6, <1>7, <1>8 DEF v, old

\* They fit after a request that is let through: it opens a window when fewer than
\* Limit requests are on record, or is counted by the window there is.
LEMMA AllowFits ==
  ASSUME NEW w \in Window, NEW log \in Log, WindowFits(w, log), ~Full(w)
  PROVE  WindowFits([Current(w) EXCEPT !.requests = @ + 1], With(log))
<1> DEFINE v == [Current(w) EXCEPT !.requests = @ + 1]
           new == With(log)
           n == Len(log)
           r == w.requests
<1>1. Period \in Nat \ {0} /\ Limit \in Nat \ {0}
  BY LimitsArePositive
<1>2. w.age \in 0..Period /\ r \in 0..Limit
  BY DEF Window
<1>3. n \in Nat
  BY LogType
<1>4. /\ Len(new) = n + 1 /\ new[1] = 0
      /\ \A i \in 2..(n + 1) : new[i] = log[i - 1]
  BY WithLog
<1>5. CASE w.age = Period
  <2>1. Current(w) = [age |-> 0, requests |-> 0]
    BY <1>1, <1>2, <1>5 DEF Current
  <2>2. v = [age |-> 0, requests |-> 1]
    BY <2>1
  <2>3. v.age = 0 /\ v.requests = 1 /\ v.age # Period
    BY <2>2, <1>1
  <2>4. n <= Limit - 1
    BY <1>5 DEF WindowFits
  <2> HIDE DEF v, new
  <2>5. v.requests \in 1..Len(new) /\ new[v.requests] = v.age /\ Len(new) - v.requests <= Limit - 1
    BY <1>1, <1>3, <1>4, <2>3, <2>4
  <2> QED BY <2>3, <2>5 DEF WindowFits, v, new
<1>6. CASE w.age # Period
  <2>1. Current(w) = w
    BY <1>1, <1>2, <1>6 DEF Current
  <2>2. v.age = w.age /\ v.requests = r + 1
    BY <2>1 DEF Window
  <2>3. r \in 1..n /\ log[r] = w.age /\ n - r <= Limit - 1
    BY <1>6 DEF WindowFits
  <2> HIDE DEF v, new, n, r
  <2>4. new[r + 1] = log[r]
    BY <1>3, <1>4, <2>3
  <2>5. v.requests \in 1..Len(new) /\ Len(new) - v.requests <= Limit - 1
    BY <1>1, <1>2, <1>3, <1>4, <2>2, <2>3
  <2> QED BY <1>6, <2>2, <2>3, <2>4, <2>5 DEF WindowFits, v, new, n, r
<1> QED BY <1>5, <1>6

\* The first state has no window and no request on record.
LEMMA WindowInit == LimitInit => WindowInv
<1> SUFFICES ASSUME LimitInit PROVE WindowInv
  OBVIOUS
<1>1. WindowsFit
  BY LimitsArePositive, EmptyIsLog DEF LimitInit, WindowsFit, WindowFits
<1>2. OwnRequests
  BY DEF LimitInit, OwnRequests, WindowKey
<1> QED BY <1>1, <1>2 DEF WindowInv

\* Every step keeps the windows and their logs together.
LEMMA WindowStep == LimitTypeOK /\ WindowInv /\ [LimitNext]_limitVars => WindowInv'
<1> SUFFICES ASSUME LimitTypeOK, WindowInv, [LimitNext]_limitVars
             PROVE  WindowInv'
  OBVIOUS
<1>1. ASSUME UNCHANGED <<proxyKey, window, granted, passed>>
      PROVE  WindowInv'
  BY <1>1 DEF WindowInv, WindowsFit, OwnRequests, OwnWindow
<1>2. CASE Tick
  <2>1. ASSUME NEW k \in WindowKey
        PROVE  WindowFits(window'[k], passed'[k])
    <3>1. window[k] \in Window /\ passed[k] \in Log /\ WindowFits(window[k], passed[k])
      BY DEF LimitTypeOK, WindowInv, WindowsFit
    <3>2. /\ window'[k] = [window[k] EXCEPT !.age = IF @ < Period THEN @ + 1 ELSE @]
          /\ passed'[k] = Older(passed[k])
      BY <1>2 DEF Tick
    <3> QED BY <3>1, <3>2, TickFits
  <2>2. ASSUME NEW kind \in AllKinds, NEW c \in Caller, OwnWindow(kind)'
        PROVE  granted'[<<kind, c>>] = passed'[<<kind, c>>]
    <3>1. <<kind, c>> \in AllKinds \X Caller /\ <<kind, c>> \in WindowKey
      BY DEF WindowKey
    <3>2. /\ granted'[<<kind, c>>] = Older(granted[<<kind, c>>])
          /\ passed'[<<kind, c>>] = Older(passed[<<kind, c>>])
      BY <1>2, <3>1 DEF Tick
    <3>3. OwnWindow(kind)
      BY <1>2, <2>2 DEF Tick, OwnWindow
    <3> QED BY <3>2, <3>3 DEF WindowInv, OwnRequests
  <2> QED BY <2>1, <2>2 DEF WindowInv, WindowsFit, OwnRequests
<1>3. ASSUME NEW kind \in AllKinds, NEW c \in Caller, Allow(kind, c)
      PROVE  WindowInv'
  <2> DEFINE k == <<kind, KeyOf(kind, c)>>
             new == [Current(window[k]) EXCEPT !.requests = @ + 1]
  <2>1. k \in WindowKey /\ <<kind, c>> \in AllKinds \X Caller
    BY DEF WindowKey, KeyOf
  <2>2. /\ ~Full(window[k])
        /\ window' = [window EXCEPT ![k] = new]
        /\ granted' = [granted EXCEPT ![<<kind, c>>] = With(granted[<<kind, c>>])]
        /\ passed' = [passed EXCEPT ![k] = With(passed[k])]
        /\ proxyKey' = proxyKey
    BY <1>3 DEF Allow
  <2>3. window[k] \in Window /\ passed[k] \in Log /\ WindowFits(window[k], passed[k])
    BY <2>1 DEF LimitTypeOK, WindowInv, WindowsFit
  <2>4. WindowFits(new, With(passed[k]))
    BY <2>2, <2>3, AllowFits
  <2>5. k[1] = kind /\ k[2] = KeyOf(kind, c)
    OBVIOUS
  <2> HIDE DEF k, new
  <2>6. ASSUME NEW j \in WindowKey
        PROVE  WindowFits(window'[j], passed'[j])
    <3>1. CASE j = k
      BY <2>1, <2>2, <2>4, <3>1 DEF LimitTypeOK
    <3>2. CASE j # k
      <4>1. window'[j] = window[j] /\ passed'[j] = passed[j]
        BY <2>1, <2>2, <3>2 DEF LimitTypeOK
      <4> QED BY <4>1 DEF WindowInv, WindowsFit
    <3> QED BY <3>1, <3>2
  <2>7. ASSUME NEW x \in AllKinds, NEW d \in Caller, OwnWindow(x)'
        PROVE  granted'[<<x, d>>] = passed'[<<x, d>>]
    <3>1. OwnWindow(x)
      BY <2>2, <2>7 DEF OwnWindow
    <3>2. granted[<<x, d>>] = passed[<<x, d>>]
      BY <3>1 DEF WindowInv, OwnRequests
    <3>3. <<x, d>> \in WindowKey /\ <<x, d>> \in AllKinds \X Caller
      BY DEF WindowKey
    <3>4. CASE x = kind /\ d = c
      <4>1. k = <<x, d>>
        BY <3>1, <3>4 DEF k, KeyOf, OwnWindow
      <4> QED BY <2>1, <2>2, <3>2, <3>3, <3>4, <4>1 DEF LimitTypeOK
    <3>5. CASE <<x, d>> # <<kind, c>>
      <4>1. granted'[<<x, d>>] = granted[<<x, d>>]
        BY <2>1, <2>2, <3>3, <3>5 DEF LimitTypeOK
      <4>2. k # <<x, d>>
        <5>1. KeyOf(kind, c) = c \/ KeyOf(kind, c) = Proxy
          BY DEF KeyOf
        <5>2. Proxy # d
          BY LimitsAssumption DEF LimitsAssumption
        <5> QED BY <3>5, <5>1, <5>2 DEF k
      <4>3. passed'[<<x, d>>] = passed[<<x, d>>]
        BY <2>1, <2>2, <3>3, <4>2 DEF LimitTypeOK
      <4> QED BY <3>2, <4>1, <4>3
    <3> QED BY <3>4, <3>5
  <2> QED BY <2>6, <2>7 DEF WindowInv, WindowsFit, OwnRequests
<1>4. ASSUME NEW e \in Email, RefuseLogin(e)
      PROVE  WindowInv'
  BY <1>1, <1>4 DEF RefuseLogin, UnchangedWindows
<1>5. ASSUME NEW s \in Slot, NEW e \in Email, NEW right \in BOOLEAN, Check(s, e, right)
      PROVE  WindowInv'
  BY <1>1, <1>5 DEF Check, UnchangedWindows
<1>6. ASSUME NEW s \in Slot, WrongPassword(s) \/ RightPassword(s) \/ LookupFails(s)
      PROVE  WindowInv'
  BY <1>1, <1>6 DEF WrongPassword, RightPassword, LookupFails, UnchangedWindows
<1>7. CASE UNCHANGED limitVars
  BY <1>1, <1>7 DEF limitVars
<1> QED BY <1>2, <1>3, <1>4, <1>5, <1>6, <1>7 DEF LimitNext, Refuse

\* The invariant holds of the specification.
LEMMA WindowsCorrect == LimitSpec => [](LimitTypeOK /\ WindowInv)
<1>1. LimitInit => LimitTypeOK /\ WindowInv
  BY LimitTypeInit, WindowInit
<1>2. LimitTypeOK /\ WindowInv /\ [LimitNext]_limitVars => (LimitTypeOK /\ WindowInv)'
  BY LimitTypeStep, WindowStep
<1> QED BY <1>1, <1>2, PTL DEF LimitSpec

\* Within any one minute at most one less than twice the limit gets through for a key.
THEOREM BurstBound == LimitSpec => []BurstIsBounded
<1>1. LimitTypeOK /\ WindowInv => BurstIsBounded
  <2> SUFFICES ASSUME LimitTypeOK, WindowInv, NEW k \in WindowKey
               PROVE  Size(passed[k]) <= 2 * Limit - 1
    BY DEF BurstIsBounded
  <2> DEFINE w == window[k]
             n == Len(passed[k])
  <2>1. /\ WindowFits(w, passed[k]) /\ n \in Nat /\ Limit \in Nat \ {0}
        /\ w.requests \in 0..Limit
    <3>1. w \in Window /\ passed[k] \in Log /\ WindowFits(w, passed[k])
      BY DEF LimitTypeOK, WindowInv, WindowsFit
    <3> QED BY <3>1, LogType, LimitsArePositive DEF Window
  <2> HIDE DEF w, n
  <2>2. CASE w.age = Period
    <3>1. n <= Limit - 1
      BY <2>1, <2>2 DEF WindowFits, n
    <3> QED BY <3>1, <2>1 DEF Size, n
  <2>3. CASE w.age # Period
    <3>1. n - w.requests <= Limit - 1
      BY <2>1, <2>3 DEF WindowFits, n
    <3> QED BY <3>1, <2>1 DEF Size, n
  <2> QED BY <2>2, <2>3
<1> QED BY <1>1, WindowsCorrect, PTL

\* Whoever is refused by a window of its own has used the whole quota within this minute.
THEOREM OwnQuota == LimitSpec => []QuotaIsOwn
<1>1. LimitTypeOK /\ WindowInv => QuotaIsOwn
  <2> SUFFICES ASSUME LimitTypeOK, WindowInv, NEW kind \in Kinds, NEW c \in Caller,
                      kind = "image" \/ (kind = "report" /\ proxyKey),
                      Full(window[<<kind, KeyOf(kind, c)>>])
               PROVE  Size(granted[<<kind, c>>]) >= Limit
    BY DEF QuotaIsOwn
  <2> DEFINE k == <<kind, c>>
             w == window[k]
             n == Len(passed[k])
  <2>1. kind \in AllKinds
    BY DEF AllKinds
  <2>2. KeyOf(kind, c) = c /\ k \in WindowKey
    BY <2>1 DEF KeyOf, WindowKey
  <2>3. granted[k] = passed[k]
    BY <2>1 DEF WindowInv, OwnRequests, OwnWindow
  <2>4. w \in Window /\ WindowFits(w, passed[k]) /\ passed[k] \in Log
    BY <2>2 DEF LimitTypeOK, WindowInv, WindowsFit
  <2>5. /\ n \in Nat /\ Limit \in Nat \ {0} /\ Period \in Nat \ {0}
        /\ w.requests \in 0..Limit /\ w.age \in 0..Period
    BY <2>4, LogType, LimitsArePositive DEF Window
  <2>6. Full(w)
    BY <2>2
  <2> HIDE DEF w, n, k
  <2>7. w.age # Period
    <3>1. w.age = Period => Current(w) = [age |-> 0, requests |-> 0]
      BY <2>5 DEF Current
    <3>2. w.age = Period => Current(w).requests = 0
      BY <3>1
    <3> QED BY <3>2, <2>5, <2>6 DEF Full
  <2>8. w.requests >= Limit
    BY <2>5, <2>6, <2>7 DEF Full, Current
  <2>9. w.requests \in 1..n
    BY <2>4, <2>7 DEF WindowFits, n
  <2>10. n >= Limit
    BY <2>5, <2>8, <2>9
  <2> QED BY <2>3, <2>10 DEF Size, n, k
<1> QED BY <1>1, WindowsCorrect, PTL

================================================================================
