------------------------- MODULE AuthSessionsProofs -------------------------
(***************************************************************************)
(* Theorems about AuthSessions for every set of accounts, every number of  *)
(* overlapping handlers and every number of tokens.  ChainInv is the       *)
(* inductive part that none of the properties says: the history in         *)
(* "tokens" only points backwards, and a waiting handler holds a token and *)
(* a role that were real when it read them.                                *)
(***************************************************************************)
EXTENDS AuthRefinement, AuthDevStores, TLAPS

\* Histories point backwards and name registered accounts; so do requests,
\* and nothing says seller of an account that is not.
TokenSound(n) ==
  /\ tokens[n].from < n
  /\ tokens[n].login \in 1..n
  /\ role[tokens[n].user] # "none"
  /\ tokens[n].role = "seller" => role[tokens[n].user] = "seller"

RequestSound(s) ==
  /\ role[request[s].user] # "none"
  /\ request[s].role = "seller" => role[request[s].user] = "seller"
  /\ request[s].pc = "rotate" => request[s].token \in Issued

ChainInv ==
  /\ TypeOK
  /\ \A n \in Issued : TokenSound(n)
  /\ \A s \in Slot : request[s] # NoRequest => RequestSound(s)

-----------------------------------------------------------------------------
(* Types.                                                                  *)

\* Starting a handler adds one request of a known user.
LEMMA BeginType ==
  ASSUME TypeOK, NEW s \in Slot, NEW pc \in {"open", "rotate"}, NEW u \in User,
         NEW r \in Role, NEW n \in Nat, Begin(s, pc, u, r, n)
  PROVE  /\ request' \in [Slot -> Request \cup {NoRequest}]
         /\ tokens' = tokens /\ live' = live /\ loggedOut' = loggedOut
<1>1. [pc |-> pc, user |-> u, role |-> r, token |-> n] \in Request
  BY DEF Request
<1> QED
  BY <1>1 DEF TypeOK, Begin

\* A handler that waits is a request, and no stuttering slot has its pc.
LEMMA WaitingType ==
  ASSUME TypeOK, NEW s \in Slot, request[s] # NoRequest
  PROVE  request[s] \in Request
BY DEF TypeOK

\* A handler at work holds a request.
LEMMA PcType ==
  ASSUME TypeOK, NEW s \in Slot, request[s].pc \in {"open", "rotate"}
  PROVE  request[s] \in Request
BY DEF TypeOK, NoRequest

\* What both token-issuing writes do to the history.
LEMMA IssueType ==
  ASSUME TypeOK, NEW t \in Token, tokens' = Append(tokens, t)
  PROVE  /\ tokens' \in Seq(Token)
         /\ Len(tokens') = Len(tokens) + 1
         /\ Issued' = Issued \cup {Len(tokens) + 1}
         /\ Len(tokens) + 1 \notin Issued
         /\ tokens'[Len(tokens) + 1] = t
         /\ \A n \in Issued : tokens'[n] = tokens[n]
         /\ Len(tokens) \in Nat
BY DEF TypeOK, Issued

\* The role of an account only leaves "none" and never leaves seller.
RolesGrow ==
  \A u \in User : /\ role[u] # "none" => role'[u] # "none"
                  /\ role[u] = "seller" => role'[u] = "seller"

\* A handler that starts keeps the invariant.
LEMMA BeginKeeps ==
  ASSUME ChainInv, NEW s \in Slot, NEW pc \in {"open", "rotate"}, NEW u \in User,
         NEW r \in Role, NEW n \in Nat, Begin(s, pc, u, r, n),
         role' \in [User -> Role \cup {"none"}], RolesGrow,
         role'[u] # "none", r = "seller" => role'[u] = "seller",
         pc = "rotate" => n \in Issued
  PROVE  ChainInv'
<1>1. /\ request' \in [Slot -> Request \cup {NoRequest}]
      /\ tokens' = tokens /\ live' = live /\ loggedOut' = loggedOut
  BY BeginType DEF ChainInv
<1>2. TypeOK'
  BY <1>1 DEF ChainInv, TypeOK, Issued
<1>3. ASSUME NEW m \in Issued'
      PROVE  TokenSound(m)'
  <2>1. m \in Issued /\ tokens'[m] = tokens[m] /\ tokens[m].user \in User
    <3>1. m \in Issued /\ tokens'[m] = tokens[m]
      BY <1>1 DEF Issued
    <3>2. tokens[m] \in Token
      BY <3>1 DEF Issued, ChainInv, TypeOK
    <3> QED
      BY <3>1, <3>2 DEF Token
  <2> QED
    BY <2>1, <1>1 DEF ChainInv, TokenSound, RolesGrow
<1>4. ASSUME NEW q \in Slot, request'[q] # NoRequest
      PROVE  RequestSound(q)'
  <2>1. CASE q = s
    BY <2>1, <1>1 DEF Begin, RequestSound, ChainInv, TypeOK, Issued
  <2>2. CASE q # s
    <3>1. request'[q] = request[q] /\ request[q] \in Request
      BY <2>2, <1>4 DEF Begin, ChainInv, TypeOK
    <3>2. request[q].user \in User /\ RequestSound(q)
      BY <3>1, <1>4 DEF Request, ChainInv
    <3> QED
      BY <3>1, <3>2, <1>1 DEF RequestSound, RolesGrow, Issued
  <2> QED
    BY <2>1, <2>2
<1> QED
  BY <1>2, <1>3, <1>4 DEF ChainInv

\* A handler that ends without a new token keeps it too, whatever rows go.
LEMMA DropKeeps ==
  ASSUME ChainInv, tokens' = tokens, role' = role, live' \subseteq live,
         loggedOut' \subseteq Issued,
         \A s \in Slot : request'[s] = request[s] \/ request'[s] = NoRequest,
         request' \in [Slot -> Request \cup {NoRequest}]
  PROVE  ChainInv'
<1>1. Issued' = Issued
  BY DEF Issued
<1>2. TypeOK'
  BY <1>1 DEF ChainInv, TypeOK
<1>3. \A m \in Issued' : TokenSound(m)'
  BY <1>1 DEF ChainInv, TokenSound
<1>4. \A s \in Slot : request'[s] # NoRequest => RequestSound(s)'
  BY <1>1 DEF ChainInv, RequestSound
<1> QED
  BY <1>2, <1>3, <1>4 DEF ChainInv

\* The two writes that issue a token: a first one, or the next of a chain.
Issues(s, login, from) ==
  /\ tokens' = Append(tokens, [user |-> request[s].user, role |-> request[s].role,
                               login |-> login, from |-> from])
  /\ request' = [request EXCEPT ![s] = NoRequest]
  /\ UNCHANGED <<role, loggedOut>>

\* Issuing a token keeps the histories in order.
LEMMA IssueKeeps ==
  ASSUME ChainInv, NEW s \in Slot, request[s] # NoRequest,
         NEW login \in 1..(Len(tokens) + 1), NEW from \in 0..Len(tokens),
         Issues(s, login, from), live' \subseteq Issued \cup {Len(tokens) + 1}
  PROVE  ChainInv'
<1> DEFINE t == [user |-> request[s].user, role |-> request[s].role,
                 login |-> login, from |-> from]
<1>1. request[s] \in Request /\ RequestSound(s)
  BY DEF ChainInv, TypeOK
<1>2. t \in Token
  BY <1>1 DEF Token, Request
<1>3. /\ tokens' \in Seq(Token)
      /\ Issued' = Issued \cup {Len(tokens) + 1}
      /\ tokens'[Len(tokens) + 1] = t
      /\ \A n \in Issued : tokens'[n] = tokens[n]
      /\ Len(tokens) \in Nat
  BY <1>2, IssueType DEF Issues, ChainInv
<1>4. TypeOK'
  BY <1>3 DEF ChainInv, TypeOK, Issues
<1>5. ASSUME NEW n \in Issued'
      PROVE  TokenSound(n)'
  <2>1. CASE n \in Issued
    BY <2>1, <1>3 DEF TokenSound, ChainInv, Issues
  <2>2. CASE n = Len(tokens) + 1
    <3>1. tokens'[n] = t /\ role' = role
      BY <2>2, <1>3 DEF Issues
    <3>2. t.from < n /\ t.login \in 1..n
      BY <2>2, <1>3
    <3>3. role[t.user] # "none" /\ (t.role = "seller" => role[t.user] = "seller")
      BY <1>1 DEF RequestSound
    <3> HIDE DEF t
    <3> QED
      BY <3>1, <3>2, <3>3 DEF TokenSound
  <2> QED
    BY <1>3, <2>1, <2>2
<1>6. ASSUME NEW q \in Slot, request'[q] # NoRequest
      PROVE  RequestSound(q)'
  <2>1. request'[q] = request[q] /\ RequestSound(q)
    BY <1>6 DEF ChainInv, TypeOK, Issues
  <2> QED
    BY <2>1, <1>3 DEF RequestSound, Issues
<1> QED
  BY <1>4, <1>5, <1>6 DEF ChainInv

\* There is no token yet.
LEMMA ChainInit == Init => ChainInv
BY DEF Init, ChainInv, TypeOK, Issued, Token

\* Every step keeps the invariant.
LEMMA ChainInvStep == ChainInv /\ [Next]_vars => ChainInv'
<1> SUFFICES ASSUME ChainInv, [Next]_vars
             PROVE  ChainInv'
  OBVIOUS
<1>0. TypeOK
  BY DEF ChainInv
<1>1. CASE UNCHANGED vars
  <2>1. live' \subseteq live /\ loggedOut' \subseteq Issued
        /\ request' \in [Slot -> Request \cup {NoRequest}]
    BY <1>0, <1>1 DEF vars, TypeOK
  <2> QED
    BY <1>1, <2>1, DropKeeps DEF vars
<1>2. ASSUME NEW s \in Slot, NEW u \in User, Register(s, u)
      PROVE  ChainInv'
  <2> DEFINE r == IF u \in StaffUser THEN "staff" ELSE "buyer"
  <2>1. /\ r \in Role /\ r # "none" /\ r # "seller" /\ role[u] = "none"
        /\ Begin(s, "open", u, r, 0) /\ role' = [role EXCEPT ![u] = r]
    BY <1>2 DEF Register, Role
  <2> HIDE DEF r
  <2>2. role' \in [User -> Role \cup {"none"}] /\ RolesGrow /\ role'[u] = r
    BY <1>0, <2>1 DEF TypeOK, RolesGrow
  <2> QED
    BY <2>1, <2>2, BeginKeeps
<1>3. ASSUME NEW s \in Slot, NEW u \in User, Login(s, u)
      PROVE  ChainInv'
  <2>1. /\ role[u] \in Role /\ role[u] # "none" /\ role' = role
        /\ Begin(s, "open", u, role[u], 0)
    BY <1>0, <1>3 DEF Login, TypeOK
  <2>2. role' \in [User -> Role \cup {"none"}] /\ RolesGrow
    BY <1>0, <2>1 DEF TypeOK, RolesGrow
  <2> QED
    BY <2>1, <2>2, BeginKeeps
<1>4. ASSUME NEW s \in Slot, NEW u \in User, BecomeSeller(s, u)
      PROVE  ChainInv'
  <2>1. /\ "seller" \in Role /\ role' = [role EXCEPT ![u] = "seller"]
        /\ Begin(s, "open", u, "seller", 0)
    BY <1>4 DEF BecomeSeller, Role
  <2>2. role' \in [User -> Role \cup {"none"}] /\ RolesGrow /\ role'[u] = "seller"
    BY <1>0, <2>1 DEF TypeOK, RolesGrow
  <2> QED
    BY <2>1, <2>2, BeginKeeps
<1>5. ASSUME NEW s \in Slot, NEW n \in Issued, BeginRefresh(s, n)
      PROVE  ChainInv'
  <2> DEFINE u == tokens[n].user
  <2>1. n \in Nat /\ tokens[n] \in Token
    BY <1>0 DEF TypeOK, Issued
  <2>2. u \in User /\ role[u] # "none"
    BY <2>1 DEF Token, ChainInv, TokenSound
  <2>3. role' = role /\ Begin(s, "rotate", u, role[u], n)
    BY <1>5 DEF BeginRefresh
  <2> HIDE DEF u
  <2>4. role[u] \in Role /\ role' \in [User -> Role \cup {"none"}] /\ RolesGrow
    BY <1>0, <2>2, <2>3 DEF TypeOK, RolesGrow
  <2> QED
    BY <2>1, <2>2, <2>3, <2>4, BeginKeeps
<1>6. ASSUME NEW s \in Slot, CreateRefreshSession(s)
      PROVE  ChainInv'
  <2> DEFINE n == Len(tokens) + 1
  <2>1. request[s] # NoRequest /\ Len(tokens) \in Nat
    BY <1>0, <1>6 DEF CreateRefreshSession, NoRequest, TypeOK
  <2>2. Issues(s, n, 0) /\ live' = live \cup {n}
    BY <1>6 DEF CreateRefreshSession, Issues
  <2>3. n \in 1..n /\ 0 \in 0..Len(tokens) /\ live' \subseteq Issued \cup {n}
    BY <1>0, <2>1, <2>2 DEF TypeOK
  <2> HIDE DEF n
  <2> QED
    BY <2>1, <2>2, <2>3, IssueKeeps DEF n
<1>7. ASSUME NEW s \in Slot, RotateRefreshSession(s)
      PROVE  ChainInv'
  <2> DEFINE t == request[s].token
  <2>1. request[s] # NoRequest /\ Len(tokens) \in Nat /\ t \in Issued
    BY <1>0, <1>7 DEF RotateRefreshSession, NoRequest, TypeOK
  <2>2. /\ Issues(s, tokens[t].login, t)
        /\ live' \subseteq live \cup {Len(tokens) + 1}
    BY <1>7 DEF RotateRefreshSession, RotateTo, Issues
  <2>3. tokens[t].login \in 1..t
    BY <2>1 DEF ChainInv, TokenSound
  <2> HIDE DEF t
  <2>4. tokens[t].login \in 1..(Len(tokens) + 1) /\ t \in 0..Len(tokens)
    BY <2>1, <2>3 DEF Issued
  <2>5. live' \subseteq Issued \cup {Len(tokens) + 1}
    BY <1>0, <2>2 DEF TypeOK
  <2> QED
    BY <2>1, <2>2, <2>4, <2>5, IssueKeeps
<1>8. ASSUME NEW s \in Slot, GiveUp(s)
      PROVE  ChainInv'
  <2>1. /\ request' \in [Slot -> Request \cup {NoRequest}]
        /\ \A q \in Slot : request'[q] = request[q] \/ request'[q] = NoRequest
        /\ live' \subseteq live /\ loggedOut' \subseteq Issued
    BY <1>0, <1>8 DEF GiveUp, TypeOK
  <2> QED
    BY <1>8, <2>1, DropKeeps DEF GiveUp
<1>9. ASSUME NEW n \in Issued, DropRefused(n) \/ Logout(n) \/ LogoutFails(n)
      PROVE  ChainInv'
  <2>1. tokens[n].login \in 1..n
    BY DEF ChainInv, TokenSound
  <2>2. tokens[n].login \in Issued
    BY <1>0, <2>1 DEF TypeOK, Issued
  <2>3. /\ tokens' = tokens /\ role' = role /\ request' = request
        /\ live' \subseteq live /\ loggedOut' \subseteq Issued
    BY <1>0, <1>9, <2>2 DEF DropRefused, Logout, LogoutFails, TypeOK
  <2>4. request' \in [Slot -> Request \cup {NoRequest}]
    BY <1>0, <2>3 DEF TypeOK
  <2> QED
    BY <2>3, <2>4, DropKeeps
<1> QED
  BY <1>1, <1>2, <1>3, <1>4, <1>5, <1>6, <1>7, <1>8, <1>9 DEF Next

\* The inductive invariant of the token histories (refresh.go, session.go).
THEOREM ChainInvariant == Spec => []ChainInv
BY ChainInit, ChainInvStep, PTL DEF Spec

\* Every variable keeps its type.
THEOREM TypeCorrect == Spec => []TypeOK
<1>1. ChainInv => TypeOK
  BY DEF ChainInv
<1> QED
  BY <1>1, ChainInvariant, PTL

\* The role an access token carries is seller only for sellers.
THEOREM SellersAreSellers == Spec => []SellerTokensAreOfSellers
<1>1. ChainInv => SellerTokensAreOfSellers
  BY DEF ChainInv, TokenSound, SellerTokensAreOfSellers
<1> QED
  BY <1>1, ChainInvariant, PTL
-----------------------------------------------------------------------------
(* Chains.                                                                 *)

\* What a step does to the table: at most one row goes, or one row of a new
\* login comes, or one row takes the place of another of its login.
Goes == tokens' = tokens /\ \E n \in Nat : live' = live \ {n}

Opens(n) ==
  /\ n = Len(tokens) + 1
  /\ live' = live \cup {n}
  /\ \A m \in Issued : tokens'[m] = tokens[m]
  /\ tokens'[n].login = n /\ tokens'[n].from = 0

Moves(t, n) ==
  /\ n = Len(tokens) + 1
  /\ t \in live
  /\ live' = (live \ {t}) \cup {n}
  /\ \A m \in Issued : tokens'[m] = tokens[m]
  /\ tokens'[n].login = tokens[t].login /\ tokens'[n].from = t

\* Whatever a handler does to refresh_sessions is one of four things: nothing
\* or a row goes, a login is opened, a row is exchanged for a fresh one.
LEMMA TableSteps ==
  ASSUME ChainInv, [Next]_vars
  PROVE  \/ Goes
         \/ \E n \in Issued' \ Issued :
              /\ Issued' = Issued \cup {n}
              /\ n \in 1..MaxToken
              /\ Opens(n) \/ \E t \in live : Moves(t, n)
<1>0. TypeOK
  BY DEF ChainInv
<1>1. ASSUME NEW s \in Slot, CreateRefreshSession(s) \/ RotateRefreshSession(s)
      PROVE  \E n \in Issued' \ Issued :
                /\ Issued' = Issued \cup {n}
                /\ n \in 1..MaxToken
                /\ Opens(n) \/ \E t \in live : Moves(t, n)
  <2> DEFINE n == Len(tokens) + 1
             t == request[s].token
             first == [user |-> request[s].user, role |-> request[s].role,
                       login |-> n, from |-> 0]
             next == [user |-> request[s].user, role |-> request[s].role,
                      login |-> tokens[t].login, from |-> t]
  <2>1. request[s] # NoRequest
    BY <1>1 DEF CreateRefreshSession, RotateRefreshSession, NoRequest
  <2>2. request[s] \in Request /\ Len(tokens) \in Nat
    BY <1>0, <2>1 DEF TypeOK
  <2>3. n \in 1..MaxToken
    BY <1>1, <2>2, SessionAssumption DEF CreateRefreshSession, RotateRefreshSession, RotateTo
  <2>4. CASE CreateRefreshSession(s)
    <3>1. first \in Token /\ tokens' = Append(tokens, first)
      BY <2>2, <2>4 DEF CreateRefreshSession, Token, Request
    <3>2. /\ Issued' = Issued \cup {n} /\ n \notin Issued /\ tokens'[n] = first
          /\ \A m \in Issued : tokens'[m] = tokens[m]
      BY <1>0, <3>1, IssueType
    <3>3. live' = live \cup {n} /\ n = Len(tokens) + 1
      BY <2>4 DEF CreateRefreshSession
    <3>4. first.login = n /\ first.from = 0
      OBVIOUS
    <3> HIDE DEF n, first
    <3>5. Opens(n)
      BY <3>2, <3>3, <3>4 DEF Opens
    <3> QED
      BY <2>3, <3>2, <3>5
  <2>5. CASE RotateRefreshSession(s)
    <3>1. t \in live /\ tokens[t].login \in Nat /\ t \in Nat
      <4>1. t \in live /\ t \in Issued
        BY <1>0, <2>5 DEF RotateRefreshSession, TypeOK
      <4>2. tokens[t] \in Token /\ t \in Nat
        BY <1>0, <4>1 DEF TypeOK, Issued
      <4> QED
        BY <4>1, <4>2 DEF Token
    <3>2. next \in Token /\ tokens' = Append(tokens, next)
      BY <2>2, <2>5, <3>1 DEF RotateRefreshSession, RotateTo, Token, Request
    <3>3. /\ Issued' = Issued \cup {n} /\ n \notin Issued /\ tokens'[n] = next
          /\ \A m \in Issued : tokens'[m] = tokens[m]
      BY <1>0, <3>2, IssueType
    <3>4. live' = (live \ {t}) \cup {n} /\ n = Len(tokens) + 1
      BY <2>5 DEF RotateRefreshSession, RotateTo
    <3>5. next.login = tokens[t].login /\ next.from = t
      OBVIOUS
    <3> HIDE DEF n, t, next
    <3>6. Moves(t, n)
      BY <3>1, <3>3, <3>4, <3>5 DEF Moves
    <3> QED
      BY <2>3, <3>1, <3>3, <3>6
  <2> QED
    BY <1>1, <2>4, <2>5
<1>7. 0 \in Nat /\ live = live \ {0}
  BY <1>0 DEF TypeOK, Issued
<1>2. ASSUME NEW s \in Slot, GiveUp(s)
      PROVE  Goes
  BY <1>7, <1>2 DEF GiveUp, Goes
<1>3. ASSUME NEW n \in Issued, DropRefused(n) \/ Logout(n) \/ LogoutFails(n)
      PROVE  Goes
  BY <1>7, <1>3 DEF DropRefused, Logout, LogoutFails, Goes, Issued
<1>4. ASSUME NEW s \in Slot, NEW u \in User, Register(s, u) \/ Login(s, u) \/ BecomeSeller(s, u)
      PROVE  Goes
  BY <1>7, <1>4 DEF Register, Login, BecomeSeller, Begin, Goes
<1>5. ASSUME NEW s \in Slot, NEW n \in Issued, BeginRefresh(s, n)
      PROVE  Goes
  BY <1>7, <1>5 DEF BeginRefresh, Begin, Goes
<1>6. CASE UNCHANGED vars
  BY <1>7, <1>6 DEF vars, Goes
<1> QED
  BY <1>1, <1>2, <1>3, <1>4, <1>5, <1>6 DEF Next

\* The inductive form of single use and of one session per login together.
TableInv ==
  /\ ChainInv
  /\ SpentOnce
  /\ OneLivePerLogin
  /\ Issued \subseteq 1..MaxToken

\* Each of the four keeps what is said of the table.
LEMMA TableInvStep == TableInv /\ [Next]_vars => TableInv'
<1> SUFFICES ASSUME TableInv, [Next]_vars
             PROVE  TableInv'
  OBVIOUS
<1>1. ChainInv' /\ ChainInv /\ TypeOK
  BY ChainInvStep DEF TableInv, ChainInv
<1>2. CASE Goes
  BY <1>1, <1>2 DEF TableInv, SpentOnce, OneLivePerLogin, Goes, Issued
<1>3. ASSUME NEW n \in Issued' \ Issued, Issued' = Issued \cup {n},
             n \in 1..MaxToken, Opens(n)
      PROVE  TableInv'
  <2>1. /\ n = Len(tokens) + 1 /\ Len(tokens) \in Nat /\ live' = live \cup {n}
        /\ \A m \in Issued : tokens'[m] = tokens[m]
        /\ tokens'[n].login = n /\ tokens'[n].from = 0
        /\ live \subseteq Issued
    BY <1>1, <1>3 DEF Opens, TypeOK
  <2>2. \A m \in Issued : tokens[m].from < m /\ tokens[m].login \in 1..m /\ m < n
    BY <1>1, <2>1 DEF ChainInv, TokenSound, Issued
  <2>3. \A m \in Issued : tokens[m].from # n /\ tokens[m].login # n
    BY <2>1, <2>2 DEF Issued
  <2>4. SpentOnce'
    <3>1. \A m, k \in Issued' : tokens'[m].from = tokens'[k].from /\ tokens'[k].from # 0 => m = k
      <4>1. \A m, k \in Issued : tokens[m].from = tokens[k].from /\ tokens[k].from # 0 => m = k
        BY DEF TableInv, SpentOnce
      <4>2. Issued' = Issued \cup {n} /\ tokens'[n].from = 0
        BY <1>3, <2>1
      <4>3. \A m \in Issued : tokens'[m].from = tokens[m].from
        BY <2>1
      <4> QED
        BY <4>1, <4>2, <4>3
    <3>2. \A m \in Issued' : tokens'[m].from \notin live'
      <4>1. 0 \notin live'
        BY <2>1 DEF Issued
      <4> QED
        BY <1>3, <2>1, <2>3, <4>1 DEF TableInv, SpentOnce
    <3> QED
      BY <3>1, <3>2 DEF SpentOnce
  <2>5. OneLivePerLogin'
    BY <2>1, <2>3 DEF TableInv, OneLivePerLogin
  <2> QED
    BY <1>1, <1>3, <2>4, <2>5 DEF TableInv
<1>4. ASSUME NEW n \in Issued' \ Issued, Issued' = Issued \cup {n},
             n \in 1..MaxToken, NEW t \in live, Moves(t, n)
      PROVE  TableInv'
  <2>1. /\ n = Len(tokens) + 1 /\ Len(tokens) \in Nat /\ live' = (live \ {t}) \cup {n}
        /\ \A m \in Issued : tokens'[m] = tokens[m]
        /\ tokens'[n].login = tokens[t].login /\ tokens'[n].from = t
        /\ live \subseteq Issued /\ t \in Issued /\ t # n
    BY <1>1, <1>4 DEF Moves, TypeOK
  <2>2. \A m \in Issued : tokens[m].from < m /\ m < n
    BY <1>1, <2>1 DEF ChainInv, TokenSound, Issued
  <2>3. \A m \in Issued : tokens[m].from # n /\ tokens[m].from # t
    BY <2>1, <2>2 DEF Issued, TableInv, SpentOnce
  <2>4. SpentOnce'
    <3>0. /\ Issued' = Issued \cup {n} /\ tokens'[n].from = t
          /\ \A m \in Issued : tokens'[m].from = tokens[m].from /\ tokens[m].from # t
      BY <1>4, <2>1, <2>3
    <3>1. \A m, k \in Issued' : tokens'[m].from = tokens'[k].from /\ tokens'[k].from # 0 => m = k
      <4>1. \A m, k \in Issued : tokens[m].from = tokens[k].from /\ tokens[k].from # 0 => m = k
        BY <1>4 DEF TableInv, SpentOnce
      <4> QED
        BY <3>0, <4>1
    <3>2. \A m \in Issued' : tokens'[m].from \notin live'
      BY <1>4, <2>1, <2>3 DEF TableInv, SpentOnce
    <3> QED
      BY <3>1, <3>2 DEF SpentOnce
  <2>5. OneLivePerLogin'
    <3>1. /\ \A m \in live : tokens'[m].login = tokens[m].login
          /\ live' = (live \ {t}) \cup {n} /\ tokens'[n].login = tokens[t].login
      BY <2>1
    <3>2. \A m, k \in live : tokens[m].login = tokens[k].login => m = k
      BY <1>1 DEF TableInv, OneLivePerLogin
    <3>3. \A m \in live \ {t} : tokens[m].login # tokens[t].login
      BY <1>4, <3>2
    <3> QED
      BY <3>1, <3>2, <3>3 DEF OneLivePerLogin
  <2> QED
    BY <1>1, <1>4, <2>4, <2>5 DEF TableInv
<1> QED
  BY <1>1, <1>2, <1>3, <1>4, TableSteps

\* The table invariant, with the types and histories it rests on.
LEMMA TableInvariant == Spec => []TableInv
<1>1. Init => TableInv
  BY ChainInit DEF TableInv, Init, SpentOnce, OneLivePerLogin, Issued
<1> QED
  BY <1>1, TableInvStep, PTL DEF Spec

\* Every token is exchanged at most once, however many handlers hold it.
THEOREM TokensAreSingleUse == Spec => []SpentOnce
BY TableInvariant, PTL DEF TableInv

\* A login has at most one session at any time.
THEOREM OneSessionPerLogin == Spec => []OneLivePerLogin
BY TableInvariant, PTL DEF TableInv

\* No handler in flight brings back a login whose session is gone.
THEOREM EndedIsFinal == Spec => EndedLoginsStayEnded
<1> DEFINE Step == \A c \in Issued :
             (\A n \in live : tokens[n].login # c) => (\A n \in live' : tokens'[n].login # c)
<1>1. ASSUME ChainInv, [Next]_vars
      PROVE  Step
  <2>0. live \subseteq Issued
    BY <1>1 DEF ChainInv, TypeOK
  <2>1. CASE Goes
    BY <2>1 DEF Goes
  <2>2. ASSUME NEW n \in Issued' \ Issued, Opens(n)
        PROVE  Step
    BY <2>0, <2>2 DEF Opens
  <2>3. ASSUME NEW n \in Issued' \ Issued, NEW t \in live, Moves(t, n)
        PROVE  Step
    BY <2>0, <2>3 DEF Moves
  <2> QED
    BY <1>1, <2>1, <2>2, <2>3, TableSteps
<1>2. ChainInv /\ [Next]_vars => [Step]_vars
  BY <1>1
<1> QED
  BY <1>2, ChainInvariant, PTL DEF Spec, EndedLoginsStayEnded

-----------------------------------------------------------------------------
(* Refinement.                                                             *)

\* Current[c] is the row of login c, 0 when there is none.
LEMMA CurrentIs ==
  ASSUME TableInv, NEW c \in 1..MaxToken
  PROVE  /\ (\A n \in live : tokens[n].login # c) => Current[c] = 0
         /\ \A n \in live : tokens[n].login = c => Current[c] = n
<1>1. CASE Rows(c) = {}
  BY <1>1 DEF Current, Rows
<1>2. CASE Rows(c) # {}
  <2>1. Current[c] \in Rows(c)
    BY <1>2 DEF Current
  <2> QED
    BY <2>1 DEF Rows, TableInv, OneLivePerLogin
<1> QED
  BY <1>1, <1>2

\* A login none of whose rows a step touches keeps its token.
LEMMA CurrentKept ==
  ASSUME NEW c \in 1..MaxToken, Rows(c)' = Rows(c)
  PROVE  Current'[c] = Current[c]
BY DEF Current

\* A step that changes the token of one login only is an EXCEPT.
LEMMA CurrentIsMap ==
  ASSUME NEW c \in 1..MaxToken, NEW v,
         Current'[c] = v,
         \A d \in 1..MaxToken : d # c => Current'[d] = Current[d]
  PROVE  Current' = [Current EXCEPT ![c] = v]
<1> DEFINE F(d) == IF Rows(d) = {} THEN 0 ELSE CHOOSE n \in Rows(d) : TRUE
           G(d) == IF Rows(d)' = {} THEN 0 ELSE CHOOSE n \in Rows(d)' : TRUE
<1>1. Current = [d \in 1..MaxToken |-> F(d)] /\ Current' = [d \in 1..MaxToken |-> G(d)]
  BY DEF Current
<1> HIDE DEF F, G
<1> QED
  BY <1>1

\* AuthSessions implements LoginChain.
THEOREM Implements == Spec => ImplementsLoginChain
<1>1. Init => Promised!Init
  <2> SUFFICES ASSUME Init
               PROVE  Promised!Init
    OBVIOUS
  <2>1. Issued = {} /\ \A c \in 1..MaxToken : Rows(c) = {}
    BY DEF Init, Issued, Rows
  <2> QED
    BY <2>1 DEF Promised!Init, Current
<1>2. ASSUME TableInv, TableInv', [Next]_vars
      PROVE  [Promised!Next]_<<Issued, Current>>
  <2>0. /\ live \subseteq Issued /\ Issued \subseteq 1..MaxToken
        /\ \A n \in Issued : tokens[n].login \in Issued
    <3>1. live \subseteq Issued /\ Issued \subseteq 1..MaxToken
      BY <1>2 DEF TableInv, ChainInv, TypeOK
    <3>2. ASSUME NEW n \in Issued
          PROVE  tokens[n].login \in Issued
      <4>1. tokens[n].login \in 1..n /\ Len(tokens) \in Nat
        BY <1>2, <3>2 DEF TableInv, ChainInv, TokenSound, TypeOK
      <4> QED
        BY <3>2, <4>1 DEF Issued
    <3> QED
      BY <3>1, <3>2
  <2>1. CASE Goes
    <3>1. PICK n \in Nat : live' = live \ {n}
      BY <2>1 DEF Goes
    <3>2. tokens' = tokens /\ Issued' = Issued
      BY <2>1 DEF Goes, Issued
    <3>3. CASE n \notin live
      <4>1. Current' = Current
        <5>1. live' = live
          BY <3>1, <3>3
        <5>2. \A c \in 1..MaxToken : Rows(c)' = Rows(c)
          BY <3>2, <5>1 DEF Rows
        <5> QED
          BY <5>2, CurrentKept DEF Current
      <4> QED
        BY <3>2, <4>1
    <3>4. CASE n \in live
      <4>1. PICK c \in 1..MaxToken : c = tokens[n].login
        BY <2>0, <3>4
      <4>2. Current[c] = n /\ n # 0
        BY <1>2, <2>0, <3>4, <4>1, CurrentIs DEF Issued
      <4>3. Rows(c)' = {}
        BY <1>2, <3>1, <3>2, <3>4, <4>1 DEF Rows, TableInv, OneLivePerLogin
      <4>4. ASSUME NEW d \in 1..MaxToken, d # c
            PROVE  Current'[d] = Current[d]
        <5>1. Rows(d)' = Rows(d)
          BY <3>1, <3>2, <4>1, <4>4 DEF Rows
        <5> QED
          BY <5>1, CurrentKept
      <4>5. Current' = [Current EXCEPT ![c] = 0]
        <5>1. Current'[c] = 0
          BY <4>1, <4>3 DEF Current
        <5> QED
          BY <4>1, <4>4, <5>1, CurrentIsMap
      <4> QED
        BY <3>2, <4>1, <4>2, <4>5 DEF Promised!Next, Promised!End
    <3> QED
      BY <3>3, <3>4
  <2>2. ASSUME NEW n \in Issued' \ Issued, Issued' = Issued \cup {n},
               n \in 1..MaxToken, Opens(n)
        PROVE  Promised!Next
    <3>1. /\ live' = live \cup {n} /\ tokens'[n].login = n
          /\ \A m \in live : tokens'[m] = tokens[m]
      BY <2>0, <2>2 DEF Opens
    <3>2. Rows(n)' = {n}
      BY <2>0, <2>2, <3>1 DEF Rows
    <3>3. ASSUME NEW d \in 1..MaxToken, d # n
          PROVE  Current'[d] = Current[d]
      <4>1. Rows(d)' = Rows(d)
        BY <3>1, <3>3, <2>0, <2>2 DEF Rows
      <4> QED
        BY <4>1, CurrentKept
    <3>4. Current' = [Current EXCEPT ![n] = n]
      <4>1. Current'[n] = n
        BY <2>2, <3>2 DEF Current
      <4> QED
        BY <2>2, <3>3, <4>1, CurrentIsMap
    <3> QED
      BY <2>2, <3>4 DEF Promised!Next, Promised!Open
  <2>3. ASSUME NEW n \in Issued' \ Issued, Issued' = Issued \cup {n},
               n \in 1..MaxToken, NEW t \in live, Moves(t, n)
        PROVE  Promised!Next
    <3>0. PICK c \in 1..MaxToken : c = tokens[t].login
      BY <2>0
    <3>1. /\ live' = (live \ {t}) \cup {n} /\ tokens'[n].login = c
          /\ \A m \in live : tokens'[m] = tokens[m]
      BY <2>0, <2>3, <3>0 DEF Moves
    <3>2. Current[c] = t /\ t # 0
      BY <1>2, <2>0, <3>0, CurrentIs DEF Issued
    <3>3. Rows(c)' = {n}
      BY <1>2, <2>0, <2>3, <3>0, <3>1 DEF Rows, TableInv, OneLivePerLogin
    <3>4. ASSUME NEW d \in 1..MaxToken, d # c
          PROVE  Current'[d] = Current[d]
      <4>1. Rows(d)' = Rows(d)
        BY <3>0, <3>1, <3>4, <2>0, <2>3 DEF Rows
      <4> QED
        BY <4>1, CurrentKept
    <3>5. Current' = [Current EXCEPT ![c] = n]
      <4>1. Current'[c] = n
        BY <3>2, <3>3 DEF Current
      <4> QED
        BY <3>2, <3>4, <4>1, CurrentIsMap
    <3> QED
      BY <2>3, <3>2, <3>5 DEF Promised!Next, Promised!Rotate
  <2> QED
    BY <1>2, <2>1, <2>2, <2>3, TableSteps DEF TableInv
<1> QED
  BY <1>1, <1>2, TableInvariant, PTL DEF Spec, ImplementsLoginChain, Promised!Spec

-----------------------------------------------------------------------------
(* On every store.                                                         *)

HoldInv ==
  /\ rotating \subseteq Slot
  /\ rotating # {} => store = "sqlite"
  /\ RotationHoldsItsRow

\* Each step on any store is one of AuthSessions, or none of its business.
LEMMA StoresStep ==
  ASSUME TypeOK, HoldInv, [StoresNext]_storeVars
  PROVE  [Next]_vars /\ HoldInv'
<1> USE DEF HoldInv, RotationHoldsItsRow
<1>0. \A s \in Slot : request[s] = NoRequest => s \notin rotating
  BY DEF NoRequest
<1>1. ASSUME NEW s \in Slot, NEW u \in User, CreateUser(s, u) \/ Promote(s, u)
      PROVE  Next /\ HoldInv'
  BY <1>1 DEF CreateUser, Promote, Free, MutexFree, Kept, Next
<1>2. ASSUME NEW s \in Slot, InsertSession(s) \/ RotateAtOnce(s)
      PROVE  Next /\ HoldInv'
  BY <1>2 DEF InsertSession, RotateAtOnce, Free, MutexFree, Kept, Next
<1>3. ASSUME NEW s \in Slot, ReadUser(s)
      PROVE  Next /\ HoldInv'
  <2>1. Next
    BY <1>3 DEF ReadUser, Next
  <2>2. /\ live' = live /\ rotating' = rotating /\ store' = store
        /\ request[s] = NoRequest /\ \A t \in Slot \ {s} : request'[t] = request[t]
    BY <1>3 DEF ReadUser, Login, BeginRefresh, Begin, Kept, TypeOK
  <2> QED
    BY <1>0, <2>1, <2>2
<1>4. ASSUME NEW s \in Slot, ConsumeSQLite(s)
      PROVE  UNCHANGED vars /\ HoldInv'
  BY <1>4 DEF ConsumeSQLite, vars
<1>5. ASSUME NEW s \in Slot, CommitSQLite(s)
      PROVE  Next /\ HoldInv'
  <2>1. RotateRefreshSession(s)
    BY <1>5 DEF CommitSQLite, RotateRefreshSession
  <2> QED
    BY <1>5, <2>1 DEF CommitSQLite, Next
<1>6. ASSUME NEW s \in Slot, Abandon(s)
      PROVE  Next /\ HoldInv'
  <2>1. GiveUp(s) /\ rotating' = rotating \ {s} /\ store' = store
    BY <1>6 DEF Abandon
  <2>2. live' = live /\ \A t \in Slot \ {s} : request'[t] = request[t]
    BY <2>1 DEF GiveUp, TypeOK
  <2> QED
    BY <2>1, <2>2 DEF Next
<1>7. ASSUME NEW n \in Issued, DeleteSession(n)
      PROVE  Next /\ HoldInv'
  BY <1>7 DEF DeleteSession, Free, MutexFree, Kept, Next
<1>8. ASSUME NEW n \in Issued, LogoutUnheard(n)
      PROVE  Next /\ HoldInv'
  BY <1>8 DEF LogoutUnheard, LogoutFails, Kept, Next
<1>9. CASE UNCHANGED storeVars
  BY <1>9 DEF storeVars, vars
<1> QED
  BY <1>1, <1>2, <1>3, <1>4, <1>5, <1>6, <1>7, <1>8, <1>9 DEF StoresNext

\* Whichever store runs, the handlers behave as on Postgres: what is proved of
\* Spec holds of StoresSpec.
THEOREM StoresAreSessions == StoresSpec => Spec /\ []RotationHoldsItsRow
<1>1. StoresInit => Init /\ TypeOK /\ HoldInv
  BY ChainInit DEF StoresInit, HoldInv, RotationHoldsItsRow, ChainInv
<1>2. TypeOK /\ HoldInv /\ [StoresNext]_storeVars => [Next]_vars /\ HoldInv'
  BY StoresStep
<1>3. StoresSpec => Spec /\ []HoldInv
  <2>1. ChainInv /\ HoldInv /\ [StoresNext]_storeVars => ChainInv' /\ HoldInv'
    BY <1>2, ChainInvStep DEF ChainInv
  <2>2. ChainInv => TypeOK
    BY DEF ChainInv
  <2>3. StoresInit => ChainInv
    BY ChainInit DEF StoresInit
  <2> QED
    BY <1>1, <1>2, <2>1, <2>2, <2>3, PTL DEF StoresSpec, Spec
<1>4. HoldInv => RotationHoldsItsRow
  BY DEF HoldInv
<1> QED
  BY <1>3, <1>4, PTL

\* A rotation of SQLite is alone with its row (users/sqlite.go:163-193).
THEOREM RotationsAreAlone == StoresSpec => []RotationHoldsItsRow
BY StoresAreSessions, PTL

\* So tokens are used once and ended logins stay so on the development stores.
COROLLARY StoresKeepSessions ==
  StoresSpec => /\ [](TypeOK /\ SpentOnce /\ OneLivePerLogin /\ SellerTokensAreOfSellers)
                /\ EndedLoginsStayEnded
                /\ ImplementsLoginChain
BY StoresAreSessions, TypeCorrect, TokensAreSingleUse, OneSessionPerLogin, SellersAreSellers,
   EndedIsFinal, Implements, PTL
=============================================================================
