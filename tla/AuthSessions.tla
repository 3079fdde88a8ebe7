---------------------------- MODULE AuthSessions ----------------------------
(***************************************************************************)
(* Refresh sessions of the Auth service on its Postgres store: register,   *)
(* login, become-seller, the rotating refresh and logout.  A handler that  *)
(* makes several database calls keeps what it read in a request slot until *)
(* its last one, so Cardinality(Slot) bounds how many handlers overlap.    *)
(*                                                                         *)
(* Data.  A refresh token, its hash, the CSRF token made with it and the   *)
(* access JWT that answers with it are one number, its place in "tokens",  *)
(* the history of all that were issued; "live" is the refresh_sessions     *)
(* table.  A client may present any token ever issued, so a replay, a      *)
(* retry and two tabs sending one cookie are all the same action.  Time    *)
(* passes unseen: any live token may turn out expired when presented.      *)
(***************************************************************************)
EXTENDS Naturals, Sequences

CONSTANTS
  User,       \* the accounts that may register
  StaffUser,  \* those whose email is in STAFF_EMAILS
  Slot,       \* concurrent requests
  MaxToken    \* bound: tokens issued

ASSUME SessionAssumption ==
  /\ StaffUser \subseteq User
  /\ MaxToken \in Nat

VARIABLES
  role,       \* users.role, "none" before the row exists
  tokens,     \* every token issued, in order
  live,       \* the tokens refresh_sessions holds
  loggedOut,  \* the logins some logout answered 204 for
  request     \* the handler in each slot

vars == <<role, tokens, live, loggedOut, request>>

Role == {"buyer", "seller", "staff"}

\* login: the token its chain of rotations began with; from: the token it
\* was rotated from, 0 for a chain's first.
Token == [user: User, role: Role, login: Nat, from: Nat]

NoRequest == [pc |-> "idle"]

\* pc = "open": about to insert a first session; pc = "rotate": about to
\* exchange token for a new one.  user and role are as the handler read them.
Request == [pc: {"open", "rotate"}, user: User, role: Role, token: Nat]

Issued == 1..Len(tokens)

TypeOK ==
  /\ role \in [User -> Role \cup {"none"}]
  /\ tokens \in Seq(Token)
  /\ live \subseteq Issued
  /\ loggedOut \subseteq Issued
  /\ request \in [Slot -> Request \cup {NoRequest}]

Init ==
  /\ role = [u \in User |-> "none"]
  /\ tokens = <<>>
  /\ live = {}
  /\ loggedOut = {}
  /\ request = [s \in Slot |-> NoRequest]

-----------------------------------------------------------------------------
(* Handlers that end in issueSession.                                      *)

\* The user was read as u with role r; the session insert is still to come.
Begin(s, pc, u, r, n) ==
  /\ request[s] = NoRequest
  /\ request' = [request EXCEPT ![s] =
                   [pc |-> pc, user |-> u, role |-> r, token |-> n]]
  /\ UNCHANGED <<tokens, live, loggedOut>>

\* POST /auth/register: the account commits before its first session.
Register(s, u) ==
  LET r == IF u \in StaffUser THEN "staff" ELSE "buyer"
  IN  /\ role[u] = "none"
      /\ role' = [role EXCEPT ![u] = r]
      /\ Begin(s, "open", u, r, 0)

\* POST /auth/login with the right password.
Login(s, u) ==
  /\ role[u] # "none"
  /\ Begin(s, "open", u, role[u], 0)
  /\ UNCHANGED role

\* Fault: the session says seller, the account row is left alone.
BecomeSellerUnsaved(s, u) ==
  /\ \E n \in Issued : tokens[n].user = u
  /\ Begin(s, "open", u, "seller", 0)
  /\ UNCHANGED role

\* POST /auth/become-seller with an access token of u: whatever role u has.
BecomeSeller(s, u) ==
  /\ \E n \in Issued : tokens[n].user = u
  /\ role' = [role EXCEPT ![u] = "seller"]
  /\ Begin(s, "open", u, "seller", 0)

\* CreateRefreshSession.
CreateRefreshSession(s) ==
  LET n == Len(tokens) + 1
  IN  /\ request[s].pc = "open"
      /\ n <= MaxToken
      /\ tokens' = Append(tokens, [user |-> request[s].user, role |-> request[s].role,
                                   login |-> n, from |-> 0])
      /\ live' = live \cup {n}
      /\ request' = [request EXCEPT ![s] = NoRequest]
      /\ UNCHANGED <<role, loggedOut>>

-----------------------------------------------------------------------------
(* POST /auth/refresh and POST /auth/logout.                               *)

\* The session was found, its CSRF token presented, its time not over; then
\* the user was read.
BeginRefresh(s, n) ==
  /\ n \in live
  /\ Begin(s, "rotate", tokens[n].user, role[tokens[n].user], n)
  /\ UNCHANGED role

\* The row in place of request[s].token's, and what is left of the table.
RotateTo(s, remaining) ==
  LET n == Len(tokens) + 1
  IN  /\ n <= MaxToken
      /\ tokens' = Append(tokens, [user |-> request[s].user, role |-> request[s].role,
                                   login |-> tokens[request[s].token].login,
                                   from |-> request[s].token])
      /\ live' = remaining \cup {n}
      /\ request' = [request EXCEPT ![s] = NoRequest]
      /\ UNCHANGED <<role, loggedOut>>

\* Fault: DELETE without asking whether it found the row.
RotateUnconsumed(s) ==
  /\ request[s].pc = "rotate"
  /\ RotateTo(s, live \ {request[s].token})

\* Fault: the old row is read in the transaction but not deleted.
RotateUndeleted(s) ==
  /\ request[s].pc = "rotate"
  /\ request[s].token \in live
  /\ RotateTo(s, live)

\* DELETE ... RETURNING and INSERT in one transaction.
RotateRefreshSession(s) ==
  /\ request[s].pc = "rotate"
  /\ request[s].token \in live
  /\ RotateTo(s, live \ {request[s].token})

\* A session found but presented with another CSRF token, or too late, is
\* deleted.
DropRefused(n) ==
  /\ n \in live
  /\ live' = live \ {n}
  /\ UNCHANGED <<role, tokens, loggedOut, request>>

\* Logout deletes by the presented hash, found or not, and answers 204.
Logout(n) ==
  /\ live' = live \ {n}
  /\ loggedOut' = loggedOut \cup {tokens[n].login}
  /\ UNCHANGED <<role, tokens, request>>

\* The same when its DELETE fails, of a cancelled request or a slow database:
\* the error is ignored.
LogoutFails(n) ==
  /\ loggedOut' = loggedOut \cup {tokens[n].login}
  /\ UNCHANGED <<role, tokens, live, request>>

\* The handler ends without its last write: the token was spent meanwhile
\* (401), an error (500), a cancelled request or a stopped service.
GiveUp(s) ==
  /\ request[s] # NoRequest
  /\ request' = [request EXCEPT ![s] = NoRequest]
  /\ UNCHANGED <<role, tokens, live, loggedOut>>

Next ==
  \/ \E s \in Slot, u \in User : Register(s, u) \/ Login(s, u) \/ BecomeSeller(s, u)
  \/ \E s \in Slot, n \in Issued : BeginRefresh(s, n)
  \/ \E s \in Slot : CreateRefreshSession(s) \/ RotateRefreshSession(s) \/ GiveUp(s)
  \/ \E n \in Issued : DropRefused(n) \/ Logout(n) \/ LogoutFails(n)

Spec == Init /\ [][Next]_vars

-----------------------------------------------------------------------------
(* What holds whatever requests overlap.                                   *)

\* "Refresh rotates on every use - replay fails closed"
\* (docs/authentication.md:42): however many requests present one token at
\* once, one of them gets a successor, and none once it is out of the table.
SpentOnce ==
  /\ \A m, n \in Issued : tokens[m].from = tokens[n].from /\ tokens[n].from # 0 => m = n
  /\ \A n \in Issued : tokens[n].from \notin live

\* A login never has two sessions to refresh: rotation moves it, it does not
\* copy it.
OneLivePerLogin ==
  \A m, n \in live : tokens[m].login = tokens[n].login => m = n

\* A login without a session never gets one back: a refresh that was already
\* past its checks when logout, expiry or a CSRF mismatch deleted the session
\* writes nothing.
EndedLoginsStayEnded ==
  [][\A c \in Issued :
       (\A n \in live : tokens[n].login # c) => (\A n \in live' : tokens'[n].login # c)]_vars

\* Listings trusts the role in the access token until it expires: it says
\* seller only of accounts that are sellers, for good, in the database.
SellerTokensAreOfSellers ==
  \A n \in Issued : tokens[n].role = "seller" => role[tokens[n].user] = "seller"

-----------------------------------------------------------------------------
(* What the repository says and the code breaks: TLC finds each violated   *)
(* when a configuration asks for it.                                       *)

\* docs/authentication.md:81: "logging out clears the server session and
\* browser state".
LoggedOutLoginsAreOver == \A n \in live : tokens[n].login \notin loggedOut

\* docs/SUPPORT.md:45: "Staff access is bootstrap-configured by the Auth
\* service's server-only STAFF_EMAILS allowlist; it is never a self-service
\* account setting."
StaffIsNotSelfService == [][\A u \in User : role[u] = "staff" => role'[u] = "staff"]_vars
=============================================================================
