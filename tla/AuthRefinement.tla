--------------------------- MODULE AuthRefinement ---------------------------
(***************************************************************************)
(* AuthSessions implements LoginChain: overlapping handlers and replays of *)
(* any token look like one atomic chain for each login.                    *)
(***************************************************************************)
EXTENDS AuthSessions

\* The rows of refresh_sessions that belong to login c.
Rows(c) == {n \in live : tokens[n].login = c}

Current == [c \in 1..MaxToken |-> IF Rows(c) = {} THEN 0 ELSE CHOOSE n \in Rows(c) : TRUE]

Promised == INSTANCE LoginChain
              WITH Token <- 1..MaxToken, NoToken <- 0, used <- Issued, current <- Current

\* The registration, login, refresh and logout handlers of
\* services/auth/internal/handlers together keep the promise.
ImplementsLoginChain == Promised!Spec
=============================================================================
