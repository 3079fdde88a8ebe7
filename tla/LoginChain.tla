----------------------------- MODULE LoginChain -----------------------------
(***************************************************************************)
(* What the Auth service promises of a login, with no handlers in sight: a *)
(* chain of single-use tokens that is opened once, moves from token to     *)
(* fresh token in one step, and once ended stays so.                       *)
(***************************************************************************)
CONSTANTS
  Token,   \* refresh tokens; a login is named by its first one
  NoToken  \* the login has none

VARIABLES
  used,    \* tokens handed out, ever
  current  \* current[c]: the one token that can be exchanged for login c

Init ==
  /\ used = {}
  /\ current = [c \in Token |-> NoToken]

Open(c) ==
  /\ c \notin used
  /\ used' = used \cup {c}
  /\ current' = [current EXCEPT ![c] = c]

Rotate(c, t) ==
  /\ current[c] # NoToken
  /\ t \notin used
  /\ used' = used \cup {t}
  /\ current' = [current EXCEPT ![c] = t]

End(c) ==
  /\ current[c] # NoToken
  /\ current' = [current EXCEPT ![c] = NoToken]
  /\ UNCHANGED used

Next == \E c \in Token : Open(c) \/ End(c) \/ \E t \in Token : Rotate(c, t)

Spec == Init /\ [][Next]_<<used, current>>
=============================================================================
