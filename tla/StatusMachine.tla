---------------------------- MODULE StatusMachine ----------------------------
(***************************************************************************)
(* What the repository promises of a listing's status: the diagram of      *)
(* services/listings/README.md ("Status machine") and the moderation rules *)
(* of docs/MODERATION.md, with no handler, copy or race in sight.          *)
(***************************************************************************)
EXTENDS Naturals, Sequences

CONSTANTS Listing, Report,
  Time      \* timestamps

VARIABLES
  status,     \* "none" until the listing is created
  since,      \* when it was last made public; 0 when never, or unpublished
  ready,      \* it has every field and an image that publishing requires
  decisions   \* the staff decisions on it, in order

vars == <<status, since, ready, decisions>>

Init ==
  /\ status = [l \in Listing |-> "none"]
  /\ since = [l \in Listing |-> 0]
  /\ ready = [l \in Listing |-> FALSE]
  /\ decisions = [l \in Listing |-> <<>>]

\* l moves from one of the states of from to the state to.
Move(l, from, to) ==
  /\ status[l] \in from
  /\ status' = [status EXCEPT ![l] = to]

Decide(l, action) ==
  \E report \in Report :
    decisions' = [decisions EXCEPT
                    ![l] = Append(@, [action |-> action, report |-> report])]

\* A publish time is later than the one it replaces.
Stamp(l) == \E t \in Time : t > since[l] /\ since' = [since EXCEPT ![l] = t]

Create(l) == Move(l, {"none"}, "draft") /\ UNCHANGED <<since, ready, decisions>>

\* Editing the fields or the gallery moves nothing else.
Edit(l) ==
  /\ status[l] # "none"
  /\ \E b \in BOOLEAN : ready' = [ready EXCEPT ![l] = b]
  /\ UNCHANGED <<status, since, decisions>>

Publish(l) ==
  /\ ready[l]
  /\ Move(l, {"draft"}, "published")
  /\ Stamp(l)
  /\ UNCHANGED <<ready, decisions>>

Unpublish(l) ==
  /\ Move(l, {"published"}, "draft")
  /\ since' = [since EXCEPT ![l] = 0]
  /\ UNCHANGED <<ready, decisions>>

Close(l) == Move(l, {"published"}, "closed") /\ UNCHANGED <<since, ready, decisions>>

Archive(l) ==
  /\ status[l] # "none"
  /\ Move(l, {"draft", "published", "closed", "moderation_hidden"}, "archived")
  /\ UNCHANGED <<since, ready, decisions>>

Hide(l) ==
  /\ Move(l, {"published"}, "moderation_hidden")
  /\ Decide(l, "hide")
  /\ UNCHANGED <<since, ready>>

Restore(l) ==
  /\ Move(l, {"moderation_hidden"}, "published")
  /\ Stamp(l)
  /\ Decide(l, "restore")
  /\ UNCHANGED ready

Next ==
  \E l \in Listing :
    \/ Create(l) \/ Edit(l) \/ Publish(l) \/ Unpublish(l)
    \/ Close(l) \/ Archive(l) \/ Hide(l) \/ Restore(l)

Spec == Init /\ [][Next]_vars
=============================================================================
