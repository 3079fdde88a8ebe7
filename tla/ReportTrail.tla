------------------------------ MODULE ReportTrail ------------------------------
(***************************************************************************)
(* What the support service promises of a report, whoever moves it and     *)
(* however often: it is filed once, and then walks along the status        *)
(* machine, open to triaged to resolved or open to resolved, never back.   *)
(***************************************************************************)
EXTENDS Sequences

CONSTANT Reports

VARIABLE trail   \* the statuses each report has had, in order

Leads(from, to) == <<from, to>> \in
    {<<"open", "triaged">>, <<"open", "resolved">>, <<"triaged", "resolved">>}

Init == trail = [r \in Reports |-> <<>>]

File(r) == /\ trail[r] = <<>>
           /\ trail' = [trail EXCEPT ![r] = <<"open">>]

Move(r, to) == /\ trail[r] # <<>>
               /\ Leads(trail[r][Len(trail[r])], to)
               /\ trail' = [trail EXCEPT ![r] = Append(@, to)]

Next == \E r \in Reports : File(r) \/ \E to \in {"triaged", "resolved"} : Move(r, to)

Spec == Init /\ [][Next]_trail
================================================================================
