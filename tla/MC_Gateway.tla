----------------------------- MODULE MC_Gateway -----------------------------
(* Small instances of Gateway for TLC. *)
EXTENDS Gateway

CONSTANTS e1, e2, n1, n2

Stored == [email |-> e2, username |-> n2]

Register(e, n) == [op |-> "create", email |-> e, username |-> n]
SetEmail(e)    == [op |-> "update", id |-> 1, email |-> e, username |-> Empty]
Delete         == [op |-> "delete", id |-> 1]

\* One e-mail and one username that three requests want.
AllRequests   == {Register(e1, n1), Register(e1, n2), SetEmail(e1), Delete}
Registrations == {Register(e1, n1)}

=============================================================================
