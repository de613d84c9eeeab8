------------------------------ MODULE MCClient ------------------------------
(* Client for TLC: one view that offers every kind of dialog.  What another   *)
(* view or another client starts is AcceptOther.                             *)
EXTENDS Client

CONSTANT view
Views     == {view}
AllOffers == [v \in Views |-> {"install", "rollback", "fix"}]
=============================================================================
