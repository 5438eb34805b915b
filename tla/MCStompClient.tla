--------------------------- MODULE MCStompClient ---------------------------
(* Bounded instances of StompClient for TLC. *)
EXTENDS StompClient

\* An operation is refused for its credentials: the only failure of another
\* component that opens or closes the Client tab.
OnlyRefusals == {[status |-> 401, object |-> FALSE]}
=============================================================================
