--------------------------- MODULE MCRefreshCycle ---------------------------
(* Bounded instances of RefreshCycle for TLC. *)
EXTENDS RefreshCycle

\* An authentication failure, a refusal, no answer, a broker error, and the
\* proxy's "502 Bad Gateway" with a JSON body.
AllFailures ==
    [status : {401, 403, -1, 500}, object : {FALSE}]
      \cup {[status |-> 502, object |-> TRUE]}
=============================================================================
