---------------------------- MODULE BulkCleanup ----------------------------
(***************************************************************************)
(* What the bulk deletion of unused destinations promises, whatever the    *)
(* order in which it checks and deletes (README.md, "Deleting unused       *)
(* queues" and "Deleting unused topics").                                  *)
(*                                                                         *)
(* A run deletes only what its user agreed to, only after a reading made   *)
(* since the agreement found it unused, each name at most once, and one at *)
(* a time.  What is not found unused is dropped, and a run may be given up *)
(* between two deletions.  Queue and topic cleanup both implement this.    *)
(***************************************************************************)
CONSTANTS
    Runs,     \* the cleanups that may be under way
    Names,    \* names of destinations
    NoName    \* none of them

VARIABLES
    agreed,   \* per run: the names the user confirmed
    pending,  \* per run: the agreed names not yet decided
    seen,     \* per run: the names the latest reading found unused
    struck,   \* per run: the name whose deletion has been requested
    removed   \* per run: the names the broker removed at its request

cleanupVars == <<agreed, pending, seen, struck, removed>>

CleanupInit ==
    /\ agreed  = [r \in Runs |-> {}]
    /\ pending = [r \in Runs |-> {}]
    /\ seen    = [r \in Runs |-> {}]
    /\ struck  = [r \in Runs |-> NoName]
    /\ removed = [r \in Runs |-> {}]

Idle(r) == pending[r] = {} /\ struck[r] = NoName

\* A decision may use the reading up or keep it for the next name.
KeepOrForget(r) == seen' \in {seen, [seen EXCEPT ![r] = {}]}

\* What an earlier reading found does not count for what is agreed to now.
Agree(r, names) ==
    /\ Idle(r)
    /\ agreed'  = [agreed EXCEPT ![r] = names]
    /\ pending' = [pending EXCEPT ![r] = names]
    /\ removed' = [removed EXCEPT ![r] = {}]
    /\ seen'    = [seen EXCEPT ![r] = {}]
    /\ UNCHANGED struck

Observe(r, unused) ==
    /\ pending[r] # {}
    /\ struck[r] = NoName
    /\ seen' = [seen EXCEPT ![r] = unused]
    /\ UNCHANGED <<agreed, pending, struck, removed>>

\* The deletion under way, if any, has been answered.  The run drops names
\* and goes on to the deletion of n, or to none.
Decide(r, dropped, n) ==
    /\ dropped \subseteq pending[r] \ seen[r]
    /\ n \in (pending[r] \cap seen[r]) \cup {NoName}
    /\ pending' = [pending EXCEPT ![r] = @ \ (dropped \cup {n})]
    /\ struck'  = [struck EXCEPT ![r] = n]
    /\ KeepOrForget(r)
    /\ UNCHANGED <<agreed, removed>>

Remove(r) ==
    /\ struck[r] # NoName
    /\ removed' = [removed EXCEPT ![r] = @ \cup {struck[r]}]
    /\ UNCHANGED <<agreed, pending, seen, struck>>

GiveUp(r) ==
    /\ struck[r] = NoName
    /\ pending' = [pending EXCEPT ![r] = {}]
    /\ seen' = [seen EXCEPT ![r] = {}]
    /\ UNCHANGED <<agreed, struck, removed>>

CleanupStep ==
    \E r \in Runs :
        \/ \E names \in SUBSET Names : Agree(r, names)
        \/ \E unused \in SUBSET Names : Observe(r, unused)
        \/ \E dropped \in SUBSET Names, n \in Names \cup {NoName} :
              Decide(r, dropped, n)
        \/ Remove(r)
        \/ GiveUp(r)

CleanupSpec == CleanupInit /\ [][CleanupStep]_cleanupVars

(***************************************************************************)
(* What follows for the user.                                              *)
(***************************************************************************)

\* All that a run removes, is removing or may still remove was agreed to.
OnlyAgreed ==
    \A r \in Runs :
        /\ removed[r] \cup pending[r] \subseteq agreed[r]
        /\ struck[r] # NoName => struck[r] \in agreed[r]

\* What has been removed, or is being removed, is not to be decided any more.
OnceOnly ==
    \A r \in Runs :
        /\ removed[r] \cap pending[r] = {}
        /\ struck[r] # NoName => struck[r] \notin pending[r]

\* A deletion is requested only of a name that the latest reading found unused,
\* and never of one that the run has removed already.
StruckOnSight ==
    [][\A r \in Runs :
          struck'[r] \notin {NoName, struck[r]} =>
             struck'[r] \in (pending[r] \cap seen[r]) \ removed[r]]_cleanupVars
=============================================================================
