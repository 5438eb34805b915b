------------------------- MODULE QueueCleanupProofs -------------------------
(***************************************************************************)
(* Proofs about QueueCleanup, for every set of queues, brokers and         *)
(* failures and any number of overlapping runs.                            *)
(*                                                                         *)
(* The report of a run is true because a removal is recorded while its     *)
(* answer is outstanding (Recorded), and because each name is in one       *)
(* place only (Accounted), so that a name that is skipped cannot have been *)
(* deleted before.  A run has a broker to address because the URLs, once   *)
(* prepared, stay prepared (Addressed).  The scopes do not share any of    *)
(* this: a step of one leaves RunInv of the others alone (Elsewhere).      *)
(***************************************************************************)
EXTENDS QueueCleanup, ConsoleSessionProofs

USE NoQueueAssumption, UnsetAssumption

Addressed(v) == phase[v] # "off" => target # Unset

Recorded(v) == phase[v] = "deleting" /\ served[v] => name[v] \in removals[v]

RunInv(v) ==
    /\ AtHand(v)
    /\ Addressed(v)
    /\ Recorded(v)
    /\ TrueReport(v)
    /\ Accounted(v)

\* While the dialog of a single deletion is open, the details can be closed
\* by a run but not moved to another queue.
DetailsStay ==
    single.phase = "confirming" => currentQueue \in {NoQueue, single.asked}

IInv ==
    /\ TypeOK
    /\ Prepared
    /\ \A v \in Visits : RunInv(v)
    /\ SingleDeletesAsked
    /\ DetailsStay

(***************************************************************************)
(* The scopes one by one.                                                  *)
(***************************************************************************)

SameChain(u) ==
    /\ phase'[u] = phase[u]
    /\ todo'[u] = todo[u]
    /\ name'[u] = name[u]
    /\ asked'[u] = asked[u]
    /\ served'[u] = served[u]
    /\ seen'[u] = seen[u]

SameResult(u) ==
    /\ names'[u] = names[u]
    /\ deleted'[u] = deleted[u]
    /\ skipped'[u] = skipped[u]
    /\ failed'[u] = failed[u]
    /\ removals'[u] = removals[u]

\* A scope of which nothing changes keeps its invariant.
LEMMA Elsewhere ==
    ASSUME NEW u \in Visits, RunInv(u), SameChain(u), SameResult(u),
           target # Unset => target' # Unset
    PROVE  RunInv(u)'
<1>1. AtHand(u)' /\ Addressed(u)' /\ Recorded(u)'
  BY DEF RunInv, SameChain, SameResult, AtHand, Addressed, Recorded
<1>2. TrueReport(u)'
  BY DEF RunInv, SameChain, SameResult, TrueReport
<1>3. Accounted(u)'
  BY DEF RunInv, SameChain, SameResult, Accounted, Decided, ToDecide
<1> QED
  BY <1>1, <1>2, <1>3 DEF RunInv

\* A step that concerns one run, and of the screen at most closes the details.
LEMMA RunStepPreserves ==
    ASSUME IInv, NEW v \in Visits,
           SessionTypeOK', Prepared', target # Unset => target' # Unset,
           ScreenTypeOK', ChainTypeOK', ResultTypeOK',
           \A u \in Visits \ {v} : SameChain(u) /\ SameResult(u),
           RunInv(v)',
           currentQueue' \in {currentQueue, NoQueue}, UNCHANGED single
    PROVE  IInv'
<1>1. ASSUME NEW u \in Visits PROVE RunInv(u)'
  <2>1. CASE u = v
    BY <2>1
  <2>2. CASE u # v
    BY <2>2, Elsewhere DEF IInv
  <2> QED
    BY <2>1, <2>2
<1>2. TypeOK'
  BY <1>1 DEF TypeOK, RunInv
<1>3. SingleDeletesAsked' /\ DetailsStay'
  BY DEF IInv, SingleDeletesAsked, DetailsStay
<1> QED
  BY <1>1, <1>2, <1>3 DEF IInv

\* A step that concerns no run.
LEMMA ScreenStepPreserves ==
    ASSUME IInv, UNCHANGED runVars,
           SessionTypeOK', Prepared', target # Unset => target' # Unset,
           ScreenTypeOK', SingleDeletesAsked', DetailsStay'
    PROVE  IInv'
<1>1. ASSUME NEW u \in Visits PROVE RunInv(u)'
  <2>1. SameChain(u) /\ SameResult(u)
    BY DEF SameChain, SameResult, runVars, planVars, requestVars, resultVars
  <2> QED
    BY <2>1, Elsewhere DEF IInv
<1>2. ChainTypeOK' /\ ResultTypeOK'
  BY DEF IInv, TypeOK, ChainTypeOK, ResultTypeOK, runVars, planVars,
         requestVars, resultVars
<1>3. TypeOK'
  BY <1>1, <1>2 DEF TypeOK, RunInv
<1> QED
  BY <1>1, <1>3 DEF IInv

(***************************************************************************)
(* The parts of actions.                                                   *)
(***************************************************************************)

\* Closing a run touches its own scope only.
LEMMA CloseEffect ==
    ASSUME ChainTypeOK, NEW v \in Visits, Close(v)
    PROVE  /\ ChainTypeOK'
           /\ phase'[v] = "off" /\ seen'[v] = {}
           /\ \A u \in Visits \ {v} : SameChain(u)
<1>1. /\ phase' \in [Visits -> Phases]
      /\ todo' \in [Visits -> SUBSET Queues]
      /\ name' \in [Visits -> Queues \cup {NoQueue}]
  BY DEF Close, ChainTypeOK, Phases
<1>2. /\ asked' \in [Visits -> Brokers \cup {Unset}]
      /\ checkedAt' \in [Visits -> Brokers \cup {Unset}]
      /\ served' \in [Visits -> BOOLEAN]
      /\ seen' \in [Visits -> SUBSET Queues]
  BY DEF Close, ChainTypeOK
<1>3. phase'[v] = "off" /\ seen'[v] = {}
  BY DEF Close, ChainTypeOK
<1>4. \A u \in Visits \ {v} : SameChain(u)
  BY DEF Close, ChainTypeOK, SameChain
<1> QED
  BY <1>1, <1>2, <1>3, <1>4 DEF ChainTypeOK

\* A check takes one of the given names and leaves the others to come.
LEMMA CheckEffect ==
    ASSUME ChainTypeOK, NEW v \in Visits, target \in Brokers,
           NEW rest \in SUBSET Queues, NEW q \in rest, Check(v, q, rest)
    PROVE  /\ ChainTypeOK'
           /\ phase'[v] = "checking" /\ name'[v] = q /\ todo'[v] = rest \ {q}
           /\ asked'[v] = target /\ served'[v] = FALSE /\ seen'[v] = {}
           /\ \A u \in Visits \ {v} : SameChain(u)
<1>0. rest \ {q} \in SUBSET Queues /\ q \in Queues
  OBVIOUS
<1>1. /\ phase' \in [Visits -> Phases]
      /\ todo' \in [Visits -> SUBSET Queues]
      /\ name' \in [Visits -> Queues \cup {NoQueue}]
  BY <1>0 DEF Check, ChainTypeOK, Phases
<1>2. /\ asked' \in [Visits -> Brokers \cup {Unset}]
      /\ checkedAt' \in [Visits -> Brokers \cup {Unset}]
      /\ served' \in [Visits -> BOOLEAN]
      /\ seen' \in [Visits -> SUBSET Queues]
  BY DEF Check, Request, ChainTypeOK
<1>3. /\ phase'[v] = "checking" /\ name'[v] = q /\ todo'[v] = rest \ {q}
      /\ asked'[v] = target /\ served'[v] = FALSE /\ seen'[v] = {}
  BY DEF Check, Request, ChainTypeOK
<1>4. \A u \in Visits \ {v} : SameChain(u)
  BY DEF Check, Request, ChainTypeOK, SameChain
<1> QED
  BY <1>1, <1>2, <1>3, <1>4 DEF ChainTypeOK

\* The chain ends, or goes on with one of the names to come.
LEMMA ContinueEffect ==
    ASSUME SessionTypeOK, ChainTypeOK, NEW v \in Visits, target \in Brokers,
           Continue(v)
    PROVE  /\ ChainTypeOK'
           /\ connecting' \in BOOLEAN /\ busy' \in BOOLEAN
           /\ \A u \in Visits \ {v} : SameChain(u)
           /\ seen'[v] = {}
           /\ \/ phase'[v] = "off" /\ todo[v] = {}
              \/ /\ phase'[v] = "checking" /\ name'[v] \in todo[v]
                 /\ todo'[v] = todo[v] \ {name'[v]}
                 /\ asked'[v] = target /\ served'[v] = FALSE
<1>1. CASE todo[v] = {}
  BY <1>1, CloseEffect, RefreshAllTyped DEF Continue
<1>2. CASE todo[v] # {}
  <2>1. PICK q \in todo[v] : Check(v, q, todo[v])
    BY <1>2 DEF Continue
  <2>2. todo[v] \in SUBSET Queues
    BY DEF ChainTypeOK
  <2>3. UNCHANGED <<connecting, busy>>
    BY <1>2 DEF Continue
  <2>4. /\ ChainTypeOK'
        /\ phase'[v] = "checking" /\ name'[v] = q /\ todo'[v] = todo[v] \ {q}
        /\ asked'[v] = target /\ served'[v] = FALSE /\ seen'[v] = {}
        /\ \A u \in Visits \ {v} : SameChain(u)
    BY <2>1, <2>2, CheckEffect
  <2>5. connecting' \in BOOLEAN /\ busy' \in BOOLEAN
    BY <2>3 DEF SessionTypeOK
  <2> QED
    BY <2>4, <2>5
<1> QED
  BY <1>1, <1>2

\* A run that is not at a name and does not take one keeps its invariant.
LEMMA RunUndecided ==
    ASSUME NEW v \in Visits, RunInv(v), SameResult(v),
           phase[v] # "deleting", phase'[v] \notin {"checking", "deleting"},
           phase'[v] # "off" => target' # Unset
    PROVE  RunInv(v)'
<1>1. AtHand(v)' /\ Addressed(v)' /\ Recorded(v)'
  BY DEF AtHand, Addressed, Recorded
<1>2. TrueReport(v)'
  BY DEF RunInv, SameResult, TrueReport
<1>3. Accounted(v)'
  BY DEF RunInv, SameResult, Accounted, Decided
<1> QED
  BY <1>1, <1>2, <1>3 DEF RunInv

\* The name at hand is decided and the chain continues.
LEMMA Decision ==
    ASSUME NEW v \in Visits, RunInv(v), phase[v] \in {"checking", "deleting"},
           target \in Brokers, target' = target, names'[v] = names[v],
           \/ phase'[v] = "off"
           \/ /\ phase'[v] = "checking" /\ name'[v] \in todo[v]
              /\ todo'[v] = todo[v] \ {name'[v]} /\ asked'[v] = target,
           todo[v] \in SUBSET Queues,
           Decided(v)' = Decided(v) \cup {name[v]},
           /\ deleted'[v] \cap skipped'[v] = {}
           /\ deleted'[v] \cap failed'[v] = {}
           /\ skipped'[v] \cap failed'[v] = {},
           TrueReport(v)'
    PROVE  RunInv(v)'
<1>1. AtHand(v)' /\ Addressed(v)' /\ Recorded(v)'
  BY DEF AtHand, Addressed, Recorded
<1>2. /\ names[v] = Decided(v) \cup todo[v] \cup {name[v]}
      /\ Decided(v) \cap (todo[v] \cup {name[v]}) = {}
      /\ name[v] \notin todo[v]
  BY DEF RunInv, Accounted, ToDecide
<1>3. Decided(v)' \subseteq names'[v]
  BY <1>2
<1>4. ASSUME phase'[v] \in {"checking", "deleting"}
      PROVE  /\ names'[v] = Decided(v)' \cup ToDecide(v)'
             /\ Decided(v)' \cap ToDecide(v)' = {}
             /\ name'[v] \notin todo'[v]
  <2>1. name'[v] \in todo[v] /\ todo'[v] = todo[v] \ {name'[v]}
    BY <1>4
  <2>2. ToDecide(v)' = todo[v]
    BY <1>4, <2>1 DEF ToDecide
  <2> QED
    BY <1>2, <2>1, <2>2
<1>5. Accounted(v)'
  BY <1>3, <1>4 DEF Accounted
<1> QED
  BY <1>1, <1>5 DEF RunInv

(***************************************************************************)
(* The steps of a run.                                                     *)
(***************************************************************************)

\* Where every step of a run starts from.
LEMMA RunStart ==
    ASSUME IInv, NEW v \in Visits
    PROVE  /\ SessionTypeOK /\ Prepared /\ ScreenTypeOK
           /\ ChainTypeOK /\ ResultTypeOK /\ RunInv(v)
           /\ phase[v] # "off" => target \in Brokers
  BY DEF IInv, TypeOK, SessionTypeOK, RunInv, Addressed

\* Up to the confirmation nothing is decided.
LEMMA OpeningPreserves ==
    ASSUME IInv, NEW v \in Visits,
           Listed(v) \/ ListingFailed(v) \/ Cancel(v)
    PROVE  IInv'
<1>0. /\ SessionTypeOK /\ Prepared /\ ScreenTypeOK
      /\ ChainTypeOK /\ ResultTypeOK /\ RunInv(v)
      /\ phase[v] \in {"listing", "confirming"} => target \in Brokers
  BY RunStart
<1>1. /\ phase[v] \in {"listing", "confirming"}
      /\ UNCHANGED <<target, queues, visit, currentQueue, names, resultVars,
                     removals, single>>
  BY DEF Listed, ListingFailed, Cancel, sessionVars
<1>2. SessionTypeOK' /\ Prepared'
  <2>1. CASE UNCHANGED sessionVars
    BY <1>0, <2>1 DEF SessionTypeOK, Prepared, OnTabs, sessionVars
  <2>2. CASE ListingFailed(v)
    BY <1>0, <2>2, FailureFrame DEF ListingFailed, SessionTypeOK
  <2> QED
    BY <2>1, <2>2 DEF Listed, Cancel
<1>3. /\ ChainTypeOK'
      /\ phase'[v] \in {"off", "confirming"}
      /\ \A u \in Visits \ {v} : SameChain(u)
  <2>1. CASE Close(v)
    BY <1>0, <2>1, CloseEffect
  <2>2. CASE ~Close(v)
    <3>1. PICK c \in SUBSET Queues :
            /\ phase' = [phase EXCEPT ![v] = "confirming"]
            /\ todo' = [todo EXCEPT ![v] = c]
            /\ UNCHANGED <<name, requestVars>>
      BY <2>2 DEF Listed, ListingFailed, Cancel, Unused
    <3>2. ChainTypeOK'
      BY <1>0, <3>1 DEF ChainTypeOK, Phases, requestVars
    <3>3. phase'[v] = "confirming"
      BY <1>0, <3>1 DEF ChainTypeOK
    <3>4. \A u \in Visits \ {v} : SameChain(u)
      BY <1>0, <3>1 DEF ChainTypeOK, SameChain, requestVars
    <3> QED
      BY <3>2, <3>3, <3>4
  <2> QED
    BY <2>1, <2>2
<1>4. ScreenTypeOK' /\ ResultTypeOK'
  BY <1>0, <1>1 DEF ScreenTypeOK, ResultTypeOK, resultVars
<1>5. \A u \in Visits : SameResult(u)
  BY <1>1 DEF SameResult, resultVars
<1>6. RunInv(v)'
  <2>1. target' # Unset
    BY <1>0, <1>1
  <2>2. phase[v] # "deleting" /\ phase'[v] \notin {"checking", "deleting"}
    BY <1>1, <1>3
  <2> QED
    BY <1>0, <1>5, <2>1, <2>2, RunUndecided
<1> QED
  BY <1>0, <1>1, <1>2, <1>3, <1>4, <1>5, <1>6, RunStepPreserves

\* The confirmation: all names are still to be decided.
LEMMA ConfirmPreserves == ASSUME IInv, NEW v \in Visits, Confirm(v) PROVE IInv'
<1>0. /\ SessionTypeOK /\ Prepared /\ ScreenTypeOK
      /\ ChainTypeOK /\ ResultTypeOK /\ RunInv(v)
      /\ target \in Brokers
  BY RunStart DEF Confirm
<1>1. /\ names' = [names EXCEPT ![v] = todo[v]]
      /\ deleted' = [deleted EXCEPT ![v] = {}]
      /\ skipped' = [skipped EXCEPT ![v] = {}]
      /\ failed' = [failed EXCEPT ![v] = {}]
      /\ removals' = [removals EXCEPT ![v] = {}]
      /\ UNCHANGED <<sessionVars, queues, visit, currentQueue, single>>
  BY DEF Confirm
<1>2. PICK q \in todo[v] : Check(v, q, todo[v])
  BY DEF Confirm
<1>3. todo[v] \in SUBSET Queues
  BY <1>0 DEF ChainTypeOK
<1>4. /\ ChainTypeOK'
      /\ phase'[v] = "checking" /\ name'[v] = q /\ todo'[v] = todo[v] \ {q}
      /\ asked'[v] = target /\ served'[v] = FALSE /\ seen'[v] = {}
      /\ \A u \in Visits \ {v} : SameChain(u)
  BY <1>0, <1>2, <1>3, CheckEffect
<1>5. ResultTypeOK'
  BY <1>0, <1>1, <1>3 DEF ResultTypeOK
<1>6. \A u \in Visits \ {v} : SameResult(u)
  BY <1>0, <1>1 DEF ResultTypeOK, SameResult
<1>7. /\ names'[v] = todo[v] /\ deleted'[v] = {} /\ skipped'[v] = {}
      /\ failed'[v] = {} /\ removals'[v] = {}
  BY <1>0, <1>1 DEF ResultTypeOK
<1>8. /\ SessionTypeOK' /\ Prepared' /\ ScreenTypeOK'
      /\ target' = target /\ UNCHANGED <<currentQueue, single>>
  BY <1>0, <1>1 DEF sessionVars, SessionTypeOK, Prepared, OnTabs, ScreenTypeOK
<1>9. RunInv(v)'
  <2>1. AtHand(v)' /\ Addressed(v)' /\ Recorded(v)' /\ TrueReport(v)'
    BY <1>0, <1>2, <1>3, <1>4, <1>7, <1>8 DEF AtHand, Addressed, Recorded, TrueReport
  <2>2. Decided(v)' = {} /\ ToDecide(v)' = todo[v]
    BY <1>2, <1>4, <1>7 DEF Decided, ToDecide
  <2>3. Accounted(v)'
    BY <1>4, <1>7, <2>2 DEF Accounted
  <2> QED
    BY <2>1, <2>3 DEF RunInv
<1> QED
  BY <1>0, <1>4, <1>5, <1>6, <1>8, <1>9, RunStepPreserves

\* A check that fails: what was decided stands, the rest is left out.
LEMMA CheckFailedPreserves ==
    ASSUME IInv, NEW v \in Visits, CheckFailed(v) PROVE IInv'
<1>0. /\ SessionTypeOK /\ Prepared /\ ScreenTypeOK
      /\ ChainTypeOK /\ ResultTypeOK /\ RunInv(v)
  BY RunStart
<1>1. /\ phase[v] = "checking"
      /\ Close(v) /\ RefreshAll
      /\ UNCHANGED <<target, queues, visit, currentQueue, names, resultVars,
                     removals, single>>
  BY DEF CheckFailed
<1>2. SessionTypeOK' /\ Prepared'
  BY <1>0, <1>1, RefreshAllTyped, FailureFrame DEF CheckFailed
<1>3. /\ ChainTypeOK' /\ phase'[v] = "off"
      /\ \A u \in Visits \ {v} : SameChain(u)
  BY <1>0, <1>1, CloseEffect
<1>4. ScreenTypeOK' /\ ResultTypeOK'
  BY <1>0, <1>1 DEF ScreenTypeOK, ResultTypeOK, resultVars
<1>5. \A u \in Visits : SameResult(u)
  BY <1>1 DEF SameResult, resultVars
<1>6. RunInv(v)'
  BY <1>0, <1>1, <1>3, <1>5, RunUndecided
<1> QED
  BY <1>1, <1>2, <1>3, <1>4, <1>5, <1>6, RunStepPreserves

\* The three ways a name is decided, and the chain continues.
LEMMA DecisionPreserves ==
    ASSUME IInv, NEW v \in Visits,
           CheckedUsed(v) \/ Deleted(v) \/ DeleteFailed(v)
    PROVE  IInv'
<1>0. /\ SessionTypeOK /\ Prepared /\ ScreenTypeOK
      /\ ChainTypeOK /\ ResultTypeOK /\ RunInv(v)
      /\ phase[v] \in {"checking", "deleting"} => target \in Brokers
  BY RunStart
<1>1. /\ phase[v] \in {"checking", "deleting"}
      /\ Continue(v)
      /\ UNCHANGED <<target, queues, visit, names, removals, single>>
  BY DEF CheckedUsed, Deleted, DeleteFailed
<1>2. target \in Brokers
  BY <1>0, <1>1
<1>3. name[v] \in Queues
  BY <1>0, <1>1 DEF RunInv, AtHand
<1>4. /\ ChainTypeOK'
      /\ connecting' \in BOOLEAN /\ busy' \in BOOLEAN
      /\ \A u \in Visits \ {v} : SameChain(u)
      /\ \/ phase'[v] = "off"
         \/ /\ phase'[v] = "checking" /\ name'[v] \in todo[v]
            /\ todo'[v] = todo[v] \ {name'[v]} /\ asked'[v] = target
  BY <1>0, <1>1, <1>2, ContinueEffect
<1>5. SessionTypeOK' /\ Prepared'
  <2>1. CASE UNCHANGED session
    BY <1>0, <1>1, <1>4, <2>1 DEF SessionTypeOK, Prepared, OnTabs
  <2>2. CASE DeleteFailed(v)
    BY <1>0, <1>1, <1>4, <2>2, FailureFrame DEF DeleteFailed
  <2> QED
    BY <2>1, <2>2 DEF CheckedUsed, Deleted
<1>6. currentQueue' \in {currentQueue, NoQueue}
  BY DEF CheckedUsed, Deleted, DeleteFailed
<1>7. ScreenTypeOK'
  BY <1>0, <1>1, <1>6 DEF ScreenTypeOK
<1>8. /\ name[v] \notin deleted[v] \cup skipped[v] \cup failed[v]
      /\ deleted[v] \cap skipped[v] = {}
      /\ deleted[v] \cap failed[v] = {}
      /\ skipped[v] \cap failed[v] = {}
  BY <1>0, <1>1 DEF RunInv, Accounted, Decided, ToDecide
<1>9. /\ deleted[v] \subseteq removals[v]
      /\ skipped[v] \cap removals[v] = {}
      /\ removals[v] \subseteq deleted[v] \cup failed[v]
            \cup (IF phase[v] = "deleting" THEN {name[v]} ELSE {})
  BY <1>0 DEF RunInv, TrueReport
<1>10. CASE CheckedUsed(v)
  <2>1. /\ skipped' = [skipped EXCEPT ![v] = @ \cup {name[v]}]
        /\ UNCHANGED <<names, deleted, failed, removals>>
        /\ phase[v] = "checking"
    BY <1>10 DEF CheckedUsed
  <2>2. /\ ResultTypeOK'
        /\ skipped'[v] = skipped[v] \cup {name[v]}
        /\ \A u \in Visits \ {v} : SameResult(u)
    BY <1>0, <1>3, <2>1 DEF ResultTypeOK, SameResult
  <2>3. TrueReport(v)'
    BY <1>4, <1>8, <1>9, <2>1, <2>2 DEF TrueReport
  <2>4. /\ Decided(v)' = Decided(v) \cup {name[v]}
        /\ deleted'[v] \cap skipped'[v] = {}
        /\ deleted'[v] \cap failed'[v] = {}
        /\ skipped'[v] \cap failed'[v] = {}
    BY <1>8, <2>1, <2>2 DEF Decided
  <2>5. RunInv(v)'
    BY <1>0, <1>1, <1>2, <1>4, <2>3, <2>4, Decision DEF ChainTypeOK
  <2> QED
    BY <1>1, <1>4, <1>5, <1>6, <1>7, <2>2, <2>5, RunStepPreserves
<1>11. CASE Deleted(v)
  <2>1. /\ deleted' = [deleted EXCEPT ![v] = @ \cup {name[v]}]
        /\ UNCHANGED <<names, skipped, failed, removals>>
        /\ phase[v] = "deleting" /\ served[v]
    BY <1>11 DEF Deleted
  <2>2. /\ ResultTypeOK'
        /\ deleted'[v] = deleted[v] \cup {name[v]}
        /\ \A u \in Visits \ {v} : SameResult(u)
    BY <1>0, <1>3, <2>1 DEF ResultTypeOK, SameResult
  <2>3. name[v] \in removals[v]
    BY <1>0, <2>1 DEF RunInv, Recorded
  <2>4. TrueReport(v)'
    BY <1>4, <1>9, <2>1, <2>2, <2>3 DEF TrueReport
  <2>5. /\ Decided(v)' = Decided(v) \cup {name[v]}
        /\ deleted'[v] \cap skipped'[v] = {}
        /\ deleted'[v] \cap failed'[v] = {}
        /\ skipped'[v] \cap failed'[v] = {}
    BY <1>8, <2>1, <2>2 DEF Decided
  <2>6. RunInv(v)'
    BY <1>0, <1>1, <1>2, <1>4, <2>4, <2>5, Decision DEF ChainTypeOK
  <2> QED
    BY <1>1, <1>4, <1>5, <1>6, <1>7, <2>2, <2>6, RunStepPreserves
<1>12. CASE DeleteFailed(v)
  <2>1. /\ failed' = [failed EXCEPT ![v] = @ \cup {name[v]}]
        /\ UNCHANGED <<names, deleted, skipped, removals>>
        /\ phase[v] = "deleting"
    BY <1>12 DEF DeleteFailed
  <2>2. /\ ResultTypeOK'
        /\ failed'[v] = failed[v] \cup {name[v]}
        /\ \A u \in Visits \ {v} : SameResult(u)
    BY <1>0, <1>3, <2>1 DEF ResultTypeOK, SameResult
  <2>3. TrueReport(v)'
    BY <1>4, <1>9, <2>1, <2>2 DEF TrueReport
  <2>4. /\ Decided(v)' = Decided(v) \cup {name[v]}
        /\ deleted'[v] \cap skipped'[v] = {}
        /\ deleted'[v] \cap failed'[v] = {}
        /\ skipped'[v] \cap failed'[v] = {}
    BY <1>8, <2>1, <2>2 DEF Decided
  <2>5. RunInv(v)'
    BY <1>0, <1>1, <1>2, <1>4, <2>3, <2>4, Decision DEF ChainTypeOK
  <2> QED
    BY <1>1, <1>4, <1>5, <1>6, <1>7, <2>2, <2>5, RunStepPreserves
<1> QED
  BY <1>10, <1>11, <1>12

\* Still unused: the deletion of the name at hand is requested.
LEMMA CheckedUnusedPreserves ==
    ASSUME IInv, NEW v \in Visits, CheckedUnused(v) PROVE IInv'
<1>0. /\ SessionTypeOK /\ Prepared /\ ScreenTypeOK
      /\ ChainTypeOK /\ ResultTypeOK /\ RunInv(v)
      /\ target \in Brokers
  BY RunStart DEF CheckedUnused
<1>1. /\ phase[v] = "checking"
      /\ phase' = [phase EXCEPT ![v] = "deleting"]
      /\ asked' = [asked EXCEPT ![v] = target]
      /\ served' = [served EXCEPT ![v] = FALSE]
      /\ UNCHANGED <<sessionVars, queues, visit, currentQueue, names, todo, name,
                     checkedAt, seen, resultVars, removals, single>>
  BY DEF CheckedUnused, Request
<1>2. /\ ChainTypeOK'
      /\ phase'[v] = "deleting" /\ asked'[v] = target /\ served'[v] = FALSE
      /\ \A u \in Visits \ {v} : SameChain(u)
  BY <1>0, <1>1 DEF ChainTypeOK, Phases, SameChain
<1>3. ResultTypeOK' /\ \A u \in Visits : SameResult(u)
  BY <1>0, <1>1 DEF ResultTypeOK, SameResult, resultVars
<1>4. /\ SessionTypeOK' /\ Prepared' /\ ScreenTypeOK'
      /\ UNCHANGED <<target, currentQueue, single>>
  BY <1>0, <1>1 DEF sessionVars, SessionTypeOK, Prepared, OnTabs, ScreenTypeOK
<1>5. RunInv(v)'
  <2>1. AtHand(v)' /\ Addressed(v)' /\ Recorded(v)'
    BY <1>0, <1>1, <1>2 DEF RunInv, AtHand, Addressed, Recorded, sessionVars
  <2>2. TrueReport(v)'
    BY <1>0, <1>1, <1>2 DEF RunInv, TrueReport, resultVars
  <2>3. Accounted(v)'
    BY <1>0, <1>1, <1>2 DEF RunInv, Accounted, Decided, ToDecide, resultVars
  <2> QED
    BY <2>1, <2>2, <2>3 DEF RunInv
<1> QED
  BY <1>2, <1>3, <1>4, <1>5, RunStepPreserves

\* The broker answers a check, or removes the queue of a deletion.
LEMMA ServePreserves == ASSUME IInv, NEW v \in Visits, Serve(v) PROVE IInv'
<1>0. /\ SessionTypeOK /\ Prepared /\ ScreenTypeOK
      /\ ChainTypeOK /\ ResultTypeOK /\ RunInv(v)
  BY RunStart
<1>1. /\ phase[v] \in {"checking", "deleting"}
      /\ served' = [served EXCEPT ![v] = TRUE]
      /\ UNCHANGED <<sessionVars, visit, currentQueue, planVars, asked,
                     checkedAt, resultVars, single>>
  BY DEF Serve, ServeCheck, ServeDelete
<1>2. SessionTypeOK' /\ Prepared' /\ UNCHANGED <<target, currentQueue, single>>
  BY <1>0, <1>1 DEF sessionVars, SessionTypeOK, Prepared, OnTabs
<1>3. CASE ServeCheck(v)
  <2>1. /\ phase[v] = "checking"
        /\ seen' = [seen EXCEPT ![v] = Unused(asked[v])]
        /\ UNCHANGED <<queues, removals>>
    BY <1>3 DEF ServeCheck
  <2>2. /\ ChainTypeOK'
        /\ phase'[v] = "checking"
        /\ \A u \in Visits \ {v} : SameChain(u)
    BY <1>0, <1>1, <2>1 DEF ChainTypeOK, SameChain, Unused, planVars
  <2>3. /\ ResultTypeOK' /\ ScreenTypeOK'
        /\ \A u \in Visits : SameResult(u)
    BY <1>0, <1>1, <2>1 DEF ResultTypeOK, SameResult, ScreenTypeOK, resultVars, planVars
  <2>4. RunInv(v)'
    <3>1. AtHand(v)' /\ Addressed(v)' /\ Recorded(v)'
      BY <1>0, <1>1, <2>1, <2>2 DEF RunInv, AtHand, Addressed, Recorded, sessionVars, planVars
    <3>2. TrueReport(v)'
      BY <1>0, <1>1, <2>1, <2>2 DEF RunInv, TrueReport, resultVars, planVars
    <3>3. Accounted(v)'
      BY <1>0, <1>1, <2>1, <2>2 DEF RunInv, Accounted, Decided, ToDecide, resultVars, planVars
    <3> QED
      BY <3>1, <3>2, <3>3 DEF RunInv
  <2> QED
    BY <1>2, <2>2, <2>3, <2>4, RunStepPreserves
<1>4. CASE ServeDelete(v)
  <2>1. /\ phase[v] = "deleting"
        /\ queues' = Removed(asked[v], name[v])
        /\ removals' = [removals EXCEPT ![v] = @ \cup {name[v]}]
        /\ UNCHANGED seen
    BY <1>4 DEF ServeDelete
  <2>2. name[v] \in Queues /\ asked[v] \in Brokers
    BY <1>0, <1>1 DEF RunInv, AtHand
  <2>3. /\ ChainTypeOK'
        /\ phase'[v] = "deleting"
        /\ \A u \in Visits \ {v} : SameChain(u)
    BY <1>0, <1>1, <2>1 DEF ChainTypeOK, SameChain, planVars
  <2>4. /\ ResultTypeOK'
        /\ removals'[v] = removals[v] \cup {name[v]}
        /\ \A u \in Visits \ {v} : SameResult(u)
    BY <1>0, <1>1, <2>1, <2>2 DEF ResultTypeOK, SameResult, resultVars, planVars
  <2>5. ScreenTypeOK'
    BY <1>0, <1>1, <2>1, <2>2 DEF ScreenTypeOK, Removed
  <2>6. RunInv(v)'
    <3>1. AtHand(v)' /\ Addressed(v)' /\ Recorded(v)'
      BY <1>0, <1>1, <2>1, <2>3, <2>4 DEF RunInv, AtHand, Addressed, Recorded, sessionVars, planVars
    <3>2. name[v] \notin skipped[v]
      BY <1>0, <2>1 DEF RunInv, Accounted, Decided, ToDecide
    <3>3. TrueReport(v)'
      BY <1>0, <1>1, <2>1, <2>3, <2>4, <3>2 DEF RunInv, TrueReport, resultVars, planVars
    <3>4. Accounted(v)'
      BY <1>0, <1>1, <2>1, <2>3 DEF RunInv, Accounted, Decided, ToDecide, resultVars, planVars
    <3> QED
      BY <3>1, <3>3, <3>4 DEF RunInv
  <2> QED
    BY <1>2, <2>3, <2>4, <2>5, <2>6, RunStepPreserves
<1> QED
  BY <1>3, <1>4 DEF Serve

\* A run is started only where there is a broker to address.
LEMMA StartRunPreserves == ASSUME IInv, StartRun PROVE IInv'
<1>0. PICK v \in Visits : v = visit
  BY DEF IInv, TypeOK, ScreenTypeOK
<1>1. /\ SessionTypeOK /\ Prepared /\ ScreenTypeOK
      /\ ChainTypeOK /\ ResultTypeOK /\ RunInv(v)
  BY RunStart
<1>2. /\ OnTabs /\ phase[v] = "off"
      /\ phase' = [phase EXCEPT ![v] = "listing"]
      /\ asked' = [asked EXCEPT ![v] = target]
      /\ served' = [served EXCEPT ![v] = FALSE]
      /\ UNCHANGED <<sessionVars, queues, visit, currentQueue, names, todo, name,
                     checkedAt, seen, resultVars, removals, single>>
  BY <1>0 DEF StartRun, UserCanAct, deletingUnusedQueues, Request
<1>3. target \in Brokers
  BY <1>1, <1>2 DEF Prepared, SessionTypeOK
<1>4. /\ ChainTypeOK'
      /\ phase'[v] = "listing"
      /\ \A u \in Visits \ {v} : SameChain(u)
  BY <1>1, <1>2, <1>3 DEF ChainTypeOK, Phases, SameChain
<1>5. /\ ResultTypeOK' /\ ScreenTypeOK'
      /\ \A u \in Visits : SameResult(u)
  BY <1>1, <1>2 DEF ResultTypeOK, ScreenTypeOK, SameResult, resultVars
<1>6. /\ SessionTypeOK' /\ Prepared'
      /\ UNCHANGED <<target, currentQueue, single>>
  BY <1>1, <1>2 DEF sessionVars, SessionTypeOK, Prepared, OnTabs
<1>7. RunInv(v)'
  <2>1. target' # Unset
    BY <1>3, <1>6
  <2>2. phase[v] # "deleting" /\ phase'[v] \notin {"checking", "deleting"}
    BY <1>2, <1>4
  <2> QED
    BY <1>1, <1>5, <2>1, <2>2, RunUndecided
<1> QED
  BY <1>4, <1>5, <1>6, <1>7, RunStepPreserves

(***************************************************************************)
(* The steps of the screen, the session and the brokers.                   *)
(***************************************************************************)

\* A removal leaves the record of the queues well-formed.
LEMMA RemovedTyped ==
    ASSUME ScreenTypeOK, NEW b, NEW q
    PROVE  Removed(b, q) \in [Brokers -> [Queues -> {"absent", "unused", "used"}]]
  BY DEF ScreenTypeOK, Removed

\* The single deletion: the name it posts is the one its dialog showed.
LEMMA SinglePreserves == ASSUME IInv, Single PROVE IInv'
<1>0. /\ SessionTypeOK /\ Prepared /\ ScreenTypeOK
      /\ SingleDeletesAsked /\ DetailsStay
      /\ target \in Brokers \cup {Unset}
  BY DEF IInv, TypeOK, SessionTypeOK
<1> DEFINE SingleType == [phase : {"off", "confirming", "deleting"},
                          asked : Queues \cup {NoQueue},
                          name : Queues \cup {NoQueue},
                          to : Brokers \cup {Unset},
                          served : BOOLEAN]
<1>1. single \in SingleType /\ NoSingle \in SingleType /\ NoSingle.phase = "off"
  BY <1>0 DEF ScreenTypeOK, NoSingle
<1>2. CASE DeleteQueue
  <2>1. /\ currentQueue \in Queues
        /\ single' = [NoSingle EXCEPT !.phase = "confirming", !.asked = currentQueue]
        /\ UNCHANGED <<sessionVars, queues, visit, currentQueue, runVars>>
    BY <1>0, <1>2 DEF DeleteQueue, ScreenTypeOK
  <2>2. /\ single' \in SingleType
        /\ single'.phase = "confirming" /\ single'.asked = currentQueue
    BY <1>1, <2>1
  <2>3. ScreenTypeOK' /\ SingleDeletesAsked' /\ DetailsStay'
    BY <1>0, <2>1, <2>2 DEF ScreenTypeOK, SingleDeletesAsked, DetailsStay
  <2>4. SessionTypeOK' /\ Prepared' /\ target' = target
    BY <1>0, <2>1 DEF sessionVars, SessionTypeOK, Prepared, OnTabs
  <2> QED
    BY <2>1, <2>3, <2>4, ScreenStepPreserves
<1>3. CASE ConfirmSingle
  <2>1. /\ single.phase = "confirming"
        /\ UNCHANGED <<sessionVars, queues, visit, currentQueue, runVars>>
    BY <1>3 DEF ConfirmSingle
  <2>2. /\ single' \in SingleType
        /\ single'.phase # "confirming"
        /\ single'.phase = "deleting" => single'.name = single'.asked
    <3>1. CASE currentQueue = NoQueue
      <4>1. single' = NoSingle
        BY <1>3, <3>1 DEF ConfirmSingle
      <4> QED BY <1>1, <4>1
    <3>2. CASE currentQueue # NoQueue
      <4>1. single' = [single EXCEPT !.phase = "deleting",
                                     !.name = currentQueue, !.to = target]
        BY <1>3, <3>2 DEF ConfirmSingle
      <4>2. currentQueue = single.asked /\ currentQueue \in Queues
        BY <1>0, <2>1, <3>2 DEF DetailsStay, ScreenTypeOK
      <4> QED BY <1>0, <1>1, <4>1, <4>2
    <3> QED
      BY <3>1, <3>2
  <2>3. ScreenTypeOK' /\ SingleDeletesAsked' /\ DetailsStay'
    BY <1>0, <2>1, <2>2 DEF ScreenTypeOK, SingleDeletesAsked, DetailsStay
  <2>4. SessionTypeOK' /\ Prepared' /\ target' = target
    BY <1>0, <2>1 DEF sessionVars, SessionTypeOK, Prepared, OnTabs
  <2> QED
    BY <2>1, <2>3, <2>4, ScreenStepPreserves
<1>4. CASE CancelSingle
  <2>1. /\ single' = NoSingle
        /\ UNCHANGED <<sessionVars, queues, visit, currentQueue, runVars>>
    BY <1>4 DEF CancelSingle
  <2>2. ScreenTypeOK' /\ SingleDeletesAsked' /\ DetailsStay'
    BY <1>0, <1>1, <2>1 DEF ScreenTypeOK, SingleDeletesAsked, DetailsStay
  <2>3. SessionTypeOK' /\ Prepared' /\ target' = target
    BY <1>0, <2>1 DEF sessionVars, SessionTypeOK, Prepared, OnTabs
  <2> QED
    BY <2>1, <2>2, <2>3, ScreenStepPreserves
<1>5. CASE ServeSingle
  <2>1. /\ single.phase = "deleting"
        /\ single' = [single EXCEPT !.served = TRUE]
        /\ queues' = Removed(single.to, single.name)
        /\ UNCHANGED <<sessionVars, visit, currentQueue, runVars>>
    BY <1>5 DEF ServeSingle
  <2>2. /\ single' \in SingleType /\ single'.phase = "deleting"
        /\ single'.name = single.name /\ single'.asked = single.asked
    BY <1>1, <2>1
  <2>3. queues' \in [Brokers -> [Queues -> {"absent", "unused", "used"}]]
    BY <1>0, <2>1, RemovedTyped
  <2>4. ScreenTypeOK' /\ SingleDeletesAsked' /\ DetailsStay'
    BY <1>0, <2>1, <2>2, <2>3 DEF ScreenTypeOK, SingleDeletesAsked, DetailsStay
  <2>5. SessionTypeOK' /\ Prepared' /\ target' = target
    BY <1>0, <2>1 DEF sessionVars, SessionTypeOK, Prepared, OnTabs
  <2> QED
    BY <2>1, <2>4, <2>5, ScreenStepPreserves
<1>6. CASE SingleDeleted
  <2>1. /\ single' = NoSingle /\ currentQueue' = NoQueue /\ RefreshAll
        /\ UNCHANGED <<target, session, queues, visit, runVars>>
    BY <1>6 DEF SingleDeleted
  <2>2. ScreenTypeOK' /\ SingleDeletesAsked' /\ DetailsStay'
    BY <1>0, <1>1, <2>1 DEF ScreenTypeOK, SingleDeletesAsked, DetailsStay
  <2>3. SessionTypeOK' /\ Prepared' /\ target' = target
    BY <1>0, <2>1, RefreshAllTyped DEF SessionTypeOK, Prepared, OnTabs
  <2> QED
    BY <2>1, <2>2, <2>3, ScreenStepPreserves
<1>7. CASE SingleFailed
  <2>1. /\ single' = NoSingle
        /\ UNCHANGED <<target, connecting, busy, queues, visit, currentQueue, runVars>>
    BY <1>7 DEF SingleFailed
  <2>2. ScreenTypeOK' /\ SingleDeletesAsked' /\ DetailsStay'
    BY <1>0, <1>1, <2>1 DEF ScreenTypeOK, SingleDeletesAsked, DetailsStay
  <2>3. SessionTypeOK' /\ Prepared' /\ target' = target
    BY <1>0, <1>7, FailureFrame DEF SingleFailed, SessionTypeOK
  <2> QED
    BY <2>1, <2>2, <2>3, ScreenStepPreserves
<1> QED
  BY <1>2, <1>3, <1>4, <1>5, <1>6, <1>7 DEF Single

\* Clicks, the session's own steps, and whatever happens on the brokers.
LEMMA SurroundingsPreserve ==
    ASSUME IInv,
           \/ ConsoleStep
           \/ \E q \in Queues \cup {NoQueue} : ShowQueueDetails(q)
           \/ Revisit
           \/ \E b \in Brokers, q \in Queues, state \in {"absent", "unused", "used"} :
                 BrokerActivity(b, q, state)
    PROVE  IInv'
<1>0. /\ SessionTypeOK /\ Prepared /\ ScreenTypeOK
      /\ SingleDeletesAsked /\ DetailsStay
  BY DEF IInv, TypeOK
<1>1. CASE ConsoleStep
  <2>1. /\ SessionStep
        /\ UNCHANGED <<queues, visit, currentQueue, runVars, single>>
    BY <1>1 DEF ConsoleStep, Clicked, SessionStep
  <2>2. SessionTypeOK' /\ Prepared' /\ (target # Unset => target' # Unset)
    BY <1>0, <2>1, SessionStepEffect
  <2>3. ScreenTypeOK' /\ SingleDeletesAsked' /\ DetailsStay'
    BY <1>0, <2>1 DEF ScreenTypeOK, SingleDeletesAsked, DetailsStay
  <2> QED
    BY <2>1, <2>2, <2>3, ScreenStepPreserves
<1>2. ASSUME NEW q \in Queues \cup {NoQueue}, ShowQueueDetails(q) PROVE IInv'
  <2>1. /\ single.phase # "confirming" /\ currentQueue' = q
        /\ UNCHANGED <<sessionVars, queues, visit, runVars, single>>
    BY <1>2 DEF ShowQueueDetails, UserCanAct, DialogOpen
  <2>2. ScreenTypeOK' /\ SingleDeletesAsked' /\ DetailsStay'
    BY <1>0, <2>1 DEF ScreenTypeOK, SingleDeletesAsked, DetailsStay
  <2>3. SessionTypeOK' /\ Prepared' /\ target' = target
    BY <1>0, <2>1 DEF sessionVars, SessionTypeOK, Prepared, OnTabs
  <2> QED
    BY <2>1, <2>2, <2>3, ScreenStepPreserves
<1>3. CASE Revisit
  <2>1. /\ visit < MaxVisits /\ visit' = visit + 1
        /\ UNCHANGED <<sessionVars, queues, currentQueue, runVars, single>>
    BY <1>3 DEF Revisit
  <2>2. visit' \in Visits
    BY <1>0, <2>1, MaxVisitsAssumption DEF ScreenTypeOK, Visits
  <2>3. ScreenTypeOK' /\ SingleDeletesAsked' /\ DetailsStay'
    BY <1>0, <2>1, <2>2 DEF ScreenTypeOK, SingleDeletesAsked, DetailsStay
  <2>4. SessionTypeOK' /\ Prepared' /\ target' = target
    BY <1>0, <2>1 DEF sessionVars, SessionTypeOK, Prepared, OnTabs
  <2> QED
    BY <2>1, <2>3, <2>4, ScreenStepPreserves
<1>4. ASSUME NEW b \in Brokers, NEW q \in Queues,
             NEW state \in {"absent", "unused", "used"},
             BrokerActivity(b, q, state)
      PROVE  IInv'
  <2>1. /\ queues' = [queues EXCEPT ![b][q] = state]
        /\ UNCHANGED <<sessionVars, visit, currentQueue, runVars, single>>
    BY <1>4 DEF BrokerActivity
  <2>2. queues' \in [Brokers -> [Queues -> {"absent", "unused", "used"}]]
    BY <1>0, <2>1 DEF ScreenTypeOK
  <2>3. ScreenTypeOK' /\ SingleDeletesAsked' /\ DetailsStay'
    BY <1>0, <2>1, <2>2 DEF ScreenTypeOK, SingleDeletesAsked, DetailsStay
  <2>4. SessionTypeOK' /\ Prepared' /\ target' = target
    BY <1>0, <2>1 DEF sessionVars, SessionTypeOK, Prepared, OnTabs
  <2> QED
    BY <2>1, <2>3, <2>4, ScreenStepPreserves
<1> QED
  BY <1>1, <1>2, <1>3, <1>4

(***************************************************************************)
(* The theorems.                                                           *)
(***************************************************************************)

\* The console starts with no run, no dialog and no broker.
THEOREM InitIInv == Init => IInv
<1> SUFFICES ASSUME Init PROVE IInv
  OBVIOUS
<1>1. SessionTypeOK /\ Prepared
  <2>1. session \in Session /\ ~session.connected
    BY DEF Init, SessionInit, Session
  <2> QED
    BY <2>1 DEF Init, SessionInit, SessionTypeOK, Prepared, OnTabs
<1>2. ScreenTypeOK
  BY MaxVisitsAssumption DEF Init, ScreenTypeOK, Visits, NoSingle
<1>3. ChainTypeOK
  BY DEF Init, ChainTypeOK, Phases
<1>4. ResultTypeOK
  BY DEF Init, ResultTypeOK
<1>5. ASSUME NEW v \in Visits PROVE RunInv(v)
  BY DEF Init, RunInv, AtHand, Addressed, Recorded, TrueReport, Accounted,
         Decided, ToDecide
<1>6. SingleDeletesAsked /\ DetailsStay
  BY DEF Init, NoSingle, SingleDeletesAsked, DetailsStay
<1> QED
  BY <1>1, <1>2, <1>3, <1>4, <1>5, <1>6 DEF IInv, TypeOK, RunInv

\* Every step keeps the invariant.
THEOREM NextIInv == IInv /\ [Next]_vars => IInv'
<1> SUFFICES ASSUME IInv, [Next]_vars PROVE IInv'
  OBVIOUS
<1>1. CASE StartRun
  BY <1>1, StartRunPreserves
<1>2. ASSUME NEW v \in Visits, Proceed(v) PROVE IInv'
  BY <1>2, OpeningPreserves, ConfirmPreserves, CheckFailedPreserves,
     DecisionPreserves, CheckedUnusedPreserves DEF Proceed
<1>3. ASSUME NEW v \in Visits, Serve(v) PROVE IInv'
  BY <1>3, ServePreserves
<1>4. CASE Single
  BY <1>4, SinglePreserves
<1>5. CASE UNCHANGED vars
  <2>1. /\ SessionTypeOK' /\ Prepared' /\ ScreenTypeOK'
        /\ SingleDeletesAsked' /\ DetailsStay'
    BY <1>5 DEF vars, sessionVars, IInv, TypeOK, SessionTypeOK, Prepared, OnTabs,
       ScreenTypeOK, SingleDeletesAsked, DetailsStay
  <2> QED
    BY <1>5, <2>1, ScreenStepPreserves DEF vars, sessionVars
<1> QED
  BY <1>1, <1>2, <1>3, <1>4, <1>5, SurroundingsPreserve DEF Next

\* Type correctness of the deletions, for all queues, brokers and failures.
THEOREM TypeCorrect == Spec => []TypeOK
<1>1. IInv => TypeOK
  BY DEF IInv
<1> QED
  BY InitIInv, NextIInv, <1>1, PTL DEF Spec

\* What a run reports is what happened, whatever was lost or failed and
\* however many runs overlap.
THEOREM ReportsAreTrue == Spec => []ReportIsTrue
<1>1. IInv => ReportIsTrue
  BY DEF IInv, RunInv, ReportIsTrue
<1> QED
  BY InitIInv, NextIInv, <1>1, PTL DEF Spec

\* No name is lost, decided twice or brought in by a run.
THEOREM NamesAccountedFor == Spec => []EachNameOnce
<1>1. IInv => EachNameOnce
  BY DEF IInv, RunInv, EachNameOnce
<1> QED
  BY InitIInv, NextIInv, <1>1, PTL DEF Spec

\* A single deletion posts the name that its user was asked about.
THEOREM SingleAsAsked == Spec => []SingleDeletesAsked
<1>1. IInv => SingleDeletesAsked
  BY DEF IInv
<1> QED
  BY InitIInv, NextIInv, <1>1, PTL DEF Spec

(***************************************************************************)
(* QueueCleanup implements BulkCleanup.                                    *)
(***************************************************************************)

\* What BulkCleanup sees of a step that concerns one run.
LEMMA Abstraction ==
    ASSUME NEW v \in Visits, \A u \in Visits \ {v} : SameChain(u)
    PROVE  /\ Pending' = [Pending EXCEPT ![v] = PendingOf(v)']
           /\ SeenNow' = [SeenNow EXCEPT ![v] = SeenOf(v)']
           /\ Struck' = [Struck EXCEPT ![v] = StruckOf(v)']
           /\ Pending[v] = PendingOf(v)
           /\ SeenNow[v] = SeenOf(v)
           /\ Struck[v] = StruckOf(v)
<1>1. ASSUME NEW u \in Visits \ {v}
      PROVE  PendingOf(u)' = PendingOf(u) /\ SeenOf(u)' = SeenOf(u) /\ StruckOf(u)' = StruckOf(u)
  BY DEF SameChain, PendingOf, SeenOf, StruckOf
<1>2. Pending' = [Pending EXCEPT ![v] = PendingOf(v)']
  BY <1>1 DEF Pending
<1>3. SeenNow' = [SeenNow EXCEPT ![v] = SeenOf(v)']
  BY <1>1 DEF SeenNow
<1>4. Struck' = [Struck EXCEPT ![v] = StruckOf(v)']
  BY <1>1 DEF Struck
<1> QED
  BY <1>2, <1>3, <1>4 DEF Pending, SeenNow, Struck

\* A step that neither decides nor agrees is not seen at all.
LEMMA Unseen ==
    ASSUME NEW v \in Visits, \A u \in Visits \ {v} : SameChain(u),
           phase[v] \notin {"checking", "deleting"},
           phase'[v] \notin {"checking", "deleting"},
           UNCHANGED <<names, removals>>
    PROVE  UNCHANGED Cleanup!cleanupVars
<1>1. /\ PendingOf(v)' = PendingOf(v) /\ SeenOf(v)' = SeenOf(v)
      /\ StruckOf(v)' = StruckOf(v)
  BY DEF PendingOf, SeenOf, StruckOf
<1>2. Pending' = Pending /\ SeenNow' = SeenNow /\ Struck' = Struck
  BY <1>1, Abstraction DEF Pending, SeenNow, Struck
<1> QED
  BY <1>2 DEF Cleanup!cleanupVars

\* Nor is anything that leaves the runs alone.
LEMMA UnseenSurroundings ==
    ASSUME UNCHANGED runVars PROVE UNCHANGED Cleanup!cleanupVars
<1>1. ASSUME NEW v \in Visits
      PROVE  PendingOf(v)' = PendingOf(v) /\ SeenOf(v)' = SeenOf(v) /\ StruckOf(v)' = StruckOf(v)
  BY DEF PendingOf, SeenOf, StruckOf, runVars, planVars, requestVars
<1>2. Pending' = Pending /\ SeenNow' = SeenNow /\ Struck' = Struck
  BY <1>1 DEF Pending, SeenNow, Struck
<1> QED
  BY <1>2 DEF Cleanup!cleanupVars, runVars, planVars

\* The confirmation is the agreement.
LEMMA ConfirmAgrees ==
    ASSUME IInv, NEW v \in Visits, Confirm(v)
    PROVE  Cleanup!Agree(v, todo[v])
<1>0. /\ ChainTypeOK /\ ResultTypeOK /\ phase[v] = "confirming" /\ target \in Brokers
  BY RunStart DEF Confirm
<1>1. PICK q \in todo[v] : Check(v, q, todo[v])
  BY DEF Confirm
<1>2. /\ names' = [names EXCEPT ![v] = todo[v]]
      /\ removals' = [removals EXCEPT ![v] = {}]
  BY DEF Confirm
<1>3. todo[v] \in SUBSET Queues
  BY <1>0 DEF ChainTypeOK
<1>4. /\ ChainTypeOK'
      /\ phase'[v] = "checking" /\ name'[v] = q /\ todo'[v] = todo[v] \ {q}
      /\ asked'[v] = target /\ served'[v] = FALSE /\ seen'[v] = {}
      /\ \A u \in Visits \ {v} : SameChain(u)
  BY <1>0, <1>1, <1>3, CheckEffect
<1>5. /\ PendingOf(v) = {} /\ PendingOf(v)' = todo[v]
      /\ SeenOf(v)' = {}
      /\ StruckOf(v) = NoQueue /\ StruckOf(v)' = NoQueue
  BY <1>0, <1>1, <1>4 DEF PendingOf, SeenOf, StruckOf
<1>6. /\ Pending' = [Pending EXCEPT ![v] = todo[v]]
      /\ SeenNow' = [SeenNow EXCEPT ![v] = {}]
      /\ Struck' = [Struck EXCEPT ![v] = Struck[v]]
      /\ Pending[v] = {} /\ Struck[v] = NoQueue
  BY <1>4, <1>5, Abstraction
<1>7. Struck' = Struck
  BY <1>6 DEF Struck
<1> QED
  BY <1>2, <1>6, <1>7 DEF Cleanup!Agree, Cleanup!Idle

\* A check is an observation, a removal by the broker a removal.
LEMMA ServeImplements ==
    ASSUME IInv, NEW v \in Visits, Serve(v)
    PROVE  Cleanup!CleanupStep
<1>0. ChainTypeOK /\ RunInv(v)
  BY RunStart
<1>1. /\ served' = [served EXCEPT ![v] = TRUE]
      /\ UNCHANGED <<phase, names, todo, name, asked>>
  BY DEF Serve, ServeCheck, ServeDelete, planVars
<1>2. CASE ServeCheck(v)
  <2> DEFINE unused == Unused(asked[v])
  <2>1. /\ phase[v] = "checking"
        /\ seen' = [seen EXCEPT ![v] = unused]
        /\ UNCHANGED removals
    BY <1>2 DEF ServeCheck
  <2>2. unused \in SUBSET Queues
    BY DEF Unused
  <2>3. \A u \in Visits \ {v} : SameChain(u)
    BY <1>0, <1>1, <2>1 DEF ChainTypeOK, SameChain
  <2>4. /\ PendingOf(v) = todo[v] \cup {name[v]} /\ PendingOf(v)' = PendingOf(v)
        /\ StruckOf(v) = NoQueue /\ StruckOf(v)' = StruckOf(v)
        /\ SeenOf(v)' = unused
    <3> HIDE DEF unused
    <3> QED BY <1>0, <1>1, <2>1 DEF ChainTypeOK, PendingOf, StruckOf, SeenOf
  <2>5. /\ Pending' = Pending /\ Struck' = Struck
        /\ SeenNow' = [SeenNow EXCEPT ![v] = unused]
        /\ Pending[v] # {} /\ Struck[v] = NoQueue
    <3> HIDE DEF unused
    <3> QED BY <2>3, <2>4, Abstraction DEF Pending, Struck
  <2>6. Cleanup!Observe(v, unused)
    BY <1>1, <2>1, <2>5 DEF Cleanup!Observe
  <2> QED
    BY <2>2, <2>6 DEF Cleanup!CleanupStep
<1>3. CASE ServeDelete(v)
  <2>1. /\ phase[v] = "deleting"
        /\ removals' = [removals EXCEPT ![v] = @ \cup {name[v]}]
        /\ UNCHANGED seen
    BY <1>3 DEF ServeDelete
  <2>2. name[v] # NoQueue
    BY <1>0, <2>1 DEF RunInv, AtHand
  <2>3. \A u \in Visits \ {v} : SameChain(u)
    BY <1>0, <1>1, <2>1 DEF ChainTypeOK, SameChain
  <2>4. /\ PendingOf(v)' = PendingOf(v) /\ SeenOf(v)' = SeenOf(v)
        /\ StruckOf(v)' = StruckOf(v) /\ StruckOf(v) = name[v]
    BY <1>1, <2>1 DEF PendingOf, StruckOf, SeenOf
  <2>5. /\ Pending' = Pending /\ Struck' = Struck /\ SeenNow' = SeenNow
        /\ Struck[v] = name[v]
    BY <2>3, <2>4, Abstraction DEF Pending, Struck, SeenNow
  <2>6. Cleanup!Remove(v)
    BY <1>1, <2>1, <2>2, <2>5 DEF Cleanup!Remove
  <2> QED
    BY <2>6 DEF Cleanup!CleanupStep
<1> QED
  BY <1>2, <1>3 DEF Serve

\* After a decision the chain has the names to come before it, none seen.
LEMMA ContinueAbstraction ==
    ASSUME IInv, NEW v \in Visits, phase[v] \in {"checking", "deleting"}, Continue(v)
    PROVE  /\ PendingOf(v)' = todo[v] /\ SeenOf(v)' = {} /\ StruckOf(v)' = NoQueue
           /\ \A u \in Visits \ {v} : SameChain(u)
<1>0. SessionTypeOK /\ ChainTypeOK /\ target \in Brokers
  BY RunStart
<1>1. /\ ChainTypeOK'
      /\ connecting' \in BOOLEAN /\ busy' \in BOOLEAN
      /\ \A u \in Visits \ {v} : SameChain(u)
      /\ seen'[v] = {}
      /\ \/ phase'[v] = "off" /\ todo[v] = {}
         \/ /\ phase'[v] = "checking" /\ name'[v] \in todo[v]
            /\ todo'[v] = todo[v] \ {name'[v]}
            /\ asked'[v] = target /\ served'[v] = FALSE
  BY <1>0, ContinueEffect
<1> QED
  BY <1>1 DEF PendingOf, SeenOf, StruckOf

\* A name found used is dropped; an answered or failed deletion is settled.
LEMMA DecisionImplements ==
    ASSUME IInv, NEW v \in Visits,
           CheckedUsed(v) \/ Deleted(v) \/ DeleteFailed(v)
    PROVE  Cleanup!CleanupStep
<1>0. /\ ChainTypeOK /\ RunInv(v)
      /\ phase[v] \in {"checking", "deleting"} /\ Continue(v)
      /\ UNCHANGED <<names, removals>>
  BY RunStart DEF CheckedUsed, Deleted, DeleteFailed
<1>1. /\ PendingOf(v)' = todo[v] /\ SeenOf(v)' = {} /\ StruckOf(v)' = NoQueue
      /\ \A u \in Visits \ {v} : SameChain(u)
  BY <1>0, ContinueAbstraction
<1>2. /\ Pending' = [Pending EXCEPT ![v] = todo[v]]
      /\ SeenNow' = [SeenNow EXCEPT ![v] = {}]
      /\ Struck' = [Struck EXCEPT ![v] = NoQueue]
      /\ Pending[v] = PendingOf(v)
      /\ SeenNow[v] = SeenOf(v)
      /\ Struck[v] = StruckOf(v)
  BY <1>1, Abstraction
<1>3. name[v] \in Queues /\ name[v] \notin todo[v]
  BY <1>0 DEF RunInv, AtHand, Accounted
<1>4. CASE CheckedUsed(v)
  <2>1. phase[v] = "checking" /\ name[v] \notin seen[v]
    BY <1>4 DEF CheckedUsed
  <2>2. /\ PendingOf(v) = todo[v] \cup {name[v]} /\ SeenOf(v) = seen[v]
        /\ StruckOf(v) = NoQueue
    BY <2>1 DEF PendingOf, SeenOf, StruckOf
  <2>3. todo[v] = Pending[v] \ {name[v]}
    BY <1>2, <1>3, <2>2
  <2>4. todo[v] = Pending[v] \ ({name[v]} \cup {NoQueue})
    BY <1>0, <2>3, NoQueueAssumption DEF ChainTypeOK
  <2>5. Cleanup!Decide(v, {name[v]}, NoQueue)
    BY <1>0, <1>2, <2>1, <2>2, <2>4 DEF Cleanup!Decide, Cleanup!KeepOrForget
  <2> QED
    BY <1>3, <2>5 DEF Cleanup!CleanupStep
<1>5. CASE Deleted(v) \/ DeleteFailed(v)
  <2>1. phase[v] = "deleting"
    BY <1>5 DEF Deleted, DeleteFailed
  <2>2. PendingOf(v) = todo[v]
    BY <2>1 DEF PendingOf
  <2>3. todo[v] = Pending[v] \ ({} \cup {NoQueue})
    BY <1>0, <1>2, <2>2, NoQueueAssumption DEF ChainTypeOK
  <2>4. Cleanup!Decide(v, {}, NoQueue)
    BY <1>0, <1>2, <2>3 DEF Cleanup!Decide, Cleanup!KeepOrForget
  <2> QED
    BY <2>4 DEF Cleanup!CleanupStep
<1> QED
  BY <1>4, <1>5

\* A name found unused is struck, and only then.
LEMMA CheckedUnusedImplements ==
    ASSUME IInv, NEW v \in Visits, CheckedUnused(v)
    PROVE  Cleanup!CleanupStep
<1>0. ChainTypeOK /\ RunInv(v)
  BY RunStart
<1>1. /\ phase[v] = "checking" /\ name[v] \in seen[v]
      /\ phase' = [phase EXCEPT ![v] = "deleting"]
      /\ asked' = [asked EXCEPT ![v] = target]
      /\ served' = [served EXCEPT ![v] = FALSE]
      /\ UNCHANGED <<names, todo, name, seen, removals>>
  BY DEF CheckedUnused, Request
<1>2. \A u \in Visits \ {v} : SameChain(u)
  BY <1>0, <1>1 DEF ChainTypeOK, SameChain
<1>3. phase'[v] = "deleting"
  BY <1>0, <1>1 DEF ChainTypeOK
<1>4. name[v] \in Queues /\ name[v] \notin todo[v]
  BY <1>0, <1>1 DEF RunInv, AtHand, Accounted
<1>5. /\ PendingOf(v) = todo[v] \cup {name[v]} /\ PendingOf(v)' = todo[v]
      /\ SeenOf(v) = seen[v] /\ SeenOf(v)' = {}
      /\ StruckOf(v) = NoQueue /\ StruckOf(v)' = name[v]
  BY <1>1, <1>3 DEF PendingOf, SeenOf, StruckOf
<1>6. /\ Pending' = [Pending EXCEPT ![v] = todo[v]]
      /\ SeenNow' = [SeenNow EXCEPT ![v] = {}]
      /\ Struck' = [Struck EXCEPT ![v] = name[v]]
      /\ Pending[v] = todo[v] \cup {name[v]}
      /\ SeenNow[v] = seen[v]
      /\ Struck[v] = NoQueue
  BY <1>2, <1>5, Abstraction
<1>7. todo[v] = Pending[v] \ ({} \cup {name[v]})
  BY <1>4, <1>6
<1>8. Cleanup!Decide(v, {}, name[v])
  BY <1>1, <1>6, <1>7 DEF Cleanup!Decide, Cleanup!KeepOrForget
<1> QED
  BY <1>4, <1>8 DEF Cleanup!CleanupStep

\* A failed check gives the rest of the names up.
LEMMA CheckFailedImplements ==
    ASSUME IInv, NEW v \in Visits, CheckFailed(v)
    PROVE  Cleanup!CleanupStep
<1>0. /\ ChainTypeOK /\ phase[v] = "checking" /\ Close(v)
      /\ UNCHANGED <<names, removals>>
  BY RunStart DEF CheckFailed
<1>1. /\ ChainTypeOK'
      /\ phase'[v] = "off" /\ seen'[v] = {}
      /\ \A u \in Visits \ {v} : SameChain(u)
  BY <1>0, CloseEffect
<1>2. /\ PendingOf(v)' = {} /\ SeenOf(v)' = {}
      /\ StruckOf(v) = NoQueue /\ StruckOf(v)' = NoQueue
  BY <1>0, <1>1 DEF PendingOf, SeenOf, StruckOf
<1>3. /\ Pending' = [Pending EXCEPT ![v] = {}]
      /\ SeenNow' = [SeenNow EXCEPT ![v] = {}]
      /\ Struck' = [Struck EXCEPT ![v] = Struck[v]]
      /\ Struck[v] = NoQueue
  BY <1>1, <1>2, Abstraction
<1>4. Struck' = Struck
  BY <1>3 DEF Struck
<1>5. Cleanup!GiveUp(v)
  BY <1>0, <1>3, <1>4 DEF Cleanup!GiveUp
<1> QED
  BY <1>5 DEF Cleanup!CleanupStep

\* The steps up to the confirmation are not seen.
LEMMA OpeningUnseen ==
    ASSUME IInv, NEW v \in Visits, Listed(v) \/ ListingFailed(v) \/ Cancel(v)
    PROVE  UNCHANGED Cleanup!cleanupVars
<1>0. /\ ChainTypeOK /\ phase[v] \in {"listing", "confirming"}
      /\ UNCHANGED <<names, removals>>
  BY RunStart DEF Listed, ListingFailed, Cancel
<1>1. /\ phase'[v] \in {"off", "confirming"}
      /\ \A u \in Visits \ {v} : SameChain(u)
  <2>1. CASE Close(v)
    BY <1>0, <2>1, CloseEffect
  <2>2. CASE ~Close(v)
    <3>1. PICK c \in SUBSET Queues :
            /\ phase' = [phase EXCEPT ![v] = "confirming"]
            /\ todo' = [todo EXCEPT ![v] = c]
            /\ UNCHANGED <<name, requestVars>>
      BY <2>2 DEF Listed, ListingFailed, Cancel, Unused
    <3> QED
      BY <1>0, <3>1 DEF ChainTypeOK, SameChain, requestVars
  <2> QED
    BY <2>1, <2>2
<1> QED
  BY <1>0, <1>1, Unseen

\* Nor is the start of a run.
LEMMA StartUnseen == ASSUME IInv, StartRun PROVE UNCHANGED Cleanup!cleanupVars
<1>1. PICK v \in Visits : v = visit
  BY DEF IInv, TypeOK, ScreenTypeOK
<1>2. ChainTypeOK
  BY DEF IInv, TypeOK
<1>3. /\ phase[v] = "off"
      /\ phase' = [phase EXCEPT ![v] = "listing"]
      /\ asked' = [asked EXCEPT ![v] = target]
      /\ served' = [served EXCEPT ![v] = FALSE]
      /\ UNCHANGED <<names, todo, name, seen, removals>>
  BY <1>1 DEF StartRun, deletingUnusedQueues, Request
<1>4. phase'[v] = "listing" /\ \A u \in Visits \ {v} : SameChain(u)
  BY <1>2, <1>3 DEF ChainTypeOK, SameChain
<1> QED
  BY <1>3, <1>4, Unseen

\* Every step is a step of the contract or leaves it unchanged.
THEOREM NextImplements ==
    ASSUME IInv, [Next]_vars
    PROVE  Cleanup!CleanupStep \/ UNCHANGED Cleanup!cleanupVars
<1>1. CASE StartRun
  BY <1>1, StartUnseen
<1>2. ASSUME NEW v \in Visits, Proceed(v)
      PROVE  Cleanup!CleanupStep \/ UNCHANGED Cleanup!cleanupVars
  <2>1. CASE Confirm(v)
    <3>1. todo[v] \in SUBSET Queues
      BY DEF IInv, TypeOK, ChainTypeOK
    <3> QED
      BY <2>1, <3>1, ConfirmAgrees DEF Cleanup!CleanupStep
  <2>2. CASE ~Confirm(v)
    BY <1>2, <2>2, OpeningUnseen, DecisionImplements, CheckedUnusedImplements,
       CheckFailedImplements DEF Proceed
  <2> QED
    BY <2>1, <2>2
<1>3. ASSUME NEW v \in Visits, Serve(v) PROVE Cleanup!CleanupStep
  BY <1>3, ServeImplements
<1>4. CASE \/ ConsoleStep \/ Single \/ Revisit
           \/ \E q \in Queues \cup {NoQueue} : ShowQueueDetails(q)
           \/ \E b \in Brokers, q \in Queues, state \in {"absent", "unused", "used"} :
                 BrokerActivity(b, q, state)
           \/ UNCHANGED vars
  <2>1. UNCHANGED runVars
    BY <1>4 DEF ConsoleStep, Single, DeleteQueue, ConfirmSingle, CancelSingle,
       ServeSingle, SingleDeleted, SingleFailed, Revisit, ShowQueueDetails,
       BrokerActivity, vars
  <2> QED
    BY <2>1, UnseenSurroundings
<1> QED
  BY <1>1, <1>2, <1>3, <1>4 DEF Next

\* A run deletes only what was agreed to, only on a reading that found it
\* unused, each name once and one after the other.
THEOREM Implementation == Spec => ImplementsCleanup
<1>1. Init => Cleanup!CleanupInit
  <2> SUFFICES ASSUME Init PROVE Cleanup!CleanupInit
    OBVIOUS
  <2>1. \A v \in Visits : PendingOf(v) = {} /\ SeenOf(v) = {} /\ StruckOf(v) = NoQueue
    BY DEF Init, PendingOf, SeenOf, StruckOf
  <2> QED
    BY <2>1 DEF Init, Pending, SeenNow, Struck, Cleanup!CleanupInit
<1> QED
  BY InitIInv, NextIInv, NextImplements, <1>1, PTL
     DEF Spec, ImplementsCleanup, Cleanup!CleanupSpec

(***************************************************************************)
(* What follows from the contract of bulk deletions.                       *)
(***************************************************************************)

Contract == INSTANCE BulkCleanupProofs
    WITH Runs    <- Visits,
         Names   <- Queues,
         NoName  <- NoQueue,
         agreed  <- names,
         pending <- Pending,
         seen    <- SeenNow,
         struck  <- Struck,
         removed <- removals

\* The contract of the two instances is the same one.
LEMMA SameContract == Spec => Contract!CleanupSpec
<1>1. Cleanup!CleanupInit => Contract!CleanupInit
  BY DEF Cleanup!CleanupInit, Contract!CleanupInit
<1>2. [Cleanup!CleanupStep]_Cleanup!cleanupVars
        => [Contract!CleanupStep]_Contract!cleanupVars
  BY DEF Cleanup!CleanupStep, Cleanup!Agree, Cleanup!Observe, Cleanup!Decide,
     Cleanup!Remove, Cleanup!GiveUp, Cleanup!Idle, Cleanup!KeepOrForget,
     Cleanup!cleanupVars, Contract!CleanupStep, Contract!Agree,
     Contract!Observe, Contract!Decide, Contract!Remove, Contract!GiveUp,
     Contract!Idle, Contract!KeepOrForget, Contract!cleanupVars
<1> QED
  BY <1>1, <1>2, Implementation, PTL
     DEF ImplementsCleanup, Cleanup!CleanupSpec, Contract!CleanupSpec

\* Of two overlapping runs, too, each removes only what its own dialog named,
\* and goes on to no name a second time.
THEOREM RemovesAgreed ==
    Spec => [](Contract!OnlyAgreed /\ Contract!OnceOnly)
<1>1. Contract!CleanupSpec => []Contract!OnlyAgreed
  BY Contract!AgreedOnly
<1>2. Contract!CleanupSpec => []Contract!OnceOnly
  BY Contract!NoneTwice
<1> QED
  BY <1>1, <1>2, SameContract, PTL

\* The deletion of a name is requested only after a reading that found it
\* unused, and never of a name that the run has removed already.
THEOREM RequestedOnSight == Spec => Contract!StruckOnSight
<1>1. Contract!CleanupSpec => Contract!StruckOnSight
  BY Contract!SeenFirst
<1> QED
  BY <1>1, SameContract, PTL

(***************************************************************************)
(* QueueCleanup implements ConsoleSession.                                 *)
(***************************************************************************)

\* The single deletion, like a run, is started from the tabs.
SingleAddressed == single.phase # "off" => target # Unset

\* Once the URLs are prepared, they stay prepared.
LEMMA TargetSticks ==
    ASSUME IInv, [Next]_vars, target # Unset PROVE target' # Unset
<1>1. CASE ConsoleStep
  <2>1. SessionTypeOK /\ Prepared /\ SessionStep
    BY <1>1 DEF IInv, TypeOK, ConsoleStep, Clicked, SessionStep
  <2> QED
    BY <2>1, SessionStepEffect
<1>2. CASE ~ConsoleStep
  BY <1>2 DEF Next, StartRun, Proceed, Listed, ListingFailed, Confirm, Cancel,
     CheckedUsed, CheckedUnused, CheckFailed, Deleted, DeleteFailed, Serve,
     ServeCheck, ServeDelete, Single, DeleteQueue, ConfirmSingle, CancelSingle,
     ServeSingle, SingleDeleted, SingleFailed, ShowQueueDetails, Revisit,
     BrokerActivity, vars, sessionVars
<1> QED
  BY <1>1, <1>2

LEMMA SingleAddressedKept ==
    ASSUME IInv, SingleAddressed, [Next]_vars PROVE SingleAddressed'
<1>1. CASE DeleteQueue
  <2>1. target # Unset
    BY <1>1 DEF DeleteQueue, UserCanAct, IInv, Prepared
  <2> QED
    BY <2>1, TargetSticks DEF SingleAddressed
<1>2. CASE ~DeleteQueue
  <2>1. single.phase = "off" => single'.phase = "off"
    BY <1>2 DEF Next, ConsoleStep, StartRun, Proceed, Listed, ListingFailed,
       Confirm, Cancel, CheckedUsed, CheckedUnused, CheckFailed, Deleted,
       DeleteFailed, Serve, ServeCheck, ServeDelete, Single, ConfirmSingle,
       CancelSingle, ServeSingle, SingleDeleted, SingleFailed, ShowQueueDetails,
       Revisit, BrokerActivity, vars
  <2> QED
    BY <2>1, TargetSticks DEF SingleAddressed
<1> QED
  BY <1>1, <1>2

\* What a chain that goes on, or ends, is for the session.
LEMMA ContinueRefreshes ==
    ASSUME NEW v \in Visits, Continue(v)
    PROVE  RefreshAll \/ UNCHANGED <<connecting, busy>>
  BY DEF Continue

\* An answer to a run is a refresh or nothing, a failure a failed operation.
LEMMA ProceedSession ==
    ASSUME IInv, NEW v \in Visits, Proceed(v)
    PROVE  SessionStep \/ UNCHANGED sessionVars
<1>0. phase[v] # "off" => target # Unset
  BY DEF IInv, RunInv, Addressed
<1>1. CASE Listed(v) \/ Confirm(v) \/ Cancel(v) \/ CheckedUnused(v)
  BY <1>1 DEF Listed, Confirm, Cancel, CheckedUnused
<1>2. CASE CheckedUsed(v) \/ Deleted(v)
  <2>1. /\ target # Unset /\ UNCHANGED <<target, session>>
        /\ RefreshAll \/ UNCHANGED <<connecting, busy>>
    BY <1>0, <1>2, ContinueRefreshes DEF CheckedUsed, Deleted
  <2> QED
    BY <2>1 DEF SessionStep, Refresh, sessionVars
<1>3. CASE ListingFailed(v) \/ CheckFailed(v) \/ DeleteFailed(v)
  <2>1. /\ target # Unset /\ UNCHANGED target
        /\ RefreshAll \/ UNCHANGED <<connecting, busy>>
    BY <1>0, <1>3, ContinueRefreshes DEF ListingFailed, CheckFailed, DeleteFailed
  <2>2. PICK f \in Rejections : session' = AfterApiError(session, f)
    BY <1>3 DEF ListingFailed, CheckFailed, DeleteFailed
  <2> QED
    BY <2>1, <2>2 DEF SessionStep, ExecFailed
<1> QED
  BY <1>1, <1>2, <1>3 DEF Proceed

\* Every step is a step of the session or leaves it unchanged.
LEMMA NextSession ==
    ASSUME IInv, SingleAddressed, [Next]_vars
    PROVE  SessionStep \/ UNCHANGED sessionVars
<1>1. CASE ConsoleStep
  BY <1>1 DEF ConsoleStep, Clicked, SessionStep
<1>2. CASE SingleDeleted
  BY <1>2 DEF SingleDeleted, SingleAddressed, SessionStep, Refresh
<1>3. CASE SingleFailed
  <2>1. PICK f \in Rejections : session' = AfterApiError(session, f)
    BY <1>3 DEF SingleFailed
  <2> QED
    BY <1>3, <2>1 DEF SingleFailed, SingleAddressed, SessionStep, ExecFailed
<1>4. ASSUME NEW v \in Visits, Proceed(v)
      PROVE  SessionStep \/ UNCHANGED sessionVars
  BY <1>4, ProceedSession
<1>5. CASE \/ StartRun \/ Revisit \/ DeleteQueue \/ ConfirmSingle \/ CancelSingle
           \/ ServeSingle \/ UNCHANGED vars
           \/ \E v \in Visits : Serve(v)
           \/ \E q \in Queues \cup {NoQueue} : ShowQueueDetails(q)
           \/ \E b \in Brokers, q \in Queues, state \in {"absent", "unused", "used"} :
                 BrokerActivity(b, q, state)
  BY <1>5 DEF StartRun, Revisit, DeleteQueue, ConfirmSingle, CancelSingle,
     ServeSingle, vars, Serve, ServeCheck, ServeDelete, ShowQueueDetails,
     BrokerActivity
<1> QED
  BY <1>1, <1>2, <1>3, <1>4, <1>5 DEF Next, Single

\* To the session a run is a sequence of operations, each of which refreshes
\* when it succeeds and may log the user out when it fails; the deletions do
\* nothing to the session that ConsoleSession does not allow.
THEOREM ImplementsSession == Spec => SessionSpec
<1>1. Init => IInv /\ SingleAddressed /\ SessionInit
  <2>1. Init => SingleAddressed /\ SessionInit
    BY DEF Init, SingleAddressed, NoSingle
  <2> QED
    BY <2>1, InitIInv
<1>2. IInv /\ SingleAddressed /\ [Next]_vars
        => /\ IInv' /\ SingleAddressed'
           /\ [SessionStep]_sessionVars
  BY NextIInv, SingleAddressedKept, NextSession
<1> QED
  BY <1>1, <1>2, PTL DEF Spec, SessionSpec

\* So nothing polls behind the login window here either, whichever call of a
\* run it was that failed.
THEOREM TimerOwned == Spec => []TimerHasOwner
  BY ImplementsSession, SessionTimer, PTL

\* And no run is moved to another broker while the tabs are on screen.
THEOREM BrokerKept == Spec => BrokerStays
  BY ImplementsSession, SessionBroker, PTL

(***************************************************************************)
(* The broker that is checked and the one that deletes.                    *)
(***************************************************************************)

\* While a check is outstanding, it is at the broker that will count as
\* checked; a deletion has been checked somewhere.
CheckedInv(v) ==
    /\ phase[v] = "checking" => asked[v] = checkedAt[v]
    /\ phase[v] = "deleting" => checkedAt[v] \in Brokers

\* What a step may do to the two.
AddressStep(v) ==
    \/ phase'[v] \notin {"checking", "deleting"}
    \/ phase'[v] = "checking" /\ asked'[v] = checkedAt'[v]
    \/ /\ phase[v] = "checking" /\ phase'[v] = "deleting"
       /\ checkedAt'[v] = checkedAt[v]
    \/ /\ phase'[v] = phase[v] /\ asked'[v] = asked[v]
       /\ checkedAt'[v] = checkedAt[v]

LEMMA ContinueAddress ==
    ASSUME ChainTypeOK, NEW u \in Visits, Continue(u), NEW v \in Visits
    PROVE  AddressStep(v)
<1>1. CASE Close(u)
  BY <1>1 DEF ChainTypeOK, Close, AddressStep
<1>2. CASE ~Close(u)
  <2>1. PICK q \in todo[u] : Check(u, q, todo[u])
    BY <1>2 DEF Continue
  <2> QED
    BY <2>1 DEF ChainTypeOK, Check, Request, AddressStep
<1> QED
  BY <1>1, <1>2

LEMMA NextAddress ==
    ASSUME ChainTypeOK, [Next]_vars, NEW v \in Visits
    PROVE  AddressStep(v)
<1>1. CASE StartRun
  BY <1>1 DEF ChainTypeOK, StartRun, deletingUnusedQueues, Request, AddressStep
<1>2. ASSUME NEW u \in Visits, Proceed(u) PROVE AddressStep(v)
  <2>1. CASE Close(u)
    BY <2>1 DEF ChainTypeOK, Close, AddressStep
  <2>2. CASE Continue(u)
    BY <2>2, ContinueAddress
  <2>3. CASE Confirm(u)
    <3>1. PICK q \in todo[u] : Check(u, q, todo[u])
      BY <2>3 DEF Confirm
    <3> QED
      BY <3>1 DEF ChainTypeOK, Check, Request, AddressStep
  <2>4. CASE CheckedUnused(u)
    BY <2>4 DEF ChainTypeOK, CheckedUnused, Request, AddressStep
  <2>5. CASE Listed(u) /\ ~Close(u)
    <3>1. /\ phase' = [phase EXCEPT ![u] = "confirming"]
          /\ UNCHANGED <<asked, checkedAt>>
      BY <2>5 DEF Listed, requestVars
    <3> QED
      BY <3>1 DEF ChainTypeOK, AddressStep
  <2> QED
    BY <1>2, <2>1, <2>2, <2>3, <2>4, <2>5 DEF Proceed, ListingFailed, Cancel,
       CheckedUsed, CheckFailed, Deleted, DeleteFailed
<1>3. CASE UNCHANGED <<phase, asked, checkedAt>>
  BY <1>3 DEF AddressStep
<1>4. CASE \/ ConsoleStep \/ Single \/ Revisit
           \/ \E u \in Visits : Serve(u)
           \/ \E q \in Queues \cup {NoQueue} : ShowQueueDetails(q)
           \/ \E b \in Brokers, q \in Queues, state \in {"absent", "unused", "used"} :
                 BrokerActivity(b, q, state)
           \/ UNCHANGED vars
  <2>1. UNCHANGED <<phase, asked, checkedAt>>
    BY <1>4 DEF ConsoleStep, Single, DeleteQueue, ConfirmSingle, CancelSingle,
       ServeSingle, SingleDeleted, SingleFailed, Revisit, ShowQueueDetails,
       BrokerActivity, Serve, ServeCheck, ServeDelete, vars, runVars, planVars,
       requestVars
  <2> QED
    BY <1>3, <2>1
<1> QED
  BY <1>1, <1>2, <1>4 DEF Next

\* With a single broker to log in to, every deletion goes where its name was
\* checked: that a run survives the session it was started in is the one way
\* for a deletion to go to a broker that was not.
THEOREM RecheckedIfOneBroker ==
    ASSUME \A b, c \in Brokers : b = c
    PROVE  Spec => []RecheckedWhereDeleted
<1> DEFINE CInv == IInv /\ \A v \in Visits : CheckedInv(v)
<1>1. Init => CInv
  <2> SUFFICES ASSUME Init PROVE CInv
    OBVIOUS
  <2>1. \A v \in Visits : phase[v] = "off"
    BY DEF Init
  <2> QED
    BY <2>1, InitIInv DEF CheckedInv
<1>2. CInv /\ [Next]_vars => CInv'
  <2> SUFFICES ASSUME CInv, [Next]_vars PROVE CInv'
    OBVIOUS
  <2>1. IInv'
    BY NextIInv
  <2>2. ASSUME NEW v \in Visits PROVE CheckedInv(v)'
    <3>1. AddressStep(v)
      BY NextAddress DEF IInv, TypeOK
    <3>2. phase[v] \in {"checking", "deleting"} => asked[v] \in Brokers
      BY DEF IInv, RunInv, AtHand
    <3> QED
      BY <3>1, <3>2 DEF AddressStep, CheckedInv
  <2> QED
    BY <2>1, <2>2
<1>3. CInv => RecheckedWhereDeleted
  <2> SUFFICES ASSUME CInv, NEW v \in Visits, phase[v] = "deleting"
               PROVE  asked[v] = checkedAt[v]
    BY DEF RecheckedWhereDeleted
  <2>1. asked[v] \in Brokers /\ checkedAt[v] \in Brokers
    BY DEF IInv, RunInv, AtHand, CheckedInv
  <2> QED
    BY <2>1
<1> QED
  BY <1>1, <1>2, <1>3, PTL DEF Spec
=============================================================================
