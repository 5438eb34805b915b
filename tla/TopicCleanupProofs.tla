------------------------- MODULE TopicCleanupProofs -------------------------
(***************************************************************************)
(* Proofs about TopicCleanup and TopicCheck, for every set of topics,      *)
(* brokers and failures and any number of overlapping runs.                *)
(*                                                                         *)
(* A run is true to its report for the same reasons as a run over queues:  *)
(* a removal is recorded while its answer is outstanding (Recorded), each  *)
(* name is in one place only (Accounted).  That several names are skipped  *)
(* in one step makes the accounting a matter of sets (Decision).  For the  *)
(* refinement, a check must have something to find (Offered) and its reads *)
(* must be over when the run goes on (ReadsOver).                          *)
(***************************************************************************)
EXTENDS TopicCheck, ConsoleSessionProofs

USE NoTopicAssumption, UnsetAssumption

Addressed(v) == phase[v] # "off" => target # Unset

Offered(v) == phase[v] \in {"confirming", "checking"} => todo[v] # {}

ReadsOver(v) == phase[v] \notin {"listing", "checking"} => waiting[v] = {}

Recorded(v) == phase[v] = "deleting" /\ served[v] => name[v] \in removals[v]

RunInv(v) ==
    /\ AtHand(v)
    /\ Addressed(v)
    /\ Offered(v)
    /\ ReadsOver(v)
    /\ Recorded(v)
    /\ TrueReport(v)
    /\ Accounted(v)

\* While the dialog of a single deletion is open, the details can be closed
\* by a run but not moved to another topic.
DetailsStay ==
    single.phase = "confirming" => currentTopic \in {NoTopic, single.asked}

IInv ==
    /\ TypeOK
    /\ Prepared
    /\ \A v \in Visits : RunInv(v)
    /\ SingleDeletesAsked
    /\ DetailsStay

(***************************************************************************)
(* The scopes one by one.                                                  *)
(***************************************************************************)

SameChain(u) ==
    /\ phase'[u] = phase[u]
    /\ todo'[u] = todo[u]
    /\ name'[u] = name[u]
    /\ asked'[u] = asked[u]
    /\ waiting'[u] = waiting[u]
    /\ free'[u] = free[u]
    /\ protected'[u] = protected[u]
    /\ eligible'[u] = eligible[u]
    /\ served'[u] = served[u]

SameResult(u) ==
    /\ names'[u] = names[u]
    /\ deleted'[u] = deleted[u]
    /\ skipped'[u] = skipped[u]
    /\ failed'[u] = failed[u]
    /\ removals'[u] = removals[u]

\* A scope of which nothing changes keeps its invariant.
LEMMA Elsewhere ==
    ASSUME NEW u \in Visits, RunInv(u), SameChain(u), SameResult(u),
           target # Unset => target' # Unset
    PROVE  RunInv(u)'
<1>1. AtHand(u)' /\ Addressed(u)' /\ Recorded(u)' /\ Offered(u)' /\ ReadsOver(u)'
  BY DEF RunInv, SameChain, SameResult, AtHand, Addressed, Recorded, Offered,
         ReadsOver
<1>2. TrueReport(u)'
  BY DEF RunInv, SameChain, SameResult, TrueReport
<1>3. Accounted(u)'
  BY DEF RunInv, SameChain, SameResult, Accounted, Decided, ToDecide
<1> QED
  BY <1>1, <1>2, <1>3 DEF RunInv

\* A step that concerns one run, and of the screen at most closes the details.
LEMMA RunStepPreserves ==
    ASSUME IInv, NEW v \in Visits,
           SessionTypeOK', Prepared', target # Unset => target' # Unset,
           ScreenTypeOK', ChainTypeOK', ResultTypeOK',
           \A u \in Visits \ {v} : SameChain(u) /\ SameResult(u),
           RunInv(v)',
           currentTopic' \in {currentTopic, NoTopic}, UNCHANGED single
    PROVE  IInv'
<1>1. ASSUME NEW u \in Visits PROVE RunInv(u)'
  <2>1. CASE u = v
    BY <2>1
  <2>2. CASE u # v
    BY <2>2, Elsewhere DEF IInv
  <2> QED
    BY <2>1, <2>2
<1>2. TypeOK'
  BY <1>1 DEF TypeOK, RunInv
<1>3. SingleDeletesAsked' /\ DetailsStay'
  BY DEF IInv, SingleDeletesAsked, DetailsStay
<1> QED
  BY <1>1, <1>2, <1>3 DEF IInv

\* A step that concerns no run.
LEMMA ScreenStepPreserves ==
    ASSUME IInv, UNCHANGED runVars,
           SessionTypeOK', Prepared', target # Unset => target' # Unset,
           ScreenTypeOK', SingleDeletesAsked', DetailsStay'
    PROVE  IInv'
<1>1. ASSUME NEW u \in Visits PROVE RunInv(u)'
  <2>1. SameChain(u) /\ SameResult(u)
    BY DEF SameChain, SameResult, runVars, planVars, checkVars, resultVars
  <2> QED
    BY <2>1, Elsewhere DEF IInv
<1>2. ChainTypeOK' /\ ResultTypeOK'
  BY DEF IInv, TypeOK, ChainTypeOK, ResultTypeOK, runVars, planVars,
         checkVars, resultVars
<1>3. TypeOK'
  BY <1>1, <1>2 DEF TypeOK, RunInv
<1> QED
  BY <1>1, <1>3 DEF IInv

(***************************************************************************)
(* The parts of actions.                                                   *)
(***************************************************************************)

\* A chain whose variables change at v only.
LEMMA ChainUpdate ==
    ASSUME ChainTypeOK, NEW v \in Visits,
           NEW p \in Phases, NEW td \in SUBSET Topics, NEW n \in Topics \cup {NoTopic},
           NEW e \in SUBSET Topics, NEW s \in BOOLEAN,
           NEW b \in Brokers \cup {Unset}, NEW w \in SUBSET Reads,
           phase' = [phase EXCEPT ![v] = p],
           todo' = [todo EXCEPT ![v] = td],
           name' = [name EXCEPT ![v] = n],
           eligible' = [eligible EXCEPT ![v] = e],
           served' = [served EXCEPT ![v] = s],
           asked' = [asked EXCEPT ![v] = b],
           waiting' = [waiting EXCEPT ![v] = w],
           free' = [free EXCEPT ![v] = {}],
           protected' = [protected EXCEPT ![v] = {}]
    PROVE  /\ ChainTypeOK'
           /\ phase'[v] = p /\ todo'[v] = td /\ name'[v] = n /\ eligible'[v] = e
           /\ served'[v] = s /\ asked'[v] = b /\ waiting'[v] = w
           /\ \A u \in Visits \ {v} : SameChain(u)
<1>1. /\ phase' \in [Visits -> Phases]
      /\ todo' \in [Visits -> SUBSET Topics]
      /\ name' \in [Visits -> Topics \cup {NoTopic}]
      /\ eligible' \in [Visits -> SUBSET Topics]
      /\ served' \in [Visits -> BOOLEAN]
  BY DEF ChainTypeOK
<1>2. /\ asked' \in [Visits -> Brokers \cup {Unset}]
      /\ waiting' \in [Visits -> SUBSET Reads]
      /\ free' \in [Visits -> SUBSET Topics]
      /\ protected' \in [Visits -> SUBSET Topics]
  BY DEF ChainTypeOK
<1>3. /\ phase'[v] = p /\ todo'[v] = td /\ name'[v] = n /\ eligible'[v] = e
      /\ served'[v] = s /\ asked'[v] = b /\ waiting'[v] = w
  BY DEF ChainTypeOK
<1>4. \A u \in Visits \ {v} : SameChain(u)
  BY DEF ChainTypeOK, SameChain
<1> QED
  BY <1>1, <1>2, <1>3, <1>4 DEF ChainTypeOK

\* Closing a run touches its own scope only.
LEMMA CloseEffect ==
    ASSUME ChainTypeOK, NEW v \in Visits, Close(v)
    PROVE  /\ ChainTypeOK'
           /\ phase'[v] = "off" /\ waiting'[v] = {} /\ todo'[v] = {}
           /\ \A u \in Visits \ {v} : SameChain(u)
<1>1. "off" \in Phases /\ {} \in SUBSET Reads
  BY DEF Phases
<1> QED
  BY <1>1, ChainUpdate DEF Close, CheckDone

\* What a chain does next when the check found the topics of found: before
\* are the names it skips on the way.
Outcome(v, before, found) ==
    /\ before \subseteq todo[v] \ found
    /\ skipped' = [skipped EXCEPT ![v] = @ \cup before]
    /\ waiting'[v] = {}
    /\ \/ phase'[v] = "off" /\ before = todo[v]
       \/ /\ phase'[v] = "deleting"
          /\ name'[v] \in todo[v] \cap found
          /\ todo'[v] = todo[v] \ (before \cup {name'[v]})
          /\ eligible'[v] = found
          /\ served'[v] = FALSE
          /\ asked'[v] = target

\* The chain skips what was not found and posts the next deletion, or ends.
LEMMA ContinueEffect ==
    ASSUME SessionTypeOK, ChainTypeOK, NEW v \in Visits, target \in Brokers,
           NEW found \in SUBSET Topics, Continue(v, found)
    PROVE  /\ ChainTypeOK'
           /\ connecting' \in BOOLEAN /\ busy' \in BOOLEAN
           /\ \A u \in Visits \ {v} : SameChain(u)
           /\ \E before \in SUBSET Topics : Outcome(v, before, found)
<1>0. todo[v] \in SUBSET Topics
  BY DEF ChainTypeOK
<1>1. ASSUME NEW t \in todo[v] \cap found, NEW before \in SUBSET (todo[v] \ found),
             Delete(v, t, before, found)
      PROVE  /\ ChainTypeOK'
             /\ connecting' \in BOOLEAN /\ busy' \in BOOLEAN
             /\ \A u \in Visits \ {v} : SameChain(u)
             /\ Outcome(v, before, found)
  <2> DEFINE rest == todo[v] \ (before \cup {t})
  <2>1. /\ rest \in SUBSET Topics /\ t \in Topics
        /\ "deleting" \in Phases /\ {} \in SUBSET Reads
    BY <1>0 DEF Phases
  <2>2. /\ phase' = [phase EXCEPT ![v] = "deleting"]
        /\ name' = [name EXCEPT ![v] = t]
        /\ todo' = [todo EXCEPT ![v] = rest]
        /\ skipped' = [skipped EXCEPT ![v] = @ \cup before]
        /\ eligible' = [eligible EXCEPT ![v] = found]
        /\ served' = [served EXCEPT ![v] = FALSE]
        /\ asked' = [asked EXCEPT ![v] = target]
        /\ waiting' = [waiting EXCEPT ![v] = {}]
        /\ free' = [free EXCEPT ![v] = {}]
        /\ protected' = [protected EXCEPT ![v] = {}]
        /\ UNCHANGED <<connecting, busy>>
    BY <1>1 DEF Delete, CheckDone
  <2>3. /\ ChainTypeOK'
        /\ phase'[v] = "deleting" /\ todo'[v] = rest /\ name'[v] = t
        /\ eligible'[v] = found
        /\ served'[v] = FALSE /\ asked'[v] = target /\ waiting'[v] = {}
        /\ \A u \in Visits \ {v} : SameChain(u)
    <3> HIDE DEF rest
    <3> QED BY <2>1, <2>2, ChainUpdate
  <2>4. Outcome(v, before, found)
    BY <2>2, <2>3 DEF Outcome
  <2> QED
    BY <2>2, <2>3, <2>4 DEF SessionTypeOK
<1>2. CASE todo[v] \cap found = {} /\ Finish(v)
  <2>1. Close(v) /\ RefreshAll /\ skipped' = [skipped EXCEPT ![v] = @ \cup todo[v]]
    BY <1>2 DEF Finish
  <2>2. /\ ChainTypeOK'
        /\ phase'[v] = "off" /\ waiting'[v] = {} /\ todo'[v] = {}
        /\ \A u \in Visits \ {v} : SameChain(u)
    BY <2>1, CloseEffect
  <2>3. Outcome(v, todo[v], found)
    BY <1>2, <2>1, <2>2 DEF Outcome
  <2> QED
    BY <1>0, <2>1, <2>2, <2>3, RefreshAllTyped
<1> QED
  BY <1>0, <1>1, <1>2 DEF Continue

\* A run that is not at a name and does not take one keeps its invariant.
LEMMA RunUndecided ==
    ASSUME NEW v \in Visits, RunInv(v), SameResult(v),
           phase[v] # "deleting", phase'[v] \notin {"checking", "deleting"},
           phase'[v] = "listing" => asked'[v] \in Brokers,
           phase'[v] = "confirming" => todo'[v] # {},
           phase'[v] # "listing" => waiting'[v] = {},
           phase'[v] # "off" => target' # Unset
    PROVE  RunInv(v)'
<1>1. AtHand(v)' /\ Addressed(v)' /\ Offered(v)' /\ ReadsOver(v)' /\ Recorded(v)'
  BY DEF AtHand, Addressed, Offered, ReadsOver, Recorded
<1>2. TrueReport(v)'
  BY DEF RunInv, SameResult, TrueReport
<1>3. Accounted(v)'
  BY DEF RunInv, SameResult, Accounted, Decided
<1> QED
  BY <1>1, <1>2, <1>3 DEF RunInv

\* The name at hand, if there is one, is deleted (D) or failed (F), and the
\* chain continues.
LEMMA Decision ==
    ASSUME NEW v \in Visits, RunInv(v), phase[v] \in {"checking", "deleting"},
           ResultTypeOK, target \in Brokers, target' = target,
           NEW found, NEW before, Outcome(v, before, found),
           NEW D, NEW F,
           D \cup F = IF phase[v] = "deleting" THEN {name[v]} ELSE {},
           D \cap F = {}, D \subseteq removals[v],
           names'[v] = names[v], removals'[v] = removals[v],
           deleted'[v] = deleted[v] \cup D, failed'[v] = failed[v] \cup F,
           name'[v] \in Topics \cup {NoTopic}, todo[v] \subseteq Topics
    PROVE  RunInv(v)'
<1> DEFINE H == D \cup F
<1>0. /\ before \subseteq todo[v]
      /\ skipped'[v] = skipped[v] \cup before
  BY DEF Outcome, ResultTypeOK
<1>1. AtHand(v)' /\ Addressed(v)' /\ Offered(v)' /\ ReadsOver(v)' /\ Recorded(v)'
  BY DEF Outcome, AtHand, Addressed, Offered, ReadsOver, Recorded
<1>2. /\ names[v] = Decided(v) \cup todo[v] \cup H
      /\ Decided(v) \cap (todo[v] \cup H) = {}
      /\ H \cap todo[v] = {}
  BY DEF RunInv, Accounted, ToDecide
<1>3. /\ deleted[v] \cap skipped[v] = {}
      /\ deleted[v] \cap failed[v] = {}
      /\ skipped[v] \cap failed[v] = {}
  BY DEF RunInv, Accounted
<1>4. /\ deleted[v] \subseteq removals[v]
      /\ skipped[v] \cap removals[v] = {}
      /\ removals[v] \subseteq deleted[v] \cup failed[v] \cup H
  BY DEF RunInv, TrueReport
<1>5. Decided(v)' = Decided(v) \cup H \cup before
  BY <1>0 DEF Decided
<1>6. /\ deleted'[v] \cap skipped'[v] = {}
      /\ deleted'[v] \cap failed'[v] = {}
      /\ skipped'[v] \cap failed'[v] = {}
  BY <1>0, <1>2, <1>3 DEF Decided
<1>7. TrueReport(v)'
  <2>1. deleted'[v] \subseteq removals'[v]
    BY <1>4
  <2>2. before \cap removals[v] = {}
    BY <1>0, <1>2, <1>4 DEF Decided
  <2>3. removals'[v] \subseteq deleted'[v] \cup failed'[v]
    BY <1>4
  <2> QED
    BY <1>0, <1>4, <2>1, <2>2, <2>3 DEF TrueReport
<1>8. Accounted(v)'
  <2>1. Decided(v)' \subseteq names'[v]
    BY <1>0, <1>2, <1>5
  <2>2. CASE phase'[v] = "off"
    BY <1>6, <2>1, <2>2 DEF Accounted
  <2>3. CASE phase'[v] = "deleting"
    <3>1. name'[v] \in todo[v] /\ todo'[v] = todo[v] \ (before \cup {name'[v]})
          /\ name'[v] \notin before
      BY <2>3 DEF Outcome
    <3>2. ToDecide(v)' = todo[v] \ before
      BY <2>3, <3>1 DEF ToDecide
    <3>3. /\ names'[v] = Decided(v)' \cup ToDecide(v)'
          /\ Decided(v)' \cap ToDecide(v)' = {}
      BY <1>0, <1>2, <1>5, <3>2
    <3> QED
      BY <1>6, <2>1, <2>3, <3>1, <3>3 DEF Accounted
  <2> QED
    BY <2>2, <2>3 DEF Outcome
<1> QED
  BY <1>1, <1>7, <1>8 DEF RunInv

(***************************************************************************)
(* The steps of a run.                                                     *)
(***************************************************************************)

\* Where every step of a run starts from.
LEMMA RunStart ==
    ASSUME IInv, NEW v \in Visits
    PROVE  /\ SessionTypeOK /\ Prepared /\ ScreenTypeOK
           /\ ChainTypeOK /\ ResultTypeOK /\ RunInv(v)
           /\ phase[v] # "off" => target \in Brokers
  BY DEF IInv, TypeOK, SessionTypeOK, RunInv, Addressed

\* A removal leaves the record of the topics well-formed.
LEMMA RemovedTyped ==
    ASSUME ScreenTypeOK, NEW b, NEW q
    PROVE  Removed(b, q) \in [Brokers -> [Topics -> TopicStates]]
  BY TopicStatesAssumption DEF ScreenTypeOK, Removed

\* What a check finds are topics.
LEMMA UnusedTyped ==
    ASSUME ChainTypeOK, NEW v \in Visits
    PROVE  unusedTopics(v) \in SUBSET Topics /\ eligible[v] \in SUBSET Topics
  BY DEF ChainTypeOK, unusedTopics

\* Up to the confirmation, and when a check fails, nothing is decided.
LEMMA OpeningPreserves ==
    ASSUME IInv, NEW v \in Visits,
           Listed(v) \/ CheckFailed(v) \/ Cancel(v)
    PROVE  IInv'
<1>0. /\ SessionTypeOK /\ Prepared /\ ScreenTypeOK
      /\ ChainTypeOK /\ ResultTypeOK /\ RunInv(v)
      /\ phase[v] \in {"listing", "confirming", "checking"} => target \in Brokers
  BY RunStart
<1>1. /\ phase[v] \in {"listing", "confirming", "checking"}
      /\ UNCHANGED <<target, topics, visit, currentTopic, names, resultVars,
                     removals, single>>
  BY DEF Listed, CheckFailed, Cancel, sessionVars
<1>2. SessionTypeOK' /\ Prepared'
  <2>1. CASE UNCHANGED sessionVars
    BY <1>0, <2>1 DEF SessionTypeOK, Prepared, OnTabs, sessionVars
  <2>2. CASE CheckFailed(v)
    BY <1>0, <2>2, FailureFrame DEF CheckFailed, SessionTypeOK
  <2> QED
    BY <2>1, <2>2 DEF Listed, Cancel
<1>3. /\ ChainTypeOK'
      /\ phase'[v] \in {"off", "confirming"} /\ waiting'[v] = {}
      /\ phase'[v] = "confirming" => todo'[v] # {}
      /\ \A u \in Visits \ {v} : SameChain(u)
  <2>1. CASE Close(v)
    <3>1. /\ ChainTypeOK'
          /\ phase'[v] = "off" /\ waiting'[v] = {} /\ todo'[v] = {}
          /\ \A u \in Visits \ {v} : SameChain(u)
      BY <1>0, <2>1, CloseEffect
    <3> QED
      BY <3>1
  <2>2. CASE ~Close(v)
    <3>1. PICK c \in SUBSET Topics :
            /\ c # {}
            /\ phase' = [phase EXCEPT ![v] = "confirming"]
            /\ todo' = [todo EXCEPT ![v] = c]
            /\ CheckDone(v, Unset)
            /\ UNCHANGED <<name, eligible, served>>
      BY <1>0, <2>2, UnusedTyped DEF Listed, CheckFailed, Cancel
    <3>2. "confirming" \in Phases /\ {} \in SUBSET Reads
      BY DEF Phases
    <3>3. /\ asked' = [asked EXCEPT ![v] = Unset]
          /\ waiting' = [waiting EXCEPT ![v] = {}]
          /\ free' = [free EXCEPT ![v] = {}]
          /\ protected' = [protected EXCEPT ![v] = {}]
      BY <3>1 DEF CheckDone
    <3>4. /\ phase' \in [Visits -> Phases]
          /\ todo' \in [Visits -> SUBSET Topics]
          /\ phase'[v] = "confirming" /\ todo'[v] = c
      BY <1>0, <3>1, <3>2 DEF ChainTypeOK
    <3>5. /\ asked' \in [Visits -> Brokers \cup {Unset}]
          /\ waiting' \in [Visits -> SUBSET Reads]
          /\ free' \in [Visits -> SUBSET Topics]
          /\ protected' \in [Visits -> SUBSET Topics]
          /\ waiting'[v] = {}
      BY <1>0, <3>2, <3>3 DEF ChainTypeOK
    <3>6. ChainTypeOK'
      BY <1>0, <3>1, <3>4, <3>5 DEF ChainTypeOK
    <3>7. \A u \in Visits \ {v} : SameChain(u)
      BY <1>0, <3>1, <3>3 DEF ChainTypeOK, SameChain
    <3> QED
      BY <3>1, <3>4, <3>5, <3>6, <3>7
  <2> QED
    BY <2>1, <2>2
<1>4. ScreenTypeOK' /\ ResultTypeOK'
  BY <1>0, <1>1 DEF ScreenTypeOK, ResultTypeOK, resultVars
<1>5. \A u \in Visits : SameResult(u)
  BY <1>1 DEF SameResult, resultVars
<1>6. RunInv(v)'
  <2>1. target' # Unset
    BY <1>0, <1>1
  <2>2. phase[v] # "deleting" /\ phase'[v] \notin {"listing", "checking", "deleting"}
    BY <1>1, <1>3
  <2> QED
    BY <1>0, <1>3, <1>5, <2>1, <2>2, RunUndecided
<1> QED
  BY <1>0, <1>1, <1>2, <1>3, <1>4, <1>5, <1>6, RunStepPreserves

\* The confirmation: all names are still to be decided.
LEMMA ConfirmPreserves == ASSUME IInv, NEW v \in Visits, Confirm(v) PROVE IInv'
<1>0. /\ SessionTypeOK /\ Prepared /\ ScreenTypeOK
      /\ ChainTypeOK /\ ResultTypeOK /\ RunInv(v)
      /\ target \in Brokers
  BY RunStart DEF Confirm
<1>1. /\ phase[v] = "confirming"
      /\ phase' = [phase EXCEPT ![v] = "checking"]
      /\ asked' = [asked EXCEPT ![v] = target]
      /\ waiting' = [waiting EXCEPT ![v] = Reads]
      /\ free' = [free EXCEPT ![v] = {}]
      /\ protected' = [protected EXCEPT ![v] = {}]
      /\ UNCHANGED <<sessionVars, topics, visit, currentTopic, todo, name,
                     eligible, served, single>>
  BY DEF Confirm, getUnusedTopics
<1>2. /\ names' = [names EXCEPT ![v] = todo[v]]
      /\ deleted' = [deleted EXCEPT ![v] = {}]
      /\ skipped' = [skipped EXCEPT ![v] = {}]
      /\ failed' = [failed EXCEPT ![v] = {}]
      /\ removals' = [removals EXCEPT ![v] = {}]
  BY DEF Confirm
<1>3. todo[v] \in SUBSET Topics /\ todo[v] # {}
  BY <1>0, <1>1 DEF ChainTypeOK, RunInv, Offered
<1>4. /\ ChainTypeOK'
      /\ phase'[v] = "checking" /\ todo'[v] = todo[v]
      /\ asked'[v] = target
      /\ \A u \in Visits \ {v} : SameChain(u)
  <2>1. ChainTypeOK'
    BY <1>0, <1>1 DEF ChainTypeOK, Phases, Reads
  <2>2. /\ phase'[v] = "checking" /\ todo'[v] = todo[v]
        /\ asked'[v] = target
        /\ \A u \in Visits \ {v} : SameChain(u)
    BY <1>0, <1>1 DEF ChainTypeOK, SameChain
  <2> QED
    BY <2>1, <2>2
<1>5. ResultTypeOK'
  BY <1>0, <1>2, <1>3 DEF ResultTypeOK
<1>6. \A u \in Visits \ {v} : SameResult(u)
  BY <1>0, <1>2 DEF ResultTypeOK, SameResult
<1>7. /\ names'[v] = todo[v] /\ deleted'[v] = {} /\ skipped'[v] = {}
      /\ failed'[v] = {} /\ removals'[v] = {}
  BY <1>0, <1>2 DEF ResultTypeOK
<1>8. /\ SessionTypeOK' /\ Prepared' /\ ScreenTypeOK'
      /\ target' = target /\ UNCHANGED <<currentTopic, single>>
  BY <1>0, <1>1 DEF sessionVars, SessionTypeOK, Prepared, OnTabs, ScreenTypeOK
<1>9. RunInv(v)'
  <2>1. /\ AtHand(v)' /\ Addressed(v)' /\ Offered(v)' /\ ReadsOver(v)'
        /\ Recorded(v)' /\ TrueReport(v)'
    BY <1>0, <1>3, <1>4, <1>7, <1>8
       DEF AtHand, Addressed, Offered, ReadsOver, Recorded, TrueReport
  <2>2. Decided(v)' = {} /\ ToDecide(v)' = todo[v]
    BY <1>4, <1>7 DEF Decided, ToDecide
  <2>3. Accounted(v)'
    BY <1>4, <1>7, <2>2 DEF Accounted
  <2> QED
    BY <2>1, <2>3 DEF RunInv
<1> QED
  BY <1>0, <1>4, <1>5, <1>6, <1>8, <1>9, RunStepPreserves

\* The chain goes on after the re-check, a deletion, or a failed one.
LEMMA DecisionPreserves ==
    ASSUME IInv, NEW v \in Visits,
           Rechecked(v) \/ Deleted(v) \/ DeleteFailed(v)
    PROVE  IInv'
<1>0. /\ SessionTypeOK /\ Prepared /\ ScreenTypeOK
      /\ ChainTypeOK /\ ResultTypeOK /\ RunInv(v)
      /\ phase[v] \in {"checking", "deleting"} => target \in Brokers
  BY RunStart
<1>1. /\ phase[v] \in {"checking", "deleting"}
      /\ UNCHANGED <<target, topics, visit, names, removals, single>>
  BY DEF Rechecked, Deleted, DeleteFailed
<1>2. target \in Brokers
  BY <1>0, <1>1
<1>3. PICK found \in SUBSET Topics : Continue(v, found)
  BY <1>0, UnusedTyped DEF Rechecked, Deleted, DeleteFailed
<1>4. /\ ChainTypeOK'
      /\ connecting' \in BOOLEAN /\ busy' \in BOOLEAN
      /\ \A u \in Visits \ {v} : SameChain(u)
      /\ \E before \in SUBSET Topics : Outcome(v, before, found)
  BY <1>0, <1>2, <1>3, ContinueEffect
<1>5. PICK before \in SUBSET Topics : Outcome(v, before, found)
  BY <1>4
<1>6. SessionTypeOK' /\ Prepared'
  <2>1. CASE UNCHANGED session
    BY <1>0, <1>1, <1>4, <2>1 DEF SessionTypeOK, Prepared, OnTabs
  <2>2. CASE DeleteFailed(v)
    BY <1>0, <1>1, <1>4, <2>2, FailureFrame DEF DeleteFailed
  <2> QED
    BY <2>1, <2>2 DEF Rechecked, Deleted
<1>7. currentTopic' \in {currentTopic, NoTopic}
  BY DEF Rechecked, Deleted, DeleteFailed
<1>8. ScreenTypeOK'
  BY <1>0, <1>1, <1>7 DEF ScreenTypeOK
<1>9. /\ skipped' = [skipped EXCEPT ![v] = @ \cup before]
      /\ name'[v] \in Topics \cup {NoTopic} /\ todo[v] \subseteq Topics
  BY <1>0, <1>4, <1>5 DEF Outcome, ChainTypeOK
<1>10. CASE Rechecked(v)
  <2>1. UNCHANGED <<names, deleted, failed, removals>> /\ phase[v] = "checking"
    BY <1>10 DEF Rechecked
  <2>2. ResultTypeOK' /\ \A u \in Visits \ {v} : SameResult(u)
    BY <1>0, <1>9, <2>1 DEF ResultTypeOK, SameResult
  <2>3. RunInv(v)'
    <3> DEFINE D == {}  F == {}
    <3>1. /\ D \cup F = IF phase[v] = "deleting" THEN {name[v]} ELSE {}
          /\ D \cap F = {} /\ D \subseteq removals[v]
          /\ deleted'[v] = deleted[v] \cup D /\ failed'[v] = failed[v] \cup F
          /\ names'[v] = names[v] /\ removals'[v] = removals[v]
      BY <2>1
    <3> HIDE DEF D, F
    <3> QED
      BY <1>0, <1>1, <1>2, <1>5, <1>9, <3>1, Decision
  <2> QED
    BY <1>1, <1>4, <1>6, <1>7, <1>8, <2>2, <2>3, RunStepPreserves
<1>11. CASE Deleted(v)
  <2>1. /\ deleted' = [deleted EXCEPT ![v] = @ \cup {name[v]}]
        /\ UNCHANGED <<names, failed, removals>>
        /\ phase[v] = "deleting" /\ served[v]
    BY <1>11 DEF Deleted
  <2>2. name[v] \in removals[v] /\ name[v] \in Topics
    BY <1>0, <2>1 DEF RunInv, Recorded, AtHand
  <2>3. /\ ResultTypeOK' /\ \A u \in Visits \ {v} : SameResult(u)
        /\ deleted'[v] = deleted[v] \cup {name[v]}
    BY <1>0, <1>9, <2>1, <2>2 DEF ResultTypeOK, SameResult
  <2>4. RunInv(v)'
    <3> DEFINE D == {name[v]}  F == {}
    <3>1. /\ D \cup F = IF phase[v] = "deleting" THEN {name[v]} ELSE {}
          /\ D \cap F = {} /\ D \subseteq removals[v]
          /\ deleted'[v] = deleted[v] \cup D /\ failed'[v] = failed[v] \cup F
          /\ names'[v] = names[v] /\ removals'[v] = removals[v]
      BY <2>1, <2>2, <2>3
    <3> HIDE DEF D, F
    <3> QED
      BY <1>0, <1>1, <1>2, <1>5, <1>9, <3>1, Decision
  <2> QED
    BY <1>1, <1>4, <1>6, <1>7, <1>8, <2>3, <2>4, RunStepPreserves
<1>12. CASE DeleteFailed(v)
  <2>1. /\ failed' = [failed EXCEPT ![v] = @ \cup {name[v]}]
        /\ UNCHANGED <<names, deleted, removals>>
        /\ phase[v] = "deleting"
    BY <1>12 DEF DeleteFailed
  <2>2. name[v] \in Topics
    BY <1>0, <2>1 DEF RunInv, AtHand
  <2>3. /\ ResultTypeOK' /\ \A u \in Visits \ {v} : SameResult(u)
        /\ failed'[v] = failed[v] \cup {name[v]}
    BY <1>0, <1>9, <2>1, <2>2 DEF ResultTypeOK, SameResult
  <2>4. RunInv(v)'
    <3> DEFINE D == {}  F == {name[v]}
    <3>1. /\ D \cup F = IF phase[v] = "deleting" THEN {name[v]} ELSE {}
          /\ D \cap F = {} /\ D \subseteq removals[v]
          /\ deleted'[v] = deleted[v] \cup D /\ failed'[v] = failed[v] \cup F
          /\ names'[v] = names[v] /\ removals'[v] = removals[v]
      BY <2>1, <2>3
    <3> HIDE DEF D, F
    <3> QED
      BY <1>0, <1>1, <1>2, <1>5, <1>9, <3>1, Decision
  <2> QED
    BY <1>1, <1>4, <1>6, <1>7, <1>8, <2>3, <2>4, RunStepPreserves
<1> QED
  BY <1>10, <1>11, <1>12

\* The broker answers one of the reads of a check, or removes the topic of a
\* deletion.
LEMMA ServePreserves == ASSUME IInv, NEW v \in Visits, Serve(v) PROVE IInv'
<1>0. /\ SessionTypeOK /\ Prepared /\ ScreenTypeOK
      /\ ChainTypeOK /\ ResultTypeOK /\ RunInv(v)
  BY RunStart
<1>1. /\ UNCHANGED <<sessionVars, visit, currentTopic, phase, names, todo, name,
                     eligible, asked, resultVars, single>>
  BY DEF Serve, ServeTopics, ServeInfo, ServeDelete, planVars, checkVars
<1>2. SessionTypeOK' /\ Prepared' /\ UNCHANGED <<target, currentTopic, single>>
  BY <1>0, <1>1 DEF sessionVars, SessionTypeOK, Prepared, OnTabs
<1>3. CASE ServeTopics(v) \/ ServeInfo(v)
  <2>1. /\ waiting[v] # {} /\ waiting' \in [Visits -> SUBSET Reads]
        /\ waiting' = [waiting EXCEPT ![v] = waiting'[v]]
        /\ UNCHANGED <<topics, served, removals>>
    BY <1>0, <1>3 DEF ServeTopics, ServeInfo, planVars, ChainTypeOK
  <2>2. /\ free' \in [Visits -> SUBSET Topics]
        /\ protected' \in [Visits -> SUBSET Topics]
        /\ \A u \in Visits \ {v} : free'[u] = free[u] /\ protected'[u] = protected[u]
    BY <1>0, <1>3 DEF ServeTopics, ServeInfo, ChainTypeOK, Free, Protected
  <2>3. ChainTypeOK' /\ \A u \in Visits \ {v} : SameChain(u)
    BY <1>0, <1>1, <2>1, <2>2 DEF ChainTypeOK, SameChain
  <2>4. /\ ResultTypeOK' /\ ScreenTypeOK'
        /\ \A u \in Visits : SameResult(u)
    BY <1>0, <1>1, <2>1 DEF ResultTypeOK, SameResult, ScreenTypeOK, resultVars
  <2>5. RunInv(v)'
    <3>1. /\ AtHand(v)' /\ Addressed(v)' /\ Offered(v)' /\ ReadsOver(v)'
          /\ Recorded(v)'
      BY <1>0, <1>1, <1>2, <2>1
         DEF RunInv, AtHand, Addressed, Offered, ReadsOver, Recorded
    <3>2. TrueReport(v)'
      BY <1>0, <1>1, <2>1 DEF RunInv, TrueReport, resultVars
    <3>3. Accounted(v)'
      BY <1>0, <1>1, <2>1 DEF RunInv, Accounted, Decided, ToDecide, resultVars
    <3> QED
      BY <3>1, <3>2, <3>3 DEF RunInv
  <2> QED
    BY <1>2, <2>3, <2>4, <2>5, RunStepPreserves
<1>4. CASE ServeDelete(v)
  <2>1. /\ phase[v] = "deleting"
        /\ served' = [served EXCEPT ![v] = TRUE]
        /\ topics' = Removed(asked[v], name[v])
        /\ removals' = [removals EXCEPT ![v] = @ \cup {name[v]}]
        /\ UNCHANGED <<waiting, free, protected>>
    BY <1>4 DEF ServeDelete, checkVars
  <2>2. name[v] \in Topics
    BY <1>0, <2>1 DEF RunInv, AtHand
  <2>3. ChainTypeOK' /\ \A u \in Visits \ {v} : SameChain(u)
    BY <1>0, <1>1, <2>1 DEF ChainTypeOK, SameChain
  <2>4. /\ ResultTypeOK'
        /\ removals'[v] = removals[v] \cup {name[v]}
        /\ \A u \in Visits \ {v} : SameResult(u)
    BY <1>0, <1>1, <2>1, <2>2 DEF ResultTypeOK, SameResult, resultVars
  <2>5. ScreenTypeOK'
    BY <1>0, <1>1, <2>1, RemovedTyped DEF ScreenTypeOK
  <2>6. RunInv(v)'
    <3>1. /\ AtHand(v)' /\ Addressed(v)' /\ Offered(v)' /\ ReadsOver(v)'
          /\ Recorded(v)'
      BY <1>0, <1>1, <1>2, <2>1, <2>4
         DEF RunInv, AtHand, Addressed, Offered, ReadsOver, Recorded
    <3>2. name[v] \notin skipped[v]
      BY <1>0, <2>1 DEF RunInv, Accounted, Decided, ToDecide
    <3>3. TrueReport(v)'
      BY <1>0, <1>1, <2>1, <2>4, <3>2 DEF RunInv, TrueReport, resultVars
    <3>4. Accounted(v)'
      BY <1>0, <1>1, <2>1 DEF RunInv, Accounted, Decided, ToDecide, resultVars
    <3> QED
      BY <3>1, <3>3, <3>4 DEF RunInv
  <2> QED
    BY <1>2, <2>3, <2>4, <2>5, <2>6, RunStepPreserves
<1> QED
  BY <1>3, <1>4 DEF Serve

\* A run is started only where there is a broker to address.
LEMMA StartRunPreserves == ASSUME IInv, StartRun PROVE IInv'
<1>0. PICK v \in Visits : v = visit
  BY DEF IInv, TypeOK, ScreenTypeOK
<1>1. /\ SessionTypeOK /\ Prepared /\ ScreenTypeOK
      /\ ChainTypeOK /\ ResultTypeOK /\ RunInv(v)
  BY RunStart
<1>2. /\ OnTabs /\ phase[v] = "off"
      /\ phase' = [phase EXCEPT ![v] = "listing"]
      /\ asked' = [asked EXCEPT ![v] = target]
      /\ waiting' = [waiting EXCEPT ![v] = Reads]
      /\ free' = [free EXCEPT ![v] = {}]
      /\ protected' = [protected EXCEPT ![v] = {}]
      /\ UNCHANGED <<sessionVars, topics, visit, currentTopic, names, todo, name,
                     eligible, served, resultVars, removals, single>>
  BY <1>0 DEF StartRun, UserCanAct, deletingUnusedTopics, getUnusedTopics
<1>3. target \in Brokers
  BY <1>1, <1>2 DEF Prepared, SessionTypeOK
<1>4. ChainTypeOK'
  BY <1>1, <1>2, <1>3 DEF ChainTypeOK, Phases, Reads
<1>5. /\ phase'[v] = "listing" /\ asked'[v] = target
      /\ \A u \in Visits \ {v} : SameChain(u)
  BY <1>1, <1>2, <1>3 DEF ChainTypeOK, SameChain
<1>6. /\ ResultTypeOK' /\ ScreenTypeOK'
      /\ \A u \in Visits : SameResult(u)
  BY <1>1, <1>2 DEF ResultTypeOK, ScreenTypeOK, SameResult, resultVars
<1>7. /\ SessionTypeOK' /\ Prepared'
      /\ UNCHANGED <<target, currentTopic, single>>
  BY <1>1, <1>2 DEF sessionVars, SessionTypeOK, Prepared, OnTabs
<1>8. RunInv(v)'
  BY <1>1, <1>2, <1>3, <1>5, <1>6, <1>7, RunUndecided
<1> QED
  BY <1>4, <1>5, <1>6, <1>7, <1>8, RunStepPreserves

(***************************************************************************)
(* The steps of the screen, the session and the brokers.                   *)
(***************************************************************************)

\* The single deletion: the name it posts is the one its dialog showed.
LEMMA SinglePreserves == ASSUME IInv, Single PROVE IInv'
<1>0. /\ SessionTypeOK /\ Prepared /\ ScreenTypeOK
      /\ SingleDeletesAsked /\ DetailsStay
      /\ target \in Brokers \cup {Unset}
  BY DEF IInv, TypeOK, SessionTypeOK
<1> DEFINE SingleType == [phase : {"off", "confirming", "deleting"},
                          asked : Topics \cup {NoTopic},
                          name : Topics \cup {NoTopic},
                          to : Brokers \cup {Unset},
                          served : BOOLEAN]
<1>1. single \in SingleType /\ NoSingle \in SingleType /\ NoSingle.phase = "off"
  BY <1>0 DEF ScreenTypeOK, NoSingle
<1>2. CASE DeleteTopic
  <2>1. /\ currentTopic \in Topics
        /\ single' = [NoSingle EXCEPT !.phase = "confirming", !.asked = currentTopic]
        /\ UNCHANGED <<sessionVars, topics, visit, currentTopic, runVars>>
    BY <1>0, <1>2 DEF DeleteTopic, ScreenTypeOK
  <2>2. /\ single' \in SingleType
        /\ single'.phase = "confirming" /\ single'.asked = currentTopic
    BY <1>1, <2>1
  <2>3. ScreenTypeOK' /\ SingleDeletesAsked' /\ DetailsStay'
    BY <1>0, <2>1, <2>2 DEF ScreenTypeOK, SingleDeletesAsked, DetailsStay
  <2>4. SessionTypeOK' /\ Prepared' /\ target' = target
    BY <1>0, <2>1 DEF sessionVars, SessionTypeOK, Prepared, OnTabs
  <2> QED
    BY <2>1, <2>3, <2>4, ScreenStepPreserves
<1>3. CASE ConfirmSingle
  <2>1. /\ single.phase = "confirming"
        /\ UNCHANGED <<sessionVars, topics, visit, currentTopic, runVars>>
    BY <1>3 DEF ConfirmSingle
  <2>2. /\ single' \in SingleType
        /\ single'.phase # "confirming"
        /\ single'.phase = "deleting" => single'.name = single'.asked
    <3>1. CASE currentTopic = NoTopic
      <4>1. single' = NoSingle
        BY <1>3, <3>1 DEF ConfirmSingle
      <4> QED BY <1>1, <4>1
    <3>2. CASE currentTopic # NoTopic
      <4>1. single' = [single EXCEPT !.phase = "deleting",
                                     !.name = currentTopic, !.to = target]
        BY <1>3, <3>2 DEF ConfirmSingle
      <4>2. currentTopic = single.asked /\ currentTopic \in Topics
        BY <1>0, <2>1, <3>2 DEF DetailsStay, ScreenTypeOK
      <4> QED BY <1>0, <1>1, <4>1, <4>2
    <3> QED
      BY <3>1, <3>2
  <2>3. ScreenTypeOK' /\ SingleDeletesAsked' /\ DetailsStay'
    BY <1>0, <2>1, <2>2 DEF ScreenTypeOK, SingleDeletesAsked, DetailsStay
  <2>4. SessionTypeOK' /\ Prepared' /\ target' = target
    BY <1>0, <2>1 DEF sessionVars, SessionTypeOK, Prepared, OnTabs
  <2> QED
    BY <2>1, <2>3, <2>4, ScreenStepPreserves
<1>4. CASE CancelSingle
  <2>1. /\ single' = NoSingle
        /\ UNCHANGED <<sessionVars, topics, visit, currentTopic, runVars>>
    BY <1>4 DEF CancelSingle
  <2>2. ScreenTypeOK' /\ SingleDeletesAsked' /\ DetailsStay'
    BY <1>0, <1>1, <2>1 DEF ScreenTypeOK, SingleDeletesAsked, DetailsStay
  <2>3. SessionTypeOK' /\ Prepared' /\ target' = target
    BY <1>0, <2>1 DEF sessionVars, SessionTypeOK, Prepared, OnTabs
  <2> QED
    BY <2>1, <2>2, <2>3, ScreenStepPreserves
<1>5. CASE ServeSingle
  <2>1. /\ single.phase = "deleting"
        /\ single' = [single EXCEPT !.served = TRUE]
        /\ topics' = Removed(single.to, single.name)
        /\ UNCHANGED <<sessionVars, visit, currentTopic, runVars>>
    BY <1>5 DEF ServeSingle
  <2>2. /\ single' \in SingleType /\ single'.phase = "deleting"
        /\ single'.name = single.name /\ single'.asked = single.asked
    BY <1>1, <2>1
  <2>3. topics' \in [Brokers -> [Topics -> TopicStates]]
    BY <1>0, <2>1, RemovedTyped
  <2>4. ScreenTypeOK' /\ SingleDeletesAsked' /\ DetailsStay'
    BY <1>0, <2>1, <2>2, <2>3 DEF ScreenTypeOK, SingleDeletesAsked, DetailsStay
  <2>5. SessionTypeOK' /\ Prepared' /\ target' = target
    BY <1>0, <2>1 DEF sessionVars, SessionTypeOK, Prepared, OnTabs
  <2> QED
    BY <2>1, <2>4, <2>5, ScreenStepPreserves
<1>6. CASE SingleDeleted
  <2>1. /\ single' = NoSingle /\ currentTopic' = NoTopic /\ RefreshAll
        /\ UNCHANGED <<target, session, topics, visit, runVars>>
    BY <1>6 DEF SingleDeleted
  <2>2. ScreenTypeOK' /\ SingleDeletesAsked' /\ DetailsStay'
    BY <1>0, <1>1, <2>1 DEF ScreenTypeOK, SingleDeletesAsked, DetailsStay
  <2>3. SessionTypeOK' /\ Prepared' /\ target' = target
    BY <1>0, <2>1, RefreshAllTyped DEF SessionTypeOK, Prepared, OnTabs
  <2> QED
    BY <2>1, <2>2, <2>3, ScreenStepPreserves
<1>7. CASE SingleFailed
  <2>1. /\ single' = NoSingle
        /\ UNCHANGED <<target, connecting, busy, topics, visit, currentTopic, runVars>>
    BY <1>7 DEF SingleFailed
  <2>2. ScreenTypeOK' /\ SingleDeletesAsked' /\ DetailsStay'
    BY <1>0, <1>1, <2>1 DEF ScreenTypeOK, SingleDeletesAsked, DetailsStay
  <2>3. SessionTypeOK' /\ Prepared' /\ target' = target
    BY <1>0, <1>7, FailureFrame DEF SingleFailed, SessionTypeOK
  <2> QED
    BY <2>1, <2>2, <2>3, ScreenStepPreserves
<1> QED
  BY <1>2, <1>3, <1>4, <1>5, <1>6, <1>7 DEF Single

\* Clicks, the session's own steps, and whatever happens on the brokers.
LEMMA SurroundingsPreserve ==
    ASSUME IInv,
           \/ ConsoleStep
           \/ \E q \in Topics \cup {NoTopic} : ShowDetails(q)
           \/ Revisit
           \/ \E b \in Brokers, q \in Topics, state \in TopicStates :
                 BrokerActivity(b, q, state)
    PROVE  IInv'
<1>0. /\ SessionTypeOK /\ Prepared /\ ScreenTypeOK
      /\ SingleDeletesAsked /\ DetailsStay
  BY DEF IInv, TypeOK
<1>1. CASE ConsoleStep
  <2>1. /\ SessionStep
        /\ UNCHANGED <<topics, visit, currentTopic, runVars, single>>
    BY <1>1 DEF ConsoleStep, Clicked, SessionStep
  <2>2. SessionTypeOK' /\ Prepared' /\ (target # Unset => target' # Unset)
    BY <1>0, <2>1, SessionStepEffect
  <2>3. ScreenTypeOK' /\ SingleDeletesAsked' /\ DetailsStay'
    BY <1>0, <2>1 DEF ScreenTypeOK, SingleDeletesAsked, DetailsStay
  <2> QED
    BY <2>1, <2>2, <2>3, ScreenStepPreserves
<1>2. ASSUME NEW q \in Topics \cup {NoTopic}, ShowDetails(q) PROVE IInv'
  <2>1. /\ single.phase # "confirming" /\ currentTopic' = q
        /\ UNCHANGED <<sessionVars, topics, visit, runVars, single>>
    BY <1>2 DEF ShowDetails, UserCanAct, DialogOpen
  <2>2. ScreenTypeOK' /\ SingleDeletesAsked' /\ DetailsStay'
    BY <1>0, <2>1 DEF ScreenTypeOK, SingleDeletesAsked, DetailsStay
  <2>3. SessionTypeOK' /\ Prepared' /\ target' = target
    BY <1>0, <2>1 DEF sessionVars, SessionTypeOK, Prepared, OnTabs
  <2> QED
    BY <2>1, <2>2, <2>3, ScreenStepPreserves
<1>3. CASE Revisit
  <2>1. /\ visit < MaxVisits /\ visit' = visit + 1
        /\ UNCHANGED <<sessionVars, topics, currentTopic, runVars, single>>
    BY <1>3 DEF Revisit
  <2>2. visit' \in Visits
    BY <1>0, <2>1, MaxVisitsAssumption DEF ScreenTypeOK, Visits
  <2>3. ScreenTypeOK' /\ SingleDeletesAsked' /\ DetailsStay'
    BY <1>0, <2>1, <2>2 DEF ScreenTypeOK, SingleDeletesAsked, DetailsStay
  <2>4. SessionTypeOK' /\ Prepared' /\ target' = target
    BY <1>0, <2>1 DEF sessionVars, SessionTypeOK, Prepared, OnTabs
  <2> QED
    BY <2>1, <2>3, <2>4, ScreenStepPreserves
<1>4. ASSUME NEW b \in Brokers, NEW q \in Topics,
             NEW state \in TopicStates,
             BrokerActivity(b, q, state)
      PROVE  IInv'
  <2>1. /\ topics' = [topics EXCEPT ![b][q] = state]
        /\ UNCHANGED <<sessionVars, visit, currentTopic, runVars, single>>
    BY <1>4 DEF BrokerActivity
  <2>2. topics' \in [Brokers -> [Topics -> TopicStates]]
    BY <1>0, <2>1 DEF ScreenTypeOK
  <2>3. ScreenTypeOK' /\ SingleDeletesAsked' /\ DetailsStay'
    BY <1>0, <2>1, <2>2 DEF ScreenTypeOK, SingleDeletesAsked, DetailsStay
  <2>4. SessionTypeOK' /\ Prepared' /\ target' = target
    BY <1>0, <2>1 DEF sessionVars, SessionTypeOK, Prepared, OnTabs
  <2> QED
    BY <2>1, <2>3, <2>4, ScreenStepPreserves
<1> QED
  BY <1>1, <1>2, <1>3, <1>4

(***************************************************************************)
(* The theorems.                                                           *)
(***************************************************************************)

\* The console starts with no run, no dialog and no broker.
THEOREM InitIInv == Init => IInv
<1> SUFFICES ASSUME Init PROVE IInv
  OBVIOUS
<1>1. SessionTypeOK /\ Prepared
  <2>1. session \in Session /\ ~session.connected
    BY DEF Init, SessionInit, Session
  <2> QED
    BY <2>1 DEF Init, SessionInit, SessionTypeOK, Prepared, OnTabs
<1>2. ScreenTypeOK
  BY MaxVisitsAssumption DEF Init, ScreenTypeOK, Visits, NoSingle
<1>3. ChainTypeOK
  BY DEF Init, ChainTypeOK, Phases
<1>4. ResultTypeOK
  BY DEF Init, ResultTypeOK
<1>5. ASSUME NEW v \in Visits PROVE RunInv(v)
  BY DEF Init, RunInv, AtHand, Addressed, Offered, ReadsOver, Recorded,
         TrueReport, Accounted, Decided, ToDecide
<1>6. SingleDeletesAsked /\ DetailsStay
  BY DEF Init, NoSingle, SingleDeletesAsked, DetailsStay
<1> QED
  BY <1>1, <1>2, <1>3, <1>4, <1>5, <1>6 DEF IInv, TypeOK, RunInv

\* Every step keeps the invariant.
THEOREM NextIInv == IInv /\ [Next]_vars => IInv'
<1> SUFFICES ASSUME IInv, [Next]_vars PROVE IInv'
  OBVIOUS
<1>1. CASE StartRun
  BY <1>1, StartRunPreserves
<1>2. ASSUME NEW v \in Visits, Proceed(v) PROVE IInv'
  BY <1>2, OpeningPreserves, ConfirmPreserves, DecisionPreserves DEF Proceed
<1>3. ASSUME NEW v \in Visits, Serve(v) PROVE IInv'
  BY <1>3, ServePreserves
<1>4. CASE Single
  BY <1>4, SinglePreserves
<1>5. CASE UNCHANGED vars
  <2>1. /\ SessionTypeOK' /\ Prepared' /\ ScreenTypeOK'
        /\ SingleDeletesAsked' /\ DetailsStay'
    BY <1>5 DEF vars, sessionVars, IInv, TypeOK, SessionTypeOK, Prepared, OnTabs,
       ScreenTypeOK, SingleDeletesAsked, DetailsStay
  <2> QED
    BY <1>5, <2>1, ScreenStepPreserves DEF vars, sessionVars
<1> QED
  BY <1>1, <1>2, <1>3, <1>4, <1>5, SurroundingsPreserve DEF Next

\* Type correctness of the deletions, for all topics, brokers and failures.
THEOREM TypeCorrect == Spec => []TypeOK
<1>1. IInv => TypeOK
  BY DEF IInv
<1> QED
  BY InitIInv, NextIInv, <1>1, PTL DEF Spec

\* What a run reports is what happened, whatever was lost or failed and
\* however many runs overlap.
THEOREM ReportsAreTrue == Spec => []ReportIsTrue
<1>1. IInv => ReportIsTrue
  BY DEF IInv, RunInv, ReportIsTrue
<1> QED
  BY InitIInv, NextIInv, <1>1, PTL DEF Spec

\* No name is lost, decided twice or brought in by a run.
THEOREM NamesAccountedFor == Spec => []EachNameOnce
<1>1. IInv => EachNameOnce
  BY DEF IInv, RunInv, EachNameOnce
<1> QED
  BY InitIInv, NextIInv, <1>1, PTL DEF Spec

\* A single deletion posts the name that its user was asked about.
THEOREM SingleAsAsked == Spec => []SingleDeletesAsked
<1>1. IInv => SingleDeletesAsked
  BY DEF IInv
<1> QED
  BY InitIInv, NextIInv, <1>1, PTL DEF Spec

(***************************************************************************)
(* TopicCleanup implements BulkCleanup.                                    *)
(***************************************************************************)

\* What BulkCleanup sees of a step that concerns one run.
LEMMA Abstraction ==
    ASSUME NEW v \in Visits, \A u \in Visits \ {v} : SameChain(u)
    PROVE  /\ Pending' = [Pending EXCEPT ![v] = PendingOf(v)']
           /\ SeenNow' = [SeenNow EXCEPT ![v] = SeenOf(v)']
           /\ Struck' = [Struck EXCEPT ![v] = StruckOf(v)']
           /\ Pending[v] = PendingOf(v)
           /\ SeenNow[v] = SeenOf(v)
           /\ Struck[v] = StruckOf(v)
<1>1. ASSUME NEW u \in Visits \ {v}
      PROVE  PendingOf(u)' = PendingOf(u) /\ SeenOf(u)' = SeenOf(u) /\ StruckOf(u)' = StruckOf(u)
  BY DEF SameChain, PendingOf, SeenOf, StruckOf, unusedTopics
<1>2. Pending' = [Pending EXCEPT ![v] = PendingOf(v)']
  BY <1>1 DEF Pending
<1>3. SeenNow' = [SeenNow EXCEPT ![v] = SeenOf(v)']
  BY <1>1 DEF SeenNow
<1>4. Struck' = [Struck EXCEPT ![v] = StruckOf(v)']
  BY <1>1 DEF Struck
<1> QED
  BY <1>2, <1>3, <1>4 DEF Pending, SeenNow, Struck

\* A step after which the run looks the same is not seen.
LEMMA Unseen ==
    ASSUME NEW v \in Visits, \A u \in Visits \ {v} : SameChain(u),
           PendingOf(v)' = PendingOf(v), SeenOf(v)' = SeenOf(v),
           StruckOf(v)' = StruckOf(v),
           UNCHANGED <<names, removals>>
    PROVE  UNCHANGED Cleanup!cleanupVars
<1>1. Pending' = Pending /\ SeenNow' = SeenNow /\ Struck' = Struck
  BY Abstraction DEF Pending, SeenNow, Struck
<1> QED
  BY <1>1 DEF Cleanup!cleanupVars

\* Nor is anything that leaves the runs alone.
LEMMA UnseenSurroundings ==
    ASSUME UNCHANGED runVars PROVE UNCHANGED Cleanup!cleanupVars
<1>1. ASSUME NEW v \in Visits
      PROVE  PendingOf(v)' = PendingOf(v) /\ SeenOf(v)' = SeenOf(v) /\ StruckOf(v)' = StruckOf(v)
  BY DEF PendingOf, SeenOf, StruckOf, unusedTopics, runVars, planVars, checkVars
<1>2. Pending' = Pending /\ SeenNow' = SeenNow /\ Struck' = Struck
  BY <1>1 DEF Pending, SeenNow, Struck
<1> QED
  BY <1>2 DEF Cleanup!cleanupVars, runVars, planVars

\* The confirmation is the agreement.
LEMMA ConfirmAgrees ==
    ASSUME IInv, NEW v \in Visits, Confirm(v)
    PROVE  Cleanup!Agree(v, todo[v])
<1>0. ChainTypeOK
  BY RunStart
<1>1. /\ phase[v] = "confirming"
      /\ phase' = [phase EXCEPT ![v] = "checking"]
      /\ asked' = [asked EXCEPT ![v] = target]
      /\ waiting' = [waiting EXCEPT ![v] = Reads]
      /\ free' = [free EXCEPT ![v] = {}]
      /\ protected' = [protected EXCEPT ![v] = {}]
      /\ UNCHANGED <<todo, name, eligible, served>>
  BY DEF Confirm, getUnusedTopics
<1>2. /\ names' = [names EXCEPT ![v] = todo[v]]
      /\ removals' = [removals EXCEPT ![v] = {}]
  BY DEF Confirm
<1>3. /\ phase'[v] = "checking" /\ waiting'[v] # {}
      /\ \A u \in Visits \ {v} : SameChain(u)
  BY <1>0, <1>1 DEF ChainTypeOK, SameChain, Reads
<1>4. /\ PendingOf(v) = {} /\ PendingOf(v)' = todo[v]
      /\ SeenOf(v)' = {}
      /\ StruckOf(v) = NoTopic /\ StruckOf(v)' = NoTopic
  BY <1>1, <1>3 DEF PendingOf, SeenOf, StruckOf
<1>5. /\ Pending' = [Pending EXCEPT ![v] = todo[v]]
      /\ SeenNow' = [SeenNow EXCEPT ![v] = {}]
      /\ Struck' = [Struck EXCEPT ![v] = Struck[v]]
      /\ Pending[v] = {} /\ Struck[v] = NoTopic
  BY <1>3, <1>4, Abstraction
<1>6. Struck' = Struck
  BY <1>5 DEF Struck
<1> QED
  BY <1>2, <1>5, <1>6 DEF Cleanup!Agree, Cleanup!Idle

\* The second of the two reads completes an observation; a removal by the
\* broker is a removal.
LEMMA ServeImplements ==
    ASSUME IInv, NEW v \in Visits, Serve(v)
    PROVE  Cleanup!CleanupStep \/ UNCHANGED Cleanup!cleanupVars
<1>0. ChainTypeOK /\ RunInv(v)
  BY RunStart
<1>1. UNCHANGED <<phase, names, todo, name, eligible, asked>>
  BY DEF Serve, ServeTopics, ServeInfo, ServeDelete, planVars, checkVars
<1>2. PendingOf(v)' = PendingOf(v) /\ StruckOf(v)' = StruckOf(v)
  BY <1>1 DEF PendingOf, StruckOf
<1>3. CASE ServeTopics(v) \/ ServeInfo(v)
  <2>1. /\ phase[v] \in {"listing", "checking"} /\ waiting[v] # {}
        /\ UNCHANGED <<served, removals>>
        /\ \A u \in Visits \ {v} : SameChain(u)
    <3>1. waiting[v] # {} /\ UNCHANGED <<served, removals>>
      BY <1>3 DEF ServeTopics, ServeInfo, planVars
    <3>2. phase[v] \in {"listing", "checking"}
      BY <1>0, <3>1 DEF RunInv, ReadsOver
    <3>3. \A u \in Visits \ {v} : SameChain(u)
      BY <1>0, <1>1, <1>3, <3>1 DEF ServeTopics, ServeInfo, ChainTypeOK, SameChain
    <3> QED
      BY <3>1, <3>2, <3>3
  <2>2. CASE phase[v] = "checking" /\ waiting'[v] = {}
    <3> DEFINE found == SeenOf(v)'
    <3>1. found \in SUBSET Topics
      <4>1. free'[v] \in SUBSET Topics
        BY <1>0, <1>3 DEF ServeTopics, ServeInfo, ChainTypeOK, Free
      <4> QED
        BY <1>1, <2>2, <4>1 DEF SeenOf, unusedTopics
    <3>2. PendingOf(v) # {} /\ StruckOf(v) = NoTopic
      BY <1>0, <2>2 DEF RunInv, Offered, PendingOf, StruckOf
    <3>3. /\ Pending' = Pending /\ Struck' = Struck
          /\ SeenNow' = [SeenNow EXCEPT ![v] = found]
          /\ Pending[v] # {} /\ Struck[v] = NoTopic
      <4> HIDE DEF found
      <4>1. /\ Pending' = [Pending EXCEPT ![v] = PendingOf(v)']
            /\ SeenNow' = [SeenNow EXCEPT ![v] = SeenOf(v)']
            /\ Struck' = [Struck EXCEPT ![v] = StruckOf(v)']
            /\ Pending[v] = PendingOf(v)
            /\ Struck[v] = StruckOf(v)
        BY <2>1, Abstraction
      <4>2. found = SeenOf(v)'
        BY DEF found
      <4> QED
        BY <1>2, <3>2, <4>1, <4>2 DEF Pending, Struck
    <3>4. Cleanup!Observe(v, found)
      BY <1>1, <2>1, <3>3 DEF Cleanup!Observe
    <3> QED
      BY <3>1, <3>4 DEF Cleanup!CleanupStep
  <2>3. CASE ~(phase[v] = "checking" /\ waiting'[v] = {})
    <3>1. SeenOf(v) = {} /\ SeenOf(v)' = {}
      BY <1>1, <2>1, <2>3 DEF SeenOf
    <3> QED
      BY <1>1, <1>2, <2>1, <3>1, Unseen
  <2> QED
    BY <2>2, <2>3
<1>4. CASE ServeDelete(v)
  <2>1. /\ phase[v] = "deleting"
        /\ removals' = [removals EXCEPT ![v] = @ \cup {name[v]}]
        /\ served' = [served EXCEPT ![v] = TRUE]
        /\ UNCHANGED <<waiting, free, protected>>
    BY <1>4 DEF ServeDelete, checkVars
  <2>2. name[v] # NoTopic
    BY <1>0, <2>1 DEF RunInv, AtHand
  <2>3. \A u \in Visits \ {v} : SameChain(u)
    BY <1>0, <1>1, <2>1 DEF ChainTypeOK, SameChain
  <2>4. SeenOf(v)' = SeenOf(v) /\ StruckOf(v) = name[v]
    BY <1>1, <2>1 DEF StruckOf, SeenOf
  <2>5. /\ Pending' = Pending /\ Struck' = Struck /\ SeenNow' = SeenNow
        /\ Struck[v] = name[v]
    BY <1>2, <2>3, <2>4, Abstraction DEF Pending, Struck, SeenNow
  <2>6. Cleanup!Remove(v)
    BY <1>1, <2>1, <2>2, <2>5 DEF Cleanup!Remove
  <2> QED
    BY <2>6 DEF Cleanup!CleanupStep
<1> QED
  BY <1>3, <1>4 DEF Serve

\* Going on is a decision: it drops what it skips and strikes what it posts.
LEMMA DecisionImplements ==
    ASSUME IInv, NEW v \in Visits,
           Rechecked(v) \/ Deleted(v) \/ DeleteFailed(v)
    PROVE  Cleanup!CleanupStep
<1>0. /\ SessionTypeOK /\ ChainTypeOK /\ RunInv(v)
      /\ phase[v] \in {"checking", "deleting"} => target \in Brokers
  BY RunStart
<1>1. /\ phase[v] \in {"checking", "deleting"}
      /\ UNCHANGED <<names, removals>>
  BY DEF Rechecked, Deleted, DeleteFailed
<1>2. SeenOf(v) \in SUBSET Topics /\ Continue(v, SeenOf(v))
  <2>1. CASE Rechecked(v)
    <3>1. phase[v] = "checking" /\ waiting[v] = {} /\ Continue(v, unusedTopics(v))
      BY <2>1 DEF Rechecked, Checked
    <3> QED
      BY <1>0, <3>1, UnusedTyped DEF SeenOf
  <2>2. CASE Deleted(v) \/ DeleteFailed(v)
    <3>1. phase[v] = "deleting" /\ Continue(v, eligible[v])
      BY <2>2 DEF Deleted, DeleteFailed
    <3> QED
      BY <1>0, <3>1, UnusedTyped DEF SeenOf
  <2> QED
    BY <2>1, <2>2
<1>3. /\ ChainTypeOK'
      /\ \A u \in Visits \ {v} : SameChain(u)
      /\ \E before \in SUBSET Topics : Outcome(v, before, SeenOf(v))
  BY <1>0, <1>1, <1>2, ContinueEffect
<1>4. PICK before \in SUBSET Topics : Outcome(v, before, SeenOf(v))
  BY <1>3
<1>5. /\ Pending' = [Pending EXCEPT ![v] = PendingOf(v)']
      /\ SeenNow' = [SeenNow EXCEPT ![v] = SeenOf(v)']
      /\ Struck' = [Struck EXCEPT ![v] = StruckOf(v)']
      /\ Pending[v] = PendingOf(v)
      /\ SeenNow[v] = SeenOf(v)
      /\ PendingOf(v) = todo[v]
  BY <1>1, <1>3, Abstraction DEF PendingOf
<1>6. todo[v] \in SUBSET Topics
  BY <1>0 DEF ChainTypeOK
<1>7. CASE phase'[v] = "off"
  <2>1. before = todo[v] /\ before \subseteq todo[v] \ SeenOf(v)
    BY <1>4, <1>7 DEF Outcome
  <2>2. PendingOf(v)' = {} /\ SeenOf(v)' = {} /\ StruckOf(v)' = NoTopic
    BY <1>7 DEF PendingOf, SeenOf, StruckOf
  <2>3. PendingOf(v)' = Pending[v] \ (before \cup {NoTopic})
    BY <1>5, <2>1, <2>2
  <2>4. Cleanup!Decide(v, before, NoTopic)
    BY <1>1, <1>5, <2>1, <2>2, <2>3 DEF Cleanup!Decide, Cleanup!KeepOrForget
  <2> QED
    BY <2>4 DEF Cleanup!CleanupStep
<1>8. CASE phase'[v] = "deleting"
  <2> DEFINE n == name'[v]
  <2>1. /\ before \subseteq todo[v] \ SeenOf(v)
        /\ n \in todo[v] \cap SeenOf(v)
        /\ todo'[v] = todo[v] \ (before \cup {n})
        /\ eligible'[v] = SeenOf(v)
    BY <1>4, <1>8 DEF Outcome
  <2>2. /\ PendingOf(v)' = todo[v] \ (before \cup {n})
        /\ SeenOf(v)' = SeenOf(v) /\ StruckOf(v)' = n
    BY <1>8, <2>1 DEF PendingOf, SeenOf, StruckOf
  <2>3. SeenNow' = SeenNow
    BY <1>5, <2>2 DEF SeenNow
  <2>4. Cleanup!Decide(v, before, n)
    <3> HIDE DEF n
    <3> QED BY <1>1, <1>5, <2>1, <2>2, <2>3 DEF Cleanup!Decide, Cleanup!KeepOrForget
  <2>5. n \in Topics
    BY <1>6, <2>1
  <2> QED
    BY <2>4, <2>5 DEF Cleanup!CleanupStep
<1> QED
  BY <1>4, <1>7, <1>8 DEF Outcome

\* Up to the confirmation nothing is seen; a failed re-check gives all names
\* up.
LEMMA OpeningImplements ==
    ASSUME IInv, NEW v \in Visits, Listed(v) \/ CheckFailed(v) \/ Cancel(v)
    PROVE  Cleanup!CleanupStep \/ UNCHANGED Cleanup!cleanupVars
<1>0. ChainTypeOK
  BY RunStart
<1>1. UNCHANGED <<names, removals>> /\ StruckOf(v) = NoTopic
  BY DEF Listed, CheckFailed, Cancel, StruckOf
<1>2. /\ phase'[v] \in {"off", "confirming"}
      /\ \A u \in Visits \ {v} : SameChain(u)
  <2>1. CASE Close(v)
    <3>1. /\ ChainTypeOK'
          /\ phase'[v] = "off" /\ waiting'[v] = {} /\ todo'[v] = {}
          /\ \A u \in Visits \ {v} : SameChain(u)
      BY <1>0, <2>1, CloseEffect
    <3> QED
      BY <3>1
  <2>2. CASE ~Close(v)
    BY <1>0, <2>2 DEF Listed, CheckFailed, Cancel, CheckDone, ChainTypeOK, SameChain
  <2> QED
    BY <2>1, <2>2
<1>3. PendingOf(v)' = {} /\ SeenOf(v)' = {} /\ StruckOf(v)' = NoTopic
  BY <1>2 DEF PendingOf, SeenOf, StruckOf
<1>4. CASE phase[v] = "checking"
  <2>1. /\ Pending' = [Pending EXCEPT ![v] = {}]
        /\ SeenNow' = [SeenNow EXCEPT ![v] = {}]
        /\ Struck' = [Struck EXCEPT ![v] = Struck[v]]
        /\ Struck[v] = NoTopic
    BY <1>1, <1>2, <1>3, Abstraction
  <2>2. Struck' = Struck
    BY <2>1 DEF Struck
  <2>3. Cleanup!GiveUp(v)
    BY <1>1, <2>1, <2>2 DEF Cleanup!GiveUp
  <2> QED
    BY <2>3 DEF Cleanup!CleanupStep
<1>5. CASE phase[v] # "checking"
  <2>1. phase[v] \in {"listing", "confirming"}
    BY <1>5 DEF Listed, CheckFailed, Cancel
  <2>2. PendingOf(v) = {} /\ SeenOf(v) = {}
    BY <2>1 DEF PendingOf, SeenOf
  <2> QED
    BY <1>1, <1>2, <1>3, <2>2, Unseen
<1> QED
  BY <1>4, <1>5

\* Nor is the start of a run.
LEMMA StartUnseen == ASSUME IInv, StartRun PROVE UNCHANGED Cleanup!cleanupVars
<1>1. PICK v \in Visits : v = visit
  BY DEF IInv, TypeOK, ScreenTypeOK
<1>2. ChainTypeOK
  BY DEF IInv, TypeOK
<1>3. /\ phase[v] = "off"
      /\ phase' = [phase EXCEPT ![v] = "listing"]
      /\ asked' = [asked EXCEPT ![v] = target]
      /\ waiting' = [waiting EXCEPT ![v] = Reads]
      /\ free' = [free EXCEPT ![v] = {}]
      /\ protected' = [protected EXCEPT ![v] = {}]
      /\ UNCHANGED <<names, todo, name, eligible, served, removals>>
  BY <1>1 DEF StartRun, deletingUnusedTopics, getUnusedTopics
<1>4. phase'[v] = "listing" /\ \A u \in Visits \ {v} : SameChain(u)
  BY <1>2, <1>3 DEF ChainTypeOK, SameChain
<1>5. /\ PendingOf(v)' = PendingOf(v) /\ SeenOf(v)' = SeenOf(v)
      /\ StruckOf(v)' = StruckOf(v)
  BY <1>3, <1>4 DEF PendingOf, SeenOf, StruckOf
<1> QED
  BY <1>3, <1>4, <1>5, Unseen

\* Every step is a step of the contract or leaves it unchanged.
THEOREM NextImplements ==
    ASSUME IInv, [Next]_vars
    PROVE  Cleanup!CleanupStep \/ UNCHANGED Cleanup!cleanupVars
<1>1. CASE StartRun
  BY <1>1, StartUnseen
<1>2. ASSUME NEW v \in Visits, Proceed(v)
      PROVE  Cleanup!CleanupStep \/ UNCHANGED Cleanup!cleanupVars
  <2>1. CASE Confirm(v)
    <3>1. todo[v] \in SUBSET Topics
      BY DEF IInv, TypeOK, ChainTypeOK
    <3> QED
      BY <2>1, <3>1, ConfirmAgrees DEF Cleanup!CleanupStep
  <2>2. CASE ~Confirm(v)
    BY <1>2, <2>2, OpeningImplements, DecisionImplements DEF Proceed
  <2> QED
    BY <2>1, <2>2
<1>3. ASSUME NEW v \in Visits, Serve(v)
      PROVE  Cleanup!CleanupStep \/ UNCHANGED Cleanup!cleanupVars
  BY <1>3, ServeImplements
<1>4. CASE \/ ConsoleStep \/ Single \/ Revisit
           \/ \E t \in Topics \cup {NoTopic} : ShowDetails(t)
           \/ \E b \in Brokers, t \in Topics, state \in TopicStates :
                 BrokerActivity(b, t, state)
           \/ UNCHANGED vars
  <2>1. UNCHANGED runVars
    BY <1>4 DEF ConsoleStep, Single, DeleteTopic, ConfirmSingle, CancelSingle,
       ServeSingle, SingleDeleted, SingleFailed, Revisit, ShowDetails,
       BrokerActivity, vars
  <2> QED
    BY <2>1, UnseenSurroundings
<1> QED
  BY <1>1, <1>2, <1>3, <1>4 DEF Next

\* A run deletes only what was agreed to, only on a reading that found it
\* unused, each name once and one after the other.
THEOREM Implementation == Spec => ImplementsCleanup
<1>1. Init => Cleanup!CleanupInit
  <2> SUFFICES ASSUME Init PROVE Cleanup!CleanupInit
    OBVIOUS
  <2>1. \A v \in Visits : PendingOf(v) = {} /\ SeenOf(v) = {} /\ StruckOf(v) = NoTopic
    BY DEF Init, PendingOf, SeenOf, StruckOf
  <2> QED
    BY <2>1 DEF Init, Pending, SeenNow, Struck, Cleanup!CleanupInit
<1> QED
  BY InitIInv, NextIInv, NextImplements, <1>1, PTL
     DEF Spec, ImplementsCleanup, Cleanup!CleanupSpec

(***************************************************************************)
(* What follows from the contract of bulk deletions.                       *)
(***************************************************************************)

Contract == INSTANCE BulkCleanupProofs
    WITH Runs    <- Visits,
         Names   <- Topics,
         NoName  <- NoTopic,
         agreed  <- names,
         pending <- Pending,
         seen    <- SeenNow,
         struck  <- Struck,
         removed <- removals

\* The contract of the two instances is the same one.
LEMMA SameContract == Spec => Contract!CleanupSpec
<1>1. Cleanup!CleanupInit => Contract!CleanupInit
  BY DEF Cleanup!CleanupInit, Contract!CleanupInit
<1>2. [Cleanup!CleanupStep]_Cleanup!cleanupVars
        => [Contract!CleanupStep]_Contract!cleanupVars
  BY DEF Cleanup!CleanupStep, Cleanup!Agree, Cleanup!Observe, Cleanup!Decide,
     Cleanup!Remove, Cleanup!GiveUp, Cleanup!Idle, Cleanup!KeepOrForget,
     Cleanup!cleanupVars, Contract!CleanupStep, Contract!Agree,
     Contract!Observe, Contract!Decide, Contract!Remove, Contract!GiveUp,
     Contract!Idle, Contract!KeepOrForget, Contract!cleanupVars
<1> QED
  BY <1>1, <1>2, Implementation, PTL
     DEF ImplementsCleanup, Cleanup!CleanupSpec, Contract!CleanupSpec

\* Of two overlapping runs, too, each removes only what its own dialog named,
\* and goes on to no name a second time.
THEOREM RemovesAgreed ==
    Spec => [](Contract!OnlyAgreed /\ Contract!OnceOnly)
<1>1. Contract!CleanupSpec => []Contract!OnlyAgreed
  BY Contract!AgreedOnly
<1>2. Contract!CleanupSpec => []Contract!OnceOnly
  BY Contract!NoneTwice
<1> QED
  BY <1>1, <1>2, SameContract, PTL

\* The deletion of a name is requested only after a reading that found it
\* unused, and never of a name that the run has removed already.
THEOREM RequestedOnSight == Spec => Contract!StruckOnSight
<1>1. Contract!CleanupSpec => Contract!StruckOnSight
  BY Contract!SeenFirst
<1> QED
  BY <1>1, SameContract, PTL

(***************************************************************************)
(* TopicCleanup implements ConsoleSession.                                 *)
(***************************************************************************)

\* The single deletion, like a run, is started from the tabs.
SingleAddressed == single.phase # "off" => target # Unset

\* Once the URLs are prepared, they stay prepared.
LEMMA TargetSticks ==
    ASSUME IInv, [Next]_vars, target # Unset PROVE target' # Unset
<1>1. CASE ConsoleStep
  <2>1. SessionTypeOK /\ Prepared /\ SessionStep
    BY <1>1 DEF IInv, TypeOK, ConsoleStep, Clicked, SessionStep
  <2> QED
    BY <2>1, SessionStepEffect
<1>2. CASE ~ConsoleStep
  BY <1>2 DEF Next, StartRun, Proceed, Listed, Confirm, Cancel, Rechecked, CheckFailed, Deleted, DeleteFailed, Serve, ServeTopics,
     ServeInfo, ServeDelete, Single, DeleteTopic, ConfirmSingle, CancelSingle,
     ServeSingle, SingleDeleted, SingleFailed, ShowDetails, Revisit,
     BrokerActivity, vars, sessionVars
<1> QED
  BY <1>1, <1>2

LEMMA SingleAddressedKept ==
    ASSUME IInv, SingleAddressed, [Next]_vars PROVE SingleAddressed'
<1>1. CASE DeleteTopic
  <2>1. target # Unset
    BY <1>1 DEF DeleteTopic, UserCanAct, IInv, Prepared
  <2> QED
    BY <2>1, TargetSticks DEF SingleAddressed
<1>2. CASE ~DeleteTopic
  <2>1. single.phase = "off" => single'.phase = "off"
    BY <1>2 DEF Next, ConsoleStep, StartRun, Proceed, Listed, Confirm,
       Cancel, Rechecked, CheckFailed, Deleted, DeleteFailed, Serve, ServeTopics,
       ServeInfo, ServeDelete, Single, ConfirmSingle, CancelSingle, ServeSingle,
       SingleDeleted, SingleFailed, ShowDetails, Revisit, BrokerActivity, vars
  <2> QED
    BY <2>1, TargetSticks DEF SingleAddressed
<1> QED
  BY <1>1, <1>2

\* What a chain that goes on, or ends, is for the session.
LEMMA ContinueRefreshes ==
    ASSUME NEW v \in Visits, NEW found, Continue(v, found)
    PROVE  RefreshAll \/ UNCHANGED <<connecting, busy>>
  BY DEF Continue, Delete, Finish

\* An answer to a run is a refresh or nothing, a failure a failed operation.
LEMMA ProceedSession ==
    ASSUME IInv, NEW v \in Visits, Proceed(v)
    PROVE  SessionStep \/ UNCHANGED sessionVars
<1>0. phase[v] # "off" => target # Unset
  BY DEF IInv, RunInv, Addressed
<1>1. CASE Listed(v) \/ Confirm(v) \/ Cancel(v)
  BY <1>1 DEF Listed, Confirm, Cancel
<1>2. CASE Rechecked(v) \/ Deleted(v)
  <2>1. /\ target # Unset /\ UNCHANGED <<target, session>>
        /\ RefreshAll \/ UNCHANGED <<connecting, busy>>
    BY <1>0, <1>2, ContinueRefreshes DEF Rechecked, Deleted
  <2> QED
    BY <2>1 DEF SessionStep, Refresh, sessionVars
<1>3. CASE CheckFailed(v) \/ DeleteFailed(v)
  <2>1. /\ target # Unset /\ UNCHANGED target
        /\ RefreshAll \/ UNCHANGED <<connecting, busy>>
    BY <1>0, <1>3, ContinueRefreshes DEF CheckFailed, DeleteFailed
  <2>2. PICK f \in Rejections : session' = AfterApiError(session, f)
    BY <1>3 DEF CheckFailed, DeleteFailed
  <2> QED
    BY <2>1, <2>2 DEF SessionStep, ExecFailed
<1> QED
  BY <1>1, <1>2, <1>3 DEF Proceed

\* Every step is a step of the session or leaves it unchanged.
LEMMA NextSession ==
    ASSUME IInv, SingleAddressed, [Next]_vars
    PROVE  SessionStep \/ UNCHANGED sessionVars
<1>1. CASE ConsoleStep
  BY <1>1 DEF ConsoleStep, Clicked, SessionStep
<1>2. CASE SingleDeleted
  BY <1>2 DEF SingleDeleted, SingleAddressed, SessionStep, Refresh
<1>3. CASE SingleFailed
  <2>1. PICK f \in Rejections : session' = AfterApiError(session, f)
    BY <1>3 DEF SingleFailed
  <2> QED
    BY <1>3, <2>1 DEF SingleFailed, SingleAddressed, SessionStep, ExecFailed
<1>4. ASSUME NEW v \in Visits, Proceed(v)
      PROVE  SessionStep \/ UNCHANGED sessionVars
  BY <1>4, ProceedSession
<1>5. CASE \/ StartRun \/ Revisit \/ DeleteTopic \/ ConfirmSingle \/ CancelSingle
           \/ ServeSingle \/ UNCHANGED vars
           \/ \E v \in Visits : Serve(v)
           \/ \E t \in Topics \cup {NoTopic} : ShowDetails(t)
           \/ \E b \in Brokers, t \in Topics, state \in TopicStates :
                 BrokerActivity(b, t, state)
  BY <1>5 DEF StartRun, Revisit, DeleteTopic, ConfirmSingle, CancelSingle,
     ServeSingle, vars, Serve, ServeTopics, ServeInfo, ServeDelete, ShowDetails,
     BrokerActivity
<1> QED
  BY <1>1, <1>2, <1>3, <1>4, <1>5 DEF Next, Single

\* To the session a run is a sequence of operations, each of which refreshes
\* when it succeeds and may log the user out when it fails; the deletions do
\* nothing to the session that ConsoleSession does not allow.
THEOREM ImplementsSession == Spec => SessionSpec
<1>1. Init => IInv /\ SingleAddressed /\ SessionInit
  <2>1. Init => SingleAddressed /\ SessionInit
    BY DEF Init, SingleAddressed, NoSingle
  <2> QED
    BY <2>1, InitIInv
<1>2. IInv /\ SingleAddressed /\ [Next]_vars
        => /\ IInv' /\ SingleAddressed'
           /\ [SessionStep]_sessionVars
  BY NextIInv, SingleAddressedKept, NextSession
<1> QED
  BY <1>1, <1>2, PTL DEF Spec, SessionSpec

\* So nothing polls behind the login window here either, whichever call of a
\* run it was that failed.
THEOREM TimerOwned == Spec => []TimerHasOwner
  BY ImplementsSession, SessionTimer, PTL

\* And no run is moved to another broker while the tabs are on screen.
THEOREM BrokerKept == Spec => BrokerStays
  BY ImplementsSession, SessionBroker, PTL

(***************************************************************************)
(* Durable subscriptions, and consumers, protect their topics.             *)
(***************************************************************************)

\* What was kept is protected until the information is read, is among what
\* was read then, and so is never found eligible.
KeptInv(v) ==
    /\ phase[v] = "checking" /\ "info" \in waiting[v] =>
          kept[v] \subseteq Protected(asked[v])
    /\ phase[v] = "checking" /\ "info" \notin waiting[v] =>
          kept[v] \subseteq protected[v]
    /\ phase[v] = "deleting" => eligible[v] \cap kept[v] = {}

\* What was consumed is so until the topics are read, is not among those read
\* without consumers, and so is never found eligible either.
MannedInv(v) ==
    /\ phase[v] = "checking" /\ "topics" \in waiting[v] =>
          manned[v] \subseteq Consumed(asked[v])
    /\ phase[v] = "checking" /\ "topics" \notin waiting[v] =>
          manned[v] \cap free[v] = {}
    /\ phase[v] = "deleting" => eligible[v] \cap manned[v] = {}

\* What a step may do to the check of a run.
CheckStep(v) ==
    \/ phase'[v] \notin {"checking", "deleting"}
    \/ /\ phase[v] = "confirming" /\ phase'[v] = "checking"
       /\ waiting'[v] = Reads
    \/ /\ phase[v] = "checking" /\ waiting[v] = {}
       /\ phase'[v] = "deleting" /\ eligible'[v] = unusedTopics(v)
    \/ /\ phase[v] = "deleting" /\ phase'[v] = "deleting"
       /\ eligible'[v] = eligible[v]
    \/ /\ phase[v] = "checking" /\ phase'[v] = "checking"
       /\ asked'[v] = asked[v]
       /\ \/ /\ "info" \in waiting'[v] <=> "info" \in waiting[v]
             /\ protected'[v] = protected[v]
          \/ /\ "info" \in waiting[v] /\ "info" \notin waiting'[v]
             /\ protected'[v] = Protected(asked[v])
       /\ \/ /\ "topics" \in waiting'[v] <=> "topics" \in waiting[v]
             /\ free'[v] = free[v]
          \/ /\ "topics" \in waiting[v] /\ "topics" \notin waiting'[v]
             /\ free'[v] = Free(asked[v])

LEMMA SameChainCheckStep ==
    ASSUME NEW v \in Visits, SameChain(v)
    PROVE  CheckStep(v)
  BY DEF SameChain, CheckStep

LEMMA ServeCheckStep ==
    ASSUME ChainTypeOK, NEW u \in Visits, Serve(u), NEW v \in Visits
    PROVE  CheckStep(v)
<1>1. CASE ServeTopics(u)
  BY <1>1 DEF ChainTypeOK, ServeTopics, planVars, CheckStep
<1>2. CASE ServeInfo(u)
  BY <1>2 DEF ChainTypeOK, ServeInfo, planVars, CheckStep
<1>3. CASE ServeDelete(u)
  BY <1>3 DEF ChainTypeOK, ServeDelete, checkVars, CheckStep
<1> QED
  BY <1>1, <1>2, <1>3 DEF Serve

LEMMA ProceedCheckStep ==
    ASSUME IInv, NEW u \in Visits, Proceed(u), NEW v \in Visits
    PROVE  CheckStep(v)
<1>0. /\ SessionTypeOK /\ ChainTypeOK
      /\ phase[u] # "off" => target \in Brokers
  BY RunStart
<1>1. CASE Close(u)
  <2>1. phase'[u] = "off" /\ \A w \in Visits \ {u} : SameChain(w)
    BY <1>0, <1>1, CloseEffect
  <2> QED
    BY <2>1, SameChainCheckStep DEF CheckStep
<1>2. CASE Listed(u) /\ ~Close(u)
  <2>1. /\ phase' = [phase EXCEPT ![u] = "confirming"]
        /\ CheckDone(u, Unset)
        /\ UNCHANGED eligible
    BY <1>2 DEF Listed
  <2> QED
    BY <1>0, <2>1 DEF ChainTypeOK, CheckDone, CheckStep
<1>3. CASE Confirm(u)
  BY <1>0, <1>3 DEF ChainTypeOK, Confirm, getUnusedTopics, CheckStep
<1>4. ASSUME NEW found \in SUBSET Topics, Continue(u, found),
             phase[u] \in {"checking", "deleting"},
             phase[u] = "checking" => waiting[u] = {} /\ found = unusedTopics(u),
             phase[u] = "deleting" => found = eligible[u]
      PROVE  CheckStep(v)
  <2>1. PICK before \in SUBSET Topics :
          /\ \A w \in Visits \ {u} : SameChain(w)
          /\ Outcome(u, before, found)
    BY <1>0, <1>4, ContinueEffect
  <2>2. CASE v = u
    BY <1>4, <2>1, <2>2 DEF Outcome, CheckStep
  <2> QED
    BY <2>1, <2>2, SameChainCheckStep
<1>5. CASE Rechecked(u)
  BY <1>0, <1>4, <1>5, UnusedTyped DEF Rechecked, Checked
<1>6. CASE Deleted(u) \/ DeleteFailed(u)
  <2>1. phase[u] = "deleting" /\ Continue(u, eligible[u])
    BY <1>6 DEF Deleted, DeleteFailed
  <2>2. eligible[u] \in SUBSET Topics
    BY <1>0 DEF ChainTypeOK
  <2> QED
    BY <1>4, <2>1, <2>2
<1> QED
  BY <1>1, <1>2, <1>3, <1>5, <1>6 DEF Proceed, CheckFailed, Cancel

LEMMA NextCheckStep ==
    ASSUME IInv, Next, NEW v \in Visits
    PROVE  CheckStep(v)
<1>0. ChainTypeOK
  BY RunStart
<1>1. CASE \E u \in Visits : Proceed(u) \/ Serve(u)
  BY <1>0, <1>1, ProceedCheckStep, ServeCheckStep
<1>2. CASE StartRun
  BY <1>0, <1>2 DEF ChainTypeOK, StartRun, getUnusedTopics, CheckStep
<1>3. CASE UNCHANGED runVars
  <2>1. SameChain(v)
    BY <1>3 DEF SameChain, runVars, planVars, checkVars
  <2> QED
    BY <2>1, SameChainCheckStep
<1>4. CASE ConsoleStep \/ Single \/ Revisit
           \/ \E u \in Topics \cup {NoTopic} : ShowDetails(u)
           \/ \E b \in Brokers, t \in Topics, state \in TopicStates :
                 BrokerActivity(b, t, state)
  <2>1. UNCHANGED runVars
    BY <1>4 DEF ConsoleStep, Single, DeleteTopic, ConfirmSingle, CancelSingle,
       ServeSingle, SingleDeleted, SingleFailed, Revisit, ShowDetails,
       BrokerActivity
  <2> QED
    BY <1>3, <2>1
<1> QED
  BY <1>1, <1>2, <1>4 DEF Next

\* The history and the check move together.
LEMMA KeptStep ==
    ASSUME NEW v \in Visits, KeptInv(v), CheckStep(v), Remember
    PROVE  KeptInv(v)'
<1>1. kept'[v] = CASE Issued(v)   -> Protected(asked[v])'
                   [] UnderWay(v) -> kept[v] \cap Protected(asked[v])'
                   [] OTHER       -> kept[v]
  BY DEF Remember
<1>2. CASE phase'[v] \notin {"checking", "deleting"}
  BY <1>2 DEF KeptInv
<1>3. CASE phase[v] = "confirming" /\ phase'[v] = "checking" /\ waiting'[v] = Reads
  <2>1. Issued(v) /\ ~UnderWay(v)
    BY <1>3 DEF Issued, UnderWay
  <2>2. kept'[v] = Protected(asked[v])'
    BY <1>1, <2>1
  <2>3. "info" \in waiting'[v]
    BY <1>3 DEF Reads
  <2> QED
    BY <1>3, <2>2, <2>3 DEF KeptInv
<1>4. CASE phase[v] = "checking" /\ waiting[v] = {}
           /\ phase'[v] = "deleting" /\ eligible'[v] = unusedTopics(v)
  <2>1. kept'[v] = kept[v]
    BY <1>1, <1>4 DEF Issued, UnderWay
  <2>2. kept[v] \subseteq protected[v]
    BY <1>4 DEF KeptInv
  <2> QED
    BY <1>4, <2>1, <2>2 DEF KeptInv, unusedTopics
<1>5. CASE phase[v] = "deleting" /\ phase'[v] = "deleting"
           /\ eligible'[v] = eligible[v]
  <2>1. kept'[v] = kept[v]
    BY <1>1, <1>5 DEF Issued, UnderWay
  <2> QED
    BY <1>5, <2>1 DEF KeptInv
<1>6. CASE phase[v] = "checking" /\ phase'[v] = "checking" /\ asked'[v] = asked[v]
  <2>1. kept'[v] = IF waiting[v] # {} THEN kept[v] \cap Protected(asked[v])'
                                      ELSE kept[v]
    BY <1>1, <1>6 DEF Issued, UnderWay
  <2>2. CASE /\ "info" \in waiting'[v] <=> "info" \in waiting[v]
             /\ protected'[v] = protected[v]
    <3>1. CASE "info" \in waiting[v]
      <4>1. kept'[v] \subseteq Protected(asked[v])'
        BY <2>1, <3>1
      <4> QED
        BY <1>6, <2>2, <3>1, <4>1 DEF KeptInv
    <3>2. CASE "info" \notin waiting[v]
      <4>1. kept'[v] \subseteq kept[v] /\ kept[v] \subseteq protected[v]
        BY <1>6, <2>1, <3>2 DEF KeptInv
      <4> QED
        BY <1>6, <2>2, <3>2, <4>1 DEF KeptInv
    <3> QED
      BY <3>1, <3>2
  <2>3. CASE /\ "info" \in waiting[v] /\ "info" \notin waiting'[v]
             /\ protected'[v] = Protected(asked[v])
    <3>1. kept'[v] \subseteq kept[v] /\ kept[v] \subseteq Protected(asked[v])
      BY <1>6, <2>1, <2>3 DEF KeptInv
    <3> QED
      BY <1>6, <2>3, <3>1 DEF KeptInv
  <2> QED
    BY <1>6, <2>2, <2>3 DEF CheckStep
<1> QED
  BY <1>2, <1>3, <1>4, <1>5, <1>6 DEF CheckStep

LEMMA MannedStep ==
    ASSUME NEW v \in Visits, MannedInv(v), CheckStep(v), Remember
    PROVE  MannedInv(v)'
<1>1. manned'[v] = CASE Issued(v)   -> Consumed(asked[v])'
                     [] UnderWay(v) -> manned[v] \cap Consumed(asked[v])'
                     [] OTHER       -> manned[v]
  BY DEF Remember
<1>2. CASE phase'[v] \notin {"checking", "deleting"}
  BY <1>2 DEF MannedInv
<1>3. CASE phase[v] = "confirming" /\ phase'[v] = "checking" /\ waiting'[v] = Reads
  <2>1. Issued(v) /\ ~UnderWay(v)
    BY <1>3 DEF Issued, UnderWay
  <2>2. manned'[v] = Consumed(asked[v])'
    BY <1>1, <2>1
  <2>3. "topics" \in waiting'[v]
    BY <1>3 DEF Reads
  <2> QED
    BY <1>3, <2>2, <2>3 DEF MannedInv
<1>4. CASE phase[v] = "checking" /\ waiting[v] = {}
           /\ phase'[v] = "deleting" /\ eligible'[v] = unusedTopics(v)
  <2>1. manned'[v] = manned[v]
    BY <1>1, <1>4 DEF Issued, UnderWay
  <2>2. manned[v] \cap free[v] = {}
    BY <1>4 DEF MannedInv
  <2> QED
    BY <1>4, <2>1, <2>2 DEF MannedInv, unusedTopics
<1>5. CASE phase[v] = "deleting" /\ phase'[v] = "deleting"
           /\ eligible'[v] = eligible[v]
  <2>1. manned'[v] = manned[v]
    BY <1>1, <1>5 DEF Issued, UnderWay
  <2> QED
    BY <1>5, <2>1 DEF MannedInv
<1>6. CASE phase[v] = "checking" /\ phase'[v] = "checking" /\ asked'[v] = asked[v]
  <2>1. manned'[v] = IF waiting[v] # {} THEN manned[v] \cap Consumed(asked[v])'
                                        ELSE manned[v]
    BY <1>1, <1>6 DEF Issued, UnderWay
  <2>2. CASE /\ "topics" \in waiting'[v] <=> "topics" \in waiting[v]
             /\ free'[v] = free[v]
    <3>1. CASE "topics" \in waiting[v]
      <4>1. manned'[v] \subseteq Consumed(asked[v])'
        BY <2>1, <3>1
      <4> QED
        BY <1>6, <2>2, <3>1, <4>1 DEF MannedInv
    <3>2. CASE "topics" \notin waiting[v]
      <4>1. manned'[v] \subseteq manned[v] /\ manned[v] \cap free[v] = {}
        BY <1>6, <2>1, <3>2 DEF MannedInv
      <4> QED
        BY <1>6, <2>2, <3>2, <4>1 DEF MannedInv
    <3> QED
      BY <3>1, <3>2
  <2>3. CASE /\ "topics" \in waiting[v] /\ "topics" \notin waiting'[v]
             /\ free'[v] = Free(asked[v])
    <3>1. manned'[v] \subseteq manned[v] /\ manned[v] \subseteq Consumed(asked[v])
      BY <1>6, <2>1, <2>3 DEF MannedInv
    <3>2. Consumed(asked[v]) \cap Free(asked[v]) = {}
      BY DEF Consumed, Free
    <3> QED
      BY <1>6, <2>3, <3>1, <3>2 DEF MannedInv
  <2> QED
    BY <1>6, <2>2, <2>3 DEF CheckStep
<1> QED
  BY <1>2, <1>3, <1>4, <1>5, <1>6 DEF CheckStep

\* A topic whose durable subscription exists throughout the re-check, or that
\* is consumed from throughout, is never found eligible, whatever the order of
\* the reads and the clients' activity.
THEOREM OccupiedTopicsKept == CheckSpec => []OccupiedKept
<1> DEFINE HInv == IInv /\ \A v \in Visits : KeptInv(v) /\ MannedInv(v)
<1>1. CheckInit => HInv
  <2> SUFFICES ASSUME CheckInit PROVE HInv
    OBVIOUS
  <2>1. \A v \in Visits : phase[v] = "off"
    BY DEF CheckInit, Init
  <2> QED
    BY <2>1, InitIInv DEF CheckInit, KeptInv, MannedInv
<1>2. HInv /\ [Next /\ Remember]_<<vars, checkHistory>> => HInv'
  <2> SUFFICES ASSUME HInv, [Next /\ Remember]_<<vars, checkHistory>>
               PROVE  HInv'
    OBVIOUS
  <2>1. CASE Next /\ Remember
    BY <2>1, NextIInv, NextCheckStep, KeptStep, MannedStep
  <2>2. CASE UNCHANGED <<vars, checkHistory>>
    <3>1. IInv'
      BY <2>2, NextIInv
    <3>2. ASSUME NEW v \in Visits PROVE KeptInv(v)' /\ MannedInv(v)'
      <4>1. UNCHANGED <<phase, waiting, asked, protected, free, eligible,
                        kept, manned, topics>>
        BY <2>2 DEF vars, runVars, planVars, checkVars, checkHistory
      <4> QED
        BY <4>1 DEF KeptInv, Protected, MannedInv, Consumed
    <3> QED
      BY <3>1, <3>2
  <2> QED
    BY <2>1, <2>2
<1>3. HInv => OccupiedKept
  BY DEF KeptInv, MannedInv, OccupiedKept
<1> QED
  BY <1>1, <1>2, <1>3, PTL DEF CheckSpec
=============================================================================
