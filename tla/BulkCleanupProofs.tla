------------------------- MODULE BulkCleanupProofs -------------------------
(***************************************************************************)
(* What the contract of bulk deletions is worth: for any number of runs,   *)
(* also overlapping ones, and any names.  Whatever implements BulkCleanup  *)
(* may cite these theorems.                                                *)
(***************************************************************************)
EXTENDS BulkCleanup, TLAPS

CleanupTypeOK ==
    /\ agreed  \in [Runs -> SUBSET Names]
    /\ pending \in [Runs -> SUBSET Names]
    /\ seen    \in [Runs -> SUBSET Names]
    /\ struck  \in [Runs -> Names \cup {NoName}]
    /\ removed \in [Runs -> SUBSET Names]

CleanupInv == CleanupTypeOK /\ OnlyAgreed /\ OnceOnly

\* Every step of a run keeps the types.
LEMMA StepTyped == ASSUME CleanupTypeOK, CleanupStep PROVE CleanupTypeOK'
<1>1. PICK r \in Runs :
        \/ \E names \in SUBSET Names : Agree(r, names)
        \/ \E unused \in SUBSET Names : Observe(r, unused)
        \/ \E dropped \in SUBSET Names, n \in Names \cup {NoName} :
              Decide(r, dropped, n)
        \/ Remove(r)
        \/ GiveUp(r)
  BY DEF CleanupStep
<1>2. ASSUME NEW names \in SUBSET Names, Agree(r, names) PROVE CleanupTypeOK'
  BY <1>2 DEF Agree, CleanupTypeOK
<1>3. ASSUME NEW unused \in SUBSET Names, Observe(r, unused) PROVE CleanupTypeOK'
  BY <1>3 DEF Observe, CleanupTypeOK
<1>4. ASSUME NEW dropped \in SUBSET Names, NEW n \in Names \cup {NoName},
             Decide(r, dropped, n)
      PROVE  CleanupTypeOK'
  <2>1. pending' \in [Runs -> SUBSET Names]
    BY <1>4 DEF Decide, CleanupTypeOK
  <2>2. struck' \in [Runs -> Names \cup {NoName}]
    BY <1>4 DEF Decide, CleanupTypeOK
  <2>3. seen' \in [Runs -> SUBSET Names]
    BY <1>4 DEF Decide, KeepOrForget, CleanupTypeOK
  <2> QED
    BY <1>4, <2>1, <2>2, <2>3 DEF Decide, CleanupTypeOK
<1>5. CASE Remove(r)
  <2>1. removed' \in [Runs -> SUBSET Names]
    BY <1>5 DEF Remove, CleanupTypeOK
  <2> QED
    BY <1>5, <2>1 DEF Remove, CleanupTypeOK
<1>6. CASE GiveUp(r)
  BY <1>6 DEF GiveUp, CleanupTypeOK
<1> QED
  BY <1>1, <1>2, <1>3, <1>4, <1>5, <1>6

\* A step concerns one run; the others are as they were.
Untouched(u) ==
    /\ agreed'[u] = agreed[u]
    /\ pending'[u] = pending[u]
    /\ struck'[u] = struck[u]
    /\ removed'[u] = removed[u]

\* The books of one run: what it removed, is removing and may remove.
Books(u) ==
    /\ removed[u] \cup pending[u] \subseteq agreed[u]
    /\ removed[u] \cap pending[u] = {}
    /\ struck[u] # NoName => struck[u] \in agreed[u] \ pending[u]

\* What a step strikes was seen, and not removed before.
OnSight(u) ==
    struck'[u] \notin {NoName, struck[u]} =>
        struck'[u] \in (pending[u] \cap seen[u]) \ removed[u]

\* The books of a run stay in order whoever takes a step.
LEMMA StepBooks ==
    ASSUME CleanupTypeOK, CleanupStep, NEW u \in Runs, Books(u)
    PROVE  Books(u)' /\ OnSight(u)
<1>1. PICK r \in Runs :
        \/ \E names \in SUBSET Names : Agree(r, names)
        \/ \E unused \in SUBSET Names : Observe(r, unused)
        \/ \E dropped \in SUBSET Names, n \in Names \cup {NoName} :
              Decide(r, dropped, n)
        \/ Remove(r)
        \/ GiveUp(r)
  BY DEF CleanupStep
<1>2. CASE Untouched(u)
  BY <1>2 DEF Untouched, Books, OnSight
<1>3. ASSUME NEW names \in SUBSET Names, Agree(r, names)
      PROVE  Books(u)' /\ OnSight(u)
  <2>1. CASE u = r
    BY <1>3, <2>1 DEF Agree, Idle, CleanupTypeOK, Books, OnSight
  <2>2. CASE u # r
    BY <1>2, <1>3, <2>2 DEF Agree, CleanupTypeOK, Untouched
  <2> QED
    BY <2>1, <2>2
<1>4. ASSUME NEW unused \in SUBSET Names, Observe(r, unused)
      PROVE  Books(u)' /\ OnSight(u)
  BY <1>2, <1>4 DEF Observe, Untouched
<1>5. ASSUME NEW dropped \in SUBSET Names, NEW n \in Names \cup {NoName},
             Decide(r, dropped, n)
      PROVE  Books(u)' /\ OnSight(u)
  <2>1. CASE u = r
    <3>1. /\ pending'[u] = pending[u] \ (dropped \cup {n})
          /\ struck'[u] = n
          /\ agreed'[u] = agreed[u] /\ removed'[u] = removed[u]
      BY <1>5, <2>1 DEF Decide, CleanupTypeOK
    <3>2. n \in (pending[u] \cap seen[u]) \cup {NoName}
      BY <1>5, <2>1 DEF Decide
    <3> QED
      BY <3>1, <3>2 DEF Books, OnSight
  <2>2. CASE u # r
    BY <1>2, <1>5, <2>2 DEF Decide, CleanupTypeOK, Untouched
  <2> QED
    BY <2>1, <2>2
<1>6. CASE Remove(r)
  <2>1. CASE u = r
    <3>1. /\ struck[u] # NoName /\ removed'[u] = removed[u] \cup {struck[u]}
          /\ agreed'[u] = agreed[u] /\ pending'[u] = pending[u]
          /\ struck'[u] = struck[u]
      BY <1>6, <2>1 DEF Remove, CleanupTypeOK
    <3> QED
      BY <3>1 DEF Books, OnSight
  <2>2. CASE u # r
    BY <1>2, <1>6, <2>2 DEF Remove, CleanupTypeOK, Untouched
  <2> QED
    BY <2>1, <2>2
<1>7. CASE GiveUp(r)
  <2>1. CASE u = r
    BY <1>7, <2>1 DEF GiveUp, CleanupTypeOK, Books, OnSight
  <2>2. CASE u # r
    BY <1>2, <1>7, <2>2 DEF GiveUp, CleanupTypeOK, Untouched
  <2> QED
    BY <2>1, <2>2
<1> QED
  BY <1>1, <1>3, <1>4, <1>5, <1>6, <1>7

\* The three promises hold together.
LEMMA BooksAreInvariants ==
    (OnlyAgreed /\ OnceOnly) <=> \A u \in Runs : Books(u)
  BY DEF OnlyAgreed, OnceOnly, Books

LEMMA CleanupInvariance == CleanupSpec => []CleanupInv
<1>1. CleanupInit => CleanupInv
  BY DEF CleanupInit, CleanupInv, CleanupTypeOK, OnlyAgreed, OnceOnly
<1>2. CleanupInv /\ [CleanupStep]_cleanupVars => CleanupInv'
  <2> SUFFICES ASSUME CleanupInv, [CleanupStep]_cleanupVars PROVE CleanupInv'
    OBVIOUS
  <2>1. CASE CleanupStep
    <3>1. \A u \in Runs : Books(u)'
      BY <2>1, StepBooks, BooksAreInvariants DEF CleanupInv
    <3>2. OnlyAgreed' /\ OnceOnly'
      BY <3>1 DEF OnlyAgreed, OnceOnly, Books
    <3> QED
      BY <2>1, <3>2, StepTyped DEF CleanupInv
  <2>2. CASE UNCHANGED cleanupVars
    BY <2>2 DEF cleanupVars, CleanupInv, CleanupTypeOK, OnlyAgreed, OnceOnly
  <2> QED
    BY <2>1, <2>2
<1> QED
  BY <1>1, <1>2, PTL DEF CleanupSpec

\* Whatever the order of checks and deletions, only what was agreed to goes.
THEOREM AgreedOnly == CleanupSpec => []OnlyAgreed
<1>1. CleanupInv => OnlyAgreed
  BY DEF CleanupInv
<1> QED
  BY <1>1, CleanupInvariance, PTL

\* No name has its deletion requested a second time.
THEOREM NoneTwice == CleanupSpec => []OnceOnly
<1>1. CleanupInv => OnceOnly
  BY DEF CleanupInv
<1> QED
  BY <1>1, CleanupInvariance, PTL

\* Every deletion rests on a reading that found its name unused.
THEOREM SeenFirst == CleanupSpec => StruckOnSight
<1>1. CleanupInv /\ [CleanupStep]_cleanupVars
        => [\A r \in Runs :
              struck'[r] \notin {NoName, struck[r]} =>
                 struck'[r] \in (pending[r] \cap seen[r]) \ removed[r]]_cleanupVars
  <2> SUFFICES ASSUME CleanupInv, CleanupStep, NEW r \in Runs PROVE OnSight(r)
    BY DEF OnSight
  <2> QED
    BY StepBooks, BooksAreInvariants DEF CleanupInv
<1> QED
  BY <1>1, CleanupInvariance, PTL DEF CleanupSpec, StruckOnSight
=============================================================================
