------------------------- MODULE ThreatResponseProofs -------------------------
(***************************************************************************)
(* The safety of the threat response for every set of events, severities,  *)
(* sources, depth of the middleware and policy: an event is handed over at *)
(* most once, no addition to a score is lost between evaluations that      *)
(* overlap, and the tier a score asks for is started whatever their order. *)
(*                                                                         *)
(* The invariant says of the scores that they lie between what was added   *)
(* and that less the decay, and of a source whose tier was not started yet *)
(* that an evaluation which has seen at least its score is on its way.     *)
(*                                                                         *)
(* At the end: the enforcement of blocks, and the structures of the core,  *)
(* the bounded map, the commits to Merkle roots and the Merkle trees.      *)
(***************************************************************************)
EXTENDS ThreatResponse, MCPerimeter, MCStructures, SequenceTheorems, SumLemmas, NaturalsInduction, TLAPS

Steps == {"none", "audit", "logged", "saga", "done"}

ResponseTypes ==
    /\ src \in Sources /\ decays \in Nat /\ evicted \in Nat /\ shadow \in BOOLEAN
    /\ got \in [Events -> Nat] /\ scores \in [Sources -> Nat]
    /\ seen \in [Events -> Nat] /\ step \in [Events -> Steps]
    /\ active \in [Sources -> Tiers \cup {"none"}]
    /\ launched \in [Sources -> SUBSET Tiers]

\* An event that is not in the set of finalized ones has not been handed over,
\* and no evaluation of it has begun.
Unhanded ==
    \A e \in Events :
        /\ got[e] <= 1
        /\ e \notin finalized => got[e] = 0 /\ step[e] = "none"

\* A score is at most what was added to it, and so is what an evaluation saw.
Bounded ==
    /\ \A s \in Sources : scores[s] <= Total[Handed(s)]
    /\ \A e \in Events : seen[e] <= Total[Events]

\* The tier that is active was started since the source was last cleared.
Started == \A s \in Sources : active[s] # "none" => active[s] \in launched[s]

\* Outside shadow mode the tier of the source's score was started, or an
\* evaluation that has seen this score or a higher one has still to decide.
Reached(n) == \E t \in launched[src] : Threshold[t] >= Threshold[PolicyEvaluate[n]]
Awaited(n) == \E e \in Events : step[e] = "logged" /\ seen[e] >= n
Pending ==
    (scores[src] > 0 /\ ~shadow) => Reached(scores[src]) \/ Awaited(scores[src])

ResponseInv ==
    /\ ResponseTypes /\ Unhanded /\ Bounded /\ NoAdditionLost /\ Started /\ Pending

-----------------------------------------------------------------------------
(* The total of a set of events, and the tier of a score.                  *)

LEMMA TotalIsSum == \A E \in SUBSET Events : Total[E] = SumOver(Severity, E)
  BY DEF Total, SumOver

LEMMA TotalType == \A E \in SUBSET Events : Total[E] \in Nat /\ Total[E] <= Total[Events]
<1>1. SUFFICES ASSUME NEW E \in SUBSET Events
               PROVE  Total[E] \in Nat /\ Total[E] <= Total[Events]
  OBVIOUS
<1>2. /\ IsFiniteSet(Events) /\ IsFiniteSet(E) /\ Events \in SUBSET Events
      /\ (\A e \in Events : Severity[e] \in Nat) /\ (\A e \in E : Severity[e] \in Nat)
  BY ResponseAssumption, FS_Subset
<1>3. SumOver(Severity, E) \in Nat /\ SumOver(Severity, E) <= SumOver(Severity, Events)
  BY <1>2, SumType, SumSubset
<1>4. QED
  BY <1>2, <1>3, TotalIsSum

LEMMA TotalEmpty == Total[{}] = 0
  BY TotalIsSum, SumEmpty

LEMMA TotalAdd ==
    ASSUME NEW E \in SUBSET Events, NEW e \in Events, e \notin E
    PROVE  Total[E \cup {e}] = Total[E] + Severity[e]
<1>1. IsFiniteSet(E) /\ \A x \in E \cup {e} : Severity[x] \in Nat
  BY ResponseAssumption, FS_Subset
<1>2. SumOver(Severity, E \cup {e}) = SumOver(Severity, E) + Severity[e]
  BY <1>1, SumAdd
<1>3. E \cup {e} \in SUBSET Events
  OBVIOUS
<1>4. QED
  BY <1>2, <1>3, TotalIsSum

\* evaluate of the policy finds the tier with the highest threshold that a score
\* has reached: LOG is always among them.
LEMMA PolicyTier ==
    ASSUME NEW n \in 0 .. Total[Events]
    PROVE  /\ PolicyEvaluate[n] \in Tiers /\ Threshold[PolicyEvaluate[n]] <= n
           /\ \A u \in Tiers : Threshold[u] <= n => Threshold[u] <= Threshold[PolicyEvaluate[n]]
<1>1. n \in Nat /\ "LOG" \in Tiers /\ Threshold["LOG"] = 0 /\ \A t \in Tiers : Threshold[t] \in Nat
  BY ResponseAssumption, TotalType DEF Tiers
<1>2. PICK G : G = {n - Threshold[t] : t \in {u \in Tiers : Threshold[u] <= n}}
  OBVIOUS
<1>3. G \subseteq Nat /\ n \in G
  BY <1>1, <1>2
<1>4. PICK m \in G : \A k \in G : ~(<<k, m>> \in OpToRel(<, Nat))
  BY <1>3, NatLessThanWellFounded, WFMin
<1>5. PICK t \in Tiers : Threshold[t] <= n /\ m = n - Threshold[t]
  BY <1>2
<1>6. \A u \in Tiers : Threshold[u] <= n => Threshold[u] <= Threshold[t]
  <2>1. SUFFICES ASSUME NEW u \in Tiers, Threshold[u] <= n, ~(Threshold[u] <= Threshold[t])
                 PROVE  FALSE
    OBVIOUS
  <2>2. PICK k : k = n - Threshold[u]
    OBVIOUS
  <2>3. k \in G /\ k \in Nat /\ m \in Nat /\ k < m
    BY <1>1, <1>2, <1>3, <1>5, <2>1, <2>2
  <2>4. <<k, m>> \in OpToRel(<, Nat)
    BY <2>3, Zenon DEF OpToRel
  <2>5. QED
    BY <1>4, <2>3, <2>4
<1>7. PICK P : P = {x \in Tiers : /\ Threshold[x] <= n
                                  /\ \A u \in Tiers : Threshold[u] <= n => Threshold[u] <= Threshold[x]}
  OBVIOUS
<1>8. t \in P
  BY <1>5, <1>6, <1>7
<1>9. PolicyEvaluate[n] \in P
  BY <1>7, <1>8 DEF PolicyEvaluate
<1>10. QED
  BY <1>7, <1>9

\* A higher score has a tier with at least as high a threshold.
LEMMA PolicyMonotone ==
    ASSUME NEW m \in Nat, NEW n \in 0 .. Total[Events], m <= n
    PROVE  /\ Threshold[PolicyEvaluate[m]] \in Nat /\ Threshold[PolicyEvaluate[n]] \in Nat
           /\ Threshold[PolicyEvaluate[m]] <= Threshold[PolicyEvaluate[n]]
<1>1. Total[Events] \in Nat
  BY TotalType
<1>2. m \in 0 .. Total[Events] /\ n \in Nat
  BY <1>1
<1>3. PICK t, u : t = PolicyEvaluate[m] /\ u = PolicyEvaluate[n]
  OBVIOUS
<1>4. /\ t \in Tiers /\ u \in Tiers /\ Threshold[t] <= m
      /\ \A x \in Tiers : Threshold[x] <= n => Threshold[x] <= Threshold[u]
  BY <1>2, <1>3, PolicyTier
<1>5. Threshold[t] \in Nat /\ Threshold[u] \in Nat
  BY <1>4, ResponseAssumption
<1>6. Threshold[t] <= n
  BY <1>2, <1>4, <1>5
<1>7. QED
  BY <1>3, <1>4, <1>5, <1>6

-----------------------------------------------------------------------------
(* What one step does to the invariant.                                    *)

LEMMA HandedSets ==
    /\ \A s \in Sources : Handed(s) \in SUBSET Events /\ (s # src => Handed(s) = {})
    /\ \A e \in Events : e \in Handed(src) <=> step[e] \notin {"none", "audit"}
  BY DEF Handed

LEMMA HandedSetsNext ==
    ASSUME src' = src
    PROVE  /\ \A s \in Sources : s # src => Handed(s)' = {}
           /\ Handed(src)' \in SUBSET Events
           /\ \A e \in Events : e \in Handed(src)' <=> step'[e] \notin {"none", "audit"}
  BY DEF Handed

\* A step that leaves the scores and the evaluations alone.
LEMMA KeptStep ==
    ASSUME ResponseInv,
           UNCHANGED <<src, finalized, got, scores, seen, step, active, launched, shadow, decays, evicted>>
    PROVE  ResponseInv'
<1>1. ResponseTypes'
  BY DEF ResponseInv, ResponseTypes
<1>2. Unhanded' /\ Started'
  BY DEF ResponseInv, Unhanded, Started
<1>3. \A s \in Sources : Handed(s)' = Handed(s)
  BY DEF Handed
<1>4. Bounded' /\ NoAdditionLost'
  BY <1>3 DEF ResponseInv, Bounded, NoAdditionLost
<1>5. Pending'
  BY DEF ResponseInv, Pending, Reached, Awaited
<1>6. QED
  BY <1>1, <1>2, <1>4, <1>5 DEF ResponseInv

\* evaluate adds the event and goes on with the score it has made.
LEMMA IngestStep ==
    ASSUME ResponseInv, NEW e \in Events, step[e] \in {"none", "audit"}, Ingest(e),
           UNCHANGED <<src, active, launched, shadow, decays, evicted>>
    PROVE  /\ scores' \in [Sources -> Nat] /\ seen' \in [Events -> Nat]
           /\ step' \in [Events -> Steps]
           /\ \A x \in Events : x # e => step'[x] = step[x]
           /\ Bounded' /\ NoAdditionLost' /\ Started' /\ Pending'
<1>1. /\ src \in Sources /\ decays \in Nat /\ evicted \in Nat /\ scores \in [Sources -> Nat]
      /\ seen \in [Events -> Nat] /\ step \in [Events -> Steps] /\ Severity[e] \in Nat
  BY ResponseAssumption DEF ResponseInv, ResponseTypes
<1>2. PICK n : n = scores[src] + Severity[e]
  OBVIOUS
<1>3. /\ scores' = [scores EXCEPT ![src] = n] /\ seen' = [seen EXCEPT ![e] = n]
      /\ step' = [step EXCEPT ![e] = "logged"] /\ n \in Nat
  BY <1>1, <1>2 DEF Ingest
<1>4. /\ scores' \in [Sources -> Nat] /\ seen' \in [Events -> Nat]
      /\ step' \in [Events -> Steps] /\ \A x \in Events : x # e => step'[x] = step[x]
      /\ scores'[src] = n /\ seen'[e] = n /\ step'[e] = "logged"
      /\ \A s \in Sources : s # src => scores'[s] = scores[s]
      /\ \A x \in Events : x # e => seen'[x] = seen[x]
  BY <1>1, <1>3 DEF Steps
<1>5. PICK H : H = Handed(src)
  OBVIOUS
<1>6. H \in SUBSET Events /\ e \notin H
  BY <1>1, <1>5, HandedSets
<1>7. Handed(src)' = H \cup {e}
  BY <1>1, <1>4, <1>5, HandedSets, HandedSetsNext
<1>8. /\ Total[H \cup {e}] = Total[H] + Severity[e] /\ Total[H] \in Nat
      /\ Total[H \cup {e}] \in Nat /\ Total[H \cup {e}] <= Total[Events]
  BY <1>6, TotalAdd, TotalType
<1>9. scores[src] <= Total[H] /\ scores[src] + decays + evicted >= Total[H] /\ scores[src] \in Nat
  BY <1>1, <1>5 DEF ResponseInv, Bounded, NoAdditionLost
<1>10. n <= Total[H \cup {e}] /\ n + decays + evicted >= Total[H \cup {e}]
  BY <1>1, <1>2, <1>8, <1>9
<1>11. \A s \in Sources : s # src => Handed(s)' = {} /\ Handed(s) = {}
  BY HandedSets, HandedSetsNext
<1>12. Bounded'
  <2>1. \A s \in Sources : scores'[s] <= Total[Handed(s)']
    BY <1>4, <1>7, <1>10, <1>11 DEF ResponseInv, Bounded
  <2>2. n <= Total[Events]
    BY <1>3, <1>8, <1>10, TotalType
  <2>3. \A x \in Events : seen'[x] <= Total[Events]
    BY <1>4, <2>2 DEF ResponseInv, Bounded
  <2>4. QED
    BY <2>1, <2>3 DEF Bounded
<1>13. NoAdditionLost'
  <2>1. \A s \in Sources : scores'[s] + decays + evicted >= Total[Handed(s)']
    BY <1>4, <1>7, <1>10, <1>11 DEF ResponseInv, NoAdditionLost
  <2>2. QED
    BY <2>1 DEF NoAdditionLost
<1>14. Started'
  BY DEF ResponseInv, Started
<1>15. Pending'
  <2>1. step'[e] = "logged" /\ seen'[e] >= scores'[src']
    BY <1>3, <1>4
  <2>2. QED
    BY <2>1 DEF Pending, Awaited
<1>16. QED
  BY <1>4, <1>12, <1>13, <1>14, <1>15

\* A step of one evaluation past its addition, or before it, changes no set of
\* additions.
LEMMA SameAdditions ==
    ASSUME ResponseInv, UNCHANGED <<src, scores, evicted, seen, decays>>,
           \A x \in Events : step'[x] \in {"none", "audit"} <=> step[x] \in {"none", "audit"}
    PROVE  Bounded' /\ NoAdditionLost'
<1>1. \A s \in Sources : Handed(s)' = Handed(s)
  BY DEF Handed
<1>2. QED
  BY <1>1 DEF ResponseInv, Bounded, NoAdditionLost

\* finalizePublish hands the event over, or finds that this was done already.
LEMMA FinalizeStep ==
    ASSUME ResponseInv, NEW e \in Events, Finalize(e),
           UNCHANGED <<src, active, launched, shadow, decays, evicted>>
    PROVE  ResponseInv'
<1>1. finalized' = finalized \cup {e}
  BY DEF Finalize
<1>2. CASE e \in finalized \/ bus = "down"
  <2>1. UNCHANGED <<got, scores, seen, step>>
    BY <1>2 DEF Finalize
  <2>2. ResponseTypes' /\ Started'
    BY <2>1 DEF ResponseInv, ResponseTypes, Started
  <2>3. Unhanded'
    BY <1>1, <2>1 DEF ResponseInv, Unhanded
  <2>4. Bounded' /\ NoAdditionLost'
    BY <2>1, SameAdditions
  <2>5. Pending'
    BY <2>1 DEF ResponseInv, Pending, Reached, Awaited
  <2>6. QED
    BY <2>2, <2>3, <2>4, <2>5 DEF ResponseInv
<1>3. CASE ~(e \in finalized \/ bus = "down")
  <2>1. got' = [got EXCEPT ![e] = @ + 1] /\ Listen(e)
    BY <1>3 DEF Finalize
  <2>2. got[e] = 0 /\ step[e] = "none" /\ got \in [Events -> Nat] /\ step \in [Events -> Steps]
    BY <1>3 DEF ResponseInv, Unhanded, ResponseTypes
  <2>3. got' \in [Events -> Nat] /\ got'[e] = 1 /\ \A x \in Events : x # e => got'[x] = got[x]
    BY <2>1, <2>2
  <2>4. /\ scores' \in [Sources -> Nat] /\ seen' \in [Events -> Nat]
        /\ step' \in [Events -> Steps]
        /\ \A x \in Events : x # e => step'[x] = step[x]
        /\ Bounded' /\ NoAdditionLost' /\ Started' /\ Pending'
    <3>1. CASE Ingest(e)
      BY <2>2, <3>1, IngestStep
    <3>2. CASE step' = [step EXCEPT ![e] = "audit"] /\ UNCHANGED <<scores, seen>>
      <4>1. /\ step' \in [Events -> Steps] /\ step'[e] = "audit"
            /\ \A x \in Events : x # e => step'[x] = step[x]
        BY <2>2, <3>2 DEF Steps
      <4>2. scores' \in [Sources -> Nat] /\ seen' \in [Events -> Nat] /\ Started'
        BY <3>2 DEF ResponseInv, ResponseTypes, Started
      <4>3. Bounded' /\ NoAdditionLost'
        BY <2>2, <3>2, <4>1, SameAdditions
      <4>4. Pending'
        BY <2>2, <3>2, <4>1 DEF ResponseInv, Pending, Reached, Awaited
      <4>5. QED
        BY <4>1, <4>2, <4>3, <4>4
    <3>3. QED
      BY <2>1, <3>1, <3>2 DEF Listen
  <2>5. ResponseTypes'
    BY <2>3, <2>4 DEF ResponseInv, ResponseTypes
  <2>6. Unhanded'
    BY <1>1, <2>3, <2>4 DEF ResponseInv, Unhanded
  <2>7. QED
    BY <2>4, <2>5, <2>6 DEF ResponseInv
<1>4. QED
  BY <1>2, <1>3

\* The decision of an evaluation: the tier of the score it has seen is active
\* already, or is started.
LEMMA DecideStep ==
    ASSUME ResponseInv, NEW e \in Events, Decide(e)
    PROVE  ResponseInv'
<1>1. PICK t : t = Choose(seen[e])
  OBVIOUS
<1>2. /\ step[e] = "logged" /\ scores' = [scores EXCEPT ![src] = scores[src]]
      /\ UNCHANGED <<src, finalized, got, seen, shadow, decays, evicted>>
      /\ \/ /\ active[src] = t /\ step' = [step EXCEPT ![e] = "done"]
            /\ UNCHANGED <<active, launched>>
         \/ /\ step' = [step EXCEPT ![e] = "saga"] /\ active' = [active EXCEPT ![src] = t]
            /\ launched' = [launched EXCEPT ![src] = @ \cup {t}]
  BY <1>1 DEF Decide, Resolve, busVars
<1>3. /\ src \in Sources /\ scores \in [Sources -> Nat] /\ step \in [Events -> Steps]
      /\ seen[e] \in Nat /\ active \in [Sources -> Tiers \cup {"none"}]
      /\ launched \in [Sources -> SUBSET Tiers] /\ shadow \in BOOLEAN
  BY DEF ResponseInv, ResponseTypes
<1>4. seen[e] \in 0 .. Total[Events]
  BY <1>3, TotalType DEF ResponseInv, Bounded
<1>5. t \in Tiers /\ (~shadow => t = PolicyEvaluate[seen[e]])
  <2>1. PolicyEvaluate[seen[e]] \in Tiers /\ "WATCH" \in Tiers
    BY <1>4, PolicyTier DEF Tiers
  <2>2. QED
    BY <1>1, <2>1, Zenon DEF Choose
<1>6. t # "none"
  BY <1>5 DEF Tiers
<1>7. UNCHANGED scores
  BY <1>2, <1>3
<1>8. /\ active' \in [Sources -> Tiers \cup {"none"}] /\ launched' \in [Sources -> SUBSET Tiers]
      /\ active'[src] = t /\ (active[src] = t \/ t \in launched'[src])
      /\ \A s \in Sources : launched[s] \subseteq launched'[s]
      /\ \A s \in Sources : s # src => active'[s] = active[s]
  BY <1>2, <1>3, <1>5
<1>9. t \in launched'[src]
  BY <1>3, <1>6, <1>8 DEF ResponseInv, Started
<1>10. /\ step' \in [Events -> Steps] /\ step'[e] \in {"saga", "done"}
       /\ \A x \in Events : x # e => step'[x] = step[x]
  BY <1>2, <1>3 DEF Steps
<1>11. ResponseTypes'
  BY <1>2, <1>7, <1>8, <1>10 DEF ResponseInv, ResponseTypes
<1>12. Unhanded'
  BY <1>2, <1>10 DEF ResponseInv, Unhanded
<1>13. Bounded' /\ NoAdditionLost'
  BY <1>2, <1>7, <1>10, SameAdditions
<1>14. Started'
  BY <1>8, <1>9 DEF ResponseInv, Started
<1>15. ASSUME scores[src] > 0, ~shadow PROVE Reached(scores[src])' \/ Awaited(scores[src])'
  <2>1. PICK n : n = scores[src]
    OBVIOUS
  <2>2. n \in Nat /\ n = scores'[src'] /\ (Reached(n) \/ Awaited(n))
    BY <1>2, <1>3, <1>7, <1>15, <2>1 DEF ResponseInv, Pending
  <2>3. CASE Reached(n)
    BY <1>2, <1>3, <1>8, <2>2, <2>3 DEF Reached
  <2>4. CASE \E x \in Events : x # e /\ step[x] = "logged" /\ seen[x] >= n
    BY <1>2, <1>10, <2>2, <2>4 DEF Awaited
  <2>5. CASE seen[e] >= n
    <3>1. n <= seen[e]
      BY <1>3, <2>2, <2>5
    <3>2. /\ Threshold[PolicyEvaluate[n]] \in Nat /\ Threshold[PolicyEvaluate[seen[e]]] \in Nat
          /\ Threshold[PolicyEvaluate[n]] <= Threshold[PolicyEvaluate[seen[e]]]
      BY <1>4, <2>2, <3>1, PolicyMonotone
    <3>3. Threshold[t] >= Threshold[PolicyEvaluate[n]]
      BY <1>5, <1>15, <3>2
    <3>4. QED
      BY <1>2, <1>9, <2>2, <3>3 DEF Reached
  <2>6. QED
    BY <2>2, <2>3, <2>4, <2>5 DEF Awaited
<1>16. Pending'
  BY <1>2, <1>7, <1>15 DEF Pending
<1>17. QED
  BY <1>11, <1>12, <1>13, <1>14, <1>16 DEF ResponseInv

\* The end of the saga changes no score.
LEMMA SagaStep ==
    ASSUME ResponseInv, NEW e \in Events, Saga(e)
    PROVE  ResponseInv'
<1>1. /\ step[e] = "saga" /\ step' = [step EXCEPT ![e] = "done"]
      /\ UNCHANGED <<src, finalized, got, scores, seen, active, launched, shadow, decays, evicted>>
  BY DEF Saga, busVars
<1>2. step \in [Events -> Steps]
  BY DEF ResponseInv, ResponseTypes
<1>3. /\ step' \in [Events -> Steps] /\ step'[e] = "done"
      /\ \A x \in Events : x # e => step'[x] = step[x]
  BY <1>1, <1>2 DEF Steps
<1>4. ResponseTypes'
  BY <1>1, <1>3 DEF ResponseInv, ResponseTypes
<1>5. Unhanded' /\ Started'
  BY <1>1, <1>3 DEF ResponseInv, Unhanded, Started
<1>6. Bounded' /\ NoAdditionLost'
  BY <1>1, <1>3, SameAdditions
<1>7. Pending'
  BY <1>1, <1>3 DEF ResponseInv, Pending, Reached, Awaited
<1>8. QED
  BY <1>4, <1>5, <1>6, <1>7 DEF ResponseInv

\* The decay takes one from a score, and forgets a source that reaches zero.
LEMMA DecayStep ==
    ASSUME ResponseInv, DecayScores
    PROVE  ResponseInv'
<1>1. /\ decays' = decays + 1
      /\ scores' = [s \in Sources |-> IF scores[s] = 0 THEN 0 ELSE scores[s] - 1]
      /\ active' = [s \in Sources |-> IF scores[s] = 1 THEN "none" ELSE active[s]]
      /\ launched' = [s \in Sources |-> IF scores[s] = 1 THEN {} ELSE launched[s]]
      /\ UNCHANGED <<src, finalized, got, evicted, seen, step, shadow>>
  BY DEF DecayScores, busVars
<1>2. /\ src \in Sources /\ decays \in Nat /\ evicted \in Nat /\ scores \in [Sources -> Nat]
      /\ active \in [Sources -> Tiers \cup {"none"}] /\ launched \in [Sources -> SUBSET Tiers]
  BY DEF ResponseInv, ResponseTypes
<1>3. /\ scores' \in [Sources -> Nat] /\ decays' \in Nat
      /\ \A s \in Sources : scores'[s] <= scores[s] /\ scores[s] <= scores'[s] + 1
      /\ \A s \in Sources : scores'[s] > 0 => scores[s] # 1 /\ scores[s] > 0
  BY <1>1, <1>2
<1>4. /\ active' \in [Sources -> Tiers \cup {"none"}] /\ launched' \in [Sources -> SUBSET Tiers]
      /\ \A s \in Sources : scores[s] # 1 => launched'[s] = launched[s] /\ active'[s] = active[s]
      /\ \A s \in Sources : scores[s] = 1 => active'[s] = "none"
  BY <1>1, <1>2
<1>5. ResponseTypes'
  BY <1>1, <1>3, <1>4 DEF ResponseInv, ResponseTypes
<1>6. Unhanded'
  BY <1>1 DEF ResponseInv, Unhanded
<1>7. Started'
  BY <1>4 DEF ResponseInv, Started
<1>8. \A s \in Sources : /\ Handed(s)' = Handed(s) /\ Total[Handed(s)] \in Nat
                         /\ scores[s] <= Total[Handed(s)] /\ scores[s] \in Nat /\ scores'[s] \in Nat
                         /\ scores[s] + decays + evicted >= Total[Handed(s)]
  <2>1. \A s \in Sources : Handed(s)' = Handed(s)
    BY <1>1 DEF Handed
  <2>2. \A s \in Sources : Total[Handed(s)] \in Nat
    BY HandedSets, TotalType
  <2>3. QED
    BY <1>2, <1>3, <2>1, <2>2 DEF ResponseInv, Bounded, NoAdditionLost
<1>9. \A s \in Sources : scores'[s] <= Total[Handed(s)] /\ scores'[s] + decays' + evicted' >= Total[Handed(s)]
  BY <1>1, <1>2, <1>3, <1>8
<1>10. Bounded' /\ NoAdditionLost'
  BY <1>1, <1>8, <1>9 DEF ResponseInv, Bounded, NoAdditionLost
<1>11. ASSUME scores'[src] > 0, ~shadow PROVE Reached(scores[src])' \/ Awaited(scores[src])'
  <2>1. PICK m, n : m = scores'[src] /\ n = scores[src]
    OBVIOUS
  <2>2. m \in Nat /\ n \in Nat /\ m <= n /\ n > 0 /\ launched'[src] = launched[src]
    BY <1>2, <1>3, <1>4, <1>11, <2>1
  <2>3. Reached(n) \/ Awaited(n)
    BY <1>11, <2>1, <2>2 DEF ResponseInv, Pending
  <2>4. n \in 0 .. Total[Events]
    <3>1. Handed(src) \in SUBSET Events
      BY <1>2, HandedSets
    <3>2. Total[Handed(src)] <= Total[Events] /\ Total[Events] \in Nat
      BY <3>1, TotalType
    <3>3. QED
      BY <1>2, <1>8, <2>1, <2>2, <3>2
  <2>5. /\ Threshold[PolicyEvaluate[m]] \in Nat /\ Threshold[PolicyEvaluate[n]] \in Nat
        /\ Threshold[PolicyEvaluate[m]] <= Threshold[PolicyEvaluate[n]]
    BY <2>2, <2>4, PolicyMonotone
  <2>6. CASE Reached(n)
    <3>1. PICK t \in launched[src] : Threshold[t] >= Threshold[PolicyEvaluate[n]]
      BY <2>6 DEF Reached
    <3>2. t \in Tiers /\ Threshold[t] \in Nat
      BY <1>2, <3>1, ResponseAssumption
    <3>3. Threshold[t] >= Threshold[PolicyEvaluate[m]]
      BY <2>5, <3>1, <3>2
    <3>4. QED
      BY <1>1, <2>1, <2>2, <3>1, <3>3 DEF Reached
  <2>7. CASE Awaited(n)
    <3>1. PICK e \in Events : step[e] = "logged" /\ seen[e] >= n
      BY <2>7 DEF Awaited
    <3>2. seen[e] \in Nat
      BY DEF ResponseInv, ResponseTypes
    <3>3. seen[e] >= m
      BY <2>2, <3>1, <3>2
    <3>4. QED
      BY <1>1, <2>1, <3>1, <3>3 DEF Awaited
  <2>8. QED
    BY <2>3, <2>6, <2>7
<1>12. Pending'
  BY <1>1, <1>11 DEF Pending
<1>13. QED
  BY <1>5, <1>6, <1>7, <1>10, <1>12 DEF ResponseInv

\* The full map forgets the score of the source, and counts what it forgets.
LEMMA EvictScoreStep ==
    ASSUME ResponseInv, EvictScore
    PROVE  ResponseInv'
<1>1. /\ scores' = [scores EXCEPT ![src] = 0] /\ evicted' = evicted + scores[src]
      /\ UNCHANGED <<src, finalized, got, seen, step, active, launched, shadow, decays>>
  BY DEF EvictScore, busVars
<1>2. /\ src \in Sources /\ decays \in Nat /\ evicted \in Nat /\ scores \in [Sources -> Nat]
  BY DEF ResponseInv, ResponseTypes
<1>3. ResponseTypes'
  BY <1>1, <1>2 DEF ResponseInv, ResponseTypes
<1>4. Unhanded' /\ Started'
  BY <1>1 DEF ResponseInv, Unhanded, Started
<1>5. \A s \in Sources : /\ Handed(s)' = Handed(s) /\ Total[Handed(s)] \in Nat
                         /\ scores[s] <= Total[Handed(s)] /\ scores[s] \in Nat
                         /\ scores[s] + decays + evicted >= Total[Handed(s)]
  <2>1. \A s \in Sources : Handed(s)' = Handed(s)
    BY <1>1 DEF Handed
  <2>2. \A s \in Sources : Total[Handed(s)] \in Nat
    BY HandedSets, TotalType
  <2>3. QED
    BY <1>2, <2>1, <2>2 DEF ResponseInv, Bounded, NoAdditionLost
<1>6. /\ scores'[src] = 0 /\ \A s \in Sources : s # src => scores'[s] = scores[s]
  BY <1>1, <1>2
<1>7. ASSUME NEW s \in Sources
      PROVE  /\ scores'[s] <= Total[Handed(s)]
             /\ scores'[s] + decays' + evicted' >= Total[Handed(s)]
  <2>1. PICK n, m, t : n = scores[s] /\ m = scores[src] /\ t = Total[Handed(s)]
    OBVIOUS
  <2>2. /\ n \in Nat /\ m \in Nat /\ t \in Nat /\ n <= t /\ n + decays + evicted >= t
        /\ decays' = decays /\ evicted' = evicted + m
    BY <1>1, <1>2, <1>5, <2>1
  <2>3. (s = src /\ scores'[s] = 0 /\ n = m) \/ scores'[s] = n
    BY <1>6, <2>1
  <2>4. scores'[s] <= t /\ scores'[s] + decays' + evicted' >= t
    BY <1>2, <2>2, <2>3
  <2>5. QED
    BY <2>1, <2>4
<1>8. Bounded' /\ NoAdditionLost'
  BY <1>1, <1>5, <1>7 DEF ResponseInv, Bounded, NoAdditionLost
<1>9. Pending'
  BY <1>1, <1>6 DEF Pending
<1>10. QED
  BY <1>3, <1>4, <1>8, <1>9 DEF ResponseInv

\* It forgets the remediation of the source: the next decision starts its tier.
LEMMA EvictRemediationStep ==
    ASSUME ResponseInv, EvictRemediation
    PROVE  ResponseInv'
<1>1. /\ active' = [active EXCEPT ![src] = "none"]
      /\ UNCHANGED <<src, finalized, got, scores, evicted, seen, step, launched, shadow, decays>>
  BY DEF EvictRemediation, busVars
<1>2. ResponseTypes' /\ Started'
  BY <1>1 DEF ResponseInv, ResponseTypes, Started
<1>3. Unhanded'
  BY <1>1 DEF ResponseInv, Unhanded
<1>4. Bounded' /\ NoAdditionLost'
  BY <1>1, SameAdditions
<1>5. Pending'
  BY <1>1 DEF ResponseInv, Pending, Reached, Awaited
<1>6. QED
  BY <1>2, <1>3, <1>4, <1>5 DEF ResponseInv

-----------------------------------------------------------------------------
(* The invariant and the theorems.                                         *)

LEMMA ResponseInit == Init => ResponseInv
<1>1. SUFFICES ASSUME Init PROVE ResponseInv
  OBVIOUS
<1>2. ResponseTypes
  BY <1>1 DEF Init, ResponseTypes, Steps, Tiers
<1>3. Unhanded /\ Started /\ Pending
  BY <1>1 DEF Init, Unhanded, Started, Pending
<1>4. \A s \in Sources : Total[Handed(s)] = 0
  <2>1. \A s \in Sources : Handed(s) = {}
    BY <1>1 DEF Init, Handed
  <2>2. QED
    BY <2>1, TotalEmpty
<1>5. Total[Events] \in Nat
  BY TotalType
<1>6. Bounded /\ NoAdditionLost
  <2>1. /\ decays = 0 /\ evicted = 0 /\ (\A s \in Sources : scores[s] = 0)
        /\ (\A e \in Events : seen[e] = 0)
    BY <1>1 DEF Init
  <2>2. QED
    BY <1>4, <1>5, <2>1 DEF Bounded, NoAdditionLost
<1>7. QED
  BY <1>2, <1>3, <1>6 DEF ResponseInv

LEMMA ResponseStep == ResponseInv /\ [Next]_vars => ResponseInv'
<1>1. SUFFICES ASSUME ResponseInv, [Next]_vars PROVE ResponseInv'
  OBVIOUS
<1>2. ASSUME NEW e \in Events, Publish(e) PROVE ResponseInv'
  <2>1. UNCHANGED <<src, active, launched, shadow, decays, evicted>>
    BY <1>2 DEF Publish, Untouched
  <2>2. CASE UNCHANGED <<finalized, got, scores, seen, step>>
    BY <1>1, <2>1, <2>2, KeptStep
  <2>3. CASE Finalize(e)
    BY <1>1, <2>1, <2>3, FinalizeStep
  <2>4. QED
    BY <1>2, <2>2, <2>3 DEF Publish, Enter
<1>3. ASSUME NEW e \in Events, NEW i \in Levels, CallNext(e, i) PROVE ResponseInv'
  <2>1. UNCHANGED <<src, active, launched, shadow, decays, evicted>>
    BY <1>3 DEF CallNext, Untouched
  <2>2. CASE UNCHANGED <<finalized, got, scores, seen, step>>
    BY <1>1, <2>1, <2>2, KeptStep
  <2>3. CASE Finalize(e)
    BY <1>1, <2>1, <2>3, FinalizeStep
  <2>4. QED
    BY <1>3, <2>2, <2>3 DEF CallNext
<1>4. ASSUME NEW e \in Events, NEW i \in Levels, Fail(e, i) PROVE ResponseInv'
  <2>1. Finalize(e) /\ UNCHANGED <<src, active, launched, shadow, decays, evicted>>
    BY <1>4 DEF Fail, Untouched
  <2>2. QED
    BY <1>1, <2>1, FinalizeStep
<1>5. ASSUME NEW e \in Events, NEW i \in Levels, Return(e, i) PROVE ResponseInv'
  BY <1>1, <1>5, KeptStep DEF Return, Untouched
<1>6. ASSUME NEW e \in Events, AutoBlock(e) \/ Playbook(e) PROVE ResponseInv'
  BY <1>1, <1>6, KeptStep DEF AutoBlock, Playbook, busVars, engineVars
<1>7. ASSUME NEW e \in Events, BehavioralAudit(e) PROVE ResponseInv'
  <2>1. /\ step[e] = "audit" /\ Ingest(e)
        /\ UNCHANGED <<src, finalized, got, active, launched, shadow, decays, evicted>>
    BY <1>7 DEF BehavioralAudit, busVars
  <2>2. /\ scores' \in [Sources -> Nat] /\ seen' \in [Events -> Nat]
        /\ step' \in [Events -> Steps]
        /\ \A x \in Events : x # e => step'[x] = step[x]
        /\ Bounded' /\ NoAdditionLost' /\ Started' /\ Pending'
    BY <1>1, <2>1, IngestStep
  <2>3. ResponseTypes'
    BY <1>1, <2>1, <2>2 DEF ResponseInv, ResponseTypes
  <2>4. Unhanded'
    BY <1>1, <2>1, <2>2 DEF ResponseInv, Unhanded
  <2>5. QED
    BY <2>2, <2>3, <2>4 DEF ResponseInv
<1>8. CASE DelayedKill \/ BusShutdown
  BY <1>1, <1>8, KeptStep DEF DelayedKill, BusShutdown, busVars, engineVars
<1>9. CASE UNCHANGED vars
  BY <1>1, <1>9, KeptStep DEF vars, busVars, engineVars
<1>10. QED
  BY <1>1, <1>2, <1>3, <1>4, <1>5, <1>6, <1>7, <1>8, <1>9, DecideStep, SagaStep, DecayStep,
     EvictScoreStep, EvictRemediationStep
  DEF Next

LEMMA ResponseInvHolds == Spec => []ResponseInv
  BY ResponseInit, ResponseStep, PTL DEF Spec

\* finalizePublish hands an event to its handlers at most once, for any number of
\* events and of middleware functions that fail, hang or call next() late.
THEOREM EventHandedOnce == Spec => []HandedOnce
<1>1. ResponseInv => HandedOnce
  BY DEF ResponseInv, Unhanded, HandedOnce
<1>2. QED
  BY <1>1, ResponseInvHolds, PTL

\* Evaluations of one source that overlap lose no addition to its score, for any
\* number of events and any severities: what is missing was taken by the decay or
\* went with an entry the full map evicted (evaluate of AutonomousResponseEngine).
THEOREM NoScoreLost == Spec => []NoAdditionLost
<1>1. ResponseInv => NoAdditionLost
  BY DEF ResponseInv
<1>2. QED
  BY <1>1, ResponseInvHolds, PTL

\* When no evaluation of a source is on its way, the tier its score asks for, or
\* a higher one, has been started: the decision uses the score an event saw when
\* it arrived, and the last of the events saw at least the score that is left.
\* For every policy, every number of events and every order of the evaluations.
THEOREM TierStarted == Spec => []Escalated
<1>1. ASSUME ResponseInv PROVE Escalated
  <2>1. SUFFICES ASSUME NEW s \in Sources, Quiet(s), scores[s] > 0, ~shadow
                 PROVE  \E t \in launched[s] : Threshold[t] >= Threshold[PolicyEvaluate[scores[s]]]
    BY DEF Escalated
  <2>2. s = src
    <3>1. SUFFICES ASSUME s # src PROVE FALSE
      OBVIOUS
    <3>2. Total[Handed(s)] = 0
      BY <3>1, HandedSets, TotalEmpty
    <3>3. scores[s] \in Nat /\ scores[s] <= 0
      BY <1>1, <3>2 DEF ResponseInv, ResponseTypes, Bounded
    <3>4. QED
      BY <2>1, <3>3
  <2>3. ~Awaited(scores[src])
    BY <2>1, <2>2 DEF Quiet, Awaited
  <2>4. QED
    BY <1>1, <2>1, <2>2, <2>3 DEF ResponseInv, Pending, Reached
<1>2. QED
  BY <1>1, ResponseInvHolds, PTL

-----------------------------------------------------------------------------
(* What holds the blocks the responses ask for (Perimeter), for any number *)
(* of overlapping calls and any number of crashes and failures.            *)

\* What a call may be doing.  A record is written for a block and deleted for
\* an unblock; ufw is never asked for a ban; only a block is made at boot, and
\* only an unblock for the audit.
Tasks ==
    {c \in [op : {"none", "block", "unblock", "flush", "shadow"},
            at : {"idle", "record", "ask", "sentinel", "ufw", "commit", "enforced", "store",
                  "verify", "renew", "delete", "ping"},
            for : {"none", "block", "shadow", "isolate", "sync", "unblock", "purge", "flush",
                   "hydrate", "audit", "guard"},
            new : 0 .. 3] :
        /\ c.at = "record" => c.op \in {"block", "unblock"}
        /\ c.at = "ufw" => c.op \in {"block", "unblock", "flush"}
        /\ c.at \in {"ask", "sentinel"} => c.op \in {"block", "unblock", "flush", "shadow"}
        /\ c.for = "hydrate" => c.op = "block"
        /\ c.at = "delete" \/ c.for = "purge" => c.op = "unblock"}

Undoes(c) == c.op \in {"unblock", "flush"}

\* A block call on its way that nothing has taken back.
Underway(c) ==
    /\ c.op = "block" /\ c.at \in {"record", "ask", "sentinel", "ufw"}
    /\ c.at # "record" => rec # "none"

\* Nothing that counts as a standing block is there while something undoes one.
Exclusive == Wall!Undoing => clean = {} /\ ~tight

Promised == \A t \in clean : t \in Wall!Threads /\ Underway(task[t]) /\ mem

\* A standing block outlives the process as its record.
OnRecord == tight => rec # "none" /\ (up # "down" => mem)

Held == up = "up" /\ tight => xdp \/ ufw \/ unheld

WallInv ==
    /\ task \in [Wall!Threads -> Tasks]
    /\ up = "down" => \A t \in Wall!Threads : task[t].at = "idle"
    /\ Exclusive /\ Promised /\ OnRecord /\ Held

LEMMA WallSuffices == WallInv => Wall!BlockHolds
  BY DEF WallInv, OnRecord, Held, Wall!BlockHolds

LEMMA IdleTask == Wall!Idle \in Tasks /\ Wall!Idle.at = "idle" /\ Wall!Idle.op = "none"
  BY DEF Tasks, Wall!Idle

LEMMA WallInit == Wall!Init => WallInv
<1>1. SUFFICES ASSUME Wall!Init PROVE WallInv
  OBVIOUS
<1>2. /\ task = [t \in Wall!Threads |-> Wall!Idle] /\ clean = {} /\ ~tight
  BY <1>1 DEF Wall!Init
<1>3. QED
  BY <1>2, IdleTask DEF WallInv, Exclusive, Promised, OnRecord, Held

\* One call goes on: what it may not do is to begin an undoing, or to delete
\* the record without one.
LEMMA MoveStep ==
    ASSUME WallInv, NEW t \in Wall!Threads,
           task' \in [Wall!Threads -> Tasks],
           \A u \in Wall!Threads : u # t => task'[u] = task[u],
           Undoes(task'[t]) => Undoes(task[t]),
           t \in clean => task'[t].op = "block" /\ task'[t].at \in {"ask", "sentinel", "ufw"}
                          /\ rec' # "none",
           up = "down" => task'[t].at = "idle",
           rec' = "none" => rec = "none" \/ Wall!Undoing,
           "UNBLOCK_IP" \in overdue' => Wall!Undoing,
           UNCHANGED <<up, mem, xdp, ufw, clean, tight, unheld>>
    PROVE  WallInv'
<1>1. Wall!Undoing' => Wall!Undoing
  BY DEF Wall!Undoing, Undoes
<1>2. Exclusive'
  BY <1>1 DEF WallInv, Exclusive
<1>3. clean # {} \/ tight => (rec' = "none" => rec = "none")
  BY DEF WallInv, Exclusive
<1>4. Promised'
  BY <1>3 DEF WallInv, Promised, Underway
<1>5. OnRecord' /\ Held'
  BY <1>3 DEF WallInv, OnRecord, Held
<1>6. QED
  BY <1>2, <1>4, <1>5 DEF WallInv

\* Goto changes the place only.
LEMMA GotoEffect ==
    ASSUME NEW S, task \in [S -> Tasks], NEW t \in S, NEW a, Wall!Goto(t, a),
           [task[t] EXCEPT !.at = a] \in Tasks
    PROVE  /\ task' \in [S -> Tasks] /\ \A u \in S : u # t => task'[u] = task[u]
           /\ task'[t].op = task[t].op /\ task'[t].for = task[t].for /\ task'[t].at = a
<1>1. PICK c : c = [task[t] EXCEPT !.at = a]
  OBVIOUS
<1>2. task' = [task EXCEPT ![t] = c]
  BY <1>1 DEF Wall!Goto
<1>3. task[t] \in Tasks
  OBVIOUS
<1>4. c.op = task[t].op /\ c.for = task[t].for /\ c.at = a
  BY <1>1, <1>3 DEF Tasks
<1>5. QED
  BY <1>1, <1>2, <1>4

LEMMA SetEffect ==
    ASSUME NEW S, task \in [S -> Tasks], NEW t \in S, NEW c \in Tasks, Wall!Set(t, c)
    PROVE  task' \in [S -> Tasks] /\ task'[t] = c /\ \A u \in S : u # t => task'[u] = task[u]
  BY DEF Wall!Set

\* A call that is under way is at none of the other places.
LEMMA CleanAt ==
    ASSUME WallInv, NEW t \in clean
    PROVE  /\ task[t].op = "block" /\ task[t].at \in {"record", "ask", "sentinel", "ufw"}
           /\ task[t].at # "record" => rec # "none"
           /\ mem
  BY DEF WallInv, Promised, Underway

\* While a call is on its way the process is not down.
LEMMA BusyUp ==
    ASSUME WallInv, NEW t \in Wall!Threads, task[t].at # "idle"
    PROVE  up # "down"
  BY DEF WallInv

LEMMA UndoesUndoing ==
    ASSUME NEW t \in Wall!Threads, Undoes(task[t])
    PROVE  Wall!Undoing
  BY DEF Undoes, Wall!Undoing

LEMMA RecordKeeps ==
    ASSUME WallInv, NEW t \in Wall!Threads, Wall!Record(t)
    PROVE  WallInv'
<1>1. task \in [Wall!Threads -> Tasks] /\ task[t] \in Tasks
  BY DEF WallInv
<1>2. task[t].at = "record" /\ Wall!Goto(t, "ask") /\ task[t].op \in {"block", "unblock"}
  BY <1>1 DEF Wall!Record, Tasks
<1>3. [task[t] EXCEPT !.at = "ask"] \in Tasks
  BY <1>1, <1>2 DEF Tasks
<1>4. /\ task' \in [Wall!Threads -> Tasks]
      /\ \A u \in Wall!Threads : u # t => task'[u] = task[u]
      /\ task'[t].op = task[t].op /\ task'[t].at = "ask"
  BY <1>1, <1>2, <1>3, GotoEffect
<1>5. Undoes(task'[t]) => Undoes(task[t])
  BY <1>4 DEF Undoes
<1>6. up # "down"
  BY <1>2, BusyUp
<1>7. rec' = IF task[t].op = "block" THEN "fresh" ELSE "none"
  BY DEF Wall!Record
<1>8. rec' = "none" => rec = "none" \/ Wall!Undoing
  BY <1>2, <1>7, UndoesUndoing DEF Undoes
<1>9. t \in clean => task'[t].op = "block" /\ task'[t].at \in {"ask", "sentinel", "ufw"} /\ rec' # "none"
  BY <1>4, <1>7, CleanAt
<1>10. UNCHANGED <<up, mem, xdp, ufw, overdue, clean, tight, unheld>>
  BY DEF Wall!Record, Wall!ruleVars, Wall!history
<1>11. "UNBLOCK_IP" \in overdue' => Wall!Undoing
  BY <1>10 DEF Wall!Undoing
<1>12. QED
  BY <1>4, <1>5, <1>6, <1>8, <1>9, <1>10, <1>11, MoveStep

\* A call that is not under way as a block goes on, and leaves the record or
\* writes it.
LEMMA OtherStep ==
    ASSUME WallInv, NEW t \in Wall!Threads, t \notin clean, NEW c \in Tasks, Wall!Set(t, c),
           Undoes(c) => Undoes(task[t]), up # "down", rec' = rec \/ rec' = "fresh",
           UNCHANGED <<up, mem, xdp, ufw, overdue, clean, tight, unheld>>
    PROVE  WallInv'
<1>1. task \in [Wall!Threads -> Tasks]
  BY DEF WallInv
<1>2. /\ task' \in [Wall!Threads -> Tasks] /\ task'[t] = c
      /\ \A u \in Wall!Threads : u # t => task'[u] = task[u]
  BY <1>1, SetEffect
<1>3. Undoes(task'[t]) => Undoes(task[t])
  BY <1>2
<1>4. "UNBLOCK_IP" \in overdue' => Wall!Undoing
  BY DEF Wall!Undoing
<1>5. rec' = "none" => rec = "none" \/ Wall!Undoing
  OBVIOUS
<1>6. QED
  BY <1>2, <1>3, <1>4, <1>5, MoveStep

\* A call waits for the sentinel or for ufw next, or asks again as a block.
LEMMA AskStep ==
    ASSUME WallInv, NEW t \in Wall!Threads, task[t].at \in {"ask", "sentinel"},
           \/ Wall!Goto(t, "sentinel") /\ task[t].at = "ask"
           \/ Wall!FallBack(t),
           "UNBLOCK_IP" \in overdue' => Wall!Undoing,
           UNCHANGED <<up, mem, rec, xdp, ufw, clean, tight, unheld>>
    PROVE  WallInv'
<1>1. task \in [Wall!Threads -> Tasks] /\ task[t] \in Tasks
  BY DEF WallInv
<1>2. up # "down"
  BY BusyUp
<1>3. t \in clean => rec' # "none" /\ task[t].op = "block"
  BY CleanAt
<1>4. ASSUME NEW a \in {"sentinel", "ufw"}, Wall!Goto(t, a), a = "ufw" => task[t].op # "shadow"
      PROVE  WallInv'
  <2>1. task[t].op \in {"block", "unblock", "flush", "shadow"}
    BY <1>1 DEF Tasks
  <2>2. [task[t] EXCEPT !.at = a] \in Tasks
    BY <1>1, <1>4, <2>1 DEF Tasks
  <2>3. /\ task' \in [Wall!Threads -> Tasks]
        /\ \A u \in Wall!Threads : u # t => task'[u] = task[u]
        /\ task'[t].op = task[t].op /\ task'[t].at = a
    BY <1>1, <1>4, <2>2, GotoEffect
  <2>4. Undoes(task'[t]) => Undoes(task[t])
    BY <2>3 DEF Undoes
  <2>5. t \in clean => task'[t].op = "block" /\ task'[t].at \in {"ask", "sentinel", "ufw"}
                       /\ rec' # "none"
    BY <1>3, <2>3
  <2>6. rec' = "none" => rec = "none" \/ Wall!Undoing
    OBVIOUS
  <2>7. QED
    BY <1>2, <2>3, <2>4, <2>5, <2>6, MoveStep
<1>5. CASE task[t].op = "shadow" /\ Wall!Set(t, Wall!Call("block", "ask", "shadow"))
  <2>1. PICK c : c = Wall!Call("block", "ask", "shadow")
    OBVIOUS
  <2>2. c \in Tasks /\ c.op = "block" /\ c.at = "ask" /\ Wall!Set(t, c)
    BY <1>5, <2>1 DEF Wall!Call, Tasks
  <2>3. /\ task' \in [Wall!Threads -> Tasks] /\ task'[t] = c
        /\ \A u \in Wall!Threads : u # t => task'[u] = task[u]
    BY <1>1, <2>2, SetEffect
  <2>4. Undoes(task'[t]) => Undoes(task[t])
    BY <2>2, <2>3 DEF Undoes
  <2>5. t \in clean => task'[t].op = "block" /\ task'[t].at \in {"ask", "sentinel", "ufw"}
                       /\ rec' # "none"
    BY <1>3, <1>5
  <2>6. rec' = "none" => rec = "none" \/ Wall!Undoing
    OBVIOUS
  <2>7. QED
    BY <1>2, <2>3, <2>4, <2>5, <2>6, MoveStep
<1>6. QED
  BY <1>4, <1>5 DEF Wall!FallBack

\* The first step of blockIp.
LEMMA BlockKeeps ==
    ASSUME WallInv, NEW t \in Wall!Threads, up # "down", t \notin clean,
           NEW f \in {"block", "isolate", "sync"}, Wall!BlockIp(t, f)
    PROVE  WallInv'
<1>1. task \in [Wall!Threads -> Tasks] /\ task[t] \in Tasks
  BY DEF WallInv
<1>2. PICK c : c = [Wall!Call("block", "record", f) EXCEPT !.new = task[t].new]
  OBVIOUS
<1>3. c = [op |-> "block", at |-> "record", for |-> f, new |-> task[t].new]
  BY <1>2 DEF Wall!Call
<1>4. task[t].new \in 0 .. 3
  BY <1>1 DEF Tasks
<1>5. c \in Tasks /\ c.op = "block" /\ c.at = "record"
  BY <1>3, <1>4 DEF Tasks
<1>6. Wall!Set(t, c)
  BY <1>2 DEF Wall!BlockIp
<1>7. /\ task' \in [Wall!Threads -> Tasks] /\ task'[t] = c
      /\ \A u \in Wall!Threads : u # t => task'[u] = task[u]
  BY <1>1, <1>5, <1>6, SetEffect
<1>8. /\ mem' /\ UNCHANGED <<up, rec, xdp, ufw, overdue, tight, unheld>>
      /\ clean' = IF Wall!Undoing THEN clean \ {t} ELSE clean \cup {t}
  BY DEF Wall!BlockIp, Wall!BeginsBlock, Wall!ruleVars
<1>9. Wall!Undoing' => Wall!Undoing
  BY <1>5, <1>7, <1>8 DEF Wall!Undoing
<1>10. Exclusive'
  BY <1>8, <1>9 DEF WallInv, Exclusive
<1>11. Promised'
  BY <1>5, <1>7, <1>8 DEF WallInv, Promised, Underway
<1>12. OnRecord' /\ Held'
  BY <1>8 DEF WallInv, OnRecord, Held
<1>13. QED
  BY <1>7, <1>8, <1>10, <1>11, <1>12 DEF WallInv

\* Whatever takes the blocks back counts none as standing from then on.
LEMMA UndoKeeps ==
    ASSUME WallInv, NEW t \in Wall!Threads, up # "down",
           \/ \E f \in {"unblock", "purge"} : Wall!UnblockIp(t, f)
           \/ Wall!FlushRules(t)
    PROVE  WallInv'
<1>1. task \in [Wall!Threads -> Tasks]
  BY DEF WallInv
<1>2. PICK c \in Tasks : Wall!Set(t, c)
  <2>1. CASE \E f \in {"unblock", "purge"} : Wall!UnblockIp(t, f)
    <3>1. PICK f \in {"unblock", "purge"} : Wall!UnblockIp(t, f)
      BY <2>1
    <3>2. Wall!Set(t, Wall!Call("unblock", "record", f))
      BY <3>1 DEF Wall!UnblockIp
    <3>3. Wall!Call("unblock", "record", f) \in Tasks
      BY DEF Wall!Call, Tasks
    <3>4. QED
      BY <3>2, <3>3
  <2>2. CASE Wall!FlushRules(t)
    <3>1. Wall!Set(t, Wall!Call("flush", "ask", "flush"))
      BY <2>2 DEF Wall!FlushRules
    <3>2. Wall!Call("flush", "ask", "flush") \in Tasks
      BY DEF Wall!Call, Tasks
    <3>3. QED
      BY <3>1, <3>2
  <2>3. QED
    BY <2>1, <2>2
<1>3. task' \in [Wall!Threads -> Tasks]
  BY <1>1, <1>2, SetEffect
<1>4. clean' = {} /\ tight' = FALSE /\ up' = up
  BY DEF Wall!UnblockIp, Wall!FlushRules, Wall!BeginsUndo
<1>5. QED
  BY <1>3, <1>4 DEF WallInv, Exclusive, Promised, OnRecord, Held

LEMMA RequestKeeps ==
    ASSUME WallInv, NEW t \in Wall!Threads, Wall!Request(t)
    PROVE  WallInv'
<1>1. up # "down" /\ task[t] = Wall!Idle /\ task[t].at = "idle" /\ ~Undoes(task[t])
  BY IdleTask DEF Wall!Request, Undoes
<1>2. t \notin clean
  BY <1>1, CleanAt
<1>3. CASE Wall!BlockIp(t, "block") \/ Wall!BlockIp(t, "isolate")
  BY <1>1, <1>2, <1>3, BlockKeeps
<1>4. CASE Wall!UnblockIp(t, "unblock") \/ Wall!FlushRules(t)
  BY <1>1, <1>4, UndoKeeps
<1>5. CASE Wall!ShadowBanIp(t)
  <2>1. PICK c : c = Wall!Call("shadow", "ask", "shadow")
    OBVIOUS
  <2>2. c \in Tasks /\ ~Undoes(c)
    BY <2>1 DEF Wall!Call, Tasks, Undoes
  <2>3. Wall!Set(t, c) /\ UNCHANGED <<up, mem, rec, xdp, ufw, overdue, clean, tight, unheld>>
    BY <1>5, <2>1 DEF Wall!ShadowBanIp, Wall!ruleVars, Wall!history
  <2>4. QED
    BY <1>1, <1>2, <2>2, <2>3, OtherStep
<1>6. CASE Wall!SyncRead(t)
  <2>1. PICK n \in Wall!Rated(score) :
            Wall!Set(t, [Wall!Call("none", IF n = 3 THEN "enforced" ELSE "store", "sync")
                           EXCEPT !.new = n])
    BY <1>6 DEF Wall!SyncRead
  <2>2. n \in 0 .. 3
    BY <2>1 DEF Wall!Rated
  <2>3. PICK a \in {"enforced", "store"} : a = IF n = 3 THEN "enforced" ELSE "store"
    OBVIOUS
  <2>4. PICK c : c = [op |-> "none", at |-> a, for |-> "sync", new |-> n]
    OBVIOUS
  <2>5. c \in Tasks /\ ~Undoes(c)
    BY <2>2, <2>4 DEF Tasks, Undoes
  <2>6. Wall!Set(t, c)
    BY <2>1, <2>3, <2>4 DEF Wall!Call
  <2>7. UNCHANGED <<up, mem, rec, xdp, ufw, overdue, clean, tight, unheld>>
    BY <1>6 DEF Wall!SyncRead, Wall!ruleVars, Wall!history
  <2>8. QED
    BY <1>1, <1>2, <2>5, <2>6, <2>7, OtherStep
<1>7. QED
  BY <1>3, <1>4, <1>5, <1>6 DEF Wall!Request

\* A call that stops at one of the places outside the provider.
LEMMA GotoStep ==
    ASSUME WallInv, NEW t \in Wall!Threads, t \notin clean, NEW a \in {"store", "renew"},
           Wall!Goto(t, a), up # "down",
           UNCHANGED <<up, mem, rec, xdp, ufw, overdue, clean, tight, unheld>>
    PROVE  WallInv'
<1>1. task \in [Wall!Threads -> Tasks] /\ task[t] \in Tasks
  BY DEF WallInv
<1>2. PICK c : c = [task[t] EXCEPT !.at = a]
  OBVIOUS
<1>3. c \in Tasks /\ c.op = task[t].op
  BY <1>1, <1>2 DEF Tasks
<1>4. Wall!Set(t, c)
  BY <1>2 DEF Wall!Goto, Wall!Set
<1>5. Undoes(c) => Undoes(task[t])
  BY <1>3 DEF Undoes
<1>6. QED
  BY <1>3, <1>4, <1>5, OtherStep

LEMMA SyncKeeps ==
    ASSUME WallInv, NEW t \in Wall!Threads,
           Wall!SyncCheck(t) \/ Wall!Commit(t) \/ Wall!SyncStore(t)
    PROVE  WallInv'
<1>1. task[t].at \in {"enforced", "commit", "store"}
  BY DEF Wall!SyncCheck, Wall!Commit, Wall!SyncStore
<1>2. t \notin clean
  BY <1>1, CleanAt
<1>3. up # "down"
  BY <1>1, BusyUp
<1>4. task[t] \in Tasks
  BY DEF WallInv
<1>5. CASE Wall!SyncCheck(t)
  <2>1. CASE Wall!BlockIp(t, "sync")
    BY <1>2, <1>3, <2>1, BlockKeeps
  <2>2. CASE ~Wall!BlockIp(t, "sync")
    <3>1. Wall!Goto(t, "store") /\ UNCHANGED <<up, mem, rec, xdp, ufw, overdue, clean, tight, unheld>>
      BY <1>5, <2>2 DEF Wall!SyncCheck, Wall!ruleVars, Wall!history
    <3>2. QED
      BY <1>2, <1>3, <3>1, GotoStep
  <2>3. QED
    BY <2>1, <2>2
<1>6. CASE Wall!Commit(t)
  <2>1. /\ rec' = "fresh" /\ UNCHANGED <<up, mem, xdp, ufw, overdue, clean, tight, unheld>>
    BY <1>6 DEF Wall!Commit, Wall!ruleVars, Wall!history
  <2>2. CASE task[t].for = "sync"
    <3>1. PICK c : c = [task[t] EXCEPT !.op = "none", !.at = "store"]
      OBVIOUS
    <3>2. c \in Tasks /\ ~Undoes(c)
      BY <1>4, <2>2, <3>1 DEF Tasks, Undoes
    <3>3. Wall!Set(t, c)
      BY <1>6, <2>2, <3>1 DEF Wall!Commit
    <3>4. QED
      BY <1>2, <1>3, <2>1, <3>2, <3>3, OtherStep
  <2>3. CASE task[t].for # "sync"
    <3>1. Wall!Set(t, Wall!Idle) /\ ~Undoes(Wall!Idle)
      BY <1>6, <2>3, IdleTask DEF Wall!Commit, Undoes
    <3>2. QED
      BY <1>2, <1>3, <2>1, <3>1, IdleTask, OtherStep
  <2>4. QED
    BY <2>2, <2>3
<1>7. CASE Wall!SyncStore(t)
  <2>1. UNCHANGED <<up, mem, rec, xdp, ufw, overdue, clean, tight, unheld>>
    BY <1>7 DEF Wall!SyncStore, Wall!ruleVars, Wall!history
  <2>2. Wall!Set(t, Wall!Idle) /\ ~Undoes(Wall!Idle)
    BY <1>7, IdleTask DEF Wall!SyncStore, Undoes
  <2>3. QED
    BY <1>2, <1>3, <2>1, <2>2, IdleTask, OtherStep
<1>8. QED
  BY <1>5, <1>6, <1>7

LEMMA AuditKeeps ==
    ASSUME WallInv, Wall!AuditFinds \/ Wall!Reverify \/ Wall!AuditWrites
    PROVE  WallInv'
<1>1. "audit" \in Wall!Threads
  BY DEF Wall!Threads
<1>2. task["audit"].at \in {"idle", "verify", "renew", "delete"}
  BY IdleTask DEF Wall!AuditFinds, Wall!Reverify, Wall!AuditWrites
<1>3. "audit" \notin clean
  BY <1>2, CleanAt
<1>4. up # "down"
  BY <1>1, BusyUp DEF Wall!AuditFinds, Wall!Reverify, Wall!AuditWrites
<1>5. CASE Wall!AuditFinds
  <2>1. PICK c : c = Wall!Call("none", "verify", "audit")
    OBVIOUS
  <2>2. c \in Tasks /\ ~Undoes(c)
    BY <2>1 DEF Wall!Call, Tasks, Undoes
  <2>3. Wall!Set("audit", c) /\ UNCHANGED <<up, mem, rec, xdp, ufw, overdue, clean, tight, unheld>>
    BY <1>5, <2>1 DEF Wall!AuditFinds, Wall!ruleVars, Wall!history
  <2>4. QED
    BY <1>1, <1>3, <1>4, <2>2, <2>3, OtherStep
<1>6. CASE Wall!Reverify
  <2>1. CASE Wall!UnblockIp("audit", "purge")
    BY <1>1, <1>4, <2>1, UndoKeeps
  <2>2. CASE ~Wall!UnblockIp("audit", "purge")
    <3>1. /\ Wall!Goto("audit", "renew")
          /\ UNCHANGED <<up, mem, rec, xdp, ufw, overdue, clean, tight, unheld>>
      BY <1>6, <2>2 DEF Wall!Reverify, Wall!ruleVars, Wall!history
    <3>2. QED
      BY <1>1, <1>3, <1>4, <3>1, GotoStep
  <2>3. QED
    BY <2>1, <2>2
<1>7. CASE Wall!AuditWrites
  <2>1. /\ UNCHANGED <<up, mem, xdp, ufw, overdue, clean, tight, unheld>>
        /\ Wall!Set("audit", Wall!Idle)
        /\ rec' = IF task["audit"].at = "renew" THEN "fresh" ELSE "none"
        /\ task["audit"].at \in {"renew", "delete"}
    BY <1>7 DEF Wall!AuditWrites, Wall!ruleVars, Wall!history
  <2>2. task["audit"] \in Tasks /\ task \in [Wall!Threads -> Tasks]
    BY <1>1 DEF WallInv
  <2>3. task["audit"].at = "delete" => Wall!Undoing
    BY <1>1, <2>2, UndoesUndoing DEF Tasks, Undoes
  <2>4. /\ task' \in [Wall!Threads -> Tasks] /\ task'["audit"] = Wall!Idle
        /\ \A u \in Wall!Threads : u # "audit" => task'[u] = task[u]
    BY <1>1, <2>1, <2>2, IdleTask, SetEffect
  <2>5. Undoes(task'["audit"]) => Undoes(task["audit"])
    BY <2>4, IdleTask DEF Undoes
  <2>6. rec' = "none" => rec = "none" \/ Wall!Undoing
    BY <2>1, <2>3
  <2>7. "UNBLOCK_IP" \in overdue' => Wall!Undoing
    BY <2>1 DEF Wall!Undoing
  <2>8. QED
    BY <1>1, <1>3, <1>4, <2>1, <2>4, <2>5, <2>6, <2>7, MoveStep
<1>8. QED
  BY <1>5, <1>6, <1>7

LEMMA PingKeeps ==
    ASSUME WallInv, Wall!Ping
    PROVE  WallInv'
<1>1. "guard" \in Wall!Threads
  BY DEF Wall!Threads
<1>2. task["guard"].at = "ping"
  BY DEF Wall!Ping
<1>3. "guard" \notin clean
  BY <1>2, CleanAt
<1>4. up # "down"
  BY <1>1, <1>2, BusyUp
<1>5. CASE Wall!FlushRules("guard")
  BY <1>1, <1>4, <1>5, UndoKeeps
<1>6. CASE ~Wall!FlushRules("guard")
  <2>1. Wall!Set("guard", Wall!Idle) /\ UNCHANGED <<up, mem, rec, xdp, ufw, overdue, clean, tight, unheld>>
    BY <1>6 DEF Wall!Ping, Wall!ruleVars, Wall!history
  <2>2. ~Undoes(Wall!Idle)
    BY IdleTask DEF Undoes
  <2>3. QED
    BY <1>1, <1>3, <1>4, <2>1, <2>2, IdleTask, OtherStep
<1>7. QED
  BY <1>5, <1>6

\* The connectivity guard is started by a call that returns only if it is idle.
LEMMA GuardedEffect ==
    ASSUME task \in [Wall!Threads -> Tasks], NEW t \in Wall!Threads, NEW c \in Tasks,
           NEW done, Wall!Guarded(t, done, c)
    PROVE  /\ task' \in [Wall!Threads -> Tasks] /\ task'[t] = c
           /\ \A u \in Wall!Threads :
                u # t => \/ task'[u] = task[u]
                         \/ task[u].at = "idle" /\ ~Undoes(task'[u])
<1>1. PICK p : p = Wall!Call("none", "ping", "guard")
  OBVIOUS
<1>2. p \in Tasks /\ ~Undoes(p)
  BY <1>1 DEF Wall!Call, Tasks, Undoes
<1>3. task' = [u \in Wall!Threads |->
                 IF u = t THEN c
                 ELSE IF u = "guard" /\ done /\ PilotMode /\ task[u] = Wall!Idle
                 THEN p ELSE task[u]]
  BY <1>1 DEF Wall!Guarded
<1>4. QED
  BY <1>2, <1>3, IdleTask

LEMMA ReturnedEffect ==
    ASSUME task \in [Wall!Threads -> Tasks], NEW t \in Wall!Threads, NEW done,
           Wall!Returned(t, done)
    PROVE  /\ task' \in [Wall!Threads -> Tasks]
           /\ \A u \in Wall!Threads :
                u # t => \/ task'[u] = task[u]
                         \/ task[u].at = "idle" /\ ~Undoes(task'[u])
           /\ Undoes(task'[t]) => Undoes(task[t])
<1>1. task[t] \in Tasks /\ task \in [Wall!Threads -> Tasks]
  OBVIOUS
<1>2. ~Undoes(Wall!Idle)
  BY IdleTask DEF Undoes
<1>3. CASE task[t].for \in {"block", "shadow"}
  <2>1. Wall!Guarded(t, done, Wall!Idle)
    BY <1>3 DEF Wall!Returned
  <2>2. QED
    BY <1>1, <1>2, <2>1, IdleTask, GuardedEffect
<1>4. CASE task[t].for \in {"isolate", "sync"}
  <2>1. PICK c : c = [task[t] EXCEPT !.at = "commit"]
    OBVIOUS
  <2>2. c \in Tasks /\ c.op = task[t].op
    BY <1>1, <1>4, <2>1 DEF Tasks
  <2>3. Wall!Guarded(t, done, c)
    BY <1>4, <2>1 DEF Wall!Returned
  <2>4. /\ task' \in [Wall!Threads -> Tasks]
        /\ \A u \in Wall!Threads :
             u # t => \/ task'[u] = task[u]
                      \/ task[u].at = "idle" /\ ~Undoes(task'[u])
        /\ task'[t] = c
    BY <1>1, <2>2, <2>3, GuardedEffect
  <2>5. QED
    BY <2>2, <2>4 DEF Undoes
<1>5. CASE task[t].for = "purge"
  <2>1. [task[t] EXCEPT !.at = "delete"] \in Tasks
    BY <1>1, <1>5 DEF Tasks
  <2>2. Wall!Goto(t, "delete")
    BY <1>5 DEF Wall!Returned
  <2>3. /\ task' \in [Wall!Threads -> Tasks] /\ \A u \in Wall!Threads : u # t => task'[u] = task[u]
        /\ task'[t].op = task[t].op
    BY <1>1, <2>1, <2>2, GotoEffect
  <2>4. QED
    BY <2>3 DEF Undoes
<1>6. CASE task[t].for \notin {"block", "shadow", "isolate", "sync", "purge"}
  <2>1. Wall!Set(t, Wall!Idle)
    BY <1>6 DEF Wall!Returned
  <2>2. QED
    BY <1>1, <1>2, <2>1, IdleTask, SetEffect
<1>7. QED
  BY <1>3, <1>4, <1>5, <1>6

\* The provider answers: what the call did to the rules is what it was for.
LEMMA ReturnStep ==
    ASSUME WallInv, NEW t \in Wall!Threads, task[t].at \in {"sentinel", "ufw"},
           NEW done, Wall!Returned(t, done),
           done /\ task[t].op = "block" => xdp' \/ ufw' \/ unheld',
           xdp \/ ufw \/ unheld => xdp' \/ ufw' \/ unheld' \/ Undoes(task[t]),
           UNCHANGED <<mem, rec, overdue>>
    PROVE  WallInv'
<1>1. task \in [Wall!Threads -> Tasks] /\ task[t] \in Tasks
  BY DEF WallInv
<1>2. /\ task' \in [Wall!Threads -> Tasks]
      /\ \A u \in Wall!Threads : u # t => \/ task'[u] = task[u]
                                          \/ task[u].at = "idle" /\ ~Undoes(task'[u])
      /\ Undoes(task'[t]) => Undoes(task[t])
  BY <1>1, ReturnedEffect
<1>3. /\ up' = (IF task[t].for = "hydrate" THEN "up" ELSE up) /\ clean' = clean \ {t}
      /\ tight' = IF task[t].for = "hydrate" THEN tight /\ done ELSE tight \/ (done /\ t \in clean)
  BY DEF Wall!Returned
<1>4. up # "down" /\ up' # "down"
  BY <1>3, BusyUp
<1>5. Wall!Undoing' => Wall!Undoing
  BY <1>2 DEF Wall!Undoing, Undoes
<1>6. Undoes(task[t]) => clean = {} /\ ~tight
  BY UndoesUndoing DEF WallInv, Exclusive
<1>7. Exclusive'
  BY <1>3, <1>5 DEF WallInv, Exclusive
<1>8. ASSUME NEW u \in clean'
      PROVE  /\ u \in Wall!Threads /\ mem'
             /\ task'[u].op = "block" /\ task'[u].at \in {"record", "ask", "sentinel", "ufw"}
             /\ task'[u].at # "record" => rec' # "none"
  <2>1. u \in clean /\ u # t
    BY <1>3, <1>8
  <2>2. /\ u \in Wall!Threads /\ Underway(task[u]) /\ mem
        /\ task[u].at # "idle"
    BY <2>1, CleanAt DEF WallInv, Promised
  <2>3. task'[u] = task[u]
    BY <1>2, <2>1, <2>2
  <2>4. QED
    BY <2>2, <2>3 DEF Underway
<1>9. Promised'
  BY <1>8 DEF Promised, Underway
<1>10. t \in clean => task[t].op = "block" /\ rec # "none" /\ mem
  BY CleanAt
<1>11. task[t].for = "hydrate" => task[t].op = "block"
  BY <1>1 DEF Tasks
<1>12. OnRecord'
  BY <1>3, <1>4, <1>10 DEF WallInv, OnRecord
<1>13. Held'
  BY <1>3, <1>6, <1>10, <1>11 DEF WallInv, Held
<1>14. QED
  BY <1>2, <1>4, <1>7, <1>9, <1>12, <1>13 DEF WallInv

LEMMA ProviderKeeps ==
    ASSUME WallInv, NEW t \in Wall!Threads, Wall!Provider(t)
    PROVE  WallInv'
<1>1. task[t] \in Tasks
  BY DEF WallInv
<1>2. CASE Wall!Record(t)
  BY <1>2, RecordKeeps
<1>3. CASE Wall!Ask(t)
  <2>1. task[t].at = "ask" /\ UNCHANGED <<up, mem, rec, xdp, ufw, overdue, clean, tight, unheld>>
    BY <1>3 DEF Wall!Ask, Wall!ruleVars, Wall!history
  <2>2. "UNBLOCK_IP" \in overdue' => Wall!Undoing
    BY <2>1 DEF Wall!Undoing
  <2>3. Wall!Goto(t, "sentinel") \/ Wall!FallBack(t)
    BY <1>3 DEF Wall!Ask, Wall!FallBack
  <2>4. QED
    BY <2>1, <2>2, <2>3, AskStep
<1>4. CASE Wall!SentinelOk(t)
  <2>1. /\ task[t].at = "sentinel" /\ task[t].op # "flush" /\ xdp' \in Wall!Applied(task[t].op)
        /\ unheld' = IF task[t].op = "block" THEN ~xdp' ELSE unheld
        /\ Wall!Returned(t, TRUE) /\ UNCHANGED <<mem, rec, ufw, overdue>>
    BY <1>4 DEF Wall!SentinelOk
  <2>2. task[t].op = "block" => xdp' \/ unheld'
    BY <2>1
  <2>3. task[t].op # "block" /\ ~Undoes(task[t]) => xdp' = xdp /\ unheld' = unheld
    BY <2>1 DEF Wall!Applied, Undoes
  <2>4. xdp \/ ufw \/ unheld => xdp' \/ ufw' \/ unheld' \/ Undoes(task[t])
    BY <2>1, <2>2, <2>3
  <2>5. QED
    BY <2>1, <2>2, <2>4, ReturnStep
<1>5. CASE Wall!SentinelFails(t)
  <2>1. /\ task[t].at = "sentinel" /\ Wall!FallBack(t)
        /\ UNCHANGED <<up, mem, rec, xdp, ufw, clean, tight, unheld>>
    BY <1>5 DEF Wall!SentinelFails, Wall!history
  <2>2. "UNBLOCK_IP" \in overdue' => "UNBLOCK_IP" \in overdue \/ task[t].op = "unblock"
    BY <1>5 DEF Wall!SentinelFails
  <2>3. "UNBLOCK_IP" \in overdue' => Wall!Undoing
    BY <2>2 DEF Wall!Undoing
  <2>4. QED
    BY <2>1, <2>3, AskStep
<1>6. CASE Wall!Ufw(t)
  <2>1. PICK done \in BOOLEAN :
          /\ done => task[t].op # "flush"
          /\ ufw' = IF done THEN task[t].op = "block" ELSE ufw
          /\ unheld' = (unheld /\ ~done)
          /\ Wall!Returned(t, done)
    BY <1>6 DEF Wall!Ufw
  <2>2. task[t].at = "ufw" /\ UNCHANGED <<mem, rec, xdp, overdue>>
    BY <1>6 DEF Wall!Ufw
  <2>3. task[t].op \in {"block", "unblock", "flush"}
    BY <1>1, <2>2 DEF Tasks
  <2>4. done /\ task[t].op = "block" => ufw'
    BY <2>1
  <2>5. xdp \/ ufw \/ unheld => xdp' \/ ufw' \/ unheld' \/ Undoes(task[t])
    BY <2>1, <2>2, <2>3 DEF Undoes
  <2>6. QED
    BY <2>1, <2>2, <2>4, <2>5, ReturnStep
<1>7. QED
  BY <1>2, <1>3, <1>4, <1>5, <1>6 DEF Wall!Provider

\* A step in which no call goes on.
LEMMA StandStill ==
    ASSUME WallInv, "UNBLOCK_IP" \in overdue' => "UNBLOCK_IP" \in overdue,
           rec' = "none" <=> rec = "none",
           tight' => tight /\ (xdp \/ ufw \/ unheld => xdp' \/ ufw' \/ unheld'),
           UNCHANGED <<up, task, mem, clean>>
    PROVE  WallInv'
<1>1. Wall!Undoing' => Wall!Undoing
  BY DEF Wall!Undoing
<1>2. Exclusive' /\ Held'
  BY <1>1 DEF WallInv, Exclusive, Held
<1>3. Promised' /\ OnRecord'
  BY DEF WallInv, Promised, OnRecord, Underway
<1>4. QED
  BY <1>2, <1>3 DEF WallInv

LEMMA AgentKeeps ==
    ASSUME WallInv,
           \/ \E cmd \in {"BLOCK_IP", "UNBLOCK_IP"} : Wall!SentinelLate(cmd)
           \/ Wall!ForgetScore \/ Wall!Expire \/ Wall!SentinelStart \/ Wall!SentinelStop
    PROVE  WallInv'
<1>1. ASSUME NEW cmd \in {"BLOCK_IP", "UNBLOCK_IP"}, Wall!SentinelLate(cmd)
      PROVE  WallInv'
  <2>1. /\ cmd \in overdue /\ overdue' = overdue \ {cmd}
        /\ xdp' \in Wall!Applied(IF cmd = "BLOCK_IP" THEN "block" ELSE "unblock")
        /\ UNCHANGED <<up, task, mem, rec, ufw, clean, tight, unheld>>
    BY <1>1 DEF Wall!SentinelLate, Wall!history
  <2>2. cmd = "UNBLOCK_IP" => ~tight
    BY <2>1 DEF WallInv, Exclusive, Wall!Undoing
  <2>3. cmd = "BLOCK_IP" => (xdp => xdp')
    BY <2>1 DEF Wall!Applied
  <2>4. tight' => tight /\ (xdp \/ ufw \/ unheld => xdp' \/ ufw' \/ unheld')
    BY <2>1, <2>2, <2>3
  <2>5. QED
    BY <2>1, <2>4, StandStill
<1>2. CASE Wall!ForgetScore \/ Wall!SentinelStart
  <2>1. UNCHANGED <<up, task, mem, rec, xdp, ufw, overdue, clean, tight, unheld>>
    BY <1>2 DEF Wall!ForgetScore, Wall!SentinelStart, Wall!ruleVars, Wall!history
  <2>2. QED
    BY <2>1, StandStill
<1>3. CASE Wall!Expire
  <2>1. rec = "fresh" /\ rec' = "expired" /\ UNCHANGED <<up, task, mem, xdp, ufw, overdue, clean, tight, unheld>>
    BY <1>3 DEF Wall!Expire, Wall!ruleVars, Wall!history
  <2>2. QED
    BY <2>1, StandStill
<1>4. CASE Wall!SentinelStop
  <2>1. /\ overdue' = {} /\ UNCHANGED <<up, task, mem, rec, ufw, clean>>
        /\ tight' = (tight /\ ufw)
    BY <1>4 DEF Wall!SentinelStop
  <2>2. QED
    BY <2>1, StandStill
<1>5. QED
  BY <1>1, <1>2, <1>3, <1>4

LEMMA BootKeeps ==
    ASSUME WallInv, Wall!Boot
    PROVE  WallInv'
<1>1. up = "down" /\ UNCHANGED <<rec, xdp, ufw, overdue, clean, tight, unheld>>
  BY DEF Wall!Boot, Wall!ruleVars, Wall!history
<1>2. task \in [Wall!Threads -> Tasks] /\ "boot" \in Wall!Threads
  BY DEF WallInv, Wall!Threads
<1>3. clean = {}
  BY <1>1, CleanAt DEF WallInv, Promised
<1>4. CASE rec = "none"
  <2>1. up' = "up" /\ UNCHANGED <<task, mem>> /\ ~tight
    BY <1>4 DEF Wall!Boot, WallInv, OnRecord
  <2>2. QED
    BY <1>1, <1>2, <1>3, <2>1 DEF WallInv, Exclusive, Promised, OnRecord, Held
<1>5. CASE rec # "none"
  <2>1. up' = "boot" /\ mem' = TRUE /\ Wall!Set("boot", Wall!Call("block", "ask", "hydrate"))
    BY <1>5 DEF Wall!Boot
  <2>2. PICK c : c = Wall!Call("block", "ask", "hydrate")
    OBVIOUS
  <2>3. c \in Tasks /\ ~Undoes(c)
    BY <2>2 DEF Wall!Call, Tasks, Undoes
  <2>4. /\ task' \in [Wall!Threads -> Tasks] /\ task'["boot"] = c
        /\ \A u \in Wall!Threads : u # "boot" => task'[u] = task[u]
    BY <1>2, <2>1, <2>2, <2>3, SetEffect
  <2>5. Wall!Undoing' => Wall!Undoing
    BY <1>1, <2>3, <2>4 DEF Wall!Undoing, Undoes
  <2>6. Exclusive'
    BY <1>1, <2>5 DEF WallInv, Exclusive
  <2>7. Promised' /\ OnRecord' /\ Held'
    BY <1>1, <1>3, <1>5, <2>1 DEF Promised, OnRecord, Held
  <2>8. QED
    BY <2>1, <2>4, <2>6, <2>7 DEF WallInv
<1>6. QED
  BY <1>4, <1>5

LEMMA CrashKeeps ==
    ASSUME WallInv, Wall!Crash
    PROVE  WallInv'
<1>1. /\ up' = "down" /\ task' = [t \in Wall!Threads |-> Wall!Idle] /\ overdue' = {} /\ clean' = {}
      /\ rec' = rec /\ tight' = tight
  BY DEF Wall!Crash
<1>2. task' \in [Wall!Threads -> Tasks]
  BY <1>1, IdleTask
<1>3. \A t \in Wall!Threads : task'[t].at = "idle" /\ task'[t].op = "none"
  BY <1>1, IdleTask
<1>4. Exclusive'
  BY <1>1, <1>3 DEF Exclusive, Wall!Undoing
<1>5. Promised' /\ OnRecord' /\ Held'
  BY <1>1 DEF WallInv, Promised, OnRecord, Held
<1>6. QED
  BY <1>1, <1>2, <1>3, <1>4, <1>5 DEF WallInv

LEMMA WallStep == WallInv /\ [Wall!Next]_Wall!vars => WallInv'
<1>1. SUFFICES ASSUME WallInv, [Wall!Next]_Wall!vars PROVE WallInv'
  OBVIOUS
<1>2. ASSUME NEW t \in Callers, Wall!Request(t) \/ Wall!SyncCheck(t) \/ Wall!Commit(t) \/ Wall!SyncStore(t)
      PROVE  WallInv'
  <2>1. t \in Wall!Threads
    BY DEF Wall!Threads
  <2>2. QED
    BY <1>1, <1>2, <2>1, RequestKeeps, SyncKeeps
<1>3. ASSUME NEW t \in Wall!Threads, Wall!Provider(t) PROVE WallInv'
  BY <1>1, <1>3, ProviderKeeps
<1>4. CASE \/ \E cmd \in {"BLOCK_IP", "UNBLOCK_IP"} : Wall!SentinelLate(cmd)
           \/ Wall!ForgetScore \/ Wall!Expire \/ Wall!SentinelStart \/ Wall!SentinelStop
  BY <1>1, <1>4, AgentKeeps
<1>5. CASE Wall!AuditFinds \/ Wall!Reverify \/ Wall!AuditWrites
  BY <1>1, <1>5, AuditKeeps
<1>6. CASE Wall!Ping
  BY <1>1, <1>6, PingKeeps
<1>7. CASE Wall!Boot
  BY <1>1, <1>7, BootKeeps
<1>8. CASE Wall!Crash
  BY <1>1, <1>8, CrashKeeps
<1>9. CASE UNCHANGED Wall!vars
  <2>1. UNCHANGED <<up, task, mem, rec, xdp, ufw, overdue, clean, tight, unheld>>
    BY <1>9 DEF Wall!vars, Wall!ruleVars, Wall!history
  <2>2. QED
    BY <1>1, <2>1, StandStill
<1>10. QED
  BY <1>1, <1>2, <1>3, <1>4, <1>5, <1>6, <1>7, <1>8, <1>9 DEF Wall!Next

\* For any number of overlapping calls, crashes and failures of the agent, a
\* block that was reported as done and that nothing has taken back is in
\* memory, on record and, unless the full map of the sentinel dropped it, held
\* by the sentinel or by ufw whenever the orchestrator is up
\* (FirewallManager.blockIp, provider.blockIp, setKv and handle_command).
THEOREM BlocksHold == Wall!Spec => []BlockHolds
  BY WallInit, WallStep, WallSuffices, PTL DEF Wall!Spec, BlockHolds

-----------------------------------------------------------------------------
(* The bounded map of the engine's scores and histories (BoundedMap) is    *)
(* the map Lru promises, for every capacity and every set of keys.  The    *)
(* links are those of a list without repetitions, which is the list of     *)
(* the abstract map.                                                       *)

NodeOrNull == Keys \cup {Null}

LinkRecs == [head : NodeOrNull, tail : NodeOrNull, prev : [Keys -> NodeOrNull], next : [Keys -> NodeOrNull]]

Elems(s) == {s[i] : i \in 1 .. Len(s)}

\* The links l are those of the list s.
Chained(s, l) ==
    /\ \A i, j \in 1 .. Len(s) : s[i] = s[j] => i = j
    /\ Len(s) = 0 => l.head = Null /\ l.tail = Null
    /\ Len(s) # 0 => l.head = s[1] /\ l.tail = s[Len(s)]
    /\ \A i \in 1 .. Len(s) : l.next[s[i]] = IF i = Len(s) THEN Null ELSE s[i + 1]
    /\ \A i \in 1 .. Len(s) : l.prev[s[i]] = IF i = 1 THEN Null ELSE s[i - 1]

LEMMA SeqFacts == ASSUME NEW s \in Seq(Keys)
                  PROVE  Len(s) \in Nat /\ \A i \in 1 .. Len(s) : s[i] \in Keys
  OBVIOUS

\* A list with one more element in front.
LEMMA ConsFacts ==
    ASSUME NEW s \in Seq(Keys), NEW k \in Keys
    PROVE  /\ <<k>> \o s \in Seq(Keys) /\ Len(<<k>> \o s) = Len(s) + 1 /\ (<<k>> \o s)[1] = k
           /\ \A i \in 2 .. Len(s) + 1 : (<<k>> \o s)[i] = s[i - 1]
           /\ Elems(<<k>> \o s) = Elems(s) \cup {k}
<1>1. PICK u : u = <<k>> \o s
  OBVIOUS
<1>2. /\ u \in Seq(Keys) /\ Len(u) = Len(s) + 1 /\ u[1] = k /\ Len(s) \in Nat
      /\ \A i \in 2 .. Len(s) + 1 : u[i] = s[i - 1]
  BY <1>1
<1>3. Elems(u) = Elems(s) \cup {k}
  <2>1. ASSUME NEW x \in Elems(u) PROVE x \in Elems(s) \cup {k}
    <3>1. PICK i \in 1 .. Len(u) : x = u[i]
      BY DEF Elems
    <3>2. CASE i = 1
      BY <1>2, <3>1, <3>2
    <3>3. CASE i # 1
      <4>1. i \in 2 .. Len(s) + 1 /\ i - 1 \in 1 .. Len(s)
        BY <1>2, <3>3
      <4>2. QED
        BY <1>2, <3>1, <4>1 DEF Elems
    <3>4. QED
      BY <3>2, <3>3
  <2>2. k \in Elems(u)
    BY <1>2 DEF Elems
  <2>3. ASSUME NEW x \in Elems(s) PROVE x \in Elems(u)
    <3>1. PICK i \in 1 .. Len(s) : x = s[i]
      BY DEF Elems
    <3>2. i + 1 \in 2 .. Len(s) + 1 /\ (i + 1) - 1 = i /\ i + 1 \in 1 .. Len(u)
      BY <1>2
    <3>3. u[i + 1] = x
      BY <1>2, <3>1, <3>2
    <3>4. QED
      BY <3>2, <3>3 DEF Elems
  <2>4. QED
    BY <2>1, <2>2, <2>3
<1>4. QED
  BY <1>1, <1>2, <1>3

\* A list with one element taken out.
Dropped(s, m) == SubSeq(s, 1, m - 1) \o SubSeq(s, m + 1, Len(s))

LEMMA DropFacts ==
    ASSUME NEW s \in Seq(Keys), NEW m \in 1 .. Len(s)
    PROVE  /\ Dropped(s, m) \in Seq(Keys) /\ Len(Dropped(s, m)) = Len(s) - 1
           /\ \A i \in 1 .. Len(s) - 1 : Dropped(s, m)[i] = IF i < m THEN s[i] ELSE s[i + 1]
<1>1. Len(s) \in Nat /\ m \in Nat
  OBVIOUS
<1>2. PICK a : a = SubSeq(s, 1, m - 1)
  OBVIOUS
<1>3. PICK b : b = SubSeq(s, m + 1, Len(s))
  OBVIOUS
<1>4. a \in Seq(Keys) /\ Len(a) = m - 1 /\ \A i \in 1 .. m - 1 : a[i] = s[i]
  BY <1>1, <1>2
<1>5. b \in Seq(Keys) /\ Len(b) = Len(s) - m /\ \A i \in 1 .. Len(s) - m : b[i] = s[m + i]
  <2>1. PICK f : f = m + 1
    OBVIOUS
  <2>2. PICK n : n = Len(s)
    OBVIOUS
  <2>3. /\ f \in Int /\ n \in Int /\ \A i \in f .. n : s[i] \in Keys
        /\ n - f + 1 = n - m /\ \A i \in 1 .. n - m : f + i - 1 = m + i
    BY <1>1, <2>1, <2>2
  <2>4. /\ SubSeq(s, f, n) \in Seq(Keys)
        /\ Len(SubSeq(s, f, n)) = IF f <= n THEN n - f + 1 ELSE 0
        /\ \A i \in 1 .. n - f + 1 : SubSeq(s, f, n)[i] = s[f + i - 1]
    BY <2>3, SubSeqProperties
  <2>5. (IF f <= n THEN n - f + 1 ELSE 0) = n - m
    BY <1>1, <2>1, <2>2
  <2>6. QED
    BY <1>3, <2>1, <2>2, <2>3, <2>4, <2>5
<1>6. a \o b \in Seq(Keys) /\ Len(a \o b) = Len(s) - 1
  <2>1. a \o b \in Seq(Keys) /\ Len(a \o b) = Len(a) + Len(b)
    <3>1. a \in Seq(Keys) /\ b \in Seq(Keys)
      BY <1>4, <1>5
    <3>2. QED
      BY <3>1, ConcatProperties
  <2>2. (m - 1) + (Len(s) - m) = Len(s) - 1
    BY <1>1
  <2>3. QED
    BY <1>4, <1>5, <2>1, <2>2
<1>7. ASSUME NEW i \in 1 .. Len(s) - 1 PROVE (a \o b)[i] = IF i < m THEN s[i] ELSE s[i + 1]
  <2>1. CASE i < m
    <3>1. i \in 1 .. Len(a)
      BY <1>1, <1>4, <2>1
    <3>2. (a \o b)[i] = a[i]
      BY <1>4, <1>5, <3>1
    <3>3. QED
      BY <1>4, <2>1, <3>1, <3>2
  <2>2. CASE ~(i < m)
    <3>1. i \in Len(a) + 1 .. Len(a) + Len(b) /\ i - Len(a) \in 1 .. Len(s) - m
          /\ m + (i - Len(a)) = i + 1
      BY <1>1, <1>4, <1>5, <2>2
    <3>2. (a \o b)[i] = b[i - Len(a)]
      BY <1>4, <1>5, <3>1
    <3>3. QED
      BY <1>5, <2>2, <3>1, <3>2
  <2>3. QED
    BY <2>1, <2>2
<1>8. QED
  BY <1>2, <1>3, <1>6, <1>7 DEF Dropped

LEMMA DropElems ==
    ASSUME NEW s \in Seq(Keys), NEW m \in 1 .. Len(s), \A i, j \in 1 .. Len(s) : s[i] = s[j] => i = j
    PROVE  Elems(Dropped(s, m)) = Elems(s) \ {s[m]}
<1>1. PICK u : u = Dropped(s, m)
  OBVIOUS
<1>2. /\ Len(u) = Len(s) - 1 /\ Len(s) \in Nat /\ m \in Nat
      /\ \A i \in 1 .. Len(s) - 1 : u[i] = IF i < m THEN s[i] ELSE s[i + 1]
  BY <1>1, DropFacts
<1>3. ASSUME NEW x \in Elems(u) PROVE x \in Elems(s) /\ x # s[m]
  <2>1. PICK i \in 1 .. Len(s) - 1 : x = u[i]
    BY <1>2 DEF Elems
  <2>2. CASE i < m
    <3>1. i \in 1 .. Len(s) /\ x = s[i] /\ i # m
      BY <1>2, <2>1, <2>2
    <3>2. QED
      BY <3>1 DEF Elems
  <2>3. CASE ~(i < m)
    <3>1. i + 1 \in 1 .. Len(s) /\ x = s[i + 1] /\ i + 1 # m
      BY <1>2, <2>1, <2>3
    <3>2. QED
      BY <3>1 DEF Elems
  <2>4. QED
    BY <2>2, <2>3
<1>4. ASSUME NEW x \in Elems(s), x # s[m] PROVE x \in Elems(u)
  <2>1. PICK i \in 1 .. Len(s) : x = s[i]
    BY DEF Elems
  <2>2. i # m
    BY <1>4, <2>1
  <2>3. CASE i < m
    <3>1. i \in 1 .. Len(s) - 1 /\ u[i] = x
      BY <1>2, <2>1, <2>3
    <3>2. QED
      BY <1>2, <3>1 DEF Elems
  <2>4. CASE ~(i < m)
    <3>1. i - 1 \in 1 .. Len(s) - 1 /\ ~(i - 1 < m) /\ (i - 1) + 1 = i
      BY <1>2, <2>2, <2>4
    <3>2. u[i - 1] = x
      BY <1>2, <2>1, <3>1
    <3>3. QED
      BY <1>2, <3>1, <3>2 DEF Elems
  <2>5. QED
    BY <2>3, <2>4
<1>5. QED
  BY <1>1, <1>3, <1>4

\* addToHead puts a node that is not in the list in front of it.
LEMMA AddChains ==
    ASSUME Null \notin Keys, NEW s \in Seq(Keys), NEW l \in LinkRecs, Chained(s, l),
           NEW k \in Keys, k \notin Elems(s)
    PROVE  Chained(<<k>> \o s, Map!AddToHead(l, k)) /\ Map!AddToHead(l, k) \in LinkRecs
<1>1. PICK r : r = Map!AddToHead(l, k)
  OBVIOUS
<1>2. PICK u : u = <<k>> \o s
  OBVIOUS
<1>3. /\ u \in Seq(Keys) /\ Len(u) = Len(s) + 1 /\ u[1] = k /\ Len(s) \in Nat
      /\ \A i \in 2 .. Len(s) + 1 : u[i] = s[i - 1]
  BY <1>2, ConsFacts
<1>4. /\ l.head \in NodeOrNull /\ l.tail \in NodeOrNull /\ l.prev \in [Keys -> NodeOrNull] /\ l.next \in [Keys -> NodeOrNull]
  BY DEF LinkRecs
<1>5. /\ r.head = k /\ r.tail = IF l.tail = Null THEN k ELSE l.tail
      /\ r.next = [l.next EXCEPT ![k] = l.head]
      /\ r.prev = [x \in Keys |-> IF x = l.head THEN k ELSE IF x = k THEN Null ELSE l.prev[x]]
  BY <1>1 DEF Map!AddToHead
<1>6. r \in LinkRecs
  <2>1. k \in NodeOrNull /\ Null \in NodeOrNull
    BY DEF NodeOrNull
  <2>2. r.next \in [Keys -> NodeOrNull] /\ r.prev \in [Keys -> NodeOrNull] /\ r.head \in NodeOrNull /\ r.tail \in NodeOrNull
    BY <1>4, <1>5, <2>1
  <2>3. QED
    BY <1>1, <2>2 DEF LinkRecs, Map!AddToHead
<1>7. \A i \in 1 .. Len(s) : s[i] \in Keys /\ s[i] # k /\ s[i] # Null
  BY DEF Elems
<1>8. \A i \in 2 .. Len(s) + 1 : i \in Int /\ i - 1 \in 1 .. Len(s) /\ u[i] \in Keys /\ u[i] # k
  BY <1>3, <1>7
<1>9. 1 .. Len(u) = {1} \cup (2 .. Len(s) + 1)
  BY <1>3
<1>10. ASSUME NEW i \in 1 .. Len(u), NEW j \in 1 .. Len(u), u[i] = u[j] PROVE i = j
  <2>1. CASE i = 1
    BY <1>3, <1>8, <1>9, <1>10, <2>1
  <2>2. CASE j = 1
    BY <1>3, <1>8, <1>9, <1>10, <2>2
  <2>3. CASE i # 1 /\ j # 1
    <3>1. i - 1 \in 1 .. Len(s) /\ j - 1 \in 1 .. Len(s) /\ s[i - 1] = s[j - 1]
      BY <1>3, <1>8, <1>9, <1>10, <2>3
    <3>2. i - 1 = j - 1
      BY <3>1 DEF Chained
    <3>3. QED
      BY <3>2
  <2>4. QED
    BY <2>1, <2>2, <2>3
<1>11. r.head = u[1] /\ r.tail = u[Len(u)]
  <2>1. CASE Len(s) = 0
    BY <1>3, <1>5, <2>1 DEF Chained
  <2>2. CASE Len(s) # 0
    <3>1. l.tail = s[Len(s)] /\ Len(s) \in 1 .. Len(s) /\ Len(s) + 1 \in 2 .. Len(s) + 1
      BY <1>3, <2>2 DEF Chained
    <3>2. l.tail # Null /\ u[Len(s) + 1] = s[Len(s)]
      BY <1>3, <1>7, <3>1
    <3>3. QED
      BY <1>3, <1>5, <3>1, <3>2
  <2>3. QED
    BY <2>1, <2>2
<1>12. ASSUME NEW i \in 1 .. Len(u) PROVE r.next[u[i]] = IF i = Len(u) THEN Null ELSE u[i + 1]
  <2>1. CASE i = 1
    <3>1. r.next[u[i]] = l.head
      BY <1>3, <1>4, <1>5, <2>1
    <3>2. CASE Len(s) = 0
      BY <1>3, <2>1, <3>1, <3>2 DEF Chained
    <3>3. CASE Len(s) # 0
      <4>1. l.head = s[1] /\ 2 \in 2 .. Len(s) + 1
        BY <1>3, <3>3 DEF Chained
      <4>2. QED
        BY <1>3, <2>1, <3>1, <3>3, <4>1
    <3>4. QED
      BY <3>2, <3>3
  <2>2. CASE i # 1
    <3>1. i \in 2 .. Len(s) + 1 /\ u[i] = s[i - 1] /\ i - 1 \in 1 .. Len(s) /\ u[i] \in Keys /\ u[i] # k
      BY <1>3, <1>8, <1>9, <2>2
    <3>2. r.next[u[i]] = l.next[s[i - 1]]
      BY <1>4, <1>5, <3>1
    <3>3. l.next[s[i - 1]] = IF i - 1 = Len(s) THEN Null ELSE s[(i - 1) + 1]
      BY <3>1 DEF Chained
    <3>4. CASE i = Len(u)
      BY <1>3, <3>1, <3>2, <3>3, <3>4
    <3>5. CASE i # Len(u)
      <4>1. i + 1 \in 2 .. Len(s) + 1 /\ (i + 1) - 1 = i /\ (i - 1) + 1 = i /\ i - 1 # Len(s)
        BY <1>3, <3>1, <3>5
      <4>2. u[i + 1] = s[i]
        BY <1>3, <4>1
      <4>3. QED
        BY <3>2, <3>3, <3>5, <4>1, <4>2
    <3>6. QED
      BY <3>4, <3>5
  <2>3. QED
    BY <2>1, <2>2
<1>13. ASSUME NEW i \in 1 .. Len(u) PROVE r.prev[u[i]] = IF i = 1 THEN Null ELSE u[i - 1]
  <2>1. CASE i = 1
    <3>1. k # l.head
      BY <1>3, <1>7 DEF Chained
    <3>2. QED
      BY <1>3, <1>5, <2>1, <3>1
  <2>2. CASE i # 1
    <3>1. i \in 2 .. Len(s) + 1 /\ u[i] = s[i - 1] /\ i - 1 \in 1 .. Len(s) /\ u[i] \in Keys /\ u[i] # k
      BY <1>3, <1>8, <1>9, <2>2
    <3>2. l.head = s[1] /\ 1 \in 1 .. Len(s)
      BY <1>3, <3>1 DEF Chained
    <3>3. CASE i = 2
      BY <1>3, <1>5, <3>1, <3>2, <3>3
    <3>4. CASE i # 2
      <4>1. i - 1 # 1 /\ i - 1 \in 2 .. Len(s) + 1
        BY <1>3, <3>1, <3>4
      <4>2. s[i - 1] # l.head
        BY <3>1, <3>2, <4>1 DEF Chained
      <4>3. r.prev[u[i]] = l.prev[s[i - 1]]
        BY <1>5, <3>1, <4>2
      <4>4. l.prev[s[i - 1]] = s[(i - 1) - 1]
        BY <3>1, <4>1 DEF Chained
      <4>5. u[i - 1] = s[(i - 1) - 1]
        BY <1>3, <4>1
      <4>6. QED
        BY <2>2, <4>3, <4>4, <4>5
    <3>5. QED
      BY <3>3, <3>4
  <2>3. QED
    BY <2>1, <2>2
<1>14. Len(u) # 0
  BY <1>3
<1>15. Chained(u, r)
  BY <1>10, <1>11, <1>12, <1>13, <1>14 DEF Chained
<1>16. QED
  BY <1>1, <1>2, <1>6, <1>15

\* removeNode takes a node out of the list.
LEMMA RemoveChains ==
    ASSUME Null \notin Keys, NEW s \in Seq(Keys), NEW l \in LinkRecs, Chained(s, l),
           NEW m \in 1 .. Len(s)
    PROVE  Chained(Dropped(s, m), Map!RemoveNode(l, s[m])) /\ Map!RemoveNode(l, s[m]) \in LinkRecs
<1>1. PICK k : k = s[m]
  OBVIOUS
<1>2. PICK r : r = Map!RemoveNode(l, k)
  OBVIOUS
<1>3. PICK u : u = Dropped(s, m)
  OBVIOUS
<1>4. /\ u \in Seq(Keys) /\ Len(u) = Len(s) - 1 /\ Len(s) \in Nat /\ m \in Nat /\ 1 <= m /\ m <= Len(s)
      /\ \A i \in 1 .. Len(s) - 1 : u[i] = IF i < m THEN s[i] ELSE s[i + 1]
  <2>1. Len(s) \in Nat /\ m \in Nat /\ 1 <= m /\ m <= Len(s)
    OBVIOUS
  <2>2. /\ u \in Seq(Keys) /\ Len(u) = Len(s) - 1
        /\ \A i \in 1 .. Len(s) - 1 : u[i] = IF i < m THEN s[i] ELSE s[i + 1]
    BY <1>3, DropFacts
  <2>3. QED
    BY <2>1, <2>2
<1>5. /\ \A i, j \in 1 .. Len(s) : s[i] = s[j] => i = j
      /\ l.head = s[1] /\ l.tail = s[Len(s)]
      /\ \A i \in 1 .. Len(s) : l.next[s[i]] = IF i = Len(s) THEN Null ELSE s[i + 1]
      /\ \A i \in 1 .. Len(s) : l.prev[s[i]] = IF i = 1 THEN Null ELSE s[i - 1]
      /\ \A i \in 1 .. Len(s) : s[i] \in Keys /\ s[i] # Null
  BY <1>4 DEF Chained
<1>6. /\ l.head \in NodeOrNull /\ l.tail \in NodeOrNull /\ l.prev \in [Keys -> NodeOrNull] /\ l.next \in [Keys -> NodeOrNull]
  BY DEF LinkRecs
<1>7. PICK p : p = l.prev[k]
  OBVIOUS
<1>8. PICK n : n = l.next[k]
  OBVIOUS
<1>9. p = (IF m = 1 THEN Null ELSE s[m - 1]) /\ n = (IF m = Len(s) THEN Null ELSE s[m + 1])
  BY <1>1, <1>5, <1>7, <1>8
<1>10. (m # 1 => m - 1 \in 1 .. Len(s)) /\ (m # Len(s) => m + 1 \in 1 .. Len(s))
  BY <1>4
<1>11. (p = Null <=> m = 1) /\ (n = Null <=> m = Len(s)) /\ p \in NodeOrNull /\ n \in NodeOrNull
  BY <1>5, <1>9, <1>10 DEF NodeOrNull
<1>12. /\ r.head = IF p = Null THEN n ELSE l.head
       /\ r.tail = IF n = Null THEN p ELSE l.tail
       /\ r.next = IF p = Null THEN l.next ELSE [l.next EXCEPT ![p] = n]
       /\ r.prev = IF n = Null THEN l.prev ELSE [l.prev EXCEPT ![n] = p]
  BY <1>2, <1>7, <1>8 DEF Map!RemoveNode
<1>13. r \in LinkRecs
  <2>1. r.next \in [Keys -> NodeOrNull] /\ r.prev \in [Keys -> NodeOrNull] /\ r.head \in NodeOrNull /\ r.tail \in NodeOrNull
    BY <1>6, <1>11, <1>12
  <2>2. QED
    BY <1>2, <2>1 DEF LinkRecs, Map!RemoveNode
<1>14. \A i \in 1 .. Len(s) : r.next[s[i]] = IF i = m - 1 THEN n ELSE l.next[s[i]]
  <2>1. SUFFICES ASSUME NEW i \in 1 .. Len(s) PROVE r.next[s[i]] = IF i = m - 1 THEN n ELSE l.next[s[i]]
    OBVIOUS
  <2>2. CASE m = 1
    BY <1>11, <1>12, <2>2
  <2>3. CASE m # 1
    <3>1. r.next = [l.next EXCEPT ![p] = n] /\ p = s[m - 1] /\ p \in Keys
      BY <1>5, <1>9, <1>10, <1>11, <1>12, <2>3
    <3>2. s[i] = p <=> i = m - 1
      BY <1>5, <1>10, <2>3, <3>1
    <3>3. s[i] \in Keys
      BY <1>5
    <3>4. QED
      BY <1>6, <3>1, <3>2, <3>3
  <2>4. QED
    BY <2>2, <2>3
<1>15. \A i \in 1 .. Len(s) : r.prev[s[i]] = IF i = m + 1 THEN p ELSE l.prev[s[i]]
  <2>1. SUFFICES ASSUME NEW i \in 1 .. Len(s) PROVE r.prev[s[i]] = IF i = m + 1 THEN p ELSE l.prev[s[i]]
    OBVIOUS
  <2>2. CASE m = Len(s)
    <3>1. i # m + 1
      BY <1>4, <2>2
    <3>2. QED
      BY <1>11, <1>12, <2>2, <3>1
  <2>3. CASE m # Len(s)
    <3>1. r.prev = [l.prev EXCEPT ![n] = p] /\ n = s[m + 1] /\ n \in Keys
      BY <1>5, <1>9, <1>10, <1>11, <1>12, <2>3
    <3>2. s[i] = n <=> i = m + 1
      BY <1>5, <1>10, <2>3, <3>1
    <3>3. s[i] \in Keys
      BY <1>5
    <3>4. QED
      BY <1>6, <3>1, <3>2, <3>3
  <2>4. QED
    BY <2>2, <2>3
<1>16. ASSUME NEW i \in 1 .. Len(u), NEW j \in 1 .. Len(u), u[i] = u[j] PROVE i = j
  <2>1. PICK a : a = IF i < m THEN i ELSE i + 1
    OBVIOUS
  <2>2. PICK b : b = IF j < m THEN j ELSE j + 1
    OBVIOUS
  <2>3. a \in 1 .. Len(s) /\ b \in 1 .. Len(s) /\ u[i] = s[a] /\ u[j] = s[b]
    <3>1. PICK z : z = Len(s)
      OBVIOUS
    <3>2. /\ z \in Nat /\ m \in 1 .. z /\ i \in 1 .. z - 1 /\ j \in 1 .. z - 1
      BY <1>4, <3>1
    <3>3. a \in 1 .. z /\ b \in 1 .. z
      BY <2>1, <2>2, <3>2
    <3>4. u[i] = s[a]
      BY <1>4, <2>1
    <3>5. u[j] = s[b]
      BY <1>4, <2>2
    <3>6. QED
      BY <3>1, <3>3, <3>4, <3>5
  <2>4. a = b
    <3>1. s[a] = s[b]
      BY <1>16, <2>3
    <3>2. \A x, y \in 1 .. Len(s) : s[x] = s[y] => x = y
      BY <1>5
    <3>3. QED
      BY <2>3, <3>1, <3>2
  <2>5. QED
    BY <1>4, <2>1, <2>2, <2>4
<1>17. Len(u) = 0 => r.head = Null /\ r.tail = Null
  <2>1. Len(u) = 0 => m = 1 /\ m = Len(s)
    <3>1. PICK a : a = Len(s)
      OBVIOUS
    <3>2. a \in Nat /\ m \in Nat /\ 1 <= m /\ m <= a /\ Len(u) = a - 1
      BY <1>4, <3>1
    <3>3. a - 1 = 0 => m = 1 /\ m = a
      BY <3>2
    <3>4. QED
      BY <3>1, <3>2, <3>3
  <2>2. m = 1 /\ m = Len(s) => r.head = Null /\ r.tail = Null
    BY <1>11, <1>12
  <2>3. QED
    BY <2>1, <2>2
<1>18. Len(u) # 0 => r.head = u[1] /\ r.tail = u[Len(u)]
  <2>1. SUFFICES ASSUME Len(u) # 0 PROVE r.head = u[1] /\ r.tail = u[Len(u)]
    OBVIOUS
  <2>2. 1 \in 1 .. Len(s) - 1 /\ Len(s) - 1 \in 1 .. Len(s) - 1 /\ (Len(s) - 1) + 1 = Len(s)
    BY <1>4, <2>1
  <2>3. r.head = u[1]
    <3>1. CASE m = 1
      BY <1>4, <1>9, <1>11, <1>12, <2>2, <3>1
    <3>2. CASE m # 1
      BY <1>4, <1>5, <1>11, <1>12, <2>2, <3>2
    <3>3. QED
      BY <3>1, <3>2
  <2>4. r.tail = u[Len(u)]
    <3>1. CASE m = Len(s)
      <4>1. r.tail = s[m - 1] /\ Len(s) - 1 < m
        BY <1>4, <1>9, <1>11, <1>12, <2>1, <3>1
      <4>2. QED
        BY <1>4, <2>2, <3>1, <4>1
    <3>2. CASE m # Len(s)
      <4>1. r.tail = s[Len(s)] /\ ~(Len(s) - 1 < m)
        BY <1>4, <1>5, <1>11, <1>12, <3>2
      <4>2. QED
        BY <1>4, <2>2, <4>1
    <3>3. QED
      BY <3>1, <3>2
  <2>5. QED
    BY <2>3, <2>4
<1>19. ASSUME NEW i \in 1 .. Len(u) PROVE r.next[u[i]] = IF i = Len(u) THEN Null ELSE u[i + 1]
  <2>1. i \in 1 .. Len(s) - 1 /\ i \in 1 .. Len(s) /\ i + 1 \in 1 .. Len(s)
    BY <1>4
  <2>2. CASE i < m - 1
    <3>1. u[i] = s[i] /\ r.next[s[i]] = s[i + 1] /\ i # Len(u) /\ i + 1 \in 1 .. Len(s) - 1 /\ i + 1 < m
      BY <1>4, <1>5, <1>14, <2>1, <2>2
    <3>2. u[i + 1] = s[i + 1]
      BY <1>4, <3>1
    <3>3. QED
      BY <3>1, <3>2
  <2>3. CASE i = m - 1
    <3>1. u[i] = s[i] /\ r.next[s[i]] = n /\ i + 1 = m
      BY <1>4, <1>14, <2>1, <2>3
    <3>2. CASE i = Len(u)
      BY <1>4, <1>9, <3>1, <3>2
    <3>3. CASE i # Len(u)
      <4>1. i + 1 \in 1 .. Len(s) - 1 /\ ~(i + 1 < m) /\ m # Len(s)
        BY <1>4, <2>1, <3>1, <3>3
      <4>2. u[i + 1] = s[m + 1]
        BY <1>4, <3>1, <4>1
      <4>3. QED
        BY <1>9, <3>1, <3>3, <4>1, <4>2
    <3>4. QED
      BY <3>2, <3>3
  <2>4. CASE ~(i < m - 1) /\ i # m - 1
    <3>1. ~(i < m) /\ i + 1 # m - 1
      BY <1>4, <2>1, <2>4
    <3>2. u[i] = s[i + 1]
      BY <1>4, <2>1, <3>1
    <3>3. r.next[s[i + 1]] = IF i + 1 = Len(s) THEN Null ELSE s[(i + 1) + 1]
      BY <1>5, <1>14, <2>1, <3>1
    <3>4. CASE i = Len(u)
      BY <1>4, <3>2, <3>3, <3>4
    <3>5. CASE i # Len(u)
      <4>1. i + 1 \in 1 .. Len(s) - 1 /\ ~(i + 1 < m) /\ i + 1 # Len(s)
        BY <1>4, <2>1, <3>1, <3>5
      <4>2. u[i + 1] = s[(i + 1) + 1]
        BY <1>4, <4>1
      <4>3. QED
        BY <3>2, <3>3, <3>5, <4>1, <4>2
    <3>6. QED
      BY <3>4, <3>5
  <2>5. QED
    BY <2>2, <2>3, <2>4
<1>20. ASSUME NEW i \in 1 .. Len(u) PROVE r.prev[u[i]] = IF i = 1 THEN Null ELSE u[i - 1]
  <2>1. i \in 1 .. Len(s) - 1 /\ i \in 1 .. Len(s) /\ i + 1 \in 1 .. Len(s)
    BY <1>4
  <2>2. CASE i < m
    <3>1. u[i] = s[i] /\ i # m + 1
      BY <1>4, <2>1, <2>2
    <3>2. r.prev[s[i]] = IF i = 1 THEN Null ELSE s[i - 1]
      BY <1>5, <1>15, <2>1, <3>1
    <3>3. CASE i = 1
      BY <3>1, <3>2, <3>3
    <3>4. CASE i # 1
      <4>1. i - 1 \in 1 .. Len(s) - 1 /\ i - 1 < m
        BY <1>4, <2>1, <2>2, <3>4
      <4>2. QED
        BY <1>4, <3>1, <3>2, <3>4, <4>1
    <3>5. QED
      BY <3>3, <3>4
  <2>3. CASE i = m
    <3>1. u[i] = s[m + 1] /\ m + 1 \in 1 .. Len(s)
      BY <1>4, <2>1, <2>3
    <3>2. r.prev[s[m + 1]] = p
      BY <1>15, <3>1
    <3>3. CASE i = 1
      BY <1>9, <2>3, <3>1, <3>2, <3>3
    <3>4. CASE i # 1
      <4>1. i - 1 \in 1 .. Len(s) - 1 /\ i - 1 < m
        BY <1>4, <2>1, <2>3, <3>4
      <4>2. u[i - 1] = s[m - 1]
        BY <1>4, <2>3, <4>1
      <4>3. QED
        BY <1>9, <2>3, <3>1, <3>2, <3>4, <4>2
    <3>5. QED
      BY <3>3, <3>4
  <2>4. CASE ~(i < m) /\ i # m
    <3>1. u[i] = s[i + 1] /\ i + 1 # m + 1 /\ i + 1 # 1 /\ (i + 1) - 1 = i /\ i # 1
      BY <1>4, <2>1, <2>4
    <3>2. r.prev[s[i + 1]] = s[i]
      BY <1>5, <1>15, <2>1, <3>1
    <3>3. i - 1 \in 1 .. Len(s) - 1 /\ ~(i - 1 < m) /\ (i - 1) + 1 = i
      BY <1>4, <2>1, <2>4
    <3>4. u[i - 1] = s[i]
      BY <1>4, <3>3
    <3>5. QED
      BY <3>1, <3>2, <3>4
  <2>5. QED
    BY <2>2, <2>3, <2>4
<1>21. Chained(u, r)
  BY <1>16, <1>17, <1>18, <1>19, <1>20 DEF Chained
<1>22. QED
  BY <1>1, <1>2, <1>3, <1>13, <1>21

-----------------------------------------------------------------------------
\* The links of the state are those of the list s.
Holding(s) ==
    /\ s \in Seq(Keys) /\ Map!Links \in LinkRecs /\ Chained(s, Map!Links)
    /\ cache = Elems(s)

MapInv == (\E s : Holding(s)) /\ DOMAIN val = Keys /\ \A k \in Keys \ cache : val[k] = Absent

\* A list without repetitions has as many elements as places.
LEMMA ElemsCount ==
    ASSUME NEW s \in Seq(Keys), \A i, j \in 1 .. Len(s) : s[i] = s[j] => i = j
    PROVE  Cardinality(Elems(s)) = Len(s)
<1>1. PICK f : f = [i \in 1 .. Len(s) |-> s[i]]
  OBVIOUS
<1>2. Len(s) \in Nat /\ \A i \in 1 .. Len(s) : f[i] = s[i] /\ f[i] \in Elems(s)
  BY <1>1 DEF Elems
<1>3. f \in [1 .. Len(s) -> Elems(s)]
  BY <1>1, <1>2
<1>4. \A i, j \in 1 .. Len(s) : f[i] = f[j] => i = j
  BY <1>2
<1>5. \A x \in Elems(s) : \E i \in 1 .. Len(s) : f[i] = x
  BY <1>2 DEF Elems
<1>6. f \in Bijection(1 .. Len(s), Elems(s))
  BY <1>3, <1>4, <1>5 DEF Bijection, Injection, Surjection, IsInjective
<1>7. IsFiniteSet(1 .. Len(s)) /\ Cardinality(1 .. Len(s)) = Len(s)
  <2>1. PICK n : n = Len(s)
    OBVIOUS
  <2>2. n \in Nat /\ n \in Int /\ 1 \in Int
    BY <1>2, <2>1
  <2>3. IsFiniteSet(1 .. n) /\ Cardinality(1 .. n) = IF 1 > n THEN 0 ELSE n - 1 + 1
    BY <2>2, FS_Interval
  <2>4. (IF 1 > n THEN 0 ELSE n - 1 + 1) = n
    BY <2>2
  <2>5. QED
    BY <2>1, <2>3, <2>4
<1>8. ExistsBijection(1 .. Len(s), Elems(s))
  BY <1>6 DEF ExistsBijection
<1>9. QED
  BY <1>7, <1>8, FS_Bijection

\* g is the walk of n nodes along the links that Recent takes.
IsWalk(g, n) ==
    g = [i \in 1 .. n |->
           IF i = 1 THEN head ELSE IF g[i - 1] = Null THEN Null ELSE next[g[i - 1]]]

LEMMA RecentWalk ==
    ASSUME NEW n, Cardinality(cache) = n, NEW w, w = CHOOSE g : IsWalk(g, n)
    PROVE  Map!Recent = [i \in 1 .. n |-> w[i]]
<1>1. Map!Cardinality(cache) = n
  BY DEF Map!Cardinality, Cardinality
<1>2. QED
  BY <1>1 DEF Map!Recent, IsWalk

LEMMA WalkEntry ==
    ASSUME NEW n \in Nat, NEW g, IsWalk(g, n), NEW i \in 1 .. n
    PROVE  g[i] = IF i = 1 THEN head ELSE IF g[i - 1] = Null THEN Null ELSE next[g[i - 1]]
<1>1. g = [j \in 1 .. n |->
             IF j = 1 THEN head ELSE IF g[j - 1] = Null THEN Null ELSE next[g[j - 1]]]
  BY DEF IsWalk
<1>2. DEFINE F(j) == IF j = 1 THEN head ELSE IF g[j - 1] = Null THEN Null ELSE next[g[j - 1]]
<1>3. g = [j \in 1 .. n |-> F(j)]
  BY <1>1
<1>4. HIDE DEF F
<1>5. g[i] = F(i)
  BY <1>3
<1>6. QED
  BY <1>5 DEF F

\* The walk from the head meets the elements of the list in its order.
LEMMA RecentIs == ASSUME Null \notin Keys, NEW s, Holding(s) PROVE Map!Recent = s
<1>1. PICK n : n = Len(s)
  OBVIOUS
<1>2. /\ s \in Seq(Keys) /\ n \in Nat /\ \A i \in 1 .. n : s[i] \in Keys /\ s[i] # Null
      /\ \A i, j \in 1 .. n : s[i] = s[j] => i = j
      /\ n # 0 => head = s[1]
      /\ \A i \in 1 .. n : next[s[i]] = IF i = n THEN Null ELSE s[i + 1]
  BY <1>1 DEF Holding, Chained, Map!Links
<1>3. Cardinality(cache) = n
  BY <1>1, <1>2, ElemsCount DEF Holding
<1>4. \A i \in 1 .. n : s[i] = IF i = 1 THEN head
                               ELSE IF s[i - 1] = Null THEN Null ELSE next[s[i - 1]]
  <2>1. SUFFICES ASSUME NEW i \in 1 .. n, i # 1
                 PROVE  s[i] = IF s[i - 1] = Null THEN Null ELSE next[s[i - 1]]
    BY <1>2
  <2>2. i - 1 \in 1 .. n /\ i - 1 # n /\ (i - 1) + 1 = i
    BY <1>2, <2>1
  <2>3. s[i - 1] # Null /\ next[s[i - 1]] = s[i]
    BY <1>2, <2>2
  <2>4. QED
    BY <2>3
<1>5. IsWalk(s, n)
  <2>1. s = [i \in 1 .. n |-> s[i]]
    BY <1>1, <1>2
  <2>2. [i \in 1 .. n |-> s[i]]
        = [i \in 1 .. n |-> IF i = 1 THEN head
                            ELSE IF s[i - 1] = Null THEN Null ELSE next[s[i - 1]]]
    BY <1>4
  <2>3. QED
    BY <2>1, <2>2 DEF IsWalk
<1>6. PICK w : w = CHOOSE g : IsWalk(g, n)
  OBVIOUS
<1>7. IsWalk(w, n)
  BY <1>5, <1>6
<1>8. \A i \in 1 .. n : w[i] = s[i]
  <2>1. PICK T : T = {i \in 1 .. n : w[i] # s[i]}
    OBVIOUS
  <2>2. SUFFICES ASSUME T # {} PROVE FALSE
    BY <2>1
  <2>3. T \subseteq Nat
    BY <2>1
  <2>4. PICK i \in T : \A j \in T : i <= j
    BY <2>2, <2>3, LeastNat
  <2>5. i \in 1 .. n /\ w[i] # s[i]
    BY <2>1, <2>4
  <2>6. w[i] = IF i = 1 THEN head ELSE IF w[i - 1] = Null THEN Null ELSE next[w[i - 1]]
    BY <1>2, <1>7, <2>5, WalkEntry
  <2>7. CASE i = 1
    BY <1>4, <2>5, <2>6, <2>7
  <2>8. CASE i # 1
    <3>1. i - 1 \in 1 .. n /\ i - 1 \notin T
      BY <1>2, <2>3, <2>4, <2>5, <2>8
    <3>2. w[i - 1] = s[i - 1]
      BY <2>1, <3>1
    <3>3. QED
      BY <1>4, <2>5, <2>6, <2>8, <3>2
  <2>9. QED
    BY <2>7, <2>8
<1>9. Map!Recent = [i \in 1 .. n |-> w[i]]
  BY <1>3, <1>6, RecentWalk
<1>10. QED
  BY <1>1, <1>2, <1>8, <1>9

-----------------------------------------------------------------------------
LEMMA RecentIsNext == ASSUME Null \notin Keys, NEW u PROVE (Holding(u) => Map!Recent = u)'
<1>1. Holding(u) => Map!Recent = u
  BY RecentIs
<1>2. QED
  BY <1>1, PTL

LEMMA Relinked ==
    ASSUME NEW r \in LinkRecs, NEW u \in Seq(Keys), Chained(u, r), Map!Relink(r), cache' = Elems(u)
    PROVE  Holding(u)'
<1>1. r = [head |-> r.head, tail |-> r.tail, prev |-> r.prev, next |-> r.next]
  BY DEF LinkRecs
<1>2. [head |-> head', tail |-> tail', prev |-> prev', next |-> next'] = r
  BY <1>1 DEF Map!Relink
<1>3. Map!Links' = r
  BY <1>2 DEF Map!Links
<1>4. QED
  BY <1>3 DEF Holding, Elems, Chained, LinkRecs, NodeOrNull

\* The abstract operators on the list.
LEMMA AbstractFacts ==
    ASSUME Null \notin Keys, NEW s, Holding(s)
    PROVE  /\ \A m \in 1 .. Len(s) : Map!Promise!Without(s[m]) = Dropped(s, m)
           /\ \A k : k \notin Elems(s) => Map!Promise!Without(k) = s
           /\ Len(s) > 0 => Map!Promise!Front(Map!Recent) = Dropped(s, Len(s))
           /\ Map!Promise!ToSet(Map!Recent) = Elems(s)
<1>1. s \in Seq(Keys) /\ Len(s) \in Nat /\ \A i, j \in 1 .. Len(s) : s[i] = s[j] => i = j
  BY DEF Holding, Chained
<1>2. Map!Recent = s
  BY RecentIs
<1>3. ASSUME NEW m \in 1 .. Len(s) PROVE Map!Promise!Without(s[m]) = Dropped(s, m)
  <2>1. PICK k : k = s[m]
    OBVIOUS
  <2>2. PICK I : I = {i \in 1 .. Len(s) : s[i] = k}
    OBVIOUS
  <2>3. I = {m}
    BY <1>1, <2>1, <2>2
  <2>4. Map!Promise!Min(I) = m
    BY <2>3 DEF Map!Promise!Min
  <2>5. I # {} /\ \E i \in 1 .. Len(s) : s[i] = k
    BY <1>3, <2>1, <2>3
  <2>6. Map!Promise!RemoveFirst(s, k) = Map!Promise!RemoveAt(s, m)
    BY <2>2, <2>4, <2>5 DEF Map!Promise!RemoveFirst, Map!Promise!SelectInSeq
  <2>7. QED
    BY <1>2, <2>1, <2>6 DEF Map!Promise!Without, Map!Promise!RemoveAt, Dropped
<1>4. ASSUME NEW k, k \notin Elems(s) PROVE Map!Promise!Without(k) = s
  <2>1. ~ \E i \in 1 .. Len(s) : s[i] = k
    BY <1>4 DEF Elems
  <2>2. Map!Promise!RemoveFirst(s, k) = s
    BY <2>1 DEF Map!Promise!RemoveFirst
  <2>3. QED
    BY <1>2, <2>2 DEF Map!Promise!Without
<1>5. ASSUME Len(s) > 0 PROVE Map!Promise!Front(Map!Recent) = Dropped(s, Len(s))
  <2>1. PICK a : a = SubSeq(s, 1, Len(s) - 1)
    OBVIOUS
  <2>2. a \in Seq(Keys) /\ Len(a) = Len(s) - 1 /\ \A i \in 1 .. Len(s) - 1 : a[i] = s[i]
    <3>1. PICK n : n = Len(s) - 1
      OBVIOUS
    <3>2. n \in Nat /\ n <= Len(s) /\ a = SubSeq(s, 1, n)
      BY <1>1, <1>5, <2>1, <3>1
    <3>3. a \in Seq(Keys) /\ Len(a) = n /\ \A i \in 1 .. n : a[i] = s[i]
      BY <1>1, <3>2
    <3>4. QED
      BY <3>1, <3>3
  <2>3. Len(s) \in 1 .. Len(s)
    BY <1>1, <1>5
  <2>4. PICK b : b = Dropped(s, Len(s))
    OBVIOUS
  <2>5. b \in Seq(Keys) /\ Len(b) = Len(s) - 1 /\ \A i \in 1 .. Len(s) - 1 : b[i] = s[i]
    BY <1>1, <2>3, <2>4, DropFacts
  <2>6. a = b
    BY <2>2, <2>5
  <2>7. QED
    BY <1>2, <2>1, <2>4, <2>6 DEF Map!Promise!Front
<1>6. Map!Promise!ToSet(Map!Recent) = Elems(s)
  <2>1. DOMAIN s = 1 .. Len(s)
    BY <1>1
  <2>2. QED
    BY <1>2, <2>1 DEF Map!Promise!ToSet, Elems
<1>7. QED
  BY <1>3, <1>4, <1>5, <1>6

\* A node of the list is taken out.
LEMMA Unlinked ==
    ASSUME Null \notin Keys, NEW s, Holding(s), NEW k \in Keys, k \in cache
    PROVE  \E u \in Seq(Keys) :
             /\ u = Map!Promise!Without(k) /\ Elems(u) = cache \ {k}
             /\ Chained(u, Map!RemoveNode(Map!Links, k))
             /\ Map!RemoveNode(Map!Links, k) \in LinkRecs
<1>1. PICK l : l = Map!Links
  OBVIOUS
<1>2. s \in Seq(Keys) /\ l \in LinkRecs /\ Chained(s, l) /\ cache = Elems(s)
  BY <1>1 DEF Holding
<1>3. PICK m \in 1 .. Len(s) : k = s[m]
  BY <1>2 DEF Elems
<1>4. PICK u : u = Dropped(s, m)
  OBVIOUS
<1>5. u \in Seq(Keys) /\ Chained(u, Map!RemoveNode(l, s[m])) /\ Map!RemoveNode(l, s[m]) \in LinkRecs
  BY <1>2, <1>4, DropFacts, RemoveChains
<1>6. Elems(u) = Elems(s) \ {s[m]}
  BY <1>2, <1>4, DropElems DEF Chained
<1>7. Map!Promise!Without(s[m]) = u
  BY <1>3, <1>4, AbstractFacts
<1>8. QED
  BY <1>1, <1>2, <1>3, <1>5, <1>6, <1>7

\* A node is put in front of what is left of the list.
LEMMA PutInFront ==
    ASSUME Null \notin Keys, NEW u \in Seq(Keys), NEW l \in LinkRecs, Chained(u, l), NEW k \in Keys,
           k \notin Elems(u), Map!Relink(Map!AddToHead(l, k)), cache' = Elems(u) \cup {k}
    PROVE  Holding(<<k>> \o u)' /\ Map!Recent' = <<k>> \o u
<1>1. PICK r : r = Map!AddToHead(l, k)
  OBVIOUS
<1>2. PICK w : w = <<k>> \o u
  OBVIOUS
<1>3. r \in LinkRecs /\ Chained(w, r) /\ w \in Seq(Keys) /\ Elems(w) = Elems(u) \cup {k}
  BY <1>1, <1>2, AddChains, ConsFacts
<1>4. Holding(w)'
  BY <1>1, <1>3, Relinked
<1>5. Map!Recent' = w
  BY <1>4, RecentIsNext
<1>6. QED
  BY <1>2, <1>4, <1>5

LEMMA GetImplements ==
    ASSUME Null \notin Keys, MapInv, NEW k \in Keys, Map!Get(k)
    PROVE  Map!Promise!Get(k) /\ MapInv'
<1>1. PICK s : Holding(s)
  BY DEF MapInv
<1>2. Map!Promise!ToSet(Map!Recent) = cache
  BY <1>1, AbstractFacts DEF Holding
<1>3. UNCHANGED <<cache, val>>
  BY DEF Map!Get
<1>4. CASE k \in cache
  <2>1. PICK u \in Seq(Keys) :
             /\ u = Map!Promise!Without(k) /\ Elems(u) = cache \ {k}
             /\ Chained(u, Map!RemoveNode(Map!Links, k))
             /\ Map!RemoveNode(Map!Links, k) \in LinkRecs
    BY <1>1, <1>4, Unlinked
  <2>2. PICK l : l = Map!RemoveNode(Map!Links, k)
    OBVIOUS
  <2>3. out' = val[k] /\ Map!Relink(Map!AddToHead(l, k))
    BY <1>4, <2>2 DEF Map!Get, Map!MoveToHead
  <2>4. k \notin Elems(u) /\ cache' = Elems(u) \cup {k}
    BY <1>3, <1>4, <2>1
  <2>5. Holding(<<k>> \o u)' /\ Map!Recent' = <<k>> \o u
    BY <2>1, <2>2, <2>3, <2>4, PutInFront
  <2>6. Map!Promise!Get(k)
    BY <1>2, <1>3, <1>4, <2>1, <2>3, <2>5 DEF Map!Promise!Get
  <2>7. PICK w : w = <<k>> \o u
    OBVIOUS
  <2>8. MapInv'
    BY <1>3, <2>5, <2>7 DEF MapInv
  <2>9. QED
    BY <2>6, <2>8
<1>5. CASE k \notin cache
  <2>1. out' = Absent /\ UNCHANGED <<head, tail, prev, next>>
    BY <1>5 DEF Map!Get, Map!list
  <2>2. Map!Recent' = Map!Recent
    BY <1>3, <2>1 DEF Map!Recent
  <2>3. val[k] = Absent
    BY <1>5 DEF MapInv
  <2>4. Map!Promise!Get(k)
    BY <1>2, <1>3, <1>5, <2>1, <2>2, <2>3 DEF Map!Promise!Get
  <2>5. Holding(s)'
    BY <1>1, <1>3, <2>1 DEF Holding, Map!Links, Chained, Elems
  <2>6. QED
    BY <1>3, <2>4, <2>5 DEF MapInv
<1>6. QED
  BY <1>4, <1>5

LEMMA DeleteImplements ==
    ASSUME Null \notin Keys, MapInv, NEW k \in Keys, Map!Delete(k)
    PROVE  Map!Promise!Delete(k) /\ MapInv'
<1>1. PICK s : Holding(s)
  BY DEF MapInv
<1>2. cache' = cache \ {k} /\ val' = [val EXCEPT ![k] = Absent] /\ UNCHANGED out
  BY DEF Map!Delete
<1>3. DOMAIN val' = Keys /\ \A x \in Keys \ cache' : val'[x] = Absent
  <2>1. DOMAIN val' = Keys
    BY <1>2 DEF MapInv
  <2>2. ASSUME NEW x \in Keys, x \notin cache' PROVE val'[x] = Absent
    BY <1>2, <2>2 DEF MapInv
  <2>3. QED
    BY <2>1, <2>2
<1>4. CASE k \in cache
  <2>1. PICK u \in Seq(Keys) :
             /\ u = Map!Promise!Without(k) /\ Elems(u) = cache \ {k}
             /\ Chained(u, Map!RemoveNode(Map!Links, k))
             /\ Map!RemoveNode(Map!Links, k) \in LinkRecs
    BY <1>1, <1>4, Unlinked
  <2>2. PICK l : l = Map!RemoveNode(Map!Links, k)
    OBVIOUS
  <2>3. Map!Relink(l) /\ l \in LinkRecs /\ Chained(u, l) /\ cache' = Elems(u)
    BY <1>2, <1>4, <2>1, <2>2 DEF Map!Delete
  <2>4. Holding(u)'
    BY <2>3, Relinked
  <2>5. Map!Recent' = u
    BY <2>4, RecentIsNext
  <2>6. QED
    BY <1>2, <1>3, <2>1, <2>4, <2>5 DEF Map!Promise!Delete, MapInv
<1>5. CASE k \notin cache
  <2>1. UNCHANGED <<head, tail, prev, next>> /\ cache' = cache
    BY <1>2, <1>5 DEF Map!Delete, Map!list
  <2>2. Map!Recent' = Map!Recent
    BY <2>1 DEF Map!Recent
  <2>3. Map!Promise!Without(k) = Map!Recent
    BY <1>1, <1>5, AbstractFacts, RecentIs DEF Holding
  <2>4. Holding(s)'
    BY <1>1, <2>1 DEF Holding, Map!Links, Chained, Elems
  <2>5. QED
    BY <1>2, <1>3, <2>2, <2>3, <2>4 DEF Map!Promise!Delete, MapInv
<1>6. QED
  BY <1>4, <1>5

\* What a set leaves of the list before it puts its key in front.
LEMMA SetLeaves ==
    ASSUME Null \notin Keys, Capacity \in Nat \ {0}, NEW s, Holding(s), NEW k \in Keys, NEW v,
           Map!Set(k, v)
    PROVE  \E u \in Seq(Keys), l \in LinkRecs :
             /\ u = IF k \in cache THEN Map!Promise!Without(k) ELSE Map!Promise!Kept
             /\ Chained(u, l) /\ k \notin Elems(u)
             /\ Map!Relink(Map!AddToHead(l, k)) /\ cache' = Elems(u) \cup {k}
<1>1. CASE k \in cache
  <2>1. PICK u \in Seq(Keys) :
             /\ u = Map!Promise!Without(k) /\ Elems(u) = cache \ {k}
             /\ Chained(u, Map!RemoveNode(Map!Links, k))
             /\ Map!RemoveNode(Map!Links, k) \in LinkRecs
    BY <1>1, Unlinked
  <2>2. PICK l : l = Map!RemoveNode(Map!Links, k)
    OBVIOUS
  <2>3. Map!Relink(Map!AddToHead(l, k)) /\ cache' = cache
    BY <1>1, <2>2 DEF Map!Set, Map!MoveToHead
  <2>4. QED
    BY <1>1, <2>1, <2>2, <2>3
<1>2. ASSUME k \notin cache PROVE
        /\ s \in Seq(Keys) /\ Len(s) \in Nat /\ cache = Elems(s) /\ Map!Recent = s
        /\ Map!Links \in LinkRecs /\ Chained(s, Map!Links)
        /\ Map!Cardinality(cache) = Len(s)
        /\ Len(s) = 0 => tail = Null
        /\ Len(s) # 0 => tail = s[Len(s)] /\ tail \in Keys /\ tail \in cache /\ tail # Null
  <2>1. s \in Seq(Keys) /\ Len(s) \in Nat /\ cache = Elems(s) /\ Map!Links \in LinkRecs
        /\ Chained(s, Map!Links)
    BY DEF Holding
  <2>2. Map!Cardinality(cache) = Cardinality(cache)
    BY DEF Map!Cardinality, Cardinality
  <2>3. Cardinality(cache) = Len(s)
    BY <2>1, ElemsCount DEF Chained
  <2>4. Map!Recent = s
    BY RecentIs
  <2>5. (Len(s) = 0 => tail = Null) /\ (Len(s) # 0 => tail = s[Len(s)])
    BY <2>1 DEF Chained, Map!Links
  <2>6. Len(s) # 0 => tail \in Keys /\ tail \in cache /\ tail # Null
    <3>1. SUFFICES ASSUME Len(s) # 0 PROVE tail \in Keys /\ tail \in cache /\ tail # Null
      OBVIOUS
    <3>2. Len(s) \in 1 .. Len(s)
      BY <2>1, <3>1
    <3>3. QED
      BY <2>1, <2>5, <3>1, <3>2 DEF Elems
  <2>7. QED
    BY <2>1, <2>2, <2>3, <2>4, <2>5, <2>6
<1>3. CASE k \notin cache /\ Len(s) >= Capacity
  <2>1. Len(s) > 0 /\ Len(s) # 0 /\ Len(s) \in 1 .. Len(s)
    BY <1>2, <1>3
  <2>2. Map!Evicts
    BY <1>2, <1>3, <2>1 DEF Map!Evicts
  <2>3. PICK u \in Seq(Keys) :
             /\ u = Map!Promise!Without(tail) /\ Elems(u) = cache \ {tail}
             /\ Chained(u, Map!RemoveNode(Map!Links, tail))
             /\ Map!RemoveNode(Map!Links, tail) \in LinkRecs
    <3>1. PICK t : t = tail
      OBVIOUS
    <3>2. t \in Keys /\ t \in cache
      BY <1>2, <1>3, <2>1, <3>1
    <3>3. QED
      BY <3>1, <3>2, Unlinked
  <2>4. PICK l : l = Map!RemoveNode(Map!Links, tail)
    OBVIOUS
  <2>5. Map!Relink(Map!AddToHead(l, k)) /\ cache' = (cache \ {tail}) \cup {k}
    BY <1>3, <2>2, <2>4 DEF Map!Set
  <2>6. u = Map!Promise!Kept
    <3>1. Map!Promise!Without(tail) = Dropped(s, Len(s))
      BY <1>2, <1>3, <2>1, AbstractFacts
    <3>2. Map!Promise!Front(Map!Recent) = Dropped(s, Len(s))
      BY <2>1, AbstractFacts
    <3>3. Len(Map!Recent) >= Capacity
      BY <1>2, <1>3
    <3>4. QED
      BY <2>3, <3>1, <3>2, <3>3 DEF Map!Promise!Kept
  <2>7. QED
    BY <1>3, <2>3, <2>4, <2>5, <2>6
<1>4. CASE k \notin cache /\ ~(Len(s) >= Capacity)
  <2>1. ~Map!Evicts
    BY <1>2, <1>4 DEF Map!Evicts
  <2>2. PICK l : l = Map!Links
    OBVIOUS
  <2>3. Map!Relink(Map!AddToHead(l, k)) /\ cache' = cache \cup {k}
    BY <1>4, <2>1, <2>2 DEF Map!Set
  <2>4. Map!Promise!Kept = s
    BY <1>2, <1>4 DEF Map!Promise!Kept
  <2>5. s \in Seq(Keys) /\ l \in LinkRecs /\ Chained(s, l) /\ cache = Elems(s)
    BY <1>2, <1>4, <2>2
  <2>6. QED
    BY <1>4, <2>3, <2>4, <2>5
<1>5. QED
  BY <1>1, <1>3, <1>4

LEMMA SetImplements ==
    ASSUME Null \notin Keys, Capacity \in Nat \ {0}, MapInv, NEW k \in Keys, NEW v, Map!Set(k, v)
    PROVE  Map!Promise!Set(k, v) /\ MapInv'
<1>1. PICK s : Holding(s)
  BY DEF MapInv
<1>2. Map!Promise!ToSet(Map!Recent) = cache
  BY <1>1, AbstractFacts DEF Holding
<1>3. PICK u \in Seq(Keys), l \in LinkRecs :
             /\ u = IF k \in cache THEN Map!Promise!Without(k) ELSE Map!Promise!Kept
             /\ Chained(u, l) /\ k \notin Elems(u)
             /\ Map!Relink(Map!AddToHead(l, k)) /\ cache' = Elems(u) \cup {k}
  BY <1>1, SetLeaves
<1>4. Holding(<<k>> \o u)' /\ Map!Recent' = <<k>> \o u
  BY <1>3, PutInFront
<1>5. /\ val' = [x \in Keys |-> IF x = k THEN v ELSE IF x \in cache' THEN val[x] ELSE Absent]
      /\ UNCHANGED out
  BY DEF Map!Set
<1>6. Map!Promise!ToSet(u) = Elems(u)
  <2>1. DOMAIN u = 1 .. Len(u)
    OBVIOUS
  <2>2. QED
    BY <2>1 DEF Map!Promise!ToSet, Elems
<1>7. val' = [x \in Keys |-> IF x = k THEN v
                             ELSE IF x \in Map!Promise!ToSet(u) THEN val[x] ELSE Absent]
  <2>1. \A x \in Keys : x # k => (x \in cache' <=> x \in Map!Promise!ToSet(u))
    BY <1>3, <1>6
  <2>2. QED
    BY <1>5, <2>1
<1>8. Map!Promise!Set(k, v)
  BY <1>2, <1>3, <1>4, <1>5, <1>7 DEF Map!Promise!Set
<1>9. DOMAIN val' = Keys /\ \A x \in Keys \ cache' : val'[x] = Absent
  <2>1. k \in cache'
    BY <1>3
  <2>2. QED
    BY <1>5, <2>1
<1>10. PICK w : w = <<k>> \o u
  OBVIOUS
<1>11. QED
  BY <1>4, <1>8, <1>9, <1>10 DEF MapInv

\* A list without elements.
LEMMA HoldingNothing ==
    ASSUME Null \notin Keys, head = Null, tail = Null, cache = {}, prev \in [Keys -> NodeOrNull], next \in [Keys -> NodeOrNull]
    PROVE  Holding(<<>>)
<1>1. Map!Links \in LinkRecs
  BY DEF Map!Links, LinkRecs, NodeOrNull
<1>2. <<>> \in Seq(Keys) /\ Len(<<>>) = 0 /\ 1 .. Len(<<>>) = {}
  OBVIOUS
<1>3. Elems(<<>>) = {}
  BY <1>2 DEF Elems
<1>4. Chained(<<>>, Map!Links)
  BY <1>2 DEF Chained, Map!Links
<1>5. QED
  BY <1>1, <1>2, <1>3, <1>4 DEF Holding

LEMMA MapInit ==
    ASSUME Null \notin Keys, Map!Init PROVE Map!Promise!Init /\ MapInv
<1>1. Holding(<<>>)
  BY HoldingNothing DEF Map!Init, NodeOrNull
<1>2. Map!Recent = <<>>
  BY <1>1, RecentIs
<1>3. QED
  BY <1>1, <1>2 DEF Map!Init, Map!Promise!Init, MapInv

LEMMA ClearImplements ==
    ASSUME Null \notin Keys, MapInv, Map!Clear PROVE Map!Promise!Clear /\ MapInv'
<1>1. /\ cache' = {} /\ val' = [k \in Keys |-> Absent] /\ head' = Null /\ tail' = Null
      /\ UNCHANGED <<prev, next, out>>
  BY DEF Map!Clear
<1>2. prev \in [Keys -> NodeOrNull] /\ next \in [Keys -> NodeOrNull]
  BY DEF MapInv, Holding, LinkRecs, Map!Links
<1>3. PICK u : u = <<>>
  OBVIOUS
<1>4. PICK r : r = [head |-> Null, tail |-> Null, prev |-> prev, next |-> next]
  OBVIOUS
<1>5. u \in Seq(Keys) /\ Len(u) = 0 /\ Elems(u) = {} /\ r \in LinkRecs
  BY <1>2, <1>3, <1>4 DEF Elems, LinkRecs, NodeOrNull
<1>6. Chained(u, r)
  BY <1>4, <1>5 DEF Chained
<1>7. Map!Relink(r)
  BY <1>1, <1>4 DEF Map!Relink
<1>8. Holding(u)'
  BY <1>1, <1>5, <1>6, <1>7, Relinked
<1>9. Map!Recent' = u
  BY <1>8, RecentIsNext
<1>10. QED
  BY <1>1, <1>3, <1>8, <1>9 DEF Map!Promise!Clear, MapInv

LEMMA MapStays ==
    ASSUME MapInv, UNCHANGED Map!mapVars
    PROVE  UNCHANGED <<Map!Recent, val, out>> /\ MapInv'
<1>1. UNCHANGED <<cache, val, head, tail, prev, next, out>>
  BY DEF Map!mapVars, Map!list
<1>2. Map!Recent' = Map!Recent
  BY <1>1 DEF Map!Recent
<1>3. PICK s : Holding(s)
  BY DEF MapInv
<1>4. Holding(s)'
  BY <1>1, <1>3 DEF Holding, Map!Links, Chained, Elems
<1>5. QED
  BY <1>1, <1>2, <1>4 DEF MapInv

LEMMA MapStep ==
    ASSUME Null \notin Keys, Capacity \in Nat \ {0}, MapInv, [Map!Next]_(Map!mapVars)
    PROVE  [Map!Promise!Next]_<<Map!Recent, val, out>> /\ MapInv'
<1>1. ASSUME NEW k \in Keys, Map!Get(k)
      PROVE  Map!Promise!Next /\ MapInv'
  BY <1>1, GetImplements DEF Map!Promise!Next
<1>2. ASSUME NEW k \in Keys, Map!Delete(k)
      PROVE  Map!Promise!Next /\ MapInv'
  BY <1>2, DeleteImplements DEF Map!Promise!Next
<1>3. ASSUME NEW k \in Keys, NEW v \in Values, Map!Set(k, v)
      PROVE  Map!Promise!Next /\ MapInv'
  BY <1>3, SetImplements DEF Map!Promise!Next
<1>4. ASSUME Map!Clear
      PROVE  Map!Promise!Next /\ MapInv'
  BY <1>4, ClearImplements DEF Map!Promise!Next
<1>5. QED
  BY <1>1, <1>2, <1>3, <1>4, MapStays DEF Map!Next

\* The linked list and the Map of BoundedMap (set, get, delete, clear, evict)
\* implement the map that forgets what was used longest ago: every call is a
\* step of Lru on the list of the keys met along the links, for every capacity.
THEOREM BoundedMapIsLru == Map!Spec => ImplementsLru
<1> USE StructuresAssumption
<1>1. Map!Init => Map!Promise!Init /\ MapInv
  BY MapInit
<1>2. MapInv /\ [Map!Next]_(Map!mapVars)
      => [Map!Promise!Next]_<<Map!Recent, val, out>> /\ MapInv'
  BY MapStep
<1>3. QED
  BY <1>1, <1>2, PTL DEF Map!Spec, ImplementsLru, Map!ImplementsLru, Map!Promise!Spec

-----------------------------------------------------------------------------
(* The commits to the roots of the Merkle trees (MerkleCommit), for every  *)
(* number of leaves, every limit and every set of commits that overlap.    *)

\* How often the hash of the n-th event is in a list.
Counted(s, n) == Cardinality({i \in 1 .. Len(s) : s[i] = <<n>>})

BatchCounts(n) == [c \in Commits |-> Counted(call[c].batch, n)]

IsBatchTable(g, n) ==
    g = [s \in SUBSET Commits |->
           IF s = {} THEN 0 ELSE Merkle!Times(call[Pick(s)].batch, n) + g[s \ {Pick(s)}]]

\* The sum of RootsCover.
InBatches(n) == Merkle!MapThenSumSet(LAMBDA c : Merkle!Times(call[c].batch, n), Commits)

LEMMA BatchFold == ASSUME NEW n PROVE InBatches(n) = (CHOOSE g : IsBatchTable(g, n))[Commits]
  BY DEF InBatches, IsBatchTable, Pick, Merkle!MapThenSumSet, Merkle!MapThenFoldSet

LEMMA CountType == ASSUME NEW S, NEW s \in Seq(S), NEW n PROVE Counted(s, n) \in Nat
<1>1. PICK T : T = {i \in 1 .. Len(s) : s[i] = <<n>>}
  OBVIOUS
<1>2. IsFiniteSet(1 .. Len(s)) /\ T \subseteq 1 .. Len(s)
  BY <1>1, FS_Interval
<1>3. IsFiniteSet(T)
  BY <1>2, FS_Subset
<1>4. QED
  BY <1>1, <1>3, FS_CardinalityType DEF Counted

LEMMA CountEmpty == ASSUME NEW n PROVE Counted(<<>>, n) = 0
<1>1. {i \in 1 .. Len(<<>>) : <<>>[i] = <<n>>} = {}
  OBVIOUS
<1>2. QED
  BY <1>1, FS_EmptySet DEF Counted

LEMMA CountTimes == ASSUME NEW S, NEW s \in Seq(S), NEW n PROVE Merkle!Times(s, n) = Counted(s, n)
<1>1. \A T : Merkle!Cardinality(T) = Cardinality(T)
  BY DEF Merkle!Cardinality, Cardinality
<1>2. DOMAIN s = 1 .. Len(s)
  OBVIOUS
<1>3. Merkle!Times(s, n) = Cardinality({i \in DOMAIN s : s[i] = <<n>>})
  BY <1>1 DEF Merkle!Times
<1>4. QED
  BY <1>2, <1>3 DEF Counted

\* A list in two parts.
LEMMA CountConcat ==
    ASSUME NEW S, NEW s \in Seq(S), NEW t \in Seq(S), NEW n
    PROVE  Counted(s \o t, n) = Counted(s, n) + Counted(t, n)
<1>1. PICK A : A = {i \in 1 .. Len(s) : s[i] = <<n>>}
  OBVIOUS
<1>2. PICK B : B = {i \in 1 .. Len(t) : t[i] = <<n>>}
  OBVIOUS
<1>3. PICK C : C = {i \in Int : i - Len(s) \in B}
  OBVIOUS
<1>4. PICK D : D = {i \in 1 .. Len(s \o t) : (s \o t)[i] = <<n>>}
  OBVIOUS
<1>5. /\ Len(s) \in Nat /\ Len(t) \in Nat /\ Len(s \o t) = Len(s) + Len(t)
      /\ \A i \in 1 .. Len(s) : (s \o t)[i] = s[i]
      /\ \A i \in Len(s) + 1 .. Len(s) + Len(t) : (s \o t)[i] = t[i - Len(s)]
  OBVIOUS
<1>6. D = A \cup C
  <2>1. ASSUME NEW i \in D PROVE i \in A \cup C
    <3>1. i \in 1 .. Len(s) + Len(t) /\ (s \o t)[i] = <<n>>
      BY <1>4, <1>5
    <3>2. CASE i \in 1 .. Len(s)
      BY <1>1, <1>5, <3>1, <3>2
    <3>3. CASE i \notin 1 .. Len(s)
      <4>1. i \in Len(s) + 1 .. Len(s) + Len(t) /\ i - Len(s) \in 1 .. Len(t)
        BY <1>5, <3>1, <3>3
      <4>2. t[i - Len(s)] = <<n>>
        BY <1>5, <3>1, <4>1
      <4>3. QED
        BY <1>2, <1>3, <4>1, <4>2
    <3>4. QED
      BY <3>2, <3>3
  <2>2. ASSUME NEW i \in A PROVE i \in D
    <3>1. i \in 1 .. Len(s) /\ s[i] = <<n>> /\ i \in 1 .. Len(s \o t)
      BY <1>1, <1>5
    <3>2. QED
      BY <1>4, <1>5, <3>1
  <2>3. ASSUME NEW i \in C PROVE i \in D
    <3>1. i \in Int /\ i - Len(s) \in 1 .. Len(t) /\ t[i - Len(s)] = <<n>>
      BY <1>2, <1>3
    <3>2. i \in Len(s) + 1 .. Len(s) + Len(t) /\ i \in 1 .. Len(s \o t)
      BY <1>5, <3>1
    <3>3. QED
      BY <1>4, <1>5, <3>1, <3>2
  <2>4. QED
    BY <2>1, <2>2, <2>3
<1>7. A \cap C = {}
  <2>1. \A i \in A : i \in Int /\ i <= Len(s)
    BY <1>1, <1>5
  <2>2. \A i \in C : i \in Int /\ i - Len(s) > 0
    BY <1>2, <1>3, <1>5
  <2>3. QED
    BY <1>5, <2>1, <2>2
<1>8. IsFiniteSet(A) /\ IsFiniteSet(B)
  <2>1. IsFiniteSet(1 .. Len(s)) /\ IsFiniteSet(1 .. Len(t))
    BY <1>5, FS_Interval
  <2>2. A \subseteq 1 .. Len(s) /\ B \subseteq 1 .. Len(t)
    BY <1>1, <1>2
  <2>3. QED
    BY <2>1, <2>2, FS_Subset
<1>9. IsFiniteSet(C) /\ Cardinality(C) = Cardinality(B)
  <2>1. PICK f : f = [i \in B |-> i + Len(s)]
    OBVIOUS
  <2>2. B \subseteq Int
    BY <1>2
  <2>3. \A i \in B : f[i] = i + Len(s) /\ f[i] \in C
    BY <1>3, <1>5, <2>1, <2>2
  <2>4. f \in [B -> C]
    BY <2>1, <2>3
  <2>5. \A i, j \in B : f[i] = f[j] => i = j
    BY <1>5, <2>2, <2>3
  <2>6. \A k \in C : \E i \in B : f[i] = k
    <3>1. SUFFICES ASSUME NEW k \in C PROVE k - Len(s) \in B /\ f[k - Len(s)] = k
      OBVIOUS
    <3>2. k \in Int /\ k - Len(s) \in B
      BY <1>3
    <3>3. QED
      BY <1>5, <2>3, <3>2
  <2>7. f \in Bijection(B, C)
    BY <2>4, <2>5, <2>6 DEF Bijection, Injection, Surjection, IsInjective
  <2>8. ExistsBijection(B, C)
    BY <2>7 DEF ExistsBijection
  <2>9. QED
    BY <1>8, <2>8, FS_Bijection
<1>10. Cardinality(A \cup C) = Cardinality(A) + Cardinality(C) - Cardinality({})
  BY <1>7, <1>8, <1>9, FS_Union
<1>11. Cardinality({}) = 0 /\ Cardinality(A) \in Nat /\ Cardinality(B) \in Nat
  BY <1>8, FS_EmptySet, FS_CardinalityType
<1>12. Cardinality(D) = Cardinality(A) + Cardinality(B)
  BY <1>6, <1>9, <1>10, <1>11
<1>13. QED
  BY <1>1, <1>2, <1>4, <1>12 DEF Counted

LEMMA CountOne == ASSUME NEW h, NEW n PROVE Counted(<<h>>, n) = IF h = <<n>> THEN 1 ELSE 0
<1>1. Len(<<h>>) = 1 /\ <<h>>[1] = h
  OBVIOUS
<1>2. PICK s : s = <<h>>
  OBVIOUS
<1>3. PICK T : T = {i \in 1 .. Len(s) : s[i] = <<n>>}
  OBVIOUS
<1>4. \A i \in 1 .. Len(s) : i = 1 /\ s[i] = h
  BY <1>1, <1>2
<1>5. 1 \in 1 .. Len(s)
  BY <1>1, <1>2
<1>6. Cardinality({1}) = 1 /\ Cardinality({}) = 0
  BY FS_Singleton, FS_EmptySet
<1>7. Counted(s, n) = Cardinality(T)
  BY <1>3 DEF Counted
<1>8. CASE h = <<n>>
  <2>1. 1 \in T
    BY <1>3, <1>4, <1>5, <1>8
  <2>2. \A i \in T : i = 1
    BY <1>3, <1>4
  <2>3. T = {1}
    BY <2>1, <2>2
  <2>4. QED
    BY <1>2, <1>6, <1>7, <1>8, <2>3
<1>9. CASE h # <<n>>
  <2>1. ASSUME NEW i \in T PROVE FALSE
    <3>1. i \in 1 .. Len(s) /\ s[i] = <<n>>
      BY <1>3
    <3>2. s[i] = h
      BY <1>4, <3>1
    <3>3. QED
      BY <1>9, <3>1, <3>2
  <2>2. QED
    <3>1. T = {}
      BY <2>1
    <3>2. QED
      BY <1>2, <1>6, <1>7, <1>9, <3>1
<1>10. QED
  BY <1>8, <1>9

LEMMA CountAppend ==
    ASSUME NEW S, NEW s \in Seq(S), NEW h \in S, NEW n
    PROVE  Counted(Append(s, h), n) = Counted(s, n) + IF h = <<n>> THEN 1 ELSE 0
<1>1. Append(s, h) = s \o <<h>> /\ <<h>> \in Seq(S)
  OBVIOUS
<1>2. Counted(s \o <<h>>, n) = Counted(s, n) + Counted(<<h>>, n)
  BY <1>1, CountConcat
<1>3. QED
  BY <1>1, <1>2, CountOne


-----------------------------------------------------------------------------
Hashes == {<<n>> : n \in Nat}

Batched(n) == SumOver(BatchCounts(n), Commits)

MerkleTypes ==
    /\ leaves \in Seq(Hashes) /\ pending \in Seq(Hashes) /\ Len(leaves) <= MaxLeaves
    /\ call \in [Commits -> [at : {"idle", "verify", "sign"}, batch : Seq(Hashes)]]
    /\ \A c \in Commits : call[c].at # "sign" => call[c].batch = <<>>
    /\ roots \in [1 .. MaxLeaves -> Nat] /\ dropped \in [1 .. MaxLeaves -> Nat]

\* Every hash that exists is in one place, and no other hash anywhere.
Placed ==
    \A n \in 1 .. MaxLeaves :
        (roots[n] + dropped[n]) + Counted(pending, n) + Batched(n) = IF n <= Len(leaves) THEN 1 ELSE 0

MerkleInv == MerkleTypes /\ Placed

LEMMA BatchCountsType ==
    ASSUME MerkleTypes, NEW n PROVE \A c \in Commits : BatchCounts(n)[c] = Counted(call[c].batch, n)
                                                       /\ BatchCounts(n)[c] \in Nat
<1>1. \A c \in Commits : call[c].batch \in Seq(Hashes)
  BY DEF MerkleTypes
<1>2. \A c \in Commits : Counted(call[c].batch, n) \in Nat
  BY <1>1, CountType
<1>3. QED
  BY <1>2 DEF BatchCounts

\* What RootsCover sums is the sum of the counts.
LEMMA BatchSum ==
    ASSUME MerkleTypes, IsFiniteSet(Commits), NEW n PROVE InBatches(n) = Batched(n)
<1>1. \A c \in Commits : call[c].batch \in Seq(Hashes)
  BY DEF MerkleTypes
<1>2. \A c \in Commits : Merkle!Times(call[c].batch, n) = BatchCounts(n)[c]
  BY <1>1, CountTimes DEF BatchCounts
<1>3. \A s \in SUBSET Commits : s # {} => Pick(s) \in Commits
  BY PickIn
<1>4. ASSUME NEW g PROVE IsBatchTable(g, n) <=> IsSum(g, BatchCounts(n), Commits)
  <2>1. \A s \in SUBSET Commits :
          (IF s = {} THEN 0 ELSE Merkle!Times(call[Pick(s)].batch, n) + g[s \ {Pick(s)}])
        = (IF s = {} THEN 0 ELSE BatchCounts(n)[Pick(s)] + g[s \ {Pick(s)}])
    BY <1>2, <1>3
  <2>2. [s \in SUBSET Commits |->
          IF s = {} THEN 0 ELSE Merkle!Times(call[Pick(s)].batch, n) + g[s \ {Pick(s)}]]
        = [s \in SUBSET Commits |->
          IF s = {} THEN 0 ELSE BatchCounts(n)[Pick(s)] + g[s \ {Pick(s)}]]
    BY <2>1
  <2>3. QED
    BY <2>2 DEF IsBatchTable, IsSum
<1>5. \A c \in Commits : BatchCounts(n)[c] \in Nat
  BY BatchCountsType
<1>6. PICK h : IsSum(h, BatchCounts(n), Commits)
  BY <1>5, SumExists
<1>7. PICK g : g = CHOOSE k : IsBatchTable(k, n)
  OBVIOUS
<1>8. IsBatchTable(h, n)
  BY <1>4, <1>6
<1>9. IsBatchTable(g, n)
  BY <1>7, <1>8
<1>10. PICK k : k = SumFn(BatchCounts(n), Commits)
  OBVIOUS
<1>11. IsSum(k, BatchCounts(n), Commits)
  BY <1>6, <1>10 DEF SumFn
<1>12. IsSum(g, BatchCounts(n), Commits)
  BY <1>4, <1>9
<1>13. g[Commits] = k[Commits]
  BY <1>11, <1>12, SumUnique
<1>14. QED
  BY <1>7, <1>10, <1>13, BatchFold, FoldIsSum DEF Batched

\* One commit changes what it has taken.
LEMMA BatchMoves ==
    ASSUME MerkleTypes, IsFiniteSet(Commits), NEW c \in Commits, NEW n,
           NEW r \in [at : {"idle", "verify", "sign"}, batch : Seq(Hashes)],
           call' = [call EXCEPT ![c] = r]
    PROVE  /\ Batched(n)' + Counted(call[c].batch, n) = Batched(n) + Counted(r.batch, n)
           /\ Batched(n) \in Nat /\ Batched(n)' \in Nat
<1>1. call \in [Commits -> [at : {"idle", "verify", "sign"}, batch : Seq(Hashes)]]
  BY DEF MerkleTypes
<1>2. call'[c] = r /\ \A d \in Commits : d # c => call'[d] = call[d]
  BY <1>1
<1>3. \A d \in Commits : call'[d].batch \in Seq(Hashes) /\ call[d].batch \in Seq(Hashes)
  BY <1>1, <1>2
<1>4. PICK f : f = [d \in Commits |-> Counted(call[d].batch, n)]
  OBVIOUS
<1>5. PICK g : g = [d \in Commits |-> Counted(call'[d].batch, n)]
  OBVIOUS
<1>6. \A d \in Commits : Counted(call[d].batch, n) \in Nat /\ Counted(call'[d].batch, n) \in Nat
  BY <1>3, CountType
<1>7. \A d \in Commits : f[d] \in Nat /\ g[d] \in Nat
  BY <1>4, <1>5, <1>6
<1>8. \A d \in Commits : d # c => f[d] = g[d]
  BY <1>2, <1>4, <1>5
<1>9. f[c] = Counted(call[c].batch, n) /\ g[c] = Counted(r.batch, n)
  BY <1>2, <1>4, <1>5
<1>10. SumOver(g, Commits) + f[c] = SumOver(f, Commits) + g[c]
  BY <1>7, <1>8, SumSwap
<1>11. SumOver(f, Commits) \in Nat /\ SumOver(g, Commits) \in Nat
  BY <1>7, SumType
<1>12. Batched(n) = SumOver(f, Commits)
  BY <1>4 DEF Batched, BatchCounts
<1>13. Batched(n)' = SumOver(g, Commits)
  BY <1>5 DEF Batched, BatchCounts, Counted
<1>14. QED
  BY <1>9, <1>10, <1>11, <1>12, <1>13

LEMMA BatchedStays ==
    ASSUME NEW n, \A c \in Commits : call'[c].batch = call[c].batch PROVE Batched(n)' = Batched(n)
<1>1. [c \in Commits |-> Counted(call'[c].batch, n)] = [c \in Commits |-> Counted(call[c].batch, n)]
  OBVIOUS
<1>2. BatchCounts(n)' = BatchCounts(n)
  BY <1>1 DEF BatchCounts, Counted
<1>3. QED
  BY <1>2 DEF Batched

LEMMA BatchedType == ASSUME MerkleTypes, IsFiniteSet(Commits), NEW n PROVE Batched(n) \in Nat
  BY BatchCountsType, SumType DEF Batched
-----------------------------------------------------------------------------
\* Up to its first await, a commit leaves every hash of the list or takes all.
LEMMA BeginsMoves ==
    ASSUME MerkleTypes, IsFiniteSet(Commits), NEW c \in Commits, call[c].at = "idle",
           NEW hashes \in Seq(Hashes), Merkle!Begins(c, hashes)
    PROVE  /\ pending' \in Seq(Hashes)
           /\ (call \in [Commits -> [at : {"idle", "verify", "sign"}, batch : Seq(Hashes)]])'
           /\ \A d \in Commits : call'[d].at # "sign" => call'[d].batch = <<>>
           /\ \A n : /\ Counted(pending', n) + Batched(n)' = Counted(hashes, n) + Batched(n)
                     /\ Batched(n)' \in Nat
<1>1. /\ call \in [Commits -> [at : {"idle", "verify", "sign"}, batch : Seq(Hashes)]]
      /\ \A d \in Commits : call[d].at # "sign" => call[d].batch = <<>>
      /\ call[c].batch = <<>>
  BY DEF MerkleTypes
<1>2. \A n : Batched(n) \in Nat /\ Counted(hashes, n) \in Nat
  BY BatchedType, CountType
<1>3. CASE pending' = hashes /\ UNCHANGED call
  <2>1. \A n : Batched(n)' = Batched(n)
    BY <1>3, BatchedStays
  <2>2. QED
    BY <1>1, <1>2, <1>3, <2>1
<1>4. CASE call' = [call EXCEPT ![c].at = "verify"] /\ pending' = hashes
  <2>1. \A d \in Commits : call'[d].batch = call[d].batch
    BY <1>1, <1>4
  <2>2. \A n : Batched(n)' = Batched(n)
    BY <2>1, BatchedStays
  <2>3. call' \in [Commits -> [at : {"idle", "verify", "sign"}, batch : Seq(Hashes)]]
    BY <1>1, <1>4
  <2>4. \A d \in Commits : call'[d].at # "sign" => call'[d].batch = <<>>
    BY <1>1, <1>4, <2>1
  <2>5. QED
    BY <1>2, <1>4, <2>2, <2>3, <2>4
<1>5. CASE Merkle!Taken(c, hashes)
  <2>1. PICK r : r = [at |-> "sign", batch |-> hashes]
    OBVIOUS
  <2>2. r \in [at : {"idle", "verify", "sign"}, batch : Seq(Hashes)] /\ r.at = "sign" /\ r.batch = hashes
    BY <2>1
  <2>3. call' = [call EXCEPT ![c] = r] /\ pending' = <<>>
    BY <1>5, <2>1 DEF Merkle!Taken
  <2>4. \A n : Batched(n)' + Counted(call[c].batch, n) = Batched(n) + Counted(r.batch, n)
               /\ Batched(n)' \in Nat
    BY <2>2, <2>3, BatchMoves
  <2>5. \A n : Counted(call[c].batch, n) = 0 /\ Counted(pending', n) = 0
    BY <1>1, <2>3, CountEmpty
  <2>6. \A n : /\ Counted(pending', n) + Batched(n)' = Counted(hashes, n) + Batched(n)
               /\ Batched(n)' \in Nat
    BY <1>2, <2>2, <2>4, <2>5
  <2>7. pending' \in Seq(Hashes)
    BY <2>3
  <2>8. call' \in [Commits -> [at : {"idle", "verify", "sign"}, batch : Seq(Hashes)]]
    BY <1>1, <2>2, <2>3
  <2>9. \A d \in Commits : call'[d].at # "sign" => call'[d].batch = <<>>
    BY <1>1, <2>2, <2>3
  <2>10. QED
    BY <2>6, <2>7, <2>8, <2>9
<1>6. QED
  BY <1>3, <1>4, <1>5 DEF Merkle!Begins

LEMMA MerkleInit == ASSUME IsFiniteSet(Commits), MaxLeaves \in Nat, Merkle!Init PROVE MerkleInv
<1>1. MerkleTypes
  <2>1. Merkle!Resting \in [at : {"idle", "verify", "sign"}, batch : Seq(Hashes)]
        /\ Merkle!Resting.batch = <<>>
    BY DEF Merkle!Resting
  <2>2. QED
    BY <2>1 DEF Merkle!Init, MerkleTypes
<1>2. \A n : Counted(pending, n) = 0
  BY CountEmpty DEF Merkle!Init
<1>3. \A n : Batched(n) = 0
  <2>1. SUFFICES ASSUME NEW n PROVE Batched(n) = 0
    OBVIOUS
  <2>2. \A c \in Commits : call[c].batch = <<>>
    BY DEF Merkle!Init, Merkle!Resting
  <2>3. \A c \in Commits : BatchCounts(n)[c] = 0
    BY <2>2, CountEmpty DEF BatchCounts
  <2>4. QED
    BY <2>3, SumZero DEF Batched
<1>4. Len(leaves) = 0 /\ \A n \in 1 .. MaxLeaves : roots[n] = 0 /\ dropped[n] = 0
  BY DEF Merkle!Init
<1>5. \A n \in 1 .. MaxLeaves : ~ (n <= Len(leaves))
  BY <1>4
<1>6. Placed
  BY <1>2, <1>3, <1>4, <1>5 DEF Placed
<1>7. QED
  BY <1>1, <1>6 DEF MerkleInv
LEMMA LeafPlaced ==
    ASSUME MerkleInv, IsFiniteSet(Commits), MaxLeaves \in Nat, Merkle!LeafDone PROVE MerkleInv'
<1>1. MerkleTypes /\ Placed
  BY DEF MerkleInv
<1>2. /\ leaves \in Seq(Hashes) /\ pending \in Seq(Hashes) /\ Len(leaves) < MaxLeaves
      /\ Len(leaves) \in Nat /\ roots \in [1 .. MaxLeaves -> Nat] /\ dropped \in [1 .. MaxLeaves -> Nat]
      /\ call \in [Commits -> [at : {"idle", "verify", "sign"}, batch : Seq(Hashes)]]
      /\ \A d \in Commits : call[d].at # "sign" => call[d].batch = <<>>
  <2>1. Len(leaves) < MaxLeaves
    BY DEF Merkle!LeafDone
  <2>2. QED
    BY <1>1, <2>1 DEF MerkleTypes
<1>3. PICK h : h = <<Len(leaves) + 1>>
  OBVIOUS
<1>4. h \in Hashes
  BY <1>2, <1>3 DEF Hashes
<1>5. PICK all : all = Append(pending, h)
  OBVIOUS
<1>6. all \in Seq(Hashes) /\ leaves' = Append(leaves, h) /\ UNCHANGED <<roots, dropped>>
  <2>1. all \in Seq(Hashes)
    BY <1>2, <1>4, <1>5
  <2>2. leaves' = Append(leaves, <<Len(leaves) + 1>>) /\ UNCHANGED <<roots, dropped>>
    BY DEF Merkle!LeafDone
  <2>3. QED
    BY <1>3, <2>1, <2>2
<1>7. leaves' \in Seq(Hashes) /\ Len(leaves') = Len(leaves) + 1 /\ Len(leaves') <= MaxLeaves
  BY <1>2, <1>4, <1>6
<1>8. /\ pending' \in Seq(Hashes)
      /\ call' \in [Commits -> [at : {"idle", "verify", "sign"}, batch : Seq(Hashes)]]
      /\ \A d \in Commits : call'[d].at # "sign" => call'[d].batch = <<>>
      /\ \A n : /\ Counted(pending', n) + Batched(n)' = Counted(all, n) + Batched(n)
                /\ Batched(n)' \in Nat
  <2>1. CASE \E c \in Commits : call[c].at = "idle" /\ Merkle!Begins(c, all)
    BY <1>1, <1>6, <2>1, BeginsMoves
  <2>2. CASE pending' = all /\ UNCHANGED call
    <3>1. \A n : Batched(n)' = Batched(n) /\ Batched(n) \in Nat
      BY <1>1, <2>2, BatchedStays, BatchedType
    <3>2. QED
      BY <1>2, <1>6, <2>2, <3>1
  <2>3. QED
    BY <1>3, <1>5, <2>1, <2>2 DEF Merkle!LeafDone
<1>9. MerkleTypes'
  BY <1>2, <1>6, <1>7, <1>8 DEF MerkleTypes
<1>10. ASSUME NEW n \in 1 .. MaxLeaves
       PROVE  (roots'[n] + dropped'[n]) + Counted(pending', n) + Batched(n)' = IF n <= Len(leaves') THEN 1 ELSE 0
  <2>1. Counted(all, n) = Counted(pending, n) + IF h = <<n>> THEN 1 ELSE 0
    BY <1>2, <1>4, <1>5, CountAppend
  <2>2. h = <<n>> <=> n = Len(leaves) + 1
    BY <1>2, <1>3
  <2>3. (roots[n] + dropped[n]) + Counted(pending, n) + Batched(n) = IF n <= Len(leaves) THEN 1 ELSE 0
    BY <1>1 DEF Placed
  <2>4. /\ roots[n] \in Nat /\ dropped[n] \in Nat /\ Counted(pending, n) \in Nat /\ Batched(n) \in Nat
        /\ Counted(pending', n) \in Nat /\ Batched(n)' \in Nat
    BY <1>1, <1>2, <1>8, BatchedType, CountType
  <2>5. Counted(pending', n) + Batched(n)' = Counted(all, n) + Batched(n)
    BY <1>8
  <2>6. CASE n = Len(leaves) + 1
    <3>1. Counted(all, n) = Counted(pending, n) + 1
      BY <2>1, <2>2, <2>6
    <3>2. ~(n <= Len(leaves)) /\ n <= Len(leaves')
      BY <1>2, <1>7, <2>6
    <3>3. (roots[n] + dropped[n]) + Counted(pending, n) + Batched(n) = 0 /\ roots'[n] = roots[n] /\ dropped'[n] = dropped[n]
      BY <1>6, <2>3, <3>2
    <3>4. PICK a, b, c, d, e : /\ a = roots[n] + dropped[n] /\ b = Counted(pending, n) /\ c = Batched(n)
                               /\ d = Counted(pending', n) /\ e = Batched(n)'
      OBVIOUS
    <3>5. a \in Nat /\ b \in Nat /\ c \in Nat /\ d \in Nat /\ e \in Nat
      BY <2>4, <3>4
    <3>6. a + b + c = 0 /\ d + e = (b + 1) + c
      BY <2>5, <3>1, <3>3, <3>4
    <3>7. a + d + e = 1
      BY <3>5, <3>6
    <3>8. QED
      BY <3>2, <3>3, <3>4, <3>7
  <2>7. CASE n # Len(leaves) + 1
    <3>1. Counted(all, n) = Counted(pending, n)
      BY <2>1, <2>2, <2>4, <2>7
    <3>2. n <= Len(leaves') <=> n <= Len(leaves)
      BY <1>2, <1>7, <2>7
    <3>3. (roots'[n] + dropped'[n]) + Counted(pending', n) + Batched(n)' = (roots[n] + dropped[n]) + Counted(pending, n) + Batched(n)
      <4>1. PICK a, b, c, d, e : /\ a = roots[n] + dropped[n] /\ b = Counted(pending, n) /\ c = Batched(n)
                                 /\ d = Counted(pending', n) /\ e = Batched(n)'
        OBVIOUS
      <4>2. a \in Nat /\ b \in Nat /\ c \in Nat /\ d \in Nat /\ e \in Nat /\ d + e = b + c
        BY <2>4, <2>5, <3>1, <4>1
      <4>3. a + d + e = a + b + c
        BY <4>2
      <4>4. roots'[n] + dropped'[n] = a
        BY <1>6, <4>1
      <4>5. QED
        BY <4>1, <4>3, <4>4
    <3>4. QED
      BY <2>3, <3>2, <3>3
  <2>8. QED
    BY <2>6, <2>7
<1>11. Placed'
  BY <1>10 DEF Placed, Counted
<1>12. QED
  BY <1>9, <1>11 DEF MerkleInv

\* A commit begins, by the timer or at shutdown.
LEMMA BeginsPlaced ==
    ASSUME MerkleInv, IsFiniteSet(Commits), MaxLeaves \in Nat, NEW c \in Commits,
           Merkle!CommitTimer(c) \/ Merkle!OnShutdown(c)
    PROVE  MerkleInv'
<1>1. MerkleTypes /\ Placed
  BY DEF MerkleInv
<1>2. PICK hashes : hashes = pending
  OBVIOUS
<1>3. hashes \in Seq(Hashes) /\ call[c].at = "idle" /\ Merkle!Begins(c, hashes) /\ UNCHANGED <<leaves, roots, dropped>>
  BY <1>1, <1>2 DEF MerkleTypes, Merkle!CommitTimer, Merkle!OnShutdown
<1>4. /\ pending' \in Seq(Hashes)
      /\ call' \in [Commits -> [at : {"idle", "verify", "sign"}, batch : Seq(Hashes)]]
      /\ \A d \in Commits : call'[d].at # "sign" => call'[d].batch = <<>>
      /\ \A n : /\ Counted(pending', n) + Batched(n)' = Counted(hashes, n) + Batched(n)
                /\ Batched(n)' \in Nat
  BY <1>1, <1>3, BeginsMoves
<1>5. MerkleTypes'
  BY <1>1, <1>3, <1>4 DEF MerkleTypes
<1>6. ASSUME NEW n \in 1 .. MaxLeaves
      PROVE  (roots'[n] + dropped'[n]) + Counted(pending', n) + Batched(n)' = IF n <= Len(leaves') THEN 1 ELSE 0
  <2>1. (roots[n] + dropped[n]) + Counted(pending, n) + Batched(n) = IF n <= Len(leaves) THEN 1 ELSE 0
    BY <1>1 DEF Placed
  <2>2. /\ roots[n] \in Nat /\ dropped[n] \in Nat /\ Counted(pending, n) \in Nat /\ Batched(n) \in Nat
        /\ Counted(pending', n) \in Nat /\ Batched(n)' \in Nat
    BY <1>1, <1>2, <1>3, <1>4, BatchedType, CountType DEF MerkleTypes
  <2>3. Counted(pending', n) + Batched(n)' = Counted(pending, n) + Batched(n)
    BY <1>2, <1>4
  <2>4. QED
    BY <1>3, <2>1, <2>2, <2>3
<1>7. Placed'
  BY <1>6 DEF Placed, Counted
<1>8. QED
  BY <1>5, <1>7 DEF MerkleInv

\* A commit takes the waiting hashes, gives them up, logs them or puts them back.
LEMMA CommitPlaced ==
    ASSUME MerkleInv, IsFiniteSet(Commits), MaxLeaves \in Nat, NEW c \in Commits,
           \/ Merkle!IntegrityVerified(c) \/ Merkle!IntegrityFails(c)
           \/ Merkle!RootLogged(c) \/ Merkle!CommitFails(c)
    PROVE  MerkleInv'
<1>1. MerkleTypes /\ Placed
  BY DEF MerkleInv
<1>2. /\ leaves \in Seq(Hashes) /\ pending \in Seq(Hashes) /\ Len(leaves) <= MaxLeaves
      /\ roots \in [1 .. MaxLeaves -> Nat] /\ dropped \in [1 .. MaxLeaves -> Nat]
      /\ call \in [Commits -> [at : {"idle", "verify", "sign"}, batch : Seq(Hashes)]]
      /\ \A d \in Commits : call[d].at # "sign" => call[d].batch = <<>>
  BY <1>1 DEF MerkleTypes
<1>3. PICK batch : batch = call[c].batch
  OBVIOUS
<1>4. batch \in Seq(Hashes) /\ (call[c].at # "sign" => batch = <<>>)
  BY <1>2, <1>3
<1>5. PICK r : r = IF Merkle!IntegrityVerified(c) THEN [at |-> "sign", batch |-> pending] ELSE Merkle!Resting
  OBVIOUS
<1>6. /\ r \in [at : {"idle", "verify", "sign"}, batch : Seq(Hashes)]
      /\ r.at # "sign" => r.batch = <<>>
      /\ call' = [call EXCEPT ![c] = r] /\ UNCHANGED leaves
  <2>1. CASE Merkle!IntegrityVerified(c)
    BY <1>2, <1>5, <2>1 DEF Merkle!IntegrityVerified, Merkle!Taken
  <2>2. CASE ~Merkle!IntegrityVerified(c)
    <3>1. r = Merkle!Resting
      BY <1>5, <2>2
    <3>2. call' = [call EXCEPT ![c] = Merkle!Resting] /\ UNCHANGED leaves
      BY <2>2 DEF Merkle!IntegrityFails, Merkle!RootLogged, Merkle!CommitFails
    <3>3. QED
      BY <3>1, <3>2 DEF Merkle!Resting
  <2>3. QED
    BY <2>1, <2>2
<1>7. \A n : /\ Batched(n)' + Counted(batch, n) = Batched(n) + Counted(r.batch, n)
             /\ Batched(n) \in Nat /\ Batched(n)' \in Nat
  BY <1>1, <1>3, <1>6, BatchMoves
<1>8. /\ pending' \in Seq(Hashes) /\ roots' \in [1 .. MaxLeaves -> Nat] /\ dropped' \in [1 .. MaxLeaves -> Nat]
      /\ \A n \in 1 .. MaxLeaves : (roots'[n] + dropped'[n]) + Counted(pending', n) + Counted(r.batch, n)
                                 = (roots[n] + dropped[n]) + Counted(pending, n) + Counted(batch, n)
  <2>1. \A n : Counted(<<>>, n) = 0 /\ Counted(pending, n) \in Nat /\ Counted(batch, n) \in Nat
    BY <1>2, <1>4, CountEmpty, CountType
  <2>2. \A n \in 1 .. MaxLeaves : roots[n] \in Nat /\ dropped[n] \in Nat
    BY <1>2
  <2>3. CASE Merkle!IntegrityVerified(c)
    <3>1. pending' = <<>> /\ UNCHANGED <<roots, dropped>> /\ batch = <<>>
      BY <1>4, <2>3 DEF Merkle!IntegrityVerified, Merkle!Taken
    <3>2. r.batch = pending
      BY <1>5, <2>3
    <3>3. QED
      BY <1>2, <2>1, <2>2, <3>1, <3>2
  <2>4. CASE ~Merkle!IntegrityVerified(c)
    <3>1. r.batch = <<>>
      BY <1>5, <2>4 DEF Merkle!Resting
    <3>2. CASE Merkle!IntegrityFails(c)
      <4>1. UNCHANGED <<pending, roots, dropped>> /\ batch = <<>>
        BY <1>4, <3>2 DEF Merkle!IntegrityFails
      <4>2. QED
        BY <1>2, <3>1, <4>1
    <3>3. CASE Merkle!RootLogged(c)
      <4>1. /\ pending' = pending
            /\ \/ roots' = Merkle!Covering(roots, batch) /\ dropped' = dropped
               \/ dropped' = Merkle!Covering(dropped, batch) /\ roots' = roots
        BY <1>3, <3>3 DEF Merkle!RootLogged
      <4>2. \A n : Merkle!Times(batch, n) = Counted(batch, n)
        BY <1>4, CountTimes
      <4>3. ASSUME NEW f \in [1 .. MaxLeaves -> Nat]
            PROVE  /\ Merkle!Covering(f, batch) \in [1 .. MaxLeaves -> Nat]
                   /\ \A n \in 1 .. MaxLeaves : Merkle!Covering(f, batch)[n] = f[n] + Counted(batch, n)
        BY <2>1, <4>2 DEF Merkle!Covering
      <4>4. /\ roots' \in [1 .. MaxLeaves -> Nat] /\ dropped' \in [1 .. MaxLeaves -> Nat]
            /\ \/ \A n \in 1 .. MaxLeaves : roots'[n] = roots[n] + Counted(batch, n) /\ dropped'[n] = dropped[n]
               \/ \A n \in 1 .. MaxLeaves : dropped'[n] = dropped[n] + Counted(batch, n) /\ roots'[n] = roots[n]
        <5>1. CASE roots' = Merkle!Covering(roots, batch) /\ dropped' = dropped
          BY <1>2, <4>3, <5>1
        <5>2. CASE dropped' = Merkle!Covering(dropped, batch) /\ roots' = roots
          BY <1>2, <4>3, <5>2
        <5>3. QED
          BY <4>1, <5>1, <5>2
      <4>5. ASSUME NEW n \in 1 .. MaxLeaves
            PROVE  (roots'[n] + dropped'[n]) + Counted(pending', n) + Counted(r.batch, n)
                 = (roots[n] + dropped[n]) + Counted(pending, n) + Counted(batch, n)
        <5>1. /\ Counted(pending', n) = Counted(pending, n) /\ Counted(r.batch, n) = 0
              /\ roots[n] \in Nat /\ dropped[n] \in Nat
              /\ Counted(pending, n) \in Nat /\ Counted(batch, n) \in Nat
          BY <2>1, <2>2, <3>1, <4>1
        <5>2. \/ roots'[n] = roots[n] + Counted(batch, n) /\ dropped'[n] = dropped[n]
              \/ dropped'[n] = dropped[n] + Counted(batch, n) /\ roots'[n] = roots[n]
          BY <4>4
        <5>3. QED
          BY <5>1, <5>2
      <4>6. QED
        BY <1>2, <4>1, <4>4, <4>5
    <3>4. CASE Merkle!CommitFails(c)
      <4>1. pending' = batch \o pending /\ UNCHANGED <<roots, dropped>>
        BY <1>3, <3>4 DEF Merkle!CommitFails
      <4>2. \A n : Counted(batch \o pending, n) = Counted(batch, n) + Counted(pending, n)
        BY <1>2, <1>4, CountConcat
      <4>3. pending' \in Seq(Hashes)
        BY <1>2, <1>4, <4>1
      <4>4. ASSUME NEW n \in 1 .. MaxLeaves
            PROVE  (roots'[n] + dropped'[n]) + Counted(pending', n) + Counted(r.batch, n)
                 = (roots[n] + dropped[n]) + Counted(pending, n) + Counted(batch, n)
        <5>1. /\ Counted(pending', n) = Counted(batch, n) + Counted(pending, n)
              /\ Counted(r.batch, n) = 0 /\ roots'[n] = roots[n] /\ dropped'[n] = dropped[n] /\ roots[n] \in Nat /\ dropped[n] \in Nat
              /\ Counted(pending, n) \in Nat /\ Counted(batch, n) \in Nat
          BY <2>1, <2>2, <3>1, <4>1, <4>2
        <5>2. QED
          BY <5>1
      <4>5. QED
        BY <1>2, <4>1, <4>3, <4>4
    <3>5. QED
      BY <2>4, <3>2, <3>3, <3>4
  <2>5. QED
    BY <2>3, <2>4
<1>9. MerkleTypes'
  BY <1>2, <1>6, <1>8 DEF MerkleTypes
<1>10. ASSUME NEW n \in 1 .. MaxLeaves
       PROVE  (roots'[n] + dropped'[n]) + Counted(pending', n) + Batched(n)' = IF n <= Len(leaves') THEN 1 ELSE 0
  <2>1. (roots[n] + dropped[n]) + Counted(pending, n) + Batched(n) = IF n <= Len(leaves) THEN 1 ELSE 0
    BY <1>1 DEF Placed
  <2>2. /\ roots[n] \in Nat /\ dropped[n] \in Nat /\ Counted(pending, n) \in Nat /\ Counted(batch, n) \in Nat
        /\ roots'[n] \in Nat /\ dropped'[n] \in Nat /\ Counted(pending', n) \in Nat /\ Counted(r.batch, n) \in Nat
    BY <1>2, <1>4, <1>6, <1>8, CountType
  <2>3. /\ (roots'[n] + dropped'[n]) + Counted(pending', n) + Counted(r.batch, n)
             = (roots[n] + dropped[n]) + Counted(pending, n) + Counted(batch, n)
        /\ Batched(n)' + Counted(batch, n) = Batched(n) + Counted(r.batch, n)
        /\ Batched(n) \in Nat /\ Batched(n)' \in Nat
    BY <1>7, <1>8
  <2>4. (roots'[n] + dropped'[n]) + Counted(pending', n) + Batched(n)' = (roots[n] + dropped[n]) + Counted(pending, n) + Batched(n)
    <3>1. PICK a, b, x, y : /\ a = roots[n] + dropped[n] + Counted(pending, n) /\ b = Batched(n)
                            /\ x = roots'[n] + dropped'[n] + Counted(pending', n) /\ y = Batched(n)'
      OBVIOUS
    <3>2. PICK p, q : p = Counted(batch, n) /\ q = Counted(r.batch, n)
      OBVIOUS
    <3>3. a \in Nat /\ b \in Nat /\ x \in Nat /\ y \in Nat /\ p \in Nat /\ q \in Nat
      BY <2>2, <2>3, <3>1, <3>2
    <3>4. x + q = a + p /\ y + p = b + q
      BY <2>3, <3>1, <3>2
    <3>5. x + y = a + b
      BY <3>3, <3>4
    <3>6. QED
      BY <3>1, <3>5
  <2>5. QED
    BY <1>6, <2>1, <2>4
<1>11. Placed'
  BY <1>10 DEF Placed, Counted
<1>12. QED
  BY <1>9, <1>11 DEF MerkleInv

LEMMA MerkleStays ==
    ASSUME MerkleInv, UNCHANGED Merkle!vars PROVE MerkleInv'
<1>1. UNCHANGED <<leaves, pending, call, roots, dropped>>
  BY DEF Merkle!vars
<1>2. \A n : Batched(n)' = Batched(n)
  BY <1>1, BatchedStays
<1>3. MerkleTypes'
  BY <1>1 DEF MerkleInv, MerkleTypes
<1>4. Placed'
  BY <1>1, <1>2 DEF MerkleInv, Placed, Counted
<1>5. QED
  BY <1>3, <1>4 DEF MerkleInv

LEMMA MerkleStep ==
    ASSUME MerkleInv, IsFiniteSet(Commits), MaxLeaves \in Nat, [Merkle!Next]_Merkle!vars
    PROVE  MerkleInv'
  BY LeafPlaced, BeginsPlaced, CommitPlaced, MerkleStays DEF Merkle!Next

LEMMA PlacedCovers ==
    ASSUME MerkleInv, IsFiniteSet(Commits), MaxLeaves \in Nat PROVE Merkle!RootsCover
<1>1. SUFFICES ASSUME NEW n \in DOMAIN leaves
               PROVE  (roots[n] + dropped[n]) + Merkle!Times(pending, n) + InBatches(n) = 1
  BY DEF Merkle!RootsCover, InBatches
<1>2. MerkleTypes /\ Placed
  BY DEF MerkleInv
<1>3. n \in 1 .. MaxLeaves /\ n <= Len(leaves) /\ pending \in Seq(Hashes)
  BY <1>1, <1>2 DEF MerkleTypes
<1>4. Merkle!Times(pending, n) = Counted(pending, n) /\ InBatches(n) = Batched(n)
  BY <1>2, <1>3, CountTimes, BatchSum
<1>5. QED
  BY <1>2, <1>3, <1>4 DEF Placed

\* Every hash of the session waits, is being committed, or is under exactly
\* one root, logged or dropped by a saturated queue, however many commits
\* overlap, fail and put their hashes back (commitMerkleRoot, logEvent), for
\* every number of events and every limit.
THEOREM RootsCoverOnce == Merkle!Spec => []RootsCover
<1> USE StructuresAssumption
<1>1. Merkle!Init => MerkleInv
  BY MerkleInit
<1>2. MerkleInv /\ [Merkle!Next]_Merkle!vars => MerkleInv'
  BY MerkleStep
<1>3. MerkleInv => RootsCover
  BY PlacedCovers DEF RootsCover
<1>4. QED
  BY <1>1, <1>2, <1>3, PTL DEF Merkle!Spec

-----------------------------------------------------------------------------
(* The Merkle trees themselves, for every number of leaves.  The recursive *)
(* functions that define them exist because each extends a shorter one; a  *)
(* tree over hashes is then described by its levels, each above the other  *)
(* down to a single root, and there is only one.  Adding a leaf changes    *)
(* the nodes on the path of the leaf, which are the last ones of their     *)
(* levels, and a proof carries the other child of every node on a path.    *)

\* Numbers with a property that goes from each to the next.
LEMMA UpTo ==
    ASSUME NEW n \in Nat, NEW S, 1 \in S, \A k \in 1 .. n - 1 : k \in S => k + 1 \in S
    PROVE  \A k \in 1 .. n : k \in S
<1>1. PICK T : T = {k \in 1 .. n : k \notin S}
  OBVIOUS
<1>2. SUFFICES ASSUME T # {} PROVE FALSE
  BY <1>1
<1>3. T \subseteq Nat
  BY <1>1
<1>4. PICK k \in T : \A j \in T : k <= j
  BY <1>2, <1>3, LeastNat
<1>5. k \in 1 .. n /\ k \notin S /\ k # 1
  BY <1>1, <1>4
<1>6. k - 1 \in 1 .. n - 1 /\ k - 1 \in 1 .. n
  BY <1>5
<1>7. k - 1 \in S
  BY <1>1, <1>4, <1>5, <1>6
<1>8. (k - 1) + 1 \in S
  BY <1>6, <1>7
<1>9. QED
  BY <1>5, <1>8

LEMMA LenOf ==
    ASSUME NEW n \in Nat, NEW s, s = [i \in 1 .. n |-> s[i]]
    PROVE  Len(s) = n /\ DOMAIN s = 1 .. n
  OBVIOUS

-----------------------------------------------------------------------------
(* The recursive functions of the trees exist.                             *)

IsPath(f, i, n) == f = [k \in 1 .. n |-> IF k = 1 THEN i ELSE (f[k - 1] + 1) \div 2]

LEMMA PathExists == ASSUME NEW i, NEW n \in Nat PROVE \E f : IsPath(f, i, n)
<1>1. PICK T : T = {m \in Nat : ~\E f : IsPath(f, i, m)}
  OBVIOUS
<1>2. SUFFICES ASSUME T # {} PROVE FALSE
  BY <1>1
<1>3. PICK m \in T : \A j \in T : m <= j
  BY <1>1, <1>2, LeastNat
<1>4. m \in Nat /\ ~\E f : IsPath(f, i, m)
  BY <1>1, <1>3
<1>5. CASE m = 0
  <2>1. PICK f : f = [k \in 1 .. m |-> i]
    OBVIOUS
  <2>2. IsPath(f, i, m)
    BY <1>5, <2>1 DEF IsPath
  <2>3. QED
    BY <1>4, <2>2
<1>6. CASE m # 0
  <2>1. m - 1 \in Nat /\ m - 1 \notin T
    BY <1>3, <1>4, <1>6
  <2>2. PICK g : IsPath(g, i, m - 1)
    BY <1>1, <2>1
  <2>3. PICK f : f = [k \in 1 .. m |-> IF k = 1 THEN i ELSE (g[k - 1] + 1) \div 2]
    OBVIOUS
  <2>4. ASSUME NEW k \in 1 .. m - 1 PROVE f[k] = g[k]
    <3>1. k \in 1 .. m
      BY <1>4
    <3>2. QED
      BY <2>2, <2>3, <3>1 DEF IsPath
  <2>5. \A k \in 1 .. m : k = 1 \/ f[k - 1] = g[k - 1]
    BY <1>4, <2>4
  <2>6. IsPath(f, i, m)
    BY <2>3, <2>5 DEF IsPath
  <2>7. QED
    BY <1>4, <2>6
<1>7. QED
  BY <1>5, <1>6

LEMMA PathIs ==
    ASSUME NEW i \in Nat, NEW n \in Nat
    PROVE  /\ n > 0 => Merkle!Path(i, n)[1] = i
           /\ \A k \in 1 .. n - 1 : Merkle!Path(i, n)[k + 1] = (Merkle!Path(i, n)[k] + 1) \div 2
<1>1. PICK at : at = Merkle!Path(i, n)
  OBVIOUS
<1>2. IsPath(at, i, n)
  <2>1. at = CHOOSE f : IsPath(f, i, n)
    BY <1>1 DEF Merkle!Path, IsPath
  <2>2. QED
    BY <2>1, PathExists
<1>3. n > 0 => at[1] = i
  BY <1>2 DEF IsPath
<1>4. ASSUME NEW k \in 1 .. n - 1 PROVE at[k + 1] = (at[k] + 1) \div 2
  <2>1. k + 1 \in 1 .. n /\ k + 1 # 1 /\ (k + 1) - 1 = k
    OBVIOUS
  <2>2. QED
    BY <1>2, <2>1 DEF IsPath
<1>5. QED
  BY <1>1, <1>3, <1>4

IsLevels(f, h, n) ==
    f = [k \in 1 .. n |-> IF k = 1 THEN h ELSE Merkle!Above(f[k - 1])]

LEMMA LevelsExist == ASSUME NEW h, NEW n \in Nat PROVE \E f : IsLevels(f, h, n)
<1>1. PICK T : T = {m \in Nat : ~\E f : IsLevels(f, h, m)}
  OBVIOUS
<1>2. SUFFICES ASSUME T # {} PROVE FALSE
  BY <1>1
<1>3. PICK m \in T : \A j \in T : m <= j
  BY <1>1, <1>2, LeastNat
<1>4. m \in Nat /\ ~\E f : IsLevels(f, h, m)
  BY <1>1, <1>3
<1>5. CASE m = 0
  <2>1. PICK f : f = [k \in 1 .. m |-> h]
    OBVIOUS
  <2>2. IsLevels(f, h, m)
    BY <1>5, <2>1 DEF IsLevels
  <2>3. QED
    BY <1>4, <2>2
<1>6. CASE m # 0
  <2>1. m - 1 \in Nat /\ m - 1 \notin T
    BY <1>3, <1>4, <1>6
  <2>2. PICK g : IsLevels(g, h, m - 1)
    BY <1>1, <2>1
  <2>3. PICK f : f = [k \in 1 .. m |-> IF k = 1 THEN h ELSE Merkle!Above(g[k - 1])]
    OBVIOUS
  <2>4. ASSUME NEW k \in 1 .. m - 1 PROVE f[k] = g[k]
    <3>1. k \in 1 .. m
      BY <1>4
    <3>2. QED
      BY <2>2, <2>3, <3>1 DEF IsLevels
  <2>5. \A k \in 1 .. m : k = 1 \/ f[k - 1] = g[k - 1]
    BY <1>4, <2>4
  <2>6. IsLevels(f, h, m)
    BY <2>3, <2>5 DEF IsLevels
  <2>7. QED
    BY <1>4, <2>6
<1>7. QED
  BY <1>5, <1>6

LEMMA LevelsAre ==
    ASSUME NEW h, NEW n \in Nat
    PROVE  /\ n > 0 => Merkle!Levels(h, n)[1] = h
           /\ \A k \in 1 .. n - 1 : Merkle!Levels(h, n)[k + 1] = Merkle!Above(Merkle!Levels(h, n)[k])
<1>1. PICK row : row = Merkle!Levels(h, n)
  OBVIOUS
<1>2. IsLevels(row, h, n)
  <2>1. row = CHOOSE f : IsLevels(f, h, n)
    BY <1>1 DEF Merkle!Levels, IsLevels
  <2>2. QED
    BY <2>1, LevelsExist
<1>3. n > 0 => row[1] = h
  BY <1>2 DEF IsLevels
<1>4. ASSUME NEW k \in 1 .. n - 1 PROVE row[k + 1] = Merkle!Above(row[k])
  <2>1. k + 1 \in 1 .. n /\ k + 1 # 1 /\ (k + 1) - 1 = k
    OBVIOUS
  <2>2. QED
    BY <1>2, <2>1 DEF IsLevels
<1>5. QED
  BY <1>1, <1>3, <1>4

IsCarries(f, t, at, x, n) ==
    f = [k \in 1 .. n |-> IF k = 1 THEN x ELSE Merkle!Carried(t[k - 1], at[k - 1], f[k - 1])]

LEMMA CarriesExist == ASSUME NEW t, NEW at, NEW x, NEW n \in Nat PROVE \E f : IsCarries(f, t, at, x, n)
<1>1. PICK T : T = {m \in Nat : ~\E f : IsCarries(f, t, at, x, m)}
  OBVIOUS
<1>2. SUFFICES ASSUME T # {} PROVE FALSE
  BY <1>1
<1>3. PICK m \in T : \A j \in T : m <= j
  BY <1>1, <1>2, LeastNat
<1>4. m \in Nat /\ ~\E f : IsCarries(f, t, at, x, m)
  BY <1>1, <1>3
<1>5. CASE m = 0
  <2>1. PICK f : f = [k \in 1 .. m |-> x]
    OBVIOUS
  <2>2. IsCarries(f, t, at, x, m)
    BY <1>5, <2>1 DEF IsCarries
  <2>3. QED
    BY <1>4, <2>2
<1>6. CASE m # 0
  <2>1. m - 1 \in Nat /\ m - 1 \notin T
    BY <1>3, <1>4, <1>6
  <2>2. PICK g : IsCarries(g, t, at, x, m - 1)
    BY <1>1, <2>1
  <2>3. PICK f : f = [k \in 1 .. m |-> IF k = 1 THEN x ELSE Merkle!Carried(t[k - 1], at[k - 1], g[k - 1])]
    OBVIOUS
  <2>4. ASSUME NEW k \in 1 .. m - 1 PROVE f[k] = g[k]
    <3>1. k \in 1 .. m
      BY <1>4
    <3>2. QED
      BY <2>2, <2>3, <3>1 DEF IsCarries
  <2>5. \A k \in 1 .. m : k = 1 \/ f[k - 1] = g[k - 1]
    BY <1>4, <2>4
  <2>6. IsCarries(f, t, at, x, m)
    BY <2>3, <2>5 DEF IsCarries
  <2>7. QED
    BY <1>4, <2>6
<1>7. QED
  BY <1>5, <1>6

LEMMA CarriesAre ==
    ASSUME NEW t, NEW at, NEW x, Len(t) \in Nat \ {0}
    PROVE  /\ Merkle!Carries(t, at, x)[1] = x
           /\ \A k \in 1 .. Len(t) - 1 :
                Merkle!Carries(t, at, x)[k + 1] = Merkle!Carried(t[k], at[k], Merkle!Carries(t, at, x)[k])
<1>1. PICK hash, n : hash = Merkle!Carries(t, at, x) /\ n = Len(t)
  OBVIOUS
<1>2. IsCarries(hash, t, at, x, n)
  <2>1. hash = CHOOSE f : IsCarries(f, t, at, x, n)
    BY <1>1 DEF Merkle!Carries, IsCarries
  <2>2. QED
    BY <1>1, <2>1, CarriesExist
<1>3. hash[1] = x
  BY <1>1, <1>2 DEF IsCarries
<1>4. ASSUME NEW k \in 1 .. n - 1 PROVE hash[k + 1] = Merkle!Carried(t[k], at[k], hash[k])
  <2>1. k + 1 \in 1 .. n /\ k + 1 # 1 /\ (k + 1) - 1 = k
    BY <1>1
  <2>2. QED
    BY <1>2, <2>1 DEF IsCarries
<1>5. QED
  BY <1>1, <1>3, <1>4

IsClimb(f, v, at, proof, n) ==
    f = [k \in 1 .. n |-> IF k = 1 THEN v ELSE (IF at[k - 1] % 2 = 0 THEN Merkle!HashPair(proof[k - 1], f[k - 1])
            ELSE Merkle!HashPair(f[k - 1], proof[k - 1]))]

LEMMA ClimbExist == ASSUME NEW v, NEW at, NEW proof, NEW n \in Nat PROVE \E f : IsClimb(f, v, at, proof, n)
<1>1. PICK T : T = {m \in Nat : ~\E f : IsClimb(f, v, at, proof, m)}
  OBVIOUS
<1>2. SUFFICES ASSUME T # {} PROVE FALSE
  BY <1>1
<1>3. PICK m \in T : \A j \in T : m <= j
  BY <1>1, <1>2, LeastNat
<1>4. m \in Nat /\ ~\E f : IsClimb(f, v, at, proof, m)
  BY <1>1, <1>3
<1>5. CASE m = 0
  <2>1. PICK f : f = [k \in 1 .. m |-> v]
    OBVIOUS
  <2>2. IsClimb(f, v, at, proof, m)
    BY <1>5, <2>1 DEF IsClimb
  <2>3. QED
    BY <1>4, <2>2
<1>6. CASE m # 0
  <2>1. m - 1 \in Nat /\ m - 1 \notin T
    BY <1>3, <1>4, <1>6
  <2>2. PICK g : IsClimb(g, v, at, proof, m - 1)
    BY <1>1, <2>1
  <2>3. PICK f : f = [k \in 1 .. m |-> IF k = 1 THEN v ELSE (IF at[k - 1] % 2 = 0 THEN Merkle!HashPair(proof[k - 1], g[k - 1])
            ELSE Merkle!HashPair(g[k - 1], proof[k - 1]))]
    OBVIOUS
  <2>4. ASSUME NEW k \in 1 .. m - 1 PROVE f[k] = g[k]
    <3>1. k \in 1 .. m
      BY <1>4
    <3>2. QED
      BY <2>2, <2>3, <3>1 DEF IsClimb
  <2>5. \A k \in 1 .. m : k = 1 \/ f[k - 1] = g[k - 1]
    BY <1>4, <2>4
  <2>6. IsClimb(f, v, at, proof, m)
    BY <2>3, <2>5 DEF IsClimb
  <2>7. QED
    BY <1>4, <2>6
<1>7. QED
  BY <1>5, <1>6

LEMMA ClimbIs ==
    ASSUME NEW v, NEW at, NEW proof, Len(proof) \in Nat
    PROVE  /\ Merkle!Climb(v, at, proof)[1] = v
           /\ \A k \in 1 .. Len(proof) :
                Merkle!Climb(v, at, proof)[k + 1] =
                  IF at[k] % 2 = 0 THEN Merkle!HashPair(proof[k], Merkle!Climb(v, at, proof)[k])
                  ELSE Merkle!HashPair(Merkle!Climb(v, at, proof)[k], proof[k])
<1>1. PICK hash, n : hash = Merkle!Climb(v, at, proof) /\ n = Len(proof) + 1
  OBVIOUS
<1>2. IsClimb(hash, v, at, proof, n)
  <2>1. hash = CHOOSE f : IsClimb(f, v, at, proof, n)
    BY <1>1 DEF Merkle!Climb, IsClimb
  <2>2. QED
    BY <1>1, <2>1, ClimbExist
<1>3. hash[1] = v
  BY <1>1, <1>2 DEF IsClimb
<1>4. ASSUME NEW k \in 1 .. Len(proof)
      PROVE  hash[k + 1] = IF at[k] % 2 = 0 THEN Merkle!HashPair(proof[k], hash[k])
                           ELSE Merkle!HashPair(hash[k], proof[k])
  <2>1. k + 1 \in 1 .. n /\ k + 1 # 1 /\ (k + 1) - 1 = k
    BY <1>1
  <2>2. QED
    BY <1>2, <2>1 DEF IsClimb
<1>5. QED
  BY <1>1, <1>3, <1>4

-----------------------------------------------------------------------------
(* What a tree over hashes is.                                             *)

IsList(s) == Len(s) \in Nat /\ s = [i \in 1 .. Len(s) |-> s[i]]

Half(n) == (n + 1) \div 2

IsTree(h, t) ==
    /\ IsList(t) /\ Len(t) > 0 /\ t[1] = h
    /\ \A k \in 1 .. Len(t) - 1 : t[k + 1] = Merkle!Above(t[k]) /\ Len(t[k]) > 1
    /\ Len(t[Len(t)]) = 1

LEMMA HalfIs ==
    ASSUME NEW n \in Nat
    PROVE  /\ Half(n) \in Nat /\ (2 * Half(n) = n \/ 2 * Half(n) = n + 1)
           /\ n % 2 = 0 => 2 * Half(n) = n
           /\ n % 2 # 0 => 2 * Half(n) = n + 1
  BY DEF Half

LEMMA AboveIs ==
    ASSUME NEW s, Len(s) \in Nat
    PROVE  /\ IsList(Merkle!Above(s)) /\ Len(Merkle!Above(s)) = Half(Len(s))
           /\ \A i \in 1 .. Half(Len(s)) :
                Merkle!Above(s)[i] =
                  << s[2 * i - 1], IF 2 * i <= Len(s) THEN s[2 * i] ELSE s[2 * i - 1] >>
<1>1. PICK n, a : n = Half(Len(s)) /\ a = Merkle!Above(s)
  OBVIOUS
<1>2. a = [i \in 1 .. n |-> << s[2 * i - 1], IF 2 * i <= Len(s) THEN s[2 * i] ELSE s[2 * i - 1] >>]
  BY <1>1 DEF Half, Merkle!Above, Merkle!HashPair
<1>3. n \in Nat
  BY <1>1, HalfIs
<1>4. a = [i \in 1 .. n |-> a[i]]
  BY <1>2
<1>5. Len(a) = n
  BY <1>3, <1>4, LenOf
<1>6. IsList(a)
  BY <1>3, <1>4, <1>5 DEF IsList
<1>7. QED
  BY <1>1, <1>2, <1>5, <1>6

LEMMA TreeLevels ==
    ASSUME NEW h, IsList(h), NEW t, IsTree(h, t)
    PROVE  \A k \in 1 .. Len(t) : IsList(t[k]) /\ Len(t[k]) \in Nat \ {0}
<1>1. PICK n : n = Len(t)
  OBVIOUS
<1>2. n \in Nat \ {0} /\ t[1] = h /\ \A k \in 1 .. n - 1 : t[k + 1] = Merkle!Above(t[k]) /\ Len(t[k]) > 1
  BY <1>1 DEF IsTree, IsList
<1>3. PICK S : S = {k \in 1 .. n : IsList(t[k])}
  OBVIOUS
<1>4. 1 \in S
  BY <1>2, <1>3
<1>5. \A k \in 1 .. n - 1 : k \in S => k + 1 \in S
  <2>1. SUFFICES ASSUME NEW k \in 1 .. n - 1, k \in S PROVE k + 1 \in S
    OBVIOUS
  <2>2. IsList(Merkle!Above(t[k]))
    BY <1>3, <2>1, AboveIs DEF IsList
  <2>3. IsList(t[k + 1])
    BY <1>2, <2>2
  <2>4. QED
    BY <1>2, <1>3, <2>3
<1>6. \A k \in 1 .. n : k \in S
  BY <1>2, <1>4, <1>5, UpTo
<1>7. ASSUME NEW k \in 1 .. n PROVE IsList(t[k]) /\ Len(t[k]) \in Nat \ {0}
  <2>1. IsList(t[k]) /\ Len(t[k]) \in Nat
    BY <1>3, <1>6 DEF IsList
  <2>2. Len(t[k]) # 0
    <3>1. CASE k = n
      <4>1. Len(t[k]) = 1
        BY <1>1, <3>1 DEF IsTree
      <4>2. QED
        BY <4>1
    <3>2. CASE k # n
      <4>1. k \in 1 .. n - 1
        BY <1>2, <3>2
      <4>2. QED
        BY <1>2, <2>1, <4>1
    <3>3. QED
      BY <3>1, <3>2
  <2>3. QED
    BY <2>1, <2>2
<1>8. QED
  BY <1>1, <1>7

\* There is one tree over the hashes.
LEMMA OneTree ==
    ASSUME NEW h, IsList(h), NEW t, IsTree(h, t), NEW u, IsTree(h, u)
    PROVE  t = u
<1>1. PICK m, n : m = Len(t) /\ n = Len(u)
  OBVIOUS
<1>2. /\ m \in Nat \ {0} /\ n \in Nat \ {0} /\ t[1] = u[1]
      /\ t = [k \in 1 .. m |-> t[k]] /\ u = [k \in 1 .. n |-> u[k]]
      /\ \A k \in 1 .. m - 1 : t[k + 1] = Merkle!Above(t[k]) /\ Len(t[k]) > 1
      /\ \A k \in 1 .. n - 1 : u[k + 1] = Merkle!Above(u[k]) /\ Len(u[k]) > 1
      /\ Len(t[m]) = 1 /\ Len(u[n]) = 1
  BY <1>1 DEF IsTree, IsList
<1>3. PICK S : S = {k \in Nat : k <= m /\ k <= n => t[k] = u[k]}
  OBVIOUS
<1>4. 1 \in S
  BY <1>2, <1>3
<1>5. \A k \in 1 .. m - 1 : k \in S => k + 1 \in S
  <2>1. SUFFICES ASSUME NEW k \in 1 .. m - 1, k \in S, k + 1 <= n PROVE t[k + 1] = u[k + 1]
    BY <1>3
  <2>2. k \in 1 .. n - 1 /\ k <= m /\ k <= n
    BY <1>2, <2>1
  <2>3. t[k] = u[k]
    BY <1>3, <2>1, <2>2
  <2>4. QED
    BY <1>2, <2>1, <2>2, <2>3
<1>6. \A k \in 1 .. m : k \in S
  BY <1>2, <1>4, <1>5, UpTo
<1>7. m = n
  <2>1. CASE m < n
    <3>1. t[m] = u[m] /\ m \in 1 .. n - 1
      BY <1>2, <1>3, <1>6, <2>1
    <3>2. Len(t[m]) = 1 /\ Len(t[m]) > 1
      BY <1>2, <3>1
    <3>3. PICK a : a = Len(t[m])
      OBVIOUS
    <3>4. QED
      BY <3>2, <3>3
  <2>2. CASE n < m
    <3>1. n \in Nat /\ n <= m /\ n \in 1 .. m /\ n \in 1 .. m - 1
      BY <1>2, <2>2
    <3>2. t[n] = u[n]
      BY <1>3, <1>6, <3>1
    <3>3. Len(u[n]) = 1 /\ Len(u[n]) > 1
      BY <1>2, <3>1, <3>2
    <3>4. PICK a : a = Len(u[n])
      OBVIOUS
    <3>5. QED
      BY <3>3, <3>4
  <2>3. QED
    BY <1>2, <2>1, <2>2
<1>8. \A k \in 1 .. m : t[k] = u[k]
  BY <1>2, <1>3, <1>6, <1>7
<1>9. QED
  BY <1>2, <1>7, <1>8

\* Levels shrink, down to one hash.
LEMMA LevelsShrink ==
    ASSUME NEW h, IsList(h), NEW n, n = Len(h), n # 0, NEW row, row = Merkle!Levels(h, n)
    PROVE  \A k \in 1 .. n : /\ IsList(row[k]) /\ Len(row[k]) \in Nat \ {0}
                             /\ Len(row[k]) = 1 \/ Len(row[k]) <= n - k + 1
<1>1. n \in Nat /\ row[1] = h /\ \A k \in 1 .. n - 1 : row[k + 1] = Merkle!Above(row[k])
  <2>1. n \in Nat /\ n > 0
    BY DEF IsList
  <2>2. QED
    BY <2>1, LevelsAre
<1>2. PICK S : S = {k \in 1 .. n : /\ IsList(row[k]) /\ Len(row[k]) \in Nat \ {0}
                                   /\ Len(row[k]) = 1 \/ Len(row[k]) <= n - k + 1}
  OBVIOUS
<1>3. 1 \in S
  BY <1>1, <1>2
<1>4. \A k \in 1 .. n - 1 : k \in S => k + 1 \in S
  <2>1. SUFFICES ASSUME NEW k \in 1 .. n - 1, k \in S PROVE k + 1 \in S
    OBVIOUS
  <2>2. PICK a, b : a = Len(row[k]) /\ b = Len(row[k + 1])
    OBVIOUS
  <2>3. a \in Nat \ {0} /\ (a = 1 \/ a <= n - k + 1)
    BY <1>2, <2>1, <2>2
  <2>4. IsList(row[k + 1]) /\ b = Half(a)
    BY <1>1, <2>1, <2>2, <2>3, AboveIs
  <2>5. b \in Nat /\ (2 * b = a \/ 2 * b = a + 1)
    BY <2>3, <2>4, HalfIs
  <2>6. b # 0 /\ (b = 1 \/ b <= n - (k + 1) + 1)
    BY <1>1, <2>3, <2>5
  <2>7. k + 1 \in 1 .. n
    BY <1>1
  <2>8. QED
    BY <1>2, <2>2, <2>4, <2>5, <2>6, <2>7
<1>5. \A k \in 1 .. n : k \in S
  BY <1>1, <1>3, <1>4, UpTo
<1>6. QED
  BY <1>2, <1>5

LEMMA BuiltTree ==
    ASSUME NEW h, IsList(h), h # <<>>
    PROVE  IsTree(h, Merkle!BuildTree(h))
<1>1. PICK n, row : n = Len(h) /\ row = Merkle!Levels(h, n)
  OBVIOUS
<1>2. n \in Nat \ {0}
  <2>1. n \in Nat
    BY <1>1 DEF IsList
  <2>2. n # 0
    <3>1. SUFFICES ASSUME n = 0 PROVE FALSE
      OBVIOUS
    <3>2. h = [i \in 1 .. 0 |-> h[i]]
      BY <1>1, <3>1 DEF IsList
    <3>3. QED
      BY <3>2
  <2>3. QED
    BY <2>1, <2>2
<1>3. row[1] = h /\ \A k \in 1 .. n - 1 : row[k + 1] = Merkle!Above(row[k])
  <2>1. n \in Nat /\ n > 0
    BY <1>2
  <2>2. QED
    BY <1>1, <2>1, LevelsAre
<1>4. \A k \in 1 .. n : /\ IsList(row[k]) /\ Len(row[k]) \in Nat \ {0}
                        /\ Len(row[k]) = 1 \/ Len(row[k]) <= n - k + 1
  BY <1>1, <1>2, LevelsShrink
<1>5. PICK T : T = {k \in 1 .. n : Len(row[k]) = 1}
  OBVIOUS
<1>6. n \in T
  <2>1. n \in 1 .. n
    BY <1>2
  <2>2. Len(row[n]) \in Nat \ {0} /\ (Len(row[n]) = 1 \/ Len(row[n]) <= n - n + 1)
    BY <1>4, <2>1
  <2>3. PICK a : a = Len(row[n])
    OBVIOUS
  <2>4. a \in Nat \ {0} /\ (a = 1 \/ a <= n - n + 1)
    BY <2>2, <2>3
  <2>5. a = 1
    BY <1>2, <2>4
  <2>6. QED
    BY <1>5, <2>1, <2>3, <2>5
<1>7. PICK m \in T : \A j \in T : m <= j
  <2>1. T \subseteq Nat
    BY <1>5
  <2>2. QED
    BY <1>6, <2>1, LeastNat
<1>8. m \in 1 .. n /\ Len(row[m]) = 1
  BY <1>5, <1>7
<1>9. \A j \in 1 .. m - 1 : Len(row[j]) > 1
  <2>1. SUFFICES ASSUME NEW j \in 1 .. m - 1 PROVE Len(row[j]) > 1
    OBVIOUS
  <2>2. j \in 1 .. n /\ j \notin T
    BY <1>2, <1>7, <1>8
  <2>3. Len(row[j]) \in Nat \ {0} /\ Len(row[j]) # 1
    BY <1>4, <1>5, <2>2
  <2>4. PICK a : a = Len(row[j])
    OBVIOUS
  <2>5. a \in Nat \ {0} /\ a # 1
    BY <2>3, <2>4
  <2>6. a > 1
    BY <2>5
  <2>7. QED
    BY <2>4, <2>6
<1>10. PICK height : height = CHOOSE k \in 1 .. n :
                         Len(row[k]) = 1 /\ \A j \in 1 .. k - 1 : Len(row[j]) > 1
  OBVIOUS
<1>11. /\ height \in 1 .. n /\ Len(row[height]) = 1
       /\ \A j \in 1 .. height - 1 : Len(row[j]) > 1
  BY <1>8, <1>9, <1>10
<1>12. PICK t : t = Merkle!BuildTree(h)
  OBVIOUS
<1>13. t = [k \in 1 .. height |-> row[k]]
  BY <1>1, <1>10, <1>12 DEF Merkle!BuildTree
<1>14. t = [k \in 1 .. height |-> t[k]]
  BY <1>13
<1>15. Len(t) = height /\ height \in Nat \ {0}
  BY <1>2, <1>11, <1>14, LenOf
<1>16. IsList(t) /\ t[1] = h /\ Len(t[Len(t)]) = 1
  BY <1>3, <1>11, <1>13, <1>14, <1>15 DEF IsList
<1>17. ASSUME NEW k \in 1 .. height - 1 PROVE t[k + 1] = Merkle!Above(t[k]) /\ Len(t[k]) > 1
  <2>1. k \in 1 .. n - 1 /\ k \in 1 .. height /\ k + 1 \in 1 .. height
    BY <1>2, <1>11, <1>15
  <2>2. t[k] = row[k] /\ t[k + 1] = row[k + 1]
    BY <1>13, <2>1
  <2>3. QED
    BY <1>3, <1>11, <2>1, <2>2
<1>18. IsTree(h, t)
  BY <1>15, <1>16, <1>17 DEF IsTree
<1>19. QED
  BY <1>12, <1>18

-----------------------------------------------------------------------------
(* A proof proves the leaf at its place and no other hash there.           *)

LEMMA PathInside ==
    ASSUME NEW h, IsList(h), NEW t, IsTree(h, t), NEW i \in 1 .. Len(h),
           NEW at, at = Merkle!Path(i, Len(t))
    PROVE  \A k \in 1 .. Len(t) : at[k] \in 1 .. Len(t[k])
<1>1. PICK n : n = Len(t)
  OBVIOUS
<1>2. n \in Nat \ {0} /\ t[1] = h /\ \A k \in 1 .. n - 1 : t[k + 1] = Merkle!Above(t[k])
  BY <1>1 DEF IsTree, IsList
<1>3. i \in Nat /\ n \in Nat /\ n > 0
  BY <1>2 DEF IsList
<1>4. at[1] = i /\ \A k \in 1 .. n - 1 : at[k + 1] = Half(at[k])
  BY <1>1, <1>3, PathIs DEF Half
<1>5. \A k \in 1 .. n : Len(t[k]) \in Nat
  BY <1>1, TreeLevels
<1>6. PICK S : S = {k \in 1 .. n : at[k] \in 1 .. Len(t[k])}
  OBVIOUS
<1>7. 1 \in S
  BY <1>2, <1>4, <1>6
<1>8. \A k \in 1 .. n - 1 : k \in S => k + 1 \in S
  <2>1. SUFFICES ASSUME NEW k \in 1 .. n - 1, k \in S PROVE k + 1 \in S
    OBVIOUS
  <2>2. k \in 1 .. n /\ k + 1 \in 1 .. n
    BY <1>2
  <2>3. PICK a, b, p, q : a = Len(t[k]) /\ b = Len(t[k + 1]) /\ p = at[k] /\ q = at[k + 1]
    OBVIOUS
  <2>4. a \in Nat /\ p \in 1 .. a
    BY <1>5, <1>6, <2>1, <2>2, <2>3
  <2>5. b = Half(a) /\ q = Half(p)
    BY <1>2, <1>4, <2>1, <2>3, <2>4, AboveIs
  <2>6. p \in Nat
    BY <2>4
  <2>7. /\ b \in Nat /\ (2 * b = a \/ 2 * b = a + 1)
        /\ q \in Nat /\ (2 * q = p \/ 2 * q = p + 1)
    BY <2>4, <2>5, <2>6, HalfIs
  <2>8. q \in 1 .. b
    BY <2>4, <2>6, <2>7
  <2>9. QED
    BY <1>6, <2>2, <2>3, <2>8
<1>9. \A k \in 1 .. n : k \in S
  BY <1>2, <1>7, <1>8, UpTo
<1>10. QED
  BY <1>1, <1>6, <1>9

\* The other child of the node above a place of a level.
Sibling(s, p) ==
    IF p % 2 = 0 THEN s[p - 1] ELSE IF p + 1 <= Len(s) THEN s[p + 1] ELSE s[p]

LEMMA SiblingIs ==
    ASSUME NEW s, Len(s) \in Nat, NEW p \in 1 .. Len(s)
    PROVE  Merkle!Above(s)[Half(p)] =
             IF p % 2 = 0 THEN << Sibling(s, p), s[p] >> ELSE << s[p], Sibling(s, p) >>
<1>1. PICK n : n = Len(s)
  OBVIOUS
<1>2. p \in Nat /\ n \in Nat
  BY <1>1
<1>3. PICK q, b : q = Half(p) /\ b = Half(n)
  OBVIOUS
<1>4. /\ q \in Nat /\ (p % 2 = 0 => 2 * q = p) /\ (p % 2 # 0 => 2 * q = p + 1)
      /\ b \in Nat /\ (2 * b = n \/ 2 * b = n + 1)
  BY <1>2, <1>3, HalfIs
<1>5. q \in 1 .. b
  BY <1>1, <1>2, <1>4
<1>6. Merkle!Above(s)[q] = << s[2 * q - 1], IF 2 * q <= n THEN s[2 * q] ELSE s[2 * q - 1] >>
  BY <1>1, <1>3, <1>5, AboveIs
<1>7. CASE p % 2 = 0
  <2>1. 2 * q = p /\ 2 * q - 1 = p - 1 /\ p <= n
    BY <1>1, <1>2, <1>4, <1>7
  <2>2. QED
    BY <1>3, <1>6, <1>7, <2>1 DEF Sibling
<1>8. CASE p % 2 # 0
  <2>1. 2 * q = p + 1 /\ 2 * q - 1 = p
    BY <1>1, <1>2, <1>4, <1>8
  <2>2. QED
    BY <1>1, <1>3, <1>6, <1>8, <2>1 DEF Sibling
<1>9. QED
  BY <1>7, <1>8

LEMMA ProofIs ==
    ASSUME NEW h, IsList(h), NEW t, IsTree(h, t), NEW i \in 1 .. Len(h),
           NEW at, at = Merkle!Path(i, Len(t)), NEW proof, proof = Merkle!GetProof(t, i)
    PROVE  /\ Len(proof) = Len(t) - 1
           /\ \A k \in 1 .. Len(t) - 1 : proof[k] = Sibling(t[k], at[k])
<1>1. PICK n : n = Len(t) - 1
  OBVIOUS
<1>2. n \in Nat
  BY <1>1 DEF IsTree, IsList
<1>3. PICK F : F = [k \in 1 .. n |->
                      IF at[k] % 2 = 0
                      THEN IF at[k] - 1 <= Len(t[k]) THEN t[k][at[k] - 1] ELSE t[k][at[k]]
                      ELSE IF at[k] + 1 <= Len(t[k]) THEN t[k][at[k] + 1] ELSE t[k][at[k]]]
  OBVIOUS
<1>4. proof = F
  BY <1>1, <1>3 DEF Merkle!GetProof
<1>5. proof = [k \in 1 .. n |-> proof[k]]
  BY <1>3, <1>4
<1>6. Len(proof) = n
  BY <1>2, <1>5, LenOf
<1>7. ASSUME NEW k \in 1 .. n PROVE proof[k] = Sibling(t[k], at[k])
  <2>1. PICK s, p, a : s = t[k] /\ p = at[k] /\ a = Len(s)
    OBVIOUS
  <2>2. a \in Nat /\ p \in 1 .. a
    <3>1. k \in 1 .. Len(t)
      BY <1>1, <1>2 DEF IsTree, IsList
    <3>2. QED
      BY <2>1, <3>1, PathInside, TreeLevels
  <2>3. proof[k] = IF p % 2 = 0 THEN IF p - 1 <= a THEN s[p - 1] ELSE s[p]
                   ELSE IF p + 1 <= a THEN s[p + 1] ELSE s[p]
    BY <1>3, <1>4, <2>1
  <2>4. p - 1 <= a
    BY <2>2
  <2>5. QED
    BY <2>1, <2>3, <2>4 DEF Sibling
<1>8. QED
  BY <1>1, <1>6, <1>7

LEMMA ProofProves ==
    ASSUME NEW h, IsList(h), NEW t, IsTree(h, t), NEW i \in 1 .. Len(h), NEW v
    PROVE  Merkle!Verify(Merkle!Root(t), v, i, Merkle!GetProof(t, i)) <=> v = h[i]
<1>1. PICK n, at, proof : n = Len(t) /\ at = Merkle!Path(i, n) /\ proof = Merkle!GetProof(t, i)
  OBVIOUS
<1>2. PICK g : g = Merkle!Climb(v, at, proof)
  OBVIOUS
<1>3. n \in Nat \ {0} /\ t[1] = h /\ \A k \in 1 .. n - 1 : t[k + 1] = Merkle!Above(t[k])
  BY <1>1 DEF IsTree, IsList
<1>4. Len(proof) = n - 1 /\ \A k \in 1 .. n - 1 : proof[k] = Sibling(t[k], at[k])
  BY <1>1, ProofIs
<1>5. Len(proof) \in Nat /\ Len(proof) + 1 = n
  BY <1>3, <1>4
<1>6. /\ g[1] = v
      /\ \A k \in 1 .. n - 1 : g[k + 1] = IF at[k] % 2 = 0 THEN << proof[k], g[k] >>
                                          ELSE << g[k], proof[k] >>
  BY <1>2, <1>4, <1>5, ClimbIs DEF Merkle!HashPair
<1>7. i \in Nat /\ n \in Nat /\ n > 0
  BY <1>3 DEF IsList
<1>8. at[1] = i /\ \A k \in 1 .. n - 1 : at[k + 1] = Half(at[k])
  BY <1>1, <1>7, PathIs DEF Half
<1>9. \A k \in 1 .. n : at[k] \in 1 .. Len(t[k]) /\ Len(t[k]) \in Nat
  BY <1>1, PathInside, TreeLevels
<1>10. PICK S : S = {k \in 1 .. n : g[k] = t[k][at[k]] <=> v = h[i]}
  OBVIOUS
<1>11. 1 \in S
  BY <1>3, <1>6, <1>8, <1>10
<1>12. \A k \in 1 .. n - 1 : k \in S => k + 1 \in S
  <2>1. SUFFICES ASSUME NEW k \in 1 .. n - 1, k \in S PROVE k + 1 \in S
    OBVIOUS
  <2>2. k \in 1 .. n /\ k + 1 \in 1 .. n
    BY <1>3
  <2>3. PICK s, p, w : s = t[k] /\ p = at[k] /\ w = proof[k]
    OBVIOUS
  <2>4. Len(s) \in Nat /\ p \in 1 .. Len(s)
    BY <1>9, <2>2, <2>3
  <2>5. w = Sibling(s, p)
    BY <1>4, <2>1, <2>3
  <2>6. Merkle!Above(s)[Half(p)] = IF p % 2 = 0 THEN << w, s[p] >> ELSE << s[p], w >>
    BY <2>4, <2>5, SiblingIs
  <2>7. t[k + 1][at[k + 1]] = IF p % 2 = 0 THEN << w, s[p] >> ELSE << s[p], w >>
    BY <1>3, <1>8, <2>1, <2>3, <2>6
  <2>8. g[k + 1] = IF p % 2 = 0 THEN << w, g[k] >> ELSE << g[k], w >>
    BY <1>6, <2>1, <2>3
  <2>9. g[k + 1] = t[k + 1][at[k + 1]] <=> g[k] = s[p]
    <3>1. \A a, b, c, d : <<a, b>> = <<c, d>> <=> a = c /\ b = d
      OBVIOUS
    <3>2. CASE p % 2 = 0
      BY <2>7, <2>8, <3>1, <3>2
    <3>3. CASE p % 2 # 0
      BY <2>7, <2>8, <3>1, <3>3
    <3>4. QED
      BY <3>2, <3>3
  <2>10. g[k] = t[k][at[k]] <=> v = h[i]
    BY <1>10, <2>1
  <2>11. QED
    BY <1>10, <2>2, <2>3, <2>9, <2>10
<1>13. \A k \in 1 .. n : k \in S
  BY <1>3, <1>11, <1>12, UpTo
<1>14. n \in 1 .. n
  BY <1>3
<1>15. g[n] = t[n][at[n]] <=> v = h[i]
  BY <1>10, <1>13, <1>14
<1>16. at[n] = 1
  <2>1. Len(t[n]) = 1
    BY <1>1 DEF IsTree
  <2>2. at[n] \in 1 .. 1
    BY <1>9, <1>14, <2>1
  <2>3. QED
    BY <2>2
<1>17. Merkle!Verify(Merkle!Root(t), v, i, proof) <=> g[n] = t[n][1]
  BY <1>1, <1>2, <1>5 DEF Merkle!Verify, Merkle!Root
<1>18. QED
  BY <1>1, <1>15, <1>16, <1>17

-----------------------------------------------------------------------------
(* A leaf more: the path of the new leaf is all that changes.              *)

LEMMA AppendList ==
    ASSUME NEW s, IsList(s), NEW x
    PROVE  /\ IsList(Append(s, x)) /\ Len(Append(s, x)) = Len(s) + 1
           /\ \A i \in 1 .. Len(s) : Append(s, x)[i] = s[i]
           /\ Append(s, x)[Len(s) + 1] = x
<1>1. PICK n, S : n = Len(s) /\ S = {s[i] : i \in 1 .. n} \cup {x}
  OBVIOUS
<1>2. n \in Nat /\ s = [i \in 1 .. n |-> s[i]]
  BY <1>1 DEF IsList
<1>3. s \in [1 .. n -> S]
  BY <1>1, <1>2
<1>4. s \in Seq(S) /\ x \in S
  BY <1>1, <1>2, <1>3
<1>5. PICK u : u = Append(s, x)
  OBVIOUS
<1>6. /\ u \in Seq(S) /\ Len(u) = n + 1
      /\ \A i \in 1 .. n : u[i] = s[i]
      /\ u[n + 1] = x
  BY <1>1, <1>4, <1>5, AppendProperties
<1>7. DOMAIN u = 1 .. n + 1 /\ u = [i \in DOMAIN u |-> u[i]]
  BY <1>6, LenProperties
<1>8. IsList(u)
  BY <1>2, <1>6, <1>7 DEF IsList
<1>9. QED
  BY <1>1, <1>5, <1>6, <1>8

LEMMA PutIs ==
    ASSUME NEW s, IsList(s), NEW p \in Nat \ {0}, p = Len(s) \/ p = Len(s) + 1, NEW x,
           NEW g, g = Merkle!Put(s, p, x)
    PROVE  /\ IsList(g) /\ Len(g) = p /\ g[p] = x
           /\ \A i \in 1 .. p - 1 : g[i] = s[i]
<1>1. PICK n : n = Len(s)
  OBVIOUS
<1>2. n \in Nat /\ s = [i \in 1 .. n |-> s[i]]
  BY <1>1 DEF IsList
<1>3. CASE p = n + 1
  <2>1. g = Append(s, x)
    BY <1>1, <1>2, <1>3 DEF Merkle!Put
  <2>2. /\ IsList(g) /\ Len(g) = n + 1 /\ g[n + 1] = x
        /\ \A i \in 1 .. n : g[i] = s[i]
    BY <1>1, <2>1, AppendList
  <2>3. p - 1 = n
    BY <1>2, <1>3
  <2>4. QED
    BY <1>3, <2>2, <2>3
<1>4. CASE p = n
  <2>1. g = [s EXCEPT ![p] = x]
    BY <1>1, <1>2, <1>4 DEF Merkle!Put
  <2>2. g = [i \in 1 .. n |-> IF i = p THEN x ELSE s[i]]
    BY <1>2, <2>1
  <2>3. g = [i \in 1 .. n |-> g[i]]
    BY <2>2
  <2>4. Len(g) = n
    BY <1>2, <2>3, LenOf
  <2>5. IsList(g)
    BY <1>2, <2>3, <2>4 DEF IsList
  <2>6. g[p] = x /\ \A i \in 1 .. p - 1 : g[i] = s[i]
    BY <1>2, <1>4, <2>2
  <2>7. QED
    BY <1>4, <2>4, <2>5, <2>6
<1>5. QED
  BY <1>1, <1>3, <1>4

\* One level of the tree, and the level above it, with the new path.
LEMMA GrownAbove ==
    ASSUME NEW s, IsList(s), NEW p \in Nat \ {0}, p = Len(s) \/ p = Len(s) + 1, NEW x,
           NEW g, IsList(g), Len(g) = p, g[p] = x, \A i \in 1 .. p - 1 : g[i] = s[i],
           NEW u, u = Merkle!Put(Merkle!Above(s), Half(p), Merkle!Carried(s, p, x))
    PROVE  u = Merkle!Above(g) /\ (Half(p) = Half(Len(s)) \/ Half(p) = Half(Len(s)) + 1)
<1>1. PICK n, a : n = Len(s) /\ a = Merkle!Above(s)
  OBVIOUS
<1>2. n \in Nat /\ p \in Nat
  BY <1>1 DEF IsList
<1>3. PICK q, b : q = Half(p) /\ b = Half(n)
  OBVIOUS
<1>4. /\ q \in Nat /\ (p % 2 = 0 => 2 * q = p) /\ (p % 2 # 0 => 2 * q = p + 1)
      /\ b \in Nat /\ (2 * b = n \/ 2 * b = n + 1)
      /\ 2 * q = p \/ 2 * q = p + 1
  BY <1>2, <1>3, HalfIs
<1>5. q \in Nat \ {0} /\ (q = b \/ q = b + 1)
  BY <1>1, <1>2, <1>4
<1>6. /\ IsList(a) /\ Len(a) = b
      /\ \A i \in 1 .. b : a[i] = << s[2 * i - 1], IF 2 * i <= n THEN s[2 * i] ELSE s[2 * i - 1] >>
  BY <1>1, <1>2, <1>3, AboveIs
<1>7. PICK c : c = Merkle!Carried(s, p, x)
  OBVIOUS
<1>8. u = Merkle!Put(a, q, c)
  BY <1>1, <1>3, <1>7
<1>9. IsList(u) /\ Len(u) = q /\ u[q] = c /\ \A i \in 1 .. q - 1 : u[i] = a[i]
  <2>1. q = Len(a) \/ q = Len(a) + 1
    BY <1>5, <1>6
  <2>2. QED
    BY <1>5, <1>6, <1>8, <2>1, PutIs
<1>10. PICK w : w = Merkle!Above(g)
  OBVIOUS
<1>11. /\ IsList(w) /\ Len(w) = q
       /\ \A i \in 1 .. q : w[i] = << g[2 * i - 1], IF 2 * i <= p THEN g[2 * i] ELSE g[2 * i - 1] >>
  BY <1>2, <1>3, <1>10, AboveIs
<1>12. ASSUME NEW i \in 1 .. q PROVE u[i] = w[i]
  <2>1. CASE i < q
    <3>1. /\ i \in 1 .. q - 1 /\ i \in 1 .. b /\ 2 * i <= n /\ 2 * i <= p
          /\ 2 * i \in 1 .. p - 1 /\ 2 * i - 1 \in 1 .. p - 1
      BY <1>1, <1>2, <1>4, <1>5, <2>1
    <3>2. u[i] = << s[2 * i - 1], s[2 * i] >>
      BY <1>6, <1>9, <3>1
    <3>3. w[i] = << g[2 * i - 1], g[2 * i] >>
      BY <1>11, <3>1
    <3>4. g[2 * i - 1] = s[2 * i - 1] /\ g[2 * i] = s[2 * i]
      BY <3>1
    <3>5. QED
      BY <3>2, <3>3, <3>4
  <2>2. CASE i = q /\ p % 2 = 0
    <3>1. 2 * q = p /\ 2 * q - 1 = p - 1 /\ p - 1 \in 1 .. p - 1
      BY <1>2, <1>4, <2>2
    <3>2. w[q] = << g[p - 1], g[p] >>
      BY <1>2, <1>5, <1>11, <2>2, <3>1
    <3>3. c = << s[p - 1], x >>
      BY <1>7, <2>2 DEF Merkle!Carried, Merkle!HashPair
    <3>4. g[p - 1] = s[p - 1]
      BY <3>1
    <3>5. QED
      BY <1>9, <2>2, <3>2, <3>3, <3>4
  <2>3. CASE i = q /\ p % 2 # 0
    <3>1. 2 * q = p + 1 /\ 2 * q - 1 = p /\ ~(2 * q <= p)
      BY <1>2, <1>4, <2>3
    <3>2. w[q] = << g[p], g[p] >>
      BY <1>2, <1>5, <1>11, <2>3, <3>1
    <3>3. c = << x, x >>
      BY <1>7, <2>3 DEF Merkle!Carried, Merkle!HashPair
    <3>4. QED
      BY <1>9, <2>3, <3>2, <3>3
  <2>4. QED
    BY <1>5, <2>1, <2>2, <2>3
<1>13. u = [i \in 1 .. q |-> u[i]] /\ w = [i \in 1 .. q |-> w[i]]
  BY <1>9, <1>11 DEF IsList
<1>14. u = w
  BY <1>12, <1>13
<1>15. QED
  BY <1>1, <1>3, <1>5, <1>10, <1>14

LEMMA GrownTree ==
    ASSUME NEW h, IsList(h), NEW t, IsTree(h, t), h[1] # Merkle!EMPTY, NEW x,
           NEW hh, hh = Append(h, x)
    PROVE  IsTree(hh, Merkle!AddLeaf(t, hh))
<1>1. PICK n, m : n = Len(t) /\ m = Len(hh)
  OBVIOUS
<1>2. /\ n \in Nat \ {0} /\ t[1] = h
      /\ \A k \in 1 .. n - 1 : t[k + 1] = Merkle!Above(t[k]) /\ Len(t[k]) > 1
      /\ Len(t[n]) = 1
  BY <1>1 DEF IsTree, IsList
<1>3. m \in Nat /\ m = Len(h) + 1 /\ Len(h) \in Nat /\ IsList(hh) /\ hh[m] = x
  BY <1>1, AppendList DEF IsList
<1>4. PICK at, c : at = Merkle!Path(m, n) /\ c = Merkle!Carries(t, at, hh[m])
  OBVIOUS
<1>5. at[1] = m /\ \A k \in 1 .. n - 1 : at[k + 1] = Half(at[k])
  <2>1. n \in Nat /\ n > 0
    BY <1>2
  <2>2. QED
    BY <1>3, <1>4, <2>1, PathIs DEF Half
<1>6. c[1] = x /\ \A k \in 1 .. n - 1 : c[k + 1] = Merkle!Carried(t[k], at[k], c[k])
  BY <1>1, <1>2, <1>3, <1>4, CarriesAre
<1>7. \A k \in 1 .. n : IsList(t[k]) /\ Len(t[k]) \in Nat \ {0}
  BY <1>1, TreeLevels
<1>8. PICK g : g = [k \in 1 .. n |-> IF k = 1 THEN hh ELSE Merkle!Put(t[k], at[k], c[k])]
  OBVIOUS
<1>9. PICK S : S = {k \in 1 .. n : /\ at[k] \in Nat \ {0}
                                   /\ at[k] = Len(t[k]) \/ at[k] = Len(t[k]) + 1
                                   /\ g[k] = Merkle!Put(t[k], at[k], c[k])
                                   /\ k > 1 => g[k] = Merkle!Above(g[k - 1])}
  OBVIOUS
<1>10. 1 \in S
  <2>1. hh = Merkle!Put(t[1], at[1], c[1])
    BY <1>2, <1>3, <1>5, <1>6 DEF Merkle!Put
  <2>2. g[1] = hh /\ 1 \in 1 .. n
    BY <1>2, <1>8
  <2>3. at[1] \in Nat \ {0} /\ at[1] = Len(t[1]) + 1
    BY <1>2, <1>3, <1>5
  <2>4. QED
    BY <1>9, <2>1, <2>2, <2>3
<1>11. \A k \in 1 .. n - 1 : k \in S => k + 1 \in S
  <2>1. SUFFICES ASSUME NEW k \in 1 .. n - 1, k \in S PROVE k + 1 \in S
    OBVIOUS
  <2>2. k \in 1 .. n /\ k + 1 \in 1 .. n /\ k + 1 # 1 /\ (k + 1) - 1 = k
    BY <1>2
  <2>3. PICK s, p, y, gk : s = t[k] /\ p = at[k] /\ y = c[k] /\ gk = g[k]
    OBVIOUS
  <2>4. IsList(s) /\ p \in Nat \ {0} /\ (p = Len(s) \/ p = Len(s) + 1) /\ gk = Merkle!Put(s, p, y)
    BY <1>7, <1>9, <2>1, <2>2, <2>3
  <2>5. IsList(gk) /\ Len(gk) = p /\ gk[p] = y /\ \A i \in 1 .. p - 1 : gk[i] = s[i]
    BY <2>4, PutIs
  <2>6. PICK u : u = Merkle!Put(Merkle!Above(s), Half(p), Merkle!Carried(s, p, y))
    OBVIOUS
  <2>7. u = Merkle!Above(gk) /\ (Half(p) = Half(Len(s)) \/ Half(p) = Half(Len(s)) + 1)
    BY <2>4, <2>5, <2>6, GrownAbove
  <2>8. t[k + 1] = Merkle!Above(s) /\ at[k + 1] = Half(p) /\ c[k + 1] = Merkle!Carried(s, p, y)
    BY <1>2, <1>5, <1>6, <2>1, <2>3
  <2>9. g[k + 1] = Merkle!Put(t[k + 1], at[k + 1], c[k + 1])
    BY <1>8, <2>2
  <2>10. g[k + 1] = u
    BY <2>6, <2>8, <2>9
  <2>11. Len(t[k + 1]) = Half(Len(s))
    <3>1. Len(s) \in Nat
      BY <2>4 DEF IsList
    <3>2. QED
      BY <2>8, <3>1, AboveIs
  <2>12. at[k + 1] = Len(t[k + 1]) \/ at[k + 1] = Len(t[k + 1]) + 1
    BY <2>7, <2>8, <2>11
  <2>13. at[k + 1] \in Nat \ {0}
    <3>1. PICK l : l = Len(t[k + 1])
      OBVIOUS
    <3>2. l \in Nat \ {0}
      BY <1>7, <2>2, <3>1
    <3>3. l + 1 \in Nat \ {0}
      BY <3>2
    <3>4. QED
      BY <2>12, <3>1, <3>2, <3>3
  <2>14. g[k + 1] = Merkle!Above(g[(k + 1) - 1])
    BY <2>2, <2>3, <2>7, <2>10
  <2>15. QED
    BY <1>9, <2>2, <2>9, <2>12, <2>13, <2>14
<1>12. \A k \in 1 .. n : k \in S
  BY <1>2, <1>10, <1>11, UpTo
<1>13. \A k \in 1 .. n : /\ at[k] \in Nat \ {0} /\ (at[k] = Len(t[k]) \/ at[k] = Len(t[k]) + 1)
                         /\ IsList(g[k]) /\ Len(g[k]) = at[k]
  <2>1. SUFFICES ASSUME NEW k \in 1 .. n
                 PROVE  /\ at[k] \in Nat \ {0} /\ (at[k] = Len(t[k]) \/ at[k] = Len(t[k]) + 1)
                        /\ IsList(g[k]) /\ Len(g[k]) = at[k]
    OBVIOUS
  <2>2. /\ at[k] \in Nat \ {0} /\ (at[k] = Len(t[k]) \/ at[k] = Len(t[k]) + 1)
        /\ g[k] = Merkle!Put(t[k], at[k], c[k]) /\ IsList(t[k])
    BY <1>7, <1>9, <1>12
  <2>3. QED
    BY <2>2, PutIs
<1>14. \A k \in 1 .. n - 1 : g[k + 1] = Merkle!Above(g[k]) /\ Len(g[k]) > 1
  <2>1. SUFFICES ASSUME NEW k \in 1 .. n - 1 PROVE g[k + 1] = Merkle!Above(g[k]) /\ Len(g[k]) > 1
    OBVIOUS
  <2>2. k \in 1 .. n /\ k + 1 \in 1 .. n /\ k + 1 > 1 /\ (k + 1) - 1 = k
    BY <1>2
  <2>3. g[k + 1] = Merkle!Above(g[k])
    BY <1>9, <1>12, <2>2
  <2>4. PICK l, p : l = Len(t[k]) /\ p = Len(g[k])
    OBVIOUS
  <2>5. l \in Nat \ {0} /\ (p = l \/ p = l + 1)
    BY <1>7, <1>13, <2>2, <2>4
  <2>6. l > 1
    BY <1>2, <2>1, <2>4
  <2>7. p > 1
    BY <2>5, <2>6
  <2>8. QED
    BY <2>3, <2>4, <2>7
<1>15. g[1] = hh /\ g = [k \in 1 .. n |-> g[k]] /\ Len(g) = n /\ n \in 1 .. n
  <2>1. g = [k \in 1 .. n |-> g[k]] /\ g[1] = hh /\ n \in 1 .. n /\ n \in Nat
    BY <1>2, <1>8
  <2>2. Len(g) = n
    BY <2>1, LenOf
  <2>3. QED
    BY <2>1, <2>2
<1>16. PICK top : top = g[n]
  OBVIOUS
<1>17. IsList(top) /\ (Len(top) = 1 \/ Len(top) = 2)
  <2>1. at[n] = 1 \/ at[n] = 2
    <3>1. at[n] = Len(t[n]) \/ at[n] = Len(t[n]) + 1
      BY <1>13, <1>15
    <3>2. at[n] = 1 \/ at[n] = 1 + 1
      BY <1>2, <3>1
    <3>3. QED
      BY <3>2
  <2>2. IsList(g[n]) /\ Len(g[n]) = at[n]
    BY <1>13, <1>15
  <2>3. QED
    BY <1>16, <2>1, <2>2
<1>18. PICK u : u = Merkle!AddLeaf(t, hh)
  OBVIOUS
<1>19. u = IF Len(top) > 1 THEN Append(g, <<Merkle!HashPair(top[1], top[2])>>) ELSE g
  <2>1. t[1][1] # Merkle!EMPTY
    BY <1>2
  <2>2. g = [k \in 1 .. Len(t) |->
               IF k = 1 THEN hh
               ELSE Merkle!Put(t[k], Merkle!Path(Len(hh), Len(t))[k],
                               Merkle!Carries(t, Merkle!Path(Len(hh), Len(t)), hh[Len(hh)])[k])]
    BY <1>1, <1>4, <1>8
  <2>3. u = IF t[1][1] = Merkle!EMPTY THEN <<hh>>
            ELSE IF Len(g[Len(t)]) > 1
                 THEN Append(g, <<Merkle!HashPair(g[Len(t)][1], g[Len(t)][2])>>)
                 ELSE g
    BY <1>18, <2>2 DEF Merkle!AddLeaf
  <2>4. QED
    BY <1>1, <1>16, <2>1, <2>3
<1>20. CASE Len(top) = 1
  <2>1. u = g
    BY <1>19, <1>20
  <2>2. IsTree(hh, g)
    <3>1. IsList(g) /\ Len(g) > 0 /\ Len(g[Len(g)]) = 1
      BY <1>2, <1>15, <1>16, <1>20 DEF IsList
    <3>2. QED
      BY <1>14, <1>15, <3>1 DEF IsTree
  <2>3. QED
    BY <1>18, <2>1, <2>2
<1>21. CASE Len(top) = 2
  <2>1. PICK y : y = << << top[1], top[2] >> >>
    OBVIOUS
  <2>2. u = Append(g, y)
    BY <1>19, <1>21, <2>1 DEF Merkle!HashPair
  <2>3. IsList(g)
    BY <1>2, <1>15 DEF IsList
  <2>4. /\ IsList(u) /\ Len(u) = n + 1 /\ u[n + 1] = y
        /\ \A k \in 1 .. n : u[k] = g[k]
    BY <1>15, <2>2, <2>3, AppendList
  <2>5. y = Merkle!Above(top) /\ Len(y) = 1
    <3>1. Half(2) = 1
      BY DEF Half
    <3>2. PICK w : w = Merkle!Above(top)
      OBVIOUS
    <3>3. /\ IsList(w) /\ Len(w) = 1 /\ w[1] = << top[1], top[2] >>
      <4>1. Len(top) \in Nat /\ 1 \in 1 .. Half(Len(top)) /\ Half(Len(top)) = 1
        BY <1>21, <3>1
      <4>2. /\ IsList(w) /\ Len(w) = 1
            /\ w[1] = << top[2 * 1 - 1], IF 2 * 1 <= Len(top) THEN top[2 * 1] ELSE top[2 * 1 - 1] >>
        BY <3>2, <4>1, AboveIs
      <4>3. QED
        BY <1>21, <4>2
    <3>4. w = [i \in 1 .. 1 |-> w[i]]
      BY <3>3 DEF IsList
    <3>5. w = << << top[1], top[2] >> >>
      BY <3>3, <3>4
    <3>6. QED
      BY <2>1, <3>2, <3>3, <3>5
  <2>6. ASSUME NEW k \in 1 .. n PROVE u[k + 1] = Merkle!Above(u[k]) /\ Len(u[k]) > 1
    <3>1. CASE k = n
      <4>1. u[k] = top /\ u[k + 1] = y
        BY <1>15, <1>16, <2>4, <3>1
      <4>2. Len(u[k]) = 2
        BY <1>21, <4>1
      <4>3. Len(u[k]) > 1
        BY <4>2
      <4>4. QED
        BY <2>5, <4>1, <4>3
    <3>2. CASE k # n
      <4>1. k \in 1 .. n - 1 /\ k + 1 \in 1 .. n
        BY <1>2, <3>2
      <4>2. QED
        BY <1>14, <2>4, <4>1
    <3>3. QED
      BY <3>1, <3>2
  <2>7. Len(u) > 0 /\ (n + 1) - 1 = n /\ u[1] = hh /\ Len(u[n + 1]) = 1
    <3>1. n + 1 > 0 /\ (n + 1) - 1 = n /\ 1 \in 1 .. n
      BY <1>2
    <3>2. QED
      BY <1>15, <2>4, <2>5, <3>1
  <2>8. IsTree(hh, u)
    BY <2>4, <2>6, <2>7 DEF IsTree
  <2>9. QED
    BY <1>18, <2>8
<1>22. QED
  BY <1>17, <1>20, <1>21

-----------------------------------------------------------------------------
(* The tree of the ledger.                                                 *)

TreeInv ==
    /\ IsList(leaves) /\ \A i \in 1 .. Len(leaves) : leaves[i] = <<i>>
    /\ tree = Merkle!BuildTree(leaves)

LEMMA TreeInit == Merkle!Init => TreeInv
<1>1. SUFFICES ASSUME Merkle!Init PROVE TreeInv
  OBVIOUS
<1>2. leaves = <<>> /\ Len(leaves) = 0 /\ tree = Merkle!BuildTree(leaves)
  BY <1>1 DEF Merkle!Init
<1>3. QED
  BY <1>2 DEF TreeInv, IsList

LEMMA LeafGrows == ASSUME TreeInv, Merkle!LeafDone PROVE TreeInv'
<1>1. PICK n, x, hh : n = Len(leaves) /\ x = <<n + 1>> /\ hh = Append(leaves, x)
  OBVIOUS
<1>2. leaves' = hh /\ tree' = Merkle!AddLeaf(tree, hh)
  BY <1>1 DEF Merkle!LeafDone
<1>3. IsList(leaves) /\ n \in Nat
  BY <1>1 DEF TreeInv, IsList
<1>4. /\ IsList(hh) /\ Len(hh) = n + 1 /\ hh[n + 1] = x
      /\ \A i \in 1 .. n : hh[i] = leaves[i]
  BY <1>1, <1>3, AppendList
<1>5. \A i \in 1 .. n + 1 : hh[i] = <<i>>
  <2>1. SUFFICES ASSUME NEW i \in 1 .. n + 1 PROVE hh[i] = <<i>>
    OBVIOUS
  <2>2. CASE i = n + 1
    BY <1>1, <1>4, <2>2
  <2>3. CASE i \in 1 .. n
    BY <1>1, <1>4, <2>3 DEF TreeInv
  <2>4. QED
    BY <1>3, <2>2, <2>3
<1>6. hh # <<>>
  <2>1. SUFFICES ASSUME hh = <<>> PROVE FALSE
    OBVIOUS
  <2>2. Len(hh) = 0
    BY <2>1
  <2>3. QED
    BY <1>3, <1>4, <2>2
<1>7. IsTree(hh, Merkle!AddLeaf(tree, hh))
  <2>1. CASE n = 0
    <3>1. leaves = <<>>
      <4>1. leaves = [i \in 1 .. 0 |-> leaves[i]]
        BY <1>1, <1>3, <2>1 DEF IsList
      <4>2. QED
        BY <4>1
    <3>2. tree = << <<Merkle!EMPTY>> >>
      BY <3>1 DEF TreeInv, Merkle!BuildTree
    <3>3. tree[1][1] = Merkle!EMPTY
      BY <3>2
    <3>4. PICK u : u = Merkle!AddLeaf(tree, hh)
      OBVIOUS
    <3>5. u = <<hh>>
      BY <3>3, <3>4 DEF Merkle!AddLeaf
    <3>6. u = [k \in 1 .. 1 |-> u[k]] /\ u[1] = hh
      BY <3>5
    <3>7. Len(u) = 1 /\ Len(hh) = 1
      BY <1>4, <2>1, <3>6, LenOf
    <3>8. IsTree(hh, u)
      BY <3>6, <3>7 DEF IsTree, IsList
    <3>9. QED
      BY <3>4, <3>8
  <2>2. CASE n # 0
    <3>1. leaves # <<>> /\ 1 \in 1 .. n
      <4>1. SUFFICES leaves # <<>>
        BY <1>3, <2>2
      <4>2. SUFFICES ASSUME leaves = <<>> PROVE FALSE
        OBVIOUS
      <4>3. Len(leaves) = 0
        BY <4>2
      <4>4. QED
        BY <1>1, <2>2, <4>3
    <3>2. IsTree(leaves, tree)
      BY <1>3, <3>1, BuiltTree DEF TreeInv
    <3>3. leaves[1] # Merkle!EMPTY
      <4>1. leaves[1] = <<1>>
        BY <1>1, <3>1 DEF TreeInv
      <4>2. QED
        BY <4>1 DEF Merkle!EMPTY
    <3>4. QED
      BY <1>1, <1>3, <3>2, <3>3, GrownTree
  <2>3. QED
    BY <2>1, <2>2
<1>8. IsTree(hh, Merkle!BuildTree(hh))
  BY <1>4, <1>6, BuiltTree
<1>9. Merkle!AddLeaf(tree, hh) = Merkle!BuildTree(hh)
  BY <1>4, <1>7, <1>8, OneTree
<1>10. IsList(leaves') /\ (\A i \in 1 .. Len(leaves') : leaves'[i] = <<i>>)
  BY <1>2, <1>4, <1>5
<1>11. tree' = Merkle!BuildTree(leaves')
  BY <1>2, <1>9
<1>12. QED
  BY <1>10, <1>11 DEF TreeInv

LEMMA TreeStep == TreeInv /\ [Merkle!Next]_Merkle!vars => TreeInv'
<1>1. SUFFICES ASSUME TreeInv, [Merkle!Next]_Merkle!vars PROVE TreeInv'
  OBVIOUS
<1>2. CASE Merkle!LeafDone
  BY <1>1, <1>2, LeafGrows
<1>3. CASE UNCHANGED <<leaves, tree>>
  BY <1>1, <1>3 DEF TreeInv
<1>4. QED
  BY <1>1, <1>2, <1>3
     DEF Merkle!Next, Merkle!vars, Merkle!CommitTimer, Merkle!OnShutdown, Merkle!IntegrityVerified,
         Merkle!IntegrityFails, Merkle!RootLogged, Merkle!CommitFails

LEMMA TreeProves == TreeInv => Merkle!TreeSound
<1>1. SUFFICES ASSUME TreeInv, NEW i \in DOMAIN leaves, NEW j \in DOMAIN leaves
               PROVE  Merkle!Verify(Merkle!Root(tree), leaves[j], i, Merkle!GetProof(tree, i))
                      <=> i = j
  BY DEF Merkle!TreeSound, TreeInv
<1>2. IsList(leaves) /\ DOMAIN leaves = 1 .. Len(leaves) /\ Len(leaves) \in Nat
  BY <1>1 DEF TreeInv, IsList
<1>3. i \in 1 .. Len(leaves) /\ j \in 1 .. Len(leaves) /\ leaves[i] = <<i>> /\ leaves[j] = <<j>>
  BY <1>1, <1>2 DEF TreeInv
<1>4. leaves # <<>>
  <2>1. SUFFICES ASSUME leaves = <<>> PROVE FALSE
    OBVIOUS
  <2>2. Len(leaves) = 0
    BY <2>1
  <2>3. QED
    BY <1>3, <2>2
<1>5. IsTree(leaves, tree)
  BY <1>1, <1>2, <1>4, BuiltTree DEF TreeInv
<1>6. Merkle!Verify(Merkle!Root(tree), leaves[j], i, Merkle!GetProof(tree, i))
      <=> leaves[j] = leaves[i]
  BY <1>2, <1>3, <1>5, ProofProves
<1>7. leaves[j] = leaves[i] <=> i = j
  BY <1>3
<1>8. QED
  BY <1>6, <1>7

\* Growing the tree leaf by leaf (addLeaf) gives the tree that buildTree makes
\* of the same hashes at once, and a proof of getProof proves the leaf at its
\* index and no other leaf there (verify), for every number of leaves.
THEOREM TreesAreSound == Merkle!Spec => []TreeSound
<1>1. TreeInv => TreeSound
  BY TreeProves DEF TreeSound
<1>2. QED
  BY <1>1, TreeInit, TreeStep, PTL DEF Merkle!Spec
=============================================================================
