-------------------------- MODULE MeshConsensusProofs --------------------------
(***************************************************************************)
(* Proofs about MeshConsensus for every set of peers and every limit of    *)
(* attempts.                                                               *)
(*                                                                         *)
(* Each commit adds one node to the saga, so the record's version counts   *)
(* its approvals; a handler that lost k commits saw k of them, and one     *)
(* that gave up saw as many as the limit.                                  *)
(***************************************************************************)
EXTENDS MCMesh, FiniteSetTheorems, TLAPS

-----------------------------------------------------------------------------
(* The inductive invariant *)

\* What each way of running the request leaves untouched.
Modes ==
    /\ mode # "kv" => /\ status = "PENDING" /\ version = 0
                      /\ \A p \in Peers : pc[p] \notin {"read", "commit"}
    /\ mode \in {"none", "alone"} => \A p \in Peers : pc[p] = "idle"
    /\ mode = "none" => result = "none"
    /\ mode \in {"kv", "memory"} => Self \in approvals

\* Only this node and approving peers are counted.
Backed == approvals \subseteq yes \cup {Self}

\* Each commit added one node.
Tally == mode = "kv" => Cardinality(approvals) = version + 1

\* The status says whether the quorum is reached, once anybody has voted.
Decision ==
    /\ status = "APPROVED" => Cardinality(approvals) >= Threshold
    /\ status = "PENDING" /\ version > 0 => Cardinality(approvals) < Threshold

\* What was granted by the mesh had a quorum.
Granted ==
    result = "true" /\ mode # "alone" => Cardinality(approvals) >= Threshold

\* What the handler of p's answer knows.
Handler(p) ==
    /\ pc[p] \in {"idle", "asked"} => p \notin yes /\ attempts[p] = 0
    /\ pc[p] \in {"read", "commit"} =>
         p \in yes /\ p \notin approvals /\ attempts[p] < MaxAttempts
    /\ attempts[p] <= version
    /\ pc[p] = "commit" => seen[p] <= version /\ attempts[p] <= seen[p]
    /\ pc[p] = "commit" /\ seen[p] = version =>
         seenBy[p] = approvals /\ status = "PENDING"
    /\ pc[p] = "done" /\ p \in yes /\ mode = "kv" =>
         p \in approvals \/ status = "APPROVED" \/ version >= MaxAttempts

IInv ==
    /\ TypeOK /\ Modes /\ Backed /\ Tally /\ Decision /\ Granted
    /\ \A p \in Peers : Handler(p)

-----------------------------------------------------------------------------
(* The quorum *)

\* Two grants of one mesh share a node, and from four nodes on they share
\* more than a third of it; the quorum can always be reached.
THEOREM QuorumIntersects ==
    ASSUME NEW n \in Nat, n >= 2
    PROVE  /\ n # 2 \/ ~AllowSmallQuorum => 2 * Quorum(n) > n
           /\ n >= 4 => 3 * Quorum(n) > 2 * n
           /\ Quorum(n) \in 1 .. n
<1>1. CASE n = 2 /\ AllowSmallQuorum
  BY <1>1 DEF Quorum
<1>2. CASE ~(n = 2 /\ AllowSmallQuorum) /\ n >= 4
  <2>1. Quorum(n) = (2 * n) \div 3 + 1
    BY <1>2 DEF Quorum
  <2>2. 3 * ((2 * n) \div 3) <= 2 * n /\ 2 * n < 3 * ((2 * n) \div 3) + 3
        /\ (2 * n) \div 3 \in Nat
    OBVIOUS
  <2> QED BY <1>2, <2>1, <2>2
<1>3. CASE ~(n = 2 /\ AllowSmallQuorum) /\ n < 4
  <2>1. Quorum(n) = n \div 2 + 1
    BY <1>3 DEF Quorum
  <2> QED BY <1>3, <2>1
<1> QED BY <1>1, <1>2, <1>3

\* Up to eight nodes the code's five attempts are enough for VotesCounted.
THEOREM AttemptsSuffice ==
    ASSUME NEW n \in 1 .. 8
    PROVE  Quorum(n) <= 5 + 1
BY DEF Quorum

\* The threshold is a natural number.
LEMMA ThresholdType == Threshold \in Nat
<1>1. Cardinality(Peers) \in Nat
  BY ConsensusAssumption, FS_CardinalityType
<1> QED BY <1>1 DEF Threshold, Quorum, NodeCount

\* Sets of nodes are finite, and a new node makes one more.
LEMMA NodeSets ==
    ASSUME NEW S \in SUBSET (Peers \cup {Self})
    PROVE  /\ IsFiniteSet(S) /\ Cardinality(S) \in Nat
           /\ \A p \in Peers \cup {Self} :
                Cardinality(S \cup {p}) = IF p \in S THEN Cardinality(S)
                                                     ELSE Cardinality(S) + 1
           /\ \A T \in SUBSET S : Cardinality(T) <= Cardinality(S)
<1>1. IsFiniteSet(Peers \cup {Self})
  BY ConsensusAssumption, FS_AddElement
<1>2. IsFiniteSet(S)
  BY <1>1, FS_Subset
<1> QED BY <1>2, FS_CardinalityType, FS_AddElement, FS_Subset

-----------------------------------------------------------------------------
(* The invariant is inductive *)

\* The state before any request.
LEMMA InitInv == Init => IInv
<1> SUFFICES ASSUME Init PROVE IInv
  OBVIOUS
<1> USE ConsensusAssumption
<1>1. TypeOK /\ Modes /\ Backed /\ Tally /\ Granted
  BY DEF Init, TypeOK, Modes, Backed, Tally, Granted
<1>2. Decision
  BY DEF Init, Decision
<1>3. ASSUME NEW p \in Peers PROVE Handler(p)
  BY DEF Init, Handler
<1> QED BY <1>1, <1>2, <1>3 DEF IInv

\* Every step of the request, of a handler, of the watcher or of the timer.
LEMMA NextInv == IInv /\ [Next]_vars => IInv'
<1> SUFFICES ASSUME IInv, [Next]_vars PROVE IInv'
  OBVIOUS
<1> USE ConsensusAssumption DEF IInv
<1>t. Threshold \in Nat
  BY ThresholdType
<1>f. Cardinality(approvals) \in Nat
  BY NodeSets DEF TypeOK
<1>1. CASE DecideAlone
  <2>1. TypeOK' /\ Modes' /\ Backed' /\ Tally' /\ Decision' /\ Granted'
    BY <1>1 DEF DecideAlone, TypeOK, Modes, Backed, Tally, Decision, Granted,
                saga, occ
  <2>2. ASSUME NEW p \in Peers PROVE Handler(p)'
    BY <1>1 DEF DecideAlone, Handler, Modes, saga, occ
  <2> QED BY <2>1, <2>2
<1>2. ASSUME NEW m \in {"kv", "memory"}, Begin(m) PROVE IInv'
  <2>1. TypeOK' /\ Modes' /\ Backed'
    BY <1>2 DEF Begin, TypeOK, Modes, Backed, occ
  <2>2. Cardinality(approvals') = 1
    BY <1>2, FS_Singleton DEF Begin
  <2>3. Tally' /\ Decision' /\ Granted'
    BY <1>2, <2>2 DEF Begin, Modes, Tally, Decision, Granted, occ
  <2>4. ASSUME NEW p \in Peers PROVE Handler(p)'
    <3>1. pc[p] = "idle" /\ pc'[p] = "asked" /\ p \notin yes
      BY <1>2 DEF Begin, Modes, Handler
    <3> QED BY <1>2, <3>1 DEF Begin, Handler, occ
  <2> QED BY <2>1, <2>3, <2>4
<1>3. ASSUME NEW p \in Peers, Approve(p) PROVE IInv'
  <2>1. CASE mode = "kv"
    <3>1. TypeOK' /\ Modes' /\ Backed'
      BY <1>3, <2>1 DEF Approve, TypeOK, Modes, Backed, occ
    <3>2. Tally' /\ Decision' /\ Granted'
      BY <1>3, <2>1 DEF Approve, Tally, Decision, Granted, occ
    <3>3. ASSUME NEW q \in Peers PROVE Handler(q)'
      <4>1. pc[p] = "asked" /\ p \notin yes /\ p \notin approvals
        BY <1>3 DEF Approve, Handler, Backed
      <4>2. attempts[p] < MaxAttempts
        BY <4>1 DEF Handler
      <4> QED BY <1>3, <2>1, <4>1, <4>2 DEF Approve, Handler, TypeOK, occ
    <3> QED BY <3>1, <3>2, <3>3
  <2>2. CASE mode = "memory"
    <3>1. TypeOK' /\ Modes' /\ Backed'
      BY <1>3, <2>2 DEF Approve, TypeOK, Modes, Backed, occ
    <3>2. Tally' /\ Decision' /\ Granted'
      <4>1. approvals' = approvals \cup {p} /\ p \in Peers \cup {Self}
        BY <1>3, <2>2 DEF Approve
      <4>2. Cardinality(approvals') \in Nat
            /\ Cardinality(approvals') >= Cardinality(approvals)
        <5>1. Cardinality(approvals \cup {p})
              = IF p \in approvals THEN Cardinality(approvals)
                                   ELSE Cardinality(approvals) + 1
          BY <4>1, NodeSets DEF TypeOK
        <5> QED BY <4>1, <5>1, <1>f
      <4>3. Tally'
        BY <1>3, <2>2 DEF Approve, Tally
      <4>4. Decision'
        BY <1>3, <2>2 DEF Approve, Decision, Modes
      <4>5. Granted'
        BY <1>3, <2>2, <4>2, <1>f, <1>t DEF Approve, Granted
      <4> QED BY <4>3, <4>4, <4>5
    <3>3. ASSUME NEW q \in Peers PROVE Handler(q)'
      BY <1>3, <2>2 DEF Approve, Handler, TypeOK, Modes, occ
    <3> QED BY <3>1, <3>2, <3>3
  <2> QED BY <1>3, <2>1, <2>2 DEF Approve
<1>4. ASSUME NEW p \in Peers, NoApproval(p) PROVE IInv'
  <2>1. TypeOK' /\ Modes' /\ Backed' /\ Tally' /\ Decision' /\ Granted'
    BY <1>4 DEF NoApproval, TypeOK, Modes, Backed, Tally, Decision, Granted,
                saga, occ
  <2>2. ASSUME NEW q \in Peers PROVE Handler(q)'
    BY <1>4 DEF NoApproval, Handler, TypeOK, saga, occ
  <2> QED BY <2>1, <2>2
<1>5. ASSUME NEW p \in Peers, KvGet(p) PROVE IInv'
  <2>1. mode = "kv"
    BY <1>5 DEF KvGet, Modes
  <2>2. TypeOK' /\ Modes' /\ Backed' /\ Tally' /\ Decision' /\ Granted'
    BY <1>5, <2>1 DEF KvGet, TypeOK, Modes, Backed, Tally, Decision, Granted, saga
  <2>3. ASSUME NEW q \in Peers PROVE Handler(q)'
    BY <1>5, <2>1 DEF KvGet, Handler, TypeOK, saga
  <2> QED BY <2>2, <2>3
<1>6. ASSUME NEW p \in Peers, KvCommit(p) PROVE IInv'
  <2>1. /\ mode = "kv" /\ p \in yes /\ p \notin approvals
        /\ seenBy[p] = approvals /\ status = "PENDING"
    BY <1>6 DEF KvCommit, Modes, Handler
  <2>2. /\ approvals' = approvals \cup {p} /\ version' = version + 1
        /\ pc' = [pc EXCEPT ![p] = "done"]
        /\ status' = IF Cardinality(approvals \cup {p}) >= Threshold
                     THEN "APPROVED" ELSE "PENDING"
        /\ UNCHANGED <<mode, seen, seenBy, attempts, result, yes>>
    BY <1>6, <2>1 DEF KvCommit, Write, occ
  <2>3. Cardinality(approvals') = Cardinality(approvals) + 1
    BY <2>1, <2>2, NodeSets DEF TypeOK
  <2>4. TypeOK' /\ Modes' /\ Backed'
    BY <2>1, <2>2 DEF TypeOK, Modes, Backed
  <2>5. Tally'
    BY <2>1, <2>2, <2>3 DEF Tally, TypeOK
  <2>6. Decision'
    BY <2>2, <2>3, <1>f, <1>t DEF Decision
  <2>7. Granted'
    BY <2>2, <2>3, <1>f, <1>t DEF Granted
  <2>8. ASSUME NEW q \in Peers PROVE Handler(q)'
    <3>1. CASE q = p
      BY <2>1, <2>2, <3>1 DEF Handler, TypeOK
    <3>2. CASE q # p
      BY <2>1, <2>2, <3>2 DEF Handler, TypeOK
    <3> QED BY <3>1, <3>2
  <2> QED BY <2>4, <2>5, <2>6, <2>7, <2>8
<1>7. ASSUME NEW p \in Peers, KvConflict(p) PROVE IInv'
  <2>1. /\ mode = "kv" /\ p \in yes /\ p \notin approvals
        /\ attempts[p] < MaxAttempts /\ attempts[p] + 1 <= version
    BY <1>7 DEF KvConflict, Modes, Handler, TypeOK
  <2>2. TypeOK' /\ Modes' /\ Backed'
    BY <1>7, <2>1 DEF KvConflict, TypeOK, Modes, Backed, saga
  <2>3. Tally' /\ Decision' /\ Granted'
    BY <1>7 DEF KvConflict, Tally, Decision, Granted, saga
  <2>4. ASSUME NEW q \in Peers PROVE Handler(q)'
    <3>1. CASE q = p
      BY <1>7, <2>1, <3>1 DEF KvConflict, Handler, TypeOK, saga
    <3>2. CASE q # p
      BY <1>7, <2>1, <3>2 DEF KvConflict, Handler, TypeOK, saga
    <3> QED BY <3>1, <3>2
  <2> QED BY <2>2, <2>3, <2>4
<1>12. ASSUME NEW p \in Peers, KvError(p) PROVE IInv'
  <2>1. mode = "kv" /\ p \notin approvals
    BY <1>12 DEF KvError, Modes, Handler
  <2>2. TypeOK' /\ Modes' /\ Backed'
    BY <1>12, <2>1 DEF KvError, TypeOK, Modes, Backed, saga, occ
  <2>3. Tally' /\ Decision' /\ Granted'
    BY <1>12 DEF KvError, Tally, Decision, Granted, saga, occ
  <2>4. ASSUME NEW q \in Peers PROVE Handler(q)'
    BY <1>12, <2>1 DEF KvError, Handler, TypeOK, saga, occ
  <2> QED BY <2>2, <2>3, <2>4
<1>8. CASE Watch
  <2>1. TypeOK' /\ Modes' /\ Backed' /\ Tally' /\ Decision' /\ Granted'
    BY <1>8 DEF Watch, TypeOK, Modes, Backed, Tally, Decision, Granted, saga, occ
  <2>2. ASSUME NEW q \in Peers PROVE Handler(q)'
    BY <1>8 DEF Watch, Handler, saga, occ
  <2> QED BY <2>1, <2>2
<1>9. CASE Timeout
  <2>1. TypeOK' /\ Modes' /\ Backed' /\ Tally' /\ Decision' /\ Granted'
    BY <1>9 DEF Timeout, TypeOK, Modes, Backed, Tally, Decision, Granted, saga, occ
  <2>2. ASSUME NEW q \in Peers PROVE Handler(q)'
    BY <1>9 DEF Timeout, Handler, saga, occ
  <2> QED BY <2>1, <2>2
<1>10. CASE CountVotes
  <2>1. TypeOK' /\ Modes' /\ Backed' /\ Tally' /\ Decision' /\ Granted'
    BY <1>10, <1>t, <1>f DEF CountVotes, TypeOK, Modes, Backed, Tally, Decision,
                             Granted, saga, occ
  <2>2. ASSUME NEW q \in Peers PROVE Handler(q)'
    BY <1>10 DEF CountVotes, Handler, saga, occ
  <2> QED BY <2>1, <2>2
<1>11. CASE UNCHANGED vars
  <2>1. TypeOK' /\ Modes' /\ Backed' /\ Tally' /\ Decision' /\ Granted'
    BY <1>11 DEF vars, TypeOK, Modes, Backed, Tally, Decision, Granted, saga, occ
  <2>2. ASSUME NEW q \in Peers PROVE Handler(q)'
    BY <1>11 DEF vars, Handler, saga, occ
  <2> QED BY <2>1, <2>2
<1> QED
  BY <1>1, <1>2, <1>3, <1>4, <1>5, <1>6, <1>7, <1>8, <1>9, <1>10, <1>11,
     <1>12 DEF Next, PeerStep
-----------------------------------------------------------------------------
(* What follows *)

\* The inductive invariant holds in every reachable state.
THEOREM Invariant == Spec => []IInv
BY InitInv, NextInv, PTL DEF Spec

\* Every reachable state has the types of the module.
THEOREM TypeCorrect == Spec => []TypeOK
<1>1. IInv => TypeOK
  BY DEF IInv
<1> QED BY <1>1, Invariant, PTL

\* A request the mesh granted has a quorum of approving nodes behind it,
\* whatever the number of peers and the order of their answers.
THEOREM Soundness == Spec => []QuorumSound
<1>1. IInv => QuorumSound
  <2> SUFFICES ASSUME IInv, result = "true", mode # "alone"
               PROVE  Cardinality(yes \cup {Self}) >= Threshold
    BY DEF QuorumSound
  <2>1. Cardinality(approvals) >= Threshold
    BY DEF IInv, Granted
  <2>2. yes \cup {Self} \in SUBSET (Peers \cup {Self})
        /\ approvals \in SUBSET (yes \cup {Self})
    BY DEF IInv, Backed, TypeOK
  <2>3. Cardinality(approvals) <= Cardinality(yes \cup {Self})
    BY <2>2, NodeSets
  <2>4. Cardinality(approvals) \in Nat /\ Cardinality(yes \cup {Self}) \in Nat
    BY <2>2, NodeSets DEF IInv, TypeOK
  <2> QED BY <2>1, <2>3, <2>4, ThresholdType
<1> QED BY <1>1, Invariant, PTL

\* No approval is lost to the limit of attempts of the checked commit, if
\* the quorum is at most one more than the limit.
THEOREM Completeness == Spec => []VotesCounted
<1>1. IInv => VotesCounted
  <2> SUFFICES ASSUME IInv, Threshold <= MaxAttempts + 1, mode = "kv",
                      \A p \in Peers : pc[p] = "done",
                      yes # {}, Cardinality(yes \cup {Self}) >= Threshold,
                      status # "APPROVED"
               PROVE  FALSE
    BY DEF VotesCounted
  <2>1. status = "PENDING" /\ version \in Nat /\ MaxAttempts \in Nat \ {0}
    BY ConsensusAssumption DEF IInv, TypeOK
  <2>2. Cardinality(approvals) = version + 1
    BY DEF IInv, Tally
  <2>3. version < MaxAttempts
    BY <2>1, <2>2, ThresholdType DEF IInv, Decision
  <2>4. \A p \in yes : p \in approvals
    BY <2>1, <2>3 DEF IInv, Handler, TypeOK
  <2>5. yes \in SUBSET approvals /\ approvals \in SUBSET (Peers \cup {Self})
    BY <2>4 DEF IInv, TypeOK
  <2>6. PICK p \in Peers : p \in yes
    BY DEF IInv, TypeOK
  <2>7. Cardinality(yes \cup {Self}) <= Cardinality(approvals \cup {Self})
    <3>1. yes \cup {Self} \in SUBSET (approvals \cup {Self})
          /\ approvals \cup {Self} \in SUBSET (Peers \cup {Self})
      BY <2>5
    <3> QED BY <3>1, NodeSets
  <2>8. Self \in approvals /\ approvals \cup {Self} = approvals
    BY DEF IInv, Modes
  <2>9. Cardinality({Self} \cup {p}) <= Cardinality(approvals)
    <3>1. {Self} \cup {p} \in SUBSET approvals
      BY <2>5, <2>6, <2>8
    <3> QED BY <2>5, <3>1, NodeSets
  <2>10. Cardinality({Self} \cup {p}) = 2
    <3>1. Cardinality({Self}) = 1 /\ p \notin {Self}
      BY ConsensusAssumption, <2>6, FS_Singleton
    <3> QED BY <2>6, <3>1, NodeSets
  <2>11. Cardinality(approvals) < Threshold
    BY <2>1, <2>2, <2>9, <2>10 DEF IInv, Decision
  <2>12. Cardinality(yes \cup {Self}) \in Nat /\ Cardinality(approvals) \in Nat
    BY <2>5, NodeSets DEF IInv, TypeOK
  <2> QED BY <2>7, <2>8, <2>11, <2>12, ThresholdType
<1> QED BY <1>1, Invariant, PTL

\* An approved saga never changes again.
THEOREM Finality == Spec => ApprovedStays
<1>1. ASSUME IInv, [Next]_vars, status = "APPROVED" PROVE UNCHANGED saga
  <2> USE <1>1
  <2>1. ASSUME NEW p \in Peers, PeerStep(p) PROVE UNCHANGED saga
    <3>1. ~KvCommit(p)
      BY DEF IInv, Handler, KvCommit
    <3>2. CASE Approve(p)
      BY <3>2 DEF Approve, IInv, Modes, saga
    <3> QED BY <2>1, <3>1, <3>2
           DEF PeerStep, NoApproval, KvGet, KvConflict, KvError
  <2>2. mode = "kv"
    BY DEF IInv, Modes
  <2> QED BY <2>1, <2>2
          DEF Next, DecideAlone, Begin, Watch, Timeout, CountVotes, vars, saga
<1> QED BY <1>1, Invariant, PTL DEF Spec, ApprovedStays

-----------------------------------------------------------------------------
(* The node: its table of peers, its polls and its proposals, all moving   *)
(* together (MeshNode).                                                    *)

\* A vote is open only while the executions of a proposal are fewer than the
\* times it became known.
VoteOpen ==
    \A x \in Proposals : x \notin known \/ x \notin executed => execs[x] <= dropped[x]

GovInv ==
    /\ known \subseteq Proposals
    /\ execs \in [Proposals -> Nat] /\ dropped \in [Proposals -> Nat]
    /\ VoteOpen /\ GovOnce

\* A verdict is about the answers it was taken from.
PollInv ==
    /\ table \in [Members -> {"none", "unverified", "verified"}]
    /\ IsFiniteSet(answered) /\ size \in Nat
    /\ poll # "none" => verdict = "none"
    /\ PollSound

LEMMA NodeInit == Node!Init => GovInv /\ PollInv
<1>1. SUFFICES ASSUME Node!Init PROVE GovInv /\ PollInv
  OBVIOUS
<1>2. GovInv
  BY <1>1 DEF Node!Init, GovInv, VoteOpen, GovOnce, Node!GovOnce
<1>3. PollInv
  BY <1>1, FS_EmptySet DEF Node!Init, PollInv, PollSound, Node!PollSound
<1>4. QED
  BY <1>2, <1>3

LEMMA NodeStutter ==
    /\ GovInv /\ UNCHANGED Node!gov => GovInv'
    /\ PollInv /\ UNCHANGED <<table, answered, size, poll, verdict>> => PollInv'
<1>1. GovInv /\ UNCHANGED Node!gov => GovInv'
  BY DEF GovInv, VoteOpen, GovOnce, Node!GovOnce, Node!gov
<1>2. PollInv /\ UNCHANGED <<table, answered, size, poll, verdict>> => PollInv'
  BY DEF PollInv, PollSound, Node!PollSound
<1>3. QED
  BY <1>1, <1>2

\* The instance counts as this module does.
LEMMA NodeCardinality == \A S : Node!Cardinality(S) = Cardinality(S)
  BY DEF Node!Cardinality, Cardinality

\* Discovery, validation, isolation and re-verification change neither a poll
\* under way nor a proposal.
LEMMA MembershipStep == GovInv /\ PollInv /\ Node!Membership => GovInv' /\ PollInv'
<1>1. SUFFICES ASSUME GovInv, PollInv, Node!Membership PROVE GovInv' /\ PollInv'
  OBVIOUS
<1>2. UNCHANGED Node!gov /\ UNCHANGED <<answered, size, poll, verdict>>
  BY <1>1 DEF Node!Membership, Node!OnInit, Node!OnShutdown, Node!ResyncNodes, Node!ProbeNode,
              Node!Announced, Node!Validate, Node!Age, Node!IsolateNode, Node!ResyncNext,
              Node!PingPasses, Node!PingFails, Node!polls
<1>3. table' \in [Members -> {"none", "unverified", "verified"}]
  BY <1>1 DEF Node!Membership, Node!OnInit, Node!OnShutdown, Node!ResyncNodes, Node!ProbeNode,
              Node!Announced, Node!Validate, Node!Age, Node!IsolateNode, Node!ResyncNext,
              Node!PingPasses, Node!PingFails, PollInv
<1>4. QED
  BY <1>1, <1>2, <1>3, NodeStutter DEF PollInv, PollSound, Node!PollSound

\* What the two thresholds promise.
LEMMA PollThresholds ==
    ASSUME NEW n \in Nat, NEW k \in Nat
    PROVE  /\ k >= Node!Majority(n + 1) => 2 * k > n + 1
           /\ k >= Node!TwoThirds(n + 1) => 2 * k > n + 1
           /\ n > 2 /\ k >= Node!TwoThirds(n + 1) => 3 * k > 2 * (n + 1)
  BY DEF Node!Majority, Node!TwoThirds

LEMMA PollingStep == GovInv /\ PollInv /\ Node!Polling => GovInv' /\ PollInv'
<1>1. SUFFICES ASSUME GovInv, PollInv, Node!Polling PROVE GovInv' /\ PollInv'
  OBVIOUS
<1>2. UNCHANGED Node!gov /\ UNCHANGED table
  BY <1>1 DEF Node!Polling, Node!BeginPoll, Node!PollPeer, Node!EndApproval, Node!EndSplit,
              Node!HeadMoves, Node!net
<1>3. IsFiniteSet(answered) /\ Cardinality(answered) \in Nat /\ size \in Nat
  BY <1>1, FS_CardinalityType DEF PollInv
<1>4. SUFFICES PollInv'
  BY <1>1, <1>2, NodeStutter
<1>5. ASSUME NEW kind \in {"approval", "split"}, Node!BeginPoll(kind)
      PROVE  PollInv'
  <2>1. IsFiniteSet(Node!Verified)
    BY <1>1, MembersAssumption, FS_Subset DEF Node!Verified, PollInv
  <2>2. size' \in Nat /\ answered' = {} /\ verdict' = "none"
    BY <1>5, <2>1, FS_CardinalityType, NodeCardinality DEF Node!BeginPoll
  <2>3. QED
    BY <1>1, <1>2, <2>2, FS_EmptySet DEF PollInv, PollSound, Node!PollSound
<1>6. ASSUME NEW p \in Members, Node!PollPeer(p)
      PROVE  PollInv'
  <2>1. verdict' = "none" /\ UNCHANGED <<size, poll>>
    BY <1>1, <1>6 DEF Node!PollPeer, PollInv
  <2>2. IsFiniteSet(answered')
    BY <1>3, <1>6, FS_AddElement DEF Node!PollPeer
  <2>3. QED
    BY <1>1, <1>2, <2>1, <2>2 DEF PollInv, PollSound, Node!PollSound
<1>7. CASE Node!EndApproval
  <2>1. /\ poll' = "none" /\ UNCHANGED <<answered, size>>
        /\ verdict' \in {"approved", "denied"}
        /\ verdict' = "approved" => Cardinality(answered) >= Node!Majority(size + 1)
    BY <1>7, NodeCardinality DEF Node!EndApproval
  <2>2. verdict' = "approved" => 2 * Cardinality(answered) > size + 1
    BY <1>3, <2>1, PollThresholds
  <2>3. QED
    BY <1>1, <1>2, <2>1, <2>2, NodeCardinality DEF PollInv, PollSound, Node!PollSound
<1>8. CASE Node!EndSplit
  <2>1. PICK held \in BOOLEAN :
           /\ poll' = "none" /\ UNCHANGED <<answered, size>>
           /\ verdict' = IF /\ Cardinality(answered) + (IF held THEN 1 ELSE 0) >= Node!TwoThirds(size + 1)
                            /\ ~head
                         THEN "alarm" ELSE "quiet"
    BY <1>8, NodeCardinality DEF Node!EndSplit
  <2>2. PICK k, n : k = Cardinality(answered) + (IF held THEN 1 ELSE 0) /\ n = size
    OBVIOUS
  <2>3. k \in Nat /\ n \in Nat /\ k <= Cardinality(answered) + 1
    BY <1>3, <2>2
  <2>4. verdict' \in {"alarm", "quiet"} /\ (verdict' = "alarm" => k >= Node!TwoThirds(n + 1))
    BY <2>1, <2>2
  <2>5. /\ k >= Node!TwoThirds(n + 1) => 2 * k > n + 1
        /\ n > 2 /\ k >= Node!TwoThirds(n + 1) => 3 * k > 2 * (n + 1)
    BY <2>3, PollThresholds
  <2>6. /\ verdict' = "alarm" => 2 * (Cardinality(answered) + 1) > n + 1
        /\ verdict' = "alarm" /\ n > 2 => 3 * (Cardinality(answered) + 1) > 2 * (n + 1)
    BY <1>3, <2>3, <2>4, <2>5
  <2>7. QED
    BY <1>1, <1>2, <2>1, <2>2, <2>4, <2>6, NodeCardinality DEF PollInv, PollSound, Node!PollSound
<1>9. CASE Node!HeadMoves
  BY <1>1, <1>2, <1>9, NodeStutter DEF Node!HeadMoves
<1>10. QED
  BY <1>1, <1>5, <1>6, <1>7, <1>8, <1>9 DEF Node!Polling

\* handleVote with the flag and the lock of executeProposal.
LEMMA TakeVoteEffect ==
    ASSUME GovInv, NEW x \in Proposals, execs[x] <= dropped[x], NEW v, NEW answer, NEW vs,
           Node!TakeVote(x, v, answer, vs), UNCHANGED dropped,
           known' = known \cup {x}
    PROVE  GovInv'
<1>1. CASE UNCHANGED <<executed, running, execs>>
  BY <1>1 DEF GovInv, VoteOpen, GovOnce, Node!GovOnce
<1>2. CASE Node!Execute(x)
  <2>1. executed' = executed \cup {x} /\ execs' = [execs EXCEPT ![x] = @ + 1]
    BY <1>2 DEF Node!Execute
  <2>2. /\ execs' \in [Proposals -> Nat] /\ execs'[x] = execs[x] + 1
        /\ \A y \in Proposals : y # x => execs'[y] = execs[y]
    BY <2>1 DEF GovInv
  <2>3. execs'[x] <= 1 + dropped[x]
    BY <2>2 DEF GovInv
  <2>4. GovOnce'
    BY <2>2, <2>3 DEF GovInv, GovOnce, Node!GovOnce
  <2>5. QED
    BY <2>1, <2>2, <2>4 DEF GovInv, VoteOpen
<1>3. QED
  BY <1>1, <1>2 DEF Node!TakeVote

LEMMA GovernanceStep == GovInv /\ PollInv /\ Node!Governance => GovInv' /\ PollInv'
<1>1. SUFFICES ASSUME GovInv, PollInv, Node!Governance PROVE GovInv' /\ PollInv'
  OBVIOUS
<1>2. PICK x \in Proposals :
         \/ Node!Propose(x) \/ Node!HandleProposal(x) \/ Node!ExecutionEnds(x)
         \/ Node!CleanupProposal(x)
         \/ \E v \in Node!Voters, answer \in {"yes", "no"} : Node!HandleVote(x, v, answer)
  BY <1>1 DEF Node!Governance
<1>3. UNCHANGED <<table, answered, size, poll, verdict>>
  BY <1>2 DEF Node!Propose, Node!HandleProposal, Node!ExecutionEnds, Node!CleanupProposal,
              Node!HandleVote, Node!net, Node!polls
<1>4. SUFFICES GovInv'
  BY <1>1, <1>3, NodeStutter
<1>5. CASE Node!Propose(x)
  <2>1. x \notin known /\ known' = known \cup {x} /\ UNCHANGED dropped
    BY <1>5 DEF Node!Propose
  <2>2. execs[x] <= dropped[x]
    BY <1>1, <2>1 DEF GovInv, VoteOpen
  <2>3. CASE UNCHANGED <<executed, running, execs>>
    BY <1>1, <2>1, <2>2, <2>3 DEF GovInv, VoteOpen, GovOnce, Node!GovOnce
  <2>4. CASE ~UNCHANGED <<executed, running, execs>>
    <3>1. PICK own : Node!TakeVote(x, Node!ThisNode, "yes", own)
      BY <1>5, <2>4 DEF Node!Propose
    <3>2. PICK t : t = Node!ThisNode
      OBVIOUS
    <3>3. QED
      BY <1>1, <2>1, <2>2, <3>1, <3>2, TakeVoteEffect DEF GovInv
  <2>5. QED
    BY <2>3, <2>4
<1>6. CASE Node!HandleProposal(x)
  BY <1>1, <1>6 DEF Node!HandleProposal, GovInv, VoteOpen, GovOnce, Node!GovOnce
<1>7. CASE Node!ExecutionEnds(x)
  BY <1>1, <1>7 DEF Node!ExecutionEnds, GovInv, VoteOpen, GovOnce, Node!GovOnce
<1>8. CASE Node!CleanupProposal(x)
  <2>1. /\ known' = known \ {x} /\ UNCHANGED <<executed, execs>>
        /\ dropped' = [dropped EXCEPT ![x] = @ + 1]
    BY <1>8 DEF Node!CleanupProposal
  <2>2. /\ dropped' \in [Proposals -> Nat] /\ dropped'[x] = dropped[x] + 1
        /\ \A y \in Proposals : y # x => dropped'[y] = dropped[y]
    BY <1>1, <2>1 DEF GovInv
  <2>3. execs[x] <= 1 + dropped[x] /\ dropped[x] \in Nat /\ execs[x] \in Nat
    BY <1>1 DEF GovInv, GovOnce, Node!GovOnce
  <2>4. execs[x] <= dropped'[x] /\ execs[x] <= 1 + dropped'[x]
    BY <2>2, <2>3
  <2>5. VoteOpen' /\ GovOnce'
    BY <1>1, <2>1, <2>2, <2>4 DEF GovInv, VoteOpen, GovOnce, Node!GovOnce
  <2>6. QED
    BY <1>1, <2>1, <2>2, <2>5 DEF GovInv
<1>9. ASSUME NEW v \in Node!Voters, NEW answer \in {"yes", "no"}, Node!HandleVote(x, v, answer)
      PROVE  GovInv'
  <2>1. x \in known \ executed /\ Node!TakeVote(x, v, answer, votes) /\ UNCHANGED <<known, dropped>>
    BY <1>9 DEF Node!HandleVote
  <2>2. PICK vs : vs = votes
    OBVIOUS
  <2>3. execs[x] <= dropped[x] /\ known' = known \cup {x}
    BY <1>1, <2>1 DEF GovInv, VoteOpen
  <2>4. QED
    BY <1>1, <2>1, <2>2, <2>3, TakeVoteEffect
<1>10. QED
  BY <1>2, <1>5, <1>6, <1>7, <1>8, <1>9

LEMMA NodeStep == GovInv /\ PollInv /\ [Node!Next]_(Node!vars) => GovInv' /\ PollInv'
<1>1. GovInv /\ PollInv /\ UNCHANGED Node!vars => GovInv' /\ PollInv'
  BY NodeStutter DEF Node!vars, Node!net, Node!polls
<1>2. QED
  BY <1>1, MembershipStep, PollingStep, GovernanceStep DEF Node!Next

\* handleVote and executeProposal carry out a proposal at most once for every
\* time it became known, for any number of voters, votes and proposals, and
\* with polls, isolation and re-verification going on in the same table.
THEOREM ProposalsRunOnce == Node!Spec => []GovOnce
<1>1. GovInv => GovOnce
  BY DEF GovInv
<1>2. QED
  BY <1>1, NodeInit, NodeStep, PTL DEF Node!Spec

\* requestApproval and resolveSplitBrain decide by the mesh they began with,
\* for a mesh of any size and whatever happens to the table meanwhile.
THEOREM PollsDecideSoundly == Node!Spec => []PollSound
<1>1. PollInv => PollSound
  BY DEF PollInv
<1>2. QED
  BY <1>1, NodeInit, NodeStep, PTL DEF Node!Spec
=============================================================================
