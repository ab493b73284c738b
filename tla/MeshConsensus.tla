---------------------------- MODULE MeshConsensus ----------------------------
(***************************************************************************)
(* One quorum request of MeshConsensusManager: the verified peers are      *)
(* asked at the same time; the answers are counted in a saga record in KV, *)
(* each by a read and a checked commit repeated at most MaxAttempts times, *)
(* while a watcher and a timer race to resolve the request; without KV     *)
(* they are counted in memory and the request waits for all of them.       *)
(* Requests have records of their own, so one request is modelled.         *)
(***************************************************************************)
EXTENDS Naturals, FiniteSets

CONSTANTS
    Self,               \* this node's id
    Peers,              \* verified nodes seen in the last ten minutes
    MaxAttempts,        \* tries of the checked commit, 5 in the code
    AllowSmallQuorum    \* ALLOW_SMALL_QUORUM, TRUE unless configured

ASSUME ConsensusAssumption ==
    /\ IsFiniteSet(Peers) /\ Self \notin Peers
    /\ MaxAttempts \in Nat \ {0}
    /\ AllowSmallQuorum \in BOOLEAN

VARIABLES
    mode,       \* how the request runs: "none", "alone", "kv" or "memory"
    approvals,  \* saga.approvals, or those counted in memory
    status,     \* saga.status; nobody ever writes DENIED
    version,    \* versionstamp of the saga: commits so far
    pc,         \* where the handling of each peer's answer is
    seen,       \* version each peer's handler has read
    seenBy,     \* approvals each peer's handler has read
    attempts,   \* failed commits of each peer's handler
    result,     \* what requestQuorumCommand resolves to
    yes         \* peers whose signed approval arrived, KV errors apart

saga == <<approvals, status, version>>
occ  == <<seen, seenBy, attempts>>
vars == <<mode, saga, pc, occ, result, yes>>

NodeCount == Cardinality(Peers) + 1

\* Half and one; two thirds and one from four nodes on; one of two if allowed.
Quorum(n) ==
    IF n = 2 /\ AllowSmallQuorum THEN 1
    ELSE IF n >= 4 THEN (2 * n) \div 3 + 1
    ELSE n \div 2 + 1

Threshold == Quorum(NodeCount)

Init ==
    /\ mode = "none"
    /\ approvals = {} /\ status = "PENDING" /\ version = 0
    /\ pc = [p \in Peers |-> "idle"]
    /\ seen = [p \in Peers |-> 0] /\ seenBy = [p \in Peers |-> {}]
    /\ attempts = [p \in Peers |-> 0]
    /\ result = "none" /\ yes = {}

-----------------------------------------------------------------------------
\* A single node, or SINGLE_NODE in the environment, decides alone.
DecideAlone ==
    /\ mode = "none"
    /\ mode' = "alone" /\ result' = "true"
    /\ UNCHANGED <<saga, pc, occ, yes>>

\* The saga is written, the request is signed and sent to every peer.
Begin(m) ==
    /\ mode = "none" /\ NodeCount # 1
    /\ mode' = m
    /\ approvals' = {Self}
    /\ pc' = [p \in Peers |-> "asked"]
    /\ result' = "pending"
    /\ UNCHANGED <<status, version, occ, yes>>

\* An approval with a valid signature; without KV it is counted at once.
Approve(p) ==
    /\ pc[p] = "asked"
    /\ yes' = yes \cup {p}
    /\ \/ mode = "kv" /\ pc' = [pc EXCEPT ![p] = "read"] /\ UNCHANGED approvals
       \/ mode = "memory" /\ pc' = [pc EXCEPT ![p] = "done"]
          /\ approvals' = approvals \cup {p}
    /\ UNCHANGED <<mode, status, version, occ, result>>

\* A refusal, a bad signature, an error or no answer in fifteen seconds.
NoApproval(p) ==
    /\ pc[p] = "asked"
    /\ pc' = [pc EXCEPT ![p] = "done"]
    /\ UNCHANGED <<mode, saga, occ, result, yes>>

\* kv.get: nothing is left to do once the saga is decided.
KvGet(p) ==
    /\ pc[p] = "read"
    /\ \/ status # "PENDING" /\ pc' = [pc EXCEPT ![p] = "done"]
          /\ UNCHANGED <<seen, seenBy>>
       \/ status = "PENDING" /\ pc' = [pc EXCEPT ![p] = "commit"]
          /\ seen' = [seen EXCEPT ![p] = version]
          /\ seenBy' = [seenBy EXCEPT ![p] = approvals]
    /\ UNCHANGED <<mode, saga, attempts, result, yes>>

\* The record a handler writes.
Write(p) ==
    LET all == seenBy[p] \cup {p} IN
    /\ approvals' = all
    /\ status' = IF Cardinality(all) >= Threshold THEN "APPROVED" ELSE "PENDING"
    /\ version' = version + 1
    /\ pc' = [pc EXCEPT ![p] = "done"]

\* Mutant of KvCommit: the handler counts itself twice.
KvCommitCountsTwice(p) ==
    LET all == seenBy[p] \cup {p} IN
    /\ pc[p] = "commit" /\ seen[p] = version
    /\ approvals' = all
    /\ status' = IF Cardinality(all) + 1 >= Threshold THEN "APPROVED" ELSE "PENDING"
    /\ version' = version + 1
    /\ pc' = [pc EXCEPT ![p] = "done"]
    /\ UNCHANGED <<mode, occ, result, yes>>

KvCommit(p) ==
    /\ pc[p] = "commit" /\ seen[p] = version
    /\ Write(p)
    /\ UNCHANGED <<mode, occ, result, yes>>

\* Mutant of KvConflict: one attempt less.
KvConflictGivesUp(p) ==
    /\ pc[p] = "commit" /\ seen[p] # version
    /\ attempts' = [attempts EXCEPT ![p] = @ + 1]
    /\ pc' = [pc EXCEPT ![p] = IF attempts[p] + 2 < MaxAttempts THEN "read" ELSE "done"]
    /\ UNCHANGED <<mode, saga, seen, seenBy, result, yes>>

\* Another handler was faster: read again, or give up.
KvConflict(p) ==
    /\ pc[p] = "commit" /\ seen[p] # version
    /\ attempts' = [attempts EXCEPT ![p] = @ + 1]
    /\ pc' = [pc EXCEPT ![p] = IF attempts[p] + 1 < MaxAttempts THEN "read" ELSE "done"]
    /\ UNCHANGED <<mode, saga, seen, seenBy, result, yes>>

\* kv.get or the commit throws: the approval is logged and dropped.
KvError(p) ==
    /\ pc[p] \in {"read", "commit"}
    /\ pc' = [pc EXCEPT ![p] = "done"]
    /\ yes' = yes \ {p}
    /\ UNCHANGED <<mode, saga, occ, result>>

\* The watcher sees the approved saga.
Watch ==
    /\ mode = "kv" /\ result = "pending" /\ status = "APPROVED"
    /\ result' = "true"
    /\ UNCHANGED <<mode, saga, pc, occ, yes>>

\* Fifteen seconds are over, or the watcher failed.
Timeout ==
    /\ mode = "kv" /\ result = "pending"
    /\ result' = "false"
    /\ UNCHANGED <<mode, saga, pc, occ, yes>>

\* Without KV, Promise.all and a comparison.
CountVotes ==
    /\ mode = "memory" /\ result = "pending"
    /\ \A p \in Peers : pc[p] = "done"
    /\ result' = IF Cardinality(approvals) >= Threshold THEN "true" ELSE "false"
    /\ UNCHANGED <<mode, saga, pc, occ, yes>>

-----------------------------------------------------------------------------
PeerStep(p) ==
    \/ Approve(p) \/ NoApproval(p)
    \/ KvGet(p) \/ KvCommit(p) \/ KvConflict(p) \/ KvError(p)

Next ==
    \/ DecideAlone
    \/ \E m \in {"kv", "memory"} : Begin(m)
    \/ \E p \in Peers : PeerStep(p)
    \/ Watch \/ Timeout \/ CountVotes

\* Every call to a peer has a time limit; timers fire, KV answers.
Fairness ==
    /\ WF_vars(Watch) /\ WF_vars(Timeout) /\ WF_vars(CountVotes)
    /\ \A p \in Peers : WF_vars(PeerStep(p))

Spec == Init /\ [][Next]_vars /\ Fairness

-----------------------------------------------------------------------------
(* Properties.                                                             *)

\* Types of the record, the handlers and the outcome.
TypeOK ==
    /\ mode \in {"none", "alone", "kv", "memory"}
    /\ approvals \subseteq Peers \cup {Self}
    /\ status \in {"PENDING", "APPROVED"}
    /\ version \in Nat
    /\ pc \in [Peers -> {"idle", "asked", "read", "commit", "done"}]
    /\ seen \in [Peers -> Nat]
    /\ seenBy \in [Peers -> SUBSET (Peers \cup {Self})]
    /\ attempts \in [Peers -> 0 .. MaxAttempts]
    /\ result \in {"none", "pending", "true", "false"}
    /\ yes \subseteq Peers

\* A request that was put to the mesh and granted has a quorum of nodes
\* behind it: this one and peers whose signed approval arrived.
QuorumSound ==
    result = "true" /\ mode # "alone" => Cardinality(yes \cup {Self}) >= Threshold

\* No approval is lost to the limit of attempts: when every answer has been
\* handled, enough approvals (those KV refused apart) mean an approved saga.  The limit is high enough
\* as long as the quorum is at most one more than it.
VotesCounted ==
    (/\ Threshold <= MaxAttempts + 1
     /\ mode = "kv" /\ \A p \in Peers : pc[p] = "done"
     /\ yes # {} /\ Cardinality(yes \cup {Self}) >= Threshold)
        => status = "APPROVED"

\* An approved saga is final: no handler that read it earlier takes it back.
ApprovedStays == [][status = "APPROVED" => UNCHANGED saga]_vars

=============================================================================
