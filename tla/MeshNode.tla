------------------------------- MODULE MeshNode -------------------------------
(***************************************************************************)
(* One node of the mesh: MeshManager's table of peers with discovery,      *)
(* validation, isolation, re-verification and identity rotation, the two   *)
(* loops that poll every peer (requestApproval, resolveSplitBrain), and    *)
(* the proposals and votes of GovernanceService, whose quorum is taken     *)
(* from the same table.  Quorum requests are in MeshConsensus.             *)
(* Peers and their answers are the environment.  The time since a peer was *)
(* last seen matters at 600 s, when it no longer counts as active.         *)
(***************************************************************************)
EXTENDS Naturals, FiniteSets

CONSTANTS
    Peers,       \* the other nodes
    Proposals,   \* ids of proposals
    Kind,        \* the type of each proposal
    MaxRounds,   \* bound: resyncs and polls
    MaxCuts      \* bound: isolations

ThisNode == "self"
Voters == Peers \cup {ThisNode}

VARIABLES
    state,       \* "new", "ready", or "down" after onShutdown
    client,      \* the mTLS client exists
    table,       \* nodes: what is known of each peer
    fresh,       \* the peers of the table seen within the last 600 s
    pings,       \* validations waiting for the answer to their ping
    todo,        \* peers the running resyncNodes has not come to
    detached,    \* of these, the ones whose table entry was replaced since
    poll,        \* the running poll: "none", "approval" or "split"
    ask,         \* peers it has not asked
    yes,         \* peers whose answer counts for it
    size,        \* verified peers when it began
    head,        \* the local chain head is the one of the majority
    verdict,     \* what the last poll came to
    rounds,      \* resyncs and polls so far
    cuts,        \* isolations so far
    known,       \* proposals
    votes,       \* the voters whose latest vote approves the proposal
    executed,    \* proposals with the executed flag
    running,     \* executionLocks
    execs,       \* how often each proposal was executed
    dropped      \* how often cleanupProposals dropped it

net == <<state, client, table, fresh, pings, todo, detached>>
polls == <<poll, ask, yes, size, head, verdict>>
gov == <<known, votes, executed, running, execs, dropped>>
vars == <<net, polls, rounds, cuts, gov>>

Init ==
    /\ state = "new" /\ client = FALSE
    /\ table = [p \in Peers |-> "none"] /\ fresh = {}
    /\ pings = {} /\ todo = {} /\ detached = {}
    /\ poll = "none" /\ ask = {} /\ yes = {} /\ size = 0
    /\ head = TRUE /\ verdict = "none" /\ rounds = 0 /\ cuts = 0
    /\ known = {} /\ votes = [x \in Proposals |-> {}]
    /\ executed = {} /\ running = {}
    /\ execs = [x \in Proposals |-> 0] /\ dropped = [x \in Proposals |-> 0]

-----------------------------------------------------------------------------
(* MeshManager: life and membership.                                       *)

Verified == {p \in DOMAIN table : table[p] = "verified"}

\* getActiveNodeCount: whoever is in the table and was seen within 600 s,
\* verified or not.
Active == fresh

\* onInit goes on without an mTLS client when the certificate cannot be made.
OnInit ==
    /\ state = "new" /\ state' = "ready"
    /\ client' \in BOOLEAN
    /\ UNCHANGED <<table, fresh, pings, todo, detached, polls, rounds, cuts, gov>>

OnShutdown ==
    /\ state = "ready" /\ state' = "down"
    /\ client' = FALSE
    /\ table' = [p \in Peers |-> "none"]
    /\ fresh' = {} /\ detached' = todo
    /\ UNCHANGED <<pings, todo, polls, rounds, cuts, gov>>

\* The first half of validateAndRegisterNode: a verified peer is only marked as
\* seen, any other of an allowed address is pinged if there is a client.
Validate(p) ==
    /\ state = "ready"
    /\ \/ /\ table[p] = "verified"
          /\ fresh' = fresh \cup {p}
          /\ UNCHANGED pings
       \/ /\ table[p] # "verified" /\ client
          /\ pings' = pings \cup {<<p, "probe">>}
          /\ UNCHANGED fresh
    /\ UNCHANGED <<state, client, table, todo, detached, polls, rounds, cuts, gov>>

\* discoverSubnet probes an address and a peer answers.
ProbeNode(p) == client /\ Validate(p)

\* listenForDiscovery receives an announcement that is recent and well signed.
Announced(p) == Validate(p)

\* The answer passes every check of validateAndRegisterNode: registerNode puts
\* a new entry into the table, whatever happened to the old one meanwhile.
PingPasses(p, who) ==
    /\ <<p, who>> \in pings
    /\ pings' = pings \ {<<p, who>>}
    /\ table' = [table EXCEPT ![p] = "verified"]
    /\ fresh' = fresh \cup {p}
    /\ detached' = detached \cup (todo \cap {p})
    /\ UNCHANGED <<state, client, todo, polls, rounds, cuts, gov>>

\* Mutant of PingFails: a ping without a time limit ends only with an answer.
PingFailsAnswered(p, who) ==
    /\ <<p, who>> \in pings /\ table[p] # "unverified"
    /\ pings' = pings \ {<<p, who>>}
    /\ UNCHANGED <<state, client, table, fresh, todo, detached, polls, rounds, cuts, gov>>

\* It does not, or the handshake times out: the table stays as it is.
PingFails(p, who) ==
    /\ <<p, who>> \in pings
    /\ pings' = pings \ {<<p, who>>}
    /\ UNCHANGED <<state, client, table, fresh, todo, detached, polls, rounds, cuts, gov>>

\* Nothing has been heard of the peer for a while.
Age(p) ==
    /\ p \in fresh /\ fresh' = fresh \ {p}
    /\ UNCHANGED <<state, client, table, pings, todo, detached, polls, rounds, cuts, gov>>

IsolateNode(p) ==
    /\ table[p] # "none" /\ cuts < MaxCuts
    /\ cuts' = cuts + 1
    /\ table' = [table EXCEPT ![p] = "none"] /\ fresh' = fresh \ {p}
    /\ detached' = detached \cup (todo \cap {p})
    /\ UNCHANGED <<state, client, pings, todo, polls, rounds, gov>>

\* resyncNodes takes the peers of the table and validates one after the other.
ResyncNodes ==
    /\ state = "ready" /\ todo = {} /\ rounds < MaxRounds
    /\ rounds' = rounds + 1
    /\ todo' = {p \in Peers : table[p] # "none"} /\ detached' = {}
    /\ UNCHANGED <<state, client, table, fresh, pings, polls, cuts, gov>>

\* An entry replaced since is marked in vain: the new one is looked at.
ResyncNext(p) ==
    /\ p \in todo /\ \A q \in Peers : <<q, "resync">> \notin pings
    /\ LET marked == IF p \in detached THEN table
                     ELSE [table EXCEPT ![p] = "unverified"]
       IN /\ table' = marked
          /\ IF marked[p] = "verified"
             THEN fresh' = fresh \cup {p} /\ UNCHANGED pings
             ELSE /\ pings' = IF client THEN pings \cup {<<p, "resync">>} ELSE pings
                  /\ UNCHANGED fresh
    /\ todo' = todo \ {p} /\ detached' = detached \ {p}
    /\ UNCHANGED <<state, client, polls, rounds, cuts, gov>>

\* rotateIdentity drops the client so that init() makes a new one; init()
\* returns at once in a service that is initialized.
RotateIdentity ==
    client' = IF state = "new" THEN client ELSE FALSE

-----------------------------------------------------------------------------
(* The two polls: snapshots of the verified peers, asked one at a time.    *)

\* The majority of requestApproval, and the two-thirds rule of
\* resolveSplitBrain; n is the size of the mesh with this node.
Majority(n) == n \div 2 + 1

TwoThirds(n) == IF n >= 4 THEN (2 * n) \div 3 + 1 ELSE Majority(n)

\* A poll begins with the peers verified now.  No caller of requestApproval
\* gives a threshold of its own, and a majority of the mesh is never too many.
BeginPoll(kind) ==
    /\ state = "ready" /\ poll = "none" /\ rounds < MaxRounds
    /\ kind = "split" => Verified # {}
    /\ rounds' = rounds + 1
    /\ poll' = kind /\ ask' = Verified /\ yes' = {}
    /\ size' = Cardinality(Verified)
    /\ verdict' = "none"
    /\ UNCHANGED <<net, head, cuts, gov>>

\* A peer answers with an approval or with the root that is not ours, or
\* with anything else; without a client every request fails.
PollPeer(p) ==
    /\ poll # "none" /\ p \in ask
    /\ ask' = ask \ {p}
    /\ \/ client /\ yes' = yes \cup {p}
       \/ UNCHANGED yes
    /\ UNCHANGED <<net, poll, size, head, verdict, rounds, cuts, gov>>

\* Mutant of EndApproval: the threshold is taken from the table as it is now.
EndApprovalNow ==
    /\ poll = "approval" /\ ask = {}
    /\ poll' = "none"
    /\ verdict' = IF Cardinality(yes) >= Majority(Cardinality(Verified) + 1)
                  THEN "approved" ELSE "denied"
    /\ UNCHANGED <<net, ask, yes, size, head, rounds, cuts, gov>>

\* requestApproval counts the peers only.
EndApproval ==
    /\ poll = "approval" /\ ask = {}
    /\ poll' = "none"
    /\ verdict' = IF Cardinality(yes) >= Majority(size + 1)
                  THEN "approved" ELSE "denied"
    /\ UNCHANGED <<net, ask, yes, size, head, rounds, cuts, gov>>

\* resolveSplitBrain adds its own vote when it holds the root, and raises
\* the alarm when it no longer does; the state it then asks a peer for is
\* dropped by requestAuditSync.
EndSplit ==
    /\ poll = "split" /\ ask = {}
    /\ poll' = "none"
    /\ \E held \in BOOLEAN :
          /\ head = FALSE \/ held
          /\ LET n == Cardinality(yes) + (IF held THEN 1 ELSE 0)
             IN verdict' = IF n >= TwoThirds(size + 1) /\ ~head
                           THEN "alarm" ELSE "quiet"
    /\ UNCHANGED <<net, ask, yes, size, head, rounds, cuts, gov>>

\* The local chain grows past the majority's root, or reaches it.
HeadMoves ==
    /\ poll = "split" /\ head' = ~head
    /\ UNCHANGED <<net, poll, ask, yes, size, verdict, rounds, cuts, gov>>

-----------------------------------------------------------------------------
(* GovernanceService.                                                      *)

\* The quorum of handleVote; a node that is alone asks nobody.
QuorumReached(x, vs) ==
    \/ Active = {}
    \/ Cardinality(vs[x]) >= Majority(Cardinality(Active) + 1)

Execute(x) ==
    /\ executed' = executed \cup {x} /\ running' = running \cup {x}
    /\ execs' = [execs EXCEPT ![x] = @ + 1]

\* handleVote, with the flag and the lock of executeProposal.
TakeVote(x, v, answer, vs) ==
    LET new == [vs EXCEPT ![x] = IF answer = "yes" THEN @ \cup {v} ELSE @ \ {v}]
    IN /\ votes' = new
       /\ IF QuorumReached(x, new) /\ x \notin running
          THEN Execute(x)
          ELSE UNCHANGED <<executed, running, execs>>

\* propose: the proposer votes for itself, and decides at once when alone.
Propose(x) ==
    /\ x \notin known /\ execs[x] = 0
    /\ known' = known \cup {x}
    /\ LET own == [votes EXCEPT ![x] = {ThisNode}]
       IN IF Active = {} THEN TakeVote(x, ThisNode, "yes", own)
          ELSE votes' = own /\ UNCHANGED <<executed, running, execs>>
    /\ UNCHANGED <<net, polls, rounds, cuts, dropped>>

\* handleProposal records the proposal without a vote; its own decision by
\* verifyPolicy only goes to the event bus.
HandleProposal(x) ==
    /\ x \notin known
    /\ known' = known \cup {x}
    /\ votes' = [votes EXCEPT ![x] = {}]
    /\ executed' = executed \ {x}
    /\ UNCHANGED <<net, polls, rounds, cuts, running, execs, dropped>>

\* Mutant of HandleVote: the flag is only looked at by executeProposal.
HandleVoteLate(x, v, answer) ==
    /\ x \in known
    /\ TakeVote(x, v, answer, votes)
    /\ UNCHANGED <<net, polls, rounds, cuts, known, dropped>>

HandleVote(x, v, answer) ==
    /\ x \in known \ executed
    /\ TakeVote(x, v, answer, votes)
    /\ UNCHANGED <<net, polls, rounds, cuts, known, dropped>>

\* What executeProposal awaits comes to an end: the firewall has been called,
\* or the identity rotated.
ExecutionEnds(x) ==
    /\ x \in running
    /\ running' = running \ {x}
    /\ IF Kind[x] = "IDENTITY_ROTATE" THEN RotateIdentity ELSE UNCHANGED client
    /\ UNCHANGED <<state, table, fresh, pings, todo, detached, polls, rounds, cuts,
                   known, votes, executed, execs, dropped>>

\* cleanupProposals: 24 hours later.
CleanupProposal(x) ==
    /\ x \in known /\ dropped[x] = 0
    /\ known' = known \ {x}
    /\ dropped' = [dropped EXCEPT ![x] = @ + 1]
    /\ UNCHANGED <<net, polls, rounds, cuts, votes, executed, running, execs>>

-----------------------------------------------------------------------------
Membership ==
    \/ OnInit \/ OnShutdown \/ ResyncNodes
    \/ \E p \in Peers : \/ ProbeNode(p) \/ Announced(p) \/ Age(p)
                      \/ IsolateNode(p) \/ ResyncNext(p)
    \/ \E p \in Peers, who \in {"probe", "resync"} :
          PingPasses(p, who) \/ PingFails(p, who)

Polling ==
    \/ \E kind \in {"approval", "split"} : BeginPoll(kind)
    \/ \E p \in Peers : PollPeer(p)
    \/ EndApproval \/ EndSplit \/ HeadMoves

Governance ==
    \E x \in Proposals :
        \/ Propose(x) \/ HandleProposal(x) \/ ExecutionEnds(x) \/ CleanupProposal(x)
        \/ \E v \in Voters, answer \in {"yes", "no"} : HandleVote(x, v, answer)

Next == Membership \/ Polling \/ Governance

\* A ping and a request to a peer end by their time limits, and the loops over
\* the peers go on after each of them.
Fairness ==
    /\ \A p \in Peers : WF_vars(ResyncNext(p)) /\ WF_vars(PollPeer(p))
    /\ \A p \in Peers, who \in {"probe", "resync"} : WF_vars(PingFails(p, who))
    /\ WF_vars(EndApproval) /\ WF_vars(EndSplit)

Spec == Init /\ [][Next]_vars /\ Fairness

-----------------------------------------------------------------------------
(* Properties.                                                             *)

\* Type correctness of the node's state.
TypeOK ==
    /\ state \in {"new", "ready", "down"} /\ client \in BOOLEAN
    /\ table \in [Peers -> {"none", "unverified", "verified"}]
    /\ fresh \subseteq {p \in Peers : table[p] # "none"}
    /\ pings \subseteq (Peers \X {"probe", "resync"})
    /\ todo \subseteq Peers /\ detached \subseteq todo
    /\ poll \in {"none", "approval", "split"}
    /\ ask \subseteq Peers /\ yes \subseteq Peers /\ size \in Nat
    /\ head \in BOOLEAN /\ verdict \in {"none", "approved", "denied", "alarm", "quiet"}
    /\ rounds \in 0 .. MaxRounds /\ cuts \in 0 .. MaxCuts
    /\ known \subseteq Proposals /\ executed \subseteq Proposals
    /\ running \subseteq Proposals
    /\ votes \in [Proposals -> SUBSET Voters]
    /\ execs \in [Proposals -> Nat] /\ dropped \in [Proposals -> Nat]

\* A proposal is executed at most once for every time it enters the map:
\* votes that arrive while executeProposal is awaiting the firewall or the
\* rotation, or after it has failed, do not start it again; only a proposal
\* received anew after the daily cleanup can be executed anew.
GovOnce == \A x \in Proposals : execs[x] <= 1 + dropped[x]

\* An approval of requestApproval comes from a majority of the mesh that was
\* verified when the request was made, and resolveSplitBrain never raises the
\* alarm against fewer than two thirds of it, even when peers are isolated and
\* the local head moves while the answers come in (its own vote included).
PollSound ==
    /\ verdict = "approved" => 2 * Cardinality(yes) > size + 1
    /\ (verdict = "alarm" /\ size > 2) => 3 * (Cardinality(yes) + 1) > 2 * (size + 1)
    /\ verdict = "alarm" => 2 * (Cardinality(yes) + 1) > size + 1

\* Re-verification of the mesh comes to its last peer, and a poll to its
\* verdict, although peers may never answer and discovery, isolation and
\* shutdown go on meanwhile.
PollsEnd == (todo # {} ~> todo = {}) /\ (poll # "none" ~> poll = "none")
=============================================================================
