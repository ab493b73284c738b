------------------------------- MODULE MCMesh -------------------------------
(***************************************************************************)
(* The mesh for TLC: a quorum request (MeshConsensus) and a node with its  *)
(* table of peers, polls and proposals (MeshNode).  A request counts the   *)
(* peers that were verified when it began and keeps a record of its own,   *)
(* and polls and votes meet only in the table: the initial state picks the *)
(* part that moves, and the run explores each of them with the changes of  *)
(* the table: votes, a poll with as many peers as the two-thirds rule      *)
(* needs, and two rounds, of polls or re-verification, that overlap.       *)
(***************************************************************************)
EXTENDS MeshConsensus

CONSTANTS Members, Pair, Proposals, Kind, MaxRounds, MaxCuts

ASSUME MembersAssumption ==
    /\ IsFiniteSet(Members) /\ Pair \subseteq Members
    /\ MaxRounds \in Nat /\ MaxCuts \in Nat

VARIABLES part, state, client, table, fresh, pings, todo, detached, poll, ask, answered,
          size, head, verdict, rounds, cuts, known, votes, executed, running, execs,
          dropped

(* The kind whose execution changes the identity of the node.              *)
MCKind == [x \in Proposals |-> "IDENTITY_ROTATE"]

Node == INSTANCE MeshNode WITH Peers <- Members, yes <- answered
Votes == INSTANCE MeshNode WITH Peers <- Pair, yes <- answered
Rounds == INSTANCE MeshNode WITH Peers <- Pair, yes <- answered,
                                 MaxRounds <- MaxRounds + 1

nodeVars == <<state, client, table, fresh, pings, todo, detached, poll, ask, answered,
              size, head, verdict, rounds, cuts, known, votes, executed, running, execs,
              dropped>>

(* A poll while peers are found, verified and isolated; the other changes  *)
(* of the table are among those of Rounds.                                 *)
PollOfMany ==
  \/ Node!OnInit \/ Node!Polling
  \/ \E p \in Members :
        \/ table[p] = "none" /\ Node!Announced(p)
        \/ Node!PingPasses(p, "probe") \/ Node!IsolateNode(p)

MeshInit ==
  /\ Init
  /\ \/ part \in {"quorum", "polls"} /\ Node!Init
     \/ part \in {"votes", "rounds"} /\ Votes!Init

MeshNext ==
  /\ \/ part = "quorum" /\ Next /\ UNCHANGED nodeVars
     \/ part = "polls" /\ PollOfMany /\ UNCHANGED vars
     \/ part = "votes" /\ (Votes!Membership \/ Votes!Governance) /\ UNCHANGED vars
     \/ part = "rounds" /\ (Rounds!Membership \/ Rounds!Polling) /\ UNCHANGED vars
  /\ UNCHANGED part

MeshSpec == MeshInit /\ [][MeshNext]_<<part, vars, nodeVars>> /\ Node!Fairness

(* A proposal is executed at most once for every time it became known      *)
(* (MeshNode.GovOnce: handleVote, executeProposal).                        *)
GovOnce == Node!GovOnce

(* A poll decides by the peers it began with (MeshNode.PollSound:          *)
(* requestApproval, resolveSplitBrain).                                    *)
PollSound == Node!PollSound

(* Every round over the peers comes to its end (MeshNode.PollsEnd:         *)
(* resyncNodes, requestApproval, resolveSplitBrain).                       *)
PollsEnd == Node!PollsEnd
=============================================================================
