---------------------------- MODULE MCStructures ----------------------------
(***************************************************************************)
(* The data structures of the orchestrator's core for TLC: the bounded map *)
(* (BoundedMap) and the Merkle trees with the commits to their roots       *)
(* (MerkleCommit).  They have nothing in common: the initial state picks   *)
(* the structure that moves.                                               *)
(***************************************************************************)
EXTENDS Naturals, FiniteSets

CONSTANTS Keys, Values, Capacity, Null, Absent, Commits, HasTpm, MaxBuffer, MaxLeaves

ASSUME StructuresAssumption ==
  /\ Capacity \in Nat \ {0} /\ Null \notin Keys
  /\ IsFiniteSet(Commits) /\ MaxLeaves \in Nat

VARIABLES part, cache, val, head, tail, prev, next, out,
          leaves, tree, pending, committing, call, roots, dropped, stopped

Map == INSTANCE BoundedMap
Merkle == INSTANCE MerkleCommit

mapVars == <<cache, val, head, tail, prev, next, out>>
merkleVars == <<leaves, tree, pending, committing, call, roots, dropped, stopped>>

StructuresInit == part \in {"map", "merkle"} /\ Map!Init /\ Merkle!Init

StructuresNext ==
  /\ \/ part = "map" /\ Map!Next /\ UNCHANGED merkleVars
     \/ part = "merkle" /\ Merkle!Next /\ UNCHANGED mapVars
  /\ UNCHANGED part

StructuresSpec == StructuresInit /\ [][StructuresNext]_<<part, mapVars, merkleVars>>

(* A tree grown leaf by leaf is the one built at once, and its proofs      *)
(* prove every leaf at its place (MerkleCommit.TreeSound: addLeaf,         *)
(* buildTree, getProof, verify).                                           *)
TreeSound == Merkle!TreeSound

(* Every hash is under one logged root, waits for one, or was under one    *)
(* whose event the saturated queue dropped, and only once                  *)
(* (MerkleCommit.RootsCover: commitMerkleRoot, logEvent).                  *)
RootsCover == Merkle!RootsCover

(* The list and the Map together forget the entry used longest ago, and    *)
(* only at the capacity (BoundedMap.ImplementsLru: set, get, evict).       *)
ImplementsLru == Map!ImplementsLru
=============================================================================
