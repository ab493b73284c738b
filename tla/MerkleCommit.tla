---------------------------- MODULE MerkleCommit ----------------------------
(***************************************************************************)
(* The Merkle trees of the audit ledger.  MerkleTree (core/merkle.ts) is   *)
(* built from a list of hashes or grown one leaf at a time, and gives      *)
(* proofs of inclusion.  AuditService adds the hash of every event to a    *)
(* tree, collects the hashes of the session and, by a timer, at a limit    *)
(* and at shutdown, commits to them by logging the root of a tree of its   *)
(* own (commitMerkleRoot in domain/analysis/audit.ts).                     *)
(*                                                                         *)
(* The hash of an event is <<n>>, that of a pair the pair itself: SHA-256  *)
(* is taken to be free of collisions.  processQueue adds one leaf after    *)
(* the other and nothing else reads the tree, so that an addition is one   *)
(* step; the awaits of commitMerkleRoot end steps.                         *)
(***************************************************************************)
EXTENDS Naturals, Sequences, FiniteSets, FiniteSetsExt

CONSTANTS
  Commits,    \* calls of commitMerkleRoot that may overlap
  HasTpm,     \* the service was given a TPM
  MaxBuffer,  \* MAX_MERKLE_BUFFER, 5000 in the code
  MaxLeaves   \* bound: events

VARIABLES
  leaves, tree,   \* of the incremental tree, level by level from the leaves
  pending,        \* currentSessionHashes
  committing,     \* isCommittingMerkle
  call,           \* where every commit is, and the hashes it has taken
  roots,          \* under how many logged roots every hash is
  dropped,        \* history: under how many roots whose event was dropped
  stopped         \* onShutdown has begun

vars == <<leaves, tree, pending, committing, call, roots, dropped, stopped>>

-----------------------------------------------------------------------------
(* MerkleTree.                                                             *)

EMPTY == <<>>
HashPair(a, b) == <<a, b>>

(* One level above another; an odd last node is paired with itself.        *)
Above(level) ==
  [i \in 1 .. (Len(level) + 1) \div 2 |->
     HashPair(level[2*i - 1], IF 2*i <= Len(level) THEN level[2*i] ELSE level[2*i - 1])]

(* The first n levels over the hashes.                                     *)
Levels(hashes, n) ==
  LET level[k \in 1 .. n] == IF k = 1 THEN hashes ELSE Above(level[k - 1])
  IN  level

BuildTree(hashes) ==
  LET level == Levels(hashes, Len(hashes))
      height == CHOOSE k \in 1 .. Len(hashes) :
                  Len(level[k]) = 1 /\ \A j \in 1 .. k - 1 : Len(level[j]) > 1
  IN  IF hashes = <<>> THEN << <<EMPTY>> >> ELSE [k \in 1 .. height |-> level[k]]

Root(t) == t[Len(t)][1]

(* Where the path from a leaf to the root passes the first n levels.       *)
Path(index, n) ==
  LET at[k \in 1 .. n] == IF k = 1 THEN index ELSE (at[k - 1] + 1) \div 2
  IN  at

(* Mutant: a last node without a neighbour is hashed with nothing.         *)
CarriedAlone(level, at, hash) ==
  IF at % 2 = 0 THEN HashPair(level[at - 1], hash) ELSE HashPair(hash, EMPTY)

(* The hash carried from a level to the one above it by addLeaf.           *)
Carried(level, at, hash) ==
  IF at % 2 = 0 THEN HashPair(level[at - 1], hash) ELSE HashPair(hash, hash)

Put(level, at, hash) ==
  IF at > Len(level) THEN Append(level, hash) ELSE [level EXCEPT ![at] = hash]

(* The new hashes on the path at, from the one of the new leaf.            *)
Carries(t, at, leaf) ==
  LET hash[k \in 1 .. Len(t)] ==
        IF k = 1 THEN leaf ELSE Carried(t[k - 1], at[k - 1], hash[k - 1])
  IN  hash

(* addLeaf: the path of the new leaf is recomputed, up to a new root if    *)
(* the old one has got a neighbour.                                        *)
AddLeaf(t, hashes) ==
  LET n == Len(hashes)
      at == Path(n, Len(t))
      hash == Carries(t, at, hashes[n])
      grown == [k \in 1 .. Len(t) |-> IF k = 1 THEN hashes ELSE Put(t[k], at[k], hash[k])]
      top == grown[Len(t)]
  IN  IF t[1][1] = EMPTY THEN <<hashes>>
      ELSE IF Len(top) > 1 THEN Append(grown, <<HashPair(top[1], top[2])>>)
      ELSE grown

(* getProof: the sibling on every level, or the node itself without one.   *)
GetProof(t, index) ==
  LET at == Path(index, Len(t))
      sibling(k) == IF at[k] % 2 = 0 THEN at[k] - 1 ELSE at[k] + 1
  IN  [k \in 1 .. Len(t) - 1 |->
         IF sibling(k) <= Len(t[k]) THEN t[k][sibling(k)] ELSE t[k][at[k]]]

(* The hashes a proof leads to, from the one of the leaf.                  *)
Climb(leaf, at, proof) ==
  LET hash[k \in 1 .. Len(proof) + 1] ==
        IF k = 1 THEN leaf
        ELSE IF at[k - 1] % 2 = 0 THEN HashPair(proof[k - 1], hash[k - 1])
        ELSE HashPair(hash[k - 1], proof[k - 1])
  IN  hash

Verify(root, leaf, index, proof) ==
  Climb(leaf, Path(index, Len(proof) + 1), proof)[Len(proof) + 1] = root

-----------------------------------------------------------------------------
(* AuditService.                                                           *)

Resting == [at |-> "idle", batch |-> <<>>]

Init ==
  /\ leaves = <<>> /\ tree = BuildTree(<<>>)
  /\ pending = <<>> /\ committing = FALSE
  /\ roots = [n \in 1 .. MaxLeaves |-> 0] /\ dropped = roots
  /\ call = [c \in Commits |-> Resting]
  /\ stopped = FALSE

Times(seq, n) == Cardinality({i \in DOMAIN seq : seq[i] = <<n>>})

(* The hashes are swapped out in one step once the integrity is verified.  *)
Taken(c, hashes) ==
  /\ committing' = TRUE
  /\ call' = [call EXCEPT ![c] = [at |-> "sign", batch |-> hashes]]
  /\ pending' = <<>>

(* commitMerkleRoot up to its first await; hashes are the pending ones.    *)
Begins(c, hashes) ==
  IF hashes = <<>> \/ committing
  THEN pending' = hashes /\ UNCHANGED <<committing, call>>
  ELSE IF HasTpm
       THEN /\ call' = [call EXCEPT ![c].at = "verify"]
            /\ pending' = hashes /\ UNCHANGED committing
       ELSE Taken(c, hashes)

CommitTimer(c) ==
  /\ ~stopped /\ call[c].at = "idle"
  /\ Begins(c, pending)
  /\ UNCHANGED <<leaves, tree, roots, dropped, stopped>>

(* The rest of processQueue for one event; at the limit it starts a commit *)
(* that nobody awaits.                                                     *)
LeafDone ==
  /\ Len(leaves) < MaxLeaves
  /\ LET hash == <<Len(leaves) + 1>>  all == Append(pending, hash) IN
       /\ leaves' = Append(leaves, hash)
       /\ tree' = AddLeaf(tree, leaves')
       /\ IF Len(all) >= MaxBuffer
          THEN \E c \in Commits : call[c].at = "idle" /\ Begins(c, all)
          ELSE pending' = all /\ UNCHANGED <<committing, call>>
  /\ UNCHANGED <<roots, dropped, stopped>>

OnShutdown(c) ==
  /\ ~stopped /\ stopped' = TRUE
  /\ call[c].at = "idle"
  /\ Begins(c, pending)
  /\ UNCHANGED <<leaves, tree, roots, dropped>>

(* The TPM says that the platform is intact: also to a second call, which  *)
(* may then take nothing.                                                  *)
IntegrityVerified(c) ==
  /\ call[c].at = "verify"
  /\ Taken(c, pending)
  /\ UNCHANGED <<leaves, tree, roots, dropped, stopped>>

IntegrityFails(c) ==
  /\ call[c].at = "verify"
  /\ call' = [call EXCEPT ![c] = Resting]
  /\ UNCHANGED <<leaves, tree, pending, committing, roots, dropped, stopped>>

(* How often every hash is covered when the batch of a commit is, too.     *)
Covering(covered, batch) == [n \in 1 .. MaxLeaves |-> covered[n] + Times(batch, n)]

(* The root is handed to logEvent, which accepts its event or, when the    *)
(* queue is saturated, drops it and says nothing to its caller.            *)
RootLogged(c) ==
  /\ call[c].at = "sign"
  /\ \/ roots' = Covering(roots, call[c].batch) /\ UNCHANGED dropped
     \/ dropped' = Covering(dropped, call[c].batch) /\ UNCHANGED roots
  /\ call' = [call EXCEPT ![c] = Resting]
  /\ committing' = FALSE
  /\ UNCHANGED <<leaves, tree, pending, stopped>>

(* Mutant: the hashes go back only if nothing was added meanwhile.         *)
CommitFailsOnto(c) ==
  /\ call[c].at = "sign"
  /\ pending' = IF pending = <<>> THEN call[c].batch ELSE pending
  /\ call' = [call EXCEPT ![c] = Resting]
  /\ committing' = FALSE
  /\ UNCHANGED <<leaves, tree, roots, dropped, stopped>>

(* Signing the root fails: the hashes go back to the front.                *)
CommitFails(c) ==
  /\ call[c].at = "sign" /\ HasTpm
  /\ pending' = call[c].batch \o pending
  /\ call' = [call EXCEPT ![c] = Resting]
  /\ committing' = FALSE
  /\ UNCHANGED <<leaves, tree, roots, dropped, stopped>>

Next ==
  \/ LeafDone
  \/ \E c \in Commits :
       \/ CommitTimer(c) \/ OnShutdown(c) \/ IntegrityVerified(c) \/ IntegrityFails(c)
       \/ RootLogged(c) \/ CommitFails(c)

Spec == Init /\ [][Next]_vars

-----------------------------------------------------------------------------
(* Growing the tree leaf by leaf gives the tree that is built at once from *)
(* the same hashes, and its proofs prove every leaf at its place and no    *)
(* other leaf there (addLeaf, buildTree, getProof, verify).                *)
TreeSound ==
  /\ tree = BuildTree(leaves)
  /\ \A i \in DOMAIN leaves :
       LET proof == GetProof(tree, i) IN
         \A j \in DOMAIN leaves : Verify(Root(tree), leaves[j], i, proof) <=> i = j

(* Every hash of the session waits, is being committed, is under one       *)
(* logged root or under one whose event the saturated queue dropped, and   *)
(* only once: nothing but that drop takes a hash out of the ledger's       *)
(* roots, although the flag is tested before the check of the TPM and set  *)
(* after it, so that commits overlap, fail and put their hashes back next  *)
(* to each other (commitMerkleRoot, logEvent).                             *)
RootsCover ==
  \A n \in DOMAIN leaves :
    roots[n] + dropped[n] + Times(pending, n)
      + MapThenSumSet(LAMBDA c : Times(call[c].batch, n), Commits) = 1
=============================================================================
