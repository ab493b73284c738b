----------------------------- MODULE BoundedMap -----------------------------
(***************************************************************************)
(* BoundedMap of core/utils/collections.ts, which bounds the scores, the   *)
(* histories and the active remediations of the response engine and the    *)
(* histories of BehavioralService: a Map from keys to the nodes of a       *)
(* doubly linked list.  A key has at most one node, so that a node is      *)
(* named by its key; the links of a node outside the list are left over.   *)
(***************************************************************************)
EXTENDS Naturals, FiniteSets

CONSTANTS
  Keys, Values,
  Capacity,    \* maxCapacity, 500 and 1000 in the code
  Null, Absent \* no node, and undefined

VARIABLES
  cache,       \* the keys of the Map
  val,         \* the value of every node
  head, tail, prev, next,
  out          \* what the last get returned

list == <<head, tail, prev, next>>
mapVars == <<cache, val, list, out>>

Init ==
  /\ cache = {} /\ val = [k \in Keys |-> Absent] /\ out = Absent
  /\ head = Null /\ tail = Null
  /\ prev = [k \in Keys |-> Null] /\ next = [k \in Keys |-> Null]

(* The links as a record, for the steps that follow each other in a call.  *)
Links == [head |-> head, tail |-> tail, prev |-> prev, next |-> next]

AddToHead(l, k) ==
  [head |-> k,
   tail |-> IF l.tail = Null THEN k ELSE l.tail,
   next |-> [l.next EXCEPT ![k] = l.head],
   prev |-> [x \in Keys |-> IF x = l.head THEN k ELSE IF x = k THEN Null ELSE l.prev[x]]]

(* Mutant: the tail is not moved when the last node is taken out.          *)
RemoveNodeKeepsTail(l, k) ==
  LET p == l.prev[k]  n == l.next[k] IN
    [head |-> IF p = Null THEN n ELSE l.head,
     tail |-> l.tail,
     next |-> IF p = Null THEN l.next ELSE [l.next EXCEPT ![p] = n],
     prev |-> IF n = Null THEN l.prev ELSE [l.prev EXCEPT ![n] = p]]

RemoveNode(l, k) ==
  LET p == l.prev[k]  n == l.next[k] IN
    [head |-> IF p = Null THEN n ELSE l.head,
     tail |-> IF n = Null THEN p ELSE l.tail,
     next |-> IF p = Null THEN l.next ELSE [l.next EXCEPT ![p] = n],
     prev |-> IF n = Null THEN l.prev ELSE [l.prev EXCEPT ![n] = p]]

MoveToHead(l, k) == AddToHead(RemoveNode(l, k), k)

Relink(l) == head' = l.head /\ tail' = l.tail /\ prev' = l.prev /\ next' = l.next

Evicts == Cardinality(cache) >= Capacity /\ tail # Null

Set(k, v) ==
  /\ IF k \in cache
     THEN Relink(MoveToHead(Links, k)) /\ UNCHANGED cache
     ELSE IF Evicts
     THEN Relink(AddToHead(RemoveNode(Links, tail), k)) /\ cache' = (cache \ {tail}) \cup {k}
     ELSE Relink(AddToHead(Links, k)) /\ cache' = cache \cup {k}
  /\ val' = [x \in Keys |-> IF x = k THEN v ELSE IF x \in cache' THEN val[x] ELSE Absent]
  /\ UNCHANGED out

Get(k) ==
  /\ IF k \in cache
     THEN out' = val[k] /\ Relink(MoveToHead(Links, k))
     ELSE out' = Absent /\ UNCHANGED list
  /\ UNCHANGED <<cache, val>>

Delete(k) ==
  /\ IF k \in cache THEN Relink(RemoveNode(Links, k)) ELSE UNCHANGED list
  /\ cache' = cache \ {k} /\ val' = [val EXCEPT ![k] = Absent]
  /\ UNCHANGED out

Clear ==
  /\ cache' = {} /\ val' = [k \in Keys |-> Absent]
  /\ head' = Null /\ tail' = Null
  /\ UNCHANGED <<prev, next, out>>

Next ==
  \/ \E k \in Keys : Get(k) \/ Delete(k) \/ \E v \in Values : Set(k, v)
  \/ Clear

Spec == Init /\ [][Next]_mapVars

(* The keys met on the way from the head along the links.                  *)
Recent ==
  LET node[i \in 1 .. Cardinality(cache)] ==
        IF i = 1 THEN head
        ELSE IF node[i - 1] = Null THEN Null ELSE next[node[i - 1]]
  IN  [i \in 1 .. Cardinality(cache) |-> node[i]]

Promise == INSTANCE Lru
  WITH recent <- Recent, answer <- out,
       value <- val

(* The linked list and the Map together are a map that forgets the entry   *)
(* used longest ago and only at its capacity, and answers every get with   *)
(* the value set last (set, get, delete, clear, evict).                    *)
ImplementsLru == Promise!Spec
=============================================================================
