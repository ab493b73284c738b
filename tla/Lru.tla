-------------------------------- MODULE Lru --------------------------------
(***************************************************************************)
(* What a map of bounded capacity promises: the entries in the order of    *)
(* their last use, latest first, and the last answer given.                *)
(***************************************************************************)
EXTENDS Naturals, SequencesExt

CONSTANTS Keys, Values, Capacity, Absent

VARIABLES recent, value, answer

Without(k) == RemoveFirst(recent, k)   \* its only occurrence
Kept == IF Len(recent) >= Capacity THEN Front(recent) ELSE recent

Init == recent = <<>> /\ value = [k \in Keys |-> Absent] /\ answer = Absent

Set(k, v) ==
  LET rest == IF k \in ToSet(recent) THEN Without(k) ELSE Kept IN
    /\ recent' = <<k>> \o rest
    /\ value' = [x \in Keys |-> IF x = k THEN v
                                ELSE IF x \in ToSet(rest) THEN value[x] ELSE Absent]
    /\ UNCHANGED answer

Get(k) ==
  /\ answer' = value[k]
  /\ recent' = IF k \in ToSet(recent) THEN <<k>> \o Without(k) ELSE recent
  /\ UNCHANGED value

Delete(k) ==
  /\ recent' = Without(k)
  /\ value' = [value EXCEPT ![k] = Absent]
  /\ UNCHANGED answer

Clear == recent' = <<>> /\ value' = [k \in Keys |-> Absent] /\ UNCHANGED answer

Next ==
  \/ \E k \in Keys : Get(k) \/ Delete(k) \/ \E v \in Values : Set(k, v)
  \/ Clear

Spec == Init /\ [][Next]_<<recent, value, answer>>
=============================================================================
