------------------------------- MODULE Journal -------------------------------
(***************************************************************************)
(* What the audit ledger promises to the callers of logEvent: the accepted *)
(* events are stored in the order in which they were accepted, and what is *)
(* stored stays.  The end of the process ends the promise for the events   *)
(* that are not stored yet, so that a crash loses the latest ones only.    *)
(***************************************************************************)
EXTENDS Naturals

VARIABLES
    accepted,   \* how many events were accepted, which is the number of the last
    open,       \* those accepted by the process that runs
    stored      \* those that are stored

Init == accepted = 0 /\ open = {} /\ stored = {}

Accept ==
    /\ accepted' = accepted + 1
    /\ open' = open \cup {accepted + 1}
    /\ UNCHANGED stored

\* All up to one of them, for good.
Store ==
    /\ \E n \in open : stored' = stored \cup {s \in open : s <= n}
    /\ UNCHANGED <<accepted, open>>

End == open' = {} /\ UNCHANGED <<accepted, stored>>

Next == Accept \/ Store \/ End

Spec == Init /\ [][Next]_<<accepted, open, stored>>
=============================================================================
