------------------------------ MODULE IpcChannel ------------------------------
(***************************************************************************)
(* What the telemetry path of a sidecar promises to the orchestrator: a    *)
(* FIFO channel.  Messages enter the channel one at a time, leave it in    *)
(* the order they entered, each leaves once, and a message leaves either   *)
(* to be handed to the line handler or to be discarded because it does     *)
(* not authenticate or decode.  IpcRing implements this specification in   *)
(* a byte ring in shared memory.                                           *)
(***************************************************************************)
EXTENDS Naturals, Sequences

CONSTANT Msg          \* records with at least a field good \in BOOLEAN

VARIABLES
    sent,             \* every message that ever entered the channel
    taken,            \* how many of them have left it
    out               \* those of them that were handed to the handler

chanVars == <<sent, taken, out>>

ChanInit ==
    /\ sent = << >>
    /\ taken = 0
    /\ out = << >>

\* A message enters the channel.
Publish(m) ==
    /\ sent' = Append(sent, m)
    /\ UNCHANGED <<taken, out>>

\* The oldest message leaves the channel.
Consume ==
    /\ taken < Len(sent)
    /\ taken' = taken + 1
    /\ out' = IF sent[taken + 1].good
                THEN Append(out, sent[taken + 1])
                ELSE out
    /\ UNCHANGED sent

ChanNext == (\E m \in Msg : Publish(m)) \/ Consume

ChanSpec == ChanInit /\ [][ChanNext]_chanVars
=============================================================================
