------------------------------ MODULE MCGates ------------------------------
(***************************************************************************)
(* The two gates every request of the web interface passes, for TLC: the   *)
(* rate limit (RateLimit) and the check of credentials (AccessGate).  They *)
(* share no state, so that a behaviour of one says nothing about the       *)
(* other: the initial state picks the gate that moves, and the run explores*)
(* each of them alone.                                                     *)
(***************************************************************************)
EXTENDS RateLimit

CONSTANT Requests

VARIABLES gate, pc, late, session, expired, idRec, hashRec, touch, life, over, revived

Access == INSTANCE AccessGate

accessVars == <<pc, late, session, expired, idRec, hashRec, touch, life, over, revived>>

GatesInit == gate \in {"rate", "access"} /\ Init /\ Access!Init

GatesNext ==
  /\ \/ gate = "rate" /\ Next /\ UNCHANGED accessVars
     \/ gate = "access" /\ Access!Next /\ UNCHANGED vars
  /\ UNCHANGED gate

GatesSpec == GatesInit /\ [][GatesNext]_<<gate, vars, accessVars>>

(* A request with a key that was revoked when it arrived is not admitted   *)
(* by it (AccessGate.RevokedKeyRefused: validateApiKey, revokeApiKey).     *)
RevokedKeyRefused == Access!RevokedKeyRefused

(* A session that had expired when a request arrived does not admit it,    *)
(* and one that was logged out does so only after a validation from before *)
(* the logout has written it back (AccessGate.EndedSessionRefused:         *)
(* validateSession, revokeSession).                                        *)
EndedSessionRefused == Access!EndedSessionRefused
=============================================================================
