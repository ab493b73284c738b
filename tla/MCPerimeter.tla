---------------------------- MODULE MCPerimeter -----------------------------
(***************************************************************************)
(* The enforcement of blocks (Perimeter) for TLC, under a name of its own: *)
(* the proofs about it share a module with those of the threat response,   *)
(* which keeps an active of another kind.                                  *)
(***************************************************************************)
EXTENDS Naturals

CONSTANTS Callers, PilotMode, MaxCalls, MaxFaults

ASSUME PerimeterAssumption ==
  MaxCalls \in Nat /\ MaxFaults \in Nat /\ PilotMode \in BOOLEAN

VARIABLES up, task, mem, rec, score, agent, xdp, ufw, overdue, clean, tight, unheld, calls, faults

Wall == INSTANCE Perimeter WITH active <- agent

WallSpec == Wall!Spec

(* A block that was reported and not taken back is in memory, on record    *)
(* and enforced, unless the full map of the agent dropped it               *)
(* (Perimeter.BlockHolds: blockIp, setKv).                                 *)
BlockHolds == Wall!BlockHolds

(* An expired record is renewed or purged (Perimeter.EnforcementEnds:      *)
(* processLifecycle).                                                      *)
EnforcementEnds == Wall!EnforcementEnds

(* The audit purges what has lapsed, as the comment of                     *)
(* getEnforcementLedger has it (Perimeter.PurgesLapsed: processLifecycle). *)
PurgesLapsed == Wall!PurgesLapsed
=============================================================================
