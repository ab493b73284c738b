--------------------------- MODULE MCThreatResponse ---------------------------
(* Two events of one source, an address or a process, and a policy scaled  *)
(* down so that the two of them, with a decay between, reach every tier.   *)
EXTENDS ThreatResponse

CONSTANTS e1, e2

MCSeverity == [e \in Events |-> IF e = e1 THEN 2 ELSE 3]
MCThreshold == [t \in Tiers |-> CASE t = "LOG" -> 0 [] t = "WATCH" -> 1
                                  [] t = "SHADOW" -> 2 [] t = "BLOCK" -> 3
                                  [] t = "ISOLATE" -> 4 [] t = "LOCKDOWN" -> 5]
=============================================================================
