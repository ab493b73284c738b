---------------------------- MODULE MCAuditLedger ----------------------------
(* Bounds for model checking AuditLedger: how often each fault happens. *)
EXTENDS AuditLedger

Upto(f) == [k \in Faults |-> IF k \in DOMAIN f THEN f[k] ELSE 0]

LimAny   == [k \in Faults |-> 1]
LimOrder == Upto([sign |-> 2, crash |-> 2, flush |-> 1, purge |-> 1, stop |-> 1])
=============================================================================
