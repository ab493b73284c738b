--------------------------- MODULE MCAppLifecycle ---------------------------
(***************************************************************************)
(* The boot and the shutdown of the services (AppLifecycle) for TLC, under *)
(* a name of its own: the proofs about it share a module with those of the *)
(* sidecars, whose variables have names in common with it.  Two services   *)
(* of two classes; the watchdog knows one of them.                         *)
(***************************************************************************)
EXTENDS Naturals

CONSTANTS N, Priority, Phoenix, MAX_RESTART_ATTEMPTS, MaxBoots

ASSUME AppAssumption ==
  /\ N \in Nat /\ Priority \in [1 .. N -> 0 .. 3]
  /\ Phoenix \subseteq 1 .. N /\ MaxBoots \in Nat /\ MAX_RESTART_ATTEMPTS \in Nat

MCPriority == <<0, 2>>

VARIABLES boot, turn, stop, queue, services, done, initialized, runs, unwell, watchdog, round,
          attempts, kvOpen, lock, seen, stored, recent, safe, chain, unstored, boots

App == INSTANCE AppLifecycle WITH registered <- services, failed <- unwell

AppSpec == App!Spec

(* Safe mode begins with the third boot in quick succession and no sooner  *)
(* (AppLifecycle.SafeModeSound: checkCrashLoop).                           *)
SafeModeSound == App!SafeModeSound

(* A service's onInit never runs twice at a time                           *)
(* (AppLifecycle.InitExclusive: initAll, the watchdog's rounds).           *)
InitExclusive == App!InitExclusive

(* Services are stopped class by class, and KV is closed after all of them *)
(* (AppLifecycle.ShutdownOrdered: shutdownAll, gracefulShutdown).          *)
ShutdownOrdered == App!ShutdownOrdered
=============================================================================
