----------------------------- MODULE MCServices -----------------------------
(***************************************************************************)
(* The parts of the orchestrator that share no state with any other, for   *)
(* TLC: the gates of the web interface (MCGates), the data structures      *)
(* (MCStructures) and the life of the process (MCAppLifecycle).  A step of *)
(* one of them says nothing about another: the initial state picks the part*)
(* that moves, and the run explores each of them alone.                    *)
(***************************************************************************)
EXTENDS MCGates, MCStructures, MCAppLifecycle

VARIABLE moves

gatesVars == <<gate, vars, accessVars>>
structuresVars == <<part, mapVars, merkleVars>>
appVars == <<boot, turn, stop, queue, services, done, initialized, runs, unwell, watchdog,
             round, attempts, kvOpen, lock, seen, stored, recent, safe, chain, unstored,
             boots>>

ServicesInit ==
  /\ GatesInit /\ StructuresInit /\ App!Init
  /\ moves \in {"gates", "structures", "app"}
  /\ moves # "gates" => gate = "rate"
  /\ moves # "structures" => part = "map"

ServicesNext ==
  /\ \/ moves = "gates" /\ GatesNext /\ UNCHANGED <<structuresVars, appVars>>
     \/ moves = "structures" /\ StructuresNext /\ UNCHANGED <<gatesVars, appVars>>
     \/ moves = "app" /\ App!Next /\ UNCHANGED <<gatesVars, structuresVars>>
  /\ UNCHANGED moves

ServicesSpec ==
  ServicesInit /\ [][ServicesNext]_<<moves, gatesVars, structuresVars, appVars>>
=============================================================================
