---------------------------- MODULE AppLifecycle ----------------------------
(***************************************************************************)
(* The life of the orchestrator process: SovereignApp.boot and             *)
(* gracefulShutdown (app/sovereign_app.ts), ServiceRegistry                *)
(* (core/registry.ts), BaseService.init (core/base_service.ts),            *)
(* SystemLifecycleService (domain/analysis/system_lifecycle_service.ts)    *)
(* and WatchdogService (domain/analysis/watchdog_service.ts), over crashes *)
(* and restarts.                                                           *)
(*                                                                         *)
(* boot() is one fiber, the handler of SIGINT and SIGTERM a second one that*)
(* may start while boot() still has to start the web server and the        *)
(* watchdog, every round of the watchdog another, and emergencyLockdown one*)
(* more.  They interleave at their awaits.  What survives the process is   *)
(* the counter of boot attempts in a database of its own.                  *)
(***************************************************************************)
EXTENDS Integers, Sequences, FiniteSets, SequencesExt

CONSTANTS
  N,            \* services, numbered in the order of their registration
  Priority,     \* ShutdownPriority of each: 0 CRITICAL ... 3 INTERFACE
  Phoenix,      \* services the watchdog knows how to initialise again
  MAX_RESTART_ATTEMPTS,  \* of the watchdog, 3 in the code
  MaxBoots      \* bound: boots

Services == 1 .. N
Rounds == 1 .. 2             \* overlapping rounds of the watchdog
SafeAfter == 3

VARIABLES
  boot,       \* where boot() is: "off" when there is no process
  turn,       \* initAll: the service whose turn it is
  stop,       \* where the signal handler is
  queue,      \* shutdownAll: services still to be shut down
  registered, \* services that were registered: those whose constructor did not throw
  done,       \* services whose shutdown() has ended
  initialized,
  runs,       \* runs of onInit under way, per service
  failed,     \* services HealthService has as FAILED
  watchdog,   \* "new", "on", "off"
  round,      \* per round: the failed services it has still to look at, the one
              \*   it re-initialises (0: none) and the attempts it saw of that one
  attempts,
  kvOpen,
  lock,       \* where emergencyLockdown is
  seen,       \* checkCrashLoop: the count it will store (0: its database failed)
  stored,     \* the stored count, and whether its time is less than
  recent,     \*   five minutes ago
  safe,
  chain,      \* boots in quick succession that read the counter (history)
  unstored,   \*   and those of them that did not store it (history)
  boots

persistent == <<stored, recent, chain, unstored>>
svcVars == <<initialized, runs, failed>>
dogVars == <<watchdog, round, attempts>>
stopVars == <<stop, queue, done, kvOpen>>
bootVars == <<boot, turn, registered, seen, safe, boots>>
vars == <<bootVars, stopVars, svcVars, dogVars, lock, persistent>>

Idle == [left |-> {}, svc |-> 0, tried |-> 0]

(* What a process starts with, for the variables that do not outlive it.   *)
Fresh ==
  [turn |-> 1, stop |-> "no", queue |-> <<>>, registered |-> {}, done |-> {},
   initialized |-> {}, runs |-> [s \in Services |-> 0], failed |-> {},
   watchdog |-> "new", round |-> [i \in Rounds |-> Idle],
   attempts |-> [s \in Services |-> 0], kvOpen |-> FALSE, lock |-> "no", seen |-> 0, safe |-> FALSE]

Init ==
  /\ boot = "off" /\ boots = 0 /\ turn = Fresh.turn /\ stop = Fresh.stop /\ queue = Fresh.queue
  /\ registered = Fresh.registered /\ done = Fresh.done /\ initialized = Fresh.initialized
  /\ runs = Fresh.runs /\ failed = Fresh.failed /\ watchdog = Fresh.watchdog
  /\ round = Fresh.round /\ attempts = Fresh.attempts /\ kvOpen = Fresh.kvOpen
  /\ lock = Fresh.lock /\ seen = Fresh.seen /\ safe = Fresh.safe
  /\ stored = 0 /\ recent = FALSE /\ chain = 0 /\ unstored = 0

(* The process ends, by Deno.exit or by a crash, and takes its state along.*)
Exit ==
  /\ boot' = "off" /\ boots' = boots /\ turn' = Fresh.turn /\ stop' = Fresh.stop
  /\ queue' = Fresh.queue /\ registered' = Fresh.registered /\ done' = Fresh.done
  /\ initialized' = Fresh.initialized /\ runs' = Fresh.runs /\ failed' = Fresh.failed
  /\ watchdog' = Fresh.watchdog /\ round' = Fresh.round /\ attempts' = Fresh.attempts
  /\ kvOpen' = Fresh.kvOpen /\ lock' = Fresh.lock /\ seen' = Fresh.seen /\ safe' = Fresh.safe
  /\ unstored' = IF boot = "store" THEN unstored + 1 ELSE unstored
  /\ UNCHANGED <<stored, recent, chain>>

Crash == boot # "off" /\ Exit

(* Five minutes pass after the last boot that stored the counter.  Only the*)
(* next boot looks at the time, so the step is taken between two boots.    *)
TimePasses ==
  /\ boot = "off" /\ recent
  /\ recent' = FALSE
  /\ UNCHANGED <<bootVars, stopVars, svcVars, dogVars, lock, stored, chain, unstored>>

----------------------------------------------------------------------------
(* boot().                                                                 *)

Go(place) == boot' = place

(* initCore: the state database is opened.                                 *)
InitCore ==
  /\ boot = "off" /\ boots < MaxBoots
  /\ boots' = boots + 1
  /\ kvOpen' = TRUE
  /\ Go("config")
  /\ UNCHANGED <<turn, registered, seen, safe, stop, queue, done, svcVars, dogVars, lock, persistent>>

(* loadConfig, the validator and the hardening rules pass or throw.        *)
Configure ==
  /\ boot = "config"
  /\ \/ /\ Go("count")
        /\ UNCHANGED <<turn, registered, seen, safe, boots, stopVars, svcVars, dogVars, lock, persistent>>
     \/ Exit

(* Mutant: the age of the stored attempt is not looked at.                 *)
CountBootForever ==
  /\ boot = "count"
  /\ seen' = stored + 1
  /\ chain' = IF recent THEN chain + 1 ELSE 1
  /\ unstored' = IF recent THEN unstored ELSE 0
  /\ Go("store")
  /\ UNCHANGED <<turn, registered, safe, boots, stopVars, svcVars, dogVars, lock, stored, recent>>

(* checkCrashLoop reads the last attempt ...                               *)
CountBoot ==
  /\ boot = "count"
  /\ seen' = IF recent THEN stored + 1 ELSE 1
  /\ chain' = IF recent THEN chain + 1 ELSE 1
  /\ unstored' = IF recent THEN unstored ELSE 0
  /\ Go("store")
  /\ UNCHANGED <<turn, registered, safe, boots, stopVars, svcVars, dogVars, lock, stored, recent>>

(* ... and stores this one; setupSafetyAndErrorHandlers goes into safe mode*)
(* and installs the handlers of runtime errors.  When the counter's        *)
(* database fails, the boot goes on without safe mode.                     *)
StoreBoot ==
  /\ boot = "store"
  /\ \/ /\ stored' = seen /\ recent' = TRUE
        /\ safe' = (seen >= SafeAfter)
        /\ UNCHANGED <<seen, unstored>>
     \/ /\ unstored' = unstored + 1 /\ seen' = 0
        /\ UNCHANGED <<stored, recent, safe>>
  /\ Go("infra")
  /\ UNCHANGED <<turn, registered, boots, stopVars, svcVars, dogVars, lock, chain>>

(* initializeInfrastructure and initAll of the ServiceInitializer: audit   *)
(* and hardware checks pass or throw, then every service is registered.    *)
(* A service whose constructor throws is reported FAILED, and a placeholder*)
(* without state stands for it.                                            *)
Infrastructure ==
  /\ boot = "infra"
  /\ \/ /\ Go("init")
        /\ \E f \in SUBSET Services : failed' = f /\ registered' = Services \ f
        /\ UNCHANGED <<turn, seen, safe, boots, stopVars, initialized, runs, dogVars, lock, persistent>>
     \/ Exit

(* Mutant: BaseService.init does not look at initPromise.                  *)
StartInitAgain(s) ==
  IF s \notin registered \/ s \in initialized
    THEN UNCHANGED runs
    ELSE runs' = [runs EXCEPT ![s] = @ + 1]

(* BaseService.init: nothing for a service that is initialised, and the    *)
(* promise of the run under way when there is one.                         *)
StartInit(s) ==
  IF s \notin registered \/ s \in initialized \/ runs[s] > 0
    THEN UNCHANGED runs
    ELSE runs' = [runs EXCEPT ![s] = @ + 1]

(* onInit of a service ends; only a success is remembered.                 *)
InitEnds(s) ==
  /\ runs[s] > 0
  /\ runs' = [runs EXCEPT ![s] = @ - 1]
  /\ initialized' \in {initialized, initialized \cup {s}}
  /\ UNCHANGED <<bootVars, stopVars, failed, dogVars, lock, persistent>>

(* registry.initAll: one service after the other; a failure is logged.     *)
InitNext ==
  /\ boot = "init" /\ turn <= N
  /\ StartInit(turn)
  /\ Go("await")
  /\ UNCHANGED <<turn, registered, seen, safe, boots, stopVars, initialized, failed, dogVars, lock, persistent>>

InitAwaited ==
  /\ boot = "await" /\ runs[turn] = 0
  /\ turn' = turn + 1
  /\ Go("init")
  /\ UNCHANGED <<registered, seen, safe, boots, stopVars, svcVars, dogVars, lock, persistent>>

(* finalizeBoot: the signal handlers are registered, the web server starts *)
(* (or its port is taken, and boot fails), then the watchdog.              *)
RegisterSignals ==
  /\ boot = "init" /\ turn > N
  /\ Go("web")
  /\ UNCHANGED <<turn, registered, seen, safe, boots, stopVars, svcVars, dogVars, lock, persistent>>

StartWeb ==
  /\ boot = "web"
  /\ \/ /\ Go("watchdog")
        /\ UNCHANGED <<turn, registered, seen, safe, boots, stopVars, svcVars, dogVars, lock, persistent>>
     \/ Exit

StartWatchdog ==
  /\ boot = "watchdog"
  /\ watchdog' = "on"
  /\ Go("ready")
  /\ UNCHANGED <<turn, registered, seen, safe, boots, stopVars, svcVars, round, attempts, lock, persistent>>

----------------------------------------------------------------------------
(* The watchdog.                                                           *)

(* HealthService.reportStatus.                                             *)
ReportFailure(s) ==
  /\ boot = "ready" /\ s \notin failed
  /\ failed' = failed \cup {s}
  /\ UNCHANGED <<bootVars, stopVars, initialized, runs, dogVars, lock, persistent>>

(* checkHealth, every 30 seconds: a round begins with the services that    *)
(* have failed by now, whether the round before it has ended or not.       *)
RoundBegins(i) ==
  /\ watchdog = "on" /\ round[i] = Idle /\ failed # {}
  /\ round' = [round EXCEPT ![i].left = failed]
  /\ UNCHANGED <<bootVars, stopVars, svcVars, watchdog, attempts, lock, persistent>>

(* It takes up the next of them.  One with attempts left is initialised    *)
(* again; for one the orchestrator does not know that fails at once.       *)
RoundNext(i, s) ==
  /\ round[i].svc = 0 /\ s \in round[i].left
  /\ IF s \in Phoenix /\ attempts[s] < MAX_RESTART_ATTEMPTS
       THEN /\ StartInit(s)
            /\ round' = [round EXCEPT ![i] = [left |-> @.left \ {s}, svc |-> s, tried |-> attempts[s]]]
            /\ UNCHANGED attempts
       ELSE /\ round' = [round EXCEPT ![i].left = @ \ {s}]
            /\ attempts' = [attempts EXCEPT ![s] = IF @ < MAX_RESTART_ATTEMPTS THEN @ + 1 ELSE @]
            /\ UNCHANGED runs
  /\ UNCHANGED <<bootVars, stopVars, initialized, failed, watchdog, lock, persistent>>

(* The round goes on when the init it awaits has ended.  Whatever init     *)
(* answered counts as resurrected, an exception as one more attempt.       *)
RoundEnds(i) ==
  LET s == round[i].svc IN
    /\ s # 0 /\ runs[s] = 0
    /\ \E a \in {0, round[i].tried + 1} : attempts' = [attempts EXCEPT ![s] = a]
    /\ round' = [round EXCEPT ![i].svc = 0, ![i].tried = 0]
    /\ UNCHANGED <<bootVars, stopVars, svcVars, watchdog, lock, persistent>>

----------------------------------------------------------------------------
(* gracefulShutdown.                                                       *)

(* shutdownAll sorts by class, the highest number first; the sort is stable*)
(* and so keeps the order of registration within a class.                  *)
ShutdownOrder(S) == SetToSortSeq(S, LAMBDA a, b : Priority[a] > Priority[b] \/ (Priority[a] = Priority[b] /\ a < b))

(* A signal, once the handlers are there; a second one is ignored.         *)
Signal ==
  /\ boot \in {"web", "watchdog", "ready"} /\ stop = "no"
  /\ watchdog' = IF watchdog = "on" THEN "off" ELSE watchdog
  /\ stop' = "services"
  /\ queue' = ShutdownOrder(registered)
  /\ UNCHANGED <<bootVars, done, kvOpen, svcVars, round, attempts, lock, persistent>>

(* Mutant: one try around the loop, so the first error skips the services  *)
(* that are left.                                                          *)
ShutdownServiceThrows ==
  /\ stop = "services" /\ queue # <<>>
  /\ \/ done' = done \cup {Head(queue)} /\ queue' = Tail(queue)
     \/ queue' = <<>> /\ UNCHANGED done
  /\ UNCHANGED <<bootVars, stop, kvOpen, svcVars, dogVars, lock, persistent>>

(* shutdown() of the next service ends, well or with an error that is only *)
(* logged.  Nothing limits the wait for it.                                *)
ShutdownService ==
  /\ stop = "services" /\ queue # <<>>
  /\ done' = done \cup {Head(queue)}
  /\ queue' = Tail(queue)
  /\ UNCHANGED <<bootVars, stop, kvOpen, svcVars, dogVars, lock, persistent>>

(* The rest: metrics, firewall, VPN, logging, web server, sidecars, and KV *)
(* last.  An error on the way is an unhandled rejection, and leads to the  *)
(* lockdown.                                                               *)
CloseKv ==
  /\ stop = "services" /\ queue = <<>>
  /\ \/ kvOpen' = FALSE /\ stop' = "exit" /\ UNCHANGED lock
     \/ stop' = "failed" /\ lock' = (IF lock = "no" THEN "record" ELSE lock) /\ UNCHANGED kvOpen
  /\ UNCHANGED <<bootVars, queue, done, svcVars, dogVars, persistent>>

ShutdownEnds == stop = "exit" /\ Exit

----------------------------------------------------------------------------
(* emergencyLockdown, called by the handlers of runtime errors.            *)

(* The handlers do not prevent the default, so the runtime may end the     *)
(* process before the record is written.                                   *)
RuntimeError ==
  /\ boot \notin {"off", "config", "count", "store"} /\ lock = "no"
  /\ lock' = "record"
  /\ UNCHANGED <<bootVars, stopVars, svcVars, dogVars, persistent>>

(* The record is written and sentinel told; on a closed KV the write throws*)
(* and that error ends the process.                                        *)
LockdownRecord ==
  /\ lock = "record"
  /\ IF kvOpen
       THEN /\ lock' = "exit"
            /\ UNCHANGED <<bootVars, stopVars, svcVars, dogVars, persistent>>
       ELSE Exit

LockdownExit == lock = "exit" /\ Exit

BootStep ==
  \/ Configure \/ CountBoot \/ StoreBoot \/ Infrastructure \/ InitNext \/ InitAwaited
  \/ RegisterSignals \/ StartWeb \/ StartWatchdog

StopStep == ShutdownService \/ CloseKv \/ ShutdownEnds

Next ==
  \/ InitCore \/ BootStep \/ StopStep \/ Signal \/ Crash \/ TimePasses
  \/ RuntimeError \/ LockdownRecord \/ LockdownExit
  \/ \E s \in Services : InitEnds(s) \/ ReportFailure(s)
  \/ \E i \in Rounds : RoundBegins(i) \/ RoundEnds(i) \/ \E s \in Services : RoundNext(i, s)

Spec == Init /\ [][Next]_vars

----------------------------------------------------------------------------
TypeOK ==
  /\ boot \in {"off", "config", "count", "store", "infra", "init", "await", "web", "watchdog", "ready"}
  /\ turn \in 1 .. N + 1 /\ boots \in 0 .. MaxBoots
  /\ stop \in {"no", "services", "failed", "exit"} /\ queue \in Seq(Services)
  /\ registered \subseteq Services /\ done \subseteq Services /\ kvOpen \in BOOLEAN
  /\ initialized \subseteq Services /\ failed \subseteq Services /\ runs \in [Services -> Nat]
  /\ watchdog \in {"new", "on", "off"} /\ lock \in {"no", "record", "exit"}
  /\ round \in [Rounds -> [left : SUBSET Services, svc : 0 .. N, tried : 0 .. MAX_RESTART_ATTEMPTS]]
  /\ attempts \in [Services -> 0 .. MAX_RESTART_ATTEMPTS]
  /\ seen \in Nat /\ stored \in Nat /\ recent \in BOOLEAN /\ safe \in BOOLEAN
  /\ chain \in Nat /\ unstored \in Nat

(* Safe mode means at least three boots in quick succession, and no boot   *)
(* that is the third of its kind is missed, not counting boots that died   *)
(* between the read and the write of the counter or could not write it     *)
(* (checkCrashLoop).                                                       *)
SafeModeSound ==
  boot \in {"infra", "init", "await", "web", "watchdog", "ready"} =>
    /\ safe => chain >= SafeAfter
    /\ ~safe => chain - unstored < SafeAfter \/ seen = 0

(* onInit of a service never runs twice at a time, nor again after it      *)
(* succeeded, whoever calls init: the registry or overlapping rounds of the*)
(* watchdog (BaseService.init).                                            *)
InitExclusive ==
  \A s \in Services : runs[s] <= 1 /\ (s \in initialized => runs[s] = 0)

(* A signal stops the services class by class, and the database after all  *)
(* of them: whatever shutdown() fails, no service is stopped, and KV is not*)
(* closed, before every service of a class that goes first                 *)
(* (ServiceRegistry.shutdownAll, gracefulShutdown).                        *)
ShutdownOrdered ==
  /\ \A s \in done, t \in registered : Priority[t] > Priority[s] => t \in done
  /\ boot # "off" /\ ~kvOpen => registered \subseteq done
=============================================================================
