---------------------------- MODULE ThreatResponse ----------------------------
(***************************************************************************)
(* What happens to a security event: EventBus runs it through the chain of *)
(* middleware and hands it to its handlers, each with a time limit;        *)
(* AutoBlockService and PlaybookService answer it at once, and Autopilot   *)
(* gives it to AutonomousResponseEngine, which adds it to the score of its *)
(* source, takes the remediation of that score from PolicyEngine and has   *)
(* ThreatResponseSaga carry it out.                                        *)
(* A source is an address or a process.  The thresholds of the policy and  *)
(* the severities of events are parameters, scaled down for TLC.  How long *)
(* anything takes is not modelled: the time limit of a middleware may      *)
(* strike at any time, and the one of a handler only ends the wait for it. *)
(***************************************************************************)
EXTENDS Naturals, FiniteSets, FiniteSetsExt

CONSTANTS
    Events,        \* the events published
    Severity,      \* what each adds to the score of its source
    Addresses,     \* the sources that are addresses
    Processes,     \* and the ones that are processes
    Depth,         \* number of middleware functions
    Threshold,     \* the score from which each tier of the policy applies
    IsolateAt,     \* ISOLATION_THRESHOLD of the playbook
    MaxDecays      \* bound: decay periods

Sources == Addresses \cup Processes
Tiers == {"LOG", "WATCH", "SHADOW", "BLOCK", "ISOLATE", "LOCKDOWN"}
Handlers == {"autoblock", "playbook", "autopilot"}
Levels == 1 .. Depth
Total == [E \in SUBSET Events |-> MapThenSumSet(LAMBDA e : Severity[e], E)]

ASSUME ResponseAssumption ==
    /\ Addresses \cap Processes = {} /\ IsFiniteSet(Events)
    /\ Severity \in [Events -> Nat] /\ Threshold \in [Tiers -> Nat]
    /\ Threshold["LOG"] = 0 /\ Depth \in Nat /\ IsolateAt \in Nat
    /\ MaxDecays \in Nat

VARIABLES
    src,           \* the source of the events
    bus,           \* "up" or "down"
    level,         \* each event at each middleware
    finalized,     \* events handed to the handlers, or found without any
    got,           \* how often each event was handed to the handlers
    run,           \* each event's handlers: "none", "run" or "done"
    scores,        \* the engine's score of each source
    evicted,       \* history: the score that went with an evicted entry
    seen,          \* the score each evaluation goes on with
    step,          \* of each: "none", "audit", "logged", "saga", "done"
    plan,          \* the tier each evaluation has chosen
    active,        \* activeRemediations
    launched,      \* ghost: tiers started for a source since it was cleared
    shadow,        \* policy.shadowMode
    kills,         \* the delayed kill of the process is due
    threat,        \* the playbook's score of the local node
    decays

busVars == <<bus, level, finalized, got>>
engineVars == <<scores, evicted, seen, step, plan, active, launched>>
vars == <<src, busVars, run, engineVars, shadow, kills, threat, decays>>

Init ==
    /\ src \in Sources
    /\ bus = "up" /\ finalized = {}
    /\ level = [e \in Events |-> [i \in Levels |-> "off"]]
    /\ got = [e \in Events |-> 0]
    /\ run = [e \in Events |-> [h \in Handlers |-> "none"]]
    /\ scores = [s \in Sources |-> 0] /\ evicted = 0
    /\ seen = [e \in Events |-> 0]
    /\ step = [e \in Events |-> "none"] /\ plan = [e \in Events |-> "LOG"]
    /\ active = [s \in Sources |-> "none"]
    /\ launched = [s \in Sources |-> {}]
    /\ shadow \in BOOLEAN
    /\ kills = FALSE /\ threat = 0
    /\ decays = 0

-----------------------------------------------------------------------------
(* EventBus.                                                               *)

IsAddress(s) == s \in Addresses

\* The part of evaluate up to its first await.
Ingest(e) ==
    /\ scores' = [scores EXCEPT ![src] = @ + Severity[e]]
    /\ seen' = [seen EXCEPT ![e] = scores[src] + Severity[e]]
    /\ step' = [step EXCEPT ![e] = "logged"]

\* Autopilot's listeners: the one for HONEYPOT calls evaluate with the dispatch,
\* the one for EBPF_CRITICAL awaits the behavioural audit first.
Listen(e) ==
    IF IsAddress(src) THEN Ingest(e)
    ELSE step' = [step EXCEPT ![e] = "audit"] /\ UNCHANGED <<scores, seen>>

\* Mutant of Finalize: without the set of finalized events.
FinalizeAgain(e) ==
    /\ finalized' = finalized \cup {e}
    /\ got' = [got EXCEPT ![e] = @ + 1]
    /\ run' = [run EXCEPT ![e] = [h \in Handlers |-> "run"]]
    /\ Listen(e)

\* finalizePublish: the first to come hands the event to the handlers, if the
\* bus still has any.
Finalize(e) ==
    /\ finalized' = finalized \cup {e}
    /\ IF e \in finalized \/ bus = "down"
       THEN UNCHANGED <<got, run, scores, seen, step>>
       ELSE /\ got' = [got EXCEPT ![e] = @ + 1]
            /\ run' = [run EXCEPT ![e] = [h \in Handlers |-> "run"]]
            /\ Listen(e)

Untouched == UNCHANGED <<src, bus, evicted, plan, active, launched, shadow, kills,
                         threat, decays>>

\* publish enters the chain, or finalizes when there is no middleware.
Enter(e, i) ==
    IF i <= Depth
    THEN /\ level' = [level EXCEPT ![e][i] = "run"]
         /\ UNCHANGED <<finalized, got, run, scores, seen, step>>
    ELSE Finalize(e) /\ UNCHANGED level

Publish(e) ==
    /\ e \notin finalized /\ \A i \in Levels : level[e][i] = "off"
    /\ bus = "up"
    /\ Enter(e, 1)
    /\ Untouched

\* A middleware calls next(), in time or after its time limit; a bus that was
\* shut down has no further middleware.
CallNext(e, i) ==
    /\ level[e][i] \in {"run", "late"}
    /\ IF i < Depth /\ bus = "up"
       THEN /\ level' = [level EXCEPT ![e][i] = "in", ![e][i + 1] = "run"]
            /\ UNCHANGED <<finalized, got, run, scores, seen, step>>
       ELSE Finalize(e) /\ level' = [level EXCEPT ![e][i] = "in"]
    /\ Untouched

\* It returns after that, or keeps the event: it returns in time without having
\* called next().
Return(e, i) ==
    /\ level[e][i] \in {"run", "in", "late"}
    /\ level' = [level EXCEPT ![e][i] = IF @ = "run" THEN "kept" ELSE "end"]
    /\ UNCHANGED <<finalized, got, run, scores, seen, step>>
    /\ Untouched

\* Mutant of Fail: the failure is only logged.
FailLogged(e, i) ==
    /\ level[e][i] \in {"run", "in"}
    /\ \E to \in {"threw", "late"} : level' = [level EXCEPT ![e][i] = to]
    /\ UNCHANGED <<finalized, got, run, scores, seen, step>>
    /\ Untouched

\* It throws, or exceeds its time limit and goes on unobserved: runMiddleware
\* finalizes the event.
Fail(e, i) ==
    /\ level[e][i] \in {"run", "in"}
    /\ \E to \in IF level[e][i] = "run" THEN {"threw", "late"} ELSE {"threw"} :
          level' = [level EXCEPT ![e][i] = to]
    /\ Finalize(e)
    /\ Untouched

\* shutdown: nothing is pending, or ten seconds have passed; from then on an
\* event finds no handlers.
BusShutdown ==
    /\ bus = "up" /\ bus' = "down"
    /\ UNCHANGED <<src, level, finalized, got, run, engineVars, shadow, kills,
                   threat, decays>>

-----------------------------------------------------------------------------
(* AutoBlockService and PlaybookService.                                   *)

Running(e, h) == run[e][h] = "run"
Ends(e, h) == run' = [run EXCEPT ![e][h] = "done"]

\* The subscriber of AutoBlockService: an address is blocked for a HONEYPOT
\* event; a process is restricted for an EBPF_CRITICAL event, or suspended when
\* it cannot be.  What the firewall and the agents make of it is in Perimeter.
AutoBlock(e) ==
    /\ Running(e, "autoblock") /\ Ends(e, "autoblock")
    /\ UNCHANGED <<src, busVars, engineVars, shadow, kills, threat, decays>>

\* updateThreatScore: the node is isolated at the threshold and starts anew.
UpdateThreatScore(inc) ==
    threat' = IF threat + inc >= IsolateAt THEN 0 ELSE threat + inc

\* The playbooks for the two events; a block or a kill that fails is logged.
Playbook(e) ==
    /\ Running(e, "playbook") /\ Ends(e, "playbook")
    /\ UpdateThreatScore(IF IsAddress(src) THEN 1 ELSE 3)
    /\ UNCHANGED <<src, busVars, engineVars, shadow, kills, decays>>

-----------------------------------------------------------------------------
(* AutonomousResponseEngine, PolicyEngine and ThreatResponseSaga.          *)

\* The behavioural audit has answered; what it blocks is the kernel's affair.
BehavioralAudit(e) ==
    /\ step[e] = "audit"
    /\ Ingest(e)
    /\ UNCHANGED <<src, busVars, run, evicted, plan, active, launched, shadow, kills,
                   threat, decays>>

\* evaluate: the tier with the highest threshold the score has reached.
PolicyEvaluate ==
    [score \in 0 .. Total[Events] |->
        CHOOSE t \in Tiers :
            /\ Threshold[t] <= score
            /\ \A u \in Tiers : Threshold[u] <= score => Threshold[u] <= Threshold[t]]

Enforcing == {"BLOCK", "ISOLATE", "LOCKDOWN"}

\* In shadow mode whatever enforces becomes a WATCH.
Choose(score) ==
    IF shadow /\ PolicyEvaluate[score] \in Enforcing THEN "WATCH"
    ELSE PolicyEvaluate[score]

\* The rest of evaluate, with executeRemediation: nothing more is done when
\* the tier is redundant, else the saga is started with its audit entry.
Resolve(e, redundant, score) ==
    /\ step[e] = "logged"
    /\ scores' = [scores EXCEPT ![src] = score]
    /\ IF redundant
       THEN /\ step' = [step EXCEPT ![e] = "done"] /\ Ends(e, "autopilot")
            /\ UNCHANGED <<plan, active, launched>>
       ELSE /\ step' = [step EXCEPT ![e] = "saga"]
            /\ plan' = [plan EXCEPT ![e] = Choose(seen[e])]
            /\ active' = [active EXCEPT ![src] = Choose(seen[e])]
            /\ launched' = [launched EXCEPT ![src] = @ \cup {Choose(seen[e])}]
            /\ UNCHANGED run
    /\ UNCHANGED <<src, busVars, evicted, seen, shadow, kills, threat, decays>>

\* Mutant of Decide: any active remediation is enough.
DecideOnce(e) == Resolve(e, active[src] # "none", scores[src])

\* Mutant of Decide: the score of the event's arrival is stored once more.
DecideRewrites(e) == Resolve(e, active[src] = Choose(seen[e]), seen[e])

\* After the log entry: the decision is for the score at the event's arrival,
\* the comparison with the tier that is active now.
Decide(e) == Resolve(e, active[src] = Choose(seen[e]), scores[src])

\* The saga of each tier: it succeeds, or fails and is not tried again.  The one
\* that quarantines a process has it killed later.
Saga(e) ==
    /\ step[e] = "saga"
    /\ step' = [step EXCEPT ![e] = "done"] /\ Ends(e, "autopilot")
    /\ kills' = (kills \/ (plan[e] = "BLOCK" /\ ~IsAddress(src)))
    /\ UNCHANGED <<src, busVars, scores, evicted, seen, plan, active, launched, shadow,
                   threat, decays>>

\* Five seconds after the quarantine, whether or not it succeeded.
DelayedKill ==
    /\ kills /\ kills' = FALSE
    /\ UNCHANGED <<src, busVars, run, engineVars, shadow, threat, decays>>

\* decayScores; what reaches zero is forgotten, while its saga may be running.
DecayScores ==
    /\ decays < MaxDecays /\ decays' = decays + 1
    /\ \E s \in Sources : scores[s] > 0
    /\ scores' = [s \in Sources |-> IF scores[s] = 0 THEN 0 ELSE scores[s] - 1]
    /\ active' = [s \in Sources |-> IF scores[s] = 1 THEN "none" ELSE active[s]]
    /\ launched' = [s \in Sources |-> IF scores[s] = 1 THEN {} ELSE launched[s]]
    /\ UNCHANGED <<src, busVars, run, evicted, seen, step, plan, shadow, kills,
                   threat>>

\* The engine keeps its maps for 500 sources: the evaluation of one more evicts
\* the source that was used least recently from the map it is written to, the
\* scores or the remediations.
EvictScore ==
    /\ scores[src] > 0
    /\ scores' = [scores EXCEPT ![src] = 0] /\ evicted' = evicted + scores[src]
    /\ UNCHANGED <<src, busVars, run, seen, step, plan, active, launched, shadow,
                   kills, threat, decays>>

EvictRemediation ==
    /\ active[src] # "none" /\ active' = [active EXCEPT ![src] = "none"]
    /\ UNCHANGED <<src, busVars, run, scores, evicted, seen, step, plan, launched, shadow,
                   kills, threat, decays>>

-----------------------------------------------------------------------------
Next ==
    \/ \E e \in Events :
          \/ Publish(e) \/ AutoBlock(e) \/ Playbook(e) \/ BehavioralAudit(e)
          \/ Decide(e) \/ Saga(e)
          \/ \E i \in Levels : CallNext(e, i) \/ Return(e, i) \/ Fail(e, i)
    \/ DelayedKill
    \/ BusShutdown \/ DecayScores \/ EvictScore \/ EvictRemediation

\* The time limit of a middleware strikes, and what is awaited ends.
Fairness ==
    /\ \A e \in Events, i \in Levels : WF_vars(Fail(e, i))
    /\ \A e \in Events : WF_vars(BehavioralAudit(e)) /\ WF_vars(Decide(e)) /\ WF_vars(Saga(e))

Spec == Init /\ [][Next]_vars /\ Fairness

-----------------------------------------------------------------------------
(* Properties.                                                             *)

\* An event reaches its handlers at most once, although the end of the chain,
\* every failing middleware around it and a middleware that outlives its time
\* limit and calls next() all finalize it.
HandedOnce == \A e \in Events : got[e] <= 1

\* A published event reaches the handlers even if middleware hangs, throws or
\* is late, unless a middleware returns in time without passing it on or the bus
\* has been shut down (runMiddleware forces the finalization).
Swallowed(e) == \E i \in Levels : level[e][i] = "kept"
HandedOver ==
    \A e \in Events :
        (\E i \in Levels : level[e][i] # "off") ~>
            (got[e] = 1 \/ Swallowed(e) \/ bus = "down")

\* Overlapping evaluations of a source never lose an addition (evaluate): what its
\* score has lost is at most what it was decayed by and what went with its entry
\* when the full map evicted it.
Handed(s) == {e \in Events : s = src /\ step[e] \notin {"none", "audit"}}
NoAdditionLost ==
    \A s \in Sources :
        scores[s] + decays + evicted >= Total[Handed(s)]

\* Whatever the order in which evaluations of a source go on: when none is on
\* its way, the tier of its score, or a higher one, has been started, unless
\* shadow mode was on.
Quiet(s) == \A e \in Events : s = src => step[e] \in {"none", "done"}
Escalated ==
    \A s \in Sources :
        (Quiet(s) /\ scores[s] > 0 /\ ~shadow) =>
            \E t \in launched[s] : Threshold[t] >= Threshold[PolicyEvaluate[scores[s]]]
=============================================================================
