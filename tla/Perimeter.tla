------------------------------ MODULE Perimeter ------------------------------
(***************************************************************************)
(* The enforcement of blocks.  FirewallManager (infrastructure/system/     *)
(* protection/firewall/firewall.ts) keeps the blocked addresses in memory  *)
(* and as ["enforcement", ip] records in KV; UbuntuFirewallProvider asks   *)
(* the sentinel agent to hold the rule and falls back to ufw.              *)
(* CuratedIntelService (domain/analysis/curated_intel_service.ts) blocks   *)
(* what its feeds rate highly and audits the records that have expired.    *)
(*                                                                         *)
(* Calls for different addresses meet only in flushRules and the           *)
(* connectivity guard, so one address is modelled.  Every await of a call  *)
(* is the end of a step.  The rule of the sentinel is the entry in its map *)
(* XDP_BLOCK_LIST.                                                         *)
(***************************************************************************)
EXTENDS Naturals, FiniteSets

CONSTANTS
  Callers,   \* calls of the API, the responses and the feeds that overlap
  PilotMode, \* whether the connectivity guard is on
  MaxCalls,   \* bounds: requests, and crashes and stops of the agent
  MaxFaults

VARIABLES
  up,       \* the orchestrator: "down", "boot" (hydrating), "up"
  task,     \* what every caller, the audit, the guard and the boot are doing
  mem,      \* blockedIps has the address
  rec,      \* its enforcement record: "none", "fresh" or past its expiresAt
  score,    \* curated_threats: 0 absent, 1 below 70, 2 below 95, 3 from 95 on
  active,   \* the sentinel runs, and not in its dummy mode without BPF
  xdp, ufw, \* the rule is in the map of the sentinel, in ufw
  overdue,  \* commands given up on that the sentinel may still carry out
  clean,    \* block calls since which nothing took the block back (history)
  tight,    \* such a call succeeded, and nothing has taken it back (history)
  unheld,   \* the full map of the sentinel dropped the last block (history)
  calls,    \* requests and faults so far
  faults

ruleVars == <<active, xdp, ufw, overdue>>
history == <<clean, tight, unheld>>
bounds == <<calls, faults>>
vars == <<up, task, mem, rec, score, ruleVars, history, bounds>>

Threads == Callers \cup {"audit", "guard", "boot"}
Idle == [op |-> "none", at |-> "idle", for |-> "none", new |-> 0]
Call(op, at, for) == [op |-> op, at |-> at, for |-> for, new |-> 0]

Init ==
  /\ up = "down" /\ task = [t \in Threads |-> Idle]
  /\ mem = FALSE /\ rec = "none" /\ score = 0
  /\ active = FALSE /\ xdp = FALSE /\ ufw = FALSE /\ overdue = {}
  /\ clean = {} /\ tight = FALSE /\ unheld = FALSE
  /\ calls = 0 /\ faults = 0

Set(t, call) == task' = [task EXCEPT ![t] = call]
Goto(t, at) == task' = [task EXCEPT ![t].at = at]

(* Something is taking the block back, or may still do so.                 *)
Undoing ==
  \/ \E t \in Threads : task[t].op \in {"unblock", "flush"}
  \/ "UNBLOCK_IP" \in overdue

BeginsBlock(t) == clean' = (IF Undoing THEN clean \ {t} ELSE clean \cup {t}) /\ UNCHANGED <<tight, unheld>>
BeginsUndo == clean' = {} /\ tight' = FALSE /\ UNCHANGED unheld

-----------------------------------------------------------------------------
(* FirewallManager: the part of a call before its first await.             *)

BlockIp(t, for) ==
  /\ mem' = TRUE
  /\ Set(t, [Call("block", "record", for) EXCEPT !.new = task[t].new])
  /\ BeginsBlock(t)
  /\ UNCHANGED <<up, rec, score, ruleVars>>

UnblockIp(t, for) ==
  /\ mem' = FALSE
  /\ Set(t, Call("unblock", "record", for))
  /\ BeginsUndo
  /\ UNCHANGED <<up, rec, score, ruleVars>>

FlushRules(t) ==
  /\ mem' = FALSE
  /\ Set(t, Call("flush", "ask", "flush"))
  /\ BeginsUndo
  /\ UNCHANGED <<up, rec, score, ruleVars>>

ShadowBanIp(t) ==
  /\ Set(t, Call("shadow", "ask", "shadow"))
  /\ UNCHANGED <<up, mem, rec, score, ruleVars, history>>

(* A block is written to KV and an unblock deleted from it before the      *)
(* provider is called.                                                     *)
Record(t) ==
  /\ task[t].at = "record"
  /\ rec' = IF task[t].op = "block" THEN "fresh" ELSE "none"
  /\ Goto(t, "ask")
  /\ UNCHANGED <<up, mem, score, ruleVars, history, bounds>>

-----------------------------------------------------------------------------
(* UbuntuFirewallProvider and the handlers of the sentinel.                *)

(* isSentinelActive.  A ban without a sentinel is a block from here on,    *)
(* which asks again; the other calls go to ufw.                            *)
Ask(t) ==
  /\ task[t].at = "ask"
  /\ \/ active /\ Goto(t, "sentinel")
     \/ IF task[t].op = "shadow" THEN Set(t, Call("block", "ask", "shadow"))
                                 ELSE Goto(t, "ufw")
  /\ UNCHANGED <<up, mem, rec, score, ruleVars, history, bounds>>

(* verifyConnectivity runs after a success, unless it is running already.  *)
Guarded(t, done, next) ==
  task' = [u \in Threads |->
             IF u = t THEN next
             ELSE IF u = "guard" /\ done /\ PilotMode /\ task[u] = Idle
             THEN Call("none", "ping", "guard") ELSE task[u]]

(* The provider has answered.  What follows depends on who called.         *)
Returned(t, done) ==
  LET c == task[t] IN
    /\ CASE c.for \in {"block", "shadow"} -> Guarded(t, done, Idle)
         [] c.for \in {"isolate", "sync"} -> Guarded(t, done, [c EXCEPT !.at = "commit"])
         [] c.for = "purge" -> Goto(t, "delete")
         [] OTHER -> Set(t, Idle)
    /\ up' = IF c.for = "hydrate" THEN "up" ELSE up
    /\ clean' = clean \ {t}
    /\ tight' = IF c.for = "hydrate" THEN tight /\ done
                ELSE tight \/ (done /\ t \in clean)

(* handle_command of the sentinel: what a command may do to the map.  The  *)
(* insertion of a new entry into a full map fails, unobserved.             *)
Applied(op) ==
  CASE op = "block" -> IF xdp THEN {TRUE} ELSE BOOLEAN
    [] op = "unblock" -> {FALSE}
    [] OTHER -> {xdp}

(* Each of these reports success.  FlushRules opens the map with the wrong *)
(* key type, so that it removes no entry and reports a failure.            *)
SentinelOk(t) ==
  /\ task[t].at = "sentinel" /\ active
  /\ task[t].op # "flush"
  /\ xdp' \in Applied(task[t].op)
  /\ unheld' = IF task[t].op = "block" THEN ~xdp' ELSE unheld
  /\ Returned(t, TRUE)
  /\ UNCHANGED <<mem, rec, score, active, ufw, overdue, bounds>>

(* The command fails, or its answer does not come in time: it is still in  *)
(* the way to the agent.  A ban becomes a block, the others go to ufw.     *)
FallBack(t) ==
  IF task[t].op = "shadow" THEN Set(t, Call("block", "ask", "shadow")) ELSE Goto(t, "ufw")

SentinelFails(t) ==
  /\ task[t].at = "sentinel"
  /\ FallBack(t)
  /\ \/ UNCHANGED overdue
     \/ /\ active /\ task[t].op \in {"block", "unblock"}
        /\ overdue' = overdue \cup {IF task[t].op = "block" THEN "BLOCK_IP" ELSE "UNBLOCK_IP"}
  /\ UNCHANGED <<up, mem, rec, score, active, xdp, ufw, history, bounds>>

SentinelLate(cmd) ==
  /\ cmd \in overdue
  /\ overdue' = overdue \ {cmd}
  /\ xdp' \in Applied(IF cmd = "BLOCK_IP" THEN "block" ELSE "unblock")
  /\ UNCHANGED <<up, task, mem, rec, score, active, ufw, history, bounds>>

(* ufw works or not; its policy refuses the arguments of a reset.          *)
Ufw(t) ==
  /\ task[t].at = "ufw"
  /\ \E done \in BOOLEAN :
       /\ done => task[t].op # "flush"
       /\ ufw' = IF done THEN task[t].op = "block" ELSE ufw
       /\ unheld' = (unheld /\ ~done)
       /\ Returned(t, done)
  /\ UNCHANGED <<mem, rec, score, active, xdp, overdue, bounds>>

-----------------------------------------------------------------------------
(* CuratedIntelService.                                                    *)

(* What a feed makes of the score it has read: a weight of 50 to 99 for a  *)
(* new indicator, and half of the weight more for a known one.             *)
Rated(old) == CASE old = 0 -> 1..3 [] old = 1 -> 2..3 [] OTHER -> {3}

(* processSource for a line with this address: the score is read ...       *)
SyncRead(t) ==
  /\ \E new \in Rated(score) :
       Set(t, [Call("none", IF new = 3 THEN "enforced" ELSE "store", "sync") EXCEPT !.new = new])
  /\ UNCHANGED <<up, mem, rec, score, ruleVars, history>>

(* ... an address from 95 on is isolated unless a record exists ...        *)
SyncCheck(t) ==
  /\ task[t].at = "enforced"
  /\ \/ rec # "none" /\ Goto(t, "store")
        /\ UNCHANGED <<up, mem, rec, score, ruleVars, history>>
     \/ rec = "none" /\ BlockIp(t, "sync")
  /\ UNCHANGED bounds

(* ... (the second write of the record, by commitIsolation) ...            *)
Commit(t) ==
  /\ task[t].at = "commit"
  /\ rec' = "fresh"
  /\ IF task[t].for = "sync" THEN Set(t, [task[t] EXCEPT !.op = "none", !.at = "store"])
                             ELSE Set(t, Idle)
  /\ UNCHANGED <<up, mem, score, ruleVars, history, bounds>>

(* ... and the score is stored.                                            *)
SyncStore(t) ==
  /\ task[t].at = "store"
  /\ score' = task[t].new
  /\ Set(t, Idle)
  /\ UNCHANGED <<up, mem, rec, ruleVars, history, bounds>>

(* The scores expire in KV after 72 hours, and wipeDatabase deletes them.  *)
ForgetScore ==
  /\ up = "up" /\ score # 0
  /\ score' = 0
  /\ UNCHANGED <<up, task, mem, rec, ruleVars, history, bounds>>

Expire ==
  /\ rec = "fresh"
  /\ rec' = "expired"
  /\ UNCHANGED <<up, task, mem, score, ruleVars, history, bounds>>

(* processLifecycle finds an expired record ...                            *)
AuditFinds ==
  /\ up = "up" /\ task["audit"] = Idle
  /\ rec = "expired"
  /\ Set("audit", Call("none", "verify", "audit"))
  /\ UNCHANGED <<up, mem, rec, score, ruleVars, history, bounds>>

(* Mutant: an address that is still rated highly is passed over.           *)
ReverifySkips ==
  /\ task["audit"].at = "verify"
  /\ IF score >= 2
     THEN /\ Set("audit", Idle)
          /\ UNCHANGED <<up, mem, rec, score, ruleVars, history>>
     ELSE UnblockIp("audit", "purge")
  /\ UNCHANGED bounds

(* ... reads the score: from 70 on the record is renewed, otherwise the    *)
(* address is unblocked ...                                                *)
Reverify ==
  /\ task["audit"].at = "verify"
  /\ IF score >= 2
     THEN /\ Goto("audit", "renew")
          /\ UNCHANGED <<up, mem, rec, score, ruleVars, history>>
     ELSE UnblockIp("audit", "purge")
  /\ UNCHANGED bounds

(* ... and the record is written, with the data read at first, or deleted  *)
(* once more.                                                              *)
AuditWrites ==
  /\ task["audit"].at \in {"renew", "delete"}
  /\ rec' = IF task["audit"].at = "renew" THEN "fresh" ELSE "none"
  /\ Set("audit", Idle)
  /\ UNCHANGED <<up, mem, score, ruleVars, history, bounds>>

-----------------------------------------------------------------------------
(* The connectivity guard, after its five seconds: ping, and a rollback    *)
(* when nothing answers.                                                   *)
Ping ==
  /\ task["guard"].at = "ping"
  /\ \/ /\ Set("guard", Idle)
        /\ UNCHANGED <<up, mem, rec, score, ruleVars, history>>
     \/ FlushRules("guard")
  /\ UNCHANGED bounds

(* The agent starts with BPF, and stops; its maps go with it.              *)
SentinelStart ==
  /\ up # "down" /\ ~active
  /\ active' = TRUE
  /\ UNCHANGED <<up, task, mem, rec, score, xdp, ufw, overdue, history, bounds>>

SentinelStop ==
  /\ active /\ faults < MaxFaults
  /\ faults' = faults + 1
  /\ active' = FALSE /\ xdp' = FALSE /\ overdue' = {}
  /\ tight' = (tight /\ ufw)
  /\ UNCHANGED <<up, task, mem, rec, score, ufw, clean, unheld, calls>>

(* Mutant: the records are only read into memory.                          *)
BootReads ==
  /\ up = "down"
  /\ up' = "up" /\ mem' = (rec # "none")
  /\ UNCHANGED <<task, rec, score, ruleVars, history, bounds>>

(* setKv of FirewallManager: every recorded address is blocked again.      *)
Boot ==
  /\ up = "down"
  /\ IF rec = "none"
     THEN up' = "up" /\ UNCHANGED <<task, mem>>
     ELSE up' = "boot" /\ mem' = TRUE /\ Set("boot", Call("block", "ask", "hydrate"))
  /\ UNCHANGED <<rec, score, ruleVars, history, bounds>>

Crash ==
  /\ up # "down" /\ faults < MaxFaults
  /\ faults' = faults + 1
  /\ up' = "down" /\ mem' = FALSE /\ task' = [t \in Threads |-> Idle]
  /\ active' = FALSE /\ xdp' = FALSE /\ overdue' = {}
  /\ clean' = {} /\ UNCHANGED <<rec, score, ufw, tight, unheld, calls>>

Request(t) ==
  /\ up = "up" /\ task[t] = Idle
  /\ calls < MaxCalls /\ calls' = calls + 1 /\ UNCHANGED faults
  /\ \/ BlockIp(t, "block") \/ BlockIp(t, "isolate")
     \/ UnblockIp(t, "unblock") \/ FlushRules(t) \/ ShadowBanIp(t) \/ SyncRead(t)

Provider(t) == Record(t) \/ Ask(t) \/ SentinelOk(t) \/ SentinelFails(t) \/ Ufw(t)

Next ==
  \/ \E t \in Callers : Request(t) \/ SyncCheck(t) \/ Commit(t) \/ SyncStore(t)
  \/ \E t \in Threads : Provider(t)
  \/ \E cmd \in {"BLOCK_IP", "UNBLOCK_IP"} : SentinelLate(cmd)
  \/ AuditFinds \/ Reverify \/ AuditWrites \/ Ping
  \/ ForgetScore \/ Expire
  \/ SentinelStart \/ SentinelStop \/ Boot \/ Crash

(* The interval of the audit fires, KV, the agent (or its time limit) and  *)
(* ufw answer, and a process that died is started again.                   *)
Fairness ==
  /\ WF_vars(Boot) /\ WF_vars(Provider("boot"))
  /\ WF_vars(AuditFinds \/ Reverify \/ AuditWrites \/ Provider("audit"))

Spec == Init /\ [][Next]_vars /\ Fairness

TypeOK ==
  /\ up \in {"down", "boot", "up"}
  /\ task \in [Threads -> [op : {"none", "block", "unblock", "flush", "shadow"},
       at : {"idle", "record", "ask", "sentinel", "ufw", "commit", "enforced", "store",
             "verify", "renew", "delete", "ping"},
       for : {"none", "block", "shadow", "isolate", "sync", "unblock", "purge", "flush",
              "hydrate", "audit", "guard"},
       new : 0..3]]
  /\ mem \in BOOLEAN /\ rec \in {"none", "fresh", "expired"} /\ score \in 0..3
  /\ active \in BOOLEAN /\ xdp \in BOOLEAN /\ ufw \in BOOLEAN
  /\ overdue \subseteq {"BLOCK_IP", "UNBLOCK_IP"}
  /\ clean \subseteq Threads /\ tight \in BOOLEAN /\ unheld \in BOOLEAN
  /\ calls \in 0..MaxCalls /\ faults \in 0..MaxFaults

(* A block that was reported as done, and that no unblock, flush, purge or *)
(* loss of the agent has taken back, is in memory, on record and held by   *)
(* the sentinel or by ufw, or the full map of the sentinel dropped it: also*)
(* with a sentinel that fails between the question and the command, with a *)
(* late command and after a crash (blockIp, provider.blockIp and setKv).   *)
BlockHolds ==
  (up = "up" /\ tight) => mem /\ rec # "none" /\ (xdp \/ ufw \/ unheld)

(* What the comment of getEnforcementLedger says of the audit, that it     *)
(* re-verifies each entry as its TTL lapses: it purges no address whose    *)
(* record is fresh again.                                                  *)
PurgesLapsed ==
  [][task["audit"].at = "verify" /\ task'["audit"].op = "unblock" => rec # "fresh"]_vars

(* An expired record does not stay: the audit renews it or purges it, and  *)
(* an error of the agent or of ufw does not keep it from that              *)
(* (processLifecycle).                                                     *)
EnforcementEnds == rec = "expired" ~> rec # "expired"
=============================================================================
