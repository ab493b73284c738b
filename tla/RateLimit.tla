----------------------------- MODULE RateLimit -----------------------------
(***************************************************************************)
(* RateLimitService (domain/identity/rate_limit.ts) for one key.           *)
(*                                                                         *)
(* A window is an object {count, resetAt, synced, inflight} of the memory  *)
(* tier.  The decision to allow a request is taken from that object alone; *)
(* what has not been pushed yet is added to a counter in Deno KV by an     *)
(* optimistic transaction that is tried Attempts times.  A window that is  *)
(* over is replaced by the next request or removed by the next flush, while*)
(* its last write may still be under way: that is when two transactions on *)
(* one key meet.                                                           *)
(*                                                                         *)
(* Time is the number of the window a request falls into now; EndWindow is *)
(* the moment the clock passes resetAt of the current one.                 *)
(***************************************************************************)
EXTENDS Naturals, FiniteSetsExt

CONSTANTS
  Limit,        \* requests allowed in a window
  MaxRequests,  \* bound: requests in all windows
  MaxWindows,   \* bound: windows the clock goes through
  MaxFaults     \* bound: transactions that fail because KV does

ASSUME RateAssumption ==
  /\ Limit \in Nat \ {0} /\ MaxWindows \in Nat \ {0}
  /\ MaxRequests \in Nat /\ MaxFaults \in Nat

Attempts == 3

Windows == 1..MaxWindows
NoWindow == 0
Write(d, n) == [delta |-> d, tries |-> n, read |-> FALSE, fresh |-> FALSE, over |-> FALSE]
NoWrite == Write(0, 0)

VARIABLES
  now,      \* the window the clock is in
  tier,     \* memoryTier.get(key): the window it holds, or NoWindow
  count,    \* [Windows -> Nat], synced likewise
  synced,
  write,    \* state.inflight: the transaction under way and what it adds
  kv,       \* the stored counter and the window its resetAt belongs to
  flush,    \* per flush task: the window object it holds, and what it awaits
  mark,     \* requests counted when the shutdown began, per window
  pushed,   \* history: what of each window the transactions added to KV
  lost,     \* history: what of it was in writes that failed every attempt
  faults

histories == <<pushed, lost>>
vars == <<now, tier, count, synced, write, kv, flush, mark, histories, faults>>

Flushers == {"timer", "shutdown"}
Idle == [at |-> "idle", win |-> NoWindow]

Init ==
  /\ now = 1 /\ tier = NoWindow
  /\ count = [w \in Windows |-> 0] /\ synced = [w \in Windows |-> 0]
  /\ write = [w \in Windows |-> NoWrite]
  /\ kv = [count |-> 0, win |-> NoWindow]
  /\ flush = [f \in Flushers |-> Idle]
  /\ mark = [w \in Windows |-> 0] /\ faults = 0
  /\ pushed = [w \in Windows |-> 0] /\ lost = [w \in Windows |-> 0]

Busy(w) == write[w].tries > 0

(* Mutant: the running total is pushed instead of the delta.               *)
SyncKeyTotal(w, c) ==
  IF Busy(w) \/ c <= synced[w]
    THEN UNCHANGED <<synced, write>>
    ELSE /\ synced' = [synced EXCEPT ![w] = c]
         /\ write' = [write EXCEPT ![w] = Write(c, 1)]

(* syncKey: one write per window object, of what was not pushed yet.       *)
SyncKey(w, c) ==
  IF Busy(w) \/ c <= synced[w]
    THEN UNCHANGED <<synced, write>>
    ELSE /\ synced' = [synced EXCEPT ![w] = c]
         /\ write' = [write EXCEPT ![w] = Write(c - synced[w], 1)]

Total(f) == MapThenSumSet(LAMBDA w : f[w], Windows)

(* checkLimit: counts the request in the window the tier holds, or in a new*)
(* one, and starts a write from half of the limit on.                      *)
CheckLimit ==
  /\ Total(count) < MaxRequests
  /\ tier' = now
  /\ count' = [count EXCEPT ![now] = @ + 1]
  /\ IF 2 * (count[now] + 1) >= Limit
       THEN SyncKey(now, count[now] + 1)
       ELSE UNCHANGED <<synced, write>>
  /\ UNCHANGED <<now, kv, flush, mark, histories, faults>>

EndWindow ==
  /\ now < MaxWindows /\ tier = now
  /\ now' = now + 1
  /\ UNCHANGED <<tier, count, synced, write, kv, flush, mark, histories, faults>>

(* syncToKv: a transaction reads the entry, and sees by the clock whether  *)
(* the window of the entry is over ...                                     *)
KvRead(w) ==
  /\ Busy(w) /\ ~write[w].read
  /\ write' = [write EXCEPT ![w].read = TRUE, ![w].fresh = TRUE, ![w].over = kv.win < now]
  /\ UNCHANGED <<now, tier, count, synced, kv, flush, mark, histories, faults>>

(* ... and replaces an entry whose window was over, or adds to a live one. *)
(* Every other transaction that has read the entry will fail its check.    *)
Added(w) ==
  IF write[w].over
    THEN [count |-> write[w].delta, win |-> w]
    ELSE [count |-> kv.count + write[w].delta, win |-> IF kv.win > w THEN kv.win ELSE w]

(* A flush task that awaits the write of a window goes on when it ends.    *)
Woken(w) ==
  [f \in Flushers |->
    CASE flush[f] = [at |-> "await", win |-> w] -> [at |-> "ready", win |-> w]
      [] flush[f] = [at |-> "push", win |-> w] -> [at |-> "done", win |-> w]
      [] OTHER -> flush[f]]

KvCommit(w) ==
  /\ write[w].fresh
  /\ kv' = Added(w)
  /\ pushed' = [pushed EXCEPT ![w] = @ + write[w].delta]
  /\ write' = [v \in Windows |-> IF v = w THEN NoWrite ELSE [write[v] EXCEPT !.fresh = FALSE]]
  /\ flush' = Woken(w)
  /\ UNCHANGED <<now, tier, count, synced, mark, lost, faults>>

(* A failed attempt is repeated; after the last one retry() returns the    *)
(* error as a value, so syncKey neither gives the delta back nor reports.  *)
Retry(w) ==
  IF write[w].tries = Attempts
    THEN /\ write' = [write EXCEPT ![w] = NoWrite] /\ flush' = Woken(w)
         /\ lost' = [lost EXCEPT ![w] = @ + write[w].delta]
    ELSE /\ write' = [write EXCEPT ![w] = Write(@.delta, @.tries + 1)]
         /\ UNCHANGED <<flush, lost>>

KvConflict(w) ==
  /\ write[w].read /\ ~write[w].fresh
  /\ Retry(w)
  /\ UNCHANGED <<now, tier, count, synced, kv, mark, pushed, faults>>

KvFault(w) ==
  /\ Busy(w) /\ faults < MaxFaults
  /\ faults' = faults + 1
  /\ Retry(w)
  /\ UNCHANGED <<now, tier, count, synced, kv, mark, pushed>>

(* Mutant: the flush does not let the write under way settle first.        *)
FlushAtOnce(f) ==
  IF tier < now
    THEN tier' = NoWindow /\ flush' = [flush EXCEPT ![f] = [at |-> "done", win |-> NoWindow]]
    ELSE flush' = [flush EXCEPT ![f] = [at |-> "ready", win |-> tier]] /\ UNCHANGED tier

(* flushMemoryTier: a window that is over is dropped, for another one the  *)
(* task awaits the write under way and then pushes the rest.  Ticks of the *)
(* interval that overlap hold the same object and are one task here.       *)
Flush(f) ==
  IF tier < now
    THEN /\ tier' = NoWindow
         /\ flush' = [flush EXCEPT ![f] = [at |-> "done", win |-> NoWindow]]
    ELSE /\ flush' = [flush EXCEPT ![f] =
              [at |-> IF Busy(tier) THEN "await" ELSE "ready", win |-> tier]]
         /\ UNCHANGED tier

SyncTimer ==
  /\ flush["timer"] = Idle /\ flush["shutdown"] = Idle
  /\ tier # NoWindow
  /\ Flush("timer")
  /\ UNCHANGED <<now, count, synced, write, kv, mark, histories, faults>>

FlushSync(f) ==
  LET w == flush[f].win IN
    /\ flush[f].at = "ready"
    /\ SyncKey(w, count[w])
    /\ flush' = [flush EXCEPT ![f].at = IF write'[w].tries > 0 THEN "push" ELSE "done"]
    /\ UNCHANGED <<now, tier, count, kv, mark, histories, faults>>

FlushEnds(f) ==
  /\ flush[f].at = "done"
  /\ flush' = [flush EXCEPT ![f] = IF f = "timer" THEN Idle ELSE [@ EXCEPT !.at = "ended"]]
  /\ UNCHANGED <<now, tier, count, synced, write, kv, mark, histories, faults>>

(* onShutdown: the interval is cleared and one last flush is awaited.      *)
OnShutdown ==
  /\ flush["shutdown"] = Idle
  /\ Flush("shutdown")
  /\ mark' = count
  /\ UNCHANGED <<now, count, synced, write, kv, histories, faults>>

Next ==
  \/ CheckLimit \/ EndWindow \/ SyncTimer \/ OnShutdown
  \/ \E w \in Windows : KvRead(w) \/ KvCommit(w) \/ KvConflict(w) \/ KvFault(w)
  \/ \E f \in Flushers : FlushSync(f) \/ FlushEnds(f)

Spec == Init /\ [][Next]_vars

TypeOK ==
  /\ now \in Windows /\ tier \in Windows \cup {NoWindow}
  /\ count \in [Windows -> Nat] /\ synced \in [Windows -> Nat] /\ mark \in [Windows -> Nat]
  /\ write \in [Windows -> [delta : Nat, tries : 0..Attempts, read : BOOLEAN, fresh : BOOLEAN,
                         over : BOOLEAN]]
  /\ kv \in [count : Nat, win : Windows \cup {NoWindow}]
  /\ flush \in [Flushers -> [at : {"idle", "await", "ready", "push", "done", "ended"},
                             win : Windows \cup {NoWindow}]]
  /\ pushed \in [Windows -> Nat] /\ lost \in [Windows -> Nat]
  /\ faults \in 0..MaxFaults

(* The counter in KV never exceeds the requests that were counted: every   *)
(* delta is added at most once, whatever conflicts, retries, flushes and   *)
(* windows that end under a write do (syncKey and syncToKv).               *)
NeverOvercounted ==
  kv.count <= Total([w \in Windows |-> synced[w] - write[w].delta])

(* When the shutdown has ended, every request that was counted in the live *)
(* window before it began was added to KV, or was in a write that failed   *)
(* every attempt: none is still waiting to be pushed or being pushed       *)
(* (flushMemoryTier lets the write under way settle and pushes the rest).  *)
FlushedAtShutdown ==
  \A w \in Windows :
    flush["shutdown"] = [at |-> "ended", win |-> w] => pushed[w] + lost[w] >= mark[w]

(* What syncKey says of itself: synced is rolled back if the write         *)
(* ultimately fails, so that a failed sync loses no counts.  A live window *)
(* without a write under way has pushed all that it takes for pushed.      *)
FailedSyncKeepsCounts ==
  \A w \in Windows : tier = w /\ ~Busy(w) => pushed[w] = synced[w]
=============================================================================
