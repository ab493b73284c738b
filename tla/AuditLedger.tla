----------------------------- MODULE AuditLedger -----------------------------
(***************************************************************************)
(* The audit ledger of the orchestrator: AuditService (domain/analysis/    *)
(* audit.ts) over the timeline repository in Deno KV.  Events are queued   *)
(* by logEvent, hashed and signed one at a time by processQueue, collected *)
(* in auditBuffer, and written in batches by flushBuffer; verification,    *)
(* retention, mesh sync, shutdown and boot run between their awaits.       *)
(*                                                                         *)
(* A hash is the identity of the event it covers: computeHash covers the   *)
(* random id, so distinct events have distinct hashes.  `src` is the       *)
(* logEvent call an event came from (0 for checkpoints and synced events). *)
(* The KV key of an event is (timestamp, uuid): `ts` is the clock reading  *)
(* and `rank` the order of its uuid among the uuids of the same            *)
(* millisecond.  The WORM mirror is left out: no caller of                 *)
(* setWormRepository exists outside the tests.                             *)
(***************************************************************************)
EXTENDS Integers, Sequences, FiniteSets

CONSTANTS
    Types,         \* event types callers log
    Stamped,       \* subset of BOOLEAN: do callers pass a timestamp?
    Ranks,         \* positions a random uuid can take within a millisecond
    MaxEvents,     \* bound: accepted logEvent calls
    MaxTime,       \* bound: clock
    MaxQueue,      \* MAX_QUEUE_DEPTH, 5000 in the code
    FlushAt,       \* buffer length that makes processQueue flush, 100
    Chunk,         \* CHUNK_SIZE of setMany, 100
    Retention,     \* maxAgeDays, in clock units
    BootWindow,    \* events verified on boot, 50
    VerifyWindow,  \* events verified periodically, 100
    HealDisabled,  \* subset of BOOLEAN: is HEAL_DEV_AUDIT_LEDGER=false at a boot?
    Limit,         \* bound: how often each kind of fault happens
    MaxFaults      \* bound: faults of all kinds together

Faults == {"crash", "sign", "flush", "purge", "sync", "giveup", "stop"}

ASSUME LedgerAssumption ==
    /\ MaxEvents \in Nat /\ MaxTime \in Nat \ {0} /\ MaxQueue \in Nat
    /\ FlushAt \in Nat \ {0} /\ Chunk \in Nat \ {0}
    /\ Retention \in Nat /\ BootWindow \in Nat /\ VerifyWindow \in Nat
    /\ Ranks \subseteq Nat /\ Stamped \subseteq BOOLEAN
    /\ HealDisabled \subseteq BOOLEAN /\ Limit \in [Faults -> Nat]
    /\ MaxFaults \in Nat
    /\ "CHECKPOINT" \notin Types

GENESIS == 0
TRUNCATED == -1
None == [none |-> TRUE]

VARIABLES
    now,          \* the wall clock
    nextId,       \* the next fresh event id
    accepted,     \* logEvent calls accepted so far
    queue,        \* logQueue: raw events [src, type, ts], ts = 0 when absent
    cur,          \* the part of currentQueue not yet in the buffer
    job,          \* the event processQueue is hashing and signing, or None
    pc,           \* where processQueue is: idle, hash, leaf, flush or next
    buffer,       \* auditBuffer
    toFlush,      \* the batch flushBuffer is saving, empty when it is not
    saved,        \* how many events of the batch are committed
    kv,           \* stored events
    count,        \* the counter stats/audit/count
    lastHash,
    lastVerified, \* lastVerifiedHash
    vscan,        \* verifyChainIncremental under way: none, valid, broken
    purge,        \* purgeExpired under way, or None
    sync,         \* the event syncEvents is saving, or None
    phase,        \* down, refused, ready, drain, final, closing, closed
    live,         \* src of the events accepted since the last boot
    due,          \* the value of live when shutdown began
    dropped,      \* types of events refused for a full queue
    used          \* how often each fault happened

mem  == <<queue, cur, job, pc, buffer, toFlush, saved, lastHash, lastVerified,
          vscan, purge, sync>>
proc == <<queue, cur, job, pc>>
bufs == <<buffer, toFlush, saved>>
disk == <<kv, count>>
head == <<lastHash, lastVerified>>
side == <<vscan, purge, sync>>
hist == <<live, due, dropped>>
vars == <<now, nextId, accepted, mem, disk, phase, hist, used>>

Running  == phase \in {"ready", "drain", "final", "closing", "closed"}
Flushing == toFlush # <<>>

\* A fault of kind k happens, within the bounds.
Fault(k) ==
    /\ used[k] < Limit[k]
    /\ used["all"] < MaxFaults
    /\ used' = [used EXCEPT ![k] = @ + 1, !["all"] = @ + 1]

-----------------------------------------------------------------------------
(* The stored timeline and its verification.                               *)

\* Order of KV keys [prefix, timestamp, uuid].
KeyBefore(e, f) ==
    \/ e.ts < f.ts
    \/ e.ts = f.ts /\ e.rank < f.rank
    \/ e.ts = f.ts /\ e.rank = f.rank /\ e.id < f.id

\* getStream(limit, true): the newest events by key.
Newest(limit) == {e \in kv : Cardinality({f \in kv : KeyBefore(e, f)}) < limit}

\* getLatest(1).
Latest == CHOOSE e \in kv : \A f \in kv : f = e \/ KeyBefore(f, e)

\* The stream visits each pair of neighbours, the newer one first.
Neighbours(S) ==
    {p \in S \X S : /\ KeyBefore(p[1], p[2])
                    /\ \A m \in S : ~(KeyBefore(p[1], m) /\ KeyBefore(m, p[2]))}

\* verifyChain(limit): no neighbour breaks the chain.  Checkpoints restart it.
ChainValid(limit) ==
    \A p \in Neighbours(Newest(limit)) :
        \/ p[1].type = "CHECKPOINT"
        \/ p[2].prev \in {p[1].id, TRUNCATED}

Event(src, type, ts, rank, prev) ==
    [id |-> nextId, src |-> src, type |-> type, ts |-> ts, rank |-> rank,
     prev |-> prev]

Checkpoint(rank) == Event(0, "CHECKPOINT", now, rank, TRUNCATED)

\* The KvU64 constructor throws a RangeError for a negative argument.
KvU64Accepts(v) == v >= 0

\* deleteBefore: the counter is to be changed by minus the batch size before
\* the batch is committed.
DeleteBefore(cutoff) ==
    LET expired == {e \in kv : e.ts < cutoff}
    IN  IF KvU64Accepts(-Cardinality(expired))
        THEN [kv |-> kv \ expired, count |-> count - Cardinality(expired)]
        ELSE [kv |-> kv, count |-> count]

-----------------------------------------------------------------------------
(* processQueue.                                                           *)

\* The top of its inner loop: take the first raw event of `rest`, read the
\* clock and the chain head `prev`, and wait for computeHash and tpm.sign.
StartJob(rest, prev) ==
    /\ cur' = rest
    /\ \E r \in Ranks :
          job' = Event(rest[1].src, rest[1].type,
                       IF rest[1].ts = 0 THEN now ELSE rest[1].ts, r, prev)
    /\ nextId' = nextId + 1
    /\ pc' = "hash"

\* The rest of currentQueue, then whatever logQueue collected meanwhile.
Advance ==
    \/ cur # <<>> /\ StartJob(cur, lastHash) /\ UNCHANGED queue
    \/ cur = <<>> /\ queue # <<>> /\ StartJob(queue, lastHash) /\ queue' = <<>>
    \/ /\ cur = <<>> /\ queue = <<>>
       /\ pc' = "idle" /\ job' = None
       /\ UNCHANGED <<cur, queue, nextId>>

\* logEvent's body, on a queue that is not full: append, and start
\* processQueue, which runs at once up to its first await.
Enqueue(type, ts) ==
    LET raw == [src |-> accepted + 1, type |-> type, ts |-> ts]
    IN  /\ Len(queue) <= MaxQueue
        /\ accepted < MaxEvents
        /\ accepted' = accepted + 1
        /\ live' = live \cup {accepted + 1}
        /\ IF pc = "idle"
           THEN StartJob(Append(queue, raw), lastHash) /\ queue' = <<>>
           ELSE queue' = Append(queue, raw) /\ UNCHANGED <<cur, job, pc, nextId>>

LogEvent ==
    /\ Running
    /\ \E type \in Types, s \in Stamped : Enqueue(type, IF s THEN now ELSE 0)
    /\ UNCHANGED <<now, bufs, disk, head, side, phase, due, dropped, used>>

LogDrop ==
    /\ Running
    /\ Len(queue) > MaxQueue
    /\ \E type \in Types : dropped' = dropped \cup {type}
    /\ UNCHANGED <<now, nextId, accepted, mem, disk, phase, live, due, used>>

\* Mutant of HashSigned: the head is not moved to the new event.
HashSignedOldHead ==
    /\ pc = "hash"
    /\ buffer' = Append(buffer, job)
    /\ cur' = Tail(cur)
    /\ job' = None
    /\ pc' = "leaf"
    /\ UNCHANGED <<now, nextId, accepted, queue, toFlush, saved, disk, head,
                   side, phase, hist, used>>

\* The hash and the signature are there: the event enters the buffer and
\* becomes the head.  Only then does processQueue wait for addLeaf.
HashSigned ==
    /\ pc = "hash"
    /\ buffer' = Append(buffer, job)
    /\ lastHash' = job.id
    /\ cur' = Tail(cur)
    /\ job' = None
    /\ pc' = "leaf"
    /\ UNCHANGED <<now, nextId, accepted, queue, toFlush, saved, disk,
                   lastVerified, side, phase, hist, used>>

\* Mutant of SignFail: the unprocessed events go behind newer ones.
SignFailBehind ==
    /\ pc = "hash"
    /\ Fault("sign")
    /\ queue' = queue \o cur
    /\ cur' = <<>> /\ job' = None /\ pc' = "idle"
    /\ UNCHANGED <<now, nextId, accepted, bufs, disk, head, side, phase, hist>>


\* computeHash or tpm.sign throws: the unprocessed events go back to the
\* front of logQueue and processQueue ends.  (addLeaf is under the same catch; it
\* hashes in memory and is taken not to throw.)
SignFail ==
    /\ pc = "hash"
    /\ Fault("sign")
    /\ queue' = cur \o queue
    /\ cur' = <<>> /\ job' = None /\ pc' = "idle"
    /\ UNCHANGED <<now, nextId, accepted, bufs, disk, head, side, phase, hist>>

BeginFlush == toFlush' = buffer /\ buffer' = <<>> /\ saved' = 0

\* After addLeaf: a full buffer is flushed unless a flush is under way.
LeafDone ==
    /\ pc = "leaf"
    /\ \/ /\ Len(buffer) >= FlushAt /\ ~Flushing
          /\ BeginFlush
          /\ pc' = "flush"
          /\ UNCHANGED <<queue, cur, job, nextId>>
       \/ /\ Len(buffer) < FlushAt \/ Flushing
          /\ Advance
          /\ UNCHANGED bufs
    /\ UNCHANGED <<now, accepted, disk, head, side, phase, hist, used>>

AfterFlush ==
    /\ pc = "next"
    /\ Advance
    /\ UNCHANGED <<now, accepted, bufs, disk, head, side, phase, hist, used>>

-----------------------------------------------------------------------------
(* flushBuffer.                                                            *)

FlushTimer ==
    /\ phase = "ready" /\ ~Flushing /\ buffer # <<>>
    /\ BeginFlush
    /\ UNCHANGED <<now, nextId, accepted, proc, disk, head, side, phase, hist,
                   used>>

\* One atomic commit of setMany.
FlushChunk ==
    /\ Flushing /\ saved < Len(toFlush)
    /\ LET last  == IF saved + Chunk < Len(toFlush) THEN saved + Chunk
                                                    ELSE Len(toFlush)
       IN  /\ kv' = kv \cup {toFlush[i] : i \in saved + 1 .. last}
           /\ count' = count + (last - saved)
           /\ saved' = last
    /\ UNCHANGED <<now, nextId, accepted, proc, buffer, toFlush, head, side,
                   phase, hist, used>>

\* Who waits for the flush goes on.
Resume ==
    /\ pc' = IF pc = "flush" THEN "next" ELSE pc
    /\ phase' = IF phase = "closing" THEN "closed" ELSE phase

FlushEnd ==
    /\ Flushing /\ saved = Len(toFlush)
    /\ toFlush' = <<>> /\ saved' = 0
    /\ Resume
    /\ UNCHANGED <<now, nextId, accepted, queue, cur, job, buffer, disk, head,
                   side, hist, used>>

\* Mutant of FlushFail: the failed batch is put behind newer events.
FlushFailBehind ==
    /\ Flushing /\ saved < Len(toFlush)
    /\ Fault("flush")
    /\ buffer' = buffer \o toFlush
    /\ toFlush' = <<>> /\ saved' = 0
    /\ Resume
    /\ UNCHANGED <<now, nextId, accepted, queue, cur, job, disk, head, side, hist>>

\* Mutant of FlushFail: the batch is not put back.
FlushFailForgets ==
    /\ Flushing /\ saved < Len(toFlush)
    /\ Fault("flush")
    /\ toFlush' = <<>> /\ saved' = 0
    /\ Resume
    /\ UNCHANGED <<now, nextId, accepted, queue, cur, job, buffer, disk, head, side, hist>>

\* A commit throws: the whole batch goes back to the front of the buffer.
FlushFail ==
    /\ Flushing /\ saved < Len(toFlush)
    /\ Fault("flush")
    /\ buffer' = toFlush \o buffer
    /\ toFlush' = <<>> /\ saved' = 0
    /\ Resume
    /\ UNCHANGED <<now, nextId, accepted, queue, cur, job, disk, head, side, hist>>

-----------------------------------------------------------------------------
(* Periodic tasks and mesh sync.                                           *)

\* verifyChainIncremental reads the stored tail ...
VerifyScan ==
    /\ phase = "ready" /\ vscan = "none"
    /\ lastHash # lastVerified
    /\ vscan' = IF ChainValid(VerifyWindow) THEN "valid" ELSE "broken"
    /\ UNCHANGED <<now, nextId, accepted, proc, bufs, disk, head, purge, sync,
                   phase, hist, used>>

\* ... and, when it was valid, records the head of that later moment.
VerifyDone ==
    /\ Running /\ vscan # "none"
    /\ lastVerified' = IF vscan = "valid" THEN lastHash ELSE lastVerified
    /\ vscan' = "none"
    /\ UNCHANGED <<now, nextId, accepted, proc, bufs, disk, lastHash, purge,
                   sync, phase, hist, used>>

\* purgeExpired: find an expired event, make a checkpoint, save it, delete.
PurgeScan ==
    /\ phase = "ready" /\ purge = None /\ Fault("purge")
    /\ \E e \in kv : e.ts < now - Retention
    /\ \E r \in Ranks :
          purge' = [checkpoint |-> Checkpoint(r), cutoff |-> now - Retention,
                    step |-> "save"]
    /\ nextId' = nextId + 1
    /\ UNCHANGED <<now, accepted, proc, bufs, disk, head, vscan, sync, phase,
                   hist>>

PurgeSave ==
    /\ Running /\ purge # None /\ purge.step = "save"
    /\ kv' = kv \cup {purge.checkpoint}
    /\ count' = count + 1
    /\ purge' = [purge EXCEPT !.step = "delete"]
    /\ UNCHANGED <<now, nextId, accepted, proc, bufs, head, vscan, sync, phase,
                   hist, used>>

PurgeDelete ==
    /\ Running /\ purge # None /\ purge.step = "delete"
    /\ LET res == DeleteBefore(purge.cutoff)
       IN  kv' = res.kv /\ count' = res.count
    /\ purge' = None
    /\ UNCHANGED <<now, nextId, accepted, proc, bufs, head, vscan, sync, phase,
                   hist, used>>

\* syncEvents: an event that continues the head passes the check, and
\* so does a checkpoint this node once signed.  That the head such an event continues is
\* stored is an assumption about peers, who get events from storage only ...
SyncCheck ==
    /\ Running /\ sync = None /\ Fault("sync")
    /\ \/ /\ lastHash \in {GENESIS} \cup {e.id : e \in kv}
          /\ \E t \in 1 .. now, r \in Ranks :
                sync' = Event(0, "REMOTE", t, r, lastHash)
          /\ nextId' = nextId + 1
       \/ /\ \E e \in kv : /\ e.type = "CHECKPOINT" /\ e.id # lastHash
                           /\ sync' = e
          /\ UNCHANGED nextId
    /\ UNCHANGED <<now, accepted, proc, bufs, disk, head, vscan, purge, phase,
                   hist>>

\* ... is saved, and becomes the head, whatever the head is by then.
SyncSave ==
    /\ Running /\ sync # None
    /\ kv' = kv \cup {sync}
    /\ count' = count + 1
    /\ lastHash' = sync.id
    /\ sync' = None
    /\ UNCHANGED <<now, nextId, accepted, proc, bufs, lastVerified, vscan, purge,
                   phase, hist, used>>

-----------------------------------------------------------------------------
(* Boot, shutdown and crash.                                               *)

Forget ==
    /\ queue' = <<>> /\ cur' = <<>> /\ job' = None /\ pc' = "idle"
    /\ buffer' = <<>> /\ toFlush' = <<>> /\ saved' = 0
    /\ vscan' = "none" /\ purge' = None /\ sync' = None
    /\ live' = {} /\ due' = {}

\* this.config is never assigned, so its ENVIRONMENT is undefined and the
\* test for development always succeeds.
Config == [environment |-> "undefined"]
IsDev == Config.environment # "production"

\* restoreChainHead on a fresh object.
BootEmpty ==
    /\ phase = "down" /\ kv = {}
    /\ lastHash' = GENESIS /\ lastVerified' = GENESIS
    /\ phase' = "ready"
    /\ UNCHANGED <<now, nextId, accepted, proc, bufs, disk, side, hist, used>>

BootValid ==
    /\ phase = "down" /\ kv # {} /\ ChainValid(BootWindow)
    /\ lastHash' = Latest.id /\ lastVerified' = Latest.id
    /\ phase' = "ready"
    /\ UNCHANGED <<now, nextId, accepted, proc, bufs, disk, side, hist, used>>

\* healDevChainBoundary.
BootHeal ==
    /\ phase = "down" /\ kv # {} /\ ~ChainValid(BootWindow)
    /\ IsDev /\ FALSE \in HealDisabled
    /\ \E r \in Ranks : kv' = kv \cup {Checkpoint(r)}
    /\ count' = count + 1
    /\ nextId' = nextId + 1
    /\ lastHash' = nextId /\ lastVerified' = nextId
    /\ phase' = "ready"
    /\ UNCHANGED <<now, accepted, proc, bufs, side, hist, used>>

\* FORENSIC_RESTRICTED: init fails and the application refuses to start.
BootRefuse ==
    /\ phase = "down" /\ kv # {} /\ ~ChainValid(BootWindow)
    /\ ~IsDev \/ TRUE \in HealDisabled
    /\ lastHash' = Latest.id /\ lastVerified' = GENESIS
    /\ phase' = "refused"
    /\ UNCHANGED <<now, nextId, accepted, proc, bufs, disk, side, hist, used>>

ShutdownBegin ==
    /\ phase = "ready" /\ Fault("stop")
    /\ phase' = "drain"
    /\ due' = live
    /\ UNCHANGED <<now, nextId, accepted, mem, disk, live, dropped>>

Drained == queue = <<>> /\ pc = "idle"

\* The queue is drained, or the wait for it timed out; then commitMerkleRoot
\* logs its event, or has nothing to commit or a failed integrity check.
ShutdownCommit ==
    /\ phase = "drain"
    /\ \/ Drained /\ UNCHANGED used
       \/ ~Drained /\ Fault("giveup")
    /\ phase' = "final"
    /\ \/ Enqueue("MERKLE_COMMIT", 0)
       \/ UNCHANGED <<proc, nextId, accepted, live>>
    /\ UNCHANGED <<now, bufs, disk, head, side, due, dropped>>

\* The last flushBuffer returns at once when a flush is under way.
ShutdownFlush ==
    /\ phase = "final"
    /\ \/ Drained /\ UNCHANGED used
       \/ ~Drained /\ Fault("giveup")
    /\ \/ ~Flushing /\ buffer # <<>> /\ BeginFlush /\ phase' = "closing"
       \/ (Flushing \/ buffer = <<>>) /\ phase' = "closed" /\ UNCHANGED bufs
    /\ UNCHANGED <<now, nextId, accepted, proc, disk, head, side, hist>>

\* The process ends after a shutdown, or dies.
Exit ==
    /\ phase = "closed"
    /\ phase' = "down"
    /\ Forget
    /\ UNCHANGED <<now, nextId, accepted, disk, head, dropped, used>>

Crash ==
    /\ Running /\ Fault("crash")
    /\ phase' = "down"
    /\ Forget
    /\ UNCHANGED <<now, nextId, accepted, disk, head, dropped>>

Tick ==
    /\ now < MaxTime
    /\ now' = now + 1
    /\ UNCHANGED <<nextId, accepted, mem, disk, phase, hist, used>>

-----------------------------------------------------------------------------
Init ==
    /\ now = 1 /\ nextId = 1 /\ accepted = 0
    /\ queue = <<>> /\ cur = <<>> /\ job = None /\ pc = "idle"
    /\ buffer = <<>> /\ toFlush = <<>> /\ saved = 0
    /\ kv = {} /\ count = 0
    /\ lastHash = GENESIS /\ lastVerified = GENESIS
    /\ vscan = "none" /\ purge = None /\ sync = None
    /\ phase = "down"
    /\ live = {} /\ due = {} /\ dropped = {}
    /\ used = [k \in Faults \cup {"all"} |-> 0]

ProcStep  == HashSigned \/ LeafDone \/ AfterFlush
FlushStep == FlushChunk \/ FlushEnd
Boot      == BootEmpty \/ BootValid \/ BootHeal \/ BootRefuse
Shutdown  == ShutdownCommit \/ ShutdownFlush \/ Exit

Next ==
    \/ LogEvent \/ LogDrop \/ ProcStep \/ SignFail
    \/ FlushTimer \/ FlushStep \/ FlushFail
    \/ VerifyScan \/ VerifyDone
    \/ PurgeScan \/ PurgeSave \/ PurgeDelete
    \/ SyncCheck \/ SyncSave
    \/ Boot \/ ShutdownBegin \/ Shutdown \/ Crash \/ Tick

\* Promises settle, the one-second interval fires, and a process that is
\* down is started again; callers, the clock and faults owe nothing.
Fairness ==
    /\ WF_vars(ProcStep) /\ WF_vars(FlushStep) /\ WF_vars(FlushTimer)
    /\ WF_vars(VerifyDone) /\ WF_vars(PurgeSave) /\ WF_vars(PurgeDelete)
    /\ WF_vars(SyncSave) /\ WF_vars(Boot) /\ WF_vars(Shutdown)

Spec == Init /\ [][Next]_vars /\ Fairness

-----------------------------------------------------------------------------
(* Properties.                                                             *)

Raw == [src : 1 .. MaxEvents, type : Types \cup {"MERKLE_COMMIT"},
        ts : 0 .. MaxTime]
Stored == [id : Nat, src : 0 .. MaxEvents,
           type : Types \cup {"MERKLE_COMMIT", "CHECKPOINT", "REMOTE"},
           ts : 1 .. MaxTime, rank : Ranks, prev : Nat \cup {TRUNCATED}]
Phases == {"down", "refused", "ready", "drain", "final", "closing", "closed"}

\* The service's fields have the shapes the code gives them: processQueue
\* works on a job exactly while it waits for a hash, and holds raw events only
\* while it runs; at most the whole batch of a flush is committed.
TypeOK ==
    /\ now \in 1 .. MaxTime /\ nextId \in Nat \ {0}
    /\ accepted \in 0 .. MaxEvents
    /\ queue \in Seq(Raw) /\ cur \in Seq(Raw)
    /\ job \in Stored \cup {None}
    /\ pc \in {"idle", "hash", "leaf", "flush", "next"}
    /\ (pc = "hash") = (job # None)
    /\ pc = "hash" => cur # <<>> /\ job.src = cur[1].src
    /\ pc = "idle" => cur = <<>>
    /\ buffer \in Seq(Stored) /\ toFlush \in Seq(Stored)
    /\ saved \in 0 .. Len(toFlush)
    /\ kv \in SUBSET Stored /\ count \in Nat
    /\ lastHash \in Nat /\ lastVerified \in Nat
    /\ vscan \in {"none", "valid", "broken"}
    /\ purge \in [checkpoint : Stored, cutoff : Int, step : {"save", "delete"}]
                \cup {None}
    /\ sync \in Stored \cup {None}
    /\ phase \in Phases
    /\ live \subseteq 1 .. accepted /\ due \subseteq live
    /\ dropped \subseteq Types
    /\ used \in [Faults \cup {"all"} -> Nat]

Elems(s) == {s[i] : i \in DOMAIN s}
Events == kv \cup Elems(buffer) \cup Elems(toFlush)
Ids == {e.id : e \in kv}

\* Every event accepted since the boot is in exactly one place, as one raw
\* event or as one ledger event: a failed signature, a failed or partly
\* committed flush and a full buffer neither lose nor duplicate it.
AcceptedOnce ==
    \A s \in live :
        Cardinality({i \in DOMAIN (cur \o queue) : (cur \o queue)[i].src = s})
        + Cardinality({e \in Events : e.src = s}) = 1

\* The stored ledger has no holes at any moment, so a crash at any moment
\* leaves none: the predecessor of every stored event is stored.
ChainLinked == \A e \in kv : e.prev \in Ids \cup {GENESIS, TRUNCATED}

\* The keys of stored events are in the order in which the events were made:
\* no clock reading and no uuid of one millisecond is out of order.
KeysInOrder == \A e, f \in kv : e.id < f.id => KeyBefore(e, f)

\* verifyChain reports a break in a ledger nobody tampered with for two reasons
\* only: two keys that are out of order, or an event adopted from a peer.
\* Crashes, half-written batches, retention and healed boots are no reason.
UntamperedVerifies ==
    KeysInOrder /\ used["sync"] = 0 => ChainValid(Cardinality(kv))

\* The events of callers that are stored, and the promise about them.
Durable == {e.src : e \in kv} \ {0}
Promise == INSTANCE Journal WITH open <- live, stored <- Durable

\* The ledger implements the journal its callers count on: whatever fails or
\* is retried between logEvent and the commit of a chunk, accepted events are
\* stored in the order of their acceptance and stay, and a crash at any moment
\* loses only the latest ones.
ImplementsJournal == Promise!Spec

\* processQueue ended with an error and left events in logQueue: only another
\* logEvent starts it again.
Stranded == phase = "ready" /\ pc = "idle" /\ queue # <<>>

\* The promise of logEvent's comment, hashing, signing and background persistence
\* without more ado: an accepted event is stored in the end, as long as the
\* service stays up.
AutomaticallyPersisted ==
    \A s \in 1 .. MaxEvents :
        s \in live ~> (s \notin live \/ (\E e \in kv : e.src = s)
                                     \/ phase # "ready")


=============================================================================
