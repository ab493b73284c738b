------------------------------ MODULE LogForwarder ------------------------------
(***************************************************************************)
(* LoggingService on its way to a remote syslog over TCP or TLS: the log   *)
(* buffer, flushLogs (started by an interval that does not wait for the    *)
(* last one, and by shutdown), the PersistentQueue that keeps what could   *)
(* not be sent, and the connection SyslogTransport keeps.  A message is    *)
(* logged once.  The diagnostic copy in KV is left out, except for the     *)
(* await it puts between the guard of log() and the buffer.  The interval  *)
(* starts before the KV store is open: until setKv there is no persistent  *)
(* queue.                                                                  *)
(***************************************************************************)
EXTENDS Naturals, FiniteSets, SequencesExt

CONSTANTS
    Msgs,          \* the messages logged
    Flushers,      \* bound: calls of flushLogs in flight
    BufferMax,     \* maxBufferSize, 1000 in the code
    BatchSize,     \* batchSize of process(), 100 in the code
    MaxAttempts,   \* maxAttempts of process(), 5 in the code
    MaxCrashes,    \* bound: crashes of the orchestrator
    MaxOutages,    \* bound: outages of the syslog server
    MaxRefused     \* bound: deletions that the KV store refuses

VARIABLES
    unlogged,      \* messages nobody has logged yet
    logging,       \* the message whose log() holds isLogging, as a set
    logBuffer,     \* sequence of messages
    isForwarding,
    isProcessing,
    pc,            \* where each call of flushLogs is
    todo,          \* entries of the list each processing call has left
    logsToSend,    \* messages each forwarding call has left
    hasQueue,      \* setKv has made alertQueue
    kv,            \* entries [msg, attempts, dlq] of the persistent queue
    up,            \* the syslog server accepts connections
    conn,          \* persistentConn: "none", "open" or "broken"
    sent,          \* how often each message reached the server
    dropped,       \* messages the code gave up, or a crash erased
    down,          \* shutdown has been called
    closer,        \* the flushLogs call shutdown waits for, as a set
    crashes,
    outages,
    refused        \* history: deletions of sent entries that failed

logs == <<unlogged, logging, logBuffer>>
net  == <<up, conn, sent>>
stop == <<down, closer>>
faults == <<crashes, outages, refused>>
vars == <<logs, isForwarding, isProcessing, pc, todo, logsToSend, hasQueue, kv,
          net, dropped, stop, faults>>

Entry(m, n, dead) == [msg |-> m, attempts |-> n, dlq |-> dead]

Init ==
    /\ unlogged = Msgs /\ logging = {} /\ logBuffer = <<>>
    /\ isForwarding = FALSE /\ isProcessing = FALSE
    /\ pc = [f \in Flushers |-> "idle"]
    /\ todo = [f \in Flushers |-> <<>>]
    /\ logsToSend = [f \in Flushers |-> <<>>]
    /\ hasQueue = FALSE /\ kv = {}
    /\ up = TRUE /\ conn = "none" /\ sent = [m \in Msgs |-> 0]
    /\ dropped = {} /\ down = FALSE /\ closer = {}
    /\ crashes = 0 /\ outages = 0 /\ refused = 0

-----------------------------------------------------------------------------
(* log().                                                                  *)

\* isLogging is held until the await of writeToKv is over: a message logged
\* meanwhile, by anybody, is dropped.
Log(m) ==
    /\ m \in unlogged
    /\ unlogged' = unlogged \ {m}
    /\ \/ logging = {} /\ logging' = {m} /\ UNCHANGED dropped
       \/ logging # {} /\ dropped' = dropped \cup {m} /\ UNCHANGED logging
    /\ UNCHANGED <<logBuffer, isForwarding, isProcessing, pc, todo, logsToSend,
                   kv, net, stop, hasQueue, faults>>

\* bufferLog: the oldest message makes room.
LogDone ==
    \E m \in logging :
    LET b == Append(logBuffer, m) IN
    /\ logging' = {}
    /\ \/ Len(b) > BufferMax /\ logBuffer' = Tail(b)
          /\ dropped' = dropped \cup {Head(b)}
       \/ Len(b) <= BufferMax /\ logBuffer' = b /\ UNCHANGED dropped
    /\ UNCHANGED <<unlogged, isForwarding, isProcessing, pc, todo, logsToSend,
                   kv, net, stop, hasQueue, faults>>

-----------------------------------------------------------------------------
(* SyslogTransport.send: connect if there is no connection, then write.     *)

SendOk(m) ==
    /\ conn = "open" \/ (conn = "none" /\ up)
    /\ conn' = "open"
    /\ sent' = [sent EXCEPT ![m] = @ + 1]
    /\ UNCHANGED up

\* A connection that broke is never given up.
SendFails ==
    /\ conn = "broken" \/ (conn = "none" /\ ~up)
    /\ UNCHANGED net

-----------------------------------------------------------------------------
(* flushLogs.                                                              *)

\* What one read of the list may return: at most BatchSize entries, in the
\* order of their random keys.  Its prefix covers the dead letters too.
Batches ==
    UNION {SetToSeqs(s) : s \in {t \in SUBSET kv :
        Cardinality(t) = BatchSize \/ (t = kv /\ Cardinality(t) < BatchSize)}}

\* The interval, or shutdown, calls flushLogs.
Called(f) == pc[f] = "idle" /\ ~isForwarding /\ (down => f \in closer)

\* Mutant of FlushBegin: a second call processes the queue as well.
FlushBeginTwice(f) ==
    /\ Called(f) /\ hasQueue
    /\ isProcessing' = TRUE
    /\ \E l \in Batches : todo' = [todo EXCEPT ![f] = l]
    /\ pc' = [pc EXCEPT ![f] = "process"]
    /\ UNCHANGED <<logs, isForwarding, logsToSend, kv, net, dropped, stop,
                   hasQueue, faults>>

\* process() returns at once if another call is processing.
FlushBegin(f) ==
    /\ Called(f) /\ hasQueue
    /\ \/ /\ isProcessing
          /\ pc' = [pc EXCEPT ![f] = "take"]
          /\ UNCHANGED <<isProcessing, todo>>
       \/ /\ ~isProcessing
          /\ isProcessing' = TRUE
          /\ \E l \in Batches : todo' = [todo EXCEPT ![f] = l]
          /\ pc' = [pc EXCEPT ![f] = "process"]
    /\ UNCHANGED <<logs, isForwarding, logsToSend, kv, net, dropped, stop,
                   hasQueue, faults>>

\* One more failure: written back, or moved to the dead letters, atomically.
\* Counts past the limit are one value.
HandleFailure(e) ==
    IF e.attempts + 1 >= MaxAttempts
    THEN (kv \ {e}) \cup {Entry(e.msg, MaxAttempts, TRUE)}
    ELSE (kv \ {e}) \cup {Entry(e.msg, e.attempts + 1, FALSE)}

\* The handler of process() sent the message; the entry is deleted after it.
EntrySent(f) ==
    /\ pc[f] = "process" /\ todo[f] # <<>>
    /\ SendOk(Head(todo[f]).msg)
    /\ pc' = [pc EXCEPT ![f] = "ack"]
    /\ UNCHANGED <<logs, isForwarding, isProcessing, todo, logsToSend, kv,
                   dropped, stop, hasQueue, faults>>

\* The KV store may refuse the deletion: the catch takes that for a failure
\* of the handler and writes the entry back, although it was sent.
EntryDelete(f) ==
    /\ pc[f] = "ack"
    /\ \/ kv' = kv \ {Head(todo[f])} /\ UNCHANGED refused
       \/ /\ refused < MaxRefused /\ refused' = refused + 1
          /\ kv' = HandleFailure(Head(todo[f]))
    /\ todo' = [todo EXCEPT ![f] = Tail(@)]
    /\ pc' = [pc EXCEPT ![f] = "process"]
    /\ UNCHANGED <<logs, isForwarding, isProcessing, logsToSend, net, dropped,
                   stop, hasQueue, crashes, outages>>

EntryFails(f) ==
    /\ pc[f] = "process" /\ todo[f] # <<>>
    /\ SendFails
    /\ kv' = HandleFailure(Head(todo[f]))
    /\ todo' = [todo EXCEPT ![f] = Tail(@)]
    /\ UNCHANGED <<logs, isForwarding, isProcessing, pc, logsToSend, dropped,
                   stop, hasQueue, faults>>

ProcessEnd(f) ==
    /\ pc[f] = "process" /\ todo[f] = <<>>
    /\ isProcessing' = FALSE
    /\ pc' = [pc EXCEPT ![f] = "take"]
    /\ UNCHANGED <<logs, isForwarding, todo, logsToSend, kv, net, dropped, stop,
                   hasQueue, faults>>

\* isForwarding is not looked at again after the await of process(): two
\* calls may forward at a time.  Without a queue there is no await.
TakeBuffer(f) ==
    /\ pc[f] = "take" \/ (Called(f) /\ ~hasQueue)
    /\ \/ logBuffer = <<>>
          /\ pc' = [pc EXCEPT ![f] = "done"]
          /\ UNCHANGED <<logBuffer, isForwarding, logsToSend>>
       \/ logBuffer # <<>>
          /\ isForwarding' = TRUE
          /\ logsToSend' = [logsToSend EXCEPT ![f] = logBuffer]
          /\ logBuffer' = <<>>
          /\ pc' = [pc EXCEPT ![f] = "forward"]
    /\ UNCHANGED <<unlogged, logging, isProcessing, todo, kv, net, dropped, stop,
                   hasQueue, faults>>

ForwardSent(f) ==
    /\ pc[f] = "forward" /\ logsToSend[f] # <<>>
    /\ SendOk(Head(logsToSend[f]))
    /\ logsToSend' = [logsToSend EXCEPT ![f] = Tail(@)]
    /\ UNCHANGED <<logs, isForwarding, isProcessing, pc, todo, kv, dropped, stop,
                   hasQueue, faults>>

\* The message goes to the persistent queue, or back to the buffer, past its
\* limit if need be, while there is none.
Kept(m) ==
    \/ hasQueue /\ kv' = kv \cup {Entry(m, 0, FALSE)} /\ UNCHANGED logBuffer
    \/ ~hasQueue /\ logBuffer' = Append(logBuffer, m) /\ UNCHANGED kv

\* Mutant of ForwardFails: the rest of the batch is given up.
ForwardFailsStops(f) ==
    /\ pc[f] = "forward" /\ logsToSend[f] # <<>>
    /\ SendFails
    /\ Kept(Head(logsToSend[f]))
    /\ logsToSend' = [logsToSend EXCEPT ![f] = <<>>]
    /\ UNCHANGED <<unlogged, logging, isForwarding, isProcessing, pc, todo, dropped,
                   stop, hasQueue, faults>>

ForwardFails(f) ==
    /\ pc[f] = "forward" /\ logsToSend[f] # <<>>
    /\ SendFails
    /\ Kept(Head(logsToSend[f]))
    /\ logsToSend' = [logsToSend EXCEPT ![f] = Tail(@)]
    /\ UNCHANGED <<unlogged, logging, isForwarding, isProcessing, pc, todo, dropped,
                   stop, hasQueue, faults>>

\* Mutant of ForwardEnd: the flag is left set.
ForwardEndKeeps(f) ==
    /\ pc[f] = "forward" /\ logsToSend[f] = <<>>
    /\ pc' = [pc EXCEPT ![f] = "done"]
    /\ UNCHANGED <<logs, isForwarding, isProcessing, todo, logsToSend, kv, net,
                   dropped, stop, hasQueue, faults>>

ForwardEnd(f) ==
    /\ pc[f] = "forward" /\ logsToSend[f] = <<>>
    /\ isForwarding' = FALSE
    /\ pc' = [pc EXCEPT ![f] = "done"]
    /\ UNCHANGED <<logs, isProcessing, todo, logsToSend, kv, net, dropped, stop,
                   hasQueue, faults>>

\* The interval calls flushLogs again until shutdown clears it.
Rearm(f) ==
    /\ pc[f] = "done" /\ ~down
    /\ pc' = [pc EXCEPT ![f] = "idle"]
    /\ UNCHANGED <<logs, isForwarding, isProcessing, todo, logsToSend, kv, net,
                   dropped, stop, hasQueue, faults>>

\* shutdown: the interval ends and flushLogs is called once more; that call
\* is over at once if another one is forwarding.
Shutdown(f) ==
    /\ ~down /\ pc[f] \in {"idle", "done"}
    /\ down' = TRUE
    /\ closer' = {f}
    /\ pc' = [pc EXCEPT ![f] = IF isForwarding THEN "done" ELSE "idle"]
    /\ UNCHANGED <<logs, isForwarding, isProcessing, todo, logsToSend, kv, net,
                   dropped, hasQueue, faults>>

\* Its flushLogs is over: transport.close().
Close ==
    /\ \E f \in closer : pc[f] = "done"
    /\ closer' = {}
    /\ conn' = "none"
    /\ UNCHANGED <<logs, isForwarding, isProcessing, pc, todo, logsToSend, kv,
                   up, sent, dropped, down, hasQueue, faults>>

\* The KV store is open.
SetKv ==
    /\ ~hasQueue /\ hasQueue' = TRUE
    /\ UNCHANGED <<logs, isForwarding, isProcessing, pc, todo, logsToSend, kv, net,
                   dropped, stop, faults>>

-----------------------------------------------------------------------------
(* The environment.                                                        *)

\* The server goes away; a connection in use breaks with it.
Outage ==
    /\ up /\ outages < MaxOutages
    /\ up' = FALSE
    /\ conn' = IF conn = "open" THEN "broken" ELSE conn
    /\ outages' = outages + 1
    /\ UNCHANGED <<logs, isForwarding, isProcessing, pc, todo, logsToSend, kv,
                   sent, dropped, stop, hasQueue, crashes, refused>>

Back ==
    /\ ~up
    /\ up' = TRUE
    /\ UNCHANGED <<logs, isForwarding, isProcessing, pc, todo, logsToSend, kv,
                   conn, sent, dropped, stop, hasQueue, faults>>

InMemory ==
    logging \cup ToSet(logBuffer) \cup UNION {ToSet(logsToSend[f]) : f \in Flushers}

Crash ==
    /\ crashes < MaxCrashes
    /\ crashes' = crashes + 1
    /\ dropped' = dropped \cup InMemory
    /\ logging' = {} /\ logBuffer' = <<>>
    /\ isForwarding' = FALSE /\ isProcessing' = FALSE
    /\ pc' = [f \in Flushers |-> "idle"]
    /\ todo' = [f \in Flushers |-> <<>>]
    /\ logsToSend' = [f \in Flushers |-> <<>>]
    /\ conn' = "none" /\ down' = FALSE /\ closer' = {} /\ hasQueue' = FALSE
    /\ UNCHANGED <<unlogged, kv, up, sent, outages, refused>>

-----------------------------------------------------------------------------
FlushStep(f) ==
    \/ FlushBegin(f) \/ EntrySent(f) \/ EntryDelete(f) \/ EntryFails(f)
    \/ ProcessEnd(f) \/ TakeBuffer(f) \/ ForwardSent(f) \/ ForwardFails(f)
    \/ ForwardEnd(f) \/ Rearm(f)

Next ==
    \/ \E m \in Msgs : Log(m)
    \/ LogDone \/ SetKv \/ Close \/ Outage \/ Back \/ Crash
    \/ \E f \in Flushers : FlushStep(f) \/ Shutdown(f)

\* The interval fires, writes and connections settle, the boot opens the KV
\* store, the server comes back.
Fairness ==
    /\ WF_vars(LogDone) /\ WF_vars(SetKv) /\ WF_vars(Close) /\ WF_vars(Back)
    /\ \A f \in Flushers : WF_vars(FlushStep(f))

Spec == Init /\ [][Next]_vars /\ Fairness

-----------------------------------------------------------------------------
(* Properties.                                                             *)

\* Types; a queue entry that is not a dead letter has attempts left.
TypeOK ==
    /\ unlogged \subseteq Msgs /\ logging \subseteq Msgs /\ dropped \subseteq Msgs
    /\ Cardinality(logging) <= 1
    /\ logBuffer \in Seq(Msgs)
    /\ isForwarding \in BOOLEAN /\ isProcessing \in BOOLEAN /\ up \in BOOLEAN
    /\ hasQueue \in BOOLEAN /\ (~hasQueue => ~isProcessing)
    /\ down \in BOOLEAN /\ closer \subseteq Flushers
    /\ pc \in [Flushers -> {"idle", "process", "ack", "take", "forward", "done"}]
    /\ kv \subseteq {Entry(m, n, d) : m \in Msgs, n \in 0 .. MaxAttempts, d \in BOOLEAN}
    /\ \A e \in kv : e.dlq <=> e.attempts = MaxAttempts
    /\ conn \in {"none", "open", "broken"}
    /\ sent \in [Msgs -> Nat]

\* A message that log() took is in memory, in the queue or at the server,
\* unless the buffer's limit or a crash took it.
Accounted ==
    Msgs \ unlogged \subseteq
        dropped \cup InMemory \cup {e.msg : e \in kv} \cup {m \in Msgs : sent[m] > 0}

\* The server sees a message again only after a crash between its send and
\* the deletion of its entry, or after a deletion that the KV store refused:
\* neither overlapping flushes nor retries of the queue and its dead letters
\* repeat one (flushLogs, PersistentQueue.process).
SentOnce == \A m \in Msgs : sent[m] <= 1 + crashes + refused

\* A buffered message leaves memory: it is sent or queued, or it is dropped
\* at the buffer's limit, unless a shutdown ends the flushing.
BufferedLeaves ==
    \A m \in Msgs : m \in ToSet(logBuffer) ~> m \notin InMemory \/ down
=============================================================================
