--------------------------- MODULE MCLogForwarder ---------------------------
(***************************************************************************)
(* The forwarding of logs (LogForwarder) for TLC, under a name of its own: *)
(* the proofs about it share a module with those of the audit ledger,      *)
(* which has a queue and a store of another kind.                          *)
(***************************************************************************)
EXTENDS Naturals, FiniteSets

CONSTANTS Msgs, Flushers, BufferMax, BatchSize, MaxAttempts, MaxCrashes, MaxOutages,
          MaxRefused

ASSUME LogAssumption ==
    /\ IsFiniteSet(Msgs) /\ IsFiniteSet(Flushers)
    /\ BufferMax \in Nat \ {0} /\ BatchSize \in Nat \ {0}
    /\ MaxAttempts \in Nat \ {0} /\ MaxCrashes \in Nat /\ MaxOutages \in Nat /\ MaxRefused \in Nat

VARIABLES unlogged, logging, logBuffer, isForwarding, isProcessing, stage, todo,
          logsToSend, hasQueue, stash, up, conn, sent, lost, down, closer, crashes,
          outages, refused

Log == INSTANCE LogForwarder WITH pc <- stage, kv <- stash, dropped <- lost

LogSpec == Log!Spec

(* The specification the run explores.  Messages differ in name only, and  *)
(* every property is about all of them alike: with the numbers as names,   *)
(* each behaviour is a renaming of one in which they are logged in order.  *)
InOrder == \A m \in unlogged \ unlogged', n \in unlogged' : m < n
LogRun == Log!Init /\ [][Log!Next /\ InOrder]_Log!vars /\ Log!Fairness

(* Every message is in one place, or was lost for a reason that is known   *)
(* (LogForwarder.Accounted: log, flushLogs, process).                      *)
Accounted == Log!Accounted

(* Only a crash between a send and its deletion, or a deletion that fails, *)
(* repeats a message (LogForwarder.SentOnce: flushLogs, process).          *)
SentOnce == Log!SentOnce

(* A buffered message leaves the buffer (LogForwarder.BufferedLeaves: the  *)
(* interval, flushLogs).                                                   *)
BufferedLeaves == Log!BufferedLeaves
=============================================================================
