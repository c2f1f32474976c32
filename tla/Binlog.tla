------------------------------- MODULE Binlog -------------------------------
(***************************************************************************)
(* The binlog of storage_sync.c: how the server opens it when it starts,   *)
(* how the connection threads append records to it, what a rotation does   *)
(* and what is left when the process ends.                                 *)
(*                                                                         *)
(* All connection threads call storage_binlog_write on one FILE without a  *)
(* mutex.  The fcntl lock the function takes belongs to the process, so it *)
(* never keeps two of these threads apart; each call is therefore split at *)
(* the points where another thread can run: after fprintf, after fflush,   *)
(* and around the three accesses to binlog_file_size.                      *)
(***************************************************************************)
EXTENDS StorageBase, Integers, Sequences, FiniteSets, Functions

CONSTANTS
    Op,           \* the op_type characters of storage_sync.h
    Stamp,        \* what atoi makes of the time stamp that starts a record
    MaxRecords,   \* SYNC_BINLOG_FILE_MAX_SIZE, counted in records
    BufRecords,   \* records the stdio buffer of g_fp_binlog can hold
    MaxCalls      \* bound: calls of storage_binlog_write in one behaviour

ASSUME BinlogAssumption ==
    /\ Stamp \in Int
    /\ MaxRecords \in Nat \ {0}
    /\ BufRecords \in Nat \ {0}
    /\ MaxCalls \in Nat

VARIABLES
    dataSync,   \* the directory base/data/sync exists (the code never makes it)
    log,        \* base/sync/binlog.index: [exists, seed, recs]
    up,         \* the process runs and has passed storage_sync_init
    go,         \* g_continue_flag
    fp,         \* g_fp_binlog: "null" or "open"
    index,      \* g_binlog_index
    size,       \* binlog_file_size, in records
    buf,        \* records in the stdio buffer of g_fp_binlog
    wpc,        \* where each thread is in storage_binlog_write
    wrec,       \* the record the thread is writing
    wres,       \* the value storage_binlog_write is about to return
    tmp,        \* the thread's copy of binlog_file_size during the +=
    lost,       \* history: records another thread's failed fflush discarded
    calls       \* history: calls made so far, numbers the records

inCall     == <<wpc, wrec, wres, tmp>>
inProcess  == <<up, go, fp, index, size, buf, lost>>
binlogVars == <<dataSync, log, inProcess, inCall, calls>>

-----------------------------------------------------------------------------
(* Records and the log file.                                               *)

\* A line "time op filename" of the log.  The number id stands for the call
\* that wrote it, so that two calls with the same arguments differ.
Record   == [id : Nat \ {0}, op : Op, path : Path]
NoRecord == [id |-> 0, op |-> CHOOSE o \in Op : TRUE, path |-> CHOOSE p \in Path : TRUE]

NoLog    == [exists |-> FALSE, seed |-> FALSE, recs |-> <<>>]
EmptyLog == [exists |-> TRUE,  seed |-> FALSE, recs |-> <<>>]
\* An operator put an index number and a newline into the file.
SeededLog == [exists |-> TRUE, seed |-> TRUE, recs |-> <<>>]

HasContent(l) == l.seed \/ l.recs # <<>>

\* storage_sync_init reads the same file as an index: its first number.
IndexIn(l) == IF l.seed THEN 0 ELSE Stamp

OnDisk(r) == r \in Range(log.recs)

\* All records that have gone through fprintf and are not lost, in order.
Printed == log.recs \o buf

-----------------------------------------------------------------------------
\* The server is down; the log is one of logs, its records numbered 1 .. n.
BinlogInitWith(logs, n) ==
    /\ dataSync \in BOOLEAN
    /\ log \in logs
    /\ up = FALSE
    /\ go = TRUE
    /\ fp = "null"
    /\ index = 0
    /\ size = 0
    /\ buf = <<>>
    /\ wpc = [t \in Thread |-> "out"]
    /\ wrec = [t \in Thread |-> NoRecord]
    /\ wres = [t \in Thread |-> "ok"]
    /\ tmp = [t \in Thread |-> 0]
    /\ lost = {}
    /\ calls = n

BinlogInit == BinlogInitWith({NoLog, SeededLog}, 0)

\* The end of the process, however it comes: what is in memory is gone, the
\* stdio buffer with it; the files stay.
ProcessEnds ==
    /\ up' = FALSE
    /\ go' = TRUE
    /\ fp' = "null"
    /\ index' = 0
    /\ size' = 0
    /\ buf' = <<>>
    /\ wpc' = [t \in Thread |-> "out"]
    /\ wrec' = [t \in Thread |-> NoRecord]
    /\ wres' = [t \in Thread |-> "ok"]
    /\ tmp' = [t \in Thread |-> 0]
    /\ lost' = {}

-----------------------------------------------------------------------------
(* storage_sync_init                                                       *)

\* The state of a process that has just gone through storage_sync_init.
Serving(f, i, s) ==
    /\ up' = TRUE
    /\ fp' = f
    /\ index' = i
    /\ size' = s
    /\ UNCHANGED <<dataSync, go, buf, lost, inCall, calls>>

\* Mutant of StartOnExistingLog: fopen with "w" instead of "a".
StartTruncating ==
    /\ ~up
    /\ log.exists
    /\ HasContent(log)
    /\ IndexIn(log) >= 0
    /\ Serving("open", IndexIn(log), 0)
    /\ log' = EmptyLog

\* The file is there and holds something: the index is read from it, and the
\* same file is opened for append.
StartOnExistingLog ==
    /\ ~up
    /\ log.exists
    /\ HasContent(log)
    /\ IndexIn(log) >= 0
    /\ Serving("open", IndexIn(log), Len(log.recs))
    /\ UNCHANGED log

\* fopen with "a": the file is created when it is absent, and kept when not.
OpenedLog == IF log.exists THEN log ELSE EmptyLog

\* The file is absent or cannot be opened for reading, and
\* base/data/sync/binlog.index can be written: the index is 0, and the log is
\* opened for append.
StartOnNewLog ==
    /\ ~up
    /\ dataSync
    /\ log' = OpenedLog
    /\ Serving("open", 0, Len(log.recs))

\* The file is absent or cannot be opened for reading, and
\* base/data/sync/binlog.index cannot be written: init returns 0 all the same,
\* before it opens anything.
StartWithoutLog ==
    /\ ~up
    /\ Serving("null", 0, 0)
    /\ UNCHANGED log

\* The error returns: the file is empty, the index is negative, a directory
\* cannot be made, the open fails, or, with the log open, ftell or the mutex
\* does.  main ends the process.
StartRefused ==
    /\ ~up
    /\ log' \in {log} \cup (IF dataSync THEN {OpenedLog} ELSE {})
    /\ UNCHANGED <<dataSync, inProcess, inCall, calls>>

-----------------------------------------------------------------------------
(* storage_binlog_write                                                    *)

\* The unlock at the end turns every result into an error when it fails.
Finish(t, res) ==
    /\ wpc' = [wpc EXCEPT ![t] = "done"]
    /\ \E r \in {res, "err"} : wres' = [wres EXCEPT ![t] = r]

Called(t) ==
    /\ up
    /\ wpc[t] = "out"
    /\ calls < MaxCalls
    /\ calls' = calls + 1

\* fileno and the lock.  The lock fails, or the thread goes on to fprintf.
BinlogCall(t, op, path) ==
    /\ Called(t)
    /\ fp = "open"
    /\ wrec' = [wrec EXCEPT ![t] = [id |-> calls + 1, op |-> op, path |-> path]]
    /\ \/ /\ wpc' = [wpc EXCEPT ![t] = "print"]
          /\ UNCHANGED wres
       \/ /\ wpc' = [wpc EXCEPT ![t] = "done"]
          /\ wres' = [wres EXCEPT ![t] = "err"]
    /\ UNCHANGED <<dataSync, log, inProcess, tmp>>

\* The log was never opened: fileno(NULL).
BinlogCallDies(t) ==
    /\ Called(t)
    /\ fp = "null"
    /\ ProcessEnds
    /\ UNCHANGED <<dataSync, log>>

\* Mutant of PrintRecord: no fflush after the fprintf.
PrintUnflushed(t) ==
    /\ wpc[t] = "print"
    /\ Len(buf) < BufRecords
    /\ buf' = Append(buf, wrec[t])
    /\ wpc' = [wpc EXCEPT ![t] = "load"]
    /\ UNCHANGED <<dataSync, log, up, go, fp, index, size, lost, wrec, wres, tmp, calls>>

\* fprintf: the record goes into the buffer.
PrintRecord(t) ==
    /\ wpc[t] = "print"
    /\ Len(buf) < BufRecords
    /\ buf' = Append(buf, wrec[t])
    /\ wpc' = [wpc EXCEPT ![t] = "flush"]
    /\ UNCHANGED <<dataSync, log, up, go, fp, index, size, lost, wrec, wres, tmp, calls>>

\* fprintf finds the buffer full and writes it out first.
PrintFull(t) ==
    /\ wpc[t] = "print"
    /\ Len(buf) >= BufRecords
    /\ log' = [log EXCEPT !.recs = @ \o buf]
    /\ buf' = <<wrec[t]>>
    /\ wpc' = [wpc EXCEPT ![t] = "flush"]
    /\ UNCHANGED <<dataSync, up, go, fp, index, size, lost, wrec, wres, tmp, calls>>

\* That write fails after n records, fprintf returns a negative number, and the
\* error message passes __LINE__ for a %s: the process dies formatting it.
PrintFails(t) ==
    /\ wpc[t] = "print"
    /\ Len(buf) >= BufRecords
    /\ \E n \in 0 .. Len(buf) - 1 : log' = [log EXCEPT !.recs = @ \o SubSeq(buf, 1, n)]
    /\ ProcessEnds
    /\ UNCHANGED <<dataSync, calls>>

\* Mutant of Flush: the buffer is written and kept.
FlushKeeping(t) ==
    /\ wpc[t] = "flush"
    /\ log' = [log EXCEPT !.recs = @ \o buf]
    /\ wpc' = [wpc EXCEPT ![t] = "load"]
    /\ UNCHANGED <<dataSync, up, go, fp, index, size, buf, lost, wrec, wres, tmp, calls>>

\* fflush writes the whole buffer, the records of other threads included.
Flush(t) ==
    /\ wpc[t] = "flush"
    /\ log' = [log EXCEPT !.recs = @ \o buf]
    /\ buf' = <<>>
    /\ wpc' = [wpc EXCEPT ![t] = "load"]
    /\ UNCHANGED <<dataSync, up, go, fp, index, size, lost, wrec, wres, tmp, calls>>

\* Mutant of FlushFails: the result of fflush is ignored.
FlushFailsUnseen(t) ==
    /\ wpc[t] = "flush"
    /\ \E n \in 0 .. Len(buf) - 1 :
         /\ log' = [log EXCEPT !.recs = @ \o SubSeq(buf, 1, n)]
         /\ lost' = lost \cup (Range(SubSeq(buf, n + 1, Len(buf))) \ {wrec[t]})
    /\ buf' = <<>>
    /\ Finish(t, "ok")
    /\ UNCHANGED <<dataSync, up, go, fp, index, size, wrec, tmp, calls>>

\* fflush fails after n records: the rest of the buffer is discarded, and of
\* the threads whose records it held only this one learns of it.
FlushFails(t) ==
    /\ wpc[t] = "flush"
    /\ \E n \in 0 .. Len(buf) - 1 :
         /\ log' = [log EXCEPT !.recs = @ \o SubSeq(buf, 1, n)]
         /\ lost' = lost \cup (Range(SubSeq(buf, n + 1, Len(buf))) \ {wrec[t]})
    /\ buf' = <<>>
    /\ Finish(t, "err")
    /\ UNCHANGED <<dataSync, up, go, fp, index, size, wrec, tmp, calls>>

\* binlog_file_size += write_bytes, unlocked: a load, then a store.
LoadSize(t) ==
    /\ wpc[t] = "load"
    /\ tmp' = [tmp EXCEPT ![t] = size]
    /\ wpc' = [wpc EXCEPT ![t] = "store"]
    /\ UNCHANGED <<dataSync, log, inProcess, wrec, wres, calls>>

\* Mutant of StoreSize: -= for +=.
StoreSizeNegated(t) ==
    /\ wpc[t] = "store"
    /\ size' = tmp[t] - 1
    /\ wpc' = [wpc EXCEPT ![t] = "check"]
    /\ UNCHANGED <<dataSync, log, up, go, fp, index, buf, lost, wrec, wres, tmp, calls>>

StoreSize(t) ==
    /\ wpc[t] = "store"
    /\ size' = tmp[t] + 1
    /\ wpc' = [wpc EXCEPT ![t] = "check"]
    /\ UNCHANGED <<dataSync, log, up, go, fp, index, buf, lost, wrec, wres, tmp, calls>>

\* Mutant of CheckSize: rotates one record early.
CheckSizeEarly(t) ==
    /\ wpc[t] = "check"
    /\ IF size + 1 >= MaxRecords
       THEN wpc' = [wpc EXCEPT ![t] = "rotate"] /\ UNCHANGED wres
       ELSE Finish(t, "ok")
    /\ UNCHANGED <<dataSync, log, inProcess, wrec, tmp, calls>>

CheckSize(t) ==
    /\ wpc[t] = "check"
    /\ IF size >= MaxRecords
       THEN wpc' = [wpc EXCEPT ![t] = "rotate"] /\ UNCHANGED wres
       ELSE Finish(t, "ok")
    /\ UNCHANGED <<dataSync, log, inProcess, wrec, tmp, calls>>

\* The new index cannot be stored: the server stops, and the call fails
\* although its record is in the log.
RotateFails(t) ==
    /\ wpc[t] = "rotate"
    /\ index' = index + 1
    /\ size' = 0
    /\ go' = FALSE
    /\ Finish(t, "err")
    /\ UNCHANGED <<dataSync, log, up, fp, buf, lost, wrec, tmp, calls>>

\* The new index is stored; open_next_writable_binlog calls
\* storage_sync_destroy, which clears g_fp_binlog before fclose(g_fp_binlog).
RotateDies(t) ==
    /\ wpc[t] = "rotate"
    /\ dataSync
    /\ ProcessEnds
    /\ UNCHANGED <<dataSync, log, calls>>

BinlogReturn(t) ==
    /\ wpc[t] = "done"
    /\ wpc' = [wpc EXCEPT ![t] = "out"]
    /\ wres' = [wres EXCEPT ![t] = "ok"]
    /\ wrec' = [wrec EXCEPT ![t] = NoRecord]
    /\ tmp' = [tmp EXCEPT ![t] = 0]
    /\ UNCHANGED <<dataSync, log, inProcess, calls>>

\* The steps of a call between its start and its return, and the two that
\* take the process with them.
BinlogStep(t) ==
    \/ PrintRecord(t) \/ PrintFull(t)
    \/ Flush(t) \/ FlushFails(t)
    \/ LoadSize(t) \/ StoreSize(t) \/ CheckSize(t)
    \/ RotateFails(t)

BinlogDies(t) == PrintFails(t) \/ RotateDies(t)

Crash ==
    /\ up
    /\ ProcessEnds
    /\ UNCHANGED <<dataSync, log, calls>>

Start == StartOnExistingLog \/ StartOnNewLog \/ StartWithoutLog \/ StartRefused

BinlogNext ==
    \/ Start
    \/ Crash
    \/ \E t \in Thread :
         \/ \E op \in Op, path \in Path : BinlogCall(t, op, path)
         \/ BinlogCallDies(t)
         \/ BinlogStep(t)
         \/ BinlogDies(t)
         \/ BinlogReturn(t)

BinlogSpec == BinlogInit /\ [][BinlogNext]_binlogVars

-----------------------------------------------------------------------------
(* Properties                                                              *)

CallStates == {"out", "print", "flush", "load", "store", "check", "rotate", "done"}

\* Type invariant of the variables of storage_sync.c and of the log file.
BinlogTypeOK ==
    /\ dataSync \in BOOLEAN
    /\ log \in [exists : BOOLEAN, seed : BOOLEAN, recs : Seq(Record)]
    /\ up \in BOOLEAN
    /\ go \in BOOLEAN
    /\ fp \in {"null", "open"}
    /\ index \in Int
    /\ size \in Nat
    /\ buf \in Seq(Record)
    /\ wpc \in [Thread -> CallStates]
    /\ wrec \in [Thread -> Record \cup {NoRecord}]
    /\ wres \in [Thread -> {"ok", "err"}]
    /\ tmp \in [Thread -> Nat]
    /\ lost \subseteq Record
    /\ calls \in Nat

\* A call of storage_binlog_write that returns 0 has its record in the file,
\* unless the fflush of another thread failed while the record was in the
\* buffer they share.
OkMeansOnDisk ==
    \A t \in Thread :
        wpc[t] = "done" /\ wres[t] = "ok" => OnDisk(wrec[t]) \/ wrec[t] \in lost

\* What is in the stdio buffer belongs to a thread that is still between its
\* fprintf and its fflush: when no thread is inside, nothing is unwritten, and
\* a record is never held back until somebody else's call.
BufferedOnlyInCall ==
    \A i \in DOMAIN buf : \E t \in Thread : wpc[t] = "flush" /\ wrec[t] = buf[i]

\* The inductive invariant behind the three properties above.  A thread inside
\* a call belongs to a live process and has a record of its own; until its
\* fflush succeeds the record is in the buffer, or another thread's fflush has
\* already written or lost it.
InCallHasRecord ==
    \A t \in Thread : wpc[t] # "out" =>
        /\ up
        /\ wrec[t] \in Record
        /\ wrec[t].id <= calls
        /\ \A u \in Thread \ {t} : wpc[u] # "out" => wrec[u].id # wrec[t].id

Flushed(t) ==
    \/ wpc[t] \in {"load", "store", "check", "rotate"}
    \/ wpc[t] = "done" /\ wres[t] = "ok"

Accounted ==
    \A t \in Thread :
        /\ wpc[t] = "flush" => wrec[t] \in Range(buf) \cup Range(log.recs) \cup lost
        /\ Flushed(t) => wrec[t] \in Range(log.recs) \cup lost

BinlogInv ==
    /\ BinlogTypeOK
    /\ InCallHasRecord
    /\ BufferedOnlyInCall
    /\ Accounted

\* No record is written twice, whichever thread's fflush carries it: the file
\* followed by the buffer has no repetition.
LoggedOnce ==
    \A i, j \in DOMAIN Printed : Printed[i].id = Printed[j].id => i = j

\* Why: a call's number is new when its record is printed.
Numbered ==
    /\ \A i \in DOMAIN Printed : Printed[i].id <= calls
    /\ \A t \in Thread : wpc[t] = "print" =>
         \A i \in DOMAIN Printed : Printed[i].id # wrec[t].id
    /\ LoggedOnce

\* The unlocked additions to binlog_file_size lose updates and never invent
\* any: a rotation starts only when the file has reached its maximum, counting
\* the records that were counted and then lost.
NoEarlyRotation ==
    \A t \in Thread :
        wpc[t] = "rotate" => Len(log.recs) + Cardinality(lost) >= MaxRecords

\* Why: what is lost is forgotten with the process;
LostOnlyWhileUp == ~up => lost = {}

\* a lost record is neither in the file nor in the buffer nor on its way
\* to it, so that one that left the buffer is counted once;
LostApart ==
    \A r \in lost :
        /\ r.id <= calls
        /\ \A i \in DOMAIN Printed : Printed[i].id # r.id
        /\ \A t \in Thread : wpc[t] = "print" => wrec[t].id # r.id

\* and what the threads have printed and not yet added is missing in the size
\* and in every copy of it.
InFlush   == {t \in Thread : wpc[t] = "flush"}
Uncounted == {t \in Thread : wpc[t] \in {"flush", "load", "store"}}

SizeIsBehind ==
    /\ IsFiniteSet(Uncounted) /\ IsFiniteSet(lost)
    /\ Len(buf) <= Cardinality(InFlush)
    /\ size + Cardinality(Uncounted) <= Len(Printed) + Cardinality(lost)
    /\ \A t \in Thread : wpc[t] = "store" =>
         tmp[t] + Cardinality(Uncounted) <= Len(Printed) + Cardinality(lost)
    /\ NoEarlyRotation

\* Nothing that reached the file is changed or removed, across rotations,
\* crashes and restarts.
DurableAppendOnly ==
    [][ /\ Len(log'.recs) >= Len(log.recs)
        /\ SubSeq(log'.recs, 1, Len(log.recs)) = log.recs ]_binlogVars

\* Why: records exist only in a log that exists, and a call runs only when the
\* log was opened.
LogIsThere ==
    /\ ~log.exists => log.recs = <<>>
    /\ fp = "open" => log.exists
    /\ \A t \in Thread : wpc[t] # "out" => fp = "open"

\* storage_sync_init: a start that succeeds leaves the log open.
StartedMeansOpen == up => fp = "open"
=============================================================================
