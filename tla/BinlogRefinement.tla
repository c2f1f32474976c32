-------------------------- MODULE BinlogRefinement --------------------------
(* Binlog keeps the promise of AppendLog.                                   *)
EXTENDS Binlog

\* The records that the calls of one behaviour can write.
CallRecord == [id : 1 .. MaxCalls, op : Op, path : Path]

\* A call is decided when it has reached its return; the place of the open
\* ones, the buffer and the size of the file are nobody else's business.
StateOf(t) ==
    CASE wpc[t] = "out"  -> "none"
      [] wpc[t] = "done" -> wres[t]
      [] OTHER           -> "open"

Log == INSTANCE AppendLog WITH
           Caller <- Thread,
           Rec    <- CallRecord,
           disk   <- log.recs,
           call   <- [t \in Thread |-> [state |-> StateOf(t), rec |-> wrec[t]]]

\* storage_binlog_write, with its shared buffer, its unlocked size, its
\* rotations, and with crashes and restarts, is an append-only log in which a
\* call that succeeds has written its record exactly once.
ImplementsAppendLog == Log!Spec
=============================================================================
