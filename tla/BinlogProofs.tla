---------------------------- MODULE BinlogProofs ----------------------------
(***************************************************************************)
(* What the binlog keeps and what storage_binlog_write promises, for any   *)
(* number of threads, calls, crashes and restarts, and that it implements  *)
(* AppendLog.                                                              *)
(***************************************************************************)
EXTENDS BinlogRefinement, SequenceTheorems, FiniteSetTheorems, TLAPS

-----------------------------------------------------------------------------
(* Facts about the buffer as a sequence.                                   *)

\* Appending adds one element to the range.
LEMMA RangeAppend ==
    ASSUME NEW S, NEW s \in Seq(S), NEW e \in S
    PROVE  Range(Append(s, e)) = Range(s) \cup {e}
<1>1. Append(s, e) = s \o <<e>>
  BY AppendIsConcat
<1>2. Range(<<e>>) = {e}
  BY DEF Range
<1>3. <<e>> \in Seq(S)
  OBVIOUS
<1>4. Range(s \o <<e>>) = Range(s) \cup Range(<<e>>)
  BY <1>3, RangeConcatenation, ZenonT(30)
<1> QED
  BY <1>1, <1>2, <1>4, Zenon

\* The empty sequence has no elements.
LEMMA RangeEmpty == Range(<<>>) = {}
BY DEF Range

\* Cutting a sequence in two loses no element and adds none.
LEMMA CutProperties ==
    ASSUME NEW S, NEW s \in Seq(S), NEW n \in 0 .. Len(s) - 1
    PROVE  /\ SubSeq(s, 1, n) \in Seq(S)
           /\ SubSeq(s, n + 1, Len(s)) \in Seq(S)
           /\ Range(s) = Range(SubSeq(s, 1, n)) \cup Range(SubSeq(s, n + 1, Len(s)))
           /\ Range(SubSeq(s, n + 1, Len(s))) \subseteq S
<1> DEFINE a == SubSeq(s, 1, n)
           b == SubSeq(s, n + 1, Len(s))
<1>1. a \in Seq(S) /\ b \in Seq(S)
  BY SubSeqProperties, \A i \in 1 .. Len(s) : s[i] \in S
<1>2. s = a \o b
  BY ConcatAdjacentSubSeq, SubSeqFull
<1>3. Range(s) = Range(a) \cup Range(b)
  BY <1>1, <1>2, RangeConcatenation, ZenonT(30)
<1>4. Range(b) \subseteq S
  <2>1. Range(b) = {b[i] : i \in 1 .. Len(b)}
    BY <1>1, RangeEquality, Zenon
  <2>2. \A i \in 1 .. Len(b) : b[i] \in S
    BY <1>1, ElementOfSeq, Zenon
  <2> QED
    BY <2>1, <2>2, Zenon
<1> QED
  BY <1>1, <1>3, <1>4

\* A log without records is a log, with an index in it or not.
LEMMA EmptyLogTypes ==
    ASSUME NEW e \in BOOLEAN, NEW i \in BOOLEAN
    PROVE  [exists |-> e, seed |-> i, recs |-> <<>>]
               \in [exists : BOOLEAN, seed : BOOLEAN, recs : Seq(Record)]
<1>1. \A s \in Seq(Record) :
          [exists |-> e, seed |-> i, recs |-> s]
              \in [exists : BOOLEAN, seed : BOOLEAN, recs : Seq(Record)]
  OBVIOUS
<1>2. <<>> \in Seq(Record)
  BY EmptySeq
<1> QED
  BY <1>1, <1>2, Zenon

-----------------------------------------------------------------------------
(* The invariant is inductive.                                             *)

\* A server that is down satisfies the invariant, whatever its log.
LEMMA InitInv == BinlogInit => BinlogInv
<1> SUFFICES ASSUME BinlogInit PROVE BinlogInv
  OBVIOUS
<1> USE DEF BinlogInit, BinlogInitWith
<1>1. log \in [exists : BOOLEAN, seed : BOOLEAN, recs : Seq(Record)]
  BY EmptyLogTypes DEF NoLog, SeededLog
<1>2. BinlogTypeOK
  <2>1. buf \in Seq(Record)
    BY EmptySeq, Zenon
  <2>2. up \in BOOLEAN /\ go \in BOOLEAN /\ fp \in {"null", "open"}
    BY Zenon
  <2>6. index \in Int /\ size \in Nat
    OBVIOUS
  <2>3. wpc \in [Thread -> CallStates] /\ wres \in [Thread -> {"ok", "err"}]
    BY DEF CallStates
  <2>4. wrec \in [Thread -> Record \cup {NoRecord}] /\ tmp \in [Thread -> Nat]
    OBVIOUS
  <2>5. dataSync \in BOOLEAN /\ lost \subseteq Record /\ calls \in Nat
    OBVIOUS
  <2> QED
    BY <1>1, <2>1, <2>2, <2>3, <2>4, <2>5, <2>6, Zenon DEF BinlogTypeOK
<1>3. InCallHasRecord /\ BufferedOnlyInCall /\ Accounted
  BY DEF InCallHasRecord, BufferedOnlyInCall, Accounted, Flushed
<1> QED
  BY <1>2, <1>3 DEF BinlogInv

\* What the end of the process does to the log: nothing, or a failing write of
\* the full buffer has put its first records there.
EndLeaves ==
    \/ log' = log
    \/ \E n \in 0 .. Len(buf) - 1 : log' = [log EXCEPT !.recs = @ \o SubSeq(buf, 1, n)]

LEMMA EndLeavesLog ==
    ASSUME BinlogTypeOK, EndLeaves
    PROVE  /\ log' \in [exists : BOOLEAN, seed : BOOLEAN, recs : Seq(Record)]
           /\ log'.exists = log.exists
           /\ \E x \in Seq(Record) : log' = [log EXCEPT !.recs = @ \o x]
<1>1. log \in [exists : BOOLEAN, seed : BOOLEAN, recs : Seq(Record)] /\ buf \in Seq(Record)
  BY DEF BinlogTypeOK
<1>2. CASE log' = log
  <2>1. log.recs \o <<>> = log.recs /\ <<>> \in Seq(Record)
    BY <1>1, ConcatEmptySeq, EmptySeq
  <2>2. log = [log EXCEPT !.recs = log.recs \o <<>>]
    BY <1>1, <2>1
  <2> QED
    BY <1>1, <1>2, <2>1, <2>2, Zenon
<1>3. CASE \E n \in 0 .. Len(buf) - 1 : log' = [log EXCEPT !.recs = @ \o SubSeq(buf, 1, n)]
  <2>1. PICK n \in 0 .. Len(buf) - 1 : log' = [log EXCEPT !.recs = @ \o SubSeq(buf, 1, n)]
    BY <1>3
  <2>2. SubSeq(buf, 1, n) \in Seq(Record)
    BY <1>1, CutProperties
  <2>3. PICK x \in Seq(Record) : log' = [log EXCEPT !.recs = @ \o x]
    BY <2>1, <2>2, Zenon
  <2>4. log'.exists = log.exists /\ log' \in [exists : BOOLEAN, seed : BOOLEAN, recs : Seq(Record)]
    BY <1>1, <2>3, ConcatProperties
  <2> QED
    BY <2>3, <2>4, Zenon
<1> QED
  BY <1>2, <1>3 DEF EndLeaves

\* The steps that end the process.
LEMMA EndingSteps ==
    ASSUME NEW t \in Thread, BinlogCallDies(t) \/ BinlogDies(t)
    PROVE  /\ ProcessEnds /\ EndLeaves /\ UNCHANGED dataSync
           /\ \/ calls' = calls
              \/ calls' = calls + 1 /\ calls < MaxCalls
<1>1. CASE BinlogCallDies(t)
  BY <1>1 DEF BinlogCallDies, Called, EndLeaves
<1>2. CASE PrintFails(t)
  BY <1>2, Zenon DEF PrintFails, EndLeaves
<1>3. CASE RotateDies(t)
  BY <1>3 DEF RotateDies, EndLeaves
<1> QED
  BY <1>1, <1>2, <1>3 DEF BinlogDies

\* A process that has just ended satisfies the invariant.
LEMMA EndsInv ==
    ASSUME BinlogInv, ProcessEnds, EndLeaves, UNCHANGED dataSync, calls' \in Nat
    PROVE  BinlogInv'
<1>1. BinlogTypeOK'
  <2>1. <<>> \in Seq(Record)
    BY EmptySeq
  <2>2. buf' \in Seq(Record)
    BY <2>1, Zenon DEF ProcessEnds
  <2>3. up' \in BOOLEAN /\ go' \in BOOLEAN /\ fp' \in {"null", "open"}
    BY Zenon DEF ProcessEnds
  <2>7. index' \in Int /\ size' \in Nat /\ lost' \subseteq Record
    BY DEF ProcessEnds
  <2>4. wpc' \in [Thread -> CallStates] /\ wres' \in [Thread -> {"ok", "err"}]
    BY DEF ProcessEnds, CallStates
  <2>5. wrec' \in [Thread -> Record \cup {NoRecord}] /\ tmp' \in [Thread -> Nat]
    BY DEF ProcessEnds
  <2>6. dataSync' \in BOOLEAN /\ log' \in [exists : BOOLEAN, seed : BOOLEAN, recs : Seq(Record)]
    BY EndLeavesLog DEF BinlogInv, BinlogTypeOK
  <2> QED
    BY <2>2, <2>3, <2>4, <2>5, <2>6, <2>7, Zenon DEF BinlogTypeOK
<1>2. InCallHasRecord' /\ BufferedOnlyInCall' /\ Accounted'
  BY DEF ProcessEnds, InCallHasRecord, BufferedOnlyInCall, Accounted, Flushed
<1> QED
  BY <1>1, <1>2 DEF BinlogInv

\* Starting the server opens the log or creates it, and writes nothing to it.
LEMMA StartInv == BinlogInv /\ Start => BinlogInv'
<1> SUFFICES ASSUME BinlogInv, Start PROVE BinlogInv'
  OBVIOUS
<1> USE DEF BinlogInv, inCall
<1>0. OpenedLog \in [exists : BOOLEAN, seed : BOOLEAN, recs : Seq(Record)]
  BY EmptyLogTypes DEF OpenedLog, EmptyLog, BinlogTypeOK
<1>1. CASE StartOnExistingLog
  <2>1. IndexIn(log) \in Int /\ Len(log.recs) \in Nat
    BY BinlogAssumption, LenProperties DEF IndexIn, BinlogTypeOK
  <2>2. BinlogTypeOK'
    BY <1>1, <2>1 DEF StartOnExistingLog, Serving, BinlogTypeOK
  <2>3. InCallHasRecord' /\ BufferedOnlyInCall' /\ Accounted'
    BY <1>1 DEF StartOnExistingLog, Serving, InCallHasRecord, BufferedOnlyInCall,
                Accounted, Flushed
  <2> QED
    BY <2>2, <2>3
<1>2. CASE StartOnNewLog
  <2>1. BinlogTypeOK'
    <3>1. Len(log.recs) \in Nat
      BY LenProperties DEF BinlogTypeOK
    <3> QED
      BY <1>0, <1>2, <3>1 DEF StartOnNewLog, Serving, BinlogTypeOK
  <2>2. InCallHasRecord' /\ BufferedOnlyInCall'
    BY <1>2 DEF StartOnNewLog, Serving, InCallHasRecord, BufferedOnlyInCall
  <2>3. Accounted'
    BY <1>2 DEF StartOnNewLog, Serving, Accounted, InCallHasRecord, Flushed
  <2> QED
    BY <2>1, <2>2, <2>3
<1>3. CASE StartWithoutLog
  <2>1. BinlogTypeOK'
    BY <1>3 DEF StartWithoutLog, Serving, BinlogTypeOK
  <2>2. InCallHasRecord' /\ BufferedOnlyInCall' /\ Accounted'
    BY <1>3 DEF StartWithoutLog, Serving, InCallHasRecord, BufferedOnlyInCall,
                Accounted, Flushed
  <2> QED
    BY <2>1, <2>2
<1>4. CASE StartRefused
  <2>1. BinlogTypeOK'
    BY <1>0, <1>4 DEF StartRefused, inProcess, BinlogTypeOK
  <2>2. InCallHasRecord' /\ BufferedOnlyInCall'
    BY <1>4 DEF StartRefused, inProcess, InCallHasRecord, BufferedOnlyInCall
  <2>3. Accounted'
    BY <1>4 DEF StartRefused, inProcess, Accounted, InCallHasRecord, Flushed
  <2> QED
    BY <2>1, <2>2, <2>3
<1> QED
  BY <1>1, <1>2, <1>3, <1>4 DEF Start

\* A thread that calls storage_binlog_write gets a record of its own.
LEMMA CallInv ==
    ASSUME BinlogInv, NEW t \in Thread, NEW op \in Op, NEW path \in Path,
           BinlogCall(t, op, path)
    PROVE  BinlogInv'
<1> USE DEF BinlogInv, BinlogCall, Called, inProcess
<1>1. [id |-> calls + 1, op |-> op, path |-> path] \in Record
  BY DEF BinlogTypeOK, Record
<1>2. BinlogTypeOK'
  <2>1. wrec' \in [Thread -> Record \cup {NoRecord}]
    BY <1>1 DEF BinlogTypeOK
  <2>2. wpc' \in [Thread -> CallStates] /\ wres' \in [Thread -> {"ok", "err"}]
    BY DEF BinlogTypeOK, CallStates
  <2>3. calls' \in Nat
    BY DEF BinlogTypeOK
  <2> QED
    BY <2>1, <2>2, <2>3, Zenon DEF BinlogTypeOK
<1>3. InCallHasRecord'
  <2>1. wrec'[t] \in Record /\ wrec'[t].id = calls' /\ calls' = calls + 1 /\ calls \in Nat
    BY <1>1 DEF BinlogTypeOK
  <2>2. \A u \in Thread \ {t} : wpc'[u] = wpc[u] /\ wrec'[u] = wrec[u]
    BY DEF BinlogTypeOK
  <2>3. \A u \in Thread \ {t} : wpc[u] # "out" => wrec[u].id \in Nat /\ wrec[u].id <= calls
    BY <2>1 DEF InCallHasRecord, Record
  <2>4. up'
    BY DEF InCallHasRecord
  <2> QED
    BY <2>1, <2>2, <2>3, <2>4 DEF InCallHasRecord
<1>4. BufferedOnlyInCall'
  BY SMTT(30) DEF BufferedOnlyInCall, BinlogTypeOK
<1>5. Accounted'
  BY DEF Accounted, Flushed, BinlogTypeOK
<1> QED
  BY <1>2, <1>3, <1>4, <1>5

\* fprintf with room in the buffer.
LEMMA PrintRecordInv ==
    ASSUME BinlogInv, NEW t \in Thread, PrintRecord(t)
    PROVE  BinlogInv'
<1> USE DEF BinlogInv, PrintRecord
<1>1. wrec[t] \in Record
  BY DEF InCallHasRecord
<1>2. buf' \in Seq(Record) /\ Range(buf') = Range(buf) \cup {wrec[t]}
  BY <1>1, RangeAppend, AppendProperties DEF BinlogTypeOK
<1>3. BinlogTypeOK'
  BY <1>2 DEF BinlogTypeOK, CallStates
<1>4. InCallHasRecord'
  BY DEF InCallHasRecord, BinlogTypeOK
<1>5. BufferedOnlyInCall'
  <2> SUFFICES ASSUME NEW i \in DOMAIN buf'
               PROVE  \E u \in Thread : wpc'[u] = "flush" /\ wrec'[u] = buf'[i]
    BY DEF BufferedOnlyInCall
  <2>1. DOMAIN buf' = 1 .. Len(buf) + 1 /\ DOMAIN buf = 1 .. Len(buf) /\ Len(buf) \in Nat
    BY <1>1, <1>2, AppendProperties, LenProperties DEF BinlogTypeOK
  <2>2. CASE i = Len(buf) + 1
    BY <1>1, <2>2, AppendProperties DEF BinlogTypeOK
  <2>3. CASE i \in DOMAIN buf
    <3>1. buf'[i] = buf[i]
      BY <1>1, <2>1, <2>3, AppendProperties DEF BinlogTypeOK
    <3>2. PICK u \in Thread : wpc[u] = "flush" /\ wrec[u] = buf[i]
      BY <2>3 DEF BufferedOnlyInCall
    <3> QED
      BY <3>1, <3>2 DEF BinlogTypeOK
  <2> QED
    BY <2>1, <2>2, <2>3
<1>6. Accounted'
  BY <1>2 DEF Accounted, Flushed, BinlogTypeOK
<1> QED
  BY <1>3, <1>4, <1>5, <1>6

\* fprintf that writes the full buffer out first.
LEMMA PrintFullInv ==
    ASSUME BinlogInv, NEW t \in Thread, PrintFull(t)
    PROVE  BinlogInv'
<1> USE DEF BinlogInv, PrintFull
<1>1. wrec[t] \in Record
  BY DEF InCallHasRecord
<1>2. buf' \in Seq(Record) /\ Range(buf') = {wrec[t]}
  BY <1>1 DEF Range
<1>3. /\ log.recs \in Seq(Record)
      /\ log'.recs \in Seq(Record)
      /\ Range(log'.recs) = Range(log.recs) \cup Range(buf)
  BY RangeConcatenation, ConcatProperties DEF BinlogTypeOK
<1>4. BinlogTypeOK'
  BY <1>2, <1>3 DEF BinlogTypeOK, CallStates
<1>5. InCallHasRecord' /\ BufferedOnlyInCall'
  BY DEF InCallHasRecord, BufferedOnlyInCall, BinlogTypeOK
<1>6. Accounted'
  BY <1>2, <1>3 DEF Accounted, Flushed, BinlogTypeOK
<1> QED
  BY <1>4, <1>5, <1>6

\* fflush that succeeds.
LEMMA FlushInv ==
    ASSUME BinlogInv, NEW t \in Thread, Flush(t)
    PROVE  BinlogInv'
<1> USE DEF BinlogInv, Flush
<1>1. buf' \in Seq(Record) /\ Range(buf') = {}
  BY EmptySeq, RangeEmpty, Zenon
<1>2. /\ log.recs \in Seq(Record)
      /\ log'.recs \in Seq(Record)
      /\ Range(log'.recs) = Range(log.recs) \cup Range(buf)
  BY RangeConcatenation, ConcatProperties DEF BinlogTypeOK
<1>3. BinlogTypeOK'
  <2>1. log' \in [exists : BOOLEAN, seed : BOOLEAN, recs : Seq(Record)]
    BY <1>2 DEF BinlogTypeOK
  <2>2. wpc' \in [Thread -> CallStates]
    BY DEF BinlogTypeOK, CallStates
  <2> QED
    BY <1>1, <2>1, <2>2, Zenon DEF BinlogTypeOK
<1>4. InCallHasRecord' /\ BufferedOnlyInCall'
  BY DEF InCallHasRecord, BufferedOnlyInCall, BinlogTypeOK
<1>5. Accounted'
  BY <1>1, <1>2 DEF Accounted, Flushed, BinlogTypeOK
<1> QED
  BY <1>3, <1>4, <1>5

\* fflush that fails part of the way: what it discards is lost for the other
\* threads in the buffer, and this one is told.
LEMMA FlushFailsInv ==
    ASSUME BinlogInv, NEW t \in Thread, FlushFails(t)
    PROVE  BinlogInv'
<1> USE DEF BinlogInv
<1>1. PICK n \in 0 .. Len(buf) - 1 :
          /\ log' = [log EXCEPT !.recs = @ \o SubSeq(buf, 1, n)]
          /\ lost' = lost \cup (Range(SubSeq(buf, n + 1, Len(buf))) \ {wrec[t]})
  BY Zenon DEF FlushFails
<1> DEFINE kept    == SubSeq(buf, 1, n)
           dropped == SubSeq(buf, n + 1, Len(buf))
<1>2. /\ kept \in Seq(Record)
      /\ Range(buf) = Range(kept) \cup Range(dropped)
      /\ Range(dropped) \subseteq Record
  BY CutProperties, Zenon DEF BinlogTypeOK
<1>3. buf' \in Seq(Record) /\ Range(buf') = {}
  BY EmptySeq, RangeEmpty, Zenon DEF FlushFails
<1>4. log.recs \in Seq(Record)
  BY DEF BinlogTypeOK
<1>5. log' = [log EXCEPT !.recs = @ \o kept] /\ lost' = lost \cup (Range(dropped) \ {wrec[t]})
  BY <1>1
<1> HIDE DEF kept, dropped
<1>6. log'.recs = log.recs \o kept
  BY <1>5 DEF BinlogTypeOK
<1>7. log'.recs \in Seq(Record) /\ Range(log'.recs) = Range(log.recs) \cup Range(kept)
  BY <1>2, <1>4, <1>6, RangeConcatenation, ConcatProperties
<1>8. BinlogTypeOK'
  <2>1. log' \in [exists : BOOLEAN, seed : BOOLEAN, recs : Seq(Record)]
    BY <1>5, <1>6, <1>7 DEF BinlogTypeOK
  <2>2. wpc' \in [Thread -> CallStates] /\ wres' \in [Thread -> {"ok", "err"}]
    BY DEF BinlogTypeOK, CallStates, FlushFails, Finish
  <2>3. lost' \subseteq Record
    BY <1>2, <1>5 DEF BinlogTypeOK
  <2> QED
    BY <1>3, <2>1, <2>2, <2>3, Zenon DEF BinlogTypeOK, FlushFails
<1>9. InCallHasRecord' /\ BufferedOnlyInCall'
  BY DEF InCallHasRecord, BufferedOnlyInCall, BinlogTypeOK, FlushFails, Finish
<1>10. Accounted'
  <2> SUFFICES ASSUME NEW u \in Thread
               PROVE  /\ wpc'[u] = "flush" =>
                            wrec'[u] \in Range(buf') \cup Range(log'.recs) \cup lost'
                      /\ Flushed(u)' => wrec'[u] \in Range(log'.recs) \cup lost'
    BY DEF Accounted
  <2>1. CASE u = t
    BY <2>1 DEF Flushed, FlushFails, Finish, BinlogTypeOK
  <2>2. CASE u # t
    <3>1. wpc'[u] = wpc[u] /\ wres'[u] = wres[u] /\ wrec'[u] = wrec[u]
      BY <2>2 DEF FlushFails, Finish, BinlogTypeOK
    <3>2. wpc[u] # "out" => wrec[u] # wrec[t]
      BY <2>2 DEF InCallHasRecord, FlushFails
    <3>3. wpc[u] = "flush" \/ Flushed(u) => wrec[u] \in Range(log'.recs) \cup lost'
      BY <1>2, <1>5, <1>7, <3>2 DEF Accounted, Flushed
    <3> QED
      BY <3>1, <3>3 DEF Flushed
  <2> QED
    BY <2>1, <2>2
<1> QED
  BY <1>8, <1>9, <1>10

\* The additions to binlog_file_size and its comparison with the maximum.
LEMMA SizeInv ==
    ASSUME BinlogInv, NEW t \in Thread, LoadSize(t) \/ StoreSize(t) \/ CheckSize(t)
    PROVE  BinlogInv'
<1> USE DEF BinlogInv, inProcess
<1>1. BinlogTypeOK'
  <2>1. CASE LoadSize(t)
    BY <2>1 DEF LoadSize, BinlogTypeOK, CallStates
  <2>2. CASE StoreSize(t)
    BY <2>2 DEF StoreSize, BinlogTypeOK, CallStates
  <2>3. CASE CheckSize(t)
    BY <2>3 DEF CheckSize, Finish, BinlogTypeOK, CallStates
  <2> QED
    BY <2>1, <2>2, <2>3
<1>2. /\ wpc[t] \in {"load", "store", "check"}
      /\ wpc'[t] # "out" /\ wpc'[t] # "flush"
      /\ \A u \in Thread \ {t} : wpc'[u] = wpc[u] /\ wres'[u] = wres[u]
      /\ UNCHANGED <<log, buf, lost, wrec, up, calls>>
  BY DEF LoadSize, StoreSize, CheckSize, Finish, BinlogTypeOK
<1>3. InCallHasRecord'
  BY <1>2 DEF InCallHasRecord
<1>4. BufferedOnlyInCall'
  BY <1>2 DEF BufferedOnlyInCall
<1>5. Accounted'
  BY <1>2 DEF Accounted, Flushed
<1> QED
  BY <1>1, <1>3, <1>4, <1>5

\* A rotation that cannot store the new index.
LEMMA RotateFailsInv ==
    ASSUME BinlogInv, NEW t \in Thread, RotateFails(t)
    PROVE  BinlogInv'
<1> USE DEF BinlogInv, RotateFails, Finish
<1>1. BinlogTypeOK'
  <2>1. go' \in BOOLEAN
    BY Zenon
  <2>2. index' \in Int /\ size' \in Nat
    BY DEF BinlogTypeOK
  <2>3. wpc' \in [Thread -> CallStates] /\ wres' \in [Thread -> {"ok", "err"}]
    BY DEF BinlogTypeOK, CallStates
  <2> QED
    BY <2>1, <2>2, <2>3, Zenon DEF BinlogTypeOK
<1>2. InCallHasRecord' /\ BufferedOnlyInCall' /\ Accounted'
  BY DEF InCallHasRecord, BufferedOnlyInCall, Accounted, Flushed, BinlogTypeOK
<1> QED
  BY <1>1, <1>2

\* The return to the handler.
LEMMA ReturnInv ==
    ASSUME BinlogInv, NEW t \in Thread, BinlogReturn(t)
    PROVE  BinlogInv'
<1> USE DEF BinlogInv, BinlogReturn, inProcess
<1>1. BinlogTypeOK'
  BY DEF BinlogTypeOK, CallStates
<1>2. InCallHasRecord' /\ BufferedOnlyInCall' /\ Accounted'
  BY DEF InCallHasRecord, BufferedOnlyInCall, Accounted, Flushed, BinlogTypeOK
<1> QED
  BY <1>1, <1>2

\* Every step keeps the invariant.
LEMMA StepInv == BinlogInv /\ [BinlogNext]_binlogVars => BinlogInv'
<1> SUFFICES ASSUME BinlogInv, [BinlogNext]_binlogVars PROVE BinlogInv'
  OBVIOUS
<1>1. CASE Start
  BY <1>1, StartInv
<1>2. CASE Crash
  BY <1>2, EndsInv DEF Crash, EndLeaves, BinlogInv, BinlogTypeOK
<1>3. ASSUME NEW t \in Thread, NEW op \in Op, NEW path \in Path, BinlogCall(t, op, path)
      PROVE  BinlogInv'
  BY <1>3, CallInv
<1>4. ASSUME NEW t \in Thread, BinlogCallDies(t) \/ BinlogDies(t) PROVE BinlogInv'
  <2>1. calls \in Nat
    BY DEF BinlogInv, BinlogTypeOK
  <2>2. ProcessEnds /\ EndLeaves /\ UNCHANGED dataSync /\ (calls' = calls \/ calls' = calls + 1)
    BY <1>4, EndingSteps, Zenon
  <2>3. calls' \in Nat
    BY <2>1, <2>2
  <2> QED
    BY <2>2, <2>3, EndsInv, Zenon
<1>5. ASSUME NEW t \in Thread, BinlogStep(t) PROVE BinlogInv'
  BY <1>5, PrintRecordInv, PrintFullInv, FlushInv, FlushFailsInv, SizeInv, RotateFailsInv
     DEF BinlogStep
<1>6. ASSUME NEW t \in Thread, BinlogReturn(t) PROVE BinlogInv'
  BY <1>6, ReturnInv
<1>7. CASE UNCHANGED binlogVars
  BY <1>7 DEF binlogVars, inProcess, inCall, BinlogInv, BinlogTypeOK, InCallHasRecord,
              BufferedOnlyInCall, Accounted, Flushed
<1> QED
  BY <1>1, <1>2, <1>3, <1>4, <1>5, <1>6, <1>7 DEF BinlogNext

-----------------------------------------------------------------------------
(* The theorems.                                                           *)

\* The inductive invariant holds in every reachable state.
THEOREM BinlogInvariance == BinlogSpec => []BinlogInv
<1>1. BinlogInit => BinlogInv
  BY InitInv
<1>2. BinlogInv /\ [BinlogNext]_binlogVars => BinlogInv'
  BY StepInv
<1> QED
  BY <1>1, <1>2, PTL DEF BinlogSpec

\* The variables of storage_sync.c and the log file keep their types.
THEOREM TypeCorrectness == BinlogSpec => []BinlogTypeOK
<1>1. BinlogInv => BinlogTypeOK
  BY DEF BinlogInv
<1> QED
  BY <1>1, BinlogInvariance, PTL

\* storage_binlog_write returns 0 only when the record is in the file, or was
\* discarded by the failing fflush of another thread.
THEOREM AckedRecordsAreOnDisk == BinlogSpec => []OkMeansOnDisk
<1>1. BinlogInv => OkMeansOnDisk
  BY DEF BinlogInv, Accounted, Flushed, OkMeansOnDisk, OnDisk
<1> QED
  BY <1>1, BinlogInvariance, PTL

\* The stdio buffer holds no record of a call that is over.
THEOREM NothingIsHeldBack == BinlogSpec => []BufferedOnlyInCall
<1>1. BinlogInv => BufferedOnlyInCall
  BY DEF BinlogInv
<1> QED
  BY <1>1, BinlogInvariance, PTL

-----------------------------------------------------------------------------
(* The file only grows.                                                    *)

\* A sequence is a prefix of what is appended to it.
LEMMA ConcatKeepsPrefix ==
    ASSUME NEW S, NEW s \in Seq(S), NEW x \in Seq(S)
    PROVE  Len(s \o x) >= Len(s) /\ SubSeq(s \o x, 1, Len(s)) = s
<1>1. s \o x \in Seq(S) /\ Len(s \o x) = Len(s) + Len(x) /\ Len(s) \in Nat /\ Len(x) \in Nat
  BY ConcatProperties, LenProperties
<1>2. CASE s = <<>>
  BY <1>1, <1>2, SubSeqEmpty
<1>3. CASE s # <<>>
  <2>1. Len(s) \in 1 .. Len(s) /\ 1 \in 1 .. Len(s)
    BY <1>1, <1>3, EmptySeq
  <2>2. SubSeq(s \o x, 1, Len(s)) = SubSeq(s, 1, Len(s))
    BY <2>1, SubSeqOfConcat1
  <2> QED
    BY <1>1, <2>2, SubSeqFull
<1> QED
  BY <1>2, <1>3

\* No step but the four that write changes a log that exists.
LEMMA LogSteps ==
    ASSUME BinlogInv, LogIsThere, [BinlogNext]_binlogVars
    PROVE  \/ log' = log
           \/ log.recs = <<>> /\ log' = EmptyLog
           \/ /\ log.exists
              /\ \E x \in Seq(Record) : log' = [log EXCEPT !.recs = @ \o x]
<1>1. CASE Start
  BY <1>1 DEF Start, StartOnExistingLog, StartOnNewLog, StartWithoutLog, StartRefused, OpenedLog,
              LogIsThere
<1>2. CASE Crash
  BY <1>2 DEF Crash
<1>3. ASSUME NEW t \in Thread, NEW op \in Op, NEW path \in Path, BinlogCall(t, op, path)
      PROVE  log' = log
  BY <1>3 DEF BinlogCall
<1>4. ASSUME NEW t \in Thread, BinlogCallDies(t) \/ RotateDies(t) \/ BinlogReturn(t)
      PROVE  log' = log
  BY <1>4 DEF BinlogCallDies, RotateDies, BinlogReturn
<1>7. ASSUME NEW t \in Thread, PrintFails(t)
      PROVE  log.exists /\ \E x \in Seq(Record) : log' = [log EXCEPT !.recs = @ \o x]
  <2>1. log.exists
    BY <1>7 DEF PrintFails, LogIsThere
  <2> QED
    BY <1>7, <2>1, EndLeavesLog, Zenon DEF BinlogInv, PrintFails, EndLeaves
<1>5. ASSUME NEW t \in Thread, BinlogStep(t)
      PROVE  \/ log' = log
             \/ log.exists /\ \E x \in Seq(Record) : log' = [log EXCEPT !.recs = @ \o x]
  <2>1. CASE PrintFull(t) \/ Flush(t)
    <3>1. log' = [log EXCEPT !.recs = @ \o buf] /\ wpc[t] # "out"
      BY <2>1 DEF PrintFull, Flush
    <3>2. buf \in Seq(Record) /\ log.exists
      BY <3>1 DEF BinlogInv, BinlogTypeOK, LogIsThere
    <3> QED
      BY <3>1, <3>2
  <2>2. CASE FlushFails(t)
    <3>1. PICK n \in 0 .. Len(buf) - 1 : log' = [log EXCEPT !.recs = @ \o SubSeq(buf, 1, n)]
      BY <2>2, Zenon DEF FlushFails
    <3>2. SubSeq(buf, 1, n) \in Seq(Record)
      BY CutProperties DEF BinlogInv, BinlogTypeOK
    <3>3. log.exists
      BY <2>2 DEF FlushFails, LogIsThere
    <3> QED
      BY <3>1, <3>2, <3>3, Zenon
  <2>3. CASE PrintRecord(t) \/ LoadSize(t) \/ StoreSize(t) \/ CheckSize(t) \/ RotateFails(t)
    BY <2>3 DEF PrintRecord, LoadSize, StoreSize, CheckSize, RotateFails
  <2> QED
    BY <1>5, <2>1, <2>2, <2>3 DEF BinlogStep
<1>6. CASE UNCHANGED binlogVars
  BY <1>6 DEF binlogVars
<1> QED
  BY <1>1, <1>2, <1>3, <1>4, <1>5, <1>6, <1>7 DEF BinlogNext, BinlogDies

\* Records are only in a log that exists, and only an open log is written.
LEMMA LogIsThereStep ==
    ASSUME BinlogInv, LogIsThere, [BinlogNext]_binlogVars
    PROVE  LogIsThere'
<1> USE DEF LogIsThere, BinlogInv
<1>0. wpc \in [Thread -> CallStates]
  BY DEF BinlogTypeOK
<1>1. CASE Start
  <2>1. CASE StartRefused
    BY <2>1 DEF StartRefused, OpenedLog, EmptyLog, inProcess, inCall
  <2>2. CASE StartOnExistingLog \/ StartOnNewLog \/ StartWithoutLog
    BY <2>2 DEF StartOnExistingLog, StartOnNewLog, StartWithoutLog, Serving, OpenedLog, EmptyLog,
                inCall, InCallHasRecord
  <2> QED
    BY <1>1, <2>1, <2>2 DEF Start
<1>2. ASSUME ProcessEnds PROVE LogIsThere'
  <2>1. ~log'.exists => log'.recs = <<>>
    <3>1. CASE log' = log \/ log' = EmptyLog
      BY <3>1 DEF EmptyLog
    <3>2. CASE log.exists /\ \E x \in Seq(Record) : log' = [log EXCEPT !.recs = @ \o x]
      BY <3>2 DEF BinlogTypeOK
    <3> QED
      BY <3>1, <3>2, LogSteps, Zenon
  <2> QED
    BY <1>2, <2>1 DEF ProcessEnds
<1>3. ASSUME NEW t \in Thread, NEW op \in Op, NEW path \in Path, BinlogCall(t, op, path)
      PROVE  LogIsThere'
  BY <1>0, <1>3 DEF BinlogCall, inProcess
<1>4. ASSUME NEW t \in Thread, BinlogStep(t) PROVE LogIsThere'
  <2>1. fp = "open" /\ fp' = fp
    BY <1>4 DEF BinlogStep, PrintRecord, PrintFull, Flush, FlushFails, LoadSize, StoreSize,
                CheckSize, RotateFails, inProcess
  <2>2. log.exists /\ log'.exists
    <3>1. CASE log' = log
      BY <2>1, <3>1
    <3>2. CASE \E x \in Seq(Record) : log' = [log EXCEPT !.recs = @ \o x]
      BY <2>1, <3>2 DEF BinlogTypeOK
    <3> QED
      BY <2>1, <3>1, <3>2, LogSteps DEF EmptyLog
  <2> QED
    BY <2>1, <2>2
<1>5. ASSUME NEW t \in Thread, BinlogReturn(t) PROVE LogIsThere'
  BY <1>0, <1>5 DEF BinlogReturn, inProcess
<1>6. CASE UNCHANGED binlogVars
  BY <1>6 DEF binlogVars, inProcess, inCall
<1> QED
  BY <1>1, <1>2, <1>3, <1>4, <1>5, <1>6
     DEF BinlogNext, Crash, BinlogCallDies, BinlogDies, PrintFails, RotateDies

\* What any step does to the records that are in the file.
LEMMA LogGrows ==
    ASSUME BinlogInv, LogIsThere, [BinlogNext]_binlogVars
    PROVE  Len(log'.recs) >= Len(log.recs) /\ SubSeq(log'.recs, 1, Len(log.recs)) = log.recs
<1>1. log.recs \in Seq(Record)
  BY DEF BinlogInv, BinlogTypeOK
<1>2. SUFFICES \E x \in Seq(Record) : log'.recs = log.recs \o x
  BY <1>1, ConcatKeepsPrefix
<1>3. CASE log'.recs = log.recs
  BY <1>1, <1>3, ConcatEmptySeq, EmptySeq
<1>4. CASE log.exists /\ \E x \in Seq(Record) : log' = [log EXCEPT !.recs = @ \o x]
  BY <1>4 DEF BinlogInv, BinlogTypeOK
<1> QED
  BY <1>3, <1>4, LogSteps DEF EmptyLog

\* No step, crash or restart changes or removes a record that is in the file.
THEOREM LogOnlyGrows == BinlogSpec => DurableAppendOnly
<1>1. BinlogInit => BinlogInv /\ LogIsThere
  BY InitInv DEF BinlogInit, BinlogInitWith, LogIsThere, NoLog, SeededLog
<1>2. BinlogInv /\ LogIsThere /\ [BinlogNext]_binlogVars => BinlogInv' /\ LogIsThere'
  BY StepInv, LogIsThereStep
<1>3. BinlogInv /\ LogIsThere /\ [BinlogNext]_binlogVars
        => [/\ Len(log'.recs) >= Len(log.recs)
            /\ SubSeq(log'.recs, 1, Len(log.recs)) = log.recs]_binlogVars
  BY LogGrows
<1> QED
  BY <1>1, <1>2, <1>3, PTL DEF BinlogSpec, DurableAppendOnly

-----------------------------------------------------------------------------
(* No record is written twice.                                             *)

\* Nothing is added to what was printed, and no thread begins to print.
LEMMA NumberedKept ==
    ASSUME BinlogTypeOK, Numbered,
           Printed' \in Seq(Record), Len(Printed') <= Len(Printed),
           \A i \in 1 .. Len(Printed') : Printed'[i] = Printed[i],
           calls' \in Nat, calls' >= calls,
           \A t \in Thread : wpc'[t] = "print" => wpc[t] = "print" /\ wrec'[t] = wrec[t]
    PROVE  Numbered'
<1>1. Printed \in Seq(Record)
  BY ConcatProperties DEF BinlogTypeOK, Printed
<1>2. DOMAIN Printed = 1 .. Len(Printed) /\ DOMAIN Printed' = 1 .. Len(Printed')
  BY <1>1
<1>3. /\ Len(Printed) \in Nat /\ Len(Printed') \in Nat
      /\ calls \in Nat
      /\ \A i \in DOMAIN Printed' : i \in DOMAIN Printed /\ Printed'[i] = Printed[i]
  BY <1>1, <1>2 DEF BinlogTypeOK
<1>4. \A i \in DOMAIN Printed : Printed[i].id \in Nat
  <2>1. \A i \in DOMAIN Printed : Printed[i] \in Record
    BY <1>1, <1>2
  <2> QED
    BY <2>1 DEF Record
<1>5. \A i \in DOMAIN Printed' : Printed'[i].id <= calls'
  BY <1>3, <1>4 DEF Numbered
<1>6. \A t \in Thread : wpc'[t] = "print" =>
        \A i \in DOMAIN Printed' : Printed'[i].id # wrec'[t].id
  BY <1>3 DEF Numbered
<1>7. \A i, j \in DOMAIN Printed' : Printed'[i].id = Printed'[j].id => i = j
  BY <1>3 DEF Numbered, LoggedOnce
<1> QED
  BY <1>5, <1>6, <1>7 DEF Numbered, LoggedOnce

\* Log and buffer are joined into a sequence of records, and so is any suffix.
LEMMA PrintedIsSeq ==
    ASSUME BinlogTypeOK
    PROVE  /\ log.recs \in Seq(Record) /\ buf \in Seq(Record)
           /\ Printed \in Seq(Record)
           /\ Len(Printed) = Len(log.recs) + Len(buf)
           /\ \A i \in 1 .. Len(log.recs) : Printed[i] = log.recs[i]
<1>1. log.recs \in Seq(Record) /\ buf \in Seq(Record)
  BY DEF BinlogTypeOK
<1> QED
  BY <1>1, ConcatProperties, LenProperties DEF Printed

\* A step that writes to neither, or moves the buffer into the file.
LEMMA NumberedSame ==
    ASSUME BinlogTypeOK, Numbered, Printed' = Printed, UNCHANGED calls,
           \A t \in Thread : wpc'[t] = "print" => wpc[t] = "print" /\ wrec'[t] = wrec[t]
    PROVE  Numbered'
<1>1. Printed \in Seq(Record) /\ Len(Printed) \in Nat
  BY PrintedIsSeq, LenProperties
<1>2. calls \in Nat
  BY DEF BinlogTypeOK
<1> QED
  BY <1>1, <1>2, NumberedKept

\* Appending the first n elements of b instead of all of them.
LEMMA ConcatFirst ==
    ASSUME NEW S, NEW s \in Seq(S), NEW b \in Seq(S), NEW n \in 0 .. Len(b) - 1
    PROVE  /\ s \o SubSeq(b, 1, n) \in Seq(S) /\ Len(s \o SubSeq(b, 1, n)) = Len(s) + n
           /\ \A i \in 1 .. Len(s) + n : (s \o SubSeq(b, 1, n))[i] = (s \o b)[i]
           /\ Range(SubSeq(b, n + 1, Len(b)))
                = {(s \o b)[j] : j \in Len(s) + n + 1 .. Len(s \o b)}
<1> DEFINE x == SubSeq(b, 1, n)
           y == SubSeq(b, n + 1, Len(b))
           p == s \o b
<1>1. /\ Len(s) \in Nat /\ Len(b) \in Nat /\ n \in Nat /\ n < Len(b)
      /\ p \in Seq(S) /\ Len(p) = Len(s) + Len(b)
      /\ \A i \in 1 .. Len(s) : p[i] = s[i]
      /\ \A i \in 1 .. Len(b) : p[Len(s) + i] = b[i]
  OBVIOUS
<1>2. x \in Seq(S) /\ Len(x) = n /\ \A i \in 1 .. n : x[i] = b[i]
  <2>1. \A i \in 1 .. n : b[i] \in S
    BY <1>1
  <2> QED
    BY <1>1, <2>1, SubSeqProperties
<1>3. /\ y \in Seq(S) /\ Len(y) = Len(b) - n
      /\ \A i \in 1 .. Len(b) - n : y[i] = b[n + i]
  <2>1. \A i \in n + 1 .. Len(b) : b[i] \in S
    BY <1>1
  <2> QED
    BY <1>1, <2>1
<1> HIDE DEF x, y
<1>4. s \o x \in Seq(S) /\ Len(s \o x) = Len(s) + n
  BY <1>1, <1>2, ConcatProperties
<1>5. \A i \in 1 .. Len(s) + n : (s \o x)[i] = p[i]
  BY <1>1, <1>2, <1>4
<1> HIDE DEF p
<1>6. \A i \in 1 .. Len(b) - n : y[i] = p[Len(s) + n + i]
  <2> TAKE i \in 1 .. Len(b) - n
  <2>1. n + i \in 1 .. Len(b) /\ Len(s) + n + i = Len(s) + (n + i)
    BY <1>1
  <2>2. y[i] = b[n + i] /\ p[Len(s) + (n + i)] = b[n + i]
    BY <1>1, <1>3, <2>1
  <2> QED
    BY <2>1, <2>2
<1>7. Range(y) = {y[i] : i \in 1 .. Len(b) - n}
  <2>1. Range(y) = {y[i] : i \in 1 .. Len(y)}
    BY <1>3, RangeEquality, Zenon
  <2> QED
    BY <1>3, <2>1, Zenon
<1>8. Range(y) = {p[j] : j \in Len(s) + n + 1 .. Len(p)}
  <2>1. ASSUME NEW j \in Len(s) + n + 1 .. Len(p)
        PROVE  \E i \in 1 .. Len(b) - n : y[i] = p[j]
    <3> DEFINE i == j - Len(s) - n
    <3>1. i \in 1 .. Len(b) - n /\ Len(s) + n + i = j
      BY <1>1
    <3> QED
      BY <1>6, <3>1
  <2>2. ASSUME NEW i \in 1 .. Len(b) - n
        PROVE  \E j \in Len(s) + n + 1 .. Len(p) : y[i] = p[j]
    <3>1. Len(s) + n + i \in Len(s) + n + 1 .. Len(p)
      BY <1>1
    <3> QED
      BY <1>6, <3>1
  <2> DEFINE tail == {p[j] : j \in Len(s) + n + 1 .. Len(p)}
  <2>3. \A r \in Range(y) : r \in tail
    BY <1>7, <2>2
  <2>4. \A r \in tail : r \in Range(y)
    BY <1>7, <2>1
  <2> QED
    BY <2>3, <2>4
<1> QED
  BY <1>4, <1>5, <1>8 DEF x, y, p

\* A write that fails has moved the first n records of the buffer into the
\* file.
LEMMA FirstWritten ==
    ASSUME BinlogTypeOK, NEW n \in 0 .. Len(buf) - 1, buf' = <<>>,
           log' = [log EXCEPT !.recs = @ \o SubSeq(buf, 1, n)]
    PROVE  /\ Printed' \in Seq(Record) /\ Len(Printed') = Len(log.recs) + n
           /\ \A i \in 1 .. Len(Printed') : Printed'[i] = Printed[i]
           /\ Range(SubSeq(buf, n + 1, Len(buf)))
                = {Printed[j] : j \in Len(log.recs) + n + 1 .. Len(Printed)}
<1>1. log.recs \in Seq(Record) /\ buf \in Seq(Record)
  BY PrintedIsSeq
<1>2. log'.recs = log.recs \o SubSeq(buf, 1, n)
  BY DEF BinlogTypeOK
<1>3. log.recs \o SubSeq(buf, 1, n) \in Seq(Record)
  BY <1>1, ConcatFirst, Zenon
<1>4. Printed' = log'.recs \o <<>>
  BY DEF Printed
<1>5. Printed' = log.recs \o SubSeq(buf, 1, n)
  BY <1>2, <1>3, <1>4, ConcatEmptySeq, Zenon
<1> QED
  <2>1. \A s, b \in Seq(Record) : \A k \in 0 .. Len(b) - 1 :
          /\ s \o SubSeq(b, 1, k) \in Seq(Record) /\ Len(s \o SubSeq(b, 1, k)) = Len(s) + k
          /\ \A i \in 1 .. Len(s) + k : (s \o SubSeq(b, 1, k))[i] = (s \o b)[i]
          /\ Range(SubSeq(b, k + 1, Len(b)))
               = {(s \o b)[j] : j \in Len(s) + k + 1 .. Len(s \o b)}
    BY ConcatFirst
  <2> DEFINE q == log.recs \o SubSeq(buf, 1, n)
             p == log.recs \o buf
  <2>2. /\ q \in Seq(Record) /\ Len(q) = Len(log.recs) + n
        /\ \A i \in 1 .. Len(log.recs) + n : q[i] = p[i]
        /\ Range(SubSeq(buf, n + 1, Len(buf)))
             = {p[j] : j \in Len(log.recs) + n + 1 .. Len(p)}
    BY <1>1, <2>1, Zenon
  <2>3. Printed' = q /\ Printed = p
    BY <1>5 DEF Printed
  <2> HIDE DEF p, q
  <2> QED
    BY <2>2, <2>3, Zenon

\* The process ends, and the buffer with it.
LEMMA NumberedEnds ==
    ASSUME BinlogInv, Numbered, ProcessEnds, EndLeaves, calls' \in Nat, calls' >= calls
    PROVE  Numbered'
<1>1. BinlogTypeOK /\ buf' = <<>>
  BY DEF BinlogInv, ProcessEnds
<1>2. /\ Printed' \in Seq(Record) /\ Len(Printed') <= Len(Printed)
      /\ \A i \in 1 .. Len(Printed') : Printed'[i] = Printed[i]
  <2>1. CASE log' = log
    <3>1. Printed' = log.recs \o <<>>
      BY <1>1, <2>1 DEF Printed
    <3>2. Printed' = log.recs
      BY <1>1, <3>1, PrintedIsSeq, ConcatEmptySeq, Zenon
    <3> QED
      BY <1>1, <3>2, PrintedIsSeq, LenProperties
  <2>2. CASE \E n \in 0 .. Len(buf) - 1 : log' = [log EXCEPT !.recs = @ \o SubSeq(buf, 1, n)]
    <3>1. PICK n \in 0 .. Len(buf) - 1 : log' = [log EXCEPT !.recs = @ \o SubSeq(buf, 1, n)]
      BY <2>2
    <3>2. /\ Printed' \in Seq(Record) /\ Len(Printed') = Len(log.recs) + n
          /\ \A i \in 1 .. Len(Printed') : Printed'[i] = Printed[i]
      BY <1>1, <3>1, FirstWritten
    <3>3. Len(Printed') <= Len(Printed)
      BY <1>1, <3>2, PrintedIsSeq, LenProperties
    <3> QED
      BY <3>2, <3>3
  <2> QED
    BY <2>1, <2>2 DEF EndLeaves
<1>3. \A t \in Thread : wpc'[t] # "print"
  BY DEF ProcessEnds
<1> QED
  BY <1>1, <1>2, <1>3, NumberedKept

\* A record is printed: its number is not in the file nor in the buffer.
LEMMA NumberedPrint ==
    ASSUME BinlogInv, Numbered, NEW t \in Thread, wpc[t] = "print",
           Printed' = Append(Printed, wrec[t]),
           UNCHANGED <<wrec, calls>>, wpc' = [wpc EXCEPT ![t] = "flush"]
    PROVE  Numbered'
<1> DEFINE n == Len(Printed)
<1>1. Printed \in Seq(Record) /\ n \in Nat /\ wrec[t] \in Record /\ wrec[t].id <= calls
  BY PrintedIsSeq, LenProperties DEF BinlogInv, InCallHasRecord
<1>2. /\ DOMAIN Printed = 1 .. n /\ DOMAIN Printed' = 1 .. n + 1
      /\ \A i \in 1 .. n : Printed'[i] = Printed[i]
      /\ Printed'[n + 1] = wrec[t]
  BY <1>1
<1> HIDE DEF n
<1>3. \A i \in DOMAIN Printed' : i \in DOMAIN Printed \/ i = n + 1
  BY <1>1, <1>2
<1>4. \A i \in DOMAIN Printed' : Printed'[i].id <= calls'
  BY <1>1, <1>2, <1>3 DEF Numbered
<1>5. \A u \in Thread : wpc'[u] = "print" => u # t /\ wpc[u] = "print"
  BY DEF BinlogInv, BinlogTypeOK
<1>6. \A u \in Thread : wpc'[u] = "print" =>
        \A i \in DOMAIN Printed' : Printed'[i].id # wrec'[u].id
  <2> SUFFICES ASSUME NEW u \in Thread, wpc'[u] = "print", NEW i \in DOMAIN Printed'
               PROVE  Printed'[i].id # wrec[u].id
    OBVIOUS
  <2>1. CASE i = n + 1
    <3>1. wrec[t].id # wrec[u].id
      BY <1>5 DEF BinlogInv, InCallHasRecord
    <3> QED
      BY <1>2, <2>1, <3>1
  <2>2. CASE i \in DOMAIN Printed
    BY <1>2, <1>5, <2>2 DEF Numbered
  <2> QED
    BY <1>3, <2>1, <2>2
<1>7. \A i, j \in DOMAIN Printed' : Printed'[i].id = Printed'[j].id => i = j
  <2> SUFFICES ASSUME NEW i \in DOMAIN Printed', NEW j \in DOMAIN Printed',
                      Printed'[i].id = Printed'[j].id
               PROVE  i = j
    OBVIOUS
  <2>1. \A k \in DOMAIN Printed : Printed'[k] = Printed[k] /\ Printed[k].id # wrec[t].id
    BY <1>2 DEF Numbered
  <2>2. CASE i \in DOMAIN Printed /\ j \in DOMAIN Printed
    BY <2>1, <2>2 DEF Numbered, LoggedOnce
  <2> QED
    BY <1>2, <1>3, <2>1, <2>2
<1> QED
  BY <1>4, <1>6, <1>7 DEF Numbered, LoggedOnce

\* fprintf appends the record to what was printed; fflush moves the buffer into
\* the file.
LEMMA PrintedSteps ==
    ASSUME BinlogInv, NEW t \in Thread
    PROVE  /\ PrintRecord(t) => Printed' = Append(Printed, wrec[t]) /\ wrec[t] \in Record
           /\ PrintFull(t)   => Printed' = Append(Printed, wrec[t]) /\ wrec[t] \in Record
           /\ Flush(t)       => Printed' = Printed
<1>0. /\ log.recs \in Seq(Record) /\ buf \in Seq(Record)
      /\ Printed \in Seq(Record)
      /\ log \in [exists : BOOLEAN, seed : BOOLEAN, recs : Seq(Record)]
  BY PrintedIsSeq DEF BinlogInv, BinlogTypeOK
<1>1. ASSUME PrintRecord(t) PROVE Printed' = Append(Printed, wrec[t]) /\ wrec[t] \in Record
  <2>1. wrec[t] \in Record
    BY <1>1 DEF PrintRecord, BinlogInv, InCallHasRecord
  <2>2. Printed' = log.recs \o Append(buf, wrec[t])
    BY <1>1 DEF PrintRecord, Printed
  <2> QED
    BY <1>0, <2>1, <2>2 DEF Printed
<1>2. ASSUME PrintFull(t) PROVE Printed' = Append(Printed, wrec[t]) /\ wrec[t] \in Record
  <2>1. wrec[t] \in Record
    BY <1>2 DEF PrintFull, BinlogInv, InCallHasRecord
  <2>2. Printed' = (log.recs \o buf) \o <<wrec[t]>>
    BY <1>0, <1>2 DEF PrintFull, Printed
  <2> QED
    BY <1>0, <2>1, <2>2 DEF Printed
<1>3. ASSUME Flush(t) PROVE Printed' = Printed
  <2>1. Printed' = (log.recs \o buf) \o <<>>
    BY <1>0, <1>3 DEF Flush, Printed
  <2>2. Printed' = Printed \o <<>>
    BY <2>1 DEF Printed
  <2> QED
    BY <1>0, <2>2, ConcatEmptySeq, Zenon
<1> QED
  BY <1>1, <1>2, <1>3

\* A failed fflush moves the first n records of the buffer into the file; the
\* others are lost, with or without the failing thread's own.
LEMMA FlushFailsFacts ==
    ASSUME BinlogInv, NEW t \in Thread, FlushFails(t)
    PROVE  \E n \in 0 .. Len(buf) - 1 :
             /\ log' = [log EXCEPT !.recs = @ \o SubSeq(buf, 1, n)]
             /\ lost' = lost \cup (Range(SubSeq(buf, n + 1, Len(buf))) \ {wrec[t]})
             /\ Printed' \in Seq(Record) /\ Len(Printed') = Len(log.recs) + n
             /\ \A i \in 1 .. Len(Printed') : Printed'[i] = Printed[i]
             /\ Range(SubSeq(buf, n + 1, Len(buf)))
                  = {Printed[j] : j \in Len(log.recs) + n + 1 .. Len(Printed)}
<1>1. PICK n \in 0 .. Len(buf) - 1 :
        /\ log' = [log EXCEPT !.recs = @ \o SubSeq(buf, 1, n)]
        /\ lost' = lost \cup (Range(SubSeq(buf, n + 1, Len(buf))) \ {wrec[t]})
  BY Zenon DEF FlushFails
<1>2. buf' = <<>>
  BY DEF FlushFails
<1> QED
  BY <1>1, <1>2, FirstWritten, Zenon DEF BinlogInv

\* The steps inside a call.
LEMMA NumberedStep ==
    ASSUME BinlogInv, Numbered, NEW t \in Thread, BinlogStep(t)
    PROVE  Numbered'
<1>0. /\ log.recs \in Seq(Record) /\ buf \in Seq(Record)
      /\ Printed \in Seq(Record)
      /\ Len(Printed) = Len(log.recs) + Len(buf)
      /\ wpc \in [Thread -> CallStates] /\ calls \in Nat
      /\ Len(log.recs) \in Nat /\ Len(buf) \in Nat
  BY PrintedIsSeq, LenProperties DEF BinlogInv, BinlogTypeOK
<1>1. CASE PrintRecord(t)
  BY <1>1, PrintedSteps, NumberedPrint DEF PrintRecord
<1>2. CASE PrintFull(t)
  BY <1>2, PrintedSteps, NumberedPrint DEF PrintFull
<1>3. CASE Flush(t)
  <2>1. \A u \in Thread : wpc'[u] = "print" => wpc[u] = "print" /\ wrec'[u] = wrec[u]
    BY <1>0, <1>3 DEF Flush
  <2>2. UNCHANGED calls
    BY <1>3 DEF Flush
  <2> QED
    BY <1>3, <2>1, <2>2, PrintedSteps, NumberedSame DEF BinlogInv
<1>4. CASE FlushFails(t)
  <2>1. PICK n \in 0 .. Len(buf) - 1 :
          /\ Printed' \in Seq(Record) /\ Len(Printed') = Len(log.recs) + n
          /\ \A i \in 1 .. Len(Printed') : Printed'[i] = Printed[i]
    BY <1>4, FlushFailsFacts
  <2>2. Len(Printed') <= Len(Printed)
    BY <1>0, <2>1
  <2>3. \A u \in Thread : wpc'[u] = "print" => wpc[u] = "print" /\ wrec'[u] = wrec[u]
    BY <1>0, <1>4 DEF FlushFails, Finish
  <2>4. UNCHANGED calls
    BY <1>4 DEF FlushFails
  <2> QED
    BY <1>0, <2>1, <2>2, <2>3, <2>4, NumberedKept DEF BinlogInv
<1>5. CASE LoadSize(t) \/ StoreSize(t) \/ CheckSize(t) \/ RotateFails(t)
  <2>1. UNCHANGED <<log, buf, wrec, calls>>
    BY <1>5 DEF LoadSize, StoreSize, CheckSize, RotateFails, inProcess
  <2>2. \A u \in Thread : wpc'[u] = "print" => wpc[u] = "print"
    BY <1>0, <1>5 DEF LoadSize, StoreSize, CheckSize, RotateFails, Finish
  <2> QED
    BY <2>1, <2>2, NumberedSame DEF BinlogInv, Printed
<1> QED
  BY <1>1, <1>2, <1>3, <1>4, <1>5 DEF BinlogStep

\* A call gets a number that no record has.
LEMMA NumberedCall ==
    ASSUME BinlogInv, Numbered, NEW t \in Thread, NEW op \in Op, NEW path \in Path,
           BinlogCall(t, op, path)
    PROVE  Numbered'
<1>1. Printed' = Printed /\ calls' = calls + 1 /\ calls \in Nat
  BY DEF BinlogCall, Called, inProcess, Printed, BinlogInv, BinlogTypeOK
<1>2. \A i \in DOMAIN Printed : Printed[i].id \in Nat /\ Printed[i].id <= calls
  <2>1. Printed \in Seq(Record)
    BY PrintedIsSeq DEF BinlogInv
  <2>2. \A i \in DOMAIN Printed : Printed[i] \in Record
    BY <2>1
  <2> QED
    BY <2>2 DEF Record, Numbered
<1>3. /\ wrec'[t].id = calls + 1
      /\ \A u \in Thread \ {t} : wpc'[u] = wpc[u] /\ wrec'[u] = wrec[u]
  BY DEF BinlogCall, BinlogInv, BinlogTypeOK
<1>4. \A u \in Thread : wpc'[u] = "print" =>
        \A i \in DOMAIN Printed' : Printed'[i].id # wrec'[u].id
  <2> SUFFICES ASSUME NEW u \in Thread, wpc'[u] = "print", NEW i \in DOMAIN Printed
               PROVE  Printed[i].id # wrec'[u].id
    BY <1>1
  <2>1. CASE u = t
    BY <1>1, <1>2, <1>3, <2>1
  <2>2. CASE u # t
    BY <1>3, <2>2 DEF Numbered
  <2> QED
    BY <2>1, <2>2
<1>5. \A i \in DOMAIN Printed' : Printed'[i].id <= calls'
  BY <1>1, <1>2
<1> QED
  BY <1>1, <1>4, <1>5 DEF Numbered, LoggedOnce

\* Every step keeps the numbering.
LEMMA NumberedNext ==
    ASSUME BinlogInv, LogIsThere, Numbered, [BinlogNext]_binlogVars
    PROVE  Numbered'
<1>0. calls \in Nat /\ wpc \in [Thread -> CallStates] /\ BinlogTypeOK
  BY DEF BinlogInv, BinlogTypeOK
<1>1. CASE Start
  <2>1. log'.recs = log.recs /\ UNCHANGED <<buf, wpc, wrec, calls>>
    BY <1>1 DEF Start, StartOnExistingLog, StartOnNewLog, StartWithoutLog, StartRefused,
                Serving, OpenedLog, EmptyLog, inCall, inProcess, LogIsThere
  <2> QED
    BY <1>0, <2>1, NumberedSame DEF Printed
<1>2. CASE Crash
  BY <1>0, <1>2, NumberedEnds DEF Crash, EndLeaves
<1>3. ASSUME NEW t \in Thread, NEW op \in Op, NEW path \in Path, BinlogCall(t, op, path)
      PROVE  Numbered'
  BY <1>3, NumberedCall
<1>4. ASSUME NEW t \in Thread, BinlogCallDies(t) \/ BinlogDies(t) PROVE Numbered'
  BY <1>0, <1>4, EndingSteps, NumberedEnds
<1>5. ASSUME NEW t \in Thread, BinlogStep(t) PROVE Numbered'
  BY <1>5, NumberedStep
<1>6. ASSUME NEW t \in Thread, BinlogReturn(t) PROVE Numbered'
  <2>1. UNCHANGED <<log, buf, calls>>
    BY <1>6 DEF BinlogReturn, inProcess
  <2>2. \A u \in Thread : wpc'[u] = "print" => wpc[u] = "print" /\ wrec'[u] = wrec[u]
    BY <1>0, <1>6 DEF BinlogReturn, BinlogTypeOK
  <2> QED
    BY <1>0, <2>1, <2>2, NumberedSame DEF Printed
<1>7. CASE UNCHANGED binlogVars
  BY <1>0, <1>7, NumberedSame DEF binlogVars, inProcess, inCall, Printed
<1> QED
  BY <1>1, <1>2, <1>3, <1>4, <1>5, <1>6, <1>7 DEF BinlogNext

\* A first start finds no record.
LEMMA NumberedInit == BinlogInit => BinlogInv /\ LogIsThere /\ Numbered
<1> SUFFICES ASSUME BinlogInit PROVE BinlogInv /\ LogIsThere /\ Numbered
  OBVIOUS
<1>1. BinlogInv
  BY InitInv
<1>2. LogIsThere
  BY DEF BinlogInit, BinlogInitWith, LogIsThere, NoLog, SeededLog
<1>3. Printed = <<>>
  <2>1. log.recs = <<>> /\ buf = <<>>
    BY DEF BinlogInit, BinlogInitWith, NoLog, SeededLog
  <2> QED
    BY <2>1, EmptySeq, ConcatEmptySeq DEF Printed
<1>4. Numbered
  BY <1>3 DEF Numbered, LoggedOnce, BinlogInit, BinlogInitWith
<1> QED
  BY <1>1, <1>2, <1>4

\* Whichever thread's fflush carries a record into the file, it is there once,
\* over any number of crashes, failed flushes and restarts.
THEOREM NothingIsLoggedTwice == BinlogSpec => []LoggedOnce
<1>1. BinlogInit => BinlogInv /\ LogIsThere /\ Numbered
  BY NumberedInit
<1>2. BinlogInv /\ LogIsThere /\ Numbered /\ [BinlogNext]_binlogVars
        => BinlogInv' /\ LogIsThere' /\ Numbered'
  BY StepInv, LogIsThereStep, NumberedNext
<1>3. Numbered => LoggedOnce
  BY DEF Numbered
<1> QED
  BY <1>1, <1>2, <1>3, PTL DEF BinlogSpec

-----------------------------------------------------------------------------
(* What one thread's failed fflush loses of the others.                    *)

\* A step that loses nothing and prints at most what a thread was printing.
LEMMA LostKept ==
    ASSUME BinlogTypeOK, LostApart, lost' \subseteq lost, calls' \in Nat, calls' >= calls,
           \A i \in DOMAIN Printed' :
              \/ \E j \in DOMAIN Printed : Printed'[i] = Printed[j]
              \/ \E t \in Thread : wpc[t] = "print" /\ Printed'[i] = wrec[t],
           \A t \in Thread : wpc'[t] = "print" =>
              \/ wpc[t] = "print" /\ wrec'[t] = wrec[t]
              \/ wrec'[t].id = calls + 1
    PROVE  LostApart'
<1> SUFFICES ASSUME NEW r \in lost'
             PROVE  /\ r.id <= calls'
                    /\ \A i \in DOMAIN Printed' : Printed'[i].id # r.id
                    /\ \A t \in Thread : wpc'[t] = "print" => wrec'[t].id # r.id
  BY DEF LostApart
<1>1. r \in lost /\ r \in Record /\ r.id \in Nat /\ calls \in Nat
  BY DEF BinlogTypeOK, Record
<1>2. r.id <= calls /\ r.id <= calls'
  BY <1>1 DEF LostApart
<1>3. \A i \in DOMAIN Printed' : Printed'[i].id # r.id
  BY <1>1 DEF LostApart
<1>4. \A t \in Thread : wpc'[t] = "print" => wrec'[t].id # r.id
  BY <1>1, <1>2 DEF LostApart
<1> QED
  BY <1>2, <1>3, <1>4

\* A step that prints nothing.
LEMMA LostSame ==
    ASSUME BinlogTypeOK, LostApart, UNCHANGED <<lost, calls>>, Printed' = Printed,
           \A t \in Thread : wpc'[t] = "print" => wpc[t] = "print" /\ wrec'[t] = wrec[t]
    PROVE  LostApart'
<1>1. calls \in Nat
  BY DEF BinlogTypeOK
<1> QED
  BY <1>1, LostKept

\* What a failed fflush loses was printed once, and nobody prints it again.
LEMMA LostByFlush ==
    ASSUME BinlogInv, Numbered, LostApart, NEW t \in Thread, FlushFails(t)
    PROVE  LostApart'
<1>1. PICK n \in 0 .. Len(buf) - 1 :
        /\ lost' = lost \cup (Range(SubSeq(buf, n + 1, Len(buf))) \ {wrec[t]})
        /\ Printed' \in Seq(Record) /\ Len(Printed') = Len(log.recs) + n
        /\ \A i \in 1 .. Len(Printed') : Printed'[i] = Printed[i]
        /\ Range(SubSeq(buf, n + 1, Len(buf)))
             = {Printed[j] : j \in Len(log.recs) + n + 1 .. Len(Printed)}
  BY FlushFailsFacts
<1>2. /\ Len(log.recs) \in Nat /\ Len(buf) \in Nat /\ Printed \in Seq(Record)
      /\ Len(Printed) = Len(log.recs) + Len(buf)
  BY PrintedIsSeq, LenProperties DEF BinlogInv
<1>3. DOMAIN Printed = 1 .. Len(Printed) /\ DOMAIN Printed' = 1 .. Len(log.recs) + n
  BY <1>1, <1>2
<1>4. \A i \in DOMAIN Printed' : i \in DOMAIN Printed /\ Printed'[i] = Printed[i]
  BY <1>1, <1>2, <1>3
<1>5. UNCHANGED <<wrec, calls>> /\ \A u \in Thread : wpc'[u] = "print" => wpc[u] = "print"
  BY DEF FlushFails, Finish, BinlogInv, BinlogTypeOK
<1>6. ASSUME NEW r \in lost', r \notin lost
      PROVE  \E j \in DOMAIN Printed : j \notin DOMAIN Printed' /\ r = Printed[j]
  <2>1. PICK j \in Len(log.recs) + n + 1 .. Len(Printed) : r = Printed[j]
    BY <1>1, <1>6
  <2>2. j \in DOMAIN Printed /\ j \notin DOMAIN Printed'
    BY <1>2, <1>3
  <2> QED
    BY <2>1, <2>2
<1> SUFFICES ASSUME NEW r \in lost'
             PROVE  /\ r.id <= calls
                    /\ \A i \in DOMAIN Printed' : Printed'[i].id # r.id
                    /\ \A u \in Thread : wpc'[u] = "print" => wrec[u].id # r.id
  BY <1>5 DEF LostApart
<1>7. CASE r \in lost
  BY <1>4, <1>5, <1>7 DEF LostApart
<1>8. CASE r \notin lost
  <2>1. PICK j \in DOMAIN Printed : j \notin DOMAIN Printed' /\ r = Printed[j]
    BY <1>6, <1>8
  <2>2. r.id <= calls
    BY <2>1 DEF Numbered
  <2>3. \A i \in DOMAIN Printed' : Printed'[i].id # r.id
    BY <1>4, <2>1 DEF Numbered, LoggedOnce
  <2>4. \A u \in Thread : wpc'[u] = "print" => wrec[u].id # r.id
    BY <1>5, <2>1 DEF Numbered
  <2> QED
    BY <2>2, <2>3, <2>4
<1> QED
  BY <1>7, <1>8

\* Every step keeps what is lost apart from the file.
LEMMA LostApartStep ==
    ASSUME BinlogInv, LogIsThere, Numbered, LostApart, [BinlogNext]_binlogVars
    PROVE  LostApart'
<1>0. calls \in Nat /\ wpc \in [Thread -> CallStates] /\ BinlogTypeOK
  BY DEF BinlogInv, BinlogTypeOK
<1>1. CASE Start
  <2>1. log'.recs = log.recs /\ UNCHANGED <<buf, lost, wpc, wrec, calls>>
    BY <1>1 DEF Start, StartOnExistingLog, StartOnNewLog, StartWithoutLog, StartRefused,
                Serving, OpenedLog, EmptyLog, inCall, inProcess, LogIsThere
  <2> QED
    BY <1>0, <2>1, LostSame DEF Printed
<1>2. ASSUME ProcessEnds PROVE LostApart'
  BY <1>2 DEF ProcessEnds, LostApart
<1>3. ASSUME NEW t \in Thread, NEW op \in Op, NEW path \in Path, BinlogCall(t, op, path)
      PROVE  LostApart'
  <2>1. Printed' = Printed /\ calls' = calls + 1 /\ lost' = lost
    BY <1>3 DEF BinlogCall, Called, inProcess, Printed
  <2>2. /\ wrec'[t].id = calls + 1
        /\ \A u \in Thread \ {t} : wpc'[u] = wpc[u] /\ wrec'[u] = wrec[u]
    BY <1>3 DEF BinlogCall, BinlogInv, BinlogTypeOK
  <2>3. \A u \in Thread : wpc'[u] = "print" =>
          \/ wpc[u] = "print" /\ wrec'[u] = wrec[u]
          \/ wrec'[u].id = calls + 1
    BY <2>2
  <2> QED
    BY <1>0, <2>1, <2>3, LostKept
<1>4. ASSUME NEW t \in Thread, PrintRecord(t) \/ PrintFull(t)
      PROVE  LostApart'
  <2>1. Printed' = Append(Printed, wrec[t]) /\ wrec[t] \in Record /\ wpc[t] = "print"
    BY <1>4, PrintedSteps DEF PrintRecord, PrintFull
  <2>2. \A i \in DOMAIN Printed' :
          \/ \E j \in DOMAIN Printed : Printed'[i] = Printed[j]
          \/ \E u \in Thread : wpc[u] = "print" /\ Printed'[i] = wrec[u]
    <3>1. Printed \in Seq(Record)
      BY PrintedIsSeq DEF BinlogInv
    <3>2. \A i \in DOMAIN Printed' : \/ i \in DOMAIN Printed /\ Printed'[i] = Printed[i]
                                     \/ Printed'[i] = wrec[t]
      BY <2>1, <3>1
    <3> QED
      BY <2>1, <3>2
  <2>3. UNCHANGED <<lost, calls, wrec>> /\ \A u \in Thread : wpc'[u] = "print" => wpc[u] = "print"
    BY <1>0, <1>4 DEF PrintRecord, PrintFull
  <2> QED
    BY <1>0, <2>2, <2>3, LostKept
<1>5. ASSUME NEW t \in Thread, Flush(t) PROVE LostApart'
  <2>1. UNCHANGED <<lost, calls, wrec>> /\ \A u \in Thread : wpc'[u] = "print" => wpc[u] = "print"
    BY <1>0, <1>5 DEF Flush
  <2> QED
    BY <1>0, <1>5, <2>1, PrintedSteps, LostSame
<1>6. ASSUME NEW t \in Thread, FlushFails(t) PROVE LostApart'
  BY <1>6, LostByFlush
<1>7. ASSUME NEW t \in Thread,
             LoadSize(t) \/ StoreSize(t) \/ CheckSize(t) \/ RotateFails(t) \/ BinlogReturn(t)
      PROVE  LostApart'
  <2>1. UNCHANGED <<log, buf, lost, calls>>
    BY <1>7 DEF LoadSize, StoreSize, CheckSize, RotateFails, BinlogReturn, inProcess
  <2>2. \A u \in Thread : wpc'[u] = "print" => wpc[u] = "print" /\ wrec'[u] = wrec[u]
    BY <1>0, <1>7 DEF LoadSize, StoreSize, CheckSize, RotateFails, BinlogReturn, Finish, BinlogTypeOK
  <2> QED
    BY <1>0, <2>1, <2>2, LostSame DEF Printed
<1>8. CASE UNCHANGED binlogVars
  BY <1>0, <1>8, LostSame DEF binlogVars, inProcess, inCall, Printed
<1> QED
  BY <1>1, <1>2, <1>3, <1>4, <1>5, <1>6, <1>7, <1>8
     DEF BinlogNext, Crash, BinlogCallDies, BinlogStep, BinlogDies, PrintFails, RotateDies

-----------------------------------------------------------------------------
(* binlog_file_size.                                                       *)

\* The numbers SizeIsBehind compares.
LEMMA SizeNumbers ==
    ASSUME BinlogInv, SizeIsBehind
    PROVE  /\ size \in Nat /\ tmp \in [Thread -> Nat] /\ wpc \in [Thread -> CallStates]
           /\ Len(log.recs) \in Nat /\ Len(buf) \in Nat /\ Len(Printed) \in Nat
           /\ Len(Printed) = Len(log.recs) + Len(buf)
           /\ Cardinality(lost) \in Nat /\ Cardinality(Uncounted) \in Nat
           /\ IsFiniteSet(InFlush) /\ Cardinality(InFlush) \in Nat
           /\ Cardinality(InFlush) <= Cardinality(Uncounted)
           /\ Len(buf) <= Cardinality(InFlush)
           /\ size + Cardinality(Uncounted) <= Len(Printed) + Cardinality(lost)
           /\ \A t \in Thread : wpc[t] = "store" =>
                tmp[t] + Cardinality(Uncounted) <= Len(Printed) + Cardinality(lost)
<1>1. /\ size \in Nat /\ tmp \in [Thread -> Nat] /\ wpc \in [Thread -> CallStates]
      /\ Len(log.recs) \in Nat /\ Len(buf) \in Nat /\ Len(Printed) \in Nat
      /\ Len(Printed) = Len(log.recs) + Len(buf)
  BY PrintedIsSeq, LenProperties DEF BinlogInv, BinlogTypeOK
<1>2. Cardinality(lost) \in Nat /\ Cardinality(Uncounted) \in Nat
  BY FS_CardinalityType DEF SizeIsBehind
<1>3. InFlush \in SUBSET Uncounted
  BY DEF InFlush, Uncounted
<1>4. IsFiniteSet(InFlush) /\ Cardinality(InFlush) <= Cardinality(Uncounted)
  BY <1>3, FS_Subset DEF SizeIsBehind
<1>5. Cardinality(InFlush) \in Nat
  BY <1>4, FS_CardinalityType
<1>6. /\ Len(buf) <= Cardinality(InFlush)
      /\ size + Cardinality(Uncounted) <= Len(Printed) + Cardinality(lost)
      /\ \A t \in Thread : wpc[t] = "store" =>
           tmp[t] + Cardinality(Uncounted) <= Len(Printed) + Cardinality(lost)
  BY DEF SizeIsBehind
<1> QED
  BY <1>1, <1>2, <1>4, <1>5, <1>6

\* A rotation that has begun stays due: the file grows, and so does what is
\* lost.
LEMMA RotationKept ==
    ASSUME BinlogInv, LogIsThere, SizeIsBehind, [BinlogNext]_binlogVars,
           lost \subseteq lost', IsFiniteSet(lost'),
           \A t \in Thread : wpc'[t] = "rotate" => wpc[t] = "rotate"
    PROVE  NoEarlyRotation'
<1>1. Len(log'.recs) \in Nat /\ Len(log'.recs) >= Len(log.recs)
  <2>1. log'.recs \in Seq(Record)
    BY StepInv DEF BinlogInv, BinlogTypeOK
  <2> QED
    BY <2>1, LogGrows, LenProperties
<1>2. Cardinality(lost') \in Nat /\ Cardinality(lost') >= Cardinality(lost)
  BY FS_Subset, FS_CardinalityType
<1>3. ASSUME NEW t \in Thread, wpc'[t] = "rotate"
      PROVE  Len(log'.recs) + Cardinality(lost') >= MaxRecords
  <2>1. Len(log.recs) + Cardinality(lost) >= MaxRecords
    BY <1>3 DEF SizeIsBehind, NoEarlyRotation
  <2>2. Len(log.recs) \in Nat /\ Cardinality(lost) \in Nat /\ MaxRecords \in Nat
    BY SizeNumbers, BinlogAssumption
  <2> QED
    BY <1>1, <1>2, <2>1, <2>2
<1> QED
  BY <1>3 DEF NoEarlyRotation

\* A step that counts nothing and leaves nothing uncounted.
LEMMA SizeSame ==
    ASSUME BinlogInv, LogIsThere, SizeIsBehind, [BinlogNext]_binlogVars,
           UNCHANGED <<size, lost, buf>>, Printed' = Printed,
           \A t \in Thread : /\ wpc'[t] = "flush" <=> wpc[t] = "flush"
                             /\ wpc'[t] \in {"load", "store"} <=> wpc[t] \in {"load", "store"}
                             /\ wpc'[t] = "store" => wpc[t] = "store" /\ tmp'[t] = tmp[t]
                             /\ wpc'[t] = "rotate" => wpc[t] = "rotate"
    PROVE  SizeIsBehind'
<1>1. InFlush' = InFlush /\ Uncounted' = Uncounted
  BY DEF InFlush, Uncounted
<1>2. NoEarlyRotation'
  BY RotationKept DEF SizeIsBehind
<1> QED
  BY <1>1, <1>2 DEF SizeIsBehind

\* A process in which no call runs has counted everything.
LEMMA SizeQuiet ==
    ASSUME buf' = <<>>, lost' = {}, \A t \in Thread : wpc'[t] = "out",
           size' \in Nat, Len(Printed') \in Nat, size' <= Len(Printed')
    PROVE  SizeIsBehind'
<1>1. IsFiniteSet({}) /\ Cardinality({}) = 0
  BY FS_EmptySet
<1>2. InFlush' = {} /\ Uncounted' = {}
  BY DEF InFlush, Uncounted
<1>3. Len(buf') = 0
  BY EmptySeq
<1> QED
  BY <1>1, <1>2, <1>3 DEF SizeIsBehind, NoEarlyRotation

\* A record more is printed, and it is not counted yet.
LEMMA SizePrint ==
    ASSUME BinlogInv, LogIsThere, SizeIsBehind, [BinlogNext]_binlogVars,
           NEW t \in Thread, PrintRecord(t) \/ PrintFull(t)
    PROVE  SizeIsBehind'
<1>1. /\ wpc[t] = "print" /\ wpc' = [wpc EXCEPT ![t] = "flush"]
      /\ UNCHANGED <<size, lost, tmp>>
  BY DEF PrintRecord, PrintFull
<1>2. Len(Printed') = Len(Printed) + 1
  <2>1. Printed \in Seq(Record)
    BY PrintedIsSeq DEF BinlogInv
  <2>2. Printed' = Append(Printed, wrec[t]) /\ wrec[t] \in Record
    BY PrintedSteps
  <2> QED
    BY <2>1, <2>2
<1>3. InFlush' = InFlush \cup {t} /\ Uncounted' = Uncounted \cup {t} /\ t \notin InFlush /\ t \notin Uncounted
  BY <1>1 DEF InFlush, Uncounted, BinlogInv, BinlogTypeOK
<1>4. /\ IsFiniteSet(Uncounted') /\ Cardinality(Uncounted') = Cardinality(Uncounted) + 1
      /\ Cardinality(InFlush') = Cardinality(InFlush) + 1
  BY <1>3, SizeNumbers, FS_AddElement DEF SizeIsBehind
<1>5. Len(buf') \in {Len(buf) + 1, 1}
  <2>1. buf \in Seq(Record) /\ wrec[t] \in Record
    BY PrintedSteps DEF BinlogInv, BinlogTypeOK
  <2> QED
    BY <2>1 DEF PrintRecord, PrintFull
<1>6. Len(buf') \in Nat
  <2>1. buf' \in Seq(Record)
    BY StepInv DEF BinlogInv, BinlogTypeOK
  <2> QED
    BY <2>1, LenProperties
<1>7. Len(buf') <= Cardinality(InFlush')
  <2>1. /\ Len(buf) \in Nat /\ Cardinality(InFlush) \in Nat
        /\ Len(buf) <= Cardinality(InFlush)
    BY SizeNumbers
  <2>2. Cardinality(InFlush') = Cardinality(InFlush) + 1
    BY <1>4
  <2>3. CASE Len(buf') = Len(buf) + 1
    BY <2>1, <2>2, <2>3
  <2>4. CASE Len(buf') = 1
    BY <2>1, <2>2, <2>4
  <2> QED
    BY <1>5, <2>3, <2>4
<1>8. \A u \in Thread : wpc'[u] = "store" => wpc[u] = "store"
  BY <1>1, SizeNumbers
<1>9. size' + Cardinality(Uncounted') <= Len(Printed') + Cardinality(lost')
  BY <1>1, <1>2, <1>4, SizeNumbers
<1>10. \A u \in Thread : wpc'[u] = "store" =>
         tmp'[u] + Cardinality(Uncounted') <= Len(Printed') + Cardinality(lost')
  BY <1>1, <1>2, <1>4, <1>8, SizeNumbers, SMTT(30)
<1>11. NoEarlyRotation'
  BY <1>1, RotationKept, SizeNumbers DEF SizeIsBehind
<1> QED
  BY <1>1, <1>4, <1>7, <1>9, <1>10, <1>11 DEF SizeIsBehind

\* fflush: what was printed is in the file, and still not counted.
LEMMA SizeFlush ==
    ASSUME BinlogInv, LogIsThere, SizeIsBehind, [BinlogNext]_binlogVars,
           NEW t \in Thread, Flush(t)
    PROVE  SizeIsBehind'
<1>1. /\ wpc[t] = "flush" /\ wpc' = [wpc EXCEPT ![t] = "load"] /\ buf' = <<>>
      /\ UNCHANGED <<size, lost, tmp>>
  BY DEF Flush
<1>2. Printed' = Printed
  BY PrintedSteps
<1>3. InFlush' = InFlush \ {t} /\ Uncounted' = Uncounted
  BY <1>1 DEF InFlush, Uncounted, BinlogInv, BinlogTypeOK
<1>4. Len(buf') = 0 /\ Cardinality(InFlush') \in Nat
  BY <1>1, <1>3, SizeNumbers, FS_RemoveElement, FS_CardinalityType, EmptySeq
<1>5. \A u \in Thread : wpc'[u] = "store" => wpc[u] = "store"
  BY <1>1, SizeNumbers
<1>6. NoEarlyRotation'
  BY <1>1, RotationKept, SizeNumbers DEF SizeIsBehind
<1> QED
  BY <1>1, <1>2, <1>3, <1>4, <1>5, <1>6 DEF SizeIsBehind

\* A failed fflush: each record that leaves the buffer is in the file or lost,
\* but for the thread's own, and that thread will not count it.
LEMMA SizeFlushFails ==
    ASSUME BinlogInv, LogIsThere, Numbered, LostApart, SizeIsBehind,
           [BinlogNext]_binlogVars, NEW t \in Thread, FlushFails(t)
    PROVE  SizeIsBehind'
<1>1. /\ wpc[t] = "flush" /\ wpc' = [wpc EXCEPT ![t] = "done"] /\ buf' = <<>>
      /\ UNCHANGED <<size, tmp>>
  BY DEF FlushFails, Finish
<1>2. PICK n \in 0 .. Len(buf) - 1 :
        /\ lost' = lost \cup (Range(SubSeq(buf, n + 1, Len(buf))) \ {wrec[t]})
        /\ Len(Printed') = Len(log.recs) + n
        /\ Range(SubSeq(buf, n + 1, Len(buf)))
             = {Printed[j] : j \in Len(log.recs) + n + 1 .. Len(Printed)}
  BY FlushFailsFacts
<1> DEFINE T == {Printed[j] : j \in Len(log.recs) + n + 1 .. Len(Printed)}
<1> DEFINE J == Len(log.recs) + n + 1 .. Len(Printed)
<1>3. IsFiniteSet(T) /\ Cardinality(T) = Len(buf) - n
  <2> DEFINE f == [j \in J |-> Printed[j]]
  <2>1. IsFiniteSet(J) /\ Cardinality(J) = Len(buf) - n
    <3>1. /\ Len(log.recs) + n + 1 \in Int /\ Len(Printed) \in Int
          /\ ~(Len(log.recs) + n + 1 > Len(Printed))
          /\ Len(Printed) - (Len(log.recs) + n + 1) + 1 = Len(buf) - n
      BY SizeNumbers
    <3> QED
      BY <3>1, FS_Interval
  <2>2. f \in Surjection(J, T)
    BY DEF Surjection
  <2>3. f \in Injection(J, T)
    <3>1. J \subseteq DOMAIN Printed
      <4>1. Printed \in Seq(Record)
        BY PrintedIsSeq DEF BinlogInv
      <4> QED
        BY <4>1, SizeNumbers, SMTT(30)
    <3>2. \A x, y \in J : Printed[x] = Printed[y] => x = y
      BY <3>1 DEF Numbered, LoggedOnce
    <3>3. f \in [J -> T] /\ \A x \in J : f[x] = Printed[x]
      OBVIOUS
    <3> HIDE DEF f, J, T
    <3>4. \A x, y \in J : f[x] = f[y] => x = y
      BY <3>2, <3>3
    <3> QED
      BY <3>3, <3>4, Zenon DEF Injection, IsInjective
  <2> HIDE DEF f, J, T
  <2> QED
    BY <2>1, <2>2, <2>3, FS_Surjection
<1>4. lost \cap T = {}
  <2>1. Printed \in Seq(Record)
    BY PrintedIsSeq DEF BinlogInv
  <2>2. \A j \in Len(log.recs) + n + 1 .. Len(Printed) : j \in DOMAIN Printed
    BY <2>1, SizeNumbers
  <2> QED
    BY <2>2 DEF LostApart
<1> HIDE DEF T, J
<1> DEFINE T1 == T \ {wrec[t]}
<1>5. /\ IsFiniteSet(T1) /\ Cardinality(T1) \in Nat
      /\ Cardinality(T1) >= Len(buf) - n - 1
  <2>1. /\ IsFiniteSet(T1)
        /\ Cardinality(T1) = IF wrec[t] \in T THEN Cardinality(T) - 1 ELSE Cardinality(T)
    BY <1>3, FS_RemoveElement
  <2>2. Cardinality(T1) \in Nat
    BY <2>1, FS_CardinalityType
  <2> QED
    BY <1>3, <2>1, <2>2, SizeNumbers, SMTT(30)
<1>6. lost' = lost \cup T1 /\ lost \cap T1 = {}
  BY <1>2, <1>4 DEF T
<1> HIDE DEF T1
<1>7. /\ IsFiniteSet(lost') /\ Cardinality(lost') \in Nat
      /\ Cardinality(lost') = Cardinality(lost) + Cardinality(T1)
  <2>1. IsFiniteSet(lost)
    BY DEF SizeIsBehind
  <2>2. IsFiniteSet(lost') /\ Cardinality(lost') = Cardinality(lost) + Cardinality(T1) - Cardinality({})
    BY <1>5, <1>6, <2>1, FS_Union
  <2> QED
    BY <1>5, <2>2, FS_EmptySet, SizeNumbers, SMTT(30)
<1>8. InFlush' = InFlush \ {t} /\ Uncounted' = Uncounted \ {t} /\ t \in Uncounted
  BY <1>1 DEF InFlush, Uncounted, BinlogInv, BinlogTypeOK
<1>9. /\ IsFiniteSet(Uncounted') /\ Cardinality(Uncounted') = Cardinality(Uncounted) - 1
      /\ Cardinality(InFlush') \in Nat
  BY <1>8, SizeNumbers, FS_RemoveElement, FS_CardinalityType DEF SizeIsBehind
<1>10. Len(buf') = 0
  BY <1>1, EmptySeq
<1>11. Len(Printed') + Cardinality(lost') >= Len(Printed) + Cardinality(lost) - 1
  <2>1. /\ Len(log.recs) \in Nat /\ Len(buf) \in Nat /\ Cardinality(lost) \in Nat
        /\ Len(Printed) = Len(log.recs) + Len(buf)
    BY SizeNumbers
  <2>2. Len(Printed') = Len(log.recs) + n /\ n \in Int
    BY <1>2
  <2>3. /\ Cardinality(T1) \in Nat /\ Cardinality(T1) >= Len(buf) - n - 1
        /\ Cardinality(lost') = Cardinality(lost) + Cardinality(T1)
    BY <1>5, <1>7
  <2>4. \A r, b, c, x \in Nat : \A m \in Int :
          x >= b - m - 1 => (r + m) + (c + x) >= (r + b) + c - 1
    OBVIOUS
  <2> QED
    BY <2>1, <2>2, <2>3, <2>4
<1>12. Len(Printed') \in Nat
  BY <1>2, SizeNumbers
<1>13. \A u \in Thread : wpc'[u] = "store" => wpc[u] = "store"
  BY <1>1, SizeNumbers
<1>14. NoEarlyRotation'
  BY <1>1, <1>6, <1>7, RotationKept, SizeNumbers DEF SizeIsBehind
<1>15. size' + Cardinality(Uncounted') <= Len(Printed') + Cardinality(lost')
  BY <1>1, <1>7, <1>9, <1>11, <1>12, SizeNumbers, SMTT(30)
<1>16. \A u \in Thread : wpc'[u] = "store" =>
         tmp'[u] + Cardinality(Uncounted') <= Len(Printed') + Cardinality(lost')
  <2> TAKE u \in Thread
  <2> HAVE wpc'[u] = "store"
  <2>1. /\ tmp[u] + Cardinality(Uncounted) <= Len(Printed) + Cardinality(lost)
        /\ tmp[u] \in Nat /\ tmp' = tmp
    BY <1>1, <1>13, SizeNumbers
  <2>2. /\ Cardinality(Uncounted) \in Nat /\ Len(Printed) \in Nat /\ Cardinality(lost) \in Nat
    BY SizeNumbers
  <2> QED
    BY <1>7, <1>9, <1>11, <1>12, <2>1, <2>2, SMTT(30)
<1> QED
  BY <1>7, <1>9, <1>10, <1>14, <1>15, <1>16 DEF SizeIsBehind

\* +=: the load and the store.
LEMMA SizeAdded ==
    ASSUME BinlogInv, LogIsThere, SizeIsBehind, [BinlogNext]_binlogVars,
           NEW t \in Thread, LoadSize(t) \/ StoreSize(t)
    PROVE  SizeIsBehind'
<1>1. UNCHANGED <<log, buf, lost>> /\ Printed' = Printed
  BY DEF LoadSize, StoreSize, inProcess, Printed
<1>2. CASE LoadSize(t)
  <2>1. /\ wpc[t] = "load" /\ wpc' = [wpc EXCEPT ![t] = "store"]
        /\ tmp' = [tmp EXCEPT ![t] = size] /\ size' = size
    BY <1>2 DEF LoadSize, inProcess
  <2>2. InFlush' = InFlush /\ Uncounted' = Uncounted
    BY <2>1, SizeNumbers DEF InFlush, Uncounted
  <2>3. ASSUME NEW u \in Thread, wpc'[u] = "store"
        PROVE  tmp'[u] + Cardinality(Uncounted) <= Len(Printed) + Cardinality(lost)
    <3>1. CASE u = t
      BY <2>1, <3>1, SizeNumbers
    <3>2. CASE u # t
      BY <2>1, <2>3, <3>2, SizeNumbers
    <3> QED
      BY <3>1, <3>2
  <2>4. NoEarlyRotation'
    BY <1>1, <2>1, RotationKept, SizeNumbers DEF SizeIsBehind
  <2> QED
    BY <1>1, <2>1, <2>2, <2>3, <2>4 DEF SizeIsBehind
<1>3. CASE StoreSize(t)
  <2>1. /\ wpc[t] = "store" /\ wpc' = [wpc EXCEPT ![t] = "check"]
        /\ size' = tmp[t] + 1 /\ tmp' = tmp
    BY <1>3 DEF StoreSize
  <2>2. InFlush' = InFlush /\ Uncounted' = Uncounted \ {t} /\ t \in Uncounted
    BY <2>1, SizeNumbers DEF InFlush, Uncounted
  <2>3. IsFiniteSet(Uncounted') /\ Cardinality(Uncounted') = Cardinality(Uncounted) - 1
    BY <2>2, FS_RemoveElement DEF SizeIsBehind
  <2>4. tmp[t] + Cardinality(Uncounted) <= Len(Printed) + Cardinality(lost) /\ tmp[t] \in Nat
    BY <2>1, SizeNumbers
  <2>5. size' + Cardinality(Uncounted') <= Len(Printed) + Cardinality(lost)
    BY <2>1, <2>3, <2>4, SizeNumbers
  <2>6. \A u \in Thread : wpc'[u] = "store" =>
          tmp'[u] + Cardinality(Uncounted') <= Len(Printed) + Cardinality(lost)
    <3> TAKE u \in Thread
    <3> HAVE wpc'[u] = "store"
    <3>1. wpc[u] = "store" /\ tmp'[u] = tmp[u]
      BY <2>1, SizeNumbers
    <3>2. tmp[u] + Cardinality(Uncounted) <= Len(Printed) + Cardinality(lost)
      BY <3>1, SizeNumbers
    <3>3. /\ tmp[u] \in Nat /\ Cardinality(Uncounted) \in Nat
          /\ Len(Printed) \in Nat /\ Cardinality(lost) \in Nat
      BY SizeNumbers
    <3> QED
      BY <2>3, <3>1, <3>2, <3>3
  <2>7. NoEarlyRotation'
    BY <1>1, <2>1, RotationKept, SizeNumbers DEF SizeIsBehind
  <2> QED
    BY <1>1, <2>2, <2>3, <2>5, <2>6, <2>7 DEF SizeIsBehind
<1> QED
  BY <1>2, <1>3

\* The comparison with SYNC_BINLOG_FILE_MAX_SIZE: the size is not ahead of the
\* file, for what is in the buffer is not counted.
LEMMA SizeChecked ==
    ASSUME BinlogInv, LogIsThere, SizeIsBehind, [BinlogNext]_binlogVars,
           NEW t \in Thread, CheckSize(t)
    PROVE  SizeIsBehind'
<1>1. UNCHANGED <<log, buf, lost, size, tmp>> /\ Printed' = Printed
  BY DEF CheckSize, inProcess, Printed
<1>2. PICK to \in {"rotate", "done"} :
        /\ wpc[t] = "check" /\ wpc' = [wpc EXCEPT ![t] = to]
        /\ to = "rotate" => size >= MaxRecords
  BY DEF CheckSize, Finish
<1>3. InFlush' = InFlush /\ Uncounted' = Uncounted
  BY <1>2, SizeNumbers DEF InFlush, Uncounted
<1>4. \A u \in Thread : wpc'[u] = "store" => wpc[u] = "store"
  BY <1>2, SizeNumbers
<1>5. to = "rotate" => Len(log.recs) + Cardinality(lost) >= MaxRecords
  BY <1>2, SizeNumbers, BinlogAssumption
<1>6. NoEarlyRotation'
  BY <1>1, <1>2, <1>5, SizeNumbers DEF SizeIsBehind, NoEarlyRotation
<1> QED
  BY <1>1, <1>3, <1>4, <1>6 DEF SizeIsBehind

\* A process that ends forgets what it has lost.
LEMMA LostOnlyWhileUpStep ==
    ASSUME BinlogInv, LostOnlyWhileUp, [BinlogNext]_binlogVars
    PROVE  LostOnlyWhileUp'
<1>1. CASE Start
  BY <1>1 DEF Start, StartOnExistingLog, StartOnNewLog, StartWithoutLog, StartRefused, Serving,
              inProcess, LostOnlyWhileUp
<1>2. ASSUME ProcessEnds PROVE LostOnlyWhileUp'
  BY <1>2 DEF ProcessEnds, LostOnlyWhileUp
<1>3. ASSUME NEW t \in Thread, NEW op \in Op, NEW path \in Path, BinlogCall(t, op, path)
      PROVE  LostOnlyWhileUp'
  BY <1>3 DEF BinlogCall, inProcess, LostOnlyWhileUp
<1>4. ASSUME NEW t \in Thread, BinlogStep(t) \/ BinlogReturn(t) PROVE LostOnlyWhileUp'
  <2>1. wpc[t] # "out" /\ up' = up
    BY <1>4 DEF BinlogStep, BinlogReturn, PrintRecord, PrintFull, Flush, FlushFails, LoadSize,
                StoreSize, CheckSize, RotateFails, inProcess
  <2> QED
    BY <2>1 DEF BinlogInv, InCallHasRecord, LostOnlyWhileUp
<1>5. CASE UNCHANGED binlogVars
  BY <1>5 DEF binlogVars, inProcess, LostOnlyWhileUp
<1> QED
  BY <1>1, <1>2, <1>3, <1>4, <1>5
     DEF BinlogNext, Crash, BinlogCallDies, BinlogDies, PrintFails, RotateDies

\* Every step keeps the size behind the file.
LEMMA SizeStep ==
    ASSUME BinlogInv, LogIsThere, Numbered, LostApart, LostOnlyWhileUp, SizeIsBehind,
           [BinlogNext]_binlogVars
    PROVE  SizeIsBehind'
<1>1. CASE Start
  <2>1. CASE StartRefused
    <3>1. log'.recs = log.recs /\ UNCHANGED <<buf, lost, wpc, size, tmp>>
      BY <2>1 DEF StartRefused, OpenedLog, EmptyLog, inProcess, inCall, LogIsThere
    <3> QED
      BY <3>1, SizeSame DEF Printed
  <2>2. CASE StartOnExistingLog \/ StartOnNewLog \/ StartWithoutLog
    <3>1. ~up /\ log'.recs = log.recs /\ UNCHANGED <<buf, lost, wpc>>
          /\ size' \in {0, Len(log.recs)}
      BY <2>2 DEF StartOnExistingLog, StartOnNewLog, StartWithoutLog, Serving, OpenedLog,
                  EmptyLog, inCall, LogIsThere
    <3>2. \A t \in Thread : wpc[t] = "out"
      BY <3>1 DEF BinlogInv, InCallHasRecord
    <3>3. buf = <<>>
      <4>1. buf \in Seq(Record)
        BY DEF BinlogInv, BinlogTypeOK
      <4>2. DOMAIN buf = {}
        BY <3>2 DEF BinlogInv, BufferedOnlyInCall
      <4> QED
        BY <4>1, <4>2, EmptySeq
    <3>4. lost = {}
      BY <3>1 DEF LostOnlyWhileUp
    <3>5. Printed' = Printed
      BY <3>1 DEF Printed
    <3> QED
      BY <3>1, <3>2, <3>3, <3>4, <3>5, SizeNumbers, SizeQuiet
  <2> QED
    BY <1>1, <2>1, <2>2 DEF Start
<1>2. ASSUME ProcessEnds PROVE SizeIsBehind'
  <2>1. Len(Printed') \in Nat
    <3>1. Printed' \in Seq(Record)
      BY StepInv, PrintedIsSeq DEF BinlogInv, BinlogTypeOK, Printed
    <3> QED
      BY <3>1, LenProperties
  <2> QED
    BY <1>2, <2>1, SizeQuiet DEF ProcessEnds
<1>3. ASSUME NEW t \in Thread, NEW op \in Op, NEW path \in Path, BinlogCall(t, op, path)
      PROVE  SizeIsBehind'
  <2>1. UNCHANGED <<size, lost, buf, tmp>> /\ Printed' = Printed
    BY <1>3 DEF BinlogCall, inProcess, Printed
  <2>2. \E to \in {"print", "done"} : wpc[t] = "out" /\ wpc' = [wpc EXCEPT ![t] = to]
    BY <1>3 DEF BinlogCall, Called
  <2> QED
    BY <2>1, <2>2, SizeSame, SizeNumbers
<1>4. ASSUME NEW t \in Thread, RotateFails(t) PROVE SizeIsBehind'
  <2>1. /\ wpc[t] = "rotate" /\ wpc' = [wpc EXCEPT ![t] = "done"] /\ size' = 0
        /\ UNCHANGED <<log, buf, lost, tmp>> /\ Printed' = Printed
    BY <1>4 DEF RotateFails, Finish, Printed
  <2>2. InFlush' = InFlush /\ Uncounted' = Uncounted
    BY <2>1, SizeNumbers DEF InFlush, Uncounted
  <2>3. \A u \in Thread : wpc'[u] \in {"store", "rotate"} => wpc[u] = wpc'[u]
    BY <2>1, SizeNumbers
  <2>4. NoEarlyRotation'
    BY <2>1, <2>3, RotationKept DEF SizeIsBehind
  <2>5. size' + Cardinality(Uncounted) <= Len(Printed) + Cardinality(lost)
    BY <2>1, SizeNumbers
  <2> QED
    BY <2>1, <2>2, <2>3, <2>4, <2>5 DEF SizeIsBehind
<1>5. ASSUME NEW t \in Thread, BinlogReturn(t) PROVE SizeIsBehind'
  <2>1. /\ wpc[t] = "done" /\ wpc' = [wpc EXCEPT ![t] = "out"]
        /\ tmp' = [tmp EXCEPT ![t] = 0]
        /\ UNCHANGED <<size, lost, buf>> /\ Printed' = Printed
    BY <1>5 DEF BinlogReturn, inProcess, Printed
  <2>2. \A u \in Thread : u # t => wpc'[u] = wpc[u] /\ tmp'[u] = tmp[u]
    BY <2>1, SizeNumbers
  <2>3. wpc'[t] = "out"
    BY <2>1, SizeNumbers
  <2>4. \A u \in Thread : /\ wpc'[u] = "flush" <=> wpc[u] = "flush"
                          /\ wpc'[u] \in {"load", "store"} <=> wpc[u] \in {"load", "store"}
                          /\ wpc'[u] = "store" => wpc[u] = "store" /\ tmp'[u] = tmp[u]
                          /\ wpc'[u] = "rotate" => wpc[u] = "rotate"
    BY <2>1, <2>2, <2>3
  <2> QED
    BY <2>1, <2>4, SizeSame
<1>6. CASE UNCHANGED binlogVars
  BY <1>6, SizeSame DEF binlogVars, inProcess, inCall, Printed
<1>7. ASSUME NEW t \in Thread, BinlogStep(t) PROVE SizeIsBehind'
  BY <1>4, <1>7, SizePrint, SizeFlush, SizeFlushFails, SizeAdded, SizeChecked DEF BinlogStep
<1> QED
  BY <1>1, <1>2, <1>3, <1>5, <1>6, <1>7
     DEF BinlogNext, Crash, BinlogCallDies, BinlogDies, PrintFails, RotateDies

\* The unlocked += on binlog_file_size can lose additions, with any number of
\* threads, and never makes the size larger than the file and what is lost: a
\* rotation never begins before SYNC_BINLOG_FILE_MAX_SIZE is reached.
THEOREM RotationsAreDue == BinlogSpec => []NoEarlyRotation
<1>1. BinlogInit => LostApart /\ LostOnlyWhileUp /\ SizeIsBehind
  <2> SUFFICES ASSUME BinlogInit PROVE LostApart /\ LostOnlyWhileUp /\ SizeIsBehind
    OBVIOUS
  <2>1. LostApart /\ LostOnlyWhileUp
    BY DEF BinlogInit, BinlogInitWith, LostApart, LostOnlyWhileUp
  <2>2. /\ size = 0 /\ lost = {} /\ buf = <<>> /\ \A t \in Thread : wpc[t] = "out"
        /\ InFlush = {} /\ Uncounted = {}
    BY DEF BinlogInit, BinlogInitWith, InFlush, Uncounted
  <2>3. IsFiniteSet({}) /\ Cardinality({}) = 0 /\ Len(<<>>) = 0
    BY FS_EmptySet, EmptySeq
  <2>4. Len(Printed) \in Nat
    BY InitInv, PrintedIsSeq, LenProperties DEF BinlogInv
  <2> QED
    BY <2>1, <2>2, <2>3, <2>4 DEF SizeIsBehind, NoEarlyRotation
<1>2. BinlogInit => BinlogInv /\ LogIsThere /\ Numbered
  BY NumberedInit
<1>3. BinlogInv /\ LogIsThere /\ Numbered /\ LostApart /\ LostOnlyWhileUp /\ SizeIsBehind
        /\ [BinlogNext]_binlogVars
          => BinlogInv' /\ LogIsThere' /\ Numbered' /\ LostApart' /\ LostOnlyWhileUp' /\ SizeIsBehind'
  BY StepInv, LogIsThereStep, NumberedNext, LostApartStep, LostOnlyWhileUpStep, SizeStep
<1>4. SizeIsBehind => NoEarlyRotation
  BY DEF SizeIsBehind
<1> QED
  BY <1>1, <1>2, <1>3, <1>4, PTL DEF BinlogSpec

-----------------------------------------------------------------------------
(* Binlog implements AppendLog: every step of storage_binlog_write, of a      *)
(* start and of an end of the process is a step of the abstract log or        *)
(* changes nothing that it shows.                                          *)

\* What the simulation needs of a state.
Ready ==
    /\ BinlogInv
    /\ LogIsThere
    /\ Numbered
    /\ LostApart
    /\ calls <= MaxCalls

\* What the abstract log sees of the threads.
CallOf(t) == [state |-> StateOf(t), rec |-> wrec[t]]
Calls     == [t \in Thread |-> CallOf(t)]

-----------------------------------------------------------------------------
(* The two vocabularies.                                                   *)

LEMMA SameRange == \A f : Log!Range(f) = Range(f)
BY DEF Log!Range, Range

\* An open call is one between its start and its return.
LEMMA OpenCalls ==
    ASSUME Ready, NEW t \in Thread
    PROVE  /\ Log!Open(t) <=> wpc[t] \notin {"out", "done"}
           /\ Log!Idle(t) <=> wpc[t] = "out"
<1>1. wres[t] \in {"ok", "err"}
  BY DEF Ready, BinlogInv, BinlogTypeOK
<1> QED
  BY <1>1 DEF Log!Open, Log!Idle, StateOf

\* The records of a live call, of the log and of the lost ones have numbers
\* that calls was at, so the next call's is new.
LEMMA NumbersAreUsed ==
    ASSUME Ready
    PROVE  /\ log.recs \in Seq(Record) /\ buf \in Seq(Record) /\ Printed \in Seq(Record)
           /\ Range(log.recs) \subseteq Range(Printed) /\ Range(buf) \subseteq Range(Printed)
           /\ calls \in Nat
           /\ \A r \in Range(Printed) \cup lost : r \in Record /\ r.id <= calls
           /\ \A r \in Range(Printed) : r \notin lost
<1>1. /\ log.recs \in Seq(Record) /\ buf \in Seq(Record) /\ Printed \in Seq(Record)
      /\ calls \in Nat /\ lost \subseteq Record
  BY PrintedIsSeq DEF Ready, BinlogInv, BinlogTypeOK
<1>2. Range(Printed) = Range(log.recs) \cup Range(buf)
  BY <1>1, RangeConcatenation, ZenonT(30) DEF Printed
<1>3. \A i \in DOMAIN Printed : Printed[i] \in Record
  BY <1>1
<1>4. \A r \in Range(Printed) : r \in Record /\ r.id <= calls /\ r \notin lost
  BY <1>3 DEF Range, Ready, Numbered, LostApart
<1> QED
  BY <1>1, <1>2, <1>4 DEF Ready, LostApart

-----------------------------------------------------------------------------
(* Steps that write.                                                       *)

\* What is in the buffer belongs to open calls, and is nowhere else.
LEMMA BufferWaits ==
    ASSUME Ready, NEW k \in 1 .. Len(buf)
    PROVE  \E u \in Thread : /\ u \in Log!Waiting
                             /\ wpc[u] = "flush"
                             /\ wrec[u] = buf[k]
<1>1. /\ log.recs \in Seq(Record) /\ buf \in Seq(Record) /\ Printed \in Seq(Record)
      /\ Len(Printed) = Len(log.recs) + Len(buf)
      /\ Len(log.recs) \in Nat /\ Len(buf) \in Nat
  BY PrintedIsSeq, LenProperties DEF Ready, BinlogInv
<1>2. PICK u \in Thread : wpc[u] = "flush" /\ wrec[u] = buf[k]
  BY <1>1 DEF Ready, BinlogInv, BufferedOnlyInCall
<1>3. /\ Len(log.recs) + k \in DOMAIN Printed
      /\ Printed[Len(log.recs) + k] = buf[k]
  BY <1>1 DEF Printed
<1>4. buf[k] \notin Range(log.recs)
  <2> SUFFICES ASSUME NEW i \in DOMAIN log.recs, log.recs[i] = buf[k]
               PROVE  FALSE
    BY Zenon DEF Range
  <2>0. i \in 1 .. Len(log.recs)
    BY <1>1
  <2>1. i \in DOMAIN Printed /\ Printed[i] = buf[k]
    BY <1>1, <2>0, PrintedIsSeq DEF Ready, BinlogInv
  <2>2. i = Len(log.recs) + k
    BY <1>3, <2>1 DEF Ready, Numbered, LoggedOnce
  <2> QED
    BY <1>1, <2>0, <2>2
<1>5. buf[k] \notin lost
  BY <1>3 DEF Ready, LostApart
<1>6. Log!Open(u)
  BY <1>2, OpenCalls
<1>7. u \in Log!Waiting
  BY <1>2, <1>4, <1>5, <1>6, SameRange DEF Log!Waiting
<1> QED
  BY <1>2, <1>7

\* Writing out a part of the buffer is what Grows allows.
LEMMA WritingGrows ==
    ASSUME Ready, NEW x \in Seq(Record), Len(x) <= Len(buf),
           \A k \in 1 .. Len(x) : x[k] = buf[k],
           log' = [log EXCEPT !.recs = @ \o x]
    PROVE  Log!Grows
<1>1. /\ log.recs \in Seq(Record) /\ buf \in Seq(Record) /\ Printed \in Seq(Record)
      /\ Len(Printed) = Len(log.recs) + Len(buf)
      /\ Len(log.recs) \in Nat /\ Len(buf) \in Nat /\ Len(x) \in Nat
      /\ log \in [exists : BOOLEAN, seed : BOOLEAN, recs : Seq(Record)]
  BY PrintedIsSeq, LenProperties DEF Ready, BinlogInv, BinlogTypeOK
<1> DEFINE n == Len(log.recs)
<1>2. log'.recs = log.recs \o x
  BY <1>1
<1>3. Len(log'.recs) = n + Len(x) /\ SubSeq(log'.recs, 1, n) = log.recs
  BY <1>1, <1>2, ConcatKeepsPrefix
<1>4. \A i \in n + 1 .. Len(log'.recs) :
        /\ i \in DOMAIN Printed /\ log'.recs[i] = Printed[i]
        /\ i - n \in 1 .. Len(buf) /\ log'.recs[i] = buf[i - n]
  <2> TAKE i \in n + 1 .. Len(log'.recs)
  <2>1. i - n \in 1 .. Len(x) /\ i - n \in 1 .. Len(buf) /\ i \in 1 .. Len(Printed)
    BY <1>1, <1>3
  <2>2. log'.recs[i] = x[i - n]
    BY <1>1, <1>2, <1>3, <2>1
  <2>3. Printed[i] = buf[i - n]
    BY <1>1, <2>1 DEF Printed
  <2> QED
    BY <1>1, <2>1, <2>2, <2>3
<1>5. \A i \in n + 1 .. Len(log'.recs) : \E u \in Log!Waiting : wrec[u] = log'.recs[i]
  <2> TAKE i \in n + 1 .. Len(log'.recs)
  <2>1. i - n \in 1 .. Len(buf) /\ log'.recs[i] = buf[i - n]
    BY <1>4
  <2> HIDE DEF n
  <2>2. \A k \in 1 .. Len(buf) : \E u \in Log!Waiting : wrec[u] = buf[k]
    BY BufferWaits
  <2> QED
    BY <2>1, <2>2
<1>6. {log'.recs[i] : i \in n + 1 .. Len(log'.recs)} \subseteq {Calls[u].rec : u \in Log!Waiting}
  <2>1. \A u \in Log!Waiting : u \in Thread /\ Calls[u].rec = wrec[u]
    BY DEF Log!Waiting, Calls, CallOf
  <2> QED
    BY <1>5, <2>1
<1>7. \A i, j \in n + 1 .. Len(log'.recs) : log'.recs[i] = log'.recs[j] => i = j
  <2> TAKE i, j \in n + 1 .. Len(log'.recs)
  <2>1. /\ i \in DOMAIN Printed /\ log'.recs[i] = Printed[i]
        /\ j \in DOMAIN Printed /\ log'.recs[j] = Printed[j]
    BY <1>4
  <2> QED
    BY <2>1, Zenon DEF Ready, Numbered, LoggedOnce
<1>8. Len(log'.recs) >= n
  BY <1>1, <1>3
<1> QED
  BY <1>3, <1>6, <1>7, <1>8, Zenon DEF Log!Grows, Calls, CallOf

\* So is a write that fails after the first n records.
LEMMA PartGrows ==
    ASSUME Ready, NEW n \in 0 .. Len(buf) - 1,
           log' = [log EXCEPT !.recs = @ \o SubSeq(buf, 1, n)]
    PROVE  Log!Grows
<1>1. buf \in Seq(Record) /\ Len(buf) \in Nat
  BY LenProperties DEF Ready, BinlogInv, BinlogTypeOK
<1> DEFINE x == SubSeq(buf, 1, n)
<1>2. x \in Seq(Record) /\ Len(x) = n /\ \A k \in 1 .. Len(x) : x[k] = buf[k]
  BY <1>1, SubSeqProperties
<1>3. Len(x) <= Len(buf)
  BY <1>1, <1>2
<1>4. log' = [log EXCEPT !.recs = @ \o x]
  OBVIOUS
<1> HIDE DEF x
<1> QED
  BY <1>2, <1>3, <1>4, WritingGrows

\* fflush, and fprintf when the buffer is full.
LEMMA SaveStep ==
    ASSUME Ready, NEW t \in Thread, PrintFull(t) \/ Flush(t)
    PROVE  Log!Save
<1>1. buf \in Seq(Record) /\ Len(buf) \in Nat
  BY LenProperties DEF Ready, BinlogInv, BinlogTypeOK
<1>2. /\ log' = [log EXCEPT !.recs = @ \o buf]
      /\ UNCHANGED <<lost, wrec, wres>>
      /\ wpc[t] \in {"print", "flush"}
      /\ \E to \in {"flush", "load"} : wpc' = [wpc EXCEPT ![t] = to]
  BY DEF PrintFull, Flush
<1>3. Log!Grows
  BY <1>1, <1>2, WritingGrows, SMTT(30)
<1>4. \A u \in Thread : StateOf(u)' = StateOf(u)
  BY <1>2 DEF StateOf, Ready, BinlogInv, BinlogTypeOK
<1>5. [u \in Thread |-> [state |-> StateOf(u), rec |-> wrec[u]]]'
        = [u \in Thread |-> [state |-> StateOf(u), rec |-> wrec[u]]]
  BY <1>2, <1>4
<1> QED
  BY <1>2, <1>3, <1>5 DEF Log!Save

-----------------------------------------------------------------------------
(* Steps that write nothing.                                               *)

\* The types of what the abstract log sees of a thread.
LEMMA CallTypes ==
    ASSUME Ready
    PROVE  /\ wpc \in [Thread -> CallStates]
           /\ wrec \in [Thread -> Record \cup {NoRecord}]
           /\ wres \in [Thread -> {"ok", "err"}]
BY DEF Ready, BinlogInv, BinlogTypeOK

LEMMA SameCalls ==
    ASSUME UNCHANGED wrec, \A u \in Thread : StateOf(u)' = StateOf(u)
    PROVE  Calls' = Calls
BY DEF Calls, CallOf

LEMMA StartStep ==
    ASSUME Ready, Start
    PROVE  UNCHANGED Log!vars
<1>1. log'.recs = log.recs /\ lost' = lost /\ wrec' = wrec /\ wpc' = wpc /\ wres' = wres
  BY DEF Start, StartOnExistingLog, StartOnNewLog, StartWithoutLog, StartRefused, Serving,
         OpenedLog, EmptyLog, inCall, inProcess, LogIsThere, Ready
<1>2. Calls' = Calls
  BY <1>1, SameCalls DEF StateOf
<1> QED
  BY <1>1, <1>2 DEF Log!vars, Calls, CallOf

\* The steps before the call is decided that write nothing.
LEMMA SilentSteps ==
    ASSUME Ready, NEW t \in Thread,
           \/ PrintRecord(t) \/ LoadSize(t) \/ StoreSize(t)
           \/ CheckSize(t) /\ wpc'[t] = "rotate"
    PROVE  UNCHANGED Log!vars
<1>1. log' = log /\ lost' = lost /\ wrec' = wrec
  BY DEF inProcess, PrintRecord, LoadSize, StoreSize, CheckSize
<1>2. \A u \in Thread : StateOf(u)' = StateOf(u)
  <2>1. CASE PrintRecord(t) \/ LoadSize(t) \/ StoreSize(t)
    BY <2>1, CallTypes DEF PrintRecord, LoadSize, StoreSize, StateOf
  <2>2. CASE CheckSize(t) /\ wpc'[t] = "rotate"
    BY <2>2, CallTypes DEF CheckSize, Finish, StateOf
  <2> QED
    BY <2>1, <2>2
<1>3. Calls' = Calls
  BY <1>1, <1>2, SameCalls
<1> QED
  BY <1>1, <1>3 DEF Log!vars, Calls, CallOf

\* A call begins: its number is new.
LEMMA BeginStep ==
    ASSUME Ready, NEW t \in Thread, NEW op \in Op, NEW path \in Path,
           BinlogCall(t, op, path)
    PROVE  \E r \in CallRecord, s \in {"open", "err"} : Log!Begin(t, r, s)
<1> DEFINE r == [id |-> calls + 1, op |-> op, path |-> path]
<1>1. /\ wpc[t] = "out" /\ wrec' = [wrec EXCEPT ![t] = r]
      /\ UNCHANGED <<log, lost>>
      /\ \/ wpc' = [wpc EXCEPT ![t] = "print"] /\ wres' = wres
         \/ wpc' = [wpc EXCEPT ![t] = "done"] /\ wres' = [wres EXCEPT ![t] = "err"]
  BY DEF BinlogCall, Called, inProcess
<1>2. r \in CallRecord
  BY NumbersAreUsed, BinlogAssumption DEF CallRecord, BinlogCall, Called
<1>3. PICK s \in {"open", "err"} : StateOf(t)' = s
  BY <1>1, CallTypes DEF StateOf
<1>4. \A u \in Thread \ {t} : StateOf(u)' = StateOf(u) /\ wrec'[u] = wrec[u]
  BY <1>1, CallTypes DEF StateOf
<1>5. \A q \in Range(log.recs) \cup lost : q.id # r.id
  BY NumbersAreUsed
<1>6. \A u \in Thread : ~Log!Idle(u) => Calls[u].rec.id # r.id
  <2> TAKE u \in Thread
  <2> HAVE ~Log!Idle(u)
  <2>1. wpc[u] # "out"
    BY OpenCalls
  <2>2. wrec[u] \in Record /\ wrec[u].id <= calls /\ calls \in Nat
    BY <2>1, NumbersAreUsed DEF Ready, BinlogInv, InCallHasRecord
  <2> QED
    BY <2>2 DEF Calls, CallOf, Record
<1>7. r \notin Log!Range(log.recs) \cup lost \cup {Calls[d].rec : d \in {e \in Thread : ~Log!Idle(e)}}
  BY <1>5, <1>6, SameRange
<1>8. Calls' = [Calls EXCEPT ![t] = [state |-> s, rec |-> r]]
  <2>1. wrec'[t] = r
    BY <1>1, CallTypes
  <2> HIDE DEF r
  <2> QED
    BY <1>3, <1>4, <2>1 DEF Calls, CallOf
<1>9. Log!Idle(t)
  BY <1>1, OpenCalls
<1>10. Log!Begin(t, r, s)
  <2> HIDE DEF r
  <2> QED
    BY <1>1, <1>7, <1>8, <1>9, Zenon DEF Log!Begin, Calls, CallOf
<1> QED
  BY <1>2, <1>3, <1>10

\* A call is decided.
LEMMA DecideStep ==
    ASSUME Ready, NEW t \in Thread,
           \/ CheckSize(t) /\ wpc'[t] # "rotate"
           \/ RotateFails(t)
    PROVE  Log!Decide(t)
<1>1. /\ wpc[t] \in {"check", "rotate"}
      /\ UNCHANGED <<log, lost, wrec>>
      /\ wpc' = [wpc EXCEPT ![t] = "done"]
      /\ \E r \in {"ok", "err"} : wres' = [wres EXCEPT ![t] = r]
  BY CallTypes DEF CheckSize, RotateFails, Finish, inProcess
<1>2. PICK r \in {"ok", "err"} : wres' = [wres EXCEPT ![t] = r]
  BY <1>1
<1>3. StateOf(t)' = r
  BY <1>1, <1>2, CallTypes DEF StateOf
<1>4. \A u \in Thread \ {t} : StateOf(u)' = StateOf(u)
  BY <1>1, <1>2, CallTypes DEF StateOf
<1>5. Calls' = [Calls EXCEPT ![t].state = r]
  BY <1>1, <1>3, <1>4 DEF Calls, CallOf
<1>6. wrec[t] \in Range(log.recs) \cup lost
  BY <1>1 DEF Ready, BinlogInv, Accounted, Flushed
<1>7. t \notin Log!Waiting
  BY <1>6, SameRange DEF Log!Waiting
<1>8. Log!Open(t)
  BY <1>1, OpenCalls
<1>9. CASE r = "err"
  BY <1>1, <1>5, <1>8, <1>9, Zenon DEF Log!Decide, Calls, CallOf
<1>10. CASE r = "ok"
  BY <1>1, <1>5, <1>7, <1>8, <1>10, Zenon DEF Log!Decide, Calls, CallOf
<1> QED
  BY <1>9, <1>10

\* A call returns.
LEMMA ReturnStep ==
    ASSUME Ready, NEW t \in Thread, BinlogReturn(t)
    PROVE  Log!Return(t)
<1>1. /\ wpc[t] = "done" /\ wpc' = [wpc EXCEPT ![t] = "out"]
      /\ \A u \in Thread \ {t} : wres'[u] = wres[u] /\ wrec'[u] = wrec[u]
      /\ UNCHANGED <<log, lost>>
  BY CallTypes DEF BinlogReturn, inProcess
<1>2. StateOf(t) \in {"ok", "err"} /\ StateOf(t)' = "none"
  BY <1>1, CallTypes DEF StateOf
<1>3. \A u \in Thread \ {t} : StateOf(u)' = StateOf(u) /\ wrec'[u] = wrec[u]
  BY <1>1, CallTypes DEF StateOf
<1> QED
  BY <1>1, <1>2, <1>3 DEF Log!Return

\* The process ends, however it comes.
LEMMA DieStep ==
    ASSUME Ready, ProcessEnds, EndLeaves
    PROVE  Log!Die
<1>1. \A u \in Thread : StateOf(u)' = "none"
  BY DEF ProcessEnds, StateOf
<1>2. Log!Grows
  <2>1. /\ log \in [exists : BOOLEAN, seed : BOOLEAN, recs : Seq(Record)]
        /\ buf \in Seq(Record) /\ Len(buf) \in Nat
    BY LenProperties DEF Ready, BinlogInv, BinlogTypeOK
  <2>2. CASE log' = log
    <3> DEFINE x == <<>>
    <3>1. x \in Seq(Record) /\ Len(x) = 0 /\ log.recs \o x = log.recs
      BY <2>1, EmptySeq, ConcatEmptySeq
    <3> HIDE DEF x
    <3>2. log' = [log EXCEPT !.recs = @ \o x]
      BY <2>1, <2>2, <3>1
    <3>3. Len(x) <= Len(buf) /\ \A k \in 1 .. Len(x) : x[k] = buf[k]
      BY <2>1, <3>1
    <3> QED
      BY <3>1, <3>2, <3>3, WritingGrows, Zenon
  <2>3. CASE \E n \in 0 .. Len(buf) - 1 : log' = [log EXCEPT !.recs = @ \o SubSeq(buf, 1, n)]
    <3>1. PICK n \in 0 .. Len(buf) - 1 : log' = [log EXCEPT !.recs = @ \o SubSeq(buf, 1, n)]
      BY <2>3
    <3> QED
      BY <3>1, PartGrows
  <2> QED
    BY <2>2, <2>3 DEF EndLeaves
<1> QED
  BY <1>1, <1>2 DEF ProcessEnds, Log!Die

\* fflush fails: a part of the buffer is written, the records of the other
\* threads in the rest of it are lost, and this call is decided.
LEMMA SaveFailsStep ==
    ASSUME Ready, NEW t \in Thread, FlushFails(t)
    PROVE  Log!SaveFails(t)
<1>1. PICK n \in 0 .. Len(buf) - 1 :
        /\ log' = [log EXCEPT !.recs = @ \o SubSeq(buf, 1, n)]
        /\ lost' = lost \cup (Range(SubSeq(buf, n + 1, Len(buf))) \ {wrec[t]})
        /\ Printed' \in Seq(Record) /\ Len(Printed') = Len(log.recs) + n
        /\ \A i \in 1 .. Len(Printed') : Printed'[i] = Printed[i]
        /\ Range(SubSeq(buf, n + 1, Len(buf)))
             = {Printed[j] : j \in Len(log.recs) + n + 1 .. Len(Printed)}
  BY FlushFailsFacts DEF Ready
<1>2. /\ wpc[t] = "flush" /\ wpc' = [wpc EXCEPT ![t] = "done"]
      /\ wres' = [wres EXCEPT ![t] = "err"]
      /\ buf' = <<>> /\ UNCHANGED wrec
  BY DEF FlushFails, Finish
<1>3. /\ log.recs \in Seq(Record) /\ buf \in Seq(Record) /\ Printed \in Seq(Record)
      /\ Len(Printed) = Len(log.recs) + Len(buf)
      /\ Len(log.recs) \in Nat /\ Len(buf) \in Nat
      /\ \A i \in 1 .. Len(log.recs) : Printed[i] = log.recs[i]
      /\ log'.recs \in Seq(Record)
  <2>1. /\ log.recs \in Seq(Record) /\ buf \in Seq(Record) /\ Printed \in Seq(Record)
        /\ Len(Printed) = Len(log.recs) + Len(buf)
        /\ Len(log.recs) \in Nat /\ Len(buf) \in Nat
        /\ \A i \in 1 .. Len(log.recs) : Printed[i] = log.recs[i]
    BY PrintedIsSeq, LenProperties DEF Ready, BinlogInv
  <2>2. log'.recs \in Seq(Record)
    BY FlushFailsInv DEF Ready, BinlogInv, BinlogTypeOK
  <2> QED
    BY <2>1, <2>2
<1>4. Log!Grows
  BY <1>1, PartGrows
<1>5. \A r \in Range(SubSeq(buf, n + 1, Len(buf))) \ {wrec[t]} :
        \E u \in Log!Waiting \ {t} : wrec[u] = r
  <2> TAKE r \in Range(SubSeq(buf, n + 1, Len(buf))) \ {wrec[t]}
  <2>1. r \in Range(buf)
    <3>1. Range(buf) = Range(SubSeq(buf, 1, n)) \cup Range(SubSeq(buf, n + 1, Len(buf)))
      BY <1>3, CutProperties, Zenon
    <3> QED
      BY <3>1
  <2>2. PICK k \in 1 .. Len(buf) : buf[k] = r
    BY <1>3, <2>1 DEF Range
  <2> QED
    BY <2>2, BufferWaits
<1>6. lost' \subseteq lost \cup {Calls[d].rec : d \in Log!Waiting \ {t}}
  <2>1. \A u \in Log!Waiting : Calls[u].rec = wrec[u]
    BY DEF Log!Waiting, Calls, CallOf
  <2>2. \A r \in lost' : \/ r \in lost
                         \/ r \in Range(SubSeq(buf, n + 1, Len(buf))) \ {wrec[t]}
    BY <1>1
  <2>3. \A r \in lost' : r \in lost \/ \E u \in Log!Waiting \ {t} : Calls[u].rec = r
    BY <1>5, <2>1, <2>2, Zenon
  <2> QED
    BY <2>3, Zenon
<1>7. Log!Range(log'.recs) \cap (lost' \ lost) = {}
  <2> SUFFICES ASSUME NEW r \in Range(log'.recs), r \in Range(SubSeq(buf, n + 1, Len(buf)))
               PROVE  FALSE
    BY <1>1, SameRange
  <2>1. PICK j \in Len(log.recs) + n + 1 .. Len(Printed) : r = Printed[j]
    BY <1>1
  <2>2. Printed' = log'.recs
    BY <1>2, <1>3, ConcatEmptySeq DEF Printed
  <2>3. PICK i \in 1 .. Len(Printed') : r = Printed'[i]
    <3>1. DOMAIN log'.recs = 1 .. Len(log'.recs)
      BY <1>3
    <3>2. \E i \in DOMAIN log'.recs : r = log'.recs[i]
      BY Zenon DEF Range
    <3> QED
      BY <2>2, <3>1, <3>2, Zenon
  <2>4. i \in 1 .. Len(log.recs) + n /\ Printed[i] = r
    BY <1>1, <2>3
  <2>5. i \in DOMAIN Printed /\ j \in DOMAIN Printed /\ i # j
    BY <1>3, <2>4
  <2>6. Printed[i].id = Printed[j].id
    BY <2>1, <2>4
  <2> QED
    BY <2>5, <2>6, Zenon DEF Ready, Numbered, LoggedOnce
<1>8. StateOf(t)' = "err" /\ \A u \in Thread \ {t} : StateOf(u)' = StateOf(u)
  BY <1>2, CallTypes DEF StateOf
<1>9. Calls' = [Calls EXCEPT ![t].state = "err"]
  BY <1>2, <1>8 DEF Calls, CallOf
<1>10. Log!Open(t) /\ lost \subseteq lost'
  BY <1>1, <1>2, OpenCalls
<1> QED
  BY <1>4, <1>6, <1>7, <1>9, <1>10, Zenon DEF Log!SaveFails, Calls, CallOf

-----------------------------------------------------------------------------
(* The simulation.                                                         *)

\* Every step of Binlog is a step of the abstract log or a stutter.
LEMMA Simulation ==
    ASSUME Ready, [BinlogNext]_binlogVars
    PROVE  [Log!Next]_(Log!vars)
<1>1. CASE UNCHANGED binlogVars
  BY <1>1 DEF binlogVars, inCall, inProcess, Log!vars, StateOf
<1>2. CASE Crash
  BY <1>2, DieStep DEF Crash, EndLeaves, Log!Next
<1>3. ASSUME NEW t \in Thread, NEW op \in Op, NEW path \in Path, BinlogCall(t, op, path)
      PROVE  Log!Next
  BY <1>3, BeginStep DEF Log!Next
<1>4. ASSUME NEW t \in Thread, BinlogCallDies(t) \/ BinlogDies(t)
      PROVE  Log!Next
  BY <1>4, EndingSteps, DieStep DEF Log!Next
<1>5. ASSUME NEW t \in Thread, BinlogReturn(t)
      PROVE  Log!Next
  BY <1>5, ReturnStep DEF Log!Next
<1>6. ASSUME NEW t \in Thread, BinlogStep(t)
      PROVE  [Log!Next]_(Log!vars)
  <2>1. CASE PrintRecord(t) \/ LoadSize(t) \/ StoreSize(t)
    BY <2>1, SilentSteps
  <2>2. CASE PrintFull(t) \/ Flush(t)
    BY <2>2, SaveStep DEF Log!Next
  <2>3. CASE FlushFails(t)
    BY <2>3, SaveFailsStep DEF Log!Next
  <2>4. CASE CheckSize(t) /\ wpc'[t] = "rotate"
    BY <2>4, SilentSteps
  <2>5. CASE (CheckSize(t) /\ wpc'[t] # "rotate") \/ RotateFails(t)
    BY <2>5, DecideStep DEF Log!Next
  <2> QED
    BY <1>6, <2>1, <2>2, <2>3, <2>4, <2>5 DEF BinlogStep
<1>7. CASE Start
  BY <1>7, StartStep
<1> QED
  BY <1>1, <1>2, <1>3, <1>4, <1>5, <1>6, <1>7 DEF BinlogNext

\* What the simulation needs holds.
LEMMA ReadyInit == BinlogInit => Ready
<1> SUFFICES ASSUME BinlogInit
             PROVE  Ready
  OBVIOUS
<1>1. lost = {} /\ calls = 0
  BY DEF BinlogInit, BinlogInitWith
<1> QED
  BY <1>1, NumberedInit, BinlogAssumption DEF Ready, LostApart

LEMMA ReadyStep == Ready /\ [BinlogNext]_binlogVars => Ready'
<1> SUFFICES ASSUME Ready, [BinlogNext]_binlogVars
             PROVE  Ready'
  OBVIOUS
<1>1. BinlogInv' /\ LogIsThere' /\ Numbered' /\ LostApart'
  BY StepInv, LogIsThereStep, NumberedNext, LostApartStep DEF Ready
<1>2. calls' <= MaxCalls
  <2>1. calls \in Nat /\ MaxCalls \in Nat /\ calls <= MaxCalls
    BY BinlogAssumption DEF Ready, BinlogInv, BinlogTypeOK
  <2>2. calls' = calls \/ (calls < MaxCalls /\ calls' = calls + 1)
    BY DEF BinlogNext, binlogVars, Start, StartOnExistingLog, StartOnNewLog, StartWithoutLog,
           StartRefused, Serving, Crash, BinlogCall, BinlogCallDies, Called, BinlogStep,
           PrintRecord, PrintFull, Flush, FlushFails, LoadSize, StoreSize, CheckSize,
           RotateFails, BinlogDies, PrintFails, RotateDies, BinlogReturn
  <2> QED
    BY <2>1, <2>2
<1> QED
  BY <1>1, <1>2 DEF Ready

\* storage_binlog_write keeps the promise of AppendLog: whatever the threads
\* interleave, and across rotations, crashes and starts, records are only ever
\* appended, each call's at most once, and a call that succeeds has its record
\* in the log or lost by another call's failure.
THEOREM BinlogImplementsAppendLog == BinlogSpec => ImplementsAppendLog
<1>1. BinlogInit => Ready
  BY ReadyInit
<1>2. BinlogInit => Log!Init
  <2> SUFFICES ASSUME BinlogInit
               PROVE  Log!Init
    OBVIOUS
  <2>1. log.recs = <<>> /\ lost = {} /\ \A u \in Thread : StateOf(u) = "none"
    BY DEF BinlogInit, BinlogInitWith, NoLog, SeededLog, StateOf
  <2> QED
    BY <2>1, RangeEmpty, SameRange DEF Log!Init, Log!Idle
<1>3. Ready /\ [BinlogNext]_binlogVars => Ready'
  BY ReadyStep
<1>4. Ready /\ [BinlogNext]_binlogVars => [Log!Next]_(Log!vars)
  BY Simulation
<1> QED
  BY <1>1, <1>2, <1>3, <1>4, PTL DEF BinlogSpec, ImplementsAppendLog, Log!Spec
=============================================================================
