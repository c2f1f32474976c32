--------------------------- MODULE ServiceProofs ---------------------------
(***************************************************************************)
(* What StorageService promises, for any number of threads, files and      *)
(* requests.  Its steps are steps of Binlog and operations of FileStore,   *)
(* so the invariants of these two come from BinlogProofs and               *)
(* FileStoreProofs; what is proved here is how the two keep in step.       *)
(***************************************************************************)
EXTENDS StorageService, BinlogProofs, FileStoreProofs

\* The part of ServiceInv that is about the connections and about both parts.
ConnTypes ==
    /\ setting \in Settings
    /\ pc \in [Thread -> Steps]
    /\ req \in [Thread -> Served]
    /\ status \in [Thread -> {"ok", "exists", "err"}]
    /\ owes \in [Thread -> SUBSET Path]
    /\ tainted \subseteq Path
    /\ requests \in 0 .. MaxRequests

Debts == OneDebtor /\ DebtIsDue /\ LastRecordAgrees

ConnInv == ConnTypes /\ (\A t \in Thread : Fits(t)) /\ Debts

\* The steps of thread t leave the other threads' variables alone.
OthersStay(t) ==
    \A u \in Thread \ {t} :
        /\ pc'[u] = pc[u] /\ req'[u] = req[u] /\ status'[u] = status[u]
        /\ owes'[u] = owes[u]
        /\ wpc'[u] = wpc[u] /\ wrec'[u] = wrec[u] /\ wres'[u] = wres[u]

-----------------------------------------------------------------------------
(* The invariant and its parts.                                            *)

LEMMA InvParts == ServiceInv <=> BinlogInv /\ LogIsThere /\ Numbered /\ FileInv /\ ConnInv
BY DEF ServiceInv, ConnInv, ConnTypes, Debts, TypeOK, BinlogInv, FileInv, FileTypeOK, Sound

LEMMA RequestsAreServed ==
    ASSUME NEW r \in Requests
    PROVE  r \in Served /\ r.cmd \in ClientCmds \cup SyncCmds \cup {"upload"}
<1> DEFINE d0 == CHOOSE d \in DataFile : TRUE
<1>1. \/ r \in [cmd : ClientCmds, path : DataFile, meta : {FALSE}]
      \/ r \in [cmd : SyncCmds \cup {"download"}, path : Path, meta : {FALSE}]
      \/ r \in [cmd : {"upload"}, path : {d0}, meta : BOOLEAN]
  BY DEF Requests
<1> HIDE DEF d0
<1>2. r.cmd \in ClientCmds \cup SyncCmds \cup {"upload"}
  BY <1>1 DEF ClientCmds
<1> QED
  BY <1>2 DEF Served

\* What a thread serves.
LEMMA RequestFacts ==
    ASSUME ConnTypes, NEW t \in Thread
    PROVE  /\ req[t].cmd \in DOMAIN StepsOf
           /\ req[t].path \in Path
           /\ req[t].meta \in BOOLEAN
           /\ req[t].meta => req[t].cmd = "upload"
           /\ req[t].cmd \in {"getMeta", "setMeta", "delete", "upload"} =>
                req[t].path \in DataFile /\ MetaFile(t) \in Path \ DataFile
<1>1. req[t] \in Served
  BY DEF ConnTypes
<1>2. (CHOOSE d \in DataFile : TRUE) \in DataFile
  BY ServiceAssumption
<1>3. DataFile \subseteq Path /\ MetaOf \in [DataFile -> Path \ DataFile]
  BY ServiceAssumption
<1>4. /\ req[t].cmd \in ClientCmds \cup SyncCmds \cup {"upload", "none"}
      /\ req[t].path \in Path
      /\ req[t].meta \in BOOLEAN
      /\ req[t].meta => req[t].cmd = "upload"
      /\ req[t].cmd \notin SyncCmds \cup {"download"} => req[t].path \in DataFile
  <2> DEFINE q == req[t]
             d0 == CHOOSE d \in DataFile : TRUE
  <2>1. \/ q \in [cmd : ClientCmds, path : DataFile, meta : {FALSE}]
        \/ q \in [cmd : SyncCmds \cup {"download"}, path : Path, meta : {FALSE}]
        \/ q \in [cmd : {"upload"}, path : {d0}, meta : BOOLEAN]
        \/ q \in [cmd : {"upload"}, path : DataFile, meta : BOOLEAN]
        \/ q = [cmd |-> "none", path |-> d0, meta |-> FALSE]
    BY <1>1 DEF Served, Requests, NoRequest
  <2>2. d0 \in DataFile
    BY <1>2
  <2> HIDE DEF d0, q
  <2>3. /\ q.cmd \in ClientCmds \cup SyncCmds \cup {"upload", "none"}
        /\ q.path \in Path
        /\ q.meta \in BOOLEAN
        /\ q.meta => q.cmd = "upload"
        /\ q.cmd \notin SyncCmds \cup {"download"} => q.path \in DataFile
    <3>1. CASE q \in [cmd : ClientCmds, path : DataFile, meta : {FALSE}]
      BY <1>3, <3>1 DEF ClientCmds, SyncCmds
    <3>2. CASE q \in [cmd : SyncCmds \cup {"download"}, path : Path, meta : {FALSE}]
      BY <3>2 DEF ClientCmds, SyncCmds
    <3>3. CASE q \in [cmd : {"upload"}, path : {d0}, meta : BOOLEAN]
      BY <1>3, <2>2, <3>3 DEF ClientCmds, SyncCmds
    <3>4. CASE q \in [cmd : {"upload"}, path : DataFile, meta : BOOLEAN]
      BY <1>3, <3>4 DEF ClientCmds, SyncCmds
    <3>5. CASE q = [cmd |-> "none", path |-> d0, meta |-> FALSE]
      BY <1>3, <2>2, <3>5 DEF ClientCmds, SyncCmds
    <3> QED
      BY <2>1, <3>1, <3>2, <3>3, <3>4, <3>5
  <2> QED
    BY <2>3 DEF q
<1>5. req[t].cmd \in DOMAIN StepsOf
  BY <1>4 DEF StepsOf, ClientCmds, SyncCmds
<1>6. req[t].path \in DataFile => MetaFile(t) \in Path \ DataFile
  BY <1>3 DEF MetaFile
<1>7. req[t].cmd \in {"getMeta", "setMeta", "delete", "upload"} => req[t].path \in DataFile
  BY <1>4 DEF SyncCmds
<1> QED
  BY <1>4, <1>5, <1>6, <1>7

LEMMA ServedShape ==
    ASSUME ConnTypes, NEW t \in Thread
    PROVE  req[t] \in [cmd : {req[t].cmd}, path : Path, meta : BOOLEAN]
<1> DEFINE q == req[t]
           d0 == CHOOSE d \in DataFile : TRUE
<1>1. \/ q \in [cmd : ClientCmds, path : DataFile, meta : {FALSE}]
      \/ q \in [cmd : SyncCmds \cup {"download"}, path : Path, meta : {FALSE}]
      \/ q \in [cmd : {"upload"}, path : {d0}, meta : BOOLEAN]
      \/ q \in [cmd : {"upload"}, path : DataFile, meta : BOOLEAN]
      \/ q = [cmd |-> "none", path |-> d0, meta |-> FALSE]
  BY DEF ConnTypes, Served, Requests, NoRequest
<1>2. d0 \in Path /\ DataFile \subseteq Path
  BY ServiceAssumption
<1> HIDE DEF q, d0
<1>3. q \in [cmd : {q.cmd}, path : Path, meta : BOOLEAN]
  <2>1. CASE q \in [cmd : ClientCmds, path : DataFile, meta : {FALSE}]
    BY <1>2, <2>1
  <2>2. CASE q \in [cmd : SyncCmds \cup {"download"}, path : Path, meta : {FALSE}]
    BY <2>2
  <2>3. CASE q \in [cmd : {"upload"}, path : {d0}, meta : BOOLEAN]
    BY <1>2, <2>3
  <2>4. CASE q \in [cmd : {"upload"}, path : DataFile, meta : BOOLEAN]
    BY <1>2, <2>4
  <2>5. CASE q = [cmd |-> "none", path |-> d0, meta |-> FALSE]
    BY <1>2, <2>5
  <2> QED
    BY <1>1, <2>1, <2>2, <2>3, <2>4, <2>5
<1> QED
  BY <1>3 DEF q

\* The file a thread records, and as what.
LEMMA LogFacts ==
    ASSUME ConnTypes, NEW t \in Thread, AtItsStep(t), pc[t] \in {"log", "logMeta"}
    PROVE  /\ LogTarget(t) \in Path
           /\ LogTarget(t) = IF pc[t] = "logMeta" \/ req[t].cmd = "setMeta"
                             THEN MetaFile(t) ELSE req[t].path
           /\ OpsOf[req[t].cmd] \subseteq Op
           /\ req[t].cmd \in {"setMeta", "delete", "syncDelete", "upload", "syncCreate", "syncUpdate"}
<1>1. req[t].cmd \in {"setMeta", "delete", "syncDelete", "upload", "syncCreate", "syncUpdate"}
  BY RequestFacts DEF AtItsStep, StepsOf
<1>2. OpsOf[req[t].cmd] \subseteq Op
  BY <1>1, ServiceAssumption DEF OpsOf, CreateOps, UpdateOps, DeleteOps
<1>3. LogTarget(t) = IF pc[t] = "logMeta" \/ req[t].cmd = "setMeta"
                     THEN MetaFile(t) ELSE req[t].path
  BY <1>1 DEF LogTarget, Target, MetaFile
<1>4. LogTarget(t) \in Path
  <2>1. pc[t] = "logMeta" => req[t].cmd \in {"delete", "upload"}
    BY RequestFacts DEF AtItsStep
  <2> QED
    BY <1>3, <2>1, RequestFacts
<1> QED
  BY <1>1, <1>2, <1>3, <1>4

-----------------------------------------------------------------------------
(* What a step of one thread leaves to the others.                         *)

LEMMA OthersFit ==
    ASSUME ConnInv, NEW t \in Thread, OthersStay(t), tainted \subseteq tainted', up' = up
    PROVE  \A u \in Thread \ {t} : Fits(u)'
<1> SUFFICES ASSUME NEW u \in Thread \ {t}
             PROVE  Fits(u)'
  OBVIOUS
<1>1. Fits(u)
  BY DEF ConnInv
<1>2. /\ pc'[u] = pc[u] /\ req'[u] = req[u] /\ status'[u] = status[u]
      /\ owes'[u] = owes[u]
      /\ wpc'[u] = wpc[u] /\ wrec'[u] = wrec[u] /\ wres'[u] = wres[u]
  BY DEF OthersStay
<1>3. AtItsStep(u)'
  BY <1>1, <1>2 DEF Fits, AtItsStep, StepsOf
<1>4. LogTarget(u)' = LogTarget(u) /\ MetaFile(u)' = MetaFile(u)
  BY <1>2 DEF LogTarget, Target, MetaFile
<1>5. CallIsItsOwn(u)'
  BY <1>1, <1>2, <1>4 DEF Fits, CallIsItsOwn, OpsOf
<1>6. RecordsNext(u)' = RecordsNext(u) /\ RecordsLater(u)' = RecordsLater(u)
  BY <1>2, <1>4 DEF RecordsNext, RecordsLater, HasPrinted, Flushed
<1>7. OwesWhatItTouched(u)'
  BY <1>1, <1>2, <1>4, <1>6 DEF Fits, OwesWhatItTouched
<1> QED
  BY <1>3, <1>5, <1>7 DEF Fits

\* A name that is on no debt and not spoilt after the step keeps agreeing when
\* the step leaves it and its records alone.
LEMMA AgreementKept ==
    ASSUME LastRecordAgrees, tainted \subseteq tainted',
           \A p \in Path :
              p \notin tainted' /\ (\A u \in Thread : p \notin owes'[u]) =>
                 /\ \A u \in Thread : p \notin owes[u]
                 /\ Exists(p)' <=> Exists(p)
                 /\ RecordedAsPresent(p)' <=> RecordedAsPresent(p)
    PROVE  LastRecordAgrees'
BY DEF LastRecordAgrees

LEMMA SamePrinted ==
    ASSUME Printed' = Printed
    PROVE  \A p : RecordedAsPresent(p)' <=> RecordedAsPresent(p)
BY DEF RecordedAsPresent, RecordsOf

\* A step that neither prints a record nor makes or removes a name, and drops
\* debts only into the spoilt files.
LEMMA QuietDebts ==
    ASSUME ConnInv, NEW t \in Thread, OthersStay(t), tainted \subseteq tainted',
           owes'[t] \subseteq owes[t], owes[t] \ owes'[t] \subseteq tainted',
           Printed' = Printed, \A p \in Path : Exists(p)' <=> Exists(p),
           owes'[t] = {} \/ (pc[t] # "reply" /\ req'[t].cmd = req[t].cmd)
    PROVE  Debts'
<1>1. \A u \in Thread : owes[u] \subseteq Path
  BY DEF ConnInv, ConnTypes
<1>2. \A u \in Thread : owes'[u] \subseteq owes[u]
  BY DEF OthersStay
<1>3. OneDebtor'
  BY <1>2 DEF OneDebtor, ConnInv, Debts
<1>4. \A u \in Thread : owes'[u] # {} /\ pc'[u] # "reply" =>
        pc[u] # "reply" /\ req'[u].cmd = req[u].cmd
  BY DEF OthersStay
<1>5. DebtIsDue'
  BY <1>1, <1>2, <1>4 DEF DebtIsDue, ConnInv, Debts
<1>6. \A p \in Path : p \notin tainted' /\ (\A u \in Thread : p \notin owes'[u]) =>
        \A u \in Thread : p \notin owes[u]
  BY DEF OthersStay
<1>7. LastRecordAgrees'
  BY <1>6, AgreementKept, SamePrinted DEF ConnInv, Debts
<1> QED
  BY <1>3, <1>5, <1>7 DEF Debts

\* A step that touches file p, prints no record and leaves the other names.
LEMMA TouchDebts ==
    ASSUME ConnInv, NEW t \in Thread, OthersStay(t), NEW p \in Path, Touch(t, p),
           Printed' = Printed, \A q \in Path \ {p} : Exists(q)' <=> Exists(q),
           pc[t] # "reply", req'[t] = req[t],
           pc'[t] = "reply" \/ (Exists(p)' <=> req[t].cmd \notin {"delete", "syncDelete"})
    PROVE  Debts' /\ tainted \subseteq tainted' /\ owes'[t] = owes[t] \cup {p}
<1>1. owes \in [Thread -> SUBSET Path] /\ tainted \subseteq Path
  BY DEF ConnInv, ConnTypes
<1>2. owes'[t] = owes[t] \cup {p}
  BY <1>1 DEF Touch
<1>3. tainted \subseteq tainted'
  BY DEF Touch
<1>4. \A u \in Thread \ {t} : owes'[u] = owes[u]
  BY DEF OthersStay
<1>5. \A u \in Thread \ {t} : p \in owes[u] => p \in tainted'
  BY DEF Touch, Others
<1>6. OneDebtor'
  BY <1>2, <1>3, <1>4, <1>5 DEF OneDebtor, ConnInv, Debts
<1>7. DebtIsDue'
  <2> SUFFICES ASSUME NEW u \in Thread, pc'[u] # "reply", NEW q \in owes'[u] \ tainted'
               PROVE  Exists(q)' <=> req'[u].cmd \notin {"delete", "syncDelete"}
    BY DEF DebtIsDue
  <2>1. CASE u # t
    <3>1. q \in owes[u] \ tainted /\ q # p /\ q \in Path
      BY <1>1, <1>3, <1>4, <1>5, <2>1
    <3>2. pc[u] # "reply" /\ req'[u] = req[u]
      BY <2>1 DEF OthersStay
    <3> QED
      BY <3>1, <3>2 DEF DebtIsDue, ConnInv, Debts
  <2>2. CASE u = t /\ q = p
    BY <2>2
  <2>3. CASE u = t /\ q # p
    <3>1. q \in owes[t] \ tainted /\ q \in Path
      BY <1>1, <1>2, <1>3, <2>3
    <3> QED
      BY <2>3, <3>1 DEF DebtIsDue, ConnInv, Debts
  <2> QED
    BY <2>1, <2>2, <2>3
<1>8. \A q \in Path : q \notin tainted' /\ (\A u \in Thread : q \notin owes'[u]) =>
        q # p /\ \A u \in Thread : q \notin owes[u]
  BY <1>2, <1>4
<1>9. LastRecordAgrees'
  BY <1>3, <1>8, AgreementKept, SamePrinted DEF ConnInv, Debts
<1> QED
  BY <1>2, <1>3, <1>6, <1>7, <1>9 DEF Debts

-----------------------------------------------------------------------------
(* What the operations of FileStore do to the names.                       *)

LEMMA NamesStay ==
    ASSUME NEW t \in Thread,
           \/ \E c \in Content : Write(t, c)
           \/ \E p \in Path : OpenRead(t, p)
           \/ WriteShort(t) \/ Read(t) \/ ReadFails(t) \/ Forget(t)
           \/ FilesAfterCrash \/ UNCHANGED fileVars
    PROVE  \A p : Exists(p)' <=> Exists(p)
<1>1. dir' = dir
  BY DEF Write, OpenRead, WriteShort, Read, ReadFails, Forget, FilesAfterCrash, fileVars, Settle
<1> QED
  BY <1>1 DEF Exists

LEMMA NameMade ==
    ASSUME FileInv, NEW t \in Thread, NEW p \in Path, OpenWrite(t, p)
    PROVE  Exists(p)' /\ \A q \in Path \ {p} : Exists(q)' <=> Exists(q)
<1> DEFINE new == CHOOSE i \in Inode : i \notin Live(dir, fd)
           i   == IF Exists(p) THEN dir[p] ELSE new
<1>1. fd[t].mode = "closed" /\ dir' = [dir EXCEPT ![p] = i]
  BY DEF OpenWrite, Settle
<1>2. new \in Inode
  BY <1>1, RoomForOne
<1>3. i # NoInode
  BY <1>2, NoInodeIsNone DEF Exists
<1>4. dir \in [Path -> Inode \cup {NoInode}]
  BY DEF FileInv, Sound
<1> HIDE DEF i
<1> QED
  BY <1>1, <1>3, <1>4 DEF Exists

LEMMA NameRemoved ==
    ASSUME FileInv, NEW p \in Path, Unlink(p)
    PROVE  ~Exists(p)' /\ \A q \in Path \ {p} : Exists(q)' <=> Exists(q)
<1>1. dir' = [dir EXCEPT ![p] = NoInode]
  BY DEF Unlink, Settle
<1>2. dir \in [Path -> Inode \cup {NoInode}]
  BY DEF FileInv, Sound
<1> QED
  BY <1>1, <1>2 DEF Exists

-----------------------------------------------------------------------------
(* Steps outside storage_binlog_write.                                     *)

\* What the step of a thread outside storage_binlog_write has in common.
Outside(t) ==
    /\ t \in Thread
    /\ ServiceInv
    /\ UNCHANGED <<setting, binlogVars>>
    /\ \E k \in Steps : pc' = [pc EXCEPT ![t] = k]
    /\ req' = req \/ \E q \in Served : req' = [req EXCEPT ![t] = q]
    /\ status' = status \/ \E s \in {"ok", "exists", "err"} : status' = [status EXCEPT ![t] = s]
    /\ owes' = owes \/ \E o \in SUBSET Path : owes' = [owes EXCEPT ![t] = o]
    /\ requests' \in 0 .. MaxRequests

LEMMA OutsideFacts ==
    ASSUME NEW t, Outside(t)
    PROVE  /\ ConnInv /\ FileInv /\ OthersStay(t)
           /\ tainted' \subseteq Path => ConnTypes'
           /\ UNCHANGED <<up, wpc, wrec, wres>> /\ Printed' = Printed
           /\ wpc[t] # "out" => pc[t] \in {"log", "logMeta"}
           /\ tainted \subseteq tainted' => \A u \in Thread \ {t} : Fits(u)'
<1>1. ConnInv /\ FileInv /\ t \in Thread /\ ConnTypes
  BY InvParts DEF Outside, ConnInv
<1>2. UNCHANGED <<up, wpc, wrec, wres>> /\ Printed' = Printed
  BY DEF Outside, binlogVars, inProcess, inCall, Printed
<1>3. OthersStay(t)
  BY <1>1, <1>2 DEF Outside, OthersStay, ConnTypes
<1>4. ASSUME tainted' \subseteq Path
      PROVE  ConnTypes'
  BY <1>1, <1>4 DEF Outside, ConnTypes
<1>5. wpc[t] # "out" => pc[t] \in {"log", "logMeta"}
  BY <1>1 DEF ConnInv, Fits, CallIsItsOwn
<1>6. ASSUME tainted \subseteq tainted'
      PROVE  \A u \in Thread \ {t} : Fits(u)'
  BY <1>1, <1>2, <1>3, <1>6, OthersFit
<1> QED
  BY <1>1, <1>2, <1>3, <1>4, <1>5, <1>6

\* A step to a place where nothing is owed, or to the answer "error".
LEMMA FitsPlainly ==
    ASSUME NEW t \in Thread, wpc'[t] = "out",
           pc'[t] # "idle" => up',
           pc'[t] \in {"idle", "ready", "reply"} \cup StepsOf[req'[t].cmd],
           pc'[t] \notin {"write", "openMeta", "writeMeta", "undo", "log", "logMeta"},
           owes'[t] = {} \/ (pc'[t] = "reply" /\ status'[t] = "err")
    PROVE  Fits(t)'
BY DEF Fits, AtItsStep, CallIsItsOwn, OwesWhatItTouched, StepsOf

LEMMA OutsideQuiet ==
    ASSUME NEW t, Outside(t), Fits(t)',
           tainted \subseteq tainted', tainted' \subseteq Path,
           owes'[t] \subseteq owes[t], owes[t] \ owes'[t] \subseteq tainted',
           \A p : Exists(p)' <=> Exists(p),
           owes'[t] = {} \/ (pc[t] # "reply" /\ req'[t].cmd = req[t].cmd)
    PROVE  ConnInv'
<1>1. t \in Thread
  BY DEF Outside
<1>2. Debts'
  BY <1>1, OutsideFacts, QuietDebts
<1>3. \A u \in Thread : Fits(u)'
  BY <1>1, OutsideFacts
<1> QED
  BY <1>2, <1>3, OutsideFacts DEF ConnInv

LEMMA OutsideTouch ==
    ASSUME NEW t, Outside(t), NEW p \in Path, Touch(t, p),
           owes'[t] = owes[t] \cup {p} /\ p \in tainted' \cup owes'[t] => Fits(t)',
           \A q \in Path \ {p} : Exists(q)' <=> Exists(q),
           pc[t] # "reply", req'[t] = req[t],
           pc'[t] = "reply" \/ (Exists(p)' <=> req[t].cmd \notin {"delete", "syncDelete"})
    PROVE  ConnInv'
<1>1. t \in Thread /\ tainted \subseteq Path
  BY OutsideFacts DEF Outside, ConnInv, ConnTypes
<1>2. Debts' /\ tainted \subseteq tainted' /\ owes'[t] = owes[t] \cup {p}
  BY <1>1, OutsideFacts, TouchDebts
<1>3. tainted' \subseteq Path
  BY <1>1 DEF Touch
<1>4. \A u \in Thread : Fits(u)'
  BY <1>1, <1>2, OutsideFacts
<1> QED
  BY <1>2, <1>3, <1>4, OutsideFacts DEF ConnInv

\* A thread takes a connection, waits for a request, gets one, gives it up.
LEMMA ConnectionSteps ==
    ASSUME ServiceInv, NEW t \in Thread, UNCHANGED setting,
           Accept(t) \/ Close(t) \/ Receive(t) \/ ReceiveBad(t)
    PROVE  ConnInv'
<1>1. ConnTypes /\ Fits(t) /\ tainted \subseteq Path /\ requests \in Nat /\ MaxRequests \in Nat
  BY InvParts, ServiceAssumption DEF ConnInv, ConnTypes
<1>2. pc[t] \in {"idle", "ready"} /\ UNCHANGED <<binlogVars, fileVars, owes, tainted>>
  BY DEF Accept, Close, Receive, ReceiveBad
<1>3. /\ wpc[t] = "out" /\ owes[t] = {} /\ wpc' = wpc /\ up' = up
      /\ pc[t] = "ready" => up
  BY <1>1, <1>2 DEF Fits, AtItsStep, CallIsItsOwn, OwesWhatItTouched, binlogVars, inCall, inProcess
<1>4. Outside(t) /\ Fits(t)'
  <2>1. CASE Accept(t)
    <3>1. pc'[t] = "ready" /\ up
      BY <1>1, <2>1 DEF Accept, Goto, ConnTypes
    <3>2. Fits(t)'
      BY <1>2, <1>3, <3>1, FitsPlainly
    <3> QED
      BY <1>1, <2>1, <3>2 DEF Outside, Accept, Goto, Steps, ConnTypes
  <2>2. CASE Close(t)
    <3>1. pc'[t] = "idle"
      BY <1>1, <2>2 DEF Close, Goto, ConnTypes
    <3>2. Fits(t)'
      BY <1>2, <1>3, <3>1, FitsPlainly
    <3> QED
      BY <1>1, <2>2, <3>2 DEF Outside, Close, Goto, Steps, ConnTypes
  <2>3. CASE Receive(t)
    <3>1. PICK r \in Requests : req' = [req EXCEPT ![t] = r] /\ Goto(t, FirstStep[r.cmd])
      BY <2>3 DEF Receive
    <3>2. /\ r.cmd \in ClientCmds \cup SyncCmds \cup {"upload"}
          /\ r \in Served
      BY RequestsAreServed
    <3>3. FirstStep[r.cmd] \in StepsOf[r.cmd] \cap (Steps \ {"idle"})
      BY <3>2 DEF FirstStep, StepsOf, Steps, ClientCmds, SyncCmds
    <3>4. FirstStep[r.cmd] \notin {"write", "openMeta", "writeMeta", "undo", "log", "logMeta"}
      BY <3>2 DEF FirstStep, ClientCmds, SyncCmds
    <3>5. pc'[t] = FirstStep[r.cmd] /\ req'[t] = r
      BY <1>1, <3>1 DEF Goto, ConnTypes
    <3>6. pc[t] = "ready"
      BY <2>3 DEF Receive
    <3>7. Fits(t)'
      BY <1>2, <1>3, <3>3, <3>4, <3>5, <3>6, FitsPlainly
    <3>8. requests' \in 0 .. MaxRequests
      BY <1>1, <2>3 DEF Receive
    <3> QED
      BY <1>1, <2>3, <3>1, <3>2, <3>3, <3>7, <3>8 DEF Outside, Receive, Goto
  <2>4. CASE ReceiveBad(t)
    <3>1. pc'[t] = "reply" /\ status'[t] = "err" /\ pc[t] = "ready"
      BY <1>1, <2>4 DEF ReceiveBad, Answer, Goto, ConnTypes
    <3>2. Fits(t)'
      BY <1>2, <1>3, <3>1, FitsPlainly
    <3>3. requests' \in 0 .. MaxRequests
      BY <1>1, <2>4 DEF ReceiveBad
    <3> QED
      BY <1>1, <2>4, <3>2, <3>3 DEF Outside, ReceiveBad, Answer, Goto, Steps
  <2> QED
    BY <2>1, <2>2, <2>3, <2>4
<1>5. \A p : Exists(p)' <=> Exists(p)
  BY <1>2, NamesStay
<1> QED
  BY <1>1, <1>2, <1>3, <1>4, <1>5, OutsideQuiet

\* A reply, and whatever has not been recorded by then never will be.
LEMMA ReplyStep ==
    ASSUME ServiceInv, NEW t \in Thread, UNCHANGED setting, Reply(t)
    PROVE  ConnInv'
<1>1. ConnTypes /\ Fits(t)
  BY InvParts DEF ConnInv
<1>2. /\ pc[t] = "reply" /\ UNCHANGED <<binlogVars, requests>>
      /\ \E k \in {"ready", "idle"} : pc' = [pc EXCEPT ![t] = k]
      /\ req' = [req EXCEPT ![t] = NoRequest]
      /\ status' = [status EXCEPT ![t] = "ok"]
      /\ owes' = [owes EXCEPT ![t] = {}]
      /\ tainted' = tainted \cup owes[t]
  BY DEF Reply, Goto
<1>3. pc'[t] \in {"ready", "idle"} /\ owes'[t] = {} /\ owes[t] \subseteq Path /\ tainted \subseteq Path
  BY <1>1, <1>2 DEF ConnTypes
<1>4. wpc'[t] = "out" /\ up'
  BY <1>1, <1>2 DEF Fits, AtItsStep, CallIsItsOwn, binlogVars, inCall, inProcess
<1>5. Fits(t)'
  BY <1>3, <1>4, FitsPlainly
<1>6. Outside(t)
  BY <1>1, <1>2 DEF Outside, Steps, Served, ConnTypes
<1>7. \A p : Exists(p)' <=> Exists(p)
  BY NamesStay DEF Reply
<1> QED
  BY <1>2, <1>3, <1>5, <1>6, <1>7, OutsideQuiet

\* The steps that look at the files or read them, and change none.
LEMMA LookingSteps ==
    ASSUME ServiceInv, NEW t \in Thread, UNCHANGED setting,
           \/ CheckBeforeGetMeta(t) \/ OpenToRead(t) \/ ReadFile(t)
           \/ CheckBeforeSetMeta(t) \/ CheckBeforeCreate(t)
           \/ FindName(t) \/ FindNoName(t)
    PROVE  ConnInv'
<1>1. ConnTypes /\ Fits(t)
  BY InvParts DEF ConnInv
<1>2. /\ pc[t] \in {"checkMeta", "openRead", "read", "checkSet", "checkNew", "generate"}
      /\ UNCHANGED <<binlogVars, owes, tainted, requests>>
  BY DEF CheckBeforeGetMeta, OpenToRead, ReadFile, CheckBeforeSetMeta, CheckBeforeCreate,
         FindName, FindNoName, NoTouch
<1>3. owes[t] = {} /\ wpc'[t] = "out" /\ up' /\ pc[t] \in StepsOf[req[t].cmd]
  BY <1>1, <1>2 DEF Fits, AtItsStep, CallIsItsOwn, OwesWhatItTouched, binlogVars, inCall, inProcess
<1>4. req[t].cmd \in DOMAIN StepsOf
  BY <1>1, RequestFacts
<1>5. \/ /\ req' = req
         /\ \E s \in {"ok", "exists", "err"} : Answer(t, s)
      \/ /\ req' = req /\ status' = status
         /\ \/ pc[t] = "checkMeta" /\ Goto(t, "openRead")
            \/ pc[t] = "openRead" /\ Goto(t, "read")
            \/ pc[t] = "checkNew" /\ Goto(t, "open")
      \/ /\ pc[t] = "generate" /\ Goto(t, "open") /\ status' = status
         /\ \E d \in setting.names : req' = [req EXCEPT ![t].path = d]
  BY DEF CheckBeforeGetMeta, OpenToRead, ReadFile, CheckBeforeSetMeta, CheckBeforeCreate,
         FindName, FindNoName
<1>6. Outside(t) /\ Fits(t)' /\ req'[t].cmd = req[t].cmd
  <2>1. ASSUME NEW s \in {"ok", "exists", "err"}, Answer(t, s), req' = req
        PROVE  Outside(t) /\ Fits(t)' /\ req'[t].cmd = req[t].cmd
    <3>1. pc'[t] = "reply"
      BY <1>1, <2>1 DEF Answer, Goto, ConnTypes
    <3>2. Fits(t)'
      BY <1>2, <1>3, <2>1, <3>1, FitsPlainly
    <3> QED
      BY <1>1, <1>2, <2>1, <3>2 DEF Outside, Answer, Goto, Steps, ConnTypes
  <2>2. ASSUME NEW k \in {"openRead", "read", "open"}, Goto(t, k), req' = req, status' = status,
               \/ pc[t] = "checkMeta" /\ k = "openRead"
               \/ pc[t] = "openRead" /\ k = "read"
               \/ pc[t] = "checkNew" /\ k = "open"
        PROVE  Outside(t) /\ Fits(t)' /\ req'[t].cmd = req[t].cmd
    <3>1. pc'[t] = k
      BY <1>1, <2>2 DEF Goto, ConnTypes
    <3>2. k \in StepsOf[req[t].cmd]
      BY <1>3, <1>4, <2>2 DEF StepsOf
    <3>3. Fits(t)'
      BY <1>2, <1>3, <2>2, <3>1, <3>2, FitsPlainly
    <3> QED
      BY <1>1, <1>2, <2>2, <3>3 DEF Outside, Goto, Steps, ConnTypes
  <2>3. ASSUME pc[t] = "generate", Goto(t, "open"), status' = status,
               NEW d \in setting.names, req' = [req EXCEPT ![t].path = d]
        PROVE  Outside(t) /\ Fits(t)' /\ req'[t].cmd = req[t].cmd
    <3>1. pc'[t] = "open"
      BY <1>1, <2>3 DEF Goto, ConnTypes
    <3>2. req[t].cmd = "upload"
      BY <1>3, <1>4, <2>3 DEF StepsOf
    <3> DEFINE q == [req[t] EXCEPT !.path = d]
    <3>3. q \in Served /\ q.cmd = "upload"
      <4>1. d \in DataFile
        BY <1>1, <2>3, ServiceAssumption DEF ConnTypes
      <4>2. req[t].meta \in BOOLEAN
        BY <1>1, RequestFacts
      <4>3. req[t] \in [cmd : {"upload"}, path : Path, meta : BOOLEAN]
        BY <1>1, <3>2, ServedShape
      <4>4. q \in [cmd : {"upload"}, path : DataFile, meta : BOOLEAN]
        BY <4>1, <4>3
      <4> QED
        BY <4>4 DEF Served
    <3>4. req' = [req EXCEPT ![t] = q] /\ req'[t] = q
      BY <1>1, <2>3 DEF ConnTypes
    <3> HIDE DEF q
    <3>5. Fits(t)'
      <4>1. "open" \in StepsOf[req'[t].cmd]
        BY <3>3, <3>4 DEF StepsOf
      <4> QED
        BY <1>2, <1>3, <3>1, <4>1, FitsPlainly
    <3> QED
      BY <1>1, <1>2, <2>3, <3>2, <3>3, <3>4, <3>5 DEF Outside, Goto, Steps, ConnTypes
  <2> QED
    BY <1>5, <2>1, <2>2, <2>3
<1>7. \A p : Exists(p)' <=> Exists(p)
  BY DEF CheckBeforeGetMeta, OpenToRead, ReadFile, CheckBeforeSetMeta, CheckBeforeCreate,
         FindName, FindNoName, OpenRead, Read, ReadFails, Settle, fileVars, Exists
<1>8. tainted \subseteq Path
  BY <1>1 DEF ConnTypes
<1> QED
  BY <1>2, <1>6, <1>7, <1>8, OutsideQuiet

\* A step to a call of storage_binlog_write.
LEMMA FitsBeforeCall ==
    ASSUME NEW t \in Thread, up', wpc'[t] = "out",
           pc'[t] \in {"log", "logMeta"}, pc'[t] \in StepsOf[req'[t].cmd],
           pc'[t] = "logMeta" => req'[t].cmd = "delete" \/ req'[t].meta,
           \/ owes'[t] = {} /\ LogTarget(t)' \in tainted' /\ RecordsLater(t)' = {}
           \/ req'[t].cmd # "setMeta" /\ owes'[t] = {LogTarget(t)'} \cup RecordsLater(t)'
    PROVE  Fits(t)'
<1>1. AtItsStep(t)'
  BY DEF AtItsStep, StepsOf
<1>2. CallIsItsOwn(t)'
  BY DEF CallIsItsOwn
<1>3. ~HasPrinted(t)'
  BY DEF HasPrinted, Flushed
<1>4. RecordsNext(t)' = IF req'[t].cmd = "setMeta" THEN {} ELSE {LogTarget(t)'}
  BY <1>3 DEF RecordsNext
<1>5. OwesWhatItTouched(t)'
  BY <1>4 DEF OwesWhatItTouched
<1> QED
  BY <1>1, <1>2, <1>5 DEF Fits

\* What is known of a thread between two system calls of a handler.
LEMMA BetweenCalls ==
    ASSUME ServiceInv, NEW t \in Thread, pc[t] \notin {"idle", "ready", "reply", "log", "logMeta"}
    PROVE  /\ ConnTypes /\ Fits(t) /\ tainted \subseteq Path /\ owes[t] \subseteq Path
           /\ wpc[t] = "out" /\ up
           /\ pc[t] \in StepsOf[req[t].cmd]
           /\ req[t].path \in Path /\ req[t].meta \in BOOLEAN
           /\ req[t].meta => req[t].cmd = "upload"
           /\ req[t].cmd \in {"getMeta", "setMeta", "delete", "upload"} => MetaFile(t) \in Path \ DataFile
           /\ pc[t] = "checkSet" => req[t].cmd = "setMeta"
           /\ pc[t] = "unlink" => req[t].cmd \in {"delete", "syncDelete"}
           /\ pc[t] = "unlinkMeta" => req[t].cmd = "delete"
           /\ pc[t] \in {"open", "write"} => req[t].cmd \in {"upload", "syncCreate", "syncUpdate"}
           /\ pc[t] \in {"openMeta", "writeMeta", "undo"} => /\ req[t].cmd = "upload" /\ req[t].meta
                                                             /\ req[t].path # MetaFile(t)
           /\ pc[t] \in {"checkSet", "unlink", "unlinkMeta", "open"} => owes[t] = {}
           /\ pc[t] \in {"write", "openMeta"} => owes[t] = {req[t].path}
           /\ pc[t] = "writeMeta" => owes[t] = {req[t].path, MetaFile(t)}
           /\ pc[t] = "undo" => owes[t] \subseteq {req[t].path, MetaFile(t)}
<1>1. ConnTypes /\ Fits(t) /\ tainted \subseteq Path /\ owes[t] \subseteq Path
  BY InvParts DEF ConnInv, ConnTypes
<1>2. wpc[t] = "out" /\ up /\ pc[t] \in StepsOf[req[t].cmd]
  BY <1>1 DEF Fits, AtItsStep, CallIsItsOwn
<1>3. /\ req[t].cmd \in DOMAIN StepsOf
      /\ req[t].path \in Path /\ req[t].meta \in BOOLEAN
      /\ req[t].meta => req[t].cmd = "upload"
      /\ req[t].cmd \in {"getMeta", "setMeta", "delete", "upload"} =>
           req[t].path \in DataFile /\ MetaFile(t) \in Path \ DataFile
  BY <1>1, RequestFacts
<1>4. /\ pc[t] = "checkSet" => req[t].cmd = "setMeta"
      /\ pc[t] = "unlink" => req[t].cmd \in {"delete", "syncDelete"}
      /\ pc[t] = "unlinkMeta" => req[t].cmd = "delete"
      /\ pc[t] \in {"open", "write"} => req[t].cmd \in {"upload", "syncCreate", "syncUpdate"}
      /\ pc[t] \in {"openMeta", "writeMeta", "undo"} => req[t].cmd = "upload"
  BY <1>2, <1>3 DEF StepsOf
<1>5. pc[t] \in {"openMeta", "writeMeta", "undo"} => req[t].meta /\ req[t].path # MetaFile(t)
  BY <1>1, <1>3, <1>4 DEF Fits, AtItsStep
<1>6. /\ pc[t] \in {"checkSet", "unlink", "unlinkMeta", "open"} => owes[t] = {}
      /\ pc[t] \in {"write", "openMeta"} => owes[t] = {req[t].path}
      /\ pc[t] = "writeMeta" => owes[t] = {req[t].path, MetaFile(t)}
      /\ pc[t] = "undo" => owes[t] \subseteq {req[t].path, MetaFile(t)}
  BY <1>1 DEF Fits, OwesWhatItTouched
<1> QED
  BY <1>1, <1>2, <1>3, <1>4, <1>5, <1>6

\* set_metadata, whose record is made up; an unlink that fails and is recorded
\* all the same.
LEMMA MadeUpSteps ==
    ASSUME ServiceInv, NEW t \in Thread, UNCHANGED setting,
           SetMetaUnset(t) \/ UnlinkMetaFails(t)
    PROVE  ConnInv'
<1>1. /\ pc[t] \in {"checkSet", "unlinkMeta"}
      /\ UNCHANGED <<binlogVars, fileVars, req, owes, requests>>
  BY DEF SetMetaUnset, UnlinkMetaFails
<1>2. /\ ConnTypes /\ wpc'[t] = "out" /\ up' /\ owes[t] = {} /\ tainted \subseteq Path
      /\ pc[t] = "checkSet" => req[t].cmd = "setMeta"
      /\ pc[t] = "unlinkMeta" => req[t].cmd = "delete"
      /\ MetaFile(t) \in Path
  BY <1>1, BetweenCalls DEF binlogVars, inCall, inProcess
<1>3. Outside(t) /\ Fits(t)' /\ tainted' \in {tainted, tainted \cup {MetaFile(t)}}
  <2>1. CASE SetMetaUnset(t)
    <3>1. pc'[t] = "log" /\ req[t].cmd = "setMeta" /\ req' = req /\ tainted' = tainted \cup {MetaFile(t)}
      BY <1>2, <2>1 DEF SetMetaUnset, Goto, ConnTypes, Target, MetaFile
    <3>2. LogTarget(t)' = MetaFile(t) /\ RecordsLater(t)' = {}
      BY <3>1 DEF LogTarget, Target, MetaFile, RecordsLater
    <3>3. "log" \in StepsOf[req'[t].cmd]
      BY <3>1 DEF StepsOf
    <3>4. Fits(t)'
      BY <1>1, <1>2, <3>1, <3>2, <3>3, FitsBeforeCall
    <3> QED
      BY <1>1, <1>2, <2>1, <3>1, <3>4 DEF Outside, SetMetaUnset, Goto, Steps, ConnTypes
  <2>2. CASE UnlinkMetaFails(t) /\ Goto(t, "logMeta") /\ tainted' = tainted \cup {MetaFile(t)}
                                /\ status' = status
    <3>1. pc'[t] = "logMeta" /\ req[t].cmd = "delete" /\ req' = req
      BY <1>1, <1>2, <2>2 DEF UnlinkMetaFails, Goto, ConnTypes
    <3>2. LogTarget(t)' = MetaFile(t) /\ RecordsLater(t)' = {}
      BY <3>1 DEF LogTarget, Target, MetaFile, RecordsLater
    <3>3. "logMeta" \in StepsOf[req'[t].cmd]
      BY <3>1 DEF StepsOf
    <3>4. Fits(t)'
      BY <1>1, <1>2, <2>2, <3>1, <3>2, <3>3, FitsBeforeCall
    <3> QED
      BY <1>1, <1>2, <2>2, <3>1, <3>4 DEF Outside, Goto, Steps, ConnTypes
  <2>3. CASE UnlinkMetaFails(t) /\ Answer(t, "err") /\ tainted' = tainted
    <3>1. pc'[t] = "reply"
      BY <1>2, <2>3 DEF Answer, Goto, ConnTypes
    <3>2. Fits(t)'
      BY <1>1, <1>2, <3>1, FitsPlainly
    <3> QED
      BY <1>1, <1>2, <2>3, <3>2 DEF Outside, Answer, Goto, Steps, ConnTypes
  <2> QED
    BY <2>1, <2>2, <2>3 DEF UnlinkMetaFails, MetaFile
<1>4. \A p : Exists(p)' <=> Exists(p)
  BY <1>1, NamesStay
<1> QED
  BY <1>1, <1>2, <1>3, <1>4, OutsideQuiet

\* The end of a write, whole or not, to the data file or to its metadata file.
LEMMA WritingSteps ==
    ASSUME ServiceInv, NEW t \in Thread, UNCHANGED setting,
           WriteFile(t) \/ WriteMeta(t)
    PROVE  ConnInv'
<1>1. /\ pc[t] \in {"write", "writeMeta"}
      /\ UNCHANGED <<binlogVars, req, owes, tainted, requests>>
      /\ \E c \in Content : Write(t, c) \/ WriteShort(t)
  <2>1. Sent(t) \in Content
    BY ServiceAssumption DEF Sent
  <2> QED
    BY <2>1 DEF WriteFile, WriteMeta, NoTouch
<1>2. /\ ConnTypes /\ wpc'[t] = "out" /\ up' /\ tainted \subseteq Path
      /\ req[t].meta \in BOOLEAN
      /\ req[t].meta => req[t].cmd = "upload"
      /\ pc[t] = "write" => /\ req[t].cmd \in {"upload", "syncCreate", "syncUpdate"}
                            /\ owes[t] = {req[t].path}
      /\ pc[t] = "writeMeta" => /\ req[t].cmd = "upload" /\ req[t].meta
                                /\ owes[t] = {req[t].path, MetaFile(t)}
  BY <1>1, BetweenCalls DEF binlogVars, inCall, inProcess
<1>3. \/ /\ pc[t] = "write" /\ req[t].meta /\ Goto(t, "openMeta") /\ status' = status
      \/ /\ pc[t] = "write" /\ ~req[t].meta /\ Goto(t, "log") /\ status' = status
      \/ /\ pc[t] = "write" /\ Answer(t, "err")
      \/ /\ pc[t] = "writeMeta" /\ Goto(t, "log") /\ status' = status
      \/ /\ pc[t] = "writeMeta" /\ Goto(t, "undo") /\ status' = status
  BY DEF WriteFile, WriteMeta
<1>4. Outside(t) /\ Fits(t)'
  <2>1. CASE pc[t] = "write" /\ req[t].meta /\ Goto(t, "openMeta") /\ status' = status
    <3>1. pc'[t] = "openMeta" /\ req' = req /\ owes' = owes
      BY <1>1, <1>2, <2>1 DEF Goto, ConnTypes
    <3>2. Fits(t)'
      BY <1>2, <2>1, <3>1 DEF Fits, AtItsStep, StepsOf, CallIsItsOwn, OwesWhatItTouched
    <3> QED
      BY <1>1, <1>2, <2>1, <3>2 DEF Outside, Goto, Steps, ConnTypes
  <2>2. CASE Goto(t, "log") /\ status' = status
    <3>1. pc'[t] = "log" /\ req' = req /\ owes' = owes
      BY <1>1, <1>2, <2>2 DEF Goto, ConnTypes
    <3>2. LogTarget(t)' = req[t].path
      BY <1>1, <1>2, <3>1 DEF LogTarget, Target
    <3>3. RecordsLater(t)' = IF pc[t] = "writeMeta" THEN {MetaFile(t)} ELSE {}
      BY <1>1, <1>2, <1>3, <2>2, <3>1 DEF RecordsLater, MetaFile, Goto, Answer, ConnTypes
    <3>4. "log" \in StepsOf[req'[t].cmd]
      BY <1>1, <1>2, <3>1 DEF StepsOf
    <3>5. Fits(t)'
      BY <1>1, <1>2, <3>1, <3>2, <3>3, <3>4, FitsBeforeCall
    <3> QED
      BY <1>1, <1>2, <2>2, <3>5 DEF Outside, Goto, Steps, ConnTypes
  <2>3. CASE Answer(t, "err")
    <3>1. pc'[t] = "reply" /\ status'[t] = "err"
      BY <1>2, <2>3 DEF Answer, Goto, ConnTypes
    <3>2. Fits(t)'
      BY <1>1, <1>2, <3>1, FitsPlainly
    <3> QED
      BY <1>1, <1>2, <2>3, <3>2 DEF Outside, Answer, Goto, Steps, ConnTypes
  <2>4. CASE pc[t] = "writeMeta" /\ Goto(t, "undo") /\ status' = status
    <3>1. pc'[t] = "undo" /\ req' = req /\ owes' = owes
      BY <1>1, <1>2, <2>4 DEF Goto, ConnTypes
    <3>2. Fits(t)'
      BY <1>2, <2>4, <3>1 DEF Fits, AtItsStep, StepsOf, CallIsItsOwn, OwesWhatItTouched, MetaFile
    <3> QED
      BY <1>1, <1>2, <2>4, <3>2 DEF Outside, Goto, Steps, ConnTypes
  <2> QED
    BY <1>3, <2>1, <2>2, <2>3, <2>4
<1>5. \A p : Exists(p)' <=> Exists(p)
  BY <1>1, NamesStay
<1> QED
  BY <1>1, <1>2, <1>4, <1>5, OutsideQuiet

\* A step that fails before it has touched anything.
LEMMA FailingSteps ==
    ASSUME ServiceInv, NEW t \in Thread, UNCHANGED <<setting, binlogVars, fileVars, req, requests>>,
           pc[t] \in {"unlink", "open", "openMeta"}, NoTouch,
           Answer(t, "err") \/ (pc[t] = "openMeta" /\ Goto(t, "undo") /\ status' = status)
    PROVE  ConnInv'
<1>1. /\ ConnTypes /\ wpc'[t] = "out" /\ up' /\ tainted \subseteq Path
      /\ UNCHANGED <<owes, tainted>>
      /\ pc[t] = "openMeta" => /\ req[t].cmd = "upload" /\ req[t].meta
                               /\ owes[t] = {req[t].path}
  BY BetweenCalls DEF binlogVars, inCall, inProcess, NoTouch
<1>2. Outside(t) /\ Fits(t)'
  <2>1. CASE Answer(t, "err")
    <3>1. pc'[t] = "reply" /\ status'[t] = "err"
      BY <1>1, <2>1 DEF Answer, Goto, ConnTypes
    <3>2. Fits(t)'
      BY <1>1, <3>1, FitsPlainly
    <3> QED
      BY <1>1, <2>1, <3>2 DEF Outside, Answer, Goto, Steps, ConnTypes
  <2>2. CASE pc[t] = "openMeta" /\ Goto(t, "undo") /\ status' = status
    <3>1. pc'[t] = "undo" /\ req' = req /\ owes' = owes
      BY <1>1, <2>2 DEF Goto, ConnTypes
    <3>2. Fits(t)'
      BY <1>1, <2>2, <3>1 DEF Fits, AtItsStep, StepsOf, CallIsItsOwn, OwesWhatItTouched, MetaFile
    <3> QED
      BY <1>1, <2>2, <3>2 DEF Outside, Goto, Steps, ConnTypes
  <2> QED
    BY <2>1, <2>2
<1>3. \A p : Exists(p)' <=> Exists(p)
  BY NamesStay
<1> QED
  BY <1>1, <1>2, <1>3, OutsideQuiet

\* A file is removed, or was not there: its record is next.
LEMMA Removed ==
    ASSUME ServiceInv, NEW t \in Thread, NEW p \in Path, NEW k \in Steps,
           UNCHANGED <<setting, binlogVars, req, status, requests>>,
           \/ pc[t] = "unlink" /\ k = "log" /\ p = req[t].path
           \/ pc[t] = "unlinkMeta" /\ k = "logMeta" /\ p = MetaFile(t),
           Goto(t, k), Touch(t, p),
           Unlink(p) \/ (~Exists(p) /\ UNCHANGED fileVars)
    PROVE  ConnInv'
<1>1. /\ FileInv /\ ConnTypes /\ wpc'[t] = "out" /\ up'
      /\ owes[t] = {} /\ pc[t] # "reply"
      /\ pc[t] = "unlink" => req[t].cmd \in {"delete", "syncDelete"}
      /\ pc[t] = "unlinkMeta" => req[t].cmd = "delete"
  BY BetweenCalls DEF binlogVars, inCall, inProcess, ServiceInv
<1>2. ~Exists(p)' /\ \A q \in Path \ {p} : Exists(q)' <=> Exists(q)
  <2>1. CASE Unlink(p)
    BY <1>1, <2>1, NameRemoved
  <2>2. CASE ~Exists(p) /\ UNCHANGED fileVars
    BY <2>2, NamesStay
  <2> QED
    BY <2>1, <2>2
<1>3. Outside(t)
  <2>1. owes' = [owes EXCEPT ![t] = owes[t] \cup {p}]
    BY DEF Touch
  <2> QED
    BY <1>1, <2>1 DEF Outside, Goto, ConnTypes
<1>4. ASSUME owes'[t] = owes[t] \cup {p}
      PROVE  Fits(t)'
  <2>1. pc'[t] = k /\ req' = req
    BY <1>1 DEF Goto, ConnTypes
  <2>2. LogTarget(t)' = p /\ RecordsLater(t)' = {}
    BY <1>1, <2>1 DEF LogTarget, Target, MetaFile, RecordsLater
  <2>3. k \in StepsOf[req'[t].cmd]
    BY <1>1, <2>1 DEF StepsOf
  <2> QED
    BY <1>1, <1>4, <2>1, <2>2, <2>3, FitsBeforeCall
<1>5. Exists(p)' <=> req[t].cmd \notin {"delete", "syncDelete"}
  BY <1>1, <1>2
<1> QED
  BY <1>1, <1>2, <1>3, <1>4, <1>5, OutsideTouch

LEMMA RemovingSteps ==
    ASSUME ServiceInv, NEW t \in Thread, UNCHANGED setting,
           UnlinkNamed(t) \/ UnlinkAbsent(t) \/ UnlinkMeta(t)
    PROVE  ConnInv'
<1>1. /\ pc[t] \in {"unlink", "unlinkMeta"}
      /\ UNCHANGED <<setting, binlogVars, req, requests>>
  BY DEF UnlinkNamed, UnlinkAbsent, UnlinkMeta
<1>2. /\ req[t].path \in Path /\ "log" \in Steps /\ "logMeta" \in Steps
      /\ pc[t] = "unlinkMeta" => MetaFile(t) \in Path
  BY <1>1, BetweenCalls DEF Steps
<1>3. CASE UnlinkNamed(t)
  <2>1. CASE Answer(t, "err") /\ NoTouch /\ UNCHANGED fileVars
    BY <1>1, <1>3, <2>1, FailingSteps DEF UnlinkNamed
  <2> QED
    BY <1>1, <1>2, <1>3, <2>1, Removed DEF UnlinkNamed
<1>4. CASE UnlinkAbsent(t)
  <2>1. CASE Answer(t, "err") /\ NoTouch /\ UNCHANGED fileVars
    BY <1>1, <1>4, <2>1, FailingSteps DEF UnlinkAbsent
  <2> QED
    BY <1>1, <1>2, <1>4, <2>1, Removed DEF UnlinkAbsent
<1>5. CASE UnlinkMeta(t)
  BY <1>1, <1>2, <1>5, Removed DEF UnlinkMeta, MetaFile
<1> QED
  BY <1>3, <1>4, <1>5

\* A file is created or truncated.
LEMMA Created ==
    ASSUME ServiceInv, NEW t \in Thread, NEW p \in Path, NEW k \in Steps,
           UNCHANGED <<setting, binlogVars, req, status, requests>>,
           \/ pc[t] = "open" /\ k = "write" /\ p = req[t].path
           \/ pc[t] = "openMeta" /\ k = "writeMeta" /\ p = MetaFile(t),
           Goto(t, k), Touch(t, p), OpenWrite(t, p)
    PROVE  ConnInv'
<1>1. /\ FileInv /\ ConnTypes /\ wpc'[t] = "out" /\ up'
      /\ pc[t] # "reply" /\ owes[t] \subseteq Path
      /\ pc[t] = "open" => /\ req[t].cmd \in {"upload", "syncCreate", "syncUpdate"}
                           /\ owes[t] = {}
      /\ pc[t] = "openMeta" => /\ req[t].cmd = "upload" /\ req[t].meta
                               /\ owes[t] = {req[t].path}
  BY BetweenCalls DEF binlogVars, inCall, inProcess, ServiceInv
<1>2. Exists(p)' /\ \A q \in Path \ {p} : Exists(q)' <=> Exists(q)
  BY <1>1, NameMade
<1>3. Outside(t)
  <2>1. owes' = [owes EXCEPT ![t] = owes[t] \cup {p}]
    BY DEF Touch
  <2> QED
    BY <1>1, <2>1 DEF Outside, Goto, ConnTypes
<1>4. ASSUME owes'[t] = owes[t] \cup {p}
      PROVE  Fits(t)'
  <2>1. pc'[t] = k /\ req' = req
    BY <1>1 DEF Goto, ConnTypes
  <2>2. AtItsStep(t)'
    BY <1>1, <2>1 DEF AtItsStep, StepsOf
  <2>3. CallIsItsOwn(t)'
    BY <1>1 DEF CallIsItsOwn
  <2>4. MetaFile(t)' = MetaFile(t)
    BY <2>1 DEF MetaFile
  <2>5. OwesWhatItTouched(t)'
    BY <1>1, <1>4, <2>1, <2>4 DEF OwesWhatItTouched
  <2> QED
    BY <2>2, <2>3, <2>5 DEF Fits
<1>5. Exists(p)' <=> req[t].cmd \notin {"delete", "syncDelete"}
  BY <1>1, <1>2
<1> QED
  BY <1>1, <1>2, <1>3, <1>4, <1>5, OutsideTouch

LEMMA CreatingSteps ==
    ASSUME ServiceInv, NEW t \in Thread, UNCHANGED setting,
           OpenToWrite(t) \/ OpenMetaToWrite(t)
    PROVE  ConnInv'
<1>1. /\ pc[t] \in {"open", "openMeta"}
      /\ UNCHANGED <<setting, binlogVars, req, requests>>
  BY DEF OpenToWrite, OpenMetaToWrite
<1>2. /\ req[t].path \in Path /\ "write" \in Steps /\ "writeMeta" \in Steps
      /\ pc[t] = "openMeta" => MetaFile(t) \in Path
  BY <1>1, BetweenCalls DEF Steps
<1>3. CASE OpenToWrite(t)
  <2>1. CASE Answer(t, "err") /\ NoTouch /\ UNCHANGED fileVars
    BY <1>1, <1>3, <2>1, FailingSteps DEF OpenToWrite
  <2> QED
    BY <1>1, <1>2, <1>3, <2>1, Created DEF OpenToWrite
<1>4. CASE OpenMetaToWrite(t)
  <2>1. CASE Goto(t, "undo") /\ NoTouch /\ UNCHANGED fileVars
    BY <1>1, <1>4, <2>1, FailingSteps DEF OpenMetaToWrite
  <2> QED
    BY <1>1, <1>2, <1>4, <2>1, Created DEF OpenMetaToWrite, MetaFile
<1> QED
  BY <1>3, <1>4

\* The data file of an upload that failed is removed again.
LEMMA UndoStep ==
    ASSUME ServiceInv, NEW t \in Thread, UNCHANGED setting, UndoUpload(t)
    PROVE  ConnInv'
<1> DEFINE p == req[t].path
<1>1. /\ pc[t] = "undo" /\ UNCHANGED <<setting, binlogVars, req, requests>>
      /\ Unlink(p) \/ UNCHANGED fileVars
      /\ Touch(t, p) /\ Answer(t, "err")
  BY DEF UndoUpload
<1>2. /\ FileInv /\ ConnTypes /\ wpc'[t] = "out" /\ up'
      /\ p \in Path /\ owes[t] \subseteq Path
  BY <1>1, BetweenCalls DEF binlogVars, inCall, inProcess, ServiceInv
<1>3. \A q \in Path \ {p} : Exists(q)' <=> Exists(q)
  BY <1>1, <1>2, NameRemoved, NamesStay
<1>4. pc'[t] = "reply" /\ status'[t] = "err"
  BY <1>1, <1>2 DEF Answer, Goto, ConnTypes
<1>5. Fits(t)'
  BY <1>2, <1>4, FitsPlainly
<1>6. Outside(t)
  <2>1. owes' = [owes EXCEPT ![t] = owes[t] \cup {p}]
    BY <1>1 DEF Touch
  <2> QED
    BY <1>1, <1>2, <2>1 DEF Outside, Answer, Goto, Steps, ConnTypes
<1> HIDE DEF p
<1> QED
  BY <1>1, <1>2, <1>3, <1>4, <1>5, <1>6, OutsideTouch

-----------------------------------------------------------------------------
(* Steps inside storage_binlog_write.                                      *)

\* What is known of a thread at a call of storage_binlog_write.
LEMMA AtACall ==
    ASSUME ServiceInv, NEW t \in Thread, pc[t] \in {"log", "logMeta"}
    PROVE  /\ BinlogInv /\ LogIsThere /\ Numbered /\ ConnInv /\ ConnTypes /\ Fits(t) /\ up
           /\ LogTarget(t) \in Path
           /\ OpsOf[req[t].cmd] \subseteq Op
           /\ req[t].cmd \in {"setMeta", "delete", "syncDelete", "upload", "syncCreate", "syncUpdate"}
           /\ pc[t] = "logMeta" => req[t].cmd \in {"delete", "upload"}
           /\ req[t].meta \in BOOLEAN
           /\ req[t].cmd = "setMeta" => owes[t] = {}
           /\ LogTarget(t) \notin RecordsLater(t)
           /\ tainted \subseteq Path /\ owes[t] \subseteq Path
<1>1. BinlogInv /\ LogIsThere /\ Numbered /\ ConnInv /\ ConnTypes /\ Fits(t) /\ up
  BY InvParts DEF ConnInv, Fits, AtItsStep
<1>2. /\ LogTarget(t) \in Path
      /\ LogTarget(t) = IF pc[t] = "logMeta" \/ req[t].cmd = "setMeta"
                        THEN MetaFile(t) ELSE req[t].path
      /\ OpsOf[req[t].cmd] \subseteq Op
      /\ req[t].cmd \in {"setMeta", "delete", "syncDelete", "upload", "syncCreate", "syncUpdate"}
  BY <1>1, LogFacts DEF Fits
<1>3. /\ req[t].meta \in BOOLEAN
      /\ req[t].meta => req[t].cmd = "upload"
      /\ req[t].cmd \in {"getMeta", "setMeta", "delete", "upload"} =>
           req[t].path \in DataFile /\ MetaFile(t) \in Path \ DataFile
  BY <1>1, RequestFacts
<1>4. pc[t] = "logMeta" => req[t].cmd \in {"delete", "upload"}
  BY <1>1, <1>3 DEF Fits, AtItsStep
<1>5. req[t].cmd = "setMeta" => owes[t] = {}
  BY <1>1 DEF Fits, OwesWhatItTouched, RecordsNext, RecordsLater
<1>6. LogTarget(t) \notin RecordsLater(t)
  BY <1>2, <1>3 DEF RecordsLater
<1>7. tainted \subseteq Path /\ owes[t] \subseteq Path
  BY <1>1 DEF ConnTypes
<1> QED
  BY <1>1, <1>2, <1>3, <1>4, <1>5, <1>6, <1>7

\* The call begins.
LEMMA LogCallStep ==
    ASSUME ServiceInv, NEW t \in Thread, UNCHANGED setting, LogCall(t)
    PROVE  ConnInv' /\ \E op \in Op, path \in Path : BinlogCall(t, op, path)
<1>1. pc[t] \in {"log", "logMeta"} /\ UNCHANGED <<fileVars, serviceVars>>
  BY DEF LogCall
<1>2. PICK op \in OpsOf[req[t].cmd] : BinlogCall(t, op, LogTarget(t))
  BY DEF LogCall
<1>3. /\ BinlogInv /\ ConnInv /\ ConnTypes /\ Fits(t)
      /\ op \in Op /\ LogTarget(t) \in Path
  BY <1>1, AtACall
<1>4. /\ wpc \in [Thread -> CallStates] /\ wrec \in [Thread -> Record \cup {NoRecord}]
      /\ wres \in [Thread -> {"ok", "err"}]
  BY <1>3 DEF BinlogInv, BinlogTypeOK
<1>5. /\ wpc[t] = "out" /\ wpc'[t] \in {"print", "done"} /\ (wpc'[t] = "done" => wres'[t] = "err")
      /\ wrec'[t].path = LogTarget(t) /\ wrec'[t].op = op
      /\ up' = up /\ Printed' = Printed
      /\ \A u \in Thread \ {t} : wpc'[u] = wpc[u] /\ wrec'[u] = wrec[u] /\ wres'[u] = wres[u]
  BY <1>2, <1>4 DEF BinlogCall, Called, inProcess, Printed
<1>6. UNCHANGED <<pc, req, status, owes, tainted, requests>>
  BY <1>1 DEF serviceVars, connVars
<1>7. OthersStay(t)
  BY <1>5, <1>6 DEF OthersStay
<1>8. Fits(t)'
  <2>1. LogTarget(t)' = LogTarget(t) /\ RecordsLater(t)' = RecordsLater(t)
    BY <1>6 DEF LogTarget, Target, RecordsLater, MetaFile
  <2>2. ~HasPrinted(t) /\ ~HasPrinted(t)'
    BY <1>5 DEF HasPrinted, Flushed
  <2>3. RecordsNext(t)' = RecordsNext(t)
    BY <1>6, <2>1, <2>2 DEF RecordsNext
  <2>4. AtItsStep(t)'
    BY <1>3, <1>5, <1>6 DEF Fits, AtItsStep, StepsOf
  <2>5. CallIsItsOwn(t)'
    BY <1>1, <1>2, <1>5, <1>6, <2>1 DEF CallIsItsOwn, OpsOf
  <2>6. OwesWhatItTouched(t)'
    BY <1>1, <1>3, <1>5, <1>6, <2>1, <2>3 DEF Fits, OwesWhatItTouched
  <2> QED
    BY <2>4, <2>5, <2>6 DEF Fits
<1>9. \A u \in Thread : Fits(u)'
  BY <1>3, <1>5, <1>6, <1>7, <1>8, OthersFit
<1>10. Debts'
  <2>1. \A p \in Path : Exists(p)' <=> Exists(p)
    BY <1>1, NamesStay
  <2>2. pc[t] # "reply"
    BY <1>1
  <2> QED
    BY <1>3, <1>5, <1>6, <1>7, <2>1, <2>2, QuietDebts
<1>11. ConnTypes'
  BY <1>3, <1>6 DEF ConnTypes
<1> QED
  BY <1>2, <1>3, <1>9, <1>10, <1>11 DEF ConnInv

\* The call returns, and the handler goes on.
LEMMA LogReturnStep ==
    ASSUME ServiceInv, NEW t \in Thread, UNCHANGED setting, LogReturn(t)
    PROVE  ConnInv'
<1>1. /\ pc[t] \in {"log", "logMeta"} /\ BinlogReturn(t)
      /\ UNCHANGED <<setting, fileVars, req, owes, tainted, requests>>
  BY DEF LogReturn
<1>2. /\ BinlogInv /\ ConnInv /\ ConnTypes /\ Fits(t) /\ up
      /\ tainted \subseteq Path /\ req[t].meta \in BOOLEAN
      /\ req[t].cmd \in {"setMeta", "delete", "syncDelete", "upload", "syncCreate", "syncUpdate"}
  BY <1>1, AtACall
<1>3. /\ wpc \in [Thread -> CallStates] /\ wrec \in [Thread -> Record \cup {NoRecord}]
      /\ wres \in [Thread -> {"ok", "err"}]
  BY <1>2 DEF BinlogInv, BinlogTypeOK
<1>4. /\ wpc[t] = "done" /\ wpc'[t] = "out" /\ up' = up /\ Printed' = Printed
      /\ \A u \in Thread \ {t} : wpc'[u] = wpc[u] /\ wrec'[u] = wrec[u] /\ wres'[u] = wres[u]
  BY <1>1, <1>3 DEF BinlogReturn, inProcess, Printed
<1>5. wres[t] = "ok" => owes[t] \subseteq RecordsLater(t) /\ RecordsLater(t) \subseteq owes[t]
  BY <1>1, <1>2, <1>4 DEF Fits, OwesWhatItTouched, RecordsNext, HasPrinted, Flushed
<1>6. /\ \E k \in Steps : pc' = [pc EXCEPT ![t] = k]
      /\ status' = status \/ \E s \in {"ok", "exists", "err"} : status' = [status EXCEPT ![t] = s]
  BY DEF LogReturn, Answer, Goto, Steps
<1>7. Fits(t)'
  <2>1. CASE Answer(t, "err")
    <3>1. pc'[t] = "reply" /\ status'[t] = "err"
      BY <1>2, <2>1 DEF Answer, Goto, ConnTypes
    <3> QED
      BY <1>2, <1>4, <3>1, FitsPlainly
  <2>2. CASE /\ wres[t] = "ok" /\ pc[t] = "log" /\ req[t].cmd = "delete"
             /\ Goto(t, "unlinkMeta")
    <3>1. pc'[t] = "unlinkMeta" /\ pc'[t] \in StepsOf[req'[t].cmd] /\ owes'[t] = {}
      BY <1>1, <1>2, <1>5, <2>2 DEF Goto, StepsOf, ConnTypes, RecordsLater
    <3> QED
      BY <1>2, <1>4, <3>1, FitsPlainly
  <2>3. CASE /\ wres[t] = "ok" /\ pc[t] = "log" /\ req[t].cmd = "upload" /\ req[t].meta
             /\ Goto(t, "logMeta")
    <3>1. pc'[t] = "logMeta" /\ pc'[t] \in StepsOf[req'[t].cmd]
      BY <1>1, <1>2, <2>3 DEF Goto, StepsOf, ConnTypes
    <3>2. RecordsLater(t)' = {} /\ LogTarget(t)' = MetaFile(t)
      BY <1>1, <3>1 DEF RecordsLater, LogTarget, MetaFile
    <3>3. owes'[t] = {MetaFile(t)}
      BY <1>1, <1>5, <2>3 DEF RecordsLater
    <3> QED
      BY <1>1, <1>2, <1>4, <2>3, <3>1, <3>2, <3>3, FitsBeforeCall
  <2>4. CASE /\ wres[t] = "ok" /\ Answer(t, "ok")
             /\ pc[t] = "log" => req[t].cmd # "delete" /\ ~req[t].meta
    <3>1. pc'[t] = "reply" /\ owes'[t] = {}
      BY <1>1, <1>2, <1>5, <2>4 DEF Answer, Goto, ConnTypes, RecordsLater
    <3> QED
      BY <1>2, <1>4, <3>1, FitsPlainly
  <2> QED
    BY <2>1, <2>2, <2>3, <2>4 DEF LogReturn
<1>8. OthersStay(t)
  BY <1>1, <1>2, <1>4, <1>6 DEF OthersStay, ConnTypes
<1>9. \A u \in Thread : Fits(u)'
  BY <1>1, <1>2, <1>4, <1>7, <1>8, OthersFit
<1>10. Debts'
  <2>1. \A p \in Path : Exists(p)' <=> Exists(p)
    BY <1>1, NamesStay
  <2>2. pc[t] # "reply"
    BY <1>1
  <2> QED
    BY <1>1, <1>2, <1>4, <1>8, <2>1, <2>2, QuietDebts
<1>11. ConnTypes'
  BY <1>1, <1>2, <1>6 DEF ConnTypes
<1> QED
  BY <1>9, <1>10, <1>11 DEF ConnInv

\* One more record decides for its file, and for no other.
LEMMA OneMoreRecord ==
    ASSUME Printed \in Seq(Record), NEW r \in Record, Printed' = Append(Printed, r), NEW p
    PROVE  /\ r.path # p => (RecordedAsPresent(p)' <=> RecordedAsPresent(p))
           /\ r.path = p => (RecordedAsPresent(p)' <=> r.op \in CreateOps \cup UpdateOps)
<1> DEFINE n == Len(Printed)
<1>1. /\ n \in Nat /\ DOMAIN Printed = 1 .. n /\ DOMAIN Printed' = 1 .. n + 1
      /\ \A i \in 1 .. n : Printed'[i] = Printed[i]
      /\ Printed'[n + 1] = r
  BY LenProperties, AppendProperties
<1> HIDE DEF n
<1>2. ASSUME r.path # p
      PROVE  RecordedAsPresent(p)' <=> RecordedAsPresent(p)
  <2>1. RecordsOf(p)' = RecordsOf(p)
    <3>1. \A i : i \in RecordsOf(p)' <=> i \in DOMAIN Printed' /\ Printed'[i].path = p
      BY DEF RecordsOf
    <3>2. \A i : i \in RecordsOf(p) <=> i \in DOMAIN Printed /\ Printed[i].path = p
      BY DEF RecordsOf
    <3>3. \A i : i \in DOMAIN Printed' <=> i \in DOMAIN Printed \/ i = n + 1
      BY <1>1
    <3>4. \A i : i \in DOMAIN Printed => Printed'[i] = Printed[i]
      BY <1>1
    <3>5. \A i : i \in RecordsOf(p)' <=> i \in RecordsOf(p)
      BY <1>1, <1>2, <3>1, <3>2, <3>3, <3>4
    <3> QED
      BY <3>5 DEF RecordsOf
  <2>2. \A i \in RecordsOf(p) : Printed'[i] = Printed[i]
    BY <1>1 DEF RecordsOf
  <2> QED
    BY <2>1, <2>2 DEF RecordedAsPresent
<1>3. ASSUME r.path = p
      PROVE  RecordedAsPresent(p)' <=> r.op \in CreateOps \cup UpdateOps
  <2>1. n + 1 \in RecordsOf(p)'
    BY <1>1, <1>3 DEF RecordsOf
  <2>2. \A i \in RecordsOf(p)' : i \in 1 .. n + 1
    BY <1>1 DEF RecordsOf
  <2>3. ASSUME NEW last \in RecordsOf(p)', \A i \in RecordsOf(p)' : i <= last
        PROVE  last = n + 1
    <3>1. n + 1 <= last /\ last \in 1 .. n + 1
      BY <2>1, <2>2, <2>3
    <3> QED
      BY <1>1, <3>1
  <2>4. \A i \in RecordsOf(p)' : i <= n + 1
    BY <1>1, <2>2
  <2> QED
    BY <1>1, <2>1, <2>3, <2>4 DEF RecordedAsPresent
<1> QED
  BY <1>2, <1>3

\* Records that go missing at the end change nothing for the files they are
\* not about.
LEMMA RecordsCut ==
    ASSUME Printed \in Seq(Record), Printed' \in Seq(Record), Len(Printed') <= Len(Printed),
           \A i \in 1 .. Len(Printed') : Printed'[i] = Printed[i],
           NEW p, \A j \in Len(Printed') + 1 .. Len(Printed) : Printed[j].path # p
    PROVE  RecordedAsPresent(p)' <=> RecordedAsPresent(p)
<1> DEFINE m == Len(Printed')
           n == Len(Printed)
<1>1. m \in Nat /\ n \in Nat /\ DOMAIN Printed' = 1 .. m /\ DOMAIN Printed = 1 .. n /\ m <= n
  BY LenProperties
<1>2. /\ \A i \in 1 .. m : Printed'[i] = Printed[i]
      /\ \A j \in m + 1 .. n : Printed[j].path # p
  OBVIOUS
<1> HIDE DEF m, n
<1>3. \A i \in 1 .. n : i \in 1 .. m \/ i \in m + 1 .. n
  BY <1>1
<1>4. \A i \in 1 .. m : i \in 1 .. n
  BY <1>1
<1>5. RecordsOf(p)' = RecordsOf(p)
  <2>1. \A i \in RecordsOf(p)' : i \in RecordsOf(p)
    BY <1>1, <1>2, <1>4 DEF RecordsOf
  <2>2. \A i \in RecordsOf(p) : i \in RecordsOf(p)'
    BY <1>1, <1>2, <1>3 DEF RecordsOf
  <2> QED
    BY <2>1, <2>2, Zenon
<1>6. \A i \in RecordsOf(p)' : Printed'[i] = Printed[i]
  BY <1>1, <1>2 DEF RecordsOf
<1> QED
  BY <1>5, <1>6 DEF RecordedAsPresent

\* What a step inside the call has in common.
LEMMA InsideFacts ==
    ASSUME ServiceInv, NEW t \in Thread, UNCHANGED setting, LogStep(t)
    PROVE  /\ pc[t] \in {"log", "logMeta"} /\ wpc[t] \notin {"out", "done"}
           /\ wpc \in [Thread -> CallStates] /\ wrec' = wrec
           /\ wrec[t].path = LogTarget(t) /\ wrec[t].op \in OpsOf[req[t].cmd]
           /\ UNCHANGED <<up, pc, req, status, requests, fileVars>>
           /\ owes' = [owes EXCEPT ![t] = IF wpc[t] = "print" THEN @ \ {wrec[t].path} ELSE @]
           /\ owes'[t] = IF wpc[t] = "print" THEN owes[t] \ {LogTarget(t)} ELSE owes[t]
           /\ tainted \subseteq tainted' /\ tainted' \subseteq Path
           /\ OthersStay(t) /\ ConnTypes'
           /\ \E k \in CallStates : wpc' = [wpc EXCEPT ![t] = k]
<1>1. /\ BinlogStep(t) /\ UNCHANGED <<fileVars, connVars, requests>>
      /\ owes' = [owes EXCEPT ![t] = IF wpc[t] = "print" THEN @ \ {wrec[t].path} ELSE @]
      /\ tainted' = tainted \cup {r.path : r \in Range(buf) \ (Range(log'.recs) \cup Range(buf'))}
  BY DEF LogStep
<1>2. BinlogInv /\ ConnInv /\ ConnTypes /\ Fits(t)
  BY InvParts DEF ConnInv
<1>3. /\ wpc \in [Thread -> CallStates] /\ wres \in [Thread -> {"ok", "err"}]
      /\ buf \in Seq(Record)
  BY <1>2 DEF BinlogInv, BinlogTypeOK
<1>4. /\ wpc[t] \notin {"out", "done"} /\ wrec' = wrec /\ up' = up
      /\ wres' = wres \/ \E s \in {"ok", "err"} : wres' = [wres EXCEPT ![t] = s]
      /\ \E k \in {"flush", "load", "store", "check", "rotate", "done"} : wpc' = [wpc EXCEPT ![t] = k]
  BY <1>1 DEF BinlogStep, PrintRecord, PrintFull, Flush, FlushFails, LoadSize, StoreSize,
              CheckSize, RotateFails, Finish, inProcess
<1>5. /\ pc[t] \in {"log", "logMeta"} /\ wrec[t].path = LogTarget(t)
      /\ wrec[t].op \in OpsOf[req[t].cmd]
  BY <1>2, <1>4 DEF Fits, CallIsItsOwn
<1>6. UNCHANGED <<pc, req, status>>
  BY <1>1 DEF connVars
<1>7. owes'[t] = IF wpc[t] = "print" THEN owes[t] \ {LogTarget(t)} ELSE owes[t]
  BY <1>1, <1>2, <1>5 DEF ConnTypes
<1>8. tainted \subseteq tainted' /\ tainted' \subseteq Path
  <2>1. \A r \in Range(buf) : r \in Record
    BY <1>3 DEF Range
  <2>2. \A r \in Range(buf) : r.path \in Path
    BY <2>1 DEF Record
  <2> QED
    BY <1>1, <1>2, <2>2 DEF ConnTypes
<1>9. OthersStay(t)
  BY <1>1, <1>2, <1>3, <1>4, <1>6 DEF OthersStay, ConnTypes
<1>10. ConnTypes'
  BY <1>1, <1>2, <1>6, <1>8 DEF ConnTypes
<1>11. \E k \in CallStates : wpc' = [wpc EXCEPT ![t] = k]
  BY <1>4 DEF CallStates
<1> QED
  BY <1>1, <1>3, <1>4, <1>5, <1>6, <1>7, <1>8, <1>9, <1>10, <1>11

\* Such a step leaves the thread where its handler is, its debts as they are,
\* or paid by the record it prints.
LEMMA InsideFits ==
    ASSUME ServiceInv, NEW t \in Thread, UNCHANGED setting, LogStep(t)
    PROVE  \A u \in Thread : Fits(u)'
<1>1. /\ pc[t] \in {"log", "logMeta"} /\ wpc[t] \notin {"out", "done"}
      /\ wpc \in [Thread -> CallStates] /\ wrec' = wrec
      /\ wrec[t].path = LogTarget(t) /\ wrec[t].op \in OpsOf[req[t].cmd]
      /\ UNCHANGED <<up, pc, req, status>>
      /\ owes'[t] = IF wpc[t] = "print" THEN owes[t] \ {LogTarget(t)} ELSE owes[t]
      /\ tainted \subseteq tainted'
      /\ OthersStay(t)
  BY InsideFacts
<1>2. ConnInv /\ Fits(t) /\ LogTarget(t) \notin RecordsLater(t) /\ BinlogInv
  BY <1>1, AtACall
<1>3. wres \in [Thread -> {"ok", "err"}]
  BY <1>2 DEF BinlogInv, BinlogTypeOK
<1>4. LogTarget(t)' = LogTarget(t) /\ RecordsLater(t)' = RecordsLater(t)
  BY <1>1 DEF LogTarget, Target, RecordsLater, MetaFile
<1>5. AtItsStep(t)'
  BY <1>1, <1>2 DEF Fits, AtItsStep, StepsOf
<1>6. CallIsItsOwn(t)'
  BY <1>1, <1>4 DEF CallIsItsOwn, OpsOf
<1>7. /\ wpc'[t] \notin {"out", "print"}
      /\ wpc[t] # "print" /\ HasPrinted(t)' => HasPrinted(t)
  BY <1>1, <1>3 DEF LogStep, BinlogStep, PrintRecord, PrintFull, Flush, FlushFails, LoadSize,
              StoreSize, CheckSize, RotateFails, Finish, HasPrinted, Flushed
<1>8. RecordsNext(t) \subseteq {LogTarget(t)}
  BY DEF RecordsNext
<1>9. owes'[t] \subseteq RecordsNext(t)' \cup RecordsLater(t)'
  <2>1. CASE wpc[t] = "print"
    BY <1>1, <1>2, <1>4, <1>8, <2>1 DEF Fits, OwesWhatItTouched
  <2>2. CASE wpc[t] # "print"
    <3>1. RecordsNext(t) \subseteq RecordsNext(t)'
      BY <1>1, <1>4, <1>7, <2>2 DEF RecordsNext
    <3> QED
      BY <1>1, <1>2, <1>4, <2>2, <3>1 DEF Fits, OwesWhatItTouched
  <2> QED
    BY <2>1, <2>2
<1>10. RecordsLater(t)' \subseteq owes'[t]
  BY <1>1, <1>2, <1>4 DEF Fits, OwesWhatItTouched
<1>11. OwesWhatItTouched(t)'
  BY <1>1, <1>7, <1>9, <1>10 DEF OwesWhatItTouched
<1>12. \A u \in Thread \ {t} : Fits(u)'
  BY <1>1, <1>2, OthersFit
<1> QED
  BY <1>5, <1>6, <1>11, <1>12 DEF Fits

\* The records a failing fflush drops are on files that are spoilt from then on.
LEMMA DroppedAreSpoilt ==
    ASSUME ServiceInv, NEW t \in Thread, LogStep(t), FlushFails(t)
    PROVE  /\ Printed \in Seq(Record) /\ Printed' \in Seq(Record)
           /\ Len(Printed') <= Len(Printed)
           /\ \A i \in 1 .. Len(Printed') : Printed'[i] = Printed[i]
           /\ \A j \in Len(Printed') + 1 .. Len(Printed) : Printed[j].path \in tainted'
<1>1. BinlogInv /\ LoggedOnce
  BY DEF ServiceInv, Numbered
<1>2. PICK n \in 0 .. Len(buf) - 1 :
        /\ Printed' \in Seq(Record) /\ Len(Printed') = Len(log.recs) + n
        /\ \A i \in 1 .. Len(Printed') : Printed'[i] = Printed[i]
        /\ Range(SubSeq(buf, n + 1, Len(buf)))
             = {Printed[j] : j \in Len(log.recs) + n + 1 .. Len(Printed)}
  BY <1>1, FlushFailsFacts
<1>3. /\ Printed \in Seq(Record) /\ Len(Printed) = Len(log.recs) + Len(buf)
      /\ log.recs \in Seq(Record) /\ buf \in Seq(Record)
      /\ Len(log.recs) \in Nat /\ Len(buf) \in Nat
  BY <1>1, PrintedIsSeq, LenProperties DEF BinlogInv
<1>4. log'.recs = Printed' /\ Range(buf') = {}
  <2>1. BinlogInv' /\ buf' = <<>>
    BY <1>1, FlushFailsInv DEF FlushFails
  <2>2. log'.recs \in Seq(Record)
    BY <2>1 DEF BinlogInv, BinlogTypeOK
  <2> QED
    BY <2>1, <2>2, ConcatEmptySeq, RangeEmpty DEF Printed
<1>5. \A r \in Range(buf) : r \in Range(log'.recs) \/ r.path \in tainted'
  BY <1>4 DEF LogStep
<1>6. ASSUME NEW j \in Len(Printed') + 1 .. Len(Printed)
      PROVE  Printed[j].path \in tainted'
  <2>1. Printed[j] \in Range(SubSeq(buf, n + 1, Len(buf)))
    BY <1>2
  <2>2. Range(buf) = Range(SubSeq(buf, 1, n)) \cup Range(SubSeq(buf, n + 1, Len(buf)))
    BY <1>3, CutProperties, Zenon
  <2>3. ASSUME Printed[j] \in Range(log'.recs)
        PROVE  FALSE
    <3>1. PICK i \in 1 .. Len(Printed') : Printed'[i] = Printed[j]
      BY <1>2, <1>4, <2>3 DEF Range
    <3>2. i \in DOMAIN Printed /\ j \in DOMAIN Printed /\ i # j /\ Printed[i] = Printed[j]
      BY <1>2, <1>3, <3>1, SMTT(30)
    <3> QED
      BY <1>1, <3>2, Zenon DEF LoggedOnce
  <2> QED
    BY <1>5, <2>1, <2>2, <2>3
<1>7. Len(Printed') <= Len(Printed)
  BY <1>2, <1>3
<1> QED
  BY <1>2, <1>3, <1>6, <1>7

LEMMA InsideDebts ==
    ASSUME ServiceInv, NEW t \in Thread, UNCHANGED setting, LogStep(t)
    PROVE  Debts'
<1>1. /\ pc[t] \in {"log", "logMeta"} /\ wpc[t] \notin {"out", "done"}
      /\ wrec[t].path = LogTarget(t) /\ wrec[t].op \in OpsOf[req[t].cmd]
      /\ UNCHANGED <<pc, req, fileVars>>
      /\ owes'[t] = IF wpc[t] = "print" THEN owes[t] \ {LogTarget(t)} ELSE owes[t]
      /\ tainted \subseteq tainted' /\ OthersStay(t)
  BY InsideFacts
<1>2. /\ BinlogInv /\ LogIsThere /\ ConnInv /\ ConnTypes /\ Fits(t)
      /\ req[t].cmd \in {"setMeta", "delete", "syncDelete", "upload", "syncCreate", "syncUpdate"}
      /\ req[t].cmd = "setMeta" => owes[t] = {}
  BY <1>1, AtACall
<1>3. \A p \in Path : Exists(p)' <=> Exists(p)
  BY <1>1, NamesStay
<1>4. /\ OneDebtor /\ DebtIsDue /\ LastRecordAgrees
      /\ \A u \in Thread : owes[u] \subseteq Path
  BY <1>2 DEF ConnInv, Debts, ConnTypes
<1>5. \A u \in Thread : owes'[u] \subseteq owes[u]
  BY <1>1 DEF OthersStay
<1>6. OneDebtor'
  BY <1>1, <1>4, <1>5 DEF OneDebtor
<1>7. DebtIsDue'
  BY <1>1, <1>3, <1>4, <1>5 DEF DebtIsDue
<1>8. CASE PrintRecord(t) \/ PrintFull(t)
  <2>1. /\ wpc[t] = "print" /\ Printed \in Seq(Record)
        /\ Printed' = Append(Printed, wrec[t]) /\ wrec[t] \in Record
    BY <1>2, <1>8, PrintedSteps, PrintedIsSeq DEF PrintRecord, PrintFull, BinlogInv
  <2>2. ASSUME NEW p \in Path, p \notin tainted', \A u \in Thread : p \notin owes'[u],
               p # LogTarget(t)
        PROVE  Exists(p)' <=> RecordedAsPresent(p)'
    <3>1. \A u \in Thread : p \notin owes[u]
      BY <1>1, <2>2 DEF OthersStay
    <3>2. Exists(p) <=> RecordedAsPresent(p)
      BY <1>1, <1>4, <2>2, <3>1 DEF LastRecordAgrees
    <3>3. RecordedAsPresent(p)' <=> RecordedAsPresent(p)
      BY <1>1, <2>1, <2>2, OneMoreRecord
    <3> QED
      BY <1>3, <3>2, <3>3
  <2>3. ASSUME NEW p \in Path, p \notin tainted', p = LogTarget(t)
        PROVE  Exists(p)' <=> RecordedAsPresent(p)'
    <3>1. p \in owes[t] \ tainted
      BY <1>1, <1>2, <2>1, <2>3 DEF Fits, OwesWhatItTouched
    <3>2. Exists(p) <=> req[t].cmd \notin {"delete", "syncDelete"}
      BY <1>1, <1>4, <3>1 DEF DebtIsDue
    <3>3. req[t].cmd # "setMeta"
      BY <1>2, <3>1
    <3>4. wrec[t].op \in CreateOps \cup UpdateOps <=> req[t].cmd \notin {"delete", "syncDelete"}
      BY <1>1, <1>2, <3>3 DEF OpsOf, CreateOps, UpdateOps
    <3>5. RecordedAsPresent(p)' <=> wrec[t].op \in CreateOps \cup UpdateOps
      BY <1>1, <2>1, <2>3, OneMoreRecord
    <3> QED
      BY <1>3, <3>2, <3>4, <3>5
  <2> QED
    BY <1>6, <1>7, <2>2, <2>3 DEF Debts, LastRecordAgrees
<1>9. CASE FlushFails(t)
  <2>1. wpc[t] # "print"
    BY <1>9 DEF FlushFails
  <2>2. \A u \in Thread : owes'[u] = owes[u]
    BY <1>1, <2>1 DEF OthersStay
  <2>3. \A p : p \notin tainted' => (RecordedAsPresent(p)' <=> RecordedAsPresent(p))
    BY <1>9, DroppedAreSpoilt, RecordsCut
  <2>4. LastRecordAgrees'
    BY <1>1, <1>3, <1>4, <2>2, <2>3, AgreementKept
  <2> QED
    BY <1>6, <1>7, <2>4 DEF Debts
<1>10. CASE Flush(t) \/ LoadSize(t) \/ StoreSize(t) \/ CheckSize(t) \/ RotateFails(t)
  <2>1. wpc[t] # "print"
    BY <1>10 DEF Flush, LoadSize, StoreSize, CheckSize, RotateFails
  <2>2. Printed' = Printed
    BY <1>2, <1>10, PrintedSteps
       DEF LoadSize, StoreSize, CheckSize, RotateFails, inProcess, Printed
  <2>3. owes'[t] = owes[t] /\ pc[t] # "reply"
    BY <1>1, <2>1
  <2> QED
    BY <1>1, <1>2, <1>3, <2>2, <2>3, QuietDebts
<1> QED
  BY <1>8, <1>9, <1>10 DEF LogStep, BinlogStep

LEMMA InsideStep ==
    ASSUME ServiceInv, NEW t \in Thread, UNCHANGED setting, LogStep(t)
    PROVE  ConnInv'
BY InsideFacts, InsideFits, InsideDebts DEF ConnInv

-----------------------------------------------------------------------------
(* The end of the process and its start.                                   *)

\* What the process takes with it is on files that are spoilt from then on.
LEMMA EndStep ==
    ASSUME ServiceInv, UNCHANGED setting, ProcessEnds, EndLeaves, ServiceEnds
    PROVE  ConnInv'
<1>1. BinlogInv /\ ConnInv /\ ConnTypes /\ LastRecordAgrees
  BY InvParts DEF ConnInv, Debts
<1>2. /\ pc' = [t \in Thread |-> "idle"]
      /\ req' = [t \in Thread |-> NoRequest]
      /\ status' = [t \in Thread |-> "ok"]
      /\ owes' = [t \in Thread |-> {}]
      /\ tainted' = tainted \cup (UNION {owes[t] : t \in Thread}) \cup {r.path : r \in Range(buf)}
      /\ UNCHANGED requests
      /\ wpc' = [t \in Thread |-> "out"] /\ buf' = <<>>
  BY DEF ServiceEnds, ProcessEnds
<1>3. /\ Printed \in Seq(Record) /\ Len(Printed) = Len(log.recs) + Len(buf)
      /\ log.recs \in Seq(Record) /\ buf \in Seq(Record)
      /\ Len(log.recs) \in Nat /\ Len(buf) \in Nat
      /\ \A i \in 1 .. Len(log.recs) : Printed[i] = log.recs[i]
  BY <1>1, PrintedIsSeq, LenProperties DEF BinlogInv
<1>4. tainted \subseteq tainted' /\ tainted' \subseteq Path
  <2>1. \A r \in Range(buf) : r \in Record
    BY <1>3 DEF Range
  <2>2. \A r \in Range(buf) : r.path \in Path
    BY <2>1 DEF Record
  <2>3. tainted \subseteq Path /\ \A t \in Thread : owes[t] \subseteq Path
    BY <1>1 DEF ConnTypes
  <2> QED
    BY <1>2, <2>2, <2>3
<1>5. ConnTypes'
  BY <1>1, <1>2, <1>4 DEF ConnTypes, Steps, Served
<1>6. \A t \in Thread : Fits(t)'
  BY <1>2, FitsPlainly
<1>7. OneDebtor' /\ DebtIsDue'
  BY <1>2 DEF OneDebtor, DebtIsDue
<1>8. /\ Printed' \in Seq(Record)
      /\ Len(log.recs) <= Len(Printed') /\ Len(Printed') <= Len(Printed)
      /\ \A i \in 1 .. Len(Printed') : Printed'[i] = Printed[i]
  <2>1. CASE log' = log
    <3>1. Printed' = log.recs
      BY <1>2, <1>3, <2>1, ConcatEmptySeq DEF Printed
    <3> QED
      BY <1>3, <3>1
  <2>2. CASE \E n \in 0 .. Len(buf) - 1 : log' = [log EXCEPT !.recs = @ \o SubSeq(buf, 1, n)]
    <3>1. PICK n \in 0 .. Len(buf) - 1 : log' = [log EXCEPT !.recs = @ \o SubSeq(buf, 1, n)]
      BY <2>2
    <3>2. /\ Printed' \in Seq(Record) /\ Len(Printed') = Len(log.recs) + n
          /\ \A i \in 1 .. Len(Printed') : Printed'[i] = Printed[i]
      BY <1>1, <1>2, <3>1, FirstWritten DEF BinlogInv
    <3>3. Len(log.recs) <= Len(Printed') /\ Len(Printed') <= Len(Printed)
      BY <1>3, <3>2
    <3> QED
      BY <3>2, <3>3
  <2> QED
    BY <2>1, <2>2 DEF EndLeaves
<1>9. \A j \in Len(Printed') + 1 .. Len(Printed) : Printed[j].path \in tainted'
  <2> TAKE j \in Len(Printed') + 1 .. Len(Printed)
  <2>1. Len(Printed') \in Nat
    BY <1>8, LenProperties
  <2>2. j - Len(log.recs) \in 1 .. Len(buf) /\ Printed[j] = buf[j - Len(log.recs)]
    <3>1. j \in Len(log.recs) + 1 .. Len(log.recs) + Len(buf)
      BY <1>3, <1>8, <2>1
    <3>2. j - Len(log.recs) \in 1 .. Len(buf)
      BY <1>3, <3>1
    <3>3. (log.recs \o buf)[j] = buf[j - Len(log.recs)]
      BY <1>3, <3>1
    <3> QED
      BY <3>2, <3>3 DEF Printed
  <2>3. Printed[j] \in Range(buf)
    BY <1>3, <2>2 DEF Range
  <2> QED
    BY <1>2, <2>3
<1>10. \A p : p \notin tainted' => (RecordedAsPresent(p)' <=> RecordedAsPresent(p))
  BY <1>3, <1>8, <1>9, RecordsCut
<1>11. \A p : Exists(p)' <=> Exists(p)
  BY DEF ServiceEnds, FilesAfterCrash, Settle, Exists
<1>12. \A p \in Path : p \notin tainted' => \A t \in Thread : p \notin owes[t]
  BY <1>2
<1>13. LastRecordAgrees'
  BY <1>1, <1>4, <1>10, <1>11, <1>12, AgreementKept
<1> QED
  BY <1>5, <1>6, <1>7, <1>13 DEF ConnInv, Debts

LEMMA StartsStep ==
    ASSUME ServiceInv, UNCHANGED setting, ServerStart
    PROVE  ConnInv'
<1>1. ConnInv /\ ConnTypes /\ LogIsThere
  BY InvParts DEF ConnInv
<1>2. UNCHANGED <<fileVars, pc, req, status, owes, tainted, requests>>
  BY DEF ServerStart, serviceVars, connVars
<1>3. UNCHANGED <<wpc, wrec, wres, buf>> /\ log'.recs = log.recs /\ (up => up')
  <2>1. OpenedLog.recs = log.recs
    BY <1>1 DEF OpenedLog, EmptyLog, LogIsThere
  <2>2. CASE StartOnExistingLog \/ StartOnNewLog \/ StartWithoutLog
    BY <2>1, <2>2 DEF StartOnExistingLog, StartOnNewLog, StartWithoutLog, Serving, inCall
  <2>3. CASE StartRefused
    BY <2>1, <2>3 DEF StartRefused, inCall, inProcess
  <2> QED
    BY <2>2, <2>3 DEF ServerStart, Start
<1>4. ConnTypes'
  BY <1>1, <1>2 DEF ConnTypes
<1>5. ASSUME NEW t \in Thread
      PROVE  Fits(t)'
  <2>1. Fits(t)
    BY <1>1 DEF ConnInv
  <2>2. LogTarget(t)' = LogTarget(t) /\ MetaFile(t)' = MetaFile(t)
    BY <1>2 DEF LogTarget, Target, MetaFile
  <2>3. RecordsNext(t)' = RecordsNext(t) /\ RecordsLater(t)' = RecordsLater(t)
    BY <1>2, <1>3, <2>2 DEF RecordsNext, RecordsLater, HasPrinted, Flushed
  <2>4. AtItsStep(t)'
    BY <1>2, <1>3, <2>1 DEF Fits, AtItsStep, StepsOf
  <2>5. CallIsItsOwn(t)'
    BY <1>2, <1>3, <2>1, <2>2 DEF Fits, CallIsItsOwn, OpsOf
  <2>6. OwesWhatItTouched(t)'
    BY <1>2, <1>3, <2>1, <2>2, <2>3 DEF Fits, OwesWhatItTouched
  <2> QED
    BY <2>4, <2>5, <2>6 DEF Fits
<1>6. \A p : Exists(p)' <=> Exists(p)
  BY <1>2 DEF fileVars, Exists
<1>7. \A p : RecordedAsPresent(p)' <=> RecordedAsPresent(p)
  <2>1. Printed' = Printed
    BY <1>3 DEF Printed
  <2> QED
    BY <2>1, SamePrinted
<1>8. Debts'
  <2>1. OneDebtor' /\ DebtIsDue'
    BY <1>1, <1>2, <1>6 DEF ConnInv, Debts, OneDebtor, DebtIsDue
  <2>2. LastRecordAgrees'
    BY <1>1, <1>2, <1>6, <1>7 DEF ConnInv, Debts, LastRecordAgrees
  <2> QED
    BY <2>1, <2>2 DEF Debts
<1> QED
  BY <1>4, <1>5, <1>8 DEF ConnInv

-----------------------------------------------------------------------------
(* Every step of the server is a step of the log and of the files.         *)

HandlerOutside(t) ==
    \/ Reply(t)
    \/ UnlinkNamed(t) \/ UnlinkAbsent(t) \/ UnlinkMeta(t) \/ UnlinkMetaFails(t)
    \/ CheckBeforeGetMeta(t) \/ OpenToRead(t) \/ ReadFile(t)
    \/ CheckBeforeSetMeta(t) \/ SetMetaUnset(t)
    \/ CheckBeforeCreate(t) \/ FindName(t) \/ FindNoName(t)
    \/ OpenToWrite(t) \/ WriteFile(t)
    \/ OpenMetaToWrite(t) \/ WriteMeta(t) \/ UndoUpload(t)

LEMMA KillingStep ==
    ASSUME ServiceInv, NEW t \in Thread, ThreadKillsServer(t)
    PROVE  /\ ProcessEnds /\ EndLeaves /\ ServiceEnds
           /\ BinlogCallDies(t) \/ BinlogDies(t) \/ Crash
<1>1. CASE BinlogCallDies(t) \/ BinlogDies(t)
  BY <1>1, EndingSteps DEF ThreadKillsServer
<1>2. CASE /\ pc[t] = "checkSet" /\ ProcessEnds
           /\ UNCHANGED <<dataSync, log, calls>>
  <2>1. up
    BY <1>2, InvParts DEF ConnInv, Fits, AtItsStep
  <2> QED
    BY <1>2, <2>1 DEF ThreadKillsServer, Crash, EndLeaves
<1> QED
  BY <1>1, <1>2 DEF ThreadKillsServer

LEMMA BinlogMoves ==
    ASSUME ServiceInv, [Next]_vars
    PROVE  [BinlogNext]_binlogVars
<1>1. CASE UNCHANGED vars
  BY <1>1 DEF vars
<1>2. CASE ServerStart
  BY <1>2 DEF ServerStart, BinlogNext
<1>3. CASE ServerCrash
  BY <1>3 DEF ServerCrash, BinlogNext
<1>4. ASSUME NEW t \in Thread, Accept(t) \/ Close(t) \/ Receive(t) \/ ReceiveBad(t)
      PROVE  UNCHANGED binlogVars
  BY <1>4 DEF Accept, Close, Receive, ReceiveBad
<1>5. ASSUME NEW t \in Thread, HandlerOutside(t)
      PROVE  UNCHANGED binlogVars
  BY <1>5 DEF HandlerOutside, Reply, UnlinkNamed, UnlinkAbsent, UnlinkMeta, UnlinkMetaFails,
              CheckBeforeGetMeta, OpenToRead, ReadFile, CheckBeforeSetMeta, SetMetaUnset,
              CheckBeforeCreate, FindName, FindNoName, OpenToWrite, WriteFile,
              OpenMetaToWrite, WriteMeta, UndoUpload
<1>6. ASSUME NEW t \in Thread, LogCall(t), UNCHANGED setting
      PROVE  BinlogNext
  BY <1>6, LogCallStep DEF BinlogNext
<1>7. ASSUME NEW t \in Thread, LogStep(t) \/ LogReturn(t)
      PROVE  BinlogNext
  BY <1>7 DEF LogStep, LogReturn, BinlogNext
<1>8. ASSUME NEW t \in Thread, ThreadKillsServer(t)
      PROVE  BinlogNext
  BY <1>8, KillingStep DEF BinlogNext
<1> QED
  BY <1>1, <1>2, <1>3, <1>4, <1>5, <1>6, <1>7, <1>8 DEF Next, HandlerStep, HandlerOutside

LEMMA FilesSame == FileInv /\ UNCHANGED fileVars => FileInv'
BY DEF FileInv, Sound, ReadsAreWhole, fileVars

\* Where the paths and contents of the file operations come from.
LEMMA FileOperations ==
    ASSUME ServiceInv, NEW t \in Thread, HandlerOutside(t)
    PROVE  \/ UNCHANGED fileVars
           \/ Forget(t) \/ Read(t) \/ ReadFails(t) \/ WriteShort(t)
           \/ \E p \in Path : Unlink(p) \/ OpenRead(t, p) \/ OpenWrite(t, p)
           \/ \E c \in Content : Write(t, c)
<1>1. ConnTypes
  BY InvParts DEF ConnInv
<1>2. req[t].path \in Path
  BY <1>1, RequestFacts
<1>3. CASE UnlinkNamed(t) \/ UndoUpload(t)
  BY <1>2, <1>3 DEF UnlinkNamed, UndoUpload
<1>4. CASE UnlinkMeta(t)
  <2>1. pc[t] = "unlinkMeta"
    BY <1>4 DEF UnlinkMeta
  <2>2. MetaFile(t) \in Path
    BY <2>1, BetweenCalls DEF StepsOf
  <2> QED
    BY <1>4, <2>2 DEF UnlinkMeta, MetaFile
<1>5. CASE OpenToRead(t)
  <2>1. pc[t] = "openRead"
    BY <1>5 DEF OpenToRead
  <2>2. Target(t) \in Path
    BY <1>2, <2>1, BetweenCalls DEF Target, MetaFile
  <2> QED
    BY <1>5, <2>2 DEF OpenToRead
<1>6. CASE OpenToWrite(t)
  BY <1>2, <1>6 DEF OpenToWrite
<1>7. CASE OpenMetaToWrite(t)
  <2>1. pc[t] = "openMeta"
    BY <1>7 DEF OpenMetaToWrite
  <2>2. MetaFile(t) \in Path
    BY <1>1, <2>1, BetweenCalls DEF StepsOf, Fits, AtItsStep
  <2> QED
    BY <1>7, <2>2 DEF OpenMetaToWrite, MetaFile
<1>8. CASE WriteFile(t) \/ WriteMeta(t)
  <2>1. Sent(t) \in Content
    BY ServiceAssumption DEF Sent
  <2> QED
    BY <1>8, <2>1 DEF WriteFile, WriteMeta
<1>9. CASE Reply(t) \/ ReadFile(t)
  BY <1>9 DEF Reply, ReadFile
<1>10. CASE \/ UnlinkAbsent(t) \/ UnlinkMetaFails(t) \/ CheckBeforeGetMeta(t)
            \/ CheckBeforeSetMeta(t) \/ SetMetaUnset(t)
            \/ CheckBeforeCreate(t) \/ FindName(t) \/ FindNoName(t)
  BY <1>10 DEF UnlinkAbsent, UnlinkMetaFails, CheckBeforeGetMeta,
               CheckBeforeSetMeta, SetMetaUnset, CheckBeforeCreate, FindName, FindNoName
<1> QED
  BY <1>3, <1>4, <1>5, <1>6, <1>7, <1>8, <1>9, <1>10 DEF HandlerOutside

LEMMA FilesMove ==
    ASSUME ServiceInv, [Next]_vars
    PROVE  FileInv'
<1>0. FileInv
  BY InvParts
<1>1. CASE UNCHANGED vars
  BY <1>0, <1>1, FilesSame DEF vars
<1>2. CASE ServerStart
  BY <1>0, <1>2, FilesSame DEF ServerStart
<1>3. CASE ServerCrash
  BY <1>0, <1>3, FilesAfterCrashInv DEF ServerCrash, ServiceEnds
<1>4. ASSUME NEW t \in Thread, Accept(t) \/ Close(t) \/ Receive(t) \/ ReceiveBad(t)
      PROVE  FileInv'
  BY <1>0, <1>4, FilesSame DEF Accept, Close, Receive, ReceiveBad
<1>5. ASSUME NEW t \in Thread, HandlerOutside(t)
      PROVE  FileInv'
  BY <1>0, <1>5, FileOperations, FilesSame, ForgetInv, ReadInv, ReadFailsInv, WriteShortInv,
     UnlinkInv, OpenReadInv, OpenWriteInv, WriteInv
<1>6. ASSUME NEW t \in Thread, LogCall(t) \/ LogStep(t) \/ LogReturn(t)
      PROVE  FileInv'
  BY <1>0, <1>6, FilesSame DEF LogCall, LogStep, LogReturn
<1>7. ASSUME NEW t \in Thread, ThreadKillsServer(t)
      PROVE  FileInv'
  BY <1>0, <1>7, FilesAfterCrashInv DEF ThreadKillsServer, ServiceEnds
<1> QED
  BY <1>1, <1>2, <1>3, <1>4, <1>5, <1>6, <1>7 DEF Next, HandlerStep, HandlerOutside

LEMMA ConnectionsMove ==
    ASSUME ServiceInv, Next
    PROVE  ConnInv'
<1>0. UNCHANGED setting
  BY DEF Next
<1>1. CASE ServerStart
  BY <1>0, <1>1, StartsStep
<1>2. CASE ServerCrash
  BY <1>0, <1>2, EndStep DEF ServerCrash, Crash, EndLeaves
<1>3. ASSUME NEW t \in Thread, Accept(t) \/ Close(t) \/ Receive(t) \/ ReceiveBad(t)
      PROVE  ConnInv'
  BY <1>0, <1>3, ConnectionSteps
<1>4. ASSUME NEW t \in Thread, HandlerOutside(t)
      PROVE  ConnInv'
  <2>1. CASE Reply(t)
    BY <1>0, <2>1, ReplyStep
  <2>2. CASE \/ CheckBeforeGetMeta(t) \/ OpenToRead(t) \/ ReadFile(t)
             \/ CheckBeforeSetMeta(t) \/ CheckBeforeCreate(t)
             \/ FindName(t) \/ FindNoName(t)
    BY <1>0, <2>2, LookingSteps
  <2>3. CASE SetMetaUnset(t) \/ UnlinkMetaFails(t)
    BY <1>0, <2>3, MadeUpSteps
  <2>4. CASE WriteFile(t) \/ WriteMeta(t)
    BY <1>0, <2>4, WritingSteps
  <2>5. CASE UnlinkNamed(t) \/ UnlinkAbsent(t) \/ UnlinkMeta(t)
    BY <1>0, <2>5, RemovingSteps
  <2>6. CASE OpenToWrite(t) \/ OpenMetaToWrite(t)
    BY <1>0, <2>6, CreatingSteps
  <2>7. CASE UndoUpload(t)
    BY <1>0, <2>7, UndoStep
  <2> QED
    BY <1>4, <2>1, <2>2, <2>3, <2>4, <2>5, <2>6, <2>7 DEF HandlerOutside
<1>5. ASSUME NEW t \in Thread, LogCall(t) \/ LogStep(t) \/ LogReturn(t)
      PROVE  ConnInv'
  BY <1>0, <1>5, LogCallStep, InsideStep, LogReturnStep
<1>6. ASSUME NEW t \in Thread, ThreadKillsServer(t)
      PROVE  ConnInv'
  BY <1>0, <1>6, KillingStep, EndStep
<1> QED
  BY <1>1, <1>2, <1>3, <1>4, <1>5, <1>6 DEF Next, HandlerStep, HandlerOutside

LEMMA ConnectionsSame == ConnInv /\ UNCHANGED vars => ConnInv'
<1> SUFFICES ASSUME ConnInv, UNCHANGED vars PROVE ConnInv'
  OBVIOUS
<1>1. /\ UNCHANGED <<setting, pc, req, status, owes, tainted, requests, up, wpc, wrec, wres, dir>>
      /\ Printed' = Printed
  BY DEF vars, serviceVars, connVars, binlogVars, inProcess, inCall, fileVars, Printed
<1>2. ConnTypes'
  BY <1>1 DEF ConnInv, ConnTypes
<1>3. ASSUME NEW t \in Thread PROVE Fits(t)'
  <2>1. Fits(t)
    BY DEF ConnInv
  <2>2. LogTarget(t)' = LogTarget(t) /\ MetaFile(t)' = MetaFile(t)
    BY <1>1 DEF LogTarget, Target, MetaFile
  <2>3. RecordsNext(t)' = RecordsNext(t) /\ RecordsLater(t)' = RecordsLater(t)
    BY <1>1, <2>2 DEF RecordsNext, RecordsLater, HasPrinted, Flushed
  <2>4. AtItsStep(t)'
    BY <1>1, <2>1 DEF Fits, AtItsStep, StepsOf
  <2>5. CallIsItsOwn(t)'
    BY <1>1, <2>1, <2>2 DEF Fits, CallIsItsOwn, OpsOf
  <2>6. OwesWhatItTouched(t)'
    BY <1>1, <2>1, <2>2, <2>3 DEF Fits, OwesWhatItTouched
  <2> QED
    BY <2>4, <2>5, <2>6 DEF Fits
<1>4. \A p : (Exists(p)' <=> Exists(p)) /\ (RecordedAsPresent(p)' <=> RecordedAsPresent(p))
  BY <1>1, SamePrinted DEF Exists
<1>5. OneDebtor' /\ DebtIsDue'
  BY <1>1, <1>4 DEF ConnInv, Debts, OneDebtor, DebtIsDue
<1>6. LastRecordAgrees'
  BY <1>1, <1>4 DEF ConnInv, Debts, LastRecordAgrees
<1> QED
  BY <1>2, <1>3, <1>5, <1>6 DEF ConnInv, Debts

LEMMA ServiceStepInv == ServiceInv /\ [Next]_vars => ServiceInv'
<1> SUFFICES ASSUME ServiceInv, [Next]_vars PROVE ServiceInv'
  OBVIOUS
<1>1. BinlogInv /\ LogIsThere /\ Numbered /\ FileInv /\ ConnInv
  BY InvParts
<1>2. [BinlogNext]_binlogVars
  BY BinlogMoves
<1>3. BinlogInv'
  BY <1>1, <1>2, StepInv
<1>4. LogIsThere'
  BY <1>1, <1>2, LogIsThereStep
<1>5. Numbered'
  BY <1>1, <1>2, NumberedNext
<1>6. FileInv'
  BY FilesMove
<1>7. ConnInv'
  BY <1>1, ConnectionsMove, ConnectionsSame
<1> QED
  BY <1>3, <1>4, <1>5, <1>6, <1>7, Zenon
     DEF ServiceInv, ConnInv, ConnTypes, Debts, TypeOK, BinlogInv, FileInv, FileTypeOK, Sound

-----------------------------------------------------------------------------
(* The initial states.                                                     *)

\* A finite set as a sequence: every member once.
LEMMA SetAsSequence ==
    ASSUME NEW S, IsFiniteSet(S)
    PROVE  /\ Cardinality(S) \in Nat
           /\ Seqs!SetToSeq(S) \in [1 .. Cardinality(S) -> S]
           /\ \A i, j \in 1 .. Cardinality(S) : Seqs!SetToSeq(S)[i] = Seqs!SetToSeq(S)[j] => i = j
           /\ \A x \in S : \E i \in 1 .. Cardinality(S) : Seqs!SetToSeq(S)[i] = x
<1> DEFINE n == Cardinality(S)
           f == Seqs!SetToSeq(S)
<1>1. n \in Nat /\ \E g \in [1 .. n -> S] : IsInjective(g)
  BY FS_CardinalityType DEF ExistsBijection, Bijection, Injection
<1>0. Seqs!Cardinality(S) = n
  BY Zenon DEF Seqs!Cardinality, Cardinality
<1>2. f \in [1 .. n -> S] /\ IsInjective(f)
  <2>1. \E g \in [1 .. n -> S] : Seqs!IsInjective(g)
    BY <1>1 DEF Seqs!IsInjective, IsInjective
  <2>2. f \in [1 .. n -> S] /\ Seqs!IsInjective(f)
    BY <1>0, <2>1, Zenon DEF Seqs!SetToSeq
  <2> QED
    BY <2>2 DEF Seqs!IsInjective, IsInjective
<1> HIDE DEF f
<1>3. \A i, j \in 1 .. n : f[i] = f[j] => i = j
  BY <1>2 DEF IsInjective
<1>4. f \in Injection(1 .. n, S)
  BY <1>2 DEF Injection
<1>5. Cardinality(1 .. n) = n
  BY <1>1, FS_Interval
<1>6. f \in Surjection(1 .. n, S)
  BY <1>4, <1>5, FS_Injection
<1> QED
  BY <1>1, <1>2, <1>3, <1>6 DEF f, Surjection

\* The log a running server left for the files it has: each file is recorded
\* once, as created.
LEMMA InitialRecords ==
    ASSUME NEW names \in SUBSET Path
    PROVE  LET n == Cardinality(names)
               l == InitialLog(names)
           IN  /\ n \in Nat
               /\ l.exists = TRUE /\ l.seed = TRUE
               /\ l.recs \in Seq(Record) /\ Len(l.recs) = n /\ DOMAIN l.recs = 1 .. n
               /\ \A i \in 1 .. n : /\ l.recs[i].id = i /\ l.recs[i].op = "C"
                                    /\ l.recs[i].path \in names
               /\ \A i, j \in 1 .. n : l.recs[i].path = l.recs[j].path => i = j
               /\ \A p \in names : \E i \in 1 .. n : l.recs[i].path = p
<1> DEFINE n == Cardinality(names)
           f == Seqs!SetToSeq(names)
           recs == [i \in 1 .. n |-> [id |-> i, op |-> "C", path |-> f[i]]]
<1>1. IsFiniteSet(names)
  BY FS_Subset, FileStoreAssumption
<1>2. /\ n \in Nat /\ f \in [1 .. n -> names]
      /\ \A i, j \in 1 .. n : f[i] = f[j] => i = j
      /\ \A x \in names : \E i \in 1 .. n : f[i] = x
  BY <1>1, SetAsSequence
<1> HIDE DEF n, f
<1>3. f \in Seq(names) /\ Len(f) = n
  BY <1>2
<1>4. InitialLog(names) = [exists |-> TRUE, seed |-> TRUE, recs |-> recs]
  BY <1>3 DEF InitialLog, f
<1>5. "C" \in Op
  BY ServiceAssumption DEF CreateOps
<1>6. \A i \in 1 .. n : [id |-> i, op |-> "C", path |-> f[i]] \in Record
  BY <1>2, <1>5 DEF Record
<1>7. recs \in Seq(Record) /\ Len(recs) = n /\ DOMAIN recs = 1 .. n
  BY <1>2, <1>6
<1>8. \A i \in 1 .. n : recs[i].id = i /\ recs[i].op = "C" /\ recs[i].path = f[i]
  OBVIOUS
<1> HIDE DEF recs
<1> QED
  BY <1>2, <1>4, <1>7, <1>8 DEF n

LEMMA ServiceInitInv == Init => ServiceInv
<1> SUFFICES ASSUME Init PROVE ServiceInv
  OBVIOUS
<1> DEFINE names == setting.files
           n == Cardinality(names)
<1>1. setting \in Settings /\ names \in SUBSET Path
  BY ServiceAssumption DEF Init
<1>2. /\ FileInit(names)
      /\ BinlogInitWith({InitialLog(names)} \cup (IF names = {} THEN {NoLog} ELSE {}), n)
      /\ pc = [t \in Thread |-> "idle"]
      /\ req = [t \in Thread |-> NoRequest]
      /\ status = [t \in Thread |-> "ok"]
      /\ owes = [t \in Thread |-> {}]
      /\ tainted = {}
      /\ requests = 0
  BY DEF Init
<1> HIDE DEF names
<1>3. FileInv
  BY <1>1, <1>2, FileInitInv, ServiceAssumption
<1>4. /\ log.recs \in Seq(Record) /\ Len(log.recs) \in Nat /\ DOMAIN log.recs = 1 .. Len(log.recs)
      /\ log \in [exists : BOOLEAN, seed : BOOLEAN, recs : Seq(Record)]
      /\ ~log.exists => log.recs = <<>>
      /\ n \in Nat
      /\ \A i \in 1 .. Len(log.recs) : /\ log.recs[i].id = i /\ i <= n
                                       /\ log.recs[i].op = "C" /\ log.recs[i].path \in names
      /\ \A i, j \in 1 .. Len(log.recs) : log.recs[i].path = log.recs[j].path => i = j
      /\ \A p \in names : \E i \in 1 .. Len(log.recs) : log.recs[i].path = p
  <2>1. log = InitialLog(names) \/ (names = {} /\ log = NoLog)
    BY <1>2 DEF BinlogInitWith
  <2>2. CASE log = InitialLog(names)
    <3> DEFINE l == InitialLog(names)
    <3>1. l = [exists |-> TRUE, seed |-> TRUE, recs |-> l.recs]
      BY DEF InitialLog
    <3>2. n \in Nat /\ l.recs \in Seq(Record) /\ Len(l.recs) = n
      BY <1>1, InitialRecords
    <3>3. l \in [exists : BOOLEAN, seed : BOOLEAN, recs : Seq(Record)]
      <4>1. \A s \in Seq(Record) : [exists |-> TRUE, seed |-> TRUE, recs |-> s]
                \in [exists : BOOLEAN, seed : BOOLEAN, recs : Seq(Record)]
        OBVIOUS
      <4>2. l.recs \in Seq(Record)
        BY <3>2
      <4> HIDE DEF l
      <4> QED
        BY <3>1, <4>1, <4>2, Zenon
    <3>4. /\ DOMAIN l.recs = 1 .. n
          /\ \A i \in 1 .. n : /\ l.recs[i].id = i /\ l.recs[i].op = "C"
                               /\ l.recs[i].path \in names
          /\ \A i, j \in 1 .. n : l.recs[i].path = l.recs[j].path => i = j
          /\ \A p \in names : \E i \in 1 .. n : l.recs[i].path = p
      BY <1>1, InitialRecords
    <3>5. l.exists = TRUE /\ log = l
      BY <2>2, <3>1
    <3> HIDE DEF l, n
    <3> QED
      BY <3>2, <3>3, <3>4, <3>5
  <2>3. CASE names = {} /\ log = NoLog
    <3>1. log.recs = <<>> /\ log.exists = FALSE
      BY <2>3 DEF NoLog
    <3>2. log \in [exists : BOOLEAN, seed : BOOLEAN, recs : Seq(Record)]
      BY <2>3, EmptyLogTypes DEF NoLog
    <3>3. n \in Nat
      BY <1>1, InitialRecords
    <3>4. <<>> \in Seq(Record) /\ Len(<<>>) = 0 /\ DOMAIN <<>> = 1 .. 0
      BY EmptySeq
    <3> QED
      BY <2>3, <3>1, <3>2, <3>3, <3>4
  <2> QED
    BY <2>1, <2>2, <2>3
<1>5. /\ dataSync \in BOOLEAN /\ up = FALSE /\ go = TRUE /\ fp = "null"
      /\ index = 0 /\ size = 0 /\ buf = <<>> /\ lost = {} /\ calls = n
      /\ wpc = [t \in Thread |-> "out"]
      /\ wrec = [t \in Thread |-> NoRecord]
      /\ wres = [t \in Thread |-> "ok"]
      /\ tmp = [t \in Thread |-> 0]
  BY <1>2 DEF BinlogInitWith
<1> HIDE DEF n
<1>6. BinlogInv
  <2>1. buf \in Seq(Record)
    BY <1>5, EmptySeq, Zenon
  <2>2. up \in BOOLEAN /\ go \in BOOLEAN /\ fp \in {"null", "open"}
    BY <1>5, Zenon
  <2>3. index \in Int /\ size \in Nat
    BY <1>5
  <2>4. wpc \in [Thread -> CallStates] /\ wres \in [Thread -> {"ok", "err"}]
    BY <1>5 DEF CallStates
  <2>5. wrec \in [Thread -> Record \cup {NoRecord}] /\ tmp \in [Thread -> Nat]
    BY <1>5
  <2>6. dataSync \in BOOLEAN /\ lost \subseteq Record /\ calls \in Nat
    BY <1>4, <1>5
  <2>7. BinlogTypeOK
    BY <1>4, <2>1, <2>2, <2>3, <2>4, <2>5, <2>6, Zenon DEF BinlogTypeOK
  <2>8. InCallHasRecord /\ BufferedOnlyInCall /\ Accounted
    BY <1>5 DEF InCallHasRecord, BufferedOnlyInCall, Accounted, Flushed
  <2> QED
    BY <2>7, <2>8 DEF BinlogInv
<1>7. LogIsThere
  BY <1>4, <1>5 DEF LogIsThere
<1>8. Printed = log.recs
  BY <1>4, <1>5, ConcatEmptySeq DEF Printed
<1>9. Numbered
  BY <1>4, <1>5, <1>8 DEF Numbered, LoggedOnce
<1>10. ConnTypes
  <2>1. requests \in 0 .. MaxRequests
    BY <1>2, ServiceAssumption
  <2>2. /\ pc \in [Thread -> Steps] /\ req \in [Thread -> Served]
        /\ status \in [Thread -> {"ok", "exists", "err"}]
        /\ owes \in [Thread -> SUBSET Path] /\ tainted \subseteq Path
    BY <1>2 DEF Steps, Served
  <2> QED
    BY <1>1, <2>1, <2>2 DEF ConnTypes
<1>11. \A t \in Thread : Fits(t)
  BY <1>2, <1>5 DEF Fits, AtItsStep, CallIsItsOwn, OwesWhatItTouched
<1>12. OneDebtor /\ DebtIsDue
  BY <1>2 DEF OneDebtor, DebtIsDue
<1>13. ASSUME NEW p \in Path
       PROVE  Exists(p) <=> RecordedAsPresent(p)
  <2>1. Exists(p) <=> p \in names
    <3> DEFINE place == CHOOSE f \in [names -> Inode] : \A r, q \in names : f[r] = f[q] => r = q
    <3>1. place \in [names -> Inode]
      BY <1>1, PlacesExist
    <3>2. dir = [r \in Path |-> IF r \in names THEN place[r] ELSE NoInode]
      BY <1>2 DEF FileInit
    <3> HIDE DEF place
    <3> QED
      BY <3>1, <3>2, NoInodeIsNone DEF Exists
  <2>2. RecordedAsPresent(p) => p \in names
    BY <1>4, <1>8 DEF RecordedAsPresent, RecordsOf
  <2>3. ASSUME p \in names
        PROVE  RecordedAsPresent(p)
    <3>1. PICK i \in 1 .. Len(log.recs) : log.recs[i].path = p
      BY <1>4, <2>3
    <3>2. RecordsOf(p) = {i}
      BY <1>4, <1>8, <3>1 DEF RecordsOf
    <3>3. log.recs[i].op \in CreateOps \cup UpdateOps /\ i <= i
      BY <1>4 DEF CreateOps
    <3> QED
      BY <1>8, <3>2, <3>3 DEF RecordedAsPresent
  <2> QED
    BY <2>1, <2>2, <2>3
<1>14. LastRecordAgrees
  BY <1>13 DEF LastRecordAgrees
<1> QED
  BY <1>3, <1>6, <1>7, <1>9, <1>10, <1>11, <1>12, <1>14, InvParts DEF ConnInv, Debts

-----------------------------------------------------------------------------
(* What follows, for any number of threads, files and requests.            *)

\* The log, the files, the connections and what they owe each other keep in
\* step through every handler, the deaths of the process and its restarts.
THEOREM ServiceInvariance == Spec => []ServiceInv
<1> QED
  BY ServiceInitInv, ServiceStepInv, PTL DEF Spec

\* The variables of the connection threads keep their types.
THEOREM ServerTypes == Spec => []TypeOK
<1>1. ServiceInv => TypeOK
  BY DEF ServiceInv
<1> QED
  BY <1>1, ServiceInvariance, PTL

\* No handler of storage_service.c answers with status 0 before it has printed
\* a record for each name that it created, overwrote or removed.
THEOREM AnswersAreRecorded == Spec => []AckedIsLogged
<1>1. ServiceInv => AckedIsLogged
  <2> SUFFICES ASSUME ServiceInv, NEW t \in Thread, pc[t] = "reply", status[t] = "ok"
               PROVE  owes[t] = {}
    BY DEF AckedIsLogged
  <2>1. OwesWhatItTouched(t)
    BY DEF ServiceInv, Fits
  <2> QED
    BY <2>1 DEF OwesWhatItTouched
<1> QED
  BY <1>1, ServiceInvariance, PTL

\* The binlog that a replica replays ends with the files this server has, but
\* for those a thread is at work on or the named accidents have spoilt.
THEOREM ReplicasAgree == Spec => []LastRecordAgrees
<1>1. ServiceInv => LastRecordAgrees
  BY DEF ServiceInv
<1> QED
  BY <1>1, ServiceInvariance, PTL

\* The handlers use writeToFile, getFileContent and unlink so that a file is
\* incomplete only while it is written, and a reader that nobody wrote under
\* has one whole content.
THEOREM ServedFilesAreWhole == Spec => [](IncompleteOnlyWhileWritten /\ ReadsAreWhole)
<1>1. ServiceInv => IncompleteOnlyWhileWritten /\ ReadsAreWhole
  BY InvParts, FileInvImplies
<1> QED
  BY <1>1, ServiceInvariance, PTL

\* The handlers' calls of storage_binlog_write are calls Binlog allows, so what
\* is promised of any callers holds of the server: an acknowledged record is on
\* disk, none is written twice, and none is held back in the buffer.
THEOREM ServedLogIsSound == Spec => [](OkMeansOnDisk /\ LoggedOnce /\ BufferedOnlyInCall)
<1>1. ServiceInv => OkMeansOnDisk /\ LoggedOnce /\ BufferedOnlyInCall
  BY DEF ServiceInv, BinlogInv, Numbered, Accounted, Flushed, OkMeansOnDisk, OnDisk
<1> QED
  BY <1>1, ServiceInvariance, PTL

\* The composition: whatever the handlers, the connections and the files do, the
\* log sees only steps of Binlog, its environment's calls included; and so no
\* request, death of the process or restart changes a record in the file.
THEOREM ServerDrivesTheLog == Spec => [][BinlogNext]_binlogVars /\ DurableAppendOnly
<1>1. ServiceInv /\ [Next]_vars => [BinlogNext]_binlogVars
  BY BinlogMoves
<1>2. ServiceInv /\ [Next]_vars
        => [/\ Len(log'.recs) >= Len(log.recs)
            /\ SubSeq(log'.recs, 1, Len(log.recs)) = log.recs]_binlogVars
  BY BinlogMoves, LogGrows, InvParts
<1> QED
  BY <1>1, <1>2, ServiceInvariance, PTL DEF Spec, DurableAppendOnly

=============================================================================
