--------------------------- MODULE StorageService ---------------------------
(***************************************************************************)
(* The connection threads of storage_service.c over the data directory     *)
(* (FileStore) and the binlog (Binlog).  A thread reads a header, runs one  *)
(* of the seven handlers, replies, and reads the next header; any handler   *)
(* that returns an error ends the connection.  A handler is a sequence of   *)
(* system calls and of calls of storage_binlog_write; each is a step here,  *)
(* and the steps of all threads interleave.                                *)
(***************************************************************************)
EXTENDS Binlog, FileStore

Seqs == INSTANCE SequencesExt

CONSTANTS
    DataFile,     \* the names of data files; clients' commands carry these
    MetaOf,       \* the name STORAGE_META_FILE_EXT makes of a data file's name
    Settings,     \* bound: [debug, names, files]: whether the program is
                  \* compiled with -D__DEBUG__, the names storage_gen_filename
                  \* can return, and the files the directory starts with
    MaxRequests   \* bound: requests received in one behaviour

CreateOps == {"C", "c"}
UpdateOps == {"U", "u"}
DeleteOps == {"D", "d"}

ASSUME ServiceAssumption ==
    /\ DataFile \subseteq Path /\ DataFile # {}
    /\ MetaOf \in [DataFile -> Path \ DataFile]
    /\ Settings \subseteq [debug : BOOLEAN, names : SUBSET DataFile, files : SUBSET Path]
    /\ Op = CreateOps \cup UpdateOps \cup DeleteOps \cup {"?"}
    /\ Content = {"body", "junk"}
    /\ MaxRequests \in Nat
    /\ MaxCalls >= Cardinality(Path) + 2 * MaxRequests

VARIABLES
    setting,    \* the one of Settings the program runs with
    pc,         \* the step the thread is at, "idle" without a connection
    req,        \* the request being served
    status,     \* resp.status: "ok", "exists" (EEXIST) or "err"
    owes,       \* history: files the thread's request touched and has not
                \* yet printed a record for
    tainted,    \* history: files whose records may be missing, out of order
                \* or made up
    requests    \* history: requests received

connVars    == <<pc, req, status>>
serviceVars == <<connVars, owes, tainted, requests>>
vars        == <<setting, binlogVars, fileVars, serviceVars>>

-----------------------------------------------------------------------------
(* Requests                                                                *)

ClientCmds == {"download", "getMeta", "setMeta", "delete"}
SyncCmds   == {"syncCreate", "syncUpdate", "syncDelete"}

\* The file of an upload is named later, by the server.  Another storage
\* server replicates any file, metadata included; download serves any, too.
Requests ==
    [cmd : ClientCmds, path : DataFile, meta : {FALSE}]
        \cup [cmd : SyncCmds \cup {"download"}, path : Path, meta : {FALSE}]
        \cup [cmd : {"upload"}, path : {CHOOSE d \in DataFile : TRUE}, meta : BOOLEAN]

NoRequest == [cmd |-> "none", path |-> CHOOSE d \in DataFile : TRUE, meta |-> FALSE]

FirstStep ==
    [download |-> "openRead", getMeta |-> "checkMeta", setMeta |-> "checkSet",
     delete |-> "unlink", syncDelete |-> "unlink", upload |-> "generate",
     syncCreate |-> "checkNew", syncUpdate |-> "open"]

\* op_type of the record a request writes.  For set_metadata it is sync_flag,
\* which nothing has assigned: any character, "?" being those with no meaning.
OpsOf ==
    [delete |-> {"D"}, upload |-> {"C"}, syncCreate |-> {"c"}, syncUpdate |-> {"u"},
     syncDelete |-> {"d"}, setMeta |-> Op]

\* The file a step at "openRead", "log", ... is about.
Target(t) ==
    IF req[t].cmd \in {"getMeta", "setMeta"} THEN MetaOf[req[t].path] ELSE req[t].path

Others(t) == Thread \ {t}

-----------------------------------------------------------------------------
\* Each initial file has its create record: a server that has been running.
InitialLog(names) ==
    LET files == Seqs!SetToSeq(names)
    IN  [exists |-> TRUE, seed |-> TRUE,
         recs |-> [i \in 1 .. Len(files) |-> [id |-> i, op |-> "C", path |-> files[i]]]]

Init ==
    /\ setting \in Settings
    /\ FileInit(setting.files)
    /\ BinlogInitWith({InitialLog(setting.files)} \cup IF setting.files = {} THEN {NoLog} ELSE {},
                      Cardinality(setting.files))
    /\ pc = [t \in Thread |-> "idle"]
    /\ req = [t \in Thread |-> NoRequest]
    /\ status = [t \in Thread |-> "ok"]
    /\ owes = [t \in Thread |-> {}]
    /\ tainted = {}
    /\ requests = 0

Goto(t, step) == pc' = [pc EXCEPT ![t] = step]

\* break with resp.status set, to the code that sends the reply.
Answer(t, s) ==
    /\ Goto(t, "reply")
    /\ status' = [status EXCEPT ![t] = s]

\* The thread changed what name p stands for and owes the log a record.  When
\* another thread owes one too, the records can come in either order.
Touch(t, p) ==
    /\ owes' = [owes EXCEPT ![t] = @ \cup {p}]
    /\ tainted' = IF \E u \in Others(t) : p \in owes[u] THEN tainted \cup {p} ELSE tainted

NoTouch == UNCHANGED <<owes, tainted>>

-----------------------------------------------------------------------------
(* storage_thread_entrance                                                 *)

\* Bound: no connection is opened that could not send a request any more.
Accept(t) ==
    /\ up /\ go
    /\ pc[t] = "idle"
    /\ requests < MaxRequests
    /\ Goto(t, "ready")
    /\ UNCHANGED <<binlogVars, fileVars, req, status, owes, tainted, requests>>

\* g_continue_flag is down, or the client quits, hangs up or sends a command
\* the server does not know.
Close(t) ==
    /\ pc[t] = "ready"
    /\ Goto(t, "idle")
    /\ UNCHANGED <<binlogVars, fileVars, req, status, owes, tainted, requests>>

\* The thread looked at g_continue_flag before it began to wait for a header,
\* so a request can still be served after the flag has gone down.
Receive(t) ==
    /\ pc[t] = "ready"
    /\ requests < MaxRequests
    /\ requests' = requests + 1
    /\ \E r \in Requests :
         /\ req' = [req EXCEPT ![t] = r]
         /\ Goto(t, FirstStep[r.cmd])
    /\ UNCHANGED <<binlogVars, fileVars, status, owes, tainted>>

\* The early returns of the handlers: package size, receive error, lengths
\* that do not add up, wrong group name, malloc.
ReceiveBad(t) ==
    /\ pc[t] = "ready"
    /\ requests < MaxRequests
    /\ requests' = requests + 1
    /\ Answer(t, "err")
    /\ UNCHANGED <<binlogVars, fileVars, req, owes, tainted>>

\* Whether the loop can go round again.  A get_metadata that found none sends a
\* NULL body, which tcpsenddata refuses.  An upload leaves most of its body
\* unread, and the next header is taken from that: any request may follow.
KeepsConnection(t) ==
    /\ go
    /\ status[t] # "err"
    /\ req[t].cmd = "getMeta" => got[t].val # "none"

\* The reply is sent and the connection goes on; or it ends, because of the
\* handler's result, a failed send or a failed write of the statistics file.
Reply(t) ==
    /\ pc[t] = "reply"
    /\ \/ KeepsConnection(t) /\ Goto(t, "ready")
       \/ Goto(t, "idle")
    /\ req' = [req EXCEPT ![t] = NoRequest]
    /\ status' = [status EXCEPT ![t] = "ok"]
    /\ owes' = [owes EXCEPT ![t] = {}]
    /\ tainted' = tainted \cup owes[t]
    /\ Forget(t)
    /\ UNCHANGED <<binlogVars, requests>>

-----------------------------------------------------------------------------
(* storage_delete_file, storage_sync_delete_file                           *)

\* Mutant of UnlinkNamed: a failed unlink is recorded like a successful one.
UnlinkNamedUnchecked(t) ==
    /\ pc[t] = "unlink"
    /\ Exists(req[t].path)
    /\ Unlink(req[t].path) \/ UNCHANGED fileVars
    /\ Touch(t, req[t].path)
    /\ Goto(t, "log")
    /\ UNCHANGED <<binlogVars, req, status, requests>>

\* unlink of the named file.  It may fail for a reason other than ENOENT.
UnlinkNamed(t) ==
    /\ pc[t] = "unlink"
    /\ Exists(req[t].path)
    /\ \/ /\ Unlink(req[t].path)
          /\ Touch(t, req[t].path)
          /\ Goto(t, "log")
          /\ UNCHANGED status
       \/ /\ Answer(t, "err")
          /\ NoTouch
          /\ UNCHANGED fileVars
    /\ UNCHANGED <<binlogVars, req, requests>>

\* ENOENT is an error to a client and ignored when it comes from a replica.
UnlinkAbsent(t) ==
    /\ pc[t] = "unlink"
    /\ ~Exists(req[t].path)
    /\ \/ /\ req[t].cmd = "delete"
          /\ Answer(t, "err")
          /\ NoTouch
       \/ /\ req[t].cmd = "syncDelete"
          /\ Goto(t, "log")
          /\ Touch(t, req[t].path)
          /\ UNCHANGED status
    /\ UNCHANGED <<binlogVars, fileVars, req, requests>>

\* Mutant of UnlinkMeta: no record for the metadata file.
UnlinkMetaUnlogged(t) ==
    /\ pc[t] = "unlinkMeta"
    /\ LET m == MetaOf[req[t].path]
       IN  /\ IF Exists(m) THEN Unlink(m) ELSE UNCHANGED fileVars
           /\ Touch(t, m)
    /\ Answer(t, "ok")
    /\ UNCHANGED <<binlogVars, req, requests>>

\* The client's delete goes on to the metadata file, which need not exist.
UnlinkMeta(t) ==
    /\ pc[t] = "unlinkMeta"
    /\ LET m == MetaOf[req[t].path]
       IN  /\ IF Exists(m) THEN Unlink(m) ELSE UNCHANGED fileVars
           /\ Touch(t, m)
    /\ Goto(t, "logMeta")
    /\ UNCHANGED <<binlogVars, req, status, requests>>

\* unlink fails, and the handler logs the error before it looks at errno, so
\* errno is what the error log left: ENOENT for a file that is still there,
\* and a delete is recorded for it, or not ENOENT for one that was absent, and
\* the delete fails.
UnlinkMetaFails(t) ==
    /\ pc[t] = "unlinkMeta"
    /\ LET m == MetaOf[req[t].path]
       IN  \/ /\ Exists(m)
              /\ Goto(t, "logMeta")
              /\ tainted' = tainted \cup {m}
              /\ UNCHANGED status
           \/ /\ Answer(t, "err")
              /\ UNCHANGED tainted
    /\ UNCHANGED <<binlogVars, fileVars, req, owes, requests>>

-----------------------------------------------------------------------------
(* storage_download_file, storage_get_metadata, storage_set_metadata       *)

CheckBeforeGetMeta(t) ==
    /\ pc[t] = "checkMeta"
    /\ IF Exists(req[t].path)
       THEN Goto(t, "openRead") /\ UNCHANGED status
       ELSE Answer(t, "err")
    /\ NoTouch
    /\ UNCHANGED <<binlogVars, fileVars, req, requests>>

\* A file that is absent is an error to a download and means "no metadata" to
\* get_metadata; the open can fail for another reason.
OpenToRead(t) ==
    /\ pc[t] = "openRead"
    /\ \/ OpenRead(t, Target(t)) /\ Goto(t, "read") /\ UNCHANGED status
       \/ ~Exists(Target(t)) /\ req[t].cmd = "getMeta" /\ Answer(t, "ok") /\ UNCHANGED fileVars
       \/ ~Exists(Target(t)) /\ req[t].cmd = "download" /\ Answer(t, "err") /\ UNCHANGED fileVars
       \/ Exists(Target(t)) /\ Answer(t, "err") /\ UNCHANGED fileVars
    /\ NoTouch
    /\ UNCHANGED <<binlogVars, req, requests>>

\* A short read leaves errno as it was, and getFileContent makes ENOENT of 0:
\* to get_metadata that means "no metadata".
ReadFile(t) ==
    /\ pc[t] = "read"
    /\ \/ Read(t) /\ Answer(t, "ok")
       \/ ReadFails(t) /\ Answer(t, "err")
       \/ ReadFails(t) /\ req[t].cmd = "getMeta" /\ Answer(t, "ok")
    /\ NoTouch
    /\ UNCHANGED <<binlogVars, req, requests>>

\* storage_do_set_metadata changes nothing and leaves sync_flag as the stack
\* had it: 0 ends the request here, anything else is written as an op_type.
CheckBeforeSetMeta(t) ==
    /\ pc[t] = "checkSet"
    /\ \/ ~Exists(req[t].path) /\ Answer(t, "err")
       \/ Exists(req[t].path) /\ ~setting.debug /\ Answer(t, "ok")
    /\ NoTouch
    /\ UNCHANGED <<binlogVars, fileVars, req, requests>>

SetMetaUnset(t) ==
    /\ pc[t] = "checkSet"
    /\ Exists(req[t].path) /\ ~setting.debug
    /\ Goto(t, "log")
    /\ tainted' = tainted \cup {Target(t)}
    /\ UNCHANGED <<binlogVars, fileVars, req, status, owes, requests>>

-----------------------------------------------------------------------------
(* storage_sync_copy_file, storage_upload_file with storage_save_file      *)

CheckBeforeCreate(t) ==
    /\ pc[t] = "checkNew"
    /\ IF Exists(req[t].path)
       THEN Answer(t, "exists")
       ELSE Goto(t, "open") /\ UNCHANGED status
    /\ NoTouch
    /\ UNCHANGED <<binlogVars, fileVars, req, requests>>

\* The loop that looks for a name that is not in use.
FindName(t) ==
    /\ pc[t] = "generate"
    /\ \E d \in setting.names :
         /\ ~Exists(d)
         /\ req' = [req EXCEPT ![t].path = d]
    /\ Goto(t, "open")
    /\ UNCHANGED <<binlogVars, fileVars, status, owes, tainted, requests>>

\* All 1024 names it tried are in use.
FindNoName(t) ==
    /\ pc[t] = "generate"
    /\ \/ setting.names = {}
       \/ \E d \in setting.names : Exists(d)
    /\ Answer(t, "err")
    /\ NoTouch
    /\ UNCHANGED <<binlogVars, fileVars, req, requests>>

OpenToWrite(t) ==
    /\ pc[t] = "open"
    /\ \/ /\ OpenWrite(t, req[t].path)
          /\ Touch(t, req[t].path)
          /\ Goto(t, "write")
          /\ UNCHANGED status
       \/ /\ Answer(t, "err")
          /\ NoTouch
          /\ UNCHANGED fileVars
    /\ UNCHANGED <<binlogVars, req, requests>>

\* Only the first eight bytes of an upload are received: its metadata and
\* content are what malloc returned.
Sent(t) == IF req[t].cmd = "upload" THEN "junk" ELSE "body"

\* A short write is noticed by fwrite or, when it happens in fclose, not.
WriteFile(t) ==
    /\ pc[t] = "write"
    /\ \/ /\ Write(t, Sent(t)) \/ WriteShort(t)
          /\ Goto(t, IF req[t].meta THEN "openMeta" ELSE "log")
          /\ UNCHANGED status
       \/ WriteShort(t) /\ Answer(t, "err")
    /\ NoTouch
    /\ UNCHANGED <<binlogVars, req, requests>>

\* The metadata of an upload is sorted first, which can fail.
OpenMetaToWrite(t) ==
    /\ pc[t] = "openMeta"
    /\ \/ /\ OpenWrite(t, MetaOf[req[t].path])
          /\ Touch(t, MetaOf[req[t].path])
          /\ Goto(t, "writeMeta")
       \/ /\ Goto(t, "undo")
          /\ NoTouch
          /\ UNCHANGED fileVars
    /\ UNCHANGED <<binlogVars, req, status, requests>>

WriteMeta(t) ==
    /\ pc[t] = "writeMeta"
    /\ \/ (Write(t, Sent(t)) \/ WriteShort(t)) /\ Goto(t, "log")
       \/ WriteShort(t) /\ Goto(t, "undo")
    /\ NoTouch
    /\ UNCHANGED <<binlogVars, req, status, requests>>

\* storage_save_file unlinks the data file when it could not write its metadata,
\* and does not look whether it could.
UndoUpload(t) ==
    /\ pc[t] = "undo"
    /\ \/ Exists(req[t].path) /\ Unlink(req[t].path)
       \/ UNCHANGED fileVars
    /\ Touch(t, req[t].path)
    /\ Answer(t, "err")
    /\ UNCHANGED <<binlogVars, req, requests>>

-----------------------------------------------------------------------------
(* The calls of storage_binlog_write                                       *)

LogTarget(t) == IF pc[t] = "logMeta" THEN MetaOf[req[t].path] ELSE Target(t)

LogCall(t) ==
    /\ pc[t] \in {"log", "logMeta"}
    /\ \E op \in OpsOf[req[t].cmd] : BinlogCall(t, op, LogTarget(t))
    /\ UNCHANGED <<fileVars, serviceVars>>

\* Inside the call.  fprintf puts the record in its place among the others;
\* records that a failing fflush discards are missing from then on.
LogStep(t) ==
    /\ BinlogStep(t)
    /\ owes' = [owes EXCEPT ![t] = IF wpc[t] = "print" THEN @ \ {wrec[t].path} ELSE @]
    /\ tainted' = tainted \cup
           {r.path : r \in Range(buf) \ (Range(log'.recs) \cup Range(buf'))}
    /\ UNCHANGED <<fileVars, connVars, requests>>

LogReturn(t) ==
    /\ pc[t] \in {"log", "logMeta"}
    /\ BinlogReturn(t)
    /\ \/ /\ wres[t] = "err"
          /\ Answer(t, "err")
       \/ /\ wres[t] = "ok"
          /\ pc[t] = "log" /\ req[t].cmd = "delete"
          /\ Goto(t, "unlinkMeta") /\ UNCHANGED status
       \/ /\ wres[t] = "ok"
          /\ pc[t] = "log" /\ req[t].cmd = "upload" /\ req[t].meta
          /\ Goto(t, "logMeta") /\ UNCHANGED status
       \/ /\ wres[t] = "ok"
          /\ pc[t] = "log" => req[t].cmd # "delete" /\ ~req[t].meta
          /\ Answer(t, "ok")
    /\ UNCHANGED <<fileVars, req, owes, tainted, requests>>

-----------------------------------------------------------------------------
(* The end of the process and its restart                                  *)

ServiceEnds ==
    /\ FilesAfterCrash
    /\ pc' = [t \in Thread |-> "idle"]
    /\ req' = [t \in Thread |-> NoRequest]
    /\ status' = [t \in Thread |-> "ok"]
    /\ owes' = [t \in Thread |-> {}]
    /\ tainted' = tainted \cup (UNION {owes[t] : t \in Thread}) \cup {r.path : r \in Range(buf)}
    /\ UNCHANGED requests

\* A step of thread t that kills the server: fileno(NULL), the two ways
\* storage_binlog_write dies, and the debug message of
\* storage_do_set_metadata, which passes __LINE__ for a %s.
ThreadKillsServer(t) ==
    /\ \/ pc[t] \in {"log", "logMeta"} /\ BinlogCallDies(t)
       \/ BinlogDies(t)
       \/ /\ pc[t] = "checkSet" /\ setting.debug /\ Exists(req[t].path)
          /\ ProcessEnds
          /\ UNCHANGED <<dataSync, log, calls>>
    /\ ServiceEnds

\* A crash, or the exit of main once every connection is closed.
ServerCrash == Crash /\ ServiceEnds

ServerStart == Start /\ UNCHANGED <<fileVars, serviceVars>>

HandlerStep(t) ==
    \/ Reply(t)
    \/ UnlinkNamed(t) \/ UnlinkAbsent(t) \/ UnlinkMeta(t) \/ UnlinkMetaFails(t)
    \/ CheckBeforeGetMeta(t) \/ OpenToRead(t) \/ ReadFile(t)
    \/ CheckBeforeSetMeta(t) \/ SetMetaUnset(t)
    \/ CheckBeforeCreate(t) \/ FindName(t) \/ FindNoName(t)
    \/ OpenToWrite(t) \/ WriteFile(t)
    \/ OpenMetaToWrite(t) \/ WriteMeta(t) \/ UndoUpload(t)
    \/ LogCall(t) \/ LogStep(t) \/ LogReturn(t)
    \/ ThreadKillsServer(t)

Next ==
    /\ \/ ServerStart
       \/ ServerCrash
       \/ \E t \in Thread :
            Accept(t) \/ Close(t) \/ Receive(t) \/ ReceiveBad(t) \/ HandlerStep(t)
    /\ UNCHANGED setting

Spec == Init /\ [][Next]_vars

-----------------------------------------------------------------------------
(* Properties                                                              *)

Steps == {"idle", "ready", "unlink", "unlinkMeta", "checkMeta", "openRead", "read",
          "checkSet", "checkNew", "generate", "open", "write", "openMeta",
          "writeMeta", "undo", "log", "logMeta", "reply"}

\* An upload carries the name that the server has found for it.
Served == Requests \cup [cmd : {"upload"}, path : DataFile, meta : BOOLEAN] \cup {NoRequest}

\* Type invariant of the server.
TypeOK ==
    /\ BinlogTypeOK
    /\ FileTypeOK
    /\ setting \in Settings
    /\ pc \in [Thread -> Steps]
    /\ req \in [Thread -> Served]
    /\ status \in [Thread -> {"ok", "exists", "err"}]
    /\ owes \in [Thread -> SUBSET Path]
    /\ tainted \subseteq Path
    /\ requests \in 0 .. MaxRequests

\* A request that is answered with status 0 has written a record for every
\* file whose name it created, overwrote or removed.
AckedIsLogged ==
    \A t \in Thread : pc[t] = "reply" /\ status[t] = "ok" => owes[t] = {}

\* The positions of the records that tell what became of p.
RecordsOf(p) == {i \in DOMAIN Printed : Printed[i].path = p}

RecordedAsPresent(p) ==
    \E last \in RecordsOf(p) :
        /\ \A i \in RecordsOf(p) : i <= last
        /\ Printed[last].op \in CreateOps \cup UpdateOps

\* A replica that replays the binlog ends with the files this server has: the
\* last record on a file says whether it exists.  Not so for a file that a
\* thread has touched and not yet recorded, nor for one whose records a fault,
\* a crash, two requests at the same time or set_metadata have spoilt.
LastRecordAgrees ==
    \A p \in Path :
        p \notin tainted /\ (\A t \in Thread : p \notin owes[t])
            => (Exists(p) <=> RecordedAsPresent(p))

\* The inductive invariant behind the two.  First, of each thread: it serves
\* while the process runs, and is at a step of the command it serves;
StepsOf ==
    [download   |-> {"openRead", "read"},
     getMeta    |-> {"checkMeta", "openRead", "read"},
     setMeta    |-> {"checkSet", "log"},
     delete     |-> {"unlink", "log", "unlinkMeta", "logMeta"},
     syncDelete |-> {"unlink", "log"},
     upload     |-> {"generate", "open", "write", "openMeta", "writeMeta", "undo", "log", "logMeta"},
     syncCreate |-> {"checkNew", "open", "write", "log"},
     syncUpdate |-> {"open", "write", "log"},
     none       |-> {}]

AtItsStep(t) ==
    /\ pc[t] # "idle" => up
    /\ pc[t] \in {"idle", "ready", "reply"} \cup StepsOf[req[t].cmd]
    /\ pc[t] \in {"openMeta", "writeMeta", "undo"} => req[t].meta
    /\ pc[t] = "logMeta" => req[t].cmd = "delete" \/ req[t].meta

\* it is inside storage_binlog_write only where its handler calls it, with a
\* record on the file and of the type the handler means;
CallIsItsOwn(t) ==
    wpc[t] # "out" =>
        /\ pc[t] \in {"log", "logMeta"}
        /\ wrec[t].path = LogTarget(t)
        /\ wrec[t].op \in OpsOf[req[t].cmd]

\* and what it owes the log is what the handler has touched and the calls of
\* storage_binlog_write before it have not yet printed.  A file about to be
\* recorded that it does not owe is one that set_metadata, or the errno that a
\* failed unlink lost, makes up a record for.
MetaFile(t)   == MetaOf[req[t].path]
HasPrinted(t) == wpc[t] = "flush" \/ Flushed(t)
RecordsNext(t) ==
    IF HasPrinted(t) \/ req[t].cmd = "setMeta" THEN {} ELSE {LogTarget(t)}
RecordsLater(t) ==
    IF pc[t] = "log" /\ req[t].cmd = "upload" /\ req[t].meta THEN {MetaFile(t)} ELSE {}

OwesWhatItTouched(t) ==
    /\ pc[t] \in {"write", "openMeta"} => owes[t] = {req[t].path}
    /\ pc[t] = "writeMeta" => owes[t] = {req[t].path, MetaFile(t)}
    /\ pc[t] = "undo" => owes[t] \subseteq {req[t].path, MetaFile(t)}
    /\ pc[t] \in {"log", "logMeta"} =>
         /\ owes[t] \subseteq RecordsNext(t) \cup RecordsLater(t)
         /\ RecordsLater(t) \subseteq owes[t]
         /\ wpc[t] \in {"out", "print"} => LogTarget(t) \in owes[t] \cup tainted
    /\ pc[t] = "reply" => status[t] = "err" \/ owes[t] = {}
    /\ pc[t] \in {"write", "openMeta", "writeMeta", "undo", "log", "logMeta", "reply"}
         \/ owes[t] = {}

Fits(t) == AtItsStep(t) /\ CallIsItsOwn(t) /\ OwesWhatItTouched(t)

\* Then, of each file that is not spoilt: one thread at most owes a record on
\* it, and the file is there exactly when that record will say so.
OneDebtor ==
    \A t, u \in Thread : t # u => owes[t] \cap owes[u] \subseteq tainted

DebtIsDue ==
    \A t \in Thread : pc[t] # "reply" =>
        \A p \in owes[t] \ tainted : Exists(p) <=> req[t].cmd \notin {"delete", "syncDelete"}

ServiceInv ==
    /\ BinlogInv /\ LogIsThere /\ Numbered
    /\ FileInv
    /\ TypeOK
    /\ \A t \in Thread : Fits(t)
    /\ OneDebtor /\ DebtIsDue
    /\ LastRecordAgrees
=============================================================================
