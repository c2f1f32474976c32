# TLA+ verification of demostroage

demostroage is a FastDFS-style storage server in C: clients and other storage
servers connect over TCP, a thread per connection serves them, files are kept
under `base/data`, and every change is recorded in a *binlog* from which replicas
are meant to be brought up to date. This directory holds TLA+ models of that
server, the TLC configurations that check them, and TLAPS proofs, for every
number of threads, files, requests and restarts, of what the binlog, the data
files, the composed server, a connection, the thread pool, the statistics, the
start and the metadata promise. Line numbers refer to `src/`.

Contents: [inventory](#1-inventory), [modules](#2-modules),
[runs](#3-runs-bounds-and-results), [fairness](#4-fairness),
[findings](#5-findings), [proofs](#6-proofs),
[what is abstracted or left out](#7-abstractions-and-what-is-not-modelled),
[plan](#8-plan), [how to run](#9-how-to-run).

## 1. Inventory

The process is `main` (accept loop), one detached thread per connection, and one
reporter thread per configured tracker. They share global variables, some of
them under a mutex, most without one.

| Component (source) | State it keeps | Operations | Hard behaviour | Correct when | Module |
|---|---|---|---|---|---|
| Storage service (`storage_service.c`) | locals of a connection thread | `storage_thread_entrance` and seven handlers: upload, download, delete, get/set metadata, and the three replication commands | every handler is several system calls and binlog calls with no file lock; each call can fail | an acknowledged change is recorded; the binlog tells which files exist | `StorageService`, `ServiceProofs` |
| Connection (`storage_thread_entrance`, `sockopt.c`) | a socket; what has been read of a package | `tcprecvdata`, `tcpsenddata`, `nbaccept` with timeouts; header, body, reply | partial transfers, timeouts in the middle, a client that vanishes or does not read | thread and client agree where a package begins; every request is answered or the connection closed, unless the client leaves a body unread | `Connection`, `ConnectionProofs`; `nbaccept` in `Lifecycle` |
| Binlog (`storage_sync.c`) | `g_fp_binlog`, `g_binlog_index`, `binlog_file_size`, the stdio buffer, `sync/binlog.index` | `storage_sync_init`, `storage_sync_destroy`, `storage_binlog_write`, rotation | the fcntl lock belongs to the process, so threads interleave inside the function; the buffer is shared; flush and rotation fail | a record is on disk once when 0 is returned; the file only grows | `Binlog`, `AppendLog`, `BinlogRefinement`, `BinlogProofs` |
| Data files (`shared_func.c`) | directory, files, open FILEs | `fileExists`, `getFileContent`, `writeToFile`, `unlink` | truncate-then-write, read while written, unlink while read, crash in the middle | incomplete files only while somebody writes them; whole reads | `FileStore`, `FileStoreProofs` |
| Statistics (`storage_service.c`, `storage_func.c`) | `g_storage_stat`, `g_stat_change_count`, the descriptor of `data/storage_stat.dat` | count, save, load at start, save at the end | `++` without a lock; one descriptor and its offset shared by all threads; crash between `ftruncate` and `write` | no request is made up; the file is complete unless a write failed | `StatFile`, `StatFileProofs` |
| Start (`main.c`, `storage_func.c`, `ini_file_reader.c`, `logger.c`) | the tracker table, the data directories, the flag file | read ini, sort the trackers, make the log and 16x16 data directories | `bsearch` and `qsort` with equal keys; a start cut short and repeated | table sorted and complete; a server that serves has its directories | `Startup`, `StartupProofs` |
| Process life (`main.c`, loop and counter in `storage_service.c`) | `g_continue_flag`, `g_storage_thread_count` and its lock | accept, thread creation, signals, drain loop, shutdown | `++`/`--` under a lock, unlocked reads, the limit, shutdown order | counter right, limit kept, nothing closed under a thread, every thread ends that its own client does not keep in a write | `Lifecycle`, `LifecycleProofs` |
| Tracker reporters (`tracker_client_thread.c`) | `g_tracker_server_count`, `g_tracker_reporter_count`, the reporter mutex, sync source | start, wait for each other, join, heartbeat, df/stat reports, sync source request | a wait of all for all | every reporter begins | start, wait and end in `Lifecycle`; the session is unreachable |
| Metadata format (`tracker_proto.c`, `shared_func.c`) | a buffer | split, sort, pack in place | boundaries, equal names, bytes left behind | what is stored are the sorted pairs of what came | `Metadata`, `MetadataProofs` |
| Other items of the configuration, sync state | ini values; `.data_init_flag` | read with defaults; written at every start and never read | - | - | the flag file in `Startup` |
| File names (`fdfs_base64.c`, `hash.c`, `storage_gen_filename`) | encoding table | encode name, hash to directory | the table is never initialised | names distinct | the constant `Settings` |
| Logger, local addresses, build | log file; address table; `-D__DEBUG__` | append a line; look up | `logError` overwrites `errno`; `__LINE__` passed for `%s` | - | effects only |

Interactions: `main` reads the configuration, makes the directories, opens
statistics and binlog, starts the reporters, then accepts. A connection thread
reads requests from its socket, calls the file operations and
`storage_binlog_write` in the order its handler fixes, replies, counts, and saves
the statistics every 1000 successful requests; when its loop ends it takes itself
off the counter `main` waits for. The binlog is written by all connection threads
through one `FILE*`, the statistics file through one descriptor. A signal handler
or a failed rotation takes `g_continue_flag` down, which `main`, the connection
threads and the reporters poll.

`PROJECT.json` lists the hazards found in the code one by one, each with the
property that covers it or the reason why none does.

## 2. Modules

    StorageBase            constants shared: Thread, Path
      Binlog               storage_sync.c
        BinlogRefinement   Binlog implements AppendLog (INSTANCE AppendLog)
          MCBinlog
          BinlogProofs     theorems about Binlog, and the implementation
      FileStore            data files
        FileStoreProofs    theorems about FileStore
      StorageService       = Binlog + FileStore + the connection threads
        MCStorageService
        ServiceProofs      theorems about the composition
                           (EXTENDS BinlogProofs and FileStoreProofs, too)
      StatFile             counters and statistics file
        MCStatFile
        StatFileProofs
    AppendLog              what callers of storage_binlog_write can rely on
    Connection             one connection as a byte stream
      MCConnection
      ConnectionProofs
    Lifecycle              main, signals, thread pool, start and end of reporters
      MCLifecycle
      LifecycleProofs
    Startup                configuration, tracker table, directories, restarts
      MCStartup
      StartupProofs
    Metadata               split, sort and pack of an upload's metadata
      MCMetadata
      MetadataProofs

The invariants and their strengthenings are definitions of the model modules; the
`...Proofs` modules hold only lemmas, theorems and the helpers these need. A proof
about a composition reuses the lemmas of its parts: `ServiceProofs` shows that each
step of a handler is a step of `Binlog`, a step of `FileStore`, or leaves them alone.

### Binlog

| Variable | Code |
|---|---|
| `log` | the file `base/sync/binlog.index`. The code uses the same name for the index and for the log (`get_writable_binlog_filename`), so both are this one file; `seed` says that an operator put a first line there |
| `dataSync` | whether `base/data/sync` exists; the code writes the index there and never makes that directory, so a run fixes it either way |
| `fp`, `index`, `size`, `go` | `g_fp_binlog`, `g_binlog_index`, `binlog_file_size` (in records), `g_continue_flag` |
| `buf` | the stdio buffer of `g_fp_binlog`, in records |
| `wpc`, `wrec`, `wres`, `tmp` | a thread's place in `storage_binlog_write`, its arguments, its result and its copy of `binlog_file_size` |
| `lost`, `calls` | history: records discarded by another thread's failed flush; a number that tells calls apart |

`storage_binlog_write` (251-338) is cut where another thread can run: lock and
`fprintf` (`BinlogCall`, `PrintRecord`, `PrintFull`), `fflush` (`Flush`,
`FlushFails`), the load and store of `binlog_file_size +=` (`LoadSize`,
`StoreSize`), the comparison (`CheckSize`), the rotation (`RotateFails`,
`RotateDies`), the unlock and return (`Finish`, `BinlogReturn`). The fcntl lock
never blocks, because all threads are one process. Three paths kill the process
and are modelled as such: `fileno(NULL)` when the log was never opened
(`BinlogCallDies`), the error message of a failed `fprintf`, which passes
`__LINE__` for `%s` (`PrintFails`, which leaves in the file what the failing write
of the full buffer has put there), and a rotation that stores its index, because
`storage_sync_destroy` clears `g_fp_binlog` before `fclose(g_fp_binlog)`
(`RotateDies`). `Crash` loses everything in memory and keeps the file;
`Start...` are the paths of `storage_sync_init` (64-170): the log is read and opened
(`StartOnExistingLog`); it is absent or cannot be read, and the index can be written
(`StartOnNewLog`) or not (`StartWithoutLog`); or the start is refused, perhaps after
`fopen` has made the file (`OpenedLog`).

### AppendLog and BinlogRefinement

`AppendLog` is the promise without the machinery: a log (`disk`), calls that are
open until they are decided, records that are appended once and only while their
call is open (a death ends all calls, and may append some of their records), and `lost`, the records of open calls which another call's failure
took with it. `BinlogRefinement` maps `disk` to `log.recs` and a thread's place in
`storage_binlog_write` to the state of its call (`StateOf`): a call is decided
when it reaches its return. Buffer, size, index, rotations and starts have no
counterpart, so that every step of them must be a step of the abstract log or none.

### FileStore

Names (`dir`) and files (`data`) are kept apart, because an open FILE outlives its
name. `OpenWrite` truncates, `Write`/`WriteShort` put the content and close,
`OpenRead`, `Read`/`ReadFails` are `getFileContent`, `Unlink` is `unlink`,
`FilesAfterCrash` is the end of the process. `hurt` and the `clean` fields are
history: files a fault, a crash or overlapping writers may have spoilt, and reads
during which nobody wrote.

### StorageService

`pc` is the step of a handler, `req` the request, `status` the reply's status.
Each step is one system call or one step of `storage_binlog_write`, composed from
the actions of `FileStore` and `Binlog`:

| Handler | Steps |
|---|---|
| `storage_upload_file`, `storage_save_file` | `FindName`/`FindNoName`, `OpenToWrite`, `WriteFile`, `OpenMetaToWrite`, `WriteMeta`, `UndoUpload`, log, log of the metadata |
| `storage_download_file`, `storage_get_metadata` | `CheckBeforeGetMeta`, `OpenToRead`, `ReadFile` |
| `storage_set_metadata` | `CheckBeforeSetMeta`, `SetMetaUnset`, log |
| `storage_delete_file` | `UnlinkNamed`/`UnlinkAbsent`, log, `UnlinkMeta`/`UnlinkMetaFails`, log |
| `storage_sync_copy_file` (create, update) | `CheckBeforeCreate` (create only), `OpenToWrite`, `WriteFile`, log |
| `storage_sync_delete_file` | `UnlinkNamed`/`UnlinkAbsent`, log |
| `storage_thread_entrance` | `Accept`, `Receive`, `ReceiveBad`, `Reply`, `Close` |

A log is `LogCall`, the steps of `storage_binlog_write` (`LogStep`), `LogReturn`.
`ThreadKillsServer` collects the places where a request takes the process down.

Two history variables say what a property may expect. `owes[t]` are the files
whose name thread `t` has changed without having recorded it yet; `tainted` are
the files whose records are unreliable because a request ended owing a record
(a fault or a crash), because two threads owed a record for one file at a time,
because another thread's flush lost it, or because `set_metadata` wrote a record
with an uninitialised type.

`TypeOK` allows in `req` what `FindName` may do to the name of an upload (`Served`),
which is more than a client can ask for. The module assumes what the instances must
give: that a data file exists, that metadata files are no data files, and bounds
that are numbers (`ServiceAssumption`).

The directory and the build are a *setting*, fixed at the start: `AsBuilt` is the
program the makefile makes (`-D__DEBUG__`, no upload finds a name, an empty
directory and perhaps no binlog), `AsMeant` is the code with the two obstacles
removed and a file with metadata in place, so that the rest of it is checked, too.
`UnlinkMetaFails` has both effects of `logError` on `errno`: a delete recorded for a
file that is still there, and an error for one that was absent. `UndoUpload` ignores,
as the code does, whether its `unlink` succeeds.

### Connection

`flight` and `inbox` are the bytes on their way and in the socket, `got` what the
running `tcprecvdata` has read, `pc` the place of the thread, `out` what the client
can read. Bytes are counted in units, two to a header and two to a body, so that
each can be torn. The client sends, the network delivers in pieces, and either may
end at any moment; `Read`, `HeadTimeout`, `BodyTimeout` and `ReadFails` are the
outcomes of `tcprecvdata`, `ReplyHead`, `SendBody`, `ReplyBody` and `ReplyFails` those
of `tcpsenddata`. A thread at `write` is inside the blocking `write` of a body
(`sockopt.c` 339), which is over when the client has read what does not fit into the
send buffer; it may stay there for ever. And the work of a handler is one step (`Work`), as `StorageService`
has its steps. The length a handler accepts, and how much it receives, is that of
its kind (`UploadRead` for an upload; an upload whose body is no longer than that is
refused). `torn` and `strayed` are history: a header
dropped in the middle by a timeout, and an upload that left its body in the socket.
What is read after that may pass for any command (`Meant`).

### StatFile

`stat` and `change` are the counters, `file` the lines of the statistics file,
`offset` that of the shared descriptor. A request of a connection thread is:
`Request`, load and store of the total, `Serve`, load and store of the success,
load, store and test of `g_stat_change_count` (the test of 20 is of the value stored or
of what another thread has made of it, as the compiler likes); and, every `Freq` changes,
`storage_write_to_stat_file`: the counters one by one (`PrintItem`), `Truncate`,
`Seek`, `Write`/`WriteShort`, `Sync`, each of which may fail. `main` saves in the
same way, after it has loaded the file (`OpenLoads`, `OpenCreates`, `OpenRefused`)
and before it ends (`CloseBegins`). A line remembers whether its newline is there;
`Readable` and `ValuesOf` are what the ini file reader makes of the lines: a torn
line swallows the next one, and of several copies of an item `bsearch` finds any.
History: `served`, what the counters should say; `last`, what the last writer had
printed; `overlap`, `spoilt` and `uneven`, what a property must leave out.

### Startup

`pc` follows `main` from `storage_load_from_conf_file` to the end of
`storage_check_and_make_data_dirs`. The configuration is chosen among those of the
instance: trackers named once, twice, by two names of one host, without a port,
more of them than the maximum, or wrongly. `iniLoadItems` sorts in any order that
keeps equal names together, `iniGetValues` starts from any item `bsearch` may find,
`Copy` searches and inserts one tracker. `MakeDir` and `MakeSub` make one directory
each; the system may refuse any of them, and a `Crash` may come between any two.
`SubPasses` and `MakeSubRefused` have the condition at 558-560 as it is: when
`mkdir(sub_name)` fails the code looks for `dir_name`, inside `dir_name`.

### Metadata

What `storage_save_file` does with the metadata of an upload, as a small machine on
one buffer: `SplitBuffer` (which puts terminators into it), `SortList`, `PackList`
(in place), `SaveBuffer` (as many bytes as came). Conversions are operators:
`Rows`, `Pairs`, `Split`, `Sorts` (all results an unstable sort may have), `Joined`,
`Pack`. The loops over rows, pairs and characters are recursive functions on an
interval, one step of the function to one of the loop, so that they can be proved
about. A character is a number: `NUL` ends what the string functions see, `RS` and
`FS` separate, and `Letter` are all others, in the order `strcmp` has.

### Lifecycle

`main` is the place of `main` (`main.c` 122-247), `conn[c]` that of a connection
thread's loop, `count` the counter, `lock` its mutex; the load and the store of
`++` and `--` are separate steps, so that only the lock makes them one. The
handlers are one step here (`recv`), which may keep the connection, end it, take
`g_continue_flag` down (a failed rotation) or kill the process. One that replies with
a body goes through `send`, the blocking `write` of it, which only the client or its
end finishes (`ConnSent`, `ConnSendBreaks`). `reporter[r]` goes
from the start through the wait "for all thread started" to its session or end.

## 3. Runs, bounds and results

All sizes are distinct states with TLC and two workers.

| Run | Instance | States | Shows |
|---|---|---|---|
| `binlog` | 3 threads, 3 calls, file maximum 2 records, buffer 2 records | 95,794 | `OkMeansOnDisk`, `BufferedOnlyInCall`, `LoggedOnce`, `NoEarlyRotation`, `DurableAppendOnly`, `ImplementsAppendLog` hold |
| `service` | 2 connections, 2 requests, one data file and its metadata, both settings, 4 inodes, file maximum 4 records | 2,012,800 | `IncompleteOnlyWhileWritten`, `ReadsAreWhole`, `AckedIsLogged`, `LastRecordAgrees` hold |
| `lifecycle` | 3 connection threads, limit 2, 2 trackers | 50,662 | `CountMatches`, `PoolBounded`, `DrainedBeforeShutdown`, `StopEndsThreads` hold |
| `statfile` | 2 threads and `main`, 1 command, saved every 2 changes, 4 requests | 2,426,233 | `NeverOvercounted`, `WholeWhenQuiet`, `LastWriteStands`, `LossIsBounded` hold |
| `connection` | 3 requests, headers and bodies of 2 units, 1 of which an upload receives | 290,116 | `InSync`, `RepliesAreReadable`, `Answered` hold |
| `startup` | 3 directories of 3, 62 configuration files of up to 4 trackers, maximum 3, 3 starts | 265,009 | `TrackersSorted`, `TrackersConfigured`, `ServingIsPrepared` hold |
| `metadata` | every buffer of 1 to 7 bytes over 5 characters, names and values of 1 | 593,652 | `MetadataIsSorted`, `PackFits` hold |
| `binlog_start`, `reporters_start`, `exit`, `stream`, `start_again` | the same instances; `stream` with 1 request, `start_again` with 2 starts | - | the findings of section 5 |

What the passing properties say:

- `OkMeansOnDisk`: when `storage_binlog_write` returns 0 the record is in the
  file, except when another thread's failing `fflush` discarded it while it was
  in the shared buffer. The exception is real: the code gives no stronger
  guarantee, and the model keeps it visible as `lost`.
- `BufferedOnlyInCall`: a record never waits in the buffer for somebody else's
  next call.
- `LoggedOnce`: whichever thread's flush writes a record, it is written once.
- `NoEarlyRotation`: lost updates of `binlog_file_size` delay a rotation and never
  cause one too early.
- `DurableAppendOnly`: crashes, restarts and rotations keep what is in the file.
- `ImplementsAppendLog`: seen through its callers and its file alone, the module is
  the abstract log of `AppendLog`.
- `IncompleteOnlyWhileWritten`, `ReadsAreWhole`: an incomplete file is being
  written or has been spoilt by a fault; a read that no writer overlaps returns
  one whole content, even when the name is removed or created anew meanwhile.
- `AckedIsLogged`: a reply with status 0 means that every file whose name the
  request created, overwrote or removed has its record.
- `LastRecordAgrees`: for a file no fault, crash, overlap or `set_metadata` has
  touched, the last record says whether the file exists.
- `CountMatches`, `PoolBounded`, `DrainedBeforeShutdown`: the thread counter, the
  limit, and that no connection thread can use the binlog or the statistics file
  once `main` closes them.
- `StopEndsThreads`: after a stop, and unless the process ends, every reporter ends,
  and every connection thread that is not inside a blocking write for ever: neither the
  lock nor the counter nor another thread's client keeps it, and its own client only by
  not reading the body it has asked for.
- `NeverOvercounted`: lost updates, crashes, restarts from an old or damaged file
  and several copies of an item in it only ever lose requests; no counter, in
  memory or on disk, is above the number of requests.
- `WholeWhenQuiet`: however the writers interleave, the file has every item once
  all of them have written, unless a write failed or a process ended in one. It
  is the exception that makes a later start impossible (`OpenRefused`).
- `LastWriteStands`: when no two writers overlapped, the file is what the last one
  printed, nothing of an older one behind it.
- `LossIsBounded`: a process that serves one request at a time has fewer than
  `STORAGE_SYNC_STAT_FILE_FREQ` successful requests to lose.
- `InSync`: whatever was late, failed or was refused, what the thread takes for a
  header is the header of the first request without a reply, except after a header
  was torn by a timeout or an upload left its body behind.
- `RepliesAreReadable`: replies come in the order of the requests, a body only
  behind the header that announces it, and nothing behind a piece that was cut off.
- `Answered`: a request that has arrived completely is answered or the connection
  is closed, however late, torn or missing what the client sends is, if no reply's body
  is left unread for ever.
- `TrackersSorted`, `TrackersConfigured`: the table is strictly sorted, fits the
  memory allocated for it, and has exactly the trackers the file names, however
  they are named and wherever `bsearch` came down.
- `ServingIsPrepared`: a server that serves has its directories, also after starts
  that were cut short. After a refusal of the system that the code passes over,
  those behind the diagonal may be missing, and the property says which.
- `MetadataIsSorted`, `PackFits`: who reads the stored metadata finds the pairs
  that came, sorted by name; packing stays inside the buffer and its terminator.

Why the bounds are enough. Binlog: a full buffer needs two printed records and a
third thread; a lost update of the size needs two threads; a rotation needs two
records; three calls give all of these, together with a crash and a restart at any
point (crashes are not bounded). StorageService: two requests interleave at every
step, or follow one another on one connection, on a file and its metadata, which is
also where two writers, or a writer and a reader, meet in FileStore; four inodes
are the names and one open FILE of each thread; `MaxCalls` covers the initial
records and two for each request; `MaxRequests` bounds receives, and `Accept` opens
no connection that could not receive, so idle threads add no states. Lifecycle: one
connection more than the limit, and threads that end and are reused without a
bound. StatFile: two threads save at the same time when both have stored the same
even number of changes; four requests are two saves, and
`main` adds one at every start; crashes and restarts are not bounded. Connection:
after a first request that went wrong in any way a second one shows whether the
count is lost and a third whether it stays so; two units are the least that can be
torn. Startup: of three directories one is before, one at and one behind the
diagonal the code's test stands on; the third start comes after one cut short and
one refused. Metadata: seven bytes are two pairs of one character each, or one that
is too long, or three without values, with terminators and separators anywhere.

Threads are interchangeable, which the symmetry sets of `binlog`, `service` and
`statfile` use; none of these checks liveness. `CHECK_DEADLOCK FALSE` is given
where the modelled program ends: StorageService, Connection and Startup, where the
bounds end every behaviour, Lifecycle, where the process ends, and Metadata, where
the upload is done. `binlog` and `statfile` check for deadlock.

## 4. Fairness

`Lifecycle` states weak fairness of `main`, of each connection thread and of each
reporter; `Connection` states weak fairness of the connection thread (`Server`); both
except inside the `write` of a reply's body. What these threads otherwise wait for is
bounded in the code: `nbaccept` by 60 seconds (`main.c` 143), the `select` of
`tcprecvdata` and `tcpsenddata` by `g_network_timeout`, which `storage_func.c` 215-220
never leaves at 0 or below, the sleeps by one second, and a handler has no unbounded
loop. The lock is held for a few steps only.

That `write` is not bounded. `tcpsenddata` (`sockopt.c` 316-349) waits in `select` until
the socket takes something and then writes all that is left on a socket that blocks
(nothing in the code sets `O_NONBLOCK` or a send timeout): when the body is larger
than the send buffer and the client neither reads nor closes, the thread stays. A
signal does not end it either: with the `signal` of the C library (`main.c` 135-138)
system calls are restarted. So `ConnSent`, `ConnSendBreaks` and, at `write`,
`ReplyBody` and `ReplyFails` have no fairness, and `StopEndsThreads` and `Answered` have
the hypothesis that a write does not last for ever. The header of a reply, a few
bytes, is taken to fit when `select` says that the socket takes something: for it
`g_network_timeout` is the bound.

Nothing is assumed of clients, the network, signals or faults. The other specifications are
checked for safety only and state none.

## 5. Findings

- `binlog_start`: `storage_sync_init` returns 0 without opening the binlog when
  the index cannot be written, and it cannot, as `data/sync` is never made; the
  first record then dies in `fileno(NULL)` (`storage_sync.c` 132).
- `reporters_start`: the started reporters are added to `g_tracker_server_count`,
  so all of them wait for ever for a count they cannot reach
  (`tracker_client_thread.c` 516).
- `exit`: `storage_sync_destroy` closes NULL at the end of `main`, before the
  statistics are saved (`storage_sync.c` 177).
- `stream`: a header that is late in the middle is dropped, and what follows is
  taken for a header (`storage_service.c` 1231); an upload leaves most of its body
  in the socket, with the same effect (486).
- `start_again`: a first start that is cut short between subdirectory 0 and
  subdirectory *i* of directory *i* leaves a server that refuses every start
  (`storage_func.c` 558).

Seen while modelling, in the models as they are in the code, and without a run of
their own: `set_metadata` answers 0 and stores nothing, although the comment at
`storage_service.c` 1034 promises overwrite or merge (`CheckBeforeSetMeta`); a
reporter that ends adds itself to the count `main` waits to become 0, so `main` may
sleep for ever (`tracker_client_thread.c` 462, `ReporterEnds`); a statistics file
that a crash has cut short refuses every start (`storage_func.c` 608,
`OpenRefused`); a client that asks for a large file and does not read it keeps its
thread, and after a stop the drain loop of `main`, for ever (`sockopt.c` 339,
`ConnSends`, `SendBody`). Outside the models: the configuration reads `network_tmeout` (215)
and `sync_wait_usec` (311) where `storage.conf` has `network_timeout` and
`sync_wait_msec`, so both keep their defaults; `logger.c` makes `base/log` while
the logger writes to `base/logs`, and where somebody has made `base/logs` it uses a
`FILE*` that was never assigned (53-65; section 7); an upload picks one of 256x256 directories while
the start makes 16x16.

## 6. Proofs

Every theorem is proved for every value of the constants that satisfies the named
assumption of its module; TLC evaluates the assumptions on the instances.

| Module | Theorem | Proves |
|---|---|---|
| `BinlogProofs` (`BinlogAssumption`) | `TypeCorrectness` | `[]BinlogTypeOK` |
| | `AckedRecordsAreOnDisk` | `[]OkMeansOnDisk` |
| | `NothingIsHeldBack` | `[]BufferedOnlyInCall` |
| | `NothingIsLoggedTwice` | `[]LoggedOnce` |
| | `RotationsAreDue` | `[]NoEarlyRotation` |
| | `LogOnlyGrows` | `DurableAppendOnly` |
| | `BinlogImplementsAppendLog` | `ImplementsAppendLog` |
| `FileStoreProofs` (`FileStoreAssumption`) | `FilesAreWhole` | `[]` of `IncompleteOnlyWhileWritten`, `ReadsAreWhole`, for threads that do the operations in any order |
| `ServiceProofs` (`ServiceAssumption` and those of the parts) | `ServerTypes` | `[]TypeOK` |
| | `AnswersAreRecorded` | `[]AckedIsLogged` |
| | `ReplicasAgree` | `[]LastRecordAgrees` |
| | `ServedFilesAreWhole` | the properties of `FileStore` in the running server |
| | `ServedLogIsSound` | `OkMeansOnDisk`, `LoggedOnce`, `BufferedOnlyInCall` in the running server |
| | `ServerDrivesTheLog` | every step of the server is one of `Binlog` or leaves it alone; `DurableAppendOnly` |
| `ConnectionProofs` (`ConnectionAssumption`) | `ConnectionTypes`, `HeadersAreHeaders`, `RepliesCanBeRead` | `[]` of `ConnectionTypeOK`, `InSync`, `RepliesAreReadable` |
| `LifecycleProofs` (`LifecycleAssumption`) | `LifecycleTypes`, `CounterIsExact`, `LimitIsKept`, `NothingIsClosedInUse` | `[]` of `LifecycleTypeOK`, `CountMatches`, `PoolBounded`, `DrainedBeforeShutdown` |
| `StatFileProofs` (`StatAssumption`) | `StatTypes`, `OnlyLosesCounts`, `FileIsWholeInTheEnd`, `LastWriterWins`, `FewAreLost` | `[]` of `StatTypeOK`, `NeverOvercounted`, `WholeWhenQuiet`, `LastWriteStands`, `LossIsBounded` |
| `StartupProofs` (`StartupAssumption`) | `ServesPrepared` | `[]ServingIsPrepared` |
| | `StartupTyped`, `TableSorted`, `TableConfigured` | `[]` of `StartupTypeOK`, `TrackersSorted`, `TrackersConfigured` |
| `MetadataProofs` (`MetadataAssumption`) | `MetadataTyped`, `StoredMetadataIsSorted`, `PackingFits` | `[]` of `MetadataTypeOK`, `MetadataIsSorted`, `PackFits` |

`BinlogInvariance`, `ServiceInvariance`, `ConnectionInvariance`, `LifecycleInvariance`,
`StatInvariance`, `DirsInvariance`, `TableInvariance` and `MetaInvariance` are the
invariants these follow from. With them every invariant and every action property
that a run checks, and the implementation of `AppendLog`, is a theorem.

### Binlog

`OkMeansOnDisk` is not inductive: that a flush succeeds says nothing unless the
thread's record is known to be in the buffer or to have left it. `BinlogInv`
therefore adds two facts: `InCallHasRecord`, a thread inside a call belongs to a live
process and holds a record whose number no other thread inside a call has; and
`Accounted`, a record between `fprintf` and `fflush` is in the buffer, in the file or
lost, and after a successful `fflush` it is in the file or lost. Each action has a
lemma; the flush that fails in the middle (`FlushFailsInv`) is the one that needs the
split of the buffer (`CutProperties`). `LogOnlyGrows` adds `LogIsThere`: a log without
the file has no records, and a call is only under way when the log is open, so a start
that creates the file drops nothing. `NothingIsLoggedTwice` adds `Numbered`: printed
numbers are at most `calls`, and that of a thread about to print is not among them.

`RotationsAreDue` counts. Of the additions to `binlog_file_size` some are lost, so the
size is at most what was printed, less what the threads between `fprintf` and the
store have still to add, and the same holds of every copy a thread holds
(`SizeIsBehind`); what a failed flush discards stays counted, as `lost`, and each lost
record is counted once because it is nowhere else (`LostApart`). The hard case is again
the failing flush: the records it discards are as many as left the buffer, but for the
thread's own, and the thread will not add that one (`SizeFlushFails`).

### Binlog implements AppendLog

The last part of `BinlogProofs` uses the conjunction `Ready` of those invariants. Each action of
`Binlog` maps to one of the abstract log: the steps between buffer and size to
none (`SilentSteps`), a call to `Begin`, a flush, or an `fprintf` that fills the
buffer, to `Save` of all records that wait, the failing flush to the save of some and
the loss of the others, the last comparison or the failing rotation to `Decide`, the
return to `Return`, a death to the end of all open calls, with what a failing write of
the full buffer has put into the file (`EndLeaves`), and a start to none, which
is where `LogIsThere` is needed again. `BufferWaits` is what makes a flush an abstract
step: every record in the buffer belongs to a thread that waits for it.

### FileStore

`FileInv` says of the whole table of open FILEs: an incomplete file under a name is
being written or is `hurt`; a file being written that is not `hurt` is empty and
has one writer; a reader whose `clean` flag still stands has a whole content in
front of it (`Sound`). The conjuncts need one another: the reader's from the writer's,
as a writer that starts takes the flag from all readers of the file. A new file is
found because there are at least as many inodes as names and threads
(`FileStoreAssumption`), by counting.

### StorageService

`ServiceInv` is the invariants of the two parts and four facts of the connections.
`Fits`: a thread is at a step of the command it serves (`AtItsStep`); it is inside
`storage_binlog_write` only where its handler calls it, with the record its handler
means (`CallIsItsOwn`); and it owes records on exactly the names it has touched and
has not yet printed (`OwesWhatItTouched`). `OneDebtor`: of each file that is not
spoilt at most one thread owes the record. `DebtIsDue`: such a file exists exactly
when that record will say so. Then `LastRecordAgrees` is inductive: a step that prints
a record makes the last record agree and pays the debt, a step that changes a name
makes one or spoils the file.

The proof is in layers. The steps of a handler outside the log are shown one kind at
a time (`LookingSteps`, `WritingSteps`, `RemovingSteps`, `CreatingSteps`,
`FailingSteps`, ...), from a few lemmas that say which part of the invariant a change
of `owes`, of `tainted` or of a name can disturb (`TouchDebts`, `NameMade`,
`NameRemoved`); inside the log the question is only what becomes of the last record on
a file when a record is added (`OneMoreRecord`) or a failing flush cuts some off
(`RecordsCut`, `DroppedAreSpoilt`). `BinlogMoves` and `FilesMove` map a step of the server
to one of the parts, so that their invariants are cited and not proved again. Crash,
start and the deaths of the process close every debt by spoiling what was owed.

### Connection

Every unit has a place in the stream of all requests (`Place`), and package *j* + 1
begins behind *j* packages (`Begin`). `StreamGoesOn`: while no header was torn and no
upload strayed, what the thread has read, what is in the socket and what is on its way
stand one behind the other from the place the thread has got to, which is told by the
number of replies and its step (`DoneWith`); unless the client has closed, they end
where the last request sent ends. A receive moves units across and leaves the places
alone; a reply raises the number and moves the thread to the next package. A unit is
determined by its place (`UnitOfHeader`, from the arithmetic of `Packages`), so that
`HeadLen` units from the beginning of a package are its header: `InSync`. The replies
are numbered by the headers before them (`HeadAppended`).

### Lifecycle, StatFile, Startup

`LifecycleInv`: the lock belongs to the thread between its load and its unlock
(`LockOwned`), and what that thread has loaded is the counter (`LoadedIsCurrent`);
then the counter is the number of threads that run, `main` compares it with the limit
while it holds the lock, and the drain loop, which reads it without the lock, sees 0
only when the last thread has stored its decrement.

`StatInv`: `OwedIsMissing` says of a counter that it is at most what was served less
the increments that are under way, in memory and in each thread's copy;
`CopiesAreOld` bounds what was printed and what is in the file. `HeadWillBeWhole` is
why overlapping saves end well: a truncation is always followed by the same thread's
seek and write, and a write that comes between lands at the start or behind a whole
head. `LastWriter` says of saves that do not overlap that the writer finds the file
empty and the offset at the start.

`LossIsBounded` needs the exact count where `StatInv` has bounds. `LossInv` says, of
a process that has served one request at a time, that what a saver has printed is
what the counters still are (`Copying`), and that the counters of successes are ahead
of the last save by no more than the changes since the last multiple of
`STORAGE_SYNC_STAT_FILE_FREQ` (`AheadByChanges`): a success raises both, the test that
finds a multiple begins a save, and the save makes `last` the counters.

`DirsInv`: directory *i* is passed only with its diagonal made and, unless the system
refused something in this start, with all its subdirectories (`Passed`). What an
earlier start left is described by `DiagonalLast`: wherever subdirectory *i* of
directory *i* exists, those before it exist. That is what the test at 558-560 looks at,
in the wrong directory, and why a server that passes it has what it needs.

`TableInv` is the table of trackers: what `iniGetValues` has collected (`Collected`)
is the values of the tracker lines, all of them up to the maximum, and the table has
exactly the servers of the values copied so far, strictly sorted. Three lemmas carry
it. `ItemsTogether`, for `ValuesAreThose`: in a sorted list the items of one name are
an interval, so that from any of them, the loop backwards and the loop forwards collect
them all. `FoundIfThere`: `bsearch` finds what a sorted table has. Its recursive function
is shown to exist by giving one, the answer for every interval, and the answer to be
membership on the interval. `InsertedInOrder`: an insertion behind the last smaller one
keeps the order, and as the search did not find the new one, keeps it strict.

### Metadata

`MetaInv` follows the list through the four steps; the weight is in the lemmas about
what the conversions compute, for buffers of any length.

- Room. `Places` of a list of rows are the characters and one place behind each row;
  a text has one place fewer than its rows, whatever its separators (`RowsShape`). A pair
  is taken from a row of its own (`PairsShape`) and is no longer than it (`RowOfPair`),
  which maps the places of the pairs into those of the rows (`PairsFit`); the sort
  permutes them (`ReorderedPairs`); and the packed pairs are as long as they have places
  (`JoinedShape`). So `Pack` ends at most one byte behind what came: `PackFits`. When no
  row was left out or cut, the map is onto, and every byte that is stored is a pair's.
- Round trip. The *k*-th packed pair stands behind the first *k* - 1 (`JoinedAt`), so
  that splitting finds its row again (`RowsOfJoined`), and the row gives the pair, as
  there is no separator in its name and none but `FS` in its value (`Sound`, `PairOfRow`).
  The terminator stands where the last separator would, so what packing leaves behind it
  is not read (`PackedSplits`).
- No pairs. Then packing writes nothing into the buffer, and what is stored is what
  splitting has left. What stands before its first terminator is the beginning of the
  text that came, and there is no `FS` in that. It is the last conjunct of `MetaInv`,
  and without it `MetadataIsSorted` is not inductive.

### Induction

The theorems of the library that induct take an operator as a parameter, which the
provers used here cannot instantiate. The proofs about loops over data therefore start
from well-foundedness as a set of pairs: intervals `0 .. n` are ordered by strict
inclusion, so that a set of numbers has a least one (`LeastNumber`), from which an
induction for sets follows (`Induction`). A recursive function is a choice, so that
first a function with the steps of its definition must be shown to exist: by a
witness (`Found`), or from `Recursion`, which builds one step by step on an interval.
`LeastNumber` is in `StartupProofs` and in `MetadataProofs`, which share no module of
this project.

### What is only model-checked

Liveness under fairness: `StopEndsThreads` and `Answered`, and `ReportersStart`, which
the code does not keep. The prover reaches neither them nor `ENABLED`.

The strengthened invariants are definitions of the model modules, so that TLC can
check them on the instances, too: they need only be named in a configuration.

## 7. Abstractions and what is not modelled

- A log line is a record; a partial line at the end of a file after a crash or a
  short flush is not told from none. The 4096-byte stdio buffer is `BufRecords`.
- A crash is that of the process: what reached the kernel stays. The binlog and the
  data files are never synced, so nothing can be said about a power failure; the
  statistics file is, but only after it was truncated.
- A file's content is one value, incomplete or damaged. An upload stores `junk`:
  it receives the first `sizeof(char*)` bytes of its body only (486).
- StatFile counts in lines, not bytes: two snapshots whose numbers have different
  lengths are taken to be of one length. One pair of counters stands for the five,
  and the two time stamps, which are assigned and not counted, are left out.
- Connection has one request kind for each way of using the stream; what a handler
  does to files is in StorageService. A receive error after a partial read and one
  before it are one case.
- Startup leaves out a directory that others remove, `chdir` that fails, and a
  configuration file that cannot be read: these end the start at once. Of the items
  only `tracker_server` is modelled.
- Of an upload's body the run `connection` receives one unit of two; the theorems of
  `ConnectionProofs` hold for any positive `UploadRead`, also one of a body's length or more.
- A short write of the statistics file may cut a line anywhere (`WriteShort`); that what
  overlapping writers have left of an older line follows the cut in the same line is
  not modelled: a number could then begin with the digits of one save and end with those
  of another, and `NeverOvercounted` is proved without that case.
- Error messages are left out, except where they change `errno` before it is used
  (`UnlinkMetaFails`) or kill the process (`PrintFails`, `ThreadKillsServer`).
- The logger's own fault is left out: with a directory `base/logs`, `fopen` at `logger.c` 57 succeeds, its result is dropped (the file stays
  open), and `fileno(fp)` at 65 and all that follows use a `fp` that nothing has assigned.
  Then any error message may end the process. Without the directory, which the start
  does not make, messages go to `stderr`, and that is what the models take for granted. In
  `Binlog`, `StorageService` and `StatFile` a `Crash` at any step covers an end of the
  process in a message, too; `Lifecycle` has an end inside a handler only (`ConnKills`).

Not modelled, and why:

- The reporters' sessions with a tracker (join, heartbeat, reports, sync source) and
  the table of local addresses they fill: no state of the program reaches them, as
  the run `reporters_start` shows; Init of a model would be a state the program is
  never in.
- base64, the hash and `storage_gen_filename`: pure functions whose encoding table
  is never initialised; what matters of them is whether an upload finds a name.
- The text of the log, paths, the printing of numbers, socket options, the random
  seed: input and output without a decision the properties depend on.

## 8. Plan

Done: all the modules and runs of sections 2 and 3, and the proofs of section 6.

What would extend them:

1. `iniLoadItems` and `iniGetIntValue` on the lines of a damaged statistics file as one
   module for `Startup` and `StatFile`, which model the two uses apart.
2. A `StorageService` whose `Work` is that of `Connection`, so that handlers and byte
   stream are one specification; today the one has the steps and the other the stream.
3. The hazards of `PROJECT.json` that no property covers, each with its note.

## 9. How to run

    tlc -workers 2 -config MCBinlog.cfg MCBinlog
    tlapm BinlogProofs.tla
    tlapm FileStoreProofs.tla
    tlapm ServiceProofs.tla
    tlapm ConnectionProofs.tla
    tlapm LifecycleProofs.tla
    tlapm StatFileProofs.tla
    tlapm StartupProofs.tla
    tlapm MetadataProofs.tla

`PROJECT.json` names the module and the configuration of every run, the lines each
definition models, and for every property a plausible bug that breaks it.
