------------------------------ MODULE StatFile ------------------------------
(***************************************************************************)
(* The statistics: the counters g_storage_stat that the connection threads *)
(* increment, and the file data/storage_stat.dat they are saved to.        *)
(*                                                                         *)
(* Nothing is locked.  An increment is a load and a store.  Every          *)
(* STORAGE_SYNC_STAT_FILE_FREQ successful requests a thread saves all      *)
(* counters: it prints them, truncates the file, seeks and writes, and all *)
(* threads do so on one descriptor, whose offset they share.  main saves   *)
(* them too, before the first connection and after the last.               *)
(***************************************************************************)
EXTENDS StorageBase, Integers, Sequences, FiniteSets

CONSTANTS
    Commands,     \* the number of commands that have counters
    Freq,         \* STORAGE_SYNC_STAT_FILE_FREQ
    MaxRequests   \* bound: requests in one behaviour, restarts included

ASSUME StatAssumption ==
    /\ Commands \in Nat \ {0}
    /\ Freq \in Nat \ {0}
    /\ MaxRequests \in Nat
    /\ "main" \notin Thread

\* Command k has the counters 2k-1 (total) and 2k (success); this is also
\* their order in the file.
Item       == 1 .. 2 * Commands
Total(k)   == 2 * k - 1
Success(k) == 2 * k
Succeeded  == {Success(k) : k \in 1 .. Commands}

VARIABLES
    phase,    \* main: "down", "starting", "serving", "stopping"
    stat,     \* g_storage_stat
    change,   \* g_stat_change_count
    exists,   \* there is a file storage_stat.dat
    file,     \* its lines
    offset,   \* of storage_stat_fd, in lines
    pc,       \* where main and each connection thread are
    cmd,      \* the command a thread serves, 0 for one without counters
    tmp,      \* the value a thread has loaded and not yet stored or tested
    buff,     \* the lines storage_write_to_stat_file prints
    requests, \* history: requests received
    served,   \* history: how often each counter should have been incremented
    last,     \* history: what the last writer of the file had printed
    overlap,  \* history: another writer truncated the file meanwhile
    spoilt,   \* history: that write failed or was cut off by a crash
    uneven    \* history: this process served two requests at a time, or
              \* failed to save

memory  == <<phase, stat, change, offset>>
onDisk  == <<exists, file>>
thread  == <<pc, cmd, tmp, buff>>
history == <<requests, served, last, overlap, spoilt, uneven>>
vars    == <<memory, onDisk, thread, history>>

Actor == Thread \cup {"main"}

-----------------------------------------------------------------------------
(* The lines of the file.                                                  *)

\* A line "name=value"; end says that its newline is there.
Line(i, v) == [item |-> i, val |-> v, end |-> TRUE]

\* What is left between the end of the file and an offset behind it.
Hole == [item |-> 0, val |-> 0, end |-> FALSE]

Lines(values) == [i \in Item |-> Line(i, values[i])]

\* The file after the lines are written at the offset.
Overlay(lines) ==
    LET n == offset + Len(lines)
    IN  [j \in 1 .. (IF n > Len(file) THEN n ELSE Len(file)) |->
            IF j \in offset + 1 .. n THEN lines[j - offset]
            ELSE IF j <= Len(file) THEN file[j] ELSE Hole]

\* The lines iniLoadItems takes for items: a line that follows one without a
\* newline is part of that, and what begins with a hole is an empty line.
Readable == {j \in DOMAIN file : file[j].item # 0 /\ (j > 1 => file[j - 1].end)}

\* The values iniGetIntValue may return: bsearch finds any of several items of
\* the same name, and an item that is missing counts 0.
ValuesOf(i) ==
    LET found == {file[j].val : j \in {x \in Readable : file[x].item = i}}
    IN  IF found = {} THEN {0} ELSE found

\* What atoi makes of the number v when its last digits are cut off.
CutOff(v) ==
    {v \div p : p \in {10, 100, 1000, 10000, 100000, 1000000, 10000000, 100000000, 1000000000}}

-----------------------------------------------------------------------------
Nobody == [a \in Actor |-> "idle"]
Zero   == [i \in Item |-> 0]
Blank  == [i \in Item |-> -1]      \* nothing printed yet

Init ==
    /\ phase = "down"
    /\ stat = Zero
    /\ change = 0
    /\ exists = FALSE
    /\ file = <<>>
    /\ offset = 0
    /\ pc = Nobody
    /\ cmd = [t \in Thread |-> 0]
    /\ tmp = [t \in Thread |-> 0]
    /\ buff = [a \in Actor |-> Blank]
    /\ requests = 0
    /\ served = Zero
    /\ last = Zero
    /\ overlap = FALSE
    /\ spoilt = FALSE
    /\ uneven = FALSE

Goes(a, from, to) ==
    /\ pc[a] = from
    /\ pc' = [pc EXCEPT ![a] = to]

\* The state of main and of the descriptor once storage_open_storage_stat has
\* the counters.  g_stat_change_count starts at 1.
Opened(counters) ==
    /\ phase' = "starting"
    /\ stat' = counters
    /\ change' = 1
    /\ offset' = 0
    /\ pc' = [pc EXCEPT !["main"] = "print"]
    /\ uneven' = FALSE
    /\ UNCHANGED <<cmd, tmp, buff, requests, served, last, overlap>>

\* What a process has in memory when it is gone.
Gone ==
    /\ phase' = "down"
    /\ stat' = Zero
    /\ change' = 0
    /\ offset' = 0
    /\ pc' = Nobody
    /\ cmd' = [t \in Thread |-> 0]
    /\ tmp' = [t \in Thread |-> 0]
    /\ buff' = [a \in Actor |-> Blank]

-----------------------------------------------------------------------------
(* storage_open_storage_stat and storage_close_storage_stat                *)

\* The file is there and has enough items.
OpenLoads ==
    /\ phase = "down"
    /\ exists
    /\ Cardinality(Readable) >= Cardinality(Item)
    /\ \E counters \in [Item -> UNION {ValuesOf(i) : i \in Item}] :
         /\ \A i \in Item : counters[i] \in ValuesOf(i)
         /\ Opened(counters)
    /\ UNCHANGED <<onDisk, spoilt>>

\* There is no file: it is created, empty.
OpenCreates ==
    /\ phase = "down"
    /\ ~exists
    /\ exists' = TRUE
    /\ Opened(Zero)
    /\ spoilt' = TRUE
    /\ UNCHANGED file

\* The file has fewer than twelve items, or cannot be read or opened.
OpenRefused ==
    /\ phase = "down"
    /\ UNCHANGED vars

\* main of a server that is told to stop, after the last connection.  It gets
\* here only when the binlog is not open (storage_sync_destroy).
CloseBegins ==
    /\ phase = "serving"
    /\ pc = Nobody
    /\ phase' = "stopping"
    /\ pc' = [pc EXCEPT !["main"] = "print"]
    /\ UNCHANGED <<stat, change, offset, onDisk, cmd, tmp, buff, history>>

\* main after storage_write_to_stat_file: it serves, or it is done.
MainSaved ==
    /\ pc["main"] = "saved"
    /\ \/ /\ phase = "starting"
          /\ phase' = "serving"
          /\ pc' = Nobody
          /\ UNCHANGED <<stat, change, offset, cmd, tmp, buff>>
       \/ phase = "stopping" /\ Gone
    /\ UNCHANGED <<onDisk, history>>

\* main after a failure: it does not start, or it is done all the same.
MainFailed == pc["main"] = "failed" /\ Gone /\ UNCHANGED <<onDisk, history>>

\* kill, or one of the steps of a request that take the process with them.
Crash ==
    /\ phase # "down"
    /\ Gone
    /\ spoilt' = (spoilt \/ \E a \in Actor : pc[a] \in {"seek", "write"})
    /\ UNCHANGED <<onDisk, requests, served, last, overlap, uneven>>

-----------------------------------------------------------------------------
(* storage_thread_entrance: the counters                                   *)

Busy == {t \in Thread : pc[t] # "idle"}

Request(t, k) ==
    /\ phase = "serving"
    /\ requests < MaxRequests
    /\ requests' = requests + 1
    /\ Goes(t, "idle", IF k = 0 THEN "serve" ELSE "total")
    /\ cmd' = [cmd EXCEPT ![t] = k]
    /\ served' = IF k = 0 THEN served ELSE [served EXCEPT ![Total(k)] = @ + 1]
    /\ uneven' = (uneven \/ Busy # {})
    /\ UNCHANGED <<memory, onDisk, tmp, buff, last, overlap, spoilt>>

\* The counter a thread is about to increment.
Counter(t) == IF pc[t] \in {"total", "total="} THEN Total(cmd[t]) ELSE Success(cmd[t])

LoadCounter(t) ==
    /\ Goes(t, "total", "total=") \/ Goes(t, "success", "success=")
    /\ tmp' = [tmp EXCEPT ![t] = stat[Counter(t)]]
    /\ UNCHANGED <<memory, onDisk, cmd, buff, history>>

\* Mutant of StoreCounter: -- for ++.
StoreCounterLess(t) ==
    /\ Goes(t, "total=", "serve") \/ Goes(t, "success=", "change")
    /\ stat' = [stat EXCEPT ![Counter(t)] = tmp[t] - 1]
    /\ tmp' = [tmp EXCEPT ![t] = 0]
    /\ UNCHANGED <<phase, change, offset, onDisk, cmd, buff, history>>

StoreCounter(t) ==
    /\ Goes(t, "total=", "serve") \/ Goes(t, "success=", "change")
    /\ stat' = [stat EXCEPT ![Counter(t)] = tmp[t] + 1]
    /\ tmp' = [tmp EXCEPT ![t] = 0]
    /\ UNCHANGED <<phase, change, offset, onDisk, cmd, buff, history>>

\* Mutant of Serve: a request that failed is counted as well.
ServeUnchecked(t) ==
    /\ Goes(t, "serve", IF cmd[t] = 0 THEN "change" ELSE "success")
    /\ \E ok \in BOOLEAN :
         served' = IF cmd[t] = 0 \/ ~ok THEN served ELSE [served EXCEPT ![Success(cmd[t])] = @ + 1]
    /\ UNCHANGED <<memory, onDisk, cmd, tmp, buff, requests, last, overlap, spoilt, uneven>>

\* The handler.  Its error ends the connection; a command of another storage
\* server has no counters and is only a change.
Serve(t) ==
    /\ \/ /\ Goes(t, "serve", IF cmd[t] = 0 THEN "change" ELSE "success")
          /\ served' = IF cmd[t] = 0 THEN served ELSE [served EXCEPT ![Success(cmd[t])] = @ + 1]
       \/ /\ Goes(t, "serve", "idle")
          /\ UNCHANGED served
    /\ UNCHANGED <<memory, onDisk, cmd, tmp, buff, requests, last, overlap, spoilt, uneven>>

\* ++g_stat_change_count % STORAGE_SYNC_STAT_FILE_FREQ == 0 in
\* CHECK_AND_WRITE_TO_STAT_FILE: load, store, and test the value stored or,
\* when the compiler reads the counter again, the one that is there by then.
LoadChange(t) ==
    /\ Goes(t, "change", "change=")
    /\ tmp' = [tmp EXCEPT ![t] = change]
    /\ UNCHANGED <<memory, onDisk, cmd, buff, history>>

StoreChange(t) ==
    /\ Goes(t, "change=", "test")
    /\ change' = tmp[t] + 1
    /\ tmp' = [tmp EXCEPT ![t] = @ + 1]
    /\ UNCHANGED <<phase, stat, offset, onDisk, cmd, buff, history>>

\* Mutant of TestChange: saves one change too late.
TestChangeLate(t) ==
    /\ \E n \in {tmp[t], change} :
         Goes(t, "test", IF n % (Freq + 1) = 0 THEN "print" ELSE "idle")
    /\ tmp' = [tmp EXCEPT ![t] = 0]
    /\ UNCHANGED <<memory, onDisk, cmd, buff, history>>

TestChange(t) ==
    /\ \E n \in {tmp[t], change} :
         Goes(t, "test", IF n % Freq = 0 THEN "print" ELSE "idle")
    /\ tmp' = [tmp EXCEPT ![t] = 0]
    /\ UNCHANGED <<memory, onDisk, cmd, buff, history>>

-----------------------------------------------------------------------------
(* storage_write_to_stat_file                                              *)

\* sprintf gets the counters one by one, in any order.
PrintItem(a) ==
    \E i \in Item :
      /\ buff[a][i] = -1
      /\ buff' = [buff EXCEPT ![a][i] = stat[i]]
      /\ Goes(a, "print", IF \A j \in Item \ {i} : buff[a][j] # -1 THEN "trunc" ELSE "print")
      /\ UNCHANGED <<memory, onDisk, cmd, tmp, history>>

Alone(a) == \A b \in Actor \ {a} : pc[b] \notin {"seek", "write"}

\* A failure ends the connection; main gives up.
Fails(a) ==
    /\ pc' = [pc EXCEPT ![a] = IF a = "main" THEN "failed" ELSE "idle"]
    /\ buff' = [buff EXCEPT ![a] = Blank]
    /\ uneven' = TRUE

\* Mutant of Truncate: the old lines stay.
TruncateNothing(a) ==
    /\ Goes(a, "trunc", "seek")
    /\ last' = buff[a]
    /\ overlap' = ~Alone(a)
    /\ spoilt' = (spoilt /\ ~Alone(a))
    /\ UNCHANGED <<memory, onDisk, cmd, tmp, buff, requests, served, uneven>>

\* ftruncate.
Truncate(a) ==
    /\ Goes(a, "trunc", "seek")
    /\ file' = <<>>
    /\ last' = buff[a]
    /\ overlap' = ~Alone(a)
    /\ spoilt' = (spoilt /\ ~Alone(a))
    /\ UNCHANGED <<memory, exists, cmd, tmp, buff, requests, served, uneven>>

TruncateFails(a) ==
    /\ pc[a] = "trunc"
    /\ Fails(a)
    /\ UNCHANGED <<memory, onDisk, cmd, tmp, requests, served, last, overlap, spoilt>>

\* Mutant of Seek: no lseek.
SeekNothing(a) ==
    /\ Goes(a, "seek", "write")
    /\ UNCHANGED <<memory, onDisk, cmd, tmp, buff, history>>

\* lseek to the start.
Seek(a) ==
    /\ Goes(a, "seek", "write")
    /\ offset' = 0
    /\ UNCHANGED <<phase, stat, change, onDisk, cmd, tmp, buff, history>>

SeekFails(a) ==
    /\ pc[a] = "seek"
    /\ Fails(a)
    /\ spoilt' = TRUE
    /\ UNCHANGED <<memory, onDisk, cmd, tmp, requests, served, last, overlap>>

\* write, at wherever the offset is by now.
Write(a) ==
    /\ Goes(a, "write", "sync")
    /\ file' = Overlay(Lines(buff[a]))
    /\ offset' = offset + Cardinality(Item)
    /\ UNCHANGED <<phase, stat, change, exists, cmd, tmp, buff, history>>

\* The disk is full after n lines.  Of the next one there is nothing, a piece
\* that is no item, or an item that has lost digits or its newline.
WriteShort(a) ==
    /\ pc[a] = "write"
    /\ \E n \in 0 .. Cardinality(Item) - 1 :
         LET v == buff[a][n + 1]
         IN  \E tail \in {<<>>, <<Hole>>} \cup
                 {<<[item |-> n + 1, val |-> x, end |-> FALSE]>> : x \in CutOff(v) \cup {v}} :
               LET lines == SubSeq(Lines(buff[a]), 1, n) \o tail
               IN  /\ file' = Overlay(lines)
                   /\ offset' = offset + Len(lines)
    /\ Fails(a)
    /\ spoilt' = TRUE
    /\ UNCHANGED <<phase, stat, change, exists, cmd, tmp, requests, served, last, overlap>>

\* fsync.  A thread goes on to its next request, or its connection ends.
Sync(a) ==
    /\ pc[a] = "sync"
    /\ \/ /\ pc' = [pc EXCEPT ![a] = IF a = "main" THEN "saved" ELSE "idle"]
          /\ buff' = [buff EXCEPT ![a] = Blank]
          /\ UNCHANGED uneven
       \/ Fails(a)
    /\ UNCHANGED <<memory, onDisk, cmd, tmp, requests, served, last, overlap, spoilt>>

Save(a) ==
    \/ PrintItem(a)
    \/ Truncate(a) \/ TruncateFails(a)
    \/ Seek(a) \/ SeekFails(a)
    \/ Write(a) \/ WriteShort(a)
    \/ Sync(a)

-----------------------------------------------------------------------------
ThreadStep(t) ==
    \/ \E k \in 0 .. Commands : Request(t, k)
    \/ LoadCounter(t) \/ StoreCounter(t)
    \/ Serve(t)
    \/ LoadChange(t) \/ StoreChange(t) \/ TestChange(t)

Next ==
    \/ OpenLoads \/ OpenCreates \/ OpenRefused
    \/ CloseBegins \/ MainSaved \/ MainFailed
    \/ Crash
    \/ \E a \in Actor : Save(a)
    \/ \E t \in Thread : ThreadStep(t)

Spec == Init /\ [][Next]_vars

-----------------------------------------------------------------------------
(* Properties                                                              *)

Places == {"idle", "total", "total=", "serve", "success", "success=", "change", "change=",
           "test", "print", "trunc", "seek", "write", "sync", "saved", "failed"}

\* Type invariant of the counters, the file and the threads.
StatTypeOK ==
    /\ phase \in {"down", "starting", "serving", "stopping"}
    /\ stat \in [Item -> Nat]
    /\ change \in Nat
    /\ exists \in BOOLEAN
    /\ file \in Seq([item : {0} \cup Item, val : Nat, end : BOOLEAN])
    /\ offset \in Nat
    /\ pc \in [Actor -> Places]
    /\ cmd \in [Thread -> 0 .. Commands]
    /\ tmp \in [Thread -> Nat]
    /\ buff \in [Actor -> [Item -> Nat \cup {-1}]]
    /\ requests \in 0 .. MaxRequests
    /\ served \in [Item -> Nat]
    /\ last \in [Item -> Nat]
    /\ <<overlap, spoilt, uneven>> \in BOOLEAN \X BOOLEAN \X BOOLEAN

\* Lost updates, crashes, restarts from an old or damaged file and several
\* copies of an item in it only ever lose requests: no counter, in memory, in
\* a thread's hands or in the file, is above the number of requests served.
NeverOvercounted ==
    /\ \A i \in Item : stat[i] <= served[i]
    /\ \A a \in Actor, i \in Item : buff[a][i] <= served[i]
    /\ \A t \in Thread : pc[t] \in {"total=", "success="} => tmp[t] < served[Counter(t)]
    /\ \A j \in DOMAIN file : file[j].item # 0 => file[j].val <= served[file[j].item]

\* However the writers' truncations, seeks and writes interleave, the file has
\* every item once all of them have written, unless a write failed or the
\* process ended in the middle of one.
WholeWhenQuiet ==
    exists /\ ~spoilt /\ (\A a \in Actor : pc[a] \notin {"seek", "write"})
        => \A i \in Item : \E j \in Readable : file[j].item = i

\* When no two writers were in the file at a time it is what the last one
\* printed, no more and no less.
LastWriteStands ==
    exists /\ ~spoilt /\ ~overlap /\ (\A a \in Actor : pc[a] \notin {"seek", "write"})
        => file = Lines(last)

\* A process that serves one request at a time, and whose writes succeed, has
\* fewer than STORAGE_SYNC_STAT_FILE_FREQ successful requests to lose.
LossIsBounded ==
    phase = "serving" /\ pc = Nobody /\ ~uneven /\ ~spoilt
        => \A i \in Succeeded : \A v \in ValuesOf(i) : stat[i] - v < Freq

-----------------------------------------------------------------------------
(* The inductive invariant of the theorems: the conjuncts are one group per *)
(* property.                                                               *)

\* The threads that owe counter i an increment: it is in served already.
Owes == {"total", "total=", "success", "success="}

Owing(i) == {t \in Thread : pc[t] \in Owes /\ Counter(t) = i}

\* There is a file once the process is up; main and the threads take turns.
WhoIsThere ==
    /\ phase # "down" => exists
    /\ phase = "down" => pc = Nobody
    /\ phase # "serving" => \A t \in Thread : pc[t] = "idle"
    /\ phase = "serving" => pc["main"] = "idle"

\* What the places tell of a thread's command and of what it has printed.
PlacesAreUsed ==
    /\ \A t \in Thread : pc[t] \in Owes => cmd[t] # 0
    /\ \A a \in Actor : pc[a] \in {"trunc", "seek", "write"} => \A i \in Item : buff[a][i] # -1

\* Where a value comes from, the increments still owed are missing in it.
OwedIsMissing ==
    \A i \in Item :
      /\ IsFiniteSet(Owing(i))
      /\ stat[i] + Cardinality(Owing(i)) <= served[i]
      /\ \A t \in Owing(i) :
            pc[t] \in {"total=", "success="} => tmp[t] + Cardinality(Owing(i)) <= served[i]

CopiesAreOld ==
    /\ \A a \in Actor, i \in Item : buff[a][i] <= served[i]
    /\ \A j \in DOMAIN file : file[j].item # 0 => file[j].val <= served[file[j].item]

Writers == {a \in Actor : pc[a] \in {"seek", "write"}}

\* The first lines of the file are all items, in order.
HeadIsWhole ==
    /\ Len(file) >= 2 * Commands
    /\ \A i \in Item : file[i].item = i /\ file[i].end

\* A truncation is followed by a seek, and that by a write at the start or,
\* when another writer was there first, behind what it wrote there.
HeadWillBeWhole ==
    exists /\ ~spoilt =>
      /\ \/ HeadIsWhole
         \/ \E a \in Actor : pc[a] = "seek"
         \/ offset = 0 /\ \E a \in Actor : pc[a] = "write"
      /\ (\E a \in Actor : pc[a] = "write") => offset = 0 \/ offset >= 2 * Commands

\* One writer at a time finds the file empty and leaves what it has printed.
LastWriter ==
    exists /\ ~overlap =>
      /\ \A a, b \in Writers : a = b
      /\ \A a \in Writers :
            /\ ~spoilt
            /\ file = <<>>
            /\ last = buff[a]
            /\ pc[a] = "write" => offset = 0
      /\ Writers = {} /\ ~spoilt => file = Lines(last)

StatInv ==
    /\ StatTypeOK
    /\ WhoIsThere
    /\ PlacesAreUsed
    /\ OwedIsMissing
    /\ CopiesAreOld
    /\ HeadWillBeWhole
    /\ LastWriter

\* Between two saves nothing is printed.
BlankBetween ==
    \A a \in Actor : pc[a] \notin {"print", "trunc", "seek", "write", "sync"} => buff[a] = Blank

\* While one request at a time is served: what a saver has printed is what the
\* counters still are, and it finds nobody else in the file.
Copying(a) ==
    /\ pc[a] = "print" => \A i \in Item : buff[a][i] \in {-1, stat[i]}
    /\ pc[a] = "trunc" => buff[a] = stat
    /\ pc[a] \in {"seek", "write", "sync", "saved"} => last = stat /\ ~overlap

\* The counters of successes are at most n ahead of what was saved last.
Ahead(n) == \A i \in Succeeded : stat[i] - last[i] <= n

\* Every success is also a change, and every Freq changes there is a save.
AheadByChanges(t) ==
    /\ pc[t] \notin {"change", "change=", "test", "print", "trunc"} => Ahead(change % Freq)
    /\ pc[t] \in {"change", "change="} => Ahead((change % Freq) + 1)
    /\ pc[t] = "test" => change > 0 /\ Ahead(((change - 1) % Freq) + 1)
    /\ pc[t] = "success=" => tmp[t] = stat[Success(cmd[t])]
    /\ pc[t] \in {"change=", "test"} => tmp[t] = change

LossInv ==
    /\ BlankBetween
    /\ phase = "starting" => Copying("main")
    /\ phase = "serving" /\ ~uneven =>
         /\ ~overlap
         /\ \A t, u \in Busy : t = u
         /\ \A t \in Busy : Copying(t) /\ AheadByChanges(t)
         /\ Busy = {} => Ahead(change % Freq)
=============================================================================
