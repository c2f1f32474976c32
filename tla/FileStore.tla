----------------------------- MODULE FileStore -----------------------------
(***************************************************************************)
(* The data directory as the connection threads use it: fileExists,        *)
(* getFileContent and writeToFile of shared_func.c, and unlink.            *)
(*                                                                         *)
(* Nothing locks a file.  writeToFile truncates when it opens and writes   *)
(* later; getFileContent opens, measures and reads.  Between these steps   *)
(* other threads can open, write or unlink the same name, so a name and    *)
(* the file it stands for (the inode) are kept apart: an open file outlives *)
(* its name.                                                               *)
(***************************************************************************)
EXTENDS StorageBase, Naturals, FiniteSets

CONSTANTS
    Content,    \* what a client can send as the content of a file
    Inode       \* files the file system can hold at a time

ASSUME FileStoreAssumption ==
    /\ Content \cap {"empty", "damaged"} = {}
    /\ IsFiniteSet(Inode) /\ IsFiniteSet(Path) /\ IsFiniteSet(Thread)
    /\ Cardinality(Inode) >= Cardinality(Path) + Cardinality(Thread)
    /\ Inode \subseteq Nat \ {0}

VARIABLES
    dir,    \* the file a name stands for, NoInode when there is no such name
    data,   \* the content of each file
    fd,     \* the FILE a thread has open in writeToFile or getFileContent
    got,    \* what the thread's last getFileContent returned
    hurt    \* history: files whose content a fault, a crash or two
            \* overlapping writers may have spoilt

fileVars == <<dir, data, fd, got, hurt>>

-----------------------------------------------------------------------------
NoInode    == 0
Incomplete == {"empty", "damaged"}

\* clean is history: no other thread wrote the file while this one read it.
Closed   == [mode |-> "closed", ino |-> NoInode, clean |-> TRUE]
NothingGot == [val |-> "none", clean |-> TRUE]

Exists(p) == dir[p] # NoInode

\* The files a name or an open FILE refers to.
Live(d, f) == ({d[p] : p \in Path} \cup {f[t].ino : t \in Thread}) \ {NoInode}

Writers(i) == {t \in Thread : fd[t].mode = "write" /\ fd[t].ino = i}

\* The names, open FILEs, contents and spoilt files after a step.  A file that
\* nothing refers to any more is gone.
Settle(d, f, contents, spoilt) ==
    /\ dir' = d
    /\ fd' = f
    /\ data' = [i \in Inode |-> IF i \in Live(d, f) THEN contents[i] ELSE "empty"]
    /\ hurt' = spoilt \cap Live(d, f)

\* Thread t now has file i open in mode m; a write spoils i's other readers.
Opened(t, m, i, ok) ==
    [u \in Thread |->
        IF u = t THEN [mode |-> m, ino |-> i, clean |-> ok]
        ELSE [fd[u] EXCEPT !.clean = @ /\ ~(m = "write" /\ fd[u].ino = i)]]

\* Thread t closes file i after changing it.
WroteAndClosed(t, i) ==
    [u \in Thread |->
        IF u = t THEN Closed
        ELSE [fd[u] EXCEPT !.clean = @ /\ fd[u].ino # i]]

FileInit(names) ==
    LET place == CHOOSE f \in [names -> Inode] :
                     \A p, q \in names : f[p] = f[q] => p = q
        c     == CHOOSE x \in Content : TRUE
    IN  /\ dir = [p \in Path |-> IF p \in names THEN place[p] ELSE NoInode]
        /\ data = [i \in Inode |-> IF \E p \in names : place[p] = i THEN c ELSE "empty"]
        /\ fd = [t \in Thread |-> Closed]
        /\ got = [t \in Thread |-> NothingGot]
        /\ hurt = {}

-----------------------------------------------------------------------------
(* writeToFile                                                             *)

\* fopen(filename, "wb"): creates the file or truncates it.
OpenWrite(t, p) ==
    /\ fd[t].mode = "closed"
    /\ LET new == CHOOSE i \in Inode : i \notin Live(dir, fd)
           i   == IF Exists(p) THEN dir[p] ELSE new
       IN  Settle([dir EXCEPT ![p] = i],
                  Opened(t, "write", i, TRUE),
                  [data EXCEPT ![i] = "empty"],
                  IF Writers(i) = {} THEN hurt \ {i} ELSE hurt \cup {i})
    /\ UNCHANGED got

\* Mutant of Write: the file is closed without its content.
WriteNothing(t, c) ==
    /\ fd[t].mode = "write"
    /\ Settle(dir, WroteAndClosed(t, fd[t].ino), data, hurt)
    /\ UNCHANGED got

\* The content goes out at offset 0.  A writer that opened the same file in
\* the meantime may have put a longer content there: a mixture remains.
Write(t, c) ==
    /\ fd[t].mode = "write"
    /\ LET i == fd[t].ino
       IN  \E v \in IF data[i] = "empty" THEN {c} ELSE {c, "damaged"} :
             Settle(dir, WroteAndClosed(t, i), [data EXCEPT ![i] = v], hurt)
    /\ UNCHANGED got

\* The disk is full: nothing or a part of the content goes out.
WriteShort(t) ==
    /\ fd[t].mode = "write"
    /\ LET i == fd[t].ino
       IN  \E v \in {data[i], "damaged"} :
             Settle(dir, WroteAndClosed(t, i), [data EXCEPT ![i] = v], hurt \cup {i})
    /\ UNCHANGED got

-----------------------------------------------------------------------------
(* unlink and getFileContent                                               *)

\* Mutant of Unlink: the file is emptied before its name is removed.
UnlinkTruncating(p) ==
    /\ Exists(p)
    /\ Settle([dir EXCEPT ![p] = NoInode], fd, [data EXCEPT ![dir[p]] = "empty"], hurt)
    /\ UNCHANGED got

Unlink(p) ==
    /\ Exists(p)
    /\ Settle([dir EXCEPT ![p] = NoInode], fd, data, hurt)
    /\ UNCHANGED got

\* fopen(filename, "rb").
OpenRead(t, p) ==
    /\ fd[t].mode = "closed"
    /\ Exists(p)
    /\ fd' = Opened(t, "read", dir[p], Writers(dir[p]) = {} /\ dir[p] \notin hurt)
    /\ UNCHANGED <<dir, data, got, hurt>>

\* ftell, malloc and fread.  Bytes written meanwhile may be mixed with old ones.
Read(t) ==
    /\ fd[t].mode = "read"
    /\ Settle(dir, [fd EXCEPT ![t] = Closed], data, hurt)
    /\ \E v \in IF fd[t].clean THEN {data[fd[t].ino]} ELSE {data[fd[t].ino], "damaged"} :
         got' = [got EXCEPT ![t] = [val |-> v, clean |-> fd[t].clean]]

\* malloc fails, or the file shrank between ftell and fread.
ReadFails(t) ==
    /\ fd[t].mode = "read"
    /\ Settle(dir, [fd EXCEPT ![t] = Closed], data, hurt)
    /\ UNCHANGED got

\* The caller frees the buffer getFileContent gave it.
Forget(t) ==
    /\ got' = [got EXCEPT ![t] = NothingGot]
    /\ UNCHANGED <<dir, data, fd, hurt>>

\* The process ends: its files are closed, what it was writing is spoilt.
FilesAfterCrash ==
    /\ Settle(dir, [t \in Thread |-> Closed], data,
              hurt \cup {fd[t].ino : t \in {u \in Thread : fd[u].mode = "write"}})
    /\ got' = [t \in Thread |-> NothingGot]

-----------------------------------------------------------------------------
(* The operations alone, for any threads in any order; a thread frees what *)
(* it has read before it opens its next file.                              *)

FileNext ==
    \/ FilesAfterCrash
    \/ \E p \in Path : Unlink(p)
    \/ \E t \in Thread :
         \/ /\ got[t] = NothingGot
            /\ \E p \in Path : OpenWrite(t, p) \/ OpenRead(t, p)
         \/ \E c \in Content : Write(t, c)
         \/ WriteShort(t)
         \/ Read(t)
         \/ ReadFails(t)
         \/ Forget(t)

FileSpec == FileInit({}) /\ [][FileNext]_fileVars

-----------------------------------------------------------------------------
(* Properties                                                              *)

FileTypeOK ==
    /\ dir \in [Path -> Inode \cup {NoInode}]
    /\ data \in [Inode -> Content \cup Incomplete]
    /\ fd \in [Thread -> [mode : {"closed", "write", "read"},
                          ino : Inode \cup {NoInode}, clean : BOOLEAN]]
    /\ got \in [Thread -> [val : Content \cup Incomplete \cup {"none"}, clean : BOOLEAN]]
    /\ hurt \subseteq Inode

\* A file with a name and without its whole content is being written by a
\* thread at this moment, or a fault, a crash or overlapping writers spoilt it.
IncompleteOnlyWhileWritten ==
    \A p \in Path :
        Exists(p) /\ data[dir[p]] \in Incomplete =>
            Writers(dir[p]) # {} \/ dir[p] \in hurt

\* What getFileContent returns is one whole content that a client sent, unless
\* somebody wrote the file while it was open for reading: unlinking the name,
\* or creating the name anew, does not disturb the reader.
ReadsAreWhole ==
    \A t \in Thread : got[t].clean => got[t].val \notin Incomplete

\* The inductive invariant behind them, said of any names d, open FILEs f,
\* contents c and spoilt files h, so that it can be said of what a step is
\* about to leave.  A writer of a file that is not spoilt is the only one, and
\* the file is as its fopen left it; what a reader without a writer has open is
\* whole.
Sound(d, f, c, h) ==
    /\ d \in [Path -> Inode \cup {NoInode}]
    /\ c \in [Inode -> Content \cup Incomplete]
    /\ f \in [Thread -> [mode : {"closed", "write", "read"},
                         ino : Inode \cup {NoInode}, clean : BOOLEAN]]
    /\ h \subseteq Inode
    /\ \A t \in Thread : f[t].mode = "closed" <=> f[t].ino = NoInode
    /\ \A p \in Path : d[p] # NoInode /\ c[d[p]] \in Incomplete =>
         d[p] \in h \/ \E t \in Thread : f[t].mode = "write" /\ f[t].ino = d[p]
    /\ \A t \in Thread : f[t].mode = "write" /\ f[t].ino \notin h =>
         /\ c[f[t].ino] = "empty"
         /\ \A u \in Thread \ {t} : ~(f[u].mode = "write" /\ f[u].ino = f[t].ino)
    /\ \A t \in Thread : f[t].mode = "read" /\ f[t].clean => c[f[t].ino] \in Content

FileInv ==
    /\ Sound(dir, fd, data, hurt)
    /\ got \in [Thread -> [val : Content \cup Incomplete \cup {"none"}, clean : BOOLEAN]]
    /\ ReadsAreWhole
=============================================================================
