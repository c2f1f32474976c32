--------------------------- MODULE FileStoreProofs ---------------------------
(***************************************************************************)
(* What the unlocked file operations keep, for any number of threads,      *)
(* names and files.  Each operation has a lemma of its own, so that the    *)
(* modules composed with FileStore can cite them.                          *)
(***************************************************************************)
EXTENDS FileStore, FunctionTheorems, FiniteSetTheorems, TLAPS

-----------------------------------------------------------------------------
(* The state a step leaves.                                                *)

\* An open FILE, as the type invariant has it.
OpenFile == [mode : {"closed", "write", "read"}, ino : Inode \cup {NoInode}, clean : BOOLEAN]

\* No file is numbered 0.
LEMMA NoInodeIsNone == NoInode \notin Inode
BY FileStoreAssumption DEF NoInode

\* Dropping the files nobody refers to disturbs nothing that is said of names
\* and open FILEs.
LEMMA SettleSound ==
    ASSUME NEW d, NEW f, NEW c, NEW h, Sound(d, f, c, h), Settle(d, f, c, h)
    PROVE  Sound(dir', fd', data', hurt')
<1> USE DEF Settle
<1>1. /\ \A p \in Path : d[p] # NoInode => d[p] \in Live(d, f)
      /\ \A t \in Thread : f[t].ino # NoInode => f[t].ino \in Live(d, f)
  BY DEF Live
<1>2. /\ dir' = d /\ fd' = f
      /\ \A i \in Inode : i \in Live(d, f) => data'[i] = c[i]
      /\ \A i \in Inode : i \in Live(d, f) /\ i \in h => i \in hurt'
      /\ hurt' \subseteq h
      /\ data' \in [Inode -> Content \cup Incomplete]
  BY DEF Sound, Incomplete
<1>3. /\ dir' \in [Path -> Inode \cup {NoInode}]
      /\ fd' \in [Thread -> OpenFile]
      /\ hurt' \subseteq Inode
      /\ \A t \in Thread : fd'[t].mode = "closed" <=> fd'[t].ino = NoInode
  BY <1>2 DEF Sound, OpenFile
<1>4. ASSUME NEW t \in Thread PROVE fd'[t].ino \in Inode \cup {NoInode}
  BY <1>3 DEF OpenFile
<1>5. ASSUME NEW p \in Path, dir'[p] # NoInode, data'[dir'[p]] \in Incomplete
      PROVE  dir'[p] \in hurt' \/ \E t \in Thread : fd'[t].mode = "write" /\ fd'[t].ino = dir'[p]
  BY <1>1, <1>2, <1>3, <1>5 DEF Sound
<1>6. ASSUME NEW t \in Thread, fd'[t].mode = "write", fd'[t].ino \notin hurt'
      PROVE  /\ data'[fd'[t].ino] = "empty"
             /\ \A u \in Thread \ {t} : ~(fd'[u].mode = "write" /\ fd'[u].ino = fd'[t].ino)
  <2>1. fd'[t].ino \in Inode /\ fd'[t].ino \in Live(d, f) /\ fd'[t].ino \notin h
    BY <1>1, <1>2, <1>3, <1>4, <1>6
  <2> QED
    BY <1>2, <1>6, <2>1 DEF Sound
<1>7. ASSUME NEW t \in Thread, fd'[t].mode = "read", fd'[t].clean
      PROVE  data'[fd'[t].ino] \in Content
  <2>1. fd'[t].ino \in Inode /\ fd'[t].ino \in Live(d, f)
    BY <1>1, <1>2, <1>3, <1>4, <1>7
  <2> QED
    BY <1>2, <1>7, <2>1 DEF Sound
<1> QED
  BY <1>2, <1>3, <1>5, <1>6, <1>7 DEF Sound, OpenFile

\* One open FILE is f[t]; those of the other threads are as they were, except
\* that a reader of a written file is no longer clean.
OthersKept(f, t) ==
    \A u \in Thread \ {t} :
        f[u].mode = fd[u].mode /\ f[u].ino = fd[u].ino /\ (f[u].clean => fd[u].clean)

ReadersTold(f, t, i) == \A u \in Thread \ {t} : f[u].clean => fd[u].ino # i

\* What fopen for writing, and an fclose after it, do to the open FILEs.
LEMMA WriterFacts ==
    ASSUME FileInv, NEW t \in Thread, NEW i \in Inode, NEW f,
           f = Opened(t, "write", i, TRUE) \/ f = WroteAndClosed(t, i)
    PROVE  f \in [Thread -> OpenFile] /\ OthersKept(f, t) /\ ReadersTold(f, t, i)
<1>1. fd \in [Thread -> OpenFile]
  BY DEF FileInv, Sound, OpenFile
<1>2. f[t] \in OpenFile
  <2>1. CASE f = Opened(t, "write", i, TRUE)
    BY <2>1 DEF Opened, OpenFile
  <2>2. CASE f = WroteAndClosed(t, i)
    BY <2>2 DEF WroteAndClosed, OpenFile, Closed
  <2> QED
    BY <2>1, <2>2
<1>3. ASSUME NEW u \in Thread \ {t}
      PROVE  /\ f[u] \in OpenFile
             /\ f[u].mode = fd[u].mode /\ f[u].ino = fd[u].ino
             /\ f[u].clean => fd[u].clean /\ fd[u].ino # i
  <2>1. fd[u] \in OpenFile
    BY <1>1
  <2>2. f[u] = [fd[u] EXCEPT !.clean = (fd[u].clean /\ fd[u].ino # i)]
    BY DEF Opened, WroteAndClosed
  <2>3. (fd[u].clean /\ fd[u].ino # i) \in BOOLEAN
    OBVIOUS
  <2>4. f[u].clean = (fd[u].clean /\ fd[u].ino # i)
        /\ f[u].mode = fd[u].mode /\ f[u].ino = fd[u].ino
    BY <2>1, <2>2 DEF OpenFile
  <2>5. f[u] \in OpenFile
    BY <2>1, <2>2, <2>3 DEF OpenFile
  <2> QED
    BY <2>4, <2>5
<1>4. f \in [Thread -> OpenFile]
  BY <1>2, <1>3, Zenon DEF Opened, WroteAndClosed
<1> QED
  BY <1>3, <1>4 DEF OthersKept, ReadersTold

\* What fopen for reading and the fclose after it do.
LEMMA ReaderFacts ==
    ASSUME FileInv, NEW t \in Thread, NEW i \in Inode, NEW ok \in BOOLEAN, NEW f,
           f = Opened(t, "read", i, ok) \/ f = [fd EXCEPT ![t] = Closed]
    PROVE  f \in [Thread -> OpenFile] /\ OthersKept(f, t)
<1>1. fd \in [Thread -> OpenFile]
  BY DEF FileInv, Sound, OpenFile
<1>2. CASE f = [fd EXCEPT ![t] = Closed]
  BY <1>1, <1>2 DEF OthersKept, OpenFile, Closed
<1>3. CASE f = Opened(t, "read", i, ok)
  <2>1. f[t] \in OpenFile
    BY <1>3 DEF Opened, OpenFile
  <2>2. ASSUME NEW u \in Thread \ {t}
        PROVE  f[u] \in OpenFile /\ f[u].mode = fd[u].mode /\ f[u].ino = fd[u].ino
               /\ (f[u].clean => fd[u].clean)
    <3>1. fd[u] \in OpenFile
      BY <1>1
    <3>2. f[u] = [fd[u] EXCEPT !.clean = (fd[u].clean /\ ~("read" = "write" /\ fd[u].ino = i))]
      BY <1>3 DEF Opened
    <3>3. (fd[u].clean /\ ~("read" = "write" /\ fd[u].ino = i)) \in BOOLEAN
      OBVIOUS
    <3>4. /\ f[u].clean = (fd[u].clean /\ ~("read" = "write" /\ fd[u].ino = i))
          /\ f[u].mode = fd[u].mode /\ f[u].ino = fd[u].ino
      BY <3>1, <3>2 DEF OpenFile
    <3>5. f[u] \in OpenFile
      BY <3>1, <3>2, <3>3 DEF OpenFile
    <3> QED
      BY <3>4, <3>5
  <2>3. f \in [Thread -> OpenFile]
    BY <1>3, <2>1, <2>2, Zenon DEF Opened
  <2> QED
    BY <2>2, <2>3 DEF OthersKept
<1> QED
  BY <1>2, <1>3

\* A set named by the elements of a finite set is finite, and no larger.
LEMMA ImageIsFinite ==
    ASSUME NEW S, IsFiniteSet(S), NEW f
    PROVE  LET T == {f[x] : x \in S}
           IN  IsFiniteSet(T) /\ Cardinality(T) \in Nat /\ Cardinality(T) <= Cardinality(S)
<1> DEFINE T == {f[x] : x \in S}
           g == [x \in S |-> f[x]]
<1>1. g \in Surjection(S, T)
  BY DEF Surjection
<1> QED
  BY <1>1, FS_Surjection, FS_CardinalityType

\* The file system has room for one more file while a thread has none open.
LEMMA RoomForOne ==
    ASSUME FileInv, NEW t \in Thread, fd[t].mode = "closed"
    PROVE  \E i \in Inode : i \notin Live(dir, fd)
<1> DEFINE names  == {dir[p] : p \in Path}
           numbers == [u \in Thread |-> fd[u].ino]
           others == {numbers[u] : u \in Thread \ {t}}
<1>1. IsFiniteSet(names) /\ Cardinality(names) \in Nat /\ Cardinality(names) <= Cardinality(Path)
  BY FileStoreAssumption, ImageIsFinite
<1>2. /\ IsFiniteSet(Thread \ {t})
      /\ Cardinality(Thread \ {t}) = Cardinality(Thread) - 1
  BY FileStoreAssumption, FS_RemoveElement
<1>5. Live(dir, fd) \subseteq names \cup others
  BY DEF Live, FileInv, Sound
<1> HIDE DEF numbers
<1>3. /\ IsFiniteSet(others) /\ Cardinality(others) \in Nat
      /\ Cardinality(others) <= Cardinality(Thread) - 1
  BY <1>2, ImageIsFinite
<1>4. IsFiniteSet(names \cup others) /\ Cardinality(names \cup others) \in Nat
      /\ Cardinality(names \cup others) <= Cardinality(names) + Cardinality(others)
  <2>1. IsFiniteSet(names \cap others) /\ Cardinality(names \cap others) \in Nat
    BY <1>1, FS_Subset, FS_CardinalityType
  <2>2. IsFiniteSet(names \cup others) /\ Cardinality(names \cup others) \in Nat
        /\ Cardinality(names \cup others)
              = Cardinality(names) + Cardinality(others) - Cardinality(names \cap others)
    BY <1>1, <1>3, FS_Union, FS_CardinalityType
  <2> QED
    BY <1>1, <1>3, <2>1, <2>2
<1>6. /\ Cardinality(Path) \in Nat /\ Cardinality(Thread) \in Nat /\ Cardinality(Inode) \in Nat
      /\ Cardinality(Inode) >= Cardinality(Path) + Cardinality(Thread)
  BY FileStoreAssumption, FS_CardinalityType
<1>7. Cardinality(names \cup others) < Cardinality(Inode)
  BY <1>1, <1>3, <1>4, <1>6
<1>8. ~(Inode \subseteq names \cup others)
  <2> SUFFICES ASSUME Inode \subseteq names \cup others PROVE FALSE
    OBVIOUS
  <2>1. Cardinality(Inode) <= Cardinality(names \cup others)
    BY <1>4, FS_Subset
  <2> QED
    BY <1>4, <1>6, <1>7, <2>1
<1> QED
  BY <1>5, <1>8

-----------------------------------------------------------------------------
(* Each operation keeps the invariant.                                     *)

\* What FileInv says of got, when got does not change.
LEMMA GotStays == FileInv /\ UNCHANGED got /\ Sound(dir', fd', data', hurt') => FileInv'
BY DEF FileInv, ReadsAreWhole

\* fopen for writing: the truncated file has one more writer, and is spoilt if
\* it had one before.
LEMMA OpenWriteInv ==
    ASSUME FileInv, NEW t \in Thread, NEW p \in Path, OpenWrite(t, p)
    PROVE  FileInv'
<1> DEFINE new == CHOOSE i \in Inode : i \notin Live(dir, fd)
           i == IF Exists(p) THEN dir[p] ELSE new
           d == [dir EXCEPT ![p] = i]
           f == Opened(t, "write", i, TRUE)
           c == [data EXCEPT ![i] = "empty"]
           h == IF Writers(i) = {} THEN hurt \ {i} ELSE hurt \cup {i}
<1>1. fd[t].mode = "closed" /\ Settle(d, f, c, h) /\ UNCHANGED got
  BY DEF OpenWrite
<1>2. new \in Inode /\ new \notin Live(dir, fd)
  BY <1>1, RoomForOne
<1>3. i \in Inode
  BY <1>2 DEF Exists, FileInv, Sound
<1> HIDE DEF new
<1>4. ~Exists(p) => /\ \A q \in Path : dir[q] # i
                    /\ \A u \in Thread : fd[u].ino # i
  BY <1>2, NoInodeIsNone DEF Live, Exists
<1>5. Exists(p) => i = dir[p]
  OBVIOUS
<1> HIDE DEF i
<1>6. f \in [Thread -> OpenFile] /\ OthersKept(f, t) /\ ReadersTold(f, t, i)
  BY <1>3, WriterFacts
<1>6a. f[t].mode = "write" /\ f[t].ino = i
  BY DEF Opened
<1> HIDE DEF f
<1> USE DEF OthersKept, ReadersTold
<1>7. /\ d \in [Path -> Inode \cup {NoInode}]
      /\ c \in [Inode -> Content \cup Incomplete]
      /\ h \subseteq Inode
  BY <1>3 DEF FileInv, Sound, Incomplete
<1>8. ASSUME NEW u \in Thread
      PROVE  f[u].mode = "closed" <=> f[u].ino = NoInode
  <2>1. CASE u = t
    BY <1>3, <1>6, <1>6a, <2>1, NoInodeIsNone
  <2>2. CASE u # t
    BY <1>6, <1>6a, <2>2 DEF FileInv, Sound
  <2> QED
    BY <2>1, <2>2
<1>9. ASSUME NEW q \in Path, d[q] # NoInode, c[d[q]] \in Incomplete
      PROVE  d[q] \in h \/ \E u \in Thread : f[u].mode = "write" /\ f[u].ino = d[q]
  <2>1. CASE d[q] = i
    BY <1>6, <1>6a, <2>1
  <2>2. CASE d[q] # i
    <3>1. d[q] = dir[q] /\ d[q] \in Inode /\ c[d[q]] = data[dir[q]]
      BY <1>7, <1>9, <2>2 DEF FileInv, Sound
    <3>2. dir[q] \in hurt \/ \E u \in Thread : fd[u].mode = "write" /\ fd[u].ino = dir[q]
      BY <1>9, <3>1 DEF FileInv, Sound
    <3> QED
      BY <1>1, <1>6, <1>6a, <2>2, <3>1, <3>2
  <2> QED
    BY <2>1, <2>2
<1>10. ASSUME NEW u \in Thread, f[u].mode = "write", f[u].ino \notin h
       PROVE  /\ c[f[u].ino] = "empty"
              /\ \A v \in Thread \ {u} : ~(f[v].mode = "write" /\ f[v].ino = f[u].ino)
  <2>1. CASE f[u].ino = i
    <3>1. Writers(i) = {}
      BY <1>10, <2>1
    <3>2. \A v \in Thread \ {t} : ~(f[v].mode = "write" /\ f[v].ino = i)
      BY <1>6, <1>6a, <3>1 DEF Writers
    <3>3. u = t
      BY <1>10, <2>1, <3>2
    <3> QED
      BY <1>3, <2>1, <3>2, <3>3 DEF FileInv, Sound
  <2>2. CASE f[u].ino # i
    <3>1. u # t /\ fd[u].mode = "write" /\ fd[u].ino = f[u].ino /\ fd[u].ino \notin hurt
      BY <1>6, <1>6a, <1>10, <2>2
    <3>2. /\ data[fd[u].ino] = "empty"
          /\ \A v \in Thread \ {u} : ~(fd[v].mode = "write" /\ fd[v].ino = fd[u].ino)
      BY <3>1 DEF FileInv, Sound
    <3>3. c[f[u].ino] = data[f[u].ino]
      BY <2>2 DEF FileInv, Sound
    <3> QED
      BY <1>6, <1>6a, <2>2, <3>1, <3>2, <3>3
  <2> QED
    BY <2>1, <2>2
<1>11. ASSUME NEW u \in Thread, f[u].mode = "read", f[u].clean
       PROVE  c[f[u].ino] \in Content
  <2>1. u # t /\ fd[u].mode = "read" /\ fd[u].clean /\ f[u].ino = fd[u].ino /\ fd[u].ino # i
    BY <1>6, <1>6a, <1>11
  <2>2. data[fd[u].ino] \in Content
    BY <2>1 DEF FileInv, Sound
  <2> QED
    BY <2>1, <2>2 DEF FileInv, Sound
<1>12. Sound(d, f, c, h)
  BY <1>6, <1>6a, <1>7, <1>8, <1>9, <1>10, <1>11 DEF Sound, OpenFile
<1> HIDE DEF d, c, h
<1> QED
  BY <1>1, <1>12, SettleSound, GotStays

\* A file is closed by its writer t, with content v, and spoilt by a failure.
\* What anybody else has open of it is told.
LEMMA WriteCloseInv ==
    ASSUME FileInv, NEW t \in Thread, fd[t].mode = "write",
           NEW v \in Content \cup Incomplete, NEW h, h \subseteq Inode, hurt \subseteq h,
           v \in Incomplete => fd[t].ino \in h,
           Settle(dir, WroteAndClosed(t, fd[t].ino), [data EXCEPT ![fd[t].ino] = v], h),
           UNCHANGED got
    PROVE  FileInv'
<1> DEFINE i == fd[t].ino
           f == WroteAndClosed(t, i)
           c == [data EXCEPT ![i] = v]
<1>1. i \in Inode
  BY DEF FileInv, Sound
<1>2. f \in [Thread -> OpenFile] /\ OthersKept(f, t) /\ ReadersTold(f, t, i)
  BY <1>1, WriterFacts
<1>3. f[t].mode = "closed" /\ f[t].ino = NoInode
  BY DEF WroteAndClosed, Closed
<1>4. Settle(dir, f, c, h)
  OBVIOUS
<1> HIDE DEF f
<1> USE DEF OthersKept, ReadersTold
<1>5. dir \in [Path -> Inode \cup {NoInode}] /\ c \in [Inode -> Content \cup Incomplete]
  BY DEF FileInv, Sound
<1>6. c[i] = v /\ \A j \in Inode \ {i} : c[j] = data[j]
  BY <1>1 DEF FileInv, Sound
<1> HIDE DEF c
<1>7. ASSUME NEW u \in Thread
      PROVE  f[u].mode = "closed" <=> f[u].ino = NoInode
  <2>1. CASE u = t
    BY <1>3, <2>1
  <2>2. CASE u # t
    BY <1>2, <2>2 DEF FileInv, Sound
  <2> QED
    BY <2>1, <2>2
<1>8. ASSUME NEW q \in Path, dir[q] # NoInode, c[dir[q]] \in Incomplete
      PROVE  dir[q] \in h \/ \E u \in Thread : f[u].mode = "write" /\ f[u].ino = dir[q]
  <2>1. CASE dir[q] = i
    BY <1>6, <1>8, <2>1
  <2>2. CASE dir[q] # i
    <3>1. dir[q] \in Inode /\ c[dir[q]] = data[dir[q]]
      BY <1>5, <1>6, <1>8, <2>2
    <3>2. dir[q] \in hurt \/ \E u \in Thread : fd[u].mode = "write" /\ fd[u].ino = dir[q]
      BY <1>8, <3>1 DEF FileInv, Sound
    <3> QED
      BY <1>2, <2>2, <3>1, <3>2
  <2> QED
    BY <2>1, <2>2
<1>9. ASSUME NEW u \in Thread, f[u].mode = "write", f[u].ino \notin h
      PROVE  /\ c[f[u].ino] = "empty"
             /\ \A w \in Thread \ {u} : ~(f[w].mode = "write" /\ f[w].ino = f[u].ino)
  <2>1. u # t /\ fd[u].mode = "write" /\ fd[u].ino = f[u].ino /\ fd[u].ino \notin hurt
    BY <1>2, <1>3, <1>9
  <2>2. /\ data[fd[u].ino] = "empty"
        /\ \A w \in Thread \ {u} : ~(fd[w].mode = "write" /\ fd[w].ino = fd[u].ino)
    BY <2>1 DEF FileInv, Sound
  <2>3. f[u].ino \in Inode \ {i}
    BY <2>1, <2>2 DEF FileInv, Sound
  <2>4. c[f[u].ino] = "empty"
    BY <1>6, <2>1, <2>2, <2>3
  <2> QED
    BY <1>2, <1>3, <2>1, <2>2, <2>4
<1>10. ASSUME NEW u \in Thread, f[u].mode = "read", f[u].clean
       PROVE  c[f[u].ino] \in Content
  <2>1. u # t /\ fd[u].mode = "read" /\ fd[u].clean /\ f[u].ino = fd[u].ino /\ fd[u].ino # i
    BY <1>2, <1>3, <1>10
  <2>2. data[fd[u].ino] \in Content /\ fd[u].ino \in Inode
    BY <2>1 DEF FileInv, Sound
  <2> QED
    BY <1>6, <2>1, <2>2
<1>11. Sound(dir, f, c, h)
  BY <1>2, <1>5, <1>7, <1>8, <1>9, <1>10 DEF Sound, OpenFile
<1> QED
  BY <1>4, <1>11, SettleSound, GotStays

\* fwrite and fclose that succeed: the writer of a file that is not spoilt is
\* alone, so that no longer content can be left behind its own.
LEMMA WriteInv ==
    ASSUME FileInv, NEW t \in Thread, NEW b \in Content, Write(t, b)
    PROVE  FileInv'
<1> DEFINE i == fd[t].ino
<1>1. PICK v \in IF data[i] = "empty" THEN {b} ELSE {b, "damaged"} :
          Settle(dir, WroteAndClosed(t, i), [data EXCEPT ![i] = v], hurt)
  BY Zenon DEF Write
<1>2. v \in Content \cup Incomplete /\ (v \in Incomplete => data[i] # "empty")
  BY <1>1, FileStoreAssumption DEF Incomplete
<1>3. fd[t].mode = "write" /\ UNCHANGED got
  BY DEF Write
<1>4. v \in Incomplete => i \in hurt
  BY <1>2, <1>3 DEF FileInv, Sound
<1>5. hurt \subseteq Inode /\ hurt \subseteq hurt
  BY DEF FileInv, Sound
<1> QED
  BY <1>1, <1>2, <1>3, <1>4, <1>5, WriteCloseInv

\* Those that fail spoil the file.
LEMMA WriteShortInv ==
    ASSUME FileInv, NEW t \in Thread, WriteShort(t)
    PROVE  FileInv'
<1> DEFINE i == fd[t].ino
<1>1. PICK v \in {data[i], "damaged"} :
          Settle(dir, WroteAndClosed(t, i), [data EXCEPT ![i] = v], hurt \cup {i})
  BY Zenon DEF WriteShort
<1>2. fd[t].mode = "write" /\ UNCHANGED got
  BY DEF WriteShort
<1>3. i \in Inode
  BY <1>2 DEF FileInv, Sound
<1>4. v \in Content \cup Incomplete
  BY <1>1, <1>3 DEF FileInv, Sound, Incomplete
<1>5. hurt \cup {i} \subseteq Inode /\ hurt \subseteq hurt \cup {i} /\ i \in hurt \cup {i}
  BY <1>3 DEF FileInv, Sound
<1> QED
  BY <1>1, <1>2, <1>4, <1>5, WriteCloseInv

\* unlink takes a name away and leaves the file to those who have it open.
LEMMA UnlinkInv ==
    ASSUME FileInv, NEW p \in Path, Unlink(p)
    PROVE  FileInv'
<1> DEFINE d == [dir EXCEPT ![p] = NoInode]
<1>1. d \in [Path -> Inode \cup {NoInode}]
      /\ \A q \in Path : d[q] # NoInode => d[q] = dir[q]
  BY DEF FileInv, Sound
<1>2. Settle(d, fd, data, hurt) /\ UNCHANGED got
  BY DEF Unlink
<1> HIDE DEF d
<1>3. Sound(d, fd, data, hurt)
  BY <1>1 DEF FileInv, Sound
<1> QED
  BY <1>2, <1>3, SettleSound, GotStays

\* What fopen finds under a name is whole when nobody writes it and nothing
\* has spoilt it.
LEMMA OpenReadInv ==
    ASSUME FileInv, NEW t \in Thread, NEW p \in Path, OpenRead(t, p)
    PROVE  FileInv'
<1> DEFINE i == dir[p]
           ok == Writers(i) = {} /\ i \notin hurt
           f == Opened(t, "read", i, ok)
<1>1. fd' = f /\ UNCHANGED <<dir, data, got, hurt>>
  BY DEF OpenRead
<1>2. i \in Inode
  BY DEF OpenRead, Exists, FileInv, Sound
<1>3. f \in [Thread -> OpenFile] /\ OthersKept(f, t)
  <2>1. ok \in BOOLEAN
    OBVIOUS
  <2>2. f = Opened(t, "read", i, ok)
    OBVIOUS
  <2> HIDE DEF ok, f
  <2> QED
    BY <1>2, <2>1, <2>2, ReaderFacts
<1>4. f[t].mode = "read" /\ f[t].ino = i /\ f[t].clean = ok
  BY DEF Opened
<1>5. fd[t].mode = "closed" /\ data[i] \in Content \cup Incomplete
  BY <1>2 DEF OpenRead, FileInv, Sound
<1>6. ok => data[i] \in Content
  BY <1>2, <1>5, NoInodeIsNone DEF FileInv, Sound, Writers
<1> HIDE DEF f, ok
<1>7. ASSUME NEW u \in Thread
      PROVE  f[u].mode = "closed" <=> f[u].ino = NoInode
  <2>1. CASE u = t
    BY <1>2, <1>4, <2>1, NoInodeIsNone
  <2>2. CASE u # t
    BY <1>3, <2>2 DEF FileInv, Sound, OthersKept
  <2> QED
    BY <2>1, <2>2
<1>8. \A u \in Thread : f[u].mode = "write" => fd[u].mode = "write" /\ f[u].ino = fd[u].ino
  BY <1>3, <1>4 DEF OthersKept
<1>9. \A u \in Thread : fd[u].mode = "write" => f[u].mode = "write" /\ f[u].ino = fd[u].ino
  BY <1>3, <1>5 DEF OthersKept
<1>10. \A u \in Thread : f[u].mode = "read" /\ f[u].clean => data[f[u].ino] \in Content
  <2> SUFFICES ASSUME NEW u \in Thread, f[u].mode = "read", f[u].clean
               PROVE  data[f[u].ino] \in Content
    OBVIOUS
  <2>1. CASE u = t
    BY <1>4, <1>6, <2>1
  <2>2. CASE u # t
    BY <1>3, <2>2 DEF OthersKept, FileInv, Sound
  <2> QED
    BY <2>1, <2>2
<1>11. Sound(dir, f, data, hurt)
  BY <1>3, <1>7, <1>8, <1>9, <1>10 DEF FileInv, Sound, OpenFile
<1> QED
  BY <1>1, <1>11 DEF FileInv, ReadsAreWhole

\* The FILE of a reader is closed.
LEMMA ReaderCloses ==
    ASSUME FileInv, NEW t \in Thread, fd[t].mode = "read",
           Settle(dir, [fd EXCEPT ![t] = Closed], data, hurt)
    PROVE  Sound(dir', fd', data', hurt')
<1> DEFINE f == [fd EXCEPT ![t] = Closed]
<1>1. fd[t].ino \in Inode
  BY DEF FileInv, Sound
<1>2. f \in [Thread -> OpenFile] /\ OthersKept(f, t)
  <2>1. FALSE \in BOOLEAN
    OBVIOUS
  <2> QED
    BY <1>1, <2>1, ReaderFacts
<1>3. f[t].mode = "closed" /\ f[t].ino = NoInode
  BY DEF FileInv, Sound, Closed
<1>4. Settle(dir, f, data, hurt)
  OBVIOUS
<1> HIDE DEF f
<1>5. \A u \in Thread : u # t => f[u].mode = fd[u].mode /\ f[u].ino = fd[u].ino
  BY <1>2 DEF OthersKept
<1>6. \A u \in Thread : fd[u].mode = "write" => f[u].mode = "write" /\ f[u].ino = fd[u].ino
  BY <1>5
<1>7. ASSUME NEW u \in Thread, f[u].mode = "read", f[u].clean
      PROVE  data[f[u].ino] \in Content
  <2>1. fd[u].mode = "read" /\ f[u].ino = fd[u].ino /\ fd[u].clean
    BY <1>2, <1>3, <1>7 DEF OthersKept
  <2> QED
    BY <2>1 DEF FileInv, Sound
<1>8. \A u \in Thread : f[u].mode = "closed" <=> f[u].ino = NoInode
  <2> TAKE u \in Thread
  <2>1. CASE u = t
    BY <1>3, <2>1
  <2>2. CASE u # t
    BY <1>5, <2>2 DEF FileInv, Sound
  <2> QED
    BY <2>1, <2>2
<1>9. \A u \in Thread : f[u].mode = "write" => fd[u].mode = "write" /\ f[u].ino = fd[u].ino
  BY <1>3, <1>5
<1>10. \A u \in Thread : f[u].mode = "write" /\ f[u].ino \notin hurt =>
         /\ data[f[u].ino] = "empty"
         /\ \A v \in Thread \ {u} : ~(f[v].mode = "write" /\ f[v].ino = f[u].ino)
  BY <1>9 DEF FileInv, Sound
<1>11. Sound(dir, f, data, hurt)
  BY <1>2, <1>6, <1>7, <1>8, <1>10 DEF FileInv, Sound, OpenFile
<1> QED
  BY <1>4, <1>11, SettleSound

\* fread that returns a content: the file's, if nobody wrote meanwhile.
LEMMA ReadInv ==
    ASSUME FileInv, NEW t \in Thread, Read(t)
    PROVE  FileInv'
<1>1. Sound(dir', fd', data', hurt')
  BY ReaderCloses DEF Read
<1>2. fd[t] \in OpenFile /\ fd[t].mode = "read" /\ fd[t].ino \in Inode
  BY DEF Read, FileInv, Sound, OpenFile
<1>3. PICK v \in IF fd[t].clean THEN {data[fd[t].ino]} ELSE {data[fd[t].ino], "damaged"} :
          got' = [got EXCEPT ![t] = [val |-> v, clean |-> fd[t].clean]]
  BY Zenon DEF Read
<1>4. v \in Content \cup Incomplete /\ (fd[t].clean => v \in Content)
  BY <1>2, <1>3 DEF FileInv, Sound, Incomplete
<1>5. fd[t].clean \in BOOLEAN
  BY <1>2 DEF OpenFile
<1>6. got' \in [Thread -> [val : Content \cup Incomplete \cup {"none"}, clean : BOOLEAN]]
  BY <1>3, <1>4, <1>5 DEF FileInv
<1>7. ReadsAreWhole'
  BY <1>3, <1>4, FileStoreAssumption DEF FileInv, ReadsAreWhole, Incomplete
<1> QED
  BY <1>1, <1>6, <1>7 DEF FileInv

\* fread that does not.
LEMMA ReadFailsInv ==
    ASSUME FileInv, NEW t \in Thread, ReadFails(t)
    PROVE  FileInv'
BY ReaderCloses, GotStays DEF ReadFails

\* A caller that frees what it has read.
LEMMA ForgetInv ==
    ASSUME FileInv, NEW t \in Thread, Forget(t)
    PROVE  FileInv'
BY FileStoreAssumption DEF Forget, FileInv, ReadsAreWhole, NothingGot, Incomplete

\* The end of the process spoils what it was writing.
LEMMA FilesAfterCrashInv ==
    ASSUME FileInv, FilesAfterCrash
    PROVE  FileInv'
<1> DEFINE f == [t \in Thread |-> Closed]
           h == hurt \cup {fd[t].ino : t \in {u \in Thread : fd[u].mode = "write"}}
<1>1. Settle(dir, f, data, h) /\ got' = [t \in Thread |-> NothingGot]
  BY DEF FilesAfterCrash
<1>2. h \subseteq Inode
  BY DEF FileInv, Sound
<1>3. f \in [Thread -> OpenFile] /\ \A t \in Thread : f[t].mode = "closed" /\ f[t].ino = NoInode
  BY DEF OpenFile, Closed
<1>4. \A p \in Path : dir[p] # NoInode /\ data[dir[p]] \in Incomplete => dir[p] \in h
  BY DEF FileInv, Sound
<1> HIDE DEF f, h
<1>5. Sound(dir, f, data, h)
  BY <1>2, <1>3, <1>4 DEF FileInv, Sound, OpenFile
<1>6. Sound(dir', fd', data', hurt')
  BY <1>1, <1>5, SettleSound
<1> QED
  BY <1>1, <1>6, FileStoreAssumption DEF FileInv, ReadsAreWhole, NothingGot, Incomplete

-----------------------------------------------------------------------------
(* The invariant of the operations, in any order and by any threads.       *)

\* Files enough for different names.
LEMMA PlacesExist ==
    ASSUME NEW names \in SUBSET Path
    PROVE  \E f \in [names -> Inode] : \A p, q \in names : f[p] = f[q] => p = q
<1> DEFINE n == Cardinality(names)
           m == Cardinality(Inode)
<1>1. IsFiniteSet(names) /\ n \in Nat /\ m \in Nat /\ n <= m
  <2>1. IsFiniteSet(names) /\ n <= Cardinality(Path)
    BY FS_Subset, FileStoreAssumption
  <2> QED
    BY <2>1, FS_CardinalityType, FileStoreAssumption
<1>2. ExistsBijection(1 .. n, names) /\ ExistsBijection(1 .. m, Inode)
  BY <1>1, FS_CardinalityType, FileStoreAssumption
<1>3. ExistsInjection(1 .. n, 1 .. m)
  BY <1>1, Fun_NatInjLeq
<1>4. ExistsInjection(names, 1 .. n) /\ ExistsInjection(1 .. m, Inode)
  <2>1. ExistsBijection(names, 1 .. n)
    BY <1>2, Fun_ExistsBijSymmetric
  <2> QED
    BY <1>2, <2>1 DEF ExistsBijection, ExistsInjection, Bijection
<1>5. ExistsInjection(names, Inode)
  BY <1>3, <1>4, Fun_ExistsInjTransitive
<1> QED
  BY <1>5 DEF ExistsInjection, Injection, IsInjective

\* A directory with some files, none of them open.
LEMMA FileInitInv ==
    ASSUME NEW names \in SUBSET Path, names = {} \/ Content # {}, FileInit(names)
    PROVE  FileInv
<1> DEFINE place == CHOOSE f \in [names -> Inode] : \A p, q \in names : f[p] = f[q] => p = q
           x == CHOOSE c \in Content : TRUE
<1>1. place \in [names -> Inode]
  BY PlacesExist
<1>2. names # {} => x \in Content
  OBVIOUS
<1>3. /\ dir = [p \in Path |-> IF p \in names THEN place[p] ELSE NoInode]
      /\ data = [i \in Inode |-> IF \E p \in names : place[p] = i THEN x ELSE "empty"]
      /\ fd = [t \in Thread |-> Closed]
      /\ got = [t \in Thread |-> NothingGot]
      /\ hurt = {}
  BY DEF FileInit
<1> HIDE DEF place, x
<1>4. dir \in [Path -> Inode \cup {NoInode}] /\ data \in [Inode -> Content \cup Incomplete]
  BY <1>1, <1>2, <1>3 DEF Incomplete
<1>5. \A p \in Path : dir[p] # NoInode => data[dir[p]] \notin Incomplete
  <2> SUFFICES ASSUME NEW p \in Path, dir[p] # NoInode PROVE data[dir[p]] \notin Incomplete
    OBVIOUS
  <2>1. p \in names /\ dir[p] = place[p] /\ dir[p] \in Inode
    BY <1>1, <1>3
  <2> QED
    BY <1>2, <1>3, <2>1, FileStoreAssumption DEF Incomplete
<1>6. fd \in [Thread -> OpenFile] /\ \A t \in Thread : fd[t].mode = "closed" /\ fd[t].ino = NoInode
  BY <1>3 DEF OpenFile, Closed
<1> QED
  BY <1>3, <1>4, <1>5, <1>6, FileStoreAssumption
     DEF FileInv, Sound, OpenFile, ReadsAreWhole, NothingGot, Incomplete

\* Every operation keeps the invariant.
LEMMA FileStepInv == FileInv /\ [FileNext]_fileVars => FileInv'
<1> SUFFICES ASSUME FileInv, [FileNext]_fileVars PROVE FileInv'
  OBVIOUS
<1>1. CASE FilesAfterCrash
  BY <1>1, FilesAfterCrashInv
<1>2. ASSUME NEW p \in Path, Unlink(p) PROVE FileInv'
  BY <1>2, UnlinkInv
<1>3. ASSUME NEW t \in Thread, NEW p \in Path, OpenWrite(t, p) \/ OpenRead(t, p) PROVE FileInv'
  BY <1>3, OpenWriteInv, OpenReadInv
<1>4. ASSUME NEW t \in Thread, NEW b \in Content, Write(t, b) PROVE FileInv'
  BY <1>4, WriteInv
<1>5. ASSUME NEW t \in Thread, WriteShort(t) \/ Read(t) \/ ReadFails(t) \/ Forget(t) PROVE FileInv'
  BY <1>5, WriteShortInv, ReadInv, ReadFailsInv, ForgetInv
<1>6. CASE UNCHANGED fileVars
  BY <1>6 DEF fileVars, FileInv, Sound, ReadsAreWhole
<1> QED
  BY <1>1, <1>2, <1>3, <1>4, <1>5, <1>6 DEF FileNext

\* What the properties say of files follows from the invariant.
LEMMA FileInvImplies == FileInv => FileTypeOK /\ IncompleteOnlyWhileWritten /\ ReadsAreWhole
<1> SUFFICES ASSUME FileInv PROVE FileTypeOK /\ IncompleteOnlyWhileWritten /\ ReadsAreWhole
  OBVIOUS
<1>1. FileTypeOK /\ ReadsAreWhole
  BY DEF FileInv, Sound, FileTypeOK
<1>2. ASSUME NEW p \in Path, Exists(p), data[dir[p]] \in Incomplete
      PROVE  Writers(dir[p]) # {} \/ dir[p] \in hurt
  BY <1>2 DEF FileInv, Sound, Exists, Writers
<1> QED
  BY <1>1, <1>2 DEF IncompleteOnlyWhileWritten

\* Whatever the threads do to one another's files, in any order: a named file
\* without its whole content is being written or has been spoilt, and a read
\* that no writer overlapped returned one whole content.
THEOREM FilesAreWhole == FileSpec => [](FileTypeOK /\ IncompleteOnlyWhileWritten /\ ReadsAreWhole)
<1>1. FileInit({}) => FileInv
  BY FileInitInv
<1> QED
  BY <1>1, FileStepInv, FileInvImplies, PTL DEF FileSpec
=============================================================================
