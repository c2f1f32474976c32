--------------------------- MODULE StatFileProofs ---------------------------
(***************************************************************************)
(* What the counters and data/storage_stat.dat keep although nothing is    *)
(* locked, for any threads, commands, Freq and MaxRequests.                *)
(***************************************************************************)
EXTENDS StatFile, FiniteSetTheorems, TLAPS

FileLine == [item : {0} \cup Item, val : Nat, end : BOOLEAN]

-----------------------------------------------------------------------------
(* Facts about the operators.                                              *)

LEMMA ItemFacts ==
    /\ 2 * Commands \in Nat /\ 2 * Commands >= 1
    /\ Cardinality(Item) = 2 * Commands
    /\ \A k \in 1 .. Commands : Total(k) \in Item /\ Success(k) \in Item
<1>1. 2 * Commands \in Nat /\ 2 * Commands >= 1
  BY StatAssumption
<1>2. Cardinality(Item) = 2 * Commands
  BY <1>1, FS_Interval DEF Item
<1> QED
  BY <1>1, <1>2, StatAssumption DEF Item, Total, Success

LEMMA ActorFacts ==
    /\ \A t \in Thread : t \in Actor /\ t # "main"
    /\ "main" \in Actor
BY StatAssumption DEF Actor

LEMMA FileFacts ==
    ASSUME StatInv
    PROVE  /\ file \in Seq(FileLine)
           /\ \A j \in DOMAIN file : file[j] \in FileLine
<1>1. file \in Seq(FileLine)
  BY DEF StatInv, StatTypeOK, FileLine
<1> QED
  BY <1>1

\* What is printed are the lines of all items, in order.
LEMMA LinesFacts ==
    ASSUME NEW values \in [Item -> Nat]
    PROVE  /\ Lines(values) \in Seq(FileLine)
           /\ Len(Lines(values)) = 2 * Commands
           /\ \A i \in Item : Lines(values)[i] = Line(i, values[i])
<1>1. Item = 1 .. 2 * Commands /\ 2 * Commands \in Nat
  BY ItemFacts DEF Item
<1>2. \A i \in Item : Line(i, values[i]) \in FileLine
  BY DEF Line, FileLine
<1>3. Lines(values) \in [1 .. 2 * Commands -> FileLine]
  BY <1>1, <1>2 DEF Lines
<1> QED
  BY <1>1, <1>3 DEF Lines

\* A write puts its lines at the offset and leaves the others alone.
LEMMA OverlayFacts ==
    ASSUME offset \in Nat, file \in Seq(FileLine), NEW lines \in Seq(FileLine),
           NEW f, f = Overlay(lines)
    PROVE  /\ f \in Seq(FileLine)
           /\ Len(f) = IF offset + Len(lines) > Len(file) THEN offset + Len(lines) ELSE Len(file)
           /\ \A j \in 1 .. Len(f) :
                f[j] = IF j \in offset + 1 .. offset + Len(lines) THEN lines[j - offset]
                       ELSE IF j <= Len(file) THEN file[j] ELSE Hole
<1> DEFINE n == IF offset + Len(lines) > Len(file) THEN offset + Len(lines) ELSE Len(file)
<1> DEFINE at(j) == IF j \in offset + 1 .. offset + Len(lines) THEN lines[j - offset]
                    ELSE IF j <= Len(file) THEN file[j] ELSE Hole
<1>1. n \in Nat
  OBVIOUS
<1>2. f = [j \in 1 .. n |-> at(j)]
  BY DEF Overlay
<1>3. Hole \in FileLine
  BY DEF Hole, FileLine
<1>4. ASSUME NEW j \in 1 .. n PROVE at(j) \in FileLine
  <2>1. CASE j \in offset + 1 .. offset + Len(lines)
    BY <2>1
  <2>2. CASE j \notin offset + 1 .. offset + Len(lines)
    BY <1>3, <2>2
  <2> QED
    BY <2>1, <2>2
<1> HIDE DEF n, at
<1>5. f \in [1 .. n -> FileLine]
  BY <1>2, <1>4
<1>6. f \in Seq(FileLine) /\ Len(f) = n
  BY <1>1, <1>5
<1> QED
  BY <1>2, <1>6 DEF n, at

\* A number that loses digits is not larger.
LEMMA CutOffFacts ==
    ASSUME NEW v \in Nat, NEW x \in CutOff(v) \cup {v}
    PROVE  x \in Nat /\ x <= v
BY DEF CutOff

-----------------------------------------------------------------------------
(* What a step that is about something else leaves as it is.               *)

\* A step that writes nothing to the file and moves nobody in or out of it.
LEMMA FileKept ==
    ASSUME StatInv,
           UNCHANGED <<exists, file, offset, last, overlap, spoilt>>,
           \A a \in Actor : pc[a] \in {"seek", "write"} \/ pc'[a] \in {"seek", "write"}
                              => pc'[a] = pc[a] /\ buff'[a] = buff[a]
    PROVE  HeadWillBeWhole' /\ LastWriter'
<1>1. Writers' = Writers
  BY DEF Writers
<1>2. \A a \in Actor : /\ pc'[a] = "seek" <=> pc[a] = "seek"
                       /\ pc'[a] = "write" <=> pc[a] = "write"
  OBVIOUS
<1>3. \A a \in Writers : pc'[a] = pc[a] /\ buff'[a] = buff[a]
  BY DEF Writers
<1>4. HeadIsWhole' <=> HeadIsWhole
  BY DEF HeadIsWhole
<1>5. HeadWillBeWhole'
  BY <1>2, <1>4 DEF StatInv, HeadWillBeWhole
<1>6. LastWriter'
  BY <1>1, <1>3 DEF StatInv, LastWriter, Lines
<1> QED
  BY <1>5, <1>6

\* A step of somebody who owes nothing and stores nothing.
LEMMA OwedKept ==
    ASSUME StatInv, NEW a \in Actor, NEW to \in Places \ Owes,
           pc' = [pc EXCEPT ![a] = to], pc[a] \notin Owes,
           UNCHANGED <<stat, cmd, served>>,
           \A t \in Thread : t # a => tmp'[t] = tmp[t]
    PROVE  OwedIsMissing'
<1>1. \A t \in Thread : pc'[t] = pc[t] \/ (pc[t] \notin Owes /\ pc'[t] \notin Owes)
  BY ActorFacts DEF StatInv, StatTypeOK
<1>2. \A t \in Thread : pc'[t] \in Owes => pc'[t] = pc[t]
  BY <1>1
<1>3. \A t \in Thread : (pc'[t] \in Owes <=> pc[t] \in Owes)
  BY <1>1
<1>4. \A t \in Thread : pc'[t] \in Owes => Counter(t)' = Counter(t)
  BY <1>2 DEF Counter
<1>5. \A i \in Item : Owing(i)' = Owing(i)
  BY <1>3, <1>4 DEF Owing
<1>6. \A i \in Item : \A t \in Owing(i) : pc'[t] = pc[t] /\ tmp'[t] = tmp[t]
  BY <1>2, <1>3 DEF Owing
<1> QED
  BY <1>5, <1>6 DEF StatInv, OwedIsMissing

\* A process that has ended or that has not served anything owes nothing.
LEMMA NothingIsOwed ==
    ASSUME \A t \in Thread : pc'[t] \notin Owes,
           \A i \in Item : stat'[i] \in Nat /\ served'[i] \in Nat /\ stat'[i] <= served'[i]
    PROVE  OwedIsMissing'
<1>1. \A i \in Item : Owing(i)' = {}
  BY DEF Owing
<1>2. IsFiniteSet({}) /\ Cardinality({}) = 0
  BY FS_EmptySet
<1> QED
  BY <1>1, <1>2 DEF OwedIsMissing

\* The counters are never above what was served.
LEMMA StatIsServed ==
    ASSUME StatInv
    PROVE  \A i \in Item : stat[i] <= served[i]
<1> TAKE i \in Item
<1>1. Cardinality(Owing(i)) \in Nat
  BY FS_CardinalityType DEF StatInv, OwedIsMissing
<1>2. stat[i] + Cardinality(Owing(i)) <= served[i]
  BY DEF StatInv, OwedIsMissing
<1>3. stat[i] \in Nat /\ served[i] \in Nat
  BY DEF StatInv, StatTypeOK
<1> QED
  BY <1>1, <1>2, <1>3

\* Nor is what a process finds when it loads the file.
LEMMA LoadedIsServed ==
    ASSUME StatInv, NEW i \in Item, NEW v \in ValuesOf(i)
    PROVE  v \in Nat /\ v <= served[i]
<1>1. served[i] \in Nat
  BY DEF StatInv, StatTypeOK
<1>2. CASE v = 0
  BY <1>1, <1>2
<1>3. CASE v # 0
  <2>1. PICK j \in Readable : file[j].item = i /\ v = file[j].val
    BY <1>3 DEF ValuesOf
  <2>2. j \in DOMAIN file /\ file[j].item # 0
    BY <2>1 DEF Readable
  <2>3. file[j].val \in Nat
    BY <2>2, FileFacts DEF FileLine
  <2> QED
    BY <2>1, <2>2, <2>3 DEF StatInv, CopiesAreOld
<1> QED
  BY <1>2, <1>3

\* The same threads owe the same.
LEMMA SameOwe ==
    ASSUME StatInv, UNCHANGED <<stat, tmp, served>>,
           \A u \in Thread : (pc'[u] \in Owes <=> pc[u] \in Owes),
           \A u \in Thread : pc'[u] \in Owes => pc'[u] = pc[u] /\ cmd'[u] = cmd[u]
    PROVE  OwedIsMissing'
<1>1. \A u \in Thread : pc'[u] \in Owes => Counter(u)' = Counter(u)
  BY DEF Counter
<1>2. \A i \in Item : Owing(i)' = Owing(i)
  BY <1>1 DEF Owing
<1>3. \A i \in Item : \A u \in Owing(i) : pc'[u] = pc[u]
  BY DEF Owing
<1> QED
  BY <1>2, <1>3 DEF StatInv, OwedIsMissing

\* One thread more owes an increment, and served has it.
LEMMA OneOwesMore ==
    ASSUME StatInv, NEW t \in Thread, NEW c \in Item,
           pc[t] \notin Owes, pc'[t] \in Owes \ {"total=", "success="}, Counter(t)' = c,
           \A u \in Thread : u # t => pc'[u] = pc[u] /\ cmd'[u] = cmd[u],
           UNCHANGED <<stat, tmp>>,
           served' = [served EXCEPT ![c] = @ + 1]
    PROVE  OwedIsMissing'
<1> SUFFICES ASSUME NEW i \in Item
             PROVE  /\ IsFiniteSet(Owing(i)')
                    /\ stat[i] + Cardinality(Owing(i)') <= served'[i]
                    /\ \A u \in Owing(i)' : pc'[u] \in {"total=", "success="} =>
                         tmp[u] + Cardinality(Owing(i)') <= served'[i]
  BY DEF OwedIsMissing
<1>1. \A u \in Thread : u # t => Counter(u)' = Counter(u)
  BY DEF Counter
<1>2. Cardinality(Owing(i)) \in Nat /\ IsFiniteSet(Owing(i))
  BY FS_CardinalityType DEF StatInv, OwedIsMissing
<1>3. t \notin Owing(i)
  BY DEF Owing
<1>4. stat[i] \in Nat /\ served \in [Item -> Nat] /\ \A u \in Thread : tmp[u] \in Nat
  BY DEF StatInv, StatTypeOK
<1>5. CASE i = c
  <2>1. Owing(i)' = Owing(i) \cup {t}
    BY <1>1, <1>5 DEF Owing
  <2>2. IsFiniteSet(Owing(i)') /\ Cardinality(Owing(i)') = Cardinality(Owing(i)) + 1
    BY <1>2, <1>3, <2>1, FS_AddElement
  <2>3. served'[i] = served[i] + 1
    BY <1>4, <1>5
  <2>4. stat[i] + Cardinality(Owing(i)') <= served'[i]
    BY <1>2, <1>4, <2>2, <2>3 DEF StatInv, OwedIsMissing
  <2>5. ASSUME NEW u \in Owing(i)', pc'[u] \in {"total=", "success="}
        PROVE  tmp[u] + Cardinality(Owing(i)') <= served'[i]
    <3>1. u # t /\ u \in Owing(i) /\ u \in Thread
      BY <2>1, <2>5 DEF Owing
    <3>2. tmp[u] + Cardinality(Owing(i)) <= served[i]
      BY <2>5, <3>1 DEF StatInv, OwedIsMissing
    <3> QED
      BY <1>2, <1>4, <2>2, <2>3, <3>1, <3>2
  <2> QED
    BY <2>2, <2>4, <2>5
<1>6. CASE i # c
  <2>1. Owing(i)' = Owing(i)
    BY <1>1, <1>3, <1>6 DEF Owing
  <2>2. \A u \in Owing(i) : pc'[u] = pc[u]
    BY <1>3 DEF Owing
  <2>3. served'[i] = served[i]
    BY <1>4, <1>6
  <2> QED
    BY <2>1, <2>2, <2>3 DEF StatInv, OwedIsMissing
<1> QED
  BY <1>5, <1>6

\* Serving more makes nothing that was copied too large.
LEMMA ServedGrows ==
    ASSUME StatInv, UNCHANGED <<buff, file>>,
           served' \in [Item -> Nat],
           \A i \in Item : served'[i] >= served[i]
    PROVE  CopiesAreOld'
<1>1. \A i \in Item : served[i] \in Nat /\ served'[i] \in Nat
  BY DEF StatInv, StatTypeOK
<1>2. \A a \in Actor, i \in Item : buff[a][i] \in Int
  BY DEF StatInv, StatTypeOK
<1>3. \A a \in Actor, i \in Item : buff'[a][i] <= served'[i]
  BY <1>1, <1>2 DEF StatInv, CopiesAreOld
<1>4. \A j \in DOMAIN file : file[j].item # 0 => file[j].item \in Item /\ file[j].val \in Nat
  BY FileFacts DEF FileLine
<1>5. \A j \in DOMAIN file : file[j].item # 0 => file[j].val <= served'[file[j].item]
  BY <1>1, <1>4 DEF StatInv, CopiesAreOld
<1> QED
  BY <1>3, <1>5 DEF CopiesAreOld

-----------------------------------------------------------------------------
(* The threads' own steps.                                                 *)

\* The initial state.
LEMMA InitInv == Init => StatInv
<1> SUFFICES ASSUME Init PROVE StatInv
  OBVIOUS
<1> USE DEF Init, Nobody, Zero, Blank
<1>1. pc = [a \in Actor |-> "idle"] /\ Writers = {}
  BY DEF Writers
<1>2. StatTypeOK
  <2>1. file \in Seq([item : {0} \cup Item, val : Nat, end : BOOLEAN])
    OBVIOUS
  <2>2. file \in Seq([item : {0} \cup Item, val : Nat, end : BOOLEAN])
        /\ change \in Nat /\ offset \in Nat /\ exists \in BOOLEAN
        /\ stat \in [Item -> Nat] /\ served \in [Item -> Nat] /\ last \in [Item -> Nat]
    BY <2>1
  <2>3. pc \in [Actor -> Places] /\ buff \in [Actor -> [Item -> Nat \cup {-1}]]
    BY DEF Places
  <2>4. cmd \in [Thread -> 0 .. Commands] /\ tmp \in [Thread -> Nat] /\ requests \in 0 .. MaxRequests
    BY StatAssumption
  <2> QED
    BY <2>2, <2>3, <2>4 DEF StatTypeOK
<1>3. PlacesAreUsed
  BY ActorFacts DEF PlacesAreUsed, Owes
<1>4. OwedIsMissing
  <2>1. \A i \in Item : Owing(i) = {}
    BY ActorFacts DEF Owing, Owes
  <2> QED
    <3>1. IsFiniteSet({}) /\ Cardinality({}) = 0
      BY FS_EmptySet
    <3>2. \A i \in Item : stat[i] = 0 /\ served[i] = 0
      OBVIOUS
    <3> HIDE DEF Init
    <3>3. ASSUME NEW i \in Item
          PROVE  /\ IsFiniteSet(Owing(i))
                 /\ stat[i] + Cardinality(Owing(i)) <= served[i]
                 /\ Owing(i) = {}
      BY <2>1, <3>1, <3>2
    <3> QED
      BY <3>3 DEF OwedIsMissing
<1>5. CopiesAreOld
  BY DEF CopiesAreOld
<1>6. WhoIsThere
  BY ActorFacts DEF WhoIsThere
<1> QED
  BY <1>1, <1>2, <1>3, <1>4, <1>5, <1>6 DEF StatInv, HeadWillBeWhole, LastWriter

\* A request: its thread owes the first counter, which served has already.
LEMMA RequestInv ==
    ASSUME StatInv, NEW t \in Thread, NEW k \in 0 .. Commands, Request(t, k)
    PROVE  StatInv'
<1> DEFINE to == IF k = 0 THEN "serve" ELSE "total"
<1>1. /\ t \in Actor /\ pc[t] = "idle" /\ pc' = [pc EXCEPT ![t] = to]
      /\ cmd' = [cmd EXCEPT ![t] = k]
      /\ phase = "serving" /\ requests < MaxRequests
      /\ requests' = requests + 1
      /\ served' = IF k = 0 THEN served ELSE [served EXCEPT ![Total(k)] = @ + 1]
      /\ uneven' \in BOOLEAN
      /\ UNCHANGED <<phase, stat, change, offset, exists, file, tmp, buff, last, overlap, spoilt>>
  <2>1. uneven' \in BOOLEAN
    <3>1. uneven \in BOOLEAN
      BY DEF StatInv, StatTypeOK
    <3> QED
      BY <3>1, Zenon DEF Request
  <2> QED
    BY <2>1, ActorFacts DEF Request, Goes, memory, onDisk
<1>2. k # 0 => k \in 1 .. Commands /\ Total(k) \in Item
  <2>1. k # 0 => k \in 1 .. Commands
    BY StatAssumption
  <2> QED
    BY <2>1, ItemFacts
<1>3. StatTypeOK
  BY DEF StatInv
<1>4. StatTypeOK'
  BY <1>1, <1>2, <1>3, StatAssumption, SMTT(30) DEF StatTypeOK, Places
<1>5. \A u \in Thread : u # t => pc'[u] = pc[u] /\ cmd'[u] = cmd[u]
  BY <1>1, <1>3, ActorFacts DEF StatTypeOK
<1>6. pc'[t] = to /\ cmd'[t] = k
  BY <1>1, <1>3, ActorFacts DEF StatTypeOK
<1>7. PlacesAreUsed'
  <2>1. \A u \in Thread : pc'[u] \in Owes => cmd'[u] # 0
    BY <1>5, <1>6 DEF StatInv, PlacesAreUsed, Owes
  <2>2. \A a \in Actor : pc'[a] \in {"trunc", "seek", "write"} => pc'[a] = pc[a]
    BY <1>1, <1>3 DEF StatTypeOK
  <2> QED
    BY <1>1, <2>1, <2>2 DEF StatInv, PlacesAreUsed
<1>8. \A i \in Item : served'[i] >= served[i]
  BY <1>1, <1>2, <1>3 DEF StatTypeOK
<1>9. OwedIsMissing'
  <2>1. CASE k = 0
    <3>1. to \in Places \ Owes /\ pc[t] \notin Owes /\ to = "serve"
      BY <1>1, <2>1 DEF Places, Owes
    <3>2. \A u \in Thread : pc'[u] \in Owes => u # t
      BY <1>6, <3>1 DEF Owes
    <3>3. \A u \in Thread : (pc'[u] \in Owes <=> pc[u] \in Owes)
      BY <1>1, <1>5, <3>2 DEF Owes
    <3> QED
      BY <1>1, <1>5, <2>1, <3>2, <3>3, SameOwe
  <2>2. CASE k # 0
    <3>1. pc'[t] \in Owes \ {"total=", "success="} /\ pc[t] \notin Owes
      BY <1>1, <1>6, <2>2 DEF Owes
    <3>2. Counter(t)' = Total(k)
      BY <1>6, <2>2 DEF Counter
    <3> QED
      BY <1>1, <1>2, <1>5, <2>2, <3>1, <3>2, OneOwesMore
  <2> QED
    BY <2>1, <2>2
<1>10. CopiesAreOld'
  BY <1>1, <1>4, <1>8, ServedGrows DEF StatTypeOK
<1>11. HeadWillBeWhole' /\ LastWriter'
  <2>1. \A a \in Actor : pc[a] \in {"seek", "write"} \/ pc'[a] \in {"seek", "write"} => pc'[a] = pc[a]
    BY <1>1, <1>3 DEF StatTypeOK
  <2> QED
    BY <1>1, <2>1, FileKept
<1>12. WhoIsThere'
  BY <1>1, <1>5, ActorFacts DEF StatInv, WhoIsThere
<1> QED
  BY <1>4, <1>7, <1>9, <1>10, <1>11, <1>12 DEF StatInv

\* What a step of a thread outside of storage_write_to_stat_file keeps.
LEMMA ThreadFrame ==
    ASSUME StatInv, NEW t \in Thread, NEW to \in Places \ {"seek", "write"},
           pc' = [pc EXCEPT ![t] = to], pc[t] \notin {"idle", "seek", "write"},
           UNCHANGED <<phase, exists, file, offset, buff, last, overlap, spoilt>>
    PROVE  /\ HeadWillBeWhole' /\ LastWriter'
           /\ WhoIsThere'
           /\ pc' \in [Actor -> Places]
           /\ pc'[t] = to
           /\ \A a \in Actor : a # t => pc'[a] = pc[a]
           /\ to \notin {"total", "total=", "success", "success=", "trunc"} /\ cmd' = cmd
                => PlacesAreUsed'
           /\ to \in Owes /\ cmd' = cmd /\ cmd[t] # 0 => PlacesAreUsed'
<1>1. pc \in [Actor -> Places] /\ t \in Actor
  BY ActorFacts DEF StatInv, StatTypeOK
<1>2. pc' \in [Actor -> Places] /\ pc'[t] = to /\ \A a \in Actor : a # t => pc'[a] = pc[a]
  BY <1>1
<1>3. WhoIsThere'
  BY <1>1, <1>2, ActorFacts DEF StatInv, WhoIsThere, Nobody
<1>4. HeadWillBeWhole' /\ LastWriter'
  BY <1>2, FileKept
<1>5. \A u \in Thread : u \in Actor
  BY ActorFacts
<1>6. to \notin {"total", "total=", "success", "success=", "trunc"} /\ cmd' = cmd => PlacesAreUsed'
  BY <1>2, <1>5 DEF StatInv, PlacesAreUsed, Owes
<1>7. to \in Owes /\ cmd' = cmd /\ cmd[t] # 0 => PlacesAreUsed'
  BY <1>2, <1>5 DEF StatInv, PlacesAreUsed, Owes
<1> QED
  BY <1>2, <1>3, <1>4, <1>6, <1>7 DEF StatInv

\* The counter of a thread that owes one.
LEMMA CounterIsItem ==
    ASSUME StatInv, NEW t \in Thread, pc[t] \in Owes
    PROVE  /\ Counter(t) \in Item
           /\ t \in Owing(Counter(t))
<1>1. cmd[t] \in 1 .. Commands
  BY StatAssumption DEF StatInv, StatTypeOK, PlacesAreUsed
<1>2. Counter(t) \in Item
  BY <1>1, ItemFacts DEF Counter
<1> QED
  BY <1>2 DEF Owing

\* ++: the load.
LEMMA LoadCounterInv ==
    ASSUME StatInv, NEW t \in Thread, LoadCounter(t)
    PROVE  StatInv'
<1> DEFINE to == IF pc[t] = "total" THEN "total=" ELSE "success="
<1>1. /\ pc[t] \in {"total", "success"} /\ pc' = [pc EXCEPT ![t] = to]
      /\ tmp' = [tmp EXCEPT ![t] = stat[Counter(t)]]
      /\ UNCHANGED <<phase, stat, change, offset, exists, file, cmd, buff>>
      /\ UNCHANGED <<requests, served, last, overlap, spoilt, uneven>>
  BY DEF LoadCounter, Goes, memory, onDisk, history
<1>2. Counter(t) \in Item /\ cmd[t] # 0
  BY <1>1, CounterIsItem DEF StatInv, PlacesAreUsed, Owes
<1>3. /\ to \in Places \ {"seek", "write"} /\ to \in Owes
      /\ pc[t] \notin {"idle", "seek", "write"}
  BY <1>1 DEF Places, Owes
<1>4. /\ HeadWillBeWhole' /\ LastWriter' /\ PlacesAreUsed'
      /\ WhoIsThere'
      /\ pc' \in [Actor -> Places] /\ pc'[t] = to
      /\ \A a \in Actor : a # t => pc'[a] = pc[a]
  <2> HIDE DEF to
  <2> QED
    BY <1>1, <1>2, <1>3, ThreadFrame
<1>5. StatTypeOK'
  BY <1>1, <1>2, <1>4 DEF StatInv, StatTypeOK
<1>6. \A u \in Thread : (pc'[u] \in Owes <=> pc[u] \in Owes) /\ Counter(u)' = Counter(u)
  <2> TAKE u \in Thread
  <2>1. CASE u = t
    BY <1>1, <1>4, <2>1 DEF Counter, Owes
  <2>2. CASE u # t
    BY <1>1, <1>4, <2>2, ActorFacts DEF Counter
  <2> QED
    BY <2>1, <2>2
<1>7. \A i \in Item : Owing(i)' = Owing(i)
  BY <1>6 DEF Owing
<1>8. OwedIsMissing'
  <2>1. ASSUME NEW i \in Item, NEW u \in Owing(i), pc'[u] \in {"total=", "success="}
        PROVE  tmp'[u] + Cardinality(Owing(i)) <= served[i]
    <3>1. CASE u = t
      <4>1. i = Counter(t)
        BY <2>1, <3>1 DEF Owing
      <4>2. tmp'[u] = stat[i]
        BY <1>1, <3>1, <4>1 DEF StatInv, StatTypeOK
      <4> QED
        BY <4>2 DEF StatInv, OwedIsMissing
    <3>2. CASE u # t
      <4>1. u \in Thread /\ pc'[u] = pc[u] /\ tmp'[u] = tmp[u]
        BY <1>1, <1>4, <3>2, ActorFacts DEF Owing, StatInv, StatTypeOK
      <4> QED
        BY <2>1, <4>1 DEF StatInv, OwedIsMissing
    <3> QED
      BY <3>1, <3>2
  <2> QED
    BY <1>1, <1>7, <2>1 DEF StatInv, OwedIsMissing
<1>9. CopiesAreOld'
  BY <1>1 DEF StatInv, CopiesAreOld
<1> QED
  BY <1>4, <1>5, <1>8, <1>9 DEF StatInv

\* ++: the store.  What the thread owed it owes no more.
LEMMA StoreCounterInv ==
    ASSUME StatInv, NEW t \in Thread, StoreCounter(t)
    PROVE  StatInv'
<1> DEFINE to == IF pc[t] = "total=" THEN "serve" ELSE "change"
<1> DEFINE c == Counter(t)
<1>1. /\ pc[t] \in {"total=", "success="} /\ pc' = [pc EXCEPT ![t] = to]
      /\ stat' = [stat EXCEPT ![c] = tmp[t] + 1]
      /\ tmp' = [tmp EXCEPT ![t] = 0]
      /\ UNCHANGED <<phase, change, offset, exists, file, cmd, buff>>
      /\ UNCHANGED <<requests, served, last, overlap, spoilt, uneven>>
  BY DEF StoreCounter, Goes, onDisk, history
<1>2. c \in Item /\ t \in Owing(c)
  BY <1>1, CounterIsItem DEF Owes
<1>3. /\ to \in Places \ {"seek", "write"}
      /\ to \notin {"total", "total=", "success", "success=", "trunc"}
      /\ pc[t] \notin {"idle", "seek", "write"}
  BY <1>1 DEF Places
<1>4. /\ HeadWillBeWhole' /\ LastWriter' /\ PlacesAreUsed'
      /\ WhoIsThere'
      /\ pc' \in [Actor -> Places] /\ pc'[t] = to
      /\ \A a \in Actor : a # t => pc'[a] = pc[a]
  <2> HIDE DEF to
  <2> QED
    BY <1>1, <1>3, ThreadFrame
<1>5. tmp[t] \in Nat /\ stat \in [Item -> Nat] /\ served \in [Item -> Nat] /\ tmp \in [Thread -> Nat]
  BY DEF StatInv, StatTypeOK
<1>6. StatTypeOK'
  BY <1>1, <1>2, <1>4, <1>5 DEF StatInv, StatTypeOK
<1>7. \A u \in Thread : u # t => /\ (pc'[u] \in Owes <=> pc[u] \in Owes)
                                 /\ Counter(u)' = Counter(u) /\ pc'[u] = pc[u] /\ tmp'[u] = tmp[u]
  BY <1>1, <1>4, <1>5, ActorFacts DEF Counter
<1>8. pc'[t] \notin Owes
  BY <1>3, <1>4 DEF Owes
<1> HIDE DEF to, c
<1>9. OwedIsMissing'
  <2> SUFFICES ASSUME NEW i \in Item
               PROVE  /\ IsFiniteSet(Owing(i)')
                      /\ stat'[i] + Cardinality(Owing(i)') <= served[i]
                      /\ \A u \in Owing(i)' : pc'[u] \in {"total=", "success="} =>
                           tmp'[u] + Cardinality(Owing(i)') <= served[i]
    BY <1>1 DEF OwedIsMissing
  <2>1. Cardinality(Owing(i)) \in Nat /\ IsFiniteSet(Owing(i))
    BY FS_CardinalityType DEF StatInv, OwedIsMissing
  <2>2. t \in Owing(i) <=> i = c
    BY <1>2 DEF Owing, c
  <2>3. Owing(i)' = Owing(i) \ {t}
    BY <1>7, <1>8 DEF Owing
  <2>4. /\ IsFiniteSet(Owing(i)')
        /\ Cardinality(Owing(i)') = IF i = c THEN Cardinality(Owing(i)) - 1 ELSE Cardinality(Owing(i))
    BY <2>1, <2>2, <2>3, FS_RemoveElement
  <2>5. stat[i] \in Nat /\ served[i] \in Nat
    BY <1>5
  <2>6. stat'[i] + Cardinality(Owing(i)') <= served[i]
    <3>1. CASE i = c
      <4>1. tmp[t] + Cardinality(Owing(i)) <= served[i]
        BY <1>1, <1>2, <3>1 DEF StatInv, OwedIsMissing
      <4> QED
        BY <1>1, <1>2, <1>5, <2>1, <2>4, <2>5, <3>1, <4>1
    <3>2. CASE i # c
      BY <1>1, <1>5, <2>4, <3>2 DEF StatInv, OwedIsMissing
    <3> QED
      BY <3>1, <3>2
  <2>7. ASSUME NEW u \in Owing(i)', pc'[u] \in {"total=", "success="}
        PROVE  tmp'[u] + Cardinality(Owing(i)') <= served[i]
    <3>1. u \in Thread /\ u # t /\ u \in Owing(i)
      BY <2>3 DEF Owing
    <3>2. tmp[u] + Cardinality(Owing(i)) <= served[i] /\ tmp'[u] = tmp[u]
      BY <1>7, <2>7, <3>1 DEF StatInv, OwedIsMissing
    <3> QED
      BY <1>5, <2>1, <2>4, <2>5, <3>1, <3>2
  <2> QED
    BY <2>4, <2>6, <2>7
<1>10. CopiesAreOld'
  BY <1>1 DEF StatInv, CopiesAreOld
<1> QED
  BY <1>4, <1>6, <1>9, <1>10 DEF StatInv

\* The handler: when it succeeds the second counter is owed as well.
LEMMA ServeInv ==
    ASSUME StatInv, NEW t \in Thread, Serve(t)
    PROVE  StatInv'
<1>1. PICK to \in {"idle", "change", "success"} :
        /\ pc[t] = "serve" /\ pc' = [pc EXCEPT ![t] = to]
        /\ to = "success" <=> (cmd[t] # 0 /\ to # "idle")
        /\ served' = IF to = "success" THEN [served EXCEPT ![Success(cmd[t])] = @ + 1] ELSE served
  <2>1. CASE /\ Goes(t, "serve", IF cmd[t] = 0 THEN "change" ELSE "success")
             /\ served' = IF cmd[t] = 0 THEN served ELSE [served EXCEPT ![Success(cmd[t])] = @ + 1]
    BY <2>1 DEF Goes
  <2>2. CASE Goes(t, "serve", "idle") /\ UNCHANGED served
    BY <2>2 DEF Goes
  <2> QED
    BY <2>1, <2>2 DEF Serve
<1>2. /\ UNCHANGED <<phase, stat, change, offset, exists, file, cmd, tmp, buff>>
      /\ UNCHANGED <<requests, last, overlap, spoilt, uneven>>
  BY DEF Serve, memory, onDisk
<1>3. to \in Places \ {"seek", "write"} /\ pc[t] \notin {"idle", "seek", "write"}
  BY <1>1 DEF Places
<1>4. to # "success" => to \notin {"total", "total=", "success", "success=", "trunc"} \cup Owes
  BY <1>1 DEF Owes
<1>5. to = "success" => cmd[t] # 0 /\ to \in Owes
  BY <1>1 DEF Owes
<1>6. /\ HeadWillBeWhole' /\ LastWriter' /\ PlacesAreUsed'
      /\ WhoIsThere'
      /\ pc' \in [Actor -> Places] /\ pc'[t] = to
      /\ \A a \in Actor : a # t => pc'[a] = pc[a]
  BY <1>1, <1>2, <1>3, <1>4, <1>5, ThreadFrame
<1>7. \A u \in Thread : u # t => pc'[u] = pc[u] /\ cmd'[u] = cmd[u]
  BY <1>2, <1>6, ActorFacts
<1>8. to = "success" => Success(cmd[t]) \in Item
  <2>1. cmd[t] \in 0 .. Commands
    BY DEF StatInv, StatTypeOK
  <2> QED
    BY <1>5, <2>1, StatAssumption, ItemFacts
<1>9. served \in [Item -> Nat]
  BY DEF StatInv, StatTypeOK
<1>10. served' \in [Item -> Nat] /\ \A i \in Item : served'[i] >= served[i]
  BY <1>1, <1>8, <1>9
<1>11. StatTypeOK'
  BY <1>2, <1>6, <1>10 DEF StatInv, StatTypeOK
<1>12. OwedIsMissing'
  <2>1. CASE to = "success"
    <3>1. Counter(t)' = Success(cmd[t])
      BY <1>2, <1>6, <2>1 DEF Counter
    <3>2. pc[t] \notin Owes /\ pc'[t] \in Owes \ {"total=", "success="}
      BY <1>1, <1>6, <2>1 DEF Owes
    <3>3. served' = [served EXCEPT ![Success(cmd[t])] = @ + 1]
      BY <1>1, <2>1
    <3> QED
      BY <1>2, <1>7, <1>8, <2>1, <3>1, <3>2, <3>3, OneOwesMore
  <2>2. CASE to # "success"
    <3>1. pc[t] \notin Owes /\ to \in Places \ Owes
      BY <1>1, <1>3, <1>4, <2>2 DEF Owes
    <3> QED
      BY <1>1, <1>2, <2>2, <3>1, OwedKept, ActorFacts
  <2> QED
    BY <2>1, <2>2
<1>13. CopiesAreOld'
  BY <1>2, <1>10, ServedGrows
<1> QED
  BY <1>6, <1>11, <1>12, <1>13 DEF StatInv

\* ++g_stat_change_count and the test of it.
LEMMA ChangeInv ==
    ASSUME StatInv, NEW t \in Thread, LoadChange(t) \/ StoreChange(t) \/ TestChange(t)
    PROVE  StatInv'
<1>1. PICK to \in {"change=", "test", "print", "idle"} :
        /\ pc[t] \in {"change", "change=", "test"} /\ pc' = [pc EXCEPT ![t] = to]
        /\ change' \in Nat
        /\ tmp' \in [Thread -> Nat]
        /\ \A u \in Thread : u # t => tmp'[u] = tmp[u]
  <2>1. change \in Nat /\ tmp \in [Thread -> Nat]
    BY DEF StatInv, StatTypeOK
  <2>2. CASE LoadChange(t)
    BY <2>1, <2>2 DEF LoadChange, Goes, memory
  <2>3. CASE StoreChange(t)
    BY <2>1, <2>3 DEF StoreChange, Goes
  <2>4. CASE TestChange(t)
    BY <2>1, <2>4 DEF TestChange, Goes, memory
  <2> QED
    BY <2>2, <2>3, <2>4
<1>2. /\ UNCHANGED <<phase, stat, offset, exists, file, cmd, buff>>
      /\ UNCHANGED <<requests, served, last, overlap, spoilt, uneven>>
  BY DEF LoadChange, StoreChange, TestChange, memory, onDisk, history
<1>3. /\ to \in Places \ {"seek", "write"} /\ pc[t] \notin {"idle", "seek", "write"}
      /\ to \notin {"total", "total=", "success", "success=", "trunc"}
      /\ to \in Places \ Owes /\ pc[t] \notin Owes
  BY <1>1 DEF Places, Owes
<1>4. /\ HeadWillBeWhole' /\ LastWriter' /\ PlacesAreUsed'
      /\ WhoIsThere'
      /\ pc' \in [Actor -> Places]
  BY <1>1, <1>2, <1>3, ThreadFrame
<1>5. StatTypeOK'
  BY <1>1, <1>2, <1>4 DEF StatInv, StatTypeOK
<1>6. OwedIsMissing'
  BY <1>1, <1>2, <1>3, OwedKept, ActorFacts
<1>7. CopiesAreOld'
  BY <1>2 DEF StatInv, CopiesAreOld
<1> QED
  BY <1>4, <1>5, <1>6, <1>7 DEF StatInv

-----------------------------------------------------------------------------
(* storage_write_to_stat_file.                                             *)

\* What every step of it keeps: it owes and counts nothing.
LEMMA SaveFrame ==
    ASSUME StatInv, NEW a \in Actor, NEW to \in Places \ Owes,
           pc' = [pc EXCEPT ![a] = to], pc[a] \in {"print", "trunc", "seek", "write", "sync"},
           UNCHANGED <<phase, stat, change, exists, cmd, tmp, requests, served>>,
           NEW v, v \in [Item -> Nat \cup {-1}], buff' = [buff EXCEPT ![a] = v],
           to \in {"trunc", "seek", "write"} => \A i \in Item : v[i] # -1
    PROVE  /\ OwedIsMissing' /\ PlacesAreUsed'
           /\ WhoIsThere'
           /\ pc' \in [Actor -> Places] /\ pc'[a] = to
           /\ \A b \in Actor : b # a => pc'[b] = pc[b] /\ buff'[b] = buff[b]
           /\ buff' \in [Actor -> [Item -> Nat \cup {-1}]] /\ buff'[a] = v
<1>1. pc \in [Actor -> Places] /\ buff \in [Actor -> [Item -> Nat \cup {-1}]]
  BY DEF StatInv, StatTypeOK
<1>2. pc[a] \notin Owes /\ pc[a] # "idle"
  BY DEF Owes
<1>3. OwedIsMissing'
  BY <1>2, OwedKept
<1>4. /\ pc' \in [Actor -> Places] /\ pc'[a] = to
      /\ \A b \in Actor : b # a => pc'[b] = pc[b] /\ buff'[b] = buff[b]
      /\ buff' \in [Actor -> [Item -> Nat \cup {-1}]] /\ buff'[a] = v
  BY <1>1
<1>5. PlacesAreUsed'
  <2>1. \A t \in Thread : pc'[t] \in Owes => pc[t] \in Owes
    BY <1>4, ActorFacts
  <2>2. \A t \in Thread : pc'[t] \in Owes => cmd'[t] # 0
    BY <2>1 DEF StatInv, PlacesAreUsed
  <2>3. \A b \in Actor : pc'[b] \in {"trunc", "seek", "write"} => \A i \in Item : buff'[b][i] # -1
    BY <1>4 DEF StatInv, PlacesAreUsed
  <2> QED
    BY <2>2, <2>3 DEF PlacesAreUsed
<1>6. WhoIsThere'
  BY <1>1, <1>2, <1>4, ActorFacts DEF StatInv, WhoIsThere, Nobody
<1> QED
  BY <1>3, <1>4, <1>5, <1>6 DEF StatInv

\* What is printed is a counter, or it is forgotten; the file stays as it is.
LEMMA BuffFrame ==
    ASSUME StatInv, NEW a \in Actor, NEW v, \A i \in Item : v[i] <= served[i],
           \A b \in Actor : b # a => buff'[b] = buff[b], buff'[a] = v,
           UNCHANGED <<served, file>>
    PROVE  CopiesAreOld'
<1>1. \A b \in Actor, i \in Item : buff'[b][i] <= served'[i]
  BY DEF StatInv, CopiesAreOld
<1> QED
  BY <1>1 DEF StatInv, CopiesAreOld

\* sprintf.
LEMMA PrintItemInv ==
    ASSUME StatInv, NEW a \in Actor, PrintItem(a)
    PROVE  StatInv'
<1>1. PICK i \in Item : /\ buff' = [buff EXCEPT ![a][i] = stat[i]]
                        /\ Goes(a, "print", IF \A j \in Item \ {i} : buff[a][j] # -1
                                            THEN "trunc" ELSE "print")
                        /\ UNCHANGED <<memory, onDisk, cmd, tmp, history>>
  BY DEF PrintItem
<1> DEFINE to == IF \A j \in Item \ {i} : buff[a][j] # -1 THEN "trunc" ELSE "print"
<1> DEFINE v == [buff[a] EXCEPT ![i] = stat[i]]
<1>2. /\ pc[a] = "print" /\ pc' = [pc EXCEPT ![a] = to]
      /\ UNCHANGED <<phase, stat, change, offset, exists, file, cmd, tmp>>
      /\ UNCHANGED <<requests, served, last, overlap, spoilt, uneven>>
  BY <1>1 DEF Goes, memory, onDisk, history
<1>3. buff \in [Actor -> [Item -> Nat \cup {-1}]] /\ stat \in [Item -> Nat] /\ served \in [Item -> Nat]
  BY DEF StatInv, StatTypeOK
<1>4. v \in [Item -> Nat \cup {-1}] /\ buff' = [buff EXCEPT ![a] = v]
  BY <1>1, <1>3
<1>5. to \in {"trunc", "seek", "write"} => \A j \in Item : v[j] # -1
  BY <1>3
<1>6. to \in Places \ Owes /\ to \notin {"seek", "write"}
  BY DEF Places, Owes
<1>7. \A j \in Item : v[j] <= served[j]
  BY <1>3, StatIsServed DEF StatInv, CopiesAreOld
<1> HIDE DEF to, v
<1>8. /\ OwedIsMissing' /\ PlacesAreUsed'
      /\ WhoIsThere'
      /\ pc' \in [Actor -> Places] /\ pc'[a] = to
      /\ \A b \in Actor : b # a => pc'[b] = pc[b] /\ buff'[b] = buff[b]
      /\ buff' \in [Actor -> [Item -> Nat \cup {-1}]] /\ buff'[a] = v
  BY <1>2, <1>4, <1>5, <1>6, SaveFrame
<1>9. StatTypeOK'
  BY <1>2, <1>8 DEF StatInv, StatTypeOK
<1>10. CopiesAreOld'
  BY <1>2, <1>7, <1>8, BuffFrame
<1>11. HeadWillBeWhole' /\ LastWriter'
  <2>1. \A b \in Actor : pc[b] \in {"seek", "write"} \/ pc'[b] \in {"seek", "write"}
                           => pc'[b] = pc[b] /\ buff'[b] = buff[b]
    BY <1>2, <1>6, <1>8
  <2> QED
    BY <1>2, <2>1, FileKept
<1> QED
  BY <1>8, <1>9, <1>10, <1>11 DEF StatInv

\* What is forgotten is not above anything.
LEMMA BlankFacts ==
    ASSUME StatInv
    PROVE  /\ Blank \in [Item -> Nat \cup {-1}]
           /\ \A i \in Item : Blank[i] <= served[i]
BY DEF Blank, StatInv, StatTypeOK

\* fsync, and a failure of ftruncate: the file stays as it is.
LEMMA SyncInv ==
    ASSUME StatInv, NEW a \in Actor, Sync(a) \/ TruncateFails(a)
    PROVE  StatInv'
<1>1. PICK to \in {"failed", "idle", "saved"} :
        /\ pc[a] \in {"sync", "trunc"} /\ pc' = [pc EXCEPT ![a] = to]
        /\ buff' = [buff EXCEPT ![a] = Blank]
        /\ uneven' \in BOOLEAN
  <2>1. uneven \in BOOLEAN /\ TRUE \in BOOLEAN
    BY DEF StatInv, StatTypeOK
  <2>2. CASE TruncateFails(a)
    BY <2>1, <2>2 DEF TruncateFails, Fails
  <2>3. CASE Sync(a)
    BY <2>1, <2>3 DEF Sync, Fails
  <2> QED
    BY <2>2, <2>3
<1>2. /\ UNCHANGED <<phase, stat, change, offset, exists, file, cmd, tmp>>
      /\ UNCHANGED <<requests, served, last, overlap, spoilt>>
  BY DEF Sync, TruncateFails, memory, onDisk
<1>3. to \in Places \ Owes /\ to \notin {"trunc", "seek", "write"}
  BY <1>1 DEF Places, Owes
<1>4. /\ OwedIsMissing' /\ PlacesAreUsed'
      /\ WhoIsThere'
      /\ pc' \in [Actor -> Places] /\ pc'[a] = to
      /\ \A b \in Actor : b # a => pc'[b] = pc[b] /\ buff'[b] = buff[b]
      /\ buff' \in [Actor -> [Item -> Nat \cup {-1}]] /\ buff'[a] = Blank
  BY <1>1, <1>2, <1>3, BlankFacts, SaveFrame
<1>5. StatTypeOK'
  BY <1>1, <1>2, <1>4 DEF StatInv, StatTypeOK
<1>6. CopiesAreOld'
  BY <1>2, <1>4, BlankFacts, BuffFrame
<1>7. HeadWillBeWhole' /\ LastWriter'
  <2>1. \A b \in Actor : pc[b] \in {"seek", "write"} \/ pc'[b] \in {"seek", "write"}
                           => pc'[b] = pc[b] /\ buff'[b] = buff[b]
    BY <1>1, <1>3, <1>4
  <2> QED
    BY <1>2, <2>1, FileKept
<1> QED
  BY <1>4, <1>5, <1>6, <1>7 DEF StatInv

\* ftruncate.  Its thread is the only one in the file, or they overlap.
LEMMA TruncateInv ==
    ASSUME StatInv, NEW a \in Actor, Truncate(a)
    PROVE  StatInv'
<1>1. /\ pc[a] = "trunc" /\ pc' = [pc EXCEPT ![a] = "seek"]
      /\ file' = <<>> /\ last' = buff[a]
      /\ overlap' = ~Alone(a)
      /\ spoilt' = (spoilt /\ ~Alone(a))
      /\ UNCHANGED <<phase, stat, change, offset, exists, cmd, tmp, buff, requests, served, uneven>>
  BY DEF Truncate, Goes, memory
<1>2. /\ buff \in [Actor -> [Item -> Nat \cup {-1}]] /\ buff' = [buff EXCEPT ![a] = buff[a]]
      /\ \A i \in Item : buff[a][i] # -1
  BY <1>1 DEF StatInv, StatTypeOK, PlacesAreUsed
<1>3. "seek" \in Places \ Owes
  BY DEF Places, Owes
<1>4. /\ OwedIsMissing' /\ PlacesAreUsed'
      /\ WhoIsThere'
      /\ pc' \in [Actor -> Places] /\ pc'[a] = "seek"
      /\ \A b \in Actor : b # a => pc'[b] = pc[b] /\ buff'[b] = buff[b]
      /\ buff' \in [Actor -> [Item -> Nat \cup {-1}]] /\ buff'[a] = buff[a]
  BY <1>1, <1>2, <1>3, SaveFrame
<1>5. StatTypeOK'
  <2>1. file' \in Seq([item : {0} \cup Item, val : Nat, end : BOOLEAN])
    BY <1>1
  <2>2. last' \in [Item -> Nat]
    BY <1>1, <1>2
  <2>3. overlap' \in BOOLEAN /\ spoilt' \in BOOLEAN
    BY <1>1, Zenon
  <2>4. uneven' \in BOOLEAN
    BY <1>1 DEF StatInv, StatTypeOK
  <2> QED
    BY <1>1, <1>4, <2>1, <2>2, <2>3, <2>4 DEF StatInv, StatTypeOK
<1>6. CopiesAreOld'
  BY <1>1 DEF StatInv, CopiesAreOld
<1>7. HeadWillBeWhole'
  <2>1. \E b \in Actor : pc'[b] = "seek"
    BY <1>4
  <2>2. ASSUME ~spoilt', exists', NEW b \in Actor, pc'[b] = "write"
        PROVE  offset' = 0 \/ offset' >= 2 * Commands
    <3>1. b # a /\ pc[b] = "write"
      BY <1>4, <2>2
    <3>2. ~Alone(a)
      BY <3>1 DEF Alone
    <3>3. ~spoilt
      BY <1>1, <2>2, <3>2
    <3> QED
      BY <1>1, <2>2, <3>1, <3>3 DEF StatInv, HeadWillBeWhole
  <2> QED
    BY <2>1, <2>2 DEF HeadWillBeWhole
<1>8. LastWriter'
  <2> SUFFICES ASSUME ~overlap'
               PROVE  /\ ~spoilt'
                      /\ \A b \in Writers' : b = a
    BY <1>1, <1>4 DEF LastWriter, Writers
  <2>1. Alone(a)
    BY <1>1
  <2> QED
    BY <1>1, <1>4, <2>1 DEF Alone, Writers
<1> QED
  BY <1>4, <1>5, <1>6, <1>7, <1>8 DEF StatInv

\* lseek.
LEMMA SeekInv ==
    ASSUME StatInv, NEW a \in Actor, Seek(a)
    PROVE  StatInv'
<1>1. /\ pc[a] = "seek" /\ pc' = [pc EXCEPT ![a] = "write"]
      /\ offset' = 0
      /\ UNCHANGED <<phase, stat, change, exists, file, cmd, tmp, buff>>
      /\ UNCHANGED <<requests, served, last, overlap, spoilt, uneven>>
  BY DEF Seek, Goes, onDisk, history
<1>2. /\ buff \in [Actor -> [Item -> Nat \cup {-1}]] /\ buff' = [buff EXCEPT ![a] = buff[a]]
      /\ \A i \in Item : buff[a][i] # -1
  BY <1>1 DEF StatInv, StatTypeOK, PlacesAreUsed
<1>3. "write" \in Places \ Owes
  BY DEF Places, Owes
<1>4. /\ OwedIsMissing' /\ PlacesAreUsed'
      /\ WhoIsThere'
      /\ pc' \in [Actor -> Places] /\ pc'[a] = "write"
      /\ \A b \in Actor : b # a => pc'[b] = pc[b] /\ buff'[b] = buff[b]
      /\ buff' \in [Actor -> [Item -> Nat \cup {-1}]] /\ buff'[a] = buff[a]
  BY <1>1, <1>2, <1>3, SaveFrame
<1>5. StatTypeOK'
  BY <1>1, <1>4 DEF StatInv, StatTypeOK
<1>6. CopiesAreOld'
  BY <1>1 DEF StatInv, CopiesAreOld
<1>7. HeadWillBeWhole'
  BY <1>1, <1>4 DEF HeadWillBeWhole
<1>8. LastWriter'
  <2>1. Writers' = Writers
    BY <1>1, <1>4 DEF Writers
  <2> QED
    BY <1>1, <2>1 DEF StatInv, LastWriter, Lines
<1> QED
  BY <1>4, <1>5, <1>6, <1>7, <1>8 DEF StatInv

\* A write of lines that are not above what was served.
LEMMA OverlayIsOld ==
    ASSUME StatInv, NEW lines \in Seq(FileLine), NEW f, f = Overlay(lines),
           \A j \in 1 .. Len(lines) : lines[j].item # 0 => lines[j].val <= served[lines[j].item]
    PROVE  /\ f \in Seq(FileLine)
           /\ \A j \in DOMAIN f : f[j].item # 0 => f[j].val <= served[f[j].item]
<1>1. offset \in Nat /\ file \in Seq(FileLine)
  BY FileFacts DEF StatInv, StatTypeOK
<1>2. /\ f \in Seq(FileLine)
      /\ \A j \in 1 .. Len(f) :
           f[j] = IF j \in offset + 1 .. offset + Len(lines) THEN lines[j - offset]
                  ELSE IF j <= Len(file) THEN file[j] ELSE Hole
  BY <1>1, OverlayFacts
<1>3. ASSUME NEW j \in DOMAIN f, f[j].item # 0
      PROVE  f[j].val <= served[f[j].item]
  <2>1. j \in 1 .. Len(f) /\ j \in Nat /\ Len(lines) \in Nat
    BY <1>2
  <2>2. CASE j \in offset + 1 .. offset + Len(lines)
    <3>1. f[j] = lines[j - offset] /\ j - offset \in 1 .. Len(lines)
      BY <1>1, <1>2, <2>1, <2>2
    <3> QED
      BY <1>3, <3>1
  <2>3. CASE j \notin offset + 1 .. offset + Len(lines) /\ j <= Len(file)
    <3>1. f[j] = file[j] /\ j \in DOMAIN file
      BY <1>1, <1>2, <2>1, <2>3
    <3> QED
      BY <1>3, <3>1 DEF StatInv, CopiesAreOld
  <2>4. CASE j \notin offset + 1 .. offset + Len(lines) /\ ~(j <= Len(file))
    <3>1. f[j].item = 0
      BY <1>2, <2>1, <2>4 DEF Hole
    <3> QED
      BY <1>3, <3>1
  <2> QED
    BY <2>2, <2>3, <2>4
<1> QED
  BY <1>2, <1>3

\* write.
LEMMA WriteInv ==
    ASSUME StatInv, NEW a \in Actor, Write(a)
    PROVE  StatInv'
<1> DEFINE lines == Lines(buff[a])
<1>1. /\ pc[a] = "write" /\ pc' = [pc EXCEPT ![a] = "sync"]
      /\ file' = Overlay(lines)
      /\ offset' = offset + 2 * Commands
      /\ UNCHANGED <<phase, stat, change, exists, cmd, tmp, buff>>
      /\ UNCHANGED <<requests, served, last, overlap, spoilt, uneven>>
  BY ItemFacts DEF Write, Goes, history
<1>2. /\ buff \in [Actor -> [Item -> Nat \cup {-1}]] /\ buff' = [buff EXCEPT ![a] = buff[a]]
      /\ buff[a] \in [Item -> Nat] /\ \A i \in Item : buff[a][i] # -1
  <2>1. buff[a] \in [Item -> Nat \cup {-1}] /\ \A i \in Item : buff[a][i] # -1
    BY <1>1 DEF StatInv, StatTypeOK, PlacesAreUsed
  <2>2. buff \in [Actor -> [Item -> Nat \cup {-1}]]
    BY DEF StatInv, StatTypeOK
  <2> QED
    BY <1>1, <2>1, <2>2
<1>3. "sync" \in Places \ Owes
  BY DEF Places, Owes
<1>4. /\ OwedIsMissing' /\ PlacesAreUsed'
      /\ WhoIsThere'
      /\ pc' \in [Actor -> Places] /\ pc'[a] = "sync"
      /\ \A b \in Actor : b # a => pc'[b] = pc[b] /\ buff'[b] = buff[b]
      /\ buff' \in [Actor -> [Item -> Nat \cup {-1}]] /\ buff'[a] = buff[a]
  BY <1>1, <1>2, <1>3, SaveFrame
<1>5. /\ lines \in Seq(FileLine) /\ Len(lines) = 2 * Commands
      /\ \A i \in Item : lines[i] = Line(i, buff[a][i])
  BY <1>2, LinesFacts
<1>6. offset \in Nat /\ file \in Seq(FileLine) /\ 2 * Commands \in Nat /\ 2 * Commands >= 1
  BY FileFacts, ItemFacts DEF StatInv, StatTypeOK
<1>7. Item = 1 .. 2 * Commands
  BY DEF Item
<1>8. file' \in Seq(FileLine)
      /\ \A j \in DOMAIN file' : file'[j].item # 0 => file'[j].val <= served[file'[j].item]
  <2>1. \A j \in 1 .. Len(lines) : lines[j].item # 0 => lines[j].val <= served[lines[j].item]
    <3> HIDE DEF lines
    <3> TAKE j \in 1 .. Len(lines)
    <3>1. j \in Item /\ lines[j] = [item |-> j, val |-> buff[a][j], end |-> TRUE]
      BY <1>5, <1>7 DEF Line
    <3>2. buff[a][j] <= served[j]
      BY <3>1 DEF StatInv, CopiesAreOld
    <3> QED
      BY <3>1, <3>2
  <2> HIDE DEF lines
  <2> QED
    BY <1>1, <1>5, <2>1, OverlayIsOld
<1>9. StatTypeOK'
  <2>1. offset' \in Nat
    BY <1>1, <1>6
  <2> QED
    BY <1>1, <1>4, <1>8, <2>1 DEF StatInv, StatTypeOK, FileLine
<1>10. CopiesAreOld'
  BY <1>1, <1>8 DEF StatInv, CopiesAreOld
<1> HIDE DEF lines
<1>11. /\ Len(file') = IF offset + 2 * Commands > Len(file) THEN offset + 2 * Commands ELSE Len(file)
       /\ \A j \in 1 .. Len(file') :
            file'[j] = IF j \in offset + 1 .. offset + 2 * Commands THEN lines[j - offset]
                       ELSE IF j <= Len(file) THEN file[j] ELSE Hole
  BY <1>1, <1>5, <1>6, OverlayFacts
<1>12. HeadWillBeWhole'
  <2> SUFFICES ASSUME exists, ~spoilt
               PROVE  /\ HeadIsWhole' \/ \E b \in Actor : pc'[b] = "seek"
                      /\ offset' >= 2 * Commands
    BY <1>1 DEF HeadWillBeWhole
  <2>1. offset' >= 2 * Commands
    BY <1>1, <1>6
  <2>2. offset = 0 \/ offset >= 2 * Commands
    BY <1>1 DEF StatInv, HeadWillBeWhole
  <2>3. CASE offset = 0
    <3>1. Len(file') >= 2 * Commands
      BY <1>6, <1>11, <2>3
    <3>2. \A i \in Item : file'[i] = lines[i]
      BY <1>6, <1>7, <1>11, <2>3, <3>1
    <3>3. \A i \in Item : file'[i] = [item |-> i, val |-> buff[a][i], end |-> TRUE]
      BY <1>5, <3>2 DEF Line
    <3>4. \A i \in Item : file'[i].item = i /\ file'[i].end
      <4> TAKE i \in Item
      <4>1. file'[i] = [item |-> i, val |-> buff[a][i], end |-> TRUE]
        BY <3>3
      <4>2. file'[i].item = i
        BY <4>1
      <4>3. Line(i, buff[a][i]).end
        BY DEF Line
      <4>4. file'[i].end
        BY <4>1, <4>3, Zenon DEF Line
      <4> QED
        BY <4>2, <4>4
    <3> QED
      BY <2>1, <3>1, <3>4 DEF HeadIsWhole
  <2>4. CASE offset # 0 /\ HeadIsWhole
    <3>1. Len(file') >= 2 * Commands
      BY <1>6, <1>11, <2>2, <2>4
    <3>2. \A i \in Item : file'[i] = file[i]
      <4> TAKE i \in Item
      <4>1. i \in 1 .. Len(file') /\ i \notin offset + 1 .. offset + 2 * Commands
        BY <1>6, <1>7, <2>2, <2>4, <3>1
      <4>2. i <= Len(file)
        BY <1>6, <1>7, <2>4 DEF HeadIsWhole
      <4> QED
        BY <1>11, <4>1, <4>2
    <3> QED
      BY <2>1, <2>4, <3>1, <3>2 DEF HeadIsWhole
  <2>5. CASE \E b \in Actor : pc[b] = "seek"
    BY <1>1, <1>4, <2>1, <2>5
  <2> QED
    BY <2>3, <2>4, <2>5 DEF StatInv, HeadWillBeWhole
<1>13. LastWriter'
  <2> SUFFICES ASSUME exists, ~overlap
               PROVE  Writers' = {} /\ file' = Lines(last)
    BY <1>1 DEF LastWriter, Lines
  <2>1. a \in Writers /\ \A b \in Writers : b = a
    BY <1>1 DEF StatInv, LastWriter, Writers
  <2>2. Writers' = {}
    BY <1>4, <2>1 DEF Writers
  <2>3. file = <<>> /\ last = buff[a] /\ offset = 0
    BY <1>1, <2>1 DEF StatInv, LastWriter
  <2>4. Len(file') = 2 * Commands /\ \A j \in 1 .. Len(file') : file'[j] = lines[j]
    BY <1>6, <1>11, <2>3
  <2>5. file' = lines
    BY <1>5, <1>8, <2>4
  <2> QED
    BY <2>2, <2>3, <2>5 DEF lines
<1> QED
  BY <1>4, <1>9, <1>10, <1>12, <1>13 DEF StatInv

\* A write that ends before its last line, and a failure of lseek.
LEMMA WriteShortInv ==
    ASSUME StatInv, NEW a \in Actor, WriteShort(a) \/ SeekFails(a)
    PROVE  StatInv'
<1> DEFINE to == IF a = "main" THEN "failed" ELSE "idle"
<1>1. /\ pc[a] \in {"seek", "write"} /\ pc' = [pc EXCEPT ![a] = to]
      /\ buff' = [buff EXCEPT ![a] = Blank]
      /\ UNCHANGED <<phase, stat, change, exists, cmd, tmp>>
      /\ UNCHANGED <<requests, served, last, overlap>>
      /\ spoilt' = TRUE /\ uneven' = TRUE
  BY DEF WriteShort, SeekFails, Fails, memory, onDisk
<1>2. to \in Places \ Owes /\ to \notin {"trunc", "seek", "write"}
  BY DEF Places, Owes
<1> HIDE DEF to
<1>3. /\ OwedIsMissing' /\ PlacesAreUsed'
      /\ WhoIsThere'
      /\ pc' \in [Actor -> Places] /\ pc'[a] = to
      /\ \A b \in Actor : b # a => pc'[b] = pc[b] /\ buff'[b] = buff[b]
      /\ buff' \in [Actor -> [Item -> Nat \cup {-1}]] /\ buff'[a] = Blank
  BY <1>1, <1>2, BlankFacts, SaveFrame
<1>4. /\ file' \in Seq(FileLine) /\ offset' \in Nat
      /\ \A j \in DOMAIN file' : file'[j].item # 0 => file'[j].val <= served[file'[j].item]
  <2>1. CASE WriteShort(a)
    <3>0. PICK n \in 0 .. Cardinality(Item) - 1 :
            \E tail \in {<<>>, <<Hole>>} \cup
                 {<<[item |-> n + 1, val |-> x, end |-> FALSE]>> :
                     x \in CutOff(buff[a][n + 1]) \cup {buff[a][n + 1]}} :
              /\ file' = Overlay(SubSeq(Lines(buff[a]), 1, n) \o tail)
              /\ offset' = offset + Len(SubSeq(Lines(buff[a]), 1, n) \o tail)
      BY <2>1 DEF WriteShort
    <3>1. PICK tail \in {<<>>, <<Hole>>} \cup
                 {<<[item |-> n + 1, val |-> x, end |-> FALSE]>> :
                     x \in CutOff(buff[a][n + 1]) \cup {buff[a][n + 1]}} :
            /\ file' = Overlay(SubSeq(Lines(buff[a]), 1, n) \o tail)
            /\ offset' = offset + Len(SubSeq(Lines(buff[a]), 1, n) \o tail)
      BY <3>0
    <3> DEFINE head == SubSeq(Lines(buff[a]), 1, n)
    <3>2. n \in Nat /\ n + 1 \in Item /\ n < 2 * Commands /\ Item = 1 .. 2 * Commands
      BY ItemFacts DEF Item
    <3>3. buff[a] \in [Item -> Nat]
      BY <2>1 DEF WriteShort, StatInv, StatTypeOK, PlacesAreUsed
    <3>4. /\ Lines(buff[a]) \in Seq(FileLine) /\ Len(Lines(buff[a])) = 2 * Commands
          /\ \A i \in Item : Lines(buff[a])[i] = Line(i, buff[a][i])
      BY <3>3, LinesFacts
    <3>5. /\ head \in Seq(FileLine) /\ Len(head) = n
          /\ \A i \in 1 .. n : head[i] = Line(i, buff[a][i])
      BY <3>2, <3>4
    <3>6. /\ tail \in Seq(FileLine) /\ Len(tail) \in {0, 1}
          /\ Len(tail) = 1 /\ tail[1].item # 0 =>
               tail[1].item = n + 1 /\ tail[1].val \in Nat /\ tail[1].val <= buff[a][n + 1]
      <4>1. CASE tail = <<>>
        BY <4>1
      <4>2. CASE tail = <<Hole>>
        <5>1. Hole \in FileLine /\ Hole.item = 0
          BY DEF Hole, FileLine
        <5> QED
          BY <4>2, <5>1
      <4>3. ASSUME NEW x \in CutOff(buff[a][n + 1]) \cup {buff[a][n + 1]},
                   tail = <<[item |-> n + 1, val |-> x, end |-> FALSE]>>
            PROVE  /\ tail \in Seq(FileLine) /\ Len(tail) \in {0, 1}
                   /\ Len(tail) = 1 /\ tail[1].item # 0 =>
                        tail[1].item = n + 1 /\ tail[1].val \in Nat /\ tail[1].val <= buff[a][n + 1]
        <5>1. x \in Nat /\ x <= buff[a][n + 1]
          BY <3>2, <3>3, CutOffFacts
        <5> DEFINE line == [item |-> n + 1, val |-> x, end |-> FALSE]
        <5>2. line \in FileLine /\ line.item = n + 1 /\ line.val = x
          BY <3>2, <5>1 DEF FileLine
        <5> HIDE DEF line
        <5>3. tail = <<line>>
          BY <4>3 DEF line
        <5> QED
          BY <5>1, <5>2, <5>3
      <4> QED
        BY <4>1, <4>2, <4>3
    <3> DEFINE lines == head \o tail
    <3>7. /\ lines \in Seq(FileLine) /\ Len(lines) = n + Len(tail)
          /\ \A i \in 1 .. Len(lines) : lines[i] = IF i <= n THEN head[i] ELSE tail[i - n]
      <4> HIDE DEF head
      <4> QED
        BY <3>2, <3>5, <3>6
    <3>8. file' = Overlay(lines) /\ offset' = offset + Len(lines)
      BY <3>1
    <3> HIDE DEF head, lines
    <3>9. ASSUME NEW i \in 1 .. Len(lines), lines[i].item # 0
          PROVE  lines[i].val <= served[lines[i].item]
      <4>1. CASE i <= n
        <5>1. i \in 1 .. n
          BY <3>2, <3>6, <3>7, <4>1
        <5>2. i \in Item
          BY <3>2, <5>1, ItemFacts
        <5>3. lines[i] = head[i] /\ head[i] = Line(i, buff[a][i])
          BY <3>5, <3>7, <4>1, <5>1
        <5>4. lines[i] = [item |-> i, val |-> buff[a][i], end |-> TRUE]
          BY <5>3 DEF Line
        <5>5. buff[a][i] <= served[i]
          BY <5>2 DEF StatInv, CopiesAreOld
        <5> QED
          BY <5>4, <5>5
      <4>2. CASE ~(i <= n)
        <5>1. i = n + 1 /\ Len(tail) = 1 /\ lines[i] = tail[1]
          BY <3>2, <3>6, <3>7, <4>2
        <5>2. /\ lines[i].item = n + 1 /\ lines[i].val \in Nat
              /\ lines[i].val <= buff[a][n + 1]
          BY <3>6, <3>9, <5>1
        <5>3. buff[a][n + 1] <= served[n + 1]
          BY <3>2 DEF StatInv, CopiesAreOld
        <5>4. buff[a][n + 1] \in Nat /\ served[n + 1] \in Nat
          BY <3>2, <3>3 DEF StatInv, StatTypeOK
        <5> QED
          BY <5>2, <5>3, <5>4
      <4> QED
        BY <4>1, <4>2
    <3>10. offset' \in Nat
      BY <3>7, <3>8, SMTT(30) DEF StatInv, StatTypeOK
    <3> QED
      BY <3>7, <3>8, <3>9, <3>10, OverlayIsOld
  <2>2. CASE SeekFails(a)
    BY <2>2, FileFacts DEF SeekFails, memory, onDisk, StatInv, StatTypeOK, CopiesAreOld
  <2> QED
    BY <2>1, <2>2
<1>5. StatTypeOK'
  BY <1>1, <1>3, <1>4 DEF StatInv, StatTypeOK, FileLine
<1>6. CopiesAreOld'
  <2>1. \A b \in Actor, i \in Item : buff'[b][i] <= served'[i]
    BY <1>1, <1>3, BlankFacts DEF StatInv, CopiesAreOld
  <2> QED
    BY <1>1, <1>4, <2>1 DEF CopiesAreOld
<1>7. HeadWillBeWhole'
  BY <1>1 DEF HeadWillBeWhole
<1>8. LastWriter'
  <2> SUFFICES ASSUME exists, ~overlap
               PROVE  Writers' = {}
    BY <1>1 DEF LastWriter
  <2>1. \A b \in Writers : b = a
    BY <1>1 DEF StatInv, LastWriter, Writers
  <2> QED
    BY <1>2, <1>3, <2>1 DEF Writers
<1> QED
  BY <1>3, <1>5, <1>6, <1>7, <1>8 DEF StatInv

-----------------------------------------------------------------------------
(* main.                                                                   *)

\* A process is gone, and what it owed with it.
LEMMA GoneInv ==
    ASSUME StatInv, Gone, spoilt' \in BOOLEAN,
           UNCHANGED <<exists, file, requests, served, last, overlap, uneven>>,
           \A a \in Actor : pc[a] \in {"seek", "write"} => spoilt',
           spoilt => spoilt'
    PROVE  StatInv'
<1>1. /\ phase' = "down" /\ stat' = Zero /\ change' = 0 /\ offset' = 0 /\ pc' = Nobody
      /\ cmd' = [t \in Thread |-> 0] /\ tmp' = [t \in Thread |-> 0]
      /\ buff' = [a \in Actor |-> Blank]
  BY DEF Gone
<1>2. pc' \in [Actor -> Places] /\ \A a \in Actor : pc'[a] = "idle"
  BY <1>1 DEF Nobody, Places
<1>3. buff' \in [Actor -> [Item -> Nat \cup {-1}]] /\ \A a \in Actor : buff'[a] = Blank
  BY <1>1, BlankFacts
<1>4. /\ cmd' \in [Thread -> 0 .. Commands] /\ tmp' \in [Thread -> Nat]
      /\ stat' \in [Item -> Nat] /\ \A i \in Item : stat'[i] = 0
  BY <1>1, StatAssumption DEF Zero
<1>5. StatTypeOK'
  BY <1>1, <1>2, <1>3, <1>4 DEF StatInv, StatTypeOK
<1>6. WhoIsThere'
  BY <1>1, <1>2, ActorFacts DEF WhoIsThere, Nobody
<1>7. PlacesAreUsed'
  BY <1>2, ActorFacts DEF PlacesAreUsed, Owes
<1>8. OwedIsMissing'
  <2>1. \A t \in Thread : pc'[t] \notin Owes
    BY <1>2, ActorFacts DEF Owes
  <2>2. served' \in [Item -> Nat]
    BY <1>5 DEF StatTypeOK
  <2>3. \A i \in Item : stat'[i] \in Nat /\ served'[i] \in Nat /\ stat'[i] <= served'[i]
    BY <1>4, <2>2
  <2> QED
    BY <2>1, <2>3, NothingIsOwed
<1>9. CopiesAreOld'
  <2>1. \A a \in Actor, i \in Item : buff'[a][i] <= served'[i]
    BY <1>3, BlankFacts
  <2> QED
    BY <2>1 DEF StatInv, CopiesAreOld
<1>10. HeadWillBeWhole'
  <2> SUFFICES ASSUME exists, ~spoilt'
               PROVE  HeadIsWhole'
    BY <1>2 DEF HeadWillBeWhole
  <2>1. HeadIsWhole
    BY DEF StatInv, HeadWillBeWhole
  <2> QED
    BY <2>1 DEF HeadIsWhole
<1>11. LastWriter'
  <2>1. Writers' = {}
    BY <1>2 DEF Writers
  <2>2. ~spoilt' => ~spoilt /\ Writers = {}
    BY DEF Writers
  <2> QED
    BY <2>1, <2>2 DEF StatInv, LastWriter, Lines
<1> QED
  BY <1>6, <1>5, <1>7, <1>8, <1>9, <1>10, <1>11 DEF StatInv

\* storage_open_storage_stat: the counters are those of the file, or zero.
LEMMA OpenedInv ==
    ASSUME StatInv, phase = "down", exists', UNCHANGED file, spoilt' \in BOOLEAN,
           NEW counters \in [Item -> Nat], \A i \in Item : counters[i] <= served[i],
           Opened(counters),
           (exists /\ spoilt' = spoilt) \/ (~exists /\ spoilt')
    PROVE  StatInv'
<1>1. /\ phase' = "starting" /\ stat' = counters /\ change' = 1 /\ offset' = 0
      /\ pc' = [pc EXCEPT !["main"] = "print"] /\ uneven' = FALSE
      /\ UNCHANGED <<cmd, tmp, buff, requests, served, last, overlap>>
  BY DEF Opened
<1>2. pc = Nobody /\ \A a \in Actor : pc[a] = "idle"
  BY DEF StatInv, WhoIsThere, Nobody
<1>3. /\ pc' \in [Actor -> Places] /\ \A t \in Thread : pc'[t] = "idle"
      /\ \A a \in Actor : pc'[a] \in {"idle", "print"}
  BY <1>1, <1>2, ActorFacts DEF Nobody, Places
<1>4. StatTypeOK'
  <2>1. exists' \in BOOLEAN
    BY DEF StatInv, StatTypeOK
  <2>2. change' \in Nat /\ offset' \in Nat /\ stat' \in [Item -> Nat]
    BY <1>1
  <2> QED
    BY <1>1, <1>3, <2>1, <2>2 DEF StatInv, StatTypeOK
<1>5. PlacesAreUsed'
  BY <1>3 DEF PlacesAreUsed, Owes
<1>6. OwedIsMissing'
  <2>1. \A t \in Thread : pc'[t] \notin Owes
    BY <1>3 DEF Owes
  <2>2. \A i \in Item : stat'[i] \in Nat /\ served'[i] \in Nat /\ stat'[i] <= served'[i]
    BY <1>1, <1>4 DEF StatTypeOK
  <2> QED
    BY <2>1, <2>2, NothingIsOwed
<1>7. CopiesAreOld'
  BY <1>1 DEF StatInv, CopiesAreOld
<1>8. HeadWillBeWhole'
  <2> SUFFICES ASSUME ~spoilt'
               PROVE  HeadIsWhole'
    BY <1>3 DEF HeadWillBeWhole
  <2>1. HeadIsWhole
    BY <1>2 DEF StatInv, HeadWillBeWhole
  <2> QED
    BY <2>1 DEF HeadIsWhole
<1>9. LastWriter'
  <2>1. Writers = {} /\ Writers' = {}
    BY <1>2, <1>3 DEF Writers
  <2> QED
    BY <1>1, <2>1 DEF StatInv, LastWriter, Lines
<1>10. WhoIsThere'
  BY <1>1, <1>3 DEF WhoIsThere
<1> QED
  BY <1>4, <1>5, <1>6, <1>7, <1>8, <1>9, <1>10 DEF StatInv

LEMMA OpenInv ==
    ASSUME StatInv, OpenLoads \/ OpenCreates
    PROVE  StatInv'
<1>1. spoilt \in BOOLEAN /\ TRUE \in BOOLEAN /\ served \in [Item -> Nat]
  BY DEF StatInv, StatTypeOK
<1>2. CASE OpenLoads
  <2>1. PICK counters \in [Item -> UNION {ValuesOf(i) : i \in Item}] :
          /\ \A i \in Item : counters[i] \in ValuesOf(i)
          /\ Opened(counters)
    BY <1>2 DEF OpenLoads
  <2>2. counters \in [Item -> Nat] /\ \A i \in Item : counters[i] <= served[i]
    BY <2>1, LoadedIsServed
  <2>3. phase = "down" /\ exists /\ UNCHANGED <<exists, file, spoilt>>
    BY <1>2 DEF OpenLoads, onDisk
  <2>4. exists' /\ spoilt' \in BOOLEAN /\ UNCHANGED file
    BY <1>1, <2>3, Zenon
  <2>5. (exists /\ spoilt' = spoilt) \/ (~exists /\ spoilt')
    BY <2>3
  <2>6. Opened(counters)
    BY <2>1
  <2> QED
    BY <2>2, <2>3, <2>4, <2>5, <2>6, OpenedInv
<1>3. CASE OpenCreates
  <2>1. Zero \in [Item -> Nat] /\ \A i \in Item : Zero[i] <= served[i]
    BY <1>1 DEF Zero
  <2>2. /\ phase = "down" /\ ~exists /\ UNCHANGED file
        /\ exists' = TRUE /\ spoilt' = TRUE /\ Opened(Zero)
    BY <1>3 DEF OpenCreates
  <2>3. exists' /\ spoilt' /\ spoilt' \in BOOLEAN
    BY <1>1, <2>2
  <2> QED
    BY <2>1, <2>2, <2>3, OpenedInv
<1> QED
  BY <1>2, <1>3

\* The other steps of main, and the end of the process at any time.
LEMMA MainInv ==
    ASSUME StatInv, CloseBegins \/ MainSaved \/ MainFailed \/ Crash
    PROVE  StatInv'
<1>1. spoilt \in BOOLEAN /\ pc \in [Actor -> Places]
  BY DEF StatInv, StatTypeOK
<1>2. ASSUME Gone, UNCHANGED <<onDisk, history>>, phase # "serving", pc["main"] \in {"saved", "failed"}
      PROVE  StatInv'
  <2>1. \A a \in Actor : pc[a] \notin {"seek", "write"}
    BY <1>2 DEF StatInv, WhoIsThere, Actor
  <2>2. UNCHANGED <<exists, file, requests, served, last, overlap, spoilt, uneven>>
    BY <1>2 DEF onDisk, history
  <2> QED
    BY <1>1, <1>2, <2>1, <2>2, GoneInv
<1>3. ASSUME UNCHANGED <<stat, change, offset, exists, file, cmd, tmp, buff>>,
             UNCHANGED <<requests, served, last, overlap, spoilt, uneven>>,
             NEW to \in {"print", "idle"}, pc' = [pc EXCEPT !["main"] = to],
             pc["main"] \in {"idle", "saved"}, \A t \in Thread : pc[t] = "idle",
             phase # "down", phase' \in {"serving", "stopping"},
             phase' = "serving" => to = "idle"
      PROVE  StatInv'
  <2>1. /\ pc' \in [Actor -> Places] /\ pc'["main"] = to
        /\ \A t \in Thread : pc'[t] = "idle"
    BY <1>1, <1>3, ActorFacts DEF Places
  <2>2. \A a \in Actor : pc[a] \notin {"trunc", "seek", "write"}
                         /\ pc'[a] \notin {"trunc", "seek", "write"}
    BY <1>3, <2>1 DEF Actor
  <2>3. HeadWillBeWhole' /\ LastWriter'
    BY <1>3, <2>2, FileKept
  <2>4. StatTypeOK'
    BY <1>3, <2>1 DEF StatInv, StatTypeOK
  <2>5. WhoIsThere'
    BY <1>3, <2>1 DEF StatInv, WhoIsThere
  <2>6. PlacesAreUsed'
    BY <2>1, <2>2 DEF PlacesAreUsed, Owes
  <2>7. OwedIsMissing'
    <3>1. \A t \in Thread : pc'[t] \notin Owes
      BY <2>1 DEF Owes
    <3>2. \A i \in Item : stat'[i] \in Nat /\ served'[i] \in Nat /\ stat'[i] <= served'[i]
      BY <1>3, <2>4, StatIsServed DEF StatTypeOK
    <3> QED
      BY <3>1, <3>2, NothingIsOwed
  <2>8. CopiesAreOld'
    BY <1>3 DEF StatInv, CopiesAreOld
  <2> QED
    BY <2>3, <2>4, <2>5, <2>6, <2>7, <2>8 DEF StatInv
<1>4. CASE CloseBegins
  <2>1. pc["main"] = "idle" /\ \A t \in Thread : pc[t] = "idle"
    BY <1>4, ActorFacts DEF CloseBegins, Nobody
  <2> QED
    BY <1>3, <1>4, <2>1 DEF CloseBegins, onDisk, history
<1>5. CASE MainSaved
  <2>1. CASE phase = "stopping" /\ Gone
    BY <1>2, <1>5, <2>1 DEF MainSaved
  <2>2. CASE /\ phase = "starting" /\ phase' = "serving" /\ pc' = Nobody
             /\ UNCHANGED <<stat, change, offset, cmd, tmp, buff>>
    <3>1. \A t \in Thread : pc[t] = "idle"
      BY <2>2 DEF StatInv, WhoIsThere
    <3>2. Nobody = [pc EXCEPT !["main"] = "idle"]
      BY <1>1, <3>1 DEF Nobody, Actor
    <3> QED
      BY <1>3, <1>5, <2>2, <3>1, <3>2 DEF MainSaved, onDisk, history
  <2> QED
    BY <1>5, <2>1, <2>2 DEF MainSaved
<1>6. CASE MainFailed
  BY <1>2, <1>6 DEF MainFailed, StatInv, WhoIsThere
<1>7. CASE Crash
  <2>1. spoilt' \in BOOLEAN
    BY <1>7, Zenon DEF Crash
  <2>2. spoilt' = (spoilt \/ \E a \in Actor : pc[a] \in {"seek", "write"})
    BY <1>7 DEF Crash
  <2>3. UNCHANGED <<exists, file, requests, served, last, overlap, uneven>> /\ Gone
    BY <1>7 DEF Crash, onDisk
  <2> QED
    BY <2>1, <2>2, <2>3, GoneInv
<1> QED
  BY <1>4, <1>5, <1>6, <1>7

-----------------------------------------------------------------------------
(* What is lost when one request at a time is served.                      *)

\* Counting modulo Freq: the next number is one more, or it is a multiple.
LEMMA Modulo ==
    ASSUME NEW m \in Nat
    PROVE  /\ m % Freq \in Nat /\ m % Freq < Freq
           /\ (m + 1) % Freq # 0 => (m + 1) % Freq = (m % Freq) + 1
<1> DEFINE q == m \div Freq
           r == m % Freq
<1>1. r \in 0 .. Freq - 1 /\ q \in Int /\ Freq \in Nat \ {0}
  BY StatAssumption
<1>2. m = Freq * q + r
  BY StatAssumption
<1>3. ASSUME NEW p \in Int, NEW s \in 0 .. Freq - 1 PROVE (Freq * p + s) % Freq = s
  BY StatAssumption
<1> HIDE DEF q, r
<1>4. CASE r + 1 = Freq
  <2>1. m + 1 = Freq * (q + 1) + 0
    BY <1>1, <1>2, <1>4
  <2>2. q + 1 \in Int /\ 0 \in 0 .. Freq - 1
    BY <1>1
  <2>3. (m + 1) % Freq = 0
    BY <1>3, <2>1, <2>2
  <2> QED
    BY <1>1, <2>3 DEF r
<1>5. CASE r + 1 # Freq
  <2>1. m + 1 = Freq * q + (r + 1) /\ r + 1 \in 0 .. Freq - 1
    BY <1>1, <1>2, <1>5
  <2>2. (m + 1) % Freq = r + 1
    BY <1>1, <1>3, <2>1
  <2> QED
    BY <1>1, <2>2 DEF r
<1> QED
  BY <1>4, <1>5

\* The counters of successes are counters.
LEMMA SucceededFacts ==
    /\ \A i \in Succeeded : i \in Item
    /\ \A k, l \in 1 .. Commands : Success(k) \in Succeeded /\ Total(k) \notin Succeeded
                                     /\ (Success(k) = Success(l) => k = l)
<1>1. \A k, l \in 1 .. Commands : Total(k) # Success(l) /\ (Success(k) = Success(l) => k = l)
  BY StatAssumption DEF Total, Success
<1> QED
  BY <1>1, ItemFacts DEF Succeeded

\* What has just been saved is not behind.
LEMMA NothingIsAhead ==
    ASSUME StatInv, last = stat
    PROVE  Ahead(change % Freq)
<1>1. change % Freq \in Nat
  BY Modulo DEF StatInv, StatTypeOK
<1>2. \A i \in Succeeded : stat[i] \in Nat
  BY SucceededFacts DEF StatInv, StatTypeOK
<1> QED
  BY <1>1, <1>2 DEF Ahead

\* A step of one actor that prints, is still printing or has nothing printed.
LEMMA StaysBlank ==
    ASSUME StatInv, LossInv, NEW a \in Actor,
           \A b \in Actor : b # a => pc'[b] = pc[b] /\ buff'[b] = buff[b],
           \/ pc'[a] \in {"print", "trunc", "seek", "write", "sync"}
           \/ buff'[a] = Blank
           \/ pc[a] \notin {"print", "trunc", "seek", "write", "sync"} /\ buff'[a] = buff[a]
    PROVE  BlankBetween'
BY DEF LossInv, BlankBetween, Blank

\* A process that still serves one request at a time: nobody but t is busy.
LEMMA OneIsBusy ==
    ASSUME StatInv, LossInv, NEW t \in Thread, pc[t] # "idle", ~uneven
    PROVE  /\ phase = "serving" /\ ~overlap
           /\ \A a \in Actor : a # t => pc[a] = "idle"
           /\ Copying(t) /\ AheadByChanges(t)
<1>1. phase = "serving" /\ pc["main"] = "idle"
  BY DEF StatInv, WhoIsThere
<1>2. t \in Busy /\ \A u \in Thread : pc[u] # "idle" => u \in Busy
  BY DEF Busy
<1>3. \A u \in Thread : u # t => pc[u] = "idle"
  BY <1>1, <1>2 DEF LossInv
<1> QED
  BY <1>1, <1>2, <1>3 DEF LossInv, Actor

\* It goes on to serve that one.
LEMMA OneGoesOn ==
    ASSUME phase' = "serving", NEW t \in Thread, BlankBetween',
           ~uneven' => /\ \A u \in Thread : u # t => pc'[u] = "idle"
                       /\ ~overlap'
                       /\ IF pc'[t] = "idle" THEN Ahead(change % Freq)'
                          ELSE Copying(t)' /\ AheadByChanges(t)'
    PROVE  LossInv'
<1>1. ASSUME ~uneven' PROVE Busy' \subseteq {t} /\ (pc'[t] = "idle" => Busy' = {})
                            /\ (pc'[t] # "idle" => Busy' = {t})
  BY <1>1 DEF Busy
<1> QED
  BY <1>1 DEF LossInv

\* A thread receives a request: nobody else was busy, or it is noted.
LEMMA RequestLoss ==
    ASSUME StatInv, LossInv, NEW t \in Thread, NEW k \in 0 .. Commands, Request(t, k)
    PROVE  LossInv'
<1>1. /\ phase' = "serving" /\ phase = "serving" /\ uneven' = (uneven \/ Busy # {})
      /\ pc' = [pc EXCEPT ![t] = IF k = 0 THEN "serve" ELSE "total"]
      /\ UNCHANGED <<stat, change, last, overlap, buff>> /\ pc[t] = "idle"
  BY DEF Request, Goes, memory
<1>2. pc \in [Actor -> Places] /\ t \in Actor
  BY ActorFacts DEF StatInv, StatTypeOK
<1>6. BlankBetween'
  BY <1>1, <1>2, StaysBlank
<1>3. ASSUME ~uneven'
      PROVE  /\ \A u \in Thread : u # t => pc'[u] = "idle"
             /\ ~overlap' /\ Ahead(change % Freq)'
  <2>1. ~uneven /\ Busy = {}
    BY <1>1, <1>3
  <2>2. ~overlap /\ Ahead(change % Freq)
    BY <1>1, <2>1 DEF LossInv
  <2>3. \A u \in Thread : pc[u] = "idle"
    BY <2>1 DEF Busy
  <2> QED
    BY <1>1, <1>2, <2>2, <2>3 DEF Ahead
<1>4. pc'[t] \in {"serve", "total"}
  BY <1>1, <1>2
<1>5. Copying(t)' /\ (Ahead(change % Freq)' => AheadByChanges(t)')
  BY <1>4 DEF Copying, AheadByChanges
<1> QED
  BY <1>1, <1>3, <1>4, <1>5, <1>6, OneGoesOn

\* What a step of a busy thread leaves alone.
LEMMA BusyFrame ==
    ASSUME StatInv, LossInv, NEW t \in Thread, pc[t] # "idle", ~uneven,
           NEW to, pc' = [pc EXCEPT ![t] = to]
    PROVE  /\ pc'[t] = to
           /\ \A u \in Thread : u # t => pc'[u] = "idle"
<1>1. pc \in [Actor -> Places] /\ t \in Actor
  BY ActorFacts DEF StatInv, StatTypeOK
<1> QED
  BY <1>1, OneIsBusy, ActorFacts

\* The counters: a success puts one of them ahead by one more, and it is also
\* the change the thread has still to count.
LEMMA CounterLoss ==
    ASSUME StatInv, LossInv, NEW t \in Thread, LoadCounter(t) \/ StoreCounter(t) \/ Serve(t)
    PROVE  LossInv'
<1>1. PICK to \in {"total=", "success=", "serve", "change", "success", "idle"} :
        /\ pc[t] \in {"total", "total=", "success", "success=", "serve"}
        /\ pc' = [pc EXCEPT ![t] = to]
        /\ to = "change" => (pc[t] = "success=" /\ StoreCounter(t)) \/ pc[t] = "serve"
        /\ to = "serve" => pc[t] = "total=" /\ StoreCounter(t)
        /\ to \in {"total=", "success="} => LoadCounter(t)
        /\ to \in {"success", "idle"} => Serve(t)
        /\ to = "success=" => pc[t] = "success"
        /\ to = "total=" => pc[t] = "total"
        /\ pc[t] = "serve" <=> Serve(t)
  BY DEF LoadCounter, StoreCounter, Serve, Goes
<1>2. UNCHANGED <<phase, change, last, overlap, uneven, cmd, buff>>
  BY DEF LoadCounter, StoreCounter, Serve, memory, onDisk, history
<1>3. phase = "serving"
  BY <1>1 DEF StatInv, WhoIsThere
<1>10. BlankBetween'
  <2>1. t \in Actor /\ \A b \in Actor : b # t => pc'[b] = pc[b]
    BY <1>1, ActorFacts DEF StatInv, StatTypeOK
  <2> QED
    BY <1>1, <1>2, <2>1, StaysBlank
<1> SUFFICES ASSUME ~uneven
             PROVE  /\ \A u \in Thread : u # t => pc'[u] = "idle"
                    /\ ~overlap'
                    /\ IF pc'[t] = "idle" THEN Ahead(change % Freq)'
                       ELSE Copying(t)' /\ AheadByChanges(t)'
  BY <1>2, <1>3, <1>10, OneGoesOn
<1>4. /\ pc'[t] = to
      /\ \A u \in Thread : u # t => pc'[u] = "idle"
  BY <1>1, BusyFrame
<1>5. ~overlap /\ Ahead(change % Freq) /\ AheadByChanges(t)
  BY <1>1, OneIsBusy DEF AheadByChanges
<1>6. stat \in [Item -> Nat] /\ last \in [Item -> Nat] /\ change % Freq \in Nat
      /\ t \in Thread /\ cmd \in [Thread -> 0 .. Commands] /\ tmp \in [Thread -> Nat]
  BY Modulo DEF StatInv, StatTypeOK
<1>7. Copying(t)'
  BY <1>1, <1>4 DEF Copying
<1>8. CASE UNCHANGED stat
  <2>1. Ahead(change % Freq)'
    BY <1>2, <1>5, <1>8 DEF Ahead
  <2>2. \A i \in Succeeded : stat[i] \in Nat /\ last[i] \in Nat
    BY <1>6, SucceededFacts
  <2>3. Ahead((change % Freq) + 1)'
    BY <1>2, <1>6, <1>8, <2>1, <2>2 DEF Ahead
  <2>4. to = "success=" => tmp'[t] = stat'[Success(cmd'[t])]
    <3> SUFFICES ASSUME to = "success=" PROVE tmp'[t] = stat'[Success(cmd'[t])]
      OBVIOUS
    <3>1. LoadCounter(t) /\ pc[t] = "success"
      BY <1>1
    <3>2. Counter(t) = Success(cmd[t])
      BY <3>1 DEF Counter
    <3> QED
      BY <1>2, <1>6, <1>8, <3>1, <3>2 DEF LoadCounter
  <2> QED
    BY <1>1, <1>2, <1>4, <1>5, <1>7, <2>1, <2>3, <2>4 DEF AheadByChanges
<1>9. CASE StoreCounter(t)
  <2> DEFINE c == Counter(t)
  <2>1. c \in Item /\ cmd[t] \in 1 .. Commands
    <3>1. pc[t] \in Owes
      BY <1>9 DEF StoreCounter, Goes, Owes
    <3>2. cmd[t] # 0 /\ cmd[t] \in 0 .. Commands
      BY <1>6, <3>1 DEF StatInv, PlacesAreUsed
    <3>3. Counter(t) \in Item
      BY <3>1, CounterIsItem
    <3> QED
      BY <3>2, <3>3, StatAssumption
  <2>2. stat' = [stat EXCEPT ![c] = tmp[t] + 1]
    BY <1>9 DEF StoreCounter
  <2>3. CASE pc[t] = "total="
    <3>1. c \notin Succeeded
      BY <2>1, <2>3, SucceededFacts DEF Counter
    <3>2. \A i \in Succeeded : stat'[i] = stat[i]
      BY <1>6, <2>2, <3>1, SucceededFacts
    <3>3. Ahead(change % Freq)'
      BY <1>2, <1>5, <3>2 DEF Ahead
    <3>4. to = "serve"
      BY <1>1, <1>4, <1>9, <2>3 DEF StoreCounter, Goes, StatInv, StatTypeOK, Actor
    <3> QED
      BY <1>2, <1>4, <1>5, <1>7, <3>3, <3>4 DEF AheadByChanges
  <2>4. CASE pc[t] = "success="
    <3>1. c = Success(cmd[t]) /\ tmp[t] = stat[c]
      BY <1>5, <2>4 DEF Counter, AheadByChanges
    <3>2. stat'[c] = stat[c] + 1 /\ \A i \in Item : i # c => stat'[i] = stat[i]
      BY <1>6, <2>1, <2>2, <3>1
    <3>3. \A i \in Succeeded : stat'[i] <= stat[i] + 1 /\ stat[i] \in Nat /\ last[i] \in Nat /\ stat'[i] \in Nat
      BY <1>6, <2>1, <3>2, SucceededFacts
    <3>4. Ahead((change % Freq) + 1)'
      BY <1>2, <1>5, <1>6, <3>3 DEF Ahead
    <3>5. to = "change"
      BY <1>1, <1>4, <1>9, <2>4 DEF StoreCounter, Goes, StatInv, StatTypeOK, Actor
    <3> QED
      BY <1>2, <1>4, <1>5, <1>7, <3>4, <3>5 DEF AheadByChanges
  <2> QED
    BY <1>9, <2>3, <2>4 DEF StoreCounter, Goes
<1> QED
  BY <1>8, <1>9 DEF LoadCounter, Serve, memory

\* CHECK_AND_WRITE_TO_STAT_FILE: the change is counted, and the counters are as
\* many ahead as there were changes since the last multiple of Freq.
LEMMA ChangeLoss ==
    ASSUME StatInv, LossInv, NEW t \in Thread, LoadChange(t) \/ StoreChange(t) \/ TestChange(t)
    PROVE  LossInv'
<1>1. /\ pc[t] \in {"change", "change=", "test"}
      /\ UNCHANGED <<phase, stat, last, overlap, uneven, cmd, buff>>
  BY DEF LoadChange, StoreChange, TestChange, Goes, memory, onDisk, history
<1>2. phase = "serving"
  BY <1>1 DEF StatInv, WhoIsThere
<1>8. t \in Actor /\ buff[t] = Blank
  BY <1>1, ActorFacts DEF LossInv, BlankBetween
<1>9. BlankBetween'
  <2>1. \A b \in Actor : b # t => pc'[b] = pc[b]
    BY <1>8 DEF StatInv, StatTypeOK, LoadChange, StoreChange, TestChange, Goes
  <2> QED
    BY <1>1, <1>8, <2>1, StaysBlank
<1> SUFFICES ASSUME ~uneven
             PROVE  /\ \A u \in Thread : u # t => pc'[u] = "idle"
                    /\ ~overlap'
                    /\ IF pc'[t] = "idle" THEN Ahead(change % Freq)'
                       ELSE Copying(t)' /\ AheadByChanges(t)'
  BY <1>1, <1>2, <1>9, OneGoesOn
<1>3. ~overlap /\ AheadByChanges(t) /\ Copying(t)
  BY <1>1, OneIsBusy
<1>4. change \in Nat /\ tmp \in [Thread -> Nat] /\ buff \in [Actor -> [Item -> Nat \cup {-1}]]
  BY DEF StatInv, StatTypeOK
<1>5. CASE LoadChange(t)
  <2>1. pc[t] = "change" /\ pc' = [pc EXCEPT ![t] = "change="] /\ tmp'[t] = change /\ change' = change
    BY <1>4, <1>5 DEF LoadChange, Goes, memory
  <2>2. pc'[t] = "change=" /\ \A u \in Thread : u # t => pc'[u] = "idle"
    BY <1>1, <2>1, BusyFrame
  <2>3. Ahead((change % Freq) + 1)'
    BY <1>1, <1>3, <2>1 DEF AheadByChanges, Ahead
  <2> QED
    BY <1>1, <1>3, <2>1, <2>2, <2>3 DEF AheadByChanges, Copying
<1>6. CASE StoreChange(t)
  <2>1. pc[t] = "change=" /\ pc' = [pc EXCEPT ![t] = "test"] /\ change' = tmp[t] + 1
    BY <1>6 DEF StoreChange, Goes
  <2>2. pc'[t] = "test" /\ \A u \in Thread : u # t => pc'[u] = "idle"
    BY <1>1, <2>1, BusyFrame
  <2>3. change' = change + 1 /\ change' - 1 = change /\ change' > 0
    BY <1>3, <1>4, <2>1 DEF AheadByChanges
  <2>4. Ahead(((change - 1) % Freq) + 1)'
    BY <1>1, <1>3, <2>1, <2>3 DEF AheadByChanges, Ahead
  <2>5. tmp'[t] = change'
    BY <1>4, <1>6, <2>1 DEF StoreChange
  <2> QED
    BY <1>1, <1>3, <2>2, <2>3, <2>4, <2>5 DEF AheadByChanges, Copying
<1>7. CASE TestChange(t)
  <2> DEFINE to == IF change % Freq = 0 THEN "print" ELSE "idle"
  <2>0. pc[t] = "test" /\ tmp[t] = change
    BY <1>3, <1>7 DEF TestChange, Goes, AheadByChanges
  <2>1. pc[t] = "test" /\ pc' = [pc EXCEPT ![t] = to] /\ change' = change
    BY <1>7, <2>0 DEF TestChange, Goes, memory
  <2>2. pc'[t] = to /\ \A u \in Thread : u # t => pc'[u] = "idle"
    BY <1>1, <2>1, BusyFrame
  <2>3. change - 1 \in Nat /\ change - 1 + 1 = change /\ Ahead(((change - 1) % Freq) + 1)
    BY <1>3, <1>4, <2>1 DEF AheadByChanges
  <2>4. ASSUME change % Freq # 0
        PROVE  Ahead(change % Freq)'
    <3>1. change % Freq = ((change - 1) % Freq) + 1
      BY <2>3, <2>4, Modulo
    <3> QED
      BY <1>1, <2>1, <2>3, <3>1 DEF Ahead
  <2>5. CASE change % Freq # 0
    BY <1>1, <1>3, <2>2, <2>4, <2>5
  <2>6. CASE change % Freq = 0
    <3>1. pc'[t] = "print"
      BY <2>2, <2>6
    <3>2. \A i \in Item : buff'[t][i] \in {-1, stat'[i]}
      BY <1>1, <1>8, <2>1 DEF Blank
    <3> QED
      BY <1>1, <1>3, <2>2, <3>1, <3>2 DEF AheadByChanges, Copying
  <2> QED
    BY <2>5, <2>6
<1> QED
  BY <1>5, <1>6, <1>7

\* A saver that meets nobody: what it prints is what the counters still are, and
\* what it writes is what was saved last.
LEMMA CopyingGoesOn ==
    ASSUME StatInv, NEW a \in Actor, Copying(a), \A b \in Actor : b # a => pc[b] = "idle",
           PrintItem(a) \/ Truncate(a) \/ Seek(a) \/ Write(a) \/ (Sync(a) /\ uneven' = uneven)
    PROVE  /\ Copying(a)'
           /\ pc[a] \in {"seek", "write", "sync"} => last' = stat' /\ ~overlap'
           /\ pc'[a] \in {"seek", "write", "sync", "saved"} => last' = stat'
           /\ pc[a] = "trunc" => ~overlap'
           /\ pc[a] # "trunc" => overlap' = overlap
<1>1. /\ pc \in [Actor -> Places] /\ stat \in [Item -> Nat]
      /\ buff \in [Actor -> [Item -> Nat \cup {-1}]]
  BY DEF StatInv, StatTypeOK
<1>2. CASE PrintItem(a)
  <2>1. PICK i \in Item : /\ buff' = [buff EXCEPT ![a][i] = stat[i]]
                          /\ Goes(a, "print", IF \A j \in Item \ {i} : buff[a][j] # -1
                                              THEN "trunc" ELSE "print")
                          /\ UNCHANGED <<memory, onDisk, cmd, tmp, history>>
    BY <1>2 DEF PrintItem
  <2>2. /\ pc[a] = "print" /\ stat' = stat /\ overlap' = overlap
        /\ buff'[a] = [buff[a] EXCEPT ![i] = stat[i]]
        /\ pc'[a] = IF \A j \in Item \ {i} : buff[a][j] # -1 THEN "trunc" ELSE "print"
    BY <1>1, <2>1 DEF Goes, memory, history
  <2>3. \A j \in Item : buff[a][j] \in {-1, stat[j]}
    BY <2>2 DEF Copying
  <2>4. \A j \in Item : buff'[a][j] \in {-1, stat[j]} /\ (j # i => buff'[a][j] = buff[a][j])
    BY <1>1, <2>2, <2>3
  <2>5. ASSUME pc'[a] = "trunc" PROVE buff'[a] = stat
    <3>1. \A j \in Item \ {i} : buff[a][j] = stat[j]
      BY <2>2, <2>3, <2>5
    <3>2. \A j \in Item : buff'[a][j] = stat[j]
      BY <1>1, <2>2, <3>1
    <3>3. buff'[a] \in [Item -> Nat \cup {-1}]
      BY <1>1, <2>2
    <3> QED
      BY <1>1, <3>2, <3>3
  <2> QED
    BY <2>2, <2>4, <2>5 DEF Copying
<1>3. CASE Truncate(a)
  <2>1. /\ pc[a] = "trunc" /\ pc'[a] = "seek" /\ last' = buff[a] /\ stat' = stat
        /\ overlap' = ~Alone(a)
    BY <1>1, <1>3 DEF Truncate, Goes, memory
  <2>2. Alone(a)
    BY DEF Alone
  <2> QED
    BY <2>1, <2>2 DEF Copying
<1>4. CASE Seek(a) \/ Write(a) \/ (Sync(a) /\ uneven' = uneven)
  <2>1. /\ pc[a] \in {"seek", "write", "sync"} /\ pc'[a] \in {"write", "sync", "saved", "idle", "failed"}
        /\ UNCHANGED <<stat, last, overlap>>
    BY <1>1, <1>4 DEF Seek, Write, Sync, Fails, Goes, memory, history
  <2> QED
    BY <2>1 DEF Copying
<1> QED
  BY <1>2, <1>3, <1>4

LEMMA SaveLoss ==
    ASSUME StatInv, LossInv, NEW a \in Actor, Save(a)
    PROVE  LossInv'
<1>1. /\ pc[a] \in {"print", "trunc", "seek", "write", "sync"}
      /\ UNCHANGED <<phase, stat, change>>
  BY DEF Save, PrintItem, Truncate, TruncateFails, Seek, SeekFails, Write, WriteShort, Sync,
         Goes, memory
<1>2. pc \in [Actor -> Places] /\ buff \in [Actor -> [Item -> Nat \cup {-1}]]
  BY DEF StatInv, StatTypeOK
<1>3. BlankBetween'
  <2>1. /\ \A b \in Actor : b # a => pc'[b] = pc[b] /\ buff'[b] = buff[b]
        /\ pc'[a] \in {"print", "trunc", "seek", "write", "sync"} \/ buff'[a] = Blank
    <3>1. CASE PrintItem(a)
      BY <1>2, <3>1 DEF PrintItem, Goes
    <3>2. CASE Truncate(a) \/ Seek(a) \/ Write(a)
      BY <1>2, <3>2 DEF Truncate, Seek, Write, Goes
    <3>3. CASE TruncateFails(a) \/ SeekFails(a) \/ WriteShort(a) \/ Sync(a)
      BY <1>2, <3>3 DEF TruncateFails, SeekFails, WriteShort, Sync, Fails
    <3> QED
      BY <3>1, <3>2, <3>3 DEF Save
  <2> QED
    BY <2>1, StaysBlank
<1>4. phase \in {"starting", "serving", "stopping"}
  BY <1>1, ActorFacts DEF StatInv, StatTypeOK, WhoIsThere, Nobody
<1>5. /\ phase # "serving" => a = "main" /\ \A b \in Actor : b # a => pc[b] = "idle"
      /\ phase = "serving" => a \in Thread
  BY <1>1, ActorFacts DEF StatInv, WhoIsThere, Actor
<1>6. CASE Fails(a)
  <2>1. uneven' /\ (a = "main" => pc'[a] = "failed")
    BY <1>2, <1>6 DEF Fails
  <2>2. phase' = "starting" => Copying("main")'
    BY <1>1, <1>5, <2>1 DEF Copying
  <2> QED
    BY <1>3, <2>1, <2>2 DEF LossInv
<1>7. CASE PrintItem(a) \/ Truncate(a) \/ Seek(a) \/ Write(a) \/ (Sync(a) /\ uneven' = uneven)
  <2>1. CASE phase # "serving"
    <3>1. phase = "starting" => Copying("main")'
      BY <1>5, <1>7, <2>1, CopyingGoesOn DEF LossInv
    <3> QED
      BY <1>1, <1>3, <2>1, <3>1 DEF LossInv
  <2>2. CASE phase = "serving"
    <3>1. uneven' = uneven /\ a \in Thread
      BY <1>5, <1>7, <2>2 DEF PrintItem, Truncate, Seek, Write, history
    <3> SUFFICES ASSUME ~uneven
                 PROVE  /\ \A u \in Thread : u # a => pc'[u] = "idle"
                        /\ ~overlap'
                        /\ IF pc'[a] = "idle" THEN Ahead(change % Freq)'
                           ELSE Copying(a)' /\ AheadByChanges(a)'
      BY <1>1, <1>3, <2>2, <3>1, OneGoesOn
    <3>2. ~overlap /\ Copying(a) /\ \A b \in Actor : b # a => pc[b] = "idle"
      BY <1>1, <3>1, OneIsBusy
    <3>3. /\ Copying(a)'
          /\ pc[a] \in {"seek", "write", "sync"} => last' = stat' /\ ~overlap'
          /\ pc'[a] \in {"seek", "write", "sync", "saved"} => last' = stat'
          /\ ~overlap'
      BY <1>7, <3>2, CopyingGoesOn
    <3>4. \A u \in Thread : u # a => pc'[u] = "idle"
      <4>1. \A b \in Actor : b # a => pc'[b] = pc[b]
        BY <1>2, <1>7 DEF PrintItem, Truncate, Seek, Write, Sync, Fails, Goes
      <4> QED
        BY <3>2, <4>1, ActorFacts
    <3>5. /\ pc'[a] \in {"print", "trunc", "seek", "write", "sync", "idle"}
          /\ pc'[a] \notin {"print", "trunc"} => last' = stat'
      <4>1. /\ pc'[a] \in {"print", "trunc", "seek", "write", "sync", "idle"}
            /\ pc'[a] = "idle" => pc[a] = "sync"
        BY <1>2, <1>7, <3>1, ActorFacts DEF PrintItem, Truncate, Seek, Write, Sync, Fails, Goes
      <4> QED
        BY <3>3, <4>1
    <3>6. ASSUME last' = stat' PROVE Ahead(change % Freq)'
      <4>1. change % Freq \in Nat
        BY Modulo DEF StatInv, StatTypeOK
      <4>2. \A i \in Succeeded : stat'[i] \in Nat
        BY <1>1, SucceededFacts DEF StatInv, StatTypeOK
      <4> QED
        BY <1>1, <3>6, <4>1, <4>2 DEF Ahead
    <3> QED
      BY <3>3, <3>4, <3>5, <3>6 DEF AheadByChanges
  <2> QED
    BY <2>1, <2>2
<1> QED
  BY <1>6, <1>7 DEF Save, TruncateFails, SeekFails, WriteShort, Sync

\* main: a process that opens the file prints what it has loaded; one that ends
\* or stops is not asked; one that begins to serve has just saved.
LEMMA MainLoss ==
    ASSUME StatInv, LossInv,
           OpenLoads \/ OpenCreates \/ CloseBegins \/ MainSaved \/ MainFailed \/ Crash
    PROVE  LossInv'
<1>1. /\ pc \in [Actor -> Places] /\ buff \in [Actor -> [Item -> Nat \cup {-1}]]
      /\ "main" \in Actor
  BY ActorFacts DEF StatInv, StatTypeOK
<1>2. ASSUME Gone PROVE LossInv'
  <2>1. phase' = "down" /\ \A a \in Actor : buff'[a] = Blank
    BY <1>2 DEF Gone
  <2> QED
    BY <2>1 DEF LossInv, BlankBetween, Blank
<1>3. ASSUME NEW c, Opened(c), phase = "down" PROVE LossInv'
  <2>1. \A a \in Actor : pc[a] = "idle" /\ buff[a] = Blank
    BY <1>3 DEF StatInv, WhoIsThere, Nobody, LossInv, BlankBetween
  <2>2. phase' = "starting" /\ pc'["main"] = "print" /\ buff' = buff
    BY <1>1, <1>3 DEF Opened
  <2>3. BlankBetween'
    BY <2>1, <2>2 DEF BlankBetween, Blank
  <2>4. Copying("main")'
    BY <1>1, <2>1, <2>2 DEF Copying, Blank
  <2> QED
    BY <2>2, <2>3, <2>4 DEF LossInv
<1>4. CASE OpenLoads \/ OpenCreates
  BY <1>3, <1>4 DEF OpenLoads, OpenCreates
<1>5. CASE CloseBegins
  <2>1. phase' = "stopping" /\ pc'["main"] = "print" /\ buff' = buff
        /\ \A b \in Actor : b # "main" => pc'[b] = pc[b]
    BY <1>1, <1>5 DEF CloseBegins
  <2>2. BlankBetween'
    BY <1>1, <2>1, StaysBlank
  <2> QED
    BY <2>1, <2>2 DEF LossInv
<1>6. CASE MainSaved /\ phase = "starting"
  <2>1. /\ pc["main"] = "saved" /\ pc' = Nobody /\ phase' = "serving"
        /\ UNCHANGED <<stat, change, buff, last, overlap>>
    BY <1>6 DEF MainSaved, Gone, history
  <2>2. last = stat /\ ~overlap
    BY <1>6, <2>1 DEF LossInv, Copying
  <2>3. \A a \in Actor : pc'[a] = "idle"
    BY <2>1 DEF Nobody
  <2>4. \A a \in Actor : pc[a] \notin {"print", "trunc", "seek", "write", "sync"}
    BY <1>6, <2>1 DEF StatInv, WhoIsThere, Actor
  <2>5. BlankBetween'
    BY <2>1, <2>4 DEF LossInv, BlankBetween, Blank
  <2>6. Busy' = {}
    BY <2>3, ActorFacts DEF Busy
  <2>7. Ahead(change % Freq)'
    BY <2>1, <2>2, NothingIsAhead DEF Ahead
  <2> QED
    BY <2>1, <2>2, <2>5, <2>6, <2>7 DEF LossInv
<1> QED
  BY <1>2, <1>4, <1>5, <1>6 DEF MainSaved, MainFailed, Crash

LEMMA InitLoss == Init => LossInv
BY DEF Init, LossInv, BlankBetween

LEMMA StepLoss == StatInv /\ LossInv /\ [Next]_vars => LossInv'
<1> SUFFICES ASSUME StatInv, LossInv, [Next]_vars PROVE LossInv'
  OBVIOUS
<1>1. CASE UNCHANGED vars
  <2>1. /\ UNCHANGED <<phase, stat, change, pc, cmd, tmp, buff, last, overlap, uneven>>
    BY <1>1 DEF vars, memory, onDisk, thread, history
  <2>2. BlankBetween' /\ Busy' = Busy
    BY <2>1 DEF LossInv, BlankBetween, Blank, Busy
  <2>3. \A a \in Actor : Copying(a)' <=> Copying(a)
    BY <2>1 DEF Copying
  <2>4. \A t \in Thread : AheadByChanges(t)' <=> AheadByChanges(t)
    BY <2>1 DEF AheadByChanges, Ahead
  <2>5. Ahead(change % Freq)' <=> Ahead(change % Freq)
    BY <2>1 DEF Ahead
  <2>6. \A t \in Busy : t \in Actor /\ t \in Thread
    BY ActorFacts DEF Busy
  <2> QED
    BY <2>1, <2>2, <2>3, <2>4, <2>5, <2>6, ActorFacts DEF LossInv
<1>2. CASE OpenRefused
  BY <1>1, <1>2 DEF OpenRefused
<1>3. ASSUME NEW a \in Actor, Save(a) PROVE LossInv'
  BY <1>3, SaveLoss
<1>4. ASSUME NEW t \in Thread, ThreadStep(t) PROVE LossInv'
  BY <1>4, RequestLoss, CounterLoss, ChangeLoss DEF ThreadStep
<1> QED
  BY <1>1, <1>2, <1>3, <1>4, MainLoss DEF Next

-----------------------------------------------------------------------------
(* The theorems.                                                           *)

\* Every step keeps the invariant.
LEMMA StepInv == StatInv /\ [Next]_vars => StatInv'
<1> SUFFICES ASSUME StatInv, [Next]_vars PROVE StatInv'
  OBVIOUS
<1>1. CASE UNCHANGED vars
  <2>1. /\ UNCHANGED <<phase, stat, change, offset, exists, file, pc, cmd, tmp, buff>>
        /\ UNCHANGED <<requests, served, last, overlap, spoilt, uneven>>
    BY <1>1 DEF vars, memory, onDisk, thread, history
  <2>2. HeadWillBeWhole' /\ LastWriter'
    BY <2>1, FileKept
  <2>3. \A i \in Item : Owing(i)' = Owing(i)
    BY <2>1 DEF Owing, Counter
  <2>4. OwedIsMissing'
    BY <2>1, <2>3 DEF StatInv, OwedIsMissing
  <2>5. StatTypeOK'
    BY <2>1 DEF StatInv, StatTypeOK
  <2>6. WhoIsThere' /\ PlacesAreUsed' /\ CopiesAreOld'
    BY <2>1 DEF StatInv, WhoIsThere, PlacesAreUsed, CopiesAreOld
  <2> QED
    BY <2>2, <2>4, <2>5, <2>6 DEF StatInv
<1>2. CASE OpenLoads \/ OpenCreates
  BY <1>2, OpenInv
<1>3. CASE OpenRefused
  BY <1>1, <1>3 DEF OpenRefused
<1>4. CASE CloseBegins \/ MainSaved \/ MainFailed \/ Crash
  BY <1>4, MainInv
<1>5. ASSUME NEW a \in Actor, Save(a) PROVE StatInv'
  BY <1>5, PrintItemInv, TruncateInv, SyncInv, SeekInv, WriteInv, WriteShortInv DEF Save
<1>6. ASSUME NEW t \in Thread, ThreadStep(t) PROVE StatInv'
  BY <1>6, RequestInv, LoadCounterInv, StoreCounterInv, ServeInv, ChangeInv DEF ThreadStep
<1> QED
  BY <1>1, <1>2, <1>3, <1>4, <1>5, <1>6 DEF Next

\* What the invariant says of the properties.
LEMMA StatInvImplies ==
    ASSUME StatInv
    PROVE  NeverOvercounted /\ WholeWhenQuiet /\ LastWriteStands
<1>1. NeverOvercounted
  <2>1. ASSUME NEW t \in Thread, pc[t] \in {"total=", "success="}
        PROVE  tmp[t] < served[Counter(t)]
    <3> DEFINE c == Counter(t)
    <3>1. c \in Item /\ t \in Owing(c)
      BY <2>1, CounterIsItem DEF Owes
    <3>2. IsFiniteSet(Owing(c)) /\ Cardinality(Owing(c)) \in Nat
      BY <3>1, FS_CardinalityType DEF StatInv, OwedIsMissing
    <3>3. Cardinality(Owing(c)) # 0
      BY <3>1, <3>2, FS_EmptySet
    <3>4. tmp[t] + Cardinality(Owing(c)) <= served[c]
      BY <2>1, <3>1 DEF StatInv, OwedIsMissing
    <3>5. tmp[t] \in Nat /\ served[c] \in Nat
      BY <3>1 DEF StatInv, StatTypeOK
    <3> HIDE DEF c
    <3>6. tmp[t] < served[c]
      BY <3>2, <3>3, <3>4, <3>5
    <3> QED
      BY <3>6 DEF c
  <2> QED
    BY <2>1, StatIsServed DEF StatInv, CopiesAreOld, NeverOvercounted
<1>2. WholeWhenQuiet
  <2> SUFFICES ASSUME exists, ~spoilt, \A a \in Actor : pc[a] \notin {"seek", "write"},
                      NEW i \in Item
               PROVE  \E j \in Readable : file[j].item = i
    BY DEF WholeWhenQuiet
  <2>1. HeadIsWhole
    BY DEF StatInv, HeadWillBeWhole
  <2>2. file[i].item = i /\ i # 0 /\ i \in DOMAIN file /\ i \in Nat
    BY <2>1, ItemFacts, FileFacts DEF HeadIsWhole, Item
  <2>3. i > 1 => file[i - 1].end
    <3>1. i > 1 => i - 1 \in Item
      BY ItemFacts DEF Item
    <3> QED
      BY <2>1, <3>1 DEF HeadIsWhole
  <2> QED
    BY <2>2, <2>3 DEF Readable
<1>3. LastWriteStands
  BY DEF StatInv, LastWriter, Writers, LastWriteStands
<1> QED
  BY <1>1, <1>2, <1>3

\* The inductive invariant holds in every state of the server and its file.
THEOREM StatInvariance == Spec => []StatInv
<1> QED
  BY InitInv, StepInv, PTL DEF Spec

\* Every variable keeps its type; in particular no line of the file holds a
\* negative number, and last is always a complete printout.
THEOREM StatTypes == Spec => []StatTypeOK
<1>1. StatInv => StatTypeOK
  BY DEF StatInv
<1> QED
  BY <1>1, StatInvariance, PTL

\* Without a lock on the counters, on the file or on its offset, and over any
\* crashes and restarts, requests are only ever lost: no counter is above the
\* number of requests that were served.
THEOREM OnlyLosesCounts == Spec => []NeverOvercounted
<1>1. StatInv => NeverOvercounted
  BY StatInvImplies
<1> QED
  BY <1>1, StatInvariance, PTL

\* Once the writers are out of the file it has every item, however many there
\* were and however their truncations, seeks and writes interleaved.
THEOREM FileIsWholeInTheEnd == Spec => []WholeWhenQuiet
<1>1. StatInv => WholeWhenQuiet
  BY StatInvImplies
<1> QED
  BY <1>1, StatInvariance, PTL

\* Writers that do not meet leave what the last of them printed.
THEOREM LastWriterWins == Spec => []LastWriteStands
<1>1. StatInv => LastWriteStands
  BY StatInvImplies
<1> QED
  BY <1>1, StatInvariance, PTL

\* A process that serves one request at a time, and whose writes succeed, has in
\* the file all but fewer than STORAGE_SYNC_STAT_FILE_FREQ of the requests that
\* succeeded, however it came to be started.
THEOREM FewAreLost == Spec => []LossIsBounded
<1>1. StatInv /\ LossInv => LossIsBounded
  <2> SUFFICES ASSUME StatInv, LossInv, phase = "serving", pc = Nobody, ~uneven, ~spoilt,
                      NEW i \in Succeeded, NEW v \in ValuesOf(i)
               PROVE  stat[i] - v < Freq
    BY DEF LossIsBounded
  <2>1. \A a \in Actor : pc[a] = "idle"
    BY DEF Nobody
  <2>2. Busy = {} /\ Writers = {}
    BY <2>1, ActorFacts DEF Busy, Writers
  <2>3. ~overlap /\ Ahead(change % Freq)
    BY <2>2 DEF LossInv
  <2>4. file = Lines(last)
    BY <2>2, <2>3 DEF StatInv, LastWriter, WhoIsThere
  <2>5. i \in Item /\ last \in [Item -> Nat] /\ stat \in [Item -> Nat] /\ change \in Nat
    BY SucceededFacts DEF StatInv, StatTypeOK
  <2>6. \A j \in DOMAIN file : j \in Item /\ file[j] = Line(j, last[j])
    BY <2>4 DEF Lines
  <2>7. i \in Readable
    <3>1. DOMAIN file = Item /\ \A j \in Item : file[j].item = j /\ file[j].end
      BY <2>4, <2>6 DEF Lines, Line
    <3>2. i # 0 /\ (i > 1 => i - 1 \in Item)
      BY <2>5, ItemFacts DEF Item
    <3> QED
      BY <2>5, <3>1, <3>2 DEF Readable
  <2>8. v = last[i]
    <3>1. {file[j].val : j \in {x \in Readable : file[x].item = i}} # {}
      BY <2>5, <2>6, <2>7 DEF Line, Readable
    <3>2. PICK j \in Readable : file[j].item = i /\ v = file[j].val
      BY <3>1 DEF ValuesOf
    <3> QED
      BY <2>6, <3>2 DEF Readable, Line
  <2>9. stat[i] - last[i] <= change % Freq /\ change % Freq \in Nat /\ change % Freq < Freq
    BY <2>3, <2>5, Modulo DEF Ahead
  <2> QED
    BY <2>5, <2>8, <2>9, StatAssumption
<1>2. Spec => []LossInv
  <2>1. Init => StatInv /\ LossInv
    BY InitInv, InitLoss
  <2>2. StatInv /\ LossInv /\ [Next]_vars => (StatInv /\ LossInv)'
    BY StepInv, StepLoss
  <2> QED
    BY <2>1, <2>2, PTL DEF Spec
<1> QED
  BY <1>1, <1>2, StatInvariance, PTL
=============================================================================
