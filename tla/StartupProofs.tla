--------------------------- MODULE StartupProofs ---------------------------
(***************************************************************************)
(* What a start of the server leaves behind, for any number of directories *)
(* and of starts, however each of them ends; and the table of trackers,    *)
(* for any configuration files and any order qsort leaves the lines in.    *)
(***************************************************************************)
EXTENDS Startup, FiniteSetTheorems, SequenceTheorems, TLAPS

\* Directories of different depth are different, and so are those with
\* different numbers.
LEMMA DirsDiffer ==
    ASSUME NEW i, NEW j, NEW k, NEW l
    PROVE  /\ <<i, k>> # <<j>> /\ <<i, k>> # <<>> /\ <<i>> # <<>>
           /\ <<i, k>> = <<j, l>> <=> i = j /\ k = l
           /\ <<i>> = <<j>> <=> i = j
<1>1. Len(<<i, k>>) = 2 /\ Len(<<j>>) = 1 /\ Len(<<>>) = 0 /\ Len(<<i>>) = 1
  OBVIOUS
<1>2. <<i, k>> # <<j>> /\ <<i, k>> # <<>> /\ <<i>> # <<>>
  BY <1>1
<1>3. <<i, k>>[1] = i /\ <<i, k>>[2] = k /\ <<j, l>>[1] = j /\ <<j, l>>[2] = l
  OBVIOUS
<1>4. <<i>>[1] = i /\ <<j>>[1] = j
  OBVIOUS
<1> QED
  BY <1>2, <1>3, <1>4

\* Steps that make no directory, stay where they are or fall back to a state
\* of which nothing is said.
LEMMA DirsKept ==
    ASSUME DirsInv, UNCHANGED made, at' \in Nat \X Nat,
           \/ pc' \in {"conf", "copy", "log", "refused", "down"}
           \/ UNCHANGED <<pc, at, faulted, flag>>
    PROVE  DirsInv'
<1>1. DiagonalLast'
  BY DEF DirsInv, DiagonalLast
<1>2. CASE pc' \in {"conf", "copy", "log", "refused", "down"}
  BY <1>1, <1>2 DEF DirsInv, PassedSoFar
<1>3. CASE UNCHANGED <<pc, at, faulted, flag>>
  BY <1>1, <1>3 DEF DirsInv, PassedSoFar, Passed, Complete
<1> QED
  BY <1>2, <1>3

LEMMA InitDirs == Init => DirsInv
BY DirsDiffer, StartupAssumption DEF Init, DirsInv, DiagonalLast, PassedSoFar, Index

\* The file is read and the trackers are sorted before any directory is made.
LEMMA LoadDirs ==
    ASSUME DirsInv, Load \/ Crash \/ Restart \/ OthersFail
    PROVE  DirsInv'
<1>1. UNCHANGED made /\ at' \in Nat \X Nat
  BY DEF Load, GetValues, GetNoValue, Copy, CopyRefused, Copied, Refuse, Crash, Restart,
         OthersFail, disk, memory, DirsInv
<1>2. CASE GetValues \/ GetNoValue \/ CopyRefused \/ Copied \/ Crash \/ Restart \/ OthersFail
  <2>1. pc' \in {"conf", "copy", "log", "refused", "down"}
    BY <1>2 DEF GetValues, GetNoValue, CopyRefused, Copied, Refuse, Crash, Restart, OthersFail
  <2> QED
    BY <1>1, <2>1, DirsKept
<1>3. CASE Copy
  <2>1. UNCHANGED <<pc, at, faulted, flag>>
    BY <1>3 DEF Copy, disk
  <2> QED
    BY <1>1, <2>1, DirsKept
<1> QED
  BY <1>2, <1>3 DEF Load

\* The log directory and base/data: no row has begun.
LEMMA BaseDirs ==
    ASSUME DirsInv, MakeLogDir \/ MakeData
    PROVE  DirsInv'
<1> DEFINE dir  == IF pc = "log" THEN LogDir ELSE DataDir
           then == IF pc = "log" THEN "data" ELSE "dirs"
<1>1. /\ pc \in {"log", "data"} /\ at' = <<0, 0>>
      /\ \/ pc' = then /\ dir \in made' /\ made' \in {made, made \cup {dir}}
         \/ pc' = "refused" /\ made' = made
  BY DEF MakeLogDir, MakeData, MakeBase, Creates, Fails, Refuse
<1>2. \A i, k : <<i, k>> \in made' <=> <<i, k>> \in made
  BY <1>1, DirsDiffer DEF LogDir, DataDir
<1>3. DiagonalLast'
  BY <1>2 DEF DirsInv, DiagonalLast
<1>4. PassedSoFar'
  <2>1. at'[1] = 0
    BY <1>1
  <2>2. \A i \in Index : ~(i < at'[1])
    BY <2>1, StartupAssumption DEF Index
  <2>3. pc' \in {"data", "dirs"} => LogDir \in made'
    BY <1>1 DEF DirsInv, PassedSoFar
  <2> QED
    BY <1>1, <2>2, <2>3 DEF PassedSoFar
<1> QED
  BY <1>1, <1>3, <1>4 DEF DirsInv

\* mkdir of a directory: its subdirectories are next.
LEMMA RowBegins ==
    ASSUME DirsInv, MakeDir
    PROVE  DirsInv'
<1> DEFINE i == at[1]
<1>1. /\ i \in Nat /\ i \in Index /\ at \in Nat \X Nat /\ at' = <<i, 0>> /\ pc = "dirs"
  BY StartupAssumption DEF DirsInv, MakeDir, Index
<1>2. CASE pc' = "refused" /\ made' = made
  BY <1>1, <1>2, DirsKept
<1>3. CASE /\ pc' = "subs" /\ UNCHANGED <<faulted, flag>>
           /\ <<i>> \in made' /\ made' \in {made, made \cup {<<i>>}}
  <2>1. \A j, k : <<j, k>> \in made' <=> <<j, k>> \in made
    BY <1>3, DirsDiffer
  <2>2. DiagonalLast'
    BY <2>1 DEF DirsInv, DiagonalLast
  <2>3. made \subseteq made'
    BY <1>3
  <2>4. \A j \in Index : Passed(j) => Passed(j)'
    BY <1>3, <2>3 DEF Passed, Complete
  <2>5. at'[1] = i /\ at'[2] = 0
    BY <1>1
  <2>6. \A k \in Index : ~(k < at'[2])
    BY <2>5, StartupAssumption DEF Index
  <2>7. PassedSoFar'
    BY <1>1, <1>3, <2>3, <2>4, <2>5, <2>6 DEF DirsInv, PassedSoFar
  <2> QED
    BY <1>1, <2>2, <2>7 DEF DirsInv
<1> QED
  BY <1>2, <1>3 DEF MakeDir, Creates, Fails, Refuse

\* mkdir of a subdirectory, made or passed over.  Up to the diagonal it is there
\* afterwards; behind it only when nothing was refused.
LEMMA SubPassed ==
    ASSUME DirsInv, MakeSub
    PROVE  DirsInv'
<1> DEFINE i == at[1]
           k == at[2]
<1>1. /\ pc = "subs" /\ pc' = "subs" /\ UNCHANGED flag
      /\ i \in Index /\ k \in Index /\ at = <<i, k>> /\ at' = <<i, k + 1>>
      /\ at' \in Nat \X Nat
  BY StartupAssumption DEF DirsInv, PassedSoFar, MakeSub, Index
<1>2. /\ made' \in {made, made \cup {<<i, k>>}}
      /\ <<i, k>> \in made' \/ faulted' = TRUE
      /\ faulted' = faulted \/ faulted' = TRUE
      /\ k <= i => <<i, k>> \in made'
  <2>1. <<i, i>> \in made => (k <= i => <<i, k>> \in made)
    BY <1>1, StartupAssumption DEF DirsInv, DiagonalLast, Index
  <2> QED
    BY <1>1, <2>1 DEF MakeSub, SubPasses, SubIsThere, Creates, Fails
<1>3. \A j, l : <<j, l>> \in made' => <<j, l>> \in made \/ (j = i /\ l = k)
  BY <1>2, DirsDiffer
<1>4. made \subseteq made'
  BY <1>2
<1>5. \A l \in Index : l < k + 1 /\ (l <= i \/ faulted' # TRUE) => <<i, l>> \in made'
  <2> TAKE l \in Index
  <2>1. CASE l = k
    BY <1>2, <2>1
  <2>2. CASE l < k
    BY <1>1, <1>2, <1>4, <2>2 DEF DirsInv, PassedSoFar
  <2>3. l < k + 1 => l < k \/ l = k
    BY <1>1, StartupAssumption DEF Index
  <2> QED
    BY <2>1, <2>2, <2>3
<1>6. DiagonalLast'
  <2> SUFFICES ASSUME NEW j \in Index, <<j, j>> \in made', NEW l \in 0 .. j
               PROVE  <<j, l>> \in made'
    BY DEF DiagonalLast
  <2>1. CASE <<j, j>> \in made
    BY <1>4, <2>1 DEF DirsInv, DiagonalLast
  <2>2. CASE j = i /\ j = k
    <3>1. l \in Index /\ l < k + 1 /\ l <= i
      BY <2>2, StartupAssumption DEF Index
    <3> QED
      BY <1>5, <2>2, <3>1
  <2> QED
    BY <1>3, <2>1, <2>2
<1>7. PassedSoFar'
  <2>1. at'[1] = i /\ at'[2] = k + 1
    BY <1>1
  <2>2. \A j \in Index : Passed(j) => Passed(j)'
    BY <1>2, <1>4 DEF Passed, Complete
  <2>3. /\ LogDir \in made' /\ DataDir \in made' /\ <<i>> \in made'
        /\ \A j \in Index : j < i => Passed(j)'
    BY <1>1, <1>4, <2>2 DEF DirsInv, PassedSoFar
  <2>4. \A l \in Index : l < at'[2] /\ (l <= at'[1] \/ ~faulted') => <<at'[1], l>> \in made'
    BY <1>5, <2>1
  <2> QED
    BY <1>1, <2>1, <2>3, <2>4 DEF PassedSoFar
<1> QED
  BY <1>1, <1>6, <1>7 DEF DirsInv

\* chdir(".."): the row is complete, or complete up to its diagonal.
LEMMA RowEnds ==
    ASSUME DirsInv, LeaveDir
    PROVE  DirsInv'
<1> DEFINE i == at[1]
<1>1. /\ pc = "subs" /\ pc' = "dirs" /\ UNCHANGED <<made, flag, faulted>>
      /\ i \in Index /\ i \in Nat /\ at[2] = DirCount /\ at' = <<i + 1, 0>>
  BY StartupAssumption DEF DirsInv, PassedSoFar, LeaveDir, disk, Index
<1>2. \A l \in Index : l < at[2]
  BY <1>1, StartupAssumption DEF Index
<1>3. Passed(i)
  <2>1. <<i>> \in made /\ \A l \in Index : l <= i \/ ~faulted => <<i, l>> \in made
    BY <1>1, <1>2 DEF DirsInv, PassedSoFar
  <2>2. i <= i
    BY <1>1
  <2> QED
    BY <1>1, <2>1, <2>2 DEF Passed, Complete
<1>4. \A j \in Index : j < i + 1 => Passed(j)
  <2> TAKE j \in Index
  <2>1. j < i + 1 => j < i \/ j = i
    BY <1>1, StartupAssumption DEF Index
  <2> QED
    BY <1>1, <1>3, <2>1 DEF DirsInv, PassedSoFar
<1>5. DiagonalLast'
  BY <1>1 DEF DirsInv, DiagonalLast
<1>6. PassedSoFar'
  BY <1>1, <1>4 DEF DirsInv, PassedSoFar, Passed, Complete
<1> QED
  BY <1>1, <1>5, <1>6 DEF DirsInv

\* The flag file, when every row has been passed.
LEMMA FlagWritten ==
    ASSUME DirsInv, OpenFlag \/ WriteFlag
    PROVE  DirsInv'
<1>1. UNCHANGED <<made, at>>
  BY DEF OpenFlag, WriteFlag, memory
<1>2. DiagonalLast' /\ at' \in Nat \X Nat
  BY <1>1 DEF DirsInv, DiagonalLast
<1>3. CASE OpenFlag
  <2>1. pc = "dirs" /\ \A i \in Index : i < at[1]
    BY <1>3, StartupAssumption DEF OpenFlag, Index
  <2>2. \A i \in Index : Passed(i)
    BY <2>1 DEF DirsInv, PassedSoFar
  <2>3. PassedSoFar'
    BY <1>1, <1>3, <2>1, <2>2 DEF OpenFlag, Refuse, DirsInv, PassedSoFar, Passed, Complete
  <2> QED
    BY <1>2, <2>3 DEF DirsInv
<1>4. CASE WriteFlag
  <2>1. pc = "flag" /\ pc' = "serving" /\ (faulted' = TRUE \/ (UNCHANGED faulted /\ flag' = "written"))
    BY <1>4 DEF WriteFlag
  <2>2. \A i \in Index : Passed(i)
    BY <2>1 DEF DirsInv, PassedSoFar
  <2>3. \A i \in Index : Passed(i)'
    <3>1. CASE faulted' = TRUE
      BY <1>1, <2>2, <3>1 DEF Passed
    <3>2. CASE UNCHANGED faulted
      BY <1>1, <2>2, <3>2 DEF Passed, Complete
    <3> QED
      BY <2>1, <3>1, <3>2
  <2> QED
    BY <1>1, <1>2, <2>1, <2>3 DEF DirsInv, PassedSoFar
<1> QED
  BY <1>3, <1>4

LEMMA StepDirs == DirsInv /\ [Next]_vars => DirsInv'
<1> SUFFICES ASSUME DirsInv, [Next]_vars PROVE DirsInv'
  OBVIOUS
<1>1. CASE Load \/ Crash \/ Restart \/ OthersFail
  BY <1>1, LoadDirs
<1>2. CASE MakeSubRefused
  <2>1. made' = made /\ pc' = "refused" /\ at' = at
    BY <1>2 DEF MakeSubRefused, Fails, Refuse, memory
  <2> QED
    BY <2>1, DirsKept DEF DirsInv
<1>3. CASE UNCHANGED vars
  BY <1>3, DirsKept DEF vars, memory, disk, DirsInv
<1> QED
  BY <1>1, <1>2, <1>3, BaseDirs, RowBegins, SubPassed, RowEnds, FlagWritten DEF Next, Dirs

\* The invariant of the directories holds through every start.
THEOREM DirsInvariance == Spec => []DirsInv
<1> QED
  BY InitDirs, StepDirs, PTL DEF Spec

\* A server that serves has its directories, however many starts before it were
\* cut short or refused; only those behind the diagonal can be missing, and only
\* when the system refused something that the code passed over.
THEOREM ServesPrepared == Spec => []ServingIsPrepared
<1>1. DirsInv => ServingIsPrepared
  <2> SUFFICES ASSUME DirsInv, pc = "serving"
               PROVE  /\ {LogDir, DataDir} \subseteq made
                      /\ \A i \in Index : <<i>> \in made /\ \A k \in 0 .. i : <<i, k>> \in made
                      /\ ~faulted => flag = "written" /\ \A i \in Index : Complete(i) \subseteq made
    BY DEF ServingIsPrepared
  <2>1. LogDir \in made /\ DataDir \in made /\ (\A i \in Index : Passed(i)) /\ DiagonalLast
        /\ (~faulted => flag = "written")
    BY DEF DirsInv, PassedSoFar
  <2> QED
    BY <2>1 DEF Passed, DiagonalLast
<1> QED
  BY <1>1, DirsInvariance, PTL

-----------------------------------------------------------------------------
(* The table of trackers                                                   *)

\* Induction over numbers: a set of them has a least one, as the intervals up to
\* them are well-founded.
LEMMA LeastNumber ==
    ASSUME NEW B \in SUBSET Nat, B # {}
    PROVE  \E n \in B : \A m \in B : n <= m
<1> DEFINE T == {0 .. n : n \in B}
           W == StrictSubsetOrdering(Nat)
<1>1. IsWellFoundedOn(W, FiniteSubsetsOf(Nat))
  BY FS_StrictSubsetOrderingWellFounded
<1>2. T \subseteq FiniteSubsetsOf(Nat) /\ T # {}
  <2>1. \A n \in Nat : IsFiniteSet(0 .. n)
    BY FS_Interval
  <2>2. \A n \in B : 0 .. n \in SUBSET Nat /\ IsFiniteSet(0 .. n)
    BY <2>1
  <2>3. \A x \in T : x \in FiniteSubsetsOf(Nat)
    BY <2>2 DEF FiniteSubsetsOf
  <2> QED
    BY <2>3
<1>3. PICK x \in T : \A y \in T : <<y, x>> \notin W
  BY <1>1, <1>2, WFMin
<1>4. PICK n \in B : x = 0 .. n
  OBVIOUS
<1>5. ASSUME NEW m \in B, m < n PROVE FALSE
  <2>1. 0 .. m \subseteq 0 .. n /\ 0 .. m # 0 .. n /\ 0 .. m \in SUBSET Nat /\ 0 .. n \in SUBSET Nat
    BY <1>5
  <2>2. <<0 .. m, 0 .. n>> \in W
    BY <2>1 DEF StrictSubsetOrdering
  <2> QED
    BY <1>3, <1>4, <2>2
<1> QED
  BY <1>5

\* Min and Max of numbers that have a bound.
LEMMA MinMax ==
    ASSUME NEW B \in SUBSET Nat, B # {}, NEW u \in Nat, \A n \in B : n <= u
    PROVE  /\ Min(B) \in B /\ \A n \in B : Min(B) <= n
           /\ Max(B) \in B /\ \A n \in B : n <= Max(B)
<1>1. Min(B) \in B /\ \A n \in B : Min(B) <= n
  <2>1. \E n \in B : \A m \in B : n <= m
    BY LeastNumber
  <2> QED
    BY <2>1 DEF Min
<1>2. Max(B) \in B /\ \A n \in B : n <= Max(B)
  <2> DEFINE D == {u - n : n \in B}
  <2>1. D \in SUBSET Nat /\ D # {}
    <3>1. \A n \in B : u - n \in Nat
      OBVIOUS
    <3> QED
      BY <3>1
  <2>2. PICK d \in D : \A e \in D : d <= e
    BY <2>1, LeastNumber
  <2>3. PICK n \in B : d = u - n
    OBVIOUS
  <2>4. ASSUME NEW m \in B PROVE m <= n
    <3>1. u - n <= u - m
      BY <2>2, <2>3
    <3> QED
      BY <3>1
  <2>5. \E x \in B : \A y \in B : x >= y
    BY <2>4
  <2> QED
    BY <2>5 DEF Max
<1> QED
  BY <1>1, <1>2

\* storage_cmp_by_ip_and_port is a strict order of all servers.
LEMMA BeforeFacts ==
    ASSUME NEW r \in Server, NEW s \in Server, NEW t \in Server
    PROVE  /\ ~Before(s, s)
           /\ Before(r, s) /\ Before(s, t) => Before(r, t)
           /\ Before(s, t) => ~Before(t, s)
           /\ Before(s, t) \/ s = t \/ Before(t, s)
<1>1. /\ r.ip \in Nat /\ s.ip \in Nat /\ t.ip \in Nat
      /\ r.port \in Nat /\ s.port \in Nat /\ t.port \in Nat
  BY StartupAssumption DEF Server
<1>2. s.ip = t.ip /\ s.port = t.port => s = t
  BY DEF Server
<1> QED
  BY <1>1, <1>2 DEF Before

\* In a sorted table the search that halves the rest finds what is there.
LEMMA FoundIfThere ==
    ASSUME NEW s \in Server, servers \in Seq(Server), IsSorted(servers, Before)
    PROVE  Found(s) <=> s \in Range(servers)
<1> DEFINE N    == 0 .. Len(servers)
           Rest(p) == IF Before(s, servers[((p[1] + p[2]) \div 2) + 1])
                      THEN <<p[1], (p[1] + p[2]) \div 2>>
                      ELSE <<((p[1] + p[2]) \div 2) + 1, p[2]>>
           Hit(p)  == s = servers[((p[1] + p[2]) \div 2) + 1]
           Eq(f) == f = [p \in N \X N |-> IF p[1] >= p[2] THEN FALSE
                                          ELSE IF Hit(p) THEN TRUE ELSE f[Rest(p)]]
           search == CHOOSE f : Eq(f)
           There(p) == \E n \in p[1] + 1 .. p[2] : servers[n] = s
           W == [p \in N \X N |-> IF There(p) THEN TRUE ELSE FALSE]
<1>1. Found(s) = search[<<0, Len(servers)>>]
  BY DEF Found
<1>2. Len(servers) \in Nat /\ \A n \in 1 .. Len(servers) : servers[n] \in Server
  OBVIOUS
<1>3. \A i, j \in 1 .. Len(servers) : i < j => Before(servers[i], servers[j])
  BY DEF IsSorted
\* One round: what is searched for is in the middle or in the rest, if anywhere.
<1>4. ASSUME NEW p \in N \X N, p[1] < p[2]
      PROVE  /\ Rest(p) \in N \X N
             /\ Rest(p)[2] - Rest(p)[1] < p[2] - p[1]
             /\ Hit(p) => There(p)
             /\ ~Hit(p) => (There(p) <=> There(Rest(p)))
  <2> DEFINE h == (p[1] + p[2]) \div 2
             m == h + 1
  <2>1. /\ p[1] \in N /\ p[2] \in N
        /\ h \in N /\ h = m - 1 /\ m \in N /\ p[1] < m /\ m <= p[2] /\ m \in 1 .. Len(servers)
    BY <1>2, <1>4
  <2>2. Rest(p) = IF Before(s, servers[m]) THEN <<p[1], h>> ELSE <<m, p[2]>>
    OBVIOUS
  <2>3. Hit(p) <=> s = servers[m]
    OBVIOUS
  <2> HIDE DEF h, m, Rest, Hit
  <2>4. Rest(p) \in N \X N /\ Rest(p)[2] - Rest(p)[1] < p[2] - p[1]
    BY <2>1, <2>2
  <2>5. Hit(p) => There(p)
    BY <2>1, <2>3
  <2>6. ASSUME Before(s, servers[m]), NEW n \in 1 .. Len(servers), servers[n] = s
        PROVE  n <= m - 1
    <3> SUFFICES ASSUME ~(n <= m - 1) PROVE FALSE
      OBVIOUS
    <3>1. n = m \/ m < n
      BY <2>1
    <3>2. Before(servers[m], s) \/ servers[m] = s
      BY <1>3, <2>1, <2>6, <3>1
    <3> QED
      BY <1>2, <2>1, <2>6, <3>2, BeforeFacts
  <2>7. ASSUME ~Before(s, servers[m]), s # servers[m], NEW n \in 1 .. Len(servers), servers[n] = s
        PROVE  m + 1 <= n
    <3> SUFFICES ASSUME ~(m + 1 <= n) PROVE FALSE
      OBVIOUS
    <3>1. n = m \/ n < m
      BY <2>1
    <3>2. Before(s, servers[m])
      BY <1>3, <2>1, <2>7, <3>1
    <3> QED
      BY <2>7, <3>2
  <2>8. \A n \in p[1] + 1 .. p[2] : n \in 1 .. Len(servers)
    BY <2>1
  <2>9. ASSUME ~Hit(p) PROVE There(p) <=> There(Rest(p))
    <3>1. CASE Before(s, servers[m])
      <4>1. Rest(p)[1] = p[1] /\ Rest(p)[2] = h
        BY <2>2, <3>1
      <4> QED
        BY <2>1, <2>6, <2>8, <3>1, <4>1
    <3>2. CASE ~Before(s, servers[m])
      <4>1. Rest(p)[1] = m /\ Rest(p)[2] = p[2]
        BY <2>2, <3>2
      <4> QED
        BY <2>1, <2>3, <2>7, <2>8, <2>9, <3>2, <4>1
    <3> QED
      BY <3>1, <3>2
  <2> QED
    BY <2>4, <2>5, <2>9
<1>5. \A p \in N \X N : p[1] >= p[2] => ~There(p)
  BY <1>2
<1>6. \A p \in N \X N : p[1] \in Nat /\ p[2] \in Nat /\ (p[1] >= p[2] <=> ~(p[1] < p[2]))
  BY <1>2
\* That is a solution of the equation that defines the search, ...
<1>7. Eq(W)
  <2>1. ASSUME NEW p \in N \X N
        PROVE  W[p] = IF p[1] >= p[2] THEN FALSE ELSE IF Hit(p) THEN TRUE ELSE W[Rest(p)]
    <3> HIDE DEF Rest, Hit, There
    <3>1. CASE p[1] >= p[2]
      BY <1>5, <3>1
    <3>2. CASE ~(p[1] >= p[2])
      BY <1>4, <1>6, <3>2
    <3> QED
      BY <3>1, <3>2
  <2>2. W = [p \in N \X N |-> W[p]]
    OBVIOUS
  <2> HIDE DEF W, Rest, Hit
  <2> QED
    BY <2>1, <2>2
<1>8. Eq(search)
  <2> HIDE DEF W, Eq
  <2> QED
    BY <1>7
\* ... and the only one: another would differ on a shortest part.
<1>9. ASSUME NEW f, Eq(f), NEW q \in N \X N, f[q] # W[q]
      PROVE  FALSE
  <2> DEFINE Bad == {k \in Nat : \E p \in N \X N : p[1] < p[2] /\ k = p[2] - p[1] /\ f[p] # W[p]}
  <2>1. ASSUME NEW p \in N \X N
        PROVE  f[p] = IF p[1] >= p[2] THEN FALSE ELSE IF Hit(p) THEN TRUE ELSE f[Rest(p)]
    <3> HIDE DEF Rest, Hit
    <3> QED
      BY <1>9
  <2> HIDE DEF Eq, Rest, Hit, There
  <2>2. \A p \in N \X N : f[p] # W[p] => p[1] < p[2]
    BY <1>5, <1>6, <2>1
  <2>3. Bad # {} /\ Bad \in SUBSET Nat
    <3>0. q[1] < q[2]
      BY <1>9, <2>2
    <3>1. q[1] < q[2] /\ q[2] - q[1] \in Nat
      BY <1>6, <3>0
    <3>2. q[2] - q[1] \in Bad
      BY <1>9, <3>1
    <3> QED
      BY <3>2
  <2>4. PICK k \in Bad : \A j \in Bad : k <= j
    BY <2>3, LeastNumber
  <2>5. PICK p \in N \X N : p[1] < p[2] /\ k = p[2] - p[1] /\ f[p] # W[p]
    BY <2>4
  <2>6. /\ Rest(p) \in N \X N
        /\ Rest(p)[2] - Rest(p)[1] < p[2] - p[1]
        /\ Hit(p) => There(p)
        /\ ~Hit(p) => (There(p) <=> There(Rest(p)))
    BY <1>4, <2>5
  <2>7. f[Rest(p)] = W[Rest(p)]
    <3> SUFFICES ASSUME f[Rest(p)] # W[Rest(p)] PROVE FALSE
      OBVIOUS
    <3> DEFINE r == Rest(p)
    <3>1. r \in N \X N /\ r[2] - r[1] < k /\ f[r] # W[r] /\ r[1] < r[2]
      BY <2>2, <2>5, <2>6
    <3> HIDE DEF r
    <3>2. r[2] - r[1] \in Bad
      <4>1. r[2] - r[1] \in Nat
        BY <1>6, <3>1
      <4> QED
        BY <3>1, <4>1
    <3>3. k <= r[2] - r[1]
      BY <2>4, <3>2
    <3>4. k \in Nat /\ r[2] - r[1] \in Nat
      BY <3>2
    <3> QED
      BY <3>1, <3>3, <3>4
  <2>8. f[p] = IF Hit(p) THEN TRUE ELSE f[Rest(p)]
    BY <1>6, <2>1, <2>5
  <2> QED
    BY <2>5, <2>6, <2>7, <2>8
<1>10. search[<<0, Len(servers)>>] = W[<<0, Len(servers)>>]
  <2>1. <<0, Len(servers)>> \in N \X N
    BY <1>2
  <2> HIDE DEF search, W, N, Eq
  <2> QED
    BY <1>8, <1>9, <2>1
<1>11. W[<<0, Len(servers)>>] <=> s \in Range(servers)
  <2>1. <<0, Len(servers)>> \in N \X N
    BY <1>2
  <2>2. There(<<0, Len(servers)>>) <=> s \in Range(servers)
    BY <1>2 DEF Range
  <2> HIDE DEF There
  <2> QED
    BY <2>1, <2>2
<1> QED
  BY <1>1, <1>10, <1>11

\* What moves up by one is what is not smaller.
LEMMA InsertedInOrder ==
    ASSUME NEW s \in Server, servers \in Seq(Server), IsSorted(servers, Before),
           s \notin Range(servers)
    PROVE  /\ Inserted(s) \in Seq(Server)
           /\ Len(Inserted(s)) = Len(servers) + 1
           /\ IsSorted(Inserted(s), Before)
           /\ Range(Inserted(s)) = Range(servers) \cup {s}
<1> DEFINE smaller == {0} \cup {n \in DOMAIN servers : Before(servers[n], s)}
           place   == Max(smaller)
           low     == SubSeq(servers, 1, place)
           high    == SubSeq(servers, place + 1, Len(servers))
           r       == (low \o <<s>>) \o high
<1>1. /\ Len(servers) \in Nat /\ DOMAIN servers = 1 .. Len(servers)
      /\ \A n \in 1 .. Len(servers) : servers[n] \in Server
  OBVIOUS
<1>2. /\ place \in 0 .. Len(servers) /\ place \in smaller
      /\ \A n \in smaller : n <= place
  <2>1. smaller \in SUBSET Nat /\ smaller # {} /\ \A n \in smaller : n <= Len(servers)
    BY <1>1
  <2> HIDE DEF smaller
  <2>2. place \in smaller /\ \A n \in smaller : n <= place
    BY <1>1, <2>1, MinMax
  <2> HIDE DEF place
  <2>3. place \in Nat /\ place <= Len(servers)
    BY <2>1, <2>2
  <2> QED
    BY <2>2, <2>3
<1>3. Inserted(s) = r
  <2>1. (place + 1) - 1 = place
    BY <1>2
  <2> HIDE DEF place
  <2> QED
    BY <2>1 DEF Inserted, InsertAt, place
<1>4. \A n \in 1 .. place : Before(servers[n], s)
  <2> TAKE n \in 1 .. place
  <2>1. place # 0 /\ Before(servers[place], s) /\ place \in 1 .. Len(servers)
    BY <1>1, <1>2
  <2> HIDE DEF place, smaller
  <2>2. n = place \/ Before(servers[n], servers[place])
    BY <1>2, <2>1 DEF IsSorted
  <2> QED
    BY <1>1, <1>2, <2>1, <2>2, BeforeFacts
<1>5. \A n \in place + 1 .. Len(servers) : Before(s, servers[n])
  <2> TAKE n \in place + 1 .. Len(servers)
  <2>1. n \in 1 .. Len(servers) /\ n \notin smaller
    <3> HIDE DEF smaller
    <3> QED
      BY <1>1, <1>2
  <2>2. ~Before(servers[n], s) /\ servers[n] # s /\ servers[n] \in Server
    BY <1>1, <2>1 DEF Range
  <2> QED
    BY <2>2, BeforeFacts
<1> HIDE DEF smaller, place
<1>6. /\ low \in Seq(Server) /\ Len(low) = place
      /\ \A n \in 1 .. place : low[n] = servers[n]
  BY <1>1, <1>2
<1>7. /\ high \in Seq(Server) /\ Len(high) = Len(servers) - place
      /\ \A n \in 1 .. Len(servers) - place : high[n] = servers[place + n]
  <2>1. /\ high \in Seq(Server)
        /\ Len(high) = IF place + 1 <= Len(servers) THEN Len(servers) - (place + 1) + 1 ELSE 0
        /\ \A n \in 1 .. Len(servers) - (place + 1) + 1 : high[n] = servers[(place + 1) + n - 1]
    BY <1>1, <1>2, SubSeqProperties
  <2> HIDE DEF high
  <2>2. /\ Len(servers) - (place + 1) + 1 = Len(servers) - place
        /\ \A n \in Nat : (place + 1) + n - 1 = place + n
        /\ place + 1 <= Len(servers) \/ Len(servers) - place = 0
    <3>1. place \in Nat /\ place <= Len(servers) /\ Len(servers) \in Nat
      BY <1>1, <1>2
    <3> QED
      BY <3>1
  <2>3. Len(high) = Len(servers) - place
    BY <2>1, <2>2
  <2>4. ASSUME NEW n \in 1 .. Len(servers) - place PROVE high[n] = servers[place + n]
    <3>1. n \in 1 .. Len(servers) - (place + 1) + 1 /\ n \in Nat
      BY <2>2
    <3> QED
      BY <2>1, <2>2, <3>1
  <2> QED
    BY <2>1, <2>3, <2>4
<1> HIDE DEF low, high
<1>8. /\ r \in Seq(Server) /\ Len(r) = Len(servers) + 1
      /\ \A n \in 1 .. Len(servers) + 1 :
           r[n] = IF n <= place THEN servers[n] ELSE IF n = place + 1 THEN s ELSE servers[n - 1]
  <2> DEFINE l == low \o <<s>>
  <2>1. /\ l \in Seq(Server) /\ Len(l) = place + 1
        /\ \A n \in 1 .. place + 1 : l[n] = IF n <= place THEN servers[n] ELSE s
    BY <1>2, <1>6
  <2>5. r = l \o high
    OBVIOUS
  <2> HIDE DEF l, r
  <2>2. /\ r \in Seq(Server) /\ Len(r) = Len(l) + Len(high)
        /\ \A n \in 1 .. Len(l) + Len(high) : r[n] = IF n <= Len(l) THEN l[n] ELSE high[n - Len(l)]
    BY <1>7, <2>1, <2>5, ConcatProperties
  <2>3. Len(l) + Len(high) = Len(servers) + 1
    BY <1>1, <1>2, <1>7, <2>1
  <2>4. ASSUME NEW n \in 1 .. Len(servers) + 1
        PROVE  r[n] = IF n <= place THEN servers[n] ELSE IF n = place + 1 THEN s ELSE servers[n - 1]
    <3>1. CASE n <= place + 1
      BY <1>2, <2>1, <2>2, <2>3, <3>1
    <3>2. CASE n > place + 1
      <4>1. /\ n - (place + 1) \in 1 .. Len(servers) - place
            /\ place + (n - (place + 1)) = n - 1
        BY <1>1, <1>2, <3>2
      <4>2. r[n] = high[n - (place + 1)]
        BY <1>2, <2>1, <2>2, <2>3, <3>2
      <4> QED
        BY <1>2, <1>7, <3>2, <4>1, <4>2
    <3> QED
      BY <1>2, <3>1, <3>2
  <2> QED
    BY <2>2, <2>3, <2>4
<1> HIDE DEF r
<1>9. \A i, j \in 1 .. Len(servers) : i < j => Before(servers[i], servers[j])
  BY DEF IsSorted
<1>10. ASSUME NEW i \in 1 .. Len(r), NEW j \in 1 .. Len(r), i < j
       PROVE  Before(r[i], r[j])
  <2>1. CASE j <= place
    BY <1>1, <1>2, <1>8, <1>9, <1>10, <2>1
  <2>2. CASE j = place + 1
    BY <1>1, <1>2, <1>4, <1>8, <1>10, <2>2
  <2>3. CASE j > place + 1 /\ i = place + 1
    BY <1>1, <1>2, <1>5, <1>8, <1>10, <2>3
  <2>4. CASE j > place + 1 /\ i <= place
    BY <1>1, <1>2, <1>8, <1>9, <1>10, <2>4
  <2>5. CASE j > place + 1 /\ i > place + 1
    <3>1. i - 1 \in 1 .. Len(servers) /\ j - 1 \in 1 .. Len(servers) /\ i - 1 < j - 1
      BY <1>1, <1>2, <1>8, <1>10, <2>5
    <3>2. r[i] = servers[i - 1] /\ r[j] = servers[j - 1]
      BY <1>1, <1>2, <1>8, <1>10, <2>5
    <3> QED
      BY <1>9, <3>1, <3>2
  <2> QED
    BY <1>1, <1>2, <1>8, <1>10, <2>1, <2>2, <2>3, <2>4, <2>5
<1>11. ASSUME NEW n \in 1 .. Len(servers) PROVE \E k \in 1 .. Len(r) : r[k] = servers[n]
  <2>1. CASE n <= place
    BY <1>1, <1>2, <1>8, <1>11, <2>1
  <2>2. CASE n > place
    <3>1. n + 1 \in 1 .. Len(r) /\ ~(n + 1 <= place) /\ n + 1 # place + 1 /\ (n + 1) - 1 = n
      BY <1>1, <1>2, <1>8, <1>11, <2>2
    <3> QED
      BY <1>8, <3>1
  <2> QED
    BY <1>1, <1>2, <2>1, <2>2
<1>12. r[place + 1] = s /\ place + 1 \in 1 .. Len(r)
  BY <1>1, <1>2, <1>8
<1>13. \A k \in 1 .. Len(r) : r[k] = s \/ \E n \in 1 .. Len(servers) : r[k] = servers[n]
  <2> TAKE k \in 1 .. Len(r)
  <2>1. CASE k <= place
    BY <1>1, <1>2, <1>8, <2>1
  <2>2. CASE k > place + 1
    <3>1. k - 1 \in 1 .. Len(servers)
      BY <1>1, <1>2, <1>8, <2>2
    <3> QED
      BY <1>1, <1>2, <1>8, <2>2, <3>1
  <2> QED
    BY <1>1, <1>2, <1>8, <2>1, <2>2
<1>14. Range(r) = Range(servers) \cup {s}
  <2>1. DOMAIN r = 1 .. Len(r)
    BY <1>8
  <2>2. Range(r) \subseteq Range(servers) \cup {s}
    BY <1>1, <1>13, <2>1 DEF Range
  <2>3. s \in Range(r)
    BY <1>12, <2>1 DEF Range
  <2>4. Range(servers) \subseteq Range(r)
    BY <1>1, <1>11, <2>1 DEF Range
  <2> QED
    BY <2>2, <2>3, <2>4
<1> QED
  BY <1>3, <1>8, <1>10, <1>14 DEF IsSorted

\* A sorted arrangement of the lines has those of one name next to each other,
\* and as many of them.
LEMMA ItemsTogether ==
    ASSUME NEW items \in Items, lines \in Configurations,
           NEW found \in DOMAIN items, items[found].name = Tracker
    PROVE  LET same == {n \in DOMAIN items : items[n].name = Tracker}
           IN  /\ items \in Seq([name : Name, value : Value])
               /\ Min(same) \in Nat \ {0} /\ Max(same) \in Nat /\ Max(same) <= Len(items)
               /\ same = Min(same) .. Max(same)
               /\ Lines = Max(same) - Min(same) + 1
               /\ {items[n].value : n \in same} = Configured
<1> DEFINE Line == [name : Name, value : Value]
           D    == 1 .. Len(lines)
           same == {n \in DOMAIN items : items[n].name = Tracker}
           here == {n \in DOMAIN lines : lines[n].name = Tracker}
<1>1. /\ lines \in Seq(Line) /\ Len(lines) \in Nat /\ DOMAIN lines = D
      /\ \A n \in D : lines[n] \in Line
  <2>1. lines \in Seq(Line)
    BY StartupAssumption
  <2> HIDE DEF Line
  <2> QED
    BY <2>1
<1>2. PICK p \in Bijection(D, D) : items = [k \in D |-> lines[p[k]]]
  <2>1. items \in Reorderings(lines)
    BY Zenon DEF Items
  <2> QED
    BY <1>1, <2>1 DEF Reorderings
<1>3. /\ \A k \in D : p[k] \in D
      /\ \A j, k \in D : p[j] = p[k] => j = k
      /\ \A m \in D : \E k \in D : p[k] = m
      /\ p \in [D -> D]
  BY DEF Bijection, Injection, IsInjective, Surjection
<1>4. items \in Seq(Line) /\ Len(items) = Len(lines) /\ DOMAIN items = D
  BY <1>1, <1>2, <1>3
<1>5. \A k \in D : items[k] = lines[p[k]] /\ items[k] \in Line
  BY <1>1, <1>2, <1>3
<1>6. \A i, j \in D : i < j => items[i].name <= items[j].name
  BY <1>4 DEF Items, IsSorted
<1>7. /\ Min(same) \in same /\ Max(same) \in same
      /\ \A n \in same : Min(same) <= n /\ n <= Max(same)
  <2>1. same \in SUBSET Nat /\ same # {} /\ \A n \in same : n <= Len(lines)
    BY <1>1, <1>4
  <2> HIDE DEF same
  <2> QED
    BY <1>1, <2>1, MinMax
<1>8. \A n \in Min(same) .. Max(same) : n \in same
  <2> DEFINE lo == Min(same)
             hi == Max(same)
  <2>1. /\ lo \in D /\ hi \in D /\ items[lo].name = Tracker /\ items[hi].name = Tracker
    BY <1>4, <1>7
  <2> HIDE DEF lo, hi
  <2>2. ASSUME NEW n \in lo .. hi PROVE n \in D /\ items[n].name = Tracker
    <3>1. n \in D /\ (n = lo \/ lo < n) /\ (n = hi \/ n < hi)
      BY <1>1, <2>1
    <3>2. Tracker <= items[n].name /\ items[n].name <= Tracker
      BY <1>6, <2>1, <3>1 DEF Tracker
    <3>3. items[n].name \in Name
      BY <1>5, <3>1
    <3> QED
      BY <3>1, <3>2, <3>3 DEF Tracker, Name
  <2> QED
    BY <1>4, <2>2 DEF lo, hi
<1>9. same = Min(same) .. Max(same)
  <2> DEFINE lo == Min(same)
             hi == Max(same)
  <2>1. \A n \in same : n \in Nat
    BY <1>4
  <2>2. /\ lo \in Nat /\ hi \in Nat
        /\ \A n \in same : lo <= n /\ n <= hi
        /\ \A n \in lo .. hi : n \in same
    BY <1>7, <1>8, <2>1
  <2> HIDE DEF same, lo, hi
  <2>3. same \subseteq lo .. hi
    BY <2>1, <2>2
  <2>4. lo .. hi \subseteq same
    BY <2>2
  <2> QED
    BY <2>3, <2>4 DEF lo, hi
<1>10. Cardinality(same) = Max(same) - Min(same) + 1 /\ IsFiniteSet(same)
  <2>1. Min(same) \in Int /\ Max(same) \in Int /\ Min(same) <= Max(same)
    BY <1>4, <1>7
  <2> DEFINE lo == Min(same)
             hi == Max(same)
  <2>2. same = lo .. hi
    BY <1>9
  <2>3. lo \in Int /\ hi \in Int /\ lo <= hi
    BY <2>1
  <2> HIDE DEF same, lo, hi
  <2>4. IsFiniteSet(lo .. hi) /\ Cardinality(lo .. hi) = hi - lo + 1
    BY <2>3, FS_Interval
  <2> QED
    BY <2>2, <2>4 DEF lo, hi
<1>11. ExistsBijection(same, here)
  <2> DEFINE b == [n \in same |-> p[n]]
  <2>1. \A n \in same : n \in D /\ p[n] \in here
    BY <1>1, <1>3, <1>4, <1>5
  <2>2. \A m \in here : \E n \in same : p[n] = m
    BY <1>1, <1>3, <1>4, <1>5
  <2> HIDE DEF same, here
  <2>3. b \in Bijection(same, here)
    BY <1>3, <2>1, <2>2 DEF Bijection, Injection, IsInjective, Surjection
  <2> QED
    BY <2>3 DEF ExistsBijection
<1>12. Cardinality(here) = Cardinality(same)
  <2> HIDE DEF same, here
  <2> QED
    BY <1>10, <1>11, FS_Bijection
<1>13. {items[n].value : n \in same} = Configured
  <2>1. ASSUME NEW n \in same PROVE items[n].value \in Configured
    <3>1. n \in D /\ p[n] \in D /\ items[n] = lines[p[n]] /\ items[n].name = Tracker
      BY <1>3, <1>4, <1>5
    <3>2. p[n] \in {m \in DOMAIN lines : lines[m].name = Tracker}
      BY <1>1, <3>1
    <3> QED
      BY <3>1, <3>2 DEF Configured
  <2>2. ASSUME NEW v \in Configured PROVE \E n \in same : items[n].value = v
    <3>1. PICK m \in D : lines[m].name = Tracker /\ v = lines[m].value
      BY <1>1 DEF Configured
    <3>2. PICK n \in D : p[n] = m
      BY <1>3
    <3>3. n \in same /\ items[n].value = v
      BY <1>4, <1>5, <3>1, <3>2
    <3> QED
      BY <3>3
  <2> HIDE DEF same
  <2> QED
    BY <2>1, <2>2
<1>14. Min(same) \in Nat \ {0} /\ Max(same) \in Nat /\ Max(same) <= Len(items)
  BY <1>1, <1>4, <1>7
<1> QED
  BY <1>4, <1>9, <1>10, <1>12, <1>13, <1>14 DEF Lines

\* Wherever bsearch comes down, the values on both sides of it are collected.
LEMMA ValuesAreThose ==
    ASSUME NEW items \in Items, lines \in Configurations,
           NEW found \in DOMAIN items, items[found].name = Tracker
    PROVE  LET v == ValuesFrom(items, found)
           IN  /\ v \in Seq(Value) /\ v # <<>> /\ Len(v) <= MaxTrackers
               /\ Range(v) \subseteq Configured
               /\ Lines <= MaxTrackers => Range(v) = Configured
<1> DEFINE same   == {n \in DOMAIN items : items[n].name = Tracker}
           lo     == Min(same)
           hi     == Max(same)
           before == [n \in 1 .. found - lo |-> items[found - n].value]
           behind == [n \in 1 .. hi - found |-> items[found + n].value]
           all    == (<<items[found].value>> \o before) \o behind
           len    == Min({Len(all), MaxTrackers})
<1>1. ValuesFrom(items, found) = SubSeq(all, 1, len)
  BY DEF ValuesFrom
<1>2. /\ items \in Seq([name : Name, value : Value])
      /\ lo \in Nat \ {0} /\ hi \in Nat /\ hi <= Len(items)
      /\ same = lo .. hi /\ Lines = hi - lo + 1
      /\ {items[n].value : n \in lo .. hi} = Configured
  BY ItemsTogether
<1>3. found \in lo .. hi
  BY <1>2
<1> HIDE DEF lo, hi, same
<1>4. \A n \in lo .. hi : items[n].value \in Value
  <2>1. \A n \in lo .. hi : n \in 1 .. Len(items)
    BY <1>2
  <2> DEFINE Line == [name : Name, value : Value]
  <2>2. items \in Seq(Line) /\ \A l \in Line : l.value \in Value
    BY <1>2
  <2> HIDE DEF Line
  <2>3. \A n \in 1 .. Len(items) : items[n] \in Line
    BY <2>2
  <2> QED
    BY <2>1, <2>2, <2>3
<1>5. before \in Seq(Value) /\ Len(before) = found - lo
  <2>1. found - lo \in Nat /\ \A n \in 1 .. found - lo : items[found - n].value \in Value
    BY <1>2, <1>3, <1>4
  <2> QED
    BY <2>1
<1>6. behind \in Seq(Value) /\ Len(behind) = hi - found
  <2>1. hi - found \in Nat /\ \A n \in 1 .. hi - found : items[found + n].value \in Value
    BY <1>2, <1>3, <1>4
  <2> QED
    BY <2>1
<1>7. /\ \A n \in 1 .. found - lo : before[n] = items[found - n].value
      /\ \A n \in 1 .. hi - found : behind[n] = items[found + n].value
  OBVIOUS
<1> HIDE DEF before, behind
<1>8. /\ all \in Seq(Value) /\ Len(all) = hi - lo + 1
      /\ \A n \in 1 .. hi - lo + 1 :
           all[n] = IF n = 1 THEN items[found].value
                    ELSE IF n <= found - lo + 1 THEN items[found - (n - 1)].value
                    ELSE items[n + lo - 1].value
  <2> DEFINE l == <<items[found].value>> \o before
  <2>1. /\ l \in Seq(Value) /\ Len(l) = found - lo + 1
        /\ \A n \in 1 .. found - lo + 1 : l[n] = IF n = 1 THEN items[found].value
                                                 ELSE items[found - (n - 1)].value
    <3>1. <<items[found].value>> \in Seq(Value) /\ Len(<<items[found].value>>) = 1
      BY <1>3, <1>4
    <3>2. /\ l \in Seq(Value) /\ Len(l) = 1 + Len(before)
          /\ \A n \in 1 .. 1 + Len(before) : l[n] = IF n <= 1 THEN items[found].value ELSE before[n - 1]
      BY <1>5, <3>1
    <3> HIDE DEF l
    <3>3. 1 + Len(before) = found - lo + 1 /\ found - lo \in Nat
      BY <1>2, <1>3, <1>5
    <3>4. ASSUME NEW n \in 1 .. found - lo + 1, n # 1
          PROVE  l[n] = items[found - (n - 1)].value
      <4>1. n - 1 \in 1 .. found - lo /\ ~(n <= 1)
        BY <3>3, <3>4
      <4> QED
        BY <1>7, <3>2, <3>3, <4>1
    <3> QED
      BY <3>2, <3>3, <3>4
  <2>2. all = l \o behind
    OBVIOUS
  <2> HIDE DEF l, all
  <2>3. /\ all \in Seq(Value) /\ Len(all) = Len(l) + Len(behind)
        /\ \A n \in 1 .. Len(l) + Len(behind) : all[n] = IF n <= Len(l) THEN l[n] ELSE behind[n - Len(l)]
    BY <1>6, <2>1, <2>2, ConcatProperties
  <2>4. Len(l) + Len(behind) = hi - lo + 1
    BY <1>2, <1>3, <1>6, <2>1
  <2>5. ASSUME NEW n \in 1 .. hi - lo + 1, ~(n <= found - lo + 1)
        PROVE  all[n] = items[n + lo - 1].value
    <3>1. n - (found - lo + 1) \in 1 .. hi - found /\ found + (n - (found - lo + 1)) = n + lo - 1
      <4>1. lo \in Nat /\ hi \in Nat /\ found \in Nat /\ lo <= found /\ found <= hi
        BY <1>2, <1>3
      <4>2. n \in Nat /\ n <= hi - lo + 1 /\ found - lo + 1 < n
        BY <2>5, <4>1
      <4> QED
        BY <4>1, <4>2
    <3> QED
      BY <1>7, <2>1, <2>3, <2>4, <2>5, <3>1
  <2>6. ASSUME NEW n \in 1 .. hi - lo + 1, n <= found - lo + 1
        PROVE  all[n] = IF n = 1 THEN items[found].value ELSE items[found - (n - 1)].value
    <3>1. n \in 1 .. found - lo + 1
      BY <1>2, <1>3, <2>6
    <3> QED
      BY <2>1, <2>3, <2>4, <2>6, <3>1
  <2>7. \A n \in 1 .. hi - lo + 1 : ~(n <= found - lo + 1) => n # 1
    BY <1>2, <1>3
  <2> QED
    BY <2>3, <2>4, <2>5, <2>6, <2>7
<1> HIDE DEF all
<1>9. \A n \in 1 .. Len(all) : \E m \in lo .. hi : all[n] = items[m].value
  <2> TAKE n \in 1 .. Len(all)
  <2>1. CASE n = 1
    BY <1>3, <1>8, <2>1
  <2>2. CASE n # 1 /\ n <= found - lo + 1
    <3>1. found - (n - 1) \in lo .. hi
      BY <1>2, <1>3, <1>8, <2>2
    <3> QED
      BY <1>8, <2>2, <3>1
  <2>3. CASE ~(n <= found - lo + 1)
    <3>1. n + lo - 1 \in lo .. hi /\ n # 1
      BY <1>2, <1>3, <1>8, <2>3
    <3> QED
      BY <1>8, <2>3, <3>1
  <2> QED
    BY <2>1, <2>2, <2>3
<1>10. \A m \in lo .. hi : \E n \in 1 .. Len(all) : all[n] = items[m].value
  <2> TAKE m \in lo .. hi
  <2>1. CASE m = found
    <3>1. 1 \in 1 .. hi - lo + 1
      BY <1>2, <1>3
    <3> QED
      BY <1>8, <2>1, <3>1
  <2>2. CASE m < found
    <3> DEFINE n == (found - m) + 1
    <3>1. n \in 1 .. hi - lo + 1 /\ n # 1 /\ n <= found - lo + 1 /\ found - (n - 1) = m
      BY <1>2, <1>3, <2>2
    <3> HIDE DEF n
    <3> QED
      BY <1>8, <3>1
  <2>3. CASE m > found
    <3> DEFINE n == (m - lo) + 1
    <3>1. n \in 1 .. hi - lo + 1 /\ n # 1 /\ ~(n <= found - lo + 1) /\ n + lo - 1 = m
      BY <1>2, <1>3, <2>3
    <3> HIDE DEF n
    <3> QED
      BY <1>8, <3>1
  <2> QED
    BY <1>2, <1>3, <2>1, <2>2, <2>3
<1>11. /\ len \in Nat \ {0} /\ len <= Len(all) /\ len <= MaxTrackers
       /\ Len(all) <= MaxTrackers => len = Len(all)
  <2>1. Len(all) \in Nat \ {0} /\ MaxTrackers \in Nat \ {0}
    BY <1>2, <1>3, <1>8, StartupAssumption
  <2> DEFINE B == {Len(all), MaxTrackers}
  <2>2. B \in SUBSET Nat /\ B # {} /\ \A n \in B : n <= Len(all) + MaxTrackers
    BY <2>1
  <2>3. Len(all) + MaxTrackers \in Nat
    BY <2>1
  <2>4. len \in B /\ \A n \in B : len <= n
    <3>1. len = Min(B)
      OBVIOUS
    <3> HIDE DEF B, len
    <3> QED
      BY <2>2, <2>3, <3>1, MinMax
  <2> HIDE DEF len
  <2> QED
    BY <2>1, <2>4
<1> HIDE DEF len
<1> DEFINE v == SubSeq(all, 1, len)
<1>12. v \in Seq(Value) /\ Len(v) = len /\ \A n \in 1 .. len : v[n] = all[n]
  BY <1>8, <1>11
<1> HIDE DEF v
<1>13. v # <<>> /\ DOMAIN v = 1 .. len
  BY <1>11, <1>12
<1>14. Range(v) \subseteq Configured
  BY <1>2, <1>9, <1>11, <1>12, <1>13 DEF Range
<1>15. ASSUME Lines <= MaxTrackers PROVE Configured \subseteq Range(v)
  <2>1. len = Len(all)
    BY <1>2, <1>8, <1>11, <1>15
  <2> QED
    BY <1>2, <1>10, <1>12, <1>13, <2>1 DEF Range
<1>16. ValuesFrom(items, found) = v
  BY <1>1 DEF v
<1> QED
  BY <1>11, <1>12, <1>13, <1>14, <1>15, <1>16

LEMMA NothingInTheTable ==
    /\ <<>> \in Seq(Value) /\ <<>> \in Seq(Server) /\ Len(<<>>) = 0
    /\ IsSorted(<<>>, Before) /\ Range(<<>>) = {}
<1>1. <<>> \in Seq(Value) /\ <<>> \in Seq(Server) /\ Len(<<>>) = 0 /\ DOMAIN <<>> = {}
  OBVIOUS
<1> QED
  BY <1>1 DEF IsSorted, Range

\* Steps that do not touch the table, or clear it.
LEMMA TableKept ==
    ASSUME TableInv, UNCHANGED lines,
           \/ UNCHANGED <<values, next, servers>>
           \/ values' = <<>> /\ next' = 0 /\ servers' = <<>>,
           pc' \in {"conf", "log", "data", "dirs", "subs", "flag", "serving", "refused", "down"},
           \/ pc' \in {"conf", "refused", "down"}
           \/ pc \notin {"conf", "copy", "refused", "down"} /\ UNCHANGED servers,
           made' \subseteq {LogDir, DataDir} \cup {<<i>> : i \in Index} \cup (Index \X Index),
           flag' \in {"none", "empty", "written"},
           at' \in (0 .. DirCount) \X (0 .. DirCount),
           faulted' \in BOOLEAN,
           starts' \in 1 .. MaxStarts
    PROVE  TableInv'
<1>1. /\ values' \in Seq(Value) /\ Len(values') <= MaxTrackers
      /\ next' \in 0 .. Len(values')
      /\ servers' \in Seq(Server)
  <2>1. CASE UNCHANGED <<values, next, servers>>
    BY <2>1 DEF TableInv, StartupTypeOK
  <2>2. CASE values' = <<>> /\ next' = 0 /\ servers' = <<>>
    <3>1. 0 <= MaxTrackers /\ 0 \in 0 .. 0
      BY StartupAssumption
    <3> QED
      BY <2>2, <3>1, NothingInTheTable
  <2> QED
    BY <2>1, <2>2
<1>2. StartupTypeOK'
  <2>1. lines' \in Configurations
    BY DEF TableInv, StartupTypeOK
  <2> QED
    BY <1>1, <2>1 DEF StartupTypeOK
<1>3. IsSorted(servers, Before)'
  BY NothingInTheTable DEF TableInv, IsSorted
<1>4. TrackersConfigured'
  BY DEF TableInv, TrackersConfigured, Configured, Lines
<1> QED
  BY <1>2, <1>3, <1>4 DEF TableInv

LEMMA InitTable == Init => TableInv
<1> SUFFICES ASSUME Init PROVE TableInv
  OBVIOUS
<1>1. StartupTypeOK
  <2>1. 0 <= MaxTrackers /\ 0 \in 0 .. 0 /\ 0 \in 0 .. DirCount /\ 1 \in 1 .. MaxStarts
    BY StartupAssumption
  <2>2. values \in Seq(Value) /\ Len(values) = 0 /\ servers \in Seq(Server)
    BY NothingInTheTable DEF Init
  <2>3. Len(values) <= MaxTrackers /\ next \in 0 .. Len(values)
    BY <2>1, <2>2 DEF Init
  <2>4. /\ lines \in Configurations /\ pc = "conf" /\ made = {} /\ flag = "none"
        /\ at = <<0, 0>> /\ faulted = FALSE /\ starts = 1
    BY DEF Init
  <2> QED
    BY <2>1, <2>2, <2>3, <2>4 DEF StartupTypeOK
<1>2. IsSorted(servers, Before)
  BY NothingInTheTable DEF Init
<1> QED
  BY <1>1, <1>2 DEF Init, TableInv, TrackersConfigured

\* The values are collected.
LEMMA GetValuesTable ==
    ASSUME TableInv, GetValues
    PROVE  TableInv'
<1>0. PICK items \in Items : \E found \in {n \in DOMAIN items : items[n].name = Tracker} :
         values' = ValuesFrom(items, found)
  BY DEF GetValues
<1>1. PICK found \in {n \in DOMAIN items : items[n].name = Tracker} :
         values' = ValuesFrom(items, found)
  BY <1>0
<1>2. /\ values' \in Seq(Value) /\ values' # <<>> /\ Len(values') <= MaxTrackers
      /\ Range(values') \subseteq Configured
      /\ Lines <= MaxTrackers => Range(values') = Configured
  <2>1. lines \in Configurations
    BY DEF TableInv, StartupTypeOK
  <2> QED
    BY <1>1, <2>1, ValuesAreThose
<1>3. pc' = "copy" /\ next' = 0 /\ servers' = <<>> /\ UNCHANGED <<lines, at, made, flag, faulted, starts>>
  BY DEF GetValues, disk
<1>4. StartupTypeOK'
  <2>1. next' \in 0 .. Len(values')
    BY <1>2, <1>3
  <2> QED
    BY <1>2, <1>3, <2>1, NothingInTheTable DEF TableInv, StartupTypeOK
<1>5. IsSorted(servers, Before)'
  BY <1>3, NothingInTheTable DEF IsSorted
<1>6. Collected'
  <2>1. Configured' = Configured /\ Lines' = Lines
    BY <1>3 DEF Configured, Lines
  <2>2. 1 .. next' = {}
    BY <1>3
  <2>3. Range(servers') = {} /\ Len(servers') <= next'
    BY <1>3, NothingInTheTable
  <2>4. {ServerOf(values'[n]) : n \in 1 .. next'} = {}
    BY <2>2
  <2> QED
    BY <1>2, <2>1, <2>2, <2>3, <2>4 DEF Collected
<1> QED
  BY <1>3, <1>4, <1>5, <1>6 DEF TableInv, TrackersConfigured

\* An acceptable value is a server.
LEMMA ServerOfValue ==
    ASSUME NEW v \in Value, Acceptable(v)
    PROVE  ServerOf(v) \in Server /\ v # NoColon
<1>1. v \in [host : Host, port : Int] /\ v # NoColon
  BY DEF Value, Acceptable
<1>2. (IF v.port <= 0 THEN DefaultPort ELSE v.port) \in Nat \ {0}
  BY <1>1, StartupAssumption
<1>3. Resolve[v.host] \in Ip
  BY DEF Acceptable
<1> QED
  BY <1>1, <1>2, <1>3 DEF ServerOf, Server

\* A round of copying: the server is in the table afterwards, once.
LEMMA CopyTable ==
    ASSUME TableInv, Copy
    PROVE  TableInv'
<1> DEFINE s == ServerOf(values[next + 1])
<1>1. /\ pc = "copy" /\ next < Len(values) /\ Acceptable(values[next + 1])
      /\ servers' = IF Found(s) THEN servers ELSE Inserted(s)
      /\ next' = next + 1
      /\ UNCHANGED <<lines, pc, values, at, made, flag, faulted, starts>>
  BY DEF Copy, disk
<1>2. /\ values \in Seq(Value) /\ next \in Nat /\ next + 1 \in 1 .. Len(values) /\ Len(values) \in Nat
      /\ servers \in Seq(Server) /\ IsSorted(servers, Before) /\ Collected
  BY <1>1 DEF TableInv, StartupTypeOK
<1>3. s \in Server
  BY <1>1, <1>2, ServerOfValue
<1> HIDE DEF s
<1>4. Found(s) <=> s \in Range(servers)
  BY <1>2, <1>3, FoundIfThere
<1>5. /\ servers' \in Seq(Server) /\ Len(servers') <= Len(servers) + 1
      /\ IsSorted(servers', Before)
      /\ Range(servers') = Range(servers) \cup {s}
  <2>1. CASE Found(s)
    BY <1>1, <1>2, <1>4, <2>1
  <2>2. CASE ~Found(s)
    <3>1. servers' = Inserted(s) /\ s \notin Range(servers)
      BY <1>1, <1>4, <2>2
    <3>2. /\ Inserted(s) \in Seq(Server) /\ Len(Inserted(s)) = Len(servers) + 1
          /\ IsSorted(Inserted(s), Before) /\ Range(Inserted(s)) = Range(servers) \cup {s}
      BY <1>2, <1>3, <3>1, InsertedInOrder
    <3>3. Len(servers) + 1 <= Len(servers) + 1
      BY <1>2
    <3> QED
      BY <3>1, <3>2, <3>3
  <2> QED
    BY <2>1, <2>2
<1>6. StartupTypeOK'
  <2>1. next' \in 0 .. Len(values')
    BY <1>1, <1>2
  <2> QED
    BY <1>1, <1>5, <2>1 DEF TableInv, StartupTypeOK
<1>7. Collected'
  <2>1. Configured' = Configured /\ Lines' = Lines
    BY <1>1 DEF Configured, Lines
  <2>2. 1 .. next + 1 = (1 .. next) \cup {next + 1}
    BY <1>2
  <2>3. \A n \in 1 .. next' : Acceptable(values'[n])
    BY <1>1, <1>2, <2>2 DEF Collected
  <2>4. Range(servers') = {ServerOf(values'[n]) : n \in 1 .. next'}
    <3>1. {ServerOf(values[n]) : n \in 1 .. next + 1} = {ServerOf(values[n]) : n \in 1 .. next} \cup {s}
      BY <2>2 DEF s
    <3>2. Range(servers) = {ServerOf(values[n]) : n \in 1 .. next}
      BY <1>2 DEF Collected
    <3> QED
      BY <1>1, <1>5, <3>1, <3>2
  <2>5. Len(servers') <= next'
    <3>1. Len(servers) <= next /\ Len(servers) \in Nat /\ Len(servers') \in Nat
      BY <1>2, <1>5 DEF Collected
    <3> QED
      BY <1>1, <1>2, <1>5, <3>1
  <2> QED
    BY <1>1, <1>2, <2>1, <2>3, <2>4, <2>5 DEF Collected
<1>8. IsSorted(servers, Before)'
  BY <1>5 DEF IsSorted, Before
<1> QED
  BY <1>1, <1>6, <1>7, <1>8 DEF TableInv, TrackersConfigured

\* What was copied is what was collected.
LEMMA CopiedTable ==
    ASSUME TableInv, Copied
    PROVE  TableInv'
<1>1. /\ pc = "copy" /\ next = Len(values) /\ pc' = "log" /\ values' = <<>> /\ next' = 0
      /\ UNCHANGED <<lines, servers, at, made, flag, faulted, starts>>
  BY DEF Copied, disk
<1>2. values \in Seq(Value) /\ Len(values) \in Nat /\ DOMAIN values = 1 .. Len(values) /\ Collected
  BY <1>1 DEF TableInv, StartupTypeOK
<1>3. \A n \in 1 .. Len(values) : values[n] \in Range(values) /\ values[n] # NoColon
  BY <1>1, <1>2 DEF Collected, Acceptable, Range
<1>4. Range(servers) = {ServerOf(v) : v \in Range(values)}
  <2>1. Range(servers) = {ServerOf(values[n]) : n \in 1 .. Len(values)}
    BY <1>1, <1>2 DEF Collected
  <2> QED
    BY <1>2, <2>1 DEF Range
<1>5. Range(servers) \subseteq {ServerOf(v) : v \in Configured \ {NoColon}}
  <2>1. \A v \in Range(values) : v \in Configured \ {NoColon}
    BY <1>2, <1>3 DEF Collected, Range
  <2> QED
    BY <1>4, <2>1
<1>6. Lines <= MaxTrackers => Range(servers) = {ServerOf(v) : v \in Configured}
  BY <1>2, <1>4 DEF Collected
<1>7. servers # <<>>
  <2>1. Len(values) # 0
    BY <1>2 DEF Collected
  <2>2. values[1] \in Range(values)
    BY <1>2, <1>3, <2>1
  <2>3. Range(servers) # {}
    BY <1>4, <2>2
  <2> QED
    BY <2>3, NothingInTheTable
<1>8. TrackersConfigured'
  <2>1. Configured' = Configured /\ Lines' = Lines
    BY <1>1 DEF Configured, Lines
  <2>2. Range(servers)' = Range(servers)
    BY <1>1
  <2> QED
    BY <1>1, <1>5, <1>6, <1>7, <2>1, <2>2 DEF TrackersConfigured
<1>9. StartupTypeOK'
  BY <1>1, NothingInTheTable, StartupAssumption DEF TableInv, StartupTypeOK
<1>10. IsSorted(servers, Before)'
  BY <1>1 DEF TableInv, IsSorted, Before
<1> QED
  BY <1>1, <1>8, <1>9, <1>10 DEF TableInv

\* The directories and the flag file: the table is left alone.
LEMMA DirsTable ==
    ASSUME TableInv, DirsInv, Dirs \/ OpenFlag \/ WriteFlag
    PROVE  TableInv'
<1> DEFINE D == {LogDir, DataDir} \cup {<<i>> : i \in Index} \cup (Index \X Index)
           A == (0 .. DirCount) \X (0 .. DirCount)
<1>1. /\ made \subseteq D /\ flag \in {"none", "empty", "written"} /\ at \in A
      /\ faulted \in BOOLEAN /\ starts \in 1 .. MaxStarts
  BY DEF TableInv, StartupTypeOK
<1>2. 0 \in 0 .. DirCount /\ LogDir \in D /\ DataDir \in D
  BY StartupAssumption
<1>3. /\ pc \notin {"conf", "copy", "refused", "down"}
      /\ UNCHANGED <<lines, values, next, servers, starts>>
  BY DEF Dirs, MakeLogDir, MakeData, MakeBase, OthersFail, MakeDir, MakeSub, MakeSubRefused,
         LeaveDir, OpenFlag, WriteFlag, memory, disk
<1>4. pc' \in {"log", "data", "dirs", "subs", "flag", "serving", "refused"}
  BY DEF Dirs, MakeLogDir, MakeData, MakeBase, OthersFail, MakeDir, MakeSub, MakeSubRefused,
         LeaveDir, OpenFlag, WriteFlag, Refuse
<1>5. faulted' \in BOOLEAN /\ flag' \in {"none", "empty", "written"}
  BY <1>1 DEF Dirs, MakeLogDir, MakeData, MakeBase, OthersFail, MakeDir, MakeSub, MakeSubRefused,
         LeaveDir, OpenFlag, WriteFlag, SubPasses, Creates, Fails, memory, disk
<1>6. made' \subseteq D /\ at' \in A
  <2>1. CASE MakeLogDir \/ MakeData
    BY <1>1, <1>2, <2>1 DEF MakeLogDir, MakeData, MakeBase, Creates, Fails
  <2>2. CASE OthersFail \/ OpenFlag \/ WriteFlag
    BY <1>1, <2>2 DEF OthersFail, OpenFlag, WriteFlag, memory, disk
  <2>3. CASE MakeDir
    <3>1. at[1] \in Index /\ at[1] \in 0 .. DirCount
      BY <1>1, <2>3, StartupAssumption DEF MakeDir, Index
    <3>2. <<at[1]>> \in D
      BY <3>1
    <3> HIDE DEF D
    <3> QED
      BY <1>1, <1>2, <2>3, <3>1, <3>2 DEF MakeDir, Creates, Fails
  <2>4. CASE MakeSub \/ MakeSubRefused
    <3>1. at[1] \in Index /\ at[2] \in Index /\ at = <<at[1], at[2]>>
      BY <1>1, <2>4, StartupAssumption DEF MakeSub, MakeSubRefused, DirsInv, PassedSoFar, Index
    <3>2. at \in D /\ <<at[1], at[2] + 1>> \in A
      BY <1>1, <3>1, StartupAssumption DEF Index
    <3> HIDE DEF D, A
    <3> QED
      BY <1>1, <2>4, <3>2 DEF MakeSub, MakeSubRefused, SubPasses, Creates, Fails, memory
  <2>5. CASE LeaveDir
    <3>1. at[1] \in Index
      BY <2>5 DEF LeaveDir, DirsInv, PassedSoFar
    <3>2. <<at[1] + 1, 0>> \in A
      BY <1>2, <3>1, StartupAssumption DEF Index
    <3> HIDE DEF D, A
    <3> QED
      BY <1>1, <2>5, <3>2 DEF LeaveDir, disk
  <2> QED
    BY <2>1, <2>2, <2>3, <2>4, <2>5 DEF Dirs
<1> QED
  BY <1>1, <1>3, <1>4, <1>5, <1>6, TableKept

\* A start that is refused, cut short or begun clears it or leaves it.
LEMMA EndsTable ==
    ASSUME TableInv, GetNoValue \/ CopyRefused \/ Crash \/ Restart
    PROVE  TableInv'
<1>1. /\ made \subseteq {LogDir, DataDir} \cup {<<i>> : i \in Index} \cup (Index \X Index)
      /\ flag \in {"none", "empty", "written"}
      /\ at \in (0 .. DirCount) \X (0 .. DirCount)
      /\ faulted \in BOOLEAN /\ starts \in 1 .. MaxStarts
  BY DEF TableInv, StartupTypeOK
<1>2. <<0, 0>> \in (0 .. DirCount) \X (0 .. DirCount)
  BY StartupAssumption
<1>3. /\ UNCHANGED <<lines, made, flag>> /\ pc' \in {"conf", "refused", "down"}
      /\ \/ UNCHANGED <<values, next, servers>>
         \/ values' = <<>> /\ next' = 0 /\ servers' = <<>>
      /\ at' = at \/ at' = <<0, 0>>
      /\ faulted' = faulted \/ faulted' = FALSE
  BY DEF GetNoValue, CopyRefused, Crash, Restart, Refuse, memory, disk
<1>4. starts' \in 1 .. MaxStarts
  <2>1. starts' = starts \/ (starts < MaxStarts /\ starts' = starts + 1)
    BY DEF GetNoValue, CopyRefused, Crash, Restart
  <2> QED
    BY <1>1, <2>1, StartupAssumption
<1> QED
  BY <1>1, <1>2, <1>3, <1>4, TableKept

LEMMA StepTable == TableInv /\ DirsInv /\ [Next]_vars => TableInv'
<1> SUFFICES ASSUME TableInv, DirsInv, [Next]_vars PROVE TableInv'
  OBVIOUS
<1>1. CASE Load
  BY <1>1, GetValuesTable, CopyTable, CopiedTable, EndsTable DEF Load
<1>2. CASE Dirs \/ OpenFlag \/ WriteFlag
  BY <1>2, DirsTable
<1>3. CASE Crash \/ Restart
  BY <1>3, EndsTable
<1>4. CASE UNCHANGED vars
  <2>1. UNCHANGED <<lines, pc, values, next, servers, at, made, flag, faulted, starts>>
    BY <1>4 DEF vars, memory, disk
  <2>2. StartupTypeOK'
    BY <2>1 DEF TableInv, StartupTypeOK
  <2>3. IsSorted(servers, Before)'
    BY <2>1 DEF TableInv, IsSorted, Before
  <2>4. pc' = "copy" => Collected'
    BY <2>1 DEF TableInv, Collected, Configured, Lines, Acceptable, ServerOf
  <2>5. TrackersConfigured'
    BY <2>1 DEF TableInv, TrackersConfigured, Configured, Lines, ServerOf
  <2> QED
    BY <2>2, <2>3, <2>4, <2>5 DEF TableInv
<1> QED
  BY <1>1, <1>2, <1>3, <1>4 DEF Next

\* The table is what it should be at every step of its making.
THEOREM TableInvariance == Spec => []TableInv
<1>1. DirsInv /\ TableInv /\ [Next]_vars => DirsInv' /\ TableInv'
  BY StepDirs, StepTable
<1>2. Init => DirsInv /\ TableInv
  BY InitDirs, InitTable
<1> QED
  BY <1>1, <1>2, PTL DEF Spec

\* The start's variables have their types: no more values than the array has
\* room for, and every directory is one of those the names of files refer to.
THEOREM StartupTyped == Spec => []StartupTypeOK
<1>1. TableInv => StartupTypeOK
  BY DEF TableInv
<1> QED
  BY <1>1, TableInvariance, PTL

\* The table is strictly sorted at every step of copying, so that the next
\* bsearch finds what is there, and never longer than what was allocated.
THEOREM TableSorted == Spec => []TrackersSorted
<1>1. TableInv => TrackersSorted
  <2> SUFFICES ASSUME TableInv PROVE TrackersSorted
    OBVIOUS
  <2>1. ASSUME pc = "copy" PROVE Len(servers) <= Len(values)
    <3>1. /\ Len(servers) \in Nat /\ Len(values) \in Nat /\ next \in 0 .. Len(values)
          /\ Len(servers) <= next
      BY <2>1 DEF TableInv, StartupTypeOK, Collected
    <3> QED
      BY <3>1
  <2> QED
    BY <2>1 DEF TrackersSorted, TableInv
<1> QED
  BY <1>1, TableInvariance, PTL

\* A server that has read its configuration has every tracker the file names,
\* once, and no other; beyond the maximum it has some of them.
THEOREM TableConfigured == Spec => []TrackersConfigured
<1>1. TableInv => TrackersConfigured
  BY DEF TableInv
<1> QED
  BY <1>1, TableInvariance, PTL
=============================================================================
