--------------------------- MODULE LifecycleProofs ---------------------------
(***************************************************************************)
(* What main and the connection threads keep of g_storage_thread_count and *)
(* its lock, for any number of connections, any limit and any trackers.    *)
(***************************************************************************)
EXTENDS Lifecycle, FiniteSetTheorems, TLAPS

-----------------------------------------------------------------------------
(* The threads that are counted.                                           *)

\* There are finitely many of them.
LEMMA ActiveIsFinite ==
    /\ IsFiniteSet(Active) /\ IsFiniteSet(Active')
    /\ Cardinality(Active) \in Nat /\ Cardinality(Active') \in Nat
<1>1. Active \subseteq Conn /\ Active' \subseteq Conn
  BY DEF Active
<1> QED
  BY <1>1, FS_Subset, FS_CardinalityType, LifecycleAssumption

\* A thread that moves on inside the loop stays counted.
LEMMA ActiveStays ==
    ASSUME LifecycleTypeOK, NEW c \in Conn, c \in Active,
           NEW to \in {"test", "recv", "send", "lock", "load", "store"},
           conn' = [conn EXCEPT ![c] = to]
    PROVE  Active' = Active
BY DEF Active, LifecycleTypeOK

\* A new thread is counted, and one that has stored the counter no more.
LEMMA ActiveGrows ==
    ASSUME LifecycleTypeOK, NEW c \in Conn, conn[c] = "none",
           conn' = [conn EXCEPT ![c] = "test"]
    PROVE  Cardinality(Active') = Cardinality(Active) + 1
<1>1. Active' = Active \cup {c} /\ c \notin Active
  BY DEF Active, LifecycleTypeOK
<1> QED
  BY <1>1, ActiveIsFinite, FS_AddElement

LEMMA ActiveShrinks ==
    ASSUME LifecycleTypeOK, NEW c \in Conn, conn[c] = "store",
           conn' = [conn EXCEPT ![c] = "unlock"]
    PROVE  /\ Active' = Active \ {c}
           /\ Cardinality(Active') = Cardinality(Active) - 1
           /\ Cardinality(Active) >= 1
<1>1. Active' = Active \ {c} /\ c \in Active
  BY DEF Active, LifecycleTypeOK
<1>2. Cardinality(Active') = Cardinality(Active) - 1
  BY <1>1, ActiveIsFinite, FS_RemoveElement
<1> QED
  BY <1>1, <1>2, ActiveIsFinite

-----------------------------------------------------------------------------
(* The invariant is inductive.                                             *)

\* A process that has just begun.
LEMMA InitInv == Init => LifecycleInv
<1> SUFFICES ASSUME Init PROVE LifecycleInv
  OBVIOUS
<1>1. Active = {} /\ Cardinality(Active) = 0
  BY FS_EmptySet DEF Init, Active
<1>2. Cardinality(Tracker) \in Nat
  BY FS_CardinalityType, LifecycleAssumption
<1>3. LifecycleTypeOK
  BY <1>2 DEF Init, LifecycleTypeOK
<1>4. LockOwned /\ LoadedIsCurrent
  BY LifecycleAssumption DEF Init, LockOwned, LoadedIsCurrent, MainInside, ConnInside
<1>5. CountMatches /\ PoolBounded /\ DrainedBeforeShutdown
  BY <1>1, LifecycleAssumption DEF Init, CountMatches, PoolBounded, DrainedBeforeShutdown
<1> QED
  BY <1>3, <1>4, <1>5 DEF LifecycleInv

\* The steps of main, and the signals, that touch neither lock nor counter.
MainElsewhere ==
    \/ \E r \in Tracker : StartReporter(r)
    \/ StartReporterFails \/ AllStarted
    \/ TestFlag \/ AcceptNothing \/ AcceptConnection \/ AcceptBroken
    \/ DrainSleeps \/ DrainWakes \/ Drained \/ ShutDown
    \/ Signal

LEMMA MainElsewhereInv == LifecycleInv /\ MainElsewhere => LifecycleInv'
<1> SUFFICES ASSUME LifecycleInv, MainElsewhere PROVE LifecycleInv'
  OBVIOUS
<1> USE DEF LifecycleInv, MainElsewhere, StartReporter, StartReporterFails, AllStarted, TestFlag,
            AcceptNothing, AcceptConnection, AcceptBroken, DrainSleeps, DrainWakes, Drained,
            ShutDown, Signal, MainGoes
<1>1. UNCHANGED <<lock, count, conn, tmp>>
  OBVIOUS
<1>2. \/ main' = main
      \/ /\ ~MainInside /\ main \notin Over
         /\ main' \notin {"limit", "load", "store", "unlock"}
  BY DEF MainInside, Over
<1>3. Active' = Active
  BY <1>1 DEF Active
<1>4. LifecycleTypeOK'
  <2>1. go' \in BOOLEAN /\ fpOpen' \in BOOLEAN
    BY DEF LifecycleTypeOK
  <2>2. main' \in {"start", "test", "accept", "lock", "limit", "load", "store", "unlock",
                   "drain", "sleep", "shutdown"} \cup Over
    BY DEF LifecycleTypeOK, Over
  <2>3. /\ reporter' \in [Tracker -> {"none", "barrier", "session", "end", "done"}]
        /\ serverCount' \in Nat /\ reporterCount' \in Nat
    BY DEF LifecycleTypeOK, counters
  <2> QED
    BY <1>1, <2>1, <2>2, <2>3 DEF LifecycleTypeOK
<1>5. LockOwned' /\ LoadedIsCurrent' /\ CountMatches' /\ PoolBounded'
  BY <1>1, <1>2, <1>3 DEF LockOwned, LoadedIsCurrent, CountMatches, PoolBounded, MainInside,
                          ConnInside, Alive, Over
<1>6. DrainedBeforeShutdown'
  <2>1. CASE Drained
    <3>1. Cardinality(Active) = 0
      BY <2>1, ActiveIsFinite DEF StillHas, CountMatches, Alive, Over, LifecycleTypeOK
    <3> QED
      BY <1>3, <3>1, ActiveIsFinite, FS_EmptySet DEF DrainedBeforeShutdown
  <2>2. CASE main' = main \/ main = "shutdown" \/ main' \notin {"shutdown", "crashed", "exited"}
    BY <1>3, <2>2 DEF DrainedBeforeShutdown
  <2> QED
    BY <2>1, <2>2
<1> QED
  BY <1>4, <1>5, <1>6

\* The steps of main around its ++g_storage_thread_count.
LEMMA MainInsideInv ==
    ASSUME LifecycleInv,
           \/ MainLocks \/ Refuse \/ (\E c \in Conn : CreateThread(c))
           \/ MainLoads \/ MainStores \/ MainUnlocks
    PROVE  LifecycleInv'
<1> USE DEF LifecycleInv, MainGoes
<1>1. CASE MainLocks \/ Refuse \/ MainLoads \/ MainUnlocks
  <2> USE DEF MainLocks, Refuse, MainLoads, MainUnlocks
  <2>1. Active' = Active /\ DrainedBeforeShutdown'
    BY <1>1 DEF Active, DrainedBeforeShutdown
  <2>2. LifecycleTypeOK'
    BY <1>1 DEF LifecycleTypeOK, counters
  <2>3. LockOwned'
    BY <1>1, LifecycleAssumption DEF LockOwned, LifecycleTypeOK, MainInside, ConnInside, Alive, Over
  <2>4. LoadedIsCurrent'
    BY <1>1, LifecycleAssumption DEF LoadedIsCurrent, LifecycleTypeOK, Alive, Over
  <2>5. CountMatches' /\ PoolBounded'
    BY <1>1, <2>1 DEF CountMatches, PoolBounded, Alive, Over
  <2> QED
    BY <2>1, <2>2, <2>3, <2>4, <2>5
<1>2. ASSUME NEW c \in Conn, CreateThread(c) PROVE LifecycleInv'
  <2> USE <1>2 DEF CreateThread
  <2>1. Cardinality(Active') = Cardinality(Active) + 1
    BY ActiveGrows
  <2>2. count = Cardinality(Active) /\ count < MaxConnections
    BY ActiveIsFinite, LifecycleAssumption DEF CountMatches, LifecycleTypeOK, Alive, Over
  <2>3. LifecycleTypeOK'
    BY DEF LifecycleTypeOK, counters
  <2>4. LockOwned' /\ LoadedIsCurrent'
    BY DEF LockOwned, LoadedIsCurrent, LifecycleTypeOK, MainInside, ConnInside, Alive, Over
  <2>5. CountMatches' /\ PoolBounded' /\ DrainedBeforeShutdown'
    BY <2>1, <2>2, ActiveIsFinite, LifecycleAssumption
       DEF CountMatches, PoolBounded, DrainedBeforeShutdown
  <2> QED
    BY <2>3, <2>4, <2>5
<1>3. CASE MainStores
  <2> USE <1>3 DEF MainStores
  <2>1. Active' = Active /\ DrainedBeforeShutdown'
    BY DEF Active, DrainedBeforeShutdown
  <2>2. count' = count + 1 /\ lock = "main"
    BY DEF LoadedIsCurrent, LockOwned, MainInside, Alive, Over
  <2>3. LifecycleTypeOK'
    BY <2>2 DEF LifecycleTypeOK, counters
  <2>4. LockOwned' /\ LoadedIsCurrent'
    BY <2>2, LifecycleAssumption
       DEF LockOwned, LoadedIsCurrent, LifecycleTypeOK, MainInside, ConnInside, Alive, Over
  <2>5. CountMatches' /\ PoolBounded'
    BY <2>1, <2>2 DEF CountMatches, PoolBounded, LifecycleTypeOK, Alive, Over
  <2> QED
    BY <2>1, <2>3, <2>4, <2>5
<1> QED
  BY <1>1, <1>2, <1>3

\* The steps of a connection thread.
LEMMA ConnInv ==
    ASSUME LifecycleInv, NEW c \in Conn, ConnStep(c) \/ ClientStep(c)
    PROVE  LifecycleInv'
<1> USE DEF LifecycleInv, ConnGoes
<1>0. main \in {"shutdown", "crashed", "exited"} => Active = {}
  BY DEF DrainedBeforeShutdown
<1>1. CASE \/ ConnTests(c) \/ ConnContinues(c) \/ ConnBreaks(c)
           \/ ConnSends(c) \/ ConnSent(c) \/ ConnSendBreaks(c)
           \/ ConnLocks(c) \/ ConnLoads(c)
  <2> USE DEF ConnTests, ConnContinues, ConnBreaks, ConnSends, ConnSent, ConnSendBreaks,
              ConnLocks, ConnLoads
  <2>1. Active' = Active
    BY <1>1 DEF Active, LifecycleTypeOK
  <2>2. LifecycleTypeOK'
    <3>1. go' \in BOOLEAN
      BY <1>1, Zenon DEF LifecycleTypeOK
    <3>2. UNCHANGED <<main, fpOpen, count, reporter, counters>>
      BY <1>1
    <3>3. /\ lock' \in Conn \cup {"main", "free"}
          /\ tmp' \in [Conn \cup {"main"} -> Nat]
          /\ conn' \in [Conn -> {"none", "test", "recv", "send", "lock", "load", "store", "unlock",
                               "close"}]
      BY <1>1 DEF LifecycleTypeOK
    <3> QED
      BY <3>1, <3>2, <3>3 DEF LifecycleTypeOK, counters
  <2>3. LockOwned'
    BY <1>1, LifecycleAssumption DEF LockOwned, LifecycleTypeOK, MainInside, ConnInside, Alive
  <2>4. LoadedIsCurrent'
    BY <1>1, LifecycleAssumption DEF LoadedIsCurrent, LifecycleTypeOK, Alive
  <2>5. CountMatches' /\ PoolBounded' /\ DrainedBeforeShutdown'
    BY <1>0, <1>1, <2>1 DEF CountMatches, PoolBounded, DrainedBeforeShutdown, Alive
  <2> QED
    BY <2>2, <2>3, <2>4, <2>5
<1>2. CASE ConnKills(c)
  <2> USE <1>2 DEF ConnKills
  <2>1. Active' = Active
    BY DEF Active
  <2>2. LifecycleTypeOK'
    BY DEF LifecycleTypeOK, counters, Over
  <2>3. LockOwned' /\ LoadedIsCurrent' /\ CountMatches' /\ PoolBounded' /\ DrainedBeforeShutdown'
    BY <2>1 DEF LockOwned, LoadedIsCurrent, CountMatches, PoolBounded, DrainedBeforeShutdown,
                Alive, Over
  <2> QED
    BY <2>2, <2>3
<1>3. CASE ConnStores(c)
  <2> USE <1>3 DEF ConnStores
  <2>1. /\ Active' = Active \ {c}
        /\ Cardinality(Active') = Cardinality(Active) - 1
        /\ Cardinality(Active) >= 1
    BY ActiveShrinks
  <2>2. count' = count - 1 /\ lock = c /\ ~MainInside
    BY LifecycleAssumption DEF LoadedIsCurrent, LockOwned, ConnInside
  <2>3. count = Cardinality(Active)
    BY <2>2, ActiveIsFinite DEF CountMatches, LifecycleTypeOK, MainInside
  <2>4. LifecycleTypeOK'
    BY <2>1, <2>2, <2>3, ActiveIsFinite DEF LifecycleTypeOK, counters
  <2>5. LockOwned' /\ LoadedIsCurrent'
    BY <2>2, LifecycleAssumption
       DEF LockOwned, LoadedIsCurrent, LifecycleTypeOK, MainInside, ConnInside, Alive
  <2>6. CountMatches' /\ PoolBounded' /\ DrainedBeforeShutdown'
    BY <1>0, <2>1, <2>2, <2>3, ActiveIsFinite, LifecycleAssumption
       DEF CountMatches, PoolBounded, DrainedBeforeShutdown, MainInside
  <2> QED
    BY <2>4, <2>5, <2>6
<1>4. CASE ConnUnlocks(c) \/ ConnCloses(c)
  <2> USE DEF ConnUnlocks, ConnCloses
  <2>1. Active' = Active
    BY <1>4 DEF Active, LifecycleTypeOK
  <2>2. LifecycleTypeOK'
    BY <1>4 DEF LifecycleTypeOK, counters
  <2>3. LockOwned' /\ LoadedIsCurrent'
    BY <1>4, LifecycleAssumption
       DEF LockOwned, LoadedIsCurrent, LifecycleTypeOK, MainInside, ConnInside, Alive
  <2>4. CountMatches' /\ PoolBounded' /\ DrainedBeforeShutdown'
    BY <1>0, <1>4, <2>1 DEF CountMatches, PoolBounded, DrainedBeforeShutdown, Alive
  <2> QED
    BY <2>2, <2>3, <2>4
<1> QED
  BY <1>1, <1>2, <1>3, <1>4 DEF ConnStep, ClientStep

\* The steps of a reporter change only what is said of reporters.
LEMMA ReporterInv ==
    ASSUME LifecycleInv, NEW r \in Tracker, ReporterStep(r)
    PROVE  LifecycleInv'
<1> USE DEF LifecycleInv, ReporterStep, ReporterPasses, ReporterEnds
<1>1. UNCHANGED <<main, lock, count, conn, tmp>>
  OBVIOUS
<1>2. LifecycleTypeOK'
  BY DEF LifecycleTypeOK, counters
<1>3. Active' = Active
  BY <1>1 DEF Active
<1> QED
  BY <1>1, <1>2, <1>3 DEF LockOwned, LoadedIsCurrent, CountMatches, PoolBounded,
     DrainedBeforeShutdown, MainInside, ConnInside, Alive

\* Every step keeps the invariant.
LEMMA StepInv == LifecycleInv /\ [Next]_vars => LifecycleInv'
<1> SUFFICES ASSUME LifecycleInv, [Next]_vars PROVE LifecycleInv'
  OBVIOUS
<1>1. CASE MainStep \/ Signal
  BY <1>1, MainElsewhereInv, MainInsideInv DEF MainStep, MainElsewhere
<1>2. ASSUME NEW c \in Conn, ConnStep(c) \/ ClientStep(c) PROVE LifecycleInv'
  BY <1>2, ConnInv
<1>3. ASSUME NEW r \in Tracker, ReporterStep(r) PROVE LifecycleInv'
  BY <1>3, ReporterInv
<1>4. CASE UNCHANGED vars
  <2>1. Active' = Active
    BY <1>4 DEF Active, vars
  <2> QED
    BY <1>4, <2>1 DEF vars, counters, LifecycleInv, LifecycleTypeOK, LockOwned, LoadedIsCurrent,
       CountMatches, PoolBounded, DrainedBeforeShutdown, MainInside, ConnInside, Alive
<1> QED
  BY <1>1, <1>2, <1>3, <1>4 DEF Next

\* The inductive invariant holds in every state the process reaches.
THEOREM LifecycleInvariance == Spec => []LifecycleInv
<1> QED
  BY InitInv, StepInv, PTL DEF Spec

-----------------------------------------------------------------------------
(* What follows.                                                           *)

\* The variables of main, of the connection threads and of the reporters keep
\* their types; in particular g_storage_thread_count is never negative.
THEOREM LifecycleTypes == Spec => []LifecycleTypeOK
<1>1. LifecycleInv => LifecycleTypeOK
  BY DEF LifecycleInv
<1> QED
  BY <1>1, LifecycleInvariance, PTL

\* ++ and -- on g_storage_thread_count lose nothing, whatever the threads do:
\* the counter main reads without the lock is the number of threads.
THEOREM CounterIsExact == Spec => []CountMatches
<1>1. LifecycleInv => CountMatches
  BY DEF LifecycleInv
<1> QED
  BY <1>1, LifecycleInvariance, PTL

\* No more than g_max_connections threads serve at a time.
THEOREM LimitIsKept == Spec => []PoolBounded
<1>1. LifecycleInv => PoolBounded
  BY DEF LifecycleInv
<1> QED
  BY <1>1, LifecycleInvariance, PTL

\* main closes the binlog and the statistics file under no thread's hands.
THEOREM NothingIsClosedInUse == Spec => []DrainedBeforeShutdown
<1>1. LifecycleInv => DrainedBeforeShutdown
  BY DEF LifecycleInv
<1> QED
  BY <1>1, LifecycleInvariance, PTL
=============================================================================
