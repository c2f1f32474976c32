----------------------------- MODULE Lifecycle -----------------------------
(***************************************************************************)
(* The life of the process: main of main.c starts the tracker reporters,   *)
(* accepts connections, starts a thread for each and, when it has been     *)
(* told to stop, waits for the threads and shuts down.  What a connection  *)
(* thread does between two looks at g_continue_flag is StorageService;     *)
(* here it is one step.                                                    *)
(*                                                                         *)
(* The two accesses of ++ and -- on g_storage_thread_count are steps of    *)
(* their own: only g_storage_thread_lock makes them one.  main's drain     *)
(* loop reads the counters without a lock.                                 *)
(***************************************************************************)
EXTENDS Integers, FiniteSets

CONSTANTS
    Conn,            \* bound: the connection threads that can exist at a time
    Tracker,         \* the tracker_server items of the configuration
    MaxConnections   \* g_max_connections

ASSUME LifecycleAssumption ==
    /\ IsFiniteSet(Conn)
    /\ IsFiniteSet(Tracker) /\ Tracker # {}
    /\ MaxConnections \in Nat \ {0}
    /\ "main" \notin Conn /\ "free" \notin Conn

VARIABLES
    main,            \* where main is
    go,              \* g_continue_flag
    fpOpen,          \* storage_sync_init left g_fp_binlog open
    lock,            \* who holds g_storage_thread_lock: "free", "main" or a thread
    count,           \* g_storage_thread_count
    conn,            \* where each connection thread is, "none" when there is none
    tmp,             \* what main and the threads have read of the counter
    reporter,        \* where each tracker's reporter thread is
    serverCount,     \* g_tracker_server_count
    reporterCount    \* g_tracker_reporter_count

counters == <<serverCount, reporterCount>>
vars == <<main, go, fpOpen, lock, count, conn, tmp, reporter, counters>>

-----------------------------------------------------------------------------
Over  == {"exited", "crashed", "refused", "killed"}
Alive == main \notin Over

\* The threads that g_storage_thread_count is meant to count: those that have
\* not yet taken themselves off.
Active == {c \in Conn : conn[c] \in {"test", "recv", "send", "lock", "load", "store"}}

\* storage_sync_init may have returned 0 without opening the binlog.
Init ==
    /\ main = "start"
    /\ go = TRUE
    /\ fpOpen \in BOOLEAN
    /\ lock = "free"
    /\ count = 0
    /\ conn = [c \in Conn |-> "none"]
    /\ tmp = [a \in Conn \cup {"main"} |-> 0]
    /\ reporter = [r \in Tracker |-> "none"]
    /\ serverCount = Cardinality(Tracker)
    /\ reporterCount = 0

MainGoes(from, to) == main = from /\ main' = to

-----------------------------------------------------------------------------
(* main: the reporters                                                     *)

\* tracker_report_thread_start counts the thread it has created among the
\* servers, although the servers were counted when they were configured.
StartReporter(r) ==
    /\ main = "start"
    /\ reporter[r] = "none"
    /\ reporter' = [reporter EXCEPT ![r] = "barrier"]
    /\ serverCount' = serverCount + 1
    /\ UNCHANGED <<main, go, fpOpen, lock, count, conn, tmp, reporterCount>>

StartReporterFails ==
    /\ MainGoes("start", "refused")
    /\ \E r \in Tracker : reporter[r] = "none"
    /\ go' = FALSE
    /\ UNCHANGED <<fpOpen, lock, count, conn, tmp, reporter, counters>>

AllStarted ==
    /\ MainGoes("start", "test")
    /\ \A r \in Tracker : reporter[r] # "none"
    /\ UNCHANGED <<go, fpOpen, lock, count, conn, tmp, reporter, counters>>

-----------------------------------------------------------------------------
(* main: the accept loop                                                   *)

TestFlag ==
    /\ MainGoes("test", IF go THEN "accept" ELSE "drain")
    /\ UNCHANGED <<go, fpOpen, lock, count, conn, tmp, reporter, counters>>

\* nbaccept: a timeout or a signal; a connection; a bad descriptor, which ends
\* the loop with the flag still up.
AcceptNothing ==
    /\ MainGoes("accept", "test")
    /\ UNCHANGED <<go, fpOpen, lock, count, conn, tmp, reporter, counters>>

AcceptConnection ==
    /\ MainGoes("accept", "lock")
    /\ UNCHANGED <<go, fpOpen, lock, count, conn, tmp, reporter, counters>>

AcceptBroken ==
    /\ MainGoes("accept", "drain")
    /\ UNCHANGED <<go, fpOpen, lock, count, conn, tmp, reporter, counters>>

MainLocks ==
    /\ MainGoes("lock", "limit")
    /\ lock = "free"
    /\ lock' = "main"
    /\ UNCHANGED <<go, fpOpen, count, conn, tmp, reporter, counters>>

\* The connection is closed: there are g_max_connections threads, or
\* pthread_create fails.
Refuse ==
    /\ MainGoes("limit", "unlock")
    /\ UNCHANGED <<go, fpOpen, lock, count, conn, tmp, reporter, counters>>

\* Mutant of CreateThread: > for >=.
CreateThreadOverLimit(c) ==
    /\ MainGoes("limit", "load")
    /\ ~(count > MaxConnections)
    /\ conn[c] = "none"
    /\ conn' = [conn EXCEPT ![c] = "test"]
    /\ UNCHANGED <<go, fpOpen, lock, count, tmp, reporter, counters>>

CreateThread(c) ==
    /\ MainGoes("limit", "load")
    /\ ~(count >= MaxConnections)
    /\ conn[c] = "none"
    /\ conn' = [conn EXCEPT ![c] = "test"]
    /\ UNCHANGED <<go, fpOpen, lock, count, tmp, reporter, counters>>

MainLoads ==
    /\ MainGoes("load", "store")
    /\ tmp' = [tmp EXCEPT !["main"] = count]
    /\ UNCHANGED <<go, fpOpen, lock, count, conn, reporter, counters>>

\* Mutant of MainStores: -- for ++.
MainStoresLess ==
    /\ MainGoes("store", "unlock")
    /\ count' = tmp["main"] - 1
    /\ tmp' = [tmp EXCEPT !["main"] = 0]
    /\ UNCHANGED <<go, fpOpen, lock, conn, reporter, counters>>

MainStores ==
    /\ MainGoes("store", "unlock")
    /\ count' = tmp["main"] + 1
    /\ tmp' = [tmp EXCEPT !["main"] = 0]
    /\ UNCHANGED <<go, fpOpen, lock, conn, reporter, counters>>

MainUnlocks ==
    /\ MainGoes("unlock", "test")
    /\ lock' = "free"
    /\ UNCHANGED <<go, fpOpen, count, conn, tmp, reporter, counters>>

-----------------------------------------------------------------------------
(* main: the drain loop and the shutdown                                   *)

\* g_storage_sync_thread_count is always 0.
StillHas == count # 0 \/ reporterCount > 0

DrainSleeps ==
    /\ MainGoes("drain", "sleep")
    /\ StillHas
    /\ UNCHANGED <<go, fpOpen, lock, count, conn, tmp, reporter, counters>>

DrainWakes ==
    /\ MainGoes("sleep", "drain")
    /\ UNCHANGED <<go, fpOpen, lock, count, conn, tmp, reporter, counters>>

\* Mutant of Drained: the loop looks at the reporters only.
DrainedOfReporters ==
    /\ MainGoes("drain", "shutdown")
    /\ reporterCount = 0
    /\ UNCHANGED <<go, fpOpen, lock, count, conn, tmp, reporter, counters>>

Drained ==
    /\ MainGoes("drain", "shutdown")
    /\ ~StillHas
    /\ UNCHANGED <<go, fpOpen, lock, count, conn, tmp, reporter, counters>>

\* pthread_mutex_destroy, storage_sync_destroy (fclose(NULL) when the binlog
\* was open), storage_close_storage_stat, and the end of main.
ShutDown ==
    /\ MainGoes("shutdown", IF fpOpen THEN "crashed" ELSE "exited")
    /\ UNCHANGED <<go, fpOpen, lock, count, conn, tmp, reporter, counters>>

-----------------------------------------------------------------------------
(* The signals                                                             *)

\* SIGINT, SIGQUIT and SIGTERM, before and after main has set its handlers.
Signal ==
    /\ Alive
    /\ IF main = "start"
       THEN main' = "killed" /\ UNCHANGED go
       ELSE go' = FALSE /\ UNCHANGED main
    /\ UNCHANGED <<fpOpen, lock, count, conn, tmp, reporter, counters>>

-----------------------------------------------------------------------------
(* storage_thread_entrance                                                 *)

ConnGoes(c, from, to) ==
    /\ Alive
    /\ conn[c] = from
    /\ conn' = [conn EXCEPT ![c] = to]

\* Mutant of ConnTests: the loop does not look at the flag.
ConnTestsNothing(c) ==
    /\ ConnGoes(c, "test", "recv")
    /\ UNCHANGED <<main, go, fpOpen, lock, count, tmp, reporter, counters>>

ConnTests(c) ==
    /\ ConnGoes(c, "test", IF go THEN "recv" ELSE "lock")
    /\ UNCHANGED <<main, go, fpOpen, lock, count, tmp, reporter, counters>>

\* tcprecvdata times out, or a request is served and the connection goes on.
ConnContinues(c) ==
    /\ ConnGoes(c, "recv", "test")
    /\ UNCHANGED <<main, go, fpOpen, lock, count, tmp, reporter, counters>>

\* The client is gone, quits or made a mistake, or its handler failed; a
\* rotation of the binlog that failed takes the flag down.
ConnBreaks(c) ==
    /\ ConnGoes(c, "recv", "lock")
    /\ \E stop \in BOOLEAN : go' = (go /\ ~stop)
    /\ UNCHANGED <<main, fpOpen, lock, count, tmp, reporter, counters>>

\* The body of a reply: select has said that something can be written, and the
\* write of all of it blocks until the client has read what does not fit.
ConnSends(c) ==
    /\ ConnGoes(c, "recv", "send")
    /\ UNCHANGED <<main, go, fpOpen, lock, count, tmp, reporter, counters>>

\* The client has read, or all of it fits: the connection goes on.
ConnSent(c) ==
    /\ ConnGoes(c, "send", "test")
    /\ UNCHANGED <<main, go, fpOpen, lock, count, tmp, reporter, counters>>

\* The write fails, because the client is gone; or what comes behind it does.
ConnSendBreaks(c) ==
    /\ ConnGoes(c, "send", "lock")
    /\ UNCHANGED <<main, go, fpOpen, lock, count, tmp, reporter, counters>>

\* A handler takes the process down (ThreadKillsServer of StorageService).
ConnKills(c) ==
    /\ Alive
    /\ conn[c] = "recv"
    /\ main' = "killed"
    /\ UNCHANGED <<go, fpOpen, lock, count, conn, tmp, reporter, counters>>

\* Mutant of ConnLocks: the thread does not wait for the lock.
ConnLocksNothing(c) ==
    /\ ConnGoes(c, "lock", "load")
    /\ UNCHANGED <<main, go, fpOpen, lock, count, tmp, reporter, counters>>

ConnLocks(c) ==
    /\ ConnGoes(c, "lock", "load")
    /\ lock = "free"
    /\ lock' = c
    /\ UNCHANGED <<main, go, fpOpen, count, tmp, reporter, counters>>

ConnLoads(c) ==
    /\ ConnGoes(c, "load", "store")
    /\ tmp' = [tmp EXCEPT ![c] = count]
    /\ UNCHANGED <<main, go, fpOpen, lock, count, reporter, counters>>

ConnStores(c) ==
    /\ ConnGoes(c, "store", "unlock")
    /\ count' = tmp[c] - 1
    /\ tmp' = [tmp EXCEPT ![c] = 0]
    /\ UNCHANGED <<main, go, fpOpen, lock, reporter, counters>>

ConnUnlocks(c) ==
    /\ ConnGoes(c, "unlock", "close")
    /\ lock' = "free"
    /\ UNCHANGED <<main, go, fpOpen, count, tmp, reporter, counters>>

ConnCloses(c) ==
    /\ ConnGoes(c, "close", "none")
    /\ UNCHANGED <<main, go, fpOpen, lock, count, tmp, reporter, counters>>

-----------------------------------------------------------------------------
(* tracker_report_thread_entrance                                          *)

\* The loop "waiting for all thread started".  Behind it, with the flag up,
\* begins the conversation with the tracker.
ReporterPasses(r) ==
    /\ Alive
    /\ reporter[r] = "barrier"
    /\ ~(go /\ reporterCount < serverCount)
    /\ reporter' = [reporter EXCEPT ![r] = IF go THEN "session" ELSE "end"]
    /\ UNCHANGED <<main, go, fpOpen, lock, count, conn, tmp, counters>>

\* The thread ends, and counts itself in.
ReporterEnds(r) ==
    /\ Alive
    /\ reporter[r] = "end"
    /\ reporter' = [reporter EXCEPT ![r] = "done"]
    /\ reporterCount' = reporterCount + 1
    /\ UNCHANGED <<main, go, fpOpen, lock, count, conn, tmp, serverCount>>

-----------------------------------------------------------------------------
MainStep ==
    \/ \E r \in Tracker : StartReporter(r)
    \/ StartReporterFails \/ AllStarted
    \/ TestFlag \/ AcceptNothing \/ AcceptConnection \/ AcceptBroken
    \/ MainLocks \/ Refuse \/ (\E c \in Conn : CreateThread(c))
    \/ MainLoads \/ MainStores \/ MainUnlocks
    \/ DrainSleeps \/ DrainWakes \/ Drained \/ ShutDown

ConnStep(c) ==
    \/ ConnTests(c) \/ ConnContinues(c) \/ ConnBreaks(c) \/ ConnSends(c) \/ ConnKills(c)
    \/ ConnLocks(c) \/ ConnLoads(c) \/ ConnStores(c) \/ ConnUnlocks(c) \/ ConnCloses(c)

\* What a thread inside a blocking write waits for is done by its client.
ClientStep(c) == ConnSent(c) \/ ConnSendBreaks(c)

ReporterStep(r) == ReporterPasses(r) \/ ReporterEnds(r)

Next ==
    \/ MainStep
    \/ Signal
    \/ \E c \in Conn : ConnStep(c) \/ ClientStep(c)
    \/ \E r \in Tracker : ReporterStep(r)

\* The waits of select are bounded: in nbaccept by 60 seconds, in tcprecvdata
\* and tcpsenddata by g_network_timeout, which is never 0; the sleeps by a
\* second.  So a thread outside a blocking write that can take a step takes one
\* in the end.  No timeout bounds the write of tcpsenddata: nothing is assumed
\* of ClientStep, and nothing makes a client connect or a signal come.
Fairness ==
    /\ WF_vars(MainStep)
    /\ \A c \in Conn : WF_vars(ConnStep(c))
    /\ \A r \in Tracker : WF_vars(ReporterStep(r))

Spec == Init /\ [][Next]_vars /\ Fairness

-----------------------------------------------------------------------------
(* Properties                                                              *)

LifecycleTypeOK ==
    /\ main \in {"start", "test", "accept", "lock", "limit", "load", "store", "unlock",
                 "drain", "sleep", "shutdown"} \cup Over
    /\ go \in BOOLEAN
    /\ fpOpen \in BOOLEAN
    /\ lock \in Conn \cup {"main", "free"}
    /\ count \in Nat
    /\ conn \in [Conn -> {"none", "test", "recv", "send", "lock", "load", "store", "unlock",
                          "close"}]
    /\ tmp \in [Conn \cup {"main"} -> Nat]
    /\ reporter \in [Tracker -> {"none", "barrier", "session", "end", "done"}]
    /\ serverCount \in Nat
    /\ reporterCount \in Nat

\* g_storage_thread_count is the number of threads that have not taken
\* themselves off, but for the one main has created and is about to count.
CountMatches ==
    Alive => count + (IF main \in {"load", "store"} THEN 1 ELSE 0) = Cardinality(Active)

\* No more than g_max_connections threads serve at a time.
PoolBounded == Cardinality(Active) <= MaxConnections

\* When main closes the binlog and the statistics file no connection thread
\* can use them any more, although main reads the counter without the lock.
DrainedBeforeShutdown == main \in {"shutdown", "crashed", "exited"} => Active = {}

\* The inductive invariant behind them.  Between its locking and its unlocking
\* of g_storage_thread_lock the owner is the only one inside, so that what it
\* has loaded of the counter is still true when it stores.
MainInside    == main \in {"limit", "load", "store", "unlock"}
ConnInside(c) == conn[c] \in {"load", "store", "unlock"}

LockOwned ==
    Alive => /\ lock = "main" <=> MainInside
             /\ \A c \in Conn : lock = c <=> ConnInside(c)

LoadedIsCurrent ==
    Alive => /\ main = "store" => tmp["main"] = count
             /\ \A c \in Conn : conn[c] = "store" => tmp[c] = count

LifecycleInv ==
    /\ LifecycleTypeOK
    /\ LockOwned
    /\ LoadedIsCurrent
    /\ CountMatches
    /\ PoolBounded
    /\ DrainedBeforeShutdown

\* Once the flag is down, and unless the process dies, the reporters end, and so
\* does every connection thread that is not kept in a write for ever: a client
\* that asks for a body and does not read it holds up its own thread, and no
\* client, lock or counter holds up another's.
StopEndsThreads ==
    <>~go =>
      /\ <>[](~Alive \/ \A r \in Tracker : reporter[r] = "done")
      /\ \A c \in Conn :
           []<>(conn[c] # "send") => <>[](~Alive \/ conn[c] = "none")

\* "waiting for all thread started": when all are started the wait is over.
ReportersStart ==
    main = "test" ~> ~go \/ ~Alive \/ \A r \in Tracker : reporter[r] = "session"

\* "exit normally": a server that was told to stop reaches the end of main.
ExitsNormally == main # "crashed"
=============================================================================
