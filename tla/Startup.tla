------------------------------- MODULE Startup -------------------------------
(***************************************************************************)
(* How main starts the server: storage_load_from_conf_file with the ini    *)
(* file reader and the sorted table of trackers, check_and_mk_log_dir and  *)
(* storage_check_and_make_data_dirs.  A start can be cut short at any      *)
(* point (the handlers of SIGINT and SIGTERM are installed after it) and   *)
(* the next one finds the directories this one has made.                   *)
(*                                                                         *)
(* The binlog, the statistics file and the threads that are started in     *)
(* between or after it are in Binlog, StatFile and Lifecycle.              *)
(***************************************************************************)
EXTENDS Integers, SequencesExt

CONSTANTS
    Host,          \* what can stand before the colon of a tracker_server
    Ip,            \* the addresses, numbered in the order of strcmp
    Resolve,       \* getIpaddrByName: [Host -> Ip \cup {LocalIp, NoIp}]
    LocalIp,       \* 127.0.0.1
    NoIp,          \* INADDR_NONE
    NoColon,       \* a value that is not host:port
    DefaultPort,   \* FDFS_TRACKER_SERVER_DEF_PORT
    MaxTrackers,   \* FDFS_MAX_TRACKERS
    DirCount,      \* DATA_DIR_COUNT_PER_PATH
    Configurations,\* the lines of the configuration files that are tried
    MaxStarts      \* bound: how often the server is started

\* A line is an item: its name, and the value of a tracker_server.  The names
\* are numbered in the order of strcmp; Tracker is "tracker_server".
Tracker == 2
Name    == 1 .. 3
Value   == [host : Host, port : Int] \cup {NoColon}

ASSUME StartupAssumption ==
    /\ Ip \subseteq Nat
    /\ LocalIp \notin Ip /\ NoIp \notin Ip /\ LocalIp # NoIp
    /\ Resolve \in [Host -> Ip \cup {LocalIp, NoIp}]
    /\ DefaultPort \in Nat \ {0}
    /\ MaxTrackers \in Nat \ {0}
    /\ DirCount \in Nat \ {0}
    /\ MaxStarts \in Nat \ {0}
    /\ NoColon \notin [host : Host, port : Int]
    /\ Configurations \subseteq Seq([name : Name, value : Value])

VARIABLES
    lines,     \* the configuration file
    pc,        \* where main is
    values,    \* ppTrackerServers
    next,      \* how many of them copy_tracker_servers has dealt with
    servers,   \* g_tracker_server, up to g_tracker_server_count
    made,      \* the directories that exist
    flag,      \* .data_init_flag: "none", "empty" or "written"
    at,        \* the loop variables i and k
    faulted,   \* history: the system refused something in this start
    starts     \* the number of starts

disk   == <<made, flag>>
memory == <<values, next, servers, at>>
vars   == <<lines, pc, memory, disk, faulted, starts>>

\* The directories: log and data under g_base_path, <<i>> and <<i, k>> in data.
LogDir  == <<-1>>
DataDir == <<>>
Index   == 0 .. DirCount - 1

Init ==
    /\ lines \in Configurations
    /\ pc = "conf"
    /\ values = <<>>
    /\ next = 0
    /\ servers = <<>>
    /\ made = {}
    /\ flag = "none"
    /\ at = <<0, 0>>
    /\ faulted = FALSE
    /\ starts = 1

-----------------------------------------------------------------------------
(* The ini file reader                                                     *)

Reorderings(s) == {[k \in DOMAIN s |-> s[p[k]]] : p \in Bijection(DOMAIN s, DOMAIN s)}

\* iniLoadItems: qsort may leave the items of one name in any order.
Items == {s \in Reorderings(lines) : IsSorted(s, LAMBDA a, b : a.name <= b.name)}

\* Mutant of ValuesFrom: only the items behind the one that was found.
ValuesBehind(items, found) ==
    LET behind == {n \in found .. Len(items) : items[n].name = Tracker}
        all    == [n \in 1 .. Cardinality(behind) |-> items[found + n - 1].value]
    IN  SubSeq(all, 1, Min({Len(all), MaxTrackers}))

\* Mutant of ValuesFrom: the maximum is not looked at.
ValuesUnlimited(items, found) ==
    LET same == {n \in DOMAIN items : items[n].name = Tracker}
    IN  [n \in 1 .. Cardinality(same) |-> items[Min(same) + n - 1].value]

\* iniGetValues: the item bsearch finds, those before it going down, then those
\* behind it going up; at most max_values.
ValuesFrom(items, found) ==
    LET same   == {n \in DOMAIN items : items[n].name = Tracker}
        before == [n \in 1 .. found - Min(same) |-> items[found - n].value]
        behind == [n \in 1 .. Max(same) - found |-> items[found + n].value]
        all    == <<items[found].value>> \o before \o behind
    IN  SubSeq(all, 1, Min({Len(all), MaxTrackers}))

-----------------------------------------------------------------------------
(* storage_load_from_conf_file                                             *)

Refuse == pc' = "refused"

\* The items are loaded and the values of tracker_server collected.  bsearch
\* finds any of several items with one name.
GetValues ==
    /\ pc = "conf"
    /\ \E items \in Items :
         \E found \in {n \in DOMAIN items : items[n].name = Tracker} :
           values' = ValuesFrom(items, found)
    /\ pc' = "copy"
    /\ next' = 0
    /\ servers' = <<>>
    /\ UNCHANGED <<lines, at, disk, faulted, starts>>

\* No tracker_server at all.
GetNoValue ==
    /\ pc = "conf"
    /\ \A n \in DOMAIN lines : lines[n].name # Tracker
    /\ Refuse
    /\ UNCHANGED <<lines, memory, disk, faulted, starts>>

\* storage_cmp_by_ip_and_port
Before(s, t) == s.ip < t.ip \/ (s.ip = t.ip /\ s.port < t.port)

ServerOf(value) ==
    [ip   |-> Resolve[value.host],
     port |-> IF value.port <= 0 THEN DefaultPort ELSE value.port]

\* host:port, with a host that is known and is not this machine.
Acceptable(value) == value # NoColon /\ Resolve[value.host] \in Ip

\* Mutant of Found: the search stops short of the last entry.
FoundShort(s) == servers # <<>> /\ s \in Range(Front(servers))

\* bsearch in the first g_tracker_server_count entries.
Found(s) ==
    LET N == 0 .. Len(servers)
        search[part \in N \X N] ==
          LET l == part[1]
              u == part[2]
              m == (l + u) \div 2
          IN  IF l >= u THEN FALSE
              ELSE IF s = servers[m + 1] THEN TRUE
              ELSE search[IF Before(s, servers[m + 1]) THEN <<l, m>> ELSE <<m + 1, u>>]
    IN  search[<<0, Len(servers)>>]

\* insert_into_sorted_servers: from the end, every entry that is not smaller
\* moves up by one.
Inserted(s) ==
    LET place == Max({0} \cup {n \in DOMAIN servers : Before(servers[n], s)})
    IN  InsertAt(servers, place + 1, s)

\* One round of copy_tracker_servers.
Copy ==
    /\ pc = "copy"
    /\ next < Len(values)
    /\ Acceptable(values[next + 1])
    /\ LET s == ServerOf(values[next + 1])
       IN  servers' = IF Found(s) THEN servers ELSE Inserted(s)
    /\ next' = next + 1
    /\ UNCHANGED <<lines, pc, values, at, disk, faulted, starts>>

CopyRefused ==
    /\ pc = "copy"
    /\ next < Len(values)
    /\ ~Acceptable(values[next + 1])
    /\ Refuse
    /\ values' = <<>> /\ next' = 0 /\ servers' = <<>>
    /\ UNCHANGED <<lines, at, disk, faulted, starts>>

\* The array of values was a local variable.
Copied ==
    /\ pc = "copy"
    /\ next = Len(values)
    /\ pc' = "log"
    /\ values' = <<>>
    /\ next' = 0
    /\ UNCHANGED <<lines, servers, at, disk, faulted, starts>>

-----------------------------------------------------------------------------
(* The directories                                                         *)

\* mkdir of a directory that is not there; the system may refuse it.
Creates(dir)  == dir \notin made /\ made' = made \cup {dir} /\ UNCHANGED faulted
Fails(dir)    == dir \notin made /\ faulted' = TRUE /\ UNCHANGED made

\* check_and_mk_log_dir, and the start of storage_check_and_make_data_dirs.
MakeBase(here, dir, then) ==
    /\ pc = here
    /\ \/ dir \in made /\ pc' = then /\ UNCHANGED <<made, faulted>>
       \/ Creates(dir) /\ pc' = then
       \/ Fails(dir) /\ Refuse
    /\ at' = <<0, 0>>
    /\ UNCHANGED <<lines, values, next, servers, flag, starts>>

MakeLogDir == MakeBase("log", LogDir, "data")
MakeData   == MakeBase("data", DataDir, "dirs")

\* What comes between the two: the socket, the binlog, the reporters' lock.
OthersFail ==
    /\ pc = "data"
    /\ Refuse
    /\ faulted' = TRUE
    /\ UNCHANGED <<lines, memory, disk, starts>>

\* mkdir(dir_name) and chdir(dir_name): a directory that exists is fine.
MakeDir ==
    /\ pc = "dirs"
    /\ at[1] < DirCount
    /\ \/ <<at[1]>> \in made /\ pc' = "subs" /\ UNCHANGED <<made, faulted>>
       \/ Creates(<<at[1]>>) /\ pc' = "subs"
       \/ Fails(<<at[1]>>) /\ Refuse
    /\ at' = <<at[1], 0>>
    /\ UNCHANGED <<lines, values, next, servers, flag, starts>>

\* mkdir(sub_name) inside dir_name.  When it fails, the code asks whether
\* dir_name exists, not sub_name, and dir_name is looked for in the current
\* directory, which is dir_name.  If that is not there, access has set errno
\* to ENOENT, and the test for EEXIST behind it fails as well.
SubIsThere == <<at[1], at[1]>> \in made

\* Mutant of SubPasses: every failure is passed over.
SubPassesAlways ==
    \/ Creates(at)
    \/ at \in made /\ UNCHANGED <<made, faulted>>
    \/ Fails(at)

SubPasses ==
    \/ Creates(at)
    \/ at \in made /\ SubIsThere /\ UNCHANGED <<made, faulted>>
    \/ Fails(at) /\ SubIsThere

MakeSub ==
    /\ pc = "subs"
    /\ at[2] < DirCount
    /\ SubPasses
    /\ at' = <<at[1], at[2] + 1>>
    /\ UNCHANGED <<lines, pc, values, next, servers, flag, starts>>

MakeSubRefused ==
    /\ pc = "subs"
    /\ at[2] < DirCount
    /\ ~SubIsThere
    /\ Fails(at) \/ (at \in made /\ UNCHANGED <<made, faulted>>)
    /\ Refuse
    /\ UNCHANGED <<lines, memory, flag, starts>>

\* chdir("..")
LeaveDir ==
    /\ pc = "subs"
    /\ at[2] = DirCount
    /\ pc' = "dirs"
    /\ at' = <<at[1] + 1, 0>>
    /\ UNCHANGED <<lines, values, next, servers, disk, faulted, starts>>

\* storage_write_to_sync_ini_file: fopen truncates the file ...
OpenFlag ==
    /\ pc = "dirs"
    /\ at[1] = DirCount
    /\ \/ pc' = "flag" /\ flag' = "empty" /\ UNCHANGED faulted
       \/ Refuse /\ faulted' = TRUE /\ UNCHANGED flag
    /\ UNCHANGED <<lines, memory, made, starts>>

\* ... and fclose writes it.  Nobody looks at what fclose returns.
WriteFlag ==
    /\ pc = "flag"
    /\ \/ flag' = "written" /\ UNCHANGED faulted
       \/ faulted' = TRUE /\ UNCHANGED flag
    /\ pc' = "serving"
    /\ UNCHANGED <<lines, memory, made, starts>>

-----------------------------------------------------------------------------
\* A signal, a fault or the power; or the server has stopped.
Crash ==
    /\ pc \notin {"down", "refused"}
    /\ pc' = "down"
    /\ values' = <<>> /\ next' = 0 /\ servers' = <<>> /\ at' = <<0, 0>>
    /\ faulted' = FALSE
    /\ UNCHANGED <<lines, disk, starts>>

\* The operator starts it again.
Restart ==
    /\ pc \in {"down", "refused"}
    /\ starts < MaxStarts
    /\ starts' = starts + 1
    /\ pc' = "conf"
    /\ values' = <<>> /\ next' = 0 /\ servers' = <<>> /\ at' = <<0, 0>>
    /\ faulted' = FALSE
    /\ UNCHANGED <<lines, disk>>

Load  == GetValues \/ GetNoValue \/ Copy \/ CopyRefused \/ Copied
Dirs  == MakeLogDir \/ OthersFail \/ MakeData \/ MakeDir \/ MakeSub \/ MakeSubRefused \/ LeaveDir
Next  == Load \/ Dirs \/ OpenFlag \/ WriteFlag \/ Crash \/ Restart

Spec == Init /\ [][Next]_vars

-----------------------------------------------------------------------------
(* Properties                                                              *)

Server == [ip : Ip, port : Nat \ {0}]

\* Type invariant of the start.
StartupTypeOK ==
    /\ lines \in Configurations
    /\ pc \in {"conf", "copy", "log", "data", "dirs", "subs", "flag",
               "serving", "refused", "down"}
    /\ values \in Seq(Value) /\ Len(values) <= MaxTrackers
    /\ next \in 0 .. Len(values)
    /\ servers \in Seq(Server)
    /\ made \subseteq {LogDir, DataDir} \cup {<<i>> : i \in Index} \cup (Index \X Index)
    /\ flag \in {"none", "empty", "written"}
    /\ at \in (0 .. DirCount) \X (0 .. DirCount)
    /\ faulted \in BOOLEAN
    /\ starts \in 1 .. MaxStarts

\* The table of trackers: strictly sorted, or bsearch would miss an entry, and
\* never longer than what was allocated for it.
TrackersSorted ==
    /\ IsSorted(servers, Before)
    /\ pc = "copy" => Len(servers) <= Len(values)

Configured == {lines[n].value : n \in {m \in DOMAIN lines : lines[m].name = Tracker}}
Lines      == Cardinality({n \in DOMAIN lines : lines[n].name = Tracker})

\* When the file is loaded the table has every tracker it names, however it is
\* named and wherever bsearch came down, and no other; of more than the maximum
\* it has some.
TrackersConfigured ==
    pc \notin {"conf", "copy", "refused", "down"} =>
        /\ Range(servers) \subseteq {ServerOf(v) : v \in Configured \ {NoColon}}
        /\ Lines <= MaxTrackers => Range(servers) = {ServerOf(v) : v \in Configured}
        /\ servers # <<>>

Complete(i) == {<<i>>} \cup {<<i, k>> : k \in Index}

\* A server that serves has its directories.  After a fault that went unnoticed
\* those behind the diagonal may be missing, and the flag file may be empty.
ServingIsPrepared ==
    pc = "serving" =>
        /\ {LogDir, DataDir} \subseteq made
        /\ \A i \in Index : <<i>> \in made /\ \A k \in 0 .. i : <<i, k>> \in made
        /\ ~faulted => flag = "written" /\ \A i \in Index : Complete(i) \subseteq made

\* Why: in each directory the subdirectory on the diagonal, which switches the
\* test of mkdir off, is the last of the first ones to be made, in whichever
\* start;
DiagonalLast ==
    \A i \in Index : <<i, i>> \in made => \A k \in 0 .. i : <<i, k>> \in made

\* a directory that a start has left behind has its diagonal;
Passed(i) ==
    /\ <<i>> \in made /\ <<i, i>> \in made
    /\ ~faulted => Complete(i) \subseteq made

\* and the start has passed what its loop variables say.
PassedSoFar ==
    /\ pc \in {"data", "dirs", "subs", "flag", "serving"} => LogDir \in made
    /\ pc \in {"dirs", "subs", "flag", "serving"} => DataDir \in made
    /\ pc \in {"dirs", "subs"} => \A i \in Index : i < at[1] => Passed(i)
    /\ pc \in {"flag", "serving"} => \A i \in Index : Passed(i)
    /\ pc = "subs" =>
         /\ at[1] \in Index /\ <<at[1]>> \in made
         /\ \A k \in Index : k < at[2] /\ (k <= at[1] \/ ~faulted) => <<at[1], k>> \in made
    /\ pc = "serving" /\ ~faulted => flag = "written"

DirsInv ==
    /\ at \in Nat \X Nat
    /\ DiagonalLast
    /\ PassedSoFar

\* What the table of trackers is made of: the values collected are those of the
\* file, up to the maximum, and the table has what was copied, each once.
Collected ==
    /\ values # <<>>
    /\ Range(values) \subseteq Configured
    /\ Lines <= MaxTrackers => Range(values) = Configured
    /\ \A n \in 1 .. next : Acceptable(values[n])
    /\ Range(servers) = {ServerOf(values[n]) : n \in 1 .. next}
    /\ Len(servers) <= next

TableInv ==
    /\ StartupTypeOK
    /\ IsSorted(servers, Before)
    /\ pc = "copy" => Collected
    /\ TrackersConfigured

\* "mkdir ... fail": a start with a good configuration is refused only when the
\* system has refused something; a directory that is there is no reason.
RefusedForAReason ==
    pc = "refused" /\ servers # <<>> => faulted
=============================================================================
