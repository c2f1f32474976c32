----------------------------- MODULE AppendLog -----------------------------
(***************************************************************************)
(* What callers of storage_binlog_write can rely on.  There is a log to    *)
(* which records are only ever appended.  A call is open until it is       *)
(* decided; while it is open its record is appended at most once, perhaps  *)
(* together with the records of other open calls.  A call that succeeds    *)
(* has its record in the log, unless the failure of another call lost it;  *)
(* a call that fails may have it there or not.  When the process dies the  *)
(* open calls are gone, and the log stays, perhaps with some more of their *)
(* records at its end.                                                     *)
(*                                                                         *)
(* Nothing is said of buffers, sizes, rotations or starts: Binlog is one   *)
(* way to keep this promise (BinlogRefinement).                            *)
(***************************************************************************)
EXTENDS Naturals, Sequences, Functions

CONSTANTS
    Caller,   \* who appends
    Rec       \* what is appended

VARIABLES
    disk,     \* the records in the log
    lost,     \* records of open calls that another call's failure lost
    call      \* [state, rec] of each caller's call

vars == <<disk, lost, call>>

-----------------------------------------------------------------------------
State == {"none", "open", "ok", "err"}

Idle(c) == call[c].state = "none"
Open(c) == call[c].state = "open"

\* The calls that are open and have their record neither in the log nor lost.
Waiting == {c \in Caller : Open(c) /\ call[c].rec \notin Range(disk) \cup lost}

Init ==
    /\ \A r \in Range(disk) : r \in Rec
    /\ lost = {}
    /\ \A c \in Caller : Idle(c)

-----------------------------------------------------------------------------
\* A call begins with a record that is new, or fails at once.
Begin(c, r, s) ==
    /\ Idle(c)
    /\ r \notin Range(disk) \cup lost \cup {call[d].rec : d \in {e \in Caller : ~Idle(e)}}
    /\ call' = [call EXCEPT ![c] = [state |-> s, rec |-> r]]
    /\ UNCHANGED <<disk, lost>>

\* The log grows by records of waiting calls, each of them once.
Grows ==
    LET n     == Len(disk)
        added == {disk'[i] : i \in n + 1 .. Len(disk')}
    IN  /\ Len(disk') >= n
        /\ SubSeq(disk', 1, n) = disk
        /\ added \subseteq {call[c].rec : c \in Waiting}
        /\ \A i, j \in n + 1 .. Len(disk') : disk'[i] = disk'[j] => i = j

Save == Grows /\ UNCHANGED <<lost, call>>

\* A save that fails: a part of the records is appended and the others are
\* lost, and only caller c is told.
SaveFails(c) ==
    /\ Open(c)
    /\ Grows
    /\ lost' \subseteq lost \cup {call[d].rec : d \in Waiting \ {c}}
    /\ lost \subseteq lost'
    /\ Range(disk') \cap (lost' \ lost) = {}
    /\ call' = [call EXCEPT ![c].state = "err"]

\* A call is decided: it fails, or its record is in the log or lost.
Decide(c) ==
    /\ Open(c)
    /\ \/ call' = [call EXCEPT ![c].state = "err"]
       \/ c \notin Waiting /\ call' = [call EXCEPT ![c].state = "ok"]
    /\ UNCHANGED <<disk, lost>>

Return(c) ==
    /\ call[c].state \in {"ok", "err"}
    /\ call'[c].state = "none"
    /\ \A d \in Caller \ {c} : call'[d] = call[d]
    /\ UNCHANGED <<disk, lost>>

Die ==
    /\ \A c \in Caller : call'[c].state = "none"
    /\ lost' = {}
    /\ Grows

Next ==
    \/ Save
    \/ Die
    \/ \E c \in Caller :
         \/ \E r \in Rec, s \in {"open", "err"} : Begin(c, r, s)
         \/ SaveFails(c) \/ Decide(c) \/ Return(c)

Spec == Init /\ [][Next]_vars
=============================================================================
