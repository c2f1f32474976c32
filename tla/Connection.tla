----------------------------- MODULE Connection -----------------------------
(***************************************************************************)
(* One connection as a byte stream: how storage_thread_entrance and its    *)
(* handlers cut requests out of what tcprecvdata reads, and what           *)
(* tcpsenddata writes back.  The files, the binlog and the counters are    *)
(* left to StorageService and StatFile; a handler's work is one step here. *)
(*                                                                         *)
(* Nothing in the stream marks where a package begins: the thread and the  *)
(* client agree on it only as long as neither loses count.  Bytes are      *)
(* counted in units, a few to a header and a few to a body.                *)
(***************************************************************************)
EXTENDS Integers, Sequences, FiniteSets

CONSTANTS
    HeadLen,      \* sizeof(TrackerHeader), in units
    BodyLen,      \* the length of a request's body, in units
    UploadRead,   \* sizeof(in_buff) in storage_upload_file: what it receives
    MaxRequests   \* bound: requests the client sends

ASSUME ConnectionAssumption ==
    /\ HeadLen \in Nat \ {0}
    /\ BodyLen \in Nat \ {0}
    /\ UploadRead \in Nat \ {0}
    /\ MaxRequests \in Nat

VARIABLES
    sent,     \* the number of requests the client has sent
    flight,   \* units on their way to the server
    inbox,    \* units in the socket that nobody has read
    arrived,  \* history: units that have reached the socket
    shut,     \* the client has closed its end, or the network has
    go,       \* g_continue_flag
    pc,       \* where the connection thread is
    got,      \* what the running tcprecvdata has read
    need,     \* how much it is to read
    cur,      \* the request that is served
    status,   \* resp.status: "ok", "exists" (EEXIST) or "err"
    body,     \* what follows the header of the reply: "none", "data", "null"
    out,      \* what the client can read
    torn,     \* history: a header that had begun to arrive was dropped
    strayed   \* history: an upload left its body in the socket

network == <<sent, flight, inbox, arrived, shut>>
reply   == <<status, body, out>>
lapses  == <<torn, strayed>>
vars    == <<network, go, pc, got, need, cur, reply, lapses>>

-----------------------------------------------------------------------------
(* Requests.  What tells them apart for the stream:                        *)
(*   plain     delete, set_metadata, the commands of another server        *)
(*   download, getMeta      answered with a body                           *)
(*   upload                 received in part                               *)
(*   other                  quit, and commands the server does not know    *)

Kind == {"plain", "download", "getMeta", "upload", "other"}

HeadOf(j) == [i \in 1 .. HeadLen |-> [req |-> j, part |-> "head", n |-> i]]
BodyOf(j) == [i \in 1 .. BodyLen |-> [req |-> j, part |-> "body", n |-> i]]

\* The header of a reply, or its body; whole says that all of it was sent.
Piece(part, all) == [req |-> cur.req, part |-> part, whole |-> all]

Stray == [req |-> 0, kind |-> "other"]    \* no request of the client

\* The replies that have begun.
Heads   == {i \in DOMAIN out : out[i].part = "head"}
Replies == Cardinality(Heads)

Init ==
    /\ sent = 0
    /\ flight = <<>>
    /\ inbox = <<>>
    /\ arrived = 0
    /\ shut = FALSE
    /\ go = TRUE
    /\ pc = "test"
    /\ got = <<>>
    /\ need = 0
    /\ cur = Stray
    /\ status = "ok"
    /\ body = "none"
    /\ out = <<>>
    /\ torn = FALSE
    /\ strayed = FALSE

-----------------------------------------------------------------------------
(* The client and the network                                              *)

\* Bound: the client does nothing more once the server has closed.
Send ==
    /\ ~shut /\ pc # "closed"
    /\ sent < MaxRequests
    /\ sent' = sent + 1
    /\ flight' = flight \o HeadOf(sent') \o BodyOf(sent')
    /\ UNCHANGED <<inbox, arrived, shut, go, pc, got, need, cur, reply, lapses>>

\* TCP delivers in order and in pieces of any size, as slowly as it likes.
Arrive ==
    /\ flight # <<>> /\ pc # "closed"
    /\ inbox' = Append(inbox, Head(flight))
    /\ flight' = Tail(flight)
    /\ arrived' = arrived + 1
    /\ UNCHANGED <<sent, shut, go, pc, got, need, cur, reply, lapses>>

\* The client closes or disappears; what it sent last may not arrive.
Shut ==
    /\ ~shut /\ pc # "closed"
    /\ shut' = TRUE
    /\ \E n \in 0 .. Len(flight) : flight' = SubSeq(flight, 1, n)
    /\ UNCHANGED <<sent, inbox, arrived, go, pc, got, need, cur, reply, lapses>>

\* A signal, or a rotation that failed in another thread.
StopServer ==
    /\ go /\ pc # "closed"
    /\ go' = FALSE
    /\ UNCHANGED <<network, pc, got, need, cur, reply, lapses>>

-----------------------------------------------------------------------------
(* storage_thread_entrance                                                 *)

\* tcprecvdata begins.
Receive(step, n) ==
    /\ pc' = step
    /\ got' = <<>>
    /\ need' = n

\* Break out of the loop and close the socket.
Close ==
    /\ pc' = "closed"
    /\ got' = <<>>
    /\ need' = 0

\* The handler has its resp.status.
Answer(s, b) ==
    /\ pc' = "reply"
    /\ status' = s
    /\ body' = b
    /\ got' = <<>>
    /\ need' = 0

TestFlag ==
    /\ pc = "test"
    /\ IF go THEN Receive("head", HeadLen) ELSE Close
    /\ UNCHANGED <<network, go, cur, reply, lapses>>

\* Mutant of Read: it asks for the size of its buffer, not for what is left.
ReadGreedy ==
    /\ pc \in {"head", "body"}
    /\ inbox # <<>>
    /\ got' = got \o inbox
    /\ inbox' = <<>>
    /\ pc' = IF Len(got') < need THEN pc ELSE IF pc = "head" THEN "parse" ELSE "work"
    /\ UNCHANGED <<sent, flight, arrived, shut, go, need, cur, reply, lapses>>

\* tcprecvdata: select says there is something, read takes what it can.
Read ==
    /\ pc \in {"head", "body"}
    /\ inbox # <<>>
    /\ LET n == IF Len(inbox) < need - Len(got) THEN Len(inbox) ELSE need - Len(got)
       IN  /\ got' = got \o SubSeq(inbox, 1, n)
           /\ inbox' = SubSeq(inbox, n + 1, Len(inbox))
    /\ pc' = IF Len(got') < need THEN pc ELSE IF pc = "head" THEN "parse" ELSE "work"
    /\ UNCHANGED <<sent, flight, arrived, shut, go, need, cur, reply, lapses>>

\* select times out while the thread waits for a header, begun or not: the
\* loop starts again.
HeadTimeout ==
    /\ pc = "head"
    /\ inbox = <<>>
    /\ pc' = "test"
    /\ got' = <<>>
    /\ need' = 0
    /\ torn' = (torn \/ got # <<>>)
    /\ UNCHANGED <<network, go, cur, reply, strayed>>

\* Mutant of BodyTimeout: a body that is late is waited for like a header.
BodyTimeoutContinues ==
    /\ pc = "body"
    /\ inbox = <<>>
    /\ pc' = "test"
    /\ got' = <<>>
    /\ need' = 0
    /\ UNCHANGED <<network, go, cur, reply, lapses>>

\* In a handler a timeout is an error.
BodyTimeout ==
    /\ pc = "body"
    /\ inbox = <<>>
    /\ Answer("err", "none")
    /\ UNCHANGED <<network, go, cur, out, lapses>>

\* select or read fails: the client has closed, the connection is broken, or a
\* signal arrived at this thread.
ReadFails ==
    /\ \/ pc = "head" /\ Close /\ UNCHANGED <<status, body>>
       \/ pc = "body" /\ Answer("err", "none")
    /\ UNCHANGED <<network, go, cur, out, lapses>>

\* The requests whose header the thread has read.  When it is none, what was
\* read can pass for any command with any length.
Understood == {j \in 1 .. sent : got = HeadOf(j)}

Meant == [req : IF Understood # {} THEN Understood ELSE {0}, kind : Kind]

\* The command: none that the server knows, a length the handler refuses (or
\* cannot allocate), or a body to be received.
Parse ==
    /\ pc = "parse"
    /\ \E r \in Meant :
         /\ cur' = r
         /\ \/ r.kind = "other" /\ Close /\ UNCHANGED <<status, body>>
            \/ r.kind # "other" /\ Answer("err", "none")
            \/ /\ r.kind # "other"
               /\ \E n \in IF r.req = 0 THEN 1 .. BodyLen ELSE {BodyLen} :
                    Receive("body", IF r.kind = "upload" THEN UploadRead ELSE n)
               /\ UNCHANGED <<status, body>>
    /\ UNCHANGED <<network, go, out, lapses>>

-----------------------------------------------------------------------------
(* The handlers                                                            *)

\* A request fails or succeeds.  A replicated create of a file that exists is
\* ignored; a file without metadata is answered with a NULL body.  The lengths in
\* an upload refuse a body that does not reach beyond what was received of it.
Work ==
    /\ pc = "work"
    /\ \/ Answer("err", "none") /\ UNCHANGED strayed
       \/ cur.kind = "plain" /\ (Answer("ok", "none") \/ Answer("exists", "none")) /\ UNCHANGED strayed
       \/ cur.kind = "download" /\ Answer("ok", "data") /\ UNCHANGED strayed
       \/ cur.kind = "getMeta" /\ (Answer("ok", "data") \/ Answer("ok", "null")) /\ UNCHANGED strayed
       \/ /\ cur.kind = "upload"
          /\ UploadRead < BodyLen \/ cur.req = 0
          /\ Answer("ok", "none")
          /\ strayed' = TRUE
    /\ UNCHANGED <<network, go, cur, out, torn>>

\* The loop goes round again; or the statistics file could not be written.
Served == pc' = "test" \/ pc' = "closed"

\* tcpsenddata of the header (an upload sends the file's name along with it).
ReplyHead ==
    /\ pc = "reply"
    /\ out' = Append(out, Piece("head", TRUE))
    /\ IF status = "err" \/ body = "null" THEN pc' = "closed"
       ELSE IF body = "data" THEN pc' = "replyBody"
       ELSE Served
    /\ UNCHANGED <<network, go, got, need, cur, status, body, lapses>>

\* select says that the socket takes something: write is called with all of the
\* body, and blocks until the client has read what does not fit.
SendBody ==
    /\ pc = "replyBody"
    /\ pc' = "write"
    /\ UNCHANGED <<network, go, got, need, cur, reply, lapses>>

\* Mutant of ReplyFails: the result of tcpsenddata is ignored.
ReplyFailsUnseen ==
    /\ pc \in {"reply", "replyBody", "write"}
    /\ \/ UNCHANGED out
       \/ out' = Append(out, Piece(IF pc = "reply" THEN "head" ELSE "body", FALSE))
    /\ pc' = "test"
    /\ UNCHANGED <<network, go, got, need, cur, status, body, lapses>>

\* tcpsenddata fails, or its select times out, when nothing or a part is out.
ReplyFails ==
    /\ pc \in {"reply", "replyBody", "write"}
    /\ \/ UNCHANGED out
       \/ /\ pc # "replyBody"
          /\ out' = Append(out, Piece(IF pc = "reply" THEN "head" ELSE "body", FALSE))
    /\ pc' = "closed"
    /\ UNCHANGED <<network, go, got, need, cur, status, body, lapses>>

\* The client has read so much that the rest of the body fits.
ReplyBody ==
    /\ pc = "write"
    /\ out' = Append(out, Piece("body", TRUE))
    /\ Served
    /\ UNCHANGED <<network, go, got, need, cur, status, body, lapses>>

-----------------------------------------------------------------------------
Server ==
    \/ TestFlag
    \/ Read \/ HeadTimeout \/ BodyTimeout \/ ReadFails
    \/ Parse \/ Work
    \/ ReplyHead \/ SendBody \/ ReplyBody \/ ReplyFails

Next == Send \/ Arrive \/ Shut \/ StopServer \/ Server

\* select has a timeout, so a wait in it ends whatever the client does; a reply's
\* header is small enough to fit when select says so.  The write of a body has no
\* timeout.  Nothing is assumed of the client and the network.
Spec == Init /\ [][Next]_vars /\ WF_vars(pc # "write" /\ Server)

-----------------------------------------------------------------------------
(* Properties                                                              *)

\* Package j + 1 begins behind j packages.
Begin(j) == j * (HeadLen + BodyLen)

Unit == [req : 1 .. MaxRequests, part : {"head", "body"}, n : Nat \ {0}]

\* Type invariant of the connection.
ConnectionTypeOK ==
    /\ sent \in 0 .. MaxRequests
    /\ flight \in Seq(Unit) /\ inbox \in Seq(Unit) /\ got \in Seq(Unit)
    /\ arrived \in 0 .. Begin(MaxRequests)
    /\ {shut, go, torn, strayed} \subseteq BOOLEAN
    /\ pc \in {"test", "head", "parse", "body", "work", "reply", "replyBody", "write",
              "closed"}
    /\ need \in 0 .. HeadLen + BodyLen + UploadRead
    /\ Len(got) <= need
    /\ cur \in [req : 0 .. MaxRequests, kind : Kind]
    /\ status \in {"ok", "exists", "err"}
    /\ body \in {"none", "data", "null"}
    /\ out \in Seq([req : 0 .. MaxRequests, part : {"head", "body"}, whole : BOOLEAN])

\* Whatever failed, was late or was refused before: what the thread takes for
\* the next header is the header of the first request that has no reply yet.
\* Not so after a header was dropped half-way or an upload was accepted.
InSync ==
    pc = "parse" /\ ~torn /\ ~strayed => got = HeadOf(Replies + 1)

\* The client can read the replies: each request has one, in their order, a
\* body follows the header that announces it, and nothing follows a piece that
\* was not sent completely.
RepliesAreReadable ==
    /\ \A i \in DOMAIN out : i < Len(out) => out[i].whole
    /\ \A i \in DOMAIN out : out[i].part = "body" =>
         i > 1 /\ out[i - 1].part = "head" /\ out[i - 1].req = out[i].req
    /\ ~torn /\ ~strayed => \A i \in Heads : out[i].req = Cardinality({k \in Heads : k <= i})

\* A request that has arrived completely is answered, or the connection is
\* closed, whatever the client sends or leaves out: it never waits in vain for a
\* thread that waits for it.  Not so for a client that leaves a reply's body
\* unread for ever: the thread stays in its write.
Answered ==
    []<>(pc # "write") =>
      \A j \in 1 .. MaxRequests :
        arrived >= Begin(j)
            ~> Replies >= j \/ pc = "closed" \/ torn \/ strayed

\* "package format: 9 bytes length (hex string), 1 byte cmd (char), 1 byte
\* status (char), data buff (struct)": what is taken for a header is a header.
PackageFormat == pc = "parse" => Understood # {}

-----------------------------------------------------------------------------
(* The inductive invariant behind InSync and RepliesAreReadable.           *)

\* Where a unit stands in the stream of all requests.
Place(u) == Begin(u.req - 1) + (IF u.part = "head" THEN u.n ELSE HeadLen + u.n)

Belongs(u, m) ==
    /\ u.req <= m
    /\ u.n <= IF u.part = "head" THEN HeadLen ELSE BodyLen

\* The units of s are of the first m requests and follow one another behind k.
StandsAt(s, k, m) == \A i \in DOMAIN s : Belongs(s[i], m) /\ Place(s[i]) = k + i

\* What the thread has done with before the running tcprecvdata: the packages
\* it has answered, and the part of the next one that its place tells.
DoneWith ==
    CASE pc \in {"body", "work"} -> Begin(Replies) + HeadLen
      [] pc = "reply"            -> Begin(Replies + 1)
      [] OTHER                   -> Begin(Replies)

\* While nothing was dropped or left behind, what it has read, what is in the
\* socket and what is on its way continue the stream from there.
InStep == ~torn /\ ~strayed /\ pc # "closed" /\ ~(pc = "reply" /\ status = "err")

StreamGoesOn ==
    InStep =>
      /\ StandsAt(got, DoneWith, sent)
      /\ StandsAt(inbox, DoneWith + Len(got), sent)
      /\ StandsAt(flight, DoneWith + Len(got) + Len(inbox), sent)
      /\ ~shut => DoneWith + Len(got) + Len(inbox) + Len(flight) = Begin(sent)

\* What the places of the thread tell of its variables.
PlacesOfThread ==
    /\ pc \in {"test", "reply", "replyBody", "write"} => got = <<>>
    /\ pc \in {"head", "parse"} => need = HeadLen
    /\ pc \in {"parse", "work"} => Len(got) = need
    /\ ~torn /\ ~strayed =>
         /\ pc \in {"body", "work"} =>
              need = IF cur.kind = "upload" THEN UploadRead ELSE BodyLen
         /\ pc \in {"body", "work", "reply"} => cur.req = Replies + 1

\* A piece that was cut off is the last; a body belongs to the header before it.
RepliesInOrder ==
    /\ pc # "closed" => \A i \in DOMAIN out : out[i].whole
    /\ pc \in {"replyBody", "write"} =>
         out # <<>> /\ out[Len(out)].part = "head" /\ out[Len(out)].req = cur.req
    /\ RepliesAreReadable

NoMoreThanSent == arrived + Len(flight) <= Begin(sent)

ConnectionInv ==
    /\ ConnectionTypeOK
    /\ NoMoreThanSent
    /\ StreamGoesOn
    /\ PlacesOfThread
    /\ RepliesInOrder
=============================================================================
