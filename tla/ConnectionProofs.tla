-------------------------- MODULE ConnectionProofs --------------------------
(***************************************************************************)
(* That a connection thread and its client agree where a package begins,   *)
(* for headers and bodies of any length and any number of requests.        *)
(***************************************************************************)
EXTENDS Connection, SequenceTheorems, FiniteSetTheorems, TLAPS

-----------------------------------------------------------------------------
(* Places in the stream                                                    *)

\* Packages follow one another without a gap and without an overlap.
LEMMA Packages ==
    /\ Begin(0) = 0
    /\ \A j \in Nat :
         /\ Begin(j) \in Nat
         /\ Begin(j + 1) = Begin(j) + HeadLen + BodyLen
    /\ \A j, k \in Nat : j < k => Begin(j) + HeadLen + BodyLen <= Begin(k)
<1> DEFINE P == HeadLen + BodyLen
<1>1. P \in Nat /\ HeadLen \in Nat /\ BodyLen \in Nat
  BY ConnectionAssumption
<1>2. \A j \in Nat : Begin(j) = j * P
  BY DEF Begin
<1> HIDE DEF P
<1>3. \A j \in Nat : j * P \in Nat /\ (j + 1) * P = j * P + P
  BY <1>1
<1>4. 0 * P = 0
  BY <1>1
<1>5. ASSUME NEW j \in Nat, NEW k \in Nat, j < k
      PROVE  j * P + P <= k * P
  <2>1. PICK d \in Nat : k = (j + 1) + d
    <3>1. k - (j + 1) \in Nat /\ k = (j + 1) + (k - (j + 1))
      BY <1>5
    <3> QED
      BY <3>1
  <2>2. k * P = (j + 1) * P + d * P
    BY <1>1, <2>1
  <2> QED
    BY <1>3, <2>2
<1>6. P = HeadLen + BodyLen
  BY DEF P
<1>7. \A j \in Nat : j + 1 \in Nat
  OBVIOUS
<1>8. Begin(0) = 0
  BY <1>2, <1>4
<1>9. \A j \in Nat : Begin(j) \in Nat
  BY <1>2, <1>3
<1>10. \A j \in Nat : Begin(j + 1) = Begin(j) + HeadLen + BodyLen
  <2> TAKE j \in Nat
  <2>1. Begin(j + 1) = (j + 1) * P /\ Begin(j) = j * P
    BY <1>2, <1>7
  <2> QED
    BY <1>1, <1>3, <1>6, <1>9, <2>1
<1>11. \A j, k \in Nat : j < k => Begin(j) + HeadLen + BodyLen <= Begin(k)
  <2> TAKE j, k \in Nat
  <2> HAVE j < k
  <2>1. Begin(j) + P <= Begin(k)
    BY <1>2, <1>5
  <2> QED
    BY <1>1, <1>6, <1>9, <2>1
<1> QED
  BY <1>8, <1>9, <1>10, <1>11

\* A unit that stands in the header of a package is a unit of that header.
LEMMA UnitOfHeader ==
    ASSUME NEW u \in Unit, NEW m, Belongs(u, m), NEW j \in Nat, NEW i \in 1 .. HeadLen,
           Place(u) = Begin(j) + i
    PROVE  u = [req |-> j + 1, part |-> "head", n |-> i] /\ j + 1 <= m
<1>1. /\ HeadLen \in Nat \ {0} /\ BodyLen \in Nat \ {0} /\ MaxRequests \in Nat
  BY ConnectionAssumption
<1>2. u.req \in 1 .. MaxRequests /\ u.part \in {"head", "body"} /\ u.n \in Nat \ {0}
  BY DEF Unit
<1> DEFINE r == u.req - 1
<1> DEFINE x == IF u.part = "head" THEN u.n ELSE HeadLen + u.n
<1>3. r \in Nat /\ x \in Nat /\ 1 <= x /\ x <= HeadLen + BodyLen
  BY <1>1, <1>2 DEF Belongs
<1>4. Begin(r) + x = Begin(j) + i
  BY DEF Place
<1> HIDE DEF r, x
<1>5. Begin(r) \in Nat /\ Begin(j) \in Nat
  BY <1>3, Packages
<1>6. r = j
  <2>1. r < j => Begin(r) + HeadLen + BodyLen <= Begin(j)
    BY <1>3, Packages
  <2>2. j < r => Begin(j) + HeadLen + BodyLen <= Begin(r)
    BY <1>3, Packages
  <2> QED
    BY <1>1, <1>3, <1>4, <1>5, <2>1, <2>2
<1>7. x = i
  BY <1>3, <1>4, <1>5, <1>6
<1>8. u.req = j + 1
  BY <1>2, <1>6 DEF r
<1>9. u.part = "head" /\ u.n = i
  BY <1>1, <1>2, <1>7 DEF x
<1>10. u = [req |-> u.req, part |-> u.part, n |-> u.n]
  BY DEF Unit
<1>11. u.req <= m
  BY DEF Belongs
<1> QED
  BY <1>8, <1>9, <1>10, <1>11

-----------------------------------------------------------------------------
(* Pieces of the stream                                                    *)

LEMMA StandsCut ==
    ASSUME NEW s \in Seq(Unit), NEW k \in Nat, NEW m, NEW n \in 0 .. Len(s)
    PROVE  /\ SubSeq(s, 1, n) \in Seq(Unit) /\ Len(SubSeq(s, 1, n)) = n
           /\ SubSeq(s, n + 1, Len(s)) \in Seq(Unit)
           /\ Len(SubSeq(s, n + 1, Len(s))) = Len(s) - n
           /\ StandsAt(s, k, m) => /\ StandsAt(SubSeq(s, 1, n), k, m)
                                   /\ StandsAt(SubSeq(s, n + 1, Len(s)), k + n, m)
<1>1. Len(s) \in Nat /\ DOMAIN s = 1 .. Len(s) /\ \A i \in 1 .. Len(s) : s[i] \in Unit
  BY LenProperties, ElementOfSeq
<1> DEFINE a == SubSeq(s, 1, n)
<1> DEFINE b == SubSeq(s, n + 1, Len(s))
<1>2. a \in Seq(Unit) /\ Len(a) = n /\ \A i \in 1 .. n : a[i] = s[i]
  <2>1. \A i \in 1 .. n : s[i] \in Unit
    BY <1>1
  <2>2. /\ a \in Seq(Unit)
        /\ Len(a) = IF 1 <= n THEN n - 1 + 1 ELSE 0
        /\ \A i \in 1 .. n - 1 + 1 : a[i] = s[1 + i - 1]
    BY <2>1, SubSeqProperties
  <2> QED
    BY <2>2
<1>3. /\ b \in Seq(Unit) /\ Len(b) = Len(s) - n
      /\ \A i \in 1 .. Len(s) - n : b[i] = s[n + i]
  <2>1. \A i \in n + 1 .. Len(s) : s[i] \in Unit
    BY <1>1
  <2>2. /\ b \in Seq(Unit)
        /\ Len(b) = IF n + 1 <= Len(s) THEN Len(s) - (n + 1) + 1 ELSE 0
        /\ \A i \in 1 .. Len(s) - (n + 1) + 1 : b[i] = s[(n + 1) + i - 1]
    BY <1>1, <2>1, SubSeqProperties
  <2> HIDE DEF b
  <2>3. \A l \in Nat : \A q \in 0 .. l :
          /\ l - (q + 1) + 1 = l - q
          /\ (IF q + 1 <= l THEN l - (q + 1) + 1 ELSE 0) = l - q
    OBVIOUS
  <2>4. Len(b) = Len(s) - n
    BY <1>1, <2>2, <2>3
  <2>5. \A i \in 1 .. Len(s) - n : (n + 1) + i - 1 = n + i
    OBVIOUS
  <2> QED
    BY <1>1, <2>2, <2>3, <2>4, <2>5
<1> HIDE DEF a, b
<1>4. DOMAIN a = 1 .. n /\ DOMAIN b = 1 .. Len(s) - n
  BY <1>2, <1>3, LenProperties
<1>5. ASSUME StandsAt(s, k, m)
      PROVE  StandsAt(a, k, m) /\ StandsAt(b, k + n, m)
  <2>1. \A i \in 1 .. Len(s) : Belongs(s[i], m) /\ Place(s[i]) = k + i
    BY <1>1, <1>5 DEF StandsAt
  <2>2. \A i \in 1 .. n : Belongs(a[i], m) /\ Place(a[i]) = k + i
    BY <1>1, <1>2, <2>1
  <2>3. \A i \in 1 .. Len(s) - n : Belongs(b[i], m) /\ Place(b[i]) = (k + n) + i
    <3> TAKE i \in 1 .. Len(s) - n
    <3>1. n + i \in 1 .. Len(s) /\ k + (n + i) = (k + n) + i
      BY <1>1
    <3> QED
      BY <1>3, <2>1, <3>1
  <2> QED
    BY <1>4, <2>2, <2>3 DEF StandsAt
<1> QED
  BY <1>2, <1>3, <1>5 DEF a, b

LEMMA StandsJoined ==
    ASSUME NEW s \in Seq(Unit), NEW t \in Seq(Unit), NEW k \in Nat, NEW m
    PROVE  /\ s \o t \in Seq(Unit) /\ Len(s \o t) = Len(s) + Len(t)
           /\ StandsAt(s, k, m) /\ StandsAt(t, k + Len(s), m) => StandsAt(s \o t, k, m)
<1>1. /\ Len(s) \in Nat /\ DOMAIN s = 1 .. Len(s)
      /\ Len(t) \in Nat /\ DOMAIN t = 1 .. Len(t)
  BY LenProperties
<1> DEFINE c == s \o t
<1>2. /\ c \in Seq(Unit) /\ Len(c) = Len(s) + Len(t)
      /\ \A i \in 1 .. Len(s) + Len(t) : c[i] = IF i <= Len(s) THEN s[i] ELSE t[i - Len(s)]
  BY ConcatProperties
<1> HIDE DEF c
<1>3. DOMAIN c = 1 .. Len(s) + Len(t)
  BY <1>2, LenProperties
<1>4. ASSUME StandsAt(s, k, m), StandsAt(t, k + Len(s), m)
      PROVE  StandsAt(c, k, m)
  <2> SUFFICES ASSUME NEW i \in 1 .. Len(s) + Len(t)
               PROVE  Belongs(c[i], m) /\ Place(c[i]) = k + i
    BY <1>3 DEF StandsAt
  <2>1. CASE i <= Len(s)
    <3>1. i \in 1 .. Len(s) /\ c[i] = s[i]
      BY <1>1, <1>2, <2>1
    <3> QED
      BY <1>1, <1>4, <3>1 DEF StandsAt
  <2>2. CASE ~(i <= Len(s))
    <3>1. i - Len(s) \in 1 .. Len(t) /\ c[i] = t[i - Len(s)] /\ (k + Len(s)) + (i - Len(s)) = k + i
      BY <1>1, <1>2, <2>2
    <3> QED
      BY <1>1, <1>4, <3>1 DEF StandsAt
  <2> QED
    BY <2>1, <2>2
<1> QED
  BY <1>2, <1>4 DEF c

\* What stood in the stream stands there when more is sent.
LEMMA StandsLonger ==
    ASSUME NEW s \in Seq(Unit), NEW k \in Nat, NEW m \in Nat, StandsAt(s, k, m)
    PROVE  StandsAt(s, k, m + 1)
<1>1. \A i \in DOMAIN s : s[i].req \in Nat
  <2>1. DOMAIN s = 1 .. Len(s) /\ \A i \in 1 .. Len(s) : s[i] \in Unit
    BY LenProperties, ElementOfSeq
  <2> QED
    BY <2>1, ConnectionAssumption DEF Unit
<1>2. \A i \in DOMAIN s : Belongs(s[i], m) => Belongs(s[i], m + 1)
  BY <1>1 DEF Belongs
<1> QED
  BY <1>2 DEF StandsAt

\* A request is sent behind those before it.
LEMMA StandsSent ==
    ASSUME NEW j \in Nat, j + 1 \in 1 .. MaxRequests
    PROVE  /\ HeadOf(j + 1) \in Seq(Unit) /\ Len(HeadOf(j + 1)) = HeadLen
           /\ BodyOf(j + 1) \in Seq(Unit) /\ Len(BodyOf(j + 1)) = BodyLen
           /\ StandsAt(HeadOf(j + 1), Begin(j), j + 1)
           /\ StandsAt(BodyOf(j + 1), Begin(j) + HeadLen, j + 1)
<1>1. /\ HeadLen \in Nat \ {0} /\ BodyLen \in Nat \ {0} /\ MaxRequests \in Nat
  BY ConnectionAssumption
<1> DEFINE h(i) == [req |-> j + 1, part |-> "head", n |-> i]
<1> DEFINE b(i) == [req |-> j + 1, part |-> "body", n |-> i]
<1>2. /\ \A i \in 1 .. HeadLen : h(i) \in Unit
      /\ \A i \in 1 .. BodyLen : b(i) \in Unit
  BY <1>1 DEF Unit
<1>3. HeadOf(j + 1) = [i \in 1 .. HeadLen |-> h(i)] /\ BodyOf(j + 1) = [i \in 1 .. BodyLen |-> b(i)]
  BY DEF HeadOf, BodyOf
<1>4. Begin(j) \in Nat /\ (j + 1) - 1 = j
  BY Packages
<1>5. /\ \A i \in 1 .. HeadLen : Belongs(h(i), j + 1) /\ Place(h(i)) = Begin(j) + i
      /\ \A i \in 1 .. BodyLen : Belongs(b(i), j + 1) /\ Place(b(i)) = (Begin(j) + HeadLen) + i
  <2>1. \A i \in 1 .. HeadLen : h(i).req = j + 1 /\ h(i).part = "head" /\ h(i).n = i
    OBVIOUS
  <2>2. \A i \in 1 .. BodyLen : b(i).req = j + 1 /\ b(i).part = "body" /\ b(i).n = i
    OBVIOUS
  <2> HIDE DEF h, b
  <2>3. \A i \in 1 .. HeadLen : Belongs(h(i), j + 1) /\ Place(h(i)) = Begin(j) + i
    BY <1>1, <1>4, <2>1 DEF Belongs, Place
  <2>4. \A i \in 1 .. BodyLen : Belongs(b(i), j + 1) /\ Place(b(i)) = (Begin(j) + HeadLen) + i
    <3> TAKE i \in 1 .. BodyLen
    <3>1. Place(b(i)) = Begin(j) + (HeadLen + i)
      BY <1>4, <2>2 DEF Place
    <3>2. Begin(j) + (HeadLen + i) = (Begin(j) + HeadLen) + i
      BY <1>1, <1>4
    <3> QED
      BY <1>1, <2>2, <3>1, <3>2 DEF Belongs
  <2> QED
    BY <2>3, <2>4
<1> HIDE DEF h, b
<1>6. /\ HeadOf(j + 1) \in Seq(Unit) /\ Len(HeadOf(j + 1)) = HeadLen
      /\ BodyOf(j + 1) \in Seq(Unit) /\ Len(BodyOf(j + 1)) = BodyLen
  BY <1>1, <1>2, <1>3
<1> QED
  BY <1>3, <1>5, <1>6 DEF StandsAt

-----------------------------------------------------------------------------
(* Facts of a state                                                        *)

LEMMA Sequences ==
    ASSUME ConnectionInv
    PROVE  /\ ConnectionTypeOK
           /\ got \in Seq(Unit) /\ inbox \in Seq(Unit) /\ flight \in Seq(Unit)
           /\ DOMAIN out = 1 .. Len(out)
           /\ Len(out) \in Nat
           /\ IsFiniteSet(Heads)
<1>1. ConnectionTypeOK
  BY DEF ConnectionInv
<1>2. Len(out) \in Nat /\ DOMAIN out = 1 .. Len(out)
  BY <1>1, LenProperties DEF ConnectionTypeOK
<1>3. IsFiniteSet(Heads)
  <2>1. Heads \subseteq 1 .. Len(out)
    BY <1>2 DEF Heads
  <2>2. IsFiniteSet(1 .. Len(out))
    BY <1>2, FS_Interval
  <2> QED
    BY <2>1, <2>2, FS_Subset
<1> QED
  BY <1>1, <1>2, <1>3 DEF ConnectionTypeOK

LEMMA Numbers ==
    ASSUME ConnectionInv
    PROVE  /\ HeadLen \in Nat /\ HeadLen > 0 /\ BodyLen \in Nat /\ BodyLen > 0
           /\ UploadRead \in Nat /\ MaxRequests \in Nat /\ sent \in Nat /\ sent <= MaxRequests
           /\ arrived \in Nat /\ need \in Nat /\ Replies \in Nat
           /\ Len(got) \in Nat /\ Len(inbox) \in Nat /\ Len(flight) \in Nat
           /\ Begin(sent) \in Nat /\ Begin(Replies) \in Nat /\ DoneWith \in Nat
<1>1. /\ HeadLen \in Nat /\ HeadLen > 0 /\ BodyLen \in Nat /\ BodyLen > 0
      /\ UploadRead \in Nat /\ MaxRequests \in Nat
  BY ConnectionAssumption
<1>2. sent \in Nat /\ sent <= MaxRequests /\ arrived \in Nat /\ need \in Nat
  BY <1>1, Sequences DEF ConnectionTypeOK
<1>3. Len(got) \in Nat /\ Len(inbox) \in Nat /\ Len(flight) \in Nat
  BY Sequences, LenProperties
<1>4. Replies \in Nat
  BY Sequences, FS_CardinalityType DEF Replies
<1>5. Begin(sent) \in Nat
  BY <1>2, Packages
<1>6. Begin(Replies) \in Nat /\ Begin(Replies + 1) \in Nat
  BY <1>4, Packages
<1>7. DoneWith \in Nat
  BY <1>1, <1>6 DEF DoneWith
<1> QED
  BY <1>1, <1>2, <1>3, <1>4, <1>5, <1>6, <1>7

\* Nothing is appended to the replies.
LEMMA RepliesKept ==
    ASSUME RepliesInOrder, UNCHANGED out, pc # "closed",
           torn => torn', strayed => strayed',
           \/ pc' \notin {"replyBody", "write"}
           \/ pc \in {"replyBody", "write"} /\ UNCHANGED cur
           \/ UNCHANGED <<pc, cur>>
    PROVE  RepliesInOrder' /\ Heads' = Heads /\ Replies' = Replies
<1>1. Heads' = Heads /\ Replies' = Replies
  BY DEF Heads, Replies
<1>2. RepliesAreReadable'
  BY <1>1 DEF RepliesInOrder, RepliesAreReadable
<1> QED
  BY <1>1, <1>2 DEF RepliesInOrder

-----------------------------------------------------------------------------
(* The client and the network                                              *)

LEMMA NetworkKeeps ==
    ASSUME ConnectionInv, UNCHANGED <<pc, got, need, cur, reply, lapses>>, pc # "closed"
    PROVE  /\ PlacesOfThread' /\ RepliesInOrder'
           /\ InStep' = InStep /\ DoneWith' = DoneWith
<1>1. RepliesInOrder' /\ Replies' = Replies
  BY RepliesKept DEF ConnectionInv, reply, lapses
<1> QED
  BY <1>1 DEF ConnectionInv, PlacesOfThread, InStep, DoneWith, reply, lapses

LEMMA SendStep ==
    ASSUME ConnectionInv, Send
    PROVE  ConnectionInv'
<1>1. /\ ~shut /\ pc # "closed" /\ sent < MaxRequests /\ sent' = sent + 1
      /\ flight' = flight \o HeadOf(sent + 1) \o BodyOf(sent + 1)
      /\ UNCHANGED <<inbox, arrived, shut, go, pc, got, need, cur, reply, lapses>>
  BY DEF Send
<1>3. PlacesOfThread' /\ RepliesInOrder' /\ InStep' = InStep /\ DoneWith' = DoneWith
  BY <1>1, NetworkKeeps
<1> DEFINE h == HeadOf(sent + 1)
           b == BodyOf(sent + 1)
<1>4. /\ h \in Seq(Unit) /\ Len(h) = HeadLen /\ b \in Seq(Unit) /\ Len(b) = BodyLen
      /\ StandsAt(h, Begin(sent), sent + 1)
      /\ StandsAt(b, Begin(sent) + HeadLen, sent + 1)
  <2>1. sent + 1 \in 1 .. MaxRequests
    BY <1>1, Numbers, SMTT(30)
  <2> QED
    BY <2>1, StandsSent, Numbers
<1>5. flight' = (flight \o h) \o b /\ flight \in Seq(Unit)
  BY <1>1, Sequences
<1> HIDE DEF h, b
<1>6. flight \o h \in Seq(Unit) /\ Len(flight \o h) = Len(flight) + HeadLen
  BY <1>4, <1>5, StandsJoined
<1>7. flight' \in Seq(Unit) /\ Len(flight') = Len(flight) + HeadLen + BodyLen
  <2>1. flight' \in Seq(Unit) /\ Len(flight') = Len(flight \o h) + Len(b)
    BY <1>4, <1>5, <1>6, StandsJoined
  <2> QED
    BY <1>4, <1>6, <2>1, Numbers
<1>8. ConnectionTypeOK'
  <2>1. sent' \in 0 .. MaxRequests
    BY <1>1, Numbers, SMTT(30)
  <2>2. /\ inbox' \in Seq(Unit) /\ got' \in Seq(Unit) /\ arrived' \in 0 .. Begin(MaxRequests)
        /\ {shut', go', torn', strayed'} \subseteq BOOLEAN
    BY <1>1, Sequences DEF ConnectionTypeOK, reply, lapses
  <2> QED
    BY <1>1, <1>7, <2>1, <2>2, Sequences DEF ConnectionTypeOK, reply, lapses
<1>9. Begin(sent') = Begin(sent) + HeadLen + BodyLen
  BY <1>1, Packages, Numbers
<1>10. NoMoreThanSent'
  <2>1. arrived + Len(flight) <= Begin(sent) /\ arrived' = arrived
    BY <1>1 DEF ConnectionInv, NoMoreThanSent
  <2>2. \A a, f, c, x, y \in Nat : a + f <= c => a + (f + x + y) <= c + x + y
    OBVIOUS
  <2>3. arrived + (Len(flight) + HeadLen + BodyLen) <= Begin(sent) + HeadLen + BodyLen
    BY <2>1, <2>2, Numbers
  <2> QED
    BY <1>7, <1>9, <2>1, <2>3 DEF NoMoreThanSent
<1>11. ASSUME InStep
       PROVE  /\ StandsAt(got, DoneWith, sent + 1)
              /\ StandsAt(inbox, DoneWith + Len(got), sent + 1)
              /\ StandsAt(flight', DoneWith + Len(got) + Len(inbox), sent + 1)
              /\ DoneWith + Len(got) + Len(inbox) + Len(flight') = Begin(sent')
  <2> DEFINE k == DoneWith + Len(got) + Len(inbox)
  <2>1. /\ StandsAt(got, DoneWith, sent)
        /\ StandsAt(inbox, DoneWith + Len(got), sent)
        /\ StandsAt(flight, k, sent)
        /\ k + Len(flight) = Begin(sent)
    BY <1>1, <1>11 DEF ConnectionInv, StreamGoesOn
  <2>2. k \in Nat /\ DoneWith + Len(got) \in Nat
    BY Numbers, SMTT(30)
  <2> HIDE DEF k
  <2>3. /\ StandsAt(got, DoneWith, sent + 1)
        /\ StandsAt(inbox, DoneWith + Len(got), sent + 1)
        /\ StandsAt(flight, k, sent + 1)
    BY <1>5, <2>1, <2>2, StandsLonger, Sequences, Numbers
  <2>4. StandsAt(flight \o h, k, sent + 1)
    BY <1>4, <1>5, <2>1, <2>2, <2>3, StandsJoined
  <2>5. k + Len(flight \o h) = Begin(sent) + HeadLen
    <3>1. Len(flight \o h) = Len(flight) + HeadLen /\ k + Len(flight) = Begin(sent)
      BY <1>6, <2>1
    <3>2. \A a, f, c, x \in Nat : a + f = c => a + (f + x) = c + x
      OBVIOUS
    <3> QED
      BY <2>2, <3>1, <3>2, Numbers, SMTT(30)
  <2>6. StandsAt((flight \o h) \o b, k, sent + 1)
    BY <1>4, <1>6, <2>2, <2>4, <2>5, StandsJoined
  <2>7. k + Len(flight') = Begin(sent')
    <3>1. Len(flight') = Len(flight) + HeadLen + BodyLen /\ k + Len(flight) = Begin(sent)
      BY <1>7, <2>1
    <3>2. /\ Len(flight) \in Nat /\ HeadLen \in Nat /\ BodyLen \in Nat
          /\ Begin(sent) \in Nat /\ k \in Nat
      BY <2>2, Numbers
    <3>3. k + (Len(flight) + HeadLen + BodyLen) = Begin(sent) + HeadLen + BodyLen
      BY <3>1, <3>2
    <3> QED
      BY <1>9, <3>1, <3>3
  <2> QED
    BY <1>5, <2>3, <2>6, <2>7 DEF k
<1>12. StreamGoesOn'
  <2> SUFFICES ASSUME InStep
               PROVE  /\ StandsAt(got', DoneWith', sent')
                      /\ StandsAt(inbox', DoneWith' + Len(got'), sent')
                      /\ StandsAt(flight', DoneWith' + Len(got') + Len(inbox'), sent')
                      /\ DoneWith' + Len(got') + Len(inbox') + Len(flight') = Begin(sent')
    BY <1>3 DEF StreamGoesOn
  <2>1. got' = got /\ inbox' = inbox /\ DoneWith' = DoneWith /\ sent' = sent + 1
    BY <1>1, <1>3
  <2> QED
    BY <1>11, <2>1
<1> QED
  BY <1>3, <1>8, <1>10, <1>12 DEF ConnectionInv

LEMMA ArriveStep ==
    ASSUME ConnectionInv, Arrive
    PROVE  ConnectionInv'
<1>1. /\ flight # <<>> /\ pc # "closed"
      /\ inbox' = Append(inbox, Head(flight)) /\ flight' = Tail(flight)
      /\ arrived' = arrived + 1
      /\ UNCHANGED <<sent, shut, go, pc, got, need, cur, reply, lapses>>
  BY DEF Arrive
<1>2. PlacesOfThread' /\ RepliesInOrder' /\ InStep' = InStep /\ DoneWith' = DoneWith
  BY <1>1, NetworkKeeps
<1> DEFINE u == <<flight[1]>>
<1>3. Len(flight) \in Nat /\ 1 \in 0 .. Len(flight) /\ Len(flight) > 0
  <2>1. Len(flight) \in Nat \ {0}
    BY <1>1, Sequences, EmptySeq, Zenon
  <2> QED
    BY <2>1
<1>4. inbox' = inbox \o u /\ flight' = SubSeq(flight, 1 + 1, Len(flight)) /\ flight[1] \in Unit
  <2>1. Tail(flight) = SubSeq(flight, 2, Len(flight))
    BY <1>1, Sequences, TailIsSubSeq, Zenon
  <2>2. Head(flight) = flight[1] /\ flight[1] \in Unit
    BY <1>3, Sequences
  <2>3. Append(inbox, flight[1]) = inbox \o <<flight[1]>>
    BY <2>2, Sequences, AppendIsConcat, Zenon
  <2> QED
    BY <1>1, <2>1, <2>2, <2>3
<1>5. /\ u \in Seq(Unit) /\ Len(u) = 1
      /\ flight' \in Seq(Unit) /\ Len(flight') = Len(flight) - 1
      /\ \A k \in Nat : StandsAt(flight, k, sent) =>
           StandsAt(u, k, sent) /\ StandsAt(flight', k + 1, sent)
  <2>1. /\ flight' \in Seq(Unit) /\ Len(flight') = Len(flight) - 1
        /\ \A k \in Nat : StandsAt(flight, k, sent) => StandsAt(flight', k + 1, sent)
    BY <1>3, <1>4, Sequences, StandsCut
  <2>2. u \in Seq(Unit) /\ Len(u) = 1 /\ DOMAIN u = {1} /\ u[1] = flight[1]
    BY <1>4
  <2>3. 1 \in DOMAIN flight
    BY <1>3, Sequences
  <2> HIDE DEF u
  <2>4. \A k \in Nat : StandsAt(flight, k, sent) => StandsAt(u, k, sent)
    BY <2>2, <2>3 DEF StandsAt
  <2> QED
    BY <2>1, <2>2, <2>4
<1> HIDE DEF u
<1>6. inbox' \in Seq(Unit) /\ Len(inbox') = Len(inbox) + 1
  <2>1. inbox \o u \in Seq(Unit) /\ Len(inbox \o u) = Len(inbox) + Len(u)
    BY <1>5, Sequences, ConcatProperties, Zenon
  <2> QED
    BY <1>4, <1>5, <2>1
<1>7. NoMoreThanSent'
  <2>1. arrived + Len(flight) <= Begin(sent) /\ sent' = sent
    BY <1>1 DEF ConnectionInv, NoMoreThanSent
  <2>2. arrived \in Nat /\ Len(flight) \in Nat /\ Begin(sent) \in Nat
    BY Numbers
  <2> QED
    BY <1>1, <1>5, <2>1, <2>2 DEF NoMoreThanSent
<1>8. arrived' \in 0 .. Begin(MaxRequests)
  <2>1. Begin(sent) <= Begin(MaxRequests) /\ Begin(sent) \in Nat /\ Begin(MaxRequests) \in Nat
    <3>1. sent \in Nat /\ MaxRequests \in Nat /\ (sent = MaxRequests \/ sent < MaxRequests)
      BY Numbers
    <3>2. /\ Begin(sent) \in Nat /\ Begin(MaxRequests) \in Nat
          /\ sent < MaxRequests => Begin(sent) + HeadLen + BodyLen <= Begin(MaxRequests)
      BY <3>1, Packages
    <3>3. HeadLen \in Nat /\ BodyLen \in Nat
      BY Numbers
    <3> QED
      BY <3>1, <3>2, <3>3
  <2>2. arrived + Len(flight) <= Begin(sent)
    BY DEF ConnectionInv, NoMoreThanSent
  <2>3. arrived \in Nat
    BY Numbers
  <2> QED
    BY <1>1, <1>3, <2>1, <2>2, <2>3
<1>9. ConnectionTypeOK'
  BY <1>1, <1>5, <1>6, <1>8, Sequences DEF ConnectionTypeOK, reply, lapses
<1>10. StreamGoesOn'
  <2> DEFINE k == DoneWith + Len(got)
  <2> SUFFICES ASSUME InStep
               PROVE  /\ StandsAt(got', DoneWith', sent')
                      /\ StandsAt(inbox', DoneWith' + Len(got'), sent')
                      /\ StandsAt(flight', DoneWith' + Len(got') + Len(inbox'), sent')
                      /\ ~shut' =>
                           DoneWith' + Len(got') + Len(inbox') + Len(flight') = Begin(sent')
    BY <1>2 DEF StreamGoesOn
  <2>1. got' = got /\ sent' = sent /\ DoneWith' = DoneWith /\ shut' = shut
    BY <1>1, <1>2
  <2>2. /\ StandsAt(got, DoneWith, sent)
        /\ StandsAt(inbox, k, sent)
        /\ StandsAt(flight, k + Len(inbox), sent)
        /\ ~shut => k + Len(inbox) + Len(flight) = Begin(sent)
    BY DEF ConnectionInv, StreamGoesOn
  <2>3. k \in Nat /\ Len(inbox) \in Nat /\ k + Len(inbox) \in Nat
    BY Numbers, SMTT(30)
  <2> HIDE DEF k
  <2>4. StandsAt(u, k + Len(inbox), sent) /\ StandsAt(flight', (k + Len(inbox)) + 1, sent)
    BY <1>5, <2>2, <2>3
  <2>5. StandsAt(inbox', k, sent)
    BY <1>4, <1>5, <2>2, <2>3, <2>4, Sequences, StandsJoined
  <2>6. (k + Len(inbox)) + 1 = k + Len(inbox')
    BY <1>6, <2>3
  <2>7. k + Len(inbox') + Len(flight') = k + Len(inbox) + Len(flight)
    BY <1>3, <1>5, <1>6, <2>3
  <2> QED
    BY <2>1, <2>2, <2>4, <2>5, <2>6, <2>7 DEF k
<1> QED
  BY <1>2, <1>7, <1>9, <1>10 DEF ConnectionInv

\* What is dropped is at the end of the stream, and nothing is sent behind it.
LEMMA ShutStep ==
    ASSUME ConnectionInv, Shut
    PROVE  ConnectionInv'
<1>1. PICK n \in 0 .. Len(flight) :
        /\ pc # "closed" /\ shut' = TRUE /\ flight' = SubSeq(flight, 1, n)
        /\ UNCHANGED <<sent, inbox, arrived, go, pc, got, need, cur, reply, lapses>>
  BY DEF Shut
<1>2. PlacesOfThread' /\ RepliesInOrder' /\ InStep' = InStep /\ DoneWith' = DoneWith
  BY <1>1, NetworkKeeps
<1>3. /\ flight' \in Seq(Unit) /\ Len(flight') = n
      /\ \A k \in Nat : StandsAt(flight, k, sent) => StandsAt(flight', k, sent)
  BY <1>1, Sequences, StandsCut
<1>4. NoMoreThanSent'
  <2>1. arrived + Len(flight) <= Begin(sent)
    BY DEF ConnectionInv, NoMoreThanSent
  <2>2. arrived \in Nat /\ Len(flight) \in Nat /\ Begin(sent) \in Nat
    BY Numbers
  <2> QED
    BY <1>1, <1>3, <2>1, <2>2 DEF NoMoreThanSent
<1>5. ConnectionTypeOK'
  BY <1>1, <1>3, Sequences DEF ConnectionTypeOK, reply, lapses
<1>6. StreamGoesOn'
  <2>1. DoneWith + Len(got) + Len(inbox) \in Nat
    BY Numbers, SMTT(30)
  <2> QED
    BY <1>1, <1>2, <1>3, <2>1 DEF ConnectionInv, StreamGoesOn
<1> QED
  BY <1>2, <1>4, <1>5, <1>6 DEF ConnectionInv

LEMMA StopStep ==
    ASSUME ConnectionInv, StopServer
    PROVE  ConnectionInv'
<1>1. pc # "closed" /\ go' = FALSE /\ UNCHANGED <<network, pc, got, need, cur, reply, lapses>>
  BY DEF StopServer
<1>2. PlacesOfThread' /\ RepliesInOrder' /\ InStep' = InStep /\ DoneWith' = DoneWith
  BY <1>1, NetworkKeeps
<1>3. ConnectionTypeOK' /\ NoMoreThanSent'
  BY <1>1, Sequences DEF ConnectionInv, ConnectionTypeOK, NoMoreThanSent, network, reply, lapses
<1>4. StreamGoesOn'
  BY <1>1, <1>2 DEF ConnectionInv, StreamGoesOn, network
<1> QED
  BY <1>2, <1>3, <1>4 DEF ConnectionInv

-----------------------------------------------------------------------------
(* storage_thread_entrance                                                 *)

\* The thread does not touch the client's end of the connection.
LEMMA NetworkSame ==
    ASSUME ConnectionInv, UNCHANGED <<sent, flight, arrived>>
    PROVE  NoMoreThanSent'
BY DEF ConnectionInv, NoMoreThanSent

LEMMA TestFlagStep ==
    ASSUME ConnectionInv, TestFlag
    PROVE  ConnectionInv'
<1>1. /\ pc = "test" /\ got = <<>> /\ got' = <<>> /\ Len(got') = 0
      /\ \/ pc' = "head" /\ need' = HeadLen
         \/ pc' = "closed" /\ need' = 0
      /\ UNCHANGED <<network, go, cur, reply, lapses>>
  BY DEF TestFlag, Receive, Close, ConnectionInv, PlacesOfThread
<1>2. RepliesInOrder' /\ Replies' = Replies
  BY <1>1, RepliesKept DEF ConnectionInv, reply, lapses
<1>3. PlacesOfThread'
  BY <1>1, <1>2 DEF ConnectionInv, PlacesOfThread
<1>4. NoMoreThanSent'
  BY <1>1, NetworkSame DEF network
<1>5. ConnectionTypeOK'
  <2>1. need' \in 0 .. HeadLen + BodyLen + UploadRead /\ 0 <= need'
    BY <1>1, Numbers
  <2> QED
    BY <1>1, <2>1, Sequences DEF ConnectionTypeOK, network, reply, lapses
<1>6. StreamGoesOn'
  <2>1. CASE pc' = "head"
    <3>1. InStep' = InStep /\ DoneWith' = DoneWith
      BY <1>1, <1>2, <2>1 DEF InStep, DoneWith, reply, lapses
    <3> QED
      BY <1>1, <3>1 DEF ConnectionInv, StreamGoesOn, network
  <2>2. CASE pc' = "closed"
    BY <2>2 DEF StreamGoesOn, InStep
  <2> QED
    BY <1>1, <2>1, <2>2
<1> QED
  BY <1>2, <1>3, <1>4, <1>5, <1>6 DEF ConnectionInv

LEMMA ReadStep ==
    ASSUME ConnectionInv, Read
    PROVE  ConnectionInv'
<1> DEFINE n == IF Len(inbox) < need - Len(got) THEN Len(inbox) ELSE need - Len(got)
<1>1. /\ pc \in {"head", "body"}
      /\ got' = got \o SubSeq(inbox, 1, n)
      /\ inbox' = SubSeq(inbox, n + 1, Len(inbox))
      /\ pc' = IF Len(got') < need THEN pc ELSE IF pc = "head" THEN "parse" ELSE "work"
      /\ UNCHANGED <<sent, flight, arrived, shut, go, need, cur, reply, lapses>>
  BY DEF Read
<1>2. n \in 0 .. Len(inbox) /\ Len(got) + n <= need
  <2>1. Len(got) \in Nat /\ Len(inbox) \in Nat /\ need \in Nat
    BY Numbers
  <2>2. Len(got) <= need
    BY Sequences DEF ConnectionTypeOK
  <2> QED
    BY <2>1, <2>2
<1> HIDE DEF n
<1> DEFINE a == SubSeq(inbox, 1, n)
<1>3. /\ a \in Seq(Unit) /\ Len(a) = n
      /\ inbox' \in Seq(Unit) /\ Len(inbox') = Len(inbox) - n
      /\ \A k \in Nat : StandsAt(inbox, k, sent) =>
           StandsAt(a, k, sent) /\ StandsAt(inbox', k + n, sent)
  BY <1>1, <1>2, Sequences, StandsCut
<1>4. got' = got \o a
  BY <1>1
<1> HIDE DEF a
<1>5. got' \in Seq(Unit) /\ Len(got') = Len(got) + n
  <2>1. got \o a \in Seq(Unit) /\ Len(got \o a) = Len(got) + Len(a)
    BY <1>3, Sequences, ConcatProperties, Zenon
  <2> QED
    BY <1>3, <1>4, <2>1
<1>6. /\ pc' \in {"head", "body"} => pc' = pc
      /\ pc' \in {"head", "body", "parse", "work"}
      /\ pc' \in {"parse", "work"} => Len(got') = need
      /\ pc' \in {"head", "parse"} <=> pc = "head"
  <2>1. Len(got) \in Nat /\ n \in Nat /\ need \in Nat
    BY <1>2, Numbers
  <2> QED
    BY <1>1, <1>2, <1>5, <2>1
<1>7. RepliesInOrder' /\ Replies' = Replies
  BY <1>1, <1>6, RepliesKept DEF ConnectionInv, reply, lapses
<1>8. PlacesOfThread'
  BY <1>1, <1>6, <1>7 DEF ConnectionInv, PlacesOfThread, lapses
<1>9. NoMoreThanSent'
  BY <1>1, NetworkSame
<1>10. ConnectionTypeOK'
  <2>1. Len(got') <= need
    BY <1>2, <1>5
  <2> QED
    BY <1>1, <1>3, <1>5, <1>6, <2>1, Sequences DEF ConnectionTypeOK, reply, lapses
<1>11. StreamGoesOn'
  <2>1. InStep' = InStep /\ DoneWith' = DoneWith
    BY <1>1, <1>6, <1>7 DEF InStep, DoneWith, reply, lapses
  <2> SUFFICES ASSUME InStep
               PROVE  /\ StandsAt(got', DoneWith', sent')
                      /\ StandsAt(inbox', DoneWith' + Len(got'), sent')
                      /\ StandsAt(flight', DoneWith' + Len(got') + Len(inbox'), sent')
                      /\ ~shut' =>
                           DoneWith' + Len(got') + Len(inbox') + Len(flight') = Begin(sent')
    BY <2>1 DEF StreamGoesOn
  <2>2. flight' = flight /\ sent' = sent /\ DoneWith' = DoneWith /\ shut' = shut
    BY <1>1, <2>1
  <2>3. /\ StandsAt(got, DoneWith, sent)
        /\ StandsAt(inbox, DoneWith + Len(got), sent)
        /\ StandsAt(flight, DoneWith + Len(got) + Len(inbox), sent)
        /\ ~shut => DoneWith + Len(got) + Len(inbox) + Len(flight) = Begin(sent)
    BY DEF ConnectionInv, StreamGoesOn
  <2>4. /\ DoneWith \in Nat /\ Len(got) \in Nat /\ Len(inbox) \in Nat /\ n \in Nat
        /\ DoneWith + Len(got) \in Nat
    BY <1>2, Numbers
  <2>5. /\ StandsAt(a, DoneWith + Len(got), sent)
        /\ StandsAt(inbox', (DoneWith + Len(got)) + n, sent)
    BY <1>3, <2>3, <2>4
  <2>6. StandsAt(got', DoneWith, sent)
    BY <1>3, <1>4, <2>3, <2>4, <2>5, Sequences, StandsJoined
  <2>7. (DoneWith + Len(got)) + n = DoneWith + Len(got')
    BY <1>5, <2>4
  <2>8. DoneWith + Len(got') + Len(inbox') = DoneWith + Len(got) + Len(inbox)
    BY <1>3, <1>5, <2>4
  <2> QED
    BY <2>2, <2>3, <2>5, <2>6, <2>7, <2>8
<1> QED
  BY <1>7, <1>8, <1>9, <1>10, <1>11 DEF ConnectionInv

\* A header that has begun is dropped, and the thread knows no longer where it
\* is; when none has begun, nothing is lost.
LEMMA HeadTimeoutStep ==
    ASSUME ConnectionInv, HeadTimeout
    PROVE  ConnectionInv'
<1>1. /\ pc = "head" /\ pc' = "test" /\ got' = <<>> /\ Len(got') = 0 /\ need' = 0
      /\ torn' = (torn \/ got # <<>>)
      /\ UNCHANGED <<network, go, cur, reply, strayed>>
  BY DEF HeadTimeout
<1>2. RepliesInOrder' /\ Replies' = Replies
  BY <1>1, RepliesKept DEF ConnectionInv, reply
<1>3. PlacesOfThread'
  BY <1>1 DEF PlacesOfThread
<1>4. NoMoreThanSent'
  BY <1>1, NetworkSame DEF network
<1>5. ConnectionTypeOK'
  <2>1. need' \in 0 .. HeadLen + BodyLen + UploadRead /\ Len(got') <= need'
    BY <1>1, Numbers
  <2>2. torn' \in BOOLEAN
    BY <1>1, Sequences DEF ConnectionTypeOK
  <2> QED
    BY <1>1, <2>1, <2>2, Sequences DEF ConnectionTypeOK, network, reply
<1>6. StreamGoesOn'
  <2>1. CASE torn'
    BY <2>1 DEF StreamGoesOn, InStep
  <2>2. CASE ~torn'
    <3>1. got' = got /\ ~torn
      BY <1>1, <2>2
    <3>2. InStep' => InStep
      BY <1>1, <3>1 DEF InStep
    <3>3. DoneWith' = DoneWith
      BY <1>1, <1>2 DEF DoneWith
    <3> QED
      BY <1>1, <3>1, <3>2, <3>3 DEF ConnectionInv, StreamGoesOn, network
  <2> QED
    BY <2>1, <2>2
<1> QED
  BY <1>2, <1>3, <1>4, <1>5, <1>6 DEF ConnectionInv

\* An error before the reply: its status, or the end.
LEMMA BreakStep ==
    ASSUME ConnectionInv, pc \in {"head", "parse", "body", "work"},
           \/ pc' = "closed" /\ UNCHANGED status
           \/ pc' = "reply" /\ status' = "err",
           got' = <<>>, need' = 0, body' \in {body, "none"},
           UNCHANGED <<network, go, out, lapses>>,
           cur' \in [req : 0 .. MaxRequests, kind : Kind],
           ~torn /\ ~strayed /\ pc' = "reply" => cur'.req = Replies + 1
    PROVE  ConnectionInv'
<1>1. RepliesInOrder' /\ Replies' = Replies
  BY RepliesKept DEF ConnectionInv, lapses
<1>2. PlacesOfThread'
  BY <1>1 DEF PlacesOfThread, lapses
<1>3. NoMoreThanSent'
  BY NetworkSame DEF network
<1>4. ConnectionTypeOK'
  <2>1. need' \in 0 .. HeadLen + BodyLen + UploadRead /\ Len(got') <= need'
    <3>1. HeadLen \in Nat /\ BodyLen \in Nat /\ UploadRead \in Nat
      BY ConnectionAssumption
    <3>2. 0 \in 0 .. HeadLen + BodyLen + UploadRead
      BY <3>1
    <3>3. Len(got') = 0
      OBVIOUS
    <3> QED
      BY <3>2, <3>3
  <2> QED
    BY <2>1, Sequences DEF ConnectionTypeOK, network, lapses
<1>5. StreamGoesOn'
  BY DEF StreamGoesOn, InStep
<1> QED
  BY <1>1, <1>2, <1>3, <1>4, <1>5 DEF ConnectionInv

LEMMA LateStep ==
    ASSUME ConnectionInv, BodyTimeout \/ ReadFails
    PROVE  ConnectionInv'
<1>1. /\ pc \in {"head", "body"} /\ got' = <<>> /\ need' = 0 /\ body' \in {body, "none"}
      /\ \/ pc' = "closed" /\ UNCHANGED status
         \/ pc = "body" /\ pc' = "reply" /\ status' = "err"
      /\ UNCHANGED <<network, go, cur, out, lapses>>
  BY DEF BodyTimeout, ReadFails, Close, Answer
<1>2. ~torn /\ ~strayed /\ pc = "body" => cur.req = Replies + 1
  BY DEF ConnectionInv, PlacesOfThread
<1>3. cur \in [req : 0 .. MaxRequests, kind : Kind]
  BY Sequences DEF ConnectionTypeOK
<1> QED
  BY <1>1, <1>2, <1>3, BreakStep

\* What the thread has read is the header of the first request without a reply.
LEMMA HeaderIsNext ==
    ASSUME ConnectionInv, pc = "parse", ~torn, ~strayed
    PROVE  /\ got = HeadOf(Replies + 1)
           /\ Replies + 1 \in 1 .. sent
           /\ \A j : got = HeadOf(j) => j = Replies + 1
<1>1. StandsAt(got, Begin(Replies), sent)
  <2>1. InStep /\ DoneWith = Begin(Replies)
    BY DEF InStep, DoneWith
  <2> QED
    BY <2>1 DEF ConnectionInv, StreamGoesOn
<1>2. got \in Seq(Unit) /\ Len(got) = HeadLen /\ DOMAIN got = 1 .. HeadLen
  <2>1. Len(got) = HeadLen
    BY DEF ConnectionInv, PlacesOfThread
  <2> QED
    BY <2>1, Sequences, LenProperties
<1>3. \A i \in 1 .. HeadLen :
        got[i] = [req |-> Replies + 1, part |-> "head", n |-> i] /\ Replies + 1 <= sent
  <2> TAKE i \in 1 .. HeadLen
  <2>1. got[i] \in Unit /\ Belongs(got[i], sent) /\ Place(got[i]) = Begin(Replies) + i
    BY <1>1, <1>2 DEF StandsAt
  <2>2. Replies \in Nat
    BY Numbers
  <2> QED
    BY <2>1, <2>2, UnitOfHeader, Zenon
<1>4. got = HeadOf(Replies + 1)
  BY <1>2, <1>3 DEF HeadOf
<1>5. 1 \in 1 .. HeadLen /\ Replies \in Nat /\ sent \in Nat
  BY Numbers
<1>6. Replies + 1 \in 1 .. sent /\ got[1] = [req |-> Replies + 1, part |-> "head", n |-> 1]
  <2>1. /\ got[1] = [req |-> Replies + 1, part |-> "head", n |-> 1]
        /\ Replies + 1 <= sent
    BY <1>3, <1>5, Zenon
  <2>2. Replies + 1 \in 1 .. sent
    BY <1>5, <2>1
  <2> QED
    BY <2>1, <2>2
<1>7. ASSUME NEW j, got = HeadOf(j)
      PROVE  j = Replies + 1
  <2>1. got[1].req = j
    BY <1>5, <1>7 DEF HeadOf
  <2>2. got[1].req = Replies + 1
    BY <1>6
  <2> QED
    BY <2>1, <2>2
<1> QED
  BY <1>4, <1>6, <1>7

LEMMA ParseStep ==
    ASSUME ConnectionInv, Parse
    PROVE  ConnectionInv'
<1>1. PICK r \in Meant :
        /\ pc = "parse" /\ cur' = r
        /\ \/ Close /\ UNCHANGED <<status, body>>
           \/ Answer("err", "none")
           \/ /\ \E n \in IF r.req = 0 THEN 1 .. BodyLen ELSE {BodyLen} :
                   Receive("body", IF r.kind = "upload" THEN UploadRead ELSE n)
              /\ UNCHANGED <<status, body>>
        /\ UNCHANGED <<network, go, out, lapses>>
  BY DEF Parse
<1>2. r \in [req : 0 .. MaxRequests, kind : Kind]
  <2>1. \A j \in Understood : j \in 0 .. MaxRequests
    BY Numbers DEF Understood
  <2>2. 0 \in 0 .. MaxRequests
    BY Numbers
  <2> QED
    BY <2>1, <2>2 DEF Meant
<1>3. ~torn /\ ~strayed => r.req = Replies + 1 /\ r.req # 0
  <2> HAVE ~torn /\ ~strayed
  <2>1. Understood = {Replies + 1}
    BY <1>1, HeaderIsNext DEF Understood
  <2>2. r.req = Replies + 1
    BY <2>1 DEF Meant
  <2> QED
    BY <2>2, Numbers
<1>4. CASE Close /\ UNCHANGED <<status, body>>
  BY <1>1, <1>2, <1>4, BreakStep DEF Close
<1>5. CASE Answer("err", "none")
  BY <1>1, <1>2, <1>3, <1>5, BreakStep DEF Answer
<1>6. ASSUME NEW n \in IF r.req = 0 THEN 1 .. BodyLen ELSE {BodyLen},
             Receive("body", IF r.kind = "upload" THEN UploadRead ELSE n),
             UNCHANGED <<status, body>>
      PROVE  ConnectionInv'
  <2>1. /\ pc' = "body" /\ got' = <<>> /\ Len(got') = 0
        /\ need' = IF r.kind = "upload" THEN UploadRead ELSE n
    BY <1>6 DEF Receive
  <2>2. RepliesInOrder' /\ Replies' = Replies
    BY <1>1, <2>1, RepliesKept DEF ConnectionInv, lapses
  <2>3. PlacesOfThread'
    BY <1>1, <1>3, <1>6, <2>1, <2>2 DEF PlacesOfThread, lapses
  <2>4. NoMoreThanSent'
    BY <1>1, NetworkSame DEF network
  <2>5. ConnectionTypeOK'
    <3>1. n \in 1 .. BodyLen
      BY <1>6, Numbers
    <3>2. need' \in 0 .. HeadLen + BodyLen + UploadRead /\ Len(got') <= need'
      BY <2>1, <3>1, Numbers, ConnectionAssumption
    <3> QED
      BY <1>1, <1>2, <1>6, <2>1, <3>2, Sequences DEF ConnectionTypeOK, network, lapses
  <2>6. StreamGoesOn'
    <3>1. InStep' => InStep
      BY <1>1, <2>1 DEF InStep, lapses
    <3>2. DoneWith' = DoneWith + Len(got) /\ DoneWith \in Nat /\ Len(got) \in Nat
      <4>1. DoneWith = Begin(Replies) /\ DoneWith' = Begin(Replies) + HeadLen
        BY <1>1, <2>1, <2>2 DEF DoneWith
      <4>2. Len(got) = HeadLen
        BY <1>1 DEF ConnectionInv, PlacesOfThread
      <4> QED
        BY <4>1, <4>2, Numbers
    <3>3. Len(inbox) \in Nat /\ Len(flight) \in Nat /\ DoneWith' + 0 = DoneWith'
      BY <3>2, Numbers
    <3>4. inbox' = inbox /\ flight' = flight /\ sent' = sent /\ shut' = shut
      BY <1>1 DEF network
    <3>5. StandsAt(got', DoneWith', sent')
      BY <2>1 DEF StandsAt
    <3> QED
      BY <2>1, <3>1, <3>2, <3>3, <3>4, <3>5 DEF ConnectionInv, StreamGoesOn
  <2> QED
    BY <2>2, <2>3, <2>4, <2>5, <2>6 DEF ConnectionInv
<1> QED
  BY <1>1, <1>4, <1>5, <1>6

\* The body has been read: all of it, unless the upload has left some behind.
LEMMA WorkStep ==
    ASSUME ConnectionInv, Work
    PROVE  ConnectionInv'
<1>1. /\ pc = "work" /\ pc' = "reply" /\ got' = <<>> /\ Len(got') = 0 /\ need' = 0
      /\ status' \in {"ok", "exists", "err"} /\ body' \in {"none", "data", "null"}
      /\ strayed' \in BOOLEAN /\ (strayed => strayed')
      /\ status' # "err" /\ cur.kind = "upload" => strayed'
      /\ UNCHANGED <<network, go, cur, out, torn>>
  <2>1. strayed \in BOOLEAN
    BY Sequences DEF ConnectionTypeOK
  <2>2. /\ pc = "work" /\ pc' = "reply" /\ got' = <<>> /\ need' = 0
        /\ UNCHANGED <<network, go, cur, out, torn>>
    BY DEF Work, Answer
  <2>3. status' \in {"ok", "exists", "err"} /\ body' \in {"none", "data", "null"}
    BY DEF Work, Answer
  <2>4. \/ status' = "err" /\ UNCHANGED strayed
        \/ cur.kind # "upload" /\ UNCHANGED strayed
        \/ strayed' = TRUE
    BY DEF Work, Answer
  <2>5. /\ strayed' \in BOOLEAN /\ (strayed => strayed')
        /\ status' # "err" /\ cur.kind = "upload" => strayed'
    BY <2>1, <2>4
  <2> QED
    BY <2>2, <2>3, <2>5
<1>2. RepliesInOrder' /\ Replies' = Replies
  BY <1>1, RepliesKept DEF ConnectionInv
<1>3. PlacesOfThread'
  BY <1>1, <1>2 DEF ConnectionInv, PlacesOfThread
<1>4. NoMoreThanSent'
  BY <1>1, NetworkSame DEF network
<1>5. ConnectionTypeOK'
  <2>1. need' \in 0 .. HeadLen + BodyLen + UploadRead /\ Len(got') <= need'
    BY <1>1, Numbers
  <2> QED
    BY <1>1, <2>1, Sequences DEF ConnectionTypeOK, network
<1>6. StreamGoesOn'
  <2>1. SUFFICES ASSUME ~torn', ~strayed', status' # "err"
                 PROVE  StreamGoesOn'
    BY <1>1 DEF StreamGoesOn, InStep
  <2>2. ~torn /\ ~strayed /\ InStep
    BY <1>1, <2>1 DEF InStep
  <2>3. Len(got) = BodyLen
    <3>1. Len(got) = IF cur.kind = "upload" THEN UploadRead ELSE BodyLen
      BY <1>1, <2>2 DEF ConnectionInv, PlacesOfThread
    <3>2. cur.kind # "upload"
      BY <1>1, <2>1
    <3> QED
      BY <3>1, <3>2
  <2>4. DoneWith' = DoneWith + Len(got)
    <3>1. DoneWith = Begin(Replies) + HeadLen /\ DoneWith' = Begin(Replies + 1)
      BY <1>1, <1>2 DEF DoneWith
    <3>2. Begin(Replies + 1) = Begin(Replies) + HeadLen + BodyLen
      BY Numbers, Packages
    <3> QED
      BY <2>3, <3>1, <3>2
  <2>5. /\ DoneWith \in Nat /\ Len(got) \in Nat /\ Len(inbox) \in Nat /\ Len(flight) \in Nat
        /\ DoneWith' + 0 = DoneWith'
    BY <2>4, Numbers
  <2>6. inbox' = inbox /\ flight' = flight /\ sent' = sent /\ shut' = shut
    BY <1>1 DEF network
  <2>7. StandsAt(got', DoneWith', sent')
    BY <1>1 DEF StandsAt
  <2> QED
    BY <1>1, <2>2, <2>4, <2>5, <2>6, <2>7 DEF ConnectionInv, StreamGoesOn
<1> QED
  BY <1>2, <1>3, <1>4, <1>5, <1>6 DEF ConnectionInv

-----------------------------------------------------------------------------
(* The replies                                                             *)

\* One more piece of a reply: what was sent before stays.
LEMMA PieceAppended ==
    ASSUME ConnectionInv, NEW part \in {"head", "body"}, NEW w \in BOOLEAN,
           out' = Append(out, Piece(part, w))
    PROVE  /\ out' \in Seq([req : 0 .. MaxRequests, part : {"head", "body"}, whole : BOOLEAN])
           /\ Len(out') = Len(out) + 1 /\ DOMAIN out' = 1 .. Len(out) + 1
           /\ \A i \in DOMAIN out : out'[i] = out[i]
           /\ out'[Len(out) + 1].part = part
           /\ out'[Len(out) + 1].req = cur.req
           /\ out'[Len(out) + 1].whole = w
<1> DEFINE R == [req : 0 .. MaxRequests, part : {"head", "body"}, whole : BOOLEAN]
<1>1. out \in Seq(R) /\ cur.req \in 0 .. MaxRequests
  BY Sequences DEF ConnectionTypeOK
<1>2. Piece(part, w) \in R
  BY <1>1 DEF Piece
<1>3. /\ Piece(part, w).part = part /\ Piece(part, w).req = cur.req
      /\ Piece(part, w).whole = w
  BY DEF Piece
<1>4. Len(out) \in Nat /\ DOMAIN out = 1 .. Len(out)
  BY Sequences
<1> DEFINE p == Piece(part, w)
<1> HIDE DEF p, R
<1>5. /\ out' \in Seq(R) /\ Len(out') = Len(out) + 1
      /\ \A i \in 1 .. Len(out) : out'[i] = out[i]
      /\ out'[Len(out) + 1] = p
  <2>1. out' = Append(out, p) /\ p \in R
    BY <1>2 DEF p
  <2> QED
    BY <1>1, <1>4, <2>1
<1>6. DOMAIN out' = 1 .. Len(out) + 1
  BY <1>5, LenProperties
<1> QED
  BY <1>3, <1>4, <1>5, <1>6 DEF p, R

LEMMA HeadAppended ==
    ASSUME ConnectionInv, NEW w \in BOOLEAN, pc = "reply",
           out' = Append(out, Piece("head", w)), UNCHANGED <<cur, lapses>>,
           pc' # "closed" => w
    PROVE  RepliesInOrder' /\ Replies' = Replies + 1
<1> DEFINE l == Len(out) + 1
<1>1. /\ Len(out') = l /\ DOMAIN out' = 1 .. l /\ DOMAIN out = 1 .. Len(out)
      /\ \A i \in DOMAIN out : out'[i] = out[i]
      /\ out'[l].part = "head" /\ out'[l].req = cur.req /\ out'[l].whole = w
      /\ Len(out) \in Nat
  BY PieceAppended, Sequences
<1>2. l \in 1 .. l /\ l \notin DOMAIN out /\ 1 .. l = DOMAIN out \cup {l}
  BY <1>1
<1>3. \A i \in DOMAIN out : i \in 1 .. l /\ i < l /\ i <= Len(out)
  BY <1>1
<1>4. Heads' = Heads \cup {l} /\ l \notin Heads /\ Heads \subseteq DOMAIN out
  BY <1>1, <1>2 DEF Heads
<1>5. Replies' = Replies + 1
  <2>1. Cardinality(Heads \cup {l}) = Cardinality(Heads) + 1
    BY <1>4, Sequences, FS_AddElement
  <2> QED
    BY <1>4, <2>1 DEF Replies
<1>6. \A i \in DOMAIN out : out[i].whole
  BY DEF ConnectionInv, RepliesInOrder
<1>7. \A i \in 1 .. l : i = l \/ i \in DOMAIN out
  BY <1>2
<1>8. \A i \in DOMAIN out' : i < Len(out') => out'[i].whole
  BY <1>1, <1>6, <1>7
<1>9. pc' # "closed" => \A i \in DOMAIN out' : out'[i].whole
  BY <1>1, <1>6, <1>7
<1>10. pc' \in {"replyBody", "write"} =>
         out' # <<>> /\ out'[Len(out')].part = "head" /\ out'[Len(out')].req = cur'.req
  <2>1. out' # <<>>
    BY <1>1, <1>2
  <2> QED
    BY <1>1, <2>1
<1>11. \A i \in DOMAIN out' : out'[i].part = "body" =>
         i > 1 /\ out'[i - 1].part = "head" /\ out'[i - 1].req = out'[i].req
  <2> SUFFICES ASSUME NEW i \in DOMAIN out', out'[i].part = "body"
               PROVE  i > 1 /\ out'[i - 1].part = "head" /\ out'[i - 1].req = out'[i].req
    OBVIOUS
  <2>1. i \in DOMAIN out /\ out'[i] = out[i]
    BY <1>1, <1>7
  <2>2. i > 1 /\ out[i - 1].part = "head" /\ out[i - 1].req = out[i].req
    BY <2>1 DEF ConnectionInv, RepliesInOrder, RepliesAreReadable
  <2>3. i - 1 \in DOMAIN out
    BY <1>1, <2>1, <2>2
  <2> QED
    BY <1>1, <2>1, <2>2, <2>3
<1>12. ~torn' /\ ~strayed' =>
         \A i \in Heads' : out'[i].req = Cardinality({k \in Heads' : k <= i})
  <2> SUFFICES ASSUME ~torn, ~strayed, NEW i \in Heads'
               PROVE  out'[i].req = Cardinality({k \in Heads' : k <= i})
    BY DEF lapses
  <2>1. CASE i = l
    <3>1. {k \in Heads' : k <= i} = Heads'
      BY <1>1, <1>3, <1>4, <2>1
    <3>2. cur.req = Replies + 1
      BY DEF ConnectionInv, PlacesOfThread
    <3> QED
      BY <1>1, <1>5, <2>1, <3>1, <3>2 DEF Replies
  <2>2. CASE i \in Heads
    <3>1. {k \in Heads' : k <= i} = {k \in Heads : k <= i}
      BY <1>1, <1>3, <1>4, <2>2
    <3>2. out[i].req = Cardinality({k \in Heads : k <= i})
      BY <2>2 DEF ConnectionInv, RepliesInOrder, RepliesAreReadable
    <3> QED
      BY <1>1, <1>4, <2>2, <3>1, <3>2
  <2> QED
    BY <1>4, <2>1, <2>2
<1> HIDE DEF l
<1> QED
  BY <1>5, <1>8, <1>9, <1>10, <1>11, <1>12 DEF RepliesInOrder, RepliesAreReadable

LEMMA BodyAppended ==
    ASSUME ConnectionInv, NEW w \in BOOLEAN, pc = "write", pc' \notin {"replyBody", "write"},
           out' = Append(out, Piece("body", w)), UNCHANGED <<cur, lapses>>,
           pc' # "closed" => w
    PROVE  RepliesInOrder' /\ Replies' = Replies
<1> DEFINE l == Len(out) + 1
<1>1. /\ Len(out') = l /\ DOMAIN out' = 1 .. l /\ DOMAIN out = 1 .. Len(out)
      /\ \A i \in DOMAIN out : out'[i] = out[i]
      /\ out'[l].part = "body" /\ out'[l].req = cur.req /\ out'[l].whole = w
      /\ Len(out) \in Nat
  BY PieceAppended, Sequences
<1>2. l \in 1 .. l /\ l \notin DOMAIN out /\ 1 .. l = DOMAIN out \cup {l}
  BY <1>1
<1>3. Heads' = Heads
  BY <1>1, <1>2 DEF Heads
<1>4. Replies' = Replies
  BY <1>3 DEF Replies
<1>5. \A i \in DOMAIN out : out[i].whole
  BY DEF ConnectionInv, RepliesInOrder
<1>6. \A i \in 1 .. l : i = l \/ i \in DOMAIN out
  BY <1>2
<1>7. \A i \in DOMAIN out' : i < Len(out') => out'[i].whole
  BY <1>1, <1>5, <1>6
<1>8. pc' # "closed" => \A i \in DOMAIN out' : out'[i].whole
  BY <1>1, <1>5, <1>6
<1>9. \A i \in DOMAIN out' : out'[i].part = "body" =>
         i > 1 /\ out'[i - 1].part = "head" /\ out'[i - 1].req = out'[i].req
  <2> SUFFICES ASSUME NEW i \in DOMAIN out', out'[i].part = "body"
               PROVE  i > 1 /\ out'[i - 1].part = "head" /\ out'[i - 1].req = out'[i].req
    OBVIOUS
  <2>1. CASE i = l
    <3>1. out # <<>> /\ out[Len(out)].part = "head" /\ out[Len(out)].req = cur.req
      BY DEF ConnectionInv, RepliesInOrder
    <3>2. Len(out) > 0
      <4>1. Len(out) \in Nat \ {0}
        BY <3>1, Sequences, EmptySeq, Zenon DEF ConnectionTypeOK
      <4> QED
        BY <4>1
    <3>3. i - 1 = Len(out) /\ Len(out) \in DOMAIN out /\ i > 1
      BY <1>1, <2>1, <3>2
    <3> QED
      BY <1>1, <2>1, <3>1, <3>3
  <2>2. CASE i \in DOMAIN out
    <3>1. i > 1 /\ out[i - 1].part = "head" /\ out[i - 1].req = out[i].req
      BY <1>1, <2>2 DEF ConnectionInv, RepliesInOrder, RepliesAreReadable
    <3>2. i - 1 \in DOMAIN out
      BY <1>1, <2>2, <3>1
    <3> QED
      BY <1>1, <2>2, <3>1, <3>2
  <2> QED
    BY <1>1, <1>6, <2>1, <2>2
<1>10. ~torn' /\ ~strayed' =>
         \A i \in Heads' : out'[i].req = Cardinality({k \in Heads' : k <= i})
  <2>1. Heads \subseteq DOMAIN out
    BY DEF Heads
  <2> QED
    BY <1>1, <1>3, <2>1 DEF ConnectionInv, RepliesInOrder, RepliesAreReadable, lapses
<1> HIDE DEF l
<1> QED
  BY <1>4, <1>7, <1>8, <1>9, <1>10 DEF RepliesInOrder, RepliesAreReadable

\* What the end of a reply leaves alone.
LEMMA AfterReply ==
    ASSUME ConnectionInv, pc \in {"reply", "replyBody", "write"},
           pc' \in {"test", "replyBody", "write", "closed"},
           UNCHANGED <<network, go, got, need, cur, status, body, lapses>>
    PROVE  /\ PlacesOfThread' /\ NoMoreThanSent'
           /\ out' \in Seq([req : 0 .. MaxRequests, part : {"head", "body"}, whole : BOOLEAN])
                => ConnectionTypeOK'
<1>1. PlacesOfThread'
  BY DEF ConnectionInv, PlacesOfThread
<1>2. NoMoreThanSent'
  BY NetworkSame DEF network
<1> QED
  BY <1>1, <1>2, Sequences DEF ConnectionTypeOK, network, lapses

LEMMA ReplyHeadStep ==
    ASSUME ConnectionInv, ReplyHead
    PROVE  ConnectionInv'
<1>1. /\ pc = "reply" /\ out' = Append(out, Piece("head", TRUE))
      /\ pc' \in {"test", "replyBody", "closed"}
      /\ status = "err" => pc' = "closed"
      /\ UNCHANGED <<network, go, got, need, cur, status, body, lapses>>
  BY DEF ReplyHead, Served
<1>2. RepliesInOrder' /\ Replies' = Replies + 1
  BY <1>1, HeadAppended
<1>3. out' \in Seq([req : 0 .. MaxRequests, part : {"head", "body"}, whole : BOOLEAN])
  BY <1>1, PieceAppended
<1>4. StreamGoesOn'
  <2>1. CASE pc' = "closed"
    BY <2>1 DEF StreamGoesOn, InStep
  <2>2. CASE pc' # "closed"
    <3>1. InStep' => InStep
      BY <1>1, <2>2 DEF InStep, lapses
    <3>2. DoneWith' = DoneWith
      BY <1>1, <1>2, <2>2 DEF DoneWith
    <3> QED
      BY <1>1, <3>1, <3>2 DEF ConnectionInv, StreamGoesOn, network
  <2> QED
    BY <2>1, <2>2
<1> QED
  BY <1>1, <1>2, <1>3, <1>4, AfterReply DEF ConnectionInv

\* The thread is inside the write, and nothing else has happened.
LEMMA SendBodyStep ==
    ASSUME ConnectionInv, SendBody
    PROVE  ConnectionInv'
<1>1. /\ pc = "replyBody" /\ pc' = "write"
      /\ UNCHANGED <<network, go, got, need, cur, status, body, out, lapses>>
  BY DEF SendBody, reply
<1>2. RepliesInOrder' /\ Replies' = Replies
  BY <1>1, RepliesKept DEF ConnectionInv, lapses
<1>3. out' \in Seq([req : 0 .. MaxRequests, part : {"head", "body"}, whole : BOOLEAN])
  BY <1>1, Sequences DEF ConnectionTypeOK
<1>4. StreamGoesOn'
  <2>1. InStep' => InStep
    BY <1>1 DEF InStep, lapses
  <2>2. DoneWith' = DoneWith
    BY <1>1, <1>2 DEF DoneWith
  <2> QED
    BY <1>1, <2>1, <2>2 DEF ConnectionInv, StreamGoesOn, network
<1> QED
  BY <1>1, <1>2, <1>3, <1>4, AfterReply DEF ConnectionInv

LEMMA ReplyBodyStep ==
    ASSUME ConnectionInv, ReplyBody
    PROVE  ConnectionInv'
<1>1. /\ pc = "write" /\ out' = Append(out, Piece("body", TRUE))
      /\ pc' \in {"test", "closed"}
      /\ UNCHANGED <<network, go, got, need, cur, status, body, lapses>>
  BY DEF ReplyBody, Served
<1>2. RepliesInOrder' /\ Replies' = Replies
  BY <1>1, BodyAppended
<1>3. out' \in Seq([req : 0 .. MaxRequests, part : {"head", "body"}, whole : BOOLEAN])
  BY <1>1, PieceAppended
<1>4. StreamGoesOn'
  <2>1. InStep' => InStep
    BY <1>1 DEF InStep, lapses
  <2>2. DoneWith' = DoneWith
    BY <1>1, <1>2 DEF DoneWith
  <2> QED
    BY <1>1, <2>1, <2>2 DEF ConnectionInv, StreamGoesOn, network
<1> QED
  BY <1>1, <1>2, <1>3, <1>4, AfterReply DEF ConnectionInv

LEMMA ReplyFailsStep ==
    ASSUME ConnectionInv, ReplyFails
    PROVE  ConnectionInv'
<1>1. /\ pc \in {"reply", "replyBody", "write"} /\ pc' = "closed"
      /\ \/ UNCHANGED out
         \/ /\ pc # "replyBody"
            /\ out' = Append(out, Piece(IF pc = "reply" THEN "head" ELSE "body", FALSE))
      /\ UNCHANGED <<network, go, got, need, cur, status, body, lapses>>
  BY DEF ReplyFails
<1>2. RepliesInOrder'
  <2>1. CASE UNCHANGED out
    BY <1>1, <2>1, RepliesKept DEF ConnectionInv, lapses
  <2>2. CASE pc = "reply" /\ out' = Append(out, Piece("head", FALSE))
    BY <1>1, <2>2, HeadAppended
  <2>3. CASE pc = "write" /\ out' = Append(out, Piece("body", FALSE))
    BY <1>1, <2>3, BodyAppended
  <2> QED
    BY <1>1, <2>1, <2>2, <2>3
<1>3. out' \in Seq([req : 0 .. MaxRequests, part : {"head", "body"}, whole : BOOLEAN])
  <2>1. CASE UNCHANGED out
    BY <2>1, Sequences DEF ConnectionTypeOK
  <2>2. ASSUME NEW part \in {"head", "body"}, out' = Append(out, Piece(part, FALSE))
        PROVE  out' \in Seq([req : 0 .. MaxRequests, part : {"head", "body"}, whole : BOOLEAN])
    BY <2>2, PieceAppended
  <2> QED
    BY <1>1, <2>1, <2>2
<1>4. StreamGoesOn'
  BY <1>1 DEF StreamGoesOn, InStep
<1> QED
  BY <1>1, <1>2, <1>3, <1>4, AfterReply DEF ConnectionInv

-----------------------------------------------------------------------------
(* The theorems                                                            *)

LEMMA ConnectionInitInv == Init => ConnectionInv
<1> SUFFICES ASSUME Init PROVE ConnectionInv
  OBVIOUS
<1> USE DEF Init
<1>1. Heads = {} /\ Replies = 0
  BY FS_EmptySet DEF Heads, Replies
<1>2. /\ Begin(0) = 0 /\ Begin(MaxRequests) \in Nat /\ HeadLen \in Nat /\ BodyLen \in Nat
      /\ UploadRead \in Nat /\ MaxRequests \in Nat
  BY ConnectionAssumption, Packages
<1>3. Len(<<>>) = 0 /\ \A S : <<>> \in Seq(S)
  OBVIOUS
<1>4. ConnectionTypeOK
  <2>1. cur \in [req : 0 .. MaxRequests, kind : Kind]
    BY <1>2 DEF Stray, Kind
  <2> QED
    <3>1. /\ arrived \in 0 .. Begin(MaxRequests) /\ sent \in 0 .. MaxRequests
          /\ need \in 0 .. HeadLen + BodyLen + UploadRead /\ Len(got) <= need
      BY <1>2, <1>3
    <3>2. {shut, go, torn, strayed} \subseteq BOOLEAN
      OBVIOUS
    <3> QED
      BY <1>3, <2>1, <3>1, <3>2 DEF ConnectionTypeOK
<1>5. NoMoreThanSent
  BY <1>2, <1>3 DEF NoMoreThanSent
<1>6. StreamGoesOn
  <2>1. DoneWith = 0
    BY <1>1, <1>2 DEF DoneWith
  <2> QED
    BY <1>2, <1>3, <2>1 DEF StreamGoesOn, StandsAt
<1>7. PlacesOfThread
  BY DEF PlacesOfThread
<1>8. RepliesInOrder
  BY <1>1 DEF RepliesInOrder, RepliesAreReadable
<1> QED
  BY <1>4, <1>5, <1>6, <1>7, <1>8 DEF ConnectionInv

LEMMA ConnectionStepInv == ConnectionInv /\ [Next]_vars => ConnectionInv'
<1> SUFFICES ASSUME ConnectionInv, [Next]_vars PROVE ConnectionInv'
  OBVIOUS
<1>1. CASE Send \/ Arrive \/ Shut \/ StopServer
  BY <1>1, SendStep, ArriveStep, ShutStep, StopStep
<1>2. CASE TestFlag \/ Read \/ HeadTimeout \/ BodyTimeout \/ ReadFails
  BY <1>2, TestFlagStep, ReadStep, HeadTimeoutStep, LateStep
<1>3. CASE Parse \/ Work \/ ReplyHead \/ SendBody \/ ReplyBody \/ ReplyFails
  BY <1>3, ParseStep, WorkStep, ReplyHeadStep, SendBodyStep, ReplyBodyStep, ReplyFailsStep
<1>4. CASE UNCHANGED vars
  <2> USE <1>4 DEF vars, network, reply, lapses, ConnectionInv
  <2>1. Heads' = Heads /\ Replies' = Replies
    BY DEF Heads, Replies
  <2>2. ConnectionTypeOK'
    BY DEF ConnectionTypeOK
  <2>3. NoMoreThanSent' /\ PlacesOfThread'
    BY <2>1 DEF NoMoreThanSent, PlacesOfThread
  <2>4. StreamGoesOn'
    <3>1. InStep' = InStep /\ DoneWith' = DoneWith
      BY <2>1 DEF InStep, DoneWith
    <3> QED
      BY <3>1 DEF StreamGoesOn
  <2>5. RepliesInOrder'
    BY <2>1 DEF RepliesInOrder, RepliesAreReadable
  <2> QED
    BY <2>2, <2>3, <2>4, <2>5
<1> QED
  BY <1>1, <1>2, <1>3, <1>4 DEF Next, Server

\* The invariant of a connection: what has been read, what is in the socket and
\* what is on its way continue the stream behind the last request answered,
\* until a header is dropped half-way or an upload leaves its body behind.
THEOREM ConnectionInvariance == Spec => []ConnectionInv
BY ConnectionInitInv, ConnectionStepInv, PTL DEF Spec

\* tcprecvdata reads no more than it is asked for, and the history of the
\* connection stays within what the client has sent.
THEOREM ConnectionTypes == Spec => []ConnectionTypeOK
<1>1. ConnectionInv => ConnectionTypeOK
  BY DEF ConnectionInv
<1> QED
  BY <1>1, ConnectionInvariance, PTL

\* Timeouts, failed reads, refused requests and replies that could not be sent
\* in whatever order: what storage_thread_entrance takes for a header is the
\* header of the first request it has not answered.
THEOREM HeadersAreHeaders == Spec => []InSync
<1>1. ConnectionInv => InSync
  BY HeaderIsNext DEF InSync
<1> QED
  BY <1>1, ConnectionInvariance, PTL

\* The client can cut the replies out of what it reads: they come whole, in the
\* order of the requests, each body behind its header.
THEOREM RepliesCanBeRead == Spec => []RepliesAreReadable
<1>1. ConnectionInv => RepliesAreReadable
  BY DEF ConnectionInv, RepliesInOrder
<1> QED
  BY <1>1, ConnectionInvariance, PTL
=============================================================================
