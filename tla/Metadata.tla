------------------------------ MODULE Metadata ------------------------------
(***************************************************************************)
(* The metadata of an upload: a buffer of name and value pairs that        *)
(* storage_sort_metadata_buff splits, sorts by name and packs again in     *)
(* place, and that storage_save_file writes then.                          *)
(*                                                                         *)
(* A character is a number: its code, or for text what orders it as strcmp *)
(* does.                                                                   *)
(***************************************************************************)
EXTENDS Integers, SequencesExt

CONSTANTS
    Letter,       \* the characters that are not special
    MaxName,      \* FDFS_MAX_META_NAME_LEN
    MaxValue,     \* FDFS_MAX_META_VALUE_LEN
    MaxBytes      \* bound: the most bytes of metadata that are tried

NUL  == 0
RS   == 1         \* FDFS_RECORD_SEPERATOR
FS   == 2         \* FDFS_FIELD_SEPERATOR
Char == {NUL, RS, FS} \cup Letter

ASSUME MetadataAssumption ==
    /\ Letter \subseteq Nat \ {NUL, RS, FS}
    /\ MaxName \in Nat \ {0} /\ MaxValue \in Nat \ {0} /\ MaxBytes \in Nat \ {0}

VARIABLES
    pc,           \* where storage_save_file is
    given,        \* history: the bytes that came with the upload
    meta_buff,    \* the same bytes with the terminator the upload puts there
    meta_list,    \* the pairs
    file          \* the metadata file

vars == <<pc, given, meta_buff, meta_list, file>>

-----------------------------------------------------------------------------
\* strchr: where c is first, or one past the end.
First(s, c) ==
    CHOOSE n \in 1 .. Len(s) + 1 :
        /\ n <= Len(s) => s[n] = c
        /\ \A i \in 1 .. n - 1 : s[i] # c

\* What the string functions see of a buffer.
Text(buff) == SubSeq(buff, 1, First(buff, NUL) - 1)

\* splitEx, with as many columns as getOccurCount asks for.
Rows(text) ==
    LET rows[n \in 0 .. Len(text)] ==
          IF n = 0 THEN << <<>> >>
          ELSE LET before == rows[n - 1]
               IN  IF text[n] = RS THEN Append(before, <<>>)
                   ELSE [before EXCEPT ![Len(before)] = Append(@, text[n])]
    IN  rows[Len(text)]

\* Mutant of Pair: names and values are not cut.
PairUncut(row) ==
    LET n == First(row, FS)
    IN  [name |-> SubSeq(row, 1, n - 1), value |-> SubSeq(row, n + 1, Len(row))]

\* The name and the value of a row, what is too long is cut.
Pair(row) ==
    LET n == First(row, FS)
    IN  [name  |-> SubSeq(row, 1, Min({n - 1, MaxName})),
         value |-> SubSeq(row, n + 1, Min({Len(row), n + MaxValue}))]

HasField(row) == First(row, FS) <= Len(row)

\* fdfs_split_metadata_ex: a row without a field separator is left out.
Pairs(rows) ==
    LET pairs[k \in 0 .. Len(rows)] ==
          IF k = 0 THEN <<>>
          ELSE IF HasField(rows[k]) THEN Append(pairs[k - 1], Pair(rows[k]))
          ELSE pairs[k - 1]
    IN  pairs[Len(rows)]

Split(buff) == Pairs(Rows(Text(buff)))

\* strcmp(s, t) <= 0
NotAfter(s, t) ==
    \/ IsPrefix(s, t)
    \/ \E i \in DOMAIN s \cap DOMAIN t :
         s[i] < t[i] /\ \A j \in 1 .. i - 1 : s[j] = t[j]

\* metadata_cmp_by_name
InOrder(m1, m2) == NotAfter(m1.name, m2.name)

Reorderings(list) ==
    {[k \in DOMAIN list |-> list[p[k]]] : p \in Bijection(DOMAIN list, DOMAIN list)}

\* Mutant of Sorts: the values are compared.
SortsByValue(list) ==
    {l \in Reorderings(list) : IsSorted(l, LAMBDA m1, m2 : NotAfter(m1.value, m2.value))}

\* qsort with that; it may leave equal names in any order.
Sorts(list) == {l \in Reorderings(list) : IsSorted(l, InOrder)}

\* Mutant of Row: the name is copied with its terminator.
RowTerminated(m) == m.name \o <<NUL, FS>> \o m.value

Row(m) == m.name \o <<FS>> \o m.value

\* The pairs one after the other, each with a separator behind it.
Joined(list) ==
    LET joined[k \in 0 .. Len(list)] ==
          IF k = 0 THEN <<>> ELSE joined[k - 1] \o Row(list[k]) \o <<RS>>
    IN  joined[Len(list)]

\* fdfs_pack_metadata: what it writes from meta_buff on, the terminator in the
\* place of the last separator included.  Of an empty list it writes the
\* terminator in front of the buffer, which is not in the result.
Pack(list) ==
    LET p == Joined(list)
    IN  [i \in DOMAIN p |-> IF i = Len(p) THEN NUL ELSE p[i]]

-----------------------------------------------------------------------------
(* storage_save_file with storage_sort_metadata_buff                       *)

\* An upload hands over what malloc and the client left in its buffer, which
\* can be anything, and terminates it.
Init ==
    /\ given \in UNION {[1 .. n -> Char] : n \in 1 .. MaxBytes}
    /\ meta_buff = Append(given, NUL)
    /\ meta_list = <<>>
    /\ file = <<>>
    /\ pc = "split"

\* splitEx puts a terminator in the place of each separator of the text.
SplitBuffer ==
    /\ pc = "split"
    /\ meta_list' = Split(meta_buff)
    /\ meta_buff' = [i \in DOMAIN meta_buff |->
                        IF i < First(meta_buff, NUL) /\ meta_buff[i] = RS THEN NUL
                        ELSE meta_buff[i]]
    /\ pc' = "sort"
    /\ UNCHANGED <<given, file>>

\* malloc: the upload is undone.
SplitFails ==
    /\ pc = "split"
    /\ pc' = "failed"
    /\ UNCHANGED <<given, meta_buff, meta_list, file>>

SortList ==
    /\ pc = "sort"
    /\ meta_list' \in Sorts(meta_list)
    /\ pc' = "pack"
    /\ UNCHANGED <<given, meta_buff, file>>

\* In place, over what was split.
PackList ==
    /\ pc = "pack"
    /\ LET p == Pack(meta_list)
       IN  meta_buff' = [i \in DOMAIN meta_buff |-> IF i <= Len(p) THEN p[i] ELSE meta_buff[i]]
    /\ pc' = "save"
    /\ UNCHANGED <<given, meta_list, file>>

\* writeToFile, of as many bytes as came with the upload.
SaveBuffer ==
    /\ pc = "save"
    /\ file' = SubSeq(meta_buff, 1, Len(given))
    /\ pc' = "saved"
    /\ UNCHANGED <<given, meta_buff, meta_list>>

Next == SplitBuffer \/ SplitFails \/ SortList \/ PackList \/ SaveBuffer

Spec == Init /\ [][Next]_vars

-----------------------------------------------------------------------------
(* Properties                                                              *)

\* Type invariant of the metadata.
MetadataTypeOK ==
    /\ pc \in {"split", "sort", "pack", "save", "saved", "failed"}
    /\ given \in Seq(Char) /\ meta_buff \in Seq(Char) /\ file \in Seq(Char)
    /\ Len(meta_buff) = Len(given) + 1
    /\ meta_list \in Seq([name : Seq(Char), value : Seq(Char)])
    /\ \A k \in DOMAIN meta_list :
         Len(meta_list[k].name) <= MaxName /\ Len(meta_list[k].value) <= MaxValue

\* "each meta data seperated by \x01, name and value seperated by \x02"
WellFormed(buff) ==
    /\ Text(buff) = buff
    /\ LET rows == Rows(buff)
       IN  \A k \in DOMAIN rows :
             LET n == First(rows[k], FS)
             IN  n <= Len(rows[k]) /\ n - 1 <= MaxName /\ Len(rows[k]) - n <= MaxValue

\* Whatever came with the upload, who reads the stored metadata finds the pairs
\* that were in it, sorted by name, and not what packing left behind them; and
\* of metadata that keeps to the format every stored byte belongs to a pair.
MetadataIsSorted ==
    pc = "saved" =>
        /\ IsSorted(Split(file), InOrder)
        /\ Split(file) \in Reorderings(Split(given))
        /\ WellFormed(given) => WellFormed(file)

\* The packed pairs fit where the unsorted ones were: the terminator is at most
\* the one byte behind them that the upload has put there.
PackFits == pc = "pack" => Len(Pack(meta_list)) <= Len(meta_buff)

\* How the pairs come through.  Where there are none, packing leaves the buffer
\* as splitting left it, and nothing before its first terminator looks like one.
MetaInv ==
    /\ MetadataTypeOK
    /\ MetadataIsSorted
    /\ pc = "split" => meta_buff = Append(given, NUL)
    /\ pc = "sort" => meta_list = Split(given)
    /\ pc \in {"pack", "save"} => meta_list \in Sorts(Split(given))
    /\ pc = "save" => \A i \in DOMAIN Pack(meta_list) : meta_buff[i] = Pack(meta_list)[i]
    /\ pc \in {"sort", "pack", "save"} /\ Split(given) = <<>> =>
         FS \notin Range(Text(SubSeq(meta_buff, 1, Len(given))))
=============================================================================
