-------------------------- MODULE MCStorageService --------------------------
(* StorageService with one data file and its metadata file, as the makefile *)
(* builds it and as it is meant to be built.                                *)
EXTENDS StorageService, TLC

MCPath     == {"f", "f-m"}
MCDataFile == {"f"}
MCMetaOf   == [d \in MCDataFile |-> "f-m"]
MCOp       == {"C", "c", "U", "u", "D", "d", "?"}
MCContent  == {"body", "junk"}

\* As built: the makefile defines __DEBUG__, and storage_gen_filename never
\* finds a name that is not in use, because base64_init is never called.
AsBuilt    == [debug |-> TRUE, names |-> {}, files |-> {}]

\* As meant: uploads find a name, and a file is there with its metadata.
AsMeant    == [debug |-> FALSE, names |-> MCDataFile, files |-> MCPath]

MCSettings == {AsBuilt, AsMeant}
Symmetry   == Permutations(Thread)
=============================================================================
