----------------------------- MODULE MCMetadata -----------------------------
(* Metadata with names and values of one character, in buffers that hold    *)
(* pairs in any order, too long ones, and bytes that are no metadata.       *)
EXTENDS Metadata, TLC
=============================================================================
