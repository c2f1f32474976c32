---------------------------- MODULE StorageBase ----------------------------
(* What the modules of the storage server share: its connection threads and *)
(* the file names its protocol and its binlog carry.                        *)

CONSTANTS
    Thread,     \* the connection threads (storage_thread_entrance)
    Path        \* names of data and metadata files, relative to base/data
=============================================================================
