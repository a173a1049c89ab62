------------------------------ MODULE FdTable -------------------------------
(***************************************************************************)
(* The descriptor table of src/RTT/components/dfs/src/dfs.c.  fd_new and   *)
(* fd_put run under the lock of the file system, and an entry belongs to   *)
(* one thread from fd_new to its last fd_put, so open and close are single *)
(* steps for everybody else.                                               *)
(***************************************************************************)
EXTENDS Integers

CONSTANT DFS_FD_MAX

ASSUME FdMaxAssumption == DFS_FD_MAX \in Nat \ {0}

VARIABLE ref_count   \* of every entry of fd_table

Fds  == 0 .. DFS_FD_MAX - 1
NoFd == -1

FdInit == ref_count = [f \in Fds |-> 0]

\* fd_new: the first free entry, or -1.
FirstFree(fd) ==
  \/ fd \in Fds /\ ref_count[fd] = 0 /\ \A g \in 0 .. fd - 1 : ref_count[g] > 0
  \/ fd = NoFd /\ \A f \in Fds : ref_count[f] > 0

\* open of a file the file system knows.  (It takes an entry for an unknown one too,
\* and gives it back at once: a refusal for another reason than a full table leaves
\* the table as it was, and is an action of its own of the caller.)
open(fd) ==
  /\ FirstFree(fd)
  /\ ref_count' = IF fd = NoFd THEN ref_count ELSE [ref_count EXCEPT ![fd] = 1]

closeKeepsReference(fd) == fd \in Int /\ UNCHANGED ref_count

\* close: fd_get refuses -1; otherwise the reference of close and the one of open
\* are put back.
close(fd) ==
  ref_count' = IF fd = NoFd THEN ref_count ELSE [ref_count EXCEPT ![fd] = @ - 1]
=============================================================================
