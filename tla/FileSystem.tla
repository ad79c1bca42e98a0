----------------------------- MODULE FileSystem -----------------------------
(***************************************************************************)
(* The part of a POSIX file system that fileio.cpp and library.cpp rely    *)
(* on.  It is external to Leanify and modelled from how the code uses it:  *)
(* a directory maps paths to inodes, an inode holds bytes, an open file    *)
(* refers to an inode whatever later happens to the path it was opened by. *)
(*                                                                         *)
(* A path is <<base, k>>: a file name, or the name of a library entry,     *)
(* followed by k times the suffix ".tmp".                                  *)
(***************************************************************************)
EXTENDS Naturals, Sequences

CONSTANTS Bytes,     \* the units file contents are made of
          Hole,      \* what is read where nothing was ever written
          MaxSize,   \* bound on the size of a file
          Inodes     \* the inodes of the file system

ASSUME FileSystemAssumption == Hole \in Bytes /\ MaxSize \in Nat

(* The contents a file can have: every sequence of at most MaxSize bytes.  *)
Data == UNION {[1..n -> Bytes] : n \in 0..MaxSize}

(* The directory after path p is made to refer to inode i (open with       *)
(* O_CREAT, or the second half of a rename).                               *)
Link(d, p, i) == [q \in DOMAIN d \cup {p} |-> IF q = p THEN i ELSE d[q]]

(* The directory after remove(p); removing an absent path changes nothing. *)
Unlink(d, p) == [q \in DOMAIN d \ {p} |-> d[q]]

(* rename(p, q): q refers to p's inode and p is gone, in one step.         *)
Move(d, p, q) == Link(Unlink(d, p), q, d[p])

(* The contents after the units c are written at offset k of contents s.   *)
(* Writing past the end leaves a hole.                                     *)
Overwrite(s, k, c) ==
  LET end == k + Len(c)
  IN  [i \in 1..(IF end > Len(s) THEN end ELSE Len(s)) |->
         IF i \in k+1 .. end THEN c[i - k]
         ELSE IF i <= Len(s) THEN s[i]
         ELSE Hole]

(* The inodes neither the directory d nor an open file (a range of o)      *)
(* refers to.                                                              *)
FreeInodes(d, o) == Inodes \ ({d[p] : p \in DOMAIN d} \cup {o[t] : t \in DOMAIN o})
=============================================================================
