------------------------------- MODULE Format -------------------------------
(***************************************************************************)
(* What all calls of a format's Leanify have in common (format.h), and     *)
(* what they call in turn: LeanifyFile for a file inside the file, by its  *)
(* contract, and ZlibRecompress (leanify.cpp).                             *)
(*                                                                         *)
(* The file that is to be leanified lies at address fp of the buffer, with *)
(* fp cells of room in front of it; its result begins at address fp_w = 0. *)
(* The cells of a file that LeanifyFile is called for are                  *)
(* <<"data", name, k>>, those of its result <<"lean", name, k>>; the k-th  *)
(* of n cells of a zlib stream is <<"zlib", contents, k, n>>.              *)
(***************************************************************************)
EXTENDS Memory

CONSTANTS
  Calls,     \* the calls considered: pairs of a file, which is a sequence
             \* of cells, and a record of settings, of which room is one
  Beyond     \* a cell outside the file and its room

VARIABLES
  file,      \* the file as it was handed to Leanify
  setting,   \* room, which is size_leanified; levels, which is max_depth
             \* without depth_; and what options matter
  mem,       \* the buffer
  p_read,    \* where what is still to be read begins
  pc,        \* what Leanify is at: "start", ..., "done"
  size       \* size_, and in the end what Leanify returns

call == <<file, setting>>

fp == setting.room
fp_w == 0                   \* fp_ - size_leanified
End == fp + Len(file)       \* fp_ + size_

Before == [x \in 0 .. End |-> IF x \in fp .. End - 1 THEN file[x - fp + 1] ELSE Beyond]

Called ==
  /\ \E c \in Calls : file = c[1] /\ setting = c[2]
  /\ mem = Before
  /\ p_read = fp
  /\ size = Len(file)
  /\ pc = "start"

(* Format::Leanify: the file is moved as it is.                            *)
MovedAsItIs ==
  /\ mem' = MemMove(mem, fp_w, fp, size)
  /\ pc' = "done"
  /\ UNCHANGED <<call, p_read, size>>

-----------------------------------------------------------------------------
Zlib(contents, n) == [k \in 1..n |-> <<"zlib", contents, k, n>>]

(* depth_ < max_depth.                                                     *)
MayRecurse == setting.levels > 0

(* What LeanifyFile or ZlibRecompress may make of s.                       *)
Lean(s, n) ==
  IF s = <<>> \/ n >= Len(s) THEN s
  ELSE IF s[1][1] = "zlib" THEN Zlib(s[1][2], n)
  ELSE [k \in 1..n |-> <<"lean", s[1][2], k>>]

IsLeanOf(new, old) == new = Lean(old, Len(new))

(* The buffer after LeanifyFile made r cells of the n cells at p and put   *)
(* them slack cells in front; if r is n they stayed what they were.        *)
FileLeanified(m, p, n, slack, r) ==
  IF n = 0 THEN m ELSE Leanified(m, p, n, slack, Lean(Cells(m, p, n), r))

(* The sizes that the n cells at p may have after LeanifyFile, ...         *)
FileSizes(n) == 0..n

(* ... and after ZlibRecompress, which only shrinks a stream that can be   *)
(* inflated, and nothing in fast mode.                                     *)
ZlibSizes(m, p, n) ==
  LET s == Cells(m, p, n)
  IN  {n} \cup IF n > 0 /\ s[1][1] = "zlib" /\ s = Zlib(s[1][2], n) /\ ~ setting.is_fast
               THEN 1..n ELSE {}

ZlibRecompressed(m, p, n, slack, r) ==
  Put(m, p - slack, Lean(Cells(m, p, n), r))

-----------------------------------------------------------------------------
(* Properties of every format.                                             *)

(* The loops read behind of where they write: whatever the files inside    *)
(* the file shrink to, what is still to be read has not been written to    *)
(* (rdb.cpp:45-105, ico.cpp:62-113, swf.cpp:131-280, lua.cpp:9-89).        *)
UnreadIntact == pc # "done" => \A x \in p_read .. End : mem[x] = Before[x]

(* format.h:19-26, leanify.cpp:138-179: what Leanify returns is no larger  *)
(* than the file, and but for the file and the room in front of it nothing *)
(* was written to.                                                         *)
InItsRegion ==
  pc = "done" => KeepsToItsRegion(Before, mem, fp, Len(file), fp, size)
=============================================================================
