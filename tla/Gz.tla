--------------------------------- MODULE Gz ---------------------------------
(***************************************************************************)
(* Gz::Leanify (gz.cpp): the optional sections of a gzip header are        *)
(* dropped, the file inside is leanified and compressed again, and all of  *)
(* it moves to the front of the buffer.                                    *)
(*                                                                         *)
(* The ten bytes of the header are three cells here, <<"gz">>,             *)
(* <<"flags", sections>> and <<"xfl", level>>, the eight of the trailer    *)
(* two, <<"crc", contents>> and <<"isize", contents>>.  The k-th of n      *)
(* cells of compressed data is <<"deflate", contents, k, n>>.  A file that *)
(* ends inside its trailer is not considered: the size of its data         *)
(* (gz.cpp:78) would be negative.                                          *)
(***************************************************************************)
EXTENDS Format

HeaderSize == 3
TrailerSize == 2

VARIABLES
  p_write,
  flags      \* the sections that are still to be skipped

locals == <<p_write, flags>>
vars == <<call, mem, p_read, pc, size, locals>>

Start == p_write = fp_w /\ flags = {}
Init == Called /\ Start

TooSmall ==
  /\ pc = "start" /\ size <= HeaderSize + TrailerSize
  /\ MovedAsItIs /\ UNCHANGED locals

(* The header is moved; its flags are cleared and XFL says that this is    *)
(* the best there is.                                                      *)
Header ==
  /\ pc = "start" /\ size > HeaderSize + TrailerSize
  /\ flags' = mem[p_read + 1][2]
  /\ mem' = Put(MemMove(mem, fp_w, p_read, HeaderSize), fp_w + 1,
                <<<<"flags", {}>>, <<"xfl", "best">>>>)
  /\ p_read' = p_read + HeaderSize
  /\ p_write' = fp_w + HeaderSize
  /\ pc' = "skip"
  /\ UNCHANGED <<call, size>>

(* Where the section of type s at p ends: FEXTRA starts with its length;   *)
(* FNAME and FCOMMENT end with a zero, or at the end of the file; the      *)
(* length of FHCRC is fixed.                                               *)
SectionEnd(s, p) ==
  CASE s = "extra" -> p + 1 + mem[p][2]
    [] s \in {"name", "comment"} ->
         LET zeros == {x \in p .. End - 1 : mem[x] = <<"nul">>}
         IN  IF zeros = {} THEN (IF p < End THEN End ELSE p)
             ELSE 1 + CHOOSE x \in zeros : \A y \in zeros : x <= y
    [] s = "hcrc" -> p + 1

(* The order the sections have in the file.                                *)
Order == <<"extra", "name", "comment", "hcrc">>

SkipSection(i) ==
  /\ pc = "skip" /\ Order[i] \in flags
  /\ \A j \in 1 .. i - 1 : Order[j] \notin flags
  /\ p_read' = SectionEnd(Order[i], p_read)
  /\ flags' = flags \ {Order[i]}
  /\ UNCHANGED <<call, mem, p_write, pc, size>>

SectionsSkipped == pc = "skip" /\ flags = {}

(* The sections take up all of the file: it is moved as it is, but for the *)
(* flags.                                                                  *)
NoData ==
  /\ SectionsSkipped /\ p_read >= End
  /\ mem' = MemMove(mem, p_write, fp + HeaderSize, size - HeaderSize)
  /\ pc' = "done"
  /\ UNCHANGED <<call, p_read, size, locals>>

(* In fast mode, or when the data cannot be inflated or the trailer does   *)
(* not fit it, data and trailer are moved as they are.                     *)
MoveData ==
  /\ mem' = MemMove(mem, p_write, p_read, End - p_read)
  /\ size' = size - (p_read - p_write)
  /\ pc' = "done"
  /\ UNCHANGED <<call, p_read, locals>>

FastMode == SectionsSkipped /\ p_read < End /\ setting.is_fast /\ MoveData

(* All of the compressed data of contents c, and a trailer for it.         *)
Holds(s, c) ==
  \E n \in 1 .. Len(s) - TrailerSize :
    s = [k \in 1..n |-> <<"deflate", c, k, n>>] \o <<<<"crc", c>>, <<"isize", c>>>>

(* What is left can be inflated to the contents of the file, and the       *)
(* trailer is theirs.                                                      *)
Intact == Holds(Cells(mem, p_read, End - p_read), "original")

Corrupted ==
  SectionsSkipped /\ p_read < End /\ ~ setting.is_fast /\ ~ Intact /\ MoveData

DataSize == End - TrailerSize - p_read

(* fault: the trailer of the file is kept.                                 *)
NewTrailer_Old(c) == Cells(mem, End - 2, 2)

(* The checksum and the size of the contents c.                            *)
NewTrailer(c) == <<<<"crc", c>>, <<"isize", c>>>>

(* LeanifyFile makes c of the contents, and ZopfliDeflate n cells of c.    *)
Recompress(c, n) ==
  /\ SectionsSkipped /\ p_read < End /\ ~ setting.is_fast /\ Intact
  /\ IF n < DataSize
     THEN /\ mem' = Put(mem, p_write,
                        [k \in 1..n |-> <<"deflate", c, k, n>>] \o NewTrailer(c))
          /\ p_write' = p_write + n
     ELSE /\ mem' = MemMove(mem, p_write, p_read, DataSize + TrailerSize)
          /\ p_write' = p_write + DataSize
  /\ size' = p_write' + TrailerSize - fp_w
  /\ pc' = "done"
  /\ UNCHANGED <<call, p_read, flags>>

Next == \/ TooSmall \/ Header \/ NoData \/ FastMode \/ Corrupted
        \/ \E i \in DOMAIN Order : SkipSection(i)
        \/ \E c \in {"original", "leanified"}, n \in 1 .. Len(file) : Recompress(c, n)

Spec == Init /\ [][Next]_vars

-----------------------------------------------------------------------------
(* Properties.                                                             *)

(* gz.cpp:21-118, leanify.cpp:138-142: of a file whose header is complete, *)
(* the n cells that Leanify says it left hold a header without sections    *)
(* and behind it either the data and the trailer of the file, or all of    *)
(* the data of its contents, leanified or not, with their own trailer.     *)
SameContents ==
  pc = "done" /\ Len(file) > HeaderSize + TrailerSize /\ p_read < End =>
    /\ size > HeaderSize
    /\ mem[fp_w] = file[1] /\ mem[fp_w + 1] = <<"flags", {}>>
    /\ LET new == Cells(mem, fp_w + HeaderSize, size - HeaderSize)
           old == Cells(Before, p_read, End - p_read)
       IN  \/ new = old
           \/ /\ Holds(old, "original")
              /\ Holds(new, "original") \/ Holds(new, "leanified")
=============================================================================
