-------------------------------- MODULE Ico ---------------------------------
(***************************************************************************)
(* Ico::Leanify (ico.cpp): the images of an icon are brought into the      *)
(* order they lie in, and one after the other leanified, converted, or     *)
(* moved, without gaps between them; then the directory is written.        *)
(*                                                                         *)
(* The header is one cell, <<"ico", n>>, and so is each of the n entries   *)
(* behind it, <<"entry", [name, offset, bytes, is_256]>>.  The cells of an *)
(* image are <<"png", name, k>>, <<"dib", name, k>>, which is a bitmap of  *)
(* 256 by 256 that can be converted, or <<"data", name, k>>.               *)
(***************************************************************************)
EXTENDS Format, Functions

VARIABLES
  entries,   \* the directory, sorted; the first of them are updated
  i          \* how many of them are

locals == <<entries, i>>
vars == <<call, mem, p_read, pc, size, locals>>

num_of_img == file[1][2]
HeaderSize == 1 + num_of_img
Directory(s) == [k \in 1 .. s[1][2] |-> s[k + 1][2]]

(* The code relies on images that have bytes and lie behind the directory. *)
IsConsidered(f) ==
  LET n == f[1][2]
      Entry(e) == /\ e \in [name : {e.name}, offset : Nat, bytes : Nat \ {0}, is_256 : BOOLEAN]
                  /\ e.offset > n
  IN  n \in Nat /\ (n < Len(f) => \A k \in 1..n : Entry(f[k + 1][2]))

(* The orders that sorting the directory may end with.                     *)
Orders ==
  LET dir == Directory(file)
      n == num_of_img
  IN  {[k \in 1..n |-> dir[p[k]]] :
         p \in {p \in Bijection(1..n, 1..n) :
                 \A k, l \in 1..n : k < l => dir[p[k]].offset <= dir[p[l]].offset}}

(* In this order no image begins inside the one in front of it.            *)
AreApart(sorted) ==
  /\ \A k \in 2 .. num_of_img :
       sorted[k - 1].offset + sorted[k - 1].bytes <= sorted[k].offset
  /\ sorted[num_of_img].offset + sorted[num_of_img].bytes <= Len(file)

IsIcon ==
  /\ num_of_img # 0 /\ HeaderSize < Len(file)
  /\ \E sorted \in Orders : AreApart(sorted)

Start == entries = <<>> /\ i = 0
Init == Called /\ Start

NotAnIcon ==
  /\ pc = "start" /\ ~ IsIcon
  /\ MovedAsItIs /\ UNCHANGED locals

SortEntries ==
  /\ pc = "start" /\ IsIcon
  /\ entries' \in {sorted \in Orders : AreApart(sorted)}
  /\ p_read' = fp + entries'[1].offset
  /\ pc' = "images"
  /\ UNCHANGED <<call, mem, size, i>>

(* Images follow each other, and the first follows the directory.          *)
NewOffset ==
  IF i = 0 THEN HeaderSize ELSE entries[i].offset + entries[i].bytes

Image(kind) == pc = "images" /\ i < num_of_img /\ mem[p_read][1] = kind
Bytes == entries[i + 1].bytes

(* The next image is left with n cells.                                    *)
NextImage(n) ==
  /\ entries' = [entries EXCEPT ![i + 1].offset = NewOffset, ![i + 1].bytes = n]
  /\ i' = i + 1
  /\ p_read' = IF i' < num_of_img THEN fp + entries[i' + 1].offset ELSE End
  /\ UNCHANGED <<call, pc, size>>

(* fault: only what was saved so far is taken for the room.                *)
Slack_Saved == p_read - fp - NewOffset

(* The room in front of the next image.                                    *)
Slack == p_read - NewOffset

LeanifyPng(r) ==
  /\ Image("png") /\ r \in 1..Bytes
  /\ mem' = FileLeanified(mem, p_read, Bytes, Slack, r)
  /\ NextImage(r)

Converted(name, r) == [k \in 1..r |-> <<"converted", name, k>>]

(* A PNG of r cells is made of the bitmap, elsewhere.                      *)
ConvertBitmap(r) ==
  /\ Image("dib") /\ entries[i + 1].is_256
  /\ r < Bytes
  /\ mem' = Put(mem, fp_w + NewOffset, Converted(mem[p_read][2], r))
  /\ NextImage(r)

(* Any other image, or one that becomes larger.                            *)
MoveImage ==
  /\ pc = "images" /\ i < num_of_img /\ mem[p_read][1] # "png"
  /\ mem' = MemMove(mem, fp_w + NewOffset, p_read, Bytes)
  /\ NextImage(Bytes)

WriteDirectory ==
  /\ pc = "images" /\ i = num_of_img
  /\ mem' = Put(mem, fp_w, <<<<"ico", num_of_img>>>>
                             \o [k \in 1..num_of_img |-> <<"entry", entries[k]>>])
  /\ size' = entries[num_of_img].offset + entries[num_of_img].bytes
  /\ pc' = "done"
  /\ UNCHANGED <<call, p_read, locals>>

Next == \/ NotAnIcon \/ SortEntries \/ MoveImage \/ WriteDirectory
        \/ \E r \in 1 .. Len(file) : LeanifyPng(r) \/ ConvertBitmap(r)

Spec == Init /\ [][Next]_vars

-----------------------------------------------------------------------------
(* Properties.                                                             *)

(* README.md:4, ico.cpp:34-128: the directory lists the same images in the *)
(* order they lie in; each one is where its entry says, and it is what it  *)
(* was, leanified if it is a PNG, or converted if it is a bitmap of 256 by *)
(* 256.                                                                    *)
SameImages ==
  pc = "done" =>
    LET new == Cells(mem, fp_w, size)
        dir == Directory(new)
        At(s, e) == SubSeq(s, e.offset + 1, e.offset + e.bytes)
    IN  IF ~ IsIcon THEN new = file
        ELSE \E sorted \in {sorted \in Orders : AreApart(sorted)} :
               /\ Len(dir) = num_of_img
               /\ \A k \in DOMAIN dir :
                    LET was == sorted[k]
                        is == dir[k]
                        image == At(file, was)
                    IN  /\ [is EXCEPT !.offset = was.offset, !.bytes = was.bytes] = was
                        /\ is.offset + is.bytes <= size
                        /\ \/ At(new, is) = image
                           \/ image[1][1] = "png" /\ IsLeanOf(At(new, is), image)
                           \/ /\ image[1][1] = "dib" /\ was.is_256
                              /\ At(new, is) = Converted(image[1][2], is.bytes)
=============================================================================
