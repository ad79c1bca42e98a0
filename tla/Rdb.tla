-------------------------------- MODULE Rdb ---------------------------------
(***************************************************************************)
(* Rdb::Leanify (rdb.cpp): the index of an archive is moved first and then *)
(* updated entry by entry, while the files behind it are leanified.        *)
(*                                                                         *)
(* The header is one cell, <<"header", file_num, index_offset, index size>>*)
(* An entry of the index is a name, which is any number of cells           *)
(* <<"char", i>> and a <<"nul">>, the offset <<"offset", o>> of its file   *)
(* and its size <<"size", n>>.                                             *)
(***************************************************************************)
EXTENDS Format

VARIABLES
  p_index,
  i,                   \* entries of the index that are done
  rdb_size_leanified

locals == <<p_index, i, rdb_size_leanified>>
vars == <<call, mem, p_read, pc, size, locals>>

file_num == file[1][2]
index_offset == file[1][3]
content_offset == index_offset + file[1][4]

IsArchive == Len(file) > 2 /\ content_offset <= Len(file)

(* The index lies behind the header, and offset and size follow each name. *)
(* The code looks for the size of a file behind its offset without making  *)
(* sure that the index goes on (rdb.cpp:65): an index that ends between    *)
(* the two is not considered.                                              *)
IsConsidered(f) ==
  LET content == f[1][3] + f[1][4]
      is(q, field, numbers) == f[q] = <<field, f[q][2]>> /\ f[q][2] \in numbers
  IN  /\ f[1][2] \in Nat /\ f[1][3] \in Nat \ {0} /\ f[1][4] \in Nat
      /\ content <= Len(f) =>
           /\ f[content][1] # "offset"
           /\ \A q \in f[1][3] + 1 .. content - 1 :
                f[q] = <<"nul">> =>
                  /\ is(q + 1, "offset", Int)
                  /\ q + 2 <= content => is(q + 2, "size", Nat)

Start == p_index = fp_w /\ i = 0 /\ rdb_size_leanified = 0
Init == Called /\ Start

NotAnArchive ==
  /\ pc = "start" /\ ~ IsArchive
  /\ MovedAsItIs /\ UNCHANGED locals

MoveIndex ==
  /\ pc = "start" /\ IsArchive
  /\ mem' = MemMove(mem, fp_w, fp, content_offset)
  /\ p_index' = fp_w + index_offset
  /\ p_read' = fp + content_offset
  /\ pc' = "files"
  /\ UNCHANGED <<call, size, i, rdb_size_leanified>>

(* Behind the name at p_index, which ends with a zero or with the index.   *)
NameEnd ==
  LET ends == {q \in p_index .. fp_w + content_offset :
                 q + 1 >= fp_w + content_offset \/ mem[q] = <<"nul">>}
  IN  1 + CHOOSE q \in ends : \A r \in ends : q <= r

remaining_size == End - p_read
FileSize == mem[NameEnd + 1][2]

IndexEnds == NameEnd + 1 > fp_w + content_offset

InLoop == pc = "files" /\ i < file_num

(* The entry at p_index is in the index, and its file in the archive.      *)
SoundEntry == ~ IndexEnds /\ FileSize <= remaining_size

(* The index is too short, or a file too long: the rest is moved.          *)
DamagedIndex ==
  /\ InLoop /\ ~ SoundEntry
  /\ mem' = MemMove(mem, p_read - rdb_size_leanified - fp, p_read, remaining_size)
  /\ p_read' = End
  /\ i' = file_num
  /\ UNCHANGED <<call, pc, size, p_index, rdb_size_leanified>>

(* fault: the offset is left as it was.                                    *)
EntryUpdated_OldOffset(m, n) == Put(m, NameEnd + 1, <<<<"size", n>>>>)

(* The entry at p_index says where its file, now of n cells, is.           *)
EntryUpdated(m, n) ==
  Put(m, NameEnd, <<<<"offset", mem[NameEnd][2] - rdb_size_leanified>>, <<"size", n>>>>)

NextFile(n, r) ==
  /\ p_read' = p_read + n
  /\ p_index' = NameEnd + 2
  /\ rdb_size_leanified' = rdb_size_leanified + n - r
  /\ i' = i + 1
  /\ UNCHANGED <<call, pc, size>>

Directory ==
  /\ InLoop /\ SoundEntry /\ FileSize = 0
  /\ mem' = EntryUpdated(mem, 0)
  /\ NextFile(0, 0)

LeanifyEntry(r) ==
  /\ InLoop /\ SoundEntry /\ FileSize > 0 /\ MayRecurse /\ r \in FileSizes(FileSize)
  /\ mem' = EntryUpdated(FileLeanified(mem, p_read, FileSize,
                                       rdb_size_leanified + fp, r), r)
  /\ NextFile(FileSize, r)

(* No more recursion.                                                      *)
MoveEntry ==
  /\ InLoop /\ SoundEntry /\ FileSize > 0 /\ ~ MayRecurse
  /\ mem' = EntryUpdated(MemMove(mem, p_read - rdb_size_leanified - fp, p_read, FileSize),
                         FileSize)
  /\ NextFile(FileSize, FileSize)

Finish ==
  /\ pc = "files" /\ i = file_num
  /\ size' = p_read - fp - rdb_size_leanified
  /\ pc' = "done"
  /\ UNCHANGED <<call, mem, p_read, locals>>

Next == \/ NotAnArchive \/ MoveIndex \/ DamagedIndex \/ Directory \/ MoveEntry \/ Finish
        \/ \E r \in 0 .. Len(file) : LeanifyEntry(r)

Spec == Init /\ [][Next]_vars

-----------------------------------------------------------------------------
(* Properties.                                                             *)

(* An entry of the archive s and the file that it stands for: its name,    *)
(* which is in the index from b.index on, up to the first zero, whether    *)
(* its offset is that of the file, and the file, which is at b.at.         *)
Content(s) == s[1][3] + s[1][4]
Nuls(s, b) == {q \in b.index .. Content(s) : s[q] = <<"nul">>}
Nul(s, b) == CHOOSE q \in Nuls(s, b) : \A r \in Nuls(s, b) : q <= r

IsReadable(s, b) ==
  /\ Nuls(s, b) # {} /\ Nul(s, b) + 2 <= Content(s)
  /\ s[Nul(s, b) + 2][2] <= Len(s) - b.at + 1

Name(s, b) == Cells(s, b.index, Nul(s, b) - b.index + 1)
IsInPlace(s, b) == s[Nul(s, b) + 1][2] = b.at - 1
Contents(s, b) == Cells(s, b.at, s[Nul(s, b) + 2][2])
Rest(s, b) == Cells(s, b.at, Len(s) - b.at + 1)

(* Where k entries and their files end: a file lies behind the one in      *)
(* front of it in the index.  Behind an entry that cannot be read there    *)
(* are no others.                                                          *)
Places(s) ==
  LET place[k \in 0 .. s[1][2]] ==
        IF k = 0 THEN [index |-> s[1][3] + 1, at |-> Content(s) + 1]
        ELSE IF IsReadable(s, place[k - 1])
             THEN [index |-> Nul(s, place[k - 1]) + 3,
                   at |-> place[k - 1].at + s[Nul(s, place[k - 1]) + 2][2]]
             ELSE place[k - 1]
  IN  place

(* README.md:4, README.md:164, rdb.cpp:45-110: the result lists the same   *)
(* names in the same order; each file is where its entry says and is the   *)
(* file that was there, leanified or not.  What lies behind an entry that  *)
(* cannot be read is kept as it was.                                       *)
SameFiles ==
  pc = "done" =>
    LET new == Cells(mem, fp_w, size)
    IN  IF ~ IsArchive THEN new = file
        ELSE \A k \in 0 .. file_num - 1 :
               LET was == Places(file)[k]
                   is  == Places(new)[k]
               IN  /\ IsReadable(new, is) <=> IsReadable(file, was)
                   /\ IF IsReadable(file, was)
                      THEN /\ Name(new, is) = Name(file, was)
                           /\ IsInPlace(new, is) <=> IsInPlace(file, was)
                           /\ IsLeanOf(Contents(new, is), Contents(file, was))
                           /\ MayRecurse \/ Contents(new, is) = Contents(file, was)
                      ELSE Rest(new, is) = Rest(file, was)
=============================================================================
