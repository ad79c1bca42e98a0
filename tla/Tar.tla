-------------------------------- MODULE Tar ---------------------------------
(***************************************************************************)
(* Tar::Leanify (tar.cpp): one pass over the records of an archive that    *)
(* leanifies the files in it and moves everything to the front of the      *)
(* buffer.  Block stands for the 512 bytes of a record.                    *)
(*                                                                         *)
(* The first cell of a header is <<"head", name, type, size, checksum>>;   *)
(* size is the only field that changes, so it stands for what the checksum *)
(* is computed of.                                                         *)
(***************************************************************************)
EXTENDS Format

CONSTANTS
  Block,      \* cells of a record
  Zero        \* a cell that is 0

VARIABLES p_write, size_leanified

locals == <<p_write, size_leanified>>
vars == <<call, mem, p_read, pc, size, locals>>

(* CalcChecksum agrees with the checksum in the header.                    *)
IsHeader(c) == c[1] = "head" /\ c[4] = c[5]

RoundUp(n) == ((n + Block - 1) \div Block) * Block

(* What a header says follows it lies in the archive.  The code reads the  *)
(* size with strtol and believes it; archives with sizes that point behind *)
(* their end are not considered, those without a record of zeros are.      *)
IsConsidered(f) ==
  \A i \in 1 .. Len(f) :
    IsHeader(f[i]) => f[i][4] \in Nat /\ i + Block - 1 + RoundUp(f[i][4]) <= Len(f)

(* fault: the end of the archive is not recognised.                        *)
IsZeroRecord_Never(p) == FALSE

IsZeroRecord(p) == \A k \in 0 .. Block - 1 : mem[p + k] = Zero

(* fault: the checksum is left as it was.                                  *)
Resized_OldChecksum(c, n) == <<c[1], c[2], c[3], n, c[5]>>

(* A header with a new size and its checksum.                              *)
Resized(c, n) == <<c[1], c[2], c[3], n, n>>

(* fault: a whole record is cleared.                                       *)
Padding_Record(n) == Block

(* The zeros behind n cells of contents.                                   *)
Padding(n) == RoundUp(n) - n

Start == p_write = fp_w /\ size_leanified = fp
Init == Called /\ Start

(* Tar::Tar: is the file long enough, of whole records, and does it begin  *)
(* with a header?  For no other file a Tar is kept.                        *)
IsValid == /\ Len(file) > Block /\ Len(file) % Block = 0
           /\ IsHeader(file[1])

Valid ==
  /\ pc = "start" /\ IsValid
  /\ pc' = "record"
  /\ UNCHANGED <<call, mem, p_read, size, locals>>

(* The record that is looked at lies in the archive.                       *)
Inside == p_read + Block <= End

(* Behind the archive the code reads what happens to be there.  This is    *)
(* undefined: there may be zeros or anything else, and then the call is    *)
(* not followed any further.                                               *)
ReadBehind ==
  /\ pc = "record" /\ ~ Inside
  /\ pc' \in {"trailer", "lost"}
  /\ UNCHANGED <<call, mem, p_read, size, locals>>

(* A record of zeros ends the archive.                                     *)
EndOfArchive ==
  /\ pc = "record" /\ Inside /\ IsZeroRecord(p_read)
  /\ pc' = "trailer"
  /\ UNCHANGED <<call, mem, p_read, size, locals>>

(* The buffer after the header is moved.                                   *)
HeaderMoved == MemMove(mem, p_write, p_read, Block)

(* fault: it is forgotten that the end, too, was moved to the front.       *)
Advance_OldEnd(n, k) ==
  /\ p_read' = p_read + Block + n
  /\ p_write' = p_write + Block + k
  /\ size_leanified' = size_leanified + n - k
  /\ pc' = IF p_write' < End THEN "record" ELSE "trailer"
  /\ UNCHANGED <<call, size>>

(* The cursors pass a header and n cells of input that became k cells.     *)
Advance(n, k) ==
  /\ p_read' = p_read + Block + n
  /\ p_write' = p_write + Block + k
  /\ size_leanified' = size_leanified + n - k
  /\ pc' = IF p_write' < fp_w + size THEN "record" ELSE "trailer"
  /\ UNCHANGED <<call, size>>

(* A header with a wrong checksum, or whatever else is found where a       *)
(* header should be: one record is moved.                                  *)
BadRecord ==
  /\ pc = "record" /\ Inside /\ ~ IsZeroRecord(p_read) /\ ~ IsHeader(mem[p_read])
  /\ mem' = HeaderMoved
  /\ Advance(0, 0)

Header(type, n) ==
  /\ pc = "record" /\ Inside /\ ~ IsZeroRecord(p_read) /\ IsHeader(mem[p_read])
  /\ type = mem[p_read][3] /\ n = mem[p_read][4]

EmptyMember ==
  /\ Header(mem[p_read][3], 0)
  /\ mem' = HeaderMoved
  /\ Advance(0, 0)

(* A file is leanified; its size and checksum are written again and its    *)
(* last record is filled with zeros.                                       *)
LeanifyMember(r) ==
  LET n == mem[p_read][4]
      lean == FileLeanified(HeaderMoved, p_read + Block, n, size_leanified, r)
  IN  /\ Header("file", n) /\ n > 0 /\ MayRecurse /\ r \in FileSizes(n)
      /\ mem' = MemSet(Put(lean, p_write, <<Resized(mem[p_read], r)>>),
                       p_write + Block + r, Zero, Padding(r))
      /\ Advance(RoundUp(n), RoundUp(r))

(* Another type of member, or no more recursion: its records are moved.    *)
MoveMember ==
  LET n == mem[p_read][4]
  IN  /\ Header(mem[p_read][3], n) /\ n > 0
      /\ mem[p_read][3] # "file" \/ ~ MayRecurse
      /\ mem' = MemMove(HeaderMoved, p_write + Block, p_read + Block, RoundUp(n))
      /\ Advance(RoundUp(n), RoundUp(n))

(* Two records of zeros end the result.                                    *)
WriteTrailer ==
  /\ pc = "trailer"
  /\ mem' = MemSet(mem, p_write, Zero, 2 * Block)
  /\ size' = p_write + 2 * Block - fp_w
  /\ pc' = "done"
  /\ UNCHANGED <<call, p_read, locals>>

Record == \/ ReadBehind \/ EndOfArchive \/ BadRecord \/ EmptyMember \/ MoveMember
          \/ \E r \in 0 .. Len(file) : LeanifyMember(r)

Next == Valid \/ Record \/ WriteTrailer

Spec == Init /\ [][Next]_vars

-----------------------------------------------------------------------------
(* Properties.                                                             *)

(* What an archive means: its members in their order, up to the first      *)
(* record of zeros.  A record without a sound header is one of its own.    *)
IsZeroAt(s, p) == \A k \in 0 .. Block - 1 : s[p + k] = Zero
EndsAt(s, p) == p + Block - 1 > Len(s) \/ IsZeroAt(s, p)

Member(s, p) ==
  IF IsHeader(s[p])
  THEN [name |-> s[p][2], type |-> s[p][3], contents |-> Cells(s, p + Block, s[p][4])]
  ELSE [name |-> "", type |-> "bad", contents |-> Cells(s, p, Block)]

(* The cells that the member at p takes up, and what follows them.         *)
MemberSize(s, p) == Block + (IF IsHeader(s[p]) THEN RoundUp(s[p][4]) ELSE 0)
Behind(s, p) == IF p + MemberSize(s, p) \in p + 1 .. Len(s)
                THEN p + MemberSize(s, p) ELSE Len(s) + 1

MembersFrom(s) ==
  LET members[p \in 1 .. Len(s) + 1] ==
        IF EndsAt(s, p) THEN <<>> ELSE <<Member(s, p)>> \o members[Behind(s, p)]
  IN  members

Members(s) == MembersFrom(s)[1]

(* Members follow each other from the first record up to the very end of   *)
(* the archive, and no record of zeros is in between.                      *)
Places(s) == {1 + k * Block : k \in 0 .. Len(s) \div Block}
HasNoEnd(s) ==
  \E P \in SUBSET Places(s) :
    /\ 1 \in P
    /\ \A p \in P : p <= Len(s) => ~ IsZeroAt(s, p) /\ p + MemberSize(s, p) \in P

(* tar.cpp:46-103: the loop is ended by where it writes, not by where it   *)
(* reads.  It looks behind the archive only if no record of zeros ends     *)
(* that and something was saved before.                                    *)
EndsInTime ==
  pc = "record" /\ ~ Inside => HasNoEnd(file) /\ size_leanified > fp

(* A member as it was or, if it is a file, leanified.                      *)
IsKept(new, old) ==
  \/ new = old
  \/ /\ MayRecurse /\ old.type = "file"
     /\ [new EXCEPT !.contents = old.contents] = old
     /\ IsLeanOf(new.contents, old.contents)

(* README.md:4, tar.cpp:48-107: the result holds the members of the        *)
(* archive in their order, each one as it was or, a file, leanified.       *)
SameMembers ==
  pc = "done" =>
    LET old == Members(file)
        new == Members(Cells(mem, fp_w, size))
    IN  Len(new) = Len(old) /\ \A i \in DOMAIN old : IsKept(new[i], old[i])
=============================================================================
