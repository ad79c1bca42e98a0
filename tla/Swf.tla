-------------------------------- MODULE Swf ---------------------------------
(***************************************************************************)
(* Swf::Leanify (swf.cpp): a Flash file is unpacked, its tags are gone     *)
(* through in place, and it is compressed again if that makes it smaller.  *)
(*                                                                         *)
(* A file is <<"swf", compression, version>>, <<"length", n>>, the cells   *)
(* it has when it is not compressed, and its body; compressed with LZMA    *)
(* it has <<"packed", n>> in front of its data.  A body is <<"rect">> and  *)
(* tags.  A tag is <<"tag", type, length>>, or <<"tag", type, Long>> and  *)
(* <<"length", n>>, and its contents; <<"size", n>> is the size of an      *)
(* image in it.                                                            *)
(***************************************************************************)
EXTENDS Format, FiniteSets

VARIABLES
  buffer,               \* what a compressed file was unpacked to
  in_len,
  tag_size_leanified

locals == <<buffer, in_len, tag_size_leanified>>
vars == <<call, mem, p_read, pc, size, locals>>

compression == file[1][2]
version == file[1][3]

Long == 63              \* what the length of a tag is if it stands behind it

Lzma(contents, n) == [k \in 1..n |-> <<"lzma", contents, k, n>>]

(* The body of file s, or <<>> when it cannot be had.                      *)
Body(s) ==
  LET n == s[2][2] - 2
      Unpacked(data, Pack(_, _)) ==
        IF data # <<>> /\ Len(data[1]) = 4 /\ data = Pack(data[1][2], Len(data))
             /\ Len(data[1][2]) = n
        THEN data[1][2] ELSE <<>>
  IN  CASE s[1][2] = "F" -> IF n + 2 <= Len(s) THEN SubSeq(s, 3, n + 2) ELSE <<>>
        [] s[1][2] = "C" -> Unpacked(SubSeq(s, 3, Len(s)), Zlib)
        [] s[1][2] = "Z" -> IF Len(s) > 2 /\ s[3] = <<"packed", Len(s) - 3>>
                            THEN Unpacked(SubSeq(s, 4, Len(s)), Lzma) ELSE <<>>

IsFlash == /\ ~ (setting.is_fast /\ compression # "F")
           /\ Len(file) >= 2 /\ file[2][2] >= 3
           /\ Body(file) # <<>>

Start == buffer = <<>> /\ in_len = 0 /\ tag_size_leanified = 0
Init == Called /\ Start

NotFlash ==
  /\ pc = "start" /\ ~ IsFlash
  /\ MovedAsItIs /\ UNCHANGED locals

(* The tags of a file that is not compressed are worked on where they are. *)
in_place == compression = "F"
in_buffer == IF in_place THEN fp + 2 ELSE 1
work == IF in_place THEN mem ELSE buffer
Work(m) == IF in_place THEN mem' = m /\ UNCHANGED buffer
                       ELSE buffer' = m /\ UNCHANGED mem

Unpack ==
  /\ pc = "start" /\ IsFlash
  /\ buffer' = IF in_place THEN <<>> ELSE Body(file)
  /\ in_len' = file[2][2] - 2
  /\ p_read' = in_buffer + 1
  /\ pc' = "tags"
  /\ UNCHANGED <<call, mem, size, tag_size_leanified>>

-----------------------------------------------------------------------------
(* The tag at p_read.                                                      *)
in_end == in_buffer + in_len
tag_type == work[p_read][2]
isLong == work[p_read][3] = Long
tag_header_length == IF isLong THEN 2 ELSE 1
contents == p_read + tag_header_length
tag_length == IF isLong THEN work[p_read + 1][2] ELSE work[p_read][3]
saved == tag_size_leanified

(* The code relies on FileAttributes that are not empty.                   *)
IsConsidered(f) ==
  \A k \in DOMAIN Body(f) : Body(f)[k] # <<"tag", "attributes", 0>>

HeaderMoved == MemMove(work, p_read - saved, p_read, tag_header_length)

HeaderIsWhole == p_read < in_end /\ (isLong => p_read + 1 < in_end)
TagIsWhole == HeaderIsWhole /\ contents + tag_length <= in_end

EndOfTags(m, p) ==
  /\ Work(m)
  /\ in_len' = in_len - saved
  /\ p_read' = p
  /\ pc' = "pack"
  /\ UNCHANGED <<call, size, tag_size_leanified>>

NoMoreTags ==
  /\ pc = "tags" /\ ~ HeaderIsWhole
  /\ EndOfTags(work, p_read)

(* Its header has been read already.                                       *)
TagTooLong ==
  /\ pc = "tags" /\ HeaderIsWhole /\ ~ TagIsWhole
  /\ EndOfTags(HeaderMoved, contents)

(* What of a tag must be there for the files in it to be leanified.        *)
header_size == CASE tag_type = "jpeg3" -> 2 [] tag_type = "jpeg4" -> 3 [] OTHER -> 1
img_size == work[contents + 1][2]
TooShort ==
  \/ header_size > tag_length
  \/ tag_type \in {"jpeg3", "jpeg4"} /\ header_size + img_size > tag_length

Tag(types) == pc = "tags" /\ TagIsWhole /\ tag_type \in types

UpdateTagLength(m, n) ==
  Put(m, contents - saved - 1, IF isLong THEN <<<<"length", n>>>> ELSE <<<<"tag", tag_type, n>>>>)

(* The tag is left as m has it, n cells shorter.                           *)
NextTag(m, n) ==
  /\ Work(m)
  /\ p_read' = contents + tag_length
  /\ tag_size_leanified' = saved + n
  /\ UNCHANGED <<call, pc, size, in_len>>

(* The contents of a tag that is too short stay where they are.            *)
ShortTag ==
  /\ Tag({"lossless", "jpeg2", "jpeg3", "jpeg4"}) /\ TooShort
  /\ NextTag(HeaderMoved, 0)

(* The first n cells of the contents moved.                                *)
Moved(n) == MemMove(HeaderMoved, contents - saved, contents, n)

RecompressBitmap(r) ==
  LET n == tag_length - 1
  IN  /\ Tag({"lossless"}) /\ ~ TooShort /\ r \in ZlibSizes(work, contents + 1, n)
      /\ NextTag(UpdateTagLength(ZlibRecompressed(Moved(1), contents + 1, n, saved, r), r + 1),
                 n - r)

LeanifyJpeg2(r) ==
  LET n == tag_length - 1
  IN  /\ Tag({"jpeg2"}) /\ ~ TooShort /\ r \in FileSizes(n)
      /\ NextTag(UpdateTagLength(FileLeanified(Moved(1), contents + 1, n, saved, r), r + 1),
                 n - r)

(* An image and the alpha channel behind it.  Of what is in front of them  *)
(* the id is moved and the size written; the third cell of "jpeg4", its    *)
(* DeblockParam, is neither.                                               *)
LeanifyJpeg34(r, a) ==
  LET image == contents + header_size
      n == tag_length - header_size - img_size
      lean == FileLeanified(Moved(1), image, img_size, saved, r)
      sized == Put(lean, contents + 1 - saved, <<<<"size", r>>>>)
  IN  /\ Tag({"jpeg3", "jpeg4"}) /\ ~ TooShort
      /\ r \in FileSizes(img_size) /\ a \in ZlibSizes(work, image + img_size, n)
      /\ NextTag(UpdateTagLength(ZlibRecompressed(sized, image + img_size, n,
                                                  saved + img_size - r, a),
                                 header_size + r + a),
                 img_size - r + n - a)

RemoveMetadata ==
  /\ Tag({"metadata"})
  /\ NextTag(HeaderMoved, tag_length + tag_header_length)

(* fault: the tag goes on to say that there is metadata.                   *)
WithoutMetadata_Not(m) == m

(* HasMetadata is cleared, in what is the first cell of FileAttributes.    *)
WithoutMetadata(m) == Put(m, contents, <<<<"flags", FALSE>>>>)

MoveTag ==
  /\ Tag({"attributes", "end", "other"})
  /\ NextTag(MemMove(IF tag_type = "attributes" THEN WithoutMetadata(HeaderMoved) ELSE HeaderMoved,
                     contents - saved, contents, tag_length), 0)

-----------------------------------------------------------------------------
(* The tags are packed again.                                              *)
Result(n) ==
  LET body == Cells(work, in_buffer, in_len)
  IN  IF version >= 13
      THEN <<<<"swf", "Z", version>>, <<"length", in_len + 2>>, <<"packed", n>>>>
             \o Lzma(body, n)
      ELSE <<<<"swf", "C", version>>, <<"length", in_len + 2>>>> \o Zlib(body, n)

FastMode ==
  /\ pc = "pack" /\ setting.is_fast
  /\ mem' = MemMove(Put(MemMove(mem, fp_w, fp, 1), fp_w + 1, <<<<"length", in_len + 2>>>>),
                    fp_w + 2, fp + 2, in_len)
  /\ size' = in_len + 2
  /\ pc' = "done"
  /\ UNCHANGED <<call, p_read, locals>>

Compress(n) ==
  /\ pc = "pack" /\ ~ setting.is_fast /\ Len(Result(n)) < size
  /\ mem' = Put(mem, fp_w, Result(n))
  /\ size' = Len(Result(n))
  /\ pc' = "done"
  /\ UNCHANGED <<call, p_read, locals>>

(* Compressing fails or does not pay: the file is moved with the tags that *)
(* were rewritten in it, and with all of its old length.                   *)
KeepAsItIs ==
  /\ pc = "pack" /\ ~ setting.is_fast
  /\ MovedAsItIs /\ UNCHANGED locals

Next == \/ NotFlash \/ Unpack \/ NoMoreTags \/ TagTooLong \/ ShortTag
        \/ RemoveMetadata \/ MoveTag \/ FastMode \/ KeepAsItIs
        \/ \E r \in 0 .. in_len : RecompressBitmap(r) \/ LeanifyJpeg2(r)
        \/ \E r, a \in 0 .. in_len : LeanifyJpeg34(r, a)
        \/ \E n \in 1 .. Len(file) : Compress(n)

Spec == Init /\ [][Next]_vars

-----------------------------------------------------------------------------
(* Properties.                                                             *)

(* The tags of body b up to the one that says it is the last; none if      *)
(* there is none, or if a tag is not whole.                                *)
Tags(b) ==
  LET t[p \in 1 .. Len(b) + 1] ==
        IF p > Len(b) \/ b[p][1] # "tag" \/ (b[p][3] = Long /\ p = Len(b)) THEN <<>>
        ELSE LET q == IF b[p][3] = Long THEN p + 2 ELSE p + 1
                 n == IF b[p][3] = Long THEN b[p + 1][2] ELSE b[p][3]
                 tag == [type |-> b[p][2], contents |-> SubSeq(b, q, q + n - 1)]
             IN  IF q + n > Len(b) + 1 THEN <<>>
                 ELSE IF b[p][2] = "end" THEN <<tag>>
                 ELSE IF t[q + n] = <<>> THEN <<>>
                 ELSE <<tag>> \o t[q + n]
  IN  t[2]

(* A tag that has an image has all of it, and its size.                    *)
IsWhole(tag) ==
  LET c == tag.contents
  IN  CASE tag.type \in {"lossless", "jpeg2", "attributes"} -> c # <<>>
        [] tag.type = "jpeg3" -> Len(c) >= 2 /\ c[2][2] + 2 <= Len(c)
        [] tag.type = "jpeg4" -> Len(c) >= 3 /\ c[2][2] + 3 <= Len(c)
        [] OTHER -> TRUE

(* Tag t is tag s with leanified images.                                   *)
SameTag(s, t) ==
  LET c == s.contents
      d == t.contents
      Skip(x, n) == SubSeq(x, n + 1, Len(x))
  IN  /\ t.type = s.type /\ IsWhole(t)
      /\ CASE s.type = "attributes" -> d = <<<<"flags", FALSE>>>> \o Tail(c)
           [] s.type \in {"lossless", "jpeg2"} -> d[1] = c[1] /\ IsLeanOf(Tail(d), Tail(c))
           [] s.type \in {"jpeg3", "jpeg4"} ->
                LET h == IF s.type = "jpeg3" THEN 2 ELSE 3
                    n == c[2][2]
                    r == d[2][2]
                IN  /\ d[1] = c[1] /\ SubSeq(d, 3, h) = SubSeq(c, 3, h)
                    /\ IsLeanOf(SubSeq(d, h + 1, h + r), SubSeq(c, h + 1, h + n))
                    /\ IsLeanOf(Skip(d, h + r), Skip(c, h + n))
           [] OTHER -> d = c

(* README.md:4, README.md:167-173, swf.cpp:79-328: a file whose tags are   *)
(* whole is left alone or comes out with the same tags in the same order,  *)
(* but for metadata; images are leanified and all else in a tag is what it *)
(* was.                                                                    *)
SameTags ==
  pc = "done" =>
    LET new == Cells(mem, fp_w, size)
        old == IF IsFlash THEN Tags(Body(file)) ELSE <<>>
        Kept(tags) == SelectSeq(tags, LAMBDA t : t.type # "metadata")
    IN  \/ new = file
        \/ /\ IsFlash
           /\ old # <<>> /\ (\A k \in DOMAIN old : IsWhole(old[k])) =>
                LET was == Kept(old)
                    is == Tags(Body(new))
                IN  /\ Len(is) = Len(was)
                    /\ \A k \in DOMAIN was : SameTag(was[k], is[k])
=============================================================================
