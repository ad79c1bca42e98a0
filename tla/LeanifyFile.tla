---------------------------- MODULE LeanifyFile -----------------------------
(***************************************************************************)
(* LeanifyFile (leanify.cpp): GetType picks a format for a file, and the   *)
(* format's Leanify does the rest.  This module puts the formats together  *)
(* that work on the buffer; what each of them does is in its own module.   *)
(* It also has the two formats that are nothing but wrappers: gft.cpp,     *)
(* and dwf.cpp, which is a ZIP archive behind a header.                    *)
(*                                                                         *)
(* A file is known by its first cell, as it is by its first bytes, or by   *)
(* the extension of its name, setting.ext.                                 *)
(***************************************************************************)
EXTENDS Format

CONSTANTS
  Block, Zero,     \* see Tar
  SearchGap,       \* see Embedded
  Word,            \* see Pe
  IntMax           \* see Json

VARIABLE format    \* the class of the object that GetType made

(* What the formats keep while they work.                                  *)
VARIABLES
  p_write,
  size_leanified,                                     \* Tar
  flags,                                              \* Gz
  p_end, cd_headers, base_offset, next, cd_offset,    \* Zip
  p_index, i, rdb_size_leanified,                     \* Rdb
  entries,                                            \* Ico, with i
  buffer, in_len, tag_size_leanified,                 \* Swf
  idat_addr,                                          \* Png
  stack,                                              \* Lua
  removed, leaner, visited,                           \* Xml
  doc, nodes,                                         \* Json
  pe, rsrc_data                                       \* Pe, with i

zip == <<p_end, cd_headers, base_offset, next, cd_offset>>
rdb == <<p_index, rdb_size_leanified>>
swf == <<buffer, in_len, tag_size_leanified>>
trees == <<removed, leaner, visited, doc, nodes>>
exe == <<pe, rsrc_data>>

locals ==
  <<p_write, size_leanified, flags, zip, i, rdb, entries, swf, idat_addr, stack, trees, exe>>
vars == <<call, format, mem, p_read, pc, size, locals>>

(* The steps of a format depend on the call that was made, not on Calls.  *)
Tar == INSTANCE Tar WITH Calls <- {}
Gz == INSTANCE Gz WITH Calls <- {}
Zip == INSTANCE Zip WITH Calls <- {}
Rdb == INSTANCE Rdb WITH Calls <- {}
Ico == INSTANCE Ico WITH Calls <- {}
Swf == INSTANCE Swf WITH Calls <- {}
Png == INSTANCE Png WITH Calls <- {}
Lua == INSTANCE Lua WITH Calls <- {}
Xml == INSTANCE Xml WITH Calls <- {}
Json == INSTANCE Json WITH Calls <- {}
Embedded == INSTANCE Embedded WITH Calls <- {}
Pe == INSTANCE Pe WITH Calls <- {}

(* The files that the modules of the formats can say something about.      *)
ASSUME LeanifyFileAssumption ==
  /\ Block \in Nat \ {0} /\ SearchGap \in Nat /\ IntMax \in Nat
  /\ \A c \in Calls :
       /\ Len(c[1]) \in Nat \ {0} /\ c[1] = Cells(c[1], 1, Len(c[1]))
       /\ c[2].room \in Nat /\ c[2].levels \in Int
       /\ c[1][1][1] = "gft" => c[1][1][2] \in Nat
       /\ c[1][1][1] = "head" => Tar!IsConsidered(c[1])
       /\ c[1][1][1] = "header" => Rdb!IsConsidered(c[1])
       /\ c[1][1][1] = "ico" => Ico!IsConsidered(c[1])
       /\ c[1][1][1] = "swf" => Swf!IsConsidered(c[1])
       /\ c[1][1][1] = "png" => Png!IsConsidered(c[1])
       /\ c[1][1][1] = "lua" => Lua!IsConsidered(c)
       /\ c[1][1][1] = "MZ" => Pe!IsConsidered(c)
       /\ c[2].ext = "Json" => Json!IsConsidered(c[1])

-----------------------------------------------------------------------------
(* The class of a file that is known by its first bytes.                   *)
Magic ==
  [png |-> "Png", lua |-> "Lua", local |-> "Zip", gz |-> "Gz", ico |-> "Ico",
   dwf |-> "Dwf", gft |-> "Gft", header |-> "Rdb", swf |-> "Swf", MZ |-> "Pe"]

IsVCard == \E k \in DOMAIN file : file[k][1] = "vcard"

(* The extension counts first, then what is at the beginning; the others   *)
(* are looked into, and in the end parsed as XML.                          *)
GetType ==
  IF setting.levels < 0 THEN "Format"
  ELSE IF setting.ext \in {"DataURI", "Vcf", "Mime", "Json"} THEN setting.ext
  ELSE IF file[1][1] \in DOMAIN Magic THEN Magic[file[1][1]]
  ELSE IF IsVCard THEN "Vcf"
  ELSE IF Tar!IsValid THEN "Tar"
  ELSE IF file[1][1] \in {"prolog", "element"} THEN "Xml"
  ELSE "Format"

(* A DWF file is given to Zip if an archive follows its header; SVG images *)
(* make a DataURI of their own.                                            *)
Made ==
  IF setting.single THEN "DataURI"
  ELSE IF GetType # "Dwf" THEN GetType
  ELSE IF Len(file) > 1 /\ file[2][1] = "local" THEN "Zip" ELSE "Format"

Init == /\ Called /\ format = Made
        /\ Tar!Start /\ Gz!Start /\ Zip!Start /\ Rdb!Start /\ Ico!Start
        /\ Swf!Start /\ Png!Start /\ Lua!Start /\ Embedded!Start
        /\ Xml!Start /\ Json!Start /\ Pe!Start

(* Format::Leanify for what is not supported, or too deep.                 *)
NotSupported ==
  /\ format = "Format" /\ pc = "start"
  /\ MovedAsItIs /\ UNCHANGED locals

-----------------------------------------------------------------------------
(* A GFT file is a header, whose size is in its first cell, and an image.  *)
header_size == file[1][2]
IsGft == Len(file) >= 2 /\ Len(file) > header_size

NotGft ==
  /\ format = "Gft" /\ pc = "start" /\ ~ IsGft
  /\ MovedAsItIs /\ UNCHANGED locals

(* fault: the header is left where it was.                                 *)
LeanifyGft_NoHeader(r) ==
  LET n == Len(file) - header_size
  IN  /\ format = "Gft" /\ pc = "start" /\ IsGft /\ r \in FileSizes(n)
      /\ mem' = FileLeanified(mem, fp + header_size, n, setting.room, r)
      /\ size' = header_size + r
      /\ pc' = "done"
      /\ UNCHANGED <<call, p_read, locals>>

LeanifyGft(r) ==
  LET n == Len(file) - header_size
  IN  /\ format = "Gft" /\ pc = "start" /\ IsGft /\ r \in FileSizes(n)
      /\ mem' = FileLeanified(MemMove(mem, fp_w, fp, header_size),
                              fp + header_size, n, setting.room, r)
      /\ size' = header_size + r
      /\ pc' = "done"
      /\ UNCHANGED <<call, p_read, locals>>

-----------------------------------------------------------------------------
Leanify ==
  \/ NotSupported \/ NotGft \/ \E r \in 0 .. Len(file) : LeanifyGft(r)
  \/ /\ format = "Tar" /\ Tar!Next
     /\ UNCHANGED <<flags, zip, i, rdb, entries, swf, idat_addr, stack, trees, exe>>
  \/ /\ format = "Gz" /\ Gz!Next
     /\ UNCHANGED <<size_leanified, zip, i, rdb, entries, swf, idat_addr, stack, trees, exe>>
  \/ /\ format = "Zip" /\ Zip!Next
     /\ UNCHANGED <<size_leanified, flags, i, rdb, entries, swf, idat_addr, stack, trees, exe>>
  \/ /\ format = "Rdb" /\ Rdb!Next
     /\ UNCHANGED <<p_write, size_leanified, flags, zip, entries, swf, idat_addr, stack, trees, exe>>
  \/ /\ format = "Ico" /\ Ico!Next
     /\ UNCHANGED <<p_write, size_leanified, flags, zip, rdb, swf, idat_addr, stack, trees, exe>>
  \/ /\ format = "Swf" /\ Swf!Next
     /\ UNCHANGED <<p_write, size_leanified, flags, zip, i, rdb, entries, idat_addr, stack, trees, exe>>
  \/ /\ format = "Png" /\ Png!Next
     /\ UNCHANGED <<size_leanified, flags, zip, i, rdb, entries, swf, stack, trees, exe>>
  \/ /\ format = "Lua" /\ Lua!Next
     /\ UNCHANGED <<size_leanified, flags, zip, i, rdb, entries, swf, idat_addr, trees, exe>>
  \/ /\ \/ format = "DataURI" /\ Embedded!NextDataURI
        \/ format = "Vcf" /\ Embedded!NextVcf
        \/ format = "Mime" /\ Embedded!NextMime
     /\ UNCHANGED <<size_leanified, flags, zip, i, rdb, entries, swf, idat_addr, stack, trees, exe>>
  \/ /\ \/ format = "Xml" /\ Xml!Next /\ UNCHANGED <<doc, nodes>>
        \/ format = "Json" /\ Json!Next /\ UNCHANGED <<removed, leaner, visited>>
     /\ UNCHANGED <<p_write, size_leanified, flags, zip, i, rdb, entries, swf, idat_addr, stack, exe>>
  \/ /\ format = "Pe" /\ Pe!Next
     /\ UNCHANGED <<p_write, size_leanified, flags, zip, rdb, entries, swf, idat_addr, stack, trees>>

Next == Leanify /\ UNCHANGED format

Spec == Init /\ [][Next]_vars

(* Leanify runs to its end.                                                *)
FairSpec == Spec /\ WF_vars(Next)

-----------------------------------------------------------------------------
(* Properties.  Those of all formats, UnreadIntact and InItsRegion, are in *)
(* Format; what a file means differs from format to format.                *)

(* Every call comes to an end: each loop, and the search that goes back    *)
(* over what only looks like the end of a directory (zip.cpp:152), gets on *)
(* with each step.                                                         *)
Ends == <>(pc = "done")

(* The loop over an archive reads behind it only if it has no end.         *)
EndsInTime == format = "Tar" => Tar!EndsInTime

(* README.md:4: each format keeps what the file means.                     *)
SameMembers == format = "Tar" => Tar!SameMembers
SameContents == format = "Gz" => Gz!SameContents
SameEntries == format = "Zip" => Zip!SameEntries
SameFiles == format = "Rdb" => Rdb!SameFiles
SameImages == format = "Ico" => Ico!SameImages
SameTags == format = "Swf" => Swf!SameTags
SameChunks == format = "Png" => Png!SameChunks
SameProgram == format = "Lua" => Lua!SameProgram
SameText == format \in {"DataURI", "Vcf", "Mime"} => Embedded!SameText
SameDocument == format = "Xml" => Xml!SameDocument
SameNumbers == format = "Json" => Json!SameNumbers
SameImage == format = "Pe" => Pe!SameImage

(* README.md:4, gft.cpp:10-25, format.h:19-26: behind the header of a GFT  *)
(* file there is the same image, leanified; what is not supported stays as *)
(* it is.                                                                  *)
SameRest ==
  pc = "done" /\ format \in {"Format", "Gft"} =>
    LET h == IF format = "Gft" /\ IsGft THEN header_size ELSE Len(file)
    IN  /\ h <= size /\ Cells(mem, fp_w, h) = Cells(file, 1, h)
        /\ IsLeanOf(Cells(mem, fp_w + h, size - h), Cells(file, h + 1, Len(file) - h))
=============================================================================
