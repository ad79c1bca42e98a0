--------------------------------- MODULE Pe ---------------------------------
(***************************************************************************)
(* Pe::Leanify (pe.cpp): the headers of an executable are moved together,  *)
(* the relocation table is taken out, the resources are leanified and      *)
(* moved together, and all places that the headers speak of are corrected. *)
(*                                                                         *)
(* An executable is <<"MZ", offset of the PE header>>, a stub, the cells   *)
(* <<"PE", h>> (image_file_header), <<"optional", h>> (optional_header)    *)
(* with the data directories, and <<"section", h>> for each section, where *)
(* h is a record with the fields of the code.  In the resources a          *)
(* directory is <<"directory", n>> and n cells <<"entry", offset,          *)
(* DataIsDirectory, Name>>; an entry of data is <<"data entry",            *)
(* OffsetToData, Size>>, and OffsetToData is a virtual address.            *)
(***************************************************************************)
EXTENDS Format, SequencesExt

CONSTANTS
  Zero,     \* a cell that is 0
  Word      \* what resources are aligned to

VARIABLES
  pe,             \* the local variables of Leanify and the members of Pe
  rsrc_data,      \* rsrc_data_
  i               \* sections or resources that are done

locals == <<pe, rsrc_data, i>>
vars == <<call, mem, p_read, pc, size, locals>>

RoundUp(n, align) == ((n + align - 1) \div align) * align

pe_header_offset == file[1][2]
new_pe_header_offset == 1     \* 0x10
DosHeader == 2                \* 0x40

(* The PE header begins inside the DOS header.                             *)
Overlaps == pe_header_offset < DosHeader

TableEnd == pe_header_offset + 2 + file[pe_header_offset + 1][2].NumberOfSections

IsPe ==
  /\ pe_header_offset + 2 <= Len(file)
  /\ file[pe_header_offset + 1][1] = "PE" /\ file[pe_header_offset + 2][1] = "optional"
  /\ TableEnd <= Len(file)
  /\ LET h == file[pe_header_offset + 2][2]
     IN  h.FileAlignment # 0 /\ h.SectionAlignment # 0 /\ ~ h.IsDriver

(* A PE header that begins inside the DOS header of a file with room in    *)
(* front is not considered: optional_header goes on pointing to where it   *)
(* was, which other parts of the file are moved to (pe.cpp:76-80).         *)
IsConsidered(c) == c[1][1][2] < DosHeader => c[2].room = 0

Start == pe = <<>> /\ rsrc_data = <<>> /\ i = 0
Init == Called /\ Start

NotPe ==
  /\ pc = "start" /\ ~ IsPe
  /\ MovedAsItIs /\ UNCHANGED locals

(* The headers go to the front, and the PE header into the DOS header if   *)
(* it is not there yet.                                                    *)
HeadersMoved ==
  IF Overlaps
  THEN MemMove(mem, fp_w, fp, file[pe_header_offset + 2][2].SizeOfHeaders)
  ELSE Put(MemMove(mem, fp_w + new_pe_header_offset, fp + pe_header_offset,
                   TableEnd - pe_header_offset),
           fp_w, <<<<"MZ", new_pe_header_offset>>>>)

MoveHeaders ==
  LET at == IF Overlaps THEN pe_header_offset ELSE new_pe_header_offset
      h == file[pe_header_offset + 2][2]
  IN  /\ pc = "start" /\ IsPe
      /\ mem' = [HeadersMoved EXCEPT
                   ![fp_w + at][2].IsStripped = @ \/ ~ file[pe_header_offset + 1][2].IsDll]
      /\ pe' = [image_file_header |-> fp_w + at,
                optional_header |-> (IF Overlaps THEN fp ELSE fp_w) + at + 1,
                total_header_size |-> TableEnd - (pe_header_offset - at),
                correct_size_of_headers |-> h.SizeOfHeaders,
                header_size_aligned |-> 0, header_size_leanified |-> 0,
                pe_size_leanified |-> 0,
                reloc_virtual_address |-> h.reloc.VirtualAddress,
                reloc_raw_offset |-> 0, reloc_raw_size |-> 0,
                rsrc_virtual_address |-> h.rsrc.VirtualAddress, rsrc_virtual_size |-> 0,
                rsrc_raw_offset |-> 0, rsrc_raw_size |-> 0, rsrc_size_leanified |-> 0,
                old_end |-> 0, last_end |-> 0]
      /\ p_read' = fp + TableEnd
      /\ pc' = "sections"
      /\ UNCHANGED <<call, size, rsrc_data, i>>

-----------------------------------------------------------------------------
image_file_header == mem[pe.image_file_header][2]
optional_header == mem[pe.optional_header][2]
section_table == pe.optional_header + 1
Section == mem[section_table + i][2]

InTable == pc = "sections" /\ i < image_file_header.NumberOfSections

IsReloc == pe.reloc_virtual_address # 0 /\ Section.VirtualAddress = pe.reloc_virtual_address
IsRsrc == /\ ~ IsReloc
          /\ pe.rsrc_virtual_address # 0 /\ Section.VirtualAddress = pe.rsrc_virtual_address

(* The headers end where the data of a section begins, if that is earlier  *)
(* than they say.  When the first section was removed it is not a section  *)
(* that is looked at, but the data directories in front of the table       *)
(* (pe.cpp:133, pe.cpp:143).                                               *)
HeadersEnd(m, k) ==
  LET s == IF k >= 0 THEN m[section_table + k][2]
           ELSE [PointerToRawData |-> optional_header.delay.Size,
                 SizeOfRawData |-> optional_header.delay.VirtualAddress]
  IN  IF s.PointerToRawData < pe.correct_size_of_headers /\ s.SizeOfRawData # 0
      THEN s.PointerToRawData ELSE pe.correct_size_of_headers

RemoveReloc ==
  LET n == image_file_header.NumberOfSections - 1
      m == MemMove(mem, section_table + i, section_table + i + 1, n - i)
  IN  /\ InTable /\ IsReloc /\ image_file_header.IsStripped
      /\ mem' = [m EXCEPT ![pe.image_file_header][2].NumberOfSections = n,
                          ![pe.optional_header][2].reloc = [VirtualAddress |-> 0, Size |-> 0]]
      /\ pe' = [pe EXCEPT !.reloc_raw_offset = Section.PointerToRawData,
                          !.reloc_raw_size = Section.SizeOfRawData,
                          !.total_header_size = @ - 1,
                          !.correct_size_of_headers = HeadersEnd(m, i - 1)]
      /\ UNCHANGED <<call, p_read, pc, size, rsrc_data, i>>

FoundRsrc ==
  [pe EXCEPT !.rsrc_raw_offset = Section.PointerToRawData,
             !.rsrc_raw_size = Section.SizeOfRawData,
             !.rsrc_virtual_size = Section.VirtualSize]

ReadSection ==
  /\ InTable /\ ~ (IsReloc /\ image_file_header.IsStripped)
  /\ pe' = [IF IsRsrc THEN FoundRsrc ELSE pe EXCEPT
              !.correct_size_of_headers = HeadersEnd(mem, i)]
  /\ i' = i + 1
  /\ UNCHANGED <<call, mem, p_read, pc, size, rsrc_data>>

(* How large the headers have to be is settled.                            *)
ShrinkHeaders ==
  LET total == pe.total_header_size
      correct == IF pe.correct_size_of_headers > size THEN size ELSE pe.correct_size_of_headers
      aligned == RoundUp(total, optional_header.FileAlignment)
      header_size_aligned == IF total <= correct /\ correct < aligned THEN correct ELSE aligned
      header_size_leanified == IF aligned < correct THEN correct - aligned ELSE 0
      m == IF aligned < correct
           THEN [mem EXCEPT ![pe.optional_header][2].SizeOfHeaders = aligned] ELSE mem
  IN  /\ pc = "sections" /\ i >= image_file_header.NumberOfSections
      /\ mem' = IF Overlaps THEN m
                ELSE MemSet(m, fp_w + total, Zero, header_size_aligned - total)
      /\ pe' = [pe EXCEPT !.correct_size_of_headers = correct,
                          !.header_size_aligned = header_size_aligned,
                          !.header_size_leanified = header_size_leanified,
                          !.pe_size_leanified = header_size_leanified]
      /\ p_read' = fp + header_size_aligned + header_size_leanified
      /\ pc' = IF pe.rsrc_raw_size # 0 THEN "traverse" ELSE "move"
      /\ UNCHANGED <<call, size, rsrc_data, i>>

-----------------------------------------------------------------------------
reloc_virtual_size == RoundUp(pe.reloc_raw_size, optional_header.SectionAlignment)
reloc_end == pe.reloc_raw_offset + pe.reloc_raw_size
rsrc == fp + pe.rsrc_raw_offset      \* rsrc_

(* The entries of data below the directory at p, in the order of           *)
(* TraverseRSRC: where they are, and where the entries are that point to   *)
(* them.  The first entry that points out of the section ends a directory. *)
Found ==
  LET found[p \in DOMAIN mem] ==
        LET n == mem[p][2]
            good == {k \in 0..n : \A j \in 1..k : mem[p + j][2] <= pe.rsrc_raw_size}
            Below(k) == IF mem[p + k][3] THEN found[rsrc + mem[p + k][2]]
                        ELSE <<[entry |-> rsrc + mem[p + k][2], dir_entry |-> p + k]>>
        IN  FlattenSeq([k \in 1 .. CHOOSE k \in good : \A j \in good : j <= k |-> Below(k)])
  IN  found[rsrc]

(* Each time an entry is found it is moved.                                *)
EntriesMoved(found, move_size) ==
  [x \in DOMAIN mem |->
     LET n == Cardinality({k \in DOMAIN found : found[k].entry = x})
     IN  IF n = 0 THEN mem[x] ELSE [mem[x] EXCEPT ![2] = @ - n * move_size]]

IsRSRCValid(m, data, rva) ==
  \A k \in DOMAIN data :
    LET e == m[data[k].entry]
    IN  /\ e[2] \in rva .. rva + pe.rsrc_virtual_size
        /\ e[2] - rva + e[3] <= pe.rsrc_raw_size
        /\ k > 1 => m[data[k - 1].entry][2] + m[data[k - 1].entry][3] <= e[2]

(* How far the resources move when the section of the relocation table in  *)
(* front of them is removed.                                               *)
MoveSize == IF pe.rsrc_virtual_address > pe.reloc_virtual_address THEN reloc_virtual_size ELSE 0

TraverseRSRC ==
  /\ pc = "traverse"
  /\ \E found \in {Found} : \E m \in {EntriesMoved(found, MoveSize)} :
       \E data \in {SortSeq(found, LAMBDA a, b : m[a.entry][2] < m[b.entry][2])} :
         LET rva == pe.rsrc_virtual_address - MoveSize
             valid == data # <<>> /\ IsRSRCValid(m, data, rva)
             last == m[data[Len(data)].entry]
         IN  /\ mem' = m
             /\ rsrc_data' = data
             /\ pe' = [pe EXCEPT !.rsrc_virtual_address = rva,
                                 !.old_end = IF valid THEN last[2] + last[3] ELSE 0,
                                 !.last_end = IF valid THEN m[data[1].entry][2] ELSE 0]
             /\ pc' = IF valid THEN "front" ELSE "move"
  /\ p_read' = rsrc + pe.rsrc_raw_size
  /\ i' = 0
  /\ UNCHANGED <<call, size>>

(* memmove; what it reads behind the file may be anything.                 *)
Moved(m, dst, src, n) ==
  [x \in DOMAIN m |-> IF x \notin dst .. dst + n - 1 THEN m[x]
                      ELSE IF x - dst + src \in DOMAIN m THEN m[x - dst + src] ELSE Junk]

(* No resources, or some that had better be left alone: but for the        *)
(* relocation table all is moved.                                          *)
MoveSections ==
  LET at == pe.header_size_aligned
      shift == pe.pe_size_leanified
      reloc == pe.reloc_raw_offset
  IN  /\ pc = "move"
      /\ mem' = IF pe.reloc_raw_size = 0
                THEN MemMove(mem, at, fp + at + shift, size - at - shift)
                ELSE Moved(Moved(mem, at, fp + at + shift, reloc - at),
                           reloc - shift, fp + reloc_end, size - reloc)
      /\ pe' = [pe EXCEPT !.pe_size_leanified = @ + pe.reloc_raw_size]
      /\ p_read' = End
      /\ pc' = "headers"
      /\ UNCHANGED <<call, size, rsrc_data, i>>

(* All that is in front of the first resource is moved.                    *)
MoveFront ==
  LET at == pe.header_size_aligned
      shift == pe.pe_size_leanified
      reloc == pe.reloc_raw_offset
      first == pe.rsrc_raw_offset + pe.last_end - pe.rsrc_virtual_address
  IN  /\ pc = "front"
      /\ IF pe.reloc_raw_size # 0 /\ reloc < pe.rsrc_raw_offset
         THEN /\ mem' = MemMove(MemMove(mem, at, fp + at + shift, reloc - at - shift),
                                reloc - shift, fp + reloc_end, first - reloc_end)
              /\ pe' = [pe EXCEPT !.pe_size_leanified = @ + pe.reloc_raw_size]
         ELSE /\ mem' = MemMove(mem, at, fp + at + shift, first - shift - at)
              /\ UNCHANGED pe
      /\ pc' = "resources"
      /\ UNCHANGED <<call, p_read, size, rsrc_data, i>>

-----------------------------------------------------------------------------
(* Where the virtual address a of the resources is in the file.            *)
At(a) == fp + pe.rsrc_raw_offset + a - pe.rsrc_virtual_address

(* How far the file was moved so far, and so the directories.              *)
Shift == pe.pe_size_leanified + fp

(* Resources that are aligned stay aligned.                                *)
Gap(offset, end) == IF offset % Word = 0 THEN RoundUp(end, Word) - end ELSE 0

(* The next resource is leanified.  If its entry is right in front of it,  *)
(* the entry is moved too.                                                 *)
LeanifyResource ==
  /\ pc = "resources" /\ i < Len(rsrc_data)
  /\ \E res \in {rsrc_data[i + 1]} :
       LET entry_offset == res.entry - rsrc + pe.rsrc_virtual_address
           near == entry_offset >= pe.last_end /\ entry_offset < mem[res.entry][2]
           diff == IF near THEN entry_offset - pe.last_end ELSE 0
           m == IF near
                THEN [Put(mem, At(pe.last_end) - Shift, <<mem[res.entry]>>)
                        EXCEPT ![res.dir_entry - Shift][2] = @ - diff]
                ELSE mem
           entry == res.entry - diff - Shift
       IN  \E offset \in {m[entry][2]}, n \in {m[entry][3]},
              end \in {IF near THEN entry_offset + 1 ELSE pe.last_end} :
             \E to \in {end + Gap(offset, end)}, r \in FileSizes(n) :
               /\ mem' = Put(FileLeanified(MemSet(m, At(end) - Shift, Zero, to - end),
                                           At(offset), n, offset - to + Shift, r),
                             entry, <<<<"data entry", to, r>>>>)
               /\ pe' = [pe EXCEPT !.last_end = to + r]
  /\ i' = i + 1
  /\ UNCHANGED <<call, p_read, pc, size, rsrc_data>>

IatInRsrc ==
  LET d == optional_header.import
  IN  /\ d.VirtualAddress > pe.rsrc_virtual_address
      /\ d.VirtualAddress + d.Size <= pe.rsrc_virtual_address + pe.rsrc_raw_size

(* Behind the last resource: the section becomes smaller unless there is   *)
(* something else in it, and what follows is moved.                        *)
EndResources ==
  LET Aligned(n) == RoundUp(n, optional_header.FileAlignment)
      shift == pe.pe_size_leanified
      new_end == pe.rsrc_raw_offset + pe.last_end - pe.rsrc_virtual_address
      left == pe.old_end - pe.last_end       \* rsrc_size_leanified
      rsrc_end == pe.rsrc_raw_offset + pe.rsrc_raw_size
      shrinks == /\ Aligned(new_end) <= rsrc_end /\ Aligned(new_end + left) = rsrc_end
                 /\ ~ IatInRsrc
      filled == MemSet(mem, fp_w + new_end - shift, Zero, left)
      reloc == pe.reloc_raw_offset
      isBehind == pe.reloc_raw_size # 0 /\ reloc > pe.rsrc_raw_offset
  IN  /\ pc = "resources" /\ i = Len(rsrc_data)
      /\ \E keep \in {IF shrinks THEN Aligned(new_end) ELSE rsrc_end} :
         \E less \in {shift + rsrc_end - keep},
            kept \in {MemMove(filled, fp_w + new_end + left - shift, fp + new_end + left,
                              keep - new_end - left)} :
           /\ mem' = IF isBehind
                     THEN MemMove(MemMove(kept, rsrc_end - less, fp + rsrc_end, reloc - rsrc_end),
                                  reloc - less, fp + reloc_end, size - reloc_end)
                     ELSE MemMove(kept, rsrc_end - less, fp + rsrc_end, size - rsrc_end)
           /\ pe' = [pe EXCEPT
                       !.rsrc_virtual_size = IF shrinks THEN new_end - pe.rsrc_raw_offset ELSE @,
                       !.rsrc_size_leanified = rsrc_end - keep,
                       !.rsrc_raw_size = IF shrinks THEN keep - pe.rsrc_raw_offset ELSE @,
                       !.pe_size_leanified = less + IF isBehind THEN pe.reloc_raw_size ELSE 0]
      /\ p_read' = End
      /\ pc' = "headers"
      /\ UNCHANGED <<call, size, rsrc_data, i>>

-----------------------------------------------------------------------------
(* By how much less memory the resources take.                             *)
rsrc_decrease_size ==
  LET align == optional_header.SectionAlignment
      less == RoundUp(optional_header.rsrc.Size, align) - RoundUp(pe.rsrc_virtual_size, align)
  IN  IF less < 0 THEN 0 ELSE less

Address(a) == a - IF a > pe.reloc_virtual_address THEN reloc_virtual_size ELSE 0

(* fault: what the headers shrank by is forgotten.                         *)
Pointer_NoHeaders(p) ==
  LET Less(q, place, n) == IF q > place THEN q - n ELSE q
  IN  Less(Less(p, pe.reloc_raw_offset, pe.reloc_raw_size),
           pe.rsrc_raw_offset, pe.rsrc_size_leanified)

Pointer(p) ==
  LET Less(q, place, n) == IF q > place THEN q - n ELSE q
  IN  Less(Less(Less(p, pe.reloc_raw_offset, pe.reloc_raw_size),
                pe.rsrc_raw_offset, pe.rsrc_size_leanified),
           pe.header_size_aligned, pe.header_size_leanified)

SectionUpdated(s) ==
  LET a == Address(s.VirtualAddress)
      isRsrc == a = pe.rsrc_virtual_address
  IN  [s EXCEPT
         !.VirtualAddress = IF a > pe.rsrc_virtual_address THEN a - rsrc_decrease_size ELSE a,
         !.SizeOfRawData = IF isRsrc THEN pe.rsrc_raw_size ELSE @,
         !.VirtualSize = IF isRsrc THEN pe.rsrc_virtual_size ELSE @,
         !.PointerToRawData = Pointer(@)]

DirectoryUpdated(d) ==
  LET a == Address(d.VirtualAddress)
      end == pe.rsrc_virtual_address
               + RoundUp(pe.rsrc_virtual_size, optional_header.SectionAlignment)
  IN  [d EXCEPT !.VirtualAddress = IF a >= end THEN a - rsrc_decrease_size ELSE a]

HeaderUpdated(h) ==
  LET rsrcDirectory == DirectoryUpdated(h.rsrc)
  IN  [h EXCEPT
         !.SizeOfImage = @ - (reloc_virtual_size + rsrc_decrease_size),
         !.import = DirectoryUpdated(@),
         !.reloc = DirectoryUpdated(@),
         !.delay = DirectoryUpdated(@),
         !.rsrc = IF h.rsrc.Size > pe.rsrc_virtual_size
                  THEN [rsrcDirectory EXCEPT !.Size = pe.rsrc_virtual_size] ELSE rsrcDirectory]

UpdateHeaders ==
  LET table == section_table .. section_table + image_file_header.NumberOfSections - 1
  IN  /\ pc = "headers"
      /\ mem' = [x \in DOMAIN mem |->
                   IF x \in table THEN <<"section", SectionUpdated(mem[x][2])>>
                   ELSE IF x = pe.optional_header
                   THEN <<"optional", HeaderUpdated(optional_header)>> ELSE mem[x]]
      /\ size' = size - pe.pe_size_leanified
      /\ pc' = "done"
      /\ UNCHANGED <<call, p_read, locals>>

Next == \/ NotPe \/ MoveHeaders \/ RemoveReloc \/ ReadSection \/ ShrinkHeaders
        \/ TraverseRSRC \/ MoveSections \/ MoveFront \/ LeanifyResource \/ EndResources \/ UpdateHeaders

Spec == Init /\ [][Next]_vars

-----------------------------------------------------------------------------
(* Properties.                                                             *)

(* What s is to the loader of the system: ...                              *)
Image(s) ==
  LET at == s[1][2] + 1
  IN  [file |-> s[at][2], header |-> s[at + 1][2],
       sections |-> [k \in 1 .. s[at][2].NumberOfSections |-> s[at + 1 + k][2]],
       cells |-> s]

(* ... what is in a section, ...                                           *)
Contents(im, s) ==
  SubSeq(im.cells, s.PointerToRawData + 1, s.PointerToRawData + s.SizeOfRawData)

(* ... the names and the data below a directory of its resources, s, ...   *)
Resources(im, s) ==
  LET c == Contents(im, s)
      below[p \in DOMAIN c] ==
        LET Named(k) ==
              LET e == c[p + k]
                  d == c[e[2] + 1]
                  from == d[2] - s.VirtualAddress
              IN  IF e[3] THEN [j \in DOMAIN below[e[2] + 1] |->
                                  [below[e[2] + 1][j] EXCEPT !.name = <<e[4]>> \o @]]
                  ELSE <<[name |-> <<e[4]>>, data |-> SubSeq(c, from + 1, from + d[3]),
                          isAligned |-> d[2] % Word = 0]>>
        IN  FlattenSeq([k \in 1 .. c[p][2] |-> Named(k)])
  IN  below[1]

(* ... where the data directory d is, ...                                  *)
Place(im, d) ==
  {<<s.name, d.VirtualAddress - s.VirtualAddress,
     SubSeq(Contents(im, s), d.VirtualAddress - s.VirtualAddress + 1,
            d.VirtualAddress - s.VirtualAddress + d.Size)>> :
     s \in {im.sections[k] : k \in {k \in DOMAIN im.sections :
              /\ d.VirtualAddress >= im.sections[k].VirtualAddress
              /\ d.VirtualAddress < im.sections[k].VirtualAddress + im.sections[k].VirtualSize}}}

(* ... what follows the sections, ...                                      *)
Rest(im) ==
  LET ends == {im.header.SizeOfHeaders}
                \cup {im.sections[k].PointerToRawData + im.sections[k].SizeOfRawData :
                        k \in DOMAIN im.sections}
      end == CHOOSE e \in ends : \A f \in ends : f <= e
  IN  SubSeq(im.cells, end + 1, Len(im.cells))

(* ... and whether it can be loaded: the sections follow each other in     *)
(* memory, and their data are behind the headers.                          *)
IsLoadable(im) ==
  LET n == Len(im.sections)
      End_(k) == im.sections[k].VirtualAddress
                   + RoundUp(im.sections[k].VirtualSize, im.header.SectionAlignment)
  IN  /\ \A k \in 1 .. n - 1 : im.sections[k + 1].VirtualAddress = End_(k)
      /\ n > 0 => im.header.SizeOfImage = End_(n)
      /\ im.header.SizeOfHeaders >= im.cells[1][2] + 2 + n
      /\ \A k \in 1..n : LET s == im.sections[k]
                         IN  s.SizeOfRawData > 0 => /\ s.PointerToRawData >= im.header.SizeOfHeaders
                                                    /\ s.PointerToRawData + s.SizeOfRawData <= Len(im.cells)

IsRelocOf(im, s) ==
  /\ ~ im.file.IsDll \/ im.file.IsStripped
  /\ im.header.reloc.VirtualAddress # 0 /\ s.VirtualAddress = im.header.reloc.VirtualAddress

(* README.md:4, README.md:138-147, pe.cpp:30-385: what can be loaded can   *)
(* be loaded afterwards, from the same sections but for the relocation     *)
(* table, with the same data in the same places of them; each resource is  *)
(* found under its name, as it was or leanified, and where it was aligned  *)
(* it still is.  What follows the sections stays.                          *)
SameImage ==
  pc = "done" =>
    LET new == Cells(mem, fp_w, size)
        was == Image(file)
        is == Image(new)
        kept == SelectSeq(was.sections, LAMBDA s : ~ IsRelocOf(was, s))
    IN  IF ~ IsPe THEN new = file
        ELSE /\ IsLoadable(is)
             /\ Len(is.sections) = Len(kept)
             /\ \A k \in DOMAIN kept :
                  /\ is.sections[k].name = kept[k].name
                  /\ \/ Contents(is, is.sections[k]) = Contents(was, kept[k])
                     \/ /\ kept[k].VirtualAddress = was.header.rsrc.VirtualAddress
                        /\ LET a == Resources(was, kept[k])
                               b == Resources(is, is.sections[k])
                           IN  /\ Len(a) = Len(b)
                               /\ \A j \in DOMAIN a :
                                    /\ b[j].name = a[j].name
                                    /\ IsLeanOf(b[j].data, a[j].data)
                                    /\ a[j].isAligned => b[j].isAligned
             /\ Place(is, is.header.import) = Place(was, was.header.import)
             /\ Place(is, is.header.delay) = Place(was, was.header.delay)
             /\ {p[1] : p \in Place(is, is.header.rsrc)} = {p[1] : p \in Place(was, was.header.rsrc)}
             /\ Rest(is) = Rest(was)
=============================================================================
