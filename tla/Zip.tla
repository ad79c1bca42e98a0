-------------------------------- MODULE Zip ---------------------------------
(***************************************************************************)
(* Zip::Leanify (zip.cpp): the directory of an archive is looked for from  *)
(* its end; then the entries are gone through in the order they lie in the *)
(* file, leanified, and moved to the front of the buffer, and a new        *)
(* directory is written behind them.                                       *)
(*                                                                         *)
(* A local header and its name are one cell, <<"local", fields>>, and so   *)
(* are a header of the directory, <<"cd", fields>>, and the record at its  *)
(* end, <<"eocd", fields>>.  Extra fields and comments are cells behind    *)
(* them.  The checksum of some cells is these cells.  The k-th of n cells  *)
(* of compressed data is <<"deflate", contents, k, n>>.                    *)
(***************************************************************************)
EXTENDS Format, SequencesExt

VARIABLES
  p_end,       \* end of what was searched for the end of the directory
  cd_headers,  \* the headers of the directory
  base_offset, \* what their offsets are relative to
  next,        \* the number of the next of them
  p_write,
  cd_offset    \* where the new directory begins

search == <<p_end, base_offset>>
output == <<cd_headers, next, p_write, cd_offset>>
locals == <<search, output>>
vars == <<call, mem, p_read, pc, size, locals>>

Is(tag, p) == p \in 0 .. Len(file) - 1 /\ file[p + 1][1] = tag
At(p) == file[p + 1][2]

(* The first local header; what lies before it is kept.                    *)
LocalHeaders == {p \in 0 .. Len(file) - 1 : Is("local", p)}
zip_offset == CHOOSE p \in LocalHeaders : \A q \in LocalHeaders : p <= q

Start ==
  /\ p_end = Len(file)
  /\ cd_headers = <<>> /\ base_offset = 0 /\ next = 1
  /\ p_write = fp_w /\ cd_offset = 0
Init == Called /\ Start

-----------------------------------------------------------------------------
(* The directory.                                                          *)

(* Offsets may be relative to the first local header.                      *)
BaseOffset(eocd) ==
  IF eocd.num_records = 0 \/ Is("cd", eocd.cd_offset) THEN 0 ELSE zip_offset

(* Where its headers are, and behind them where the last one ends.         *)
CDPositions(eocd) ==
  LET p[i \in 1 .. eocd.num_records + 1] ==
        IF i = 1 THEN BaseOffset(eocd) + eocd.cd_offset
        ELSE p[i - 1] + 1 + (IF Is("cd", p[i - 1]) THEN At(p[i - 1]).extra ELSE 0)
  IN  p

(* What GetCDHeaders returns if all is well, in the order of the entries.  *)
CDHeaders(eocd) ==
  SortSeq([i \in 1 .. eocd.num_records |-> At(CDPositions(eocd)[i])],
          LAMBDA a, b : a.offset < b.offset)

(* GetCDHeaders checks that each header is there, with a local header of   *)
(* the same name, and that entries do not overlap.                         *)
IsDirectory(eocd) ==
  LET base == BaseOffset(eocd)
      p == CDPositions(eocd)
      cd_end == base + eocd.cd_offset + eocd.cd_size
  IN  /\ cd_end <= Len(file)
      /\ \A i \in 1 .. eocd.num_records :
           /\ Is("cd", p[i]) /\ p[i + 1] <= cd_end
           /\ LET h == At(p[i])
                  local == base + h.offset
              IN  /\ local + 1 + h.csize <= Len(file)
                  /\ Is("local", local) /\ At(local).name = h.name
      /\ LET s == CDHeaders(eocd)
         IN  \A i \in 2 .. Len(s) : s[i - 1].offset + 1 + s[i - 1].csize <= s[i].offset

(* The last record in front of p_end that looks like the end of one.       *)
EOCDs == {p \in 0 .. p_end - 1 : Is("eocd", p)}
p_eocd == CHOOSE p \in EOCDs : \A q \in EOCDs : q <= p

IsEOCD(p) == At(p).cd_offset + At(p).cd_size <= p /\ IsDirectory(At(p))

(* Not an archive after all: Format::Leanify moves it as it is.            *)
NotFound ==
  /\ pc = "start" /\ (LocalHeaders = {} \/ EOCDs = {})
  /\ MovedAsItIs /\ UNCHANGED locals

(* fault: the search goes on with the bytes it just looked at.             *)
GoBack_Nowhere == p_end' = p_end

GoBack == p_end' = p_eocd

InvalidEOCD ==
  /\ pc = "start" /\ LocalHeaders # {} /\ EOCDs # {} /\ ~ IsEOCD(p_eocd)
  /\ GoBack
  /\ UNCHANGED <<call, mem, p_read, pc, size, base_offset, output>>

(* Where entry k begins, behind base, if there is one.                     *)
EntryAt(base, headers, k) ==
  IF k <= Len(headers) THEN fp + base + headers[k].offset ELSE End

(* The directory is read and what lies before the first entry is moved.    *)
ReadDirectory ==
  /\ pc = "start" /\ LocalHeaders # {} /\ EOCDs # {} /\ IsEOCD(p_eocd)
  /\ cd_headers' = CDHeaders(At(p_eocd))
  /\ base_offset' = BaseOffset(At(p_eocd))
  /\ mem' = MemMove(mem, fp_w, fp, zip_offset)
  /\ p_write' = fp_w + zip_offset
  /\ p_read' = EntryAt(base_offset', cd_headers', 1)
  /\ pc' = "entries"
  /\ UNCHANGED <<call, size, p_end, next, cd_offset>>

-----------------------------------------------------------------------------
(* The entries.                                                            *)

fp_w_base == fp_w + base_offset

(* fault: offsets are taken from the front of the file.                    *)
NewOffset_NoBase == p_write - fp_w

NewOffset == p_write - fp_w_base

Entry == pc = "entries" /\ next <= Len(cd_headers)

(* The local header is moved.  Its extra field is skipped, and with a data *)
(* descriptor its sizes are taken from the directory.                      *)
LocalHeader ==
  LET h == mem[p_read][2]
      cd == cd_headers[next]
      known == IF h.dd THEN [h EXCEPT !.dd = FALSE, !.crc = cd.crc, !.csize = cd.csize,
                                      !.usize = cd.usize]
               ELSE h
  IN  [known EXCEPT !.extra = 0]

CDHeader ==
  LET cd == cd_headers[next]
  IN  [cd EXCEPT !.offset = NewOffset, !.dd = @ /\ ~ mem[p_read][2].dd]

HeaderMoved == Put(mem, p_write, <<<<"local", LocalHeader>>>>)
p_data == p_read + 1 + mem[p_read][2].extra
Data == Cells(mem, p_data, LocalHeader.csize)

NextEntry ==
  /\ next' = next + 1
  /\ p_read' = EntryAt(base_offset, cd_headers, next')
  /\ UNCHANGED <<call, pc, size, search, cd_offset>>

(* The next entry is left with these fields in both headers and with n     *)
(* cells of data.                                                          *)
Leave(m, n, method, csize, usize, crc) ==
  LET New(h) == [h EXCEPT !.method = method, !.csize = csize, !.usize = usize, !.crc = crc]
  IN  /\ mem' = Put(m, p_write, <<<<"local", New(LocalHeader)>>>>)
      /\ cd_headers' = [cd_headers EXCEPT ![next] = New(CDHeader)]
      /\ p_write' = p_write + 1 + n
      /\ NextEntry

(* The data is moved, and the fields of both headers stay as they are.     *)
MoveData ==
  /\ mem' = MemMove(HeaderMoved, p_write + 1, p_data, LocalHeader.csize)
  /\ cd_headers' = [cd_headers EXCEPT ![next] = CDHeader]
  /\ p_write' = p_write + 1 + LocalHeader.csize
  /\ NextEntry

Fits == p_data + LocalHeader.csize <= fp + p_end

(* The data does not fit: the loop is left, and the directory is written.  *)
TooLarge ==
  /\ Entry /\ ~ Fits
  /\ mem' = HeaderMoved
  /\ cd_headers' = [cd_headers EXCEPT ![next] = CDHeader]
  /\ p_write' = p_write + 1
  /\ cd_offset' = p_write' - fp_w_base
  /\ next' = 1
  /\ p_read' = End
  /\ pc' = "directory"
  /\ UNCHANGED <<call, size, search>>

EmptyStored ==
  /\ Entry /\ Fits /\ LocalHeader.method = "store" /\ LocalHeader.csize = 0
  /\ MoveData

Deflate(s, n) == [k \in 1..n |-> <<"deflate", s, k, n>>]

(* A stored file is leanified where it is, and compressed only if it must. *)
LeanifyStored ==
  /\ Entry /\ Fits /\ LocalHeader.method = "store" /\ Data # <<>>
  /\ \E data \in {Data} : \E r \in 0 .. Len(data) : \E s \in {Lean(data, r)} :
       LET m == Leanified(HeaderMoved, p_data, Len(data), p_data - p_write - 1, s)
       IN  \/ ~ setting.force_deflate /\ Leave(m, r, "store", r, r, s)
           \/ /\ setting.force_deflate
              /\ \E n \in 1 .. r + 1 : IF n < r
                   THEN Leave(Put(m, p_write + 1, Deflate(s, n)), n, "deflate", n, r, s)
                   ELSE Leave(m, r, "store", r, r, s)

MoveEntry ==
  /\ Entry /\ Fits /\ LocalHeader.method # "store"
  /\ LocalHeader.method # "deflate" \/ setting.is_fast \/ LocalHeader.enc
  /\ MoveData

(* A compressed file that is to be unpacked.                               *)
Compressed ==
  /\ Entry /\ Fits /\ LocalHeader.method = "deflate"
  /\ ~ setting.is_fast /\ ~ LocalHeader.enc

(* Only the method and the compressed size are written to both headers.    *)
EmptyCompressed ==
  LET Stored(h) == [h EXCEPT !.method = "store", !.csize = 0]
  IN  /\ Compressed /\ LocalHeader.usize = 0
      /\ mem' = Put(mem, p_write, <<<<"local", Stored(LocalHeader)>>>>)
      /\ cd_headers' = [cd_headers EXCEPT ![next] = Stored(CDHeader)]
      /\ p_write' = p_write + 1
      /\ NextEntry

(* The data is what headers with this size and checksum say.               *)
Inflates(data, h) ==
  /\ data # <<>> /\ data = Deflate(data[1][2], Len(data))
  /\ Len(data[1][2]) = h.usize /\ data[1][2] = h.crc

Corrupted ==
  /\ Compressed /\ LocalHeader.usize > 0 /\ ~ Inflates(Data, LocalHeader)
  /\ MoveData

(* Compressing makes a file of r cells larger, and there is room for it.   *)
StoreBetter(r, n) == r <= n /\ r <= LocalHeader.csize

(* A compressed file is leanified to r cells and compressed to n, which    *)
(* does not count if it is not less than it was.                           *)
Recompress ==
  /\ Compressed /\ LocalHeader.usize > 0 /\ Inflates(Data, LocalHeader)
  /\ \E data \in {Data[1][2]} : \E r \in 0 .. Len(data), n \in 1 .. Len(file) :
       LET s == Lean(data, r)
           Write(cells) == Put(HeaderMoved, p_write + 1, cells)
       IN  \/ StoreBetter(r, n) /\ Leave(Write(s), r, "store", r, r, s)
           \/ /\ ~ StoreBetter(r, n) /\ n < LocalHeader.csize
              /\ Leave(Write(Deflate(s, n)), n, "deflate", n, r, s)
           \/ ~ StoreBetter(r, n) /\ n >= LocalHeader.csize /\ MoveData

EntriesDone ==
  /\ pc = "entries" /\ next > Len(cd_headers)
  /\ cd_offset' = p_write - fp_w_base
  /\ next' = 1
  /\ pc' = "directory"
  /\ UNCHANGED <<call, mem, p_read, size, search, cd_headers, p_write>>

-----------------------------------------------------------------------------
(* The new directory, without extra fields and comments.                   *)

(* The name is copied from where the local header should be.               *)
WriteCDHeader ==
  /\ pc = "directory" /\ next <= Len(cd_headers)
  /\ LET cd == cd_headers[next]
         local == mem[fp_w_base + cd.offset]
         name == IF local[1] = "local" THEN local[2].name ELSE Junk
     IN  mem' = Put(mem, p_write, <<<<"cd", [cd EXCEPT !.extra = 0, !.name = name]>>>>)
  /\ p_write' = p_write + 1
  /\ next' = next + 1
  /\ UNCHANGED <<call, p_read, pc, size, search, cd_headers, cd_offset>>

WriteEOCD ==
  /\ pc = "directory" /\ next > Len(cd_headers)
  /\ mem' = Put(mem, p_write,
                <<<<"eocd", [num_records |-> Len(cd_headers), cd_offset |-> cd_offset,
                             cd_size |-> p_write - fp_w_base - cd_offset]>>>>)
  /\ size' = p_write + 1 - fp_w
  /\ pc' = "done"
  /\ UNCHANGED <<call, p_read, locals>>

Next == \/ NotFound \/ InvalidEOCD \/ ReadDirectory
        \/ TooLarge \/ EmptyStored \/ MoveEntry \/ EmptyCompressed \/ Corrupted
        \/ LeanifyStored \/ Recompress
        \/ EntriesDone \/ WriteCDHeader \/ WriteEOCD

Spec == Init /\ [][Next]_vars

-----------------------------------------------------------------------------
(* Properties.                                                             *)

(* What the header cd of the directory of archive s stands for.            *)
Extract(s, base, cd) ==
  LET p == base + cd.offset + 1
      data == SubSeq(s, p + 1 + s[p][2].extra, p + s[p][2].extra + cd.csize)
  IN  [local |-> s[p][2], data |-> data,
       readable |-> ~ cd.enc /\ \/ cd.method = "store" /\ data = cd.crc
                                \/ cd.method = "deflate" /\ Inflates(data, cd)]

(* An entry whose two headers say the same, but for what LocalHeader makes *)
(* good; what is encrypted is compressed as well.                          *)
Sound(cd, x) ==
  /\ x.local.enc = cd.enc /\ x.local.method = cd.method /\ x.local.dd = cd.dd
  /\ x.local.dd \/ /\ x.local.csize = cd.csize /\ x.local.usize = cd.usize
                   /\ x.local.crc = cd.crc
  /\ cd.enc => cd.method # "store"
  /\ cd.method = "store" => x.readable

(* The same file as before, or what became of it.                          *)
SameFile(cd, x, cd2, y) ==
  /\ y.local.name = x.local.name /\ cd2.name = cd.name
  /\ Sound(cd2, y) /\ ~ cd2.dd /\ y.local.extra = 0
  /\ IF x.readable
     THEN y.readable /\ \E r \in 0 .. cd.usize : cd2.crc = Lean(cd.crc, r)
     ELSE /\ y.data = x.data \/ cd.usize = 0
          /\ cd2.enc = cd.enc /\ cd2.usize = cd.usize /\ cd2.crc = cd.crc
          /\ cd2.method = cd.method \/ cd.usize = 0

(* README.md:4, zip.cpp:171-321: if the two headers of every entry agree,  *)
(* the result begins as the archive did and can be read through its own    *)
(* directory, where every entry is found under its name, as it was or      *)
(* leanified, with sizes and checksum that fit.                            *)
SameEntries ==
  pc = "done" =>
    LET new == Cells(mem, fp_w, size)
    IN  IF LocalHeaders = {} \/ EOCDs = {} THEN new = file ELSE
           LET eocd == At(p_eocd)
               old == CDHeaders(eocd)
               end == new[size][2]
               dir == SubSeq(new, base_offset + end.cd_offset + 1, size - 1)
           IN  (\A i \in DOMAIN old : Sound(old[i], Extract(file, base_offset, old[i]))) =>
                 /\ SubSeq(new, 1, zip_offset) = SubSeq(file, 1, zip_offset)
                 /\ end.num_records = Len(old) /\ end.cd_size = Len(old)
                 /\ Len(dir) = Len(old)
                 /\ \A i \in DOMAIN old :
                      SameFile(old[i], Extract(file, base_offset, old[i]),
                               dir[i][2], Extract(new, base_offset, dir[i][2]))
=============================================================================
