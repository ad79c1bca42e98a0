-------------------------------- MODULE Png ---------------------------------
(***************************************************************************)
(* Png::Leanify (png.cpp): chunks that are not needed are removed while    *)
(* the others are moved to the front of the buffer; then ZopfliPNG tries   *)
(* to make a smaller image of them, or at least a smaller last IDAT.       *)
(*                                                                         *)
(* An image is <<"png">> and chunks, which are a cell                      *)
(* <<"chunk", chunk_type, length>>, data, and <<"crc", chunk_type, data>>. *)
(* The k-th cell of what ZopfliPNG made of s is <<"zopflipng", s, k>>.     *)
(***************************************************************************)
EXTENDS Format

VARIABLES p_write, idat_addr

locals == <<p_write, idat_addr>>
vars == <<call, mem, p_read, pc, size, locals>>

nullptr == -1

(* The code relies on lengths that are less than 2^32 - 12: the others     *)
(* wrap around (png.cpp:42).                                               *)
IsConsidered(f) ==
  /\ f[1] = <<"png">>
  /\ \A k \in DOMAIN f : f[k][1] = "chunk" => f[k][3] \in Nat

Start == p_write = fp_w /\ idat_addr = nullptr
Init == Called /\ Start

Header ==
  /\ pc = "start"
  /\ mem' = MemMove(mem, fp_w, fp, 1)
  /\ p_read' = p_read + 1
  /\ p_write' = p_write + 1
  /\ pc' = "chunks"
  /\ UNCHANGED <<call, size, idat_addr>>

chunk_type == mem[p_read][2]
chunk_length == mem[p_read][3] + 2

IsWhole == p_read < End /\ p_read + chunk_length <= End

Truncated ==
  /\ pc = "chunks" /\ ~ IsWhole
  /\ mem' = MemMove(mem, p_write, p_read, End - p_read)
  /\ size' = size - (p_read - p_write - fp)
  /\ pc' = "done"
  /\ UNCHANGED <<call, p_read, locals>>

Critical == {"IHDR", "PLTE", "IDAT", "IEND"}
Animation == {"acTL", "fcTL", "fdAT"}

(* fault: what says which pixels are transparent is never kept.            *)
ShouldRemove_Trns ==
  /\ chunk_type \notin Critical \cup Animation \cup {"npTc"}
  /\ ~ (chunk_type = "iCCP" /\ setting.keep_icc)

ShouldRemove ==
  /\ chunk_type \notin Critical \cup Animation \cup {"npTc"}
  /\ ~ (chunk_type = "tRNS" /\ idat_addr = nullptr)
  /\ ~ (chunk_type = "iCCP" /\ setting.keep_icc)

RemoveChunk ==
  /\ pc = "chunks" /\ IsWhole /\ ShouldRemove
  /\ p_read' = p_read + chunk_length
  /\ UNCHANGED <<call, mem, pc, size, locals>>

MoveChunk ==
  /\ pc = "chunks" /\ IsWhole /\ ~ ShouldRemove
  /\ mem' = MemMove(mem, p_write, p_read, chunk_length)
  /\ p_read' = p_read + chunk_length
  /\ p_write' = p_write + chunk_length
  /\ idat_addr' = IF chunk_type = "IDAT" THEN p_write ELSE idat_addr
  /\ IF chunk_type = "IEND" THEN pc' = "optimize" /\ size' = p_write' - fp_w
                            ELSE UNCHANGED <<pc, size>>
  /\ UNCHANGED call

(* What ZopfliPNG makes of s is used if it is smaller.                     *)
ZopfliPNG(s, r) == [k \in 1..r |-> <<"zopflipng", s, k>>]

Optimize(r) ==
  /\ pc = "optimize" /\ r < size
  /\ mem' = Put(mem, fp_w, ZopfliPNG(Cells(mem, fp_w, size), r))
  /\ size' = r
  /\ pc' = "done"
  /\ UNCHANGED <<call, p_read, locals>>

NoIdat ==
  /\ pc = "optimize" /\ idat_addr = nullptr
  /\ pc' = "done"
  /\ UNCHANGED <<call, mem, p_read, size, locals>>

Crc(data) == <<"crc", "IDAT", data>>

(* It is not, and only the last IDAT is compressed again; or not even that *)
(* is tried, which leaves all as it is.                                    *)
RecompressIdat(r) ==
  LET n == mem[idat_addr][3]
      data == idat_addr + 1
      idat_end == data + n + 1
      m == ZlibRecompressed(mem, data, n, 0, r)
      chunk == Put(Put(m, idat_addr, <<<<"chunk", "IDAT", r>>>>),
                   data + r, <<Crc(Cells(m, data, r))>>)
  IN  /\ pc = "optimize" /\ idat_addr # nullptr /\ r \in ZlibSizes(mem, data, n)
      /\ mem' = IF r = n THEN m
                ELSE MemMove(chunk, data + r + 1, idat_end, fp_w + size - idat_end)
      /\ size' = size - (n - r)
      /\ pc' = "done"
      /\ UNCHANGED <<call, p_read, locals>>

Next == \/ Header \/ Truncated \/ RemoveChunk \/ MoveChunk \/ NoIdat
        \/ \E r \in 1 .. Len(file) : Optimize(r) \/ RecompressIdat(r)

Spec == Init /\ [][Next]_vars

-----------------------------------------------------------------------------
(* Properties.                                                             *)

(* The chunk that begins at p in s, and where the next one begins.         *)
IsWholeAt(s, p) == p <= Len(s) /\ p + s[p][3] + 1 <= Len(s)
Behind(s, p) == IF IsWholeAt(s, p) THEN p + s[p][3] + 2 ELSE p
DataAt(s, p) == Cells(s, p + 1, s[p][3])
CrcAt(s, p) == s[p + s[p][3] + 1]
Rest(s, p) == Cells(s, p, Len(s) - p + 1)

(* Where the chunks of the file begin, and whether there is an IDAT in     *)
(* front of each.  There is none behind IEND or a chunk that is not whole. *)
IsLast(b) == ~ IsWholeAt(file, b.at) \/ file[b.at][2] = "IEND"
NextPlace(b) ==
  IF IsLast(b) THEN b
  ELSE [at |-> Behind(file, b.at), idat |-> b.idat \/ file[b.at][2] = "IDAT"]
Places ==
  LET place[k \in 0 .. Len(file)] ==
        IF k = 0 THEN [at |-> 2, idat |-> FALSE] ELSE NextPlace(place[k - 1])
  IN  place

Place(k) == Places[k].at
Type(k) == file[Place(k)][2]

(* What is needed to show the image: transparency counts in front of the   *)
(* data, and a colour profile if the user says so.                         *)
IsNeeded(k) ==
  \/ Type(k) \in Critical \cup Animation \cup {"npTc"}
  \/ Type(k) = "tRNS" /\ ~ Places[k].idat
  \/ Type(k) = "iCCP" /\ setting.keep_icc

(* Where they begin in the image new, if only those are there.             *)
NewPlaces(new) ==
  LET place[k \in 0 .. Len(file)] ==
        IF k = 0 THEN 2
        ELSE IF ~ IsLast(Places[k - 1]) /\ IsNeeded(k - 1) THEN Behind(new, place[k - 1])
        ELSE place[k - 1]
  IN  place

IsLastIdat(k) ==
  /\ IsWholeAt(file, Place(Len(file)))
  /\ Type(k) = "IDAT" /\ \A l \in k + 1 .. Len(file) : Type(l) # "IDAT"

(* The chunk k is in new at q.                                             *)
SameChunk(new, k, q) ==
  LET p == Place(k)
      new_data == DataAt(new, q)
  IN  /\ IsWholeAt(new, q) /\ new[q][2] = Type(k)
      /\ \/ new_data = DataAt(file, p) /\ CrcAt(new, q) = CrcAt(file, p)
         \/ /\ IsLastIdat(k)
            /\ IsLeanOf(new_data, DataAt(file, p)) /\ CrcAt(new, q) = Crc(new_data)

(* The chunks that are needed are in new, and what follows a file that     *)
(* breaks off; behind IEND there is nothing.                               *)
KeepsChunks(new) ==
  /\ new[1] = <<"png">>
  /\ \A k \in 0 .. Len(file) :
       LET p == Place(k)
           q == NewPlaces(new)[k]
       IN  IF IsWholeAt(file, p)
           THEN /\ IsNeeded(k) => SameChunk(new, k, q)
                /\ Type(k) = "IEND" => Behind(new, q) = Len(new) + 1
           ELSE Rest(new, q) = Rest(file, p)

(* README.md:4, README.md:149-157, png.cpp:23-158: the chunks that are     *)
(* needed come out in their order, as they were; the last IDAT may hold    *)
(* the same data compressed better, with a checksum for it.  What ZopfliPNG*)
(* was given are these chunks too.                                         *)
SameChunks ==
  pc = "done" =>
    LET out == Cells(mem, fp_w, size)
        new == IF size > 0 /\ out[1][1] = "zopflipng" THEN out[1][2] ELSE out
    IN  (new # out => out = ZopfliPNG(new, size)) /\ KeepsChunks(new)
=============================================================================
