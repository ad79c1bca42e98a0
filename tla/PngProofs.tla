----------------------------- MODULE PngProofs ------------------------------
(***************************************************************************)
(* Png::Leanify keeps to what it was given: for every image of chunks,     *)
(* damaged at its end or not, and every room in front of it, it reads only *)
(* what it has not written over, writes nothing behind the image, and      *)
(* keeps every chunk that is needed.                                       *)
(***************************************************************************)
EXTENDS Png, WellFoundedInduction, TLAPS

(* Wherever a chunk is looked for in f there is a length: at the places S, *)
(* which are those of the first chunk and behind each other one.           *)
ChunksAt(f, S) ==
  /\ 1 \in S
  /\ \A k \in S : k < Len(f) => f[k + 1][3] \in Nat /\ k + f[k + 1][3] + 2 \in S

PngAssumption ==
  \A c \in Calls : /\ c[2].room \in Nat /\ Len(c[1]) \in Nat \ {0}
                   /\ \E S \in SUBSET Nat : ChunksAt(c[1], S)

-----------------------------------------------------------------------------
(* What holds of the cursors and of the buffer, ...                        *)
Cursors ==
  /\ fp \in Nat /\ Len(file) \in Nat \ {0}
  /\ p_read \in Nat /\ fp <= p_read /\ p_read <= End
  /\ p_write \in Nat /\ p_write + fp <= p_read
  /\ pc \in {"start", "chunks", "optimize", "done"}
  /\ pc = "start" => p_read = fp /\ idat_addr = nullptr
  /\ pc \in {"start", "chunks"} => size = Len(file)
  /\ pc = "optimize" => size = p_write
  /\ size \in Nat /\ size <= Len(file)

Buffer == DOMAIN mem = 0 .. End /\ mem[End] = Before[End]

(* ... where the next chunk is looked for, ...                             *)
OnChunk == \E S \in SUBSET Nat : ChunksAt(file, S) /\ (pc = "chunks" => p_read - fp \in S)

(* ... and that the last IDAT is where it was moved to.                    *)
IdatThere ==
  pc # "done" /\ idat_addr # nullptr =>
    /\ idat_addr \in Nat /\ mem[idat_addr][3] \in Nat
    /\ idat_addr + mem[idat_addr][3] + 2 <= p_write

PngInv == Cursors /\ Buffer /\ OnChunk /\ IdatThere /\ UnreadIntact

-----------------------------------------------------------------------------
(* The helpers write where they are told to and nowhere else.              *)
LEMMA MemMoveFrame ==
  ASSUME NEW m, NEW dst \in Int, NEW src \in Int, NEW n \in Int
  PROVE  /\ DOMAIN MemMove(m, dst, src, n) = DOMAIN m
         /\ \A x \in DOMAIN m : x \in Int /\ (x < dst \/ x >= dst + n) =>
              MemMove(m, dst, src, n)[x] = m[x]
         /\ \A x \in DOMAIN m : x \in Int /\ x >= dst /\ x < dst + n =>
              MemMove(m, dst, src, n)[x] = m[x - dst + src]
BY DEF MemMove

LEMMA PutFrame ==
  ASSUME NEW m, NEW p \in Int, NEW s, Len(s) \in Nat
  PROVE  /\ DOMAIN Put(m, p, s) = DOMAIN m
         /\ \A x \in DOMAIN m : x \in Int /\ (x < p \/ x >= p + Len(s)) => Put(m, p, s)[x] = m[x]
BY DEF Put

(* What becomes of s is no longer than s.                                  *)
LEMMA LeanIsShort ==
  ASSUME NEW m, NEW p \in Int, NEW n \in Nat, NEW r \in Nat, r <= n
  PROVE  Len(Lean(Cells(m, p, n), r)) \in 0..n
<1> DEFINE s == Cells(m, p, n)
<1>1. Len(s) = n
  BY DEF Cells
<1>2. Len(Zlib(s[1][2], r)) = r
  BY DEF Zlib
<1>3. Len([k \in 1..r |-> <<"lean", s[1][2], k>>]) = r
  OBVIOUS
<1> HIDE DEF s
<1>4. Len(Lean(s, r)) \in {Len(s), r}
  BY <1>2, <1>3 DEF Lean
<1> QED  BY <1>1, <1>4 DEF s

-----------------------------------------------------------------------------
(* The file is the one that was handed over.                               *)
LEMMA SameCall ==
  ASSUME UNCHANGED call
  PROVE  UNCHANGED <<file, setting, fp, End, Before>>
BY DEF call, fp, End, Before

LEMMA Addresses ==
  ASSUME PngInv
  PROVE  /\ fp \in Nat /\ Len(file) \in Nat /\ Len(file) > 0
         /\ End \in Nat /\ End = fp + Len(file) /\ End \in 0 .. End
         /\ p_read \in Nat /\ fp <= p_read /\ p_read <= End
         /\ p_write \in Nat /\ p_write + fp <= p_read
         /\ size \in Nat /\ size <= Len(file)
BY DEF PngInv, Cursors, End

LEMMA PngInit == ASSUME PngAssumption, Init PROVE PngInv
<1>1. PICK c \in Calls : file = c[1] /\ setting = c[2]
  BY DEF Init, Called
<1>2. fp \in Nat /\ Len(file) \in Nat \ {0} /\ \E S \in SUBSET Nat : ChunksAt(file, S)
  BY <1>1 DEF PngAssumption, fp
<1>3. mem = Before /\ p_read = fp /\ p_write = 0 /\ idat_addr = nullptr
        /\ pc = "start" /\ size = Len(file)
  BY DEF Init, Called, Start, fp_w
<1>4. Cursors
  BY <1>2, <1>3 DEF Cursors, End
<1>5. Buffer
  BY <1>3 DEF Buffer, Before
<1> QED  BY <1>2, <1>3, <1>4, <1>5 DEF PngInv, OnChunk, IdatThere, UnreadIntact

(* The length at p_read is that of a chunk of the file.                    *)
LEMMA ChunkLength ==
  ASSUME PngInv, pc = "chunks", p_read < End
  PROVE  /\ mem[p_read][3] \in Nat /\ chunk_length = mem[p_read][3] + 2
         /\ \E S \in SUBSET Nat : ChunksAt(file, S) /\ p_read + chunk_length - fp \in S
<1>1. PICK S \in SUBSET Nat : ChunksAt(file, S) /\ p_read - fp \in S
  BY DEF PngInv, OnChunk
<1>2. p_read \in Nat /\ fp \in Nat /\ Len(file) \in Nat /\ fp <= p_read
        /\ p_read - fp < Len(file) /\ End = fp + Len(file)
  BY DEF PngInv, Cursors, End
<1>3. mem[p_read] = Before[p_read]
  BY <1>2 DEF PngInv, UnreadIntact
<1>4. Before[p_read] = file[p_read - fp + 1]
  BY <1>2 DEF Before
<1>5. file[p_read - fp + 1][3] \in Nat /\ p_read - fp + file[p_read - fp + 1][3] + 2 \in S
  BY <1>1, <1>2 DEF ChunksAt
<1>6. mem[p_read][3] \in Nat /\ p_read - fp + mem[p_read][3] + 2 \in S
  BY <1>3, <1>4, <1>5
<1>7. chunk_length = mem[p_read][3] + 2
  BY DEF chunk_length
<1>8. p_read + chunk_length - fp = p_read - fp + mem[p_read][3] + 2
  BY SMTT(30), <1>2, <1>6, <1>7
<1> QED  BY <1>1, <1>6, <1>7, <1>8

LEMMA HeaderStep == ASSUME PngInv, Header PROVE PngInv'
<1>1. /\ pc = "start" /\ pc' = "chunks" /\ mem' = MemMove(mem, 0, fp, 1)
      /\ p_read' = p_read + 1 /\ p_write' = p_write + 1 /\ UNCHANGED <<call, size, idat_addr>>
  BY DEF Header, fp_w
<1>2. UNCHANGED <<file, setting, fp, End, Before>>
  BY <1>1, SameCall
<1>3. Cursors'
  BY <1>1, <1>2, Addresses DEF PngInv, Cursors
<1>4. DOMAIN mem' = 0 .. End /\ \A x \in 1 .. End : mem'[x] = mem[x]
  BY <1>1, MemMoveFrame, Addresses DEF PngInv, Cursors, Buffer
<1>5. Buffer'
  BY <1>2, <1>4, Addresses DEF PngInv, Buffer
<1>6. UnreadIntact'
  <2>1. \A x \in p_read + 1 .. End : x \in 1 .. End /\ x \in p_read .. End
    BY Addresses DEF PngInv, Cursors
  <2> QED  BY <1>1, <1>2, <1>4, <2>1 DEF PngInv, UnreadIntact
<1>7. OnChunk'
  <2>1. p_read' - fp' = 1
    BY <1>1, <1>2 DEF PngInv, Cursors
  <2>2. PICK S \in SUBSET Nat : ChunksAt(file, S)
    BY DEF PngInv, OnChunk
  <2>3. ChunksAt(file', S) /\ 1 \in S
    BY <1>2, <2>2 DEF ChunksAt
  <2> QED  BY <2>1, <2>3 DEF OnChunk
<1>8. IdatThere'
  BY <1>1 DEF PngInv, Cursors, IdatThere
<1> QED  BY <1>3, <1>5, <1>6, <1>7, <1>8 DEF PngInv

LEMMA RemoveStep == ASSUME PngInv, RemoveChunk PROVE PngInv'
<1>1. /\ pc = "chunks" /\ p_read < End /\ p_read + chunk_length <= End
      /\ p_read' = p_read + chunk_length /\ UNCHANGED <<call, mem, pc, size, p_write, idat_addr>>
  BY DEF RemoveChunk, IsWhole, locals
<1>2. UNCHANGED <<file, setting, fp, End, Before>>
  BY <1>1, SameCall
<1>3. chunk_length \in Nat
  BY <1>1, ChunkLength
<1>4. Cursors'
  BY <1>1, <1>2, <1>3, Addresses DEF PngInv, Cursors
<1>5. Buffer'
  BY <1>1, <1>2 DEF PngInv, Buffer
<1>6. UnreadIntact'
  <2>1. \A x \in p_read + chunk_length .. End : x \in p_read .. End
    BY <1>3, Addresses DEF PngInv, Cursors
  <2> QED  BY <1>1, <1>2, <2>1 DEF PngInv, UnreadIntact
<1>7. OnChunk'
  <2>1. PICK S \in SUBSET Nat : ChunksAt(file, S) /\ p_read + chunk_length - fp \in S
    BY <1>1, ChunkLength
  <2>2. file' = file /\ p_read' - fp' \in S
    BY <1>1, <1>2, <1>3, <2>1, Addresses
  <2>3. ChunksAt(file', S)
    BY <2>1, <2>2 DEF ChunksAt
  <2> QED  BY <2>2, <2>3 DEF OnChunk
<1>8. IdatThere'
  BY <1>1 DEF PngInv, IdatThere
<1> QED  BY <1>4, <1>5, <1>6, <1>7, <1>8 DEF PngInv

LEMMA MoveStep == ASSUME PngInv, MoveChunk PROVE PngInv'
<1> DEFINE n == chunk_length
<1>1. /\ pc = "chunks" /\ p_read < End /\ p_read + n <= End
      /\ mem' = MemMove(mem, p_write, p_read, n)
      /\ p_read' = p_read + n /\ p_write' = p_write + n /\ UNCHANGED call
      /\ idat_addr' \in {p_write, idat_addr}
      /\ \/ pc' = "optimize" /\ size' = p_write'
         \/ UNCHANGED <<pc, size>>
  BY DEF MoveChunk, IsWhole, fp_w
<1>2. UNCHANGED <<file, setting, fp, End, Before>>
  BY <1>1, SameCall
<1>3. n \in Nat /\ n >= 2 /\ mem[p_read][3] \in Nat /\ n = mem[p_read][3] + 2
  BY <1>1, ChunkLength
<1> HIDE DEF n
<1>4. p_read + n <= End /\ n \in Nat /\ n >= 2
  BY <1>1, <1>3
<1>5. p_write + n + fp <= p_read + n
  BY <1>4, Addresses
<1>6. p_write + n + fp <= End /\ p_write + n <= End /\ p_write + n <= Len(file)
  BY <1>4, <1>5, Addresses
<1>7. p_read' = p_read + n /\ p_write' = p_write + n /\ mem' = MemMove(mem, p_write, p_read, n)
  BY <1>1
<1>8. Cursors'
  <2>1. /\ p_read' \in Nat /\ fp <= p_read' /\ p_read' <= End
        /\ p_write' \in Nat /\ p_write' + fp <= p_read' /\ p_write' <= Len(file)
    BY <1>4, <1>5, <1>6, <1>7, Addresses
  <2>2. CASE pc' = "optimize" /\ size' = p_write'
    BY <1>2, <2>1, <2>2 DEF PngInv, Cursors
  <2>3. CASE UNCHANGED <<pc, size>>
    BY <1>1, <1>2, <2>1, <2>3 DEF PngInv, Cursors
  <2> QED  BY <1>1, <2>2, <2>3
<1>9. /\ DOMAIN mem' = 0 .. End
      /\ \A x \in 0 .. End : x < p_write \/ x >= p_write + n => mem'[x] = mem[x]
      /\ mem'[p_write] = mem[p_read]
  <2>1. p_write \in Int /\ p_read \in Int /\ n \in Int /\ p_write \in 0 .. End
          /\ p_write - p_write + p_read = p_read
    BY <1>4, <1>6, Addresses
  <2>2. DOMAIN mem = 0 .. End /\ p_write >= p_write /\ p_write < p_write + n
    BY <1>4, <2>1 DEF PngInv, Buffer
  <2>3. mem'[p_write] = mem[p_write - p_write + p_read]
    BY <1>7, <2>1, <2>2 DEF MemMove
  <2>4. DOMAIN mem' = 0 .. End
    BY <1>7, <2>2 DEF MemMove
  <2>5. \A x \in 0 .. End : x < p_write \/ x >= p_write + n => mem'[x] = mem[x]
    BY <1>7, <2>1, <2>2 DEF MemMove
  <2> QED  BY <2>1, <2>3, <2>4, <2>5
<1>10. Buffer'
  BY <1>2, <1>9, <1>6, Addresses DEF PngInv, Buffer
<1>11. UnreadIntact'
  <2>1. \A x \in p_read + n .. End : x \in p_read .. End /\ x \in 0 .. End /\ x >= p_write + n
    BY <1>4, <1>5, Addresses
  <2> QED  BY <1>1, <1>2, <1>9, <2>1 DEF PngInv, UnreadIntact
<1>12. OnChunk'
  <2>1. PICK S \in SUBSET Nat : ChunksAt(file, S) /\ p_read + n - fp \in S
    BY <1>1, ChunkLength DEF n
  <2>2. file' = file /\ p_read' - fp' \in S
    BY <1>2, <1>4, <1>7, <2>1, Addresses
  <2>3. ChunksAt(file', S)
    BY <2>1, <2>2 DEF ChunksAt
  <2> QED  BY <2>2, <2>3 DEF OnChunk
<1>13. IdatThere'
  <2>1. CASE idat_addr' = p_write
    <3>1. p_write \in Nat /\ mem'[p_write][3] = mem[p_read][3]
      BY <1>9, Addresses
    <3> QED  BY <1>1, <1>3, <2>1, <3>1 DEF IdatThere
  <2>2. CASE idat_addr' = idat_addr /\ idat_addr # nullptr
    <3>1. /\ idat_addr \in Nat /\ mem[idat_addr][3] \in Nat
          /\ idat_addr + mem[idat_addr][3] + 2 <= p_write
      BY <1>1, <2>2 DEF PngInv, IdatThere
    <3>2. idat_addr < p_write /\ idat_addr \in 0 .. End /\ p_write \in Nat
      BY SMTT(30), <3>1, Addresses DEF PngInv, Cursors
    <3>3. mem'[idat_addr] = mem[idat_addr]
      BY <1>9, <3>2
    <3> QED  BY <1>1, <1>3, <2>2, <3>1, <3>2, <3>3 DEF IdatThere
  <2> QED  BY <1>1, <2>1, <2>2 DEF IdatThere
<1> QED  BY <1>8, <1>10, <1>11, <1>12, <1>13 DEF PngInv

-----------------------------------------------------------------------------
(* The last steps: all that must be shown is that the cell behind the file *)
(* is left alone and that the size is no larger.                           *)
LEMMA LastStep ==
  ASSUME PngInv, pc' = "done", UNCHANGED <<call, p_read, p_write, idat_addr>>,
         size' \in Nat, size' <= Len(file),
         DOMAIN mem' = DOMAIN mem, mem'[End] = mem[End]
  PROVE  PngInv'
<1>1. UNCHANGED <<file, setting, fp, End, Before>>
  BY SameCall
<1>2. Cursors'
  BY <1>1 DEF PngInv, Cursors
<1>3. Buffer'
  BY <1>1 DEF PngInv, Buffer
<1>4. OnChunk'
  BY <1>1 DEF PngInv, OnChunk
<1> QED  BY <1>2, <1>3, <1>4 DEF PngInv, IdatThere, UnreadIntact

LEMMA TruncatedStep == ASSUME PngInv, Truncated PROVE PngInv'
<1>1. /\ pc = "chunks" /\ pc' = "done" /\ mem' = MemMove(mem, p_write, p_read, End - p_read)
      /\ size' = size - (p_read - p_write - fp) /\ UNCHANGED <<call, p_read, p_write, idat_addr>>
  BY DEF Truncated, locals
<1>2. size' \in Nat /\ size' <= Len(file)
  BY <1>1, Addresses DEF PngInv, Cursors
<1>3. /\ p_write \in Int /\ p_read \in Int /\ End - p_read \in Int
      /\ End >= p_write + (End - p_read) /\ End \in Int
  BY Addresses DEF PngInv, Cursors
<1>4. End \in DOMAIN mem /\ End \in Int
  BY Addresses DEF PngInv, Buffer
<1>5. DOMAIN mem' = DOMAIN mem /\ mem'[End] = mem[End]
  <2>1. DOMAIN mem' = DOMAIN mem
    BY <1>1, <1>3, MemMoveFrame
  <2>2. End < p_write \/ End >= p_write + (End - p_read)
    BY <1>3
  <2> QED  BY <1>1, <1>3, <1>4, <2>1, <2>2, MemMoveFrame
<1> QED  BY <1>1, <1>2, <1>5, LastStep

LEMMA OptimizeStep == ASSUME PngInv, NEW r \in 1 .. Len(file), Optimize(r) PROVE PngInv'
<1> DEFINE s == ZopfliPNG(Cells(mem, fp_w, size), r)
<1>1. /\ pc = "optimize" /\ r < size /\ pc' = "done" /\ size' = r /\ mem' = Put(mem, 0, s)
      /\ UNCHANGED <<call, p_read, p_write, idat_addr>>
  BY DEF Optimize, locals, fp_w
<1>2. r \in Nat /\ r <= Len(file) /\ r < End
  BY <1>1, Addresses
<1>3. Len(s) = r
  BY <1>2 DEF ZopfliPNG
<1> HIDE DEF s
<1>4. DOMAIN mem' = DOMAIN mem /\ mem'[End] = mem[End]
  BY <1>1, <1>2, <1>3, Addresses DEF PngInv, Buffer, Put
<1> QED  BY <1>1, <1>2, <1>4, LastStep

LEMMA RecompressStep ==
  ASSUME PngInv, NEW r \in 1 .. Len(file), RecompressIdat(r)
  PROVE  PngInv'
<1> DEFINE n == mem[idat_addr][3]
           data == idat_addr + 1
           idat_end == data + n + 1
           lean == Lean(Cells(mem, data, n), r)
           m == Put(mem, data - 0, lean)
           header == <<<<"chunk", "IDAT", r>>>>
           h == Put(m, idat_addr, header)
           crc == <<Crc(Cells(m, data, r))>>
           chunk == Put(h, data + r, crc)
<1>1. /\ pc = "optimize" /\ idat_addr # nullptr /\ r \in ZlibSizes(mem, data, n)
      /\ mem' = IF r = n THEN m
                ELSE MemMove(chunk, data + r + 1, idat_end, size - idat_end + 0)
      /\ size' = size - (n - r) /\ pc' = "done"
      /\ UNCHANGED <<call, p_read, p_write, idat_addr>>
  <2>1. /\ mem' = IF r = n THEN m
                  ELSE MemMove(chunk, data + r + 1, idat_end, 0 + size - idat_end)
    BY DEF RecompressIdat, ZlibRecompressed, fp_w
  <2>2. 0 + size - idat_end = size - idat_end + 0
    BY SMTT(30) DEF PngInv, Cursors, RecompressIdat, IdatThere
  <2> QED  BY <2>1, <2>2 DEF RecompressIdat, locals
<1>2. /\ idat_addr \in Nat /\ n \in Nat /\ idat_addr + n + 2 <= size
      /\ size \in Nat /\ size <= Len(file) /\ size <= End /\ End \in Nat /\ End \in DOMAIN mem
  BY <1>1, Addresses DEF PngInv, Cursors, IdatThere, Buffer
<1> HIDE DEF n
<1>3. r \in Nat /\ r <= n
  BY <1>1, <1>2 DEF ZlibSizes
<1>4. Len(lean) \in 0..n
  <2>1. data \in Int
    BY <1>2
  <2> HIDE DEF data
  <2> QED  BY <1>2, <1>3, <2>1, LeanIsShort
<1> HIDE DEF lean
<1>5. DOMAIN m = DOMAIN mem /\ m[End] = mem[End]
  <2>1. data - 0 \in Int /\ End \in Int /\ End >= data - 0 + Len(lean) /\ Len(lean) \in Nat
    BY <1>2, <1>4
  <2> QED  BY <1>2, <2>1, PutFrame
<1> HIDE DEF m
<1>6. DOMAIN h = DOMAIN mem /\ h[End] = mem[End]
  <2>1. Len(header) = 1
    OBVIOUS
  <2>2. End >= idat_addr + 1 /\ idat_addr \in Int /\ End \in Int
    BY <1>2
  <2> HIDE DEF header
  <2>3. DOMAIN Put(m, idat_addr, header) = DOMAIN m /\ Put(m, idat_addr, header)[End] = m[End]
    BY <1>2, <1>5, <2>1, <2>2 DEF Put
  <2> QED  BY <1>5, <2>3
<1> HIDE DEF h
<1>7. DOMAIN chunk = DOMAIN mem /\ chunk[End] = mem[End]
  <2>1. Len(crc) = 1
    OBVIOUS
  <2>2. End >= data + r + 1 /\ data + r \in Int /\ End \in Int
    BY <1>2, <1>3
  <2> HIDE DEF crc
  <2>3. DOMAIN Put(h, data + r, crc) = DOMAIN h /\ Put(h, data + r, crc)[End] = h[End]
    BY <1>2, <1>6, <2>1, <2>2 DEF Put
  <2> QED  BY <1>6, <2>3
<1> HIDE DEF chunk
<1>8. DOMAIN mem' = DOMAIN mem /\ mem'[End] = mem[End]
  <2>1. /\ data + r + 1 \in Int /\ idat_end \in Int /\ size - idat_end + 0 \in Int
        /\ End \in Int /\ End >= data + r + 1 + (size - idat_end + 0)
    BY <1>2, <1>3
  <2> QED  BY <1>1, <1>2, <1>5, <1>7, <2>1, MemMoveFrame
<1>9. size' \in Nat /\ size' <= Len(file)
  BY <1>1, <1>2, <1>3
<1> QED  BY <1>1, <1>8, <1>9, LastStep

LEMMA PngStep == ASSUME PngInv, [Next]_vars PROVE PngInv'
<1>1. CASE NoIdat
  <2>1. pc' = "done" /\ UNCHANGED <<call, p_read, p_write, idat_addr, mem, size>>
    BY <1>1 DEF NoIdat, locals
  <2>2. size \in Nat /\ size <= Len(file)
    BY DEF PngInv, Cursors
  <2> QED  BY <2>1, <2>2, LastStep
<1>2. CASE UNCHANGED vars
  <2>1. UNCHANGED <<call, mem, p_read, pc, size, p_write, idat_addr>>
    BY <1>2 DEF vars, locals
  <2>2. UNCHANGED <<file, setting, fp, End, Before>>
    BY <2>1, SameCall
  <2> QED  BY <2>1, <2>2 DEF PngInv, Cursors, Buffer, OnChunk, IdatThere, UnreadIntact
<1> QED  BY <1>1, <1>2, HeaderStep, TruncatedStep, RemoveStep, MoveStep, OptimizeStep,
            RecompressStep DEF Next

LEMMA PngInvariance == ASSUME PngAssumption PROVE Spec => []PngInv
<1>1. Init => PngInv
  BY PngInit
<1>2. PngInv /\ [Next]_vars => PngInv'
  BY PngStep
<1> QED  BY <1>1, <1>2, PTL DEF Spec

(* png.cpp:38-103: whichever chunks are removed, none is read after it was *)
(* written over.                                                           *)
THEOREM ReadsUnwritten == ASSUME PngAssumption PROVE Spec => []UnreadIntact
<1>1. PngInv => UnreadIntact
  BY DEF PngInv
<1> QED  BY <1>1, PngInvariance, PTL

(* format.h:19-26, png.cpp:45-160: on every way to its end, also from a    *)
(* damaged image, Leanify has written to nothing but the image and the     *)
(* room in front of it, and returns no more than it was given.             *)
THEOREM KeepsToTheImage == ASSUME PngAssumption PROVE Spec => []InItsRegion
<1>1. PngInv => InItsRegion
  <2> SUFFICES ASSUME PngInv, pc = "done"
               PROVE  KeepsToItsRegion(Before, mem, fp, Len(file), fp, size)
    BY DEF InItsRegion
  <2>1. size \in 0 .. Len(file) /\ fp - fp = 0 /\ fp + Len(file) - 1 = End - 1
    BY Addresses DEF PngInv, Cursors
  <2>2. ASSUME NEW x \in DOMAIN Before, x \notin 0 .. End - 1
        PROVE  mem[x] = Before[x]
    <3>1. x \in 0 .. End
      BY DEF Before
    <3>2. x = End
      BY <2>2, <3>1, Addresses
    <3> QED  BY <3>2 DEF PngInv, Buffer
  <2> QED  BY <2>1, <2>2 DEF KeepsToItsRegion
<1> QED  BY <1>1, PngInvariance, PTL

-----------------------------------------------------------------------------
(* Every nonempty set of numbers has a least one.                              *)
LEMMA LeastNat ==
  ASSUME NEW T \in SUBSET Nat, T # {}
  PROVE  \E x \in T : \A y \in T : x <= y
<1> DEFINE R == OpToRel(<, Nat)
<1>1. \A x \in Nat, y \in Nat : <<y, x>> \in R <=> y < x
  BY DEF OpToRel
<1>2. IsWellFoundedOn(R, Nat)
  BY NatLessThanWellFounded
<1> HIDE DEF R
<1>3. PICK x \in T : \A y \in T : ~ (<<y, x>> \in R)
  BY <1>2, WFMin
<1>4. \A y \in T : ~ (y < x)
  BY <1>1, <1>3, Zenon
<1> QED  BY <1>4

(* Where the chunks are is a function of the image.                        *)
LEMMA PlacesAre ==
  ASSUME Len(file) \in Nat
  PROVE  /\ Places[0] = [at |-> 2, idat |-> FALSE]
         /\ \A k \in 1 .. Len(file) : Places[k] = NextPlace(Places[k - 1])
<1> DEFINE N == Len(file)
           First == [at |-> 2, idat |-> FALSE]
           Then(k, b) == NextPlace(b)
           Body(e, d) == [k \in 0..d |-> IF k = 0 THEN First ELSE Then(k, e[k - 1])]
           T == {d \in 0..N : \A e : e # Body(e, d)}
<1>1. Places = CHOOSE e : e = Body(e, N)
  BY DEF Places
<1> HIDE DEF First, Then
<1>2. T = {}
  <2> SUFFICES ASSUME T # {} PROVE FALSE
    OBVIOUS
  <2>1. PICK d \in T : \A y \in T : d <= y
    <3>1. T \in SUBSET Nat
      OBVIOUS
    <3> HIDE DEF T
    <3> QED  BY <3>1, LeastNat
  <2>2. CASE d = 0
    <3> DEFINE e == [k \in 0..0 |-> First]
    <3>1. e = Body(e, 0)
      OBVIOUS
    <3> HIDE DEF e
    <3> QED  BY <2>2, <3>1
  <2>3. CASE d # 0
    <3>1. d \in 1..N /\ d - 1 \in 0..N /\ ~ (d <= d - 1)
      BY <2>3
    <3>2. PICK e : e = Body(e, d - 1)
      <4>1. d - 1 \notin T
        <5> HIDE DEF T
        <5> QED  BY <2>1, <3>1
      <4> QED  BY <3>1, <4>1
    <3> DEFINE f == [k \in 0..d |-> IF k = d THEN Then(d, e[d - 1]) ELSE e[k]]
    <3>3. ASSUME NEW k \in 0..d
          PROVE  f[k] = IF k = 0 THEN First ELSE Then(k, f[k - 1])
      <4>1. CASE k = d
        <5>1. f[k] = Then(d, e[d - 1]) /\ k # 0 /\ d - 1 \in 0..d /\ d - 1 # d
          BY <2>3, <4>1
        <5>2. f[d - 1] = e[d - 1]
          BY <5>1
        <5> QED  BY <4>1, <5>1, <5>2
      <4>2. CASE k # d /\ k = 0
        <5>1. f[k] = e[k] /\ k \in 0 .. d - 1
          BY <3>1, <4>2
        <5> HIDE DEF f
        <5>2. e[k] = First
          BY <3>2, <4>2, <5>1
        <5> QED  BY <4>2, <5>1, <5>2
      <4>3. CASE k # d /\ k # 0
        <5>1. f[k] = e[k] /\ k \in 0 .. d - 1 /\ k - 1 \in 0..d /\ k - 1 # d
          BY <3>1, <4>3
        <5>2. f[k - 1] = e[k - 1]
          BY <5>1
        <5> HIDE DEF f
        <5>3. e[k] = Then(k, e[k - 1])
          BY <3>2, <4>3, <5>1
        <5> QED  BY <4>3, <5>1, <5>2, <5>3
      <4> QED  BY <4>1, <4>2, <4>3
    <3>4. f = [k \in 0..d |-> f[k]]
      OBVIOUS
    <3> HIDE DEF f
    <3>5. f = Body(f, d)
      BY <3>3, <3>4
    <3> QED  BY <3>5
  <2> QED  BY <2>2, <2>3
<1>3. PICK e : e = Body(e, N)
  BY <1>2
<1>4. Places = Body(Places, N)
  BY <1>1, <1>3
<1> DEFINE P == Places
<1> HIDE DEF P
<1>5. P[0] = First /\ \A k \in 1..N : P[k] = Then(k, P[k - 1])
  BY <1>4 DEF P
<1> QED  BY <1>5 DEF P, First, Then

LEMMA NewPlacesAre ==
  ASSUME Len(file) \in Nat, NEW new
  PROVE  /\ NewPlaces(new)[0] = 2
         /\ \A k \in 1 .. Len(file) :
              NewPlaces(new)[k] = IF ~ IsLast(Places[k - 1]) /\ IsNeeded(k - 1)
                                  THEN Behind(new, NewPlaces(new)[k - 1])
                                  ELSE NewPlaces(new)[k - 1]
<1> DEFINE N == Len(file)
           First == 2
           Then(k, b) == IF ~ IsLast(Places[k - 1]) /\ IsNeeded(k - 1) THEN Behind(new, b) ELSE b
           Body(e, d) == [k \in 0..d |-> IF k = 0 THEN First ELSE Then(k, e[k - 1])]
           T == {d \in 0..N : \A e : e # Body(e, d)}
<1>1. NewPlaces(new) = CHOOSE e : e = Body(e, N)
  BY DEF NewPlaces
<1> HIDE DEF First, Then
<1>2. T = {}
  <2> SUFFICES ASSUME T # {} PROVE FALSE
    OBVIOUS
  <2>1. PICK d \in T : \A y \in T : d <= y
    <3>1. T \in SUBSET Nat
      OBVIOUS
    <3> HIDE DEF T
    <3> QED  BY <3>1, LeastNat
  <2>2. CASE d = 0
    <3> DEFINE e == [k \in 0..0 |-> First]
    <3>1. e = Body(e, 0)
      OBVIOUS
    <3> HIDE DEF e
    <3> QED  BY <2>2, <3>1
  <2>3. CASE d # 0
    <3>1. d \in 1..N /\ d - 1 \in 0..N /\ ~ (d <= d - 1)
      BY <2>3
    <3>2. PICK e : e = Body(e, d - 1)
      <4>1. d - 1 \notin T
        <5> HIDE DEF T
        <5> QED  BY <2>1, <3>1
      <4> QED  BY <3>1, <4>1
    <3> DEFINE f == [k \in 0..d |-> IF k = d THEN Then(d, e[d - 1]) ELSE e[k]]
    <3>3. ASSUME NEW k \in 0..d
          PROVE  f[k] = IF k = 0 THEN First ELSE Then(k, f[k - 1])
      <4>1. CASE k = d
        <5>1. f[k] = Then(d, e[d - 1]) /\ k # 0 /\ d - 1 \in 0..d /\ d - 1 # d
          BY <2>3, <4>1
        <5>2. f[d - 1] = e[d - 1]
          BY <5>1
        <5> QED  BY <4>1, <5>1, <5>2
      <4>2. CASE k # d /\ k = 0
        <5>1. f[k] = e[k] /\ k \in 0 .. d - 1
          BY <3>1, <4>2
        <5> HIDE DEF f
        <5>2. e[k] = First
          BY <3>2, <4>2, <5>1
        <5> QED  BY <4>2, <5>1, <5>2
      <4>3. CASE k # d /\ k # 0
        <5>1. f[k] = e[k] /\ k \in 0 .. d - 1 /\ k - 1 \in 0..d /\ k - 1 # d
          BY <3>1, <4>3
        <5>2. f[k - 1] = e[k - 1]
          BY <5>1
        <5> HIDE DEF f
        <5>3. e[k] = Then(k, e[k - 1])
          BY <3>2, <4>3, <5>1
        <5> QED  BY <4>3, <5>1, <5>2, <5>3
      <4> QED  BY <4>1, <4>2, <4>3
    <3>4. f = [k \in 0..d |-> f[k]]
      OBVIOUS
    <3> HIDE DEF f
    <3>5. f = Body(f, d)
      BY <3>3, <3>4
    <3> QED  BY <3>5
  <2> QED  BY <2>2, <2>3
<1>3. PICK e : e = Body(e, N)
  BY <1>2
<1>4. NewPlaces(new) = Body(NewPlaces(new), N)
  BY <1>1, <1>3
<1> DEFINE P == NewPlaces(new)
<1> HIDE DEF P
<1>5. P[0] = First /\ \A k \in 1..N : P[k] = Then(k, P[k - 1])
  BY <1>4 DEF P
<1> QED  BY <1>5 DEF P, First, Then

-----------------------------------------------------------------------------
N(k) == file[Place(k)][3]

(* The chunks in front of the j-th are in new where outs says.             *)
IsListed(new, j, outs) ==
  /\ Len(file) \in Nat /\ j \in 0 .. Len(file) /\ outs[0] = 1
  /\ \A k \in 0 .. j - 1 : /\ ~ IsLast(Places[k])
                           /\ outs[k + 1] + 1 = IF IsNeeded(k) THEN Behind(new, outs[k] + 1)
                                                ELSE outs[k] + 1

(* Then that is where they are looked for, ...                             *)
LEMMA ListWalked ==
  ASSUME NEW new, NEW j, NEW outs, IsListed(new, j, outs)
  PROVE  \A k \in 0..j : NewPlaces(new)[k] = outs[k] + 1
<1> DEFINE T == {k \in 0..j : NewPlaces(new)[k] # outs[k] + 1}
<1>0. Len(file) \in Nat /\ j \in 0 .. Len(file)
  BY DEF IsListed
<1> SUFFICES ASSUME T # {} PROVE FALSE
  OBVIOUS
<1>1. PICK d \in T : \A y \in T : d <= y
  <2>1. T \in SUBSET Nat
    BY <1>0
  <2> HIDE DEF T
  <2> QED  BY <2>1, LeastNat
<1>2. d \in 0..j /\ NewPlaces(new)[d] # outs[d] + 1
  BY <1>1
<1>3. d # 0
  BY <1>0, <1>2, NewPlacesAre DEF IsListed
<1>4. d - 1 \in 0 .. j - 1 /\ d \in 1 .. Len(file) /\ d - 1 \in 0..j /\ ~ (d <= d - 1)
      /\ (d - 1) + 1 = d
  BY <1>0, <1>2, <1>3
<1>5. NewPlaces(new)[d - 1] = outs[d - 1] + 1
  <2>1. d - 1 \notin T
    <3> HIDE DEF T
    <3> QED  BY <1>1, <1>4
  <2> QED  BY <1>4, <2>1
<1>6. /\ ~ IsLast(Places[d - 1])
      /\ outs[d] + 1 = IF IsNeeded(d - 1) THEN Behind(new, outs[d - 1] + 1) ELSE outs[d - 1] + 1
  BY <1>4 DEF IsListed
<1>7. NewPlaces(new)[d] = IF ~ IsLast(Places[d - 1]) /\ IsNeeded(d - 1)
                          THEN Behind(new, NewPlaces(new)[d - 1]) ELSE NewPlaces(new)[d - 1]
  BY <1>0, <1>4, NewPlacesAre
<1> QED  BY <1>2, <1>5, <1>6, <1>7

(* ... and the search stops at the last one.                               *)
LEMMA WalkStops ==
  ASSUME NEW new, Len(file) \in Nat, NEW j \in 0 .. Len(file), IsLast(Places[j])
  PROVE  \A k \in j .. Len(file) :
           Places[k] = Places[j] /\ NewPlaces(new)[k] = NewPlaces(new)[j]
<1> DEFINE T == {k \in j .. Len(file) :
                   ~ (Places[k] = Places[j] /\ NewPlaces(new)[k] = NewPlaces(new)[j])}
<1> SUFFICES ASSUME T # {} PROVE FALSE
  OBVIOUS
<1>1. PICK d \in T : \A y \in T : d <= y
  <2>1. T \in SUBSET Nat
    OBVIOUS
  <2> HIDE DEF T
  <2> QED  BY <2>1, LeastNat
<1>2. /\ d \in j .. Len(file)
      /\ ~ (Places[d] = Places[j] /\ NewPlaces(new)[d] = NewPlaces(new)[j])
  BY <1>1
<1>3. d - 1 \in j .. Len(file) /\ d \in 1 .. Len(file) /\ ~ (d <= d - 1)
  BY <1>2
<1>4. Places[d - 1] = Places[j] /\ NewPlaces(new)[d - 1] = NewPlaces(new)[j]
  <2>1. d - 1 \notin T
    <3> HIDE DEF T
    <3> QED  BY <1>1, <1>3
  <2> QED  BY <1>3, <2>1
<1>5. Places[d] = NextPlace(Places[d - 1])
  BY <1>3, PlacesAre
<1>6. NewPlaces(new)[d] = NewPlaces(new)[d - 1]
  BY <1>3, <1>4, NewPlacesAre
<1> QED  BY <1>2, <1>4, <1>5, <1>6 DEF NextPlace

(* The chunk k is in new at q as it was.                                   *)
IsSame(new, k, q) ==
  /\ IsWholeAt(new, q) /\ new[q][2] = Type(k)
  /\ DataAt(new, q) = DataAt(file, Place(k)) /\ CrcAt(new, q) = CrcAt(file, Place(k))

LEMMA ListRight ==
  ASSUME NEW new, NEW j, NEW outs, IsListed(new, j, outs), new[1] = <<"png">>,
         \A k \in 0 .. j - 1 : IsNeeded(k) => SameChunk(new, k, outs[k] + 1),
         \/ /\ IsWholeAt(file, Place(j)) /\ Type(j) = "IEND" /\ IsSame(new, j, outs[j] + 1)
            /\ Behind(new, outs[j] + 1) = Len(new) + 1
         \/ ~ IsWholeAt(file, Place(j)) /\ Rest(new, outs[j] + 1) = Rest(file, Place(j))
  PROVE  KeepsChunks(new)
<1>0. Len(file) \in Nat /\ j \in 0 .. Len(file) /\ IsLast(Places[j])
  BY DEF IsListed, IsLast, Place, Type
<1>1. NewPlaces(new)[j] = outs[j] + 1
  BY <1>0, ListWalked
<1> SUFFICES ASSUME NEW k \in 0 .. Len(file)
             PROVE  IF IsWholeAt(file, Place(k))
                    THEN /\ IsNeeded(k) => SameChunk(new, k, NewPlaces(new)[k])
                         /\ Type(k) = "IEND" => Behind(new, NewPlaces(new)[k]) = Len(new) + 1
                    ELSE Rest(new, NewPlaces(new)[k]) = Rest(file, Place(k))
  BY DEF KeepsChunks
<1>2. CASE k < j
  <2>1. k \in 0 .. j - 1 /\ k \in 0 .. j
    BY <1>0, <1>2
  <2>2. NewPlaces(new)[k] = outs[k] + 1 /\ ~ IsLast(Places[k])
    <3>1. NewPlaces(new)[k] = outs[k] + 1
      BY <2>1, ListWalked
    <3> QED  BY <2>1, <3>1 DEF IsListed
  <2>3. IsWholeAt(file, Place(k)) /\ Type(k) # "IEND"
    BY <2>2 DEF IsLast, Place, Type
  <2> QED  BY <2>1, <2>2, <2>3
<1>3. CASE k >= j
  <2>1. k \in j .. Len(file)
    BY <1>0, <1>3
  <2>2. Places[k] = Places[j] /\ NewPlaces(new)[k] = outs[j] + 1
    BY <1>0, <1>1, <2>1, WalkStops
  <2>3. Place(k) = Place(j) /\ Type(k) = Type(j)
    BY <2>2 DEF Place, Type
  <2>4. IsSame(new, j, outs[j] + 1) => SameChunk(new, k, outs[j] + 1)
    BY <2>3 DEF IsSame, SameChunk
  <2> QED  BY <2>2, <2>3, <2>4
<1> QED  BY <1>0, <1>2, <1>3

-----------------------------------------------------------------------------
(* The chunk k of the file is in the buffer m at d, ...                    *)
IsCopy(m, k, d) == \A x \in 0 .. N(k) + 1 : m[d + x] = file[Place(k) + x]

ChunkDone(m, k, outs) ==
  /\ ~ IsLast(Places[k]) /\ N(k) \in Nat /\ Place(k) \in Nat
  /\ outs[k + 1] = IF IsNeeded(k) THEN outs[k] + N(k) + 2 ELSE outs[k]
  /\ IsNeeded(k) => IsCopy(m, k, outs[k])

(* ... as are, where outs says, those that are needed of the first j.      *)
IsOrdered(outs, j) == \A k \in 0..j : \A i \in 0..k : outs[i] <= outs[k]

ChunksDone(m, j, outs) ==
  /\ Len(file) \in Nat /\ j \in Nat /\ outs[0] = 1 /\ outs[j] \in Nat
  /\ Place(j) \in Nat /\ 2 * j + 2 <= Place(j) /\ Place(j) <= Len(file) + 1
  /\ IsOrdered(outs, j) /\ \A k \in 0..j : outs[k] \in 1 .. outs[j]
  /\ \A k \in 0 .. j - 1 : ChunkDone(m, k, outs)

LEMMA InRange ==
  ASSUME NEW m, NEW j, NEW outs, ChunksDone(m, j, outs)
  PROVE  j \in 0 .. Len(file) /\ j + 1 \in 1 .. Len(file) + 1
         /\ (Place(j) <= Len(file) => j + 1 \in 1 .. Len(file))
BY DEF ChunksDone

(* What is behind them may change.                                         *)
SameBelow(m2, m, h) == \A x \in 0 .. h - 1 : m2[x] = m[x]

LEMMA StillDone ==
  ASSUME NEW m, NEW m2, NEW j, NEW outs, ChunksDone(m, j, outs), SameBelow(m2, m, outs[j])
  PROVE  ChunksDone(m2, j, outs)
<1>1. ASSUME NEW k \in 0 .. j - 1, IsNeeded(k)
      PROVE  IsCopy(m2, k, outs[k])
  <2>1. /\ ChunkDone(m, k, outs) /\ j \in Nat /\ k \in 0..j /\ k + 1 \in 0..j
        /\ outs[k] \in 1 .. outs[j] /\ outs[k + 1] \in 1 .. outs[j] /\ outs[j] \in Nat
    BY DEF ChunksDone
  <2>2. IsCopy(m, k, outs[k]) /\ outs[k + 1] = outs[k] + N(k) + 2 /\ N(k) \in Nat
    BY <1>1, <2>1 DEF ChunkDone
  <2> SUFFICES ASSUME NEW x \in 0 .. N(k) + 1 PROVE m2[outs[k] + x] = file[Place(k) + x]
    BY DEF IsCopy
  <2>3. outs[k] + x \in 0 .. outs[j] - 1
    BY <2>1, <2>2
  <2> QED  BY <2>2, <2>3 DEF IsCopy, SameBelow
<1>2. ASSUME NEW k \in 0 .. j - 1
      PROVE  ChunkDone(m2, k, outs)
  <2>1. ChunkDone(m, k, outs)
    BY DEF ChunksDone
  <2> QED  BY <1>1, <2>1 DEF ChunkDone
<1> QED  BY <1>2 DEF ChunksDone

(* One more chunk is moved to where d begins, or left out.                 *)
AgreeTo(outs2, outs, j) == \A k \in 0..j : outs2[k] = outs[k]
Longer(outs, j, d) == [k \in 0 .. j + 1 |-> IF k = j + 1 THEN d ELSE outs[k]]

LEMMA OneMore ==
  ASSUME NEW m, NEW m2, NEW j, NEW outs, NEW d, ChunksDone(m, j, outs),
         SameBelow(m2, m, outs[j]), ~ IsLast(Places[j]), N(j) \in Nat,
         d = IF IsNeeded(j) THEN outs[j] + N(j) + 2 ELSE outs[j],
         IsNeeded(j) => IsCopy(m2, j, outs[j])
  PROVE  /\ ChunksDone(m2, j + 1, Longer(outs, j, d)) /\ Longer(outs, j, d)[j + 1] = d
         /\ Place(j + 1) = Place(j) + N(j) + 2
         /\ Places[j + 1].idat = (Places[j].idat \/ Type(j) = "IDAT")
         /\ AgreeTo(Longer(outs, j, d), outs, j)
<1> DEFINE new == Longer(outs, j, d)
<1>1. ChunksDone(m2, j, outs)
  BY StillDone
<1>2. /\ Len(file) \in Nat /\ j \in Nat /\ outs[j] \in Nat /\ Place(j) \in Nat
      /\ 2 * j + 2 <= Place(j) /\ outs[0] = 1
      /\ \A k \in 0..j : outs[k] \in 1 .. outs[j]
      /\ \A k \in 0 .. j - 1 : ChunkDone(m2, k, outs)
  BY <1>1 DEF ChunksDone
<1>3. IsWholeAt(file, Place(j)) /\ Place(j) + N(j) + 1 <= Len(file)
  BY DEF IsLast, Place, IsWholeAt, N
<1>4. j + 1 \in 1 .. Len(file) /\ (j + 1) - 1 = j
  BY <1>2, <1>3
<1>5. Places[j + 1] = [at |-> Behind(file, Place(j)), idat |-> Places[j].idat \/ Type(j) = "IDAT"]
  BY <1>2, <1>4, PlacesAre DEF NextPlace, Place, Type
<1>6. Behind(file, Place(j)) = Place(j) + N(j) + 2
  BY <1>3 DEF Behind, N
<1>7. /\ Place(j + 1) = Place(j) + N(j) + 2
      /\ Places[j + 1].idat = (Places[j].idat \/ Type(j) = "IDAT")
  <2>1. Place(j + 1) = Behind(file, Place(j))
    BY <1>5 DEF Place
  <2> QED  BY <1>5, <1>6, <2>1
<1>8. new[j + 1] = d /\ \A k \in 0..j : new[k] = outs[k]
  BY <1>2 DEF Longer
<1>9. d \in Nat /\ d >= outs[j] /\ outs[j] >= 1
  <2>1. outs[j] \in 1 .. outs[j]
    BY <1>2
  <2> QED  BY <1>2, <2>1
<1> HIDE DEF new
<1>10. ASSUME NEW k \in 0 .. j + 1
       PROVE  new[k] \in 1 .. d
  <2>1. CASE k = j + 1
    <3>1. d \in 1..d
      BY <1>2, <1>9
    <3> QED  BY <1>8, <2>1, <3>1
  <2>2. CASE k # j + 1
    <3>1. k \in 0..j /\ new[k] = outs[k] /\ outs[k] \in 1 .. outs[j]
      BY <1>2, <1>8, <2>2
    <3> QED  BY <1>2, <1>9, <3>1
  <2> QED  BY <2>1, <2>2
<1>11. ASSUME NEW k \in 0..j
       PROVE  ChunkDone(m2, k, new)
  <2>1. CASE k = j
    BY <1>2, <1>8, <2>1 DEF ChunkDone
  <2>2. CASE k # j
    <3>1. k \in 0 .. j - 1 /\ k + 1 \in 0..j
      BY <1>2, <2>2
    <3>2. new[k] = outs[k] /\ new[k + 1] = outs[k + 1] /\ ChunkDone(m2, k, outs)
      BY <1>2, <1>8, <3>1
    <3> QED  BY <3>2 DEF ChunkDone
  <2> QED  BY <2>1, <2>2
<1>12. /\ j + 1 \in Nat /\ new[0] = 1 /\ new[j + 1] \in Nat /\ (j + 1) - 1 = j
       /\ Place(j + 1) \in Nat /\ 2 * (j + 1) + 2 <= Place(j + 1) /\ Place(j + 1) <= Len(file) + 1
  <2>1. Place(j) + N(j) + 2 \in Nat /\ 2 * (j + 1) + 2 <= Place(j) + N(j) + 2
    BY <1>2
  <2>2. Place(j) + N(j) + 2 <= Len(file) + 1
    BY <1>2, <1>3
  <2>3. 0 \in 0..j
    BY <1>2
  <2> QED  BY <1>2, <1>4, <1>7, <1>8, <1>9, <2>1, <2>2, <2>3
<1>13. ChunksDone(m2, j + 1, new)
  <2>1. ASSUME NEW k \in 0 .. j + 1, NEW l \in 0..k
        PROVE  new[l] <= new[k]
    <3>1. CASE k = j + 1
      <4>1. new[l] \in 1..d
        <5>1. l \in 0 .. j + 1
          BY <1>2, <3>1
        <5> QED  BY <1>10, <5>1
      <4> QED  BY <1>8, <1>9, <3>1, <4>1
    <3>2. CASE k # j + 1
      <4>1. k \in 0..j /\ l \in 0..j
        BY <1>2, <3>2
      <4>2. outs[l] <= outs[k]
        BY <4>1 DEF ChunksDone, IsOrdered
      <4> QED  BY <1>8, <4>1, <4>2
    <3> QED  BY <3>1, <3>2
  <2>2. IsOrdered(new, j + 1)
    BY <2>1 DEF IsOrdered
  <2> QED  BY <1>2, <1>8, <1>10, <1>11, <1>12, <2>2 DEF ChunksDone
<1>14. AgreeTo(new, outs, j)
  BY <1>8 DEF AgreeTo
<1> QED  BY <1>7, <1>8, <1>13, <1>14 DEF new

-----------------------------------------------------------------------------
(* A chunk that was copied is the same in the image that m begins with.    *)
LEMMA CopyIsSame ==
  ASSUME NEW m, NEW s \in Nat, NEW k, NEW d \in Nat, N(k) \in Nat, Place(k) \in Nat,
         Len(file) \in Nat, IsCopy(m, k, d), d + N(k) + 2 <= s
  PROVE  /\ IsSame(Cells(m, 0, s), k, d + 1)
         /\ Behind(Cells(m, 0, s), d + 1) = (d + N(k) + 2) + 1
<1> DEFINE new == Cells(m, 0, s)
<1>1. Len(new) = s /\ \A x \in 1..s : new[x] = m[x - 1]
  BY DEF Cells
<1> HIDE DEF new
<1>2. PICK n, p, q : n = N(k) /\ p = Place(k) /\ q = d + 1
  OBVIOUS
<1>3. n \in Nat /\ p \in Nat /\ q \in Nat /\ q + n + 1 <= s /\ q >= 1
  BY <1>2
<1>4. ASSUME NEW x \in 0 .. n + 1
      PROVE  new[q + x] = file[p + x]
  <2>1. q + x \in 1..s /\ (q + x) - 1 = d + x
    BY <1>2, <1>3
  <2>2. m[d + x] = file[p + x]
    BY <1>2 DEF IsCopy
  <2> QED  BY <1>1, <2>1, <2>2
<1>5. new[q] = file[p]
  <2>1. 0 \in 0 .. n + 1 /\ q + 0 = q /\ p + 0 = p
    BY <1>3
  <2> QED  BY <1>4, <2>1
<1>6. new[q][3] = n /\ file[p][3] = n /\ new[q][2] = Type(k)
  BY <1>2, <1>5 DEF N, Type
<1>7. IsWholeAt(new, q) /\ Behind(new, q) = q + n + 2
  BY <1>1, <1>3, <1>6 DEF IsWholeAt, Behind
<1>8. new[q + n + 1] = file[p + n + 1]
  <2>1. n + 1 \in 0 .. n + 1 /\ q + (n + 1) = q + n + 1 /\ p + (n + 1) = p + n + 1
    BY <1>3
  <2> QED  BY <1>4, <2>1
<1>9. Cells(new, q + 1, n) = Cells(file, p + 1, n)
  <2>1. ASSUME NEW x \in 1..n
        PROVE  new[(q + 1) + x - 1] = file[(p + 1) + x - 1]
    <3>1. x \in 0 .. n + 1 /\ (q + 1) + x - 1 = q + x /\ (p + 1) + x - 1 = p + x
      BY <1>3
    <3> QED  BY <1>4, <3>1
  <2> QED  BY <2>1 DEF Cells
<1>10. IsSame(new, k, q)
  BY <1>2, <1>6, <1>7, <1>8, <1>9 DEF IsSame, DataAt, CrcAt
<1>11. q + n + 2 = (d + N(k) + 2) + 1
  BY <1>2, <1>3
<1> QED  BY <1>2, <1>7, <1>10, <1>11 DEF new

(* What is done is listed.                                                 *)
LEMMA DoneListed ==
  ASSUME NEW m, NEW s \in Nat, NEW j, NEW outs, ChunksDone(m, j, outs), outs[j] <= s
  PROVE  /\ IsListed(Cells(m, 0, s), j, outs)
         /\ \A k \in 0 .. j - 1 : IsNeeded(k) => SameChunk(Cells(m, 0, s), k, outs[k] + 1)
<1> DEFINE new == Cells(m, 0, s)
<1>1. /\ Len(file) \in Nat /\ j \in 0 .. Len(file) /\ outs[0] = 1 /\ outs[j] \in Nat
      /\ \A k \in 0..j : outs[k] \in 1 .. outs[j]
      /\ \A k \in 0 .. j - 1 : ChunkDone(m, k, outs)
  BY InRange DEF ChunksDone
<1>2. ASSUME NEW k \in 0 .. j - 1
      PROVE  /\ ~ IsLast(Places[k])
             /\ outs[k + 1] + 1 = IF IsNeeded(k) THEN Behind(new, outs[k] + 1) ELSE outs[k] + 1
             /\ IsNeeded(k) => SameChunk(new, k, outs[k] + 1)
  <2>1. /\ k \in 0..j /\ k + 1 \in 0..j /\ outs[k] \in Nat /\ outs[k + 1] <= s
    <3>1. k \in 0..j /\ k + 1 \in 0..j
      BY <1>1
    <3>2. outs[k] \in 1 .. outs[j] /\ outs[k + 1] \in 1 .. outs[j]
      BY <1>1, <3>1
    <3> QED  BY <1>1, <3>1, <3>2
  <2>2. ChunkDone(m, k, outs)
    BY <1>1
  <2>3. CASE IsNeeded(k)
    <3>1. /\ IsCopy(m, k, outs[k]) /\ N(k) \in Nat /\ Place(k) \in Nat
          /\ outs[k + 1] = outs[k] + N(k) + 2
      BY <2>2, <2>3 DEF ChunkDone
    <3>2. IsSame(new, k, outs[k] + 1) /\ Behind(new, outs[k] + 1) = (outs[k] + N(k) + 2) + 1
      BY <1>1, <2>1, <3>1, CopyIsSame, SMTT(30)
    <3>3. SameChunk(new, k, outs[k] + 1)
      BY <3>2 DEF IsSame, SameChunk
    <3> QED  BY <2>2, <2>3, <3>1, <3>2, <3>3 DEF ChunkDone
  <2>4. CASE ~ IsNeeded(k)
    BY <2>2, <2>4 DEF ChunkDone
  <2> QED  BY <2>3, <2>4
<1> HIDE DEF new
<1>3. IsListed(new, j, outs)
  BY <1>1, <1>2 DEF IsListed
<1> QED  BY <1>2, <1>3 DEF new

(* All chunks to IEND are there.                                           *)
AllDone(m, s, j, outs) ==
  /\ ChunksDone(m, j, outs) /\ m[0] = <<"png">>
  /\ IsWholeAt(file, Place(j)) /\ Type(j) = "IEND" /\ N(j) \in Nat /\ IsCopy(m, j, outs[j])
  /\ s = outs[j] + N(j) + 2

LEMMA AllRight ==
  ASSUME NEW m, NEW s, NEW j, NEW outs, AllDone(m, s, j, outs)
  PROVE  KeepsChunks(Cells(m, 0, s)) /\ Cells(m, 0, s)[1] = <<"png">>
<1> DEFINE new == Cells(m, 0, s)
<1>1. /\ ChunksDone(m, j, outs) /\ m[0] = <<"png">>
      /\ IsWholeAt(file, Place(j)) /\ Type(j) = "IEND" /\ N(j) \in Nat /\ IsCopy(m, j, outs[j])
      /\ s = outs[j] + N(j) + 2 /\ outs[j] \in Nat /\ Place(j) \in Nat /\ Len(file) \in Nat
  BY DEF AllDone, ChunksDone
<1>2. s \in Nat /\ outs[j] <= s /\ s >= 1
  BY <1>1
<1>3. new[1] = <<"png">> /\ Len(new) = s
  BY <1>1, <1>2 DEF Cells
<1> HIDE DEF new
<1>4. IsListed(new, j, outs) /\ \A k \in 0 .. j - 1 : IsNeeded(k) => SameChunk(new, k, outs[k] + 1)
  BY <1>1, <1>2, DoneListed DEF new
<1>5. IsSame(new, j, outs[j] + 1) /\ Behind(new, outs[j] + 1) = s + 1
  BY <1>1, <1>2, CopyIsSame DEF new
<1>6. KeepsChunks(new)
  BY <1>1, <1>3, <1>4, <1>5, ListRight
<1> QED  BY <1>3, <1>6 DEF new

(* What follows the last whole chunk has been moved behind the others.     *)
LEMMA RestRight ==
  ASSUME NEW m, NEW s, NEW j, NEW outs, ChunksDone(m, j, outs), m[0] = <<"png">>,
         ~ IsWholeAt(file, Place(j)), s = outs[j] + (Len(file) - Place(j) + 1),
         \A x \in 0 .. Len(file) - Place(j) : m[outs[j] + x] = file[Place(j) + x]
  PROVE  KeepsChunks(Cells(m, 0, s)) /\ Cells(m, 0, s)[1] = <<"png">>
<1> DEFINE new == Cells(m, 0, s)
<1>1. PICK d, p, l : d = outs[j] /\ p = Place(j) /\ l = Len(file)
  OBVIOUS
<1>2. d \in Nat /\ d >= 1 /\ p \in Nat /\ l \in Nat /\ p <= l + 1
  <2>1. j \in 0..j
    BY DEF ChunksDone
  <2> QED  BY <1>1, <2>1 DEF ChunksDone
<1>3. s = d + (l - p + 1) /\ s \in Nat /\ s >= 1 /\ outs[j] <= s
  BY <1>1, <1>2, SMTT(30)
<1>4. new[1] = <<"png">> /\ Len(new) = s /\ \A x \in 1..s : new[x] = m[x - 1]
  BY <1>3 DEF Cells
<1> HIDE DEF new
<1>5. IsListed(new, j, outs) /\ \A k \in 0 .. j - 1 : IsNeeded(k) => SameChunk(new, k, outs[k] + 1)
  BY <1>3, DoneListed DEF new
<1>6. Rest(new, d + 1) = Rest(file, p)
  <2>1. PICK n : n = l - p + 1
    OBVIOUS
  <2>2. n \in Nat /\ s - (d + 1) + 1 = n
    BY <1>2, <1>3, <2>1
  <2>3. ASSUME NEW x \in 1..n
        PROVE  new[(d + 1) + x - 1] = file[p + x - 1]
    <3>1. /\ x - 1 \in 0 .. l - p /\ (d + 1) + x - 1 \in 1..s
          /\ ((d + 1) + x - 1) - 1 = d + (x - 1) /\ p + x - 1 = p + (x - 1)
      BY <1>2, <1>3, <2>1, <2>2
    <3>2. m[d + (x - 1)] = file[p + (x - 1)]
      BY <1>1, <3>1
    <3> QED  BY <1>4, <3>1, <3>2
  <2>4. Cells(new, d + 1, n) = Cells(file, p, n)
    BY <2>3 DEF Cells
  <2> QED  BY <1>1, <1>4, <2>1, <2>2, <2>4 DEF Rest
<1>7. KeepsChunks(new)
  BY <1>1, <1>4, <1>5, <1>6, ListRight
<1> QED  BY <1>4, <1>7 DEF new

-----------------------------------------------------------------------------
(* The last IDAT in front of the j-th chunk.                               *)
IsLastOf(l, j) ==
  /\ l \in 0 .. j - 1 /\ Type(l) = "IDAT"
  /\ \A k \in l + 1 .. j - 1 : Type(k) # "IDAT"

(* idat_addr is where it was moved to.                                     *)
IdatIs(j, outs) ==
  \/ idat_addr = nullptr /\ ~ Places[j].idat
  \/ idat_addr # nullptr /\ Places[j].idat /\ \E l : IsLastOf(l, j) /\ idat_addr = outs[l]

(* The loop is at the j-th chunk.                                          *)
Walked(j, outs) ==
  /\ ChunksDone(mem, j, outs) /\ IdatIs(j, outs)
  /\ p_read = (fp + Place(j)) - 1 /\ p_write = outs[j]

ChunksInv ==
  /\ file[1] = <<"png">>
  /\ pc \in {"chunks", "optimize"} => mem[0] = <<"png">>
  /\ pc = "chunks" => \E j, outs : Walked(j, outs)
  /\ pc = "optimize" => \E j, outs : AllDone(mem, size, j, outs) /\ IdatIs(j, outs)
  /\ SameChunks

(* Nothing of this changes with the buffer.                                *)
LEMMA SameWalk ==
  ASSUME UNCHANGED call, NEW m, NEW j, NEW outs, NEW s
  PROVE  /\ ChunksDone(m, j, outs) => ChunksDone(m, j, outs)'
         /\ AllDone(m, s, j, outs) => AllDone(m, s, j, outs)'
         /\ (IdatIs(j, outs) /\ UNCHANGED idat_addr => IdatIs(j, outs)')
         /\ UNCHANGED <<Place(j), fp, file, End, Before>>
         /\ (KeepsChunks(m) => KeepsChunks(m)')
<1>1. UNCHANGED <<file, setting, fp, End, Before>>
  BY SameCall
<1>2. UNCHANGED Places
  BY <1>1 DEF Places, NextPlace, IsLast, IsWholeAt, Behind
<1>3. ChunksDone(m, j, outs) => ChunksDone(m, j, outs)'
  BY <1>1, <1>2 DEF ChunksDone, ChunkDone, IsCopy, N, IsLast, IsNeeded, Place, Type, IsWholeAt
<1>4. AllDone(m, s, j, outs) => AllDone(m, s, j, outs)'
  BY <1>1, <1>2, <1>3 DEF AllDone, IsCopy, N, Place, Type, IsWholeAt
<1>5. IdatIs(j, outs) /\ UNCHANGED idat_addr => IdatIs(j, outs)'
  BY <1>1, <1>2 DEF IdatIs, IsLastOf, Place, Type
<1>6. KeepsChunks(m) => KeepsChunks(m)'
  <2>1. UNCHANGED NewPlaces(m)
    BY <1>1, <1>2 DEF NewPlaces, IsLast, IsNeeded, IsWholeAt, Behind, Place, Type
  <2> QED
    BY <1>1, <1>2, <2>1 DEF KeepsChunks, SameChunk, IsLastIdat, IsNeeded, IsWholeAt, Behind, Rest,
                            DataAt, CrcAt, Place, Type
<1> QED  BY <1>1, <1>2, <1>3, <1>4, <1>5, <1>6 DEF Place

(* The chunk at p_read is the j-th one of the file.                        *)
LEMMA AtChunk ==
  ASSUME PngInv, pc = "chunks", NEW j, NEW outs, Walked(j, outs)
  PROVE  /\ IsWhole <=> IsWholeAt(file, Place(j))
         /\ \A x \in 0 .. Len(file) - Place(j) : mem[p_read + x] = file[Place(j) + x]
         /\ p_read + (Len(file) - Place(j) + 1) = End
         /\ IsWhole => /\ N(j) \in Nat /\ chunk_length = N(j) + 2 /\ chunk_type = Type(j)
                       /\ ShouldRemove <=> ~ IsNeeded(j)
<1>1. PICK p, l, d : p = Place(j) /\ l = Len(file) /\ d = fp
  OBVIOUS
<1>2. p \in Nat /\ l \in Nat /\ d \in Nat /\ p <= l + 1 /\ p >= 2 /\ p_read = (d + p) - 1
      /\ End = d + l
  BY <1>1, Addresses DEF Walked, ChunksDone
<1>3. ASSUME NEW x \in 0 .. l - p
      PROVE  mem[p_read + x] = file[p + x]
  <2>1. p_read + x \in p_read .. End /\ p_read + x \in 0 .. End /\ p_read + x \in d .. End - 1
        /\ (p_read + x) - d + 1 = p + x
    BY <1>2
  <2>2. mem[p_read + x] = Before[p_read + x]
    BY <2>1 DEF PngInv, UnreadIntact
  <2> QED  BY <1>1, <2>1, <2>2 DEF Before
<1>4. p_read < End <=> p <= l
  BY <1>2
<1>5. ASSUME p <= l
      PROVE  /\ mem[p_read] = file[p] /\ N(j) \in Nat
             /\ chunk_length = N(j) + 2 /\ chunk_type = Type(j)
  <2>1. 0 \in 0 .. l - p /\ p_read + 0 = p_read /\ p + 0 = p
    BY <1>2, <1>5
  <2>2. mem[p_read] = file[p]
    BY <1>3, <2>1
  <2>3. mem[p_read][3] \in Nat
    BY <1>4, <1>5, ChunkLength
  <2> QED  BY <1>1, <2>2, <2>3 DEF N, Type, chunk_length, chunk_type
<1>6. IsWhole <=> IsWholeAt(file, p)
  <2>1. CASE p <= l
    <3>1. PICK n : n = N(j) /\ n \in Nat
      BY <1>5, <2>1
    <3>2. IsWhole <=> p_read + (n + 2) <= End
      BY <1>4, <1>5, <2>1, <3>1 DEF IsWhole
    <3>3. IsWholeAt(file, p) <=> p + n + 1 <= l
      BY <1>1, <2>1, <3>1 DEF IsWholeAt, N
    <3>4. p_read + (n + 2) <= End <=> p + n + 1 <= l
      BY <1>2, <3>1
    <3> QED  BY <3>2, <3>3, <3>4
  <2>2. CASE ~ (p <= l)
    BY <1>1, <1>4, <2>2 DEF IsWhole, IsWholeAt
  <2> QED  BY <2>1, <2>2
<1>7. IsWhole => p <= l
  BY <1>4 DEF IsWhole
<1>8. ASSUME IsWhole
      PROVE  ShouldRemove <=> ~ IsNeeded(j)
  <2>1. chunk_type = Type(j)
    BY <1>5, <1>7, <1>8
  <2>2. idat_addr = nullptr <=> ~ Places[j].idat
    BY DEF Walked, IdatIs
  <2> QED  BY <2>1, <2>2 DEF ShouldRemove, IsNeeded
<1>9. p_read + (l - p + 1) = End
  BY <1>2
<1> QED  BY <1>1, <1>3, <1>5, <1>6, <1>7, <1>8, <1>9

(* What Leanify leaves need not have been compressed by ZopfliPNG.         *)
LEMMA DoneRight ==
  ASSUME ChunksInv, UNCHANGED call, pc' = "done", NEW m, NEW s, m = mem', s = size',
         KeepsChunks(Cells(m, 0, s)), Cells(m, 0, s)[1] = <<"png">>
  PROVE  ChunksInv'
<1>1. UNCHANGED file
  BY SameCall
<1>2. PICK out : out = Cells(m, 0, s)
  OBVIOUS
<1>3. KeepsChunks(out)' /\ out[1][1] # "zopflipng"
  BY <1>2, SameWalk
<1>4. Cells(mem, fp_w, size)' = out
  BY <1>2 DEF Cells, fp_w
<1> QED  BY <1>1, <1>3, <1>4 DEF ChunksInv, SameChunks

LEMMA ChunksInit ==
  ASSUME PngAssumption, Init, file[1] = <<"png">>
  PROVE  ChunksInv
BY DEF Init, Called, ChunksInv, SameChunks

LEMMA HeaderWalk == ASSUME PngInv, ChunksInv, Header PROVE ChunksInv'
<1>1. /\ pc = "start" /\ pc' = "chunks" /\ mem' = MemMove(mem, 0, fp, 1)
      /\ p_read' = p_read + 1 /\ p_write' = p_write + 1 /\ UNCHANGED <<call, size, idat_addr>>
  BY DEF Header, fp_w
<1>2. /\ fp \in Nat /\ Len(file) \in Nat \ {0} /\ p_read = fp /\ p_write = 0 /\ idat_addr = nullptr
      /\ End \in Nat /\ fp < End /\ DOMAIN mem = 0 .. End
  BY <1>1, Addresses DEF PngInv, Cursors, Buffer
<1>3. mem'[0] = <<"png">>
  <2>1. 0 \in DOMAIN mem /\ 0 < 0 + 1 /\ 0 - 0 + fp = fp
    BY <1>2
  <2>2. mem'[0] = mem[fp]
    BY <1>1, <2>1 DEF MemMove
  <2>3. fp \in p_read .. End /\ fp \in 0 .. End /\ fp \in fp .. End - 1 /\ fp - fp + 1 = 1
    BY <1>2
  <2>4. mem[fp] = file[1]
    BY <1>1, <2>3 DEF PngInv, UnreadIntact, Before
  <2> QED  BY <2>2, <2>4 DEF ChunksInv
<1> DEFINE outs == [k \in 0..0 |-> 1]
<1>4. PICK m : m = mem'
  OBVIOUS
<1>5. Place(0) = 2 /\ Places[0].idat = FALSE
  <2>1. Places[0] = [at |-> 2, idat |-> FALSE]
    BY <1>2, PlacesAre
  <2> QED  BY <2>1 DEF Place
<1>6. ChunksDone(m, 0, outs)
  <2>1. outs[0] = 1 /\ \A k \in 0..0 : outs[k] \in 1 .. outs[0]
    OBVIOUS
  <2> HIDE DEF outs
  <2>2. IsOrdered(outs, 0)
    BY <2>1 DEF IsOrdered
  <2>3. Len(file) \in Nat /\ 2 <= Len(file) + 1
    BY <1>2
  <2> QED  BY <1>5, <2>1, <2>2, <2>3 DEF ChunksDone
<1>7. IdatIs(0, outs)
  BY <1>2, <1>5 DEF IdatIs
<1>8. outs[0] = 1
  OBVIOUS
<1> HIDE DEF outs
<1>9. PICK o : o = outs
  OBVIOUS
<1>10. Walked(0, o)'
  <2>1. ChunksDone(m, 0, o)' /\ IdatIs(0, o)' /\ UNCHANGED <<Place(0), fp>>
    BY <1>1, <1>6, <1>7, <1>9, SameWalk
  <2>2. p_read' = (fp + 2) - 1 /\ p_write' = 1
    BY <1>1, <1>2
  <2> QED  BY <1>4, <1>5, <1>8, <1>9, <2>1, <2>2 DEF Walked
<1>11. UNCHANGED file
  BY <1>1, SameCall
<1> QED  BY <1>1, <1>3, <1>10, <1>11 DEF ChunksInv, SameChunks

(* A chunk that is removed is not needed; ...                              *)
LEMMA RemoveWalk == ASSUME PngInv, ChunksInv, RemoveChunk PROVE ChunksInv'
<1>1. /\ pc = "chunks" /\ IsWhole /\ ShouldRemove
      /\ p_read' = p_read + chunk_length /\ UNCHANGED <<call, mem, pc, size, p_write, idat_addr>>
  BY DEF RemoveChunk, locals
<1>2. PICK j, outs : Walked(j, outs)
  BY <1>1 DEF ChunksInv
<1>3. /\ IsWholeAt(file, Place(j)) /\ N(j) \in Nat /\ chunk_length = N(j) + 2
      /\ chunk_type = Type(j) /\ ~ IsNeeded(j)
  BY <1>1, <1>2, AtChunk
<1>4. Type(j) \notin Critical
  BY <1>3 DEF IsNeeded
<1>5. ~ IsLast(Places[j]) /\ Type(j) # "IDAT"
  BY <1>3, <1>4 DEF IsLast, Critical, Place, Type
<1>6. /\ ChunksDone(mem, j, outs) /\ IdatIs(j, outs) /\ j \in Nat
      /\ outs[j] \in Nat /\ Place(j) \in Nat
      /\ p_read = (fp + Place(j)) - 1 /\ p_write = outs[j] /\ fp \in Nat
  BY <1>2, Addresses DEF Walked, ChunksDone
<1>7. PICK m, o, d : m = mem /\ d = outs[j] /\ o = Longer(outs, j, d)
  OBVIOUS
<1>8. /\ ChunksDone(m, j + 1, o) /\ o[j + 1] = d /\ Place(j + 1) = Place(j) + N(j) + 2
      /\ Places[j + 1].idat = (Places[j].idat \/ Type(j) = "IDAT")
      /\ AgreeTo(o, outs, j)
  <2>1. SameBelow(m, m, outs[j])
    BY DEF SameBelow
  <2> QED  BY <1>3, <1>5, <1>6, <1>7, <2>1, OneMore
<1>9. IdatIs(j + 1, o)
  <2>1. Places[j + 1].idat <=> Places[j].idat
    BY <1>5, <1>8
  <2>2. ASSUME NEW l, IsLastOf(l, j)
        PROVE  IsLastOf(l, j + 1) /\ o[l] = outs[l]
    <3>1. l \in 0 .. j - 1 /\ l \in 0 .. (j + 1) - 1 /\ l \in 0..j
          /\ \A k \in l + 1 .. (j + 1) - 1 : k = j \/ k \in l + 1 .. j - 1
      BY <1>6, <2>2 DEF IsLastOf
    <3> QED  BY <1>5, <1>8, <2>2, <3>1 DEF IsLastOf, AgreeTo
  <2> QED  BY <1>6, <2>1, <2>2 DEF IdatIs
<1>10. PICK i : i = j + 1
  OBVIOUS
<1>11. Walked(i, o)'
  <2>1. ChunksDone(m, i, o)' /\ IdatIs(i, o)' /\ UNCHANGED <<Place(i), fp>>
    BY <1>1, <1>8, <1>9, <1>10, SameWalk
  <2>2. p_read' = (fp + (Place(j) + N(j) + 2)) - 1
    BY <1>1, <1>3, <1>6
  <2> QED  BY <1>1, <1>6, <1>7, <1>8, <1>10, <2>1, <2>2 DEF Walked
<1>12. UNCHANGED file
  BY <1>1, SameCall
<1> QED  BY <1>1, <1>11, <1>12 DEF ChunksInv, SameChunks

(* ... any other is copied to behind the last one.                         *)
LEMMA MoveWalk == ASSUME PngInv, ChunksInv, MoveChunk PROVE ChunksInv'
<1>1. /\ pc = "chunks" /\ IsWhole /\ ~ ShouldRemove
      /\ mem' = MemMove(mem, p_write, p_read, chunk_length)
      /\ p_read' = p_read + chunk_length /\ p_write' = p_write + chunk_length
      /\ idat_addr' = IF chunk_type = "IDAT" THEN p_write ELSE idat_addr
      /\ IF chunk_type = "IEND" THEN pc' = "optimize" /\ size' = p_write' - 0
                                ELSE UNCHANGED <<pc, size>>
      /\ UNCHANGED call
  BY DEF MoveChunk, fp_w
<1>2. PICK j, outs : Walked(j, outs)
  BY <1>1 DEF ChunksInv
<1>3. /\ IsWholeAt(file, Place(j)) /\ N(j) \in Nat /\ chunk_length = N(j) + 2
      /\ chunk_type = Type(j) /\ IsNeeded(j)
      /\ \A x \in 0 .. Len(file) - Place(j) : mem[p_read + x] = file[Place(j) + x]
      /\ p_read + (Len(file) - Place(j) + 1) = End
  BY <1>1, <1>2, AtChunk
<1>4. /\ ChunksDone(mem, j, outs) /\ IdatIs(j, outs) /\ j \in Nat
      /\ outs[j] \in Nat /\ Place(j) \in Nat
      /\ p_read = (fp + Place(j)) - 1 /\ p_write = outs[j] /\ fp \in Nat /\ outs[j] >= 1
      /\ p_write + fp <= p_read /\ Len(file) \in Nat /\ End \in Nat /\ p_read \in Nat
      /\ DOMAIN mem = 0 .. End
  <2>1. j \in 0..j
    BY <1>2 DEF Walked, ChunksDone
  <2> QED  BY <1>2, <2>1, Addresses DEF Walked, ChunksDone, PngInv, Buffer
<1>5. PICK m, o, d, w, n : /\ m = mem' /\ w = outs[j] /\ n = N(j) /\ d = w + n + 2
                           /\ o = Longer(outs, j, d)
  OBVIOUS
<1>6. Place(j) + n + 1 <= Len(file)
  BY <1>3, <1>5 DEF IsWholeAt, N
<1>7. /\ w \in Nat /\ w >= 1 /\ n \in Nat /\ w <= p_read /\ p_read + n + 1 <= End
      /\ m = MemMove(mem, w, p_read, n + 2)
  <2>1. m = MemMove(mem, w, p_read, n + 2)
    BY <1>1, <1>3, <1>4, <1>5
  <2> PICK p, e, l, q : p = p_read /\ e = End /\ l = Len(file) /\ q = Place(j) /\ fp \in Nat
    BY <1>4
  <2>2. /\ w \in Nat /\ w >= 1 /\ n \in Nat /\ w + fp <= p /\ p + (l - q + 1) = e /\ q + n + 1 <= l
        /\ p \in Nat /\ e \in Nat /\ l \in Nat /\ q \in Nat
    BY <1>3, <1>4, <1>5, <1>6
  <2>3. w <= p /\ p + n + 1 <= e
    BY <2>2, SMTT(30)
  <2> QED  BY <2>1, <2>2, <2>3
<1>8. \A x \in 0 .. w - 1 : m[x] = mem[x]
  <2>1. \A x \in 0 .. w - 1 : x \in DOMAIN mem /\ ~ (x >= w)
    BY <1>4, <1>7
  <2> QED  BY <1>7, <2>1 DEF MemMove
<1>9. IsCopy(m, j, w)
  <2> SUFFICES ASSUME NEW x \in 0 .. n + 1 PROVE m[w + x] = file[Place(j) + x]
    BY <1>5 DEF IsCopy
  <2>1. w + x \in 0 .. End /\ w + x >= w /\ w + x < w + (n + 2) /\ (w + x) - w + p_read = p_read + x
    BY <1>4, <1>7, SMTT(30)
  <2>2. m[w + x] = mem[p_read + x]
    BY <1>4, <1>7, <2>1 DEF MemMove
  <2>3. x \in 0 .. Len(file) - Place(j)
    <3> PICK l, q : l = Len(file) /\ q = Place(j)
      OBVIOUS
    <3>1. l \in Nat /\ q \in Nat /\ q + n + 1 <= l /\ n \in Nat
      BY <1>4, <1>6, <1>7
    <3> QED  BY <3>1
  <2> QED  BY <1>3, <2>2, <2>3
<1>10. p_read' = p_read + n + 2 /\ p_write' = d
  <2>1. p_read' = p_read + (n + 2) /\ p_write' = w + (n + 2)
    BY <1>1, <1>3, <1>4, <1>5
  <2>2. p_read + (n + 2) = p_read + n + 2 /\ w + (n + 2) = w + n + 2
    BY <1>4, <1>7
  <2> QED  BY <1>5, <2>1, <2>2
<1>11. m[0] = <<"png">>
  <2>1. 0 \in 0 .. w - 1
    BY <1>7
  <2> QED  BY <1>1, <1>8, <2>1 DEF ChunksInv
<1>12. UNCHANGED <<file, fp>>
  BY <1>1, SameCall
<1>13. CASE Type(j) = "IEND"
  <2>1. ChunksDone(m, j, outs)
    <3>1. SameBelow(m, mem, outs[j])
      BY <1>5, <1>8 DEF SameBelow
    <3> QED  BY <1>4, <3>1, StillDone
  <2>2. pc' = "optimize" /\ size' = d /\ UNCHANGED idat_addr
    <3>1. pc' = "optimize" /\ size' = d - 0 /\ UNCHANGED idat_addr
      BY <1>1, <1>3, <1>10, <1>13
    <3>2. d - 0 = d
      BY <1>5, <1>7
    <3> QED  BY <3>1, <3>2
  <2>3. AllDone(m, d, j, outs)
    BY <1>3, <1>5, <1>9, <1>11, <1>13, <2>1 DEF AllDone
  <2>4. AllDone(m, d, j, outs)' /\ IdatIs(j, outs)'
    BY <1>1, <1>4, <2>2, <2>3, SameWalk
  <2> QED  BY <1>5, <1>11, <1>12, <2>2, <2>4 DEF ChunksInv, SameChunks
<1>14. CASE Type(j) # "IEND"
  <2>1. ~ IsLast(Places[j])
    BY <1>3, <1>14 DEF IsLast, Place, Type
  <2>2. /\ ChunksDone(m, j + 1, o) /\ o[j + 1] = d /\ Place(j + 1) = Place(j) + N(j) + 2
        /\ Places[j + 1].idat = (Places[j].idat \/ Type(j) = "IDAT")
        /\ AgreeTo(o, outs, j)
    <3>1. /\ N(j) \in Nat /\ SameBelow(m, mem, outs[j])
          /\ d = IF IsNeeded(j) THEN outs[j] + N(j) + 2 ELSE outs[j]
          /\ IsNeeded(j) => IsCopy(m, j, outs[j])
      BY <1>3, <1>5, <1>8, <1>9 DEF SameBelow
    <3>2. ChunksDone(mem, j, outs) /\ o = Longer(outs, j, d)
      BY <1>4, <1>5
    <3>3. /\ ChunksDone(m, j + 1, Longer(outs, j, d)) /\ Longer(outs, j, d)[j + 1] = d
          /\ Place(j + 1) = Place(j) + N(j) + 2
          /\ Places[j + 1].idat = (Places[j].idat \/ Type(j) = "IDAT")
          /\ AgreeTo(Longer(outs, j, d), outs, j)
      BY <2>1, <3>1, <3>2, OneMore
    <3> QED  BY <3>2, <3>3
  <2>3. UNCHANGED pc /\ idat_addr' = IF Type(j) = "IDAT" THEN w ELSE idat_addr
    BY <1>1, <1>3, <1>4, <1>5, <1>14
  <2> PICK i, a : i = j + 1 /\ a = idat_addr'
    OBVIOUS
  <2>4. \/ a = nullptr /\ ~ Places[i].idat
        \/ a # nullptr /\ Places[i].idat /\ \E l : IsLastOf(l, i) /\ a = o[l]
    <3>1. CASE Type(j) = "IDAT"
      <4>1. a = w /\ a # nullptr /\ Places[i].idat /\ o[j] = w
        <5>1. j \in 0..j
          BY <1>4
        <5>2. a = w /\ o[j] = w
          BY <1>5, <2>2, <2>3, <3>1, <5>1 DEF AgreeTo
        <5>3. a # nullptr
          BY <1>7, <5>2 DEF nullptr
        <5> QED  BY <2>2, <3>1, <5>2, <5>3
      <4>2. IsLastOf(j, i)
        <5>1. j \in 0 .. i - 1 /\ j + 1 .. i - 1 = {}
          BY <1>4
        <5> QED  BY <3>1, <5>1 DEF IsLastOf
      <4> QED  BY <4>1, <4>2
    <3>2. CASE Type(j) # "IDAT"
      <4>1. a = idat_addr /\ (Places[i].idat <=> Places[j].idat)
        BY <2>2, <2>3, <3>2
      <4>2. ASSUME NEW l, IsLastOf(l, j)
            PROVE  IsLastOf(l, i) /\ o[l] = outs[l]
        <5>1. l \in 0 .. j - 1 /\ l \in 0 .. i - 1 /\ l \in 0..j
              /\ \A k \in l + 1 .. i - 1 : k = j \/ k \in l + 1 .. j - 1
          BY <1>4, <4>2 DEF IsLastOf
        <5> QED  BY <2>2, <3>2, <4>2, <5>1 DEF IsLastOf, AgreeTo
      <4> QED  BY <1>4, <4>1, <4>2 DEF IdatIs
    <3> QED  BY <3>1, <3>2
  <2>5. UNCHANGED <<Places, file>>
    BY <1>12 DEF Places, NextPlace, IsLast, IsWholeAt, Behind
  <2>6. IdatIs(i, o)'
    BY <2>4, <2>5 DEF IdatIs, IsLastOf, Type, Place
  <2>7. ChunksDone(m, i, o)'
    BY <1>1, <2>2, SameWalk
  <2>8. p_read' = (fp + Place(i)) - 1 /\ UNCHANGED Place(i)
    <3>1. Place(i) = Place(j) + n + 2
      BY <1>5, <2>2
    <3>2. p_read + n + 2 = (fp + (Place(j) + n + 2)) - 1
      <4> PICK p, f, q : p = p_read /\ f = fp /\ q = Place(j)
        OBVIOUS
      <4>1. p = (f + q) - 1 /\ f \in Nat /\ q \in Nat /\ n \in Nat
        BY <1>4, <1>7
      <4> QED  BY <4>1
    <3> QED  BY <1>10, <2>5, <3>1, <3>2 DEF Place
  <2>9. Walked(i, o)'
    BY <1>5, <1>10, <1>12, <2>2, <2>6, <2>7, <2>8 DEF Walked
  <2> QED  BY <1>1, <1>5, <1>11, <1>12, <2>3, <2>9 DEF ChunksInv, SameChunks
<1> QED  BY <1>13, <1>14

LEMMA TruncatedWalk == ASSUME PngInv, ChunksInv, Truncated PROVE ChunksInv'
<1>1. /\ pc = "chunks" /\ ~ IsWhole /\ pc' = "done"
      /\ mem' = MemMove(mem, p_write, p_read, End - p_read)
      /\ size' = size - (p_read - p_write - fp) /\ UNCHANGED call
  BY DEF Truncated
<1>2. PICK j, outs : Walked(j, outs)
  BY <1>1 DEF ChunksInv
<1>3. /\ ~ IsWholeAt(file, Place(j))
      /\ \A x \in 0 .. Len(file) - Place(j) : mem[p_read + x] = file[Place(j) + x]
      /\ p_read + (Len(file) - Place(j) + 1) = End
  BY <1>1, <1>2, AtChunk
<1>4. ChunksDone(mem, j, outs) /\ j \in Nat /\ outs[j] \in Nat /\ Place(j) \in Nat
      /\ p_read = (fp + Place(j)) - 1 /\ p_write = outs[j] /\ fp \in Nat /\ outs[j] >= 1
      /\ p_write + fp <= p_read /\ Len(file) \in Nat /\ End = fp + Len(file) /\ p_read \in Nat
      /\ DOMAIN mem = 0 .. End /\ p_read <= End /\ size = Len(file)
  <2>1. j \in 0..j
    BY <1>2 DEF Walked, ChunksDone
  <2>2. outs[j] \in 1 .. outs[j] /\ outs[j] \in Nat
    BY <1>2, <2>1 DEF Walked, ChunksDone
  <2>3. ChunksDone(mem, j, outs) /\ j \in Nat /\ outs[j] \in Nat /\ Place(j) \in Nat
        /\ p_read = (fp + Place(j)) - 1 /\ p_write = outs[j]
    BY <1>2 DEF Walked, ChunksDone
  <2>4. DOMAIN mem = 0 .. End /\ size = Len(file)
    BY <1>1 DEF PngInv, Buffer, Cursors
  <2>5. outs[j] >= 1
    BY <2>2
  <2> QED  BY <2>3, <2>4, <2>5, Addresses
<1>5. PICK m, w, n, s, p, e : /\ m = mem' /\ w = outs[j] /\ n = End - p_read /\ s = size'
                              /\ p = p_read /\ e = End
  OBVIOUS
<1>6. /\ w \in Nat /\ w >= 1 /\ n \in Nat /\ w <= p /\ p + n = e /\ m = MemMove(mem, w, p, n)
      /\ p \in Nat /\ e \in Nat /\ DOMAIN mem = 0..e /\ n = Len(file) - Place(j) + 1
      /\ s = w + n
  <2> PICK l, q, f : l = Len(file) /\ q = Place(j) /\ f = fp
    OBVIOUS
  <2>1. s = l - (p - w - f) /\ m = MemMove(mem, w, p, n) /\ DOMAIN mem = 0..e
    BY <1>1, <1>4, <1>5
  <2>2. /\ w \in Nat /\ w >= 1 /\ f \in Nat /\ w + f <= p /\ p \in Nat /\ e \in Nat /\ l \in Nat
        /\ q \in Nat /\ p <= e /\ n = e - p /\ p + (l - q + 1) = e /\ e = f + l
    <3>1. /\ w \in Nat /\ w >= 1 /\ f \in Nat /\ w + f <= p /\ p \in Nat /\ l \in Nat
          /\ q \in Nat /\ p <= e /\ n = e - p /\ e = f + l
      BY <1>4, <1>5
    <3>2. p + (l - q + 1) = e
      BY <1>3, <1>5
    <3>3. e \in Nat
      BY <3>1
    <3> QED  BY <3>1, <3>2, <3>3
  <2>3. n \in Nat /\ w <= p /\ p + n = e /\ n = l - q + 1 /\ s = w + n
    BY <2>1, <2>2, SMTT(30)
  <2> QED  BY <2>1, <2>2, <2>3
<1>7. \A x \in 0 .. w - 1 : m[x] = mem[x]
  <2>1. \A x \in 0 .. w - 1 : x \in 0..e /\ ~ (x >= w)
    BY <1>6
  <2> QED  BY <1>6, <2>1 DEF MemMove
<1>8. ASSUME NEW x \in 0 .. Len(file) - Place(j)
      PROVE  m[w + x] = file[Place(j) + x]
  <2>1. x \in 0 .. n - 1
    <3> PICK l, q : l = Len(file) /\ q = Place(j)
      OBVIOUS
    <3>1. l \in Nat /\ q \in Nat /\ n = l - q + 1 /\ x \in 0 .. l - q
      BY <1>4, <1>6
    <3> QED  BY <3>1
  <2>2. w + x \in 0..e /\ w + x >= w /\ w + x < w + n /\ (w + x) - w + p = p + x
    BY <1>6, <2>1
  <2>3. m[w + x] = mem[p + x]
    BY <1>6, <2>2 DEF MemMove
  <2> QED  BY <1>3, <1>5, <2>3
<1>9. m[0] = <<"png">>
  <2>1. 0 \in 0 .. w - 1
    BY <1>6
  <2> QED  BY <1>1, <1>7, <2>1 DEF ChunksInv
<1>10. ChunksDone(m, j, outs)
  <2>1. SameBelow(m, mem, outs[j])
    BY <1>5, <1>7 DEF SameBelow
  <2> QED  BY <1>4, <2>1, StillDone
<1>11. s = outs[j] + (Len(file) - Place(j) + 1)
  BY <1>5, <1>6
<1>12. \A x \in 0 .. Len(file) - Place(j) : m[outs[j] + x] = file[Place(j) + x]
  BY <1>5, <1>8
<1>13. KeepsChunks(Cells(m, 0, s)) /\ Cells(m, 0, s)[1] = <<"png">>
  BY <1>3, <1>9, <1>10, <1>11, <1>12, RestRight
<1> QED  BY <1>1, <1>5, <1>13, DoneRight

(* What ZopfliPNG was given keeps the chunks.                              *)
LEMMA OptimizeRight ==
  ASSUME PngInv, ChunksInv, NEW r \in 1 .. Len(file), Optimize(r)
  PROVE  ChunksInv'
<1>1. /\ pc = "optimize" /\ r < size /\ pc' = "done" /\ size' = r /\ UNCHANGED call
      /\ mem' = Put(mem, 0, ZopfliPNG(Cells(mem, 0, size), r))
  BY DEF Optimize, fp_w
<1>2. PICK j, outs : AllDone(mem, size, j, outs)
  BY <1>1 DEF ChunksInv
<1>3. PICK new, t : new = Cells(mem, 0, size) /\ t = ZopfliPNG(new, r)
  OBVIOUS
<1>4. KeepsChunks(new)
  BY <1>2, <1>3, AllRight
<1>5. r \in Nat /\ r >= 1 /\ End \in Nat /\ r < End /\ DOMAIN mem = 0 .. End
  BY <1>1, Addresses DEF PngInv, Buffer
<1>6. Len(t) = r /\ t = [k \in 1..r |-> t[k]] /\ t[1][1] = "zopflipng" /\ t[1][2] = new
  BY <1>3, <1>5 DEF ZopfliPNG
<1>7. ASSUME NEW k \in 1..r
      PROVE  mem'[0 + k - 1] = t[k]
  <2>1. /\ k - 1 \in 0 .. End /\ k - 1 >= 0 /\ k - 1 < 0 + Len(t) /\ (k - 1) - 0 + 1 = k
        /\ 0 + k - 1 = k - 1
    BY <1>5, <1>6
  <2> QED  BY <1>1, <1>3, <1>5, <2>1 DEF Put
<1>8. Cells(mem', 0, r) = t
  BY <1>6, <1>7 DEF Cells
<1>9. KeepsChunks(new)' /\ UNCHANGED file
  BY <1>1, <1>4, SameWalk, SameCall
<1>10. Cells(mem, fp_w, size)' = t
  BY <1>1, <1>8 DEF Cells, fp_w
<1>11. SameChunks'
  <2>1. size' > 0 /\ t = ZopfliPNG(new, r)
    BY <1>1, <1>3, <1>5
  <2>2. t = ZopfliPNG(new, r)'
    BY <1>1, <2>1 DEF ZopfliPNG
  <2> QED  BY <1>1, <1>6, <1>9, <1>10, <2>1, <2>2 DEF SameChunks
<1> QED  BY <1>1, <1>9, <1>11 DEF ChunksInv

LEMMA NoIdatRight == ASSUME ChunksInv, NoIdat PROVE ChunksInv'
<1>1. pc = "optimize" /\ pc' = "done" /\ UNCHANGED <<call, mem, size>>
  BY DEF NoIdat
<1>2. PICK j, outs : AllDone(mem, size, j, outs)
  BY <1>1 DEF ChunksInv
<1>3. PICK m, s : m = mem /\ s = size
  OBVIOUS
<1>4. KeepsChunks(Cells(m, 0, s)) /\ Cells(m, 0, s)[1] = <<"png">>
  BY <1>2, <1>3, AllRight
<1> QED  BY <1>1, <1>3, <1>4, DoneRight

-----------------------------------------------------------------------------
(* The n cells of the IDAT at a have become r, and what follows has moved. *)
Recompressed(m2, m, s, a, n, r) ==
  LET t == Lean(Cells(m, a + 1, n), r)
  IN  /\ SameBelow(m2, m, a) /\ m2[a] = <<"chunk", "IDAT", r>>
      /\ Len(t) = r /\ Cells(m2, a + 1, r) = t /\ m2[a + r + 1] = Crc(t)
      /\ \A x \in a + r + 2 .. s - (n - r) - 1 : m2[x] = m[x + (n - r)]

(* A chunk behind it has moved, ...                                        *)
LEMMA MovedForward ==
  ASSUME NEW m, NEW m2, NEW s \in Nat, NEW a \in Nat, NEW n \in Nat, NEW r \in Nat, r < n,
         Recompressed(m2, m, s, a, n, r), NEW k, NEW d \in Nat, IsCopy(m, k, d),
         N(k) \in Nat, a + n + 2 <= d, d + N(k) + 2 <= s
  PROVE  IsCopy(m2, k, d - (n - r))
<1> PICK c, u : c = n - r /\ u = N(k)
  OBVIOUS
<1>1. c \in Nat /\ u \in Nat /\ a + r + 2 <= d - c /\ d + u + 2 <= s /\ s - c \in Int
  OBVIOUS
<1> SUFFICES ASSUME NEW x \in 0 .. u + 1 PROVE m2[(d - c) + x] = file[Place(k) + x]
  BY DEF IsCopy
<1>2. (d - c) + x \in a + r + 2 .. s - c - 1 /\ (d - c) + x + c = d + x
  BY <1>1
<1>3. m2[(d - c) + x] = m[d + x]
  BY <1>2 DEF Recompressed
<1> QED  BY <1>3 DEF IsCopy

(* ... and one in front of it has not.                                     *)
LEMMA LeftInFront ==
  ASSUME NEW m, NEW m2, NEW a \in Nat, SameBelow(m2, m, a), NEW k, NEW d \in Nat, IsCopy(m, k, d),
         N(k) \in Nat, d + N(k) + 2 <= a
  PROVE  IsCopy(m2, k, d)
<1> SUFFICES ASSUME NEW x \in 0 .. N(k) + 1 PROVE m2[d + x] = file[Place(k) + x]
  BY DEF IsCopy
<1>1. d + x \in 0 .. a - 1
  OBVIOUS
<1> QED  BY <1>1 DEF IsCopy, SameBelow

(* The memory m, done up to the chunk j, has become the h cells of m2 when *)
(* its last IDAT, the chunk l, came out with r cells at a instead of n.    *)
LastShrunk(m, m2, s, j, outs, l, a, n, r, h) ==
  /\ AllDone(m, s, j, outs) /\ IsLastOf(l, j) /\ a = outs[l] /\ n = N(l)
  /\ r \in Nat /\ r < n /\ Recompressed(m2, m, s, a, n, r) /\ h = s - (n - r)

LEMMA RecompressedRight ==
  ASSUME NEW m, NEW m2, NEW s, NEW j, NEW outs, NEW l, NEW a, NEW n, NEW r, NEW h,
         LastShrunk(m, m2, s, j, outs, l, a, n, r, h)
  PROVE  KeepsChunks(Cells(m2, 0, h)) /\ Cells(m2, 0, h)[1] = <<"png">>
<1> PICK c, new : c = n - r /\ new = Cells(m2, 0, h)
  OBVIOUS
<1>0. /\ AllDone(m, s, j, outs) /\ IsLastOf(l, j) /\ a = outs[l] /\ n = N(l)
      /\ r \in Nat /\ r < n /\ Recompressed(m2, m, s, a, n, r) /\ h = s - (n - r)
  BY DEF LastShrunk
<1>1. /\ ChunksDone(m, j, outs) /\ m[0] = <<"png">>
      /\ IsWholeAt(file, Place(j)) /\ Type(j) = "IEND" /\ N(j) \in Nat /\ IsCopy(m, j, outs[j])
      /\ s = outs[j] + N(j) + 2 /\ outs[j] \in Nat /\ Place(j) \in Nat /\ Len(file) \in Nat
      /\ j \in 0 .. Len(file) /\ outs[0] = 1 /\ IsOrdered(outs, j)
      /\ \A k \in 0..j : outs[k] \in 1 .. outs[j]
      /\ \A k \in 0 .. j - 1 : ChunkDone(m, k, outs)
  BY <1>0, InRange DEF AllDone, ChunksDone
<1>2. /\ l \in 0 .. j - 1 /\ l \in 0..j /\ l + 1 \in 0..j /\ Type(l) = "IDAT"
      /\ \A k \in l + 1 .. j - 1 : Type(k) # "IDAT"
  <2>1. j \in Nat
    BY <1>1
  <2>2. l \in 0 .. j - 1
    BY <1>0 DEF IsLastOf
  <2>3. l \in 0..j /\ l + 1 \in 0..j
    BY <2>1, <2>2
  <2> QED  BY <1>0, <2>2, <2>3 DEF IsLastOf
<1>3. /\ ChunkDone(m, l, outs) /\ IsNeeded(l)
  BY <1>1, <1>2 DEF IsNeeded, Critical
<1>4. /\ n \in Nat /\ Place(l) \in Nat /\ outs[l + 1] = a + n + 2 /\ IsCopy(m, l, a)
      /\ a \in Nat /\ a >= 1 /\ outs[l + 1] <= outs[j]
  <2>1. a \in 1 .. outs[j] /\ outs[l + 1] \in 1 .. outs[j]
    BY <1>0, <1>1, <1>2
  <2>2. n \in Nat /\ Place(l) \in Nat /\ outs[l + 1] = a + n + 2 /\ IsCopy(m, l, a)
    BY <1>0, <1>3 DEF ChunkDone
  <2> QED  BY <1>1, <2>1, <2>2
<1>5. /\ c \in Nat /\ s \in Nat /\ h \in Nat /\ a + n + 2 <= outs[j] /\ a + n + 2 <= s
      /\ a <= h /\ h >= 1 /\ h = (outs[j] - c) + N(j) + 2 /\ outs[j] - c \in Nat
  <2> PICK o, u : o = outs[j] /\ u = N(j)
    OBVIOUS
  <2>1. /\ o \in Nat /\ u \in Nat /\ s = o + u + 2 /\ a + n + 2 <= o /\ n \in Nat /\ a \in Nat
        /\ a >= 1 /\ c = n - r /\ h = s - c
    BY <1>0, <1>1, <1>4
  <2> QED  BY <1>0, <2>1
<1> DEFINE new_outs == [k \in 0..j |-> IF k <= l THEN outs[k] ELSE outs[k] - c]
<1>6. new[1] = <<"png">> /\ Len(new) = h
  <2>1. 0 \in 0 .. a - 1
    BY <1>4
  <2>2. m2[0] = <<"png">>
    BY <1>0, <1>1, <2>1 DEF Recompressed, SameBelow
  <2> QED  BY <1>5, <2>2 DEF Cells
<1>7. ASSUME NEW k \in l + 1 .. j
      PROVE  /\ outs[k] \in Nat /\ a + n + 2 <= outs[k] /\ outs[k] - c \in Nat /\ k \in 0..j
             /\ new_outs[k] = outs[k] - c
  <2>1. k \in 0..j /\ l + 1 \in 0..k /\ ~ (k <= l)
    <3>1. j \in Nat
      BY <1>1
    <3>2. l \in 0 .. j - 1
      BY <1>2
    <3> QED  BY <3>1, <3>2
  <2>2. outs[l + 1] <= outs[k]
    BY <1>1, <2>1 DEF IsOrdered
  <2>3. outs[k] \in Nat
    BY <1>1, <2>1
  <2>4. outs[k] - c \in Nat
    BY <1>0, <1>4, <1>5, <2>2, <2>3
  <2> QED  BY <1>4, <2>1, <2>2, <2>3, <2>4
<1>8. ASSUME NEW k \in 0..l
      PROVE  outs[k] \in Nat /\ outs[k] <= a /\ k \in 0..j /\ new_outs[k] = outs[k]
  <2>1. k \in 0..j /\ k <= l
    BY <1>1, <1>2
  <2>2. outs[k] <= outs[l]
    <3>1. l \in 0..j /\ k \in 0..l
      BY <1>2
    <3> QED  BY <1>1, <3>1 DEF IsOrdered
  <2>3. outs[k] \in 1 .. outs[j]
    BY <1>1, <2>1
  <2> QED  BY <1>0, <1>1, <2>1, <2>2, <2>3
<1> HIDE DEF new_outs
<1>9. IsLastIdat(l)
  <2>1. IsLast(Places[j])
    BY <1>1 DEF IsLast, Place, Type
  <2>2. \A k \in j .. Len(file) : Places[k] = Places[j]
    BY <1>1, <2>1, WalkStops
  <2>3. IsWholeAt(file, Place(Len(file)))
    <3>1. Len(file) \in j .. Len(file)
      BY <1>1
    <3> QED  BY <1>1, <2>2, <3>1 DEF Place
  <2>4. ASSUME NEW k \in l + 1 .. Len(file)
        PROVE  Type(k) # "IDAT"
    <3>1. CASE k < j
      <4>1. k \in l + 1 .. j - 1
        BY <1>1, <1>2, <3>1
      <4> QED  BY <1>2, <4>1
    <3>2. CASE k >= j
      <4>1. k \in j .. Len(file)
        BY <1>1, <1>2, <3>2
      <4>2. Type(k) = Type(j)
        BY <2>2, <4>1 DEF Type, Place
      <4> QED  BY <1>1, <4>2
    <3> QED  BY <1>1, <1>2, <3>1, <3>2
  <2> QED  BY <1>2, <2>3, <2>4 DEF IsLastIdat
<1>10. SameChunk(new, l, a + 1) /\ Behind(new, a + 1) = (a + n + 2) - c + 1
  <2> PICK p, q, t : p = Place(l) /\ q = a + 1 /\ t = Lean(Cells(m, a + 1, n), r)
    OBVIOUS
  <2>1. /\ h \in Nat /\ q \in Nat /\ q >= 1 /\ q + r + 1 <= h /\ p \in Nat /\ q = a + 1
        /\ a \in Nat /\ n \in Nat /\ n = N(l) /\ IsCopy(m, l, a) /\ IsLastIdat(l)
        /\ Type(l) = "IDAT"
    BY <1>0, <1>2, <1>4, <1>5, <1>9
  <2>2. Len(new) = h /\ \A x \in 1..h : new[x] = m2[x - 1]
    BY <2>1 DEF Cells
  <2>3. new[q] = <<"chunk", "IDAT", r>>
    <3>1. q \in 1..h /\ q - 1 = a
      BY <1>0, <2>1
    <3>2. m2[a] = <<"chunk", "IDAT", r>>
      BY <1>0 DEF Recompressed
    <3> QED  BY <2>2, <3>1, <3>2
  <2>4. new[q][2] = "IDAT" /\ new[q][3] = r
    BY <2>3
  <2>5. IsWholeAt(new, q) /\ Behind(new, q) = q + r + 2
    <3>1. q <= h /\ q + r + 1 <= h
      BY <1>0, <2>1
    <3>2. Len(new) = h
      BY <2>2
    <3> QED  BY <2>4, <3>1, <3>2 DEF IsWholeAt, Behind
  <2>6. Len(t) = r /\ Cells(m2, q, r) = t /\ m2[a + r + 1] = Crc(t)
    BY <1>0 DEF Recompressed
  <2>7. DataAt(new, q) = t
    <3>1. ASSUME NEW x \in 1..r
          PROVE  new[(q + 1) + x - 1] = m2[q + x - 1]
      <4>1. (q + 1) + x - 1 \in 1..h /\ ((q + 1) + x - 1) - 1 = q + x - 1
        BY <1>0, <2>1
      <4> QED  BY <2>2, <4>1
    <3>2. Cells(new, q + 1, r) = Cells(m2, q, r)
      BY <3>1 DEF Cells
    <3> QED  BY <2>4, <2>6, <3>2 DEF DataAt
  <2>8. CrcAt(new, q) = Crc(t)
    <3>1. q + r + 1 \in 1..h /\ (q + r + 1) - 1 = a + r + 1
      BY <1>0, <2>1
    <3> QED  BY <2>2, <2>4, <2>6, <3>1 DEF CrcAt
  <2>9. DataAt(file, p) = Cells(m, q, n)
    <3>1. ASSUME NEW x \in 1..n
          PROVE  file[(p + 1) + x - 1] = m[q + x - 1]
      <4>1. x \in 0 .. n + 1 /\ (p + 1) + x - 1 = p + x /\ q + x - 1 = a + x
        BY <2>1
      <4>2. m[a + x] = file[p + x]
        BY <2>1, <4>1 DEF IsCopy
      <4> QED  BY <4>1, <4>2
    <3>2. Cells(file, p + 1, n) = Cells(m, q, n)
      BY <3>1 DEF Cells
    <3> QED  BY <2>1, <3>2 DEF DataAt, N
  <2>10. IsLeanOf(t, DataAt(file, p))
    BY <2>6, <2>9 DEF IsLeanOf
  <2>11. SameChunk(new, l, q)
    BY <2>1, <2>4, <2>5, <2>7, <2>8, <2>10 DEF SameChunk
  <2>12. q + r + 2 = (a + n + 2) - c + 1
    BY <1>0, <1>4, <1>5
  <2> QED  BY <2>5, <2>11, <2>12
<1>11. ASSUME NEW k \in 0 .. j - 1
       PROVE  /\ ~ IsLast(Places[k])
              /\ new_outs[k + 1] + 1 = IF IsNeeded(k) THEN Behind(new, new_outs[k] + 1)
                                       ELSE new_outs[k] + 1
              /\ IsNeeded(k) => SameChunk(new, k, new_outs[k] + 1)
  <2>1. ChunkDone(m, k, outs)
    BY <1>1
  <2>2. CASE k = l
    <3>1. new_outs[k] = a
      <4>1. l \in 0..l
        BY <1>2
      <4> QED  BY <1>0, <1>8, <2>2, <4>1
    <3>2. new_outs[k + 1] = (a + n + 2) - c
      <4>1. l + 1 \in l + 1 .. j
        BY <1>1, <1>2
      <4> QED  BY <1>4, <1>7, <2>2, <4>1
    <3> QED  BY <1>3, <1>10, <2>1, <2>2, <3>1, <3>2 DEF ChunkDone
  <2>3. CASE k < l
    <3>1. k \in 0..l /\ k + 1 \in 0..l
      <4>1. l \in Nat /\ k \in Nat
        BY <1>1, <1>2
      <4> QED  BY <2>3, <4>1
    <3>2. /\ new_outs[k] = outs[k] /\ new_outs[k + 1] = outs[k + 1] /\ outs[k] \in Nat
          /\ outs[k + 1] <= a
      BY <1>8, <3>1
    <3>3. CASE IsNeeded(k)
      <4>1. /\ IsCopy(m, k, outs[k]) /\ N(k) \in Nat /\ Place(k) \in Nat
            /\ outs[k + 1] = outs[k] + N(k) + 2
        BY <2>1, <3>3 DEF ChunkDone
      <4>2. IsCopy(m2, k, outs[k])
        <5>1. SameBelow(m2, m, a)
          BY <1>0 DEF Recompressed
        <5> QED  BY <1>4, <3>2, <4>1, <5>1, LeftInFront
      <4>3. outs[k] + N(k) + 2 <= h
        <5> PICK o : o = outs[k] + N(k) + 2
          OBVIOUS
        <5>1. o <= a /\ o \in Nat
          BY <3>2, <4>1
        <5> QED  BY <1>4, <1>5, <5>1
      <4>4. IsSame(new, k, outs[k] + 1) /\ Behind(new, outs[k] + 1) = (outs[k] + N(k) + 2) + 1
        <5>1. h \in Nat /\ outs[k] \in Nat /\ Len(file) \in Nat
          BY <1>1, <1>5, <3>2
        <5> QED  BY <4>1, <4>2, <4>3, <5>1, CopyIsSame
      <4>5. SameChunk(new, k, outs[k] + 1)
        BY <4>4 DEF IsSame, SameChunk
      <4> QED  BY <2>1, <3>2, <3>3, <4>1, <4>4, <4>5 DEF ChunkDone
    <3>4. CASE ~ IsNeeded(k)
      BY <2>1, <3>2, <3>4 DEF ChunkDone
    <3> QED  BY <3>3, <3>4
  <2>4. CASE k > l
    <3>1. k \in l + 1 .. j /\ k + 1 \in l + 1 .. j
      <4>1. j \in Nat /\ k \in 0 .. j - 1
        BY <1>1
      <4>2. l \in 0 .. j - 1
        BY <1>2
      <4> QED  BY <2>4, <4>1, <4>2
    <3>2. /\ new_outs[k] = outs[k] - c /\ new_outs[k + 1] = outs[k + 1] - c /\ outs[k] \in Nat
          /\ a + n + 2 <= outs[k] /\ outs[k] - c \in Nat /\ outs[k + 1] <= outs[j]
      BY <1>1, <1>7, <3>1
    <3>3. CASE IsNeeded(k)
      <4>1. /\ IsCopy(m, k, outs[k]) /\ N(k) \in Nat /\ Place(k) \in Nat
            /\ outs[k + 1] = outs[k] + N(k) + 2
        BY <2>1, <3>3 DEF ChunkDone
      <4> PICK d, e, u : d = outs[k] /\ e = d - c /\ u = N(k)
        OBVIOUS
      <4>2. /\ d \in Nat /\ u \in Nat /\ e \in Nat /\ d + u + 2 <= s /\ e + u + 2 <= h
            /\ e + u + 2 = (d + u + 2) - c /\ a + n + 2 <= d
        <5> PICK o, v : o = outs[j] /\ v = N(j)
          OBVIOUS
        <5>1. /\ o \in Nat /\ v \in Nat /\ s = o + v + 2 /\ h = s - c /\ c \in Nat /\ d \in Nat
              /\ u \in Nat /\ e \in Nat /\ e = d - c /\ d + u + 2 <= o /\ a + n + 2 <= d
          BY <1>0, <1>1, <1>5, <3>2, <4>1
        <5> QED  BY <5>1
      <4>3. IsCopy(m2, k, e)
        BY <1>0, <1>4, <1>5, <4>1, <4>2, MovedForward
      <4>4. IsSame(new, k, e + 1) /\ Behind(new, e + 1) = (e + u + 2) + 1
        <5>1. h \in Nat /\ Len(file) \in Nat
          BY <1>1, <1>5
        <5>2. e + N(k) + 2 <= h
          BY <4>2
        <5>3. e \in Nat /\ N(k) \in Nat /\ Place(k) \in Nat
          BY <4>1, <4>2
        <5>4. /\ IsSame(Cells(m2, 0, h), k, e + 1)
              /\ Behind(Cells(m2, 0, h), e + 1) = (e + N(k) + 2) + 1
          BY <4>3, <5>1, <5>2, <5>3, CopyIsSame, SMTT(30)
        <5> QED  BY <5>4
      <4>5. SameChunk(new, k, e + 1)
        BY <4>4 DEF IsSame, SameChunk
      <4>6. new_outs[k] = e /\ new_outs[k + 1] = e + u + 2
        BY <3>2, <4>1, <4>2
      <4> QED  BY <2>1, <3>3, <4>4, <4>5, <4>6 DEF ChunkDone
    <3>4. CASE ~ IsNeeded(k)
      BY <2>1, <3>2, <3>4 DEF ChunkDone
    <3> QED  BY <3>3, <3>4
  <2> QED  BY <1>1, <1>2, <2>2, <2>3, <2>4
<1>12. IsListed(new, j, new_outs)
  <2>1. new_outs[0] = 1
    <3>1. 0 \in 0..l
      BY <1>2
    <3> QED  BY <1>1, <1>8, <3>1
  <2> QED  BY <1>1, <1>11, <2>1 DEF IsListed
<1>13. IsSame(new, j, new_outs[j] + 1) /\ Behind(new, new_outs[j] + 1) = Len(new) + 1
  <2>1. j \in l + 1 .. j
    BY <1>1, <1>2
  <2>2. new_outs[j] = outs[j] - c
    BY <1>7, <2>1
  <2> PICK e : e = outs[j] - c
    OBVIOUS
  <2>3. e \in Nat /\ e + N(j) + 2 = h
    BY <1>5
  <2>4. outs[j] + N(j) + 2 <= s
    BY <1>1, <1>5
  <2>5. IsCopy(m2, j, e)
    BY <1>0, <1>1, <1>4, <1>5, <2>4, MovedForward
  <2>6. e + N(j) + 2 <= h
    BY <1>5, <2>3
  <2>7. IsSame(new, j, e + 1) /\ Behind(new, e + 1) = (e + N(j) + 2) + 1
    <3>1. /\ h \in Nat /\ Len(file) \in Nat /\ N(j) \in Nat /\ Place(j) \in Nat
      BY <1>1, <1>5
    <3>2. e \in Nat
      BY <2>3
    <3> QED  BY <2>5, <2>6, <3>1, <3>2, CopyIsSame
  <2> QED  BY <1>6, <2>2, <2>3, <2>7
<1>14. KeepsChunks(new)
  BY <1>1, <1>6, <1>11, <1>12, <1>13, ListRight
<1> QED  BY <1>6, <1>14

(* What is written to the buffer is there, and nothing else has changed.   *)
SameBut(m2, m, h, lo, hi) ==
  DOMAIN m2 = 0..h /\ \A x \in 0..h : x < lo \/ x >= hi => m2[x] = m[x]

LEMMA PutCells ==
  ASSUME NEW m, NEW h \in Nat, DOMAIN m = 0..h, NEW d \in Nat, NEW n \in Nat, NEW e, e = d + n,
         e <= h, NEW t, Len(t) = n, t = [k \in 1..n |-> t[k]], NEW m2, m2 = Put(m, d, t)
  PROVE  SameBut(m2, m, h, d, e) /\ Cells(m2, d, n) = t
<1>1. SameBut(m2, m, h, d, e)
  BY DEF Put, SameBut
<1>2. ASSUME NEW k \in 1..n
      PROVE  m2[d + k - 1] = t[k]
  <2> PICK x : x = d + k - 1
    OBVIOUS
  <2>1. x \in 0..h /\ x >= d /\ x < d + n /\ x - d + 1 = k
    OBVIOUS
  <2> QED  BY <2>1 DEF Put
<1> QED  BY <1>1, <1>2 DEF Cells

(* In m2 the cell v is at d of m, of which h is the end, e being d + 1.    *)
OnePut(m2, m, h, d, e, v) ==
  /\ h \in Nat /\ DOMAIN m = 0..h /\ d \in Nat /\ d < h /\ e = d + 1
  /\ \E t : Len(t) = 1 /\ t[1] = v /\ m2 = Put(m, d, t)

LEMMA PutOne ==
  ASSUME NEW m2, NEW m, NEW h, NEW d, NEW e, NEW v, OnePut(m2, m, h, d, e, v)
  PROVE  SameBut(m2, m, h, d, e) /\ m2[d] = v
<1>1. PICK t : /\ h \in Nat /\ DOMAIN m = 0..h /\ d \in Nat /\ d < h /\ e = d + 1
               /\ Len(t) = 1 /\ t[1] = v /\ m2 = Put(m, d, t)
  BY DEF OnePut
<1>2. m2[d] = v
  <2>1. d \in 0..h /\ d - d + 1 = 1 /\ d < d + 1 /\ d >= d
    BY <1>1
  <2> QED  BY <1>1, <2>1 DEF Put
<1>3. SameBut(m2, m, h, d, e)
  BY <1>1 DEF Put, SameBut
<1> QED  BY <1>2, <1>3

(* The steps of which the IDAT is written again.                           *)
Rewritten(m4, m, s, a, n, r) ==
  \E m1, m2, m3, c, t, d, q, o :
    /\ d = a + 1 /\ q = d + r /\ o = a + n + 2
    /\ t = Lean(Cells(m, d, n), r) /\ Len(t) = r /\ t = [k \in 1..r |-> t[k]]
    /\ m1 = Put(m, d, t) /\ m2 = Put(m1, a, <<<<"chunk", "IDAT", r>>>>)
    /\ c = Crc(Cells(m1, d, r)) /\ m3 = Put(m2, q, <<c>>) /\ m4 = MemMove(m3, q + 1, o, s - o)

LEMMA RewrittenIs ==
  ASSUME NEW m, NEW h \in Nat, DOMAIN m = 0..h, NEW s \in Nat, s <= h, NEW a \in Nat,
         NEW n \in Nat, NEW r \in Nat, r < n, a + n + 2 <= s,
         NEW m4, Rewritten(m4, m, s, a, n, r)
  PROVE  Recompressed(m4, m, s, a, n, r)
<1>1. PICK m1, m2, m3, c, t, d, q, o :
        /\ d = a + 1 /\ q = d + r /\ o = a + n + 2
        /\ t = Lean(Cells(m, d, n), r) /\ Len(t) = r /\ t = [k \in 1..r |-> t[k]]
        /\ m1 = Put(m, d, t) /\ m2 = Put(m1, a, <<<<"chunk", "IDAT", r>>>>)
        /\ c = Crc(Cells(m1, d, r)) /\ m3 = Put(m2, q, <<c>>) /\ m4 = MemMove(m3, q + 1, o, s - o)
  BY DEF Rewritten
<1>2. /\ d \in Nat /\ q \in Nat /\ d = a + 1 /\ q = d + r /\ q < h /\ a < h /\ q <= h
      /\ o \in Nat /\ o = a + n + 2 /\ q + 1 = a + r + 2 /\ o <= s
  <2>1. d = a + 1 /\ q = d + r /\ o = a + n + 2
    BY <1>1
  <2> QED  BY <2>1
<1>3. SameBut(m1, m, h, d, q) /\ Cells(m1, d, r) = t
  <2>1. Len(t) = r /\ m1 = Put(m, d, t) /\ t = [k \in 1..r |-> t[k]]
    BY <1>1
  <2> QED  BY <1>2, <2>1, PutCells, SMTT(30)
<1>4. SameBut(m2, m1, h, a, d) /\ m2[a] = <<"chunk", "IDAT", r>>
  <2>1. DOMAIN m1 = 0..h
    BY <1>3 DEF SameBut
  <2>2. PICK v, e : v = <<"chunk", "IDAT", r>> /\ e = <<v>>
    OBVIOUS
  <2>3. m2 = Put(m1, a, e) /\ Len(e) = 1 /\ e[1] = v
    BY <1>1, <2>2
  <2>4. OnePut(m2, m1, h, a, d, v)
    BY <1>2, <2>1, <2>3 DEF OnePut
  <2> QED  BY <2>2, <2>4, PutOne
<1>0. PICK f : f = q + 1
  OBVIOUS
<1>5. SameBut(m3, m2, h, q, f) /\ m3[q] = c
  <2>1. DOMAIN m2 = 0..h
    BY <1>4 DEF SameBut
  <2>2. PICK e : e = <<c>>
    OBVIOUS
  <2>3. m3 = Put(m2, q, e) /\ Len(e) = 1 /\ e[1] = c
    BY <1>1, <2>2
  <2>4. q \in Nat /\ q < h /\ f = q + 1
    BY <1>0, <1>2
  <2>5. OnePut(m3, m2, h, q, f, c)
    BY <2>1, <2>3, <2>4 DEF OnePut
  <2> QED  BY <2>5, PutOne
<1>6. \A x \in 0..h : x < q + 1 => m4[x] = m3[x]
  <2>1. DOMAIN m3 = 0..h
    BY <1>5 DEF SameBut
  <2> PICK p, l : p = q + 1 /\ l = s - o
    OBVIOUS
  <2>2. m4 = MemMove(m3, p, o, l)
    BY <1>1
  <2>3. p \in Nat
    BY <1>2
  <2> QED  BY <2>1, <2>2, <2>3 DEF MemMove
<1>7. ASSUME NEW x \in a + r + 2 .. s - (n - r) - 1
      PROVE  m4[x] = m3[x + (n - r)]
  <2>1. DOMAIN m3 = 0..h
    BY <1>5 DEF SameBut
  <2>2. PICK p, l, z : p = q + 1 /\ l = s - o /\ z = x + (n - r)
    OBVIOUS
  <2>3. m4 = MemMove(m3, p, o, l)
    BY <1>1, <2>2
  <2>4. x \in 0..h /\ x >= p /\ x < p + l /\ x - p + o = z
    BY <1>2, <2>2
  <2>5. x \in p .. p + l - 1 /\ x \in DOMAIN m3
    BY <1>2, <2>1, <2>2, <2>4
  <2>6. m4[x] = m3[x - p + o]
    BY <2>3, <2>5 DEF MemMove
  <2> QED  BY <2>2, <2>4, <2>6
<1>8. SameBelow(m4, m, a)
  <2> SUFFICES ASSUME NEW x \in 0 .. a - 1 PROVE m4[x] = m[x]
    BY DEF SameBelow
  <2>1. x \in 0..h /\ x < a /\ x < d /\ x < q /\ x < q + 1
    BY <1>2
  <2>2. m4[x] = m3[x]
    BY <1>6, <2>1
  <2>3. m3[x] = m2[x]
    BY <1>5, <2>1 DEF SameBut
  <2>4. m2[x] = m1[x]
    BY <1>4, <2>1 DEF SameBut
  <2>5. m1[x] = m[x]
    BY <1>3, <2>1 DEF SameBut
  <2> QED  BY <2>2, <2>3, <2>4, <2>5
<1>9. m4[a] = <<"chunk", "IDAT", r>>
  <2>1. a \in 0..h /\ a < q /\ a < q + 1
    BY <1>2
  <2>2. m4[a] = m3[a]
    BY <1>6, <2>1
  <2>3. m3[a] = m2[a]
    BY <1>5, <2>1 DEF SameBut
  <2> QED  BY <1>4, <2>2, <2>3
<1>10. Cells(m4, d, r) = t
  <2>1. ASSUME NEW k \in 1..r
        PROVE  m4[d + k - 1] = m1[d + k - 1]
    <3>1. PICK x : x = d + k - 1
      OBVIOUS
    <3>2. x \in 0..h /\ x >= d /\ x < q /\ x < q + 1
      BY <1>2, <3>1
    <3>3. m4[x] = m3[x]
      BY <1>6, <3>2
    <3>4. m3[x] = m2[x]
      BY <1>5, <3>2 DEF SameBut
    <3>5. m2[x] = m1[x]
      BY <1>4, <3>2 DEF SameBut
    <3> QED  BY <3>1, <3>3, <3>4, <3>5
  <2>2. Cells(m4, d, r) = Cells(m1, d, r)
    BY <2>1 DEF Cells
  <2> QED  BY <1>3, <2>2
<1>11. m4[a + r + 1] = Crc(t)
  <2>1. q \in 0..h /\ q < q + 1 /\ a + r + 1 = q
    BY <1>2
  <2>2. m4[q] = m3[q]
    BY <1>6, <2>1
  <2> QED  BY <1>1, <1>3, <1>5, <2>1, <2>2
<1>12. ASSUME NEW x \in a + r + 2 .. s - (n - r) - 1
       PROVE  m4[x] = m[x + (n - r)]
  <2>1. PICK y : y = x + (n - r)
    OBVIOUS
  <2>2. y \in 0..h /\ y >= f /\ y >= q /\ y >= d
    BY <1>0, <1>2, <2>1
  <2>3. m4[x] = m3[y]
    BY <1>7, <2>1
  <2>4. m3[y] = m2[y]
    BY <1>5, <2>2 DEF SameBut
  <2>5. m2[y] = m1[y]
    BY <1>4, <2>2 DEF SameBut
  <2>6. m1[y] = m[y]
    BY <1>3, <2>2 DEF SameBut
  <2> QED  BY <2>1, <2>3, <2>4, <2>5, <2>6
<1>13. Len(t) = r /\ t = Lean(Cells(m, d, n), r)
  BY <1>1
<1> QED  BY <1>2, <1>8, <1>9, <1>10, <1>11, <1>12, <1>13 DEF Recompressed

(* The IDAT is compressed again, or nothing is.                            *)
LEMMA RecompressRight ==
  ASSUME PngInv, ChunksInv, NEW r \in 1 .. Len(file), RecompressIdat(r)
  PROVE  ChunksInv'
<1>1. PICK m, a, n, s, h : m = mem /\ a = idat_addr /\ n = m[a][3] /\ s = size /\ h = End
  OBVIOUS
<1>2. PICK d, o, m1, t, e, g :
        /\ d = a + 1 /\ o = d + n + 1 /\ t = Lean(Cells(m, d, n), r) /\ m1 = Put(m, d - 0, t)
        /\ e = Put(m1, a, <<<<"chunk", "IDAT", r>>>>)
        /\ g = Put(e, d + r, <<Crc(Cells(m1, d, r))>>)
  OBVIOUS
<1>3. /\ pc = "optimize" /\ pc' = "done" /\ a # nullptr /\ r \in ZlibSizes(m, d, n)
      /\ mem' = IF r = n THEN m1 ELSE MemMove(g, d + r + 1, o, 0 + s - o)
      /\ size' = s - (n - r) /\ UNCHANGED call
  BY <1>1, <1>2 DEF RecompressIdat, ZlibRecompressed, fp_w
<1>4. PICK j, outs : AllDone(m, s, j, outs) /\ IdatIs(j, outs)
  BY <1>1, <1>3 DEF ChunksInv
<1>5. PICK l : IsLastOf(l, j) /\ a = outs[l]
  BY <1>1, <1>3, <1>4 DEF IdatIs
<1>6. /\ ChunksDone(m, j, outs) /\ j \in Nat /\ l \in 0 .. j - 1 /\ l \in 0..j /\ l + 1 \in 0..j
      /\ s = outs[j] + N(j) + 2 /\ N(j) \in Nat /\ outs[j] \in Nat
  <2>1. l \in 0 .. j - 1 /\ j \in Nat
    BY <1>4, <1>5 DEF AllDone, ChunksDone, IsLastOf
  <2>2. l \in 0..j /\ l + 1 \in 0..j
    BY <2>1
  <2> QED  BY <1>4, <2>1, <2>2 DEF AllDone, ChunksDone
<1>7. /\ N(l) \in Nat /\ IsCopy(m, l, a) /\ outs[l + 1] = a + N(l) + 2 /\ Place(l) \in Nat
      /\ outs[l + 1] \in 1 .. outs[j] /\ a \in 1 .. outs[j]
  <2>1. ChunkDone(m, l, outs) /\ IsNeeded(l)
    BY <1>5, <1>6 DEF ChunksDone, IsLastOf, IsNeeded, Critical
  <2>2. outs[l + 1] \in 1 .. outs[j] /\ outs[l] \in 1 .. outs[j]
    BY <1>6 DEF ChunksDone
  <2> QED  BY <1>5, <2>1, <2>2 DEF ChunkDone
<1>8. n = N(l)
  <2>1. 0 \in 0 .. N(l) + 1 /\ a + 0 = a /\ Place(l) + 0 = Place(l)
    BY <1>6, <1>7, SMTT(30)
  <2>2. m[a] = file[Place(l)]
    BY <1>7, <2>1 DEF IsCopy
  <2> QED  BY <1>1, <2>2 DEF N
<1>9. /\ a \in Nat /\ n \in Nat /\ s \in Nat /\ h \in Nat /\ a + n + 2 <= s /\ s <= h /\ r \in Nat
      /\ DOMAIN m = 0..h /\ d \in Nat /\ d = a + 1 /\ r >= 1
  <2>1. /\ s \in Nat /\ h \in Nat /\ s <= h /\ DOMAIN m = 0..h /\ r \in Nat /\ r >= 1
    BY <1>1, Addresses DEF PngInv, Buffer
  <2>2. a \in Nat /\ n \in Nat /\ a + n + 2 <= s
    BY <1>6, <1>7, <1>8, SMTT(30)
  <2> QED  BY <1>2, <2>1, <2>2
<1>10. r <= n
  BY <1>3, <1>9 DEF ZlibSizes
<1>11. CASE r = n
  <2>1. t = Cells(m, d, n) /\ Len(t) = n
    <3>1. Len(Cells(m, d, n)) = n
      BY <1>9 DEF Cells
    <3> QED  BY <1>2, <1>9, <1>11, <3>1 DEF Lean
  <2>2. ASSUME NEW x \in 0..h
        PROVE  m1[x] = m[x]
    <3>1. m1[x] = IF x >= d /\ x < d + n THEN t[x - d + 1] ELSE m[x]
      <4>1. d - 0 = d
        BY <1>9
      <4>2. m1 = Put(m, d, t)
        BY <1>2, <4>1
      <4> QED  BY <1>9, <2>1, <4>2 DEF Put
    <3>2. CASE x >= d /\ x < d + n
      <4>1. x - d + 1 \in 1..n /\ d + (x - d + 1) - 1 = x
        BY <1>9, <3>2
      <4>2. t[x - d + 1] = m[d + (x - d + 1) - 1]
        BY <2>1, <4>1 DEF Cells
      <4> QED  BY <3>1, <3>2, <4>1, <4>2
    <3> QED  BY <3>1, <3>2
  <2>3. ChunksDone(m1, j, outs)
    <3>1. SameBelow(m1, m, outs[j])
      <4>1. \A x \in 0 .. outs[j] - 1 : x \in 0..h
        BY <1>6, <1>9, SMTT(30)
      <4> QED  BY <2>2, <4>1 DEF SameBelow
    <3> QED  BY <1>6, <3>1, StillDone
  <2>4. IsCopy(m1, j, outs[j])
    <3> SUFFICES ASSUME NEW x \in 0 .. N(j) + 1 PROVE m1[outs[j] + x] = file[Place(j) + x]
      BY DEF IsCopy
    <3>1. outs[j] + x \in 0..h
      BY <1>6, <1>9, SMTT(30)
    <3>2. m[outs[j] + x] = file[Place(j) + x]
      BY <1>4 DEF AllDone, IsCopy
    <3> QED  BY <2>2, <3>1, <3>2
  <2>5. m1[0] = <<"png">>
    <3>1. 0 \in 0..h
      BY <1>9
    <3> QED  BY <1>4, <2>2, <3>1 DEF AllDone
  <2>6. AllDone(m1, s, j, outs)
    BY <1>4, <2>3, <2>4, <2>5 DEF AllDone
  <2>7. KeepsChunks(Cells(m1, 0, s)) /\ Cells(m1, 0, s)[1] = <<"png">>
    BY <2>6, AllRight
  <2>8. m1 = mem' /\ s = size'
    <3>1. s - (n - r) = s
      BY <1>9, <1>11
    <3> QED  BY <1>3, <1>11, <3>1
  <2> QED  BY <1>3, <2>7, <2>8, DoneRight
<1>12. CASE r # n
  <2>1. r < n
    BY <1>9, <1>10, <1>12
  <2>2. Len(t) = r /\ t = [k \in 1..r |-> t[k]]
    <3> PICK u : u = Cells(m, d, n)
      OBVIOUS
    <3>1. u[1][1] = "zlib" /\ Len(u) = n
      <4>1. Len(Cells(m, d, n)) = n
        BY <1>9 DEF Cells
      <4> QED  BY <1>3, <1>12, <4>1 DEF ZlibSizes
    <3>2. t = Zlib(u[1][2], r)
      <4>1. u # <<>> /\ ~ (r >= Len(u))
        BY <1>9, <2>1, <3>1
      <4> QED  BY <1>2, <3>1, <4>1 DEF Lean
    <3> QED  BY <1>9, <3>2 DEF Zlib
  <2>3. PICK m4, z : m4 = mem' /\ z = size'
    OBVIOUS
  <2>4. Rewritten(m4, m, s, a, n, r)
    <3> PICK q, c : q = d + r /\ c = Crc(Cells(m1, d, r))
      OBVIOUS
    <3>1. d - 0 = d /\ o = a + n + 2 /\ 0 + s - o = s - o
      <4>1. o = d + n + 1
        BY <1>2
      <4> QED  BY <1>9, <4>1
    <3>2. /\ d = a + 1 /\ q = d + r /\ o = a + n + 2
          /\ t = Lean(Cells(m, d, n), r) /\ Len(t) = r /\ t = [k \in 1..r |-> t[k]]
          /\ m1 = Put(m, d, t) /\ e = Put(m1, a, <<<<"chunk", "IDAT", r>>>>)
          /\ c = Crc(Cells(m1, d, r)) /\ g = Put(e, q, <<c>>) /\ m4 = MemMove(g, q + 1, o, s - o)
      BY <1>2, <1>3, <1>12, <2>2, <2>3, <3>1
    <3> QED  BY <3>2, ZenonT(60) DEF Rewritten
  <2>5. Recompressed(m4, m, s, a, n, r)
    BY <1>9, <2>1, <2>4, RewrittenIs
  <2>6. KeepsChunks(Cells(m4, 0, z)) /\ Cells(m4, 0, z)[1] = <<"png">>
    <3>1. z = s - (n - r)
      BY <1>3, <2>3
    <3>2. AllDone(m, s, j, outs) /\ IsLastOf(l, j) /\ a = outs[l] /\ n = N(l) /\ r \in Nat
      BY <1>4, <1>5, <1>8, <1>9
    <3>3. LastShrunk(m, m4, s, j, outs, l, a, n, r, z)
      BY <2>1, <2>5, <3>1, <3>2 DEF LastShrunk
    <3> QED  BY <3>3, RecompressedRight
  <2> QED  BY <1>3, <2>3, <2>6, DoneRight
<1> QED  BY <1>11, <1>12

LEMMA ChunksStep == ASSUME PngInv, ChunksInv, [Next]_vars PROVE ChunksInv'
<1>1. CASE UNCHANGED vars
  <2>1. UNCHANGED <<call, mem, p_read, pc, size, p_write, idat_addr>>
    BY <1>1 DEF vars, locals
  <2>2. UNCHANGED <<file, setting, fp>>
    BY <2>1, SameCall
  <2>3. PICK m, s : m = mem /\ s = size
    OBVIOUS
  <2>4. CASE pc = "chunks"
    <3>1. PICK j, outs : Walked(j, outs)
      BY <2>4 DEF ChunksInv
    <3>2. ChunksDone(m, j, outs)' /\ IdatIs(j, outs)' /\ UNCHANGED Place(j)
      BY <2>1, <2>3, <3>1, SameWalk DEF Walked
    <3>3. Walked(j, outs)'
      BY <2>1, <2>2, <2>3, <3>1, <3>2 DEF Walked
    <3> QED  BY <2>1, <2>2, <2>4, <3>3 DEF ChunksInv, SameChunks
  <2>5. CASE pc = "optimize"
    <3>1. PICK j, outs : AllDone(m, s, j, outs) /\ IdatIs(j, outs)
      BY <2>3, <2>5 DEF ChunksInv
    <3>2. AllDone(m, s, j, outs)' /\ IdatIs(j, outs)'
      BY <2>1, <3>1, SameWalk
    <3> QED  BY <2>1, <2>2, <2>3, <2>5, <3>2 DEF ChunksInv, SameChunks
  <2>6. CASE pc = "done"
    <3>1. PICK out, new : /\ out = Cells(m, 0, s)
                          /\ new = IF s > 0 /\ out[1][1] = "zopflipng" THEN out[1][2] ELSE out
      OBVIOUS
    <3>2. (new # out => out = ZopfliPNG(new, s)) /\ KeepsChunks(new)
      BY <2>3, <2>6, <3>1 DEF ChunksInv, SameChunks, fp_w
    <3>3. KeepsChunks(new)'
      BY <2>1, <3>2, SameWalk
    <3>4. SameChunks'
      <4>1. Cells(mem, fp_w, size)' = out /\ s = size'
        BY <2>1, <2>3, <3>1 DEF fp_w, Cells
      <4>2. \A x, k : ZopfliPNG(x, k)' = ZopfliPNG(x, k)
        BY DEF ZopfliPNG
      <4> QED  BY <3>1, <3>2, <3>3, <4>1, <4>2 DEF SameChunks
    <3> QED  BY <2>1, <2>2, <2>6, <3>4 DEF ChunksInv
  <2> QED  BY <2>1, <2>2, <2>4, <2>5, <2>6 DEF ChunksInv, SameChunks
<1> QED  BY <1>1, HeaderWalk, TruncatedWalk, RemoveWalk, MoveWalk, NoIdatRight, OptimizeRight,
            RecompressRight DEF Next

(* README.md:4, README.md:149-157, png.cpp:23-158: of every image, damaged *)
(* or not, whichever way it ends, the chunks that are needed come out in   *)
(* their order as they were, but for the last IDAT, which may hold the same*)
(* data compressed better.                                                 *)
THEOREM KeepsItsChunks ==
  ASSUME PngAssumption, \A c \in Calls : c[1][1] = <<"png">>
  PROVE  Spec => []SameChunks
<1>1. Init => ChunksInv
  <2>1. Init => file[1] = <<"png">>
    BY DEF Init, Called
  <2> QED  BY <2>1, ChunksInit
<1>2. PngInv /\ ChunksInv /\ [Next]_vars => ChunksInv'
  BY ChunksStep
<1>3. ChunksInv => SameChunks
  BY DEF ChunksInv
<1> QED  BY <1>1, <1>2, <1>3, PngInvariance, PTL DEF Spec
=============================================================================
