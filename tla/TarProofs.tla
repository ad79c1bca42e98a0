------------------------------ MODULE TarProofs ------------------------------
(***************************************************************************)
(* What Tar::Leanify does for every archive, every room in front of it and *)
(* whatever its members shrink to:                                         *)
(*  - WorksInPlace: it never writes over a cell it has still to read;      *)
(*  - LoopEndsInTime: it only looks behind an archive that no record of    *)
(*    zeros ends, and only after something was saved;                      *)
(*  - KeepsToTheArchive: in an archive as tar writes it, whose records     *)
(*    follow each other up to two of zeros, nothing outside of the archive *)
(*    and the room in front is written to;                                 *)
(*  - KeepsMembers: the result holds the members of such an archive.       *)
(***************************************************************************)
EXTENDS Tar, WellFoundedInduction, TLAPS

(* What LeanifyFileAssumption says of archives.                            *)
TarAssumption ==
  /\ Block \in Nat \ {0}
  /\ \A c \in Calls : c[2].room \in Nat /\ Len(c[1]) \in Nat /\ IsConsidered(c[1])

(* p_write + size_leanified = p_read is what the loop keeps up.            *)
TarInv ==
  /\ fp \in Nat /\ Len(file) \in Nat /\ IsConsidered(file)
  /\ p_read \in Nat /\ p_write \in Nat /\ size_leanified \in Nat
  /\ p_read = p_write + size_leanified /\ fp <= p_read
  /\ DOMAIN mem = 0 .. End
  /\ UnreadIntact

(* utils.h:50-56: rounding up to whole records is monotonic and adds less  *)
(* than a record.                                                          *)
LEMMA RoundUpBounds ==
  ASSUME TarAssumption, NEW n \in Nat, NEW r \in 0..n
  PROVE  /\ RoundUp(n) \in Nat /\ RoundUp(r) \in Nat
         /\ n <= RoundUp(n) /\ r <= RoundUp(r) /\ RoundUp(r) <= RoundUp(n)
<1> DEFINE a == n + Block - 1
           b == r + Block - 1
<1>1. Block \in Nat /\ Block > 0 /\ a \in Nat /\ b \in Nat /\ b <= a
  BY DEF TarAssumption
<1>2. a \div Block \in Nat /\ b \div Block \in Nat
  BY <1>1
<1>3. /\ (a \div Block) * Block <= a /\ a < (a \div Block) * Block + Block
      /\ (b \div Block) * Block <= b /\ b < (b \div Block) * Block + Block
  BY <1>1
<1>4. (b \div Block) * Block <= (a \div Block) * Block
  <2> DEFINE x == a \div Block
             y == b \div Block
  <2>1. ASSUME x < y
        PROVE  FALSE
    <3>1. x + 1 <= y /\ x \in Nat /\ y \in Nat
      BY <1>2, <2>1
    <3> HIDE DEF x, y
    <3>2. PICK d \in Nat : y = x + 1 + d
      <4>1. y - x - 1 \in Nat /\ y = x + 1 + (y - x - 1)
        BY <3>1
      <4> QED  BY <4>1
    <3>3. y * Block = x * Block + Block + d * Block
      BY <1>1, <3>1, <3>2
    <3>4. x * Block \in Nat /\ y * Block \in Nat /\ d * Block \in Nat
      BY <1>1, <3>1
    <3> USE DEF x, y
    <3>5. y * Block <= b /\ a < x * Block + Block
      BY <1>3
    <3> HIDE DEF x, y
    <3> QED  BY <1>1, <3>3, <3>4, <3>5
  <2>2. y <= x /\ x \in Nat /\ y \in Nat
    BY <1>2, <2>1
  <2> HIDE DEF x, y
  <2>3. y * Block <= x * Block
    BY <1>1, <2>2
  <2> QED  BY <2>3 DEF x, y
<1>5. (a \div Block) * Block \in Nat /\ (b \div Block) * Block \in Nat
  BY <1>1, <1>2
<1> HIDE DEF a, b
<1>6. a = n + Block - 1 /\ b = r + Block - 1
  BY DEF a, b
<1>7. RoundUp(n) = (a \div Block) * Block /\ RoundUp(r) = (b \div Block) * Block
  BY <1>6 DEF RoundUp
<1> QED  BY <1>1, <1>3, <1>4, <1>5, <1>6, <1>7

(* leanify.cpp:138-142: what lies behind a file is left alone.             *)
LEMMA LeanifiedFrame ==
  ASSUME NEW m, NEW p \in Int, NEW n \in Nat, NEW slack \in Nat, NEW r,
         NEW x \in DOMAIN m, x \in Int, x > p + n - 1
  PROVE  FileLeanified(m, p, n, slack, r)[x] = m[x]
<1>1. x \notin p - slack .. p + n - 1
  OBVIOUS
<1>2. \A s : Leanified(m, p, n, slack, s)[x] = m[x]
  BY <1>1 DEF Leanified
<1> QED  BY <1>2 DEF FileLeanified

LEMMA FileLeanifiedDomain ==
  ASSUME NEW m, NEW p, NEW n, NEW slack, NEW r
  PROVE  DOMAIN FileLeanified(m, p, n, slack, r) = DOMAIN m
<1>1. \A s : DOMAIN Leanified(m, p, n, slack, s) = DOMAIN m
  BY DEF Leanified
<1> QED  BY <1>1 DEF FileLeanified

LEMMA TarInit == ASSUME TarAssumption, Init PROVE TarInv
<1>1. PICK c \in Calls : file = c[1] /\ setting = c[2]
  BY DEF Init, Called
<1>2. fp \in Nat /\ Len(file) \in Nat /\ IsConsidered(file)
  BY <1>1 DEF TarAssumption, fp
<1>3. mem = Before /\ p_read = fp /\ p_write = 0 /\ size_leanified = fp
  BY DEF Init, Called, Start, fp_w
<1>4. DOMAIN mem = 0 .. End
  BY <1>3 DEF Before
<1> QED  BY <1>2, <1>3, <1>4 DEF TarInv, UnreadIntact

(* What follows is intact if nothing behind the new p_read was written to. *)
LEMMA IntactBehind ==
  ASSUME TarInv, pc = "record", UNCHANGED call, NEW q \in Nat, p_read' = q, q >= p_read,
         \A x \in DOMAIN mem : x >= q => mem'[x] = mem[x]
  PROVE  UnreadIntact'
<1>1. Before' = Before /\ End' = End /\ End \in Nat
  BY DEF call, Before, End, fp, TarInv
<1>2. ASSUME NEW x \in q .. End
      PROVE  mem'[x] = Before[x]
  <2>1. x \in DOMAIN mem /\ x >= q /\ x \in p_read .. End
    BY <1>1 DEF TarInv
  <2>2. mem[x] = Before[x]
    BY <2>1 DEF TarInv, UnreadIntact
  <2> QED  BY <2>1, <2>2
<1> QED  BY <1>1, <1>2 DEF UnreadIntact

(* The numbers of a call, and where the buffer lies.                       *)
LEMMA Counters ==
  ASSUME TarAssumption, TarInv
  PROVE  /\ Block \in Nat /\ Block > 0 /\ fp \in Nat /\ fp <= p_read
         /\ p_read \in Nat /\ p_write \in Nat /\ size_leanified \in Nat
         /\ p_read = p_write + size_leanified
         /\ \A x \in DOMAIN mem : x \in Nat
<1>1. Block \in Nat /\ Block > 0
  BY DEF TarAssumption
<1>2. \A x \in 0 .. End : x \in Nat
  OBVIOUS
<1> QED  BY <1>1, <1>2 DEF TarInv

(* A step that passes n cells, which become k, and writes in front of what *)
(* follows them.                                                           *)
LEMMA AdvanceInv ==
  ASSUME TarAssumption, TarInv, pc = "record", NEW n \in Nat, NEW k \in 0..n, Advance(n, k),
         DOMAIN mem' = DOMAIN mem,
         \A x \in DOMAIN mem : x >= p_read + Block + n => mem'[x] = mem[x]
  PROVE  TarInv'
<1>1. /\ p_read' = p_read + Block + n /\ p_write' = p_write + Block + k
      /\ size_leanified' = size_leanified + n - k
      /\ UNCHANGED call
  BY DEF Advance
<1>2. UNCHANGED <<fp, End, file>>
  BY <1>1 DEF call, fp, End
<1>3. /\ p_read' \in Nat /\ p_write' \in Nat /\ size_leanified' \in Nat
      /\ p_read' = p_write' + size_leanified' /\ p_read <= p_read' /\ fp <= p_read'
  BY <1>1, Counters
<1>4. UnreadIntact'
  BY <1>1, <1>3, IntactBehind
<1>5. IsConsidered(file')
  BY <1>2 DEF TarInv
<1> QED  BY <1>2, <1>3, <1>4, <1>5 DEF TarInv, IsConsidered, IsHeader, RoundUp

(* The header where p_read points to is a header of the archive.           *)
LEMMA HeaderSize ==
  ASSUME TarAssumption, TarInv, NEW type, NEW n, Header(type, n)
  PROVE  n \in Nat /\ n = mem[p_read][4] /\ pc = "record"
<1>1. /\ pc = "record" /\ IsHeader(mem[p_read]) /\ n = mem[p_read][4]
      /\ p_read + Block <= fp + Len(file)
  BY DEF Header, Inside, End
<1>2. Len(file) \in Nat /\ fp \in Nat /\ Block \in Nat /\ Block > 0 /\ p_read \in Nat /\ fp <= p_read
  BY Counters DEF TarInv
<1>3. p_read \in 0 .. End /\ p_read \in p_read .. End /\ p_read \in fp .. End - 1
  BY <1>1, <1>2 DEF End
<1>4. mem[p_read] = Before[p_read]
  BY <1>1, <1>3 DEF TarInv, UnreadIntact
<1>5. Before[p_read] = file[p_read - fp + 1]
  BY <1>3 DEF Before
<1>6. p_read - fp + 1 \in 1 .. Len(file)
  BY <1>1, <1>2
<1> QED  BY <1>1, <1>4, <1>5, <1>6 DEF TarInv, IsConsidered

(* Moving the header writes in front of what follows it.                   *)
LEMMA HeaderMovedInv ==
  ASSUME TarAssumption, TarInv, NEW x \in DOMAIN mem
  PROVE  /\ DOMAIN HeaderMoved = DOMAIN mem
         /\ x >= p_read + Block => HeaderMoved[x] = mem[x]
<1>1. x \in Int
  BY DEF TarInv
<1>2. x >= p_read + Block => x \notin p_write .. p_write + Block - 1
  BY <1>1, Counters
<1> QED  BY <1>2 DEF HeaderMoved, MemMove

LEMMA HeaderMovedDomain == DOMAIN HeaderMoved = DOMAIN mem
BY DEF HeaderMoved, MemMove

LEMMA HeaderOnlyStep ==
  ASSUME TarAssumption, TarInv, BadRecord \/ EmptyMember
  PROVE  TarInv'
<1>1. pc = "record" /\ mem' = HeaderMoved /\ Advance(0, 0)
  BY DEF BadRecord, EmptyMember, Header
<1>2. DOMAIN mem' = DOMAIN mem
  BY <1>1, HeaderMovedDomain
<1>3. \A x \in DOMAIN mem : x >= p_read + Block + 0 => mem'[x] = mem[x]
  BY <1>1, HeaderMovedInv, Counters
<1> QED  BY <1>1, <1>2, <1>3, AdvanceInv

LEMMA MoveStep ==
  ASSUME TarAssumption, TarInv, MoveMember
  PROVE  TarInv'
<1> DEFINE n == mem[p_read][4]
<1>1. n \in Nat /\ pc = "record"
  BY HeaderSize DEF MoveMember
<1>2. RoundUp(n) \in Nat
  BY <1>1, RoundUpBounds
<1>3. /\ mem' = MemMove(HeaderMoved, p_write + Block, p_read + Block, RoundUp(n))
      /\ Advance(RoundUp(n), RoundUp(n))
  BY DEF MoveMember
<1>4. DOMAIN mem' = DOMAIN mem
  BY <1>3, HeaderMovedDomain DEF MemMove
<1>5. ASSUME NEW x \in DOMAIN mem, x >= p_read + Block + RoundUp(n)
      PROVE  mem'[x] = mem[x]
  <2>1. x \in Int
    BY DEF TarInv
  <2>2. x >= p_read + Block
    BY <1>2, <1>5, <2>1, Counters
  <2>3. x \notin p_write + Block .. p_write + Block + RoundUp(n) - 1
    BY <1>2, <1>5, <2>1, Counters
  <2>4. mem'[x] = HeaderMoved[x]
    BY <1>3, <2>3, HeaderMovedDomain DEF MemMove
  <2> QED  BY <2>2, <2>4, HeaderMovedInv
<1> HIDE DEF n
<1> QED  BY <1>1, <1>2, <1>3, <1>4, <1>5, AdvanceInv

LEMMA LeanifyStep ==
  ASSUME TarAssumption, TarInv, NEW r, LeanifyMember(r)
  PROVE  TarInv'
<1> DEFINE n == mem[p_read][4]
           m == FileLeanified(HeaderMoved, p_read + Block, n, size_leanified, r)
           h == <<Resized(mem[p_read], r)>>
           p == Put(m, p_write, h)
<1>1. n \in Nat /\ r \in 0..n /\ r \in Nat /\ pc = "record"
  BY HeaderSize DEF LeanifyMember, FileSizes
<1>2. /\ RoundUp(n) \in Nat /\ RoundUp(r) \in 0 .. RoundUp(n)
      /\ n <= RoundUp(n) /\ r <= RoundUp(r)
  BY <1>1, RoundUpBounds
<1>3. /\ mem' = MemSet(p, p_write + Block + r, Zero, Padding(r))
      /\ Advance(RoundUp(n), RoundUp(r))
  BY DEF LeanifyMember
<1>4. DOMAIN m = DOMAIN mem
  BY FileLeanifiedDomain, HeaderMovedDomain
<1>5. DOMAIN p = DOMAIN mem
  <2> HIDE DEF m, h
  <2> QED  BY <1>4 DEF Put
<1>6. DOMAIN mem' = DOMAIN mem
  <2> HIDE DEF p
  <2> QED  BY <1>3, <1>5 DEF MemSet
<1>7. ASSUME NEW x \in DOMAIN mem, x >= p_read + Block + RoundUp(n)
      PROVE  mem'[x] = mem[x]
  <2>1. x \in Int
    BY DEF TarInv
  <2>2. x >= p_read + Block /\ x > p_read + Block + n - 1
    <3> HIDE DEF n
    <3> QED  BY <1>1, <1>2, <1>7, <2>1, Counters
  <2>3. mem'[x] = p[x]
    <3> HIDE DEF n
    <3>1. p_write + Block + r + Padding(r) <= x
      BY <1>1, <1>2, <1>7, <2>1, Counters DEF Padding
    <3>2. x \notin p_write + Block + r .. p_write + Block + r + Padding(r) - 1
      BY <1>1, <1>2, <3>1, <2>1, Counters DEF Padding
    <3> HIDE DEF p
    <3> QED  BY <1>3, <1>5, <3>2 DEF MemSet
  <2>4. p[x] = m[x]
    <3>1. Len(h) = 1
      OBVIOUS
    <3>2. x \notin p_write .. p_write + Len(h) - 1
      BY <2>1, <2>2, <3>1, Counters
    <3> HIDE DEF m, h
    <3> QED  BY <1>4, <3>2 DEF Put
  <2>5. m[x] = HeaderMoved[x]
    <3>1. p_read + Block \in Int /\ size_leanified \in Nat
      BY Counters
    <3> HIDE DEF n
    <3> QED  BY <1>1, <2>1, <2>2, <3>1, HeaderMovedDomain, LeanifiedFrame
  <2> QED  BY <2>2, <2>3, <2>4, <2>5, HeaderMovedInv
<1> HIDE DEF n, p
<1> QED  BY <1>1, <1>2, <1>3, <1>6, <1>7, AdvanceInv

LEMMA TarStep == ASSUME TarAssumption, TarInv, [Next]_vars PROVE TarInv'
<1>1. ASSUME UNCHANGED <<call, p_read, p_write, size_leanified>>,
             pc' = "done" \/ (UNCHANGED mem /\ pc # "done"), DOMAIN mem' = DOMAIN mem
      PROVE  TarInv'
  <2>1. UNCHANGED <<file, fp, End, Before, p_read, p_write, size_leanified>>
    BY <1>1 DEF call, fp, End, Before
  <2>2. UnreadIntact'
    BY <1>1, <2>1 DEF TarInv, UnreadIntact
  <2>3. IsConsidered(file)'
    BY <2>1 DEF TarInv, IsConsidered, IsHeader, RoundUp
  <2> QED  BY <1>1, <2>1, <2>2, <2>3 DEF TarInv, IsConsidered, IsHeader, RoundUp
<1>2. CASE Valid
  BY <1>1, <1>2 DEF Valid, locals
<1>3. CASE EndOfArchive
  BY <1>1, <1>3 DEF EndOfArchive, locals
<1>4. CASE WriteTrailer
  <2>1. DOMAIN mem' = DOMAIN mem
    BY <1>4 DEF WriteTrailer, MemSet
  <2> QED  BY <1>1, <1>4, <2>1 DEF WriteTrailer, locals
<1>5. CASE ReadBehind
  BY <1>1, <1>5 DEF ReadBehind, locals
<1>6. CASE UNCHANGED vars
  BY <1>6 DEF vars, locals, TarInv, UnreadIntact, IsConsidered, IsHeader, RoundUp, call, fp,
     End, Before
<1> QED  BY <1>2, <1>3, <1>4, <1>5, <1>6, HeaderOnlyStep, MoveStep, LeanifyStep DEF Next, Record

(* tar.cpp:41-100: on every archive and with every room Leanify never      *)
(* writes over what it has still to read.                                  *)
THEOREM WorksInPlace == ASSUME TarAssumption PROVE Spec => []UnreadIntact
<1>1. Init => TarInv
  BY TarInit
<1>2. TarInv /\ [Next]_vars => TarInv'
  BY TarStep
<1>3. TarInv => UnreadIntact
  BY DEF TarInv
<1> QED  BY <1>1, <1>2, <1>3, PTL DEF Spec

-----------------------------------------------------------------------------
LEMMA RoundUpZero == ASSUME TarAssumption PROVE RoundUp(0) = 0
<1> DEFINE x == (Block - 1) \div Block
<1>1. Block \in Nat /\ Block > 0 /\ 0 + Block - 1 = Block - 1 /\ Block - 1 \in Nat
  BY DEF TarAssumption
<1>2. x \in Nat /\ x * Block <= Block - 1
  BY <1>1
<1>3. RoundUp(0) = x * Block
  BY <1>1 DEF RoundUp
<1> HIDE DEF x
<1>4. x = 0
  <2> SUFFICES ASSUME x # 0 PROVE FALSE
    OBVIOUS
  <2>1. PICK y \in Nat : x = y + 1
    <3>1. x - 1 \in Nat /\ x = x - 1 + 1
      BY <1>2
    <3> QED  BY <3>1
  <2>2. x * Block = y * Block + Block /\ y * Block \in Nat
    BY <1>1, <2>1
  <2> QED  BY <1>1, <1>2, <2>2
<1> QED  BY <1>1, <1>3, <1>4

(* What is found where a record is expected is what the file has there.    *)
LEMMA RecordInside ==
  ASSUME TarAssumption, TarInv, pc # "done", Inside
  PROVE  /\ mem[p_read] = file[p_read - fp + 1]
         /\ IsZeroRecord(p_read) <=> IsZeroAt(file, p_read - fp + 1)
<1>1. p_read \in Nat /\ fp \in Nat /\ fp <= p_read /\ Block \in Nat /\ Len(file) \in Nat
        /\ End = fp + Len(file) /\ p_read + Block <= End
  BY DEF TarAssumption, TarInv, End, Inside
<1>2. ASSUME NEW k \in 0 .. Block - 1
      PROVE  mem[p_read + k] = file[p_read - fp + 1 + k]
  <2> DEFINE x == p_read + k
  <2>1. x \in p_read .. End /\ x \in 0 .. End /\ x \in fp .. End - 1 /\ x - fp + 1 = p_read - fp + 1 + k
    BY <1>1
  <2>2. mem[x] = Before[x]
    BY <2>1 DEF TarInv, UnreadIntact
  <2>3. Before[x] = file[x - fp + 1]
    BY <2>1 DEF Before
  <2> QED  BY <2>1, <2>2, <2>3
<1>3. mem[p_read] = file[p_read - fp + 1]
  <2>1. 0 \in 0 .. Block - 1 /\ p_read + 0 = p_read /\ p_read - fp + 1 + 0 = p_read - fp + 1
    BY <1>1 DEF TarAssumption
  <2> QED  BY <1>2, <2>1
<1> QED  BY <1>2, <1>3 DEF IsZeroRecord, IsZeroAt

LEMMA WholeBlocks ==
  ASSUME TarAssumption, NEW a \in Nat, NEW n \in Nat, a * Block <= n
  PROVE  a <= n \div Block
<1> DEFINE d == n \div Block
<1>1. Block \in Nat /\ Block > 0
  BY DEF TarAssumption
<1>2. d \in Nat /\ n < d * Block + Block /\ d * Block \in Nat
  BY <1>1
<1> HIDE DEF d
<1>3. ASSUME d < a
      PROVE  FALSE
  <2>1. PICK e \in Nat : a = d + 1 + e
    <3>1. a - (d + 1) \in Nat /\ a = d + 1 + (a - (d + 1))
      BY <1>2, <1>3
    <3> QED  BY <3>1
  <2>2. a * Block = d * Block + Block + e * Block /\ e * Block \in Nat
    BY <1>1, <1>2, <2>1
  <2> QED  BY <1>1, <1>2, <2>2
<1> QED  BY <1>2, <1>3 DEF d

(* The places P that were passed lead to where the loop reads now.         *)
Walked(P, q) ==
  /\ P \in SUBSET Places(file) /\ 1 \in P /\ q \in P
  /\ \A p \in P : p = q \/ (~ IsZeroAt(file, p) /\ p + MemberSize(file, p) \in P)

(* tar.cpp:46-103: no record of zeros was passed, and the loop goes on     *)
(* while it writes in front of the new end.                                *)
LoopInv ==
  /\ TarInv /\ fp <= size_leanified
  /\ pc # "done" => size = Len(file)
  /\ pc = "start" => p_write = 0
  /\ pc = "record" => IsValid /\ p_write < Len(file)
  /\ pc \in {"start", "record"} => \E P : Walked(P, p_read - fp + 1)

LEMMA LoopInit == ASSUME TarAssumption, Init PROVE LoopInv
<1>1. TarInv
  BY TarInit
<1>2. /\ pc = "start" /\ p_read = fp /\ p_write = 0 /\ size_leanified = fp
      /\ size = Len(file)
  BY DEF Init, Called, Start, fp_w
<1>3. fp \in Nat /\ Len(file) \in Nat /\ p_read - fp + 1 = 1 /\ Block \in Nat /\ Block > 0
  BY <1>1, <1>2 DEF TarInv, TarAssumption
<1>4. 1 \in Places(file)
  <2>1. 0 <= Len(file) \div Block
    BY <1>3, WholeBlocks
  <2>2. 0 \in 0 .. Len(file) \div Block /\ 1 + 0 * Block = 1
    BY <1>3, <2>1
  <2> QED  BY <2>2 DEF Places
<1>5. Walked({1}, 1)
  BY <1>4 DEF Walked
<1> QED  BY <1>1, <1>2, <1>3, <1>5 DEF LoopInv

(* A member passed is one more place.                                      *)
LEMMA PassPlace ==
  ASSUME TarAssumption, LoopInv, pc = "record", Inside, ~ IsZeroRecord(p_read),
         NEW n \in Nat, NEW k \in 0..n, Advance(n, k), TarInv',
         IF IsHeader(mem[p_read]) THEN n = RoundUp(mem[p_read][4]) ELSE n = 0
  PROVE  LoopInv'
<1>1. /\ p_read' = p_read + Block + n /\ p_write' = p_write + Block + k
      /\ size_leanified' = size_leanified + n - k
      /\ pc' = IF p_write' < size THEN "record" ELSE "trailer"
      /\ UNCHANGED <<call, size>>
  BY DEF Advance, LoopInv, fp_w
<1>2. UNCHANGED <<file, fp, End, Before>>
  BY <1>1 DEF call, fp, End, Before
<1>3. /\ Block \in Nat /\ Block > 0 /\ fp \in Nat /\ Len(file) \in Nat /\ End = fp + Len(file)
      /\ p_read \in Nat /\ size_leanified \in Nat /\ fp <= p_read /\ fp <= size_leanified
      /\ size = Len(file) /\ p_read + Block <= End /\ IsValid
  BY DEF TarAssumption, LoopInv, TarInv, End, Inside
<1>4. PICK q : q = p_read - fp + 1
  OBVIOUS
<1>5. q \in Nat /\ q > 0 /\ q + Block - 1 <= Len(file) /\ q \in 1 .. Len(file)
  BY <1>3, <1>4
<1>6. PICK P : Walked(P, q)
  BY <1>4 DEF LoopInv
<1>7. mem[p_read] = file[q] /\ ~ IsZeroAt(file, q)
  BY <1>4, RecordInside DEF LoopInv
<1>8. MemberSize(file, q) = Block + n
  BY <1>7 DEF MemberSize
<1>9. PICK j \in Nat : n = j * Block
  <2>1. CASE IsHeader(file[q])
    <3>1. PICK s \in Nat : n = RoundUp(s)
      BY <1>5, <1>7, <2>1 DEF LoopInv, TarInv, IsConsidered
    <3>2. s + Block - 1 \in Nat
      BY <1>3
    <3>3. (s + Block - 1) \div Block \in Nat
      BY <1>3, <3>2
    <3> QED  BY <3>1, <3>3 DEF RoundUp
  <2>2. CASE ~ IsHeader(file[q])
    BY <1>3, <1>7, <2>2
  <2> QED  BY <2>1, <2>2
<1>10. q + Block - 1 + n <= Len(file)
  <2>1. CASE IsHeader(file[q])
    BY <1>5, <1>7, <2>1 DEF LoopInv, TarInv, IsConsidered
  <2>2. CASE ~ IsHeader(file[q])
    BY <1>3, <1>5, <1>7, <2>2
  <2> QED  BY <2>1, <2>2
<1>11. q + (Block + n) \in Places(file)
  <2>1. PICK a \in Nat : q = 1 + a * Block
    BY <1>6 DEF Walked, Places
  <2>2. (a + 1 + j) * Block = a * Block + Block + n /\ a * Block \in Nat
    BY <1>3, <1>9, <2>1
  <2>3. q + (Block + n) = 1 + (a + 1 + j) * Block /\ (a + 1 + j) * Block <= Len(file)
    BY <1>3, <1>5, <1>10, <2>1, <2>2
  <2>4. a + 1 + j <= Len(file) \div Block /\ a + 1 + j \in Nat
    <3>1. PICK b \in Nat : b = a + 1 + j
      OBVIOUS
    <3>2. b * Block <= Len(file)
      BY <2>3, <3>1
    <3> QED  BY <1>3, <3>1, <3>2, WholeBlocks
  <2>5. a + 1 + j \in 0 .. Len(file) \div Block
    BY <1>3, <2>4
  <2> QED  BY <2>3, <2>5 DEF Places
<1>12. Walked(P \cup {q + (Block + n)}, q + (Block + n))
  BY <1>6, <1>7, <1>8, <1>11 DEF Walked
<1>13. p_read' - fp' + 1 = q + (Block + n)
  BY <1>1, <1>2, <1>3, <1>4
<1>14. (Walked(P \cup {q + (Block + n)}, q + (Block + n)))'
  BY <1>2, <1>12 DEF Walked, Places, IsZeroAt, MemberSize, IsHeader, RoundUp
<1>15. fp <= size_leanified'
  BY <1>1, <1>3
<1>16. IsValid'
  BY <1>2, <1>3 DEF IsValid, IsHeader
<1> QED  BY <1>1, <1>2, <1>3, <1>13, <1>14, <1>15, <1>16 DEF LoopInv

LEMMA LoopStep == ASSUME TarAssumption, LoopInv, [Next]_vars PROVE LoopInv'
<1>1. TarInv'
  BY TarStep DEF LoopInv
<1>2. ASSUME UNCHANGED <<call, p_read, p_write, size_leanified>>,
             UNCHANGED size \/ pc' = "done",
             pc' = "record" => pc = "record" \/ (pc = "start" /\ IsValid),
             pc' = "start" => pc = "start", pc = "done" => pc' = "done"
      PROVE  LoopInv'
  <2>1. UNCHANGED <<file, fp, p_read, p_write, size_leanified>>
    BY <1>2 DEF call, fp
  <2>2. IsValid => IsValid' /\ Len(file) > 0
    BY <2>1 DEF IsValid, IsHeader, TarAssumption, LoopInv, TarInv
  <2>3. \A P, q : Walked(P, q) => Walked(P, q)'
    BY <2>1 DEF Walked, Places, IsZeroAt, MemberSize, IsHeader, RoundUp
  <2>4. pc' \in {"start", "record"} => \E P : Walked(P, p_read - fp + 1)
    <3>1. pc' \in {"start", "record"} => pc \in {"start", "record"}
      BY <1>2
    <3>2. pc \in {"start", "record"} => \E P : Walked(P, p_read - fp + 1)
      BY DEF LoopInv
    <3> QED  BY <3>1, <3>2
  <2>5. pc' \in {"start", "record"} => \E P : (Walked(P, p_read - fp + 1))'
    BY <2>1, <2>3, <2>4
  <2>6. pc' # "done" => size' = Len(file)
    BY <1>2 DEF LoopInv
  <2>7. /\ pc' = "record" => IsValid' /\ p_write < Len(file)
        /\ pc' = "start" => p_write = 0
    BY <1>2, <2>2 DEF LoopInv
  <2> QED  BY <1>1, <2>1, <2>5, <2>6, <2>7 DEF LoopInv
<1>3. CASE Valid
  BY <1>2, <1>3 DEF Valid, locals
<1>4. CASE ReadBehind \/ EndOfArchive
  BY <1>2, <1>4 DEF ReadBehind, EndOfArchive, locals
<1>5. CASE WriteTrailer
  BY <1>2, <1>5 DEF WriteTrailer, locals
<1>6. CASE UNCHANGED vars
  BY <1>2, <1>6 DEF vars, locals
<1>7. CASE BadRecord
  BY <1>1, <1>7, PassPlace DEF BadRecord
<1>8. CASE EmptyMember
  <2>1. Header(mem[p_read][3], 0) /\ Advance(0, 0)
    BY <1>8 DEF EmptyMember
  <2>2. 0 = mem[p_read][4] /\ pc = "record" /\ Inside /\ ~ IsZeroRecord(p_read)
          /\ IsHeader(mem[p_read])
    BY <2>1 DEF Header
  <2> QED  BY <1>1, <2>1, <2>2, RoundUpZero, PassPlace
<1>9. CASE MoveMember
  <2> DEFINE n == mem[p_read][4]
  <2>1. Header(mem[p_read][3], n) /\ Advance(RoundUp(n), RoundUp(n))
    BY <1>9 DEF MoveMember
  <2>2. pc = "record" /\ Inside /\ ~ IsZeroRecord(p_read) /\ IsHeader(mem[p_read])
    BY <2>1 DEF Header
  <2>3. n \in Nat /\ n \in 0..n
    BY <2>1, HeaderSize DEF LoopInv
  <2>4. RoundUp(n) \in Nat /\ RoundUp(n) \in 0 .. RoundUp(n)
    BY <2>3, RoundUpBounds
  <2> QED  BY <1>1, <2>1, <2>2, <2>4, PassPlace
<1>10. ASSUME NEW r \in 0 .. Len(file), LeanifyMember(r) PROVE LoopInv'
  <2> DEFINE n == mem[p_read][4]
  <2>1. Header("file", n) /\ r \in 0..n /\ Advance(RoundUp(n), RoundUp(r))
    BY <1>10 DEF LeanifyMember, FileSizes
  <2>2. pc = "record" /\ Inside /\ ~ IsZeroRecord(p_read) /\ IsHeader(mem[p_read])
    BY <2>1 DEF Header
  <2>3. n \in Nat
    BY <2>1, HeaderSize DEF LoopInv
  <2>4. RoundUp(n) \in Nat /\ RoundUp(r) \in Nat /\ RoundUp(r) <= RoundUp(n)
    BY <2>1, <2>3, RoundUpBounds
  <2>5. RoundUp(r) \in 0 .. RoundUp(n)
    BY <2>4
  <2> QED  BY <1>1, <2>1, <2>2, <2>4, <2>5, PassPlace
<1> QED  BY <1>3, <1>4, <1>5, <1>6, <1>7, <1>8, <1>9, <1>10 DEF Next, Record

(* Where the loop is behind the archive it has written less than it has    *)
(* read, and passed no record of zeros.                                    *)
LEMMA BehindTheArchive ==
  ASSUME TarAssumption, LoopInv, pc = "record", ~ Inside
  PROVE  HasNoEnd(file) /\ size_leanified > fp
<1>1. PICK q : q = p_read - fp + 1
  OBVIOUS
<1>2. PICK P : Walked(P, q)
  BY <1>1 DEF LoopInv
<1>3. PICK a \in Nat : q = 1 + a * Block
  BY <1>2 DEF Walked, Places
<1>4. /\ Block \in Nat /\ Block > 0 /\ fp \in Nat /\ Len(file) \in Nat /\ End = fp + Len(file)
      /\ p_read \in Nat /\ p_write \in Nat /\ size_leanified \in Nat /\ fp <= p_read
      /\ p_read = p_write + size_leanified /\ p_write < Len(file) /\ p_read + Block > End
      /\ Len(file) % Block = 0
  BY DEF TarAssumption, LoopInv, TarInv, End, Inside, IsValid
<1>5. a * Block \in Nat /\ a * Block + Block > Len(file) /\ p_read = fp + a * Block
  BY <1>1, <1>3, <1>4
<1>6. PICK d \in Nat : Len(file) = d * Block
  <2> DEFINE x == Len(file) \div Block
             y == Len(file) % Block
  <2>1. x \in Nat /\ y = 0 /\ Len(file) = x * Block + y
    BY <1>4
  <2> HIDE DEF x, y
  <2>2. x * Block \in Nat
    BY <1>4, <2>1
  <2> QED  BY <1>4, <2>1, <2>2
<1>7. d <= a
  <2>1. ASSUME a < d
        PROVE  FALSE
    <3>1. PICK e \in Nat : d = a + 1 + e
      <4>1. d - (a + 1) \in Nat /\ d = a + 1 + (d - (a + 1))
        BY <2>1
      <4> QED  BY <4>1
    <3>2. d * Block = a * Block + Block + e * Block /\ e * Block \in Nat
      BY <1>4, <1>5, <3>1
    <3> QED  BY <1>4, <1>5, <1>6, <3>2
  <2> QED  BY <2>1
<1>8. Len(file) <= a * Block
  <2>1. PICK e \in Nat : a = d + e
    <3>1. a - d \in Nat /\ a = d + (a - d)
      BY <1>7
    <3> QED  BY <3>1
  <2>2. a * Block = d * Block + e * Block /\ e * Block \in Nat /\ d * Block \in Nat
    BY <1>4, <2>1
  <2> QED  BY <1>4, <1>6, <2>2
<1>9. size_leanified > fp
  BY <1>4, <1>5, <1>8
<1>10. q > Len(file)
  BY <1>3, <1>4, <1>5, <1>8
<1>11. \A p \in P : p <= Len(file) => ~ IsZeroAt(file, p) /\ p + MemberSize(file, p) \in P
  <2>1. ~ (q <= Len(file))
    BY <1>3, <1>4, <1>5, <1>10
  <2> QED  BY <1>2, <2>1 DEF Walked
<1>12. HasNoEnd(file)
  BY <1>2, <1>11 DEF Walked, HasNoEnd
<1> QED  BY <1>9, <1>12

(* tar.cpp:46-103: although the loop is ended by where it writes and not   *)
(* by where it reads, it looks behind an archive only if no record of      *)
(* zeros ends that, and only after something was saved.                    *)
THEOREM LoopEndsInTime == ASSUME TarAssumption PROVE Spec => []EndsInTime
<1>1. Init => LoopInv
  BY LoopInit
<1>2. LoopInv /\ [Next]_vars => LoopInv'
  BY LoopStep
<1>3. LoopInv => EndsInTime
  BY BehindTheArchive DEF EndsInTime
<1> QED  BY <1>1, <1>2, <1>3, PTL DEF Spec

-----------------------------------------------------------------------------
(* An archive as tar writes it: at the places S, which are those of the    *)
(* first record and behind each member, there are whole records, and the   *)
(* one that ends the archive is followed by another.                       *)
RecordsAt(f, S) ==
  /\ 1 \in S
  /\ \A p \in S : /\ p + Block - 1 <= Len(f)
                  /\ IF IsZeroAt(f, p) THEN p + 2 * Block - 1 <= Len(f)
                     ELSE p + MemberSize(f, p) \in S

ArchiveAssumption ==
  TarAssumption /\ \A c \in Calls : \E S \in SUBSET Nat : RecordsAt(c[1], S)

(* Each record is looked for where there is one, and the result, with its  *)
(* two records of zeros, is no longer than the archive.                    *)
OnRecord ==
  \E S \in SUBSET Nat : /\ RecordsAt(file, S)
                        /\ pc \in {"start", "record"} => p_read - fp + 1 \in S

Fits ==
  /\ pc \in {"start", "record", "trailer", "done"}
  /\ p_read <= End /\ fp <= size_leanified
  /\ pc # "done" => size = Len(file)
  /\ pc = "trailer" => p_write + 2 * Block <= Len(file)
  /\ size \in 0 .. Len(file) /\ mem[End] = Before[End]

ArchiveInv == TarInv /\ OnRecord /\ Fits

LEMMA ArchiveInit == ASSUME ArchiveAssumption, Init PROVE ArchiveInv
<1>1. TarInv
  BY TarInit DEF ArchiveAssumption
<1>2. PICK c \in Calls : file = c[1] /\ setting = c[2]
  BY DEF Init, Called
<1>3. PICK S \in SUBSET Nat : RecordsAt(file, S)
  BY <1>2 DEF ArchiveAssumption
<1>4. mem = Before /\ p_read = fp /\ size = Len(file) /\ pc = "start" /\ size_leanified = fp
  BY DEF Init, Called, Start
<1>5. fp \in Nat /\ Len(file) \in Nat /\ fp <= fp + Len(file)
  BY <1>1 DEF TarInv
<1>6. p_read - fp + 1 = 1 /\ 1 \in S
  BY <1>3, <1>4, <1>5 DEF RecordsAt
<1>7. OnRecord
  BY <1>3, <1>6 DEF OnRecord
<1>8. Fits
  BY <1>4, <1>5 DEF Fits, End
<1> QED  BY <1>1, <1>7, <1>8 DEF ArchiveInv

LEMMA RecordThere ==
  ASSUME ArchiveAssumption, ArchiveInv, pc \in {"start", "record"}
  PROVE  /\ Inside /\ p_read + Block <= End /\ mem[p_read] = file[p_read - fp + 1]
         /\ IsZeroRecord(p_read) <=> IsZeroAt(file, p_read - fp + 1)
<1>1. PICK S \in SUBSET Nat : RecordsAt(file, S) /\ p_read - fp + 1 \in S
  BY DEF ArchiveInv, OnRecord
<1>2. p_read - fp + 1 + Block - 1 <= Len(file)
  BY <1>1 DEF RecordsAt
<1>3. p_read \in Nat /\ fp \in Nat /\ fp <= p_read /\ Block \in Nat /\ Len(file) \in Nat
        /\ End = fp + Len(file)
  BY DEF ArchiveAssumption, TarAssumption, ArchiveInv, TarInv, End
<1>4. Inside
  BY <1>2, <1>3 DEF Inside
<1> QED  BY <1>4, RecordInside DEF ArchiveAssumption, ArchiveInv, Inside

(* A step that passes a record and what it says follows it: the next one   *)
(* is looked for where there is one.                                       *)
LEMMA PassRecord ==
  ASSUME ArchiveAssumption, ArchiveInv, pc = "record", ~ IsZeroRecord(p_read),
         NEW n \in Nat, NEW k \in 0..n, Advance(n, k), TarInv',
         IF IsHeader(mem[p_read]) THEN n = RoundUp(mem[p_read][4]) ELSE n = 0
  PROVE  ArchiveInv'
<1>1. /\ p_read' = p_read + Block + n /\ p_write' = p_write + Block + k
      /\ size_leanified' = size_leanified + n - k
      /\ pc' = IF p_write' < size THEN "record" ELSE "trailer"
      /\ UNCHANGED <<call, size>>
  BY DEF Advance, ArchiveInv, Fits, fp_w
<1>2. UNCHANGED <<file, fp, End, Before>>
  BY <1>1 DEF call, fp, End, Before
<1>3. PICK S \in SUBSET Nat : RecordsAt(file, S) /\ p_read - fp + 1 \in S
  BY DEF ArchiveInv, OnRecord
<1>4. /\ Block \in Nat /\ Block > 0 /\ fp \in Nat /\ Len(file) \in Nat /\ End = fp + Len(file)
      /\ p_read \in Nat /\ p_write \in Nat /\ size_leanified \in Nat /\ fp <= p_read
      /\ p_read = p_write + size_leanified /\ fp <= size_leanified /\ size = Len(file)
  BY DEF ArchiveAssumption, TarAssumption, ArchiveInv, TarInv, Fits, End
<1>5. mem[p_read] = file[p_read - fp + 1] /\ ~ IsZeroAt(file, p_read - fp + 1)
  BY RecordThere
<1>6. MemberSize(file, p_read - fp + 1) = Block + n
  BY <1>5 DEF MemberSize
<1>7. p_read - fp + 1 + (Block + n) \in S
  BY <1>3, <1>5, <1>6 DEF RecordsAt
<1>8. p_read' - fp + 1 \in S /\ p_read' - fp + 1 + Block - 1 <= Len(file)
  <2>1. p_read' - fp + 1 = p_read - fp + 1 + (Block + n)
    <3>1. p_read' = p_read + Block + n
      BY <1>1
    <3>2. p_read \in Nat /\ fp \in Nat /\ Block \in Nat
      BY <1>4
    <3> QED  BY <3>1, <3>2
  <2> QED  BY <1>3, <1>7, <2>1 DEF RecordsAt
<1>9. /\ p_read' <= End /\ fp <= size_leanified' /\ p_write' < Len(file)
      /\ p_read' \in Nat
  <2>1. p_read' = p_read + Block + n /\ p_write' = p_write + Block + k /\ k \in Nat /\ k <= n
          /\ size_leanified' = size_leanified + n - k
    BY <1>1
  <2>2. /\ Block \in Nat /\ Block > 0 /\ fp \in Nat /\ Len(file) \in Nat /\ End = fp + Len(file)
        /\ p_read \in Nat /\ p_write \in Nat /\ size_leanified \in Nat
        /\ p_read = p_write + size_leanified /\ fp <= size_leanified
    BY <1>4
  <2>3. p_read' - fp + 1 + Block - 1 <= Len(file)
    BY <1>8
  <2> QED  BY <2>1, <2>2, <2>3
<1>10. pc' = "record" /\ size' = Len(file)
  BY <1>1, <1>4, <1>9
<1>11. OnRecord'
  BY <1>2, <1>3, <1>8 DEF OnRecord, RecordsAt, IsZeroAt, MemberSize, IsHeader, RoundUp
<1>12. mem'[End] = Before[End]
  <2>1. End \in p_read' .. End
    BY <1>4, <1>9
  <2> QED  BY <1>2, <1>10, <2>1 DEF TarInv, UnreadIntact
<1>13. Fits'
  BY <1>2, <1>4, <1>9, <1>10, <1>12 DEF Fits
<1> QED  BY <1>11, <1>13 DEF ArchiveInv

(* Nothing of the buffer changes.                                          *)
LEMMA StillStep ==
  ASSUME ArchiveAssumption, ArchiveInv, TarInv',
         UNCHANGED <<call, mem, p_read, size, p_write, size_leanified>>,
         \/ UNCHANGED pc
         \/ pc \in {"start", "record"} /\ pc' = "record"
         \/ pc = "record" /\ pc' = "trailer" /\ p_write + 2 * Block <= Len(file)
  PROVE  ArchiveInv'
<1>1. UNCHANGED <<file, fp, End, Before>>
  BY DEF call, fp, End, Before
<1>2. PICK S \in SUBSET Nat : RecordsAt(file, S) /\ (pc \in {"start", "record"} => p_read - fp + 1 \in S)
  BY DEF ArchiveInv, OnRecord
<1>3. RecordsAt(file', S) /\ (pc' \in {"start", "record"} => p_read' - fp' + 1 \in S)
  <2>1. file' = file /\ p_read' - fp' + 1 = p_read - fp + 1
    BY <1>1
  <2>2. pc' \in {"start", "record"} => pc \in {"start", "record"}
    OBVIOUS
  <2> QED  BY <1>2, <2>1, <2>2
<1>4. OnRecord'
  BY <1>3 DEF OnRecord, RecordsAt, IsZeroAt, MemberSize, IsHeader, RoundUp
<1>5. Fits'
  BY <1>1 DEF ArchiveInv, Fits
<1> QED  BY <1>4, <1>5 DEF ArchiveInv

(* The record of zeros leaves room for the two that are written.           *)
LEMMA EndOfArchiveStep ==
  ASSUME ArchiveAssumption, ArchiveInv, TarInv', EndOfArchive
  PROVE  ArchiveInv'
<1>1. /\ pc = "record" /\ pc' = "trailer" /\ IsZeroRecord(p_read)
      /\ UNCHANGED <<call, mem, p_read, size, p_write, size_leanified>>
  BY DEF EndOfArchive, locals
<1>2. PICK S \in SUBSET Nat : RecordsAt(file, S) /\ p_read - fp + 1 \in S
  BY <1>1 DEF ArchiveInv, OnRecord
<1>3. /\ p_read \in Nat /\ p_write \in Nat /\ size_leanified \in Nat /\ fp \in Nat
      /\ p_read = p_write + size_leanified /\ fp <= size_leanified
      /\ Block \in Nat /\ Len(file) \in Nat
  BY DEF ArchiveAssumption, TarAssumption, ArchiveInv, TarInv, Fits
<1>4. IsZeroAt(file, p_read - fp + 1)
  BY <1>1, RecordThere
<1>5. p_read - fp + 1 + 2 * Block - 1 <= Len(file)
  BY <1>2, <1>4 DEF RecordsAt
<1>6. p_write + 2 * Block <= Len(file)
  BY <1>3, <1>5
<1> QED  BY <1>1, <1>6, StillStep

LEMMA WriteTrailerStep ==
  ASSUME ArchiveAssumption, ArchiveInv, TarInv', WriteTrailer
  PROVE  ArchiveInv'
<1>1. /\ pc = "trailer" /\ pc' = "done" /\ mem' = MemSet(mem, p_write, Zero, 2 * Block)
      /\ size' = p_write + 2 * Block - 0 /\ UNCHANGED <<call, p_read, p_write, size_leanified>>
  BY DEF WriteTrailer, locals, fp_w
<1>2. UNCHANGED <<file, fp, End, Before>>
  BY <1>1 DEF call, fp, End, Before
<1>3. /\ p_write \in Nat /\ Block \in Nat /\ Block > 0 /\ Len(file) \in Nat /\ fp \in Nat
      /\ End = fp + Len(file) /\ p_write + 2 * Block <= Len(file)
  BY <1>1 DEF ArchiveAssumption, TarAssumption, ArchiveInv, TarInv, Fits, End
<1>4. End \in 0 .. End /\ End \notin p_write .. p_write + 2 * Block - 1
        /\ p_write + 2 * Block - 0 \in 0 .. Len(file)
  BY <1>3
<1>5. mem'[End] = Before[End]
  <2>1. End \in DOMAIN mem
    BY <1>4 DEF ArchiveInv, TarInv
  <2> QED  BY <1>1, <1>4, <2>1 DEF ArchiveInv, Fits, MemSet
<1>6. OnRecord'
  <2>1. PICK S \in SUBSET Nat : RecordsAt(file, S)
    BY DEF ArchiveInv, OnRecord
  <2>2. file' = file /\ pc' \notin {"start", "record"}
    BY <1>1, <1>2
  <2> QED  BY <2>1, <2>2 DEF OnRecord, RecordsAt, IsZeroAt, MemberSize, IsHeader, RoundUp
<1>7. Fits'
  BY <1>1, <1>2, <1>4, <1>5 DEF ArchiveInv, Fits
<1> QED  BY <1>6, <1>7 DEF ArchiveInv

(* The header where p_read points to is one of the archive.                *)
LEMMA HeaderThere ==
  ASSUME ArchiveAssumption, ArchiveInv, NEW type, NEW n, Header(type, n)
  PROVE  /\ n \in Nat /\ n = mem[p_read][4] /\ type = mem[p_read][3] /\ pc = "record"
         /\ ~ IsZeroRecord(p_read) /\ IsHeader(mem[p_read])
<1>1. n \in Nat /\ n = mem[p_read][4] /\ pc = "record"
  BY HeaderSize DEF ArchiveAssumption, ArchiveInv
<1> QED  BY <1>1 DEF Header

LEMMA ArchiveStep == ASSUME ArchiveAssumption, ArchiveInv, [Next]_vars PROVE ArchiveInv'
<1>1. TarInv'
  BY TarStep DEF ArchiveAssumption, ArchiveInv
<1>2. CASE BadRecord
  BY <1>1, <1>2, PassRecord DEF BadRecord
<1>3. CASE EmptyMember
  <2>1. Header(mem[p_read][3], 0) /\ Advance(0, 0)
    BY <1>3 DEF EmptyMember
  <2>2. 0 = mem[p_read][4] /\ pc = "record" /\ ~ IsZeroRecord(p_read) /\ IsHeader(mem[p_read])
    BY <2>1, HeaderThere
  <2> QED  BY <1>1, <2>1, <2>2, RoundUpZero, PassRecord DEF ArchiveAssumption
<1>4. CASE MoveMember
  <2> DEFINE n == mem[p_read][4]
  <2>1. Header(mem[p_read][3], n) /\ Advance(RoundUp(n), RoundUp(n))
    BY <1>4 DEF MoveMember
  <2>2. n \in Nat /\ pc = "record" /\ ~ IsZeroRecord(p_read) /\ IsHeader(mem[p_read])
    BY <2>1, HeaderThere
  <2>3. RoundUp(n) \in Nat /\ n \in 0..n
    BY <2>2, RoundUpBounds DEF ArchiveAssumption
  <2>4. RoundUp(n) \in 0 .. RoundUp(n)
    BY <2>3
  <2> QED  BY <1>1, <2>1, <2>2, <2>3, <2>4, PassRecord
<1>5. ASSUME NEW r \in 0 .. Len(file), LeanifyMember(r) PROVE ArchiveInv'
  <2> DEFINE n == mem[p_read][4]
  <2>1. Header("file", n) /\ r \in 0..n /\ Advance(RoundUp(n), RoundUp(r))
    BY <1>5 DEF LeanifyMember, FileSizes
  <2>2. n \in Nat /\ pc = "record" /\ ~ IsZeroRecord(p_read) /\ IsHeader(mem[p_read])
    BY <2>1, HeaderThere
  <2>3. RoundUp(n) \in Nat /\ RoundUp(r) \in Nat /\ RoundUp(r) <= RoundUp(n)
    BY <2>1, <2>2, RoundUpBounds DEF ArchiveAssumption
  <2>4. RoundUp(r) \in 0 .. RoundUp(n)
    BY <2>3
  <2> QED  BY <1>1, <2>1, <2>2, <2>3, <2>4, PassRecord
<1>6. CASE Valid
  BY <1>1, <1>6, StillStep DEF Valid, locals
<1>7. ~ ReadBehind
  BY RecordThere DEF ReadBehind
<1>8. CASE UNCHANGED vars
  BY <1>1, <1>8, StillStep DEF vars, locals
<1> QED  BY <1>1, <1>2, <1>3, <1>4, <1>5, <1>6, <1>7, <1>8, EndOfArchiveStep, WriteTrailerStep
         DEF Next, Record

LEMMA ArchiveInvariance == ASSUME ArchiveAssumption PROVE Spec => []ArchiveInv
<1>1. Init => ArchiveInv
  BY ArchiveInit
<1>2. ArchiveInv /\ [Next]_vars => ArchiveInv'
  BY ArchiveStep
<1> QED  BY <1>1, <1>2, PTL DEF Spec

(* format.h:19-26, tar.cpp:41-107: what is left of such an archive, with   *)
(* its own two records of zeros, is no longer than it was, and nothing but *)
(* the archive and the room in front of it was written to.                 *)
THEOREM KeepsToTheArchive == ASSUME ArchiveAssumption PROVE Spec => []InItsRegion
<1>1. ArchiveInv => InItsRegion
  <2> SUFFICES ASSUME ArchiveInv, pc = "done"
               PROVE  KeepsToItsRegion(Before, mem, fp, Len(file), fp, size)
    BY DEF InItsRegion
  <2>1. size \in 0 .. Len(file) /\ mem[End] = Before[End]
    BY DEF ArchiveInv, Fits
  <2>2. fp \in Nat /\ Len(file) \in Nat /\ End = fp + Len(file)
    BY DEF ArchiveInv, TarInv, End
  <2>3. ASSUME NEW x \in DOMAIN Before, x \notin fp - fp .. fp + Len(file) - 1
        PROVE  mem[x] = Before[x]
    <3>1. x \in 0 .. End
      BY DEF Before
    <3>2. x = End
      BY <2>2, <2>3, <3>1
    <3> QED  BY <2>1, <3>2
  <2> QED  BY <2>1, <2>3 DEF KeepsToItsRegion
<1> QED  BY <1>1, ArchiveInvariance, PTL

-----------------------------------------------------------------------------
(* The members of an archive are a recursive function.  That there is one  *)
(* follows, as there is no operator for it to be cited, from that each set *)
(* of numbers has a least one.                                             *)
LEMMA LeastNat ==
  ASSUME NEW T \in SUBSET Nat, T # {}
  PROVE  \E x \in T : \A y \in T : x <= y
<1> DEFINE R == OpToRel(<, Nat)
<1>1. \A x \in Nat, y \in Nat : <<y, x>> \in R <=> y < x
  BY DEF OpToRel
<1>2. IsWellFoundedOn(R, Nat)
  BY NatLessThanWellFounded
<1> HIDE DEF R
<1>3. PICK x \in T : \A y \in T : ~ (<<y, x>> \in R)
  BY <1>2, WFMin
<1>4. \A y \in T : ~ (y < x)
  BY <1>1, <1>3, Zenon
<1> QED  BY <1>4

(* A list that is given by its items, where the next one is and where it   *)
(* ends.                                                                   *)
IsList(f, L, ends, item, follow) ==
  f = [p \in 1 .. L + 1 |-> IF ends[p] THEN <<>> ELSE <<item[p]>> \o f[follow[p]]]

LEMMA ListExists ==
  ASSUME NEW L \in Nat, NEW ends \in [1 .. L + 1 -> BOOLEAN], NEW item,
         NEW follow \in [1 .. L + 1 -> 1 .. L + 1],
         ends[L + 1], \A p \in 1 .. L + 1 : ~ ends[p] => follow[p] > p
  PROVE  \E f : IsList(f, L, ends, item, follow)
<1> DEFINE Cons(g, p) == IF ends[p] THEN <<>> ELSE <<item[p]>> \o g[follow[p]]
           Partly(d, g) == g = [p \in L + 1 - d .. L + 1 |-> Cons(g, p)]
           T == {d \in 0 .. L : \A g : ~ Partly(d, g)}
<1> HIDE DEF Partly
<1>0. T \in SUBSET Nat /\ \A d \in 0 .. L : d \notin T => \E g : Partly(d, g)
  OBVIOUS
<1>1. ASSUME T # {}
      PROVE  FALSE
  <2>1. PICK d \in T : \A y \in T : d <= y
    BY <1>0, <1>1, LeastNat
  <2> d \in 0 .. L
    OBVIOUS
  <2> HIDE DEF T
  <2>2. CASE d = 0
    <3> DEFINE g == [p \in L + 1 .. L + 1 |-> <<>>]
    <3>1. \A p \in L + 1 - 0 .. L + 1 : Cons(g, p) = <<>>
      OBVIOUS
    <3>2. L + 1 - 0 .. L + 1 = L + 1 .. L + 1
      OBVIOUS
    <3>3. [p \in L + 1 - 0 .. L + 1 |-> Cons(g, p)] = [p \in L + 1 - 0 .. L + 1 |-> <<>>]
      BY <3>1
    <3>4. Partly(0, g)
      BY <3>2, <3>3 DEF Partly
    <3> QED  BY <2>2, <3>4 DEF T
  <2>3. CASE d # 0
    <3>1. d - 1 \in 0 .. L /\ ~ (d <= d - 1)
      BY <2>3
    <3>2. PICK g : Partly(d - 1, g)
      BY <1>0, <2>1, <3>1
    <3> DEFINE k == L + 1 - d
               h == [p \in k .. L + 1 |-> IF p = k THEN Cons(g, k) ELSE g[p]]
    <3>3. d \in 1 .. L /\ k \in 1 .. L /\ L + 1 - (d - 1) = k + 1
      BY <2>1, <2>3
    <3>4. ASSUME NEW p \in k .. L + 1
          PROVE  h[p] = Cons(h, p)
      <4>1. p \in 1 .. L + 1
        BY <3>3
      <4>2. ~ ends[p] => follow[p] \in k + 1 .. L + 1 /\ follow[p] # k
        <5>1. follow[p] \in 1 .. L + 1 /\ (~ ends[p] => follow[p] > p)
          BY <4>1
        <5>2. k \in Nat /\ p \in Nat /\ k <= p
          BY <3>3
        <5> QED  BY <5>1, <5>2
      <4>3. ~ ends[p] => h[follow[p]] = g[follow[p]]
        BY <3>3, <4>2, SMTT(30)
      <4>4. Cons(h, p) = Cons(g, p)
        BY <4>3
      <4>5. CASE p = k
        BY <4>4, <4>5
      <4>6. CASE p # k
        <5>1. p \in k + 1 .. L + 1 /\ p \in L + 1 - (d - 1) .. L + 1
          BY <3>3, <4>6
        <5> HIDE DEF k, Cons
        <5>2. g[p] = Cons(g, p)
          BY <3>2, <5>1 DEF Partly
        <5>3. h[p] = g[p]
          BY <4>6
        <5> QED  BY <4>4, <5>2, <5>3
      <4> QED  BY <4>5, <4>6
    <3>5. DOMAIN h = k .. L + 1 /\ h = [p \in k .. L + 1 |-> h[p]]
      OBVIOUS
    <3> HIDE DEF h, Cons
    <3>6. h = [p \in k .. L + 1 |-> Cons(h, p)]
      BY <3>4, <3>5
    <3>7. Partly(d, h)
      BY <3>6 DEF Partly
    <3> QED  BY <3>7 DEF T
  <2> QED  BY <2>2, <2>3
<1>2. PICK f : Partly(L, f)
  <2>1. L \in 0 .. L /\ T = {}
    BY <1>1
  <2> QED  BY <1>0, <2>1
<1>3. L + 1 - L .. L + 1 = 1 .. L + 1
  OBVIOUS
<1> QED  BY <1>2, <1>3 DEF Partly, IsList

(* What MembersFrom says of itself holds of it.                            *)
LEMMA MembersFromStep ==
  ASSUME TarAssumption, NEW s, Len(s) \in Nat, NEW p \in 1 .. Len(s) + 1
  PROVE  MembersFrom(s)[p] = IF EndsAt(s, p) THEN <<>>
                             ELSE <<Member(s, p)>> \o MembersFrom(s)[Behind(s, p)]
<1> DEFINE L == Len(s)
           List(g) == [q \in 1 .. L + 1 |-> IF EndsAt(s, q) THEN <<>>
                                            ELSE <<Member(s, q)>> \o g[Behind(s, q)]]
           ends == [q \in 1 .. L + 1 |-> EndsAt(s, q)]
           item == [q \in 1 .. L + 1 |-> Member(s, q)]
           follow == [q \in 1 .. L + 1 |-> Behind(s, q)]
<1>1. EndsAt(s, L + 1)
  BY DEF EndsAt, TarAssumption
<1>2. ASSUME NEW q \in 1 .. L + 1
      PROVE  EndsAt(s, q) \in BOOLEAN /\ Behind(s, q) \in 1 .. L + 1
               /\ (~ EndsAt(s, q) => Behind(s, q) > q)
  <2>1. q = L + 1 \/ q < L + 1
    OBVIOUS
  <2> QED  BY <1>1, <2>1 DEF EndsAt, Behind
<1>3. \E f : f = List(f)
  <2>1. ends \in [1 .. L + 1 -> BOOLEAN] /\ follow \in [1 .. L + 1 -> 1 .. L + 1]
          /\ ends[L + 1] /\ \A q \in 1 .. L + 1 : ~ ends[q] => follow[q] > q
    BY <1>1, <1>2
  <2>2. L \in Nat
    OBVIOUS
  <2>3. \A q \in 1 .. L + 1 : /\ ends[q] = EndsAt(s, q) /\ item[q] = Member(s, q)
                              /\ follow[q] = Behind(s, q)
    OBVIOUS
  <2> HIDE DEF L, ends, item, follow
  <2>4. PICK f : IsList(f, L, ends, item, follow)
    BY <2>1, <2>2, ListExists
  <2>5. List(f) = [q \in 1 .. L + 1 |->
                     IF ends[q] THEN <<>> ELSE <<item[q]>> \o f[follow[q]]]
    BY <2>3
  <2> QED  BY <2>4, <2>5 DEF IsList
<1>4. MembersFrom(s) = CHOOSE f : f = List(f)
  BY DEF MembersFrom
<1> HIDE DEF List
<1>5. MembersFrom(s) = List(MembersFrom(s))
  BY <1>3, <1>4
<1> QED  BY <1>5 DEF List

(* The n cells at q of t are those at p of s.                              *)
Same(t, q, s, p, n) == \A k \in 0 .. n - 1 : t[q + k] = s[p + k]

LEMMA SameAt ==
  ASSUME NEW t, NEW q, NEW s, NEW p, NEW n, Same(t, q, s, p, n), NEW k \in 0 .. n - 1
  PROVE  t[q + k] = s[p + k]
BY DEF Same

(* A member is what its cells are, wherever they lie.                      *)
LEMMA SameMember ==
  ASSUME TarAssumption, NEW s, NEW t, NEW p \in Nat, NEW q \in Nat,
         Len(s) \in Nat, Len(t) \in Nat,
         IsHeader(s[p]) => s[p][4] \in Nat,
         p + MemberSize(s, p) - 1 <= Len(s), q + MemberSize(s, p) - 1 <= Len(t),
         Same(t, q, s, p, MemberSize(s, p))
  PROVE  /\ Member(t, q) = Member(s, p) /\ MemberSize(t, q) = MemberSize(s, p)
         /\ EndsAt(t, q) <=> EndsAt(s, p)
<1> DEFINE n == s[p][4]
           N == MemberSize(s, p)
<1>1. Block \in Nat /\ Block > 0
  BY DEF TarAssumption
<1>2. IsHeader(s[p]) => n \in Nat /\ RoundUp(n) \in Nat /\ n <= RoundUp(n)
                          /\ N = Block + RoundUp(n)
  <2>1. n \in Nat => n \in 0 .. n
    OBVIOUS
  <2> QED  BY <2>1, RoundUpBounds DEF MemberSize
<1>3. ~ IsHeader(s[p]) => N = Block
  BY <1>1 DEF MemberSize
<1>4. N \in Nat /\ Block <= N
  <2> HIDE DEF n, N
  <2> QED  BY <1>1, <1>2, <1>3
<1> HIDE DEF N
<1>5. \A k \in 0 .. N - 1 : t[q + k] = s[p + k]
  BY DEF N, Same
<1>6. \A k \in 0 .. Block - 1 : t[q + k] = s[p + k]
  <2>1. \A k \in 0 .. Block - 1 : k \in 0 .. N - 1
    BY <1>1, <1>4
  <2> QED  BY <1>5, <2>1
<1>7. t[q] = s[p]
  <2>1. 0 \in 0 .. Block - 1 /\ q + 0 = q /\ p + 0 = p
    BY <1>1
  <2> QED  BY <1>6, <2>1
<1>8. IsHeader(s[p]) => Cells(t, q + Block, n) = Cells(s, p + Block, n)
  <2>1. ASSUME IsHeader(s[p]), NEW k \in 1..n
        PROVE  t[q + Block + k - 1] = s[p + Block + k - 1]
    <3> HIDE DEF n
    <3>1. /\ Block + k - 1 \in 0 .. N - 1
          /\ q + (Block + k - 1) = q + Block + k - 1 /\ p + (Block + k - 1) = p + Block + k - 1
      BY <1>1, <1>2, <2>1
    <3>2. t[q + (Block + k - 1)] = s[p + (Block + k - 1)]
      BY <1>5, <3>1
    <3> QED  BY <3>1, <3>2
  <2> HIDE DEF n
  <2> QED  BY <2>1 DEF Cells
<1>9. Cells(t, q, Block) = Cells(s, p, Block)
  <2>1. ASSUME NEW k \in 1 .. Block
        PROVE  t[q + k - 1] = s[p + k - 1]
    <3>1. k - 1 \in 0 .. Block - 1 /\ q + (k - 1) = q + k - 1 /\ p + (k - 1) = p + k - 1
      BY <1>1
    <3>2. t[q + (k - 1)] = s[p + (k - 1)]
      BY <1>6, <3>1
    <3> QED  BY <3>1, <3>2
  <2> QED  BY <2>1 DEF Cells
<1>10. Member(t, q) = Member(s, p)
  BY <1>7, <1>8, <1>9 DEF Member
<1>11. MemberSize(t, q) = MemberSize(s, p)
  BY <1>7 DEF MemberSize
<1>12. EndsAt(t, q) <=> EndsAt(s, p)
  <2>1. p + N - 1 <= Len(s) /\ q + N - 1 <= Len(t)
    BY DEF N
  <2>2. ~ (p + Block - 1 > Len(s)) /\ ~ (q + Block - 1 > Len(t))
    BY <1>1, <1>4, <2>1
  <2> QED  BY <1>6, <2>2 DEF EndsAt, IsZeroAt
<1> QED  BY <1>10, <1>11, <1>12

-----------------------------------------------------------------------------
(* A cell of zeros is no header: its checksum is not 0 (tar.cpp:14-31).    *)
MembersAssumption == ArchiveAssumption /\ ~ IsHeader(Zero)

(* IsKept, given whether files are leanified.                              *)
KeptIf(deep, new, old) ==
  \/ new = old
  \/ /\ deep /\ old.type = "file"
     /\ [new EXCEPT !.contents = old.contents] = old
     /\ IsLeanOf(new.contents, old.contents)

(* The member at p of f has become what ends in front of q2 in the buffer. *)
Became(f, deep, m, p, p2, q, q2) ==
  LET s == Cells(m, 0, q2 - 1)
  IN  /\ ~ EndsAt(f, p) /\ p2 = p + MemberSize(f, p) /\ p2 \in p + 1 .. Len(f)
      /\ ~ EndsAt(s, q) /\ q2 = q + MemberSize(s, q) /\ q2 > q
      /\ IsHeader(s[q]) => s[q][4] \in Nat
      /\ KeptIf(deep, Member(s, q), Member(f, p))

(* The members in front of in and those in front of out are the same: the  *)
(* k-th one was at ins[k] and is at outs[k].                               *)
Links(f, deep, m, in, out, n, ins, outs) ==
  /\ ins[1] = 1 /\ outs[1] = 1 /\ ins[n + 1] = in /\ outs[n + 1] = out
  /\ \A k \in 1 .. n + 1 : ins[k] \in 1 .. Len(f) /\ outs[k] \in 1 .. out
  /\ \A k \in 1 .. n : Became(f, deep, m, ins[k], ins[k + 1], outs[k], outs[k + 1])

ChainOf(f, deep, m, in, out) ==
  \E n \in Nat : \E ins, outs \in [1 .. n + 1 -> Nat] :
    Links(f, deep, m, in, out, n, ins, outs)

Chain == ChainOf(file, MayRecurse, mem, p_read - fp + 1, p_write + 1)

(* Two records of zeros follow in the end, as in the archive.              *)
AtEnd ==
  /\ pc \in {"trailer", "done"} => EndsAt(file, p_read - fp + 1)
  /\ pc = "done" =>
       /\ size = p_write + 2 * Block
       /\ \A x \in p_write .. size - 1 : mem[x] = Zero

MembersInv == ArchiveInv /\ Chain /\ AtEnd

SameUpTo(m2, m, n) == \A x \in 0 .. n - 1 : m2[x] = m[x]

LEMMA SameCells ==
  ASSUME NEW m, NEW m2, NEW N \in Nat, SameUpTo(m2, m, N)
  PROVE  Cells(m2, 0, N) = Cells(m, 0, N)
<1>1. \A j \in 1 .. N : 0 + j - 1 \in 0 .. N - 1
  OBVIOUS
<1> QED  BY <1>1 DEF Cells, SameUpTo

(* What is written behind the members that are done does not change them.  *)
LEMMA SameChain ==
  ASSUME NEW f, NEW deep, NEW m, NEW m2, NEW in, NEW out \in Nat,
         ChainOf(f, deep, m, in, out), SameUpTo(m2, m, out - 1)
  PROVE  ChainOf(f, deep, m2, in, out)
<1>1. PICK n \in Nat : \E ins, outs \in [1 .. n + 1 -> Nat] :
        Links(f, deep, m, in, out, n, ins, outs)
  BY DEF ChainOf
<1>2. PICK ins \in [1 .. n + 1 -> Nat], outs \in [1 .. n + 1 -> Nat] :
        Links(f, deep, m, in, out, n, ins, outs)
  BY <1>1
<1>3. ASSUME NEW k \in 1 .. n
      PROVE  Became(f, deep, m2, ins[k], ins[k + 1], outs[k], outs[k + 1])
  <2>1. Became(f, deep, m, ins[k], ins[k + 1], outs[k], outs[k + 1])
    BY <1>2 DEF Links
  <2>2. k + 1 \in 1 .. n + 1
    OBVIOUS
  <2>3. outs[k + 1] \in 1 .. out
    BY <1>2, <2>2 DEF Links
  <2> DEFINE N == outs[k + 1] - 1
  <2>4. N \in Nat /\ \A x \in 0 .. N - 1 : x \in 0 .. out - 1 - 1
    BY <2>3
  <2> HIDE DEF N
  <2>5. SameUpTo(m2, m, N)
    BY <2>4 DEF SameUpTo
  <2>6. Cells(m2, 0, N) = Cells(m, 0, N)
    BY <2>4, <2>5, SameCells
  <2> QED  BY <2>1, <2>6 DEF Became, N
<1>4. Links(f, deep, m2, in, out, n, ins, outs)
  BY <1>2, <1>3 DEF Links
<1> QED  BY <1>4 DEF ChainOf

(* One more member.                                                        *)
LEMMA GrowChain ==
  ASSUME NEW f, NEW deep, NEW m, NEW in \in Nat, NEW out \in Nat, NEW in2, NEW out2 \in Nat,
         Len(f) \in Nat, ChainOf(f, deep, m, in, out), Became(f, deep, m, in, in2, out, out2)
  PROVE  ChainOf(f, deep, m, in2, out2)
<1>1. PICK n \in Nat : \E ins, outs \in [1 .. n + 1 -> Nat] :
        Links(f, deep, m, in, out, n, ins, outs)
  BY DEF ChainOf
<1>2. PICK ins \in [1 .. n + 1 -> Nat], outs \in [1 .. n + 1 -> Nat] :
        Links(f, deep, m, in, out, n, ins, outs)
  BY <1>1
<1>3. in2 \in in + 1 .. Len(f) /\ out2 > out
  BY DEF Became
<1> DEFINE ins2 == [k \in 1 .. (n + 1) + 1 |-> IF k <= n + 1 THEN ins[k] ELSE in2]
           outs2 == [k \in 1 .. (n + 1) + 1 |-> IF k <= n + 1 THEN outs[k] ELSE out2]
<1>4. /\ ins2 \in [1 .. (n + 1) + 1 -> Nat] /\ outs2 \in [1 .. (n + 1) + 1 -> Nat]
      /\ ins2[1] = 1 /\ outs2[1] = 1
      /\ ins2[(n + 1) + 1] = in2 /\ outs2[(n + 1) + 1] = out2
  BY <1>2, <1>3 DEF Links
<1>5. ASSUME NEW k \in 1 .. (n + 1) + 1
      PROVE  ins2[k] \in 1 .. Len(f) /\ outs2[k] \in 1 .. out2
  <2>1. CASE k <= n + 1
    <3>1. k \in 1 .. n + 1 /\ ins2[k] = ins[k] /\ outs2[k] = outs[k]
      BY <2>1
    <3> HIDE DEF ins2, outs2
    <3>2. ins[k] \in 1 .. Len(f) /\ outs[k] \in 1 .. out
      BY <1>2, <3>1 DEF Links
    <3> QED  BY <1>3, <3>1, <3>2
  <2>2. CASE k = (n + 1) + 1
    BY <1>3, <1>4, <2>2
  <2> QED  BY <2>1, <2>2
<1>6. ASSUME NEW k \in 1 .. n + 1
      PROVE  Became(f, deep, m, ins2[k], ins2[k + 1], outs2[k], outs2[k + 1])
  <2>1. ins2[k] = ins[k] /\ outs2[k] = outs[k]
    OBVIOUS
  <2>2. CASE k \in 1 .. n
    <3>1. ins2[k + 1] = ins[k + 1] /\ outs2[k + 1] = outs[k + 1]
      BY <2>2
    <3> HIDE DEF ins2, outs2
    <3> QED  BY <1>2, <2>1, <2>2, <3>1 DEF Links
  <2>3. CASE k = n + 1
    <3> HIDE DEF ins2, outs2
    <3> QED  BY <1>2, <1>4, <2>1, <2>3 DEF Links
  <2> QED  BY <2>2, <2>3
<1> HIDE DEF ins2, outs2
<1>7. n + 1 \in Nat /\ Links(f, deep, m, in2, out2, n + 1, ins2, outs2)
  BY <1>4, <1>5, <1>6 DEF Links
<1> QED  BY <1>4, <1>7 DEF ChainOf

(* The numbers of an archive.                                              *)
LEMMA ArchiveNumbers ==
  ASSUME ArchiveAssumption, ArchiveInv
  PROVE  /\ Block \in Nat /\ Block > 0 /\ fp \in Nat /\ Len(file) \in Nat
         /\ End = fp + Len(file) /\ p_read \in Nat /\ p_write \in Nat /\ size_leanified \in Nat
         /\ fp <= p_read /\ p_read <= End
         /\ p_read = p_write + size_leanified /\ fp <= size_leanified
BY DEF ArchiveAssumption, TarAssumption, ArchiveInv, TarInv, Fits, End

(* The member that p_read points to lies in the archive and in the buffer. *)
LEMMA MemberThere ==
  ASSUME ArchiveAssumption, ArchiveInv, pc = "record", ~ IsZeroRecord(p_read),
         NEW p, p = p_read - fp + 1, NEW N, N = MemberSize(file, p)
  PROVE  /\ p \in 1 .. Len(file) /\ ~ EndsAt(file, p)
         /\ N \in Nat /\ Block <= N /\ p + N \in p + 1 .. Len(file) /\ p_read + N <= End
         /\ IsHeader(file[p]) => file[p][4] \in Nat
         /\ Same(mem, p_read, file, p, N)
<1>1. ~ IsZeroAt(file, p)
  BY RecordThere
<1>2. p + Block - 1 <= Len(file) /\ p + N + Block - 1 <= Len(file)
  <2>1. PICK S \in SUBSET Nat : RecordsAt(file, S) /\ p \in S
    BY DEF ArchiveInv, OnRecord
  <2>2. p + Block - 1 <= Len(file) /\ p + N \in S
    BY <1>1, <2>1 DEF RecordsAt
  <2> QED  BY <2>1, <2>2 DEF RecordsAt
<1>3. /\ Block \in Nat /\ Block > 0 /\ fp \in Nat /\ Len(file) \in Nat
      /\ End = fp + Len(file) /\ p_read \in Nat /\ fp <= p_read
  BY ArchiveNumbers
<1>4. p \in 1 .. Len(file)
  BY <1>2, <1>3
<1>5. IsHeader(file[p]) => file[p][4] \in Nat
  BY <1>4 DEF ArchiveInv, TarInv, IsConsidered
<1>6. N \in Nat /\ Block <= N
  <2>1. CASE IsHeader(file[p])
    <3>1. file[p][4] \in 0 .. file[p][4] /\ file[p][4] \in Nat
      BY <1>5, <2>1
    <3>2. RoundUp(file[p][4]) \in Nat /\ N = Block + RoundUp(file[p][4])
      BY <2>1, <3>1, RoundUpBounds DEF MemberSize, ArchiveAssumption
    <3> QED  BY <3>2, ArchiveNumbers, SMTT(30)
  <2>2. CASE ~ IsHeader(file[p])
    BY <2>2, ArchiveNumbers DEF MemberSize
  <2> QED  BY <2>1, <2>2
<1>7. ~ EndsAt(file, p)
  BY <1>1, <1>2, <1>3 DEF EndsAt
<1>8. p + N \in p + 1 .. Len(file) /\ p_read + N <= End
  BY <1>2, <1>3, <1>6, SMTT(30)
<1>9. ASSUME NEW k \in 0 .. N - 1
      PROVE  mem[p_read + k] = file[p + k]
  <2> DEFINE x == p_read + k
  <2>1. x \in p_read .. End /\ x \in 0 .. End /\ x \in fp .. End - 1 /\ x - fp + 1 = p + k
    BY <1>3, <1>6, <1>8, SMTT(30)
  <2>2. mem[x] = Before[x]
    BY <2>1 DEF ArchiveInv, TarInv, UnreadIntact
  <2>3. Before[x] = file[x - fp + 1]
    BY <2>1 DEF Before
  <2> QED  BY <2>1, <2>2, <2>3
<1>10. Same(mem, p_read, file, p, N)
  BY <1>9 DEF Same
<1> QED  BY <1>4, <1>5, <1>6, <1>7, <1>8, <1>10

(* A member that is moved as a whole is the same member.                   *)
LEMMA MovedMember ==
  ASSUME ArchiveAssumption, ArchiveInv, pc = "record", ~ IsZeroRecord(p_read), NEW m, NEW deep,
         NEW p, p = p_read - fp + 1, NEW N, N = MemberSize(file, p),
         Same(m, p_write, mem, p_read, N)
  PROVE  Became(file, deep, m, p, p + N, p_write + 1, p_write + 1 + N)
<1> DEFINE q2 == p_write + 1 + N
           s == Cells(m, 0, q2 - 1)
<1>1. /\ p \in 1 .. Len(file) /\ ~ EndsAt(file, p) /\ N \in Nat /\ Block <= N
      /\ p + N \in p + 1 .. Len(file) /\ (IsHeader(file[p]) => file[p][4] \in Nat)
      /\ Same(mem, p_read, file, p, N)
  BY MemberThere
<1>0. p_write \in Nat /\ Len(file) \in Nat /\ Block \in Nat /\ Block > 0
  BY ArchiveNumbers
<1>2. Len(s) = q2 - 1 /\ q2 - 1 \in Nat /\ q2 - 1 = p_write + N
  <2>1. q2 - 1 \in Nat /\ q2 - 1 = p_write + N
    BY <1>0, <1>1, SMTT(30)
  <2>2. Len(s) = q2 - 1
    <3> DEFINE l == q2 - 1
    <3>1. l \in Nat
      BY <2>1
    <3> HIDE DEF l
    <3>2. \A f : Len([i \in 1 .. l |-> f[i]]) = l
      BY <3>1
    <3> QED  BY <3>1 DEF Cells, l
  <2> QED  BY <2>1, <2>2
<1>3. ASSUME NEW k \in 0 .. N - 1
      PROVE  s[p_write + 1 + k] = file[p + k]
  <2>1. p_write + 1 + k \in 1 .. q2 - 1 /\ 0 + (p_write + 1 + k) - 1 = p_write + k
    BY <1>0, <1>1, <1>2, SMTT(30)
  <2>2. s[p_write + 1 + k] = m[p_write + k]
    BY <2>1 DEF Cells
  <2> QED  BY <1>1, <2>2 DEF Same
<1>14. Same(s, p_write + 1, file, p, N)
  BY <1>3 DEF Same
<1> HIDE DEF s
<1>4. /\ Member(s, p_write + 1) = Member(file, p)
      /\ MemberSize(s, p_write + 1) = N /\ ~ EndsAt(s, p_write + 1)
  <2>1. /\ p \in Nat /\ p_write + 1 \in Nat /\ Len(file) \in Nat /\ Len(s) \in Nat
        /\ p + N - 1 <= Len(file) /\ p_write + 1 + N - 1 <= Len(s)
    <3>1. p \in Nat /\ p_write + 1 \in Nat /\ Len(file) \in Nat /\ p + N - 1 <= Len(file)
      BY <1>0, <1>1
    <3>2. p_write + 1 + N - 1 = q2 - 1
      BY <1>0, <1>1
    <3>3. q2 - 1 <= q2 - 1
      BY <1>2
    <3> HIDE DEF q2
    <3> QED  BY <1>2, <3>1, <3>2, <3>3
  <2>2. TarAssumption
    BY DEF ArchiveAssumption
  <2> QED  BY <1>1, <1>14, <2>1, <2>2, SameMember, SMTT(30)
<1>5. IsHeader(s[p_write + 1]) => s[p_write + 1][4] \in Nat
  <2>1. 0 \in 0 .. N - 1 /\ p_write + 1 + 0 = p_write + 1 /\ p + 0 = p
    BY <1>0, <1>1
  <2>2. s[p_write + 1] = file[p]
    BY <1>3, <2>1
  <2> QED  BY <1>1, <2>2
<1>6. q2 > p_write + 1 /\ q2 = p_write + 1 + N
  <2>1. Block > 0 /\ Block \in Nat
    BY ArchiveNumbers
  <2> QED  BY <1>0, <1>1, <2>1
<1> QED  BY <1>1, <1>4, <1>5, <1>6 DEF Became, KeptIf, s

(* The next member is passed.                                              *)
LEMMA PassMember ==
  ASSUME MembersAssumption, MembersInv, pc = "record", ~ IsZeroRecord(p_read), ArchiveInv',
         NEW n \in Nat, NEW k \in 0..n, Advance(n, k),
         SameUpTo(mem', mem, p_write),
         Became(file, MayRecurse, mem', p_read - fp + 1, p_read - fp + 1 + (Block + n),
                p_write + 1, p_write + 1 + (Block + k))
  PROVE  MembersInv'
<1> DEFINE p == p_read - fp + 1
           q == p_write + 1
<1>1. /\ p_read' = p_read + Block + n /\ p_write' = p_write + Block + k
      /\ pc' = IF p_write' < size THEN "record" ELSE "trailer"
      /\ UNCHANGED call
  <2>1. size \in Int
    BY DEF MembersInv, ArchiveInv, TarInv, Fits
  <2> QED  BY <2>1 DEF Advance, fp_w
<1>2. UNCHANGED <<file, fp, MayRecurse>>
  BY <1>1 DEF call, fp, MayRecurse
<1>3. /\ Block \in Nat /\ fp \in Nat /\ p_read \in Nat /\ p_write \in Nat /\ Len(file) \in Nat
      /\ fp <= p_read
  BY ArchiveNumbers DEF MembersInv, MembersAssumption
<1>4. p_read' - fp + 1 = p + (Block + n) /\ p_write' + 1 = q + (Block + k)
  BY <1>1, <1>3
<1>5. p \in Nat /\ q \in Nat /\ q + (Block + k) \in Nat
  BY <1>3
<1> HIDE DEF p, q
<1>6. ChainOf(file, MayRecurse, mem, p, q)
  BY DEF MembersInv, Chain, p, q
<1>7. ChainOf(file, MayRecurse, mem', p, q)
  <2>1. SameUpTo(mem', mem, q - 1)
    <3>1. q - 1 = p_write
      BY <1>3 DEF q
    <3> QED  BY <3>1
  <2> QED  BY <1>5, <1>6, <2>1, SameChain
<1>8. Became(file, MayRecurse, mem', p, p + (Block + n), q, q + (Block + k))
  BY DEF p, q
<1>9. ChainOf(file, MayRecurse, mem', p + (Block + n), q + (Block + k))
  BY <1>3, <1>5, <1>7, <1>8, GrowChain
<1>10. Chain'
  BY <1>2, <1>4, <1>9 DEF Chain
<1>11. pc' = "record"
  <2>1. p + (Block + n) \in p + 1 .. Len(file)
    BY <1>8 DEF Became
  <2>2. size = Len(file) /\ fp <= size_leanified /\ p_read = p_write + size_leanified
          /\ size_leanified \in Nat
    BY DEF MembersInv, ArchiveInv, Fits, TarInv
  <2>3. p_read' - fp + 1 <= Len(file) /\ p_read' \in Nat
    BY <1>1, <1>3, <1>4, <2>1
  <2>4. p_write + Block + k < size
    <3>1. p_read + Block + n - fp + 1 <= Len(file)
      BY <1>1, <1>3, <2>3
    <3>2. k \in Nat /\ k <= n
      OBVIOUS
    <3> QED  BY <1>3, <2>2, <3>1, <3>2
  <2> QED  BY <1>1, <2>4
<1>12. AtEnd'
  BY <1>11 DEF AtEnd
<1> QED  BY <1>10, <1>12 DEF MembersInv

LEMMA MemMoveAt ==
  ASSUME NEW m, NEW dst, NEW src, NEW n, NEW x \in DOMAIN m
  PROVE  /\ \A y : x \in dst .. dst + n - 1 /\ y = x - dst + src =>
                    MemMove(m, dst, src, n)[x] = m[y]
         /\ x \notin dst .. dst + n - 1 => MemMove(m, dst, src, n)[x] = m[x]
BY DEF MemMove

(* The header is moved to p_write, and what lies around it stays.          *)
LEMMA MovedHeader ==
  ASSUME ArchiveAssumption, ArchiveInv, p_read + Block <= End
  PROVE  /\ Same(HeaderMoved, p_write, mem, p_read, Block)
         /\ SameUpTo(HeaderMoved, mem, p_write)
         /\ \A x \in DOMAIN mem : x >= p_read + Block => HeaderMoved[x] = mem[x]
<1>1. /\ Block \in Nat /\ p_read \in Nat /\ p_write \in Nat /\ p_write <= p_read /\ End \in Nat
  BY ArchiveNumbers
<1>2. DOMAIN mem = 0 .. End
  BY DEF ArchiveInv, TarInv
<1>3. ASSUME NEW k \in 0 .. Block - 1
      PROVE  HeaderMoved[p_write + k] = mem[p_read + k]
  <2>1. /\ p_write + k \in 0 .. End /\ p_write + k \in p_write .. p_write + Block - 1
        /\ p_write + k - p_write + p_read = p_read + k
    BY <1>1
  <2>2. p_write + k \in DOMAIN mem
    BY <1>2, <2>1
  <2> DEFINE x == p_write + k
             y == p_read + k
  <2>3. x \in DOMAIN mem /\ x \in p_write .. p_write + Block - 1 /\ y = x - p_write + p_read
    BY <1>1, <2>1, <2>2
  <2> HIDE DEF x, y
  <2>4. HeaderMoved[x] = mem[y]
    BY <2>3, MemMoveAt DEF HeaderMoved
  <2> QED  BY <2>4 DEF x, y
<1>4. ASSUME NEW x \in 0 .. p_write - 1
      PROVE  HeaderMoved[x] = mem[x]
  <2>1. x \in 0 .. End /\ x \notin p_write .. p_write + Block - 1
    BY <1>1
  <2>2. x \in DOMAIN mem
    BY <1>2, <2>1
  <2> QED  BY <2>1, <2>2, MemMoveAt DEF HeaderMoved
<1>5. \A x \in DOMAIN mem : x >= p_read + Block => HeaderMoved[x] = mem[x]
  BY HeaderMovedInv DEF ArchiveInv, ArchiveAssumption
<1> QED  BY <1>3, <1>4, <1>5 DEF Same, SameUpTo

LEMMA HeaderOnlyMembers ==
  ASSUME MembersAssumption, MembersInv, BadRecord \/ EmptyMember, ArchiveInv'
  PROVE  MembersInv'
<1> DEFINE p == p_read - fp + 1
<1>0. ArchiveAssumption /\ ArchiveInv
  BY DEF MembersAssumption, MembersInv
<1>1. /\ pc = "record" /\ ~ IsZeroRecord(p_read) /\ mem' = HeaderMoved /\ Advance(0, 0)
      /\ IsHeader(mem[p_read]) => mem[p_read][4] = 0
  BY <1>0, HeaderThere DEF BadRecord, EmptyMember, Header
<1>2. mem[p_read] = file[p] /\ p_read + Block <= End
  BY <1>0, <1>1, RecordThere
<1>3. MemberSize(file, p) = Block + 0
  BY <1>0, <1>1, <1>2, RoundUpZero DEF MemberSize, ArchiveAssumption
<1>4. MemberSize(file, p) = Block
  BY <1>0, <1>3, ArchiveNumbers
<1>5. Same(mem', p_write, mem, p_read, Block) /\ SameUpTo(mem', mem, p_write)
  BY <1>0, <1>1, <1>2, MovedHeader
<1>6. Became(file, MayRecurse, mem', p, p + Block, p_write + 1, p_write + 1 + Block)
  BY <1>0, <1>1, <1>4, <1>5, MovedMember
<1>7. Block + 0 = Block /\ 0 \in Nat /\ 0 \in 0 .. 0
  BY <1>0, ArchiveNumbers
<1> QED  BY <1>1, <1>5, <1>6, <1>7, PassMember

LEMMA MoveMembers ==
  ASSUME MembersAssumption, MembersInv, MoveMember, ArchiveInv'
  PROVE  MembersInv'
<1> DEFINE p == p_read - fp + 1
           n == mem[p_read][4]
           N == Block + RoundUp(n)
<1>0. ArchiveAssumption /\ ArchiveInv /\ TarAssumption
  BY DEF MembersAssumption, MembersInv, ArchiveAssumption
<1>1. /\ pc = "record" /\ ~ IsZeroRecord(p_read) /\ IsHeader(mem[p_read]) /\ n \in Nat
      /\ mem' = MemMove(HeaderMoved, p_write + Block, p_read + Block, RoundUp(n))
      /\ Advance(RoundUp(n), RoundUp(n))
  BY <1>0, HeaderThere DEF MoveMember
<1>2. mem[p_read] = file[p] /\ p_read + Block <= End
  BY <1>0, <1>1, RecordThere
<1>3. MemberSize(file, p) = N
  BY <1>1, <1>2 DEF MemberSize
<1>4. RoundUp(n) \in Nat
  <2>1. n \in 0 .. n
    BY <1>1
  <2> QED  BY <1>0, <1>1, <2>1, RoundUpBounds
<1>5. p_read + N <= End
  BY <1>0, <1>1, <1>3, MemberThere
<1>6. /\ Block \in Nat /\ p_read \in Nat /\ p_write \in Nat /\ p_write <= p_read /\ End \in Nat
  BY <1>0, ArchiveNumbers
<1>7. DOMAIN mem = 0 .. End /\ DOMAIN HeaderMoved = 0 .. End
  BY <1>0, HeaderMovedDomain DEF ArchiveInv, TarInv
<1>8. /\ Same(HeaderMoved, p_write, mem, p_read, Block)
      /\ SameUpTo(HeaderMoved, mem, p_write)
      /\ \A x \in DOMAIN mem : x >= p_read + Block => HeaderMoved[x] = mem[x]
  BY <1>0, <1>2, MovedHeader
<1> DEFINE R == RoundUp(n)
<1> HIDE DEF n, R
<1>9. ASSUME NEW k \in 0 .. N - 1
      PROVE  mem'[p_write + k] = mem[p_read + k]
  <2>0. R \in Nat /\ N = Block + R /\ p_read + Block + R <= End
    BY <1>4, <1>5, <1>6 DEF R
  <2> HIDE DEF N
  <2>1. CASE k < Block
    <3>1. /\ p_write + k \in 0 .. End /\ k \in 0 .. Block - 1
          /\ p_write + k \notin p_write + Block .. p_write + Block + R - 1
      BY <1>6, <2>0, <2>1
    <3>2. mem'[p_write + k] = HeaderMoved[p_write + k]
      <4>1. p_write + k \in DOMAIN HeaderMoved
        BY <1>7, <3>1
      <4> QED  BY <1>1, <3>1, <4>1, MemMoveAt DEF R
    <3> QED  BY <1>8, <3>1, <3>2 DEF Same
  <2>2. CASE ~ (k < Block)
    <3>1. /\ p_write + k \in 0 .. End /\ p_read + k \in 0 .. End
          /\ p_write + k \in p_write + Block .. p_write + Block + R - 1
          /\ p_write + k - (p_write + Block) + (p_read + Block) = p_read + k
          /\ p_read + k >= p_read + Block
      BY <1>6, <2>0, <2>2
    <3>2. mem'[p_write + k] = HeaderMoved[p_read + k]
      <4>1. p_write + k \in DOMAIN HeaderMoved
        BY <1>7, <3>1
      <4> DEFINE x == p_write + k
                 y == p_read + k
      <4>2. /\ x \in DOMAIN HeaderMoved /\ x \in p_write + Block .. p_write + Block + R - 1
            /\ y = x - (p_write + Block) + (p_read + Block)
        BY <1>6, <2>0, <3>1, <4>1
      <4> HIDE DEF x, y
      <4>3. mem'[x] = HeaderMoved[y]
        BY <1>1, <4>2, MemMoveAt DEF R
      <4> QED  BY <4>3 DEF x, y
    <3> QED  BY <1>7, <1>8, <3>1, <3>2
  <2> QED  BY <2>1, <2>2
<1>10. ASSUME NEW x \in 0 .. p_write - 1
       PROVE  mem'[x] = mem[x]
  <2>1. R \in Nat
    BY <1>4 DEF R
  <2>2. x \in 0 .. End /\ x \notin p_write + Block .. p_write + Block + R - 1
    <3>1. p_write <= End
      BY <1>2, <1>6
    <3> QED  BY <1>6, <2>1, <3>1
  <2>3. mem'[x] = HeaderMoved[x]
    <3>1. x \in DOMAIN HeaderMoved
      BY <1>7, <2>2
    <3> QED  BY <1>1, <2>2, <3>1, MemMoveAt DEF R
  <2> QED  BY <1>8, <2>3 DEF SameUpTo
<1>11. Same(mem', p_write, mem, p_read, N) /\ SameUpTo(mem', mem, p_write)
  BY <1>9, <1>10 DEF Same, SameUpTo
<1>12. Became(file, MayRecurse, mem', p, p + N, p_write + 1, p_write + 1 + N)
  <2> HIDE DEF N
  <2> QED  BY <1>0, <1>1, <1>3, <1>11, MovedMember
<1>13. RoundUp(n) \in 0 .. RoundUp(n)
  BY <1>4
<1> QED  BY <1>1, <1>4, <1>11, <1>12, <1>13, PassMember

(* What a file of n cells becomes has the size that it is said to have.    *)
LEMMA LeanSize ==
  ASSUME NEW m, NEW p, NEW n \in Nat, NEW r \in 0 .. n, NEW s, s = Cells(m, p, n)
  PROVE  /\ Len(s) = n /\ Len(Lean(s, r)) = r
         /\ Lean(s, r) = [k \in 1 .. r |-> Lean(s, r)[k]]
<1>1. s = [k \in 1 .. n |-> s[k]] /\ Len(s) = n
  <2>1. s = [k \in 1 .. n |-> m[p + k - 1]]
    BY DEF Cells
  <2>2. \A f : Len([k \in 1 .. n |-> f[k]]) = n
    OBVIOUS
  <2>3. \A k \in 1 .. n : s[k] = m[p + k - 1]
    BY <2>1
  <2>4. s = [k \in 1 .. n |-> s[k]]
    BY <2>1, <2>3
  <2>5. Len(s) = Len([k \in 1 .. n |-> s[k]])
    BY <2>4
  <2> QED  BY <2>2, <2>4, <2>5
<1>2. r \in Nat
  OBVIOUS
<1>3. CASE s = <<>> \/ r >= Len(s)
  <2>1. r = n
    BY <1>1, <1>3
  <2>2. Lean(s, r) = s
    BY <1>3 DEF Lean
  <2> QED  BY <1>1, <2>1, <2>2
<1>4. CASE ~ (s = <<>> \/ r >= Len(s))
  <2>1. CASE s[1][1] = "zlib"
    <3>1. Lean(s, r) = [k \in 1 .. r |-> <<"zlib", s[1][2], k, r>>]
      BY <1>4, <2>1 DEF Lean, Zlib
    <3> QED  BY <1>1, <1>2, <3>1
  <2>2. CASE s[1][1] # "zlib"
    <3>1. Lean(s, r) = [k \in 1 .. r |-> <<"lean", s[1][2], k>>]
      BY <1>4, <2>2 DEF Lean
    <3> QED  BY <1>1, <1>2, <3>1
  <2> QED  BY <2>1, <2>2
<1> QED  BY <1>3, <1>4

LEMMA PutAt ==
  ASSUME NEW m, NEW p \in Int, NEW h, NEW x \in Int, x \in DOMAIN m
  PROVE  /\ x = p => Put(m, p, <<h>>)[x] = h
         /\ x # p => Put(m, p, <<h>>)[x] = m[x]
<1> DEFINE s == <<h>>
<1>1. s[1] = h /\ p .. p + Len(s) - 1 = p .. p
  OBVIOUS
<1>2. x \in p .. p <=> x = p
  OBVIOUS
<1>3. x = p => x - p + 1 = 1
  OBVIOUS
<1> HIDE DEF s
<1>4. Put(m, p, s)[x] = IF x = p THEN s[x - p + 1] ELSE m[x]
  BY <1>1, <1>2 DEF Put
<1> QED  BY <1>1, <1>3, <1>4 DEF s

LEMMA MemSetAt ==
  ASSUME NEW m, NEW p, NEW c, NEW n, NEW x \in DOMAIN m
  PROVE  /\ x \in p .. p + n - 1 => MemSet(m, p, c, n)[x] = c
         /\ x \notin p .. p + n - 1 => MemSet(m, p, c, n)[x] = m[x]
BY DEF MemSet

LEMMA LeanifiedInFront ==
  ASSUME NEW m, NEW p \in Int, NEW n, NEW slack \in Int, NEW s,
         NEW x \in Int, x \in DOMAIN m, x < p - slack
  PROVE  Leanified(m, p, n, slack, s)[x] = m[x]
<1>1. x \notin p - slack .. p + n - 1
  OBVIOUS
<1> QED  BY <1>1 DEF Leanified

(* The buffer after a file was leanified: the new header and, behind it,   *)
(* what the file became.                                                   *)
LEMMA LeanifiedThere ==
  ASSUME ArchiveAssumption, ArchiveInv, NEW r, LeanifyMember(r),
         NEW p, p = p_read - fp + 1, NEW n, n = file[p][4], NEW old, old = Cells(file, p + Block, n)
  PROVE  /\ mem'[p_write] = Resized(file[p], r)
         /\ \A j \in 1 .. r : mem'[p_write + Block + j - 1] = Lean(old, r)[j]
         /\ SameUpTo(mem', mem, p_write)
<1> DEFINE m == FileLeanified(HeaderMoved, p_read + Block, n, size_leanified, r)
           h == Resized(file[p], r)
           P == Put(m, p_write, <<h>>)
           L == Lean(old, r)
           z == p_write + Block + r
<1>1. /\ pc = "record" /\ ~ IsZeroRecord(p_read) /\ IsHeader(mem[p_read])
      /\ mem[p_read] = file[p] /\ n \in Nat /\ n > 0 /\ r \in 0 .. n
      /\ mem' = MemSet(P, z, Zero, Padding(r))
  <2>1. mem[p_read][4] \in Nat /\ pc = "record" /\ ~ IsZeroRecord(p_read) /\ IsHeader(mem[p_read])
    BY HeaderThere DEF LeanifyMember
  <2>2. mem[p_read] = file[p]
    BY <2>1, RecordThere
  <2> QED  BY <2>1, <2>2 DEF LeanifyMember, FileSizes
<1>2. /\ Block \in Nat /\ Block > 0 /\ p_read \in Nat /\ p_write \in Nat /\ size_leanified \in Nat
      /\ p_read = p_write + size_leanified /\ End \in Nat
  <2>1. fp \in Nat /\ Len(file) \in Nat /\ End = fp + Len(file)
    BY ArchiveNumbers
  <2> QED  BY <2>1, ArchiveNumbers
<1>3. MemberSize(file, p) = Block + RoundUp(n)
  BY <1>1 DEF MemberSize
<1>4. RoundUp(n) \in Nat /\ n <= RoundUp(n)
  <2>1. n \in 0 .. n
    BY <1>1
  <2> QED  BY <1>1, <2>1, RoundUpBounds DEF ArchiveAssumption
<1>5. /\ p_read + (Block + RoundUp(n)) <= End
      /\ Same(mem, p_read, file, p, Block + RoundUp(n))
      /\ p \in 1 .. Len(file)
  BY <1>1, <1>3, MemberThere
<1> DEFINE R == RoundUp(n)
<1>6. R \in Nat /\ n <= R /\ p_read + Block + R <= End
  BY <1>2, <1>4, <1>5
<1> HIDE DEF R
<1>7. DOMAIN mem = 0 .. End /\ DOMAIN HeaderMoved = 0 .. End
  BY HeaderMovedDomain DEF ArchiveInv, TarInv
<1>8. /\ SameUpTo(HeaderMoved, mem, p_write)
      /\ \A x \in DOMAIN mem : x >= p_read + Block => HeaderMoved[x] = mem[x]
  <2>1. p_read + Block <= End
    BY <1>2, <1>6
  <2> QED  BY <2>1, MovedHeader
<1>9. Cells(HeaderMoved, p_read + Block, n) = old
  <2>1. ASSUME NEW k \in 1 .. n
        PROVE  HeaderMoved[p_read + Block + k - 1] = file[p + Block + k - 1]
    <3> DEFINE x == p_read + Block + k - 1
    <3>1. x \in 0 .. End /\ x >= p_read + Block
      BY <1>1, <1>2, <1>6
    <3>2. HeaderMoved[x] = mem[x]
      BY <1>7, <1>8, <3>1
    <3>3. /\ Block + k - 1 \in 0 .. Block + RoundUp(n) - 1
          /\ p_read + (Block + k - 1) = x /\ p + (Block + k - 1) = p + Block + k - 1
      <4>1. p \in Int
        BY <1>5
      <4> QED  BY <1>1, <1>2, <1>6, <4>1 DEF R
    <3>4. mem[p_read + (Block + k - 1)] = file[p + (Block + k - 1)]
      <4> DEFINE K == Block + k - 1
                 M == Block + RoundUp(n)
      <4>1. Same(mem, p_read, file, p, M) /\ K \in 0 .. M - 1
        <5>1. Same(mem, p_read, file, p, M)
          BY <1>5
        <5>2. K \in 0 .. M - 1
          BY <1>1, <1>2, <1>4, <3>3
        <5> QED  BY <5>1, <5>2
      <4> HIDE DEF K, M
      <4>2. mem[p_read + K] = file[p + K]
        BY <4>1, SameAt
      <4> QED  BY <4>2 DEF K
    <3> QED  BY <3>2, <3>3, <3>4
  <2> QED  BY <2>1 DEF Cells
<1>10. Len(L) = r /\ L = [k \in 1 .. r |-> L[k]]
  BY <1>1, LeanSize, SMTT(30)
<1>11. m = Leanified(HeaderMoved, p_read + Block, n, size_leanified, L)
  BY <1>1, <1>9 DEF FileLeanified
<1>12. DOMAIN m = 0 .. End /\ DOMAIN P = 0 .. End
  <2>1. DOMAIN m = 0 .. End
    BY <1>7, FileLeanifiedDomain
  <2> HIDE DEF m, h
  <2> QED  BY <2>1 DEF Put
<1> HIDE DEF m, h, P, L, z
<1>13. \A x \in 0 .. End : x < z => mem'[x] = P[x]
  <2> SUFFICES ASSUME NEW x \in 0 .. End, x < z PROVE mem'[x] = P[x]
    OBVIOUS
  <2>1. x \notin z .. z + Padding(r) - 1
    <3>1. z \in Int
      BY <1>1, <1>2 DEF z
    <3> QED  BY <3>1
  <2>2. x \in DOMAIN P
    BY <1>12
  <2> QED  BY <1>1, <2>1, <2>2, MemSetAt
<1>14. mem'[p_write] = h
  <2>1. p_write \in 0 .. End /\ p_write < z /\ p_write \in Int
    BY <1>1, <1>2, <1>6 DEF z
  <2>2. P[p_write] = h
    <3>1. p_write \in DOMAIN m
      BY <1>12, <2>1
    <3> QED  BY <2>1, <3>1, PutAt DEF P
  <2> QED  BY <1>13, <2>1, <2>2
<1>15. ASSUME NEW j \in 1 .. r
       PROVE  mem'[p_write + Block + j - 1] = L[j]
  <2> DEFINE x == p_write + Block + j - 1
  <2>1. /\ x \in 0 .. End /\ x < z /\ x \in Int /\ x # p_write /\ p_write \in Int
        /\ x = p_read + Block - size_leanified + j - 1 /\ p_read + Block \in Int
        /\ r \in 0 .. n /\ n \in Nat
    BY <1>1, <1>2, <1>6 DEF z
  <2> HIDE DEF x
  <2>2. P[x] = m[x]
    <3>1. x \in DOMAIN m /\ x \in Int /\ p_write \in Int /\ x # p_write
      BY <1>12, <2>1
    <3>2. Put(m, p_write, <<h>>)[x] = m[x]
      BY <3>1, PutAt
    <3> QED  BY <3>2 DEF P
  <2>3. m[x] = L[j]
    <3> DEFINE b == p_read + Block
    <3>1. x \in Int /\ b \in Int /\ x = b - size_leanified + j - 1
      BY <1>2, <2>1
    <3>2. x \in DOMAIN HeaderMoved
      BY <1>7, <2>1
    <3>3. size_leanified \in Nat
      BY <1>2
    <3>4. n \in Nat /\ Len(L) \in 0 .. n /\ j \in 1 .. Len(L)
      BY <1>10, <2>1
    <3> HIDE DEF b
    <3>5. Leanified(HeaderMoved, b, n, size_leanified, L)[x] = L[j]
      <4>1. x \in b - size_leanified .. b + n - 1 /\ x < b - size_leanified + Len(L)
              /\ x - b + size_leanified + 1 = j
        BY <3>1, <3>3, <3>4
      <4> QED  BY <3>2, <4>1 DEF Leanified
    <3> QED  BY <1>11, <3>5 DEF b
  <2>4. mem'[x] = L[j]
    BY <1>13, <2>1, <2>2, <2>3
  <2> QED  BY <2>4 DEF x
<1>16. ASSUME NEW x \in 0 .. p_write - 1
       PROVE  mem'[x] = mem[x]
  <2>1. /\ x \in 0 .. End /\ x < z /\ x \in Int /\ x # p_write /\ p_write \in Int
        /\ x < p_read + Block - size_leanified /\ p_read + Block \in Int
        /\ r \in 0 .. n /\ n \in Nat
    BY <1>1, <1>2, <1>6 DEF z
  <2>2. P[x] = m[x]
    <3>1. x \in DOMAIN m /\ x \in Int /\ p_write \in Int /\ x # p_write
      BY <1>12, <2>1
    <3>2. Put(m, p_write, <<h>>)[x] = m[x]
      BY <3>1, PutAt
    <3> QED  BY <3>2 DEF P
  <2>3. m[x] = HeaderMoved[x]
    <3> DEFINE b == p_read + Block
    <3>1. x \in Int /\ b \in Int /\ x < b - size_leanified
      BY <1>2, <2>1
    <3>2. x \in DOMAIN HeaderMoved
      BY <1>7, <2>1
    <3>3. size_leanified \in Int
      BY <1>2
    <3> HIDE DEF b
    <3>4. Leanified(HeaderMoved, b, n, size_leanified, L)[x] = HeaderMoved[x]
      BY <3>1, <3>2, <3>3, LeanifiedInFront
    <3> QED  BY <1>11, <3>4 DEF b
  <2>4. HeaderMoved[x] = mem[x]
    BY <1>8 DEF SameUpTo
  <2> QED  BY <1>13, <2>1, <2>2, <2>3, <2>4
<1> QED  BY <1>14, <1>15, <1>16 DEF h, L, SameUpTo

LEMMA LeanifyMembers ==
  ASSUME MembersAssumption, MembersInv, NEW r, LeanifyMember(r), ArchiveInv'
  PROVE  MembersInv'
<1> DEFINE p == p_read - fp + 1
           n == file[p][4]
           c == file[p]
           old == Cells(file, p + Block, n)
           R == RoundUp(r)
           q == p_write + 1
           q2 == q + (Block + R)
           s == Cells(mem', 0, q2 - 1)
<1>0. ArchiveAssumption /\ ArchiveInv /\ TarAssumption
  BY DEF MembersAssumption, MembersInv, ArchiveAssumption
<1>1. /\ pc = "record" /\ ~ IsZeroRecord(p_read) /\ IsHeader(c) /\ c[3] = "file"
      /\ mem[p_read] = c /\ n \in Nat /\ n > 0 /\ r \in 0 .. n /\ MayRecurse
      /\ Advance(RoundUp(n), R)
  <2>1. /\ mem[p_read][4] \in Nat /\ pc = "record" /\ ~ IsZeroRecord(p_read)
        /\ IsHeader(mem[p_read]) /\ mem[p_read][3] = "file"
    BY <1>0, HeaderThere DEF LeanifyMember
  <2>2. mem[p_read] = c
    BY <1>0, <2>1, RecordThere
  <2> QED  BY <2>1, <2>2 DEF LeanifyMember, FileSizes
<1>2. /\ Block \in Nat /\ Block > 0 /\ p_write \in Nat
  BY <1>0, ArchiveNumbers
<1>3. MemberSize(file, p) = Block + RoundUp(n)
  BY <1>1 DEF MemberSize
<1>4. RoundUp(n) \in Nat /\ R \in Nat /\ R \in 0 .. RoundUp(n) /\ r <= R
  BY <1>0, <1>1, RoundUpBounds
<1>5. /\ ~ EndsAt(file, p) /\ p + (Block + RoundUp(n)) \in p + 1 .. Len(file)
  BY <1>0, <1>1, <1>3, MemberThere
<1>6. /\ mem'[p_write] = Resized(c, r)
      /\ \A j \in 1 .. r : mem'[p_write + Block + j - 1] = Lean(old, r)[j]
      /\ SameUpTo(mem', mem, p_write)
  BY <1>0, LeanifiedThere
<1>7. Len(old) = n /\ Len(Lean(old, r)) = r /\ Lean(old, r) = [k \in 1 .. r |-> Lean(old, r)[k]]
  BY SMTT(30), <1>1, LeanSize
<1>8. /\ r \in Nat /\ q \in Nat /\ q2 - 1 \in Nat /\ q2 > q /\ q + Block - 1 <= q2 - 1
      /\ q2 - 1 = p_write + Block + R
  BY <1>1, <1>2, <1>4
<1> HIDE DEF R, n, q2, old
<1>9. Len(s) = q2 - 1 /\ \A i \in 1 .. q2 - 1 : s[i] = mem'[0 + i - 1]
  <2> DEFINE l == q2 - 1
  <2>1. l \in Nat
    BY <1>8
  <2> HIDE DEF l
  <2>2. \A f : Len([i \in 1 .. l |-> f[i]]) = l /\ \A i \in 1 .. l : [j \in 1 .. l |-> f[j]][i] = f[i]
    BY <2>1
  <2> QED  BY <2>1 DEF Cells, l
<1>10. s[q] = Resized(c, r)
  <2>1. q \in 1 .. q2 - 1 /\ 0 + q - 1 = p_write
    BY <1>2, <1>8
  <2> HIDE DEF q, s
  <2> QED  BY <1>6, <1>9, <2>1
<1>11. Cells(s, q + Block, r) = Lean(old, r)
  <2>1. ASSUME NEW k \in 1 .. r
        PROVE  s[q + Block + k - 1] = Lean(old, r)[k]
    <3> DEFINE i == q + Block + k - 1
    <3>1. i \in 1 .. q2 - 1 /\ 0 + i - 1 = p_write + Block + k - 1
      BY <1>2, <1>4, <1>8
    <3> HIDE DEF i, s
    <3>2. s[i] = mem'[p_write + Block + k - 1]
      BY <1>9, <3>1
    <3> QED  BY <1>6, <3>2 DEF i
  <2> HIDE DEF s
  <2>2. Cells(s, q + Block, r) = [k \in 1 .. r |-> Lean(old, r)[k]]
    BY <2>1 DEF Cells
  <2> QED  BY <1>7, <2>2
<1> HIDE DEF s, c, q, p
<1>12. IsHeader(s[q]) /\ s[q][2] = c[2] /\ s[q][3] = "file" /\ s[q][4] = r
  BY <1>1, <1>10 DEF IsHeader, Resized
<1>13. Member(s, q) = [name |-> c[2], type |-> "file", contents |-> Lean(old, r)]
  BY <1>11, <1>12 DEF Member
<1>14. Member(file, p) = [name |-> c[2], type |-> "file", contents |-> old]
  BY <1>1 DEF Member, c, n, old
<1>15. KeptIf(MayRecurse, Member(s, q), Member(file, p))
  BY <1>1, <1>7, <1>13, <1>14 DEF KeptIf, IsLeanOf
<1>16. MemberSize(s, q) = Block + R
  BY <1>12 DEF MemberSize, R
<1>17. ~ EndsAt(s, q)
  <2>1. s[q] # Zero
    BY <1>12 DEF MembersAssumption
  <2>2. 0 \in 0 .. Block - 1 /\ q + 0 = q
    BY <1>2, <1>8
  <2>3. ~ IsZeroAt(s, q)
    BY <2>1, <2>2 DEF IsZeroAt
  <2>4. ~ (q + Block - 1 > Len(s))
    BY <1>2, <1>8, <1>9
  <2> QED  BY <2>3, <2>4 DEF EndsAt
<1>18. Became(file, MayRecurse, mem', p, p + (Block + RoundUp(n)), q, q2)
  BY <1>3, <1>5, <1>8, <1>12, <1>15, <1>16, <1>17 DEF Became, s, q2
<1> QED  BY <1>0, <1>1, <1>4, <1>6, <1>18, PassMember DEF p, q, q2

LEMMA MembersInit == ASSUME MembersAssumption, Init PROVE MembersInv
<1>1. ArchiveInv
  BY ArchiveInit DEF MembersAssumption
<1>2. p_read = fp /\ p_write = 0 /\ pc = "start"
  BY DEF Init, Called, Start, fp_w
<1>3. fp \in Nat /\ Len(file) \in Nat
  BY <1>1, ArchiveNumbers DEF MembersAssumption
<1>4. 1 \in 1 .. Len(file)
  <2>1. PICK S \in SUBSET Nat : RecordsAt(file, S)
    BY <1>1 DEF ArchiveInv, OnRecord
  <2>2. 1 + Block - 1 <= Len(file)
    BY <2>1 DEF RecordsAt
  <2>3. Block \in Nat /\ Block > 0
    BY <1>1, ArchiveNumbers DEF MembersAssumption
  <2> QED  BY <1>3, <2>2, <2>3
<1>5. p_read - fp + 1 = 1 /\ p_write + 1 = 1
  BY <1>2, <1>3
<1>6. ChainOf(file, MayRecurse, mem, 1, 1)
  <2> DEFINE ones == [k \in 1 .. 0 + 1 |-> 1]
  <2>1. ones \in [1 .. 0 + 1 -> Nat] /\ \A k \in 1 .. 0 + 1 : ones[k] = 1
    OBVIOUS
  <2>2. 0 \in Nat /\ 1 \in 1 .. 0 + 1 /\ 0 + 1 \in 1 .. 0 + 1 /\ 1 .. 0 = {} /\ 1 \in 1 .. 1
    OBVIOUS
  <2> HIDE DEF ones
  <2>3. Links(file, MayRecurse, mem, 1, 1, 0, ones, ones)
    BY <1>4, <2>1, <2>2 DEF Links
  <2> QED  BY <2>1, <2>2, <2>3 DEF ChainOf
<1>7. Chain
  BY <1>5, <1>6 DEF Chain
<1>8. AtEnd
  BY <1>2 DEF AtEnd
<1> QED  BY <1>1, <1>7, <1>8 DEF MembersInv

LEMMA StillMembers ==
  ASSUME MembersAssumption, MembersInv, ArchiveInv',
         UNCHANGED <<call, mem, p_read, size, p_write>>,
         \/ UNCHANGED pc
         \/ pc' = "record"
         \/ pc' = "trailer" /\ EndsAt(file, p_read - fp + 1)
  PROVE  MembersInv'
<1>1. UNCHANGED <<file, fp, MayRecurse, mem, p_read, size, p_write>>
  BY DEF call, fp, MayRecurse
<1>2. Chain'
  BY <1>1 DEF MembersInv, Chain
<1>3. AtEnd'
  BY <1>1 DEF MembersInv, AtEnd, EndsAt, IsZeroAt
<1> QED  BY <1>2, <1>3 DEF MembersInv

LEMMA WriteTrailerMembers ==
  ASSUME MembersAssumption, MembersInv, WriteTrailer, ArchiveInv'
  PROVE  MembersInv'
<1>0. ArchiveAssumption /\ ArchiveInv
  BY DEF MembersAssumption, MembersInv
<1>1. /\ pc = "trailer" /\ pc' = "done" /\ mem' = MemSet(mem, p_write, Zero, 2 * Block)
      /\ size' = p_write + 2 * Block - 0 /\ UNCHANGED <<call, p_read, p_write>>
  BY DEF WriteTrailer, locals, fp_w
<1>2. UNCHANGED <<file, fp, MayRecurse, p_read, p_write>>
  BY <1>1 DEF call, fp, MayRecurse
<1>3. /\ Block \in Nat /\ p_write \in Nat /\ Len(file) \in Nat /\ fp \in Nat /\ End = fp + Len(file)
      /\ p_write + 2 * Block <= Len(file)
  BY <1>0, <1>1, ArchiveNumbers DEF ArchiveInv, Fits
<1>4. DOMAIN mem = 0 .. End
  BY <1>0 DEF ArchiveInv, TarInv
<1>5. \A x \in 0 .. End : x < p_write => mem'[x] = mem[x]
  <2> SUFFICES ASSUME NEW x \in 0 .. End, x < p_write PROVE mem'[x] = mem[x]
    OBVIOUS
  <2>1. x \in DOMAIN mem
    BY <1>4
  <2>2. x \notin p_write .. p_write + 2 * Block - 1
    BY <1>3
  <2> QED  BY <1>1, <2>1, <2>2, MemSetAt
<1>6. SameUpTo(mem', mem, (p_write + 1) - 1)
  <2>1. (p_write + 1) - 1 = p_write
    BY <1>3
  <2>2. \A x \in 0 .. p_write - 1 : x \in 0 .. End /\ x < p_write
    BY <1>3
  <2> QED  BY <1>5, <2>1, <2>2 DEF SameUpTo
<1>7. p_write + 1 \in Nat
  BY <1>3
<1>8. ChainOf(file, MayRecurse, mem', p_read - fp + 1, p_write + 1)
  <2> DEFINE in == p_read - fp + 1
             out == p_write + 1
  <2>1. out \in Nat /\ SameUpTo(mem', mem, out - 1)
    <3>1. out \in Nat
      BY <1>7
    <3>2. SameUpTo(mem', mem, out - 1)
      BY <1>6
    <3> QED  BY <3>1, <3>2
  <2>2. ChainOf(file, MayRecurse, mem, in, out)
    BY DEF MembersInv, Chain
  <2> HIDE DEF in, out
  <2>3. ChainOf(file, MayRecurse, mem', in, out)
    BY <2>1, <2>2, SameChain
  <2> QED  BY <2>3 DEF in, out
<1>9. Chain'
  BY <1>2, <1>8 DEF Chain
<1>10. size' = p_write + 2 * Block
  BY <1>1, <1>3
<1>11. ASSUME NEW x \in p_write .. p_write + 2 * Block - 1
       PROVE  mem'[x] = Zero
  <2>1. x \in 0 .. End
    BY <1>3
  <2>2. x \in DOMAIN mem
    BY <1>4, <2>1
  <2> QED  BY <1>1, <2>2, MemSetAt
<1>12. EndsAt(file, p_read - fp + 1)
  BY <1>1 DEF MembersInv, AtEnd
<1>13. AtEnd'
  <2>1. EndsAt(file, p_read - fp + 1)'
    BY <1>2, <1>12 DEF EndsAt, IsZeroAt
  <2>2. (\A x \in p_write .. size - 1 : mem[x] = Zero)'
    <3>1. p_write' .. size' - 1 = p_write .. p_write + 2 * Block - 1
      <4>1. (p_write + 2 * Block) - 1 = p_write + 2 * Block - 1
        BY <1>3
      <4> QED  BY <1>2, <1>10, <4>1
    <3> QED  BY <1>11, <3>1
  <2>3. size' = p_write' + 2 * Block
    BY <1>2, <1>10
  <2> QED  BY <2>1, <2>2, <2>3 DEF AtEnd
<1> QED  BY <1>9, <1>13 DEF MembersInv

LEMMA MembersStep == ASSUME MembersAssumption, MembersInv, [Next]_vars PROVE MembersInv'
<1>0. ArchiveAssumption /\ ArchiveInv
  BY DEF MembersAssumption, MembersInv
<1>1. ArchiveInv'
  BY <1>0, ArchiveStep
<1>2. CASE BadRecord \/ EmptyMember
  BY <1>1, <1>2, HeaderOnlyMembers
<1>3. CASE MoveMember
  BY <1>1, <1>3, MoveMembers
<1>4. ASSUME NEW r \in 0 .. Len(file), LeanifyMember(r) PROVE MembersInv'
  BY <1>1, <1>4, LeanifyMembers
<1>5. CASE Valid
  BY <1>1, <1>5, StillMembers DEF Valid, locals
<1>6. CASE EndOfArchive
  <2>1. IsZeroAt(file, p_read - fp + 1)
    BY <1>0, <1>6, RecordThere DEF EndOfArchive
  <2> QED  BY <1>1, <1>6, <2>1, StillMembers DEF EndOfArchive, EndsAt, locals
<1>7. CASE WriteTrailer
  BY <1>1, <1>7, WriteTrailerMembers
<1>8. ~ ReadBehind
  BY <1>0, RecordThere DEF ReadBehind
<1>9. CASE UNCHANGED vars
  BY <1>1, <1>9, StillMembers DEF vars, locals
<1> QED  BY <1>2, <1>3, <1>4, <1>5, <1>6, <1>7, <1>8, <1>9 DEF Next, Record

LEMMA MembersInvariance == ASSUME MembersAssumption PROVE Spec => []MembersInv
<1>1. Init => MembersInv
  BY MembersInit
<1>2. MembersInv /\ [Next]_vars => MembersInv'
  BY MembersStep
<1> QED  BY <1>1, <1>2, PTL DEF Spec

(* Two lists of members with the same members, one by one.                 *)
Alike(deep, new, old) ==
  /\ \E S : new \in Seq(S) /\ old \in Seq(S)
  /\ Len(new) = Len(old)
  /\ \A i \in 1 .. Len(old) : KeptIf(deep, new[i], old[i])

LEMMA ConsAlike ==
  ASSUME NEW deep, NEW a, NEW b, Alike(deep, a, b), NEW x, NEW y, KeptIf(deep, x, y)
  PROVE  Alike(deep, <<x>> \o a, <<y>> \o b)
<1>1. PICK S : a \in Seq(S) /\ b \in Seq(S)
  BY DEF Alike
<1> DEFINE S2 == S \cup {x, y}
           a2 == <<x>> \o a
           b2 == <<y>> \o b
<1>2. a \in Seq(S2) /\ b \in Seq(S2) /\ <<x>> \in Seq(S2) /\ <<y>> \in Seq(S2)
  BY <1>1
<1>3. /\ a2 \in Seq(S2) /\ b2 \in Seq(S2)
      /\ Len(a2) = 1 + Len(a) /\ Len(b2) = 1 + Len(b)
  BY <1>2
<1>4. ASSUME NEW i \in 1 .. Len(b2)
      PROVE  KeptIf(deep, a2[i], b2[i])
  <2>1. Len(a) = Len(b) /\ Len(b) \in Nat
    BY <1>1 DEF Alike
  <2>2. CASE i = 1
    <3>1. a2[1] = x /\ b2[1] = y
      BY <1>2
    <3> QED  BY <2>2, <3>1
  <2>3. CASE i # 1
    <3>1. i - 1 \in 1 .. Len(b) /\ i \in 1 .. 1 + Len(b)
      BY <1>3, <2>1, <2>3
    <3>2. a2[i] = a[i - 1] /\ b2[i] = b[i - 1]
      BY <1>2, <2>1, <2>3, <3>1
    <3> HIDE DEF a2, b2
    <3> QED  BY <3>1, <3>2 DEF Alike
  <2> QED  BY <2>2, <2>3
<1>5. Len(a2) = Len(b2)
  BY <1>3 DEF Alike
<1> HIDE DEF a2, b2, S2
<1>6. Alike(deep, a2, b2)
  BY <1>3, <1>4, <1>5 DEF Alike
<1> QED  BY <1>6 DEF a2, b2

(* One member of the archive and the one it became, and what follows them. *)
LEMMA LinkAlike ==
  ASSUME TarAssumption, NEW f, Len(f) \in Nat, NEW deep, NEW m, NEW N \in Nat, NEW s,
         s = Cells(m, 0, N), NEW p, NEW q, NEW p2, NEW q2, p \in 1 .. Len(f),
         q \in Nat, q >= 1, q2 \in Nat, q2 <= N, Became(f, deep, m, p, p2, q, q2),
         Alike(deep, MembersFrom(s)[q2], MembersFrom(f)[p2])
  PROVE  Alike(deep, MembersFrom(s)[q], MembersFrom(f)[p])
<1> DEFINE t == Cells(m, 0, q2 - 1)
           M == MemberSize(t, q)
<1>1. /\ ~ EndsAt(f, p) /\ p2 = p + MemberSize(f, p) /\ p2 \in p + 1 .. Len(f)
      /\ ~ EndsAt(t, q) /\ q2 = q + M /\ q2 > q
      /\ IsHeader(t[q]) => t[q][4] \in Nat
      /\ KeptIf(deep, Member(t, q), Member(f, p))
  BY DEF Became
<1>2. q2 - 1 \in Nat /\ \A i \in 1 .. q2 - 1 : i \in 1 .. N
  BY <1>1
<1>3. \A l \in Nat : /\ Len(Cells(m, 0, l)) = l
                     /\ \A i \in 1 .. l : Cells(m, 0, l)[i] = m[0 + i - 1]
  <2> SUFFICES ASSUME NEW l \in Nat
               PROVE  /\ Len(Cells(m, 0, l)) = l
                      /\ \A i \in 1 .. l : Cells(m, 0, l)[i] = m[0 + i - 1]
    OBVIOUS
  <2>1. \A g : Len([i \in 1 .. l |-> g[i]]) = l
    OBVIOUS
  <2>2. Cells(m, 0, l) = [i \in 1 .. l |-> Cells(m, 0, l)[i]]
    BY DEF Cells
  <2> QED  BY <2>1, <2>2 DEF Cells
<1> HIDE DEF t, M
<1>4. Len(s) = N /\ Len(t) = q2 - 1 /\ \A i \in 1 .. q2 - 1 : s[i] = t[i]
  BY <1>2, <1>3 DEF t
<1>5. M \in Nat
  <2>1. CASE IsHeader(t[q])
    <3>1. t[q][4] \in 0 .. t[q][4] /\ t[q][4] \in Nat
      BY <1>1, <2>1
    <3>2. RoundUp(t[q][4]) \in Nat
      BY <3>1, RoundUpBounds
    <3> QED  BY <2>1, <3>2 DEF M, MemberSize, TarAssumption
  <2>2. CASE ~ IsHeader(t[q])
    BY <2>2 DEF M, MemberSize, TarAssumption
  <2> QED  BY <2>1, <2>2
<1>6. Same(s, q, t, q, M)
  <2> SUFFICES ASSUME NEW k \in 0 .. M - 1 PROVE s[q + k] = t[q + k]
    BY DEF Same
  <2>1. q + k \in 1 .. q2 - 1
    BY <1>1, <1>5
  <2> QED  BY <1>4, <2>1
<1>7. /\ Member(s, q) = Member(t, q) /\ MemberSize(s, q) = M
      /\ EndsAt(s, q) <=> EndsAt(t, q)
  <2>1. q + M - 1 <= Len(t) /\ q + M - 1 <= Len(s) /\ Len(s) \in Nat /\ Len(t) \in Nat
    BY <1>1, <1>2, <1>4, <1>5
  <2> QED  BY <1>1, <1>6, <2>1, SameMember DEF M
<1>8. Behind(f, p) = p2
  BY <1>1 DEF Behind
<1>9. Behind(s, q) = q2
  <2>1. q2 \in q + 1 .. Len(s)
    BY <1>1, <1>4
  <2> QED  BY <1>1, <1>7, <2>1 DEF Behind
<1>10. q \in 1 .. Len(s) + 1 /\ p \in 1 .. Len(f) + 1
  BY <1>1, <1>4
<1>11. MembersFrom(f)[p] = <<Member(f, p)>> \o MembersFrom(f)[p2]
  BY <1>1, <1>8, <1>10, MembersFromStep
<1>12. MembersFrom(s)[q] = <<Member(t, q)>> \o MembersFrom(s)[q2]
  BY <1>1, <1>4, <1>7, <1>9, <1>10, MembersFromStep
<1> QED  BY <1>1, <1>11, <1>12, ConsAlike

(* A chain of members makes the lists alike, from its end to its front.    *)
LEMMA ChainAlike ==
  ASSUME TarAssumption, NEW f, Len(f) \in Nat, NEW deep, NEW m, NEW N \in Nat, NEW s,
         s = Cells(m, 0, N), NEW in, NEW out \in Nat, out <= N,
         ChainOf(f, deep, m, in, out),
         Alike(deep, MembersFrom(s)[out], MembersFrom(f)[in])
  PROVE  Alike(deep, MembersFrom(s)[1], MembersFrom(f)[1])
<1>1. PICK n \in Nat : \E ins, outs \in [1 .. n + 1 -> Nat] :
        Links(f, deep, m, in, out, n, ins, outs)
  BY DEF ChainOf
<1>2. PICK ins \in [1 .. n + 1 -> Nat], outs \in [1 .. n + 1 -> Nat] :
        Links(f, deep, m, in, out, n, ins, outs)
  BY <1>1
<1> DEFINE AlikeAt(k) == Alike(deep, MembersFrom(s)[outs[k]], MembersFrom(f)[ins[k]])
           T == {d \in 0 .. n : ~ AlikeAt(n + 1 - d)}
<1>3. AlikeAt(n + 1)
  BY <1>2 DEF Links
<1>4. ASSUME NEW k \in 1 .. n, AlikeAt(k + 1)
      PROVE  AlikeAt(k)
  <2>1. k \in 1 .. n + 1 /\ k + 1 \in 1 .. n + 1
    OBVIOUS
  <2>2. ins[k] \in 1 .. Len(f) /\ outs[k] \in 1 .. out /\ outs[k + 1] \in 1 .. out
    BY <1>2, <2>1 DEF Links
  <2>3. outs[k] \in Nat /\ outs[k] >= 1 /\ outs[k + 1] \in Nat /\ outs[k + 1] <= N
    BY <2>2
  <2>4. Became(f, deep, m, ins[k], ins[k + 1], outs[k], outs[k + 1])
    BY <1>2 DEF Links
  <2> QED  BY <1>4, <2>2, <2>3, <2>4, LinkAlike
<1> HIDE DEF AlikeAt
<1>5. T = {}
  <2> SUFFICES ASSUME T # {} PROVE FALSE
    OBVIOUS
  <2>1. T \in SUBSET Nat
    OBVIOUS
  <2>2. PICK d \in T : \A y \in T : d <= y
    BY <2>1, LeastNat
  <2>3. d \in 0 .. n /\ ~ AlikeAt(n + 1 - d) /\ d # 0
    <3>1. d \in 0 .. n /\ ~ AlikeAt(n + 1 - d)
      BY <2>2
    <3>2. d = 0 => n + 1 - d = n + 1
      OBVIOUS
    <3> QED  BY <1>3, <3>1, <3>2
  <2>4. d - 1 \in 0 .. n /\ ~ (d <= d - 1) /\ n + 1 - d \in 1 .. n
          /\ n + 1 - (d - 1) = (n + 1 - d) + 1
    BY <2>3
  <2>5. d - 1 \notin T
    BY <2>2, <2>4
  <2>6. AlikeAt((n + 1 - d) + 1)
    BY <2>4, <2>5
  <2> QED  BY <1>4, <2>3, <2>4, <2>6
<1>6. AlikeAt(1)
  <2>1. n \in 0 .. n /\ n + 1 - n = 1
    OBVIOUS
  <2> QED  BY <1>5, <2>1
<1> QED  BY <1>2, <1>6 DEF AlikeAt, Links

(* README.md:4, tar.cpp:48-107: the result of an archive holds its members *)
(* in their order, each one as it was or, a file, leanified: whatever is   *)
(* in front of a member shrinks, and wherever it is moved to.              *)
THEOREM KeepsMembers == ASSUME MembersAssumption PROVE Spec => []SameMembers
<1>1. MembersInv => SameMembers
  <2> SUFFICES ASSUME MembersInv, pc = "done"
               PROVE  LET old == Members(file)
                          new == Members(Cells(mem, fp_w, size))
                      IN  Len(new) = Len(old) /\ \A i \in DOMAIN old : IsKept(new[i], old[i])
    BY DEF SameMembers
  <2>0. ArchiveAssumption /\ ArchiveInv /\ TarAssumption
    BY DEF MembersAssumption, MembersInv, ArchiveAssumption
  <2> DEFINE s == Cells(mem, 0, size)
             in == p_read - fp + 1
             out == p_write + 1
  <2>1. /\ Block \in Nat /\ Block > 0 /\ p_write \in Nat /\ Len(file) \in Nat /\ in \in Nat
        /\ in <= Len(file) + 1 /\ in >= 1
    BY <2>0, ArchiveNumbers
  <2>2. /\ EndsAt(file, in) /\ size = p_write + 2 * Block
        /\ \A x \in p_write .. size - 1 : mem[x] = Zero
        /\ ChainOf(file, MayRecurse, mem, in, out)
    BY DEF MembersInv, AtEnd, Chain
  <2>3. size \in Nat /\ out \in Nat /\ out <= size /\ out + Block - 1 <= size
    BY <2>1, <2>2
  <2>4. Len(s) = size /\ \A i \in 1 .. size : s[i] = mem[0 + i - 1]
    <3>1. \A g : Len([i \in 1 .. size |-> g[i]]) = size
      BY <2>3
    <3>2. s = [i \in 1 .. size |-> s[i]]
      BY DEF Cells
    <3> QED  BY <3>1, <3>2 DEF Cells
  <2>5. EndsAt(s, out)
    <3>1. ASSUME NEW k \in 0 .. Block - 1
          PROVE  s[out + k] = Zero
      <4>1. out + k \in 1 .. size /\ 0 + (out + k) - 1 \in p_write .. size - 1
        BY <2>1, <2>2
      <4> HIDE DEF s, out
      <4>2. s[out + k] = mem[0 + (out + k) - 1]
        BY <2>4, <4>1
      <4> QED  BY <2>2, <4>1, <4>2
    <3> QED  BY <3>1 DEF EndsAt, IsZeroAt
  <2> HIDE DEF s, in, out
  <2>6. MembersFrom(s)[out] = <<>> /\ MembersFrom(file)[in] = <<>>
    <3>1. out \in 1 .. Len(s) + 1 /\ in \in 1 .. Len(file) + 1 /\ Len(s) \in Nat
      <4>1. out >= 1
        BY <2>1 DEF out
      <4> QED  BY <2>1, <2>3, <2>4, <4>1
    <3> QED  BY <2>0, <2>1, <2>2, <2>5, <3>1, MembersFromStep
  <2>7. Alike(MayRecurse, <<>>, <<>>)
    <3>1. <<>> \in Seq({}) /\ Len(<<>>) = 0 /\ 1 .. 0 = {}
      OBVIOUS
    <3> QED  BY <3>1 DEF Alike
  <2>8. Alike(MayRecurse, Members(s), Members(file))
    BY <2>0, <2>1, <2>2, <2>3, <2>6, <2>7, ChainAlike DEF s, Members
  <2>9. DOMAIN Members(file) = 1 .. Len(Members(file))
    BY <2>8 DEF Alike
  <2>10. \A new, old : KeptIf(MayRecurse, new, old) <=> IsKept(new, old)
    BY DEF KeptIf, IsKept
  <2> QED  BY <2>8, <2>9, <2>10 DEF Alike, s, fp_w
<1> QED  BY <1>1, MembersInvariance, PTL

=============================================================================
