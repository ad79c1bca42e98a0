------------------------------ MODULE GzProofs -------------------------------
(***************************************************************************)
(* Gz::Leanify, for every file and every room in front of it, whichever    *)
(* sections its header has and whatever its contents shrink to: it reads   *)
(* what it has not written over, keeps to the file and its room, and       *)
(* leaves a header without sections and all of the data behind it.         *)
(*                                                                         *)
(* Where data and trailer are moved as they are, the room in front of the  *)
(* file is taken off the size of the result (gz.cpp:66, 92), so for a file *)
(* inside another this is only true of what can be compressed again.       *)
(***************************************************************************)
EXTENDS Gz, WellFoundedInduction, TLAPS

(* The length of the extra field, which comes first, is a number.          *)
GzAssumption ==
  \A c \in Calls :
    /\ c[2].room \in Nat /\ Len(c[1]) \in Nat
    /\ Len(c[1]) > HeaderSize + TrailerSize /\ "extra" \in c[1][2][2] => c[1][4][2] \in Nat

(* What is moved as it is has no room in front of it.                      *)
MovedAlone == SectionsSkipped /\ p_read < End /\ (setting.is_fast \/ ~ Intact) => fp = 0

-----------------------------------------------------------------------------
(* The header was written to the front, ...                                *)
HeaderThere == mem[0] = file[1] /\ mem[1] = <<"flags", {}>>

(* ... what follows that of the file is as it was, ...                     *)
DataThere == \A x \in fp + HeaderSize .. End : mem[x] = Before[x]

(* ... and p_read passes the sections, the first of which is the extra one. *)
Skipping ==
  /\ Len(file) > HeaderSize + TrailerSize /\ size = Len(file) /\ p_write = HeaderSize
  /\ p_read \in Nat /\ fp + HeaderSize <= p_read
  /\ "extra" \in flags => p_read = fp + HeaderSize /\ file[4][2] \in Nat
  /\ HeaderThere /\ DataThere

GzInv ==
  /\ fp \in Nat /\ Len(file) \in Nat
  /\ DOMAIN mem = 0 .. End /\ mem[End] = Before[End]
  /\ pc \in {"start", "skip", "done"}
  /\ pc = "start" =>
       /\ mem = Before /\ p_read = fp /\ size = Len(file)
       /\ Len(file) > HeaderSize + TrailerSize /\ "extra" \in file[2][2] => file[4][2] \in Nat
  /\ pc = "skip" => Skipping
  /\ pc = "done" => size \in 0 .. Len(file) /\ SameContents

(* Every nonempty set of numbers has a least one.                          *)
LEMMA LeastNat ==
  ASSUME NEW T \in SUBSET Nat, T # {}
  PROVE  \E x \in T : \A y \in T : x <= y
<1> DEFINE R == OpToRel(<, Nat)
<1>1. \A x \in Nat, y \in Nat : <<y, x>> \in R <=> y < x
  BY DEF OpToRel
<1>2. IsWellFoundedOn(R, Nat)
  BY NatLessThanWellFounded
<1> HIDE DEF R
<1>3. PICK x \in T : \A y \in T : ~ (<<y, x>> \in R)
  BY <1>2, WFMin
<1>4. \A y \in T : ~ (y < x)
  BY <1>1, <1>3, Zenon
<1> QED  BY <1>4

LEMMA MemMoveAt ==
  ASSUME NEW m, NEW dst, NEW src, NEW n, NEW x \in DOMAIN m
  PROVE  /\ \A y : x \in dst .. dst + n - 1 /\ y = x - dst + src =>
                    MemMove(m, dst, src, n)[x] = m[y]
         /\ x \notin dst .. dst + n - 1 => MemMove(m, dst, src, n)[x] = m[x]
BY DEF MemMove

LEMMA PutAt ==
  ASSUME NEW m, NEW p, NEW s, NEW x \in DOMAIN m
  PROVE  /\ \A k : x \in p .. p + Len(s) - 1 /\ k = x - p + 1 => Put(m, p, s)[x] = s[k]
         /\ x \notin p .. p + Len(s) - 1 => Put(m, p, s)[x] = m[x]
BY DEF Put

LEMMA GzInit == ASSUME GzAssumption, Init PROVE GzInv
<1>1. PICK c \in Calls : file = c[1] /\ setting = c[2]
  BY DEF Init, Called
<1>2. /\ fp \in Nat /\ Len(file) \in Nat
      /\ Len(file) > HeaderSize + TrailerSize /\ "extra" \in file[2][2] => file[4][2] \in Nat
  BY <1>1 DEF GzAssumption, fp
<1>3. mem = Before /\ p_read = fp /\ pc = "start" /\ size = Len(file)
  BY DEF Init, Called
<1>4. DOMAIN mem = 0 .. End
  BY <1>3 DEF Before
<1> QED  BY <1>2, <1>3, <1>4 DEF GzInv

LEMMA GzNumbers ==
  ASSUME GzInv
  PROVE  /\ fp \in Nat /\ Len(file) \in Nat /\ End = fp + Len(file) /\ End \in Nat
         /\ fp_w = 0 /\ HeaderSize = 3 /\ TrailerSize = 2
BY DEF GzInv, End, fp_w, HeaderSize, TrailerSize

LEMMA CallKept ==
  ASSUME UNCHANGED call
  PROVE  UNCHANGED <<file, fp, End, Before>>
BY DEF call, fp, End, Before

LEMMA TooSmallStep == ASSUME GzInv, TooSmall PROVE GzInv'
<1>1. /\ pc = "start" /\ pc' = "done" /\ UNCHANGED <<call, p_read, size>>
      /\ mem' = MemMove(mem, 0, fp, size) /\ size <= 3 + 2
  BY GzNumbers DEF TooSmall, MovedAsItIs
<1>2. UNCHANGED <<file, fp, End, Before>>
  BY <1>1, CallKept
<1>3. mem = Before /\ size = Len(file) /\ DOMAIN mem = 0 .. End
  BY <1>1 DEF GzInv
<1>4. DOMAIN mem' = 0 .. End
  BY <1>1, <1>3 DEF MemMove
<1>5. mem'[End] = Before[End]
  <2>1. End \in DOMAIN mem /\ End \notin 0 .. 0 + size - 1
    BY <1>3, GzNumbers
  <2> QED  BY <1>1, <1>3, <2>1, MemMoveAt
<1>6. ~ (Len(file) > HeaderSize + TrailerSize)
  BY <1>1, <1>3, GzNumbers
<1>7. SameContents'
  BY <1>2, <1>6 DEF SameContents, HeaderSize, TrailerSize
<1>8. size' \in 0 .. Len(file)
  BY <1>1, <1>3, GzNumbers
<1> QED  BY <1>1, <1>2, <1>4, <1>5, <1>7, <1>8 DEF GzInv

LEMMA HeaderStep == ASSUME GzInv, Header PROVE GzInv'
<1> DEFINE m == MemMove(mem, 0, fp, 3)
           h == <<<<"flags", {}>>, <<"xfl", "best">>>>
<1>1. /\ pc = "start" /\ size > 3 + 2 /\ mem = Before /\ p_read = fp /\ size = Len(file)
      /\ Len(file) > 3 + 2 /\ "extra" \in file[2][2] => file[4][2] \in Nat
      /\ DOMAIN mem = 0 .. End
  BY DEF GzInv, Header, HeaderSize, TrailerSize
<1>2. /\ flags' = mem[fp + 1][2] /\ mem' = Put(m, 1, h) /\ p_read' = fp + 3 /\ p_write' = 3
      /\ pc' = "skip" /\ UNCHANGED <<call, size>>
  BY <1>1 DEF Header, fp_w, HeaderSize
<1>3. UNCHANGED <<file, fp, End, Before>>
  BY <1>2, CallKept
<1>4. fp \in Nat /\ Len(file) \in Nat /\ End = fp + Len(file) /\ End \in Nat
  BY GzNumbers
<1>5. DOMAIN m = 0 .. End /\ DOMAIN Put(m, 1, h) = 0 .. End
  <2>1. DOMAIN m = 0 .. End
    BY <1>1 DEF MemMove
  <2> HIDE DEF m, h
  <2> QED  BY <2>1 DEF Put
<1>6. Len(h) = 2 /\ h[1] = <<"flags", {}>>
  OBVIOUS
<1> HIDE DEF m, h
<1>7. ASSUME NEW x \in fp + 3 .. End
      PROVE  mem'[x] = Before[x]
  <2>1. x \in 0 .. End /\ x \notin 0 .. 0 + 3 - 1 /\ x \notin 1 .. 1 + Len(h) - 1
    BY <1>4, <1>6
  <2>2. x \in DOMAIN mem /\ x \in DOMAIN m
    BY <1>1, <1>5, <2>1
  <2>3. m[x] = mem[x]
    BY <2>1, <2>2, MemMoveAt DEF m
  <2>4. mem'[x] = m[x]
    BY <1>2, <2>1, <2>2, PutAt
  <2> QED  BY <1>1, <2>3, <2>4
<1>8. Before[fp] = file[1] /\ Before[fp + 1] = file[2]
  <2>1. /\ fp \in 0 .. End /\ fp \in fp .. End - 1 /\ fp - fp + 1 = 1
        /\ fp + 1 \in 0 .. End /\ fp + 1 \in fp .. End - 1 /\ (fp + 1) - fp + 1 = 2
    BY <1>1, <1>4
  <2> QED  BY <2>1 DEF Before
<1>9. mem'[0] = file[1]
  <2>1. /\ 0 \in 0 .. End /\ 0 \in 0 .. 0 + 3 - 1 /\ fp = 0 - 0 + fp
        /\ 0 \notin 1 .. 1 + Len(h) - 1
    BY <1>4, <1>6
  <2>2. 0 \in DOMAIN mem /\ 0 \in DOMAIN m
    BY <1>1, <1>5, <2>1
  <2>3. m[0] = mem[fp]
    BY <2>1, <2>2, MemMoveAt DEF m
  <2>4. mem'[0] = m[0]
    BY <1>2, <2>1, <2>2, PutAt
  <2> QED  BY <1>1, <1>8, <2>3, <2>4
<1>10. mem'[1] = <<"flags", {}>>
  <2>1. 1 \in 0 .. End /\ 1 \in 1 .. 1 + Len(h) - 1 /\ 1 = 1 - 1 + 1
    BY <1>1, <1>4, <1>6
  <2>2. 1 \in DOMAIN m
    BY <1>5, <2>1
  <2>3. mem'[1] = h[1]
    BY <1>2, <2>1, <2>2, PutAt
  <2> QED  BY <1>6, <2>3
<1>11. "extra" \in flags' => file[4][2] \in Nat
  BY <1>1, <1>2, <1>8
<1>12. Skipping'
  <2>1. HeaderThere' /\ DataThere'
    BY <1>3, <1>7, <1>9, <1>10 DEF HeaderThere, DataThere, HeaderSize
  <2>2. p_read' \in Nat /\ fp' + 3 <= p_read' /\ p_read' = fp' + 3
    BY <1>2, <1>3, <1>4
  <2> QED  BY <1>1, <1>2, <1>3, <1>11, <2>1, <2>2 DEF Skipping, HeaderSize, TrailerSize, HeaderThere
<1>13. mem'[End] = Before[End] /\ DOMAIN mem' = 0 .. End
  <2>1. End \in fp + 3 .. End
    BY <1>1, <1>4
  <2> QED  BY <1>2, <1>5, <1>7, <2>1
<1> QED  BY <1>2, <1>3, <1>4, <1>12, <1>13 DEF GzInv

(* A section ends behind where it begins.                                  *)
LEMMA SectionEnds ==
  ASSUME GzInv, pc = "skip", NEW i \in DOMAIN Order, SkipSection(i)
  PROVE  p_read' \in Nat /\ p_read <= p_read' /\ "extra" \notin flags'
<1>1. Skipping /\ Order[i] \in flags /\ p_read' = SectionEnd(Order[i], p_read)
  BY DEF GzInv, SkipSection
<1>2. p_read \in Nat
  BY <1>1 DEF Skipping
<1>3. CASE Order[i] = "extra"
  <2>1. p_read = fp + 3 /\ file[4][2] \in Nat /\ Len(file) > 3 + 2 /\ DataThere
    BY <1>1, <1>3 DEF Skipping, HeaderSize, TrailerSize
  <2>2. mem[p_read] = file[4]
    <3>1. /\ p_read \in 0 .. End /\ p_read \in fp .. End - 1 /\ p_read - fp + 1 = 4
          /\ p_read \in fp + HeaderSize .. End
      BY <1>2, <2>1, GzNumbers
    <3> QED  BY <2>1, <3>1 DEF Before, DataThere
  <2>3. SectionEnd(Order[i], p_read) = p_read + 1 + mem[p_read][2]
    BY <1>3 DEF SectionEnd
  <2>4. flags' = flags \ {"extra"}
    BY <1>3 DEF SkipSection
  <2> QED  BY <1>1, <1>2, <2>1, <2>2, <2>3, <2>4
<1>4. CASE Order[i] # "extra"
  <2>1. "extra" \notin flags'
    <3>1. i \in 1 .. 4 /\ Order[1] = "extra"
      BY DEF Order
    <3>2. i # 1
      BY <1>4, <3>1
    <3>3. 1 \in 1 .. i - 1
      BY <3>1, <3>2
    <3>4. "extra" \notin flags
      BY <3>1, <3>3 DEF SkipSection
    <3> QED  BY <3>4 DEF SkipSection
  <2>2. CASE Order[i] = "hcrc"
    <3>1. SectionEnd(Order[i], p_read) = p_read + 1
      BY <2>2 DEF SectionEnd
    <3> QED  BY <1>1, <1>2, <2>1, <3>1
  <2>3. CASE Order[i] \in {"name", "comment"}
    <3> DEFINE zeros == {x \in p_read .. End - 1 : mem[x] = <<"nul">>}
    <3>1. SectionEnd(Order[i], p_read) =
            IF zeros = {} THEN (IF p_read < End THEN End ELSE p_read)
            ELSE 1 + CHOOSE x \in zeros : \A y \in zeros : x <= y
      BY <2>3 DEF SectionEnd
    <3>2. zeros \in SUBSET Nat /\ \A x \in zeros : p_read <= x
      BY <1>2, GzNumbers
    <3> HIDE DEF zeros
    <3>3. CASE zeros = {}
      BY <1>1, <1>2, <2>1, <3>1, <3>3, GzNumbers
    <3>4. CASE zeros # {}
      <4> DEFINE least == CHOOSE x \in zeros : \A y \in zeros : x <= y
      <4>1. least \in zeros
        BY <3>2, <3>4, LeastNat
      <4>2. p_read' = 1 + least
        BY <1>1, <3>1, <3>4
      <4> HIDE DEF least
      <4>3. least \in Nat /\ p_read <= least
        BY <3>2, <4>1
      <4> QED  BY <1>2, <2>1, <4>2, <4>3
    <3> QED  BY <3>3, <3>4
  <2> QED
    <3>1. i \in 1 .. 4 /\ Order = <<"extra", "name", "comment", "hcrc">>
      BY DEF Order
    <3>2. Order[i] \in {"extra", "name", "comment", "hcrc"}
      BY <3>1
    <3> QED  BY <1>4, <2>2, <2>3, <3>2
<1> QED  BY <1>3, <1>4

LEMMA SkipStep == ASSUME GzInv, NEW i \in DOMAIN Order, SkipSection(i) PROVE GzInv'
<1>1. pc = "skip" /\ pc' = "skip" /\ UNCHANGED <<call, mem, p_write, size>>
  BY DEF SkipSection
<1>2. UNCHANGED <<file, fp, End, Before>>
  BY <1>1, CallKept
<1>3. p_read' \in Nat /\ p_read <= p_read' /\ "extra" \notin flags'
  BY <1>1, SectionEnds
<1>4. Skipping /\ fp + 3 <= p_read /\ p_read \in Nat
  BY <1>1 DEF GzInv, Skipping, HeaderSize
<1>5. fp + 3 <= p_read'
  BY <1>3, <1>4, GzNumbers
<1>6. Skipping'
  BY <1>1, <1>2, <1>3, <1>4, <1>5 DEF Skipping, HeaderThere, DataThere, HeaderSize, TrailerSize
<1> QED  BY <1>1, <1>2, <1>6 DEF GzInv

LEMMA NoDataStep == ASSUME GzInv, NoData PROVE GzInv'
<1>1. /\ pc = "skip" /\ pc' = "done" /\ p_read >= End /\ UNCHANGED <<call, p_read, size>>
      /\ Skipping
  BY DEF NoData, SectionsSkipped, GzInv
<1>2. UNCHANGED <<file, fp, End, Before>>
  BY <1>1, CallKept
<1>3. /\ size = Len(file) /\ Len(file) > 3 + 2 /\ p_write = 3 /\ p_read \in Nat
  BY <1>1 DEF Skipping, HeaderSize, TrailerSize
<1>4. mem' = MemMove(mem, 3, fp + 3, Len(file) - 3) /\ DOMAIN mem' = 0 .. End
  BY <1>3 DEF NoData, HeaderSize, MemMove, GzInv
<1>5. mem'[End] = Before[End]
  <2>1. End \in 0 .. End /\ End \notin 3 .. 3 + (Len(file) - 3) - 1
    BY <1>3, GzNumbers
  <2>2. End \in DOMAIN mem /\ mem[End] = Before[End]
    BY <2>1 DEF GzInv
  <2>3. mem'[End] = mem[End]
    BY <1>4, <2>1, <2>2, MemMoveAt
  <2> QED  BY <2>2, <2>3
<1>6. ~ (p_read' < End')
  BY <1>1, <1>2, <1>3, GzNumbers
<1>7. SameContents' /\ size' \in 0 .. Len(file)
  BY <1>1, <1>3, <1>6, GzNumbers DEF SameContents
<1> QED  BY <1>1, <1>2, <1>4, <1>5, <1>7 DEF GzInv

(* What lies behind p_read when it has passed the sections.                *)
LEMMA WhatIsLeft ==
  ASSUME GzInv, Skipping
  PROVE  Cells(mem, p_read, End - p_read) = Cells(Before, p_read, End - p_read)
<1>1. ASSUME NEW k \in 1 .. End - p_read
      PROVE  mem[p_read + k - 1] = Before[p_read + k - 1]
  <2>1. p_read \in Nat /\ fp + 3 <= p_read /\ DataThere
    BY DEF Skipping, HeaderSize
  <2>2. p_read + k - 1 \in fp + 3 .. End
    BY <2>1, GzNumbers
  <2> QED  BY <2>1, <2>2 DEF DataThere, HeaderSize
<1> QED  BY <1>1 DEF Cells

(* Where n cells behind p_read, up to which it may be all, are moved to.   *)
LEMMA DataMoved ==
  ASSUME GzInv, Skipping, p_read < End,
         mem' = MemMove(mem, 3, p_read, End - p_read), NEW n, n = End - p_read
  PROVE  /\ n \in Nat /\ n > 0 /\ 3 + n <= Len(file) /\ DOMAIN mem' = 0 .. End
         /\ mem'[0] = mem[0] /\ mem'[1] = mem[1] /\ mem'[End] = mem[End]
         /\ Cells(mem', 3, n) = Cells(Before, p_read, n)
<1>1. p_read \in Nat /\ fp + 3 <= p_read /\ DOMAIN mem = 0 .. End
  BY DEF Skipping, HeaderSize, GzInv
<1>2. n \in Nat /\ n > 0 /\ 3 + n <= Len(file) /\ p_read + n = End
  BY <1>1, GzNumbers
<1>3. DOMAIN mem' = 0 .. End
  BY <1>1 DEF MemMove
<1>4. mem' = MemMove(mem, 3, p_read, n)
  OBVIOUS
<1>5. ASSUME NEW x \in {0, 1, End}
      PROVE  mem'[x] = mem[x]
  <2>1. x \in 0 .. End /\ x \notin 3 .. 3 + n - 1
    BY <1>2, GzNumbers
  <2>2. x \in DOMAIN mem
    BY <1>1, <2>1
  <2> QED  BY <1>4, <2>1, <2>2, MemMoveAt
<1>6. ASSUME NEW k \in 1 .. n
      PROVE  mem'[3 + k - 1] = mem[p_read + k - 1]
  <2> DEFINE x == 3 + k - 1
             y == p_read + k - 1
  <2>1. x \in 0 .. End /\ x \in 3 .. 3 + n - 1 /\ y = x - 3 + p_read
    <3>1. k \in Nat /\ 1 <= k /\ k <= n /\ End = fp + Len(file)
      BY <1>2, GzNumbers
    <3>2. fp \in Nat /\ Len(file) \in Nat
      BY GzNumbers
    <3> QED  BY <1>1, <1>2, <3>1, <3>2
  <2> HIDE DEF x, y
  <2>2. x \in DOMAIN mem
    BY <1>1, <2>1
  <2>3. mem'[x] = mem[y]
    BY <1>4, <2>1, <2>2, MemMoveAt
  <2> QED  BY <2>3 DEF x, y
<1>7. Cells(mem', 3, n) = Cells(mem, p_read, n)
  BY <1>6 DEF Cells
<1> QED  BY <1>2, <1>3, <1>5, <1>7, WhatIsLeft

LEMMA MoveDataStep ==
  ASSUME GzInv, SectionsSkipped, p_read < End, fp = 0, MoveData
  PROVE  GzInv'
<1> DEFINE n == End - p_read
<1>1. /\ pc = "skip" /\ pc' = "done" /\ Skipping /\ UNCHANGED <<call, p_read>>
      /\ size = Len(file) /\ p_write = 3 /\ p_read \in Nat
      /\ HeaderThere /\ mem[End] = Before[End]
  BY DEF SectionsSkipped, GzInv, Skipping, MoveData, HeaderSize
<1>2. mem' = MemMove(mem, 3, p_read, n) /\ size' = Len(file) - (p_read - 3)
  BY <1>1 DEF MoveData
<1>3. UNCHANGED <<file, fp, End, Before>>
  BY <1>1, CallKept
<1>4. /\ n \in Nat /\ n > 0 /\ 3 + n <= Len(file) /\ DOMAIN mem' = 0 .. End
      /\ mem'[0] = mem[0] /\ mem'[1] = mem[1] /\ mem'[End] = mem[End]
      /\ Cells(mem', 3, n) = Cells(Before, p_read, n)
  <2>1. n = End - p_read
    OBVIOUS
  <2>2. mem' = MemMove(mem, 3, p_read, End - p_read)
    BY <1>2
  <2> HIDE DEF n
  <2> QED  BY <1>1, <2>1, <2>2, DataMoved
<1>5. size' = 3 + n /\ size' \in 0 .. Len(file) /\ size' > 3 /\ size' - 3 = n
  BY <1>1, <1>2, <1>4, GzNumbers
<1>6. SameContents'
  <2>1. Cells(mem', 3, size' - 3) = Cells(Before', p_read', End' - p_read')
    BY <1>1, <1>3, <1>4, <1>5
  <2>2. mem'[0] = file'[1] /\ mem'[1] = <<"flags", {}>>
    BY <1>1, <1>3, <1>4 DEF HeaderThere
  <2>3. fp_w + HeaderSize = 3 /\ HeaderSize = 3 /\ fp_w = 0 /\ fp_w + 1 = 1
    BY DEF fp_w, HeaderSize
  <2> QED  BY <1>5, <2>1, <2>2, <2>3 DEF SameContents
<1> HIDE DEF n
<1> QED  BY <1>1, <1>3, <1>4, <1>5, <1>6 DEF GzInv

(* The n cells of data, and the trailer for them, that the contents c are  *)
(* compressed to.                                                          *)
LEMMA NewData ==
  ASSUME NEW n \in Nat \ {0}, NEW c,
         NEW s, s = [k \in 1..n |-> <<"deflate", c, k, n>>] \o NewTrailer(c)
  PROVE  Len(s) = n + 2 /\ s = Cells(s, 1, n + 2) /\ Holds(s, c)
<1> DEFINE data == [k \in 1..n |-> <<"deflate", c, k, n>>]
<1>1. data \in Seq({data[k] : k \in 1..n}) /\ Len(data) = n
  OBVIOUS
<1>2. NewTrailer(c) = <<<<"crc", c>>, <<"isize", c>>>>
  BY DEF NewTrailer
<1>3. Len(s) = n + 2 /\ DOMAIN s = 1 .. n + 2
  BY <1>1, <1>2
<1>4. n \in 1 .. Len(s) - TrailerSize
  BY <1>3 DEF TrailerSize
<1>5. Holds(s, c)
  BY <1>2, <1>4 DEF Holds
<1>6. s = Cells(s, 1, n + 2)
  <2>1. s = [k \in 1 .. n + 2 |-> s[k]]
    BY <1>1, <1>2, <1>3
  <2>2. \A k \in 1 .. n + 2 : 1 + k - 1 = k
    OBVIOUS
  <2> QED  BY <2>1, <2>2 DEF Cells
<1> QED  BY <1>3, <1>5, <1>6

LEMMA RecompressStep ==
  ASSUME GzInv, NEW c \in {"original", "leanified"}, NEW n \in 1 .. Len(file), Recompress(c, n)
  PROVE  GzInv'
<1> DEFINE left == End - p_read
<1>1. /\ pc = "skip" /\ pc' = "done" /\ Skipping /\ UNCHANGED <<call, p_read>>
      /\ p_write = 3 /\ p_read \in Nat /\ fp + 3 <= p_read /\ p_read < End
      /\ HeaderThere /\ mem[End] = Before[End] /\ DOMAIN mem = 0 .. End /\ Intact
  BY DEF Recompress, SectionsSkipped, GzInv, Skipping, HeaderSize
<1>2. UNCHANGED <<file, fp, End, Before>>
  BY <1>1, CallKept
<1>3. left \in Nat /\ left > 0 /\ 3 + left <= Len(file)
  BY <1>1, GzNumbers
<1> HIDE DEF left
<1>4. Holds(Cells(Before, p_read, left), "original")
  BY <1>1, WhatIsLeft DEF Intact, left
<1>5. left >= 3
  <2>1. \E q \in 1 .. Len(Cells(Before, p_read, left)) - 2 : TRUE
    BY <1>4 DEF Holds, TrailerSize
  <2>2. Len(Cells(Before, p_read, left)) = left
    BY <1>3 DEF Cells
  <2> QED  BY <1>3, <2>1, <2>2
<1>6. DataSize = left - 2 /\ DataSize + TrailerSize = left
  BY <1>1, GzNumbers DEF DataSize, left
<1>7. 0 = fp_w /\ fp_w + 1 = 1 /\ HeaderSize = 3 /\ fp_w + HeaderSize = 3
  BY DEF fp_w, HeaderSize
<1>8. CASE n < DataSize
  <2> DEFINE s == [k \in 1..n |-> <<"deflate", c, k, n>>] \o NewTrailer(c)
  <2>1. mem' = Put(mem, 3, s) /\ p_write' = 3 + n
    BY <1>1, <1>8 DEF Recompress
  <2>2. size' = 3 + n + 2
    BY <2>1, GzNumbers DEF Recompress
  <2>3. Len(s) = n + 2 /\ s = Cells(s, 1, n + 2) /\ Holds(s, c)
    <3>1. n \in Nat \ {0}
      BY GzNumbers
    <3> HIDE DEF s
    <3> QED  BY <3>1, NewData DEF s
  <2> HIDE DEF s
  <2>4. n \in Nat /\ n > 0 /\ 3 + (n + 2) <= Len(file)
    BY <1>3, <1>6, <1>8, GzNumbers
  <2>5. ASSUME NEW x \in {0, 1, End}
        PROVE  mem'[x] = mem[x]
    <3>1. x \in 0 .. End /\ x \notin 3 .. 3 + Len(s) - 1
      BY <2>3, <2>4, GzNumbers
    <3>2. x \in DOMAIN mem
      BY <1>1, <3>1
    <3> QED  BY <2>1, <3>1, <3>2, PutAt
  <2>6. ASSUME NEW k \in 1 .. n + 2
        PROVE  mem'[3 + k - 1] = s[1 + k - 1]
    <3> DEFINE x == 3 + k - 1
               y == 1 + k - 1
    <3>1. x \in 0 .. End /\ x \in 3 .. 3 + Len(s) - 1 /\ y = x - 3 + 1
      BY <2>3, <2>4, GzNumbers
    <3> HIDE DEF x, y
    <3>2. x \in DOMAIN mem
      BY <1>1, <3>1
    <3>3. mem'[x] = s[y]
      BY <2>1, <3>1, <3>2, PutAt
    <3> QED  BY <3>3 DEF x, y
  <2>7. Cells(mem', 3, n + 2) = s
    <3>1. Cells(mem', 3, n + 2) = Cells(s, 1, n + 2)
      BY <2>6 DEF Cells
    <3> QED  BY <2>3, <3>1
  <2>8. size' \in 0 .. Len(file) /\ size' > 3 /\ size' - 3 = n + 2
    BY <2>2, <2>4, GzNumbers
  <2>9. SameContents'
    <3>1. Holds(Cells(mem', 3, size' - 3), c)
      BY <2>3, <2>7, <2>8
    <3>2. mem'[0] = file'[1] /\ mem'[1] = <<"flags", {}>>
      BY <1>1, <1>2, <2>5 DEF HeaderThere
    <3>3. Holds(Cells(Before', p_read', End' - p_read'), "original")
      BY <1>1, <1>2, <1>4 DEF left
    <3> QED  BY <1>7, <2>8, <3>1, <3>2, <3>3 DEF SameContents
  <2>10. DOMAIN mem' = 0 .. End /\ mem'[End] = Before[End]
    BY <1>1, <2>1, <2>5 DEF Put
  <2> QED  BY <1>1, <1>2, <2>8, <2>9, <2>10 DEF GzInv
<1>9. CASE ~ (n < DataSize)
  <2>1. mem' = MemMove(mem, 3, p_read, left) /\ p_write' = 3 + DataSize
    BY <1>1, <1>6, <1>9 DEF Recompress
  <2>2. size' = 3 + left
    BY <1>3, <1>6, <2>1, GzNumbers DEF Recompress
  <2>3. /\ DOMAIN mem' = 0 .. End
        /\ mem'[0] = mem[0] /\ mem'[1] = mem[1] /\ mem'[End] = mem[End]
        /\ Cells(mem', 3, left) = Cells(Before, p_read, left)
    BY <1>1, <2>1, DataMoved DEF left
  <2>4. size' \in 0 .. Len(file) /\ size' > 3 /\ size' - 3 = left
    BY <1>3, <2>2, GzNumbers
  <2>5. SameContents'
    <3>1. Cells(mem', 3, size' - 3) = Cells(Before', p_read', End' - p_read')
      BY <1>1, <1>2, <2>3, <2>4 DEF left
    <3>2. mem'[0] = file'[1] /\ mem'[1] = <<"flags", {}>>
      BY <1>1, <1>2, <2>3 DEF HeaderThere
    <3> QED  BY <1>7, <2>4, <3>1, <3>2 DEF SameContents
  <2> QED  BY <1>1, <1>2, <2>3, <2>4, <2>5 DEF GzInv
<1> QED  BY <1>8, <1>9

LEMMA GzStep == ASSUME GzInv, MovedAlone, [Next]_vars PROVE GzInv'
<1>1. CASE TooSmall
  BY <1>1, TooSmallStep
<1>2. CASE Header
  BY <1>2, HeaderStep
<1>3. CASE NoData
  BY <1>3, NoDataStep
<1>4. CASE FastMode
  BY <1>4, MoveDataStep DEF FastMode, MovedAlone
<1>5. CASE Corrupted
  BY <1>5, MoveDataStep DEF Corrupted, MovedAlone
<1>6. ASSUME NEW i \in DOMAIN Order, SkipSection(i)
      PROVE  GzInv'
  BY <1>6, SkipStep
<1>7. ASSUME NEW c \in {"original", "leanified"}, NEW n \in 1 .. Len(file), Recompress(c, n)
      PROVE  GzInv'
  BY <1>7, RecompressStep
<1>8. CASE UNCHANGED vars
  <2>1. UNCHANGED <<call, file, fp, End, Before, mem, p_read, pc, size, p_write, flags>>
    BY <1>8, CallKept DEF vars, locals
  <2>2. (SameContents' <=> SameContents) /\ (Skipping' <=> Skipping)
    BY <2>1 DEF SameContents, Skipping, HeaderThere, DataThere, call
  <2> QED  BY <2>1, <2>2 DEF GzInv, call
<1> QED  BY <1>1, <1>2, <1>3, <1>4, <1>5, <1>6, <1>7, <1>8 DEF Next

LEMMA GzKept ==
  ASSUME GzAssumption
  PROVE  Spec /\ []MovedAlone => []GzInv
<1>1. Init => GzInv
  BY GzInit
<1>2. GzInv /\ MovedAlone /\ [Next]_vars => GzInv'
  BY GzStep
<1> QED  BY <1>1, <1>2, PTL DEF Spec

-----------------------------------------------------------------------------
(* gz.cpp:27-66, whatever is moved as it is: the sections and the data are *)
(* read before they are written over.                                      *)
THEOREM ReadsTheUnwritten ==
  ASSUME GzAssumption
  PROVE  Spec => []UnreadIntact
<1> DEFINE Inv == pc # "done" => GzInv
<1>1. Init => Inv
  BY GzInit
<1>2. Inv /\ [Next]_vars => Inv'
  <2> SUFFICES ASSUME Inv, [Next]_vars, pc' # "done" PROVE GzInv'
    OBVIOUS
  <2>1. pc # "done"
    BY DEF Next, vars, TooSmall, MovedAsItIs, Header, NoData, FastMode, MoveData, Corrupted,
           SkipSection, Recompress, SectionsSkipped
  <2>2. MovedAlone \/ ~ (FastMode \/ Corrupted)
    BY DEF FastMode, MoveData, Corrupted
  <2>3. CASE MovedAlone
    BY <2>1, <2>3, GzStep
  <2>4. CASE ~ (FastMode \/ Corrupted)
    <3>1. CASE UNCHANGED vars
      <4>1. UNCHANGED <<call, file, fp, End, Before, mem, p_read, pc, size, p_write, flags>>
        BY <3>1, CallKept DEF vars, locals
      <4>2. (SameContents' <=> SameContents) /\ (Skipping' <=> Skipping)
        BY <4>1 DEF SameContents, Skipping, HeaderThere, DataThere, call
      <4> QED  BY <2>1, <4>1, <4>2 DEF GzInv, call
    <3>2. CASE Next
      BY <2>1, <2>4, <3>2, TooSmallStep, HeaderStep, NoDataStep, SkipStep, RecompressStep
      DEF Next
    <3> QED  BY <3>1, <3>2
  <2> QED  BY <2>2, <2>3, <2>4
<1>3. Inv => UnreadIntact
  <2> SUFFICES ASSUME GzInv, pc # "done", NEW x \in p_read .. End PROVE mem[x] = Before[x]
    BY DEF UnreadIntact
  <2>1. CASE pc = "start"
    BY <2>1 DEF GzInv
  <2>2. CASE pc = "skip"
    <3>1. p_read \in Nat /\ fp + HeaderSize <= p_read /\ DataThere
      BY <2>2 DEF GzInv, Skipping
    <3>2. x \in fp + HeaderSize .. End
      BY <3>1, GzNumbers
    <3> QED  BY <3>1, <3>2 DEF DataThere
  <2> QED  BY <2>1, <2>2 DEF GzInv
<1> QED  BY <1>1, <1>2, <1>3, PTL DEF Spec

(* format.h:19-26, gz.cpp:61-118, of what is not moved as it is, and of    *)
(* every file on its own: the result is no larger than the file, and       *)
(* nothing but the file and its room is written to.                        *)
THEOREM KeepsToTheFile ==
  ASSUME GzAssumption
  PROVE  Spec /\ []MovedAlone => []InItsRegion
<1>1. GzInv => InItsRegion
  <2> SUFFICES ASSUME GzInv, pc = "done" PROVE KeepsToItsRegion(Before, mem, fp, Len(file), fp, size)
    BY DEF InItsRegion
  <2>1. size \in 0 .. Len(file) /\ mem[End] = Before[End]
    BY DEF GzInv
  <2>2. ASSUME NEW x \in 0 .. End, x \notin fp - fp .. fp + Len(file) - 1
        PROVE  mem[x] = Before[x]
    <3>1. x = End
      BY <2>2, GzNumbers
    <3> QED  BY <2>1, <3>1
  <2> QED  BY <2>1, <2>2 DEF KeepsToItsRegion, Before
<1> QED  BY <1>1, GzKept, PTL

(* README.md:4, gz.cpp:21-118, likewise: what Leanify leaves is a header   *)
(* without sections and all of the data of the contents, leanified or not, *)
(* with the trailer that fits it, or data and trailer of the file.         *)
THEOREM KeepsContents ==
  ASSUME GzAssumption
  PROVE  Spec /\ []MovedAlone => []SameContents
<1>1. GzInv => SameContents
  <2> SUFFICES ASSUME GzInv, pc # "done" PROVE SameContents
    BY DEF GzInv
  <2> QED  BY DEF SameContents
<1> QED  BY <1>1, GzKept, PTL

(* gz.cpp:21-118: so does Leanify for each file that is not inside         *)
(* another, corrupted or not, in fast mode or not.                         *)
COROLLARY KeepsContentsAlone ==
  ASSUME GzAssumption, \A c \in Calls : c[2].room = 0
  PROVE  Spec => []SameContents /\ []InItsRegion
<1>1. Init => fp = 0
  BY DEF Init, Called, fp
<1>2. fp = 0 /\ [Next]_vars => (fp = 0)'
  <2> SUFFICES ASSUME [Next]_vars PROVE UNCHANGED call
    BY CallKept
  <2> QED  BY DEF Next, vars, TooSmall, MovedAsItIs, Header, NoData, FastMode, MoveData,
                  Corrupted, SkipSection, Recompress
<1>3. fp = 0 => MovedAlone
  BY DEF MovedAlone
<1>4. Spec => []MovedAlone
  BY <1>1, <1>2, <1>3, PTL DEF Spec
<1> QED  BY <1>4, KeepsToTheFile, KeepsContents, PTL
=============================================================================
