-------------------------- MODULE LeanifyFileProofs --------------------------
(***************************************************************************)
(* What is proved of a format holds of LeanifyFile when it is the format   *)
(* that GetType picks.                                                     *)
(***************************************************************************)
EXTENDS EntryProofs

(* The calls that are made for archives.                                   *)
TarCalls ==
  {c \in Calls : Len(c[1]) > Block /\ Len(c[1]) % Block = 0 /\ Tar!IsHeader(c[1][1])}

TarP == INSTANCE TarProofs WITH Calls <- TarCalls

(* Each archive is one as tar writes it, see TarProofs.                    *)
ArchivesAssumption ==
  /\ \A c \in TarCalls : \E S \in SUBSET Nat : TarP!RecordsAt(c[1], S)
  /\ ~ Tar!IsHeader(Zero)

LEMMA TarCallsHypothesis == TarP!TarAssumption
<1>1. Block \in Nat \ {0}
  BY LeanifyFileAssumption
<1>2. ASSUME NEW c \in TarCalls
      PROVE  c[2].room \in Nat /\ Len(c[1]) \in Nat /\ TarP!IsConsidered(c[1])
  <2>1. c \in Calls /\ c[1][1][1] = "head"
    BY DEF TarCalls, Tar!IsHeader
  <2>2. Tar!IsConsidered(c[1]) /\ c[2].room \in Nat /\ Len(c[1]) \in Nat
    BY <2>1, LeanifyFileAssumption
  <2> QED  BY <2>2 DEF Tar!IsConsidered, TarP!IsConsidered, Tar!IsHeader, TarP!IsHeader,
                       Tar!RoundUp, TarP!RoundUp
<1> QED  BY <1>1, <1>2 DEF TarP!TarAssumption

LEMMA TarHypothesis == ASSUME ArchivesAssumption PROVE TarP!MembersAssumption
<1>1. ~ TarP!IsHeader(Zero)
  BY DEF ArchivesAssumption, Tar!IsHeader, TarP!IsHeader
<1>2. TarP!ArchiveAssumption
  BY TarCallsHypothesis DEF TarP!ArchiveAssumption, ArchivesAssumption
<1> QED  BY <1>1, <1>2 DEF TarP!MembersAssumption

LEMMA TarInit == ASSUME Init, format = "Tar" PROVE TarP!Init
<1>1. PICK c \in Calls : file = c[1] /\ setting = c[2]
  BY DEF Init, Called
<1>2. Tar!IsValid
  BY DEF Init, Made, GetType, Magic
<1>3. c \in TarCalls
  BY <1>1, <1>2 DEF TarCalls, Tar!IsValid
<1>4. Tar!Start
  BY DEF Init
<1>5. TarP!Before = Before
  BY DEF TarP!Before, Before, TarP!End, End, TarP!fp, fp
<1>6. TarP!Called
  BY <1>1, <1>3, <1>5 DEF Init, Called, TarP!Called, TarP!fp, fp
<1> QED  BY <1>4, <1>6 DEF TarP!Init, TarP!Start, Tar!Start, TarP!fp, Tar!fp, TarP!fp_w, Tar!fp_w

LEMMA TarStep == ASSUME format = "Tar", [Next]_vars PROVE [TarP!Next]_(TarP!vars)
<1>1. CASE Next
  <2>1. Tar!Next
    BY SMTT(30), <1>1 DEF Next, Leanify, NotSupported, NotGft, LeanifyGft
  <2>2. TarP!Next
    BY <2>1
    DEF Tar!Next, TarP!Next, Tar!Valid, TarP!Valid, Tar!EndOfArchive, TarP!EndOfArchive,
        Tar!BadRecord, TarP!BadRecord, Tar!EmptyMember, TarP!EmptyMember, Tar!MoveMember,
        TarP!MoveMember, Tar!LeanifyMember, TarP!LeanifyMember, Tar!WriteTrailer,
        TarP!WriteTrailer, Tar!Record, TarP!Record, Tar!Advance, TarP!Advance, Tar!Header,
        TarP!Header, Tar!HeaderMoved, TarP!HeaderMoved, Tar!IsZeroRecord, TarP!IsZeroRecord,
        Tar!IsHeader, TarP!IsHeader, Tar!IsValid, TarP!IsValid, Tar!Resized, TarP!Resized,
        Tar!Padding, TarP!Padding, Tar!RoundUp, TarP!RoundUp, Tar!fp, TarP!fp, Tar!fp_w,
        TarP!fp_w, Tar!End, TarP!End, Tar!MemMove, TarP!MemMove, Tar!MemSet, TarP!MemSet,
        Tar!Put, TarP!Put, Tar!Cells, TarP!Cells, Tar!FileLeanified, TarP!FileLeanified,
        Tar!Leanified, TarP!Leanified, Tar!Lean, TarP!Lean, Tar!Zlib, TarP!Zlib, Tar!FileSizes,
        TarP!FileSizes, Tar!MayRecurse, TarP!MayRecurse, Tar!locals, TarP!locals, Tar!call,
        TarP!call, Tar!ReadBehind, TarP!ReadBehind, Tar!Inside, TarP!Inside
  <2> QED  BY <2>2
<1>2. CASE UNCHANGED vars
  BY <1>2 DEF vars, locals, call, TarP!vars, TarP!locals, TarP!call
<1> QED  BY <1>1, <1>2

LEMMA TarPromises ==
  /\ TarP!EndsInTime <=> Tar!EndsInTime
  /\ TarP!SameMembers <=> Tar!SameMembers
<1>1. TarP!EndsInTime <=> Tar!EndsInTime
  BY SMTT(30) DEF TarP!EndsInTime, Tar!EndsInTime, TarP!Inside, Tar!Inside, TarP!End, Tar!End,
         TarP!fp, Tar!fp, TarP!HasNoEnd, Tar!HasNoEnd, TarP!Places, Tar!Places,
         TarP!IsZeroAt, Tar!IsZeroAt, TarP!MemberSize, Tar!MemberSize, TarP!IsHeader,
         Tar!IsHeader, TarP!RoundUp, Tar!RoundUp
<1>2. TarP!SameMembers <=> Tar!SameMembers
  BY
    DEF Tar!SameMembers, TarP!SameMembers, Tar!Members, TarP!Members, Tar!MembersFrom,
        TarP!MembersFrom, Tar!EndsAt, TarP!EndsAt, Tar!IsZeroAt, TarP!IsZeroAt, Tar!Behind,
        TarP!Behind, Tar!Member, TarP!Member, Tar!MemberSize, TarP!MemberSize, Tar!IsHeader,
        TarP!IsHeader, Tar!IsKept, TarP!IsKept, Tar!RoundUp, TarP!RoundUp, Tar!Cells,
        TarP!Cells, Tar!fp_w, TarP!fp_w, Tar!MayRecurse, TarP!MayRecurse, Tar!IsLeanOf,
        TarP!IsLeanOf, Tar!Lean, TarP!Lean, Tar!Zlib, TarP!Zlib
<1> QED  BY <1>1, <1>2

(* A call keeps its format, and that of an archive is one of Tar.          *)
LEMMA TarCall ==
  /\ Spec /\ format = "Tar" => TarP!Spec
  /\ Spec /\ ~ (format = "Tar") => [](~ (format = "Tar"))
<1>1. Init /\ format = "Tar" => TarP!Init
  BY TarInit
<1>2. format = "Tar" /\ [Next]_vars => [TarP!Next]_(TarP!vars) /\ (format = "Tar")'
  BY TarStep DEF Next, vars
<1>3. ~ (format = "Tar") /\ [Next]_vars => (~ (format = "Tar"))'
  BY DEF Next, vars
<1> QED  BY <1>1, <1>2, <1>3, PTL DEF Spec, TarP!Spec

(* leanify.cpp:42-114, tar.cpp:46-103: in whatever archive LeanifyFile is  *)
(* given, a header is looked for behind the end only if no record of zeros *)
(* ends the archive, and only after something was saved.                   *)
THEOREM ArchivesEndInTime == Spec => []EndsInTime
<1>1. (TarP!EndsInTime => EndsInTime) /\ (~ (format = "Tar") => EndsInTime)
  BY TarPromises DEF EndsInTime
<1>2. TarP!Spec => []TarP!EndsInTime
  BY TarCallsHypothesis, TarP!LoopEndsInTime
<1> QED  BY <1>1, <1>2, TarCall, PTL

(* README.md:4, leanify.cpp:42-114, tar.cpp:48-107: of an archive that     *)
(* LeanifyFile is given its members stay, in their order, each one as it   *)
(* was or, a file, leanified.                                              *)
THEOREM ArchivesKeepTheirMembers == ASSUME ArchivesAssumption PROVE Spec => []SameMembers
<1>1. TarP!MembersAssumption
  BY TarHypothesis
<1>2. (TarP!SameMembers => SameMembers) /\ (~ (format = "Tar") => SameMembers)
  BY TarPromises DEF SameMembers
<1>3. TarP!Spec => []TarP!SameMembers
  BY <1>1, TarP!KeepsMembers
<1> QED  BY <1>2, <1>3, TarCall, PTL

-----------------------------------------------------------------------------
(* The calls that are made for gzip files.                                 *)
GzCalls == {c \in Calls : c[1][1][1] = "gz"}

GzP == INSTANCE GzProofs WITH Calls <- GzCalls

LEMMA GzInit == ASSUME Init, format = "Gz" PROVE GzP!Init
<1>1. PICK c \in Calls : file = c[1] /\ setting = c[2]
  BY DEF Init, Called
<1>2. file[1][1] = "gz"
  <2>1. GetType = "Gz"
    BY DEF Init, Made
  <2>2. file[1][1] \in DOMAIN Magic /\ Magic[file[1][1]] = "Gz"
    BY <2>1 DEF GetType
  <2> QED  BY <2>2 DEF Magic
<1>3. c \in GzCalls
  BY <1>1, <1>2 DEF GzCalls
<1>4. Gz!Start
  BY DEF Init
<1>5. GzP!Before = Before
  BY DEF GzP!Before, Before, GzP!End, End, GzP!fp, fp
<1>6. GzP!Called
  BY <1>1, <1>3, <1>5 DEF Init, Called, GzP!Called, GzP!fp, fp
<1> QED  BY <1>4, <1>6 DEF GzP!Init, GzP!Start, Gz!Start, GzP!fp_w, Gz!fp_w

LEMMA GzStep == ASSUME format = "Gz", [Next]_vars PROVE [GzP!Next]_(GzP!vars)
<1>1. CASE Next
  <2>1. Gz!Next
    BY SMTT(30), <1>1 DEF Next, Leanify, NotSupported, NotGft, LeanifyGft
  <2>2. GzP!Next
    BY <2>1
    DEF Gz!Next, GzP!Next, Gz!TooSmall, GzP!TooSmall, Gz!Header, GzP!Header, Gz!NoData,
        GzP!NoData, Gz!FastMode, GzP!FastMode, Gz!Corrupted, GzP!Corrupted, Gz!SkipSection,
        GzP!SkipSection, Gz!Recompress, GzP!Recompress, Gz!MoveData, GzP!MoveData,
        Gz!MovedAsItIs, GzP!MovedAsItIs, Gz!SectionsSkipped, GzP!SectionsSkipped, Gz!Order,
        GzP!Order, Gz!SectionEnd, GzP!SectionEnd, Gz!Holds, GzP!Holds, Gz!Intact, GzP!Intact,
        Gz!DataSize, GzP!DataSize, Gz!NewTrailer, GzP!NewTrailer, Gz!HeaderSize,
        GzP!HeaderSize, Gz!TrailerSize, GzP!TrailerSize, Gz!fp, GzP!fp, Gz!fp_w, GzP!fp_w,
        Gz!End, GzP!End, Gz!MemMove, GzP!MemMove, Gz!Put, GzP!Put, Gz!Cells, GzP!Cells,
        Gz!locals, GzP!locals, Gz!call, GzP!call
  <2> QED  BY <2>2
<1>2. CASE UNCHANGED vars
  BY <1>2 DEF vars, locals, call, GzP!vars, GzP!locals, GzP!call
<1> QED  BY <1>1, <1>2

(* A call keeps its format, and that of a gzip file is one of Gz.          *)
LEMMA GzCall ==
  /\ Spec /\ format = "Gz" => GzP!Spec /\ [](format = "Gz")
  /\ Spec /\ ~ (format = "Gz") => [](~ (format = "Gz"))
<1>1. Init /\ format = "Gz" => GzP!Init
  BY GzInit
<1>2. format = "Gz" /\ [Next]_vars => [GzP!Next]_(GzP!vars) /\ (format = "Gz")'
  BY GzStep DEF Next, vars
<1>3. ~ (format = "Gz") /\ [Next]_vars => (~ (format = "Gz"))'
  BY DEF Next, vars
<1> QED  BY <1>1, <1>2, <1>3, PTL DEF Spec, GzP!Spec

(* leanify.cpp:42-114, gz.cpp:21-118: of a gzip file that LeanifyFile is   *)
(* given all of the contents stay, leanified or not; of one inside another *)
(* file if it can be compressed again, see GzProofs.                       *)
THEOREM GzipFilesKeepContents ==
  ASSUME GzP!GzAssumption
  PROVE  Spec /\ [](format = "Gz" => GzP!MovedAlone) => []SameContents
<1>1. GzP!SameContents <=> Gz!SameContents
  BY
    DEF GzP!SameContents, Gz!SameContents, GzP!HeaderSize, Gz!HeaderSize, GzP!TrailerSize,
        Gz!TrailerSize, GzP!End, Gz!End, GzP!fp, Gz!fp, GzP!fp_w, Gz!fp_w, GzP!Cells, Gz!Cells,
        GzP!Before, Gz!Before, GzP!Holds, Gz!Holds
<1>2. (GzP!SameContents => SameContents) /\ (~ (format = "Gz") => SameContents)
  BY <1>1 DEF SameContents
<1>3. GzP!Spec /\ []GzP!MovedAlone => []GzP!SameContents
  BY GzP!KeepsContents
<1> QED  BY <1>2, <1>3, GzCall, PTL

-----------------------------------------------------------------------------
(* What is left of a file that is moved as it is, or of an image.          *)
RestInv ==
  format \in {"Format", "Gft"} =>
    /\ fp \in Nat /\ Len(file) \in Nat
    /\ format = "Gft" => header_size \in Nat
    /\ pc \in {"start", "done"}
    /\ pc = "start" => mem = Before /\ size = Len(file)
    /\ size \in 0 .. Len(file) /\ mem[End] = Before[End]
    /\ SameRest

LEMMA RestInit == ASSUME Init, format \in {"Format", "Gft"} PROVE RestInv
<1>1. PICK c \in Calls : file = c[1] /\ setting = c[2]
  BY DEF Init, Called
<1>2. fp \in Nat /\ Len(file) \in Nat
  BY <1>1, LeanifyFileAssumption DEF fp
<1>3. ASSUME format = "Gft"
      PROVE  header_size \in Nat
  <2>1. GetType = "Gft"
    BY <1>3 DEF Init, Made
  <2>2. file[1][1] \in DOMAIN Magic /\ Magic[file[1][1]] = "Gft"
    BY <2>1 DEF GetType
  <2>3. c[1][1][1] = "gft"
    BY <1>1, <2>2 DEF Magic
  <2> QED  BY <1>1, <2>3, LeanifyFileAssumption DEF header_size
<1>4. mem = Before /\ pc = "start" /\ size = Len(file)
  BY DEF Init, Called
<1>5. size \in 0 .. Len(file) /\ mem[End] = Before[End]
  BY <1>2, <1>4
<1> QED  BY <1>2, <1>3, <1>4, <1>5 DEF RestInv, SameRest

LEMMA MovedRest ==
  ASSUME RestInv, NotSupported \/ NotGft, UNCHANGED format
  PROVE  RestInv'
<1> DEFINE n == Len(file)
<1>1. /\ pc = "start" /\ format \in {"Format", "Gft"} /\ ~ (format = "Gft" /\ IsGft)
      /\ MovedAsItIs
  BY DEF NotSupported, NotGft
<1>2. /\ fp \in Nat /\ n \in Nat /\ mem = Before /\ size = n
      /\ format = "Gft" => header_size \in Nat
  BY <1>1 DEF RestInv
<1>3. UNCHANGED <<file, setting, fp, header_size, IsGft, size>> /\ pc' = "done"
  BY <1>1 DEF MovedAsItIs, call, fp, header_size, IsGft
<1>4. (\A k \in 1 .. n : mem'[k - 1] = file[k]) /\ mem'[End] = Before[End]
  BY <1>1, <1>2, FrontMoved DEF MovedAsItIs
<1>5. Cells(mem', fp_w, n) = Cells(file, 1, n)
  <2>1. \A k \in 1 .. n : fp_w + k - 1 = k - 1 /\ 1 + k - 1 = k
    BY DEF fp_w
  <2> QED  BY <1>4, <2>1 DEF Cells
<1>6. ASSUME NEW a, NEW b
      PROVE  IsLeanOf(Cells(a, n, 0), Cells(b, n + 1, 0))
  <2>1. Cells(a, n, 0) = <<>> /\ Cells(b, n + 1, 0) = <<>>
    BY DEF Cells
  <2> QED  BY <2>1 DEF IsLeanOf, Lean
<1>7. SameRest'
  <2>1. n' = n /\ n - n = 0 /\ fp_w + n = n /\ n <= n
    BY <1>2, <1>3 DEF fp_w
  <2>2. ~ (format' = "Gft" /\ IsGft')
    BY <1>1, <1>3
  <2> QED  BY <1>2, <1>3, <1>5, <1>6, <2>1, <2>2 DEF SameRest
<1>8. size' \in 0 .. Len(file)' /\ mem'[End'] = Before'[End']
  BY <1>2, <1>3, <1>4 DEF End, Before
<1> QED  BY <1>2, <1>3, <1>7, <1>8 DEF RestInv

LEMMA LeanSize ==
  ASSUME NEW m, NEW p, NEW n \in Nat, NEW r \in 0 .. n, NEW s, s = Cells(m, p, n)
  PROVE  /\ Len(s) = n /\ Len(Lean(s, r)) = r
         /\ Lean(s, r) = [k \in 1 .. r |-> Lean(s, r)[k]]
<1>1. s = TarP!Cells(m, p, n)
  BY DEF Cells, TarP!Cells
<1>2. Lean(s, r) = TarP!Lean(s, r)
  BY DEF Lean, TarP!Lean, Zlib, TarP!Zlib
<1> QED  BY <1>1, <1>2, TarP!LeanSize

LEMMA GftRest ==
  ASSUME RestInv, NEW r \in 0 .. Len(file), LeanifyGft(r), UNCHANGED format
  PROVE  RestInv'
<1> DEFINE h == header_size
           n == Len(file) - header_size
           m == MemMove(mem, fp_w, fp, header_size)
           image == Cells(file, header_size + 1, Len(file) - header_size)
           lean == Lean(Cells(file, header_size + 1, Len(file) - header_size), r)
<1>1. /\ pc = "start" /\ pc' = "done" /\ format = "Gft" /\ IsGft /\ r \in 0 .. n
      /\ UNCHANGED <<file, setting, fp, header_size, IsGft>> /\ size' = h + r
      /\ mem' = FileLeanified(m, fp + h, n, fp, r)
  BY DEF LeanifyGft, FileSizes, call, fp, header_size, IsGft
<1>2. fp \in Nat /\ Len(file) \in Nat /\ h \in Nat /\ mem = Before
  BY <1>1 DEF RestInv
<1>3. n \in Nat /\ n > 0 /\ h + n = Len(file) /\ h \in 0 .. Len(file) /\ r \in Nat
  BY <1>1, <1>2 DEF IsGft
<1>4. /\ DOMAIN m = 0 .. End
      /\ \A k \in 1 .. h : m[k - 1] = file[k]
      /\ \A k \in h + 1 .. Len(file) : m[fp + k - 1] = file[k]
      /\ m[End] = Before[End]
  BY <1>2, <1>3, FrontMoved
<1>5. Cells(m, fp + h, n) = image
  <2> HIDE DEF h, m
  <2>1. ASSUME NEW k \in 1 .. n
        PROVE  m[(fp + h) + k - 1] = file[(h + 1) + k - 1]
    <3>1. /\ h + k \in h + 1 .. Len(file) /\ (h + 1) + k - 1 = h + k
          /\ (fp + h) + k - 1 = fp + (h + k) - 1
      BY <1>2, <1>3
    <3> QED  BY <1>4, <3>1
  <2>2. Cells(m, fp + h, n) = Cells(file, h + 1, n)
    BY <2>1 DEF Cells
  <2> QED  BY <2>2 DEF h
<1>6. Len(image) = n /\ Len(lean) = r /\ lean = [k \in 1 .. r |-> lean[k]]
  <2>1. lean = Lean(image, r)
    OBVIOUS
  <2>2. image = Cells(file, h + 1, n)
    OBVIOUS
  <2>3. n \in Nat /\ r \in 0 .. n
    BY <1>1, <1>3
  <2> HIDE DEF h, n, image, lean
  <2>4. /\ Len(image) = n /\ Len(Lean(image, r)) = r
        /\ Lean(image, r) = [k \in 1 .. r |-> Lean(image, r)[k]]
    BY <2>2, <2>3, LeanSize
  <2>5. \A t : t = Lean(image, r) =>
                Len(t) = r /\ t = [k \in 1 .. r |-> t[k]]
    BY <2>4
  <2> QED  BY <2>1, <2>4, <2>5
<1> HIDE DEF h, n, m, image, lean
<1>7. mem' = Leanified(m, fp + h, n, fp, lean)
  BY <1>1, <1>3, <1>5 DEF FileLeanified, lean, image, n
<1>8. ASSUME NEW k \in 1 .. h
      PROVE  mem'[k - 1] = file[k]
  <2>1. k - 1 \in 0 .. End /\ k - 1 \notin (fp + h) - fp .. (fp + h) + n - 1
    BY <1>2, <1>3 DEF End
  <2>2. mem'[k - 1] = m[k - 1]
    BY <1>4, <1>7, <2>1 DEF Leanified
  <2> QED  BY <1>4, <2>2
<1>9. ASSUME NEW k \in 1 .. r
      PROVE  mem'[h + k - 1] = lean[k]
  <2> DEFINE x == h + k - 1
  <2>1. /\ x \in 0 .. End /\ x \in (fp + h) - fp .. (fp + h) + n - 1
        /\ x < (fp + h) - fp + r /\ x - (fp + h) + fp + 1 = k
    BY <1>1, <1>2, <1>3 DEF End
  <2> HIDE DEF x
  <2>2. mem'[x] = lean[k]
    BY <1>4, <1>6, <1>7, <2>1 DEF Leanified
  <2> QED  BY <2>2 DEF x
<1>10. Cells(mem', fp_w, h) = Cells(file, 1, h)
  <2>1. \A k \in 1 .. h : fp_w + k - 1 = k - 1 /\ 1 + k - 1 = k
    BY <1>2 DEF fp_w
  <2> QED  BY <1>8, <2>1 DEF Cells
<1>11. Cells(mem', fp_w + h, size' - h) = lean
  <2>1. fp_w + h = h /\ size' - h = r
    BY <1>1, <1>2, <1>3 DEF fp_w
  <2>2. Cells(mem', h, r) = [k \in 1 .. r |-> lean[k]]
    BY <1>9 DEF Cells
  <2> QED  BY <1>6, <2>1, <2>2
<1>12. IsLeanOf(lean, image)
  BY <1>6 DEF IsLeanOf, lean, image
<1>13. SameRest'
  <2>1. h <= size' /\ file' = file /\ header_size' = h /\ format' = "Gft" /\ IsGft'
    BY <1>1, <1>2, <1>3 DEF h
  <2>2. Cells(file, h + 1, Len(file) - h) = image
    BY DEF h, image
  <2> QED  BY <1>10, <1>11, <1>12, <2>1, <2>2 DEF SameRest
<1>14. mem'[End] = Before[End]
  <2>1. End \in 0 .. End /\ End \notin (fp + h) - fp .. (fp + h) + n - 1
    BY <1>2, <1>3 DEF End
  <2> QED  BY <1>4, <1>7, <2>1 DEF Leanified
<1>15. size' \in 0 .. Len(file)'
  <2>1. file' = file /\ size' = h + r /\ r \in 0 .. n
    BY <1>1
  <2> QED  BY <1>2, <1>3, <2>1
<1>16. mem'[End'] = Before'[End']
  <2>1. End' = End /\ Before' = Before
    BY <1>1 DEF End, Before
  <2> QED  BY <1>14, <2>1
<1> QED  BY <1>1, <1>2, <1>13, <1>15, <1>16 DEF RestInv, h

LEMMA RestStep == ASSUME RestInv, [Next]_vars PROVE RestInv'
<1>1. CASE Next
  <2>1. UNCHANGED format
    BY <1>1 DEF Next
  <2>2. CASE format \in {"Format", "Gft"}
    <3>1. NotSupported \/ NotGft \/ \E r \in 0 .. Len(file) : LeanifyGft(r)
      BY <1>1, <2>2 DEF Next, Leanify
    <3> QED  BY <2>1, <3>1, MovedRest, GftRest
  <2>3. CASE ~ (format \in {"Format", "Gft"})
    BY <2>1, <2>3 DEF RestInv
  <2> QED  BY <2>2, <2>3
<1>2. CASE UNCHANGED vars
  <2>1. UNCHANGED <<file, setting, format, mem, pc, size, fp, End, Before, header_size, IsGft>>
    BY <1>2 DEF vars, call, fp, End, Before, header_size, IsGft
  <2>2. SameRest' <=> SameRest
    BY <2>1 DEF SameRest
  <2> QED  BY <2>1, <2>2 DEF RestInv
<1> QED  BY <1>1, <1>2

LEMMA RestInvariance == Spec => []RestInv
<1>1. Init => RestInv
  BY RestInit DEF RestInv
<1>2. RestInv /\ [Next]_vars => RestInv'
  BY RestStep
<1> QED  BY <1>1, <1>2, PTL DEF Spec

(* README.md:4, gft.cpp:10-25, format.h:19-26: behind the header of a GFT  *)
(* file there is the same image, leanified; what is not supported, or too  *)
(* deep, stays as it is.                                                   *)
THEOREM TheRestStays == Spec => []SameRest
<1>1. RestInv => SameRest
  BY DEF RestInv, SameRest
<1> QED  BY <1>1, RestInvariance, PTL

-----------------------------------------------------------------------------
(* The calls that are made for PNG images.                                 *)
PngCalls == {c \in Calls : c[1][1][1] = "png"}

PngP == INSTANCE PngProofs WITH Calls <- PngCalls

LEMMA PngInit == ASSUME Init, format = "Png" PROVE PngP!Init
<1>1. PICK c \in Calls : file = c[1] /\ setting = c[2]
  BY DEF Init, Called
<1>2. file[1][1] = "png"
  <2>1. GetType = "Png"
    BY DEF Init, Made
  <2>2. file[1][1] \in DOMAIN Magic /\ Magic[file[1][1]] = "Png"
    BY <2>1 DEF GetType
  <2> QED  BY <2>2 DEF Magic
<1>3. c \in PngCalls
  BY <1>1, <1>2 DEF PngCalls
<1>4. Png!Start
  BY DEF Init
<1>5. PngP!Before = Before
  BY DEF PngP!Before, Before, PngP!End, End, PngP!fp, fp
<1>6. PngP!Called
  BY <1>1, <1>3, <1>5 DEF Init, Called, PngP!Called, PngP!fp, fp
<1> QED  BY <1>4, <1>6
         DEF PngP!Init, PngP!Start, Png!Start, PngP!fp_w, Png!fp_w, PngP!nullptr, Png!nullptr

LEMMA PngStep == ASSUME format = "Png", [Next]_vars PROVE [PngP!Next]_(PngP!vars)
<1>1. CASE Next
  <2>1. Png!Next
    BY SMTT(30), <1>1 DEF Next, Leanify, NotSupported, NotGft, LeanifyGft
  <2>2. PngP!Next
    BY <2>1
    DEF Png!Next, PngP!Next, Png!Header, PngP!Header, Png!Truncated, PngP!Truncated,
        Png!RemoveChunk, PngP!RemoveChunk, Png!MoveChunk, PngP!MoveChunk, Png!NoIdat,
        PngP!NoIdat, Png!Optimize, PngP!Optimize, Png!RecompressIdat, PngP!RecompressIdat,
        Png!IsWhole, PngP!IsWhole, Png!ShouldRemove, PngP!ShouldRemove, Png!chunk_type,
        PngP!chunk_type, Png!chunk_length, PngP!chunk_length, Png!Critical, PngP!Critical,
        Png!Animation, PngP!Animation, Png!ZopfliPNG, PngP!ZopfliPNG, Png!Crc, PngP!Crc,
        Png!nullptr, PngP!nullptr, Png!ZlibSizes, PngP!ZlibSizes, Png!ZlibRecompressed,
        PngP!ZlibRecompressed, Png!Lean, PngP!Lean, Png!Zlib, PngP!Zlib, Png!Cells,
        PngP!Cells, Png!Put, PngP!Put, Png!MemMove, PngP!MemMove, Png!fp, PngP!fp, Png!fp_w,
        PngP!fp_w, Png!End, PngP!End, Png!locals, PngP!locals, Png!call, PngP!call
  <2> QED  BY <2>2
<1>2. CASE UNCHANGED vars
  BY <1>2 DEF vars, locals, call, PngP!vars, PngP!locals, PngP!call
<1> QED  BY <1>1, <1>2

LEMMA PngCall ==
  /\ Spec /\ format = "Png" => PngP!Spec
  /\ Spec /\ ~ (format = "Png") => [](~ (format = "Png"))
<1>1. Init /\ format = "Png" => PngP!Init
  BY PngInit
<1>2. format = "Png" /\ [Next]_vars => [PngP!Next]_(PngP!vars) /\ (format = "Png")'
  BY PngStep DEF Next, vars
<1>3. ~ (format = "Png") /\ [Next]_vars => (~ (format = "Png"))'
  BY SMTT(30) DEF Next, vars
<1> QED  BY <1>1, <1>2, <1>3, PTL DEF Spec, PngP!Spec

(* What is promised for these calls is what is promised of the image.      *)
LEMMA PngPromise == PngP!SameChunks <=> Png!SameChunks
  BY ZenonT(30) DEF Png!SameChunks, PngP!SameChunks, Png!KeepsChunks, PngP!KeepsChunks, Png!SameChunk,
         PngP!SameChunk, Png!IsLastIdat, PngP!IsLastIdat, Png!NewPlaces, PngP!NewPlaces,
         Png!IsNeeded, PngP!IsNeeded, Png!Type, PngP!Type, Png!Place, PngP!Place,
         Png!Places, PngP!Places, Png!NextPlace, PngP!NextPlace, Png!IsLast, PngP!IsLast,
         Png!Rest, PngP!Rest, Png!CrcAt, PngP!CrcAt, Png!DataAt, PngP!DataAt, Png!Behind,
         PngP!Behind, Png!IsWholeAt, PngP!IsWholeAt, Png!ZopfliPNG, PngP!ZopfliPNG, Png!Crc,
         PngP!Crc, Png!Critical, PngP!Critical, Png!Animation, PngP!Animation, Png!IsLeanOf,
         PngP!IsLeanOf, Png!Lean, PngP!Lean, Png!Zlib, PngP!Zlib, Png!Cells, PngP!Cells,
         Png!fp_w, PngP!fp_w, Png!fp, PngP!fp

(* README.md:4, README.md:149-157, png.cpp:23-158: a PNG image keeps, in   *)
(* their order, all the chunks that are needed, as they were but for the   *)
(* last IDAT, and what follows the point where it breaks off.              *)
THEOREM ImagesKeepChunks ==
  ASSUME PngP!PngAssumption
  PROVE  Spec => []SameChunks
<1>1. \A c \in PngCalls : c[1][1] = <<"png">>
  BY LeanifyFileAssumption DEF PngCalls, Png!IsConsidered
<1>2. PngP!Spec => []PngP!SameChunks
  BY <1>1, PngP!KeepsItsChunks
<1>3. /\ PngP!SameChunks => SameChunks
      /\ ~ (format = "Png") => SameChunks
  BY PngPromise DEF SameChunks
<1> QED  BY <1>2, <1>3, PngCall, PTL

-----------------------------------------------------------------------------
(* What containers rely on.                                                *)
LEMMA ContractPromises ==
  /\ (TarP!UnreadIntact <=> UnreadIntact) /\ (TarP!InItsRegion <=> InItsRegion)
  /\ (GzP!UnreadIntact <=> UnreadIntact) /\ (GzP!InItsRegion <=> InItsRegion)
  /\ (PngP!UnreadIntact <=> UnreadIntact) /\ (PngP!InItsRegion <=> InItsRegion)
<1>1. (TarP!UnreadIntact <=> UnreadIntact) /\ (TarP!InItsRegion <=> InItsRegion)
  BY DEF TarP!UnreadIntact, UnreadIntact, TarP!InItsRegion, InItsRegion, TarP!Before, Before,
         TarP!End, End, TarP!fp, fp, TarP!KeepsToItsRegion, KeepsToItsRegion
<1>2. (GzP!UnreadIntact <=> UnreadIntact) /\ (GzP!InItsRegion <=> InItsRegion)
  BY DEF GzP!UnreadIntact, UnreadIntact, GzP!InItsRegion, InItsRegion, GzP!Before, Before,
         GzP!End, End, GzP!fp, fp, GzP!KeepsToItsRegion, KeepsToItsRegion
<1>3. (PngP!UnreadIntact <=> UnreadIntact) /\ (PngP!InItsRegion <=> InItsRegion)
  BY DEF PngP!UnreadIntact, UnreadIntact, PngP!InItsRegion, InItsRegion, PngP!Before, Before,
         PngP!End, End, PngP!fp, fp, PngP!KeepsToItsRegion, KeepsToItsRegion
<1> QED  BY <1>1, <1>2, <1>3

LEMMA RestInItsRegion ==
  ASSUME RestInv, format \in {"Format", "Gft"}
  PROVE  InItsRegion
<1> SUFFICES ASSUME pc = "done"
             PROVE  KeepsToItsRegion(Before, mem, fp, Len(file), fp, size)
  BY DEF InItsRegion
<1>1. /\ fp \in Nat /\ Len(file) \in Nat /\ size \in 0 .. Len(file)
      /\ mem[End] = Before[End] /\ End = fp + Len(file)
  BY DEF RestInv, End
<1>2. ASSUME NEW x \in DOMAIN Before, x \notin fp - fp .. fp + Len(file) - 1
      PROVE  mem[x] = Before[x]
  <2>1. x \in 0 .. End
    BY DEF Before
  <2>2. x = End
    BY <1>1, <1>2, <2>1
  <2> QED  BY <1>1, <2>2
<1> QED  BY <1>1, <1>2 DEF KeepsToItsRegion

(* The formats of which it is proved that they keep the contract.          *)
Proved == {"Format", "Gft", "Tar", "Gz", "Png", "Json", "Ico", "Rdb", "Swf"}

(* format.h:19-26, leanify.cpp:138-179: what a container gives LeanifyFile *)
(* for a file inside it, whatever it is picked as, neither grows nor       *)
(* reaches out of its place and the room in front of it.                   *)
THEOREM ContractKept ==
  ASSUME ArchivesAssumption, GzP!GzAssumption, PngP!PngAssumption, FilmsAssumption
  PROVE  Spec /\ [](format = "Gz" => GzP!MovedAlone) => [](format \in Proved => InItsRegion)
<1>1. RestInv => (format \in {"Format", "Gft"} => InItsRegion)
  BY RestInItsRegion
<1>2. TarP!Spec => []TarP!InItsRegion
  BY TarHypothesis, TarP!KeepsToTheArchive DEF TarP!MembersAssumption
<1>3. GzP!Spec /\ []GzP!MovedAlone => []GzP!InItsRegion
  BY GzP!KeepsToTheFile
<1>4. PngP!Spec => []PngP!InItsRegion
  BY PngP!KeepsToTheImage
<1>5. /\ TarP!InItsRegion => InItsRegion
      /\ GzP!InItsRegion => InItsRegion
      /\ PngP!InItsRegion => InItsRegion
  BY ContractPromises
<1>6. Spec /\ format = "Tar" => []InItsRegion
  BY <1>2, <1>5, TarCall, PTL
<1>7. Spec /\ format = "Gz" /\ [](format = "Gz" => GzP!MovedAlone) => []InItsRegion
  BY <1>3, <1>5, GzCall, PTL
<1>8. Spec /\ format = "Png" => []InItsRegion
  BY <1>4, <1>5, PngCall, PTL
<1>9. /\ ~ (format = "Tar") /\ ~ (format = "Gz") /\ ~ (format = "Png") /\ ~ (format = "Json")
          /\ ~ (format = "Ico") /\ ~ (format = "Rdb") /\ ~ (format = "Swf")
          /\ format \in Proved
        => format \in {"Format", "Gft"}
      /\ format = "Tar" \/ ~ (format = "Tar")
  BY DEF Proved
<1>10. /\ JsonFits => (format = "Json" => InItsRegion)
       /\ IcoInv => (format = "Ico" => InItsRegion)
       /\ RdbInv => (format = "Rdb" => InItsRegion)
       /\ SwfInv => (format = "Swf" => InItsRegion)
  BY JsonContract, IcoContract, RdbContract, SwfContract
<1> QED  BY <1>1, <1>6, <1>7, <1>8, <1>9, <1>10, RestInvariance, JsonFitsInvariance, IcoInvariance,
            RdbInvariance, SwfInvariance, TarCall, GzCall, PngCall, PTL

(* gft.cpp:10-25, tar.cpp:48-103, gz.cpp:27-66, png.cpp:38-103,            *)
(* ico.cpp:62-113, rdb.cpp:45-110, swf.cpp:141-246: wherever the loops of  *)
(* these formats look next, and into a gzip file in whatever place,        *)
(* nothing has been written there yet.                                     *)
THEOREM UnreadLeftAlone ==
  ASSUME GzP!GzAssumption, PngP!PngAssumption, FilmsAssumption
  PROVE  Spec => [](format \in Proved => UnreadIntact)
<1>1. RestInv => (format \in {"Format", "Gft"} => UnreadIntact)
  BY DEF RestInv, UnreadIntact
<1>2. TarP!Spec => []TarP!UnreadIntact
  BY TarCallsHypothesis, TarP!WorksInPlace
<1>3. GzP!Spec => []GzP!UnreadIntact
  BY GzP!ReadsTheUnwritten
<1>4. PngP!Spec => []PngP!UnreadIntact
  BY PngP!ReadsUnwritten
<1>5. /\ TarP!UnreadIntact => UnreadIntact
      /\ GzP!UnreadIntact => UnreadIntact
      /\ PngP!UnreadIntact => UnreadIntact
  BY ContractPromises
<1>6. ~ (format = "Tar") /\ ~ (format = "Gz") /\ ~ (format = "Png") /\ ~ (format = "Json")
        /\ ~ (format = "Ico") /\ ~ (format = "Rdb") /\ ~ (format = "Swf") /\ format \in Proved
        => format \in {"Format", "Gft"}
  BY DEF Proved
<1>7. /\ JsonFits => (format = "Json" => UnreadIntact)
      /\ IcoInv => (format = "Ico" => UnreadIntact)
      /\ RdbInv => (format = "Rdb" => UnreadIntact)
      /\ SwfInv => (format = "Swf" => UnreadIntact)
  BY JsonContract, IcoContract, RdbContract, SwfContract
<1> QED  BY <1>1, <1>2, <1>3, <1>4, <1>5, <1>6, <1>7, RestInvariance, JsonFitsInvariance,
            IcoInvariance, RdbInvariance, SwfInvariance, TarCall, GzCall, PngCall, PTL
=============================================================================
