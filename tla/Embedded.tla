------------------------------ MODULE Embedded ------------------------------
(***************************************************************************)
(* Files in Base64 inside a text: data URIs, photos of vCards and parts of *)
(* mails (data_uri.cpp, vcf.cpp, mime.cpp and the Base64 format they use). *)
(* The text is worked on in place, from p_read to p_write.                 *)
(*                                                                         *)
(* A cell <<kind, place, base64, length>> is a character or a piece of     *)
(* text that is searched for as one.  Its kind is                          *)
(*   magic   what a search looks for first                                 *)
(*   sign    ";base64,", "ENCODING=b" in a vCard, the empty line in a mail *)
(*   colon   the ':' of a vCard                                            *)
(*   end     the closing quote, the end of a vCard's line, the boundary    *)
(*   code    a Base64 character      pad   '='                             *)
(*   fold    white space inside Base64, the folds of a vCard's lines       *)
(*   tab     a fold with a tab, which Base64Decode takes for an error      *)
(*   cr      the '\r' at the end of a vCard's line                         *)
(*   other   anything else                                                 *)
(* A character is known by its place in the file, and all of the same      *)
(* Base64 by the place where that began; in the result length is that of   *)
(* the file it stands for, and 0 in what was moved.                        *)
(***************************************************************************)
EXTENDS Format, FiniteSets

CONSTANT SearchGap    \* kMaxSearchGap

VARIABLE p_write

locals == <<p_write>>
vars == <<call, mem, p_read, pc, size, locals>>

Start == p_write = fp_w
Init == Called /\ Start

Kind(c) == c[1]
Base64Of(c) == c[3]
BlockKinds == {"code", "pad", "fold"}

(* std::search, std::find: the first cell of these kinds, or last.         *)
Search(first, last, kinds) ==
  CHOOSE x \in first..last : /\ x = last \/ Kind(mem[x]) \in kinds
                             /\ \A y \in first .. x - 1 : Kind(mem[y]) \notin kinds

Magic == Search(p_read, End, {"magic"})

(* The buffer after what comes before q is moved.                          *)
Moved(q) == MemMove(mem, p_write, p_read, q - p_read)

(* Where writing goes on after that.                                       *)
WriteAt(q) == p_write + q - p_read

MoveTo(q) ==
  /\ mem' = Moved(q)
  /\ p_write' = WriteAt(q)
  /\ p_read' = q
  /\ UNCHANGED <<call, pc, size>>

-----------------------------------------------------------------------------
(* Base64::Leanify.                                                        *)

(* Decoding stops at the first pad; it fails at anything that is neither   *)
(* Base64 nor white space, of which a tab is none.                         *)
Decoded(s) ==
  LET stop == {k \in 1..Len(s) : Kind(s[k]) = "pad"}
      upto == IF stop = {} THEN Len(s)
              ELSE (CHOOSE k \in stop : \A j \in stop : k <= j) - 1
      n    == Cardinality({k \in 1..upto : Kind(s[k]) = "code"})
  IN  [ok |-> \A k \in 1..upto : Kind(s[k]) \in BlockKinds \cup {"cr"},
       of |-> IF s = <<>> THEN 0 ELSE Base64Of(s[1]),
       len |-> (n * 3) \div 4]

(* fault: there is always a last group with padding.                       *)
EncodedLength_Closed(n) == 4 * ((n \div 3) + 1)

(* How many characters of Base64 stand for n bytes.                        *)
EncodedLength(n) == 4 * ((n + 2) \div 3)

(* The n bytes of the file that the run b stood for.                       *)
Encode(b, n) ==
  [k \in 1..EncodedLength(n) |->
     <<IF k <= EncodedLength(n) - ((3 - (n % 3)) % 3) THEN "code" ELSE "pad", k, b, n>>]

(* What may become of the Base64 s: the file is leanified, and nothing may *)
(* be left of it; what cannot be decoded stays.                            *)
Encoded(s) ==
  LET d == Decoded(s)
  IN  IF s = <<>> \/ ~ d.ok THEN {s} ELSE {Encode(d.of, n) : n \in FileSizes(d.len)}

(* What comes before start is moved, and what there is from start to end   *)
(* is encoded again.                                                       *)
LeanifyBase64(start, end) ==
  \E m \in {Moved(start)} : \E old \in {Cells(m, start, end - start)} :
  \E s \in Encoded(old) :
    /\ mem' = Put(m, WriteAt(start), s)
    /\ p_write' = WriteAt(start) + Len(s)
    /\ p_read' = end
    /\ UNCHANGED <<call, pc, size>>

-----------------------------------------------------------------------------
(* The formats.  Each looks for the next Base64 in its own way.            *)

InLoop == pc = "start" /\ p_read < End

(* There is no further Base64: the rest is moved.                          *)
Rest ==
  /\ InLoop /\ Magic = End
  /\ MoveTo(End)

(* The sign of a data URI is searched for near its magic only.             *)
SearchEnd ==
  LET limit == Magic + 1 + SearchGap + 1 IN IF limit < End THEN limit ELSE End
DataURIStart == Search(Magic + 1, SearchEnd, {"sign"}) + 1
DataURIEnd == Search(DataURIStart, End, {"end"})

DataURIWithoutSign ==
  /\ InLoop /\ Magic < End /\ DataURIStart > SearchEnd
  /\ MoveTo(DataURIStart)

(* In single mode the text is one data URI without quotes.                 *)
LeanifyDataURI ==
  /\ InLoop /\ Magic < End /\ DataURIStart <= SearchEnd
  /\ IF setting.single THEN LeanifyBase64(DataURIStart, End)
     ELSE IF DataURIEnd = End THEN MoveTo(End)
     ELSE LeanifyBase64(DataURIStart, DataURIEnd)

(* A photo is one line of a vCard; the magic starts with a line break.     *)
(* The search for the line's end leaves out the character behind the magic.*)
LineEnd == Search(Magic + 2, End, {"end", "magic"})
PhotoStart == Search(Magic + 2, LineEnd, {"colon"}) + 1
InBase64 == Search(Magic + 1, LineEnd, {"sign"}) < LineEnd

(* fault: the '\r' at the end of the line is taken for a part of it.       *)
PhotoEnd_WithCr == Search(PhotoStart, End, {"end", "magic"})

PhotoEnd ==
  LET end == Search(PhotoStart, End, {"end", "magic"})
  IN  IF end < End /\ Kind(mem[end - 1]) = "cr" THEN end - 1 ELSE end

(* The file ends with the magic, so that std::find is given a beginning    *)
(* behind its end.  This is undefined: it may find nothing, or go on       *)
(* through what lies behind the file, which is not followed any further.   *)
PhotoAtEnd ==
  /\ InLoop /\ Magic = End - 1
  /\ \/ MoveTo(End)
     \/ pc' = "lost" /\ UNCHANGED <<call, mem, p_read, size, p_write>>

PhotoNotInBase64 ==
  /\ InLoop /\ Magic < End - 1 /\ ~ InBase64
  /\ MoveTo(LineEnd)

PhotoWithoutColon ==
  /\ InLoop /\ Magic < End - 1 /\ InBase64 /\ PhotoStart > LineEnd
  /\ MoveTo(PhotoStart)

LeanifyPhoto ==
  /\ InLoop /\ Magic < End - 1 /\ InBase64 /\ PhotoStart <= LineEnd
  /\ IF PhotoEnd = End THEN MoveTo(End) ELSE LeanifyBase64(PhotoStart, PhotoEnd)

(* A part of a mail begins after an empty line and ends at a boundary.     *)
PartStart ==
  LET s == Search(Magic + 1, End, {"sign"}) IN IF s < End THEN s + 1 ELSE End
PartEnd == Search(PartStart, End, {"end"})

LeanifyPart ==
  /\ InLoop /\ Magic < End
  /\ IF PartEnd = End THEN MoveTo(End) ELSE LeanifyBase64(PartStart, PartEnd)

(* The size of what was written is returned.                               *)
Finish ==
  /\ pc = "start" /\ p_read >= End
  /\ size' = p_write - fp_w
  /\ pc' = "done"
  /\ UNCHANGED <<call, mem, p_read, p_write>>

NextDataURI == Rest \/ DataURIWithoutSign \/ LeanifyDataURI \/ Finish
NextVcf == \/ Rest \/ PhotoAtEnd \/ PhotoNotInBase64 \/ PhotoWithoutColon \/ LeanifyPhoto
           \/ Finish
NextMime == Rest \/ LeanifyPart \/ Finish

-----------------------------------------------------------------------------
(* Properties.                                                             *)

(* What is left of the file's cell, or of all of its Base64, b in a text.  *)
Run(text, b) == SelectSeq(text, LAMBDA c : Base64Of(c) = b)

(* A file of n bytes is what the cells of a run may have been leanified to.*)
IsLeanRun(new, old) ==
  /\ Kind(old[1]) \in BlockKinds /\ Decoded(old).ok
  /\ \E n \in 0 .. Decoded(old).len : new = Encode(Base64Of(old[1]), n)

(* README.md:4: the text that comes out reads as the one that went in: the *)
(* same characters in the same order, and where there was Base64 all of    *)
(* it, as it was or that of the same file, leanified; and it is no longer  *)
(* than before.                                                            *)
SameText ==
  pc = "done" =>
    LET text == Cells(mem, fp_w, size)
    IN  /\ size <= Len(file)
        /\ \A k \in 2..size : Base64Of(text[k - 1]) <= Base64Of(text[k])
        /\ \A k \in 1..size : \E j \in 1..Len(file) : Base64Of(text[k]) = Base64Of(file[j])
        /\ \A j \in 1..Len(file) :
             LET old == Run(file, Base64Of(file[j]))
                 new == Run(text, Base64Of(file[j]))
             IN  new = old \/ IsLeanRun(new, old)
=============================================================================
