------------------------------ MODULE Nesting -------------------------------
(***************************************************************************)
(* How deep Leanify goes into files that hold other files (leanify.cpp and *)
(* the callers of LeanifyFile in formats/).  Every format object has a     *)
(* depth and hands one on to what it finds inside; at a depth above        *)
(* --max_depth a file is left as it is.                                    *)
(*                                                                         *)
(* What the formats do with the contents is left out: a file is known by   *)
(* the class GetType would pick for it, and any container may turn out to  *)
(* hold any file.                                                          *)
(***************************************************************************)
EXTENDS Naturals, Sequences

CONSTANTS
  Files,       \* the kinds of files considered
  MaxDepths,   \* the values of --max_depth considered
  MaxLevel     \* bound: files are nested this deep at most

(* GetType finds these by the extension of the file name only.             *)
ByName == {"DataURI", "Json", "Mime"}
(* These hand their depth plus one to LeanifyFile, ...                     *)
Archives == {"Zip", "Gz", "Pe", "Tar", "Rdb"}
(* ... these of them only below the limit ...                              *)
LookFirst == {"Tar", "Rdb"}
(* ... and these their own depth.                                          *)
Wrappers == {"Gft", "Swf", "Base64"}
Plain == "Format"

Kinds == ByName \cup Archives \cup {"Gft", "Swf", "Dwf", "Ico", "Png", "Vcf",
                                    "Fb2", "Svg", Plain}

ASSUME NestingAssumption ==
  /\ Files \subseteq Kinds
  /\ MaxDepths \subseteq Nat
  /\ MaxLevel \in Nat \ {0}

VARIABLES
  max_depth,   \* the setting of this run
  stack        \* the calls of Leanify under way, outermost first

vars == <<max_depth, stack>>

(* A call: the kind of file it works on, the class of its format object,   *)
(* its depth_, and on which level of nesting the file really is.           *)
Calls == [file : Kinds \cup {"Base64"}, format : Kinds \cup {"Base64"},
          depth : Nat \ {0}, level : Nat \ {0}]

(* fault: the limit itself is taken for too deep.                          *)
GetType_Early(file, depth) == IF depth >= max_depth THEN Plain ELSE file

GetType(file, depth) == IF depth > max_depth THEN Plain ELSE file

LeanifyFile(file, depth, level) ==
  [file |-> file, format |-> GetType(file, depth), depth |-> depth, level |-> level]

(* A format object that is made without asking GetType.                    *)
Object(format, depth, level) ==
  [file |-> format, format |-> format, depth |-> depth, level |-> level]

Init ==
  /\ max_depth \in MaxDepths
  /\ \E f \in Files : stack = <<LeanifyFile(f, 1, 1)>>

Top == stack[Len(stack)]
Call(c) == stack' = Append(stack, c) /\ UNCHANGED max_depth
(* Any file may turn up inside, as deep as the bound allows.               *)
Inside == {f \in Files : Top.level < MaxLevel}

(* fault: the file in an archive gets the depth of the archive.            *)
OpenArchive_SameDepth ==
  /\ stack # <<>> /\ Top.format \in Archives
  /\ Top.format \in LookFirst => Top.depth < max_depth
  /\ \E f \in Inside : Call(LeanifyFile(f, Top.depth, Top.level + 1))

(* A file in an archive.                                                   *)
OpenArchive ==
  /\ stack # <<>> /\ Top.format \in Archives
  /\ Top.format \in LookFirst => Top.depth < max_depth
  /\ \E f \in Inside : Call(LeanifyFile(f, Top.depth + 1, Top.level + 1))

(* The file in a GFT file, an image in a Flash file, the file that some    *)
(* Base64 stands for; none of them has a name.                             *)
OpenWrapper ==
  /\ stack # <<>> /\ Top.format \in Wrappers
  /\ \E f \in Inside \ ByName : Call(LeanifyFile(f, Top.depth, Top.level + 1))

(* A binary in an e-book is Base64.                                        *)
OpenBook ==
  /\ stack # <<>> /\ Top.format = "Fb2" /\ Top.depth < max_depth
  /\ Call(Object("Base64", Top.depth + 1, Top.level))

(* A data URI in HTML, CSS or JavaScript.                                  *)
OpenDataURI ==
  /\ stack # <<>> /\ Top.format = "DataURI"
  /\ Call(Object("Base64", Top.depth, Top.level))

(* fault: the depth of what a message holds starts at 0.                   *)
OpenMessage_FromZero ==
  /\ stack # <<>> /\ Top.format \in {"Vcf", "Mime"}
  /\ Call(Object("Base64", 0, Top.level))

(* The photo of a vCard and the parts of a mail: the depth is left out, so *)
(* it is 1.                                                                *)
OpenMessage ==
  /\ stack # <<>> /\ Top.format \in {"Vcf", "Mime"}
  /\ Call(Object("Base64", 1, Top.level))

(* A data URI in an SVG image, and the ZIP archive that a DWF file is.     *)
OpenAsOther ==
  /\ stack # <<>>
  /\ \/ Top.format = "Svg" /\ Call(Object("DataURI", 1, Top.level))
     \/ Top.format = "Dwf" /\ Call(Object("Zip", 1, Top.level))

(* A PNG image in an icon.                                                 *)
OpenIcon ==
  /\ stack # <<>> /\ Top.format = "Ico" /\ Top.level < MaxLevel
  /\ Call(Object("Png", 1, Top.level + 1))

(* Leanify returns to its caller.                                          *)
Return ==
  /\ stack # <<>>
  /\ stack' = SubSeq(stack, 1, Len(stack) - 1)
  /\ UNCHANGED max_depth

Next ==
  \/ OpenArchive \/ OpenWrapper \/ OpenBook \/ OpenDataURI \/ OpenMessage
  \/ OpenAsOther \/ OpenIcon \/ Return

Spec == Init /\ [][Next]_vars

-----------------------------------------------------------------------------
(* Properties.                                                             *)

(* The setting and the calls have their types.                             *)
TypeOK == max_depth \in Nat /\ stack \in Seq(Calls)

(* The formats that count every level they add, and those that hold no     *)
(* file at all.  The depth of Base64 is the one of the file it stands for. *)
Counting == Archives \cup {"Fb2", "Base64", "Png", "Json", Plain}

(* The call number k is made from inside formats that count their levels.  *)
InsideCounting(k) == \A j \in 1 .. k - 1 : stack[j].format \in Counting

(* main.h:16-18, README.md:241-242: inside archives and e-books, however   *)
(* they are nested, no file on a level beyond --max_depth is minified.     *)
DepthBounded ==
  \A k \in DOMAIN stack :
    InsideCounting(k) /\ stack[k].format # Plain => stack[k].level <= max_depth

(* leanify.cpp:35-38: a file that Leanify has a format for is not passed   *)
(* over unless it really lies beyond --max_depth, however the depths were  *)
(* handed down to it.                                                      *)
NotSkippedEarly ==
  \A k \in DOMAIN stack :
    stack[k].file # Plain /\ stack[k].format = Plain => stack[k].level > max_depth
=============================================================================
