----------------------------- MODULE MCPipeline -----------------------------
(* Instances of Pipeline for TLC: one to three small files.                *)
EXTENDS PipelineInvariant

CONSTANTS fileA, fileB, fileC

File(n) == [isDirectory |-> FALSE, names |-> {n}]
Folder(s) == [isDirectory |-> TRUE, names |-> s]

(* Command lines.                                                          *)
TwoFiles == <<File(fileA), File(fileB)>>
OneFolder == <<Folder(Names)>>
FileAndItsFolder == <<Folder({fileA}), File(fileA)>>

MCBytes == {"a", "b", "A", "S", "F", "K", "-"}

(* Contents that differ, and contents that are the same.                   *)
Distinct == [n \in Names |-> IF n = fileA THEN <<"a", "a", "a">> ELSE <<"b", "b", "b">>]
Same == [n \in Names |-> <<"a", "a", "a">>]
Longer == [n \in Names |-> <<"a", "a", "a", "a">>]

AllText == [n \in Names |-> "txt"]
JsonAndText == [n \in Names |-> IF n = fileA THEN "json" ELSE "txt"]
HtmlAndText == [n \in Names |-> IF n = fileA THEN "html" ELSE "txt"]

MCNameInode == [n \in Names |-> IF n = fileA THEN 1 ELSE IF n = fileB THEN 2 ELSE 3]

(* Settings.                                                               *)
Plain == [level |-> "full", json |-> 0, rest |-> "strip"]
Fast == [Plain EXCEPT !.level = "fast"]
Keep == [Plain EXCEPT !.rest = "keep"]
OneSetting == {Plain}
LevelsDiffer == {Plain, Fast}
TolerancesDiffer == {Plain, Fast, [Plain EXCEPT !.json = 20]}
RestDiffers == {Plain, Keep}
TinyTolerance == {Plain, [Plain EXCEPT !.json = 2]}

(* The two documents have results of two and of one unit, which show the   *)
(* settings they were made under.  Everything else is a result already, or *)
(* not a document: LeanifyFile leaves it as it is.                         *)
Mark(o) == IF o.rest = "keep" THEN "K" ELSE IF o.level = "fast" THEN "F" ELSE "S"

MCLeanifyFile(e, d, o) ==
  IF e = "json" /\ o.json > 0 /\ d = <<"a", "a", "a">> THEN <<"A">>
  ELSE IF d = <<"a", "a", "a">> THEN <<"A", Mark(o)>>
  ELSE IF d = <<"b", "b", "b">> THEN <<Mark(o)>>
  ELSE d

(* Here a data URI is looked for in .html files only (leanify.cpp:48-51).  *)
HtmlLeanifyFile(e, d, o) ==
  IF e = "html" THEN MCLeanifyFile(e, d, o) ELSE d

(* Here a document whose end is missing can be made smaller as well.       *)
PartialLeanifyFile(e, d, o) ==
  IF d = <<"a", "a", "a", "a">> THEN <<"A", "A", "S">>
  ELSE IF d = <<"A", "A">> THEN <<"A">>
  ELSE d
=============================================================================
