-------------------------------- MODULE MCGz --------------------------------
(* Calls of Gz for TLC.                                                    *)
EXTENDS Gz

MaxData == 3
MaxRoom == 2

(* The cells of each section of a file.                                    *)
Section(s) ==
  CASE s = "extra" -> <<<<"len", 1>>, <<"extra">>>>
    [] s = "name" -> <<<<"char">>, <<"nul">>>>
    [] s = "comment" -> <<<<"nul">>>>
    [] s = "hcrc" -> <<<<"hcrc">>>>

File(f, n, c) ==
  LET Has(s) == IF s \in f THEN Section(s) ELSE <<>>
  IN  <<<<"gz">>, <<"flags", f>>, <<"xfl", "fast">>>>
        \o Has("extra") \o Has("name") \o Has("comment") \o Has("hcrc")
        \o [k \in 1..n |-> <<"deflate", "original", k, n>>]
        \o <<<<"crc", c>>, <<"isize", c>>>>

Sections == {"extra", "name", "comment", "hcrc"}

(* Files whose trailer fits the data, files whose trailer does not, and a  *)
(* file whose end was cut off.                                             *)
Healthy == {File(f, n, "original") : f \in SUBSET Sections, n \in 1 .. MaxData}
Wrong == {File(f, n, "wrong") : f \in SUBSET Sections, n \in 1 .. MaxData}
CutOff == {SubSeq(File({"name", "hcrc"}, 1, "original"), 1, k) : k \in {5, 6}}

(* Any file on its own; healthy files inside another one, recompressed ... *)
MCCalls ==
  (Healthy \cup Wrong \cup CutOff) \X [room : {0}, is_fast : BOOLEAN]
    \cup Healthy \X [room : 1 .. MaxRoom, is_fast : {FALSE}]

(* ... or in fast mode.                                                    *)
FastInside == Healthy \X [room : 1 .. MaxRoom, is_fast : {TRUE}]
=============================================================================
