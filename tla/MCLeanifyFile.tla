---------------------------- MODULE MCLeanifyFile ---------------------------
(* Instances of LeanifyFile for TLC: the calls of each format.             *)
EXTENDS LeanifyFile, TLC

(* The calls of a format do not depend on those of LeanifyFile.            *)
TarMC == INSTANCE MCTar WITH Calls <- {}
GzMC == INSTANCE MCGz WITH Calls <- {}
ZipMC == INSTANCE MCZip WITH Calls <- {}
RdbMC == INSTANCE MCRdb WITH Calls <- {}
IcoMC == INSTANCE MCIco WITH Calls <- {}
SwfMC == INSTANCE MCSwf WITH Calls <- {}
PngMC == INSTANCE MCPng WITH Calls <- {}
LuaMC == INSTANCE MCLua WITH Calls <- {}
EmbeddedMC == INSTANCE MCEmbedded WITH Calls <- {}
XmlMC == INSTANCE MCXml WITH Calls <- {}
JsonMC == INSTANCE MCJson WITH Calls <- {}
PeMC == INSTANCE MCPe WITH Calls <- {}

(* What the calls of a format say nothing about.                           *)
Completed(calls) ==
  {<<c[1], c[2] @@ [ext |-> "", single |-> FALSE, levels |-> 1, is_fast |-> FALSE]>> :
     c \in calls}

Data(n) == [k \in 1..n |-> <<"data", "file", k>>]

(* Images with headers of some sizes, one that is not there, and files of  *)
(* no format.                                                              *)
Gfts == {<<<<"gft", h>>>> \o Data(n) : h \in 1..3, n \in 0..4}
Wrapped == (Gfts \cup {Data(2), <<<<"dwf">>, <<"data", "file", 1>>>>})
             \X [room : {0, 1, 3}]

(* Nothing may be deeper than --max_depth.                                 *)
TooDeep == {c[1] : c \in PngMC!MCCalls} \X [room : {0, 1}, levels : {-1}]

OfJson(calls) == Completed({<<c[1], [ext |-> "Json"] @@ c[2]>> : c \in calls})

MCCalls ==
  Completed(UNION {Wrapped, TooDeep, TarMC!MCCalls, GzMC!MCCalls, ZipMC!MCCalls,
                   RdbMC!MCCalls, IcoMC!MCCalls, SwfMC!MCCalls, PngMC!MCCalls,
                   LuaMC!MCCalls, EmbeddedMC!MCCalls, XmlMC!MCCalls,
                   PeMC!MCCalls})
    \cup OfJson(JsonMC!MCCalls)

AnyEnd == Completed(TarMC!AnyEnd \cup EmbeddedMC!AtEnd)
FastInside == Completed(GzMC!FastInside)
Inside == Completed(LuaMC!Inside)
Deblocked == Completed(SwfMC!Deblocked)
CutOff == Completed(EmbeddedMC!CutOff)
Huge == OfJson(JsonMC!Huge)
Unpadded == Completed(EmbeddedMC!Unpadded0)

MCZero == <<"zero">>
MCJunk == <<"junk">>
MCBeyond == <<"beyond">>
=============================================================================
