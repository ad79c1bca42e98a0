-------------------------------- MODULE MCPng -------------------------------
(* Calls of Png for TLC.                                                   *)
EXTENDS Png

Data(j, n) == [x \in 1..n |-> <<"data", j, x>>]
Chunk(type, data) == <<<<"chunk", type, Len(data)>>>> \o data \o <<<<"crc", type, data>>>>
OrNothing(chunks) == chunks \cup {<<>>}

(* The pixels are in one chunk or in two.                                  *)
Pixels == Zlib("pixels", 3)
Idats == {Chunk("IDAT", Pixels),
          Chunk("IDAT", SubSeq(Pixels, 1, 1)) \o Chunk("IDAT", SubSeq(Pixels, 2, 3))}
Iend == Chunk("IEND", <<>>)

Images ==
  {<<<<"png">>>> \o Chunk("IHDR", Data(0, 1)) \o a \o b \o idat \o c \o Iend \o behind :
     a \in OrNothing({Chunk("iCCP", Data(1, 1))}),
     b \in OrNothing({Chunk(t, Data(2, 1)) :
                        t \in {"tEXt", "tRNS", "iCCP", "acTL", "npTc", "PLTE"}}),
     idat \in Idats,
     c \in OrNothing({Chunk("tRNS", Data(3, 1)), Chunk("tEXt", Data(3, 2))}),
     behind \in {<<>>, Data(4, 1)}}

CutOff ==
  LET image == <<<<"png">>>> \o Chunk("tEXt", Data(0, 1)) \o Chunk("IDAT", Pixels) \o Iend
  IN  {SubSeq(image, 1, n) : n \in 1 .. Len(image)}

NoPixels == {<<<<"png">>>> \o Iend}

MCCalls ==
  Images \X [room : {0, 2}, is_fast : {FALSE}, keep_icc : BOOLEAN]
    \cup (CutOff \cup NoPixels) \X [room : {0, 1, 3}, is_fast : BOOLEAN, keep_icc : {FALSE}]
=============================================================================
