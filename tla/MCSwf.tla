-------------------------------- MODULE MCSwf -------------------------------
(* Calls of Swf for TLC: Flash files of up to three tags.                  *)
EXTENDS Swf

Tagged(type, c) == <<<<"tag", type, Len(c)>>>> \o c
TaggedLong(type, c) == <<<<"tag", type, Long>>, <<"length", Len(c)>>>> \o c

Data(j, n) == [x \in 1..n |-> <<"data", j, x>>]

(* Tags, as they should be or too short.                                   *)
Some(j) ==
  {Tagged("lossless", <<<<"bitmap">>>> \o Zlib(j, 2)),
   Tagged("lossless", <<<<"bitmap">>, <<"rest", j>>>>),
   Tagged("lossless", <<>>),
   TaggedLong("jpeg2", <<<<"id", j>>>> \o Data(j, 2)),
   Tagged("jpeg3", <<<<"id", j>>, <<"size", 1>>>> \o Data(j, 1) \o Zlib(j, 2)),
   Tagged("jpeg3", <<<<"id", j>>, <<"size", 1>>>>),
   TaggedLong("metadata", <<<<"xml", j>>>>),
   Tagged("other", <<<<"shape", j>>>>),
   Tagged("attributes", <<<<"flags", TRUE>>, <<"rest", j>>>>)}

Jpeg4 == Tagged("jpeg4", <<<<"id", 1>>, <<"size", 2>>, <<"deblock">>>> \o Data(1, 2))

End0 == Tagged("end", <<>>)
Whole == {<<<<"rect">>>> \o a \o b \o End0 : a \in Some(1) \cup {Jpeg4, <<>>}, b \in Some(2)}

(* The last tag is longer than the file, or has no length.                 *)
TooLong == {<<<<"tag", "other", 9>>>>, <<<<"tag", "other", Long>>>>,
            <<<<"tag", "other", Long>>, <<"length", 9>>>>}
Broken == {<<<<"rect">>>> \o a \o b : a \in Some(1), b \in TooLong}

Header(c, v, n) == <<<<"swf", c, v>>, <<"length", n + 2>>>>

Unpacked(v) == {Header("F", v, Len(b)) \o b : b \in Whole \cup Broken}
Packed ==
  LET bodies == Broken \cup {b \in Whole : Len(b) < 7}
  IN  {Header("C", v, Len(b)) \o Zlib(b, 3) : v \in {12, 13}, b \in bodies}
        \cup {Header("Z", 13, Len(b)) \o <<<<"packed", 2>>>> \o Lzma(b, 2) : b \in bodies}
NotPacked == {Header(c, 12, 2) \o Data(1, 1) : c \in {"F", "C", "Z"}}

MCCalls ==
  Unpacked(12) \X [room : {0, 2}, is_fast : BOOLEAN]
    \cup Unpacked(13) \X [room : {1}, is_fast : {FALSE}]
    \cup (Packed \cup NotPacked) \X [room : {0, 1}, is_fast : BOOLEAN]

(* A JPEG with a DeblockParam behind a tag that may become shorter.        *)
Deblocked ==
  LET bodies == {<<<<"rect">>>> \o a \o Jpeg4 \o End0 : a \in Some(2)}
  IN  {Header("F", 12, Len(b)) \o b : b \in bodies} \X [room : {0}, is_fast : {TRUE}]
=============================================================================
