----------------------------- MODULE MCEmbedded -----------------------------
(* Calls of Embedded for TLC.                                              *)
EXTENDS Embedded, SequencesExt

MaxPieces == 2   \* bound: texts are made of so many pieces, and one that breaks off

Header(format) ==
  IF format = "Vcf" THEN <<"magic", "sign", "colon">> ELSE <<"magic", "sign">>

Padded == {<<"code", "code", "pad", "pad">>,
           <<"code", "code", "fold", "code", "pad">>,
           <<"code", "code", "code", "code">>,
           <<"code", "code", "tab", "code", "pad">>}
Unpadded == {<<"code", "code">>, <<"code", "code", "code">>}

(* A file in Base64 and what closes it.                                    *)
Sections(format, blocks) == {Header(format) \o b \o <<"end">> : b \in blocks}

(* A header with something else behind it, and headers that lack a part.   *)
Others(format) ==
  {<<"other">>, <<"end">>, Header(format) \o <<"other", "end">>} \cup
  CASE format = "DataURI" -> {<<"magic", "other", "other">>}
    [] format = "Vcf"     -> {<<"magic", "other", "end">>, <<"magic", "sign", "end">>,
                              <<"magic", "end">>,
                              Header("Vcf") \o <<"code", "code", "pad", "pad", "cr", "end">>}
    [] format = "Mime"    -> {}

(* The last piece may break off.                                           *)
Cut(format) ==
  {<<>>, Header(format) \o <<"code", "code">>} \cup
  IF format = "Mime" THEN {<<"magic", "other">>} ELSE {}

Documents(format, blocks) ==
  {FlattenSeq(p) \o c : p \in BoundedSeq(Sections(format, blocks) \cup Others(format), MaxPieces),
                        c \in Cut(format)} \ {<<>>}

(* The cells of these kinds.  A run of Base64 is known by where it begins. *)
Cells0(kinds) ==
  LET First(x) == CHOOSE b \in 1..x : /\ \A y \in b..x : kinds[y] \in BlockKinds
                                      /\ b = 1 \/ kinds[b - 1] \notin BlockKinds
  IN  [x \in DOMAIN kinds |->
         <<kinds[x], x, IF kinds[x] \in BlockKinds THEN First(x) ELSE x, 0>>]

CallsOf(format, single, texts) ==
  {Cells0(t) : t \in texts} \X [ext : {format}, single : {single}, room : {0, 1, 3}]

(* A vCard is also known by its first line.                                *)
CallsWith(blocks) ==
  CallsOf("DataURI", FALSE, Documents("DataURI", blocks))
    \cup CallsOf("", FALSE, {<<"vcard">> \o t : t \in Documents("Vcf", blocks)})
    \cup CallsOf("Mime", FALSE, Documents("Mime", blocks))
    \cup CallsOf("", TRUE, {Header("DataURI") \o b : b \in blocks})

MCCalls == CallsWith(Padded)

(* vCards that end with the magic.                                         *)
AtEnd == CallsOf("", FALSE, {<<"vcard">> \o h \o <<"magic">> : h \in {<<>>, <<"other", "end">>}})

(* Base64 without padding, and texts that break off: see README.md.        *)
Unpadded0 == CallsWith(Unpadded)
CutOff ==
  CallsOf("DataURI", FALSE,
          {<<"other", "magic", "other">>,
           <<"magic", "sign", "code", "code", "code", "code", "end", "magic">>})
    \cup CallsOf("", FALSE, {<<"vcard", "magic", "sign", "other">>})
=============================================================================
