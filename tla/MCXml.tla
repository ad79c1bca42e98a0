------------------------------- MODULE MCXml --------------------------------
(* Calls of Xml for TLC: small images, books and other documents.          *)
EXTENDS Xml

Element(id, level, name, attributes) == <<<<"element", id, level, name>>>> \o attributes
TextOf(id, level, contents) == <<<<"text", id, level, contents>>>>

Attribute(name, values) == {<<<<"attr", name, v>>>> : v \in values} \cup {<<>>}
Fills == Attribute("fill", {"#000", "red", ""})
Xs == Attribute("x", {"0", "-10%"})

(* What there may be in an image, two levels deep in it.                   *)
Pieces ==
  {Element(5, 2, "rect", f \o x) : f \in Fills, x \in Xs}
    \cup {Element(5, 2, "text", f) \o t : f \in Fills,
            t \in {<<>>, TextOf(6, 3, "words"), TextOf(6, 3, "blank")}}
    \cup {Element(5, 2, "tref", h) : h \in Attribute("xlink:href", {"#a", ""})}
    \cup {Element(5, 2, "g", <<>>) \o Element(6, 3, "g", <<>>),
          Element(5, 2, "image", <<<<"attr", "href", "data:">>>>),
          Element(5, 2, "metadata", <<>>) \o Element(6, 3, "rect", <<>>),
          <<>>}

Containers == {Element(4, 1, "g", f) : f \in Fills} \cup {Element(4, 1, "mask", x) : x \in Xs}

Images ==
  {Element(1, 0, "svg", f) \o c \o p : f \in Fills, c \in Containers, p \in Pieces}
    \cup {<<<<"prolog">>>> \o Element(1, 0, "svg", <<>>) \o Element(2, 1, "text", s)
            \o TextOf(3, 2, "blank") : s \in Attribute("xml:space", {"preserve"})}

Binary(id, name, contents) ==
  Element(id, 1, "binary", name)
    \o IF contents = "" THEN <<>> ELSE TextOf(id + 1, 2, contents)
Books ==
  LET binaries(id) == {Binary(id, name, c) : name \in Attribute("id", {"cover", ""}),
                                             c \in {"", "base64"}} \cup {<<>>}
  IN  {Element(1, 0, "FictionBook", <<>>) \o a \o Element(4, 1, "body", <<>>)
         \o TextOf(5, 2, "words") \o b : a \in binaries(2), b \in binaries(6)}

(* Blank texts, some of which are to be preserved.                         *)
Others ==
  LET spaces == Attribute("xml:space", {"preserve", "default"})
  IN  {<<<<"prolog">>>> \o Element(1, 0, root, a) \o Element(2, 1, "p", b) \o TextOf(3, 2, "blank")
         \o Element(4, 1, "p", <<>>) \o TextOf(5, 2, "words") :
         root \in {"html", "p:sld"}, a \in spaces, b \in spaces}

MCCalls ==
  Images \X [room : {1}] \cup (Books \cup Others) \X [room : {0, 2}, levels : {0, 1}]
=============================================================================
