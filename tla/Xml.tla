-------------------------------- MODULE Xml ---------------------------------
(***************************************************************************)
(* Xml::Leanify (xml.cpp): a document is parsed, what it does not need is  *)
(* taken out of the tree, and the tree is written again.  The binaries of  *)
(* an FB2 book are leanified; what is taken out of an SVG image depends on *)
(* the elements around it.                                                 *)
(*                                                                         *)
(* A document is an outline: <<"element", id, level, name>>, followed by   *)
(* its attributes <<"attr", name, value>> and by the elements and texts    *)
(* <<"text", id, level, contents>> in it, whose level is one higher; and   *)
(* <<"prolog">>, which is its declaration or its doctype.                  *)
(* pugixml is external.  It keeps a text that is blank only if there is    *)
(* nothing else in its element, and no comments.                           *)
(***************************************************************************)
EXTENDS Format

VARIABLES
  removed,   \* the cells of the file that are not in the tree any more
  leaner,    \* those that are, but were leanified
  visited    \* the elements that are done

locals == <<removed, leaner, visited>>
vars == <<call, mem, p_read, pc, size, locals>>

Start == removed = {} /\ leaner = {} /\ visited = {}
Init == Called /\ Start

-----------------------------------------------------------------------------
(* The tree of a document s.                                               *)
Elements(s) == {p \in DOMAIN s : s[p][1] = "element"}
Texts(s) == {p \in DOMAIN s : s[p][1] = "text"}
Nodes(s) == Elements(s) \cup Texts(s)

Level(s, p) == s[p][3]
Name(s, e) == s[e][4]

(* The cells behind p that belong to it.                                   *)
Inside(s, p) ==
  {q \in p + 1 .. Len(s) : \A r \in p + 1 .. q : r \in Nodes(s) => Level(s, r) > Level(s, p)}

Children(s, e) == {c \in Nodes(s) \cap Inside(s, e) : Level(s, c) = Level(s, e) + 1}
Ancestors(s, p) == {a \in Elements(s) : p \in Inside(s, a)}

Attributes(s, e) == {a \in Inside(s, e) : a \notin Nodes(s) /\ \A p \in e + 1 .. a : p \notin Nodes(s)}
With(s, name) == {e \in Elements(s) : \E a \in Attributes(s, e) : s[a][2] = name}
Value(s, e, name) == s[CHOOSE a \in Attributes(s, e) : s[a][2] = name][3]

(* The one of the elements es around another that is next to it.           *)
Nearest(es) == CHOOSE e \in es : \A f \in es : f <= e

Root(s) == CHOOSE e \in Elements(s) : \A f \in Elements(s) : e <= f
Is(s, name) == Elements(s) # {} /\ Name(s, Root(s)) = name

-----------------------------------------------------------------------------
(* RemovePCDataSingle.                                                     *)
Preserves(s, e) ==
  \/ e \in With(s, "xml:space") /\ Value(s, e, "xml:space") = "preserve"
  \/ Name(s, e) = "p:sld"

BlankTexts ==
  {p \in Texts(file) : /\ file[p][4] = "blank"
                       /\ \A a \in Ancestors(file, p) : ~ Preserves(file, a)}

IsBook == Is(file, "FictionBook")
IsSvg == Is(file, "svg")

(* The declaration and the doctype of an image are removed as well.        *)
RemoveBlankTexts ==
  /\ pc = "start"
  /\ removed' = BlankTexts \cup {p \in DOMAIN file : IsSvg /\ file[p] = <<"prolog">>}
  /\ pc' = IF IsSvg THEN "svg" ELSE IF IsBook /\ MayRecurse THEN "book" ELSE "save"
  /\ UNCHANGED <<call, mem, p_read, size, leaner, visited>>

(* Of what es visits, e is done.                                           *)
Visit(es, e) ==
  /\ visited' = visited \cup {e}
  /\ pc' = IF visited' = es THEN "save" ELSE pc
  /\ UNCHANGED <<call, mem, p_read, size>>

-----------------------------------------------------------------------------
(* FB2.                                                                    *)
Binaries == {b \in Children(file, Root(file)) : b \in Elements(file) /\ Name(file, b) = "binary"}

HasId(b) == b \in With(file, "id") /\ Value(file, b, "id") # ""

NextBinary == CHOOSE b \in Binaries \ visited : \A c \in Binaries \ visited : b <= c

NoBinaries == pc = "book" /\ Binaries = {} /\ pc' = "save"
              /\ UNCHANGED <<call, mem, p_read, size, locals>>

(* A binary without an id is removed.                                      *)
RemoveBinary ==
  /\ pc = "book" /\ Binaries # {} /\ ~ HasId(NextBinary)
  /\ removed' = removed \cup {NextBinary} \cup Inside(file, NextBinary)
  /\ Visit(Binaries, NextBinary)
  /\ UNCHANGED leaner

(* The Base64 of another one becomes shorter, or not.                      *)
LeanifyBinary ==
  /\ pc = "book" /\ Binaries # {} /\ HasId(NextBinary)
  /\ leaner' \in {leaner, leaner \cup (Children(file, NextBinary) \ removed)}
  /\ Visit(Binaries, NextBinary)
  /\ UNCHANGED removed

-----------------------------------------------------------------------------
(* SVG.  Of the tables of defaults there is an entry of every kind here:   *)
(* fill is inherited and x is not, and for some elements x has a default   *)
(* of its own.                                                             *)
Common == [fill |-> "#000", x |-> "0"]
Single == [mask |-> [x |-> "-10%"]]

DefaultOf(element, name) ==
  IF element \in DOMAIN Single /\ name \in DOMAIN Single[element] THEN Single[element][name]
  ELSE IF name \in DOMAIN Common THEN Common[name] ELSE "none"

IsDefaultAttribute(e, a) == file[a][3] = DefaultOf(Name(file, e), file[a][2])

(* fault: only the parent is looked at.                                    *)
IsOverride_Parent(e, a) ==
  LET name == file[a][2]
      parents == {p \in Elements(file) : e \in Children(file, p)} \cap With(file, name)
  IN  parents # {} /\ Value(file, Nearest(parents), name) # file[a][3]

(* Is there another value that the element would inherit without a?  The   *)
(* elements around it are visited later.                                   *)
IsOverride(e, a) ==
  LET name == file[a][2]
      holders == Ancestors(file, e) \cap With(file, name)
  IN  holders # {} /\ Value(file, Nearest(holders), name) # file[a][3]

(* TraverseElements visits an element behind those inside it.              *)
NextElement ==
  LET Ready == {e \in Elements(file) \ visited :
                  Elements(file) \cap Inside(file, e) \subseteq visited}
  IN  CHOOSE e \in Ready : \A f \in Ready : e <= f

RemovedWhenEmpty == {"text", "g", "mask"}
WithoutUse(e, gone) ==
  \/ Name(file, e) \in RemovedWhenEmpty /\ Children(file, e) \subseteq gone
  \/ Name(file, e) = "tref" /\ \A a \in Attributes(file, e) \ gone : file[a][2] # "xlink:href"
  \/ Name(file, e) = "metadata"

Useless(e) ==
  {a \in Attributes(file, e) : file[a][3] = "" \/ (IsDefaultAttribute(e, a) /\ ~ IsOverride(e, a))}
DataUris(e) == {a \in Attributes(file, e) : file[a][3] = "data:"}

(* Attributes that are empty or say what is the default go, and then the   *)
(* element if it is of no use.  A data URI becomes shorter, or not.        *)
VisitElement ==
  /\ pc = "svg"
  /\ \E e \in {NextElement} : \E gone \in {removed \cup Useless(e)} :
       /\ removed' = gone \cup IF WithoutUse(e, gone) THEN {e} \cup Inside(file, e) ELSE {}
       /\ leaner' \in {leaner, leaner \cup DataUris(e)}
       /\ Visit(Elements(file), e)

-----------------------------------------------------------------------------
(* The tree that is left, written again.                                   *)
Saved ==
  LET left == SelectSeq([p \in DOMAIN file |-> p], LAMBDA p : p \notin removed)
      Written(p) == IF p \in leaner THEN [file[p] EXCEPT ![Len(file[p])] = "lean"] ELSE file[p]
  IN  [k \in DOMAIN left |-> Written(left[k])]

(* It depends also on how the file was written which one is smaller.       *)
Save ==
  /\ pc = "save"
  /\ mem' = Put(mem, fp_w, Saved)
  /\ size' = Len(Saved)
  /\ pc' = "done"
  /\ UNCHANGED <<call, p_read, locals>>

NotSmaller ==
  /\ pc = "save"
  /\ MovedAsItIs /\ UNCHANGED locals

Next == \/ RemoveBlankTexts \/ NoBinaries \/ RemoveBinary \/ LeanifyBinary
        \/ VisitElement \/ Save \/ NotSmaller

Spec == Init /\ [][Next]_vars

-----------------------------------------------------------------------------
(* Properties.                                                             *)

(* What an attribute is for an element: what it says, or the nearest one   *)
(* around it if the attribute is inherited, or the default.  An empty one  *)
(* says nothing.                                                           *)
Computed(s, e, name) ==
  LET asked == {e} \cup IF name = "fill" THEN Ancestors(s, e) ELSE {}
      holders == {h \in asked \cap With(s, name) : Value(s, h, name) # ""}
  IN  IF holders = {} THEN DefaultOf(Name(s, e), name)
      ELSE Value(s, Nearest(holders), name)

(* What is drawn of an image, in its order: rectangles, and the words of   *)
(* texts, each with all that the elements around it say.  Data is what it  *)
(* was when it is leaner, and an empty reference is none.                  *)
Drawn(s) ==
  LET Draws(p) ==
        /\ \A a \in Ancestors(s, p) : Name(s, a) # "metadata"
        /\ CASE p \in Texts(s) -> s[p][4] = "words"
             [] Name(s, p) = "tref" -> p \in With(s, "xlink:href")
                                         /\ Value(s, p, "xlink:href") # ""
             [] OTHER -> Name(s, p) = "rect"
      Seen(p) ==
        [id |-> s[p][2],
         around |-> {[id |-> s[e][2], x |-> Computed(s, e, "x"),
                      fill |-> Computed(s, e, "fill")] :
                       e \in (Ancestors(s, p) \cup {p}) \cap Elements(s)}]
      drawn == SelectSeq([p \in DOMAIN s |-> p], LAMBDA p : p \in Nodes(s) /\ Draws(p))
  IN  [k \in DOMAIN drawn |-> Seen(drawn[k])]

(* What must be left of any other document: all but blank texts that need  *)
(* not be preserved, and the binaries of a book that have no name.         *)
Essential(s) ==
  LET blank == {p \in Texts(s) : /\ s[p][4] = "blank"
                                 /\ ~ \E a \in Ancestors(s, p) : Preserves(s, a)}
      unnamed == {e \in Elements(s) :
                    /\ Is(s, "FictionBook") /\ Name(s, e) = "binary" /\ Level(s, e) = 1
                    /\ e \in With(s, "id") => Value(s, e, "id") = ""}
      AsItWas(c) == IF c[Len(c)] = "lean" THEN [c EXCEPT ![Len(c)] = "base64"] ELSE c
      kept == SelectSeq([p \in DOMAIN s |-> p],
                LAMBDA p : p \notin blank \cup unnamed
                             /\ \A b \in unnamed : p \notin Inside(s, b))
  IN  [k \in DOMAIN kept |-> AsItWas(s[kept[k]])]

(* README.md:4, xml.cpp:127-162, xml.cpp:186-312: an SVG image shows the   *)
(* same things with the same attributes, and any other document has the    *)
(* same tree, but for what is leanified, blank, or without a name.         *)
SameDocument ==
  pc = "done" =>
    LET new == Cells(mem, fp_w, size)
    IN  IF IsSvg THEN Drawn(new) = Drawn(file)
        ELSE Essential(new) = Essential(file)
=============================================================================
