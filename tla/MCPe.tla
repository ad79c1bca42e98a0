-------------------------------- MODULE MCPe --------------------------------
(* Calls of Pe for TLC.                                                    *)
EXTENDS Pe

FileAlignment == 2
SectionAlignment == 4
FirstAddress == 16

Data(name, n) == [k \in 1..n |-> <<"data", name, k>>]
Directory(n) == <<<<"directory", n>>>>
Entry(offset, name) == <<<<"entry", offset, FALSE, name>>>>
Down(offset, name) == <<<<"entry", offset, TRUE, name>>>>
DataEntry(a, n) == <<<<"data entry", a, n>>>>

(* Resources at the virtual address a: one behind the other, ...           *)
TwoResources(a, behind) ==
  Directory(2) \o Entry(3, "one") \o Entry(4, "two") \o DataEntry(a + 6, 2) \o DataEntry(a + 8, 1)
    \o <<Zero>> \o Data("one", 2) \o Data("two", 1) \o behind

(* ... below another directory, in no order, ...                           *)
DeepResources(a) ==
  Directory(2) \o Down(3, "below") \o Entry(6, "last") \o Directory(1) \o Entry(5, "first")
    \o DataEntry(a + 7, 2) \o DataEntry(a + 9, 3) \o Data("first", 2) \o Data("last", 3)

(* ... each behind its entry, ...                                          *)
NearResources(a) ==
  Directory(2) \o Entry(3, "one") \o Entry(7, "two") \o DataEntry(a + 4, 3) \o Data("one", 3)
    \o DataEntry(a + 8, 2) \o Data("two", 2)

(* ... not standard, or none.                                              *)
OddResources(a) ==
  Directory(2) \o Entry(3, "one") \o Entry(4, "two") \o DataEntry(a + 5, 2) \o DataEntry(a + 6, 2)
    \o Data("both", 3)
NoResources(a) == Directory(0) \o Data("none", 2)

ResourcesAt(kind, a) ==
  CASE kind = "two" -> TwoResources(a, <<>>)
    [] kind = "import" -> TwoResources(a, Data("import", 1))
    [] kind = "more" -> TwoResources(a, Data("more", 3))
    [] kind = "deep" -> DeepResources(a)
    [] kind = "near" -> NearResources(a)
    [] kind = "odd" -> OddResources(a)
    [] OTHER -> NoResources(a)

Cells_(name, kind, a) ==
  CASE name = "rsrc" -> ResourcesAt(kind, a)
    [] name = "bss" -> <<>>
    [] OTHER -> Data(name, 2)

(* An executable with these sections; the PE header is at offset.  The     *)
(* headers claim to be larger than they are by excess.                     *)
Exe(names, kind, offset, excess, dll, rest) ==
  LET n == Len(names)
      headers == RoundUp(offset + 2 + n, FileAlignment)
      Padded(s) == s \o [k \in 1 .. RoundUp(Len(s), FileAlignment) - Len(s) |-> Zero]
      Size(k, a) == IF names[k] = "bss" THEN 3 ELSE Len(Cells_(names[k], kind, a))
      address[k \in 1 .. n + 1] ==
        IF k = 1 THEN FirstAddress
        ELSE address[k - 1] + RoundUp(Size(k - 1, address[k - 1]), SectionAlignment)
      cells == [k \in 1..n |-> Padded(Cells_(names[k], kind, address[k]))]
      raw[k \in 1 .. n + 1] == IF k = 1 THEN headers ELSE raw[k - 1] + Len(cells[k - 1])
      DirectoryAt(name) ==
        LET ks == {k \in 1..n : names[k] = name}
        IN  IF ks = {} THEN [VirtualAddress |-> 0, Size |-> 0]
            ELSE LET k == CHOOSE k \in ks : TRUE
                 IN  [VirtualAddress |-> address[k], Size |-> Size(k, address[k])]
      import == IF kind = "import" /\ DirectoryAt("rsrc").Size > 0
                THEN [VirtualAddress |-> DirectoryAt("rsrc").VirtualAddress + 9, Size |-> 1]
                ELSE DirectoryAt("text")
      section(k) == [name |-> names[k], VirtualSize |-> Size(k, address[k]),
                     VirtualAddress |-> address[k], SizeOfRawData |-> Len(cells[k]),
                     PointerToRawData |-> IF cells[k] = <<>> THEN 0 ELSE raw[k]]
      optional == [FileAlignment |-> FileAlignment, SectionAlignment |-> SectionAlignment,
                   IsDriver |-> FALSE, SizeOfHeaders |-> headers + excess,
                   SizeOfImage |-> address[n + 1], import |-> import,
                   rsrc |-> DirectoryAt("rsrc"), reloc |-> DirectoryAt("reloc"),
                   delay |-> DirectoryAt("data")]
  IN  <<<<"MZ", offset>>>> \o Data("stub", offset - 1)
        \o <<<<"PE", [NumberOfSections |-> n, IsDll |-> dll, IsStripped |-> FALSE]>>,
             <<"optional", optional>>>>
        \o [k \in 1..n |-> <<"section", section(k)>>]
        \o [k \in 1 .. headers - (offset + 2 + n) |-> Zero]
        \o FlattenSeq(cells) \o rest

Orders == {<<"text">>, <<"text", "reloc">>, <<"reloc", "text">>, <<"text", "reloc", "data">>}
RsrcOrders ==
  {<<"text", "rsrc">>, <<"text", "rsrc", "reloc">>, <<"text", "reloc", "rsrc">>,
   <<"text", "rsrc", "data">>, <<"text", "bss", "rsrc", "reloc", "data">>,
   <<"reloc", "rsrc">>, <<"text", "reloc", "rsrc", "data">>}
Kinds == {"two", "import", "more", "deep", "near", "odd", "none"}

(* The stub is there or not; the file is alone or inside another one.      *)
Exes(names, kind, dll) ==
  {<<Exe(names, kind, 3, 0, dll, <<>>), [room |-> 0]>>,
   <<Exe(names, kind, 3, IF names[1] = "reloc" THEN 0 ELSE 2, dll, <<>>), [room |-> 3]>>,
   <<Exe(names, kind, 4, 0, dll, Data("rest", 1)), [room |-> 2]>>,
   <<Exe(names, kind, 1, 0, dll, Data("rest", 1)), [room |-> 0]>>}

Wanted(names, kind, dll) ==
  kind = "import" /\ ~ dll => \A k \in 2 .. Len(names) : ~ (names[k - 1] = "reloc" /\ names[k] = "rsrc")

MCCalls ==
  UNION ({Exes(names, "two", dll) : names \in Orders, dll \in BOOLEAN}
           \cup {Exes(c[1], c[2], c[3]) :
                   c \in {c \in RsrcOrders \X Kinds \X BOOLEAN : Wanted(c[1], c[2], c[3])}})
=============================================================================
