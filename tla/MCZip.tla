------------------------------- MODULE MCZip --------------------------------
(* Calls of Zip for TLC: archives of one or two entries.                   *)
EXTENDS Zip

(* The kinds of entries: what is in them, and what is odd about them.      *)
Plain(name, n) == [k \in 1..n |-> <<"raw", name, k>>]

Fields(name, method, csize, usize, crc) ==
  [name |-> name, method |-> method, csize |-> csize, usize |-> usize, crc |-> crc,
   dd |-> FALSE, enc |-> FALSE, extra |-> 0]

Stored(name, n) ==
  [h |-> Fields(name, "store", n, n, Plain(name, n)), data |-> Plain(name, n)]

Deflated(name, n, m) ==
  [h |-> Fields(name, "deflate", m, n, Plain(name, n)),
   data |-> Deflate(Plain(name, n), m)]

Kinds(name) ==
  {Stored(name, 0), Stored(name, 2),
   [Stored(name, 1) EXCEPT !.h.extra = 1],
   Deflated(name, 0, 1), Deflated(name, 2, 2), Deflated(name, 2, 1),
   [Deflated(name, 3, 2) EXCEPT !.h.dd = TRUE],
   [Deflated(name, 1, 1) EXCEPT !.h.enc = TRUE],
   [Deflated(name, 1, 1) EXCEPT !.h.method = "other"],
   [Deflated(name, 1, 1) EXCEPT !.h.crc = Plain(name, 2)],
   [Deflated(name, 1, 1) EXCEPT !.h.csize = 99]}

(* The cells of an entry; with a data descriptor the local header does not *)
(* know the sizes.                                                         *)
Image(e) ==
  LET local == IF e.h.dd THEN [e.h EXCEPT !.csize = 0, !.usize = 0, !.crc = <<>>]
               ELSE e.h
  IN  <<<<"local", local>>>> \o [k \in 1 .. e.h.extra |-> <<"extra", k>>] \o e.data
        \o (IF e.h.dd THEN <<<<"descriptor", 1>>>> ELSE <<>>)

(* A prefix, the entries, the directory in either order, its end, and a    *)
(* comment.                                                                *)
Archive(prefix, relative, es, backwards, comment) ==
  LET images == [i \in DOMAIN es |-> Image(es[i])]
      first == IF relative THEN 0 ELSE Len(prefix)
      offset(i) == first + Len(FlattenSeq(SubSeq(images, 1, i - 1)))
      cd(i) == <<<<"cd", [es[i].h EXCEPT !.csize = Len(es[i].data), !.extra = 1]
                           @@ [offset |-> offset(i)]>>, <<"comment", i>>>>
      dir == FlattenSeq([i \in DOMAIN es |-> cd(IF backwards THEN Len(es) + 1 - i ELSE i)])
  IN  prefix \o FlattenSeq(images) \o dir
        \o <<<<"eocd", [num_records |-> Len(es), cd_size |-> Len(dir),
                        cd_offset |-> offset(Len(es) + 1)]>>>>
        \o comment

Comments ==
  {<<>>, <<<<"comment", 0>>>>,
   <<<<"eocd", [num_records |-> 1, cd_size |-> 9, cd_offset |-> 9]>>>>,
   <<<<"eocd", [num_records |-> 1, cd_size |-> 1, cd_offset |-> 0]>>, <<"comment", 0>>>>}

One == {<<a>> : a \in Kinds("one")}
Two == {<<a, b>> : a \in Kinds("one"), b \in Kinds("two")}

Archives ==
  {Archive(p[1], p[2], es, FALSE, c) : es \in One, c \in Comments,
       p \in {<<<<>>, FALSE>>, <<<<<<"dwf">>>>, FALSE>>, <<<<<<"dwf">>>>, TRUE>>}}
    \cup {SubSeq(Archive(<<>>, FALSE, es, FALSE, <<>>), 1, 3) : es \in One}

SettingsWith(rooms) ==
  {[room |-> r, is_fast |-> s[1], force_deflate |-> s[2]] :
     r \in rooms, s \in {<<FALSE, FALSE>>, <<TRUE, FALSE>>, <<FALSE, TRUE>>}}

MCCalls ==
  Archives \X SettingsWith({0, 2})
    \cup {Archive(<<<<"dwf">>>>, TRUE, es, TRUE, <<>>) : es \in Two} \X SettingsWith({0})
=============================================================================
