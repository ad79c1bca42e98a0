-------------------------------- MODULE MCRdb -------------------------------
(* Calls of Rdb for TLC: archives of up to three files.                    *)
EXTENDS Rdb, SequencesExt

TooLong == 99     \* a size that is larger than what is left of the archive

Data(k, n) == [x \in 1 .. IF n = TooLong THEN 2 ELSE n |-> <<"data", k, x>>]

(* An archive of files of these sizes; of its index the last cells are     *)
(* missing, and it is followed by something else.  The second name is one  *)
(* cell longer than the others.                                            *)
Archive(sizes, cut, rest) ==
  LET name(k) == IF k = 2 THEN <<<<"char", k>>>> ELSE <<>>
      contents(k) == Data(k, sizes[k])
      index_size == Len(FlattenSeq([k \in DOMAIN sizes |-> name(k)])) + 3 * Len(sizes) - cut
      at(k) == 1 + index_size + Len(FlattenSeq([x \in 1 .. k - 1 |-> contents(x)]))
      entry(k) == name(k) \o <<<<"nul">>, <<"offset", at(k)>>, <<"size", sizes[k]>>>>
  IN  <<<<"header", Len(sizes), 1, index_size>>>>
        \o SubSeq(FlattenSeq([k \in DOMAIN sizes |-> entry(k)]), 1, index_size)
        \o FlattenSeq([k \in DOMAIN sizes |-> contents(k)])
        \o [x \in 1 .. rest |-> <<"rest", x>>]

Sizes(set, least, most) == UNION {[1..n -> set] : n \in least .. most}

Archives ==
  {Archive(s, 0, 0) : s \in Sizes({0, 1, 3, TooLong}, 0, 3)}
    \cup {Archive(s, 0, 1) : s \in Sizes({0, 2}, 0, 2)}
    \cup {Archive(s, 2, 0) : s \in Sizes({0, 2}, 1, 2)}

MCCalls == Archives \X [room : {0, 1, 3}, levels : {0, 1}]
=============================================================================
