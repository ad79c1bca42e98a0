-------------------------------- MODULE MCIco -------------------------------
(* Calls of Ico for TLC: icons of up to two images.                        *)
EXTENDS Ico, SequencesExt

Kinds == [kind : {"png", "dib", "data"}, bytes : {1, 3}, is_256 : {TRUE}]
           \cup [kind : {"dib"}, bytes : {2}, is_256 : {FALSE}]

(* An icon of these images, with gaps in front of them, its directory      *)
(* sorted or not.                                                          *)
Icon(images, gap, backwards) ==
  LET n == Len(images)
      cells(k) == [x \in 1..gap |-> <<"gap", k>>]
                    \o [x \in 1 .. images[k].bytes |-> <<images[k].kind, k, x>>]
      at(k) == 1 + n + gap + Len(FlattenSeq([x \in 1 .. k - 1 |-> cells(x)]))
      entry(k) == <<"entry", [name |-> k, offset |-> at(k), bytes |-> images[k].bytes,
                              is_256 |-> images[k].is_256]>>
  IN  <<<<"ico", n>>>> \o [k \in 1..n |-> entry(IF backwards THEN n + 1 - k ELSE k)]
        \o FlattenSeq([k \in 1..n |-> cells(k)])

Icons ==
  {Icon(images, gap, backwards) : images \in UNION {[1..n -> Kinds] : n \in 0..2},
                                  gap \in {0, 1}, backwards \in BOOLEAN}

CutOff == {SubSeq(Icon(images, 0, FALSE), 1, 2) : images \in [1..1 -> Kinds]}

MCCalls == (Icons \cup CutOff) \X [room : {0, 1, 3}]
=============================================================================
