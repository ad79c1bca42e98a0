-------------------------------- MODULE MCTar -------------------------------
(* Calls of Tar for TLC: archives of up to two members.                    *)
EXTENDS Tar, SequencesExt

MaxContents == 3
MaxMembers == 2

(* Member j of an archive: a type, a size and whether its checksum is      *)
(* right.                                                                  *)
Kinds == [type : {"file", "other"}, size : 0 .. MaxContents, ok : {TRUE}]
           \cup [type : {"file"}, size : {MaxContents}, ok : {FALSE}]

Image(j, k) ==
  <<<<"head", j, k.type, k.size, IF k.ok THEN k.size ELSE k.size + 1>>>>
    \o [x \in 1 .. Block - 1 |-> <<"rest", j>>]
    \o [x \in 1 .. k.size |-> <<"data", j, x>>]
    \o [x \in 1 .. RoundUp(k.size) - k.size |-> Zero]

(* Archives that end with one of the given numbers of records of zeros.    *)
Archives(zeros) ==
  {FlattenSeq([j \in DOMAIN s |-> Image(j, s[j])]) \o [x \in 1 .. z * Block |-> Zero] :
     s \in UNION {[1..n -> Kinds] : n \in 1 .. MaxMembers}, z \in zeros}

(* As tar writes them, with two records of zeros or more, ...              *)
MCCalls == Archives({2, 3}) \X [room : {0, 1, 3}, levels : {0, 1}]
(* ... and with fewer as well.                                             *)
AnyEnd == Archives(0..3) \X [room : {0, 1, 3}, levels : {0, 1}]
=============================================================================
