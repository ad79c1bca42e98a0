------------------------------- MODULE MCJson -------------------------------
(* Calls of Json for TLC: objects of a few numbers and words.              *)
EXTENDS Json

(* With zeros, halves, negative numbers and those with an integer nearby.  *)
Floats == {<<"float", n>> : n \in {0, 1, 5, 33, 50, 95, 99, 101, 250, 333, 399, 500, 749,
                                  -1, -50, -96, -299, -333, -850}}
Whole == {<<"int", 3>>, <<"token", "word">>}

MemberOf(key, v) == <<v[1], key, v[2]>>

Objects ==
  {<<MemberOf(1, v)>> : v \in Floats}
    \cup {<<MemberOf(k, v), <<"comment">>, MemberOf(2, w)>> : k \in 1..3, v \in Floats, w \in Whole}
    \cup {<<<<"space">>, MemberOf(2, v), MemberOf(k, w), <<"space">>>> :
            k \in 1..2, v \in {<<"float", 95>>, <<"int", 1>>}, w \in Floats}
    \cup {<<MemberOf(1, <<"float", 100>>), <<"garbage">>>>, <<<<"space">>>>}

MCCalls == Objects \X [room : {0, 2}, tolerance : {0, 1, 5, 10}]

(* A number that is an integer, one more than the largest.                 *)
Huge ==
  {<<MemberOf(1, <<"float", n>>), <<"comment">>, MemberOf(2, <<"float", m>>)>> :
     n \in {700, 750, 800, 900}, m \in {-700, -800}} \X [room : {0, 2}, tolerance : {0}]
=============================================================================
