-------------------------------- MODULE MCLua -------------------------------
(* Calls of Lua for TLC: programs of up to four functions.                 *)
EXTENDS Lua

Functions(protos) ==
  [source : {0, 2}, code : {0, 1}, prototypes : {protos},
   constants : {<<>>, <<"nil", "string">>, <<"boolean", "number">>},
   locals : {<<>>, <<1, 0>>}, upvalues : {<<>>, <<2>>}]

Simple(n, protos) ==
  [source |-> n, code |-> 1, constants |-> <<"string">>, prototypes |-> protos,
   locals |-> <<1>>, upvalues |-> <<1, 1>>]

Bare == [source |-> 0, code |-> 0, constants |-> <<>>, prototypes |-> <<>>,
         locals |-> <<>>, upvalues |-> <<>>]

Programs ==
  {<<f>> : f \in Functions(<<>>)}
    \cup {<<f, Simple(1, <<>>)>> : f \in Functions(<<2>>)}
    \cup {<<f, Simple(1, <<4>>), Simple(2, <<>>), Bare>> : f \in Functions(<<2, 3>>)}

CallsWithRoom(rooms) ==
  {<<Dump(p, TRUE), [room |-> r, program |-> p]>> : p \in Programs, r \in rooms}

(* Programs that are files of their own, ...                               *)
MCCalls == CallsWithRoom({0})

(* ... and programs inside a file that became smaller in front of them.    *)
Inside == CallsWithRoom({1, 2})
=============================================================================
