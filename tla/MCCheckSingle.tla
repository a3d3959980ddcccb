---------------------------- MODULE MCCheckSingle ----------------------------
EXTENDS CheckSingleLinked

(* A put, an append, and gets of every value that two of these can give and   *)
(* of one that none can.                                                      *)
MCOperation ==
    {[op |-> "put", value |-> <<1>>, output |-> <<>>],
     [op |-> "append", value |-> <<2>>, output |-> <<>>]}
    \cup [op : {"get"}, value : {<<>>},
          output : {<<>>, <<1>>, <<2>>, <<1, 2>>, <<2, 2>>, <<2, 1>>}]
=============================================================================
