----------------------------- MODULE MCService -----------------------------
(***************************************************************************)
(* A small instance of Service for TLC: one key, and one value, whose      *)
(* length has two digits, so that a cut in the length is possible; one     *)
(* process with a prompt writes and makes mistakes, the others, started    *)
(* for one command each, read and delete.                                  *)
(***************************************************************************)
EXTENDS Service, TLC

CONSTANTS p1, p2

Long == [i \in 1..10 |-> "b"]

Lines == p1 :> {<<"set", " ", " ", "k", " ">> \o Long,
                <<"PING">>,
                <<"GET", " ", "k", " ", "k">>,
                <<"EXISTS", "\r", "k">>}
      @@ p2 :> {<<"GET", " ", "k">>,
                <<" ", "DEL", "\t", "k", " ">>,
                <<"EXISTS", " ", "k">>,
                <<>>}

Values == {Long}
Keys   == {"k"}
=============================================================================
