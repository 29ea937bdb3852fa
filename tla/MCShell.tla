------------------------------ MODULE MCShell ------------------------------
(***************************************************************************)
(* A small instance of the shell: words of up to three symbols, numbers of *)
(* five bits, up to three words in a line.                                 *)
(***************************************************************************)
EXTENDS Shell

Words == {<<"k">>, <<"s">>, <<"c">>, <<"5">>, <<"6">>, <<"1">>, <<"1", "0">>,
          <<"0", "1">>, <<"0", "5">>, <<"0", "1", "0">>, <<"0", "x", "5">>,
          <<"0", "x", "A">>, <<"3", "7">>, <<"1", "x">>, <<"5", "5", "5", "5">>,
          <<"1", "1", "1", "1", "1">>}

MCNames == {<<"c">>}

Gap == <<" ">>

MCLines ==
  {<<>>, Gap} \cup Words
  \cup {<<"k">> \o Gap \o w : w \in Words}
  \cup {Gap \o <<"k">> \o Gap \o Gap \o <<"5">> \o Gap}
  \cup {<<"s">> \o Gap \o w : w \in {<<"c">>, <<"5">>, <<"5", "5", "5", "5">>}}
  \cup {v \o Gap \o w \o Gap \o x : v \in {<<"k">>, <<"5", "5", "5", "5">>},
          w \in {<<"6">>, <<"5", "5", "5", "5">>},
          x \in {<<"5">>, <<"1", "1", "1", "1", "1">>}}
=============================================================================
