--------------------------- MODULE MCInmemBroker ---------------------------
(* Small instances of InmemBroker.                                         *)
EXTENDS InmemBroker

(* <<"a","x">> is reached literally and through both patterns; nobody ever *)
(* asks for <<"b">>.                                                       *)
MCPublished == {<<"a", "x">>, <<"b">>}
MCTopicSets ==
    { {<<"a", "x">>, <<"a", "*">>},     \* a literal and a pattern, one message
      {<<"a", ">">>, <<"c">>} }         \* a pattern and another literal
=============================================================================
