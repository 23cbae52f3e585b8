-------------------------- MODULE MCPhraseMachine --------------------------
(* A list of five words with shared prefixes, one letter that is on no word,  *)
(* a gate of two and a limit of three words instead of 7 and 64, and pastes  *)
(* of up to two tokens, list words or not, repeated or not.                  *)
EXTENDS PhraseMachine

MCWords == { <<"a","b","a">>, <<"a","b","b","a">>, <<"a","c">>, <<"b","a">>, <<"b","b">> }

MCPastes ==
  {<<>>, <<<<"z">>>>, <<<<"b","a">>, <<"z">>>>}
    \union {<<w>> : w \in MCWords} \union {<<v, w>> : v, w \in {<<"a","c">>, <<"b","a">>, <<"b","b">>}}
=============================================================================
