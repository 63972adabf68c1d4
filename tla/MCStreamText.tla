---------------------------- MODULE MCStreamText -----------------------------
(* StreamText with a vocabulary of single bytes, a marker that arrives with  *)
(* text around it, and glyphs of two and four bytes, whole and in pieces.    *)
EXTENDS StreamText

MCTokens == { <<"letter">>, <<"blank">>, <<"opener">>, <<"closer">>,
              <<"closer", "letter", "closer", "blank">>,
              <<"lead2">>, <<"lead4">>, <<"cont">>, <<"cont", "cont", "cont">>,
              <<"lead2", "cont">> }
=============================================================================
