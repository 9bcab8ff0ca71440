--------------------------- MODULE MC_ScrapeFront ---------------------------
(***************************************************************************)
(* The front end on every text of up to four words of a list that has the  *)
(* keywords, words that only begin like one, numbers on both sides of the  *)
(* largest integer, and blanks.  The integers are four bits wide.          *)
(***************************************************************************)
EXTENDS ScrapeFront, SequencesExt

Words == { <<"f", "n">>, <<"l", "e", "t", " ">>, <<"x">>, <<"m", "a", "t", "c", "h">>,
           <<"=">>, <<"7">>, <<"9">>, <<"f", "o">>, <<"l">>, <<"_">>, <<" ">> }

Texts == { FlattenSeq(ws) : ws \in UNION { [1 .. k -> Words] : k \in 0 .. 4 } }

=============================================================================
