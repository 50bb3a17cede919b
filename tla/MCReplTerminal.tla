-------------------------- MODULE MCReplTerminal --------------------------
(* A small terminal session: two tiles, two letters, short lines.           *)
EXTENDS ReplTerminal

MCTiles == {0, 1}
MCLetters == {"a", "b"}
MCCompletions == {<<"b", "a">>}
Long == [i \in 1 .. 30 |-> "t"] \o Newline
MCTexts == {<<>>, <<"t">> \o Newline, <<"t", "u">>, <<".", ".", ".">> \o Newline, Long}
===========================================================================
