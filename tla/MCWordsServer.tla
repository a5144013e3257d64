---------------------------- MODULE MCWordsServer ----------------------------
(***************************************************************************)
(* A small instance of WordsServer for TLC.                                 *)
(***************************************************************************)
EXTENDS WordsServer

CONSTANTS c1, c2

\* Two files of words over two letters, which may be removed.
Rewritten == {<<<<2>>, <<1, 2>>, <<1>>>>, <<<<1, 2>>, <<1, 1, 1>>, <<1>>>>, NoFile}

SmallPrefixes == {<<>>, <<1>>, <<2>>, <<1, 2>>}

\* The first client asks twice, the second connects and closes only.
OneAsks == [c \in Clients |-> IF c = c1 THEN 2 ELSE 0]
=============================================================================
