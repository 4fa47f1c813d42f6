---------------------------- MODULE MCRootSearch ----------------------------
(* Small instances of RootSearch for TLC.                                  *)
EXTENDS RootSearch

ThreeMoves == {1, 2, 3}
Apart == {-3, 0, 1}
FarApart == {-3, 1}
=============================================================================
