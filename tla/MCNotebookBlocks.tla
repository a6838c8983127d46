--------------------------- MODULE MCNotebookBlocks ---------------------------
(* Small instances of NotebookBlocks.                                      *)
EXTENDS NotebookBlocks, TLC

CONSTANTS b1, b2, b3, c1, c2, w1, w2

MCThreeIds == {b1, b2, b3}
MCTwoIds == {b1, b2}
MCOneContent == {Blank, c1}
MCTwoContents == {Blank, c1, c2}
MCTwoWriters == {w1, w2}
MCSymmetry ==
  Permutations({b1, b2, b3}) \cup Permutations({c1, c2}) \cup Permutations({w1, w2})
=============================================================================
