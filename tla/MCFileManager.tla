--------------------------- MODULE MCFileManager ----------------------------
EXTENDS FileManager, TLC

\* Two names and two levels: a directory with two entries beside a file.
CONSTANTS d, e
Alike == Permutations({d, e})
=============================================================================
