---------------------------- MODULE MCDirectory ----------------------------
(* Small instances of Directory: the lists published, over all accounts,    *)
(* are bounded by the sum of their versions, and one invite grows old.  Ids *)
(* are interchangeable, and so are codes.                                   *)
EXTENDS Directory, FiniteSetsExt, TLC
CONSTANTS a, b, c, i1, i2, MaxVersions

Interchangeable == Permutations(Id) \cup Permutations(Code)

BoundedNext ==
  /\ DirNext
  /\ Cardinality(lapsed' \cup purged') <= 1
  /\ MapThenSumSet(LAMBDA x : rosters'[x].version, Id) <= MaxVersions
BoundedSpec == DirInit /\ [][BoundedNext]_directoryVars
=============================================================================
