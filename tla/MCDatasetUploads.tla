-------------------------- MODULE MCDatasetUploads --------------------------
(* Two datasets, one upload session and two clients.  A body is its size:  *)
(* 1 is smaller than a part must be, 2 is large enough, 3 is too large.    *)
EXTENDS DatasetUploads, TLC

MCContents == {<<>>, <<1>>}
MCDigests == {NoDigest, <<2, 1>>}
MCSize(b) == b
ClientSymmetry == Permutations(Clients)
=============================================================================
