--------------------------- MODULE MCDataTransfer ---------------------------
(* An instance of DataTransfer for TLC: a write of several bursts, shorter *)
(* ones, one of which may come whole with its command, and a read of three *)
(* segments that ends before its expected length.  The last write has the  *)
(* tag of the first.                                                       *)
EXTENDS DataTransfer, TLC

MixedWrite    == <<TRUE, TRUE, FALSE, TRUE, TRUE>>
MixedLength   == <<5, 2, 6, 2, 1>>
MixedTag      == <<"t1", "t2", "t3", "t4", "t1">>
MixedProvided == <<0, 0, 5, 0, 0>>
=============================================================================
