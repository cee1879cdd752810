--------------------------- MODULE MCTransactions ---------------------------
(***************************************************************************)
(* The transactions for TLC.                                               *)
(***************************************************************************)
EXTENDS Transactions

Bufs2 == 0..1
Bufs3 == 0..2
Bufs4 == 0..3

Loads == {"SUCCESS", "OFFLINE"}
LoadsOrNot == {"SUCCESS", "ERROR"}

AllPosts == {"OK", "LOST", "FAIL"}
NothingLost == {"OK", "FAIL"}
PostsWork == {"OK"}

KvOnly == {"kv"}
KvOrNull == {"kv", "null"}

=============================================================================
