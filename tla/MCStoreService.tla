--------------------------- MODULE MCStoreService ---------------------------
(* StoreService on two exported calls.                                      *)
EXTENDS StoreService

CONSTANTS t1, t2, i1, i2

OneInstance == t1 :> i1 @@ t2 :> i1
=============================================================================
