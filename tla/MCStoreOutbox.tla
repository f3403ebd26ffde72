---------------------------- MODULE MCStoreOutbox ----------------------------
(* StoreOutbox for TLC: ids, contents and flushes are model values. *)
EXTENDS StoreOutbox
=============================================================================
