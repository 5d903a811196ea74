----------------------------- MODULE MCTxnProxy -----------------------------
(***************************************************************************)
(* Model-checking instances of TxnProxy, and what the proxy's own comment  *)
(* says of a foreign write, which the code does not always keep.           *)
(***************************************************************************)
EXTENDS TxnProxy

\* "every other write blocks on `_txn_done` until the transaction ends, so it can never
\* be folded in" (sqlite_proxy_server.py, transaction state, P1).
NeverFolded == folded = {}
=============================================================================
