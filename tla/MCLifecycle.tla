------------------------------ MODULE MCLifecycle -----------------------------
(* One SplitsPlacer with one RU, and its Split, that come and go. *)
EXTENDS Lifecycle
===============================================================================
