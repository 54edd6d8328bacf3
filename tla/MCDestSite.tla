---------------------------- MODULE MCDestSite ----------------------------
(***************************************************************************)
(* Model-checking instance of DestSite: the constants the .cfg files give  *)
(* as definitions.                                                         *)
(***************************************************************************)
EXTENDS DestSite, TLC

\* Peers that answer every command: no connection-level I/O error.
AnsweringPeer == {"ok", "transient", "permanent"}

\* Peers that may also drop the connection mid-transaction.
DroppingPeer == {"ok", "transient", "permanent", "io"}
\* Dispatcher ids and message ids are interchangeable: every action picks
\* them with \E, never with CHOOSE.
Symmetry == Permutations(Dispatchers) \cup Permutations(Msgs)

=============================================================================
