-------------------------- MODULE MCPluginCatalog --------------------------
(***************************************************************************)
(* The plugin catalog on a small instance.                                  *)
(***************************************************************************)
EXTENDS PluginCatalog, TLC

CONSTANTS r1, r2, urlA, urlB

\* The Admin API starts before the source is created, or over an enabled one.
AtStart == {None, [generation |-> 1, url |-> urlA, enabled |-> TRUE]}
=============================================================================
