--------------------------- MODULE MCPluginLoader ----------------------------
(* TLC instance of PluginLoader. *)
EXTENDS PluginLoader
=============================================================================
