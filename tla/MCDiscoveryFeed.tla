--------------------------- MODULE MCDiscoveryFeed ---------------------------
(* TLC instance of DiscoveryFeed. *)
EXTENDS DiscoveryFeed
=============================================================================
