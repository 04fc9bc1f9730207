---------------------------- MODULE MCChromecast ----------------------------
(* Chromecast for TLC: one device with two addresses, two ccs. *)
EXTENDS Chromecast
=============================================================================
