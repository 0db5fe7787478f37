---------------------------- MODULE MCCollector -----------------------------
(* Collector for TLC.                                                        *)
EXTENDS Collector
=============================================================================
