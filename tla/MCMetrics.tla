----------------------------- MODULE MCMetrics -----------------------------
(* Two connections at a time, and one scrape after the other. *)
EXTENDS Metrics
=============================================================================
