---------------------------- MODULE MCRateWindow ----------------------------
(* The observed rate limiter with the constants of MCRateLimit. *)
EXTENDS RateWindow, MCRateLimit

\* As MCView, for the observed limiter.
MCWView == <<MCView, winVars>>
=============================================================================
