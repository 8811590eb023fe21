--------------------------- MODULE MCQuayBuilder ----------------------------
(***************************************************************************)
(* Instances of QuayBuilder for TLC: the heartbeats beside a job of one    *)
(* tag, without a cache to prime.                                          *)
(***************************************************************************)
EXTENDS QuayBuilder

CONSTANT t1

MCNames == {t1}

MCJobs == {[tagNames |-> <<t1>>, pullToken |-> FALSE]}

=============================================================================
