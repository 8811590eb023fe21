----------------------------- MODULE MCBuilder ------------------------------
(***************************************************************************)
(* Instances of Builder for TLC.                                           *)
(***************************************************************************)
EXTENDS Builder

CONSTANTS t1, t2, other

(* Two tags, and a reference that is no tag of the job.  The base image    *)
(* and the cached tag are any of them.                                     *)
MCNames == {t1, t2, other}

(* One job is enough where the number of tags makes no difference. *)
MCFewNames == {t1, other}

MCOneJob == {[tagNames |-> <<t1>>, pullToken |-> TRUE]}

(* Without a token nothing is pulled for the cache: one such job is enough. *)
MCJobs == [tagNames : {<<>>, <<t1>>, <<t2, t1>>}, pullToken : {TRUE}]
            \cup [tagNames : {<<t1>>}, pullToken : {FALSE}]

=============================================================================
