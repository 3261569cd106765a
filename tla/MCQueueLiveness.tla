--------------------------- MODULE MCQueueLiveness ---------------------------
(* One specification for the liveness of QueueService: behaviours in which   *)
(* streams may break but only one job is added, once, and behaviours in      *)
(* which none breaks.  Ids are only compared for equality, so the first call *)
(* is TheCall and adds TheJob (under symmetry, TLC cannot check liveness),   *)
(* and at most TheWorker boots before it.                                    *)
EXTENDS QueueService

CONSTANTS TheJob, TheCall, TheWorker

VARIABLE breaks

OnlyTheCall ==
  /\ waiting' \subseteq {TheJob}
  /\ \A c \in Calls \ {TheCall} : UNCHANGED call[c]

MCInit ==
  /\ Init /\ breaks \in BOOLEAN
  /\ \A w \in Workers \ {TheWorker} : server[w] = "unborn"
MCNext ==
  /\ Next /\ UNCHANGED breaks
  /\ breaks \/ call[TheCall].pc = "idle" => OnlyTheCall
  /\ ~breaks => UNCHANGED conn
MCSpec == MCInit /\ [][MCNext]_<<vars, breaks>> /\ Fairness

\* Every added job is run and settled while streams stay up (QueueService).
AddedJobSettlesWhileUp == ~breaks => AddedJobSettles
=============================================================================
