----------------------------- MODULE SocketLink -----------------------------
(* The socket.io connections between pages and the gateway                  *)
(* (gateway/src/initJobBinding.ts, client/src/JobSocketIOClient.ts): one    *)
(* socket per page, whatever number of jobs the page binds; messages arrive *)
(* in order.  A socket that broke is gone: what a page does after a         *)
(* reconnect, under a new socket id, is not modelled.                       *)
EXTENDS Naturals, SequencesExt

CONSTANTS
  Pages,   \* browser pages, each with its socket
  Jobs,    \* ids of jobs
  NoJob    \* no job id given

ASSUME LinkAssumption == NoJob \notin Jobs

VARIABLES
  link,      \* [Pages -> "up", "lost" (the gateway has not noticed) or "gone"]
  toServer,  \* [Pages -> messages on their way to the gateway]
  toPage     \* [Pages -> MSG_JOB_INFO answers on their way to the page]

linkVars == <<link, toServer, toPage>>

\* A bind request carries the id its answer will carry, and perhaps a job id.
BindMsg(req, j) == [kind |-> "bind", req |-> req, job |-> j]
JobMsg(kind, j) == [kind |-> kind, req |-> 0, job |-> j]

LinkInit ==
  /\ link = [p \in Pages |-> "up"]
  /\ toServer = [p \in Pages |-> <<>>]
  /\ toPage = [p \in Pages |-> <<>>]

\* The page sends the messages ms, in order.
Emit(p, ms) == toServer' = [toServer EXCEPT ![p] = @ \o ms]

\* The page is left, or its connection breaks; the last messages may be lost.
LoseLink(p) ==
  /\ link[p] = "up"
  /\ link' = [link EXCEPT ![p] = "lost"]
  /\ \E n \in 0 .. Len(toServer[p]) :
       toServer' = [toServer EXCEPT ![p] = SubSeq(@, 1, n)]
  /\ toPage' = [toPage EXCEPT ![p] = <<>>]
=============================================================================
