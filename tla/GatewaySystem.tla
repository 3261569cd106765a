---------------------------- MODULE GatewaySystem ----------------------------
(* Pages and the gateway together, over their socket.io connections.         *)
EXTENDS Gateway, BrowserClient

vars == <<linkVars, serverVars, clientVars>>

Init == LinkInit /\ GatewayInit /\ ClientInit

\* A step of the gateway; the pages see its answers only.
ServerSide(A) == A /\ UNCHANGED clientVars
\* A step of a page; the gateway sees its messages only.
PageSide(A) == A /\ UNCHANGED serverVars

Next ==
  \/ \E p \in Pages :
       \/ ServerSide(Unheard(p))
       \/ \E m \in Incoming(p) :
            \/ ServerSide(ReceiveBind(p, m)) \/ ServerSide(ReceiveSub(p, m))
            \/ ServerSide(ReceiveUnsub(p, m)) \/ ServerSide(ReceiveUnbind(p, m))
       \/ ServerSide(HearDisconnect(p))
       \/ \E m \in binding[p] : ServerSide(Bind(p, m))
       \/ \E j \in Jobs : ServerSide(Queried(p, j))
       \/ \E r \in leaving[p] : ServerSide(TerminateTag(p, r)) \/ ServerSide(FinishLeaving(p, r))
  \/ \E h \in Hooks :
       \/ PageSide(MountFirst(h)) \/ PageSide(MountShared(h)) \/ PageSide(MountCancelsClose(h))
       \/ PageSide(Unmount(h)) \/ PageSide(Subscribe(h))
  \/ \E c \in Conns : PageSide(TimerFires(c))
  \/ \E p \in Pages : PageSide(JobInfo(p)) \/ PageSide(LosePage(p))

Fairness == GatewayFairness /\ ClientFairness
Spec == Init /\ [][Next]_vars /\ Fairness

-----------------------------------------------------------------------------
\* A page holds at most one job per spec: a hook that comes while another
\* hook's connection is made, open or about to be closed shares it.
OneJobPerKey ==
  \A c, d \in Conns :
    /\ conn[c].st \in {"connecting", "open"} /\ conn[d].st \in {"connecting", "open"}
    /\ conn[c].key = conn[d].key
    => c = d

\* As long as the page that had a job enqueued is there and has not closed its
\* connection, the job's inputs stay open, whoever else joins the job and
\* leaves it.  (A second connection of the same page to the same job shares the
\* session, and its close ends the job under the first.)
CreatorKeepsJob ==
  \A c \in Conns :
    /\ conn[c].st = "open" /\ conn[c].asked = NoJob /\ link[PageOf[conn[c].key]] = "up"
    /\ \A d \in Conns \ {c} : conn[d].job = conn[c].job => PageOf[conn[d].key] # PageOf[conn[c].key]
    => ended[conn[c].job] = {}

\* The hooks of page p that have subscribed to job j's output.
Subscribed(p, j) ==
  {h \in Hooks : Page(h) = p /\ hook[h].subbed /\ conn[hook[h].conn].job = j}

\* Once all messages have been handled, the gateway transmits a job's output to
\* a page exactly as long as the page has subscribers, however the subscribing
\* and unsubscribing of hooks met the query for past values.
SubsCounted ==
  \A p \in Pages, j \in Jobs :
    /\ link[p] = "up" /\ toServer[p] = <<>> /\ responds[p]
    /\ sub[p][j].st \in {"none", "live"}
    => /\ sub[p][j].count = Cardinality(Subscribed(p, j))
       /\ (sub[p][j].st = "live") = (Subscribed(p, j) # {})

\* A page whose connection breaks leaves the sessions of every job it is bound
\* to, if none of its bind requests is still being answered.  (One that is
\* answered later binds a socket that is gone, for ever.)
SessionsLeave ==
  \A p \in Pages :
    (/\ link[p] = "lost" /\ binding[p] = {}
     /\ \A i \in DOMAIN toServer[p] : toServer[p][i].kind # "bind")
    ~> \A j \in Jobs : p \notin sessions[j]

\* When the last session has left a job, every input of it is terminated: the
\* job does not wait for ever for data nobody can feed.
LastLeaveEnds ==
  \A j \in Jobs :
    (j \in entered /\ sessions[j] = {}) ~> (ended[j] = InputTags \/ sessions[j] # {})

\* A page does not wait for ever for a job it asked for, unless its connection
\* breaks or an unbind of another job has taken the page's listeners off.
Waiting(p) == \E c \in Conns : conn[c].st = "connecting" /\ PageOf[conn[c].key] = p
MountedConnects == \A p \in Pages : Waiting(p) ~> ~Waiting(p) \/ ~responds[p]
=============================================================================
