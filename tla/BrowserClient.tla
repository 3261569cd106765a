---------------------------- MODULE BrowserClient ----------------------------
(* The browser side of job bindings (client/src): the hooks of React        *)
(* components, the connection each of them uses, and the cache that lets    *)
(* the hooks for one spec share a connection and that closes it five        *)
(* seconds after the hook that made it has gone.                            *)
EXTENDS SocketLink, FiniteSets

CONSTANTS
  Keys,        \* DEFERRED_CLOSED_CONN_CACHE keys: a page and a spec
  PageOf,      \* [Keys -> Pages]
  Hooks,       \* mounted components that call useJobBinding and useOutput
  KeyOf,       \* [Hooks -> Keys]
  AskedJob,    \* [Hooks -> Jobs \union {NoJob}] their jobId parameter
  ConnBound,   \* connections made in a behaviour
  Visits       \* set of [Hooks -> Nat]: how often each hook is mounted

ASSUME ClientAssumption ==
  /\ PageOf \in [Keys -> Pages]
  /\ KeyOf \in [Hooks -> Keys]
  /\ AskedJob \in [Hooks -> Jobs \union {NoJob}]
  /\ IsFiniteSet(Hooks)
  /\ ConnBound \in Nat /\ \A v \in Visits : v \in [Hooks -> Nat]

VARIABLES
  hook,    \* [Hooks -> mounted?, clientRef, deferredCloseRef set?, subscribed?]
  visits,  \* [Hooks -> how often it will be mounted again]
  conn,    \* JobSocketIOConnection promises, by number
  cache    \* DEFERRED_CLOSED_CONN_CACHE

clientVars == <<hook, visits, conn, cache>>

Conns == 1 .. ConnBound
NoConn == 0
Page(h) == PageOf[KeyOf[h]]

Unmounted == [on |-> FALSE, conn |-> NoConn, owner |-> FALSE, subbed |-> FALSE]
Unused == [st |-> "unused", job |-> NoJob, key |-> NoConn, asked |-> NoJob, timer |-> "none"]
NoEntry == [st |-> "none", conn |-> NoConn]
Entry(st, c) == [st |-> st, conn |-> c]

ClientInit ==
  /\ hook = [h \in Hooks |-> Unmounted]
  /\ visits \in Visits
  /\ conn = [c \in Conns |-> Unused]
  /\ cache = [k \in Keys |-> NoEntry]

-----------------------------------------------------------------------------
(* useJobBinding's effect *)

Mounts(h, c, owner) ==
  /\ ~hook[h].on /\ link[Page(h)] = "up" /\ visits[h] > 0
  /\ visits' = [visits EXCEPT ![h] = @ - 1]
  /\ hook' = [hook EXCEPT ![h] = [on |-> TRUE, conn |-> c, owner |-> owner, subbed |-> FALSE]]
  /\ UNCHANGED <<link, toPage>>

\* No entry: a job is requested and its connection entered in the cache.
MountFirst(h) ==
  \E c \in Conns :
    /\ cache[KeyOf[h]].st = "none"
    /\ conn[c].st = "unused" /\ \A d \in 1 .. c - 1 : conn[d].st # "unused"
    /\ Mounts(h, c, TRUE)
    /\ conn' = [conn EXCEPT ![c] = [st |-> "connecting", job |-> NoJob, key |-> KeyOf[h],
                                    asked |-> AskedJob[h], timer |-> "none"]]
    /\ cache' = [cache EXCEPT ![KeyOf[h]] = Entry("connected", c)]
    /\ Emit(Page(h), <<BindMsg(c, AskedJob[h])>>)

\* The connection is shared; only its maker's cleanup closes it.
MountShared(h) ==
  /\ cache[KeyOf[h]].st = "connected"
  /\ Mounts(h, cache[KeyOf[h]].conn, FALSE)
  /\ UNCHANGED <<conn, cache, toServer>>

\* cancelClose: too late for a timer whose callback already waits for the answer.
MountCancelsClose(h) ==
  /\ cache[KeyOf[h]].st = "closing"
  /\ Mounts(h, cache[KeyOf[h]].conn, FALSE)
  /\ conn' = [conn EXCEPT ![cache[KeyOf[h]].conn].timer = IF @ = "armed" THEN "none" ELSE @]
  /\ cache' = [cache EXCEPT ![KeyOf[h]].st = "connected"]
  /\ UNCHANGED toServer

\* The cleanups: the stream's subscriber is taken back, and the maker of the
\* connection puts a closing entry in the cache and arms the timer.
Unmount(h) ==
  LET c == hook[h].conn IN
  /\ hook[h].on /\ link[Page(h)] = "up"
  /\ hook' = [hook EXCEPT ![h] = Unmounted]
  /\ IF hook[h].subbed THEN Emit(Page(h), <<JobMsg("unsub", conn[c].job)>>)
     ELSE UNCHANGED toServer
  /\ IF hook[h].owner
     THEN /\ conn' = [conn EXCEPT ![c].timer = "armed"]
          /\ cache' = [cache EXCEPT ![KeyOf[h]] = Entry("closing", c)]
     ELSE UNCHANGED <<conn, cache>>
  /\ UNCHANGED <<link, toPage, visits>>

\* Mutant: the entry goes, the connection stays open.
DropEntry(c) ==
  /\ conn' = [conn EXCEPT ![c].timer = "none"]
  /\ cache' = [cache EXCEPT ![conn[c].key] = NoEntry]
  /\ UNCHANGED toServer

\* close(), and the entry of the cache is removed, whatever it has become.
Close(c) ==
  /\ conn' = [conn EXCEPT ![c].st = "closed", ![c].timer = "none"]
  /\ cache' = [cache EXCEPT ![conn[c].key] = NoEntry]
  /\ Emit(PageOf[conn[c].key], <<JobMsg("unbind", conn[c].job)>>)

\* The timer of initiateDeferredClose fires; its callback awaits the answer.
TimerFires(c) ==
  /\ conn[c].timer = "armed" /\ link[PageOf[conn[c].key]] = "up"
  /\ IF conn[c].st = "open" THEN Close(c)
     ELSE /\ conn' = [conn EXCEPT ![c].timer = "fired"]
          /\ UNCHANGED <<cache, toServer>>
  /\ UNCHANGED <<link, toPage, hook, visits>>

-----------------------------------------------------------------------------
\* MSG_JOB_INFO: the request with that identifier resolves to a connection; a
\* close that waited for it follows.
JobInfo(p) ==
  /\ link[p] = "up" /\ toPage[p] # <<>>
  /\ toPage' = [toPage EXCEPT ![p] = Tail(@)]
  /\ LET c == Head(toPage[p]).req  j == Head(toPage[p]).job IN
     IF conn[c].timer = "fired"
     THEN /\ conn' = [conn EXCEPT ![c].st = "closed", ![c].timer = "none", ![c].job = j]
          /\ cache' = [cache EXCEPT ![conn[c].key] = NoEntry]
          /\ Emit(p, <<JobMsg("unbind", j)>>)
     ELSE /\ conn' = [conn EXCEPT ![c].st = "open", ![c].job = j]
          /\ UNCHANGED <<cache, toServer>>
  /\ UNCHANGED <<link, hook, visits>>

\* useStream's effect, once the hook knows the job: it looks at the job id
\* only, not at whether the connection has been closed since.
Subscribe(h) ==
  /\ hook[h].on /\ ~hook[h].subbed /\ link[Page(h)] = "up"
  /\ conn[hook[h].conn].job # NoJob
  /\ hook' = [hook EXCEPT ![h].subbed = TRUE]
  /\ Emit(Page(h), <<JobMsg("sub", conn[hook[h].conn].job)>>)
  /\ UNCHANGED <<link, toPage, visits, conn, cache>>

\* The page is left, or its connection breaks.
LosePage(p) ==
  /\ LoseLink(p)
  /\ hook' = [h \in Hooks |-> IF Page(h) = p THEN Unmounted ELSE hook[h]]
  /\ cache' = [k \in Keys |-> IF PageOf[k] = p THEN NoEntry ELSE cache[k]]
  /\ conn' = [c \in Conns |->
       IF conn[c].st \notin {"unused", "closed"} /\ PageOf[conn[c].key] = p
       THEN [conn[c] EXCEPT !.st = "closed", !.timer = "none"] ELSE conn[c]]
  /\ UNCHANGED visits

\* What a page does of its own accord: timers fire, answers are handled,
\* effects run; and the fairness of its event loop.
PageReacts(p) ==
  \/ \E c \in Conns : conn[c].st # "unused" /\ PageOf[conn[c].key] = p /\ TimerFires(c)
  \/ JobInfo(p)
  \/ \E h \in Hooks : Page(h) = p /\ Subscribe(h)

ClientFairness == \A p \in Pages : WF_<<linkVars, clientVars>>(PageReacts(p))
=============================================================================
