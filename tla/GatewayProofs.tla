----------------------------- MODULE GatewayProofs -----------------------------
(* What pages and the gateway keep together, for any number of pages, specs, *)
(* hooks, connections and jobs: a page holds one job per spec, a job stays   *)
(* open as long as the page that had it enqueued does not let it go, and the *)
(* gateway's count of a page's subscribers is right.                         *)
EXTENDS GatewaySystem, SequenceTheorems, FiniteSetTheorems, TLAPS

Msgs == [kind : {"bind", "sub", "unsub", "unbind"}, req : Nat, job : Jobs \union {NoJob}]
ConnRecs == [st : {"unused", "connecting", "open", "closed"}, job : Jobs \union {NoJob},
             key : Keys \union {NoConn}, asked : Jobs \union {NoJob},
             timer : {"none", "armed", "fired"}]
HookRecs == [on : BOOLEAN, conn : Conns \union {NoConn}, owner : BOOLEAN, subbed : BOOLEAN]
EntryRecs == [st : {"none", "connected", "closing"}, conn : Conns \union {NoConn}]

MailTypes ==
  /\ link \in [Pages -> {"up", "lost", "gone"}]
  /\ toServer \in [Pages -> Seq(Msgs)] /\ toPage \in [Pages -> Seq(Msgs)]
  /\ binding \in [Pages -> SUBSET Msgs]

ClientTypes ==
  /\ hook \in [Hooks -> HookRecs] /\ conn \in [Conns -> ConnRecs] /\ cache \in [Keys -> EntryRecs]
  /\ \A c \in Conns : conn[c].st # "unused" => conn[c].key \in Keys
  /\ \A c \in Conns : conn[c].st = "unused" => conn[c] = Unused
  /\ \A h \in Hooks : hook[h].on => /\ hook[h].conn \in Conns
                                    /\ conn[hook[h].conn].st # "unused"
                                    /\ conn[hook[h].conn].key = KeyOf[h]
  /\ \A k \in Keys : cache[k].st # "none" => /\ cache[k].conn \in Conns
                                             /\ conn[cache[k].conn].st # "unused"
                                             /\ conn[cache[k].conn].key = k

ServerTypes ==
  /\ started \subseteq Jobs
  /\ sessions = [j \in Jobs |-> sessions[j]] /\ ended = [j \in Jobs |-> ended[j]]
  /\ jobFns \in [Pages -> SUBSET Jobs]
  /\ leaving \in [Pages -> SUBSET [job : Jobs, todo : SUBSET InputTags,
                                   cause : {"unbind", "disconnect"}]]

-----------------------------------------------------------------------------
(* Sequences of messages *)

LEMMA AppendOne ==
  ASSUME NEW S, NEW s \in Seq(S), NEW x \in S
  PROVE  /\ s \o <<x>> = Append(s, x) /\ Append(s, x) \in Seq(S)
         /\ \A i \in DOMAIN Append(s, x) :
              \/ i \in DOMAIN s /\ Append(s, x)[i] = s[i]
              \/ i = Len(s) + 1 /\ i \notin DOMAIN s /\ Append(s, x)[i] = x
<1>1. /\ Append(s, x) \in Seq(S) /\ Len(Append(s, x)) = Len(s) + 1 /\ Len(s) \in Nat
      /\ \A i \in 1 .. Len(s) : Append(s, x)[i] = s[i]
      /\ Append(s, x)[Len(s) + 1] = x
  BY AppendProperties
<1>2. s \o <<x>> = Append(s, x)
  BY AppendIsConcat
<1>3. DOMAIN s = 1 .. Len(s) /\ DOMAIN Append(s, x) = 1 .. Len(s) + 1
  BY <1>1
<1> QED BY <1>1, <1>2, <1>3

LEMMA TailOf ==
  ASSUME NEW S, NEW s \in Seq(S), s # <<>>
  PROVE  /\ Tail(s) \in Seq(S) /\ Head(s) \in S /\ 1 \in DOMAIN s /\ Head(s) = s[1]
         /\ \A i \in DOMAIN Tail(s) : i + 1 \in DOMAIN s /\ i + 1 # 1 /\ Tail(s)[i] = s[i + 1]
         /\ DOMAIN Tail(s) \subseteq Nat
<1>1. Len(s) \in Nat \ {0} /\ DOMAIN s = 1 .. Len(s)
  OBVIOUS
<1>2. Tail(s) \in Seq(S) /\ DOMAIN Tail(s) = 1 .. Len(s) - 1
  OBVIOUS
<1>3. \A i \in 1 .. Len(s) - 1 : Tail(s)[i] = s[i + 1]
  BY <1>1
<1>4. Head(s) = s[1] /\ Head(s) \in S
  OBVIOUS
<1> QED BY <1>1, <1>2, <1>3, <1>4

-----------------------------------------------------------------------------
(* The bind requests of a page and their answers: S are its messages, B the  *)
(* requests being answered, P the answers on their way.                      *)

Asks(S, B) == {S[i] : i \in {n \in DOMAIN S : S[n].kind = "bind"}} \union B
Reqs(S, B, P) == {x.req : x \in Asks(S, B)} \union {P[i].req : i \in DOMAIN P}

\* No two are of one request.
AreDistinct(S, B, P) ==
  /\ \A i, j \in DOMAIN S : S[i].kind = "bind" /\ S[j].kind = "bind" /\ S[i].req = S[j].req => i = j
  /\ \A i \in DOMAIN S, m \in B : S[i].kind = "bind" => S[i].req # m.req
  /\ \A i \in DOMAIN S, j \in DOMAIN P : S[i].kind = "bind" => S[i].req # P[j].req
  /\ \A m, n \in B : m.req = n.req => m = n
  /\ \A m \in B, j \in DOMAIN P : m.req # P[j].req
  /\ \A i, j \in DOMAIN P : P[i].req = P[j].req => i = j

LEMMA SendOther ==
  ASSUME NEW S \in Seq(Msgs), NEW B, NEW P, NEW x \in Msgs, x.kind # "bind", AreDistinct(S, B, P)
  PROVE  /\ AreDistinct(Append(S, x), B, P) /\ Asks(Append(S, x), B) \subseteq Asks(S, B)
         /\ Reqs(Append(S, x), B, P) \subseteq Reqs(S, B, P)
<1>1. AreDistinct(Append(S, x), B, P)
  BY AppendOne DEF AreDistinct
<1>2. Asks(Append(S, x), B) \subseteq Asks(S, B)
  BY AppendOne DEF Asks
<1> QED BY <1>1, <1>2 DEF Reqs

LEMMA SendBind ==
  ASSUME NEW S \in Seq(Msgs), NEW B, NEW P, NEW x \in Msgs, x.req \notin Reqs(S, B, P),
         AreDistinct(S, B, P)
  PROVE  /\ AreDistinct(Append(S, x), B, P) /\ Asks(Append(S, x), B) \subseteq Asks(S, B) \union {x}
         /\ Reqs(Append(S, x), B, P) \subseteq Reqs(S, B, P) \union {x.req}
<1>1. /\ \A i \in DOMAIN S : S[i].kind = "bind" => S[i].req # x.req
      /\ \A m \in B : m.req # x.req
      /\ \A i \in DOMAIN P : P[i].req # x.req
  BY DEF Reqs, Asks
<1>2. AreDistinct(Append(S, x), B, P)
  BY <1>1, AppendOne DEF AreDistinct
<1>3. Asks(Append(S, x), B) \subseteq Asks(S, B) \union {x}
  BY AppendOne DEF Asks
<1> QED BY <1>2, <1>3 DEF Reqs

LEMMA ReadOther ==
  ASSUME NEW S \in Seq(Msgs), S # <<>>, NEW B, NEW P, AreDistinct(S, B, P)
  PROVE  /\ AreDistinct(Tail(S), B, P) /\ Asks(Tail(S), B) \subseteq Asks(S, B)
         /\ Reqs(Tail(S), B, P) \subseteq Reqs(S, B, P)
<1> DEFINE T == Tail(S)
<1>1. \A i \in DOMAIN T : i \in Nat /\ i + 1 \in DOMAIN S /\ T[i] = S[i + 1]
  BY TailOf
<1> HIDE DEF T
<1>2. AreDistinct(T, B, P)
  BY <1>1 DEF AreDistinct
<1>3. Asks(T, B) \subseteq Asks(S, B)
  BY <1>1 DEF Asks
<1> QED BY <1>2, <1>3 DEF Reqs, T

LEMMA ReadBind ==
  ASSUME NEW S \in Seq(Msgs), S # <<>>, Head(S).kind = "bind", NEW B, NEW P, AreDistinct(S, B, P)
  PROVE  /\ AreDistinct(Tail(S), B \union {Head(S)}, P)
         /\ Asks(Tail(S), B \union {Head(S)}) \subseteq Asks(S, B)
         /\ Reqs(Tail(S), B \union {Head(S)}, P) \subseteq Reqs(S, B, P)
<1> DEFINE T == Tail(S)  H == Head(S)
<1>1. /\ \A i \in DOMAIN T : i \in Nat /\ i + 1 \in DOMAIN S /\ i + 1 # 1 /\ T[i] = S[i + 1]
      /\ 1 \in DOMAIN S /\ H = S[1] /\ H.kind = "bind"
  BY TailOf
<1> HIDE DEF T, H
<1>2. AreDistinct(T, B \union {H}, P)
  BY <1>1 DEF AreDistinct
<1>3. Asks(T, B \union {H}) \subseteq Asks(S, B)
  BY <1>1 DEF Asks
<1> QED BY <1>2, <1>3 DEF Reqs, T, H

LEMMA AnswerOne ==
  ASSUME NEW S, NEW B, NEW P \in Seq(Msgs), NEW m \in B, NEW a \in Msgs, a.req = m.req,
         AreDistinct(S, B, P)
  PROVE  /\ AreDistinct(S, B \ {m}, Append(P, a)) /\ Asks(S, B \ {m}) \subseteq Asks(S, B)
         /\ Reqs(S, B \ {m}, Append(P, a)) \subseteq Reqs(S, B, P)
<1>1. AreDistinct(S, B \ {m}, Append(P, a))
  BY AppendOne DEF AreDistinct
<1>2. Asks(S, B \ {m}) \subseteq Asks(S, B) /\ m \in Asks(S, B)
  BY DEF Asks
<1>3. ASSUME NEW i \in DOMAIN Append(P, a) PROVE Append(P, a)[i].req \in Reqs(S, B, P)
  BY <1>2, AppendOne DEF Reqs
<1> QED BY <1>1, <1>2, <1>3 DEF Reqs

LEMMA ReadAnswer ==
  ASSUME NEW S, NEW B, NEW P \in Seq(Msgs), P # <<>>, AreDistinct(S, B, P)
  PROVE  /\ AreDistinct(S, B, Tail(P))
         /\ Reqs(S, B, Tail(P)) \subseteq Reqs(S, B, P) \ {Head(P).req}
         /\ Head(P).req \in Reqs(S, B, P)
<1> DEFINE T == Tail(P)  H == Head(P)
<1>1. /\ \A i \in DOMAIN T : i \in Nat /\ i + 1 \in DOMAIN P /\ i + 1 # 1 /\ T[i] = P[i + 1]
      /\ 1 \in DOMAIN P /\ H = P[1]
  BY TailOf
<1> HIDE DEF T, H
<1>2. AreDistinct(S, B, T)
  BY <1>1 DEF AreDistinct
<1>3. /\ \A i \in DOMAIN T : T[i].req # H.req
      /\ \A x \in Asks(S, B) : x.req # H.req
  BY <1>1 DEF AreDistinct, Asks
<1>4. Reqs(S, B, T) \subseteq Reqs(S, B, P) \ {H.req} /\ H.req \in Reqs(S, B, P)
  BY <1>1, <1>3 DEF Reqs
<1> QED BY <1>2, <1>4 DEF T, H

-----------------------------------------------------------------------------
(* Types *)

Types == MailTypes /\ ClientTypes /\ ServerTypes

LEMMA TypesInit == Init => Types
<1> SUFFICES ASSUME Init PROVE Types
  OBVIOUS
<1>1. MailTypes
  BY DEF Init, LinkInit, GatewayInit, MailTypes
<1>2. ClientTypes
  BY LinkAssumption, ClientAssumption DEF Init, ClientInit, ClientTypes, Unused, Unmounted,
     NoEntry, HookRecs, ConnRecs, EntryRecs, Conns, NoConn
<1>3. ServerTypes
  BY DEF Init, GatewayInit, ServerTypes
<1> QED BY <1>1, <1>2, <1>3 DEF Types

\* Messages are well formed.
LEMMA MessageTypes ==
  /\ \A n \in Nat, j \in Jobs \union {NoJob} : /\ BindMsg(n, j) \in Msgs
                                               /\ BindMsg(n, j).kind = "bind"
                                               /\ BindMsg(n, j).req = n /\ BindMsg(n, j).job = j
  /\ \A k \in {"sub", "unsub", "unbind"}, j \in Jobs \union {NoJob} :
       JobMsg(k, j) \in Msgs /\ JobMsg(k, j).kind = k /\ JobMsg(k, j).job = j
BY DEF BindMsg, JobMsg, Msgs

LEMMA PageInPages == ASSUME NEW h \in Hooks PROVE Page(h) \in Pages /\ KeyOf[h] \in Keys
BY ClientAssumption DEF Page

\* The page of a connection in use.
LEMMA ConnPage ==
  ASSUME Types, NEW c \in Conns, conn[c].st # "unused"
  PROVE  PageOf[conn[c].key] \in Pages /\ conn[c].key \in Keys
BY ClientAssumption DEF Types, ClientTypes

\* What an action of the gateway that reads a message does to the mail.
Reads(p) ==
  /\ toServer[p] # <<>> /\ toServer' = [toServer EXCEPT ![p] = Tail(@)]
  /\ UNCHANGED <<link, toPage>>

LEMMA ArrivesReads ==
  ASSUME NEW p \in Pages, NEW m \in Incoming(p), Arrives(p, m)
  PROVE  Reads(p) /\ m = Head(toServer[p]) /\ link[p] # "gone"
BY DEF Arrives, Incoming, Reads

LEMMA ReadsMail ==
  ASSUME Types, NEW p \in Pages, Reads(p), binding' \in [Pages -> SUBSET Msgs]
  PROVE  MailTypes'
BY TailOf DEF Types, MailTypes, Reads

\* What an action of a page that sends a message does to the mail.
Sends(p, x) ==
  /\ toServer' = [toServer EXCEPT ![p] = Append(@, x)] /\ UNCHANGED <<link, toPage, binding>>

LEMMA SendsMail ==
  ASSUME Types, NEW p \in Pages, NEW x \in Msgs, Sends(p, x)
  PROVE  MailTypes'
BY AppendOne DEF Types, MailTypes, Sends

LEMMA EmitSends ==
  ASSUME Types, NEW p \in Pages, NEW x \in Msgs, Emit(p, <<x>>), UNCHANGED <<link, toPage, binding>>
  PROVE  Sends(p, x)
<1>1. toServer[p] \in Seq(Msgs)
  BY DEF Types, MailTypes
<1>2. toServer[p] \o <<x>> = Append(toServer[p], x)
  BY <1>1, AppendOne
<1> QED BY <1>2 DEF Emit, Sends

-----------------------------------------------------------------------------
LEMMA ServerTypesKept == ASSUME Types, [Next]_vars PROVE ServerTypes'
<1> USE DEF Types, ServerTypes
<1>1. CASE UNCHANGED <<started, sessions, ended, jobFns, leaving>>
  BY <1>1
<1>2. ASSUME NEW p \in Pages, NEW m \in binding[p], Bind(p, m) PROVE ServerTypes'
  <2>1. PICK j \in Jobs : Bound(p, m, j, heard[p] \union {j})
    BY <1>2 DEF Bind
  <2>2. /\ started' = started \union {j} /\ jobFns' = [jobFns EXCEPT ![p] = @ \union {j}]
        /\ sessions' = [sessions EXCEPT ![j] = @ \union {p}] /\ UNCHANGED <<ended, leaving>>
    BY <2>1 DEF Bound
  <2> QED BY <2>2
<1>3. ASSUME NEW p \in Pages, NEW js \in SUBSET Jobs, NEW cause \in {"unbind", "disconnect"},
             Disassociate(p, js, cause), UNCHANGED <<started, ended, jobFns>>
      PROVE  ServerTypes'
  BY SMTT(30), <1>3 DEF Disassociate, Run
<1>4. ASSUME NEW p \in Pages, NEW r \in leaving[p], TerminateTag(p, r) PROVE ServerTypes'
  <2>1. PICK t \in r.todo :
          /\ ended' = [ended EXCEPT ![r.job] = @ \union {t}]
          /\ leaving' = [leaving EXCEPT ![p] = (@ \ {r}) \union {Run(r.job, r.todo \ {t}, r.cause)}]
          /\ UNCHANGED <<started, sessions, jobFns>>
    BY <1>4 DEF TerminateTag
  <2>2. Run(r.job, r.todo \ {t}, r.cause)
          \in [job : Jobs, todo : SUBSET InputTags, cause : {"unbind", "disconnect"}]
    BY DEF Run
  <2> QED BY <2>1, <2>2
<1>5. ASSUME NEW p \in Pages, NEW r \in leaving[p], FinishLeaving(p, r) PROVE ServerTypes'
  BY <1>5 DEF FinishLeaving
<1>6. ASSUME NEW p \in Pages, HearDisconnect(p) PROVE ServerTypes'
  BY <1>3, <1>6 DEF HearDisconnect
<1>7. ASSUME NEW p \in Pages, NEW m \in Incoming(p), ReceiveUnbind(p, m) PROVE ServerTypes'
  BY SMTT(30), <1>3, <1>7 DEF ReceiveUnbind
<1>8. ASSUME NEW p \in Pages,
             \/ Unheard(p) \/ \E j \in Jobs : Queried(p, j)
             \/ \E m \in Incoming(p) : ReceiveBind(p, m) \/ ReceiveSub(p, m) \/ ReceiveUnsub(p, m)
      PROVE  UNCHANGED <<started, sessions, ended, jobFns, leaving>>
  BY Zenon, <1>8 DEF serverVars, Unheard, ReceiveBind, ReceiveSub, ReceiveUnsub, Queried
<1>9. UNCHANGED serverVars \/ vars' = vars => UNCHANGED <<started, sessions, ended, jobFns, leaving>>
  BY DEF serverVars, vars
<1> QED BY <1>1, <1>2, <1>4, <1>5, <1>6, <1>7, <1>8, <1>9 DEF Next, ServerSide, PageSide

-----------------------------------------------------------------------------
(* Connections and the requests they wait for *)

Live(c) == conn[c].st \in {"connecting", "open"}
Owns(h) == hook[h].on /\ hook[h].owner

\* A connection that is made or open is the one in the cache; one that is to be
\* closed has lost the hook that made it.
ConnInv ==
  /\ \A c \in Conns : Live(c) => /\ cache[conn[c].key].st # "none"
                                 /\ cache[conn[c].key].conn = c
  /\ \A c \in Conns : /\ conn[c].timer # "none" => Live(c)
                      /\ conn[c].timer = "fired" => conn[c].st = "connecting"
  /\ \A h \in Hooks : Owns(h) => Live(hook[h].conn) /\ conn[hook[h].conn].timer = "none"
  /\ \A g, h \in Hooks : Owns(g) /\ Owns(h) /\ hook[g].conn = hook[h].conn => g = h

Awaiting(p) == {c \in Conns : conn[c].st = "connecting" /\ PageOf[conn[c].key] = p}

\* A request is in one place, and its connection waits for it.
MailOK(p) ==
  link[p] = "up" =>
    /\ AreDistinct(toServer[p], binding[p], toPage[p])
    /\ Reqs(toServer[p], binding[p], toPage[p]) \subseteq Awaiting(p)
    /\ \A x \in Asks(toServer[p], binding[p]) : x.job = conn[x.req].asked

PageInv == Types /\ ConnInv /\ \A p \in Pages : MailOK(p)

\* The connections that wait go on waiting.
GoesOnWaiting(p) == \A c \in Awaiting(p) : /\ c \in Awaiting(p)'
                                           /\ conn'[c].asked = conn[c].asked

LEMMA MailElse ==
  ASSUME NEW p \in Pages, MailOK(p), link'[p] = "up" => link[p] = "up",
         toServer'[p] = toServer[p], binding'[p] = binding[p], toPage'[p] = toPage[p],
         link[p] = "up" => GoesOnWaiting(p)
  PROVE  MailOK(p)'
<1> SUFFICES ASSUME link'[p] = "up" PROVE MailOK(p)'
  BY DEF MailOK
<1>1. \A x \in Asks(toServer[p], binding[p]) : x.req \in Reqs(toServer[p], binding[p], toPage[p])
  BY DEF Reqs
<1> QED BY <1>1 DEF MailOK, GoesOnWaiting

\* A message that is no request is sent.
LEMMA MailSends ==
  ASSUME PageInv, NEW p \in Pages, NEW x \in Msgs, x.kind # "bind", Sends(p, x),
         \A q \in Pages : GoesOnWaiting(q)
  PROVE  \A q \in Pages : MailOK(q)'
<1>1. ASSUME NEW q \in Pages, q # p PROVE MailOK(q)'
  <2>1. toServer'[q] = toServer[q]
    BY <1>1 DEF Sends, PageInv, Types, MailTypes
  <2> QED BY <2>1, MailElse DEF Sends, PageInv
<1>2. MailOK(p)'
  <2> SUFFICES ASSUME link[p] = "up" PROVE MailOK(p)'
    BY DEF MailOK, Sends
  <2> DEFINE S == toServer[p]  B == binding[p]  P == toPage[p]
  <2>1. S \in Seq(Msgs) /\ toServer'[p] = Append(S, x) /\ binding'[p] = B /\ toPage'[p] = P
    BY DEF Sends, PageInv, Types, MailTypes
  <2>2. /\ AreDistinct(S, B, P) /\ Reqs(S, B, P) \subseteq Awaiting(p)
        /\ \A y \in Asks(S, B) : y.job = conn[y.req].asked /\ y.req \in Reqs(S, B, P)
    BY DEF PageInv, MailOK, Reqs
  <2> HIDE DEF S, B, P
  <2>3. /\ AreDistinct(Append(S, x), B, P) /\ Asks(Append(S, x), B) \subseteq Asks(S, B)
        /\ Reqs(Append(S, x), B, P) \subseteq Reqs(S, B, P)
    BY <2>1, <2>2, SendOther
  <2> QED BY <2>1, <2>2, <2>3 DEF GoesOnWaiting, MailOK
<1> QED BY <1>1, <1>2

\* A request of a connection that nobody has used is sent.
LEMMA MailAsks ==
  ASSUME PageInv, NEW p \in Pages, NEW x \in Msgs, Sends(p, x), \A q \in Pages : GoesOnWaiting(q),
         x.req \notin Awaiting(p), x.req \in Awaiting(p)', x.job = conn'[x.req].asked
  PROVE  \A q \in Pages : MailOK(q)'
<1>1. ASSUME NEW q \in Pages, q # p PROVE MailOK(q)'
  <2>1. toServer'[q] = toServer[q]
    BY <1>1 DEF Sends, PageInv, Types, MailTypes
  <2> QED BY <2>1, MailElse DEF Sends, PageInv
<1>2. MailOK(p)'
  <2> SUFFICES ASSUME link[p] = "up" PROVE MailOK(p)'
    BY DEF MailOK, Sends
  <2> DEFINE S == toServer[p]  B == binding[p]  P == toPage[p]
  <2>1. S \in Seq(Msgs) /\ toServer'[p] = Append(S, x) /\ binding'[p] = B /\ toPage'[p] = P
    BY DEF Sends, PageInv, Types, MailTypes
  <2>2. /\ AreDistinct(S, B, P) /\ Reqs(S, B, P) \subseteq Awaiting(p)
        /\ \A y \in Asks(S, B) : y.job = conn[y.req].asked /\ y.req \in Reqs(S, B, P)
    BY DEF PageInv, MailOK, Reqs
  <2> HIDE DEF S, B, P
  <2>3. /\ AreDistinct(Append(S, x), B, P) /\ Asks(Append(S, x), B) \subseteq Asks(S, B) \union {x}
        /\ Reqs(Append(S, x), B, P) \subseteq Reqs(S, B, P) \union {x.req}
    BY <2>1, <2>2, SendBind
  <2> QED BY <2>1, <2>2, <2>3 DEF GoesOnWaiting, MailOK
<1> QED BY <1>1, <1>2

-----------------------------------------------------------------------------
(* The gateway's steps *)

LEMMA ClientKept ==
  ASSUME PageInv, UNCHANGED clientVars
  PROVE  /\ ClientTypes' /\ ConnInv'
         /\ \A p \in Pages : GoesOnWaiting(p) /\ Awaiting(p)' = Awaiting(p)
<1> USE DEF clientVars, PageInv, Types
<1>1. ClientTypes'
  BY DEF ClientTypes
<1>2. ConnInv'
  BY DEF ConnInv, Live, Owns
<1>3. \A p \in Pages : GoesOnWaiting(p) /\ Awaiting(p)' = Awaiting(p)
  BY DEF GoesOnWaiting, Awaiting
<1> QED BY <1>1, <1>2, <1>3

\* A message is read, and kept only if it is a request.
LEMMA GatewayReads ==
  ASSUME PageInv, UNCHANGED clientVars, NEW p \in Pages, Reads(p),
         \/ UNCHANGED binding
         \/ /\ Head(toServer[p]).kind = "bind"
            /\ binding' = [binding EXCEPT ![p] = @ \union {Head(toServer[p])}]
  PROVE  MailTypes' /\ \A q \in Pages : MailOK(q)'
<1>1. MailTypes'
  <2>1. toServer[p] \in Seq(Msgs) /\ toServer[p] # <<>>
    BY DEF PageInv, Types, MailTypes, Reads
  <2>2. Head(toServer[p]) \in Msgs
    BY <2>1, TailOf
  <2>3. binding' \in [Pages -> SUBSET Msgs]
    BY ZenonT(40), <2>2 DEF PageInv, Types, MailTypes
  <2> QED BY <2>3, ReadsMail DEF PageInv
<1>2. ASSUME NEW q \in Pages, q # p PROVE MailOK(q)'
  <2>1. toServer'[q] = toServer[q] /\ binding'[q] = binding[q]
    BY <1>2 DEF Reads, PageInv, Types, MailTypes
  <2> QED BY <2>1, MailElse, ClientKept DEF Reads, PageInv
<1>3. MailOK(p)'
  <2> SUFFICES ASSUME link[p] = "up" PROVE MailOK(p)'
    BY DEF MailOK, Reads
  <2> DEFINE S == toServer[p]  B == binding[p]  P == toPage[p]  C == binding'[p]
  <2>1. /\ S \in Seq(Msgs) /\ S # <<>> /\ toServer'[p] = Tail(S) /\ toPage'[p] = P
        /\ C = B \/ (Head(S).kind = "bind" /\ C = B \union {Head(S)})
    BY DEF Reads, PageInv, Types, MailTypes
  <2>2. /\ AreDistinct(S, B, P) /\ Reqs(S, B, P) \subseteq Awaiting(p)
        /\ \A y \in Asks(S, B) : y.job = conn[y.req].asked
    BY DEF PageInv, MailOK
  <2>3. conn' = conn /\ Awaiting(p)' = Awaiting(p) /\ C = binding[p]'
    BY ClientKept DEF clientVars
  <2> HIDE DEF S, B, P, C
  <2>4. /\ AreDistinct(Tail(S), C, P) /\ Asks(Tail(S), C) \subseteq Asks(S, B)
        /\ Reqs(Tail(S), C, P) \subseteq Reqs(S, B, P)
    <3>1. CASE C = B
      BY <2>1, <2>2, <3>1, ReadOther
    <3>2. CASE Head(S).kind = "bind" /\ C = B \union {Head(S)}
      BY <2>1, <2>2, <3>2, ReadBind
    <3> QED BY <2>1, <3>1, <3>2
  <2> QED BY <2>1, <2>2, <2>3, <2>4 DEF MailOK
<1> QED BY <1>1, <1>2, <1>3

\* A request is answered, on a page that is there.
LEMMA GatewayAnswers ==
  ASSUME PageInv, UNCHANGED clientVars, NEW p \in Pages, NEW m \in binding[p], NEW j \in Jobs,
         binding' = [binding EXCEPT ![p] = @ \ {m}], UNCHANGED <<link, toServer>>, Answer(p, m, j)
  PROVE  MailTypes' /\ \A q \in Pages : MailOK(q)'
<1>1. m.req \in Nat /\ BindMsg(m.req, j) \in Msgs /\ BindMsg(m.req, j).req = m.req
  BY MessageTypes DEF PageInv, Types, MailTypes, Msgs
<1>2. toPage[p] \in Seq(Msgs)
  BY DEF PageInv, Types, MailTypes
<1>3. Append(toPage[p], BindMsg(m.req, j)) \in Seq(Msgs)
  BY <1>1, <1>2, AppendOne
<1>4. MailTypes'
  BY <1>3 DEF PageInv, Types, MailTypes, Answer
<1>5. ASSUME NEW q \in Pages, q # p PROVE MailOK(q)'
  <2>1. toPage'[q] = toPage[q] /\ binding'[q] = binding[q]
    BY <1>5 DEF Answer, PageInv, Types, MailTypes
  <2> QED BY <2>1, MailElse, ClientKept DEF PageInv
<1>6. MailOK(p)'
  <2> SUFFICES ASSUME link[p] = "up" PROVE MailOK(p)'
    BY DEF MailOK
  <2> DEFINE S == toServer[p]  B == binding[p]  P == toPage[p]  a == BindMsg(m.req, j)
  <2>1. /\ P \in Seq(Msgs) /\ toServer'[p] = S /\ binding'[p] = B \ {m}
        /\ toPage'[p] = Append(P, a) /\ a \in Msgs /\ a.req = m.req /\ m \in B
    BY <1>1, <1>2 DEF Answer, PageInv, Types, MailTypes
  <2>2. /\ AreDistinct(S, B, P) /\ Reqs(S, B, P) \subseteq Awaiting(p)
        /\ \A y \in Asks(S, B) : y.job = conn[y.req].asked
    BY DEF PageInv, MailOK
  <2> HIDE DEF S, B, P, a
  <2>3. /\ AreDistinct(S, B \ {m}, Append(P, a)) /\ Asks(S, B \ {m}) \subseteq Asks(S, B)
        /\ Reqs(S, B \ {m}, Append(P, a)) \subseteq Reqs(S, B, P)
    BY <2>1, <2>2, AnswerOne
  <2>4. conn' = conn /\ Awaiting(p)' = Awaiting(p)
    BY ClientKept DEF clientVars
  <2> QED BY <2>1, <2>2, <2>3, <2>4 DEF MailOK
<1> QED BY <1>4, <1>5, <1>6

\* The rest of what the gateway does leaves the mail alone.
LEMMA GatewayElse ==
  ASSUME PageInv, UNCHANGED clientVars, UNCHANGED <<toServer, toPage, binding>>,
         link' \in [Pages -> {"up", "lost", "gone"}],
         \A q \in Pages : link'[q] = "up" => link[q] = "up"
  PROVE  MailTypes' /\ \A q \in Pages : MailOK(q)'
<1>1. MailTypes'
  BY DEF PageInv, Types, MailTypes
<1> QED BY <1>1, MailElse, ClientKept DEF PageInv

LEMMA GatewayKeeps ==
  ASSUME PageInv, NEW p \in Pages, UNCHANGED clientVars, ServerTypes', GatewayStep(p)
  PROVE  PageInv'
<1>1. ClientTypes' /\ ConnInv'
  BY ClientKept
<1>2. MailTypes' /\ \A q \in Pages : MailOK(q)'
  <2>1. CASE \/ Unheard(p)
             \/ \E m \in Incoming(p) : ReceiveSub(p, m) \/ ReceiveUnsub(p, m) \/ ReceiveUnbind(p, m)
    <3>1. Reads(p) /\ UNCHANGED binding
      BY Zenon, <2>1, ArrivesReads DEF Unheard, ReceiveSub, ReceiveUnsub, ReceiveUnbind, serverVars
    <3> QED BY SMTT(30), <3>1, GatewayReads
  <2>2. ASSUME NEW m \in Incoming(p), ReceiveBind(p, m) PROVE MailTypes' /\ \A q \in Pages : MailOK(q)'
    <3>1. /\ Reads(p) /\ Head(toServer[p]).kind = "bind"
          /\ binding' = [binding EXCEPT ![p] = @ \union {Head(toServer[p])}]
      BY <2>2, ArrivesReads DEF ReceiveBind
    <3> QED BY <3>1, GatewayReads
  <2>3. ASSUME NEW m \in binding[p], Bind(p, m) PROVE MailTypes' /\ \A q \in Pages : MailOK(q)'
    <3>1. PICK j \in Jobs : Answer(p, m, j) /\ Bound(p, m, j, heard[p] \union {j})
      BY <2>3 DEF Bind
    <3> QED BY <3>1, GatewayAnswers DEF Bound
  <2>4. CASE \/ \E j \in Jobs : Queried(p, j)
             \/ \E r \in leaving[p] : TerminateTag(p, r) \/ FinishLeaving(p, r)
    <3>1. UNCHANGED <<link, toServer, toPage, binding>>
      BY <2>4 DEF Queried, TerminateTag, FinishLeaving, linkVars
    <3> QED BY <3>1, GatewayElse DEF PageInv, Types, MailTypes
  <2>5. CASE HearDisconnect(p)
    <3>1. UNCHANGED <<toServer, toPage, binding>> /\ link' = [link EXCEPT ![p] = "gone"]
      BY <2>5 DEF HearDisconnect
    <3> QED BY <3>1, GatewayElse DEF PageInv, Types, MailTypes
  <2> QED BY <2>1, <2>2, <2>3, <2>4, <2>5 DEF GatewayStep, Receive
<1> QED BY <1>1, <1>2 DEF PageInv, Types

-----------------------------------------------------------------------------
(* The steps of a page *)

\* What the parts of PageInv say of the page's own state.
PageParts == ClientTypes' /\ ConnInv' /\ MailTypes' /\ (\A q \in Pages : MailOK(q)')

LEMMA MountFirstKeeps ==
  ASSUME PageInv, NEW h \in Hooks, MountFirst(h), UNCHANGED serverVars PROVE PageParts
<1> DEFINE p == Page(h)  k == KeyOf[h]
<1>1. PICK c \in Conns :
        /\ cache[k].st = "none" /\ conn[c].st = "unused" /\ Mounts(h, c, TRUE)
        /\ conn' = [conn EXCEPT ![c] = [st |-> "connecting", job |-> NoJob, key |-> k,
                                        asked |-> AskedJob[h], timer |-> "none"]]
        /\ cache' = [cache EXCEPT ![k] = Entry("connected", c)]
        /\ Emit(p, <<BindMsg(c, AskedJob[h])>>)
  BY DEF MountFirst
<1>2. /\ c \in Nat /\ p \in Pages /\ k \in Keys /\ p = PageOf[k] /\ k = KeyOf[h]
      /\ UNCHANGED <<link, toPage, binding>>
      /\ AskedJob[h] \in Jobs \union {NoJob}
      /\ hook' = [hook EXCEPT ![h] = [on |-> TRUE, conn |-> c, owner |-> TRUE, subbed |-> FALSE]]
  BY <1>1, PageInPages, ClientAssumption DEF Conns, serverVars, Mounts, Page
<1> HIDE DEF p, k
<1>3. ClientTypes'
  BY <1>1, <1>2 DEF PageInv, Types, ClientTypes, HookRecs, ConnRecs, EntryRecs, Entry, Unused
<1>4. ConnInv'
  BY <1>1, <1>2 DEF PageInv, Types, ClientTypes, ConnInv, Live, Owns, HookRecs, ConnRecs, EntryRecs, Entry, Unused
<1>5. BindMsg(c, AskedJob[h]) \in Msgs /\ BindMsg(c, AskedJob[h]).req = c
      /\ BindMsg(c, AskedJob[h]).job = AskedJob[h]
  BY <1>2, MessageTypes
<1>6. Sends(p, BindMsg(c, AskedJob[h]))
  BY <1>1, <1>2, <1>5, EmitSends DEF PageInv
<1>7. \A q \in Pages : GoesOnWaiting(q)
  BY <1>1, <1>2 DEF PageInv, Types, ClientTypes, GoesOnWaiting, Awaiting
<1>8. c \notin Awaiting(p) /\ c \in Awaiting(p)' /\ conn'[c].asked = AskedJob[h]
  BY <1>1, <1>2 DEF PageInv, Types, ClientTypes, Awaiting
<1>9. \A q \in Pages : MailOK(q)'
  BY <1>2, <1>5, <1>6, <1>7, <1>8, MailAsks
<1> QED BY <1>2, <1>3, <1>4, <1>5, <1>6, <1>9, SendsMail DEF PageInv, PageParts

\* Steps that send nothing.
LEMMA SilentKeeps ==
  ASSUME PageInv, UNCHANGED <<link, toServer, toPage, binding>>, \A q \in Pages : GoesOnWaiting(q)
  PROVE  MailTypes' /\ \A q \in Pages : MailOK(q)'
<1>1. MailTypes'
  BY DEF PageInv, Types, MailTypes
<1> QED BY <1>1, MailElse DEF PageInv

LEMMA MountSharedKeeps ==
  ASSUME PageInv, NEW h \in Hooks, MountShared(h), UNCHANGED serverVars PROVE PageParts
<1> DEFINE k == KeyOf[h]
<1>1. /\ cache[k].st = "connected" /\ k \in Keys
      /\ hook' = [hook EXCEPT ![h] = [on |-> TRUE, conn |-> cache[k].conn, owner |-> FALSE, subbed |-> FALSE]]
      /\ UNCHANGED <<conn, cache, link, toServer, toPage, binding>>
  BY PageInPages DEF MountShared, Mounts, serverVars
<1> HIDE DEF k
<1>2. ClientTypes'
  BY <1>1, k = KeyOf[h] DEF PageInv, Types, ClientTypes, HookRecs, k
<1>3. ConnInv'
  BY <1>1 DEF PageInv, Types, ClientTypes, HookRecs, ConnInv, Live, Owns
<1>4. \A q \in Pages : GoesOnWaiting(q)
  BY <1>1 DEF GoesOnWaiting, Awaiting
<1> QED BY <1>1, <1>2, <1>3, <1>4, SilentKeeps DEF PageParts

LEMMA MountCancelsKeeps ==
  ASSUME PageInv, NEW h \in Hooks, MountCancelsClose(h), UNCHANGED serverVars PROVE PageParts
<1>0. PICK k \in Keys, c \in Conns : k = KeyOf[h] /\ c = cache[k].conn
  BY PageInPages DEF MountCancelsClose, PageInv, Types, ClientTypes
<1>1. /\ cache[k].st = "closing" /\ k \in Keys /\ k = KeyOf[h]
      /\ hook' = [hook EXCEPT ![h] = [on |-> TRUE, conn |-> c, owner |-> FALSE, subbed |-> FALSE]]
      /\ conn' = [conn EXCEPT ![c].timer = IF @ = "armed" THEN "none" ELSE @]
      /\ cache' = [cache EXCEPT ![k].st = "connected"]
      /\ UNCHANGED <<link, toServer, toPage, binding>>
  BY <1>0 DEF MountCancelsClose, Mounts, serverVars
<1>2. c \in Conns /\ conn[c].st # "unused" /\ conn[c].key = k /\ c = cache[k].conn
  BY <1>0, <1>1 DEF PageInv, Types, ClientTypes
<1>3. conn[c].timer \in {"none", "armed", "fired"}
  BY <1>2 DEF PageInv, Types, ClientTypes, ConnRecs
<1>4. conn' \in [Conns -> ConnRecs]
  <2>1. conn[c] \in ConnRecs
    BY <1>2 DEF PageInv, Types, ClientTypes
  <2>2. [conn[c] EXCEPT !.timer = IF @ = "armed" THEN "none" ELSE @] \in ConnRecs
    BY <2>1 DEF ConnRecs
  <2> QED BY <1>1, <1>2, <2>2 DEF PageInv, Types, ClientTypes
<1>5. /\ \A d \in Conns : /\ conn'[d].st = conn[d].st /\ conn'[d].key = conn[d].key
                          /\ conn'[d].timer \in {conn[d].timer, "none"}
                          /\ d # c => conn'[d] = conn[d]
      /\ cache' \in [Keys -> EntryRecs]
      /\ \A l \in Keys : cache'[l].conn = cache[l].conn /\ (cache'[l].st = "none" <=> cache[l].st = "none")
      /\ hook' \in [Hooks -> HookRecs]
      /\ \A g \in Hooks : IF g = h THEN hook'[g].conn = c /\ ~hook'[g].owner ELSE hook'[g] = hook[g]
  <2>1. [on |-> TRUE, conn |-> c, owner |-> FALSE, subbed |-> FALSE] \in HookRecs
    BY <1>2 DEF HookRecs
  <2>2. hook' \in [Hooks -> HookRecs]
    BY <1>1, <2>1 DEF PageInv, Types, ClientTypes
  <2>3. \A g \in Hooks : IF g = h THEN hook'[g].conn = c /\ ~hook'[g].owner ELSE hook'[g] = hook[g]
    BY <1>1 DEF PageInv, Types, ClientTypes
  <2>4. /\ cache' \in [Keys -> EntryRecs]
        /\ \A l \in Keys : cache'[l].conn = cache[l].conn /\ (cache'[l].st = "none" <=> cache[l].st = "none")
    BY SMTT(30), <1>1 DEF PageInv, Types, ClientTypes, EntryRecs
  <2>5. \A d \in Conns : /\ conn'[d].st = conn[d].st /\ conn'[d].key = conn[d].key
                         /\ conn'[d].timer \in {conn[d].timer, "none"}
                         /\ d # c => conn'[d] = conn[d]
    BY <1>1, <1>2, <1>3 DEF PageInv, Types, ClientTypes, ConnRecs
  <2> QED BY <2>2, <2>3, <2>4, <2>5
<1>6. ClientTypes'
  <2>1. \A g \in Hooks : hook'[g].on => /\ hook'[g].conn \in Conns
                                        /\ conn'[hook'[g].conn].st # "unused"
                                        /\ conn'[hook'[g].conn].key = KeyOf[g]
    <3>1. \A d \in Conns : conn'[d].st = conn[d].st /\ conn'[d].key = conn[d].key
      BY <1>5
    <3>2. hook'[h].conn = c /\ \A g \in Hooks \ {h} : hook'[g] = hook[g]
      BY <1>5
    <3>3. \A g \in Hooks : hook[g].on => /\ hook[g].conn \in Conns
                                         /\ conn[hook[g].conn].st # "unused"
                                         /\ conn[hook[g].conn].key = KeyOf[g]
      BY DEF PageInv, Types, ClientTypes
    <3> QED BY <1>1, <1>2, <3>1, <3>2, <3>3
  <2>2. \A l \in Keys : cache'[l].st # "none" => /\ cache'[l].conn \in Conns
                                                 /\ conn'[cache'[l].conn].st # "unused"
                                                 /\ conn'[cache'[l].conn].key = l
    BY <1>5 DEF PageInv, Types, ClientTypes
  <2>3. \A d \in Conns : conn'[d].st # "unused" => conn'[d].key \in Keys
    BY <1>5 DEF PageInv, Types, ClientTypes
  <2>4. \A d \in Conns : conn'[d].st = "unused" => conn'[d] = Unused
    BY <1>2, <1>5 DEF PageInv, Types, ClientTypes
  <2> QED BY SMTT(30), <1>4, <1>5, <2>1, <2>2, <2>3, <2>4 DEF ClientTypes
<1>7. ConnInv'
  <2> USE DEF PageInv, ConnInv, Live, Owns
  <2>1. \A d \in Conns : Live(d)' <=> Live(d)
    BY <1>5
  <2>2. \A g \in Hooks : Owns(g)' => Owns(g) /\ hook'[g] = hook[g] /\ hook[g].conn \in Conns
    BY <1>5 DEF Types, ClientTypes
  <2>3. \A d \in Conns : conn[d].st # "unused" => conn[d].key \in Keys
    BY DEF Types, ClientTypes
  <2>4. \A d \in Conns : Live(d)' => cache'[conn'[d].key].st # "none" /\ cache'[conn'[d].key].conn = d
    BY <1>5, <2>1, <2>3
  <2>5. \A d \in Conns : /\ conn'[d].timer # "none" => Live(d)'
                         /\ conn'[d].timer = "fired" => conn'[d].st = "connecting"
    BY <1>5, <2>1
  <2>6. \A g \in Hooks : Owns(g)' => Live(hook[g].conn)' /\ conn'[hook'[g].conn].timer = "none"
    BY <1>5, <2>1, <2>2
  <2> QED BY <2>2, <2>4, <2>5, <2>6
<1>8. \A q \in Pages : GoesOnWaiting(q)
  BY <1>1, <1>2 DEF PageInv, Types, ClientTypes, ConnRecs, GoesOnWaiting, Awaiting
<1> QED BY <1>1, <1>6, <1>8, <1>7, SilentKeeps DEF PageParts

LEMMA UnmountKeeps ==
  ASSUME PageInv, NEW h \in Hooks, Unmount(h), UNCHANGED serverVars PROVE PageParts
<1>0. PICK p \in Pages, k \in Keys, c \in Conns : p = Page(h) /\ k = KeyOf[h] /\ c = hook[h].conn
  BY PageInPages DEF Unmount, PageInv, Types, ClientTypes
<1>1. /\ hook[h].on /\ k \in Keys /\ p \in Pages /\ k = KeyOf[h]
      /\ hook' = [hook EXCEPT ![h] = Unmounted]
      /\ (IF hook[h].subbed THEN Emit(p, <<JobMsg("unsub", conn[c].job)>>) ELSE UNCHANGED toServer)
      /\ (IF hook[h].owner THEN /\ conn' = [conn EXCEPT ![c].timer = "armed"]
                                /\ cache' = [cache EXCEPT ![k] = Entry("closing", c)]
                           ELSE UNCHANGED <<conn, cache>>)
      /\ UNCHANGED <<link, toPage, binding>>
  BY <1>0 DEF Unmount, serverVars
<1>2. c \in Conns /\ conn[c].st # "unused" /\ conn[c].key = k /\ c = hook[h].conn
  BY <1>0, <1>1 DEF PageInv, Types, ClientTypes
<1>3. conn[c].job \in Jobs \union {NoJob}
  BY <1>2 DEF PageInv, Types, ClientTypes, ConnRecs
<1>4. ClientTypes' /\ ConnInv' /\ \A q \in Pages : GoesOnWaiting(q)
  <2>1. CASE hook[h].owner
    <3>1. conn' = [conn EXCEPT ![c].timer = "armed"] /\ cache' = [cache EXCEPT ![k] = Entry("closing", c)]
      BY <1>1, <2>1
    <3>2. ClientTypes'
      BY SMTT(30), <1>1, <1>2, <3>1 DEF PageInv, Types, ClientTypes, HookRecs, ConnRecs, EntryRecs, Entry, Unused, Unmounted, NoConn
    <3>3. Owns(h) /\ Live(c) /\ conn[c].timer = "none"
      BY <1>1, <1>2, <2>1 DEF PageInv, ConnInv, Owns
    <3>4. ConnInv'
      <4> USE DEF PageInv, ConnInv, Live, Owns
      <4>1. /\ \A d \in Conns : /\ conn'[d].st = conn[d].st /\ conn'[d].key = conn[d].key
                                /\ d # c => conn'[d] = conn[d]
            /\ \A l \in Keys \ {k} : cache'[l] = cache[l]
            /\ cache'[k].st = "closing" /\ cache'[k].conn = c /\ conn'[c].timer = "armed"
            /\ ~hook'[h].on /\ \A g \in Hooks \ {h} : hook'[g] = hook[g]
        BY <1>1, <1>2, <3>1 DEF Types, ClientTypes, HookRecs, ConnRecs, EntryRecs, Entry, Unmounted
      <4>2. \A d \in Conns : Live(d)' <=> Live(d)
        BY <4>1
      <4>3. \A g \in Hooks : Owns(g)' => /\ Owns(g) /\ hook'[g] = hook[g] /\ hook[g].conn \in Conns
                                         /\ hook[g].conn # c
        BY <1>2, <3>3, <4>1 DEF Types, ClientTypes
      <4>4. \A d \in Conns : Live(d)' => cache'[conn'[d].key].st # "none" /\ cache'[conn'[d].key].conn = d
        <5>1. \A d \in Conns : conn[d].st # "unused" => conn[d].key \in Keys
          BY DEF Types, ClientTypes
        <5> QED BY <1>2, <3>3, <4>1, <4>2, <5>1
      <4>5. \A d \in Conns : /\ conn'[d].timer # "none" => Live(d)'
                             /\ conn'[d].timer = "fired" => conn'[d].st = "connecting"
        BY <3>3, <4>1, <4>2
      <4>6. \A g \in Hooks : Owns(g)' => Live(hook[g].conn)' /\ conn'[hook'[g].conn].timer = "none"
        BY <4>1, <4>2, <4>3
      <4> QED BY <4>3, <4>4, <4>5, <4>6
    <3>5. \A q \in Pages : GoesOnWaiting(q)
      BY <1>1, <1>2, <3>1 DEF PageInv, Types, ClientTypes, ConnRecs, GoesOnWaiting, Awaiting
    <3> QED BY <3>2, <3>4, <3>5
  <2>2. CASE ~hook[h].owner
    <3>1. UNCHANGED <<conn, cache>>
      BY <1>1, <2>2
    <3>2. ClientTypes'
      BY <1>1, <3>1 DEF PageInv, Types, ClientTypes, HookRecs, Unmounted, NoConn
    <3>3. ConnInv'
      BY <1>1, <3>1 DEF PageInv, Types, ClientTypes, HookRecs, ConnInv, Live, Owns, Unmounted
    <3>4. \A q \in Pages : GoesOnWaiting(q)
      BY <3>1 DEF GoesOnWaiting, Awaiting
    <3> QED BY <3>2, <3>3, <3>4
  <2> QED BY <2>1, <2>2
<1>5. CASE hook[h].subbed
  <2> DEFINE x == JobMsg("unsub", conn[c].job)
  <2>1. x \in Msgs /\ x.kind = "unsub" /\ Emit(p, <<x>>)
    BY <1>1, <1>3, <1>5, MessageTypes
  <2> HIDE DEF x
  <2>2. Sends(p, x)
    BY <1>1, <2>1, EmitSends DEF PageInv
  <2> QED BY <1>1, <1>4, <2>1, <2>2, MailSends, SendsMail DEF PageInv, PageParts
<1>6. CASE ~hook[h].subbed
  BY <1>1, <1>4, <1>6, SilentKeeps DEF PageParts
<1> QED BY <1>5, <1>6

LEMMA SubscribeKeeps ==
  ASSUME PageInv, NEW h \in Hooks, Subscribe(h), UNCHANGED serverVars PROVE PageParts
<1> DEFINE p == Page(h)  x == JobMsg("sub", conn[hook[h].conn].job)
<1>1. /\ p \in Pages /\ hook[h].on /\ hook' = [hook EXCEPT ![h].subbed = TRUE]
      /\ Emit(p, <<x>>) /\ UNCHANGED <<link, toPage, conn, cache, binding>>
  BY PageInPages DEF Subscribe, serverVars
<1>2. hook[h].conn \in Conns /\ conn[hook[h].conn].job \in Jobs \union {NoJob}
  BY <1>1 DEF PageInv, Types, ClientTypes, ConnRecs
<1>3. x \in Msgs /\ x.kind = "sub"
  BY <1>2, MessageTypes
<1> HIDE DEF p, x
<1>4. ClientTypes'
  <2>1. hook[h] \in HookRecs
    BY DEF PageInv, Types, ClientTypes
  <2>2. [hook[h] EXCEPT !.subbed = TRUE] \in HookRecs
    BY <2>1 DEF HookRecs
  <2>3. hook' \in [Hooks -> HookRecs]
    BY <1>1, <2>2 DEF PageInv, Types, ClientTypes
  <2>4. \A g \in Hooks : hook'[g].on = hook[g].on /\ hook'[g].conn = hook[g].conn
    BY <1>1, <2>1 DEF PageInv, Types, ClientTypes, HookRecs
  <2> QED BY <1>1, <2>3, <2>4 DEF PageInv, Types, ClientTypes
<1>5. ConnInv'
  BY <1>1 DEF PageInv, Types, ClientTypes, HookRecs, ConnInv, Live, Owns
<1>6. Sends(p, x)
  BY <1>1, <1>3, EmitSends DEF PageInv
<1>7. \A q \in Pages : GoesOnWaiting(q)
  BY SMTT(30), <1>1 DEF GoesOnWaiting, Awaiting
<1> QED BY <1>1, <1>3, <1>4, <1>5, <1>6, <1>7, MailSends, SendsMail DEF PageInv, PageParts

\* A connection leaves the cache as it is closed.
LEMMA CloseKeeps ==
  ASSUME PageInv, NEW c \in Conns, Live(c), conn[c].timer # "none", NEW j \in Jobs \union {NoJob},
         conn' = [conn EXCEPT ![c].st = "closed", ![c].timer = "none", ![c].job = j],
         cache' = [cache EXCEPT ![conn[c].key] = NoEntry], UNCHANGED hook
  PROVE  ClientTypes' /\ ConnInv'
<1> USE DEF PageInv, ConnInv, Live, Owns
<1> DEFINE k == conn[c].key
<1>1. k \in Keys
  BY DEF Types, ClientTypes
<1>2. /\ \A d \in Conns \ {c} : conn'[d] = conn[d]
      /\ conn'[c].st = "closed" /\ conn'[c].timer = "none" /\ conn'[c].key = k
      /\ conn' \in [Conns -> ConnRecs] /\ cache' \in [Keys -> EntryRecs]
      /\ \A l \in Keys \ {k} : cache'[l] = cache[l]
      /\ cache'[k].st = "none"
  BY <1>1 DEF Types, ClientTypes, ConnRecs, EntryRecs, NoEntry, NoConn
<1>3. ClientTypes'
  BY <1>1, <1>2 DEF Types, ClientTypes
<1>4. \A d \in Conns : Live(d)' => d # c /\ Live(d) /\ conn[d].key \in Keys
  BY <1>2 DEF Types, ClientTypes
<1>5. \A d \in Conns : Live(d)' => cache'[conn'[d].key].st # "none" /\ cache'[conn'[d].key].conn = d
  BY <1>2, <1>4
<1>6. \A g \in Hooks : Owns(g)' => Owns(g) /\ hook[g].conn \in Conns /\ hook[g].conn # c
  BY DEF Types, ClientTypes
<1> QED BY <1>2, <1>3, <1>4, <1>5, <1>6

LEMMA TimerFiresKeeps ==
  ASSUME PageInv, NEW c \in Conns, TimerFires(c), UNCHANGED serverVars PROVE PageParts
<1> DEFINE p == PageOf[conn[c].key]
<1>1. conn[c].timer = "armed" /\ Live(c) /\ UNCHANGED <<link, toPage, hook, binding>>
  BY DEF TimerFires, PageInv, ConnInv, serverVars
<1>2. p \in Pages /\ conn[c].key \in Keys /\ conn[c].job \in Jobs \union {NoJob}
  BY <1>1, ConnPage DEF Live, PageInv, Types, ClientTypes, ConnRecs
<1>3. CASE conn[c].st = "open"
  <2> DEFINE x == JobMsg("unbind", conn[c].job)
  <2>1. /\ conn' = [conn EXCEPT ![c].st = "closed", ![c].timer = "none"]
        /\ cache' = [cache EXCEPT ![conn[c].key] = NoEntry] /\ Emit(p, <<x>>)
    BY <1>3 DEF TimerFires, Close
  <2>2. x \in Msgs /\ x.kind = "unbind"
    BY <1>2, MessageTypes
  <2> HIDE DEF p, x
  <2>3. conn' = [conn EXCEPT ![c].st = "closed", ![c].timer = "none", ![c].job = conn[c].job]
    BY <2>1 DEF PageInv, Types, ClientTypes, ConnRecs
  <2>4. ClientTypes' /\ ConnInv'
    BY Zenon, <1>1, <1>2, <2>1, <2>3, CloseKeeps
  <2>5. \A q \in Pages : GoesOnWaiting(q)
    BY <1>3, <2>1 DEF PageInv, Types, ClientTypes, GoesOnWaiting, Awaiting
  <2>6. Sends(p, x)
    BY <1>1, <1>2, <2>1, <2>2, EmitSends DEF PageInv
  <2> QED BY <1>2, <2>2, <2>4, <2>5, <2>6, MailSends, SendsMail DEF PageInv, PageParts
<1>4. CASE conn[c].st # "open"
  <2>1. conn' = [conn EXCEPT ![c].timer = "fired"] /\ UNCHANGED <<cache, toServer>>
    BY <1>4 DEF TimerFires
  <2>2. ClientTypes'
    BY <1>1, <2>1 DEF PageInv, Types, ClientTypes, ConnRecs, Live, Unused
  <2>3. ConnInv'
    BY <1>1, <1>4, <2>1 DEF PageInv, Types, ClientTypes, ConnRecs, HookRecs, ConnInv, Live, Owns
  <2>4. \A q \in Pages : GoesOnWaiting(q)
    BY <2>1 DEF PageInv, Types, ClientTypes, ConnRecs, GoesOnWaiting, Awaiting
  <2> QED BY <1>1, <2>1, <2>2, <2>3, <2>4, SilentKeeps DEF PageParts
<1> QED BY <1>3, <1>4

\* The connection an answer is for waits for it, and for no other.
LEMMA AnswerIsAwaited ==
  ASSUME PageInv, NEW p \in Pages, link[p] = "up", toPage[p] # <<>>
  PROVE  /\ Head(toPage[p]) \in Msgs /\ Head(toPage[p]).req \in Awaiting(p)
         /\ AreDistinct(toServer[p], binding[p], Tail(toPage[p]))
         /\ Reqs(toServer[p], binding[p], Tail(toPage[p])) \subseteq Awaiting(p) \ {Head(toPage[p]).req}
<1> DEFINE S == toServer[p]  B == binding[p]  P == toPage[p]
<1>1. P \in Seq(Msgs) /\ P # <<>> /\ AreDistinct(S, B, P) /\ Reqs(S, B, P) \subseteq Awaiting(p)
  BY DEF PageInv, Types, MailTypes, MailOK
<1> HIDE DEF S, B, P
<1>2. Head(P) \in Msgs
  BY <1>1, TailOf
<1>3. /\ AreDistinct(S, B, Tail(P)) /\ Head(P).req \in Reqs(S, B, P)
      /\ Reqs(S, B, Tail(P)) \subseteq Reqs(S, B, P) \ {Head(P).req}
  BY <1>1, ReadAnswer
<1> QED BY <1>1, <1>2, <1>3 DEF S, B, P

LEMMA JobInfoKeeps ==
  ASSUME PageInv, NEW p \in Pages, JobInfo(p), UNCHANGED serverVars PROVE PageParts
<1>0. PICK c \in Conns, j \in Jobs \union {NoJob} :
        /\ c = Head(toPage[p]).req /\ j = Head(toPage[p]).job /\ c \in Awaiting(p)
        /\ link[p] = "up" /\ toPage[p] # <<>> /\ toPage[p] \in Seq(Msgs)
  BY AnswerIsAwaited DEF JobInfo, Msgs, Awaiting, PageInv, Types, MailTypes
<1>1. conn[c].st = "connecting" /\ Live(c) /\ PageOf[conn[c].key] = p /\ conn[c].key \in Keys
  BY <1>0 DEF Awaiting, Live, PageInv, Types, ClientTypes
<1>2. /\ toPage' = [toPage EXCEPT ![p] = Tail(@)] /\ UNCHANGED <<link, hook, binding>>
      /\ \/ /\ conn[c].timer = "fired"
            /\ conn' = [conn EXCEPT ![c].st = "closed", ![c].timer = "none", ![c].job = j]
            /\ cache' = [cache EXCEPT ![conn[c].key] = NoEntry]
            /\ Emit(p, <<JobMsg("unbind", j)>>)
         \/ /\ conn[c].timer # "fired"
            /\ conn' = [conn EXCEPT ![c].st = "open", ![c].job = j]
            /\ UNCHANGED <<cache, toServer>>
  BY Zenon, <1>0 DEF JobInfo, serverVars
<1>3. /\ AreDistinct(toServer[p], binding[p], Tail(toPage[p]))
      /\ Reqs(toServer[p], binding[p], Tail(toPage[p])) \subseteq Awaiting(p) \ {c}
      /\ \A x \in Asks(toServer[p], binding[p]) : x.job = conn[x.req].asked
  BY <1>0, AnswerIsAwaited DEF PageInv, MailOK
<1>4. ClientTypes' /\ ConnInv'
  <2>1. CASE conn[c].timer = "fired"
    BY Zenon, <1>1, <1>2, <2>1, CloseKeeps
  <2>2. CASE conn[c].timer # "fired"
    <3>1. conn' = [conn EXCEPT ![c].st = "open", ![c].job = j] /\ UNCHANGED <<cache, hook>>
      BY <1>2, <2>2
    <3>2. ClientTypes'
      <4>0. conn[c] \in ConnRecs
        BY DEF PageInv, Types, ClientTypes
      <4>1. [conn[c] EXCEPT !.st = "open", !.job = j] \in ConnRecs
        BY <4>0 DEF ConnRecs
      <4>2. conn' \in [Conns -> ConnRecs]
        BY <3>1, <4>1 DEF PageInv, Types, ClientTypes
      <4>3. \A d \in Conns : /\ conn'[d].key = conn[d].key /\ (conn[d].st # "unused" <=> conn'[d].st # "unused")
                             /\ conn'[d].st = "unused" => conn'[d] = conn[d]
        BY <1>1, <3>1 DEF PageInv, Types, ClientTypes, ConnRecs
      <4> QED BY <3>1, <4>2, <4>3 DEF PageInv, Types, ClientTypes
    <3>3. ConnInv'
      BY <1>1, <2>2, <3>1 DEF PageInv, Types, ClientTypes, ConnRecs, HookRecs, ConnInv, Live, Owns
    <3> QED BY <3>2, <3>3
  <2> QED BY <2>1, <2>2
<1>5. \A d \in Conns \ {c} : conn'[d] = conn[d]
  BY <1>2 DEF PageInv, Types, ClientTypes
<1>6. Tail(toPage[p]) \in Seq(Msgs) /\ toServer[p] \in Seq(Msgs)
  BY <1>0, TailOf DEF PageInv, Types, MailTypes
<1>7. PICK S \in Seq(Msgs) :
        /\ toServer' = [toServer EXCEPT ![p] = S]
        /\ AreDistinct(S, binding[p], Tail(toPage[p])) /\ Asks(S, binding[p]) \subseteq Asks(toServer[p], binding[p])
        /\ Reqs(S, binding[p], Tail(toPage[p])) \subseteq Reqs(toServer[p], binding[p], Tail(toPage[p]))
  <2>1. CASE conn[c].timer # "fired"
    BY <1>2, <1>3, <1>6, <2>1 DEF PageInv, Types, MailTypes
  <2>2. CASE conn[c].timer = "fired"
    <3> DEFINE x == JobMsg("unbind", j)
    <3>1. x \in Msgs /\ x.kind = "unbind"
      BY MessageTypes
    <3>2. toServer' = [toServer EXCEPT ![p] = @ \o <<x>>]
      BY <1>2, <2>2 DEF Emit
    <3> HIDE DEF x
    <3>3. toServer[p] \o <<x>> = Append(toServer[p], x) /\ Append(toServer[p], x) \in Seq(Msgs)
      BY <1>6, <3>1, AppendOne
    <3> QED BY <1>3, <1>6, <3>1, <3>2, <3>3, SendOther
  <2> QED BY <2>1, <2>2
<1>8. MailTypes'
  BY <1>2, <1>6, <1>7 DEF PageInv, Types, MailTypes
<1>9. ASSUME NEW q \in Pages, q # p PROVE MailOK(q)'
  <2>1. toServer'[q] = toServer[q] /\ toPage'[q] = toPage[q]
    BY <1>2, <1>7, <1>9 DEF PageInv, Types, MailTypes
  <2>2. GoesOnWaiting(q)
    BY <1>1, <1>5, <1>9 DEF GoesOnWaiting, Awaiting
  <2> QED BY <1>2, <2>1, <2>2, MailElse DEF PageInv
<1>10. MailOK(p)'
  <2> DEFINE B == binding[p]  P == Tail(toPage[p])
  <2>1. toServer'[p] = S /\ binding'[p] = B /\ toPage'[p] = P
    BY <1>2, <1>7 DEF PageInv, Types, MailTypes
  <2>2. AreDistinct(S, B, P) /\ Reqs(S, B, P) \subseteq Awaiting(p) \ {c} /\ Asks(S, B) \subseteq Asks(toServer[p], B)
        /\ \A x \in Asks(toServer[p], B) : x.job = conn[x.req].asked
    BY <1>3, <1>7
  <2> HIDE DEF B, P
  <2>3. \A d \in Awaiting(p) \ {c} : d \in Awaiting(p)' /\ conn'[d].asked = conn[d].asked
    BY <1>5 DEF Awaiting
  <2>4. \A x \in Asks(S, B) : x.job = conn[x.req].asked /\ x.req \in Awaiting(p) \ {c}
    BY <2>2 DEF Reqs
  <2> QED BY <2>1, <2>2, <2>3, <2>4 DEF MailOK
<1> QED BY SMTT(30), <1>4, <1>8, <1>9, <1>10 DEF PageParts

LEMMA LosePageKeeps ==
  ASSUME PageInv, NEW p \in Pages, LosePage(p), UNCHANGED serverVars PROVE PageParts
<1>1. /\ link' = [link EXCEPT ![p] = "lost"] /\ toPage' = [toPage EXCEPT ![p] = <<>>] /\ UNCHANGED binding
      /\ hook' = [h \in Hooks |-> IF Page(h) = p THEN Unmounted ELSE hook[h]]
      /\ cache' = [k \in Keys |-> IF PageOf[k] = p THEN NoEntry ELSE cache[k]]
      /\ conn' = [c \in Conns |->
           IF conn[c].st \notin {"unused", "closed"} /\ PageOf[conn[c].key] = p
           THEN [conn[c] EXCEPT !.st = "closed", !.timer = "none"] ELSE conn[c]]
  BY Zenon DEF LosePage, LoseLink, serverVars
<1>2. PICK S \in Seq(Msgs) : toServer' = [toServer EXCEPT ![p] = S]
  <2>1. PICK n \in 0 .. Len(toServer[p]) : toServer' = [toServer EXCEPT ![p] = SubSeq(@, 1, n)]
    BY Zenon DEF LosePage, LoseLink
  <2>2. toServer[p] \in Seq(Msgs)
    BY DEF PageInv, Types, MailTypes
  <2>3. SubSeq(toServer[p], 1, n) \in Seq(Msgs)
    BY <2>2
  <2> QED BY <2>1, <2>3
<1>3. MailTypes'
  <2>1. <<>> \in Seq(Msgs)
    OBVIOUS
  <2>2. toPage' \in [Pages -> Seq(Msgs)] /\ toServer' \in [Pages -> Seq(Msgs)]
    BY Zenon, <1>1, <1>2, <2>1 DEF PageInv, Types, MailTypes
  <2>3. link' \in [Pages -> {"up", "lost", "gone"}] /\ binding' \in [Pages -> SUBSET Msgs]
    BY Zenon, <1>1 DEF PageInv, Types, MailTypes
  <2> QED BY <2>2, <2>3 DEF MailTypes
<1>4. ASSUME NEW c \in Conns
      PROVE  /\ conn'[c] \in ConnRecs /\ conn'[c].key = conn[c].key
             /\ (conn'[c].st = "unused" <=> conn[c].st = "unused")
             /\ conn'[c].st = "unused" => conn'[c] = conn[c]
             /\ Live(c)' => Live(c) /\ PageOf[conn[c].key] # p
             /\ Live(c) /\ PageOf[conn[c].key] # p => conn'[c] = conn[c]
             /\ \/ conn'[c] = conn[c] /\ (Live(c) => PageOf[conn[c].key] # p)
                \/ conn'[c].timer = "none"
  <2>1. conn[c] \in ConnRecs
    BY DEF PageInv, Types, ClientTypes
  <2>2. CASE conn[c].st \notin {"unused", "closed"} /\ PageOf[conn[c].key] = p
    <3>1. conn'[c] = [conn[c] EXCEPT !.st = "closed", !.timer = "none"]
      BY Zenon, <1>1, <2>2
    <3> QED BY <2>1, <2>2, <3>1 DEF ConnRecs, Live
  <2>3. CASE ~(conn[c].st \notin {"unused", "closed"} /\ PageOf[conn[c].key] = p)
    <3>1. conn'[c] = conn[c]
      BY Zenon, <1>1, <2>3
    <3> QED BY <2>1, <2>3, <3>1 DEF ConnRecs, Live
  <2> QED BY <2>2, <2>3
<1>5. \A c \in Conns : /\ conn'[c].key = conn[c].key /\ (conn'[c].st = "unused" <=> conn[c].st = "unused")
                       /\ Live(c)' => Live(c) /\ PageOf[conn[c].key] # p
                       /\ Live(c) /\ PageOf[conn[c].key] # p => conn'[c] = conn[c]
  BY <1>4
<1>6. ClientTypes'
  <2>1. conn' \in [Conns -> ConnRecs]
    BY Zenon, <1>1, <1>4
  <2>2. hook' \in [Hooks -> HookRecs] /\ cache' \in [Keys -> EntryRecs]
    BY Zenon, <1>1 DEF PageInv, Types, ClientTypes, HookRecs, EntryRecs, Unmounted, NoEntry, NoConn
  <2>3. \A h \in Hooks : hook'[h].on => hook'[h] = hook[h] /\ hook[h].on
    BY Zenon, <1>1 DEF Unmounted
  <2>4. \A k \in Keys : cache'[k].st # "none" => cache'[k] = cache[k] /\ cache[k].st # "none"
    BY Zenon, <1>1 DEF NoEntry
  <2>5. \A c \in Conns : conn'[c].st = "unused" => conn'[c] = Unused
    BY <1>4 DEF PageInv, Types, ClientTypes
  <2>6. \A h \in Hooks : hook'[h].on => /\ hook'[h].conn \in Conns
                                        /\ conn'[hook'[h].conn].st # "unused"
                                        /\ conn'[hook'[h].conn].key = KeyOf[h]
    BY <1>5, <2>3 DEF PageInv, Types, ClientTypes
  <2>7. \A k \in Keys : cache'[k].st # "none" => /\ cache'[k].conn \in Conns
                                                 /\ conn'[cache'[k].conn].st # "unused"
                                                 /\ conn'[cache'[k].conn].key = k
    BY <1>5, <2>4 DEF PageInv, Types, ClientTypes
  <2>8. \A c \in Conns : conn'[c].st # "unused" => conn'[c].key \in Keys
    BY <1>5 DEF PageInv, Types, ClientTypes
  <2> QED BY SMTT(30), <2>1, <2>2, <2>5, <2>6, <2>7, <2>8 DEF ClientTypes
<1>7. ConnInv'
  <2> USE DEF PageInv, ConnInv
  <2>1. \A c \in Conns : Live(c) => conn[c].key \in Keys
    BY SMTT(30) DEF Types, ClientTypes, Live
  <2>2. \A c \in Conns : Live(c)' => cache'[conn'[c].key].st # "none" /\ cache'[conn'[c].key].conn = c
    BY Zenon, <1>1, <1>5, <2>1
  <2>3. \A c \in Conns : /\ conn'[c].timer # "none" => Live(c)'
                         /\ conn'[c].timer = "fired" => conn'[c].st = "connecting"
    BY <1>4 DEF Live
  <2>4. \A h \in Hooks : Owns(h)' => /\ Owns(h) /\ hook'[h] = hook[h] /\ hook[h].conn \in Conns
                                     /\ PageOf[conn[hook[h].conn].key] # p
    BY Zenon, <1>1 DEF Owns, Unmounted, Page, Types, ClientTypes
  <2>5. \A h \in Hooks : Owns(h)' => Live(hook[h].conn)' /\ conn'[hook'[h].conn].timer = "none"
    BY <1>5, <2>4 DEF Live
  <2> QED BY <2>2, <2>3, <2>4, <2>5
<1>8. ASSUME NEW q \in Pages, q # p PROVE MailOK(q)'
  <2>1. toServer'[q] = toServer[q] /\ toPage'[q] = toPage[q] /\ link'[q] = link[q] /\ binding'[q] = binding[q]
    BY Zenon, <1>1, <1>2, <1>8 DEF PageInv, Types, MailTypes
  <2>2. GoesOnWaiting(q)
    BY <1>5, <1>8 DEF GoesOnWaiting, Awaiting, Live
  <2> QED BY <2>1, <2>2, MailElse DEF PageInv
<1>9. MailOK(p)'
  BY Zenon, <1>1 DEF MailOK, PageInv, Types, MailTypes
<1> QED BY <1>3, <1>6, <1>7, <1>8, <1>9 DEF PageParts

-----------------------------------------------------------------------------
LEMMA PageInvInit == Init => PageInv
<1> SUFFICES ASSUME Init PROVE PageInv
  OBVIOUS
<1>1. ConnInv
  BY DEF Init, ClientInit, ConnInv, Live, Owns, Unused, Unmounted
<1>2. ASSUME NEW p \in Pages PROVE MailOK(p)
  <2>1. toServer[p] = <<>> /\ binding[p] = {} /\ toPage[p] = <<>>
    BY <1>2 DEF Init, LinkInit, GatewayInit
  <2>2. AreDistinct(<<>>, {}, <<>>) /\ Asks(<<>>, {}) = {} /\ Reqs(<<>>, {}, <<>>) = {}
    BY DEF AreDistinct, Asks, Reqs
  <2> QED BY <2>1, <2>2 DEF MailOK
<1> QED BY <1>1, <1>2, TypesInit DEF PageInv

LEMMA PageInvKept == ASSUME PageInv, [Next]_vars PROVE PageInv'
<1>1. ServerTypes'
  BY ServerTypesKept DEF PageInv
<1>2. ASSUME NEW p \in Pages, GatewayStep(p), UNCHANGED clientVars PROVE PageInv'
  BY <1>1, <1>2, GatewayKeeps
<1>3. ASSUME PageParts PROVE PageInv'
  BY <1>1, <1>3 DEF PageParts, PageInv, Types
<1>4. ASSUME NEW h \in Hooks, UNCHANGED serverVars,
             MountFirst(h) \/ MountShared(h) \/ MountCancelsClose(h) \/ Unmount(h) \/ Subscribe(h)
      PROVE  PageParts
  BY <1>4, MountFirstKeeps, MountSharedKeeps, MountCancelsKeeps, UnmountKeeps, SubscribeKeeps
<1>5. CASE UNCHANGED vars
  BY <1>1, <1>5, ClientKept, GatewayElse DEF vars, linkVars, serverVars, PageInv, Types, MailTypes
<1> QED BY <1>2, <1>3, <1>4, <1>5, TimerFiresKeeps, JobInfoKeeps, LosePageKeeps
        DEF Next, ServerSide, PageSide, GatewayStep, Receive

\* A page holds at most one job per spec: the cache shares the connection that
\* is there, and only its maker's timer closes it (client/src/useJobBinding.tsx).
THEOREM PageHoldsOneJob == Spec => []OneJobPerKey
<1>1. PageInv => OneJobPerKey
  BY DEF PageInv, ConnInv, Live, OneJobPerKey
<1> QED BY <1>1, PageInvInit, PageInvKept, PTL DEF Spec

-----------------------------------------------------------------------------
(* Jobs that do not exist yet, and jobs that their maker keeps open *)

Unbinds(S) == {S[i].job : i \in {n \in DOMAIN S : S[n].kind = "unbind"}}
Infos(P) == {<<P[i].req, P[i].job>> : i \in DOMAIN P}

LEMMA UnbindsAppend ==
  ASSUME NEW S \in Seq(Msgs), NEW x \in Msgs
  PROVE  /\ Unbinds(Append(S, x)) \subseteq Unbinds(S) \union {x.job}
         /\ x.kind # "unbind" => Unbinds(Append(S, x)) \subseteq Unbinds(S)
BY AppendOne DEF Unbinds

LEMMA UnbindsTail ==
  ASSUME NEW S \in Seq(Msgs), S # <<>>
  PROVE  /\ Unbinds(Tail(S)) \subseteq Unbinds(S)
         /\ Head(S).kind = "unbind" => Head(S).job \in Unbinds(S)
<1> DEFINE T == Tail(S)  H == Head(S)
<1>1. /\ \A i \in DOMAIN T : i + 1 \in DOMAIN S /\ T[i] = S[i + 1]
      /\ 1 \in DOMAIN S /\ H = S[1]
  BY TailOf
<1> HIDE DEF T, H
<1>2. Unbinds(T) \subseteq Unbinds(S) /\ (H.kind = "unbind" => H.job \in Unbinds(S))
  BY <1>1 DEF Unbinds
<1> QED BY <1>2 DEF T, H

LEMMA UnbindsFront ==
  ASSUME NEW S \in Seq(Msgs), NEW n \in 0 .. Len(S)
  PROVE  SubSeq(S, 1, n) \in Seq(Msgs) /\ Unbinds(SubSeq(S, 1, n)) \subseteq Unbinds(S)
<1> DEFINE F == SubSeq(S, 1, n)
<1>1. F \in Seq(Msgs) /\ DOMAIN F = 1 .. n /\ DOMAIN S = 1 .. Len(S) /\ Len(S) \in Nat
  OBVIOUS
<1>2. \A i \in 1 .. n : F[i] = S[i]
  BY <1>1
<1>3. \A i \in DOMAIN F : i \in DOMAIN S /\ F[i] = S[i]
  BY <1>1, <1>2
<1> HIDE DEF F
<1>4. Unbinds(F) \subseteq Unbinds(S)
  BY <1>3 DEF Unbinds
<1> QED BY <1>1, <1>4 DEF F

LEMMA InfosAppend ==
  ASSUME NEW P \in Seq(Msgs), NEW x \in Msgs
  PROVE  Infos(Append(P, x)) \subseteq Infos(P) \union {<<x.req, x.job>>}
BY AppendOne DEF Infos

LEMMA InfosTail ==
  ASSUME NEW P \in Seq(Msgs), P # <<>>
  PROVE  Infos(Tail(P)) \subseteq Infos(P) /\ <<Head(P).req, Head(P).job>> \in Infos(P)
<1> DEFINE T == Tail(P)  H == Head(P)
<1>1. /\ \A i \in DOMAIN T : i + 1 \in DOMAIN P /\ T[i] = P[i + 1]
      /\ 1 \in DOMAIN P /\ H = P[1]
  BY TailOf
<1> HIDE DEF T, H
<1>2. Infos(T) \subseteq Infos(P) /\ <<H.req, H.job>> \in Infos(P)
  BY <1>1 DEF Infos
<1> QED BY <1>2 DEF T, H

\* Nothing is known of a job that does not exist.
Fresh ==
  \A j \in Jobs \ started :
    /\ ended[j] = {}
    /\ \A p \in Pages : /\ j \notin jobFns[p] /\ \A r \in leaving[p] : r.job # j
                        /\ j \notin Unbinds(toServer[p])
                        /\ \A c \in Conns : <<c, j>> \notin Infos(toPage[p])
    /\ \A c \in Conns : conn[c].job # j

\* Connection c of page p has been given, or is about to be given, the job j
\* that was enqueued for it.
Given(c, p, j) ==
  /\ conn[c].asked = NoJob /\ PageOf[conn[c].key] = p
  /\ \/ conn[c].st = "open" /\ conn[c].job = j
     \/ conn[c].st = "connecting" /\ <<c, j>> \in Infos(toPage[p])

\* No other connection of page p has, or had, job j.
Alone(c, p, j) == \A d \in Conns \ {c} : PageOf[conn[d].key] = p => conn[d].job # j

\* Page p keeps job j open.
Kept(p, j) ==
  /\ p \in sessions[j] /\ ended[j] = {} /\ j \notin Unbinds(toServer[p])
  /\ \A q \in Pages : \A r \in leaving[q] : r.job = j => r.todo = {}

Keeps(c, p, j) == link[p] = "up" /\ Given(c, p, j) /\ Alone(c, p, j) => Kept(p, j)

\* A connection has no job until it is open.
HasJob(c) == /\ conn[c].st = "connecting" => conn[c].job = NoJob
             /\ conn[c].st = "open" => conn[c].job \in Jobs
InfosOK == \A p \in Pages : Infos(toPage[p]) \subseteq Nat \X Jobs
Jobless == (\A c \in Conns : HasJob(c)) /\ InfosOK

KeepInv == PageInv /\ Jobless /\ Fresh /\ \A c \in Conns, p \in Pages, j \in Jobs : Keeps(c, p, j)

LEMMA KeepInvInit == Init => KeepInv
<1> SUFFICES ASSUME Init PROVE KeepInv
  OBVIOUS
<1>1. Unbinds(<<>>) = {} /\ Infos(<<>>) = {}
  BY DEF Unbinds, Infos
<1>2. \A p \in Pages : toServer[p] = <<>> /\ toPage[p] = <<>>
  BY DEF Init, LinkInit
<1>3. Fresh
  BY <1>1, <1>2, LinkAssumption DEF Init, GatewayInit, ClientInit, Unused, Fresh
<1>4. \A c \in Conns, p \in Pages, j \in Jobs : ~Given(c, p, j)
  BY DEF Init, ClientInit, Unused, Given
<1>5. Jobless
  BY <1>1, <1>2 DEF Init, ClientInit, Unused, Jobless, HasJob, InfosOK
<1> QED BY <1>3, <1>4, <1>5, PageInvInit DEF KeepInv, Keeps

LEMMA JoblessKept == ASSUME Types, Jobless, [Next]_vars PROVE Jobless'
<1>0. conn \in [Conns -> ConnRecs] /\ \A p \in Pages : toPage[p] \in Seq(Msgs)
  BY DEF Types, ClientTypes, MailTypes
<1>1. UNCHANGED toPage => InfosOK'
  BY DEF Jobless, InfosOK
<1>2. (\A p \in Pages : Infos(toPage'[p]) \subseteq Infos(toPage[p])) => InfosOK'
  BY DEF Jobless, InfosOK
<1>3. CASE UNCHANGED <<conn, toPage>>
  BY <1>3 DEF Jobless, HasJob, InfosOK
<1>4. ASSUME NEW h \in Hooks, MountFirst(h) PROVE Jobless'
  <2>1. PICK c \in Conns :
          /\ conn' = [conn EXCEPT ![c] = [st |-> "connecting", job |-> NoJob, key |-> KeyOf[h],
                                          asked |-> AskedJob[h], timer |-> "none"]]
          /\ UNCHANGED toPage
    BY <1>4 DEF MountFirst, Mounts
  <2>2. \A d \in Conns : \/ conn'[d].st = "connecting" /\ conn'[d].job = NoJob
                         \/ conn'[d] = conn[d]
    BY <1>0, <2>1
  <2>3. \A d \in Conns : HasJob(d)'
    BY <2>2 DEF Jobless, HasJob
  <2> QED BY <1>1, <2>1, <2>3 DEF Jobless
<1>5. ASSUME NEW h \in Hooks, MountCancelsClose(h) PROVE Jobless'
  <2>1. /\ UNCHANGED toPage
        /\ conn' = [conn EXCEPT ![cache[KeyOf[h]].conn].timer = IF @ = "armed" THEN "none" ELSE @]
    BY <1>5 DEF MountCancelsClose, Mounts
  <2>2. \A d \in Conns : \/ conn'[d].st = "closed"
                         \/ conn'[d].st = conn[d].st /\ conn'[d].job = conn[d].job
    BY <1>0, <2>1 DEF ConnRecs
  <2>3. \A d \in Conns : HasJob(d)'
    BY <2>2 DEF Jobless, HasJob
  <2> QED BY <1>1, <2>1, <2>3 DEF Jobless
<1>6. ASSUME NEW h \in Hooks, Unmount(h) PROVE Jobless'
  <2>1. /\ UNCHANGED toPage
        /\ UNCHANGED conn \/ conn' = [conn EXCEPT ![hook[h].conn].timer = "armed"]
    BY <1>6 DEF Unmount
  <2>2. \A d \in Conns : \/ conn'[d].st = "closed"
                         \/ conn'[d].st = conn[d].st /\ conn'[d].job = conn[d].job
    BY <1>0, <2>1 DEF ConnRecs
  <2>3. \A d \in Conns : HasJob(d)'
    BY <2>2 DEF Jobless, HasJob
  <2> QED BY <1>1, <2>1, <2>3 DEF Jobless
<1>7. ASSUME NEW c \in Conns, TimerFires(c) PROVE Jobless'
  <2>1. /\ UNCHANGED toPage
        /\ \/ conn' = [conn EXCEPT ![c].st = "closed", ![c].timer = "none"]
           \/ conn' = [conn EXCEPT ![c].timer = "fired"]
    BY <1>7 DEF TimerFires, Close
  <2>2. \A d \in Conns : \/ conn'[d].st = "closed"
                         \/ conn'[d].st = conn[d].st /\ conn'[d].job = conn[d].job
    BY <1>0, <2>1 DEF ConnRecs
  <2>3. \A d \in Conns : HasJob(d)'
    BY <2>2 DEF Jobless, HasJob
  <2> QED BY <1>1, <2>1, <2>3 DEF Jobless
<1>8. ASSUME NEW p \in Pages, JobInfo(p) PROVE Jobless'
  <2>1. PICK c, j : /\ <<c, j>> = <<Head(toPage[p]).req, Head(toPage[p]).job>>
                    /\ toPage[p] # <<>> /\ toPage' = [toPage EXCEPT ![p] = Tail(@)]
                    /\ \/ conn' = [conn EXCEPT ![c].st = "closed", ![c].timer = "none", ![c].job = j]
                       \/ conn' = [conn EXCEPT ![c].st = "open", ![c].job = j]
    BY Zenon, <1>8 DEF JobInfo
  <2>2. Infos(Tail(toPage[p])) \subseteq Infos(toPage[p]) /\ <<c, j>> \in Infos(toPage[p])
    BY Zenon, <1>0, <2>1, InfosTail
  <2>3. j \in Jobs
    BY SMTT(30), <2>2 DEF Jobless, InfosOK
  <2>4. \A q \in Pages : Infos(toPage'[q]) \subseteq Infos(toPage[q])
    BY <2>1, <2>2 DEF Types, MailTypes
  <2>5. \A d \in Conns : \/ conn'[d].st = "closed"
                         \/ conn'[d].st = "open" /\ conn'[d].job = j
                         \/ conn'[d].st = conn[d].st /\ conn'[d].job = conn[d].job
    <3> SUFFICES ASSUME NEW d \in Conns
                 PROVE  \/ conn'[d].st = "closed"
                        \/ conn'[d].st = "open" /\ conn'[d].job = j
                        \/ conn'[d].st = conn[d].st /\ conn'[d].job = conn[d].job
      OBVIOUS
    <3>1. conn[d] \in ConnRecs
      BY SMTT(30), <1>0
    <3>2. CASE d # c
      BY Zenon, <1>0, <2>1, <3>2
    <3>3. CASE d = c
      <4>1. \/ conn'[d] = [conn[d] EXCEPT !.st = "closed", !.timer = "none", !.job = j]
            \/ conn'[d] = [conn[d] EXCEPT !.st = "open", !.job = j]
        BY Zenon, <1>0, <2>1, <3>3
      <4> QED BY Zenon, <3>1, <4>1 DEF ConnRecs
    <3> QED BY <3>2, <3>3
  <2>6. \A d \in Conns : HasJob(d)'
    BY <2>3, <2>5 DEF Jobless, HasJob
  <2> QED BY SMTT(30), <1>2, <2>4, <2>6 DEF Jobless
<1>9. ASSUME NEW p \in Pages, LosePage(p) PROVE Jobless'
  <2>1. Infos(<<>>) = {}
    BY DEF Infos
  <2>2. \A q \in Pages : Infos(toPage'[q]) \subseteq Infos(toPage[q])
    BY Zenon, <1>9, <2>1 DEF LosePage, LoseLink, Types, MailTypes
  <2>3. \A d \in Conns : \/ conn'[d].st = "closed"
                         \/ conn'[d].st = conn[d].st /\ conn'[d].job = conn[d].job
    <3> SUFFICES ASSUME NEW d \in Conns
                 PROVE  conn'[d].st = "closed" \/ conn'[d] = conn[d]
      OBVIOUS
    <3>1. conn[d] \in ConnRecs
      BY Zenon, <1>0
    <3>2. conn'[d] = conn[d] \/ conn'[d] = [conn[d] EXCEPT !.st = "closed", !.timer = "none"]
      BY Zenon, <1>9 DEF LosePage
    <3> QED BY <3>1, <3>2 DEF ConnRecs
  <2>4. \A d \in Conns : HasJob(d)'
    BY <2>3 DEF Jobless, HasJob
  <2> QED BY SMTT(30), <1>2, <2>2, <2>4 DEF Jobless
<1>10. ASSUME NEW p \in Pages, NEW m \in binding[p], Bind(p, m), UNCHANGED conn PROVE Jobless'
  <2>1. PICK j \in Jobs : toPage' = toPage \/ toPage' = [toPage EXCEPT ![p] = Append(@, BindMsg(m.req, j))]
    BY <1>10 DEF Bind, Answer
  <2>2. m.req \in Nat
    BY DEF Types, MailTypes, Msgs
  <2>3. BindMsg(m.req, j) \in Msgs /\ BindMsg(m.req, j).req = m.req /\ BindMsg(m.req, j).job = j
    BY <2>2, MessageTypes
  <2>4. Infos(Append(toPage[p], BindMsg(m.req, j))) \subseteq Infos(toPage[p]) \union {<<m.req, j>>}
    BY <1>0, <2>3, InfosAppend
  <2>5. \A q \in Pages : Infos(toPage'[q]) \subseteq Infos(toPage[q]) \union (Nat \X Jobs)
    <3>1. \A q \in Pages : toPage'[q] = toPage[q] \/ (q = p /\ toPage'[q] = Append(toPage[p], BindMsg(m.req, j)))
      BY <2>1 DEF Types, MailTypes
    <3>2. <<m.req, j>> \in Nat \X Jobs
      BY <2>2
    <3> QED BY <2>4, <3>1, <3>2
  <2>6. InfosOK'
    BY <2>5 DEF Jobless, InfosOK
  <2>7. \A d \in Conns : HasJob(d)'
    BY <1>10 DEF Jobless, HasJob
  <2> QED BY <2>6, <2>7 DEF Jobless
<1>11. ASSUME NEW p \in Pages, GatewayStep(p), UNCHANGED conn PROVE Jobless'
  <2>1. UNCHANGED toPage \/ \E m \in binding[p] : Bind(p, m)
    BY Zenon, <1>11 DEF GatewayStep, Receive, Unheard, Arrives, ReceiveBind, ReceiveSub, ReceiveUnsub,
       ReceiveUnbind, HearDisconnect, Queried, TerminateTag, FinishLeaving, linkVars
  <2> QED BY SMTT(30), <1>3, <1>10, <1>11, <2>1
<1>12. ASSUME NEW h \in Hooks, MountShared(h) \/ Subscribe(h) PROVE Jobless'
  BY <1>3, <1>12 DEF MountShared, Mounts, Subscribe
<1>13. UNCHANGED clientVars => UNCHANGED conn
  BY DEF clientVars
<1>14. CASE UNCHANGED vars
  BY <1>3, <1>14 DEF vars, linkVars, clientVars
<1> QED BY <1>4, <1>5, <1>6, <1>7, <1>8, <1>9, <1>11, <1>12, <1>13, <1>14
        DEF Next, ServerSide, PageSide, GatewayStep, Receive

-----------------------------------------------------------------------------
\* What the parts of KeepInv say.
KeepParts == Fresh' /\ \A c \in Conns, p \in Pages, j \in Jobs : Keeps(c, p, j)'

LEMMA KeepOne ==
  ASSUME NEW c \in Conns, NEW p \in Pages, NEW j \in Jobs, Keeps(c, p, j),
         link'[p] = "up" => link[p] = "up", Given(c, p, j)' => Given(c, p, j),
         Alone(c, p, j)' => Alone(c, p, j),
         Given(c, p, j)' /\ Alone(c, p, j)' /\ link'[p] = "up" /\ Kept(p, j) => Kept(p, j)'
  PROVE  Keeps(c, p, j)'
BY DEF Keeps

\* The pages go on with the connections and answers they have.
LEMMA PagesKept ==
  ASSUME UNCHANGED clientVars, NEW c \in Conns, NEW p \in Pages, NEW j \in Jobs
  PROVE  /\ Alone(c, p, j)' <=> Alone(c, p, j)
         /\ toPage'[p] = toPage[p] => (Given(c, p, j)' <=> Given(c, p, j))
BY DEF clientVars, Alone, Given

\* A message is read that ends nothing.
LEMMA ReadKeeps ==
  ASSUME KeepInv, UNCHANGED clientVars, NEW p1 \in Pages, Reads(p1),
         UNCHANGED <<started, sessions, ended, jobFns, leaving>>
  PROVE  KeepParts
<1>1. \A p \in Pages : Unbinds(toServer'[p]) \subseteq Unbinds(toServer[p])
  BY UnbindsTail DEF Reads, KeepInv, PageInv, Types, MailTypes
<1>2. Fresh'
  BY <1>1 DEF KeepInv, Fresh, Reads, clientVars
<1>3. ASSUME NEW c \in Conns, NEW p \in Pages, NEW j \in Jobs PROVE Keeps(c, p, j)'
  <2>1. Kept(p, j) => Kept(p, j)'
    BY <1>1 DEF Kept
  <2> QED BY <2>1, PagesKept, KeepOne DEF KeepInv, Reads
<1> QED BY <1>2, <1>3 DEF KeepParts

\* The runs of disassociateAndMaybeTerminate for jobs that p1 may leave.
LEMMA LeaveKeeps ==
  ASSUME KeepInv, UNCHANGED clientVars, NEW p1 \in Pages, NEW js \in SUBSET jobFns[p1],
         NEW cause \in {"unbind", "disconnect"}, Disassociate(p1, js, cause),
         UNCHANGED <<toPage, started, ended, jobFns>>,
         \A p \in Pages : Unbinds(toServer'[p]) \subseteq Unbinds(toServer[p]),
         \A p \in Pages : link'[p] = "up" => link[p] = "up",
         link'[p1] = "up" => js \subseteq Unbinds(toServer[p1])
  PROVE  KeepParts
<1> USE DEF KeepInv
<1>1. \A j \in Jobs : sessions'[j] = IF j \in js THEN sessions[j] \ {p1} ELSE sessions[j]
  BY DEF Disassociate
<1>2. \A q \in Pages : \A r \in leaving'[q] :
        \/ r \in leaving[q]
        \/ q = p1 /\ r.job \in js /\ (r.todo = {} \/ sessions[r.job] \subseteq {p1})
  <2> DEFINE New(j) == Run(j, IF sessions[j] \subseteq {p1} THEN InputTags ELSE {}, cause)
  <2>1. \A j \in js : New(j).job = j /\ (New(j).todo = {} \/ sessions[j] \subseteq {p1})
    BY DEF Run
  <2>2. leaving \in [Pages -> SUBSET [job : Jobs, todo : SUBSET InputTags, cause : {"unbind", "disconnect"}]]
    BY DEF PageInv, Types, ServerTypes
  <2>3. leaving'[p1] = leaving[p1] \union {New(j) : j \in js}
    BY <2>2 DEF Disassociate
  <2>4. \A q \in Pages \ {p1} : leaving'[q] = leaving[q]
    BY <2>2 DEF Disassociate
  <2> HIDE DEF New
  <2> QED BY <2>1, <2>3, <2>4
<1>3. js \subseteq started
  BY DEF Fresh, PageInv, Types, ServerTypes
<1>4. Fresh'
  BY <1>2, <1>3 DEF Fresh, clientVars
<1>5. ASSUME NEW c \in Conns, NEW p \in Pages, NEW j \in Jobs PROVE Keeps(c, p, j)'
  <2>1. ASSUME link'[p] = "up", Kept(p, j) PROVE Kept(p, j)'
    <3>1. CASE p = p1
      <4>1. j \notin js
        BY <2>1, <3>1 DEF Kept
      <4>2. p \in sessions'[j]
        BY <1>1, <2>1, <4>1 DEF Kept
      <4>3. \A q \in Pages : \A r \in leaving'[q] : r.job = j => r.todo = {}
        BY <1>2, <2>1, <4>1 DEF Kept
      <4> QED BY <2>1, <4>2, <4>3 DEF Kept
    <3>2. CASE p # p1
      <4>1. p \in sessions'[j]
        BY <1>1, <2>1, <3>2 DEF Kept
      <4>2. \A q \in Pages : \A r \in leaving'[q] : r.job = j => r.todo = {}
        BY <1>2, <2>1, <3>2 DEF Kept
      <4> QED BY <2>1, <4>1, <4>2 DEF Kept
    <3> QED BY <3>1, <3>2
  <2> QED BY <2>1, PagesKept, KeepOne
<1> QED BY <1>4, <1>5 DEF KeepParts

LEMMA UnbindKeepsJobs ==
  ASSUME KeepInv, UNCHANGED clientVars, NEW p \in Pages, NEW m \in Incoming(p), ReceiveUnbind(p, m)
  PROVE  KeepParts
<1>1. /\ Reads(p) /\ m = Head(toServer[p]) /\ m.kind = "unbind"
      /\ Disassociate(p, {m.job} \intersect jobFns[p], "unbind") /\ UNCHANGED <<toPage, started, ended, jobFns>>
  BY ArrivesReads DEF ReceiveUnbind, Reads
<1>2. toServer[p] \in Seq(Msgs) /\ toServer[p] # <<>>
  BY <1>1 DEF KeepInv, PageInv, Types, MailTypes, Reads
<1>3. \A q \in Pages : Unbinds(toServer'[q]) \subseteq Unbinds(toServer[q])
  BY <1>1, <1>2, UnbindsTail DEF Reads, KeepInv, PageInv, Types, MailTypes
<1>4. m.job \in Unbinds(toServer[p])
  BY <1>1, <1>2, UnbindsTail
<1> QED BY <1>1, <1>3, <1>4, LeaveKeeps DEF Reads

LEMMA DisconnectKeepsJobs ==
  ASSUME KeepInv, UNCHANGED clientVars, NEW p \in Pages, HearDisconnect(p) PROVE KeepParts
<1>1. /\ link' = [link EXCEPT ![p] = "gone"]
      /\ Disassociate(p, heard[p] \intersect jobFns[p], "disconnect")
      /\ UNCHANGED <<toServer, toPage, started, ended, jobFns>>
  BY DEF HearDisconnect
<1>2. \A q \in Pages : (link'[q] = "up" => link[q] = "up") /\ link'[p] # "up"
  BY <1>1 DEF KeepInv, PageInv, Types, MailTypes
<1> QED BY <1>1, <1>2, LeaveKeeps

\* A run only goes on with what it was started for.
LEMMA RunKeepsJobs ==
  ASSUME KeepInv, UNCHANGED clientVars, NEW p1 \in Pages, NEW r \in leaving[p1],
         TerminateTag(p1, r) \/ FinishLeaving(p1, r)
  PROVE  KeepParts
<1> USE DEF KeepInv
<1>1. /\ UNCHANGED <<link, toServer, toPage, started, sessions>>
      /\ \A j \in Jobs : ended'[j] = ended[j] \/ (j = r.job /\ r.todo # {})
      /\ \A q \in Pages : \A x \in leaving'[q] :
           x \in leaving[q] \/ (q = p1 /\ x.job = r.job /\ r.todo # {})
      /\ \A q \in Pages : jobFns'[q] \subseteq jobFns[q]
  <2>1. CASE TerminateTag(p1, r)
    <3>1. PICK t \in r.todo :
            /\ ended' = [ended EXCEPT ![r.job] = @ \union {t}]
            /\ leaving' = [leaving EXCEPT ![p1] = (@ \ {r}) \union {Run(r.job, r.todo \ {t}, r.cause)}]
      BY <2>1 DEF TerminateTag
    <3>2. Run(r.job, r.todo \ {t}, r.cause).job = r.job
      BY DEF Run
    <3> QED BY <2>1, <3>1, <3>2 DEF TerminateTag, linkVars, PageInv, Types, ServerTypes
  <2>2. CASE FinishLeaving(p1, r)
    BY <2>2 DEF FinishLeaving, linkVars, PageInv, Types, ServerTypes
  <2> QED BY <2>1, <2>2
<1>2. r.job \in started
  BY DEF Fresh, PageInv, Types, ServerTypes
<1>3. Fresh'
  BY <1>1, <1>2 DEF Fresh, clientVars
<1>4. ASSUME NEW c \in Conns, NEW p \in Pages, NEW j \in Jobs PROVE Keeps(c, p, j)'
  <2>1. Kept(p, j) => Kept(p, j)'
    BY <1>1 DEF Kept
  <2> QED BY <1>1, <2>1, PagesKept, KeepOne
<1> QED BY <1>3, <1>4 DEF KeepParts

\* A new job is bound to the page it was enqueued for; one that is named is bound
\* to one page more.
LEMMA BindKeepsJobs ==
  ASSUME KeepInv, UNCHANGED clientVars, NEW p1 \in Pages, NEW m \in binding[p1], Bind(p1, m)
  PROVE  KeepParts
<1> USE DEF KeepInv
<1>1. PICK j1 \in Jobs : /\ Yields(m, j1) /\ Answer(p1, m, j1)
                         /\ Bound(p1, m, j1, heard[p1] \union {j1})
  BY DEF Bind
<1>2. /\ UNCHANGED <<link, toServer, ended, leaving>> /\ started' = started \union {j1}
      /\ \A j \in Jobs : sessions[j] \subseteq sessions'[j]
      /\ p1 \in sessions'[j1]
      /\ \A q \in Pages : jobFns'[q] \subseteq jobFns[q] \union {j1}
  BY <1>1 DEF Bound, PageInv, Types, ServerTypes
<1>3. m \in Msgs /\ m.req \in Nat
  BY DEF Msgs, PageInv, Types, MailTypes
<1>4. \A q \in Pages : /\ Infos(toPage'[q]) \subseteq Infos(toPage[q]) \union {<<m.req, j1>>}
                       /\ q # p1 => toPage'[q] = toPage[q]
  <2> DEFINE a == BindMsg(m.req, j1)
  <2>1. a \in Msgs /\ a.req = m.req /\ a.job = j1
    BY <1>3, MessageTypes
  <2>2. toPage' = toPage \/ toPage' = [toPage EXCEPT ![p1] = Append(@, a)]
    BY <1>1 DEF Answer
  <2> HIDE DEF a
  <2>3. toPage[p1] \in Seq(Msgs)
    BY DEF PageInv, Types, MailTypes
  <2>4. Infos(Append(toPage[p1], a)) \subseteq Infos(toPage[p1]) \union {<<m.req, j1>>}
    BY <2>1, <2>3, InfosAppend
  <2>5. \A q \in Pages : \/ toPage'[q] = toPage[q]
                         \/ q = p1 /\ toPage'[q] = Append(toPage[p1], a)
    BY <2>2 DEF PageInv, Types, MailTypes
  <2> QED BY <2>4, <2>5
<1>5. Fresh'
  BY <1>2, <1>4 DEF Fresh, clientVars
<1>6. ASSUME NEW c \in Conns, NEW p \in Pages, NEW j \in Jobs PROVE Keeps(c, p, j)'
  <2>1. Kept(p, j) => Kept(p, j)'
    BY <1>2 DEF Kept
  <2>2. CASE Given(c, p, j)' => Given(c, p, j)
    BY <1>2, <2>1, <2>2, PagesKept, KeepOne
  <2>3. CASE Given(c, p, j)' /\ ~Given(c, p, j) /\ link[p] = "up"
    <3>1. p = p1 /\ c = m.req /\ j = j1 /\ conn[c].asked = NoJob
      BY <1>4, <2>3, PagesKept DEF Given, clientVars
    <3>2. m \in Asks(toServer[p], binding[p])
      BY <3>1 DEF Asks
    <3>3. m.job = NoJob
      BY <2>3, <3>1, <3>2 DEF PageInv, MailOK
    <3>4. j \notin started
      BY <1>1, <3>1, <3>3 DEF Yields
    <3> QED BY <1>2, <3>1, <3>4 DEF Fresh, Kept, Keeps
  <2> QED BY <1>2, <2>2, <2>3 DEF Keeps
<1> QED BY <1>5, <1>6 DEF KeepParts

LEMMA GatewayKeepsJobs ==
  ASSUME KeepInv, NEW p \in Pages, UNCHANGED clientVars, GatewayStep(p) PROVE KeepParts
<1>1. CASE \/ Unheard(p)
           \/ \E m \in Incoming(p) : ReceiveBind(p, m) \/ ReceiveSub(p, m) \/ ReceiveUnsub(p, m)
  <2>1. Reads(p) /\ UNCHANGED <<started, sessions, ended, jobFns, leaving>>
    BY Zenon, <1>1, ArrivesReads DEF Unheard, ReceiveBind, ReceiveSub, ReceiveUnsub, serverVars
  <2> QED BY SMTT(30), <2>1, ReadKeeps
<1>2. CASE \E j \in Jobs : Queried(p, j)
  <2>1. UNCHANGED <<link, toServer, toPage, started, sessions, ended, jobFns, leaving>>
    BY <1>2 DEF Queried, linkVars
  <2>2. Fresh'
    BY <2>1 DEF KeepInv, Fresh, clientVars
  <2>3. \A c \in Conns, q \in Pages, j \in Jobs : Keeps(c, q, j)'
    BY <2>1, PagesKept, KeepOne DEF KeepInv, Kept
  <2> QED BY <2>2, <2>3 DEF KeepParts
<1> QED BY <1>1, <1>2, UnbindKeepsJobs, DisconnectKeepsJobs, RunKeepsJobs, BindKeepsJobs
        DEF GatewayStep, Receive

-----------------------------------------------------------------------------
\* What a page does leaves the gateway's own state alone.  It sends unbind only
\* as one of its connections is closed, and the connection keeps its job.
LEMMA PageKeepsJobs ==
  ASSUME KeepInv, UNCHANGED serverVars,
         \A c \in Conns : conn'[c].job # conn[c].job /\ conn'[c].job \in Jobs
                           => conn'[c].job \in started,
         \A p \in Pages : /\ Unbinds(toServer'[p]) \intersect Jobs \subseteq started
                          /\ Infos(toPage'[p]) \subseteq Infos(toPage[p]),
         \A p \in Pages : link'[p] = "up" => link[p] = "up",
         \A c \in Conns, p \in Pages, j \in Jobs :
           link'[p] = "up" => /\ Given(c, p, j)' => Given(c, p, j)
                              /\ Alone(c, p, j)' => Alone(c, p, j),
         \A p \in Pages : \A j \in Unbinds(toServer'[p]) \ Unbinds(toServer[p]) :
           link'[p] = "up" => \E d \in Conns : /\ conn'[d].st = "closed" /\ conn'[d].job = j
                                              /\ PageOf[conn'[d].key] = p
  PROVE  KeepParts
<1> USE DEF KeepInv
<1>1. UNCHANGED <<started, sessions, ended, jobFns, leaving>>
  BY DEF serverVars
<1>2. Fresh'
  BY <1>1 DEF Fresh
<1>3. ASSUME NEW c \in Conns, NEW p \in Pages, NEW j \in Jobs PROVE Keeps(c, p, j)'
  <2> SUFFICES ASSUME link'[p] = "up", Given(c, p, j)', Alone(c, p, j)' PROVE Kept(p, j)'
    BY DEF Keeps
  <2>1. Kept(p, j)
    BY DEF Keeps
  <2>2. j \notin Unbinds(toServer'[p])
    BY SMTT(30), <2>1 DEF Kept, Given, Alone
  <2> QED BY <1>1, <2>1, <2>2 DEF Kept
<1> QED BY <1>2, <1>3 DEF KeepParts

\* Steps that leave what the connections hold as it is, but for new requests.
LEMMA SameConnsKeep ==
  ASSUME KeepInv, UNCHANGED serverVars, UNCHANGED <<link, toPage>>,
         \A c \in Conns :
           \/ /\ conn'[c].job = conn[c].job /\ conn'[c].key = conn[c].key
              /\ conn'[c].st = conn[c].st /\ conn'[c].asked = conn[c].asked
           \/ /\ conn[c].st = "unused" /\ conn'[c].st = "connecting" /\ conn'[c].job = NoJob,
         \A p \in Pages : Unbinds(toServer'[p]) \subseteq Unbinds(toServer[p])
  PROVE  KeepParts
<1> USE DEF KeepInv
<1>1. \A p \in Pages, c \in Conns, j \in Jobs :
        link[p] = "up" /\ <<c, j>> \in Infos(toPage[p]) => conn[c].st = "connecting"
  BY DEF Infos, PageInv, MailOK, Reqs, Awaiting
<1>2. \A c \in Conns : conn[c].st = "unused" => conn[c].job = NoJob
  BY DEF PageInv, Types, ClientTypes, Unused
<1>3. ASSUME NEW c \in Conns, NEW p \in Pages, NEW j \in Jobs, link'[p] = "up"
      PROVE  (Given(c, p, j)' => Given(c, p, j)) /\ (Alone(c, p, j)' => Alone(c, p, j))
  <2>1. Given(c, p, j)' => Given(c, p, j)
    BY <1>1, <1>3 DEF Given
  <2>2. Alone(c, p, j)' => Alone(c, p, j)
    BY <1>2, LinkAssumption DEF Alone
  <2> QED BY <2>1, <2>2
<1>4. \A p \in Pages : Unbinds(toServer[p]) \intersect Jobs \subseteq started
  BY DEF Fresh
<1>5. \A c \in Conns : conn'[c].job # conn[c].job => conn'[c].job \notin Jobs
  BY LinkAssumption
<1> QED BY <1>3, <1>4, <1>5, PageKeepsJobs

\* A message that is no unbind is sent.
LEMMA EmitUnbindsNone ==
  ASSUME Types, NEW p \in Pages, NEW x \in Msgs, x.kind # "unbind", Emit(p, <<x>>)
  PROVE  \A q \in Pages : Unbinds(toServer'[q]) \subseteq Unbinds(toServer[q])
<1>1. toServer[p] \o <<x>> = Append(toServer[p], x) /\ toServer[p] \in Seq(Msgs)
  BY AppendOne DEF Types, MailTypes
<1>2. Unbinds(Append(toServer[p], x)) \subseteq Unbinds(toServer[p])
  BY <1>1, UnbindsAppend
<1>3. toServer'[p] = Append(toServer[p], x) /\ \A q \in Pages \ {p} : toServer'[q] = toServer[q]
  BY <1>1 DEF Emit, Types, MailTypes
<1> QED BY <1>2, <1>3

LEMMA HookKeepsJobs ==
  ASSUME KeepInv, UNCHANGED serverVars, NEW h \in Hooks,
         MountFirst(h) \/ MountShared(h) \/ MountCancelsClose(h) \/ Unmount(h) \/ Subscribe(h)
  PROVE  KeepParts
<1> USE DEF KeepInv, PageInv
<1>0. Page(h) \in Pages /\ conn \in [Conns -> ConnRecs]
  BY PageInPages DEF Types, ClientTypes
<1>1. CASE MountFirst(h)
  <2>1. PICK c \in Conns :
          /\ conn[c].st = "unused" /\ Mounts(h, c, TRUE)
          /\ conn' = [conn EXCEPT ![c] = [st |-> "connecting", job |-> NoJob, key |-> KeyOf[h],
                                          asked |-> AskedJob[h], timer |-> "none"]]
          /\ Emit(Page(h), <<BindMsg(c, AskedJob[h])>>)
    BY <1>1 DEF MountFirst
  <2>2. BindMsg(c, AskedJob[h]) \in Msgs /\ BindMsg(c, AskedJob[h]).kind = "bind"
    BY MessageTypes, ClientAssumption DEF Conns
  <2>3. \A q \in Pages : Unbinds(toServer'[q]) \subseteq Unbinds(toServer[q])
    BY <1>0, <2>1, <2>2, EmitUnbindsNone
  <2>4. UNCHANGED <<link, toPage>>
    BY <2>1 DEF Mounts
  <2>5. \A d \in Conns : d # c => conn'[d] = conn[d]
    BY <1>0, <2>1
  <2>6. conn'[c].st = "connecting" /\ conn'[c].job = NoJob
    BY <1>0, <2>1
  <2> QED BY <2>1, <2>3, <2>4, <2>5, <2>6, SameConnsKeep
<1>2. CASE MountShared(h)
  BY SMTT(30), <1>2, SameConnsKeep DEF MountShared, Mounts
<1>3. CASE MountCancelsClose(h)
  <2>1. /\ UNCHANGED <<link, toPage, toServer>>
        /\ conn' = [conn EXCEPT ![cache[KeyOf[h]].conn].timer = IF @ = "armed" THEN "none" ELSE @]
    BY <1>3 DEF MountCancelsClose, Mounts
  <2>2. \A c \in Conns : /\ conn'[c].job = conn[c].job /\ conn'[c].key = conn[c].key
                         /\ conn'[c].st = conn[c].st /\ conn'[c].asked = conn[c].asked
    BY <1>0, <2>1 DEF ConnRecs
  <2> QED BY <2>1, <2>2, SameConnsKeep
<1>4. CASE Unmount(h)
  <2>1. /\ UNCHANGED <<link, toPage>> /\ hook[h].on
        /\ \/ Emit(Page(h), <<JobMsg("unsub", conn[hook[h].conn].job)>>)
           \/ UNCHANGED toServer
        /\ conn' = [conn EXCEPT ![hook[h].conn].timer = "armed"] \/ UNCHANGED conn
    BY <1>4 DEF Unmount
  <2>2. conn[hook[h].conn].job \in Jobs \union {NoJob}
    BY <1>0, <2>1 DEF Types, ClientTypes, ConnRecs
  <2>3. JobMsg("unsub", conn[hook[h].conn].job) \in Msgs
        /\ JobMsg("unsub", conn[hook[h].conn].job).kind # "unbind"
    BY <2>2, MessageTypes
  <2>4. \A q \in Pages : Unbinds(toServer'[q]) \subseteq Unbinds(toServer[q])
    BY <1>0, <2>1, <2>3, EmitUnbindsNone
  <2>5. \A c \in Conns : /\ conn'[c].job = conn[c].job /\ conn'[c].key = conn[c].key
                         /\ conn'[c].st = conn[c].st /\ conn'[c].asked = conn[c].asked
    BY <1>0, <2>1 DEF ConnRecs
  <2> QED BY <2>1, <2>4, <2>5, SameConnsKeep
<1>5. CASE Subscribe(h)
  <2>1. /\ UNCHANGED <<link, toPage, conn>> /\ hook[h].on
        /\ Emit(Page(h), <<JobMsg("sub", conn[hook[h].conn].job)>>)
    BY <1>5 DEF Subscribe
  <2>2. conn[hook[h].conn].job \in Jobs \union {NoJob}
    BY <1>0, <2>1 DEF Types, ClientTypes, ConnRecs
  <2>3. JobMsg("sub", conn[hook[h].conn].job) \in Msgs
        /\ JobMsg("sub", conn[hook[h].conn].job).kind # "unbind"
    BY <2>2, MessageTypes
  <2>4. \A q \in Pages : Unbinds(toServer'[q]) \subseteq Unbinds(toServer[q])
    BY <1>0, <2>1, <2>3, EmitUnbindsNone
  <2> QED BY <2>1, <2>4, SameConnsKeep
<1> QED BY <1>1, <1>2, <1>3, <1>4, <1>5

\* A connection of page p is closed, and its unbind is sent.
LEMMA EmitUnbind ==
  ASSUME Types, NEW p \in Pages, NEW j \in Jobs \union {NoJob}, Emit(p, <<JobMsg("unbind", j)>>)
  PROVE  /\ \A q \in Pages \ {p} : toServer'[q] = toServer[q]
         /\ Unbinds(toServer'[p]) \subseteq Unbinds(toServer[p]) \union {j}
<1> DEFINE x == JobMsg("unbind", j)
<1>1. x \in Msgs /\ x.job = j /\ toServer[p] \in Seq(Msgs)
  BY MessageTypes DEF Types, MailTypes
<1>2. toServer' = [toServer EXCEPT ![p] = @ \o <<x>>]
  BY DEF Emit
<1> HIDE DEF x
<1>3. toServer[p] \o <<x>> = Append(toServer[p], x)
  BY <1>1, AppendOne
<1>4. Unbinds(Append(toServer[p], x)) \subseteq Unbinds(toServer[p]) \union {j}
  BY <1>1, UnbindsAppend
<1> QED BY <1>2, <1>3, <1>4 DEF Types, MailTypes

\* Connection c1 of page p1 takes job j1, if it had none, and is closed.
LEMMA CloseKeepsJobs ==
  ASSUME KeepInv, UNCHANGED serverVars, NEW c1 \in Conns, NEW p1 \in Pages, p1 = PageOf[conn[c1].key],
         Live(c1), NEW j1 \in Jobs \union {NoJob}, j1 \in Jobs => j1 \in started,
         conn[c1].job \in {j1, NoJob}, UNCHANGED link,
         conn' = [conn EXCEPT ![c1].st = "closed", ![c1].timer = "none", ![c1].job = j1],
         Emit(p1, <<JobMsg("unbind", j1)>>),
         \A p \in Pages : Infos(toPage'[p]) \subseteq Infos(toPage[p])
  PROVE  KeepParts
<1> USE DEF KeepInv, PageInv
<1>1. /\ \A c \in Conns : c # c1 => conn'[c] = conn[c]
      /\ conn'[c1].st = "closed" /\ conn'[c1].job = j1 /\ conn'[c1].key = conn[c1].key
  BY DEF Types, ClientTypes, ConnRecs
<1>2. \A q \in Pages : Unbinds(toServer[q]) \intersect Jobs \subseteq started
  BY DEF Fresh
<1>3. \A q \in Pages : Unbinds(toServer'[q]) \subseteq Unbinds(toServer[q]) \union (IF q = p1 THEN {j1} ELSE {})
  BY SMTT(30), EmitUnbind
<1>4. \A q \in Pages : Unbinds(toServer'[q]) \intersect Jobs \subseteq started
  BY <1>2, <1>3
<1>5. \A q \in Pages : \A j \in Unbinds(toServer'[q]) \ Unbinds(toServer[q]) :
        link'[q] = "up" => \E d \in Conns : /\ conn'[d].st = "closed" /\ conn'[d].job = j
                                           /\ PageOf[conn'[d].key] = q
  BY <1>1, <1>3
<1>6. ASSUME NEW c \in Conns, NEW p \in Pages, NEW j \in Jobs, link'[p] = "up"
      PROVE  (Given(c, p, j)' => Given(c, p, j)) /\ (Alone(c, p, j)' => Alone(c, p, j))
  <2>1. Given(c, p, j)' => Given(c, p, j)
    BY <1>1 DEF Given
  <2>2. Alone(c, p, j)' => Alone(c, p, j)
    BY <1>1, LinkAssumption DEF Alone
  <2> QED BY <2>1, <2>2
<1>7. \A c \in Conns : conn'[c].job # conn[c].job /\ conn'[c].job \in Jobs => conn'[c].job \in started
  BY <1>1
<1>8. \A q \in Pages : /\ Unbinds(toServer'[q]) \intersect Jobs \subseteq started
                       /\ Infos(toPage'[q]) \subseteq Infos(toPage[q])
  BY <1>4
<1>9. \A q \in Pages : link'[q] = "up" => link[q] = "up"
  OBVIOUS
<1> QED BY <1>5, <1>6, <1>7, <1>8, <1>9, PageKeepsJobs

LEMMA TimerKeepsJobs ==
  ASSUME KeepInv, UNCHANGED serverVars, NEW c \in Conns, TimerFires(c) PROVE KeepParts
<1> USE DEF KeepInv, PageInv
<1>1. Live(c) /\ UNCHANGED <<link, toPage>> /\ conn[c] \in ConnRecs
  BY DEF TimerFires, ConnInv, Types, ClientTypes
<1>2. CASE conn[c].st = "open"
  <2>1. /\ conn' = [conn EXCEPT ![c].st = "closed", ![c].timer = "none"]
        /\ Emit(PageOf[conn[c].key], <<JobMsg("unbind", conn[c].job)>>)
    BY <1>2 DEF TimerFires, Close
  <2>2. conn' = [conn EXCEPT ![c].st = "closed", ![c].timer = "none", ![c].job = conn[c].job]
    BY <1>1, <2>1 DEF Types, ClientTypes, ConnRecs
  <2>3. PageOf[conn[c].key] \in Pages /\ conn[c].job \in Jobs \union {NoJob}
    BY <1>1, ConnPage DEF Live, ConnRecs
  <2>4. conn[c].job \in Jobs => conn[c].job \in started
    BY DEF Fresh
  <2> QED BY Zenon, <1>1, <2>1, <2>2, <2>3, <2>4, CloseKeepsJobs
<1>3. CASE conn[c].st # "open"
  <2>1. conn' = [conn EXCEPT ![c].timer = "fired"] /\ UNCHANGED toServer
    BY <1>3 DEF TimerFires
  <2>2. \A d \in Conns : /\ conn'[d].job = conn[d].job /\ conn'[d].key = conn[d].key
                         /\ conn'[d].st = conn[d].st /\ conn'[d].asked = conn[d].asked
    BY <1>1, <2>1 DEF Types, ClientTypes, ConnRecs
  <2> QED BY <1>1, <2>1, <2>2, SameConnsKeep
<1> QED BY <1>2, <1>3

LEMMA InfoKeepsJobs ==
  ASSUME KeepInv, UNCHANGED serverVars, NEW p1 \in Pages, JobInfo(p1) PROVE KeepParts
<1> USE DEF KeepInv, PageInv
<1>0. PICK c1 \in Conns, j1 \in Jobs \union {NoJob} :
        /\ c1 = Head(toPage[p1]).req /\ j1 = Head(toPage[p1]).job /\ c1 \in Awaiting(p1)
        /\ link[p1] = "up" /\ toPage[p1] # <<>> /\ toPage[p1] \in Seq(Msgs)
  BY AnswerIsAwaited DEF JobInfo, Msgs, Awaiting, Types, MailTypes
<1>1. conn[c1].st = "connecting" /\ Live(c1) /\ PageOf[conn[c1].key] = p1 /\ conn[c1] \in ConnRecs
  BY <1>0 DEF Awaiting, Live, Types, ClientTypes
<1>2. /\ toPage' = [toPage EXCEPT ![p1] = Tail(@)] /\ UNCHANGED link
      /\ \/ /\ conn' = [conn EXCEPT ![c1].st = "closed", ![c1].timer = "none", ![c1].job = j1]
            /\ Emit(p1, <<JobMsg("unbind", j1)>>)
         \/ conn' = [conn EXCEPT ![c1].st = "open", ![c1].job = j1] /\ UNCHANGED toServer
  BY Zenon, <1>0 DEF JobInfo
<1>3. Infos(Tail(toPage[p1])) \subseteq Infos(toPage[p1]) /\ <<c1, j1>> \in Infos(toPage[p1])
  BY <1>0, InfosTail
<1>4. \A p \in Pages : Infos(toPage'[p]) \subseteq Infos(toPage[p])
  BY <1>2, <1>3 DEF Types, MailTypes
<1>5. j1 \in Jobs => j1 \in started
  BY <1>3 DEF Fresh
<1>6. conn[c1].job = NoJob
  BY <1>1 DEF Jobless, HasJob
<1>7. CASE /\ conn' = [conn EXCEPT ![c1].st = "closed", ![c1].timer = "none", ![c1].job = j1]
           /\ Emit(p1, <<JobMsg("unbind", j1)>>)
  BY Zenon, <1>1, <1>2, <1>4, <1>5, <1>6, <1>7, CloseKeepsJobs
<1>8. CASE conn' = [conn EXCEPT ![c1].st = "open", ![c1].job = j1] /\ UNCHANGED toServer
  <2>1. /\ \A c \in Conns : c # c1 => conn'[c] = conn[c]
        /\ conn'[c1].st = "open" /\ conn'[c1].job = j1 /\ conn'[c1].key = conn[c1].key
        /\ conn'[c1].asked = conn[c1].asked
    BY <1>1, <1>8 DEF Types, ClientTypes, ConnRecs
  <2>2. ASSUME NEW c \in Conns, NEW p \in Pages, NEW j \in Jobs
        PROVE  (Given(c, p, j)' => Given(c, p, j)) /\ (Alone(c, p, j)' => Alone(c, p, j))
    <3>1. Given(c, p, j)' => Given(c, p, j)
      BY <1>1, <1>3, <1>4, <2>1 DEF Given
    <3>2. Alone(c, p, j)' => Alone(c, p, j)
      BY <1>6, <2>1, LinkAssumption DEF Alone
    <3> QED BY <3>1, <3>2
  <2>3. \A p \in Pages : Unbinds(toServer'[p]) \intersect Jobs \subseteq started
    BY <1>8 DEF Fresh
  <2>4. \A c \in Conns : conn'[c].job # conn[c].job /\ conn'[c].job \in Jobs => conn'[c].job \in started
    BY <1>5, <2>1
  <2>5. \A p \in Pages : Unbinds(toServer'[p]) \ Unbinds(toServer[p]) = {}
    BY <1>8
  <2> QED BY <1>2, <1>4, <2>2, <2>3, <2>4, <2>5, PageKeepsJobs
<1> QED BY SMTT(30), <1>2, <1>7, <1>8

LEMMA LoseKeepsJobs ==
  ASSUME KeepInv, UNCHANGED serverVars, NEW p1 \in Pages, LosePage(p1) PROVE KeepParts
<1> USE DEF KeepInv, PageInv
<1>1. /\ link' = [link EXCEPT ![p1] = "lost"] /\ toPage' = [toPage EXCEPT ![p1] = <<>>]
      /\ conn' = [c \in Conns |->
           IF conn[c].st \notin {"unused", "closed"} /\ PageOf[conn[c].key] = p1
           THEN [conn[c] EXCEPT !.st = "closed", !.timer = "none"] ELSE conn[c]]
  BY Zenon DEF LosePage, LoseLink
<1>2. PICK n \in 0 .. Len(toServer[p1]) : toServer' = [toServer EXCEPT ![p1] = SubSeq(@, 1, n)]
  BY Zenon DEF LosePage, LoseLink
<1>3. \A q \in Pages : Unbinds(toServer'[q]) \subseteq Unbinds(toServer[q])
  <2>1. toServer[p1] \in Seq(Msgs)
    BY DEF Types, MailTypes
  <2>2. Unbinds(SubSeq(toServer[p1], 1, n)) \subseteq Unbinds(toServer[p1])
    BY <2>1, UnbindsFront
  <2> QED BY <1>2, <2>2 DEF Types, MailTypes
<1>4. \A q \in Pages : Infos(toPage'[q]) \subseteq Infos(toPage[q])
  <2>1. Infos(<<>>) = {}
    BY DEF Infos
  <2> QED BY Zenon, <1>1, <2>1 DEF Types, MailTypes
<1>5. \A c \in Conns : /\ conn'[c].job = conn[c].job /\ conn'[c].key = conn[c].key
                       /\ conn'[c].asked = conn[c].asked
                       /\ conn'[c].st = conn[c].st \/ conn'[c].st = "closed"
  <2> SUFFICES ASSUME NEW c \in Conns
               PROVE  /\ conn'[c].job = conn[c].job /\ conn'[c].key = conn[c].key
                      /\ conn'[c].asked = conn[c].asked
                      /\ conn'[c].st = conn[c].st \/ conn'[c].st = "closed"
    OBVIOUS
  <2>1. conn[c] \in ConnRecs
    BY DEF Types, ClientTypes
  <2>2. conn'[c] = conn[c] \/ conn'[c] = [conn[c] EXCEPT !.st = "closed", !.timer = "none"]
    BY Zenon, <1>1
  <2> QED BY <2>1, <2>2 DEF ConnRecs
<1>6. ASSUME NEW c \in Conns, NEW p \in Pages, NEW j \in Jobs
      PROVE  (Given(c, p, j)' => Given(c, p, j)) /\ (Alone(c, p, j)' => Alone(c, p, j))
  <2>1. Given(c, p, j)' => Given(c, p, j)
    BY <1>4, <1>5 DEF Given
  <2>2. Alone(c, p, j)' => Alone(c, p, j)
    BY <1>5 DEF Alone
  <2> QED BY <2>1, <2>2
<1>7. \A q \in Pages : link'[q] = "up" => link[q] = "up"
  BY Zenon, <1>1 DEF Types, MailTypes
<1>8. \A q \in Pages : Unbinds(toServer'[q]) \intersect Jobs \subseteq started
  BY <1>3 DEF Fresh
<1> QED BY <1>3, <1>4, <1>5, <1>6, <1>7, <1>8, PageKeepsJobs

LEMMA KeepInvKept == ASSUME KeepInv, [Next]_vars PROVE KeepInv'
<1>1. PageInv' /\ Jobless'
  BY PageInvKept, JoblessKept DEF KeepInv, PageInv
<1>2. CASE UNCHANGED vars
  <2>1. /\ UNCHANGED <<link, toServer, toPage, started, sessions, ended, jobFns, leaving, conn>>
    BY <1>2 DEF vars, linkVars, serverVars, clientVars
  <2>2. Fresh'
    BY <2>1 DEF KeepInv, Fresh
  <2>3. \A c \in Conns, p \in Pages, j \in Jobs : Keeps(c, p, j)'
    BY <2>1 DEF KeepInv, Keeps, Given, Alone, Kept
  <2> QED BY <1>1, <2>2, <2>3 DEF KeepInv
<1>3. ASSUME KeepParts PROVE KeepInv'
  BY <1>1, <1>3 DEF KeepParts, KeepInv
<1> QED BY <1>2, <1>3, GatewayKeepsJobs, HookKeepsJobs, TimerKeepsJobs, InfoKeepsJobs, LoseKeepsJobs
        DEF Next, ServerSide, PageSide, GatewayStep, Receive

\* As long as a page that had a job enqueued is there with its only connection
\* to it open, no input of the job is terminated (gateway/src/LiveGatewayConn.ts,
\* disassociateAndMaybeTerminate), whatever other pages join and leave.
THEOREM JobStaysOpen == Spec => []CreatorKeepsJob
<1>1. KeepInv => CreatorKeepsJob
  <2> SUFFICES ASSUME KeepInv, NEW c \in Conns,
                      conn[c].st = "open", conn[c].asked = NoJob, link[PageOf[conn[c].key]] = "up",
                      \A d \in Conns \ {c} : conn[d].job = conn[c].job =>
                        PageOf[conn[d].key] # PageOf[conn[c].key]
               PROVE  ended[conn[c].job] = {}
    BY DEF CreatorKeepsJob
  <2>1. PageOf[conn[c].key] \in Pages
    BY ConnPage DEF KeepInv, PageInv
  <2>2. conn[c].job \in Jobs
    BY DEF KeepInv, Jobless, HasJob
  <2>3. Given(c, PageOf[conn[c].key], conn[c].job) /\ Alone(c, PageOf[conn[c].key], conn[c].job)
    BY DEF Given, Alone
  <2> QED BY <2>1, <2>2, <2>3 DEF KeepInv, Keeps, Kept
<1> QED BY <1>1, KeepInvInit, KeepInvKept, PTL DEF Spec

-----------------------------------------------------------------------------
(* Subscribers and the count of a page's entry *)

Plus(x, j) == IF x.kind = "sub" /\ x.job = j THEN 1 ELSE 0
Minus(x, j) == IF x.kind = "unsub" /\ x.job = j THEN 1 ELSE 0

\* The messages s take a count of job j's subscribers from m to n, and never
\* below zero.
Ledger(s, j, m, n) ==
  \E f \in [0 .. Len(s) -> Nat] :
    /\ f[0] = m /\ f[Len(s)] = n
    /\ \A i \in 1 .. Len(s) : f[i] + Minus(s[i], j) = f[i - 1] + Plus(s[i], j)

LEMMA DeltaTypes ==
  ASSUME NEW x, NEW j
  PROVE  /\ Plus(x, j) \in 0 .. 1 /\ Minus(x, j) \in 0 .. 1
         /\ x.kind \notin {"sub", "unsub"} \/ x.job # j => Plus(x, j) = 0 /\ Minus(x, j) = 0
         /\ x.kind = "sub" /\ x.job = j => Plus(x, j) = 1 /\ Minus(x, j) = 0
         /\ x.kind = "unsub" /\ x.job = j => Plus(x, j) = 0 /\ Minus(x, j) = 1
BY DEF Plus, Minus

LEMMA LedgerEmpty ==
  /\ \A j, n : n \in Nat => Ledger(<<>>, j, n, n)
  /\ \A j, m, n : Ledger(<<>>, j, m, n) => m = n
<1>1. ASSUME NEW j, NEW n \in Nat PROVE Ledger(<<>>, j, n, n)
  <2> DEFINE f == [i \in 0 .. 0 |-> n]
  <2>1. Len(<<>>) = 0 /\ f \in [0 .. 0 -> Nat] /\ f[0] = n
    OBVIOUS
  <2> HIDE DEF f
  <2>2. \A i \in 1 .. 0 : f[i] + Minus(<<>>[i], j) = f[i - 1] + Plus(<<>>[i], j)
    OBVIOUS
  <2> QED BY <2>1, <2>2 DEF Ledger
<1>2. ASSUME NEW j, NEW m, NEW n, Ledger(<<>>, j, m, n) PROVE m = n
  <2>1. Len(<<>>) = 0
    OBVIOUS
  <2> QED BY <1>2, <2>1 DEF Ledger
<1> QED BY <1>1, <1>2

\* A message is sent, and the subscribers change with it.
LEMMA LedgerSends ==
  ASSUME NEW s \in Seq(Msgs), NEW x \in Msgs, NEW j, NEW m, NEW n, NEW k \in Nat,
         Ledger(s, j, m, n), k + Minus(x, j) = n + Plus(x, j)
  PROVE  Ledger(Append(s, x), j, m, k)
<1> DEFINE t == Append(s, x)  l == Len(s)
<1>1. /\ l \in Nat /\ Len(t) = l + 1
      /\ \A i \in 1 .. l : t[i] = s[i]
      /\ t[l + 1] = x
  BY AppendProperties
<1>2. PICK f \in [0 .. l -> Nat] :
        /\ f[0] = m /\ f[l] = n
        /\ \A i \in 1 .. l : f[i] + Minus(s[i], j) = f[i - 1] + Plus(s[i], j)
  BY DEF Ledger
<1> DEFINE g == [i \in 0 .. l + 1 |-> IF i = l + 1 THEN k ELSE f[i]]
<1> HIDE DEF t, l
<1>3. g \in [0 .. l + 1 -> Nat] /\ g[0] = m /\ g[l + 1] = k /\ g[l] = n
  BY <1>1, <1>2
<1>4. ASSUME NEW i \in 1 .. l + 1 PROVE g[i] + Minus(t[i], j) = g[i - 1] + Plus(t[i], j)
  <2>1. CASE i = l + 1
    <3>1. i - 1 = l
      BY <1>1, <2>1
    <3> QED BY <1>1, <1>3, <2>1, <3>1
  <2>2. CASE i # l + 1
    <3>1. i \in 1 .. l /\ i - 1 \in 0 .. l /\ g[i] = f[i] /\ g[i - 1] = f[i - 1] /\ t[i] = s[i]
      BY <1>1, <2>2
    <3> QED BY <1>2, <3>1
  <2> QED BY <2>1, <2>2
<1> HIDE DEF g
<1>5. g \in [0 .. Len(t) -> Nat] /\ g[Len(t)] = k
  BY <1>1, <1>3
<1>6. \A i \in 1 .. Len(t) : g[i] + Minus(t[i], j) = g[i - 1] + Plus(t[i], j)
  BY <1>1, <1>4
<1>7. Ledger(t, j, m, k)
  BY <1>3, <1>5, <1>6 DEF Ledger
<1> QED BY <1>7 DEF t

\* A message is read, and the count changes with it.
LEMMA LedgerReads ==
  ASSUME NEW s \in Seq(Msgs), s # <<>>, NEW j, NEW m, NEW n, Ledger(s, j, m, n)
  PROVE  /\ m \in Nat
         /\ \E k \in Nat : k + Minus(Head(s), j) = m + Plus(Head(s), j) /\ Ledger(Tail(s), j, k, n)
<1> DEFINE t == Tail(s)  l == Len(s)  h == Head(s)
<1>1. l \in Nat \ {0} /\ Len(t) = l - 1 /\ h = s[1]
  OBVIOUS
<1>2. \A i \in 1 .. l - 1 : t[i] = s[i + 1]
  OBVIOUS
<1>3. PICK f \in [0 .. l -> Nat] :
        /\ f[0] = m /\ f[l] = n
        /\ \A i \in 1 .. l : f[i] + Minus(s[i], j) = f[i - 1] + Plus(s[i], j)
  BY DEF Ledger
<1> DEFINE g == [i \in 0 .. l - 1 |-> f[i + 1]]
<1> HIDE DEF t, l, h
<1>4. m \in Nat /\ f[1] \in Nat /\ f[1] + Minus(h, j) = m + Plus(h, j)
  <2>1. 0 \in 0 .. l /\ 1 \in 1 .. l /\ 1 \in 0 .. l /\ 1 - 1 = 0
    BY <1>1
  <2> QED BY <1>1, <1>3, <2>1
<1>5. g \in [0 .. l - 1 -> Nat] /\ g[0] = f[1] /\ g[l - 1] = n
  BY <1>1, <1>3
<1>6. ASSUME NEW i \in 1 .. l - 1 PROVE g[i] + Minus(t[i], j) = g[i - 1] + Plus(t[i], j)
  <2>1. /\ i + 1 \in 1 .. l /\ (i + 1) - 1 = i /\ g[i] = f[i + 1] /\ g[i - 1] = f[i]
        /\ t[i] = s[i + 1]
    BY <1>1, <1>2
  <2>2. f[i + 1] + Minus(s[i + 1], j) = f[(i + 1) - 1] + Plus(s[i + 1], j)
    BY <1>3, <2>1
  <2> QED BY <2>1, <2>2
<1> HIDE DEF g
<1>7. Ledger(t, j, f[1], n)
  <2>1. g \in [0 .. Len(t) -> Nat] /\ g[Len(t)] = n
    BY <1>1, <1>5
  <2>2. \A i \in 1 .. Len(t) : g[i] + Minus(t[i], j) = g[i - 1] + Plus(t[i], j)
    BY <1>1, <1>6
  <2> QED BY <1>5, <2>1, <2>2 DEF Ledger
<1> QED BY <1>4, <1>7 DEF t, h

-----------------------------------------------------------------------------
CountRecs == [st : SubStates, count : Int]
SubTypes == sub \in [Pages -> [Jobs -> CountRecs]] /\ responds \in [Pages -> BOOLEAN]

\* A hook that has subscribed knows its job; a page that is there leaves a job
\* only because it unbinds.
Subbed == \A h \in Hooks : hook[h].subbed => hook[h].on /\ conn[hook[h].conn].job \in Jobs
UpUnbinds == \A p \in Pages : link[p] = "up" => \A r \in leaving[p] : r.cause = "unbind"

\* The entry has the count of its state, and the messages on the way take it to
\* the number of subscribers.
RightCount(e) == /\ e.count \in Nat
                 /\ e.st = "none" => e.count = 0
                 /\ e.st = "live" => e.count > 0
Counted(p, j) ==
  link[p] = "up" /\ responds[p] /\ sub[p][j].st # "rejected" =>
    /\ RightCount(sub[p][j])
    /\ Ledger(toServer[p], j, sub[p][j].count, Cardinality(Subscribed(p, j)))
AllCounted == \A p \in Pages, j \in Jobs : Counted(p, j)

SubInv == KeepInv /\ SubTypes /\ Subbed /\ UpUnbinds /\ AllCounted

LEMMA SubscribedFinite ==
  ASSUME NEW p, NEW j
  PROVE  /\ IsFiniteSet(Subscribed(p, j)) /\ Cardinality(Subscribed(p, j)) \in Nat
         /\ Cardinality(Subscribed(p, j)) = 0 <=> Subscribed(p, j) = {}
<1>1. Subscribed(p, j) \subseteq Hooks /\ IsFiniteSet(Hooks)
  BY ClientAssumption DEF Subscribed
<1>2. IsFiniteSet(Subscribed(p, j))
  BY <1>1, FS_Subset
<1> HIDE DEF Subscribed
<1> QED BY <1>2, FS_CardinalityType, FS_EmptySet

LEMMA SubInvInit == Init => SubInv
<1> SUFFICES ASSUME Init PROVE SubInv
  OBVIOUS
<1>1. SubTypes
  BY DEF Init, GatewayInit, SubTypes, CountRecs, SubStates, NoSub
<1>2. Subbed /\ UpUnbinds
  BY DEF Init, ClientInit, GatewayInit, Unmounted, Subbed, UpUnbinds
<1>3. ASSUME NEW p \in Pages, NEW j \in Jobs PROVE Counted(p, j)
  <2>1. sub[p][j] = NoSub /\ toServer[p] = <<>>
    BY DEF Init, GatewayInit, LinkInit
  <2>2. Subscribed(p, j) = {}
    BY DEF Subscribed, Init, ClientInit, Unmounted
  <2>3. Cardinality(Subscribed(p, j)) = 0
    BY <2>2, SubscribedFinite
  <2> QED BY <2>1, <2>3, LedgerEmpty DEF Counted, RightCount, NoSub
<1> QED BY <1>1, <1>2, <1>3, KeepInvInit DEF SubInv, AllCounted

-----------------------------------------------------------------------------
(* The gateway's steps *)

\* Nothing that is counted changes.
LEMMA CountedSame ==
  ASSUME NEW p \in Pages, NEW j \in Jobs, Counted(p, j),
         link'[p] = "up" => link[p] = "up", responds'[p] => responds[p],
         sub'[p][j] = sub[p][j], toServer'[p] = toServer[p],
         Cardinality(Subscribed(p, j))' = Cardinality(Subscribed(p, j))
  PROVE  Counted(p, j)'
BY DEF Counted

LEMMA SubscribedKept ==
  ASSUME UNCHANGED clientVars, NEW p, NEW j
  PROVE  Cardinality(Subscribed(p, j))' = Cardinality(Subscribed(p, j))
<1>1. Subscribed(p, j)' = Subscribed(p, j)
  BY DEF clientVars, Subscribed
<1> QED BY <1>1

\* The gateway reads a message of page p and counts it in.
LEMMA CountedReads ==
  ASSUME SubInv, UNCHANGED clientVars, NEW p \in Pages, NEW j \in Jobs, Reads(p),
         responds' = responds,
         sub'[p][j].st # "rejected" =>
           /\ sub[p][j].st # "rejected"
           /\ \A k \in Nat :
                /\ RightCount(sub[p][j])
                /\ k + Minus(Head(toServer[p]), j) = sub[p][j].count + Plus(Head(toServer[p]), j)
                => sub'[p][j].count = k /\ RightCount(sub'[p][j])
  PROVE  Counted(p, j)'
<1> DEFINE s == toServer[p]  n == Cardinality(Subscribed(p, j))
<1> SUFFICES ASSUME link'[p] = "up", responds'[p], sub'[p][j].st # "rejected"
             PROVE  RightCount(sub'[p][j]) /\ Ledger(toServer'[p], j, sub'[p][j].count, n')
  BY DEF Counted
<1>1. s \in Seq(Msgs) /\ s # <<>> /\ toServer'[p] = Tail(s) /\ link[p] = "up" /\ n' = n
  BY SubscribedKept DEF Reads, SubInv, KeepInv, PageInv, Types, MailTypes
<1>2. RightCount(sub[p][j]) /\ Ledger(s, j, sub[p][j].count, n)
  BY <1>1 DEF SubInv, AllCounted, Counted
<1>3. PICK k \in Nat : /\ k + Minus(Head(s), j) = sub[p][j].count + Plus(Head(s), j)
                       /\ Ledger(Tail(s), j, k, n)
  BY <1>1, <1>2, LedgerReads
<1> HIDE DEF n
<1> QED BY <1>1, <1>2, <1>3

\* Messages of the other pages stay as they are.
LEMMA ReadsElse ==
  ASSUME SubInv, UNCHANGED clientVars, NEW p \in Pages, Reads(p), responds' = responds,
         NEW q \in Pages, q # p, NEW j \in Jobs, sub'[q] = sub[q]
  PROVE  Counted(q, j)'
<1>1. toServer'[q] = toServer[q] /\ link' = link
  BY DEF Reads, SubInv, KeepInv, PageInv, Types, MailTypes
<1> QED BY <1>1, CountedSame, SubscribedKept DEF SubInv, AllCounted

\* What the gateway does apart from reading leaves the ledger alone.
LEMMA CountedElse ==
  ASSUME SubInv, UNCHANGED clientVars, toServer' = toServer, responds' = responds,
         \A q \in Pages : link'[q] = "up" => link[q] = "up", sub' = sub
  PROVE  AllCounted'
BY CountedSame, SubscribedKept DEF SubInv, AllCounted

SubParts == SubTypes' /\ UpUnbinds' /\ AllCounted'

LEMMA OtherReadCounts ==
  ASSUME SubInv, UNCHANGED clientVars, NEW p \in Pages, Reads(p),
         Head(toServer[p]).kind \notin {"sub", "unsub"}, UNCHANGED <<responds, sub>>
  PROVE  AllCounted'
<1>1. ASSUME NEW j \in Jobs PROVE Counted(p, j)'
  <2>1. Plus(Head(toServer[p]), j) = 0 /\ Minus(Head(toServer[p]), j) = 0
    BY DeltaTypes
  <2> QED BY <2>1, CountedReads DEF RightCount
<1> QED BY <1>1, ReadsElse DEF AllCounted

LEMMA SubCounts ==
  ASSUME SubInv, UNCHANGED clientVars, NEW p \in Pages, NEW m \in Incoming(p), ReceiveSub(p, m)
  PROVE  SubTypes' /\ AllCounted'
<1>1. Reads(p) /\ m = Head(toServer[p]) /\ m.kind = "sub" /\ UNCHANGED responds
  BY ArrivesReads DEF ReceiveSub
<1> DEFINE e == sub[p][m.job]
           d == WithSub(e, m.job \in jobFns[p])
<1>2. sub' = [sub EXCEPT ![p] = [sub[p] EXCEPT ![m.job] = d]]
  BY DEF ReceiveSub, SubInv, SubTypes
<1>3. m.job \in Jobs =>
        /\ d \in CountRecs
        /\ d.st # "rejected" => e.st # "rejected" /\ d.st # "none"
                                /\ d.count = (IF e.st = "none" THEN 1 ELSE e.count + 1)
  <2> SUFFICES ASSUME m.job \in Jobs
               PROVE  /\ d \in CountRecs
                      /\ d.st # "rejected" => /\ e.st # "rejected" /\ d.st # "none"
                                              /\ d.count = (IF e.st = "none" THEN 1 ELSE e.count + 1)
    OBVIOUS
  <2>1. e \in CountRecs
    BY DEF SubInv, SubTypes
  <2> HIDE DEF e
  <2>2. CASE e.st = "none"
    <3>1. d \in {[st |-> "rejected", count |-> 0], [st |-> "pending", count |-> 1]}
      BY <2>2 DEF WithSub
    <3> QED BY <2>2, <3>1 DEF CountRecs, SubStates
  <2>3. CASE e.st = "rejected"
    <3>1. d = e
      BY <2>3 DEF WithSub
    <3> QED BY <2>1, <2>3, <3>1
  <2>4. CASE e.st \notin {"none", "rejected"}
    <3>1. d = [e EXCEPT !.count = @ + 1]
      BY <2>4 DEF WithSub
    <3> QED BY <2>1, <2>4, <3>1 DEF CountRecs, SubStates
  <2> QED BY <2>2, <2>3, <2>4
<1> HIDE DEF d
<1>4. SubTypes'
  BY <1>1, <1>2, <1>3 DEF SubInv, SubTypes
<1>5. ASSUME NEW j \in Jobs PROVE Counted(p, j)'
  <2>1. CASE j = m.job
    <3>1. sub'[p][j] = d
      BY <1>2, <2>1 DEF SubInv, SubTypes
    <3>2. Plus(m, j) = 1 /\ Minus(m, j) = 0
      BY <1>1, <2>1, DeltaTypes
    <3>3. ASSUME d.st # "rejected", NEW k \in Nat, RightCount(e), k + 0 = e.count + 1
          PROVE  d.count = k /\ RightCount(d)
      BY <1>3, <2>1, <3>3 DEF RightCount
    <3> QED BY <1>1, <1>3, <2>1, <3>1, <3>2, <3>3, CountedReads
  <2>2. CASE j # m.job
    <3>1. sub'[p][j] = sub[p][j]
      BY <1>2, <2>2 DEF SubInv, SubTypes
    <3>2. Plus(m, j) = 0 /\ Minus(m, j) = 0
      BY <2>2, DeltaTypes
    <3> QED BY <1>1, <3>1, <3>2, CountedReads DEF RightCount
  <2> QED BY <2>1, <2>2
<1>6. ASSUME NEW q \in Pages, q # p PROVE sub'[q] = sub[q]
  BY <1>2, <1>6 DEF SubInv, SubTypes
<1> QED BY <1>1, <1>4, <1>5, <1>6, ReadsElse DEF AllCounted

LEMMA UnsubCounts ==
  ASSUME SubInv, UNCHANGED clientVars, NEW p \in Pages, NEW m \in Incoming(p), ReceiveUnsub(p, m)
  PROVE  SubTypes' /\ AllCounted'
<1>1. Reads(p) /\ m = Head(toServer[p]) /\ m.kind = "unsub" /\ UNCHANGED responds
  BY ArrivesReads DEF ReceiveUnsub
<1> DEFINE e == sub[p][m.job]
           d == WithoutSub(e)
<1>2. sub' = [sub EXCEPT ![p] = [sub[p] EXCEPT ![m.job] = d]]
  BY DEF ReceiveUnsub, SubInv, SubTypes
<1>3. m.job \in Jobs =>
        /\ d \in CountRecs
        /\ d.st # "rejected" => e.st # "rejected"
        /\ e.st = "none" => d = e
        /\ e.st = "live" => d.count = e.count - 1 /\ d.st = (IF e.count = 1 THEN "none" ELSE "live")
        /\ e.st = "pending" => d.count = e.count - 1 /\ d.st = "pending"
  <2> SUFFICES ASSUME m.job \in Jobs
               PROVE  /\ d \in CountRecs
                      /\ d.st # "rejected" => e.st # "rejected"
                      /\ e.st = "none" => d = e
                      /\ e.st = "live" => /\ d.count = e.count - 1
                                         /\ d.st = (IF e.count = 1 THEN "none" ELSE "live")
                      /\ e.st = "pending" => d.count = e.count - 1 /\ d.st = "pending"
    OBVIOUS
  <2>1. e \in CountRecs
    BY DEF SubInv, SubTypes
  <2> HIDE DEF e
  <2>2. CASE e.st = "live" /\ e.count = 1
    <3>1. d = NoSub
      BY <2>2 DEF WithoutSub
    <3> QED BY <2>2, <3>1 DEF NoSub, CountRecs, SubStates
  <2>3. CASE e.st \in {"live", "pending"} /\ ~(e.st = "live" /\ e.count = 1)
    <3>1. d = [e EXCEPT !.count = @ - 1]
      BY <2>3 DEF WithoutSub
    <3> QED BY <2>1, <2>3, <3>1 DEF CountRecs, SubStates
  <2>4. CASE e.st \notin {"live", "pending"}
    <3>1. d = e
      BY <2>4 DEF WithoutSub
    <3> QED BY <2>1, <2>4, <3>1 DEF CountRecs, SubStates
  <2> QED BY <2>2, <2>3, <2>4
<1> HIDE DEF d
<1>4. SubTypes'
  BY <1>1, <1>2, <1>3 DEF SubInv, SubTypes
<1>5. ASSUME NEW j \in Jobs PROVE Counted(p, j)'
  <2>1. CASE j = m.job
    <3>1. sub'[p][j] = d
      BY <1>2, <2>1 DEF SubInv, SubTypes
    <3>2. Plus(m, j) = 0 /\ Minus(m, j) = 1
      BY <1>1, <2>1, DeltaTypes
    <3>3. ASSUME d.st # "rejected", NEW k \in Nat, RightCount(e), k + 1 = e.count + 0
          PROVE  d.count = k /\ RightCount(d)
      <4>1. e.st \in {"none", "live", "pending"}
        BY <1>3, <2>1, <3>3 DEF SubInv, SubTypes, CountRecs, SubStates
      <4>2. e.st # "none"
        BY <3>3 DEF RightCount
      <4>3. e.st \in {"live", "pending"} /\ d.count = k
        BY <1>3, <2>1, <3>3, <4>1, <4>2 DEF RightCount
      <4> QED BY <1>3, <2>1, <3>3, <4>3 DEF RightCount
    <3> QED BY <1>1, <1>3, <2>1, <3>1, <3>2, <3>3, CountedReads
  <2>2. CASE j # m.job
    <3>1. sub'[p][j] = sub[p][j]
      BY <1>2, <2>2 DEF SubInv, SubTypes
    <3>2. Plus(m, j) = 0 /\ Minus(m, j) = 0
      BY <2>2, DeltaTypes
    <3> QED BY <1>1, <3>1, <3>2, CountedReads DEF RightCount
  <2> QED BY <2>1, <2>2
<1>6. ASSUME NEW q \in Pages, q # p PROVE sub'[q] = sub[q]
  BY <1>2, <1>6 DEF SubInv, SubTypes
<1> QED BY <1>1, <1>4, <1>5, <1>6, ReadsElse DEF AllCounted

LEMMA QueriedCounts ==
  ASSUME SubInv, UNCHANGED clientVars, NEW p \in Pages, NEW j \in Jobs, Queried(p, j)
  PROVE  SubTypes' /\ AllCounted'
<1> DEFINE e == sub[p][j]
<1>1. /\ e.st = "pending" /\ UNCHANGED <<link, toServer, responds>> /\ e \in CountRecs
  BY DEF Queried, linkVars, SubInv, SubTypes
<1>2. PICK d : /\ sub' = [sub EXCEPT ![p] = [sub[p] EXCEPT ![j] = d]]
               /\ d \in {IF e.count = 0 THEN NoSub ELSE [e EXCEPT !.st = "live"],
                         [st |-> "rejected", count |-> 0]}
  BY DEF Queried, SubInv, SubTypes
<1>3. /\ d \in CountRecs
      /\ d.st # "rejected" => d.count = e.count /\ d.st = (IF e.count = 0 THEN "none" ELSE "live")
  BY <1>1, <1>2 DEF CountRecs, SubStates, NoSub
<1>4. SubTypes'
  BY <1>1, <1>2, <1>3 DEF SubInv, SubTypes
<1>5. sub'[p][j] = d
  BY <1>2 DEF SubInv, SubTypes
<1>6. ASSUME d.st # "rejected", RightCount(e) PROVE RightCount(d)
  BY <1>3, <1>6 DEF RightCount
<1>7. Counted(p, j)'
  <2>1. Counted(p, j)
    BY DEF SubInv, AllCounted
  <2>2. link' = link /\ toServer' = toServer /\ responds' = responds
    BY <1>1
  <2>3. Cardinality(Subscribed(p, j))' = Cardinality(Subscribed(p, j))
    BY SubscribedKept
  <2> QED BY <1>1, <1>3, <1>5, <1>6, <2>1, <2>2, <2>3 DEF Counted
<1>8. ASSUME NEW q \in Pages, NEW i \in Jobs, q # p \/ i # j PROVE Counted(q, i)'
  <2>1. sub'[q][i] = sub[q][i]
    BY <1>2, <1>8 DEF SubInv, SubTypes
  <2> QED BY <1>1, <2>1, CountedSame, SubscribedKept DEF SubInv, AllCounted
<1> QED BY <1>4, <1>7, <1>8 DEF AllCounted

\* An unbind takes the listeners off the page's socket, or finds the entry
\* rejected and changes nothing.
LEMMA FinishCounts ==
  ASSUME SubInv, UNCHANGED clientVars, NEW p \in Pages, NEW r \in leaving[p], FinishLeaving(p, r)
  PROVE  SubTypes' /\ AllCounted'
<1>1. /\ UNCHANGED <<link, toServer>> /\ r.job \in Jobs
      /\ link[p] = "up" => r.cause = "unbind"
  BY DEF FinishLeaving, linkVars, SubInv, UpUnbinds, KeepInv, PageInv, Types, ServerTypes
<1>2. CASE sub[p][r.job].st = "rejected"
  <2>1. UNCHANGED <<sub, responds>>
    BY <1>2 DEF FinishLeaving
  <2> QED BY <1>1, <2>1, CountedElse DEF SubInv, SubTypes
<1>3. CASE sub[p][r.job].st # "rejected"
  <2>1. /\ sub' = [sub EXCEPT ![p] = [sub[p] EXCEPT ![r.job] = NoSub]]
        /\ responds' = [responds EXCEPT ![p] = @ /\ r.cause # "unbind"]
    BY <1>3 DEF FinishLeaving, SubInv, SubTypes
  <2>2. NoSub \in CountRecs
    BY DEF NoSub, CountRecs, SubStates
  <2>3. SubTypes'
    BY <1>1, <2>1, <2>2 DEF SubInv, SubTypes
  <2>4. ASSUME NEW q \in Pages, NEW j \in Jobs PROVE Counted(q, j)'
    <3>1. CASE q = p
      <4>1. link'[p] = "up" => ~responds'[p]
        BY <1>1, <2>1 DEF SubInv, SubTypes
      <4> QED BY <3>1, <4>1 DEF Counted
    <3>2. CASE q # p
      <4>1. sub'[q][j] = sub[q][j] /\ responds'[q] = responds[q]
        BY <2>1, <3>2 DEF SubInv, SubTypes
      <4> QED BY <1>1, <4>1, CountedSame, SubscribedKept DEF SubInv, AllCounted
    <3> QED BY <3>1, <3>2
  <2> QED BY <2>3, <2>4 DEF AllCounted
<1> QED BY <1>2, <1>3

LEMMA UpUnbindsKept == ASSUME SubInv, [Next]_vars PROVE UpUnbinds'
<1> USE DEF SubInv, KeepInv, PageInv, Types, MailTypes, ServerTypes, UpUnbinds
<1>1. ASSUME \A q \in Pages : link'[q] = "up" => link[q] = "up" /\ leaving'[q] \subseteq leaving[q]
      PROVE  UpUnbinds'
  BY <1>1
<1>2. ASSUME NEW p \in Pages, NEW m \in Incoming(p), ReceiveUnbind(p, m) PROVE UpUnbinds'
  <2>1. /\ link' = link
        /\ leaving' = [leaving EXCEPT ![p] = @ \union
             {Run(j, IF sessions[j] \subseteq {p} THEN InputTags ELSE {}, "unbind") : j \in {m.job} \intersect jobFns[p]}]
    BY <1>2 DEF ReceiveUnbind, Disassociate, Arrives
  <2> QED BY <2>1 DEF Run
<1>3. ASSUME NEW p \in Pages, HearDisconnect(p) PROVE UpUnbinds'
  <2>1. link' = [link EXCEPT ![p] = "gone"] /\ \A q \in Pages : q # p => leaving'[q] = leaving[q]
    BY <1>3 DEF HearDisconnect, Disassociate
  <2> QED BY <2>1
<1>4. ASSUME NEW p \in Pages, NEW r \in leaving[p], TerminateTag(p, r) PROVE UpUnbinds'
  <2>1. PICK t \in r.todo : leaving' = [leaving EXCEPT ![p] = (@ \ {r}) \union {Run(r.job, r.todo \ {t}, r.cause)}]
    BY <1>4 DEF TerminateTag
  <2>2. link' = link
    BY <1>4 DEF TerminateTag, linkVars
  <2> QED BY <2>1, <2>2 DEF Run
<1>5. ASSUME NEW p \in Pages, NEW r \in leaving[p], FinishLeaving(p, r) PROVE UpUnbinds'
  <2>1. link' = link /\ leaving' = [leaving EXCEPT ![p] = @ \ {r}]
    BY <1>5 DEF FinishLeaving, linkVars
  <2> QED BY <2>1
<1>6. ASSUME NEW p \in Pages,
             \/ Unheard(p) \/ \E j \in Jobs : Queried(p, j)
             \/ \E m \in Incoming(p) : ReceiveBind(p, m) \/ ReceiveSub(p, m) \/ ReceiveUnsub(p, m)
             \/ \E m \in binding[p] : Bind(p, m)
      PROVE  UpUnbinds'
  <2>1. UNCHANGED <<link, leaving>>
    BY Zenon, <1>6 DEF serverVars, linkVars, Unheard, Arrives, ReceiveBind, ReceiveSub, ReceiveUnsub, Queried,
       Bind, Bound
  <2> QED BY <1>1, <2>1
<1>7. ASSUME UNCHANGED serverVars, \A q \in Pages : link'[q] = "up" => link[q] = "up" PROVE UpUnbinds'
  BY <1>1, <1>7 DEF serverVars
<1>8. ASSUME NEW h \in Hooks,
             \/ MountFirst(h) \/ MountShared(h) \/ MountCancelsClose(h) \/ Unmount(h) \/ Subscribe(h)
      PROVE  link' = link
  BY Zenon, <1>8 DEF MountFirst, MountShared, MountCancelsClose, Mounts, Unmount, Subscribe
<1>9. ASSUME NEW c \in Conns, TimerFires(c) PROVE link' = link
  BY <1>9 DEF TimerFires
<1>10. ASSUME NEW p \in Pages, JobInfo(p) PROVE link' = link
  BY <1>10 DEF JobInfo
<1>11. ASSUME NEW p \in Pages, LosePage(p) PROVE \A q \in Pages : link'[q] = "up" => link[q] = "up"
  BY <1>11 DEF LosePage, LoseLink
<1>12. CASE UNCHANGED vars
  <2>1. link' = link /\ leaving' = leaving
    BY <1>12 DEF vars, linkVars, serverVars
  <2> QED BY <1>1, <2>1
<1> QED BY <1>2, <1>3, <1>4, <1>5, <1>6, <1>7, <1>8, <1>9, <1>10, <1>11, <1>12
        DEF Next, ServerSide, PageSide

LEMMA GatewayCounts ==
  ASSUME SubInv, UNCHANGED clientVars, NEW p \in Pages, GatewayStep(p)
  PROVE  SubTypes' /\ Subbed' /\ AllCounted'
<1>1. Subbed'
  BY DEF SubInv, Subbed, clientVars
<1>2. ASSUME UNCHANGED <<sub, responds>> PROVE SubTypes'
  BY <1>2 DEF SubInv, SubTypes
<1>3. CASE Unheard(p)
  <2>1. ~responds[p] /\ UNCHANGED <<sub, responds>> /\ Reads(p)
    BY <1>3, ArrivesReads DEF Unheard, serverVars
  <2>2. \A j \in Jobs : Counted(p, j)'
    BY <2>1 DEF Counted
  <2> QED BY <1>1, <1>2, <2>1, <2>2, ReadsElse DEF AllCounted
<1>4. ASSUME NEW m \in Incoming(p), ReceiveBind(p, m) \/ ReceiveUnbind(p, m) PROVE SubTypes' /\ AllCounted'
  <2>1. Reads(p) /\ UNCHANGED <<sub, responds>> /\ Head(toServer[p]).kind \notin {"sub", "unsub"}
    BY <1>4, ArrivesReads DEF ReceiveBind, ReceiveUnbind
  <2> QED BY <1>2, <2>1, OtherReadCounts
<1>5. CASE \/ HearDisconnect(p) \/ \E m \in binding[p] : Bind(p, m)
           \/ \E r \in leaving[p] : TerminateTag(p, r)
  <2>1. UNCHANGED <<sub, responds, toServer>> /\ (link' = link \/ link' = [link EXCEPT ![p] = "gone"])
    BY <1>5 DEF HearDisconnect, Bind, Bound, TerminateTag, linkVars
  <2>2. \A q \in Pages : link'[q] = "up" => link[q] = "up"
    BY <2>1 DEF SubInv, KeepInv, PageInv, Types, MailTypes
  <2> QED BY <1>1, <1>2, <2>1, <2>2, CountedElse
<1> QED BY <1>1, <1>3, <1>4, <1>5, SubCounts, UnsubCounts, QueriedCounts, FinishCounts
        DEF GatewayStep, Receive

-----------------------------------------------------------------------------
(* The steps of a page *)

\* Hook g stays subscribed, or not, to the same job.
SameSub(g) == /\ hook'[g].subbed <=> hook[g].subbed
              /\ hook[g].subbed => conn'[hook'[g].conn].job = conn[hook[g].conn].job

LEMMA SubscribedSame ==
  ASSUME NEW p, NEW j, \A g \in Hooks : Page(g) = p => SameSub(g)
  PROVE  Cardinality(Subscribed(p, j))' = Cardinality(Subscribed(p, j))
<1>1. Subscribed(p, j)' = Subscribed(p, j)
  BY DEF Subscribed, SameSub, Page
<1> QED BY <1>1

\* Page p sends x, and its subscribers change by what x says.
LEMMA SendCounts ==
  ASSUME SubInv, UNCHANGED <<link, sub, responds>>, NEW p \in Pages, NEW x \in Msgs, Emit(p, <<x>>),
         \A q \in Pages, j \in Jobs :
           Cardinality(Subscribed(q, j))' + (IF q = p THEN Minus(x, j) ELSE 0)
             = Cardinality(Subscribed(q, j)) + (IF q = p THEN Plus(x, j) ELSE 0),
         \A q \in Pages, j \in Jobs : Cardinality(Subscribed(q, j))' \in Nat
  PROVE  AllCounted'
<1>1. toServer[p] \in Seq(Msgs) /\ toServer' = [toServer EXCEPT ![p] = Append(toServer[p], x)]
  <2>1. toServer[p] \in Seq(Msgs)
    BY DEF SubInv, KeepInv, PageInv, Types, MailTypes
  <2>2. toServer[p] \o <<x>> = Append(toServer[p], x)
    BY <2>1, AppendOne
  <2> QED BY <2>1, <2>2 DEF Emit
<1>2. ASSUME NEW q \in Pages, NEW j \in Jobs PROVE Counted(q, j)'
  <2> DEFINE n == Cardinality(Subscribed(q, j))
  <2>1. n \in Nat /\ n' \in Nat /\ Counted(q, j)
    BY SubscribedFinite DEF SubInv, AllCounted
  <2>2. CASE q = p
    <3>1. n' + Minus(x, j) = n + Plus(x, j) /\ toServer'[p] = Append(toServer[p], x)
      BY <1>1, <2>2 DEF SubInv, KeepInv, PageInv, Types, MailTypes
    <3>2. n' \in Nat
      BY <2>1
    <3>3. \A m : Ledger(toServer[p], j, m, n) => Ledger(Append(toServer[p], x), j, m, n')
      <4> HIDE DEF n
      <4> QED BY <1>1, <3>1, <3>2, LedgerSends
    <3> QED BY <2>1, <2>2, <3>1, <3>3 DEF Counted
  <2>3. CASE q # p
    <3>1. n' = n /\ toServer'[q] = toServer[q]
      BY <1>1, <2>1, <2>3 DEF SubInv, KeepInv, PageInv, Types, MailTypes
    <3> QED BY <2>1, <3>1, CountedSame
  <2> QED BY <2>2, <2>3
<1> QED BY <1>2 DEF AllCounted

\* A page sends a request or an unbind, or nothing; its hooks stay subscribed.
LEMMA OtherCounts ==
  ASSUME SubInv, UNCHANGED <<link, sub, responds>>, NEW p \in Pages,
         \/ UNCHANGED toServer
         \/ \E x \in Msgs : x.kind \notin {"sub", "unsub"} /\ Emit(p, <<x>>),
         \A g \in Hooks : SameSub(g)
  PROVE  AllCounted'
<1>1. \A q \in Pages, j \in Jobs : Cardinality(Subscribed(q, j))' = Cardinality(Subscribed(q, j))
  BY SubscribedSame
<1>2. CASE UNCHANGED toServer
  BY <1>1, <1>2, CountedSame DEF SubInv, AllCounted
<1>3. ASSUME NEW x \in Msgs, x.kind \notin {"sub", "unsub"}, Emit(p, <<x>>) PROVE AllCounted'
  <2>1. \A j \in Jobs : Plus(x, j) = 0 /\ Minus(x, j) = 0
    BY <1>3, DeltaTypes
  <2>2. \A q \in Pages, j \in Jobs : Cardinality(Subscribed(q, j)) \in Nat
    BY SubscribedFinite
  <2> QED BY <1>1, <1>3, <2>1, <2>2, SendCounts
<1> QED BY <1>2, <1>3

LEMMA SubscribedHook ==
  ASSUME SubInv, NEW h \in Hooks, hook[h].subbed
  PROVE  hook[h].on /\ hook[h].conn \in Conns /\ conn[hook[h].conn].job \in Jobs
BY DEF SubInv, Subbed, KeepInv, PageInv, Types, ClientTypes

LEMMA MountCounts ==
  ASSUME SubInv, UNCHANGED serverVars, NEW h \in Hooks,
         MountFirst(h) \/ MountShared(h) \/ MountCancelsClose(h)
  PROVE  Subbed' /\ AllCounted'
<1>0. conn \in [Conns -> ConnRecs] /\ hook \in [Hooks -> HookRecs] /\ Page(h) \in Pages
      /\ UNCHANGED <<sub, responds>>
  BY PageInPages DEF SubInv, KeepInv, PageInv, Types, ClientTypes, serverVars
<1>1. ~hook[h].on /\ ~hook[h].subbed /\ link' = link
  BY DEF MountFirst, MountShared, MountCancelsClose, Mounts, SubInv, Subbed
<1>2. \A g \in Hooks : g # h => hook'[g] = hook[g]
  BY <1>0 DEF MountFirst, MountShared, MountCancelsClose, Mounts
<1>3. ~hook'[h].subbed
  <2>1. PICK c, o : Mounts(h, c, o)
    BY Zenon DEF MountFirst, MountShared, MountCancelsClose
  <2>2. hook' = [hook EXCEPT ![h] = [on |-> TRUE, conn |-> c, owner |-> o, subbed |-> FALSE]]
    BY <2>1 DEF Mounts
  <2> QED BY <1>0, <2>2
<1>4. \A c \in Conns : conn'[c].job = conn[c].job
  <2>1. CASE MountFirst(h)
    <3>1. PICK c \in Conns :
            /\ conn[c].st = "unused"
            /\ conn' = [conn EXCEPT ![c] = [st |-> "connecting", job |-> NoJob, key |-> KeyOf[h],
                                            asked |-> AskedJob[h], timer |-> "none"]]
      BY <2>1 DEF MountFirst
    <3>2. conn[c].job = NoJob
      BY <3>1 DEF SubInv, KeepInv, PageInv, Types, ClientTypes, Unused
    <3> QED BY <1>0, <3>1, <3>2
  <2>2. CASE MountShared(h)
    BY <2>2 DEF MountShared
  <2>3. CASE MountCancelsClose(h)
    <3>1. conn' = [conn EXCEPT ![cache[KeyOf[h]].conn].timer = IF @ = "armed" THEN "none" ELSE @]
      BY <2>3 DEF MountCancelsClose
    <3> QED BY <1>0, <3>1 DEF ConnRecs
  <2> QED BY <2>1, <2>2, <2>3
<1>5. \A g \in Hooks : SameSub(g)
  BY <1>1, <1>2, <1>3, <1>4, SubscribedHook DEF SameSub
<1>6. Subbed'
  BY <1>1, <1>2, <1>3, <1>4, SubscribedHook DEF SubInv, Subbed
<1>7. UNCHANGED toServer \/ \E x \in Msgs : x.kind \notin {"sub", "unsub"} /\ Emit(Page(h), <<x>>)
  <2>1. ASSUME NEW c \in Conns PROVE BindMsg(c, AskedJob[h]) \in Msgs /\ BindMsg(c, AskedJob[h]).kind = "bind"
    BY MessageTypes, ClientAssumption DEF Conns
  <2>2. MountFirst(h) => \E c \in Conns : Emit(Page(h), <<BindMsg(c, AskedJob[h])>>)
    BY Zenon DEF MountFirst
  <2> QED BY <2>1, <2>2 DEF MountShared, MountCancelsClose
<1> QED BY <1>0, <1>1, <1>5, <1>6, <1>7, OtherCounts

LEMMA SubscribeCounts ==
  ASSUME SubInv, UNCHANGED serverVars, NEW h \in Hooks, Subscribe(h)
  PROVE  Subbed' /\ AllCounted'
<1> DEFINE p == Page(h)  k == conn[hook[h].conn].job  x == JobMsg("sub", k)
<1>1. /\ p \in Pages /\ hook[h].on /\ ~hook[h].subbed /\ k # NoJob
      /\ hook' = [hook EXCEPT ![h].subbed = TRUE] /\ Emit(p, <<x>>)
      /\ UNCHANGED <<link, conn, sub, responds>> /\ hook \in [Hooks -> HookRecs]
  BY PageInPages DEF Subscribe, serverVars, SubInv, KeepInv, PageInv, Types, ClientTypes
<1>2. k \in Jobs
  BY <1>1 DEF SubInv, KeepInv, PageInv, Types, ClientTypes, ConnRecs
<1>3. x \in Msgs /\ x.kind = "sub" /\ x.job = k
  BY <1>2, MessageTypes
<1>4. /\ \A g \in Hooks : g # h => hook'[g] = hook[g]
      /\ hook'[h].subbed /\ hook'[h].on /\ hook'[h].conn = hook[h].conn
  BY <1>1 DEF HookRecs
<1>5. Subbed'
  BY <1>1, <1>2, <1>4 DEF SubInv, Subbed
<1> HIDE DEF x
<1>6. ASSUME NEW q \in Pages, NEW j \in Jobs
      PROVE  /\ Cardinality(Subscribed(q, j))' \in Nat
             /\ Cardinality(Subscribed(q, j))' + (IF q = p THEN Minus(x, j) ELSE 0)
                  = Cardinality(Subscribed(q, j)) + (IF q = p THEN Plus(x, j) ELSE 0)
  <2> DEFINE S == Subscribed(q, j)
  <2>1. IsFiniteSet(S) /\ Cardinality(S) \in Nat
    BY SubscribedFinite
  <2>2. CASE q = p /\ j = k
    <3>1. S' = S \union {h} /\ h \notin S
      BY <1>1, <1>4, <2>2 DEF Subscribed, Page
    <3>2. Cardinality(S') = Cardinality(S) + 1
      <4> HIDE DEF S
      <4> QED BY <2>1, <3>1, FS_AddElement
    <3>3. Plus(x, j) = 1 /\ Minus(x, j) = 0
      BY <1>3, <2>2, DeltaTypes
    <3> QED BY <2>1, <2>2, <3>2, <3>3
  <2>3. CASE ~(q = p /\ j = k)
    <3>1. S' = S
      BY <1>1, <1>4, <2>3 DEF Subscribed, Page
    <3>2. q = p => Plus(x, j) = 0 /\ Minus(x, j) = 0
      BY <1>3, <2>3, DeltaTypes
    <3>3. Cardinality(S') = Cardinality(S)
      BY <3>1
    <3> QED BY <2>1, <3>2, <3>3
  <2> QED BY <2>2, <2>3
<1> QED BY <1>1, <1>3, <1>5, <1>6, SendCounts

LEMMA UnmountCounts ==
  ASSUME SubInv, UNCHANGED serverVars, NEW h \in Hooks, Unmount(h)
  PROVE  Subbed' /\ AllCounted'
<1> DEFINE p == Page(h)  k == conn[hook[h].conn].job  x == JobMsg("unsub", k)
<1>1. /\ p \in Pages /\ hook' = [hook EXCEPT ![h] = Unmounted]
      /\ UNCHANGED <<link, sub, responds>> /\ hook \in [Hooks -> HookRecs]
      /\ IF hook[h].subbed THEN Emit(p, <<x>>) ELSE UNCHANGED toServer
  BY PageInPages DEF Unmount, serverVars, SubInv, KeepInv, PageInv, Types, ClientTypes
<1>2. \A c \in Conns : conn'[c].job = conn[c].job
  <2>1. conn' = conn \/ conn' = [conn EXCEPT ![hook[h].conn].timer = "armed"]
    BY DEF Unmount
  <2> QED BY <2>1 DEF SubInv, KeepInv, PageInv, Types, ClientTypes, ConnRecs
<1>3. /\ \A g \in Hooks : g # h => hook'[g] = hook[g]
      /\ ~hook'[h].subbed
  BY <1>1 DEF Unmounted
<1>4. Subbed'
  BY <1>2, <1>3, SubscribedHook DEF SubInv, Subbed
<1>5. CASE ~hook[h].subbed
  <2>1. \A g \in Hooks : SameSub(g)
    BY <1>2, <1>3, <1>5, SubscribedHook DEF SameSub
  <2> QED BY <1>1, <1>4, <1>5, <2>1, OtherCounts
<1>6. CASE hook[h].subbed
  <2>1. k \in Jobs
    BY <1>6, SubscribedHook
  <2>2. x \in Msgs /\ x.kind = "unsub" /\ x.job = k
    BY <2>1, MessageTypes
  <2> HIDE DEF x
  <2>3. ASSUME NEW q \in Pages, NEW j \in Jobs
        PROVE  /\ Cardinality(Subscribed(q, j))' \in Nat
               /\ Cardinality(Subscribed(q, j))' + (IF q = p THEN Minus(x, j) ELSE 0)
                    = Cardinality(Subscribed(q, j)) + (IF q = p THEN Plus(x, j) ELSE 0)
    <3> DEFINE S == Subscribed(q, j)
    <3>1. IsFiniteSet(S) /\ Cardinality(S) \in Nat
      BY SubscribedFinite
    <3>2. CASE q = p /\ j = k
      <4>1. S' = S \ {h} /\ h \in S
        BY <1>2, <1>3, <1>6, <3>2, SubscribedHook DEF Subscribed, Page
      <4>2. Cardinality(S') = Cardinality(S) - 1
        <5> HIDE DEF S
        <5> QED BY <3>1, <4>1, FS_RemoveElement
      <4>3. Cardinality(S) # 0
        BY <4>1, SubscribedFinite
      <4>4. Plus(x, j) = 0 /\ Minus(x, j) = 1
        BY <2>2, <3>2, DeltaTypes
      <4> QED BY <3>1, <3>2, <4>2, <4>3, <4>4
    <3>3. CASE ~(q = p /\ j = k)
      <4>1. S' = S
        BY <1>2, <1>3, <1>6, <3>3, SubscribedHook DEF Subscribed, Page
      <4>2. q = p => Plus(x, j) = 0 /\ Minus(x, j) = 0
        BY <2>2, <3>3, DeltaTypes
      <4>3. Cardinality(S') = Cardinality(S)
        BY <4>1
      <4> QED BY <3>1, <4>2, <4>3
    <3> QED BY <3>2, <3>3
  <2> QED BY <1>1, <1>4, <1>6, <2>2, <2>3, SendCounts
<1> QED BY <1>5, <1>6

LEMMA TimerCounts ==
  ASSUME SubInv, UNCHANGED serverVars, NEW c \in Conns, TimerFires(c)
  PROVE  Subbed' /\ AllCounted'
<1> DEFINE p == PageOf[conn[c].key]  x == JobMsg("unbind", conn[c].job)
<1>1. Live(c) /\ UNCHANGED <<link, hook, sub, responds>> /\ conn \in [Conns -> ConnRecs]
  BY DEF TimerFires, serverVars, SubInv, KeepInv, PageInv, ConnInv, Types, ClientTypes
<1>2. p \in Pages /\ x \in Msgs /\ x.kind = "unbind"
  BY <1>1, ConnPage, MessageTypes DEF Live, ConnRecs, SubInv, KeepInv, PageInv
<1>3. /\ UNCHANGED toServer \/ Emit(p, <<x>>)
      /\ \/ conn' = [conn EXCEPT ![c].st = "closed", ![c].timer = "none"]
         \/ conn' = [conn EXCEPT ![c].timer = "fired"]
  BY DEF TimerFires, Close
<1>4. \A d \in Conns : conn'[d].job = conn[d].job
  BY <1>1, <1>3 DEF ConnRecs
<1>5. \A g \in Hooks : SameSub(g)
  BY <1>1, <1>4, SubscribedHook DEF SameSub
<1>6. Subbed'
  BY <1>1, <1>4, SubscribedHook DEF SubInv, Subbed
<1> HIDE DEF p, x
<1> QED BY <1>1, <1>2, <1>3, <1>5, <1>6, OtherCounts

LEMMA InfoCounts ==
  ASSUME SubInv, UNCHANGED serverVars, NEW p \in Pages, JobInfo(p)
  PROVE  Subbed' /\ AllCounted'
<1>1. PICK c \in Conns, j \in Jobs \union {NoJob} :
        /\ c = Head(toPage[p]).req /\ j = Head(toPage[p]).job /\ c \in Awaiting(p)
  BY AnswerIsAwaited DEF JobInfo, Msgs, Awaiting, SubInv, KeepInv, PageInv, Types, MailTypes
<1>2. conn[c].job = NoJob /\ conn \in [Conns -> ConnRecs]
  BY <1>1 DEF Awaiting, SubInv, KeepInv, Jobless, HasJob, PageInv, Types, ClientTypes
<1>3. /\ UNCHANGED <<link, hook, sub, responds>>
      /\ \/ UNCHANGED toServer \/ Emit(p, <<JobMsg("unbind", j)>>)
      /\ \/ conn' = [conn EXCEPT ![c].st = "closed", ![c].timer = "none", ![c].job = j]
         \/ conn' = [conn EXCEPT ![c].st = "open", ![c].job = j]
  BY Zenon, <1>1 DEF JobInfo, serverVars
<1>4. \A d \in Conns : conn[d].job \in Jobs => conn'[d].job = conn[d].job
  BY <1>2, <1>3, LinkAssumption
<1>5. \A g \in Hooks : SameSub(g)
  BY <1>3, <1>4, SubscribedHook DEF SameSub
<1>6. Subbed'
  BY <1>3, <1>4, SubscribedHook DEF SubInv, Subbed
<1>7. JobMsg("unbind", j) \in Msgs /\ JobMsg("unbind", j).kind = "unbind"
  BY MessageTypes
<1> QED BY <1>3, <1>5, <1>6, <1>7, OtherCounts

LEMMA LoseCounts ==
  ASSUME SubInv, UNCHANGED serverVars, NEW p \in Pages, LosePage(p)
  PROVE  Subbed' /\ AllCounted'
<1>1. /\ link' = [link EXCEPT ![p] = "lost"] /\ UNCHANGED <<sub, responds>>
      /\ hook' = [h \in Hooks |-> IF Page(h) = p THEN Unmounted ELSE hook[h]]
      /\ \A q \in Pages : q # p => toServer'[q] = toServer[q]
  <2>1. PICK n : toServer' = [toServer EXCEPT ![p] = SubSeq(@, 1, n)]
    BY Zenon DEF LosePage, LoseLink
  <2>2. \A q \in Pages : q # p => toServer'[q] = toServer[q]
    BY <2>1 DEF SubInv, KeepInv, PageInv, Types, MailTypes
  <2> QED BY <2>2 DEF LosePage, LoseLink, serverVars
<1>2. ASSUME NEW c \in Conns PROVE conn'[c].job = conn[c].job
  <2>1. conn'[c] = conn[c] \/ conn'[c] = [conn[c] EXCEPT !.st = "closed", !.timer = "none"]
    BY Zenon DEF LosePage
  <2>2. conn[c] \in ConnRecs
    BY DEF SubInv, KeepInv, PageInv, Types, ClientTypes
  <2> QED BY <2>1, <2>2 DEF ConnRecs
<1>3. \A g \in Hooks : \/ Page(g) = p /\ ~hook'[g].subbed
                       \/ Page(g) # p /\ hook'[g] = hook[g]
  BY <1>1 DEF Unmounted
<1>4. Subbed'
  BY <1>2, <1>3, SubscribedHook DEF SubInv, Subbed
<1>5. ASSUME NEW q \in Pages, NEW j \in Jobs PROVE Counted(q, j)'
  <2>1. CASE q = p
    <3>1. link'[p] # "up"
      BY <1>1 DEF SubInv, KeepInv, PageInv, Types, MailTypes
    <3> QED BY <2>1, <3>1 DEF Counted
  <2>2. CASE q # p
    <3>1. \A g \in Hooks : Page(g) = q => SameSub(g)
      BY <1>2, <1>3, <2>2, SubscribedHook DEF SameSub
    <3>2. link'[q] = link[q] /\ toServer'[q] = toServer[q] /\ sub'[q][j] = sub[q][j] /\ responds' = responds
      BY <1>1, <2>2 DEF SubInv, KeepInv, PageInv, Types, MailTypes
    <3>3. Cardinality(Subscribed(q, j))' = Cardinality(Subscribed(q, j))
      BY <3>1, SubscribedSame
    <3> QED BY <3>2, <3>3, CountedSame DEF SubInv, AllCounted
  <2> QED BY <2>1, <2>2
<1> QED BY <1>4, <1>5 DEF AllCounted

-----------------------------------------------------------------------------
LEMMA SubInvKept == ASSUME SubInv, [Next]_vars PROVE SubInv'
<1>1. KeepInv' /\ UpUnbinds'
  BY KeepInvKept, UpUnbindsKept DEF SubInv
<1>2. UNCHANGED serverVars => SubTypes'
  BY DEF serverVars, SubInv, SubTypes
<1>3. CASE UNCHANGED vars
  <2>1. UNCHANGED <<link, toServer, sub, responds>> /\ UNCHANGED clientVars
    BY <1>3 DEF vars, linkVars, serverVars
  <2>2. Subbed' /\ SubTypes'
    BY <2>1 DEF clientVars, SubInv, Subbed, SubTypes
  <2> QED BY <1>1, <2>1, <2>2, CountedElse DEF SubInv
<1>4. ASSUME NEW p \in Pages, UNCHANGED clientVars, GatewayStep(p) PROVE SubInv'
  BY <1>1, <1>4, GatewayCounts DEF SubInv
<1>5. ASSUME UNCHANGED serverVars, Subbed', AllCounted' PROVE SubInv'
  BY <1>1, <1>2, <1>5 DEF SubInv
<1> QED BY <1>3, <1>4, <1>5, MountCounts, SubscribeCounts, UnmountCounts, TimerCounts, InfoCounts, LoseCounts
        DEF Next, ServerSide, PageSide, GatewayStep, Receive

\* Once the messages of a page that is there have been handled, the count of its
\* entry for a job (gateway/src/LiveGatewayConn.ts, subByJobIdAndTag) is the
\* number of the page's hooks that have subscribed, and the gateway transmits the
\* job's output exactly as long as there is one, however the subscribing and
\* unsubscribing of hooks met the query for past values.
THEOREM SubscribersCounted == Spec => []SubsCounted
<1>1. SubInv => SubsCounted
  <2> SUFFICES ASSUME SubInv, NEW p \in Pages, NEW j \in Jobs,
                      link[p] = "up", toServer[p] = <<>>, responds[p],
                      sub[p][j].st \in {"none", "live"}
               PROVE  /\ sub[p][j].count = Cardinality(Subscribed(p, j))
                      /\ (sub[p][j].st = "live") = (Subscribed(p, j) # {})
    BY DEF SubsCounted
  <2>1. RightCount(sub[p][j]) /\ Ledger(<<>>, j, sub[p][j].count, Cardinality(Subscribed(p, j)))
    BY DEF SubInv, AllCounted, Counted
  <2>2. sub[p][j].count = Cardinality(Subscribed(p, j))
    BY <2>1, LedgerEmpty
  <2>3. Cardinality(Subscribed(p, j)) = 0 <=> Subscribed(p, j) = {}
    BY SubscribedFinite
  <2>4. sub[p][j].st = "live" <=> Subscribed(p, j) # {}
    BY <2>1, <2>2, <2>3 DEF RightCount
  <2> QED BY <2>2, <2>4
<1> QED BY <1>1, SubInvInit, SubInvKept, PTL DEF Spec
=============================================================================
