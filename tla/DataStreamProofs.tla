-------------------------- MODULE DataStreamProofs --------------------------
(* Proofs about DataStream for any number of writers, readers, loops and    *)
(* sends: type correctness, the order in which sends are added, and that    *)
(* the loops of each collector together read like one reader of the         *)
(* abstract broadcast log, and what mostRecent returns of an ended stream.  *)
EXTENDS DataStream, SequenceTheorems, TLAPS

\* The limiter: a send starts only when all earlier ones have settled.
InTurn ==
  \A w \in Writers : \A m, n \in 1 .. Len(sends[w]) :
    m < n /\ sends[w][n].ack # "queued" => sends[w][m].ack \in {"ok", "error"}

\* The handler works only on sends that were started, and accepts what it added.
HandlerFollows ==
  \A w \in Writers : \A n \in 1 .. Len(sends[w]) :
    /\ sends[w][n].srv # "unseen" => sends[w][n].ack # "queued"
    /\ sends[w][n].ack = "ok" => sends[w][n].srv = "added"

\* The log holds exactly the sends the handler has added.
LogIsAdded ==
  /\ \A i \in 1 .. Len(log) :
       log[i][2] \in 1 .. Len(sends[log[i][1]]) /\ sends[log[i][1]][log[i][2]].srv = "added"
  /\ \A w \in Writers : \A n \in 1 .. Len(sends[w]) :
       sends[w][n].srv = "added" => \E i \in 1 .. Len(log) : log[i] = <<w, n>>

SendInv == InTurn /\ HandlerFollows /\ LogIsAdded /\ SendOrder

Rising(s) == \A i, j \in DOMAIN s : i < j => s[i] < s[j]

\* What a reader holds lies behind the cursor, and is handed out oldest first.
FlowOrder(r) ==
  /\ Rising(queue[r]) /\ Rising(wire[r])
  /\ \A q \in Range(queue[r]) : \A x \in Range(wire[r]) : q < x
  /\ \A h \in Handed(r) : \A x \in Range(queue[r]) \union Range(wire[r]) : h < x
  /\ Handed(r) \union Range(queue[r]) \union Range(wire[r]) \subseteq 1 .. cursor[r]

\* A nextValue call waits only while no value is queued.
NobodyWaitsBesideValue(r) == waiting[r] # <<>> => queue[r] = <<>>

\* No entry behind the cursor is missing but those that were trimmed.
Accounted(r) ==
  \A i \in 1 .. cursor[r] :
    i \in Handed(r) \union Range(queue[r]) \union Range(wire[r]) \/ i <= trimmed

\* Among what was handed out there is a newest entry.
HasNewest(r) == Handed(r) # {} => \E m \in Handed(r) : \A h \in Handed(r) : h <= m

\* OneTaker of one reader.
TakenOnce(r) ==
  /\ \A l \in Loops : Rising(got[r][l])
  /\ \A k, l \in Loops : k # l => Range(got[r][k]) \intersect Range(got[r][l]) = {}

ReaderInv(r) ==
  FlowOrder(r) /\ NobodyWaitsBesideValue(r) /\ Accounted(r) /\ HasNewest(r) /\ TakenOnce(r)

ReadInv == \A r \in Readers : ReaderInv(r)

-----------------------------------------------------------------------------
(* Lemmas about rising sequences and updates of the state *)

LEMMA AppendRises ==
  ASSUME NEW s \in Seq(Nat), NEW x \in Nat, Rising(s), \A y \in Range(s) : y < x
  PROVE  /\ Append(s, x) \in Seq(Nat) /\ Rising(Append(s, x))
         /\ Range(Append(s, x)) = Range(s) \union {x}
<1> DEFINE t == Append(s, x)
<1>1. /\ t \in Seq(Nat) /\ Len(t) = Len(s) + 1 /\ t[Len(s) + 1] = x
      /\ \A i \in 1 .. Len(s) : t[i] = s[i]
  BY AppendProperties
<1>2. DOMAIN s = 1 .. Len(s) /\ DOMAIN t = 1 .. Len(s) + 1 /\ Len(s) \in Nat
  BY <1>1
<1> HIDE DEF t
<1>3. Rising(t)
  <2> SUFFICES ASSUME NEW i \in 1 .. Len(s) + 1, NEW j \in 1 .. Len(s) + 1, i < j
               PROVE  t[i] < t[j]
    BY <1>2 DEF Rising
  <2>1. i \in 1 .. Len(s) /\ t[i] = s[i] /\ s[i] \in Range(s)
    BY <1>1, <1>2 DEF Range
  <2>2. CASE j = Len(s) + 1
    BY <1>1, <2>1, <2>2
  <2>3. CASE j # Len(s) + 1
    <3>1. j \in 1 .. Len(s) /\ i \in DOMAIN s
      BY <1>2, <2>1, <2>3
    <3>2. t[j] = s[j] /\ j \in DOMAIN s
      BY <1>1, <1>2, <3>1
    <3>3. s[i] < s[j]
      BY <3>1, <3>2 DEF Rising
    <3>4. QED
      BY <2>1, <3>2, <3>3
  <2>4. QED
    BY <2>2, <2>3
<1>4. Range(t) = Range(s) \union {x}
  <2>1. \A i \in 1 .. Len(s) + 1 : t[i] \in Range(s) \union {x}
    <3> TAKE i \in 1 .. Len(s) + 1
    <3>1. CASE i = Len(s) + 1
      BY <1>1, <3>1
    <3>2. CASE i # Len(s) + 1
      BY <1>1, <1>2, <3>2 DEF Range
    <3>3. QED
      BY <3>1, <3>2
  <2>2. x \in Range(t) /\ \A i \in 1 .. Len(s) : s[i] \in Range(t)
    <3>1. Len(s) + 1 \in DOMAIN t /\ 1 .. Len(s) \subseteq DOMAIN t
      BY <1>2
    <3>2. QED
      BY <1>1, <3>1 DEF Range
  <2>3. QED
    BY <1>2, <2>1, <2>2 DEF Range
<1>5. QED
  BY <1>1, <1>3, <1>4 DEF t

LEMMA TailRises ==
  ASSUME NEW s \in Seq(Nat), s # <<>>, Rising(s)
  PROVE  /\ Tail(s) \in Seq(Nat) /\ Head(s) \in Nat /\ Rising(Tail(s))
         /\ Range(s) = Range(Tail(s)) \union {Head(s)}
         /\ \A y \in Range(Tail(s)) : Head(s) < y
<1> DEFINE t == Tail(s)
<1>1. /\ t \in Seq(Nat) /\ Head(s) \in Nat /\ Len(t) = Len(s) - 1
      /\ \A i \in 1 .. Len(t) : t[i] = s[i + 1]
  BY HeadTailProperties
<1>2. Head(s) = s[1] /\ Len(s) \in Nat \ {0}
  OBVIOUS
<1>3. DOMAIN s = 1 .. Len(s) /\ DOMAIN t = 1 .. Len(s) - 1
  BY <1>1, <1>2
<1> HIDE DEF t
<1>4. Rising(t) /\ \A y \in Range(t) : Head(s) < y
  <2>1. Rising(t)
    <3> SUFFICES ASSUME NEW i \in 1 .. Len(s) - 1, NEW j \in 1 .. Len(s) - 1, i < j
                 PROVE  t[i] < t[j]
      BY <1>3 DEF Rising
    <3>1. t[i] = s[i + 1] /\ t[j] = s[j + 1] /\ i + 1 \in DOMAIN s /\ j + 1 \in DOMAIN s
      BY <1>1, <1>2, <1>3
    <3>2. QED
      BY <3>1 DEF Rising
  <2>2. \A i \in 1 .. Len(s) - 1 : Head(s) < t[i]
    <3> TAKE i \in 1 .. Len(s) - 1
    <3>1. t[i] = s[i + 1] /\ i + 1 \in DOMAIN s /\ 1 \in DOMAIN s /\ 1 < i + 1
      BY <1>1, <1>2, <1>3
    <3>2. QED
      BY <1>2, <3>1 DEF Rising
  <2>3. QED
    BY <1>3, <2>1, <2>2 DEF Range
<1>5. Range(s) = Range(t) \union {Head(s)}
  <2>1. \A i \in 1 .. Len(s) : s[i] \in Range(t) \union {Head(s)}
    <3> TAKE i \in 1 .. Len(s)
    <3>1. CASE i = 1
      BY <1>2, <3>1
    <3>2. CASE i # 1
      <4>1. i - 1 \in 1 .. Len(s) - 1 /\ t[i - 1] = s[i]
        BY <1>1, <1>2, <3>2
      <4>2. QED
        BY <1>3, <4>1 DEF Range
    <3>3. QED
      BY <3>1, <3>2
  <2>2. Head(s) \in Range(s) /\ \A i \in 1 .. Len(s) - 1 : t[i] \in Range(s)
    <3>1. 1 \in DOMAIN s /\ \A i \in 1 .. Len(s) - 1 : i + 1 \in DOMAIN s /\ t[i] = s[i + 1]
      BY <1>1, <1>2, <1>3
    <3>2. QED
      BY <1>2, <3>1 DEF Range
  <2>3. QED
    BY <1>3, <2>1, <2>2 DEF Range
<1>6. QED
  BY <1>1, <1>4, <1>5 DEF t

LEMMA EntriesAreNumbers ==
  ASSUME NEW s \in Seq(Nat)
  PROVE  \A y \in Range(s) : y \in Nat
<1>1. \A i \in DOMAIN s : s[i] \in Nat
  OBVIOUS
<1>2. QED
  BY <1>1 DEF Range

\* How a step changes the sends: it replaces one, or one field of it.
Replaces(w, n, rec) == sends' = [sends EXCEPT ![w] = [sends[w] EXCEPT ![n] = rec]]
SetsAck(w, n, a) == sends' = [sends EXCEPT ![w][n].ack = a]
SetsStage(w, n, v) == sends' = [sends EXCEPT ![w][n].srv = v]

\* One send is replaced.
LEMMA SendReplaced ==
  ASSUME TypeOK, NEW w \in Writers, NEW n \in 1 .. Len(sends[w]), NEW rec \in Sends,
         Replaces(w, n, rec)
  PROVE  /\ sends' \in [Writers -> Seq(Sends)]
         /\ \A x \in Writers : Len(sends'[x]) = Len(sends[x])
         /\ sends'[w][n] = rec
         /\ \A x \in Writers : \A k \in 1 .. Len(sends[x]) :
              x # w \/ k # n => sends'[x][k] = sends[x][k]
<1>1. /\ sends \in [Writers -> Seq(Sends)] /\ sends[w] \in Seq(Sends)
      /\ DOMAIN sends[w] = 1 .. Len(sends[w])
  BY DEF TypeOK
<1> DEFINE new == [sends[w] EXCEPT ![n] = rec]
<1>2. /\ new \in Seq(Sends) /\ Len(new) = Len(sends[w]) /\ new[n] = rec
      /\ \A k \in 1 .. Len(sends[w]) : k # n => new[k] = sends[w][k]
  BY <1>1
<1> HIDE DEF new
<1>3. /\ sends'[w] = new /\ \A x \in Writers \ {w} : sends'[x] = sends[x]
      /\ sends' \in [Writers -> Seq(Sends)]
  BY <1>1, <1>2 DEF new, Replaces
<1>4. QED
  BY <1>2, <1>3

\* Only what its sender knows of a send changes.
LEMMA AckChanges ==
  ASSUME TypeOK, NEW w \in Writers, NEW n \in 1 .. Len(sends[w]), NEW a \in Acks,
         SetsAck(w, n, a)
  PROVE  /\ sends' \in [Writers -> Seq(Sends)]
         /\ \A x \in Writers : Len(sends'[x]) = Len(sends[x])
         /\ sends'[w][n].ack = a /\ sends'[w][n].srv = sends[w][n].srv
         /\ \A x \in Writers : \A k \in 1 .. Len(sends[x]) :
              x # w \/ k # n => sends'[x][k] = sends[x][k]
<1> DEFINE rec == [sends[w][n] EXCEPT !.ack = a]
<1>1. sends[w] \in Seq(Sends) /\ sends[w][n] \in Sends
  BY DEF TypeOK
<1>2. rec \in Sends /\ rec.ack = a /\ rec.srv = sends[w][n].srv
  BY <1>1 DEF Sends
<1>3. Replaces(w, n, rec)
  BY DEF SetsAck, Replaces
<1> HIDE DEF rec
<1>4. QED
  BY <1>2, <1>3, SendReplaced

\* Only the stage of the handler of a send changes.
LEMMA StageChanges ==
  ASSUME TypeOK, NEW w \in Writers, NEW n \in 1 .. Len(sends[w]), NEW v \in ServerStages,
         SetsStage(w, n, v)
  PROVE  /\ sends' \in [Writers -> Seq(Sends)]
         /\ \A x \in Writers : Len(sends'[x]) = Len(sends[x])
         /\ sends'[w][n].ack = sends[w][n].ack /\ sends'[w][n].srv = v
         /\ \A x \in Writers : \A k \in 1 .. Len(sends[x]) :
              x # w \/ k # n => sends'[x][k] = sends[x][k]
<1> DEFINE rec == [sends[w][n] EXCEPT !.srv = v]
<1>1. sends[w] \in Seq(Sends) /\ sends[w][n] \in Sends
  BY DEF TypeOK
<1>2. rec \in Sends /\ rec.srv = v /\ rec.ack = sends[w][n].ack
  BY <1>1 DEF Sends
<1>3. Replaces(w, n, rec)
  BY DEF SetsStage, Replaces
<1> HIDE DEF rec
<1>4. QED
  BY <1>2, <1>3, SendReplaced

\* A new send is queued behind those its writer has called.
LEMMA SendAdded ==
  ASSUME TypeOK, NEW w \in Writers, Call(w)
  PROVE  /\ sends' \in [Writers -> Seq(Sends)]
         /\ Len(sends'[w]) = Len(sends[w]) + 1 /\ Len(sends[w]) \in Nat
         /\ Len(sends'[w]) <= SendBound
         /\ \A x \in Writers \ {w} : sends'[x] = sends[x]
         /\ \A n \in 1 .. Len(sends[w]) : sends'[w][n] = sends[w][n]
         /\ sends'[w][Len(sends[w]) + 1].ack = "queued"
         /\ sends'[w][Len(sends[w]) + 1].srv = "unseen"
<1>1. sends \in [Writers -> Seq(Sends)] /\ sends[w] \in Seq(Sends) /\ Len(sends[w]) \in Nat
  BY DEF TypeOK
<1>2. PICK end \in BOOLEAN :
        sends' = [sends EXCEPT ![w] =
                    Append(@, [end |-> end, ack |-> "queued", srv |-> "unseen"])]
  BY DEF Call
<1> DEFINE rec == [end |-> end, ack |-> "queued", srv |-> "unseen"]
<1>3. rec \in Sends /\ rec.ack = "queued" /\ rec.srv = "unseen"
  BY DEF Sends, Acks, ServerStages
<1> HIDE DEF rec
<1>4. /\ Append(sends[w], rec) \in Seq(Sends)
      /\ Len(Append(sends[w], rec)) = Len(sends[w]) + 1
      /\ \A n \in 1 .. Len(sends[w]) : Append(sends[w], rec)[n] = sends[w][n]
      /\ Append(sends[w], rec)[Len(sends[w]) + 1] = rec
  BY <1>1, <1>3, AppendProperties
<1>5. sends' = [sends EXCEPT ![w] = Append(sends[w], rec)]
  BY <1>2 DEF rec
<1>6. sends'[w] = Append(sends[w], rec) /\ \A x \in Writers \ {w} : sends'[x] = sends[x]
  BY <1>1, <1>5
<1>7. Len(sends[w]) < SendBound
  BY DEF Call
<1>8. QED
  BY <1>1, <1>3, <1>4, <1>5, <1>6, <1>7, StreamAssumption

\* The loop takes an entry newer than all that were handed out before.
LEMMA HandStep ==
  ASSUME TypeOK, NEW r \in Readers, NEW l \in Loops, NEW i \in Nat, Hand(r, l, i)
  PROVE  /\ got' \in [Readers -> [Loops -> Seq(Nat)]] /\ done' \in [Readers -> SUBSET Loops]
         /\ Handed(r)' = Handed(r) \union {i}
         /\ \A q \in Readers \ {r} : got'[q] = got[q] /\ Handed(q)' = Handed(q)
         /\ \A k \in Loops \ {l} : got'[r][k] = got[r][k]
         /\ got'[r][l] = Append(got[r][l], i) /\ Range(got'[r][l]) = Range(got[r][l]) \union {i}
<1>1. got \in [Readers -> [Loops -> Seq(Nat)]] /\ got[r] \in [Loops -> Seq(Nat)]
      /\ got[r][l] \in Seq(Nat) /\ done \in [Readers -> SUBSET Loops]
  BY DEF TypeOK
<1>2. got' = [got EXCEPT ![r] = [got[r] EXCEPT ![l] = Append(got[r][l], i)]]
  BY DEF Hand
<1> DEFINE new == Append(got[r][l], i)
<1>3. /\ new \in Seq(Nat) /\ Len(new) = Len(got[r][l]) + 1 /\ new[Len(got[r][l]) + 1] = i
      /\ \A j \in 1 .. Len(got[r][l]) : new[j] = got[r][l][j]
  BY <1>1, AppendProperties
<1>4. DOMAIN new = 1 .. Len(got[r][l]) + 1 /\ DOMAIN got[r][l] = 1 .. Len(got[r][l])
      /\ Len(got[r][l]) \in Nat
  BY <1>1, <1>3
<1> HIDE DEF new
<1>5. got' = [got EXCEPT ![r] = [got[r] EXCEPT ![l] = new]]
  BY <1>2 DEF new
<1>6. /\ got'[r] = [got[r] EXCEPT ![l] = new] /\ got'[r][l] = new
      /\ \A k \in Loops \ {l} : got'[r][k] = got[r][k]
      /\ \A q \in Readers \ {r} : got'[q] = got[q]
      /\ got' \in [Readers -> [Loops -> Seq(Nat)]]
  BY <1>1, <1>3, <1>5
<1>7. Range(new) = Range(got[r][l]) \union {i}
  <2>1. \A j \in 1 .. Len(got[r][l]) + 1 : new[j] \in Range(got[r][l]) \union {i}
    <3> TAKE j \in 1 .. Len(got[r][l]) + 1
    <3>1. CASE j = Len(got[r][l]) + 1
      BY <1>3, <3>1
    <3>2. CASE j # Len(got[r][l]) + 1
      BY <1>3, <1>4, <3>2 DEF Range
    <3>3. QED
      BY <3>1, <3>2
  <2>2. i \in Range(new) /\ \A j \in 1 .. Len(got[r][l]) : got[r][l][j] \in Range(new)
    <3>1. Len(got[r][l]) + 1 \in DOMAIN new /\ 1 .. Len(got[r][l]) \subseteq DOMAIN new
      BY <1>4
    <3>2. QED
      BY <1>3, <3>1 DEF Range
  <2>3. QED
    BY <1>4, <2>1, <2>2 DEF Range
<1>8. Handed(r)' = Handed(r) \union {i}
  BY <1>6, <1>7 DEF Handed
<1>9. \A q \in Readers \ {r} : Handed(q)' = Handed(q)
  BY <1>6 DEF Handed
<1>10. done' \in [Readers -> SUBSET Loops]
  <2>1. CASE IsEnd(log[i])
    BY <1>1, <2>1 DEF Hand
  <2>2. CASE ~IsEnd(log[i])
    BY <1>1, <2>2 DEF Hand
  <2>3. QED
    BY <2>1, <2>2
<1>11. QED
  BY <1>6, <1>7, <1>8, <1>9, <1>10 DEF new

-----------------------------------------------------------------------------
(* Type correctness *)

LEMMA SendTypes ==
  ASSUME TypeOK, NEW w \in Writers, NEW n \in 1 .. Len(sends[w]), Send(w, n)
  PROVE  TypeOK'
<1>1. /\ sends \in [Writers -> Seq(Sends)] /\ sends[w][n] \in Sends /\ n \in 1 .. SendBound
      /\ log \in Seq(Entries) /\ Len(log) \in Nat /\ trimmed \in 0 .. Len(log)
  BY StreamAssumption DEF TypeOK
<1>3. UNCHANGED readVars
  BY DEF Send, Start, Record, Add, Answer, Break
<1>4. /\ sends' \in [Writers -> Seq(Sends)]
      /\ \A x \in Writers : Len(sends'[x]) = Len(sends[x])
  <2>1. CASE Start(w, n)
    BY <2>1, AckChanges DEF Start, SetsAck, Acks
  <2>2. CASE Record(w, n)
    BY <2>2, StageChanges DEF Record, SetsStage, ServerStages
  <2>3. CASE Add(w, n)
    BY <2>3, StageChanges DEF Add, SetsStage, ServerStages
  <2>4. CASE Answer(w, n)
    <3>1. (IF sends[w][n].srv = "added" THEN "ok" ELSE "error") \in Acks
      BY DEF Acks
    <3>2. QED
      BY <2>4, <3>1, AckChanges DEF Answer, SetsAck
  <2>5. CASE Break(w, n)
    BY <2>5, AckChanges DEF Break, SetsAck, Acks
  <2>6. QED
    BY <2>1, <2>2, <2>3, <2>4, <2>5 DEF Send
<1>5. /\ log' \in Seq(Entries) /\ Len(log) <= Len(log')
      /\ trimmed' \in 0 .. Len(log') /\ (log' # <<>> => trimmed' < Len(log'))
  <2>1. CASE Add(w, n)
    <3>1. <<w, n>> \in Entries
      BY <1>1 DEF Entries
    <3>2. log' \in Seq(Entries) /\ Len(log') = Len(log) + 1
      BY <1>1, <2>1, <3>1, AppendProperties DEF Add
    <3>3. PICK t \in trimmed .. Len(log) + 1 :
            (t = trimmed \/ t + MaxLen <= Len(log) + 1) /\ trimmed' = t
      BY <2>1 DEF Add
    <3>4. t <= Len(log)
      BY <1>1, <3>3, StreamAssumption
    <3>5. QED
      BY <1>1, <3>2, <3>3, <3>4
  <2>2. CASE UNCHANGED <<log, trimmed>>
    BY <1>1, <2>2 DEF TypeOK
  <2>3. QED
    BY <2>1, <2>2 DEF Send, Start, Record, Answer, Break
<1>6. QED
  BY <1>1, <1>3, <1>4, <1>5 DEF TypeOK, readVars

LEMMA ReadTypes ==
  ASSUME TypeOK, NEW r \in Readers,
         ServerRead(r) \/ Receive(r) \/ \E l \in Loops : NextValue(r, l)
  PROVE  TypeOK'
<1>1. /\ wire \in [Readers -> Seq(Nat)] /\ queue \in [Readers -> Seq(Nat)]
      /\ wire[r] \in Seq(Nat) /\ queue[r] \in Seq(Nat)
      /\ waiting \in [Readers -> Seq(Loops)] /\ waiting[r] \in Seq(Loops)
      /\ cursor \in [Readers -> 0 .. Len(log)] /\ cursor[r] \in 0 .. Len(log)
      /\ Len(log) \in Nat /\ subscribed \subseteq Readers
      /\ trimmed \in 0 .. Len(log) /\ (log # <<>> => trimmed < Len(log))
  BY DEF TypeOK
<1>2. CASE ServerRead(r)
  <2> DEFINE i == IF cursor[r] < trimmed THEN trimmed + 1 ELSE cursor[r] + 1
  <2>1. i \in 1 .. Len(log)
    BY <1>1, <1>2 DEF ServerRead
  <2>2. Append(wire[r], i) \in Seq(Nat)
    BY <1>1, <2>1, AppendProperties
  <2>3. /\ cursor' = [cursor EXCEPT ![r] = i] /\ wire' = [wire EXCEPT ![r] = Append(wire[r], i)]
        /\ UNCHANGED <<subscribed, queue, waiting, got, done>> /\ UNCHANGED sendVars
    BY <1>2 DEF ServerRead
  <2> HIDE DEF i
  <2>4. cursor' \in [Readers -> 0 .. Len(log)] /\ wire' \in [Readers -> Seq(Nat)]
    BY <1>1, <2>1, <2>2, <2>3
  <2>5. QED
    BY <2>3, <2>4 DEF TypeOK, sendVars
<1>3. CASE Receive(r)
  <2>1. /\ Tail(wire[r]) \in Seq(Nat) /\ Head(wire[r]) \in Nat
        /\ wire' \in [Readers -> Seq(Nat)]
        /\ UNCHANGED <<subscribed, cursor>> /\ UNCHANGED sendVars
    <3>1. wire[r] # <<>> /\ wire' = [wire EXCEPT ![r] = Tail(wire[r])]
          /\ UNCHANGED <<subscribed, cursor>> /\ UNCHANGED sendVars
      BY <1>3 DEF Receive
    <3>2. Tail(wire[r]) \in Seq(Nat) /\ Head(wire[r]) \in Nat
      BY <1>1, <3>1, HeadTailProperties
    <3>3. QED
      BY <1>1, <3>1, <3>2
  <2>2. CASE waiting[r] # <<>> /\ Hand(r, Head(waiting[r]), Head(wire[r]))
             /\ waiting' = [waiting EXCEPT ![r] = Tail(@)] /\ UNCHANGED queue
    <3>1. Head(waiting[r]) \in Loops /\ Tail(waiting[r]) \in Seq(Loops)
      BY <1>1, <2>2, HeadTailProperties
    <3>2. got' \in [Readers -> [Loops -> Seq(Nat)]] /\ done' \in [Readers -> SUBSET Loops]
      BY <2>1, <2>2, <3>1, HandStep
    <3>3. waiting' \in [Readers -> Seq(Loops)]
      BY <1>1, <2>2, <3>1
    <3>4. QED
      BY <2>1, <2>2, <3>2, <3>3 DEF TypeOK, sendVars
  <2>3. CASE waiting[r] = <<>> /\ queue' = [queue EXCEPT ![r] = Append(@, Head(wire[r]))]
             /\ UNCHANGED <<waiting, got, done>>
    <3>1. Append(queue[r], Head(wire[r])) \in Seq(Nat)
      BY <1>1, <2>1, AppendProperties
    <3>2. queue' \in [Readers -> Seq(Nat)]
      BY <1>1, <2>3, <3>1
    <3>3. QED
      BY <2>1, <2>3, <3>2 DEF TypeOK, sendVars
  <2>4. QED
    BY <1>3, <2>2, <2>3 DEF Receive
<1>4. ASSUME NEW l \in Loops, NextValue(r, l) PROVE TypeOK'
  <2>1. subscribed' \subseteq Readers /\ UNCHANGED <<cursor, wire>> /\ UNCHANGED sendVars
    BY <1>1, <1>4 DEF NextValue
  <2>2. CASE queue[r] # <<>> /\ Hand(r, l, Head(queue[r]))
             /\ queue' = [queue EXCEPT ![r] = Tail(@)] /\ UNCHANGED waiting
    <3>1. Head(queue[r]) \in Nat /\ Tail(queue[r]) \in Seq(Nat)
      BY <1>1, <2>2, HeadTailProperties
    <3>2. got' \in [Readers -> [Loops -> Seq(Nat)]] /\ done' \in [Readers -> SUBSET Loops]
      BY <2>2, <3>1, HandStep
    <3>3. queue' \in [Readers -> Seq(Nat)]
      BY <1>1, <2>2, <3>1
    <3>4. QED
      BY <2>1, <2>2, <3>2, <3>3 DEF TypeOK, sendVars
  <2>3. CASE waiting' = [waiting EXCEPT ![r] = Append(@, l)] /\ UNCHANGED <<queue, got, done>>
    <3>1. Append(waiting[r], l) \in Seq(Loops)
      BY <1>1, AppendProperties
    <3>2. waiting' \in [Readers -> Seq(Loops)]
      BY <1>1, <2>3, <3>1
    <3>3. QED
      BY <2>1, <2>3, <3>2 DEF TypeOK, sendVars
  <2>4. QED
    BY <1>4, <2>2, <2>3 DEF NextValue
<1>5. QED
  BY <1>2, <1>3, <1>4

LEMMA TypeInductive == TypeOK /\ [Next]_vars => TypeOK'
<1> SUFFICES ASSUME TypeOK, [Next]_vars PROVE TypeOK'
  OBVIOUS
<1>1. ASSUME NEW w \in Writers, Call(w) PROVE TypeOK'
  <2>1. /\ sends' \in [Writers -> Seq(Sends)]
        /\ \A x \in Writers : Len(sends'[x]) <= SendBound
    BY <1>1, SendAdded DEF TypeOK
  <2>2. UNCHANGED <<log, trimmed>> /\ UNCHANGED readVars
    BY <1>1 DEF Call
  <2>3. QED
    BY <2>1, <2>2 DEF TypeOK, readVars
<1>2. CASE UNCHANGED vars
  BY <1>2 DEF TypeOK, vars
<1>3. QED
  BY <1>1, <1>2, SendTypes, ReadTypes DEF Next

\* Every variable keeps its type, the cursor never passes the log, and redis
\* never trims the newest entry (JobSpec.ts, DataStreamSubscriber.ts, service.ts).
THEOREM TypeCorrect == Spec => []TypeOK
<1>1. Init => TypeOK
  <2>1. \A S : <<>> \in Seq(S)
    OBVIOUS
  <2>2. Len(<<>>) = 0
    OBVIOUS
  <2>3. QED
    BY <2>1, <2>2, StreamAssumption DEF Init, TypeOK
<1>2. QED
  BY <1>1, TypeInductive, PTL DEF Spec

-----------------------------------------------------------------------------
(* The order of sends *)

LEMMA CallKeepsOrder ==
  ASSUME TypeOK, SendInv, NEW w \in Writers, Call(w)
  PROVE  SendInv'
<1> DEFINE L == Len(sends[w])
<1>1. /\ Len(sends'[w]) = L + 1 /\ L \in Nat
      /\ \A x \in Writers \ {w} : sends'[x] = sends[x]
      /\ \A n \in 1 .. L : sends'[w][n] = sends[w][n]
      /\ sends'[w][L + 1].ack = "queued" /\ sends'[w][L + 1].srv = "unseen"
  BY SendAdded
<1>2. log' = log
  BY DEF Call
<1> HIDE DEF L
<1>3. \A x \in Writers : \A n \in 1 .. Len(sends'[x]) :
        \/ n \in 1 .. Len(sends[x]) /\ sends'[x][n] = sends[x][n]
        \/ sends'[x][n].ack = "queued" /\ sends'[x][n].srv = "unseen"
  BY <1>1 DEF L
<1>4. \A x \in Writers : \A n \in 1 .. Len(sends[x]) :
        n \in 1 .. Len(sends'[x]) /\ sends'[x][n] = sends[x][n]
  BY <1>1 DEF L
<1>5. InTurn'
  <2> SUFFICES ASSUME NEW x \in Writers, NEW m \in 1 .. Len(sends'[x]),
                      NEW n \in 1 .. Len(sends'[x]), m < n, sends'[x][n].ack # "queued"
               PROVE  sends'[x][m].ack \in {"ok", "error"}
    BY DEF InTurn
  <2>1. n \in 1 .. Len(sends[x]) /\ sends'[x][n] = sends[x][n]
    BY <1>3
  <2>2. Len(sends[x]) \in Nat
    BY DEF TypeOK
  <2>3. m \in 1 .. Len(sends[x]) /\ sends'[x][m] = sends[x][m]
    BY <1>4, <2>1, <2>2
  <2>4. QED
    BY <2>1, <2>3 DEF SendInv, InTurn
<1>6. HandlerFollows'
  BY <1>3 DEF SendInv, HandlerFollows
<1>7. \A i \in 1 .. Len(log) : log[i][1] \in Writers
  <2>1. \A i \in 1 .. Len(log) : log[i] \in Entries
    BY DEF TypeOK
  <2>2. QED
    BY <2>1 DEF Entries
<1>8. LogIsAdded'
  <2>1. \A i \in 1 .. Len(log') :
          /\ log'[i][2] \in 1 .. Len(sends'[log'[i][1]])
          /\ sends'[log'[i][1]][log'[i][2]].srv = "added"
    BY <1>2, <1>4, <1>7 DEF SendInv, LogIsAdded
  <2>2. \A x \in Writers : \A n \in 1 .. Len(sends'[x]) :
          sends'[x][n].srv = "added" => \E i \in 1 .. Len(log') : log'[i] = <<x, n>>
    <3> SUFFICES ASSUME NEW x \in Writers, NEW n \in 1 .. Len(sends'[x]),
                        sends'[x][n].srv = "added"
                 PROVE  \E i \in 1 .. Len(log) : log[i] = <<x, n>>
      BY <1>2
    <3>1. n \in 1 .. Len(sends[x]) /\ sends[x][n].srv = "added"
      BY <1>3
    <3>2. QED
      BY <3>1 DEF SendInv, LogIsAdded
  <2>3. QED
    BY <2>1, <2>2 DEF LogIsAdded
<1>9. SendOrder'
  <2> SUFFICES ASSUME NEW i \in 1 .. Len(log), NEW j \in 1 .. Len(log), i < j,
                      log[i][1] = log[j][1]
               PROVE  \/ log[i][2] < log[j][2]
                      \/ /\ log[i][2] > log[j][2]
                         /\ sends'[log[j][1]][log[j][2]].ack = "error"
    BY <1>2 DEF SendOrder
  <2>1. log[j][1] \in Writers /\ log[j][2] \in 1 .. Len(sends[log[j][1]])
    BY <1>7 DEF SendInv, LogIsAdded
  <2>2. sends'[log[j][1]][log[j][2]] = sends[log[j][1]][log[j][2]]
    BY <1>4, <2>1
  <2>3. QED
    BY <2>2 DEF SendInv, SendOrder
<1>10. QED
  BY <1>5, <1>6, <1>8, <1>9 DEF SendInv

\* What a step of a send may change: it starts in its turn, its handler goes
\* on, it settles; the log grows only with a send the handler had accepted.
LEMMA SendSteps ==
  ASSUME TypeOK, SendInv, NEW w \in Writers, NEW n \in 1 .. Len(sends[w]), Send(w, n)
  PROVE  /\ \A x \in Writers : Len(sends'[x]) = Len(sends[x])
         /\ \A x \in Writers : \A k \in 1 .. Len(sends[x]) :
              x # w \/ k # n => sends'[x][k] = sends[x][k]
         /\ \/ \A m \in 1 .. n - 1 : sends[w][m].ack \in {"ok", "error"}
            \/ sends'[w][n].ack = "queued" \/ sends[w][n].ack # "queued"
         /\ sends'[w][n].ack # "queued"
         /\ sends[w][n].ack \in {"ok", "error"} => sends'[w][n].ack = sends[w][n].ack
         /\ sends[w][n].srv = "added" => sends'[w][n].srv = "added"
         /\ sends'[w][n].ack = "ok" => sends'[w][n].srv = "added"
         /\ \/ log' = log /\ (sends'[w][n].srv = "added" => sends[w][n].srv = "added")
            \/ /\ log' = Append(log, <<w, n>>) /\ sends[w][n].srv = "valid"
               /\ sends'[w][n].srv = "added"
<1>2. /\ sends[w][n].srv # "unseen" => sends[w][n].ack # "queued"
      /\ sends[w][n].ack = "ok" => sends[w][n].srv = "added"
  BY DEF SendInv, HandlerFollows
<1>3. CASE Start(w, n)
  <2> DEFINE a == "sending"
  <2>1. /\ SetsAck(w, n, a) /\ a \in Acks
        /\ sends[w][n].ack = "queued" /\ log' = log
        /\ \A m \in 1 .. n - 1 : sends[w][m].ack \in {"ok", "error"}
    BY <1>3 DEF Start, Acks, SetsAck
  <2> HIDE DEF a
  <2>2. /\ \A x \in Writers : Len(sends'[x]) = Len(sends[x])
        /\ sends'[w][n].ack = a /\ sends'[w][n].srv = sends[w][n].srv
        /\ \A x \in Writers : \A k \in 1 .. Len(sends[x]) :
             x # w \/ k # n => sends'[x][k] = sends[x][k]
    BY <2>1, AckChanges
  <2>3. QED
    BY <1>2, <2>1, <2>2 DEF a
<1>4. CASE Record(w, n)
  <2>1. PICK v \in {"valid", "refused"} :
          /\ SetsStage(w, n, v) /\ sends[w][n].srv = "unseen"
          /\ sends[w][n].ack # "queued" /\ log' = log
    BY <1>4 DEF Record, SetsStage
  <2>2. /\ \A x \in Writers : Len(sends'[x]) = Len(sends[x])
        /\ sends'[w][n].ack = sends[w][n].ack /\ sends'[w][n].srv = v
        /\ \A x \in Writers : \A k \in 1 .. Len(sends[x]) :
             x # w \/ k # n => sends'[x][k] = sends[x][k]
    BY <2>1, StageChanges DEF ServerStages
  <2>3. QED
    BY <1>2, <2>1, <2>2
<1>5. CASE Add(w, n)
  <2> DEFINE v == "added"
  <2>1. /\ SetsStage(w, n, v) /\ v \in ServerStages
        /\ sends[w][n].srv = "valid" /\ log' = Append(log, <<w, n>>)
    BY <1>5 DEF Add, ServerStages, SetsStage
  <2> HIDE DEF v
  <2>2. /\ \A x \in Writers : Len(sends'[x]) = Len(sends[x])
        /\ sends'[w][n].ack = sends[w][n].ack /\ sends'[w][n].srv = v
        /\ \A x \in Writers : \A k \in 1 .. Len(sends[x]) :
             x # w \/ k # n => sends'[x][k] = sends[x][k]
    BY <2>1, StageChanges
  <2>3. QED
    BY <1>2, <2>1, <2>2 DEF v
<1>6. CASE Answer(w, n)
  <2> DEFINE a == IF sends[w][n].srv = "added" THEN "ok" ELSE "error"
  <2>1. /\ SetsAck(w, n, a) /\ a \in Acks
        /\ sends[w][n].ack = "sending" /\ log' = log
    BY <1>6 DEF Answer, Acks, SetsAck
  <2>2. a \in {"ok", "error"} /\ (a = "ok" => sends[w][n].srv = "added")
    OBVIOUS
  <2> HIDE DEF a
  <2>3. /\ \A x \in Writers : Len(sends'[x]) = Len(sends[x])
        /\ sends'[w][n].ack = a /\ sends'[w][n].srv = sends[w][n].srv
        /\ \A x \in Writers : \A k \in 1 .. Len(sends[x]) :
             x # w \/ k # n => sends'[x][k] = sends[x][k]
    BY <2>1, AckChanges
  <2>4. QED
    BY <1>2, <2>1, <2>2, <2>3
<1>7. CASE Break(w, n)
  <2> DEFINE a == "error"
  <2>1. /\ SetsAck(w, n, a) /\ a \in Acks
        /\ sends[w][n].ack = "sending" /\ log' = log
    BY <1>7 DEF Break, Acks, SetsAck
  <2> HIDE DEF a
  <2>2. /\ \A x \in Writers : Len(sends'[x]) = Len(sends[x])
        /\ sends'[w][n].ack = a /\ sends'[w][n].srv = sends[w][n].srv
        /\ \A x \in Writers : \A k \in 1 .. Len(sends[x]) :
             x # w \/ k # n => sends'[x][k] = sends[x][k]
    BY <2>1, AckChanges
  <2>3. QED
    BY <1>2, <2>1, <2>2 DEF a
<1>8. QED
  BY <1>3, <1>4, <1>5, <1>6, <1>7 DEF Send

\* A step of a send preserves the order of the log.
LEMMA SendKeepsOrder ==
  ASSUME TypeOK, SendInv, NEW w \in Writers, NEW n \in 1 .. Len(sends[w]), Send(w, n)
  PROVE  SendInv'
<1>1. /\ \A x \in Writers : Len(sends'[x]) = Len(sends[x])
      /\ \A x \in Writers : \A k \in 1 .. Len(sends[x]) :
           x # w \/ k # n => sends'[x][k] = sends[x][k]
      /\ sends'[w][n].ack # "queued"
      /\ sends[w][n].ack \in {"ok", "error"} => sends'[w][n].ack = sends[w][n].ack
      /\ sends[w][n].srv = "added" => sends'[w][n].srv = "added"
      /\ sends'[w][n].ack = "ok" => sends'[w][n].srv = "added"
  BY SendSteps
<1>2. sends[w][n].ack # "queued" \/ \A m \in 1 .. n - 1 : sends[w][m].ack \in {"ok", "error"}
  BY SendSteps
<1>3. \/ log' = log /\ (sends'[w][n].srv = "added" => sends[w][n].srv = "added")
      \/ /\ log' = Append(log, <<w, n>>) /\ sends[w][n].srv = "valid"
         /\ sends'[w][n].srv = "added"
  BY SendSteps
<1>4. /\ log \in Seq(Entries) /\ Len(log) \in Nat
      /\ \A x \in Writers : Len(sends[x]) \in Nat
      /\ \A i \in 1 .. Len(log) : log[i][1] \in Writers /\ log[i][2] \in 1 .. Len(sends[log[i][1]])
  <2>1. \A i \in 1 .. Len(log) : log[i] \in Entries
    BY DEF TypeOK
  <2>2. QED
    BY <2>1 DEF TypeOK, Entries, SendInv, LogIsAdded
<1>5. InTurn'
  <2> SUFFICES ASSUME NEW x \in Writers, NEW m \in 1 .. Len(sends[x]),
                      NEW k \in 1 .. Len(sends[x]), m < k, sends'[x][k].ack # "queued"
               PROVE  sends'[x][m].ack \in {"ok", "error"}
    BY <1>1 DEF InTurn
  <2>1. sends[x][m].ack \in {"ok", "error"}
    <3>1. CASE sends[x][k].ack # "queued"
      BY <3>1 DEF SendInv, InTurn
    <3>2. CASE sends[x][k].ack = "queued"
      <4>1. x = w /\ k = n
        BY <1>1, <3>2
      <4>2. m \in 1 .. n - 1
        BY <1>4, <4>1
      <4>3. QED
        BY <1>2, <3>2, <4>1, <4>2
    <3>3. QED
      BY <3>1, <3>2
  <2>2. QED
    BY <1>1, <2>1
<1>6. HandlerFollows'
  <2> SUFFICES ASSUME NEW x \in Writers, NEW k \in 1 .. Len(sends[x])
               PROVE  /\ sends'[x][k].srv # "unseen" => sends'[x][k].ack # "queued"
                      /\ sends'[x][k].ack = "ok" => sends'[x][k].srv = "added"
    BY <1>1 DEF HandlerFollows
  <2>1. CASE x = w /\ k = n
    BY <1>1, <2>1
  <2>2. CASE ~(x = w /\ k = n)
    BY <1>1, <2>2 DEF SendInv, HandlerFollows
  <2>3. QED
    BY <2>1, <2>2
<1>7. \A x \in Writers : \A k \in 1 .. Len(sends[x]) :
        sends[x][k].srv = "added" => sends'[x][k].srv = "added"
  BY <1>1
<1>8. \A x \in Writers : \A k \in 1 .. Len(sends[x]) :
        sends[x][k].ack = "error" => sends'[x][k].ack = "error"
  BY <1>1
<1>9. CASE log' = log /\ (sends'[w][n].srv = "added" => sends[w][n].srv = "added")
  <2>1. \A x \in Writers : \A k \in 1 .. Len(sends[x]) :
          sends'[x][k].srv = "added" => sends[x][k].srv = "added"
    BY <1>1, <1>9
  <2>2. LogIsAdded'
    <3>1. \A i \in 1 .. Len(log) : sends[log[i][1]][log[i][2]].srv = "added"
      BY DEF SendInv, LogIsAdded
    <3>2. \A i \in 1 .. Len(log) :
            /\ log[i][2] \in 1 .. Len(sends'[log[i][1]])
            /\ sends'[log[i][1]][log[i][2]].srv = "added"
      BY <1>1, <1>4, <1>7, <3>1
    <3>3. ASSUME NEW x \in Writers, NEW k \in 1 .. Len(sends[x]), sends'[x][k].srv = "added"
          PROVE  \E i \in 1 .. Len(log) : log[i] = <<x, k>>
      BY <2>1, <3>3 DEF SendInv, LogIsAdded
    <3>4. QED
      BY <1>1, <1>9, <3>2, <3>3 DEF LogIsAdded
  <2>3. SendOrder'
    <3> SUFFICES ASSUME NEW i \in 1 .. Len(log), NEW j \in 1 .. Len(log), i < j,
                        log[i][1] = log[j][1]
                 PROVE  \/ log[i][2] < log[j][2]
                        \/ /\ log[i][2] > log[j][2]
                           /\ sends'[log[j][1]][log[j][2]].ack = "error"
      BY <1>9 DEF SendOrder
    <3>1. QED
      BY <1>4, <1>8 DEF SendInv, SendOrder
  <2>4. QED
    BY <1>5, <1>6, <2>2, <2>3 DEF SendInv
<1>10. CASE /\ log' = Append(log, <<w, n>>) /\ sends[w][n].srv = "valid"
            /\ sends'[w][n].srv = "added"
  <2>1. /\ Len(log') = Len(log) + 1 /\ log'[Len(log) + 1] = <<w, n>>
        /\ \A i \in 1 .. Len(log) : log'[i] = log[i]
    <3>1. <<w, n>> \in Entries
      BY StreamAssumption DEF Entries, TypeOK
    <3>2. QED
      BY <1>4, <1>10, <3>1, AppendProperties
  <2>2. \A i \in 1 .. Len(log) + 1 : i \in 1 .. Len(log) \/ i = Len(log) + 1
    BY <1>4
  <2>3. LogIsAdded'
    <3>1. \A i \in 1 .. Len(log') :
            log'[i][2] \in 1 .. Len(sends'[log'[i][1]]) /\ sends'[log'[i][1]][log'[i][2]].srv = "added"
      <4> SUFFICES ASSUME NEW i \in 1 .. Len(log) + 1
                   PROVE  /\ log'[i][2] \in 1 .. Len(sends'[log'[i][1]])
                          /\ sends'[log'[i][1]][log'[i][2]].srv = "added"
        BY <2>1
      <4>1. CASE i = Len(log) + 1
        BY <1>1, <1>10, <2>1, <4>1
      <4>2. CASE i \in 1 .. Len(log)
        <5>1. sends[log[i][1]][log[i][2]].srv = "added"
          BY <4>2 DEF SendInv, LogIsAdded
        <5>2. log[i][1] \in Writers /\ log[i][2] \in 1 .. Len(sends[log[i][1]]) /\ log'[i] = log[i]
          BY <1>4, <2>1, <4>2
        <5>3. /\ sends'[log[i][1]][log[i][2]].srv = "added"
              /\ Len(sends'[log[i][1]]) = Len(sends[log[i][1]])
          BY <1>1, <1>7, <5>1, <5>2
        <5>4. QED
          BY <5>2, <5>3
      <4>3. QED
        BY <2>2, <4>1, <4>2
    <3>2. ASSUME NEW x \in Writers, NEW k \in 1 .. Len(sends[x]), sends'[x][k].srv = "added"
          PROVE  \E i \in 1 .. Len(log) + 1 : log'[i] = <<x, k>>
      <4>1. CASE x = w /\ k = n
        BY <1>4, <2>1, <4>1
      <4>2. CASE ~(x = w /\ k = n)
        <5>1. sends[x][k].srv = "added"
          BY <1>1, <3>2, <4>2
        <5>2. PICK i \in 1 .. Len(log) : log[i] = <<x, k>>
          BY <5>1 DEF SendInv, LogIsAdded
        <5>3. QED
          BY <1>4, <2>1, <5>2
      <4>3. QED
        BY <4>1, <4>2
    <3>3. QED
      BY <1>1, <2>1, <3>1, <3>2 DEF LogIsAdded
  <2>4. SendOrder'
    <3> SUFFICES ASSUME NEW i \in 1 .. Len(log) + 1, NEW j \in 1 .. Len(log) + 1, i < j,
                        log'[i][1] = log'[j][1]
                 PROVE  \/ log'[i][2] < log'[j][2]
                        \/ /\ log'[i][2] > log'[j][2]
                           /\ sends'[log'[j][1]][log'[j][2]].ack = "error"
      BY <2>1 DEF SendOrder
    <3>1. i \in 1 .. Len(log) /\ log'[i] = log[i]
      BY <1>4, <2>1
    <3>2. CASE j \in 1 .. Len(log)
      <4>1. log'[j] = log[j] /\ log[j][1] \in Writers /\ log[j][2] \in 1 .. Len(sends[log[j][1]])
        BY <1>4, <2>1, <3>2
      <4>2. \/ log[i][2] < log[j][2]
            \/ log[i][2] > log[j][2] /\ sends[log[j][1]][log[j][2]].ack = "error"
        BY <3>1, <3>2, <4>1 DEF SendInv, SendOrder
      <4>3. QED
        BY <1>8, <3>1, <4>1, <4>2
    <3>3. CASE j = Len(log) + 1
      <4>1. log'[j] = <<w, n>> /\ log[i][1] = w /\ log[i][2] \in 1 .. Len(sends[w])
        BY <1>4, <2>1, <3>1, <3>3
      <4>2. sends[w][log[i][2]].srv = "added"
        BY <3>1, <4>1 DEF SendInv, LogIsAdded
      <4>3. log[i][2] # n
        BY <1>10, <4>2
      <4>4. CASE log[i][2] > n
        <5>1. sends[w][log[i][2]].ack # "queued"
          BY <4>1, <4>2 DEF SendInv, HandlerFollows
        <5>2. sends[w][n].ack \in {"ok", "error"}
          BY <1>4, <4>1, <4>4, <5>1 DEF SendInv, InTurn
        <5>3. sends[w][n].ack # "ok"
          BY <1>10 DEF SendInv, HandlerFollows
        <5>4. sends'[w][n].ack = "error"
          BY <1>8, <5>2, <5>3
        <5>5. QED
          BY <3>1, <4>1, <4>4, <5>4
      <4>5. QED
        BY <1>4, <3>1, <4>1, <4>3, <4>4
    <3>4. QED
      BY <2>2, <3>2, <3>3
  <2>5. QED
    BY <1>5, <1>6, <2>3, <2>4 DEF SendInv
<1>11. QED
  BY <1>3, <1>9, <1>10

LEMMA SendInductive == TypeOK /\ SendInv /\ [Next]_vars => SendInv'
<1> SUFFICES ASSUME TypeOK, SendInv, [Next]_vars PROVE SendInv'
  OBVIOUS
<1>1. CASE UNCHANGED <<sends, log>>
  <2>1. InTurn' /\ HandlerFollows'
    BY <1>1 DEF SendInv, InTurn, HandlerFollows
  <2>2. LogIsAdded'
    BY <1>1 DEF SendInv, LogIsAdded
  <2>3. SendOrder'
    BY <1>1 DEF SendInv, SendOrder
  <2>4. QED
    BY <2>1, <2>2, <2>3 DEF SendInv
<1>2. ASSUME NEW r \in Readers, ServerRead(r) \/ Receive(r) \/ \E l \in Loops : NextValue(r, l)
      PROVE  UNCHANGED <<sends, log>>
  BY <1>2 DEF ServerRead, Receive, NextValue, sendVars
<1>3. CASE UNCHANGED vars
  BY <1>1, <1>3 DEF vars
<1>4. QED
  BY <1>1, <1>2, <1>3, CallKeepsOrder, SendKeepsOrder DEF Next

\* The strengthened invariant of the sending side holds in every state.
LEMMA SendCorrect == Spec => []SendInv
<1>1. Init => SendInv
  <2> SUFFICES ASSUME Init PROVE SendInv
    OBVIOUS
  <2>1. log = <<>> /\ Len(log) = 0 /\ \A w \in Writers : Len(sends[w]) = 0
    BY DEF Init
  <2>2. 1 .. 0 = {}
    OBVIOUS
  <2>3. QED
    BY <2>1, <2>2 DEF SendInv, InTurn, HandlerFollows, LogIsAdded, SendOrder
<1>2. QED
  BY <1>1, SendInductive, TypeCorrect, PTL DEF Spec

\* A writer's sends are added in the order of its calls, each at most once,
\* and only one whose call broke comes late (JobSpec.ts:376-382, service.ts:167-308).
THEOREM SendsInOrder == Spec => []SendOrder
<1>1. SendInv => SendOrder
  BY DEF SendInv
<1>2. QED
  BY <1>1, SendCorrect, PTL

\* A send that returned is in the stream; one that was refused is not
\* (service.ts:262-307).
THEOREM ReturnedIsAdded == Spec => []OkMeansAdded
<1>1. TypeOK /\ SendInv => OkMeansAdded
  <2> SUFFICES ASSUME TypeOK, SendInv, NEW w \in Writers, NEW n \in 1 .. Len(sends[w])
               PROVE  /\ sends[w][n].ack = "ok" => Contains(log, <<w, n>>)
                      /\ Contains(log, <<w, n>>) => sends[w][n].srv # "refused"
    BY DEF OkMeansAdded
  <2>1. sends[w][n].ack = "ok" => \E i \in 1 .. Len(log) : log[i] = <<w, n>>
    BY DEF SendInv, HandlerFollows, LogIsAdded
  <2>2. ASSUME NEW i \in 1 .. Len(log), log[i] = <<w, n>> PROVE sends[w][n].srv = "added"
    BY <2>2 DEF SendInv, LogIsAdded
  <2>3. QED
    BY <2>1, <2>2 DEF Contains
<1>2. QED
  BY <1>1, TypeCorrect, SendCorrect, PTL

-----------------------------------------------------------------------------
(* The reading side *)

\* A loop takes the oldest entry its reader holds.
LEMMA HandReads ==
  ASSUME TypeOK, NEW r \in Readers, ReaderInv(r), NEW l \in Loops, NEW i \in Nat, Hand(r, l, i),
         i \in Range(queue[r]) \union Range(wire[r])
  PROVE  /\ TakenOnce(r)' /\ HasNewest(r)'
         /\ \A h \in Handed(r)' : h <= i
<1>1. /\ Handed(r)' = Handed(r) \union {i}
      /\ \A k \in Loops \ {l} : got'[r][k] = got[r][k]
      /\ got'[r][l] = Append(got[r][l], i)
  <2>1. Handed(r)' = Handed(r) \union {i}
    BY HandStep
  <2>2. /\ \A k \in Loops \ {l} : got'[r][k] = got[r][k]
        /\ got'[r][l] = Append(got[r][l], i)
    BY HandStep
  <2>3. QED
    BY <2>1, <2>2
<1>2. /\ \A h \in Handed(r) : h < i
      /\ Handed(r) \subseteq 1 .. cursor[r] /\ cursor[r] \in Nat
  <2>1. cursor[r] \in Nat
    BY DEF TypeOK
  <2>2. QED
    BY <2>1 DEF ReaderInv, FlowOrder
<1>3. \A k \in Loops : Range(got[r][k]) \subseteq Handed(r)
  BY DEF Handed
<1>4. \A h \in Handed(r)' : h <= i
  BY <1>1, <1>2
<1>5. HasNewest(r)'
  BY <1>1, <1>4 DEF HasNewest
<1>6. Rising(got'[r][l]) /\ Range(got'[r][l]) = Range(got[r][l]) \union {i}
  <2>1. got[r][l] \in Seq(Nat) /\ Rising(got[r][l])
    BY DEF TypeOK, ReaderInv, TakenOnce
  <2>2. \A y \in Range(got[r][l]) : y < i
    BY <1>2, <1>3
  <2>3. QED
    BY <1>1, <2>1, <2>2, AppendRises
<1>7. TakenOnce(r)'
  <2>1. \A k \in Loops : Rising(got'[r][k])
    BY <1>1, <1>6 DEF ReaderInv, TakenOnce
  <2>2. \A k \in Loops : i \notin Range(got[r][k])
    BY <1>2, <1>3
  <2>3. ASSUME NEW k \in Loops, NEW m \in Loops, k # m
        PROVE  Range(got'[r][k]) \intersect Range(got'[r][m]) = {}
    <3>1. Range(got[r][k]) \intersect Range(got[r][m]) = {}
      BY <2>3 DEF ReaderInv, TakenOnce
    <3>2. i \notin Range(got[r][k]) /\ i \notin Range(got[r][m])
      BY <2>2
    <3>3. CASE k = l
      BY <1>1, <1>6, <2>3, <3>1, <3>2, <3>3
    <3>4. CASE m = l
      BY <1>1, <1>6, <2>3, <3>1, <3>2, <3>4
    <3>5. CASE k # l /\ m # l
      BY <1>1, <3>1, <3>5
    <3>6. QED
      BY <3>3, <3>4, <3>5
  <2>4. QED
    BY <2>1, <2>3 DEF TakenOnce
<1>8. QED
  BY <1>4, <1>5, <1>7

\* What a reader has is that of another reader's step as before.
LEMMA OthersKept ==
  ASSUME NEW q \in Readers, ReaderInv(q), trimmed' = trimmed,
         queue'[q] = queue[q], wire'[q] = wire[q], waiting'[q] = waiting[q],
         got'[q] = got[q], cursor'[q] = cursor[q]
  PROVE  ReaderInv(q)'
<1>1. Handed(q)' = Handed(q)
  BY DEF Handed
<1>2. QED
  BY <1>1 DEF ReaderInv, FlowOrder, NobodyWaitsBesideValue, Accounted, HasNewest, TakenOnce

LEMMA ServerReadKeeps ==
  ASSUME TypeOK, NEW r \in Readers, ReaderInv(r), ServerRead(r)
  PROVE  ReaderInv(r)'
<1> DEFINE i == IF cursor[r] < trimmed THEN trimmed + 1 ELSE cursor[r] + 1
<1>1. /\ cursor[r] \in Nat /\ trimmed \in Nat /\ wire[r] \in Seq(Nat)
      /\ cursor \in [Readers -> 0 .. Len(log)] /\ wire \in [Readers -> Seq(Nat)]
  BY DEF TypeOK
<1>2. i \in Nat /\ cursor[r] < i /\ \A j \in cursor[r] + 1 .. i - 1 : j <= trimmed
  BY <1>1
<1>3. /\ cursor' = [cursor EXCEPT ![r] = i] /\ wire' = [wire EXCEPT ![r] = Append(wire[r], i)]
      /\ UNCHANGED <<subscribed, queue, waiting, got, done>> /\ UNCHANGED trimmed
  BY DEF ServerRead, sendVars
<1> HIDE DEF i
<1>4. cursor'[r] = i /\ wire'[r] = Append(wire[r], i) /\ Handed(r)' = Handed(r)
  BY <1>1, <1>3 DEF Handed
<1>5. /\ Rising(queue[r]) /\ Rising(wire[r])
      /\ \A q \in Range(queue[r]) : \A x \in Range(wire[r]) : q < x
      /\ \A h \in Handed(r) : \A x \in Range(queue[r]) \union Range(wire[r]) : h < x
      /\ Handed(r) \union Range(queue[r]) \union Range(wire[r]) \subseteq 1 .. cursor[r]
  BY DEF ReaderInv, FlowOrder
<1>6. Rising(wire'[r]) /\ Range(wire'[r]) = Range(wire[r]) \union {i}
  <2>1. \A y \in Range(wire[r]) : y < i
    BY <1>1, <1>2, <1>5
  <2>2. QED
    BY <1>1, <1>2, <1>4, <1>5, <2>1, AppendRises
<1>7. FlowOrder(r)'
  <2>1. \A y \in Handed(r) \union Range(queue[r]) : y < i
    BY <1>1, <1>2, <1>5
  <2>2. 1 .. cursor[r] \union {i} \subseteq 1 .. i
    BY <1>1, <1>2
  <2>3. QED
    BY <1>3, <1>4, <1>5, <1>6, <2>1, <2>2 DEF FlowOrder
<1>8. Accounted(r)'
  <2> SUFFICES ASSUME NEW j \in 1 .. i
               PROVE  j \in Handed(r) \union Range(queue[r]) \union Range(wire'[r]) \/ j <= trimmed
    BY <1>3, <1>4 DEF Accounted
  <2>1. CASE j \in 1 .. cursor[r]
    BY <1>6, <2>1 DEF ReaderInv, Accounted
  <2>2. CASE j \in cursor[r] + 1 .. i - 1
    BY <1>2, <2>2
  <2>3. CASE j = i
    BY <1>6, <2>3
  <2>4. QED
    BY <1>1, <1>2, <2>1, <2>2, <2>3
<1>9. NobodyWaitsBesideValue(r)' /\ HasNewest(r)' /\ TakenOnce(r)'
  BY <1>3, <1>4 DEF ReaderInv, NobodyWaitsBesideValue, HasNewest, TakenOnce
<1>10. QED
  BY <1>7, <1>8, <1>9 DEF ReaderInv

LEMMA ReceiveKeeps ==
  ASSUME TypeOK, NEW r \in Readers, ReaderInv(r), Receive(r)
  PROVE  ReaderInv(r)'
<1> DEFINE i == Head(wire[r])
<1>1. /\ wire \in [Readers -> Seq(Nat)] /\ queue \in [Readers -> Seq(Nat)]
      /\ wire[r] \in Seq(Nat) /\ queue[r] \in Seq(Nat)
      /\ waiting \in [Readers -> Seq(Loops)] /\ waiting[r] \in Seq(Loops)
  BY DEF TypeOK
<1>2. /\ wire[r] # <<>> /\ wire' = [wire EXCEPT ![r] = Tail(wire[r])]
      /\ UNCHANGED <<cursor, trimmed>>
  BY DEF Receive, sendVars
<1>3. /\ Rising(queue[r]) /\ Rising(wire[r])
      /\ \A q \in Range(queue[r]) : \A x \in Range(wire[r]) : q < x
      /\ \A h \in Handed(r) : \A x \in Range(queue[r]) \union Range(wire[r]) : h < x
      /\ Handed(r) \union Range(queue[r]) \union Range(wire[r]) \subseteq 1 .. cursor[r]
  BY DEF ReaderInv, FlowOrder
<1>4. /\ i \in Nat /\ wire'[r] = Tail(wire[r]) /\ Rising(wire'[r])
      /\ Range(wire[r]) = Range(wire'[r]) \union {i}
      /\ \A y \in Range(wire'[r]) : i < y
  BY <1>1, <1>2, <1>3, TailRises
<1> HIDE DEF i
<1>5. CASE waiting[r] # <<>> /\ Hand(r, Head(waiting[r]), i)
           /\ waiting' = [waiting EXCEPT ![r] = Tail(@)] /\ UNCHANGED queue
  <2>1. Head(waiting[r]) \in Loops
    BY <1>1, <1>5
  <2>2. queue[r] = <<>> /\ queue'[r] = <<>>
    BY <1>5 DEF ReaderInv, NobodyWaitsBesideValue
  <2>3. TakenOnce(r)' /\ HasNewest(r)' /\ Handed(r)' = Handed(r) \union {i}
    BY <1>4, <1>5, <2>1, HandReads, HandStep
  <2>4. FlowOrder(r)'
    <3>1. queue'[r] = queue[r] /\ Range(queue[r]) = {} /\ cursor'[r] = cursor[r]
      BY <1>1, <1>2, <1>5, <2>2 DEF Range
    <3>2. \A h \in Handed(r)' : \A x \in Range(wire'[r]) : h < x
      BY <1>3, <1>4, <2>3
    <3>3. QED
      BY <1>3, <1>4, <2>3, <3>1, <3>2 DEF FlowOrder
  <2>5. Accounted(r)'
    BY <1>2, <1>4, <1>5, <2>3 DEF ReaderInv, Accounted
  <2>6. QED
    BY <2>2, <2>3, <2>4, <2>5 DEF ReaderInv, NobodyWaitsBesideValue
<1>6. CASE waiting[r] = <<>> /\ queue' = [queue EXCEPT ![r] = Append(@, i)]
           /\ UNCHANGED <<waiting, got, done>>
  <2>1. queue'[r] = Append(queue[r], i) /\ Handed(r)' = Handed(r)
    BY <1>1, <1>6 DEF Handed
  <2>2. Rising(queue'[r]) /\ Range(queue'[r]) = Range(queue[r]) \union {i}
    BY <1>1, <1>3, <1>4, <2>1, AppendRises
  <2>3. FlowOrder(r)'
    BY <1>2, <1>3, <1>4, <2>1, <2>2 DEF FlowOrder
  <2>4. Accounted(r)'
    BY <1>2, <1>4, <2>1, <2>2 DEF ReaderInv, Accounted
  <2>5. NobodyWaitsBesideValue(r)' /\ HasNewest(r)' /\ TakenOnce(r)'
    BY <1>6, <2>1 DEF ReaderInv, NobodyWaitsBesideValue, HasNewest, TakenOnce
  <2>6. QED
    BY <2>3, <2>4, <2>5 DEF ReaderInv
<1>7. QED
  BY <1>5, <1>6 DEF Receive, i

LEMMA NextValueKeeps ==
  ASSUME TypeOK, NEW r \in Readers, ReaderInv(r), NEW l \in Loops, NextValue(r, l)
  PROVE  ReaderInv(r)'
<1> DEFINE i == Head(queue[r])
<1>1. /\ queue \in [Readers -> Seq(Nat)] /\ queue[r] \in Seq(Nat)
      /\ waiting \in [Readers -> Seq(Loops)]
  BY DEF TypeOK
<1>2. UNCHANGED <<cursor, wire, trimmed>>
  BY DEF NextValue, sendVars
<1>3. /\ Rising(queue[r]) /\ Rising(wire[r])
      /\ \A q \in Range(queue[r]) : \A x \in Range(wire[r]) : q < x
      /\ \A h \in Handed(r) : \A x \in Range(queue[r]) \union Range(wire[r]) : h < x
      /\ Handed(r) \union Range(queue[r]) \union Range(wire[r]) \subseteq 1 .. cursor[r]
  BY DEF ReaderInv, FlowOrder
<1>4. CASE queue[r] # <<>> /\ Hand(r, l, i)
           /\ queue' = [queue EXCEPT ![r] = Tail(queue[r])] /\ UNCHANGED waiting
  <2>1. /\ i \in Nat /\ queue'[r] = Tail(queue[r]) /\ Rising(queue'[r])
        /\ Range(queue[r]) = Range(queue'[r]) \union {i}
        /\ \A y \in Range(queue'[r]) : i < y
    BY <1>1, <1>3, <1>4, TailRises
  <2>2. waiting[r] = <<>>
    BY <1>4 DEF ReaderInv, NobodyWaitsBesideValue
  <2> HIDE DEF i
  <2>3. TakenOnce(r)' /\ HasNewest(r)' /\ Handed(r)' = Handed(r) \union {i}
    BY <1>4, <2>1, HandReads, HandStep
  <2>4. FlowOrder(r)'
    BY <1>2, <1>3, <2>1, <2>3 DEF FlowOrder
  <2>5. Accounted(r)'
    BY <1>2, <2>1, <2>3 DEF ReaderInv, Accounted
  <2>6. QED
    BY <1>4, <2>2, <2>3, <2>4, <2>5 DEF ReaderInv, NobodyWaitsBesideValue
<1>5. CASE queue[r] = <<>> /\ UNCHANGED <<queue, got, done>>
  <2>1. Handed(r)' = Handed(r)
    BY <1>5 DEF Handed
  <2>2. FlowOrder(r)' /\ Accounted(r)' /\ HasNewest(r)' /\ TakenOnce(r)'
    BY <1>2, <1>5, <2>1 DEF ReaderInv, FlowOrder, Accounted, HasNewest, TakenOnce
  <2>3. NobodyWaitsBesideValue(r)'
    BY <1>5 DEF NobodyWaitsBesideValue
  <2>4. QED
    BY <2>2, <2>3 DEF ReaderInv
<1>6. QED
  BY <1>4, <1>5 DEF NextValue

\* A step of reader r leaves what the others have as it was.
LEMMA ReadsKeep ==
  ASSUME TypeOK, ReadInv, NEW r \in Readers,
         ServerRead(r) \/ Receive(r) \/ \E l \in Loops : NextValue(r, l)
  PROVE  ReadInv'
<1>1. ReaderInv(r)'
  BY ServerReadKeeps, ReceiveKeeps, NextValueKeeps DEF ReadInv
<1>2. /\ wire \in [Readers -> Seq(Nat)] /\ queue \in [Readers -> Seq(Nat)]
      /\ waiting \in [Readers -> Seq(Loops)] /\ got \in [Readers -> [Loops -> Seq(Nat)]]
      /\ cursor \in [Readers -> 0 .. Len(log)]
  BY DEF TypeOK
<1>3. trimmed' = trimmed
  BY DEF ServerRead, Receive, NextValue, sendVars
<1>4. \A q \in Readers \ {r} :
        /\ queue'[q] = queue[q] /\ wire'[q] = wire[q] /\ waiting'[q] = waiting[q]
        /\ got'[q] = got[q] /\ cursor'[q] = cursor[q]
  <2>1. CASE ServerRead(r)
    BY <1>2, <2>1 DEF ServerRead
  <2>2. CASE Receive(r)
    BY <1>2, <2>2 DEF Receive, Hand
  <2>3. ASSUME NEW l \in Loops, NextValue(r, l)
        PROVE  \A q \in Readers \ {r} :
                 /\ queue'[q] = queue[q] /\ wire'[q] = wire[q] /\ waiting'[q] = waiting[q]
                 /\ got'[q] = got[q] /\ cursor'[q] = cursor[q]
    BY <1>2, <2>3 DEF NextValue, Hand
  <2>4. QED
    BY <2>1, <2>2, <2>3
<1>5. \A q \in Readers \ {r} : ReaderInv(q)'
  BY <1>3, <1>4, OthersKept DEF ReadInv
<1>6. QED
  BY <1>1, <1>5 DEF ReadInv

LEMMA ReadInductive == TypeOK /\ ReadInv /\ [Next]_vars => ReadInv'
<1> SUFFICES ASSUME TypeOK, ReadInv, [Next]_vars PROVE ReadInv'
  OBVIOUS
<1>1. CASE UNCHANGED readVars /\ trimmed' \in Nat /\ trimmed <= trimmed'
  <2> SUFFICES ASSUME NEW r \in Readers PROVE ReaderInv(r)'
    BY DEF ReadInv
  <2>1. /\ UNCHANGED <<cursor, wire, queue, waiting, got>> /\ Handed(r)' = Handed(r)
        /\ ReaderInv(r)
    BY <1>1 DEF readVars, Handed, ReadInv
  <2>2. Accounted(r)'
    <3>1. cursor[r] \in Nat /\ trimmed \in Nat
      BY DEF TypeOK
    <3>2. \A i \in 1 .. cursor[r] :
            i \in Handed(r) \union Range(queue[r]) \union Range(wire[r]) \/ i <= trimmed
      BY <2>1 DEF ReaderInv, Accounted
    <3>3. \A i \in 1 .. cursor[r] : i <= trimmed => i <= trimmed'
      BY <1>1, <3>1
    <3>4. QED
      BY <2>1, <3>2, <3>3 DEF Accounted
  <2>3. QED
    BY <2>1, <2>2 DEF ReaderInv, FlowOrder, NobodyWaitsBesideValue, HasNewest, TakenOnce
<1>2. trimmed \in Nat
  BY DEF TypeOK
<1>3. ASSUME NEW w \in Writers, Call(w) \/ \E n \in 1 .. Len(sends[w]) : Send(w, n)
      PROVE  UNCHANGED readVars /\ trimmed' \in Nat /\ trimmed <= trimmed'
  <2>1. CASE Call(w)
    BY <1>2, <2>1 DEF Call
  <2>2. ASSUME NEW n \in 1 .. Len(sends[w]), Send(w, n)
        PROVE  UNCHANGED readVars /\ trimmed' \in Nat /\ trimmed <= trimmed'
    <3>1. CASE Add(w, n)
      BY <1>2, <3>1 DEF Add, TypeOK
    <3>2. CASE UNCHANGED trimmed /\ UNCHANGED readVars
      BY <1>2, <3>2
    <3>3. QED
      BY <2>2, <3>1, <3>2 DEF Send, Start, Record, Answer, Break
  <2>3. QED
    BY <1>3, <2>1, <2>2
<1>4. CASE UNCHANGED vars
  BY <1>1, <1>2, <1>4 DEF vars, readVars
<1>5. QED
  BY <1>1, <1>3, <1>4, ReadsKeep DEF Next

LEMMA ReadInit == Init => ReadInv
<1> SUFFICES ASSUME Init, NEW r \in Readers PROVE ReaderInv(r)
  BY DEF ReadInv
<1>1. /\ queue[r] = <<>> /\ wire[r] = <<>> /\ waiting[r] = <<>> /\ cursor[r] = 0
      /\ \A l \in Loops : got[r][l] = <<>>
  BY DEF Init
<1>2. Range(<<>>) = {} /\ Rising(<<>>) /\ 1 .. 0 = {}
  BY DEF Range, Rising
<1>3. Handed(r) = {}
  BY <1>1, <1>2 DEF Handed
<1>4. QED
  BY <1>1, <1>2, <1>3 DEF ReaderInv, FlowOrder, NobodyWaitsBesideValue, Accounted, HasNewest,
     TakenOnce

\* The strengthened invariant of the reading side holds in every state.
LEMMA ReadCorrect == Spec => []ReadInv
BY ReadInit, ReadInductive, TypeCorrect, PTL DEF Spec

\* However many loops share a collector, each value goes to one of them, once,
\* and each loop sees its share in order (pubsub.ts:5-53, io.ts:82-96).
THEOREM EachValueToOneLoop == Spec => []OneTaker
<1>1. ReadInv => OneTaker
  BY DEF ReadInv, ReaderInv, TakenOnce, OneTaker, Rising
<1>2. QED
  BY <1>1, ReadCorrect, PTL

-----------------------------------------------------------------------------
(* Nothing is lost on the way: the safety half of ValuesAreRead.             *)

\* An entry that no loop of a collector was handed has been trimmed, is still
\* before the server's cursor, is on its way, or is queued while no loop waits.
NoneLost ==
  \A r \in Readers : \A i \in 1 .. Len(log) :
    \/ i \in Handed(r) \/ i <= trimmed
    \/ cursor[r] < i
    \/ i \in Range(wire[r])
    \/ i \in Range(queue[r]) /\ waiting[r] = <<>>

\* A value that has not reached a loop is where the next read, message or
\* nextValue call finds it: none is dropped between the server's read and the
\* loops, and no loop waits beside a queued one (service.ts:325-367,
\* pubsub.ts:5-53).
THEOREM ValuesStayReachable == Spec => []NoneLost
<1>1. TypeOK /\ ReadInv => NoneLost
  <2> SUFFICES ASSUME TypeOK, ReadInv, NEW r \in Readers, NEW i \in 1 .. Len(log), i <= cursor[r]
               PROVE  \/ i \in Handed(r) \/ i <= trimmed
                      \/ i \in Range(wire[r])
                      \/ i \in Range(queue[r]) /\ waiting[r] = <<>>
    BY DEF NoneLost, TypeOK
  <2>1. i \in 1 .. cursor[r]
    BY DEF TypeOK
  <2>2. i \in Handed(r) \union Range(queue[r]) \union Range(wire[r]) \/ i <= trimmed
    BY <2>1 DEF ReadInv, ReaderInv, Accounted
  <2>3. i \in Range(queue[r]) => waiting[r] = <<>>
    <3>1. queue[r] = <<>> => Range(queue[r]) = {}
      BY DEF Range
    <3> QED BY <3>1 DEF ReadInv, ReaderInv, NobodyWaitsBesideValue
  <2> QED BY <2>2, <2>3
<1>2. QED
  BY <1>1, ReadCorrect, TypeCorrect, PTL

-----------------------------------------------------------------------------
(* The stream implements the broadcast log *)

LEMMA NewestKept ==
  ASSUME UNCHANGED got
  PROVE  NewestHanded' = NewestHanded
<1>1. \A r \in Readers : Handed(r)' = Handed(r)
  BY DEF Handed
<1>2. QED
  BY <1>1 DEF NewestHanded

\* A loop takes entry i, the oldest its reader holds: a step of the reader.
LEMMA HandIsTake ==
  ASSUME TypeOK, ReadInv, NEW r \in Readers, NEW l \in Loops, NEW i \in Nat, Hand(r, l, i),
         i \in Range(queue[r]) \union Range(wire[r]),
         \A x \in Range(queue[r]) \union Range(wire[r]) : i <= x,
         UNCHANGED <<log, trimmed>>
  PROVE  Broadcast!Take(r)
<1>1. /\ cursor[r] \in 0 .. Len(log) /\ Len(log) \in Nat /\ trimmed \in Nat
      /\ ReaderInv(r)
  BY DEF TypeOK, ReadInv
<1>2. /\ Handed(r)' = Handed(r) \union {i}
      /\ \A q \in Readers \ {r} : Handed(q)' = Handed(q)
  BY HandStep
<1>3. /\ Handed(r) \subseteq 1 .. cursor[r] /\ i \in 1 .. cursor[r]
      /\ \A h \in Handed(r) : h < i
  BY DEF ReadInv, ReaderInv, FlowOrder
<1>4. NewestHanded'[r] = i
  <2>1. \A h \in Handed(r)' : h <= i
    BY <1>1, <1>2, <1>3
  <2>2. i \in Handed(r)' /\ Handed(r)' \subseteq Nat
    BY <1>1, <1>2, <1>3
  <2>3. Max(Handed(r)') = i
    BY <2>1, <2>2 DEF Max
  <2>4. QED
    BY <2>2, <2>3 DEF NewestHanded
<1>5. /\ NewestHanded[r] \in 0 .. cursor[r] /\ NewestHanded[r] < i
      /\ \A h \in Handed(r) : h <= NewestHanded[r]
  <2>1. CASE Handed(r) = {}
    BY <1>1, <1>3, <2>1 DEF NewestHanded
  <2>2. CASE Handed(r) # {}
    <3>1. \E m \in Handed(r) : \A h \in Handed(r) : m >= h
      BY <1>1, <1>3, <2>2 DEF ReaderInv, HasNewest
    <3>2. Max(Handed(r)) \in Handed(r) /\ \A h \in Handed(r) : Max(Handed(r)) >= h
      BY <3>1 DEF Max
    <3>3. NewestHanded[r] = Max(Handed(r))
      BY <2>2 DEF NewestHanded
    <3>4. QED
      BY <1>1, <1>3, <3>2, <3>3
  <2>3. QED
    BY <2>1, <2>2
<1>6. NewestHanded' = [NewestHanded EXCEPT ![r] = i]
  <2>1. \A q \in Readers \ {r} : NewestHanded'[q] = NewestHanded[q]
    BY <1>2 DEF NewestHanded
  <2>2. NewestHanded = [q \in Readers |-> NewestHanded[q]]
        /\ NewestHanded' = [q \in Readers |-> NewestHanded'[q]]
    BY DEF NewestHanded
  <2>3. QED
    BY <1>4, <2>1, <2>2
<1>7. NewestHanded[r] + 1 .. i - 1 \subseteq 1 .. trimmed
  <2> SUFFICES ASSUME NEW j \in NewestHanded[r] + 1 .. i - 1 PROVE j \in 1 .. trimmed
    OBVIOUS
  <2>1. j \in 1 .. cursor[r] /\ j > NewestHanded[r] /\ j < i
    BY <1>1, <1>3, <1>5
  <2>2. j \notin Handed(r)
    BY <1>1, <1>5, <2>1
  <2>3. j \notin Range(queue[r]) \union Range(wire[r])
    BY <1>1, <2>1
  <2>4. QED
    BY <1>1, <2>1, <2>2, <2>3 DEF ReaderInv, Accounted
<1>8. i \in NewestHanded[r] + 1 .. Len(log)
  BY <1>1, <1>3, <1>5
<1>9. QED
  BY <1>6, <1>7, <1>8 DEF Broadcast!Take

LEMMA StepImplements ==
  TypeOK /\ ReadInv /\ [Next]_vars => [Broadcast!Next]_<<log, trimmed, NewestHanded>>
<1> SUFFICES ASSUME TypeOK, ReadInv, [Next]_vars
             PROVE  Broadcast!Next \/ UNCHANGED <<log, trimmed, NewestHanded>>
  OBVIOUS
<1>1. CASE UNCHANGED <<log, trimmed, got>>
  BY <1>1, NewestKept
<1>2. ASSUME NEW w \in Writers, NEW n \in 1 .. Len(sends[w]), Add(w, n)
      PROVE  Broadcast!Next
  <2>1. <<w, n>> \in Entries /\ log \in Seq(Entries) /\ trimmed \in 0 .. Len(log)
    BY StreamAssumption DEF Entries, TypeOK
  <2>2. log' = Append(log, <<w, n>>) /\ Len(log') = Len(log) + 1
    BY <1>2, <2>1, AppendProperties DEF Add
  <2>3. trimmed' \in trimmed .. Len(log')
    BY <1>2, <2>2 DEF Add
  <2>4. NewestHanded' = NewestHanded
    BY <1>2, NewestKept DEF Add, readVars
  <2>5. QED
    BY <2>1, <2>2, <2>3, <2>4 DEF Broadcast!Next, Broadcast!Add
<1>3. ASSUME NEW r \in Readers, Receive(r)
      PROVE  Broadcast!Next \/ UNCHANGED <<log, trimmed, got>>
  <2>1. CASE waiting[r] # <<>> /\ Hand(r, Head(waiting[r]), Head(wire[r]))
    <3>1. /\ wire[r] \in Seq(Nat) /\ wire[r] # <<>> /\ Head(waiting[r]) \in Loops
          /\ UNCHANGED <<log, trimmed>>
      BY <1>3, <2>1 DEF Receive, TypeOK, sendVars
    <3>2. queue[r] = <<>> /\ Rising(wire[r])
      BY <2>1 DEF ReadInv, ReaderInv, NobodyWaitsBesideValue, FlowOrder
    <3>3. Head(wire[r]) \in Nat /\ Range(wire[r]) = Range(Tail(wire[r])) \union {Head(wire[r])}
          /\ \A y \in Range(Tail(wire[r])) : Head(wire[r]) < y /\ Tail(wire[r]) \in Seq(Nat)
      BY <3>1, <3>2, TailRises
    <3>4. Range(queue[r]) = {}
      BY <3>2 DEF Range
    <3>5. \A x \in Range(queue[r]) \union Range(wire[r]) : Head(wire[r]) <= x
      <4>1. \A y \in Range(wire[r]) : y \in Nat
        BY <3>1, EntriesAreNumbers
      <4>2. QED
        BY <3>3, <3>4, <4>1
    <3>6. Broadcast!Take(r)
      BY <2>1, <3>1, <3>3, <3>5, HandIsTake
    <3>7. QED
      BY <3>6 DEF Broadcast!Next
  <2>2. CASE UNCHANGED got
    BY <1>3, <2>2 DEF Receive, sendVars
  <2>3. QED
    BY <1>3, <2>1, <2>2 DEF Receive
<1>4. ASSUME NEW r \in Readers, NEW l \in Loops, NextValue(r, l)
      PROVE  Broadcast!Next \/ UNCHANGED <<log, trimmed, got>>
  <2>1. CASE queue[r] # <<>> /\ Hand(r, l, Head(queue[r]))
    <3>1. queue[r] \in Seq(Nat) /\ wire[r] \in Seq(Nat) /\ UNCHANGED <<log, trimmed>>
      BY <1>4 DEF NextValue, TypeOK, sendVars
    <3>2. Rising(queue[r]) /\ \A q \in Range(queue[r]) : \A x \in Range(wire[r]) : q < x
      BY DEF ReadInv, ReaderInv, FlowOrder
    <3>3. Head(queue[r]) \in Nat /\ Range(queue[r]) = Range(Tail(queue[r])) \union {Head(queue[r])}
          /\ Tail(queue[r]) \in Seq(Nat) /\ \A y \in Range(Tail(queue[r])) : Head(queue[r]) < y
      BY <2>1, <3>1, <3>2, TailRises
    <3>4. \A x \in Range(queue[r]) \union Range(wire[r]) : Head(queue[r]) <= x
      <4>1. /\ \A y \in Range(queue[r]) : y \in Nat
            /\ \A y \in Range(wire[r]) : y \in Nat
        BY <3>1, EntriesAreNumbers
      <4>2. \A x \in Range(queue[r]) : Head(queue[r]) <= x
        BY <3>3, <4>1
      <4>3. \A x \in Range(wire[r]) : Head(queue[r]) <= x
        <5>1. Head(queue[r]) \in Range(queue[r])
          BY <3>3
        <5>2. \A x \in Range(wire[r]) : Head(queue[r]) < x
          BY <3>2, <5>1
        <5>3. QED
          BY <3>3, <4>1, <5>2
      <4>4. QED
        BY <4>2, <4>3
    <3>5. Broadcast!Take(r)
      BY <2>1, <3>1, <3>3, <3>4, HandIsTake
    <3>6. QED
      BY <3>5 DEF Broadcast!Next
  <2>2. CASE UNCHANGED got
    BY <1>4, <2>2 DEF NextValue, sendVars
  <2>3. QED
    BY <1>4, <2>1, <2>2 DEF NextValue
<1>5. ASSUME NEW r \in Readers, ServerRead(r) PROVE UNCHANGED <<log, trimmed, got>>
  BY <1>5 DEF ServerRead, sendVars
<1>6. ASSUME NEW w \in Writers, Call(w) PROVE UNCHANGED <<log, trimmed, got>>
  BY <1>6 DEF Call, readVars
<1>7. ASSUME NEW w \in Writers, NEW n \in 1 .. Len(sends[w]), Send(w, n), ~Add(w, n)
      PROVE  UNCHANGED <<log, trimmed, got>>
  BY <1>7 DEF Send, Start, Record, Answer, Break, readVars
<1>8. CASE UNCHANGED vars
  BY <1>1, <1>8 DEF vars
<1>9. QED
  <2>1. ASSUME NEW w \in Writers, NEW n \in 1 .. Len(sends[w]), Send(w, n)
        PROVE  Broadcast!Next \/ UNCHANGED <<log, trimmed, got>>
    BY <1>2, <1>7, <2>1
  <2>2. QED
    BY <1>1, <1>3, <1>4, <1>5, <1>6, <1>8, <2>1 DEF Next

\* Every collector reads like one reader of the broadcast log: it walks the
\* stream from its start, in order, and misses nothing but what redis trimmed
\* (service.ts:316-371, DataStreamSubscriber.ts:62-117, pubsub.ts:3-53).
THEOREM ImplementsBroadcast == Spec => IsBroadcastLog
<1>1. Init => Broadcast!Init
  <2> SUFFICES ASSUME Init PROVE NewestHanded = [r \in Readers |-> 0]
    BY DEF Init, Broadcast!Init
  <2>1. \A r \in Readers : Handed(r) = {}
    BY DEF Init, Handed, Range
  <2>2. QED
    BY <2>1 DEF NewestHanded
<1>2. QED
  BY <1>1, StepImplements, TypeCorrect, ReadCorrect, PTL
  DEF Spec, IsBroadcastLog, Broadcast!Spec, Broadcast!vars

-----------------------------------------------------------------------------
(* History queries *)

\* The first m entries of a sequence.
LEMMA PrefixOf ==
  ASSUME NEW S, NEW s \in Seq(S), NEW m \in 0 .. Len(s)
  PROVE  /\ SubSeq(s, 1, m) \in Seq(S) /\ Len(SubSeq(s, 1, m)) = m
         /\ \A i \in 1 .. m : SubSeq(s, 1, m)[i] = s[i]
<1>1. m \in Nat /\ Len(s) \in Nat /\ m <= Len(s)
  OBVIOUS
<1>2. \A i \in 1 .. m : s[i] \in S
  BY <1>1
<1>3. SubSeq(s, 1, m) = [i \in 1 .. m |-> s[i]]
  BY <1>1
<1> QED BY <1>1, <1>2, <1>3

\* Of a stream whose only terminator is its last entry: the oldest of the n + 1
\* newest entries is a value, and the newest, the terminator, is dropped, unless
\* the terminator is all there is.
LEMMA RecentOfEnded ==
  ASSUME TypeOK, EndedOnceAndLast, NEW n \in 0 .. Len(log)
  PROVE  LET data == Reverse(Front(Retained))
         IN  MostRecent(n) = SubSeq(data, 1, IF n < Len(data) THEN n ELSE Len(data))
<1> DEFINE R == Retained
           K == Len(R)
           all == Reverse(R)
           data == Reverse(Front(R))
<1>1. log \in Seq(Entries) /\ trimmed \in 0 .. Len(log) /\ n \in Nat
  BY DEF TypeOK
<1>2. R \in Seq(Entries) /\ R # <<>>
  BY <1>1 DEF Retained, EndedOnceAndLast
<1>3. IsEnd(R[K]) /\ \A i \in 1 .. K - 1 : ~IsEnd(R[i])
  BY DEF EndedOnceAndLast, Last
<1> HIDE DEF R
<1>4. K \in Nat \ {0}
  BY <1>2
<1>5. /\ all \in Seq(Entries) /\ Len(all) = K /\ \A i \in 1 .. K : all[i] = R[K - i + 1]
      /\ K - 1 \in Nat /\ data \in Seq(Entries) /\ Len(data) = K - 1
      /\ \A i \in 1 .. K - 1 : data[i] = R[K - i]
  <2>1. all \in Seq(Entries) /\ Len(all) = K /\ \A i \in 1 .. K : all[i] = R[K - i + 1]
    BY <1>2, <1>4 DEF Reverse
  <2> DEFINE F == Front(R)
  <2>2. F \in Seq(Entries) /\ Len(F) = K - 1 /\ \A i \in 1 .. K - 1 : F[i] = R[i]
    <3>1. F = SubSeq(R, 1, K - 1) /\ K - 1 \in 0 .. Len(R)
      BY <1>4 DEF Front
    <3> QED BY <1>2, <3>1, PrefixOf
  <2> HIDE DEF F
  <2>3. data = Reverse(F)
    BY DEF F
  <2>4. Reverse(F) \in Seq(Entries) /\ Len(Reverse(F)) = K - 1 /\ \A i \in 1 .. K - 1 : Reverse(F)[i] = R[K - i]
    BY <2>2, <1>4 DEF Reverse
  <2> HIDE DEF R, K, all, data
  <2>5. /\ data \in Seq(Entries) /\ Len(data) = K - 1
        /\ \A i \in 1 .. K - 1 : data[i] = R[K - i]
    BY <2>3, <2>4
  <2>6. K - 1 \in Nat
    BY <1>4
  <2> QED BY <2>1, <2>5, <2>6
<1> HIDE DEF K, all, data
<1>6. \A i \in 1 .. K - 1 : all[i + 1] = data[i]
  <2> TAKE i \in 1 .. K - 1
  <2>1. i + 1 \in 1 .. K /\ K - (i + 1) + 1 = K - i
    BY <1>4
  <2> QED BY <1>5, <2>1
<1> DEFINE results == NewestFirst(n + 1)
           m == IF K <= n + 1 THEN K ELSE n + 1
<1>7. results = SubSeq(all, 1, m) /\ m \in 1 .. K
  <2>1. results = IF K <= n + 1 THEN all ELSE SubSeq(all, 1, n + 1)
    BY <1>5 DEF NewestFirst, all, R
  <2>2. SubSeq(all, 1, K) = all
    <3>1. /\ SubSeq(all, 1, K) \in Seq(Entries) /\ Len(SubSeq(all, 1, K)) = K
          /\ \A i \in 1 .. K : SubSeq(all, 1, K)[i] = all[i]
      BY <1>4, <1>5, PrefixOf
    <3> QED BY <1>5, <3>1, SeqEqual
  <2>3. m \in 1 .. K /\ (K <= n + 1 => m = K) /\ (~(K <= n + 1) => m = n + 1)
    BY <1>1, <1>4
  <2> HIDE DEF results, m
  <2> QED BY <2>1, <2>2, <2>3
<1> HIDE DEF m, results
<1>8. results \in Seq(Entries) /\ Len(results) = m /\ \A i \in 1 .. m : results[i] = all[i]
  <2>1. m \in 0 .. Len(all)
    BY <1>4, <1>5, <1>7
  <2> QED BY <1>5, <1>7, <2>1, PrefixOf
<1>9. MostRecent(n) = IF IsEnd(results[m]) THEN SubSeq(results, 1, m - 1) ELSE Tail(results)
  <2>1. results # <<>>
    <3>1. Len(results) # 0
      BY <1>4, <1>7, <1>8
    <3> QED BY <3>1
  <2> QED BY <1>8, <2>1 DEF MostRecent, Last, Front, results
<1>10. results[m] = R[K - m + 1]
  BY <1>5, <1>7, <1>8
<1> DEFINE wanted == SubSeq(data, 1, IF n < Len(data) THEN n ELSE Len(data))
<1>11. wanted = SubSeq(data, 1, m - 1)
  <2>1. m - 1 = IF n < K - 1 THEN n ELSE K - 1
    BY <1>1, <1>4 DEF m
  <2> QED BY <1>5, <2>1
<1>12. CASE m = 1
  <2>1. IsEnd(results[m])
    BY <1>3, <1>4, <1>10, <1>12
  <2>2. SubSeq(results, 1, 0) = <<>> /\ SubSeq(data, 1, 0) = <<>>
    BY <1>5, <1>8
  <2> QED BY <1>9, <1>11, <1>12, <2>1, <2>2 DEF data, R
<1>13. CASE m # 1
  <2>1. K - m + 1 \in 1 .. K - 1
    BY <1>4, <1>7, <1>13
  <2>2. MostRecent(n) = Tail(results)
    BY <1>3, <1>9, <1>10, <2>1
  <2>3. /\ Tail(results) \in Seq(Entries) /\ Len(Tail(results)) = m - 1
        /\ \A i \in 1 .. m - 1 : Tail(results)[i] = results[i + 1]
    <3>1. Len(results) # 0 /\ m \in Nat
      BY <1>4, <1>7, <1>8
    <3>2. results # <<>>
      BY <3>1
    <3> QED BY <1>8, <3>1, <3>2, HeadTailProperties
  <2>4. \A i \in 1 .. m - 1 : Tail(results)[i] = data[i]
    <3> TAKE i \in 1 .. m - 1
    <3>1. i + 1 \in 1 .. m /\ i \in 1 .. K - 1
      BY <1>4, <1>7
    <3> QED BY <1>6, <1>8, <2>3, <3>1
  <2>5. /\ SubSeq(data, 1, m - 1) \in Seq(Entries) /\ Len(SubSeq(data, 1, m - 1)) = m - 1
        /\ \A i \in 1 .. m - 1 : SubSeq(data, 1, m - 1)[i] = data[i]
    <3>1. m - 1 \in 0 .. Len(data)
      BY <1>4, <1>5, <1>7
    <3> QED BY <1>5, <3>1, PrefixOf
  <2>6. Tail(results) = SubSeq(data, 1, m - 1)
    <3> DEFINE u == Tail(results)
               v == SubSeq(data, 1, m - 1)
    <3>1. u \in Seq(Entries) /\ v \in Seq(Entries) /\ Len(u) = Len(v) /\ Len(u) = m - 1
      BY <2>3, <2>5
    <3>2. \A i \in 1 .. m - 1 : u[i] = v[i]
      BY <2>4, <2>5
    <3> HIDE DEF u, v
    <3>3. u = v
      BY <3>1, <3>2, SeqEqual
    <3> QED BY <3>3 DEF u, v
  <2> QED BY <1>11, <2>2, <2>6 DEF data, R
<1> QED BY <1>12, <1>13

\* Of a stream that was ended once and last, mostRecent(n) gives the newest n
\* values, or all, for any number of writers and sends and whatever redis has
\* trimmed.
THEOREM MostRecentOfEnded == Spec => []RecentAfterEnd
<1>1. TypeOK => RecentAfterEnd
  BY RecentOfEnded DEF RecentAfterEnd
<1> QED BY <1>1, TypeCorrect, PTL
=============================================================================
