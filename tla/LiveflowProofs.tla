--------------------------- MODULE LiveflowProofs ---------------------------
(* For every liveflow definition, any set of specs, tags and labels and any   *)
(* spread of the actors over processes.  Two arguments meet: what the graph  *)
(* of a definition says of its connections, by induction over them; and the  *)
(* order of the steps of enqueueJob which, with the wait for the status,     *)
(* keeps every process nobody binds in early from resolving a child whose    *)
(* records are not there yet.                                                *)
EXTENDS Liveflow, SequenceTheorems, FiniteSetTheorems, WellFoundedInduction, TLAPS

-----------------------------------------------------------------------------
(* The graph of a definition, by induction over its connections. *)

\* Induction over the natural numbers, for a set: a least number outside of it
\* would have a predecessor in it.
LEMMA NatSetInduction ==
  ASSUME NEW A, 0 \in A, \A n \in Nat : n \in A => n + 1 \in A
  PROVE  \A n \in Nat : n \in A
<1> DEFINE R == OpToRel(<, Nat)
           B == {n \in Nat : n \notin A}
<1> SUFFICES ASSUME B # {} PROVE FALSE
  OBVIOUS
<1>1. IsWellFoundedOn(R, Nat) /\ B \subseteq Nat
  BY NatLessThanWellFounded
<1>2. PICK x \in B : \A y \in B : ~ (<<y, x>> \in R)
  <2> HIDE DEF B, R
  <2> QED BY <1>1, WFMin
<1>3. x \in Nat /\ x # 0 /\ x - 1 \in Nat /\ (x - 1) + 1 = x
  OBVIOUS
<1>4. x - 1 \notin A
  BY <1>3
<1>5. R = {p \in Nat \X Nat : p[1] < p[2]}
  BY Zenon DEF OpToRel
<1>6. <<x - 1, x>> \in R
  <2> HIDE DEF R
  <2> QED BY <1>3, <1>5
<1> QED BY <1>2, <1>3, <1>4, <1>6

\* The recursion has a solution, so what GraphsUpTo chooses is one.
LEMMA GraphsDefined ==
  ASSUME NEW f \in Seq(Connections)
  PROVE  /\ GraphsUpTo(f)[0] = EmptyGraph
         /\ \A k \in 1 .. Len(f) :
              GraphsUpTo(f)[k] = AddConnectedDualSpecs(GraphsUpTo(f)[k - 1], f[k])
<1> DEFINE n == Len(f)
           op(g, k) == AddConnectedDualSpecs(g, f[k])
           G(g, m) == [k \in 0 .. m |-> IF k = 0 THEN EmptyGraph ELSE op(g[k - 1], k)]
           A == {m \in Nat : \E g : g = G(g, m)}
           h == CHOOSE g : g = G(g, n)
<1>0. n \in Nat
  OBVIOUS
<1>1. GraphsUpTo(f) = h
  BY DEF GraphsUpTo
<1> HIDE DEF n, op
<1>2. 0 \in A
  <2> DEFINE g == [k \in 0 .. 0 |-> EmptyGraph]
  <2>1. g = G(g, 0)
    OBVIOUS
  <2> QED BY <2>1
<1>3. ASSUME NEW m \in Nat, m \in A PROVE m + 1 \in A
  <2>1. PICK g : g = G(g, m)
    BY <1>3
  <2> DEFINE e == [k \in 0 .. m + 1 |-> IF k = m + 1 THEN op(g[m], m + 1) ELSE g[k]]
  <2>2. \A k \in 0 .. m : e[k] = g[k] /\ g[k] = IF k = 0 THEN EmptyGraph ELSE op(g[k - 1], k)
    BY <2>1
  <2>3. \A k \in 0 .. m + 1 : e[k] = IF k = 0 THEN EmptyGraph ELSE op(e[k - 1], k)
    <3> TAKE k \in 0 .. m + 1
    <3>1. CASE k = 0
      <4>1. 0 \in 0 .. m /\ k # m + 1
        BY <3>1
      <4>2. e[k] = g[k]
        BY <2>2, <3>1, <4>1
      <4> HIDE DEF e
      <4> QED BY <2>2, <3>1, <4>1, <4>2
    <3>2. CASE k # 0 /\ k # m + 1
      <4>1. k \in 0 .. m /\ k - 1 \in 0 .. m
        BY <3>2
      <4> HIDE DEF e
      <4> QED BY <2>2, <3>2, <4>1
    <3>3. CASE k = m + 1
      <4>1. k - 1 = m /\ m \in 0 .. m /\ k # 0
        BY <3>3
      <4>2. e[k] = op(g[m], k)
        BY <3>3
      <4> HIDE DEF e
      <4> QED BY <2>2, <4>1, <4>2
    <3> QED BY <3>1, <3>2, <3>3
  <2>4. DOMAIN e = 0 .. m + 1 /\ e = [k \in 0 .. m + 1 |-> e[k]]
    OBVIOUS
  <2> HIDE DEF e
  <2>5. e = G(e, m + 1)
    BY <2>3, <2>4
  <2> QED BY <2>5
<1>4. n \in A
  <2> HIDE DEF A
  <2> QED BY <1>0, <1>2, <1>3, NatSetInduction
<1>5. h = G(h, n)
  BY <1>4
<1> HIDE DEF h
<1>6. h[0] = EmptyGraph /\ \A k \in 1 .. n : h[k] = op(h[k - 1], k)
  <2>1. \A k \in 0 .. n : h[k] = IF k = 0 THEN EmptyGraph ELSE op(h[k - 1], k)
    BY <1>5
  <2>2. 0 \in 0 .. n /\ \A k \in 1 .. n : k \in 0 .. n /\ k # 0
    BY <1>0
  <2> QED BY <2>1, <2>2
<1> QED BY <1>1, <1>6 DEF n, op

Defs == (EndPoints \union {AnySpec}) \X (EndPoints \union {AnySpec})

\* The stream an outlet has.
StreamOf(g, outlet) == g.outof[outlet][1]

\* What the connections cs have made of a graph.
GraphInv(g, cs) ==
  /\ g = [specs |-> g.specs, into |-> g.into, outof |-> g.outof, byTag |-> g.byTag]
  /\ g.specs = {c.from.job : c \in cs} \union {c.to.job : c \in cs}
  /\ DOMAIN g.outof = {c.from : c \in cs}
  /\ \A o \in DOMAIN g.outof : \E x \in EndPoints : g.outof[o] = << <<o, x>> >>
  /\ DOMAIN g.into = {c.to : c \in cs}
  /\ \A i \in DOMAIN g.into :
       /\ g.into[i] \in Seq(Defs) /\ g.into[i] # << >>
       /\ \A d \in Range(g.into[i]) : \E c \in cs : c.to = i /\ d = StreamOf(g, c.from)
  /\ \A key \in DOMAIN g.byTag : \E c \in cs :
       /\ key = TagKey("out", c.from) \/ key = TagKey("in", c.to)
       /\ g.byTag[key] = StreamOf(g, c.from)

LEMMA EmptyGraphInv == GraphInv(EmptyGraph, {})
<1>1. DOMAIN << >> = {}
  OBVIOUS
<1> QED BY <1>1 DEF GraphInv, EmptyGraph

\* A sequence of stream definitions with one more at its end, if it is new.
LEMMA EdgeEnsured ==
  ASSUME NEW es \in Seq(Defs), NEW d \in Defs
  PROVE  /\ EnsureEdge(es, d) \in Seq(Defs) /\ EnsureEdge(es, d) # << >>
         /\ Range(EnsureEdge(es, d)) = Range(es) \union {d}
         /\ es # << >> => Head(EnsureEdge(es, d)) = Head(es)
         /\ es = << >> => EnsureEdge(es, d) = <<d>>
         /\ Head(EnsureEdge(es, d)) \in Range(EnsureEdge(es, d))
<1>1. CASE d \in Range(es)
  <2>1. EnsureEdge(es, d) = es
    BY <1>1 DEF EnsureEdge
  <2>2. es # << >>
    BY <1>1 DEF Range
  <2>3. Head(es) = es[1] /\ 1 \in DOMAIN es
    BY <2>2
  <2>4. Head(es) \in Range(es)
    BY <2>3 DEF Range
  <2> QED BY <1>1, <2>1, <2>2, <2>4
<1>2. CASE d \notin Range(es)
  <2>1. EnsureEdge(es, d) = Append(es, d)
    BY <1>2 DEF EnsureEdge
  <2> DEFINE a == Append(es, d)
  <2>2. /\ a \in Seq(Defs) /\ Len(a) = Len(es) + 1 /\ Len(es) \in Nat
        /\ DOMAIN a = 1 .. Len(es) + 1 /\ DOMAIN es = 1 .. Len(es)
        /\ \A i \in 1 .. Len(es) : a[i] = es[i]
        /\ a[Len(es) + 1] = d
    OBVIOUS
  <2> HIDE DEF a
  <2>3. a # << >> /\ Head(a) = a[1] /\ 1 \in DOMAIN a
    <3>1. Len(a) # 0
      BY <2>2
    <3>2. a # << >>
      BY <3>1
    <3> QED BY <2>2, <3>2
  <2>4. Range(a) = Range(es) \union {d}
    <3>1. ASSUME NEW x \in Range(a) PROVE x \in Range(es) \union {d}
      <4>1. PICK i \in 1 .. Len(es) + 1 : x = a[i]
        BY <2>2, <3>1 DEF Range
      <4>2. CASE i = Len(es) + 1
        BY <2>2, <4>1, <4>2
      <4>3. CASE i # Len(es) + 1
        <5>1. i \in 1 .. Len(es)
          BY <2>2, <4>3
        <5> QED BY <2>2, <4>1, <5>1 DEF Range
      <4> QED BY <4>2, <4>3
    <3>2. ASSUME NEW x \in Range(es) PROVE x \in Range(a)
      <4>1. PICK i \in 1 .. Len(es) : x = es[i]
        BY <2>2, <3>2 DEF Range
      <4>2. i \in DOMAIN a /\ a[i] = x
        BY <2>2, <4>1
      <4> QED BY <4>2 DEF Range
    <3>3. d \in Range(a)
      <4>1. Len(es) + 1 \in DOMAIN a
        BY <2>2
      <4> QED BY <2>2, <4>1 DEF Range
    <3> QED BY <3>1, <3>2, <3>3
  <2>5. Head(a) \in Range(a)
    BY <2>3 DEF Range
  <2>6. es # << >> => Head(a) = Head(es)
    <3>1. es # << >> => 1 \in 1 .. Len(es) /\ Head(es) = es[1]
      OBVIOUS
    <3> QED BY <2>2, <2>3, <3>1
  <2>7. es = << >> => a = <<d>>
    BY DEF a
  <2> QED BY <2>1, <2>2, <2>3, <2>4, <2>5, <2>6, <2>7 DEF a
<1> QED BY <1>1, <1>2

LEMMA ConnectionAdded ==
  ASSUME NEW cs \in SUBSET Connections, NEW g, GraphInv(g, cs), NEW c \in Connections
  PROVE  GraphInv(AddConnectedDualSpecs(g, c), cs \union {c})
<1> DEFINE def == ConnectionStream(g, c)
           h == AddConnectedDualSpecs(g, c)
           S(o) == StreamOf(g, o)
<1>0. c.from \in EndPoints /\ c.to \in EndPoints /\ AnySpec \notin EndPoints
  BY FlowAssumption DEF Connections
<1>1. \E x \in EndPoints : def = <<c.from, x>> /\ (c.from \in DOMAIN g.outof => def = S(c.from))
  <2>1. CASE c.from \in DOMAIN g.outof
    <3>1. PICK x \in EndPoints : g.outof[c.from] = << <<c.from, x>> >>
      BY <2>1 DEF GraphInv
    <3>2. Edges(g.outof, c.from) = << <<c.from, x>> >>
      BY <2>1, <3>1 DEF Edges
    <3>3. def = <<c.from, x>>
      BY <3>2 DEF ConnectionStream
    <3> QED BY <3>1, <3>3 DEF StreamOf
  <2>2. CASE c.from \notin DOMAIN g.outof
    <3>1. Edges(g.outof, c.from) = << >>
      BY <2>2 DEF Edges
    <3>2. def = <<c.from, c.to>>
      BY <3>1 DEF ConnectionStream
    <3> QED BY <1>0, <2>2, <3>2
  <2> QED BY <2>1, <2>2
<1>2. def \in Defs
  BY <1>0, <1>1 DEF Defs
<1> DEFINE outof == [e \in {c.from} \union DOMAIN g.outof |->
                       IF e = c.from THEN EnsureEdge(Edges(g.outof, c.from), def) ELSE g.outof[e]]
           into == [e \in {c.to} \union DOMAIN g.into |->
                       IF e = c.to THEN EnsureEdge(Edges(g.into, c.to), def) ELSE g.into[e]]
           ko == TagKey("out", c.from)
           ki == TagKey("in", c.to)
           byTag == [k \in {ko, ki} \union DOMAIN g.byTag |-> IF k \in {ko, ki} THEN def ELSE g.byTag[k]]
<1>3. h = [specs |-> g.specs \union {c.from.job, c.to.job}, into |-> into, outof |-> outof, byTag |-> byTag]
  <2> HIDE DEF def
  <2>1. Put(g.into, c.to, EnsureEdge(Edges(g.into, c.to), def)) = into
    BY DEF Put
  <2>2. Put(g.outof, c.from, EnsureEdge(Edges(g.outof, c.from), def)) = outof
    BY DEF Put
  <2>3. Put(Put(g.byTag, ki, def), ko, def) = byTag
    <3> HIDE DEF ki, ko
    <3> QED BY DEF Put
  <2>4. h = [specs |-> g.specs \union {c.from.job, c.to.job},
             into |-> Put(g.into, c.to, EnsureEdge(Edges(g.into, c.to), def)),
             outof |-> Put(g.outof, c.from, EnsureEdge(Edges(g.outof, c.from), def)),
             byTag |-> Put(Put(g.byTag, ki, def), ko, def)]
    BY DEF AddConnectedDualSpecs, def
  <2> HIDE DEF h, into, outof, byTag
  <2> QED BY <2>1, <2>2, <2>3, <2>4
<1> HIDE DEF def, h, S
<1>4. outof[c.from] = <<def>>
  <2>1. outof[c.from] = EnsureEdge(Edges(g.outof, c.from), def)
    OBVIOUS
  <2>2. CASE c.from \in DOMAIN g.outof
    <3>1. PICK x \in EndPoints : g.outof[c.from] = << <<c.from, x>> >>
      BY <2>2 DEF GraphInv
    <3>2. g.outof[c.from] = <<def>>
      BY <1>1, <2>2, <3>1 DEF S, StreamOf
    <3>3. def \in Range(<<def>>)
      BY DEF Range
    <3> QED BY <2>1, <2>2, <3>2, <3>3 DEF Edges, EnsureEdge
  <2>3. CASE c.from \notin DOMAIN g.outof
    <3>1. Edges(g.outof, c.from) = << >>
      BY <2>3 DEF Edges
    <3>2. << >> \in Seq(Defs)
      OBVIOUS
    <3>3. EnsureEdge(<< >>, def) = <<def>>
      BY <1>2, <3>2, EdgeEnsured
    <3> QED BY <2>1, <3>1, <3>3
  <2> QED BY <2>2, <2>3
<1>5. /\ h.specs = g.specs \union {c.from.job, c.to.job}
      /\ h.into = into /\ h.outof = outof /\ h.byTag = byTag
      /\ h = [specs |-> h.specs, into |-> h.into, outof |-> h.outof, byTag |-> h.byTag]
  <2> HIDE DEF into, outof, byTag
  <2> QED BY <1>3
<1>6. StreamOf(h, c.from) = def /\ \A o \in DOMAIN g.outof : StreamOf(h, o) = S(o)
  <2>1. StreamOf(h, c.from) = def
    BY <1>4, <1>5 DEF StreamOf
  <2>2. \A o \in DOMAIN g.outof : o # c.from => outof[o] = g.outof[o]
    OBVIOUS
  <2> HIDE DEF outof
  <2> QED BY <1>1, <1>5, <2>1, <2>2 DEF StreamOf, S
<1>7. h.specs = {d.from.job : d \in cs \union {c}} \union {d.to.job : d \in cs \union {c}}
  BY <1>5 DEF GraphInv
<1>8. DOMAIN h.outof = {d.from : d \in cs \union {c}} /\ DOMAIN h.into = {d.to : d \in cs \union {c}}
  BY <1>5 DEF GraphInv
<1>9. \A o \in DOMAIN h.outof : \E x \in EndPoints : h.outof[o] = << <<o, x>> >>
  <2> TAKE o \in DOMAIN h.outof
  <2>1. CASE o = c.from
    BY <1>1, <1>4, <1>5, <2>1
  <2>2. CASE o # c.from
    <3>1. o \in DOMAIN g.outof /\ h.outof[o] = g.outof[o]
      BY <1>5, <2>2
    <3> QED BY <3>1 DEF GraphInv
  <2> QED BY <2>1, <2>2
<1>10. ASSUME NEW i \in DOMAIN h.into
       PROVE  /\ h.into[i] \in Seq(Defs) /\ h.into[i] # << >>
              /\ \A d \in Range(h.into[i]) : \E e \in cs \union {c} : e.to = i /\ d = StreamOf(h, e.from)
  <2>1. ASSUME i \in DOMAIN g.into
        PROVE  /\ g.into[i] \in Seq(Defs) /\ g.into[i] # << >>
               /\ \A d \in Range(g.into[i]) : \E e \in cs : e.to = i /\ d = StreamOf(h, e.from)
    <3>1. /\ g.into[i] \in Seq(Defs) /\ g.into[i] # << >>
          /\ \A d \in Range(g.into[i]) : \E e \in cs : e.to = i /\ d = S(e.from)
      BY <2>1 DEF GraphInv, S
    <3>2. \A e \in cs : e.from \in DOMAIN g.outof
      BY DEF GraphInv
    <3> QED BY <1>6, <3>1, <3>2
  <2>2. CASE i = c.to
    <3> DEFINE es == Edges(g.into, c.to)
    <3>1. h.into[i] = EnsureEdge(es, def)
      BY <1>5, <2>2
    <3>2. es \in Seq(Defs) /\ \A d \in Range(es) : \E e \in cs : e.to = i /\ d = StreamOf(h, e.from)
      <4>1. CASE c.to \in DOMAIN g.into
        BY <2>1, <2>2, <4>1 DEF Edges
      <4>2. CASE c.to \notin DOMAIN g.into
        <5>1. es = << >> /\ Range(<< >>) = {}
          BY <4>2 DEF Edges, Range
        <5> QED BY <5>1
      <4> QED BY <4>1, <4>2
    <3> HIDE DEF es
    <3>3. /\ EnsureEdge(es, def) \in Seq(Defs) /\ EnsureEdge(es, def) # << >>
          /\ Range(EnsureEdge(es, def)) = Range(es) \union {def}
      BY <1>2, <3>2, EdgeEnsured
    <3> QED BY <1>6, <2>2, <3>1, <3>2, <3>3
  <2>3. CASE i # c.to
    <3>1. i \in DOMAIN g.into /\ h.into[i] = g.into[i]
      BY <1>5, <2>3
    <3> QED BY <2>1, <3>1
  <2> QED BY <2>2, <2>3
<1>11. ASSUME NEW key \in DOMAIN h.byTag
       PROVE  \E e \in cs \union {c} : /\ key = TagKey("out", e.from) \/ key = TagKey("in", e.to)
                                       /\ h.byTag[key] = StreamOf(h, e.from)
  <2>1. CASE key \in {ko, ki}
    <3>1. h.byTag[key] = def
      BY <1>5, <2>1
    <3> QED BY <1>6, <2>1, <3>1
  <2>2. CASE key \notin {ko, ki}
    <3>1. key \in DOMAIN g.byTag /\ h.byTag[key] = g.byTag[key]
      BY <1>5, <2>2
    <3>2. PICK e \in cs : /\ key = TagKey("out", e.from) \/ key = TagKey("in", e.to)
                          /\ g.byTag[key] = S(e.from)
      BY <3>1 DEF GraphInv, S
    <3>3. e.from \in DOMAIN g.outof
      BY DEF GraphInv
    <3> QED BY <1>6, <3>1, <3>2, <3>3
  <2> QED BY <2>1, <2>2
<1> HIDE DEF into, outof, byTag
<1>12. GraphInv(h, cs \union {c})
  BY <1>5, <1>7, <1>8, <1>9, <1>10, <1>11 DEF GraphInv
<1> QED BY <1>12 DEF h

\* The graph of the connections alone.
LEMMA ConnectionsInv ==
  ASSUME NEW f \in Seq(Connections)
  PROVE  GraphInv(GraphsUpTo(f)[Len(f)], Range(f))
<1> DEFINE n == Len(f)
           G(k) == GraphsUpTo(f)[k]
           first(k) == {f[j] : j \in 1 .. k}
           A == {k \in Nat : k <= n => GraphInv(G(k), first(k))}
<1>0. n \in Nat /\ DOMAIN f = 1 .. n /\ \A k \in 1 .. n : f[k] \in Connections
  OBVIOUS
<1>1. G(0) = EmptyGraph /\ \A k \in 1 .. n : G(k) = AddConnectedDualSpecs(G(k - 1), f[k])
  BY GraphsDefined
<1> HIDE DEF n, G
<1>2. 0 \in A
  <2>1. first(0) = {}
    <3>1. 1 .. 0 = {}
      OBVIOUS
    <3> QED BY <3>1
  <2> QED BY <1>1, <2>1, EmptyGraphInv
<1>3. ASSUME NEW m \in Nat, m \in A PROVE m + 1 \in A
  <2> SUFFICES ASSUME m + 1 <= n PROVE GraphInv(G(m + 1), first(m + 1))
    OBVIOUS
  <2>1. m + 1 \in 1 .. n /\ (m + 1) - 1 = m /\ m <= n
    BY <1>0
  <2>2. GraphInv(G(m), first(m)) /\ f[m + 1] \in Connections
    BY <1>0, <1>3, <2>1
  <2>3. first(m) \in SUBSET Connections
    <3>1. \A j \in 1 .. m : j \in 1 .. n
      BY <1>0, <2>1
    <3> QED BY <1>0, <3>1
  <2>4. first(m + 1) = first(m) \union {f[m + 1]}
    <3>1. \A j : j \in 1 .. m + 1 <=> j \in 1 .. m \/ j = m + 1
      OBVIOUS
    <3> QED BY <3>1
  <2>5. G(m + 1) = AddConnectedDualSpecs(G(m), f[m + 1])
    BY <1>1, <2>1
  <2> HIDE DEF first
  <2> QED BY <2>2, <2>3, <2>4, <2>5, ConnectionAdded
<1>4. n \in A
  <2> HIDE DEF A
  <2> QED BY <1>0, <1>2, <1>3, NatSetInduction
<1>5. first(n) = Range(f)
  <2> SUFFICES ASSUME NEW x PROVE x \in first(n) <=> x \in Range(f)
    OBVIOUS
  <2>1. x \in first(n) <=> \E j \in 1 .. n : x = f[j]
    OBVIOUS
  <2>2. x \in Range(f) <=> \E j \in DOMAIN f : f[j] = x
    BY DEF Range
  <2> HIDE DEF first
  <2> QED BY <1>0, <2>1, <2>2
<1>6. GraphInv(G(n), first(n))
  BY <1>0, <1>4
<1> HIDE DEF first
<1> QED BY <1>5, <1>6 DEF n, G

\* Ends that already have streams keep their first; every other gets its one.
Streams(f) == \A e \in DOMAIN f : f[e] \in Seq(Defs) /\ f[e] # << >>

Completes(h, g, f, dir, ends) ==
  /\ DOMAIN h = DOMAIN f \union ends
  /\ \A e \in DOMAIN f : h[e] # << >> /\ Head(h[e]) = Head(f[e])
  /\ \A e \in ends \ DOMAIN f : h[e] = << StreamOfTag(g, dir, e) >>

LEMMA EnsuredEnds ==
  ASSUME NEW g, NEW f, NEW dir, NEW ends,
         Streams(f), \A e \in ends : StreamOfTag(g, dir, e) \in Defs
  PROVE  Completes(Ensured(g, f, dir, ends), g, f, dir, ends)
<1> DEFINE h == Ensured(g, f, dir, ends)
           def(e) == StreamOfTag(g, dir, e)
<1>1. h = [e \in DOMAIN f \union ends |-> IF e \in ends THEN EnsureEdge(Edges(f, e), def(e)) ELSE f[e]]
  BY DEF Ensured
<1> HIDE DEF h, def
<1> USE DEF Streams
<1>2. DOMAIN h = DOMAIN f \union ends
  BY <1>1
<1>3. ASSUME NEW e \in DOMAIN f PROVE h[e] # << >> /\ Head(h[e]) = Head(f[e])
  <2>1. CASE e \in ends
    <3>1. h[e] = EnsureEdge(f[e], def(e))
      BY <1>1, <2>1 DEF Edges
    <3>2. f[e] \in Seq(Defs) /\ f[e] # << >> /\ def(e) \in Defs
      BY <2>1 DEF def
    <3> QED BY <3>1, <3>2, EdgeEnsured
  <2>2. CASE e \notin ends
    BY <1>1, <2>2
  <2> QED BY <2>1, <2>2
<1>4. ASSUME NEW e \in ends \ DOMAIN f PROVE h[e] = <<def(e)>>
  <2>1. h[e] = EnsureEdge(<< >>, def(e))
    BY <1>1 DEF Edges
  <2>2. << >> \in Seq(Defs) /\ def(e) \in Defs
    BY DEF def
  <2> QED BY <2>1, <2>2, EdgeEnsured
<1> QED BY <1>2, <1>3, <1>4 DEF h, def, Completes

-----------------------------------------------------------------------------
\* The tags of specs that are connected.
LEMMA EndsOfSpecs ==
  ASSUME NEW names \in SUBSET DOMAIN Inputs, NEW tags \in {Inputs, Outputs}
  PROVE  /\ Ends(tags, names) \subseteq EndPoints
         /\ \A e \in Ends(tags, names) : e.job = Plain(Name(e.job)) /\ Name(e.job) \in names
<1> SUFFICES ASSUME NEW e \in Ends(tags, names)
             PROVE  e \in EndPoints /\ e.job = Plain(Name(e.job)) /\ Name(e.job) \in names
  OBVIOUS
<1>1. PICK n \in names : \E t \in tags[n] : e = [job |-> Plain(n), tag |-> t]
  BY DEF Ends
<1>2. PICK t \in tags[n] : e = [job |-> Plain(n), tag |-> t]
  BY <1>1
<1>3. t \in Tags /\ Plain(n) \in Nodes
  BY FlowAssumption DEF Plain, Nodes
<1> QED BY <1>2, <1>3 DEF EndPoints, Plain, Name

EndOf(dir, c) == IF dir = "in" THEN c.to ELSE c.from

\* The stream the table has for an end without a stream of its own.
LEMMA TagStreams ==
  ASSUME NEW cs \in SUBSET Connections, NEW g, GraphInv(g, cs),
         NEW dir \in {"in", "out"}, NEW e \in EndPoints
  PROVE  /\ StreamOfTag(g, dir, e) \in Defs
         /\ \/ StreamOfTag(g, dir, e) = Loose(dir, e)
            \/ \E c \in cs : Name(EndOf(dir, c).job) = Name(e.job) /\ EndOf(dir, c).tag = e.tag
<1>1. CASE TagKey(dir, e) \notin DOMAIN g.byTag
  BY <1>1 DEF StreamOfTag, Loose, Defs
<1>2. CASE TagKey(dir, e) \in DOMAIN g.byTag
  <2>1. PICK c \in cs : /\ TagKey(dir, e) = TagKey("out", c.from) \/ TagKey(dir, e) = TagKey("in", c.to)
                        /\ g.byTag[TagKey(dir, e)] = StreamOf(g, c.from)
    BY <1>2 DEF GraphInv
  <2>2. StreamOfTag(g, dir, e) = StreamOf(g, c.from)
    BY <1>2, <2>1 DEF StreamOfTag
  <2>3. StreamOf(g, c.from) \in Defs
    <3>1. c.from \in EndPoints /\ c.from \in DOMAIN g.outof
      BY DEF GraphInv, Connections
    <3>2. PICK x \in EndPoints : g.outof[c.from] = << <<c.from, x>> >>
      BY <3>1 DEF GraphInv
    <3> QED BY <3>1, <3>2 DEF StreamOf, Defs
  <2>4. Name(EndOf(dir, c).job) = Name(e.job) /\ EndOf(dir, c).tag = e.tag
    BY <2>1 DEF TagKey, EndOf
  <2> QED BY <2>2, <2>3, <2>4
<1> QED BY <1>1, <1>2

\* What the rest of the proofs needs to know of the graph of a definition.
GraphFacts(f, g) ==
  /\ g.specs \subseteq Nodes
  /\ DOMAIN g.into \union DOMAIN g.outof \subseteq EndPoints
  /\ \A e \in DOMAIN g.into \union DOMAIN g.outof : e.job \in g.specs
  /\ \A i \in DOMAIN g.into : g.into[i] # << >>
  /\ \A o \in DOMAIN g.outof : g.outof[o] # << >>
  /\ \A c \in Range(f) :
       /\ c.from \in DOMAIN g.outof /\ c.to \in DOMAIN g.into
       /\ \E d \in Range(f) : d.to = c.to /\ Head(g.into[c.to]) = Head(g.outof[d.from])

\* And of the graph of a definition without labels.
Unlabelled(f) == \A c \in Range(f) : c.from.job = Plain(Name(c.from.job)) /\ c.to.job = Plain(Name(c.to.job))

PlainFacts(f, g) ==
  /\ \A o \in DOMAIN g.outof : o.job = Plain(Name(o.job)) /\ Head(g.outof[o])[1] = o
  /\ \A i \in DOMAIN g.into :
       /\ i.job = Plain(Name(i.job))
       /\ \/ Head(g.into[i]) = <<AnySpec, i>>
          \/ \E c \in Range(f) : c.to = i /\ Head(g.into[i])[1] = c.from

\* The same of all the ends of a graph at once.
TagsFollow(g, cs) ==
  \A dir \in {"in", "out"}, e \in EndPoints :
    \/ StreamOfTag(g, dir, e) = Loose(dir, e)
    \/ \E c \in cs : Name(EndOf(dir, c).job) = Name(e.job) /\ EndOf(dir, c).tag = e.tag

LEMMA AllTagStreams ==
  ASSUME NEW cs \in SUBSET Connections, NEW g, GraphInv(g, cs)
  PROVE  TagsFollow(g, cs)
<1> SUFFICES ASSUME NEW dir \in {"in", "out"}, NEW e \in EndPoints
             PROVE  \/ StreamOfTag(g, dir, e) = Loose(dir, e)
                    \/ \E c \in cs : Name(EndOf(dir, c).job) = Name(e.job) /\ EndOf(dir, c).tag = e.tag
  BY DEF TagsFollow
<1> QED BY TagStreams

LEMMA GraphMade ==
  ASSUME NEW f \in Seq(Connections)
  PROVE  GraphFacts(f, GraphOf(f)) /\ (Unlabelled(f) => PlainFacts(f, GraphOf(f)))
<1> DEFINE g == GraphsUpTo(f)[Len(f)]
           h == GraphOf(f)
           cs == Range(f)
           names == {Name(s) : s \in g.specs}
           ins == Ends(Inputs, names)
           outs == Ends(Outputs, names)
<1>1. cs \in SUBSET Connections /\ GraphInv(g, cs)
  <2>1. cs \in SUBSET Connections
    BY DEF Range
  <2> QED BY <2>1, ConnectionsInv
<1>2. /\ h.specs = g.specs \union {Plain(n) : n \in names}
      /\ h.into = Ensured(g, g.into, "in", ins)
      /\ h.outof = Ensured(g, g.outof, "out", outs)
  <2>1. g = [specs |-> g.specs, into |-> g.into, outof |-> g.outof, byTag |-> g.byTag]
    BY <1>1 DEF GraphInv
  <2>2. h = AddLooseTags(g)
    BY DEF GraphOf
  <2> HIDE DEF g, h
  <2> QED BY <2>1, <2>2 DEF AddLooseTags
<1> HIDE DEF g, h, cs
<1>3. g.specs \subseteq Nodes /\ names \in SUBSET DOMAIN Inputs
  <2>1. g.specs \subseteq Nodes
    BY <1>1 DEF GraphInv, Connections, EndPoints
  <2> QED BY <2>1 DEF Nodes, Name
<1>4. /\ ins \subseteq EndPoints /\ outs \subseteq EndPoints
      /\ \A e \in ins \union outs : e.job = Plain(Name(e.job)) /\ Name(e.job) \in names
  <2> HIDE DEF names
  <2> QED BY <1>3, EndsOfSpecs
<1> HIDE DEF ins, outs
<1>5. DOMAIN g.into \subseteq EndPoints /\ DOMAIN g.outof \subseteq EndPoints
  BY <1>1 DEF GraphInv, Connections
<1>6. /\ DOMAIN h.into = DOMAIN g.into \union ins
      /\ \A i \in DOMAIN g.into : h.into[i] # << >> /\ Head(h.into[i]) = Head(g.into[i])
      /\ \A i \in ins \ DOMAIN g.into : h.into[i] = << StreamOfTag(g, "in", i) >>
  <2>1. \A e \in ins : StreamOfTag(g, "in", e) \in Defs
    BY <1>1, <1>4, TagStreams
  <2>2. \A e \in DOMAIN g.into : g.into[e] \in Seq(Defs) /\ g.into[e] # << >>
    BY <1>1 DEF GraphInv
  <2>3. Completes(h.into, g, g.into, "in", ins)
    BY <1>2, <2>1, <2>2, EnsuredEnds DEF Streams
  <2> QED BY <2>3 DEF Completes
<1>7. \A o \in DOMAIN g.outof : \E x \in EndPoints : g.outof[o] = << <<o, x>> >>
  BY <1>1 DEF GraphInv
<1>8. /\ DOMAIN h.outof = DOMAIN g.outof \union outs
      /\ \A o \in DOMAIN g.outof : h.outof[o] # << >> /\ Head(h.outof[o]) = Head(g.outof[o])
      /\ \A o \in outs \ DOMAIN g.outof : h.outof[o] = << StreamOfTag(g, "out", o) >>
  <2>1. \A e \in outs : StreamOfTag(g, "out", e) \in Defs
    BY <1>1, <1>4, TagStreams
  <2>2. \A e \in DOMAIN g.outof : g.outof[e] \in Seq(Defs) /\ g.outof[e] # << >>
    <3> TAKE e \in DOMAIN g.outof
    <3>1. PICK x \in EndPoints : g.outof[e] = << <<e, x>> >>
      BY <1>7
    <3>2. <<e, x>> \in Defs
      BY <1>5 DEF Defs
    <3> QED BY <3>1, <3>2
  <2>3. Completes(h.outof, g, g.outof, "out", outs)
    BY <1>2, <2>1, <2>2, EnsuredEnds DEF Streams
  <2> QED BY <2>3 DEF Completes
<1>9. \A o \in DOMAIN g.outof : Head(h.outof[o]) = StreamOf(g, o) /\ StreamOf(g, o)[1] = o
  <2> TAKE o \in DOMAIN g.outof
  <2>1. PICK x \in EndPoints : g.outof[o] = << <<o, x>> >>
    BY <1>7
  <2> QED BY <1>8, <2>1 DEF StreamOf
<1>10. \A i \in DOMAIN g.into : \E c \in cs : c.to = i /\ Head(h.into[i]) = StreamOf(g, c.from)
  <2> TAKE i \in DOMAIN g.into
  <2>1. /\ g.into[i] \in Seq(Defs) /\ g.into[i] # << >>
        /\ \A d \in Range(g.into[i]) : \E c \in cs : c.to = i /\ d = StreamOf(g, c.from)
    BY <1>1 DEF GraphInv
  <2> DEFINE es == g.into[i]
  <2> HIDE DEF es
  <2>2. es \in Seq(Defs) /\ es # << >> => Head(es) = es[1] /\ 1 \in DOMAIN es
    OBVIOUS
  <2>3. Head(g.into[i]) \in Range(g.into[i])
    BY <2>1, <2>2 DEF Range, es
  <2> QED BY <1>6, <2>1, <2>3
<1>11. DOMAIN g.outof = {c.from : c \in cs} /\ DOMAIN g.into = {c.to : c \in cs}
       /\ g.specs = {c.from.job : c \in cs} \union {c.to.job : c \in cs}
  BY <1>1 DEF GraphInv
<1>11a. TagsFollow(g, cs)
  BY <1>1, AllTagStreams
<1>12. GraphFacts(f, h)
  <2>1. h.specs \subseteq Nodes
    <3>1. \A n \in names : Plain(n) \in Nodes
      BY <1>3, FlowAssumption DEF Plain, Nodes
    <3> HIDE DEF names
    <3> QED BY <1>2, <1>3, <3>1
  <2>2. DOMAIN h.into \union DOMAIN h.outof \subseteq EndPoints
    BY <1>4, <1>5, <1>6, <1>8
  <2>3. \A e \in DOMAIN h.into \union DOMAIN h.outof : e.job \in h.specs
    <3> TAKE e \in DOMAIN h.into \union DOMAIN h.outof
    <3>1. CASE e \in ins \union outs
      <4> HIDE DEF names
      <4> QED BY <1>2, <1>4, <3>1
    <3>2. CASE e \notin ins \union outs
      <4>1. e \in DOMAIN g.into \/ e \in DOMAIN g.outof
        BY <1>6, <1>8, <3>2
      <4>2. e.job \in g.specs
        BY <1>11, <4>1
      <4> HIDE DEF names
      <4> QED BY <1>2, <4>2
    <3> QED BY <3>1, <3>2
  <2>4. \A i \in DOMAIN h.into : h.into[i] # << >>
    <3> TAKE i \in DOMAIN h.into
    <3>1. CASE i \in DOMAIN g.into
      BY <1>6, <3>1
    <3>2. CASE i \notin DOMAIN g.into
      <4>1. h.into[i] = << StreamOfTag(g, "in", i) >>
        BY <1>6, <3>2
      <4> QED BY <4>1
    <3> QED BY <3>1, <3>2
  <2>5. \A o \in DOMAIN h.outof : h.outof[o] # << >>
    <3> TAKE o \in DOMAIN h.outof
    <3>1. CASE o \in DOMAIN g.outof
      BY <1>8, <3>1
    <3>2. CASE o \notin DOMAIN g.outof
      <4>1. h.outof[o] = << StreamOfTag(g, "out", o) >>
        BY <1>8, <3>2
      <4> QED BY <4>1
    <3> QED BY <3>1, <3>2
  <2>6. ASSUME NEW c \in cs
        PROVE  /\ c.from \in DOMAIN h.outof /\ c.to \in DOMAIN h.into
               /\ \E d \in cs : d.to = c.to /\ Head(h.into[c.to]) = Head(h.outof[d.from])
    <3>1. c.from \in DOMAIN g.outof /\ c.to \in DOMAIN g.into
      BY <1>11
    <3>2. PICK d \in cs : d.to = c.to /\ Head(h.into[c.to]) = StreamOf(g, d.from)
      BY <1>10, <3>1
    <3>3. d.from \in DOMAIN g.outof
      BY <1>11
    <3> QED BY <1>6, <1>8, <1>9, <3>1, <3>2, <3>3
  <2> QED BY <2>1, <2>2, <2>3, <2>4, <2>5, <2>6 DEF GraphFacts, cs
<1>13. ASSUME Unlabelled(f) PROVE PlainFacts(f, h)
  <2>0. \A c \in cs : c.from.job = Plain(Name(c.from.job)) /\ c.to.job = Plain(Name(c.to.job))
    BY <1>13 DEF Unlabelled, cs
  <2>1. \A e \in DOMAIN h.into \union DOMAIN h.outof : e.job = Plain(Name(e.job))
    BY <1>4, <1>6, <1>8, <1>11, <2>0
  <2>2. \A e, x \in EndPoints :
          e.job = Plain(Name(e.job)) /\ x.job = Plain(Name(x.job))
            /\ Name(e.job) = Name(x.job) /\ e.tag = x.tag => e = x
    <3> SUFFICES ASSUME NEW e \in EndPoints, NEW x \in EndPoints,
                        e.job = Plain(Name(e.job)), x.job = Plain(Name(x.job)),
                        Name(e.job) = Name(x.job), e.tag = x.tag
                 PROVE  e = x
      OBVIOUS
    <3>1. e.job = x.job
      OBVIOUS
    <3> QED BY <3>1 DEF EndPoints
  <2>3. ASSUME NEW o \in DOMAIN h.outof PROVE Head(h.outof[o])[1] = o
    <3>1. CASE o \in DOMAIN g.outof
      BY <1>9, <3>1
    <3>2. CASE o \notin DOMAIN g.outof
      <4>1. o \in outs /\ o \in EndPoints /\ h.outof[o] = << StreamOfTag(g, "out", o) >>
        BY <1>4, <1>8, <3>2
      <4>2. ASSUME NEW c \in cs, Name(c.from.job) = Name(o.job), c.from.tag = o.tag
            PROVE  FALSE
        <5>1. c.from \in EndPoints /\ c.from \in DOMAIN g.outof
          BY <1>5, <1>11
        <5>2. c.from = o
          BY <2>0, <2>1, <2>2, <4>1, <4>2, <5>1
        <5> QED BY <3>2, <5>1, <5>2
      <4>3. StreamOfTag(g, "out", o) = Loose("out", o)
        <5>1. \/ StreamOfTag(g, "out", o) = Loose("out", o)
              \/ \E c \in cs : Name(EndOf("out", c).job) = Name(o.job) /\ EndOf("out", c).tag = o.tag
          BY <1>11a, <4>1 DEF TagsFollow
        <5>2. \A c \in cs : EndOf("out", c) = c.from
          BY DEF EndOf
        <5> QED BY <4>2, <5>1, <5>2
      <4> QED BY <4>1, <4>3 DEF Loose
    <3> QED BY <3>1, <3>2
  <2>4. ASSUME NEW i \in DOMAIN h.into
        PROVE  \/ Head(h.into[i]) = <<AnySpec, i>>
               \/ \E c \in cs : c.to = i /\ Head(h.into[i])[1] = c.from
    <3>1. CASE i \in DOMAIN g.into
      <4>1. PICK c \in cs : c.to = i /\ Head(h.into[i]) = StreamOf(g, c.from)
        BY <1>10, <3>1
      <4>2. c.from \in DOMAIN g.outof
        BY <1>11
      <4> QED BY <1>9, <4>1, <4>2
    <3>2. CASE i \notin DOMAIN g.into
      <4>1. i \in ins /\ i \in EndPoints /\ h.into[i] = << StreamOfTag(g, "in", i) >>
        BY <1>4, <1>6, <3>2
      <4>2. ASSUME NEW c \in cs, Name(c.to.job) = Name(i.job), c.to.tag = i.tag
            PROVE  FALSE
        <5>1. c.to \in EndPoints /\ c.to \in DOMAIN g.into
          BY <1>5, <1>11
        <5>2. c.to = i
          BY <2>0, <2>1, <2>2, <4>1, <4>2, <5>1
        <5> QED BY <3>2, <5>1, <5>2
      <4>3. StreamOfTag(g, "in", i) = Loose("in", i)
        <5>1. \/ StreamOfTag(g, "in", i) = Loose("in", i)
              \/ \E c \in cs : Name(EndOf("in", c).job) = Name(i.job) /\ EndOf("in", c).tag = i.tag
          BY <1>11a, <4>1 DEF TagsFollow
        <5>2. \A c \in cs : EndOf("in", c) = c.to
          BY DEF EndOf
        <5> QED BY <4>2, <5>1, <5>2
      <4> QED BY <4>1, <4>3 DEF Loose
    <3> QED BY <3>1, <3>2
  <2> QED BY <2>1, <2>3, <2>4 DEF PlainFacts, cs
<1> QED BY <1>12, <1>13 DEF h

-----------------------------------------------------------------------------
(* What the proof relates. *)

\* The graph is the one of the definition, for good.
GraphKept == flow \in Flows /\ graph = GraphOf(flow) /\ ExposedJob \in Children

\* A call of enqueueJob is as far as the vault and the queue say.
CallsInv ==
  \A j \in Nodes :
    /\ enqueuing[j] # "no" => j \in Children
    /\ enqueuing[j] \in {"adding", "added"} => j \in stored
    /\ enqueuing[j] = "added" => j \in queued
    /\ j \in queued => j \in stored

\* The status stands for the end of all calls, and the client waited for it.
StatusInv ==
  /\ orchestrator = "finished" => \A j \in Children : enqueuing[j] = "added"
  /\ status # <<>> => orchestrator = "finished"
  /\ client = "returned" => status # <<>>
  /\ orchestrator # "absent" => client \notin {"storing", "adding"}

\* Nobody resolves a child too early, except in the binder's process.
NeverStale ==
  \A p \in Procs : \A j \in Nodes :
    p # home["binder"] /\ cache[p][j].at # "none" => cache[p][j].records

FlowInv == TypeOK /\ GraphKept /\ CallsInv /\ StatusInv /\ NeverStale

-----------------------------------------------------------------------------
LEMMA InitFlow == Init => FlowInv
<1> SUFFICES ASSUME Init PROVE FlowInv
  OBVIOUS
<1>0. GraphFacts(flow, graph)
  BY FlowAssumption, GraphMade DEF Init
<1>1. TypeOK
  <2>1. exposed[2] \in IF exposed[1] = "in" THEN DOMAIN graph.into ELSE DOMAIN graph.outof
    BY DEF Init
  <2>2. Children \subseteq Nodes /\ home \in [Actors -> Procs]
    BY <1>0, FlowAssumption DEF Init, Children, GraphFacts
  <2>3. cache \in [Procs -> [Nodes -> Resolutions]]
    BY DEF Init, Unresolved, Resolutions
  <2>4. enqueuing \in [Nodes -> {"no", "storing", "adding", "added", "failed"}]
    BY DEF Init
  <2> QED
    BY <2>1, <2>2, <2>3, <2>4 DEF Init, TypeOK
<1>2. CallsInv
  BY DEF Init, CallsInv
<1>3. StatusInv
  BY DEF Init, StatusInv
<1>4. NeverStale
  BY DEF Init, NeverStale, Unresolved
<1>5. GraphKept
  <2>1. exposed[2] \in (DOMAIN graph.into) \union (DOMAIN graph.outof)
    BY DEF Init
  <2> QED
    BY <1>0, <2>1 DEF Init, ExposedJob, Children, GraphFacts, GraphKept
<1> QED
  BY <1>1, <1>2, <1>3, <1>4, <1>5 DEF FlowInv

-----------------------------------------------------------------------------
LEMMA NextType ==
  ASSUME FlowInv, [Next]_vars
  PROVE  TypeOK'
<1> USE DEF FlowInv, TypeOK, fixed, Children
<1>1. CASE UNCHANGED vars
  BY <1>1 DEF vars
<1>2. CASE GroupStep \/ GetJobManager
  BY <1>2 DEF GroupStep, GetJobManager, StoreGroup, AddGroup, EnqueueReturns, StartOrchestration,
              OrchestrationFinishes
<1>3. ASSUME NEW j \in Nodes, StoreChild(j) \/ AddChild(j) \/ EnqueueChildFails(j)
      PROVE  TypeOK'
  BY <1>3 DEF StoreChild, AddChild, EnqueueChildFails, CallsInv
<1>4. ASSUME NEW j \in Nodes, NEW p \in Procs, ReadConnectorRecs(p, j) \/ ReadParentRec(p, j)
      PROVE  TypeOK'
  <2>1. CASE ReadConnectorRecs(p, j)
    <3>1. [at |-> "records", records |-> j \in stored, parent |-> FALSE] \in Resolutions
      BY DEF Resolutions
    <3> QED
      BY <2>1, <3>1 DEF ReadConnectorRecs
  <2>2. CASE ReadParentRec(p, j)
    <3>1. [cache[p][j] EXCEPT !.at = "done", !.parent = (j \in stored)] \in Resolutions
      <4>1. ASSUME NEW r \in Resolutions, NEW b \in BOOLEAN
            PROVE  [r EXCEPT !.at = "done", !.parent = b] \in Resolutions
        BY DEF Resolutions
      <4>2. (j \in stored) \in BOOLEAN /\ cache[p][j] \in Resolutions
        OBVIOUS
      <4> QED
        BY <4>1, <4>2
    <3>2. cache' \in [Procs -> [Nodes -> Resolutions]]
      BY <2>2, <3>1 DEF ReadParentRec
    <3> QED
      BY <2>2, <3>2 DEF ReadParentRec
  <2> QED
    BY <1>4, <2>1, <2>2
<1> QED
  BY <1>1, <1>2, <1>3, <1>4 DEF Next, ChildStep

LEMMA NextCalls ==
  ASSUME FlowInv, [Next]_vars
  PROVE  CallsInv'
<1> USE DEF FlowInv, TypeOK, CallsInv, fixed, Children
<1>1. CASE UNCHANGED vars
  BY <1>1 DEF vars
<1>2. CASE StartOrchestration
  BY <1>2 DEF StartOrchestration
<1>3. CASE StoreGroup \/ AddGroup \/ EnqueueReturns \/ OrchestrationFinishes \/ GetJobManager
  BY <1>3 DEF StoreGroup, AddGroup, EnqueueReturns, OrchestrationFinishes, GetJobManager
<1>4. ASSUME NEW j \in Nodes, StoreChild(j)
      PROVE  CallsInv'
  BY <1>4 DEF StoreChild
<1>5. ASSUME NEW j \in Nodes, AddChild(j)
      PROVE  CallsInv'
  BY <1>5 DEF AddChild
<1>6. ASSUME NEW j \in Nodes, EnqueueChildFails(j)
      PROVE  CallsInv'
  BY <1>6 DEF EnqueueChildFails
<1>7. ASSUME NEW j \in Nodes, NEW p \in Procs, ReadConnectorRecs(p, j) \/ ReadParentRec(p, j)
      PROVE  CallsInv'
  BY <1>7 DEF ReadConnectorRecs, ReadParentRec
<1> QED
  BY <1>1, <1>2, <1>3, <1>4, <1>5, <1>6, <1>7 DEF Next, GroupStep, ChildStep

LEMMA NextStatus ==
  ASSUME FlowInv, [Next]_vars
  PROVE  StatusInv'
<1> USE DEF FlowInv, TypeOK, StatusInv, fixed, Children
<1>1. CASE UNCHANGED vars
  BY <1>1 DEF vars
<1>2. CASE GroupStep \/ GetJobManager
  BY <1>2 DEF GroupStep, GetJobManager, StoreGroup, AddGroup, EnqueueReturns, StartOrchestration,
              OrchestrationFinishes, Enqueued
<1>3. ASSUME NEW j \in Nodes, StoreChild(j) \/ AddChild(j)
      PROVE  StatusInv'
  BY <1>3 DEF StoreChild, AddChild, CallsInv
<1>4. ASSUME NEW j \in Nodes, EnqueueChildFails(j)
      PROVE  StatusInv'
  BY <1>4 DEF EnqueueChildFails
<1>5. ASSUME NEW j \in Nodes, NEW p \in Procs, ReadConnectorRecs(p, j) \/ ReadParentRec(p, j)
      PROVE  StatusInv'
  BY <1>5 DEF ReadConnectorRecs, ReadParentRec
<1> QED
  BY <1>1, <1>2, <1>3, <1>4, <1>5 DEF Next, ChildStep

\* Whoever resolves outside the binder's process is late enough: the call for
\* the child has added it, its worker has it, or the client has returned.
LEMMA WantsStored ==
  ASSUME FlowInv, NEW p \in Procs, NEW j \in Nodes, Wants(p, j), p # home["binder"]
  PROVE  j \in stored
<1> USE DEF FlowInv, CallsInv
<1>1. CASE enqueuing[j] = "added" \/ j \in queued
  BY <1>1
<1>2. CASE client = "returned" /\ j = ExposedJob
  BY <1>2 DEF StatusInv, GraphKept
<1> QED
  BY <1>1, <1>2 DEF Wants

LEMMA NextNeverStale ==
  ASSUME FlowInv, [Next]_vars
  PROVE  NeverStale'
<1> USE DEF FlowInv, TypeOK, NeverStale, fixed
<1>1. CASE UNCHANGED <<home, cache>>
  BY <1>1
<1>2. ASSUME NEW j \in Nodes, NEW p \in Procs, ReadConnectorRecs(p, j)
      PROVE  NeverStale'
  <2>1. p # home["binder"] => j \in stored
    BY <1>2, WantsStored DEF ReadConnectorRecs
  <2> QED
    BY <1>2, <2>1 DEF ReadConnectorRecs, Resolutions
<1>3. ASSUME NEW j \in Nodes, NEW p \in Procs, ReadParentRec(p, j)
      PROVE  NeverStale'
  BY <1>3 DEF ReadParentRec, Resolutions
<1> QED
  BY <1>1, <1>2, <1>3 DEF Next, vars, GroupStep, ChildStep, GetJobManager, StoreGroup, AddGroup,
     EnqueueReturns, StartOrchestration, OrchestrationFinishes, StoreChild, AddChild, EnqueueChildFails

THEOREM FlowInvariant == Spec => []FlowInv
<1>1. FlowInv /\ [Next]_vars => FlowInv'
  <2> SUFFICES ASSUME FlowInv, [Next]_vars PROVE FlowInv'
    OBVIOUS
  <2>1. GraphKept'
    <3>1. UNCHANGED <<exposed, graph, flow>>
      BY DEF Next, vars, fixed, GroupStep, ChildStep, GetJobManager, StoreGroup, AddGroup,
         EnqueueReturns, StartOrchestration, OrchestrationFinishes, StoreChild, AddChild,
         EnqueueChildFails, ReadConnectorRecs, ReadParentRec
    <3> QED
      BY <3>1 DEF FlowInv, GraphKept, ExposedJob, Children
  <2> QED
    BY <2>1, NextType, NextCalls, NextStatus, NextNeverStale DEF FlowInv
<1> QED
  BY <1>1, InitFlow, PTL DEF Spec

-----------------------------------------------------------------------------
\* The variables keep their types: whatever is stored or queued is a child.
THEOREM TypeCorrect == Spec => []TypeOK
<1>1. FlowInv => TypeOK
  BY DEF FlowInv
<1> QED
  BY <1>1, FlowInvariant, PTL

\* enqueueJob of a liveflow returns only when all its children are enqueued.
THEOREM ReturnsAfterChildren == Spec => []ReturnMeansEnqueued
<1>1. FlowInv => ReturnMeansEnqueued
  BY DEF FlowInv, TypeOK, CallsInv, StatusInv, ReturnMeansEnqueued
<1> QED
  BY <1>1, FlowInvariant, PTL

\* A process without early binders never keeps a graph that was resolved
\* before the records of its job were there.
THEOREM ResolvesAfterRecords == Spec => []NeverStale
<1>1. FlowInv => NeverStale
  BY DEF FlowInv
<1> QED
  BY <1>1, FlowInvariant, PTL

\* The client of enqueueJob and the worker of the child agree on the stream of
\* an exposed tag.
THEOREM AliasResolves == Spec => []AliasReachesChild
<1>1. FlowInv => AliasReachesChild
  <2> SUFFICES ASSUME FlowInv, Bound, Serving(ExposedJob), Undisturbed("client"),
                      Undisturbed("workers")
               PROVE  StreamIdForJob(home["client"], ExposedJob, exposed[1], exposed[2].tag)
                        = WorkerStream(exposed[1], exposed[2])
    BY DEF AliasReachesChild
  <2>1. ExposedJob \in Nodes /\ home["client"] \in Procs /\ home["workers"] \in Procs
    BY DEF FlowInv, GraphKept, TypeOK, Actors
  <2>2. cache[home["client"]][ExposedJob].records /\ cache[home["workers"]][ExposedJob].records
    BY <2>1 DEF FlowInv, NeverStale, Undisturbed, Bound, Serving, Resolved
  <2> QED
    BY <2>2 DEF StreamIdForJob, WorkerStream, ExposedJob
<1> QED
  BY <1>1, FlowInvariant, PTL

\* The worker of a consumer reads the stream the worker of its producer writes.
THEOREM ConnectedJobsMeet == Spec => []WiredAsConnected
<1>1. FlowInv => WiredAsConnected
  <2> SUFFICES ASSUME FlowInv, NEW c \in Range(flow), Serving(c.from.job), Serving(c.to.job),
                      SoleConnection(c), Undisturbed("workers")
               PROVE  WorkerStream("out", c.from) = WorkerStream("in", c.to)
    BY DEF WiredAsConnected
  <2>1. flow \in Seq(Connections) /\ GraphFacts(flow, graph)
    BY FlowAssumption, GraphMade DEF FlowInv, GraphKept
  <2>2. c.from \in DOMAIN graph.outof /\ c.to \in DOMAIN graph.into
    BY <2>1 DEF GraphFacts
  <2>3. c.from \in EndPoints /\ c.to \in EndPoints
    BY <2>1, <2>2 DEF GraphFacts
  <2>4. c.from.job \in Nodes /\ c.to.job \in Nodes
    BY <2>3 DEF EndPoints
  <2>5. /\ c.from = [job |-> c.from.job, tag |-> c.from.tag]
        /\ c.to = [job |-> c.to.job, tag |-> c.to.tag]
    BY <2>3 DEF EndPoints
  <2>6. cache[home["workers"]][c.from.job].records /\ cache[home["workers"]][c.to.job].records
    <3>1. home["workers"] \in Procs
      BY DEF FlowInv, TypeOK, Actors
    <3> QED
      BY <2>4, <3>1 DEF FlowInv, NeverStale, Undisturbed, Serving, Resolved
  <2>7. WorkerStream("out", c.from) = <<Group, Head(graph.outof[c.from])>>
    <3>1. Edges(graph.outof, c.from) = graph.outof[c.from] /\ graph.outof[c.from] # << >>
      BY <2>1, <2>2 DEF Edges, GraphFacts
    <3> QED
      BY <2>5, <2>6, <3>1 DEF WorkerStream, StreamIdForJob, ConnectorRec
  <2>8. WorkerStream("in", c.to) = <<Group, Head(graph.into[c.to])>>
    <3>1. Edges(graph.into, c.to) = graph.into[c.to] /\ graph.into[c.to] # << >>
      BY <2>1, <2>2 DEF Edges, GraphFacts
    <3> QED
      BY <2>5, <2>6, <3>1 DEF WorkerStream, StreamIdForJob, ConnectorRec
  <2>9. PICK d \in Range(flow) : d.to = c.to /\ Head(graph.into[c.to]) = Head(graph.outof[d.from])
    BY <2>1 DEF GraphFacts
  <2>10. d = c
    BY <2>9 DEF SoleConnection
  <2> QED
    BY <2>7, <2>8, <2>9, <2>10
<1> QED
  BY <1>1, FlowInvariant, PTL

\* No job reads what a job writes to which the definition does not connect it.
THEOREM StreamsStayApart == Spec => []NoCrossTalk
<1>1. FlowInv => NoCrossTalk
  <2> SUFFICES ASSUME FlowInv, Unlabelled(flow),
                      NEW o \in DOMAIN graph.outof, NEW i \in DOMAIN graph.into,
                      WorkerStream("out", o) = WorkerStream("in", i)
               PROVE  [from |-> o, to |-> i] \in Range(flow)
    BY DEF NoCrossTalk, Unlabelled
  <2>1. flow \in Seq(Connections) /\ GraphFacts(flow, graph) /\ PlainFacts(flow, graph)
    BY FlowAssumption, GraphMade DEF FlowInv, GraphKept
  <2>2. o \in EndPoints /\ i \in EndPoints /\ AnySpec \notin EndPoints
    BY <2>1, FlowAssumption DEF GraphFacts
  <2>3. o = [job |-> o.job, tag |-> o.tag] /\ i = [job |-> i.job, tag |-> i.tag]
    BY <2>2 DEF EndPoints
  <2>4. WorkerStream("out", o)[2][1] = o
    <3>1. Edges(graph.outof, o) = graph.outof[o] /\ graph.outof[o] # << >>
      BY <2>1 DEF Edges, GraphFacts
    <3>2. Head(graph.outof[o])[1] = o /\ o.job = Plain(Name(o.job))
      BY <2>1 DEF PlainFacts
    <3>3. \A ctx : OwnStream(ctx, o.job, "out", o.tag) = <<ctx, <<o, AnySpec>> >>
      BY <2>3, <3>2 DEF OwnStream, Loose
    <3>4. ConnectorRec(o.job, "out", o.tag) = <<Group, Head(graph.outof[o])>>
      BY <2>3, <3>1 DEF ConnectorRec
    <3> QED
      BY <3>2, <3>3, <3>4 DEF WorkerStream, StreamIdForJob
  <2>5. \/ WorkerStream("in", i)[2] = <<AnySpec, i>>
        \/ \E c \in Range(flow) : c.to = i /\ WorkerStream("in", i)[2][1] = c.from
    <3>1. Edges(graph.into, i) = graph.into[i] /\ graph.into[i] # << >>
      BY <2>1 DEF Edges, GraphFacts
    <3>2. /\ i.job = Plain(Name(i.job))
          /\ \/ Head(graph.into[i]) = <<AnySpec, i>>
             \/ \E c \in Range(flow) : c.to = i /\ Head(graph.into[i])[1] = c.from
      BY <2>1 DEF PlainFacts
    <3>3. \A ctx : OwnStream(ctx, i.job, "in", i.tag) = <<ctx, <<AnySpec, i>> >>
      BY <2>3, <3>2 DEF OwnStream, Loose
    <3>4. ConnectorRec(i.job, "in", i.tag) = <<Group, Head(graph.into[i])>>
      BY <2>3, <3>1 DEF ConnectorRec
    <3>5. \/ WorkerStream("in", i) = ConnectorRec(i.job, "in", i.tag)
          \/ \E ctx : WorkerStream("in", i) = OwnStream(ctx, i.job, "in", i.tag)
      BY DEF WorkerStream, StreamIdForJob
    <3> QED
      BY <3>2, <3>3, <3>4, <3>5
  <2>6. PICK c \in Range(flow) : c.to = i /\ c.from = o
    BY <2>2, <2>4, <2>5
  <2>7. c = [from |-> o, to |-> i]
    <3>1. c \in Connections
      BY <2>1 DEF Range
    <3> QED
      BY <2>6, <3>1 DEF Connections
  <2> QED
    BY <2>7
<1> QED
  BY <1>1, FlowInvariant, PTL

-----------------------------------------------------------------------------
(* What the client waits for: the safety half of FlowComesUp.                *)

\* The group's job is in the queue before the client waits, a call of a running
\* orchestration has been made and has not broken, and one that finished has
\* emitted its status.
WaitInv ==
  /\ client = "waiting" => orchestrator # "absent"
  /\ orchestrator = "finished" => status # <<>>
  /\ orchestrator = "running" => \A j \in Children : enqueuing[j] \in {"storing", "adding", "added"}

\* A step of the vault, the queue or an event loop can follow.
CanMove(j) ==
  \/ enqueuing[j] \in {"storing", "adding"}
  \/ Wants(home["orchestrator"], j) /\ cache[home["orchestrator"]][j].at \in {"none", "records"}

OnlyFailureStrands ==
  /\ client = "waiting" =>
       \/ orchestrator \in {"queued", "failed"} \/ status # <<>>
       \/ orchestrator = "running" /\ \A j \in Children : Enqueued(j) \/ CanMove(j)
  /\ client = "returned" =>
       Bound \/ cache[home["client"]][ExposedJob].at \in {"none", "records"}

LEMMA WaitNext == FlowInv /\ WaitInv /\ [Next]_vars => WaitInv'
<1> SUFFICES ASSUME FlowInv, WaitInv, [Next]_vars PROVE WaitInv'
  OBVIOUS
<1> USE DEF FlowInv, TypeOK, WaitInv, fixed, Children
<1>1. CASE UNCHANGED vars
  BY <1>1 DEF vars
<1>2. CASE GroupStep \/ GetJobManager
  <2>1. CASE StartOrchestration
    BY <2>1 DEF StartOrchestration
  <2>2. CASE StoreGroup \/ AddGroup \/ GetJobManager
    BY <2>2 DEF StoreGroup, AddGroup, GetJobManager
  <2>3. CASE EnqueueReturns
    BY <2>3 DEF EnqueueReturns
  <2>4. CASE OrchestrationFinishes
    <3>1. status' # <<>>
      BY <2>4 DEF OrchestrationFinishes
    <3> QED BY <2>4, <3>1 DEF OrchestrationFinishes
  <2> QED BY <1>2, <2>1, <2>2, <2>3, <2>4 DEF GroupStep
<1>3. ASSUME NEW j \in Nodes, StoreChild(j) \/ AddChild(j)
      PROVE  WaitInv'
  BY <1>3 DEF StoreChild, AddChild
<1>4. ASSUME NEW j \in Nodes, EnqueueChildFails(j)
      PROVE  WaitInv'
  BY <1>4 DEF EnqueueChildFails
<1>5. ASSUME NEW j \in Nodes, NEW p \in Procs, ReadConnectorRecs(p, j) \/ ReadParentRec(p, j)
      PROVE  WaitInv'
  BY <1>5 DEF ReadConnectorRecs, ReadParentRec
<1> QED
  BY <1>1, <1>2, <1>3, <1>4, <1>5 DEF Next, ChildStep

\* While the caller of a liveflow's enqueueJob waits, its orchestration has
\* failed, or is to be run, or has emitted its status, or each child's
\* enqueueJob is through or can go on: none waits for another child or for the
\* client.  A caller that returned can resolve the exposed tag.
THEOREM CallersAreNotStranded == Spec => []OnlyFailureStrands
<1>1. Init => WaitInv
  BY DEF Init, WaitInv
<1>2. FlowInv /\ WaitInv => OnlyFailureStrands
  <2> SUFFICES ASSUME FlowInv, WaitInv PROVE OnlyFailureStrands
    OBVIOUS
  <2>1. \A p \in Procs, j \in Nodes : cache[p][j].at \in {"none", "records", "done"}
    BY DEF FlowInv, TypeOK, Resolutions
  <2>2. /\ home["orchestrator"] \in Procs /\ home["client"] \in Procs
        /\ ExposedJob \in Nodes /\ Children \subseteq Nodes
    BY DEF FlowInv, GraphKept, TypeOK, Actors
  <2>3. ASSUME orchestrator = "running", NEW j \in Children PROVE Enqueued(j) \/ CanMove(j)
    BY <2>1, <2>2, <2>3 DEF WaitInv, Enqueued, Resolved, CanMove, Wants
  <2>4. client = "waiting" => orchestrator \in {"queued", "failed", "running"} \/ status # <<>>
    BY DEF FlowInv, TypeOK, WaitInv
  <2>5. client = "returned" => Bound \/ cache[home["client"]][ExposedJob].at \in {"none", "records"}
    BY <2>1, <2>2 DEF Bound, Resolved
  <2> QED BY <2>3, <2>4, <2>5 DEF OnlyFailureStrands
<1>3. QED
  BY <1>1, <1>2, FlowInvariant, WaitNext, PTL DEF Spec
=============================================================================
