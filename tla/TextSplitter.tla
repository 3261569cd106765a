---------------------------- MODULE TextSplitter ----------------------------
(* The text splitting worker, lab-server/src/text-splitting-worker.ts, and   *)
(* the splitter it makes for each document, lab-server/src/textSplitter.ts.  *)
(* A text is a sequence of words, numbered as they come; the white space a   *)
(* splitter trims is left out.  The processor awaits what it feeds, but not  *)
(* the flush of a document that is over nor the loop that emits its chunks.  *)
EXTENDS Naturals, SequencesExt

CONSTANTS
  ChunkSize,   \* words of a chunk
  PieceSizes,  \* words of an input
  MaxInputs    \* bound: inputs

SplitterAssumption == ChunkSize \in Nat \ {0} /\ PieceSizes \subseteq Nat /\ MaxInputs \in Nat

Splitters == 1 .. MaxInputs

VARIABLES
  pc,         \* the processor: "reading", "feeding", "stats" or "returned"
  inputs,     \* inputs read
  current,    \* the splitter of the current document, 0 before the first
  fed,        \* [Splitters -> number of words fed]
  text,       \* [Splitters -> its text variable]
  splitting,  \* [Splitters -> calls of createDocuments not yet through]
  chunks,     \* [Splitters -> its manually fed iterator: chunks, <<>> terminates]
  emitLoop,   \* [Splitters -> "waiting" for a chunk, "emitting" it or "done"]
  emitted     \* [Splitters -> chunks passed to output.emit]

vars == <<pc, inputs, current, fed, text, splitting, chunks, emitLoop, emitted>>

Init ==
  /\ pc = "reading" /\ inputs = 0 /\ current = 0
  /\ fed = [s \in Splitters |-> 0] /\ text = [s \in Splitters |-> <<>>]
  /\ splitting = [s \in Splitters |-> <<>>] /\ chunks = [s \in Splitters |-> <<>>]
  /\ emitLoop = [s \in Splitters |-> "waiting"] /\ emitted = [s \in Splitters |-> <<>>]

-----------------------------------------------------------------------------
\* What createDocuments makes of a text.
Documents(t) ==
  LET n == (Len(t) + ChunkSize - 1) \div ChunkSize
      end(i) == IF i < n THEN i * ChunkSize ELSE Len(t)
  IN  [i \in 1 .. n |-> SubSeq(t, (i - 1) * ChunkSize + 1, end(i))]

TextWith(s, n) == text[s] \o [i \in 1 .. n |-> fed[s] + i]

\* feed and maybeSplit for splitter s and n words, up to the await.
Feed(s, n) ==
  /\ inputs < MaxInputs /\ inputs' = inputs + 1
  /\ text' = [text EXCEPT ![s] = TextWith(s, n)]
  /\ fed' = [fed EXCEPT ![s] = @ + n]
  /\ pc' = IF Len(TextWith(s, n)) > ChunkSize THEN "feeding" ELSE "stats"

SplitOf(s, n) == IF Len(TextWith(s, n)) > ChunkSize
                 THEN <<[by |-> "feed", words |-> TextWith(s, n)]>> ELSE <<>>

\* Mutant: what is fed is not awaited.
ReadMoreUnawaited(n) ==
  /\ pc \in {"reading", "feeding"} /\ current # 0 /\ Feed(current, n)
  /\ splitting' = [splitting EXCEPT ![current] = @ \o SplitOf(current, n)]
  /\ UNCHANGED <<current, chunks, emitLoop, emitted>>

\* An input of the current document.
ReadMore(n) ==
  /\ pc = "reading" /\ current # 0 /\ Feed(current, n)
  /\ splitting' = [splitting EXCEPT ![current] = @ \o SplitOf(current, n)]
  /\ UNCHANGED <<current, chunks, emitLoop, emitted>>

\* Mutant: the document before is not flushed.
ReadNextUnflushed(n) ==
  /\ pc = "reading" /\ inputs < MaxInputs
  /\ current' = current + 1 /\ Feed(current + 1, n)
  /\ splitting' = [splitting EXCEPT ![current + 1] = SplitOf(current + 1, n)]
  /\ UNCHANGED <<chunks, emitLoop, emitted>>

\* An input of another document: flushRemaining of the splitter before, up to
\* its await, then a splitter and its emit loop for this one.
ReadNext(n) ==
  /\ pc = "reading" /\ inputs < MaxInputs
  /\ current' = current + 1 /\ Feed(current + 1, n)
  /\ splitting' = [s \in Splitters |->
       IF s = current + 1 THEN SplitOf(s, n)
       ELSE IF s = current /\ text[s] # <<>> THEN <<[by |-> "flush", words |-> text[s]]>>
       ELSE splitting[s]]
  /\ chunks' = [s \in Splitters |->
       IF s = current /\ text[s] = <<>> THEN Append(chunks[s], <<>>) ELSE chunks[s]]
  /\ UNCHANGED <<emitLoop, emitted>>

\* createDocuments is through.  feed takes the first chunk and puts the rest in
\* place of the text, whatever that has become; flushRemaining takes them all.
SplitDone(s) ==
  /\ splitting[s] # <<>>
  /\ splitting' = [splitting EXCEPT ![s] = Tail(@)]
  /\ LET docs == Documents(Head(splitting[s]).words)
     IN  IF Head(splitting[s]).by = "feed"
         THEN /\ text' = [text EXCEPT ![s] = FlattenSeq(Tail(docs))]
              /\ chunks' = [chunks EXCEPT ![s] = Append(@, Head(docs))]
              /\ pc' = "stats"
         ELSE /\ chunks' = [chunks EXCEPT ![s] = Append(@ \o docs, <<>>)]
              /\ UNCHANGED <<text, pc>>
  /\ UNCHANGED <<inputs, current, fed, emitLoop, emitted>>

\* The emission of the splitting-stats is through.
StatsSent ==
  /\ pc = "stats" /\ pc' = "reading"
  /\ UNCHANGED <<inputs, current, fed, text, splitting, chunks, emitLoop, emitted>>

InputEnds ==
  /\ pc = "reading" /\ pc' = "returned"
  /\ UNCHANGED <<inputs, current, fed, text, splitting, chunks, emitLoop, emitted>>

TakeChunk(s) ==
  /\ emitLoop[s] = "waiting" /\ chunks[s] # <<>>
  /\ chunks' = [chunks EXCEPT ![s] = Tail(@)]
  /\ IF Head(chunks[s]) = <<>>
     THEN emitLoop' = [emitLoop EXCEPT ![s] = "done"] /\ UNCHANGED emitted
     ELSE /\ emitLoop' = [emitLoop EXCEPT ![s] = "emitting"]
          /\ emitted' = [emitted EXCEPT ![s] = Append(@, Head(chunks[s]))]
  /\ UNCHANGED <<pc, inputs, current, fed, text, splitting>>

ChunkSent(s) ==
  /\ emitLoop[s] = "emitting" /\ emitLoop' = [emitLoop EXCEPT ![s] = "waiting"]
  /\ UNCHANGED <<pc, inputs, current, fed, text, splitting, chunks, emitted>>

SplitterStep(s) == SplitDone(s) \/ TakeChunk(s) \/ ChunkSent(s)

Next ==
  \/ \E n \in PieceSizes : ReadMore(n) \/ ReadNext(n)
  \/ StatsSent \/ InputEnds
  \/ \E s \in Splitters : SplitterStep(s)

\* The event loop, the splitter library and the vault; the input owes nothing.
Fairness == \A s \in Splitters :
  WF_vars(SplitDone(s)) /\ WF_vars(TakeChunk(s)) /\ WF_vars(ChunkSent(s))

Spec == Init /\ [][Next]_vars /\ Fairness

-----------------------------------------------------------------------------
WordsOut(s) == FlattenSeq(emitted[s])

\* What a document's chunks say is its text from the start: no word is lost,
\* doubled or out of place, although the text variable is written after an
\* await, no chunk is too long, and an emit loop that has stopped has emitted
\* the whole document.
ChunksInOrder ==
  \A s \in Splitters :
    /\ WordsOut(s) = [i \in 1 .. Len(WordsOut(s)) |-> i]
    /\ \A i \in DOMAIN emitted[s] : Len(emitted[s][i]) \in 1 .. ChunkSize
    /\ emitLoop[s] = "done" => Len(WordsOut(s)) = fed[s]

\* A document that another one follows is emitted to its last word, although
\* nobody awaits its flush.
FollowedIsEmitted ==
  \A s \in Splitters : (s < current) ~> Len(WordsOut(s)) = fed[s]
=============================================================================
