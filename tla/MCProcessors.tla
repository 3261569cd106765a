---------------------------- MODULE MCProcessors ----------------------------
(* What runs inside a worker's processor, one at a time: the promise cycle   *)
(* of its job streams (PromiseCycle), a progressive try (ProgressiveTry), a  *)
(* set of parallel attempts (ParallelAttempt) and the text splitting worker  *)
(* (TextSplitter).                                                           *)
EXTENDS PromiseCycle, FiniteSets

CONSTANTS
  NumTries, NumParallel, InputCount, HasFallback,   \* the attempts' liveflows
  ChunkSize, PieceSizes, MaxInputs                  \* the splitter

VARIABLES
  which,
  tryPc, tryAttempt, started, winner, tryFed, tryOutcome,
  parPc, parAttempt, ticket, parFed, parOutcome,
  splitPc, inputs, current, splitFed, text, splitting, chunks, emitLoop, emitted

tryVars == <<tryPc, tryAttempt, started, winner, tryFed, tryOutcome>>
parVars == <<parPc, parAttempt, ticket, parFed, parOutcome>>
splitVars == <<splitPc, inputs, current, splitFed, text, splitting, chunks, emitLoop, emitted>>
mcVars == <<which, vars, tryVars, parVars, splitVars>>

Try == INSTANCE ProgressiveTry WITH
  NumAttempts <- NumTries, pc <- tryPc, attempt <- tryAttempt, fed <- tryFed,
  outcome <- tryOutcome

Par == INSTANCE ParallelAttempt WITH
  NumAttempts <- NumParallel, pc <- parPc, attempt <- parAttempt, fed <- parFed,
  outcome <- parOutcome

Splitter == INSTANCE TextSplitter WITH pc <- splitPc, fed <- splitFed

ASSUME Try!TryAssumption /\ Par!ParallelAssumption /\ Splitter!SplitterAssumption

MCInit ==
  /\ which \in {"cycle", "try", "parallel", "splitter"}
  /\ Init /\ Try!Init /\ Par!Init /\ Splitter!Init

CycleOnly(A) == which = "cycle" /\ A /\ UNCHANGED <<which, tryVars, parVars, splitVars>>
TryOnly(A) == which = "try" /\ A /\ UNCHANGED <<which, vars, parVars, splitVars>>
ParOnly(A) == which = "parallel" /\ A /\ UNCHANGED <<which, vars, tryVars, splitVars>>
SplitOnly(A) == which = "splitter" /\ A /\ UNCHANGED <<which, vars, tryVars, parVars>>

MCNext ==
  \/ \E r \in Results : CycleOnly(Feed(r))
  \/ CycleOnly(Iterate)
  \/ \E p \in Pumps : CycleOnly(Pull(p))
  \/ \E p \in Pumps : CycleOnly(Resume(p))
  \/ CycleOnly(Break)
  \/ TryOnly(Try!StartAttempt)
  \/ TryOnly(Try!Continue)
  \/ TryOnly(Try!TimerFires)
  \/ TryOnly(Try!ParentMessage)
  \/ \E k \in Try!Attempts : TryOnly(Try!TakeInput(k))
  \/ \E k \in Try!Attempts : TryOnly(Try!Answer(k))
  \/ ParOnly(Par!StartAttempt)
  \/ ParOnly(Par!ParentMessage)
  \/ ParOnly(Par!Join)
  \/ ParOnly(Par!Combine)
  \/ \E k \in Par!Attempts : ParOnly(Par!Ask(k))
  \/ \E k \in Par!Attempts : ParOnly(Par!TakeInput(k))
  \/ \E k \in Par!Attempts : ParOnly(Par!Succeed(k))
  \/ \E k \in Par!Attempts : ParOnly(Par!Fail(k))
  \/ \E n \in PieceSizes : SplitOnly(Splitter!ReadMore(n))
  \/ \E n \in PieceSizes : SplitOnly(Splitter!ReadNext(n))
  \/ SplitOnly(Splitter!StatsSent)
  \/ SplitOnly(Splitter!InputEnds)
  \/ \E s \in Splitter!Splitters : SplitOnly(Splitter!SplitDone(s))
  \/ \E s \in Splitter!Splitters : SplitOnly(Splitter!TakeChunk(s))
  \/ \E s \in Splitter!Splitters : SplitOnly(Splitter!ChunkSent(s))

\* Each part's own fairness, over its own steps.
MCFairness ==
  /\ WF_mcVars(TryOnly(Try!StartAttempt)) /\ WF_mcVars(TryOnly(Try!Continue))
  /\ WF_mcVars(TryOnly(Try!TimerFires))
  /\ \A s \in Splitter!Splitters :
       /\ WF_mcVars(SplitOnly(Splitter!SplitDone(s)))
       /\ WF_mcVars(SplitOnly(Splitter!TakeChunk(s)))
       /\ WF_mcVars(SplitOnly(Splitter!ChunkSent(s)))

MCSpec == MCInit /\ [][MCNext]_mcVars /\ MCFairness

-----------------------------------------------------------------------------
\* The result of a progressive try is that of an attempt that succeeded, and
\* none that succeeds in time is passed over (ProgressiveTry).
SuccessDecides == Try!SuccessDecides
\* A progressive try ends, whatever its child jobs do (ProgressiveTry).
Decides == which = "try" => Try!Decides
\* A combined result is one of all attempts (ParallelAttempt).
ResultOfAll == Par!ResultOfAll
\* The chunks of a document are its text from the start (TextSplitter).
ChunksInOrder == Splitter!ChunksInOrder
\* A document that another one follows is emitted whole (TextSplitter).
FollowedIsEmitted == Splitter!FollowedIsEmitted
=============================================================================
