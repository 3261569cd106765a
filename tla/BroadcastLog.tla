---------------------------- MODULE BroadcastLog ----------------------------
(* What a data stream promises its readers: every reader walks the whole    *)
(* log from its start, in order, and skips nothing but entries that were    *)
(* trimmed away before it came to them.                                     *)
EXTENDS Naturals, Sequences

CONSTANTS Entries, Readers

VARIABLES
  log,      \* everything ever added
  trimmed,  \* how many of the oldest entries are gone
  last      \* [Readers -> the newest entry the reader has taken]

vars == <<log, trimmed, last>>

Init == log = <<>> /\ trimmed = 0 /\ last = [r \in Readers |-> 0]

Add(e) ==
  /\ log' = Append(log, e)
  /\ trimmed' \in trimmed .. Len(log')
  /\ UNCHANGED last

Take(r) ==
  /\ \E i \in last[r] + 1 .. Len(log) :
       /\ last[r] + 1 .. i - 1 \subseteq 1 .. trimmed
       /\ last' = [last EXCEPT ![r] = i]
  /\ UNCHANGED <<log, trimmed>>

Next ==
  \/ \E e \in Entries : Add(e)
  \/ \E r \in Readers : Take(r)

Spec == Init /\ [][Next]_vars
=============================================================================
