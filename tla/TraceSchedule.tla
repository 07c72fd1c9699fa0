---------------------------- MODULE TraceSchedule ----------------------------
(***************************************************************************)
(* The teaching clock of a trace: when each event of a receipt starts on   *)
(* the screen and how long it is shown (buildTracePresentationSchedule in  *)
(* engine/trace-flows.ts).                                                 *)
(*                                                                         *)
(* A receipt is a sequence of events [at, dur, hop, status, deps]: model   *)
(* start and duration in ms, the share its route adds to its life, its     *)
(* status, and the earlier events it depends on.  The builder of receipts  *)
(* refuses a dependency on a later or unknown event, so dependencies have  *)
(* no cycle and the back-edge case of the code does not arise.  Times are  *)
(* whole milliseconds: quotients are rounded down and the epsilon of the   *)
(* floating-point comparisons is 0.                                        *)
(***************************************************************************)
EXTENDS Integers, FiniteSets, Sequences, SequencesExt, FiniteSetsExt, TLC

MIN_LIFE_MS == 520
MAX_LIFE_MS == 1050
EVENT_DWELL_MS == 110
MAX_MODEL_GAP_BONUS_MS == 520

StatusHold == [success |-> 0, warning |-> 70, failed |-> 140]

Clamped(value, minimum, maximum) == Max({minimum, Min({maximum, value})})

\* How long an event stays on the screen.
Life(e) ==
  Clamped(455 + e.hop + Min({500, e.dur}) \div 10 + StatusHold[e.status],
        MIN_LIFE_MS, MAX_LIFE_MS)

ModelEnd(e) == e.at + e.dur

\* The receipts the builder makes (TraceBuilder.add): an event starts when the
\* earlier events it depends on have ended.
IsReceipt(r) ==
  /\ r \in Seq([at : Nat, dur : Nat, hop : Nat, status : DOMAIN StatusHold, deps : SUBSET Nat])
  /\ \A i \in DOMAIN r : \A d \in r[i].deps : d \in 1..(i - 1) /\ ModelEnd(r[d]) <= r[i].at

\* The presentation order: by start, ties in receipt order.
Precedes(starts, i, j) == starts[i] < starts[j] \/ (starts[i] = starts[j] /\ i < j)

(***************************************************************************)
(* Overlap groups.  An event opens a group when all that started before it *)
(* have ended; an event belongs to the last group opened by its start.     *)
(***************************************************************************)
Before(r, i, j) == r[i].at < r[j].at \/ (r[i].at = r[j].at /\ i < j)

Heads(r) ==
  {j \in DOMAIN r : \A i \in DOMAIN r :
     Before(r, i, j) => r[i].at < r[j].at /\ ModelEnd(r[i]) <= r[j].at}

\* A sequence as it is, whose elements TLC computes only once.
Evaluated(sequence) == <<>> \o sequence

\* For each event, the one that opened its group.
Openers(r) ==
  LET heads == Heads(r)
      LastHead(i) == CHOOSE h \in heads :
                       /\ r[h].at <= r[i].at
                       /\ \A g \in heads : r[g].at <= r[i].at => r[g].at <= r[h].at
  IN  Evaluated([i \in DOMAIN r |-> LastHead(i)])

\* Mutant: the largest scale of the group instead of the smallest.
OffsetWidest(r, opener, i) ==
  LET h == opener[i]
      lasting == {m \in DOMAIN r : opener[m] = h /\ r[m].dur > 0}
  IN  IF lasting = {} THEN 0
      ELSE Max({((r[i].at - r[h].at) * Life(r[m])) \div r[m].dur : m \in lasting})

\* Where event i lies in its group: the model offset times the smallest
\* life/duration of the group.
Offset(r, opener, i) ==
  LET h == opener[i]
      lasting == {m \in DOMAIN r : opener[m] = h /\ r[m].dur > 0}
  IN  IF lasting = {} THEN 0
      ELSE Min({((r[i].at - r[h].at) * Life(r[m])) \div r[m].dur : m \in lasting})

\* The time from the start of the group of h to the start of the next one.
Span(r, opener, h) ==
  LET group  == {i \in DOMAIN r : opener[i] = h}
      visual == Max({Offset(r, opener, i) + Life(r[i]) : i \in group})
      later  == {r[g].at : g \in {j \in ToSet(opener) : r[j].at > r[h].at}}
      gap    == Min(later) - Max({ModelEnd(r[i]) : i \in group})
  IN  IF later = {} THEN visual
      ELSE visual + EVENT_DWELL_MS + Min({MAX_MODEL_GAP_BONUS_MS, (gap * 28) \div 100})

\* The sum of a sequence of numbers over some of its indexes.
SumOver(numbers, indexes) ==
  LET sum[n \in 0..Len(numbers)] ==
        IF n = 0 THEN 0 ELSE sum[n - 1] + IF n \in indexes THEN numbers[n] ELSE 0
  IN  sum[Len(numbers)]

\* The starts before dependencies are considered.
Placed(r) ==
  LET opener == Openers(r)
      heads == ToSet(opener)
      span == Evaluated([h \in DOMAIN r |-> IF h \in heads THEN Span(r, opener, h) ELSE 0])
      Start(i) == SumOver(span, {h \in heads : r[h].at < r[opener[i]].at}) + Offset(r, opener, i)
  IN  Evaluated([i \in DOMAIN r |-> Start(i)])

\* Mutant: a dependency only has to have started.
StartsBesideParents(r) ==
  LET placed == Placed(r)
      first[n \in 0..Len(r)] ==
        IF n = 0 THEN <<>>
        ELSE LET starts == first[n - 1]
             IN  Append(starts, Max({placed[n]} \cup
                   {starts[d] + EVENT_DWELL_MS : d \in r[n].deps}))
  IN  first[Len(r)]

\* Mutant: an event with a dependency waits for all earlier events.
StartsBehindAll(r) ==
  LET placed == Placed(r)
      first[n \in 0..Len(r)] ==
        IF n = 0 THEN <<>>
        ELSE LET starts == first[n - 1]
                 parents == IF r[n].deps = {} THEN {} ELSE 1..(n - 1)
             IN  Append(starts, Max({placed[n]} \cup
                   {starts[d] + Life(r[d]) + EVENT_DWELL_MS : d \in parents}))
  IN  first[Len(r)]

\* The starts: no event before its dependencies have ended and the dwell passed.
Starts(r) ==
  LET placed == Placed(r)
      first[n \in 0..Len(r)] ==
        IF n = 0 THEN <<>>
        ELSE LET starts == first[n - 1]
             IN  Append(starts, Max({placed[n]} \cup
                   {starts[d] + Life(r[d]) + EVENT_DWELL_MS : d \in r[n].deps}))
  IN  first[Len(r)]

\* buildTracePresentationSchedule.
Schedule(r) ==
  LET starts == Starts(r)
      lives  == [i \in DOMAIN r |-> Life(r[i])]
  IN  [starts   |-> starts,
       lives    |-> lives,
       duration |-> Max({0} \cup {starts[i] + lives[i] : i \in DOMAIN r})]
=============================================================================
