----------------------------- MODULE BenchBudget -----------------------------
(***************************************************************************)
(* xtask bench-budget-record and bench-budget: the recorder fills a        *)
(* directory with one estimate per run and side, the gate reads them back  *)
(* and passes or fails the steady-state budget.                            *)
(*                                                                         *)
(* The two share nothing but files and their modification times.  A        *)
(* recorder may stop anywhere (a benchmark fails, the job is killed), be   *)
(* called again with another number of runs or another directory, and the  *)
(* gate may be called at any time between recordings with any --runs and   *)
(* --not-before.  cargo bench is not told the directory: it writes below   *)
(* the one it finds itself (the target directory, or CRITERION_HOME).      *)
(*                                                                         *)
(* An estimate is its point; a point that is not positive stands for every *)
(* file the parser refuses.  Deltas are percentages, exact for the points  *)
(* of a model; confidence intervals are printed and never decide.          *)
(***************************************************************************)
EXTENDS Integers, Sequences, FiniteSets, SequencesExt

CONSTANTS
    Dirs,            \* criterion directories
    MinRuns,         \* MIN_RUNS
    Budget,          \* STEADY_STATE_BUDGET, in percent
    Points,          \* per side, the estimates a benchmark may record
    Second,          \* clock ticks in one second
    MaxRuns,         \* bound: the largest --runs
    MaxRecordings,   \* bound: how often the recorder is called
    MaxTies          \* bound: writes that get the modification time of the one before

Sides == {"direct", "kernox"}

ASSUME BenchAssumption ==
    /\ {MinRuns, MaxRuns, Second} \subseteq Nat \ {0}
    /\ {MaxRecordings, MaxTies} \subseteq Nat /\ Budget \in Int
    /\ Points \in [Sides -> SUBSET Int]

\* The points of a run differ by whole percents, so that Delta is the quotient
\* the code computes in floating point.  No property rests on it.
ASSUME WholePercents ==
    \A d \in Points["direct"], k \in Points["kernox"] : d > 0 => ((k - d) * 100) % d = 0

Slots == (1..MaxRuns) \X Sides

VARIABLES
    home,        \* the directory cargo bench writes below
    files,       \* estimates.json by slot: its point, modification time and, as history, recording
    clock, ties,
    recorder,    \* the recorder's process: state, directory, runs, slots still to be written
    recording,   \* how many recordings were begun
    started,     \* when each recording was begun
    verdict      \* the last gate call since then, none or one

vars == <<home, files, clock, ties, recorder, recording, started, verdict>>

NoFiles == [s \in {} |-> s]
Under(dir) == IF dir = home THEN files ELSE NoFiles

\* Runs in order, the direct side of each before the Kernox side.
Sequence(runs) ==
    [i \in 1..(2 * runs) |-> <<(i + 1) \div 2, IF i % 2 = 1 THEN "direct" ELSE "kernox">>]

Init ==
    /\ home \in Dirs
    /\ files = NoFiles
    /\ clock = 0 /\ ties = 0
    /\ recorder = [state |-> "Idle", dir |-> home, runs |-> 0, left |-> << >>]
    /\ recording = 0 /\ started = << >>
    /\ verdict = << >>

-----------------------------------------------------------------------------
(* bench-budget-record *)

Idle == recorder.state \in {"Idle", "Done"}

\* parse_record_arguments and check_runs; fewer runs end the call at once.
BeginRecord(dir, runs) ==
    /\ Idle /\ recording < MaxRecordings
    /\ runs >= MinRuns
    /\ recorder' = [state |-> "Clearing", dir |-> dir, runs |-> runs, left |-> Sequence(runs)]
    /\ recording' = recording + 1
    /\ started' = Append(started, clock)
    /\ verdict' = << >>
    /\ UNCHANGED <<home, files, clock, ties>>

\* remove_dir_all of the group's directory; a missing one is no error.
Clear ==
    /\ recorder.state = "Clearing"
    /\ files' = IF recorder.dir = home THEN NoFiles ELSE files
    /\ recorder' = [recorder EXCEPT !.state = "Recording"]
    /\ UNCHANGED <<home, clock, ties, recording, started, verdict>>

\* remove_dir_all failed, some files may be gone; nothing is recorded.
ClearFails ==
    /\ recorder.state = "Clearing" /\ Under(recorder.dir) # NoFiles
    /\ \E S \in SUBSET DOMAIN files : files' = [s \in S |-> files[s]]
    /\ recorder' = [recorder EXCEPT !.state = "Idle"]
    /\ UNCHANGED <<home, clock, ties, recording, started, verdict>>

\* One side of `cargo bench --save-baseline run<i>`, with a coarse clock.
Bench(point) ==
    /\ recorder.state = "Recording" /\ recorder.left # << >>
    /\ LET slot == Head(recorder.left) IN
         /\ point \in Points[slot[2]]
         /\ files' = [s \in DOMAIN files \cup {slot} |->
              IF s = slot THEN [point |-> point, modified |-> clock, recording |-> recording]
                          ELSE files[s]]
    /\ recorder' = [recorder EXCEPT !.left = Tail(@)]
    /\ \/ clock' = clock + 1 /\ UNCHANGED ties
       \/ ties < MaxTies /\ ties' = ties + 1 /\ UNCHANGED clock
    /\ UNCHANGED <<home, recording, started, verdict>>

\* A benchmark fails, or the recorder is killed, after any write.
StopRecording ==
    /\ recorder.state = "Recording"
    /\ recorder' = [recorder EXCEPT !.state = "Idle"]
    /\ UNCHANGED <<home, files, clock, ties, recording, started, verdict>>

RecordReturns ==
    /\ recorder.state = "Recording" /\ recorder.left = << >>
    /\ recorder' = [recorder EXCEPT !.state = "Done"]
    /\ UNCHANGED <<home, files, clock, ties, recording, started, verdict>>

-----------------------------------------------------------------------------
(* bench-budget *)

Delta(tree, i) ==
    LET direct == tree[<<i, "direct">>].point
        kernox == tree[<<i, "kernox">>].point
    IN  ((kernox - direct) * 100) \div direct

Below(values, v) == {i \in 1..Len(values) : values[i] < v}
UpTo(values, v) == {i \in 1..Len(values) : values[i] <= v}

\* The values in ascending order: fewer than k are below the k-th one, and it
\* and those below are at least k.
Sorted(values) ==
    [k \in 1..Len(values) |-> CHOOSE v \in ToSet(values) :
        Cardinality(Below(values, v)) < k /\ k <= Cardinality(UpTo(values, v))]

\* median, doubled so that the midpoint of two values is whole.
TwiceMedian(values) ==
    LET sorted == Sorted(values)
        middle == Len(sorted) \div 2
    IN  IF Len(sorted) % 2 = 0 THEN sorted[middle] + sorted[middle + 1]
                               ELSE 2 * sorted[middle + 1]

\* read_estimate: the file is there and its estimate is valid.
Readable(tree, slot) == slot \in DOMAIN tree /\ tree[slot].point > 0

\* Seeded defect: only the two sides of one run are compared.
Ordered_WithinRuns(tree, runs) ==
    \A i \in 1..runs : tree[<<i, "kernox">>].modified > tree[<<i, "direct">>].modified

\* direct1 < kernox1 < direct2 < ...
Ordered(tree, runs) ==
    \A i \in 1..runs :
        /\ tree[<<i, "kernox">>].modified > tree[<<i, "direct">>].modified
        /\ i > 1 => tree[<<i, "direct">>].modified > tree[<<i - 1, "kernox">>].modified

\* evaluate_runs on what the gate read.  Every refusal is an error alike; the code
\* looks for stale and disordered files run by run and names the first.
Evaluate(tree, runs, not_before) ==
    LET read == (1..runs) \X Sides IN
    IF runs < MinRuns THEN "TooFew"
    ELSE IF \E s \in read : ~Readable(tree, s) THEN "Unreadable"
    ELSE IF \E s \in read : tree[s].modified < not_before THEN "Stale"
    ELSE IF ~Ordered(tree, runs) THEN "OutOfOrder"
    ELSE IF TwiceMedian([i \in 1..runs |-> Delta(tree, i)]) <= 2 * Budget THEN "Pass" ELSE "Fail"

\* --not-before: zero, or the second in which some recording was begun.
InvocationStarts == {0} \cup {(started[r] \div Second) * Second : r \in DOMAIN started}

Gate(dir, runs, not_before) ==
    /\ Idle /\ verdict = << >>
    /\ verdict' = <<[runs |-> runs, not_before |-> not_before,
                     result |-> Evaluate(Under(dir), runs, not_before)]>>
    /\ UNCHANGED <<home, files, clock, ties, recorder, recording, started>>

-----------------------------------------------------------------------------
Next ==
    \/ \E dir \in Dirs, runs \in 1..MaxRuns : BeginRecord(dir, runs)
    \/ Clear \/ ClearFails
    \/ \E point \in Points["direct"] \cup Points["kernox"] : Bench(point)
    \/ StopRecording \/ RecordReturns
    \/ \E dir \in Dirs, runs \in 1..MaxRuns : \E not_before \in InvocationStarts :
         Gate(dir, runs, not_before)

Spec == Init /\ [][Next]_vars

-----------------------------------------------------------------------------
(* Properties *)

\* A verdict on the budget rests on enough complete runs of one recording, none
\* older than the caller's --not-before, whatever was interrupted, repeated with
\* other arguments or left behind by a failed clear; and at least half the runs,
\* paired one by one, are on the side of the verdict, so that a minority of noisy
\* runs decides nothing (run_record, run, evaluate_runs, median).
VerdictIsEarned ==
    \A v \in ToSet(verdict) : v.result \in {"Pass", "Fail"} =>
      LET read == (1..v.runs) \X Sides
          over == {i \in 1..v.runs : Delta(files, i) > Budget}
      IN  /\ v.runs >= MinRuns
          /\ \E r \in 1..recording : \A s \in read :
               files[s].recording = r /\ files[s].modified >= started[r]
          /\ \A s \in read : files[s].modified >= v.not_before
          /\ IF v.result = "Pass" THEN 2 * Cardinality(over) <= v.runs
                                  ELSE 2 * Cardinality(over) >= v.runs
=============================================================================
