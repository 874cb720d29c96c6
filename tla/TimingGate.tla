------------------------------ MODULE TimingGate ------------------------------
(***************************************************************************)
(* The timing gate of CI, tools/ci/constant-time.sh: it repeats the        *)
(* benches of tools/timing until the log of all runs so far clears every   *)
(* bench, or the attempts are used up.                                     *)
(*                                                                         *)
(* A run reports one t statistic for each bench, and whether enough        *)
(* samples were kept.  The script reads the whole log again after each     *)
(* run; the counters kept here are those its awk program then arrives at.  *)
(***************************************************************************)
EXTENDS Integers, Sequences, FiniteSets

CONSTANTS
  Operation,  \* the benches of secret-dependent operations
  Planted,    \* the mutant_ benches, which leak on purpose
  attempts,   \* runs at most (QW_TIMING_ATTEMPTS, 3)
  threshold,  \* of |t| (4.5)
  Statistic   \* bound: the values of t

Bench == Operation \cup Planted

ASSUME BenchAssumption == Operation \cap Planted = {}

ASSUME NumbersAssumption ==
  attempts \in Nat /\ threshold \in Nat /\ Statistic \subseteq Int

VARIABLES
  log,        \* what the runs have reported, one entry for each run
  usable,     \* usable[b]: the runs that kept enough samples of b
  leaked,     \* leaked[b]: those of them in which |t| crossed the threshold
  direction,  \* direction[b]: the sign all of them have, 0 if none or both
  result      \* "running", or how the script has ended

vars == <<log, usable, leaked, direction, result>>

Report == [usable : BOOLEAN, t : Statistic]

-----------------------------------------------------------------------------
(* What the awk program counts, and its verdict *)

Crosses(t) == t < -threshold \/ t > threshold

Sign(t) == IF t < 0 THEN -1 ELSE 1

UsableAfter(n, report) == IF report.usable THEN n + 1 ELSE n

LeakedAfter(n, report) == IF report.usable /\ Crosses(report.t) THEN n + 1 ELSE n

\* Mutant: the direction is that of the last run.
DirectionOfLast(n, d, report) == IF report.usable THEN Sign(report.t) ELSE d

\* `n` is the number of usable runs, this one included.
DirectionAfter(n, d, report) ==
  CASE ~report.usable -> d
    [] report.usable /\ n = 1 -> Sign(report.t)
    [] report.usable /\ n # 1 /\ d # Sign(report.t) -> 0
    [] OTHER -> d

Unmeasured(b) == usable[b] = 0
Blind(b) == b \in Planted /\ leaked[b] < usable[b]
Leaks(b) == b \in Operation /\ leaked[b] = usable[b] /\ direction[b] # 0

\* Mutant: a bench without a usable run is not looked at.
ClearedUnmeasured(b) == ~Blind(b) /\ (Unmeasured(b) \/ ~Leaks(b))

Cleared(b) == ~Unmeasured(b) /\ ~Blind(b) /\ ~Leaks(b)

\* Exit status 0: something was reported, and no bench is condemned.
Verdict == log # << >> /\ \A b \in Bench : Cleared(b)

-----------------------------------------------------------------------------
(* The script *)

Init ==
  /\ log = << >>
  /\ usable = [b \in Bench |-> 0]
  /\ leaked = [b \in Bench |-> 0]
  /\ direction = [b \in Bench |-> 0]
  /\ result = "running"

\* Mutant: each verdict reads the last run only.
MeasureAfresh ==
  /\ result = "running"
  /\ Len(log) < attempts
  /\ \E run \in [Bench -> Report] :
       /\ log' = Append(log, run)
       /\ usable' = [b \in Bench |-> UsableAfter(0, run[b])]
       /\ leaked' = [b \in Bench |-> LeakedAfter(0, run[b])]
       /\ direction' = [b \in Bench |-> DirectionAfter(usable'[b], 0, run[b])]
  /\ result' = IF Verdict' THEN "pass" ELSE "running"

\* One turn of the loop: a run of the benches, and the verdict on the log.
Measure ==
  /\ result = "running"
  /\ Len(log) < attempts
  /\ \E run \in [Bench -> Report] :
       /\ log' = Append(log, run)
       /\ usable' = [b \in Bench |-> UsableAfter(usable[b], run[b])]
       /\ leaked' = [b \in Bench |-> LeakedAfter(leaked[b], run[b])]
       /\ direction' = [b \in Bench |-> DirectionAfter(usable'[b], direction[b], run[b])]
  /\ result' = IF Verdict' THEN "pass" ELSE "running"

\* set -e and pipefail: a bench that fails ends the script.
Crash ==
  /\ result = "running"
  /\ Len(log) < attempts
  /\ result' = "fail"
  /\ UNCHANGED <<log, usable, leaked, direction>>

\* The verdict after the loop.
FinalVerdict ==
  /\ result = "running"
  /\ Len(log) = attempts
  /\ result' = IF Verdict THEN "pass" ELSE "fail"
  /\ UNCHANGED <<log, usable, leaked, direction>>

Next == Measure \/ Crash \/ FinalVerdict

Spec == Init /\ [][Next]_vars

-----------------------------------------------------------------------------
(* Properties *)

\* Types: a bench has no more usable runs than runs, and no more that crossed the
\* threshold than usable ones.
TypeOK ==
  /\ log \in Seq([Bench -> Report])
  /\ Len(log) <= attempts
  /\ usable \in [Bench -> 0..Len(log)]
  /\ leaked \in [Bench -> Nat]
  /\ \A b \in Bench : leaked[b] <= usable[b]
  /\ direction \in [Bench -> {-1, 0, 1}]
  /\ result \in {"running", "pass", "fail"}

UsableRuns(b) == {i \in DOMAIN log : log[i][b].usable}

\* The comment on the threshold: a leak is declared only, and always, when every
\* usable run crosses the threshold in the same direction.
LeakMeansEveryRunCrossed ==
  \A b \in Operation :
    (Leaks(b) /\ ~Unmeasured(b)) <=>
      /\ UsableRuns(b) # {}
      /\ \A i, j \in UsableRuns(b) : /\ Crosses(log[i][b].t)
                                     /\ Sign(log[i][b].t) = Sign(log[j][b].t)

\* A passed gate rests on evidence: each operation has a usable run that stayed
\* below the threshold or two that disagree about the sign, and no usable run
\* failed to see a planted leak (QW-U-CRY-046).
PassRestsOnEvidence ==
  result = "pass" =>
    /\ \A b \in Operation : \E i, j \in UsableRuns(b) :
         ~Crosses(log[i][b].t) \/ Sign(log[i][b].t) # Sign(log[j][b].t)
    /\ \A b \in Planted : /\ UsableRuns(b) # {}
                          /\ \A i \in UsableRuns(b) : Crosses(log[i][b].t)

\* "More runs can only clear a bench, never condemn one" (the comment in the loop):
\* true of an operation, which no further run condemns once the log clears it.  A
\* planted leak, by contrast, is condemned by the first run that fails to see it.
ClearedOperationsStayCleared ==
  [][\A b \in Operation : Cleared(b) => Cleared(b)']_vars

=============================================================================
