--------------------------- MODULE TimingGateProofs ---------------------------
(***************************************************************************)
(* What the verdicts of the timing gate rest on, for any number of         *)
(* benches, attempts and values of t.                                      *)
(*                                                                         *)
(* The awk program keeps none of the runs it reads, only two counters and  *)
(* a sign for each bench.  The invariant says what these three tell of the *)
(* runs; the properties follow from it.                                    *)
(***************************************************************************)
EXTENDS TimingGate, TLAPS

\* What the counters and the sign of a bench tell of its runs.
Evidence(b) ==
  /\ usable[b] = 0 <=> UsableRuns(b) = {}
  /\ leaked[b] = usable[b] <=> \A i \in UsableRuns(b) : Crosses(log[i][b].t)
  /\ \A i \in UsableRuns(b) : direction[b] # 0 => Sign(log[i][b].t) = direction[b]
  /\ UsableRuns(b) # {} /\ direction[b] = 0 =>
       \E i, j \in UsableRuns(b) : Sign(log[i][b].t) # Sign(log[j][b].t)

GateInv ==
  /\ TypeOK
  /\ \A b \in Bench : Evidence(b)
  /\ result = "pass" => Verdict

-----------------------------------------------------------------------------

LEMMA SignIsOne == ASSUME NEW t PROVE Sign(t) \in {-1, 1} /\ Sign(t) # 0
BY DEF Sign

LEMMA InitGateInv == Init => GateInv
<1> SUFFICES ASSUME Init PROVE GateInv
  OBVIOUS
<1>1. attempts \in Nat
  BY NumbersAssumption
<1>2. TypeOK
  BY <1>1 DEF Init, TypeOK
<1>3. ASSUME NEW b \in Bench PROVE Evidence(b)
  <2>1. UsableRuns(b) = {} /\ usable[b] = 0 /\ leaked[b] = 0
    BY DEF Init, UsableRuns
  <2>2. QED
    BY <2>1 DEF Evidence
<1>4. result # "pass"
  BY DEF Init
<1>5. QED
  BY <1>2, <1>3, <1>4 DEF GateInv

\* One more run adds its number to the usable runs of the benches it measured well.
LEMMA RunsAfter ==
  ASSUME log \in Seq([Bench -> Report]), NEW run \in [Bench -> Report], NEW b \in Bench,
         log' = Append(log, run)
  PROVE  /\ log' \in Seq([Bench -> Report])
         /\ Len(log') = Len(log) + 1
         /\ Len(log) + 1 \notin UsableRuns(b)
         /\ \A i \in UsableRuns(b) : log'[i] = log[i]
         /\ log'[Len(log) + 1] = run
         /\ UsableRuns(b)' = IF run[b].usable THEN UsableRuns(b) \cup {Len(log) + 1}
                                              ELSE UsableRuns(b)
<1>1. /\ log' \in Seq([Bench -> Report])
      /\ Len(log') = Len(log) + 1
      /\ DOMAIN log = 1..Len(log) /\ DOMAIN log' = 1..Len(log) + 1
      /\ \A i \in 1..Len(log) : log'[i] = log[i]
      /\ log'[Len(log) + 1] = run
      /\ Len(log) \in Nat
  OBVIOUS
<1>2. DOMAIN log' = DOMAIN log \cup {Len(log) + 1} /\ Len(log) + 1 \notin DOMAIN log
  BY <1>1
<1>3. \A i \in DOMAIN log : log'[i] = log[i]
  BY <1>1
<1>4. UsableRuns(b)' = {i \in DOMAIN log' : log'[i][b].usable}
  BY DEF UsableRuns
<1>5. UsableRuns(b)' = IF run[b].usable THEN UsableRuns(b) \cup {Len(log) + 1} ELSE UsableRuns(b)
  BY <1>1, <1>2, <1>3, <1>4 DEF UsableRuns
<1>6. QED
  BY <1>1, <1>2, <1>3, <1>5 DEF UsableRuns

\* A run counts what it reports.
LEMMA MeasureKeepsEvidence ==
  ASSUME TypeOK, NEW b \in Bench, Evidence(b), NEW run \in [Bench -> Report],
         log' = Append(log, run),
         usable'[b] = UsableAfter(usable[b], run[b]),
         leaked'[b] = LeakedAfter(leaked[b], run[b]),
         direction'[b] = DirectionAfter(usable'[b], direction[b], run[b])
  PROVE  /\ Evidence(b)'
         /\ usable'[b] \in 0..Len(log') /\ leaked'[b] \in Nat /\ leaked'[b] <= usable'[b]
         /\ direction'[b] \in {-1, 0, 1}
<1> DEFINE n == Len(log) + 1
           new == run[b]
<1>0. /\ usable[b] \in Nat /\ usable[b] <= Len(log) /\ leaked[b] \in Nat /\ leaked[b] <= usable[b]
      /\ direction[b] \in {-1, 0, 1} /\ Len(log) \in Nat
  BY DEF TypeOK
<1>1. /\ Len(log') = n
      /\ \A i \in UsableRuns(b) : log'[i] = log[i]
      /\ log'[n] = run
      /\ UsableRuns(b)' = IF new.usable THEN UsableRuns(b) \cup {n} ELSE UsableRuns(b)
  BY RunsAfter DEF TypeOK
<1>2. Evidence(b)' <=>
        /\ usable'[b] = 0 <=> UsableRuns(b)' = {}
        /\ leaked'[b] = usable'[b] <=> \A i \in UsableRuns(b)' : Crosses(log'[i][b].t)
        /\ \A i \in UsableRuns(b)' : direction'[b] # 0 => Sign(log'[i][b].t) = direction'[b]
        /\ UsableRuns(b)' # {} /\ direction'[b] = 0 =>
             \E i, j \in UsableRuns(b)' : Sign(log'[i][b].t) # Sign(log'[j][b].t)
  BY DEF Evidence, Crosses, Sign
<1>3. CASE ~new.usable
  <2>1. usable'[b] = usable[b] /\ leaked'[b] = leaked[b] /\ direction'[b] = direction[b]
    BY <1>3 DEF UsableAfter, LeakedAfter, DirectionAfter
  <2>2. UsableRuns(b)' = UsableRuns(b)
    BY <1>1, <1>3
  <2>3. \A i \in UsableRuns(b)' : log'[i] = log[i]
    BY <1>1, <2>2
  <2>4. leaked'[b] = usable'[b] <=> \A i \in UsableRuns(b)' : Crosses(log'[i][b].t)
    BY <2>1, <2>2, <2>3 DEF Evidence
  <2>5. \A i \in UsableRuns(b)' : direction'[b] # 0 => Sign(log'[i][b].t) = direction'[b]
    BY <2>1, <2>2, <2>3 DEF Evidence
  <2>6. UsableRuns(b)' # {} /\ direction'[b] = 0 =>
          \E i, j \in UsableRuns(b)' : Sign(log'[i][b].t) # Sign(log'[j][b].t)
    <3> SUFFICES ASSUME UsableRuns(b)' # {}, direction'[b] = 0
                 PROVE  \E i, j \in UsableRuns(b)' : Sign(log'[i][b].t) # Sign(log'[j][b].t)
      OBVIOUS
    <3>1. PICK i \in UsableRuns(b), j \in UsableRuns(b) : Sign(log[i][b].t) # Sign(log[j][b].t)
      BY <2>1, <2>2 DEF Evidence
    <3>2. QED
      BY <3>1, <2>2, <2>3
  <2>7. Evidence(b)'
    BY <1>2, <2>1, <2>2, <2>4, <2>5, <2>6 DEF Evidence
  <2>8. QED
    BY <1>0, <1>1, <2>1, <2>7
<1>4. CASE new.usable
  <2>1. /\ usable'[b] = usable[b] + 1
        /\ leaked'[b] = IF Crosses(new.t) THEN leaked[b] + 1 ELSE leaked[b]
        /\ direction'[b] = IF usable[b] = 0 THEN Sign(new.t)
                           ELSE IF direction[b] # Sign(new.t) THEN 0 ELSE direction[b]
    BY <1>0, <1>4 DEF UsableAfter, LeakedAfter, DirectionAfter
  <2>2. UsableRuns(b)' = UsableRuns(b) \cup {n} /\ log'[n][b] = new
    BY <1>1, <1>4
  <2>3. usable'[b] # 0 /\ UsableRuns(b)' # {}
    BY <1>0, <2>1, <2>2
  <2>4. leaked'[b] = usable'[b] <=> leaked[b] = usable[b] /\ Crosses(new.t)
    BY <1>0, <2>1
  <2>5. leaked'[b] = usable'[b] <=> \A i \in UsableRuns(b)' : Crosses(log'[i][b].t)
    BY <1>1, <2>2, <2>4 DEF Evidence
  <2>6. \A i \in UsableRuns(b)' : direction'[b] # 0 => Sign(log'[i][b].t) = direction'[b]
    <3>1. CASE usable[b] = 0
      BY <3>1, <2>1, <2>2 DEF Evidence
    <3>2. CASE usable[b] # 0
      <4> SUFFICES ASSUME NEW i \in UsableRuns(b)', direction'[b] # 0
                   PROVE  Sign(log'[i][b].t) = direction'[b]
        OBVIOUS
      <4>1. direction[b] = Sign(new.t) /\ direction'[b] = direction[b]
        BY <3>2, <2>1
      <4>2. CASE i = n
        BY <4>1, <4>2, <2>2
      <4>3. CASE i # n
        <5>1. i \in UsableRuns(b) /\ log'[i] = log[i]
          BY <4>3, <1>1, <2>2
        <5>2. QED
          BY <4>1, <5>1 DEF Evidence
      <4>4. QED
        BY <4>2, <4>3
    <3>3. QED
      BY <3>1, <3>2
  <2>7. direction'[b] = 0 => \E i, j \in UsableRuns(b)' : Sign(log'[i][b].t) # Sign(log'[j][b].t)
    <3> SUFFICES ASSUME direction'[b] = 0
                 PROVE  \E i, j \in UsableRuns(b)' : Sign(log'[i][b].t) # Sign(log'[j][b].t)
      OBVIOUS
    <3>1. usable[b] # 0 /\ direction[b] # Sign(new.t)
      BY <2>1, SignIsOne
    <3>2. CASE direction[b] = 0
      <4>1. PICK i \in UsableRuns(b), j \in UsableRuns(b) : Sign(log[i][b].t) # Sign(log[j][b].t)
        BY <3>1, <3>2 DEF Evidence
      <4>2. QED
        BY <4>1, <1>1, <2>2
    <3>3. CASE direction[b] # 0
      <4>1. PICK i \in UsableRuns(b) : Sign(log[i][b].t) = direction[b]
        BY <3>1, <3>3 DEF Evidence
      <4>2. Sign(log'[i][b].t) # Sign(log'[n][b].t)
        BY <4>1, <3>1, <1>1, <2>2
      <4>3. QED
        BY <4>2, <2>2
    <3>4. QED
      BY <3>2, <3>3
  <2>8. Evidence(b)'
    BY <1>2, <2>3, <2>5, <2>6, <2>7
  <2>9. direction'[b] \in {-1, 0, 1}
    BY <1>0, <2>1, SignIsOne
  <2>10. QED
    BY <1>0, <1>1, <2>1, <2>8, <2>9
<1>5. QED
  BY <1>3, <1>4

\* A turn of the loop, and whether it ends with a clean verdict.
LEMMA MeasureKeepsGateInv == GateInv /\ Measure => GateInv'
<1> SUFFICES ASSUME GateInv, Measure PROVE GateInv'
  OBVIOUS
<1>0. TypeOK /\ \A b \in Bench : Evidence(b)
  BY DEF GateInv
<1>1. PICK run \in [Bench -> Report] :
        /\ log' = Append(log, run)
        /\ usable' = [b \in Bench |-> UsableAfter(usable[b], run[b])]
        /\ leaked' = [b \in Bench |-> LeakedAfter(leaked[b], run[b])]
        /\ direction' = [b \in Bench |-> DirectionAfter(usable'[b], direction[b], run[b])]
  BY DEF Measure
<1>2. ASSUME NEW b \in Bench
      PROVE  /\ Evidence(b)'
             /\ usable'[b] \in 0..Len(log') /\ leaked'[b] \in Nat /\ leaked'[b] <= usable'[b]
             /\ direction'[b] \in {-1, 0, 1}
  BY <1>0, <1>1, MeasureKeepsEvidence
<1>3. log' \in Seq([Bench -> Report]) /\ Len(log') = Len(log) + 1 /\ Len(log) \in Nat
  BY <1>0, <1>1 DEF TypeOK
<1>4. Len(log') <= attempts
  BY <1>3, NumbersAssumption DEF Measure
<1>5. result' \in {"running", "pass"} /\ (result' = "pass" => Verdict')
  BY DEF Measure
<1>6. /\ usable' \in [Bench -> 0..Len(log')]
      /\ leaked' \in [Bench -> Nat]
      /\ direction' \in [Bench -> {-1, 0, 1}]
  BY <1>1, <1>2
<1>7. TypeOK'
  BY <1>2, <1>3, <1>4, <1>5, <1>6 DEF TypeOK
<1>8. QED
  BY <1>2, <1>5, <1>7 DEF GateInv

LEMMA StepGateInv == GateInv /\ [Next]_vars => GateInv'
<1> SUFFICES ASSUME GateInv, [Next]_vars PROVE GateInv'
  OBVIOUS
<1> DEFINE Counters == <<log, usable, leaked, direction>>
<1>1. ASSUME UNCHANGED Counters, result' \in {"running", "pass", "fail"},
             result' = "pass" => Verdict
      PROVE  GateInv'
  BY <1>1 DEF GateInv, TypeOK, Evidence, UsableRuns, Crosses, Sign, Verdict, Cleared,
              Unmeasured, Blind, Leaks
<1>2. CASE Measure
  BY <1>2, MeasureKeepsGateInv
<1>3. CASE Crash
  BY <1>1, <1>3 DEF Crash
<1>4. CASE FinalVerdict
  BY <1>1, <1>4 DEF FinalVerdict
<1>5. CASE UNCHANGED vars
  BY <1>1, <1>5 DEF vars, GateInv, TypeOK
<1>6. QED
  BY <1>2, <1>3, <1>4, <1>5 DEF Next

THEOREM GateInvariant == Spec => []GateInv
BY InitGateInv, StepGateInv, PTL DEF Spec

-----------------------------------------------------------------------------

\* Counters and log are well formed, however many runs were made.
THEOREM TypeCorrect == Spec => []TypeOK
<1>1. GateInv => TypeOK
  BY DEF GateInv
<1>2. QED
  BY <1>1, GateInvariant, PTL

\* The gate declares a leak exactly when all usable runs cross in one direction.
LEMMA LeakFromEvidence == GateInv => LeakMeansEveryRunCrossed
<1> SUFFICES ASSUME GateInv, NEW b \in Operation
             PROVE  (Leaks(b) /\ ~Unmeasured(b)) <=>
                      /\ UsableRuns(b) # {}
                      /\ \A i, j \in UsableRuns(b) : /\ Crosses(log[i][b].t)
                                                     /\ Sign(log[i][b].t) = Sign(log[j][b].t)
  BY DEF LeakMeansEveryRunCrossed
<1>1. Evidence(b)
  BY DEF GateInv, Bench
<1>2. QED
  BY <1>1 DEF Evidence, Leaks, Unmeasured

THEOREM LeaksAreConsistent == Spec => []LeakMeansEveryRunCrossed
BY LeakFromEvidence, GateInvariant, PTL

LEMMA PassFromEvidence == GateInv => PassRestsOnEvidence
<1> SUFFICES ASSUME GateInv, result = "pass" PROVE PassRestsOnEvidence
  BY DEF PassRestsOnEvidence
<1>0. /\ Bench = Operation \cup Planted
      /\ \A b \in Bench : Cleared(b) /\ Evidence(b) /\ leaked[b] \in Nat /\ usable[b] \in Nat
                          /\ leaked[b] <= usable[b]
  BY DEF GateInv, Verdict, TypeOK, Bench
<1>1. ASSUME NEW b \in Operation
      PROVE  \E i, j \in UsableRuns(b) :
               ~Crosses(log[i][b].t) \/ Sign(log[i][b].t) # Sign(log[j][b].t)
  BY <1>0 DEF Cleared, Unmeasured, Leaks, Evidence
<1>2. ASSUME NEW b \in Planted
      PROVE  UsableRuns(b) # {} /\ \A i \in UsableRuns(b) : Crosses(log[i][b].t)
  <2>1. leaked[b] = usable[b] /\ usable[b] # 0
    BY <1>0 DEF Cleared, Unmeasured, Blind
  <2>2. QED
    BY <1>0, <2>1 DEF Evidence
<1>3. QED
  BY <1>1, <1>2 DEF PassRestsOnEvidence

\* A passed gate has a usable run against a leak in each operation, and every
\* planted leak seen in each usable run.
THEOREM PassesRest == Spec => []PassRestsOnEvidence
BY PassFromEvidence, GateInvariant, PTL

\* Evidence against a leak is never outweighed: the runs only become more.
LEMMA ClearedStays ==
  GateInv /\ GateInv' /\ [Next]_vars => \A b \in Operation : Cleared(b) => Cleared(b)'
<1> SUFFICES ASSUME GateInv, GateInv', [Next]_vars, NEW b \in Operation, Cleared(b)
             PROVE  Cleared(b)'
  OBVIOUS
<1>0. b \in Bench /\ b \notin Planted
  BY BenchAssumption DEF Bench
<1>1. CASE Measure
  <2>0. TypeOK
    BY DEF GateInv
  <2>1. PICK run \in [Bench -> Report] :
          /\ log' = Append(log, run)
          /\ usable' = [c \in Bench |-> UsableAfter(usable[c], run[c])]
          /\ leaked' = [c \in Bench |-> LeakedAfter(leaked[c], run[c])]
          /\ direction' = [c \in Bench |-> DirectionAfter(usable'[c], direction[c], run[c])]
    BY <1>1 DEF Measure
  <2>2. /\ usable[b] \in Nat /\ leaked[b] \in Nat /\ leaked[b] <= usable[b]
        /\ usable[b] # 0
        /\ leaked[b] # usable[b] \/ direction[b] = 0
    BY <1>0, <2>0 DEF Cleared, Unmeasured, Leaks, TypeOK
  <2>3. /\ usable'[b] = IF run[b].usable THEN usable[b] + 1 ELSE usable[b]
        /\ leaked'[b] = IF run[b].usable /\ Crosses(run[b].t) THEN leaked[b] + 1 ELSE leaked[b]
        /\ direction[b] = 0 => direction'[b] = 0
    BY <1>0, <2>1, <2>2, SignIsOne DEF UsableAfter, LeakedAfter, DirectionAfter
  <2>4. usable'[b] # 0 /\ (leaked'[b] # usable'[b] \/ direction'[b] = 0)
    BY <2>2, <2>3
  <2>5. QED
    BY <1>0, <2>4 DEF Cleared, Unmeasured, Blind, Leaks
<1>2. CASE UNCHANGED <<usable, leaked, direction>>
  BY <1>2 DEF Cleared, Unmeasured, Blind, Leaks
<1>3. QED
  BY <1>1, <1>2 DEF Next, Crash, FinalVerdict, vars

\* No further run condemns an operation that the log has cleared.
THEOREM ClearedForGood == Spec => ClearedOperationsStayCleared
<1>1. GateInv /\ GateInv' /\ [Next]_vars => [\A b \in Operation : Cleared(b) => Cleared(b)']_vars
  BY ClearedStays
<1>2. QED
  BY <1>1, GateInvariant, PTL DEF ClearedOperationsStayCleared, Spec

=============================================================================
