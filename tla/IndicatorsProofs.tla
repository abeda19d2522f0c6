-------------------------- MODULE IndicatorsProofs --------------------------
(***************************************************************************)
(* Proofs about Indicators, for any devices, refreshes and offers.         *)
(*                                                                         *)
(* A view is applied after its refresh let go of the gate, so what has to  *)
(* be carried from the probes to the window is which refresh a result is   *)
(* of, and that no later refresh probes under the same number.             *)
(***************************************************************************)
EXTENDS Indicators, TLAPS

\* The refresh that holds the gate is the latest, and everything handed over or
\* applied before is of an earlier one.
NumberInv ==
  /\ step # "idle" =>
       refreshes \in Refresh /\ applied # refreshes /\ \A r \in results : r.n # refreshes
  /\ applied <= refreshes /\ \A r \in results : r.n <= refreshes

\* What a refresh calls reachable answered its own probes.
AnswerInv ==
  /\ step = "pair" => reachable \subseteq answered[refreshes]
  /\ \A r \in results : r.reachable \subseteq answered[r.n]

IInv == TypeOK /\ NumberInv /\ AnswerInv /\ IndicatorsAreHonest

\* Types.
LEMMA TypeStep == ASSUME TypeOK, NumberInv, [Next]_vars PROVE TypeOK'
<1> USE IndicatorsAssumption DEF TypeOK, Refresh, refresh, send
<1>1. CASE BeginRefresh
  BY <1>1 DEF BeginRefresh
<1>2. CASE Discover
  BY <1>2 DEF Discover
<1>3. CASE Probe
  BY <1>3 DEF Probe, Reachable, NumberInv
<1>4. ASSUME NEW d \in Device, Accept(d) PROVE TypeOK'
  BY <1>4 DEF Accept
<1>5. CASE RefreshSucceeds
  <2>1. [n |-> refreshes, ok |-> TRUE, peers |-> paired, reachable |-> reachable] \in Results
    BY <1>5 DEF RefreshSucceeds, Results, NumberInv
  <2>2. QED BY <1>5, <2>1 DEF RefreshSucceeds, EndRefresh
<1>6. CASE RefreshFails
  <2>1. [n |-> refreshes, ok |-> FALSE, peers |-> {}, reachable |-> {}] \in Results
    BY <1>6 DEF RefreshFails, Results, NumberInv
  <2>2. QED BY <1>6, <2>1 DEF RefreshFails, EndRefresh
<1>7. ASSUME NEW r \in results, ApplyView(r) PROVE TypeOK'
  BY <1>7 DEF ApplyView, ShownBy, Results
<1>8. ASSUME NEW r \in results, ApplyError(r) PROVE TypeOK'
  BY <1>8 DEF ApplyError, Results
<1>9. CASE BeginSend \/ EndSend
  BY <1>9 DEF BeginSend, EndSend
<1>10. ASSUME NEW plan \in SUBSET Device \ {{}}, FanOut(plan) PROVE TypeOK'
  BY <1>10 DEF FanOut
<1>11. ASSUME NEW d \in Device, SendStep(d) PROVE TypeOK'
  BY <1>11 DEF SendStep, ShowPending, ShowOutcome, Shown
<1>12. CASE UNCHANGED vars
  BY <1>12 DEF vars
<1>13. QED
  BY <1>1, <1>2, <1>3, <1>4, <1>5, <1>6, <1>7, <1>8, <1>9, <1>10, <1>11, <1>12
     DEF Next, RefreshStep, Apply

\* A refresh takes the next number, and its result carries it.
LEMMA NumberStep == ASSUME TypeOK, NumberInv, [Next]_vars PROVE NumberInv'
<1> USE IndicatorsAssumption DEF TypeOK, NumberInv, Refresh, Results, refresh, send
<1>1. CASE BeginRefresh
  BY <1>1 DEF BeginRefresh
<1>2. CASE Discover
  BY <1>2 DEF Discover
<1>3. CASE Probe
  BY <1>3 DEF Probe
<1>4. ASSUME NEW d \in Device, Accept(d) PROVE NumberInv'
  BY <1>4 DEF Accept
<1>5. CASE RefreshSucceeds
  BY <1>5 DEF RefreshSucceeds, EndRefresh
<1>6. CASE RefreshFails
  BY <1>6 DEF RefreshFails, EndRefresh
<1>7. ASSUME NEW r \in results, ApplyView(r) PROVE NumberInv'
  BY <1>7 DEF ApplyView
<1>8. ASSUME NEW r \in results, ApplyError(r) PROVE NumberInv'
  BY <1>8 DEF ApplyError
<1>9. CASE BeginSend \/ EndSend
  BY <1>9 DEF BeginSend, EndSend
<1>10. ASSUME NEW plan \in SUBSET Device \ {{}}, FanOut(plan) PROVE NumberInv'
  BY <1>10 DEF FanOut
<1>11. ASSUME NEW d \in Device, SendStep(d) PROVE NumberInv'
  BY <1>11 DEF SendStep, ShowPending, ShowOutcome
<1>12. CASE UNCHANGED vars
  BY <1>12 DEF vars
<1>13. QED
  BY <1>1, <1>2, <1>3, <1>4, <1>5, <1>6, <1>7, <1>8, <1>9, <1>10, <1>11, <1>12
     DEF Next, RefreshStep, Apply

\* Only Probe writes answers, under the number of the refresh that probes.
LEMMA AnswerStep ==
  ASSUME TypeOK, NumberInv, AnswerInv, [Next]_vars PROVE AnswerInv'
<1> USE IndicatorsAssumption DEF TypeOK, NumberInv, AnswerInv, Refresh, Results,
      refresh, send
<1>1. CASE BeginRefresh
  BY <1>1 DEF BeginRefresh
<1>2. CASE Discover
  BY <1>2 DEF Discover
<1>3. CASE Probe
  BY <1>3 DEF Probe, Reachable
<1>4. ASSUME NEW d \in Device, Accept(d) PROVE AnswerInv'
  BY <1>4 DEF Accept
<1>5. CASE RefreshSucceeds
  BY <1>5 DEF RefreshSucceeds, EndRefresh
<1>6. CASE RefreshFails
  BY <1>6 DEF RefreshFails, EndRefresh
<1>7. ASSUME NEW r \in results, ApplyView(r) \/ ApplyError(r) PROVE AnswerInv'
  BY <1>7 DEF ApplyView, ApplyError
<1>8. CASE BeginSend \/ EndSend
  BY <1>8 DEF BeginSend, EndSend
<1>9. ASSUME NEW plan \in SUBSET Device \ {{}}, FanOut(plan) PROVE AnswerInv'
  BY <1>9 DEF FanOut
<1>10. ASSUME NEW d \in Device, SendStep(d) PROVE AnswerInv'
  BY <1>10 DEF SendStep, ShowPending, ShowOutcome
<1>11. CASE UNCHANGED vars
  BY <1>11 DEF vars
<1>12. QED
  BY <1>1, <1>2, <1>3, <1>4, <1>5, <1>6, <1>7, <1>8, <1>9, <1>10, <1>11
     DEF Next, RefreshStep, Apply

\* A view shows the answers of its own refresh, and an update the outcome of
\* its own announcement.
LEMMA HonestStep ==
  ASSUME TypeOK, NumberInv, AnswerInv, IndicatorsAreHonest, [Next]_vars
  PROVE  IndicatorsAreHonest'
<1> USE IndicatorsAssumption DEF TypeOK, IndicatorsAreHonest, Refresh, refresh, send
<1>1. CASE BeginRefresh
  BY <1>1 DEF BeginRefresh
<1>2. CASE Discover
  BY <1>2 DEF Discover
<1>3. CASE Probe
  BY <1>3 DEF Probe, NumberInv
<1>4. ASSUME NEW d \in Device, Accept(d) PROVE IndicatorsAreHonest'
  BY <1>4 DEF Accept
<1>5. CASE RefreshSucceeds \/ RefreshFails
  BY <1>5 DEF RefreshSucceeds, RefreshFails, EndRefresh
<1>6. ASSUME NEW r \in results, ApplyView(r) PROVE IndicatorsAreHonest'
  BY <1>6 DEF ApplyView, ShownBy, AnswerInv, Results
<1>7. ASSUME NEW r \in results, ApplyError(r) PROVE IndicatorsAreHonest'
  BY <1>7 DEF ApplyError
<1>8. CASE BeginSend \/ EndSend
  BY <1>8 DEF BeginSend, EndSend
<1>9. ASSUME NEW plan \in SUBSET Device \ {{}}, FanOut(plan)
      PROVE  IndicatorsAreHonest'
  BY <1>9 DEF FanOut, Idle
<1>10. ASSUME NEW d \in Device, SendStep(d) PROVE IndicatorsAreHonest'
  BY <1>10 DEF SendStep, ShowPending, ShowOutcome, Shown
<1>11. CASE UNCHANGED vars
  BY <1>11 DEF vars
<1>12. QED
  BY <1>1, <1>2, <1>3, <1>4, <1>5, <1>6, <1>7, <1>8, <1>9, <1>10, <1>11
     DEF Next, RefreshStep, Apply

\* All the parts hold in every reachable state.
LEMMA Invariance == Spec => []IInv
<1>1. Init => IInv
  <2>1. Init => TypeOK
    <3>1. Init => gate \in BOOLEAN /\ sending \in BOOLEAN
      BY Zenon DEF Init
    <3>2. Init => answered \in [Refresh -> SUBSET Device]
      BY DEF Init
    <3>3. Init => /\ step \in {"idle", "discover", "probe", "pair"}
                  /\ paired \subseteq Device /\ reachable \subseteq Device
                  /\ found \subseteq Device /\ acked \subseteq Device
                  /\ results \subseteq Results
                  /\ ann \in [Device -> {"none", "todo", "pending"}]
                  /\ indicator \in
                       [Device -> {"none", "reachable", "unavailable", "pending", "stored"}]
      BY DEF Init
    <3>4. Init => /\ refreshes \in 0 .. MaxRefreshes /\ offers \in 0 .. MaxOffers
                  /\ probed \in 0 .. MaxRefreshes /\ applied \in 0 .. MaxRefreshes
      BY IndicatorsAssumption DEF Init
    <3>5. QED BY <3>1, <3>2, <3>3, <3>4 DEF TypeOK
  <2>2. Init => NumberInv /\ AnswerInv
    BY SMT DEF Init, NumberInv, AnswerInv
  <2>3. Init => IndicatorsAreHonest
    BY DEF Init, IndicatorsAreHonest
  <2>4. QED BY <2>1, <2>2, <2>3 DEF IInv
<1>2. IInv /\ [Next]_vars => IInv'
  BY TypeStep, NumberStep, AnswerStep, HonestStep DEF IInv
<1>3. QED
  BY <1>1, <1>2, PTL DEF Spec

\* A peer is shown reachable only if it answered the very refresh the window
\* shows, stored only if it acknowledged, pending only while an announcement is
\* under way, whatever the order in which views and updates reach the window.
THEOREM IndicatorsAreHonestTheorem == Spec => []IndicatorsAreHonest
<1>1. IInv => IndicatorsAreHonest
  BY DEF IInv
<1>2. QED BY <1>1, Invariance, PTL

\* What PendingOutlastsViews asks of a step.
PendingKept ==
  \A d \in Device :
    indicator[d] = "pending" /\ indicator'[d] # "pending" =>
      \/ ann[d] = "pending" /\ ann'[d] = "none"
      \/ \E r \in results : ~r.ok /\ results' = results \ {r}

\* A view that is applied late leaves the sign of an announcement under way; it
\* goes with that announcement's outcome or with a refresh that failed.
THEOREM PendingOutlastsViewsTheorem == Spec => PendingOutlastsViews
<1>1. ASSUME TypeOK, [Next]_vars PROVE [PendingKept]_vars
  <2> USE DEF TypeOK, PendingKept, refresh, send
  <2>1. CASE BeginRefresh \/ Discover \/ Probe
    BY <2>1 DEF BeginRefresh, Discover, Probe
  <2>2. ASSUME NEW d \in Device, Accept(d) PROVE PendingKept
    BY <2>2 DEF Accept
  <2>3. CASE RefreshSucceeds \/ RefreshFails
    BY <2>3 DEF RefreshSucceeds, RefreshFails, EndRefresh
  <2>4. ASSUME NEW r \in results, ApplyView(r) PROVE PendingKept
    BY <2>4 DEF ApplyView, ShownBy
  <2>5. ASSUME NEW r \in results, ApplyError(r) PROVE PendingKept
    BY <2>5 DEF ApplyError
  <2>6. CASE BeginSend \/ EndSend
    BY <2>6 DEF BeginSend, EndSend
  <2>7. ASSUME NEW plan \in SUBSET Device \ {{}}, FanOut(plan) PROVE PendingKept
    BY <2>7 DEF FanOut
  <2>8. ASSUME NEW d \in Device, SendStep(d) PROVE PendingKept
    <3>1. CASE ShowPending(d)
      BY <3>1 DEF ShowPending
    <3>2. ASSUME NEW stored \in BOOLEAN, ShowOutcome(d, stored) PROVE PendingKept
      <4>1. /\ indicator' = [indicator EXCEPT ![d] = Shown(stored)]
            /\ ann[d] = "pending" /\ ann' = [ann EXCEPT ![d] = "none"]
        BY <3>2, Zenon DEF ShowOutcome
      <4>2. /\ \A e \in Device : e # d => indicator'[e] = indicator[e]
            /\ ann'[d] = "none"
        BY <1>1, <4>1
      <4>3. ASSUME NEW e \in Device, indicator[e] = "pending", indicator'[e] # "pending"
            PROVE  ann[e] = "pending" /\ ann'[e] = "none"
        BY <4>1, <4>2, <4>3
      <4>4. QED BY <4>3
    <3>3. QED BY <2>8, <3>1, <3>2 DEF SendStep
  <2>9. QED
    BY <1>1, <2>1, <2>2, <2>3, <2>4, <2>5, <2>6, <2>7, <2>8
       DEF Next, RefreshStep, Apply
<1>2. IInv /\ [Next]_vars => [PendingKept]_vars
  BY <1>1 DEF IInv
<1>3. Spec => [][PendingKept]_vars
  BY <1>2, Invariance, PTL DEF Spec
<1>4. QED
  BY <1>3 DEF PendingOutlastsViews, PendingKept
=============================================================================
