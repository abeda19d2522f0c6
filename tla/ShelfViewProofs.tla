--------------------------- MODULE ShelfViewProofs ---------------------------
(***************************************************************************)
(* No refresh is lost, for any number of refresh threads, activations,     *)
(* changes and failed reads.                                               *)
(***************************************************************************)
EXTENDS ShelfView, TLAPS

\* Thread r has not yet read anything that an awaited refresh would not show.
WillShow(r) ==
  \/ pc[r] = "start"
  \/ pc[r] = "half" /\ snap[r].cards >= signalled
  \/ pc[r] = "loaded" /\ UpToDate(snap[r])

\* A refresh of the current state is still to come.
UnderWay ==
  \/ pulling > 0 \/ committed > 0 \/ queue > 0 \/ owed > 0
  \/ \E r \in Refresher : WillShow(r)

\* A snapshot that is up to date was shown, or its failure reported.
Reported == \E v \in shown \cup told : UpToDate(v)

IInv ==
  /\ TypeOK
  /\ active + pulling <= MaxActive
  /\ up => UnderWay \/ Reported

\* The window opens with a refresh to come.
LEMMA InitIInv == Init => IInv
<1> SUFFICES ASSUME Init PROVE IInv
  OBVIOUS
<1> USE ShelfViewAssumption DEF Init
<1>1. Empty \in Version
  BY DEF Empty, Version
<1>2. up \in BOOLEAN /\ ~up
  OBVIOUS
<1>3. pc \in [Refresher -> {"idle", "start", "half", "loaded"}]
  OBVIOUS
<1>4. snap \in [Refresher -> Version] /\ view \in Version
  BY <1>1
<1>5. shown \subseteq Version /\ told \subseteq Version
  OBVIOUS
<1>6. /\ cards \in 0..MaxChanges /\ active \in 0..MaxActive
      /\ pulling \in 0..MaxActivations /\ committed \in Nat /\ queue \in Nat /\ owed \in Nat
      /\ signalled \in 0..cards /\ remote \in 0..MaxRemote
      /\ nudges \in 0..MaxNudges /\ faults \in 0..MaxFaults
      /\ active + pulling <= MaxActive
  OBVIOUS
<1>7. TypeOK
  BY <1>2, <1>3, <1>4, <1>5, <1>6 DEF TypeOK
<1> QED BY <1>2, <1>6, <1>7 DEF IInv

\* Types and the room left for running activations are kept by every step.
LEMMA TypeStep == IInv /\ [Next]_vars => TypeOK' /\ (active + pulling <= MaxActive)'
<1> SUFFICES ASSUME IInv, [Next]_vars
             PROVE  TypeOK' /\ (active + pulling <= MaxActive)'
  OBVIOUS
<1> USE ShelfViewAssumption DEF IInv, TypeOK, Version
<1>1. CASE Open
  BY <1>1 DEF Open, source, threads, history
<1>2. CASE InsertCard
  BY <1>2 DEF InsertCard, threads, history
<1>3. CASE Notify
  BY <1>3 DEF Notify, source, threads, history
<1>4. CASE Nudge
  BY <1>4 DEF Nudge, source, threads, history
<1>5. CASE RegisterActivation
  BY <1>5 DEF RegisterActivation, threads, history
<1>6. CASE RecordAttempt
  BY <1>6 DEF RecordAttempt, signals, threads, history
<1>10. CASE RecordRemoteAttempt
  BY <1>10 DEF RecordRemoteAttempt, signals, threads, history
<1>7. CASE FinishActivation
  BY <1>7 DEF FinishActivation, threads, history
<1>8. ASSUME NEW r \in Refresher, Refresh(r)
      PROVE  TypeOK' /\ (active + pulling <= MaxActive)'
  <2>1. CASE TakeNotification(r)
    BY <2>1 DEF TakeNotification, Spawn, source, history
  <2>2. CASE StartRefresh(r)
    BY <2>2 DEF StartRefresh, Spawn, source, history
  <2>3. CASE LoadCards(r)
    BY <2>3 DEF LoadCards, source, signals, history
  <2>4. CASE LoadActive(r)
    BY <2>4 DEF LoadActive, source, signals, history
  <2>5. CASE LoadFails(r)
    BY <2>5 DEF LoadFails, End, Empty, Current, source, signals
  <2>6. CASE ApplySnapshot(r)
    BY <2>6 DEF ApplySnapshot, End, Empty, source, signals
  <2> QED BY <1>8, <2>1, <2>2, <2>3, <2>4, <2>5, <2>6 DEF Refresh
<1>9. CASE UNCHANGED vars
  BY <1>9 DEF vars, source, signals, threads, history
<1> QED BY <1>1, <1>2, <1>3, <1>4, <1>5, <1>6, <1>7, <1>8, <1>9, <1>10 DEF Next

\* A change leaves a refresh to come, and a refresh that is spent has shown the
\* current state or leaves another one to come.
LEMMA RefreshStep ==
  IInv /\ [Next]_vars => (up => UnderWay \/ Reported)'
<1> SUFFICES ASSUME IInv, [Next]_vars, up'
             PROVE  UnderWay' \/ Reported'
  OBVIOUS
<1> USE ShelfViewAssumption DEF IInv, TypeOK
<1>1. CASE Open
  BY <1>1 DEF Open, UnderWay
<1>2. CASE InsertCard
  BY <1>2 DEF InsertCard, UnderWay
<1>3. CASE Notify
  BY <1>3 DEF Notify, UnderWay
<1>4. CASE Nudge
  BY <1>4 DEF Nudge, UnderWay
<1>5. CASE RegisterActivation
  BY <1>5 DEF RegisterActivation, UnderWay
<1>6. CASE RecordAttempt
  BY <1>6 DEF RecordAttempt, UnderWay
<1>10. CASE RecordRemoteAttempt
  BY <1>10 DEF RecordRemoteAttempt, signals, threads, history, UnderWay, WillShow,
               Reported, UpToDate
<1>7. CASE FinishActivation
  BY <1>7 DEF FinishActivation, UnderWay
<1>8. ASSUME NEW r \in Refresher, Refresh(r)
      PROVE  UnderWay' \/ Reported'
  <2>1. CASE TakeNotification(r)
    BY <2>1 DEF TakeNotification, Spawn, UnderWay, WillShow
  <2>2. CASE StartRefresh(r)
    BY <2>2 DEF StartRefresh, Spawn, UnderWay, WillShow
  <2>3. CASE LoadCards(r)
    <3>1. WillShow(r)'
      BY <2>3 DEF LoadCards, WillShow, source, Version
    <3> QED BY <3>1 DEF UnderWay
  <2>4. CASE LoadActive(r)
    <3>1. CASE snap[r].cards >= signalled
      <4>1. UpToDate(snap[r])'
        BY <2>4, <3>1 DEF LoadActive, UpToDate, source, Version
      <4>2. pc'[r] = "loaded"
        BY <2>4 DEF LoadActive
      <4> QED BY <4>1, <4>2 DEF UnderWay, WillShow
    <3>2. CASE ~(snap[r].cards >= signalled)
      <4>1. ~WillShow(r)
        BY <2>4, <3>2 DEF LoadActive, WillShow
      <4> QED BY <2>4, <4>1 DEF LoadActive, UnderWay, WillShow, Reported, UpToDate,
                                source, signals, history
    <3> QED BY <3>1, <3>2
  <2>5. CASE LoadFails(r)
    <3>1. UpToDate(Current)'
      <4>1. signalled' \in 0..cards' /\ cards' \in 0..MaxChanges
        BY <2>5 DEF LoadFails, source
      <4> QED BY <4>1 DEF UpToDate, Current
    <3>2. Current' \in told'
      BY <2>5 DEF LoadFails, Current, source
    <3> QED BY <3>1, <3>2 DEF Reported
  <2>6. CASE ApplySnapshot(r)
    <3>1. CASE UpToDate(snap[r])
      <4>1. snap[r] \in shown'
        BY <2>6 DEF ApplySnapshot
      <4>2. snap[r].active = active' /\ snap[r].cards >= signalled'
        BY <2>6, <3>1 DEF ApplySnapshot, UpToDate, source
      <4> QED BY <4>1, <4>2 DEF Reported, UpToDate
    <3>2. CASE ~UpToDate(snap[r])
      <4>1. ~WillShow(r)
        BY <2>6, <3>2 DEF ApplySnapshot, WillShow
      <4> QED BY <2>6, <4>1 DEF ApplySnapshot, End, UnderWay, WillShow, Reported,
                                UpToDate, source, signals
    <3> QED BY <3>1, <3>2
  <2> QED BY <1>8, <2>1, <2>2, <2>3, <2>4, <2>5, <2>6 DEF Refresh
<1>9. CASE UNCHANGED vars
  BY <1>9 DEF vars, source, signals, threads, history, UnderWay, WillShow, Reported,
               UpToDate
<1> QED BY <1>1, <1>2, <1>3, <1>4, <1>5, <1>6, <1>7, <1>8, <1>9, <1>10 DEF Next

\* The inductive invariant of the refresh protocol.
THEOREM ViewInvariance == Spec => []IInv
<1>1. IInv /\ [Next]_vars => IInv'
  BY TypeStep, RefreshStep DEF IInv
<1> QED BY InitIInv, <1>1, PTL DEF Spec

\* Counters, threads and snapshots keep their types.
THEOREM ViewTypeCorrect == Spec => []TypeOK
<1>1. IInv => TypeOK
  BY DEF IInv
<1> QED BY ViewInvariance, <1>1, PTL

\* When nothing is under way, the window has shown the activations as they are
\* with the last signalled change of the store, or has reported a failed read,
\* however many attempts of control-channel activations went by unsignalled.
THEOREM RefreshesAreNotLost == Spec => []NoLostRefresh
<1>1. IInv => NoLostRefresh
  BY ShelfViewAssumption DEF IInv, TypeOK, NoLostRefresh, Quiet, UnderWay, WillShow, Reported
<1> QED BY ViewInvariance, <1>1, PTL
=============================================================================
