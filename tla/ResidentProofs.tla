---------------------------- MODULE ResidentProofs ----------------------------
(***************************************************************************)
(* Proofs about Resident, for any set of launches, commands and clicks and *)
(* any number of crashes, failed operations and suspended callers.         *)
(*                                                                         *)
(* The activation file is shared by launches that do not know each other,  *)
(* so what keeps it right is who may touch it when: the lock before it is  *)
(* published, and the store's own lock until the process is gone.          *)
(***************************************************************************)
EXTENDS Resident, FiniteSetTheorems, TLAPS

Stages   == {"off", "locked", "signal", "prepared", "removed", "up", "quit",
             "cleaned", "unlocked", "gone"}
Controls == {"none", "bound", "idle", "read", "work", "reply", "dead"}
Reports  == {"none", "ok", "refused", "failed"}
Steps    == {"idle", "lookup", "connect", "send", "await", "suspended", "ended"}

TypeInv ==
  /\ lock \in Launch \cup {Nobody} /\ file \in Launch \cup {Nobody}
  /\ stage \in [Launch -> Stages] /\ control \in [Launch -> Controls]
  /\ serving \in [Launch -> Caller \cup {Nobody}]
  /\ answer \in [Launch -> {"none", "ok", "refused"}]
  /\ backlog \in [Launch -> Seq(Caller)]
  /\ pc \in [Caller -> Steps] /\ to \in [Caller -> Launch \cup {Nobody}]
  /\ report \in [Caller -> Reports]

\* resident.lock is held from the moment it is taken until it is dropped.
HolderInv ==
  \A l \in Launch :
    stage[l] \in {"locked", "prepared", "removed", "up", "quit", "cleaned"} <=> lock = l

\* A control socket lives inside a process that has the store open, and there
\* is one such socket: the next launch gets the store, and with it the socket,
\* only when the last one's process is gone.
SocketInv ==
  /\ \A l \in Launch :
       /\ control[l] # "none" => StoreIsOpen(l)
       /\ control[l] = "bound" <=> stage[l] \in {"prepared", "removed"}
       /\ stage[l] = "up" => control[l] # "none"
  /\ \A l, m \in Launch : control[l] # "none" /\ control[m] # "none" => l = m

Pulls == {k \in Click : click[k] = "pulling"}

ClickInv ==
  /\ click \in [Click -> {"none", "refresh", "complete", "pulling"}]
  /\ permits = Cardinality(Pulls)
  /\ active = {CardOf[k] : k \in Pulls}
  /\ \A j, k \in Pulls : CardOf[j] = CardOf[k] => j = k

IInv == TypeInv /\ HolderInv /\ SocketInv /\ ServingIsPublished /\ ClickInv

-----------------------------------------------------------------------------
(* Each part is preserved by every step.                                   *)

USE DEF Stage, Control, Goto, process, thread, callers, window

\* Commands and launches are the callers of a resident.
LEMMA Callers == Call \subseteq Caller /\ Launch \subseteq Caller
  BY DEF Caller

\* End keeps the callers' types.
LEMMA EndType ==
  ASSUME TypeInv, NEW X, NEW r \in Reports, End(X, r)
  PROVE  /\ pc' \in [Caller -> Steps] /\ to' \in [Caller -> Launch \cup {Nobody}]
         /\ report' \in [Caller -> Reports]
  BY DEF TypeInv, End, Steps

\* Types.
LEMMA TypeStep == TypeInv /\ [Next]_vars => TypeInv'
<1> SUFFICES ASSUME TypeInv, [Next]_vars PROVE TypeInv'
  OBVIOUS
<1> USE Callers
<1> DEFINE CallerTypes == /\ pc \in [Caller -> Steps] /\ to \in [Caller -> Launch \cup {Nobody}]
                          /\ report \in [Caller -> Reports]
<1>1. ASSUME NEW l \in Launch, ProcessStep(l) \/ Quit(l) \/ Crash(l) PROVE TypeInv'
  <2>1. CASE Exit(l) \/ Crash(l)
    <3>1. End(Connected(l), "failed") /\ "failed" \in Reports
      BY <2>1 DEF Exit, Crash, Die, Reports
    <3>2. CallerTypes'
      BY <3>1, EndType
    <3>3. lock' \in Launch \cup {Nobody} /\ UNCHANGED file
      BY <2>1 DEF Exit, Crash, Die, TypeInv
    <3>4. /\ stage' \in [Launch -> Stages] /\ control' \in [Launch -> Controls]
          /\ answer' \in [Launch -> {"none", "ok", "refused"}]
      BY <2>1 DEF Exit, Crash, Die, TypeInv, Stages, Controls
    <3>5. serving' \in [Launch -> Caller \cup {Nobody}] /\ backlog' \in [Launch -> Seq(Caller)]
      <4>1. /\ serving' = [serving EXCEPT ![l] = Nobody]
            /\ backlog' = [backlog EXCEPT ![l] = <<>>]
        BY <2>1 DEF Exit, Crash, Die
      <4>2. <<>> \in Seq(Caller)
        OBVIOUS
      <4>3. QED
        BY <4>1, <4>2 DEF TypeInv
    <3>6. QED
      BY <3>2, <3>3, <3>4, <3>5 DEF TypeInv
  <2>2. CASE TryLock(l)
    BY <2>2 DEF TryLock, TypeInv, Stages, Steps
  <2>3. CASE Prepare(l) \/ Publish(l)
    BY <2>3 DEF Prepare, Publish, TypeInv, Stages, Controls
  <2>4. CASE PrepareFails(l) \/ RemoveOldFile(l) \/ CleanUp(l) \/ Unlock(l)
             \/ LeaveAfterSignal(l) \/ Quit(l)
    BY <2>4 DEF PrepareFails, RemoveOldFile, CleanUp, Unlock, LeaveAfterSignal, Quit,
       TypeInv, Stages
  <2>5. QED
    BY <1>1, <2>1, <2>2, <2>3, <2>4 DEF ProcessStep
<1>2. ASSUME NEW l \in Launch, ThreadStep(l) \/ ReplyFails(l) \/ AcceptFails(l) PROVE TypeInv'
  <2>1. CASE Accept(l)
    BY <2>1 DEF Accept, TypeInv, Controls
  <2>2. CASE ReadRequest(l)
    BY <2>2 DEF ReadRequest, Finish, TypeInv, Controls
  <2>3. CASE Perform(l)
    BY <2>3 DEF Perform, TypeInv, Controls
  <2>4. CASE ReadTimesOut(l) \/ Reply(l) \/ ReplyFails(l)
    <3>1. CallerTypes'
      <4>1. \/ \E r \in Reports : End({serving[l]}, r)
            \/ UNCHANGED <<pc, to, report>>
        BY <2>4 DEF ReadTimesOut, Reply, ReplyFails, Reports, TypeInv
      <4>2. QED
        BY <4>1, EndType DEF TypeInv
    <3>2. QED
      BY <2>4, <3>1 DEF ReadTimesOut, Reply, ReplyFails, Finish, TypeInv, Controls
  <2>5. CASE AcceptFails(l)
    <3>1. CallerTypes'
      BY <2>5, EndType DEF AcceptFails, Reports
    <3>2. QED
      BY <2>5, <3>1 DEF AcceptFails, TypeInv, Controls
  <2>6. QED
    BY <1>2, <2>1, <2>2, <2>3, <2>4, <2>5 DEF ThreadStep
<1>3. ASSUME NEW x \in Caller, CallerStep(x) \/ Suspend(x) PROVE TypeInv'
  <2>1. CallerTypes'
    <3>1. \/ \E r \in Reports : End({x}, r)
          \/ \E s \in Steps : Goto(x, s) /\ UNCHANGED report /\ to' \in {to, [to EXCEPT ![x] = file]}
      BY <1>3 DEF CallerStep, Lookup, Connect, Send, Suspend, Reports, Steps
    <3>2. QED
      BY <3>1, EndType DEF TypeInv
  <2>2. UNCHANGED process /\ UNCHANGED <<control, serving, answer>>
    BY <1>3 DEF CallerStep, Lookup, Connect, Send, Suspend
  <2>3. backlog' \in [Launch -> Seq(Caller)]
    <3>1. UNCHANGED backlog \/ backlog' = [backlog EXCEPT ![to[x]] = Append(@, x)]
      BY <1>3 DEF CallerStep, Lookup, Connect, Send, Suspend
    <3>2. \A l \in Launch : Append(backlog[l], x) \in Seq(Caller)
      BY DEF TypeInv
    <3>3. backlog \in [Launch -> Seq(Caller)]
      BY DEF TypeInv
    <3>4. QED
      BY <3>1, <3>2, <3>3
  <2>4. QED
    BY <2>1, <2>2, <2>3 DEF TypeInv
<1>4. ASSUME NEW c \in Call, StartCall(c) \/ TimesOut(c) PROVE TypeInv'
  <2>1. CASE StartCall(c)
    BY <2>1 DEF StartCall, TypeInv, Steps
  <2>2. CASE TimesOut(c)
    <3>1. CallerTypes'
      BY <2>2, EndType DEF TimesOut, Reports
    <3>2. QED
      BY <2>2, <3>1 DEF TimesOut, TypeInv
  <2>3. QED
    BY <1>4, <2>1, <2>2
<1>5. ASSUME NEW k \in Click, ClickCard(k) \/ ClickStep(k) PROVE TypeInv'
  BY <1>5 DEF ClickCard, ClickStep, Refreshed, Complete, CompleteRefuses, Pulled, TypeInv
<1>6. CASE UNCHANGED vars
  BY <1>6 DEF vars, TypeInv
<1>7. QED
  BY <1>1, <1>2, <1>3, <1>4, <1>5, <1>6 DEF Next

\* A step of a caller, of a click or of nobody: no launch does anything.
ResidentsRest ==
  /\ UNCHANGED process /\ UNCHANGED <<control, serving, answer, done>>
  /\ UNCHANGED window \/ \E k \in Click : ClickCard(k) \/ ClickStep(k)

\* Those of them that leave the callers alone too.
WindowOnly == ResidentsRest /\ UNCHANGED callers

\* Callers and clicks work on what is theirs.
LEMMA WhoSteps ==
  ASSUME [Next]_vars
  PROVE  \/ \E l \in Launch : ProcessStep(l) \/ Quit(l) \/ Crash(l)
         \/ \E l \in Launch : ThreadStep(l) \/ ReplyFails(l) \/ AcceptFails(l)
         \/ /\ ResidentsRest
            /\ \/ WindowOnly
               \/ \E x \in Caller : CallerStep(x) \/ Suspend(x)
               \/ \E c \in Call : StartCall(c) \/ TimesOut(c)
<1> USE DEF ResidentsRest, WindowOnly
<1>1. UNCHANGED vars => WindowOnly
  BY DEF vars
<1>2. ASSUME NEW k \in Click, ClickCard(k) \/ ClickStep(k) PROVE WindowOnly
  BY <1>2 DEF ClickCard, ClickStep, Refreshed, Complete, CompleteRefuses, Pulled
<1>3. ASSUME NEW x \in Caller, CallerStep(x) \/ Suspend(x) PROVE ResidentsRest
  BY <1>3 DEF CallerStep, Lookup, Connect, Send, Suspend
<1>4. ASSUME NEW c \in Call, StartCall(c) \/ TimesOut(c) PROVE ResidentsRest
  BY <1>4 DEF StartCall, TimesOut
<1> QED
  BY <1>1, <1>2, <1>3, <1>4 DEF Next

\* The lock is taken and dropped together with the stage that says so.
LEMMA HolderStep == TypeInv /\ HolderInv /\ [Next]_vars => HolderInv'
<1> SUFFICES ASSUME TypeInv, HolderInv, [Next]_vars PROVE HolderInv'
  OBVIOUS
<1> USE ResidentAssumption DEF TypeInv, HolderInv, Caller, Nobody
<1>1. ASSUME NEW l \in Launch, ProcessStep(l) \/ Quit(l) \/ Crash(l) PROVE HolderInv'
  BY <1>1 DEF ProcessStep, TryLock, Prepare, PrepareFails, RemoveOldFile, Publish,
     CleanUp, Unlock, Exit, LeaveAfterSignal, Quit, Crash, Die, Window
<1>2. ASSUME NEW l \in Launch, ThreadStep(l) \/ ReplyFails(l) \/ AcceptFails(l) PROVE HolderInv'
  BY <1>2 DEF ThreadStep, Accept, ReadRequest, ReadTimesOut, Perform, Reply, ReplyFails, AcceptFails
<1>3. CASE ResidentsRest
  BY <1>3 DEF ResidentsRest
<1> QED
  BY <1>1, <1>2, <1>3, WhoSteps

\* One control socket, inside a process that has the store open.
LEMMA SocketStep == TypeInv /\ SocketInv /\ [Next]_vars => SocketInv'
<1> SUFFICES ASSUME TypeInv, SocketInv, [Next]_vars PROVE SocketInv'
  OBVIOUS
<1> USE DEF SocketInv, StoreIsOpen
<1>0. stage \in [Launch -> Stages] /\ control \in [Launch -> Controls]
  BY DEF TypeInv
<1>1. ASSUME NEW l \in Launch, ProcessStep(l) \/ Quit(l) \/ Crash(l) PROVE SocketInv'
  <2>1. CASE TryLock(l) \/ Prepare(l) \/ PrepareFails(l) \/ RemoveOldFile(l) \/ Publish(l)
    BY <1>0, <2>1 DEF TryLock, Prepare, PrepareFails, RemoveOldFile, Publish
  <2>2. CASE CleanUp(l) \/ Unlock(l) \/ LeaveAfterSignal(l) \/ Quit(l)
    BY <1>0, <2>2 DEF CleanUp, Unlock, LeaveAfterSignal, Quit, Window
  <2>3. CASE Exit(l) \/ Crash(l)
    BY <1>0, <2>3 DEF Exit, Crash, Die
  <2>4. QED
    BY <1>1, <2>1, <2>2, <2>3 DEF ProcessStep
<1>2. ASSUME NEW l \in Launch, ThreadStep(l) \/ ReplyFails(l) \/ AcceptFails(l) PROVE SocketInv'
  BY <1>0, <1>2 DEF ThreadStep, Accept, ReadRequest, ReadTimesOut, Perform, Reply, ReplyFails,
     AcceptFails, Finish
<1>3. CASE ResidentsRest
  BY <1>3 DEF ResidentsRest
<1> QED
  BY <1>1, <1>2, <1>3, WhoSteps

\* The file is replaced by the holder of the lock and removed by it or by the
\* only control thread.
LEMMA PublishedStep ==
  TypeInv /\ HolderInv /\ SocketInv /\ ServingIsPublished /\ [Next]_vars => ServingIsPublished'
<1> SUFFICES ASSUME TypeInv, HolderInv, SocketInv, ServingIsPublished, [Next]_vars
             PROVE  ServingIsPublished'
  OBVIOUS
<1> USE DEF ServingIsPublished
<1>0. /\ stage \in [Launch -> Stages] /\ control \in [Launch -> Controls]
      /\ \A l, m \in Launch : stage[l] = "up" /\ lock = m => l = m
      /\ \A l, m \in Launch : control[l] # "none" /\ control[m] # "none" => l = m
      /\ \A l \in Launch : stage[l] = "up" => control[l] # "none"
      /\ \A l \in Launch : stage[l] \in {"prepared", "removed", "quit"} => lock = l
      /\ Nobody \notin Launch
  BY ResidentAssumption, Callers DEF TypeInv, HolderInv, SocketInv
<1>1. ASSUME NEW l \in Launch, ProcessStep(l) \/ Quit(l) \/ Crash(l) PROVE ServingIsPublished'
  <2>1. CASE TryLock(l) \/ Prepare(l) \/ PrepareFails(l) \/ RemoveOldFile(l) \/ Publish(l)
    <3>1. CASE TryLock(l)
      BY <1>0, <3>1 DEF TryLock
    <3>2. CASE Prepare(l) \/ PrepareFails(l)
      BY <1>0, <3>2 DEF Prepare, PrepareFails
    <3>3. CASE RemoveOldFile(l)
      BY <1>0, <3>3 DEF RemoveOldFile
    <3>4. CASE Publish(l)
      BY <1>0, <3>4 DEF Publish
    <3>5. QED
      BY <2>1, <3>1, <3>2, <3>3, <3>4
  <2>2. CASE CleanUp(l) \/ Unlock(l) \/ LeaveAfterSignal(l) \/ Quit(l)
    BY <1>0, <2>2 DEF CleanUp, Unlock, LeaveAfterSignal, Quit, HolderInv
  <2>3. CASE Exit(l) \/ Crash(l)
    BY <1>0, <2>3 DEF Exit, Crash, Die
  <2>4. QED
    BY <1>1, <2>1, <2>2, <2>3 DEF ProcessStep
<1>2. ASSUME NEW l \in Launch, ThreadStep(l) \/ ReplyFails(l) \/ AcceptFails(l)
      PROVE  ServingIsPublished'
  BY <1>0, <1>2 DEF ThreadStep, Accept, ReadRequest, ReadTimesOut, Perform, Reply, ReplyFails,
     AcceptFails, Finish
<1>3. CASE ResidentsRest
  BY <1>3 DEF ResidentsRest
<1> QED
  BY <1>1, <1>2, <1>3, WhoSteps

\* A click that starts a pull adds one permit and one card that was not there;
\* one that ends takes its own, and a window that goes takes all.
LEMMA ClickStepInv == ClickInv /\ [Next]_vars => ClickInv'
<1> SUFFICES ASSUME ClickInv, [Next]_vars PROVE ClickInv'
  OBVIOUS
<1>0. /\ click \in [Click -> {"none", "refresh", "complete", "pulling"}]
      /\ IsFiniteSet(Pulls) /\ permits = Cardinality(Pulls) /\ active = {CardOf[k] : k \in Pulls}
      /\ \A j, k \in Pulls : CardOf[j] = CardOf[k] => j = k
  <2>1. IsFiniteSet(Pulls)
    BY ResidentAssumption, FS_Subset DEF Pulls
  <2>2. QED
    BY <2>1 DEF ClickInv
<1>1. CASE UNCHANGED window
  BY <1>0, <1>1 DEF ClickInv, Pulls
<1>2. CASE NoWindow
  <2>1. click' \in [Click -> {"none", "refresh", "complete", "pulling"}] /\ Pulls' = {}
    BY <1>2 DEF NoWindow, Pulls
  <2>2. QED
    BY <1>2, <2>1, FS_EmptySet DEF NoWindow, ClickInv
<1>3. ASSUME NEW k \in Click, ClickCard(k) \/ ClickStep(k) PROVE ClickInv'
  <2>1. CASE ClickCard(k) \/ Refreshed(k) \/ CompleteRefuses(k)
    <3>1. /\ click' \in [Click -> {"none", "refresh", "complete", "pulling"}] /\ Pulls' = Pulls
          /\ UNCHANGED <<active, permits>>
      BY <1>0, <2>1 DEF ClickCard, Refreshed, CompleteRefuses, Pulls
    <3>2. QED
      BY <1>0, <3>1 DEF ClickInv
  <2>2. CASE Complete(k) /\ (AlreadyActive(k) \/ permits = MaxPulls)
    <3>1. /\ click' \in [Click -> {"none", "refresh", "complete", "pulling"}] /\ Pulls' = Pulls
          /\ UNCHANGED <<active, permits>>
      BY <1>0, <2>2 DEF Complete, Pulls
    <3>2. QED
      BY <1>0, <3>1 DEF ClickInv
  <2>3. CASE Complete(k) /\ ~(AlreadyActive(k) \/ permits = MaxPulls)
    <3>1. /\ click' \in [Click -> {"none", "refresh", "complete", "pulling"}]
          /\ k \notin Pulls /\ Pulls' = Pulls \cup {k}
          /\ active' = active \cup {CardOf[k]} /\ permits' = permits + 1
      BY <1>0, <2>3 DEF Complete, Pulls
    <3>2. CardOf[k] \notin active
      BY <2>3 DEF AlreadyActive
    <3>3. Cardinality(Pulls') = Cardinality(Pulls) + 1
      BY <1>0, <3>1, FS_AddElement
    <3>4. active' = {CardOf[j] : j \in Pulls'}
      BY <1>0, <3>1
    <3>5. \A i, j \in Pulls' : CardOf[i] = CardOf[j] => i = j
      BY <1>0, <3>1, <3>2
    <3>6. QED
      BY <1>0, <3>1, <3>3, <3>4, <3>5 DEF ClickInv
  <2>4. CASE Pulled(k)
    <3>1. /\ click' \in [Click -> {"none", "refresh", "complete", "pulling"}]
          /\ k \in Pulls /\ Pulls' = Pulls \ {k}
          /\ active' = active \ {CardOf[k]} /\ permits' = permits - 1
      BY <1>0, <2>4 DEF Pulled, Pulls
    <3>2. Cardinality(Pulls') = Cardinality(Pulls) - 1
      BY <1>0, <3>1, FS_RemoveElement
    <3>3. active' = {CardOf[j] : j \in Pulls'}
      BY <1>0, <3>1
    <3>4. QED
      BY <1>0, <3>1, <3>2, <3>3 DEF ClickInv
  <2>5. QED
    BY <1>3, <2>1, <2>2, <2>3, <2>4 DEF ClickStep
<1>4. ASSUME NEW l \in Launch, ProcessStep(l) \/ Quit(l) \/ Crash(l)
      PROVE  UNCHANGED window \/ NoWindow
  BY <1>4 DEF ProcessStep, TryLock, Prepare, PrepareFails, RemoveOldFile, Publish,
     CleanUp, Unlock, Exit, LeaveAfterSignal, Quit, Crash
<1>5. ASSUME NEW l \in Launch, ThreadStep(l) \/ ReplyFails(l) \/ AcceptFails(l)
      PROVE  UNCHANGED window
  BY <1>5 DEF ThreadStep, Accept, ReadRequest, ReadTimesOut, Perform, Reply, ReplyFails, AcceptFails
<1>6. ASSUME ResidentsRest
      PROVE  UNCHANGED window \/ \E k \in Click : ClickCard(k) \/ ClickStep(k)
  BY <1>6 DEF ResidentsRest
<1> QED
  BY <1>1, <1>2, <1>3, <1>4, <1>5, <1>6, WhoSteps

-----------------------------------------------------------------------------
(* The inductive invariant, and what follows from it.                      *)

\* Nothing has started: nobody holds the lock or serves.
LEMMA InitIInv == Init => IInv
<1> SUFFICES ASSUME Init PROVE IInv
  OBVIOUS
<1>1. TypeInv
  <2>1. <<>> \in Seq(Caller)
    OBVIOUS
  <2>2. QED
    BY <2>1 DEF Init, TypeInv, Stages, Controls, Steps, Reports
<1>2. HolderInv
  <2>1. Nobody \notin Launch
    BY ResidentAssumption, Callers
  <2>2. QED
    BY <2>1 DEF Init, HolderInv
<1>3. SocketInv /\ ServingIsPublished
  BY DEF Init, SocketInv, ServingIsPublished
<1>4. ClickInv
  <2>1. Pulls = {} /\ click \in [Click -> {"none", "refresh", "complete", "pulling"}]
    BY DEF Init, Pulls
  <2>2. QED
    BY <2>1, FS_EmptySet DEF Init, ClickInv
<1>5. QED
  BY <1>1, <1>2, <1>3, <1>4 DEF IInv

\* Every step keeps it.
LEMMA StepIInv == IInv /\ [Next]_vars => IInv'
  BY TypeStep, HolderStep, SocketStep, PublishedStep, ClickStepInv DEF IInv

\* IInv holds in every reachable state.
LEMMA Invariance == Spec => []IInv
  BY InitIInv, StepIInv, PTL DEF Spec

\* The launch that serves is the one the activation file names and the one that
\* holds resident.lock, whatever launches fail, quit, crash or only signal.
THEOREM ServingPublishedTheorem == Spec => []ServingIsPublished
<1>1. IInv => ServingIsPublished
  BY DEF IInv
<1>2. QED
  BY <1>1, Invariance, PTL

\* The window's permits and active_activations are exactly its running pulls,
\* for any number of clicks and any MaxPulls, and no card is pulled twice.
THEOREM OnePullPerCardTheorem == Spec => []OnePullPerCard
<1>1. IInv => OnePullPerCard
  BY DEF IInv, ClickInv, Pulls, OnePullPerCard
<1>2. QED
  BY <1>1, Invariance, PTL
===============================================================================
