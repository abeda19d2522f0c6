--------------------------- MODULE ActivationProofs ---------------------------
(***************************************************************************)
(* Proofs about Activation, for any set of activations, any concurrency    *)
(* limit and any number of failures and process deaths.                    *)
(*                                                                         *)
(* None of the properties is inductive by itself: what a step may do to    *)
(* the store or the disk depends on where the thread that takes it stands. *)
(* The parts below say, label by label, what a thread at that label may    *)
(* rely on.  Each part is preserved by every step given the parts before   *)
(* it, and each property follows from the parts.                           *)
(***************************************************************************)
EXTENDS Activation, FiniteSetTheorems, TLAPS

\* The results that end in record_offer_attempt.
Reportable == {"Busy", "Refused", "Cancelled", "Failed", "ClipboardFailed"}

\* A thread that is going to record its result has one the store knows.
ResultKnown ==
  \A a \in Activation :
    pc[a] \in {"refuse", "record", "cleanup", "unjournal", "unindex", "discard"}
      => result[a] \in Reportable

\* Threads run only in a process that is up, and exactly they are live.
RunningInv ==
  /\ live = {a \in Activation : pc[a] \in Running}
  /\ proc # "up" => \A a \in Activation : pc[a] \notin Running

\* Where the side effect of an activation, and its completion, can have
\* happened, and the row that covers it.
EffectInv ==
  \A a \in Activation :
    /\ a \in wrote => pc[a] \in Applied \cup {"leave", "ended", "dead"}
    /\ pc[a] \in {"index", "write", "promote", "evict"} =>
         journal[a] = "ApplyingClipboard" /\ IsClipboard(a)
    /\ pc[a] \in {"index", "promote", "evict"} => IsCached(a)
    /\ pc[a] = "apply" => IsClipboard(a)
    /\ pc[a] \in {"promote", "evict"} => a \in wrote
    /\ pc[a] \in {"finish", "complete"} /\ a \in wrote => journal[a] = "ApplyingClipboard"
    /\ pc[a] \in {"finish", "complete", "confirm", "close"} =>
         IF IsClipboard(a) THEN a \in wrote ELSE a \in saved
    /\ pc[a] \in {"confirm", "close"} => a \in settled
    /\ a \in wrote => IsUncertainSideEffect(journal[a]) \/ a \in settled

\* Who still has a staging directory, and under which row.
StagingInv ==
  /\ staging \subseteq Journaled \cup leaked
  /\ \A a \in Activation :
       /\ pc[a] = "prepare" => journal[a] # "absent"
       /\ pc[a] \in {"unjournal", "complete", "confirm", "close", "guardClean"}
            => a \notin staging
       /\ pc[a] = "guardDirty" => a \in leaked
       /\ attempt[a] = "Completed" =>
            /\ pc[a] \in {"close", "uncertain", "unrecorded", "leave", "ended", "dead"}
            /\ a \notin staging
            /\ IF IsClipboard(a) THEN a \in wrote ELSE a \in saved

\* An uncertain row belongs to a thread that has nothing left to write to it.
UncertainInv ==
  \A a \in Activation :
    /\ pc[a] = "new" => journal[a] = "absent"
    /\ journal[a] = "UncertainNoReplay" =>
         pc[a] \in {"unrecorded", "leave", "ended", "dead"}

\* The threads that may hold a staging directory in a healthy process.
Holding == {"accept", "receive", "publish", "place", "apply", "index", "write",
            "unindex", "discard", "cleanup", "guard", "guardDirty", "promote",
            "evict", "finish", "uncertain"}

\* What a process finds when it comes up, and what its threads leave behind.
ResidueInv ==
  /\ proc = "cache" => \A a \in Journaled : journal[a] = "UncertainNoReplay"
  /\ proc = "up" /\ ~cleanupBlocked =>
       \A a \in staging \ leaked : pc[a] \in Holding \/ journal[a] = "UncertainNoReplay"

\* Where a thread stands whose object has been made the completed one.
Promoted == {"evict", "finish", "complete", "confirm", "close", "uncertain",
             "unrecorded", "leave", "ended", "dead"}

\* An object the index or a thread counts on exists, and what a thread is
\* about to evict is an object that was completed and no longer is.
CacheInv ==
  /\ completed # None => completed \in cache /\ pc[completed] \in Promoted
  /\ \A a \in Activation :
       /\ pc[a] \in {"apply", "index", "write", "promote"} /\ IsCached(a) => a \in cache
       /\ pc[a] = "evict" /\ prev[a] # None =>
            /\ pc[prev[a]] \in Promoted
            /\ prev[a] # completed /\ prev[a] # a

-----------------------------------------------------------------------------
(* Each part is preserved by every step.                                   *)

\* The typing part.
TypeInv == StateTypeOK /\ ResultKnown

USE DEF Goto, SetResult, Return, UpdateActivationState, RemoveActivationJournal

\* Types, and that record_offer_attempt is handed a known outcome.
LEMMA TypeStep ==
  ASSUME TypeInv,
         [Next]_vars
  PROVE  TypeInv'
<1> USE ActivationAssumption DEF TypeInv, StateTypeOK, JournalState, Attempt,
      Result, PC, Running, BeforeGate, AfterGate, Retracting, Applied,
      ResultKnown, Reportable, store, disk, flags, aux, FailTo, Fault
<1>1. ASSUME NEW a \in Activation, Admit(a) PROVE TypeInv'
  BY <1>1 DEF Admit, FailConnect, EnterReceiver, ReadPlan, CheckUncertainty, Rivals,
      CheckUncertaintyFails, RefuseReservation, JournalActivation,
      JournalActivationFails, PrepareStaging, PrepareStagingFails, Accept,
      AcceptFails, RefuseAdmission
<1>2. ASSUME NEW a \in Activation, Transfer(a) PROVE TypeInv'
  BY <1>2 DEF Transfer, Receive, ReceiveFails, VerifiedFails, MarkPublishing,
      MarkPublishingFails, Place, PlaceFails
<1>3. ASSUME NEW a \in Activation, Apply(a) PROVE TypeInv'
  BY <1>3 DEF Apply, MarkApplying, MarkApplyingFails, IndexCandidate,
      IndexCandidateFails, WriteClipboard, WriteClipboardUncertain,
      WriteClipboardFails, Unindex, Discard, Promote, PromoteFails, Evict,
      EvictFails
<1>4. ASSUME NEW a \in Activation, Conclude(a) PROVE TypeInv'
  BY <1>4 DEF Conclude, RemoveStaging, RecordCompletedState,
      RecordCompletedAttempt, Close, FinishFails, MarkUncertain,
      RecordUncertain, UncertainFails
<1>5. ASSUME NEW a \in Activation, Retract(a) PROVE TypeInv'
  BY <1>5 DEF Retract, CleanupStaging, CleanupJournal, CleanupFails,
      LoseRoot, RecordAttempt, DropGuard, DropGuardJournal
<1>6. ASSUME NEW a \in Activation, Leave(a) \/ Activate(a)
      PROVE  TypeInv'
  BY <1>6 DEF Leave, Activate
<1>7. ASSUME NEW a \in Activation, Cancel(a) \/ PurgeCard(a)
      PROVE  TypeInv'
  BY <1>7 DEF Cancel, PurgeCard
<1>8. ASSUME NEW a \in Activation,
             RecoverStaging(a) \/ RecordRecoveredUncertain(a) \/ RecoverCache(a)
      PROVE  TypeInv'
  BY <1>8 DEF RecoverStaging, RecordRecoveredUncertain, RecoverCache,
      Unindexed
<1>9. CASE Start \/ DropRecoveredRows
  BY <1>9 DEF Start, DropRecoveredRows
<1>10. CASE JournalRecovered \/ RecoverFails \/ RecoverDone
  BY <1>10 DEF JournalRecovered, RecoverFails, RecoverDone
<1>11. CASE Stop
  BY <1>11 DEF Stop
<1>12. CASE UNCHANGED vars
  BY <1>12 DEF vars
<1>13. QED
  BY <1>1, <1>2, <1>3, <1>4, <1>5, <1>6, <1>7, <1>8, <1>9, <1>10,
     <1>11, <1>12 DEF Next, Thread, Recover

\* The two AtomicBool flags hold a Boolean.
LEMMA FlagsStep ==
  ASSUME TypeInv, FlagsTypeOK,
         [Next]_vars
  PROVE  FlagsTypeOK'
<1> USE ActivationAssumption DEF FlagsTypeOK, FailTo, flags,
      HasUncertainSideEffect
<1>1. ASSUME NEW a \in Activation, Admit(a) PROVE FlagsTypeOK'
  BY <1>1 DEF Admit, FailConnect, EnterReceiver, ReadPlan, CheckUncertainty,
      CheckUncertaintyFails, RefuseReservation, JournalActivation,
      JournalActivationFails, PrepareStaging, PrepareStagingFails, Accept,
      AcceptFails, RefuseAdmission
<1>2. ASSUME NEW a \in Activation, Transfer(a) PROVE FlagsTypeOK'
  BY <1>2 DEF Transfer, Receive, ReceiveFails, VerifiedFails, MarkPublishing,
      MarkPublishingFails, Place, PlaceFails
<1>3. ASSUME NEW a \in Activation, Apply(a) PROVE FlagsTypeOK'
  BY <1>3 DEF Apply, MarkApplying, MarkApplyingFails, IndexCandidate,
      IndexCandidateFails, WriteClipboard, WriteClipboardUncertain,
      WriteClipboardFails, Unindex, Discard, Promote, PromoteFails, Evict,
      EvictFails
<1>4. ASSUME NEW a \in Activation, Conclude(a) PROVE FlagsTypeOK'
  BY <1>4 DEF Conclude, RemoveStaging, RecordCompletedState,
      RecordCompletedAttempt, Close, FinishFails, MarkUncertain,
      RecordUncertain, UncertainFails
<1>5. ASSUME NEW a \in Activation, Retract(a) PROVE FlagsTypeOK'
  BY <1>5 DEF Retract, CleanupStaging, CleanupJournal, CleanupFails,
      LoseRoot, RecordAttempt, DropGuard, DropGuardJournal
<1>6. ASSUME NEW a \in Activation, Leave(a) \/ Activate(a)
      PROVE  FlagsTypeOK'
  BY <1>6 DEF Leave, Activate
<1>7. ASSUME NEW a \in Activation, Cancel(a) \/ PurgeCard(a)
      PROVE  FlagsTypeOK'
  BY <1>7 DEF Cancel, PurgeCard
<1>8. ASSUME NEW a \in Activation,
             RecoverStaging(a) \/ RecordRecoveredUncertain(a) \/ RecoverCache(a)
      PROVE  FlagsTypeOK'
  BY <1>8 DEF RecoverStaging, RecordRecoveredUncertain, RecoverCache,
      Unindexed
<1>9. CASE Start \/ DropRecoveredRows
  BY <1>9 DEF Start, DropRecoveredRows
<1>10. CASE JournalRecovered \/ RecoverFails \/ RecoverDone
  BY <1>10 DEF JournalRecovered, RecoverFails, RecoverDone
<1>11. CASE Stop
  BY <1>11 DEF Stop
<1>12. CASE UNCHANGED vars
  BY <1>12 DEF vars
<1>13. QED
  BY <1>1, <1>2, <1>3, <1>4, <1>5, <1>6, <1>7, <1>8, <1>9, <1>10,
     <1>11, <1>12 DEF Next, Thread, Recover

\* A thread enters the live set when it starts and leaves it as it ends.
LEMMA RunningStep ==
  ASSUME TypeInv, RunningInv,
         [Next]_vars
  PROVE  RunningInv'
<1> USE ActivationAssumption DEF RunningInv, TypeInv, StateTypeOK,
      JournalState, Attempt, Result, PC, Running, BeforeGate, AfterGate,
      Retracting, Applied, store, disk, flags, aux, FailTo, Fault
<1>1. ASSUME NEW a \in Activation, Admit(a) PROVE RunningInv'
  BY <1>1 DEF Admit, FailConnect, EnterReceiver, ReadPlan, CheckUncertainty,
      CheckUncertaintyFails, RefuseReservation, JournalActivation,
      JournalActivationFails, PrepareStaging, PrepareStagingFails, Accept,
      AcceptFails, RefuseAdmission
<1>2. ASSUME NEW a \in Activation, Transfer(a) PROVE RunningInv'
  BY <1>2 DEF Transfer, Receive, ReceiveFails, VerifiedFails, MarkPublishing,
      MarkPublishingFails, Place, PlaceFails
<1>3. ASSUME NEW a \in Activation, Apply(a) PROVE RunningInv'
  BY <1>3 DEF Apply, MarkApplying, MarkApplyingFails, IndexCandidate,
      IndexCandidateFails, WriteClipboard, WriteClipboardUncertain,
      WriteClipboardFails, Unindex, Discard, Promote, PromoteFails, Evict,
      EvictFails
<1>4. ASSUME NEW a \in Activation, Conclude(a) PROVE RunningInv'
  BY <1>4 DEF Conclude, RemoveStaging, RecordCompletedState,
      RecordCompletedAttempt, Close, FinishFails, MarkUncertain,
      RecordUncertain, UncertainFails
<1>5. ASSUME NEW a \in Activation, Retract(a) PROVE RunningInv'
  BY <1>5 DEF Retract, CleanupStaging, CleanupJournal, CleanupFails,
      LoseRoot, RecordAttempt, DropGuard, DropGuardJournal
<1>6. ASSUME NEW a \in Activation, Leave(a) \/ Activate(a)
      PROVE  RunningInv'
  BY <1>6 DEF Leave, Activate
<1>7. ASSUME NEW a \in Activation, Cancel(a) \/ PurgeCard(a)
      PROVE  RunningInv'
  BY <1>7 DEF Cancel, PurgeCard
<1>8. ASSUME NEW a \in Activation,
             RecoverStaging(a) \/ RecordRecoveredUncertain(a) \/ RecoverCache(a)
      PROVE  RunningInv'
  BY <1>8 DEF RecoverStaging, RecordRecoveredUncertain, RecoverCache,
      Unindexed
<1>9. CASE Start \/ DropRecoveredRows
  BY <1>9 DEF Start, DropRecoveredRows
<1>10. CASE JournalRecovered \/ RecoverFails \/ RecoverDone
  BY <1>10 DEF JournalRecovered, RecoverFails, RecoverDone
<1>11. CASE Stop
  BY <1>11 DEF Stop
<1>12. CASE UNCHANGED vars
  BY <1>12 DEF vars
<1>13. QED
  BY <1>1, <1>2, <1>3, <1>4, <1>5, <1>6, <1>7, <1>8, <1>9, <1>10,
     <1>11, <1>12 DEF Next, Thread, Recover

\* The row is ApplyingClipboard before the write and until completion; no
\* other thread and no recovery step weakens it.
LEMMA EffectStep ==
  ASSUME TypeInv, RunningInv, EffectInv,
         [Next]_vars
  PROVE  EffectInv'
<1> USE ActivationAssumption DEF EffectInv, RunningInv, IsClipboard, IsCached,
      IsUncertainSideEffect, Journaled, TypeInv, StateTypeOK, JournalState,
      Attempt, Result, PC, Running, BeforeGate, AfterGate, Retracting,
      Applied, store, disk, flags, aux, FailTo, Fault
<1>1. ASSUME NEW a \in Activation, Admit(a) PROVE EffectInv'
  BY <1>1 DEF Admit, FailConnect, EnterReceiver, ReadPlan, CheckUncertainty,
      CheckUncertaintyFails, RefuseReservation, JournalActivation,
      JournalActivationFails, PrepareStaging, PrepareStagingFails, Accept,
      AcceptFails, RefuseAdmission
<1>2. ASSUME NEW a \in Activation, Transfer(a) PROVE EffectInv'
  BY <1>2 DEF Transfer, Receive, ReceiveFails, VerifiedFails, MarkPublishing,
      MarkPublishingFails, Place, PlaceFails
<1>3. ASSUME NEW a \in Activation, Apply(a) PROVE EffectInv'
  BY <1>3 DEF Apply, MarkApplying, MarkApplyingFails, IndexCandidate,
      IndexCandidateFails, WriteClipboard, WriteClipboardUncertain,
      WriteClipboardFails, Unindex, Discard, Promote, PromoteFails, Evict,
      EvictFails
<1>4. ASSUME NEW a \in Activation, Conclude(a) PROVE EffectInv'
  BY <1>4 DEF Conclude, RemoveStaging, RecordCompletedState,
      RecordCompletedAttempt, Close, FinishFails, MarkUncertain,
      RecordUncertain, UncertainFails
<1>5. ASSUME NEW a \in Activation, Retract(a) PROVE EffectInv'
  BY <1>5 DEF Retract, CleanupStaging, CleanupJournal, CleanupFails,
      LoseRoot, RecordAttempt, DropGuard, DropGuardJournal
<1>6. ASSUME NEW a \in Activation, Leave(a) \/ Activate(a)
      PROVE  EffectInv'
  BY <1>6 DEF Leave, Activate
<1>7. ASSUME NEW a \in Activation, Cancel(a) \/ PurgeCard(a)
      PROVE  EffectInv'
  BY <1>7 DEF Cancel, PurgeCard
<1>8. ASSUME NEW a \in Activation,
             RecoverStaging(a) \/ RecordRecoveredUncertain(a) \/ RecoverCache(a)
      PROVE  EffectInv'
  BY <1>8 DEF RecoverStaging, RecordRecoveredUncertain, RecoverCache,
      Unindexed
<1>9. CASE Start \/ DropRecoveredRows
  BY <1>9 DEF Start, DropRecoveredRows
<1>10. CASE JournalRecovered \/ RecoverFails \/ RecoverDone
  BY <1>10 DEF JournalRecovered, RecoverFails, RecoverDone
<1>11. CASE Stop
  BY <1>11 DEF Stop
<1>12. CASE UNCHANGED vars
  BY <1>12 DEF vars
<1>13. QED
  BY <1>1, <1>2, <1>3, <1>4, <1>5, <1>6, <1>7, <1>8, <1>9, <1>10,
     <1>11, <1>12 DEF Next, Thread, Recover

\* A row goes only after its tree, except behind a dropped guard.
LEMMA StagingStep ==
  ASSUME TypeInv, RunningInv, EffectInv, StagingInv,
         [Next]_vars
  PROVE  StagingInv'
<1> USE ActivationAssumption DEF StagingInv, EffectInv, RunningInv,
      ResultKnown, Reportable, IsClipboard, IsCached, IsUncertainSideEffect,
      Journaled, TypeInv, StateTypeOK, JournalState, Attempt, Result, PC,
      Running, BeforeGate, AfterGate, Retracting, Applied, store, disk, flags,
      aux, FailTo, Fault
<1>1. ASSUME NEW a \in Activation, Admit(a) PROVE StagingInv'
  BY <1>1 DEF Admit, FailConnect, EnterReceiver, ReadPlan, CheckUncertainty,
      CheckUncertaintyFails, RefuseReservation, JournalActivation,
      JournalActivationFails, PrepareStaging, PrepareStagingFails, Accept,
      AcceptFails, RefuseAdmission
<1>2. ASSUME NEW a \in Activation, Transfer(a) PROVE StagingInv'
  BY <1>2 DEF Transfer, Receive, ReceiveFails, VerifiedFails, MarkPublishing,
      MarkPublishingFails, Place, PlaceFails
<1>3. ASSUME NEW a \in Activation, Apply(a) PROVE StagingInv'
  BY <1>3 DEF Apply, MarkApplying, MarkApplyingFails, IndexCandidate,
      IndexCandidateFails, WriteClipboard, WriteClipboardUncertain,
      WriteClipboardFails, Unindex, Discard, Promote, PromoteFails, Evict,
      EvictFails
<1>4. ASSUME NEW a \in Activation, Conclude(a) PROVE StagingInv'
  BY <1>4 DEF Conclude, RemoveStaging, RecordCompletedState,
      RecordCompletedAttempt, Close, FinishFails, MarkUncertain,
      RecordUncertain, UncertainFails
<1>5. ASSUME NEW a \in Activation, Retract(a) PROVE StagingInv'
  BY <1>5 DEF Retract, CleanupStaging, CleanupJournal, CleanupFails,
      LoseRoot, RecordAttempt, DropGuard, DropGuardJournal
<1>6. ASSUME NEW a \in Activation, Leave(a) \/ Activate(a)
      PROVE  StagingInv'
  BY <1>6 DEF Leave, Activate
<1>7. ASSUME NEW a \in Activation, Cancel(a) \/ PurgeCard(a)
      PROVE  StagingInv'
  BY <1>7 DEF Cancel, PurgeCard
<1>8. ASSUME NEW a \in Activation,
             RecoverStaging(a) \/ RecordRecoveredUncertain(a) \/ RecoverCache(a)
      PROVE  StagingInv'
  BY <1>8 DEF RecoverStaging, RecordRecoveredUncertain, RecoverCache,
      Unindexed
<1>9. CASE Start \/ DropRecoveredRows
  BY <1>9 DEF Start, DropRecoveredRows
<1>10. CASE JournalRecovered \/ RecoverFails \/ RecoverDone
  BY <1>10 DEF JournalRecovered, RecoverFails, RecoverDone
<1>11. CASE Stop
  BY <1>11 DEF Stop
<1>12. CASE UNCHANGED vars
  BY <1>12 DEF vars
<1>13. QED
  BY <1>1, <1>2, <1>3, <1>4, <1>5, <1>6, <1>7, <1>8, <1>9, <1>10,
     <1>11, <1>12 DEF Next, Thread, Recover

\* UncertainNoReplay is written last, or by recovery for a dead thread.
LEMMA UncertainStep ==
  ASSUME TypeInv, RunningInv, UncertainInv,
         [Next]_vars
  PROVE  UncertainInv'
<1> USE ActivationAssumption DEF UncertainInv, RunningInv,
      IsUncertainSideEffect, Journaled, TypeInv, StateTypeOK, JournalState,
      Attempt, Result, PC, Running, BeforeGate, AfterGate, Retracting,
      Applied, store, disk, flags, aux, FailTo, Fault
<1>1. ASSUME NEW a \in Activation, Admit(a) PROVE UncertainInv'
  BY <1>1 DEF Admit, FailConnect, EnterReceiver, ReadPlan, CheckUncertainty,
      CheckUncertaintyFails, RefuseReservation, JournalActivation,
      JournalActivationFails, PrepareStaging, PrepareStagingFails, Accept,
      AcceptFails, RefuseAdmission
<1>2. ASSUME NEW a \in Activation, Transfer(a) PROVE UncertainInv'
  BY <1>2 DEF Transfer, Receive, ReceiveFails, VerifiedFails, MarkPublishing,
      MarkPublishingFails, Place, PlaceFails
<1>3. ASSUME NEW a \in Activation, Apply(a) PROVE UncertainInv'
  BY <1>3 DEF Apply, MarkApplying, MarkApplyingFails, IndexCandidate,
      IndexCandidateFails, WriteClipboard, WriteClipboardUncertain,
      WriteClipboardFails, Unindex, Discard, Promote, PromoteFails, Evict,
      EvictFails
<1>4. ASSUME NEW a \in Activation, Conclude(a) PROVE UncertainInv'
  BY <1>4 DEF Conclude, RemoveStaging, RecordCompletedState,
      RecordCompletedAttempt, Close, FinishFails, MarkUncertain,
      RecordUncertain, UncertainFails
<1>5. ASSUME NEW a \in Activation, Retract(a) PROVE UncertainInv'
  BY <1>5 DEF Retract, CleanupStaging, CleanupJournal, CleanupFails,
      LoseRoot, RecordAttempt, DropGuard, DropGuardJournal
<1>6. ASSUME NEW a \in Activation, Leave(a) \/ Activate(a)
      PROVE  UncertainInv'
  BY <1>6 DEF Leave, Activate
<1>7. ASSUME NEW a \in Activation, Cancel(a) \/ PurgeCard(a)
      PROVE  UncertainInv'
  BY <1>7 DEF Cancel, PurgeCard
<1>8. ASSUME NEW a \in Activation,
             RecoverStaging(a) \/ RecordRecoveredUncertain(a) \/ RecoverCache(a)
      PROVE  UncertainInv'
  BY <1>8 DEF RecoverStaging, RecordRecoveredUncertain, RecoverCache,
      Unindexed
<1>9. CASE Start \/ DropRecoveredRows
  BY <1>9 DEF Start, DropRecoveredRows
<1>10. CASE JournalRecovered \/ RecoverFails \/ RecoverDone
  BY <1>10 DEF JournalRecovered, RecoverFails, RecoverDone
<1>11. CASE Stop
  BY <1>11 DEF Stop
<1>12. CASE UNCHANGED vars
  BY <1>12 DEF vars
<1>13. QED
  BY <1>1, <1>2, <1>3, <1>4, <1>5, <1>6, <1>7, <1>8, <1>9, <1>10,
     <1>11, <1>12 DEF Next, Thread, Recover

\* A thread leaves residue only with the flag set or the row uncertain, and
\* recovery ends only when every row left is uncertain.
LEMMA ResidueStep ==
  ASSUME TypeInv, RunningInv, StagingInv, UncertainInv, ResidueInv,
         [Next]_vars
  PROVE  ResidueInv'
<1> USE ActivationAssumption DEF ResidueInv, FlagsTypeOK, UncertainInv,
      StagingInv, Holding, RunningInv, IsUncertainSideEffect, Journaled,
      TypeInv, StateTypeOK, JournalState, Attempt, Result, PC, Running,
      BeforeGate, AfterGate, Retracting, Applied, store, disk, flags, aux,
      FailTo, Fault
<1>1. ASSUME NEW a \in Activation, Admit(a) PROVE ResidueInv'
  BY <1>1 DEF Admit, FailConnect, EnterReceiver, ReadPlan, CheckUncertainty,
      CheckUncertaintyFails, RefuseReservation, JournalActivation,
      JournalActivationFails, PrepareStaging, PrepareStagingFails, Accept,
      AcceptFails, RefuseAdmission
<1>2. ASSUME NEW a \in Activation, Transfer(a) PROVE ResidueInv'
  BY <1>2 DEF Transfer, Receive, ReceiveFails, VerifiedFails, MarkPublishing,
      MarkPublishingFails, Place, PlaceFails
<1>3. ASSUME NEW a \in Activation, Apply(a) PROVE ResidueInv'
  BY <1>3 DEF Apply, MarkApplying, MarkApplyingFails, IndexCandidate,
      IndexCandidateFails, WriteClipboard, WriteClipboardUncertain,
      WriteClipboardFails, Unindex, Discard, Promote, PromoteFails, Evict,
      EvictFails
<1>4. ASSUME NEW a \in Activation, Conclude(a) PROVE ResidueInv'
  BY <1>4 DEF Conclude, RemoveStaging, RecordCompletedState,
      RecordCompletedAttempt, Close, FinishFails, MarkUncertain,
      RecordUncertain, UncertainFails
<1>5. ASSUME NEW a \in Activation, Retract(a) PROVE ResidueInv'
  <2>1. CASE CleanupStaging(a)
    BY <2>1 DEF CleanupStaging
  <2>2. CASE CleanupJournal(a)
    BY <2>2 DEF CleanupJournal
  <2>3. CASE CleanupFails(a)
    BY <2>3 DEF CleanupFails
  <2>4. CASE RecordAttempt(a)
    BY <2>4 DEF RecordAttempt
  <2>5. CASE DropGuard(a)
    BY <2>5 DEF DropGuard
  <2>6. CASE DropGuardJournal(a)
    <3>1. ~cleanupBlocked' => ~cleanupBlocked
      BY <2>6, Zenon DEF DropGuardJournal
    <3>2. /\ proc = "up"
          /\ UNCHANGED <<proc, staging, leaked>>
          /\ a \notin staging \ leaked
          /\ \A b \in Activation \ {a} : pc'[b] = pc[b] /\ journal'[b] = journal[b]
      BY <2>6 DEF DropGuardJournal
    <3>3. QED BY <3>1, <3>2
  <2>7. CASE LoseRoot(a)
    BY <2>7 DEF LoseRoot
  <2>8. QED BY <1>5, <2>1, <2>2, <2>3, <2>4, <2>5, <2>6, <2>7 DEF Retract
<1>6. ASSUME NEW a \in Activation, Leave(a) \/ Activate(a)
      PROVE  ResidueInv'
  BY <1>6 DEF Leave, Activate
<1>7. ASSUME NEW a \in Activation, Cancel(a) \/ PurgeCard(a)
      PROVE  ResidueInv'
  BY <1>7 DEF Cancel, PurgeCard
<1>8. ASSUME NEW a \in Activation,
             RecoverStaging(a) \/ RecordRecoveredUncertain(a) \/ RecoverCache(a)
      PROVE  ResidueInv'
  BY <1>8 DEF RecoverStaging, RecordRecoveredUncertain, RecoverCache,
      Unindexed
<1>9. CASE Start \/ DropRecoveredRows
  BY <1>9 DEF Start, DropRecoveredRows
<1>10. CASE JournalRecovered \/ RecoverFails \/ RecoverDone
  BY <1>10 DEF JournalRecovered, RecoverFails, RecoverDone
<1>11. CASE Stop
  BY <1>11 DEF Stop
<1>12. CASE UNCHANGED vars
  BY <1>12 DEF vars
<1>13. QED
  BY <1>1, <1>2, <1>3, <1>4, <1>5, <1>6, <1>7, <1>8, <1>9, <1>10,
     <1>11, <1>12 DEF Next, Thread, Recover

\* A thread is promoted once, so what is evicted is never completed again.
LEMMA CacheStep ==
  ASSUME TypeInv, RunningInv, EffectInv, CacheInv,
         [Next]_vars
  PROVE  CacheInv'
<1> USE ActivationAssumption DEF CacheInv, Promoted, EffectInv, RunningInv,
      IsClipboard, IsCached, TypeInv, StateTypeOK, JournalState, Attempt,
      Result, PC, Running, BeforeGate, AfterGate, Retracting, Applied, store,
      disk, flags, aux, FailTo, Fault
<1>1. ASSUME NEW a \in Activation, Admit(a) PROVE CacheInv'
  BY <1>1 DEF Admit, FailConnect, EnterReceiver, ReadPlan, CheckUncertainty,
      CheckUncertaintyFails, RefuseReservation, JournalActivation,
      JournalActivationFails, PrepareStaging, PrepareStagingFails, Accept,
      AcceptFails, RefuseAdmission
<1>2. ASSUME NEW a \in Activation, Transfer(a) PROVE CacheInv'
  BY <1>2 DEF Transfer, Receive, ReceiveFails, VerifiedFails, MarkPublishing,
      MarkPublishingFails, Place, PlaceFails
<1>3. ASSUME NEW a \in Activation, Apply(a) PROVE CacheInv'
  BY <1>3 DEF Apply, MarkApplying, MarkApplyingFails, IndexCandidate,
      IndexCandidateFails, WriteClipboard, WriteClipboardUncertain,
      WriteClipboardFails, Unindex, Discard, Promote, PromoteFails, Evict,
      EvictFails
<1>4. ASSUME NEW a \in Activation, Conclude(a) PROVE CacheInv'
  BY <1>4 DEF Conclude, RemoveStaging, RecordCompletedState,
      RecordCompletedAttempt, Close, FinishFails, MarkUncertain,
      RecordUncertain, UncertainFails
<1>5. ASSUME NEW a \in Activation, Retract(a) PROVE CacheInv'
  BY <1>5 DEF Retract, CleanupStaging, CleanupJournal, CleanupFails,
      LoseRoot, RecordAttempt, DropGuard, DropGuardJournal
<1>6. ASSUME NEW a \in Activation, Leave(a) \/ Activate(a)
      PROVE  CacheInv'
  BY <1>6 DEF Leave, Activate
<1>7. ASSUME NEW a \in Activation, Cancel(a) \/ PurgeCard(a)
      PROVE  CacheInv'
  BY <1>7 DEF Cancel, PurgeCard
<1>8. ASSUME NEW a \in Activation,
             RecoverStaging(a) \/ RecordRecoveredUncertain(a) \/ RecoverCache(a)
      PROVE  CacheInv'
  BY <1>8 DEF RecoverStaging, RecordRecoveredUncertain, RecoverCache,
      Unindexed
<1>9. CASE Start \/ DropRecoveredRows
  BY <1>9 DEF Start, DropRecoveredRows
<1>10. CASE JournalRecovered \/ RecoverFails \/ RecoverDone
  BY <1>10 DEF JournalRecovered, RecoverFails, RecoverDone
<1>11. CASE Stop
  BY <1>11 DEF Stop
<1>12. CASE UNCHANGED vars
  BY <1>12 DEF vars
<1>13. QED
  BY <1>1, <1>2, <1>3, <1>4, <1>5, <1>6, <1>7, <1>8, <1>9, <1>10,
     <1>11, <1>12 DEF Next, Thread, Recover

\* A thread passes the gate only while no row is uncertain, and the row of a
\* dead thread stays uncertain.
LEMMA GateStep ==
  ASSUME TypeInv, UncertaintySurvivesRestart,
         [Next]_vars
  PROVE  UncertaintySurvivesRestart'
<1> USE ActivationAssumption DEF UncertaintySurvivesRestart,
      HasUncertainSideEffect, IsClipboard, IsUncertainSideEffect, TypeInv,
      StateTypeOK, JournalState, Attempt, Result, PC, Running, BeforeGate,
      AfterGate, Retracting, Applied, store, disk, flags, aux, FailTo, Fault
<1>1. ASSUME NEW a \in Activation, Admit(a) PROVE UncertaintySurvivesRestart'
  BY <1>1 DEF Admit, FailConnect, EnterReceiver, ReadPlan, CheckUncertainty,
      CheckUncertaintyFails, RefuseReservation, JournalActivation,
      JournalActivationFails, PrepareStaging, PrepareStagingFails, Accept,
      AcceptFails, RefuseAdmission
<1>2. ASSUME NEW a \in Activation, Transfer(a) PROVE UncertaintySurvivesRestart'
  BY <1>2 DEF Transfer, Receive, ReceiveFails, VerifiedFails, MarkPublishing,
      MarkPublishingFails, Place, PlaceFails
<1>3. ASSUME NEW a \in Activation, Apply(a) PROVE UncertaintySurvivesRestart'
  BY <1>3 DEF Apply, MarkApplying, MarkApplyingFails, IndexCandidate,
      IndexCandidateFails, WriteClipboard, WriteClipboardUncertain,
      WriteClipboardFails, Unindex, Discard, Promote, PromoteFails, Evict,
      EvictFails
<1>4. ASSUME NEW a \in Activation, Conclude(a) PROVE UncertaintySurvivesRestart'
  BY <1>4 DEF Conclude, RemoveStaging, RecordCompletedState,
      RecordCompletedAttempt, Close, FinishFails, MarkUncertain,
      RecordUncertain, UncertainFails
<1>5. ASSUME NEW a \in Activation, Retract(a) PROVE UncertaintySurvivesRestart'
  BY <1>5 DEF Retract, CleanupStaging, CleanupJournal, CleanupFails,
      LoseRoot, RecordAttempt, DropGuard, DropGuardJournal
<1>6. ASSUME NEW a \in Activation, Leave(a) \/ Activate(a)
      PROVE  UncertaintySurvivesRestart'
  BY <1>6 DEF Leave, Activate
<1>7. ASSUME NEW a \in Activation, Cancel(a) \/ PurgeCard(a)
      PROVE  UncertaintySurvivesRestart'
  BY <1>7 DEF Cancel, PurgeCard
<1>8. ASSUME NEW a \in Activation,
             RecoverStaging(a) \/ RecordRecoveredUncertain(a) \/ RecoverCache(a)
      PROVE  UncertaintySurvivesRestart'
  BY <1>8 DEF RecoverStaging, RecordRecoveredUncertain, RecoverCache,
      Unindexed
<1>9. CASE Start \/ DropRecoveredRows
  BY <1>9 DEF Start, DropRecoveredRows
<1>10. CASE JournalRecovered \/ RecoverFails \/ RecoverDone
  BY <1>10 DEF JournalRecovered, RecoverFails, RecoverDone
<1>11. CASE Stop
  BY <1>11 DEF Stop
<1>12. CASE UNCHANGED vars
  BY <1>12 DEF vars
<1>13. QED
  BY <1>1, <1>2, <1>3, <1>4, <1>5, <1>6, <1>7, <1>8, <1>9, <1>10,
     <1>11, <1>12 DEF Next, Thread, Recover

\* The live set is finite and within the limit.
CountInv == IsFiniteSet(live) /\ Cardinality(live) <= MaxConcurrent

\* The live set grows only in Activate, below the limit.
LEMMA CountStep ==
  ASSUME TypeInv, CountInv, [Next]_vars
  PROVE  CountInv'
<1> USE ActivationAssumption DEF CountInv
<1>1. ASSUME NEW a \in Activation, Activate(a) PROVE CountInv'
  <2>1. /\ live' = live \cup {a}
        /\ Cardinality(live) < MaxConcurrent
    BY <1>1 DEF Activate
  <2>2. /\ IsFiniteSet(live \cup {a})
        /\ Cardinality(live \cup {a}) \in {Cardinality(live), Cardinality(live) + 1}
    BY FS_AddElement
  <2>3. Cardinality(live) \in Nat
    BY FS_CardinalityType
  <2>4. QED BY <2>1, <2>2, <2>3
<1>2. ASSUME NEW a \in Activation, Leave(a) PROVE CountInv'
  <2>1. live' = live \ {a}
    BY <1>2 DEF Leave
  <2>2. /\ IsFiniteSet(live \ {a})
        /\ Cardinality(live \ {a}) \in {Cardinality(live), Cardinality(live) - 1}
    BY FS_RemoveElement
  <2>3. Cardinality(live) \in Nat
    BY FS_CardinalityType
  <2>4. QED BY <2>1, <2>2, <2>3
<1>3. CASE Stop
  BY <1>3, FS_EmptySet DEF Stop
<1>4. CASE UNCHANGED live
  BY <1>4
<1>5. ASSUME NEW a \in Activation, Admit(a) PROVE UNCHANGED live
  BY <1>5 DEF Admit, FailTo, FailConnect, EnterReceiver, ReadPlan,
      CheckUncertainty, CheckUncertaintyFails, RefuseReservation,
      JournalActivation, JournalActivationFails, PrepareStaging,
      PrepareStagingFails, Accept, AcceptFails, RefuseAdmission
<1>6. ASSUME NEW a \in Activation, Transfer(a) PROVE UNCHANGED live
  BY <1>6 DEF Transfer, FailTo, Receive, ReceiveFails, VerifiedFails,
      MarkPublishing, MarkPublishingFails, Place, PlaceFails
<1>7. ASSUME NEW a \in Activation, Apply(a) PROVE UNCHANGED live
  BY <1>7 DEF Apply, FailTo, MarkApplying, MarkApplyingFails, IndexCandidate,
      IndexCandidateFails, WriteClipboard, WriteClipboardUncertain,
      WriteClipboardFails, Unindex, Discard, Promote, PromoteFails, Evict,
      EvictFails
<1>8. ASSUME NEW a \in Activation, Conclude(a) \/ Retract(a) PROVE UNCHANGED live
  BY <1>8 DEF Conclude, FailTo, RemoveStaging, RecordCompletedState,
      RecordCompletedAttempt, Close, FinishFails, MarkUncertain,
      RecordUncertain, UncertainFails, Retract, CleanupStaging,
      CleanupJournal, CleanupFails, LoseRoot, RecordAttempt, DropGuard, DropGuardJournal
<1>9. ASSUME NEW a \in Activation, Cancel(a) \/ PurgeCard(a)
      PROVE  UNCHANGED live
  BY <1>9 DEF Cancel, PurgeCard
<1>10. CASE Recover
  BY <1>4, <1>10 DEF Recover, Start, DropRecoveredRows, JournalRecovered,
      RecoverFails, RecoverDone, RecoverStaging, RecordRecoveredUncertain,
      RecoverCache
<1>11. CASE UNCHANGED vars
  BY <1>4, <1>11 DEF vars
<1>12. QED
  BY <1>1, <1>2, <1>3, <1>4, <1>5, <1>6, <1>7, <1>8, <1>9, <1>10, <1>11
     DEF Next, Thread

\* No step takes an uncertain row away.
LEMMA FinalStep ==
  ASSUME TypeInv, RunningInv, UncertainInv,
         [Next]_vars
  PROVE  UncertainRowsKept
<1> USE ActivationAssumption DEF UncertainRowsKept, UncertainInv, RunningInv,
      IsUncertainSideEffect, TypeInv, StateTypeOK, JournalState, Attempt,
      Result, PC, Running, BeforeGate, AfterGate, Retracting, Applied, store,
      disk, flags, aux, FailTo, Fault
<1>1. ASSUME NEW a \in Activation, Admit(a) PROVE UncertainRowsKept
  BY <1>1 DEF Admit, FailConnect, EnterReceiver, ReadPlan, CheckUncertainty,
      CheckUncertaintyFails, RefuseReservation, JournalActivation,
      JournalActivationFails, PrepareStaging, PrepareStagingFails, Accept,
      AcceptFails, RefuseAdmission
<1>2. ASSUME NEW a \in Activation, Transfer(a) PROVE UncertainRowsKept
  BY <1>2 DEF Transfer, Receive, ReceiveFails, VerifiedFails, MarkPublishing,
      MarkPublishingFails, Place, PlaceFails
<1>3. ASSUME NEW a \in Activation, Apply(a) PROVE UncertainRowsKept
  BY <1>3 DEF Apply, MarkApplying, MarkApplyingFails, IndexCandidate,
      IndexCandidateFails, WriteClipboard, WriteClipboardUncertain,
      WriteClipboardFails, Unindex, Discard, Promote, PromoteFails, Evict,
      EvictFails
<1>4. ASSUME NEW a \in Activation, Conclude(a) PROVE UncertainRowsKept
  BY <1>4 DEF Conclude, RemoveStaging, RecordCompletedState,
      RecordCompletedAttempt, Close, FinishFails, MarkUncertain,
      RecordUncertain, UncertainFails
<1>5. ASSUME NEW a \in Activation, Retract(a) PROVE UncertainRowsKept
  BY <1>5 DEF Retract, CleanupStaging, CleanupJournal, CleanupFails,
      LoseRoot, RecordAttempt, DropGuard, DropGuardJournal
<1>6. ASSUME NEW a \in Activation, Leave(a) \/ Activate(a)
      PROVE  UncertainRowsKept
  BY <1>6 DEF Leave, Activate
<1>7. ASSUME NEW a \in Activation, Cancel(a) \/ PurgeCard(a)
      PROVE  UncertainRowsKept
  BY <1>7 DEF Cancel, PurgeCard
<1>8. ASSUME NEW a \in Activation,
             RecoverStaging(a) \/ RecordRecoveredUncertain(a) \/ RecoverCache(a)
      PROVE  UncertainRowsKept
  BY <1>8 DEF RecoverStaging, RecordRecoveredUncertain, RecoverCache,
      Unindexed
<1>9. CASE Start \/ DropRecoveredRows
  BY <1>9 DEF Start, DropRecoveredRows
<1>10. CASE JournalRecovered \/ RecoverFails \/ RecoverDone
  BY <1>10 DEF JournalRecovered, RecoverFails, RecoverDone
<1>11. CASE Stop
  BY <1>11 DEF Stop
<1>12. CASE UNCHANGED vars
  BY <1>12 DEF vars
<1>13. QED
  BY <1>1, <1>2, <1>3, <1>4, <1>5, <1>6, <1>7, <1>8, <1>9, <1>10,
     <1>11, <1>12 DEF Next, Thread, Recover

-----------------------------------------------------------------------------
(* The inductive invariant and the theorems.                               *)

\* The inductive invariant.
IInv ==
  /\ TypeInv /\ FlagsTypeOK /\ RunningInv /\ EffectInv /\ StagingInv
  /\ UncertainInv /\ ResidueInv /\ CacheInv /\ UncertaintySurvivesRestart
  /\ CountInv

\* It holds initially ...
LEMMA InitIInv == Init => IInv
<1> SUFFICES ASSUME Init PROVE IInv
  OBVIOUS
<1> USE ActivationAssumption DEF Init
<1>1. TypeInv
  BY DEF TypeInv, StateTypeOK, ResultKnown, JournalState, Attempt, Result, PC
<1>2. FlagsTypeOK
  BY DEF FlagsTypeOK
<1>3. RunningInv
  BY DEF RunningInv, Running, BeforeGate, AfterGate, Retracting, Applied
<1>4. EffectInv /\ UncertainInv /\ UncertaintySurvivesRestart
  BY DEF EffectInv, UncertainInv, UncertaintySurvivesRestart
<1>5. StagingInv /\ ResidueInv /\ CacheInv
  BY DEF StagingInv, ResidueInv, CacheInv
<1>6. CountInv
  BY FS_EmptySet DEF CountInv
<1>7. QED
  BY <1>1, <1>2, <1>3, <1>4, <1>5, <1>6 DEF IInv

\* ... and every step of Next preserves it.
LEMMA StepIInv == IInv /\ [Next]_vars => IInv'
  BY TypeStep, FlagsStep, RunningStep, EffectStep, StagingStep, UncertainStep,
     ResidueStep, CacheStep, GateStep, CountStep DEF IInv

\* The parts above hold in every reachable state.
THEOREM Invariance == Spec => []IInv
<1>1. QED
  BY InitIInv, StepIInv, PTL DEF Spec

\* For every instance: types are kept by every step of every thread, of recovery and of a crash.
THEOREM TypeCorrect == Spec => []TypeOK
<1>1. IInv => TypeOK
  BY DEF IInv, TypeInv, TypeOK
<1>2. QED
  BY <1>1, Invariance, PTL

\* For every instance: the live set is exactly the running threads, within the limit: no exit
\* path of the receiver leaks a slot.
THEOREM LiveIsExact == Spec => []LiveIsRunning
<1>1. IInv => LiveIsRunning
  BY DEF IInv, RunningInv, CountInv, LiveIsRunning
<1>2. QED
  BY <1>1, Invariance, PTL

\* For every instance: no payload reaches the clipboard without a durable row that says so.
THEOREM ClipboardWriteAhead == Spec => []WriteAhead
<1>1. IInv => WriteAhead
  BY DEF IInv, TypeInv, StateTypeOK, EffectInv, WriteAhead
<1>2. QED
  BY <1>1, Invariance, PTL

\* For every instance: no staging directory without a row, the dropped guard's excepted.
THEOREM StagingWriteAhead == Spec => []StagingOwned
<1>1. IInv => StagingOwned
  BY DEF IInv, StagingInv, StagingOwned
<1>2. QED
  BY <1>1, Invariance, PTL

\* For every instance: an uncertain clipboard application of a dead process keeps every later
\* clipboard activation out.
THEOREM NoReplayAfterRestart == Spec => []UncertaintySurvivesRestart
<1>1. IInv => UncertaintySurvivesRestart
  BY DEF IInv, UncertaintySurvivesRestart
<1>2. QED
  BY <1>1, Invariance, PTL

\* For every instance: the completed cache object is never evicted or swept away.
THEOREM CompletedObjectKept == Spec => []CompletedIsOnDisk
<1>1. IInv => CompletedIsOnDisk
  BY DEF IInv, CacheInv, CompletedIsOnDisk
<1>2. QED
  BY <1>1, Invariance, PTL

\* For every instance: leftover staging is under an uncertain row or admission is blocked.
THEOREM ResidueIsAccounted == Spec => []NoResidue
<1>1. IInv => NoResidue
  BY DEF IInv, RunningInv, ResidueInv, Holding, Running, AfterGate, Retracting,
     Applied, NoResidue, TypeInv, StateTypeOK
<1>2. QED
  BY <1>1, Invariance, PTL

\* For every instance: a card that says Completed tells the truth.
THEOREM CompletedIsTrue == Spec => []CompletedMeansApplied
<1>1. IInv => CompletedMeansApplied
  BY DEF IInv, StagingInv, CompletedMeansApplied
<1>2. QED
  BY <1>1, Invariance, PTL

\* For every instance: the record of an uncertain side effect is never taken
\* back, by any thread, recovery or restart.
THEOREM UncertainStaysRecorded == Spec => UncertainIsFinal
<1>1. IInv /\ [Next]_vars => [UncertainRowsKept]_vars
  BY FinalStep DEF IInv
<1>2. QED
  BY <1>1, Invariance, PTL DEF Spec, UncertainIsFinal

-----------------------------------------------------------------------------
(* What holds of activations that did not overlap with another one.        *)

\* Where a file or folder is on its way to the clipboard and into the index.
Engaged  == AfterGate \cup {"unindex", "promote", "evict"}
Entering == AfterGate \ {"write"}

\* Two files or folders are engaged together only if they are known to overlap:
\* the gate stays shut from the row of the first application until it ends.
RivalInv ==
  \A a \in Activation :
    /\ pc[a] \in {"unindex", "discard"} => IsCached(a)
    /\ pc[a] = "unindex" => journal[a] = "ApplyingClipboard"
    /\ IsCached(a) /\ pc[a] \in Engaged =>
         \A b \in Activation \ {a} : IsCached(b) /\ pc[b] \in Engaged => a \in overlapped

\* An engaged thread found the slot empty and every application settled.  What
\* has changed since was done by itself or by one that overlaps.
OwnerInv ==
  \A a \in Activation :
    IsCached(a) /\ pc[a] \in Engaged =>
      /\ inFlight \in overlapped \cup {None, a}
      /\ pc[a] \in Entering /\ a \notin overlapped => inFlight = None
      /\ pc[a] \in {"write", "unindex", "promote"} /\ a \notin overlapped => inFlight = a
      /\ \A b \in wrote \ {a} : IsCached(b) => b \in settled \cup overlapped
      /\ pc[a] \in {"promote", "evict"} /\ clip # None /\ IsCached(clip) =>
           clip \in overlapped \cup {a}

\* What the clipboard may point at, and every candidate whose fate is open, is
\* indexed and on disk.
KeepInv ==
  /\ clip # None => clip \in wrote
  /\ \A a \in Activation :
       IsCached(a) /\ a \notin overlapped /\ (a = clip \/ a \in wrote \ settled) =>
         a \in {completed, inFlight} /\ a \in cache

\* The objects a running thread is placing, discarding or evicting, and those
\* that nobody accounts for.
InHand == {a \in Activation : \/ pc[a] \in {"apply", "index", "discard"}
                              \/ \E b \in Activation : pc[b] = "evict" /\ prev[b] = a}
Stray  == cache \ ({completed, inFlight} \cup overlapped \cup InHand)

\* A serving process has at most one of these for each failure so far.
StrayInv ==
  /\ \A a \in cache : IsCached(a)
  /\ faults \in Nat
  /\ proc = "up" => IsFiniteSet(Stray) /\ Cardinality(Stray) <= faults

SoleInv == RivalInv /\ OwnerInv /\ KeepInv /\ StrayInv

\* Only the gate lets a thread in, and it is shut while a row is uncertain.
LEMMA RivalStep ==
  ASSUME TypeInv, RunningInv, EffectInv, RivalInv,
         [Next]_vars
  PROVE  RivalInv'
<1> USE ActivationAssumption DEF RivalInv, Engaged, EffectInv,
      RunningInv, IsClipboard, IsCached, IsUncertainSideEffect, JournalState,
      TypeInv, StateTypeOK,
      PC, Running, BeforeGate, AfterGate, Retracting, Applied, store, disk,
      flags, aux, FailTo, Fault
<1>1. ASSUME NEW a \in Activation, Admit(a) PROVE RivalInv'
  <2>1. CASE CheckUncertainty(a)
    BY <2>1 DEF CheckUncertainty, Rivals, HasUncertainSideEffect
  <2>2. CASE ~CheckUncertainty(a)
    BY <1>1, <2>2 DEF Admit, FailConnect, EnterReceiver, ReadPlan,
      CheckUncertaintyFails, RefuseReservation, JournalActivation,
      JournalActivationFails, PrepareStaging, PrepareStagingFails, Accept,
      AcceptFails, RefuseAdmission
  <2>3. QED BY <2>1, <2>2
<1>2. ASSUME NEW a \in Activation, Transfer(a) PROVE RivalInv'
  BY <1>2 DEF Transfer, Receive, ReceiveFails, VerifiedFails, MarkPublishing,
      MarkPublishingFails, Place, PlaceFails
<1>3. ASSUME NEW a \in Activation, Apply(a) PROVE RivalInv'
  <2>1. CASE MarkApplying(a)
    BY <2>1 DEF MarkApplying
  <2>2. CASE MarkApplyingFails(a)
    BY <2>2 DEF MarkApplyingFails
  <2>3. CASE IndexCandidate(a)
    BY <2>3 DEF IndexCandidate
  <2>4. CASE IndexCandidateFails(a)
    BY <2>4 DEF IndexCandidateFails
  <2>5. CASE WriteClipboard(a)
    BY <2>5 DEF WriteClipboard
  <2>6. CASE WriteClipboardUncertain(a)
    BY <2>6 DEF WriteClipboardUncertain
  <2>7. CASE WriteClipboardFails(a)
    BY <2>7 DEF WriteClipboardFails
  <2>8. CASE Unindex(a)
    BY <2>8 DEF Unindex
  <2>9. CASE Discard(a)
    BY <2>9 DEF Discard
  <2>10. CASE Promote(a)
    BY <2>10 DEF Promote
  <2>11. CASE PromoteFails(a)
    BY <2>11 DEF PromoteFails
  <2>12. CASE Evict(a)
    BY <2>12 DEF Evict
  <2>13. CASE EvictFails(a)
    BY <2>13 DEF EvictFails
  <2>14. QED
    BY <1>3, <2>1, <2>2, <2>3, <2>4, <2>5, <2>6, <2>7, <2>8,
       <2>9, <2>10, <2>11, <2>12, <2>13 DEF Apply
<1>4. ASSUME NEW a \in Activation, Conclude(a) PROVE RivalInv'
  BY <1>4 DEF Conclude, RemoveStaging, RecordCompletedState,
      RecordCompletedAttempt, Close, FinishFails, MarkUncertain,
      RecordUncertain, UncertainFails
<1>5. ASSUME NEW a \in Activation, Retract(a) PROVE RivalInv'
  BY <1>5 DEF Retract, CleanupStaging, CleanupJournal, CleanupFails,
      LoseRoot, RecordAttempt, DropGuard, DropGuardJournal
<1>6. ASSUME NEW a \in Activation,
             Leave(a) \/ Activate(a)
      PROVE  RivalInv'
  BY <1>6 DEF Leave, Activate
<1>7. ASSUME NEW a \in Activation, Cancel(a) \/ PurgeCard(a)
      PROVE  RivalInv'
  BY <1>7 DEF Cancel, PurgeCard
<1>8. ASSUME NEW a \in Activation,
             RecoverStaging(a) \/ RecordRecoveredUncertain(a) \/ RecoverCache(a)
      PROVE  RivalInv'
  BY <1>8 DEF RecoverStaging, RecordRecoveredUncertain, RecoverCache,
      Unindexed
<1>9. CASE Start \/ DropRecoveredRows
  BY <1>9 DEF Start, DropRecoveredRows
<1>10. CASE JournalRecovered \/ RecoverFails \/ RecoverDone
  BY <1>10 DEF JournalRecovered, RecoverFails, RecoverDone, Unindexed
<1>11. CASE Stop
  BY <1>11 DEF Stop
<1>12. CASE UNCHANGED vars
  BY <1>12 DEF vars
<1>13. QED
  BY <1>1, <1>2, <1>3, <1>4, <1>5, <1>6, <1>7, <1>8, <1>9, <1>10,
     <1>11, <1>12 DEF Next, Thread, Recover

\* A thread passes the gate only when slot and rows are settled, and nobody
\* but engaged threads, which overlap, changes them.
LEMMA OwnerStep ==
  ASSUME TypeInv, RunningInv, EffectInv, RivalInv, OwnerInv,
         [Next]_vars
  PROVE  OwnerInv'
<1> USE ActivationAssumption DEF OwnerInv, RivalInv, Engaged, Entering, EffectInv,
      RunningInv, IsClipboard, IsCached, IsUncertainSideEffect, JournalState,
      TypeInv, StateTypeOK,
      PC, Running, BeforeGate, AfterGate, Retracting, Applied, store, disk,
      flags, aux, FailTo, Fault
<1>1. ASSUME NEW a \in Activation, Admit(a) PROVE OwnerInv'
  <2>1. CASE CheckUncertainty(a)
    BY <2>1 DEF CheckUncertainty, Rivals, HasUncertainSideEffect
  <2>2. CASE ~CheckUncertainty(a)
    BY <1>1, <2>2 DEF Admit, FailConnect, EnterReceiver, ReadPlan,
      CheckUncertaintyFails, RefuseReservation, JournalActivation,
      JournalActivationFails, PrepareStaging, PrepareStagingFails, Accept,
      AcceptFails, RefuseAdmission
  <2>3. QED BY <2>1, <2>2
<1>2. ASSUME NEW a \in Activation, Transfer(a) PROVE OwnerInv'
  BY <1>2 DEF Transfer, Receive, ReceiveFails, VerifiedFails, MarkPublishing,
      MarkPublishingFails, Place, PlaceFails
<1>3. ASSUME NEW a \in Activation, Apply(a) PROVE OwnerInv'
  <2>1. CASE MarkApplying(a)
    BY <2>1 DEF MarkApplying
  <2>2. CASE MarkApplyingFails(a)
    BY <2>2 DEF MarkApplyingFails
  <2>3. CASE IndexCandidate(a)
    BY <2>3 DEF IndexCandidate
  <2>4. CASE IndexCandidateFails(a)
    BY <2>4 DEF IndexCandidateFails
  <2>5. CASE WriteClipboard(a)
    BY <2>5 DEF WriteClipboard
  <2>6. CASE WriteClipboardUncertain(a)
    BY <2>6 DEF WriteClipboardUncertain
  <2>7. CASE WriteClipboardFails(a)
    BY <2>7 DEF WriteClipboardFails
  <2>8. CASE Unindex(a)
    BY <2>8 DEF Unindex
  <2>9. CASE Discard(a)
    BY <2>9 DEF Discard
  <2>10. CASE Promote(a)
    BY <2>10 DEF Promote
  <2>11. CASE PromoteFails(a)
    BY <2>11 DEF PromoteFails
  <2>12. CASE Evict(a)
    BY <2>12 DEF Evict
  <2>13. CASE EvictFails(a)
    BY <2>13 DEF EvictFails
  <2>14. QED
    BY <1>3, <2>1, <2>2, <2>3, <2>4, <2>5, <2>6, <2>7, <2>8,
       <2>9, <2>10, <2>11, <2>12, <2>13 DEF Apply
<1>4. ASSUME NEW a \in Activation, Conclude(a) PROVE OwnerInv'
  BY <1>4 DEF Conclude, RemoveStaging, RecordCompletedState,
      RecordCompletedAttempt, Close, FinishFails, MarkUncertain,
      RecordUncertain, UncertainFails
<1>5. ASSUME NEW a \in Activation, Retract(a) PROVE OwnerInv'
  BY <1>5 DEF Retract, CleanupStaging, CleanupJournal, CleanupFails,
      LoseRoot, RecordAttempt, DropGuard, DropGuardJournal
<1>6. ASSUME NEW a \in Activation,
             Leave(a) \/ Activate(a)
      PROVE  OwnerInv'
  BY <1>6 DEF Leave, Activate
<1>7. ASSUME NEW a \in Activation, Cancel(a) \/ PurgeCard(a)
      PROVE  OwnerInv'
  BY <1>7 DEF Cancel, PurgeCard
<1>8. ASSUME NEW a \in Activation,
             RecoverStaging(a) \/ RecordRecoveredUncertain(a) \/ RecoverCache(a)
      PROVE  OwnerInv'
  BY <1>8 DEF RecoverStaging, RecordRecoveredUncertain, RecoverCache,
      Unindexed
<1>9. CASE Start \/ DropRecoveredRows
  BY <1>9 DEF Start, DropRecoveredRows
<1>10. CASE JournalRecovered \/ RecoverFails \/ RecoverDone
  BY <1>10 DEF JournalRecovered, RecoverFails, RecoverDone, Unindexed
<1>11. CASE Stop
  BY <1>11 DEF Stop
<1>12. CASE UNCHANGED vars
  BY <1>12 DEF vars
<1>13. QED
  BY <1>1, <1>2, <1>3, <1>4, <1>5, <1>6, <1>7, <1>8, <1>9, <1>10,
     <1>11, <1>12 DEF Next, Thread, Recover

\* A slot is overwritten only when what it named needs no keeping, and only
\* settled, superseded or never written objects are removed.
LEMMA KeepStep ==
  ASSUME TypeInv, RunningInv, EffectInv, CacheInv, CacheInv', RivalInv, OwnerInv,
         KeepInv, [Next]_vars
  PROVE  KeepInv'
<1> USE ActivationAssumption DEF KeepInv, OwnerInv, RivalInv, Engaged, Entering,
      EffectInv, CacheInv, Promoted, RunningInv, IsClipboard, IsCached,
      IsUncertainSideEffect, JournalState, TypeInv, StateTypeOK,
      PC, Running, BeforeGate, AfterGate, Retracting, Applied, store, disk,
      flags, aux, FailTo, Fault
<1>1. ASSUME NEW a \in Activation, Admit(a) PROVE KeepInv'
  <2>1. CASE CheckUncertainty(a)
    BY <2>1 DEF CheckUncertainty, Rivals, HasUncertainSideEffect
  <2>2. CASE ~CheckUncertainty(a)
    BY <1>1, <2>2 DEF Admit, FailConnect, EnterReceiver, ReadPlan,
      CheckUncertaintyFails, RefuseReservation, JournalActivation,
      JournalActivationFails, PrepareStaging, PrepareStagingFails, Accept,
      AcceptFails, RefuseAdmission
  <2>3. QED BY <2>1, <2>2
<1>2. ASSUME NEW a \in Activation, Transfer(a) PROVE KeepInv'
  BY <1>2 DEF Transfer, Receive, ReceiveFails, VerifiedFails, MarkPublishing,
      MarkPublishingFails, Place, PlaceFails
<1>3. ASSUME NEW a \in Activation, Apply(a) PROVE KeepInv'
  <2>1. CASE MarkApplying(a)
    BY <2>1 DEF MarkApplying
  <2>2. CASE MarkApplyingFails(a)
    BY <2>2 DEF MarkApplyingFails
  <2>3. CASE IndexCandidate(a)
    BY <2>3 DEF IndexCandidate
  <2>4. CASE IndexCandidateFails(a)
    BY <2>4 DEF IndexCandidateFails
  <2>5. CASE WriteClipboard(a)
    BY <2>5 DEF WriteClipboard
  <2>6. CASE WriteClipboardUncertain(a)
    BY <2>6 DEF WriteClipboardUncertain
  <2>7. CASE WriteClipboardFails(a)
    BY <2>7 DEF WriteClipboardFails
  <2>8. CASE Unindex(a)
    BY <2>8 DEF Unindex
  <2>9. CASE Discard(a)
    BY <2>9 DEF Discard
  <2>10. CASE Promote(a)
    BY <2>10 DEF Promote
  <2>11. CASE PromoteFails(a)
    BY <2>11 DEF PromoteFails
  <2>12. CASE Evict(a)
    BY <2>12 DEF Evict
  <2>13. CASE EvictFails(a)
    BY <2>13 DEF EvictFails
  <2>14. QED
    BY <1>3, <2>1, <2>2, <2>3, <2>4, <2>5, <2>6, <2>7, <2>8,
       <2>9, <2>10, <2>11, <2>12, <2>13 DEF Apply
<1>4. ASSUME NEW a \in Activation, Conclude(a) PROVE KeepInv'
  BY <1>4 DEF Conclude, RemoveStaging, RecordCompletedState,
      RecordCompletedAttempt, Close, FinishFails, MarkUncertain,
      RecordUncertain, UncertainFails
<1>5. ASSUME NEW a \in Activation, Retract(a) PROVE KeepInv'
  BY <1>5 DEF Retract, CleanupStaging, CleanupJournal, CleanupFails,
      LoseRoot, RecordAttempt, DropGuard, DropGuardJournal
<1>6. ASSUME NEW a \in Activation,
             Leave(a) \/ Activate(a)
      PROVE  KeepInv'
  BY <1>6 DEF Leave, Activate
<1>7. ASSUME NEW a \in Activation, Cancel(a) \/ PurgeCard(a)
      PROVE  KeepInv'
  BY <1>7 DEF Cancel, PurgeCard
<1>8. ASSUME NEW a \in Activation,
             RecoverStaging(a) \/ RecordRecoveredUncertain(a) \/ RecoverCache(a)
      PROVE  KeepInv'
  BY <1>8 DEF RecoverStaging, RecordRecoveredUncertain, RecoverCache,
      Unindexed
<1>9. CASE Start \/ DropRecoveredRows
  BY <1>9 DEF Start, DropRecoveredRows
<1>10. CASE JournalRecovered \/ RecoverFails \/ RecoverDone
  BY <1>10 DEF JournalRecovered, RecoverFails, RecoverDone, Unindexed
<1>11. CASE Stop
  BY <1>11 DEF Stop
<1>12. CASE UNCHANGED vars
  BY <1>12 DEF vars
<1>13. QED
  BY <1>1, <1>2, <1>3, <1>4, <1>5, <1>6, <1>7, <1>8, <1>9, <1>10,
     <1>11, <1>12 DEF Next, Thread, Recover

\* What one step may add to the unaccounted objects of a process that stays up:
\* nothing, or one object at the price of a failure.
Paid ==
  \/ Stray' \subseteq Stray /\ faults' \in {faults, faults + 1}
  \/ faults' = faults + 1 /\ \E x \in Activation : Stray' \subseteq Stray \cup {x}

\* An object leaves the index only into the hands of a thread that removes it.
LEMMA PaidStep ==
  ASSUME TypeInv, RunningInv, EffectInv, CacheInv, RivalInv, OwnerInv, StrayInv,
         [Next]_vars
  PROVE  /\ \A a \in cache' : IsCached(a)'
         /\ proc = "up" /\ proc' = "up" => Paid
         /\ proc # "up" /\ proc' = "up" => Stray' = {}
         /\ faults' \in {faults, faults + 1}
<1> DEFINE Goal == /\ \A a \in cache' : IsCached(a)'
                   /\ proc = "up" /\ proc' = "up" => Paid
                   /\ proc # "up" /\ proc' = "up" => Stray' = {}
                   /\ faults' \in {faults, faults + 1}
<1> USE ActivationAssumption DEF StrayInv, Stray, InHand, Paid, OwnerInv, RivalInv,
      Engaged, Entering, EffectInv, CacheInv, RunningInv, IsClipboard, IsCached,
      TypeInv, StateTypeOK,
      PC, Running, BeforeGate, AfterGate, Retracting, Applied, store, disk,
      flags, aux, FailTo, Fault
<1>1. ASSUME NEW a \in Activation, Admit(a) PROVE Goal
  <2>1. CASE CheckUncertainty(a)
    BY <2>1 DEF CheckUncertainty, Rivals, HasUncertainSideEffect
  <2>2. CASE ~CheckUncertainty(a)
    BY <1>1, <2>2 DEF Admit, FailConnect, EnterReceiver, ReadPlan,
      CheckUncertaintyFails, RefuseReservation, JournalActivation,
      JournalActivationFails, PrepareStaging, PrepareStagingFails, Accept,
      AcceptFails, RefuseAdmission
  <2>3. QED BY <2>1, <2>2
<1>2. ASSUME NEW a \in Activation, Transfer(a) PROVE Goal
  BY <1>2 DEF Transfer, Receive, ReceiveFails, VerifiedFails, MarkPublishing,
      MarkPublishingFails, Place, PlaceFails
<1>3. ASSUME NEW a \in Activation, Apply(a) PROVE Goal
  <2>1. CASE MarkApplying(a)
    BY <2>1 DEF MarkApplying
  <2>2. CASE MarkApplyingFails(a)
    BY <2>2 DEF MarkApplyingFails
  <2>3. CASE IndexCandidate(a)
    BY <2>3 DEF IndexCandidate
  <2>4. CASE IndexCandidateFails(a)
    BY <2>4 DEF IndexCandidateFails
  <2>5. CASE WriteClipboard(a)
    BY <2>5 DEF WriteClipboard
  <2>6. CASE WriteClipboardUncertain(a)
    BY <2>6 DEF WriteClipboardUncertain
  <2>7. CASE WriteClipboardFails(a)
    BY <2>7 DEF WriteClipboardFails
  <2>8. CASE Unindex(a)
    BY <2>8 DEF Unindex
  <2>9. CASE Discard(a)
    BY <2>9 DEF Discard
  <2>10. CASE Promote(a)
    BY <2>10 DEF Promote
  <2>11. CASE PromoteFails(a)
    BY <2>11 DEF PromoteFails
  <2>12. CASE Evict(a)
    BY <2>12 DEF Evict
  <2>13. CASE EvictFails(a)
    BY <2>13 DEF EvictFails
  <2>14. QED
    BY <1>3, <2>1, <2>2, <2>3, <2>4, <2>5, <2>6, <2>7, <2>8,
       <2>9, <2>10, <2>11, <2>12, <2>13 DEF Apply
<1>4. ASSUME NEW a \in Activation, Conclude(a) PROVE Goal
  BY <1>4 DEF Conclude, RemoveStaging, RecordCompletedState,
      RecordCompletedAttempt, Close, FinishFails, MarkUncertain,
      RecordUncertain, UncertainFails
<1>5. ASSUME NEW a \in Activation, Retract(a) PROVE Goal
  BY <1>5 DEF Retract, CleanupStaging, CleanupJournal, CleanupFails,
      LoseRoot, RecordAttempt, DropGuard, DropGuardJournal
<1>6. ASSUME NEW a \in Activation,
             Leave(a) \/ Activate(a)
      PROVE  Goal
  BY <1>6 DEF Leave, Activate
<1>7. ASSUME NEW a \in Activation, Cancel(a) \/ PurgeCard(a)
      PROVE  Goal
  BY <1>7 DEF Cancel, PurgeCard
<1>8. ASSUME NEW a \in Activation,
             RecoverStaging(a) \/ RecordRecoveredUncertain(a) \/ RecoverCache(a)
      PROVE  Goal
  BY <1>8 DEF RecoverStaging, RecordRecoveredUncertain, RecoverCache,
      Unindexed
<1>9. CASE Start \/ DropRecoveredRows
  BY <1>9 DEF Start, DropRecoveredRows
<1>10. CASE JournalRecovered \/ RecoverFails \/ RecoverDone
  BY <1>10 DEF JournalRecovered, RecoverFails, RecoverDone, Unindexed
<1>11. CASE Stop
  BY <1>11 DEF Stop
<1>12. CASE UNCHANGED vars
  BY <1>12 DEF vars
<1>13. QED
  BY <1>1, <1>2, <1>3, <1>4, <1>5, <1>6, <1>7, <1>8, <1>9, <1>10,
     <1>11, <1>12 DEF Next, Thread, Recover

\* One more object costs at most one more in the count.
LEMMA StrayStep ==
  ASSUME TypeInv, RunningInv, EffectInv, CacheInv, RivalInv, OwnerInv, StrayInv,
         [Next]_vars
  PROVE  StrayInv'
<1>1. /\ \A a \in cache' : IsCached(a)'
      /\ proc = "up" /\ proc' = "up" => Paid
      /\ proc # "up" /\ proc' = "up" => Stray' = {}
      /\ faults' \in {faults, faults + 1}
  BY PaidStep
<1>2. faults \in Nat /\ faults' \in Nat
  BY <1>1 DEF StrayInv
<1>3. ASSUME NEW S, NEW T, IsFiniteSet(S), T \subseteq S
      PROVE  IsFiniteSet(T) /\ Cardinality(T) <= Cardinality(S)
  BY <1>3, FS_Subset
<1>4. ASSUME NEW S, NEW T, NEW x, IsFiniteSet(S), T \subseteq S \cup {x}
      PROVE  IsFiniteSet(T) /\ Cardinality(T) <= Cardinality(S) + 1
  <2>1. /\ IsFiniteSet(S \cup {x})
        /\ Cardinality(S \cup {x}) \in {Cardinality(S), Cardinality(S) + 1}
    BY <1>4, FS_AddElement
  <2>2. IsFiniteSet(T) /\ Cardinality(T) <= Cardinality(S \cup {x})
    BY <1>4, <2>1, <1>3
  <2>3. Cardinality(S) \in Nat /\ Cardinality(T) \in Nat
    BY <1>4, <2>2, FS_CardinalityType
  <2>4. QED BY <2>1, <2>2, <2>3
<1>5. CASE proc = "up" /\ proc' = "up"
  <2>1. IsFiniteSet(Stray) /\ Cardinality(Stray) \in Nat /\ Cardinality(Stray) <= faults
    BY <1>5, FS_CardinalityType DEF StrayInv
  <2>2. CASE Stray' \subseteq Stray
    <3>1. IsFiniteSet(Stray') /\ Cardinality(Stray') <= Cardinality(Stray)
      BY <1>3, <2>1, <2>2
    <3>2. Cardinality(Stray') \in Nat
      BY <3>1, FS_CardinalityType
    <3>3. Cardinality(Stray') <= faults'
      BY <1>1, <1>2, <2>1, <3>1, <3>2
    <3>4. QED BY <1>1, <1>2, <3>1, <3>3 DEF StrayInv
  <2>3. ASSUME NEW x \in Activation, Stray' \subseteq Stray \cup {x}, faults' = faults + 1
        PROVE  StrayInv'
    <3>1. IsFiniteSet(Stray') /\ Cardinality(Stray') <= Cardinality(Stray) + 1
      BY <1>4, <2>1, <2>3
    <3>2. Cardinality(Stray') \in Nat
      BY <3>1, FS_CardinalityType
    <3>3. Cardinality(Stray') <= faults'
      BY <1>2, <2>1, <2>3, <3>1, <3>2
    <3>4. QED BY <1>1, <1>2, <3>1, <3>3 DEF StrayInv
  <2>4. QED BY <1>1, <1>5, <2>2, <2>3 DEF Paid
<1>6. CASE proc # "up" /\ proc' = "up"
  <2>1. Stray' = {}
    BY <1>1, <1>6
  <2>2. IsFiniteSet(Stray') /\ Cardinality(Stray') = 0
    BY <2>1, FS_EmptySet
  <2>3. QED BY <1>1, <1>2, <2>2 DEF StrayInv
<1>7. CASE proc' # "up"
  BY <1>1, <1>2, <1>7 DEF StrayInv
<1>8. QED BY <1>5, <1>6, <1>7

\* These parts hold in every reachable state, however many activations overlap.
THEOREM SoleInvariance == Spec => []SoleInv
<1>1. Init => SoleInv
  <2>1. Init => RivalInv /\ OwnerInv /\ KeepInv
    BY ActivationAssumption DEF Init, RivalInv, OwnerInv, KeepInv, Engaged,
       Entering, AfterGate
  <2>2. Init => StrayInv
    BY DEF Init, StrayInv
  <2>3. QED BY <2>1, <2>2 DEF SoleInv
<1>2. IInv /\ IInv' /\ SoleInv /\ [Next]_vars => SoleInv'
  BY RivalStep, OwnerStep, KeepStep, StrayStep DEF IInv, SoleInv
<1>3. QED
  BY <1>1, <1>2, Invariance, PTL DEF Spec

\* The object the clipboard points at exists, whatever is evicted, discarded or
\* swept away by recovery, unless its activation overlapped with another.  (The
\* run dangling_clipboard shows two overlapping ones breaking it.)
THEOREM ClipboardPathKept == Spec => []SoleClipboardPathExists
<1>1. IInv /\ SoleInv => SoleClipboardPathExists
  BY DEF IInv, TypeInv, StateTypeOK, SoleInv, KeepInv, SoleClipboardPathExists
<1>2. QED
  BY <1>1, Invariance, SoleInvariance, PTL

\* The candidate of an application whose outcome is open stays on disk through
\* later activations and through recovery, unless its activation overlapped with
\* another.  (UncertainCandidateKept, without that exception, does not hold.)
THEOREM OpenCandidateKept == Spec => []SoleCandidateKept
<1>1. IInv /\ SoleInv => SoleCandidateKept
  BY DEF IInv, TypeInv, StateTypeOK, SoleInv, KeepInv, SoleCandidateKept
<1>2. QED
  BY <1>1, Invariance, SoleInvariance, PTL

\* An idle receiver's cache holds the two indexed objects, what overlapping
\* activations left and at most one object per failure, after any number of
\* activations, crashes and recoveries.
THEOREM CacheBounded == Spec => []CacheIsBounded
<1>1. ASSUME IInv, SoleInv, proc = "up", live = {}
      PROVE  Cardinality(cache \ ({completed, inFlight} \cup overlapped)) <= faults
  <2>1. \A a \in Activation : pc[a] \notin Running
    BY <1>1 DEF IInv, RunningInv
  <2>2. InHand = {}
    BY <2>1 DEF InHand, Running, Retracting, AfterGate, Applied
  <2>3. Stray = cache \ ({completed, inFlight} \cup overlapped)
    BY <2>2 DEF Stray
  <2>4. QED BY <1>1, <2>3 DEF SoleInv, StrayInv
<1>2. IInv /\ SoleInv => CacheIsBounded
  BY <1>1 DEF CacheIsBounded
<1>3. QED
  BY <1>2, Invariance, SoleInvariance, PTL
-----------------------------------------------------------------------------
(* Activation implements Delivery.                                         *)
(*                                                                         *)
(* An activation's row, history and label change together but not in one   *)
(* step, so the mapping is right only because a thread that is about to    *)
(* report or to retract stands where its payload can be told apart:        *)
(* OutcomeInv adds what IInv leaves open.                                  *)

\* Labels at which the row can say that the clipboard is being written.
MayApply == {"index", "write", "promote", "evict", "finish", "complete",
             "uncertain", "unindex", "discard", "cleanup", "unjournal",
             "leave", "ended", "dead"}

Over == {"leave", "ended", "dead"}

\* What has happened to the payload of a thread that concludes, and what its
\* card can say by then.
OutcomeInv ==
  \A a \in Activation :
    /\ pc[a] \in {"uncertain", "unrecorded"} => Reached(a)
    /\ pc[a] = "unrecorded" => journal[a] = "UncertainNoReplay"
    /\ a \in settled =>
         Reached(a) /\ pc[a] \in {"confirm", "close", "uncertain", "unrecorded"} \cup Over
    /\ journal[a] = "ApplyingClipboard" => IsClipboard(a) /\ pc[a] \in MayApply /\ a \notin settled
    /\ attempt[a] # "none" => pc[a] \in {"close", "uncertain", "unrecorded"} \cup Over
    /\ attempt[a] \notin {"none", "Completed"} => pc[a] \in Over
    /\ ToldOf(a) = "failed" /\ IsClipboard(a) => a \notin wrote

-----------------------------------------------------------------------------
(* The invariant.                                                          *)


\* The row goes before the reason for it, the card after it, and nobody but
\* the thread itself or recovery touches either.
LEMMA OutcomeStep ==
  ASSUME TypeInv, RunningInv, EffectInv, UncertainInv, OutcomeInv, [Next]_vars
  PROVE  OutcomeInv'
<1> USE ActivationAssumption DEF OutcomeInv, MayApply, Over, Reached, ToldOf, EffectInv,
      UncertainInv, RunningInv, IsClipboard, IsCached, IsUncertainSideEffect,
      Reportable, ResultKnown, JournalState, Attempt,
      TypeInv, StateTypeOK, PC, Running, BeforeGate, AfterGate,
      Retracting, Applied, store, disk, flags, aux, FailTo, Fault
<1>1. ASSUME NEW a \in Activation, Admit(a)
      PROVE  OutcomeInv'
  BY <1>1 DEF Admit, FailConnect, EnterReceiver, ReadPlan, CheckUncertainty,
      CheckUncertaintyFails, RefuseReservation, JournalActivation,
      JournalActivationFails, PrepareStaging, PrepareStagingFails, Accept,
      AcceptFails, RefuseAdmission
<1>2. ASSUME NEW a \in Activation, Transfer(a)
      PROVE  OutcomeInv'
  BY <1>2 DEF Transfer, Receive, ReceiveFails, VerifiedFails, MarkPublishing,
      MarkPublishingFails, Place, PlaceFails
<1>3. ASSUME NEW a \in Activation, Apply(a)
      PROVE  OutcomeInv'
  BY <1>3 DEF Apply, MarkApplying, MarkApplyingFails, IndexCandidate,
      IndexCandidateFails, WriteClipboard, WriteClipboardUncertain,
      WriteClipboardFails, Unindex, Discard, Promote, PromoteFails, Evict,
      EvictFails
<1>4. ASSUME NEW a \in Activation, Conclude(a)
      PROVE  OutcomeInv'
  BY <1>4 DEF Conclude, RemoveStaging, RecordCompletedState,
      RecordCompletedAttempt, Close, FinishFails, MarkUncertain,
      RecordUncertain, UncertainFails
<1>5. ASSUME NEW a \in Activation, Retract(a)
      PROVE  OutcomeInv'
  BY <1>5 DEF Retract, CleanupStaging, CleanupJournal, CleanupFails,
      LoseRoot, RecordAttempt, DropGuard, DropGuardJournal
<1>6. ASSUME NEW a \in Activation, Leave(a) \/ Activate(a) \/ Cancel(a) \/ PurgeCard(a)
      PROVE  OutcomeInv'
  BY <1>6 DEF Leave, Activate, Cancel, PurgeCard
<1>7. ASSUME NEW a \in Activation, RecoverStaging(a) \/ RecordRecoveredUncertain(a) \/ RecoverCache(a)
      PROVE  OutcomeInv'
  BY <1>7 DEF RecoverStaging, RecordRecoveredUncertain, RecoverCache
<1>8. CASE Start \/ JournalRecovered \/ RecoverFails \/ RecoverDone \/ UNCHANGED vars
  BY <1>8 DEF Start, JournalRecovered, RecoverFails, RecoverDone, vars
<1>9. CASE DropRecoveredRows
  BY <1>9 DEF DropRecoveredRows
<1>10. CASE Stop
  BY <1>10 DEF Stop
<1> QED
  BY <1>10, <1>9, <1>8, <1>7, <1>6, <1>5, <1>4, <1>3, <1>2, <1>1
  DEF Recover, Thread, Next

\* OutcomeInv holds in every reachable state.
LEMMA OutcomeInvariance == Spec => [](IInv /\ OutcomeInv)
<1>1. Init => OutcomeInv
  BY DEF Init, OutcomeInv, ToldOf
<1>2. IInv /\ OutcomeInv /\ [Next]_vars => OutcomeInv'
  BY OutcomeStep DEF IInv
<1> QED
  BY <1>1, <1>2, Invariance, PTL DEF Spec

-----------------------------------------------------------------------------
(* The steps of one activation.                                            *)

\* A step that concerns nobody but a.
OnlyOf(a) ==
  /\ UNCHANGED shape
  /\ \A b \in Activation \ {a} :
       /\ journal'[b] = journal[b] /\ attempt'[b] = attempt[b] /\ pc'[b] = pc[b]
       /\ b \in settled' <=> b \in settled
       /\ b \in wrote' <=> b \in wrote
       /\ b \in saved' <=> b \in saved

\* The payload of a moves as Delivery allows, and its card stays.
Moves(a) ==
  /\ ToldOf(a)' = ToldOf(a)
  /\ \/ PhaseOf(a)' = PhaseOf(a)
     \/ PhaseOf(a) = "open" /\ PhaseOf(a)' = "closed"
     \/ PhaseOf(a) = "open" /\ PhaseOf(a)' = "pledged" /\ IsClipboard(a)
     \/ PhaseOf(a) = "pledged" /\ PhaseOf(a)' = "closed"
     \/ PhaseOf(a) = "pledged" /\ PhaseOf(a)' = "delivered" /\ IsClipboard(a)
     \/ PhaseOf(a) = "open" /\ PhaseOf(a)' = "delivered" /\ ~IsClipboard(a)
     \/ PhaseOf(a) = "delivered" /\ PhaseOf(a)' = "settled"
     \/ PhaseOf(a) \in {"pledged", "delivered", "settled"} /\ PhaseOf(a)' = "doubtful"

\* The card of a is written as Delivery allows, and the payload stays.
Tells(a) ==
  /\ PhaseOf(a)' = PhaseOf(a)
  /\ \/ PhaseOf(a) = "settled" /\ ToldOf(a) = "nothing" /\ ToldOf(a)' = "completed"
     \/ PhaseOf(a) = "doubtful" /\ ToldOf(a) \in {"nothing", "completed"}
        /\ ToldOf(a)' = "uncertain"
     \/ /\ PhaseOf(a) = "closed" \/ (~IsClipboard(a) /\ PhaseOf(a) = "delivered")
        /\ ToldOf(a) = "nothing" /\ ToldOf(a)' = "failed"

\* Every step of a thread, and of recovery for one activation, is one of these.
LEMMA StepOfOne ==
  ASSUME TypeInv, RunningInv, EffectInv, UncertainInv, OutcomeInv, NEW a \in Activation,
         \/ Thread(a) \/ Activate(a) \/ Cancel(a) \/ PurgeCard(a)
         \/ RecoverStaging(a) \/ RecordRecoveredUncertain(a) \/ RecoverCache(a)
  PROVE  OnlyOf(a) /\ (Moves(a) \/ Tells(a))
<1> USE ActivationAssumption DEF OnlyOf, Moves, Tells, PhaseOf, ToldOf, Reached, OutcomeInv,
      MayApply, Over, EffectInv, UncertainInv, RunningInv, IsClipboard, IsCached,
      ResultKnown, Reportable, JournalState, Attempt,
      TypeInv, StateTypeOK, PC, Running, BeforeGate, AfterGate,
      Retracting, Applied, store, disk, flags, aux, FailTo, Fault
<1>1. ASSUME Admit(a)
      PROVE  OnlyOf(a) /\ (Moves(a) \/ Tells(a))
  BY <1>1 DEF Admit, FailConnect, EnterReceiver, ReadPlan, CheckUncertainty,
      CheckUncertaintyFails, RefuseReservation, JournalActivation,
      JournalActivationFails, PrepareStaging, PrepareStagingFails, Accept,
      AcceptFails, RefuseAdmission
<1>2. ASSUME Transfer(a)
      PROVE  OnlyOf(a) /\ (Moves(a) \/ Tells(a))
  BY <1>2 DEF Transfer, Receive, ReceiveFails, VerifiedFails, MarkPublishing,
      MarkPublishingFails, Place, PlaceFails
<1>3. ASSUME Apply(a)
      PROVE  OnlyOf(a) /\ (Moves(a) \/ Tells(a))
  BY <1>3 DEF Apply, MarkApplying, MarkApplyingFails, IndexCandidate,
      IndexCandidateFails, WriteClipboard, WriteClipboardUncertain,
      WriteClipboardFails, Unindex, Discard, Promote, PromoteFails, Evict,
      EvictFails
<1>4. ASSUME Conclude(a)
      PROVE  OnlyOf(a) /\ (Moves(a) \/ Tells(a))
  BY <1>4 DEF Conclude, RemoveStaging, RecordCompletedState,
      RecordCompletedAttempt, Close, FinishFails, MarkUncertain,
      RecordUncertain, UncertainFails
<1>5. ASSUME Retract(a)
      PROVE  OnlyOf(a) /\ (Moves(a) \/ Tells(a))
  BY <1>5 DEF Retract, CleanupStaging, CleanupJournal, CleanupFails,
      LoseRoot, RecordAttempt, DropGuard, DropGuardJournal
<1>6. ASSUME Leave(a) \/ Activate(a) \/ Cancel(a) \/ PurgeCard(a)
      PROVE  OnlyOf(a) /\ (Moves(a) \/ Tells(a))
  BY <1>6 DEF Leave, Activate, Cancel, PurgeCard
<1>7. ASSUME RecoverStaging(a) \/ RecordRecoveredUncertain(a) \/ RecoverCache(a)
      PROVE  OnlyOf(a) /\ (Moves(a) \/ Tells(a))
  BY <1>7 DEF RecoverStaging, RecordRecoveredUncertain, RecoverCache
<1> QED
  BY <1>7, <1>6, <1>5, <1>4, <1>3, <1>2, <1>1 DEF Thread

-----------------------------------------------------------------------------
(* The refinement.                                                         *)

\* A step of one activation is a step of Delivery for that item.
LEMMA LiftOne ==
  ASSUME NEW a \in Activation, OnlyOf(a), Moves(a) \/ Tells(a)
  PROVE  [Abstract!Next]_<<Guarded, Phase, Told>>
<1>1. UNCHANGED Guarded /\ (IsClipboard(a) <=> a \in Guarded)
  BY DEF OnlyOf, Guarded, IsClipboard
<1>2. \A b \in Activation \ {a} : PhaseOf(b)' = PhaseOf(b) /\ ToldOf(b)' = ToldOf(b)
  BY DEF OnlyOf, PhaseOf, ToldOf, Reached, IsClipboard
<1>3. /\ Phase[a] = PhaseOf(a) /\ Phase' = [Phase EXCEPT ![a] = PhaseOf(a)']
      /\ Told[a] = ToldOf(a) /\ Told' = [Told EXCEPT ![a] = ToldOf(a)']
  BY <1>2 DEF Phase, Told
<1>4. CASE Moves(a)
  <2>1. Told' = Told
    BY <1>3, <1>4 DEF Moves, Told
  <2>2. CASE PhaseOf(a)' = PhaseOf(a)
    BY <1>1, <1>3, <2>1, <2>2 DEF Phase
  <2>3. CASE PhaseOf(a) = "open" /\ PhaseOf(a)' = "closed"
    <3>1. Phase' = [b \in Activation |-> IF b \in {a} THEN "closed" ELSE Phase[b]]
      BY <1>3, <2>3 DEF Phase
    <3>2. Abstract!Abandon({a})
      BY <1>1, <1>3, <2>1, <2>3, <3>1 DEF Abstract!Abandon
    <3> QED
      BY <3>2 DEF Abstract!Next
  <2>4. CASE ~(PhaseOf(a) = "open" /\ PhaseOf(a)' = "closed") /\ PhaseOf(a)' # PhaseOf(a)
    <3>1. \/ Abstract!Pledge(a) \/ Abstract!Withdraw(a) \/ Abstract!Deliver(a)
          \/ Abstract!Settle(a) \/ Abstract!Doubt(a)
      BY <1>1, <1>3, <1>4, <2>1, <2>4 DEF Moves, Abstract!Pledge, Abstract!Withdraw,
         Abstract!Deliver, Abstract!Settle, Abstract!Doubt, Abstract!Move
    <3> QED
      BY <3>1 DEF Abstract!Next, Abstract!Change
  <2> QED
    BY <2>2, <2>3, <2>4
<1>5. CASE Tells(a)
  <2>1. Phase' = Phase
    BY <1>3, <1>5 DEF Tells, Phase
  <2>2. Abstract!TellCompleted(a) \/ Abstract!TellUncertain(a) \/ Abstract!TellFailed(a)
    BY <1>1, <1>3, <1>5, <2>1 DEF Tells, Abstract!TellCompleted, Abstract!TellUncertain,
       Abstract!TellFailed, Abstract!Tell
  <2> QED
    BY <2>2 DEF Abstract!Next, Abstract!Change
<1> QED
  BY <1>4, <1>5

\* A process that stops gives up everything that has not happened, and nothing
\* else: what was pledged stays pledged.
LEMMA LiftStop ==
  ASSUME Stop
  PROVE  [Abstract!Next]_<<Guarded, Phase, Told>>
<1> DEFINE S == {a \in Activation : PhaseOf(a) = "open" /\ pc[a] # "new"}
<1>1. UNCHANGED <<Guarded, Told>>
  BY DEF Stop, store, Guarded, Told, ToldOf, IsClipboard
<1>2. \A a \in Activation : PhaseOf(a)' = IF a \in S THEN "closed" ELSE PhaseOf(a)
  BY DEF Stop, store, disk, aux, PhaseOf, Reached, IsClipboard, BeforeGate, AfterGate
<1>3. Phase' = [a \in Activation |-> IF a \in S THEN "closed" ELSE Phase[a]]
  BY <1>2 DEF Phase
<1>4. \A a \in S : Phase[a] = "open"
  BY DEF Phase
<1>5. Abstract!Abandon(S)
  BY <1>1, <1>3, <1>4 DEF Abstract!Abandon
<1> QED
  BY <1>5 DEF Abstract!Next

\* Recovery drops no row that Delivery can see.
LEMMA LiftRecovery ==
  ASSUME Start \/ DropRecoveredRows \/ JournalRecovered \/ RecoverFails \/ RecoverDone
         \/ UNCHANGED vars
  PROVE  UNCHANGED <<Guarded, Phase, Told>>
<1>1. UNCHANGED <<shape, attempt, settled, wrote, saved, pc>>
  BY DEF Start, DropRecoveredRows, JournalRecovered, RecoverFails, RecoverDone, vars,
     store, disk, aux
<1>2. \A a \in Activation :
        \/ journal'[a] = journal[a]
        \/ ~IsUncertainSideEffect(journal[a]) /\ journal'[a] = "absent"
  <2>1. CASE DropRecoveredRows
    BY <2>1 DEF DropRecoveredRows
  <2>2. CASE Start \/ JournalRecovered \/ RecoverFails \/ RecoverDone \/ UNCHANGED vars
    BY <2>2 DEF Start, JournalRecovered, RecoverFails, RecoverDone, vars, store
  <2> QED
    BY <2>1, <2>2
<1>3. \A a \in Activation : PhaseOf(a)' = PhaseOf(a) /\ ToldOf(a)' = ToldOf(a)
  BY <1>1, <1>2 DEF PhaseOf, ToldOf, Reached, IsClipboard, IsUncertainSideEffect
<1> QED
  BY <1>1, <1>3 DEF Guarded, Phase, Told, IsClipboard

\* For every instance, with any number of overlapping activations, failures,
\* crashes and recoveries: the receiver is a Delivery.  A payload reaches the
\* clipboard at most once and only under a durable pledge, and the card never
\* says failed of one that is there nor completed of one that is not.
THEOREM ImplementsDeliveryTheorem == Spec => ImplementsDelivery
<1>1. Init => Abstract!Init
  BY DEF Init, Abstract!Init, Guarded, Phase, Told, PhaseOf, ToldOf, Reached
<1>2. IInv /\ OutcomeInv /\ [Next]_vars => [Abstract!Next]_<<Guarded, Phase, Told>>
  <2> SUFFICES ASSUME IInv, OutcomeInv, [Next]_vars
               PROVE  [Abstract!Next]_<<Guarded, Phase, Told>>
    OBVIOUS
  <2>1. TypeInv /\ RunningInv /\ EffectInv /\ UncertainInv
    BY DEF IInv
  <2>2. ASSUME NEW a \in Activation,
               \/ Thread(a) \/ Activate(a) \/ Cancel(a) \/ PurgeCard(a)
               \/ RecoverStaging(a) \/ RecordRecoveredUncertain(a) \/ RecoverCache(a)
        PROVE  [Abstract!Next]_<<Guarded, Phase, Told>>
    BY <2>1, <2>2, StepOfOne, LiftOne
  <2> QED
    BY <2>1, <2>2, LiftStop, LiftRecovery DEF Next, Recover
<1> QED
  BY <1>1, <1>2, OutcomeInvariance, PTL
  DEF Spec, ImplementsDelivery, Abstract!Spec, Abstract!deliveryVars

\* For every instance: a card that says an application to the clipboard failed,
\* was cancelled or was refused speaks of a payload that never touched it,
\* whatever retried, crashed or recovered since.
THEOREM FailedMeansUntouched ==
  Spec => [](\A a \in Activation : ToldOf(a) = "failed" /\ IsClipboard(a) => a \notin wrote)
<1>1. OutcomeInv =>
        \A a \in Activation : ToldOf(a) = "failed" /\ IsClipboard(a) => a \notin wrote
  BY DEF OutcomeInv
<1> QED
  BY <1>1, OutcomeInvariance, PTL
=============================================================================
