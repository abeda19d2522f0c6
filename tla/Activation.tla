----------------------------- MODULE Activation -----------------------------
(***************************************************************************)
(* The receiving side of meshelf: the resident ActivationService, the      *)
(* FetchReceiver state machine it runs once per activation, the cleanup    *)
(* journal and clipboard-cache index they keep in the redb store, and the  *)
(* recovery that a process runs before it admits anything.                 *)
(*                                                                         *)
(* Every activation is a thread of its own (the desktop spawns one thread  *)
(* with its own runtime per activation), so the steps of two activations   *)
(* interleave freely.  A step of this module is one durable effect: one    *)
(* redb transaction, one file-system change, one native clipboard write,   *)
(* or one read of the state the threads share.  The process may stop       *)
(* between any two steps (a crash, or the user quitting: both just kill    *)
(* the threads); the store, the disk and the clipboard survive it.         *)
(*                                                                         *)
(* What is abstracted.  The bytes, digests and manifests of a transfer are *)
(* one nondeterministic result of Receive; the peer is whatever makes that *)
(* result possible.  An activation id is a fresh UUID, so an element of    *)
(* Activation is used once.  The card an activation names is represented   *)
(* by the activation itself: a \in cards says that the card is still on    *)
(* the shelf.                                                              *)
(***************************************************************************)
EXTENDS Naturals, FiniteSets

CONSTANTS
  Activation,      \* activation ids
  Shapes,          \* the kinds of activation considered, a subset of Shape
  None,            \* an empty cache slot, an untouched clipboard
  MaxConcurrent,   \* MAX_CONCURRENT_ACTIVATIONS
  MaxFaults,       \* bound: failed store transactions and file removals
  MaxCrashes       \* bound: process deaths

\* What an activation does with the payload: a text, a regular file or a
\* folder put on the clipboard, or a file or folder saved to a directory.
Shape == {"text", "file", "folder", "save"}

\* ActivationState, without the variants the receiver never stores; "absent"
\* is a missing row of the activation_journal table.
JournalState ==
  {"absent", "Staging", "Transferring", "Verified", "Publishing",
   "ApplyingClipboard", "Completed", "UncertainNoReplay"}

\* Results, as the user sees them; "none" until there is one.
Result ==
  {"none", "Completed", "Busy", "Refused", "Cancelled", "Failed",
   "ClipboardFailed", "UncertainNoReplay", "InternalError"}

ASSUME ActivationAssumption ==
  /\ None \notin Activation
  /\ Shapes \subseteq Shape
  /\ MaxConcurrent \in Nat \ {0}
  /\ MaxFaults \in Nat
  /\ MaxCrashes \in Nat

VARIABLES
  (* The redb store.                                                       *)
  journal,      \* cleanup journal: activation id -> JournalState
  attempt,      \* last_attempt of the card, as written by this activation
  cards,        \* cards still on the shelf
  inFlight,     \* clipboard_cache slot "in_flight"
  completed,    \* clipboard_cache slot "completed"
  (* The file system.                                                      *)
  staging,      \* staging/<id> directories
  cache,        \* clipboard-cache/candidate-<id> objects
  saved,        \* payloads published to a save destination
  (* The operating system's clipboard: whose payload it holds.             *)
  clip,
  (* The process: lost when it stops.                                      *)
  proc,         \* "down"; "staging", "rows", "cache": recovering; "up"
  cleanupBlocked,      \* SharedActivationOwner.cleanup_blocked
  uncertainClipboard,  \* SharedActivationOwner.uncertain_clipboard
  live,         \* SharedActivationOwner.live
  cancel,       \* activations whose cancel signal has been sent
  pc,           \* where each activation's thread stands
  prev,         \* the record promote_clipboard_cache returned
  result,       \* the result its thread is about to report
  (* Fixed by the request.                                                 *)
  shape,
  (* History.                                                              *)
  wrote,        \* activations whose payload reached the native clipboard
  settled,      \* activations whose journal row reached Completed
  leaked,       \* staging directories a dropped guard failed to remove
  overlapped,   \* files and folders pulled to the clipboard at the same time
  faults, crashes

store  == <<journal, attempt, cards, inFlight, completed>>
disk   == <<staging, cache, saved>>
flags  == <<cleanupBlocked, uncertainClipboard>>
aux    == <<wrote, settled, leaked, overlapped>>
vars   == <<store, disk, clip, proc, flags, live, cancel, pc, prev, shape,
            result, aux, faults, crashes>>

-----------------------------------------------------------------------------
(* Program counters of an activation's thread.                             *)

BeforeGate  == {"connect", "plan", "gate"}
AfterGate   == {"reserve", "prepare", "accept", "receive", "publish",
                "place", "apply", "index", "write"}
Retracting  == {"unindex", "discard", "cleanup", "unjournal", "guard",
                "guardClean", "guardDirty", "refuse", "record", "leave"}
Applied     == {"promote", "evict", "finish", "complete", "confirm",
                "close", "uncertain", "unrecorded"}
Running     == BeforeGate \cup AfterGate \cup Retracting \cup Applied
PC          == Running \cup {"new", "ended", "dead"}

IsClipboard(a) == shape[a] # "save"
IsCached(a)    == shape[a] \in {"file", "folder"}

\* ActivationState::is_uncertain_side_effect
IsUncertainSideEffect(s) == s \in {"ApplyingClipboard", "UncertainNoReplay"}

\* (Mutant of HasUncertainSideEffect: rows recovery has settled are overlooked.)
ForgetsRecordedUncertainty ==
  \/ \E a \in Activation : IsClipboard(a) /\ journal[a] = "ApplyingClipboard"
  \/ inFlight # None

\* RedbV2Store::has_uncertain_side_effect
HasUncertainSideEffect ==
  \/ \E a \in Activation : IsClipboard(a) /\ IsUncertainSideEffect(journal[a])
  \/ inFlight # None

Journaled == {a \in Activation : journal[a] # "absent"}

-----------------------------------------------------------------------------
(* Building blocks of the steps.                                           *)

Goto(a, label) == pc' = [pc EXCEPT ![a] = label]

SetResult(a, r) == result' = [result EXCEPT ![a] = r]

\* The receiver returns r to ActivationService::activate.
Return(a, r) == Goto(a, "leave") /\ SetResult(a, r)

\* RedbV2Store::update_activation_state
UpdateActivationState(a, s) ==
  /\ journal[a] # "absent"
  /\ journal' = [journal EXCEPT ![a] = s]

\* RedbV2Store::remove_activation_journal
RemoveActivationJournal(a) == journal' = [journal EXCEPT ![a] = "absent"]

\* A store transaction or a file removal fails.
Fault == faults < MaxFaults /\ faults' = faults + 1

\* The failure of a step that needs nothing but the next label: the shared
\* state keeps its value.
FailTo(a, label, r) ==
  /\ Fault
  /\ Goto(a, label)
  /\ SetResult(a, r)
  /\ UNCHANGED <<store, disk, clip, proc, uncertainClipboard, live, cancel,
                 prev, shape, aux, crashes>>

Init ==
  /\ journal = [a \in Activation |-> "absent"]
  /\ attempt = [a \in Activation |-> "none"]
  /\ cards = Activation
  /\ inFlight = None /\ completed = None
  /\ staging = {} /\ cache = {} /\ saved = {}
  /\ clip = None
  /\ proc = "down"
  /\ cleanupBlocked = FALSE /\ uncertainClipboard = FALSE
  /\ live = {} /\ cancel = {}
  /\ pc = [a \in Activation |-> "new"]
  /\ prev = [a \in Activation |-> None]
  /\ shape \in [Activation -> Shapes]
  /\ result = [a \in Activation |-> "none"]
  /\ wrote = {} /\ settled = {} /\ leaked = {} /\ overlapped = {}
  /\ faults = 0 /\ crashes = 0

-----------------------------------------------------------------------------
(* ActivationService::activate and the connection to the source.           *)

\* Fewer than MAX_CONCURRENT_ACTIVATIONS are live: this one is admitted.  A
\* request beyond the limit is refused busy, which changes nothing: it is not
\* queued, and the next request has an id of its own.
Activate(a) ==
  /\ proc = "up" /\ pc[a] = "new"
  /\ Cardinality(live) < MaxConcurrent
  /\ live' = live \cup {a}
  /\ Goto(a, "connect")
  /\ UNCHANGED <<store, disk, clip, proc, flags, cancel, prev, shape, result,
                 aux, faults, crashes>>

\* The connect, the hello exchange or the request fails, or the user cancels
\* before the receiver is entered: nothing is recorded.
FailConnect(a) ==
  /\ pc[a] = "connect"
  /\ \E r \in {"Failed", "InternalError"} \cup (IF a \in cancel THEN {"Cancelled"} ELSE {}) :
       Return(a, r)
  /\ UNCHANGED <<store, disk, clip, proc, flags, live, cancel, prev, shape,
                 aux, faults, crashes>>

\* Head of receive_one: the unresolved-cleanup gate, a cancel, the card.
EnterReceiver(a) ==
  /\ pc[a] = "connect"
  /\ \/ cleanupBlocked /\ Return(a, "Busy")
     \/ ~cleanupBlocked /\ a \in cancel /\ Return(a, "Cancelled")
     \/ ~cleanupBlocked /\ a \notin cancel /\ a \notin cards /\ Return(a, "Failed")
     \/ ~cleanupBlocked /\ a \notin cancel /\ a \in cards
        /\ Goto(a, "plan") /\ UNCHANGED result
  /\ UNCHANGED <<store, disk, clip, proc, flags, live, cancel, prev, shape,
                 aux, faults, crashes>>

\* ActivationService::activate after the fetch: the id leaves the live set,
\* the result is reported, the thread and its locals are gone.
Leave(a) ==
  /\ pc[a] = "leave"
  /\ live' = live \ {a} /\ cancel' = cancel \ {a}
  /\ prev' = [prev EXCEPT ![a] = None]
  /\ Goto(a, "ended") /\ SetResult(a, "none")
  /\ UNCHANGED <<store, disk, clip, proc, flags, shape, aux, faults, crashes>>

-----------------------------------------------------------------------------
(* Admission.                                                              *)

\* read_header, read_manifest and their validation.  A failed header is
\* recorded as an attempt (SourceUnavailable and SourceChanged count as Failed
\* here); a manifest that cannot be read is not; a header or
\* manifest that does not fit the card, or a cancel while the manifest is
\* read, is refused to the peer first.
ReadPlan(a) ==
  /\ pc[a] = "plan"
  /\ \/ Goto(a, "gate") /\ UNCHANGED result
     \/ \E r \in {"Failed", "Busy"} : Goto(a, "record") /\ SetResult(a, r)
     \/ Return(a, "Failed")
     \/ \E r \in {"Refused"} \cup (IF a \in cancel THEN {"Cancelled"} ELSE {}) :
          Goto(a, "refuse") /\ SetResult(a, r)
  /\ UNCHANGED <<store, disk, clip, proc, flags, live, cancel, prev, shape,
                 aux, faults, crashes>>

\* (Mutant of CheckUncertainty: the activation waits instead of being refused.)
QueueBehindUncertainty(a) ==
  /\ pc[a] = "gate"
  /\ ~(IsClipboard(a) /\ (uncertainClipboard \/ HasUncertainSideEffect))
  /\ Goto(a, "reserve") /\ UNCHANGED result
  /\ UNCHANGED <<store, disk, clip, proc, flags, live, cancel, prev, shape,
                 aux, faults, crashes>>

\* The other files and folders on their way to the clipboard when a passes the
\* gate.  (V2_MAX_ACTIVE_CLIPBOARD_PULLS says one at a time; nothing reads it.)
Rivals(a) ==
  IF IsCached(a) THEN {b \in Activation \ {a} : IsCached(b) /\ pc[b] \in AfterGate} ELSE {}

\* The clipboard-uncertainty gate: checked once, before anything is journaled.
CheckUncertainty(a) ==
  /\ pc[a] = "gate"
  /\ IF IsClipboard(a) /\ (uncertainClipboard \/ HasUncertainSideEffect)
       THEN Goto(a, "refuse") /\ SetResult(a, "Busy") /\ UNCHANGED overlapped
       ELSE /\ Goto(a, "reserve") /\ UNCHANGED result
            /\ overlapped' = IF Rivals(a) = {} THEN overlapped
                             ELSE overlapped \cup Rivals(a) \cup {a}
  /\ UNCHANGED <<store, disk, clip, proc, flags, live, cancel, prev, shape,
                 wrote, settled, leaked, faults, crashes>>

\* has_uncertain_side_effect cannot read the store.
CheckUncertaintyFails(a) ==
  /\ pc[a] = "gate"
  /\ FailTo(a, "leave", "InternalError")
  /\ UNCHANGED cleanupBlocked

\* The destination is unusable or the reservation ledger has no room.
RefuseReservation(a) ==
  /\ pc[a] = "reserve" /\ shape[a] # "text"
  /\ Goto(a, "refuse") /\ SetResult(a, "Refused")
  /\ UNCHANGED <<store, disk, clip, proc, flags, live, cancel, prev, shape,
                 aux, faults, crashes>>

\* The journal row is committed before anything of the activation is on disk.
JournalActivation(a) ==
  /\ pc[a] = "reserve"
  /\ journal' = [journal EXCEPT ![a] = "Staging"]
  /\ Goto(a, "prepare")
  /\ UNCHANGED <<attempt, cards, inFlight, completed, disk, clip, proc, flags,
                 live, cancel, prev, shape, result, aux, faults, crashes>>

JournalActivationFails(a) ==
  /\ pc[a] = "reserve"
  /\ FailTo(a, "leave", "InternalError")
  /\ UNCHANGED cleanupBlocked

PrepareStaging(a) ==
  /\ pc[a] = "prepare"
  /\ staging' = staging \cup {a}
  /\ Goto(a, "accept")
  /\ UNCHANGED <<store, cache, saved, clip, proc, flags, live, cancel, prev,
                 shape, result, aux, faults, crashes>>

\* Allocation fails, with or without the directory already created.
PrepareStagingFails(a) ==
  /\ pc[a] = "prepare"
  /\ staging' \in {staging, staging \cup {a}}
  /\ Goto(a, "cleanup") /\ SetResult(a, "Refused")
  /\ UNCHANGED <<store, cache, saved, clip, proc, flags, live, cancel, prev,
                 shape, aux, faults, crashes>>

\* write_admission(Accepted), the Transferring row and the cancel check.
Accept(a) ==
  /\ pc[a] = "accept"
  /\ UpdateActivationState(a, "Transferring")
  /\ IF a \in cancel
       THEN Goto(a, "cleanup") /\ SetResult(a, "Cancelled")
       ELSE Goto(a, "receive") /\ UNCHANGED result
  /\ UNCHANGED <<attempt, cards, inFlight, completed, disk, clip, proc, flags,
                 live, cancel, prev, shape, aux, faults, crashes>>

\* The peer is gone or the row cannot be updated: the function returns early
\* and the armed StagingGuard is dropped.
AcceptFails(a) ==
  /\ pc[a] = "accept"
  /\ Goto(a, "guard") /\ SetResult(a, "Failed")
  /\ UNCHANGED <<store, disk, clip, proc, flags, live, cancel, prev, shape,
                 aux, faults, crashes>>

\* refuse_admission: the peer may be gone, in which case nothing is recorded.
RefuseAdmission(a) ==
  /\ pc[a] = "refuse"
  /\ \/ Goto(a, "record") /\ UNCHANGED result
     \/ Return(a, "Failed")
  /\ UNCHANGED <<store, disk, clip, proc, flags, live, cancel, prev, shape,
                 aux, faults, crashes>>

-----------------------------------------------------------------------------
(* Transfer and publication.                                               *)

\* receive_payload succeeds; a pending cancel is honoured, else the payload
\* is recorded as verified.
Receive(a) ==
  /\ pc[a] = "receive"
  /\ IF a \in cancel
       THEN Goto(a, "cleanup") /\ SetResult(a, "Cancelled") /\ UNCHANGED journal
       ELSE /\ UpdateActivationState(a, "Verified")
            /\ Goto(a, "publish") /\ UNCHANGED result
  /\ UNCHANGED <<attempt, cards, inFlight, completed, disk, clip, proc, flags,
                 live, cancel, prev, shape, aux, faults, crashes>>

\* Every ReceiveFailure: lost connection, abort, verification, local I/O,
\* cancel (by the user here, or by the source).
ReceiveFails(a) ==
  /\ pc[a] = "receive"
  /\ \E r \in {"Failed", "Cancelled"} : Goto(a, "cleanup") /\ SetResult(a, r)
  /\ UNCHANGED <<store, disk, clip, proc, flags, live, cancel, prev, shape,
                 aux, faults, crashes>>

\* The Verified row cannot be written: early return, the guard is dropped.
VerifiedFails(a) ==
  /\ pc[a] = "receive" /\ a \notin cancel
  /\ FailTo(a, "guard", "InternalError")
  /\ UNCHANGED cleanupBlocked

MarkPublishing(a) ==
  /\ pc[a] = "publish"
  /\ UpdateActivationState(a, "Publishing")
  /\ Goto(a, "place")
  /\ UNCHANGED <<attempt, cards, inFlight, completed, disk, clip, proc, flags,
                 live, cancel, prev, shape, result, aux, faults, crashes>>

MarkPublishingFails(a) ==
  /\ pc[a] = "publish"
  /\ FailTo(a, "cleanup", "Failed")
  /\ UNCHANGED cleanupBlocked

\* finalize_payload: text publishes nothing, a cached payload becomes the
\* object candidate-<id>, a saved one appears at its destination and has no
\* further side effect.  From here on the guard keeps the staging tree.
Place(a) ==
  /\ pc[a] = "place"
  /\ cache' = IF IsCached(a) THEN cache \cup {a} ELSE cache
  /\ saved' = IF IsClipboard(a) THEN saved ELSE saved \cup {a}
  /\ Goto(a, IF IsClipboard(a) THEN "apply" ELSE "finish")
  /\ UNCHANGED <<store, staging, clip, proc, flags, live, cancel, prev, shape,
                 result, aux, faults, crashes>>

\* Publication fails before or after the payload became visible (the hard
\* link exists but the staged name or the directory sync failed).
PlaceFails(a) ==
  /\ pc[a] = "place" /\ shape[a] # "text"
  /\ Fault
  /\ \/ UNCHANGED <<cache, saved>>
     \/ IsCached(a) /\ cache' = cache \cup {a} /\ UNCHANGED saved
     \/ ~IsCached(a) /\ saved' = saved \cup {a} /\ UNCHANGED cache
  /\ Goto(a, "cleanup") /\ SetResult(a, "Failed")
  /\ UNCHANGED <<store, staging, clip, proc, flags, live, cancel, prev, shape,
                 aux, crashes>>

-----------------------------------------------------------------------------
(* apply_side_effect, for the clipboard.                                   *)

\* (Mutant of MarkApplying: the clipboard is touched without the row.)
ApplyUnmarked(a) ==
  /\ pc[a] = "apply"
  /\ UNCHANGED journal
  /\ Goto(a, IF IsCached(a) THEN "index" ELSE "write")
  /\ UNCHANGED <<attempt, cards, inFlight, completed, disk, clip, proc, flags,
                 live, cancel, prev, shape, result, aux, faults, crashes>>

\* mark_clipboard_application: the row says ApplyingClipboard before the
\* native clipboard is touched.
MarkApplying(a) ==
  /\ pc[a] = "apply"
  /\ UpdateActivationState(a, "ApplyingClipboard")
  /\ Goto(a, IF IsCached(a) THEN "index" ELSE "write")
  /\ UNCHANGED <<attempt, cards, inFlight, completed, disk, clip, proc, flags,
                 live, cancel, prev, shape, result, aux, faults, crashes>>

MarkApplyingFails(a) ==
  /\ pc[a] = "apply"
  /\ FailTo(a, "cleanup", "ClipboardFailed")
  /\ UNCHANGED cleanupBlocked

\* (Mutant of IndexCandidate: the old object is evicted before the write.)
IndexAndEvict(a) ==
  /\ pc[a] = "index"
  /\ inFlight' = a /\ cache' = cache \ {completed}
  /\ Goto(a, "write")
  /\ UNCHANGED <<journal, attempt, cards, completed, staging, saved, clip, proc, flags,
                 live, cancel, prev, shape, result, aux, faults, crashes>>

\* set_clipboard_cache(in_flight): replaces whatever the slot held.
IndexCandidate(a) ==
  /\ pc[a] = "index"
  /\ inFlight' = a
  /\ Goto(a, "write")
  /\ UNCHANGED <<journal, attempt, cards, completed, disk, clip, proc, flags,
                 live, cancel, prev, shape, result, aux, faults, crashes>>

\* The slot cannot be written: the candidate is removed (or that fails too).
IndexCandidateFails(a) ==
  /\ pc[a] = "index"
  /\ Fault
  /\ \/ cache' = cache \ {a} /\ UNCHANGED cleanupBlocked
     \/ cache' = cache /\ cleanupBlocked' = TRUE
  /\ Goto(a, "cleanup") /\ SetResult(a, "ClipboardFailed")
  /\ UNCHANGED <<store, staging, saved, clip, proc, uncertainClipboard, live,
                 cancel, prev, shape, aux, crashes>>

\* The native write succeeds.
WriteClipboard(a) ==
  /\ pc[a] = "write"
  /\ clip' = a
  /\ wrote' = wrote \cup {a}
  /\ Goto(a, IF IsCached(a) THEN "promote" ELSE "finish")
  /\ UNCHANGED <<store, disk, proc, flags, live, cancel, prev, shape, result,
                 settled, leaked, overlapped, faults, crashes>>

\* The native write fails after it may have touched the clipboard: it was
\* cleared, or written and not confirmed, or the worker stopped.
WriteClipboardUncertain(a) ==
  /\ pc[a] = "write"
  /\ clip' \in {clip, None, a}
  /\ wrote' = wrote \cup {a}
  /\ uncertainClipboard' = TRUE
  /\ Goto(a, "uncertain")
  /\ UNCHANGED <<store, disk, proc, cleanupBlocked, live, cancel, prev, shape,
                 result, settled, leaked, overlapped, faults, crashes>>

\* The write fails before the clipboard is touched (queue full, no worker).
WriteClipboardFails(a) ==
  /\ pc[a] = "write"
  /\ Goto(a, IF IsCached(a) THEN "unindex" ELSE "cleanup")
  /\ SetResult(a, "ClipboardFailed")
  /\ UNCHANGED <<store, disk, clip, proc, flags, live, cancel, prev, shape,
                 aux, faults, crashes>>

\* clear_clipboard_cache(in_flight): whoever the slot names.
Unindex(a) ==
  /\ pc[a] = "unindex"
  /\ \/ inFlight' = None /\ UNCHANGED <<cleanupBlocked, faults>>
     \/ Fault /\ cleanupBlocked' = TRUE /\ UNCHANGED inFlight
  /\ Goto(a, "discard")
  /\ UNCHANGED <<journal, attempt, cards, completed, disk, clip, proc,
                 uncertainClipboard, live, cancel, prev, shape, result, aux,
                 crashes>>

\* remove_published_cache_object of the candidate that was not used.
Discard(a) ==
  /\ pc[a] = "discard"
  /\ \/ cache' = cache \ {a} /\ UNCHANGED <<cleanupBlocked, faults>>
     \/ Fault /\ cleanupBlocked' = TRUE /\ UNCHANGED cache
  /\ Goto(a, "cleanup")
  /\ UNCHANGED <<store, staging, saved, clip, proc, uncertainClipboard, live,
                 cancel, prev, shape, result, aux, crashes>>

\* promote_clipboard_cache: one transaction.
Promote(a) ==
  /\ pc[a] = "promote"
  /\ prev' = [prev EXCEPT ![a] = completed]
  /\ completed' = a
  /\ inFlight' = None
  /\ Goto(a, "evict")
  /\ UNCHANGED <<journal, attempt, cards, disk, clip, proc, flags, live,
                 cancel, shape, result, aux, faults, crashes>>

PromoteFails(a) ==
  /\ pc[a] = "promote"
  /\ FailTo(a, "uncertain", result[a])
  /\ UNCHANGED cleanupBlocked

\* (Mutant of Evict: the record is read again after the commit.)
EvictCurrent(a) ==
  /\ pc[a] = "evict"
  /\ cache' = IF prev[a] # None THEN cache \ {completed} ELSE cache
  /\ uncertainClipboard' = FALSE
  /\ Goto(a, "finish")
  /\ UNCHANGED <<store, staging, saved, clip, proc, cleanupBlocked, live,
                 cancel, prev, shape, result, aux, faults, crashes>>

\* (Mutant of Evict: nothing is ever evicted.)
EvictNothing(a) ==
  /\ pc[a] = "evict"
  /\ UNCHANGED cache
  /\ uncertainClipboard' = FALSE
  /\ Goto(a, "finish")
  /\ UNCHANGED <<store, staging, saved, clip, proc, cleanupBlocked, live,
                 cancel, prev, shape, result, aux, faults, crashes>>

\* The previous completed object is deleted and the uncertainty flag cleared.
Evict(a) ==
  /\ pc[a] = "evict"
  /\ cache' = IF prev[a] # a THEN cache \ {prev[a]} ELSE cache
  /\ uncertainClipboard' = FALSE
  /\ Goto(a, "finish")
  /\ UNCHANGED <<store, staging, saved, clip, proc, cleanupBlocked, live,
                 cancel, prev, shape, result, aux, faults, crashes>>

EvictFails(a) ==
  /\ pc[a] = "evict" /\ prev[a] # None
  /\ Fault
  /\ uncertainClipboard' = TRUE
  /\ Goto(a, "uncertain")
  /\ UNCHANGED <<store, disk, clip, proc, cleanupBlocked, live, cancel, prev,
                 shape, result, aux, crashes>>

-----------------------------------------------------------------------------
(* After the side effect.                                                  *)

\* cleanup_activation of the staging tree; the journal row is still there.
RemoveStaging(a) ==
  /\ pc[a] = "finish"
  /\ staging' = staging \ {a}
  /\ Goto(a, "complete")
  /\ UNCHANGED <<store, cache, saved, clip, proc, flags, live, cancel, prev,
                 shape, result, aux, faults, crashes>>

RecordCompletedState(a) ==
  /\ pc[a] = "complete"
  /\ UpdateActivationState(a, "Completed")
  /\ settled' = settled \cup {a}
  /\ Goto(a, "confirm")
  /\ UNCHANGED <<attempt, cards, inFlight, completed, disk, clip, proc, flags,
                 live, cancel, prev, shape, result, wrote, leaked, overlapped,
                 faults, crashes>>

\* record_offer_attempt(Completed) is refused by the store when the card has
\* been purged meanwhile; that is handled like a failed transaction.
RecordCompletedAttempt(a) ==
  /\ pc[a] = "confirm"
  /\ \/ /\ a \in cards
        /\ attempt' = [attempt EXCEPT ![a] = "Completed"]
        /\ Goto(a, "close") /\ UNCHANGED cleanupBlocked
     \/ /\ a \notin cards
        /\ cleanupBlocked' = TRUE
        /\ Goto(a, "uncertain") /\ UNCHANGED attempt
  /\ UNCHANGED <<journal, cards, inFlight, completed, disk, clip, proc,
                 uncertainClipboard, live, cancel, prev, shape, result, aux,
                 faults, crashes>>

\* The row is removed and the receipt sent; a lost receipt only changes what
\* the user is told.
Close(a) ==
  /\ pc[a] = "close"
  /\ RemoveActivationJournal(a)
  /\ \E r \in {"Completed", "Failed"} : Return(a, r)
  /\ UNCHANGED <<attempt, cards, inFlight, completed, disk, clip, proc, flags,
                 live, cancel, prev, shape, aux, faults, crashes>>

\* Any of the four finishing steps fails: the receiver blocks itself and the
\* activation ends as uncertain.
FinishFails(a) ==
  /\ pc[a] \in {"finish", "complete", "confirm", "close"}
  /\ FailTo(a, "uncertain", result[a])
  /\ cleanupBlocked' = TRUE

\* finish_uncertain, first transaction.
MarkUncertain(a) ==
  /\ pc[a] = "uncertain"
  /\ UpdateActivationState(a, "UncertainNoReplay")
  /\ Goto(a, "unrecorded")
  /\ UNCHANGED <<attempt, cards, inFlight, completed, disk, clip, proc, flags,
                 live, cancel, prev, shape, result, aux, faults, crashes>>

\* (Mutant of RecordUncertain: the card says that the application failed.)
RecordAsFailed(a) ==
  /\ pc[a] = "unrecorded"
  /\ \/ /\ a \in cards
        /\ attempt' = [attempt EXCEPT ![a] = "ClipboardFailed"]
        /\ uncertainClipboard' = (uncertainClipboard \/ IsClipboard(a))
        /\ Return(a, "UncertainNoReplay") /\ UNCHANGED cleanupBlocked
     \/ /\ a \notin cards
        /\ cleanupBlocked' = TRUE
        /\ Return(a, "InternalError") /\ UNCHANGED <<attempt, uncertainClipboard>>
  /\ UNCHANGED <<journal, cards, inFlight, completed, disk, clip, proc, live,
                 cancel, prev, shape, aux, faults, crashes>>

\* finish_uncertain, second transaction and the shared flag.
RecordUncertain(a) ==
  /\ pc[a] = "unrecorded"
  /\ \/ /\ a \in cards
        /\ attempt' = [attempt EXCEPT ![a] = "UncertainNoReplay"]
        /\ uncertainClipboard' = (uncertainClipboard \/ IsClipboard(a))
        /\ Return(a, "UncertainNoReplay") /\ UNCHANGED cleanupBlocked
     \/ /\ a \notin cards
        /\ cleanupBlocked' = TRUE
        /\ Return(a, "InternalError") /\ UNCHANGED <<attempt, uncertainClipboard>>
  /\ UNCHANGED <<journal, cards, inFlight, completed, disk, clip, proc, live,
                 cancel, prev, shape, aux, faults, crashes>>

UncertainFails(a) ==
  /\ pc[a] \in {"uncertain", "unrecorded"}
  /\ FailTo(a, "leave", "InternalError")
  /\ cleanupBlocked' = TRUE

-----------------------------------------------------------------------------
(* Retracting an activation that had no side effect.                       *)

\* cleanup_activation_state: first the staging tree ...
CleanupStaging(a) ==
  /\ pc[a] = "cleanup"
  /\ staging' = staging \ {a}
  /\ Goto(a, "unjournal")
  /\ UNCHANGED <<store, cache, saved, clip, proc, flags, live, cancel, prev,
                 shape, result, aux, faults, crashes>>

\* ... then the journal row.  A failed allocation is refused to the peer.
CleanupJournal(a) ==
  /\ pc[a] = "unjournal"
  /\ RemoveActivationJournal(a)
  /\ Goto(a, IF result[a] = "Refused" THEN "refuse" ELSE "record")
  /\ UNCHANGED <<attempt, cards, inFlight, completed, disk, clip, proc, flags,
                 live, cancel, prev, shape, result, aux, faults, crashes>>

\* (Mutant of CleanupFails: the row is removed although the tree is still there.)
CleanupIgnoresTree(a) ==
  /\ pc[a] = "cleanup"
  /\ FailTo(a, "unjournal", result[a])
  /\ cleanupBlocked' = TRUE

\* (Mutant of CleanupFails: admission is not blocked.)
CleanupFailsQuietly(a) ==
  /\ pc[a] \in {"cleanup", "unjournal"}
  /\ FailTo(a, "leave", "InternalError")
  /\ UNCHANGED cleanupBlocked

\* Either fails: the tree and the row stay, and admission is blocked.
CleanupFails(a) ==
  /\ pc[a] \in {"cleanup", "unjournal"}
  /\ FailTo(a, "leave", "InternalError")
  /\ cleanupBlocked' = TRUE

\* cleanup_staging goes on to remove the staging root all activations share
\* if it is empty.  It looks at the root twice: when another cleanup removes
\* the root in between, or the removal fails, this one fails although its own
\* tree is gone.
LoseRoot(a) ==
  /\ pc[a] \in {"cleanup", "finish"} /\ staging \subseteq {a}
  /\ \/ /\ \E b \in live \ {a} :
             pc[b] \in {"unjournal", "refuse", "record", "leave", "complete",
                       "confirm", "close"}
        /\ UNCHANGED faults
     \/ Fault
  /\ staging' = {}
  /\ cleanupBlocked' = TRUE
  /\ \/ pc[a] = "cleanup" /\ Return(a, "InternalError")
     \/ pc[a] = "finish" /\ Goto(a, "uncertain") /\ UNCHANGED result
  /\ UNCHANGED <<store, cache, saved, clip, proc, uncertainClipboard, live,
                 cancel, prev, shape, aux, crashes>>

\* (Mutant of RecordAttempt: refusal codes are stored as they are.)
RecordRaw(a) ==
  /\ pc[a] = "record"
  /\ \/ /\ a \in cards
        /\ attempt' = [attempt EXCEPT ![a] = result[a]]
        /\ Goto(a, "leave") /\ UNCHANGED <<result, faults>>
     \/ /\ IF a \in cards THEN Fault ELSE UNCHANGED faults
        /\ Return(a, "InternalError") /\ UNCHANGED attempt
  /\ UNCHANGED <<journal, cards, inFlight, completed, disk, clip, proc, flags,
                 live, cancel, prev, shape, aux, crashes>>

\* record_attempt_with_counts, whose error replaces the result.
RecordAttempt(a) ==
  /\ pc[a] = "record"
  /\ \/ /\ a \in cards
        /\ attempt' = [attempt EXCEPT ![a] = IF result[a] = "Refused" THEN "Failed" ELSE result[a]]
        /\ Goto(a, "leave") /\ UNCHANGED <<result, faults>>
     \/ /\ IF a \in cards THEN Fault ELSE UNCHANGED faults
        /\ Return(a, "InternalError") /\ UNCHANGED attempt
  /\ UNCHANGED <<journal, cards, inFlight, completed, disk, clip, proc, flags,
                 live, cancel, prev, shape, aux, crashes>>

\* StagingGuard::drop removes the staging tree ...
DropGuard(a) ==
  /\ pc[a] = "guard"
  /\ \/ staging' = staging \ {a} /\ Goto(a, "guardClean") /\ UNCHANGED <<leaked, faults>>
     \/ Fault /\ Goto(a, "guardDirty") /\ leaked' = leaked \cup {a} /\ UNCHANGED staging
  /\ UNCHANGED <<store, cache, saved, clip, proc, flags, live, cancel, prev,
                 shape, result, wrote, settled, overlapped, crashes>>

\* ... and then the journal row, whether or not the tree is gone.
DropGuardJournal(a) ==
  /\ pc[a] \in {"guardClean", "guardDirty"}
  /\ \/ /\ RemoveActivationJournal(a)
        /\ cleanupBlocked' = (cleanupBlocked \/ pc[a] = "guardDirty")
        /\ UNCHANGED faults
     \/ /\ Fault /\ cleanupBlocked' = TRUE /\ UNCHANGED journal
  /\ Goto(a, "leave")
  /\ UNCHANGED <<attempt, cards, inFlight, completed, disk, clip, proc,
                 uncertainClipboard, live, cancel, prev, shape, result, aux,
                 crashes>>

-----------------------------------------------------------------------------
(* The rest of the program, the user and the process.                      *)

\* on_cancel_activation: the watch channel carries TRUE from then on.  Once
\* the payload is verified nobody reads the channel any more.
Cancel(a) ==
  /\ a \in live \ cancel
  /\ pc[a] \in BeforeGate \cup {"reserve", "prepare", "accept", "receive"}
  /\ cancel' = cancel \cup {a}
  /\ UNCHANGED <<store, disk, clip, proc, flags, live, pc, prev, shape, result,
                 aux, faults, crashes>>

\* insert_offer_card of an eleventh offer purges the oldest card, whatever an
\* activation of it is doing.  (A card no activation names is not modelled.)
PurgeCard(a) ==
  /\ a \in live /\ a \in cards
  /\ cards' = cards \ {a}
  /\ UNCHANGED <<journal, attempt, inFlight, completed, disk, clip, proc,
                 flags, live, cancel, pc, prev, shape, result, aux, faults,
                 crashes>>

\* The process stops: threads and shared flags are gone.
Stop ==
  /\ proc # "down" /\ crashes < MaxCrashes
  /\ crashes' = crashes + 1
  /\ proc' = "down"
  /\ pc' = [a \in Activation |-> IF pc[a] = "new" THEN "new" ELSE "dead"]
  /\ live' = {} /\ cancel' = {}
  /\ prev' = [a \in Activation |-> None]
  /\ result' = [a \in Activation |-> "none"]
  /\ cleanupBlocked' = FALSE /\ uncertainClipboard' = FALSE
  /\ UNCHANGED <<store, disk, clip, shape, aux, faults>>

Start ==
  /\ proc = "down"
  /\ proc' = "staging"
  /\ UNCHANGED <<store, disk, clip, flags, live, cancel, pc, prev, shape,
                 result, aux, faults, crashes>>

\* startup_cleanup: one journaled staging tree is removed.
RecoverStaging(a) ==
  /\ proc = "staging" /\ a \in staging \cap Journaled
  /\ staging' = staging \ {a}
  /\ UNCHANGED <<store, cache, saved, clip, proc, flags, live, cancel, pc,
                 prev, shape, result, aux, faults, crashes>>

\* (Mutant of DropRecoveredRows: an interrupted application is not kept.)
DropAppliedRows ==
  /\ proc = "staging"
  /\ IF staging \cap Journaled = {} THEN UNCHANGED faults ELSE Fault
  /\ journal' = [a \in Activation |->
                   IF journal[a] = "UncertainNoReplay" \/ a \in staging
                     THEN journal[a] ELSE "absent"]
  /\ proc' = "rows"
  /\ UNCHANGED <<attempt, cards, inFlight, completed, disk, clip, flags, live,
                 cancel, pc, prev, shape, result, aux, crashes>>

\* Then, in one transaction, the rows whose tree is gone.  A tree that is left
\* over is one whose removal failed.
DropRecoveredRows ==
  /\ proc = "staging"
  /\ IF staging \cap Journaled = {} THEN UNCHANGED faults ELSE Fault
  /\ journal' = [a \in Activation |->
                   IF IsUncertainSideEffect(journal[a]) \/ a \in staging
                     THEN journal[a] ELSE "absent"]
  /\ proc' = "rows"
  /\ UNCHANGED <<attempt, cards, inFlight, completed, disk, clip, flags, live,
                 cancel, pc, prev, shape, result, aux, crashes>>

\* Then, one transaction each, the uncertain rows are recorded as such.
RecordRecoveredUncertain(a) ==
  /\ proc = "rows" /\ journal[a] = "ApplyingClipboard"
  /\ UpdateActivationState(a, "UncertainNoReplay")
  /\ UNCHANGED <<attempt, cards, inFlight, completed, disk, clip, proc, flags,
                 live, cancel, pc, prev, shape, result, aux, faults, crashes>>

\* (Mutant of JournalRecovered: uncertain rows count as failures.)
UncertainRowsAreFatal ==
  /\ proc = "rows"
  /\ \A a \in Activation : journal[a] # "ApplyingClipboard"
  /\ \/ /\ Journaled = {}
        /\ proc' = "cache"
        /\ uncertainClipboard' = HasUncertainSideEffect
     \/ /\ Journaled # {}
        /\ proc' = "down"
        /\ UNCHANGED uncertainClipboard
  /\ UNCHANGED <<store, disk, clip, cleanupBlocked, live, cancel, pc, prev,
                 shape, result, aux, faults, crashes>>

\* The end of startup_cleanup.  A row whose tree resisted removal makes it
\* fail, unless the row is uncertain; else the flag is read from the store.
JournalRecovered ==
  /\ proc = "rows"
  /\ \A a \in Activation : journal[a] # "ApplyingClipboard"
  /\ \/ /\ \A a \in Journaled : IsUncertainSideEffect(journal[a])
        /\ proc' = "cache"
        /\ uncertainClipboard' = HasUncertainSideEffect
     \/ /\ \E a \in Journaled : ~IsUncertainSideEffect(journal[a])
        /\ proc' = "down"
        /\ UNCHANGED uncertainClipboard
  /\ UNCHANGED <<store, disk, clip, cleanupBlocked, live, cancel, pc, prev,
                 shape, result, aux, faults, crashes>>

\* (Mutant of Unindexed: the in-flight slot is not consulted.)
NotCompleted == cache \ {completed}

\* Cache objects that neither slot of the index names.
Unindexed == cache \ {completed, inFlight}

\* cleanup_unindexed_cache_objects: remove_owned_tree takes directories only.
RecoverCache(a) ==
  /\ proc = "cache" /\ a \in Unindexed /\ shape[a] = "folder"
  /\ cache' = cache \ {a}
  /\ UNCHANGED <<store, staging, saved, clip, proc, flags, live, cancel, pc,
                 prev, shape, result, aux, faults, crashes>>

\* recover() fails, and both residents then exit: always when an unindexed
\* object is a regular file, else when a transaction or a removal fails.
RecoverFails ==
  /\ \/ proc \in {"staging", "rows", "cache"} /\ Fault
     \/ proc = "cache" /\ (\E a \in Unindexed : shape[a] = "file") /\ UNCHANGED faults
  /\ proc' = "down"
  /\ uncertainClipboard' = FALSE
  /\ UNCHANGED <<store, disk, clip, cleanupBlocked, live, cancel, pc, prev,
                 shape, result, aux, crashes>>

RecoverDone ==
  /\ proc = "cache" /\ Unindexed = {}
  /\ proc' = "up"
  /\ UNCHANGED <<store, disk, clip, flags, live, cancel, pc, prev, shape,
                 result, aux, faults, crashes>>

-----------------------------------------------------------------------------
Admit(a) ==
  \/ FailConnect(a) \/ EnterReceiver(a) \/ ReadPlan(a)
  \/ CheckUncertainty(a) \/ CheckUncertaintyFails(a)
  \/ RefuseReservation(a) \/ JournalActivation(a) \/ JournalActivationFails(a)
  \/ PrepareStaging(a) \/ PrepareStagingFails(a) \/ Accept(a) \/ AcceptFails(a)
  \/ RefuseAdmission(a)

Transfer(a) ==
  \/ Receive(a) \/ ReceiveFails(a) \/ VerifiedFails(a)
  \/ MarkPublishing(a) \/ MarkPublishingFails(a) \/ Place(a) \/ PlaceFails(a)

Apply(a) ==
  \/ MarkApplying(a) \/ MarkApplyingFails(a)
  \/ IndexCandidate(a) \/ IndexCandidateFails(a)
  \/ WriteClipboard(a) \/ WriteClipboardUncertain(a) \/ WriteClipboardFails(a)
  \/ Unindex(a) \/ Discard(a) \/ Promote(a) \/ PromoteFails(a)
  \/ Evict(a) \/ EvictFails(a)

Conclude(a) ==
  \/ RemoveStaging(a) \/ RecordCompletedState(a) \/ RecordCompletedAttempt(a)
  \/ Close(a) \/ FinishFails(a) \/ MarkUncertain(a) \/ RecordUncertain(a)
  \/ UncertainFails(a)

Retract(a) ==
  \/ CleanupStaging(a) \/ CleanupJournal(a) \/ CleanupFails(a) \/ LoseRoot(a)
  \/ RecordAttempt(a) \/ DropGuard(a) \/ DropGuardJournal(a)

\* A step of an activation's own thread.
Thread(a) ==
  Admit(a) \/ Transfer(a) \/ Apply(a) \/ Conclude(a) \/ Retract(a) \/ Leave(a)

Recover ==
  \/ Start \/ DropRecoveredRows \/ JournalRecovered \/ RecoverFails \/ RecoverDone
  \/ \E a \in Activation :
       RecoverStaging(a) \/ RecordRecoveredUncertain(a) \/ RecoverCache(a)

Next ==
  \/ \E a \in Activation :
       Activate(a) \/ Thread(a) \/ Cancel(a) \/ PurgeCard(a)
  \/ Recover
  \/ Stop

Spec == Init /\ [][Next]_vars

\* Threads run: every network wait is bounded by a timeout, and the clipboard
\* worker answers a write or stops.  A process that stopped is started again
\* and carries its recovery through.
Fairness == WF_vars(Recover) /\ \A a \in Activation : WF_vars(Thread(a))

FairSpec == Spec /\ Fairness

-----------------------------------------------------------------------------
(* Properties.                                                             *)

\* AttemptOutcome values the receiver stores in last_attempt.
Attempt == {"none", "Completed", "Busy", "Cancelled", "Failed",
            "ClipboardFailed", "UncertainNoReplay"}

StateTypeOK ==
  /\ journal \in [Activation -> JournalState]
  /\ attempt \in [Activation -> Attempt]
  /\ cards \subseteq Activation
  /\ inFlight \in Activation \cup {None}
  /\ completed \in Activation \cup {None}
  /\ staging \subseteq Activation
  /\ cache \subseteq Activation
  /\ saved \subseteq Activation
  /\ clip \in Activation \cup {None}
  /\ proc \in {"down", "staging", "rows", "cache", "up"}
  /\ live \subseteq Activation
  /\ cancel \subseteq Activation
  /\ pc \in [Activation -> PC]
  /\ prev \in [Activation -> Activation \cup {None}]
  /\ shape \in [Activation -> Shapes]
  /\ result \in [Activation -> Result]
  /\ wrote \subseteq Activation
  /\ settled \subseteq Activation
  /\ leaked \subseteq Activation
  /\ overlapped \subseteq Activation
  /\ faults \in Nat
  /\ crashes \in Nat

FlagsTypeOK == cleanupBlocked \in BOOLEAN /\ uncertainClipboard \in BOOLEAN

\* Every variable has its type; in particular record_offer_attempt is only
\* ever handed one of the outcomes the store knows.
TypeOK == StateTypeOK /\ FlagsTypeOK

\* SharedActivationOwner.live names exactly the activations whose thread is
\* running, on every exit path of the receiver and across restarts, and never
\* more than MAX_CONCURRENT_ACTIVATIONS of them.
LiveIsRunning ==
  /\ live = {a \in Activation : pc[a] \in Running}
  /\ Cardinality(live) <= MaxConcurrent

\* Write-ahead for the clipboard: an activation whose payload may have reached
\* the native clipboard has a row saying so, until the row has been completed.
\* Whatever the other threads, the failures and the crashes do in between.
WriteAhead ==
  \A a \in wrote : IsUncertainSideEffect(journal[a]) \/ a \in settled

\* Write-ahead for the disk: a staging directory has a journal row, so that
\* startup_cleanup finds it, unless a dropped guard failed to remove it.
StagingOwned == staging \subseteq Journaled \cup leaked

\* A clipboard application that a crash left uncertain stops every later
\* clipboard activation at the gate, whatever recovery, a lost cache slot or
\* another activation did to the flags in between: nothing is replayed.
UncertaintySurvivesRestart ==
  \A a, b \in Activation :
    /\ pc[b] = "dead" /\ IsClipboard(b) /\ IsUncertainSideEffect(journal[b])
    /\ IsClipboard(a)
    => pc[a] \notin AfterGate \cup Applied

\* The completed slot of the cache index names an object that exists: eviction
\* of a previous object, by any thread in any order, or recovery never takes
\* the one the index still owns.
CompletedIsOnDisk == completed # None => completed \in cache

\* Outside a running activation, staging residue exists only under an
\* uncertain row, or behind the cleanup_blocked flag that stops admission.
NoResidue ==
  proc = "up" /\ ~cleanupBlocked =>
    \A a \in staging \ leaked : a \in live \/ journal[a] = "UncertainNoReplay"

\* A card says Completed only if the payload really arrived where it was meant
\* to go and nothing of the transfer is left in staging.
CompletedMeansApplied ==
  \A a \in Activation :
    attempt[a] = "Completed" =>
      /\ a \notin staging
      /\ IF IsClipboard(a) THEN a \in wrote ELSE a \in saved

UncertainRowsKept ==
  \A a \in Activation :
    journal[a] = "UncertainNoReplay"
      \/ (pc[a] = "dead" /\ IsUncertainSideEffect(journal[a]))
    => IsUncertainSideEffect(journal'[a])

\* The record of an uncertain side effect is final: no later step, restart or
\* recovery removes it or turns it into something replayable, once the thread
\* that made it has decided or died.
UncertainIsFinal == [][UncertainRowsKept]_vars

\* The refinement mapping: how far the payload of an activation has got, and
\* what its card says of it.
Reached(a) == IF IsClipboard(a) THEN a \in wrote ELSE a \in saved

PhaseOf(a) ==
  IF journal[a] = "UncertainNoReplay" THEN "doubtful"
  ELSE IF a \in settled THEN "settled"
  ELSE IF Reached(a) THEN "delivered"
  ELSE IF journal[a] = "ApplyingClipboard" THEN "pledged"
  ELSE IF pc[a] \in {"new"} \cup BeforeGate \cup AfterGate THEN "open"
  ELSE "closed"

ToldOf(a) ==
  CASE attempt[a] = "none" -> "nothing"
    [] attempt[a] = "Completed" -> "completed"
    [] attempt[a] = "UncertainNoReplay" -> "uncertain"
    [] OTHER -> "failed"

Guarded == {a \in Activation : IsClipboard(a)}
Phase   == [a \in Activation |-> PhaseOf(a)]
Told    == [a \in Activation |-> ToldOf(a)]

Abstract == INSTANCE Delivery WITH
  Item <- Activation, guarded <- Guarded, phase <- Phase, told <- Told

\* The receiver implements Delivery, through every failure, process death and
\* recovery: a payload is put on the clipboard at most once and only under a
\* row that says so, and no card says failed of a payload that is there.
ImplementsDelivery == Abstract!Spec

\* Every admitted activation ends: no path of the receiver waits for another.
Terminates == \A a \in Activation : []<>(a \notin live)

\* Recovery comes to an end: a process that stopped and is started again is
\* eventually serving, whatever rows, trees and folders the crash left behind.
\* Only an unindexed plain file in the cache, which remove_owned_tree refuses,
\* keeps it from serving.
RecoversEventually ==
  []<>(proc = "up" \/ \E a \in Unindexed : shape[a] = "file")

\* An activation that shared its way to the clipboard with no other file or
\* folder: the object the clipboard points at exists.  Texts, saves and
\* activations that did overlap may run beside, before and after it.
SoleClipboardPathExists ==
  clip # None /\ IsCached(clip) /\ clip \notin overlapped => clip \in cache

\* The candidate of such an activation, once it may be on the clipboard, is
\* kept until the application is known to be complete: no later activation and
\* no recovery removes it.
SoleCandidateKept ==
  \A a \in wrote \ (settled \cup overlapped) : IsCached(a) => a \in cache

\* An idle receiver's cache holds the two indexed objects, what overlapping
\* activations left, and at most one object for each operation that failed
\* (a publication, row, slot, removal or eviction).
CacheIsBounded ==
  proc = "up" /\ live = {} =>
    Cardinality(cache \ ({completed, inFlight} \cup overlapped)) <= faults
-----------------------------------------------------------------------------
(* Promises of the documentation and the tests.                            *)

\* net/activation.rs: "Recovery cleanup runs once before the first admission",
\* so a process that is started again gets to admit activations.
RecoversAlways == proc # "up" ~> proc = "up"

\* fetch_receiver.rs, tests: the object the clipboard points at exists after
\* an activation has replaced and evicted an older one.
ClipboardPathExists ==
  clip # None /\ IsCached(clip) => clip \in cache

\* core/activation.rs: the cache is bounded to one completed and one in-flight
\* object: when nothing runs and nothing failed, the index names all there is.
CacheIsIndexed ==
  faults = 0 /\ proc = "up" /\ live = {} => cache \subseteq {completed, inFlight}

\* fetch_receiver.rs, test uncertain_candidate_survives_recovery_without_replay:
\* recovery removes no candidate that may be on the clipboard under a row that
\* calls its application uncertain.
UncertainCandidateKept ==
  [][proc = "cache" =>
       \A a \in wrote \cap (cache \ cache') : ~IsUncertainSideEffect(journal[a])]_vars

\* CHANGELOG: nothing that happens to a save stops clipboard activations; more
\* generally admission is blocked only when a removal or transaction failed.
BlockedOnlyByFailure == cleanupBlocked => faults > 0

\* store/v2.rs: a staging directory always has a committed journal row.
StagingJournaled == staging \subseteq Journaled
=============================================================================
