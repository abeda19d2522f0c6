------------------------------ MODULE ShelfView ------------------------------
(***************************************************************************)
(* The shelf shown by the desktop window.  Changes of the card table and   *)
(* of the set of running activations happen on other threads; a change is  *)
(* followed by a notification or a refresh request, each of which starts a *)
(* thread that reads both and hands a snapshot to the window.  There is no *)
(* timer: what no refresh shows is not shown.  One kind of change is not   *)
(* followed by anything: the attempt of an activation that came through    *)
(* the control channel.                                                    *)
(*                                                                         *)
(* The contents are version counters: cards counts the committed changes   *)
(* of the card table, active those of the set of activations.  Handing the *)
(* snapshot to the event loop and applying it there is one step, because   *)
(* the event loop runs what it is handed in that order.                    *)
(***************************************************************************)
EXTENDS Naturals

CONSTANTS
  Refresher,      \* bound: refresh threads alive at a time
  MaxActivations, \* ActivationGate: activations at a time
  MaxChanges,     \* bound: changes of the card table
  MaxActive,      \* bound: changes of the set of activations, starts and ends
  MaxRemote,      \* bound: changes among them made through the control channel
  MaxNudges,      \* bound: refreshes without a change
  MaxFaults       \* bound: reads that fail

ASSUME ShelfViewAssumption ==
  /\ MaxActivations \in Nat /\ MaxChanges \in Nat /\ MaxActive \in Nat
  /\ MaxRemote \in Nat /\ MaxNudges \in Nat /\ MaxFaults \in Nat

VARIABLES
  cards,     \* version of the card table
  active,    \* version of active_activations
  pulling,   \* activations registered and not removed
  committed, \* inserts committed whose notify() is still to come
  queue,     \* notifications in the subscriber's channel
  owed,      \* refreshes a thread is about to start
  pc,        \* refresh threads: "idle", "start", "half", "loaded"
  snap,      \* what a refresh thread has read
  view,      \* the snapshot the window shows
  up,        \* the window has asked for its first refresh
  nudges, faults, remote,
  (* History.                                                              *)
  signalled, \* version of the last card change that a refresh follows
  shown,     \* every snapshot the window has shown
  told       \* states in which the window reported a failed read

threads == <<pc, snap>>
source  == <<cards, active, pulling, signalled, remote>>
signals == <<committed, queue, owed, up>>
history == <<shown, told>>
vars    == <<source, signals, threads, view, nudges, faults, history>>

Version  == [cards : 0..MaxChanges, active : 0..MaxActive]
Current  == [cards |-> cards, active |-> active]

\* The cards of an earlier process are version 0 of the table; the window is
\* empty until the first refresh.
Empty == [cards |-> 0, active |-> 0]

Init ==
  /\ cards = 0 /\ active = 0 /\ pulling = 0
  /\ committed = 0 /\ queue = 0 /\ owed = 0
  /\ pc = [r \in Refresher |-> "idle"]
  /\ snap = [r \in Refresher |-> Empty]
  /\ view = Empty
  /\ up = FALSE
  /\ nudges = 0 /\ faults = 0 /\ remote = 0
  /\ signalled = 0
  /\ shown = {} /\ told = {}

\* The window subscribes and then asks for its first refresh.
Open ==
  /\ ~up
  /\ up' = TRUE
  /\ owed' = owed + 1
  /\ UNCHANGED <<source, committed, queue, threads, view, nudges, faults, history>>

-----------------------------------------------------------------------------
(* Changes.                                                                *)

\* (Mutant of InsertCard: the wrapper takes a new card for a duplicate.)
InsertQuietly ==
  /\ up
  /\ cards < MaxChanges
  /\ cards' = cards + 1
  /\ signalled' = cards + 1
  /\ UNCHANGED <<active, pulling, remote, committed, queue, owed, up, threads, view,
                 nudges, faults, history>>

\* handle_sync inserts a card; its transaction commits before the wrapper
\* notifies.
InsertCard ==
  /\ up
  /\ cards < MaxChanges
  /\ cards' = cards + 1
  /\ signalled' = cards + 1
  /\ committed' = committed + 1
  /\ UNCHANGED <<active, pulling, remote, queue, owed, up, threads, view, nudges, faults,
                 history>>

\* ShelfChangeNotifier::notify
Notify ==
  /\ committed > 0
  /\ committed' = committed - 1
  /\ queue' = queue + 1
  /\ UNCHANGED <<source, owed, up, threads, view, nudges, faults, history>>

\* create_offer notifies although no card changes, and the refresh button asks
\* for a refresh.
Nudge ==
  /\ up
  /\ nudges < MaxNudges
  /\ nudges' = nudges + 1
  /\ \/ queue' = queue + 1 /\ owed' = owed
     \/ owed' = owed + 1 /\ queue' = queue
  /\ UNCHANGED <<source, committed, up, threads, view, faults, history>>

\* register_active_activation, then a refresh.
RegisterActivation ==
  /\ up
  /\ pulling < MaxActivations
  /\ active + pulling + 2 <= MaxActive
  /\ active' = active + 1
  /\ pulling' = pulling + 1
  /\ owed' = owed + 1
  /\ UNCHANGED <<cards, signalled, remote, committed, queue, up, threads, view, nudges,
                 faults, history>>

\* record_offer_attempt by an activation the window started: the store handle
\* of an activation does not notify, its end asks for a refresh.
RecordAttempt ==
  /\ pulling > 0
  /\ cards < MaxChanges
  /\ cards' = cards + 1
  /\ signalled' = cards + 1
  /\ UNCHANGED <<active, pulling, remote, signals, threads, view, nudges, faults, history>>

\* The same by an activation that DesktopLocalRuntime::activate runs for a
\* command: it is not registered, and nothing asks for a refresh when it ends.
RecordRemoteAttempt ==
  /\ remote < MaxRemote
  /\ cards < MaxChanges
  /\ cards' = cards + 1
  /\ remote' = remote + 1
  /\ UNCHANGED <<active, pulling, signalled, signals, threads, view, nudges, faults,
                 history>>

\* remove_active_activation, then a refresh.
FinishActivation ==
  /\ pulling > 0
  /\ active' = active + 1
  /\ pulling' = pulling - 1
  /\ owed' = owed + 1
  /\ UNCHANGED <<cards, signalled, remote, committed, queue, up, threads, view, nudges,
                 faults, history>>

-----------------------------------------------------------------------------
(* Refreshing.                                                             *)

Spawn(r) ==
  /\ pc[r] = "idle"
  /\ pc' = [pc EXCEPT ![r] = "start"]
  /\ UNCHANGED snap

End(r) ==
  /\ pc' = [pc EXCEPT ![r] = "idle"]
  /\ snap' = [snap EXCEPT ![r] = Empty]

\* (Mutant of TakeNotification: one refresh at a time is thought to be enough.)
TakeUnlessRefreshing(r) ==
  /\ queue > 0
  /\ queue' = queue - 1
  /\ IF \A s \in Refresher : pc[s] = "idle" THEN Spawn(r) ELSE UNCHANGED threads
  /\ UNCHANGED <<source, committed, owed, up, view, nudges, faults, history>>

\* The subscriber's loop.
TakeNotification(r) ==
  /\ queue > 0
  /\ queue' = queue - 1
  /\ Spawn(r)
  /\ UNCHANGED <<source, committed, owed, up, view, nudges, faults, history>>

\* refresh_shelf_in_background, called directly.
StartRefresh(r) ==
  /\ owed > 0
  /\ owed' = owed - 1
  /\ Spawn(r)
  /\ UNCHANGED <<source, committed, queue, up, view, nudges, faults, history>>

\* load_shelf_snapshot: read_offer_shelf first ...
LoadCards(r) ==
  /\ pc[r] = "start"
  /\ pc' = [pc EXCEPT ![r] = "half"]
  /\ snap' = [snap EXCEPT ![r].cards = cards]
  /\ UNCHANGED <<source, signals, view, nudges, faults, history>>

\* ... then, under its own lock, the running activations.
LoadActive(r) ==
  /\ pc[r] = "half"
  /\ pc' = [pc EXCEPT ![r] = "loaded"]
  /\ snap' = [snap EXCEPT ![r].active = active]
  /\ UNCHANGED <<source, signals, view, nudges, faults, history>>

\* A read fails: the window shows the error instead of a snapshot.
LoadFails(r) ==
  /\ pc[r] \in {"start", "half"}
  /\ faults < MaxFaults
  /\ faults' = faults + 1
  /\ End(r)
  /\ told' = told \cup {Current}
  /\ UNCHANGED <<source, signals, view, nudges, shown>>

\* apply_shelf_snapshot on the event loop replaces whatever was shown.
ApplySnapshot(r) ==
  /\ pc[r] = "loaded"
  /\ End(r)
  /\ view' = snap[r]
  /\ shown' = shown \cup {snap[r]}
  /\ UNCHANGED <<source, signals, nudges, faults, told>>

-----------------------------------------------------------------------------
Refresh(r) ==
  \/ TakeNotification(r)
  \/ StartRefresh(r)
  \/ LoadCards(r)
  \/ LoadActive(r)
  \/ LoadFails(r)
  \/ ApplySnapshot(r)

Next ==
  \/ Open
  \/ InsertCard
  \/ Notify
  \/ Nudge
  \/ RegisterActivation
  \/ RecordAttempt
  \/ RecordRemoteAttempt
  \/ FinishActivation
  \/ \E r \in Refresher : Refresh(r)

Spec == Init /\ [][Next]_vars

\* Threads that can run do: the writer that is about to notify, the
\* subscriber, the callers and the refresh threads, and the event loop.
FairSpec ==
  /\ Spec
  /\ WF_vars(Open)
  /\ WF_vars(Notify)
  /\ WF_vars(FinishActivation)
  /\ WF_vars(\E r \in Refresher : StartRefresh(r))
  /\ WF_vars(\E r \in Refresher : TakeNotification(r))
  /\ \A r \in Refresher :
       WF_vars(LoadCards(r) \/ LoadActive(r) \/ LoadFails(r) \/ ApplySnapshot(r))

-----------------------------------------------------------------------------
(* Properties.                                                             *)

\* Every variable keeps its type; only versions that exist are shown.
TypeOK ==
  /\ cards \in 0..MaxChanges
  /\ signalled \in 0..cards
  /\ remote \in 0..MaxRemote
  /\ active \in 0..MaxActive
  /\ pulling \in 0..MaxActivations
  /\ committed \in Nat /\ queue \in Nat /\ owed \in Nat
  /\ pc \in [Refresher -> {"idle", "start", "half", "loaded"}]
  /\ snap \in [Refresher -> Version]
  /\ view \in Version
  /\ up \in BOOLEAN
  /\ nudges \in 0..MaxNudges
  /\ faults \in 0..MaxFaults
  /\ shown \subseteq Version
  /\ told \subseteq Version

\* Nothing is under way any more.
Quiet ==
  /\ up
  /\ pulling = 0 /\ committed = 0 /\ queue = 0 /\ owed = 0
  /\ \A r \in Refresher : pc[r] = "idle"

\* v shows the running activations as they are, and the card table as of its
\* last change that a refresh follows or later.
UpToDate(v) == v.active = active /\ v.cards >= signalled

\* No refresh is lost: once nothing is under way, the window has shown the
\* last signalled change of the cards and the activations together, in one
\* snapshot although the two are read one after the other, or has reported
\* that it could not.
NoLostRefresh == Quiet => \E v \in shown \cup told : UpToDate(v)

\* Every change of the card table but those of control-channel activations
\* reaches the window, in this or a later version, or a failed read is
\* reported.
ChangesReachTheWindow ==
  \A n \in 1..MaxChanges :
    signalled >= n ~> (\E v \in shown : v.cards >= n) \/ told # {}

\* "shelf_updates_without_a_timer": once nothing is under way, the last state
\* of the store was shown or a failed read reported.  An attempt recorded for
\* a control-channel command breaks it.
ShelfUpdatesWithoutATimer == Quiet => Current \in shown \cup told

\* "consumers reread the v2 store after receiving it, so the store remains the
\* sole shelf authority": once nothing is under way and no read has failed, the
\* window shows the store.
WindowShowsTheStore == Quiet /\ told = {} => view = Current
=============================================================================
