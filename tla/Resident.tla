------------------------------ MODULE Resident ------------------------------
(***************************************************************************)
(* Who is the resident process, and how others reach it.  A launch of the  *)
(* desktop or of `meshelfctl serve` becomes the resident by taking         *)
(* resident.lock, and publishes its control socket in the file             *)
(* "activation"; a second desktop signals it and leaves, and the other     *)
(* commands of meshelfctl send it one request each.  One thread of the     *)
(* resident serves its socket, one connection at a time.  In the desktop,  *)
(* clicks on cards start activations next to the ones requests start.      *)
(*                                                                         *)
(* What a request does is Offers', Peers' or Activation's; here it is      *)
(* performed or refused.  Processes die and quit at any step, a caller may *)
(* be suspended, and a socket may fail.                                    *)
(***************************************************************************)
EXTENDS Naturals, Sequences, FiniteSets

CONSTANTS
  Desktop, Serve,  \* launches of the desktop and of `meshelfctl serve`
  Call,            \* commands that send one request
  Click,           \* clicks on cards that may be under way at once
  CardOf,          \* the card of each click
  MaxPulls,        \* activations the window runs at once (2 in the code)
  MaxFaults        \* bound: crashes, failed operations, suspended callers

Launch == Desktop \cup Serve
Caller == Call \cup Launch
Nobody == "nobody"

ASSUME ResidentAssumption ==
  /\ IsFiniteSet(Caller) /\ Nobody \notin Caller
  /\ Desktop \cap Serve = {} /\ Launch \cap Call = {}
  /\ IsFiniteSet(Click) /\ CardOf \in [Click -> Nat]
  /\ MaxPulls \in Nat \ {0} /\ MaxFaults \in Nat

VARIABLES
  lock,      \* who holds resident.lock
  file,      \* the launch whose port and token the activation file names
  stage,     \* how far each launch is
  control,   \* its control thread: "none", "bound", "idle", "read", "work", "reply", "dead"
  serving,   \* the connection that thread serves
  answer,    \* the response it is about to write
  backlog,   \* connections it has not accepted yet
  pc,        \* the step of each caller
  to,        \* the launch it read from the activation file
  report,    \* what it reports in the end
  done,      \* requests that were performed
  click,     \* the step of each click
  active,    \* the desktop's active_activations, by card
  permits,   \* permits of its ActivationGate in use
  faults

process == <<lock, file, stage>>
thread  == <<control, serving, answer, backlog>>
callers == <<pc, to, report, done>>
window  == <<click, active, permits>>
vars    == <<process, thread, callers, window, faults>>

Init ==
  /\ lock = Nobody /\ file = Nobody
  /\ stage = [l \in Launch |-> "off"]
  /\ control = [l \in Launch |-> "none"] /\ serving = [l \in Launch |-> Nobody]
  /\ answer = [l \in Launch |-> "none"] /\ backlog = [l \in Launch |-> <<>>]
  /\ pc = [x \in Caller |-> "idle"] /\ to = [x \in Caller |-> Nobody]
  /\ report = [x \in Caller |-> "none"] /\ done = {}
  /\ click = [k \in Click |-> "none"] /\ active = {} /\ permits = 0
  /\ faults = 0

Fault == faults < MaxFaults /\ faults' = faults + 1
Stage(l, s) == stage' = [stage EXCEPT ![l] = s]
Control(l, s) == control' = [control EXCEPT ![l] = s]
Goto(x, s) == pc' = [pc EXCEPT ![x] = s]

\* A caller ends, with what it reports: "ok", "refused", or "failed" for
\* "could not contact the meshelf resident".
End(X, r) ==
  /\ pc' = [x \in Caller |-> IF x \in X THEN "ended" ELSE pc[x]]
  /\ report' = [x \in Caller |-> IF x \in X THEN r ELSE report[x]]
  /\ to' = [x \in Caller |-> IF x \in X THEN Nobody ELSE to[x]]

-----------------------------------------------------------------------------
(* Launching, publishing and leaving.                                      *)

\* acquire_resident_lock.  On contention a desktop signals the resident and
\* `serve` reports an error.
TryLock(l) ==
  /\ stage[l] = "off"
  /\ \/ /\ lock = Nobody /\ lock' = l
        /\ Stage(l, "locked") /\ UNCHANGED pc
     \/ /\ lock # Nobody /\ l \in Desktop
        /\ Stage(l, "signal") /\ Goto(l, "lookup") /\ UNCHANGED lock
     \/ /\ lock # Nobody /\ l \in Serve
        /\ Stage(l, "gone") /\ UNCHANGED <<lock, pc>>
  /\ UNCHANGED <<file, thread, to, report, done, window, faults>>

StoreIsOpen(l) == stage[l] \in {"prepared", "removed", "up", "quit", "cleaned", "unlocked"}

\* State loaded, offer store opened (it has a lock of its own), version 1
\* records migrated, activations recovered, the control socket bound.
Prepare(l) ==
  /\ stage[l] = "locked" /\ \A m \in Launch \ {l} : ~StoreIsOpen(m)
  /\ Stage(l, "prepared") /\ Control(l, "bound")
  /\ UNCHANGED <<lock, file, serving, answer, backlog, callers, window, faults>>

\* Any of it fails and main returns; ActivationCleanup is already in scope in
\* the desktop.
PrepareFails(l) ==
  /\ stage[l] = "locked"
  /\ Fault \/ (UNCHANGED faults /\ \E m \in Launch \ {l} : StoreIsOpen(m))
  /\ Stage(l, IF l \in Desktop THEN "quit" ELSE "cleaned")
  /\ UNCHANGED <<lock, file, thread, callers, window>>

\* write_activation removes the old file and renames the new one into place;
\* then the thread is spawned.
RemoveOldFile(l) ==
  /\ stage[l] = "prepared" /\ Stage(l, "removed") /\ file' = Nobody
  /\ UNCHANGED <<lock, thread, callers, window, faults>>

Publish(l) ==
  /\ stage[l] = "removed" /\ Stage(l, "up") /\ file' = l
  /\ Control(l, "idle")
  /\ UNCHANGED <<lock, serving, answer, backlog, callers, window, faults>>

Window(l) == l \in Desktop /\ stage[l] = "up"
NoWindow == click' = [k \in Click |-> "none"] /\ active' = {} /\ permits' = 0

\* The user quits; `serve` has no way to stop but being killed.
Quit(l) ==
  /\ Window(l) /\ Stage(l, "quit") /\ NoWindow
  /\ UNCHANGED <<lock, file, thread, callers, faults>>

\* Locals are dropped in reverse order: first ActivationCleanup removes the
\* file, whoever it names, and then the lock is released.
CleanUp(l) ==
  /\ stage[l] = "quit" /\ Stage(l, "cleaned") /\ file' = Nobody
  /\ UNCHANGED <<lock, thread, callers, window, faults>>

Unlock(l) ==
  /\ stage[l] = "cleaned" /\ Stage(l, "unlocked") /\ lock' = Nobody
  /\ UNCHANGED <<file, thread, callers, window, faults>>

\* The callers whose connection the process has.
Connected(l) == {x \in Caller : to[x] = l /\ pc[x] \in {"send", "await"}}

\* With the process its control thread ends, in whatever it was doing, and
\* every connection is closed.
Die(l) ==
  /\ Stage(l, "gone") /\ Control(l, "none")
  /\ serving' = [serving EXCEPT ![l] = Nobody] /\ answer' = [answer EXCEPT ![l] = "none"]
  /\ backlog' = [backlog EXCEPT ![l] = <<>>]
  /\ End(Connected(l), "failed")
  /\ UNCHANGED <<file, done>>

Exit(l) ==
  /\ stage[l] = "unlocked" /\ Die(l)
  /\ UNCHANGED <<lock, window, faults>>

\* The file of a process that was killed stays, and names it.
Crash(l) ==
  /\ stage[l] \notin {"off", "signal", "gone"} /\ Fault /\ Die(l)
  /\ lock' = IF lock = l THEN Nobody ELSE lock
  /\ IF Window(l) THEN NoWindow ELSE UNCHANGED window

-----------------------------------------------------------------------------
(* Callers: request, and signal of a second desktop.                       *)

StartCall(c) ==
  /\ pc[c] = "idle" /\ Goto(c, "lookup")
  /\ UNCHANGED <<process, thread, to, report, done, window, faults>>

\* read_activation
Lookup(x) ==
  /\ pc[x] = "lookup"
  /\ IF file = Nobody THEN End({x}, "failed")
     ELSE Goto(x, "connect") /\ to' = [to EXCEPT ![x] = file] /\ UNCHANGED report
  /\ UNCHANGED <<process, thread, done, window, faults>>

\* connect_timeout: the listener's queue takes the connection whatever its
\* thread is doing; a stale file leads nowhere.
Connect(x) ==
  /\ pc[x] = "connect"
  /\ IF control[to[x]] \in {"none", "dead"}
     THEN End({x}, "failed") /\ UNCHANGED backlog
     ELSE /\ Goto(x, "send") /\ UNCHANGED <<to, report>>
          /\ backlog' = [backlog EXCEPT ![to[x]] = Append(@, x)]
  /\ UNCHANGED <<process, control, serving, answer, done, window, faults>>

\* Token and request are written; a signal is the token and the end of the
\* stream, and needs no answer.
Send(x) ==
  /\ pc[x] = "send"
  /\ IF x \in Call THEN Goto(x, "await") /\ UNCHANGED <<to, report>> ELSE End({x}, "ok")
  /\ UNCHANGED <<process, thread, done, window, faults>>

\* READ_TIMEOUT: the caller stops waiting, whatever the resident is doing.
TimesOut(c) ==
  /\ pc[c] = "await" /\ End({c}, "failed")
  /\ UNCHANGED <<process, thread, done, window, faults>>

\* The caller is suspended with its connection open.
Suspend(x) ==
  /\ pc[x] = "send" /\ Goto(x, "suspended") /\ Fault
  /\ UNCHANGED <<process, thread, to, report, done, window>>

\* (Mutant of LeaveAfterSignal: ActivationCleanup was in scope before the lock
\* was tried.)
LeaveAndCleanUp(l) ==
  /\ stage[l] = "signal" /\ pc[l] = "ended" /\ Stage(l, "gone")
  /\ file' = Nobody
  /\ UNCHANGED <<lock, thread, callers, window, faults>>

\* main returns: the lock was never held and nothing is cleaned up.
LeaveAfterSignal(l) ==
  /\ stage[l] = "signal" /\ pc[l] = "ended" /\ Stage(l, "gone")
  /\ UNCHANGED <<lock, file, thread, callers, window, faults>>

-----------------------------------------------------------------------------
(* The control thread: listener.incoming and handle_connection.            *)

Accept(l) ==
  /\ control[l] = "idle" /\ backlog[l] # <<>>
  /\ Control(l, "read")
  /\ serving' = [serving EXCEPT ![l] = Head(backlog[l])]
  /\ backlog' = [backlog EXCEPT ![l] = Tail(@)]
  /\ UNCHANGED <<process, answer, callers, window, faults>>

Finish(l) ==
  /\ Control(l, "idle")
  /\ serving' = [serving EXCEPT ![l] = Nobody] /\ answer' = [answer EXCEPT ![l] = "none"]

\* The token, and then the end of the stream - the window is raised, and
\* `serve` does nothing - or a request, also of a caller that has given up.
ReadRequest(l) ==
  /\ control[l] = "read" /\ pc[serving[l]] \notin {"send", "suspended"}
  /\ IF serving[l] \in Call THEN Control(l, "work") /\ UNCHANGED <<serving, answer>> ELSE Finish(l)
  /\ UNCHANGED <<process, backlog, callers, window, faults>>

\* (Mutant of ReadTimesOut: no read timeout on the accepted stream.)
ReadForEver(l) == FALSE /\ UNCHANGED vars

\* Nothing to read for READ_TIMEOUT: the connection is closed.
ReadTimesOut(l) ==
  /\ control[l] = "read" /\ pc[serving[l]] \in {"send", "suspended"}
  /\ Finish(l)
  /\ IF pc[serving[l]] = "send" THEN End({serving[l]}, "failed") ELSE UNCHANGED <<pc, to, report>>
  /\ UNCHANGED <<process, backlog, done, window, faults>>

\* dispatch_with_runtime: on this thread, for as long as it takes.  An
\* announcement that reached nobody is refused although its offer exists; no
\* command sends CancelActivation, whose acknowledgement does nothing.
Perform(l) ==
  /\ control[l] = "work" /\ Control(l, "reply")
  /\ \/ done' = done \cup {serving[l]} /\ \E a \in {"ok", "refused"} : answer' = [answer EXCEPT ![l] = a]
     \/ done' = done /\ answer' = [answer EXCEPT ![l] = "refused"]
  /\ UNCHANGED <<process, serving, backlog, pc, to, report, window, faults>>

\* The response is written; a caller that has gone is not told.
Reply(l) ==
  /\ control[l] = "reply" /\ Finish(l)
  /\ IF pc[serving[l]] = "await" THEN End({serving[l]}, answer[l]) ELSE UNCHANGED <<pc, to, report>>
  /\ UNCHANGED <<process, backlog, done, window, faults>>

\* The response is too large, or the write fails: the stream just ends.
ReplyFails(l) ==
  /\ control[l] = "reply" /\ Finish(l) /\ Fault
  /\ IF pc[serving[l]] = "await" THEN End({serving[l]}, "failed") ELSE UNCHANGED <<pc, to, report>>
  /\ UNCHANGED <<process, backlog, done, window>>

\* An error from accept ends the thread and removes the file; the process
\* stays, with the lock.
AcceptFails(l) ==
  /\ control[l] = "idle" /\ Fault /\ Control(l, "dead")
  /\ file' = Nobody
  /\ backlog' = [backlog EXCEPT ![l] = <<>>]
  /\ End(Connected(l), "failed")
  /\ UNCHANGED <<lock, stage, serving, answer, done, window>>

-----------------------------------------------------------------------------
(* Clicks in the desktop: on_activate_offer.                               *)

\* A refresh goes first; a click while one runs does nothing.
ClickCard(k) ==
  /\ click[k] = "none" /\ \E l \in Launch : Window(l)
  /\ \A j \in Click : click[j] # "refresh"
  /\ click' = [click EXCEPT ![k] = "refresh"]
  /\ UNCHANGED <<process, thread, callers, active, permits, faults>>

\* The permit of the refresh is dropped before its completion reaches the
\* event loop: the next click may come first.
Refreshed(k) ==
  /\ click[k] = "refresh" /\ click' = [click EXCEPT ![k] = "complete"]
  /\ UNCHANGED <<process, thread, callers, active, permits, faults>>

\* (Mutant of AlreadyActive: the check before the refresh is relied on.)
NeverActive(k) == FALSE
AlreadyActive(k) == CardOf[k] \in active

\* The completion, on the event loop: the refresh failed, the card cannot be
\* planned, it is active already, there is no clipboard, no permit is left,
\* or the peer is not known - or the activation is registered and started.
Complete(k) ==
  /\ click[k] = "complete"
  /\ IF AlreadyActive(k) \/ permits = MaxPulls
     THEN click' = [click EXCEPT ![k] = "none"] /\ UNCHANGED <<active, permits>>
     ELSE /\ click' = [click EXCEPT ![k] = "pulling"]
          /\ active' = active \cup {CardOf[k]} /\ permits' = permits + 1
  /\ UNCHANGED <<process, thread, callers, faults>>

CompleteRefuses(k) ==
  /\ click[k] = "complete" /\ click' = [click EXCEPT ![k] = "none"]
  /\ UNCHANGED <<process, thread, callers, active, permits, faults>>

\* run_activation returns: remove_active_activation, and the permit.
Pulled(k) ==
  /\ click[k] = "pulling" /\ click' = [click EXCEPT ![k] = "none"]
  /\ active' = active \ {CardOf[k]} /\ permits' = permits - 1
  /\ UNCHANGED <<process, thread, callers, faults>>

-----------------------------------------------------------------------------
ProcessStep(l) ==
  \/ TryLock(l) \/ Prepare(l) \/ PrepareFails(l) \/ RemoveOldFile(l) \/ Publish(l)
  \/ CleanUp(l) \/ Unlock(l) \/ Exit(l) \/ LeaveAfterSignal(l)

CallerStep(x) == Lookup(x) \/ Connect(x) \/ Send(x)

ThreadStep(l) == Accept(l) \/ ReadRequest(l) \/ ReadTimesOut(l) \/ Perform(l) \/ Reply(l)

ClickStep(k) == Refreshed(k) \/ Complete(k) \/ CompleteRefuses(k) \/ Pulled(k)

Next ==
  \/ \E l \in Launch : ProcessStep(l) \/ Quit(l) \/ Crash(l)
  \/ \E l \in Launch : ThreadStep(l) \/ ReplyFails(l) \/ AcceptFails(l)
  \/ \E x \in Caller : CallerStep(x) \/ Suspend(x)
  \/ \E c \in Call : StartCall(c) \/ TimesOut(c)
  \/ \E k \in Click : ClickCard(k) \/ ClickStep(k)

Spec == Init /\ [][Next]_vars

\* The control thread runs, its reads time out and what it performs ends.
FairSpec == Spec /\ \A l \in Launch : WF_vars(ThreadStep(l))

-----------------------------------------------------------------------------
\* The resident that serves is the one everybody finds: as long as its control
\* thread runs and it has not been told to quit, the activation file names it.
\* No launch that fails, leaves or was the resident before may take the file
\* away from under it.
ServingIsPublished ==
  \A l \in Launch : stage[l] = "up" /\ control[l] # "dead" => file = l /\ lock = l

\* Every pull the window runs holds a permit and its card's entry, and a card
\* is pulled by one click at a time, however clicks, refreshes and completions
\* follow each other: otherwise the first to end would take the other's entry,
\* and with it the way to cancel it.
OnePullPerCard ==
  LET pulls == {k \in Click : click[k] = "pulling"} IN
  /\ permits = Cardinality(pulls)
  /\ active = {CardOf[k] : k \in pulls}
  /\ \A j, k \in pulls : CardOf[j] = CardOf[k] => j = k

\* No caller holds the one control thread: whatever connection it has taken, a
\* suspended caller's too, it lets go of again.
ControlComesBack == \A l \in Launch : serving[l] # Nobody ~> serving[l] = Nobody

\* What a failed command tells its user, "could not contact the meshelf
\* resident", taken at its word: the request was not carried out.  It does not
\* hold of the code: the resident goes on after the caller's timeout, and a
\* response may be lost when it is written.
FailureMeansNotDone == \A c \in Call : report[c] = "failed" => c \notin done
=============================================================================
