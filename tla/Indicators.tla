----------------------------- MODULE Indicators -----------------------------
(***************************************************************************)
(* The row of peer indicators in the desktop window.  A refresh thread     *)
(* computes a view and hands it to the event loop after it has let go of   *)
(* the refresh gate; a send thread hands over what it learns of each peer. *)
(* The two meet in one table, PeerIndicatorStates, and nothing orders a    *)
(* view against a later refresh's view or against a send's updates.        *)
(*                                                                         *)
(* The event loop runs what it is handed in the order it is handed, so     *)
(* handing over and applying are one step.  What state.json holds is the   *)
(* business of Peers: a transaction leaves any list of paired devices.     *)
(***************************************************************************)
EXTENDS Naturals

CONSTANTS
  Device,        \* other installations
  MaxRefreshes,  \* bound: refreshes
  MaxOffers      \* bound: offers announced

ASSUME IndicatorsAssumption == MaxRefreshes \in Nat /\ MaxOffers \in Nat

VARIABLES
  gate,       \* refresh_gate: the permit is out
  step,       \* of the refresh thread: "idle", "discover", "probe" or "pair"
  paired,     \* Controller.installation.peers
  reachable,  \* Controller.reachable_peers
  found,      \* candidates still to be accepted
  results,    \* what refreshes that let go of the gate have yet to hand over
  sending,    \* send_gate: the permit is out
  ann,        \* each peer's part of the running fan-out
  indicator,  \* PeerIndicatorStates, with "none" for no entry
  refreshes, offers,  \* bounds used up
  (* History: who answered the probes of each refresh, the latest refresh   *)
  (* that probed, the one whose result was applied last, and who            *)
  (* acknowledged the last announcement that ended                          *)
  answered, probed, applied, acked

refresh == <<gate, step, paired, reachable, found>>
send    == <<sending, ann, offers>>
vars    == <<refresh, results, send, indicator, refreshes, answered, probed, applied, acked>>

Refresh == 1 .. MaxRefreshes
Results == [n : Refresh, ok : BOOLEAN, peers : SUBSET Device, reachable : SUBSET Device]

Init ==
  /\ gate = FALSE /\ step = "idle" /\ paired \in SUBSET Device
  /\ reachable = {} /\ found = {} /\ results = {}
  /\ sending = FALSE /\ ann = [d \in Device |-> "none"]
  /\ indicator = [d \in Device |-> "none"]
  /\ refreshes = 0 /\ offers = 0
  /\ answered = [n \in Refresh |-> {}] /\ probed = 0 /\ applied = 0 /\ acked = {}

-----------------------------------------------------------------------------
(* refresh_in_background: at launch, on request and before an activation.  *)
BeginRefresh ==
  /\ ~gate /\ refreshes < MaxRefreshes
  /\ gate' = TRUE /\ step' = "discover" /\ refreshes' = refreshes + 1
  /\ UNCHANGED <<paired, reachable, found, results, send, indicator, answered, probed, applied, acked>>

(* refresh_discovery saves the addresses it found and loads the peers.     *)
Discover ==
  /\ step = "discover" /\ step' = "probe"
  /\ paired' \in SUBSET Device
  /\ UNCHANGED <<gate, reachable, found, results, send, indicator, refreshes, answered, probed, applied, acked>>

\* (Mutant of Reachable: the devices an earlier refresh found stay reachable.)
ReachableEver(who) == reachable \union (who \cap paired)

(* Who counts as reachable once `who` have answered: paired devices only.  *)
Reachable(who) == who \cap paired

(* refresh_reachability: the probes, and the devices to accept.            *)
Probe ==
  /\ step = "probe" /\ step' = "pair"
  /\ \E who \in SUBSET Device :
       /\ reachable' = Reachable(who)
       /\ found' = who
       /\ answered' = [answered EXCEPT ![refreshes] = who]
  /\ probed' = refreshes
  /\ UNCHANGED <<gate, paired, results, send, indicator, refreshes, applied, acked>>

(* accept_discovered: an answer of another protocol, or one whose          *)
(* signature does not hold, changes nothing.                               *)
Accept(d) ==
  /\ step = "pair" /\ d \in found
  /\ found' = found \ {d}
  /\ \/ UNCHANGED paired
     \/ \E others \in SUBSET Device : paired' = others \union {d}
  /\ UNCHANGED <<gate, step, reachable, results, send, indicator, refreshes, answered, probed, applied, acked>>

(* The permit is dropped and the result is still in the thread's hands.    *)
EndRefresh(result) ==
  /\ gate' = FALSE /\ step' = "idle" /\ found' = {}
  /\ results' = results \union {result}
  /\ UNCHANGED <<paired, reachable, send, indicator, refreshes, answered, probed, applied, acked>>

RefreshSucceeds ==
  /\ step = "pair" /\ found = {}
  /\ EndRefresh([n |-> refreshes, ok |-> TRUE, peers |-> paired, reachable |-> reachable])

(* Discovery, the listener, the probe runtime and each acceptance can fail. *)
RefreshFails ==
  /\ step # "idle" /\ (step = "pair" => found # {})
  /\ EndRefresh([n |-> refreshes, ok |-> FALSE, peers |-> {}, reachable |-> {}])

-----------------------------------------------------------------------------
\* (Mutant of ShownBy: the view replaces every entry.)
ShownByAll(view) ==
  [d \in Device |->
     IF d \notin view.peers THEN "none"
     ELSE IF d \in view.reachable THEN "reachable"
     ELSE "unavailable"]

(* apply_peer_view: only pending entries outlive a view.                   *)
ShownBy(view) ==
  [d \in Device |->
     IF indicator[d] = "pending" THEN "pending"
     ELSE IF d \notin view.peers THEN "none"
     ELSE IF d \in view.reachable THEN "reachable"
     ELSE "unavailable"]

ApplyView(view) ==
  /\ view \in results /\ view.ok
  /\ results' = results \ {view}
  /\ indicator' = ShownBy(view)
  /\ applied' = view.n
  /\ UNCHANGED <<refresh, send, refreshes, answered, probed, acked>>

(* apply_refresh_error                                                     *)
ApplyError(result) ==
  /\ result \in results /\ ~result.ok
  /\ results' = results \ {result}
  /\ indicator' = [d \in Device |-> "none"]
  /\ applied' = result.n
  /\ UNCHANGED <<refresh, send, refreshes, answered, probed, acked>>

-----------------------------------------------------------------------------
(* on_paste_and_send, with one offer for a text and one per copied path.   *)
BeginSend ==
  /\ ~sending /\ offers < MaxOffers
  /\ sending' = TRUE
  /\ UNCHANGED <<refresh, results, ann, indicator, refreshes, offers, answered, probed, applied, acked>>

Idle == \A d \in Device : ann[d] = "none"

(* The fan-out of one offer over the devices of its plan.                  *)
FanOut(plan) ==
  /\ sending /\ Idle /\ offers < MaxOffers
  /\ ann' = [d \in Device |-> IF d \in plan THEN "todo" ELSE "none"]
  /\ offers' = offers + 1
  /\ UNCHANGED <<refresh, results, sending, indicator, refreshes, answered, probed, applied, acked>>

(* The update posted before a peer's task is spawned: apply_announce_update *)
(* leaves a peer that is shown unavailable as it is.                       *)
ShowPending(d) ==
  /\ ann[d] = "todo"
  /\ ann' = [ann EXCEPT ![d] = "pending"]
  /\ indicator' = [indicator EXCEPT ![d] = IF @ = "unavailable" THEN @ ELSE "pending"]
  /\ UNCHANGED <<refresh, results, sending, refreshes, offers, answered, probed, applied, acked>>

(* How a peer's outcome is shown.                                          *)
Shown(stored) == IF stored THEN "stored" ELSE "unavailable"

(* The update a peer's task posts when it ends.  The runtime is            *)
(* single-threaded: no task runs before all of them are spawned.           *)
ShowOutcome(d, stored) ==
  /\ ann[d] = "pending" /\ \A e \in Device : ann[e] # "todo"
  /\ ann' = [ann EXCEPT ![d] = "none"]
  /\ indicator' = [indicator EXCEPT ![d] = Shown(stored)]
  /\ acked' = IF stored THEN acked \union {d} ELSE acked \ {d}
  /\ UNCHANGED <<refresh, results, sending, refreshes, offers, answered, probed, applied>>

EndSend ==
  /\ sending /\ Idle
  /\ sending' = FALSE
  /\ UNCHANGED <<refresh, results, ann, indicator, refreshes, offers, answered, probed, applied, acked>>

-----------------------------------------------------------------------------
RefreshStep == Discover \/ Probe \/ (\E d \in Device : Accept(d)) \/ RefreshSucceeds \/ RefreshFails
Apply == \E r \in results : ApplyView(r) \/ ApplyError(r)
SendStep(d) == ShowPending(d) \/ \E stored \in BOOLEAN : ShowOutcome(d, stored)

Next ==
  \/ BeginRefresh
  \/ RefreshStep
  \/ Apply
  \/ BeginSend
  \/ \E plan \in SUBSET Device \ {{}} : FanOut(plan)
  \/ \E d \in Device : SendStep(d)
  \/ EndSend

Spec == Init /\ [][Next]_vars

TypeOK ==
  /\ gate \in BOOLEAN /\ step \in {"idle", "discover", "probe", "pair"}
  /\ paired \subseteq Device /\ reachable \subseteq Device /\ found \subseteq Device
  /\ results \subseteq Results
  /\ sending \in BOOLEAN /\ ann \in [Device -> {"none", "todo", "pending"}]
  /\ indicator \in [Device -> {"none", "reachable", "unavailable", "pending", "stored"}]
  /\ refreshes \in 0 .. MaxRefreshes /\ offers \in 0 .. MaxOffers
  /\ answered \in [Refresh -> SUBSET Device] /\ probed \in 0 .. MaxRefreshes /\ applied \in 0 .. MaxRefreshes
  /\ acked \subseteq Device

(* What an indicator claims is true of one and the same refresh and send:  *)
(* a peer is shown reachable only if it answered the probes of the very    *)
(* refresh whose view the window shows, shown stored only if the last      *)
(* announcement to it that ended was acknowledged and none is under way    *)
(* that the window knows of, and shown pending only while an announcement  *)
(* to it is under way.  Views and updates arrive in any order.             *)
IndicatorsAreHonest ==
  \A d \in Device :
    /\ indicator[d] = "reachable" => applied \in Refresh /\ d \in answered[applied]
    /\ indicator[d] = "stored" => d \in acked /\ ann[d] # "pending"
    /\ indicator[d] = "pending" => ann[d] = "pending"

(* A refresh that succeeds, however late its view is applied, never wipes  *)
(* the sign of an announcement under way: that ends with the announcement's *)
(* own outcome, or with the error of a refresh that failed.                *)
PendingOutlastsViews ==
  [][\A d \in Device :
       indicator[d] = "pending" /\ indicator'[d] # "pending" =>
         \/ ann[d] = "pending" /\ ann'[d] = "none"
         \/ \E r \in results : ~r.ok /\ results' = results \ {r}]_vars

(* "The status line reports peers that answered the latest reachability    *)
(* probe" (README): once every result has been applied.  It does not hold  *)
(* of the code: the permit is dropped before the view is handed over, and  *)
(* the view of an earlier refresh may be applied last.                     *)
LatestProbeIsShown ==
  step = "idle" /\ results = {} =>
    \A d \in Device : indicator[d] = "reachable" => d \in answered[probed]
=============================================================================
