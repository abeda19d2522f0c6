------------------------------- MODULE Peers -------------------------------
(***************************************************************************)
(* The installation state that every meshelf process of a user shares: the *)
(* signing identity, and state.json with the paired peers and the          *)
(* settings.  The desktop resident runs refresh_in_background and settings *)
(* edits in threads of their own while `meshelfctl refresh` runs in        *)
(* another process; a sidecar lock orders their transactions.  The tailnet *)
(* changes under them, operations fail and processes die at any step.      *)
(*                                                                         *)
(* A node keeps its host name, and nodes are numbered in host-name order.  *)
(* An address is numbered by how often the node's address has changed.  All *)
(* probes of one refresh are one step.                                     *)
(***************************************************************************)
EXTENDS Naturals, FiniteSets

CONSTANTS
  Node,          \* other nodes of the tailnet, 1..n in host-name order
  Nameless,      \* nodes whose status entry has no node id
  Device,        \* meshelf installations on them
  Installed,     \* nodes that run meshelf at the start
  MaxEvents,     \* bound: changes of the tailnet, failures and crashes
  MaxRefreshes,  \* bound: refreshes by the desktop
  MaxEdits       \* bound: settings edits

ASSUME PeersAssumption ==
  /\ Node \subseteq Nat /\ IsFiniteSet(Node) /\ Nameless \subseteq Node /\ Installed \subseteq Node
  /\ IsFiniteSet(Device) /\ 0 \notin Device
  /\ MaxEvents \in Nat /\ MaxRefreshes \in Nat /\ MaxEdits \in Nat

VARIABLES
  keyring,   \* TRUE: the Linux credential store; FALSE: an identity file
  key,       \* the stored identity, or 0
  file,      \* state.json: device id, peers by node, settings
  lock,      \* the threads that hold state.json.lock
  draft,     \* the state each transaction has loaded
  stage,     \* each process: "down", "create", "load" or "up"
  own,       \* the identity each process runs with
  memory,    \* Controller.installation.peers of each process
  pc,        \* the step of each thread
  status,    \* the Tailscale status each refresh works from
  found,     \* the answers to its probes that are still to be paired
  gate,      \* the desktop's refresh gate is taken
  served,    \* the address the desktop's listener is bound to, or 0
  alive,     \* that listener's worker runs
  tail,      \* the tailnet: each node's address, power and installation
  self,      \* this node's address
  count,     \* bounds used up so far
  (* History: what probes have proved, the latest pairing of each node and  *)
  (* the settings last written                                              *)
  proved, paired, wished

identity == <<keyring, key>>
process  == <<stage, own, memory>>
desktop  == <<gate, served, alive>>
world    == <<tail, self>>
history  == <<proved, paired, wished>>
vars     == <<identity, file, lock, draft, process, pc, status, found, desktop, world, count, history>>

Process  == {"desktop", "ctl"}
Thread   == {"refresh", "settings", "ctl"}
Owner(t) == IF t = "ctl" THEN "ctl" ELSE "desktop"
Fresh    == [desktop |-> 1, ctl |-> 2]     \* the identity each would generate
NoPeer   == [device |-> 0, address |-> 0]
NoPeers  == [n \in Node |-> NoPeer]
NoDraft  == [id |-> 0, peers |-> NoPeers, settings |-> 0]
NoStatus == [self |-> 0, nodes |-> [n \in Node |-> [address |-> 0, online |-> FALSE]]]

Init ==
  /\ keyring \in BOOLEAN /\ key = 0
  /\ file = NoDraft
  /\ lock = {} /\ draft = [t \in Thread |-> NoDraft]
  /\ stage = [p \in Process |-> "down"] /\ own = [p \in Process |-> 0]
  /\ memory = [p \in Process |-> NoPeers]
  /\ pc = [t \in Thread |-> "idle"]
  /\ status = [t \in Thread |-> NoStatus] /\ found = [t \in Thread |-> {}]
  /\ gate = FALSE /\ served = 0 /\ alive = FALSE
  /\ tail \in [Node -> [address : {1}, online : {TRUE}, device : Device \cup {0}]]
  /\ \A n \in Node : tail[n].device # 0 <=> n \in Installed
  /\ \A m, n \in Installed : m # n => tail[m].device # tail[n].device
  /\ self = 1
  /\ count = [events |-> 0, refreshes |-> 0, edits |-> 0]
  /\ proved = {} /\ paired = [n \in Node |-> 0] /\ wished = 0

Count(c) == count' = [count EXCEPT ![c] = @ + 1]
Event == count.events < MaxEvents /\ Count("events")
Goto(t, step) == pc' = [pc EXCEPT ![t] = step]

-----------------------------------------------------------------------------
(* The identity and the start of a process.                                *)

\* load_or_create finds the stored identity, or generates one.
ReadKey(p) ==
  /\ stage[p] = "down"
  /\ IF key = 0
     THEN /\ stage' = [stage EXCEPT ![p] = "create"]
          /\ own' = [own EXCEPT ![p] = Fresh[p]]
     ELSE /\ stage' = [stage EXCEPT ![p] = "load"]
          /\ own' = [own EXCEPT ![p] = key]
  /\ UNCHANGED <<identity, file, lock, draft, memory, pc, status, found, desktop, world, count, history>>

\* set_secret overwrites; hard_link fails when the name exists, and then the
\* winner's identity is read back.
StoreKey(p) ==
  /\ stage[p] = "create"
  /\ key' = IF keyring \/ key = 0 THEN own[p] ELSE key
  /\ own' = [own EXCEPT ![p] = key']
  /\ stage' = [stage EXCEPT ![p] = "load"]
  /\ UNCHANGED <<keyring, file, lock, draft, memory, pc, status, found, desktop, world, count, history>>

\* load_reconciled: peers belong to the identity they were paired under,
\* settings to the user.  (Mutant of Reconciled: the peers are kept.)
ReconciledKeepsPeers(id) == [file EXCEPT !.id = id]

Reconciled(id) ==
  [id |-> id, settings |-> file.settings,
   peers |-> IF file.id = id THEN file.peers ELSE NoPeers]

\* Controller::load: a read under the lock.  meshelfctl goes on to refresh.
LoadState(p) ==
  /\ stage[p] = "load" /\ lock = {}
  /\ memory' = [memory EXCEPT ![p] = Reconciled(own[p]).peers]
  /\ stage' = [stage EXCEPT ![p] = "up"]
  /\ IF p = "ctl" THEN Goto("ctl", "discover") ELSE UNCHANGED pc
  /\ UNCHANGED <<identity, file, lock, draft, own, status, found, desktop, world, count, history>>

-----------------------------------------------------------------------------
(* One transaction on state.json: with_exclusive_lock around load, change  *)
(* and atomic replacement.                                                 *)

\* (Mutant of Begin: the lock is shared.)
BeginShared(t, step) ==
  /\ lock' = lock \cup {t}
  /\ draft' = [draft EXCEPT ![t] = Reconciled(own[Owner(t)])]
  /\ Goto(t, step)

Begin(t, step) ==
  /\ lock = {} /\ lock' = {t}
  /\ draft' = [draft EXCEPT ![t] = Reconciled(own[Owner(t)])]
  /\ Goto(t, step)

Unlock(t) ==
  /\ lock' = lock \ {t}
  /\ draft' = [draft EXCEPT ![t] = NoDraft]

\* The loaded state, with the change applied, replaces the file; a refresh
\* keeps it in its controller.
Commit(t, state, step) ==
  /\ file' = state
  /\ memory' = IF t = "settings" THEN memory ELSE [memory EXCEPT ![Owner(t)] = state.peers]
  /\ Unlock(t)
  /\ Goto(t, step)

-----------------------------------------------------------------------------
(* A refresh: refresh_discovery, the desktop's listener, and               *)
(* refresh_reachability.  `meshelfctl refresh` is the same without a gate, *)
(* a listener or a window, and the process ends with it.                   *)

Idle(t) ==
  /\ Goto(t, "idle")
  /\ status' = [status EXCEPT ![t] = NoStatus]
  /\ found' = [found EXCEPT ![t] = {}]
  /\ stage' = IF t = "ctl" THEN [stage EXCEPT !["ctl"] = "ended"] ELSE stage

\* (Mutant of Fail: the permit is kept when a refresh fails.)
FailKeepsPermit(t) ==
  /\ Idle(t)
  /\ UNCHANGED <<gate, identity, file, own, memory, served, alive, world, history>>

\* The refresh returns an error: the permit is dropped.  What the window makes
\* of a result is in Indicators.
Fail(t) ==
  /\ Idle(t)
  /\ gate' = (IF t = "refresh" THEN FALSE ELSE gate)
  /\ UNCHANGED <<identity, file, own, memory, served, alive, world, history>>

StartRefresh ==
  /\ stage["desktop"] = "up" /\ ~gate /\ gate' = TRUE
  /\ count.refreshes < MaxRefreshes /\ Count("refreshes")
  /\ Goto("refresh", "discover")
  /\ UNCHANGED <<identity, file, lock, draft, process, status, found, served, alive, world, history>>

\* `tailscale status --json`, read and converted.
Discover(t) ==
  /\ pc[t] = "discover"
  /\ status' = [status EXCEPT ![t] =
       [self |-> self, nodes |-> [n \in Node |-> [address |-> tail[n].address, online |-> tail[n].online]]]]
  /\ Goto(t, "addresses")
  /\ UNCHANGED <<identity, file, lock, draft, process, found, desktop, world, count, history>>

\* No binary, a launch error, a non-zero exit, the 5-second timeout, output
\* that is too large or not JSON, no Self node or a node without address.
DiscoverFails(t) ==
  /\ pc[t] = "discover" /\ Fail(t) /\ Event
  /\ UNCHANGED <<lock, draft>>

BeginAddresses(t) ==
  /\ pc[t] = "addresses" /\ Begin(t, "saveAddresses")
  /\ UNCHANGED <<identity, file, process, status, found, desktop, world, count, history>>

\* refresh_addresses: only nodes that are paired, and listed, are touched.
RefreshAddresses(peers, s) ==
  [n \in Node |-> IF peers[n] = NoPeer THEN NoPeer
                  ELSE [peers[n] EXCEPT !.address = s.nodes[n].address]]

SaveAddresses(t) ==
  LET state == draft[t] IN
  /\ pc[t] = "saveAddresses"
  /\ Commit(t, [state EXCEPT !.peers = RefreshAddresses(@, status[t])],
            IF t = "refresh" THEN "listener" ELSE "probe")
  /\ UNCHANGED <<identity, stage, own, status, found, desktop, world, count, history>>

SaveFails(t) ==
  /\ pc[t] \in {"saveAddresses", "savePeer"} /\ Unlock(t) /\ Fail(t) /\ Event

\* needs_restart: another address, or a worker that has ended.
NeedsRestart(address) == served # address \/ ~alive

\* A stale handle is dropped, which joins its worker, before the new address
\* is bound.
StartListener ==
  /\ pc["refresh"] = "listener"
  /\ IF NeedsRestart(status["refresh"].self)
     THEN served' = status["refresh"].self /\ alive' = TRUE
     ELSE UNCHANGED <<served, alive>>
  /\ Goto("refresh", "probe")
  /\ UNCHANGED <<identity, file, lock, draft, process, status, found, gate, world, count, history>>

\* The address cannot be bound: the refresh ends, without a listener.
BindFails ==
  /\ pc["refresh"] = "listener" /\ NeedsRestart(status["refresh"].self)
  /\ served' = 0 /\ alive' = FALSE
  /\ Idle("refresh") /\ gate' = FALSE
  /\ Event
  /\ UNCHANGED <<identity, file, lock, draft, own, memory, world, history>>

\* The installation that answers at an address of the status.
Answering(s) ==
  {<<n, tail[n].device>> : n \in {m \in Node :
     s.nodes[m].online /\ tail[m].online /\ tail[m].address = s.nodes[m].address /\ tail[m].device # 0}}

\* Each probe may fail.
Probe(t) ==
  /\ pc[t] = "probe"
  /\ \E answers \in SUBSET Answering(status[t]) :
       /\ found' = [found EXCEPT ![t] = answers]
       /\ proved' = proved \cup {<<own[Owner(t)], a[1], a[2]>> : a \in answers}
  /\ Goto(t, "pair")
  /\ UNCHANGED <<identity, file, lock, draft, process, status, gate, served, alive, world, count, paired, wished>>

BeginPeer(t) ==
  /\ pc[t] = "pair" /\ found[t] # {} /\ Begin(t, "savePeer")
  /\ UNCHANGED <<identity, file, process, status, found, desktop, world, count, history>>

\* accept_signed: the node's entry takes the installation, key and address.
AcceptSigned(peers, n, d, s) ==
  [peers EXCEPT ![n] = [device |-> d, address |-> s.nodes[n].address]]

SavePeer(t) ==
  LET state == draft[t] IN
  /\ pc[t] = "savePeer"
  /\ \E a \in found[t] :
       /\ a[1] \notin Nameless
       /\ Commit(t, [state EXCEPT !.peers = AcceptSigned(@, a[1], a[2], status[t])], "pair")
       /\ found' = [found EXCEPT ![t] = @ \ {a}]
       /\ paired' = [paired EXCEPT ![a[1]] = a[2]]
  /\ UNCHANGED <<identity, stage, own, status, desktop, world, count, proved, wished>>

\* A candidate without a node id ends the refresh; the candidates before it
\* stay paired, those after it are not.
PairNameless(t) ==
  /\ pc[t] = "savePeer" /\ \E a \in found[t] : a[1] \in Nameless
  /\ Unlock(t) /\ Fail(t) /\ UNCHANGED count

\* Everybody found is paired: the permit is dropped, and the thread has only
\* the view to hand to the window.
EndRefresh ==
  /\ pc["refresh"] = "pair" /\ found["refresh"] = {}
  /\ Idle("refresh") /\ gate' = FALSE
  /\ UNCHANGED <<identity, file, lock, draft, own, memory, served, alive, world, count, history>>

EndCtl ==
  /\ pc["ctl"] = "pair" /\ found["ctl"] = {}
  /\ Idle("ctl")
  /\ UNCHANGED <<identity, file, lock, draft, own, memory, gate, served, alive, world, count, history>>

-----------------------------------------------------------------------------
(* Settings: the folder dialog and the reset, in threads of the desktop.   *)

\* Coordinator::settings reads, update_settings replaces: two transactions.
BeginEdit ==
  /\ stage["desktop"] = "up" /\ pc["settings"] = "idle"
  /\ count.edits < MaxEdits /\ Count("edits")
  /\ Begin("settings", "saveSettings")
  /\ UNCHANGED <<identity, file, process, status, found, desktop, world, history>>

SaveSettings ==
  LET state == draft["settings"] IN
  /\ pc["settings"] = "saveSettings"
  /\ Commit("settings", [state EXCEPT !.settings = count.edits], "idle")
  /\ wished' = count.edits
  /\ UNCHANGED <<identity, stage, own, status, found, desktop, world, count, proved, paired>>

SettingsFail ==
  /\ pc["settings"] = "saveSettings" /\ Unlock("settings")
  /\ Goto("settings", "idle") /\ Event
  /\ UNCHANGED <<identity, file, process, status, found, desktop, world, history>>

-----------------------------------------------------------------------------
(* What happens to the processes and around them.                          *)

\* The operating system drops the dead process's lock; what it had not
\* committed is a temporary file nobody reads.
Crash(p) ==
  /\ stage[p] \in {"create", "load", "up"}
  /\ Event
  /\ stage' = [stage EXCEPT ![p] = "down"] /\ own' = [own EXCEPT ![p] = 0]
  /\ memory' = [memory EXCEPT ![p] = NoPeers]
  /\ lock' = {t \in lock : Owner(t) # p}
  /\ draft' = [t \in Thread |-> IF Owner(t) = p THEN NoDraft ELSE draft[t]]
  /\ pc' = [t \in Thread |-> IF Owner(t) = p THEN "idle" ELSE pc[t]]
  /\ status' = [t \in Thread |-> IF Owner(t) = p THEN NoStatus ELSE status[t]]
  /\ found' = [t \in Thread |-> IF Owner(t) = p THEN {} ELSE found[t]]
  /\ IF p = "desktop"
     THEN gate' = FALSE /\ served' = 0 /\ alive' = FALSE
     ELSE UNCHANGED desktop
  /\ UNCHANGED <<identity, file, world, history>>

ListenerDies ==
  /\ alive /\ alive' = FALSE
  /\ Event
  /\ UNCHANGED <<identity, file, lock, draft, process, pc, status, found, gate, served, world, history>>

Change ==
  /\ Event
  /\ UNCHANGED <<identity, file, lock, draft, process, pc, status, found, desktop, history>>

\* The tailnet: a node's address changes, a node goes offline or comes back,
\* meshelf is reinstalled on it, an installation moves to another node id.
Readdress(n)   == tail' = [tail EXCEPT ![n].address = @ + 1] /\ UNCHANGED self /\ Change
ReaddressSelf  == self' = self + 1 /\ UNCHANGED tail /\ Change
Power(n)       == tail' = [tail EXCEPT ![n].online = ~@] /\ UNCHANGED self /\ Change
Reinstall(n)   ==
  /\ \E d \in Device : /\ \A m \in Node : tail[m].device # d
                       /\ tail' = [tail EXCEPT ![n].device = d]
  /\ UNCHANGED self /\ Change
Reregister(m, n) ==
  /\ m # n /\ tail[m].device # 0
  /\ tail' = [tail EXCEPT ![n].device = tail[m].device, ![m].device = 0]
  /\ UNCHANGED self /\ Change

-----------------------------------------------------------------------------
RefreshStep(t) ==
  \/ Discover(t) \/ DiscoverFails(t)
  \/ BeginAddresses(t) \/ SaveAddresses(t) \/ SaveFails(t)
  \/ Probe(t) \/ BeginPeer(t) \/ SavePeer(t) \/ PairNameless(t)

DesktopStep == StartListener \/ BindFails \/ EndRefresh
SettingsStep == SaveSettings \/ SettingsFail
StartStep(p) == ReadKey(p) \/ StoreKey(p) \/ LoadState(p)

Next ==
  \/ \E p \in Process : StartStep(p) \/ Crash(p)
  \/ StartRefresh \/ BeginEdit
  \/ \E t \in {"refresh", "ctl"} : RefreshStep(t)
  \/ DesktopStep \/ EndCtl \/ SettingsStep
  \/ ListenerDies
  \/ ReaddressSelf
  \/ \E n \in Node : Readdress(n) \/ Power(n) \/ Reinstall(n) \/ (\E m \in Node : Reregister(m, n))

Spec == Init /\ [][Next]_vars

\* Threads run and every wait in them is bounded; nobody has to ask for a
\* refresh, and nothing has to fail or change.
FairSpec ==
  /\ Spec
  /\ WF_vars(RefreshStep("refresh")) /\ WF_vars(DesktopStep)
  /\ WF_vars(RefreshStep("ctl")) /\ WF_vars(EndCtl)
  /\ WF_vars(SettingsStep)

-----------------------------------------------------------------------------
Steps  == {"idle", "discover", "addresses", "saveAddresses", "listener", "probe", "pair",
           "savePeer", "saveSettings"}
Peer   == [device : Device \cup {0}, address : Nat]
State  == [id : 0..2, peers : [Node -> Peer], settings : Nat]
Status == [self : Nat, nodes : [Node -> [address : Nat, online : BOOLEAN]]]

\* Every variable has its type.
TypeOK ==
  /\ keyring \in BOOLEAN /\ key \in 0..2
  /\ file \in State /\ draft \in [Thread -> State]
  /\ stage \in [Process -> {"down", "create", "load", "up", "ended"}]
  /\ own \in [Process -> 0..2] /\ memory \in [Process -> [Node -> Peer]]
  /\ lock \subseteq Thread /\ pc \in [Thread -> Steps]
  /\ status \in [Thread -> Status] /\ found \in [Thread -> SUBSET (Node \X Device)]
  /\ gate \in BOOLEAN /\ served \in Nat /\ alive \in BOOLEAN
  /\ tail \in [Node -> [address : Nat, online : BOOLEAN, device : Device \cup {0}]]
  /\ self \in Nat
  /\ count \in [events : Nat, refreshes : Nat, edits : Nat]
  /\ paired \in [Node -> Device \cup {0}] /\ wished \in Nat

\* The gates that admit announcements and fetches trust what state.json says
\* for the installation's identity: whoever it lists has answered a signed
\* probe, at that node, to a process of that identity.  An identity that
\* replaces another (two first starts racing for the credential store) takes
\* over no trust, whatever transactions were under way.
TrustIsEarned ==
  \A n \in Node : file.peers[n] # NoPeer => <<file.id, n, file.peers[n].device>> \in proved

\* A settings edit, a pairing and an address refresh that overlap in different
\* threads and processes lose none of each other's work, and neither does a
\* process that dies: state.json holds the settings last saved and, where one
\* identity is ever stored, the latest pairing of every node.
NothingLost ==
  /\ file.settings = wished
  /\ ~keyring => \A n \in Node : file.peers[n].device = paired[n]

\* A refresh ends, and with it the gate opens for the next one, whatever fails
\* on the way and whoever else wants the lock.
RefreshEnds == gate ~> ~gate
=============================================================================
