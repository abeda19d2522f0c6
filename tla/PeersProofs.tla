----------------------------- MODULE PeersProofs -----------------------------
(***************************************************************************)
(* Proofs about Peers, for any tailnet, any installations on it and any    *)
(* number of refreshes, edits, failures, crashes and changes of the        *)
(* tailnet.                                                                *)
(*                                                                         *)
(* The transactions of three threads in two processes meet only in         *)
(* state.json.  The argument is that a thread which holds the sidecar lock *)
(* has in its draft what the file still holds, read for the identity its   *)
(* process still runs with, so that what it writes back differs from the   *)
(* file in the one thing it changes.                                       *)
(***************************************************************************)
EXTENDS Peers, TLAPS

Saving == {"saveAddresses", "savePeer", "saveSettings"}

\* Exactly the thread inside a transaction holds the lock, a thread runs in a
\* process that is up, and a refresh has the desktop's gate.
ThreadInv ==
  /\ \A t, u \in lock : t = u
  /\ \A t \in Thread : t \in lock <=> pc[t] \in Saving
  /\ \A t \in Thread : pc[t] # "idle" => stage[Owner(t)] = "up"
  /\ \A t \in Thread : pc[t] = "idle" => found[t] = {}
  /\ found["settings"] = {}
  /\ pc["settings"] \in {"idle", "saveSettings"}
  /\ pc["refresh"] # "saveSettings" /\ pc["ctl"] # "saveSettings"
  /\ ~gate => pc["refresh"] = "idle"

\* The state a transaction has loaded is the state there is.
DraftInv == \A t \in lock : draft[t] = Reconciled(own[Owner(t)])

Trusted(id, peers) ==
  \A n \in Node : peers[n] # NoPeer => <<id, n, peers[n].device>> \in proved

\* What is to be paired has answered a probe of this identity.
FoundInv == \A t \in Thread : \A a \in found[t] : <<own[Owner(t)], a[1], a[2]>> \in proved

\* Where a second identity is never stored, every process past its start runs
\* with the stored one, and state.json is of that identity or of none.
KeyInv ==
  ~keyring =>
    /\ \A p \in Process : /\ stage[p] = "create" => own[p] # 0
                          /\ stage[p] \in {"load", "up"} => own[p] = key /\ key # 0
    /\ file.id # 0 => file.id = key
    /\ file.id = 0 => file.peers = NoPeers

IInv ==
  /\ TypeOK /\ ThreadInv /\ DraftInv
  /\ TrustIsEarned /\ FoundInv
  /\ KeyInv /\ NothingLost

-----------------------------------------------------------------------------
(* Types.                                                                  *)

USE DEF identity, process, desktop, world, history, Goto

\* Two threads belong to the desktop, one is meshelfctl.
LEMMA Owners ==
  /\ Process = {"desktop", "ctl"} /\ Thread = {"refresh", "settings", "ctl"}
  /\ Owner("refresh") = "desktop" /\ Owner("settings") = "desktop" /\ Owner("ctl") = "ctl"
  /\ \A t \in Thread : Owner(t) \in Process
  BY DEF Process, Thread, Owner

\* The empty values have their types.
LEMMA EmptyTypes == NoPeers \in [Node -> Peer] /\ NoDraft \in State /\ NoStatus \in Status
  BY DEF NoPeers, NoPeer, NoDraft, NoStatus, Peer, State, Status

\* What load_reconciled makes of the file is a state again.
LEMMA ReconciledType == ASSUME TypeOK, NEW id \in 0..2 PROVE Reconciled(id) \in State
<1>1. file \in State
  BY DEF TypeOK
<1>2. QED
  BY <1>1, EmptyTypes DEF Reconciled, State

\* Begin, Unlock and Commit keep the types of what they change.
LEMMA BeginType ==
  ASSUME TypeOK, NEW t \in Thread, NEW step \in Steps, Begin(t, step)
  PROVE  lock' \subseteq Thread /\ draft' \in [Thread -> State] /\ pc' \in [Thread -> Steps]
<1>1. /\ draft \in [Thread -> State] /\ pc \in [Thread -> Steps]
      /\ own[Owner(t)] \in 0..2
  BY Owners DEF TypeOK
<1>2. Reconciled(own[Owner(t)]) \in State
  BY <1>1, ReconciledType
<1>3. QED
  BY <1>1, <1>2 DEF Begin

\* Giving the lock back keeps the types.
LEMMA UnlockType ==
  ASSUME TypeOK, NEW t \in Thread, Unlock(t)
  PROVE  lock' \subseteq Thread /\ draft' \in [Thread -> State]
  BY EmptyTypes DEF TypeOK, Unlock

\* A commit of a well-typed state keeps the types.
LEMMA CommitType ==
  ASSUME TypeOK, NEW t \in Thread, NEW state \in State, NEW step \in Steps, Commit(t, state, step)
  PROVE  /\ file' \in State /\ memory' \in [Process -> [Node -> Peer]]
         /\ lock' \subseteq Thread /\ draft' \in [Thread -> State] /\ pc' \in [Thread -> Steps]
<1>1. memory \in [Process -> [Node -> Peer]] /\ pc \in [Thread -> Steps]
  BY DEF TypeOK
<1>2. state.peers \in [Node -> Peer]
  BY DEF State
<1>3. lock' \subseteq Thread /\ draft' \in [Thread -> State]
  BY UnlockType DEF Commit
<1>4. memory' \in [Process -> [Node -> Peer]]
  BY <1>1, <1>2 DEF Commit
<1>5. QED
  BY <1>1, <1>3, <1>4 DEF Commit

\* Every way for a refresh to stop keeps the types.
LEMMA IdleType ==
  ASSUME TypeOK, NEW t \in Thread, Idle(t)
  PROVE  /\ pc' \in [Thread -> Steps] /\ status' \in [Thread -> Status]
         /\ found' \in [Thread -> SUBSET (Node \X Device)]
         /\ stage' \in [Process -> {"down", "create", "load", "up", "ended"}]
  BY EmptyTypes DEF TypeOK, Idle, Steps

\* Every step keeps the types.
LEMMA TypeStep == TypeOK /\ [Next]_vars => TypeOK'
<1> SUFFICES ASSUME TypeOK, [Next]_vars PROVE TypeOK'
  OBVIOUS
<1>0. \A e \in {"events", "refreshes", "edits"} :
        Count(e) => count' \in [events : Nat, refreshes : Nat, edits : Nat]
  BY DEF TypeOK, Count
<1>1. ASSUME NEW p \in Process, StartStep(p) \/ Crash(p) PROVE TypeOK'
  <2>1. CASE ReadKey(p)
    BY <2>1, Owners DEF ReadKey, TypeOK, Fresh
  <2>2. CASE StoreKey(p)
    BY <2>2, Owners DEF StoreKey, TypeOK
  <2>3. CASE LoadState(p)
    <3>1. Reconciled(own[p]) \in State
      BY ReconciledType DEF TypeOK
    <3>2. Reconciled(own[p]).peers \in [Node -> Peer]
      BY <3>1 DEF State
    <3>3. memory' \in [Process -> [Node -> Peer]]
      BY <2>3, <3>2 DEF LoadState, TypeOK
    <3>4. pc' \in [Thread -> Steps]
      BY <2>3 DEF LoadState, TypeOK, Steps
    <3>5. QED
      BY <2>3, <3>3, <3>4 DEF LoadState, TypeOK
  <2>4. CASE Crash(p)
    <3>1. memory' \in [Process -> [Node -> Peer]] /\ draft' \in [Thread -> State]
      BY <2>4, EmptyTypes DEF Crash, TypeOK
    <3>2. status' \in [Thread -> Status] /\ pc' \in [Thread -> Steps]
      BY <2>4, EmptyTypes DEF Crash, TypeOK, Steps
    <3>3. count' \in [events : Nat, refreshes : Nat, edits : Nat]
      BY <2>4, <1>0 DEF Crash, Event
    <3>4. /\ gate' \in BOOLEAN /\ served' \in Nat /\ alive' \in BOOLEAN
      <4>1. gate' \in BOOLEAN /\ alive' \in BOOLEAN
        BY <2>4, Zenon DEF Crash, TypeOK
      <4>2. served' \in Nat
        BY <2>4 DEF Crash, TypeOK
      <4>3. QED
        BY <4>1, <4>2
    <3>5. /\ stage' \in [Process -> {"down", "create", "load", "up", "ended"}]
          /\ own' \in [Process -> 0..2] /\ lock' \subseteq Thread
      BY <2>4 DEF Crash, TypeOK
    <3>6. found' \in [Thread -> SUBSET (Node \X Device)]
      BY <2>4 DEF Crash, TypeOK
    <3>7. UNCHANGED <<identity, file, world, history>>
      BY <2>4 DEF Crash
    <3>8. QED
      BY <3>1, <3>2, <3>3, <3>4, <3>5, <3>6, <3>7 DEF TypeOK
  <2>5. QED
    BY <1>1, <2>1, <2>2, <2>3, <2>4 DEF StartStep
<1>2. CASE StartRefresh
  BY <1>0, <1>2 DEF StartRefresh, TypeOK, Steps
<1>3. CASE BeginEdit
  <2>1. lock' \subseteq Thread /\ draft' \in [Thread -> State] /\ pc' \in [Thread -> Steps]
    BY <1>3, BeginType, Owners DEF BeginEdit, Steps
  <2>2. QED
    BY <1>0, <1>3, <2>1 DEF BeginEdit, TypeOK
<1>4. ASSUME NEW t \in {"refresh", "ctl"}, RefreshStep(t) PROVE TypeOK'
  <2>0. t \in Thread
    BY DEF Thread
  <2>1. CASE Discover(t)
    <3>1. [self |-> self, nodes |-> [n \in Node |-> [address |-> tail[n].address, online |-> tail[n].online]]]
            \in Status
      BY DEF TypeOK, Status
    <3>2. status' \in [Thread -> Status]
      BY <2>1, <3>1 DEF Discover, TypeOK
    <3>3. pc' \in [Thread -> Steps]
      BY <2>1 DEF Discover, TypeOK, Steps
    <3>4. QED
      BY <2>1, <3>2, <3>3 DEF Discover, TypeOK
  <2>2. CASE DiscoverFails(t) \/ SaveFails(t) \/ PairNameless(t)
    <3>1. /\ pc' \in [Thread -> Steps] /\ status' \in [Thread -> Status]
          /\ found' \in [Thread -> SUBSET (Node \X Device)]
          /\ stage' \in [Process -> {"down", "create", "load", "up", "ended"}]
      BY <2>0, <2>2, IdleType DEF DiscoverFails, SaveFails, PairNameless, Fail
    <3>2. lock' \subseteq Thread /\ draft' \in [Thread -> State]
      <4>1. UNCHANGED <<lock, draft>> \/ Unlock(t)
        BY <2>2 DEF DiscoverFails, SaveFails, PairNameless
      <4>2. QED
        BY <2>0, <4>1, UnlockType DEF TypeOK
    <3>3. count' \in [events : Nat, refreshes : Nat, edits : Nat]
      BY <2>2, <1>0 DEF DiscoverFails, SaveFails, PairNameless, Event, TypeOK
    <3>4. gate' \in BOOLEAN
      BY <2>2 DEF DiscoverFails, SaveFails, PairNameless, Fail, TypeOK
    <3>5. UNCHANGED <<identity, file, own, memory, served, alive, world, history>>
      BY <2>2 DEF DiscoverFails, SaveFails, PairNameless, Fail
    <3>6. QED
      BY <3>1, <3>2, <3>3, <3>4, <3>5 DEF TypeOK
  <2>3. CASE BeginAddresses(t) \/ BeginPeer(t)
    <3>1. lock' \subseteq Thread /\ draft' \in [Thread -> State] /\ pc' \in [Thread -> Steps]
      BY <2>0, <2>3, BeginType DEF BeginAddresses, BeginPeer, Steps
    <3>2. QED
      BY <2>3, <3>1 DEF BeginAddresses, BeginPeer, TypeOK
  <2>4. CASE SaveAddresses(t)
    <3>1. draft[t] \in State /\ status[t] \in Status
      BY <2>0 DEF TypeOK
    <3>2. RefreshAddresses(draft[t].peers, status[t]) \in [Node -> Peer]
      BY <3>1 DEF RefreshAddresses, State, Status, Peer, NoPeer
    <3>3. [draft[t] EXCEPT !.peers = RefreshAddresses(draft[t].peers, status[t])] \in State
      BY <3>1, <3>2 DEF State
    <3>4. (IF t = "refresh" THEN "listener" ELSE "probe") \in Steps
      BY DEF Steps
    <3>5. /\ file' \in State /\ memory' \in [Process -> [Node -> Peer]]
          /\ lock' \subseteq Thread /\ draft' \in [Thread -> State] /\ pc' \in [Thread -> Steps]
      BY <2>0, <2>4, <3>3, <3>4, CommitType DEF SaveAddresses
    <3>6. QED
      BY <2>4, <3>5 DEF SaveAddresses, TypeOK
  <2>5. CASE Probe(t)
    <3>1. PICK answers \in SUBSET Answering(status[t]) :
            found' = [found EXCEPT ![t] = answers]
      BY <2>5 DEF Probe
    <3>2. Answering(status[t]) \subseteq Node \X Device
      BY DEF Answering, TypeOK
    <3>3. found' \in [Thread -> SUBSET (Node \X Device)]
      BY <3>1, <3>2 DEF TypeOK
    <3>6. pc' \in [Thread -> Steps]
      BY <2>5 DEF Probe, TypeOK, Steps
    <3>7. QED
      BY <2>5, <3>3, <3>6 DEF Probe, TypeOK
  <2>6. CASE SavePeer(t)
    <3>1. PICK a \in found[t] :
            /\ Commit(t, [draft[t] EXCEPT !.peers = AcceptSigned(draft[t].peers, a[1], a[2], status[t])], "pair")
            /\ found' = [found EXCEPT ![t] = @ \ {a}]
            /\ paired' = [paired EXCEPT ![a[1]] = a[2]]
      BY <2>6 DEF SavePeer
    <3>2. draft[t] \in State /\ status[t] \in Status /\ a[1] \in Node /\ a[2] \in Device
      BY <2>0 DEF TypeOK
    <3>3. AcceptSigned(draft[t].peers, a[1], a[2], status[t]) \in [Node -> Peer]
      BY <3>2 DEF AcceptSigned, State, Status, Peer
    <3>4. [draft[t] EXCEPT !.peers = AcceptSigned(draft[t].peers, a[1], a[2], status[t])] \in State
      BY <3>2, <3>3 DEF State
    <3>5. /\ file' \in State /\ memory' \in [Process -> [Node -> Peer]]
          /\ lock' \subseteq Thread /\ draft' \in [Thread -> State] /\ pc' \in [Thread -> Steps]
      <4>1. "pair" \in Steps
        BY DEF Steps
      <4>2. QED
        BY <2>0, <3>1, <3>4, <4>1, CommitType
    <3>6. found' \in [Thread -> SUBSET (Node \X Device)]
      BY <3>1 DEF TypeOK
    <3>7. paired' \in [Node -> Device \cup {0}]
      BY <3>1, <3>2 DEF TypeOK
    <3>8. QED
      BY <2>6, <3>5, <3>6, <3>7 DEF SavePeer, TypeOK
  <2>7. QED
    BY <1>4, <2>1, <2>2, <2>3, <2>4, <2>5, <2>6 DEF RefreshStep
<1>5. CASE DesktopStep
  <2>1. CASE StartListener
    <3>1. status["refresh"].self \in Nat
      BY Owners DEF TypeOK, Status
    <3>2. pc' \in [Thread -> Steps]
      BY <2>1 DEF StartListener, TypeOK, Steps
    <3>3. QED
      BY <2>1, <3>1, <3>2 DEF StartListener, TypeOK
  <2>2. CASE BindFails \/ EndRefresh
    <3>1. /\ pc' \in [Thread -> Steps] /\ status' \in [Thread -> Status]
          /\ found' \in [Thread -> SUBSET (Node \X Device)]
          /\ stage' \in [Process -> {"down", "create", "load", "up", "ended"}]
      BY <2>2, IdleType, Owners DEF BindFails, EndRefresh
    <3>2. /\ gate' \in BOOLEAN /\ served' \in Nat /\ alive' \in BOOLEAN
      <4>1. gate' \in BOOLEAN /\ alive' \in BOOLEAN
        BY <2>2, Zenon DEF BindFails, EndRefresh, TypeOK
      <4>2. served' \in Nat
        BY <2>2 DEF BindFails, EndRefresh, TypeOK
      <4>3. QED
        BY <4>1, <4>2
    <3>3. count' \in [events : Nat, refreshes : Nat, edits : Nat]
      BY <1>0, <2>2 DEF BindFails, EndRefresh, Event, TypeOK
    <3>4. UNCHANGED <<identity, file, lock, draft, own, memory, world, history>>
      BY <2>2 DEF BindFails, EndRefresh
    <3>5. QED
      BY <3>1, <3>2, <3>3, <3>4 DEF TypeOK
  <2>3. QED
    BY <1>5, <2>1, <2>2 DEF DesktopStep
<1>6. CASE EndCtl
  <2>1. /\ pc' \in [Thread -> Steps] /\ status' \in [Thread -> Status]
        /\ found' \in [Thread -> SUBSET (Node \X Device)]
        /\ stage' \in [Process -> {"down", "create", "load", "up", "ended"}]
    BY <1>6, IdleType, Owners DEF EndCtl
  <2>2. QED
    BY <1>6, <2>1 DEF EndCtl, TypeOK
<1>7. CASE SettingsStep
  <2>1. CASE SaveSettings
    <3>1. [draft["settings"] EXCEPT !.settings = count.edits] \in State /\ count.edits \in Nat
      BY Owners DEF TypeOK, State
    <3>2. /\ file' \in State /\ memory' \in [Process -> [Node -> Peer]]
          /\ lock' \subseteq Thread /\ draft' \in [Thread -> State] /\ pc' \in [Thread -> Steps]
      <4>1. "idle" \in Steps
        BY DEF Steps
      <4>2. QED
        BY <2>1, <3>1, <4>1, CommitType, Owners DEF SaveSettings
    <3>3. QED
      BY <2>1, <3>1, <3>2 DEF SaveSettings, TypeOK
  <2>2. CASE SettingsFail
    <3>1. lock' \subseteq Thread /\ draft' \in [Thread -> State]
      BY <2>2, UnlockType, Owners DEF SettingsFail
    <3>2. pc' \in [Thread -> Steps]
      BY <2>2 DEF SettingsFail, TypeOK, Steps
    <3>3. QED
      BY <1>0, <2>2, <3>1, <3>2 DEF SettingsFail, TypeOK, Event
  <2>3. QED
    BY <1>7, <2>1, <2>2 DEF SettingsStep
<1>8. CASE ListenerDies \/ ReaddressSelf
  <2>1. count' \in [events : Nat, refreshes : Nat, edits : Nat]
    BY <1>0, <1>8 DEF ListenerDies, ReaddressSelf, Change, Event
  <2>2. alive' \in BOOLEAN /\ self' \in Nat
    <3>1. alive' \in BOOLEAN
      BY <1>8, Zenon DEF ListenerDies, ReaddressSelf, Change, TypeOK
    <3>2. self' \in Nat
      BY <1>8 DEF ListenerDies, ReaddressSelf, Change, TypeOK
    <3>3. QED
      BY <3>1, <3>2
  <2>3. UNCHANGED <<identity, file, lock, draft, process, pc, status, found, gate, served,
                    tail, history>>
    BY <1>8 DEF ListenerDies, ReaddressSelf, Change
  <2>4. QED
    BY <2>1, <2>2, <2>3 DEF TypeOK
<1>9. ASSUME NEW n \in Node,
             Readdress(n) \/ Power(n) \/ Reinstall(n) \/ (\E m \in Node : Reregister(m, n))
      PROVE  TypeOK'
  <2>1. tail' \in [Node -> [address : Nat, online : BOOLEAN, device : Device \cup {0}]]
    <3>1. tail \in [Node -> [address : Nat, online : BOOLEAN, device : Device \cup {0}]]
      BY DEF TypeOK
    <3>2. CASE Readdress(n) \/ Power(n)
      <4>1. tail[n].address + 1 \in Nat /\ (~ tail[n].online) \in BOOLEAN
        BY <3>1
      <4>2. CASE Readdress(n)
        BY <3>1, <4>1, <4>2 DEF Readdress
      <4>3. CASE Power(n)
        BY <3>1, <4>1, <4>3 DEF Power
      <4>4. QED
        BY <3>2, <4>2, <4>3
    <3>3. CASE Reinstall(n)
      BY <3>1, <3>3 DEF Reinstall
    <3>4. CASE \E m \in Node : Reregister(m, n)
      BY <3>1, <3>4 DEF Reregister
    <3>5. QED
      BY <1>9, <3>2, <3>3, <3>4
  <2>2. self' = self /\ Change
    BY <1>9 DEF Readdress, Power, Reinstall, Reregister
  <2>3. QED
    BY <1>0, <2>1, <2>2 DEF Change, Event, TypeOK
<1>10. CASE UNCHANGED vars
  BY <1>10 DEF vars, TypeOK
<1>11. QED
  BY <1>1, <1>2, <1>3, <1>4, <1>5, <1>6, <1>7, <1>8, <1>9, <1>10 DEF Next

-----------------------------------------------------------------------------
(* Threads, transactions and drafts.                                       *)

\* A thread enters a transaction when nobody is inside one, and leaves its own.
LEMMA ThreadStep == TypeOK /\ ThreadInv /\ [Next]_vars => ThreadInv'
<1> SUFFICES ASSUME TypeOK, ThreadInv, [Next]_vars PROVE ThreadInv'
  OBVIOUS
<1>0. /\ pc \in [Thread -> Steps] /\ lock \subseteq Thread
      /\ stage \in [Process -> {"down", "create", "load", "up", "ended"}]
      /\ found \in [Thread -> SUBSET (Node \X Device)]
  BY DEF TypeOK
<1> USE Owners DEF ThreadInv, Saving
<1>1. ASSUME NEW p \in Process, StartStep(p) \/ Crash(p) PROVE ThreadInv'
  <2>1. CASE ReadKey(p) \/ StoreKey(p)
    <3>1. /\ UNCHANGED <<lock, pc, found, gate>> /\ stage[p] # "up"
          /\ \A q \in Process : q # p => stage'[q] = stage[q]
      BY <1>0, <2>1 DEF ReadKey, StoreKey
    <3>2. QED
      BY <1>0, <3>1
  <2>2. CASE LoadState(p)
    BY <1>0, <2>2 DEF LoadState
  <2>3. CASE Crash(p)
    BY <1>0, <2>3 DEF Crash
  <2>4. QED
    BY <1>1, <2>1, <2>2, <2>3 DEF StartStep
<1>2. CASE StartRefresh
  BY <1>0, <1>2 DEF StartRefresh
<1>3. CASE BeginEdit
  BY <1>0, <1>3 DEF BeginEdit, Begin
<1>4. ASSUME NEW t \in {"refresh", "ctl"}, RefreshStep(t) PROVE ThreadInv'
  <2>1. CASE Discover(t) \/ Probe(t)
    <3>1. /\ UNCHANGED <<lock, stage, gate>> /\ pc[t] \in {"discover", "probe"}
          /\ \E step \in {"addresses", "pair"} : pc' = [pc EXCEPT ![t] = step]
          /\ \A u \in Thread : u # t => found'[u] = found[u]
      BY <1>0, <2>1 DEF Discover, Probe
    <3>2. QED
      BY <1>0, <3>1
  <2>2. CASE DiscoverFails(t)
    BY <1>0, <2>2 DEF DiscoverFails, Fail, Idle
  <2>3. CASE SaveFails(t) \/ PairNameless(t)
    <3>1. Fail(t) /\ Unlock(t) /\ pc[t] \in Saving
      BY <2>3 DEF SaveFails, PairNameless
    <3>2. QED
      BY <1>0, <3>1 DEF Fail, Idle, Unlock
  <2>4. CASE BeginAddresses(t) \/ BeginPeer(t)
    BY <1>0, <2>4 DEF BeginAddresses, BeginPeer, Begin
  <2>5. CASE SaveAddresses(t)
    BY <1>0, <2>5 DEF SaveAddresses, Commit, Unlock
  <2>6. CASE SavePeer(t)
    BY <1>0, <2>6 DEF SavePeer, Commit, Unlock
  <2>7. QED
    BY <1>4, <2>1, <2>2, <2>3, <2>4, <2>5, <2>6 DEF RefreshStep
<1>5. CASE DesktopStep
  <2>1. CASE StartListener
    BY <1>0, <2>1 DEF StartListener
  <2>2. CASE BindFails \/ EndRefresh
    <3>1. Idle("refresh") /\ pc["refresh"] \in {"listener", "pair"} /\ UNCHANGED lock
      BY <2>2 DEF BindFails, EndRefresh
    <3>2. QED
      BY <1>0, <3>1 DEF Idle
  <2>3. QED
    BY <1>5, <2>1, <2>2 DEF DesktopStep
<1>6. CASE EndCtl
  BY <1>0, <1>6 DEF EndCtl, Idle
<1>7. CASE SettingsStep
  BY <1>0, <1>7 DEF SettingsStep, SaveSettings, SettingsFail, Commit, Unlock
<1>8. CASE UNCHANGED <<lock, pc, stage, found, gate>>
  BY <1>8
<1>9. QED
  BY <1>1, <1>2, <1>3, <1>4, <1>5, <1>6, <1>7, <1>8 DEF Next, vars, ListenerDies, ReaddressSelf,
     Readdress, Power, Reinstall, Reregister, Change

\* What a step does to the transactions: nothing; it begins one; it ends the
\* one there is; or a process starts or dies.
LEMMA TransactionCases ==
  ASSUME TypeOK, ThreadInv, [Next]_vars
  PROVE  \/ UNCHANGED <<file, lock, draft, own>>
         \/ /\ \E t \in Thread : \E step \in {"saveAddresses", "savePeer", "saveSettings"} : Begin(t, step)
            /\ UNCHANGED <<file, own>>
         \/ lock' = {}
         \/ \E p \in Process : ReadKey(p) \/ StoreKey(p) \/ Crash(p)
<1>1. ASSUME NEW t \in {"refresh", "ctl"}, RefreshStep(t)
      PROVE  \/ UNCHANGED <<file, lock, draft, own>>
             \/ /\ \E step \in {"saveAddresses", "savePeer", "saveSettings"} : Begin(t, step)
                /\ UNCHANGED <<file, own>>
             \/ lock' = {}
  <2>1. CASE Discover(t) \/ Probe(t) \/ DiscoverFails(t)
    BY <2>1 DEF Discover, Probe, DiscoverFails, Fail
  <2>2. CASE SaveFails(t) \/ PairNameless(t) \/ SaveAddresses(t) \/ SavePeer(t)
    <3>1. Unlock(t) /\ pc[t] \in Saving
      BY <2>2 DEF SaveFails, PairNameless, SaveAddresses, SavePeer, Commit, Saving
    <3>2. QED
      BY <3>1, Owners DEF Unlock, ThreadInv
  <2>3. CASE BeginAddresses(t) \/ BeginPeer(t)
    BY <2>3 DEF BeginAddresses, BeginPeer
  <2>4. QED
    BY <1>1, <2>1, <2>2, <2>3 DEF RefreshStep
<1>2. ASSUME SettingsStep PROVE lock' = {}
  <2>1. Unlock("settings") /\ pc["settings"] \in Saving
    BY <1>2 DEF SettingsStep, SaveSettings, SettingsFail, Commit, Saving
  <2>2. QED
    BY <2>1, Owners DEF Unlock, ThreadInv
<1>3. ASSUME BeginEdit PROVE Begin("settings", "saveSettings") /\ UNCHANGED <<file, own>>
  BY <1>3 DEF BeginEdit
<1>4. ASSUME \/ \E p \in Process : LoadState(p)
             \/ StartRefresh \/ DesktopStep \/ EndCtl \/ ListenerDies \/ ReaddressSelf
             \/ \E n \in Node : \/ Readdress(n) \/ Power(n) \/ Reinstall(n)
                               \/ \E m \in Node : Reregister(m, n)
             \/ UNCHANGED vars
      PROVE  UNCHANGED <<file, lock, draft, own>>
  BY <1>4 DEF vars, LoadState, StartRefresh, DesktopStep, StartListener, BindFails, EndRefresh, EndCtl,
     ListenerDies, ReaddressSelf, Readdress, Power, Reinstall, Reregister, Change
<1>5. QED
  BY <1>1, <1>2, <1>3, <1>4, Owners DEF Next, StartStep

\* The file does not change under a transaction, nor the identity of a process
\* that is inside one.
LEMMA DraftStep == TypeOK /\ ThreadInv /\ DraftInv /\ [Next]_vars => DraftInv'
<1> SUFFICES ASSUME TypeOK, ThreadInv, DraftInv, [Next]_vars PROVE DraftInv'
  OBVIOUS
<1>0. /\ draft \in [Thread -> State] /\ own \in [Process -> 0..2] /\ lock \subseteq Thread
      /\ \A t \in lock : stage[Owner(t)] = "up"
  BY DEF TypeOK, ThreadInv, Saving
<1>1. CASE UNCHANGED <<file, lock, draft, own>>
  BY <1>1 DEF DraftInv, Reconciled
<1>2. ASSUME NEW t \in Thread, NEW step, Begin(t, step), UNCHANGED <<file, own>> PROVE DraftInv'
  <2>1. lock' = {t} /\ draft'[t] = Reconciled(own[Owner(t)])
    BY <1>0, <1>2 DEF Begin
  <2>2. QED
    BY <1>2, <2>1 DEF DraftInv, Reconciled
<1>3. CASE lock' = {}
  BY <1>3 DEF DraftInv
<1>4. ASSUME NEW p \in Process, ReadKey(p) \/ StoreKey(p) PROVE DraftInv'
  <2>1. stage[p] # "up" /\ UNCHANGED <<file, lock, draft>>
        /\ \A q \in Process : q # p => own'[q] = own[q]
    BY <1>0, <1>4 DEF ReadKey, StoreKey
  <2>2. \A t \in lock : own'[Owner(t)] = own[Owner(t)]
    BY <1>0, <2>1, Owners
  <2>3. QED
    BY <2>1, <2>2 DEF DraftInv, Reconciled
<1>5. ASSUME NEW p \in Process, Crash(p) PROVE DraftInv'
  <2>1. /\ file' = file
        /\ \A t \in lock' : /\ t \in lock
                            /\ draft'[t] = draft[t] /\ own'[Owner(t)] = own[Owner(t)]
    BY <1>0, <1>5, Owners DEF Crash
  <2>2. QED
    BY <2>1 DEF DraftInv, Reconciled
<1>6. QED
  BY <1>1, <1>2, <1>3, <1>4, <1>5, TransactionCases

-----------------------------------------------------------------------------
(* Trust.                                                                  *)

\* state.json is written by the three commits, and nothing that was proved is
\* forgotten.
LEMMA FileCases ==
  ASSUME [Next]_vars
  PROVE  /\ \/ file' = file /\ wished' = wished /\ paired' = paired
            \/ \E t \in {"refresh", "ctl"} : SaveAddresses(t) \/ SavePeer(t)
            \/ SaveSettings
         /\ proved \subseteq proved'
<1>1. ASSUME NEW t \in {"refresh", "ctl"}, RefreshStep(t)
      PROVE  /\ \/ file' = file /\ wished' = wished /\ paired' = paired
                \/ SaveAddresses(t) \/ SavePeer(t)
             /\ proved \subseteq proved'
  BY <1>1 DEF RefreshStep, Discover, DiscoverFails, BeginAddresses, SaveAddresses, SaveFails, Probe,
     BeginPeer, SavePeer, PairNameless, Fail
<1>2. ASSUME \/ \E p \in Process : StartStep(p) \/ Crash(p)
             \/ StartRefresh \/ BeginEdit \/ DesktopStep \/ EndCtl \/ SettingsFail
             \/ ListenerDies \/ ReaddressSelf
             \/ \E n \in Node : \/ Readdress(n) \/ Power(n) \/ Reinstall(n)
                               \/ \E m \in Node : Reregister(m, n)
             \/ UNCHANGED vars
      PROVE  UNCHANGED <<file, history>>
  BY <1>2 DEF vars, StartStep, ReadKey, StoreKey, LoadState, Crash, StartRefresh, BeginEdit, DesktopStep,
     StartListener, BindFails, EndRefresh, EndCtl, SettingsFail, ListenerDies, ReaddressSelf, Readdress,
     Power, Reinstall, Reregister, Change
<1>3. SaveSettings => proved' = proved
  BY DEF SaveSettings
<1>4. QED
  BY <1>1, <1>2, <1>3 DEF Next, SettingsStep

\* What a transaction has loaded: the settings there are, and peers that are
\* trusted by the identity its process runs with.
LEMMA DraftFacts ==
  ASSUME TypeOK, DraftInv, TrustIsEarned, NEW t \in lock
  PROVE  /\ draft[t] \in State /\ draft[t].id = own[Owner(t)] /\ draft[t].settings = file.settings
         /\ draft[t].peers = IF file.id = own[Owner(t)] THEN file.peers ELSE NoPeers
         /\ Trusted(draft[t].id, draft[t].peers)
<1>1. draft[t] \in State
  BY DEF TypeOK
<1>2. draft[t].id = own[Owner(t)] /\ draft[t].settings = file.settings
      /\ draft[t].peers = IF file.id = own[Owner(t)] THEN file.peers ELSE NoPeers
  <2>1. draft[t] = Reconciled(own[Owner(t)])
    BY DEF DraftInv
  <2>2. QED
    BY <2>1 DEF Reconciled
<1>3. CASE file.id = own[Owner(t)]
  BY <1>1, <1>2, <1>3 DEF TrustIsEarned, Trusted
<1>4. CASE file.id # own[Owner(t)]
  BY <1>1, <1>2, <1>4 DEF NoPeers, Trusted
<1>5. QED
  BY <1>1, <1>2, <1>3, <1>4

\* The thread that commits holds the lock.
LEMMA Committing ==
  ASSUME TypeOK, ThreadInv
  PROVE  /\ \A t \in {"refresh", "ctl"} : SaveAddresses(t) \/ SavePeer(t) => t \in lock /\ t \in Thread
         /\ SaveSettings => "settings" \in lock
  BY Owners DEF ThreadInv, Saving, SaveAddresses, SavePeer, SaveSettings

\* An address refresh keeps the installations, a pairing adds one that has just
\* answered, and a settings edit touches no peer.
LEMMA TrustStep ==
  TypeOK /\ ThreadInv /\ DraftInv /\ TrustIsEarned /\ FoundInv /\ [Next]_vars => TrustIsEarned'
<1> SUFFICES ASSUME TypeOK, ThreadInv, DraftInv, TrustIsEarned, FoundInv, [Next]_vars
             PROVE  TrustIsEarned'
  OBVIOUS
<1>0. proved \subseteq proved'
  BY FileCases
<1>1. CASE file' = file
  BY <1>0, <1>1 DEF TrustIsEarned
<1>2. ASSUME NEW t \in {"refresh", "ctl"}, SaveAddresses(t) PROVE TrustIsEarned'
  <2>1. /\ t \in lock /\ draft[t] \in State /\ Trusted(draft[t].id, draft[t].peers)
        /\ file' = [draft[t] EXCEPT !.peers = RefreshAddresses(draft[t].peers, status[t])]
    BY <1>2, Committing, DraftFacts DEF SaveAddresses, Commit
  <2>2. /\ file'.id = draft[t].id
        /\ file'.peers = RefreshAddresses(draft[t].peers, status[t])
    BY <2>1 DEF State
  <2>3. \A n \in Node : file'.peers[n] # NoPeer => /\ draft[t].peers[n] # NoPeer
                                                 /\ file'.peers[n].device = draft[t].peers[n].device
    BY <2>1, <2>2 DEF RefreshAddresses, State, Peer
  <2>4. QED
    BY <1>0, <2>1, <2>2, <2>3 DEF TrustIsEarned, Trusted
<1>3. ASSUME NEW t \in {"refresh", "ctl"}, SavePeer(t) PROVE TrustIsEarned'
  <2>1. /\ t \in lock /\ t \in Thread /\ draft[t] \in State /\ draft[t].id = own[Owner(t)]
        /\ Trusted(draft[t].id, draft[t].peers)
    BY <1>3, Committing, DraftFacts
  <2>2. PICK a \in found[t] :
          file' = [draft[t] EXCEPT !.peers = AcceptSigned(draft[t].peers, a[1], a[2], status[t])]
    BY <1>3 DEF SavePeer, Commit
  <2>3. <<own[Owner(t)], a[1], a[2]>> \in proved
    BY <2>1, <2>2 DEF FoundInv
  <2>4. /\ file'.id = draft[t].id
        /\ file'.peers = AcceptSigned(draft[t].peers, a[1], a[2], status[t])
    BY <2>1, <2>2 DEF State
  <2>5. \A n \in Node : IF n = a[1] THEN file'.peers[n].device = a[2]
                                    ELSE file'.peers[n] = draft[t].peers[n]
    BY <2>1, <2>4 DEF AcceptSigned, State
  <2>6. QED
    BY <1>0, <2>1, <2>3, <2>4, <2>5 DEF TrustIsEarned, Trusted
<1>4. CASE SaveSettings
  <2>1. /\ draft["settings"] \in State /\ Trusted(draft["settings"].id, draft["settings"].peers)
        /\ file' = [draft["settings"] EXCEPT !.settings = count.edits]
    BY <1>4, Committing, DraftFacts DEF SaveSettings, Commit
  <2>2. file'.id = draft["settings"].id /\ file'.peers = draft["settings"].peers
    BY <2>1 DEF State
  <2>3. QED
    BY <1>0, <2>1, <2>2 DEF TrustIsEarned, Trusted
<1>5. QED
  BY <1>1, <1>2, <1>3, <1>4, FileCases

\* Answers are those of this identity's probes; a process that changes its
\* identity has none.
LEMMA FoundStep == TypeOK /\ ThreadInv /\ FoundInv /\ [Next]_vars => FoundInv'
<1> SUFFICES ASSUME TypeOK, ThreadInv, FoundInv, [Next]_vars PROVE FoundInv'
  OBVIOUS
<1>0. /\ proved \subseteq proved' /\ found \in [Thread -> SUBSET (Node \X Device)]
      /\ own \in [Process -> 0..2]
  BY FileCases DEF TypeOK
<1>1. CASE own' = own /\ \A t \in Thread : found'[t] \subseteq found[t]
  BY <1>0, <1>1 DEF FoundInv
<1>2. ASSUME NEW p \in Process, ReadKey(p) \/ StoreKey(p) PROVE FoundInv'
  <2>1. /\ UNCHANGED <<found, proved>> /\ stage[p] # "up"
        /\ \A q \in Process : q # p => own'[q] = own[q]
    BY <1>0, <1>2 DEF ReadKey, StoreKey
  <2>2. \A t \in Thread : found[t] = {} \/ own'[Owner(t)] = own[Owner(t)]
    BY <2>1, Owners DEF ThreadInv
  <2>3. QED
    BY <2>1, <2>2 DEF FoundInv
<1>3. ASSUME NEW p \in Process, Crash(p) PROVE FoundInv'
  <2>1. \A t \in Thread : found'[t] = {} \/ (found'[t] = found[t] /\ own'[Owner(t)] = own[Owner(t)])
    BY <1>0, <1>3, Owners DEF Crash
  <2>2. QED
    BY <1>0, <2>1 DEF FoundInv
<1>4. ASSUME NEW t \in {"refresh", "ctl"}, Probe(t) PROVE FoundInv'
  <2>1. PICK answers :
          /\ found' = [found EXCEPT ![t] = answers]
          /\ proved' = proved \cup {<<own[Owner(t)], a[1], a[2]>> : a \in answers}
    BY <1>4 DEF Probe
  <2>2. own' = own
    BY <1>4 DEF Probe
  <2>3. QED
    BY <1>0, <2>1, <2>2, Owners DEF FoundInv
<1>5. ASSUME NEW t \in {"refresh", "ctl"}, RefreshStep(t), ~Probe(t)
      PROVE  own' = own /\ \A u \in Thread : found'[u] \subseteq found[u]
  BY <1>0, <1>5 DEF RefreshStep, Discover, DiscoverFails, BeginAddresses, SaveAddresses, SaveFails,
     BeginPeer, SavePeer, PairNameless, Fail, Idle
<1>6. ASSUME \/ \E p \in Process : LoadState(p)
             \/ StartRefresh \/ BeginEdit \/ DesktopStep \/ EndCtl \/ SettingsStep
             \/ ListenerDies \/ ReaddressSelf
             \/ \E n \in Node : \/ Readdress(n) \/ Power(n) \/ Reinstall(n)
                               \/ \E m \in Node : Reregister(m, n)
             \/ UNCHANGED vars
      PROVE  own' = own /\ \A u \in Thread : found'[u] \subseteq found[u]
  BY <1>0, <1>6 DEF vars, LoadState, StartRefresh, BeginEdit, DesktopStep, StartListener, BindFails,
     EndRefresh, EndCtl, Idle, SettingsStep, SaveSettings, SettingsFail, ListenerDies, ReaddressSelf,
     Readdress, Power, Reinstall, Reregister, Change
<1>7. QED
  BY <1>1, <1>2, <1>3, <1>4, <1>5, <1>6 DEF Next, StartStep

-----------------------------------------------------------------------------
(* Nothing is lost.                                                        *)

\* With an identity file the first process to store its identity decides it.
LEMMA KeyStep == TypeOK /\ ThreadInv /\ DraftInv /\ TrustIsEarned /\ KeyInv /\ [Next]_vars => KeyInv'
<1> SUFFICES ASSUME TypeOK, ThreadInv, DraftInv, TrustIsEarned, KeyInv, [Next]_vars, ~keyring'
             PROVE  /\ \A p \in Process : /\ stage'[p] = "create" => own'[p] # 0
                                          /\ stage'[p] \in {"load", "up"} => own'[p] = key' /\ key' # 0
                    /\ file'.id # 0 => file'.id = key'
                    /\ file'.id = 0 => file'.peers = NoPeers
  BY DEF KeyInv
<1>0. /\ stage \in [Process -> {"down", "create", "load", "up", "ended"}] /\ own \in [Process -> 0..2]
      /\ key \in 0..2
  BY DEF TypeOK
<1>1. keyring' = keyring
  BY DEF Next, vars, StartStep, ReadKey, StoreKey, LoadState, Crash, StartRefresh, BeginEdit, RefreshStep,
     Discover, DiscoverFails, BeginAddresses, SaveAddresses, SaveFails, Probe, BeginPeer, SavePeer,
     PairNameless, Fail, DesktopStep, StartListener, BindFails, EndRefresh, EndCtl, SettingsStep,
     SaveSettings, SettingsFail, ListenerDies, ReaddressSelf, Readdress, Power, Reinstall, Reregister, Change
<1>2. /\ \A p \in Process : /\ stage[p] = "create" => own[p] # 0
                            /\ stage[p] \in {"load", "up"} => own[p] = key /\ key # 0
      /\ file.id # 0 => file.id = key
      /\ file.id = 0 => file.peers = NoPeers
  BY <1>1 DEF KeyInv
<1>3. /\ \A p \in Process : /\ stage'[p] = "create" => own'[p] # 0
                            /\ stage'[p] \in {"load", "up"} => own'[p] = key' /\ key' # 0
      /\ key # 0 => key' = key
  <2>1. ASSUME NEW p \in Process, StartStep(p) \/ Crash(p)
        PROVE  /\ \A q \in Process : /\ stage'[q] = "create" => own'[q] # 0
                                     /\ stage'[q] \in {"load", "up"} => own'[q] = key' /\ key' # 0
               /\ key # 0 => key' = key
    <3>1. CASE ReadKey(p)
      BY <1>0, <1>2, <3>1, Owners DEF ReadKey, Fresh
    <3>2. CASE StoreKey(p)
      BY <1>0, <1>1, <1>2, <3>2 DEF StoreKey
    <3>3. CASE LoadState(p) \/ Crash(p)
      BY <1>0, <1>2, <3>3 DEF LoadState, Crash
    <3>4. QED
      BY <2>1, <3>1, <3>2, <3>3 DEF StartStep
  <2>2. ASSUME NEW t \in {"refresh", "ctl"}, RefreshStep(t)
        PROVE  UNCHANGED <<key, own>> /\ \A q \in Process : stage'[q] \in {stage[q], "ended"}
    BY <1>0, <2>2 DEF RefreshStep, Discover, DiscoverFails, BeginAddresses, SaveAddresses, SaveFails, Probe,
       BeginPeer, SavePeer, PairNameless, Fail, Idle
  <2>3. ASSUME \/ StartRefresh \/ BeginEdit \/ DesktopStep \/ EndCtl \/ SettingsStep
               \/ ListenerDies \/ ReaddressSelf
               \/ \E n \in Node : \/ Readdress(n) \/ Power(n) \/ Reinstall(n)
                                 \/ \E m \in Node : Reregister(m, n)
               \/ UNCHANGED vars
        PROVE  UNCHANGED <<key, own>> /\ \A q \in Process : stage'[q] \in {stage[q], "ended"}
    BY <1>0, <2>3 DEF vars, StartRefresh, BeginEdit, DesktopStep, StartListener, BindFails,
       EndRefresh, EndCtl, Idle, SettingsStep, SaveSettings, SettingsFail, ListenerDies, ReaddressSelf,
       Readdress, Power, Reinstall, Reregister, Change
  <2>4. QED
    BY <1>2, <2>1, <2>2, <2>3 DEF Next
<1>4. /\ file'.id # 0 => file'.id = key'
      /\ file'.id = 0 => file'.peers = NoPeers
  <2>1. CASE file' = file
    BY <1>2, <1>3, <2>1
  <2>2. ASSUME NEW t \in lock, file'.id = draft[t].id PROVE file'.id = key' /\ key' # 0
    BY <1>2, <1>3, <2>2, DraftFacts, Owners DEF ThreadInv, Saving, TypeOK
  <2>3. ASSUME NEW t \in {"refresh", "ctl"}, SaveAddresses(t) \/ SavePeer(t)
        PROVE  t \in lock /\ file'.id = draft[t].id
    BY <2>3, Committing, DraftFacts DEF SaveAddresses, SavePeer, Commit, State
  <2>4. SaveSettings => "settings" \in lock /\ file'.id = draft["settings"].id
    BY Committing, DraftFacts DEF SaveSettings, Commit, State
  <2>5. QED
    BY <2>1, <2>2, <2>3, <2>4, FileCases
<1>5. QED
  BY <1>3, <1>4

\* Each commit writes its own change and, for all the rest, what is there.
LEMMA LostStep ==
  /\ TypeOK /\ ThreadInv /\ DraftInv /\ TrustIsEarned /\ KeyInv /\ NothingLost /\ [Next]_vars
  /\ keyring' = keyring
  => NothingLost'
<1> SUFFICES ASSUME TypeOK, ThreadInv, DraftInv, TrustIsEarned, KeyInv, NothingLost, [Next]_vars,
                    keyring' = keyring
             PROVE  NothingLost'
  OBVIOUS
<1>1. CASE file' = file /\ wished' = wished /\ paired' = paired
  BY <1>1 DEF NothingLost
<1>2. ASSUME NEW t \in lock
      PROVE  /\ draft[t] \in State /\ draft[t].settings = wished
             /\ ~keyring => \A n \in Node : draft[t].peers[n].device = paired[n]
  <2>1. /\ draft[t] \in State /\ draft[t].settings = file.settings
        /\ draft[t].peers = IF file.id = own[Owner(t)] THEN file.peers ELSE NoPeers
    BY DraftFacts
  <2>2. ~keyring => draft[t].peers = file.peers
    <3>1. stage[Owner(t)] = "up" /\ Owner(t) \in Process
      BY Owners DEF ThreadInv, Saving, TypeOK
    <3>2. QED
      BY <2>1, <3>1 DEF KeyInv
  <2>3. QED
    BY <2>1, <2>2 DEF NothingLost
<1>3. ASSUME NEW t \in {"refresh", "ctl"}, SaveAddresses(t) PROVE NothingLost'
  <2>1. /\ t \in lock /\ UNCHANGED <<wished, paired>>
        /\ file' = [draft[t] EXCEPT !.peers = RefreshAddresses(draft[t].peers, status[t])]
    BY <1>3, Committing DEF SaveAddresses, Commit
  <2>2. /\ file'.settings = draft[t].settings
        /\ file'.peers = RefreshAddresses(draft[t].peers, status[t])
    BY <1>2, <2>1 DEF State
  <2>3. \A n \in Node : file'.peers[n].device = draft[t].peers[n].device
    BY <1>2, <2>1, <2>2 DEF RefreshAddresses, State, Peer, NoPeer
  <2>4. QED
    BY <1>2, <2>1, <2>2, <2>3 DEF NothingLost
<1>4. ASSUME NEW t \in {"refresh", "ctl"}, SavePeer(t) PROVE NothingLost'
  <2>1. t \in lock /\ wished' = wished
    BY <1>4, Committing DEF SavePeer
  <2>2. PICK a \in found[t] :
          /\ file' = [draft[t] EXCEPT !.peers = AcceptSigned(draft[t].peers, a[1], a[2], status[t])]
          /\ paired' = [paired EXCEPT ![a[1]] = a[2]]
    BY <1>4 DEF SavePeer, Commit
  <2>3. /\ file'.settings = draft[t].settings
        /\ file'.peers = AcceptSigned(draft[t].peers, a[1], a[2], status[t])
    BY <1>2, <2>1, <2>2 DEF State
  <2>4. paired \in [Node -> Device \cup {0}] /\ draft[t].peers \in [Node -> Peer]
    BY <1>2, <2>1 DEF TypeOK, State
  <2>5. \A n \in Node : /\ file'.peers[n].device = IF n = a[1] THEN a[2] ELSE draft[t].peers[n].device
                        /\ paired'[n] = IF n = a[1] THEN a[2] ELSE paired[n]
    BY <2>2, <2>3, <2>4 DEF AcceptSigned
  <2>6. QED
    BY <1>2, <2>1, <2>3, <2>5 DEF NothingLost
<1>5. CASE SaveSettings
  <2>1. /\ "settings" \in lock /\ wished' = count.edits /\ paired' = paired
        /\ file' = [draft["settings"] EXCEPT !.settings = count.edits]
    BY <1>5, Committing DEF SaveSettings, Commit
  <2>2. file'.settings = count.edits /\ file'.peers = draft["settings"].peers
    BY <1>2, <2>1 DEF State
  <2>3. QED
    BY <1>2, <2>1, <2>2 DEF NothingLost
<1>6. QED
  BY <1>1, <1>3, <1>4, <1>5, FileCases

-----------------------------------------------------------------------------
(* The inductive invariant, and what follows from it.                      *)

\* Nothing is stored, nobody runs and nobody has answered.
LEMMA InitIInv == Init => IInv
<1> SUFFICES ASSUME Init PROVE IInv
  OBVIOUS
<1>1. TypeOK
  <2>1. /\ file \in State /\ draft \in [Thread -> State] /\ memory \in [Process -> [Node -> Peer]]
        /\ status \in [Thread -> Status] /\ found \in [Thread -> SUBSET (Node \X Device)]
    BY EmptyTypes DEF Init
  <2>2. /\ keyring \in BOOLEAN /\ gate \in BOOLEAN /\ alive \in BOOLEAN
    BY Zenon DEF Init
  <2>3. /\ key \in 0..2 /\ own \in [Process -> 0..2] /\ lock \subseteq Thread
        /\ stage \in [Process -> {"down", "create", "load", "up", "ended"}] /\ pc \in [Thread -> Steps]
        /\ served \in Nat /\ self \in Nat
        /\ count \in [events : Nat, refreshes : Nat, edits : Nat]
        /\ paired \in [Node -> Device \cup {0}] /\ wished \in Nat
    BY DEF Init, Steps
  <2>4. tail \in [Node -> [address : Nat, online : BOOLEAN, device : Device \cup {0}]]
    <3>1. [address : {1}, online : {TRUE}, device : Device \cup {0}]
            \subseteq [address : Nat, online : BOOLEAN, device : Device \cup {0}]
      <4>1. ASSUME NEW A, NEW B, NEW C, NEW D, NEW E, A \subseteq B, C \subseteq D
            PROVE  [address : A, online : C, device : E] \subseteq [address : B, online : D, device : E]
        BY <4>1
      <4>2. {1} \subseteq Nat
        OBVIOUS
      <4>3. {TRUE} \subseteq BOOLEAN
        BY Zenon
      <4>4. QED
        BY <4>1, <4>2, <4>3, Zenon
    <3>2. QED
      BY <3>1 DEF Init
  <2>5. QED
    BY <2>1, <2>2, <2>3, <2>4 DEF TypeOK
<1>2. ThreadInv /\ DraftInv /\ FoundInv
  BY Owners DEF Init, ThreadInv, DraftInv, FoundInv, Saving
<1>3. /\ file.id = 0 /\ file.settings = 0 /\ file.peers = NoPeers
      /\ \A n \in Node : NoPeers[n] = NoPeer /\ NoPeer.device = 0
  BY DEF Init, NoDraft, NoPeers, NoPeer
<1>4. TrustIsEarned /\ NothingLost
  BY <1>3 DEF Init, TrustIsEarned, NothingLost
<1>5. KeyInv
  BY <1>3 DEF Init, KeyInv
<1>7. QED
  BY <1>1, <1>2, <1>4, <1>5 DEF IInv

\* Every step keeps it.
LEMMA StepIInv == IInv /\ [Next]_vars => IInv'
<1> SUFFICES ASSUME IInv, [Next]_vars PROVE IInv'
  OBVIOUS
<1>1. keyring' = keyring
  BY DEF Next, vars, StartStep, ReadKey, StoreKey, LoadState, Crash, StartRefresh, BeginEdit, RefreshStep,
     Discover, DiscoverFails, BeginAddresses, SaveAddresses, SaveFails, Probe, BeginPeer, SavePeer,
     PairNameless, Fail, DesktopStep, StartListener, BindFails, EndRefresh, EndCtl, SettingsStep,
     SaveSettings, SettingsFail, ListenerDies, ReaddressSelf, Readdress, Power, Reinstall, Reregister, Change
<1>2. TypeOK' /\ ThreadInv' /\ DraftInv'
  BY TypeStep, ThreadStep, DraftStep DEF IInv
<1>3. TrustIsEarned' /\ FoundInv'
  BY TrustStep, FoundStep DEF IInv
<1>4. KeyInv' /\ NothingLost'
  BY <1>1, KeyStep, LostStep DEF IInv
<1>6. QED
  BY <1>2, <1>3, <1>4 DEF IInv

\* IInv holds in every reachable state.
LEMMA Invariance == Spec => []IInv
  BY InitIInv, StepIInv, PTL DEF Spec

\* Every peer state.json lists for an identity has answered a signed probe of
\* that identity, whichever processes race to store their identity, refresh,
\* edit settings, fail or die.
THEOREM TrustIsEarnedTheorem == Spec => []TrustIsEarned
<1>1. IInv => TrustIsEarned
  BY DEF IInv
<1>2. QED
  BY <1>1, Invariance, PTL

\* state.json holds the settings last saved and, with an identity file, the
\* latest pairing of every node: no transaction undoes another.
THEOREM NothingLostTheorem == Spec => []NothingLost
<1>1. IInv => NothingLost
  BY DEF IInv
<1>2. QED
  BY <1>1, Invariance, PTL
==============================================================================
