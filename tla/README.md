# A TLA+ model of meshelf

meshelf is a peer-to-peer offer shelf.  A device stores an *offer* (a text, or the path of a file or
folder) and announces its metadata to its paired peers; each peer keeps a *card*.  Payload bytes move
only when a user *activates* a card: the receiver connects to the origin, pulls the payload into a
staging directory, verifies it, publishes it and either puts it on the local clipboard or leaves it
in a save directory.  Nothing is queued, retried or resumed.

## Inventory

| part | state | operations | interacts with |
|---|---|---|---|
| activation service (`meshelf-net/src/activation.rs`) | `live` ids, `cleanup_blocked`, `uncertain_clipboard`, `recovered` | `recover`, `activate` | fetch receiver; shared by every service on one store |
| fetch receiver (`fetch_receiver.rs`) | staging tree, staging guard, reservation permit | `receive_one`, `apply_side_effect`, `finish_uncertain`, `startup_cleanup` | store, disk, clipboard worker, peer |
| journal and cache index (`meshelf-store/src/v2.rs`) | `activation_journal`, `clipboard_cache` slots | journal / update / remove row, set / clear / promote slot, `startup_cleanup` | one redb transaction each |
| shelf and offer sources (`v2.rs`) | cards and sources with sequence numbers, at most ten each | insert (purging the oldest), attempt, explicit refusal | announcement handler, fetch handler, coordinator |
| coordinator (`meshelf-control`) | settings and peers (a JSON file) | create offer, plan activation, refuse | store, announcements |
| announcement and listener (`meshelf-net/src/lib.rs`) | handler permits | announce, handle announcement, accept, refuse excess | trust gate, card store, fetch sender |
| fetch sender (`fetch_sender.rs`) | stream permits | authorise, plan, stream, abort, await receipt | source store, source files |
| reservation ledger (`fetch_receiver.rs`) | bytes reserved per file system | reserve, drop | free space |
| clipboard worker (`meshelf-platform/src/clipboard.rs`) | one worker thread, bounded queue | write text, write files, read | native clipboard |
| destination publication (`destination.rs`) | the save directory | publish without overwrite | file system |
| offer preparation and manifests (`offer_source.rs`, `meshelf-protocol/src/v2.rs`, `validate_manifest`) | none that lasts | walk, name checks, limits, chunks, validation | fetch sender and receiver |
| discovery, pairing and peer state (`meshelf-tailscale`, `meshelf-control/src/lib.rs`) | `state.json` under a lock file, peers in memory, reachability, listener address | refresh, probe, pair, settings | trust gate; every meshelf process of the user |
| identity (`meshelf-identity`) | the signing key, in a credential store or a file | load or create | peer state |
| resident and local control (`meshelf-platform/src/activation.rs`, `local_control.rs`) | `resident.lock`, the activation file, one control thread | become resident, signal, request, serve, quit | desktop, meshelfctl |
| desktop window (`apps/desktop/src/main.rs`) | shelf view, peer indicators, operation gate, activation gate, `active_activations` | refresh, paste and send, activate, cancel, settings, quit | all of the above |
| meshelfctl, Android seed, simulator | none, none, none | | resident |

What is hard here.  An activation makes nine or more durable changes to three media (the store, the
disk, the native clipboard) that no transaction spans; two activations run at once on threads of
their own over shared slots, flags and directories; every step can fail and the process can die
between any two; the clipboard write cannot be undone or repeated safely, so what happened must be
on record before and after it.  Between devices, announcements and receipts can be lost after they
took effect, and the rows they name can be purged or withdrawn while they are in use.  A fetch reads
files their owner may change at any moment, over a stream in which raw bytes and frames alternate.
On one device, several processes and threads share a state file, an identity, a control thread and
pools of permits, and any of them may fail, stall or die while it holds its share.  The hazards
are listed with their lines in `PROJECT.json`.

What makes each part correct:

* activation service: ids leave the live set on every path; recovery runs before admission and ends;
* journal: a row precedes the directory and the clipboard write it accounts for, and outlives them;
* receiver: a card says completed only if it is true; an uncertain clipboard write is never replayed
  and never forgotten; residue is removed, journaled or blocks admission;
* cache: the object the index (and the clipboard) names exists, and nothing else is kept;
* shelf: at most ten entries, newest first, and the oldest go; a source exists before its cards;
* sender: nothing of an offer is read for a device the offer was not announced to; what it calls
  complete was one state of the source; it believes in a delivery only after a true receipt;
* frames: neither end ever misreads the other, and both always end;
* manifests: what is admitted is what was offered, file for file;
* pools: permits and reservations come back whatever ends their holder;
* peer state: no transaction loses another's, and nobody is trusted who has not proved an identity;
* resident: at most one, the one everybody finds, and no caller keeps it;
* window: it shows the last change it was told of, and no indicator claims what did not happen.

## Modules

* **`Activation`** - the activation service, the receiver, the journal, the cache index, the
  clipboard and recovery.  One element of `Activation` is one activation (its id is a fresh UUID); `pc[a]` is where
  its thread stands between two durable effects.  Each action is one effect of the source: one redb
  transaction, one file-system change, one native clipboard write or one read of shared state.
* **`Delivery`** - the abstract specification of an activation: a payload is delivered at most once, to
  the clipboard only under a pledge that outlives the process; a pledge is kept, withdrawn or in doubt for
  good; the card tells the truth about it.  `Activation` implements it (`Abstract == INSTANCE Delivery
  WITH phase <- Phase, told <- Told, ...`, `ImplementsDelivery`).
* **`Offers`** - creating an offer, announcing it to the peers, the card and source tables on every
  device, refusals, restarts and reinstallations.
* **`RecentRows`** - the abstract specification of one bounded table: it keeps the newest keys and
  their order of arrival, and knows no sequence numbers.  `Offers` implements it twice, for shelves
  (`Shelf == INSTANCE RecentRows WITH live <- CardLive, before <- CardBefore`) and for source tables.
* **`ShelfView`** - the desktop window, its notifications and its refresh threads.
* **`FetchSession`** - one fetch: the origin's handler and the requester composed over one connection,
  frame by frame, with the source files changing, the connection breaking, waits timing out and the
  user cancelling.
* **`Transfer`** - the abstract specification of a fetch: content is taken whole or not at all, and the
  origin believes in a delivery only after the requester recorded it.  `FetchSession` implements it
  (`Abstract == INSTANCE Transfer WITH ...`, `ImplementsTransfer`).
* **`Manifest`** - a folder from the walk that offers it, through the origin's plan and the manifest
  frames, to the requester's validation and the files it lays out.
* **`Transfers`** - what concurrent transfers share: accept loop, handler and stream permits, and the
  reservation ledger over one file system.
* **`Peers`** - identity, `state.json`, refreshes, pairing and settings in two processes.
* **`Resident`** - who is the resident, how others reach it, its control thread, and clicks on cards.
* **`Indicators`** - the row of peer indicators in the window, where the views of refreshes meet the
  updates of a running send.
* **`MC...`** - the instances for TLC (symmetry sets, shapes, cards).
* **`ActivationProofs`**, **`OffersProofs`**, **`ShelfViewProofs`**, **`FetchSessionProofs`**,
  **`TransfersProofs`**, **`PeersProofs`**, **`ResidentProofs`**, **`IndicatorsProofs`** - inductive
  invariants and theorems.

How `Activation` corresponds to the code:

| model | code |
|---|---|
| `journal`, `attempt`, `cards`, `inFlight`, `completed` | tables of the redb store: survive a crash |
| `staging`, `cache`, `saved` | `staging/<id>`, `clipboard-cache/candidate-<id>`, the save directory |
| `clip` | whose payload the native clipboard holds |
| `cleanupBlocked`, `uncertainClipboard`, `live` | `SharedActivationOwner`: lost in a crash |
| `connect` .. `gate` | `fetch_v2_with_cancel`, head of `receive_one`, header, manifest, uncertainty gate |
| `reserve` .. `place` | reservation, journal row, staging, admission, payload, `publish` |
| `apply` .. `evict` | `apply_side_effect` |
| `finish` .. `close`, `uncertain`, `unrecorded` | the finishing steps and `finish_uncertain` |
| `unindex`, `discard`, `cleanup`, `unjournal`, `record`, `refuse` | the retracting paths |
| `guard`, `guardClean`, `guardDirty` | `StagingGuard::drop` |
| `proc` = `down`, `staging`, `rows`, `cache`, `up` | the process and the phases of `recover` |

Abstractions.  The bytes, digests and manifests of a transfer are one nondeterministic outcome of
`ReadPlan`, `Receive` and `ReceiveFails`; several `OfferAttemptCode`s (source unavailable, source
changed, verification failed) are one `Failed`.  A text carries no file, `file` is a cached regular
file, `folder` a cached tree (recovery treats the two differently), `save` either.  `PurgeCard` is
the eleventh announcement arriving.  A crash also stands for quitting: both just end the threads.
`leaked`, `wrote`, `settled` and `overlapped` are history variables.  `overlapped` holds the files and
folders that were on their way to the clipboard, past the uncertainty gate, together with another:
the code admits two activations at once, and `V2_MAX_ACTIVE_CLIPBOARD_PULLS = 1`
(`meshelf-protocol/src/v2.rs:33`) is declared and read by nothing.

How `Offers` corresponds to the code:

| model | code |
|---|---|
| `sources[d][o]`, `announcedTo[o]`, `cards[d][o]` | `OFFER_SOURCES_V2` and `OFFER_CARDS_V2`: a row is its sequence number, 0 is no row |
| `peers[d]` | the peer registry of `d`; `Pair` is `accept_discovered` / `accept_signed`, which replaces the installation known on a node |
| `Target`, `IsPurged`, `IsMaximum`, `Inserted` | `purge_oldest_*`, `next_*_sequence` and the insert, one transaction |
| `LoadPeers`, `StoreSource`, `StoreSourceFails` | `create_offer_with_id` |
| `FanOut`, `FanOutFails`, `Connect`, `GiveUp`, `ReadAck` | `announce_offer_plan_with_progress`, which may end with an error before any peer is contacted (the state cannot be loaded, no runtime), `announce_offer_v2`, `classify_announce_result` |
| `inbox`, `ReceiveNew`, `ReceiveFails` | `handle_v2_connection` and `handle_sync`, which the sender's timeout does not stop |
| `FetchAuthorised` | the eligibility checks of `handle_fetch` |
| `Restart`, `Reinstall` | the process ends and starts again, under the same or another identity |

Abstractions.  Descriptors, addresses and signatures: an installation answers for itself or not at
all, so a peer record is the identity it names; an offer id (a fresh UUID) never comes with a second
descriptor, so `RefusedConflict` does not occur; and no product code announces an offer a second time, so neither
does `Duplicate`.  `VersionMismatch` is reported like `Unavailable`.
The acknowledgement of announcement `n` reaches only the connection that sent announcement `n`.
`persisted`, `received`, `refused` are history variables.

How `ShelfView` corresponds to the code: `cards` and `active` are versions of the card table and of
`active_activations`; `committed` holds inserts whose `notify()` is still to come, `queue` the
subscriber's channel, `owed` direct calls of `refresh_shelf_in_background` whose thread has not
started; each `Refresher` is one such thread, which reads the cards (`LoadCards`), then the running
activations (`LoadActive`), and hands the snapshot to the event loop (`ApplySnapshot`).
`RecordRemoteAttempt` is an activation that `DesktopLocalRuntime::activate` runs for a command: it changes
a card, registers nothing and asks for no refresh; `signalled` is the last version of the card table
that a refresh follows.  The peer names a snapshot also carries are left out.  `signalled`, `shown` and `told` are history variables.

How `FetchSession` corresponds to the code:

| model | code |
|---|---|
| `Authorise`, `Refused` | `handle_fetch`: the checks, the refusals and the permit's answer (`grant`) |
| `Walks`, `WalkFile`, `WalkEnds`, `WalkFails` | `build_source_plan`, run for the plan, again after the admission and again before `fetch_complete`; a walk is one step per file, so files change during it |
| `UnchangedSourceFails`, `Grievances` | refusals and aborts that blame a source nobody touched: names and path lengths only the origin's walk refuses (`source_changed`), any failed listing, stat or open (`source_unavailable`) |
| `OpenFile`, `SendBlock`, `MidStream`, `SendFileEnd`, `FileDone`, `Abort` | `open_and_verify_file`, `stream_file`, `send_plan`, `send_abort` |
| `handle` | the open file: a replaced path does not change what is read, an edit does |
| `ReadHeader` .. `Admitted` | `read_header`, `read_manifest`, destination, gate, reservation, admission |
| `ReadText` .. `ReadComplete`, `Verified`, `Apply`, `Close` | `receive_payload`, `publish` and `apply_side_effect`, the receipt |
| `ReadFails`, `ReadCancelled`, `LocalIo`, `Aborted`, `VerificationFailed` | the arms of `ReceiveFailure` |
| `cancel` | the watch channel: seen at once by a waiting read, or before the next one |
| `toR`, `toS`, `closed`, `cut` | the byte stream; a reset may lose what is in flight |

Abstractions.  A version number stands for a file's contents together with the metadata its
commitment hashes: every change of a file is assumed to show in its metadata.  `shape.walkable` and
`shape.readable` say whether the origin's walk takes the folder as it was offered, and whether every
open of it succeeds; what decides the former is in `Manifest`.  Blocks stand for runs of payload bytes, digests for the versions hashed.  The
manifest is one frame here and chunks in `Manifest`.  What happens behind `Apply` is `Activation`.

`Manifest`: `Prepare` is `prepare_source` with `walk_directory` and the limits of
`OfferDescriptor::validate`; `Plan` is `build_folder_plan` with the checks of `walk_folder` (`Walkable`: names and path length) and
`chunk_manifest`; `ReadChunk`, `ReadEnd`, `Validate` are `read_manifest`, `validate_manifest` and
`prepare_staging`.  Names are numbers; `Fold` gives each its lower-case form, `Offerable` and
`Plannable` are the two name checks, which differ in the code.  Names have sizes, from which the length
of a path (`PathBytes`, limited by `MaxPath`) and the size of an entry are counted, in place of
bytes and of the length of its JSON.

`Transfers`: `loop` is `serve_inner`, whose refusal of an excess connection runs in the loop itself;
`handler[c]` is the task that owns a handler permit; `client[c]` is `PeerClient` and, for a fetch, the
requester's use of the ledger.  `Snapshot` reads the free space without the lock and `Reserve` takes
the lock, as the code does.  Payload sizes are small numbers: the checked additions are not driven to
overflow.  `FetchElsewhere` is a fetch from another origin that shares only the ledger.

`Peers`: `draft[t]` is what a transaction loaded under the lock, `Commit` its save and rename.
`stage`, `own`, `memory` are a process with its identity and its `Controller`.  `Probe` is all probes of
a refresh in one step; `BeginPeer`, `AcceptSigned`, `SavePeer` pair one candidate at a time.
`keyring` chooses between a credential store, which overwrites, and an identity file, created
exclusively; `Init` leaves open which, and which installation is on which node.  A node has one address.
`EndRefresh` gives the permit back and no more: what the window then makes of the view is in `Indicators`.
`Readdress`, `Power`, `Reinstall`, `Reregister` are the tailnet.

`Resident`: `stage[l]` follows `main` (or `run_serve`) from the lock to the exit; `control[l]` is the
thread of `listen_with_control`, one connection at a time; `pc[x]` is a caller in `signal` or `request`.
`click[k]` is `on_activate_offer`: the refresh, its completion, the activation thread.  What a request
does is in the other modules; here it is performed or refused.

`Indicators`: `indicator` is `PeerIndicatorStates`; `results` are the views and errors of refreshes
that have dropped their permit (`EndRefresh`) and not yet reached the event loop (`ApplyView`,
`ApplyError`), in any order; `ann[d]` is the part of `d` in a running fan-out, shown by `ShowPending` and
`ShowOutcome` (`apply_announce_update`).  Pairing is reduced to its effect on the list of peers.

History variables: `whole` in `FetchSession`, `raced` in `Transfers`, `proved`, `paired`, `wished`
in `Peers`, `done` and `report` in `Resident`, `answered`, `probed`, `applied`, `acked` in `Indicators`.

## Runs

Bounds: two activations are what `MAX_CONCURRENT_ACTIVATIONS` admits, so every interleaving of
threads is there; a third can only run after one has ended, and for it the theorems stand.  A request
beyond the limit is refused busy and changes nothing, so it is no step of the model.
`MaxFaults` counts failed store
transactions and file removals (network failures, refused writes and uncertain clipboard writes are
not counted and may happen at any time), `MaxCrashes` process deaths.  One fault plus one crash
reaches every failure path and its recovery.  The safety run leaves out plain files, which differ from
folders only in recovery; the liveness run has both.  Deadlock is not checked because a finished
system may stop.

| run | what it shows |
|---|---|
| `activation_safety` | two interleaved threads, a fault and a crash: the record of a clipboard write precedes and outlives it, staging is accounted for, the indexed object exists, the refinement of `Delivery`; for an activation that did not overlap with another file or folder, the object on the clipboard exists and a candidate whose application is open is kept; an idle cache holds the index, what overlapped and at most one object per failure |
| `activation_liveness` | every admitted activation ends, and a stopped process serves again unless a crash left an unindexed plain file in the cache |
| `dangling_clipboard` | violation: with two threads `ClipboardPathExists` fails (A writes, B writes, B promotes, A promotes and deletes B's object) |
| `offers_safety` | exact eligibility and the refinement of `RecentRows` by both tables |
| `offers_delivery` | source before card, true reports, and that every recipient is reported |
| `shelf_view_refresh` | no refresh is lost, and every change that a refresh follows reaches the window, or a failed read is reported |
| `fetch_session` | no frame is ever misread, a card blames the source only with a reason, a completed fetch was a snapshot of the source, the refinement of `Transfer`, and both ends end |
| `manifest` | an admitted manifest is the offered folder, in places of their own where case is ignored; exactly the walkable, encodable, non-empty folders whose names differ in more than case are admitted |
| `transfers` | permits and the ledger are exact, the headroom stays free, everything comes back |
| `peers` | trust is earned by a signed answer to this identity, no transaction is lost, every refresh ends |
| `resident` | the resident that serves is the one published, one pull per card, and the control thread comes back from every caller |
| `indicators` | a peer shown reachable answered the refresh that is shown, one shown stored acknowledged, one shown pending has an announcement under way, which no view wipes |

Bounds of `Offers`.  The safety run has one sender, one receiver, three offers and `MaxLive = 2`, so a
third offer purges the first and a refusal of the newest row makes its number available again; two
restarts.  The delivery run has three installations, two of them on one
node, two senders and `MaxLive = 1`, so that a plan can name an installation that has been replaced
and both directions run at once.  `Senders` and `MaxRestarts` bound the environment, not the code.

Bounds of `ShelfView`.  Two refresh threads are enough for reads and applications to cross; two card
changes, one activation (its start and its end), one attempt recorded for a command, one refresh without
a change and one failed read.  `Refresher`, `MaxChanges`, `MaxActive`, `MaxRemote`, `MaxNudges` and `MaxFaults` are bounds of the environment;
`MaxActivations` is the limit of `ActivationGate`.

Bounds of the transfer modules.  `FetchSession`: a text of two blocks, a file of one, a folder with files
of two, none and one blocks, a folder of directories only, a file and an empty folder whose opens may
fail, and a folder the origin refuses to walk; two changes of the source, a window of two frames so that writes block, and a cancel.  Two
changes let a change during one walk meet another during the stream.  `Manifest`: five names, of which
2 is the upper case of 1, 3 is long, 4 may be offered but not planned and 5 not even offered; up to four nodes on
two levels; limits so small that three entries, two chunks, the path length and both size limits are crossed.
`Transfers`: three connections for two handlers and one stream, so one connection is refused as excess
and one fetch as busy; room for two payloads of two with headroom one, so a third does not fit; one
fault and one restart.

Bounds of `Peers`, `Resident` and `Indicators`.  Two nodes, one without a node id, two installations, one event (a
failure, a crash or a change of the tailnet) at any step, two refreshes and one settings edit beside
`meshelfctl refresh`.  Two desktops and one `meshelfctl serve`, one command, four clicks on three cards
with two permits, one fault.  Two devices, two refreshes and two offers, enough for a view to be overtaken
by a later one and by a whole send.  These bound the environment, not the code, except `MaxPulls`.

Fairness.  `FairSpec` assumes weak fairness of each thread and of recovery: the receiver's network
waits are bounded by timeouts, the clipboard worker answers or stops, and a process that stopped is
started again by its user.  Nothing is assumed of crashes, cancels or the peer.  `RecoversEventually`
excepts the one state in which recovery fails forever (see below).

`Offers`: weak fairness of storing the source, of the fan-out and of `GiveUp`, because
`connect_timeout` and `io_timeout` bound every wait of a sender; nothing is assumed of the receiver,
the network or the users.  `ShelfView`: weak fairness of the threads that have work (the writer about
to notify, the subscriber, a running activation, the refresh threads) and of the event loop; no
change, no press of the refresh button and no successful read is assumed.

`FetchSession`: weak fairness of each end; every read and write of either is under a timeout, which is
an action of that end (`ReadMayFail`, `WriteMayFail`).  `Transfers`: weak fairness of the accept loop,
of each client and of each handler; nobody has to connect, shut down or restart.  `Peers`: weak
fairness of the refresh threads, the desktop and the settings thread, whose commands and probes have
timeouts; nobody has to ask for a refresh.  `Resident`: weak fairness of the control thread only, whose
reads time out and whose work ends; nothing is assumed of callers, users or the window.

## Proofs

`ActivationProofs` proves, for any set of activations, any bound on concurrency, faults and crashes,
that `Spec` implies the invariants of `activation_safety`, the action property `UncertainIsFinal`, and
two invariants no run needs to repeat: `LiveIsRunning` (exactly the running threads are in the live set)
and `CompletedMeansApplied` (a card says Completed only of a payload that arrived and left no staging).
The only assumption is `ActivationAssumption`; the set of activations may be infinite.

The invariants are not inductive as they stand, because what a step may do depends on where its
thread is.  `IInv` ties each program counter to the durable state it relies on: `RunningInv` (the
live set is the running threads, and there are none while the process is down or recovering),
`EffectInv` (which rows and history a thread at each label has), `StagingInv` (rows for staging
directories), `UncertainInv` (an uncertain row stays with a thread at the labels that may still
settle it), `ResidueInv`, `CacheInv` (the completed slot, and what `prev` may name, so that eviction
never takes the indexed object), the gate invariant `UncertaintySurvivesRestart` itself, and
`CountInv`.  There is one lemma per part, with one case per action, and `FinalStep` for the action
property.  TLC checked `IInv` first.

The properties of the cache are proved for any limit and with overlapping activations, which the code
admits.  What the strict statements say fails for activations that overlapped, so the properties are about
those that did not (`clip \notin overlapped`), *beside* any number that did, and `SoleInv` says why they
are safe.  `RivalInv`: two files or folders are between the gate and the end of the application
(`Engaged`) together only if both are recorded as overlapping.  `OwnerInv`: an engaged thread found
the in-flight slot empty and every application settled, so what it finds there later is its own or
belongs to one that overlaps.  `KeepInv`: what the clipboard may point at and every candidate whose
outcome is open is indexed and on disk.  `StrayInv`: an object that neither the index, nor a thread
about to place or remove it, nor an overlap accounts for was paid for by a failure (`Paid`), so there are
at most `faults` of them.  `ClipboardPathKept`, `OpenCandidateKept` and `CacheBounded` follow.  That the
exception is needed is what `dangling_clipboard` and the first of the known disagreements show: mutual
exclusion of clipboard pulls is what the code would have to add.

The last part of `ActivationProofs` proves that `Activation` implements `Delivery`, under the same assumption and with
overlapping activations.  The mapping reads the phase of a payload off its row, the history (`wrote`,
`saved`, `settled`) and the label of its thread: a row in `ApplyingClipboard` is the pledge,
`UncertainNoReplay` the doubt.  `OutcomeInv` adds to `IInv` what the mapping needs: a thread that records
an uncertain outcome has a delivered payload and the row that says so, a pledge exists only at labels that
can still keep or withdraw it, and a card is written once, except that `UncertainNoReplay` may follow
`Completed`.  `StepOfOne` shows that a step of a thread, or of recovery for one row, moves at most its own
payload or its own card as `Delivery` allows; `LiftStop` that a crash abandons all that is open at once
and no pledge; `LiftRecovery` that the other recovery steps are stutters.  A saved file needs no pledge and may be
reported as failed although it is visible (publication is not atomic); for the clipboard
`FailedMeansUntouched` excludes this.

`OffersProofs` proves, for any devices, nodes, offers and bounds, every safety property of the two
runs, both refinements, and that no table exceeds its limit (`TablesBounded`).  `IInv` has five parts besides the types: `StageInv` (what an offer has at
each stage of its creation), `AnnounceInv` (frames, acknowledgements and outcomes belong to planned
recipients of committed offers), `ReceiptInv` (an acknowledgement in transit was preceded by a card),
`EligibleInv` (a live row names the plan less the refusals) and `OrderInv` (numbers in a table are
distinct).  `OrderInv` is what makes the reuse of numbers harmless: a new row gets the largest
surviving number plus one, so comparing numbers is comparing arrivals, and every step of a table is
an `Insert` or `Withdraw` of `RecentRows`.  `TablesAreBounded` assumes a finite set of offers, because
cardinality says nothing of infinite sets; the other theorems need only `OffersAssumption`.

`ShelfViewProofs` proves the types and `NoLostRefresh` for any number of threads and changes.  The invariant is that
the current activations and the last signalled change of the cards, as long as no snapshot has shown them
together and no failed read was reported, have a refresh *under way* that can still read both: a signal not yet served, a running activation that will ask for one, a thread that has not
read yet, or one that has read no less than what was signalled so far.

`FetchSessionProofs` proves, for any set of offers (with any number of files of any size), any number
of changes of the source and any window, the three invariants of the run and that `FetchSession`
implements `Transfer`.  A fetch is two programs that must agree on where in one stream they are.  The proof gives the
stream *places* (header, manifest, start of a file, block, end of a file, complete, over) and a function
`Follow` from each to the next.  `RPlace` is the place the requester reads next, `SPlace` the one the origin
writes next; `StreamInv` says that the frames in flight fit the places from the one to the other, but
for a refusal or abort that may be the last, at a place where the requester accepts one, and for what
a reset lost.  `OriginInv` and `RequesterInv` tie the digests of both ends to the files they have passed;
`EndInv` says what an end that stopped has left; `ChangedInv` that blocks of a changed file are in flight only
as the last frames and only while the origin can no longer finish that file; `HonestInv` that a code blaming the source
has a reason, a change or a source that could not be walked or read from the start; `SnapshotInv` that a requester which completes does so after the origin's last walk.  None
of them is inductive without the others: that a digest agrees depends on which blocks were in flight when
the file changed, and this on where both ends stood.  The refinement follows action by action, with
`TakenContent`, `Recorded` and `Believed` as the mapping.  `FetchSessionAssumption` says that a text is not empty
because `OfferDescriptor` rejects an empty one (`EmptyText` in `meshelf-core/src/offer.rs`); without it both
ends would have a place for a block that never comes.

`TransfersProofs` proves the type invariant, which contains the exact books of both pools and of the
ledger, and `HeadroomKept`, for any finite set of connections, any pools, payloads, headroom and faults.
A sum over connections is the cardinality of a set of bytes (`Bytes`), so that adding a reservation is a
disjoint union.  `QueueInv` says that a connection waits once and before it has a handler, `PoolInv` and
`LedgerInv` are the books, `SpaceInv` is what makes the unlocked reading of the capacity sound: what a
requester has read is at most what is free now plus what downloads still under a permit have taken, and
the ledger it then checks against counts these.  A permit given back between the reading and the check is
the one case in which this is lost (`raced`).

`PeersProofs` proves `TrustIsEarned` and `NothingLost` for any finite tailnet and
set of installations and any number of events.  The threads meet only in `state.json`: `ThreadInv` (exactly
the thread inside a transaction holds the lock, and runs in a process that is up) and `DraftInv` (what a
transaction loaded is what the file still holds, reconciled with the identity of its process) give that
a commit changes nothing but what it means to; `FoundInv` (what is about to be paired has answered a
probe of this identity) carries trust, and `KeyInv` (with an identity file every process past its start runs
with the stored identity) the second half of `NothingLost`.

`ResidentProofs` proves `ServingIsPublished` and `OnePullPerCard` for any finite sets of
launches, commands and clicks.  `HolderInv` and `SocketInv` (a control socket lives in a process that has the
store open, and there is one) say who may touch the activation file when, `ClickInv` is the exact count of permits.

`IndicatorsProofs` proves both properties of `indicators` for any devices and any number of refreshes
and offers.  A view is applied when later refreshes may already have probed, so the invariant follows each
result by the number of its refresh: `NumberInv` says that whatever waits to be applied is older than
the refresh that runs, whose probes are therefore recorded under another number, and `AnswerInv` that
the reachable devices of a view and of the controller answered under its number.

Only model-checked:

* the liveness properties `Terminates`, `RecoversEventually`, `EveryPeerReported`,
  `ChangesReachTheWindow`, `BothEnd`, `Drains`, `RefreshEnds`, `ControlComesBack`: fairness is out of the
  prover's reach;
* `AdmittedIsOffered` and `AdmittedExactly` of `Manifest`: what sorting and folding over a sequence
  compute for every input needs an induction over data, which is also out of its reach.

## Known disagreements

Where the code and what is written about it part.  The first has a run.  For the others the module
named has the property, which does not hold: TLC finds a counterexample within the bounds of the
module's runs, unless others are given.  The passing runs state what does hold.

* Two clipboard activations at once: the second promotion deletes the object the clipboard names
  (`dangling_clipboard`).
* The in-flight slot then names only the second candidate: a crash and the recovery after it remove the
  first although its outcome is open (`fetch_receiver.rs:1666`; `UncertainCandidateKept` of `Activation`), and even without
  a failure an object may stay that no slot names (`CacheIsIndexed`).  Two folders and one crash show it.
* A save whose card was purged meanwhile cannot record its attempt and blocks every later activation
  until restart (`fetch_receiver.rs:892`; `CHANGELOG.md:5`; `BlockedOnlyByFailure` of `Activation`).
* A dropped staging guard that cannot remove its tree removes its row all the same, leaving a tree no
  row accounts for (`fetch_receiver.rs:2463`; `v2.rs:480`; `StagingJournaled`).
* A plain file that a crash leaves unindexed in the cache makes every start fail
  (`fetch_receiver.rs:397`; `RecoversAlways`, with one file and one crash).
* The last snapshot applied to the window need not be the last one read (`main.rs:616` of the desktop;
  `coordinator.rs:35`; `WindowShowsTheStore` of `ShelfView`).
* The attempt of an activation that a command asked for is not shown until something else refreshes the
  window (`main.rs:231` of the desktop; `ShelfUpdatesWithoutATimer`).
* A refresh drops its permit before its view reaches the window, so an earlier view may replace a later
  one (`main.rs:976` of the desktop; `LatestProbeIsShown` of `Indicators`).
* An empty folder can be offered and is refused by every requester (`fetch_receiver.rs:2227`;
  `OfferedIsAdmitted` of `Manifest`).  So are folders with names that differ only in case.  Names such as `CON .txt`, which
  the first name check lets pass and the second does not, and paths longer than the origin's walk admits
  (`fetch_sender.rs:1052`) are refused as a changed source although nothing changed, which disables the
  card (`ChangedMeansChanged` of `FetchSession`).
* Two reservations made on readings taken before a permit was dropped may together use the headroom;
  `HeadroomKept` excludes exactly these (`raced`).
* A command that gives up after five seconds reports a failure although the resident goes on and
  carries it out (`activation.rs:23` of meshelf-platform; `FailureMeansNotDone` of `Resident`).
* A device paired by a refresh is reported reachable only by the next one (`meshelf-control/src/lib.rs:379`).
* A listener without free handlers answers with the text that asks to update the peer, so a busy peer
  is reported as outdated (`meshelf-net/src/lib.rs:3631`).  `Offers` has one report for both.
* Nothing ever clears an uncertain row or an abandoned in-flight slot: after one uncertain write the
  clipboard mode is refused for good (`v2.rs:604`; visible in `UncertainIsFinal`).
* An accept error ends the control thread and removes the activation file while the process keeps the
  resident lock (`activation.rs:101` of meshelf-platform); `ServingIsPublished` asks for a thread that
  runs.

## Plan

The plan is carried out: the modules above were built in the order core (`Activation`), tables and
window, one fetch, shared resources, peers and residents, abstract specifications, indicators.  A possible
extension is the search for a free name in the save directory.

## Not modelled

Cryptography, the byte encoding of frames, the search for a free name in the save directory, the
user interface beyond the shelf, the peer indicators and the clicks on cards (of paste-and-send, the
announcement is in `Offers` and the indicators are in `Indicators`), the removal of version 1 records at start, the Android
seed, the simulator and the scripts: input and output, or state no other part depends on.
