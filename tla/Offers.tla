------------------------------- MODULE Offers -------------------------------
(***************************************************************************)
(* Offers and their announcement between devices.  A device stores the     *)
(* source of an offer together with the peers that may fetch it, and then  *)
(* announces it to each of them over a connection of its own; a peer that  *)
(* trusts the sender stores a card and acknowledges.  Connections fail,    *)
(* senders time out while the receiver still works, acknowledgements get   *)
(* lost, either side restarts, nodes are reinstalled under a new identity, *)
(* and both tables keep only the newest MaxLive rows.                      *)
(*                                                                         *)
(* What is abstracted.  Descriptors, addresses and keys: an installation   *)
(* answers for itself or not at all, so a peer record is the identity of   *)
(* the installation it names, and an offer id never comes with a second    *)
(* descriptor.  An offer is announced once to each recipient, nothing is   *)
(* queued or sent again, so handle_sync never finds the card it is about   *)
(* to insert.  A redb transaction is one step; one that fails leaves the   *)
(* table as it was.                                                        *)
(***************************************************************************)
EXTENDS Naturals, FiniteSets

CONSTANTS
  Device,       \* installations (DeviceId)
  Nodes,        \* Tailscale nodes: the installations that may run on each
  Offer,        \* offer ids: fresh UUIDs, each used once
  None,         \* no origin yet
  Senders,      \* bound: the installations whose users create offers
  MaxLive,      \* V2_MAX_LIVE_ENTRIES
  MaxRestarts   \* bound: restarts and reinstallations

ASSUME OffersAssumption ==
  /\ None \notin Device
  /\ Nodes \subseteq SUBSET Device
  /\ \A d \in Device : \E n \in Nodes : d \in n
  /\ Senders \subseteq Device
  /\ MaxLive \in Nat \ {0}
  /\ MaxRestarts \in Nat

VARIABLES
  (* Durable, per device.                                                  *)
  peers,        \* peers[d]: the installations in d's peer registry
  sources,      \* sources[d][o]: creation_sequence of d's source row, or 0
  announcedTo,  \* announcedTo[o]: the recipients in o's source row
  cards,        \* cards[d][o]: received_sequence of d's card, or 0
  (* Processes and connections.                                            *)
  running,      \* the installation running on each node
  stage,        \* how far create_offer and its fan-out have come
  origin,       \* the device that creates o
  plan,         \* plan[o]: the peers create_offer loaded
  outcome,      \* outcome[o][e]: AnnouncePeerState of e
  inbox,        \* <<o, e>>: the announcement of o waits in e's handler
  acks,         \* <<o, e>>: an acknowledgement on its way to the sender
  restarts,
  (* History.                                                              *)
  persisted,    \* offers whose source row was committed
  received,     \* received[d]: offers d ever stored a card of
  refused       \* refused[o]: recipients taken out by an explicit refusal

durable == <<peers, sources, announcedTo, cards>>
sending == <<stage, origin, plan, outcome>>
wire    == <<inbox, acks>>
history == <<persisted, received, refused>>
vars    == <<durable, running, sending, wire, restarts, history>>

\* "failed": the caller was given an error; "abandoned" and "Unreported": the
\* sender's process ended before the report.  VersionMismatch is reported like
\* Unavailable.
Stage   == {"new", "planning", "stored", "announcing", "failed", "abandoned"}
Outcome == {"none", "Pending", "sending", "Stored", "Unavailable", "Unreported"}

-----------------------------------------------------------------------------
(* The two bounded tables: a row is a positive sequence number.            *)

Rows(table) == {o \in Offer : table[o] # 0}

\* rows.len().saturating_sub(V2_MAX_LIVE_ENTRIES - 1)
Target(table) ==
  IF Cardinality(Rows(table)) < MaxLive THEN 0
  ELSE Cardinality(Rows(table)) - (MaxLive - 1)

\* (Mutant of IsPurged: the sort is reversed, the newest rows go.)
NewestGo(old, table) ==
  /\ Cardinality(old) = Target(table)
  /\ \A j \in old, k \in Rows(table) \ old : table[j] >= table[k]

\* old holds the rows purge_oldest_sources and purge_oldest_cards remove: the
\* first Target(table) rows in the order of their sequence numbers.
IsPurged(old, table) ==
  /\ Cardinality(old) = Target(table)
  /\ \A j \in old, k \in Rows(table) \ old : table[j] <= table[k]

Without(table, old) == [o \in Offer |-> IF o \in old THEN 0 ELSE table[o]]

\* (Mutant of IsMaximum: the rows are not scanned.)
NumberingRestarts(maximum, table) == maximum = 0

\* maximum is what next_source_sequence and next_card_sequence compute.
IsMaximum(maximum, table) ==
  /\ \A o \in Offer : table[o] <= maximum
  /\ maximum = 0 \/ \E o \in Offer : table[o] = maximum

\* The body of insert_offer_source and insert_offer_card for a new key: purge,
\* take the next sequence number of what is left, insert.
Inserted(table, old, maximum, o) == [Without(table, old) EXCEPT ![o] = maximum + 1]

Candidates(table, old) == {0} \cup {Without(table, old)[o] : o \in Offer}

-----------------------------------------------------------------------------
Init ==
  /\ peers = [d \in Device |-> {}]
  /\ sources = [d \in Device |-> [o \in Offer |-> 0]]
  /\ announcedTo = [o \in Offer |-> {}]
  /\ cards = [d \in Device |-> [o \in Offer |-> 0]]
  /\ running \in SUBSET Device
  /\ \A n \in Nodes : Cardinality(running \cap n) = 1
  /\ stage = [o \in Offer |-> "new"]
  /\ origin = [o \in Offer |-> None]
  /\ plan = [o \in Offer |-> {}]
  /\ outcome = [o \in Offer |-> [e \in Device |-> "none"]]
  /\ inbox = {}
  /\ acks = {}
  /\ restarts = 0
  /\ persisted = {}
  /\ received = [d \in Device |-> {}]
  /\ refused = [o \in Offer |-> {}]

SameNode(d, e) == \E n \in Nodes : d \in n /\ e \in n

\* accept_discovered and accept_signed: the installation that answers on a
\* node replaces the one d knew there.  Trust is one-way: e learns of d by a
\* discovery of its own.
Pair(d, e) ==
  /\ {d, e} \subseteq running
  /\ ~SameNode(d, e)
  /\ e \notin peers[d]
  /\ peers' = [peers EXCEPT ![d] = {f \in @ : ~SameNode(e, f)} \cup {e}]
  /\ UNCHANGED <<sources, announcedTo, cards, running, sending, wire, restarts,
                 history>>

-----------------------------------------------------------------------------
(* Creating an offer.                                                      *)

\* create_offer loads the peers; without any there is no offer.
LoadPeers(d, o) ==
  /\ d \in running \cap Senders
  /\ stage[o] = "new"
  /\ peers[d] # {}
  /\ stage' = [stage EXCEPT ![o] = "planning"]
  /\ origin' = [origin EXCEPT ![o] = d]
  /\ plan' = [plan EXCEPT ![o] = peers[d]]
  /\ UNCHANGED <<durable, running, outcome, wire, restarts, history>>

\* insert_offer_source: one transaction purges, numbers and inserts.
StoreSource(o) ==
  LET d == origin[o] IN
  /\ stage[o] = "planning"
  /\ \E old \in SUBSET Rows(sources[d]) :
       /\ IsPurged(old, sources[d])
       /\ \E maximum \in Candidates(sources[d], old) :
            /\ IsMaximum(maximum, Without(sources[d], old))
            /\ sources' = [sources EXCEPT
                             ![d] = Inserted(sources[d], old, maximum, o)]
       /\ announcedTo' = [p \in Offer |->
            IF p = o THEN plan[o] ELSE IF p \in old THEN {} ELSE announcedTo[p]]
  /\ stage' = [stage EXCEPT ![o] = "stored"]
  /\ persisted' = persisted \cup {o}
  /\ UNCHANGED <<peers, cards, running, origin, plan, outcome, wire,
                 restarts, received, refused>>

\* The store refuses the row, or the payload cannot be prepared: no offer.
StoreSourceFails(o) ==
  /\ stage[o] = "planning"
  /\ stage' = [stage EXCEPT ![o] = "failed"]
  /\ UNCHANGED <<durable, running, origin, plan, outcome, wire, restarts,
                 history>>

\* (Mutant of FanOut: peers hear of the offer before it is stored.)
FanOutFirst(o) ==
  /\ stage[o] = "planning"
  /\ stage' = [stage EXCEPT ![o] = "announcing"]
  /\ outcome' = [outcome EXCEPT ![o] = [e \in Device |->
       IF e \in plan[o] THEN "Pending" ELSE "none"]]
  /\ UNCHANGED <<durable, running, origin, plan, wire, restarts, history>>

\* announce_offer_plan_with_progress loads the peers again and starts a task
\* for each planned recipient; one that is no longer a peer is unavailable.
FanOut(o) ==
  /\ stage[o] = "stored"
  /\ stage' = [stage EXCEPT ![o] = "announcing"]
  /\ outcome' = [outcome EXCEPT ![o] = [e \in Device |->
       IF e \notin plan[o] THEN "none"
       ELSE IF e \in peers[origin[o]] THEN "Pending" ELSE "Unavailable"]]
  /\ UNCHANGED <<durable, running, origin, plan, wire, restarts, history>>

\* announce_offer_plan_with_progress cannot load the state or build its
\* runtime: the caller gets an error, the row stays and nobody is told.
FanOutFails(o) ==
  /\ stage[o] = "stored"
  /\ stage' = [stage EXCEPT ![o] = "failed"]
  /\ UNCHANGED <<durable, running, origin, plan, outcome, wire, restarts, history>>

-----------------------------------------------------------------------------
(* One announcement.                                                       *)

Report(o, e, r) == outcome' = [outcome EXCEPT ![o][e] = r]

\* announce_offer_v2 and handle_v2_connection: e must be the installation that
\* answers, and its trust gate must know the sender; then the frame is sent.
Connect(o, e) ==
  /\ outcome[o][e] = "Pending"
  /\ e \in running
  /\ origin[o] \in peers[e]
  /\ Report(o, e, "sending")
  /\ inbox' = inbox \cup {<<o, e>>}
  /\ UNCHANGED <<durable, running, stage, origin, plan, acks, restarts,
                 history>>

\* (Mutant of GiveUp: a frame that was sent counts as delivered.)
AssumeDelivered(o, e) ==
  /\ outcome[o][e] \in {"Pending", "sending"}
  /\ Report(o, e, IF outcome[o][e] = "sending" THEN "Stored" ELSE "Unavailable")
  /\ acks' = acks \ {<<o, e>>}
  /\ UNCHANGED <<durable, running, stage, origin, plan, inbox, restarts,
                 history>>

\* (Mutant of GiveUp: a peer that did not answer loses its eligibility.)
GiveUpWithdraws(o, e) ==
  /\ outcome[o][e] \in {"Pending", "sending"}
  /\ Report(o, e, "Unavailable")
  /\ acks' = acks \ {<<o, e>>}
  /\ announcedTo' = [announcedTo EXCEPT ![o] = @ \ {e}]
  /\ UNCHANGED <<peers, sources, cards, running, stage, origin, plan,
                 inbox, restarts, history>>

\* (Mutant of GiveUp: only a connection that was made can time out.)
GiveUpConnected(o, e) ==
  /\ outcome[o][e] = "sending"
  /\ Report(o, e, "Unavailable")
  /\ acks' = acks \ {<<o, e>>}
  /\ UNCHANGED <<durable, running, stage, origin, plan, inbox, restarts,
                 history>>

\* No connection, a refused hello, a timeout or a broken connection; the
\* handler on the other side may still be at work.
GiveUp(o, e) ==
  /\ outcome[o][e] \in {"Pending", "sending"}
  /\ Report(o, e, "Unavailable")
  /\ acks' = acks \ {<<o, e>>}
  /\ UNCHANGED <<durable, running, stage, origin, plan, inbox, restarts,
                 history>>

\* The acknowledgement reaches a sender that still waits for it; otherwise the
\* connection is gone.
Acknowledge(o, e) ==
  acks' = IF outcome[o][e] = "sending"
          THEN acks \cup {<<o, e>>} ELSE acks

\* handle_sync under its lock, for a card that is not there: insert_offer_card
\* purges, numbers and inserts in one transaction.
ReceiveNew(o, e) ==
  /\ <<o, e>> \in inbox
  /\ cards[e][o] = 0
  /\ \E old \in SUBSET Rows(cards[e]) :
       /\ IsPurged(old, cards[e])
       /\ \E maximum \in Candidates(cards[e], old) :
            /\ IsMaximum(maximum, Without(cards[e], old))
            /\ cards' = [cards EXCEPT
                           ![e] = Inserted(cards[e], old, maximum, o)]
  /\ received' = [received EXCEPT ![e] = @ \cup {o}]
  /\ inbox' = inbox \ {<<o, e>>}
  /\ Acknowledge(o, e)
  /\ UNCHANGED <<peers, sources, announcedTo, running, sending, restarts,
                 persisted, refused>>

\* The card store fails: the handler ends without an answer.
ReceiveFails(o, e) ==
  /\ <<o, e>> \in inbox
  /\ inbox' = inbox \ {<<o, e>>}
  /\ UNCHANGED <<durable, running, sending, acks, restarts, history>>

\* (Mutant of ReadAck: the code of the acknowledgement is reported as it is.)
ReportAckCode(o, e) ==
  /\ <<o, e>> \in acks
  /\ \E code \in {"Stored", "Duplicate"} : Report(o, e, code)
  /\ acks' = acks \ {<<o, e>>}
  /\ UNCHANGED <<durable, running, stage, origin, plan, inbox, restarts,
                 history>>

\* classify_announce_result: Stored and Duplicate both mean stored.
ReadAck(o, e) ==
  /\ <<o, e>> \in acks
  /\ Report(o, e, "Stored")
  /\ acks' = acks \ {<<o, e>>}
  /\ UNCHANGED <<durable, running, stage, origin, plan, inbox, restarts,
                 history>>

-----------------------------------------------------------------------------
(* Refusals and restarts.                                                  *)

\* remove_explicit_refusal: the row goes with its last recipient.
RecordExplicitRefusal(o, e) ==
  LET d == origin[o]
      rest == announcedTo[o] \ {e} IN
  /\ e \in announcedTo[o]
  /\ d \in running
  /\ announcedTo' = [announcedTo EXCEPT ![o] = rest]
  /\ sources' = IF rest = {} THEN [sources EXCEPT ![d][o] = 0] ELSE sources
  /\ refused' = [refused EXCEPT ![o] = @ \cup {e}]
  /\ UNCHANGED <<peers, cards, running, sending, wire, restarts, persisted,
                 received>>

\* handle_fetch: an authenticated e may fetch o when the source row is there
\* and names it.
FetchAuthorised(o, e) ==
  /\ origin[o] # None
  /\ sources[origin[o]][o] # 0
  /\ e \in announcedTo[o]

\* The process of d ends: its announcements and its handlers end with it.
Stop(d) ==
  /\ restarts < MaxRestarts
  /\ restarts' = restarts + 1
  /\ stage' = [o \in Offer |->
       IF origin[o] = d /\ stage[o] \in {"planning", "stored"}
       THEN "abandoned" ELSE stage[o]]
  /\ outcome' = [o \in Offer |-> [e \in Device |->
       IF origin[o] = d /\ outcome[o][e] \in {"Pending", "sending"}
       THEN "Unreported" ELSE outcome[o][e]]]
  /\ inbox' = {m \in inbox : m[2] # d}
  /\ acks' = {m \in acks : origin[m[1]] # d}
  /\ UNCHANGED <<durable, origin, plan, history>>

Restart(d) ==
  /\ d \in running
  /\ Stop(d)
  /\ UNCHANGED running

\* Another installation takes over the node.
Reinstall(d, e) ==
  /\ d \in running
  /\ e # d
  /\ SameNode(d, e)
  /\ Stop(d)
  /\ running' = (running \ {d}) \cup {e}

-----------------------------------------------------------------------------
CreateStep(o) ==
  \/ \E d \in Device : LoadPeers(d, o)
  \/ StoreSource(o)
  \/ StoreSourceFails(o)
  \/ FanOut(o)
  \/ FanOutFails(o)

AnnounceStep(o, e) ==
  \/ Connect(o, e)
  \/ GiveUp(o, e)
  \/ ReadAck(o, e)
  \/ RecordExplicitRefusal(o, e)
  \/ ReceiveNew(o, e)
  \/ ReceiveFails(o, e)

DeviceStep(d) ==
  \/ Restart(d)
  \/ \E e \in Device : Pair(d, e) \/ Reinstall(d, e)

Next ==
  \/ \E o \in Offer : CreateStep(o)
  \/ \E o \in Offer, e \in Device : AnnounceStep(o, e)
  \/ \E d \in Device : DeviceStep(d)

Spec == Init /\ [][Next]_vars

\* Every wait of a sender is bounded by connect_timeout or io_timeout, and its
\* thread goes on until the report is complete.
FairSpec ==
  /\ Spec
  /\ \A o \in Offer :
       /\ WF_vars(StoreSource(o) \/ StoreSourceFails(o))
       /\ WF_vars(FanOut(o) \/ FanOutFails(o))
       /\ \A e \in Device : WF_vars(GiveUp(o, e))

-----------------------------------------------------------------------------
(* Properties.                                                             *)

\* Every variable keeps its type; sequence numbers are numbers and messages
\* name an announcement that was made.
TypeOK ==
  /\ peers \in [Device -> SUBSET Device]
  /\ sources \in [Device -> [Offer -> Nat]]
  /\ announcedTo \in [Offer -> SUBSET Device]
  /\ cards \in [Device -> [Offer -> Nat]]
  /\ running \in SUBSET Device
  /\ stage \in [Offer -> Stage]
  /\ origin \in [Offer -> Device \cup {None}]
  /\ plan \in [Offer -> SUBSET Device]
  /\ outcome \in [Offer -> [Device -> Outcome]]
  /\ inbox \subseteq Offer \X Device
  /\ acks \subseteq Offer \X Device
  /\ restarts \in 0..MaxRestarts
  /\ persisted \subseteq Offer
  /\ received \in [Device -> SUBSET Offer]
  /\ refused \in [Offer -> SUBSET Device]

\* "Persist the source and complete current peer eligibility before making any
\* announcement plan visible": whatever crashes, a card, an announcement under
\* way or an acknowledgement belongs to an offer whose row was committed.
SourceBeforeCard ==
  /\ \A e \in Device : Rows(cards[e]) \subseteq persisted
  /\ \A m \in inbox : m[1] \in persisted
  /\ \A m \in acks : m[1] \in persisted

\* The fetch handler serves exactly the recipients that were not refused, for
\* as long as the row lives: no timeout, lost acknowledgement, restart, purge
\* of another row or reuse of a sequence number changes who may fetch, a
\* device with a card included; and a row that nobody may fetch is gone.
EligibleUntilRefused ==
  \A o \in Offer :
    /\ origin[o] # None /\ sources[origin[o]][o] # 0 =>
         /\ announcedTo[o] # {}
         /\ \A e \in Device :
              e \in plan[o] \ refused[o] <=> FetchAuthorised(o, e)
         /\ \A e \in Device :
              cards[e][o] # 0 /\ e \notin refused[o] => FetchAuthorised(o, e)
    /\ \A d \in Device : sources[d][o] # 0 => origin[o] = d

\* The sender says Stored of a peer only if that peer did store a card, however
\* timeouts, late handlers, lost acknowledgements and restarts interleave.
StoredMeansReceived ==
  \A o \in Offer, e \in Device : outcome[o][e] = "Stored" => o \in received[e]

\* "The shelf retains ten live entries per device": neither table outgrows its
\* bound, and no two rows of a table share a sequence number, although the
\* numbers of withdrawn rows are given out again.
TablesBounded ==
  \A d \in Device : \A table \in {sources[d], cards[d]} :
    /\ Cardinality(Rows(table)) <= MaxLive
    /\ \A j, k \in Rows(table) : table[j] = table[k] => j = k

\* Each shelf and each source table implements RecentRows: "the eleventh
\* purges the oldest", in the order of arrival, and nothing else does.
Earlier(table) == {p \in Rows(table) \X Rows(table) : table[p[1]] < table[p[2]]}

CardLive     == [d \in Device |-> Rows(cards[d])]
CardBefore   == [d \in Device |-> Earlier(cards[d])]
SourceLive   == [d \in Device |-> Rows(sources[d])]
SourceBefore == [d \in Device |-> Earlier(sources[d])]

Shelf == INSTANCE RecentRows WITH
  Table <- Device, Key <- Offer, Size <- Cardinality,
  live <- CardLive, before <- CardBefore

Origin == INSTANCE RecentRows WITH
  Table <- Device, Key <- Offer, Size <- Cardinality,
  live <- SourceLive, before <- SourceBefore

\* A card leaves a shelf only when newer cards need its place.
ShelfKeepsNewest == Shelf!ShelfSpec

\* A source leaves its table only when newer sources need its place or its
\* last recipient is refused.
SourcesKeepNewest == Origin!SourceSpec

\* The sender's report ends: every recipient of a stored offer is reported
\* stored or unavailable, or the caller is given an error and nobody was told
\* ("Err is total failure"), unless the sender's process ends first.
EveryPeerReported ==
  \A o \in Offer, e \in Device :
    stage[o] = "stored" /\ e \in plan[o] ~>
      \/ outcome[o][e] \in {"Stored", "Unavailable", "Unreported"}
      \/ stage[o] = "failed" /\ \A f \in Device : o \notin received[f]
      \/ stage[o] = "abandoned"
=============================================================================
