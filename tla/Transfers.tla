----------------------------- MODULE Transfers -----------------------------
(***************************************************************************)
(* The limits that concurrent transfers share: the origin's accept loop    *)
(* with its handler and stream permits, and the requester's reservation    *)
(* ledger over one file system.  Each connection runs a client             *)
(* (PeerClient) against a handler task (handle_v2_connection); the frames  *)
(* of an admitted fetch are FetchSession's and are one step here.  Frames  *)
(* that end the exchange, whatever they say, are one frame, "end".         *)
(*                                                                         *)
(* FetchElsewhere is a fetch from some other origin: only its requester's  *)
(* half is here, because it shares the ledger.                             *)
(***************************************************************************)
EXTENDS Integers, Sequences, FiniteSets

CONSTANTS
  Conn,          \* connections
  MaxHandlers,   \* V2_MAX_INBOUND_HANDLERS
  MaxStreams,    \* payload streams of the origin
  Space,         \* free space of the requester's file system at the start
  Headroom,      \* space a reservation leaves free
  Payload,       \* payload sizes of fetches
  MaxFaults,     \* bound: lost connections and failed accepts
  MaxStarts      \* bound: times the listener is started

ASSUME TransfersAssumption ==
  /\ IsFiniteSet(Conn)
  /\ MaxHandlers \in Nat \ {0} /\ MaxStreams \in Nat \ {0}
  /\ Space \in Nat /\ Headroom \in Nat \ {0} /\ Headroom <= Space
  /\ Payload \subseteq Nat \ {0}
  /\ MaxFaults \in Nat /\ MaxStarts \in Nat \ {0}

VARIABLES
  loop,      \* "accept", "refusing" an excess connection, or "stopped"
  starts,    \* listeners started so far
  backlog,   \* connections the kernel holds for accept
  handlers, streams,     \* permits left
  handler,   \* the step of each connection's task
  client,    \* the step of each client
  toServer, toClient,    \* the frame in flight each way, or "reset"
  faults,
  size,      \* the payload each requester is about to write
  free,      \* free space
  ledger,    \* bytes reserved
  seen,      \* the capacity each requester read before it took the ledger's lock
  (* History: a permit was dropped between a reading of the capacity and the *)
  (* reservation made on it                                                *)
  raced

listener == <<loop, starts, backlog>>
tasks    == <<handlers, streams, handler>>
wire     == <<toServer, toClient, faults>>
disk     == <<size, free, ledger, seen, raced>>
vars     == <<listener, tasks, wire, client, disk>>

Init ==
  /\ loop = "accept" /\ starts = 1 /\ backlog = <<>>
  /\ handlers = MaxHandlers /\ streams = MaxStreams
  /\ handler = [c \in Conn |-> "none"]
  /\ client = [c \in Conn |-> "idle"]
  /\ toServer = [c \in Conn |-> "none"] /\ toClient = [c \in Conn |-> "none"]
  /\ faults = 0
  /\ size = [c \in Conn |-> 0] /\ seen = [c \in Conn |-> 0]
  /\ free = Space /\ ledger = 0 /\ raced = FALSE

-----------------------------------------------------------------------------
(* The clients: probe, announce_offer_v2, fetch_v2_with_cancel.            *)

Goto(c, step) == client' = [client EXCEPT ![c] = step]

\* The client returns, and what is in flight to it is lost.
Return(c) ==
  /\ Goto(c, "done")
  /\ toClient' = [toClient EXCEPT ![c] = "none"]

\* connect and the client hello.  The kernel completes the connection while
\* the loop is busy; nothing listens once it has stopped.  A probe is an
\* exchange the server hello ends.
Connect(c) ==
  /\ client[c] = "idle" /\ loop # "stopped"
  /\ Goto(c, "hello")
  /\ backlog' = Append(backlog, c)
  /\ toServer' = [toServer EXCEPT ![c] = "hello"]
  /\ UNCHANGED <<loop, starts, tasks, toClient, faults, disk>>

\* The connect fails or times out, or a cancel comes first.
ConnectFails(c) ==
  /\ client[c] = "idle" /\ Return(c)
  /\ UNCHANGED <<listener, tasks, toServer, faults, disk>>

FetchElsewhere(c) ==
  /\ client[c] = "idle" /\ Goto(c, "space")
  /\ \E n \in Payload : size' = [size EXCEPT ![c] = n]
  /\ UNCHANGED <<listener, tasks, wire, free, ledger, seen, raced>>

\* read_server_hello, require_v2_server_hello, and the operation, if the
\* hello accepts.
ReadServerHello(c) ==
  /\ client[c] = "hello" /\ toClient[c] \in {"accepted", "end"}
  /\ IF toClient[c] = "accepted"
     THEN /\ Goto(c, "answer")
          /\ toClient' = [toClient EXCEPT ![c] = "none"]
          /\ \E op \in {"announce", "fetch"} :
               toServer' = [toServer EXCEPT ![c] = op]
     ELSE Return(c) /\ UNCHANGED toServer
  /\ UNCHANGED <<listener, tasks, faults, disk>>

\* The acknowledgement or the refusal, or the header of a fetch.
ReadAnswer(c) ==
  /\ client[c] = "answer" /\ toClient[c] \in {"header", "end"}
  /\ IF toClient[c] = "header"
     THEN /\ Goto(c, "space")
          /\ toClient' = [toClient EXCEPT ![c] = "none"]
          /\ \E n \in Payload : size' = [size EXCEPT ![c] = n]
     ELSE Return(c) /\ UNCHANGED size
  /\ UNCHANGED <<listener, tasks, toServer, faults, free, ledger, seen, raced>>

\* io_timeout, a reset, or a cancel while the client waits.
ClientGivesUp(c) ==
  /\ client[c] \in {"hello", "answer"} /\ Return(c)
  /\ UNCHANGED <<listener, tasks, toServer, faults, disk>>

-----------------------------------------------------------------------------
(* The accept loop: serve_inner.                                           *)

\* What is written to a client that has gone, or after a reset, is lost.
Delivered(c, frame) ==
  IF client[c] \notin {"hello", "answer"} \/ toClient[c] = "reset"
  THEN toClient[c] ELSE frame

Accept ==
  /\ loop = "accept" /\ backlog # <<>>
  /\ IF handlers > 0
     THEN /\ handlers' = handlers - 1 /\ backlog' = Tail(backlog)
          /\ handler' = [handler EXCEPT ![Head(backlog)] = "hello"]
          /\ UNCHANGED loop
     ELSE loop' = "refusing" /\ UNCHANGED <<handlers, backlog, handler>>
  /\ UNCHANGED <<starts, streams, wire, client, disk>>

\* refuse_excess_connection: the loop itself writes the refusal.  The client
\* hello stays unread, so closing may reset the connection under it.
RefuseExcess ==
  LET c == Head(backlog) IN
  /\ loop = "refusing" /\ toServer[c] # "reset"
  /\ loop' = "accept" /\ backlog' = Tail(backlog)
  /\ \E reply \in {"end", "reset"} :
       toClient' = [toClient EXCEPT ![c] = Delivered(c, reply)]
  /\ toServer' = [toServer EXCEPT ![c] = "none"]
  /\ UNCHANGED <<starts, tasks, faults, client, disk>>

\* Returning drops the listener and its runtime: every handler is dropped
\* where it waits, and its connection with it.
Stop ==
  LET cut == {c \in Conn : handler[c] \notin {"none", "done"}
                           \/ \E i \in DOMAIN backlog : backlog[i] = c}
  IN /\ loop' = "stopped" /\ backlog' = <<>>
     /\ toClient' = [c \in Conn |-> IF c \in cut THEN Delivered(c, "reset")
                                                 ELSE toClient[c]]
     /\ toServer' = [c \in Conn |-> IF c \in cut THEN "none" ELSE toServer[c]]
     /\ handler' = [c \in Conn |-> IF c \in cut THEN "done" ELSE handler[c]]
     /\ handlers' = MaxHandlers /\ streams' = MaxStreams

\* The refusal cannot be written, and `?` ends the loop.
RefusalFails ==
  /\ loop = "refusing" /\ toServer[Head(backlog)] = "reset" /\ Stop
  /\ UNCHANGED <<starts, faults, client, disk>>

AcceptFails ==
  /\ loop = "accept" /\ faults < MaxFaults /\ faults' = faults + 1 /\ Stop
  /\ UNCHANGED <<starts, client, disk>>

\* ServerHandle::drop, before a new address is bound: the shutdown is seen
\* between two accepts.
Shutdown ==
  /\ loop = "accept" /\ starts < MaxStarts /\ Stop
  /\ UNCHANGED <<starts, faults, client, disk>>

\* start_v2_listener, when a refresh finds the listener finished: new pools.
Restart ==
  /\ loop = "stopped" /\ starts < MaxStarts
  /\ loop' = "accept" /\ starts' = starts + 1
  /\ handlers' = MaxHandlers /\ streams' = MaxStreams
  /\ UNCHANGED <<backlog, handler, wire, client, disk>>

-----------------------------------------------------------------------------
(* The handlers: handle_v2_connection.                                     *)

\* The task returns: its permit and its socket are dropped.
Leave(c) ==
  /\ handlers' = handlers + 1
  /\ handler' = [handler EXCEPT ![c] = "done"]
  /\ toServer' = [toServer EXCEPT ![c] = "none"]

Reply(c, frame) == toClient' = [toClient EXCEPT ![c] = Delivered(c, frame)]

\* The client hello and the trust decision: a peer of protocol 1, an unsigned
\* hello (a probe's), or one the gate does not know gets a hello that refuses.
ReadClientHello(c) ==
  /\ handler[c] = "hello" /\ toServer[c] = "hello"
  /\ \/ /\ Reply(c, "accepted")
        /\ handler' = [handler EXCEPT ![c] = "operation"]
        /\ toServer' = [toServer EXCEPT ![c] = "none"] /\ UNCHANGED handlers
     \/ Reply(c, "end") /\ Leave(c)
  /\ UNCHANGED <<listener, streams, faults, client, disk>>

\* handle_announcement and its acknowledgement, or an error of the store.
Announcement(c) ==
  /\ handler[c] = "operation" /\ toServer[c] = "announce"
  /\ \E frame \in {"end", "reset"} : Reply(c, frame)
  /\ Leave(c)
  /\ UNCHANGED <<listener, streams, faults, client, disk>>

\* handle_fetch: the request is refused before the stream permit, or for
\* lack of one, or the plan is built under it.
FetchRequest(c) ==
  /\ handler[c] = "operation" /\ toServer[c] = "fetch"
  /\ \/ Reply(c, "end") /\ Leave(c) /\ UNCHANGED streams
     \/ /\ streams > 0 /\ streams' = streams - 1
        /\ handler' = [handler EXCEPT ![c] = "plan"]
        /\ toServer' = [toServer EXCEPT ![c] = "none"]
        /\ UNCHANGED <<toClient, handlers>>
  /\ UNCHANGED <<listener, faults, client, disk>>

\* (Mutant of Plan: a refused plan keeps its stream permit.)
PlanKeepsPermit(c) ==
  /\ handler[c] = "plan"
  /\ \/ Reply(c, "end") /\ Leave(c) /\ UNCHANGED streams
     \/ /\ Reply(c, "header") /\ handler' = [handler EXCEPT ![c] = "stream"]
        /\ UNCHANGED <<handlers, streams, toServer>>
  /\ UNCHANGED <<listener, faults, client, disk>>

\* build_source_plan: the permit is dropped before its refusal is written.
Plan(c) ==
  /\ handler[c] = "plan"
  /\ \/ Reply(c, "end") /\ Leave(c) /\ streams' = streams + 1
     \/ /\ Reply(c, "header") /\ handler' = [handler EXCEPT ![c] = "stream"]
        /\ UNCHANGED <<handlers, streams, toServer>>
  /\ UNCHANGED <<listener, faults, client, disk>>

\* send_plan ends with the session, whichever end or timeout ends it.
StreamEnds(c) ==
  /\ handler[c] = "stream" /\ streams' = streams + 1 /\ Leave(c)
  /\ UNCHANGED <<listener, toClient, faults, client, disk>>

\* (Mutant of HandlerGivesUp: the first frame is awaited without a timeout.)
HandlerWaits(c) ==
  /\ handler[c] = "operation" /\ Leave(c) /\ Reply(c, "reset")
  /\ UNCHANGED <<listener, streams, faults, client, disk>>

\* io_timeout, a reset or an end of file while the task waits for a frame.
HandlerGivesUp(c) ==
  /\ handler[c] \in {"hello", "operation"} /\ Leave(c) /\ Reply(c, "reset")
  /\ UNCHANGED <<listener, streams, faults, client, disk>>

-----------------------------------------------------------------------------
(* The requester's disk: ReservationLedger, staging, publication.          *)

\* reserve reads the capacity before it takes the lock.
Snapshot(c) ==
  /\ client[c] = "space" /\ Goto(c, "lock")
  /\ seen' = [seen EXCEPT ![c] = free]
  /\ UNCHANGED <<listener, tasks, wire, size, free, ledger, raced>>

Required(c) == size[c] + Headroom

\* (Mutant of Reserve: the check forgets what is already reserved.)
ReserveAlone(c) ==
  /\ client[c] = "lock"
  /\ IF seen[c] >= Required(c)
     THEN ledger' = ledger + Required(c) /\ Goto(c, "allocate")
     ELSE Goto(c, "done") /\ UNCHANGED ledger
  /\ seen' = [seen EXCEPT ![c] = 0]
  /\ UNCHANGED <<listener, tasks, wire, size, free, raced>>

\* reserve_with_capacity: one critical section; insufficient space refuses
\* the admission.
Reserve(c) ==
  /\ client[c] = "lock"
  /\ IF seen[c] - ledger >= Required(c)
     THEN ledger' = ledger + Required(c) /\ Goto(c, "allocate")
     ELSE Goto(c, "done") /\ UNCHANGED ledger
  /\ seen' = [seen EXCEPT ![c] = 0]
  /\ UNCHANGED <<listener, tasks, wire, size, free, raced>>

\* prepare_staging preallocates every byte, or removes what it has made.
Allocate(c) ==
  /\ client[c] = "allocate"
  /\ \/ free >= size[c] /\ free' = free - size[c] /\ Goto(c, "receive")
     \/ Goto(c, "drop") /\ UNCHANGED free
  /\ UNCHANGED <<listener, tasks, wire, size, ledger, seen, raced>>

\* The payload is verified and published, or the staging area is removed.
EndTransfer(c) ==
  /\ client[c] = "receive" /\ Goto(c, "drop")
  /\ free' \in {free, free + size[c]}
  /\ UNCHANGED <<listener, tasks, wire, size, ledger, seen, raced>>

\* ReservationPermit::drop, saturating.
DropPermit(c) ==
  /\ client[c] = "drop" /\ Goto(c, "done")
  /\ ledger' = IF ledger >= Required(c) THEN ledger - Required(c) ELSE 0
  /\ size' = [size EXCEPT ![c] = 0]
  /\ raced' = (raced \/ \E d \in Conn : client[d] = "lock")
  /\ UNCHANGED <<listener, tasks, wire, free, seen>>

-----------------------------------------------------------------------------
Lose(c) ==
  /\ faults < MaxFaults /\ faults' = faults + 1
  /\ client[c] \in {"hello", "answer"}
  /\ toClient' = [toClient EXCEPT ![c] = "reset"]
  /\ toServer' = [toServer EXCEPT ![c] = IF handler[c] = "done" THEN @ ELSE "reset"]
  /\ UNCHANGED <<listener, tasks, client, disk>>

LoopStep == Accept \/ RefuseExcess \/ RefusalFails
ClientStep(c) ==
  \/ ReadServerHello(c) \/ ReadAnswer(c) \/ ClientGivesUp(c)
  \/ Snapshot(c) \/ Reserve(c) \/ Allocate(c) \/ EndTransfer(c) \/ DropPermit(c)
HandlerStep(c) ==
  \/ ReadClientHello(c) \/ Announcement(c) \/ FetchRequest(c) \/ Plan(c)
  \/ StreamEnds(c) \/ HandlerGivesUp(c)

Next ==
  \/ LoopStep \/ AcceptFails \/ Shutdown \/ Restart
  \/ \E c \in Conn :
       \/ Connect(c) \/ ConnectFails(c) \/ FetchElsewhere(c)
       \/ ClientStep(c) \/ HandlerStep(c) \/ Lose(c)

Spec == Init /\ [][Next]_vars

\* Tasks and threads run, and every wait of theirs has a timeout.  Nobody has
\* to connect, shut down or restart.
FairSpec ==
  /\ Spec /\ WF_vars(LoopStep)
  /\ \A c \in Conn : WF_vars(ClientStep(c)) /\ WF_vars(HandlerStep(c))

-----------------------------------------------------------------------------
(* Properties.                                                             *)

Handling  == {c \in Conn : handler[c] \notin {"none", "done"}}
Streaming == {c \in Conn : handler[c] \in {"plan", "stream"}}
Holding   == {c \in Conn : client[c] \in {"allocate", "receive", "drop"}}

\* n[c] bytes for each connection of C.
Bytes(n, C) == UNION {{c} \X (1..n[c]) : c \in C}

\* The types of the variables, and the books are exact: permits left and
\* permits held make up the pools, whatever ended each handler, and the
\* ledger counts the bytes of the reservations that are live.
TypeOK ==
  /\ loop \in {"accept", "refusing", "stopped"} /\ starts \in 0..MaxStarts
  /\ loop = "refusing" => backlog # <<>>
  /\ handlers + Cardinality(Handling) = MaxHandlers
  /\ streams + Cardinality(Streaming) = MaxStreams
  /\ ledger = Cardinality(Bytes([c \in Conn |-> Required(c)], Holding))
  /\ free \in Nat /\ faults \in 0..MaxFaults /\ raced \in BOOLEAN

\* Concurrent downloads leave the headroom free, unless a requester read the
\* capacity before another gave its permit back and reserved after: the
\* check and the reading are not one critical section.
HeadroomKept == ~raced => free >= Headroom

\* Nothing that shares the pools can keep its share: handlers, streams and
\* reserved bytes all come back, and no connection is left waiting.
Drains ==
  <>[](/\ handlers = MaxHandlers /\ streams = MaxStreams /\ ledger = 0
       /\ backlog = <<>>
       /\ \A c \in Conn : client[c] \in {"idle", "done"})
=============================================================================
