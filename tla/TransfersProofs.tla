--------------------------- MODULE TransfersProofs ---------------------------
(***************************************************************************)
(* Proofs about Transfers, for any number of connections, pools of any     *)
(* size, any payload sizes and headroom and any number of faults.          *)
(*                                                                         *)
(* A sum over connections is a number of bytes: the cardinality of a set   *)
(* with n[c] elements for each connection c.  That makes the ledger's      *)
(* bookkeeping a matter of finite sets.                                    *)
(***************************************************************************)
EXTENDS Transfers, FiniteSetTheorems, FunctionTheorems, TLAPS

Reserved == [c \in Conn |-> Required(c)]

\* Requesters that have reserved and not allocated, and those whose payload
\* may take up space.
Planned  == {c \in Conn : client[c] = "allocate"}
Occupied == {c \in Conn : client[c] \in {"receive", "drop"}}

Total(n, C) == Cardinality(Bytes(n, C))

TypeInv ==
  /\ loop \in {"accept", "refusing", "stopped"} /\ starts \in 0..MaxStarts
  /\ backlog \in Seq(Conn)
  /\ handlers \in Nat /\ streams \in Nat
  /\ handler \in [Conn -> {"none", "hello", "operation", "plan", "stream", "done"}]
  /\ client \in [Conn -> {"idle", "hello", "answer", "space", "lock", "allocate", "receive",
                          "drop", "done"}]
  /\ faults \in 0..MaxFaults
  /\ size \in [Conn -> Nat] /\ seen \in [Conn -> Nat]
  /\ free \in Nat /\ ledger \in Nat /\ raced \in BOOLEAN

\* A connection waits in the backlog once, and before it has a handler; a loop
\* that refuses has one to refuse, and one that has stopped has none.
QueueInv ==
  /\ \A i \in 1..Len(backlog) : handler[backlog[i]] = "none" /\ client[backlog[i]] # "idle"
  /\ \A i, j \in 1..Len(backlog) : backlog[i] = backlog[j] => i = j
  /\ \A c \in Conn : client[c] = "idle" => handler[c] = "none"
  /\ loop = "refusing" => backlog # <<>>
  /\ loop = "stopped" => backlog = <<>> /\ Handling = {}

\* The pools.
PoolInv ==
  /\ handlers + Cardinality(Handling) = MaxHandlers
  /\ streams + Cardinality(Streaming) = MaxStreams

\* The ledger.
LedgerInv == ledger = Total(Reserved, Holding)

\* What is planned fits above the headroom, and what a requester has read of
\* the capacity is no more than there is and what may since have been taken
\* under a permit it will still see in the ledger.
SpaceInv ==
  ~raced =>
    /\ free >= Headroom + Total(size, Planned)
    /\ \A c \in Conn : client[c] = "lock" => seen[c] <= free + Total(size, Occupied)

IInv == TypeInv /\ QueueInv /\ PoolInv /\ LedgerInv /\ SpaceInv

-----------------------------------------------------------------------------
(* Sums of bytes.                                                          *)

\* The bytes of finitely many connections are finitely many.
LEMMA BytesFinite ==
  ASSUME NEW n \in [Conn -> Nat], NEW C \in SUBSET Conn
  PROVE  IsFiniteSet(Bytes(n, C)) /\ Total(n, C) \in Nat
<1> DEFINE Part == [c \in C |-> {c} \X (1..n[c])]
           Parts == {{c} \X (1..n[c]) : c \in C}
<1>1. IsFiniteSet(C)
  BY TransfersAssumption, FS_Subset
<1>2. Part \in Surjection(C, Parts)
  <2>1. Part \in [C -> Parts] /\ \A t \in Parts : \E c \in C : Part[c] = t
    OBVIOUS
  <2>2. QED
    BY <2>1 DEF Surjection
<1>3. IsFiniteSet(Parts)
  BY <1>1, <1>2, FS_Surjection
<1>4. \A T \in Parts : IsFiniteSet(T)
  <2>1. ASSUME NEW c \in C PROVE IsFiniteSet({c} \X (1..n[c]))
    <3>1. IsFiniteSet({c}) /\ IsFiniteSet(1..n[c])
      <4>1. 1 \in Int /\ n[c] \in Int
        OBVIOUS
      <4>2. QED
        BY <4>1, FS_Singleton, FS_Interval
    <3>2. QED
      BY <3>1, FS_Product
  <2>2. QED
    BY <2>1
<1>5. IsFiniteSet(UNION Parts)
  BY <1>3, <1>4, FS_UNION
<1>6. QED
  BY <1>5, FS_CardinalityType DEF Bytes, Total

\* One more connection adds its bytes.
LEMMA TotalAdd ==
  ASSUME NEW n \in [Conn -> Nat], NEW C \in SUBSET Conn, NEW c \in Conn, c \notin C
  PROVE  Total(n, C \cup {c}) = Total(n, C) + n[c]
<1> DEFINE Mine == {c} \X (1..n[c])
<1>1. Bytes(n, C \cup {c}) = Bytes(n, C) \cup Mine
  BY DEF Bytes
<1>2. Bytes(n, C) \cap Mine = {}
  BY DEF Bytes
<1>3. IsFiniteSet(Mine) /\ Cardinality(Mine) = n[c]
  <2>1. 1 \in Int /\ n[c] \in Int /\ n[c] \in Nat
    OBVIOUS
  <2>2. IsFiniteSet(1..n[c]) /\ Cardinality(1..n[c]) = n[c]
    BY <2>1, FS_Interval
  <2>3. IsFiniteSet({c}) /\ Cardinality({c}) = 1
    BY FS_Singleton
  <2>4. IsFiniteSet(Mine) /\ Cardinality(Mine) = 1 * n[c]
    BY <2>2, <2>3, FS_Product
  <2>5. QED
    BY <2>1, <2>4
<1>4. IsFiniteSet(Bytes(n, C)) /\ Cardinality(Bytes(n, C)) \in Nat
  BY BytesFinite DEF Total
<1> HIDE DEF Mine
<1>5. Cardinality(Bytes(n, C) \cup Mine) = Cardinality(Bytes(n, C)) + Cardinality(Mine) - Cardinality({})
  <2>1. ASSUME NEW S, NEW T, IsFiniteSet(S), IsFiniteSet(T), S \cap T = {}
        PROVE  Cardinality(S \cup T) = Cardinality(S) + Cardinality(T) - Cardinality({})
    BY <2>1, FS_Union
  <2>2. QED
    BY <1>2, <1>3, <1>4, <2>1
<1>6. n[c] \in Nat /\ Cardinality({}) = 0
  BY FS_EmptySet
<1>7. Cardinality(Bytes(n, C \cup {c})) = Cardinality(Bytes(n, C)) + n[c]
  <2>1. Cardinality(Bytes(n, C \cup {c})) = Cardinality(Bytes(n, C) \cup Mine)
    BY <1>1, Zenon
  <2>2. QED
    BY <1>3, <1>4, <1>5, <1>6, <2>1
<1>8. QED
  BY <1>7 DEF Total

\* One less takes them away.
LEMMA TotalRemove ==
  ASSUME NEW n \in [Conn -> Nat], NEW C \in SUBSET Conn, NEW c \in C
  PROVE  Total(n, C \ {c}) = Total(n, C) - n[c] /\ n[c] <= Total(n, C)
<1>1. C \ {c} \in SUBSET Conn /\ c \in Conn /\ c \notin C \ {c} /\ C = (C \ {c}) \cup {c}
  OBVIOUS
<1>2. Total(n, C) = Total(n, C \ {c}) + n[c]
  BY <1>1, TotalAdd
<1>3. Total(n, C) \in Nat /\ Total(n, C \ {c}) \in Nat /\ n[c] \in Nat
  BY <1>1, BytesFinite
<1>4. QED
  BY <1>2, <1>3

\* Only the connections that count do.
LEMMA TotalSame ==
  ASSUME NEW n, NEW m, NEW C, \A c \in C : n[c] = m[c]
  PROVE  Total(n, C) = Total(m, C)
  BY DEF Total, Bytes

\* Two disjoint sets of connections, at most so many bytes each.
LEMMA TotalParts ==
  ASSUME NEW n \in [Conn -> Nat], NEW m \in [Conn -> Nat], \A c \in Conn : n[c] <= m[c],
         NEW C \in SUBSET Conn, NEW D \in SUBSET Conn, C \cap D = {}
  PROVE  Total(n, C) + Total(n, D) <= Total(m, C \cup D)
<1>1. IsFiniteSet(Bytes(n, C)) /\ IsFiniteSet(Bytes(n, D)) /\ IsFiniteSet(Bytes(m, C \cup D))
  BY BytesFinite
<1>2. Bytes(n, C) \cap Bytes(n, D) = {}
  BY DEF Bytes
<1>3. Bytes(n, C) \cup Bytes(n, D) \subseteq Bytes(m, C \cup D)
  BY DEF Bytes
<1>4. Cardinality(Bytes(n, C) \cup Bytes(n, D))
        = Cardinality(Bytes(n, C)) + Cardinality(Bytes(n, D)) - Cardinality({})
  BY <1>1, <1>2, FS_Union
<1>5. Cardinality(Bytes(n, C) \cup Bytes(n, D)) <= Cardinality(Bytes(m, C \cup D))
  BY <1>1, <1>3, FS_Subset
<1>6. Cardinality(Bytes(n, C)) \in Nat /\ Cardinality(Bytes(n, D)) \in Nat
  BY <1>1, FS_CardinalityType
<1>7. QED
  BY <1>4, <1>5, <1>6, FS_EmptySet DEF Total

-----------------------------------------------------------------------------
(* Types and the queue.                                                    *)

USE DEF listener, tasks, wire, disk, Goto

\* What the loop and the handlers do leaves the requesters' disk alone.
LEMMA ServerSide ==
  \/ LoopStep \/ AcceptFails \/ Shutdown \/ Restart
  \/ \E c \in Conn : HandlerStep(c) \/ Lose(c)
  => UNCHANGED <<client, disk>>
  BY DEF LoopStep, Accept, RefuseExcess, RefusalFails, AcceptFails, Shutdown, Restart, HandlerStep,
     ReadClientHello, Announcement, FetchRequest, Plan, StreamEnds, HandlerGivesUp, Lose

\* What a handler does to the pools: it goes on, takes a stream, or leaves and
\* gives back what it holds.
LEMMA HandlerShape ==
  ASSUME NEW c \in Conn, HandlerStep(c)
  PROVE  \/ /\ handler[c] \in {"hello", "plan"} /\ UNCHANGED <<handlers, streams>>
            /\ handler' = [handler EXCEPT ![c] = IF handler[c] = "hello" THEN "operation" ELSE "stream"]
         \/ /\ handler[c] = "operation" /\ handlers' = handlers
            /\ streams > 0 /\ streams' = streams - 1
            /\ handler' = [handler EXCEPT ![c] = "plan"]
         \/ /\ handler[c] \in {"hello", "operation"} /\ streams' = streams
            /\ handlers' = handlers + 1 /\ handler' = [handler EXCEPT ![c] = "done"]
         \/ /\ handler[c] \in {"plan", "stream"} /\ streams' = streams + 1
            /\ handlers' = handlers + 1 /\ handler' = [handler EXCEPT ![c] = "done"]
<1>1. CASE ReadClientHello(c)
  BY <1>1 DEF ReadClientHello, Leave
<1>2. CASE Announcement(c) \/ HandlerGivesUp(c)
  BY <1>2 DEF Announcement, HandlerGivesUp, Leave
<1>3. CASE FetchRequest(c)
  BY <1>3 DEF FetchRequest, Leave
<1>4. CASE Plan(c) \/ StreamEnds(c)
  BY <1>4 DEF Plan, StreamEnds, Leave
<1>5. QED
  BY <1>1, <1>2, <1>3, <1>4 DEF HandlerStep

\* Types.
LEMMA TypeStep == TypeInv /\ QueueInv /\ [Next]_vars => TypeInv'
<1> SUFFICES ASSUME TypeInv, QueueInv, [Next]_vars PROVE TypeInv'
  OBVIOUS
<1>0. MaxHandlers \in Nat /\ MaxStreams \in Nat /\ Headroom \in Nat /\ Payload \subseteq Nat
      /\ MaxFaults \in Nat /\ MaxStarts \in Nat
  BY TransfersAssumption
<1>1. ASSUME \/ LoopStep \/ AcceptFails \/ Shutdown \/ Restart
             \/ \E c \in Conn : HandlerStep(c) \/ Lose(c)
      PROVE  TypeInv'
  <2>0. UNCHANGED <<client, disk>>
    BY <1>1, ServerSide
  <2>1. CASE Accept
    <3>1. backlog \in Seq(Conn) /\ backlog # <<>>
      BY <2>1 DEF Accept, TypeInv
    <3>2. Head(backlog) \in Conn /\ Tail(backlog) \in Seq(Conn)
      BY <3>1
    <3>3. /\ handlers' \in Nat /\ backlog' \in Seq(Conn) /\ loop' \in {"accept", "refusing", "stopped"}
          /\ handler' \in [Conn -> {"none", "hello", "operation", "plan", "stream", "done"}]
      <4>1. CASE handlers > 0
        <5>1. /\ handlers' = handlers - 1 /\ backlog' = Tail(backlog) /\ loop' = loop
              /\ handler' = [handler EXCEPT ![Head(backlog)] = "hello"]
          BY <2>1, <4>1 DEF Accept
        <5>2. /\ handler \in [Conn -> {"none", "hello", "operation", "plan", "stream", "done"}]
              /\ handlers \in Nat /\ loop \in {"accept", "refusing", "stopped"}
          BY DEF TypeInv
        <5>3. handler' \in [Conn -> {"none", "hello", "operation", "plan", "stream", "done"}]
          BY <5>1, <5>2
        <5>4. QED
          BY <3>2, <4>1, <5>1, <5>2, <5>3
      <4>2. CASE ~(handlers > 0)
        BY <2>1, <4>2 DEF Accept, TypeInv
      <4>3. QED
        BY <4>1, <4>2
    <3>4. UNCHANGED <<starts, streams, faults>>
      BY <2>1 DEF Accept
    <3>5. QED
      BY <2>0, <3>3, <3>4 DEF TypeInv
  <2>2. CASE RefuseExcess
    <3>1. backlog \in Seq(Conn) /\ backlog # <<>>
      BY <2>2 DEF RefuseExcess, TypeInv, QueueInv
    <3>2. Tail(backlog) \in Seq(Conn)
      BY <3>1
    <3>3. QED
      BY <2>0, <2>2, <3>2 DEF RefuseExcess, TypeInv
  <2>3. CASE RefusalFails \/ AcceptFails \/ Shutdown
    <3>1. Stop /\ starts' = starts /\ faults' \in 0..MaxFaults
      BY <1>0, <2>3 DEF RefusalFails, AcceptFails, Shutdown, TypeInv
    <3>2. /\ loop' \in {"accept", "refusing", "stopped"}
          /\ handlers' \in Nat /\ streams' \in Nat
      BY <1>0, <3>1 DEF Stop
    <3>3. handler' \in [Conn -> {"none", "hello", "operation", "plan", "stream", "done"}]
      BY <3>1 DEF Stop, TypeInv
    <3>4. backlog' \in Seq(Conn)
      BY <3>1 DEF Stop
    <3>5. QED
      BY <2>0, <3>1, <3>2, <3>3, <3>4 DEF TypeInv
  <2>4. CASE Restart
    BY <1>0, <2>0, <2>4 DEF Restart, TypeInv
  <2>5. ASSUME NEW c \in Conn, HandlerStep(c) PROVE TypeInv'
    <3>1. /\ handlers' \in Nat /\ streams' \in Nat
          /\ handler' \in [Conn -> {"none", "hello", "operation", "plan", "stream", "done"}]
      <4>1. /\ handler \in [Conn -> {"none", "hello", "operation", "plan", "stream", "done"}]
            /\ handlers \in Nat /\ streams \in Nat
        BY DEF TypeInv
      <4>2. /\ handlers' \in {handlers, handlers + 1}
            /\ streams' \in {streams, streams + 1} \/ (streams > 0 /\ streams' = streams - 1)
            /\ \E step \in {"operation", "plan", "stream", "done"} : handler' = [handler EXCEPT ![c] = step]
        BY <2>5, HandlerShape
      <4>3. QED
        BY <4>1, <4>2
    <3>2. UNCHANGED listener /\ faults' = faults
      BY <2>5 DEF HandlerStep, ReadClientHello, Announcement, FetchRequest, Plan, StreamEnds,
         HandlerGivesUp
    <3>3. QED
      BY <2>0, <3>1, <3>2 DEF TypeInv
  <2>6. ASSUME NEW c \in Conn, Lose(c) PROVE TypeInv'
    BY <1>0, <2>0, <2>6 DEF Lose, TypeInv
  <2>7. QED
    BY <1>1, <2>1, <2>2, <2>3, <2>4, <2>5, <2>6 DEF LoopStep
<1>2. ASSUME NEW c \in Conn, Connect(c) \/ ConnectFails(c) \/ FetchElsewhere(c) PROVE TypeInv'
  <2>1. backlog' \in Seq(Conn)
    <3>1. backlog' \in {backlog, Append(backlog, c)} /\ backlog \in Seq(Conn)
      BY <1>2 DEF Connect, ConnectFails, FetchElsewhere, TypeInv
    <3>2. QED
      BY <3>1
  <2>2. /\ client' \in [Conn -> {"idle", "hello", "answer", "space", "lock", "allocate", "receive",
                                 "drop", "done"}]
        /\ size' \in [Conn -> Nat]
    BY <1>0, <1>2 DEF Connect, ConnectFails, FetchElsewhere, Return, TypeInv
  <2>3. UNCHANGED <<loop, starts, tasks, faults, free, ledger, seen, raced>>
    BY <1>2 DEF Connect, ConnectFails, FetchElsewhere
  <2>4. QED
    BY <2>1, <2>2, <2>3 DEF TypeInv
<1>3. ASSUME NEW c \in Conn, ClientStep(c) PROVE TypeInv'
  <2>1. UNCHANGED <<listener, tasks, faults>>
    BY <1>3 DEF ClientStep, ReadServerHello, ReadAnswer, ClientGivesUp, Snapshot, Reserve, Allocate,
       EndTransfer, DropPermit
  <2>2. client' \in [Conn -> {"idle", "hello", "answer", "space", "lock", "allocate", "receive",
                              "drop", "done"}]
    BY <1>3 DEF ClientStep, ReadServerHello, ReadAnswer, ClientGivesUp, Snapshot, Reserve, Allocate,
       EndTransfer, DropPermit, Return, TypeInv
  <2>3. size' \in [Conn -> Nat] /\ seen' \in [Conn -> Nat]
    <3>1. /\ size' = size \/ \E n \in Nat : size' = [size EXCEPT ![c] = n]
          /\ seen' = seen \/ \E n \in {0, free} : seen' = [seen EXCEPT ![c] = n]
      BY <1>0, <1>3 DEF ClientStep, ReadServerHello, ReadAnswer, ClientGivesUp, Snapshot, Reserve, Allocate,
         EndTransfer, DropPermit
    <3>2. size \in [Conn -> Nat] /\ seen \in [Conn -> Nat] /\ free \in Nat
      BY DEF TypeInv
    <3>3. QED
      BY <3>1, <3>2
  <2>4. free' \in Nat /\ ledger' \in Nat
    <3>1. /\ free' \in {free, free + size[c]} \/ (free >= size[c] /\ free' = free - size[c])
          /\ \/ ledger' \in {ledger, ledger + Required(c), 0}
             \/ ledger >= Required(c) /\ ledger' = ledger - Required(c)
      BY <1>3 DEF ClientStep, ReadServerHello, ReadAnswer, ClientGivesUp, Snapshot, Reserve, Allocate,
         EndTransfer, DropPermit
    <3>2. free \in Nat /\ ledger \in Nat /\ size[c] \in Nat /\ Required(c) \in Nat
      BY <1>0 DEF TypeInv, Required
    <3>3. QED
      BY <3>1, <3>2
  <2>5. raced' \in BOOLEAN
    <3>1. raced' = raced \/ raced' = (raced \/ \E d \in Conn : client[d] = "lock")
      BY <1>3 DEF ClientStep, ReadServerHello, ReadAnswer, ClientGivesUp, Snapshot, Reserve, Allocate,
         EndTransfer, DropPermit
    <3>2. QED
      BY <3>1, Zenon DEF TypeInv
  <2> QED
    BY <2>1, <2>2, <2>3, <2>4, <2>5 DEF TypeInv
<1>4. CASE UNCHANGED vars
  BY <1>4 DEF vars, TypeInv
<1>5. QED
  BY <1>1, <1>2, <1>3, <1>4 DEF Next

\* Stopping takes every handler and the whole backlog.
LEMMA StopHandling == TypeInv /\ Stop => Handling' = {} /\ Streaming' = {}
  BY DEF TypeInv, Stop, Handling, Streaming

\* The queue.
LEMMA QueueStep == TypeInv /\ QueueInv /\ [Next]_vars => QueueInv'
<1> SUFFICES ASSUME TypeInv, QueueInv, [Next]_vars PROVE QueueInv'
  OBVIOUS
<1>0. /\ backlog \in Seq(Conn)
      /\ handler \in [Conn -> {"none", "hello", "operation", "plan", "stream", "done"}]
      /\ client \in [Conn -> {"idle", "hello", "answer", "space", "lock", "allocate", "receive",
                              "drop", "done"}]
      /\ loop \in {"accept", "refusing", "stopped"}
  BY DEF TypeInv
<1>a. backlog # <<>> => /\ Head(backlog) = backlog[1] /\ Tail(backlog) \in Seq(Conn)
                        /\ 1 \in 1..Len(backlog) /\ Len(Tail(backlog)) = Len(backlog) - 1
                        /\ \A i \in 1..Len(Tail(backlog)) : /\ Tail(backlog)[i] = backlog[i + 1]
                                                           /\ i + 1 \in 1..Len(backlog)
                                                           /\ i + 1 # 1
  BY <1>0
<1>1. CASE LoopStep \/ AcceptFails \/ Shutdown \/ Restart
  <2>0. UNCHANGED client
    BY <1>1, ServerSide
  <2>1. CASE Accept
    <3>1. CASE handlers > 0
      <4>1. /\ backlog # <<>> /\ backlog' = Tail(backlog) /\ loop = "accept" /\ loop' = loop
            /\ handler' = [handler EXCEPT ![Head(backlog)] = "hello"]
        BY <2>1, <3>1 DEF Accept
      <4>2. \A i \in 1..Len(backlog') : /\ backlog'[i] = backlog[i + 1] /\ i + 1 \in 1..Len(backlog)
                                        /\ backlog'[i] # Head(backlog) /\ backlog'[i] \in Conn
        BY <1>0, <1>a, <4>1 DEF QueueInv
      <4>3. \A c \in Conn : handler'[c] = IF c = backlog[1] THEN "hello" ELSE handler[c]
        BY <1>0, <1>a, <4>1
      <4>4. client[backlog[1]] # "idle"
        BY <1>a, <4>1 DEF QueueInv
      <4>5. /\ \A i \in 1..Len(backlog') : handler'[backlog'[i]] = "none" /\ client[backlog'[i]] # "idle"
            /\ \A c \in Conn : client[c] = "idle" => handler'[c] = "none"
        BY <1>a, <4>1, <4>2, <4>3, <4>4 DEF QueueInv
      <4>6. \A i, j \in 1..Len(backlog') : backlog'[i] = backlog'[j] => i = j
        <5>1. SUFFICES ASSUME NEW i \in 1..Len(backlog'), NEW j \in 1..Len(backlog'),
                              backlog'[i] = backlog'[j]
                       PROVE  i = j
          OBVIOUS
        <5>2. i + 1 = j + 1
          BY <4>2, <5>1 DEF QueueInv
        <5>3. QED
          BY <5>2
      <4>7. QED
        BY <2>0, <4>1, <4>5, <4>6 DEF QueueInv
    <3>2. CASE ~(handlers > 0)
      BY <1>0, <2>0, <2>1, <3>2 DEF Accept, QueueInv, Handling
    <3>3. QED
      BY <3>1, <3>2
  <2>2. CASE RefuseExcess
    <3>1. /\ backlog # <<>> /\ backlog' = Tail(backlog) /\ loop' = "accept" /\ handler' = handler
      BY <2>2 DEF RefuseExcess, QueueInv
    <3>2. \A i \in 1..Len(backlog') : backlog'[i] = backlog[i + 1] /\ i + 1 \in 1..Len(backlog)
      BY <1>0, <1>a, <3>1
    <3>3. \A i, j \in 1..Len(backlog') : backlog'[i] = backlog'[j] => i = j
      <4>1. SUFFICES ASSUME NEW i \in 1..Len(backlog'), NEW j \in 1..Len(backlog'),
                            backlog'[i] = backlog'[j]
                     PROVE  i = j
        OBVIOUS
      <4>2. i + 1 = j + 1
        BY <3>2, <4>1 DEF QueueInv
      <4>3. QED
        BY <4>2
    <3>4. QED
      BY <2>0, <3>1, <3>2, <3>3 DEF QueueInv
  <2>3. CASE RefusalFails \/ AcceptFails \/ Shutdown
    <3>1. Stop
      BY <2>3 DEF RefusalFails, AcceptFails, Shutdown
    <3>2. Handling' = {} /\ backlog' = <<>> /\ loop' = "stopped" /\ Len(backlog') = 0
      BY <3>1, StopHandling DEF Stop
    <3>3. \A c \in Conn : client[c] = "idle" => handler'[c] = "none"
      <4>1. SUFFICES ASSUME NEW c \in Conn, client[c] = "idle" PROVE handler'[c] = "none"
        OBVIOUS
      <4>2. handler[c] = "none" /\ \A i \in 1..Len(backlog) : backlog[i] # c
        BY <4>1 DEF QueueInv
      <4>3. DOMAIN backlog = 1..Len(backlog)
        BY <1>0
      <4>4. QED
        BY <3>1, <4>2, <4>3 DEF Stop
    <3>4. QED
      BY <2>0, <3>2, <3>3 DEF QueueInv
  <2>4. CASE Restart
    BY <1>0, <2>0, <2>4 DEF Restart, QueueInv
  <2>5. QED
    BY <1>1, <2>1, <2>2, <2>3, <2>4 DEF LoopStep
<1>2. ASSUME NEW c \in Conn, HandlerStep(c) PROVE QueueInv'
  <2>1. UNCHANGED <<client, listener>>
    BY <1>2, ServerSide DEF HandlerStep, ReadClientHello, Announcement, FetchRequest, Plan, StreamEnds,
       HandlerGivesUp
  <2>2. /\ handler[c] \in {"hello", "operation", "plan", "stream"}
        /\ \A d \in Conn : d # c => handler'[d] = handler[d]
    BY <1>0, <1>2 DEF HandlerStep, ReadClientHello, Announcement, FetchRequest, Plan, StreamEnds,
       HandlerGivesUp, Leave
  <2>3. c \in Handling
    BY <2>2 DEF Handling
  <2>4. \A i \in 1..Len(backlog) : backlog[i] \in Conn
    BY <1>0
  <2>5. QED
    BY <2>1, <2>2, <2>3, <2>4 DEF QueueInv
<1>3. ASSUME NEW c \in Conn, Connect(c) PROVE QueueInv'
  <2>1. /\ client[c] = "idle" /\ client' = [client EXCEPT ![c] = "hello"]
        /\ backlog' = Append(backlog, c) /\ loop # "stopped" /\ loop' = loop /\ handler' = handler
    BY <1>3 DEF Connect
  <2>2. /\ Len(backlog') = Len(backlog) + 1 /\ Len(backlog) \in Nat
        /\ \A i \in 1..Len(backlog') :
             \/ i \in 1..Len(backlog) /\ backlog'[i] = backlog[i]
             \/ i = Len(backlog) + 1 /\ backlog'[i] = c
    BY <1>0, <2>1
  <2>3. \A i \in 1..Len(backlog) : backlog[i] # c /\ backlog[i] \in Conn
    BY <1>0, <2>1 DEF QueueInv
  <2>4. \A i, j \in 1..Len(backlog') : backlog'[i] = backlog'[j] => i = j
    BY <2>2, <2>3 DEF QueueInv
  <2>5. \A i \in 1..Len(backlog') : handler'[backlog'[i]] = "none" /\ client'[backlog'[i]] # "idle"
    BY <1>0, <2>1, <2>2, <2>3 DEF QueueInv
  <2>6. backlog' # <<>>
    BY <1>0, <2>1
  <2>7. \A d \in Conn : client'[d] = "idle" => handler'[d] = "none"
    BY <1>0, <2>1 DEF QueueInv
  <2>8. QED
    BY <2>1, <2>4, <2>5, <2>6, <2>7 DEF QueueInv
<1>4. ASSUME NEW c \in Conn, ConnectFails(c) \/ FetchElsewhere(c) \/ ClientStep(c) PROVE QueueInv'
  <2>1. /\ UNCHANGED <<listener, handler>>
        /\ \A d \in Conn : client'[d] = "idle" => client[d] = "idle"
    BY <1>0, <1>4 DEF ConnectFails, FetchElsewhere, ClientStep, ReadServerHello, ReadAnswer, ClientGivesUp,
       Snapshot, Reserve, Allocate, EndTransfer, DropPermit, Return
  <2>2. \A i \in 1..Len(backlog) : backlog[i] \in Conn
    BY <1>0
  <2>3. QED
    BY <2>1, <2>2 DEF QueueInv, Handling
<1>5. ASSUME NEW c \in Conn, Lose(c) PROVE QueueInv'
  BY <1>5, ServerSide DEF Lose, QueueInv, Handling
<1>6. CASE UNCHANGED vars
  BY <1>6 DEF vars, QueueInv, Handling
<1>7. QED
  BY <1>1, <1>2, <1>3, <1>4, <1>5, <1>6 DEF Next

-----------------------------------------------------------------------------
(* The pools.                                                              *)

\* A permit is taken with the step that needs it and dropped with the one that
\* leaves it.
LEMMA PoolStep == TypeInv /\ QueueInv /\ PoolInv /\ [Next]_vars => PoolInv'
<1> SUFFICES ASSUME TypeInv, QueueInv, PoolInv, [Next]_vars PROVE PoolInv'
  OBVIOUS
<1>0. /\ handler \in [Conn -> {"none", "hello", "operation", "plan", "stream", "done"}]
      /\ handlers \in Nat /\ streams \in Nat /\ MaxHandlers \in Nat /\ MaxStreams \in Nat
      /\ handlers + Cardinality(Handling) = MaxHandlers
      /\ streams + Cardinality(Streaming) = MaxStreams
  BY TransfersAssumption DEF TypeInv, PoolInv
<1>a. IsFiniteSet(Handling) /\ IsFiniteSet(Streaming)
  BY TransfersAssumption, FS_Subset DEF Handling, Streaming
<1>b. Cardinality(Handling) \in Nat /\ Cardinality(Streaming) \in Nat
  BY <1>a, FS_CardinalityType
<1>1. CASE UNCHANGED <<handler, handlers, streams>>
  BY <1>0, <1>1 DEF PoolInv, Handling, Streaming
<1>2. CASE Accept /\ handlers > 0
  <2>1. /\ Head(backlog) \in Conn /\ handler[Head(backlog)] = "none"
    <3>1. backlog \in Seq(Conn) /\ backlog # <<>>
      BY <1>2 DEF TypeInv, Accept
    <3>2. Head(backlog) = backlog[1] /\ 1 \in 1..Len(backlog) /\ Head(backlog) \in Conn
      BY <3>1
    <3>3. QED
      BY <3>2 DEF QueueInv
  <2>2. /\ handler' = [handler EXCEPT ![Head(backlog)] = "hello"] /\ handlers' = handlers - 1
        /\ streams' = streams
    BY <1>2 DEF Accept
  <2>3. /\ Head(backlog) \notin Handling /\ Handling' = Handling \cup {Head(backlog)}
        /\ Streaming' = Streaming
    BY <1>0, <2>1, <2>2 DEF Handling, Streaming
  <2>4. Cardinality(Handling') = Cardinality(Handling) + 1
    BY <1>a, <2>3, FS_AddElement
  <2>5. QED
    BY <1>0, <1>b, <2>2, <2>3, <2>4 DEF PoolInv
<1>3. CASE Stop
  <2>1. handlers' = MaxHandlers /\ streams' = MaxStreams
    BY <1>3 DEF Stop
  <2>2. Cardinality(Handling') = 0 /\ Cardinality(Streaming') = 0
    BY <1>3, StopHandling, FS_EmptySet
  <2>3. QED
    BY <1>0, <2>1, <2>2 DEF PoolInv
<1>4. CASE Restart
  <2>1. Handling = {} /\ handler' = handler /\ handlers' = MaxHandlers /\ streams' = MaxStreams
    BY <1>4 DEF Restart, QueueInv
  <2>2. Handling' = {} /\ Streaming' = {}
    BY <2>1 DEF Handling, Streaming
  <2>3. QED
    BY <1>0, <2>1, <2>2, FS_EmptySet DEF PoolInv
<1>5. ASSUME NEW c \in Conn, HandlerStep(c) PROVE PoolInv'
  <2>1. CASE /\ handler[c] \in {"hello", "plan"} /\ UNCHANGED <<handlers, streams>>
             /\ handler' = [handler EXCEPT ![c] = IF handler[c] = "hello" THEN "operation" ELSE "stream"]
    <3>1. Handling' = Handling /\ Streaming' = Streaming
      BY <1>0, <2>1 DEF Handling, Streaming
    <3>2. QED
      BY <1>0, <2>1, <3>1 DEF PoolInv
  <2>2. CASE /\ handler[c] = "operation" /\ handlers' = handlers
             /\ streams > 0 /\ streams' = streams - 1
             /\ handler' = [handler EXCEPT ![c] = "plan"]
    <3>1. Handling' = Handling /\ c \notin Streaming /\ Streaming' = Streaming \cup {c}
      BY <1>0, <2>2 DEF Handling, Streaming
    <3>2. Cardinality(Streaming') = Cardinality(Streaming) + 1
      BY <1>a, <3>1, FS_AddElement
    <3>3. QED
      BY <1>0, <1>b, <2>2, <3>1, <3>2 DEF PoolInv
  <2>3. CASE /\ handler[c] \in {"hello", "operation"} /\ streams' = streams
             /\ handlers' = handlers + 1 /\ handler' = [handler EXCEPT ![c] = "done"]
    <3>1. c \in Handling /\ Handling' = Handling \ {c} /\ Streaming' = Streaming
      BY <1>0, <2>3 DEF Handling, Streaming
    <3>2. Cardinality(Handling') = Cardinality(Handling) - 1
      BY <1>a, <3>1, FS_RemoveElement
    <3>3. QED
      BY <1>0, <1>b, <2>3, <3>1, <3>2 DEF PoolInv
  <2>4. CASE /\ handler[c] \in {"plan", "stream"} /\ streams' = streams + 1
             /\ handlers' = handlers + 1 /\ handler' = [handler EXCEPT ![c] = "done"]
    <3>1. /\ c \in Handling /\ Handling' = Handling \ {c}
          /\ c \in Streaming /\ Streaming' = Streaming \ {c}
      BY <1>0, <2>4 DEF Handling, Streaming
    <3>2. /\ Cardinality(Handling') = Cardinality(Handling) - 1
          /\ Cardinality(Streaming') = Cardinality(Streaming) - 1
      BY <1>a, <3>1, FS_RemoveElement
    <3>3. QED
      BY <1>0, <1>b, <2>4, <3>1, <3>2 DEF PoolInv
  <2>5. QED
    BY <1>5, <2>1, <2>2, <2>3, <2>4, HandlerShape
<1>6. \/ UNCHANGED <<handler, handlers, streams>> \/ (Accept /\ handlers > 0) \/ Stop \/ Restart
      \/ \E c \in Conn : HandlerStep(c)
  <2>1. ASSUME NEW c \in Conn,
               Connect(c) \/ ConnectFails(c) \/ FetchElsewhere(c) \/ ClientStep(c) \/ Lose(c)
        PROVE  UNCHANGED <<handler, handlers, streams>>
    BY <2>1 DEF Connect, ConnectFails, FetchElsewhere, ClientStep, ReadServerHello, ReadAnswer, ClientGivesUp,
       Snapshot, Reserve, Allocate, EndTransfer, DropPermit, Lose
  <2>2. ASSUME LoopStep \/ AcceptFails \/ Shutdown
        PROVE  UNCHANGED <<handler, handlers, streams>> \/ (Accept /\ handlers > 0) \/ Stop
    BY <2>2 DEF LoopStep, Accept, RefuseExcess, RefusalFails, AcceptFails, Shutdown
  <2>3. QED
    BY <2>1, <2>2 DEF Next, vars
<1>7. QED
  BY <1>1, <1>2, <1>3, <1>4, <1>5, <1>6

-----------------------------------------------------------------------------
(* The ledger and the space.                                               *)

\* What a step does to the reservations and the disk.
LEMMA DiskCases ==
  ASSUME TypeInv, [Next]_vars
  PROVE  \/ UNCHANGED <<client, disk>>
         \/ \E c \in Conn :
              \/ /\ client[c] \notin {"lock", "allocate", "receive", "drop"}
                 /\ \E step \in {"hello", "answer", "space", "done"} : client' = [client EXCEPT ![c] = step]
                 /\ size' = size \/ \E n \in Nat : size' = [size EXCEPT ![c] = n]
                 /\ UNCHANGED <<free, ledger, seen, raced>>
              \/ Snapshot(c) \/ Reserve(c) \/ Allocate(c) \/ EndTransfer(c) \/ DropPermit(c)
<1>1. ASSUME NEW c \in Conn,
             Connect(c) \/ ConnectFails(c) \/ FetchElsewhere(c) \/ ReadServerHello(c) \/ ReadAnswer(c)
             \/ ClientGivesUp(c)
      PROVE  /\ client[c] \notin {"lock", "allocate", "receive", "drop"}
             /\ \E step \in {"hello", "answer", "space", "done"} : client' = [client EXCEPT ![c] = step]
             /\ size' = size \/ \E n \in Nat : size' = [size EXCEPT ![c] = n]
             /\ UNCHANGED <<free, ledger, seen, raced>>
  <2>1. Payload \subseteq Nat
    BY TransfersAssumption
  <2>2. QED
    BY <1>1, <2>1 DEF Connect, ConnectFails, FetchElsewhere, ReadServerHello, ReadAnswer, ClientGivesUp, Return
<1>2. QED
  BY <1>1, ServerSide DEF Next, vars, ClientStep

\* The sets of requesters, when one of them moves.
LEMMA Moves ==
  ASSUME TypeInv, NEW c \in Conn, NEW step, client' = [client EXCEPT ![c] = step]
  PROVE  /\ Holding' = IF step \in {"allocate", "receive", "drop"} THEN Holding \cup {c} ELSE Holding \ {c}
         /\ Planned' = IF step = "allocate" THEN Planned \cup {c} ELSE Planned \ {c}
         /\ Occupied' = IF step \in {"receive", "drop"} THEN Occupied \cup {c} ELSE Occupied \ {c}
<1>1. \A d \in Conn : client'[d] = IF d = c THEN step ELSE client[d]
  BY DEF TypeInv
<1>2. QED
  BY <1>1 DEF Holding, Planned, Occupied

\* The functions and sets the sums are over.
LEMMA SumTypes ==
  ASSUME TypeInv
  PROVE  /\ Reserved \in [Conn -> Nat] /\ \A c \in Conn : Reserved[c] = size[c] + Headroom
         /\ size \in [Conn -> Nat] /\ Headroom \in Nat
         /\ Holding \in SUBSET Conn /\ Planned \in SUBSET Conn /\ Occupied \in SUBSET Conn
         /\ Planned \cap Occupied = {} /\ Planned \cup Occupied = Holding
  BY TransfersAssumption DEF TypeInv, Reserved, Required, Holding, Planned, Occupied

\* A reservation is counted while its permit lives.
LEMMA LedgerStep == TypeInv /\ TypeInv' /\ LedgerInv /\ [Next]_vars => LedgerInv'
<1> SUFFICES ASSUME TypeInv, TypeInv', LedgerInv, [Next]_vars PROVE LedgerInv'
  OBVIOUS
<1>0. /\ Reserved \in [Conn -> Nat] /\ \A c \in Conn : Reserved[c] = Required(c)
      /\ Holding \in SUBSET Conn /\ ledger = Total(Reserved, Holding) /\ Total(Reserved, Holding) \in Nat
      /\ client \in [Conn -> {"idle", "hello", "answer", "space", "lock", "allocate", "receive",
                              "drop", "done"}]
  BY SumTypes, BytesFinite DEF LedgerInv, TypeInv, Reserved
<1>1. ASSUME \A c \in Holding : size'[c] = size[c] PROVE Total(Reserved', Holding) = Total(Reserved, Holding)
  <2>1. \A c \in Holding : Reserved'[c] = Reserved[c]
    BY <1>0, <1>1 DEF Reserved, Required
  <2>2. QED
    BY <2>1, TotalSame
<1>2. CASE UNCHANGED <<client, disk>>
  BY <1>2 DEF LedgerInv, Total, Bytes, Reserved, Required, Holding
<1>3. ASSUME NEW c \in Conn, NEW step,
             client' = [client EXCEPT ![c] = step], ledger' = ledger,
             c \in Holding <=> step \in {"allocate", "receive", "drop"},
             \A d \in Conn : size'[d] = size[d] \/ (d = c /\ c \notin Holding)
      PROVE  LedgerInv'
  <2>1. Holding' = Holding
    <3>1. \A d \in Conn : client'[d] = IF d = c THEN step ELSE client[d]
      BY <1>0, <1>3
    <3>2. QED
      BY <1>3, <3>1 DEF Holding
  <2>2. Total(Reserved', Holding) = Total(Reserved, Holding)
    BY <1>0, <1>1, <1>3
  <2>3. QED
    BY <1>0, <1>3, <2>1, <2>2 DEF LedgerInv
<1>4. ASSUME NEW c \in Conn,
             client[c] \notin {"lock", "allocate", "receive", "drop"},
             NEW step \in {"hello", "answer", "space", "done"}, client' = [client EXCEPT ![c] = step],
             size' = size \/ \E n \in Nat : size' = [size EXCEPT ![c] = n],
             ledger' = ledger
      PROVE  LedgerInv'
  <2>1. c \notin Holding
    BY <1>4 DEF Holding
  <2>2. \A d \in Conn : size'[d] = size[d] \/ d = c
    BY <1>4 DEF TypeInv
  <2>3. QED
    BY <1>3, <1>4, <2>1, <2>2
<1>5. ASSUME NEW c \in Conn, Snapshot(c) \/ Allocate(c) \/ EndTransfer(c) PROVE LedgerInv'
  <2>1. PICK step \in {"lock", "receive", "drop"} : client' = [client EXCEPT ![c] = step]
                                                   /\ (client[c] = "space" <=> step = "lock")
    BY <1>5 DEF Snapshot, Allocate, EndTransfer
  <2>2. /\ ledger' = ledger /\ size' = size /\ client[c] \in {"space", "allocate", "receive"}
    BY <1>5 DEF Snapshot, Allocate, EndTransfer
  <2>3. c \in Holding <=> step \in {"allocate", "receive", "drop"}
    BY <2>1, <2>2 DEF Holding
  <2>4. QED
    BY <1>3, <2>1, <2>2, <2>3
<1>6. ASSUME NEW c \in Conn, Reserve(c) PROVE LedgerInv'
  <2>0. c \notin Holding /\ size' = size
    BY <1>6 DEF Reserve, Holding
  <2>1. CASE seen[c] - ledger >= Required(c)
    <3>1. client' = [client EXCEPT ![c] = "allocate"] /\ ledger' = ledger + Required(c)
      BY <1>6, <2>1 DEF Reserve
    <3>2. Holding' = Holding \cup {c} /\ Reserved' = Reserved
      BY <2>0, <3>1, Moves DEF Reserved, Required
    <3>3. Total(Reserved, Holding \cup {c}) = Total(Reserved, Holding) + Reserved[c]
      BY <1>0, <2>0, TotalAdd
    <3>4. QED
      BY <1>0, <3>1, <3>2, <3>3 DEF LedgerInv
  <2>2. CASE ~(seen[c] - ledger >= Required(c))
    <3>1. client' = [client EXCEPT ![c] = "done"] /\ ledger' = ledger
      BY <1>6, <2>2 DEF Reserve
    <3>2. QED
      BY <1>3, <2>0, <3>1
  <2>3. QED
    BY <2>1, <2>2
<1>7. ASSUME NEW c \in Conn, DropPermit(c) PROVE LedgerInv'
  <2>1. /\ c \in Holding /\ client' = [client EXCEPT ![c] = "done"]
        /\ ledger' = IF ledger >= Required(c) THEN ledger - Required(c) ELSE 0
        /\ size' = [size EXCEPT ![c] = 0]
    BY <1>7 DEF DropPermit, Holding
  <2>2. /\ Total(Reserved, Holding \ {c}) = Total(Reserved, Holding) - Reserved[c]
        /\ Reserved[c] <= Total(Reserved, Holding)
    BY <1>0, <2>1, TotalRemove
  <2>3. Holding' = Holding \ {c}
    BY <2>1, Moves
  <2>4. \A d \in Holding \ {c} : Reserved'[d] = Reserved[d]
    BY <1>0, <2>1 DEF Reserved, Required, TypeInv
  <2>5. Total(Reserved', Holding \ {c}) = Total(Reserved, Holding \ {c})
    BY <2>4, TotalSame
  <2>6. Required(c) = Reserved[c] /\ Reserved[c] \in Nat
    BY <1>0
  <2>7. QED
    BY <1>0, <2>1, <2>2, <2>3, <2>5, <2>6 DEF LedgerInv
<1>8. QED
  BY <1>2, <1>4, <1>5, <1>6, <1>7, DiskCases

\* Space that a reservation counts on is not given away: what is allocated later
\* was in the ledger when the reservation was checked.
LEMMA SpaceStep == TypeInv /\ TypeInv' /\ LedgerInv /\ SpaceInv /\ [Next]_vars => SpaceInv'
<1> SUFFICES ASSUME TypeInv, TypeInv', LedgerInv, SpaceInv, [Next]_vars, ~raced'
             PROVE  /\ free' >= Headroom + Total(size', Planned')
                    /\ \A d \in Conn : client'[d] = "lock" => seen'[d] <= free' + Total(size', Occupied')
  BY DEF SpaceInv
<1>0. /\ size \in [Conn -> Nat] /\ seen \in [Conn -> Nat] /\ free \in Nat /\ Headroom \in Nat
      /\ ledger \in Nat /\ \A c \in Conn : Required(c) = size[c] + Headroom /\ size[c] \in Nat
      /\ Planned \in SUBSET Conn /\ Occupied \in SUBSET Conn
      /\ Total(size, Planned) \in Nat /\ Total(size, Occupied) \in Nat
      /\ client \in [Conn -> {"idle", "hello", "answer", "space", "lock", "allocate", "receive",
                              "drop", "done"}]
  BY SumTypes, BytesFinite DEF TypeInv, Required
<1>1. ~raced
  <2>1. raced' = raced \/ raced' = (raced \/ \E d \in Conn : client[d] = "lock")
    BY DiskCases DEF Snapshot, Reserve, Allocate, EndTransfer, DropPermit
  <2>2. QED
    BY <2>1, Zenon
<1>2. /\ free >= Headroom + Total(size, Planned)
      /\ \A d \in Conn : client[d] = "lock" => seen[d] <= free + Total(size, Occupied)
  BY <1>1 DEF SpaceInv
<1>3. CASE UNCHANGED <<client, disk>>
  <2>1. Planned' = Planned /\ Occupied' = Occupied
    BY <1>3 DEF Planned, Occupied
  <2>2. QED
    BY <1>2, <1>3, <2>1
<1>4. ASSUME NEW c \in Conn,
             client[c] \notin {"lock", "allocate", "receive", "drop"},
             NEW step \in {"hello", "answer", "space", "done"}, client' = [client EXCEPT ![c] = step],
             size' = size \/ \E n \in Nat : size' = [size EXCEPT ![c] = n],
             UNCHANGED <<free, seen>>
      PROVE  /\ free' >= Headroom + Total(size', Planned')
             /\ \A d \in Conn : client'[d] = "lock" => seen'[d] <= free' + Total(size', Occupied')
  <2>1. c \notin Planned /\ c \notin Occupied
    BY <1>4 DEF Planned, Occupied
  <2>2. Planned' = Planned /\ Occupied' = Occupied
    BY <1>0, <1>4, <2>1 DEF Planned, Occupied
  <2>3. \A d \in Conn : d # c => size'[d] = size[d]
    BY <1>0, <1>4
  <2>4. Total(size', Planned) = Total(size, Planned)
    BY <1>0, <2>1, <2>3, TotalSame
  <2>5. Total(size', Occupied) = Total(size, Occupied)
    BY <1>0, <2>1, <2>3, TotalSame
  <2>6. \A d \in Conn : client'[d] = "lock" => client[d] = "lock"
    BY <1>0, <1>4
  <2>7. QED
    BY <1>2, <1>4, <2>2, <2>4, <2>5, <2>6
<1>5. ASSUME NEW c \in Conn, Snapshot(c)
      PROVE  /\ free' >= Headroom + Total(size', Planned')
             /\ \A d \in Conn : client'[d] = "lock" => seen'[d] <= free' + Total(size', Occupied')
  <2>1. /\ client[c] = "space" /\ client' = [client EXCEPT ![c] = "lock"]
        /\ seen' = [seen EXCEPT ![c] = free] /\ UNCHANGED <<size, free>>
    BY <1>5 DEF Snapshot
  <2>2. Planned' = Planned /\ Occupied' = Occupied
    BY <2>1, Moves DEF Planned, Occupied
  <2>3. \A d \in Conn : /\ seen'[d] = (IF d = c THEN free ELSE seen[d])
                        /\ client'[d] = "lock" => d = c \/ client[d] = "lock"
    BY <1>0, <2>1
  <2>4. QED
    BY <1>0, <1>2, <2>1, <2>2, <2>3
<1>6. ASSUME NEW c \in Conn, Reserve(c)
      PROVE  /\ free' >= Headroom + Total(size', Planned')
             /\ \A d \in Conn : client'[d] = "lock" => seen'[d] <= free' + Total(size', Occupied')
  <2>1. client[c] = "lock" /\ UNCHANGED <<size, free>> /\ seen' = [seen EXCEPT ![c] = 0]
    BY <1>6 DEF Reserve
  <2>2. c \notin Planned /\ c \notin Occupied
    BY <2>1 DEF Planned, Occupied
  <2>3. CASE seen[c] - ledger >= Required(c)
    <3>1. client' = [client EXCEPT ![c] = "allocate"]
      BY <1>6, <2>3 DEF Reserve
    <3>2. Planned' = Planned \cup {c} /\ Occupied' = Occupied
      BY <1>0, <2>2, <3>1 DEF Planned, Occupied
    <3>3. Total(size, Planned \cup {c}) = Total(size, Planned) + size[c]
      BY <1>0, <2>2, TotalAdd
    <3>4. Total(size, Planned) + Total(size, Occupied) <= ledger
      <4>1. Total(size, Planned) + Total(size, Occupied) <= Total(Reserved, Planned \cup Occupied)
        <5>1. \A d \in Conn : size[d] <= Reserved[d]
          BY SumTypes
        <5>2. QED
          BY <5>1, SumTypes, TotalParts
      <4>2. QED
        BY <4>1, SumTypes DEF LedgerInv
    <3>5. seen[c] <= free + Total(size, Occupied) /\ seen[c] \in Nat /\ size[c] \in Nat
      BY <1>0, <1>2, <2>1
    <3>6. free >= Headroom + (Total(size, Planned) + size[c])
      BY <1>0, <2>3, <3>4, <3>5
    <3>7. \A d \in Conn : client'[d] = "lock" => client[d] = "lock" /\ seen'[d] = seen[d]
      BY <1>0, <2>1, <3>1
    <3>8. QED
      BY <1>2, <2>1, <3>2, <3>3, <3>6, <3>7
  <2>4. CASE ~(seen[c] - ledger >= Required(c))
    <3>1. client' = [client EXCEPT ![c] = "done"]
      BY <1>6, <2>4 DEF Reserve
    <3>2. Planned' = Planned /\ Occupied' = Occupied
      BY <1>0, <2>2, <3>1 DEF Planned, Occupied
    <3>3. \A d \in Conn : client'[d] = "lock" => client[d] = "lock" /\ seen'[d] = seen[d]
      BY <1>0, <2>1, <3>1
    <3>4. QED
      BY <1>2, <2>1, <3>2, <3>3
  <2>5. QED
    BY <2>3, <2>4
<1>7. ASSUME NEW c \in Conn, Allocate(c) \/ EndTransfer(c)
      PROVE  /\ free' >= Headroom + Total(size', Planned')
             /\ \A d \in Conn : client'[d] = "lock" => seen'[d] <= free' + Total(size', Occupied')
  <2>1. UNCHANGED <<size, seen>>
    BY <1>7 DEF Allocate, EndTransfer
  <2>2. \A d \in Conn : client'[d] = "lock" => client[d] = "lock"
    BY <1>0, <1>7 DEF Allocate, EndTransfer
  <2>3. CASE EndTransfer(c)
    <3>1. /\ client[c] = "receive" /\ client' = [client EXCEPT ![c] = "drop"]
          /\ free' \in {free, free + size[c]}
      BY <2>3 DEF EndTransfer
    <3>2. Planned' = Planned /\ Occupied' = Occupied
      BY <3>1, Moves DEF Planned, Occupied
    <3>3. free' >= free /\ free' \in Nat /\ size[c] \in Nat
      BY <1>0, <3>1
    <3>4. QED
      BY <1>0, <1>2, <2>1, <2>2, <3>2, <3>3
  <2>4. CASE Allocate(c)
    <3>1. c \in Planned /\ c \notin Occupied
      BY <2>4 DEF Allocate, Planned, Occupied
    <3>2. PICK step \in {"receive", "drop"} :
            /\ client' = [client EXCEPT ![c] = step]
            /\ free' = free \/ (free >= size[c] /\ free' = free - size[c])
      BY <2>4 DEF Allocate
    <3>3. Planned' = Planned \ {c} /\ Occupied' = Occupied \cup {c}
      BY <3>2, Moves
    <3>4. Total(size, Planned \ {c}) = Total(size, Planned) - size[c]
      BY <1>0, <3>1, TotalRemove
    <3>5. Total(size, Occupied \cup {c}) = Total(size, Occupied) + size[c]
      BY <1>0, <3>1, TotalAdd
    <3>6. free' \in Nat /\ free' + size[c] >= free /\ size[c] \in Nat
      BY <1>0, <3>2
    <3>7. free' >= Headroom + (Total(size, Planned) - size[c])
      BY <1>0, <1>2, <3>2, <3>6
    <3>8. \A d \in Conn : client[d] = "lock" => seen[d] <= free' + (Total(size, Occupied) + size[c])
      BY <1>0, <1>2, <3>6
    <3>9. QED
      BY <2>1, <2>2, <3>3, <3>4, <3>5, <3>7, <3>8
  <2>5. QED
    BY <1>7, <2>3, <2>4
<1>8. ASSUME NEW c \in Conn, DropPermit(c)
      PROVE  /\ free' >= Headroom + Total(size', Planned')
             /\ \A d \in Conn : client'[d] = "lock" => seen'[d] <= free' + Total(size', Occupied')
  <2>1. /\ client[c] = "drop" /\ client' = [client EXCEPT ![c] = "done"]
        /\ size' = [size EXCEPT ![c] = 0] /\ UNCHANGED <<free, seen>>
        /\ raced' = (raced \/ \E d \in Conn : client[d] = "lock")
    BY <1>8 DEF DropPermit
  <2>2. \A d \in Conn : client[d] # "lock"
    BY <2>1, Zenon
  <2>3. \A d \in Conn : client'[d] # "lock"
    BY <1>0, <2>1, <2>2
  <2>4. c \notin Planned /\ Planned' = Planned
    BY <2>1, Moves DEF Planned
  <2>5. \A d \in Planned : size'[d] = size[d]
    BY <1>0, <2>1, <2>4
  <2>6. Total(size', Planned) = Total(size, Planned)
    BY <2>5, TotalSame
  <2>7. QED
    BY <1>2, <2>1, <2>3, <2>4, <2>6
<1>9. QED
  BY <1>3, <1>4, <1>5, <1>6, <1>7, <1>8, DiskCases

-----------------------------------------------------------------------------
(* The inductive invariant, and what follows from it.                      *)

\* Nobody is connected and nothing is reserved.
LEMMA InitIInv == Init => IInv
<1> SUFFICES ASSUME Init PROVE IInv
  OBVIOUS
<1>1. TypeInv
  <2>1. raced \in BOOLEAN
    BY Zenon DEF Init
  <2>2. backlog \in Seq(Conn)
    BY DEF Init
  <2>3. QED
    BY <2>1, <2>2, TransfersAssumption DEF Init, TypeInv
<1>2. Handling = {} /\ Streaming = {} /\ Holding = {} /\ Planned = {} /\ Occupied = {}
  BY DEF Init, Handling, Streaming, Holding, Planned, Occupied
<1>3. \A n : Total(n, {}) = 0
  <2>1. \A n : Bytes(n, {}) = {}
    BY DEF Bytes
  <2>2. QED
    BY <2>1, FS_EmptySet DEF Total
<1>4. QueueInv
  BY <1>2 DEF Init, QueueInv
<1>5. PoolInv
  BY <1>2, FS_EmptySet, TransfersAssumption DEF Init, PoolInv
<1>6. LedgerInv
  BY <1>2, <1>3 DEF Init, LedgerInv
<1>7. SpaceInv
  BY <1>2, <1>3, TransfersAssumption DEF Init, SpaceInv
<1>8. QED
  BY <1>1, <1>4, <1>5, <1>6, <1>7 DEF IInv

\* Every step keeps it.
LEMMA StepIInv == IInv /\ [Next]_vars => IInv'
  BY TypeStep, QueueStep, PoolStep, LedgerStep, SpaceStep DEF IInv

\* IInv holds in every reachable state.
LEMMA Invariance == Spec => []IInv
  BY InitIInv, StepIInv, PTL DEF Spec

\* The books are exact for any pools and any number of connections: permits left
\* and held make up the pools, across refusals, timeouts, stops and restarts,
\* and the ledger counts what the live permits reserve, so that giving one back
\* never saturates.
THEOREM TransfersTypeCorrect == Spec => []TypeOK
<1>1. IInv => TypeOK
  BY DEF IInv, TypeInv, QueueInv, PoolInv, LedgerInv, Total, Reserved, TypeOK
<1>2. QED
  BY <1>1, Invariance, PTL

\* As long as no permit is given back between another requester's reading of the
\* capacity and its reservation, any number of concurrent downloads of any size
\* leave the headroom free.
THEOREM HeadroomKeptTheorem == Spec => []HeadroomKept
<1>1. IInv => HeadroomKept
  <2>1. SUFFICES ASSUME IInv, ~raced PROVE free >= Headroom
    BY DEF HeadroomKept
  <2>2. free >= Headroom + Total(size, Planned)
    BY <2>1 DEF IInv, SpaceInv
  <2>3. Total(size, Planned) \in Nat /\ free \in Nat /\ Headroom \in Nat
    BY <2>1, SumTypes, BytesFinite DEF IInv, TypeInv
  <2>4. QED
    BY <2>2, <2>3
<1>2. QED
  BY <1>1, Invariance, PTL
==============================================================================
