---------------------------- MODULE OffersProofs ----------------------------
(***************************************************************************)
(* The tables, the announcements and the eligibility of Offers, for any    *)
(* set of devices and any number of offers, restarts and announcements.    *)
(***************************************************************************)
EXTENDS Offers, TLAPS, FiniteSetTheorems

-----------------------------------------------------------------------------
(* The inductive invariant.                                                *)

\* How far an offer is decides what may exist of it.
StageInv ==
  \A o \in Offer :
    /\ stage[o] = "new" => origin[o] = None /\ plan[o] = {}
    /\ stage[o] # "new" => origin[o] \in Device /\ plan[o] # {}
    /\ stage[o] \in {"new", "planning"} =>
         /\ o \notin persisted
         /\ announcedTo[o] = {} /\ refused[o] = {}
         /\ \A d \in Device : sources[d][o] = 0
    /\ stage[o] \in {"stored", "announcing"} => o \in persisted

\* An announcement is made for a stored offer and to a planned recipient.
AnnounceInv ==
  /\ \A o \in Offer, e \in Device :
       /\ outcome[o][e] # "none" =>
            stage[o] = "announcing" /\ e \in plan[o]
       /\ cards[e][o] # 0 => stage[o] = "announcing" /\ e \in plan[o]
  /\ \A o \in Offer, e \in Device :
       <<o, e>> \in inbox => stage[o] = "announcing" /\ e \in plan[o]

\* What is acknowledged, reported stored or on a shelf was received; what still
\* waits in a handler or is still to be sent was not.
Receipt(o, e) ==
  /\ <<o, e>> \in acks => o \in received[e] /\ outcome[o][e] = "sending"
  /\ outcome[o][e] = "Stored" => o \in received[e]
  /\ cards[e][o] # 0 => o \in received[e]
  /\ <<o, e>> \in inbox => o \notin received[e]
  /\ outcome[o][e] \in {"none", "Pending"} => o \notin received[e]
  /\ outcome[o][e] \in {"none", "Pending"} => <<o, e>> \notin inbox

ReceiptInv == \A o \in Offer, e \in Device : Receipt(o, e)

\* A source row holds the planned recipients that were not refused, and the
\* recipients are in the row or nowhere.
EligibleInv ==
  \A o \in Offer :
    /\ \A d \in Device : sources[d][o] # 0 =>
         /\ origin[o] = d
         /\ announcedTo[o] # {}
         /\ announcedTo[o] = plan[o] \ refused[o]
    /\ announcedTo[o] # {} =>
         origin[o] \in Device /\ sources[origin[o]][o] # 0

\* The sequence numbers of a table tell its rows apart.
Injective(table) == \A j, k \in Rows(table) : table[j] = table[k] => j = k

OrderInv == \A d \in Device : Injective(sources[d]) /\ Injective(cards[d])

IInv == TypeOK /\ StageInv /\ AnnounceInv /\ ReceiptInv /\ EligibleInv /\ OrderInv

-----------------------------------------------------------------------------
(* The tables.                                                             *)

\* k is inserted in place of old: the rows kept keep their numbers, k comes
\* after all of them, and what was purged came before them.
TableInsert(table, new, k, old) ==
  /\ table[k] = 0
  /\ old \subseteq Rows(table)
  /\ IsPurged(old, table)
  /\ new \in [Offer -> Nat]
  /\ new[k] # 0
  /\ \A j \in Offer : j # k => new[j] = IF j \in old THEN 0 ELSE table[j]
  /\ Rows(new) = (Rows(table) \ old) \cup {k}
  /\ Injective(new)
  /\ Earlier(new) = (Earlier(table) \cap ((Rows(table) \ old) \X (Rows(table) \ old)))
                      \cup ((Rows(table) \ old) \X {k})
  /\ \A i \in old, j \in Rows(table) \ old : <<i, j>> \in Earlier(table)

\* Purging and numbering does that.
LEMMA InsertRow ==
  ASSUME NEW table \in [Offer -> Nat], NEW o \in Offer, table[o] = 0,
         Injective(table),
         NEW old \in SUBSET Rows(table), IsPurged(old, table),
         NEW maximum \in Nat, IsMaximum(maximum, Without(table, old))
  PROVE  /\ Inserted(table, old, maximum, o) \in [Offer -> Nat]
         /\ TableInsert(table, Inserted(table, old, maximum, o), o, old)
<1> DEFINE new  == Inserted(table, old, maximum, o)
           kept == Rows(table) \ old
<1> DEFINE left == Without(table, old)
<1>1. left \in [Offer -> Nat] /\ \A k \in Offer : left[k] = IF k \in old THEN 0 ELSE table[k]
  BY DEF Without
<1>2. \A k \in Offer : left[k] <= maximum
  BY DEF IsMaximum
<1>3. new = [left EXCEPT ![o] = maximum + 1]
  BY DEF Inserted
<1> SUFFICES new \in [Offer -> Nat] /\ TableInsert(table, new, o, old)
  OBVIOUS
<1> HIDE DEF left, new
<1>4. /\ new \in [Offer -> Nat]
      /\ new[o] = maximum + 1
      /\ \A k \in Offer : k # o => new[k] = left[k]
  BY <1>1, <1>3
<1>5. o \notin Rows(table) /\ o \notin kept
  BY DEF Rows
<1>6. \A k \in Offer : k \in kept <=> k # o /\ new[k] # 0
  BY <1>1, <1>4, <1>5 DEF Rows
<1>7. \A k \in kept : k \in Offer /\ k # o /\ new[k] = table[k] /\ new[k] < new[o]
  BY <1>1, <1>2, <1>4, <1>5 DEF Rows
<1>8. Rows(new) = kept \cup {o}
  BY <1>4, <1>6, <1>7 DEF Rows
<1>9. Injective(new)
  <2> SUFFICES ASSUME NEW j \in Rows(new), NEW k \in Rows(new), new[j] = new[k]
               PROVE  j = k
    BY DEF Injective
  <2>1. CASE j \in kept /\ k \in kept
    BY <2>1, <1>7 DEF Injective
  <2>2. CASE j = o \/ k = o
    BY <2>2, <1>1, <1>4, <1>7, <1>8
  <2> QED BY <2>1, <2>2, <1>8
<1>10. Earlier(new) = (Earlier(table) \cap (kept \X kept)) \cup (kept \X {o})
  <2>1. ASSUME NEW p \in Earlier(new)
        PROVE  p \in (Earlier(table) \cap (kept \X kept)) \cup (kept \X {o})
    <3>1. /\ p = <<p[1], p[2]>>
          /\ p[1] \in Rows(new) /\ p[2] \in Rows(new)
          /\ new[p[1]] < new[p[2]]
      BY <2>1 DEF Earlier
    <3>2. p[1] \in kept
      BY <3>1, <1>4, <1>7, <1>8
    <3>3. CASE p[2] = o
      BY <3>1, <3>2, <3>3
    <3>4. CASE p[2] \in kept
      <4>1. table[p[1]] < table[p[2]]
        BY <3>1, <3>2, <3>4, <1>7
      <4> QED BY <3>1, <3>2, <3>4, <4>1 DEF Earlier
    <3> QED BY <3>1, <3>3, <3>4, <1>8
  <2>2. ASSUME NEW p \in Earlier(table) \cap (kept \X kept)
        PROVE  p \in Earlier(new)
    BY <2>2, <1>7, <1>8 DEF Earlier
  <2>3. ASSUME NEW p \in kept \X {o}
        PROVE  p \in Earlier(new)
    BY <2>3, <1>7, <1>8 DEF Earlier
  <2> QED BY <2>1, <2>2, <2>3
<1>11. ASSUME NEW j \in old, NEW k \in kept
       PROVE  <<j, k>> \in Earlier(table)
  <2>1. j \in Rows(table) /\ k \in Rows(table) /\ j # k
    OBVIOUS
  <2>2. table[j] <= table[k] /\ table[j] \in Nat /\ table[k] \in Nat
    BY <2>1 DEF IsPurged, Rows
  <2>3. table[j] # table[k]
    BY <2>1 DEF Injective
  <2> QED BY <2>1, <2>2, <2>3 DEF Earlier
<1> QED BY <1>1, <1>4, <1>8, <1>9, <1>10, <1>11 DEF TableInsert

\* Taking a row out leaves the others in their order.
LEMMA RemoveRow ==
  ASSUME NEW table \in [Offer -> Nat], NEW o \in Offer, Injective(table)
  PROVE  /\ [table EXCEPT ![o] = 0] \in [Offer -> Nat]
         /\ Rows([table EXCEPT ![o] = 0]) = Rows(table) \ {o}
         /\ Injective([table EXCEPT ![o] = 0])
         /\ Earlier([table EXCEPT ![o] = 0]) =
              Earlier(table) \cap ((Rows(table) \ {o}) \X (Rows(table) \ {o}))
<1> DEFINE new  == [table EXCEPT ![o] = 0]
           kept == Rows(table) \ {o}
<1>1. /\ new \in [Offer -> Nat] /\ new[o] = 0
      /\ \A k \in Offer : k # o => new[k] = table[k]
  OBVIOUS
<1> HIDE DEF new
<1>2. Rows(new) = kept
  BY <1>1 DEF Rows
<1>3. \A k \in kept : k \in Offer /\ k \in Rows(table) /\ new[k] = table[k]
  BY <1>1 DEF Rows
<1>4. Injective(new)
  BY <1>2, <1>3 DEF Injective
<1>5. Earlier(new) = Earlier(table) \cap (kept \X kept)
  BY <1>2, <1>3 DEF Earlier
<1> QED BY <1>1, <1>2, <1>4, <1>5 DEF new

\* A purge makes room: whatever the table held, one more row is within the
\* bound.
LEMMA InsertCount ==
  ASSUME IsFiniteSet(Offer), NEW table, NEW o \in Offer, o \notin Rows(table),
         NEW old \in SUBSET Rows(table), IsPurged(old, table)
  PROVE  Cardinality((Rows(table) \ old) \cup {o}) <= MaxLive
<1> DEFINE R == Rows(table)
<1>1. IsFiniteSet(R) /\ IsFiniteSet(old) /\ IsFiniteSet(R \ old)
  BY FS_Subset DEF Rows
<1>2. Cardinality(R) \in Nat /\ Cardinality(old) \in Nat
  BY <1>1, FS_CardinalityType
<1>3. Cardinality(R \ old) = Cardinality(R) - Cardinality(old)
  <2>1. R \cap old = old
    OBVIOUS
  <2>2. Cardinality(R \ old) = Cardinality(R) - Cardinality(R \cap old)
    BY <1>1, FS_Difference
  <2> QED BY <2>1, <2>2
<1>4. Cardinality((R \ old) \cup {o}) = Cardinality(R \ old) + 1
  BY <1>1, FS_AddElement
<1>5. Cardinality(old) = Target(table)
  BY DEF IsPurged
<1> QED BY <1>2, <1>3, <1>4, <1>5, OffersAssumption DEF Target

\* insert_offer_source inserts into the table of the origin.
LEMMA StoreEffect ==
  ASSUME IInv, NEW o \in Offer, StoreSource(o)
  PROVE  /\ origin[o] \in Device
         /\ \E old \in SUBSET Rows(sources[origin[o]]), new \in [Offer -> Nat] :
              /\ TableInsert(sources[origin[o]], new, o, old)
              /\ sources' = [sources EXCEPT ![origin[o]] = new]
              /\ announcedTo' = [p \in Offer |-> IF p = o THEN plan[o]
                                   ELSE IF p \in old THEN {} ELSE announcedTo[p]]
<1> DEFINE d == origin[o]
<1>1. d \in Device /\ sources[d] \in [Offer -> Nat] /\ sources[d][o] = 0
  BY DEF IInv, TypeOK, StageInv, StoreSource
<1>2. Injective(sources[d])
  BY <1>1 DEF IInv, OrderInv
<1>3. PICK old \in SUBSET Rows(sources[d]) :
        /\ IsPurged(old, sources[d])
        /\ \E maximum \in Candidates(sources[d], old) :
             /\ IsMaximum(maximum, Without(sources[d], old))
             /\ sources' = [sources EXCEPT
                              ![d] = Inserted(sources[d], old, maximum, o)]
        /\ announcedTo' = [p \in Offer |->
             IF p = o THEN plan[o] ELSE IF p \in old THEN {} ELSE announcedTo[p]]
  BY DEF StoreSource
<1>4. PICK maximum \in Candidates(sources[d], old) :
        /\ IsMaximum(maximum, Without(sources[d], old))
        /\ sources' = [sources EXCEPT ![d] = Inserted(sources[d], old, maximum, o)]
  BY <1>3
<1>5. maximum \in Nat
  BY <1>1, <1>4 DEF Candidates, Without
<1> DEFINE new == Inserted(sources[d], old, maximum, o)
<1>6. new \in [Offer -> Nat] /\ TableInsert(sources[d], new, o, old)
  BY <1>1, <1>2, <1>3, <1>4, <1>5, InsertRow
<1> QED BY <1>1, <1>3, <1>4, <1>6

\* insert_offer_card inserts into the table of the receiver.
LEMMA ReceiveEffect ==
  ASSUME IInv, NEW o \in Offer, NEW e \in Device, ReceiveNew(o, e)
  PROVE  \E old \in SUBSET Rows(cards[e]), new \in [Offer -> Nat] :
           /\ TableInsert(cards[e], new, o, old)
           /\ cards' = [cards EXCEPT ![e] = new]
<1>1. cards[e] \in [Offer -> Nat] /\ cards[e][o] = 0
  BY DEF IInv, TypeOK, ReceiveNew
<1>2. Injective(cards[e])
  BY DEF IInv, OrderInv
<1>3. PICK old \in SUBSET Rows(cards[e]) :
        /\ IsPurged(old, cards[e])
        /\ \E maximum \in Candidates(cards[e], old) :
             /\ IsMaximum(maximum, Without(cards[e], old))
             /\ cards' = [cards EXCEPT ![e] = Inserted(cards[e], old, maximum, o)]
  BY DEF ReceiveNew
<1>4. PICK maximum \in Candidates(cards[e], old) :
        /\ IsMaximum(maximum, Without(cards[e], old))
        /\ cards' = [cards EXCEPT ![e] = Inserted(cards[e], old, maximum, o)]
  BY <1>3
<1>5. maximum \in Nat
  BY <1>1, <1>4 DEF Candidates, Without
<1> DEFINE new == Inserted(cards[e], old, maximum, o)
<1>6. new \in [Offer -> Nat] /\ TableInsert(cards[e], new, o, old)
  BY <1>1, <1>2, <1>3, <1>4, <1>5, InsertRow
<1> QED BY <1>4, <1>6

-----------------------------------------------------------------------------
(* The invariant holds initially and is kept by every step.                *)

\* Nothing exists at first.
LEMMA InitIInv == Init => IInv
<1> SUFFICES ASSUME Init PROVE IInv
  OBVIOUS
<1> USE OffersAssumption DEF Init
<1>1. TypeOK
  BY DEF TypeOK, Stage, Outcome
<1>2. StageInv
  BY DEF StageInv
<1>3. AnnounceInv
  BY DEF AnnounceInv
<1>4. ReceiptInv
  BY DEF ReceiptInv, Receipt
<1>5. EligibleInv
  BY DEF EligibleInv
<1>6. OrderInv
  BY DEF OrderInv, Injective, Rows
<1> QED BY <1>1, <1>2, <1>3, <1>4, <1>5, <1>6 DEF IInv

\* A report is about one announcement.
LEMMA ReportEffect ==
  ASSUME TypeOK, NEW o \in Offer, NEW e \in Device, NEW r, Report(o, e, r)
  PROVE  /\ outcome'[o][e] = r
         /\ \A p \in Offer, f \in Device :
              p # o \/ f # e => outcome'[p][f] = outcome[p][f]
  BY DEF TypeOK, Report

\* Every step keeps the types.
LEMMA TypeStep == IInv /\ [Next]_vars => TypeOK'
<1> SUFFICES ASSUME IInv, [Next]_vars PROVE TypeOK'
  OBVIOUS
<1> USE OffersAssumption DEF IInv, TypeOK, Stage, Outcome
<1>1. ASSUME NEW d \in Device, NEW o \in Offer, LoadPeers(d, o)
      PROVE  TypeOK'
  BY <1>1 DEF LoadPeers, durable, wire, history
<1>2. ASSUME NEW o \in Offer, StoreSource(o)
      PROVE  TypeOK'
  <2>1. PICK old \in SUBSET Rows(sources[origin[o]]), new \in [Offer -> Nat] :
          /\ TableInsert(sources[origin[o]], new, o, old)
          /\ sources' = [sources EXCEPT ![origin[o]] = new]
          /\ announcedTo' = [p \in Offer |-> IF p = o THEN plan[o]
                               ELSE IF p \in old THEN {} ELSE announcedTo[p]]
    BY <1>2, StoreEffect
  <2> QED BY <1>2, <2>1 DEF StoreSource, wire
<1>3. ASSUME NEW o \in Offer, StoreSourceFails(o)
      PROVE  TypeOK'
  BY <1>3 DEF StoreSourceFails, durable, wire, history
<1>4. ASSUME NEW o \in Offer, FanOut(o)
      PROVE  TypeOK'
  BY <1>4 DEF FanOut, durable, wire, history
<1>5. ASSUME NEW o \in Offer, NEW e \in Device, Connect(o, e)
      PROVE  TypeOK'
  BY <1>5 DEF Connect, Report, durable, history
<1>6. ASSUME NEW o \in Offer, NEW e \in Device, GiveUp(o, e)
      PROVE  TypeOK'
  BY <1>6 DEF GiveUp, Report, durable, history
<1>7. ASSUME NEW o \in Offer, NEW e \in Device, ReadAck(o, e)
      PROVE  TypeOK'
  BY <1>7 DEF ReadAck, Report, durable, history
<1>8. ASSUME NEW o \in Offer, FanOutFails(o)
      PROVE  TypeOK'
  BY <1>8 DEF FanOutFails, durable, wire, history
<1>9. ASSUME NEW o \in Offer, NEW e \in Device, RecordExplicitRefusal(o, e)
      PROVE  TypeOK'
  BY <1>9 DEF RecordExplicitRefusal, sending, wire
<1>10. ASSUME NEW o \in Offer, NEW e \in Device,
             ReceiveNew(o, e)
      PROVE  TypeOK'
  <2>1. PICK new \in [Offer -> Nat] : cards' = [cards EXCEPT ![e] = new]
    BY <1>10, ReceiveEffect
  <2> QED BY <1>10, <2>1 DEF ReceiveNew, Acknowledge, sending
<1>12. ASSUME NEW o \in Offer, NEW e \in Device,
             ReceiveFails(o, e)
      PROVE  TypeOK'
  BY <1>12 DEF ReceiveFails, durable, sending, history
<1>13. ASSUME NEW d \in Device, Restart(d)
      PROVE  TypeOK'
  BY <1>13 DEF Restart, Stop, durable, history
<1>14. ASSUME NEW d \in Device, NEW e \in Device, Pair(d, e)
      PROVE  TypeOK'
  BY <1>14 DEF Pair, sending, wire, history
<1>15. ASSUME NEW d \in Device, NEW e \in Device, Reinstall(d, e)
      PROVE  TypeOK'
  BY <1>15 DEF Reinstall, Stop, durable, history
<1>16. CASE UNCHANGED vars
  BY <1>16 DEF vars, durable, sending, wire, history
<1> QED
  BY <1>1, <1>2, <1>3, <1>4, <1>5, <1>6, <1>7, <1>8, <1>9, <1>10,
     <1>12, <1>13, <1>14, <1>15, <1>16 DEF Next, CreateStep, AnnounceStep,
     DeviceStep

\* The stages: an offer is stored once, after its peers were loaded.
LEMMA StageStep == IInv /\ [Next]_vars => StageInv'
<1> SUFFICES ASSUME IInv, [Next]_vars PROVE StageInv'
  OBVIOUS
<1> USE OffersAssumption DEF IInv, TypeOK, StageInv, Stage
<1>1. ASSUME NEW d \in Device, NEW o \in Offer, LoadPeers(d, o)
      PROVE  StageInv'
  BY <1>1 DEF LoadPeers, durable, wire, history
<1>2. ASSUME NEW o \in Offer, StoreSource(o)
      PROVE  StageInv'
  <2>1. PICK old \in SUBSET Rows(sources[origin[o]]), new \in [Offer -> Nat] :
          /\ TableInsert(sources[origin[o]], new, o, old)
          /\ sources' = [sources EXCEPT ![origin[o]] = new]
          /\ announcedTo' = [p \in Offer |-> IF p = o THEN plan[o]
                               ELSE IF p \in old THEN {} ELSE announcedTo[p]]
    BY <1>2, StoreEffect
  <2>2. \A d \in Device, p \in Offer : p # o /\ sources[d][p] = 0 => sources'[d][p] = 0
    BY <2>1 DEF TableInsert
  <2> QED BY <1>2, <2>1, <2>2 DEF StoreSource
<1>3. ASSUME NEW o \in Offer, StoreSourceFails(o)
      PROVE  StageInv'
  BY <1>3 DEF StoreSourceFails, durable, wire, history
<1>4. ASSUME NEW o \in Offer, FanOut(o)
      PROVE  StageInv'
  BY <1>4 DEF FanOut, durable, wire, history
<1>5. ASSUME NEW o \in Offer, NEW e \in Device, Connect(o, e)
      PROVE  StageInv'
  BY <1>5 DEF Connect, Report, durable, history
<1>6. ASSUME NEW o \in Offer, NEW e \in Device, GiveUp(o, e)
      PROVE  StageInv'
  BY <1>6 DEF GiveUp, Report, durable, history
<1>7. ASSUME NEW o \in Offer, NEW e \in Device, ReadAck(o, e)
      PROVE  StageInv'
  BY <1>7 DEF ReadAck, Report, durable, history
<1>8. ASSUME NEW o \in Offer, FanOutFails(o)
      PROVE  StageInv'
  BY <1>8 DEF FanOutFails, durable, wire, history
<1>9. ASSUME NEW o \in Offer, NEW e \in Device, RecordExplicitRefusal(o, e)
      PROVE  StageInv'
  BY <1>9 DEF RecordExplicitRefusal, sending, wire
<1>10. ASSUME NEW o \in Offer, NEW e \in Device,
             ReceiveNew(o, e)
      PROVE  StageInv'
  BY <1>10 DEF ReceiveNew, Acknowledge, sending
<1>12. ASSUME NEW o \in Offer, NEW e \in Device,
             ReceiveFails(o, e)
      PROVE  StageInv'
  BY <1>12 DEF ReceiveFails, durable, sending, history
<1>13. ASSUME NEW d \in Device, Restart(d)
      PROVE  StageInv'
  BY <1>13 DEF Restart, Stop, durable, history
<1>14. ASSUME NEW d \in Device, NEW e \in Device, Pair(d, e)
      PROVE  StageInv'
  BY <1>14 DEF Pair, sending, wire, history
<1>15. ASSUME NEW d \in Device, NEW e \in Device, Reinstall(d, e)
      PROVE  StageInv'
  BY <1>15 DEF Reinstall, Stop, durable, history
<1>16. CASE UNCHANGED vars
  BY <1>16 DEF vars, durable, sending, wire, history
<1> QED
  BY <1>1, <1>2, <1>3, <1>4, <1>5, <1>6, <1>7, <1>8, <1>9, <1>10,
     <1>12, <1>13, <1>14, <1>15, <1>16 DEF Next, CreateStep, AnnounceStep,
     DeviceStep

\* Announcements: whatever is under way or stored belongs to a stored offer.
LEMMA AnnouncementStep == IInv /\ [Next]_vars => AnnounceInv'
<1> SUFFICES ASSUME IInv, [Next]_vars PROVE AnnounceInv'
  OBVIOUS
<1> USE OffersAssumption DEF IInv, TypeOK, StageInv, AnnounceInv
<1>1. ASSUME NEW d \in Device, NEW o \in Offer, LoadPeers(d, o)
      PROVE  AnnounceInv'
  BY <1>1 DEF LoadPeers, durable, wire, history
<1>2. ASSUME NEW o \in Offer, StoreSource(o)
      PROVE  AnnounceInv'
  BY <1>2 DEF StoreSource, wire
<1>3. ASSUME NEW o \in Offer, StoreSourceFails(o)
      PROVE  AnnounceInv'
  BY <1>3 DEF StoreSourceFails, durable, wire, history
<1>4. ASSUME NEW o \in Offer, FanOut(o)
      PROVE  AnnounceInv'
  BY <1>4 DEF FanOut, durable, wire, history
<1>5. ASSUME NEW o \in Offer, NEW e \in Device, Connect(o, e)
      PROVE  AnnounceInv'
  BY <1>5 DEF Connect, Report, durable, history
<1>6. ASSUME NEW o \in Offer, NEW e \in Device, GiveUp(o, e)
      PROVE  AnnounceInv'
  BY <1>6 DEF GiveUp, Report, durable, history
<1>7. ASSUME NEW o \in Offer, NEW e \in Device, ReadAck(o, e)
      PROVE  AnnounceInv'
  BY <1>7 DEF ReadAck, Report, ReceiptInv, Receipt, durable
<1>8. ASSUME NEW o \in Offer, FanOutFails(o)
      PROVE  AnnounceInv'
  BY <1>8 DEF FanOutFails, durable, wire, history
<1>9. ASSUME NEW o \in Offer, NEW e \in Device, RecordExplicitRefusal(o, e)
      PROVE  AnnounceInv'
  BY <1>9 DEF RecordExplicitRefusal, sending, wire
<1>10. ASSUME NEW o \in Offer, NEW e \in Device,
             ReceiveNew(o, e)
      PROVE  AnnounceInv'
  <2>1. PICK old \in SUBSET Rows(cards[e]), new \in [Offer -> Nat] :
          /\ TableInsert(cards[e], new, o, old)
          /\ cards' = [cards EXCEPT ![e] = new]
    BY <1>10, ReceiveEffect
  <2>2. \A f \in Device, p \in Offer :
          cards'[f][p] # 0 => cards[f][p] # 0 \/ (f = e /\ p = o)
    BY <2>1 DEF TableInsert
  <2> QED BY <1>10, <2>2 DEF ReceiveNew, sending
<1>12. ASSUME NEW o \in Offer, NEW e \in Device,
             ReceiveFails(o, e)
      PROVE  AnnounceInv'
  BY <1>12 DEF ReceiveFails, durable, sending, history
<1>13. ASSUME NEW d \in Device, Restart(d)
      PROVE  AnnounceInv'
  BY <1>13 DEF Restart, Stop, durable, history
<1>14. ASSUME NEW d \in Device, NEW e \in Device, Pair(d, e)
      PROVE  AnnounceInv'
  BY <1>14 DEF Pair, sending, wire, history
<1>15. ASSUME NEW d \in Device, NEW e \in Device, Reinstall(d, e)
      PROVE  AnnounceInv'
  BY <1>15 DEF Reinstall, Stop, durable, history
<1>16. CASE UNCHANGED vars
  BY <1>16 DEF vars, durable, sending, wire, history
<1> QED
  BY <1>1, <1>2, <1>3, <1>4, <1>5, <1>6, <1>7, <1>8, <1>9, <1>10,
     <1>12, <1>13, <1>14, <1>15, <1>16 DEF Next, CreateStep, AnnounceStep,
     DeviceStep

\* Receipts: only an announcement that is still waited for is acknowledged.
LEMMA ReceiptStep == IInv /\ [Next]_vars => ReceiptInv'
<1> SUFFICES ASSUME IInv, [Next]_vars PROVE ReceiptInv'
  OBVIOUS
<1> USE OffersAssumption DEF IInv, ReceiptInv, Receipt
<1>1. ASSUME NEW d \in Device, NEW o \in Offer, LoadPeers(d, o)
      PROVE  ReceiptInv'
  BY <1>1 DEF LoadPeers, durable, wire, history
<1>2. ASSUME NEW o \in Offer, StoreSource(o)
      PROVE  ReceiptInv'
  BY <1>2 DEF StoreSource, wire
<1>3. ASSUME NEW o \in Offer, StoreSourceFails(o)
      PROVE  ReceiptInv'
  BY <1>3 DEF StoreSourceFails, durable, wire, history
<1>4. ASSUME NEW o \in Offer, FanOut(o)
      PROVE  ReceiptInv'
  <2>1. \A f \in Device : outcome[o][f] = "none" /\ o \notin received[f]
    BY <1>4 DEF FanOut, AnnounceInv
  <2>2. \A p \in Offer, f \in Device :
          outcome'[p][f] = outcome[p][f] \/ (p = o /\ outcome'[p][f] # "Stored")
    BY <1>4 DEF FanOut, TypeOK
  <2>3. cards' = cards /\ received' = received /\ acks' = acks /\ inbox' = inbox
    BY <1>4 DEF FanOut, durable, wire, history
  <2>4. ASSUME NEW p \in Offer, NEW f \in Device PROVE Receipt(p, f)'
    <3>1. Receipt(p, f)
      BY DEF ReceiptInv
    <3>2. CASE p = o
      BY <2>1, <2>2, <2>3, <3>1, <3>2
    <3>3. CASE p # o
      BY <2>2, <2>3, <3>1, <3>3
    <3> QED BY <3>2, <3>3
  <2> QED BY <2>4
<1>5. ASSUME NEW o \in Offer, NEW e \in Device, Connect(o, e)
      PROVE  ReceiptInv'
  <2>1. /\ outcome'[o][e] = "sending"
        /\ \A p \in Offer, f \in Device :
             p # o \/ f # e => outcome'[p][f] = outcome[p][f]
    BY <1>5, ReportEffect DEF Connect
  <2>2. /\ cards' = cards /\ received' = received /\ acks' = acks
        /\ outcome[o][e] = "Pending" /\ inbox' = inbox \cup {<<o, e>>}
    BY <1>5 DEF Connect, Report, durable, history
  <2>3. ASSUME NEW p \in Offer, NEW f \in Device PROVE Receipt(p, f)'
    <3>1. Receipt(p, f) /\ Receipt(o, e)
      BY DEF ReceiptInv
    <3>2. CASE p = o /\ f = e
      BY <2>1, <2>2, <3>1, <3>2
    <3>3. CASE p # o \/ f # e
      BY <2>1, <2>2, <3>1, <3>3
    <3> QED BY <3>2, <3>3
  <2> QED BY <2>3
<1>6. ASSUME NEW o \in Offer, NEW e \in Device, GiveUp(o, e)
      PROVE  ReceiptInv'
  <2>1. /\ outcome'[o][e] = "Unavailable"
        /\ \A p \in Offer, f \in Device :
             p # o \/ f # e => outcome'[p][f] = outcome[p][f]
    BY <1>6, ReportEffect DEF GiveUp
  <2>2. /\ cards' = cards /\ received' = received /\ acks' = acks \ {<<o, e>>}
        /\ inbox' = inbox
    BY <1>6 DEF GiveUp, Report, durable, history
  <2>3. ASSUME NEW p \in Offer, NEW f \in Device PROVE Receipt(p, f)'
    <3>1. Receipt(p, f) /\ Receipt(o, e)
      BY DEF ReceiptInv
    <3>2. CASE p = o /\ f = e
      BY <2>1, <2>2, <3>1, <3>2
    <3>3. CASE p # o \/ f # e
      BY <2>1, <2>2, <3>1, <3>3
    <3> QED BY <3>2, <3>3
  <2> QED BY <2>3
<1>7. ASSUME NEW o \in Offer, NEW e \in Device, ReadAck(o, e)
      PROVE  ReceiptInv'
  <2>1. /\ outcome'[o][e] = "Stored"
        /\ \A p \in Offer, f \in Device :
             p # o \/ f # e => outcome'[p][f] = outcome[p][f]
    BY <1>7, ReportEffect DEF ReadAck
  <2>2. /\ cards' = cards /\ received' = received /\ <<o, e>> \in acks
        /\ acks' = acks \ {<<o, e>>} /\ inbox' = inbox
    BY <1>7 DEF ReadAck, Report, durable, history
  <2>3. ASSUME NEW p \in Offer, NEW f \in Device PROVE Receipt(p, f)'
    <3>1. Receipt(p, f) /\ Receipt(o, e)
      BY DEF ReceiptInv
    <3>2. CASE p = o /\ f = e
      BY <2>1, <2>2, <3>1, <3>2
    <3>3. CASE p # o \/ f # e
      BY <2>1, <2>2, <3>1, <3>3
    <3> QED BY <3>2, <3>3
  <2> QED BY <2>3
<1>8. ASSUME NEW o \in Offer, FanOutFails(o)
      PROVE  ReceiptInv'
  BY <1>8 DEF FanOutFails, durable, wire, history
<1>9. ASSUME NEW o \in Offer, NEW e \in Device, RecordExplicitRefusal(o, e)
      PROVE  ReceiptInv'
  BY <1>9 DEF RecordExplicitRefusal, sending, wire
<1>10. ASSUME NEW o \in Offer, NEW e \in Device,
             ReceiveNew(o, e)
      PROVE  ReceiptInv'
  <2>1. PICK old \in SUBSET Rows(cards[e]), new \in [Offer -> Nat] :
          /\ TableInsert(cards[e], new, o, old)
          /\ cards' = [cards EXCEPT ![e] = new]
    BY <1>10, ReceiveEffect
  <2>2. \A f \in Device, p \in Offer :
          cards'[f][p] # 0 => cards[f][p] # 0 \/ (f = e /\ p = o)
    BY <2>1 DEF TableInsert, TypeOK
  <2>3. \A f \in Device, p \in Offer :
          p \in received'[f] <=> p \in received[f] \/ (f = e /\ p = o)
    BY <1>10 DEF ReceiveNew, TypeOK
  <2> QED BY <1>10, <2>2, <2>3 DEF ReceiveNew, Acknowledge, sending
<1>12. ASSUME NEW o \in Offer, NEW e \in Device,
             ReceiveFails(o, e)
      PROVE  ReceiptInv'
  BY <1>12 DEF ReceiveFails, durable, sending, history
<1>13. ASSUME NEW d \in Device, Restart(d)
      PROVE  ReceiptInv'
  BY <1>13 DEF Restart, Stop, TypeOK, durable, history
<1>14. ASSUME NEW d \in Device, NEW e \in Device, Pair(d, e)
      PROVE  ReceiptInv'
  BY <1>14 DEF Pair, sending, wire, history
<1>15. ASSUME NEW d \in Device, NEW e \in Device, Reinstall(d, e)
      PROVE  ReceiptInv'
  BY <1>15 DEF Reinstall, Stop, TypeOK, durable, history
<1>16. CASE UNCHANGED vars
  BY <1>16 DEF vars, durable, sending, wire, history
<1> QED
  BY <1>1, <1>2, <1>3, <1>4, <1>5, <1>6, <1>7, <1>8, <1>9, <1>10,
     <1>12, <1>13, <1>14, <1>15, <1>16 DEF Next, CreateStep, AnnounceStep,
     DeviceStep

\* Eligibility: it changes with its row, and by refusals only.
LEMMA EligibleStep == IInv /\ [Next]_vars => EligibleInv'
<1> SUFFICES ASSUME IInv, [Next]_vars PROVE EligibleInv'
  OBVIOUS
<1> USE OffersAssumption DEF IInv, TypeOK, StageInv, EligibleInv
<1>1. ASSUME NEW d \in Device, NEW o \in Offer, LoadPeers(d, o)
      PROVE  EligibleInv'
  BY <1>1 DEF LoadPeers, durable, wire, history
<1>2. ASSUME NEW o \in Offer, StoreSource(o)
      PROVE  EligibleInv'
  <2>1. PICK old \in SUBSET Rows(sources[origin[o]]), new \in [Offer -> Nat] :
          /\ TableInsert(sources[origin[o]], new, o, old)
          /\ sources' = [sources EXCEPT ![origin[o]] = new]
          /\ announcedTo' = [p \in Offer |-> IF p = o THEN plan[o]
                               ELSE IF p \in old THEN {} ELSE announcedTo[p]]
    BY <1>2, StoreEffect
  <2>2. /\ origin[o] \in Device /\ origin' = origin /\ plan' = plan /\ refused' = refused
        /\ refused[o] = {} /\ plan[o] # {} /\ \A d \in Device : sources[d][o] = 0
    BY <1>2 DEF StoreSource
  <2>3. /\ sources'[origin[o]][o] # 0
        /\ \A d \in Device, p \in Offer :
             p # o => sources'[d][p] =
               IF d = origin[o] /\ p \in old THEN 0 ELSE sources[d][p]
        /\ \A d \in Device : d # origin[o] => sources'[d][o] = 0
    BY <2>1, <2>2 DEF TableInsert
  <2>4. \A p \in old : p \in Offer /\ p # o /\ origin[p] = origin[o]
    BY <2>1, <2>2 DEF TableInsert, Rows
  <2> QED BY <2>1, <2>2, <2>3, <2>4
<1>3. ASSUME NEW o \in Offer, StoreSourceFails(o)
      PROVE  EligibleInv'
  BY <1>3 DEF StoreSourceFails, durable, wire, history
<1>4. ASSUME NEW o \in Offer, FanOut(o)
      PROVE  EligibleInv'
  BY <1>4 DEF FanOut, durable, wire, history
<1>5. ASSUME NEW o \in Offer, NEW e \in Device, Connect(o, e)
      PROVE  EligibleInv'
  BY <1>5 DEF Connect, Report, durable, history
<1>6. ASSUME NEW o \in Offer, NEW e \in Device, GiveUp(o, e)
      PROVE  EligibleInv'
  BY <1>6 DEF GiveUp, Report, durable, history
<1>7. ASSUME NEW o \in Offer, NEW e \in Device, ReadAck(o, e)
      PROVE  EligibleInv'
  BY <1>7 DEF ReadAck, Report, durable, history
<1>8. ASSUME NEW o \in Offer, FanOutFails(o)
      PROVE  EligibleInv'
  BY <1>8 DEF FanOutFails, durable, wire, history
<1>9. ASSUME NEW o \in Offer, NEW e \in Device, RecordExplicitRefusal(o, e)
      PROVE  EligibleInv'
  BY <1>9 DEF RecordExplicitRefusal, sending, wire
<1>10. ASSUME NEW o \in Offer, NEW e \in Device,
             ReceiveNew(o, e)
      PROVE  EligibleInv'
  BY <1>10 DEF ReceiveNew, Acknowledge, sending
<1>12. ASSUME NEW o \in Offer, NEW e \in Device,
             ReceiveFails(o, e)
      PROVE  EligibleInv'
  BY <1>12 DEF ReceiveFails, durable, sending, history
<1>13. ASSUME NEW d \in Device, Restart(d)
      PROVE  EligibleInv'
  BY <1>13 DEF Restart, Stop, durable, history
<1>14. ASSUME NEW d \in Device, NEW e \in Device, Pair(d, e)
      PROVE  EligibleInv'
  BY <1>14 DEF Pair, sending, wire, history
<1>15. ASSUME NEW d \in Device, NEW e \in Device, Reinstall(d, e)
      PROVE  EligibleInv'
  BY <1>15 DEF Reinstall, Stop, durable, history
<1>16. CASE UNCHANGED vars
  BY <1>16 DEF vars, durable, sending, wire, history
<1> QED
  BY <1>1, <1>2, <1>3, <1>4, <1>5, <1>6, <1>7, <1>8, <1>9, <1>10,
     <1>12, <1>13, <1>14, <1>15, <1>16 DEF Next, CreateStep, AnnounceStep,
     DeviceStep

\* Order: a new number is larger than all that are left.
LEMMA OrderStep == IInv /\ [Next]_vars => OrderInv'
<1> SUFFICES ASSUME IInv, [Next]_vars PROVE OrderInv'
  OBVIOUS
<1> USE OffersAssumption DEF IInv, TypeOK, OrderInv
<1>1. ASSUME NEW d \in Device, NEW o \in Offer, LoadPeers(d, o)
      PROVE  OrderInv'
  BY <1>1 DEF LoadPeers, durable, wire, history
<1>2. ASSUME NEW o \in Offer, StoreSource(o)
      PROVE  OrderInv'
  <2>1. PICK old \in SUBSET Rows(sources[origin[o]]), new \in [Offer -> Nat] :
          /\ TableInsert(sources[origin[o]], new, o, old)
          /\ sources' = [sources EXCEPT ![origin[o]] = new]
    BY <1>2, StoreEffect
  <2>2. \A d \in Device : sources'[d] = sources[d] \/ sources'[d] = new
    BY <2>1
  <2> QED BY <1>2, <2>1, <2>2 DEF StoreSource, TableInsert
<1>3. ASSUME NEW o \in Offer, StoreSourceFails(o)
      PROVE  OrderInv'
  BY <1>3 DEF StoreSourceFails, durable, wire, history
<1>4. ASSUME NEW o \in Offer, FanOut(o)
      PROVE  OrderInv'
  BY <1>4 DEF FanOut, durable, wire, history
<1>5. ASSUME NEW o \in Offer, NEW e \in Device, Connect(o, e)
      PROVE  OrderInv'
  BY <1>5 DEF Connect, Report, durable, history
<1>6. ASSUME NEW o \in Offer, NEW e \in Device, GiveUp(o, e)
      PROVE  OrderInv'
  BY <1>6 DEF GiveUp, Report, durable, history
<1>7. ASSUME NEW o \in Offer, NEW e \in Device, ReadAck(o, e)
      PROVE  OrderInv'
  BY <1>7 DEF ReadAck, Report, durable, history
<1>8. ASSUME NEW o \in Offer, FanOutFails(o)
      PROVE  OrderInv'
  BY <1>8 DEF FanOutFails, durable, wire, history
<1>9. ASSUME NEW o \in Offer, NEW e \in Device, RecordExplicitRefusal(o, e)
      PROVE  OrderInv'
  <2>1. \A d \in Device : sources'[d] = sources[d]
                         \/ sources'[d] = [sources[d] EXCEPT ![o] = 0]
    BY <1>9 DEF RecordExplicitRefusal
  <2>2. \A d \in Device : sources[d] \in [Offer -> Nat] /\ Injective(sources[d])
    OBVIOUS
  <2>3. \A d \in Device : Injective([sources[d] EXCEPT ![o] = 0])
    BY <2>2, RemoveRow
  <2> QED BY <1>9, <2>1, <2>2, <2>3 DEF RecordExplicitRefusal
<1>10. ASSUME NEW o \in Offer, NEW e \in Device,
             ReceiveNew(o, e)
      PROVE  OrderInv'
  <2>1. PICK old \in SUBSET Rows(cards[e]), new \in [Offer -> Nat] :
          /\ TableInsert(cards[e], new, o, old)
          /\ cards' = [cards EXCEPT ![e] = new]
    BY <1>10, ReceiveEffect
  <2>2. \A d \in Device : cards'[d] = cards[d] \/ cards'[d] = new
    BY <2>1
  <2> QED BY <1>10, <2>1, <2>2 DEF ReceiveNew, TableInsert
<1>12. ASSUME NEW o \in Offer, NEW e \in Device,
             ReceiveFails(o, e)
      PROVE  OrderInv'
  BY <1>12 DEF ReceiveFails, durable, sending, history
<1>13. ASSUME NEW d \in Device, Restart(d)
      PROVE  OrderInv'
  BY <1>13 DEF Restart, Stop, durable, history
<1>14. ASSUME NEW d \in Device, NEW e \in Device, Pair(d, e)
      PROVE  OrderInv'
  BY <1>14 DEF Pair, sending, wire, history
<1>15. ASSUME NEW d \in Device, NEW e \in Device, Reinstall(d, e)
      PROVE  OrderInv'
  BY <1>15 DEF Reinstall, Stop, durable, history
<1>16. CASE UNCHANGED vars
  BY <1>16 DEF vars, durable, sending, wire, history
<1> QED
  BY <1>1, <1>2, <1>3, <1>4, <1>5, <1>6, <1>7, <1>8, <1>9, <1>10,
     <1>12, <1>13, <1>14, <1>15, <1>16 DEF Next, CreateStep, AnnounceStep,
     DeviceStep


-----------------------------------------------------------------------------
(* Theorems.                                                               *)

\* The inductive invariant of offers and announcements.
THEOREM OffersInvariance == Spec => []IInv
<1>1. IInv /\ [Next]_vars => IInv'
  BY TypeStep, StageStep, AnnouncementStep, ReceiptStep, EligibleStep, OrderStep
  DEF IInv
<1> QED BY InitIInv, <1>1, PTL DEF Spec

\* Tables, messages and reports keep their types.
THEOREM OffersTypeCorrect == Spec => []TypeOK
<1>1. IInv => TypeOK
  BY DEF IInv
<1> QED BY OffersInvariance, <1>1, PTL

\* Whatever crashes, no card, announcement or acknowledgement exists of an
\* offer whose source was not committed before.
THEOREM SourceComesFirst == Spec => []SourceBeforeCard
<1>1. IInv => SourceBeforeCard
  <2> SUFFICES ASSUME IInv PROVE SourceBeforeCard
    OBVIOUS
  <2> USE DEF IInv, TypeOK
  <2>1. \A o \in Offer : stage[o] = "announcing" => o \in persisted
    BY DEF StageInv
  <2>2. \A e \in Device : Rows(cards[e]) \subseteq persisted
    BY <2>1 DEF AnnounceInv, Rows
  <2>3. ASSUME NEW m \in inbox PROVE m[1] \in persisted
    <3>1. PICK o \in Offer, e \in Device:
            m = <<o, e>>
      OBVIOUS
    <3>2. stage[o] = "announcing"
      BY <3>1 DEF AnnounceInv
    <3> QED BY <2>1, <3>1, <3>2
  <2>4. ASSUME NEW m \in acks PROVE m[1] \in persisted
    <3>1. PICK o \in Offer, e \in Device : m = <<o, e>>
      OBVIOUS
    <3>2. outcome[o][e] = "sending"
      BY <3>1 DEF ReceiptInv, Receipt
    <3>3. stage[o] = "announcing"
      BY <3>2 DEF AnnounceInv
    <3> QED BY <2>1, <3>1, <3>3
  <2> QED BY <2>2, <2>3, <2>4 DEF SourceBeforeCard
<1> QED BY OffersInvariance, <1>1, PTL

\* While a source row lives, exactly the recipients that were not refused may
\* fetch, whatever was lost, repeated or restarted.
THEOREM EligibilityIsExact == Spec => []EligibleUntilRefused
<1>1. IInv => EligibleUntilRefused
  BY OffersAssumption
  DEF IInv, TypeOK, EligibleInv, AnnounceInv, EligibleUntilRefused, FetchAuthorised
<1> QED BY OffersInvariance, <1>1, PTL

\* A peer reported as Stored did store the card.
THEOREM ReportsAreTrue == Spec => []StoredMeansReceived
<1>1. IInv => StoredMeansReceived
  BY DEF IInv, ReceiptInv, Receipt, StoredMeansReceived
<1> QED BY OffersInvariance, <1>1, PTL

-----------------------------------------------------------------------------
(* The tables implement RecentRows.                                        *)

\* The initial tables are empty.
LEMMA InitTables == Init => Shelf!Init /\ Origin!Init
  BY DEF Init, Shelf!Init, Origin!Init, CardLive, CardBefore, SourceLive,
         SourceBefore, Rows, Earlier

\* A table that changes by TableInsert changes as RecentRows says.
LEMMA InsertRefines ==
  ASSUME NEW table, NEW new, NEW k \in Offer, NEW old, TableInsert(table, new, k, old)
  PROVE  /\ k \notin Rows(table)
         /\ old \in SUBSET Rows(table)
         /\ Shelf!AreOldest(old, Rows(table), Earlier(table))
         /\ Origin!AreOldest(old, Rows(table), Earlier(table))
<1>1. k \notin Rows(table)
  BY DEF TableInsert, Rows
<1>2. /\ old \subseteq Rows(table)
      /\ Cardinality(old) = Target(table)
      /\ \A i \in old, j \in Rows(table) \ old : <<i, j>> \in Earlier(table)
  BY DEF TableInsert, IsPurged
<1>3. Shelf!Excess(Rows(table)) = Target(table)
  BY DEF Shelf!Excess, Target
<1>4. Origin!Excess(Rows(table)) = Target(table)
  BY DEF Origin!Excess, Target
<1> QED BY <1>1, <1>2, <1>3, <1>4 DEF Shelf!AreOldest, Origin!AreOldest

\* A card is inserted where RecentRows inserts a key.
LEMMA ReceiveRefines ==
  ASSUME IInv, NEW o \in Offer, NEW e \in Device, ReceiveNew(o, e)
  PROVE  Shelf!Insert(e, o)
<1>1. PICK old \in SUBSET Rows(cards[e]), new \in [Offer -> Nat] :
        /\ TableInsert(cards[e], new, o, old)
        /\ cards' = [cards EXCEPT ![e] = new]
  BY ReceiveEffect
<1> DEFINE kept == Rows(cards[e]) \ old
<1>2. /\ o \notin Rows(cards[e])
      /\ Shelf!AreOldest(old, Rows(cards[e]), Earlier(cards[e]))
  BY <1>1, InsertRefines
<1>3. /\ Rows(new) = kept \cup {o}
      /\ Earlier(new) = (Earlier(cards[e]) \cap (kept \X kept)) \cup (kept \X {o})
  BY <1>1 DEF TableInsert
<1>4. /\ CardLive[e] = Rows(cards[e]) /\ CardBefore[e] = Earlier(cards[e])
      /\ cards'[e] = new /\ \A d \in Device : d # e => cards'[d] = cards[d]
  BY <1>1 DEF CardLive, CardBefore, IInv, TypeOK
<1>5. CardLive' = [CardLive EXCEPT ![e] = kept \cup {o}]
  BY <1>3, <1>4 DEF CardLive
<1>6. CardBefore' = [CardBefore EXCEPT
        ![e] = (CardBefore[e] \cap (kept \X kept)) \cup (kept \X {o})]
  BY <1>3, <1>4 DEF CardBefore
<1> QED BY <1>2, <1>4, <1>5, <1>6 DEF Shelf!Insert

\* A source is inserted where RecentRows inserts a key.
LEMMA StoreRefines ==
  ASSUME IInv, NEW o \in Offer, StoreSource(o)
  PROVE  origin[o] \in Device /\ Origin!Insert(origin[o], o)
<1> DEFINE d == origin[o]
<1>1. d \in Device
  BY StoreEffect
<1>2. PICK old \in SUBSET Rows(sources[d]), new \in [Offer -> Nat] :
        /\ TableInsert(sources[d], new, o, old)
        /\ sources' = [sources EXCEPT ![d] = new]
  BY StoreEffect
<1> DEFINE kept == Rows(sources[d]) \ old
<1>3. /\ o \notin Rows(sources[d])
      /\ Origin!AreOldest(old, Rows(sources[d]), Earlier(sources[d]))
  BY <1>2, InsertRefines
<1>4. /\ Rows(new) = kept \cup {o}
      /\ Earlier(new) = (Earlier(sources[d]) \cap (kept \X kept)) \cup (kept \X {o})
  BY <1>2 DEF TableInsert
<1>5. /\ SourceLive[d] = Rows(sources[d]) /\ SourceBefore[d] = Earlier(sources[d])
      /\ sources'[d] = new /\ \A c \in Device : c # d => sources'[c] = sources[c]
  BY <1>1, <1>2 DEF SourceLive, SourceBefore, IInv, TypeOK
<1>6. SourceLive' = [SourceLive EXCEPT ![d] = kept \cup {o}]
  BY <1>4, <1>5 DEF SourceLive
<1>7. SourceBefore' = [SourceBefore EXCEPT
        ![d] = (SourceBefore[d] \cap (kept \X kept)) \cup (kept \X {o})]
  BY <1>4, <1>5 DEF SourceBefore
<1> HIDE DEF d
<1> QED BY <1>1, <1>3, <1>5, <1>6, <1>7 DEF Origin!Insert, d

\* The last refusal withdraws the key; an earlier one leaves the table alone.
LEMMA RefusalRefines ==
  ASSUME IInv, NEW o \in Offer, NEW e \in Device, RecordExplicitRefusal(o, e)
  PROVE  \/ sources' = sources
         \/ origin[o] \in Device /\ Origin!Withdraw(origin[o], o)
<1> DEFINE d == origin[o]
<1>1. d \in Device /\ sources[d][o] # 0 /\ sources[d] \in [Offer -> Nat]
      /\ Injective(sources[d])
  BY DEF IInv, EligibleInv, TypeOK, OrderInv, RecordExplicitRefusal
<1>2. \/ sources' = sources
      \/ sources' = [sources EXCEPT ![d][o] = 0]
  BY DEF RecordExplicitRefusal
<1>3. ASSUME sources' = [sources EXCEPT ![d][o] = 0]
      PROVE  Origin!Withdraw(d, o)
  <2> DEFINE kept == Rows(sources[d]) \ {o}
             new  == [sources[d] EXCEPT ![o] = 0]
  <2>1. Rows(new) = kept /\ Earlier(new) = Earlier(sources[d]) \cap (kept \X kept)
    BY <1>1, RemoveRow
  <2>2. /\ SourceLive[d] = Rows(sources[d]) /\ SourceBefore[d] = Earlier(sources[d])
        /\ sources'[d] = new /\ \A c \in Device : c # d => sources'[c] = sources[c]
    BY <1>1, <1>3 DEF SourceLive, SourceBefore, IInv, TypeOK
  <2> HIDE DEF new
  <2>3. SourceLive' = [SourceLive EXCEPT ![d] = kept]
    BY <2>1, <2>2 DEF SourceLive
  <2>4. SourceBefore' = [SourceBefore EXCEPT ![d] = SourceBefore[d] \cap (kept \X kept)]
    BY <2>1, <2>2 DEF SourceBefore
  <2>5. o \in SourceLive[d]
    BY <1>1, <2>2 DEF Rows
  <2> HIDE DEF d
  <2> QED BY <2>2, <2>3, <2>4, <2>5 DEF Origin!Withdraw
<1> QED BY <1>1, <1>2, <1>3

\* Every other step leaves the tables alone.
LEMMA OtherSteps ==
  ASSUME IInv, [Next]_vars
  PROVE  /\ \/ cards' = cards
            \/ \E o \in Offer, e \in Device:
                 ReceiveNew(o, e)
         /\ \/ sources' = sources
            \/ \E o \in Offer : StoreSource(o)
            \/ \E o \in Offer, e \in Device : RecordExplicitRefusal(o, e)
<1>1. ASSUME NEW o \in Offer, CreateStep(o)
      PROVE  cards' = cards /\ (sources' = sources \/ StoreSource(o))
  BY <1>1 DEF CreateStep, LoadPeers, StoreSource, StoreSourceFails, FanOut,
             FanOutFails, durable
<1>2. ASSUME NEW d \in Device, DeviceStep(d)
      PROVE  cards' = cards /\ sources' = sources
  BY <1>2 DEF DeviceStep, Restart, Reinstall, Stop, Pair, durable
<1>3. ASSUME NEW o \in Offer, NEW e \in Device, AnnounceStep(o, e)
      PROVE  /\ \/ cards' = cards
                \/ ReceiveNew(o, e)
             /\ sources' = sources \/ RecordExplicitRefusal(o, e)
  <2>1. CASE RecordExplicitRefusal(o, e)
    BY <2>1 DEF RecordExplicitRefusal
  <2>2. CASE ReceiveNew(o, e)
    BY <2>2 DEF ReceiveNew
  <2>3. CASE Connect(o, e) \/ GiveUp(o, e) \/ ReadAck(o, e)
    BY <2>3 DEF Connect, GiveUp, ReadAck, durable
  <2>4. CASE ReceiveFails(o, e)
    BY <2>4 DEF ReceiveFails, durable
  <2> QED BY <1>3, <2>1, <2>2, <2>3, <2>4 DEF AnnounceStep
<1>4. CASE UNCHANGED vars
  BY <1>4 DEF vars, durable
<1> QED BY <1>1, <1>2, <1>3, <1>4 DEF Next

\* Each shelf implements RecentRows: a card leaves it only when newer cards
\* need its place, although numbers are taken from the rows that are left.
THEOREM ShelfRefinement == Spec => ShelfKeepsNewest
<1>1. IInv /\ [Next]_vars => [Shelf!Arrivals]_(Shelf!rowVars)
  <2> SUFFICES ASSUME IInv, [Next]_vars PROVE [Shelf!Arrivals]_(Shelf!rowVars)
    OBVIOUS
  <2>1. CASE cards' = cards
    BY <2>1 DEF Shelf!rowVars, CardLive, CardBefore, Rows, Earlier
  <2>2. ASSUME NEW o \in Offer, NEW e \in Device,
               ReceiveNew(o, e)
        PROVE  Shelf!Arrivals
    <3>1. Shelf!Insert(e, o)
      BY <2>2, ReceiveRefines
    <3> QED BY <3>1 DEF Shelf!Arrivals
  <2> QED BY <2>1, <2>2, OtherSteps
<1> QED BY InitTables, OffersInvariance, <1>1, PTL
        DEF Spec, ShelfKeepsNewest, Shelf!ShelfSpec

\* Each source table implements RecentRows with withdrawals: the number of a
\* withdrawn offer may be given out again without disturbing the order.
THEOREM SourceRefinement == Spec => SourcesKeepNewest
<1>1. IInv /\ [Next]_vars => [Origin!Changes]_(Origin!rowVars)
  <2> SUFFICES ASSUME IInv, [Next]_vars PROVE [Origin!Changes]_(Origin!rowVars)
    OBVIOUS
  <2>1. CASE sources' = sources
    BY <2>1 DEF Origin!rowVars, SourceLive, SourceBefore, Rows, Earlier
  <2>2. ASSUME NEW o \in Offer, StoreSource(o)
        PROVE  Origin!Changes
    <3>1. origin[o] \in Device /\ Origin!Insert(origin[o], o)
      BY <2>2, StoreRefines
    <3> QED BY <3>1 DEF Origin!Changes, Origin!Arrivals
  <2>3. ASSUME NEW o \in Offer, NEW e \in Device, RecordExplicitRefusal(o, e),
               sources' # sources
        PROVE  Origin!Changes
    <3>1. origin[o] \in Device /\ Origin!Withdraw(origin[o], o)
      BY <2>3, RefusalRefines
    <3> QED BY <3>1 DEF Origin!Changes
  <2> QED BY <2>1, <2>2, <2>3, OtherSteps
<1> QED BY InitTables, OffersInvariance, <1>1, PTL
        DEF Spec, SourcesKeepNewest, Origin!SourceSpec

-----------------------------------------------------------------------------
(* The bound.                                                              *)

CountInv ==
  \A d \in Device : /\ Cardinality(Rows(sources[d])) <= MaxLive
                    /\ Cardinality(Rows(cards[d])) <= MaxLive

\* Neither table outgrows V2_MAX_LIVE_ENTRIES, and their rows are numbered
\* apart.
THEOREM TablesAreBounded ==
  ASSUME IsFiniteSet(Offer)
  PROVE  Spec => []TablesBounded
<1>1. Init => CountInv
  <2> SUFFICES ASSUME Init PROVE CountInv
    OBVIOUS
  <2>1. \A d \in Device : Rows(sources[d]) = {} /\ Rows(cards[d]) = {}
    BY DEF Init, Rows
  <2>2. Cardinality({}) <= MaxLive
    BY FS_EmptySet, OffersAssumption
  <2> QED BY <2>1, <2>2 DEF CountInv
<1>2. IInv /\ CountInv /\ [Next]_vars => CountInv'
  <2> SUFFICES ASSUME IInv, CountInv, [Next]_vars PROVE CountInv'
    OBVIOUS
  <2>1. ASSUME NEW o \in Offer, NEW e \in Device,
               ReceiveNew(o, e), NEW d \in Device
        PROVE  Cardinality(Rows(cards'[d])) <= MaxLive
    <3>1. PICK old \in SUBSET Rows(cards[e]), new \in [Offer -> Nat] :
            /\ TableInsert(cards[e], new, o, old)
            /\ cards' = [cards EXCEPT ![e] = new]
      BY <2>1, ReceiveEffect
    <3>2. cards'[d] = cards[d] \/ cards'[d] = new
      BY <3>1 DEF IInv, TypeOK
    <3>3. Cardinality((Rows(cards[e]) \ old) \cup {o}) <= MaxLive
      BY <3>1, InsertCount DEF TableInsert, Rows
    <3> QED BY <3>1, <3>2, <3>3 DEF TableInsert, CountInv
  <2>2. ASSUME NEW o \in Offer, StoreSource(o), NEW d \in Device
        PROVE  Cardinality(Rows(sources'[d])) <= MaxLive
    <3>1. PICK old \in SUBSET Rows(sources[origin[o]]), new \in [Offer -> Nat] :
            /\ TableInsert(sources[origin[o]], new, o, old)
            /\ sources' = [sources EXCEPT ![origin[o]] = new]
      BY <2>2, StoreEffect
    <3>2. sources'[d] = sources[d] \/ sources'[d] = new
      BY <3>1 DEF IInv, TypeOK
    <3>3. Cardinality((Rows(sources[origin[o]]) \ old) \cup {o}) <= MaxLive
      BY <3>1, InsertCount DEF TableInsert, Rows
    <3> QED BY <3>1, <3>2, <3>3 DEF TableInsert, CountInv
  <2>3. ASSUME NEW o \in Offer, NEW e \in Device, RecordExplicitRefusal(o, e),
               NEW d \in Device
        PROVE  Cardinality(Rows(sources'[d])) <= MaxLive
    <3>1. Rows(sources'[d]) \subseteq Rows(sources[d])
      BY <2>3 DEF RecordExplicitRefusal, Rows, IInv, TypeOK
    <3>2. IsFiniteSet(Rows(sources[d]))
      BY FS_Subset DEF Rows
    <3>3. /\ Cardinality(Rows(sources'[d])) <= Cardinality(Rows(sources[d]))
          /\ Cardinality(Rows(sources'[d])) \in Nat
          /\ Cardinality(Rows(sources[d])) \in Nat
      BY <3>1, <3>2, FS_Subset, FS_CardinalityType
    <3> QED BY <3>3, OffersAssumption DEF CountInv
  <2>4. \A d \in Device : Cardinality(Rows(cards'[d])) <= MaxLive
    BY <2>1, OtherSteps DEF CountInv
  <2>5. \A d \in Device : Cardinality(Rows(sources'[d])) <= MaxLive
    BY <2>2, <2>3, OtherSteps DEF CountInv
  <2> QED BY <2>4, <2>5 DEF CountInv, Rows
<1>3. IInv /\ CountInv => TablesBounded
  BY DEF IInv, CountInv, OrderInv, Injective, TablesBounded
<1> QED BY OffersInvariance, <1>1, <1>2, <1>3, PTL DEF Spec
=============================================================================
