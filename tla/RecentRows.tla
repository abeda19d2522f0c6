----------------------------- MODULE RecentRows -----------------------------
(***************************************************************************)
(* What the shelf and the source table of a device promise, without        *)
(* sequence numbers: each table keeps at most MaxLive keys and the order   *)
(* in which they arrived; a new key displaces exactly as many of the       *)
(* oldest ones as make room for it; apart from that, a key leaves a source *)
(* table when its offer is withdrawn, and never leaves a shelf.            *)
(***************************************************************************)
EXTENDS Naturals

CONSTANTS
  Table,     \* the devices that keep such a table
  Key,
  MaxLive,
  Size(_)    \* the number of elements of a finite set

VARIABLES
  live,      \* live[t]: the keys in the table
  before     \* before[t]: <<j, k>> when j arrived before k

rowVars == <<live, before>>

Init ==
  /\ live = [t \in Table |-> {}]
  /\ before = [t \in Table |-> {}]

\* How many keys must go to make room for one more.
Excess(S) ==
  IF Size(S) < MaxLive THEN 0 ELSE Size(S) - (MaxLive - 1)

\* old holds the Excess(S) keys of S that came before all the others.
AreOldest(old, S, order) ==
  /\ old \subseteq S
  /\ Size(old) = Excess(S)
  /\ \A j \in old, k \in S \ old : <<j, k>> \in order

Insert(t, k) ==
  /\ k \notin live[t]
  /\ \E old \in SUBSET live[t] :
       LET kept == live[t] \ old IN
       /\ AreOldest(old, live[t], before[t])
       /\ live' = [live EXCEPT ![t] = kept \cup {k}]
       /\ before' = [before EXCEPT
            ![t] = (before[t] \cap (kept \X kept)) \cup (kept \X {k})]

Withdraw(t, k) ==
  LET kept == live[t] \ {k} IN
  /\ k \in live[t]
  /\ live' = [live EXCEPT ![t] = kept]
  /\ before' = [before EXCEPT ![t] = before[t] \cap (kept \X kept)]

Arrivals == \E t \in Table, k \in Key : Insert(t, k)

Changes == Arrivals \/ \E t \in Table, k \in Key : Withdraw(t, k)

\* A shelf: cards only ever arrive.
ShelfSpec == Init /\ [][Arrivals]_rowVars

\* A source table: offers are also withdrawn.
SourceSpec == Init /\ [][Changes]_rowVars
=============================================================================
