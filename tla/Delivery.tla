------------------------------ MODULE Delivery ------------------------------
(***************************************************************************)
(* What the receiving side promises for each payload a user asks for,      *)
(* without threads, journal, cache, process deaths or recovery:            *)
(*                                                                         *)
(*   - a payload is delivered at most once, and one that goes to the       *)
(*     clipboard only after a pledge that outlives the process;            *)
(*   - a pledge is kept, withdrawn undelivered, or in doubt for good;      *)
(*   - the card says completed only of a settled delivery, uncertain only  *)
(*     of one in doubt, and failed, of a pledged kind of payload, only if  *)
(*     it was not and will not be delivered.                               *)
(***************************************************************************)
CONSTANT Item

VARIABLES
  guarded,   \* the payloads that need a pledge: those for the clipboard
  phase,     \* "open", "pledged", "delivered", "settled", "doubtful", "closed"
  told       \* what the card says: "nothing", "completed", "uncertain", "failed"

deliveryVars == <<guarded, phase, told>>

Init ==
  /\ guarded \subseteq Item
  /\ phase = [i \in Item |-> "open"]
  /\ told = [i \in Item |-> "nothing"]

Move(i, from, next) ==
  /\ phase[i] \in from
  /\ phase' = [phase EXCEPT ![i] = next]
  /\ UNCHANGED <<guarded, told>>

Pledge(i)   == i \in guarded /\ Move(i, {"open"}, "pledged")
Withdraw(i) == Move(i, {"pledged"}, "closed")
Deliver(i)  == Move(i, IF i \in guarded THEN {"pledged"} ELSE {"open"}, "delivered")
Settle(i)   == Move(i, {"delivered"}, "settled")
Doubt(i)    == Move(i, {"pledged", "delivered", "settled"}, "doubtful")

\* Any number of payloads are given up at once, before anything happened.
Abandon(S) ==
  /\ \A i \in S : phase[i] = "open"
  /\ phase' = [i \in Item |-> IF i \in S THEN "closed" ELSE phase[i]]
  /\ UNCHANGED <<guarded, told>>

Tell(i, words) ==
  /\ told' = [told EXCEPT ![i] = words]
  /\ UNCHANGED <<guarded, phase>>

TellCompleted(i) == phase[i] = "settled" /\ told[i] = "nothing" /\ Tell(i, "completed")

\* The last word, even after "completed": the record of it could not be closed.
TellUncertain(i) ==
  phase[i] = "doubtful" /\ told[i] \in {"nothing", "completed"} /\ Tell(i, "uncertain")

\* A file that was saved may be reported as failed: publication is not atomic.
TellFailed(i) ==
  /\ phase[i] = "closed" \/ (i \notin guarded /\ phase[i] = "delivered")
  /\ told[i] = "nothing"
  /\ Tell(i, "failed")

Change(i) ==
  \/ Pledge(i) \/ Withdraw(i) \/ Deliver(i) \/ Settle(i) \/ Doubt(i)
  \/ TellCompleted(i) \/ TellUncertain(i) \/ TellFailed(i)

Next == (\E i \in Item : Change(i)) \/ \E S \in SUBSET Item : Abandon(S)

Spec == Init /\ [][Next]_deliveryVars
=============================================================================
