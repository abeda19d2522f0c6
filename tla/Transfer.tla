------------------------------ MODULE Transfer ------------------------------
(***************************************************************************)
(* What one fetch promises, whatever its frames, timeouts and faults: the  *)
(* requester takes the announced content whole or not at all, and the      *)
(* origin counts the fetch as delivered only after the requester recorded  *)
(* it.  The origin may give up on a fetch that is still being delivered,   *)
(* because the receipt can be lost.                                        *)
(***************************************************************************)
VARIABLES
  taken,     \* what the requester has put where the user asked for it:
             \* "nothing", the "whole" announced content, or something else
  recorded,  \* the requester's result: "open", "completed", "other"
  believed   \* the origin's result: "open", "delivered", "unknown"

Init == taken = "nothing" /\ recorded = "open" /\ believed = "open"

Take     == taken = "nothing" /\ recorded = "open" /\ taken' = "whole"
            /\ UNCHANGED <<recorded, believed>>
Complete == taken = "whole" /\ recorded = "open" /\ recorded' = "completed"
            /\ UNCHANGED <<taken, believed>>
\* An uncertain write ends without completing and may have taken effect.
EndOther == recorded = "open" /\ recorded' = "other"
            /\ taken' \in {taken, "whole"} /\ UNCHANGED believed
Confirm  == recorded = "completed" /\ believed = "open"
            /\ believed' = "delivered" /\ UNCHANGED <<taken, recorded>>
GiveUp   == believed = "open" /\ believed' = "unknown"
            /\ UNCHANGED <<taken, recorded>>

Next == Take \/ Complete \/ EndOther \/ Confirm \/ GiveUp
Spec == Init /\ [][Next]_<<taken, recorded, believed>>
=============================================================================
