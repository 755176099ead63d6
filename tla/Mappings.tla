----------------------------- MODULE Mappings ------------------------------
(***************************************************************************)
(* What the GPIO mappings promise: devices with a pin each, no two of them  *)
(* with the same. A step gives one device a pin that no other has, or       *)
(* forgets one device, or all; whatever fails or is cut short by a restart  *)
(* does no more than that.                                                  *)
(***************************************************************************)

CONSTANTS Names, Pins

VARIABLE pin    \* the pin of each device that is mapped

Init == pin = [d \in {} |-> d]

Map(d, p) == /\ \A e \in DOMAIN pin \ {d} : pin[e] # p
             /\ pin' = [e \in DOMAIN pin \cup {d} |-> IF e = d THEN p ELSE pin[e]]

Forget(D) == pin' = [d \in DOMAIN pin \ D |-> pin[d]]

Next == \/ \E d \in Names : Forget({d}) \/ \E p \in Pins : Map(d, p)
        \/ Forget(Names)

Spec == Init /\ [][Next]_pin
=============================================================================
