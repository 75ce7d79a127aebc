------------------------------ MODULE SBRelay ------------------------------
(***************************************************************************)
(* What the Service Bus emulator promises about messages, without          *)
(* connections, credit or goroutines: a message is published to some       *)
(* addresses at once, and each copy is then handed to one client.  A loop  *)
(* may take a copy and put it back; a copy in hand may be lost, a copy     *)
(* queued may not, and a copy delivered is never delivered again.          *)
(***************************************************************************)
CONSTANTS Address, Msg

VARIABLE place

Init == place = [a \in Address |-> [m \in Msg |-> "unsent"]]

Publish(m, A) ==
  /\ \A a \in Address : place[a][m] = "unsent"
  /\ place' = [a \in Address |->
                 IF a \in A THEN [place[a] EXCEPT ![m] = "queued"] ELSE place[a]]

Move(a, m, from, to) ==
  /\ place[a][m] = from
  /\ place' = [place EXCEPT ![a][m] = to]

Next ==
  \/ \E m \in Msg, A \in (SUBSET Address) \ {{}} : Publish(m, A)
  \/ \E a \in Address, m \in Msg :
       \/ Move(a, m, "queued", "held")
       \/ Move(a, m, "held", "queued")
       \/ Move(a, m, "held", "delivered")
       \/ Move(a, m, "held", "lost")

Spec == Init /\ [][Next]_place
=============================================================================
