--------------------------- MODULE ResultDelivery ---------------------------
(***************************************************************************)
(* What the customer and the Reporter are promised about a result. It is   *)
(* on its way, or in the Manager's hands, or delivered; it never goes from *)
(* the Manager back to the automatic attempts, it is delivered once and    *)
(* for good, the customer acts on it and the Reporter hears of it only     *)
(* then.                                                                   *)
(***************************************************************************)
CONSTANTS Deliveries, NULL

VARIABLES stage,   \* where a result is
          action,  \* what the customer did with it
          told     \* the Reporter was told that the customer has it

vars == <<stage, action, told>>

Stages  == {"none", "on_its_way", "with_manager", "delivered"}
Actions == {"REMOVED", "KEPT"}

At(d, s)    == stage[d] = s
Move(d, s)  == stage' = [stage EXCEPT ![d] = s]

Init == /\ stage \in [Deliveries -> Stages]
        /\ action = [d \in Deliveries |-> NULL]
        /\ told = [d \in Deliveries |-> FALSE]

Queue(d) == At(d, "none") /\ Move(d, "on_its_way") /\ UNCHANGED <<action, told>>

\* The attempts that have fallen due, of any number of results at once.
Attempts == /\ \A d \in Deliveries :
                 stage'[d] # stage[d]
                    => At(d, "on_its_way") /\ stage'[d] \in {"delivered", "with_manager"}
            /\ stage' \in [Deliveries -> Stages]
            /\ UNCHANGED <<action, told>>

\* The Manager sends it again, before or after the automatic attempts are over.
Resend(d) == /\ At(d, "on_its_way") \/ At(d, "with_manager")
             /\ Move(d, "delivered") \/ Move(d, "with_manager")
             /\ UNCHANGED <<action, told>>

\* The Reporter looks the case up: an attempt that was due may run first.
Tell(d) == /\ \/ At(d, "on_its_way") /\ Move(d, "delivered")
              \/ At(d, "delivered") /\ UNCHANGED stage
           /\ told' = [told EXCEPT ![d] = TRUE]
           /\ UNCHANGED action

\* The case is open again: nothing is said of its result.
Withhold(d) == told' = [told EXCEPT ![d] = FALSE] /\ UNCHANGED <<stage, action>>

Act(d, a) == /\ At(d, "delivered")
             /\ action' = [action EXCEPT ![d] = a]
             /\ UNCHANGED <<stage, told>>

Next == \/ Attempts
        \/ \E d \in Deliveries : Queue(d) \/ Resend(d) \/ Tell(d) \/ Withhold(d)
        \/ \E d \in Deliveries, a \in Actions : Act(d, a)

Spec == Init /\ [][Next]_vars
=============================================================================
