---------------------------- MODULE MemoryPort ------------------------------
(***************************************************************************)
(* What the load/store unit needs of the memory behind it: one access at a *)
(* time, carried out once and answered after that, the next one at the     *)
(* earliest in the clock of the answer.  An access of a cached word may be *)
(* carried out by the cache at once; one of a device may not.              *)
(***************************************************************************)
CONSTANT Access

VARIABLE port    \* [st, req], or [st |-> "idle"]

Idle == [st |-> "idle"]

Asked(r) == IF r.cached THEN {[st |-> "asked", req |-> r], [st |-> "served", req |-> r]}
            ELSE {[st |-> "asked", req |-> r]}
AnyAsked == UNION {Asked(r) : r \in Access}

Init == port = Idle

Ask    == port = Idle /\ port' \in AnyAsked
Serve  == port.st = "asked" /\ port' = [st |-> "served", req |-> port.req]
Answer == port.st = "served" /\ port' \in {Idle} \cup AnyAsked

Next == Ask \/ Serve \/ Answer

Spec == Init /\ [][Next]_port
=============================================================================
