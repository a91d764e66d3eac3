-------------------------------- MODULE Lock --------------------------------
(***************************************************************************)
(* What a mutex promises: it is acquired only while nobody holds it, and   *)
(* released only by its holder.                                            *)
(***************************************************************************)
CONSTANT Clients

VARIABLE holders   \* the clients that hold the lock

Init == holders = {}

Acquire(c) == holders = {} /\ holders' = {c}
Release(c) == c \in holders /\ holders' = holders \ {c}

Next == \E c \in Clients : Acquire(c) \/ Release(c)

Spec == Init /\ [][Next]_holders
=============================================================================
