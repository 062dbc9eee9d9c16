------------------------------ MODULE Ownership ------------------------------
(***************************************************************************)
(* What the cluster promises to those who write to its master: of the      *)
(* members, one at most owns the database.  A member becomes the owner     *)
(* only when no member is, whether it was elected or took over; and a      *)
(* server that joins, for the first time or again, does not own.           *)
(***************************************************************************)
EXTENDS Integers

CONSTANT Server

VARIABLES members, owners

Init == members = {} /\ owners = {}

Join(s) == s \notin members /\ members' = members \cup {s} /\ owners' = owners

\* The owner's place is free from here on.
Leave(s) == s \in members /\ members' = members \ {s} /\ owners' = owners \ {s}

Own(s) == s \in members /\ owners = {} /\ owners' = {s} /\ members' = members

StandBy(s) == s \in owners /\ owners' = owners \ {s} /\ members' = members

Next == \E s \in Server : Join(s) \/ Leave(s) \/ Own(s) \/ StandBy(s)

Spec == Init /\ [][Next]_<<members, owners>>
=============================================================================
