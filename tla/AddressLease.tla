---------------------------- MODULE AddressLease ----------------------------
(***************************************************************************)
(* What the server promises about tunnel addresses, with no table, pool or *)
(* token: a holder gets one lease in its life, a lease has one holder, it  *)
(* ends when its holder does or when a newcomer takes it over, and a       *)
(* holder that lost its lease changes nothing when it ends.                *)
(***************************************************************************)
CONSTANTS Holders, Addresses, None

VARIABLES
    owner,    \* the holder of each address, or None
    life      \* each holder is "new", then "active", then "ended"

vars == <<owner, life>>

Init ==
    /\ owner = [a \in Addresses |-> None]
    /\ life = [h \in Holders |-> "new"]

(* A new holder gets a free address, or takes one over. *)
Lease(h, a) ==
    /\ life[h] = "new"
    /\ owner' = [owner EXCEPT ![a] = h]
    /\ life' = [life EXCEPT ![h] = "active"]

Release(h, a) ==
    /\ life[h] = "active"
    /\ owner[a] = h
    /\ owner' = [owner EXCEPT ![a] = None]
    /\ life' = [life EXCEPT ![h] = "ended"]

Expire(h) ==
    /\ life[h] = "active"
    /\ \A a \in Addresses : owner[a] # h
    /\ life' = [life EXCEPT ![h] = "ended"]
    /\ UNCHANGED owner

Refuse(h) ==
    /\ life[h] = "new"
    /\ life' = [life EXCEPT ![h] = "ended"]
    /\ UNCHANGED owner

Next ==
    \E h \in Holders :
        \/ \E a \in Addresses : Lease(h, a) \/ Release(h, a)
        \/ Expire(h)
        \/ Refuse(h)

Spec == Init /\ [][Next]_vars
=============================================================================
