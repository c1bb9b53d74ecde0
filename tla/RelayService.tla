---------------------------- MODULE RelayService ----------------------------
(***************************************************************************)
(* What the relay promises to its peers, without handlers, mutexes or      *)
(* selects: an instance ID has at most one live owner and passes to        *)
(* another backend only after the owner's connection ended; a client is    *)
(* linked to a listen connection that asked for the same ID; a listen      *)
(* connection is linked to one client at a time.                           *)
(***************************************************************************)
CONSTANTS Ids, Controls, Listens, Clients, None

VARIABLES
    owner,  \* owner[i]: the live backend that holds ID i, or None
    asked,  \* asked[x]: the ID that listen or client x named, or None
    link    \* link[c]: the listen connection client c is bridged to, or None

serviceVars == <<owner, asked, link>>

ServiceInit ==
    /\ owner = [i \in Ids |-> None]
    /\ asked = [x \in Listens \cup Clients |-> None]
    /\ link = [c \in Clients |-> None]

Linked(x) == \E c \in Clients : link[c] # None /\ (x = c \/ x = link[c])

Claim(i, r) ==
    /\ owner[i] = None
    /\ owner' = [owner EXCEPT ![i] = r]
    /\ UNCHANGED <<asked, link>>

Release(i) ==
    /\ owner[i] # None
    /\ owner' = [owner EXCEPT ![i] = None]
    /\ UNCHANGED <<asked, link>>

Ask(x, i) ==
    /\ ~Linked(x)
    /\ asked' = [asked EXCEPT ![x] = i]
    /\ UNCHANGED <<owner, link>>

Link(c, l) ==
    /\ ~Linked(c)
    /\ ~Linked(l)
    /\ asked[c] # None
    /\ asked[c] = asked[l]
    /\ link' = [link EXCEPT ![c] = l]
    /\ UNCHANGED <<owner, asked>>

Unlink(c) ==
    /\ link[c] # None
    /\ link' = [link EXCEPT ![c] = None]
    /\ UNCHANGED <<owner, asked>>

ServiceNext ==
    \/ \E i \in Ids : Release(i) \/ \E r \in Controls : Claim(i, r)
    \/ \E x \in Listens \cup Clients, i \in Ids \cup {None} : Ask(x, i)
    \/ \E c \in Clients : Unlink(c) \/ \E l \in Listens : Link(c, l)

ServiceSpec == ServiceInit /\ [][ServiceNext]_serviceVars

=============================================================================
