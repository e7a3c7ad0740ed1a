--------------------------- MODULE OrderContract ---------------------------
(***************************************************************************)
(* What directional submission promises its callers and the broker,        *)
(* without processes, journals or crashes: orders are sent one at a time,  *)
(* an order is sent once, never beside a conflicting one, and never while  *)
(* the outcome of an earlier one is unknown; ids are returned only for     *)
(* orders the broker accepted.  (docs/releases/                            *)
(* execution-integrity-hardening.md, "Durable identity and unknown         *)
(* outcomes".)                                                             *)
(***************************************************************************)
EXTENDS Naturals

CONSTANTS
  Orders,        \* the requests the callers may make
  Clash(_, _),   \* orders that must never both be sent
  Affordable(_)  \* orders within the position limit

VARIABLES
  posts,     \* how often an order was sent
  accepted,  \* how often the broker accepted it
  returned   \* the orders whose id a caller was given

vars == <<posts, accepted, returned>>

Init ==
  /\ posts = [o \in Orders |-> 0]
  /\ accepted = [o \in Orders |-> 0]
  /\ returned = {}

Send(o) ==
  /\ Affordable(o)
  /\ posts[o] = 0
  /\ \A s \in Orders : posts[s] > 0 => accepted[s] = 1 /\ ~Clash(s, o)
  /\ posts' = [posts EXCEPT ![o] = 1]
  /\ UNCHANGED <<accepted, returned>>

Accept(o) ==
  /\ accepted[o] < posts[o]
  /\ accepted' = [accepted EXCEPT ![o] = @ + 1]
  /\ UNCHANGED <<posts, returned>>

Return(o) ==
  /\ accepted[o] = 1
  /\ returned' = returned \union {o}
  /\ UNCHANGED <<posts, accepted>>

Next == \E o \in Orders : Send(o) \/ Accept(o) \/ Return(o)

Spec == Init /\ [][Next]_vars
=============================================================================
