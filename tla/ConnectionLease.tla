-------------------------- MODULE ConnectionLease --------------------------
(***************************************************************************)
(* What a connection pool promises the code that uses it, whatever goes on *)
(* inside: an acquire() is asked for, then granted or turned away, and a   *)
(* connection belongs to one client at a time.                             *)
(***************************************************************************)
CONSTANTS
  Clients,   \* who asks for connections
  Conns,     \* the connections there may be
  NoConn     \* what a client without a connection holds, not in Conns

VARIABLES
  asking,    \* the clients whose request is pending
  held       \* the connection each client holds

leaseVars == <<asking, held>>

Taken == {held[c] : c \in Clients} \ {NoConn}

Init ==
  /\ asking = {}
  /\ held = [c \in Clients |-> NoConn]

Ask(c) ==
  /\ c \notin asking /\ held[c] = NoConn
  /\ asking' = asking \cup {c}
  /\ UNCHANGED held

\* A connection nobody holds goes to a client that holds none.  The request may
\* be granted at once, without having been pending.
Grant(c, r) ==
  /\ held[c] = NoConn
  /\ r \notin Taken
  /\ held' = [held EXCEPT ![c] = r]
  /\ asking' = asking \ {c}

Return(c) ==
  /\ held[c] # NoConn
  /\ held' = [held EXCEPT ![c] = NoConn]
  /\ UNCHANGED asking

\* A returned connection goes straight to a client that asks for one.
HandOver(c, d) ==
  /\ held[c] # NoConn
  /\ d \in asking
  /\ held' = [held EXCEPT ![c] = NoConn, ![d] = held[c]]
  /\ asking' = asking \ {d}

\* Requests that are pending are refused, several at a time when the pool is
\* cleared.
TurnAway(S) ==
  /\ S \subseteq asking
  /\ asking' = asking \ S
  /\ UNCHANGED held

Next ==
  \/ \E c \in Clients : Ask(c) \/ Return(c)
  \/ \E c \in Clients, r \in Conns : Grant(c, r)
  \/ \E c, d \in Clients : HandOver(c, d)
  \/ \E S \in SUBSET Clients : TurnAway(S)

Spec == Init /\ [][Next]_leaseVars

=============================================================================
