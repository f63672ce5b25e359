-------------------------- MODULE ConnectionStates --------------------------
(***************************************************************************)
(* The transitions setState() of src/src/db/connection-manager.ts accepts: *)
(* a state asked for that is not a successor of the current one is refused *)
(* with a warning, and the caller is not told.                             *)
(***************************************************************************)
ValidTransitions ==
  [DISCONNECTED   |-> {"INITIALIZING", "CONNECTING", "AUTHENTICATING", "ERROR"},
   INITIALIZING   |-> {"CONNECTING", "AUTHENTICATING", "ERROR"},
   CONNECTING     |-> {"AUTHENTICATING", "CONNECTED", "ERROR"},
   AUTHENTICATING |-> {"CONNECTED", "AUTH_FAILED", "ERROR"},
   CONNECTED      |-> {"DISCONNECTING", "ERROR"},
   DISCONNECTING  |-> {"DISCONNECTED"},
   ERROR          |-> {"RECONNECTING", "DISCONNECTED"}]

IsValidTransition(from, to) ==
  from \in DOMAIN ValidTransitions /\ to \in ValidTransitions[from]

\* The connection state after setState({connectionState: to}).
Moved(from, to) == IF IsValidTransition(from, to) THEN to ELSE from
=============================================================================
