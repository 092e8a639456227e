------------------------------- MODULE MCReach -------------------------------
(* Whose credentials are believed or used: the keys that admit a teammate,   *)
(* and the connections a speaker is picked from.  They share no state.       *)
EXTENDS AccessKeys, Connections

reachVars == <<keyVars, connectionVars>>

\* A token is verified only with a key of late, and nobody speaks but with a token of his own.
CredentialsHold == KeysHold /\ ConnectionsHold
=============================================================================
