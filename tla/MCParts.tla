------------------------------- MODULE MCParts -------------------------------
(* The parts of a client that share no state, and the relay and the limiter *)
(* of the server, for TLC.  A behaviour is one of a single part, chosen at  *)
(* the start; the others stay at their initial states.                      *)
EXTENDS Relay, PortMapping, DirectoryClient, Endpoint, Limiter, Vault, Peers

VARIABLE part

partsVars == <<part, relayVars, portVars, clientVars, endpointVars, limiterVars, vaultVars, peersVars>>

\* A part that is not chosen has one initial state.
MCInit ==
    /\ part \in {"relay", "ports", "client", "endpoint", "limiter", "vault", "peers"}
    /\ RelayInit /\ ClientInit /\ EndpointInit /\ LimiterInit /\ PeersInit
    /\ PortInit /\ (part # "ports" => taken = {} /\ ~strangers /\ ~permanent)
    /\ VaultInit /\ (part # "vault" => ~auto /\ \A f \in File : chunks[f] = {})

MCNext ==
    \/ /\ part = "relay" /\ RelayNext
       /\ UNCHANGED <<part, portVars, clientVars, endpointVars, limiterVars, vaultVars, peersVars>>
    \/ /\ part = "ports" /\ PortNext
       /\ UNCHANGED <<part, relayVars, clientVars, endpointVars, limiterVars, vaultVars, peersVars>>
    \/ /\ part = "client" /\ ClientNext
       /\ UNCHANGED <<part, relayVars, portVars, endpointVars, limiterVars, vaultVars, peersVars>>
    \/ /\ part = "endpoint" /\ EndpointNext
       /\ UNCHANGED <<part, relayVars, portVars, clientVars, limiterVars, vaultVars, peersVars>>
    \/ /\ part = "limiter" /\ LimiterNext
       /\ UNCHANGED <<part, relayVars, portVars, clientVars, endpointVars, vaultVars, peersVars>>
    \/ /\ part = "vault" /\ VaultNext
       /\ UNCHANGED <<part, relayVars, portVars, clientVars, endpointVars, limiterVars, peersVars>>
    \/ /\ part = "peers" /\ PeersNext
       /\ UNCHANGED <<part, relayVars, portVars, clientVars, endpointVars, limiterVars, vaultVars>>

\* The fairness of the parts that can move at their initial states is guarded.
MCFairness ==
    /\ RelayFairness
    /\ WF_portVars(part = "ports" /\ LogsIn) /\ WF_portVars(part = "ports" /\ MapPort)
    /\ WF_portVars(RenewLoop)
    /\ \A d \in Device : WF_clientVars(part = "client" /\ KeepsSession(d))

MCSpec == MCInit /\ [][MCNext]_partsVars /\ MCFairness

\* The variables of every part hold values of their types; in particular the
\* receiver never counts more connections than it may serve, so none it refuses
\* keeps a place (StartListener).
PartsTypeOK ==
    /\ RelayTypeOK /\ PortTypeOK /\ ClientTypeOK /\ EndpointTypeOK
    /\ LimiterTypeOK /\ VaultTypeOK /\ PeersTypeOK
=============================================================================
