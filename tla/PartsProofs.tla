----------------------------- MODULE PartsProofs -----------------------------
(***************************************************************************)
(* Proofs about MCParts, the composition of the parts that share no state: *)
(* every behaviour of it is one of each part, the parts that are not       *)
(* chosen standing still, so what is proved about a part alone holds of    *)
(* the composition that TLC checks.                                        *)
(***************************************************************************)
EXTENDS MCParts, NetworkProofs, VaultProofs, PeersProofs, ClientProofs

\* A step of the composition is a step of the relay or leaves it alone, and so on.
Stepping ==
    /\ [RelayNext]_relayVars /\ [PortNext]_portVars /\ [ClientNext]_clientVars
    /\ [EndpointNext]_endpointVars /\ [LimiterNext]_limiterVars
    /\ [VaultNext]_vaultVars /\ [PeersNext]_peersVars

LEMMA PartsInitially ==
    MCInit => /\ RelayInit /\ PortInit /\ ClientInit /\ EndpointInit /\ LimiterInit
              /\ VaultInit /\ PeersInit
  BY DEF MCInit

LEMMA PartsStep == [MCNext]_partsVars => Stepping
<1> SUFFICES ASSUME [MCNext]_partsVars PROVE Stepping
  OBVIOUS
<1>1. CASE UNCHANGED partsVars
  BY <1>1 DEF partsVars, Stepping
<1>2. CASE MCNext
  BY <1>2 DEF MCNext, Stepping
<1> QED
  BY <1>1, <1>2

\* The composition implements each of its parts: the relay, the port mapping, the
\* directory client, the endpoint, the limiter, the vault and the pins.
THEOREM EachPart ==
    MCSpec => /\ RelaySpec /\ PortSpec /\ ClientSpec /\ EndpointSpec /\ LimiterSpec
              /\ VaultSpec /\ PeersSpec
  BY PartsInitially, PartsStep, PTL
     DEF MCSpec, Stepping, RelaySpec, PortSpec, ClientSpec, EndpointSpec, LimiterSpec, VaultSpec, PeersSpec

\* The variables of every part hold values of their types, whichever part runs: in
\* particular the receiver never counts more connections than it may serve.
THEOREM PartsTyped == MCSpec => []PartsTypeOK
<1>1. (/\ RelayTypeOK /\ PortTypeOK /\ ClientTypeOK /\ EndpointTypeOK
       /\ LimiterTypeOK /\ VaultTypeOK /\ PeersTypeOK) => PartsTypeOK
  BY DEF PartsTypeOK
<1> QED
  BY <1>1, EachPart, RelayTypes, PortTypes, ClientTypes, EndpointTypes, LimiterTypes,
     VaultTypes, PeersTypes, PTL

\* What each part promises holds of the composition, every safety property the
\* run checks of it: the files of the vault as long as who rewrites them is alone with them.
THEOREM PartsPromise ==
    MCSpec => /\ []AllOrNothing /\ []OneServerTold /\ []NothingLeaks /\ []OneVoice
              /\ ReuseFindsSession /\ FreshSessionWorks /\ NotTakenBack /\ StaleIsRetried
              /\ GrantsAsPromised
              /\ []RewritesAlone => []KeyIsKept /\ NothingLost /\ SealedWhenReady
<1>1. MCSpec => /\ []AllOrNothing /\ []OneServerTold /\ []NothingLeaks /\ []OneVoice
  BY EachPart, AllAgree, OneTold, NoneForgotten, VoicesOne
<1>2. MCSpec => ReuseFindsSession /\ FreshSessionWorks /\ NotTakenBack /\ StaleIsRetried
  BY EachPart, ReuseFinds, FreshWorks, NoneTakenBack, StaleRetried
<1>3. MCSpec => GrantsAsPromised
  BY EachPart, GrantsRight
<1>4. MCSpec => ([]RewritesAlone => []KeyIsKept /\ NothingLost /\ SealedWhenReady)
  BY EachPart, KeyKept, NoneLost, ReadySealed
<1> QED
  BY <1>1, <1>2, <1>3, <1>4
=============================================================================
