------------------------------- MODULE MCChain ------------------------------
(*****************************************************************************)
(* From a score to the chain and back: the submission queue, the publisher   *)
(* and the disputes of published scores (ScorePublication), and what other   *)
(* chains report (ChainLinks).                                               *)
(*                                                                           *)
(* A behaviour is about one component, named by focus; the others keep their *)
(* initial values, in which their properties hold. The queue has two rows of *)
(* different priority and three workers: a dead worker's row is claimed      *)
(* again and can still be dead-lettered within MaxTime.                      *)
(*****************************************************************************)
EXTENDS ChainSubmissionQueue, ScorePublication, ChainLinks, Integers, Sequences, FiniteSets, TLC

CONSTANT Focus  \* the components whose behaviours a run explores

VARIABLE focus  \* the component a behaviour is about

MCPriority == [r \in Rows |-> IF r = 1 THEN 5 ELSE 10]

\* Workers, scores and threads of the publisher are told apart by nothing.
Interchangeable == Permutations(Workers) \cup Permutations(Scores) \cup Permutations(Pipes)

scorePublicationVars == <<publishVars, disputeVars>>
chainLinksVars == <<bridgeVars, wormholeVars, linkVars>>
suiteVars ==
    <<focus, vars, scorePublicationVars, chainLinksVars>>

SuiteInit ==
    /\ focus \in Focus
    /\ Init
    /\ PublishInit /\ (focus # "SorobanPublisher" => lastId = 0)
    /\ DisputeInit
    /\ BridgeInit /\ WormholeInit /\ LinkInit

HostNext ==
    /\ focus = "ChainSubmissionQueue" /\ Next
    /\ UNCHANGED <<focus, scorePublicationVars, chainLinksVars>>

SorobanPublisherNext ==
    /\ focus = "SorobanPublisher" /\ PublishNext
    /\ UNCHANGED <<focus, vars, chainLinksVars, disputeVars>>

DisputeResolutionNext ==
    /\ focus = "DisputeResolution" /\ DisputeNext
    /\ UNCHANGED <<focus, vars, chainLinksVars, publishVars>>

BridgeReorgsNext ==
    /\ focus = "BridgeReorgs" /\ BridgeNext
    /\ UNCHANGED <<focus, vars, scorePublicationVars, wormholeVars,
                    linkVars>>

WormholeLinkNext ==
    /\ focus = "WormholeLink" /\ WormholeNext
    /\ UNCHANGED <<focus, vars, scorePublicationVars, bridgeVars,
                    linkVars>>

CrossChainLinksNext ==
    /\ focus = "CrossChainLinks" /\ LinkNext
    /\ UNCHANGED <<focus, vars, scorePublicationVars, bridgeVars,
                    wormholeVars>>

SuiteNext ==
    \/ HostNext \/ SorobanPublisherNext \/ DisputeResolutionNext \/
       BridgeReorgsNext \/ WormholeLinkNext \/ CrossChainLinksNext

SuiteSpec ==
    /\ SuiteInit /\ [][SuiteNext]_suiteVars

=============================================================================
