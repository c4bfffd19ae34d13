------------------------ MODULE MCCowCandidateQueue ------------------------
(* The queue alone, for TLC: three candidates on two networks, and callers  *)
(* that call its methods in any order, not only the daemon's.               *)
EXTENDS CowCandidateQueue, TLC

CONSTANTS c1, c2, c3, bnb, eth

MCNetworkOf == (c1 :> bnb) @@ (c2 :> bnb) @@ (c3 :> eth)

\* One settled status that enqueue_many holds back and one that it does not.
Settled == {"blocked", "submitted_success"}

QueueNext ==
    \/ Clear \/ EnqueueBegin \/ EnqueueEnd \/ ClaimNothing \/ Tick
    \/ \E s \in Signature :
        \/ \E h \in Hint : EnqueueExisting(s, h)
        \/ \E h \in Hint : EnqueueNew(s, h)
        \/ Claim(s)
        \/ \E status \in Settled : Complete(s, status)
        \/ Requeue(s)
    \/ \E status \in Settled \cup WaitingStatus : RemoveStatuses({status})
    \/ \E N \in SUBSET Network : RetainNetworks(N)

QueueSpec == QueueInit /\ [][QueueNext]_queueVars
=============================================================================
