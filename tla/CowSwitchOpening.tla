-------------------------- MODULE CowSwitchOpening --------------------------
(***************************************************************************)
(* Reopening order submission (binance_market_admin.py) next to the quote  *)
(* daemon: what becomes of the candidates that were queued before the      *)
(* switch was opened.  The behaviour is that of CowQuoteDaemon; three      *)
(* history variables follow the candidates.                                *)
(***************************************************************************)
EXTENDS CowQuoteDaemon

VARIABLES
    before,       \* entries queued before the switch was last turned from paused to open
    heldBefore,   \* the worker claimed one of them
    staleOrder    \* an order was posted for one of them

openingVars == <<before, heldBefore, staleOrder>>

OpeningInit == Init /\ before = {} /\ heldBefore = FALSE /\ staleOrder = FALSE

OpeningNext ==
    \/ Reopen /\ before' = (IF paused THEN Queued ELSE before) /\ UNCHANGED <<heldBefore, staleOrder>>
    \/ ClearStale /\ before' = {} /\ UNCHANGED <<heldBefore, staleOrder>>
    \/ \E s \in Signature, h \in Hint :
        ProducerEnqueue(s, h) /\ before' = before \ {s} /\ UNCHANGED <<heldBefore, staleOrder>>
    \/ \E s \in Signature :
        ClaimCandidate(s) /\ heldBefore' = (s \in before) /\ UNCHANGED <<before, staleOrder>>
    \/ PostOrder /\ staleOrder' = (staleOrder \/ heldBefore) /\ UNCHANGED <<before, heldBefore>>
    \/ /\ Exit \/ CheckPause \/ ClaimEmpty \/ DeadlineExceeded \/ BeginQuote
          \/ QuoteRaises \/ QuoteSubmittable
          \/ (\E o \in QuoteOutcome : QuoteNotSubmittable(o))
          \/ RecheckPause \/ FinalPauseGuard \/ NotPosted
          \/ Record \/ RecordRaises \/ CompleteCandidate
          \/ RecordFailure \/ RequeueCandidate \/ GiveUp
          \/ Pause \/ ReopenStart \/ Ensure \/ Stop \/ Admit
          \/ ProducerBegin \/ ProducerEnd
          \/ (\E N \in SUBSET Network : Retain(N))
          \/ ClockTick
       /\ UNCHANGED openingVars

OpeningSpec == OpeningInit /\ [][OpeningNext]_<<vars, openingVars>>

\* Opening the switch makes every queued candidate stale: no order is posted
\* afterwards for a candidate that was in the queue when it was opened
\* (test_cow_candidate_queue_clears_all_candidates_as_stale_when_switch_opens).
NoStaleOrder == ~staleOrder
=============================================================================
