---------------------- MODULE AirtableConnectionProofs ----------------------
(***************************************************************************)
(* The safety properties of AirtableConnection for every set of concurrent *)
(* requests, every grace period and every number of faults.                *)
(***************************************************************************)
EXTENDS AirtableConnection, TLAPS

\* A request has an answer exactly while it is in "answered".
AnswerInv == \A c \in Callers : pc[c] = "answered" <=> outcome[c] # "none"

\* Without faults the claim is exclusive, goes stale only once abandoned,
\* and a successor in hand has not been used.
HolderHasClaim ==
  faults = 0 => \A c \in Callers : pc[c] \in {"claimed", "answered"} => claim = c
StaleIsAbandoned == (faults = 0 /\ claimStale) => claim = "abandoned"
SuccessorUnspent ==
  faults = 0 => \A c \in Callers : outcome[c] = "success" => gained[c] \notin spent

RowInv == TypeOK /\ AnswerInv /\ ClaimIsOwned /\ PendingHasClock
SingleUse == /\ HolderHasClaim /\ StaleIsAbandoned /\ SuccessorUnspent
             /\ SpentNeverReplayed /\ SpentHasSuccessor

\* A connection as the first connect leaves it satisfies both layers.
LEMMA InitInv == Init => RowInv /\ SingleUse
  <1> SUFFICES ASSUME Init PROVE RowInv /\ SingleUse
    OBVIOUS
  <1>1. \A c \in Callers : pc[c] = "idle" /\ outcome[c] = "none"
    BY DEF Init
  <1>2. TypeOK
    <2>1. fresh \in BOOLEAN /\ claimStale \in BOOLEAN
      BY Zenon DEF Init
    <2>2. QED
      BY <2>1, BoundsAssumption DEF Init, TypeOK, Claims, NotSet, NoToken
  <1>3. claim \notin Callers
    BY CallersAssumption DEF Init
  <1>4. AnswerInv /\ ClaimIsOwned /\ HolderHasClaim /\ SuccessorUnspent /\ SpentNeverReplayed
    BY <1>1, <1>3 DEF AnswerInv, ClaimIsOwned, HolderHasClaim, SuccessorUnspent, SpentNeverReplayed
  <1>5. StaleIsAbandoned /\ SpentHasSuccessor
    BY DEF Init, StaleIsAbandoned, SpentHasSuccessor
  <1>6. PendingHasClock
    BY DEF Init, PendingHasClock
  <1>7. QED
    BY <1>2, <1>4, <1>5, <1>6 DEF RowInv, SingleUse

\* A rotation keeps the types of every token.
LEMMA RotateTypes ==
  ASSUME TypeOK, NEW c \in Callers, Rotate(c)
  PROVE  /\ issued' \in Nat /\ issued' = issued + 1 /\ issued' \in 1..issued'
         /\ live' \subseteq 1..issued' /\ spent' \subseteq 1..issued'
         /\ 0..issued \subseteq 0..issued' /\ issued' \notin spent'
  <1>1. issued' \in Nat /\ issued' = issued + 1 /\ issued' \in 1..issued'
    BY DEF TypeOK, Rotate
  <1>2. 0..issued \subseteq 0..issued' /\ 1..issued \subseteq 1..issued'
    BY <1>1 DEF TypeOK
  <1>3. known[c] \in 1..issued
    BY DEF TypeOK, Rotate
  <1>4. live' \subseteq 1..issued' /\ spent' \subseteq 1..issued'
    BY <1>1, <1>2, <1>3 DEF TypeOK, Rotate
  <1>5. issued' \notin spent'
    BY <1>1, <1>3 DEF TypeOK, Rotate
  <1>6. QED
    BY <1>1, <1>2, <1>4, <1>5

(* Types, answers, ownership of the claim and the grace clock are          *)
(* inductive together, whatever fails.                                     *)
LEMMA RowStep ==
  ASSUME RowInv, [Next]_vars
  PROVE  RowInv'
  <1> USE BoundsAssumption, CallersAssumption
      DEF RowInv, TypeOK, AnswerInv, ClaimIsOwned, PendingHasClock, Claims, NotSet, NoToken,
          rowVars, requestVars, airtable, counters
  <1>1. ASSUME NEW c \in Callers, FetchConnection(c) PROVE RowInv'
    BY <1>1 DEF FetchConnection, NeedsRefresh
  <1>2. ASSUME NEW c \in Callers, ClaimRefresh(c) PROVE RowInv'
    BY <1>2 DEF ClaimRefresh, TokenToRefresh
  <1>3. ASSUME NEW c \in Callers, ClaimUnavailable(c) PROVE RowInv'
    BY <1>3 DEF ClaimUnavailable, Return
  <1>4. ASSUME NEW c \in Callers, DecryptThrows(c) PROVE RowInv'
    BY <1>4 DEF DecryptThrows, Return
  <1>5. ASSUME NEW c \in Callers, Refreshed(c) PROVE RowInv'
    <2>1. /\ issued' \in Nat /\ issued' \in 1..issued' /\ 0..issued \subseteq 0..issued'
          /\ live' \subseteq 1..issued' /\ spent' \subseteq 1..issued'
      BY <1>5, RotateTypes DEF Refreshed
    <2>2. gained' \in [Callers -> 0..issued']
      BY <1>5, <2>1 DEF Refreshed, Answer
    <2>3. known' \in [Callers -> 0..issued'] /\ token' \in 0..issued'
      BY <1>5, <2>1 DEF Refreshed, Answer
    <2>4. QED
      BY <1>5, <2>1, <2>2, <2>3 DEF Refreshed, Answer
  <1>6. ASSUME NEW c \in Callers, RefreshedKeepingToken(c) PROVE RowInv'
    BY <1>6 DEF RefreshedKeepingToken, Answer
  <1>7. ASSUME NEW c \in Callers, RefreshRejected(c) PROVE RowInv'
    BY <1>7 DEF RefreshRejected, Answer
  <1>8. ASSUME NEW c \in Callers, RefreshFails(c) PROVE RowInv'
    <2>1. /\ issued' \in Nat /\ 0..issued \subseteq 0..issued'
          /\ live' \subseteq 1..issued' /\ spent' \subseteq 1..issued'
      <3>1. CASE Rotate(c)
        BY <3>1, RotateTypes
      <3>2. CASE UNCHANGED airtable
        BY <3>2
      <3>3. QED
        BY <1>8, <3>1, <3>2 DEF RefreshFails
    <2>2. gained' \in [Callers -> 0..issued']
      BY <1>8, <2>1 DEF RefreshFails, Answer
    <2>3. known' \in [Callers -> 0..issued'] /\ token' \in 0..issued'
      BY <1>8, <2>1 DEF RefreshFails, Answer
    <2>4. QED
      BY <1>8, <2>1, <2>2, <2>3 DEF RefreshFails, Answer, Fault
  <1>9. ASSUME NEW c \in Callers, PersistRefreshSuccess(c) PROVE RowInv'
    <2>1. CASE claim = c
      <3>1. fresh' \in BOOLEAN /\ claimStale' \in BOOLEAN
        BY <1>9, <2>1, Zenon DEF PersistRefreshSuccess
      <3>2. QED
        BY <1>9, <2>1, <3>1 DEF PersistRefreshSuccess, Return
    <2>2. CASE claim # c
      BY <1>9, <2>2 DEF PersistRefreshSuccess, Return
    <2>3. QED
      BY <2>1, <2>2
  <1>10. ASSUME NEW c \in Callers, MarkPendingReauth(c) PROVE RowInv'
    <2>1. CASE claim = c
      <3>1. claimStale' \in BOOLEAN
        BY <1>10, <2>1, Zenon DEF MarkPendingReauth
      <3>2. QED
        BY <1>10, <2>1, <3>1 DEF MarkPendingReauth, PendingAgeAfterMark, Return
    <2>2. CASE claim # c
      BY <1>10, <2>2 DEF MarkPendingReauth, Return
    <2>3. QED
      BY <2>1, <2>2
  <1>11. ASSUME NEW c \in Callers, ClearRefreshClaim(c) PROVE RowInv'
    <2>1. claimStale' \in BOOLEAN
      BY <1>11, Zenon DEF ClearRefreshClaim
    <2>2. QED
      BY <1>11, <2>1 DEF ClearRefreshClaim, ClaimAfterClear, Return
  <1>12. ASSUME NEW c \in Callers, RequestDies(c) PROVE RowInv'
    BY <1>12 DEF RequestDies, Return, Fault
  <1>13. ASSUME Evict PROVE RowInv'
    BY <1>13 DEF Evict
  <1>14. ASSUME MarkConnectionPendingReauth PROVE RowInv'
    BY <1>14 DEF MarkConnectionPendingReauth
  <1>15. ASSUME Reconnect PROVE RowInv'
    BY <1>15 DEF Reconnect
  <1>16. ASSUME Disconnect \/ InvalidateStale \/ Revoke PROVE RowInv'
    BY <1>16 DEF Disconnect, InvalidateStale, Revoke
  <1>17. ASSUME AccessTokenExpires PROVE RowInv'
    <2>1. fresh' \in BOOLEAN
      BY <1>17, Zenon DEF AccessTokenExpires
    <2>2. QED
      BY <1>17, <2>1 DEF AccessTokenExpires
  <1>18. ASSUME ClaimGoesStale PROVE RowInv'
    BY <1>18 DEF ClaimGoesStale, Fault
  <1>19. ASSUME DayPasses PROVE RowInv'
    BY <1>19 DEF DayPasses
  <1>20. ASSUME UNCHANGED vars PROVE RowInv'
    BY <1>20 DEF vars
  <1>21. QED
    BY <1>1, <1>2, <1>3, <1>4, <1>5, <1>6, <1>7, <1>8, <1>9, <1>10, <1>11, <1>12,
       <1>13, <1>14, <1>15, <1>16, <1>17, <1>18, <1>19, <1>20
       DEF Next, RequestStep, AtRest

(* Single use.  Faults never decrease, so a step without faults started    *)
(* without any.                                                            *)
LEMMA SingleUseStep ==
  ASSUME RowInv, SingleUse, [Next]_vars
  PROVE  SingleUse'
  <1> USE CallersAssumption
      DEF SingleUse, HolderHasClaim, StaleIsAbandoned, SuccessorUnspent,
          SpentNeverReplayed, SpentHasSuccessor, RowInv, TypeOK, AnswerInv,
          NoToken, rowVars, requestVars, airtable, counters
  <1>1. ASSUME NEW c \in Callers, FetchConnection(c) PROVE SingleUse'
    BY <1>1 DEF FetchConnection
  <1>2. ASSUME NEW c \in Callers, ClaimRefresh(c) PROVE SingleUse'
    <2>1. SUFFICES ASSUME faults = 0 PROVE SingleUse'
      BY <1>2 DEF ClaimRefresh
    <2>2. claim \notin Callers
      BY <1>2, <2>1 DEF ClaimRefresh, ClaimIsFree
    <2>3. token \notin spent
      BY <2>1, <2>2
    <2>4. \A d \in Callers : pc[d] \notin {"claimed", "answered"}
      BY <2>1, <2>2
    <2>5. QED
      BY <1>2, <2>1, <2>3, <2>4 DEF ClaimRefresh, TokenToRefresh
  <1>3. ASSUME NEW c \in Callers, ClaimUnavailable(c) PROVE SingleUse'
    BY <1>3 DEF ClaimUnavailable, Return
  <1>4. ASSUME NEW c \in Callers, DecryptThrows(c) PROVE SingleUse'
    BY <1>4 DEF DecryptThrows, Return
  <1>5. ASSUME NEW c \in Callers, Refreshed(c) PROVE SingleUse'
    <2>1. SUFFICES ASSUME faults = 0 PROVE SingleUse'
      BY <1>5 DEF Refreshed
    <2>2. issued' \notin spent' /\ spent' = spent \cup {known[c]}
      BY <1>5, RotateTypes DEF Refreshed, Rotate
    <2>3. \A d \in Callers \ {c} : pc[d] \notin {"claimed", "answered"}
      BY <1>5, <2>1 DEF Refreshed, Answer
    <2>4. HolderHasClaim' /\ StaleIsAbandoned' /\ SpentNeverReplayed'
      BY <1>5, <2>1, <2>3 DEF Refreshed, Answer
    <2>5. SuccessorUnspent'
      BY <1>5, <2>2, <2>3 DEF Refreshed, Answer
    <2>6. SpentHasSuccessor'
      BY <1>5, <2>1 DEF Refreshed, Answer
    <2>7. QED
      BY <2>4, <2>5, <2>6
  <1>6. ASSUME NEW c \in Callers, RefreshedKeepingToken(c) PROVE SingleUse'
    BY <1>6 DEF RefreshedKeepingToken, Answer
  <1>7. ASSUME NEW c \in Callers, RefreshRejected(c) PROVE SingleUse'
    BY <1>7 DEF RefreshRejected, Answer
  <1>8. ASSUME NEW c \in Callers, RefreshFails(c) \/ RequestDies(c) PROVE SingleUse'
    BY <1>8 DEF RefreshFails, RequestDies, Fault
  <1>9. ASSUME NEW c \in Callers, PersistRefreshSuccess(c) PROVE SingleUse'
    BY <1>9 DEF PersistRefreshSuccess, Return
  <1>10. ASSUME NEW c \in Callers, MarkPendingReauth(c) PROVE SingleUse'
    BY <1>10 DEF MarkPendingReauth, Return
  <1>11. ASSUME NEW c \in Callers, ClearRefreshClaim(c) PROVE SingleUse'
    BY <1>11 DEF ClearRefreshClaim, ClaimAfterClear, Return
  <1>12. ASSUME Evict PROVE SingleUse'
    BY <1>12 DEF Evict
  <1>13. ASSUME Reconnect PROVE SingleUse'
    BY <1>13 DEF Reconnect
  <1>14. ASSUME MarkConnectionPendingReauth \/ Disconnect \/ InvalidateStale \/ Revoke
         PROVE  SingleUse'
    BY <1>14 DEF MarkConnectionPendingReauth, Disconnect, InvalidateStale, Revoke
  <1>15. ASSUME AccessTokenExpires \/ DayPasses PROVE SingleUse'
    BY <1>15 DEF AccessTokenExpires, DayPasses
  <1>16. ASSUME ClaimGoesStale PROVE SingleUse'
    BY <1>16 DEF ClaimGoesStale, Fault
  <1>17. ASSUME UNCHANGED vars PROVE SingleUse'
    BY <1>17 DEF vars
  <1>18. QED
    BY <1>1, <1>2, <1>3, <1>4, <1>5, <1>6, <1>7, <1>8, <1>9, <1>10, <1>11, <1>12,
       <1>13, <1>14, <1>15, <1>16, <1>17
       DEF Next, RequestStep, AtRest

\* Both layers hold of every behaviour.
THEOREM Invariance == Spec => [](RowInv /\ SingleUse)
  <1>1. Init => RowInv /\ SingleUse
    BY InitInv
  <1>2. RowInv /\ SingleUse /\ [Next]_vars => (RowInv /\ SingleUse)'
    BY RowStep, SingleUseStep
  <1>3. QED
    BY <1>1, <1>2, PTL DEF Spec

(* Type correctness; a claimed request always has a token to send.         *)
THEOREM TypeCorrect == Spec => []TypeOK
  <1>1. RowInv /\ SingleUse => TypeOK
    BY DEF RowInv
  <1>2. QED
    BY <1>1, Invariance, PTL

(* The claim of the row is never leaked, except by a request that died.    *)
THEOREM ClaimCorrect == Spec => []ClaimIsOwned
  <1>1. RowInv /\ SingleUse => ClaimIsOwned
    BY DEF RowInv
  <1>2. QED
    BY <1>1, Invariance, PTL

(* The grace clock of every pending_reauth connection runs.                *)
THEOREM ClockCorrect == Spec => []PendingHasClock
  <1>1. RowInv /\ SingleUse => PendingHasClock
    BY DEF RowInv
  <1>2. QED
    BY <1>1, Invariance, PTL

(* No refresh token is sent twice, whatever is evicted and when.           *)
THEOREM SingleUseCorrect == Spec => []SpentNeverReplayed
  <1>1. RowInv /\ SingleUse => SpentNeverReplayed
    BY DEF SingleUse
  <1>2. QED
    BY <1>1, Invariance, PTL

(* A spent token in the row has its successor on the way.                  *)
THEOREM SuccessorCorrect == Spec => []SpentHasSuccessor
  <1>1. RowInv /\ SingleUse => SpentHasSuccessor
    BY DEF SingleUse
  <1>2. QED
    BY <1>1, Invariance, PTL
=============================================================================
