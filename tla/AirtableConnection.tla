------------------------- MODULE AirtableConnection -------------------------
(***************************************************************************)
(* One Airtable row of the connections table: its OAuth tokens, the claim  *)
(* that protects their refresh and its status, with every actor that       *)
(* writes them:                                                            *)
(*                                                                         *)
(*   - /token requests to the ConnectionDO (tasks, routes, the cron        *)
(*     sweep), which refresh an expiring access token: resolveAirtableToken*)
(*   - the completion of a task that Airtable answered 401 or 403;         *)
(*   - the user, who reconnects or disconnects in the web app;             *)
(*   - the daily job that invalidates a connection pending_reauth for long.*)
(*                                                                         *)
(* A refresh token works once: Airtable rotates it on use.  The Durable    *)
(* Object runs one refresh at a time, but after it is evicted a new one    *)
(* may start while the requests of the old one are still under way; the    *)
(* claim in the row is for that case.                                      *)
(***************************************************************************)
EXTENDS Naturals, FiniteSets

CONSTANTS
  Callers,        \* /token requests that can be under way at once
  Grace,          \* PENDING_REAUTH_GRACE_MS in days
  MaxExpiries,    \* bound: times an access token runs out
  MaxReconnects,  \* bound: reconnects of the user
  MaxFaults       \* bound: crashes, lost answers, refusals and stalls together

ASSUME CallersAssumption == Callers \cap {"none", "abandoned"} = {}
ASSUME BoundsAssumption ==
  Grace \in Nat /\ MaxExpiries \in Nat /\ MaxReconnects \in Nat /\ MaxFaults \in Nat

VARIABLES
  status,             \* connections.status
  token,              \* connections.refresh_token_enc, or NoToken
  fresh,              \* token_expires_at is beyond the refresh lookahead
  claim,              \* oauth_refresh_claim_id: whose it is, or "none"
  claimStale,         \* oauth_refresh_claimed_at is older than CLAIM_STALE_MS
  pendingAge,         \* days since pending_reauth_at, or NotSet
  inDO,               \* the request the Durable Object is blocked on, or "none"
  pc, known, outcome, gained,  \* the requests, their token and Airtable's answer
  live, spent, issued,         \* Airtable: tokens that work, that were used up
  expiries, reconnects, faults

rowVars     == <<status, token, fresh, claim, claimStale, pendingAge>>
requestVars == <<inDO, pc, known, outcome, gained>>
airtable    == <<live, spent, issued>>
counters    == <<expiries, reconnects, faults>>
vars == <<rowVars, requestVars, airtable, counters>>

NoToken == 0
NotSet  == Grace + 1
Claims  == Callers \cup {"none", "abandoned"}

TypeOK ==
  /\ status \in {"active", "pending_reauth", "invalid"}
  /\ token \in 0..issued
  /\ fresh \in BOOLEAN /\ claimStale \in BOOLEAN
  /\ claim \in Claims
  /\ pendingAge \in 0..NotSet
  /\ inDO \in Callers \cup {"none"}
  /\ pc \in [Callers -> {"idle", "fetched", "claimed", "answered"}]
  /\ \A c \in Callers : pc[c] = "fetched" => known[c] # NoToken
  /\ known \in [Callers -> 0..issued] /\ gained \in [Callers -> 0..issued]
  /\ outcome \in [Callers -> {"none", "success", "pending_reauth", "retry"}]
  /\ issued \in Nat /\ live \subseteq 1..issued /\ spent \subseteq 1..issued
  /\ expiries \in 0..MaxExpiries /\ reconnects \in 0..MaxReconnects
  /\ faults \in 0..MaxFaults

\* A connection as the first connect leaves it.
Init ==
  /\ status = "active" /\ token = 1 /\ fresh = TRUE
  /\ claim = "none" /\ claimStale = FALSE
  /\ pendingAge = NotSet
  /\ inDO = "none"
  /\ pc = [c \in Callers |-> "idle"]
  /\ known = [c \in Callers |-> NoToken] /\ gained = [c \in Callers |-> NoToken]
  /\ outcome = [c \in Callers |-> "none"]
  /\ live = {1} /\ spent = {} /\ issued = 1
  /\ expiries = 0 /\ reconnects = 0 /\ faults = 0

Fault == faults < MaxFaults /\ faults' = faults + 1 /\ UNCHANGED <<expiries, reconnects>>

-----------------------------------------------------------------------------
(* A /token request: ConnectionDO.getToken and resolveAirtableToken.       *)

\* The request is over and the Durable Object, if it is blocked on this
\* one, serves the next.
Return(c) ==
  /\ pc' = [pc EXCEPT ![c] = "idle"]
  /\ known' = [known EXCEPT ![c] = NoToken]
  /\ gained' = [gained EXCEPT ![c] = NoToken]
  /\ outcome' = [outcome EXCEPT ![c] = "none"]
  /\ inDO' = IF inDO = c THEN "none" ELSE inDO

\* The row asks for a refresh.  Every other answer (inactive connection,
\* fresh access token, no refresh token) changes nothing and is no step.
NeedsRefreshWithoutToken == status = "active" /\ ~ fresh
NeedsRefresh == status = "active" /\ ~ fresh /\ token # NoToken

FetchConnection(c) ==
  /\ pc[c] = "idle"
  /\ inDO = "none"
  /\ NeedsRefresh
  /\ pc' = [pc EXCEPT ![c] = "fetched"]
  /\ known' = [known EXCEPT ![c] = token]
  /\ inDO' = c
  /\ UNCHANGED <<rowVars, outcome, gained, airtable, counters>>

\* The WHERE of claimRefresh.
ClaimIsFreeUnchecked == status = "active"
ClaimIsFreeNeverStale == status = "active" /\ claim = "none"
ClaimIsFree == status = "active" /\ (claim = "none" \/ claimStale)

\* The token a claim goes on with: the one of the claimed row.
TokenToRefreshAsFetched(c) == known[c]
TokenToRefresh(c) == token

ClaimRefresh(c) ==
  /\ pc[c] = "fetched"
  /\ ClaimIsFree
  /\ claim' = c
  /\ claimStale' = FALSE
  /\ pc' = [pc EXCEPT ![c] = "claimed"]
  /\ known' = [known EXCEPT ![c] = TokenToRefresh(c)]
  /\ UNCHANGED <<status, token, fresh, pendingAge, inDO, outcome, gained,
                 airtable, counters>>

\* refresh_claim_unavailable.
ClaimUnavailable(c) ==
  /\ pc[c] = "fetched"
  /\ ~ ClaimIsFree
  /\ Return(c)
  /\ UNCHANGED <<rowVars, airtable, counters>>

\* The claimed row lost its refresh token since the fetch: decrypt throws.
DecryptThrows(c) ==
  /\ pc[c] = "claimed" /\ known[c] = NoToken
  /\ Return(c)
  /\ claim' = IF claim = c THEN "abandoned" ELSE claim
  /\ UNCHANGED <<status, token, fresh, claimStale, pendingAge, airtable, counters>>

Answer(c, kind, t) ==
  /\ pc[c] = "claimed" /\ known[c] # NoToken
  /\ pc' = [pc EXCEPT ![c] = "answered"]
  /\ outcome' = [outcome EXCEPT ![c] = kind]
  /\ gained' = [gained EXCEPT ![c] = t]
  /\ UNCHANGED <<rowVars, known, inDO>>

\* Airtable takes the token and issues the next one.
Rotate(c) ==
  /\ known[c] \in live
  /\ issued' = issued + 1
  /\ live' = (live \ {known[c]}) \cup {issued'}
  /\ spent' = spent \cup {known[c]}

Refreshed(c) ==
  /\ Rotate(c)
  /\ Answer(c, "success", issued')
  /\ UNCHANGED counters

\* An answer without a refresh_token keeps the one that was sent.
RefreshedKeepingToken(c) ==
  /\ known[c] \in live
  /\ Answer(c, "success", known[c])
  /\ UNCHANGED <<airtable, counters>>

\* invalid_grant and its kin: the token was spent or revoked.
RefreshRejected(c) ==
  /\ known[c] \notin live
  /\ Answer(c, "pending_reauth", NoToken)
  /\ UNCHANGED <<airtable, counters>>

\* 409, 429, 5xx, an unreadable answer or a network error, before or after
\* Airtable rotated the token: transient or invalid, both end the same way.
RefreshFails(c) ==
  /\ Fault
  /\ Answer(c, "retry", NoToken)
  /\ Rotate(c) \/ UNCHANGED airtable

\* persistRefreshSuccess: only while the claim is still this request's;
\* otherwise persist_failed and the new tokens are lost.
PersistRefreshSuccess(c) ==
  /\ pc[c] = "answered" /\ outcome[c] = "success"
  /\ IF claim = c
     THEN /\ token' = gained[c] /\ fresh' = TRUE
          /\ claim' = "none" /\ claimStale' = FALSE
     ELSE UNCHANGED <<token, fresh, claim, claimStale>>
  /\ Return(c)
  /\ UNCHANGED <<status, pendingAge, airtable, counters>>

\* pending_reauth_at after markPendingReauth.
PendingAgeAfterMarkForgotten == pendingAge
PendingAgeAfterMark == 0

\* markPendingReauth: guarded by the claim alone.
MarkPendingReauth(c) ==
  /\ pc[c] = "answered" /\ outcome[c] = "pending_reauth"
  /\ IF claim = c
     THEN /\ status' = "pending_reauth" /\ pendingAge' = PendingAgeAfterMark
          /\ claim' = "none" /\ claimStale' = FALSE
     ELSE UNCHANGED <<status, pendingAge, claim, claimStale>>
  /\ Return(c)
  /\ UNCHANGED <<token, fresh, airtable, counters>>

\* The claim after clearRefreshClaim.
ClaimAfterClear(c) == IF claim = c THEN "none" ELSE claim

ClearRefreshClaim(c) ==
  /\ pc[c] = "answered" /\ outcome[c] = "retry"
  /\ claim' = ClaimAfterClear(c)
  /\ claimStale' = (claimStale /\ claim # c)
  /\ Return(c)
  /\ UNCHANGED <<status, token, fresh, pendingAge, airtable, counters>>

\* The request dies or its last UPDATE fails.  Nobody knows its claim id any
\* more: a claim of its own stays in the row, abandoned.
RequestDies(c) ==
  /\ pc[c] # "idle"
  /\ Fault
  /\ Return(c)
  /\ claim' = IF claim = c THEN "abandoned" ELSE claim
  /\ UNCHANGED <<status, token, fresh, claimStale, pendingAge, airtable>>

\* The Durable Object is evicted; the request it was blocked on goes on
\* (or dies, above), and a new object serves the next.
Evict ==
  /\ inDO # "none"
  /\ inDO' = "none"
  /\ UNCHANGED <<rowVars, pc, known, outcome, gained, airtable, counters>>

-----------------------------------------------------------------------------
(* The other writers of the row.                                           *)

\* /complete with an Airtable 401 or 403: active -> pending_reauth, keeping a
\* pending_reauth_at that is set.
MarkConnectionPendingReauth ==
  /\ status = "active"
  /\ status' = "pending_reauth"
  /\ pendingAge' = IF pendingAge = NotSet THEN 0 ELSE pendingAge
  /\ UNCHANGED <<token, fresh, claim, claimStale, requestVars, airtable, counters>>

\* persistAirtableConnection: new tokens, status active; neither the claim
\* nor pending_reauth_at is touched.  Airtable may revoke the older tokens.
Reconnect ==
  /\ reconnects < MaxReconnects
  /\ reconnects' = reconnects + 1
  /\ issued' = issued + 1
  /\ token' \in {issued', NoToken}
  /\ live' \in {live \cup {issued'}, {issued'}}
  /\ status' = "active" /\ fresh' = TRUE
  /\ UNCHANGED <<claim, claimStale, pendingAge, requestVars, spent,
                 expiries, faults>>

\* disconnectAirtableConnection.
Disconnect ==
  /\ status # "invalid"
  /\ status' = "invalid"
  /\ UNCHANGED <<token, fresh, claim, claimStale, pendingAge, requestVars,
                 airtable, counters>>

\* runConnectionAutoInvalidate: pending_reauth_at is at least Grace ago.
InvalidateStale ==
  /\ status = "pending_reauth" /\ pendingAge = Grace
  /\ status' = "invalid"
  /\ UNCHANGED <<token, fresh, claim, claimStale, pendingAge, requestVars,
                 airtable, counters>>

\* The user revokes the grant at Airtable, or it idles for 60 days.
Revoke ==
  /\ live # {}
  /\ live' = {}
  /\ UNCHANGED <<rowVars, requestVars, spent, issued, counters>>

-----------------------------------------------------------------------------
(* Time.                                                                   *)

AccessTokenExpires ==
  /\ fresh
  /\ expiries < MaxExpiries
  /\ expiries' = expiries + 1
  /\ fresh' = FALSE
  /\ UNCHANGED <<status, token, claim, claimStale, pendingAge, requestVars,
                 airtable, reconnects, faults>>

\* CLAIM_STALE_MS is longer than a refresh takes, unless the request stalls.
ClaimGoesStale ==
  /\ claim # "none" /\ ~ claimStale
  /\ IF claim = "abandoned" THEN UNCHANGED counters ELSE Fault
  /\ claimStale' = TRUE
  /\ UNCHANGED <<status, token, fresh, claim, pendingAge, requestVars, airtable>>

\* No request is open for a day.
DayPasses ==
  /\ \A c \in Callers : pc[c] = "idle"
  /\ pendingAge < Grace
  /\ pendingAge' = pendingAge + 1
  /\ UNCHANGED <<status, token, fresh, claim, claimStale, requestVars, airtable, counters>>

\* Nothing is left to happen but a revocation.
AtRest ==
  /\ status = "invalid" /\ reconnects = MaxReconnects
  /\ \A c \in Callers : pc[c] = "idle"
  /\ UNCHANGED vars

RequestStep(c) ==
  \/ ClaimRefresh(c) \/ ClaimUnavailable(c) \/ DecryptThrows(c)
  \/ Refreshed(c) \/ RefreshedKeepingToken(c) \/ RefreshRejected(c)
  \/ PersistRefreshSuccess(c) \/ MarkPendingReauth(c) \/ ClearRefreshClaim(c)

Next ==
  \/ \E c \in Callers : \/ FetchConnection(c) \/ RequestStep(c)
                        \/ RefreshFails(c) \/ RequestDies(c)
  \/ Evict
  \/ MarkConnectionPendingReauth \/ Reconnect \/ Disconnect \/ InvalidateStale
  \/ Revoke
  \/ AccessTokenExpires \/ ClaimGoesStale \/ DayPasses
  \/ AtRest

Spec == Init /\ [][Next]_vars

\* The */15 sweep asks for a token of every expiring connection for ever,
\* requests run to their end, time passes and the daily job runs.
Fairness ==
  /\ WF_vars(\E c \in Callers : FetchConnection(c))
  /\ \A c \in Callers : WF_vars(RequestStep(c))
  /\ WF_vars(ClaimGoesStale /\ claim = "abandoned")
  /\ WF_vars(DayPasses) /\ WF_vars(InvalidateStale)

FairSpec == Spec /\ Fairness

-----------------------------------------------------------------------------
(* What holds.                                                             *)

\* The claim in the row belongs to a request that is between its claim and
\* its answer, or was abandoned by one that died: no other path leaks it.
ClaimIsOwned == claim \in Callers => pc[claim] \in {"claimed", "answered"}

\* Single use, across evictions of the Durable Object: as long as no request
\* died, stalled or lost its answer, no refresh token is sent twice,
SpentNeverReplayed ==
  faults = 0 => \A c \in Callers : pc[c] = "claimed" => known[c] \notin spent

\* and the row holds a spent token only while the holder of the claim has
\* its successor in hand: a connection is never lost to its own refreshes.
SpentHasSuccessor ==
  (faults = 0 /\ token \in spent) => claim \in Callers /\ outcome[claim] = "success"

\* A pending_reauth connection always has its grace clock running.
PendingHasClock == status = "pending_reauth" => pendingAge # NotSet

\* An expiring token is refreshed or the connection leaves active, also after
\* a request died with the claim.
EventuallyFresh == NeedsRefresh ~> ~ NeedsRefresh

\* A dead connection does not stay pending_reauth for ever.
PendingEnds == status = "pending_reauth" ~> status # "pending_reauth"

=============================================================================
