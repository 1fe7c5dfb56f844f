---------------------------- MODULE IdentityLookups ----------------------------
(***************************************************************************)
(* One key of a KeyedAsyncCache (lib/utils/keyed-async-cache.ts), as the   *)
(* client uses it for DM handles (getDmByInboxIdCached) and for inbox      *)
(* states (fetchInboxStateCached), with the identity cooldown that a rate  *)
(* limit starts and the clear() of every disconnect and connect.           *)
(***************************************************************************)
EXTENDS Naturals

CONSTANTS
  Fetches,    \* the fetches there may be
  MaxLookClients,  \* bound: connected clients, one after the other
  NoFetch

VARIABLES
  kind,    \* "dm" or "state": which of the two caches
  lookClient,  \* the connected client, 0 for none
  clients, \* clients so far
  cached,  \* the entry: [found, from, fresh], or NoFetch
  lookFlight,  \* the fetch callers join, or NoFetch
  lookRunning,  \* the fetches under way, and the client each one asked
  cooling  \* the identity cooldown is on

lookupVars == <<kind, lookClient, clients, cached, lookFlight, lookRunning, cooling>>

\* dmByInboxCache and inboxStatesCache.
Kinds == {"dm", "state"}

LookupInit ==
  /\ kind \in Kinds
  /\ lookClient = 0 /\ clients = 0
  /\ cached = NoFetch /\ lookFlight = NoFetch /\ lookRunning = [f \in {} |-> 0]
  /\ cooling = FALSE

Hit == cached # NoFetch /\ cached.fresh

\* What the fetcher of inbox states gives when it fails: the old entry, of whatever age.
Peek(from) == IF cached = NoFetch THEN [found |-> FALSE, from |-> from, fresh |-> TRUE]
                                  ELSE [cached EXCEPT !.fresh = TRUE]

\* get: neither a fresh entry nor a fetch to join.
Lookup(f) ==
  /\ f \notin DOMAIN lookRunning
  /\ kind = "dm" => lookClient # 0
  /\ ~Hit /\ lookFlight = NoFetch
  /\ ~(kind = "state" /\ cooling)
  /\ lookRunning' = [g \in DOMAIN lookRunning \cup {f} |->
                      IF g = f THEN lookClient ELSE lookRunning[g]]
  /\ lookFlight' = f
  /\ UNCHANGED <<kind, lookClient, clients, cached, cooling>>

\* During the cooldown retryWithBackoff throws before it asks.
LookupSkipped ==
  /\ kind = "state" /\ cooling /\ ~Hit /\ lookFlight = NoFetch
  /\ cached' = Peek(lookClient)
  /\ UNCHANGED <<kind, lookClient, clients, lookFlight, lookRunning, cooling>>

\* The end of a fetch takes away the flight, whosever it is.
Landed(f) == NoFetch

Ended(f) ==
  /\ lookRunning' = [g \in DOMAIN lookRunning \ {f} |-> lookRunning[g]]
  /\ lookFlight' = Landed(f)

\* reduceIdentityCooldown: a success halves the backoff, and at zero the cooldown ends.
Thawing == {cooling, FALSE}

Answered(f) ==
  /\ f \in DOMAIN lookRunning /\ Ended(f)
  /\ \E b \in BOOLEAN : cached' = [found |-> b, from |-> lookRunning[f], fresh |-> TRUE]
  /\ cooling' \in Thawing
  /\ UNCHANGED <<kind, lookClient, clients>>

\* noteIdentityRateLimit: the failure of an inbox state may be a rate limit.
Limiting == IF kind = "dm" THEN {cooling} ELSE {cooling, TRUE}

\* A DM that cannot be looked up is remembered as none.
LookupFailed(f) ==
  /\ f \in DOMAIN lookRunning /\ Ended(f)
  /\ cached' = IF kind = "dm" THEN [found |-> FALSE, from |-> lookRunning[f], fresh |-> TRUE]
                              ELSE Peek(lookRunning[f])
  /\ cooling' \in Limiting
  /\ UNCHANGED <<kind, lookClient, clients>>

Expire ==
  /\ Hit /\ cached' = [cached EXCEPT !.fresh = FALSE]
  /\ UNCHANGED <<kind, lookClient, clients, lookFlight, lookRunning, cooling>>

Thaw ==
  /\ cooling /\ cooling' = FALSE
  /\ UNCHANGED <<kind, lookClient, clients, cached, lookFlight, lookRunning>>

CacheCleared == cached' = NoFetch /\ lookFlight' = NoFetch

ConnectLookups ==
  /\ lookClient = 0 /\ clients < MaxLookClients
  /\ clients' = clients + 1 /\ lookClient' = clients'
  /\ CacheCleared
  /\ UNCHANGED <<kind, lookRunning, cooling>>

(* connect's catch drops a client without clearing the cache: the client it     *)
(* drops was never activated, so nobody has asked it for a lookup.              *)
DisconnectLookups ==
  /\ lookClient # 0 /\ lookClient' = 0
  /\ CacheCleared
  /\ UNCHANGED <<kind, clients, lookRunning, cooling>>

LookupNext ==
  \/ \E f \in Fetches : Lookup(f) \/ Answered(f) \/ LookupFailed(f)
  \/ LookupSkipped \/ Expire \/ Thaw \/ ConnectLookups \/ DisconnectLookups

LookupSpec == LookupInit /\ [][LookupNext]_lookupVars
-----------------------------------------------------------------------------
(* Properties *)

\* Every variable has its type.
LookupTypeOK ==
  /\ kind \in Kinds /\ lookClient \in 0 .. MaxLookClients /\ clients \in 0 .. MaxLookClients
  /\ cached \in {NoFetch} \cup [found : BOOLEAN, from : 0 .. MaxLookClients, fresh : BOOLEAN]
  /\ lookFlight \in {NoFetch} \cup Fetches
  /\ DOMAIN lookRunning \subseteq Fetches
  /\ \A f \in DOMAIN lookRunning : lookRunning[f] \in 0 .. MaxLookClients
  /\ cooling \in BOOLEAN

\* keyed-async-cache.ts:17, "in-flight dedupe per key": the fetch a caller joins is
\* still under way and asks the client that is connected now, however the fetches of
\* earlier clients, failures and clears fall between.
FlightsAreLive ==
  lookFlight # NoFetch => lookFlight \in DOMAIN lookRunning /\ lookRunning[lookFlight] = lookClient
=============================================================================
