----------------------------- MODULE ClientFlights -----------------------------
(***************************************************************************)
(* The two kinds of call that callers of one client share: the sync of the *)
(* conversations (SharedCalls) and the lookup of an identity or a direct   *)
(* message (IdentityLookups).  Neither touches the other's state.          *)
(***************************************************************************)
EXTENDS SharedCalls, IdentityLookups

\* client.ts, runStatefulOperation, and keyed-async-cache.ts: a client has one sync at a
\* time, and the lookup a caller joins is under way, at the connected client.
SingleFlights == OneSyncPerClient /\ FlightsAreLive
=============================================================================
