----------------------------- MODULE MCObserver -----------------------------
(* SyncObserver on the small instances of MCEngine. *)
EXTENDS SyncObserver, MCEngine

\* agreement: the limits of MCEngine, and two handles without a store.
ObservedConfigs ==
  LimitedConfigs
    \cup Configured({FALSE}, {"Confirmed"}, {"RemoteWins"}, {FALSE})
    \cup Configured({FALSE}, {"Optimistic"}, {"LocalWins"}, {FALSE})
=============================================================================
