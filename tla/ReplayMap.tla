------------------------------ MODULE ReplayMap ------------------------------
(***************************************************************************)
(* What a replay store promises: a map from requests to responses that     *)
(* changes one entry at a time.  Without a lock the promise is to readers  *)
(* only: an operation changes the map that it has read, which may be older *)
(* than the one it overwrites.                                             *)
(***************************************************************************)
CONSTANTS Keys, Values, None

VARIABLES
  map,   \* the published map
  held   \* maps that operations under way have read

MapInit == map = [k \in Keys |-> None] /\ held = {}

\* An operation reads the map, or gives up what it has read.
MapHold == map' = map /\ held' \subseteq held \cup {map}

\* An operation publishes what it has read, with at most one entry changed.
MapPublish ==
  /\ held' \subseteq held
  /\ \E old \in held :
       \/ map' = old
       \/ \E k \in Keys, v \in Values : map' = [old EXCEPT ![k] = v]

MapSpec == MapInit /\ [][MapHold \/ MapPublish]_<<map, held>>
=============================================================================
