-------------------------------- MODULE FoodMaps --------------------------------
(***************************************************************************)
(* What giving a food map away promises: a map goes to the other user, or  *)
(* to the public map, as a whole and in one step, nobody gets a place that *)
(* is on the map already, and every point stays under the name of the sort *)
(* that it was filed in.  MapTransfer implements this, in many steps; once *)
(* it is blurred, a part of a map may stay behind, but even then no point  *)
(* is lost, or goes anywhere but where the map was given, or is renamed.   *)
(***************************************************************************)
CONSTANTS
  Owners,   \* those who have a map
  Ids,      \* identifiers of points on maps
  Nothing   \* no owner, no sort

VARIABLES
  holder,   \* holder[p]: whose map p is on, or Nothing
  place,    \* place[p]: where p is
  label,    \* label[p]: the name of the sort of p, or Nothing
  labels,   \* labels[u]: the names of the sorts of u's map
  blurred

foodMaps == <<holder, place, label, labels, blurred>>

Held(u) == { p \in Ids : holder[p] = u }
PlacesHeld(u) == { place[p] : p \in Held(u) }

Init ==
  /\ holder = [p \in Ids |-> Nothing]
  /\ labels = [u \in Owners |-> {}]
  /\ ~blurred

(* A point comes to a map, filed in a sort of that map or in none. *)
Add(u, p) ==
  /\ holder[p] = Nothing
  /\ holder' = [holder EXCEPT ![p] = u]
  /\ place'[p] \notin PlacesHeld(u)
  /\ label'[p] \in labels[u] \cup {Nothing}
  /\ \A q \in Ids \ {p} : place'[q] = place[q] /\ label'[q] = label[q]
  /\ UNCHANGED <<labels, blurred>>

AddLabel(u, n) ==
  /\ n \notin labels[u]
  /\ labels' = [labels EXCEPT ![u] = @ \cup {n}]
  /\ UNCHANGED <<holder, place, label, blurred>>

Give(from, to) ==
  /\ from # to
  /\ PlacesHeld(from) \cap PlacesHeld(to) = {}
  /\ holder' = [p \in Ids |-> IF holder[p] = from THEN to ELSE holder[p]]
  /\ labels' = [labels EXCEPT ![to] = @ \cup labels[from], ![from] = {}]
  /\ UNCHANGED <<place, label, blurred>>

GiveInPart(from, to) ==
  /\ blurred'
  /\ holder' \in [Ids -> Owners \cup {Nothing}]
  /\ \A p \in Ids : holder'[p] # holder[p] => holder[p] = from /\ holder'[p] = to
  /\ UNCHANGED <<place, label>>

Next ==
  \E u \in Owners :
    \/ \E p \in Ids : Add(u, p)
    \/ \E n \in labels'[u] : AddLabel(u, n)
    \/ \E to \in Owners : (~blurred /\ Give(u, to)) \/ GiveInPart(u, to)

Spec == Init /\ [][Next]_foodMaps
================================================================================
