---------------------------- MODULE AtomicUpgrade ----------------------------
(***************************************************************************)
(* What the OS update of a device promises to an observer of its boots:    *)
(* versions are assigned; the device moves as a whole from one deployment  *)
(* to one that bears an assigned name, keeping the one it leaves as the    *)
(* fallback; and from an unhealthy deployment it may return to that        *)
(* fallback.  There is no other way for the running deployment to change.  *)
(***************************************************************************)
CONSTANTS Image, Name, NamesOf, FactoryImage, Unhealthy, NoImage

VARIABLES booted, fallback, assigned
vars == <<booted, fallback, assigned>>

Init ==
  /\ booted = FactoryImage
  /\ fallback = NoImage
  /\ assigned = {}

Assign(n) ==
  /\ assigned' = assigned \cup {n}
  /\ UNCHANGED <<booted, fallback>>

Upgrade(img) ==
  /\ NamesOf[img] \cap assigned # {}
  /\ booted' = img
  /\ fallback' = booted
  /\ UNCHANGED assigned

Rollback ==
  /\ booted \in Unhealthy
  /\ fallback # NoImage
  /\ booted' = fallback
  /\ fallback' = NoImage
  /\ UNCHANGED assigned

Next ==
  \/ \E n \in Name : Assign(n)
  \/ \E img \in Image : Upgrade(img)
  \/ Rollback

Spec == Init /\ [][Next]_vars
=============================================================================
