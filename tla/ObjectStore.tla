------------------------------ MODULE ObjectStore ------------------------------
(***************************************************************************)
(* The private storage: objects under names.  Rows of the database refer   *)
(* to objects by name, and no transaction spans both.                      *)
(*                                                                         *)
(* A save takes any name no object has: the file name as it was uploaded   *)
(* if it is free, another one otherwise (FileSystemStorage creates it      *)
(* exclusively).  So a name is free again once its object was deleted.     *)
(***************************************************************************)
CONSTANTS Names, None

VARIABLES
    objects,    \* the names that have an object
    cut         \* auxiliary: names a deletion freed that was never committed

storeVars == <<objects, cut>>

StoreInit == objects = {} /\ cut = {}

\* storage.save
Save(n) ==
    /\ n \notin objects
    /\ objects' = objects \cup {n}
    /\ UNCHANGED cut

\* _compensate_stored_upload: deletes what it can and never raises.
Compensate(ns) ==
    /\ \E kept \in SUBSET ns : objects' = objects \ (ns \ kept)
    /\ UNCHANGED cut

StoreTypeOK == objects \subseteq Names /\ cut \subseteq Names

==============================================================================
