------------------------------ MODULE InFlight ------------------------------
(***************************************************************************)
(* internal.InFlight: the set of keys of the requests a process is serving.*)
(* The controller and the node service each own one.  Both methods run     *)
(* under the structure's mutex, so each is a single atomic step of the     *)
(* handler that calls it; the map[string]bool only ever holds true, so it  *)
(* is the set of its keys.                                                 *)
(***************************************************************************)

\* NewInFlight: a process starts with no request in flight.
NewInFlight == {}

\* Mutant: the lookup is not made, or is made before the mutex is taken.
CanInsertAlways(db, key) == TRUE

\* Mutant: one request at a time, whatever its key.
CanInsertIntoEmpty(db, key) == db = {}

\* The lookup of Insert: it returns false when the key is already present.
CanInsert(db, key) == key \notin db

\* Insert, when the lookup found nothing.
Insert(db, key) == db \cup {key}

\* Mutant: the entry is never removed.
DeleteNothing(db, key) == db

\* Delete: removes the entry and "will do nothing if the specified key
\* doesn't exist".
Delete(db, key) == db \ {key}

=============================================================================
