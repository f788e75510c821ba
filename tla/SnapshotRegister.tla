--------------------------- MODULE SnapshotRegister ---------------------------
(***************************************************************************)
(* What the distribution of snapshots promises: a register that holds the  *)
(* current snapshot, or none.  A data plane that loads looks at it twice,  *)
(* serves what it saw at the first look and says that it serves what it    *)
(* saw at the second.                                                      *)
(***************************************************************************)
CONSTANTS Snapshots, DataPlanes, None

VARIABLES
  value,      \* the current snapshot
  first,      \* per data plane, what the first look of its load saw
  second,     \* per data plane, what the second look saw
  served,     \* per data plane, what it serves
  named       \* per data plane, what it says it serves

vars == <<value, first, second, served, named>>

Nothing == [d \in DataPlanes |-> None]

RegisterInit ==
  /\ value = None /\ first = Nothing /\ second = Nothing
  /\ served = Nothing /\ named = Nothing

\* A publication makes a snapshot the current one; one that fails half-way may
\* leave none.
Set(s) == value' = s /\ UNCHANGED <<first, second, served, named>>

Look(d) ==
  /\ first[d] = None /\ value # None
  /\ first' = [first EXCEPT ![d] = value]
  /\ UNCHANGED <<value, second, served, named>>

LookAgain(d) ==
  /\ first[d] # None /\ second[d] = None /\ value # None
  /\ second' = [second EXCEPT ![d] = value]
  /\ UNCHANGED <<value, first, served, named>>

Forget(d) == first' = [first EXCEPT ![d] = None] /\ second' = [second EXCEPT ![d] = None]

Serve(d) ==
  /\ first[d] # None /\ second[d] # None
  /\ served' = [served EXCEPT ![d] = first[d]]
  /\ named' = [named EXCEPT ![d] = second[d]]
  /\ Forget(d) /\ UNCHANGED value

\* At its start a data plane does without the second look if that fails.
ServeUnnamed(d) ==
  /\ first[d] # None /\ served[d] = None
  /\ served' = [served EXCEPT ![d] = first[d]]
  /\ Forget(d) /\ UNCHANGED <<value, named>>

\* A load that fails leaves what is served alone.
GiveUp(d) == Forget(d) /\ UNCHANGED <<value, served, named>>

Stop(d) ==
  /\ served' = [served EXCEPT ![d] = None] /\ named' = [named EXCEPT ![d] = None]
  /\ Forget(d) /\ UNCHANGED value

RegisterNext ==
  \/ \E s \in Snapshots \cup {None} : Set(s)
  \/ \E d \in DataPlanes :
       Look(d) \/ LookAgain(d) \/ Serve(d) \/ ServeUnnamed(d) \/ GiveUp(d) \/ Stop(d)

RegisterSpec == RegisterInit /\ [][RegisterNext]_vars
================================================================================
