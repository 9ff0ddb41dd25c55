------------------------------- MODULE Custody -------------------------------
(***************************************************************************)
(* What the bridge promises of the cloud resources it is given, whatever   *)
(* it does to keep the promise.  A resource is in its custody while an     *)
(* object with its finalizer stands for it.  It is created only in         *)
(* custody; its identity travels from the provider's reply to the object;  *)
(* and custody ends only when the identity has been given up, which takes  *)
(* that the resource is gone.  Between the reply and the record the        *)
(* identity can be lost, and only then.                                    *)
(***************************************************************************)

CONSTANTS
  Resources,  \* names of custom resources
  Specs,      \* what a cloud resource can be like
  None        \* there is none

VARIABLES
  cloud,      \* the cloud resource, or None
  held,       \* an object with the finalizer stands for it
  identity,   \* "none", "inflight" to the object, or "recorded" there
  lost        \* the identity of what is in the cloud has been lost

vars == <<cloud, held, identity, lost>>

Init ==
  /\ cloud = [r \in Resources |-> None]
  /\ held = [r \in Resources |-> FALSE]
  /\ identity = [r \in Resources |-> "none"]
  /\ lost = [r \in Resources |-> FALSE]

Hold(r) ==
  /\ held' = [held EXCEPT ![r] = TRUE]
  /\ UNCHANGED <<cloud, identity, lost>>

\* The provider has created it and its reply is on the way.
Create(r) ==
  /\ held[r] /\ identity[r] = "none" /\ cloud[r] = None
  /\ \E s \in Specs : cloud' = [cloud EXCEPT ![r] = s]
  /\ identity' = [identity EXCEPT ![r] = "inflight"]
  /\ UNCHANGED <<held, lost>>

\* The provider has created it and reports an error.
CreateFails(r) ==
  /\ held[r] /\ identity[r] = "none" /\ cloud[r] = None
  /\ \E s \in Specs : cloud' = [cloud EXCEPT ![r] = s]
  /\ lost' = [lost EXCEPT ![r] = TRUE]
  /\ UNCHANGED <<held, identity>>

Record(r) ==
  /\ identity[r] = "inflight"
  /\ identity' = [identity EXCEPT ![r] = "recorded"]
  /\ UNCHANGED <<cloud, held, lost>>

\* Replies that never arrive; a process that dies loses all it was waiting for.
Lose(R) ==
  /\ \A r \in R : identity[r] = "inflight"
  /\ identity' = [r \in Resources |-> IF r \in R THEN "none" ELSE identity[r]]
  /\ lost' = [r \in Resources |-> r \in R \/ lost[r]]
  /\ UNCHANGED <<cloud, held>>

Update(r) ==
  /\ identity[r] = "recorded"
  /\ \E s \in Specs : cloud' = [cloud EXCEPT ![r] = s]
  /\ UNCHANGED <<held, identity, lost>>

Destroy(r) ==
  /\ identity[r] = "recorded"
  /\ cloud' = [cloud EXCEPT ![r] = None]
  /\ UNCHANGED <<held, identity, lost>>

\* The record of what has been destroyed is cleared.
GiveUp(r) ==
  /\ identity[r] = "recorded"
  /\ cloud[r] = None \/ lost[r]
  /\ identity' = [identity EXCEPT ![r] = "none"]
  /\ UNCHANGED <<cloud, held, lost>>

Release(r) ==
  /\ identity[r] = "none"
  /\ cloud[r] = None \/ lost[r]
  /\ held' = [held EXCEPT ![r] = FALSE]
  /\ UNCHANGED <<cloud, identity, lost>>

\* From outside: what is gone is not lost any more.
Drift(r) ==
  /\ cloud[r] # None
  /\ \E c \in Specs \cup {None} :
       /\ cloud' = [cloud EXCEPT ![r] = c]
       /\ lost' = [lost EXCEPT ![r] = @ /\ c # None]
  /\ UNCHANGED <<held, identity>>

Next ==
  \/ \E r \in Resources :
       \/ Hold(r) \/ Create(r) \/ CreateFails(r) \/ Record(r) \/ Update(r)
       \/ Destroy(r) \/ GiveUp(r) \/ Release(r) \/ Drift(r)
  \/ \E R \in SUBSET Resources : Lose(R)

Spec == Init /\ [][Next]_vars

\* What custody is for: everything in the cloud that is not lost is held, and
\* its identity is recorded or about to be.
Accounted ==
  \A r \in Resources :
    /\ identity[r] # "none" => held[r]
    /\ cloud[r] # None /\ ~lost[r] => held[r] /\ identity[r] # "none"

=============================================================================
