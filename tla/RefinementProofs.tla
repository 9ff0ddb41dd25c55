-------------------------- MODULE RefinementProofs --------------------------
(* The reconciler keeps what Custody promises, for any constants: every    *)
(* step of Reconciler is a step of Custody or leaves custody as it is.     *)
EXTENDS CopyProofs

InCustody(q) == Exists(q) /\ HasFinalizer(obj[q])

Only(r) == \A q \in Resources \ {r} : Untouched(q)

\* What Custody sees of q stays as it is.
Unseen(q) ==
  /\ cloud'[q] = cloud[q]
  /\ InCustody(q)' = InCustody(q)
  /\ IdentityOf(q)' = IdentityOf(q)
  /\ unrecorded'[q] = unrecorded[q]

LEMMA UntouchedUnseen ==
  ASSUME NEW q \in Resources, Untouched(q)
  PROVE  Unseen(q)
  BY DEF Untouched, Unseen, InCustody, IdentityOf, Exists, HasFinalizer,
         HasIdentity, Recorded

\* The two variables of Custody that are functions of this state.
HeldNow == [q \in Resources |-> Exists(q) /\ HasFinalizer(obj[q])]
IdentityNow == [q \in Resources |-> IdentityOf(q)]

\* A change of one resource, and no change, as changes of these functions.
LEMMA Pointwise ==
  ASSUME TypeOK, TypeOK', NEW r \in Resources, Only(r)
  PROVE  /\ cloud' = [cloud EXCEPT ![r] = cloud'[r]]
         /\ unrecorded' = [unrecorded EXCEPT ![r] = unrecorded'[r]]
         /\ HeldNow' = [HeldNow EXCEPT ![r] = InCustody(r)']
         /\ IdentityNow' = [IdentityNow EXCEPT ![r] = IdentityOf(r)']
<1>1. \A q \in Resources \ {r} : Unseen(q)
  BY UntouchedUnseen DEF Only
<1>2. cloud' = [cloud EXCEPT ![r] = cloud'[r]]
  BY <1>1 DEF Unseen, TypeOK
<1>3. unrecorded' = [unrecorded EXCEPT ![r] = unrecorded'[r]]
  BY <1>1 DEF Unseen, TypeOK
<1>4. HeldNow' = [HeldNow EXCEPT ![r] = InCustody(r)']
  BY <1>1 DEF Unseen, HeldNow, InCustody
<1>5. IdentityNow' = [IdentityNow EXCEPT ![r] = IdentityOf(r)']
  BY <1>1 DEF Unseen, IdentityNow
<1>6. QED
  BY <1>2, <1>3, <1>4, <1>5

LEMMA Same ==
  ASSUME TypeOK, NEW r \in Resources
  PROVE  /\ cloud = [cloud EXCEPT ![r] = cloud[r]]
         /\ unrecorded = [unrecorded EXCEPT ![r] = unrecorded[r]]
         /\ HeldNow = [HeldNow EXCEPT ![r] = InCustody(r)]
         /\ IdentityNow = [IdentityNow EXCEPT ![r] = IdentityOf(r)]
         /\ HeldNow[r] = InCustody(r) /\ IdentityNow[r] = IdentityOf(r)
<1>1. /\ cloud = [cloud EXCEPT ![r] = cloud[r]]
      /\ unrecorded = [unrecorded EXCEPT ![r] = unrecorded[r]]
  BY DEF TypeOK
<1>2. /\ HeldNow = [HeldNow EXCEPT ![r] = InCustody(r)]
      /\ HeldNow[r] = InCustody(r)
  BY DEF HeldNow, InCustody
<1>3. /\ IdentityNow = [IdentityNow EXCEPT ![r] = IdentityOf(r)]
      /\ IdentityNow[r] = IdentityOf(r)
  BY DEF IdentityNow
<1>4. QED
  BY <1>1, <1>2, <1>3

LEMMA StillHeld ==
  ASSUME TypeOK, TypeOK', NEW r \in Resources, Only(r),
         InCustody(r)' = InCustody(r)
  PROVE  HeldNow' = HeldNow
  BY Pointwise, Same

LEMMA Stutter ==
  ASSUME TypeOK, TypeOK', \A q \in Resources : Unseen(q)
  PROVE  UNCHANGED Abstract!vars
<1>1. cloud' = cloud /\ unrecorded' = unrecorded
  BY DEF Unseen, TypeOK
<1>2. HeldNow' = HeldNow /\ IdentityNow' = IdentityNow
  BY DEF HeldNow, IdentityNow, Unseen, InCustody
<1>3. QED
  BY <1>1, <1>2 DEF Abstract!vars, HeldNow, IdentityNow

\* How the changes of one resource read as steps of Custody.
LEMMA ToHold ==
  ASSUME TypeOK, TypeOK', NEW r \in Resources, Only(r),
         cloud'[r] = cloud[r], unrecorded'[r] = unrecorded[r],
         InCustody(r)' = TRUE, IdentityOf(r)' = IdentityOf(r)
  PROVE  Abstract!Hold(r)
<1>1. /\ HeldNow' = [HeldNow EXCEPT ![r] = TRUE]
      /\ UNCHANGED <<cloud, IdentityNow, unrecorded>>
  BY Pointwise, Same
<1>2. QED
  BY <1>1 DEF Abstract!Hold, HeldNow, IdentityNow

LEMMA ToCreate ==
  ASSUME TypeOK, TypeOK', NEW r \in Resources, Only(r),
         InCustody(r), IdentityOf(r) = "none", cloud[r] = None,
         cloud'[r] \in Specs, unrecorded'[r] = unrecorded[r],
         InCustody(r)' = InCustody(r), IdentityOf(r)' = "inflight"
  PROVE  Abstract!Create(r)
<1>0. HeldNow[r] /\ HeldNow' = HeldNow
  BY StillHeld DEF HeldNow, InCustody
<1>1. /\ IdentityNow[r] = "none"
      /\ cloud' = [cloud EXCEPT ![r] = cloud'[r]]
      /\ IdentityNow' = [IdentityNow EXCEPT ![r] = "inflight"]
      /\ UNCHANGED unrecorded
  BY Pointwise, Same
<1>2. QED
  BY <1>0, <1>1 DEF Abstract!Create, HeldNow, IdentityNow

LEMMA ToCreateFails ==
  ASSUME TypeOK, TypeOK', NEW r \in Resources, Only(r),
         InCustody(r), IdentityOf(r) = "none", cloud[r] = None,
         cloud'[r] \in Specs, unrecorded'[r] = TRUE,
         InCustody(r)' = InCustody(r), IdentityOf(r)' = IdentityOf(r)
  PROVE  Abstract!CreateFails(r)
<1>0. HeldNow[r] /\ HeldNow' = HeldNow
  BY StillHeld DEF HeldNow, InCustody
<1>1. /\ IdentityNow[r] = "none"
      /\ cloud' = [cloud EXCEPT ![r] = cloud'[r]]
      /\ unrecorded' = [unrecorded EXCEPT ![r] = TRUE]
      /\ UNCHANGED IdentityNow
  BY Pointwise, Same
<1>2. QED
  BY <1>0, <1>1 DEF Abstract!CreateFails, HeldNow, IdentityNow

LEMMA ToRecord ==
  ASSUME TypeOK, TypeOK', NEW r \in Resources, Only(r),
         IdentityOf(r) = "inflight",
         cloud'[r] = cloud[r], unrecorded'[r] = unrecorded[r],
         InCustody(r)' = InCustody(r), IdentityOf(r)' = "recorded"
  PROVE  Abstract!Record(r)
<1>1. /\ IdentityNow[r] = "inflight"
      /\ IdentityNow' = [IdentityNow EXCEPT ![r] = "recorded"]
      /\ UNCHANGED <<cloud, HeldNow, unrecorded>>
  BY Pointwise, Same
<1>2. QED
  BY <1>1 DEF Abstract!Record, HeldNow, IdentityNow

LEMMA ToUpdate ==
  ASSUME TypeOK, TypeOK', NEW r \in Resources, Only(r),
         IdentityOf(r) = "recorded",
         cloud'[r] \in Specs, unrecorded'[r] = unrecorded[r],
         InCustody(r)' = InCustody(r), IdentityOf(r)' = IdentityOf(r)
  PROVE  Abstract!Update(r)
<1>1. /\ IdentityNow[r] = "recorded"
      /\ cloud' = [cloud EXCEPT ![r] = cloud'[r]]
      /\ UNCHANGED <<HeldNow, IdentityNow, unrecorded>>
  BY Pointwise, Same
<1>2. QED
  BY <1>1 DEF Abstract!Update, HeldNow, IdentityNow

LEMMA ToDestroy ==
  ASSUME TypeOK, TypeOK', NEW r \in Resources, Only(r),
         IdentityOf(r) = "recorded",
         cloud'[r] = None, unrecorded'[r] = unrecorded[r],
         InCustody(r)' = InCustody(r), IdentityOf(r)' = IdentityOf(r)
  PROVE  Abstract!Destroy(r)
<1>1. /\ IdentityNow[r] = "recorded"
      /\ cloud' = [cloud EXCEPT ![r] = None]
      /\ UNCHANGED <<HeldNow, IdentityNow, unrecorded>>
  BY Pointwise, Same
<1>2. QED
  BY <1>1 DEF Abstract!Destroy, HeldNow, IdentityNow

LEMMA ToGiveUp ==
  ASSUME TypeOK, TypeOK', NEW r \in Resources, Only(r),
         IdentityOf(r) = "recorded", cloud[r] = None \/ unrecorded[r],
         cloud'[r] = cloud[r], unrecorded'[r] = unrecorded[r],
         InCustody(r)' = InCustody(r), IdentityOf(r)' = "none"
  PROVE  Abstract!GiveUp(r)
<1>1. /\ IdentityNow[r] = "recorded"
      /\ IdentityNow' = [IdentityNow EXCEPT ![r] = "none"]
      /\ UNCHANGED <<cloud, HeldNow, unrecorded>>
  BY Pointwise, Same
<1>2. QED
  BY <1>1 DEF Abstract!GiveUp, HeldNow, IdentityNow

LEMMA ToRelease ==
  ASSUME TypeOK, TypeOK', NEW r \in Resources, Only(r),
         IdentityOf(r) = "none", cloud[r] = None \/ unrecorded[r],
         cloud'[r] = cloud[r], unrecorded'[r] = unrecorded[r],
         InCustody(r)' = FALSE, IdentityOf(r)' = IdentityOf(r)
  PROVE  Abstract!Release(r)
<1>1. /\ IdentityNow[r] = "none"
      /\ HeldNow' = [HeldNow EXCEPT ![r] = FALSE]
      /\ UNCHANGED <<cloud, IdentityNow, unrecorded>>
  BY Pointwise, Same
<1>2. QED
  BY <1>1 DEF Abstract!Release, HeldNow, IdentityNow

LEMMA ToLose ==
  ASSUME TypeOK, TypeOK', NEW r \in Resources, Only(r),
         IdentityOf(r) = "inflight",
         cloud'[r] = cloud[r], unrecorded'[r] = TRUE,
         InCustody(r)' = InCustody(r), IdentityOf(r)' = "none"
  PROVE  Abstract!Lose({r})
<1>1. /\ \A q \in {r} : IdentityNow[q] = "inflight"
      /\ UNCHANGED <<cloud, HeldNow>>
  BY Pointwise, Same
<1>2. IdentityNow' =
        [q \in Resources |-> IF q \in {r} THEN "none" ELSE IdentityNow[q]]
  BY UntouchedUnseen DEF Only, Unseen, IdentityNow
<1>3. unrecorded' = [q \in Resources |-> q \in {r} \/ unrecorded[q]]
  BY UntouchedUnseen DEF Only, Unseen, TypeOK
<1>4. QED
  BY <1>1, <1>2, <1>3 DEF Abstract!Lose, HeldNow, IdentityNow

LEMMA ToDrift ==
  ASSUME TypeOK, TypeOK', NEW r \in Resources, Only(r),
         cloud[r] # None, cloud'[r] \in Specs \cup {None},
         unrecorded'[r] = (unrecorded[r] /\ cloud'[r] # None),
         InCustody(r)' = InCustody(r), IdentityOf(r)' = IdentityOf(r)
  PROVE  Abstract!Drift(r)
<1>1. /\ cloud' = [cloud EXCEPT ![r] = cloud'[r]]
      /\ unrecorded' = [unrecorded EXCEPT ![r] = unrecorded[r] /\ cloud'[r] # None]
      /\ UNCHANGED <<HeldNow, IdentityNow>>
  BY Pointwise, Same
<1>2. QED
  BY <1>1 DEF Abstract!Drift, HeldNow, IdentityNow

\* A restart loses what was in flight.
LEMMA RestartLoses ==
  ASSUME IInv, NEW k, NEW v, Restart(k, v)
  PROVE  Abstract!Next
<1> DEFINE R == {r \in Resources : IdentityOf(r) = "inflight"}
<1>1. TypeOK
  BY DEF IInv
<1>2. \A r \in Resources :
        /\ r \in R <=> pc[r] = "save" /\ Lost(r, obj[r])
        /\ r \notin R => IdentityOf(r)' = IdentityOf(r)
        /\ r \in R => IdentityOf(r)' = "none"
        /\ InCustody(r)' = InCustody(r)
  BY DEF Restart, IdentityOf, Lost, InCustody, Exists, HasFinalizer, HasIdentity,
         Recorded
<1>3. IdentityNow' = [r \in Resources |-> IF r \in R THEN "none" ELSE IdentityNow[r]]
  BY <1>2 DEF IdentityNow
<1>4. unrecorded' = [r \in Resources |-> r \in R \/ unrecorded[r]]
  BY <1>1, <1>2 DEF Restart, TypeOK
<1>5. UNCHANGED <<cloud, HeldNow>>
  BY <1>2 DEF Restart, HeldNow, InCustody
<1>6. \A r \in R : IdentityNow[r] = "inflight"
  BY DEF IdentityNow
<1>7. Abstract!Lose(R)
  <2> HIDE DEF R
  <2>1. QED
    BY <1>3, <1>4, <1>5, <1>6 DEF Abstract!Lose, HeldNow, IdentityNow
<1>8. QED
  BY <1>7 DEF Abstract!Next

Follows(r) ==
  \/ Abstract!Hold(r) \/ Abstract!Create(r) \/ Abstract!CreateFails(r)
  \/ Abstract!Record(r) \/ Abstract!Update(r) \/ Abstract!Destroy(r)
  \/ Abstract!GiveUp(r) \/ Abstract!Release(r) \/ Abstract!Drift(r)
  \/ Abstract!Lose({r})
  \/ UNCHANGED Abstract!vars

\* Nothing that Custody sees of r changes, nor of any other.
LEMMA Nothing ==
  ASSUME TypeOK, TypeOK', NEW r \in Resources, Only(r),
         cloud'[r] = cloud[r], unrecorded'[r] = unrecorded[r],
         InCustody(r)' = InCustody(r), IdentityOf(r)' = IdentityOf(r)
  PROVE  Follows(r)
<1>1. \A q \in Resources : Unseen(q)
  BY UntouchedUnseen DEF Only, Unseen
<1>2. QED
  BY <1>1, Stutter DEF Follows

\* Users and the work queue.
LEMMA Follows_User ==
  ASSUME CInv, IInv', NEW r \in Resources, User(r)
  PROVE  Follows(r)
<1>1. /\ TypeOK /\ TypeOK' /\ Held(r) /\ Only(r)
      /\ UNCHANGED <<cloud, local, unrecorded>>
  BY HeldAll, OneMoves, UserEffect DEF CInv, IInv, Only
<1>2. HasIdentity(None) = FALSE
  BY SpecAssumption DEF HasIdentity, Recorded
<1>3. /\ InCustody(r)' = InCustody(r)
      /\ HasIdentity(obj'[r]) = HasIdentity(obj[r])
  <2>1. CASE /\ ~Exists(r) /\ obj'[r] # None
             /\ obj'[r].tfState = None /\ ~HasFinalizer(obj'[r])
    BY <1>2, <2>1, SpecAssumption
    DEF InCustody, Exists, HasIdentity, Recorded, HasFinalizer
  <2>2. CASE Exists(r) /\ obj'[r] = None /\ ~HasFinalizer(obj[r])
    <3>1. ~HasIdentity(obj[r]) /\ ~HasIdentity(obj'[r])
      BY <1>1, <1>2, <2>2 DEF Held
    <3>2. ~InCustody(r) /\ ~InCustody(r)'
      BY <2>2 DEF InCustody, Exists
    <3>3. QED
      BY <3>1, <3>2 DEF HasIdentity, InCustody, Exists
  <2>3. CASE /\ Exists(r) /\ obj'[r] # None
             /\ obj'[r].tfState = obj[r].tfState
             /\ HasFinalizer(obj'[r]) <=> HasFinalizer(obj[r])
    BY <2>3 DEF InCustody, Exists, HasIdentity, Recorded, HasFinalizer
  <2>4. QED
    BY <1>1, <2>1, <2>2, <2>3, UserEffect
<1>4. IdentityOf(r)' = IdentityOf(r)
  BY <1>1, <1>3 DEF IdentityOf, local
<1>5. QED
  BY <1>1, <1>3, <1>4, Nothing

LEMMA Follows_Queue ==
  ASSUME CInv, IInv', NEW r \in Resources,
         CloudDrift(r) \/ DeliverEvent(r) \/ DelayExpires(r) \/ StartReconcile(r)
  PROVE  Follows(r)
<1>1. TypeOK /\ TypeOK' /\ Only(r)
  BY OneMoves DEF CInv, IInv, Only
<1>2. UNCHANGED obj
  BY DEF CloudDrift, DeliverEvent, DelayExpires, StartReconcile, ReconcileGone,
         ReconcileGetFails, ReconcileBegins
<1>3. IdentityOf(r)' = IdentityOf(r) /\ InCustody(r)' = InCustody(r)
  <2>1. \/ UNCHANGED <<pc, newState>>
        \/ pc[r] # "save" /\ pc'[r] # "save"
    BY <1>1
    DEF CloudDrift, DeliverEvent, DelayExpires, StartReconcile, ReconcileGone,
        ReconcileGetFails, ReconcileBegins, Dequeue, TypeOK, local
  <2>2. QED
    BY <1>2, <2>1
    DEF IdentityOf, InCustody, Exists, HasIdentity, Recorded, HasFinalizer
<1>4. CASE CloudDrift(r)
  <2>1. /\ cloud[r] # None /\ cloud'[r] \in Specs \cup {None}
        /\ unrecorded'[r] = (unrecorded[r] /\ cloud'[r] # None)
    BY <1>1, <1>4 DEF CloudDrift, TypeOK
  <2>2. QED
    BY <1>1, <1>3, <2>1, ToDrift DEF Follows
<1>5. CASE DeliverEvent(r) \/ DelayExpires(r) \/ StartReconcile(r)
  <2>1. UNCHANGED <<cloud, unrecorded>>
    BY <1>5
    DEF DeliverEvent, DelayExpires, StartReconcile, ReconcileGone,
        ReconcileGetFails, ReconcileBegins, history
  <2>2. QED
    BY <1>1, <1>3, <2>1, Nothing
<1>6. QED
  BY <1>4, <1>5

\* The steps up to the mapping of the spec.
LEMMA Follows_Map ==
  ASSUME CInv, IInv', NEW r \in Resources, Only(r),
         \/ EnsureFinalizer(r) \/ EnsureFinalizerFails(r) \/ ResolveReference(r)
         \/ ReferenceNotReady(r) \/ MapSpec(r) \/ MapSpecFails(r)
  PROVE  Follows(r)
<1> DEFINE o == [obj[r] EXCEPT !.finalizers = WithFinalizer(r)]
<1>1. TypeOK /\ TypeOK' /\ LocalsSet
  BY DEF CInv, IInv, IndInv
<1>2. /\ UNCHANGED <<cloud, unrecorded>>
      /\ pc[r] # "save" /\ pc'[r] # "save"
  BY <1>1, EndReconcileType
  DEF EnsureFinalizer, EnsureFinalizerFails, ResolveReference,
      ReferenceNotReady, MapSpec, MapSpecFails, ReturnError,
      ReturnRequeueAfter, TypeOK, history
<1>3. CASE obj'[r] = obj[r]
  <2>1. IdentityOf(r)' = IdentityOf(r) /\ InCustody(r)' = InCustody(r)
    BY <1>2, <1>3
    DEF IdentityOf, InCustody, Exists, HasIdentity, Recorded, HasFinalizer
  <2>2. QED
    BY <1>1, <1>2, <2>1, Nothing
<1>4. ASSUME pc[r] = "finalizer", Exists(r), obj'[r] = Persisted(o)
      PROVE  Follows(r)
  <2>1. /\ o \in Object
        /\ o.tfState = obj[r].tfState /\ o.finalizers = WithFinalizer(r)
    BY <1>1, <1>4, PatchTypes, PatchFields
  <2>2. HasFinalizer(o)
    BY <2>1 DEF WithFinalizer, HasFinalizer
  <2>3. obj'[r] = o /\ o # None
    BY <1>4, <2>1, <2>2, StoredObject
  <2>4. InCustody(r)' = TRUE
    BY <2>2, <2>3 DEF InCustody, Exists, HasFinalizer
  <2>5. HasIdentity(obj'[r]) = HasIdentity(obj[r])
    BY <1>4, <2>1, <2>3 DEF HasIdentity, Recorded, Exists
  <2>6. IdentityOf(r)' = IdentityOf(r)
    BY <1>2, <2>5 DEF IdentityOf
  <2>7. QED
    BY <1>1, <1>2, <2>4, <2>6, ToHold DEF Follows
<1>5. CASE EnsureFinalizer(r)
  <2>1. pc[r] = "finalizer"
    BY <1>5 DEF EnsureFinalizer
  <2>2. CASE HasFinalizer(crd[r])
    BY <1>3, <1>5, <2>2 DEF EnsureFinalizer
  <2>3. CASE ~HasFinalizer(crd[r])
    <3>1. Exists(r) /\ Store(r, o)
      BY <1>5, <2>3 DEF EnsureFinalizer, FinalizersAccepted
    <3>2. o \in Object
      BY <1>1, <2>1, <3>1, PatchTypes
    <3>3. QED
      BY <1>1, <1>4, <2>1, <3>1, <3>2, StoreType
  <2>4. QED
    BY <2>2, <2>3
<1>6. CASE EnsureFinalizerFails(r)
  <2>1. pc[r] = "finalizer"
    BY <1>6 DEF EnsureFinalizerFails
  <2>2. Patched(r, FinalizersAccepted(r, WithFinalizer(r)), o)
    BY <1>1, <1>6, <2>1, FailedFinalizerPatch DEF EnsureFinalizerFails
  <2>3. QED
    BY <1>3, <1>4, <2>1, <2>2 DEF Patched, FinalizersAccepted
<1>7. QED
  BY <1>3, <1>5, <1>6
  DEF ResolveReference, ReferenceNotReady, MapSpec, MapSpecFails

\* What the copy says of the identity is what the object says.
LEMMA ApplyKnows ==
  ASSUME CInv, NEW r \in Resources, pc[r] = "apply"
  PROVE  /\ HasIdentity(crd[r]) =>
              InCustody(r) /\ HasIdentity(obj[r])
         /\ ~deleting[r] =>
              InCustody(r) /\ (HasIdentity(crd[r]) <=> HasIdentity(obj[r]))
         /\ deleting[r] => terraformConfig(r) = NullVal
         /\ ~deleting[r] => terraformConfig(r) \in Specs
<1>1. Held(r) /\ SameObject(r) /\ crd[r] \in Object
  BY HeldAll DEF CInv, IInv, Copied, IndInv, LocalsSet
<1>2. HasIdentity(crd[r]) => InCustody(r)
  BY <1>1 DEF SameObject, InCustody
<1>3. ~deleting[r] => InCustody(r)
  BY <1>1 DEF Held, Steps, InCustody
<1>4. InCustody(r) => (HasIdentity(crd[r]) <=> HasIdentity(obj[r]))
  BY <1>1, ObjectAssumption
  DEF Held, InCustody, Exists, HasIdentity, Recorded
<1>5. crd[r].spec \in Specs
  BY <1>1 DEF Object
<1>6. QED
  BY <1>2, <1>3, <1>4, <1>5 DEF terraformConfig

\* Planning and applying: what changes the cloud creates, updates or destroys.
LEMMA Follows_Apply ==
  ASSUME CInv, IInv', NEW r \in Resources, Only(r),
         PlanAndApply(r) \/ PlanAndApplyRefused(r) \/ PlanAndApplyFails(r)
  PROVE  Follows(r)
<1>1. TypeOK /\ TypeOK' /\ pc[r] = "apply" /\ UNCHANGED obj
  BY DEF CInv, IInv, PlanAndApply, PlanAndApplyRefused, PlanAndApplyFails
<1>2. InCustody(r)' = InCustody(r) /\ HasIdentity(obj'[r]) = HasIdentity(obj[r])
  BY <1>1 DEF InCustody, Exists, HasFinalizer, HasIdentity, Recorded
<1>3. IdentityOf(r) = IF HasIdentity(obj[r]) THEN "recorded" ELSE "none"
  BY <1>1 DEF IdentityOf
<1>4. CASE /\ UNCHANGED <<cloud, unrecorded>> /\ pc'[r] = "idle"
  <2>1. IdentityOf(r)' = IdentityOf(r)
    BY <1>2, <1>3, <1>4 DEF IdentityOf
  <2>2. QED
    BY <1>1, <1>2, <1>4, <2>1, Nothing
\* An apply of what the cloud or the state knows.
<1>5. ASSUME cloud'[r] = Applied(r), unrecorded'[r] = unrecorded[r],
             IdentityOf(r)' = IdentityOf(r),
             deleting[r] \/ HasIdentity(crd[r])
      PROVE  Follows(r)
  <2>1. CASE HasIdentity(crd[r]) /\ deleting[r]
    <3>1. Applied(r) = None /\ IdentityOf(r) = "recorded"
      BY <1>1, <1>3, <2>1, ApplyKnows DEF Applied
    <3>2. QED
      BY <1>1, <1>2, <1>5, <3>1, ToDestroy DEF Follows
  <2>2. CASE HasIdentity(crd[r]) /\ ~deleting[r]
    <3>1. terraformConfig(r) \in Specs /\ IdentityOf(r) = "recorded"
      BY <1>1, <1>3, <2>2, ApplyKnows
    <3>2. Applied(r) \in Specs
      BY <3>1, SpecAssumption DEF Applied
    <3>3. QED
      BY <1>1, <1>2, <1>5, <3>1, <3>2, ToUpdate DEF Follows
  <2>3. CASE ~HasIdentity(crd[r]) /\ deleting[r]
    <3>1. Applied(r) = cloud[r]
      BY <1>1, <2>3, ApplyKnows DEF Applied
    <3>2. QED
      BY <1>1, <1>2, <1>5, <3>1, Nothing
  <2>4. QED
    BY <1>5, <2>1, <2>2, <2>3
\* An apply of something new.
<1>6. ASSUME ~deleting[r], ~HasIdentity(crd[r]), ~AlreadyExists(r)
      PROVE  /\ InCustody(r) /\ IdentityOf(r) = "none" /\ cloud[r] = None
             /\ Applied(r) = terraformConfig(r) /\ terraformConfig(r) \in Specs
  <2>1. /\ InCustody(r) /\ ~HasIdentity(obj[r])
        /\ terraformConfig(r) \in Specs
    BY <1>1, <1>6, ApplyKnows
  <2>2. terraformConfig(r) # NullVal
    BY <2>1, SpecAssumption
  <2>3. QED
    BY <1>3, <1>6, <2>1, <2>2 DEF AlreadyExists, Applied
<1>7. CASE PlanAndApply(r)
  <2>1. /\ newState'[r] = terraformConfig(r)
        /\ pc'[r] = "save" /\ unrecorded'[r] = unrecorded[r]
        /\ ~AlreadyExists(r)
    BY <1>1, <1>7 DEF PlanAndApply, TypeOK
  <2>5. cloud'[r] = Applied(r) \/ (cloud'[r] = cloud[r] /\ HasIdentity(crd[r]))
    <3>1. crd[r].spec \in Specs
      BY <1>1 DEF CInv, IInv, IndInv, LocalsSet, Object
    <3>2. QED
      BY <1>1, <1>7, <3>1, ApplyOutcome DEF HasIdentity
  <2>2. CASE deleting[r] \/ HasIdentity(crd[r])
    <3>1. IdentityOf(r)' = IdentityOf(r)
      <4>1. CASE HasIdentity(crd[r])
        BY <1>1, <1>2, <1>3, <4>1, ApplyKnows DEF IdentityOf
      <4>2. CASE deleting[r]
        BY <1>1, <1>2, <1>3, <2>1, <4>2, ApplyKnows, SpecAssumption DEF IdentityOf
      <4>3. QED
        BY <2>2, <4>1, <4>2
    <3>2. CASE cloud'[r] = cloud[r]
      BY <1>1, <1>2, <2>1, <3>1, <3>2, Nothing
    <3>3. CASE cloud'[r] = Applied(r)
      BY <1>5, <2>1, <2>2, <3>1, <3>3
    <3>4. QED
      BY <2>5, <3>2, <3>3
  <2>3. CASE ~deleting[r] /\ ~HasIdentity(crd[r])
    <3>1. /\ InCustody(r) /\ IdentityOf(r) = "none" /\ cloud[r] = None
          /\ cloud'[r] \in Specs /\ newState'[r] \in Specs
      BY <1>6, <2>1, <2>3, <2>5
    <3>2. ~HasIdentity(obj[r])
      BY <1>3, <3>1
    <3>3. IdentityOf(r)' = "inflight"
      BY <1>2, <2>1, <3>1, <3>2 DEF IdentityOf
    <3>4. QED
      BY <1>1, <1>2, <2>1, <3>1, <3>3, ToCreate DEF Follows
  <2>4. QED
    BY <2>2, <2>3
<1>8. CASE PlanAndApplyRefused(r)
  BY <1>1, <1>4, <1>8, EndReconcileType
  DEF PlanAndApplyRefused, ReturnError, history
<1>9. CASE PlanAndApplyFails(r)
  <2>1. pc'[r] = "idle" /\ ~AlreadyExists(r)
    BY <1>1, <1>9, EndReconcileType DEF PlanAndApplyFails, ReturnError
  <2>2. IdentityOf(r)' = IdentityOf(r)
    BY <1>2, <1>3, <2>1 DEF IdentityOf
  <2>3. CASE ~UNCHANGED <<cloud, unrecorded>>
    <3>1. /\ cloud'[r] = Applied(r)
          /\ unrecorded'[r] = (\/ unrecorded[r]
                               \/ terraformConfig(r) # NullVal /\ ~HasIdentity(crd[r]))
      BY <1>1, <1>9, <2>3 DEF PlanAndApplyFails, TypeOK
    <3>2. CASE deleting[r] \/ HasIdentity(crd[r])
      <4>1. unrecorded'[r] = unrecorded[r]
        BY <1>1, <3>1, <3>2, ApplyKnows DEF TypeOK
      <4>2. QED
        BY <1>5, <2>2, <3>1, <3>2, <4>1
    <3>3. CASE ~deleting[r] /\ ~HasIdentity(crd[r])
      <4>1. /\ InCustody(r) /\ IdentityOf(r) = "none" /\ cloud[r] = None
            /\ cloud'[r] \in Specs /\ terraformConfig(r) # NullVal
        BY <1>6, <2>1, <3>1, <3>3, SpecAssumption
      <4>2. unrecorded'[r] = TRUE
        BY <3>1, <3>3, <4>1
      <4>3. QED
        BY <1>1, <1>2, <2>2, <4>1, <4>2, ToCreateFails DEF Follows
    <3>4. QED
      BY <3>2, <3>3
  <2>4. QED
    BY <1>4, <2>1, <2>3
<1>10. QED
  BY <1>7, <1>8, <1>9

\* Saving the state: the identity is recorded, lost, or given up.
LEMMA Follows_Save ==
  ASSUME CInv, IInv', NEW r \in Resources, Only(r),
         SaveTerraformState(r) \/ SaveTerraformStateFails(r)
  PROVE  Follows(r)
<1>1. TypeOK /\ TypeOK' /\ LocalsSet /\ IndInv /\ Held(r) /\ pc[r] = "save"
  BY HeldAll DEF CInv, IInv, IndInv, SaveTerraformState, SaveTerraformStateFails
<1>2. /\ newState[r] \in IF deleting[r] THEN {NullVal} ELSE Specs
      /\ deleting[r] => newState[r] \notin Specs /\ (cloud[r] = None \/ unrecorded[r])
      /\ ~deleting[r] => newState[r] \in Specs /\ InCustody(r)
  BY <1>1, SpecAssumption DEF Held, InCustody, Steps
<1>3. /\ pc'[r] # "save" /\ UNCHANGED cloud
      /\ \/ obj'[r] = obj[r]
         \/ Exists(r) /\ obj'[r] = Persisted(WithState(r))
      /\ \/ SaveTerraformState(r) /\ Exists(r) /\ unrecorded'[r] = unrecorded[r]
            /\ obj'[r] = Persisted(WithState(r))
         \/ unrecorded'[r] = (unrecorded[r] \/ Lost(r, obj'[r]))
  <2>1. CASE SaveTerraformState(r)
    <3>1. Exists(r) /\ Store(r, WithState(r)) /\ WithState(r) \in Object
      BY <1>1, <2>1, PatchTypes DEF SaveTerraformState, StateAccepted
    <3>2. obj'[r] = Persisted(WithState(r))
      BY <1>1, <3>1, StoreType
    <3>3. pc'[r] # "save" /\ UNCHANGED <<cloud, unrecorded>>
      BY <1>1, <2>1 DEF SaveTerraformState, TypeOK, history
    <3>4. QED
      BY <2>1, <3>1, <3>2, <3>3
  <2>2. CASE SaveTerraformStateFails(r)
    <3>1. Patched(r, Exists(r), WithState(r))
      BY <1>1, <2>2, FailedStatePatch DEF SaveTerraformStateFails
    <3>2. /\ pc'[r] = "idle" /\ UNCHANGED cloud
          /\ unrecorded'[r] = (unrecorded[r] \/ Lost(r, obj'[r]))
      BY <1>1, <2>2, EndReconcileType
      DEF SaveTerraformStateFails, ReturnError, TypeOK
    <3>3. QED
      BY <3>1, <3>2 DEF Patched
  <2>3. QED
    BY <2>1, <2>2
<1>4. HasIdentity(None) = FALSE
  BY SpecAssumption DEF HasIdentity, Recorded
\* The object with the state.
<1>5. ASSUME Exists(r), obj'[r] = Persisted(WithState(r))
      PROVE  /\ InCustody(r)' = InCustody(r)
             /\ HasIdentity(obj'[r]) = (~deleting[r])
  <2>1. /\ WithState(r) \in Object
        /\ HasFinalizer(WithState(r)) <=> HasFinalizer(obj[r])
    BY <1>1, <1>5, PatchTypes, PatchFields DEF HasFinalizer
  <2>2. CASE HasFinalizer(obj[r])
    <3>1. obj'[r] = WithState(r) /\ WithState(r) # None
      BY <1>5, <2>1, <2>2, StoredObject
    <3>2. Recorded(WithState(r)) = newState[r]
      BY <1>1, <1>5, <2>2, StateWritten
    <3>3. HasIdentity(WithState(r)) <=> ~deleting[r]
      BY <1>2, <3>2 DEF HasIdentity
    <3>4. InCustody(r) /\ InCustody(r)'
      BY <1>5, <2>1, <2>2, <3>1 DEF InCustody, Exists, HasFinalizer
    <3>5. QED
      BY <3>1, <3>3, <3>4 DEF HasIdentity, InCustody, Exists
  <2>3. CASE ~HasFinalizer(obj[r])
    <3>1. deleting[r] /\ ~InCustody(r)
      BY <1>2, <2>3 DEF InCustody
    <3>2. ~HasIdentity(WithState(r))
      BY <1>1, <1>2, <1>5, <2>3, <3>1, StateWritten
    <3>3. \/ obj'[r] = WithState(r) /\ ~HasFinalizer(obj'[r])
          \/ obj'[r] = None
      BY <1>5, <2>1, <2>3, StoredObject
    <3>4. ~HasIdentity(obj'[r])
      BY <1>4, <3>2, <3>3
    <3>5. ~InCustody(r)'
      BY <3>3 DEF InCustody, Exists, HasFinalizer
    <3>6. QED
      BY <3>1, <3>4, <3>5 DEF HasIdentity, InCustody, Exists
  <2>4. QED
    BY <2>2, <2>3
<1>6. IdentityOf(r)' = IF HasIdentity(obj'[r]) THEN "recorded" ELSE "none"
  BY <1>3 DEF IdentityOf
<1>7. IdentityOf(r) = IF HasIdentity(obj[r]) THEN "recorded"
                      ELSE IF ~deleting[r] THEN "inflight" ELSE "none"
  BY <1>1, <1>2 DEF IdentityOf
<1>8. CASE Exists(r) /\ obj'[r] = Persisted(WithState(r))
  <2>1. /\ InCustody(r)' = InCustody(r)
        /\ HasIdentity(obj'[r]) = (~deleting[r])
    BY <1>5, <1>8
  <2>2. unrecorded'[r] = unrecorded[r]
    <3>1. ~Lost(r, obj'[r])
      BY <1>2, <2>1 DEF Lost
    <3>2. QED
      BY <1>1, <1>3, <3>1 DEF TypeOK
  <2>3. CASE deleting[r] /\ HasIdentity(obj[r])
    BY <1>1, <1>2, <1>3, <1>6, <1>7, <2>1, <2>2, <2>3, ToGiveUp DEF Follows
  <2>4. CASE deleting[r] /\ ~HasIdentity(obj[r])
    BY <1>1, <1>3, <1>6, <1>7, <2>1, <2>2, <2>4, Nothing
  <2>5. CASE ~deleting[r] /\ HasIdentity(obj[r])
    BY <1>1, <1>3, <1>6, <1>7, <2>1, <2>2, <2>5, Nothing
  <2>6. CASE ~deleting[r] /\ ~HasIdentity(obj[r])
    BY <1>1, <1>3, <1>6, <1>7, <2>1, <2>2, <2>6, ToRecord DEF Follows
  <2>7. QED
    BY <2>3, <2>4, <2>5, <2>6
<1>9. CASE obj'[r] = obj[r] /\ unrecorded'[r] = (unrecorded[r] \/ Lost(r, obj'[r]))
  <2>1. /\ InCustody(r)' = InCustody(r)
        /\ HasIdentity(obj'[r]) = HasIdentity(obj[r])
    BY <1>9 DEF InCustody, Exists, HasFinalizer, HasIdentity, Recorded
  <2>2. CASE deleting[r] \/ HasIdentity(obj[r])
    <3>1. unrecorded'[r] = unrecorded[r]
      BY <1>1, <1>2, <1>9, <2>1, <2>2 DEF Lost, TypeOK
    <3>2. IdentityOf(r)' = IdentityOf(r)
      BY <1>6, <1>7, <2>1, <2>2
    <3>3. QED
      BY <1>1, <1>3, <2>1, <3>1, <3>2, Nothing
  <2>3. CASE ~deleting[r] /\ ~HasIdentity(obj[r])
    <3>1. unrecorded'[r] = TRUE
      BY <1>2, <1>9, <2>1, <2>3 DEF Lost
    <3>2. IdentityOf(r) = "inflight" /\ IdentityOf(r)' = "none"
      BY <1>6, <1>7, <2>1, <2>3
    <3>3. QED
      BY <1>1, <1>3, <2>1, <3>1, <3>2, ToLose DEF Follows
  <2>4. QED
    BY <2>2, <2>3
<1>10. QED
  BY <1>3, <1>8, <1>9

\* The end of a reconcile: a deletion releases what is gone.
LEMMA Follows_Finish ==
  ASSUME CInv, IInv', NEW r \in Resources, Only(r),
         \/ RemoveFinalizerAndSave(r) \/ RemoveFinalizerFails(r)
         \/ SaveResourceStatus(r) \/ SaveResourceStatusFails(r)
  PROVE  Follows(r)
<1> DEFINE o == [obj[r] EXCEPT !.finalizers = WithoutFinalizer(r)]
<1>1. TypeOK /\ TypeOK' /\ LocalsSet /\ Held(r) /\ pc[r] = "finish"
  BY HeldAll
  DEF CInv, IInv, IndInv, RemoveFinalizerAndSave, RemoveFinalizerFails,
      SaveResourceStatus, SaveResourceStatusFails
<1>2. pc'[r] = "idle" /\ UNCHANGED <<cloud, unrecorded>>
  BY <1>1, EndReconcileType
  DEF RemoveFinalizerAndSave, RemoveFinalizerFails, SaveResourceStatus,
      SaveResourceStatusFails, ReturnSuccess, ReturnError, history
<1>3. HasIdentity(None) = FALSE
  BY SpecAssumption DEF HasIdentity, Recorded
\* An end that changes neither state nor finalizer.
<1>4. ASSUME InCustody(r)' = InCustody(r), HasIdentity(obj'[r]) = HasIdentity(obj[r])
      PROVE  Follows(r)
  <2>1. IdentityOf(r)' = IdentityOf(r)
    BY <1>1, <1>2, <1>4 DEF IdentityOf
  <2>2. QED
    BY <1>1, <1>2, <1>4, <2>1, Nothing
<1>5. CASE obj'[r] = obj[r]
  BY <1>4, <1>5 DEF InCustody, Exists, HasFinalizer, HasIdentity, Recorded
<1>6. ASSUME deleting[r], Exists(r), obj'[r] = Persisted(o)
      PROVE  Follows(r)
  <2>1. o \in Object /\ o.tfState = obj[r].tfState /\ ~HasFinalizer(o)
    <3>1. /\ o \in Object
          /\ o.tfState = obj[r].tfState /\ o.finalizers = WithoutFinalizer(r)
      BY <1>1, <1>6, PatchTypes, PatchFields
    <3>2. QED
      BY <3>1 DEF WithoutFinalizer, HasFinalizer
  <2>2. ~HasIdentity(obj[r])
    BY <1>1, <1>6, SpecAssumption DEF Held, HasIdentity
  <2>3. ~HasIdentity(o)
    BY <1>6, <2>1, <2>2, StoredObject DEF HasIdentity, Recorded, Exists
  <2>4. obj'[r] \in {o, None}
    BY <1>6, <2>1, StoredObject
  <2>5. ~HasIdentity(obj'[r]) /\ InCustody(r)' = FALSE
    BY <1>3, <2>1, <2>3, <2>4 DEF InCustody, Exists, HasFinalizer
  <2>6. IdentityOf(r) = "none" /\ IdentityOf(r)' = "none"
    BY <1>1, <1>2, <2>2, <2>5 DEF IdentityOf
  <2>7. cloud[r] = None \/ unrecorded[r]
    BY <1>1, <1>6 DEF Held
  <2>8. QED
    BY <1>1, <1>2, <2>5, <2>6, <2>7, ToRelease DEF Follows
<1>7. ASSUME ~deleting[r], Exists(r), obj'[r] = Persisted(WithStatus(r))
      PROVE  Follows(r)
  <2>1. /\ WithStatus(r) \in Object
        /\ WithStatus(r).finalizers = obj[r].finalizers
        /\ WithStatus(r).tfState = obj[r].tfState
    BY <1>1, <1>7, PatchTypes, PatchFields
  <2>2. HasFinalizer(obj[r]) /\ HasFinalizer(WithStatus(r))
    BY <1>1, <1>7, <2>1 DEF Held, HasFinalizer, Steps
  <2>3. obj'[r] = WithStatus(r) /\ WithStatus(r) # None
    BY <1>7, <2>1, <2>2, StoredObject
  <2>4. HasIdentity(obj'[r]) = HasIdentity(obj[r])
    BY <1>7, <2>1, <2>3 DEF HasIdentity, Recorded, Exists
  <2>5. InCustody(r)' = InCustody(r)
    BY <1>7, <2>2, <2>3 DEF InCustody, Exists, HasFinalizer
  <2>6. QED
    BY <1>4, <2>4, <2>5
<1>8. CASE RemoveFinalizerAndSave(r)
  <2>1. deleting[r] /\ Exists(r) /\ o \in Object
    BY <1>1, <1>8, PatchTypes DEF RemoveFinalizerAndSave, FinalizersAccepted
  <2>2. obj'[r] = Persisted(o)
    BY <1>1, <1>8, <2>1, StoreType DEF RemoveFinalizerAndSave
  <2>3. QED
    BY <1>6, <2>1, <2>2
<1>9. CASE RemoveFinalizerFails(r)
  BY <1>1, <1>5, <1>6, <1>9, FailedFinalizerPatch
  DEF RemoveFinalizerFails, Patched, FinalizersAccepted
<1>10. CASE SaveResourceStatus(r)
  <2>1. ~deleting[r] /\ Exists(r) /\ WithStatus(r) \in Object
    BY <1>1, <1>10, PatchTypes DEF SaveResourceStatus, StatusAccepted
  <2>2. obj'[r] = Persisted(WithStatus(r))
    BY <1>1, <1>10, <2>1, StoreType DEF SaveResourceStatus
  <2>3. QED
    BY <1>7, <2>1, <2>2
<1>11. CASE SaveResourceStatusFails(r)
  BY <1>1, <1>5, <1>7, <1>11, FailedStatusPatch
  DEF SaveResourceStatusFails, Patched
<1>12. QED
  BY <1>8, <1>9, <1>10, <1>11

-----------------------------------------------------------------------------
\* Crashes, panics, users and drift included, whatever happens is a step of
\* Custody or is not seen by it.
THEOREM CustodyKeptHolds == Spec => CustodyKept
<1>1. Init => Abstract!Init
  <2> SUFFICES ASSUME Init PROVE Abstract!Init
    OBVIOUS
  <2>1. HeldNow = [r \in Resources |-> FALSE]
    BY DEF Init, HeldNow, Exists
  <2>2. IdentityNow = [r \in Resources |-> "none"]
    BY SpecAssumption DEF Init, IdentityNow, IdentityOf, HasIdentity, Recorded
  <2>3. QED
    BY <2>1, <2>2 DEF Init, Abstract!Init, HeldNow, IdentityNow
<1>2. ASSUME CInv, CInv', [Next]_vars
      PROVE  [Abstract!Next]_(Abstract!vars)
  <2>1. IInv /\ IInv' /\ TypeOK /\ TypeOK'
    BY <1>2 DEF CInv, IInv
  <2>2. ASSUME NEW r \in Resources, Follows(r)
        PROVE  [Abstract!Next]_(Abstract!vars)
    BY <2>2 DEF Follows, Abstract!Next
  <2>3. ASSUME NEW r \in Resources,
               \/ User(r) \/ CloudDrift(r) \/ DeliverEvent(r) \/ DelayExpires(r)
               \/ StartReconcile(r)
        PROVE  [Abstract!Next]_(Abstract!vars)
    BY <1>2, <2>1, <2>2, <2>3, Follows_User, Follows_Queue
  <2>4. ASSUME NEW r \in Resources, ReconcileStep(r), ~Panics(r)
        PROVE  [Abstract!Next]_(Abstract!vars)
    <3>1. Only(r)
      BY <2>1, <2>4, OneMoves DEF Only
    <3>2. Follows(r)
      BY <1>2, <2>1, <2>4, <3>1, Follows_Map, Follows_Apply, Follows_Save,
         Follows_Finish
      DEF ReconcileStep
    <3>3. QED
      BY <2>2, <3>2
  <2>5. ASSUME NEW k, NEW v, Restart(k, v)
        PROVE  [Abstract!Next]_(Abstract!vars)
    BY <2>1, <2>5, RestartLoses
  <2>6. CASE UNCHANGED vars
    <3>1. \A r \in Resources : Unseen(r)
      BY <2>6, UntouchedUnseen DEF vars, local, history, Untouched
    <3>2. QED
      BY <2>1, <3>1, Stutter
  <2>7. QED
    BY <1>2, <2>3, <2>4, <2>5, <2>6
    DEF Next, CrashRestart, Panics, DecryptPanic, MapSpecPanic, StatusPanic
<1>3. QED
  BY <1>1, <1>2, SpecCInv, PTL DEF Spec, CustodyKept, Abstract!Spec

\* What is proved of Custody, of the reconciler's variables.
Custodian ==
  INSTANCE CustodyProofs
  WITH held     <- [r \in Resources |-> Exists(r) /\ HasFinalizer(obj[r])],
       identity <- [r \in Resources |-> IdentityOf(r)],
       lost     <- unrecorded

\* What follows from the promise follows for the reconciler: everything in the
\* cloud that is not lost has an object with the finalizer, which records its
\* identity or is about to (reconcile.go:103, 144-155).
THEOREM AccountedHolds == Spec => []Abstract!Accounted
<1>1. Custodian!Spec => []Custodian!Accounted
  BY Custodian!CustodyAccounts
<1>2. Abstract!Init => Custodian!Init
  BY DEF Abstract!Init, Custodian!Init
<1>3. [Abstract!Next]_(Abstract!vars) => [Custodian!Next]_(Custodian!vars)
  <2>1. \A r \in Resources :
          /\ Abstract!Hold(r) => Custodian!Hold(r)
          /\ Abstract!Create(r) => Custodian!Create(r)
          /\ Abstract!CreateFails(r) => Custodian!CreateFails(r)
          /\ Abstract!Record(r) => Custodian!Record(r)
          /\ Abstract!Update(r) => Custodian!Update(r)
          /\ Abstract!Destroy(r) => Custodian!Destroy(r)
          /\ Abstract!GiveUp(r) => Custodian!GiveUp(r)
          /\ Abstract!Release(r) => Custodian!Release(r)
          /\ Abstract!Drift(r) => Custodian!Drift(r)
    BY DEF Abstract!Hold, Custodian!Hold, Abstract!Create, Custodian!Create,
           Abstract!CreateFails, Custodian!CreateFails, Abstract!Record,
           Custodian!Record, Abstract!Update, Custodian!Update,
           Abstract!Destroy, Custodian!Destroy, Abstract!GiveUp,
           Custodian!GiveUp, Abstract!Release, Custodian!Release,
           Abstract!Drift, Custodian!Drift
  <2>2. \A R \in SUBSET Resources : Abstract!Lose(R) => Custodian!Lose(R)
    BY DEF Abstract!Lose, Custodian!Lose
  <2>3. QED
    BY <2>1, <2>2
    DEF Abstract!Next, Custodian!Next, Abstract!vars, Custodian!vars
<1>4. Custodian!Accounted => Abstract!Accounted
  BY DEF Abstract!Accounted, Custodian!Accounted
<1>5. QED
  BY <1>1, <1>2, <1>3, <1>4, CustodyKeptHolds, PTL
  DEF CustodyKept, Abstract!Spec, Custodian!Spec

=============================================================================
