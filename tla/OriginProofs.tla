---------------------------- MODULE OriginProofs ----------------------------
(***************************************************************************)
(* Where things come from, and what objects say of them, for any           *)
(* constants: nothing is created before what it refers to, hence nothing   *)
(* that refers to itself; no identity is lost without a failure, and no    *)
(* record parts from the cloud but where a failure or a drift has put them *)
(* apart; what is destroyed was deleted, and what has converged stays so.  *)
(***************************************************************************)
EXTENDS CopyProofs

\* A reconcile writes only to an object that is there.
LEMMA Unborn ==
  ASSUME TypeOK, LocalsSet, NEW r \in Resources, ReconcileStep(r), ~Panics(r),
         ~Exists(r)
  PROVE  obj'[r] = None
<1>1. CASE EnsureFinalizer(r)
  BY <1>1 DEF EnsureFinalizer, FinalizersAccepted, Exists
<1>2. CASE EnsureFinalizerFails(r)
  <2>1. Patched(r, FinalizersAccepted(r, WithFinalizer(r)),
                [obj[r] EXCEPT !.finalizers = WithFinalizer(r)])
    BY <1>2, FailedFinalizerPatch DEF EnsureFinalizerFails
  <2>2. QED
    BY <2>1 DEF Patched, FinalizersAccepted, Exists
<1>3. CASE SaveTerraformState(r) \/ SaveTerraformStateFails(r)
  BY <1>3, FailedStatePatch
  DEF SaveTerraformState, StateAccepted, SaveTerraformStateFails, Patched, Exists
<1>4. CASE RemoveFinalizerAndSave(r)
  BY <1>4 DEF RemoveFinalizerAndSave, FinalizersAccepted, Exists
<1>5. CASE RemoveFinalizerFails(r)
  <2>1. \/ UNCHANGED obj
        \/ Patched(r, FinalizersAccepted(r, WithoutFinalizer(r)),
                   [obj[r] EXCEPT !.finalizers = WithoutFinalizer(r)])
    BY <1>5, FailedFinalizerPatch DEF RemoveFinalizerFails
  <2>2. QED
    BY <2>1 DEF Patched, FinalizersAccepted, Exists
<1>6. CASE SaveResourceStatus(r) \/ SaveResourceStatusFails(r)
  BY <1>6, FailedStatusPatch
  DEF SaveResourceStatus, SaveResourceStatusFails, StatusAccepted, Patched, Exists
<1>7. QED
  BY <1>1, <1>2, <1>3, <1>4, <1>5, <1>6
  DEF ReconcileStep, ResolveReference, ReferenceNotReady, MapSpec, MapSpecFails,
      PlanAndApply, PlanAndApplyRefused, PlanAndApplyFails, Exists

\* Where a reconcile that is under way after a step was before it.
LEMMA PhaseChange ==
  ASSUME IInv, Next, NEW r \in Resources, pc'[r] # "idle"
  PROVE  \/ pc'[r] = pc[r] /\ deleting'[r] = deleting[r] /\ newState'[r] = newState[r]
         \/ /\ Exists(r) /\ UNCHANGED <<obj, cloud>>
            /\ pc'[r] = IF obj[r].deleting THEN "apply" ELSE "finalizer"
            /\ deleting'[r] = obj[r].deleting
         \/ pc[r] = "finalizer" /\ pc'[r] = "map" /\ deleting'[r] = deleting[r]
         \/ pc[r] = "map" /\ pc'[r] = "apply" /\ deleting'[r] = deleting[r]
         \/ /\ pc[r] = "apply" /\ pc'[r] = "save" /\ deleting'[r] = deleting[r]
            /\ newState'[r] = terraformConfig(r) /\ UNCHANGED obj
            /\ \/ cloud'[r] = Applied(r)
               \/ /\ cloud'[r] = cloud[r] /\ ~deleting[r]
                  /\ Recorded(crd[r]) = crd[r].spec
         \/ /\ pc[r] = "save" /\ pc'[r] = "finish" /\ deleting'[r] = deleting[r]
            /\ newState'[r] = newState[r] /\ UNCHANGED cloud
<1>1. TypeOK /\ LocalsSet
  BY DEF IInv, IndInv
<1>2. ASSUME NEW k, NEW v, Restart(k, v)
      PROVE  FALSE
  BY <1>2 DEF Restart
<1>3. ~CrashRestart /\ \A q \in Resources : ~Panics(q)
  BY <1>2 DEF CrashRestart, Panics, DecryptPanic, MapSpecPanic, StatusPanic
<1>4. PICK q \in Resources :
        \/ User(q) \/ CloudDrift(q) \/ DeliverEvent(q) \/ DelayExpires(q)
        \/ StartReconcile(q) \/ (ReconcileStep(q) /\ ~Panics(q))
  BY <1>3 DEF Next
<1>5. CASE q # r
  BY <1>4, <1>5, OneMoves DEF Untouched
<1>6. CASE \/ User(r) \/ CloudDrift(r) \/ DeliverEvent(r) \/ DelayExpires(r)
           \/ ReconcileGone(r) \/ ReconcileGetFails(r)
  BY <1>1, <1>6, UserEffect
  DEF CloudDrift, DeliverEvent, DelayExpires, ReconcileGone, ReconcileGetFails,
      local
<1>7. CASE ReconcileBegins(r)
  BY <1>1, <1>7 DEF ReconcileBegins, TypeOK
<1>8. ~EndReconcile(r)
  BY <1>1, EndReconcileType
<1>9. CASE \/ EnsureFinalizer(r) \/ ResolveReference(r) \/ MapSpec(r)
           \/ SaveTerraformState(r)
  BY <1>1, <1>9
  DEF EnsureFinalizer, ResolveReference, MapSpec, SaveTerraformState, TypeOK
<1>10. CASE PlanAndApply(r)
  <2>1. /\ pc[r] = "apply" /\ pc'[r] = "save"
        /\ UNCHANGED <<obj, deleting>>
    BY <1>1, <1>10 DEF PlanAndApply, TypeOK
  <2>2. QED
    BY <1>1, <1>10, <2>1, ApplyOutcome
<1>11. QED
  BY <1>3, <1>4, <1>5, <1>6, <1>7, <1>8, <1>9, <1>10
  DEF StartReconcile, ReconcileStep, EnsureFinalizerFails, ReferenceNotReady,
      MapSpecFails, PlanAndApplyRefused, PlanAndApplyFails,
      SaveTerraformStateFails, RemoveFinalizerAndSave, RemoveFinalizerFails,
      SaveResourceStatus, SaveResourceStatusFails, ReturnError, ReturnSuccess,
      ReturnRequeueAfter

\* What appears where there was no object is a user's, as users write it.
LEMMA NewlyThere ==
  ASSUME IInv, Next, NEW r \in Resources, ~Exists(r), obj'[r] # None
  PROVE  /\ obj'[r].provisioningState = ""
         /\ obj'[r].tfState = None /\ ~HasFinalizer(obj'[r])
<1>1. TypeOK /\ LocalsSet
  BY DEF IInv, IndInv
<1>2. ASSUME NEW k, NEW v, Restart(k, v)
      PROVE  FALSE
  BY <1>2 DEF Restart, Exists
<1>3. PICK q \in Resources :
        \/ User(q) \/ CloudDrift(q) \/ DeliverEvent(q) \/ DelayExpires(q)
        \/ StartReconcile(q) \/ (ReconcileStep(q) /\ ~Panics(q))
  BY <1>2
  DEF Next, CrashRestart, Panics, DecryptPanic, MapSpecPanic, StatusPanic
<1>4. q = r
  BY <1>3, OneMoves DEF Untouched, Exists
<1>5. User(r)
  BY <1>1, <1>3, <1>4, Unborn
  DEF CloudDrift, DeliverEvent, DelayExpires, StartReconcile, ReconcileGone,
      ReconcileGetFails, ReconcileBegins, Exists
<1>6. QED
  BY <1>1, <1>5, UserEffect, UserKeeps

-----------------------------------------------------------------------------
(* What an object that is not being deleted says of its resource.          *)

\* The object a deletion works on is being deleted, were it created again;
\* one that says Created has an identity; and what has one is in the cloud.
Truthful(r) ==
  /\ pc[r] # "idle" /\ deleting[r] /\ Exists(r) /\ HasFinalizer(obj[r]) =>
       obj[r].deleting
  /\ Exists(r) /\ obj[r].provisioningState = "Created" /\ ~obj[r].deleting =>
       HasIdentity(obj[r])
  /\ HasIdentity(obj[r]) /\ ~obj[r].deleting /\ drifts = 0 => cloud[r] # None
  /\ pc[r] # "idle" /\ ~deleting[r] /\ drifts = 0
     /\ (HasIdentity(obj[r]) \/ pc[r] = "save") => cloud[r] # None

TInv == CInv /\ \A r \in Resources : Truthful(r)

\* An object is never rescued from its deletion, and what an object gains as an
\* identity is the state its reconcile has to save.
LEMMA DeletionStays ==
  ASSUME IInv, Next, NEW r \in Resources, Exists(r), obj'[r] # None,
         obj[r].deleting
  PROVE  obj'[r].deleting
<1>1. TypeOK /\ LocalsSet
  BY DEF IInv, IndInv
<1>2. QED
  BY <1>1, ObjectChange, StatusKeeps DEF Keeps

LEMMA FinalizerGained ==
  ASSUME IInv, Next, NEW r \in Resources, Exists(r), obj'[r] # None,
         ~HasFinalizer(obj[r]), HasFinalizer(obj'[r])
  PROVE  pc[r] = "finalizer" \/ pc'[r] = "idle"
<1>1. TypeOK /\ LocalsSet
  BY DEF IInv, IndInv
<1>2. ASSUME NEW k, NEW v, Restart(k, v)
      PROVE  FALSE
  BY <1>2 DEF Restart
<1>3. PICK q \in Resources :
        \/ User(q) \/ CloudDrift(q) \/ DeliverEvent(q) \/ DelayExpires(q)
        \/ StartReconcile(q) \/ (ReconcileStep(q) /\ ~Panics(q))
  BY <1>2
  DEF Next, CrashRestart, Panics, DecryptPanic, MapSpecPanic, StatusPanic
<1>4. q = r
  BY <1>3, OneMoves DEF Untouched
<1>5. ReconcileStep(r) /\ ~Panics(r)
  BY <1>1, <1>3, <1>4, UserEffect
  DEF CloudDrift, DeliverEvent, DelayExpires, StartReconcile, ReconcileGone,
      ReconcileGetFails, ReconcileBegins, Exists
<1>6. ~SaveTerraformState(r)
  <2>1. ASSUME SaveTerraformState(r)
        PROVE  /\ pc[r] = "save" /\ Store(r, WithState(r))
               /\ WithState(r) \in Object
               /\ WithState(r).finalizers = obj[r].finalizers
    BY <1>1, <2>1, PatchTypes, PatchFields DEF SaveTerraformState
  <2>2. QED
    BY <1>1, <2>1, StoreType DEF Persisted, HasFinalizer
<1>7. CASE EndReconcile(r)
  BY <1>1, <1>7, EndReconcileType
<1>8. QED
  BY <1>5, <1>6, <1>7
  DEF ReconcileStep, EnsureFinalizer, EnsureFinalizerFails, ResolveReference,
      ReferenceNotReady, MapSpec, MapSpecFails, PlanAndApply,
      PlanAndApplyRefused, PlanAndApplyFails, SaveTerraformStateFails,
      RemoveFinalizerAndSave, RemoveFinalizerFails, SaveResourceStatus,
      SaveResourceStatusFails, ReturnError, ReturnSuccess, ReturnRequeueAfter

LEMMA IdentityGained ==
  ASSUME IInv, Next, NEW r \in Resources,
         HasIdentity(obj'[r]), Recorded(obj'[r]) # Recorded(obj[r])
  PROVE  /\ pc[r] = "save" /\ Exists(r) /\ obj'[r] = WithState(r)
         /\ newState[r] \in Specs /\ Recorded(obj'[r]) = newState[r]
         /\ ~deleting[r]
<1>1. TypeOK /\ LocalsSet
  BY DEF IInv, IndInv
<1>2. obj'[r] # None /\ obj'[r].tfState # None
  BY SpecAssumption DEF HasIdentity, Recorded
<1>3. Exists(r)
  BY <1>2, NewlyThere
<1>4. obj'[r].tfState # obj[r].tfState
  BY <1>2, <1>3 DEF Recorded, Exists
<1>5. pc[r] = "save" /\ obj'[r] = WithState(r)
  BY <1>1, <1>2, <1>3, <1>4, ObjectChange, PatchFields DEF Keeps
<1>6. Recorded(obj'[r]) = newState[r]
  <2>1. obj[r] \in Object
    BY <1>1, <1>3 DEF TypeOK, Exists
  <2>2. WithState(r).tfState = Encoded(newState[r])
    BY <1>4, <1>5, <2>1 DEF WithState, Object
  <2>3. QED
    BY <1>2, <1>5, <2>2 DEF Recorded, Encoded
<1>7. newState[r] \in Specs
  BY <1>6 DEF HasIdentity
<1>8. ~deleting[r]
  BY <1>1, <1>5, <1>7, SpecAssumption DEF LocalsSet
<1>9. QED
  BY <1>3, <1>5, <1>6, <1>7, <1>8

\* Only a deletion empties the cloud.
LEMMA DestroyFor ==
  ASSUME IInv, Next, NEW r \in Resources, Copied(r), Truthful(r),
         cloud[r] # None, cloud'[r] = None, drifts' = drifts
  PROVE  Exists(r) /\ obj[r].deleting /\ HasFinalizer(obj[r])
<1>1. TypeOK /\ Held(r)
  BY HeldAll DEF IInv
<1>2. pc[r] = "apply" /\ Applied(r) = None
  BY CloudChange
<1>3. crd[r].spec \in Specs
  BY <1>1, <1>2 DEF Held, Object
<1>4. deleting[r] /\ HasIdentity(crd[r])
  BY <1>2, <1>3, SpecAssumption DEF Applied, terraformConfig
<1>5. Exists(r) /\ HasFinalizer(obj[r])
  BY <1>2, <1>4 DEF Copied, SameObject
<1>6. QED
  BY <1>2, <1>4, <1>5 DEF Truthful

LEMMA DriftsGrow ==
  ASSUME IInv, Next
  PROVE  drifts' = drifts \/ drifts' # 0
<1>1. drifts \in Nat
  BY DEF IInv, TypeOK
<1>2. drifts' = drifts \/ drifts' = drifts + 1
  BY DEF Next, User, UserCreate, UserUpdate, UserDelete, AddForeignFinalizer,
         RemoveForeignFinalizer, CloudDrift, DeliverEvent, DelayExpires,
         StartReconcile, ReconcileGone, ReconcileGetFails, ReconcileBegins,
         ReconcileStep, EnsureFinalizer, EnsureFinalizerFails, ResolveReference,
         ReferenceNotReady, MapSpec, MapSpecFails, PlanAndApply,
         PlanAndApplyRefused, PlanAndApplyFails, Panics, DecryptPanic,
         MapSpecPanic, StatusPanic, SaveTerraformState, SaveTerraformStateFails,
         RemoveFinalizerAndSave, RemoveFinalizerFails, SaveResourceStatus,
         SaveResourceStatusFails, CrashRestart, budget
<1>3. QED
  BY <1>1, <1>2

LEMMA TruthfulStep ==
  ASSUME TInv, Next, NEW r \in Resources
  PROVE  Truthful(r)'
<1>1. /\ IInv /\ TypeOK /\ LocalsSet /\ Held(r) /\ Copied(r) /\ Truthful(r)
      /\ drifts' = drifts \/ drifts' # 0
  BY HeldAll, DriftsGrow DEF TInv, CInv, IInv, IndInv
\* What a deletion works on.
<1>2. ASSUME pc'[r] # "idle", deleting'[r], obj'[r] # None, HasFinalizer(obj'[r])
      PROVE  obj'[r].deleting
  <2>1. Exists(r)
    BY <1>1, <1>2, NewlyThere
  <2>2. CASE UNCHANGED obj /\ deleting'[r] = obj[r].deleting
    BY <1>2, <2>2
  <2>3. CASE pc[r] # "idle" /\ deleting[r]
    <3>1. HasFinalizer(obj[r])
      BY <1>1, <1>2, <2>1, <2>3, FinalizerGained DEF Held
    <3>2. QED
      BY <1>1, <1>2, <2>1, <2>3, <3>1, DeletionStays DEF Truthful
  <2>4. QED
    BY <1>1, <1>2, <2>2, <2>3, PhaseChange
\* What says Created.
<1>3. ASSUME obj'[r] # None, obj'[r].provisioningState = "Created",
             ~obj'[r].deleting
      PROVE  HasIdentity(obj'[r])
  <2>1. Exists(r) /\ ~obj[r].deleting
    BY <1>1, <1>3, NewlyThere, DeletionStays
  <2>2. CASE pc[r] = "finish" /\ ~deleting[r] /\ obj'[r] = WithStatus(r)
    <3>1. HasIdentity(obj[r])
      BY <1>1, <2>2 DEF Held, Steps, HasIdentity
    <3>2. QED
      BY <1>1, <1>3, <2>1, <2>2, <3>1, PatchFields DEF HasIdentity, Recorded, Exists
  <2>3. CASE obj[r].provisioningState = "Created"
    <3>1. HasIdentity(obj[r]) /\ HasFinalizer(obj[r])
      BY <1>1, <2>1, <2>3 DEF Truthful, Held
    <3>2. ~(pc[r] \in {"save", "finish"} /\ deleting[r])
      BY <1>1, <2>1, <3>1 DEF Truthful
    <3>3. QED
      BY <1>1, <3>1, <3>2, IdentityChange
  <2>4. QED
    BY <1>1, <1>3, <2>1, <2>2, <2>3, ObjectChange, StatusKeeps DEF Keeps
\* What an identity stands for.
<1>4. ASSUME HasIdentity(obj'[r]), ~obj'[r].deleting, drifts' = 0
      PROVE  cloud'[r] # None
  <2>1. Exists(r) /\ ~obj[r].deleting
    <3>1. obj'[r] # None /\ obj'[r].tfState # None
      BY <1>4, SpecAssumption DEF HasIdentity, Recorded
    <3>2. QED
      BY <1>1, <1>4, <3>1, NewlyThere, DeletionStays
  <2>2. cloud[r] # None
    <3>1. CASE HasIdentity(obj[r])
      BY <1>1, <1>4, <2>1, <3>1 DEF Truthful
    <3>2. CASE ~HasIdentity(obj[r])
      <4>1. pc[r] = "save" /\ ~deleting[r]
        BY <1>1, <1>4, <3>2, IdentityGained DEF HasIdentity
      <4>2. QED
        BY <1>1, <1>4, <4>1 DEF Truthful
    <3>3. QED
      BY <3>1, <3>2
  <2>3. QED
    BY <1>1, <1>4, <2>1, <2>2, DestroyFor
<1>5. ASSUME pc'[r] # "idle", ~deleting'[r], drifts' = 0,
             HasIdentity(obj'[r]) \/ pc'[r] = "save"
      PROVE  cloud'[r] # None
  \* An apply that leaves the cloud as it is finds there what it recorded.
  <2>1. CASE pc[r] = "apply" /\ ~deleting[r] /\ Recorded(crd[r]) = crd[r].spec
    <3>1. crd[r].spec \in Specs
      BY <1>1, <2>1 DEF Held, Object
    <3>2. Exists(r) /\ HasFinalizer(obj[r]) /\ obj[r].tfState = crd[r].tfState
      BY <1>1, <2>1 DEF Held, Steps
    <3>3. HasIdentity(obj[r])
      BY <1>1, <2>1, <3>1, <3>2, ObjectAssumption
      DEF HasIdentity, Recorded, Exists, Held
    <3>4. cloud[r] # None
      BY <1>1, <1>5, <2>1, <3>3 DEF Truthful
    <3>5. Applied(r) # None
      BY <2>1, <3>1, SpecAssumption DEF Applied, terraformConfig
    <3>6. QED
      BY <1>1, <1>5, <3>4, <3>5, CloudChange
  <2>2. CASE pc[r] = "apply" /\ ~deleting[r] /\ cloud'[r] = Applied(r)
    <3>1. crd[r].spec \in Specs
      BY <1>1, <2>2 DEF Held, Object
    <3>2. QED
      BY <2>2, <3>1, SpecAssumption DEF Applied, terraformConfig
  \* A reconcile that goes on had a resource, or has just saved its identity.
  <2>3. CASE pc[r] # "idle" /\ ~deleting[r] /\ (pc'[r] = "save" => pc[r] = "save")
    <3>1. HasIdentity(obj[r]) \/ pc[r] = "save"
      BY <1>1, <1>5, <2>3, IdentityGained DEF HasIdentity
    <3>2. cloud[r] # None
      BY <1>1, <1>5, <2>3, <3>1 DEF Truthful
    <3>3. ~(Applied(r) = None /\ pc[r] = "apply")
      BY <1>1, <2>3, SpecAssumption DEF Held, Object, Applied, terraformConfig
    <3>4. QED
      BY <1>1, <1>5, <3>2, <3>3, CloudChange
  <2>4. CASE /\ Exists(r) /\ UNCHANGED <<obj, cloud>>
             /\ pc'[r] # "save" /\ deleting'[r] = obj[r].deleting
    BY <1>1, <1>5, <2>4 DEF Truthful
  <2>5. QED
    BY <1>1, <1>5, <2>1, <2>2, <2>3, <2>4, PhaseChange
<1>6. QED
  BY <1>2, <1>3, <1>4, <1>5 DEF Truthful, Exists

LEMMA SpecTInv == Spec => []TInv
<1>1. Init => TInv
  <2>1. Init => CInv
    BY InitIInv DEF Init, CInv, Copied, SameObject, StatusBehind, Exists
  <2>2. QED
    BY <2>1, SpecAssumption
    DEF Init, TInv, Truthful, Exists, HasIdentity, Recorded
<1>2. TInv /\ [Next]_vars => TInv'
  <2>1. CASE Next
    BY <2>1, NextCInv, TruthfulStep DEF TInv
  <2>2. CASE UNCHANGED vars
    BY <2>2, NextCInv
    DEF TInv, Truthful, vars, local, budget, Exists, HasIdentity, Recorded,
        HasFinalizer
  <2>3. QED
    BY <2>1, <2>2
<1>3. QED
  BY <1>1, <1>2, PTL DEF Spec

\* An object that says Created (reconcile.go:170) and is not being deleted records
\* a resource that is in the cloud, for any constants.
THEOREM CreatedTruthfulHolds == Spec => []CreatedTruthful
<1>1. TInv => CreatedTruthful
  <2> SUFFICES ASSUME TInv, NEW r \in Resources,
                      Exists(r), obj[r].provisioningState = "Created",
                      ~obj[r].deleting
               PROVE  /\ HasFinalizer(obj[r]) /\ HasIdentity(obj[r])
                      /\ drifts = 0 => cloud[r] # None
    BY DEF CreatedTruthful
  <2>1. Held(r) /\ Truthful(r)
    BY HeldAll DEF TInv, CInv, IInv
  <2>2. QED
    BY <2>1 DEF Held, Truthful
<1>2. QED
  BY <1>1, SpecTInv, PTL

\* Only the resource of an object that is being deleted is destroyed, though the
\* decision (isDeleting, reconcile.go:98) is taken once and of a copy.
THEOREM DestroyOnlyDeletedHolds == Spec => DestroyOnlyDeleted
<1>1. ASSUME TInv, [Next]_vars
      PROVE  [\A r \in Resources :
                cloud[r] # None /\ cloud'[r] = None =>
                  \/ Exists(r) /\ obj[r].deleting /\ HasFinalizer(obj[r])
                  \/ drifts' # drifts]_vars
  BY <1>1, DestroyFor DEF TInv, CInv
<1>2. QED
  BY <1>1, SpecTInv, PTL DEF Spec, DestroyOnlyDeleted

\* Where record and cloud are not known to be apart, nothing has happened to
\* either but a save, or what an apply returns is what it leaves.
LEMMA InAgreement ==
  ASSUME IInv, Next, NEW r \in Resources, ~diverged'[r]
  PROVE  \/ /\ ~diverged[r] /\ cloud'[r] = cloud[r]
            /\ pc[r] = "save" =>
                 pc'[r] \in {"save", "finish"} \/ ~Outdated(r, obj'[r])
         \/ PlanAndApply(r)
<1>1. TypeOK /\ LocalsSet
  BY DEF IInv, IndInv
<1>2. ASSUME NEW k, NEW v, Restart(k, v)
      PROVE  ~diverged[r] /\ cloud'[r] = cloud[r] /\ (pc[r] = "save" => ~Outdated(r, obj'[r]))
  BY <1>2 DEF Restart
<1>3. CASE CrashRestart \/ \E q \in Resources : Panics(q)
  BY <1>2, <1>3 DEF CrashRestart, Panics, DecryptPanic, MapSpecPanic, StatusPanic
<1>4. ASSUME NEW q \in Resources,
             \/ User(q) \/ CloudDrift(q) \/ DeliverEvent(q) \/ DelayExpires(q)
             \/ StartReconcile(q) \/ (ReconcileStep(q) /\ ~Panics(q))
      PROVE  \/ /\ ~diverged[r] /\ cloud'[r] = cloud[r]
                /\ pc[r] = "save" =>
                     pc'[r] \in {"save", "finish"} \/ ~Outdated(r, obj'[r])
             \/ PlanAndApply(r)
  <2>1. CASE q # r
    BY <1>4, <2>1, OneMoves DEF Untouched
  <2>2. CASE q = r /\ User(r)
    BY <1>1, <2>2, UserEffect DEF local
  <2>3. CASE q = r /\ CloudDrift(r)
    BY <1>1, <2>3 DEF CloudDrift, TypeOK
  <2>4. CASE q = r /\ (DeliverEvent(r) \/ DelayExpires(r) \/ StartReconcile(r))
    BY <1>1, <2>4
    DEF DeliverEvent, DelayExpires, StartReconcile, ReconcileGone, Dequeue,
        ReconcileGetFails, ReconcileBegins, local, history
  <2>5. CASE q = r /\ SaveTerraformState(r)
    BY <1>1, <2>5 DEF SaveTerraformState, TypeOK, history
  <2>6. CASE q = r /\ SaveTerraformStateFails(r)
    BY <1>1, <2>6 DEF SaveTerraformStateFails, TypeOK
  <2>7. CASE q = r /\ PlanAndApplyFails(r)
    BY <1>1, <2>7 DEF PlanAndApplyFails, TypeOK
  <2>8. CASE q = r /\ ReconcileStep(r) /\ ~Panics(r)
    BY <2>5, <2>6, <2>7, <2>8
    DEF ReconcileStep, EnsureFinalizer, EnsureFinalizerFails, ResolveReference,
        ReferenceNotReady, MapSpec, MapSpecFails, PlanAndApplyRefused,
        RemoveFinalizerAndSave, RemoveFinalizerFails, SaveResourceStatus,
        SaveResourceStatusFails, history
  <2>9. QED
    BY <1>4, <2>1, <2>2, <2>3, <2>4, <2>8
<1>5. QED
  BY <1>3, <1>4 DEF Next

\* A reconcile that works on an object that has converged works on its last
\* generation, so that it applies, saves and reports the spec it finds.
LEMMA WorksOnLast ==
  ASSUME TInv, MInv, NEW r \in Resources,
         Converged(r), ~obj[r].deleting,
         pc[r] \in {"apply", "save", "finish"}
  PROVE  /\ ~deleting[r] /\ HasFinalizer(obj[r])
         /\ crd[r].generation = obj[r].generation
         /\ crd[r].spec = obj[r].spec
         /\ pc[r] \in {"save", "finish"} => newState[r] = obj[r].spec
<1>1. /\ Held(r) /\ Truthful(r) /\ Mine(r) /\ TypeOK
      /\ Exists(r) /\ obj[r] \in Object
  BY HeldAll DEF TInv, MInv, CInv, IInv, TypeOK, Converged, Exists
<1>2. HasIdentity(obj[r]) /\ HasFinalizer(obj[r])
  BY <1>1 DEF Converged, Truthful, Held
<1>3. ~deleting[r]
  BY <1>1, <1>2 DEF Truthful
<1>4. crd[r] \in Object
  BY <1>1 DEF Held
<1>5. Keeps(obj[r], crd[r]) /\ crd[r].lastAppliedGeneration <= crd[r].generation
  BY <1>1, <1>3 DEF Mine
<1>6. crd[r].generation = obj[r].generation
  <2>1. /\ crd[r].generation <= obj[r].generation
        /\ obj[r].generation <= crd[r].generation
    BY <1>5 DEF Keeps, Converged
  <2>2. crd[r].generation \in Nat /\ obj[r].generation \in Nat
    BY <1>1, <1>4, ObjectKeeps
  <2>3. QED
    BY <2>1, <2>2
<1>7. crd[r].spec = obj[r].spec
  BY <1>5, <1>6 DEF Keeps
<1>8. pc[r] \in {"save", "finish"} => newState[r] = obj[r].spec
  BY <1>1, <1>2, <1>3, <1>7 DEF Mine, Held, Converged
<1>9. QED
  BY <1>2, <1>3, <1>6, <1>7, <1>8

\* Reconciling an object that has converged again, after a retry or a restart,
\* leaves it and its cloud resource as they are, whichever of its calls fail.
THEOREM ConvergedStaysHolds == Spec => ConvergedStays
<1>1. ASSUME TInv, MInv, [Next]_vars
      PROVE  [\A r \in Resources :
                /\ Converged(r) /\ ~obj[r].deleting
                /\ Exists(r)' =>
                     ~obj'[r].deleting /\ obj'[r].generation = obj[r].generation
                => Converged(r)']_vars
  <2> SUFFICES ASSUME Next, NEW r \in Resources,
                      Converged(r), ~obj[r].deleting,
                      obj'[r] # None => obj'[r].generation = obj[r].generation
               PROVE  Converged(r)'
    BY <1>1 DEF Exists
  <2>1. /\ IInv /\ TypeOK /\ LocalsSet /\ Held(r) /\ Copied(r) /\ Truthful(r)
        /\ Exists(r) /\ obj[r] \in Object
    BY <1>1, HeldAll
    DEF TInv, CInv, IInv, IndInv, TypeOK, Converged, Exists
  <2>2. HasIdentity(obj[r]) /\ obj[r].spec \in Specs
    BY <2>1 DEF Converged, Truthful, Object
  <2>3. HasIdentity(obj'[r]) /\ obj'[r] # None
    <3>1. ~(pc[r] \in {"save", "finish"} /\ deleting[r])
      BY <1>1, WorksOnLast
    <3>2. HasIdentity(obj'[r])
      BY <2>1, <2>2, <3>1, IdentityChange
    <3>3. QED
      BY <3>2, SpecAssumption DEF HasIdentity, Recorded
  <2>4. Recorded(obj'[r]) = obj[r].spec
    <3>1. CASE Recorded(obj'[r]) # Recorded(obj[r])
      BY <1>1, <2>1, <2>3, <3>1, IdentityGained, WorksOnLast
    <3>2. QED
      BY <3>1 DEF Converged
  <2>5. /\ obj'[r].spec = obj[r].spec
        /\ obj'[r].outputs = obj[r].spec
        /\ obj'[r].provisioningState = "Created"
        /\ obj'[r].lastAppliedGeneration = obj'[r].generation
    <3>1. CASE Keeps(obj'[r], obj[r])
      BY <2>3, <3>1 DEF Keeps, Converged
    <3>2. CASE pc[r] = "save" /\ obj'[r] = WithState(r)
      BY <2>1, <3>2, StatusKeeps DEF Converged
    <3>3. CASE pc[r] = "finish" /\ ~deleting[r] /\ obj'[r] = WithStatus(r)
      BY <1>1, <2>1, <3>3, StatusKeeps, WorksOnLast
    <3>4. QED
      BY <2>1, <2>3, <3>1, <3>2, <3>3, ObjectChange
  <2>6. ~diverged'[r] => cloud'[r] = obj[r].spec
    <3> SUFFICES ASSUME ~diverged'[r] PROVE cloud'[r] = obj[r].spec
      OBVIOUS
    <3>1. CASE ~diverged[r] /\ cloud'[r] = cloud[r]
      BY <3>1 DEF Converged
    <3>2. CASE PlanAndApply(r)
      <4>1. pc[r] = "apply"
        BY <3>2 DEF PlanAndApply
      <4>2. ~deleting[r] /\ crd[r].spec = obj[r].spec
        BY <1>1, <4>1, WorksOnLast
      <4>3. terraformConfig(r) = obj[r].spec /\ Applied(r) = obj[r].spec
        BY <2>2, <4>2, SpecAssumption DEF Applied, terraformConfig
      <4>4. \/ cloud'[r] = obj[r].spec
            \/ cloud'[r] = cloud[r] /\ ~diverged[r]
        BY <2>1, <3>2, <4>3, ApplyOutcome
      <4>5. QED
        BY <4>4 DEF Converged
    <3>3. QED
      BY <2>1, <3>1, <3>2, InAgreement
  <2>7. QED
    BY <2>3, <2>4, <2>5, <2>6 DEF Converged, Exists
<1>2. QED
  BY <1>1, SpecTInv, SpecMInv, PTL DEF Spec, ConvergedStays

-----------------------------------------------------------------------------
(* References.                                                             *)

\* What has been resolved has been provisioned.
Founded(r) ==
  /\ Exists(r) /\ obj[r].provisioningState = "Created" => r \in provisioned
  /\ pc[r] = "map" => Refs[r] \subseteq todo[r] \cup provisioned
  /\ pc[r] \in {"apply", "save", "finish"} /\ ~deleting[r] =>
       Refs[r] \subseteq provisioned
  /\ cloud[r] # None => Refs[r] \subseteq provisioned

FInv == IInv /\ \A r \in Resources : Founded(r)

LEMMA FoundedFrame ==
  ASSUME NEW q \in Resources, Founded(q), provisioned \subseteq provisioned',
         Untouched(q), todo'[q] = todo[q]
  PROVE  Founded(q)'
  BY DEF Founded, Untouched, Exists

\* The references of one resource at a time.
LEMMA TodoFrame ==
  ASSUME IInv, NEW r \in Resources,
         \/ User(r) \/ CloudDrift(r) \/ DeliverEvent(r) \/ DelayExpires(r)
         \/ StartReconcile(r) \/ (ReconcileStep(r) /\ ~Panics(r))
  PROVE  /\ \A q \in Resources \ {r} : todo'[q] = todo[q]
         /\ provisioned \subseteq provisioned'
<1>1. TypeOK
  BY DEF IInv
<1>2. EndReconcile(r) => \A q \in Resources \ {r} : todo'[q] = todo[q]
  BY <1>1 DEF EndReconcile, TypeOK
<1>3. CASE User(r)
  BY <1>3
  DEF User, UserCreate, UserUpdate, UserDelete, AddForeignFinalizer,
      RemoveForeignFinalizer, local, history
<1>4. CASE CloudDrift(r) \/ DeliverEvent(r) \/ DelayExpires(r) \/ StartReconcile(r)
  BY <1>4
  DEF CloudDrift, DeliverEvent, DelayExpires, StartReconcile, ReconcileGone,
      ReconcileGetFails, ReconcileBegins, local, history
<1>5. CASE \/ EnsureFinalizer(r) \/ ResolveReference(r) \/ MapSpec(r)
           \/ PlanAndApply(r) \/ SaveTerraformState(r)
  BY <1>1, <1>5
  DEF EnsureFinalizer, ResolveReference, MapSpec, PlanAndApply,
      SaveTerraformState, TypeOK, history
<1>6. CASE \/ EnsureFinalizerFails(r) \/ ReferenceNotReady(r) \/ MapSpecFails(r)
           \/ PlanAndApplyRefused(r) \/ PlanAndApplyFails(r)
           \/ SaveTerraformStateFails(r) \/ RemoveFinalizerAndSave(r)
           \/ RemoveFinalizerFails(r)
  BY <1>2, <1>6
  DEF EnsureFinalizerFails, ReferenceNotReady, MapSpecFails,
      PlanAndApplyRefused, PlanAndApplyFails, SaveTerraformStateFails,
      RemoveFinalizerAndSave, RemoveFinalizerFails, ReturnError, ReturnSuccess,
      ReturnRequeueAfter, history
<1>7. CASE SaveResourceStatus(r) \/ SaveResourceStatusFails(r)
  BY <1>2, <1>7
  DEF SaveResourceStatus, SaveResourceStatusFails, ReturnError, ReturnSuccess
<1>8. QED
  BY <1>3, <1>4, <1>5, <1>6, <1>7 DEF ReconcileStep

\* Only the end of a reconcile says Created, and it is remembered.
LEMMA CreatedRemembered ==
  ASSUME IInv, Next, NEW r \in Resources, Founded(r),
         provisioned \subseteq provisioned',
         \/ User(r) \/ CloudDrift(r) \/ DeliverEvent(r) \/ DelayExpires(r)
         \/ StartReconcile(r) \/ (ReconcileStep(r) /\ ~Panics(r)),
         obj'[r] # None, obj'[r].provisioningState = "Created"
  PROVE  r \in provisioned'
<1>1. TypeOK /\ LocalsSet
  BY DEF IInv, IndInv
<1>2. CASE SaveResourceStatus(r) \/ SaveResourceStatusFails(r)
  BY <1>2 DEF SaveResourceStatus, SaveResourceStatusFails, Created
<1>3. Exists(r)
  <2>1. CASE User(r)
    BY <1>1, <2>1, UserKeeps
  <2>2. CASE ReconcileStep(r) /\ ~Panics(r)
    BY <1>1, <2>2, Unborn
  <2>3. CASE CloudDrift(r) \/ DeliverEvent(r) \/ DelayExpires(r) \/ StartReconcile(r)
    BY <2>3
    DEF CloudDrift, DeliverEvent, DelayExpires, StartReconcile, ReconcileGone,
        ReconcileGetFails, ReconcileBegins, Exists
  <2>4. QED
    BY <2>1, <2>2, <2>3
<1>4. CASE Keeps(obj'[r], obj[r])
  BY <1>3, <1>4 DEF Keeps, Founded
<1>5. CASE pc[r] = "save" /\ obj'[r] = WithState(r)
  BY <1>1, <1>3, <1>5, StatusKeeps DEF Founded
<1>6. CASE /\ pc[r] = "finish" /\ ~deleting[r]
           /\ ~(SaveResourceStatus(r) \/ SaveResourceStatusFails(r))
  <2>1. ~(ReconcileStep(r) /\ ~Panics(r))
    BY <1>6
    DEF ReconcileStep, EnsureFinalizer, EnsureFinalizerFails, ResolveReference,
        ReferenceNotReady, MapSpec, MapSpecFails, PlanAndApply,
        PlanAndApplyRefused, PlanAndApplyFails, SaveTerraformState,
        SaveTerraformStateFails, RemoveFinalizerAndSave, RemoveFinalizerFails
  <2>2. CASE User(r)
    BY <1>1, <1>3, <2>2, UserKeeps DEF Keeps, Founded
  <2>3. CASE CloudDrift(r) \/ DeliverEvent(r) \/ DelayExpires(r) \/ StartReconcile(r)
    <3>1. UNCHANGED obj
      BY <2>3
      DEF CloudDrift, DeliverEvent, DelayExpires, StartReconcile, ReconcileGone,
          ReconcileGetFails, ReconcileBegins
    <3>2. QED
      BY <1>3, <3>1 DEF Founded
  <2>4. QED
    BY <2>1, <2>2, <2>3
<1>7. QED
  BY <1>2, <1>3, <1>4, <1>5, <1>6, ObjectChange

\* What an apply leaves in the cloud was there or has its references.
LEMMA FoundedCloud ==
  ASSUME IInv, NEW r \in Resources, Founded(r), pc[r] = "apply",
         Applied(r) # None
  PROVE  Refs[r] \subseteq provisioned
<1>1. CASE ~deleting[r]
  BY <1>1 DEF Founded
<1>2. CASE deleting[r]
  BY <1>2 DEF Founded, Applied, terraformConfig
<1>3. QED
  BY <1>1, <1>2

LEMMA FoundedStep ==
  ASSUME FInv, Next, NEW r \in Resources,
         \/ User(r) \/ CloudDrift(r) \/ DeliverEvent(r) \/ DelayExpires(r)
         \/ StartReconcile(r) \/ (ReconcileStep(r) /\ ~Panics(r))
  PROVE  Founded(r)'
<1>1. /\ IInv /\ TypeOK /\ LocalsSet /\ Founded(r) /\ Held(r)
      /\ provisioned \subseteq provisioned'
  BY HeldAll, TodoFrame DEF FInv, IInv, IndInv
<1>2. obj'[r] # None /\ obj'[r].provisioningState = "Created" =>
        r \in provisioned'
  BY <1>1, CreatedRemembered
<1>3. CASE /\ UNCHANGED <<pc, deleting, todo>>
           /\ cloud'[r] = cloud[r] \/ cloud[r] # None
  BY <1>1, <1>2, <1>3 DEF Founded, Exists
<1>4. CASE \/ User(r) \/ CloudDrift(r) \/ DeliverEvent(r) \/ DelayExpires(r)
           \/ ReconcileGone(r) \/ ReconcileGetFails(r)
  BY <1>1, <1>3, <1>4, UserEffect
  DEF CloudDrift, DeliverEvent, DelayExpires, ReconcileGone, ReconcileGetFails,
      local
<1>5. CASE ReconcileBegins(r)
  <2>1. /\ pc'[r] \in {"finalizer", "apply"} /\ (pc'[r] = "apply" => deleting'[r])
        /\ UNCHANGED cloud
    BY <1>1, <1>5 DEF ReconcileBegins, TypeOK
  <2>2. QED
    BY <1>1, <1>2, <2>1 DEF Founded, Exists
<1>6. CASE EnsureFinalizer(r)
  <2>1. pc'[r] = "map" /\ todo'[r] = Refs[r] /\ UNCHANGED cloud
    BY <1>1, <1>6 DEF EnsureFinalizer, TypeOK
  <2>2. QED
    BY <1>1, <1>2, <2>1 DEF Founded, Exists
<1>7. CASE ResolveReference(r)
  <2>1. PICK p \in todo[r] : /\ Resolvable(p)
                             /\ todo' = [todo EXCEPT ![r] = @ \ {p}]
    BY <1>7 DEF ResolveReference
  <2>2. p \in Resources
    BY <1>1, <2>1 DEF TypeOK
  <2>3. p \in provisioned
    BY <2>1, <2>2 DEF FInv, Founded, Resolvable
  <2>4. todo'[r] = todo[r] \ {p} /\ UNCHANGED <<pc, cloud, deleting>>
    BY <1>1, <1>7, <2>1 DEF ResolveReference, TypeOK
  <2>5. QED
    BY <1>1, <1>2, <2>3, <2>4 DEF Founded, Exists
<1>8. CASE MapSpec(r)
  <2>1. /\ pc[r] = "map" /\ pc'[r] = "apply" /\ todo[r] = {}
        /\ UNCHANGED <<cloud, deleting>>
    BY <1>1, <1>8 DEF MapSpec, TypeOK
  <2>2. QED
    BY <1>1, <1>2, <2>1 DEF Founded, Exists
<1>9. ASSUME \/ pc'[r] = "idle"
             \/ /\ pc[r] \in {"apply", "save"} /\ pc'[r] \in {"save", "finish"}
                /\ deleting'[r] = deleting[r],
             cloud'[r] = cloud[r] \/ (pc[r] = "apply" /\ cloud'[r] = Applied(r))
      PROVE  Founded(r)'
  BY <1>1, <1>2, <1>9, FoundedCloud DEF Founded, Exists
<1>10. CASE PlanAndApply(r) \/ SaveTerraformState(r)
  BY <1>1, <1>9, <1>10, ApplyOutcome DEF PlanAndApply, SaveTerraformState, TypeOK
<1>11. CASE PlanAndApplyRefused(r) \/ PlanAndApplyFails(r)
  <2>1. pc'[r] = "idle" /\ pc[r] = "apply"
    BY <1>1, <1>11, EndReconcileType
    DEF PlanAndApplyRefused, PlanAndApplyFails, ReturnError
  <2>2. cloud'[r] = cloud[r] \/ cloud'[r] = Applied(r)
    BY <1>1, <1>11 DEF PlanAndApplyRefused, PlanAndApplyFails, TypeOK
  <2>3. QED
    BY <1>9, <2>1, <2>2
<1>12. CASE \/ EnsureFinalizerFails(r) \/ ReferenceNotReady(r) \/ MapSpecFails(r)
            \/ SaveTerraformStateFails(r) \/ RemoveFinalizerAndSave(r)
            \/ RemoveFinalizerFails(r) \/ SaveResourceStatus(r)
            \/ SaveResourceStatusFails(r)
  <2>1. pc'[r] = "idle" /\ UNCHANGED cloud
    BY <1>1, <1>12, EndReconcileType
    DEF EnsureFinalizerFails, ReferenceNotReady, MapSpecFails,
        SaveTerraformStateFails, RemoveFinalizerAndSave, RemoveFinalizerFails,
        SaveResourceStatus, SaveResourceStatusFails, ReturnError,
        ReturnSuccess, ReturnRequeueAfter
  <2>2. QED
    BY <1>9, <2>1
<1>13. QED
  BY <1>4, <1>5, <1>6, <1>7, <1>8, <1>10, <1>11, <1>12
  DEF StartReconcile, ReconcileStep

LEMMA InitFInv == Init => FInv
  BY InitIInv DEF Init, FInv, Founded, Exists

LEMMA NextFInv == FInv /\ [Next]_vars => FInv'
<1> SUFFICES ASSUME FInv, [Next]_vars PROVE FInv'
  OBVIOUS
<1>1. IInv /\ IInv'
  BY NextIInv DEF FInv
<1>2. ASSUME Next, NEW r \in Resources,
             \/ User(r) \/ CloudDrift(r) \/ DeliverEvent(r) \/ DelayExpires(r)
             \/ StartReconcile(r) \/ (ReconcileStep(r) /\ ~Panics(r))
      PROVE  FInv'
  <2>1. Founded(r)'
    BY <1>2, FoundedStep
  <2>2. \A q \in Resources \ {r} : Founded(q)'
    BY <1>1, <1>2, OneMoves, TodoFrame, FoundedFrame DEF FInv
  <2>3. QED
    BY <1>1, <2>1, <2>2 DEF FInv
<1>3. ASSUME NEW k, NEW v, Restart(k, v)
      PROVE  FInv'
  BY <1>1, <1>3 DEF FInv, Founded, Restart, Exists
<1>4. CASE UNCHANGED vars
  BY <1>1, <1>4 DEF FInv, Founded, vars, local, history, Exists
<1>5. QED
  BY <1>2, <1>3, <1>4
  DEF Next, CrashRestart, Panics, DecryptPanic, MapSpecPanic, StatusPanic

\* Nothing is created before all it refers to has been provisioned once.
THEOREM ReferencesFirstHolds == Spec => []ReferencesFirst
<1>1. FInv => ReferencesFirst
  BY DEF FInv, Founded, ReferencesFirst
<1>2. QED
  BY <1>1, InitFInv, NextFInv, PTL DEF Spec

\* What is provisioned for the first time had its references before.
LEMMA ProvisionedStep ==
  ASSUME FInv, Next, NEW q \in Resources,
         q \in provisioned', q \notin provisioned
  PROVE  Refs[q] \subseteq provisioned
<1>1. IInv /\ TypeOK /\ Founded(q)
  BY DEF FInv, IInv
<1>2. ASSUME NEW k, NEW v, Restart(k, v)
      PROVE  FALSE
  BY <1>2 DEF Restart
<1>3. PICK r \in Resources :
        \/ User(r) \/ CloudDrift(r) \/ DeliverEvent(r) \/ DelayExpires(r)
        \/ StartReconcile(r) \/ (ReconcileStep(r) /\ ~Panics(r))
  BY <1>2
  DEF Next, CrashRestart, Panics, DecryptPanic, MapSpecPanic, StatusPanic
<1>4. SaveResourceStatus(r) \/ SaveResourceStatusFails(r)
  BY <1>3
  DEF User, UserCreate, UserUpdate, UserDelete, AddForeignFinalizer,
      RemoveForeignFinalizer, CloudDrift, DeliverEvent, DelayExpires,
      StartReconcile, ReconcileGone, ReconcileGetFails, ReconcileBegins,
      ReconcileStep, EnsureFinalizer, EnsureFinalizerFails, ResolveReference,
      ReferenceNotReady, MapSpec, MapSpecFails, PlanAndApply,
      PlanAndApplyRefused, PlanAndApplyFails, SaveTerraformState,
      SaveTerraformStateFails, RemoveFinalizerAndSave, RemoveFinalizerFails,
      history
<1>5. Created(q) /\ pc[r] = "finish" /\ ~deleting[r]
  BY <1>4 DEF SaveResourceStatus, SaveResourceStatusFails
<1>6. q = r
  BY <1>1, <1>3, <1>5, OneMoves DEF Created, Founded, Untouched, Exists
<1>7. QED
  BY <1>1, <1>5, <1>6 DEF Founded

\* Objects that refer to each other in a circle, and those that refer to such a
\* circle, wait for each other for ever (getReferencedObjectValue,
\* reconcile.go:633): none of them is ever created in the cloud.
CirclesWait ==
  \A S \in SUBSET Resources :
    (\A r \in S : Refs[r] \cap S # {}) =>
      \A r \in S : cloud[r] = None /\ r \notin provisioned

THEOREM CirclesWaitHolds == Spec => []CirclesWait
<1>1. Init => CirclesWait
  BY DEF Init, CirclesWait
<1>2. FInv /\ FInv' /\ CirclesWait /\ [Next]_vars => CirclesWait'
  <2> SUFFICES ASSUME FInv, FInv', CirclesWait, [Next]_vars,
                      NEW S \in SUBSET Resources,
                      \A r \in S : Refs[r] \cap S # {}, NEW r \in S
               PROVE  cloud'[r] = None /\ r \notin provisioned'
    BY DEF CirclesWait
  <2>1. \A q \in S : q \notin provisioned
    BY DEF CirclesWait
  <2>2. \A q \in S : q \notin provisioned'
    <3>1. CASE Next
      BY <2>1, <3>1, ProvisionedStep
    <3>2. CASE UNCHANGED vars
      BY <2>1, <3>2 DEF vars, history
    <3>3. QED
      BY <3>1, <3>2
  <2>3. cloud'[r] = None
    BY <2>2 DEF FInv, Founded
  <2>4. QED
    BY <2>2, <2>3
<1>3. QED
  BY <1>1, <1>2, InitFInv, NextFInv, PTL DEF Spec

-----------------------------------------------------------------------------
(* Losses.                                                                 *)

Fatal == PanicSpecs \cup Unreportable # {}

\* While the bridge runs for the first time, it has the key of every state.
OneKey(r) ==
  crashes = 0 =>
    /\ Exists(r) /\ obj[r].tfState # None => obj[r].tfState.key = key
    /\ pc[r] # "idle" /\ crd[r].tfState # None => crd[r].tfState.key = key

Blamed(r) ==
  unrecorded[r] => faults > 0 \/ crashes > 0 \/ Fatal \/ r \in Unsavable

LInv == IInv /\ \A r \in Resources : OneKey(r) /\ Blamed(r)

\* The bounded events are only ever counted up.
LEMMA CountersGrow ==
  ASSUME IInv, [Next]_vars
  PROVE  faults > 0 => faults' > 0
<1>1. faults \in Nat
  BY DEF IInv, TypeOK
<1>2. faults' = faults \/ Fault
  BY DEF Next, User, UserCreate, UserUpdate, UserDelete, AddForeignFinalizer,
         RemoveForeignFinalizer, CloudDrift, DeliverEvent, DelayExpires,
         StartReconcile, ReconcileGone, ReconcileGetFails, ReconcileBegins,
         ReconcileStep, EnsureFinalizer, EnsureFinalizerFails, ResolveReference,
         ReferenceNotReady, MapSpec, MapSpecFails, PlanAndApply,
         PlanAndApplyRefused, PlanAndApplyFails, Panics, DecryptPanic,
         MapSpecPanic, StatusPanic, SaveTerraformState, SaveTerraformStateFails,
         RemoveFinalizerAndSave, RemoveFinalizerFails, SaveResourceStatus,
         SaveResourceStatusFails, CrashRestart, PatchFails, budget, vars
<1>3. QED
  BY <1>1, <1>2 DEF Fault

\* The state of an object is written under the key of the process.
LEMMA OneKeyObject ==
  ASSUME IInv, Next, NEW r \in Resources, OneKey(r), crashes = 0,
         \/ User(r) \/ CloudDrift(r) \/ DeliverEvent(r) \/ DelayExpires(r)
         \/ StartReconcile(r) \/ (ReconcileStep(r) /\ ~Panics(r)),
         obj'[r] # None, obj'[r].tfState # None
  PROVE  obj'[r].tfState.key = key
<1>1. TypeOK /\ LocalsSet
  BY DEF IInv, IndInv
<1>2. CASE ~Exists(r)
  <2>1. ~(CloudDrift(r) \/ DeliverEvent(r) \/ DelayExpires(r) \/ StartReconcile(r))
    BY <1>2
    DEF CloudDrift, DeliverEvent, DelayExpires, StartReconcile, ReconcileGone,
        ReconcileGetFails, ReconcileBegins, Exists
  <2>2. QED
    BY <1>1, <1>2, <2>1, UserEffect, Unborn
<1>3. CASE Exists(r)
  <2>1. CASE obj'[r].tfState = obj[r].tfState
    BY <1>3, <2>1 DEF OneKey
  <2>2. CASE pc[r] = "save" /\ obj'[r] = WithState(r)
    <3>1. obj[r] \in Object
      BY <1>1, <1>3 DEF TypeOK, Exists
    <3>2. WithState(r) = obj[r] \/ WithState(r).tfState = Encoded(newState[r])
      BY <3>1 DEF WithState, Object
    <3>3. Encoded(newState[r]).key = key
      BY DEF Encoded
    <3>4. QED
      BY <2>1, <2>2, <3>2, <3>3
  <2>3. CASE pc[r] = "finish" /\ ~deleting[r] /\ obj'[r] = WithStatus(r)
    BY <1>1, <1>3, <2>1, <2>3, PatchFields
  <2>4. QED
    BY <1>3, <2>1, <2>2, <2>3, ObjectChange DEF Keeps
<1>4. QED
  BY <1>2, <1>3

LEMMA OneKeyStep ==
  ASSUME IInv, Next, NEW r \in Resources, OneKey(r),
         \/ User(r) \/ CloudDrift(r) \/ DeliverEvent(r) \/ DelayExpires(r)
         \/ StartReconcile(r) \/ (ReconcileStep(r) /\ ~Panics(r))
  PROVE  OneKey(r)'
<1>1. TypeOK /\ LocalsSet /\ UNCHANGED <<key, crashes>>
  BY OneMoves DEF IInv, IndInv
<1>2. SUFFICES ASSUME crashes = 0
               PROVE  pc'[r] # "idle" /\ crd'[r].tfState # None =>
                        crd'[r].tfState.key = key
  BY <1>1, OneKeyObject DEF OneKey, Exists
<1>3. CASE pc'[r] = "idle"
  BY <1>3
<1>4. CASE crd'[r] = crd[r] /\ pc[r] # "idle"
  BY <1>2, <1>4 DEF OneKey
<1>5. CASE obj'[r] # None /\ crd'[r] = obj'[r]
  BY <1>2, <1>5, OneKeyObject
<1>6. CASE User(r) \/ CloudDrift(r) \/ DeliverEvent(r) \/ DelayExpires(r)
  BY <1>1, <1>3, <1>4, <1>6, UserEffect
  DEF CloudDrift, DeliverEvent, DelayExpires, local
<1>7. CASE StartReconcile(r)
  BY <1>1, <1>3, <1>5, <1>7
  DEF StartReconcile, ReconcileGone, ReconcileGetFails, ReconcileBegins,
      Dequeue, TypeOK, local, Exists
<1>8. CASE EnsureFinalizer(r)
  <2>1. CASE HasFinalizer(crd[r])
    BY <1>4, <1>8, <2>1 DEF EnsureFinalizer
  <2>2. CASE ~HasFinalizer(crd[r])
    <3> DEFINE o == [obj[r] EXCEPT !.finalizers = WithFinalizer(r)]
    <3>1. /\ pc[r] = "finalizer" /\ Exists(r) /\ Store(r, o)
          /\ crd'[r] = obj'[r]
      BY <1>1, <1>8, <2>2 DEF EnsureFinalizer, FinalizersAccepted, TypeOK
    <3>2. o \in Object /\ o.finalizers = WithFinalizer(r)
      BY <1>1, <3>1, PatchTypes, PatchFields
    <3>3. obj'[r] = o /\ o # None
      BY <1>1, <3>1, <3>2, StoreType, StoredObject DEF WithFinalizer, HasFinalizer
    <3>4. QED
      BY <1>5, <3>1, <3>3
  <2>3. QED
    BY <2>1, <2>2
<1>9. CASE ResolveReference(r) \/ MapSpec(r) \/ PlanAndApply(r)
  BY <1>4, <1>9 DEF ResolveReference, MapSpec, PlanAndApply
<1>10. CASE SaveTerraformState(r)
  <2>1. /\ Exists(r) /\ pc[r] = "save" /\ crd'[r] = WithState(r)
    BY <1>1, <1>10 DEF SaveTerraformState, StateAccepted, TypeOK
  <2>2. obj[r] \in Object
    BY <1>1, <2>1 DEF TypeOK, Exists
  <2>3. \/ WithState(r) = obj[r]
        \/ WithState(r).tfState = Encoded(newState[r])
    BY <2>2 DEF WithState, Object
  <2>4. Encoded(newState[r]).key = key
    BY DEF Encoded
  <2>5. QED
    BY <1>2, <2>1, <2>3, <2>4 DEF OneKey
<1>11. CASE \/ EnsureFinalizerFails(r) \/ ReferenceNotReady(r) \/ MapSpecFails(r)
            \/ PlanAndApplyRefused(r) \/ PlanAndApplyFails(r)
            \/ SaveTerraformStateFails(r) \/ RemoveFinalizerAndSave(r)
            \/ RemoveFinalizerFails(r) \/ SaveResourceStatus(r)
            \/ SaveResourceStatusFails(r)
  BY <1>1, <1>3, <1>11, EndReconcileType
  DEF EnsureFinalizerFails, ReferenceNotReady, MapSpecFails,
      PlanAndApplyRefused, PlanAndApplyFails, SaveTerraformStateFails,
      RemoveFinalizerAndSave, RemoveFinalizerFails, SaveResourceStatus,
      SaveResourceStatusFails, ReturnError, ReturnSuccess, ReturnRequeueAfter
<1>12. QED
  BY <1>6, <1>7, <1>8, <1>9, <1>10, <1>11 DEF ReconcileStep

\* A step of r that loses the identity is one that failed.
LEMMA BlamedStep ==
  ASSUME IInv, Next, NEW r \in Resources, Blamed(r),
         \/ User(r) \/ CloudDrift(r) \/ DeliverEvent(r) \/ DelayExpires(r)
         \/ StartReconcile(r) \/ (ReconcileStep(r) /\ ~Panics(r))
  PROVE  Blamed(r)'
<1>1. TypeOK /\ LocalsSet /\ Held(r) /\ UNCHANGED crashes
  BY HeldAll, OneMoves DEF IInv, IndInv
<1>2. CASE unrecorded'[r] => unrecorded[r]
  BY <1>1, <1>2, CountersGrow DEF Blamed, Fatal
<1>3. CASE Fault
  <2>1. faults' > 0
    BY <1>1, <1>3 DEF Fault, TypeOK
  <2>2. QED
    BY <2>1 DEF Blamed, Fatal
<1>4. CASE SaveTerraformStateFails(r) /\ ~Fault
  <2>1. /\ pc[r] = "save"
        /\ ~StateAccepted(r) /\ obj' = obj
        /\ unrecorded'[r] = (unrecorded[r] \/ Lost(r, obj'[r]))
    BY <1>1, <1>4, BooleanAccepted DEF SaveTerraformStateFails, PatchFails, TypeOK
  <2>2. CASE r \in Unsavable
    BY <2>2 DEF Blamed
  <2>3. CASE r \notin Unsavable
    <3>1. ~Exists(r)
      BY <2>1, <2>3 DEF StateAccepted
    <3>2. newState[r] \notin Specs
      BY <1>1, <2>1, <3>1, SpecAssumption DEF Held, Steps
    <3>3. QED
      BY <1>2, <2>1, <3>2 DEF Lost
  <2>4. QED
    BY <2>2, <2>3
<1>5. CASE User(r)
  BY <1>1, <1>2, <1>5, UserEffect
<1>6. CASE CloudDrift(r)
  BY <1>1, <1>2, <1>6 DEF CloudDrift, TypeOK
<1>7. CASE DeliverEvent(r) \/ DelayExpires(r) \/ StartReconcile(r)
  BY <1>2, <1>7
  DEF DeliverEvent, DelayExpires, StartReconcile, ReconcileGone,
      ReconcileGetFails, ReconcileBegins, history
<1>8. CASE ReconcileStep(r) /\ ~Panics(r)
  BY <1>2, <1>3, <1>4, <1>8
  DEF ReconcileStep, EnsureFinalizer, EnsureFinalizerFails, ResolveReference,
      ReferenceNotReady, MapSpec, MapSpecFails, PlanAndApply,
      PlanAndApplyRefused, PlanAndApplyFails, SaveTerraformState,
      RemoveFinalizerAndSave, RemoveFinalizerFails, SaveResourceStatus,
      SaveResourceStatusFails, history
<1>9. QED
  BY <1>5, <1>6, <1>7, <1>8

\* A panic needs a spec that makes the bridge panic, or another key than the
\* one of the first process.
LEMMA PanicCause ==
  ASSUME IInv, NEW r \in Resources, OneKey(r), Panics(r)
  PROVE  crashes > 0 \/ Fatal
<1>1. TypeOK
  BY DEF IInv
<1>2. CASE DecryptPanic(r)
  <2>1. /\ pc[r] # "idle" /\ crd[r].tfState # None
        /\ crd[r].tfState.key # key
    BY <1>2 DEF DecryptPanic, DecryptPanics, Readable
  <2>2. crashes # 0
    BY <2>1 DEF OneKey
  <2>3. QED
    BY <1>1, <2>2 DEF TypeOK
<1>3. CASE MapSpecPanic(r)
  BY <1>3 DEF MapSpecPanic, Fatal
<1>4. CASE StatusPanic(r)
  BY <1>4 DEF StatusPanic, Fatal
<1>5. QED
  BY <1>2, <1>3, <1>4 DEF Panics

LEMMA InitLInv == Init => LInv
  BY InitIInv DEF Init, LInv, OneKey, Blamed, Exists

LEMMA NextLInv == LInv /\ [Next]_vars => LInv'
<1> SUFFICES ASSUME LInv, [Next]_vars PROVE LInv'
  OBVIOUS
<1>1. IInv /\ IInv' /\ TypeOK
  BY NextIInv DEF LInv, IInv
<1>2. ASSUME Next, NEW r \in Resources,
             \/ User(r) \/ CloudDrift(r) \/ DeliverEvent(r) \/ DelayExpires(r)
             \/ StartReconcile(r) \/ (ReconcileStep(r) /\ ~Panics(r))
      PROVE  LInv'
  <2>1. OneKey(r)' /\ Blamed(r)'
    BY <1>1, <1>2, OneKeyStep, BlamedStep DEF LInv
  <2>2. ASSUME NEW q \in Resources \ {r}
        PROVE  OneKey(q)' /\ Blamed(q)'
    <3>1. /\ OneKey(q) /\ Blamed(q) /\ Untouched(q)
          /\ UNCHANGED <<key, crashes>> /\ (faults > 0 => faults' > 0)
      BY <1>1, <1>2, OneMoves, CountersGrow DEF LInv
    <3>2. QED
      BY <3>1 DEF OneKey, Blamed, Untouched, Exists, Fatal
  <2>3. QED
    BY <1>1, <2>1, <2>2 DEF LInv
<1>3. CASE CrashRestart
  <2>1. crashes' > 0 /\ crashes' # 0
    BY <1>1, <1>3 DEF CrashRestart, TypeOK
  <2>2. QED
    BY <1>1, <2>1 DEF LInv, OneKey, Blamed
<1>4. ASSUME NEW r \in Resources, Panics(r)
      PROVE  LInv'
  <2>1. crashes > 0 \/ Fatal
    BY <1>1, <1>4, PanicCause DEF LInv
  <2>2. Restart(key, version) /\ UNCHANGED <<obj, key, crashes, faults>>
    BY <1>4
    DEF Panics, DecryptPanic, MapSpecPanic, StatusPanic, Restart, budget
  <2>3. \A q \in Resources : pc'[q] = "idle"
    BY <2>2 DEF Restart
  <2>4. \A q \in Resources : OneKey(q)' /\ Blamed(q)'
    BY <2>1, <2>2, <2>3 DEF LInv, OneKey, Blamed, Exists, Fatal
  <2>5. QED
    BY <1>1, <2>4 DEF LInv
<1>5. CASE UNCHANGED vars
  BY <1>1, <1>5
  DEF LInv, OneKey, Blamed, vars, local, process, budget, history, Exists, Fatal
<1>6. QED
  BY <1>2, <1>3, <1>4, <1>5 DEF Next

\* Without a failed call, a crash or a spec that makes the bridge panic, every
\* identity is recorded.
THEOREM LossNeedsFaultHolds == Spec => []LossNeedsFault
<1>1. LInv => LossNeedsFault
  <2>1. LInv => faults \in Nat /\ crashes \in Nat
    BY DEF LInv, IInv, TypeOK
  <2>2. LInv /\ (faults > 0 \/ crashes > 0) => faults + crashes > 0
    BY <2>1
  <2>3. QED
    BY <2>2 DEF LInv, Blamed, Fatal, LossNeedsFault
<1>2. QED
  BY <1>1, InitLInv, NextLInv, PTL DEF Spec

-----------------------------------------------------------------------------
(* Records.                                                                *)

\* What an object records is in the cloud, and what a reconcile has to save is,
\* unless the two are known to be apart.
Recording(r) ==
  /\ HasIdentity(obj[r]) /\ pc[r] # "save" =>
       cloud[r] = Recorded(obj[r]) \/ diverged[r]
  /\ pc[r] = "save" /\ ~deleting[r] => cloud[r] = newState[r] \/ diverged[r]

RInv == IInv /\ \A r \in Resources : Recording(r)

\* Only a successful apply leaves a state to be saved.
LEMMA SaveBefore ==
  ASSUME IInv, Next, NEW r \in Resources, pc'[r] = "save", ~PlanAndApply(r)
  PROVE  /\ pc[r] = "save" /\ deleting'[r] = deleting[r]
         /\ newState'[r] = newState[r]
<1>1. TypeOK /\ LocalsSet
  BY DEF IInv, IndInv
<1>2. CASE pc[r] = "save"
  BY <1>2, PhaseChange
<1>3. CASE pc[r] = "apply"
  <2>1. ASSUME NEW k, NEW v, Restart(k, v)
        PROVE  FALSE
    BY <2>1 DEF Restart
  <2>2. PICK q \in Resources :
          \/ User(q) \/ CloudDrift(q) \/ DeliverEvent(q) \/ DelayExpires(q)
          \/ StartReconcile(q) \/ (ReconcileStep(q) /\ ~Panics(q))
    BY <2>1
    DEF Next, CrashRestart, Panics, DecryptPanic, MapSpecPanic, StatusPanic
  <2>3. q = r
    BY <1>3, <2>2, OneMoves DEF Untouched
  <2>4. ~EndReconcile(r)
    BY <1>1, EndReconcileType
  <2>5. QED
    BY <1>1, <1>3, <2>2, <2>3, <2>4, UserEffect
    DEF local, CloudDrift, DeliverEvent, DelayExpires, StartReconcile, Dequeue,
        ReconcileGone, ReconcileGetFails, ReconcileBegins, ReconcileStep,
        EnsureFinalizer, EnsureFinalizerFails, ResolveReference,
        ReferenceNotReady, MapSpec, MapSpecFails, PlanAndApplyRefused,
        PlanAndApplyFails, SaveTerraformState, SaveTerraformStateFails,
        RemoveFinalizerAndSave, RemoveFinalizerFails, SaveResourceStatus,
        SaveResourceStatusFails, ReturnError
<1>4. QED
  BY <1>2, <1>3, PhaseChange

\* An apply leaves in the cloud what it returns, or what was recorded already.
LEMMA RecordingApplied ==
  ASSUME RInv, NEW r \in Resources, PlanAndApply(r), ~diverged'[r]
  PROVE  /\ pc'[r] = "save" /\ UNCHANGED deleting
         /\ ~deleting[r] => cloud'[r] = newState'[r]
<1>1. /\ TypeOK /\ Held(r) /\ Recording(r) /\ pc[r] = "apply"
      /\ pc'[r] = "save" /\ UNCHANGED deleting
  BY HeldAll DEF RInv, IInv, PlanAndApply, TypeOK
<1>2. SUFFICES ASSUME ~deleting[r] PROVE cloud'[r] = newState'[r]
  BY <1>1
<1>3. /\ crd[r].spec \in Specs
      /\ Exists(r) /\ HasFinalizer(obj[r]) /\ obj[r].tfState = crd[r].tfState
  BY <1>1, <1>2 DEF Held, Steps, Object
<1>4. terraformConfig(r) = crd[r].spec /\ Applied(r) = crd[r].spec
  BY <1>2, <1>3, SpecAssumption DEF terraformConfig, Applied
<1>5. CASE cloud'[r] = Applied(r)
  BY <1>1, <1>4, <1>5, ApplyOutcome
<1>6. CASE cloud'[r] = cloud[r] /\ Recorded(crd[r]) = crd[r].spec /\ ~diverged[r]
  <2>1. crd[r] # None
    BY <1>1, ObjectAssumption DEF Held
  <2>2. Recorded(obj[r]) = crd[r].spec
    BY <1>3, <1>6, <2>1 DEF Recorded, Exists
  <2>3. cloud[r] = crd[r].spec
    BY <1>1, <1>3, <1>6, <2>2 DEF Recording, HasIdentity
  <2>4. QED
    BY <1>1, <1>4, <1>6, <2>3, ApplyOutcome
<1>7. QED
  BY <1>1, <1>4, <1>5, <1>6, ApplyOutcome

LEMMA RecordingStep ==
  ASSUME RInv, Next, NEW r \in Resources
  PROVE  Recording(r)'
<1>1. IInv /\ TypeOK /\ Held(r) /\ Held(r)' /\ Recording(r)
  BY NextIInv, HeldAll, HeldAllNext DEF RInv, IInv
<1>2. CASE diverged'[r]
  BY <1>2 DEF Recording
<1>3. CASE ~diverged'[r] /\ PlanAndApply(r)
  BY <1>3, RecordingApplied DEF Recording
<1>4. CASE /\ ~diverged[r] /\ cloud'[r] = cloud[r] /\ ~PlanAndApply(r)
           /\ pc[r] = "save" =>
                pc'[r] \in {"save", "finish"} \/ ~Outdated(r, obj'[r])
  <2>1. ASSUME pc'[r] = "save", ~deleting'[r]
        PROVE  cloud'[r] = newState'[r]
    <3>1. pc[r] = "save" /\ ~deleting[r] /\ newState'[r] = newState[r]
      BY <1>1, <1>4, <2>1, SaveBefore
    <3>2. QED
      BY <1>1, <1>4, <3>1 DEF Recording
  <2>2. ASSUME HasIdentity(obj'[r]), pc'[r] # "save"
        PROVE  cloud'[r] = Recorded(obj'[r])
    <3>1. CASE pc[r] # "save"
      <4>1. Recorded(obj'[r]) = Recorded(obj[r])
        BY <1>1, <2>2, <3>1, IdentityGained
      <4>2. QED
        BY <1>1, <1>4, <2>2, <3>1, <4>1 DEF Recording, HasIdentity
    <3>2. CASE pc[r] = "save"
      <4>1. Recorded(obj'[r]) = newState[r]
        <5>1. CASE pc'[r] = "finish"
          <6>1. newState'[r] = newState[r]
            BY <1>1, <3>2, <5>1, PhaseChange
          <6>2. obj'[r] # None
            BY <2>2, SpecAssumption DEF HasIdentity, Recorded
          <6>3. QED
            BY <1>1, <2>2, <5>1, <6>1, <6>2 DEF Held, Exists
        <5>2. CASE ~Outdated(r, obj'[r])
          BY <2>2, <5>2 DEF Outdated
        <5>3. QED
          BY <1>4, <2>2, <3>2, <5>1, <5>2
      <4>2. ~deleting[r]
        BY <1>1, <2>2, <3>2, <4>1, SpecAssumption DEF Held, HasIdentity
      <4>3. QED
        BY <1>1, <1>4, <3>2, <4>1, <4>2 DEF Recording
    <3>3. QED
      BY <3>1, <3>2
  <2>3. QED
    BY <2>1, <2>2 DEF Recording
<1>5. QED
  BY <1>1, <1>2, <1>3, <1>4, InAgreement

LEMMA InitRInv == Init => RInv
  BY InitIInv, SpecAssumption
  DEF Init, RInv, Recording, HasIdentity, Recorded

LEMMA NextRInv == RInv /\ [Next]_vars => RInv'
<1>1. CASE Next
  BY <1>1, NextIInv, RecordingStep DEF RInv
<1>2. CASE UNCHANGED vars
  BY <1>2, NextIInv
  DEF RInv, Recording, vars, local, history, HasIdentity, Recorded
<1>3. QED
  BY <1>1, <1>2

LEMMA SpecRInv == Spec => []RInv
  BY InitRInv, NextRInv, PTL DEF Spec

\* Whatever fails and whatever users do, what an object records is what is in the
\* cloud, between apply and save excepted, unless something that is known to put
\* the two apart has done so (reconcile.go:144-155).
THEOREM RecordFaithfulHolds == Spec => []RecordFaithful
<1>1. RInv => RecordFaithful
  BY DEF RInv, Recording, RecordFaithful
<1>2. QED
  BY <1>1, SpecRInv, PTL

=============================================================================
