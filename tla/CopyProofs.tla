----------------------------- MODULE CopyProofs -----------------------------
(* What a reconcile may conclude from its copy of the object, although the *)
(* object changes, goes and comes back meanwhile; with it, an invariant    *)
(* and three action properties of Reconciler, for any constants.           *)
EXTENDS ReconcilerProofs

\* What o keeps of p when neither state nor status is written.
Keeps(o, p) ==
  /\ o.tfState = p.tfState
  /\ o.provider = p.provider
  /\ o.provisioningState = p.provisioningState
  /\ o.lastAppliedGeneration = p.lastAppliedGeneration
  /\ o.outputs = p.outputs
  /\ p.generation <= o.generation
  /\ p.generation = o.generation => p.spec = o.spec
  /\ p.deleting => o.deleting

\* What each writer keeps, field by field.
LEMMA ObjectKeeps ==
  ASSUME NEW p \in Object
  PROVE  /\ p.generation \in Nat /\ p.lastAppliedGeneration \in Nat
         /\ Keeps(p, p)
         /\ \A s \in Specs :
              Keeps([p EXCEPT !.spec = s, !.generation = @ + 1], p)
         /\ Keeps([p EXCEPT !.deleting = TRUE, !.generation = @ + 1], p)
         /\ \A fs : Keeps([p EXCEPT !.finalizers = fs], p)
  <1>1. p.generation \in Nat /\ p.lastAppliedGeneration \in Nat
    BY DEF Object
  <1>2. Keeps(p, p)
    BY <1>1 DEF Keeps
  <1>3. ASSUME NEW s \in Specs
        PROVE  Keeps([p EXCEPT !.spec = s, !.generation = @ + 1], p)
    <2> DEFINE o == [p EXCEPT !.spec = s, !.generation = @ + 1]
    <2>1. /\ o.tfState = p.tfState /\ o.provider = p.provider
          /\ o.provisioningState = p.provisioningState
          /\ o.lastAppliedGeneration = p.lastAppliedGeneration
          /\ o.outputs = p.outputs
          /\ o.generation = p.generation + 1
          /\ o.deleting = p.deleting
      BY DEF Object
    <2>2. p.generation <= p.generation + 1 /\ p.generation # p.generation + 1
      BY <1>1
    <2>3. QED
      BY <2>1, <2>2 DEF Keeps
  <1>4. Keeps([p EXCEPT !.deleting = TRUE, !.generation = @ + 1], p)
    <2> DEFINE o == [p EXCEPT !.deleting = TRUE, !.generation = @ + 1]
    <2>1. /\ o.tfState = p.tfState /\ o.provider = p.provider
          /\ o.provisioningState = p.provisioningState
          /\ o.lastAppliedGeneration = p.lastAppliedGeneration
          /\ o.outputs = p.outputs
          /\ o.generation = p.generation + 1
          /\ o.deleting
      BY DEF Object
    <2>2. p.generation <= p.generation + 1 /\ p.generation # p.generation + 1
      BY <1>1
    <2>3. QED
      BY <2>1, <2>2 DEF Keeps
  <1>5. ASSUME NEW fs
        PROVE  Keeps([p EXCEPT !.finalizers = fs], p)
    <2> DEFINE o == [p EXCEPT !.finalizers = fs]
    <2>1. /\ o.tfState = p.tfState /\ o.provider = p.provider
          /\ o.provisioningState = p.provisioningState
          /\ o.lastAppliedGeneration = p.lastAppliedGeneration
          /\ o.outputs = p.outputs
          /\ o.generation = p.generation /\ o.spec = p.spec
          /\ o.deleting = p.deleting
      BY DEF Object
    <2>2. QED
      BY <1>1, <2>1 DEF Keeps
  <1>6. QED
    BY <1>1, <1>2, <1>3, <1>4, <1>5

\* Users and other controllers make a new object, let one go that the bridge
\* does not hold, or keep all the bridge has written.
LEMMA UserKeeps ==
  ASSUME TypeOK, NEW r \in Resources, User(r)
  PROVE  \/ /\ ~Exists(r) /\ obj'[r] # None
            /\ obj'[r].provider = None
            /\ obj'[r].provisioningState = ""
            /\ obj'[r].lastAppliedGeneration = 0
            /\ obj'[r].generation = 1
         \/ Exists(r) /\ obj'[r] = None
         \/ Exists(r) /\ obj'[r] # None /\ Keeps(obj'[r], obj[r])
<1>1. CASE UserCreate(r)
  <2>1. PICK s \in Specs : Store(r, NewObject(s))
    BY <1>1 DEF UserCreate
  <2>2. NewObject(s) \in Object
    BY DEF NewObject, Object
  <2>3. obj'[r] = NewObject(s)
    BY <2>1, <2>2, StoreType DEF NewObject, Persisted
  <2>4. obj'[r] # None
    BY <2>2, <2>3, ObjectAssumption
  <2>5. /\ NewObject(s).provider = None /\ NewObject(s).provisioningState = ""
        /\ NewObject(s).lastAppliedGeneration = 0 /\ NewObject(s).generation = 1
    BY DEF NewObject
  <2>6. QED
    BY <1>1, <2>3, <2>4, <2>5 DEF UserCreate
<1>2. ASSUME NEW o \in Object, Exists(r), Store(r, o), Keeps(o, obj[r])
      PROVE  \/ obj'[r] = None
             \/ obj'[r] # None /\ Keeps(obj'[r], obj[r])
  BY <1>2, StoreType, ObjectAssumption DEF Persisted
<1>3. Exists(r) => obj[r] \in Object
  BY DEF TypeOK, Exists
<1>4. CASE UserUpdate(r)
  <2>1. Exists(r)
    BY <1>4 DEF UserUpdate
  <2>2. PICK s \in Specs :
          Store(r, [obj[r] EXCEPT !.spec = s, !.generation = @ + 1])
    BY <1>4 DEF UserUpdate
  <2>3. [obj[r] EXCEPT !.spec = s, !.generation = @ + 1] \in Object
    BY <1>3, <2>1, ObjectUpdates
  <2>4. QED
    BY <1>2, <1>3, <2>1, <2>2, <2>3, ObjectKeeps
<1>5. CASE UserDelete(r)
  <2>1. Exists(r)
    BY <1>5 DEF UserDelete
  <2>2. [obj[r] EXCEPT !.deleting = TRUE, !.generation = @ + 1] \in Object
    BY <1>3, <2>1, ObjectUpdates
  <2>3. QED
    BY <1>2, <1>3, <1>5, <2>1, <2>2, ObjectKeeps DEF UserDelete
<1>6. CASE AddForeignFinalizer(r) \/ RemoveForeignFinalizer(r)
  <2>1. Exists(r)
    BY <1>6 DEF AddForeignFinalizer, RemoveForeignFinalizer
  <2>2. PICK fs \in SUBSET (Foreign \cup {Bridge}) :
          Store(r, [obj[r] EXCEPT !.finalizers = fs])
    <3>1. obj[r].finalizers \in SUBSET (Foreign \cup {Bridge})
      BY <1>3, <2>1 DEF Object
    <3>2. PICK f \in Foreign :
            \/ Store(r, [obj[r] EXCEPT !.finalizers = obj[r].finalizers \cup {f}])
            \/ Store(r, [obj[r] EXCEPT !.finalizers = obj[r].finalizers \ {f}])
      BY <1>6 DEF AddForeignFinalizer, RemoveForeignFinalizer
    <3>3. QED
      BY <3>1, <3>2
  <2>3. [obj[r] EXCEPT !.finalizers = fs] \in Object
    BY <1>3, <2>1, ObjectUpdates
  <2>4. QED
    BY <1>2, <1>3, <2>1, <2>2, <2>3, ObjectKeeps
<1>7. QED
  BY <1>1, <1>4, <1>5, <1>6 DEF User

\* What the two patches of the status write and keep.
LEMMA StatusKeeps ==
  ASSUME TypeOK, LocalsSet, NEW r \in Resources, pc[r] # "idle", Exists(r)
  PROVE  /\ WithState(r).provider = obj[r].provider
         /\ WithState(r).provisioningState = obj[r].provisioningState
         /\ WithState(r).lastAppliedGeneration = obj[r].lastAppliedGeneration
         /\ WithState(r).generation = obj[r].generation
         /\ WithState(r).deleting = obj[r].deleting
         /\ WithState(r).spec = obj[r].spec
         /\ WithState(r).outputs = obj[r].outputs
         /\ WithStatus(r).spec = obj[r].spec
         /\ WithStatus(r).outputs = newState[r]
         /\ WithStatus(r).deleting = obj[r].deleting
         /\ WithStatus(r).provisioningState = "Created"
         /\ WithStatus(r).lastAppliedGeneration = crd[r].generation
         /\ WithStatus(r).generation = obj[r].generation
         /\ WithStatus(r).provider = IF crd[r].provider = None THEN version
                                                               ELSE crd[r].provider
<1>1. obj[r] \in Object
  BY DEF TypeOK, Exists
<1>2. /\ WithState(r).provider = obj[r].provider
      /\ WithState(r).provisioningState = obj[r].provisioningState
      /\ WithState(r).lastAppliedGeneration = obj[r].lastAppliedGeneration
      /\ WithState(r).generation = obj[r].generation
      /\ WithState(r).deleting = obj[r].deleting
      /\ WithState(r).spec = obj[r].spec
      /\ WithState(r).outputs = obj[r].outputs
  BY <1>1 DEF Object, WithState
<1>3. /\ WithStatus(r).spec = obj[r].spec
      /\ WithStatus(r).outputs = newState[r]
      /\ WithStatus(r).deleting = obj[r].deleting
      /\ WithStatus(r).provisioningState = "Created"
      /\ WithStatus(r).lastAppliedGeneration = crd[r].generation
      /\ WithStatus(r).generation = obj[r].generation
      /\ WithStatus(r).provider = IF crd[r].provider = None THEN version
                                                            ELSE crd[r].provider
  BY <1>1 DEF Object, WithStatus
<1>4. QED
  BY <1>2, <1>3

-----------------------------------------------------------------------------
(* The invariant.                                                          *)

\* An object whose finalizer is in the copy cannot go away, so its copy is
\* about the same object; the state that is overwritten has been read.
SameObject(r) ==
  /\ pc[r] # "idle" /\ HasFinalizer(crd[r]) => Exists(r) /\ HasFinalizer(obj[r])
  /\ pc[r] \in {"finalizer", "map", "apply"} /\ HasIdentity(crd[r]) =>
       HasFinalizer(crd[r])
  /\ pc[r] = "save" => Readable(crd[r].tfState)

\* The status of the object is never ahead of the copy.
StatusBehind(r) ==
  /\ pc[r] # "idle" /\ Exists(r) => obj[r].provider \in {None, crd[r].provider}
  /\ Exists(r) => obj[r].lastAppliedGeneration <= obj[r].generation
  /\ pc[r] = "finish" /\ ~deleting[r] =>
       /\ obj[r].lastAppliedGeneration <= crd[r].generation
       /\ crd[r].generation <= obj[r].generation

Copied(r) == SameObject(r) /\ StatusBehind(r)

\* Nothing in it has changed for q.
Unread(q) == UNCHANGED <<obj[q], pc[q], crd[q], deleting[q], key>>

LEMMA CopiedFrame ==
  ASSUME NEW q \in Resources, Copied(q), Unread(q)
  PROVE  Copied(q)'
  BY DEF Copied, SameObject, StatusBehind, Unread, Exists, HasIdentity, Recorded,
         HasFinalizer, Readable

\* When a reconcile ends, only the generations matter.
LEMMA CopiedAtEnd ==
  ASSUME NEW r \in Resources, pc'[r] = "idle",
         obj'[r] # None => obj'[r].lastAppliedGeneration <= obj'[r].generation
  PROVE  Copied(r)'
  BY DEF Copied, SameObject, StatusBehind, Exists

\* Users, drift and the work queue.
LEMMA Copied_User ==
  ASSUME IInv, NEW r \in Resources, User(r), Copied(r)
  PROVE  Copied(r)'
<1>1. TypeOK /\ Held(r)
  BY HeldAll DEF IInv
<1>2. /\ UNCHANGED <<pc, crd, deleting, key>>
      /\ HasFinalizer(obj[r]) /\ Exists(r) =>
           obj'[r] # None /\ HasFinalizer(obj'[r])
  <2>1. UNCHANGED key
    BY DEF User, UserCreate, UserUpdate, UserDelete, AddForeignFinalizer,
           RemoveForeignFinalizer, process
  <2>2. QED
    BY <1>1, <2>1, UserEffect DEF local
<1>3. SameObject(r)'
  BY <1>2
  DEF Copied, SameObject, Exists, HasIdentity, Recorded, HasFinalizer, Readable
<1>4. pc[r] = "finish" /\ ~deleting[r] => Exists(r) /\ HasFinalizer(obj[r])
  BY <1>1 DEF Held, Steps
<1>5. CASE obj'[r] = None
  BY <1>2, <1>3, <1>4, <1>5 DEF Copied, StatusBehind, Exists
<1>6. CASE /\ ~Exists(r) /\ obj'[r] # None
           /\ obj'[r].provider = None
           /\ obj'[r].lastAppliedGeneration = 0
           /\ obj'[r].generation = 1
  BY <1>2, <1>3, <1>4, <1>6 DEF Copied, StatusBehind, Exists
<1>7. CASE Exists(r) /\ obj'[r] # None /\ Keeps(obj'[r], obj[r])
  <2>1. obj[r] \in Object /\ obj'[r] \in Object
    BY <1>1, <1>7, TypeOK_User DEF TypeOK, Exists
  <2>2. /\ obj[r].generation \in Nat /\ obj'[r].generation \in Nat
        /\ obj[r].lastAppliedGeneration \in Nat
    BY <2>1, ObjectKeeps
  <2>3. pc[r] = "finish" => crd[r].generation \in Nat
    BY <1>1, ObjectKeeps DEF Held
  <2>4. QED
    BY <1>2, <1>3, <1>7, <2>2, <2>3 DEF Copied, StatusBehind, Exists, Keeps
<1>8. QED
  BY <1>1, <1>3, <1>5, <1>6, <1>7, UserKeeps DEF Copied, Exists

LEMMA Copied_Queue ==
  ASSUME IInv, NEW r \in Resources, Copied(r),
         CloudDrift(r) \/ DeliverEvent(r) \/ DelayExpires(r) \/ StartReconcile(r)
  PROVE  Copied(r)'
<1>1. CASE \/ CloudDrift(r) \/ DeliverEvent(r) \/ DelayExpires(r)
           \/ ReconcileGone(r) \/ ReconcileGetFails(r)
  BY <1>1, CopiedFrame
  DEF CloudDrift, DeliverEvent, DelayExpires, ReconcileGone, ReconcileGetFails,
      Unread, local, process
<1>2. CASE ReconcileBegins(r)
  <2>1. /\ crd'[r] = obj[r] /\ Exists(r) /\ Held(r)
        /\ pc'[r] \in {"finalizer", "apply"}
        /\ UNCHANGED obj
    BY <1>2, HeldAll DEF ReconcileBegins, IInv, TypeOK
  <2>2. QED
    BY <2>1
    DEF Copied, SameObject, StatusBehind, Held, Exists, HasIdentity, Recorded,
        HasFinalizer
<1>3. QED
  BY <1>1, <1>2 DEF StartReconcile

\* The steps up to the mapping of the spec.
LEMMA Copied_Map ==
  ASSUME IInv, NEW r \in Resources, Copied(r),
         \/ EnsureFinalizer(r) \/ EnsureFinalizerFails(r) \/ ResolveReference(r)
         \/ ReferenceNotReady(r) \/ MapSpec(r) \/ MapSpecFails(r)
  PROVE  Copied(r)'
<1> DEFINE o == [obj[r] EXCEPT !.finalizers = WithFinalizer(r)]
<1>1. TypeOK /\ LocalsSet /\ Held(r)
  BY HeldAll DEF IInv, IndInv
<1>2. Exists(r) => obj[r].lastAppliedGeneration <= obj[r].generation
  BY DEF Copied, StatusBehind
\* The object with the finalizer.
<1>3. ASSUME Exists(r), pc[r] = "finalizer"
      PROVE  /\ Persisted(o) = o /\ o \in Object /\ o # None
             /\ HasFinalizer(o) /\ Keeps(o, obj[r])
             /\ o.lastAppliedGeneration <= o.generation
  <2>1. o \in Object /\ Keeps(o, obj[r]) /\ obj[r] \in Object
    BY <1>1, <1>3, PatchTypes, ObjectKeeps DEF TypeOK, Exists
  <2>2. HasFinalizer(o)
    BY <1>1, <1>3, PatchFields DEF WithFinalizer, HasFinalizer
  <2>3. o.lastAppliedGeneration <= o.generation
    <3>1. /\ o.generation \in Nat /\ obj[r].generation \in Nat
          /\ obj[r].lastAppliedGeneration \in Nat
      BY <2>1, ObjectKeeps
    <3>2. QED
      BY <1>2, <1>3, <2>1, <3>1 DEF Keeps
  <2>4. QED
    BY <2>1, <2>2, <2>3, StoredObject
<1>4. CASE EnsureFinalizer(r)
  <2>1. /\ pc[r] = "finalizer" /\ pc'[r] = "map"
    BY <1>1, <1>4 DEF EnsureFinalizer, TypeOK
  <2>2. CASE HasFinalizer(crd[r])
    <3>1. UNCHANGED <<obj, crd>>
      BY <1>4, <2>2 DEF EnsureFinalizer
    <3>2. QED
      BY <2>1, <2>2, <3>1
      DEF Copied, SameObject, StatusBehind, Exists, HasFinalizer
  <2>3. CASE ~HasFinalizer(crd[r])
    <3>1. Exists(r) /\ Store(r, o) /\ crd' = [crd EXCEPT ![r] = obj'[r]]
      BY <1>4, <2>3 DEF EnsureFinalizer, FinalizersAccepted
    <3>2. obj'[r] = o /\ crd'[r] = o
      BY <1>1, <1>3, <2>1, <3>1, StoreType DEF TypeOK
    <3>3. QED
      BY <1>3, <2>1, <3>1, <3>2
      DEF Copied, SameObject, StatusBehind, Exists, HasFinalizer
  <2>4. QED
    BY <2>2, <2>3
<1>5. CASE EnsureFinalizerFails(r)
  <2>1. pc[r] = "finalizer" /\ pc'[r] = "idle"
    BY <1>1, <1>5, EndReconcileType DEF EnsureFinalizerFails, ReturnError
  <2>2. Patched(r, FinalizersAccepted(r, WithFinalizer(r)), o)
    BY <1>1, <1>5, <2>1, FailedFinalizerPatch DEF EnsureFinalizerFails
  <2>3. CASE obj'[r] = obj[r]
    BY <1>2, <2>1, <2>3, CopiedAtEnd DEF Exists
  <2>4. CASE Exists(r) /\ obj'[r] = Persisted(o)
    BY <1>3, <2>1, <2>4, CopiedAtEnd
  <2>5. QED
    BY <2>2, <2>3, <2>4 DEF Patched, FinalizersAccepted
<1>6. CASE ResolveReference(r)
  BY <1>6, CopiedFrame DEF ResolveReference, Unread, process
<1>7. CASE MapSpec(r)
  <2>1. /\ pc[r] = "map" /\ pc'[r] = "apply"
        /\ UNCHANGED <<obj, crd>>
    BY <1>1, <1>7 DEF MapSpec, TypeOK
  <2>2. QED
    BY <2>1
    DEF Copied, SameObject, StatusBehind, Exists, HasFinalizer, HasIdentity,
        Recorded
<1>8. CASE ReferenceNotReady(r) \/ MapSpecFails(r)
  <2>1. pc'[r] = "idle" /\ UNCHANGED obj
    BY <1>1, <1>8, EndReconcileType
    DEF ReferenceNotReady, MapSpecFails, ReturnError, ReturnRequeueAfter
  <2>2. QED
    BY <1>2, <2>1, CopiedAtEnd DEF Exists
<1>9. QED
  BY <1>4, <1>5, <1>6, <1>7, <1>8

\* The apply, which reads the state, and the save, which overwrites it.
LEMMA Copied_Save ==
  ASSUME IInv, NEW r \in Resources, Copied(r),
         \/ PlanAndApply(r) \/ PlanAndApplyRefused(r) \/ PlanAndApplyFails(r)
         \/ SaveTerraformState(r) \/ SaveTerraformStateFails(r)
  PROVE  Copied(r)'
<1>1. TypeOK /\ LocalsSet /\ Held(r)
  BY HeldAll DEF IInv, IndInv
<1>2. Exists(r) => obj[r].lastAppliedGeneration <= obj[r].generation
  BY DEF Copied, StatusBehind
\* The object with the state.
<1>3. ASSUME Exists(r), pc[r] = "save"
      PROVE  /\ \/ Persisted(WithState(r)) = WithState(r)
                \/ Persisted(WithState(r)) = None /\ ~HasFinalizer(WithState(r))
             /\ WithState(r) \in Object /\ WithState(r) # None
             /\ WithState(r).lastAppliedGeneration <= WithState(r).generation
             /\ HasFinalizer(obj[r]) <=> HasFinalizer(WithState(r))
  <2>1. WithState(r) \in Object
    BY <1>1, <1>3, PatchTypes
  <2>2. HasFinalizer(obj[r]) <=> HasFinalizer(WithState(r))
    BY <1>1, <1>3, PatchFields DEF HasFinalizer
  <2>3. WithState(r).lastAppliedGeneration <= WithState(r).generation
    BY <1>1, <1>2, <1>3, StatusKeeps
  <2>4. QED
    BY <2>1, <2>2, <2>3, StoredObject
<1>4. CASE PlanAndApply(r)
  <2>1. /\ pc[r] = "apply" /\ pc'[r] = "save" /\ Readable(crd[r].tfState)
        /\ UNCHANGED <<obj, crd, key>>
    BY <1>1, <1>4 DEF PlanAndApply, TypeOK, process
  <2>2. QED
    BY <2>1
    DEF Copied, SameObject, StatusBehind, Exists, HasFinalizer, Readable
<1>5. CASE PlanAndApplyRefused(r) \/ PlanAndApplyFails(r)
  <2>1. pc'[r] = "idle" /\ UNCHANGED obj
    BY <1>1, <1>5, EndReconcileType
    DEF PlanAndApplyRefused, PlanAndApplyFails, ReturnError
  <2>2. QED
    BY <1>2, <2>1, CopiedAtEnd DEF Exists
<1>6. CASE SaveTerraformState(r)
  <2>1. /\ Exists(r) /\ pc[r] = "save" /\ pc'[r] = "finish"
        /\ obj'[r] = Persisted(WithState(r)) /\ crd'[r] = WithState(r)
        /\ UNCHANGED deleting
    <3>1. /\ Exists(r) /\ pc[r] = "save" /\ Store(r, WithState(r))
      BY <1>6 DEF SaveTerraformState, StateAccepted
    <3>2. obj'[r] = Persisted(WithState(r))
      BY <1>1, <1>3, <3>1, StoreType
    <3>3. QED
      BY <1>1, <1>6, <3>1, <3>2 DEF SaveTerraformState, TypeOK
  <2>2. ~deleting[r] => HasFinalizer(obj[r])
    BY <1>1, <2>1 DEF Held, Steps
  <2>3. /\ ~deleting[r] => obj'[r] # None
        /\ obj'[r] \in {None, WithState(r)}
        /\ HasFinalizer(WithState(r)) => obj'[r] = WithState(r)
    BY <1>3, <2>1, <2>2
  <2>4. WithState(r).generation <= WithState(r).generation
    <3>1. Keeps(WithState(r), WithState(r))
      BY <1>3, <2>1, ObjectKeeps
    <3>2. QED
      BY <3>1 DEF Keeps
  <2>5. QED
    BY <1>3, <2>1, <2>3, <2>4
    DEF Copied, SameObject, StatusBehind, Exists
<1>7. CASE SaveTerraformStateFails(r)
  <2>1. pc[r] = "save" /\ pc'[r] = "idle"
    BY <1>1, <1>7, EndReconcileType DEF SaveTerraformStateFails, ReturnError
  <2>2. Patched(r, Exists(r), WithState(r))
    BY <1>1, <1>7, <2>1, FailedStatePatch DEF SaveTerraformStateFails
  <2>3. CASE obj'[r] = obj[r]
    BY <1>2, <2>1, <2>3, CopiedAtEnd DEF Exists
  <2>4. CASE Exists(r) /\ obj'[r] = Persisted(WithState(r))
    BY <1>3, <2>1, <2>4, CopiedAtEnd
  <2>5. QED
    BY <2>2, <2>3, <2>4 DEF Patched
<1>8. QED
  BY <1>4, <1>5, <1>6, <1>7

\* The end of a reconcile.
LEMMA Copied_Finish ==
  ASSUME IInv, NEW r \in Resources, Copied(r),
         \/ RemoveFinalizerAndSave(r) \/ RemoveFinalizerFails(r)
         \/ SaveResourceStatus(r) \/ SaveResourceStatusFails(r)
  PROVE  Copied(r)'
<1> DEFINE o == [obj[r] EXCEPT !.finalizers = WithoutFinalizer(r)]
<1>1. TypeOK /\ LocalsSet /\ Held(r)
  BY HeldAll DEF IInv, IndInv
<1>2. /\ pc[r] = "finish" /\ pc'[r] = "idle"
      /\ Exists(r) => obj[r].lastAppliedGeneration <= obj[r].generation
  BY <1>1, EndReconcileType
  DEF RemoveFinalizerAndSave, RemoveFinalizerFails, SaveResourceStatus,
      SaveResourceStatusFails, ReturnSuccess, ReturnError, Copied, StatusBehind
<1>3. CASE obj'[r] = obj[r]
  BY <1>2, <1>3, CopiedAtEnd DEF Exists
<1>4. ASSUME Exists(r), obj'[r] = Persisted(o)
      PROVE  Copied(r)'
  <2>1. o \in Object /\ Keeps(o, obj[r]) /\ obj[r] \in Object
    BY <1>1, <1>2, <1>4, PatchTypes, ObjectKeeps DEF TypeOK, Exists
  <2>2. o.lastAppliedGeneration <= o.generation
    <3>1. /\ o.generation \in Nat /\ obj[r].generation \in Nat
          /\ obj[r].lastAppliedGeneration \in Nat
      BY <2>1, ObjectKeeps
    <3>2. QED
      BY <1>2, <1>4, <2>1, <3>1 DEF Keeps
  <2>3. QED
    BY <1>2, <1>4, <2>1, <2>2, StoredObject, CopiedAtEnd
<1>5. ASSUME ~deleting[r], Exists(r), obj'[r] = Persisted(WithStatus(r))
      PROVE  Copied(r)'
  <2>1. WithStatus(r) \in Object
    BY <1>1, <1>2, <1>5, PatchTypes
  <2>2. WithStatus(r).lastAppliedGeneration <= WithStatus(r).generation
    BY <1>1, <1>2, <1>5, StatusKeeps DEF Copied, StatusBehind
  <2>3. QED
    BY <1>2, <1>5, <2>1, <2>2, StoredObject, CopiedAtEnd
<1>6. CASE RemoveFinalizerAndSave(r)
  <2>1. Exists(r) /\ o \in Object
    BY <1>1, <1>2, <1>6, PatchTypes DEF RemoveFinalizerAndSave, FinalizersAccepted
  <2>2. obj'[r] = Persisted(o)
    BY <1>1, <1>6, <2>1, StoreType DEF RemoveFinalizerAndSave
  <2>3. QED
    BY <1>4, <2>1, <2>2
<1>7. CASE RemoveFinalizerFails(r)
  BY <1>1, <1>2, <1>3, <1>4, <1>7, FailedFinalizerPatch
  DEF RemoveFinalizerFails, Patched, FinalizersAccepted
<1>8. CASE SaveResourceStatus(r)
  <2>1. ~deleting[r] /\ Exists(r) /\ WithStatus(r) \in Object
    BY <1>1, <1>2, <1>8, PatchTypes DEF SaveResourceStatus, StatusAccepted
  <2>2. obj'[r] = Persisted(WithStatus(r))
    BY <1>1, <1>8, <2>1, StoreType DEF SaveResourceStatus
  <2>3. QED
    BY <1>5, <2>1, <2>2
<1>9. CASE SaveResourceStatusFails(r)
  BY <1>1, <1>2, <1>3, <1>5, <1>9, FailedStatusPatch
  DEF SaveResourceStatusFails, Patched
<1>10. QED
  BY <1>6, <1>7, <1>8, <1>9

\* A restart, or a panic, ends every reconcile.
LEMMA Copied_Restart ==
  ASSUME \A r \in Resources : Copied(r), NEW k, NEW v, Restart(k, v)
  PROVE  \A r \in Resources : Copied(r)'
  BY CopiedAtEnd DEF Copied, StatusBehind, Restart, Exists

\* One resource moves at a time, and nothing but a restart changes the key.
LEMMA OneMoves ==
  ASSUME IInv, NEW r \in Resources,
         \/ User(r) \/ CloudDrift(r) \/ DeliverEvent(r) \/ DelayExpires(r)
         \/ StartReconcile(r) \/ (ReconcileStep(r) /\ ~Panics(r))
  PROVE  /\ UNCHANGED <<key, crashes>>
         /\ \A q \in Resources \ {r} : Untouched(q)
<1>1. TypeOK /\ LocalsSet
  BY DEF IInv, IndInv
<1>2. CASE User(r)
  <2>1. UNCHANGED <<key, crashes>>
    BY <1>2 DEF User, UserCreate, UserUpdate, UserDelete, AddForeignFinalizer,
           RemoveForeignFinalizer, process, budget
  <2>2. QED
    BY <1>1, <1>2, <2>1, UserEffect DEF Untouched, local
<1>3. CASE CloudDrift(r) \/ DeliverEvent(r) \/ DelayExpires(r) \/ StartReconcile(r)
  BY <1>1, <1>3
  DEF CloudDrift, DeliverEvent, DelayExpires, StartReconcile, ReconcileGone,
      ReconcileGetFails, ReconcileBegins, Untouched, TypeOK, local, process,
      budget, history
<1>4. CASE ReconcileStep(r) /\ ~Panics(r)
  <2>1. UNCHANGED <<key, crashes>>
    BY <1>4
    DEF ReconcileStep, EnsureFinalizer, EnsureFinalizerFails, ResolveReference,
        ReferenceNotReady, MapSpec, MapSpecFails, PlanAndApply,
        PlanAndApplyRefused, PlanAndApplyFails, SaveTerraformState,
        SaveTerraformStateFails, RemoveFinalizerAndSave, RemoveFinalizerFails,
        SaveResourceStatus, SaveResourceStatusFails, process, budget
  <2>2. QED
    BY <1>1, <1>4, <2>1, StepUntouched
<1>5. QED
  BY <1>2, <1>3, <1>4

CInv == IInv /\ \A r \in Resources : Copied(r)

LEMMA NextCInv == CInv /\ [Next]_vars => CInv'
<1> SUFFICES ASSUME CInv, [Next]_vars PROVE CInv'
  OBVIOUS
<1>1. IInv /\ IInv'
  BY NextIInv DEF CInv
<1>2. ASSUME NEW r \in Resources,
             \/ User(r) \/ CloudDrift(r) \/ DeliverEvent(r) \/ DelayExpires(r)
             \/ StartReconcile(r) \/ (ReconcileStep(r) /\ ~Panics(r))
      PROVE  CInv'
  <2>1. Copied(r)'
    BY <1>1, <1>2, Copied_User, Copied_Queue, Copied_Map, Copied_Save,
       Copied_Finish
    DEF CInv, ReconcileStep
  <2>2. \A q \in Resources \ {r} : Copied(q)'
    BY <1>1, <1>2, OneMoves, CopiedFrame DEF CInv, Untouched, Unread
  <2>3. QED
    BY <1>1, <2>1, <2>2 DEF CInv
<1>3. ASSUME NEW k, NEW v, Restart(k, v)
      PROVE  CInv'
  BY <1>1, <1>3, Copied_Restart DEF CInv
<1>4. CASE UNCHANGED vars
  BY <1>1, <1>4, CopiedFrame DEF CInv, vars, local, process, Unread
<1>5. QED
  BY <1>2, <1>3, <1>4
  DEF Next, CrashRestart, Panics, DecryptPanic, MapSpecPanic, StatusPanic

LEMMA SpecCInv == Spec => []CInv
<1>1. Init => CInv
  BY InitIInv
  DEF Init, CInv, Copied, SameObject, StatusBehind, Exists
<1>2. QED
  BY <1>1, NextCInv, PTL DEF Spec

-----------------------------------------------------------------------------
(* What the copy of a reconcile is of.                                     *)

\* Keeping is transitive.
LEMMA KeepsTransitive ==
  ASSUME NEW c \in Object, NEW p \in Object, NEW o \in Object,
         Keeps(p, c), Keeps(o, p)
  PROVE  Keeps(o, c)
<1>1. c.generation \in Nat /\ p.generation \in Nat /\ o.generation \in Nat
  BY ObjectKeeps
<1>2. c.generation <= p.generation /\ p.generation <= o.generation
  BY DEF Keeps
<1>3. c.generation <= o.generation
  BY <1>1, <1>2
<1>4. c.generation = o.generation => c.generation = p.generation
  BY <1>1, <1>2
<1>5. QED
  BY <1>3, <1>4 DEF Keeps

\* A copy that is not of a deletion is the object as it is now, just read or the
\* reply to a patch, or is carried on while only users touch the object.
LEMMA CopyChange ==
  ASSUME IInv, Next, NEW r \in Resources, pc'[r] # "idle", ~deleting'[r]
  PROVE  \/ crd'[r] = obj'[r] /\ obj'[r] # None /\ pc'[r] # "save"
         \/ /\ crd'[r] = crd[r] /\ pc[r] # "idle" /\ ~deleting[r]
            /\ pc[r] = "finalizer" /\ ~HasFinalizer(crd[r]) => pc'[r] = "finalizer"
            /\ pc'[r] = "save" =>
                 newState'[r] = IF pc[r] = "save" THEN newState[r] ELSE crd[r].spec
            /\ obj'[r] = obj[r] \/ User(r)
<1>1. TypeOK /\ LocalsSet /\ Held(r)
  BY HeldAll DEF IInv, IndInv
<1>2. ASSUME NEW k, NEW v, Restart(k, v)
      PROVE  FALSE
  BY <1>2 DEF Restart
<1>3. PICK q \in Resources :
        \/ User(q) \/ CloudDrift(q) \/ DeliverEvent(q) \/ DelayExpires(q)
        \/ StartReconcile(q) \/ (ReconcileStep(q) /\ ~Panics(q))
  BY <1>2
  DEF Next, CrashRestart, Panics, DecryptPanic, MapSpecPanic, StatusPanic
<1>4. CASE q # r
  BY <1>3, <1>4, OneMoves DEF Untouched
<1>5. CASE User(r)
  BY <1>1, <1>5, UserEffect DEF local
<1>6. CASE \/ CloudDrift(r) \/ DeliverEvent(r) \/ DelayExpires(r)
           \/ ReconcileGone(r) \/ ReconcileGetFails(r)
  BY <1>6
  DEF CloudDrift, DeliverEvent, DelayExpires, ReconcileGone, ReconcileGetFails,
      local
<1>7. CASE ReconcileBegins(r)
  BY <1>1, <1>7 DEF ReconcileBegins, TypeOK, Exists
<1>8. CASE EnsureFinalizer(r)
  <2>1. /\ pc[r] = "finalizer" /\ pc'[r] = "map"
        /\ UNCHANGED deleting
    BY <1>1, <1>8 DEF EnsureFinalizer, TypeOK
  <2>2. CASE HasFinalizer(crd[r])
    BY <1>8, <2>1, <2>2 DEF EnsureFinalizer
  <2>3. CASE ~HasFinalizer(crd[r])
    <3> DEFINE o == [obj[r] EXCEPT !.finalizers = WithFinalizer(r)]
    <3>1. Exists(r) /\ Store(r, o) /\ crd' = [crd EXCEPT ![r] = obj'[r]]
      BY <1>8, <2>3 DEF EnsureFinalizer, FinalizersAccepted
    <3>2. o \in Object /\ HasFinalizer(o)
      <4>1. o \in Object
        BY <1>1, <2>1, <3>1, PatchTypes
      <4>2. o.finalizers = WithFinalizer(r)
        BY <1>1, <2>1, <3>1, PatchFields
      <4>3. QED
        BY <4>1, <4>2 DEF WithFinalizer, HasFinalizer
    <3>3. obj'[r] = Persisted(o) /\ crd'[r] = obj'[r]
      BY <1>1, <3>1, <3>2, StoreType DEF TypeOK
    <3>4. QED
      BY <2>1, <3>2, <3>3, StoredObject
  <2>4. QED
    BY <2>2, <2>3
<1>9. CASE ResolveReference(r) \/ MapSpec(r)
  BY <1>1, <1>9 DEF ResolveReference, MapSpec, TypeOK
<1>10. CASE PlanAndApply(r)
  BY <1>1, <1>10 DEF PlanAndApply, TypeOK, terraformConfig
<1>11. CASE SaveTerraformState(r)
  <2>1. /\ pc[r] = "save" /\ Exists(r) /\ Store(r, WithState(r))
        /\ pc'[r] = "finish" /\ crd'[r] = WithState(r) /\ UNCHANGED deleting
    BY <1>1, <1>11 DEF SaveTerraformState, StateAccepted, TypeOK
  <2>2. WithState(r) \in Object /\ HasFinalizer(WithState(r))
    <3>1. WithState(r) \in Object /\ WithState(r).finalizers = obj[r].finalizers
      BY <1>1, <2>1, PatchTypes, PatchFields
    <3>2. HasFinalizer(obj[r])
      BY <1>1, <2>1 DEF Held, Steps
    <3>3. QED
      BY <3>1, <3>2 DEF HasFinalizer
  <2>3. obj'[r] = Persisted(WithState(r))
    BY <1>1, <2>1, <2>2, StoreType
  <2>4. QED
    BY <2>1, <2>2, <2>3, StoredObject
<1>12. ~EndReconcile(r)
  BY <1>1, EndReconcileType
<1>13. QED
  BY <1>3, <1>4, <1>5, <1>6, <1>7, <1>8, <1>9, <1>10, <1>11, <1>12
  DEF StartReconcile, ReconcileStep, EnsureFinalizerFails, ReferenceNotReady,
      MapSpecFails, PlanAndApplyRefused, PlanAndApplyFails,
      SaveTerraformStateFails, RemoveFinalizerAndSave, RemoveFinalizerFails,
      SaveResourceStatus, SaveResourceStatusFails, ReturnError, ReturnSuccess,
      ReturnRequeueAfter

\* A copy with the finalizer is of the object that is there, which has kept all
\* that the bridge has written in it; what is to be saved is the copy's spec.
Mine(r) ==
  pc[r] # "idle" /\ ~deleting[r] =>
    /\ (pc[r] = "finalizer" => HasFinalizer(crd[r])) => Keeps(obj[r], crd[r])
    /\ crd[r].lastAppliedGeneration <= crd[r].generation
    /\ pc[r] = "save" => newState[r] = crd[r].spec

MInv == CInv /\ \A r \in Resources : Mine(r)

LEMMA MineStep ==
  ASSUME MInv, CInv', Next, NEW r \in Resources
  PROVE  Mine(r)'
<1>1. /\ IInv /\ TypeOK /\ Held(r) /\ Copied(r) /\ Mine(r)
      /\ TypeOK' /\ Copied(r)'
  BY HeldAll DEF MInv, CInv, IInv
<1> SUFFICES ASSUME pc'[r] # "idle", ~deleting'[r]
             PROVE  /\ (pc'[r] = "finalizer" => HasFinalizer(crd'[r])) =>
                         Keeps(obj'[r], crd'[r])
                    /\ crd'[r].lastAppliedGeneration <= crd'[r].generation
                    /\ pc'[r] = "save" => newState'[r] = crd'[r].spec
  BY DEF Mine
<1>2. CASE crd'[r] = obj'[r] /\ obj'[r] # None /\ pc'[r] # "save"
  <2>1. obj'[r] \in Object
    BY <1>1, <1>2 DEF TypeOK
  <2>2. Keeps(obj'[r], obj'[r])
    BY <2>1, ObjectKeeps
  <2>3. obj'[r].lastAppliedGeneration <= obj'[r].generation
    BY <1>1, <1>2 DEF Copied, StatusBehind, Exists
  <2>4. QED
    BY <1>2, <2>2, <2>3
<1>3. CASE /\ crd'[r] = crd[r] /\ pc[r] # "idle" /\ ~deleting[r]
           /\ pc[r] = "finalizer" /\ ~HasFinalizer(crd[r]) => pc'[r] = "finalizer"
           /\ pc'[r] = "save" =>
                newState'[r] = IF pc[r] = "save" THEN newState[r] ELSE crd[r].spec
           /\ obj'[r] = obj[r] \/ User(r)
  <2>1. ASSUME pc'[r] = "finalizer" => HasFinalizer(crd'[r])
        PROVE  Keeps(obj'[r], crd'[r])
    <3>1. pc[r] = "finalizer" => HasFinalizer(crd[r])
      BY <1>3, <2>1
    <3>2. Keeps(obj[r], crd[r]) /\ Exists(r) /\ HasFinalizer(obj[r])
      BY <1>1, <1>3, <3>1 DEF Mine, Held, TypeOK, Steps
    <3>3. CASE obj'[r] = obj[r]
      BY <1>3, <3>2, <3>3
    <3>4. CASE User(r)
      <4>1. obj'[r] # None
        BY <1>1, <3>2, <3>4, UserEffect
      <4>2. Keeps(obj'[r], obj[r])
        BY <1>1, <3>2, <3>4, <4>1, UserKeeps
      <4>3. obj[r] \in Object /\ obj'[r] \in Object /\ crd[r] \in Object
        BY <1>1, <1>3, <3>2, <4>1 DEF TypeOK, Held, Exists
      <4>4. QED
        BY <1>3, <3>2, <4>2, <4>3, KeepsTransitive
    <3>5. QED
      BY <1>3, <3>3, <3>4
  <2>2. QED
    BY <1>1, <1>3, <2>1 DEF Mine
<1>4. QED
  BY <1>1, <1>2, <1>3, CopyChange

LEMMA SpecMInv == Spec => []MInv
<1>1. Init => MInv
  <2>1. Init => CInv
    BY InitIInv DEF Init, CInv, Copied, SameObject, StatusBehind, Exists
  <2>2. QED
    BY <2>1 DEF Init, MInv, Mine
<1>2. MInv /\ [Next]_vars => MInv'
  <2>1. CASE Next
    BY <2>1, NextCInv, MineStep DEF MInv
  <2>2. CASE UNCHANGED vars
    BY <2>2, NextCInv DEF MInv, Mine, Keeps, HasFinalizer, vars, local
  <2>3. QED
    BY <2>1, <2>2
<1>3. QED
  BY <1>1, <1>2, PTL DEF Spec

-----------------------------------------------------------------------------
(* The theorems.                                                           *)

\* What can become of an object that stays: only the two patches of the status
\* change what the bridge has written in it.
LEMMA ObjectChange ==
  ASSUME IInv, Next, NEW r \in Resources, Exists(r), obj'[r] # None
  PROVE  \/ Keeps(obj'[r], obj[r])
         \/ pc[r] = "save" /\ obj'[r] = WithState(r)
         \/ pc[r] = "finish" /\ ~deleting[r] /\ obj'[r] = WithStatus(r)
<1> DEFINE with(fs) == [obj[r] EXCEPT !.finalizers = fs]
<1>1. TypeOK /\ LocalsSet /\ obj[r] \in Object
  BY DEF IInv, IndInv, TypeOK, Exists
<1>2. CASE obj'[r] = obj[r]
  BY <1>1, <1>2, ObjectKeeps
<1>3. ASSUME NEW fs, obj'[r] = Persisted(with(fs))
      PROVE  Keeps(obj'[r], obj[r])
  <2>1. obj'[r] = with(fs)
    BY <1>3 DEF Persisted
  <2>2. Keeps(with(fs), obj[r])
    BY <1>1, ObjectKeeps
  <2>3. QED
    BY <2>1, <2>2
<1>4. ASSUME obj'[r] # obj[r],
             NEW q \in Resources,
             \/ User(q) \/ CloudDrift(q) \/ DeliverEvent(q) \/ DelayExpires(q)
             \/ StartReconcile(q) \/ (ReconcileStep(q) /\ ~Panics(q))
      PROVE  User(r) \/ (ReconcileStep(r) /\ ~Panics(r))
  <2>1. q = r
    BY <1>4, OneMoves DEF Untouched
  <2>2. QED
    BY <1>4, <2>1
    DEF CloudDrift, DeliverEvent, DelayExpires, StartReconcile, ReconcileGone,
        ReconcileGetFails, ReconcileBegins
<1>5. CASE User(r)
  BY <1>1, <1>5, UserKeeps DEF Exists
<1>6. CASE EnsureFinalizer(r) \/ EnsureFinalizerFails(r)
  <2>1. pc[r] = "finalizer"
    BY <1>6 DEF EnsureFinalizer, EnsureFinalizerFails
  <2>2. with(WithFinalizer(r)) \in Object
    BY <1>1, <2>1, PatchTypes
  <2>3. \/ obj'[r] = obj[r]
        \/ obj'[r] = Persisted(with(WithFinalizer(r)))
    <3>1. CASE EnsureFinalizer(r)
      BY <1>1, <2>2, <3>1, StoreType DEF EnsureFinalizer
    <3>2. CASE EnsureFinalizerFails(r)
      BY <1>1, <2>1, <3>2, FailedFinalizerPatch DEF EnsureFinalizerFails, Patched
    <3>3. QED
      BY <1>6, <3>1, <3>2
  <2>4. QED
    BY <1>2, <1>3, <2>3
<1>7. CASE SaveTerraformState(r) \/ SaveTerraformStateFails(r)
  <2>1. pc[r] = "save"
    BY <1>7 DEF SaveTerraformState, SaveTerraformStateFails
  <2>2. WithState(r) \in Object
    BY <1>1, <2>1, PatchTypes
  <2>3. obj'[r] = obj[r] \/ obj'[r] = Persisted(WithState(r))
    <3>1. CASE SaveTerraformState(r)
      BY <1>1, <2>2, <3>1, StoreType DEF SaveTerraformState
    <3>2. CASE SaveTerraformStateFails(r)
      BY <1>1, <2>1, <3>2, FailedStatePatch DEF SaveTerraformStateFails, Patched
    <3>3. QED
      BY <1>7, <3>1, <3>2
  <2>4. QED
    BY <1>2, <2>1, <2>3 DEF Persisted
<1>8. CASE RemoveFinalizerAndSave(r) \/ RemoveFinalizerFails(r)
  <2>1. pc[r] = "finish"
    BY <1>8 DEF RemoveFinalizerAndSave, RemoveFinalizerFails
  <2>2. with(WithoutFinalizer(r)) \in Object
    BY <1>1, <2>1, PatchTypes
  <2>3. \/ obj'[r] = obj[r]
        \/ obj'[r] = Persisted(with(WithoutFinalizer(r)))
    <3>1. CASE RemoveFinalizerAndSave(r)
      BY <1>1, <2>2, <3>1, StoreType DEF RemoveFinalizerAndSave
    <3>2. CASE RemoveFinalizerFails(r)
      BY <1>1, <2>1, <3>2, FailedFinalizerPatch DEF RemoveFinalizerFails, Patched
    <3>3. QED
      BY <1>8, <3>1, <3>2
  <2>4. QED
    BY <1>2, <1>3, <2>3
<1>9. CASE SaveResourceStatus(r) \/ SaveResourceStatusFails(r)
  <2>1. pc[r] = "finish" /\ ~deleting[r]
    BY <1>9 DEF SaveResourceStatus, SaveResourceStatusFails
  <2>2. WithStatus(r) \in Object
    BY <1>1, <2>1, PatchTypes
  <2>3. obj'[r] = obj[r] \/ obj'[r] = Persisted(WithStatus(r))
    <3>1. CASE SaveResourceStatus(r)
      BY <1>1, <2>2, <3>1, StoreType DEF SaveResourceStatus
    <3>2. CASE SaveResourceStatusFails(r)
      BY <1>1, <2>1, <3>2, FailedStatusPatch DEF SaveResourceStatusFails, Patched
    <3>3. QED
      BY <1>9, <3>1, <3>2
  <2>4. QED
    BY <1>2, <2>1, <2>3 DEF Persisted
<1>10. CASE ReconcileStep(r) /\ ~Panics(r) /\ obj'[r] # obj[r]
  BY <1>6, <1>7, <1>8, <1>9, <1>10
  DEF ReconcileStep, ResolveReference, ReferenceNotReady, MapSpec, MapSpecFails,
      PlanAndApply, PlanAndApplyRefused, PlanAndApplyFails
<1>11. ASSUME NEW q \in Resources, Panics(q)
       PROVE  obj'[r] = obj[r]
  BY <1>11 DEF Panics, DecryptPanic, MapSpecPanic, StatusPanic, Restart
<1>12. ASSUME CrashRestart
       PROVE  obj'[r] = obj[r]
  BY <1>12 DEF CrashRestart, Restart
<1>13. QED
  BY <1>2, <1>4, <1>5, <1>10, <1>11, <1>12 DEF Next

\* The last applied generation only grows and never passes the generation.
THEOREM LastAppliedMonotonicHolds == Spec => LastAppliedMonotonic
<1>1. ASSUME CInv, CInv', [Next]_vars
      PROVE  [\A r \in Resources :
                Exists(r) /\ obj'[r] # None =>
                  /\ obj[r].lastAppliedGeneration <= obj'[r].lastAppliedGeneration
                  /\ obj'[r].lastAppliedGeneration <= obj'[r].generation]_vars
  <2> SUFFICES ASSUME Next, NEW r \in Resources, Exists(r), obj'[r] # None
               PROVE  /\ obj[r].lastAppliedGeneration <= obj'[r].lastAppliedGeneration
                      /\ obj'[r].lastAppliedGeneration <= obj'[r].generation
    BY <1>1
  <2>1. obj'[r].lastAppliedGeneration <= obj'[r].generation
    BY <1>1 DEF CInv, Copied, StatusBehind, Exists
  <2>2. IInv /\ TypeOK /\ LocalsSet /\ Copied(r)
    BY <1>1 DEF CInv, IInv, IndInv
  <2>3. obj[r].lastAppliedGeneration <= obj[r].lastAppliedGeneration
    <3>1. obj[r].lastAppliedGeneration \in Nat
      BY <2>2, ObjectKeeps DEF TypeOK, Exists
    <3>2. QED
      BY <3>1
  <2>4. CASE Keeps(obj'[r], obj[r])
    BY <2>1, <2>3, <2>4 DEF Keeps
  <2>5. CASE pc[r] = "save" /\ obj'[r] = WithState(r)
    BY <2>1, <2>2, <2>3, <2>5, StatusKeeps
  <2>6. CASE pc[r] = "finish" /\ ~deleting[r] /\ obj'[r] = WithStatus(r)
    BY <2>1, <2>2, <2>6, StatusKeeps DEF Copied, StatusBehind
  <2>7. QED
    BY <1>1, <2>2, <2>4, <2>5, <2>6, ObjectChange
<1>2. QED
  BY <1>1, SpecCInv, PTL DEF Spec, LastAppliedMonotonic

\* Once set, the provider metadata of an object stays what it is.
THEOREM ProviderPinnedHolds == Spec => ProviderPinned
<1>1. ASSUME CInv, [Next]_vars
      PROVE  [\A r \in Resources :
                Exists(r) /\ obj'[r] # None /\ obj[r].provider # None =>
                  obj'[r].provider = obj[r].provider]_vars
  <2> SUFFICES ASSUME Next, NEW r \in Resources,
                      Exists(r), obj'[r] # None, obj[r].provider # None
               PROVE  obj'[r].provider = obj[r].provider
    BY <1>1
  <2>1. IInv /\ TypeOK /\ LocalsSet /\ Copied(r)
    BY <1>1 DEF CInv, IInv, IndInv
  <2>2. CASE Keeps(obj'[r], obj[r])
    BY <2>2 DEF Keeps
  <2>3. CASE pc[r] = "save" /\ obj'[r] = WithState(r)
    BY <2>1, <2>3, StatusKeeps
  <2>4. CASE pc[r] = "finish" /\ ~deleting[r] /\ obj'[r] = WithStatus(r)
    BY <2>1, <2>4, StatusKeeps DEF Copied, StatusBehind
  <2>5. QED
    BY <2>1, <2>2, <2>3, <2>4, ObjectChange
<1>2. QED
  BY <1>1, SpecCInv, PTL DEF Spec, ProviderPinned

\* A state written under one setting of the key is not overwritten under
\* another: what a save overwrites has been read.
THEOREM UnreadableStateKeptHolds == Spec => UnreadableStateKept
<1>1. ASSUME CInv, [Next]_vars
      PROVE  [\A r \in Resources :
                HasIdentity(obj[r]) /\ obj[r].tfState.key # key =>
                  obj'[r] # None /\ obj'[r].tfState = obj[r].tfState]_vars
  <2> SUFFICES ASSUME Next, NEW r \in Resources,
                      HasIdentity(obj[r]), obj[r].tfState.key # key
               PROVE  obj'[r] # None /\ obj'[r].tfState = obj[r].tfState
    BY <1>1
  <2>1. IInv /\ TypeOK /\ LocalsSet /\ Held(r) /\ Copied(r)
    BY <1>1, HeldAll DEF CInv, IInv, IndInv
  <2>2. Exists(r) /\ obj[r].tfState # None /\ HasFinalizer(obj[r])
    BY <2>1, SpecAssumption DEF HasIdentity, Recorded, Exists, Held
  <2>3. pc[r] # "save"
    BY <2>1, <2>2 DEF Held, Copied, SameObject, Readable
  <2>4. ~(pc[r] = "finish" /\ deleting[r])
    BY <2>1, <2>2, SpecAssumption DEF Held, HasIdentity
  <2>5. HasIdentity(obj'[r])
    BY <2>1, <2>3, <2>4, IdentityChange
  <2>6. obj'[r] # None
    BY <2>5, SpecAssumption DEF HasIdentity, Recorded
  <2>7. CASE Keeps(obj'[r], obj[r])
    BY <2>6, <2>7 DEF Keeps
  <2>8. CASE pc[r] = "finish" /\ ~deleting[r] /\ obj'[r] = WithStatus(r)
    BY <2>1, <2>2, <2>6, <2>8, PatchFields
  <2>9. QED
    BY <2>1, <2>2, <2>3, <2>6, <2>7, <2>8, ObjectChange
<1>2. QED
  BY <1>1, SpecCInv, PTL DEF Spec, UnreadableStateKept

\* What a reconcile overwrites past ensureFinalizer is what it has read, of the
\* object it has read, though its patches name neither.
THEOREM CopyOfItsObjectHolds == Spec => []CopyOfItsObject
<1>1. MInv => CopyOfItsObject
  <2> SUFFICES ASSUME MInv, NEW r \in Resources, ~deleting[r],
                      pc[r] \in {"map", "apply", "save", "finish"}
               PROVE  /\ Exists(r) /\ HasFinalizer(obj[r])
                      /\ StatusOf(crd[r]) = StatusOf(obj[r])
                      /\ crd[r].generation <= obj[r].generation
                      /\ crd[r].generation = obj[r].generation =>
                           crd[r].spec = obj[r].spec
                      /\ crd[r].deleting => obj[r].deleting
    BY DEF CopyOfItsObject
  <2>1. Held(r) /\ Mine(r)
    BY HeldAll DEF MInv, CInv, IInv
  <2>2. Exists(r) /\ HasFinalizer(obj[r])
    BY <2>1 DEF Held, Steps
  <2>3. Keeps(obj[r], crd[r])
    BY <2>1 DEF Mine
  <2>4. QED
    BY <2>2, <2>3 DEF Keeps, StatusOf
<1>2. QED
  BY <1>1, SpecMInv, PTL

=============================================================================
