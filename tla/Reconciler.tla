----------------------------- MODULE Reconciler -----------------------------
(***************************************************************************)
(* The Terraform operator bridge at work: custom resources in the          *)
(* Kubernetes API server, the work queue that feeds the controllers, one   *)
(* single-threaded controller per kind, and the Terraform provider that    *)
(* creates, updates and destroys the cloud resource behind each object.    *)
(*                                                                         *)
(* A reconcile (TerraformReconciler.Reconcile) is a chain of remote calls; *)
(* each call is one step here, and everything else may happen in between:  *)
(* users change or delete the object, other controllers change its         *)
(* finalizers, calls fail before or after taking effect, the bridge is     *)
(* killed and restarted.                                                   *)
(*                                                                         *)
(* A spec, the Terraform configuration it maps to and the Terraform state  *)
(* that holds it after an apply are one value; what a state adds, the      *)
(* identity of the cloud resource, is present exactly when the state is    *)
(* neither missing nor null.                                               *)
(***************************************************************************)
EXTENDS Naturals, FiniteSets

CONSTANTS
  Resources,        \* names of custom resources
  KindOf,           \* the kind, hence the controller, of a resource
  Refs,             \* the resources whose outputs a resource's spec refers to
  Specs,            \* the specs a user may write
  ValidSpecs,       \* the ones the mapping and the provider accept
  PanicSpecs,       \* the ones that make the mapping panic (ValueMapping)
  Unreportable,     \* the ones whose outputs make the status mapping panic
  Unfit,            \* the ones whose status cannot be mapped or is refused
  Unsavable,        \* resources whose status must hold a block (Translation)
  Foreign,          \* finalizers of other controllers
  Keys,             \* settings of the encryption key, NoKey (unset) included
  NoKey,
  Versions,         \* provider versions the bridge may be started with
  None,             \* no object, no cloud resource, field not set
  NullVal,          \* cty.NullVal, the state of a destroyed resource
  WebhookDeployed,  \* is the validating webhook registered in the cluster?
  MaxGeneration, MaxFaults, MaxCrashes, MaxDrifts   \* bounds of the model

ASSUME SpecAssumption ==
  /\ ValidSpecs \subseteq Specs
  /\ PanicSpecs \subseteq Specs \ ValidSpecs
  /\ Unreportable \subseteq ValidSpecs /\ Unfit \subseteq ValidSpecs
  /\ Unsavable \subseteq Resources
  /\ None \notin Specs /\ NullVal \notin Specs /\ None # NullVal
ASSUME EnvironmentAssumption ==
  /\ NoKey \in Keys
  /\ None \notin Versions
  /\ WebhookDeployed \in BOOLEAN
ASSUME ReferenceAssumption == Refs \in [Resources -> SUBSET Resources]
ASSUME BoundAssumption ==
  /\ MaxGeneration \in Nat /\ MaxFaults \in Nat
  /\ MaxCrashes \in Nat /\ MaxDrifts \in Nat

VARIABLES
  obj,          \* the API server's object, or None
  cloud,        \* the spec of the cloud resource behind it, or None
  pending,      \* watch events on their way to the controllers
  queue,        \* work queue
  delayed,      \* requests that come back after a back-off or RequeueAfter
  pc,           \* where the reconcile of a resource is, "idle" if there is none
  crd,          \* the reconcile's copy of the object
  deleting,     \* its local of that name
  todo,         \* the references it has still to resolve
  newState,     \* the state the provider returned
  key, version, \* the process environment
  faults, crashes, drifts,   \* how often each bounded event has happened
  unrecorded,   \* history: the cloud resource's identity was lost
  diverged,     \* history: what is recorded of it may not be what it is
  provisioned   \* history: resources that have been "Created" once

local   == <<pc, crd, deleting, todo, newState>>
work    == <<pending, queue, delayed>>
process == <<key, version>>
budget  == <<faults, crashes, drifts>>
history == <<unrecorded, diverged, provisioned>>
vars    == <<obj, cloud, work, local, process, budget, history>>

-----------------------------------------------------------------------------
(* Objects.  tfState is the string under status._tfoperator.tfState: the   *)
(* JSON of a state (plain) under the key it was encrypted with.            *)

Bridge == "tfoperatorbridge.local"

TfState == [plain : Specs \cup {NullVal}, key : Keys]

Object == [spec                  : Specs,
           generation            : Nat,
           deleting              : BOOLEAN,
           finalizers            : SUBSET (Foreign \cup {Bridge}),
           tfState               : TfState \cup {None},
           lastAppliedGeneration : Nat,
           provisioningState     : {"", "Created"},
           outputs               : Specs \cup {None},
           provider              : Versions \cup {None}]

Steps == {"idle", "finalizer", "map", "apply", "save", "finish"}

NewObject(s) == [spec |-> s, generation |-> 1, deleting |-> FALSE,
                 finalizers |-> {}, tfState |-> None,
                 lastAppliedGeneration |-> 0, provisioningState |-> "",
                 outputs |-> None, provider |-> None]

Exists(r) == obj[r] # None

\* The state an object records: None (field absent), NullVal or a spec.
Recorded(o) == IF o = None \/ o.tfState = None THEN None ELSE o.tfState.plain

\* A recorded state knows its cloud resource only if something was created.
HasIdentity(o) == Recorded(o) \in Specs

HasFinalizer(o) == Bridge \in o.finalizers

ASSUME ObjectAssumption ==
  None \notin Object /\ None \notin TfState /\ Bridge \notin Foreign

-----------------------------------------------------------------------------
(* The API server.                                                         *)

\* Mutant: updates never reach the queue.
GenerationIgnored(old, new) == old = None \/ new = None

\* controller.go registers GenerationChangedPredicate: creations and removals
\* reach the queue, updates only if they change the generation.
GenerationChanged(old, new) ==
  old = None \/ new = None \/ old.generation # new.generation

\* An object that is being deleted goes with its last finalizer.
Persisted(o) == IF o.deleting /\ o.finalizers = {} THEN None ELSE o

Store(r, o) ==
  /\ obj' = [obj EXCEPT ![r] = Persisted(o)]
  /\ pending' = IF GenerationChanged(obj[r], Persisted(o))
                THEN pending \cup {r} ELSE pending

\* Mutant: an object that is not provisioned yet will do.
ResolvableUnprovisioned(p) == Exists(p)

\* getReferencedObjectValue finds a value: the object is there, it has been
\* provisioned, and its status holds the property.
Resolvable(p) ==
  Exists(p) /\ obj[p].provisioningState = "Created" /\ obj[p].outputs # None

\* The webhook, where it is deployed, maps and validates the spec of every
\* object that is created or updated, whoever makes the request.  A webhook that
\* panics gives no answer, and without a failurePolicy the request goes through.
Admitted(r, s) ==
  WebhookDeployed =>
    s \in PanicSpecs \/ (s \in ValidSpecs /\ \A p \in Refs[r] : Resolvable(p))

Fault == faults < MaxFaults /\ faults' = faults + 1

\* A patch the bridge gets an error for: it was not acceptable, the request
\* was lost, or it was carried out and the reply was lost.
PatchFails(r, accepted, o) ==
  \/ ~accepted /\ UNCHANGED <<obj, pending, faults>>
  \/ Fault /\ UNCHANGED <<obj, pending>>
  \/ accepted /\ Fault /\ Store(r, o)

-----------------------------------------------------------------------------
(* Users, other controllers, and the cloud outside the bridge.             *)

UserCreate(r) ==
  /\ ~Exists(r)
  /\ \E s \in Specs : Admitted(r, s) /\ Store(r, NewObject(s))
  /\ UNCHANGED <<cloud, queue, delayed, local, process, budget, history>>

UserUpdate(r) ==
  /\ Exists(r)
  /\ obj[r].generation < MaxGeneration
  /\ \E s \in Specs \ {obj[r].spec} :
       /\ Admitted(r, s)
       /\ Store(r, [obj[r] EXCEPT !.spec = s, !.generation = @ + 1])
  /\ UNCHANGED <<cloud, queue, delayed, local, process, budget, history>>

\* Deletion is not validated.  With finalizers it only sets the deletion
\* timestamp, which counts as a change of generation.
UserDelete(r) ==
  /\ Exists(r)
  /\ ~obj[r].deleting
  /\ Store(r, [obj[r] EXCEPT !.deleting = TRUE, !.generation = @ + 1])
  /\ UNCHANGED <<cloud, queue, delayed, local, process, budget, history>>

\* The API server refuses a new finalizer on an object that is being deleted.
AddForeignFinalizer(r) ==
  /\ Exists(r)
  /\ ~obj[r].deleting
  /\ Admitted(r, obj[r].spec)
  /\ \E f \in Foreign \ obj[r].finalizers :
       Store(r, [obj[r] EXCEPT !.finalizers = @ \cup {f}])
  /\ UNCHANGED <<cloud, queue, delayed, local, process, budget, history>>

RemoveForeignFinalizer(r) ==
  /\ Exists(r)
  /\ Admitted(r, obj[r].spec)
  /\ \E f \in Foreign \cap obj[r].finalizers :
       Store(r, [obj[r] EXCEPT !.finalizers = @ \ {f}])
  /\ UNCHANGED <<cloud, queue, delayed, local, process, budget, history>>

\* Somebody changes or removes the cloud resource behind the bridge's back.
CloudDrift(r) ==
  /\ drifts < MaxDrifts
  /\ cloud[r] # None
  /\ \E c \in (Specs \cup {None}) \ {cloud[r]} :
       /\ cloud' = [cloud EXCEPT ![r] = c]
       /\ unrecorded' = [unrecorded EXCEPT ![r] = @ /\ c # None]
  /\ diverged' = [diverged EXCEPT ![r] = TRUE]
  /\ drifts' = drifts + 1
  /\ UNCHANGED <<obj, work, local, process, faults, crashes, provisioned>>

-----------------------------------------------------------------------------
(* The work queue.                                                         *)

DeliverEvent(r) ==
  /\ r \in pending
  /\ pending' = pending \ {r}
  /\ queue' = queue \cup {r}
  /\ UNCHANGED <<obj, cloud, delayed, local, process, budget, history>>

DelayExpires(r) ==
  /\ r \in delayed
  /\ delayed' = delayed \ {r}
  /\ queue' = queue \cup {r}
  /\ UNCHANGED <<obj, cloud, pending, local, process, budget, history>>

\* One worker per controller, so one reconcile per kind at a time.
Dequeue(r) ==
  /\ r \in queue
  /\ \A q \in Resources : KindOf[q] = KindOf[r] => pc[q] = "idle"
  /\ queue' = queue \ {r}

EndReconcile(r) ==
  /\ pc' = [pc EXCEPT ![r] = "idle"]
  /\ crd' = [crd EXCEPT ![r] = None]
  /\ deleting' = [deleting EXCEPT ![r] = FALSE]
  /\ todo' = [todo EXCEPT ![r] = {}]
  /\ newState' = [newState EXCEPT ![r] = None]

\* Mutant: the error is logged and swallowed.
ErrorSwallowed(r) ==
  EndReconcile(r) /\ UNCHANGED <<delayed, queue>>

\* controller.Reconcile returns an error: the queue retries with a back-off.
ReturnError(r) ==
  EndReconcile(r) /\ delayed' = delayed \cup {r} /\ UNCHANGED queue

\* Mutant: the result lacks the RequeueAfter.
RequeueForgotten(r) ==
  EndReconcile(r) /\ UNCHANGED <<delayed, queue>>

\* Reconcile returns a Result with RequeueAfter.
ReturnRequeueAfter(r) ==
  EndReconcile(r) /\ delayed' = delayed \cup {r} /\ UNCHANGED queue

\* An empty Result and no error: the queue forgets the request.
ReturnSuccess(r) ==
  EndReconcile(r) /\ UNCHANGED <<delayed, queue>>

-----------------------------------------------------------------------------
(* controller.Reconcile up to the hand-over: read the object.              *)

ReconcileGone(r) ==
  /\ Dequeue(r)
  /\ ~Exists(r)
  /\ UNCHANGED <<obj, cloud, pending, delayed, local, process, budget, history>>

ReconcileGetFails(r) ==
  /\ Dequeue(r)
  /\ Fault
  /\ delayed' = delayed \cup {r}
  /\ UNCHANGED <<obj, cloud, pending, local, process, crashes, drifts, history>>

\* Mutant: a deletion goes straight to the removal of the finalizer.
DeletionSkipsApply(r) ==
  /\ Dequeue(r)
  /\ Exists(r)
  /\ crd' = [crd EXCEPT ![r] = obj[r]]
  /\ deleting' = [deleting EXCEPT ![r] = obj[r].deleting]
  /\ pc' = [pc EXCEPT ![r] = IF obj[r].deleting THEN "finish" ELSE "finalizer"]
  /\ UNCHANGED <<obj, cloud, pending, delayed, todo, newState, process, budget,
                 history>>

\* Mutant: any later generation is taken for a deletion.
DeletionByGeneration(r) ==
  /\ Dequeue(r)
  /\ Exists(r)
  /\ crd' = [crd EXCEPT ![r] = obj[r]]
  /\ deleting' = [deleting EXCEPT ![r] = obj[r].generation > 1]
  /\ pc' = [pc EXCEPT ![r] = IF obj[r].generation > 1 THEN "apply" ELSE "finalizer"]
  /\ UNCHANGED <<obj, cloud, pending, delayed, todo, newState, process, budget,
                 history>>

\* TerraformReconciler.Reconcile decides once whether it is deleting.
ReconcileBegins(r) ==
  /\ Dequeue(r)
  /\ Exists(r)
  /\ crd' = [crd EXCEPT ![r] = obj[r]]
  /\ deleting' = [deleting EXCEPT ![r] = obj[r].deleting]
  /\ pc' = [pc EXCEPT ![r] = IF obj[r].deleting THEN "apply" ELSE "finalizer"]
  /\ UNCHANGED <<obj, cloud, pending, delayed, todo, newState, process, budget,
                 history>>

-----------------------------------------------------------------------------
(* ensureFinalizer.  The patch holds the whole list, computed from the     *)
(* copy read earlier; the reply replaces the copy.                         *)

FinalizersAccepted(r, fs) ==
  /\ Exists(r)
  /\ Admitted(r, obj[r].spec)
  /\ obj[r].deleting => fs \subseteq obj[r].finalizers

\* Mutant: the result of append is dropped.
AppendDropped(r) == crd[r].finalizers

WithFinalizer(r) == crd[r].finalizers \cup {Bridge}

EnsureFinalizer(r) ==
  /\ pc[r] = "finalizer"
  /\ IF HasFinalizer(crd[r])
     THEN UNCHANGED <<obj, pending, crd>>
     ELSE /\ FinalizersAccepted(r, WithFinalizer(r))
          /\ Store(r, [obj[r] EXCEPT !.finalizers = WithFinalizer(r)])
          /\ crd' = [crd EXCEPT ![r] = obj'[r]]
  /\ pc' = [pc EXCEPT ![r] = "map"]
  /\ todo' = [todo EXCEPT ![r] = Refs[r]]
  /\ UNCHANGED <<cloud, queue, delayed, deleting, newState, process, budget,
                 history>>

EnsureFinalizerFails(r) ==
  /\ pc[r] = "finalizer"
  /\ ~HasFinalizer(crd[r])
  /\ PatchFails(r, FinalizersAccepted(r, WithFinalizer(r)),
                [obj[r] EXCEPT !.finalizers = WithFinalizer(r)])
  /\ ReturnError(r)
  /\ UNCHANGED <<cloud, process, crashes, drifts, history>>

-----------------------------------------------------------------------------
(* mapCRDSpecValuesToTerraformConfig: references are fetched one by one in *)
(* no fixed order; one that is not ready ends the reconcile.               *)

ResolveReference(r) ==
  /\ pc[r] = "map"
  /\ \E p \in todo[r] : /\ Resolvable(p)
                        /\ todo' = [todo EXCEPT ![r] = @ \ {p}]
  /\ UNCHANGED <<obj, cloud, work, pc, crd, deleting, newState, process, budget,
                 history>>

ReferenceNotReady(r) ==
  /\ pc[r] = "map"
  /\ \E p \in todo[r] : ~Resolvable(p)
  /\ ReturnRequeueAfter(r)
  /\ UNCHANGED <<obj, cloud, pending, process, budget, history>>

\* A value of the wrong shape, or a reference that could not be fetched.
MapSpecFails(r) ==
  /\ pc[r] = "map"
  /\ \/ crd[r].spec \notin ValidSpecs \cup PanicSpecs /\ UNCHANGED faults
     \/ todo[r] # {} /\ Fault
  /\ ReturnError(r)
  /\ UNCHANGED <<obj, cloud, pending, process, crashes, drifts, history>>

MapSpec(r) ==
  /\ pc[r] = "map"
  /\ todo[r] = {}
  /\ crd[r].spec \notin PanicSpecs
  /\ pc' = [pc EXCEPT ![r] = "apply"]
  /\ UNCHANGED <<obj, cloud, work, crd, deleting, todo, newState, process,
                 budget, history>>

\* Mutant: a deletion plans with the spec.
SpecConfig(r) == crd[r].spec

\* The configuration to plan: null for a deletion, else the mapped spec.
terraformConfig(r) == IF deleting[r] THEN NullVal ELSE crd[r].spec

-----------------------------------------------------------------------------
(* getTerraformStateValue and planAndApplyConfig.                          *)

\* Mutant: a state that cannot be decrypted is only warned about.
ReadableAnyway(t) == t = t

\* The key in the environment opens what was written under it; no key reads
\* what was written in the clear.
Readable(t) == t # None => t.key = key

\* "null" in the clear is valid base64 of three bytes, and Decrypt slices off
\* a 16-byte block first.
DecryptPanics(t) ==
  t # None /\ t.plain = NullVal /\ t.key = NoKey /\ key # NoKey

\* The provider creates a resource the state does not know, and refuses to if
\* there is one already: it would have to be imported.
AlreadyExists(r) ==
  terraformConfig(r) # NullVal /\ ~HasIdentity(crd[r]) /\ cloud[r] # None

\* What apply does to the cloud: destroying without an identity is a no-op.
Applied(r) ==
  IF terraformConfig(r) # NullVal THEN terraformConfig(r)
  ELSE IF HasIdentity(crd[r]) THEN None ELSE cloud[r]

\* The plan compares the configuration with the recorded state and not with the
\* cloud, which the bridge never reads: where they agree, whether the provider
\* writes anything is its own affair.
Outcomes(r) ==
  {Applied(r)} \cup {c \in {cloud[r]} : Recorded(crd[r]) = terraformConfig(r)}

PlanAndApply(r) ==
  /\ pc[r] = "apply"
  /\ Readable(crd[r].tfState)
  /\ terraformConfig(r) \in ValidSpecs \cup {NullVal}
  /\ ~AlreadyExists(r)
  /\ \E c \in Outcomes(r) :
       /\ cloud' = [cloud EXCEPT ![r] = c]
       /\ diverged' = [diverged EXCEPT ![r] = @ /\ c # terraformConfig(r)]
  /\ newState' = [newState EXCEPT ![r] = terraformConfig(r)]
  /\ pc' = [pc EXCEPT ![r] = "save"]
  /\ UNCHANGED <<obj, work, crd, deleting, todo, process, budget, unrecorded,
                 provisioned>>

\* The state cannot be read, or the plan or the apply is refused.
PlanAndApplyRefused(r) ==
  /\ pc[r] = "apply"
  /\ IF Readable(crd[r].tfState)
     THEN terraformConfig(r) \notin ValidSpecs \cup {NullVal} \/ AlreadyExists(r)
     ELSE ~DecryptPanics(crd[r].tfState)
  /\ ReturnError(r)
  /\ UNCHANGED <<obj, cloud, pending, process, budget, history>>

\* The provider reports an error before or after it has changed the cloud.
\* The state it returns with the error is dropped, and with it the identity
\* of a resource that has just been created.
PlanAndApplyFails(r) ==
  /\ pc[r] = "apply"
  /\ Readable(crd[r].tfState)
  /\ terraformConfig(r) \in ValidSpecs \cup {NullVal}
  /\ ~AlreadyExists(r)
  /\ Fault
  /\ \/ UNCHANGED <<cloud, unrecorded, diverged>>
     \/ /\ cloud' = [cloud EXCEPT ![r] = Applied(r)]
        /\ diverged' = [diverged EXCEPT ![r] = @ \/ Applied(r) # cloud[r]]
        /\ unrecorded' = [unrecorded EXCEPT
             ![r] = @ \/ (terraformConfig(r) # NullVal /\ ~HasIdentity(crd[r]))]
  /\ ReturnError(r)
  /\ UNCHANGED <<obj, pending, process, crashes, drifts, provisioned>>

-----------------------------------------------------------------------------
(* saveTerraformStateValue: the state goes into the status subresource,    *)
(* which the webhook does not see.  Encryption draws a fresh IV, so only a *)
(* state in the clear can leave the patch empty.                           *)

Encoded(s) == [plain |-> s, key |-> key]

\* Mutant: the base of the patch is copied after the state has been set.
StateNotInPatch(r) == obj[r]

\* Mutant: the state is written when the resource is created, and then no more.
StateWrittenOnce(r) ==
  IF HasIdentity(obj[r]) THEN obj[r]
  ELSE [obj[r] EXCEPT !.tfState = Encoded(newState[r])]

\* Mutant: the status is replaced, not patched.
StatusReplaced(r) ==
  [obj[r] EXCEPT !.tfState = Encoded(newState[r]), !.lastAppliedGeneration = 0,
                 !.provisioningState = "", !.outputs = None]

WithState(r) ==
  IF key = NoKey /\ crd[r].tfState = Encoded(newState[r])
  THEN obj[r] ELSE [obj[r] EXCEPT !.tfState = Encoded(newState[r])]

\* A resource created by this reconcile that the object o does not record.
Lost(r, o) == newState[r] \in Specs /\ ~HasIdentity(o)

\* A resource that o records is not as o records it, for this reconcile has
\* updated or destroyed it.
Outdated(r, o) == HasIdentity(o) /\ Recorded(o) # newState[r]

\* The API server refuses a status that lacks a block its schema requires, and
\* at the first save there is only the state in it.
StateAccepted(r) == Exists(r) /\ r \notin Unsavable

SaveTerraformState(r) ==
  /\ pc[r] = "save"
  /\ StateAccepted(r)
  /\ Store(r, WithState(r))
  /\ crd' = [crd EXCEPT ![r] = WithState(r)]
  /\ pc' = [pc EXCEPT ![r] = "finish"]
  /\ UNCHANGED <<cloud, queue, delayed, deleting, todo, newState, process,
                 budget, history>>

SaveTerraformStateFails(r) ==
  /\ pc[r] = "save"
  /\ PatchFails(r, StateAccepted(r), WithState(r))
  /\ unrecorded' = [unrecorded EXCEPT ![r] = @ \/ Lost(r, obj'[r])]
  /\ diverged' = [diverged EXCEPT ![r] = @ \/ Outdated(r, obj'[r])]
  /\ ReturnError(r)
  /\ UNCHANGED <<cloud, process, crashes, drifts, provisioned>>

-----------------------------------------------------------------------------
(* The end of a reconcile.  A deletion removes the finalizer (its other    *)
(* changes to the copy are never sent); anything else writes the status.   *)

\* Mutant: the finalizer stays in the list.
FinalizerKept(r) == crd[r].finalizers

WithoutFinalizer(r) == crd[r].finalizers \ {Bridge}

RemoveFinalizerAndSave(r) ==
  /\ pc[r] = "finish" /\ deleting[r]
  /\ HasFinalizer(crd[r])
  /\ FinalizersAccepted(r, WithoutFinalizer(r))
  /\ Store(r, [obj[r] EXCEPT !.finalizers = WithoutFinalizer(r)])
  /\ ReturnSuccess(r)
  /\ UNCHANGED <<cloud, process, budget, history>>

RemoveFinalizerFails(r) ==
  /\ pc[r] = "finish" /\ deleting[r]
  /\ \/ ~HasFinalizer(crd[r]) /\ UNCHANGED <<obj, pending, faults>>
     \/ /\ HasFinalizer(crd[r])
        /\ PatchFails(r, FinalizersAccepted(r, WithoutFinalizer(r)),
                      [obj[r] EXCEPT !.finalizers = WithoutFinalizer(r)])
  /\ ReturnError(r)
  /\ UNCHANGED <<cloud, process, crashes, drifts, history>>

\* Mutant: the next generation is reported as applied.
GenerationAhead(r) ==
  [obj[r] EXCEPT !.lastAppliedGeneration = crd[r].generation + 1,
                 !.provisioningState = "Created",
                 !.outputs = newState[r],
                 !.provider = IF crd[r].provider = None THEN version
                                                        ELSE crd[r].provider]

\* Mutant: the metadata follows the running provider.
ProviderFollows(r) ==
  [obj[r] EXCEPT !.lastAppliedGeneration = crd[r].generation,
                 !.provisioningState = "Created",
                 !.outputs = newState[r],
                 !.provider = version]

\* setLastAppliedGeneration, ensureTerraformProviderMetadata,
\* setProvisioningState and mapTerraformValuesToCRDStatus, sent as one patch.
\* The generation is that of the reply to the previous patch.
WithStatus(r) ==
  [obj[r] EXCEPT !.lastAppliedGeneration = crd[r].generation,
                 !.provisioningState = "Created",
                 !.outputs = newState[r],
                 !.provider = IF crd[r].provider = None THEN version
                                                        ELSE crd[r].provider]

Created(q) == obj'[q] # None /\ obj'[q].provisioningState = "Created"

\* Mutant: the status is written after a deletion too.
StatusOfDestroyed(r) ==
  /\ pc[r] = "finish"
  /\ Exists(r)
  /\ Store(r, WithStatus(r))
  /\ provisioned' = provisioned \cup {q \in Resources : Created(q)}
  /\ ReturnSuccess(r)
  /\ UNCHANGED <<cloud, process, budget, unrecorded, diverged>>

\* The provider's values can be mapped to a status, and the API server takes it.
StatusAccepted(r) == Exists(r) /\ newState[r] \notin Unfit

SaveResourceStatus(r) ==
  /\ pc[r] = "finish" /\ ~deleting[r]
  /\ newState[r] \notin Unreportable
  /\ StatusAccepted(r)
  /\ Store(r, WithStatus(r))
  /\ provisioned' = provisioned \cup {q \in Resources : Created(q)}
  /\ ReturnSuccess(r)
  /\ UNCHANGED <<cloud, process, budget, unrecorded, diverged>>

\* The provider's values do not fit the status, now as at every retry, or the
\* patch fails.
SaveResourceStatusFails(r) ==
  /\ pc[r] = "finish" /\ ~deleting[r]
  /\ newState[r] \notin Unreportable
  /\ PatchFails(r, StatusAccepted(r), WithStatus(r))
  /\ provisioned' = provisioned \cup {q \in Resources : Created(q)}
  /\ ReturnError(r)
  /\ UNCHANGED <<cloud, process, crashes, drifts, unrecorded, diverged>>

-----------------------------------------------------------------------------
(* The process dies, anywhere, and is started again.  Everything but the   *)
(* API server and the cloud is lost; the new informers list all objects.   *)

Restart(k, v) ==
  /\ pc' = [r \in Resources |-> "idle"]
  /\ crd' = [r \in Resources |-> None]
  /\ deleting' = [r \in Resources |-> FALSE]
  /\ todo' = [r \in Resources |-> {}]
  /\ newState' = [r \in Resources |-> None]
  /\ pending' = {r \in Resources : Exists(r)}
  /\ queue' = {}
  /\ delayed' = {}
  /\ key' = k
  /\ version' = v
  /\ unrecorded' = [r \in Resources |->
                      unrecorded[r] \/ (pc[r] = "save" /\ Lost(r, obj[r]))]
  /\ diverged' = [r \in Resources |->
                    diverged[r] \/ (pc[r] = "save" /\ Outdated(r, obj[r]))]
  /\ UNCHANGED <<obj, cloud, provisioned>>

\* Stopping the manager does not wait for reconciles that are under way.
CrashRestart ==
  /\ crashes < MaxCrashes
  /\ crashes' = crashes + 1
  /\ \E k \in Keys, v \in Versions : Restart(k, v)
  /\ UNCHANGED <<faults, drifts>>

\* A panic in a worker takes the whole process down, with the reconciles of
\* every other object.
DecryptPanic(r) ==
  /\ pc[r] = "apply"
  /\ ~Readable(crd[r].tfState)
  /\ DecryptPanics(crd[r].tfState)
  /\ Restart(key, version)
  /\ UNCHANGED budget

MapSpecPanic(r) ==
  /\ pc[r] = "map"
  /\ crd[r].spec \in PanicSpecs
  /\ Restart(key, version)
  /\ UNCHANGED budget

StatusPanic(r) ==
  /\ pc[r] = "finish" /\ ~deleting[r]
  /\ newState[r] \in Unreportable
  /\ Restart(key, version)
  /\ UNCHANGED budget

Panics(r) == DecryptPanic(r) \/ MapSpecPanic(r) \/ StatusPanic(r)

-----------------------------------------------------------------------------
Init ==
  /\ obj = [r \in Resources |-> None]
  /\ cloud = [r \in Resources |-> None]
  /\ pending = {} /\ queue = {} /\ delayed = {}
  /\ pc = [r \in Resources |-> "idle"]
  /\ crd = [r \in Resources |-> None]
  /\ deleting = [r \in Resources |-> FALSE]
  /\ todo = [r \in Resources |-> {}]
  /\ newState = [r \in Resources |-> None]
  /\ key \in Keys /\ version \in Versions
  /\ faults = 0 /\ crashes = 0 /\ drifts = 0
  /\ unrecorded = [r \in Resources |-> FALSE]
  /\ diverged = [r \in Resources |-> FALSE]
  /\ provisioned = {}

User(r) ==
  \/ UserCreate(r) \/ UserUpdate(r) \/ UserDelete(r)
  \/ AddForeignFinalizer(r) \/ RemoveForeignFinalizer(r)

StartReconcile(r) ==
  ReconcileGone(r) \/ ReconcileGetFails(r) \/ ReconcileBegins(r)

\* The next step of the reconcile that is working on r.
ReconcileStep(r) ==
  \/ EnsureFinalizer(r) \/ EnsureFinalizerFails(r)
  \/ ResolveReference(r) \/ ReferenceNotReady(r) \/ MapSpec(r) \/ MapSpecFails(r)
  \/ PlanAndApply(r) \/ PlanAndApplyRefused(r) \/ PlanAndApplyFails(r)
  \/ Panics(r)
  \/ SaveTerraformState(r) \/ SaveTerraformStateFails(r)
  \/ RemoveFinalizerAndSave(r) \/ RemoveFinalizerFails(r)
  \/ SaveResourceStatus(r) \/ SaveResourceStatusFails(r)

Next ==
  \/ \E r \in Resources :
       \/ User(r) \/ CloudDrift(r)
       \/ DeliverEvent(r) \/ DelayExpires(r)
       \/ StartReconcile(r) \/ ReconcileStep(r)
  \/ CrashRestart

Spec == Init /\ [][Next]_vars

\* Go schedules every runnable worker, watches deliver, timers expire, and the
\* work queue is first-in first-out, so a request is not passed over for ever
\* by others of its kind.  Other controllers let go of what they hold.  Users,
\* faults, crashes and drift are never forced.
Fairness ==
  \A r \in Resources :
    /\ WF_vars(DeliverEvent(r))
    /\ WF_vars(DelayExpires(r))
    /\ SF_vars(StartReconcile(r))
    /\ WF_vars(ReconcileStep(r))
    /\ WF_vars(RemoveForeignFinalizer(r))

FairSpec == Spec /\ Fairness

-----------------------------------------------------------------------------
(* Properties.                                                             *)

\* Every variable keeps its type: the records the API server stores, the copy,
\* the locals of the reconcile (reconcile.go:89-182) and the work queue.
TypeOK ==
  /\ obj \in [Resources -> Object \cup {None}]
  /\ cloud \in [Resources -> Specs \cup {None}]
  /\ pending \subseteq Resources
  /\ queue \subseteq Resources
  /\ delayed \subseteq Resources
  /\ pc \in [Resources -> Steps]
  /\ crd \in [Resources -> Object \cup {None}]
  /\ deleting \in [Resources -> BOOLEAN]
  /\ todo \in [Resources -> SUBSET Resources]
  /\ newState \in [Resources -> Specs \cup {None, NullVal}]
  /\ key \in Keys /\ version \in Versions
  /\ faults \in Nat /\ crashes \in Nat /\ drifts \in Nat
  /\ unrecorded \in [Resources -> BOOLEAN] /\ diverged \in [Resources -> BOOLEAN]
  /\ provisioned \subseteq Resources

\* The locals a reconcile has set by the time it reaches a step.
LocalsSet ==
  \A r \in Resources :
    /\ (pc[r] # "idle") => crd[r] \in Object
    /\ (pc[r] \in {"finalizer", "map"}) => ~deleting[r]
    /\ (pc[r] \in {"save", "finish"}) =>
         newState[r] \in IF deleting[r] THEN {NullVal} ELSE Specs

\* An object that records the identity of a cloud resource has the finalizer.
IdentityHeld ==
  \A r \in Resources : HasIdentity(obj[r]) => HasFinalizer(obj[r])

\* From ensureFinalizer on, an object under reconcile cannot go away.
Pinned ==
  \A r \in Resources :
    /\ pc[r] \in Steps \ {"idle"} /\ ~deleting[r]
    /\ pc[r] = "finalizer" => HasFinalizer(crd[r])
    => Exists(r) /\ HasFinalizer(obj[r])

\* The state in the reconcile's copy is the one the API server holds.
StateCurrent ==
  \A r \in Resources :
    /\ pc[r] \in {"finalizer", "map", "apply", "save"}
    /\ Exists(r) /\ HasFinalizer(obj[r])
    => obj[r].tfState = crd[r].tfState

\* A deletion that has applied leaves nothing in the cloud that was recorded.
DestroyedFirst ==
  \A r \in Resources :
    pc[r] \in {"save", "finish"} /\ deleting[r] =>
      cloud[r] = None \/ unrecorded[r]

\* Once the state has been saved, the object records what was applied.
SavedState ==
  \A r \in Resources :
    pc[r] = "finish" /\ Exists(r) /\ HasFinalizer(obj[r]) =>
      Recorded(obj[r]) = newState[r]

\* A cloud resource is known to its object, or about to be, unless its
\* identity was lost.
Tracked ==
  \A r \in Resources :
    cloud[r] # None /\ ~unrecorded[r] =>
      /\ Exists(r)
      /\ HasFinalizer(obj[r])
      /\ HasIdentity(obj[r]) \/ (pc[r] = "save" /\ newState[r] \in Specs)

\* The inductive invariant behind NoOrphan and ConflictOnlyAfterLoss: what the
\* finalizer and the order of the patches in reconcile.go:103-168 maintain.
IndInv ==
  /\ LocalsSet /\ IdentityHeld /\ Pinned /\ StateCurrent
  /\ DestroyedFirst /\ SavedState /\ Tracked

\* An object never disappears while the cloud resource it stands for is still
\* there: the finalizer (reconcile.go:103, 166) holds it until the destroy has
\* succeeded.  The exception is a resource whose identity was lost between
\* apply and save (the comment at reconcile.go:149).
NoOrphan ==
  \A r \in Resources :
    ~Exists(r) /\ cloud[r] # None => unrecorded[r]

\* The provider refuses a create because the resource exists (planAndApplyConfig,
\* reconcile.go:928) only after an identity was lost: neither retries, nor a
\* stale copy, nor an object deleted and created again under the same name can
\* make the bridge create something twice.
ConflictOnlyAfterLoss ==
  \A r \in Resources :
    pc[r] = "apply" /\ AlreadyExists(r) => unrecorded[r]

\* Only a call that fails, a process that dies, or a spec that makes it panic
\* loses the identity of a cloud resource (the comment at reconcile.go:149):
\* users who delete, change or re-create objects under a reconcile never do, nor
\* do other controllers, nor does the order in which anything happens.
LossNeedsFault ==
  \A r \in Resources :
    unrecorded[r] => \/ faults + crashes > 0
                     \/ PanicSpecs \cup Unreportable # {} \/ r \in Unsavable

\* The state an object records is what is in the cloud, in whatever order users
\* and other controllers change, delete and re-create it and whatever fails
\* (planAndApplyConfig and saveTerraformStateValue, reconcile.go:144-155), until an
\* apply that fails halfway, a state that is not saved after an apply that
\* changed something, or the world outside puts the two apart.  They are apart
\* until an apply leaves in the cloud what it was told to: one whose configuration
\* is the recorded state need not.
RecordFaithful ==
  \A r \in Resources :
    HasIdentity(obj[r]) /\ pc[r] # "save" =>
      cloud[r] = Recorded(obj[r]) \/ diverged[r]

\* An object that says Created (setProvisioningState, reconcile.go:170, which
\* references to it look at, reconcile.go:633) records the identity of a resource
\* that is in the cloud, failures and crashes notwithstanding: only one that is
\* being deleted may say so of a resource that has been destroyed.
CreatedTruthful ==
  \A r \in Resources :
    Exists(r) /\ obj[r].provisioningState = "Created" /\ ~obj[r].deleting =>
      /\ HasFinalizer(obj[r]) /\ HasIdentity(obj[r])
      /\ drifts = 0 => cloud[r] # None

Converged(r) ==
  /\ Exists(r)
  /\ Recorded(obj[r]) = obj[r].spec
  /\ obj[r].outputs = obj[r].spec
  /\ obj[r].provisioningState = "Created"
  /\ obj[r].lastAppliedGeneration = obj[r].generation
  /\ ~diverged[r] => cloud[r] = obj[r].spec

StatusOf(o) == <<o.tfState, o.lastAppliedGeneration, o.provisioningState,
                 o.outputs, o.provider>>

\* Patches carry no UID and no resource version (client.Patch, reconcile.go:288), yet
\* past ensureFinalizer a reconcile never writes to another object than the one its
\* copy is of, whatever is deleted and created again under its name, and nothing
\* it is going to overwrite has been written since by anyone else.
CopyOfItsObject ==
  \A r \in Resources :
    pc[r] \in {"map", "apply", "save", "finish"} /\ ~deleting[r] =>
      /\ Exists(r) /\ HasFinalizer(obj[r])
      /\ StatusOf(crd[r]) = StatusOf(obj[r])
      /\ crd[r].generation <= obj[r].generation
      /\ crd[r].generation = obj[r].generation => crd[r].spec = obj[r].spec
      /\ crd[r].deleting => obj[r].deleting

-----------------------------------------------------------------------------
(* The reconciler keeps what Custody promises.  The identity is in flight  *)
(* while it is only in the state that an apply has returned.               *)

IdentityOf(r) ==
  IF HasIdentity(obj[r]) THEN "recorded"
  ELSE IF pc[r] = "save" /\ newState[r] \in Specs THEN "inflight" ELSE "none"

Abstract ==
  INSTANCE Custody
  WITH held     <- [r \in Resources |-> Exists(r) /\ HasFinalizer(obj[r])],
       identity <- [r \in Resources |-> IdentityOf(r)],
       lost     <- unrecorded

\* Every step of the bridge, its users and the cloud is a step of Custody or
\* leaves custody as it is (reconcile.go:89-182): crashes, stale copies and
\* objects created again under their old name included.
CustodyKept == Abstract!Spec

-----------------------------------------------------------------------------
Resting(r) == pc[r] = "idle" /\ r \notin pending \cup queue \cup delayed

\* No wake-up is lost between the generation predicate (controller.go:121), the
\* retries (controller.go:70-76) and patches that change the object under a
\* reconcile: when nothing is left to do for an object, its last generation has
\* been applied, recorded and reported, or it is being deleted, destroyed, and
\* only other controllers hold it.
Settled ==
  \A r \in Resources : Exists(r) /\ Resting(r) =>
    IF obj[r].deleting THEN ~HasFinalizer(obj[r]) /\ ~HasIdentity(obj[r])
                       ELSE Converged(r)

\* The provider is asked to create something only for an object that holds the
\* finalizer (ensureFinalizer before planAndApplyConfig, reconcile.go:103, 144),
\* though the object may have been deleted and created again meanwhile.
FinalizerBeforeCreate ==
  [][\A r \in Resources :
       drifts' = drifts /\ cloud[r] = None /\ cloud'[r] # None =>
         Exists(r) /\ HasFinalizer(obj[r])]_vars

\* A recorded identity is given up only once the resource is gone from the
\* cloud: state is never overwritten by a null, and the object never removed,
\* before the destroy (reconcile.go:144-168).
IdentityGivenUpLast ==
  [][\A r \in Resources :
       HasIdentity(obj[r]) /\ ~HasIdentity(obj'[r]) =>
         cloud[r] = None \/ unrecorded[r]]_vars

\* The bridge destroys a resource only while its object is being deleted
\* (isDeleting, reconcile.go:98, which is asked once and of a copy), never that of
\* an object that was created again under the old name.
DestroyOnlyDeleted ==
  [][\A r \in Resources :
       cloud[r] # None /\ cloud'[r] = None =>
         \/ Exists(r) /\ obj[r].deleting /\ HasFinalizer(obj[r])
         \/ drifts' # drifts]_vars

\* Whatever is applied (reconcile.go:144) is what the object asks for at that moment,
\* though it is that of a copy read several calls earlier: if the object has changed
\* since, the news of it is already on its way to the controller.
AppliesWhatIsWanted ==
  [][\A r \in Resources :
       drifts' = drifts /\ cloud'[r] # cloud[r] =>
         /\ Exists(r)
         /\ \/ cloud'[r] = IF obj[r].deleting THEN None ELSE obj[r].spec
            \/ r \in pending \cup queue]_vars

\* What an object starts to report (mapTerraformValuesToCRDStatus,
\* reconcile.go:173), and references to it to read, it already records, and is in the
\* cloud at that moment unless the two are known to be apart (RecordFaithful): no
\* retry or slow reconcile reports what another has replaced or destroyed.
ReportedIsApplied ==
  [][\A r \in Resources :
       Exists(r) /\ obj'[r] # None /\ obj'[r].outputs # obj[r].outputs =>
         /\ obj'[r].outputs = Recorded(obj[r])
         /\ ~diverged[r] => obj'[r].outputs = cloud[r]]_vars

\* Reconciling is idempotent: an object that has converged stays so until a user
\* changes or deletes it, however often it is reconciled again by retries and
\* restarts (whose informers list every object, controller.go:117), with stale copies
\* and under other keys, and whichever calls of these reconciles fail.
ConvergedStays ==
  [][\A r \in Resources :
       /\ Converged(r) /\ ~obj[r].deleting
       /\ Exists(r)' => ~obj'[r].deleting /\ obj'[r].generation = obj[r].generation
       => Converged(r)']_vars

\* lastAppliedGeneration (reconcile.go:322) never goes back during the life of
\* an object, nor ahead of the generation, though it is taken from a copy.
LastAppliedMonotonic ==
  [][\A r \in Resources :
       Exists(r) /\ obj'[r] # None =>
         /\ obj[r].lastAppliedGeneration <= obj'[r].lastAppliedGeneration
         /\ obj'[r].lastAppliedGeneration <= obj'[r].generation]_vars

\* Nothing is created before everything it refers to has been provisioned once
\* (getReferencedObjectValue, reconcile.go:627-637), in whatever order users
\* create the objects.
ReferencesFirst ==
  \A r \in Resources : cloud[r] # None => Refs[r] \subseteq provisioned

\* The provider metadata of an object (reconcile.go:295) is that of the bridge
\* that first completed a reconcile, whatever versions are deployed later.
ProviderPinned ==
  [][\A r \in Resources :
       Exists(r) /\ obj'[r] # None /\ obj[r].provider # None =>
         obj'[r].provider = obj[r].provider]_vars

\* A state written under one setting of the encryption key
\* (reconcile.go:692-717) is never overwritten under another: a bridge that
\* cannot read a state leaves it alone, and cannot finish a deletion either.
UnreadableStateKept ==
  [][\A r \in Resources :
       HasIdentity(obj[r]) /\ obj[r].tfState.key # key =>
         obj'[r] # None /\ obj'[r].tfState = obj[r].tfState]_vars

\* Every deletion completes once faults stop (integration_test.go:214, "should
\* eventually delete the azure storage account CRD").
DeletionCompletes ==
  \A r \in Resources :
    Exists(r) /\ obj[r].deleting ~> ~Exists(r)

WantedAndValid(r) ==
  /\ Exists(r) /\ ~obj[r].deleting
  /\ obj[r].spec \in ValidSpecs \ (Unreportable \cup Unfit)
  /\ r \notin Unsavable

\* When users leave valid objects alone, all of them converge whatever the
\* order in which they were created (integration_test.go:282, "should retry to
\* create the azure storage account until the azure resource group is
\* created"), unless the identity of one was lost.
AllConverge ==
  <>[](\A r \in Resources : WantedAndValid(r)) =>
  <>[](\/ \A r \in Resources : Converged(r)
       \/ \E r \in Resources : unrecorded[r])

-----------------------------------------------------------------------------
(* What comments and tests of the repository say, and the code does not do.*)

\* controller.go:78, "Detect drift by checking resource every x mins": an
\* object is looked at again and again.
DriftRechecked ==
  \A r \in Resources : []<>(~Exists(r) \/ pc[r] # "idle")

\* reconcile.go:158 calls the field the "last generation applied": an object
\* whose last applied generation is its generation has its spec applied.
LastAppliedTruthful ==
  \A r \in Resources :
    Exists(r) /\ obj[r].lastAppliedGeneration = obj[r].generation =>
      Recorded(obj[r]) = obj[r].spec

=============================================================================
