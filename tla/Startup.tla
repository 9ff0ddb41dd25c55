------------------------------- MODULE Startup -------------------------------
(***************************************************************************)
(* What the bridge does before it reconciles anything: set up the provider,*)
(* derive a schema from every resource type, install one custom resource   *)
(* definition per schema, wait for the ones it created, and start one      *)
(* controller per definition.  An error panics or exits, and the process   *)
(* is started again; what it left in the API server stays.                 *)
(*                                                                         *)
(* Others may install definitions at the same time (nothing elects a       *)
(* leader, so a second bridge may be starting), and the API server accepts *)
(* a definition some time before it is established, or never does if its   *)
(* names conflict.                                                         *)
(***************************************************************************)
EXTENDS Naturals, Sequences, FiniteSets

CONSTANTS
  Types,        \* resource types of the provider's schema
  TooLong,      \* those whose name has more than 63 characters
  Rejected,     \* those whose definition the API server always rejects
  Conflicting,  \* those whose definition is never established
  Unmappable,   \* those that some version of the provider has no schema for
  MaxFaults     \* bound of the model: calls that fail for no lasting reason

ASSUME TypesAssumption ==
  /\ IsFiniteSet(Types)
  /\ TooLong \subseteq Types /\ Rejected \subseteq Types
  /\ Conflicting \subseteq Types /\ Unmappable \subseteq Types
ASSUME FaultsAssumption == MaxFaults \in Nat

VARIABLES
  crds,         \* the API server: "absent", "installed" or "established"
  phase,        \* where the process is, "down" if it is not running
  skipCreation, \* SKIP_CRD_CREATION is set
  unmappable,   \* types of this provider that have no schema
  schemas,      \* openAPIResourceSchemas, in map iteration order
  installed,    \* installedCrdsMap
  next,         \* index of the loop of the current phase
  resources,    \* gvArray
  toCheck,      \* crdsToCheckInstalled
  controllers,  \* the kind and the schema each reconciler was given
  faults,
  failed        \* history: types whose creation failed in this run

locals == <<skipCreation, unmappable, schemas, installed, next, resources,
            toCheck, controllers, failed>>
vars   == <<crds, phase, locals, faults>>

Phases == {"down", "schemas", "list", "install", "wait", "controllers", "running"}

Elements(s) == {s[i] : i \in DOMAIN s}

Orders(S) == {f \in [1..Cardinality(S) -> S] : Elements(f) = S}

Fault == faults < MaxFaults /\ faults' = faults + 1

-----------------------------------------------------------------------------
(* The API server and its other clients.                                   *)

OtherInstalls(t) ==
  /\ crds[t] = "absent" /\ t \notin Rejected
  /\ crds' = [crds EXCEPT ![t] = "installed"]
  /\ UNCHANGED <<phase, locals, faults>>

Establish(t) ==
  /\ crds[t] = "installed" /\ t \notin Conflicting
  /\ crds' = [crds EXCEPT ![t] = "established"]
  /\ UNCHANGED <<phase, locals, faults>>

-----------------------------------------------------------------------------
(* main, and SetupProvider: environment, download, plugin, configuration.  *)

\* The process is gone and with it all it had worked out.
Exit ==
  /\ phase' = "down"
  /\ schemas' = <<>> /\ resources' = <<>> /\ toCheck' = <<>>
  /\ controllers' = <<>>
  /\ installed' = {} /\ failed' = {}
  /\ next' = 1
  /\ UNCHANGED <<skipCreation, unmappable>>

\* The environment names the provider and its version, the latest if it does not.
SetupProvider ==
  /\ phase = "down"
  /\ phase' = "schemas"
  /\ skipCreation' \in BOOLEAN
  /\ unmappable' \in SUBSET Unmappable
  /\ UNCHANGED <<crds, schemas, installed, next, resources, toCheck, controllers,
                 faults, failed>>

\* The installation or the configuration of the provider fails.
SetupProviderFails ==
  /\ phase = "schemas"
  /\ Fault
  /\ Exit
  /\ UNCHANGED crds

-----------------------------------------------------------------------------
(* createK8sCRDsFromTerraformProvider.                                     *)

\* The resource types are a Go map, visited in any order.
BuildSchemas ==
  /\ phase = "schemas"
  /\ unmappable \subseteq TooLong
  /\ schemas' \in Orders(Types \ TooLong)
  /\ phase' = "list"
  /\ UNCHANGED <<crds, skipCreation, unmappable, installed, next, resources,
                 toCheck, controllers, faults, failed>>

\* One attribute of a type that no schema can express, or one type without
\* anything to report, ends the process, whatever the other types are.
BuildSchemasFails ==
  /\ phase = "schemas"
  /\ ~(unmappable \subseteq TooLong)
  /\ Exit
  /\ UNCHANGED <<crds, faults>>

\* The error of the List is ignored: its result is then empty.
ListInstalled ==
  /\ phase = "list"
  /\ \/ /\ installed' = {t \in Types : crds[t] # "absent"}
        /\ UNCHANGED faults
     \/ /\ installed' = {}
        /\ Fault
  /\ phase' = "install"
  /\ UNCHANGED <<crds, skipCreation, unmappable, schemas, next, resources,
                 toCheck, controllers, failed>>

Current == schemas[next]

\* Mutant: only newly created definitions get a controller.
SkippedNotAppended ==
  /\ phase = "install" /\ next <= Len(schemas)
  /\ skipCreation \/ Current \in installed
  /\ next' = next + 1
  /\ UNCHANGED <<crds, phase, skipCreation, unmappable, schemas, installed,
                 resources, toCheck, controllers, faults, failed>>

\* Nothing to create for this schema.
SkipCreation ==
  /\ phase = "install" /\ next <= Len(schemas)
  /\ skipCreation \/ Current \in installed
  /\ resources' = Append(resources, Current)
  /\ next' = next + 1
  /\ UNCHANGED <<crds, phase, skipCreation, unmappable, schemas, installed,
                 toCheck, controllers, faults, failed>>

\* AlreadyExists counts as created.
CreateDefinition ==
  /\ phase = "install" /\ next <= Len(schemas)
  /\ ~skipCreation /\ Current \notin installed
  /\ Current \notin Rejected
  /\ crds' = [crds EXCEPT ![Current] = IF @ = "absent" THEN "installed" ELSE @]
  /\ toCheck' = Append(toCheck, Current)
  /\ resources' = Append(resources, Current)
  /\ next' = next + 1
  /\ UNCHANGED <<phase, skipCreation, unmappable, schemas, installed,
                 controllers, faults, failed>>

\* Mutant: a type that failed keeps its place.
FailureKeepsPlace ==
  /\ phase = "install" /\ next <= Len(schemas)
  /\ ~skipCreation /\ Current \notin installed
  /\ \/ Current \in Rejected /\ UNCHANGED <<crds, faults>>
     \/ Fault /\ UNCHANGED crds
  /\ resources' = Append(resources, Current)
  /\ next' = next + 1
  /\ failed' = failed \cup {Current}
  /\ UNCHANGED <<phase, skipCreation, unmappable, schemas, installed, toCheck,
                 controllers>>

\* Mutant: a creation that fails is tried again until it does not.
FailureRetried ==
  /\ phase = "install" /\ next <= Len(schemas)
  /\ ~skipCreation /\ Current \notin installed
  /\ \/ Current \in Rejected /\ UNCHANGED <<crds, faults>>
     \/ Fault /\ UNCHANGED crds
  /\ failed' = failed \cup {Current}
  /\ UNCHANGED <<phase, skipCreation, unmappable, schemas, installed, next,
                 resources, toCheck, controllers>>

\* Any other error is logged, and the loop goes on with the next type.  The
\* definition may have been created all the same, if only the reply was lost.
CreateDefinitionFails ==
  /\ phase = "install" /\ next <= Len(schemas)
  /\ ~skipCreation /\ Current \notin installed
  /\ \/ Current \in Rejected /\ UNCHANGED <<crds, faults>>
     \/ Fault /\ UNCHANGED crds
     \/ /\ Current \notin Rejected /\ Fault
        /\ crds' = [crds EXCEPT ![Current] = IF @ = "absent" THEN "installed"
                                                            ELSE @]
  /\ next' = next + 1
  /\ failed' = failed \cup {Current}
  /\ UNCHANGED <<phase, skipCreation, unmappable, schemas, installed, resources,
                 toCheck, controllers>>

\* Mutant: the next loop counts from zero.
IndexFromZero ==
  /\ phase = "install" /\ next > Len(schemas)
  /\ phase' = "wait"
  /\ next' = 0
  /\ UNCHANGED <<crds, skipCreation, unmappable, schemas, installed, resources,
                 toCheck, controllers, faults, failed>>

InstallDone ==
  /\ phase = "install" /\ next > Len(schemas)
  /\ phase' = "wait"
  /\ next' = 1
  /\ UNCHANGED <<crds, skipCreation, unmappable, schemas, installed, resources,
                 toCheck, controllers, faults, failed>>

-----------------------------------------------------------------------------
(* waitForCRDsToBeInstalled.                                               *)

\* Mutant: the conditions of the definition are not looked at.
EstablishedUnchecked ==
  /\ phase = "wait" /\ next <= Len(toCheck)
  /\ next' = next + 1
  /\ UNCHANGED <<crds, phase, skipCreation, unmappable, schemas, installed,
                 resources, toCheck, controllers, faults, failed>>

EstablishedConfirmed ==
  /\ phase = "wait" /\ next <= Len(toCheck)
  /\ crds[toCheck[next]] = "established"
  /\ next' = next + 1
  /\ UNCHANGED <<crds, phase, skipCreation, unmappable, schemas, installed,
                 resources, toCheck, controllers, faults, failed>>

\* Mutant: polling without a time limit.
PollForEver ==
  /\ phase = "wait" /\ next <= Len(toCheck)
  /\ Fault
  /\ Exit
  /\ UNCHANGED crds

\* A minute passes before the definition is established, or a Get fails.
WaitFails ==
  /\ phase = "wait" /\ next <= Len(toCheck)
  /\ \/ crds[toCheck[next]] # "established" /\ UNCHANGED faults
     \/ Fault
  /\ Exit
  /\ UNCHANGED crds

WaitDone ==
  /\ phase = "wait" /\ next > Len(toCheck)
  /\ phase' = "controllers"
  /\ UNCHANGED <<crds, locals, faults>>

-----------------------------------------------------------------------------
(* setupControllerRuntime.                                                 *)

\* The i-th resource is given the i-th schema.
StartControllers ==
  /\ phase = "controllers" /\ controllers = <<>>
  /\ controllers' = [i \in DOMAIN resources |->
                       [kind |-> resources[i], schema |-> schemas[i]]]
  /\ UNCHANGED <<crds, phase, skipCreation, unmappable, schemas, installed,
                 next, resources, toCheck, faults, failed>>

Served(c) == crds[c.kind] = "established"

\* The manager starts if every kind it is to watch is served.
StartManager ==
  /\ phase = "controllers"
  /\ DOMAIN controllers = DOMAIN resources
  /\ \A i \in DOMAIN controllers : Served(controllers[i])
  /\ phase' = "running"
  /\ UNCHANGED <<crds, locals, faults>>

\* A missing kind, a bad encryption key or a lost connection.
ManagerFails ==
  /\ phase = "controllers"
  /\ DOMAIN controllers = DOMAIN resources
  /\ \/ /\ \E i \in DOMAIN controllers : ~Served(controllers[i])
        /\ UNCHANGED faults
     \/ Fault
  /\ Exit
  /\ UNCHANGED crds

Killed ==
  /\ phase # "down"
  /\ Fault
  /\ Exit
  /\ UNCHANGED crds

-----------------------------------------------------------------------------
Init ==
  /\ crds = [t \in Types |-> "absent"]
  /\ phase = "down"
  /\ skipCreation = FALSE /\ unmappable = {}
  /\ schemas = <<>> /\ resources = <<>> /\ toCheck = <<>> /\ controllers = <<>>
  /\ installed = {} /\ failed = {}
  /\ next = 1
  /\ faults = 0

\* A step of the process on its way up.
StartupStep ==
  \/ SetupProviderFails \/ BuildSchemas \/ BuildSchemasFails \/ ListInstalled
  \/ SkipCreation \/ CreateDefinition \/ CreateDefinitionFails \/ InstallDone
  \/ EstablishedConfirmed \/ WaitFails \/ WaitDone
  \/ StartControllers \/ StartManager \/ ManagerFails

Next ==
  \/ SetupProvider
  \/ StartupStep
  \/ Killed
  \/ \E t \in Types : OtherInstalls(t) \/ Establish(t)

Spec == Init /\ [][Next]_vars

\* The process runs once it is started; nothing says it is started again.
FairSpec == Spec /\ WF_vars(StartupStep)

-----------------------------------------------------------------------------
(* Properties.                                                             *)

\* Types of the API server's view and of the locals of create.go:258-352.
TypeOK ==
  /\ crds \in [Types -> {"absent", "installed", "established"}]
  /\ phase \in Phases
  /\ skipCreation \in BOOLEAN /\ unmappable \subseteq Types
  /\ schemas \in Seq(Types) /\ resources \in Seq(Types) /\ toCheck \in Seq(Types)
  /\ installed \subseteq Types /\ failed \subseteq Types
  /\ next \in Nat \ {0}
  /\ controllers \in Seq([kind : Types, schema : Types])
  /\ faults \in Nat

\* Every type gets exactly one controller, be its definition created by this
\* run, found in the list, reported as existing, or left to somebody else by
\* SKIP_CRD_CREATION; the exceptions are the names that are too long and the
\* creations that failed (create.go:328-346).
EveryTypeOnce ==
  phase \in {"wait", "controllers", "running"} =>
    /\ Elements(resources) = (Types \ TooLong) \ failed
    /\ \A i, j \in DOMAIN resources : resources[i] = resources[j] => i = j

\* A reconciler has the schema of its own kind (controller.go:116) exactly as long
\* as no creation before it failed (create.go:339), whatever the order of the map
\* and whoever installed the definitions.
AlignedUntilFailure ==
  \A i \in DOMAIN controllers :
    (controllers[i].kind = controllers[i].schema) <=>
      \A j \in 1..i : schemas[j] \notin failed

\* Controllers are not set up before every definition this run has created is
\* established (waitForCRDsToBeInstalled, create.go:349).
CreatedEstablished ==
  phase \in {"controllers", "running"} =>
    \A t \in Elements(toCheck) : crds[t] = "established"

\* Startup never hangs: the polling has a time limit (create.go:374), so the
\* bridge runs or the process ends, even if a definition is never established.
StartupEnds == phase # "down" ~> phase \in {"down", "running"}

\* How many steps are left at most before the process runs or ends: one for each
\* schema (create.go:279), one for each definition to check (create.go:371), and
\* a few that come once.
Remaining ==
  CASE phase = "down"        -> 0
    [] phase = "running"     -> 1
    [] phase = "controllers" -> IF controllers = <<>> THEN 3 ELSE 2
    [] phase = "wait"        -> 5 + Len(toCheck) - next
    [] phase = "install"     -> 7 + Len(toCheck) + 2 * (Len(schemas) - next)
    [] phase = "list"        -> 6 + 2 * Len(schemas)
    [] OTHER                 -> 7 + 2 * Cardinality(Types \ TooLong)

\* No loop of the startup goes round without getting on, so its steps are bounded
\* by the number of types, whatever the API server answers.
StartupBounded == [][StartupStep => Remaining' \in 0..(Remaining - 1)]_vars

-----------------------------------------------------------------------------
(* What a comment of the repository says, and the code does not do.        *)

\* controller.go:116, "Assumes schema and resources have the same index".
SchemasAligned ==
  \A i \in DOMAIN controllers : controllers[i].kind = controllers[i].schema

=============================================================================
