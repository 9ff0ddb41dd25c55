---------------------------- MODULE StartupProofs ----------------------------
(***************************************************************************)
(* The safety of Startup, and the bound of its steps, for any resource     *)
(* types and any number of faults.                                         *)
(***************************************************************************)
EXTENDS Startup, FiniteSetTheorems, SequenceTheorems, TLAPS

-----------------------------------------------------------------------------
(* The inductive invariant.                                                *)

\* schemas is some order of the types that have a schema.
Ordered ==
  /\ Elements(schemas) = Types \ TooLong
  /\ \A i, j \in DOMAIN schemas : schemas[i] = schemas[j] => i = j

\* A resource has the place of its schema, or a later one once one has failed.
Shifted(n) ==
  /\ failed # {} => Len(resources) < n
  /\ \A i \in DOMAIN resources : \E k \in i..n :
       /\ resources[i] = schemas[k]
       /\ (\E j \in 1..i : schemas[j] \in failed) => k > i

\* What the installation loop has made of the first n schemas.
Handled(n) ==
  /\ n <= Len(schemas) /\ Len(resources) <= n
  /\ failed \subseteq {schemas[j] : j \in 1..n}
  /\ Elements(resources) = {schemas[j] : j \in 1..n} \ failed
  /\ \A i, j \in DOMAIN resources : resources[i] = resources[j] => i = j
  /\ \A i \in 1..n : (\A j \in 1..i : schemas[j] \notin failed) =>
       i <= Len(resources) /\ resources[i] = schemas[i]
  /\ Shifted(n)

\* The definitions of the first n of those to check are established.
Confirmed(n) ==
  \A i \in DOMAIN toCheck : i <= n => crds[toCheck[i]] = "established"

Progress ==
  /\ phase \in {"down", "schemas", "list"} =>
       next = 1 /\ resources = <<>> /\ failed = {} /\ toCheck = <<>>
  /\ phase \in {"list", "install", "wait", "controllers", "running"} => Ordered
  /\ phase = "install" => Handled(next - 1)
  /\ phase \in {"wait", "controllers", "running"} => Handled(Len(schemas))
  /\ phase = "wait" => Confirmed(next - 1) /\ next - 1 <= Len(toCheck)
  /\ phase \in {"controllers", "running"} => Confirmed(Len(toCheck))

Joined ==
  controllers # <<>> =>
    /\ phase \in {"controllers", "running"}
    /\ controllers = [i \in DOMAIN resources |->
                        [kind |-> resources[i], schema |-> schemas[i]]]

SafeInv == TypeOK /\ Progress /\ Joined

-----------------------------------------------------------------------------
(* Lemmas.                                                                 *)

\* A function on the first n numbers is a sequence.
LEMMA FirstNumbers ==
  ASSUME NEW S, NEW n \in Nat, NEW f \in [1..n -> S]
  PROVE  f \in Seq(S) /\ Len(f) = n
<1>1. f \in Seq(S)
  BY SeqDef
<1>2. QED
  BY <1>1, LenProperties

\* An order of a finite set is a sequence of its elements, each of them once.
LEMMA OrderOnce ==
  ASSUME NEW S, IsFiniteSet(S), NEW f \in Orders(S)
  PROVE  /\ f \in Seq(S)
         /\ Elements(f) = S
         /\ \A i, j \in DOMAIN f : f[i] = f[j] => i = j
<1> DEFINE n == Cardinality(S)
<1>1. /\ n \in Nat
      /\ f \in [1..n -> S]
      /\ Elements(f) = S
  BY FS_CardinalityType DEF Orders
<1>2. f \in Surjection(1..n, S)
  BY <1>1 DEF Surjection, Elements
<1>3. /\ IsFiniteSet(1..n)
      /\ Cardinality(1..n) = n
  BY <1>1, FS_Interval
<1>4. f \in Injection(1..n, S)
  BY <1>2, <1>3, FS_SurjSameCardinalityImpliesInj
<1>5. \A i, j \in DOMAIN f : f[i] = f[j] => i = j
  BY <1>1, <1>4 DEF Injection, IsInjective
<1>6. f \in Seq(S)
  <2> HIDE DEF n
  <2> QED
    BY <1>1, FirstNumbers
<1>7. QED
  BY <1>1, <1>5, <1>6

\* What a process that ends leaves.
LEMMA ExitSafe ==
  ASSUME SafeInv, Exit, crds' = crds, faults' \in Nat
  PROVE  SafeInv'
<1>1. TypeOK'
  BY DEF SafeInv, TypeOK, Exit, Phases
<1>2. Progress' /\ Joined'
  BY DEF Exit, Progress, Joined
<1>3. QED
  BY <1>1, <1>2 DEF SafeInv

LEMMA FaultCounts ==
  ASSUME TypeOK, Fault
  PROVE  faults' \in Nat
  BY DEF TypeOK, Fault

\* A schema that gets a place in the list.
LEMMA HandledByAppend ==
  ASSUME TypeOK, Ordered, phase = "install", next <= Len(schemas),
         Handled(next - 1),
         resources' = Append(resources, Current),
         next' = next + 1, schemas' = schemas, failed' = failed
  PROVE  Handled(next - 1)'
<1> DEFINE k == next - 1
           m == Len(resources)
           R == Append(resources, Current)
<1>1. /\ next \in Nat \ {0} /\ k \in Nat /\ next' - 1 = next /\ m \in Nat
      /\ resources \in Seq(Types) /\ schemas \in Seq(Types)
      /\ DOMAIN schemas = 1..Len(schemas) /\ next \in DOMAIN schemas
      /\ DOMAIN resources = 1..m
  BY DEF TypeOK
<1>2. /\ m <= k
      /\ failed \subseteq {schemas[j] : j \in 1..k}
      /\ Elements(resources) = {schemas[j] : j \in 1..k} \ failed
      /\ \A i, j \in 1..m : resources[i] = resources[j] => i = j
      /\ \A i \in 1..k : (\A j \in 1..i : schemas[j] \notin failed) =>
           i <= m /\ resources[i] = schemas[i]
  BY <1>1 DEF Handled
<1>3. /\ Len(R) = m + 1 /\ DOMAIN R = 1..(m + 1)
      /\ \A i \in 1..m : R[i] = resources[i]
      /\ R[m + 1] = schemas[next]
  BY <1>1 DEF Current, TypeOK
<1>4. \A j \in 1..k : schemas[j] # schemas[next]
  BY <1>1 DEF Ordered
<1>5. schemas[next] \notin failed
  BY <1>2, <1>4
<1>6. {schemas[j] : j \in 1..next} = {schemas[j] : j \in 1..k} \cup {schemas[next]}
  <2>1. 1..next = 1..k \cup {next}
    BY <1>1
  <2>2. QED
    BY <2>1
<1>7. Elements(R) = Elements(resources) \cup {schemas[next]}
  <2>1. 1..(m + 1) = 1..m \cup {m + 1}
    BY <1>1
  <2>2. QED
    BY <1>1, <1>3, <2>1 DEF Elements
<1>8. Elements(R) = {schemas[j] : j \in 1..next} \ failed
  BY <1>2, <1>5, <1>6, <1>7
<1>9. ASSUME NEW i \in 1..(m + 1), NEW j \in 1..(m + 1), R[i] = R[j]
      PROVE  i = j
  <2>1. schemas[next] \notin Elements(resources)
    BY <1>2, <1>4
  <2>2. \A l \in 1..m : resources[l] # schemas[next]
    BY <1>1, <2>1 DEF Elements
  <2>3. CASE i \in 1..m /\ j \in 1..m
    BY <1>2, <1>3, <1>9, <2>3
  <2>4. CASE i = m + 1 /\ j \in 1..m
    BY <1>3, <1>9, <2>2, <2>4
  <2>5. CASE i \in 1..m /\ j = m + 1
    BY <1>3, <1>9, <2>2, <2>5
  <2>6. QED
    BY <1>1, <2>3, <2>4, <2>5
<1>10. ASSUME NEW i \in 1..next, \A j \in 1..i : schemas[j] \notin failed
       PROVE  i <= m + 1 /\ R[i] = schemas[i]
  <2>1. CASE i \in 1..k
    <3>1. i <= m /\ resources[i] = schemas[i]
      BY <1>2, <1>10, <2>1
    <3>2. i \in 1..m /\ i <= m + 1
      BY <1>1, <2>1, <3>1
    <3>3. QED
      BY <1>3, <3>1, <3>2
  <2>2. CASE i = next
    <3>1. k = 0 \/ k <= m
      BY <1>1, <1>2, <1>10, <2>2
    <3>2. m = k
      BY <1>1, <1>2, <3>1
    <3>3. QED
      BY <1>1, <1>3, <3>2, <2>2
  <2>3. i \in 1..k \/ i = next
    BY <1>1
  <2>4. QED
    BY <2>1, <2>2, <2>3
<1>11. failed \subseteq {schemas[j] : j \in 1..next}
  BY <1>2, <1>6
<1>12. next <= Len(schemas) /\ m + 1 <= next
  BY <1>1, <1>2
<1>13. /\ failed # {} => m + 1 < next
       /\ \A i \in 1..(m + 1) : \E l \in i..next :
            /\ R[i] = schemas[l]
            /\ (\E j \in 1..i : schemas[j] \in failed) => l > i
  <2>1. /\ failed # {} => m < k
        /\ \A i \in 1..m : \E l \in i..k :
             /\ resources[i] = schemas[l]
             /\ (\E j \in 1..i : schemas[j] \in failed) => l > i
    BY <1>1 DEF Handled, Shifted
  <2>2. failed # {} => m + 1 < next
    BY <1>1, <2>1
  <2>3. ASSUME NEW i \in 1..m
        PROVE  \E l \in i..next :
                 /\ R[i] = schemas[l]
                 /\ (\E j \in 1..i : schemas[j] \in failed) => l > i
    <3>1. PICK l \in i..k :
            /\ resources[i] = schemas[l]
            /\ (\E j \in 1..i : schemas[j] \in failed) => l > i
      BY <2>1
    <3>2. l \in i..next
      BY <1>1
    <3>3. QED
      BY <1>3, <3>1, <3>2
  <2>4. /\ next \in (m + 1)..next
        /\ R[m + 1] = schemas[next]
        /\ (\E j \in 1..(m + 1) : schemas[j] \in failed) => next > m + 1
    BY <1>1, <1>3, <1>12, <2>2
  <2>5. 1..(m + 1) = 1..m \cup {m + 1}
    BY <1>1
  <2>6. QED
    BY <2>2, <2>3, <2>4, <2>5
<1> HIDE DEF k
<1>14. /\ Len(R) = m + 1 /\ DOMAIN R = 1..(m + 1) /\ next' - 1 = next
       /\ resources' = R /\ schemas' = schemas /\ failed' = failed
  BY <1>1, <1>3
<1> HIDE DEF m, R
<1>15. Shifted(next - 1)'
  BY <1>13, <1>14 DEF Shifted
<1>16. /\ next' - 1 <= Len(schemas') /\ Len(resources') <= next' - 1
       /\ failed' \subseteq {schemas'[j] : j \in 1..(next' - 1)}
  BY <1>11, <1>12, <1>14
<1>17. Elements(resources)' = {schemas'[j] : j \in 1..(next' - 1)} \ failed'
  BY <1>8, <1>14 DEF Elements
<1>18. /\ \A i, j \in DOMAIN resources' : resources'[i] = resources'[j] => i = j
       /\ \A i \in 1..(next' - 1) :
            (\A j \in 1..i : schemas'[j] \notin failed') =>
              i <= Len(resources') /\ resources'[i] = schemas'[i]
  BY <1>9, <1>10, <1>14
<1>19. QED
  BY <1>15, <1>16, <1>17, <1>18 DEF Handled

\* A schema whose definition could not be created.
LEMMA HandledByFailure ==
  ASSUME TypeOK, Ordered, phase = "install", next <= Len(schemas),
         Handled(next - 1),
         failed' = failed \cup {Current},
         next' = next + 1, schemas' = schemas, resources' = resources
  PROVE  Handled(next - 1)'
<1> DEFINE k == next - 1
           F == failed \cup {Current}
<1>1. /\ next \in Nat \ {0} /\ k \in Nat /\ next' - 1 = next
      /\ Len(resources) \in Nat
      /\ DOMAIN schemas = 1..Len(schemas) /\ next \in DOMAIN schemas
  BY DEF TypeOK
<1>2. Handled(k)
  OBVIOUS
<1>3. \A j \in 1..k : schemas[j] # Current
  BY <1>1 DEF Ordered, Current
<1>4. {schemas[j] : j \in 1..next} = {schemas[j] : j \in 1..k} \cup {Current}
  <2>1. 1..next = 1..k \cup {next}
    BY <1>1
  <2>2. QED
    BY <2>1 DEF Current
<1>5. /\ F \subseteq {schemas[j] : j \in 1..next}
      /\ Elements(resources) = {schemas[j] : j \in 1..next} \ F
  BY <1>2, <1>3, <1>4 DEF Handled
<1>6. ASSUME NEW i \in 1..next, \A j \in 1..i : schemas[j] \notin F
      PROVE  i <= Len(resources) /\ resources[i] = schemas[i]
  <2>1. i # next
    BY <1>1, <1>6 DEF Current
  <2>2. i \in 1..k /\ \A j \in 1..i : schemas[j] \notin failed
    BY <1>1, <1>6, <2>1
  <2>3. QED
    BY <1>2, <2>2 DEF Handled
<1>7. next <= Len(schemas) /\ Len(resources) <= next
  BY <1>1, <1>2 DEF Handled
<1>8. \A i, j \in DOMAIN resources : resources[i] = resources[j] => i = j
  BY <1>2 DEF Handled
<1>9. failed' = F
  OBVIOUS
\* The failure is behind every resource that has a place.
<1>10. /\ Len(resources) < next
       /\ \A i \in DOMAIN resources : \E l \in i..next :
            /\ resources[i] = schemas[l]
            /\ (\E j \in 1..i : schemas[j] \in F) => l > i
  <2>1. /\ Len(resources) <= k
        /\ \A i \in DOMAIN resources : \E l \in i..k :
             /\ resources[i] = schemas[l]
             /\ (\E j \in 1..i : schemas[j] \in failed) => l > i
        /\ DOMAIN resources = 1..Len(resources)
    BY <1>1, <1>2 DEF Handled, Shifted, TypeOK
  <2>2. ASSUME NEW i \in DOMAIN resources
        PROVE  \E l \in i..next :
                 /\ resources[i] = schemas[l]
                 /\ (\E j \in 1..i : schemas[j] \in F) => l > i
    <3>1. PICK l \in i..k :
            /\ resources[i] = schemas[l]
            /\ (\E j \in 1..i : schemas[j] \in failed) => l > i
      BY <2>1
    <3>2. l \in i..next /\ \A j \in 1..i : j \in 1..k
      BY <1>1, <2>1
    <3>3. \A j \in 1..i : schemas[j] \in F => schemas[j] \in failed
      BY <1>3, <3>2
    <3>4. QED
      BY <3>1, <3>2, <3>3
  <2>3. QED
    BY <1>1, <2>1, <2>2
<1> HIDE DEF k, F
<1>11. Shifted(next - 1)'
  BY <1>1, <1>9, <1>10 DEF Shifted
<1>12. /\ next' - 1 <= Len(schemas') /\ Len(resources') <= next' - 1
       /\ failed' \subseteq {schemas'[j] : j \in 1..(next' - 1)}
       /\ Elements(resources') = {schemas'[j] : j \in 1..(next' - 1)} \ failed'
  BY <1>1, <1>5, <1>7, <1>9
<1>13. /\ \A i, j \in DOMAIN resources' : resources'[i] = resources'[j] => i = j
       /\ \A i \in 1..(next' - 1) :
            (\A j \in 1..i : schemas'[j] \notin failed') =>
              i <= Len(resources') /\ resources'[i] = schemas'[i]
  BY <1>1, <1>6, <1>8, <1>9
<1>14. QED
  BY <1>12, <1>13, <1>11 DEF Handled, Elements

\* What the first loop has made stays as long as its variables do.
LEMMA HandledFrame ==
  ASSUME schemas' = schemas, resources' = resources, failed' = failed
  PROVE  /\ Ordered => Ordered'
         /\ Handled(Len(schemas)) => Handled(Len(schemas))'
         /\ next' = next /\ Handled(next - 1) => Handled(next - 1)'
<1>1. Ordered => Ordered'
  BY DEF Ordered, Elements
<1>2. ASSUME Handled(Len(schemas))
      PROVE  Handled(Len(schemas))'
  BY <1>2 DEF Handled, Shifted, Elements
<1>3. ASSUME next' = next, Handled(next - 1)
      PROVE  Handled(next - 1)'
  <2>1. (next - 1)' = next - 1
    BY <1>3
  <2>2. /\ next' - 1 <= Len(schemas') /\ Len(resources') <= next' - 1
        /\ failed' \subseteq {schemas'[j] : j \in 1..(next' - 1)}
        /\ Elements(resources') = {schemas'[j] : j \in 1..(next' - 1)} \ failed'
    BY <1>3, <2>1 DEF Handled
  <2>3. /\ \A i, j \in DOMAIN resources' : resources'[i] = resources'[j] => i = j
        /\ \A i \in 1..(next' - 1) :
             (\A j \in 1..i : schemas'[j] \notin failed') =>
               i <= Len(resources') /\ resources'[i] = schemas'[i]
    BY <1>3, <2>1 DEF Handled
  <2>4. /\ failed' # {} => Len(resources') < next' - 1
        /\ \A i \in DOMAIN resources' : \E k \in i..(next' - 1) :
             /\ resources'[i] = schemas'[k]
             /\ (\E j \in 1..i : schemas'[j] \in failed') => k > i
    BY <1>3, <2>1 DEF Handled, Shifted
  <2>5. QED
    BY <2>2, <2>3, <2>4 DEF Handled, Shifted, Elements
<1>4. QED
  BY <1>1, <1>2, <1>3

\* An established definition stays so.
LEMMA EstablishedStays ==
  ASSUME TypeOK, Next
  PROVE  \A t \in Types : crds[t] = "established" => crds'[t] = "established"
<1>1. ASSUME NEW t \in Types, OtherInstalls(t) \/ Establish(t)
      PROVE  \A u \in Types : crds[u] = "established" => crds'[u] = "established"
  BY <1>1 DEF TypeOK, OtherInstalls, Establish
<1>2. ASSUME CreateDefinition \/ CreateDefinitionFails
      PROVE  \A u \in Types : crds[u] = "established" => crds'[u] = "established"
  BY <1>2 DEF TypeOK, CreateDefinition, CreateDefinitionFails
<1>3. CASE UNCHANGED crds
  BY <1>3
<1>4. QED
  BY <1>1, <1>2, <1>3 DEF Next, StartupStep, SetupProvider, SetupProviderFails,
     BuildSchemas, BuildSchemasFails, ListInstalled, SkipCreation, InstallDone,
     EstablishedConfirmed, WaitFails, WaitDone, StartControllers, StartManager, ManagerFails, Killed

-----------------------------------------------------------------------------
(* The invariant holds.                                                    *)

\* Init, and every step, phase by phase.
LEMMA InitSafe ==
  ASSUME Init
  PROVE  SafeInv
<1>1. /\ crds \in [Types -> {"absent", "installed", "established"}]
      /\ phase \in Phases
      /\ installed \subseteq Types /\ failed \subseteq Types
      /\ next \in Nat \ {0} /\ faults \in Nat
  BY DEF Init, Phases
<1> skipCreation \in BOOLEAN /\ unmappable \subseteq Types
  BY DEF Init
<1>2. /\ schemas \in Seq(Types) /\ resources \in Seq(Types) /\ toCheck \in Seq(Types)
      /\ controllers \in Seq([kind : Types, schema : Types])
  BY DEF Init
<1>3. Progress /\ Joined
  BY DEF Init, Progress, Joined
<1>4. QED
  BY <1>1, <1>2, <1>3 DEF SafeInv, TypeOK

\* What a definition becomes leaves the process alone.
LEMMA SafeServer ==
  ASSUME SafeInv, NEW t \in Types, OtherInstalls(t) \/ Establish(t)
  PROVE  SafeInv'
<1>1. /\ crds' \in [Types -> {"absent", "installed", "established"}]
      /\ UNCHANGED <<phase, locals, faults>>
  BY DEF SafeInv, TypeOK, OtherInstalls, Establish
<1>2. \A u \in Types : crds[u] = "established" => crds'[u] = "established"
  BY EstablishedStays DEF SafeInv, Next
<1>3. TypeOK' /\ Joined'
  BY <1>1 DEF SafeInv, TypeOK, Joined, locals
<1>4. Progress'
  <2>1. UNCHANGED <<schemas, resources, failed, next>>
    BY <1>1 DEF locals
  <2>2. /\ Ordered => Ordered'
        /\ Handled(next - 1) => Handled(next - 1)'
        /\ Handled(Len(schemas)) => Handled(Len(schemas))'
    BY <2>1, HandledFrame
  <2>3. /\ Confirmed(next - 1) => Confirmed(next - 1)'
        /\ Confirmed(Len(toCheck)) => Confirmed(Len(toCheck))'
    BY <1>1, <1>2 DEF Confirmed, SafeInv, TypeOK, locals
  <2>4. QED
    BY <1>1, <2>2, <2>3 DEF SafeInv, Progress, locals
<1>5. QED
  BY <1>3, <1>4 DEF SafeInv

LEMMA SafeExit ==
  ASSUME SafeInv,
         SetupProviderFails \/ BuildSchemasFails \/ WaitFails \/ ManagerFails \/ Killed
  PROVE  SafeInv'
<1>1. Exit /\ crds' = crds
  BY DEF SetupProviderFails, BuildSchemasFails, WaitFails, ManagerFails, Killed
<1>2. faults' \in Nat
  BY FaultCounts DEF SafeInv, TypeOK, SetupProviderFails, BuildSchemasFails,
     WaitFails, ManagerFails, Killed
<1>3. QED
  BY <1>1, <1>2, ExitSafe

LEMMA SafeBeginning ==
  ASSUME SafeInv, SetupProvider \/ BuildSchemas \/ ListInstalled
  PROVE  SafeInv'
<1>1. CASE SetupProvider
  BY <1>1, TypesAssumption
  DEF SafeInv, TypeOK, Progress, Joined, SetupProvider, Phases
<1>2. CASE BuildSchemas
  <2>1. IsFiniteSet(Types \ TooLong)
    BY TypesAssumption, FS_Difference
  <2>2. /\ schemas' \in Seq(Types \ TooLong)
        /\ Elements(schemas') = Types \ TooLong
        /\ \A i, j \in DOMAIN schemas' : schemas'[i] = schemas'[j] => i = j
    BY <1>2, <2>1, OrderOnce DEF BuildSchemas
  <2>3. schemas' \in Seq(Types)
    BY <2>2, SeqDef
  <2>4. Ordered'
    BY <2>2 DEF Ordered, Elements
  <2>5. QED
    BY <1>2, <2>3, <2>4
       DEF SafeInv, TypeOK, Progress, Joined, BuildSchemas, Phases
<1>3. CASE ListInstalled
  <2>1. TypeOK'
    BY <1>3, FaultCounts DEF SafeInv, TypeOK, ListInstalled, Phases
  <2>2. Ordered'
    BY <1>3 DEF SafeInv, Progress, ListInstalled, Ordered, Elements
  <2>3. Handled(next - 1)'
    <3>1. /\ next' = 1 /\ resources' = <<>> /\ failed' = {}
          /\ schemas' \in Seq(Types)
      BY <1>3 DEF SafeInv, TypeOK, Progress, ListInstalled
    <3>2. /\ next' - 1 = 0 /\ 1..(next' - 1) = {} /\ 0 <= Len(schemas')
          /\ Len(resources') = 0 /\ DOMAIN resources' = {}
      BY <3>1
    <3>3. /\ {schemas'[j] : j \in 1..(next' - 1)} = {}
          /\ Elements(resources') = {}
      BY <3>2 DEF Elements
    <3>4. QED
      BY <3>1, <3>2, <3>3 DEF Handled, Shifted
  <2>4. QED
    BY <1>3, <2>1, <2>2, <2>3 DEF SafeInv, Progress, Joined, ListInstalled
<1>4. QED
  BY <1>1, <1>2, <1>3

LEMMA SafeInstall ==
  ASSUME SafeInv,
         SkipCreation \/ CreateDefinition \/ CreateDefinitionFails \/ InstallDone
  PROVE  SafeInv'
<1>1. /\ phase = "install" /\ Ordered /\ Handled(next - 1) /\ TypeOK
      /\ UNCHANGED schemas /\ controllers = <<>> /\ UNCHANGED controllers
  BY DEF SafeInv, Progress, Joined, SkipCreation, CreateDefinition,
     CreateDefinitionFails, InstallDone
<1>2. Ordered'
  BY <1>1 DEF Ordered, Elements
<1>3. next <= Len(schemas) => Current \in Types
  BY <1>1 DEF TypeOK, Current
<1>4. CASE SkipCreation
  <2>1. TypeOK'
    BY <1>1, <1>3, <1>4, AppendProperties DEF TypeOK, SkipCreation
  <2>2. Handled(next - 1)'
    BY <1>1, <1>4, HandledByAppend DEF SkipCreation
  <2>3. QED
    BY <1>1, <1>2, <1>4, <2>1, <2>2 DEF SafeInv, Progress, Joined, SkipCreation
<1>5. CASE CreateDefinition
  <2>1. TypeOK'
    BY <1>1, <1>3, <1>5, AppendProperties DEF TypeOK, CreateDefinition
  <2>2. Handled(next - 1)'
    BY <1>1, <1>5, HandledByAppend DEF CreateDefinition
  <2>3. QED
    BY <1>1, <1>2, <1>5, <2>1, <2>2 DEF SafeInv, Progress, Joined, CreateDefinition
<1>6. CASE CreateDefinitionFails
  <2>1. faults' \in Nat
    BY <1>1, <1>6, FaultCounts DEF TypeOK, CreateDefinitionFails
  <2>2. TypeOK'
    BY <1>1, <1>3, <1>6, <2>1 DEF TypeOK, CreateDefinitionFails
  <2>3. Handled(next - 1)'
    BY <1>1, <1>6, HandledByFailure DEF CreateDefinitionFails
  <2>4. QED
    BY <1>1, <1>2, <1>6, <2>2, <2>3
       DEF SafeInv, Progress, Joined, CreateDefinitionFails
<1>7. CASE InstallDone
  <2>1. TypeOK'
    BY <1>1, <1>7 DEF TypeOK, InstallDone, Phases
  <2>2. next - 1 = Len(schemas)
    <3>1. next > Len(schemas) /\ next - 1 <= Len(schemas)
      BY <1>1, <1>7 DEF InstallDone, Handled
    <3>2. next \in Nat /\ Len(schemas) \in Nat
      BY <1>1 DEF TypeOK
    <3>3. QED
      BY <3>1, <3>2
  <2>3. Handled(Len(schemas))'
    <3>1. Handled(Len(schemas))
      BY <1>1, <2>2
    <3>2. UNCHANGED <<schemas, resources, failed>>
      BY <1>7 DEF InstallDone
    <3>3. QED
      BY <3>1, <3>2, HandledFrame
  <2>4. Confirmed(next - 1)' /\ next' - 1 <= Len(toCheck')
    <3>1. next' - 1 = 0 /\ Len(toCheck') \in Nat
      BY <1>7, <2>1 DEF TypeOK, InstallDone
    <3>2. QED
      BY <3>1, <2>1 DEF TypeOK, Confirmed
  <2>5. QED
    BY <1>1, <1>2, <1>7, <2>1, <2>3, <2>4 DEF SafeInv, Progress, Joined, InstallDone
<1>8. QED
  BY <1>4, <1>5, <1>6, <1>7

LEMMA SafeWait ==
  ASSUME SafeInv, EstablishedConfirmed \/ WaitDone
  PROVE  SafeInv'
<1>1. /\ phase = "wait" /\ Ordered /\ Handled(Len(schemas)) /\ TypeOK
      /\ Confirmed(next - 1)
      /\ UNCHANGED <<crds, schemas, resources, failed, toCheck, faults>>
      /\ controllers = <<>> /\ UNCHANGED controllers
  BY DEF SafeInv, Progress, Joined, EstablishedConfirmed, WaitDone, locals
<1>2. Ordered' /\ Handled(Len(schemas))'
  BY <1>1, HandledFrame
<1>3. CASE EstablishedConfirmed
  <2>1. TypeOK'
    BY <1>1, <1>3 DEF TypeOK, EstablishedConfirmed
  <2>2. Confirmed(next - 1)'
    BY <1>1, <1>3 DEF TypeOK, EstablishedConfirmed, Confirmed
  <2>3. next' - 1 <= Len(toCheck')
    BY <1>1, <1>3 DEF TypeOK, EstablishedConfirmed
  <2>4. QED
    BY <1>1, <1>2, <1>3, <2>1, <2>2, <2>3
       DEF SafeInv, Progress, Joined, EstablishedConfirmed
<1>4. CASE WaitDone
  <2>1. TypeOK'
    BY <1>1, <1>4 DEF TypeOK, WaitDone, Phases, locals
  <2>2. Confirmed(Len(toCheck))'
    BY <1>1, <1>4 DEF TypeOK, WaitDone, Confirmed
  <2>3. QED
    BY <1>1, <1>2, <1>4, <2>1, <2>2 DEF SafeInv, Progress, Joined, WaitDone
<1>5. QED
  BY <1>3, <1>4

LEMMA SafeControllers ==
  ASSUME SafeInv, StartControllers \/ StartManager
  PROVE  SafeInv'
<1>1. /\ phase = "controllers" /\ Ordered /\ Handled(Len(schemas)) /\ TypeOK
      /\ Confirmed(Len(toCheck))
      /\ UNCHANGED <<crds, schemas, resources, failed, toCheck, faults, next>>
  BY DEF SafeInv, Progress, StartControllers, StartManager, locals
<1>2. Ordered' /\ Handled(Len(schemas))' /\ Confirmed(Len(toCheck))'
  BY <1>1, HandledFrame DEF Confirmed
<1>3. CASE StartControllers
  <2>1. /\ resources \in Seq(Types) /\ schemas \in Seq(Types)
        /\ Len(resources) <= Len(schemas)
    BY <1>1 DEF TypeOK, Handled
  <2>2. \A i \in 1..Len(resources) :
          [kind |-> resources[i], schema |-> schemas[i]] \in
            [kind : Types, schema : Types]
    BY <2>1
  <2>3. controllers' \in Seq([kind : Types, schema : Types])
    <3>1. Len(resources) \in Nat /\ DOMAIN resources = 1..Len(resources)
      BY <2>1
    <3>2. controllers' \in [1..Len(resources) -> [kind : Types, schema : Types]]
      BY <1>3, <2>2, <3>1 DEF StartControllers
    <3>3. QED
      BY <3>1, <3>2, FirstNumbers
  <2>4. TypeOK'
    BY <1>1, <1>3, <2>3 DEF TypeOK, StartControllers
  <2>5. QED
    BY <1>1, <1>2, <1>3, <2>4 DEF SafeInv, Progress, Joined, StartControllers
<1>4. CASE StartManager
  <2>1. TypeOK'
    BY <1>1, <1>4 DEF TypeOK, StartManager, Phases, locals
  <2>2. Joined'
    BY <1>1, <1>4 DEF SafeInv, Joined, StartManager, locals
  <2>3. QED
    BY <1>1, <1>2, <1>4, <2>1, <2>2 DEF SafeInv, Progress, StartManager
<1>5. QED
  BY <1>3, <1>4

LEMMA SafeStutter ==
  ASSUME SafeInv, UNCHANGED vars
  PROVE  SafeInv'
<1>1. TypeOK' /\ Joined'
  BY DEF SafeInv, TypeOK, Joined, vars, locals
<1>2. /\ Ordered => Ordered'
      /\ Handled(next - 1) => Handled(next - 1)'
      /\ Handled(Len(schemas)) => Handled(Len(schemas))'
  BY HandledFrame DEF vars, locals
<1>3. /\ Confirmed(next - 1) => Confirmed(next - 1)'
      /\ Confirmed(Len(toCheck)) => Confirmed(Len(toCheck))'
  BY DEF Confirmed, vars, locals
<1>4. Progress'
  BY <1>2, <1>3 DEF SafeInv, Progress, vars, locals
<1>5. QED
  BY <1>1, <1>4 DEF SafeInv

\* SafeInv is an invariant of the startup.
THEOREM StartupSafety == Spec => []SafeInv
<1>1. Init => SafeInv
  BY InitSafe
<1>2. SafeInv /\ [Next]_vars => SafeInv'
  <2>1. SUFFICES ASSUME SafeInv, [Next]_vars PROVE SafeInv'
    OBVIOUS
  <2>2. CASE UNCHANGED vars
    BY <2>1, <2>2, SafeStutter
  <2>3. CASE SetupProvider \/ BuildSchemas \/ ListInstalled
    BY <2>1, <2>3, SafeBeginning
  <2>4. CASE SetupProviderFails \/ BuildSchemasFails \/ WaitFails \/ ManagerFails \/ Killed
    BY <2>1, <2>4, SafeExit
  <2>5. CASE SkipCreation \/ CreateDefinition \/ CreateDefinitionFails \/ InstallDone
    BY <2>1, <2>5, SafeInstall
  <2>6. CASE EstablishedConfirmed \/ WaitDone
    BY <2>1, <2>6, SafeWait
  <2>7. CASE StartControllers \/ StartManager
    BY <2>1, <2>7, SafeControllers
  <2>8. CASE \E t \in Types : OtherInstalls(t) \/ Establish(t)
    BY <2>1, <2>8, SafeServer
  <2>9. QED
    BY <2>1, <2>2, <2>3, <2>4, <2>5, <2>6, <2>7, <2>8 DEF Next, StartupStep
<1>3. QED
  BY <1>1, <1>2, PTL DEF Spec

-----------------------------------------------------------------------------
(* The properties.                                                         *)

\* The variables of the startup (create.go:258-404) keep their types.
THEOREM StartupTypes == Spec => []TypeOK
<1>1. SafeInv => TypeOK
  BY DEF SafeInv
<1>2. QED
  BY <1>1, StartupSafety, PTL

\* Every type gets exactly one controller unless its name is too long or its
\* creation failed (create.go:328-346), for any set of types and any order.
THEOREM EveryTypeOnceHolds == Spec => []EveryTypeOnce
<1>1. SafeInv => EveryTypeOnce
  <2>1. SUFFICES ASSUME SafeInv, phase \in {"wait", "controllers", "running"}
                 PROVE  /\ Elements(resources) = (Types \ TooLong) \ failed
                        /\ \A i, j \in DOMAIN resources :
                             resources[i] = resources[j] => i = j
    BY DEF EveryTypeOnce
  <2>2. Ordered /\ Handled(Len(schemas)) /\ DOMAIN schemas = 1..Len(schemas)
    BY <2>1 DEF SafeInv, Progress, TypeOK
  <2>3. QED
    BY <2>2 DEF Ordered, Handled, Elements
<1>2. QED
  BY <1>1, StartupSafety, PTL

\* A reconciler has the schema of its own kind (controller.go:116) exactly as long
\* as no creation before it failed, for any set of types and any order.
THEOREM AlignedUntilFailureHolds == Spec => []AlignedUntilFailure
<1>1. SafeInv => AlignedUntilFailure
  <2>1. SUFFICES ASSUME SafeInv, NEW i \in DOMAIN controllers
                 PROVE  (controllers[i].kind = controllers[i].schema) <=>
                          \A j \in 1..i : schemas[j] \notin failed
    BY DEF AlignedUntilFailure
  <2>2. controllers # <<>>
    BY <2>1
  <2>3. /\ Handled(Len(schemas)) /\ Ordered
        /\ controllers = [l \in DOMAIN resources |->
                            [kind |-> resources[l], schema |-> schemas[l]]]
    BY <2>1, <2>2 DEF SafeInv, Joined, Progress
  <2>4. i \in 1..Len(resources) /\ Len(resources) \in Nat /\ Len(schemas) \in Nat
    BY <2>1, <2>3 DEF SafeInv, TypeOK
  <2>5. i \in 1..Len(schemas) /\ DOMAIN schemas = 1..Len(schemas)
    BY <2>1, <2>3, <2>4 DEF Handled, SafeInv, TypeOK
  <2>6. controllers[i].kind = resources[i] /\ controllers[i].schema = schemas[i]
    BY <2>1, <2>3
  <2>7. ASSUME \A j \in 1..i : schemas[j] \notin failed
        PROVE  resources[i] = schemas[i]
    BY <2>3, <2>5, <2>7 DEF Handled
  <2>8. ASSUME NEW j \in 1..i, schemas[j] \in failed
        PROVE  resources[i] # schemas[i]
    <3>1. PICK k \in i..Len(schemas) : resources[i] = schemas[k] /\ k > i
      BY <2>1, <2>3, <2>8 DEF Handled, Shifted
    <3>2. k \in DOMAIN schemas /\ i \in DOMAIN schemas /\ k # i
      BY <2>4, <2>5, <3>1
    <3>3. QED
      BY <2>3, <3>1, <3>2 DEF Ordered
  <2>9. QED
    BY <2>6, <2>7, <2>8
<1>2. QED
  BY <1>1, StartupSafety, PTL

\* No controller is set up before every definition this run has created is
\* established (create.go:349), for any set of types.
THEOREM CreatedEstablishedHolds == Spec => []CreatedEstablished
<1>1. SafeInv => CreatedEstablished
  <2>1. SUFFICES ASSUME SafeInv, phase \in {"controllers", "running"},
                        NEW i \in DOMAIN toCheck
                 PROVE  crds[toCheck[i]] = "established"
    BY DEF CreatedEstablished, Elements
  <2>2. Confirmed(Len(toCheck)) /\ i <= Len(toCheck)
    BY <2>1 DEF SafeInv, Progress, TypeOK
  <2>3. QED
    BY <2>1, <2>2 DEF Confirmed
<1>2. QED
  BY <1>1, StartupSafety, PTL

-----------------------------------------------------------------------------
(* The startup gets on with every step.                                    *)

\* The numbers Remaining is made of.
LEMMA Counts ==
  ASSUME SafeInv
  PROVE  /\ next \in Nat \ {0}
         /\ Len(schemas) \in Nat /\ Len(toCheck) \in Nat
         /\ Cardinality(Types \ TooLong) \in Nat
         /\ phase = "install" => next <= Len(schemas) + 1
         /\ phase = "wait" => next <= Len(toCheck) + 1
         /\ phase \in {"schemas", "list"} => next = 1 /\ toCheck = <<>>
<1>1. next \in Nat \ {0} /\ Len(schemas) \in Nat /\ Len(toCheck) \in Nat
  BY DEF SafeInv, TypeOK
<1>2. Cardinality(Types \ TooLong) \in Nat
  BY TypesAssumption, FS_Difference, FS_CardinalityType
<1>3. phase = "install" => next - 1 <= Len(schemas)
  BY DEF SafeInv, Progress, Handled
<1>4. phase = "wait" => next - 1 <= Len(toCheck)
  BY DEF SafeInv, Progress
<1>5. phase \in {"schemas", "list"} => next = 1 /\ toCheck = <<>>
  BY DEF SafeInv, Progress
<1>6. QED
  BY <1>1, <1>2, <1>3, <1>4, <1>5

\* A process that has not ended has steps left.
LEMMA RemainingPositive ==
  ASSUME SafeInv, phase # "down"
  PROVE  Remaining \in Nat \ {0}
<1>1. phase \in Phases
  BY DEF SafeInv, TypeOK
<1>2. CASE phase = "install"
  BY <1>2, Counts DEF Remaining
<1>3. CASE phase = "wait"
  BY <1>3, Counts DEF Remaining
<1>4. CASE phase = "list"
  BY <1>4, Counts DEF Remaining
<1>5. CASE phase = "schemas"
  BY <1>5, Counts DEF Remaining
<1>6. CASE phase \in {"controllers", "running"}
  BY <1>6 DEF Remaining
<1>7. QED
  BY <1>1, <1>2, <1>3, <1>4, <1>5, <1>6 DEF Phases

\* The steps that end the process.
LEMMA ExitGetsOn ==
  ASSUME SafeInv, SetupProviderFails \/ BuildSchemasFails \/ WaitFails \/ ManagerFails
  PROVE  Remaining' \in 0..(Remaining - 1)
<1>1. phase # "down" /\ phase' = "down"
  BY DEF SetupProviderFails, BuildSchemasFails, WaitFails, ManagerFails, Exit
<1>2. Remaining' = 0
  BY <1>1 DEF Remaining
<1>3. QED
  BY <1>1, <1>2, RemainingPositive

\* The schemas are as many as the types that have one.
LEMMA BeginningGetsOn ==
  ASSUME SafeInv, BuildSchemas \/ ListInstalled
  PROVE  Remaining' \in 0..(Remaining - 1)
<1> DEFINE n == Cardinality(Types \ TooLong)
<1>1. CASE BuildSchemas
  <2>1. n \in Nat
    BY Counts
  <2>2. schemas' \in [1..n -> Types \ TooLong]
    BY <1>1 DEF BuildSchemas, Orders
  <2>3. Len(schemas') = n
    <3> HIDE DEF n
    <3> QED
      BY <2>1, <2>2, FirstNumbers
  <2>4. /\ Remaining = 7 + 2 * n
        /\ Remaining' = 6 + 2 * Len(schemas')
    BY <1>1 DEF BuildSchemas, Remaining
  <2> HIDE DEF n
  <2>5. QED
    BY <2>1, <2>3, <2>4
<1>2. CASE ListInstalled
  <2>1. Remaining = 6 + 2 * Len(schemas)
    BY <1>2 DEF ListInstalled, Remaining
  <2>2. Remaining' = 7 + Len(toCheck) + 2 * (Len(schemas) - next)
    BY <1>2 DEF ListInstalled, Remaining
  <2>3. next = 1 /\ Len(toCheck) = 0 /\ Len(schemas) \in Nat
    BY <1>2, Counts DEF ListInstalled
  <2>4. QED
    BY <2>1, <2>2, <2>3
<1>3. QED
  BY <1>1, <1>2

\* Every schema adds one definition to check at most.
LEMMA InstallGetsOn ==
  ASSUME SafeInv,
         SkipCreation \/ CreateDefinition \/ CreateDefinitionFails \/ InstallDone
  PROVE  Remaining' \in 0..(Remaining - 1)
<1>1. /\ phase = "install" /\ UNCHANGED schemas
      /\ Remaining = 7 + Len(toCheck) + 2 * (Len(schemas) - next)
  BY DEF SkipCreation, CreateDefinition, CreateDefinitionFails, InstallDone,
     Remaining
<1>2. /\ next \in Nat /\ Len(schemas) \in Nat /\ Len(toCheck) \in Nat
      /\ next <= Len(schemas) + 1
  BY <1>1, Counts
<1>3. ASSUME SkipCreation \/ CreateDefinition \/ CreateDefinitionFails
      PROVE  Remaining' \in 0..(Remaining - 1)
  <2>1. /\ next <= Len(schemas) /\ next' = next + 1 /\ phase' = "install"
        /\ toCheck' = toCheck \/ toCheck' = Append(toCheck, Current)
    BY <1>3 DEF SkipCreation, CreateDefinition, CreateDefinitionFails
  <2>2. Len(toCheck') \in {Len(toCheck), Len(toCheck) + 1}
    <3>1. toCheck \in Seq(Types) /\ Current \in Types
      BY <1>2, <2>1 DEF SafeInv, TypeOK, Current
    <3>2. QED
      BY <2>1, <3>1, AppendProperties
  <2>3. Remaining' = 7 + Len(toCheck') + 2 * (Len(schemas) - next')
    BY <1>1, <2>1 DEF Remaining
  <2>4. QED
    BY <1>1, <1>2, <2>1, <2>2, <2>3
<1>4. CASE InstallDone
  <2>1. /\ next > Len(schemas)
        /\ Remaining' = 5 + Len(toCheck) - 1
    BY <1>4 DEF InstallDone, Remaining
  <2>2. QED
    BY <1>1, <1>2, <2>1
<1>5. QED
  BY <1>3, <1>4

LEMMA WaitGetsOn ==
  ASSUME SafeInv, EstablishedConfirmed \/ WaitDone
  PROVE  Remaining' \in 0..(Remaining - 1)
<1>1. /\ phase = "wait" /\ UNCHANGED toCheck
      /\ Remaining = 5 + Len(toCheck) - next
  BY DEF EstablishedConfirmed, WaitDone, locals, Remaining
<1>2. /\ next \in Nat /\ Len(toCheck) \in Nat
      /\ next <= Len(toCheck) + 1
  BY <1>1, Counts
<1>3. CASE EstablishedConfirmed
  <2>1. /\ next <= Len(toCheck)
        /\ Remaining' = 5 + Len(toCheck) - (next + 1)
    BY <1>1, <1>3 DEF EstablishedConfirmed, Remaining
  <2>2. QED
    BY <1>1, <1>2, <2>1
<1>4. CASE WaitDone
  <2>1. Remaining' \in {2, 3}
    BY <1>4 DEF WaitDone, Remaining
  <2>2. QED
    BY <1>1, <1>2, <2>1
<1>5. QED
  BY <1>3, <1>4

\* Setting up no controllers at all changes nothing.
LEMMA ControllersGetOn ==
  ASSUME SafeInv, StartControllers \/ StartManager, vars' # vars
  PROVE  Remaining' \in 0..(Remaining - 1)
<1>1. phase = "controllers"
  BY DEF StartControllers, StartManager
<1>2. CASE StartControllers
  <2>1. phase' = "controllers" /\ controllers = <<>> /\ controllers' # <<>>
    BY <1>2 DEF StartControllers, vars, locals
  <2>2. Remaining = 3 /\ Remaining' = 2
    BY <1>1, <2>1 DEF Remaining
  <2>3. QED
    BY <2>2
<1>3. CASE StartManager
  <2>1. Remaining \in {2, 3} /\ Remaining' = 1
    BY <1>1, <1>3 DEF StartManager, Remaining
  <2>2. QED
    BY <2>1
<1>4. QED
  BY <1>2, <1>3

\* No loop of the startup goes round without getting on: the steps of one run of
\* the process are bounded by the number of resource types, for any set of types
\* and whatever the API server answers (create.go:279, create.go:371).
THEOREM StartupBoundedHolds == Spec => StartupBounded
<1>1. ASSUME SafeInv, [Next]_vars
      PROVE  [StartupStep => Remaining' \in 0..(Remaining - 1)]_vars
  <2>1. SUFFICES ASSUME StartupStep, vars' # vars
                 PROVE  Remaining' \in 0..(Remaining - 1)
    OBVIOUS
  <2>2. QED
    BY <1>1, <2>1, ExitGetsOn, BeginningGetsOn, InstallGetsOn, WaitGetsOn,
       ControllersGetOn DEF StartupStep
<1>2. QED
  BY <1>1, StartupSafety, PTL DEF Spec, StartupBounded

=============================================================================
