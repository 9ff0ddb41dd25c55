----------------------------- MODULE Translation -----------------------------
(***************************************************************************)
(* One custom resource on its way through both mappings: its kind's schema *)
(* is installed, a spec the API server admits is mapped to a configuration,*)
(* the provider applies it, the state is saved, and the status is reported;*)
(* then the spec is edited and all but the first happens again.  What      *)
(* Reconciler takes as MapSpecFails, MapSpecPanic, StatusPanic and the     *)
(* refusal of a state is decided here by the schema and the values.        *)
(***************************************************************************)
EXTENDS ValueMapping

CONSTANTS
  Kinds,     \* names of resource types
  BlockOf,   \* the schema block of each
  SpecsOf,   \* the specs users submit for each, names in them to values
  MaxEdits   \* bound: later specs for the same object

VARIABLES
  kind,      \* the resource type of the object
  cipher,    \* the bridge has an encryption key
  phase,     \* the last step taken
  result,    \* and how it went
  spec,      \* the object's spec and status, from names to values
  status,
  config,    \* locals of the reconcile
  state,
  edits      \* specs submitted after the first

vars == <<kind, cipher, phase, result, spec, status, config, state, edits>>

Phases  == {"none", "Install", "Submit", "MapSpec", "Apply", "SaveState", "Report"}
Results == {"ok", "wait", "error", "panic", "refused"}

Block      == BlockOf[kind]
Definition == createK8sCRD(Block)
Crd        == Definition.schema
TerraformReconciler == [openAPISchema |-> Crd, cipher |-> cipher]

AtStep(p) == phase = p /\ result = "ok"

\* What is left of the configuration when the provider's types are imposed:
\* attributes that a type does not have are dropped.
RECURSIVE Convert(_, _)
Convert(v, t) ==
  CASE Is("obj", v)  -> [obj |-> [a \in DOMAIN t.attrs |-> Convert(v.obj[a], t.attrs[a])]]
    [] Is("list", v) -> [list |-> [i \in DOMAIN v.list |-> Convert(v.list[i], t.elem)],
                         of |-> t.elem]
    [] Is("set", v)  -> [set |-> {Convert(w, t.elem) : w \in v.set}, of |-> t.elem]
    [] Is("map", v)  -> [map |-> [k \in DOMAIN v.map |-> Convert(v.map[k], t.elem)],
                         of |-> t.elem]
    [] OTHER -> v

Configured == Convert(config, ImpliedType(Block))

\* What a provider computes, of any type.
RECURSIVE Computed(_)
Computed(t) ==
  CASE t = String -> [str |-> "computed"]
    [] t = Bool   -> [bool |-> TRUE]
    [] t = Number -> [num |-> 7]
    [] t.type = "list" -> [list |-> <<Computed(t.elem)>>, of |-> t.elem]
    [] t.type = "set"  -> [set |-> {Computed(t.elem)}, of |-> t.elem]
    [] t.type = "map"  -> [map |-> ("key" :> Computed(t.elem)), of |-> t.elem]
    [] OTHER -> [obj |-> [a \in DOMAIN t.attrs |-> Computed(t.attrs[a])]]

\* The state of a block with what is computed in it filled in.
RECURSIVE Fill(_, _)
Fill(v, b) ==
  CASE Is("obj", v) ->
         [obj |-> [n \in DOMAIN v.obj |->
            IF n \in DOMAIN b.blocks THEN Fill(v.obj[n], b.blocks[n].block)
            ELSE IF b.attributes[n].computed /\ Is("null", v.obj[n])
                 THEN Computed(b.attributes[n].type) ELSE v.obj[n]]]
    [] Is("list", v) -> [v EXCEPT !.list = [i \in DOMAIN v.list |-> Fill(v.list[i], b)]]
    [] Is("set", v)  -> [v EXCEPT !.set = {Fill(w, b) : w \in v.set}]
    [] Is("map", v)  -> [v EXCEPT !.map = [k \in DOMAIN v.map |-> Fill(v.map[k], b)]]
    [] OTHER -> v

\* The bridge's own part of the status, with these fields in it.
Tfoperator(fields) ==
  "_tfoperator" :> [obj |-> [f \in fields |-> [str |-> f]]]

AdmittedStatus(st) == Admits(Crd, [obj |-> [spec |-> [obj |-> spec], status |-> [obj |-> st]]])

-----------------------------------------------------------------------------
Init ==
  /\ kind \in Kinds /\ cipher \in BOOLEAN
  /\ phase = "none" /\ result = "ok"
  /\ spec = <<>> /\ status = <<>>
  /\ config = Null /\ state = Null
  /\ edits = 0

Install ==
  /\ AtStep("none")
  /\ phase' = "Install"
  /\ result' \in IF Definition.fails = {} THEN {"ok"} ELSE Definition.fails
  /\ UNCHANGED <<kind, cipher, spec, status, config, state, edits>>

\* A new object, or a changed spec once its reconcile has ended somehow.
Submit ==
  /\ \/ AtStep("Install") /\ edits' = edits
     \/ /\ phase \notin {"none", "Install"} /\ (result # "ok" \/ phase = "Report")
        /\ edits < MaxEdits /\ edits' = edits + 1
  /\ spec' \in {s \in SpecsOf[kind] : Admits(Crd.properties["spec"], [obj |-> s])}
  /\ phase' = "Submit" /\ result' = "ok"
  /\ config' = Null /\ state' = Null
  /\ UNCHANGED <<kind, cipher, status>>

MapSpec ==
  /\ AtStep("Submit")
  /\ phase' = "MapSpec"
  /\ \E r \in Then(createEmptyTerraformValueForBlock(Block, "test1"),
                   LAMBDA empty : mapCRDSpecValuesToTerraformConfig(Block, empty, spec)) :
       IF Is("ok", r) THEN result' = "ok" /\ config' = r.ok
       ELSE result' = r.fail /\ UNCHANGED config
  /\ UNCHANGED <<kind, cipher, spec, status, state, edits>>

\* The provider computes everything it can, or nothing.
Apply ==
  /\ AtStep("MapSpec")
  /\ phase' = "Apply"
  /\ state' \in {Fill(Configured, Block), Configured}
  /\ UNCHANGED <<kind, cipher, result, spec, status, config, edits>>

\* Only the bridge's own part is written: the rest is what it was.
SaveState ==
  /\ AtStep("Apply")
  /\ phase' = "SaveState"
  /\ LET old == IF "_tfoperator" \in DOMAIN status
                THEN DOMAIN status["_tfoperator"].obj ELSE {}
         saved == Tfoperator(old \cup {"tfState"}) @@ status
     IN IF AdmittedStatus(saved) THEN status' = saved /\ result' = "ok"
        ELSE result' = "refused" /\ UNCHANGED status
  /\ UNCHANGED <<kind, cipher, spec, config, state, edits>>

Report ==
  /\ AtStep("SaveState")
  /\ phase' = "Report"
  /\ \E r \in mapTerraformValuesToCRDStatus(TerraformReconciler, Block, state,
                Tfoperator(DOMAIN Crd.properties["status"].properties["_tfoperator"].properties)
                @@ status) :
       IF Is("fail", r) THEN result' = r.fail /\ UNCHANGED status
       ELSE IF AdmittedStatus(r.ok.obj) THEN status' = r.ok.obj /\ result' = "ok"
       ELSE result' = "refused" /\ UNCHANGED status
  /\ UNCHANGED <<kind, cipher, spec, config, state, edits>>

Next == Install \/ Submit \/ MapSpec \/ Apply \/ SaveState \/ Report

Spec == Init /\ [][Next]_vars

-----------------------------------------------------------------------------
(* What a value consists of.                                               *)

Members(v) ==
  CASE Is("obj", v)  -> Range(v.obj)
    [] Is("map", v)  -> Range(v.map)
    [] Is("arr", v)  -> Range(v.arr)
    [] Is("list", v) -> Range(v.list)
    [] Is("set", v)  -> v.set
    [] OTHER -> {}

RECURSIVE Parts(_)
Parts(v) == {v} \cup UNION {Parts(w) : w \in Members(v)}

\* The names at which objects and maps in it have members.
NamesIn(v) ==
  UNION {CASE Is("obj", w) -> DOMAIN w.obj [] Is("map", w) -> DOMAIN w.map [] OTHER -> {} :
           w \in Parts(v)}

Under(path, leaves) == {<<path \o l[1], l[2]>> : l \in leaves}

\* The scalars in a value, each with the names that lead to it and, in a list of
\* Terraform's, the positions.
RECURSIVE Leaves(_)
Leaves(v) ==
  CASE Is("obj", v)  -> UNION {Under(<<k>>, Leaves(v.obj[k])) : k \in DOMAIN v.obj}
    [] Is("map", v)  -> UNION {Under(<<k>>, Leaves(v.map[k])) : k \in DOMAIN v.map}
    [] Is("list", v) -> UNION {Under(<<i>>, Leaves(v.list[i])) : i \in DOMAIN v.list}
    [] Is("arr", v) \/ Is("set", v) -> UNION {Leaves(w) : w \in Members(v)}
    [] Is("null", v) -> {}
    [] OTHER -> {<< <<>>, v >>}

\* The objects that a spec gives for a nested block.
Items(v) == IF Is("arr", v) THEN {w.obj : w \in Range(v.arr)} ELSE {v.obj}

IsReference(v) == Is("str", v) /\ v.str \in DOMAIN References
Target(v)      == References[v.str]
Pending(v)     == /\ Target(v).parts = 6
                  /\ \/ Target(v).object \in {"absent", "provisioning"}
                     \/ Target(v).object = "Created" /\ Target(v).property = {}
Resolved(v)    == /\ Target(v).parts = 6 /\ Target(v).object = "Created"
                  /\ \E w \in Target(v).property : Is("str", w)

DroppedBlock(nb) ==
  nb.nesting = "map" /\ ~isTerraformNestedBlockAOpenAPIObjectProperty(nb)

-----------------------------------------------------------------------------
(* Properties.                                                             *)

RECURSIVE Conforms(_, _)
Conforms(v, t) ==
  CASE Is("obj", v) -> /\ t.type = "object" /\ DOMAIN t.attrs \subseteq DOMAIN v.obj
                       /\ \A a \in DOMAIN t.attrs : Conforms(v.obj[a], t.attrs[a])
    [] Is("null", v) -> v.null = t
    [] Members(v) # {} -> /\ t.type \in DOMAIN v
                          /\ \A w \in Members(v) : Conforms(w, t.elem)
    [] OTHER -> TypeOf(v) = t

\* Every variable keeps its type.  A configuration has every attribute of the
\* provider's type for the block (reconcile.go:350-448) and may have more.
TypeOK ==
  /\ kind \in Kinds /\ cipher \in BOOLEAN
  /\ phase \in Phases /\ result \in Results /\ edits \in 0..MaxEdits
  /\ config # Null => Conforms(config, ImpliedType(Block))
  /\ state # Null => Conforms(state, ImpliedType(Block))

\* The scalars of an attribute's value, which have no position where its type is
\* a set, and are what they refer to where they are references.
RECURSIVE WantedValue(_, _)
WantedValue(t, v) ==
  CASE t.type = "list" -> UNION {Under(<<i>>, WantedValue(t.elem, v.arr[i])) : i \in DOMAIN v.arr}
    [] t.type = "set"  -> UNION {WantedValue(t.elem, w) : w \in Members(v)}
    [] t.type = "map"  -> UNION {Under(<<k>>, WantedValue(t.elem, v.obj[k])) : k \in DOMAIN v.obj}
    [] OTHER -> {<< <<>>, IF IsReference(v) THEN CHOOSE w \in Target(v).property : TRUE ELSE v >>}

\* The items of a nested block, each with its place in the configuration: the
\* only entry of a map block is under the name of the block.
Placed(n, nb, v) ==
  LET items == IF Is("arr", v) THEN v.arr ELSE <<v>>
  IN {<< <<n>> \o (CASE nb.nesting = "list" -> <<i>>
                     [] nb.nesting = "map"  -> <<n>>
                     [] OTHER -> <<>>), items[i].obj >> : i \in DOMAIN items}

\* The scalars a spec asks for, with a display name made up where there is one
\* and the spec has none.
RECURSIVE Wanted(_, _, _)
Wanted(b, name, values) ==
  UNION {Under(<<n>>, WantedValue(b.attributes[n].type, values[n])) :
           n \in DOMAIN b.attributes \cap DOMAIN values} \cup
  UNION {UNION {Under(p[1], Wanted(b.blocks[n].block, n, p[2])) :
                  p \in Placed(n, b.blocks[n], values[n])} :
           n \in {m \in DOMAIN b.blocks \cap DOMAIN values : ~DroppedBlock(b.blocks[m])}} \cup
  {<< <<n>>, [str |-> name] >> : n \in {"display_name"} \cap (DOMAIN b.attributes \ DOMAIN values)}

\* What is handed to the provider is what the spec asks for, at its place and,
\* in lists, in its order: nothing is lost, moved or made up by nesting,
\* flattening and defaults (reconcile.go:363-448, 964-986), and no reference goes
\* unresolved.
ConfigFaithful ==
  AtStep("MapSpec") => Leaves(Configured) = Wanted(Block, "test1", spec)

\* Every attribute that values give, however deep.
RECURSIVE Given(_, _)
Given(b, values) ==
  {<<b.attributes[n], values[n]>> : n \in DOMAIN b.attributes \cap DOMAIN values} \cup
  UNION {UNION {Given(b.blocks[n].block, o) : o \in Items(values[n])} :
           n \in DOMAIN b.blocks \cap DOMAIN values}

\* An attribute's value and what that is made of, each with its type; values of
\* objects are not looked into.
RECURSIVE Typed(_, _, _)
Typed(t, v, computed) ==
  {[type |-> t, value |-> v, computed |-> computed]} \cup
  IF "elem" \in DOMAIN t THEN UNION {Typed(t.elem, w, computed) : w \in Members(v)} ELSE {}

\* What JSON calls the values of the types that the mapping of a spec knows.
JsonOf == [string |-> "str", bool |-> "bool", list |-> "arr", set |-> "arr", map |-> "obj"]

\* Which nested blocks are given, and in them.
RECURSIVE Shape(_, _)
Shape(b, values) ==
  [n \in {m \in DOMAIN b.blocks \cap DOMAIN values : ~DroppedBlock(b.blocks[m])} |->
     {Shape(b.blocks[n].block, o) : o \in Items(values[n])}]

\* A block without members, an empty array of blocks, or items that do not all
\* have the same nested blocks.
RECURSIVE BadBlocks(_, _)
BadBlocks(b, values) ==
  \E n \in DOMAIN b.blocks \cap DOMAIN values :
    LET nb == b.blocks[n]  items == Items(values[n])
    IN \/ items # {} /\ EmptyValue(nb.block) = <<>>
       \/ ~DroppedBlock(nb) /\ Cardinality({Shape(nb.block, o) : o \in items}) # 1
       \/ \E o \in items : BadBlocks(nb.block, o)

\* The ways in which mapping a spec may end when it does not succeed.
SpecFlaws ==
  LET given == UNION {Typed(g[1].type, g[2], g[1].computed) : g \in Given(Block, spec)}
      refs  == {g.value : g \in {h \in given : IsReference(h.value) /\ h.type = String}}
      alien == {g \in given : g.type.type \notin DOMAIN JsonOf}
      odd   == {g \in given \ alien : g.computed /\ ~Is(JsonOf[g.type.type], g.value)}
  IN (IF alien \cup odd # {} THEN {"error"} ELSE {}) \cup
     (IF \E v \in refs : ~Pending(v) /\ ~Resolved(v) THEN {"error"} ELSE {}) \cup
     (IF \E v \in refs : Pending(v) THEN {"wait"} ELSE {}) \cup
     (IF \E g \in given : "elem" \in DOMAIN g.type /\ Members(g.value) = {}
      THEN {"panic"} ELSE {}) \cup
     (IF BadBlocks(Block, spec) THEN {"panic"} ELSE {})

\* A spec the API server admits is mapped, but for these flaws: a number or an
\* object, alone or in a collection, which the schema promises and the mapping
\* does not handle; a value of the wrong kind for what the provider computes or
\* the schema skips; a reference that is broken or pending; an empty list, set or
\* map, a block without members, or array items with different nested blocks,
\* all of which take the process down (create.go:99-161 against
\* reconcile.go:363-572).
SpecMappedUnlessFlawed ==
  phase = "MapSpec" => result \in IF SpecFlaws = {} THEN {"ok"} ELSE SpecFlaws

Zero(t) ==
  CASE t = String -> {[str |-> ""]} [] t = Number -> {[num |-> 0]}
    [] t = Bool -> {[bool |-> FALSE]} [] OTHER -> {}

\* The one object that a value of a nested block stands for, if it is there.
TheObject(v) ==
  IF Is("obj", v) THEN {v.obj}
  ELSE IF Cardinality(Members(v)) = 1 THEN {w.obj : w \in Members(v)} ELSE {}

\* The scalars in a value that are in no map and in no object.
RECURSIVE Exposed(_)
Exposed(v) ==
  CASE Is("list", v) \/ Is("set", v) -> UNION {Exposed(w) : w \in Members(v)}
    [] Is("null", v) \/ Is("map", v) \/ Is("obj", v) -> {}
    [] OTHER -> {v}

\* The scalars of a state that the walk over the schema reaches, of the blocks
\* that are one object.
RECURSIVE Reachable(_, _)
Reachable(b, o) ==
  UNION {{<< <<n>>, z >> : z \in IF Is("null", o[n]) THEN Zero(b.attributes[n].type)
                                 ELSE Exposed(o[n])} : n \in DOMAIN b.attributes} \cup
  UNION {UNION {Under(<<n>>, Reachable(b.blocks[n].block, p)) : p \in TheObject(o[n])} :
           n \in {m \in DOMAIN b.blocks :
                    isTerraformNestedBlockAOpenAPIObjectProperty(b.blocks[m])}}

InTheClear(l) == <<l[1], IF Is("enc", l[2]) THEN [str |-> l[2].enc] ELSE l[2]>>

Reported == {l \in Leaves([obj |-> status]) : l[1][1] # "_tfoperator"}

\* A status that is reported says what the state says and no more: whatever an
\* earlier spec left in it is gone, and no scalar within reach is missing
\* (reconcile.go:720-926, 988-1017).
StatusTruthful ==
  AtStep("Report") => {InTheClear(l) : l \in Reported} = Reachable(Block, state.obj)

RECURSIVE SensitiveAt(_, _)
SensitiveAt(b, path) ==
  \/ path[1] \in DOMAIN b.attributes /\ b.attributes[path[1]].sensitive
  \/ path[1] \in DOMAIN b.blocks /\ SensitiveAt(b.blocks[path[1]].block, Tail(path))

RECURSIVE NamesInBlock(_)
NamesInBlock(b) ==
  DOMAIN b.attributes \cup DOMAIN b.blocks \cup
  UNION {NamesInBlock(b.blocks[n].block) : n \in DOMAIN b.blocks}

\* Something inside another of these blocks has the name of this one.
Mistakable(b, n) == \E m \in DOMAIN b.blocks \ {n} : n \in NamesInBlock(b.blocks[m].block)

RECURSIVE ThroughMistakable(_, _)
ThroughMistakable(b, path) ==
  /\ path[1] \in DOMAIN b.blocks
  /\ Mistakable(b, path[1]) \/ ThroughMistakable(b.blocks[path[1]].block, Tail(path))

\* With an encryption key the sensitive strings of a status, alone or in a list,
\* are encrypted, and no others are (reconcile.go:735-758).  Two kinds of secrets
\* are not covered, for the code leaves them in the clear: a Boolean or a number
\* (reconcile.go:760-785), and a string in a block that may be taken for another
\* of the same name, whose sensitivity it then has (reconcile.go:673-690).
SensitiveEncrypted ==
  \A l \in Reported :
    /\ ~ThroughMistakable(Block, l[1])
    /\ (Is("str", l[2]) /\ l[2].str # "") \/ Is("enc", l[2])
    => (Is("enc", l[2]) <=> cipher /\ SensitiveAt(Block, l[1]))

\* Names that are looked up with no block to look in: members of maps and of
\* objects, and of the items of an array of blocks.
RECURSIVE Blockless(_, _)
Blockless(b, o) ==
  UNION {NamesIn(o[n]) : n \in DOMAIN b.attributes} \cup
  UNION {IF isTerraformNestedBlockAOpenAPIObjectProperty(b.blocks[n])
         THEN UNION {Blockless(b.blocks[n].block, p) : p \in TheObject(o[n])}
         ELSE NamesIn(o[n]) : n \in DOMAIN b.blocks}

Named(n) == walkOpenAPISchemaProperties(Crd, n)

\* A name that the schema uses for properties of different types.
Ambiguous(n) == Cardinality({p.type : p \in Named(n)}) > 1

\* A kind with an array of map blocks, or with blocks that may be taken for
\* others of the same name.
RECURSIVE HasOddBlock(_)
HasOddBlock(b) ==
  \E n \in DOMAIN b.blocks :
    DroppedBlock(b.blocks[n]) \/ Mistakable(b, n) \/ HasOddBlock(b.blocks[n].block)

RequiredBlocks(b) == {n \in DOMAIN b.blocks : isTerraformBlockRequired(b.blocks[n])}

\* A block that is not in the state, as a status reports it: as an empty object
\* where it is a collection of at most one, and else not at all.
ReportedEmpty(nb, v) ==
  /\ isTerraformNestedBlockAOpenAPIObjectProperty(nb)
  /\ ~Is("null", v) /\ TheObject(v) = {}
Unreported(nb, v) == Members(v) = {} /\ ~ReportedEmpty(nb, v)

\* A block that is one object and requires another, which is not reported in it.
RECURSIVE LacksBlock(_, _)
LacksBlock(b, o) ==
  \E n \in DOMAIN b.blocks :
    LET nb == b.blocks[n]
    IN \/ ReportedEmpty(nb, o[n]) /\ RequiredBlocks(nb.block) # {}
       \/ /\ isTerraformNestedBlockAOpenAPIObjectProperty(nb)
          /\ \E p \in TheObject(o[n]) :
               \/ \E m \in RequiredBlocks(nb.block) : Unreported(nb.block.blocks[m], p[m])
               \/ LacksBlock(nb.block, p)


\* Saving the state of what has been applied succeeds: "If this state is lost
\* then the object needs to be imported, so avoid that as far as possible"
\* (reconcile.go:150).
StateSaved == phase = "SaveState" => result = "ok"

=============================================================================
