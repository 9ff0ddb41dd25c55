---------------------------- MODULE ValueMapping ----------------------------
(***************************************************************************)
(* The reconciler's two translations of values: from the spec of a custom  *)
(* resource to the configuration it hands to Terraform, and from the state *)
(* Terraform returns to the status of the custom resource.                 *)
(*                                                                         *)
(* cty values share the tags of JSON for what both have, [str |-> s],      *)
(* [bool |-> b], [num |-> n], [obj |-> f]; the others are [null |-> type], *)
(* [list |-> seq, of |-> type], [set |-> S, of |-> type] and               *)
(* [map |-> f, of |-> type].                                               *)
(*                                                                         *)
(* An operation yields the set of its possible results, [ok |-> v] or      *)
(* [fail |-> kind], where the kind is "error", "panic", or "wait" for a    *)
(* reference that cannot be resolved yet.  There is more than one because  *)
(* Go visits the members of a map in any order.                            *)
(***************************************************************************)
EXTENDS SchemaMapping, FiniteSetsExt, SequencesExt

CONSTANT References  \* string -> [parts, object, property]; see below

Ok(v)      == {[ok |-> v]}
Fail(kind) == {[fail |-> kind]}
Oks(rs)    == {r.ok : r \in {x \in rs : Is("ok", x)}}
Failing(rs) == {r \in rs : Is("fail", r)}

Then(rs, Op(_)) == Failing(rs) \cup UNION {Op(v) : v \in Oks(rs)}

\* Every way to pick a result for each member of fs.
Picks(fs) ==
  FoldSet(LAMBDA k, gs : {g @@ (k :> v) : g \in gs, v \in Oks(fs[k])},
          {<<>>}, DOMAIN fs)

\* All members of a map; the first failure that is met ends it.
InAnyOrder(fs) ==
  UNION {Failing(fs[k]) : k \in DOMAIN fs} \cup {[ok |-> g] : g \in Picks(fs)}

\* The elements of a sequence; a failure is met when none before it fails.
InOrder(fs) ==
  UNION {Failing(fs[i]) : i \in {j \in DOMAIN fs : \A k \in 1..(j - 1) : Oks(fs[k]) # {}}}
    \cup {[ok |-> g] : g \in Picks(fs)}

-----------------------------------------------------------------------------
(* cty: types, empty values and collections.                               *)

RECURSIVE TypeOf(_)
TypeOf(v) ==
  CASE Is("null", v) -> v.null
    [] Is("str", v)  -> String
    [] Is("bool", v) -> Bool
    [] Is("num", v)  -> Number
    [] Is("list", v) -> ListOf(v.of)
    [] Is("set", v)  -> SetOf(v.of)
    [] Is("map", v)  -> MapOf(v.of)
    [] Is("obj", v)  -> ObjectOf([a \in DOMAIN v.obj |-> TypeOf(v.obj[a])])

\* ListVal, SetVal and MapVal panic without elements, or when types differ.
Uniform(vs) == Cardinality({TypeOf(v) : v \in vs}) = 1
ElementType(vs) == TypeOf(CHOOSE v \in vs : TRUE)

ListVal(seq) ==
  LET vs == {seq[i] : i \in DOMAIN seq}
  IN IF Uniform(vs) THEN Ok([list |-> seq, of |-> ElementType(vs)]) ELSE Fail("panic")
SetVal(seq) ==
  LET vs == {seq[i] : i \in DOMAIN seq}
  IN IF Uniform(vs) THEN Ok([set |-> vs, of |-> ElementType(vs)]) ELSE Fail("panic")
MapVal(f) ==
  LET vs == {f[k] : k \in DOMAIN f}
  IN IF Uniform(vs) THEN Ok([map |-> f, of |-> ElementType(vs)]) ELSE Fail("panic")

EmptyObjectVal == [obj |-> <<>>]

\* The type of a block's values.
RECURSIVE ImpliedType(_)
ImpliedType(b) ==
  ObjectOf([n \in DOMAIN b.attributes |-> b.attributes[n].type] @@
           [n \in DOMAIN b.blocks |->
              LET t == ImpliedType(b.blocks[n].block)
              IN CASE b.blocks[n].nesting = "list" -> ListOf(t)
                   [] b.blocks[n].nesting = "set"  -> SetOf(t)
                   [] b.blocks[n].nesting = "map"  -> MapOf(t)
                   [] OTHER -> t])

RECURSIVE EmptyValue(_)
EmptyValue(b) ==
  [n \in DOMAIN b.attributes |-> [null |-> b.attributes[n].type]] @@
  [n \in DOMAIN b.blocks |->
     LET nb == b.blocks[n]  t == ImpliedType(nb.block)
     IN CASE nb.nesting = "list"   -> [list |-> <<>>, of |-> t]
          [] nb.nesting = "set"    -> [set |-> {}, of |-> t]
          [] nb.nesting = "map"    -> [map |-> <<>>, of |-> t]
          [] nb.nesting = "group"  -> [obj |-> EmptyValue(nb.block)]
          [] nb.nesting = "single" -> [null |-> t]]

-----------------------------------------------------------------------------
(* From the spec to the configuration.                                     *)

\* A block's empty value, with a display name whether the block has one or
\* not.  The empty value of a block without members is a nil map.
createEmptyTerraformValueForBlock(b, name) ==
  IF EmptyValue(b) = <<>> THEN Fail("panic")
  ELSE Ok(("display_name" :> [str |-> name]) @@ EmptyValue(b))

\* Of a reference, the number of parts between its colons; whether the object it
\* names is "absent", "unreachable", "garbled" (its provisioning state is no
\* string), "provisioning" or "Created"; and the property, if it is there.
getReferencedObjectValue(ref) ==
  LET it == References[ref]
  IN CASE it.parts # 6 -> Fail("error")
       [] it.parts = 6 /\ it.object \in {"unreachable", "garbled"} -> Fail("error")
       [] it.parts = 6 /\ it.object \in {"absent", "provisioning"} -> Fail("wait")
       [] it.parts = 6 /\ it.object = "Created" ->
            IF it.property = {} THEN Fail("wait")
            ELSE UNION {IF Is("str", v) THEN Ok(v) ELSE Fail("error") : v \in it.property}

RECURSIVE getTerraformValueFromInterface(_, _)
getTerraformValueFromInterface(t, value) ==
  LET Each(f) == [k \in DOMAIN f |-> getTerraformValueFromInterface(t.elem, f[k])]
  IN CASE t = String /\ Is("str", value) ->
            IF value.str \in DOMAIN References THEN getReferencedObjectValue(value.str)
            ELSE Ok(value)
       [] t = Bool /\ Is("bool", value) -> Ok(value)
       [] t.type = "map" /\ Is("obj", value) -> Then(InAnyOrder(Each(value.obj)), MapVal)
       [] t.type = "list" /\ Is("arr", value) -> Then(InOrder(Each(value.arr)), ListVal)
       [] t.type = "set" /\ Is("arr", value) -> Then(InOrder(Each(value.arr)), SetVal)
       [] OTHER -> Fail("error")

\* Mutant: a list block is handed over as its only item.
UnflattenSetsOnly(name, v, nb) ==
  CASE nb.nesting = "set" -> SetVal(<<v>>)
    [] nb.nesting = "map" -> MapVal(name :> v)
    [] OTHER -> Ok(v)

unflattenTerraformCollectionValue(name, v, nb) ==
  CASE nb.nesting = "list" -> ListVal(<<v>>)
    [] nb.nesting = "set"  -> SetVal(<<v>>)
    [] nb.nesting = "map"  -> MapVal(name :> v)
    [] OTHER -> Ok(v)

\* Mutant: every item overwrites the one before.
LastItem(items, nb, default) ==
  LET last == IF items = <<>> THEN <<>> ELSE <<items[Len(items)]>>
  IN CASE nb.nesting = "list" -> ListVal(last)
       [] nb.nesting = "set"  -> SetVal(last)
       [] OTHER -> Ok(default)

\* The items of an array block as one value; those of a map block are dropped.
Collected(items, nb, default) ==
  CASE nb.nesting = "list" -> ListVal(items)
    [] nb.nesting = "set"  -> SetVal(items)
    [] OTHER -> Ok(default)

\* Attributes first, then nested blocks.  Names that the block does not know are
\* left out, names that the values do not have keep what config says.
RECURSIVE mapCRDSpecValuesToTerraformConfig(_, _, _)
mapCRDSpecValuesToTerraformConfig(b, config, values) ==
  LET One(n, v) ==
        IF ~Is("obj", v) THEN Fail("panic")
        ELSE Then(createEmptyTerraformValueForBlock(b.blocks[n].block, n),
                  LAMBDA c : mapCRDSpecValuesToTerraformConfig(b.blocks[n].block, c, v.obj))
      Nested(n, v) ==
        IF isTerraformNestedBlockAOpenAPIObjectProperty(b.blocks[n])
        THEN Then(One(n, v),
                  LAMBDA c : unflattenTerraformCollectionValue(n, c, b.blocks[n]))
        ELSE IF ~Is("arr", v) THEN Fail("panic")
        ELSE Then(InOrder([i \in DOMAIN v.arr |-> One(n, v.arr[i])]),
                  LAMBDA cs : Collected(cs, b.blocks[n], config[n]))
      attrs  == [n \in DOMAIN b.attributes \cap DOMAIN values |->
                   getTerraformValueFromInterface(b.attributes[n].type, values[n])]
      blocks == [n \in DOMAIN b.blocks \cap DOMAIN values |-> Nested(n, values[n])]
  IN Then(InAnyOrder(attrs), LAMBDA as :
       Then(InAnyOrder(blocks), LAMBDA bs : Ok([obj |-> bs @@ as @@ config])))

-----------------------------------------------------------------------------
(* From the state to the status.  r is the reconciler: its openAPISchema,  *)
(* and whether it has a cipher.                                            *)

\* A nil slice of Go, which is null in JSON but not nil to the code.
NullArray == [null |-> "array"]
JsonArray(vs) == IF vs = <<>> THEN NullArray ELSE [arr |-> vs]

\* Every property with this name, however deep, in what the walk reaches:
\* properties of properties, not the items of arrays.
RECURSIVE walkOpenAPISchemaProperties(_, _)
walkOpenAPISchemaProperties(s, key) ==
  {s.properties[p] : p \in DOMAIN s.properties \cap {key}} \cup
  UNION {walkOpenAPISchemaProperties(s.properties[p], key) : p \in DOMAIN s.properties}

AnAttribute(a) == [attr |-> {a}, block |-> {}]
ABlock(nb)     == [attr |-> {}, block |-> {nb}]

RECURSIVE getTerraformAttributeOrNestedBlockFromBlock(_, _)

\* What the name may be found to be: an attribute of the block; else, the nested
\* blocks being visited in any order, one of them or something inside another.
getTerraformAttributeOrNestedBlockFromBlock(key, b) ==
  IF key \in DOMAIN b.attributes THEN {AnAttribute(b.attributes[key])}
  ELSE {ABlock(b.blocks[n]) : n \in DOMAIN b.blocks \cap {key}} \cup
       UNION {getTerraformAttributeOrNestedBlockFromBlock(key, b.blocks[n].block) :
                n \in DOMAIN b.blocks \ {key}}

\* Mutant: sensitive values stay as they are.
NeverEncrypted(r, found, v) == v

\* The string as it is reported; encrypting cannot fail here.
encryptAndEncodeString(r, found, v) ==
  IF r.cipher /\ \E a \in found.attr : a.sensitive THEN [enc |-> v.str] ELSE v

OneObject(found) ==
  \E nb \in found.block : isTerraformNestedBlockAOpenAPIObjectProperty(nb)

\* A collection that stands for one object.
Flattened(v, found) ==
  /\ OneObject(found) /\ \A nb \in found.block : nb.nesting \in {"list", "set", "map"}
  /\ Is("list", v) \/ Is("set", v) \/ Is("map", v)

\* Mutant: list blocks are forgotten.
FlattenSetsOnly(v, found) ==
  IF ~Flattened(v, found) THEN {v}
  ELSE IF Is("set", v) /\ Cardinality(v.set) = 1 THEN v.set
  ELSE {EmptyObjectVal}


\* What such a collection becomes: the only element of a list or a set, any of
\* the entries of a map, and else an empty object.
flattenTerraformCollectionValue(v, found) ==
  IF ~Flattened(v, found) THEN {v}
  ELSE CASE Is("list", v) /\ Len(v.list) = 1       -> Range(v.list)
         [] Is("set", v) /\ Cardinality(v.set) = 1 -> v.set
         [] Is("map", v) /\ DOMAIN v.map # {}     -> Range(v.map)
         [] OTHER -> {EmptyObjectVal}

RECURSIVE getCRDValueFromTerraformValue(_, _, _, _)

RECURSIVE getOpenAPIValueFromTerraformValue(_, _, _, _)

\* found says what the value is of; neither for an element of a collection block.
getOpenAPIValueFromTerraformValue(r, v, found, prop) ==
  LET t == TypeOf(v)
      null == Is("null", v)
      collection == t.type \in {"list", "set"} /\ ~OneObject(found)
      As(types, rs) == IF prop.type \in types THEN rs ELSE Fail("error")
      Item(w) ==
        IF prop.items = {} THEN Fail("panic")
        ELSE UNION {getOpenAPIValueFromTerraformValue(
                      r, w, [found EXCEPT !.block = {}], item) : item \in prop.items}
      Items(seq) ==
        Then(InOrder([i \in DOMAIN seq |-> Item(seq[i])]),
             LAMBDA vs : Ok(JsonArray(SelectSeq(vs, LAMBDA w : w # Null))))
      Members(f) ==
        Then(InAnyOrder([k \in DOMAIN f |-> getCRDValueFromTerraformValue(
                           r, k, f[k], {nb.block : nb \in found.block})]),
             LAMBDA g : Ok([obj |-> Restrict(g, {k \in DOMAIN g : g[k] # Null})]))
      AsObject(one) ==
        CASE Is("map", one) -> Members(one.map)
          [] Is("obj", one) -> Members(one.obj)
          [] Is("null", one) /\ t.type = "map"    -> Ok(EmptyObjectVal)
          [] Is("null", one) /\ t.type = "object" -> Ok(Null)
          [] OTHER -> Fail("error")
  IN CASE t = String -> As({"string"},
            Ok(IF null THEN [str |-> ""] ELSE encryptAndEncodeString(r, found, v)))
       [] t = Number -> As({"number"}, Ok(IF null THEN [int |-> 0] ELSE v))
       [] t = Bool   -> As({"boolean", "string"}, Ok(IF null THEN [bool |-> FALSE] ELSE v))
       [] collection -> As({"array"},
            IF null THEN Ok(NullArray)
            ELSE Items(IF Is("list", v) THEN v.list ELSE SetToSeq(v.set)))
       [] OTHER -> As({"object"},
            UNION {AsObject(one) : one \in flattenTerraformCollectionValue(v, found)})

\* Every property of that name is tried; the last one visited counts.  No block
\* to look the name up in is a nil dereference.
getCRDValueFromTerraformValue(r, key, v, block) ==
  LET props == walkOpenAPISchemaProperties(r.openAPISchema, key)
      founds == UNION {getTerraformAttributeOrNestedBlockFromBlock(key, b) : b \in block}
      Try(p) == IF founds = {} THEN Fail("error")
                ELSE UNION {getOpenAPIValueFromTerraformValue(r, v, f, p) : f \in founds}
  IN IF props = {} THEN Ok(Null)
     ELSE IF block = {} THEN Fail("panic")
     ELSE Then(InAnyOrder([p \in props |-> Try(p)]),
               LAMBDA g : UNION {Ok(g[p]) : p \in props})

\* Go's int is a type that copying a status panics for.
RECURSIVE HasInt(_)
HasInt(v) ==
  \/ Is("int", v)
  \/ Is("arr", v) /\ \E i \in DOMAIN v.arr : HasInt(v.arr[i])
  \/ Is("obj", v) /\ \E k \in DOMAIN v.obj : HasInt(v.obj[k])

\* What a merge patch leaves of a value.
RECURSIVE WithoutNulls(_)
WithoutNulls(v) ==
  IF ~Is("obj", v) THEN v
  ELSE [obj |-> [k \in {n \in DOMAIN v.obj : ~Is("null", v.obj[n])} |->
                   WithoutNulls(v.obj[k])]]

\* The status the API server is sent, given what the object's status is.
mapTerraformValuesToCRDStatus(r, b, state, status) ==
  Then(InAnyOrder([k \in DOMAIN state.obj |->
                     getCRDValueFromTerraformValue(r, k, state.obj[k], {b})]),
       LAMBDA g : IF HasInt([obj |-> g]) THEN Fail("panic")
                  ELSE Ok(WithoutNulls([obj |-> g @@ status])))

=============================================================================
