---------------------------- MODULE SchemaMapping ----------------------------
(***************************************************************************)
(* From the schema of a Terraform resource type to the OpenAPI schema of   *)
(* its custom resource definition: what the provider computes goes into    *)
(* the status, everything else into the spec, nested blocks into both.     *)
(*                                                                         *)
(* A cty type is a record with its kind under "type".  A block has         *)
(*   attributes : name -> [type, required, computed, sensitive]            *)
(*   blocks     : name -> [nesting, min, max, block]                       *)
(* What the code visits in map order has no order here: the outcome lists  *)
(* every failure it may run into first.                                    *)
(***************************************************************************)
EXTENDS Naturals, Sequences, FiniteSets, TLC

String      == [type |-> "string"]
Bool        == [type |-> "bool"]
Number      == [type |-> "number"]
Dynamic     == [type |-> "dynamic"]
ListOf(t)   == [type |-> "list", elem |-> t]
SetOf(t)    == [type |-> "set", elem |-> t]
MapOf(t)    == [type |-> "map", elem |-> t]
ObjectOf(f) == [type |-> "object", attrs |-> f]

\* An OpenAPI schema; items and additional hold at most one schema.
Schema(type) ==
  [type |-> type, properties |-> <<>>, required |-> {}, items |-> {},
   additional |-> {}]

ArrayOf(items) == [Schema("array") EXCEPT !.items = items]

\* The schema of a type, none for an empty object, and how deriving it fails.
Found(s) == [fails |-> {}, schema |-> {s}]
Skipped  == [fails |-> {}, schema |-> {}]

\* The schemas that a function from names to optional schemas defines.
Defined(f) ==
  [n \in {m \in DOMAIN f : f[m] # {}} |-> CHOOSE s \in f[n] : TRUE]

RECURSIVE getOpenAPISchemaFromTerraformType(_)

\* Mutant: a Boolean is described as a string.
BoolAsString(t) ==
  CASE t.type \in {"string", "bool"} -> Found(Schema("string"))
    [] t.type = "number" -> Found(Schema("number"))
    [] t.type \in {"list", "set", "map"} ->
         LET of == getOpenAPISchemaFromTerraformType(t.elem)
         IN [of EXCEPT !.schema = {IF t.type = "map"
                                   THEN [Schema("object") EXCEPT !.additional = @]
                                   ELSE ArrayOf(of.schema)}]
    [] t.type = "object" -> Skipped
    [] OTHER -> [fails |-> {"error"}, schema |-> {}]

\* The schema of a member that is itself an empty object is nil, and is
\* dereferenced.
getOpenAPISchemaFromTerraformType(t) ==
  CASE t.type = "string" -> Found(Schema("string"))
    [] t.type = "bool"   -> Found(Schema("boolean"))
    [] t.type = "number" -> Found(Schema("number"))
    [] t.type \in {"list", "set"} ->
         LET of == getOpenAPISchemaFromTerraformType(t.elem)
         IN [of EXCEPT !.schema = {ArrayOf(@)}]
    [] t.type = "map" ->
         LET of == getOpenAPISchemaFromTerraformType(t.elem)
         IN [of EXCEPT !.schema = {[Schema("object") EXCEPT !.additional = of.schema]}]
    [] t.type = "object" /\ DOMAIN t.attrs = {} -> Skipped
    [] t.type = "object" /\ DOMAIN t.attrs # {} ->
         LET of == [a \in DOMAIN t.attrs |->
                      getOpenAPISchemaFromTerraformType(t.attrs[a])]
         IN [fails  |-> UNION {of[a].fails : a \in DOMAIN of} \cup
                        {"panic" : a \in {b \in DOMAIN of : of[b] = Skipped}},
             schema |-> {[Schema("object") EXCEPT !.properties =
                            Defined([a \in DOMAIN of |-> of[a].schema])]}]
    [] OTHER -> [fails |-> {"error"}, schema |-> {}]

-----------------------------------------------------------------------------
(* Blocks.                                                                 *)

\* Is the block one object in the OpenAPI schema, rather than an array?
isTerraformNestedBlockAOpenAPIObjectProperty(nb) ==
  nb.nesting \in {"group", "single"} \/ (nb.max = 1 /\ nb.min <= 1)

isTerraformBlockRequired(nb) == nb.min >= 1

RECURSIVE mapTerraformBlockToOpenAPISchema(_)

\* The status and the spec half of a block's schema.
mapTerraformBlockToOpenAPISchema(b) ==
  LET attr   == [n \in DOMAIN b.attributes |->
                   getOpenAPISchemaFromTerraformType(b.attributes[n].type)]
      nested == [n \in DOMAIN b.blocks |->
                   mapTerraformBlockToOpenAPISchema(b.blocks[n].block)]
      Half(half, names) ==
        [Schema("object") EXCEPT
           !.properties =
              Defined([n \in names |-> attr[n].schema]) @@
              [n \in DOMAIN nested |->
                 IF isTerraformNestedBlockAOpenAPIObjectProperty(b.blocks[n])
                 THEN nested[n][half] ELSE ArrayOf({nested[n][half]})],
           !.required =
              {n \in names : b.attributes[n].required} \cup
              {n \in DOMAIN nested : isTerraformBlockRequired(b.blocks[n])}]
      computed == {n \in DOMAIN attr : b.attributes[n].computed}
  IN [fails  |-> UNION {attr[n].fails : n \in DOMAIN attr} \cup
                 UNION {nested[n].fails : n \in DOMAIN nested},
      status |-> Half("status", computed),
      spec   |-> Half("spec", DOMAIN attr \ computed)]

\* The bridge's own part of the status.
tfoperator ==
  [Schema("object") EXCEPT !.properties =
     [p \in {"provisioningState", "tfState", "lastAppliedGeneration",
             "providerName", "providerVersion", "providerChecksumSHA256"} |->
        Schema("string")]]

\* The schema of a custom resource.  A status without any property has a nil map
\* for them, and the bridge's own part is written into it.
createK8sCRD(b) ==
  LET halves == mapTerraformBlockToOpenAPISchema(b)
      status == [halves.status EXCEPT !.properties = @ @@ ("_tfoperator" :> tfoperator)]
  IN [fails  |-> IF halves.fails = {} /\ halves.status.properties = <<>>
                 THEN {"panic"} ELSE halves.fails,
      schema |-> [Schema("object") EXCEPT !.properties =
                    [spec |-> halves.spec, status |-> status]]]

-----------------------------------------------------------------------------
(* JSON values, tagged with their kind: [str |-> s], [bool |-> b],         *)
(* [num |-> n], [arr |-> seq], [obj |-> f] and Null; [enc |-> s] is the    *)
(* string that s is encrypted to, [int |-> n] a number in Go's type int.   *)

Null == [null |-> "value"]

Is(kind, v) == kind \in DOMAIN v

RECURSIVE Admits(_, _)

\* The API server's validation.  Fields the schema does not know pass.
Admits(s, v) ==
  CASE s.type = "string"  -> Is("str", v) \/ Is("enc", v)
    [] s.type = "boolean" -> Is("bool", v)
    [] s.type = "number"  -> Is("num", v)
    [] s.type = "array"   -> /\ Is("arr", v)
                             /\ \A i \in DOMAIN v.arr, t \in s.items : Admits(t, v.arr[i])
    [] s.type = "object"  ->
         /\ Is("obj", v)
         /\ s.required \subseteq DOMAIN v.obj
         /\ \A p \in DOMAIN s.properties \cap DOMAIN v.obj :
              Admits(s.properties[p], v.obj[p])
         /\ \A p \in DOMAIN v.obj, t \in s.additional : Admits(t, v.obj[p])

=============================================================================
