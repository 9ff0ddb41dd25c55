---------------------------- MODULE MCTranslation ----------------------------
(* A catalogue of resource types for model checking Translation.           *)
EXTENDS Translation

Optional(t)  == [type |-> t, required |-> FALSE, computed |-> FALSE, sensitive |-> FALSE]
Required(t)  == [Optional(t) EXCEPT !.required = TRUE]
Output(t)    == [Optional(t) EXCEPT !.computed = TRUE]
Secret(t)    == [Optional(t) EXCEPT !.sensitive = TRUE]

BlockWith(attributes, blocks) == [attributes |-> attributes, blocks |-> blocks]
Nest(nesting, min, max, b)   == [nesting |-> nesting, min |-> min, max |-> max, block |-> b]

\* A resource type has an ID whatever else it has.
Type(attributes, blocks) == BlockWith(attributes @@ [id |-> Output(String)], blocks)
NoBlocks     == <<>>
NoAttributes == <<>>

Identity == BlockWith([type |-> Required(String), principal |-> Output(String)], NoBlocks)
Leaf     == BlockWith([port |-> Optional(String)], NoBlocks)

Catalogue ==
  [plain   |-> Type([name |-> Required(String), enabled |-> Optional(Bool)], NoBlocks),
   secret  |-> Type([password |-> Secret(String),
                     keys |-> [Output(ListOf(String)) EXCEPT !.sensitive = TRUE]], NoBlocks),
   sized   |-> Type([size |-> Optional(Number)], NoBlocks),
   counted |-> Type([count |-> Output(Number)], NoBlocks),
   lists   |-> Type([zones |-> Optional(ListOf(String)), nets |-> Optional(SetOf(String))],
                    NoBlocks),
   tagged  |-> Type([name |-> Optional(String), tags |-> Optional(MapOf(String))], NoBlocks),
   coded   |-> Type([pin |-> [Output(Number) EXCEPT !.sensitive = TRUE],
                     shared |-> [Output(Bool) EXCEPT !.sensitive = TRUE]], NoBlocks),
   boxed   |-> Type([box |-> Optional(ObjectOf([host |-> String])),
                     boxes |-> Optional(ListOf(ObjectOf([host |-> String])))], NoBlocks),
   nodes   |-> Type([nodes |-> Output(ListOf(ObjectOf([host |-> String])))], NoBlocks),
   object  |-> Type([profile |-> Output(ObjectOf([host |-> String]))], NoBlocks),
   empty   |-> Type([options |-> Optional(ObjectOf(<<>>))], NoBlocks),
   single  |-> Type([name |-> Optional(String)],
                    [identity |-> Nest("single", 0, 0, Identity),
                     site |-> Nest("group", 0, 0, Leaf)]),
   listOne |-> Type([name |-> Optional(String)],
                    [identity |-> Nest("list", 0, 1, Identity),
                     site |-> Nest("set", 0, 1, Leaf)]),
   needed  |-> Type([name |-> Optional(String)],
                    [site |-> Nest("list", 1, 1, Leaf)]),
   rules   |-> Type(NoAttributes,
                    [rule |-> Nest("list", 0, 0,
                       BlockWith([port |-> Optional(String)],
                                [match |-> Nest("single", 0, 0, Leaf)]))]),
   named   |-> Type([name |-> Optional(String)],
                    [rule |-> Nest("set", 0, 2,
                       BlockWith([name |-> Optional(String)], NoBlocks))]),
   maps    |-> Type([name |-> Optional(String)],
                    [site |-> Nest("map", 0, 1, Leaf)]),
   dropped |-> Type([name |-> Optional(String)], [rule |-> Nest("map", 0, 0, Leaf)]),
   homonym |-> Type([port |-> Optional(Bool)], [site |-> Nest("list", 0, 1, Leaf)]),
   twice   |-> Type(NoAttributes,
                    [outer |-> Nest("single", 0, 0,
                       BlockWith(NoAttributes, [inner |-> Nest("list", 0, 1, Leaf)])),
                     inner |-> Nest("list", 0, 0, Leaf)]),
   backup  |-> Type([name |-> Optional(String)],
                    [backup |-> Nest("list", 0, 1,
                       BlockWith([port |-> Optional(String)],
                                [schedule |-> Nest("list", 1, 1, Leaf)]))]),
   slots   |-> Type([name |-> Optional(String)],
                    [timing |-> Nest("group", 0, 0,
                       BlockWith(NoAttributes, [slot |-> Nest("list", 1, 0, Leaf)]))]),
   alike   |-> Type([name |-> Optional(String)],
                    [auth |-> Nest("single", 0, 0,
                       BlockWith([token |-> Secret(String)], NoBlocks)),
                     other |-> Nest("single", 0, 0,
                       BlockWith(NoAttributes, [auth |-> Nest("single", 0, 0,
                                          BlockWith([token |-> Optional(String)], NoBlocks))]))]),
   state   |-> Type([status |-> Output(String)], NoBlocks),
   shown   |-> Type([display_name |-> Optional(String)], [site |-> Nest("list", 0, 1, Leaf)]),
   none    |-> Type([name |-> Optional(String)],
                    [none |-> Nest("list", 0, 1, BlockWith(NoAttributes, NoBlocks))]),
   settled |-> BlockWith([name |-> Required(String)], NoBlocks),
   dynamic |-> Type([any |-> Optional(Dynamic)], NoBlocks),
   hollow  |-> Type([options |-> Optional(ObjectOf([inner |-> ObjectOf(<<>>)]))], NoBlocks)]

SomeKinds == DOMAIN Catalogue \cup {"referring"}

SomeBlocks ==
  [k \in SomeKinds |->
     IF k = "referring"
     THEN Type([group |-> Required(String), others |-> Optional(ListOf(String))], NoBlocks)
     ELSE Catalogue[k]]

Ref(parts, object, property) == [parts |-> parts, object |-> object, property |-> property]

SomeReferences ==
  ("ref there"       :> Ref(6, "Created", {[str |-> "group1"]})) @@
  ("ref odd"         :> Ref(6, "Created", {[num |-> 1]})) @@
  ("ref unset"       :> Ref(6, "Created", {})) @@
  ("ref provisioning" :> Ref(6, "provisioning", {[str |-> "group1"]})) @@
  ("ref absent"      :> Ref(6, "absent", {})) @@
  ("ref unreachable" :> Ref(6, "unreachable", {})) @@
  ("ref short"       :> Ref(5, "absent", {}))

-----------------------------------------------------------------------------
\* Values an OpenAPI schema admits with these strings: arrays of up to two items,
\* maps of up to one member, objects with any of their optional properties.  Two
\* items of an array may differ.
RECURSIVE Samples(_, _)
Samples(s, strings) ==
  CASE s.type = "string"  -> {[str |-> x] : x \in strings}
    [] s.type = "boolean" -> {[bool |-> TRUE]}
    [] s.type = "number"  -> {[num |-> 1]}
    [] s.type = "array"   ->
         LET items == UNION {Samples(i, {"x", "y"}) : i \in s.items}
         IN {[arr |-> seq] : seq \in {<<>>} \cup {<<i>> : i \in items} \cup
                                     {<<i, j>> : i \in items, j \in items}}
    [] s.type = "object" /\ s.additional # {} ->
         {EmptyObjectVal} \cup
         {[obj |-> k :> v] : k \in {"name", "other"}, v \in UNION {Samples(t, strings) : t \in s.additional}}
    [] OTHER ->
         LET of == [p \in DOMAIN s.properties |-> Samples(s.properties[p], strings)]
         IN {[obj |-> f] :
               f \in UNION {{g \in [P -> UNION {of[p] : p \in P}] : \A p \in P : g[p] \in of[p]} :
                              P \in {Q \in SUBSET DOMAIN s.properties : s.required \subseteq Q}}}

\* Strings that are references; names that nothing has, that the schema skips, or
\* that are for the provider to compute.
Referring ==
  {[group |-> [str |-> g]] : g \in DOMAIN SomeReferences} \cup
  {[group |-> [str |-> "x"], others |-> [arr |-> <<[str |-> g], [str |-> h]>>]] :
     g \in {"ref there", "ref absent"}, h \in {"ref there", "ref short"}}

Unknown ==
  [plain |-> {[name |-> [str |-> "x"], extra |-> [str |-> "x"]],
              [name |-> [str |-> "y"], id |-> [str |-> "x"]],
              [name |-> [str |-> "y"], id |-> [bool |-> TRUE]]},
   empty |-> {[options |-> EmptyObjectVal]}]

SomeSpecs ==
  [k \in SomeKinds |->
     LET made == createK8sCRD(SomeBlocks[k])
     IN IF made.fails # {} THEN {}
        ELSE IF k = "referring" THEN Referring
        ELSE {v.obj : v \in Samples(made.schema.properties["spec"], {"x"})} \cup
             UNION {Unknown[u] : u \in DOMAIN Unknown \cap {k}}]

=============================================================================
