---------------------------- MODULE TypeBindings ----------------------------
(***************************************************************************)
(* StructTypeBuilder and AbiTypeBindingProcessor: the declarations that    *)
(* `contract typegen` makes of the types and messages in a contract's      *)
(* metadata.  A type gets three faces - native, human and codec - that     *)
(* are texts: they name the declarations of other types, which stand in    *)
(* namespaces made of the paths of the types.                              *)
(*                                                                         *)
(* A step is one turn of the builder's loop over the types; then the       *)
(* declarations are put into their namespaces.                             *)
(*                                                                         *)
(* A face is the sequence of its alternatives ("a | b"), a name a sequence *)
(* of parts <<word, whether it ends in a dollar>>.  Fields, variants and   *)
(* parameters are told apart by their place.                               *)
(***************************************************************************)
EXTENDS Naturals, FiniteSets, SequencesExt

CONSTANTS
    Pascal,         \* upperFirst(camelCase(word)), for the words there are
    ContractName,   \* pcContractName
    Metadata        \* the types of contracts

VARIABLES
    types,          \* those of this contract, _definedTypes
    stage,          \* of the process: build, done or thrown
    faces,          \* of the types that are built, _builtTypes
    statements,     \* _typeStatements, in the order of their keys
    tree            \* the namespaces, and the declarations in them

builderVars == <<types, stage, faces, statements, tree>>

Root == [places |-> (<<>> :> <<>>), nodes |-> {}]

BuilderInit ==
    /\ types \in Metadata
    /\ stage = "build"
    /\ faces = <<>>
    /\ statements = <<>>
    /\ tree = Root

-----------------------------------------------------------------------------
(* Names.                                                                  *)

Plain(words) == [i \in DOMAIN words |-> <<words[i], FALSE>>]

Formated(path) == [i \in DOMAIN path |-> <<Pascal[path[i][1]], path[i][2]>>]

\* A crate whose first module is called like itself is named once.
PreparedPath(path) ==
    LET formated == Formated(path) IN
    IF Len(path) > 2 /\ formated[1] = formated[2] THEN Tail(formated) ELSE formated

Facets == {"native", "human", "codec"}
Suffix == [human |-> "Human", codec |-> "Codec", enum |-> "Enum"]

Beside(path, which) ==
    IF which = "native" THEN path
    ELSE Front(path) \o << <<Last(path)[1], TRUE>>, <<Suffix[which], FALSE>> >>

\* fullRefName, and the path the declaration is put at.
FullRef(path, which) == Beside(PreparedPath(path), which)

\* Slip: a declaration is put where its type is, with the crate named twice.
StatementPathOfCrate(path, which) == Formated(Beside(path, which))

StatementPath(path, which) == PreparedPath(Beside(path, which))

StructureName(path, which) ==
    IF which = "native" THEN Last(path) ELSE <<Suffix[which], FALSE>>

-----------------------------------------------------------------------------
(* Faces.                                                                  *)

Lib(module, name) == << <<"lib", module, name>> >>
TS(name) == Lib("", name)
Ref(name) == << <<"ref", name>> >>
Apply(base, args) == IF args = <<>> THEN base ELSE << <<"apply", base, args>> >>
List(face) == << <<"list", face>> >>

\* `${face}[]`: of several alternatives the last one only.
ListOf(face) == Front(face) \o List(<<Last(face)>>)

\* _buildTupleOrDirectUsage and the inner build of type parameters.
Usage(each) == IF Len(each) = 1 THEN each[1] ELSE << <<"tuple", each>> >>

\* _detectBuiltInType: the first pattern of _builtInTypes that matches.
BuiltIn(name) ==
    LET first == name[1][1]  last == Last(name)[1]
        lazy == name = Plain(<<"InkStorage", "Lazy", "Lazy">>)
    IN
    CASE Len(name) = 1 -> IF last \in {"Result", "Option"} THEN last ELSE "single"
      [] Len(name) > 1 /\ first = "PrimitiveTypes" -> "hash"
      [] Len(name) > 2 /\ first = "InkPrimitives" /\ name[2] = <<"Types", FALSE>> -> "hash"
      [] lazy -> "Lazy"
      [] Len(name) > 1 /\ first \in {"InkStorage", "InkStorageTraits"} /\ ~lazy -> "any"
      [] OTHER -> "none"

\* How many parameters of a composite such a type takes.
Params == [Result |-> 2, Option |-> 1, Lazy |-> 2, single |-> 0, hash |-> 0, any |-> 0]

DPT == [native |-> "DPT", human |-> "DPT Human", codec |-> "DPT Codec"]

BuiltInFaces(name) ==
    LET last == Last(name)[1] IN
    CASE BuiltIn(name) = "hash" -> [native |-> TS("string") \o List(TS("number")),
                                    human |-> TS("string"), codec |-> Lib("PTI", last)]
      [] BuiltIn(name) = "single" -> [native |-> TS("any"), human |-> TS("any"),
                                      codec |-> Lib("PT", last)]
      [] BuiltIn(name) = "any" -> [f \in Facets |-> TS("any")]
      [] BuiltIn(name) = "Lazy" -> [f \in Facets |-> Lib(DPT["native"], last)]
      [] OTHER -> [f \in Facets |-> Lib(DPT[f], last)]

Primitive(p) ==
    LET ts == CASE p = "bool" -> "boolean" [] p = "str" -> "string" [] OTHER -> "number" IN
    [native |-> TS(ts), human |-> TS(ts), codec |-> Lib("PT", p)]

-----------------------------------------------------------------------------
(* _buildType.                                                             *)

\* The types a type is built from, in the order the builder meets them.
Parts(type) ==
    CASE type.kind \in {"array", "sequence"} -> <<type.of>>
      [] type.kind = "tuple" -> type.of
      [] type.kind = "composite" -> type.fields \o type.params
      [] type.kind = "variant" -> FlattenSeq(type.variants)
      [] OTHER -> <<>>

RECURSIVE Within(_)
Within(ids) ==
    LET more == ids \cup UNION {ToSet(Parts(types[id])) : id \in ids} IN
    IF more = ids THEN ids ELSE Within(more)

IsDeclared(type) ==
    type.kind \in {"composite", "variant"} /\ BuiltIn(PreparedPath(type.path)) = "none"

\* What ends the build with an exception: a kind or primitive it does not
\* know, a type that contains itself (the recursion does not end), a composite
\* with parameters or without fields, one whose fields have no names.
Refused(id) ==
    LET type == types[id] IN
    \/ type.kind = "unknown"
    \/ id \in Within(ToSet(Parts(type)))
    \/ /\ type.kind = "composite" /\ IsDeclared(type)
       /\ type.params # <<>> \/ type.fields = <<>> \/ ~type.named

\* The variants that have values.
Valued(type) == SelectSeq(type.variants, LAMBDA fields : fields # <<>>)

\* One type, of which the parts are built.
Build(type, built) ==
    LET Face(i, f) == built[i][f]
        All(ids, f) == [i \in DOMAIN ids |-> built[ids[i]][f]]
    IN
    CASE type.kind = "primitive" -> Primitive(type.primitive)
      [] type.kind = "array" ->
            [f \in Facets |-> IF f = "codec" THEN Apply(Lib("PT", "VecFixed"), All(<<type.of>>, f))
                              ELSE ListOf(Face(type.of, "native"))]
      [] type.kind = "sequence" ->
            [f \in Facets |->
                IF f = "codec" THEN Apply(Lib("PT", "Vec"), All(<<type.of>>, f))
                ELSE ListOf(Face(type.of, "native")) \o
                     (IF Face(type.of, "native") = TS("number") THEN TS("string") ELSE <<>>)]
      [] type.kind = "tuple" -> [f \in Facets |-> << <<"tuple", All(type.of, f)>> >>]
      [] IsDeclared(type) -> [f \in Facets |-> Ref(FullRef(type.path, f))]
      [] OTHER ->
            LET name == PreparedPath(type.path)
                taken == Params[BuiltIn(name)]
                args(f) ==
                    IF type.kind = "composite"
                    THEN All(SubSeq(type.params, 1, Min({taken, Len(type.params)})), f)
                    ELSE [v \in DOMAIN Valued(type) |-> Usage(All(Valued(type)[v], f))]
            IN [f \in Facets |-> Apply(BuiltInFaces(name)[f], args(f))]

-----------------------------------------------------------------------------
(* _typeStatements.                                                        *)

\* The bodies of declarations.
Interface(type, built, f) ==
    <<"fields", [i \in DOMAIN type.fields |-> built[type.fields[i]][f]],
      IF f = "codec" THEN {FullRef(type.path, "native"), FullRef(type.path, "human")} ELSE {} >>

\* A variant without values is null, no alternative of Human, or a Codec.
VariantUsages(type, built, f) ==
    [v \in DOMAIN type.variants |->
        LET fields == type.variants[v] IN
        IF fields = <<>> THEN TS("unit")
        ELSE Usage([i \in DOMAIN fields |-> built[fields[i]][f]])]

Variants(type, built, which) ==
    CASE type.variants = <<>> -> <<"alias", TS("any")>>
      [] type.variants # <<>> /\ which = "enum" -> <<"members", Len(type.variants)>>
      [] type.variants # <<>> /\ which = "human" ->
            <<"either", VariantUsages(type, built, "human"),
              IF Contains(type.variants, <<>>) THEN {FullRef(type.path, "enum")} ELSE {} >>
      [] type.variants # <<>> /\ which = "native" ->
            <<"options", VariantUsages(type, built, "native"), {}>>
      [] type.variants # <<>> /\ which = "codec" ->
            <<"inner", ToSet(VariantUsages(type, built, "codec")),
              {<<Last(FullRef(type.path, "enum"))>>, <<Last(FullRef(type.path, "human"))>>, <<Last(type.path)>>}>>

\* The statements of a type, in the order they are stored.
StatementsOf(type, built) ==
    LET Statement(which) ==
            [ref |-> FullRef(type.path, which), path |-> StatementPath(type.path, which),
             name |-> StructureName(type.path, which),
             body |-> IF type.kind = "composite" THEN Interface(type, built, which)
                                                 ELSE Variants(type, built, which)]
    IN
    CASE ~IsDeclared(type) -> <<>>
      [] IsDeclared(type) /\ type.kind = "composite" ->
            <<Statement("native"), Statement("human"), Statement("codec")>>
      [] IsDeclared(type) /\ type.kind = "variant" ->
            <<Statement("native"), Statement("enum"), Statement("human"), Statement("codec")>>

\* An entry is stored under its reference; a later one takes the place of an
\* earlier one.
Store(entries, new) ==
    IF \E i \in DOMAIN entries : entries[i].ref = new.ref
    THEN [i \in DOMAIN entries |-> IF entries[i].ref = new.ref THEN new ELSE entries[i]]
    ELSE Append(entries, new)

-----------------------------------------------------------------------------
(* build: its loop over the types.                                         *)

\* What is built once a type is, its parts first.
RECURSIVE BuildType(_, _)
BuildType(sofar, id) ==
    LET inner == FoldLeft(BuildType, sofar, Parts(types[id])) IN
    IF id \in DOMAIN sofar.faces THEN sofar
    ELSE [faces |-> inner.faces @@ (id :> Build(types[id], inner.faces)),
          statements |-> FoldLeft(Store, inner.statements, StatementsOf(types[id], inner.faces))]

\* The type whose turn it is.
IsNext(id) ==
    /\ stage = "build"
    /\ id \in DOMAIN types \ DOMAIN faces
    /\ \A i \in DOMAIN types : i < id => i \in DOMAIN faces

BuildNext(id) ==
    /\ IsNext(id)
    /\ \A i \in Within({id}) : ~Refused(i)
    /\ LET now == BuildType([faces |-> faces, statements |-> statements], id) IN
       faces' = now.faces /\ statements' = now.statements
    /\ UNCHANGED <<types, stage, tree>>

Throw(id) ==
    /\ IsNext(id)
    /\ \E i \in Within({id}) : Refused(i)
    /\ stage' = "thrown"
    /\ UNCHANGED <<types, faces, statements, tree>>

-----------------------------------------------------------------------------
(* getExportedTypeStructures.                                              *)

\* Shorter paths come first.
Sorted(entries) ==
    FlattenSeq([n \in 1..Max({Len(entries[i].path) : i \in DOMAIN entries} \cup {0}) |->
                   SelectSeq(entries, LAMBDA e : Len(e.path) = n)])

\* The namespaces, under the references they are looked up by, and where they
\* are.  The parts are prepared again for the reference.
BuildNamespaceTree(places, namespace) ==
    LET Nest(known, n) ==
            LET ref == PreparedPath(SubSeq(namespace, 1, n))
                parent == PreparedPath(SubSeq(namespace, 1, n - 1))
            IN IF ref \in DOMAIN known THEN known
               ELSE known @@ (ref :> Append(known[parent], namespace[n]))
    IN FoldLeft(Nest, places, [n \in DOMAIN namespace |-> n])

Declarations(entries) ==
    LET Put(sofar, entry) ==
            LET places == BuildNamespaceTree(sofar.places, Front(entry.path)) IN
            [places |-> places,
             nodes |-> sofar.nodes \cup {[at |-> places[PreparedPath(Front(entry.path))],
                                          name |-> entry.name, body |-> entry.body]}]
    IN FoldLeft(Put, Root, Sorted(entries))

Export ==
    /\ stage = "build" /\ DOMAIN faces = DOMAIN types
    /\ tree' = Declarations(statements)
    /\ stage' = "done"
    /\ UNCHANGED <<types, faces, statements>>

BuilderNext ==
    \/ \E id \in DOMAIN types : BuildNext(id) \/ Throw(id)
    \/ Export

-----------------------------------------------------------------------------
(* AbiTypeBindingProcessor: the faces its signatures are made of, all of   *)
(* them within the contract's own namespace.                               *)

Flexible(id) == faces[id]["native"] \o faces[id]["codec"]

NoType == 0

\* One of buildMapMessageQueryInterface.
Query(message) ==
    [params |-> [a \in DOMAIN message.args |-> Flexible(message.args[a])],
     returns |-> CASE message.mutates -> TS("ContractExecResult")
                   [] ~message.mutates /\ message.returns = NoType -> TS("null")
                   [] ~message.mutates /\ message.returns # NoType -> faces[message.returns]["codec"]]

\* One of buildMapMessageTxInterface, which takes those that mutate.
Tx(message) ==
    [params |-> [a \in DOMAIN message.args |-> faces[message.args[a]]["native"]],
     returns |-> TS("SubmittableExtrinsic")]

\* A constructor's, of the factory class.
ConstructorParams(args) ==
    IF args = <<>> THEN List(TS("never"))
    ELSE << <<"tuple", [a \in DOMAIN args |-> Flexible(args[a])]>> >>

InContract == << <<ContractName, FALSE>> >>

-----------------------------------------------------------------------------
(* How TypeScript reads a face: a name is looked up from the namespace it  *)
(* stands in outwards, by its first part alone.                            *)

Resolve(scope, name) ==
    LET places == {tree.places[p] : p \in DOMAIN tree.places} \cup {InContract}
        within == {k \in 0..Len(scope) :
            IF Len(name) = 1 THEN \E n \in tree.nodes : n.at = SubSeq(scope, 1, k) /\ n.name = name[1]
            ELSE SubSeq(scope, 1, k) \o <<name[1]>> \in places}
    IN IF within = {} THEN {}
       ELSE {n \in tree.nodes : n.name = Last(name) /\ n.at = SubSeq(scope, 1, Max(within)) \o Front(name)}

RECURSIVE Read(_, _, _)
Read(scope, face, depth) ==
    LET Inner(f) == Read(scope, f, depth)
        Name(at, name) ==
            LET found == Resolve(at, name)
                node == CHOOSE n \in found : TRUE
                Below(f) == Read(node.at, f, depth - 1)
                Meant(refs) == UNION {Read(node.at, Ref(r), depth - 1) : r \in refs}
                body == node.body
            IN CASE depth = 0 \/ Cardinality(found) # 1 -> <<"unknown">>
                 [] body[1] = "alias" -> <<"alias", Below(body[2])>>
                 [] body[1] = "members" -> body
                 [] body[1] = "inner" -> <<"inner", {Below(f) : f \in body[2]}, Meant(body[3])>>
                 [] OTHER -> <<body[1], [i \in DOMAIN body[2] |-> Below(body[2][i])], Meant(body[3])>>
        Alternative(a) ==
            CASE a[1] = "lib" -> a
              [] a[1] = "list" -> <<"list", Inner(a[2])>>
              [] a[1] = "tuple" -> <<"tuple", [i \in DOMAIN a[2] |-> Inner(a[2][i])]>>
              [] a[1] = "apply" -> <<"apply", Inner(a[2]), [i \in DOMAIN a[3] |-> Inner(a[3][i])]>>
              [] a[1] = "ref" -> Name(scope, a[2])
    IN {Alternative(face[i]) : i \in DOMAIN face}

-----------------------------------------------------------------------------
(* What a face should say, told from the metadata alone.                   *)

RECURSIVE Shape(_, _)
Shape(id, f) ==
    LET type == types[id]
        Each(ids) == [i \in DOMAIN ids |-> Shape(ids[i], f)]
        Values(fields) ==
            CASE fields = <<>> -> {<<"lib", "", "unit">>}
              [] Len(fields) = 1 -> Shape(fields[1], f)
              [] OTHER -> {<<"tuple", Each(fields)>>}
        Basic(face) == Read(<<>>, face, 0)
    IN
    CASE type.kind = "primitive" -> Basic(Primitive(type.primitive)[f])
      [] type.kind \in {"array", "sequence"} /\ f = "codec" ->
            {<<"apply", {<<"lib", "PT", IF type.kind = "array" THEN "VecFixed" ELSE "Vec">>}, Each(<<type.of>>)>>}
      [] type.kind \in {"array", "sequence"} /\ f # "codec" ->
            LET element == Shape(type.of, f) IN
            {<<"list", element>>} \cup
                (IF type.kind = "sequence" /\ element = {<<"lib", "", "number">>}
                 THEN {<<"lib", "", "string">>} ELSE {})
      [] type.kind = "tuple" -> {<<"tuple", Each(type.of)>>}
      [] IsDeclared(type) /\ type.kind = "composite" ->
            {<<"fields", Each(type.fields),
               IF f # "codec" THEN {} ELSE Shape(id, "native") \cup Shape(id, "human")>>}
      [] IsDeclared(type) /\ type.kind = "variant" /\ type.variants = <<>> -> {<<"alias", {<<"lib", "", "any">>}>>}
      [] IsDeclared(type) /\ type.kind = "variant" /\ type.variants # <<>> ->
            LET values == [v \in DOMAIN type.variants |-> Values(type.variants[v])]
                members == <<"members", Len(type.variants)>>
            IN {CASE f = "native" -> <<"options", values, {}>>
                  [] f = "human" -> <<"either", values,
                                        IF Contains(type.variants, <<>>) THEN {members} ELSE {} >>
                  [] f = "codec" -> <<"inner", ToSet(values), {members} \cup Shape(id, "native")
                                                                 \cup Shape(id, "human")>>}
      [] OTHER ->
            LET name == PreparedPath(type.path)
                base == Basic(BuiltInFaces(name)[f])
                args == IF type.kind = "composite" THEN Each(SubSeq(type.params, 1, Params[BuiltIn(name)]))
                        ELSE [v \in DOMAIN Valued(type) |-> Values(Valued(type)[v])]
            IN IF args = <<>> THEN base ELSE {<<"apply", base, args>>}

-----------------------------------------------------------------------------
(* Properties.                                                             *)

\* The modules in the name of a declared type: all parts but the last one.
Modules(type) == Front(PreparedPath(type.path))

\* What the bindings of a type rest on.  Its name is spelled as camelCase
\* leaves it, no other type has the same name, and none of its modules - nor
\* of those of any other type - is called like the first part of a name.
NamedWell(id) ==
    LET declared == {i \in DOMAIN types : IsDeclared(types[i])}
        name(i) == PreparedPath(types[i].path)
    IN id \in declared =>
        /\ Last(types[id].path) = Last(name(id))
        /\ \A i \in declared \ {id} : name(i) # name(id)
        /\ \A i \in declared : ~Contains(Tail(Modules(types[i])), name(id)[1])

\* The elements of a list have the same native and human face, of one
\* alternative.
ListsWell(id) ==
    types[id].kind \in {"array", "sequence"} =>
        LET element == Shape(types[id].of, "native") IN
        Cardinality(element) = 1 /\ Shape(types[id].of, "human") = element

BindsWell(id) ==
    \A i \in Within({id}) : NamedWell(i) /\ ListsWell(i)

\* The bindings say what the metadata says: wherever a face of a type stands,
\* in another declaration or in a signature of the contract, reading it
\* through the names it mentions gives what the type is, provided that it and
\* the types in it bind well.
FacesFit == stage = "done" =>
    LET Says(scope, face) == Read(scope, face, 3 * Len(types) + 3)
        Message(id) == [args |-> <<id>>, returns |-> id, mutates |-> FALSE]
    IN \A id \in {i \in DOMAIN types : BindsWell(i)} :
        LET flexible == Shape(id, "native") \cup Shape(id, "codec") IN
        /\ \A f \in Facets : Says(<<>>, faces[id][f]) = Shape(id, f)
        /\ Says(InContract, Query(Message(id)).params[1]) = flexible
        /\ Says(InContract, Query(Message(id)).returns) = Shape(id, "codec")
        /\ Says(InContract, Tx(Message(id)).params[1]) = Shape(id, "native")
        /\ Says(InContract, ConstructorParams(<<id>>)) = {<<"tuple", <<flexible>> >>}

=============================================================================
