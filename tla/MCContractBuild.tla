-------------------------- MODULE MCContractBuild --------------------------
(* ContractBuild for TLC: the commands that meet in one project, and the    *)
(* metadata `typegen` may find there.                                       *)
EXTENDS ContractBuild, TypeBindings

CONSTANTS init1, init2, sample, other, other2, keyA, keyA2, keyB,
          compileAll, compileSample, validateAll, typegenSample,
          flipper, vrf, alice, bob

MCNameOf == sample :> flipper @@ other :> vrf @@ other2 :> vrf
MCAliasOf == keyA :> alice @@ keyA2 :> alice @@ keyB :> bob
MCMatched == [c \in {compileAll, validateAll} |-> {flipper, vrf}]
             @@ [c \in {compileSample, typegenSample} |-> {flipper}]

MCSessions == {
    {}, {init1, init2}, {init1, sample}, {init1, other}, {other, sample}, {other, other2},
    {init1, keyA}, {other, keyB}, {keyA, keyA2, keyB},
    {compileAll, other}, {compileAll, compileSample},
    {compileSample, typegenSample, validateAll}}

-----------------------------------------------------------------------------
(* Contracts of four types: each made of those after it.                   *)

Same == [w \in {"Flipper", "Types", "Error", "Human", "Codec", "Enum", "Option", "Result",
                "AccountId", "Lazy", "BTreeMap", "InkPrimitives", "InkStorage", "Psp22Error"} |-> w]

MCPascal == Same @@ "flipper" :> "Flipper" @@ "types" :> "Types" @@ "PSP22Error" :> "Psp22Error"
                 @@ "ink_primitives" :> "InkPrimitives" @@ "ink_storage" :> "InkStorage" @@ "lazy" :> "Lazy"

Primitives(p) == [kind |-> "primitive", primitive |-> p]
Variant(words, variants) == [kind |-> "variant", path |-> Plain(words), variants |-> variants]
Composite(words, fields, params, named) ==
    [kind |-> "composite", path |-> Plain(words), fields |-> fields, params |-> params, named |-> named]

Leaves == {Primitives("U8"), Composite(<<"ink_primitives", "types", "AccountId">>, <<>>, <<>>, FALSE)}

\* Types of the crates flipper and types.
Words == {<<"flipper", "Error">>, <<"flipper", "flipper", "Error">>,
          <<"flipper", "flipper", "flipper", "Error">>, <<"flipper", "types", "Error">>,
          <<"types", "Error">>, <<"types", "PSP22Error">>}

MadeOf(a, b) ==
    {[kind |-> "array", of |-> a], [kind |-> "sequence", of |-> a], [kind |-> "tuple", of |-> <<a, b>>],
     Composite(<<"BTreeMap">>, <<a>>, <<a, b>>, FALSE),
     Composite(<<"ink_storage", "lazy", "Lazy">>, <<>>, <<a, b>>, FALSE),
     Variant(<<"Option">>, << <<>>, <<a>> >>), Variant(<<"Result">>, << <<a>>, <<b>> >>)}
    \cup UNION {{Composite(w, <<a, b>>, <<>>, TRUE), Variant(w, << <<>>, <<a>>, <<b, a>> >>)} : w \in Words}

\* The odd ones: refused, empty, or made of what contains them.
Odd == {[kind |-> "unknown"], [kind |-> "tuple", of |-> <<>>], Variant(<<"types", "Error">>, <<>>),
        Variant(<<"types", "Error">>, << <<1>> >>), Composite(<<"types", "Error">>, <<3>>, <<3>>, TRUE),
        Composite(<<"types", "Error">>, <<3>>, <<>>, FALSE), Composite(<<"types", "Error">>, <<>>, <<>>, FALSE)}

\* A type of the kinds that differ.
Few(a) == {[kind |-> "sequence", of |-> a], Variant(<<"Option">>, << <<>>, <<a>> >>),
           Composite(<<"types", "Error">>, <<a>>, <<>>, TRUE),
           Composite(<<"flipper", "types", "Error">>, <<a>>, <<>>, TRUE),
           Variant(<<"flipper", "flipper", "Error">>, << <<>>, <<a>> >>)}

MCMetadata == {<<first, second, third, fourth>> : first \in MadeOf(2, 3), second \in MadeOf(3, 4) \cup Odd,
                                                  third \in Few(4), fourth \in Leaves}

-----------------------------------------------------------------------------
\* The builder touches nothing but its own memory: it is run where no other
\* command is.
Unused == CHOOSE metadata \in MCMetadata : TRUE

MCInit == Init /\ BuilderInit /\ (session = {} \/ types = Unused)

MCNext ==
    \/ session # {} /\ Next /\ UNCHANGED builderVars
    \/ session = {} /\ BuilderNext /\ UNCHANGED vars

MCSpec == MCInit /\ [][MCNext]_<<vars, builderVars>> /\ Fairness
=============================================================================
