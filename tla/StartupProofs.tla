--------------------------- MODULE StartupProofs ---------------------------
(***************************************************************************)
(* Proofs about the start, for any number of files and any stage graphs:   *)
(* type correctness, that the depth-first search gives the right verdict   *)
(* about every graph, that the recipes the runtime gets are sound, and     *)
(* that the start is refused for a fault and for nothing else.             *)
(***************************************************************************)
EXTENDS StartupProps, FiniteSetTheorems, SequenceTheorems, TLAPS

Frames == [stage: StageNames, left: SUBSET StageNames]

\* What the proofs use of a recipe's type.
LEMMA RecipeFields ==
    ASSUME NEW r \in Recipes
    PROVE  /\ r.id \in Ids \cup {None}
           /\ r.stages \subseteq StageNames
           /\ r.next \in [StageNames -> SUBSET (StageNames \cup {Junk})]
           /\ r.file \in {"unreadable", "malformed", "object"}
           /\ r.order \in Seq(StageNames \cup {Junk})
           /\ r # NoRecipe
BY DEF Recipes, NoRecipe

\* A gate that was read is not the one that stands for none.
LEMMA GateFields ==
    ASSUME NEW g \in Gates
    PROVE  g # NoGate
BY DEF Gates, NoGate

\* A recipe that was read, and what is under validation, is a recipe.
LEMMA SuccessorsType ==
    ASSUME NEW r \in Recipes \cup {NoRecipe}, NEW s \in StageNames
    PROVE  Successors(r, s) \subseteq StageNames /\ Successors(r, s) \subseteq r.stages
<1>1. r.stages \subseteq StageNames
    BY RecipeFields DEF NoRecipe
<1> QED BY <1>1 DEF Successors

\* The types, and that the files left to read are those of the phase.
FilesTyped ==
    /\ todo \in SUBSET (GateFiles \cup RecipeDirs)
    /\ phase = "gates" => todo \subseteq GateFiles
    /\ phase \in {"recipes", "searching"} => todo \subseteq RecipeDirs
    /\ gate \in [GateFiles -> Gates \cup {NoGate}]
    /\ recipe \in [RecipeDirs -> Recipes \cup {NoRecipe}]
    /\ errors \in BOOLEAN
    /\ configs \in SUBSET GateFiles
    /\ recipes \in [Ids -> RecipeDirs \cup {None}]
    /\ registry \in SUBSET ScriptNames

\* The search is always about a recipe that was read.
SearchTyped ==
    /\ phase \in Phases
    /\ checking \in RecipeDirs \cup {None}
    /\ phase = "searching" => checking # None /\ recipe[checking] \in Recipes
    /\ colour \in [StageNames -> {"none", "white", "gray", "black"}]
    /\ stack \in Seq(Frames)
    /\ cyclic \in BOOLEAN

TypeInv == FilesTyped /\ SearchTyped

\* The types hold at the start.
LEMMA TypeInit == Init => TypeInv
<1> SUFFICES ASSUME Init PROVE TypeInv OBVIOUS
<1>1. FilesTyped
    BY DEF Init, FilesTyped
<1>2. <<>> \in Seq(Frames)
    OBVIOUS
<1>3. SearchTyped
    BY <1>2 DEF Init, SearchTyped, NoColours, Phases
<1> QED BY <1>1, <1>3 DEF TypeInv

\* Next with the files and contents of each action in their sets.
LEMMA NextCases ==
    ASSUME TypeInv, [Next]_vars
    PROVE  \/ LoadsConfig
           \/ GatesDone
           \/ \E f \in GateFiles : \E g \in GateContents[f] :
                  /\ f \in todo /\ g \in Gates /\ phase = "gates"
                  /\ GateRejected(f, g) \/ GateThrows(f, g) \/ GateAccepted(f, g)
           \/ \E d \in RecipeDirs : \E r \in RecipeContents[d] :
                  /\ d \in todo /\ r \in Recipes /\ phase = "recipes"
                  /\ RecipeSkipped(d, r) \/ RecipeMalformed(d, r) \/ SearchBegins(d, r)
           \/ \E s \in StageNames : EnterRoot(s) \/ Visit(s)
           \/ Leave
           \/ RecipeJudged
           \/ RecipesDone
           \/ \E m \in Manifests : ReadsManifest(m)
           \/ UNCHANGED vars
<1> USE DEF TypeInv, FilesTyped
<1>1. ASSUME phase = "gates", NEW f \in todo, NEW g \in GateContents[f]
      PROVE  f \in GateFiles /\ g \in Gates
    BY <1>1, StartupAssumption
<1>2. ASSUME phase = "recipes", NEW d \in todo, NEW r \in RecipeContents[d]
      PROVE  d \in RecipeDirs /\ r \in Recipes
    BY <1>2, StartupAssumption
<1> QED BY <1>1, <1>2 DEF Next, LoadsGates, LoadsRecipes, HasCycles

\* Every step keeps the types of the files.
LEMMA FilesTypedStep == TypeInv /\ [Next]_vars => FilesTyped'
<1> SUFFICES ASSUME TypeInv, [Next]_vars PROVE FilesTyped' OBVIOUS
<1> USE DEF TypeInv, FilesTyped
<1>1. CASE LoadsConfig
    BY <1>1 DEF LoadsConfig
<1>2. CASE GatesDone
    BY <1>2 DEF GatesDone
<1>3. ASSUME NEW f \in GateFiles, NEW g \in Gates, phase = "gates",
             GateRejected(f, g) \/ GateThrows(f, g) \/ GateAccepted(f, g)
      PROVE  FilesTyped'
    <2>1. gate' \in [GateFiles -> Gates \cup {NoGate}] /\ todo' = todo \ {f} /\ UNCHANGED <<recipe, recipes, registry>>
        BY <1>3 DEF GateRejected, GateThrows, GateAccepted, ReadsGate
    <2>2. errors' \in BOOLEAN /\ configs' \in SUBSET GateFiles /\ phase' \in {phase, "gates_refused"}
        BY <1>3 DEF GateRejected, GateThrows, GateAccepted
    <2> QED BY <1>3, <2>1, <2>2
<1>4. ASSUME NEW d \in RecipeDirs, NEW r \in Recipes, phase = "recipes",
             RecipeSkipped(d, r) \/ RecipeMalformed(d, r) \/ SearchBegins(d, r)
      PROVE  FilesTyped'
    BY <1>4 DEF RecipeSkipped, RecipeMalformed, SearchBegins, ReadsRecipe
<1>5. ASSUME NEW s \in StageNames, EnterRoot(s) \/ Visit(s) PROVE FilesTyped'
    <2>1. UNCHANGED <<phase, todo, gate, recipe, errors, configs, recipes, registry>>
        BY <1>5 DEF EnterRoot, Visit
    <2> QED BY <2>1
<1>6. CASE Leave
    BY <1>6 DEF Leave
<1>7. CASE RecipeJudged
    <2>1. checking \in RecipeDirs
        BY <1>7 DEF RecipeJudged, SearchDone, SearchTyped
    <2> QED BY <1>7, <2>1 DEF RecipeJudged, SearchDone
<1>8. CASE RecipesDone
    BY <1>8 DEF RecipesDone
<1>9. ASSUME NEW m \in Manifests, ReadsManifest(m) PROVE FilesTyped'
    <2>1. m \in Seq(Entries)
        BY <1>9, StartupAssumption
    <2>2. ~ManifestInvalid(m) => {m[i].id : i \in DOMAIN m} \subseteq ScriptNames
        <3> SUFFICES ASSUME ~ManifestInvalid(m), NEW i \in DOMAIN m PROVE m[i].id \in ScriptNames
            OBVIOUS
        <3>1. m[i] \in Entries
            BY <2>1
        <3>2. m[i].id # None
            BY DEF ManifestInvalid
        <3> QED BY <3>1, <3>2 DEF Entries
    <2> QED BY <1>9, <2>2 DEF ReadsManifest
<1>10. CASE UNCHANGED vars
    BY <1>10 DEF vars
<1> QED BY <1>1, <1>2, <1>3, <1>4, <1>5, <1>6, <1>7, <1>8, <1>9, <1>10, NextCases

\* Entering a stage keeps the types of the search.
LEMMA EnterTyped ==
    ASSUME TypeInv, phase = "searching", NEW s \in StageNames, Enter(s)
    PROVE  /\ stack' \in Seq(Frames)
           /\ colour' \in [StageNames -> {"none", "white", "gray", "black"}]
<1>1. recipe[checking] \in Recipes \cup {NoRecipe}
    BY DEF TypeInv, SearchTyped
<1>2. Calls(s) \in Frames
    BY <1>1, SuccessorsType DEF Calls, Frames
<1> QED BY <1>2 DEF Enter, TypeInv, SearchTyped

\* So does every step.
LEMMA SearchTypedStep == TypeInv /\ [Next]_vars => SearchTyped'
<1> SUFFICES ASSUME TypeInv, [Next]_vars PROVE SearchTyped' OBVIOUS
<1> USE DEF TypeInv, SearchTyped
<1>1. CASE LoadsConfig
    BY <1>1 DEF LoadsConfig, search, Phases, Refusals
<1>2. CASE GatesDone
    BY <1>2 DEF GatesDone, search, Phases, Refusals
<1>3. ASSUME NEW f \in GateFiles, NEW g \in Gates, phase = "gates",
             GateRejected(f, g) \/ GateThrows(f, g) \/ GateAccepted(f, g)
      PROVE  SearchTyped'
    <2>1. UNCHANGED <<recipe, checking, colour, stack, cyclic>> /\ phase' \in {phase, "gates_refused"}
        BY <1>3 DEF GateRejected, GateThrows, GateAccepted, ReadsGate, search
    <2> QED BY <1>3, <2>1 DEF Phases, Refusals
<1>4. ASSUME NEW d \in RecipeDirs, NEW r \in Recipes, phase = "recipes",
             RecipeSkipped(d, r) \/ RecipeMalformed(d, r) \/ SearchBegins(d, r)
      PROVE  SearchTyped'
    <2>1. CASE RecipeSkipped(d, r)
        BY <1>4, <2>1 DEF RecipeSkipped, search
    <2>2. CASE RecipeMalformed(d, r)
        BY <1>4, <2>2 DEF RecipeMalformed, search, Phases, Refusals
    <2>3. CASE SearchBegins(d, r)
        <3>1. recipe'[d] = r /\ d # None
            BY <2>3, StartupAssumption DEF SearchBegins, ReadsRecipe, FilesTyped
        <3>2. stack' = <<>> /\ <<>> \in Seq(Frames)
            BY <2>3 DEF SearchBegins
        <3> QED BY <2>3, <3>1, <3>2 DEF SearchBegins, Phases
    <2> QED BY <1>4, <2>1, <2>2, <2>3
<1>5. ASSUME NEW s \in StageNames, EnterRoot(s) PROVE SearchTyped'
    BY <1>5, EnterTyped DEF EnterRoot, Searching
<1>6. ASSUME NEW s \in StageNames, Visit(s) PROVE SearchTyped'
    <2>1. stack \in Seq(Frames) /\ stack # <<>> /\ Len(stack) \in 1..Len(stack)
        BY <1>6 DEF Visit
    <2>2. Top \in Frames
        BY <2>1 DEF Top
    <2>3. Without(s) \in Frames
        BY <2>2 DEF Without, Frames
    <2>4. [stack EXCEPT ![Len(stack)] = Without(s)] \in Seq(Frames)
        BY <2>1, <2>3
    <2>5. stack' \in Seq(Frames) /\ colour' \in [StageNames -> {"none", "white", "gray", "black"}] /\ cyclic' \in BOOLEAN
        BY <1>6, <2>4, EnterTyped DEF Visit, Searching
    <2> QED BY <1>6, <2>5 DEF Visit, Searching
<1>7. CASE Leave
    <2>1. SubSeq(stack, 1, Len(stack) - 1) \in Seq(Frames)
        BY <1>7 DEF Leave
    <2> QED BY <1>7, <2>1 DEF Leave, Done
<1>8. CASE RecipeJudged
    <2>1. phase' \in {"recipes", "recipes_refused"}
        BY <1>8 DEF RecipeJudged
    <2>2. stack' = <<>> /\ <<>> \in Seq(Frames)
        BY <1>8 DEF RecipeJudged
    <2> QED BY <1>8, <2>1, <2>2 DEF RecipeJudged, NoColours, Phases, Refusals
<1>9. CASE RecipesDone
    BY <1>9 DEF RecipesDone, search, Phases, Refusals
<1>10. ASSUME NEW m \in Manifests, ReadsManifest(m) PROVE SearchTyped'
    BY <1>10 DEF ReadsManifest, search, Phases, Refusals
<1>11. CASE UNCHANGED vars
    BY <1>11 DEF vars, search
<1> QED BY <1>1, <1>2, <1>3, <1>4, <1>5, <1>6, <1>7, <1>8, <1>9, <1>10, <1>11, NextCases

\* So the types hold always.
LEMMA TypeInductive == Spec => []TypeInv
<1>1. TypeInv /\ [Next]_vars => TypeInv'
    BY FilesTypedStep, SearchTypedStep DEF TypeInv
<1> QED BY TypeInit, <1>1, PTL DEF Spec

(***************************************************************************)
(* The start keeps its types: in particular the search only ever visits    *)
(* and colours stages, whatever a recipe's transitions hold.               *)
(***************************************************************************)
THEOREM TypeCorrect == Spec => []TypeOK
<1>1. TypeInv => TypeOK
    BY DEF TypeInv, TypeOK, FilesTyped, SearchTyped, Frames
<1> QED BY <1>1, TypeInductive, PTL

(***************************************************************************)
(* The search for cycles.                                                  *)
(***************************************************************************)
R == recipe[checking]

OnPath(s) == \E i \in 1..Len(stack) : stack[i].stage = s

\* The stages have a colour, and the gray ones are those on the path.
Coloured ==
    \A s \in StageNames : /\ colour[s] = "none" <=> s \notin R.stages
                          /\ colour[s] = "gray" <=> OnPath(s)

\* The path never meets itself and follows the transitions.
Path ==
    /\ \A i, j \in 1..Len(stack) : i < j => stack[i].stage # stack[j].stage
    /\ \A i \in 1..Len(stack) - 1 : stack[i + 1].stage \in Successors(R, stack[i].stage)
    /\ \A i \in 1..Len(stack) : stack[i].left \subseteq Successors(R, stack[i].stage)

\* What was visited is done, and so is all that can be reached from it.
Visited ==
    /\ \A i \in 1..Len(stack) :
           \A t \in Successors(R, stack[i].stage) \ stack[i].left : colour[t] = "black"
    /\ \A s \in StageNames : colour[s] = "black" =>
           \A t \in Successors(R, s) : colour[t] = "black"

Blacks == {s \in StageNames : colour[s] = "black"}

\* No cycle among the stages that are done; one there is when it is reported.
Verdict ==
    /\ \A S \in SUBSET Blacks : ~Sinkless(R, S)
    /\ cyclic => \E S \in SUBSET R.stages : Sinkless(R, S)

SearchInv == phase = "searching" => Coloured /\ Path /\ Visited /\ Verdict

\* The path after a call of dfs.
LEMMA Pushed ==
    ASSUME TypeInv, NEW s \in StageNames, Enter(s)
    PROVE  /\ Len(stack) \in Nat /\ Len(stack') = Len(stack) + 1
           /\ stack'[Len(stack) + 1] = Calls(s)
           /\ \A i \in 1..Len(stack) : stack'[i] = stack[i] /\ stack[i] \in Frames
           /\ \A x \in StageNames : colour'[x] = IF x = s THEN "gray" ELSE colour[x]
BY DEF TypeInv, SearchTyped, Enter

\* Entering a white stage keeps the invariant of the search.
LEMMA EnterKeeps ==
    ASSUME TypeInv, SearchInv, phase = "searching",
           NEW s \in StageNames, colour[s] = "white", Enter(s),
           stack # <<>> => s \in Successors(R, Top.stage),
           UNCHANGED <<phase, recipe, checking, cyclic>>
    PROVE  SearchInv'
<1> DEFINE n == Len(stack)
<1>1. n \in Nat /\ Len(stack') = n + 1 /\ stack'[n + 1] = Calls(s)
    BY Pushed
<1>2. \A i \in 1..n : stack'[i] = stack[i] /\ stack[i] \in Frames
    BY Pushed
<1>3. \A x \in StageNames : colour'[x] = IF x = s THEN "gray" ELSE colour[x]
    BY Pushed
<1>4. Calls(s).stage = s /\ Calls(s).left = Successors(R, s)
    BY DEF Calls, R
<1>5. R' = R /\ \A x \in StageNames : Successors(R', x) = Successors(R, x)
    BY DEF R
<1>6. \A x : Successors(R', x) = Successors(R, x)
    BY <1>5
<1>7. n > 0 => Top = stack[n]
    BY DEF Top
<1>8. n > 0 <=> stack # <<>>
    BY <1>1 DEF TypeInv, SearchTyped
<1>9. Coloured /\ Path /\ Visited /\ Verdict
    BY DEF SearchInv
<1>10. ~OnPath(s)
    BY <1>9 DEF Coloured
<1>11. \A x \in StageNames : OnPath(x)' <=> OnPath(x) \/ x = s
    <2> SUFFICES ASSUME NEW x \in StageNames PROVE OnPath(x)' <=> OnPath(x) \/ x = s
        OBVIOUS
    <2>1. OnPath(x)' <=> \E i \in 1..n + 1 : stack'[i].stage = x
        BY <1>1 DEF OnPath
    <2>2. OnPath(x) => OnPath(x)'
        BY <1>1, <1>2, <2>1 DEF OnPath
    <2>3. x = s => OnPath(x)'
        BY <1>1, <1>4, <2>1
    <2>4. OnPath(x)' => OnPath(x) \/ x = s
        BY <1>1, <1>2, <1>4, <2>1 DEF OnPath
    <2> QED BY <2>2, <2>3, <2>4
<1>12. Coloured'
    BY <1>3, <1>5, <1>9, <1>11 DEF Coloured
<1>13. Path'
    <2>1. \A i, j \in 1..n + 1 : i < j => stack'[i].stage # stack'[j].stage
        <3> SUFFICES ASSUME NEW i \in 1..n + 1, NEW j \in 1..n + 1, i < j
                     PROVE  stack'[i].stage # stack'[j].stage
            OBVIOUS
        <3>1. i \in 1..n /\ stack'[i] = stack[i] /\ stack[i].stage # s
            BY <1>1, <1>2, <1>10 DEF OnPath
        <3>2. CASE j = n + 1
            BY <1>1, <1>4, <3>1, <3>2
        <3>3. CASE j # n + 1
            BY <1>1, <1>2, <1>9, <3>1, <3>3 DEF Path
        <3> QED BY <3>2, <3>3
    <2>2. \A i \in 1..n : stack'[i + 1].stage \in Successors(R, stack'[i].stage)
        <3> TAKE i \in 1..n
        <3>1. CASE i = n
            BY <1>1, <1>2, <1>4, <1>7, <1>8, <3>1
        <3>2. CASE i # n
            BY <1>1, <1>2, <1>9, <3>2 DEF Path
        <3> QED BY <3>1, <3>2
    <2>3. \A i \in 1..n + 1 : stack'[i].left \subseteq Successors(R, stack'[i].stage)
        BY <1>1, <1>2, <1>4, <1>9 DEF Path
    <2> QED BY <1>1, <1>6, <2>1, <2>2, <2>3 DEF Path
<1>14. \A x \in StageNames : colour'[x] = "black" <=> colour[x] = "black"
    BY <1>3
<1>15. \A x \in StageNames : Successors(R, x) \subseteq StageNames
    <2>1. R \in Recipes \cup {NoRecipe}
        BY DEF R, TypeInv, SearchTyped
    <2> QED BY <2>1, SuccessorsType
<1>16. Visited'
    <2>1. ASSUME NEW i \in 1..n + 1, NEW t \in Successors(R, stack'[i].stage) \ stack'[i].left
          PROVE  colour'[t] = "black"
        <3>1. CASE i = n + 1
            BY <1>1, <1>4, <2>1, <3>1
        <3>2. CASE i # n + 1
            <4>1. i \in 1..n /\ stack'[i] = stack[i] /\ stack[i].stage \in StageNames
                BY <1>1, <1>2, <3>2 DEF Frames
            <4>2. colour[t] = "black" /\ t \in StageNames
                BY <1>9, <1>15, <4>1 DEF Visited
            <4> QED BY <1>14, <4>2
        <3> QED BY <3>1, <3>2
    <2>2. \A x \in StageNames : colour'[x] = "black" => \A t \in Successors(R, x) : colour'[t] = "black"
        BY <1>9, <1>14, <1>15 DEF Visited
    <2> QED BY <1>1, <1>6, <2>1, <2>2 DEF Visited
<1>17. Verdict'
    <2>1. Blacks' = Blacks
        BY <1>14 DEF Blacks
    <2> QED BY <1>5, <1>9, <2>1 DEF Verdict, Sinkless
<1> QED BY <1>12, <1>13, <1>16, <1>17 DEF SearchInv

\* The steps of the search leave the recipe alone.
LEMMA SameGraph ==
    ASSUME UNCHANGED <<recipe, checking>>
    PROVE  R' = R /\ \A x : Successors(R', x) = Successors(R, x)
BY DEF R

\* The topmost call.
LEMMA TopFrame ==
    ASSUME TypeInv, SearchInv, phase = "searching", stack # <<>>
    PROVE  /\ Len(stack) \in Nat /\ Len(stack) > 0 /\ Top = stack[Len(stack)]
           /\ \A i \in 1..Len(stack) : stack[i] \in Frames
           /\ R \in Recipes /\ \A x \in StageNames : Successors(R, x) \subseteq R.stages
           /\ R.stages \subseteq StageNames
           /\ Top.stage \in R.stages /\ Top.left \subseteq Successors(R, Top.stage)
<1>1. Len(stack) \in Nat /\ Len(stack) > 0 /\ Top = stack[Len(stack)]
    BY DEF TypeInv, SearchTyped, Top
<1>2. \A i \in 1..Len(stack) : stack[i] \in Frames
    BY DEF TypeInv, SearchTyped
<1>3. R \in Recipes
    BY DEF TypeInv, SearchTyped, R
<1>4. \A x \in StageNames : Successors(R, x) \subseteq R.stages
    BY <1>3, SuccessorsType
<1>5. Top.stage \in StageNames
    BY <1>1, <1>2 DEF Frames
<1>6. colour[Top.stage] = "gray"
    BY <1>1, <1>5 DEF SearchInv, Coloured, OnPath
<1>7. Top.stage \in R.stages
    BY <1>5, <1>6 DEF SearchInv, Coloured
<1>8. Top.left \subseteq Successors(R, Top.stage)
    BY <1>1 DEF SearchInv, Path
<1> QED BY <1>1, <1>2, <1>3, <1>4, <1>7, <1>8, RecipeFields

\* A gray neighbour of the topmost stage closes a cycle: the path from it on.
LEMMA BackEdgeIsCycle ==
    ASSUME TypeInv, SearchInv, phase = "searching", stack # <<>>,
           NEW t \in Top.left, colour[t] = "gray"
    PROVE  \E S \in SUBSET R.stages : Sinkless(R, S)
<1> DEFINE n == Len(stack)
<1>1. n \in Nat /\ n > 0 /\ Top = stack[n] /\ \A i \in 1..n : stack[i] \in Frames
    BY TopFrame
<1>2. t \in StageNames /\ t \in Successors(R, Top.stage)
    BY TopFrame
<1>3. PICK k \in 1..n : stack[k].stage = t
    BY <1>2 DEF SearchInv, Coloured, OnPath
<1> DEFINE S == {stack[i].stage : i \in k..n}
<1>4. S \subseteq R.stages
    <2> SUFFICES ASSUME NEW i \in k..n PROVE stack[i].stage \in R.stages
        OBVIOUS
    <2>1. i \in 1..n /\ stack[i].stage \in StageNames
        BY <1>1, <1>3 DEF Frames
    <2>2. colour[stack[i].stage] = "gray"
        BY <2>1 DEF SearchInv, Coloured, OnPath
    <2> QED BY <2>1, <2>2 DEF SearchInv, Coloured
<1>5. t \in S
    BY <1>1, <1>3
<1>6. ASSUME NEW i \in k..n PROVE Successors(R, stack[i].stage) \cap S # {}
    <2>1. CASE i = n
        BY <1>1, <1>2, <1>5, <2>1
    <2>2. CASE i # n
        <3>1. i \in 1..n - 1 /\ i + 1 \in k..n
            BY <1>1, <1>3, <2>2
        <3>2. stack[i + 1].stage \in Successors(R, stack[i].stage)
            BY <3>1 DEF SearchInv, Path
        <3>3. stack[i + 1].stage \in S
            BY <3>1
        <3> QED BY <3>2, <3>3
    <2> QED BY <2>1, <2>2
<1>7. Sinkless(R, S)
    BY <1>5, <1>6 DEF Sinkless
<1> HIDE DEF S
<1> QED BY <1>4, <1>7

\* A stage all of whose neighbours are done adds no cycle to those done.
LEMMA DoneAddsNoCycle ==
    ASSUME NEW r, NEW B, NEW s, s \notin B,
           \A S \in SUBSET B : ~Sinkless(r, S),
           \A x \in B : Successors(r, x) \subseteq B,
           Successors(r, s) \subseteq B
    PROVE  \A S \in SUBSET (B \cup {s}) : ~Sinkless(r, S)
<1> SUFFICES ASSUME NEW S \in SUBSET (B \cup {s}), Sinkless(r, S) PROVE FALSE
    OBVIOUS
<1> DEFINE T == S \ {s}
<1>1. T \subseteq B
    OBVIOUS
<1>2. \A x \in S : Successors(r, x) \cap S # {} /\ Successors(r, x) \subseteq B
    BY DEF Sinkless
<1>3. \A x \in S : Successors(r, x) \cap T # {}
    BY <1>2
<1>4. T # {}
    BY <1>3 DEF Sinkless
<1>5. Sinkless(r, T)
    BY <1>3, <1>4 DEF Sinkless
<1> QED BY <1>1, <1>5

\* So does visiting a neighbour.
LEMMA VisitKeeps ==
    ASSUME TypeInv, SearchInv, NEW t \in StageNames, Visit(t)
    PROVE  SearchInv'
<1> DEFINE n == Len(stack)
<1>1. phase = "searching" /\ stack # <<>> /\ t \in Top.left
    BY DEF Visit, Searching
<1>2. UNCHANGED <<phase, recipe, checking>>
    BY DEF Visit
<1>3. n \in Nat /\ n > 0 /\ Top = stack[n] /\ \A i \in 1..n : stack[i] \in Frames
    BY <1>1, TopFrame
<1>4. t \in R.stages /\ t \in Successors(R, Top.stage) /\ Top.left \subseteq Successors(R, Top.stage)
    BY <1>1, TopFrame
<1>5. R' = R /\ \A x : Successors(R', x) = Successors(R, x)
    BY <1>2, SameGraph
<1>6. Coloured /\ Path /\ Visited /\ Verdict
    BY <1>1 DEF SearchInv
<1>7. CASE BackEdge(t)
    <2>1. cyclic' = TRUE /\ UNCHANGED <<colour, stack>>
        BY <1>7 DEF Visit
    <2>2. \E S \in SUBSET R.stages : Sinkless(R, S)
        BY <1>1, <1>7, BackEdgeIsCycle DEF BackEdge
    <2>3. Verdict'
        <3>1. Blacks' = Blacks
            BY <2>1 DEF Blacks
        <3> QED BY <1>5, <1>6, <2>2, <3>1 DEF Verdict, Sinkless
    <2>4. \A x : OnPath(x)' <=> OnPath(x)
        BY <2>1 DEF OnPath
    <2> QED BY <1>5, <1>6, <2>1, <2>3, <2>4 DEF SearchInv, Coloured, Path, Visited
<1>8. CASE ~BackEdge(t) /\ colour[t] = "white"
    <2>1. Enter(t) /\ UNCHANGED cyclic
        BY <1>8 DEF Visit
    <2> QED BY <1>1, <1>2, <1>4, <1>8, <2>1, EnterKeeps
<1>9. CASE ~BackEdge(t) /\ colour[t] # "white"
    <2>1. UNCHANGED <<cyclic, colour>> /\ stack' = [stack EXCEPT ![n] = Without(t)]
        BY <1>9 DEF Visit
    <2>2. colour[t] = "black"
        <3>1. colour[t] # "none" /\ colour[t] # "gray"
            BY <1>4, <1>6, <1>9 DEF Coloured, BackEdge
        <3> QED BY <1>9, <3>1 DEF TypeInv, SearchTyped
    <2>3. Len(stack') = n /\ stack'[n] = Without(t) /\ \A i \in 1..n : i # n => stack'[i] = stack[i]
        BY <1>3, <2>1 DEF TypeInv, SearchTyped
    <2>4. Without(t).stage = Top.stage /\ Without(t).left = Top.left \ {t}
        BY DEF Without
    <2>5. \A i \in 1..n : stack'[i].stage = stack[i].stage /\ stack'[i].left \subseteq stack[i].left
        BY <1>3, <2>3, <2>4
    <2>6. Path'
        <3>1. \A i, j \in 1..n : i < j => stack'[i].stage # stack'[j].stage
            BY <1>6, <2>5 DEF Path
        <3>2. \A i \in 1..n - 1 : stack'[i + 1].stage \in Successors(R, stack'[i].stage)
            <4> TAKE i \in 1..n - 1
            <4>1. i \in 1..n /\ i + 1 \in 1..n
                BY <1>3
            <4> QED BY <1>6, <2>5, <4>1 DEF Path
        <3>3. \A i \in 1..n : stack'[i].left \subseteq Successors(R, stack'[i].stage)
            <4> TAKE i \in 1..n
            <4>1. stack[i].left \subseteq Successors(R, stack[i].stage)
                BY <1>6 DEF Path
            <4> QED BY <2>5, <4>1
        <3> QED BY <1>5, <2>3, <3>1, <3>2, <3>3 DEF Path
    <2>7. Visited'
        <3>1. ASSUME NEW i \in 1..n, NEW x \in Successors(R, stack'[i].stage) \ stack'[i].left
              PROVE  colour[x] = "black"
            <4>1. x \in Successors(R, stack[i].stage)
                BY <2>5
            <4>2. CASE x \in stack[i].left
                <5>1. i = n
                    BY <2>3, <4>2
                <5>2. x = t
                    BY <1>3, <2>3, <2>4, <4>2, <5>1
                <5> QED BY <2>2, <5>2
            <4>3. CASE x \notin stack[i].left
                BY <1>6, <4>1, <4>3 DEF Visited
            <4> QED BY <4>2, <4>3
        <3> QED BY <1>5, <1>6, <2>1, <2>3, <3>1 DEF Visited
    <2>8. Coloured'
        <3>1. \A x \in StageNames : OnPath(x)' <=> OnPath(x)
            BY <2>3, <2>5 DEF OnPath
        <3> QED BY <1>5, <1>6, <2>1, <3>1 DEF Coloured
    <2>9. Verdict'
        <3>1. Blacks' = Blacks
            BY <2>1 DEF Blacks
        <3> QED BY <1>5, <1>6, <2>1, <3>1 DEF Verdict, Sinkless
    <2> QED BY <2>6, <2>7, <2>8, <2>9 DEF SearchInv
<1> QED BY <1>7, <1>8, <1>9

\* So does leaving a stage whose neighbours are all visited.
LEMMA LeaveKeeps ==
    ASSUME TypeInv, SearchInv, Leave
    PROVE  SearchInv'
<1> DEFINE n == Len(stack)
           top == Top.stage
<1>1. phase = "searching" /\ stack # <<>> /\ Top.left = {}
    BY DEF Leave, Searching
<1>2. UNCHANGED <<phase, recipe, checking, cyclic>>
    BY DEF Leave
<1>3. n \in Nat /\ n > 0 /\ Top = stack[n] /\ \A i \in 1..n : stack[i] \in Frames
    BY <1>1, TopFrame
<1>4. top \in R.stages /\ top \in StageNames
    BY <1>1, TopFrame
<1>5. R' = R /\ \A x : Successors(R', x) = Successors(R, x)
    BY <1>2, SameGraph
<1>6. Coloured /\ Path /\ Visited /\ Verdict
    BY <1>1 DEF SearchInv
<1>7. Len(stack') = n - 1 /\ \A i \in 1..n - 1 : stack'[i] = stack[i]
    <2>1. stack' = SubSeq(stack, 1, n - 1)
        BY DEF Leave
    <2>2. \A i \in 1..n - 1 : stack[i] \in Frames
        BY <1>3
    <2> HIDE DEF n
    <2>3. Len(SubSeq(stack, 1, n - 1)) = IF 1 <= n - 1 THEN n - 1 - 1 + 1 ELSE 0
        BY <1>3, <2>2, SubSeqProperties
    <2>4. \A i \in 1..(n - 1) - 1 + 1 : SubSeq(stack, 1, n - 1)[i] = stack[1 + i - 1]
        BY <1>3, <2>2, SubSeqProperties
    <2>5. (n - 1) - 1 + 1 = n - 1 /\ \A i \in 1..n - 1 : 1 + i - 1 = i
        BY <1>3
    <2> QED BY <1>3, <2>1, <2>3, <2>4, <2>5
<1>8. \A x \in StageNames : colour'[x] = IF x = top THEN "black" ELSE colour[x]
    BY DEF Leave, Done, TypeInv, SearchTyped
<1>9. colour[top] = "gray"
    BY <1>3, <1>4, <1>6 DEF Coloured, OnPath
<1>10. \A x \in StageNames : Successors(R, x) \subseteq StageNames
    BY <1>1, TopFrame
<1>11. \A x \in Successors(R, top) : colour[x] = "black"
    BY <1>1, <1>3, <1>6 DEF Visited
<1>12. \A x \in StageNames : colour[x] = "black" => colour'[x] = "black"
    BY <1>8
<1>13. \A x \in StageNames : OnPath(x)' <=> OnPath(x) /\ x # top
    <2>1. \A i \in 1..n - 1 : i \in 1..n /\ stack[i].stage # top
        BY <1>3, <1>6 DEF Path
    <2>2. \A i \in 1..n : i # n => i \in 1..n - 1
        BY <1>3
    <2> QED BY <1>3, <1>7, <2>1, <2>2 DEF OnPath
<1>14. Coloured'
    BY <1>4, <1>5, <1>6, <1>8, <1>13 DEF Coloured
<1>15. Path'
    <2>1. \A i \in 1..n - 1 : i \in 1..n
        BY <1>3
    <2>2. \A i \in 1..(n - 1) - 1 : i \in 1..n - 1 /\ i + 1 \in 1..n - 1
        BY <1>3
    <2>3. \A i, j \in 1..n - 1 : i < j => stack'[i].stage # stack'[j].stage
        BY <1>6, <1>7, <2>1 DEF Path
    <2>4. \A i \in 1..(n - 1) - 1 : stack'[i + 1].stage \in Successors(R, stack'[i].stage)
        BY <1>6, <1>7, <2>2 DEF Path
    <2>5. \A i \in 1..n - 1 : stack'[i].left \subseteq Successors(R, stack'[i].stage)
        BY <1>6, <1>7, <2>1 DEF Path
    <2> QED BY <1>5, <1>7, <2>3, <2>4, <2>5 DEF Path
<1>16. Visited'
    <2>1. ASSUME NEW i \in 1..n - 1, NEW x \in Successors(R, stack'[i].stage) \ stack'[i].left
          PROVE  colour'[x] = "black"
        <3>1. i \in 1..n /\ stack'[i] = stack[i] /\ stack[i].stage \in StageNames
            BY <1>3, <1>7 DEF Frames
        <3>2. colour[x] = "black" /\ x \in StageNames
            BY <1>6, <1>10, <3>1 DEF Visited
        <3> QED BY <1>12, <3>2
    <2>2. ASSUME NEW x \in StageNames, colour'[x] = "black", NEW y \in Successors(R, x)
          PROVE  colour'[y] = "black"
        <3>1. y \in StageNames
            BY <1>10
        <3>2. colour[y] = "black"
            BY <1>6, <1>8, <1>11, <2>2 DEF Visited
        <3> QED BY <1>12, <3>1, <3>2
    <2> QED BY <1>5, <1>7, <2>1, <2>2 DEF Visited
<1>17. Verdict'
    <2>1. Blacks' = Blacks \cup {top}
        BY <1>4, <1>8 DEF Blacks
    <2>2. top \notin Blacks
        BY <1>9 DEF Blacks
    <2>3. Successors(R, top) \subseteq Blacks
        BY <1>4, <1>10, <1>11 DEF Blacks
    <2>4. \A x \in Blacks : Successors(R, x) \subseteq Blacks
        BY <1>6, <1>10 DEF Blacks, Visited
    <2>5. \A S \in SUBSET (Blacks \cup {top}) : ~Sinkless(R, S)
        BY <1>6, <2>2, <2>3, <2>4, DoneAddsNoCycle DEF Verdict
    <2> QED BY <1>2, <1>5, <1>6, <2>1, <2>5 DEF Verdict, Sinkless
<1> QED BY <1>14, <1>15, <1>16, <1>17 DEF SearchInv

\* So every step does.
LEMMA SearchStep == TypeInv /\ SearchInv /\ [Next]_vars => SearchInv'
<1> SUFFICES ASSUME TypeInv, SearchInv, [Next]_vars PROVE SearchInv' OBVIOUS
<1>1. ASSUME phase' # "searching" PROVE SearchInv'
    BY <1>1 DEF SearchInv
<1>2. ASSUME NEW d \in RecipeDirs, NEW r \in Recipes, phase = "recipes", SearchBegins(d, r)
      PROVE  SearchInv'
    <2>1. R' = r /\ r.stages \subseteq StageNames
        BY <1>2, RecipeFields DEF SearchBegins, ReadsRecipe, R, TypeInv, FilesTyped
    <2>2. stack' = <<>> /\ Len(stack') = 0 /\ cyclic' = FALSE
        BY <1>2 DEF SearchBegins
    <2>3. \A s \in StageNames : colour'[s] = IF s \in r.stages THEN "white" ELSE "none"
        BY <1>2 DEF SearchBegins
    <2>4. Blacks' = {}
        BY <2>3 DEF Blacks
    <2>5. Verdict'
        BY <2>2, <2>4 DEF Verdict, Sinkless
    <2>6. Coloured' /\ Path' /\ Visited'
        BY <2>1, <2>2, <2>3 DEF Coloured, Path, Visited, OnPath
    <2> QED BY <2>5, <2>6 DEF SearchInv
<1>3. ASSUME NEW s \in StageNames, EnterRoot(s) PROVE SearchInv'
    <2>1. phase = "searching" /\ colour[s] = "white" /\ stack = <<>> /\ Enter(s)
          /\ UNCHANGED <<phase, recipe, checking, cyclic>>
        BY <1>3 DEF EnterRoot, Searching
    <2> QED BY <2>1, EnterKeeps
<1>4. ASSUME NEW s \in StageNames, Visit(s) PROVE SearchInv'
    BY <1>4, VisitKeeps
<1>5. CASE Leave
    BY <1>5, LeaveKeeps
<1>6. CASE UNCHANGED vars
    <2>1. UNCHANGED <<phase, recipe, checking, colour, stack, cyclic>>
        BY <1>6 DEF vars, search
    <2>2. R' = R /\ Blacks' = Blacks
        BY <2>1 DEF R, Blacks
    <2>3. \A x : OnPath(x)' <=> OnPath(x)
        BY <2>1 DEF OnPath
    <2>4. (Coloured' <=> Coloured) /\ (Path' <=> Path) /\ (Visited' <=> Visited) /\ (Verdict' <=> Verdict)
        BY <2>1, <2>2, <2>3 DEF Coloured, Path, Visited, Verdict, Successors, Sinkless
    <2> QED BY <2>1, <2>4 DEF SearchInv
<1>7. CASE LoadsConfig \/ GatesDone \/ RecipeJudged \/ RecipesDone \/ \E m \in Manifests : ReadsManifest(m)
    <2>1. phase' # "searching"
        BY <1>7 DEF LoadsConfig, GatesDone, RecipeJudged, RecipesDone, ReadsManifest
    <2> QED BY <1>1, <2>1
<1>8. ASSUME NEW f \in GateFiles, NEW g \in Gates, phase = "gates",
             GateRejected(f, g) \/ GateThrows(f, g) \/ GateAccepted(f, g)
      PROVE  SearchInv'
    <2>1. phase' # "searching"
        BY <1>8 DEF GateRejected, GateThrows, GateAccepted
    <2> QED BY <1>1, <2>1
<1>9. ASSUME NEW d \in RecipeDirs, NEW r \in Recipes, phase = "recipes",
             RecipeSkipped(d, r) \/ RecipeMalformed(d, r)
      PROVE  SearchInv'
    <2>1. phase' # "searching"
        BY <1>9 DEF RecipeSkipped, RecipeMalformed
    <2> QED BY <1>1, <2>1
<1> QED BY <1>2, <1>3, <1>4, <1>5, <1>6, <1>7, <1>8, <1>9, NextCases

\* The search gives the right verdict when it ends.
LEMMA VerdictExact ==
    ASSUME TypeInv, SearchInv, SearchDone
    PROVE  cyclic <=> ~Acyclic(R)
<1>1. phase = "searching" /\ R \in Recipes /\ R.stages \subseteq StageNames
    BY RecipeFields DEF SearchDone, TypeInv, SearchTyped, R
<1>2. CASE cyclic
    BY <1>1, <1>2 DEF SearchInv, Verdict, Acyclic
<1>3. CASE ~cyclic
    <2>1. stack = <<>> /\ \A s \in StageNames : colour[s] # "white"
        BY <1>3 DEF SearchDone
    <2>2. \A s \in StageNames : ~OnPath(s)
        BY <2>1 DEF OnPath
    <2>3. ASSUME NEW s \in R.stages PROVE s \in Blacks
        <3>1. s \in StageNames /\ colour[s] \in {"none", "white", "gray", "black"}
            BY <1>1, <2>3 DEF TypeInv, SearchTyped
        <3>2. colour[s] # "none" /\ colour[s] # "gray"
            BY <1>1, <2>2, <2>3, <3>1 DEF SearchInv, Coloured
        <3> QED BY <2>1, <3>1, <3>2 DEF Blacks
    <2>4. \A S \in SUBSET R.stages : S \in SUBSET Blacks
        BY <2>3
    <2> QED BY <1>1, <1>3, <2>4 DEF SearchInv, Verdict, Acyclic
<1> QED BY <1>2, <1>3

(***************************************************************************)
(* The gate files.                                                         *)
(***************************************************************************)
GatesInv ==
    /\ phase = "config" => errors = FALSE /\ \A f \in GateFiles : gate[f] = NoGate
    /\ phase = "gates" => /\ \A f \in todo : gate[f] = NoGate
                          /\ \A f \in GateFiles : BadGate(f) => GateInvalid(gate[f])
                          /\ errors <=> \E f \in GateFiles : BadGate(f)
    /\ configs = {f \in GateFiles : gate[f] # NoGate /\ ~BadGate(f)}
    /\ phase = "gates_refused" => DuplicateGates \/ \E f \in GateFiles : BadGate(f)
    /\ phase \notin {"config", "gates", "gates_refused", "config_refused"} =>
           ~DuplicateGates /\ \A f \in GateFiles : ~BadGate(f)

\* What is said of the gates holds at the start.
LEMMA GatesInit == Init => GatesInv
BY DEF Init, GatesInv, BadGate

\* A gate that is read keeps it.
LEMMA GateRead ==
    ASSUME TypeInv, GatesInv, NEW f \in GateFiles, NEW g \in Gates, phase = "gates", f \in todo,
           GateRejected(f, g) \/ GateThrows(f, g) \/ GateAccepted(f, g)
    PROVE  GatesInv'
<1>1. /\ gate' = [gate EXCEPT ![f] = g] /\ todo' = todo \ {f} /\ gate[f] = NoGate /\ g # NoGate
      /\ gate \in [GateFiles -> Gates \cup {NoGate}] /\ todo \subseteq GateFiles
    BY GateFields DEF GateRejected, GateThrows, GateAccepted, ReadsGate, TypeInv, FilesTyped, GatesInv
<1>2. BadGate(f)' <=> GateInvalid(g) \/ WarningsThrow(g)
    BY <1>1 DEF BadGate
<1>3. \A h \in GateFiles : h # f => (BadGate(h)' <=> BadGate(h)) /\ gate'[h] = gate[h]
    BY <1>1 DEF BadGate
<1>4. gate'[f] = g /\ ~BadGate(f) /\ f \notin configs
    BY <1>1 DEF BadGate, GatesInv
<1>5. configs' = {h \in GateFiles : gate'[h] # NoGate /\ ~BadGate(h)'}
    <2>1. configs' = IF GateInvalid(g) \/ WarningsThrow(g) THEN configs ELSE configs \cup {f}
        BY DEF GateRejected, GateThrows, GateAccepted
    <2>2. configs = {h \in GateFiles : gate[h] # NoGate /\ ~BadGate(h)}
        BY DEF GatesInv
    <2> QED BY <1>1, <1>2, <1>3, <1>4, <2>1, <2>2
<1>6. CASE GateThrows(f, g)
    <2>1. phase' = "gates_refused" /\ BadGate(f)'
        BY <1>2, <1>6 DEF GateThrows
    <2> QED BY <1>5, <2>1 DEF GatesInv
<1>7. CASE GateRejected(f, g)
    <2>1. phase' = "gates" /\ errors' = TRUE /\ GateInvalid(g)
        BY <1>7 DEF GateRejected
    <2> QED BY <1>1, <1>2, <1>3, <1>4, <1>5, <2>1 DEF GatesInv
<1>8. CASE GateAccepted(f, g)
    <2>1. phase' = "gates" /\ errors' = errors /\ ~BadGate(f)'
        BY <1>2, <1>8 DEF GateAccepted
    <2> QED BY <1>1, <1>2, <1>3, <1>4, <1>5, <2>1 DEF GatesInv
<1> QED BY <1>6, <1>7, <1>8

\* A step that touches no gate keeps it.
LEMMA GatesKept ==
    ASSUME GatesInv, UNCHANGED <<gate, configs>>, phase' = phase, todo' = todo, errors' = errors
    PROVE  GatesInv'
<1>1. (\A f \in GateFiles : BadGate(f)' <=> BadGate(f)) /\ (DuplicateGates' <=> DuplicateGates)
    BY DEF BadGate, DuplicateGates
<1> QED BY <1>1 DEF GatesInv

\* The gates are settled when the recipes are read.
LEMMA GatesSettled ==
    ASSUME GatesInv, UNCHANGED <<gate, configs>>,
           phase \notin {"config", "gates", "gates_refused", "config_refused"},
           phase' \notin {"config", "gates", "gates_refused", "config_refused"}
    PROVE  GatesInv'
<1>1. (\A f \in GateFiles : BadGate(f)' <=> BadGate(f)) /\ (DuplicateGates' <=> DuplicateGates)
    BY DEF BadGate, DuplicateGates
<1> QED BY <1>1 DEF GatesInv

\* So every step does.
LEMMA GatesStep == TypeInv /\ GatesInv /\ [Next]_vars => GatesInv'
<1> SUFFICES ASSUME TypeInv, GatesInv, [Next]_vars PROVE GatesInv' OBVIOUS
<1>1. CASE LoadsConfig
    <2>1. UNCHANGED <<gate, errors, configs>> /\ phase = "config" /\ phase' \in {"config_refused", "gates"}
        BY <1>1 DEF LoadsConfig
    <2>2. \A f \in GateFiles : (BadGate(f)' <=> BadGate(f)) /\ ~BadGate(f)
        BY <2>1 DEF GatesInv, BadGate
    <2>3. phase' = "gates" => todo' \subseteq GateFiles
        BY <1>1 DEF LoadsConfig
    <2> QED BY <2>1, <2>2, <2>3 DEF GatesInv
<1>2. CASE GatesDone
    <2>1. UNCHANGED <<gate, configs>> /\ phase = "gates"
        BY <1>2 DEF GatesDone
    <2>2. (\A f \in GateFiles : BadGate(f)' <=> BadGate(f)) /\ (DuplicateGates' <=> DuplicateGates)
        BY <2>1 DEF BadGate, DuplicateGates
    <2>3. IF errors \/ DuplicateGates THEN phase' = "gates_refused" ELSE phase' = "recipes"
        BY <1>2 DEF GatesDone
    <2> QED BY <2>1, <2>2, <2>3 DEF GatesInv
<1>3. ASSUME NEW d \in RecipeDirs, NEW r \in Recipes, phase = "recipes",
             RecipeSkipped(d, r) \/ RecipeMalformed(d, r) \/ SearchBegins(d, r)
      PROVE  GatesInv'
    <2>1. UNCHANGED <<gate, configs>> /\ phase' \in {"recipes", "recipes_refused", "searching"}
        BY <1>3 DEF RecipeSkipped, RecipeMalformed, SearchBegins, ReadsRecipe
    <2> QED BY <1>3, <2>1, GatesSettled
<1>4. CASE Leave \/ \E s \in StageNames : EnterRoot(s) \/ Visit(s)
    <2>1. UNCHANGED <<gate, configs, phase, todo, errors>>
        BY <1>4 DEF EnterRoot, Visit, Leave
    <2> QED BY <2>1, GatesKept
<1>5. CASE RecipeJudged \/ RecipesDone \/ \E m \in Manifests : ReadsManifest(m)
    <2>1. /\ UNCHANGED <<gate, configs>>
          /\ phase \in {"searching", "recipes", "scripts"}
          /\ phase' \in {"recipes", "recipes_refused", "scripts", "scripts_refused", "running"}
        BY <1>5 DEF RecipeJudged, SearchDone, RecipesDone, ReadsManifest
    <2> QED BY <2>1, GatesSettled
<1>6. CASE UNCHANGED vars
    <2>1. UNCHANGED <<gate, configs, phase, todo, errors>>
        BY <1>6 DEF vars
    <2> QED BY <2>1, GatesKept
<1> QED BY <1>1, <1>2, <1>3, <1>4, <1>5, <1>6, GateRead, NextCases

(***************************************************************************)
(* The recipes.                                                            *)
(***************************************************************************)
Accepted(d) ==
    /\ recipe[d].file = "object" /\ ~RecipeInvalid(recipe[d])
    /\ recipe[d].cycles = "reject" => Acyclic(recipe[d])

Early == {"config", "gates", "gates_refused", "config_refused"}

UnderValidation(d) == phase = "searching" /\ d = checking

\* What is in the map was accepted and has the id it is found under.
MapInv ==
    \A i \in Ids : recipes[i] # None =>
        /\ Accepted(recipes[i]) /\ recipe[recipes[i]].id = i
        /\ ~UnderValidation(recipes[i])

\* What was read was accepted, is under validation or stopped the start.
ReadInv ==
    /\ phase \in Early => /\ \A i \in Ids : recipes[i] = None
                          /\ \A d \in RecipeDirs : recipe[d] = NoRecipe
    /\ phase \in {"recipes", "searching"} => \A d \in todo : recipe[d] = NoRecipe
    /\ phase = "searching" => recipe[checking].file = "object"
    /\ \A d \in RecipeDirs :
           recipe[d].file \in {"object", "malformed"} /\ phase # "recipes_refused"
               /\ ~UnderValidation(d) =>
           Accepted(d) /\ recipe[d].id \in Ids /\ recipes[recipe[d].id] # None

RefusalInv ==
    /\ phase \in {"scripts", "running", "scripts_refused"} => ~DuplicateCommands
    /\ phase = "recipes_refused" => DuplicateCommands \/ \E d \in RecipeDirs : BadRecipe(d)

RecipesInv == MapInv /\ ReadInv /\ RefusalInv

\* What is said of the recipes holds at the start.
LEMMA RecipesInit == Init => RecipesInv
BY DEF Init, RecipesInv, MapInv, ReadInv, RefusalInv, NoRecipe, Early

\* Steps that leave the recipes alone.
LEMMA RecipesKept ==
    ASSUME RecipesInv, UNCHANGED <<recipe, recipes, checking>>,
           phase' = phase, todo' = todo
    PROVE  RecipesInv'
<1>1. \A d : (Accepted(d)' <=> Accepted(d)) /\ (UnderValidation(d)' <=> UnderValidation(d))
             /\ (BadRecipe(d)' <=> BadRecipe(d))
    BY DEF Accepted, UnderValidation, BadRecipe, Acyclic, Sinkless, RecipeInvalid
<1>2. DuplicateCommands' <=> DuplicateCommands
    BY DEF DuplicateCommands, Loaded
<1> QED BY <1>1, <1>2 DEF RecipesInv, MapInv, ReadInv, RefusalInv

\* What stands for no recipe is an unread file.
LEMMA NoRecipeUnread == NoRecipe.file = "unread" /\ NoRecipe.id = None
BY DEF NoRecipe

\* A recipe.yaml is read: the directory was not read before.
LEMMA RecipeRead ==
    ASSUME TypeInv, RecipesInv, NEW d \in RecipeDirs, NEW r \in Recipes,
           d \in todo, phase = "recipes", ReadsRecipe(d, r),
           \/ r.file = "unreadable" /\ phase' = "recipes"
           \/ r.file = "malformed" /\ phase' = "recipes_refused"
           \/ r.file = "object" /\ phase' = "searching" /\ checking' = d
    PROVE  RecipesInv'
<1>1. /\ recipe' = [recipe EXCEPT ![d] = r] /\ todo' = todo \ {d} /\ recipes' = recipes
      /\ recipe[d] = NoRecipe /\ recipe \in [RecipeDirs -> Recipes \cup {NoRecipe}]
      /\ todo \subseteq RecipeDirs /\ recipes \in [Ids -> RecipeDirs \cup {None}]
    BY DEF ReadsRecipe, TypeInv, FilesTyped, RecipesInv, ReadInv
<1>2. recipe'[d] = r /\ \A e \in RecipeDirs : e # d => recipe'[e] = recipe[e]
    BY <1>1
<1>3. \A e \in RecipeDirs : e # d => (Accepted(e)' <=> Accepted(e))
    BY <1>2 DEF Accepted, RecipeInvalid, Acyclic, Sinkless
<1>4. \A i \in Ids : recipes[i] # None => recipes[i] # d /\ recipes[i] \in RecipeDirs
    BY <1>1, NoRecipeUnread DEF RecipesInv, MapInv, Accepted
<1>5. MapInv'
    <2>1. \A e \in RecipeDirs : e # d => ~UnderValidation(e)'
        BY DEF UnderValidation
    <2> QED BY <1>1, <1>2, <1>3, <1>4, <2>1 DEF RecipesInv, MapInv
<1>6. ReadInv'
    <2>1. phase' \notin Early
        BY DEF Early
    <2>2. phase' \in {"recipes", "searching"} => \A e \in todo' : recipe'[e] = NoRecipe
        BY <1>1, <1>2 DEF RecipesInv, ReadInv
    <2>3. phase' = "searching" => recipe'[checking'].file = "object"
        BY <1>2
    <2>4. ASSUME NEW e \in RecipeDirs, recipe'[e].file \in {"object", "malformed"},
                 phase' # "recipes_refused", ~UnderValidation(e)'
          PROVE  Accepted(e)' /\ recipe'[e].id \in Ids /\ recipes'[recipe'[e].id] # None
        <3>1. e # d
            BY <1>2, <2>4 DEF UnderValidation
        <3>2. recipe'[e] = recipe[e] /\ ~UnderValidation(e)
            BY <1>2, <3>1 DEF UnderValidation
        <3> QED BY <1>1, <1>3, <2>4, <3>1, <3>2 DEF RecipesInv, ReadInv
    <2> QED BY <2>1, <2>2, <2>3, <2>4 DEF ReadInv
<1>7. RefusalInv'
    <2>1. phase' = "recipes_refused" => BadRecipe(d)'
        BY <1>2 DEF BadRecipe
    <2> QED BY <2>1 DEF RefusalInv
<1> QED BY <1>5, <1>6, <1>7 DEF RecipesInv

\* A recipe that was judged is entered in the map or refused.
LEMMA RecipeEntered ==
    ASSUME TypeInv, SearchInv, RecipesInv, RecipeJudged
    PROVE  RecipesInv'
<1> DEFINE d == checking
           r == recipe[checking]
<1>1. phase = "searching" /\ d \in RecipeDirs /\ d # None /\ r \in Recipes /\ r.file = "object"
    BY DEF RecipeJudged, SearchDone, TypeInv, SearchTyped, RecipesInv, ReadInv
<1>2. UNCHANGED <<todo, recipe>> /\ recipes \in [Ids -> RecipeDirs \cup {None}] /\ r.id \in Ids \cup {None}
    BY <1>1, RecipeFields DEF RecipeJudged, TypeInv, FilesTyped
<1>3. cyclic <=> ~Acyclic(r)
    BY VerdictExact DEF RecipeJudged, R
<1>4. \A e : (Accepted(e)' <=> Accepted(e)) /\ (BadRecipe(e)' <=> BadRecipe(e))
    BY <1>2 DEF Accepted, BadRecipe, RecipeInvalid, Acyclic, Sinkless
<1>5. CASE Condemned(r)
    <2>1. phase' = "recipes_refused" /\ recipes' = recipes
        BY <1>5 DEF RecipeJudged
    <2>2. BadRecipe(d)
        BY <1>1, <1>3, <1>5 DEF BadRecipe, Condemned
    <2>3. \A e : ~UnderValidation(e)'
        BY <2>1 DEF UnderValidation
    <2> QED BY <1>1, <1>2, <1>4, <2>1, <2>2, <2>3 DEF RecipesInv, MapInv, ReadInv, RefusalInv, Early
<1>6. CASE ~Condemned(r)
    <2>1. phase' = "recipes" /\ recipes' = [recipes EXCEPT ![r.id] = d]
        BY <1>6 DEF RecipeJudged
    <2>2. Accepted(d) /\ r.id \in Ids
        BY <1>1, <1>2, <1>3, <1>6 DEF Accepted, Condemned, RecipeInvalid, MetadataIncomplete
    <2>3. \A e : ~UnderValidation(e)'
        BY <2>1 DEF UnderValidation
    <2>4. recipes'[r.id] = d /\ \A i \in Ids : i # r.id => recipes'[i] = recipes[i]
        BY <1>2, <2>1, <2>2
    <2>5. MapInv'
        BY <1>2, <1>4, <2>2, <2>3, <2>4 DEF RecipesInv, MapInv
    <2>6. ReadInv'
        <3>1. ASSUME NEW e \in RecipeDirs, recipe[e].file \in {"object", "malformed"}
              PROVE  Accepted(e) /\ recipe[e].id \in Ids /\ recipes'[recipe[e].id] # None
            <4>1. CASE e = d
                BY <1>1, <2>2, <2>4, <4>1
            <4>2. CASE e # d
                <5>1. Accepted(e) /\ recipe[e].id \in Ids /\ recipes[recipe[e].id] # None
                    BY <1>1, <3>1, <4>2 DEF RecipesInv, ReadInv, UnderValidation
                <5> QED BY <1>1, <2>4, <5>1
            <4> QED BY <4>1, <4>2
        <3>2. \A e \in todo : recipe[e] = NoRecipe
            BY <1>1 DEF RecipesInv, ReadInv
        <3> QED BY <1>2, <1>4, <2>1, <3>1, <3>2 DEF ReadInv, Early
    <2> QED BY <2>1, <2>5, <2>6 DEF RecipesInv, RefusalInv
<1> QED BY <1>5, <1>6

\* So every step does.
LEMMA RecipesStep == TypeInv /\ SearchInv /\ RecipesInv /\ [Next]_vars => RecipesInv'
<1> SUFFICES ASSUME TypeInv, SearchInv, RecipesInv, [Next]_vars PROVE RecipesInv' OBVIOUS
<1>1. CASE LoadsConfig \/ GatesDone \/ \E f \in GateFiles : \E g \in GateContents[f] :
               phase = "gates" /\ (GateRejected(f, g) \/ GateThrows(f, g) \/ GateAccepted(f, g))
    <2>1. UNCHANGED <<recipe, recipes, checking>> /\ phase \in {"config", "gates"}
          /\ phase' \in {"config_refused", "gates", "gates_refused", "recipes"}
        BY <1>1 DEF LoadsConfig, GatesDone, GateRejected, GateThrows, GateAccepted, ReadsGate
    <2>2. (\A i \in Ids : recipes[i] = None) /\ \A d \in RecipeDirs : recipe[d] = NoRecipe
        BY <2>1 DEF RecipesInv, ReadInv, Early
    <2>3. phase' = "recipes" => todo' \subseteq RecipeDirs
        BY <1>1, FilesTypedStep DEF FilesTyped
    <2>4. MapInv' /\ RefusalInv'
        BY <2>1, <2>2 DEF MapInv, RefusalInv
    <2>5. ReadInv'
        BY <2>1, <2>2, <2>3, NoRecipeUnread DEF ReadInv
    <2> QED BY <2>4, <2>5 DEF RecipesInv
<1>2. ASSUME NEW d \in RecipeDirs, NEW r \in Recipes, d \in todo, phase = "recipes",
             RecipeSkipped(d, r) \/ RecipeMalformed(d, r) \/ SearchBegins(d, r)
      PROVE  RecipesInv'
    BY <1>2, RecipeRead DEF RecipeSkipped, RecipeMalformed, SearchBegins
<1>3. CASE Leave \/ \E s \in StageNames : EnterRoot(s) \/ Visit(s)
    <2>1. UNCHANGED <<recipe, recipes, checking, phase, todo>>
        BY <1>3 DEF EnterRoot, Visit, Leave
    <2> QED BY <2>1, RecipesKept
<1>4. CASE RecipeJudged
    BY <1>4, RecipeEntered
<1>5. CASE RecipesDone \/ \E m \in Manifests : ReadsManifest(m)
    <2>1. /\ UNCHANGED <<recipe, recipes, checking>> /\ phase \in {"recipes", "scripts"}
          /\ phase' \in {"recipes_refused", "scripts", "scripts_refused", "running"}
        BY <1>5 DEF RecipesDone, ReadsManifest
    <2>2. DuplicateCommands <=> DuplicateCommands'
        BY <2>1 DEF DuplicateCommands, Loaded
    <2>3. /\ phase' = "recipes_refused" => DuplicateCommands
          /\ phase' # "recipes_refused" => ~DuplicateCommands
        BY <1>5 DEF RecipesDone, ReadsManifest, RecipesInv, RefusalInv
    <2>4. \A e : (Accepted(e)' <=> Accepted(e)) /\ ~UnderValidation(e)' /\ ~UnderValidation(e)
        BY <2>1 DEF Accepted, UnderValidation, RecipeInvalid, Acyclic, Sinkless
    <2> QED BY <2>1, <2>2, <2>3, <2>4 DEF RecipesInv, MapInv, ReadInv, RefusalInv, Early
<1>6. CASE UNCHANGED vars
    <2>1. UNCHANGED <<recipe, recipes, checking, phase, todo>>
        BY <1>6 DEF vars
    <2> QED BY <2>1, RecipesKept
<1> QED BY <1>1, <1>2, <1>3, <1>4, <1>5, <1>6, NextCases

Inv == TypeInv /\ SearchInv /\ GatesInv /\ RecipesInv

\* So all invariants hold always.
LEMMA Inductive == Spec => []Inv
<1>1. Init => Inv
    <2>1. Init => SearchInv
        BY DEF Init, SearchInv
    <2> QED BY <2>1, TypeInit, GatesInit, RecipesInit DEF Inv
<1>2. Inv /\ [Next]_vars => Inv'
    BY FilesTypedStep, SearchTypedStep, SearchStep, GatesStep, RecipesStep DEF Inv, TypeInv
<1> QED BY <1>1, <1>2, PTL DEF Spec

(***************************************************************************)
(* The depth-first search of hasCycles gives the right verdict about every *)
(* graph of stages: it reports a cycle when it ends if and only if some    *)
(* set of stages has no way out.                                           *)
(***************************************************************************)
THEOREM CycleVerdict == Spec => [](SearchDone => (cyclic <=> ~Acyclic(recipe[checking])))
<1>1. Inv => (SearchDone => (cyclic <=> ~Acyclic(recipe[checking])))
    BY VerdictExact DEF Inv, R
<1> QED BY <1>1, Inductive, PTL

\* A valid recipe names each of its stages exactly once in stage_order.
LEMMA NamedOnce ==
    ASSUME NEW r \in Recipes, ~RecipeInvalid(r), NEW s \in r.stages
    PROVE  Cardinality({i \in DOMAIN r.order : r.order[i] = s}) = 1
<1>1. s # Junk
    BY RecipeFields, RecipeFileAssumption
<1>2. PICK k \in DOMAIN r.order : r.order[k] = s
    BY DEF RecipeInvalid, OrphanStage
<1>3. \A i \in DOMAIN r.order : r.order[i] = s => i = k
    <2> SUFFICES ASSUME NEW i \in DOMAIN r.order, r.order[i] = s, i # k PROVE FALSE
        OBVIOUS
    <2>1. i \in Int /\ k \in Int
        BY RecipeFields
    <2>2. i < k \/ k < i
        BY <2>1
    <2> QED BY <1>1, <1>2, <2>2 DEF RecipeInvalid, DuplicateEntry
<1>4. {i \in DOMAIN r.order : r.order[i] = s} = {k}
    BY <1>2, <1>3
<1> QED BY <1>4, FS_Singleton

(***************************************************************************)
(* Whatever the recipe directories hold, a recipe in the map has a start   *)
(* stage and transitions that exist, an order that names every stage once, *)
(* and no cycle it does not ask for.                                       *)
(***************************************************************************)
THEOREM RecipesAreSound == Spec => []RecipesSound
<1>1. Inv => RecipesSound
    <2> SUFFICES ASSUME Inv, NEW d \in Loaded PROVE Sound(recipe[d])
        BY DEF RecipesSound
    <2>1. d \in RecipeDirs /\ Accepted(d)
        BY DEF Inv, TypeInv, FilesTyped, RecipesInv, MapInv, Loaded
    <2>2. recipe[d] \in Recipes
        BY <2>1, NoRecipeUnread DEF Inv, TypeInv, FilesTyped, Accepted
    <2>3. ~RecipeInvalid(recipe[d])
        BY <2>1 DEF Accepted
    <2>4. \A s \in recipe[d].stages : recipe[d].next[s] \subseteq recipe[d].stages \cup {Junk}
        BY <2>3 DEF RecipeInvalid, TargetUnknown
    <2>5. \A s \in recipe[d].stages : Cardinality({i \in DOMAIN recipe[d].order : recipe[d].order[i] = s}) = 1
        BY <2>2, <2>3, NamedOnce
    <2>6. recipe[d].start \in recipe[d].stages
        BY <2>3 DEF RecipeInvalid, StartUnknown
    <2>7. \A i \in DOMAIN recipe[d].order : recipe[d].order[i] \in recipe[d].stages \cup {Junk}
        BY <2>3 DEF RecipeInvalid, EntryUnknown
    <2> QED BY <2>1, <2>4, <2>5, <2>6, <2>7 DEF Sound, Accepted
<1> QED BY <1>1, Inductive, PTL

(***************************************************************************)
(* The start is refused for a fault of some file and not otherwise, and    *)
(* never goes on past one, in whatever order the files are read.           *)
(***************************************************************************)
THEOREM RefusalsAreTrue == Spec => []RefusedForCause
<1>1. Inv => RefusedForCause
    <2> SUFFICES ASSUME Inv PROVE RefusedForCause
        OBVIOUS
    <2>1. phase = "gates_refused" => DuplicateGates \/ \E f \in GateFiles : BadGate(f)
        BY DEF Inv, GatesInv
    <2>2. phase = "recipes_refused" => DuplicateCommands \/ \E d \in RecipeDirs : BadRecipe(d)
        BY DEF Inv, RecipesInv, RefusalInv
    <2>3. phase \in {"recipes", "searching", "scripts", "running"} =>
              ~DuplicateGates /\ \A f \in GateFiles : ~BadGate(f)
        BY DEF Inv, GatesInv
    <2>4. ASSUME phase \in {"scripts", "running"}, NEW d \in RecipeDirs PROVE ~BadRecipe(d)
        <3>1. recipe[d].file \in {"object", "malformed"} => Accepted(d)
            BY <2>4 DEF Inv, RecipesInv, ReadInv, UnderValidation
        <3> QED BY <3>1 DEF BadRecipe, Accepted
    <2>5. phase \in {"scripts", "running"} => ~DuplicateCommands
        BY DEF Inv, RecipesInv, RefusalInv
    <2> QED BY <2>1, <2>2, <2>3, <2>4, <2>5 DEF RefusedForCause
<1> QED BY <1>1, Inductive, PTL

\* A set whose members are all equal has at most one.
LEMMA AtMostOne ==
    ASSUME NEW S, \A x, y \in S : x = y
    PROVE  Cardinality(S) <= 1
<1>1. CASE S = {}
    BY <1>1, FS_EmptySet
<1>2. CASE S # {}
    <2>1. PICK x \in S : TRUE
        BY <1>2
    <2>2. S = {x}
        BY <2>1
    <2> QED BY <2>2, FS_Singleton
<1> QED BY <1>1, <1>2

(***************************************************************************)
(* Once the application runs no command is ambiguous, and no gate or       *)
(* recipe that was read is out of reach, but for one that is disabled, one *)
(* a recipe takes precedence over, and one replaced by its namesake.       *)
(***************************************************************************)
THEOREM EveryCommandServed == Spec => []AllServed
<1>1. Inv => AllServed
    <2> SUFFICES ASSUME Inv, phase = "running" PROVE AllServed
        BY DEF AllServed
    <2>1. ~DuplicateGates /\ \A f \in GateFiles : ~BadGate(f)
        BY DEF Inv, GatesInv
    <2>2. ~DuplicateCommands
        BY DEF Inv, RecipesInv, RefusalInv
    <2>3. configs = {f \in GateFiles : gate[f] # NoGate}
        BY <2>1 DEF Inv, GatesInv
    <2>4. \A c, d, e : d \in RecipesFor(c) /\ e \in RecipesFor(c) => d = e
        BY <2>2 DEF RecipesFor, DuplicateCommands
    <2>5. \A c, f, h : f \in GatesFor(c) /\ h \in GatesFor(c) => f = h
        BY <2>1 DEF GatesFor, DuplicateGates
    <2>6. \A c \in Commands : Cardinality(Served(c)) <= 1
        <3> TAKE c \in Commands
        <3>1. \A x, y \in Served(c) : x = y
            BY <2>4, <2>5 DEF Served
        <3> QED BY <3>1, AtMostOne
    <2>7. ASSUME NEW f \in GateFiles, gate[f].file = "object", gate[f].enabled
          PROVE  Served(gate[f].command) = {f} \/ \E d \in Loaded : Served(gate[f].command) = {d}
        <3> DEFINE c == gate[f].command
        <3>1. f \in GatesFor(c)
            BY <2>3, <2>7 DEF GatesFor, NoGate
        <3>2. CASE RecipesFor(c) = {}
            <4>1. Served(c) = GatesFor(c)
                BY <3>2 DEF Served
            <4> QED BY <2>5, <3>1, <4>1
        <3>3. CASE RecipesFor(c) # {}
            <4>1. PICK d : d \in RecipesFor(c)
                BY <3>3
            <4>2. Served(c) = RecipesFor(c)
                BY <3>3 DEF Served
            <4>3. d \in Loaded
                BY <4>1 DEF RecipesFor
            <4>4. Served(c) = {d}
                BY <2>4, <4>1, <4>2
            <4> QED BY <4>3, <4>4
        <3> QED BY <3>2, <3>3
    <2>8. ASSUME NEW d \in RecipeDirs, recipe[d].file = "object", ~Replaced(d)
          PROVE  Served(recipe[d].command) = {d}
        <3>1. recipe[d].id \in Ids /\ recipes[recipe[d].id] # None
            BY <2>8 DEF Inv, RecipesInv, ReadInv, UnderValidation
        <3>2. recipes[recipe[d].id] = d /\ d # None
            BY <2>8, <3>1 DEF Replaced
        <3>3. d \in Loaded
            BY <3>1, <3>2 DEF Loaded
        <3>4. d \in RecipesFor(recipe[d].command)
            BY <3>3 DEF RecipesFor
        <3>5. Served(recipe[d].command) = RecipesFor(recipe[d].command)
            BY <3>4 DEF Served
        <3> QED BY <2>4, <3>4, <3>5
    <2> QED BY <2>6, <2>7, <2>8 DEF AllServed
<1> QED BY <1>1, Inductive, PTL
=============================================================================
