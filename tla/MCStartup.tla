----------------------------- MODULE MCStartup -----------------------------
(* Two gate files, a recipe with every graph of three stages, and a second *)
(* one that breaks a rule or collides with the first or with a gate.       *)
EXTENDS StartupProps, TLC

CONSTANTS I, J, A, B, X, Y, Z, P, Q, G1, G2, D1, D2, S1

AGate ==
    [file |-> "object", id |-> I, command |-> A, enabled |-> TRUE, env |-> TRUE,
     workflow |-> {P}, after |-> {P}, section |-> TRUE,
     steps |-> [s \in {P, Q} |-> IF s = P THEN "runnable" ELSE None]]

\* One fault each, and a definition without execution, which is none.
FaultyGates ==
    {[AGate EXCEPT !.file = f] : f \in {"unreadable", "malformed"}}
    \cup {[AGate EXCEPT !.steps[Q] = d] : d \in {"incomplete", "unknown_type", "bare", "null"}}
    \cup {[AGate EXCEPT !.env = FALSE], [AGate EXCEPT !.id = None], [AGate EXCEPT !.section = FALSE],
          [AGate EXCEPT !.workflow = {P, Q}], [AGate EXCEPT !.workflow = {}], [AGate EXCEPT !.after = {Q}]}

MCGateContents ==
    (G1 :> FaultyGates)
    @@ (G2 :> {[AGate EXCEPT !.id = J, !.command = B, !.enabled = e] : e \in BOOLEAN}
              \cup {[AGate EXCEPT !.command = B], [AGate EXCEPT !.id = J, !.enabled = FALSE]})

ARecipe ==
    [file |-> "object", id |-> I, command |-> A, texts |-> TRUE, stages |-> {X, Y, Z},
     order |-> <<Y, Junk, X, Z>>, start |-> X,
     next |-> [s \in {X, Y, Z} |-> {}], cycles |-> "reject"]

Graphs3 == [{X, Y, Z} -> SUBSET {X, Y, Z}]

\* An accepted recipe with transitions that are no text, and faults.
SmallRecipe ==
    [ARecipe EXCEPT !.id = J, !.command = B, !.stages = {X, Y}, !.order = <<X, Y>>,
                    !.next[X] = {Y, Junk}]

OtherRecipes ==
    {[SmallRecipe EXCEPT !.id = i, !.command = c] : i \in {I, J, None}, c \in {A, B}}
    \cup {[SmallRecipe EXCEPT !.file = f] : f \in {"unreadable", "malformed"}}
    \cup {[SmallRecipe EXCEPT !.order = o] : o \in {<<>>, <<X>>, <<X, Y, X>>, <<X, Y, Z>>}}
    \cup {[SmallRecipe EXCEPT !.start = s] : s \in {None, Z}}
    \cup {[SmallRecipe EXCEPT !.next[Y] = {Z}], [SmallRecipe EXCEPT !.texts = FALSE],
          [SmallRecipe EXCEPT !.next[Y] = {X}, !.cycles = "allow"]}

MCRecipeContents ==
    (D1 :> {[ARecipe EXCEPT !.next = n] : n \in Graphs3}
           \cup {[ARecipe EXCEPT !.next[X] = {X}, !.cycles = "allow"]})
    @@ (D2 :> OtherRecipes)

AnEntry == [id |-> S1, texts |-> TRUE, found |-> TRUE]

MCManifests ==
    {<<>>, <<AnEntry>>, <<AnEntry, AnEntry>>, <<[AnEntry EXCEPT !.id = None]>>,
     <<[AnEntry EXCEPT !.texts = FALSE]>>, <<[AnEntry EXCEPT !.found = FALSE]>>}
=============================================================================
