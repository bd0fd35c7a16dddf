---------------------------- MODULE MCPromptUi ----------------------------
(* The Baking app's prompts with their numbers of labels; the derivation    *)
(* behind the address of a delegation or a set-up may fail.                *)
EXTENDS PromptUi

CONSTANTS reset, provide, delegate, setup

PromptScreens ==
    [r \in Request |-> CASE r = reset -> 1 [] r = provide -> 2
                         [] r = delegate -> 3 [] r = setup -> 5]

FailingValues == {<<delegate, 1>>, <<setup, 1>>}

=============================================================================
