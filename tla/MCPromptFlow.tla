---------------------------- MODULE MCPromptFlow ----------------------------
(* Prompts of the Baking app with their numbers of labels, MaxScreens cut   *)
(* from 7 to 5, the longest of them; the derivation behind an address may   *)
(* fail, and authorising a key or setting up writes flash.                 *)
EXTENDS PromptFlow

CONSTANTS reset, provide, setup

PromptScreens ==
    [r \in Request |-> CASE r = reset -> 1 [] r = provide -> 2 [] r = setup -> 5]

FailingValues == {<<provide, 1>>, <<setup, 1>>}

=============================================================================
