------------------------------ MODULE MCRecipeRun ------------------------------
(* Instances of RecipeRun for TLC. *)
EXTENDS RecipeRun

\* The last step of the cleanup has an extension without a cancel handler.
MCUncancellable == {<<"cleanup", Cleanups>>}

\* A step of the body is tried twice, one of the cleanup once.
MCRetries == [step |-> 1, cleanup |-> 0]
==============================================================================
