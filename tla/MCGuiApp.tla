------------------------------ MODULE MCGuiApp ------------------------------
(* Instances of GuiApp for TLC. *)
EXTENDS GuiApp, TLC

KeySymmetry == Permutations(Keys)
=============================================================================
