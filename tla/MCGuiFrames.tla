---------------------------- MODULE MCGuiFrames ----------------------------
(* Instances of GuiFrames for TLC.                                         *)
EXTENDS GuiFrames

CONSTANTS f1, f2
=============================================================================
