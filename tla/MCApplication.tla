--------------------------- MODULE MCApplication ----------------------------
(* Instances of Application, chosen by the cfg file.                       *)
EXTENDS Application
=============================================================================
