----------------------------- MODULE MCStartup -----------------------------
(* A template in the plug-in's home, in the installation, or none.         *)
EXTENDS Startup

MCTemplateSets == {{}, {"home"}, {"shipped"}}
=============================================================================
