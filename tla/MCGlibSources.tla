---------------------------- MODULE MCGlibSources -------------------------------
(***************************************************************************)
(* Two chips and a request: a descriptor is given up by one and taken by   *)
(* another of either kind.  Three events, a buffer that holds two.         *)
(***************************************************************************)
EXTENDS GlibSources
=================================================================================
