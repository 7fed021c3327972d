-------------------------- MODULE SurfaceRuntimeMC --------------------------
(***************************************************************************)
(* One id, two sessions and two calls: enough for a release that is        *)
(* overtaken by an acquire, a replacement that is overtaken by either,     *)
(* and an instance that is started again.                                  *)
(***************************************************************************)
EXTENDS SurfaceRuntime

CONSTANTS s1, h1, h2, c1, c2

=============================================================================
