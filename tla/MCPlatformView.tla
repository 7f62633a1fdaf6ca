--------------------------- MODULE MCPlatformView ---------------------------
(* Handlers share nothing, so one is enough; the limits are below the bound   *)
(* on runs, so that each cuts something off.  Event ids are only compared.    *)
EXTENDS PlatformView, TLC

EventSymmetry == Permutations(Events)
=============================================================================
