--------------------------- MODULE MCAcquisition ---------------------------
(***************************************************************************)
(* A prefetch, a build and a worker on one root; an artifact of two pieces *)
(* with a nested archive.                                                  *)
(***************************************************************************)
EXTENDS Acquisition

CONSTANTS prefetch, build, worker
=============================================================================
