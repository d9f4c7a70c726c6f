--------------------------- MODULE MCCorpusState ---------------------------
(***************************************************************************)
(* Two automatic sources, the first with two partitions, then a gated one  *)
(* at the end of the registry, as in configs/sources/registry.json.        *)
(***************************************************************************)
EXTENDS CorpusState, TLC

CONSTANTS maestro, aria, maps

MCRegistry  == <<maestro, aria, maps>>
MCCandidate == 1 .. 3
MCSourceOf  == (1 :> maestro) @@ (2 :> maestro) @@ (3 :> aria)
MCPartOf    == (1 :> 0) @@ (2 :> 1) @@ (3 :> 0)
=============================================================================
