---------------------------- MODULE MCIcloudRelay ----------------------------
(***************************************************************************)
(* Small instances of IcloudRelay: an object of three chunks whose second  *)
(* version has the same size, one of one chunk that grows to two, and one  *)
(* that stays small; the last two share a pack.                            *)
(***************************************************************************)
EXTENDS IcloudRelay

MCChunks == << <<3, 3>>, <<1, 2>>, <<1, 1>> >>
=============================================================================
