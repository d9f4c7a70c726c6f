------------------------------- MODULE Corpus -------------------------------
(***************************************************************************)
(* The data a consolidation reads: the BRICK3_COMPLETE rows of the source  *)
(* shard databases of one dataset.  A row is one candidate stream.  Its    *)
(* admission is decided by the structured Brick-3 receipt, never by the    *)
(* cached historical status, and its identity is the receipt's canonical   *)
(* event hash: rows with the same hash are the same score.                 *)
(*                                                                         *)
(* A stream identifier is a natural number, so that "order by id" is <.    *)
(***************************************************************************)
EXTENDS Naturals, FiniteSets

CONSTANTS ShardCount,   \* number of source packages, numbered from 0
          Stream,       \* identifiers of the rows of every shard
          Hash,         \* canonical event hashes
          NoHash,       \* "the receipt holds no canonical event hash"
          Corpora       \* the datasets the model starts from and takes rows of

Shards == 0 .. ShardCount - 1

Item == [shard      : Shards,
         receipt    : {"ACCEPT", "REJECT", "NONE", "OTHER"},
         historical : {"ACCEPT", "REJECT", "NONE", "OTHER"},
         hash       : Hash \cup {NoHash},
         agrees     : BOOLEAN,   \* items.canonical_hash is null or the same
         scored     : BOOLEAN]   \* the receipt holds a well-formed score

ASSUME ShardCountAssumption == ShardCount \in Nat \ {0}
ASSUME StreamAssumption == Stream \subseteq Nat /\ IsFiniteSet(Stream)
ASSUME NoHashAssumption == NoHash \notin Hash
ASSUME CorporaAssumption == Corpora \subseteq [Stream -> Item]

VARIABLE corpus   \* the rows of the packages as they are published now

-----------------------------------------------------------------------------
(* An explicit ACCEPT decision with a hash both records agree on.          *)
Accepted(i) ==
    /\ corpus[i].receipt = "ACCEPT"
    /\ corpus[i].historical # "OTHER"
    /\ corpus[i].hash # NoHash
    /\ corpus[i].agrees

(* An explicit REJECT, or no decision and no historical claim of ACCEPT.   *)
Rejected(i) ==
    \/ corpus[i].receipt = "REJECT"
    \/ corpus[i].receipt = "NONE" /\ corpus[i].historical # "ACCEPT"

(* What materialize_canonical_stream requires before it writes a score.    *)
Materialisable(i) == corpus[i].historical = "ACCEPT" /\ corpus[i].scored

Rows(s) == {i \in Stream : corpus[i].shard = s}

AcceptedRows(s) == {i \in Rows(s) : Accepted(i)}

Copies(s, h) == {i \in AcceptedRows(s) : corpus[i].hash = h}

(* i is consumed before j: ascending shards, ascending ids in a shard.     *)
Before(i, j) ==
    \/ corpus[i].shard < corpus[j].shard
    \/ corpus[i].shard = corpus[j].shard /\ i < j

(* i is the stream a deterministic pass over the whole run keeps.          *)
FirstOwner(i) ==
    /\ Accepted(i)
    /\ \A j \in Stream :
          Accepted(j) /\ corpus[j].hash = corpus[i].hash => i = j \/ Before(i, j)

(* Package s published again, with the same rows or with others.           *)
Reissues(s) ==
    {[i \in Stream |-> IF i \in Rows(s) THEN c[i] ELSE corpus[i]] :
        c \in {d \in Corpora : \A i \in Stream : d[i].shard = corpus[i].shard}}

OwnerOf(h) == CHOOSE o \in Stream : FirstOwner(o) /\ corpus[o].hash = h
=============================================================================
