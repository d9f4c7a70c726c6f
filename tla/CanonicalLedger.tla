-------------------------- MODULE CanonicalLedger --------------------------
(***************************************************************************)
(* What a streaming consolidation promises, without hosts, indexes,        *)
(* uploads or restarts.  Shards are published once, in ascending order.    *)
(* A published shard lists every accepted stream with the stream kept for  *)
(* its score, which is the first owner in run order whatever happened in   *)
(* between, and materialises scores of first owners only.  The run is      *)
(* finished only when every shard is published.                            *)
(*                                                                         *)
(* A source package may be published again with other rows.  Before its    *)
(* shard was projected that is just another dataset; after that nothing is *)
(* promised about the owners in the shards from there on.                  *)
(*                                                                         *)
(* The promise is deliberately silent on whether the score of a first      *)
(* owner is always materialised: after an ill-timed restart it is not.     *)
(***************************************************************************)
EXTENDS Corpus

VARIABLES ledger,         \* ledger[s]: accepted streams of s and their owners
          materialised,   \* streams with a stored canonical score
          reissued,       \* shards that got other rows after their projection
          finished

lvars == <<corpus, ledger, materialised, reissued, finished>>

Unpublished == [published |-> FALSE]

(* The ledger of a published shard.                                        *)
Published(s) ==
    [published |-> TRUE,
     owner     |-> [i \in AcceptedRows(s) |-> OwnerOf(corpus[i].hash)]]

Sound(s) == \A t \in reissued : s < t

LInit ==
    /\ corpus \in Corpora
    /\ ledger = [s \in Shards |-> Unpublished]
    /\ materialised = {}
    /\ reissued = {}
    /\ finished = FALSE

Reissue(s) ==
    /\ corpus' \in Reissues(s)
    /\ \/ reissued' = reissued \cup {s}
       \/ ~ledger[s].published /\ UNCHANGED reissued
    /\ UNCHANGED <<ledger, materialised, finished>>

Publish(s) ==
    /\ ~ledger[s].published
    /\ \A t \in Shards : t < s => ledger[t].published
    /\ ledger' = [ledger EXCEPT ![s] = ledger'[s]]
    /\ ledger'[s].published
    /\ \E scores \in SUBSET Stream :
          /\ materialised' = materialised \cup scores
          /\ Sound(s) => /\ ledger'[s] = Published(s)
                         /\ scores \subseteq {i \in Rows(s) : FirstOwner(i)}
    /\ UNCHANGED <<corpus, reissued, finished>>

Finish ==
    /\ \A s \in Shards : ledger[s].published
    /\ finished' = TRUE
    /\ UNCHANGED <<corpus, ledger, materialised, reissued>>

LNext == Finish \/ \E s \in Shards : Publish(s) \/ Reissue(s)

LSpec == LInit /\ [][LNext]_lvars
=============================================================================
