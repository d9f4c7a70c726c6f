----------------------------- MODULE NasCleanup -----------------------------
(***************************************************************************)
(* The last copy to go.  An earlier migration left copies of the objects   *)
(* in a CloudDocs folder of a Mac.  Once the evacuation to the NAS has its *)
(* terminal receipt, a script compares the folder with the inventory it    *)
(* was verified by and removes it, all over ssh; the folder may change and *)
(* a connection fail between any two of its calls.                         *)
(***************************************************************************)
EXTENDS NasArchive

CONSTANTS File,          \* paths in the folder
          Expected,      \* their sizes in the verified inventory
          Gone           \* the folder does not exist

Trees == [File -> 0 .. 2]   \* size of each file, 0 = no such file

ASSUME ExpectedAssumption == Expected \in Trees
ASSUME GoneAssumption == Gone \notin Trees

VARIABLES
    cloud,      \* the folder on the Mac
    state,      \* the script: the status it wrote, or what it does next
    erased      \* files it has removed

cleanup  == <<cloud, state, erased>>
allVars  == <<vars, cleanup>>

Files(tree) == {f \in File : tree[f] # 0}

CInit ==
    /\ Init
    /\ cloud = Expected
    /\ state = "off"
    /\ erased = {}

(* A file appears in the folder, or one in it changes its size.  Nothing   *)
(* looks at the folder before the terminal receipt.                        *)
Change(f) ==
    /\ stage = "done" /\ cloud # Gone
    /\ \E size \in 1 .. 2 : size # cloud[f] /\ cloud' = [cloud EXCEPT ![f] = size]
    /\ UNCHANGED <<vars, state, erased>>

Ended == {"off", "ICLOUD_UNREACHABLE", "ICLOUD_INVENTORY_MISMATCH", "ICLOUD_DELETE_FAILED", "COMPLETE"}

Compared == \/ cloud = Expected /\ state' = "delete"
            \/ cloud \notin {Expected, Gone} /\ state' = "ICLOUD_INVENTORY_MISMATCH"
            \/ state' = "ICLOUD_UNREACHABLE"

(* Mutation: complete copies are enough, the deletion need not be over.    *)
CompareAfterCopies ==
    /\ state \in Ended /\ complete = Worker
    /\ Compared
    /\ UNCHANGED <<vars, cloud, erased>>

(* The script is started any number of times and ends with a status.  It   *)
(* waits for the terminal receipt, lists the folder and compares the       *)
(* listing's digest with that of the inventory.                            *)
Compare ==
    /\ state \in Ended /\ stage = "done"
    /\ Compared
    /\ UNCHANGED <<vars, cloud, erased>>

(* find -delete, rmdir and a test that the folder is gone: the exit status *)
(* is that of the test, or of ssh itself.  The script may be killed before *)
(* it reports what came out.                                               *)
Delete ==
    /\ state = "delete"
    /\ \/ /\ cloud' = Gone /\ erased' = erased \cup Files(cloud)
          /\ state' \in {"COMPLETE", "ICLOUD_DELETE_FAILED", "off"}
       \/ /\ \E kept \in SUBSET Files(cloud) :
               /\ erased' = erased \cup (Files(cloud) \ kept)
               /\ cloud' = [f \in File |-> IF f \in kept THEN cloud[f] ELSE 0]
          /\ state' \in {"ICLOUD_DELETE_FAILED", "off"}
    /\ UNCHANGED vars

Kill ==
    /\ state \notin Ended /\ state' = "off"
    /\ UNCHANGED <<vars, cloud, erased>>

CNext == \/ Next /\ UNCHANGED cleanup
         \/ \E f \in File : Change(f)
         \/ Compare \/ Delete \/ Kill

CSpec == CInit /\ [][CNext]_allVars

(* The evacuation is kept going as before; nothing is assumed of the       *)
(* script, which somebody starts by hand.                                  *)
CFairSpec == CSpec /\ Fairness

-----------------------------------------------------------------------------
(* Every variable of the clean-up holds a value of its kind.               *)
CTypeOK ==
    /\ cloud \in Trees \cup {Gone}
    /\ state \in Ended \cup {"delete"}
    /\ erased \subseteq File

(* The script removes nothing before the store is empty and the NAS alone  *)
(* can answer for every object in its newest version, those that the       *)
(* deletion by name has lost excepted: through kills, failed calls and new *)
(* runs of the script.                                                     *)
ErasedIsArchived ==
    erased # {} => /\ r2 = Nothing
                   /\ \A k \in Keys \ lost : written[k] > 0 => Archived(k)
=============================================================================
