----------------------------- MODULE CoreProofs -----------------------------
(***************************************************************************)
(* Proofs about the core pipeline.                                         *)
(*                                                                         *)
(* CorpusState, for any registry, partition of candidates and bounds: type *)
(* correctness, that DONE means derived when no merge begins before the    *)
(* workers of its sources are through or runs over a half-done release,    *)
(* and that a finished run has settled every source.                       *)
(*                                                                         *)
(* PedalFlattening, for any channels, keys and length of a track: type     *)
(* correctness, that a deferred note sounds only while a pedal holds it,   *)
(* and that a message ends only the notes it is about.                     *)
(***************************************************************************)
EXTENDS CorpusState, PedalFlattening, WellFoundedInduction, TLAPS

Rows == [decision : {"ABSENT", "NONE", "ACCEPT", "REJECT"}, hash : BOOLEAN]

(* A run that works on a source is at a place of the registry, and derives *)
(* candidates of that source under the write lock.                         *)
RunInv ==
    /\ run.pc \in {"download", "derive"} => run.at <= Len(Registry)
    /\ run.pc = "derive" => writer = "run" /\ run.todo \subseteq Of(Current)
    /\ run.pc \in {"visit", "download"} => run.todo = {}

TypeInv == TypeOK /\ RunInv

LEMMA RowTypes ==
    /\ NoRow \in Rows /\ Derived \in Rows
    /\ \A c \in Candidate : Decided(c) \in Rows
    /\ \A c \in Candidate : Decided(c).decision \in {"ACCEPT", "REJECT"}
  BY DEF Rows, NoRow, Derived, Decided

LEMMA LedgerFields ==
    ASSUME NEW l \in Ledgers
    PROVE  /\ l.state \in [Source -> States] /\ l.items \in [Candidate -> Rows]
           /\ l = [state |-> l.state, items |-> l.items]
  BY DEF Ledgers, Rows

LEMMA MarkType ==
    ASSUME NEW l \in Ledgers, NEW s \in Source, NEW state \in States
    PROVE  /\ Mark(l, s, state) \in Ledgers
           /\ Mark(l, s, state).items = l.items
           /\ \A t \in Source : Mark(l, s, state).state[t] = IF t = s THEN state ELSE l.state[t]
  <1>1. l.state \in [Source -> States] /\ l.items \in [Candidate -> Rows]
    BY LedgerFields
  <1> QED BY <1>1 DEF Mark, Ledgers, Rows

LEMMA PutType ==
    ASSUME NEW l \in Ledgers, NEW S \in SUBSET Candidate, NEW rows \in [S -> Rows]
    PROVE  /\ Put(l, rows) \in Ledgers
           /\ Put(l, rows).state = l.state
           /\ \A c \in Candidate : Put(l, rows).items[c] = IF c \in S THEN rows[c] ELSE l.items[c]
  <1>1. l.state \in [Source -> States] /\ l.items \in [Candidate -> Rows]
    BY LedgerFields
  <1> QED BY <1>1 DEF Put, Ledgers, Rows

LEMMA CurrentSource ==
    ASSUME RegistryAssumption, NEW i \in 1 .. Len(Registry)
    PROVE  Registry[i] \in Source
  BY DEF Source

(* What the run puts in for one candidate, decided or not.                 *)
LEMMA PutDecided ==
    ASSUME NEW l \in Ledgers, NEW c \in Candidate
    PROVE  LET new == Put(l, [x \in {c} |-> Decided(c)])
           IN  /\ new \in Ledgers /\ new.state = l.state
               /\ \A d \in Candidate : new.items[d] = IF d = c THEN Decided(c) ELSE l.items[d]
  <1> DEFINE rows == [x \in {c} |-> Decided(c)]
  <1>1. rows \in [{c} -> Rows] /\ rows[c] = Decided(c)
    BY RowTypes
  <1>2. {c} \in SUBSET Candidate
    OBVIOUS
  <1> HIDE DEF rows
  <1>3. /\ Put(l, rows) \in Ledgers /\ Put(l, rows).state = l.state
        /\ \A d \in Candidate : Put(l, rows).items[d] = IF d \in {c} THEN rows[d] ELSE l.items[d]
    BY <1>1, <1>2, PutType
  <1> QED BY <1>1, <1>3 DEF rows

LEMMA PutDerived ==
    ASSUME NEW l \in Ledgers, NEW cs \in SUBSET Candidate
    PROVE  LET new == Put(l, [c \in cs |-> Derived])
           IN  /\ new \in Ledgers /\ new.state = l.state
               /\ \A d \in Candidate \ cs : new.items[d] = l.items[d]
  <1> DEFINE rows == [c \in cs |-> Derived]
  <1>1. rows \in [cs -> Rows]
    BY RowTypes
  <1> HIDE DEF rows
  <1>3. /\ Put(l, rows) \in Ledgers /\ Put(l, rows).state = l.state
        /\ \A d \in Candidate : Put(l, rows).items[d] = IF d \in cs THEN rows[d] ELSE l.items[d]
    BY <1>1, PutType
  <1> QED BY <1>3 DEF rows

LEMMA ShardRowsType ==
    ASSUME NEW s \in Source, NEW p \in Partition
    PROVE  \E S \in SUBSET Candidate :
             /\ ShardRows(s, p) \in [S -> Rows]
             /\ <<s, p>> \in shards.stored => S = {x \in Of(s) : PartOf[x] = p}
             /\ \A c \in S : ShardRows(s, p)[c] = Decided(c)
  <1> DEFINE T == IF <<s, p>> \in shards.stored THEN {x \in Of(s) : PartOf[x] = p} ELSE {}
  <1>1. T \in SUBSET Candidate
    BY DEF Of
  <1>2. ShardRows(s, p) = [c \in T |-> Decided(c)]
    BY DEF ShardRows
  <1>3. ShardRows(s, p) \in [T -> Rows] /\ \A c \in T : ShardRows(s, p)[c] = Decided(c)
    BY <1>1, <1>2, RowTypes
  <1> QED BY <1>1, <1>3

(* A merge of a stored partition decides the candidates of the partition.  *)
LEMMA PutShard ==
    ASSUME NEW l \in Ledgers, NEW s \in Source, NEW p \in Partition
    PROVE  LET new == Put(l, ShardRows(s, p))
           IN  /\ new \in Ledgers /\ new.state = l.state
               /\ \A d \in Candidate : new.items[d] \in {Decided(d), l.items[d]}
               /\ <<s, p>> \in shards.stored =>
                    \A d \in Of(s) : PartOf[d] = p => new.items[d] = Decided(d)
  <1>1. PICK S \in SUBSET Candidate :
             /\ ShardRows(s, p) \in [S -> Rows]
             /\ <<s, p>> \in shards.stored => S = {x \in Of(s) : PartOf[x] = p}
             /\ \A c \in S : ShardRows(s, p)[c] = Decided(c)
    BY ShardRowsType
  <1> DEFINE rows == ShardRows(s, p)
  <1> HIDE DEF rows
  <1>2. rows \in [S -> Rows] /\ \A c \in S : rows[c] = Decided(c)
    BY <1>1 DEF rows
  <1>3. /\ Put(l, rows) \in Ledgers /\ Put(l, rows).state = l.state
        /\ \A d \in Candidate : Put(l, rows).items[d] = IF d \in S THEN rows[d] ELSE l.items[d]
    BY <1>2, PutType
  <1>4. /\ \A d \in Candidate : Put(l, rows).items[d] \in {Decided(d), l.items[d]}
        /\ <<s, p>> \in shards.stored =>
             \A d \in Of(s) : PartOf[d] = p => Put(l, rows).items[d] = Decided(d)
    BY <1>1, <1>2, <1>3 DEF Of
  <1> QED BY <1>3, <1>4 DEF rows

(* A reconciliation keeps every decision and completes nothing.            *)
LEMMA ReconcileType ==
    ASSUME NEW l \in Ledgers
    PROVE  LET new == Reopen(Identify(l))
           IN  /\ new \in Ledgers
               /\ \A s \in Source : new.state[s] = "DONE" => l.state[s] = "DONE"
               /\ \A c \in Candidate : new.items[c].decision = l.items[c].decision
  <1>1. l.state \in [Source -> States] /\ l.items \in [Candidate -> Rows]
    BY LedgerFields
  <1>2. \A c \in Candidate : /\ [l.items[c] EXCEPT !.hash = TRUE] \in Rows
                             /\ [l.items[c] EXCEPT !.hash = TRUE].decision = l.items[c].decision
    BY <1>1 DEF Rows
  <1>3. /\ Identify(l).items \in [Candidate -> Rows] /\ Identify(l).state = l.state
        /\ \A c \in Candidate : Identify(l).items[c].decision = l.items[c].decision
    BY <1>1, <1>2 DEF Identify
  <1>4. /\ Reopen(Identify(l)).items = Identify(l).items
        /\ Reopen(Identify(l)).state \in [Source -> States]
        /\ \A s \in Source : Reopen(Identify(l)).state[s] = "DONE" => l.state[s] = "DONE"
    BY <1>1, <1>3 DEF Reopen, States
  <1>5. Reopen(Identify(l)) = [state |-> Reopen(Identify(l)).state, items |-> Reopen(Identify(l)).items]
    BY DEF Reopen
  <1> QED BY <1>3, <1>4, <1>5 DEF Ledgers, Rows

-----------------------------------------------------------------------------
(* Type correctness.                                                       *)

LEMMA InitTypes ==
    ASSUME RegistryAssumption, Init
    PROVE  TypeInv
  <1>1. Len(Registry) \in Nat
    BY DEF RegistryAssumption
  <1>2. ledger \in Ledgers
    BY RowTypes DEF Init, Ledgers, Rows, States
  <1>3. run \in [pc : {"idle", "visit", "download", "derive"},
                 states : [Source -> States], at : 1 .. Len(Registry) + 1,
                 todo : SUBSET Candidate, end : {"none", "PARTIAL", "RESOURCE_PAUSED"}]
    BY <1>1 DEF Init, IdleRun, States
  <1> QED BY <1>2, <1>3 DEF Init, TypeInv, TypeOK, RunInv, Process, IdleRun

(* What the transactions do to the two ledgers and the lock.               *)
Ledgered == ledger \in Ledgers /\ draft \in Ledgers /\ writer \in Process \cup {"none"}

RunTyped(r) ==
    r \in [pc : {"idle", "visit", "download", "derive"},
           states : [Source -> States], at : 1 .. Len(Registry) + 1,
           todo : SUBSET Candidate, end : {"none", "PARTIAL", "RESOURCE_PAUSED"}]

LEMMA Transactions ==
    ASSUME Ledgered, NEW p \in Process, NEW l \in Ledgers
    PROVE  /\ Hold(p, l) => Ledgered'
           /\ Commit(l) => Ledgered'
           /\ Close(p) => Ledgered'
           /\ UNCHANGED <<ledger, draft, writer>> => Ledgered'
           /\ Base(p) \in Ledgers
  BY DEF Ledgered, Hold, Commit, Close, Base

LEMMA RunFields ==
    ASSUME RegistryAssumption, NEW r, RunTyped(r)
    PROVE  /\ r.pc \in {"idle", "visit", "download", "derive"}
           /\ r.states \in [Source -> States] /\ r.at \in 1 .. Len(Registry) + 1
           /\ r.todo \in SUBSET Candidate /\ r.end \in {"none", "PARTIAL", "RESOURCE_PAUSED"}
           /\ Len(Registry) \in Nat
  BY DEF RunTyped, RegistryAssumption

(* A run that leaves its source goes on to the next place.                 *)
LEMMA NextPlace ==
    ASSUME RegistryAssumption, RunTyped(run), run.at <= Len(Registry)
    PROVE  RunTyped(Next1) /\ Next1.pc = "visit" /\ Next1.todo = {}
  <1>1. /\ run.at + 1 \in 1 .. Len(Registry) + 1 /\ run.states \in [Source -> States]
        /\ run.end \in {"none", "PARTIAL", "RESOURCE_PAUSED"}
    BY RunFields
  <1>2. {} \in SUBSET Candidate
    OBVIOUS
  <1> QED BY <1>1, <1>2 DEF RunTyped, Next1

(* The marks are states, the rows of a derivation are rows.                *)
LEMMA StepTypes ==
    ASSUME RegistryAssumption, TypeInv, [Next]_vars
    PROVE  TypeInv'
<1>0. /\ Ledgered /\ RunTyped(run) /\ RunInv
      /\ shards \in [stored : SUBSET (Source \X Partition), receipts : SUBSET (Source \X Partition),
                                    gone : SUBSET (Source \X Partition)]
      /\ merge \in [pc : {"idle", "merge"}, todo : SUBSET (Source \X Partition)]
      /\ recon \in [pc : {"idle", "write"}, seen : SUBSET Candidate]
  BY DEF TypeInv, TypeOK, Ledgered, RunTyped
<1> DEFINE Others == /\ shards \in [stored : SUBSET (Source \X Partition), receipts : SUBSET (Source \X Partition),
                                    gone : SUBSET (Source \X Partition)]
                     /\ merge \in [pc : {"idle", "merge"}, todo : SUBSET (Source \X Partition)]
                     /\ recon \in [pc : {"idle", "write"}, seen : SUBSET Candidate]
<1>f. /\ run.pc \in {"idle", "visit", "download", "derive"}
      /\ run.states \in [Source -> States] /\ run.at \in 1 .. Len(Registry) + 1
      /\ run.todo \in SUBSET Candidate /\ run.end \in {"none", "PARTIAL", "RESOURCE_PAUSED"}
      /\ Len(Registry) \in Nat
  BY <1>0, RunFields
<1>q. SUFFICES Ledgered' /\ RunTyped(run)' /\ RunInv' /\ Others'
  BY DEF TypeInv, TypeOK, Ledgered, RunTyped
<1>c. run.at <= Len(Registry) => Current \in Source
  BY <1>f, CurrentSource DEF Current
<1>p. {"run", "merge", "reconcile"} \subseteq Process
  BY DEF Process
<1>1. CASE Start
  <2>1. Ledgered' /\ Others'
    BY <1>0, <1>1 DEF Start, Ledgered
  <2>2. RunTyped(run)' /\ RunInv'
    BY <1>0, <1>1, <1>f, LedgerFields DEF Start, RunTyped, RunInv, IdleRun, Ledgered
  <2> QED BY <2>1, <2>2
<1>2. CASE Skip
  <2>1. Ledgered' /\ Others'
    BY <1>0, <1>2 DEF Skip, Ledgered
  <2>2. RunTyped(run)' /\ RunInv'
    BY <1>0, <1>2, NextPlace DEF Skip, Visiting, RunInv, RunTyped
  <2> QED BY <2>1, <2>2
<1>3. CASE Gate
  <2>1. Current \in Source /\ run.at <= Len(Registry)
    BY <1>3, <1>c DEF Gate, Pending, Visiting
  <2>2. Base("run") \in Ledgers
    BY <1>0, <1>p DEF Base, Ledgered
  <2>3. Mark(Base("run"), Current, "GATED_USER_ACTION_REQUIRED") \in Ledgers
    BY <2>1, <2>2, MarkType DEF States
  <2>4. Ledgered' /\ Others'
    BY <1>0, <1>3, <1>p, <2>3, Transactions DEF Gate
  <2>5. RunTyped(run)' /\ RunInv'
    BY <1>0, <1>3, <2>1, NextPlace DEF Gate, RunInv, RunTyped
  <2> QED BY <2>4, <2>5
<1>4. CASE Pause
  <2>1. Current \in Source /\ run.at <= Len(Registry)
    BY <1>4, <1>c DEF Pause, Pending, Visiting
  <2>2. Base("run") \in Ledgers
    BY <1>0, <1>p DEF Base, Ledgered
  <2>3. Mark(Base("run"), Current, "RESOURCE_PAUSED") \in Ledgers
    BY <2>1, <2>2, MarkType DEF States
  <2>4. Ledgered' /\ Others'
    BY <1>0, <1>4, <1>p, <2>3, Transactions DEF Pause
  <2>5. RunTyped(run)' /\ RunInv'
    BY <1>0, <1>4, <1>f DEF Pause, RunTyped, RunInv
  <2> QED BY <2>4, <2>5
<1>5. CASE Download
  <2>1. Current \in Source /\ run.at <= Len(Registry)
    BY <1>5, <1>c DEF Download, Pending, Visiting
  <2>2. Base("run") \in Ledgers
    BY <1>0, <1>p DEF Base, Ledgered
  <2>3. Mark(Base("run"), Current, "DOWNLOADING") \in Ledgers
    BY <2>1, <2>2, MarkType DEF States
  <2>4. Ledgered' /\ Others'
    BY <1>0, <1>5, <1>p, <2>3, Transactions DEF Download
  <2>5. RunTyped(run)' /\ RunInv'
    BY <1>0, <1>5, <1>f, <2>1 DEF Download, Pending, Visiting, RunTyped, RunInv
  <2> QED BY <2>4, <2>5
<1>6. CASE Verify
  <2>1. Current \in Source /\ run.at <= Len(Registry)
    BY <1>0, <1>6, <1>c DEF Verify, RunInv
  <2>2. Mark(ledger, Current, "HASH_VERIFIED") \in Ledgers
    BY <1>0, <2>1, MarkType DEF States, Ledgered
  <2>3. Ledgered' /\ Others'
    BY <1>0, <1>6, <1>p, <2>2, Transactions DEF Verify
  <2>4. run' = [run EXCEPT !.pc = "derive", !.todo = Of(Current)] /\ writer' = "run"
    BY <1>6 DEF Verify, Hold
  <2>5. Of(Current) \in SUBSET Candidate
    BY DEF Of
  <2>6. RunTyped(run)' /\ RunInv'
    <3>1. run'.at = run.at /\ run'.todo = Of(Current)
      BY <1>0, <2>4 DEF RunTyped
    <3>2. Current' = Current
      BY <3>1 DEF Current
    <3> QED BY <1>0, <1>f, <2>1, <2>4, <2>5, <3>1, <3>2 DEF RunTyped, RunInv, Of
  <2> QED BY <2>3, <2>6
<1>7. ASSUME NEW c \in Candidate, Derive(c) PROVE Ledgered' /\ RunTyped(run)' /\ RunInv' /\ Others'
  <2>1. Put(draft, [x \in {c} |-> Decided(c)]) \in Ledgers
    BY <1>0, PutDecided DEF Ledgered
  <2>2. Ledgered' /\ Others'
    BY <1>0, <1>7, <1>p, <2>1, Transactions DEF Derive
  <2>3. run' = [run EXCEPT !.todo = run.todo \ {c}] /\ writer' = "run" /\ run.pc = "derive"
    BY <1>7 DEF Derive, Hold
  <2>4. run'.at = run.at /\ run'.todo = run.todo \ {c} /\ run'.pc = "derive"
    BY <1>0, <2>3 DEF RunTyped
  <2>5. Current' = Current
    BY <2>4 DEF Current
  <2>6. RunTyped(run)' /\ RunInv'
    BY <1>0, <1>f, <2>3, <2>4, <2>5 DEF RunTyped, RunInv, Of
  <2> QED BY <2>2, <2>6
<1>8. CASE Finish
  <2>1. Current \in Source /\ run.at <= Len(Registry)
    BY <1>0, <1>8, <1>c DEF Finish, RunInv
  <2>2. Mark(draft, Current, "DONE") \in Ledgers
    BY <1>0, <2>1, MarkType DEF States, Ledgered
  <2>3. Ledgered' /\ Others'
    BY <1>0, <1>8, <1>p, <2>2, Transactions DEF Finish
  <2>4. RunTyped(run)' /\ RunInv'
    BY <1>0, <1>8, <2>1, NextPlace DEF Finish, RunInv, RunTyped
  <2> QED BY <2>3, <2>4
<1>9. CASE Raise
  <2>1. Current \in Source /\ run.at <= Len(Registry)
    BY <1>0, <1>9, <1>c DEF Raise, RunInv
  <2>2. Base("run") \in Ledgers
    BY <1>0, <1>p DEF Base, Ledgered
  <2>3. PICK cs \in {{}} \cup {{c} : c \in run.todo} :
          Commit(Mark(Put(Base("run"), [c \in cs |-> Derived]), Current, "FAILED"))
    BY <1>9 DEF Raise
  <2>4. cs \in SUBSET Candidate
    BY <1>f, <2>3
  <2>6. Put(Base("run"), [c \in cs |-> Derived]) \in Ledgers
    BY <2>2, <2>4, PutDerived
  <2>7. Mark(Put(Base("run"), [c \in cs |-> Derived]), Current, "FAILED") \in Ledgers
    BY <2>1, <2>6, MarkType DEF States
  <2>8. Ledgered' /\ Others'
    BY <1>0, <1>9, <1>p, <2>3, <2>7, Transactions DEF Raise
  <2>9. RunTyped(run)' /\ RunInv'
    BY <1>0, <1>9, <2>1, NextPlace DEF Raise, RunInv, RunTyped
  <2> QED BY <2>8, <2>9
<1>10. CASE End
  <2>1. Ledgered' /\ Others'
    BY <1>0, <1>10, <1>p DEF End, Ledgered, Close
  <2>2. RunTyped(run)' /\ RunInv'
    BY <1>0, <1>10, <1>f DEF End, RunTyped, RunInv
  <2> QED BY <2>1, <2>2
<1>11. ASSUME NEW s \in Source \ Gated, NEW p \in Partition, Shard(s, p) \/ ShardReceipt(s, p) \/ Release(s, p)
       PROVE  Ledgered' /\ RunTyped(run)' /\ RunInv' /\ Others'
  <2>1. Ledgered' /\ RunTyped(run)' /\ RunInv'
    BY <1>0, <1>11 DEF Shard, ShardReceipt, Release, Ledgered, RunTyped, RunInv, Current
  <2>2. Others'
    BY <1>0, <1>11 DEF Shard, ShardReceipt, Release
  <2> QED BY <2>1, <2>2
<1>12. CASE MergeStart
  <2>1. Ledgered' /\ RunTyped(run)' /\ RunInv'
    BY <1>0, <1>12 DEF MergeStart, Ledgered, RunTyped, RunInv, Current
  <2>2. Others'
    BY <1>0, <1>12 DEF MergeStart
  <2> QED BY <2>1, <2>2
<1>13. ASSUME NEW r \in shards.receipts, MergeShard(r)
       PROVE  Ledgered' /\ RunTyped(run)' /\ RunInv' /\ Others'
  <2>1. r[1] \in Source /\ r[2] \in Partition
    BY <1>0, <1>13
  <2>2. Base("merge") \in Ledgers
    BY <1>0, <1>p DEF Base, Ledgered
  <2>3. Put(Base("merge"), ShardRows(r[1], r[2])) \in Ledgers
    BY <2>1, <2>2, PutShard
  <2>4. Mark(Put(Base("merge"), ShardRows(r[1], r[2])), r[1], "DONE") \in Ledgers
    BY <2>1, <2>3, MarkType DEF States
  <2>5. Ledgered'
    BY <1>0, <1>13, <1>p, <2>4, Transactions DEF MergeShard
  <2>6. Others'
    BY <1>0, <1>13 DEF MergeShard
  <2>7. run.pc # "derive"
    BY <1>0, <1>13 DEF MergeShard, Free, RunInv
  <2>8. RunTyped(run)' /\ RunInv'
    BY <1>0, <1>13, <2>7 DEF MergeShard, RunTyped, RunInv
  <2> QED BY <2>5, <2>6, <2>8
<1>13a. ASSUME NEW r \in shards.receipts, MergeSkip(r)
       PROVE  Ledgered' /\ RunTyped(run)' /\ RunInv' /\ Others'
  <2>1. Ledgered' /\ RunTyped(run)' /\ RunInv'
    BY <1>0, <1>13a DEF MergeSkip, Ledgered, RunTyped, RunInv, Current
  <2>2. Others'
    BY <1>0, <1>13a DEF MergeSkip
  <2> QED BY <2>1, <2>2
<1>14. CASE MergeEnd
  <2>2. Ledgered'
    BY <1>0, <1>14, <1>p, Transactions DEF MergeEnd, Ledgered
  <2>3. Others'
    BY <1>0, <1>14 DEF MergeEnd
  <2>4. writer' = writer \/ run.pc # "derive"
    BY <1>0, <1>14 DEF MergeEnd, RunInv
  <2>5. RunTyped(run)' /\ RunInv'
    BY <1>0, <1>14, <2>4 DEF MergeEnd, RunTyped, RunInv, Current
  <2> QED BY <2>2, <2>3, <2>5
<1>15. CASE ReconcileRead
  <2>1. Ledgered' /\ RunTyped(run)' /\ RunInv'
    BY <1>0, <1>15 DEF ReconcileRead, Ledgered, RunTyped, RunInv, Current
  <2>2. Others'
    BY <1>0, <1>15 DEF ReconcileRead
  <2> QED BY <2>1, <2>2
<1>16. CASE ReconcileWrite
  <2>1. Reopen(Identify(ledger)) \in Ledgers
    BY <1>0, ReconcileType DEF Ledgered
  <2>2. Ledgered' /\ Others'
    BY <1>0, <1>16, <1>p, <2>1, Transactions DEF ReconcileWrite
  <2>3. RunTyped(run)' /\ RunInv'
    BY <1>0, <1>16 DEF ReconcileWrite, RunTyped, RunInv
  <2> QED BY <2>2, <2>3
<1>17. ASSUME NEW p \in Process, Die(p) PROVE Ledgered' /\ RunTyped(run)' /\ RunInv' /\ Others'
  <2>1. Ledgered'
    BY <1>0, <1>17 DEF Die, Ledgered, Close
  <2>2. Others'
    BY <1>0, <1>17 DEF Die
  <2>3. RunTyped(run)'
    BY <1>0, <1>17, <1>f DEF Die, RunTyped
  <2>4. RunInv'
    BY <1>0, <1>17, <1>f DEF Die, RunInv, RunTyped, Close, Current
  <2> QED BY <2>1, <2>2, <2>3, <2>4
<1>18. CASE UNCHANGED vars
  BY <1>0, <1>18 DEF vars, Ledgered, RunTyped, RunInv, Current
<1> QED BY <1>1, <1>2, <1>3, <1>4, <1>5, <1>6, <1>7, <1>8, <1>9, <1>10, <1>11, <1>12, <1>13, <1>13a,
           <1>14, <1>15, <1>16, <1>17, <1>18 DEF Next

(* Every variable of the ledger's model keeps its kind (CorpusState).      *)
THEOREM TypeCorrect == RegistryAssumption /\ Spec => []TypeOK
<1> DEFINE I == RegistryAssumption /\ TypeInv
<1>1. RegistryAssumption /\ Init => I
  BY InitTypes
<1>2. I /\ [Next]_vars => I'
  BY StepTypes
<1>3. I => TypeOK
  BY DEF TypeInv
<1> QED BY <1>1, <1>2, <1>3, PTL DEF Spec
-----------------------------------------------------------------------------
(* DONE means derived.                                                     *)

DecidedIn(l, c) == l.items[c].decision \in {"ACCEPT", "REJECT"}

Whole(l) == \A c \in Candidate : l.state[SourceOf[c]] = "DONE" => DecidedIn(l, c)

(* The committed database is whole, and so is every open transaction but   *)
(* that of a merge, which is whole up to the partitions it has still to    *)
(* take over: it takes all partitions of a source or none.  What a run has *)
(* derived of its source is decided.                                       *)
DoneInv ==
    /\ Whole(ledger)
    /\ writer # "merge" => Whole(draft)
    /\ run.pc = "derive" => \A c \in Of(Current) \ run.todo : DecidedIn(draft, c)

(* The receipts left to a merge whose databases are there.                 *)
Live == merge.todo \ shards.gone

PartialInv ==
    /\ ~MergeEarly /\ ~MergeTorn
    /\ shards.receipts \subseteq shards.stored
    /\ writer = "merge" => merge.pc = "merge"
    /\ merge.pc = "merge" => merge.todo \subseteq shards.receipts
    /\ merge.pc = "merge" => \A c \in Candidate : \A r \in Live :
          r[1] = SourceOf[c] => \/ <<SourceOf[c], PartOf[c]>> \in Live
                                \/ writer = "merge" /\ DecidedIn(draft, c)
    /\ writer = "merge" => \A c \in Candidate :
          draft.state[SourceOf[c]] = "DONE" =>
             DecidedIn(draft, c) \/ <<SourceOf[c], PartOf[c]>> \in Live

SafeInv == RegistryAssumption /\ TypeInv /\ DoneInv /\ PartialInv

LEMMA SourceOfCandidate ==
    ASSUME RegistryAssumption, NEW c \in Candidate
    PROVE  SourceOf[c] \in Source /\ PartOf[c] \in Partition
  BY DEF RegistryAssumption, Partition

LEMMA MarkKeepsWhole ==
    ASSUME RegistryAssumption, NEW l \in Ledgers, NEW s \in Source, NEW state \in States,
           \A c \in Candidate \ Of(s) : l.state[SourceOf[c]] = "DONE" => DecidedIn(l, c),
           state = "DONE" => \A c \in Of(s) : DecidedIn(l, c)
    PROVE  Whole(Mark(l, s, state))
  <1> DEFINE new == Mark(l, s, state)
  <1>1. /\ new.items = l.items
        /\ \A t \in Source : new.state[t] = IF t = s THEN state ELSE l.state[t]
    BY MarkType
  <1> HIDE DEF new
  <1>2. ASSUME NEW c \in Candidate, new.state[SourceOf[c]] = "DONE"
        PROVE  DecidedIn(new, c)
    <2>1. SourceOf[c] \in Source
      BY SourceOfCandidate
    <2>2. CASE SourceOf[c] = s
      BY <1>1, <1>2, <2>1, <2>2 DEF Of, DecidedIn
    <2>3. CASE SourceOf[c] # s
      BY <1>1, <1>2, <2>1, <2>3 DEF Of, DecidedIn
    <2> QED BY <2>2, <2>3
  <1>3. Whole(new)
    BY <1>2 DEF Whole
  <1> QED BY <1>3 DEF new

LEMMA WholeOutside ==
    ASSUME NEW l, Whole(l), NEW s
    PROVE  \A c \in Candidate \ Of(s) : l.state[SourceOf[c]] = "DONE" => DecidedIn(l, c)
  BY DEF Whole

LEMMA DoneStep ==
    ASSUME SafeInv, [Next]_vars
    PROVE  DoneInv'
<1>0. /\ RegistryAssumption /\ TypeInv /\ DoneInv /\ PartialInv /\ RunInv
      /\ ledger \in Ledgers /\ draft \in Ledgers /\ writer \in Process \cup {"none"}
      /\ run.at \in 1 .. Len(Registry) + 1 /\ RunTyped(run)
  BY RunFields DEF SafeInv, TypeInv, TypeOK, RunTyped
<1>c. run.at <= Len(Registry) => Current \in Source
  BY <1>0, CurrentSource DEF Current, RegistryAssumption
<1>b. writer # "merge" => Whole(Base("run")) /\ Base("run") \in Ledgers
  BY <1>0 DEF Base, DoneInv
<1>u. ASSUME UNCHANGED <<ledger, draft, writer>>, run'.pc = "derive" => run.pc = "derive" /\ UNCHANGED run
      PROVE  DoneInv'
  BY <1>0, <1>u DEF DoneInv, Whole, DecidedIn, Current
<1>h. ASSUME NEW l, Whole(l), Commit(l), run'.pc # "derive" PROVE DoneInv'
  BY <1>h DEF Commit, DoneInv, Whole, DecidedIn
<1>k. ASSUME NEW p \in Process, Close(p), run'.pc = "derive" => run.pc = "derive" /\ UNCHANGED run /\ p # "run"
      PROVE  DoneInv'
  BY <1>0, <1>k DEF Close, DoneInv, Whole, DecidedIn, Current, RunInv
<1>1. CASE Start
  BY <1>1, <1>u, <1>0 DEF Start, IdleRun, RunTyped
<1>2. CASE Skip
  <2>1. run'.pc = "visit"
    BY <1>0, <1>2, NextPlace DEF Skip, Visiting
  <2> QED BY <1>2, <1>u, <2>1 DEF Skip
<1>3. CASE Gate
  <2>1. Current \in Source /\ run.at <= Len(Registry) /\ writer # "merge"
    BY <1>3, <1>c DEF Gate, Pending, Visiting, Free
  <2>2. Whole(Mark(Base("run"), Current, "GATED_USER_ACTION_REQUIRED"))
    BY <1>0, <1>b, <2>1, MarkKeepsWhole, WholeOutside DEF States
  <2>3. run'.pc = "visit"
    BY <1>0, <1>3, <2>1, NextPlace DEF Gate
  <2> QED BY <1>0, <1>3, <2>2, <2>3 DEF Gate, Hold, DoneInv, Whole, DecidedIn
<1>4. CASE Pause \/ Download
  <2>1. Current \in Source /\ writer # "merge"
    BY <1>4, <1>c DEF Pause, Download, Pending, Visiting, Free
  <2>2. Whole(Mark(Base("run"), Current, "RESOURCE_PAUSED")) /\ Whole(Mark(Base("run"), Current, "DOWNLOADING"))
    BY <1>0, <1>b, <2>1, MarkKeepsWhole, WholeOutside DEF States
  <2>3. run'.pc # "derive"
    BY <1>0, <1>4 DEF Pause, Download, RunTyped
  <2> QED BY <1>4, <1>h, <2>2, <2>3 DEF Pause, Download
<1>6. CASE Verify
  <2>1. Current \in Source /\ writer # "merge"
    BY <1>0, <1>6, <1>c DEF Verify, RunInv, Free
  <2>2. Whole(Mark(ledger, Current, "HASH_VERIFIED"))
    BY <1>0, <2>1, MarkKeepsWhole, WholeOutside DEF States, DoneInv
  <2>3. run'.todo = Of(Current) /\ Current' = Current
    BY <1>0, <1>6 DEF Verify, RunTyped, Current
  <2>4. Of(Current)' \ run'.todo = {}
    BY <2>3 DEF Of
  <2> QED BY <1>0, <1>6, <2>2, <2>4 DEF Verify, Hold, DoneInv, Whole, DecidedIn
<1>7. ASSUME NEW d \in Candidate, Derive(d) PROVE DoneInv'
  <2> DEFINE new == Put(draft, [x \in {d} |-> Decided(d)])
  <2>1. /\ new.state = draft.state
        /\ \A c \in Candidate : new.items[c] = IF c = d THEN Decided(d) ELSE draft.items[c]
    BY <1>0, PutDecided
  <2>2. \A c \in Candidate : DecidedIn(draft, c) \/ c = d => DecidedIn(new, c)
    BY <2>1, RowTypes DEF DecidedIn
  <2>3. writer' = "run" /\ draft' = new /\ ledger' = ledger /\ run.pc = "derive" /\ writer = "run"
    BY <1>0, <1>7 DEF Derive, Hold, RunInv
  <2> HIDE DEF new
  <2>4. Whole(new)
    BY <1>0, <2>1, <2>2, <2>3 DEF DoneInv, Whole
  <2>5. run'.todo = run.todo \ {d} /\ Current' = Current
    BY <1>0, <1>7 DEF Derive, RunTyped, Current
  <2>6. \A c \in Of(Current) \ run'.todo : DecidedIn(new, c)
    BY <1>0, <2>2, <2>3, <2>5 DEF DoneInv, Of
  <2> QED BY <1>0, <2>3, <2>4, <2>5, <2>6 DEF DoneInv, Whole, DecidedIn, Of
<1>8. CASE Finish
  <2>1. Current \in Source /\ run.at <= Len(Registry) /\ writer = "run" /\ run.todo = {}
    BY <1>0, <1>8, <1>c DEF Finish, RunInv
  <2>2. \A c \in Of(Current) : DecidedIn(draft, c)
    BY <1>0, <1>8, <2>1 DEF Finish, DoneInv
  <2>3. Whole(Mark(draft, Current, "DONE"))
    BY <1>0, <2>1, <2>2, MarkKeepsWhole, WholeOutside DEF States, DoneInv
  <2>4. run'.pc = "visit"
    BY <1>0, <1>8, <2>1, NextPlace DEF Finish
  <2> QED BY <1>8, <1>h, <2>3, <2>4 DEF Finish
<1>9. CASE Raise
  <2>1. Current \in Source /\ run.at <= Len(Registry) /\ writer # "merge"
    BY <1>0, <1>9, <1>c DEF Raise, RunInv, Free
  <2>2. PICK cs \in {{}} \cup {{c} : c \in run.todo} :
          Commit(Mark(Put(Base("run"), [c \in cs |-> Derived]), Current, "FAILED"))
    BY <1>9 DEF Raise
  <2>3. run.todo \subseteq Of(Current) /\ cs \subseteq Of(Current) /\ cs \in SUBSET Candidate
    BY <1>0, <1>9, <2>2 DEF Raise, RunInv, Of
  <2> DEFINE new == Put(Base("run"), [c \in cs |-> Derived])
  <2>4. /\ new \in Ledgers /\ new.state = Base("run").state
        /\ \A c \in Candidate \ cs : new.items[c] = Base("run").items[c]
    BY <1>b, <2>1, <2>3, PutDerived
  <2>5. Commit(Mark(new, Current, "FAILED"))
    BY <2>2
  <2> HIDE DEF new
  <2>6. \A c \in Candidate \ Of(Current) : new.state[SourceOf[c]] = "DONE" => DecidedIn(new, c)
    BY <1>b, <2>1, <2>3, <2>4 DEF Whole, DecidedIn
  <2>7. Whole(Mark(new, Current, "FAILED"))
    BY <1>0, <2>1, <2>4, <2>6, MarkKeepsWhole DEF States
  <2>8. run'.pc = "visit"
    BY <1>0, <1>9, <2>1, NextPlace DEF Raise
  <2> QED BY <1>h, <2>5, <2>7, <2>8
<1>10. CASE End
  <2>1. run'.pc = "idle"
    BY <1>0, <1>10 DEF End, RunTyped
  <2> QED BY <1>10, <1>k, <2>1 DEF End, Process
<1>11. ASSUME NEW s \in Source \ Gated, NEW p \in Partition, Shard(s, p) \/ ShardReceipt(s, p) \/ Release(s, p)
       PROVE  DoneInv'
  BY <1>11, <1>u DEF Shard, ShardReceipt, Release
<1>12. CASE MergeStart \/ ReconcileRead
  BY <1>12, <1>u DEF MergeStart, ReconcileRead
<1>13. ASSUME NEW r \in shards.receipts, MergeShard(r) PROVE DoneInv'
  BY <1>0, <1>13 DEF MergeShard, Hold, Free, DoneInv, Whole, DecidedIn, RunInv
<1>13a. ASSUME NEW r \in shards.receipts, MergeSkip(r) PROVE DoneInv'
  BY <1>13a, <1>u DEF MergeSkip
<1>14. CASE MergeEnd
  <2>1. CASE writer = "merge"
    <3>1. merge.todo = {} /\ run.pc # "derive"
      BY <1>0, <1>14, <2>1 DEF MergeEnd, RunInv
    <3>2. Whole(draft)
      BY <1>0, <2>1, <3>1 DEF PartialInv, Live, Whole
    <3>3. Commit(draft) /\ run'.pc # "derive"
      BY <1>14, <2>1, <3>1 DEF MergeEnd
    <3> QED BY <1>h, <3>2, <3>3
  <2>2. CASE writer # "merge"
    BY <1>14, <1>u, <2>2 DEF MergeEnd
  <2> QED BY <2>1, <2>2
<1>16. CASE ReconcileWrite
  <2>1. run.pc # "derive" /\ UNCHANGED run
    BY <1>0, <1>16 DEF ReconcileWrite, RunInv
  <2>2. Whole(Reopen(Identify(ledger)))
    BY <1>0, ReconcileType, SourceOfCandidate DEF DoneInv, Whole, DecidedIn
  <2> QED BY <1>16, <1>h, <2>1, <2>2 DEF ReconcileWrite
<1>17. ASSUME NEW p \in Process, Die(p) PROVE DoneInv'
  <2>1. Close(p)
    BY <1>17 DEF Die
  <2>2. run'.pc = "derive" => run.pc = "derive" /\ UNCHANGED run /\ p # "run"
    BY <1>0, <1>17 DEF Die, RunTyped
  <2> QED BY <1>k, <2>1, <2>2
<1>18. CASE UNCHANGED vars
  BY <1>18, <1>u DEF vars
<1> QED BY <1>1, <1>2, <1>3, <1>4, <1>6, <1>7, <1>8, <1>9, <1>10, <1>11, <1>12, <1>13, <1>13a,
           <1>14, <1>16, <1>17, <1>18 DEF SafeInv, Next

LEMMA PartialStep ==
    ASSUME SafeInv, [Next]_vars
    PROVE  PartialInv'
<1>0. /\ RegistryAssumption /\ TypeInv /\ DoneInv /\ PartialInv /\ RunInv
      /\ ledger \in Ledgers /\ draft \in Ledgers /\ writer \in Process \cup {"none"}
      /\ shards \in [stored : SUBSET (Source \X Partition), receipts : SUBSET (Source \X Partition),
                                    gone : SUBSET (Source \X Partition)]
      /\ merge \in [pc : {"idle", "merge"}, todo : SUBSET (Source \X Partition)]
  BY DEF SafeInv, TypeInv, TypeOK
<1>u. ASSUME UNCHANGED <<merge, shards, draft, writer>> PROVE PartialInv'
  BY <1>0, <1>u DEF PartialInv, Live, DecidedIn
<1>o. ASSUME UNCHANGED <<merge, shards>>, writer # "merge", writer' # "merge" PROVE PartialInv'
  BY <1>0, <1>o DEF PartialInv, Live
<1>1. CASE Start \/ Skip \/ ReconcileRead \/ UNCHANGED vars
  BY <1>1, <1>u DEF Start, Skip, ReconcileRead, vars
<1>2. CASE Gate \/ Pause \/ Download \/ Verify \/ Raise
  BY <1>2, <1>o DEF Gate, Pause, Download, Verify, Raise, Pending, Free, Hold, Commit
<1>3. CASE Finish \/ ReconcileWrite
  BY <1>0, <1>3, <1>o DEF Finish, ReconcileWrite, RunInv, Commit
<1>4. CASE End
  BY <1>0, <1>4, <1>u, <1>o DEF End, Close
<1>5. ASSUME NEW c \in Candidate, Derive(c) PROVE PartialInv'
  BY <1>0, <1>5, <1>o DEF Derive, RunInv, Hold
<1>6. ASSUME NEW s \in Source \ Gated, NEW p \in Partition, Shard(s, p) \/ ShardReceipt(s, p)
      PROVE  PartialInv'
  <2>1. /\ shards'.receipts \subseteq shards'.stored /\ shards.receipts \subseteq shards'.receipts
        /\ shards'.gone = shards.gone
    BY <1>0, <1>6 DEF Shard, ShardReceipt, PartialInv
  <2>2. UNCHANGED <<merge, draft, writer>>
    BY <1>6 DEF Shard, ShardReceipt
  <2>3. Live' = Live
    BY <2>1, <2>2 DEF Live
  <2> QED BY <1>0, <2>1, <2>2, <2>3 DEF PartialInv, DecidedIn
<1>6a. ASSUME NEW s \in Source \ Gated, NEW p \in Partition, Release(s, p)
      PROVE  PartialInv'
  <2>1. shards'.receipts = shards.receipts /\ shards'.stored = shards.stored
    BY <1>0, <1>6a DEF Release
  <2>2. UNCHANGED <<merge, draft, writer>> /\ merge.pc = "idle" /\ writer # "merge"
    BY <1>0, <1>6a DEF Release, PartialInv
  <2> QED BY <1>0, <2>1, <2>2 DEF PartialInv
<1>7. CASE MergeStart
  <2>1. /\ merge' = [pc |-> "merge", todo |-> shards.receipts] /\ UNCHANGED <<shards, draft, writer>>
        /\ writer # "merge" /\ \A r \in shards.receipts : Through(r[1]) /\ Level(r[1])
    BY <1>0, <1>7 DEF MergeStart, PartialInv
  <2>2. merge'.todo \subseteq shards'.receipts /\ Live' = shards.receipts \ shards.gone
    BY <2>1 DEF Live
  <2>3. ASSUME NEW c \in Candidate, NEW r \in Live', r[1] = SourceOf[c]
        PROVE  <<SourceOf[c], PartOf[c]>> \in Live'
    <3>1. r \in Source \X Partition /\ r = <<r[1], r[2]>> /\ r[2] \in Partition
      BY <1>0, <2>2, <2>3
    <3>2. PartOf[c] \in Partition
      BY <1>0, SourceOfCandidate
    <3> QED BY <2>1, <2>2, <2>3, <3>1, <3>2 DEF Through, Level
  <2> QED BY <1>0, <2>1, <2>2, <2>3 DEF PartialInv
<1>8. ASSUME NEW r \in shards.receipts, MergeShard(r) PROVE PartialInv'
  <2> DEFINE base == Base("merge")
             put == Put(base, ShardRows(r[1], r[2]))
             new == Mark(put, r[1], "DONE")
  <2>1. /\ r[1] \in Source /\ r[2] \in Partition /\ r = <<r[1], r[2]>>
        /\ r \in shards.stored /\ base \in Ledgers
    BY <1>0 DEF PartialInv, Base
  <2>2. /\ put \in Ledgers /\ put.state = base.state
        /\ \A d \in Candidate : put.items[d] \in {Decided(d), base.items[d]}
        /\ \A d \in Of(r[1]) : PartOf[d] = r[2] => put.items[d] = Decided(d)
    BY <2>1, PutShard
  <2>3. new.items = put.items /\ \A t \in Source : new.state[t] = IF t = r[1] THEN "DONE" ELSE put.state[t]
    BY <2>1, <2>2, MarkType DEF States
  <2>4. /\ draft' = new /\ writer' = "merge" /\ UNCHANGED shards
        /\ merge'.pc = "merge" /\ merge'.todo = merge.todo \ {r}
        /\ merge.pc = "merge" /\ r \in Live /\ Live' = Live \ {r} /\ writer \in {"none", "merge"}
    BY <1>0, <1>8 DEF MergeShard, Hold, Free, Live
  <2>5. base = IF writer = "merge" THEN draft ELSE ledger
    BY DEF Base
  <2> HIDE DEF base, put, new
  <2>6. ASSUME NEW d \in Candidate
        PROVE  /\ DecidedIn(base, d) => DecidedIn(new, d)
               /\ r = <<SourceOf[d], PartOf[d]>> => DecidedIn(new, d)
    BY <2>1, <2>2, <2>3, RowTypes DEF DecidedIn, Of
  <2>7. ASSUME NEW c \in Candidate, NEW q \in Live, q[1] = SourceOf[c]
        PROVE  <<SourceOf[c], PartOf[c]>> \in Live \ {r} \/ DecidedIn(new, c)
    BY <1>0, <2>4, <2>5, <2>6, <2>7 DEF PartialInv
  <2>8. ASSUME NEW c \in Candidate, new.state[SourceOf[c]] = "DONE"
        PROVE  DecidedIn(new, c) \/ <<SourceOf[c], PartOf[c]>> \in Live \ {r}
    <3>1. CASE SourceOf[c] = r[1]
      BY <2>4, <2>7, <3>1
    <3>2. CASE SourceOf[c] # r[1]
      <4>1. base.state[SourceOf[c]] = "DONE"
        BY <1>0, <2>2, <2>3, <2>8, <3>2, SourceOfCandidate
      <4>2. DecidedIn(base, c) \/ <<SourceOf[c], PartOf[c]>> \in Live
        BY <1>0, <2>4, <2>5, <4>1 DEF PartialInv, DoneInv, Whole
      <4> QED BY <2>6, <4>2
    <3> QED BY <3>1, <3>2
  <2> QED BY <1>0, <2>4, <2>7, <2>8 DEF PartialInv, DecidedIn
<1>8a. ASSUME NEW r \in shards.receipts, MergeSkip(r) PROVE PartialInv'
  <2>1. /\ Live' = Live /\ merge'.pc = merge.pc /\ merge'.todo \subseteq merge.todo
        /\ UNCHANGED <<shards, draft, writer>>
    BY <1>0, <1>8a DEF MergeSkip, Live
  <2> QED BY <1>0, <2>1 DEF PartialInv, DecidedIn
<1>9. CASE MergeEnd
  <2>1. merge'.pc = "idle" /\ writer' # "merge" /\ UNCHANGED shards
    BY <1>0, <1>9 DEF MergeEnd, Commit
  <2> QED BY <1>0, <2>1 DEF PartialInv
<1>10. ASSUME NEW p \in Process, Die(p) PROVE PartialInv'
  <2>1. CASE p = "merge"
    BY <1>0, <1>10, <2>1 DEF Die, Close, PartialInv
  <2>2. CASE p # "merge"
    BY <1>0, <1>10, <1>u, <1>o, <2>2 DEF Die, Close
  <2> QED BY <2>1, <2>2
<1> QED BY <1>1, <1>2, <1>3, <1>4, <1>5, <1>6, <1>6a, <1>7, <1>8, <1>8a, <1>9, <1>10 DEF SafeInv, Next

LEMMA InitSafe ==
    ASSUME RegistryAssumption, ~MergeEarly, ~MergeTorn, Init
    PROVE  SafeInv
<1>1. TypeInv
  BY InitTypes
<1>2. Whole(ledger) /\ draft = ledger /\ writer = "none" /\ run.pc = "idle"
  BY SourceOfCandidate DEF Init, IdleRun, Whole
<1>3. shards.receipts = {} /\ merge.pc = "idle"
  BY DEF Init
<1> QED BY <1>1, <1>2, <1>3 DEF SafeInv, DoneInv, PartialInv

(* A source that is DONE has a decided row for each of its candidates      *)
(* (core.py:521-525, 597-603), whatever runs, merges and reconciliations   *)
(* interleave or die, provided no merge begins before the workers of its   *)
(* sources are through, or runs over a half-done release.                  *)
THEOREM DoneMeansDerived == RegistryAssumption /\ ~MergeEarly /\ ~MergeTorn /\ Spec => []DoneIsWhole
<1>1. RegistryAssumption /\ ~MergeEarly /\ ~MergeTorn /\ Init => SafeInv
  BY InitSafe
<1>2. SafeInv /\ [Next]_vars => SafeInv'
  <2> SUFFICES ASSUME SafeInv, [Next]_vars PROVE SafeInv'
    OBVIOUS
  <2>1. TypeInv'
    BY StepTypes DEF SafeInv
  <2> QED BY <2>1, DoneStep, PartialStep DEF SafeInv
<1>3. SafeInv => DoneIsWhole
  BY DEF SafeInv, DoneInv, Whole, DecidedIn, DoneIsWhole
<1> QED BY <1>1, <1>2, <1>3, PTL DEF Spec

-----------------------------------------------------------------------------
(* What a run leaves.                                                      *)

Settled == {"DONE", "FAILED"}

(* A ledger under a run that read these states and is at this place: what  *)
(* was DONE when it read the states still is, and every automatic source   *)
(* it has left is settled, unless it is busy with it a second time.        *)
Kept(states, place, busy, l) ==
    /\ \A s \in Source \ Reopened : states[s] = "DONE" => l.state[s] = "DONE"
    /\ \A i \in 1 .. place - 1 : Registry[i] \notin Gated \cup Reopened =>
          l.state[Registry[i]] \in Settled \/ (busy /\ Registry[i] = Registry[place])

Busy == run.pc \in {"download", "derive"}

KeptByRun(l) == Kept(run.states, run.at, Busy, l)

SettleInv ==
    /\ writer = "none" => draft = ledger
    /\ run.pc # "idle" => run.end = "none" /\ KeptByRun(ledger) /\ KeptByRun(draft)
    /\ Busy => run.states[Current] # "DONE"

RunsInv == RegistryAssumption /\ TypeInv /\ SettleInv

LEMMA PlaceSource ==
    ASSUME RegistryAssumption, NEW place \in 1 .. Len(Registry)
    PROVE  /\ Len(Registry) \in Nat /\ Registry[place] \in Source
           /\ \A i \in 1 .. place - 1 : Registry[i] \in Source
  BY DEF Source, RegistryAssumption

(* Marking the source of the place.                                        *)
LEMMA KeptMark ==
    ASSUME RegistryAssumption, NEW l \in Ledgers, NEW states, NEW place \in 1 .. Len(Registry),
           NEW state \in States, Kept(states, place, TRUE, l), states[Registry[place]] # "DONE"
    PROVE  /\ Kept(states, place, TRUE, Mark(l, Registry[place], state))
           /\ state \in Settled \/ Registry[place] \in Gated =>
                 Kept(states, place + 1, FALSE, Mark(l, Registry[place], state))
  <1>1. /\ Len(Registry) \in Nat /\ Registry[place] \in Source
        /\ \A i \in 1 .. place - 1 : Registry[i] \in Source
    BY PlaceSource
  <1> DEFINE new == Mark(l, Registry[place], state)
  <1>2. \A t \in Source : new.state[t] = IF t = Registry[place] THEN state ELSE l.state[t]
    BY <1>1, MarkType
  <1> HIDE DEF new
  <1>3. \A s \in Source \ Reopened : states[s] = "DONE" => new.state[s] = "DONE"
    BY <1>1, <1>2 DEF Kept
  <1>4. \A i \in 1 .. place - 1 : Registry[i] \notin Gated \cup Reopened =>
           new.state[Registry[i]] \in Settled \/ Registry[i] = Registry[place]
    BY <1>1, <1>2 DEF Kept
  <1>5. ASSUME state \in Settled \/ Registry[place] \in Gated, NEW i \in 1 .. (place + 1) - 1,
               Registry[i] \notin Gated \cup Reopened
        PROVE  new.state[Registry[i]] \in Settled
    <2>1. CASE Registry[i] = Registry[place]
      BY <1>1, <1>2, <1>5, <2>1
    <2>2. CASE Registry[i] # Registry[place]
      <3>1. i \in 1 .. place - 1
        BY <1>1, <2>2
      <3> QED BY <1>4, <1>5, <2>2, <3>1
    <2> QED BY <2>1, <2>2
  <1>6. Kept(states, place, TRUE, new)
    BY <1>3, <1>4 DEF Kept
  <1>7. state \in Settled \/ Registry[place] \in Gated => Kept(states, place + 1, FALSE, new)
    BY <1>3, <1>5 DEF Kept
  <1> QED BY <1>6, <1>7 DEF new

LEMMA KeptSkip ==
    ASSUME RegistryAssumption, NEW l, NEW states, NEW place \in 1 .. Len(Registry),
           Kept(states, place, FALSE, l), states[Registry[place]] = "DONE"
    PROVE  Kept(states, place + 1, FALSE, l)
  <1>1. Len(Registry) \in Nat /\ Registry[place] \in Source
    BY PlaceSource
  <1>2. Registry[place] \notin Reopened => l.state[Registry[place]] \in Settled
    BY <1>1 DEF Kept, Settled
  <1>3. ASSUME NEW i \in 1 .. (place + 1) - 1, Registry[i] \notin Gated \cup Reopened
        PROVE  l.state[Registry[i]] \in Settled
    <2>1. i = place \/ i \in 1 .. place - 1
      BY <1>1
    <2> QED BY <1>2, <1>3, <2>1 DEF Kept
  <1> QED BY <1>3 DEF Kept

(* Other ledgers: what counts is the state of the sources that stay DONE.  *)
LEMMA KeptOther ==
    ASSUME RegistryAssumption, NEW l, NEW new, NEW states, NEW place \in 1 .. Len(Registry) + 1,
           NEW busy \in BOOLEAN, Kept(states, place, busy, l),
           \A s \in Source \ Reopened : new.state[s] \in {l.state[s], "DONE"}
    PROVE  Kept(states, place, busy, new)
  <1>1. \A i \in 1 .. place - 1 : Registry[i] \in Source
    BY DEF Source, RegistryAssumption
  <1> QED BY <1>1 DEF Kept, Settled

LEMMA KeptBusy ==
    ASSUME NEW l, NEW states, NEW place, NEW busy \in BOOLEAN, Kept(states, place, busy, l)
    PROVE  Kept(states, place, TRUE, l)
  BY DEF Kept

LEMMA RunsTypes ==
    ASSUME RunsInv
    PROVE  /\ RegistryAssumption /\ TypeInv /\ RunInv /\ SettleInv
           /\ ledger \in Ledgers /\ draft \in Ledgers /\ writer \in Process \cup {"none"}
           /\ RunTyped(run) /\ run.at \in 1 .. Len(Registry) + 1 /\ Len(Registry) \in Nat
           /\ run.states \in [Source -> States] /\ Busy \in BOOLEAN
           /\ \A p \in Process : Base(p) \in Ledgers /\ (run.pc # "idle" => KeptByRun(Base(p)))
  <1>1. RunTyped(run)
    BY DEF RunsInv, TypeInv, TypeOK, RunTyped
  <1> QED BY <1>1, RunFields DEF RunsInv, TypeInv, TypeOK, SettleInv, Base, Busy

(* A run that settles its source, or finds it gated, goes on.              *)
LEMMA NextPlaceKept ==
    ASSUME RunsInv, run.pc # "idle", run.at \in 1 .. Len(Registry), run' = Next1,
           Kept(run.states, run.at + 1, FALSE, ledger'), Kept(run.states, run.at + 1, FALSE, draft'),
           writer' = "none" => draft' = ledger'
    PROVE  SettleInv'
  <1>1. /\ run'.pc = "visit" /\ run'.at = run.at + 1 /\ run'.states = run.states
        /\ run'.end = "none"
    BY RunsTypes DEF Next1, RunTyped, SettleInv
  <1>2. Busy' = FALSE
    BY <1>1 DEF Busy
  <1> QED BY <1>1, <1>2 DEF SettleInv, KeptByRun

(* A step of another process, in its place of the run.                     *)
LEMMA OthersKeep ==
    ASSUME RunsInv, UNCHANGED run,
           \E old \in {ledger, draft} :
              \A s \in Source \ Reopened : ledger'.state[s] \in {old.state[s], "DONE"},
           \E old \in {ledger, draft} :
              \A s \in Source \ Reopened : draft'.state[s] \in {old.state[s], "DONE"},
           writer' = "none" => draft' = ledger'
    PROVE  SettleInv'
<1>1. Busy' = Busy /\ Current' = Current
  BY DEF Busy, Current
<1>2. ASSUME run.pc # "idle"
      PROVE  run.end = "none" /\ KeptByRun(ledger)' /\ KeptByRun(draft)'
  <2>1. run.end = "none" /\ Kept(run.states, run.at, Busy, ledger) /\ Kept(run.states, run.at, Busy, draft)
    BY <1>2 DEF RunsInv, SettleInv, KeptByRun
  <2>2. Kept(run.states, run.at, Busy, ledger') /\ Kept(run.states, run.at, Busy, draft')
    BY <2>1, RunsTypes, KeptOther
  <2> QED BY <1>1, <2>1, <2>2 DEF KeptByRun
<1> QED BY <1>1, <1>2 DEF RunsInv, SettleInv

LEMMA SettleStep ==
    ASSUME RunsInv, [Next]_vars
    PROVE  SettleInv'
<1>0. /\ RegistryAssumption /\ TypeInv /\ RunInv /\ SettleInv
      /\ ledger \in Ledgers /\ draft \in Ledgers /\ writer \in Process \cup {"none"}
      /\ RunTyped(run) /\ run.at \in 1 .. Len(Registry) + 1 /\ Len(Registry) \in Nat
      /\ \A p \in Process : Base(p) \in Ledgers /\ (run.pc # "idle" => KeptByRun(Base(p)))
  BY RunsTypes
<1>p. {"run", "merge", "reconcile"} \subseteq Process
  BY DEF Process
<1>f. /\ run.at <= Len(Registry) => run.at \in 1 .. Len(Registry)
      /\ Busy => run.pc # "idle" /\ run.at <= Len(Registry)
      /\ run.pc = "visit" => Busy = FALSE
  BY <1>0 DEF Busy, RunInv
<1>b. run.pc # "idle" => Kept(run.states, run.at, TRUE, Base("run")) /\ Kept(run.states, run.at, TRUE, draft)
                         /\ Kept(run.states, run.at, TRUE, ledger)
  BY <1>0, <1>p, RunsTypes, KeptBusy DEF KeptByRun, SettleInv
<1>d. {"DOWNLOADING", "HASH_VERIFIED", "DONE", "FAILED", "GATED_USER_ACTION_REQUIRED", "RESOURCE_PAUSED"} \subseteq States
  BY DEF States
<1>1. CASE Start
  <2>1. /\ run'.pc = "visit" /\ run'.end = "none" /\ run'.at = 1 /\ run'.states = ledger.state
        /\ UNCHANGED <<ledger, draft, writer>> /\ draft = ledger
    BY <1>0, <1>1 DEF Start, IdleRun, SettleInv
  <2>2. Kept(ledger.state, 1, FALSE, ledger)
    BY DEF Kept
  <2>3. Busy' = FALSE
    BY <2>1 DEF Busy
  <2> QED BY <2>1, <2>2, <2>3 DEF SettleInv, KeptByRun
<1>2. CASE Skip
  <2>1. /\ run.pc = "visit" /\ run.at \in 1 .. Len(Registry) /\ run.states[Registry[run.at]] = "DONE"
        /\ run' = Next1 /\ UNCHANGED <<ledger, draft, writer>>
    BY <1>2, <1>f DEF Skip, Visiting, Current
  <2>2. Kept(run.states, run.at, FALSE, ledger) /\ Kept(run.states, run.at, FALSE, draft)
    BY <1>0, <1>f, <2>1 DEF SettleInv, KeptByRun
  <2>3. Kept(run.states, run.at + 1, FALSE, ledger) /\ Kept(run.states, run.at + 1, FALSE, draft)
    BY <1>0, <2>1, <2>2, KeptSkip
  <2> QED BY <1>0, <2>1, <2>3, NextPlaceKept DEF SettleInv
<1>3. CASE Gate
  <2>1. /\ run.pc = "visit" /\ run.at \in 1 .. Len(Registry) /\ run.states[Registry[run.at]] # "DONE"
        /\ Registry[run.at] \in Gated /\ run' = Next1 /\ ledger' = ledger /\ writer' = "run"
        /\ draft' = Mark(Base("run"), Registry[run.at], "GATED_USER_ACTION_REQUIRED")
    BY <1>3, <1>f DEF Gate, Pending, Visiting, Current, Hold
  <2>2. Kept(run.states, run.at + 1, FALSE, draft')
    BY <1>0, <1>b, <1>d, <1>p, <2>1, KeptMark
  <2>3. Kept(run.states, run.at + 1, FALSE, ledger)
    <3>1. Kept(run.states, run.at, FALSE, ledger)
      BY <1>0, <1>f, <2>1 DEF SettleInv, KeptByRun
    <3>2. ASSUME NEW i \in 1 .. (run.at + 1) - 1, Registry[i] \notin Gated \cup Reopened
          PROVE  ledger.state[Registry[i]] \in Settled
      <4>1. i \in 1 .. run.at - 1
        BY <1>0, <2>1, <3>2
      <4> QED BY <3>1, <3>2, <4>1 DEF Kept
    <3> QED BY <3>1, <3>2 DEF Kept
  <2> QED BY <2>1, <2>2, <2>3, NextPlaceKept
<1>4. CASE Pause
  <2>1. run'.pc = "idle" /\ draft' = ledger'
    BY <1>0, <1>4 DEF Pause, Commit, RunTyped
  <2> QED BY <2>1 DEF SettleInv, Busy
<1>5. CASE Download
  <2>1. /\ run.pc = "visit" /\ run.at \in 1 .. Len(Registry) /\ run.states[Registry[run.at]] # "DONE"
        /\ run' = [run EXCEPT !.pc = "download"] /\ ledger' = draft'
        /\ draft' = Mark(Base("run"), Registry[run.at], "DOWNLOADING")
    BY <1>5, <1>f DEF Download, Pending, Visiting, Current, Commit
  <2>2. /\ run'.pc = "download" /\ run'.at = run.at /\ run'.states = run.states /\ run'.end = "none"
    BY <1>0, <2>1 DEF RunTyped, SettleInv
  <2>3. Kept(run.states, run.at, TRUE, draft')
    BY <1>0, <1>b, <1>d, <1>p, <2>1, KeptMark
  <2>4. Busy' = TRUE /\ Current' = Registry[run.at]
    BY <2>2 DEF Busy, Current
  <2> QED BY <2>1, <2>2, <2>3, <2>4 DEF SettleInv, KeptByRun
<1>6. CASE Verify
  <2>1. /\ run.pc = "download" /\ run.at \in 1 .. Len(Registry) /\ run.states[Registry[run.at]] # "DONE"
        /\ run' = [run EXCEPT !.pc = "derive", !.todo = Of(Current)] /\ ledger' = ledger /\ writer' = "run"
        /\ draft' = Mark(ledger, Registry[run.at], "HASH_VERIFIED")
    BY <1>0, <1>6, <1>f DEF Verify, Current, Hold, SettleInv, Busy
  <2>2. /\ run'.pc = "derive" /\ run'.at = run.at /\ run'.states = run.states /\ run'.end = "none"
    BY <1>0, <2>1 DEF RunTyped, SettleInv
  <2>3. Kept(run.states, run.at, TRUE, draft') /\ Kept(run.states, run.at, TRUE, ledger')
    BY <1>0, <1>b, <1>d, <2>1, KeptMark
  <2>4. Busy' = TRUE /\ Current' = Registry[run.at]
    BY <2>2 DEF Busy, Current
  <2> QED BY <2>1, <2>2, <2>3, <2>4 DEF SettleInv, KeptByRun
<1>7. ASSUME NEW c \in Candidate, Derive(c) PROVE SettleInv'
  <2>1. /\ run' = [run EXCEPT !.todo = run.todo \ {c}] /\ ledger' = ledger /\ writer' = "run" /\ run.pc = "derive"
        /\ draft' = Put(draft, [x \in {c} |-> Decided(c)])
    BY <1>7 DEF Derive, Hold
  <2>2. /\ run'.pc = run.pc /\ run'.at = run.at /\ run'.states = run.states /\ run'.end = run.end
    BY <1>0, <2>1 DEF RunTyped
  <2>3. Busy' = Busy /\ Current' = Current
    BY <2>2 DEF Busy, Current
  <2>4. draft'.state = draft.state
    BY <1>0, <2>1, PutDecided
  <2>5. Kept(run.states, run.at, Busy, draft')
    BY <1>0, <2>1, <2>4 DEF SettleInv, KeptByRun, Kept
  <2> QED BY <1>0, <2>1, <2>2, <2>3, <2>5 DEF SettleInv, KeptByRun
<1>8. CASE Finish
  <2>1. /\ run.pc = "derive" /\ run.at \in 1 .. Len(Registry) /\ run.states[Registry[run.at]] # "DONE"
        /\ run' = Next1 /\ ledger' = draft' /\ draft' = Mark(draft, Registry[run.at], "DONE")
    BY <1>0, <1>8, <1>f DEF Finish, Current, Commit, SettleInv, Busy
  <2>2. Kept(run.states, run.at + 1, FALSE, draft')
    BY <1>0, <1>b, <1>d, <2>1, KeptMark DEF Settled
  <2> QED BY <2>1, <2>2, NextPlaceKept
<1>9. CASE Raise
  <2>1. /\ run.pc # "idle" /\ run.at \in 1 .. Len(Registry) /\ run.states[Registry[run.at]] # "DONE" /\ run' = Next1
    BY <1>0, <1>9, <1>f DEF Raise, Current, SettleInv, Busy
  <2>2. PICK cs \in {{}} \cup {{c} : c \in run.todo} :
          Commit(Mark(Put(Base("run"), [c \in cs |-> Derived]), Current, "FAILED"))
    BY <1>9 DEF Raise
  <2>3. cs \in SUBSET Candidate
    BY <1>0, <2>2, RunFields
  <2> DEFINE put == Put(Base("run"), [c \in cs |-> Derived])
  <2>4. put \in Ledgers /\ put.state = Base("run").state
    BY <1>0, <1>p, <2>3, PutDerived
  <2>5. ledger' = draft' /\ draft' = Mark(put, Registry[run.at], "FAILED")
    BY <2>2 DEF Commit, Current
  <2> HIDE DEF put
  <2>6. Kept(run.states, run.at, TRUE, put)
    BY <1>b, <2>1, <2>4 DEF Kept
  <2>7. Kept(run.states, run.at + 1, FALSE, draft')
    BY <1>0, <1>d, <2>1, <2>4, <2>5, <2>6, KeptMark DEF Settled
  <2> QED BY <2>1, <2>5, <2>7, NextPlaceKept
<1>10. CASE End
  <2>1. run'.pc = "idle" /\ (writer' = "none" => draft' = ledger')
    BY <1>0, <1>10 DEF End, Close, RunTyped, SettleInv
  <2> QED BY <2>1 DEF SettleInv, Busy
<1>11. ASSUME NEW s \in Source \ Gated, NEW p \in Partition, Shard(s, p) \/ ShardReceipt(s, p) \/ Release(s, p)
       PROVE  SettleInv'
  BY <1>0, <1>11, OthersKeep DEF Shard, ShardReceipt, Release, SettleInv
<1>12. CASE MergeStart \/ ReconcileRead \/ UNCHANGED vars
  BY <1>0, <1>12, OthersKeep DEF MergeStart, ReconcileRead, vars, SettleInv
<1>13. ASSUME NEW r \in shards.receipts, MergeShard(r) PROVE SettleInv'
  <2>1. r[1] \in Source /\ r[2] \in Partition
    BY <1>0 DEF TypeInv, TypeOK
  <2> DEFINE put == Put(Base("merge"), ShardRows(r[1], r[2]))
  <2>2. put \in Ledgers /\ put.state = Base("merge").state
    BY <1>0, <1>p, <2>1, PutShard
  <2>3. /\ UNCHANGED <<run, ledger>> /\ writer' = "merge" /\ draft' = Mark(put, r[1], "DONE")
        /\ Base("merge") \in {ledger, draft}
    BY <1>13 DEF MergeShard, Hold, Base
  <2> HIDE DEF put
  <2>4. \A s \in Source : draft'.state[s] \in {Base("merge").state[s], "DONE"}
    <3>1. PICK s \in Source : s = r[1]
      BY <2>1
    <3>2. "DONE" \in States
      BY DEF States
    <3>3. \A t \in Source : Mark(put, s, "DONE").state[t] = IF t = s THEN "DONE" ELSE put.state[t]
      BY <2>2, <3>2, MarkType
    <3> QED BY <2>2, <2>3, <3>1, <3>3
  <2> QED BY <2>3, <2>4, OthersKeep
<1>13a. ASSUME NEW r \in shards.receipts, MergeSkip(r) PROVE SettleInv'
  BY <1>0, <1>13a, OthersKeep DEF MergeSkip, SettleInv
<1>14. CASE MergeEnd
  <2>1. CASE writer = "merge"
    BY <1>14, <2>1, OthersKeep DEF MergeEnd, Commit
  <2>2. CASE writer # "merge"
    BY <1>0, <1>14, <2>2, OthersKeep DEF MergeEnd, SettleInv
  <2> QED BY <2>1, <2>2
<1>16. CASE ReconcileWrite
  <2> DEFINE new == Reopen(Identify(ledger))
  <2>1. UNCHANGED run /\ draft' = new /\ ledger' = new
    BY <1>16 DEF ReconcileWrite, Commit
  <2>2. \A s \in Source \ Reopened : new.state[s] = ledger.state[s]
    BY DEF Reopen, Identify
  <2> HIDE DEF new
  <2> QED BY <2>1, <2>2, OthersKeep
<1>17. ASSUME NEW p \in Process, Die(p) PROVE SettleInv'
  <2>1. /\ ledger' = ledger /\ draft' \in {ledger, draft} /\ (writer' = "none" => draft' = ledger')
        /\ run' = run \/ run'.pc = "idle"
    BY <1>0, <1>17 DEF Die, Close, RunTyped, SettleInv
  <2>2. CASE run' = run
    BY <2>1, <2>2, OthersKeep
  <2>3. CASE run'.pc = "idle"
    BY <2>1, <2>3 DEF SettleInv, Busy
  <2> QED BY <2>1, <2>2, <2>3
<1> QED BY <1>1, <1>2, <1>3, <1>4, <1>5, <1>6, <1>7, <1>8, <1>9, <1>10, <1>11, <1>12, <1>13, <1>13a,
           <1>14, <1>16, <1>17 DEF Next

(* A run that goes through to its end leaves every automatic source DONE   *)
(* or FAILED, whatever it read before a merge, a failure or a wait for the *)
(* lock; only a reopened source can be left over (core.py:586-604).        *)
THEOREM RunsSettleSources == RegistryAssumption /\ Spec => RunsSettle
<1>1. RegistryAssumption /\ Init => RunsInv
  BY InitTypes DEF Init, IdleRun, RunsInv, SettleInv, Busy
<1>2. RunsInv /\ [Next]_vars => RunsInv'
  <2> SUFFICES ASSUME RunsInv, [Next]_vars PROVE RunsInv'
    OBVIOUS
  <2>1. TypeInv'
    BY StepTypes DEF RunsInv
  <2> QED BY <2>1, SettleStep DEF RunsInv
<1>3. RunsInv /\ [Next]_vars =>
        [run.pc = "visit" /\ run'.pc = "idle" /\ run'.end = "PARTIAL" =>
            \A s \in Source \ (Gated \cup Reopened) : ledger'.state[s] \in {"DONE", "FAILED"}]_vars
  <2> SUFFICES ASSUME RunsInv, Next, run.pc = "visit", run'.pc = "idle", run'.end = "PARTIAL",
                      NEW s \in Source \ (Gated \cup Reopened)
               PROVE  ledger'.state[s] \in {"DONE", "FAILED"}
    OBVIOUS
  <2>0. RunTyped(run) /\ run.end = "none" /\ run.at \in 1 .. Len(Registry) + 1 /\ Len(Registry) \in Nat
    BY RunsTypes DEF SettleInv
  <2>1. CASE End
    <3>1. run.at = Len(Registry) + 1 /\ ledger' = ledger
      BY <2>0, <2>1 DEF End, Close
    <3>2. PICK i \in 1 .. Len(Registry) : s = Registry[i]
      BY DEF Source
    <3>3. i \in 1 .. run.at - 1
      BY <2>0, <3>1
    <3>4. Busy = FALSE /\ Kept(run.states, run.at, Busy, ledger)
      BY DEF Busy, RunsInv, SettleInv, KeptByRun
    <3> QED BY <3>1, <3>2, <3>3, <3>4 DEF Kept, Settled
  <2>2. ASSUME ~End PROVE FALSE
    <3>1. CASE Start \/ Skip \/ Gate \/ Pause \/ Download \/ Verify \/ Finish \/ Raise
      BY <2>0, <3>1, NextPlace, RunsTypes DEF Start, Skip, Gate, Pause, Download, Verify, Finish, Raise,
         IdleRun, RunTyped, Pending, Visiting
    <3>3. ASSUME NEW p \in Process, Die(p) PROVE FALSE
      BY <2>0, <3>3 DEF Die, RunTyped
    <3>4. ASSUME UNCHANGED run PROVE FALSE
      BY <3>4
    <3>5. ASSUME NEW c \in Candidate, Derive(c) PROVE FALSE
      BY <3>5 DEF Derive
    <3> QED BY <2>2, <3>1, <3>3, <3>4, <3>5
            DEF Next, Shard, ShardReceipt, Release, MergeStart, MergeShard, MergeSkip, MergeEnd, ReconcileRead, ReconcileWrite
  <2> QED BY <2>1, <2>2
<1> QED BY <1>1, <1>2, <1>3, PTL DEF Spec, RunsSettle

-----------------------------------------------------------------------------
(* Pedals.  Types, and the greatest element of a bounded set, which is the *)
(* note that a note-off releases.                                          *)

LEMMA GreatestOf ==
    ASSUME NEW m \in Nat, NEW T, T \subseteq 1 .. m, T # {}
    PROVE  \E k \in T : \A j \in T : j <= k
<1> DEFINE D == {m - t : t \in T}
<1>0. \A t \in T : t \in 1 .. m /\ m - t \in Nat
  OBVIOUS
<1>1. D \subseteq Nat /\ D # {}
  BY <1>0
<1>2. PICK d \in D : \A e \in D : ~(<<e, d>> \in OpToRel(<, Nat))
  BY <1>1, WFMin, NatLessThanWellFounded
<1>3. \A e \in D : ~(e < d)
  BY <1>1, <1>2 DEF OpToRel
<1>4. PICK k \in T : d = m - k
  BY <1>2
<1>5. \A j \in T : ~(m - j < m - k)
  BY <1>3, <1>4
<1> QED BY <1>5

LEMMA ReleasedNote ==
    ASSUME NEW k, Active(k) # {}
    PROVE  (CHOOSE n \in Active(k) : \A m \in Active(k) : m <= n) \in Active(k)
<1>1. Active(k) \subseteq 1 .. MaxNotes /\ MaxNotes \in Nat
  BY BoundAssumption DEF Active, Notes
<1> HIDE DEF Active
<1>2. \E n \in Active(k) : \A m \in Active(k) : m <= n
  BY <1>1, GreatestOf
<1> QED BY <1>2

LEMMA UnplayedType == Unplayed \in NoteType
<1>1. (CHOOSE k \in Keys : TRUE) \in Keys
  BY KeyAssumption
<1> QED BY <1>1, BoundAssumption DEF Unplayed, NoteType, NoteStates

LEMMA ChannelOf ==
    ASSUME PedalTypeOK, NEW n \in Notes
    PROVE  note[n] \in NoteType /\ Channel(n) \in Channels
  BY DEF PedalTypeOK, NoteType, Channel, Keys

LEMMA FlushEach ==
    ASSUME NEW notes \in [Notes -> NoteType], NEW c, NEW sus \in BOOLEAN, NEW sos \in BOOLEAN,
           tick \in 0 .. MaxTick
    PROVE  Flushed(notes, c, sus, sos) \in [Notes -> NoteType]
<1>1. \A m \in Notes : notes[m] \in NoteType /\ [notes[m] EXCEPT !.state = "ended", !.end = tick] \in NoteType
  BY DEF NoteType, NoteStates
<1> QED BY <1>1 DEF Flushed

LEMMA UnlatchedTypes ==
    ASSUME PedalTypeOK, NEW c
    PROVE  Unlatched(c) \in [Notes -> NoteType]
<1>1. \A n \in Notes : note[n] \in NoteType
  BY DEF PedalTypeOK
<1>2. \A n \in Notes : [note[n] EXCEPT !.sostenuto = @ /\ note[n].state = "held", !.latch = "none"] \in NoteType
  BY <1>1 DEF NoteType
<1> QED BY <1>1, <1>2 DEF Unlatched

(* The notes of a channel without their latches.                           *)
Unheld(c) == [n \in Notes |-> IF Channel(n) # c THEN note[n]
                 ELSE [note[n] EXCEPT !.sostenuto = FALSE, !.latch = "none"]]

LEMMA ResetTypes ==
    ASSUME PedalTypeOK, NEW c
    PROVE  Unheld(c) \in [Notes -> NoteType]
<1>1. \A n \in Notes : note[n] \in NoteType
  BY DEF PedalTypeOK
<1>2. \A n \in Notes : [note[n] EXCEPT !.sostenuto = FALSE, !.latch = "none"] \in NoteType
  BY <1>1 DEF NoteType
<1> QED BY <1>1, <1>2 DEF Unheld

LEMMA PedalInitTypes == PedalInit => PedalTypeOK
<1> SUFFICES ASSUME PedalInit PROVE PedalTypeOK
  OBVIOUS
<1>1. note \in [Notes -> NoteType]
  BY UnplayedType DEF PedalInit
<1>2. tick \in 0 .. MaxTick /\ used \in 0 .. MaxNotes /\ phase \in {"read", "flat", "stray"}
  BY BoundAssumption DEF PedalInit
<1>3. sustain \in [Channels -> BOOLEAN] /\ sostenuto \in [Channels -> BOOLEAN]
  BY DEF PedalInit
<1> QED BY <1>1, <1>2, <1>3 DEF PedalTypeOK

LEMMA PedalStepTypes ==
    ASSUME PedalTypeOK, [PedalNext]_pedalVars
    PROVE  PedalTypeOK'
<1> USE DEF PedalTypeOK
<1>0. MaxNotes \in Nat /\ MaxTick \in Nat /\ \A n \in Notes : note[n] \in NoteType
  BY BoundAssumption
<1>1. CASE Wait
  BY <1>0, <1>1 DEF Wait
<1>2. ASSUME NEW k \in Keys, NoteOn(k) PROVE PedalTypeOK'
  <2> DEFINE r == [Unplayed EXCEPT !.key = k, !.start = tick, !.state = "held"]
  <2>1. r \in NoteType
    BY UnplayedType DEF NoteType, NoteStates
  <2>2. note' = [note EXCEPT ![used + 1] = r] /\ used' = used + 1 /\ used < MaxNotes
        /\ UNCHANGED <<tick, sustain, sostenuto, phase>>
    BY <1>2 DEF NoteOn
  <2> HIDE DEF r
  <2>3. note' \in [Notes -> NoteType]
    BY <2>1, <2>2
  <2>4. used' \in 0 .. MaxNotes
    BY <1>0, <2>2
  <2> QED BY <2>2, <2>3, <2>4
<1>3. ASSUME NEW k \in Keys, NoteOff(k) PROVE PedalTypeOK'
  <2>1. CASE Active(k) = {}
    BY <1>3, <2>1 DEF NoteOff
  <2>2. CASE Active(k) # {}
    <3> DEFINE n == CHOOSE n \in Active(k) : \A m \in Active(k) : m <= n
    <3>1. n \in Active(k)
      BY <2>2, ReleasedNote
    <3>2. note' = [note EXCEPT ![n] = Released(n)] /\ UNCHANGED <<tick, used, sustain, sostenuto, phase>>
      BY <1>3, <2>2 DEF NoteOff
    <3> HIDE DEF n
    <3>3. n \in Notes
      BY <3>1 DEF Active
    <3>4. Released(n) \in NoteType
      BY <1>0, <3>3 DEF Released, NoteType, NoteStates
    <3> QED BY <3>2, <3>4
  <2> QED BY <2>1, <2>2
<1>4. ASSUME NEW c \in Channels, NEW down \in BOOLEAN, SustainPedal(c, down) PROVE PedalTypeOK'
  <2>1. note' \in [Notes -> NoteType]
    <3>1. CASE note' = note
      BY <3>1
    <3>2. CASE note' = Flushed(note, c, FALSE, sostenuto[c])
      BY <3>2, FlushEach
    <3> QED BY <1>4, <3>1, <3>2 DEF SustainPedal
  <2> QED BY <1>4, <2>1 DEF SustainPedal
<1>5. ASSUME NEW c \in Channels, NEW down \in BOOLEAN, SostenutoPedal(c, down) PROVE PedalTypeOK'
  <2>1. note' \in [Notes -> NoteType]
    <3>1. CASE note' = note
      BY <3>1
    <3>2. CASE note' = Latched(c)
      BY <1>0, <3>2 DEF Latched, NoteType
    <3>3. CASE note' = Flushed(Unlatched(c), c, sustain[c], FALSE)
      BY <3>3, UnlatchedTypes, FlushEach
    <3> QED BY <1>5, <3>1, <3>2, <3>3 DEF SostenutoPedal
  <2> QED BY <1>5, <2>1 DEF SostenutoPedal
<1>6. ASSUME NEW c \in Channels, Reset(c) PROVE PedalTypeOK'
  <2>1. note' \in [Notes -> NoteType]
    BY <1>6, ResetTypes, FlushEach DEF Reset, Unheld
  <2> QED BY <1>6, <2>1 DEF Reset
<1>7. CASE EndOfTrack
  <2>1. note' \in [Notes -> NoteType]
    BY <1>0, <1>7 DEF EndOfTrack, NoteType, NoteStates
  <2> QED BY <1>7, <2>1 DEF EndOfTrack
<1>8. CASE UNCHANGED pedalVars
  BY <1>8 DEF pedalVars
<1> QED BY <1>1, <1>2, <1>3, <1>4, <1>5, <1>6, <1>7, <1>8 DEF PedalNext

(* Every note and every pedal keeps its kind (performance_flattening_v1).  *)
THEOREM PedalTypes == PedalSpec => []PedalTypeOK
  BY PedalInitTypes, PedalStepTypes, PTL DEF PedalSpec

(* A note latched with its key down has the flag, a deferred note is kept  *)
(* by a pedal, and each note that a pressed sostenuto pedal keeps sounded  *)
(* at its press, a flag that outlived an earlier one included.             *)
PedalInv ==
    \A n \in Notes :
        /\ note[n].latch = "key" => note[n].sostenuto
        /\ note[n].state = "deferred" => KeptByPedal(n)
        /\ note[n].state \in {"held", "deferred"} /\ note[n].sostenuto
               /\ sostenuto[Channel(n)] => note[n].latch # "none"

LEMMA PedalInvStep ==
    ASSUME PedalTypeOK, PedalInv, [PedalNext]_pedalVars
    PROVE  PedalInv'
<1> SUFFICES ASSUME NEW n \in Notes
             PROVE  /\ note'[n].latch = "key" => note'[n].sostenuto
                    /\ note'[n].state = "deferred" =>
                          sustain'[note'[n].key[1]] \/ (sostenuto'[note'[n].key[1]] /\ note'[n].sostenuto)
                    /\ note'[n].state \in {"held", "deferred"} /\ note'[n].sostenuto
                          /\ sostenuto'[note'[n].key[1]] => note'[n].latch # "none"
  BY DEF PedalInv, KeptByPedal, Channel
<1> DEFINE c0 == note[n].key[1]
           Goal == /\ note'[n].latch = "key" => note'[n].sostenuto
                   /\ note'[n].state = "deferred" =>
                         sustain'[note'[n].key[1]] \/ (sostenuto'[note'[n].key[1]] /\ note'[n].sostenuto)
                   /\ note'[n].state \in {"held", "deferred"} /\ note'[n].sostenuto
                         /\ sostenuto'[note'[n].key[1]] => note'[n].latch # "none"
<1>a. /\ note[n].latch = "key" => note[n].sostenuto
      /\ note[n].state = "deferred" => sustain[c0] \/ (sostenuto[c0] /\ note[n].sostenuto)
      /\ note[n].state \in {"held", "deferred"} /\ note[n].sostenuto
            /\ sostenuto[c0] => note[n].latch # "none"
  BY DEF PedalInv, KeptByPedal, Channel
<1>b. /\ note \in [Notes -> NoteType] /\ note[n] \in NoteType /\ c0 \in Channels
      /\ sustain \in [Channels -> BOOLEAN] /\ sostenuto \in [Channels -> BOOLEAN]
      /\ tick \in 0 .. MaxTick
  BY ChannelOf DEF PedalTypeOK, Channel
<1>c. ASSUME note'[n] = note[n], UNCHANGED <<sustain, sostenuto>> PROVE Goal
  BY <1>a, <1>c
<1>1. CASE Wait
  BY <1>1, <1>c DEF Wait
<1>2. ASSUME NEW k \in Keys, NoteOn(k) PROVE Goal
  <2> DEFINE r == [Unplayed EXCEPT !.key = k, !.start = tick, !.state = "held"]
  <2>1. note' = [note EXCEPT ![used + 1] = r] /\ UNCHANGED <<sustain, sostenuto>>
    BY <1>2 DEF NoteOn
  <2>2. r.latch = "none" /\ r.sostenuto = FALSE /\ r.state = "held"
    BY DEF Unplayed
  <2> HIDE DEF r
  <2>3. note'[n] = note[n] \/ note'[n] = r
    BY <1>b, <2>1
  <2> QED BY <1>c, <2>1, <2>2, <2>3
<1>3. ASSUME NEW k \in Keys, NoteOff(k) PROVE Goal
  <2> DEFINE m == CHOOSE i \in Active(k) : \A j \in Active(k) : j <= i
  <2>0. CASE Active(k) = {}
    BY <1>3, <1>c, <2>0 DEF NoteOff
  <2>1. SUFFICES ASSUME Active(k) # {} PROVE Goal
    BY <2>0
  <2>2. m \in Active(k)
    BY <2>1, ReleasedNote
  <2>3. note' = [note EXCEPT ![m] = Released(m)] /\ UNCHANGED <<sustain, sostenuto>>
    BY <1>3, <2>1 DEF NoteOff
  <2> HIDE DEF m
  <2>4. CASE n # m
    BY <1>b, <1>c, <2>3, <2>4
  <2>5. CASE n = m
    <3>1. note'[n] = Released(n) /\ note[n].state = "held"
      BY <1>b, <2>2, <2>3, <2>5 DEF Active
    <3>2. /\ Released(n).latch = note[n].latch /\ Released(n).sostenuto = note[n].sostenuto
          /\ Released(n).key = note[n].key
          /\ Released(n).state = "deferred" => sustain[c0] \/ (sostenuto[c0] /\ note[n].sostenuto)
      BY <1>b DEF Released, NoteType, KeptByPedal, Channel
    <3> QED BY <1>a, <2>3, <3>1, <3>2
  <2> QED BY <2>4, <2>5
<1>4. ASSUME NEW c \in Channels, NEW down \in BOOLEAN, SustainPedal(c, down) PROVE Goal
  <2>1. sustain' = [sustain EXCEPT ![c] = down] /\ UNCHANGED sostenuto
    BY <1>4 DEF SustainPedal
  <2>2. CASE sustain[c] /\ ~down
    <3>1. note' = Flushed(note, c, FALSE, sostenuto[c])
      BY <1>4, <2>2 DEF SustainPedal
    <3>2. \/ note'[n] = note[n] /\ (note[n].state = "deferred" /\ c0 = c => sostenuto[c] /\ note[n].sostenuto)
          \/ note'[n] = [note[n] EXCEPT !.state = "ended", !.end = tick]
      <4>1. \/ Flushed(note, c, FALSE, sostenuto[c])[n] = note[n]
               /\ (note[n].state = "deferred" /\ note[n].key[1] = c => FALSE \/ (sostenuto[c] /\ note[n].sostenuto))
            \/ Flushed(note, c, FALSE, sostenuto[c])[n] = [note[n] EXCEPT !.state = "ended", !.end = tick]
        BY <1>b DEF Flushed
      <4> QED BY <3>1, <4>1
    <3>3. sustain'[c0] = (IF c0 = c THEN FALSE ELSE sustain[c0])
      BY <1>b, <2>1, <2>2
    <3>4. CASE note'[n] = note[n] /\ (note[n].state = "deferred" /\ c0 = c => sostenuto[c] /\ note[n].sostenuto)
      BY <1>a, <2>1, <3>3, <3>4
    <3>5. CASE note'[n] = [note[n] EXCEPT !.state = "ended", !.end = tick]
      <4>1. note'[n].state = "ended" /\ note'[n].latch = note[n].latch /\ note'[n].sostenuto = note[n].sostenuto
        BY <1>b, <3>5 DEF NoteType
      <4> QED BY <1>a, <4>1
    <3> QED BY <3>2, <3>4, <3>5
  <2>3. CASE ~(sustain[c] /\ ~down)
    <3>1. note' = note
      BY <1>4, <2>3 DEF SustainPedal
    <3>2. sustain[c0] => sustain'[c0]
      BY <1>b, <2>1, <2>3
    <3> QED BY <1>a, <2>1, <3>1, <3>2
  <2> QED BY <2>2, <2>3
<1>5. ASSUME NEW c \in Channels, NEW down \in BOOLEAN, SostenutoPedal(c, down) PROVE Goal
  <2>1. sostenuto' = [sostenuto EXCEPT ![c] = down] /\ UNCHANGED sustain
    BY <1>5 DEF SostenutoPedal
  <2>2. CASE down /\ ~sostenuto[c]
    <3>1. note' = Latched(c)
      BY <1>5, <2>2 DEF SostenutoPedal
    <3>2. /\ c0 # c => note'[n] = note[n]
          /\ c0 = c /\ note[n].state = "held" =>
                note'[n] = [note[n] EXCEPT !.sostenuto = TRUE, !.latch = "key"]
          /\ c0 = c /\ note[n].state = "deferred" => note'[n] = [note[n] EXCEPT !.latch = "pedal"]
          /\ c0 = c /\ note[n].state \notin {"held", "deferred"} => note'[n] = note[n]
      BY <3>1 DEF Latched, Channel
    <3>4. sostenuto'[c0] = (IF c0 = c THEN TRUE ELSE sostenuto[c0])
      BY <1>b, <2>1, <2>2
    <3>5. CASE note[n].state = "held" /\ c0 = c
      <4>1. /\ note'[n].latch = "key" /\ note'[n].sostenuto = TRUE /\ note'[n].state = "held"
        BY <1>b, <3>2, <3>5 DEF NoteType
      <4> QED BY <4>1
    <3>6. CASE note[n].state = "deferred" /\ c0 = c
      <4>1. /\ note'[n].latch = "pedal" /\ note'[n].sostenuto = note[n].sostenuto
            /\ note'[n].state = "deferred" /\ note'[n].key = note[n].key
        BY <1>b, <3>2, <3>6 DEF NoteType
      <4> QED BY <1>a, <2>1, <3>4, <3>6, <4>1
    <3>7. CASE ~(note[n].state \in {"held", "deferred"} /\ c0 = c)
      BY <1>a, <2>1, <3>2, <3>4, <3>7
    <3> QED BY <3>5, <3>6, <3>7
  <2>3. CASE sostenuto[c] /\ ~down
    <3> DEFINE u == Unlatched(c)
    <3>1. note' = Flushed(u, c, sustain[c], FALSE)
      BY <1>5, <2>3 DEF SostenutoPedal
    <3>2. u \in [Notes -> NoteType]
      BY UnlatchedTypes
    <3>3. u[n] = (IF c0 # c THEN note[n]
                  ELSE [note[n] EXCEPT !.sostenuto = @ /\ note[n].state = "held", !.latch = "none"])
      BY DEF Unlatched, Channel
    <3> HIDE DEF u
    <3>4. \/ note'[n] = u[n] /\ (u[n].state = "deferred" /\ u[n].key[1] = c => sustain[c])
          \/ note'[n] = [u[n] EXCEPT !.state = "ended", !.end = tick]
      <4>1. \/ Flushed(u, c, sustain[c], FALSE)[n] = u[n]
               /\ (u[n].state = "deferred" /\ u[n].key[1] = c => sustain[c] \/ (FALSE /\ u[n].sostenuto))
            \/ Flushed(u, c, sustain[c], FALSE)[n] = [u[n] EXCEPT !.state = "ended", !.end = tick]
        BY <1>b DEF Flushed
      <4> QED BY <3>1, <4>1
    <3>5. sostenuto'[c0] = (IF c0 = c THEN FALSE ELSE sostenuto[c0])
      BY <1>b, <2>1, <2>3
    <3>7. u[n].key[1] = c0 /\ u[n].state = note[n].state
      BY <1>b, <3>3 DEF NoteType
    <3>8. u[n] \in NoteType /\ (u[n].latch = "key" => u[n].sostenuto) /\ (c0 # c => u[n] = note[n])
      BY <1>a, <1>b, <3>2, <3>3 DEF NoteType
    <3>9. CASE note'[n] = u[n] /\ (u[n].state = "deferred" /\ u[n].key[1] = c => sustain[c])
      BY <1>a, <2>1, <3>5, <3>7, <3>8, <3>9
    <3>10. CASE note'[n] = [u[n] EXCEPT !.state = "ended", !.end = tick]
      <4>1. note'[n].state = "ended" /\ note'[n].latch = u[n].latch /\ note'[n].sostenuto = u[n].sostenuto
        BY <3>8, <3>10 DEF NoteType
      <4> QED BY <3>8, <4>1
    <3> QED BY <3>4, <3>9, <3>10
  <2>4. CASE ~(down /\ ~sostenuto[c]) /\ ~(sostenuto[c] /\ ~down)
    <3>1. note' = note
      BY <1>5, <2>4 DEF SostenutoPedal
    <3>2. sostenuto'[c0] = sostenuto[c0]
      BY <1>b, <2>1, <2>4
    <3> QED BY <1>a, <2>1, <3>1, <3>2
  <2> QED BY <2>2, <2>3, <2>4
<1>6. ASSUME NEW c \in Channels, Reset(c) PROVE Goal
  <2> DEFINE u == Unheld(c)
  <2>1. note' = Flushed(u, c, FALSE, FALSE)
        /\ sustain' = [sustain EXCEPT ![c] = FALSE] /\ sostenuto' = [sostenuto EXCEPT ![c] = FALSE]
    BY <1>6 DEF Reset, Unheld
  <2>2. u \in [Notes -> NoteType]
    BY ResetTypes
  <2>3. u[n] = (IF c0 # c THEN note[n] ELSE [note[n] EXCEPT !.sostenuto = FALSE, !.latch = "none"])
    BY DEF Unheld, Channel
  <2> HIDE DEF u
  <2>4. \/ note'[n] = u[n] /\ ~(u[n].state = "deferred" /\ u[n].key[1] = c)
        \/ note'[n] = [u[n] EXCEPT !.state = "ended", !.end = tick]
    <3>1. \/ Flushed(u, c, FALSE, FALSE)[n] = u[n]
             /\ (u[n].state = "deferred" /\ u[n].key[1] = c => FALSE \/ (FALSE /\ u[n].sostenuto))
          \/ Flushed(u, c, FALSE, FALSE)[n] = [u[n] EXCEPT !.state = "ended", !.end = tick]
      BY <1>b DEF Flushed
    <3> QED BY <2>1, <3>1
  <2>5. u[n].key[1] = c0 /\ u[n].state = note[n].state /\ u[n] \in NoteType
        /\ (u[n].latch = "key" => u[n].sostenuto) /\ (c0 # c => u[n] = note[n])
    BY <1>a, <1>b, <2>2, <2>3 DEF NoteType
  <2>6. c0 = c => ~u[n].sostenuto
    BY <1>b, <2>3 DEF NoteType
  <2>7. c0 # c => sustain'[c0] = sustain[c0] /\ sostenuto'[c0] = sostenuto[c0]
    BY <1>b, <2>1
  <2>8. CASE note'[n] = u[n] /\ ~(u[n].state = "deferred" /\ u[n].key[1] = c)
    BY <1>a, <2>1, <2>5, <2>6, <2>7, <2>8
  <2>9. CASE note'[n] = [u[n] EXCEPT !.state = "ended", !.end = tick]
    <3>1. note'[n].state = "ended" /\ note'[n].latch = u[n].latch /\ note'[n].sostenuto = u[n].sostenuto
      BY <2>5, <2>9 DEF NoteType
    <3> QED BY <2>5, <3>1
  <2> QED BY <2>4, <2>8, <2>9
<1>7. CASE EndOfTrack
  <2>1. UNCHANGED <<sustain, sostenuto>>
        /\ note'[n] = (IF n \in Deferred THEN [note[n] EXCEPT !.state = "ended", !.end = tick] ELSE note[n])
    BY <1>7 DEF EndOfTrack
  <2>2. CASE n \in Deferred
    BY <1>a, <1>b, <2>1, <2>2 DEF NoteType
  <2> QED BY <1>c, <2>1, <2>2
<1>8. CASE UNCHANGED pedalVars
  BY <1>8, <1>c DEF pedalVars
<1> QED BY <1>1, <1>2, <1>3, <1>4, <1>5, <1>6, <1>7, <1>8 DEF PedalNext

LEMMA PedalInitInv == PedalInit => PedalInv
<1> SUFFICES ASSUME PedalInit, NEW n \in Notes
             PROVE  note[n].state = "none" /\ note[n].latch = "none"
  BY DEF PedalInv
<1> QED BY DEF PedalInit, Unplayed

(* A note whose key is up sounds only while a pedal of its channel holds   *)
(* it: the sustain pedal, or a sostenuto pedal that was pressed while the  *)
(* note sounded (performance_flattening_v1).                               *)
THEOREM DeferredNotesSound == PedalSpec => []SoundsUnderPedal
<1>1. PedalInit => PedalTypeOK /\ PedalInv
  BY PedalInitTypes, PedalInitInv
<1>2. PedalTypeOK /\ PedalInv /\ [PedalNext]_pedalVars => (PedalTypeOK /\ PedalInv)'
  BY PedalStepTypes, PedalInvStep
<1>3. PedalInv => SoundsUnderPedal
  BY DEF PedalInv, SoundsUnderPedal, KeptByPedal, Deferred
<1> QED BY <1>1, <1>2, <1>3, PTL DEF PedalSpec

LEMMA EndsUnheld ==
    ASSUME PedalTypeOK, PedalInv, [PedalNext]_pedalVars, phase' = "read",
           NEW n \in Notes, note[n].state \in {"held", "deferred"}, note'[n].state = "ended"
    PROVE  ~sustain'[Channel(n)] /\ ~(sostenuto'[Channel(n)] /\ note'[n].latch = "key")
<1> DEFINE Goal == ~sustain'[Channel(n)] /\ ~(sostenuto'[Channel(n)] /\ note'[n].latch = "key")
<1>a. note[n].latch = "key" => note[n].sostenuto
  BY DEF PedalInv
<1>b. /\ note \in [Notes -> NoteType] /\ note[n] \in NoteType /\ Channel(n) \in Channels
      /\ sustain \in [Channels -> BOOLEAN] /\ sostenuto \in [Channels -> BOOLEAN]
      /\ tick \in 0 .. MaxTick /\ Channel(n) = note[n].key[1]
  BY ChannelOf DEF PedalTypeOK, Channel
<1>c. note'[n] # note[n]
  OBVIOUS
<1>1. CASE Wait \/ UNCHANGED pedalVars
  BY <1>1, <1>c DEF Wait, pedalVars
<1>2. ASSUME NEW k \in Keys, NoteOn(k) PROVE Goal
  <2>1. note'[n] = note[n] \/ note'[n].state = "held"
    BY <1>2, <1>b DEF NoteOn, Unplayed
  <2> QED BY <1>c, <2>1
<1>3. ASSUME NEW k \in Keys, NoteOff(k) PROVE Goal
  <2> DEFINE m == CHOOSE i \in Active(k) : \A j \in Active(k) : j <= i
  <2>1. Active(k) # {}
    BY <1>3 DEF NoteOff
  <2>2. m \in Active(k)
    BY <2>1, ReleasedNote
  <2>3. note' = [note EXCEPT ![m] = Released(m)]
    BY <1>3, <2>1 DEF NoteOff
  <2> HIDE DEF m
  <2>4. n = m /\ note'[n] = Released(n)
    BY <1>b, <1>c, <2>2, <2>3 DEF Active
  <2>5. ~KeptByPedal(n) /\ note'[n].latch = note[n].latch
    BY <1>b, <2>4 DEF Released, NoteType
  <2>6. UNCHANGED <<sustain, sostenuto>>
    BY <1>3 DEF NoteOff
  <2> QED BY <1>a, <2>5, <2>6 DEF KeptByPedal
<1>4. ASSUME NEW c \in Channels, NEW down \in BOOLEAN, SustainPedal(c, down) PROVE Goal
  <2>1. sustain' = [sustain EXCEPT ![c] = down] /\ UNCHANGED sostenuto
    BY <1>4 DEF SustainPedal
  <2>2. sustain[c] /\ ~down /\ note' = Flushed(note, c, FALSE, sostenuto[c])
    BY <1>4, <1>c DEF SustainPedal
  <2>3. note[n].key[1] = c /\ ~(sostenuto[c] /\ note[n].sostenuto)
        /\ note'[n] = [note[n] EXCEPT !.state = "ended", !.end = tick]
    BY <1>c, <2>2 DEF Flushed
  <2>4. note'[n].latch = note[n].latch
    BY <1>b, <2>3 DEF NoteType
  <2>5. ~sustain'[c]
    BY <1>b, <2>1, <2>2
  <2> QED BY <1>a, <1>b, <2>1, <2>3, <2>4, <2>5
<1>5. ASSUME NEW c \in Channels, NEW down \in BOOLEAN, SostenutoPedal(c, down) PROVE Goal
  <2>1. sostenuto' = [sostenuto EXCEPT ![c] = down] /\ UNCHANGED sustain
    BY <1>5 DEF SostenutoPedal
  <2>2. CASE down /\ ~sostenuto[c]
    <3>1. note' = Latched(c)
      BY <1>5, <2>2 DEF SostenutoPedal
    <3>2. note'[n].state = note[n].state
      BY <1>b, <3>1 DEF Latched, NoteType
    <3> QED BY <3>2
  <2>3. CASE ~(down /\ ~sostenuto[c])
    <3> DEFINE u == Unlatched(c)
    <3>1. sostenuto[c] /\ ~down /\ note' = Flushed(u, c, sustain[c], FALSE)
      BY <1>5, <1>c, <2>3 DEF SostenutoPedal
    <3>2. u[n] = (IF Channel(n) # c THEN note[n]
                  ELSE [note[n] EXCEPT !.sostenuto = @ /\ note[n].state = "held", !.latch = "none"])
      BY DEF Unlatched
    <3>3. u[n].key[1] = note[n].key[1] /\ u[n].state = note[n].state
      BY <1>b, <3>2 DEF NoteType
    <3> HIDE DEF u
    <3>4. (u[n].key[1] = c /\ ~sustain[c]) \/ note'[n] = u[n]
      BY <3>1 DEF Flushed
    <3>5. note'[n] # u[n]
      BY <3>3
    <3>6. ~sostenuto'[c]
      BY <1>b, <2>1, <3>1
    <3> QED BY <1>b, <2>1, <3>3, <3>4, <3>5, <3>6
  <2> QED BY <2>2, <2>3
<1>6. ASSUME NEW c \in Channels, Reset(c) PROVE Goal
  <2> DEFINE u == Unheld(c)
  <2>1. note' = Flushed(u, c, FALSE, FALSE)
        /\ sustain' = [sustain EXCEPT ![c] = FALSE] /\ sostenuto' = [sostenuto EXCEPT ![c] = FALSE]
    BY <1>6 DEF Reset, Unheld
  <2>2. u[n] = (IF Channel(n) # c THEN note[n] ELSE [note[n] EXCEPT !.sostenuto = FALSE, !.latch = "none"])
    BY DEF Unheld
  <2>3. u[n].key[1] = note[n].key[1] /\ u[n].state = note[n].state
    BY <1>b, <2>2 DEF NoteType
  <2> HIDE DEF u
  <2>4. u[n].key[1] = c \/ note'[n] = u[n]
    BY <2>1 DEF Flushed
  <2>5. note'[n] # u[n]
    BY <2>3
  <2>6. ~sostenuto'[c] /\ ~sustain'[c]
    BY <1>b, <2>1
  <2> QED BY <1>b, <2>3, <2>4, <2>5, <2>6
<1>7. CASE EndOfTrack
  BY <1>7 DEF EndOfTrack
<1> QED BY <1>1, <1>2, <1>3, <1>4, <1>5, <1>6, <1>7 DEF PedalNext

(* No step ends a note that a pedal, as the step leaves it, holds, before  *)
(* the track ends: the sustain pedal, or a sostenuto pedal pressed while   *)
(* the key of the note was down (performance_flattening_v1).               *)
THEOREM PedalledNotesStay == PedalSpec => HeldNotesStay
<1> DEFINE Stay == phase' = "read" =>
              \A n \in Notes : note[n].state \in {"held", "deferred"} /\ note'[n].state = "ended" =>
                  /\ ~sustain'[Channel(n)]
                  /\ ~(sostenuto'[Channel(n)] /\ note'[n].latch = "key")
<1>1. PedalInit => PedalTypeOK /\ PedalInv
  BY PedalInitTypes, PedalInitInv
<1>2. PedalTypeOK /\ PedalInv /\ [PedalNext]_pedalVars => (PedalTypeOK /\ PedalInv)'
  BY PedalStepTypes, PedalInvStep
<1>3. PedalTypeOK /\ PedalInv /\ [PedalNext]_pedalVars => [Stay]_pedalVars
  BY EndsUnheld
<1>4. [][Stay]_pedalVars => HeldNotesStay
  BY PTL DEF HeldNotesStay
<1> QED BY <1>1, <1>2, <1>3, <1>4, PTL DEF PedalSpec

=============================================================================
