--------------------------- MODULE ResumeSyncProofs ---------------------------
(***************************************************************************)
(* Safety of ResumeSync for any candidates, contents, overlapping pulls    *)
(* and replays, batch sizes, overlap windows and skews below them.         *)
(***************************************************************************)
EXTENDS ResumeSync, SetSums

\* Timestamps that are read or will be written are behind the source's clock.
ClockInv ==
  /\ \A i \in Items : updated[i] <= clock
  /\ cursor # None => cursor <= clock
  /\ \A t \in Tasks : goal[t] <= clock

Working == {"check", "discard", "ingest", "record"}

\* A task in the middle of an item has a key and a content; what it is about to call
\* ingested has a job.
HandOK(t) ==
  /\ pc[t] \in Working => key[t] \in Keys /\ bytes[t] \in Contents
  /\ pc[t] \in {"discard", "record"} => Fetched(t) \in handed

HandInv == \A t \in Tasks : HandOK(t)

\* A row says ingested only of a pair with a job.
IngestedInv == \A k \in Keys : outcome[k] = "ingested" => k \in handed

\* The candidate is behind the window of a cursor value.
Behind(i, value) == updated[i] > 0 /\ updated[i] < OverlapStart(value)

\* The candidate is within reach of a lookback.
InReach(i, from) == updated[i] >= OverlapStart(from)

Listed(r) == pc[r] \in {"item"} \cup Working

\* What is behind the goal of a pull has been seen, or the pull has still to look at it.
PullOK(r) ==
  \A i \in Items : Behind(i, goal[r]) /\ InReach(i, base[r]) =>
    /\ pc[r] = "list" => Seen(i)
    /\ Listed(r) => Seen(i) \/ <<i, Unknown>> \in todo[r]

PullInv == \A r \in Pulls : PullOK(r)

SyncInv == TypeOK /\ ClockInv /\ HandInv /\ IngestedInv /\ PullInv /\ NoCandidateLost

-----------------------------------------------------------------------------
(***************************************************************************)
(* Maxima.                                                                 *)
(***************************************************************************)

LEMMA TimesFacts ==
  /\ 0..MaxTime \subseteq Times /\ Times \subseteq Int /\ 0 \in Times
  /\ 0 - Lookback \in Times /\ None \notin Times
  /\ \A t \in 0..MaxTime : t - Lookback \in Times /\ t - Lookback <= t
BY BoundsAssumption, NamesAssumption DEF Times

\* A set of timestamps has a newest one.
LEMMA NewestExists ==
  ASSUME NEW S \in SUBSET Times, S # {}
  PROVE  Max(S) \in S /\ \A x \in S : Max(S) >= x
<1>1. IsFiniteSet(Times)
  BY FS_Interval, BoundsAssumption DEF Times
<1>2. IsFiniteSet(S)
  BY <1>1, FS_Subset
<1>3. S \in SUBSET Int
  BY BoundsAssumption DEF Times
<1> QED BY <1>2, <1>3, LargestExists

LEMMA NewestOfTwo ==
  ASSUME NEW a \in Times, NEW b \in Times
  PROVE  Max({a, b}) \in {a, b} /\ Max({a, b}) >= a /\ Max({a, b}) >= b
BY NewestExists

LEMMA BumpedType ==
  ASSUME TypeOK, NEW k \in Keys
  PROVE  Bumped(k) \in 0..MaxAttempts
<1>1. attempts[k] \in 0..MaxAttempts /\ MaxAttempts \in Nat
  BY BoundsAssumption DEF TypeOK
<1>2. Bumped(k) = IF attempts[k] + 1 <= MaxAttempts THEN attempts[k] + 1 ELSE MaxAttempts
  BY <1>1 DEF Bumped, Min
<1> QED BY <1>1, <1>2

-----------------------------------------------------------------------------
(***************************************************************************)
(* What the parts of a step do.                                            *)
(***************************************************************************)

TasksTypeOK ==
  /\ pc \in [Tasks -> PC]
  /\ todo \in [Tasks -> SUBSET Keys]
  /\ goal \in [Tasks -> Times]
  /\ base \in [Tasks -> Times]
  /\ key \in [Tasks -> Keys \cup {None}]
  /\ bytes \in [Tasks -> Contents \cup {None}]

RowsTypeOK ==
  /\ outcome \in [Keys -> {"none", "ingested", "failed"}]
  /\ attempts \in [Keys -> 0..MaxAttempts]

\* Only task t moves.
Others(t) ==
  \A u \in Tasks \ {t} :
    /\ pc'[u] = pc[u] /\ todo'[u] = todo[u] /\ goal'[u] = goal[u] /\ base'[u] = base[u]
    /\ key'[u] = key[u] /\ bytes'[u] = bytes[u]

LEMMA RecordItemFacts ==
  ASSUME TypeOK, NEW k \in Keys, NEW o \in {"ingested", "failed"}, RecordItem(k, o)
  PROVE  /\ RowsTypeOK'
         /\ \A j \in Keys : outcome'[j] = IF j = k THEN o ELSE outcome[j]
<1>1. Bumped(k) \in 0..MaxAttempts
  BY BumpedType
<1>2. /\ outcome' = [outcome EXCEPT ![k] = o]
      /\ attempts' = [attempts EXCEPT ![k] = Bumped(k)]
  BY DEF RecordItem
<1> QED BY <1>1, <1>2 DEF TypeOK, RowsTypeOK

LEMMA NextItemFacts ==
  ASSUME TypeOK, NEW t \in Tasks, NextItem(t)
  PROVE  /\ TasksTypeOK' /\ Others(t) /\ goal' = goal /\ base' = base
         /\ pc'[t] = "item" /\ todo'[t] = todo[t] \ {key[t]}
<1>1. /\ pc' = [pc EXCEPT ![t] = "item"]
      /\ todo' = [todo EXCEPT ![t] = todo[t] \ {key[t]}]
      /\ key' = [key EXCEPT ![t] = None]
      /\ bytes' = [bytes EXCEPT ![t] = None]
      /\ goal' = goal /\ base' = base
  BY DEF NextItem
<1>2. todo[t] \ {key[t]} \in SUBSET Keys /\ "item" \in PC
  BY DEF TypeOK, PC
<1> QED BY <1>1, <1>2 DEF TypeOK, TasksTypeOK, Others

LEMMA GotoFacts ==
  ASSUME TypeOK, NEW t \in Tasks, NEW label \in PC, Goto(t, label)
  PROVE  /\ TasksTypeOK' /\ Others(t)
         /\ UNCHANGED <<todo, held, goal, base, key, bytes>>
         /\ pc'[t] = label
BY DEF TypeOK, TasksTypeOK, Others, Goto

LEMMA EndFacts ==
  ASSUME TypeOK, NEW t \in Tasks, End(t)
  PROVE  /\ TasksTypeOK' /\ Others(t) /\ held' \in [Tasks -> SUBSET Keys]
         /\ pc'[t] = "idle" /\ goal'[t] = 0
<1>1. 0 \in Times /\ "idle" \in PC
  BY TimesFacts DEF PC
<1> QED BY <1>1 DEF TypeOK, TasksTypeOK, Others, End

\* What was seen stays seen when rows go only of pairs with a job.
LEMMA SeenKept ==
  ASSUME handed \subseteq handed',
         \A k \in Keys : outcome[k] # "none" => outcome'[k] # "none" \/ \E c \in Hashes : <<k[1], c>> \in handed'
  PROVE  \A i \in Items : Seen(i) => Seen(i)'
<1> SUFFICES ASSUME NEW i \in Items, Seen(i) PROVE Seen(i)'
  OBVIOUS
<1>1. PICK h \in Hashes : <<i, h>> \in handed \/ outcome[<<i, h>>] # "none"
  BY DEF Seen
<1>2. <<i, h>> \in Keys /\ <<i, h>>[1] = i
  BY DEF Keys
<1> QED BY <1>1, <1>2 DEF Seen

\* The invariant after a step of one task that leaves the source and the cursor alone.
LEMMA TaskStep ==
  ASSUME SyncInv, NEW t \in Tasks, UNCHANGED <<sourceVars, cursor, origin>>,
         TasksTypeOK', RowsTypeOK', held' \in [Tasks -> SUBSET Keys],
         handed' \in SUBSET (Items \X Contents), handed \subseteq handed', Others(t),
         \A i \in Items : Seen(i) => Seen(i)',
         \A k \in Keys : outcome'[k] = "ingested" => k \in handed',
         goal'[t] <= clock, HandOK(t)', t \in Pulls => PullOK(t)'
  PROVE  SyncInv'
<1>1. edits' = edits /\ clock' = clock /\ updated' = updated /\ content' = content
  BY DEF sourceVars
<1>2. TypeOK'
  BY <1>1 DEF SyncInv, TypeOK, TasksTypeOK, RowsTypeOK
<1>3. ClockInv'
  BY <1>1 DEF SyncInv, ClockInv, Others
<1>4. HandInv'
  BY DEF SyncInv, HandInv, HandOK, Others, Fetched
<1>5. IngestedInv'
  BY DEF IngestedInv
<1>6. PullInv'
  <2> SUFFICES ASSUME NEW r \in Pulls, r # t PROVE PullOK(r)'
    BY DEF PullInv
  <2>1. PullOK(r) /\ pc'[r] = pc[r] /\ goal'[r] = goal[r] /\ base'[r] = base[r] /\ todo'[r] = todo[r]
    BY DEF SyncInv, PullInv, Others, Tasks
  <2> QED BY <1>1, <2>1 DEF PullOK, Behind, InReach, Listed, OverlapStart
<1>7. NoCandidateLost'
  BY <1>1 DEF SyncInv, NoCandidateLost, Passed, OverlapStart
<1> QED BY <1>2, <1>3, <1>4, <1>5, <1>6, <1>7 DEF SyncInv

-----------------------------------------------------------------------------
(***************************************************************************)
(* Steps that pulls and replays share.                                     *)
(***************************************************************************)

LEMMA TaskKinds ==
  /\ Pulls \subseteq Tasks /\ Replays \subseteq Tasks
  /\ \A p \in Replays : p \notin Pulls
BY NamesAssumption DEF Tasks

LEMMA RowsKeep ==
  ASSUME SyncInv, UNCHANGED <<ledgerVars, handed>>
  PROVE  /\ RowsTypeOK' /\ handed' \in SUBSET (Items \X Contents)
         /\ \A i \in Items : Seen(i) => Seen(i)'
         /\ \A k \in Keys : outcome'[k] = "ingested" => k \in handed'
BY DEF SyncInv, TypeOK, RowsTypeOK, Seen, IngestedInv, ledgerVars

LEMMA HeldKeeps ==
  ASSUME SyncInv, held' = held
  PROVE  held' \in [Tasks -> SUBSET Keys]
BY DEF SyncInv, TypeOK

\* Rows are written, none is deleted.
LEMMA RowWritten ==
  ASSUME SyncInv, NEW k \in Keys, NEW o \in {"ingested", "failed"}, RecordItem(k, o),
         o = "ingested" => k \in handed, UNCHANGED handed
  PROVE  /\ RowsTypeOK' /\ handed' \in SUBSET (Items \X Contents)
         /\ \A i \in Items : Seen(i) => Seen(i)'
         /\ \A j \in Keys : outcome'[j] = "ingested" => j \in handed'
         /\ k[1] \in Items /\ Seen(k[1])'
<1>1. TypeOK /\ IngestedInv
  BY DEF SyncInv
<1>2. RowsTypeOK' /\ \A j \in Keys : outcome'[j] = IF j = k THEN o ELSE outcome[j]
  BY <1>1, RecordItemFacts
<1>3. \A i \in Items : Seen(i) => Seen(i)'
  BY <1>2, SeenKept
<1>4. \A j \in Keys : outcome'[j] = "ingested" => j \in handed'
  BY <1>1, <1>2 DEF IngestedInv
<1>5. k[1] \in Items /\ k[2] \in Hashes /\ k = <<k[1], k[2]>>
  BY DEF Keys
<1>6. Seen(k[1])'
  BY <1>2, <1>5 DEF Seen
<1> QED BY <1>1, <1>2, <1>3, <1>4, <1>5, <1>6 DEF TypeOK

\* A task is done with its item.
LEMMA ItemDone ==
  ASSUME SyncInv, NEW t \in Tasks, NextItem(t), UNCHANGED sourceVars,
         \A i \in Items : Seen(i) => Seen(i)',
         t \in Pulls => pc[t] \in Working /\ \A i \in Items : i = key[t][1] => Seen(i)'
  PROVE  /\ TasksTypeOK' /\ Others(t) /\ goal'[t] <= clock /\ HandOK(t)'
         /\ t \in Pulls => PullOK(t)'
<1>1. /\ TasksTypeOK' /\ Others(t) /\ goal' = goal /\ base' = base
      /\ pc'[t] = "item" /\ todo'[t] = todo[t] \ {key[t]}
  BY NextItemFacts DEF SyncInv
<1>2. goal'[t] <= clock
  BY <1>1 DEF SyncInv, ClockInv
<1>3. HandOK(t)'
  BY <1>1 DEF HandOK, Working
<1>4. ASSUME t \in Pulls PROVE PullOK(t)'
  <2> SUFFICES ASSUME NEW i \in Items, Behind(i, goal[t]), InReach(i, base[t]) PROVE Seen(i)' \/ <<i, Unknown>> \in todo'[t]
    BY <1>1 DEF PullOK, Behind, InReach, OverlapStart, sourceVars
  <2>1. Seen(i) \/ <<i, Unknown>> \in todo[t]
    BY <1>4 DEF SyncInv, PullInv, PullOK, Listed
  <2>2. <<i, Unknown>> = key[t] => key[t][1] = i
    OBVIOUS
  <2> QED BY <1>1, <1>4, <2>1, <2>2
<1> QED BY <1>1, <1>2, <1>3, <1>4

LEMMA DownloadStep ==
  ASSUME SyncInv, NEW t \in Tasks, NEW k \in Keys, Download(t, k)
  PROVE  SyncInv'
<1>1. /\ pc[t] = "item" /\ content[k[1]] # None
      /\ pc' = [pc EXCEPT ![t] = "check"]
      /\ key' = [key EXCEPT ![t] = k]
      /\ bytes' = [bytes EXCEPT ![t] = content[k[1]]]
      /\ UNCHANGED <<sourceVars, cursor, origin, ledgerVars, handed, todo, held, goal, base>>
  BY DEF Download
<1>2. k[1] \in Items /\ content[k[1]] \in Contents /\ "check" \in PC
  BY <1>1 DEF Keys, SyncInv, TypeOK, PC
<1>3. /\ TasksTypeOK' /\ Others(t)
      /\ pc'[t] = "check" /\ key'[t] = k /\ bytes'[t] = content[k[1]]
  BY <1>1, <1>2 DEF SyncInv, TypeOK, TasksTypeOK, Others
<1>4. HandOK(t)' /\ goal'[t] <= clock
  BY <1>1, <1>2, <1>3 DEF HandOK, Working, SyncInv, ClockInv
<1>5. ASSUME t \in Pulls PROVE PullOK(t)'
  <2>1. PullOK(t)
    BY <1>5 DEF SyncInv, PullInv
  <2> QED BY <1>1, <1>3, <2>1 DEF PullOK, Listed, Working, Behind, InReach, OverlapStart, Seen, sourceVars,
                                  ledgerVars
<1> QED BY <1>1, <1>3, <1>4, <1>5, RowsKeep, HeldKeeps, TaskStep

LEMMA IngestUploadStep ==
  ASSUME SyncInv, NEW t \in Tasks, IngestUpload(t)
  PROVE  SyncInv'
<1>1. /\ pc[t] = "ingest" /\ handed' = handed \cup {Fetched(t)} /\ Goto(t, "record")
      /\ UNCHANGED <<sourceVars, cursor, origin, ledgerVars>>
  BY DEF IngestUpload
<1>2. TypeOK /\ key[t] \in Keys /\ bytes[t] \in Contents
  BY <1>1 DEF SyncInv, HandInv, HandOK, Working
<1>3. Fetched(t) \in Items \X Contents
  BY <1>2 DEF Fetched, Keys
<1>4. /\ TasksTypeOK' /\ Others(t) /\ UNCHANGED <<todo, held, goal, base, key, bytes>>
      /\ pc'[t] = "record"
  BY <1>1, <1>2, GotoFacts DEF PC
<1>5. handed' \in SUBSET (Items \X Contents) /\ handed \subseteq handed'
  BY <1>1, <1>2, <1>3 DEF TypeOK
<1>6. /\ \A i \in Items : Seen(i) => Seen(i)'
      /\ \A k \in Keys : outcome'[k] = "ingested" => k \in handed'
      /\ RowsTypeOK'
  BY <1>1, <1>2, <1>5 DEF Seen, SyncInv, IngestedInv, RowsTypeOK, TypeOK, ledgerVars
<1>7. HandOK(t)' /\ goal'[t] <= clock
  BY <1>1, <1>2, <1>4 DEF HandOK, Fetched, SyncInv, ClockInv
<1>8. ASSUME t \in Pulls PROVE PullOK(t)'
  <2>1. PullOK(t)
    BY <1>8 DEF SyncInv, PullInv
  <2> QED BY <1>1, <1>4, <1>6, <2>1 DEF PullOK, Listed, Working, Behind, InReach, OverlapStart, sourceVars
<1>9. held' \in [Tasks -> SUBSET Keys]
  BY <1>4, HeldKeeps
<1> QED BY <1>1, <1>4, <1>5, <1>6, <1>7, <1>8, <1>9, TaskStep

\* A task that ends forgets everything.
LEMMA EndStep ==
  ASSUME SyncInv, NEW t \in Tasks, End(t), UNCHANGED <<sourceVars, cursor, origin, ledgerVars, handed>>
  PROVE  SyncInv'
<1>1. /\ TasksTypeOK' /\ Others(t) /\ held' \in [Tasks -> SUBSET Keys]
      /\ pc'[t] = "idle" /\ goal'[t] = 0
  BY EndFacts DEF SyncInv
<1>2. HandOK(t)' /\ goal'[t] <= clock
  BY <1>1 DEF HandOK, Working, SyncInv, TypeOK
<1>3. PullOK(t)'
  BY <1>1 DEF PullOK, Listed, Working
<1> QED BY <1>1, <1>2, <1>3, RowsKeep, TaskStep

-----------------------------------------------------------------------------
(***************************************************************************)
(* The pull.                                                               *)
(***************************************************************************)

\* A pull reads the cursor, or a lookback of its own while there is none; nothing lies
\* between such a lookback and itself.
LEMMA ReadCursorFacts ==
  ASSUME SyncInv
  PROVE  /\ ReadCursor \in Times /\ ReadCursor <= clock
         /\ (IF cursor = None THEN ReadCursor ELSE origin) \in Times
         /\ \A i \in Items :
              /\ Behind(i, ReadCursor)
              /\ InReach(i, IF cursor = None THEN ReadCursor ELSE origin)
              => Passed(i)
<1>1. /\ clock \in 0..MaxTime /\ cursor \in Times \cup {None} /\ origin \in Times
      /\ cursor # None => cursor <= clock
      /\ \A i \in Items : updated[i] \in 0..MaxTime
  BY DEF SyncInv, TypeOK, ClockInv
<1>2. CASE cursor = None
  <2>1. ReadCursor = clock - Lookback
    BY <1>2 DEF ReadCursor
  <2>2. ReadCursor \in Times /\ ReadCursor <= clock /\ ReadCursor \in Int /\ Overlap \in Int
    BY <1>1, <2>1, TimesFacts, OverlapAssumption
  <2>3. \A i \in Items : ~ (Behind(i, ReadCursor) /\ InReach(i, ReadCursor))
    BY <1>1, <2>2 DEF Behind, InReach, OverlapStart
  <2> QED BY <1>2, <2>2, <2>3
<1>3. CASE cursor # None
  BY <1>1, <1>3 DEF ReadCursor, Behind, InReach, Passed
<1> QED BY <1>2, <1>3

LEMMA StartPullStep ==
  ASSUME SyncInv, NEW r \in Pulls, StartPull(r)
  PROVE  SyncInv'
<1> DEFINE from == IF cursor = None THEN ReadCursor ELSE origin
<1>1. /\ pc[r] = "idle" /\ pc' = [pc EXCEPT ![r] = "list"]
      /\ goal' = [goal EXCEPT ![r] = ReadCursor]
      /\ base' = [base EXCEPT ![r] = from]
      /\ UNCHANGED <<sourceVars, cursor, origin, ledgerVars, handed, todo, held, key, bytes>>
  BY DEF StartPull
<1>2. /\ ReadCursor \in Times /\ ReadCursor <= clock /\ from \in Times
      /\ \A i \in Items : Behind(i, ReadCursor) /\ InReach(i, from) => Seen(i)
  BY ReadCursorFacts DEF SyncInv, NoCandidateLost
<1>3. TypeOK /\ r \in Tasks
  BY TaskKinds DEF SyncInv
<1> HIDE DEF from
<1>4. /\ TasksTypeOK' /\ Others(r) /\ pc'[r] = "list" /\ goal'[r] = ReadCursor
      /\ base'[r] = from
  BY <1>1, <1>2, <1>3 DEF TypeOK, TasksTypeOK, Others, PC
<1>5. HandOK(r)' /\ goal'[r] <= clock
  BY <1>2, <1>4 DEF HandOK, Working
<1>6. PullOK(r)'
  <2> SUFFICES ASSUME NEW i \in Items, Behind(i, ReadCursor), InReach(i, from) PROVE Seen(i)'
    BY <1>1, <1>4 DEF PullOK, Listed, Working, Behind, InReach, OverlapStart, sourceVars
  <2>1. Seen(i)
    BY <1>2
  <2> QED BY <1>1, <2>1, RowsKeep
<1> QED BY <1>1, <1>3, <1>4, <1>5, <1>6, RowsKeep, HeldKeeps, TaskStep

\* A batch holds what lies behind the cursor that follows it, save what lay behind the
\* window it was listed for.
LEMMA BatchCovers ==
  ASSUME TypeOK, NEW value \in Times, NEW batch \in ListChanged(OverlapStart(value))
  PROVE  /\ batch \in SUBSET Items /\ NextCursor(value, batch) \in Times
         /\ NextCursor(value, batch) \in {value} \cup {updated[i] : i \in batch}
         /\ \A i \in Items : Behind(i, NextCursor(value, batch)) => Behind(i, value) \/ i \in batch
<1>1. /\ batch \subseteq Changed(OverlapStart(value))
      /\ \A i \in batch, j \in Changed(OverlapStart(value)) \ batch : updated[i] <= updated[j]
  BY DEF ListChanged
<1>2. batch \in SUBSET Items
  BY <1>1 DEF Changed
<1> DEFINE S == {value} \cup {updated[i] : i \in batch}
<1>3. S \in SUBSET Times /\ S # {}
  BY <1>2, TimesFacts DEF TypeOK
<1>4. Max(S) \in S /\ Max(S) \in Times
  <2> HIDE DEF S
  <2> QED BY <1>3, NewestExists
<1>5. NextCursor(value, batch) = Max(S)
  BY DEF NextCursor
<1>6. ASSUME NEW i \in Items, Behind(i, Max(S)), ~ Behind(i, value), i \notin batch PROVE FALSE
  <2>1. /\ updated[i] \in Nat /\ value \in Int /\ Max(S) \in Int /\ Overlap \in Nat
        /\ \A j \in batch : updated[j] \in Nat
    BY <1>2, <1>4, TimesFacts, BoundsAssumption, OverlapAssumption DEF TypeOK
  <2>2. updated[i] > 0 /\ updated[i] < Max(S) - Overlap /\ ~ (updated[i] < value - Overlap)
    BY <1>6 DEF Behind, InReach, OverlapStart
  <2>3. i \in Changed(OverlapStart(value)) \ batch
    BY <1>6, <2>1, <2>2 DEF Changed, OverlapStart
  <2>4. \A j \in batch : updated[j] <= updated[i]
    BY <1>1, <2>3
  <2>5. \A x \in S : x = value \/ \E j \in batch : x = updated[j]
    OBVIOUS
  <2>6. Max(S) = value \/ Max(S) <= updated[i]
    <3> HIDE DEF S
    <3> QED BY <1>4, <2>4, <2>5
  <2> HIDE DEF S
  <2> QED BY <2>1, <2>2, <2>6
<1> QED BY <1>2, <1>4, <1>5, <1>6

LEMMA ListBatchStep ==
  ASSUME SyncInv, NEW r \in Pulls, ListBatch(r)
  PROVE  SyncInv'
<1>1. /\ pc[r] = "list" /\ pc' = [pc EXCEPT ![r] = "item"]
      /\ UNCHANGED <<sourceVars, cursor, origin, ledgerVars, handed, held, base, key, bytes>>
  BY DEF ListBatch
<1>2. PICK batch \in ListChanged(OverlapStart(goal[r])) :
        /\ todo' = [todo EXCEPT ![r] = batch \X {Unknown}]
        /\ goal' = [goal EXCEPT ![r] = NextCursor(goal[r], batch)]
  BY DEF ListBatch
<1>3. TypeOK /\ r \in Tasks /\ goal[r] \in Times /\ goal[r] <= clock
  BY TaskKinds DEF SyncInv, TypeOK, ClockInv
<1> DEFINE next == NextCursor(goal[r], batch)
<1>4. /\ batch \in SUBSET Items /\ next \in Times
      /\ next \in {goal[r]} \cup {updated[i] : i \in batch}
      /\ \A i \in Items : Behind(i, next) => Behind(i, goal[r]) \/ i \in batch
  BY <1>3, BatchCovers
<1>5. goal' = [goal EXCEPT ![r] = next]
  BY <1>2
<1> HIDE DEF next
<1>6. /\ TasksTypeOK' /\ Others(r) /\ pc'[r] = "item" /\ goal'[r] = next /\ base' = base
      /\ todo'[r] = batch \X {Unknown}
  <2>1. batch \X {Unknown} \in SUBSET Keys /\ "item" \in PC
    BY <1>4 DEF Keys, Hashes, PC
  <2> QED BY <1>1, <1>2, <1>3, <1>4, <1>5, <2>1 DEF TypeOK, TasksTypeOK, Others
<1>7. HandOK(r)' /\ goal'[r] <= clock
  <2>1. next <= clock
    BY <1>3, <1>4 DEF SyncInv, ClockInv
  <2> QED BY <1>6, <2>1 DEF HandOK, Working
<1>8. PullOK(r)'
  <2> SUFFICES ASSUME NEW i \in Items, Behind(i, next), InReach(i, base[r])
               PROVE  Seen(i)' \/ <<i, Unknown>> \in todo'[r]
    BY <1>1, <1>6 DEF PullOK, Behind, InReach, OverlapStart, sourceVars
  <2>1. CASE i \in batch
    BY <1>6, <2>1
  <2>2. CASE Behind(i, goal[r])
    <3>1. Seen(i)
      BY <1>1, <2>2 DEF SyncInv, PullInv, PullOK
    <3> QED BY <1>1, <3>1, RowsKeep
  <2> QED BY <1>4, <2>1, <2>2
<1> QED BY <1>1, <1>3, <1>6, <1>7, <1>8, RowsKeep, HeldKeeps, TaskStep

LEMMA PullFetchFailsStep ==
  ASSUME SyncInv, NEW r \in Pulls, NEW k \in Keys, PullFetchFails(r, k)
  PROVE  SyncInv'
<1>1. /\ pc[r] = "item" /\ RecordItem(k, "failed")
      /\ todo' = [todo EXCEPT ![r] = todo[r] \ {k}]
      /\ UNCHANGED <<sourceVars, cursor, origin, handed, pc, held, goal, base, key, bytes>>
  BY DEF PullFetchFails
<1>2. TypeOK /\ r \in Tasks
  BY TaskKinds DEF SyncInv
<1>3. /\ RowsTypeOK' /\ handed' \in SUBSET (Items \X Contents)
      /\ \A i \in Items : Seen(i) => Seen(i)'
      /\ \A j \in Keys : outcome'[j] = "ingested" => j \in handed'
      /\ k[1] \in Items /\ Seen(k[1])'
  BY <1>1, RowWritten
<1>4. TasksTypeOK' /\ Others(r) /\ todo'[r] = todo[r] \ {k}
  <2>1. todo[r] \ {k} \in SUBSET Keys
    BY <1>2 DEF TypeOK
  <2> QED BY <1>1, <1>2, <2>1 DEF TypeOK, TasksTypeOK, Others
<1>5. HandOK(r)' /\ goal'[r] <= clock
  BY <1>1, <1>2 DEF HandOK, Working, SyncInv, ClockInv
<1>6. PullOK(r)'
  <2> SUFFICES ASSUME NEW i \in Items, Behind(i, goal[r]), InReach(i, base[r])
               PROVE  Seen(i)' \/ <<i, Unknown>> \in todo'[r]
    BY <1>1 DEF PullOK, Behind, InReach, OverlapStart, sourceVars
  <2>1. Seen(i) \/ <<i, Unknown>> \in todo[r]
    BY <1>1 DEF SyncInv, PullInv, PullOK, Listed
  <2>2. <<i, Unknown>> = k => k[1] = i
    OBVIOUS
  <2> QED BY <1>3, <1>4, <2>1, <2>2
<1> QED BY <1>1, <1>2, <1>3, <1>4, <1>5, <1>6, HeldKeeps, TaskStep

LEMMA PullCheckStep ==
  ASSUME SyncInv, NEW r \in Pulls, PullCheck(r)
  PROVE  SyncInv'
<1>1. pc[r] = "check" /\ UNCHANGED <<sourceVars, cursor, origin, ledgerVars, handed>>
  BY DEF PullCheck
<1>2. TypeOK /\ r \in Tasks /\ key[r] \in Keys /\ bytes[r] \in Contents
  BY <1>1, TaskKinds DEF SyncInv, HandInv, HandOK, Working
<1>3. CASE AlreadyIngested(key[r][1], bytes[r])
  <2>1. NextItem(r) /\ held' = held
    BY <1>3 DEF PullCheck
  <2>2. Seen(key[r][1])
    BY <1>2, <1>3 DEF AlreadyIngested, Seen, Hashes
  <2>3. \A i \in Items : i = key[r][1] => Seen(i)'
    BY <1>1, <2>2, RowsKeep
  <2>4. pc[r] \in Working
    BY <1>1 DEF Working
  <2>5. /\ TasksTypeOK' /\ Others(r) /\ goal'[r] <= clock /\ HandOK(r)'
        /\ r \in Pulls => PullOK(r)'
    BY <1>1, <1>2, <2>1, <2>3, <2>4, RowsKeep, ItemDone
  <2> QED BY <1>1, <1>2, <2>1, <2>5, RowsKeep, HeldKeeps, TaskStep
<1>4. CASE ~ AlreadyIngested(key[r][1], bytes[r])
  <2>1. Goto(r, "ingest")
    BY <1>4 DEF PullCheck
  <2>2. /\ TasksTypeOK' /\ Others(r) /\ UNCHANGED <<todo, held, goal, base, key, bytes>>
        /\ pc'[r] = "ingest"
    BY <1>2, <2>1, GotoFacts DEF PC
  <2>3. HandOK(r)' /\ goal'[r] <= clock
    BY <1>2, <2>2 DEF HandOK, SyncInv, ClockInv
  <2>4. PullOK(r)'
    <3>1. PullOK(r)
      BY DEF SyncInv, PullInv
    <3> QED BY <1>1, <2>2, <3>1 DEF PullOK, Listed, Working, Behind, InReach, OverlapStart, Seen, sourceVars,
                                    ledgerVars
  <2> QED BY <1>1, <1>2, <2>2, <2>3, <2>4, RowsKeep, HeldKeeps, TaskStep
<1> QED BY <1>3, <1>4

\* A row of the pair at hand, with whatever outcome, ends the pull's work on it.
LEMMA PullRow ==
  ASSUME SyncInv, NEW r \in Pulls, pc[r] \in {"ingest", "record"},
         NEW o \in {"ingested", "failed"}, RecordItem(Fetched(r), o),
         o = "ingested" => pc[r] = "record", NextItem(r), UNCHANGED <<sourceVars, cursor, origin, handed, held>>
  PROVE  SyncInv'
<1>1. TypeOK /\ r \in Tasks /\ key[r] \in Keys /\ bytes[r] \in Contents /\ pc[r] \in Working
  BY TaskKinds DEF SyncInv, HandInv, HandOK, Working
<1> DEFINE k == Fetched(r)
<1>2. k \in Keys /\ k[1] = key[r][1] /\ (o = "ingested" => k \in handed)
  BY <1>1 DEF Fetched, Keys, Hashes, SyncInv, HandInv, HandOK
<1>3. RecordItem(k, o)
  OBVIOUS
<1>4. PICK j \in Keys : j = k
  BY <1>2
<1>5. /\ RowsTypeOK' /\ handed' \in SUBSET (Items \X Contents)
      /\ \A i \in Items : Seen(i) => Seen(i)'
      /\ \A m \in Keys : outcome'[m] = "ingested" => m \in handed'
      /\ j[1] \in Items /\ Seen(j[1])'
  <2> HIDE DEF k
  <2>1. RecordItem(j, o)
    BY <1>3, <1>4
  <2> QED BY <1>2, <1>4, <2>1, RowWritten
<1>6. \A i \in Items : i = key[r][1] => Seen(i)'
  BY <1>2, <1>4, <1>5
<1>7. /\ TasksTypeOK' /\ Others(r) /\ goal'[r] <= clock /\ HandOK(r)'
      /\ r \in Pulls => PullOK(r)'
  BY <1>1, <1>5, <1>6, ItemDone
<1> QED BY <1>1, <1>5, <1>7, HeldKeeps, TaskStep

\* What a cursor has passed after a pull wrote it was behind the pull's goal.
LEMMA PassedBehind ==
  ASSUME TypeOK, NEW r \in Tasks, cursor' = goal[r], updated' = updated,
         origin' \in Times, origin' >= base[r]
  PROVE  \A i \in Items : Passed(i)' => Behind(i, goal[r]) /\ InReach(i, base[r])
<1>1. Overlap \in Nat /\ base[r] \in Int /\ origin' \in Int /\ \A i \in Items : updated[i] \in Int
  BY OverlapAssumption, TimesFacts DEF TypeOK
<1> QED BY <1>1 DEF Passed, Behind, InReach, OverlapStart

LEMMA FinishPullStep ==
  ASSUME SyncInv, NEW r \in Pulls, FinishPull(r)
  PROVE  SyncInv'
<1>1. /\ pc[r] = "item" /\ todo[r] = {} /\ cursor' = goal[r] /\ End(r)
      /\ origin' = Max({origin, base[r]})
      /\ UNCHANGED <<sourceVars, ledgerVars, handed>>
  BY DEF FinishPull
<1>2. /\ TypeOK /\ r \in Tasks /\ goal[r] \in Times
      /\ origin' \in Times /\ origin' >= base[r]
  <2>1. TypeOK /\ r \in Tasks /\ goal[r] \in Times /\ origin \in Times /\ base[r] \in Times
    BY TaskKinds DEF SyncInv, TypeOK
  <2> QED BY <1>1, <2>1, NewestOfTwo
<1>3. /\ TasksTypeOK' /\ Others(r) /\ held' \in [Tasks -> SUBSET Keys]
      /\ pc'[r] = "idle" /\ goal'[r] = 0
  BY <1>1, <1>2, EndFacts
<1>4. /\ edits' = edits /\ clock' = clock /\ updated' = updated /\ content' = content
  BY <1>1 DEF sourceVars
<1>5. TypeOK'
  BY <1>1, <1>2, <1>3, <1>4 DEF TypeOK, TasksTypeOK, ledgerVars
<1>6. ClockInv'
  <2>1. goal[r] <= clock /\ 0 <= clock
    BY <1>2 DEF SyncInv, ClockInv, TypeOK
  <2> QED BY <1>1, <1>3, <1>4, <2>1 DEF SyncInv, ClockInv, Others
<1>7. HandInv'
  BY <1>1, <1>3 DEF SyncInv, HandInv, HandOK, Others, Fetched, Working
<1>8. IngestedInv'
  BY <1>1 DEF SyncInv, IngestedInv, ledgerVars
<1>9. \A i \in Items : Seen(i) => Seen(i)'
  BY <1>1, RowsKeep
<1>10. PullInv'
  <2>1. PullOK(r)'
    BY <1>3 DEF PullOK, Listed, Working
  <2>2. ASSUME NEW s \in Pulls, s # r PROVE PullOK(s)'
    <3>1. PullOK(s) /\ pc'[s] = pc[s] /\ goal'[s] = goal[s] /\ base'[s] = base[s] /\ todo'[s] = todo[s]
      BY <1>3, <2>2 DEF SyncInv, PullInv, Others, Tasks
    <3> QED BY <1>4, <1>9, <3>1 DEF PullOK, Behind, InReach, Listed, OverlapStart
  <2> QED BY <2>1, <2>2 DEF PullInv
<1>11. NoCandidateLost'
  <2> SUFFICES ASSUME NEW i \in Items, Behind(i, goal[r]), InReach(i, base[r]) PROVE Seen(i)'
    BY <1>1, <1>2, <1>4, PassedBehind DEF NoCandidateLost
  <2>1. Seen(i)
    BY <1>1 DEF SyncInv, PullInv, PullOK, Listed
  <2> QED BY <1>9, <2>1
<1> QED BY <1>5, <1>6, <1>7, <1>8, <1>10, <1>11 DEF SyncInv

-----------------------------------------------------------------------------
(***************************************************************************)
(* The replay.                                                             *)
(***************************************************************************)

LEMMA StartReplayStep ==
  ASSUME SyncInv, NEW p \in Replays, StartReplay(p)
  PROVE  SyncInv'
<1> DEFINE rows == {k \in Keys : Replayable(k)}
<1>1. /\ pc' = [pc EXCEPT ![p] = "item"]
      /\ todo' = [todo EXCEPT ![p] = rows]
      /\ held' = [held EXCEPT ![p] = rows]
      /\ UNCHANGED <<sourceVars, cursor, origin, ledgerVars, handed, goal, base, key, bytes>>
  BY DEF StartReplay
<1>2. TypeOK /\ p \in Tasks /\ p \notin Pulls /\ rows \in SUBSET Keys
  BY TaskKinds DEF SyncInv
<1> HIDE DEF rows
<1>3. /\ TasksTypeOK' /\ Others(p) /\ held' \in [Tasks -> SUBSET Keys] /\ pc'[p] = "item"
  BY <1>1, <1>2 DEF TypeOK, TasksTypeOK, Others, PC
<1>4. HandOK(p)' /\ goal'[p] <= clock
  BY <1>1, <1>2, <1>3 DEF HandOK, Working, SyncInv, ClockInv
<1> QED BY <1>1, <1>2, <1>3, <1>4, RowsKeep, TaskStep

LEMMA ReplayFetchFailsStep ==
  ASSUME SyncInv, NEW p \in Replays, NEW k \in Keys, ReplayFetchFails(p, k)
  PROVE  SyncInv'
<1>1. /\ pc[p] = "item" /\ RecordItem(k, "failed")
      /\ todo' = [todo EXCEPT ![p] = todo[p] \ {k}]
      /\ UNCHANGED <<sourceVars, cursor, origin, handed, pc, held, goal, base, key, bytes>>
  BY DEF ReplayFetchFails
<1>2. TypeOK /\ p \in Tasks /\ p \notin Pulls
  BY TaskKinds DEF SyncInv
<1>3. /\ RowsTypeOK' /\ handed' \in SUBSET (Items \X Contents)
      /\ \A i \in Items : Seen(i) => Seen(i)'
      /\ \A j \in Keys : outcome'[j] = "ingested" => j \in handed'
  BY <1>1, RowWritten
<1>4. TasksTypeOK' /\ Others(p)
  <2>1. todo[p] \ {k} \in SUBSET Keys
    BY <1>2 DEF TypeOK
  <2> QED BY <1>1, <1>2, <2>1 DEF TypeOK, TasksTypeOK, Others
<1>5. HandOK(p)' /\ goal'[p] <= clock
  BY <1>1, <1>2 DEF HandOK, Working, SyncInv, ClockInv
<1> QED BY <1>1, <1>2, <1>3, <1>4, <1>5, HeldKeeps, TaskStep

LEMMA ReplayCheckStep ==
  ASSUME SyncInv, NEW p \in Replays, ReplayCheck(p)
  PROVE  SyncInv'
<1> DEFINE label == IF AlreadyIngested(key[p][1], bytes[p]) THEN "discard" ELSE "ingest"
<1>1. /\ pc[p] = "check" /\ Goto(p, label) /\ UNCHANGED <<sourceVars, cursor, origin, ledgerVars, handed>>
  BY DEF ReplayCheck
<1>2. TypeOK /\ p \in Tasks /\ p \notin Pulls /\ key[p] \in Keys /\ bytes[p] \in Contents
  BY <1>1, TaskKinds DEF SyncInv, HandInv, HandOK, Working
<1>3. label = "discard" => Fetched(p) \in handed
  <2>1. Fetched(p) \in Keys
    BY <1>2 DEF Fetched, Keys, Hashes
  <2> QED BY <2>1 DEF AlreadyIngested, Fetched, SyncInv, IngestedInv
<1>4. label \in PC /\ label # "record"
  BY DEF PC
<1> HIDE DEF label
<1>5. /\ TasksTypeOK' /\ Others(p) /\ UNCHANGED <<todo, held, goal, base, key, bytes>>
      /\ pc'[p] = label
  BY <1>1, <1>2, <1>4, GotoFacts
<1>6. HandOK(p)' /\ goal'[p] <= clock
  BY <1>1, <1>2, <1>3, <1>4, <1>5 DEF HandOK, Fetched, SyncInv, ClockInv
<1> QED BY <1>1, <1>2, <1>5, <1>6, RowsKeep, HeldKeeps, TaskStep

\* Forgetting a deleted row keeps the types of what the replays hold.
LEMMA ForgetFacts ==
  ASSUME TypeOK, NEW gone, Forget(gone)
  PROVE  held' \in [Tasks -> SUBSET Keys]
BY DEF TypeOK, Forget

\* A replay deletes its placeholder row when the content it stood for has a job.
LEMMA DiscardStep ==
  ASSUME SyncInv, NEW p \in Replays, Discard(p)
  PROVE  SyncInv'
<1> DEFINE gone == {key[p]} \cap held[p]
<1>1. /\ pc[p] = "discard"
      /\ outcome' = [k \in Keys |-> IF k \in gone THEN "none" ELSE outcome[k]]
      /\ attempts' = [k \in Keys |-> IF k \in gone THEN 0 ELSE attempts[k]]
      /\ Forget(gone) /\ NextItem(p)
      /\ UNCHANGED <<sourceVars, cursor, origin, handed>>
  BY DEF Discard
<1>2. /\ TypeOK /\ p \in Tasks /\ p \notin Pulls /\ key[p] \in Keys /\ bytes[p] \in Contents
      /\ Fetched(p) \in handed
  BY <1>1, TaskKinds DEF SyncInv, HandInv, HandOK, Working
<1>3. \A k \in gone : <<k[1], bytes[p]>> \in handed
  BY <1>2 DEF Fetched
<1> HIDE DEF gone
<1>4. RowsTypeOK' /\ handed' \in SUBSET (Items \X Contents)
  BY <1>1, <1>2, BoundsAssumption DEF TypeOK, RowsTypeOK
<1>5. \A i \in Items : Seen(i) => Seen(i)'
  <2>1. bytes[p] \in Hashes
    BY <1>2 DEF Hashes
  <2>2. \A k \in Keys : outcome[k] # "none" =>
          outcome'[k] # "none" \/ \E c \in Hashes : <<k[1], c>> \in handed'
    BY <1>1, <1>3, <2>1
  <2> QED BY <1>1, <2>2, SeenKept
<1>6. \A k \in Keys : outcome'[k] = "ingested" => k \in handed'
  BY <1>1 DEF SyncInv, IngestedInv
<1>7. TasksTypeOK' /\ Others(p) /\ goal'[p] <= clock /\ HandOK(p)'
  BY <1>1, <1>2, <1>5, ItemDone
<1>8. held' \in [Tasks -> SUBSET Keys]
  BY <1>1, <1>2, ForgetFacts
<1> QED BY <1>1, <1>2, <1>4, <1>5, <1>6, <1>7, <1>8, TaskStep

LEMMA ReplayRecordStep ==
  ASSUME SyncInv, NEW p \in Replays, ReplayRecord(p)
  PROVE  SyncInv'
<1> DEFINE gone == IF bytes[p] = key[p][2] THEN {} ELSE {key[p]} \cap held[p]
<1>1. /\ pc[p] = "record"
      /\ outcome' = [k \in Keys |-> IF k = Fetched(p) THEN "ingested"
                                    ELSE IF k \in gone THEN "none" ELSE outcome[k]]
      /\ attempts' = [k \in Keys |-> IF k = Fetched(p) THEN Bumped(k)
                                     ELSE IF k \in gone THEN 0 ELSE attempts[k]]
      /\ Forget(gone) /\ NextItem(p)
      /\ UNCHANGED <<sourceVars, cursor, origin, handed>>
  BY DEF ReplayRecord
<1>2. /\ TypeOK /\ p \in Tasks /\ p \notin Pulls /\ key[p] \in Keys /\ bytes[p] \in Contents
      /\ Fetched(p) \in handed
  BY <1>1, TaskKinds DEF SyncInv, HandInv, HandOK, Working
<1>3. \A k \in gone : <<k[1], bytes[p]>> \in handed
  BY <1>2 DEF Fetched
<1> HIDE DEF gone
<1>4. RowsTypeOK' /\ handed' \in SUBSET (Items \X Contents)
  <2>1. \A k \in Keys : Bumped(k) \in 0..MaxAttempts
    BY <1>2, BumpedType
  <2>2. 0 \in 0..MaxAttempts
    BY BoundsAssumption
  <2> QED BY <1>1, <1>2, <2>1, <2>2 DEF TypeOK, RowsTypeOK
<1>5. \A i \in Items : Seen(i) => Seen(i)'
  <2>1. bytes[p] \in Hashes
    BY <1>2 DEF Hashes
  <2>2. \A k \in Keys : outcome[k] # "none" =>
          outcome'[k] # "none" \/ \E c \in Hashes : <<k[1], c>> \in handed'
    BY <1>1, <1>3, <2>1
  <2> QED BY <1>1, <2>2, SeenKept
<1>6. \A k \in Keys : outcome'[k] = "ingested" => k \in handed'
  BY <1>1, <1>2 DEF SyncInv, IngestedInv
<1>7. TasksTypeOK' /\ Others(p) /\ goal'[p] <= clock /\ HandOK(p)'
  BY <1>1, <1>2, <1>5, ItemDone
<1>8. held' \in [Tasks -> SUBSET Keys]
  BY <1>1, <1>2, ForgetFacts
<1> QED BY <1>1, <1>2, <1>4, <1>5, <1>6, <1>7, <1>8, TaskStep

LEMMA ReplayItemFailsStep ==
  ASSUME SyncInv, NEW p \in Replays, ReplayItemFails(p)
  PROVE  SyncInv'
<1>1. /\ pc[p] \in {"ingest", "record"} /\ RecordItem(key[p], "failed") /\ NextItem(p)
      /\ UNCHANGED <<sourceVars, cursor, origin, handed, held>>
  BY DEF ReplayItemFails
<1>2. TypeOK /\ p \in Tasks /\ p \notin Pulls /\ key[p] \in Keys
  BY <1>1, TaskKinds DEF SyncInv, HandInv, HandOK, Working
<1>3. PICK k \in Keys : k = key[p]
  BY <1>2
<1>4. /\ RowsTypeOK' /\ handed' \in SUBSET (Items \X Contents)
      /\ \A i \in Items : Seen(i) => Seen(i)'
      /\ \A j \in Keys : outcome'[j] = "ingested" => j \in handed'
  BY <1>1, <1>3, RowWritten
<1>5. TasksTypeOK' /\ Others(p) /\ goal'[p] <= clock /\ HandOK(p)'
  BY <1>1, <1>2, <1>4, ItemDone
<1> QED BY <1>1, <1>2, <1>4, <1>5, HeldKeeps, TaskStep

-----------------------------------------------------------------------------
(***************************************************************************)
(* The source.                                                             *)
(***************************************************************************)

\* A change comes at most Skew late, so it is never behind a window.
LEMMA SourceChangesStep ==
  ASSUME SyncInv, NEW i \in Items, NEW c \in Contents \cup {None}, SourceChanges(i, c)
  PROVE  /\ SyncInv'
         /\ \A value \in Times : value <= clock => ~ Behind(i, value)'
         /\ \A j \in Items \ {i} : updated'[j] = updated[j] /\ content'[j] = content[j]
<1>1. /\ edits < MaxEdits /\ edits' = edits + 1
      /\ content' = [content EXCEPT ![i] = c]
      /\ UNCHANGED <<cursor, origin, ledgerVars, handed, taskVars>>
  BY DEF SourceChanges
<1>2. PICK t \in (clock - Skew)..(clock + 1) :
        /\ t \in 1..MaxTime /\ t >= updated[i]
        /\ updated' = [updated EXCEPT ![i] = t]
        /\ clock' = Max({clock, t})
  BY DEF SourceChanges
<1>3. TypeOK /\ clock \in 0..MaxTime /\ MaxTime \in Nat
  BY BoundsAssumption DEF SyncInv, TypeOK
<1>4. /\ t \in 0..MaxTime /\ t >= clock - Skew /\ t \in Int
      /\ Skew \in Nat /\ Overlap \in Nat /\ Skew <= Overlap
  BY <1>2, <1>3, OverlapAssumption
<1>5. clock' \in 0..MaxTime /\ clock' >= clock /\ clock' >= t
  BY <1>2, <1>3, <1>4, NewestOfTwo, TimesFacts
<1>6. \A j \in Items : updated'[j] = IF j = i THEN t ELSE updated[j]
  BY <1>2, <1>3 DEF TypeOK
<1>7. \A j \in Items : content'[j] = IF j = i THEN c ELSE content[j]
  BY <1>1, <1>3 DEF TypeOK
<1>8. TypeOK'
  <2>1. edits' \in 0..MaxEdits
    BY <1>1, <1>3, BoundsAssumption DEF TypeOK
  <2>2. updated' \in [Items -> 0..MaxTime] /\ content' \in [Items -> Contents \cup {None}]
    BY <1>1, <1>2, <1>3, <1>4 DEF TypeOK
  <2> QED BY <1>1, <1>3, <1>5, <2>1, <2>2 DEF TypeOK, ledgerVars, taskVars
<1>9. ASSUME NEW value \in Times, value <= clock PROVE ~ Behind(i, value)'
  <2>1. ~ (t < value - Overlap)
    BY <1>3, <1>4, <1>9, TimesFacts
  <2> QED BY <1>6, <2>1 DEF Behind, InReach, OverlapStart
<1>10. ClockInv'
  <2>1. /\ \A j \in Items : updated[j] <= clock /\ updated[j] \in 0..MaxTime
        /\ cursor # None => cursor <= clock /\ cursor \in Times
        /\ \A u \in Tasks : goal[u] <= clock /\ goal[u] \in Times
        /\ 0..MaxTime \subseteq Times
    BY <1>3, TimesFacts DEF SyncInv, ClockInv, TypeOK
  <2>2. \A x \in Times : x <= clock => x <= clock'
    BY <1>3, <1>5, TimesFacts
  <2>3. cursor' = cursor /\ goal' = goal
    BY <1>1 DEF taskVars
  <2>4. clock' >= t /\ \A j \in Items : updated'[j] <= clock'
    BY <1>5, <1>6, <2>1, <2>2
  <2> QED BY <2>1, <2>2, <2>3, <2>4 DEF ClockInv
<1>11. HandInv' /\ IngestedInv'
  BY <1>1 DEF SyncInv, HandInv, HandOK, Fetched, IngestedInv, taskVars, ledgerVars
<1>12. \A j \in Items : Seen(j)' <=> Seen(j)
  BY <1>1 DEF Seen, ledgerVars
<1>13. \A j \in Items, value \in Times : value <= clock /\ Behind(j, value)' =>
         j # i /\ Behind(j, value)
  BY <1>6, <1>9 DEF Behind, InReach, OverlapStart
<1>14. PullInv'
  <2> SUFFICES ASSUME NEW r \in Pulls, NEW j \in Items, Behind(j, goal[r])', InReach(j, base[r])'
               PROVE  /\ pc'[r] = "list" => Seen(j)'
                      /\ Listed(r)' => Seen(j)' \/ <<j, Unknown>> \in todo'[r]
    BY DEF PullInv, PullOK
  <2>1. goal[r] \in Times /\ goal[r] <= clock
    BY <1>3, TaskKinds DEF TypeOK, SyncInv, ClockInv
  <2>2. goal' = goal /\ base' = base /\ pc' = pc /\ todo' = todo
    BY <1>1 DEF taskVars
  <2>3. PICK value \in Times : value = goal[r]
    BY <2>1
  <2>4. Behind(j, value)'
    BY <2>2, <2>3 DEF Behind, InReach, OverlapStart
  <2>5. Behind(j, goal[r]) /\ j # i
    BY <1>13, <2>1, <2>3, <2>4
  <2>6. InReach(j, base[r])
    BY <1>6, <2>2, <2>5 DEF InReach, OverlapStart
  <2> QED BY <1>12, <2>2, <2>5, <2>6 DEF SyncInv, PullInv, PullOK, Listed
<1>15. NoCandidateLost'
  <2> SUFFICES ASSUME NEW j \in Items, Passed(j)' PROVE Seen(j)'
    BY DEF NoCandidateLost
  <2>1. PICK value \in Times : value = cursor
    BY <1>1, <1>3 DEF TypeOK, Passed
  <2>2. Behind(j, value)' /\ value <= clock
    BY <1>1, <2>1 DEF Passed, Behind, OverlapStart, SyncInv, ClockInv
  <2>3. Passed(j)
    <3>1. j # i /\ Behind(j, value)
      BY <1>13, <2>1, <2>2
    <3> QED BY <1>1, <1>6, <2>1, <3>1 DEF Passed, Behind, OverlapStart
  <2> QED BY <1>12, <2>3 DEF SyncInv, NoCandidateLost
<1> QED BY <1>6, <1>7, <1>8, <1>9, <1>10, <1>11, <1>14, <1>15 DEF SyncInv

\* Time passes: what was behind the clock still is.
LEMMA TimePassesStep ==
  ASSUME SyncInv, TimePasses
  PROVE  SyncInv'
<1>1. /\ clock < MaxTime /\ clock' = clock + 1
      /\ UNCHANGED <<edits, updated, content, cursor, origin, ledgerVars, handed, taskVars>>
  BY DEF TimePasses
<1>2. /\ TypeOK /\ clock \in 0..MaxTime /\ MaxTime \in Nat /\ Times \subseteq Int
      /\ cursor \in Times \cup {None}
  BY BoundsAssumption, TimesFacts DEF SyncInv, TypeOK
<1>3. TypeOK'
  BY <1>1, <1>2 DEF TypeOK, ledgerVars, taskVars
<1>4. ClockInv'
  <2>1. \A x \in Int : x <= clock => x <= clock'
    BY <1>1, <1>2
  <2>2. \A i \in Items : updated[i] \in Int
    BY <1>2 DEF TypeOK
  <2>3. \A t \in Tasks : goal[t] \in Times
    BY <1>2 DEF TypeOK
  <2> QED BY <1>1, <1>2, <2>1, <2>2, <2>3 DEF SyncInv, ClockInv, taskVars
<1>5. HandInv' /\ IngestedInv'
  BY <1>1 DEF SyncInv, HandInv, HandOK, Fetched, IngestedInv, ledgerVars, taskVars
<1>6. PullInv' /\ NoCandidateLost'
  BY <1>1 DEF SyncInv, PullInv, PullOK, Behind, InReach, Listed, OverlapStart, Seen,
              NoCandidateLost, Passed, ledgerVars, taskVars
<1> QED BY <1>3, <1>4, <1>5, <1>6 DEF SyncInv

LEMMA SourceAttachesStep ==
  ASSUME SyncInv, NEW i \in Items, NEW c \in Contents, SourceAttaches(i, c)
  PROVE  SyncInv'
<1>1. /\ edits < MaxEdits /\ edits' = edits + 1
      /\ content' = [content EXCEPT ![i] = c]
      /\ UNCHANGED <<clock, updated, cursor, origin, ledgerVars, handed, taskVars>>
  BY DEF SourceAttaches
<1>2. TypeOK'
  <2>1. edits' \in 0..MaxEdits
    BY <1>1, BoundsAssumption DEF SyncInv, TypeOK
  <2>2. content' \in [Items -> Contents \cup {None}]
    BY <1>1 DEF SyncInv, TypeOK
  <2> QED BY <1>1, <2>1, <2>2 DEF SyncInv, TypeOK, ledgerVars, taskVars
<1>3. ClockInv' /\ HandInv' /\ IngestedInv'
  BY <1>1 DEF SyncInv, ClockInv, HandInv, HandOK, Fetched, IngestedInv, ledgerVars, taskVars
<1>4. PullInv' /\ NoCandidateLost'
  BY <1>1 DEF SyncInv, PullInv, PullOK, Behind, InReach, Listed, OverlapStart, Seen, NoCandidateLost, Passed,
              ledgerVars, taskVars
<1> QED BY <1>2, <1>3, <1>4 DEF SyncInv

-----------------------------------------------------------------------------

LEMMA SyncInit == Init => SyncInv
<1> SUFFICES ASSUME Init PROVE SyncInv
  OBVIOUS
<1>1. 0 \in 0..MaxTime /\ 0 \in 0..MaxEdits /\ 0 \in 0..MaxAttempts /\ 0 <= 0
  BY BoundsAssumption
<1>2. TypeOK
  BY <1>1, TimesFacts DEF Init, TypeOK, PC
<1>3. ClockInv /\ HandInv /\ IngestedInv
  BY <1>1 DEF Init, ClockInv, HandInv, HandOK, Working, IngestedInv
<1>4. PullInv /\ NoCandidateLost
  BY TaskKinds DEF Init, PullInv, PullOK, Listed, Working, NoCandidateLost, Passed, Behind
<1> QED BY <1>2, <1>3, <1>4 DEF SyncInv

LEMMA SyncNext == SyncInv /\ [Next]_vars => SyncInv'
<1> SUFFICES ASSUME SyncInv, [Next]_vars PROVE SyncInv'
  OBVIOUS
<1>1. CASE SourceStep
  BY <1>1, TimePassesStep, SourceChangesStep, SourceAttachesStep DEF SourceStep
<1>2. ASSUME NEW r \in Pulls, PullStep(r) PROVE SyncInv'
  <2>1. r \in Tasks
    BY TaskKinds
  <2>2. CASE PullRecord(r)
    BY <2>2, PullRow DEF PullRecord
  <2>3. CASE PullItemFails(r)
    BY <2>3, PullRow DEF PullItemFails
  <2>4. CASE AbortPull(r)
    BY <2>1, <2>4, EndStep DEF AbortPull
  <2> QED
    BY <1>2, <2>1, <2>2, <2>3, <2>4, StartPullStep, ListBatchStep, DownloadStep,
       PullFetchFailsStep, PullCheckStep, IngestUploadStep, FinishPullStep DEF PullStep
<1>3. ASSUME NEW p \in Replays, ReplayStep(p) PROVE SyncInv'
  <2>1. p \in Tasks
    BY TaskKinds
  <2>2. CASE EndReplay(p)
    BY <2>1, <2>2, EndStep DEF EndReplay
  <2> QED
    BY <1>3, <2>1, <2>2, StartReplayStep, DownloadStep, ReplayFetchFailsStep, ReplayCheckStep,
       DiscardStep, IngestUploadStep, ReplayRecordStep, ReplayItemFailsStep DEF ReplayStep
<1>4. CASE UNCHANGED vars
  <2>1. /\ UNCHANGED <<edits, clock, updated, content, cursor, origin, outcome, attempts, handed>>
        /\ UNCHANGED <<pc, todo, held, goal, base, key, bytes>>
    BY <1>4 DEF vars, sourceVars, ledgerVars, taskVars
  <2>2. TypeOK'
    BY <2>1 DEF SyncInv, TypeOK
  <2>3. ClockInv' /\ HandInv' /\ IngestedInv'
    BY <2>1 DEF SyncInv, ClockInv, HandInv, HandOK, Fetched, IngestedInv
  <2>4. PullInv' /\ NoCandidateLost'
    BY <2>1 DEF SyncInv, PullInv, PullOK, Listed, Behind, InReach, OverlapStart, Seen, NoCandidateLost, Passed
  <2> QED BY <2>2, <2>3, <2>4 DEF SyncInv
<1> QED BY <1>1, <1>2, <1>3, <1>4 DEF Next

\* The strengthening is an invariant of pulls, replays and the source.
THEOREM SyncInvariance == Spec => []SyncInv
BY SyncInit, SyncNext, PTL DEF Spec

\* Every variable of ResumeSync keeps its type.
THEOREM SyncTypeCorrect == Spec => []TypeOK
<1>1. SyncInv => TypeOK
  BY DEF SyncInv
<1> QED BY <1>1, SyncInvariance, PTL

\* The cursor leaves no candidate behind that no pull has looked at, for any number of
\* pulls that overlap each other and the replays, any batch size and any skew the
\* overlap window covers (runner.py, ledger.py: next_cursor, overlap_start).
THEOREM CandidatesKept == Spec => []NoCandidateLost
<1>1. SyncInv => NoCandidateLost
  BY DEF SyncInv
<1> QED BY <1>1, SyncInvariance, PTL

-----------------------------------------------------------------------------
(***************************************************************************)
(* Versions.  Without replays no row is deleted, and a pull that works on a*)
(* candidate behind its goal has the version the source holds.             *)
(***************************************************************************)

VersionSeen(i) ==
  IF content[i] = None THEN outcome[<<i, Unknown>>] # "none"
  ELSE \/ <<i, content[i]>> \in handed
       \/ \E h \in {content[i], Unknown} : outcome[<<i, h>>] # "none"

VersionOK(r) ==
  \A i \in Items : Behind(i, goal[r]) /\ InReach(i, base[r]) =>
    /\ pc[r] = "list" => VersionSeen(i)
    /\ Listed(r) => VersionSeen(i) \/ <<i, Unknown>> \in todo[r]
    /\ pc[r] \in Working /\ key[r] = <<i, Unknown>> => bytes[r] = content[i]

VersionInv ==
  /\ \A i \in Items : Passed(i) => VersionSeen(i)
  /\ \A r \in Pulls : VersionOK(r)

LEMMA VersionSeenKept ==
  ASSUME handed \subseteq handed', content' = content, TypeOK,
         \A k \in Keys : outcome[k] # "none" => outcome'[k] # "none"
  PROVE  \A i \in Items : VersionSeen(i) => VersionSeen(i)'
<1> SUFFICES ASSUME NEW i \in Items, VersionSeen(i) PROVE VersionSeen(i)'
  OBVIOUS
<1>1. \A h \in {content[i], Unknown} : h # None => <<i, h>> \in Keys
  BY DEF TypeOK, Keys, Hashes
<1>2. Unknown # None
  BY NamesAssumption
<1>3. CASE content[i] = None
  BY <1>1, <1>2, <1>3 DEF VersionSeen
<1>4. CASE content[i] # None
  BY <1>1, <1>2, <1>4 DEF VersionSeen
<1> QED BY <1>3, <1>4

LEMMA VersionTaskStep ==
  ASSUME VersionInv, NEW r \in Pulls, UNCHANGED <<sourceVars, cursor, origin>>, Others(r),
         \A i \in Items : VersionSeen(i) => VersionSeen(i)', VersionOK(r)'
  PROVE  VersionInv'
<1>1. updated' = updated /\ content' = content /\ cursor' = cursor
  BY DEF sourceVars
<1>2. ASSUME NEW s \in Pulls, s # r PROVE VersionOK(s)'
  <2>1. /\ pc'[s] = pc[s] /\ goal'[s] = goal[s] /\ base'[s] = base[s] /\ todo'[s] = todo[s]
        /\ key'[s] = key[s] /\ bytes'[s] = bytes[s]
    BY <1>2 DEF Others, Tasks
  <2>2. VersionOK(s)
    BY DEF VersionInv
  <2> QED BY <1>1, <2>1, <2>2 DEF VersionOK, Behind, InReach, Listed, OverlapStart
<1>3. \A i \in Items : Passed(i)' => VersionSeen(i)'
  BY <1>1 DEF VersionInv, Passed, OverlapStart
<1> QED BY <1>2, <1>3 DEF VersionInv

\* A pull that has a row of what it fetched, or of the failure, may turn to the next item.
LEMMA VersionItemDone ==
  ASSUME TypeOK, VersionInv, NEW r \in Pulls, pc[r] \in Working, bytes[r] \in Contents,
         NextItem(r), UNCHANGED sourceVars,
         \A i \in Items : VersionSeen(i) => VersionSeen(i)',
         \A i \in Items : key[r] = <<i, Unknown>> => outcome'[<<i, bytes[r]>>] # "none"
  PROVE  VersionOK(r)'
<1>1. pc'[r] = "item" /\ todo'[r] = todo[r] \ {key[r]} /\ goal' = goal /\ base' = base
  BY NextItemFacts, TaskKinds
<1> SUFFICES ASSUME NEW i \in Items, Behind(i, goal[r]), InReach(i, base[r])
             PROVE  VersionSeen(i)' \/ <<i, Unknown>> \in todo'[r]
  BY <1>1 DEF VersionOK, Behind, InReach, OverlapStart, Working, sourceVars
<1>2. /\ VersionSeen(i) \/ <<i, Unknown>> \in todo[r]
      /\ key[r] = <<i, Unknown>> => bytes[r] = content[i]
  BY DEF VersionInv, VersionOK, Listed
<1>3. CASE key[r] = <<i, Unknown>>
  <2>1. content'[i] = bytes[r] /\ bytes[r] # None
    BY <1>2, <1>3, NamesAssumption DEF sourceVars
  <2> QED BY <1>3, <2>1 DEF VersionSeen
<1>4. CASE key[r] # <<i, Unknown>>
  BY <1>1, <1>2, <1>4
<1> QED BY <1>3, <1>4

LEMMA VersionPullStep ==
  ASSUME SyncInv, VersionInv, NEW r \in Pulls, PullStep(r)
  PROVE  VersionInv'
<1>1. TypeOK /\ r \in Tasks /\ PullOK(r) /\ VersionOK(r)
  BY TaskKinds DEF SyncInv, PullInv, VersionInv
<1>2. ASSUME UNCHANGED <<sourceVars, ledgerVars, handed>>
      PROVE  \A i \in Items : VersionSeen(i) => VersionSeen(i)'
  BY <1>2 DEF VersionSeen, sourceVars, ledgerVars
<1>3. ASSUME NEW k \in Keys, NEW o \in {"ingested", "failed"}, RecordItem(k, o),
             UNCHANGED <<sourceVars, handed>>
      PROVE  /\ \A i \in Items : VersionSeen(i) => VersionSeen(i)'
             /\ outcome'[k] # "none"
  <2>1. \A j \in Keys : outcome'[j] = IF j = k THEN o ELSE outcome[j]
    BY <1>1, <1>3, RecordItemFacts
  <2>2. content' = content
    BY <1>3 DEF sourceVars
  <2> QED BY <1>1, <1>3, <2>1, <2>2, VersionSeenKept
<1>4. CASE StartPull(r)
  <2> DEFINE from == IF cursor = None THEN ReadCursor ELSE origin
  <2>1. /\ pc' = [pc EXCEPT ![r] = "list"] /\ goal' = [goal EXCEPT ![r] = ReadCursor]
        /\ base' = [base EXCEPT ![r] = from]
        /\ UNCHANGED <<sourceVars, cursor, origin, ledgerVars, handed, todo, held, key, bytes>>
    BY <1>4 DEF StartPull
  <2>2. \A i \in Items : Behind(i, ReadCursor) /\ InReach(i, from) => VersionSeen(i)
    BY ReadCursorFacts DEF VersionInv
  <2> HIDE DEF from
  <2>3. Others(r) /\ pc'[r] = "list" /\ goal'[r] = ReadCursor /\ base'[r] = from
    BY <1>1, <2>1 DEF TypeOK, Others
  <2>4. VersionOK(r)'
    <3> SUFFICES ASSUME NEW i \in Items, Behind(i, ReadCursor), InReach(i, from)
                 PROVE  VersionSeen(i)'
      BY <2>1, <2>3 DEF VersionOK, Listed, Working, Behind, InReach, OverlapStart, sourceVars
    <3> QED BY <1>2, <2>1, <2>2
  <2> QED BY <1>2, <2>1, <2>3, <2>4, VersionTaskStep
<1>5. CASE ListBatch(r)
  <2>1. /\ pc[r] = "list" /\ pc' = [pc EXCEPT ![r] = "item"]
        /\ UNCHANGED <<sourceVars, cursor, origin, ledgerVars, handed, held, base, key, bytes>>
    BY <1>5 DEF ListBatch
  <2>2. PICK batch \in ListChanged(OverlapStart(goal[r])) :
          /\ todo' = [todo EXCEPT ![r] = batch \X {Unknown}]
          /\ goal' = [goal EXCEPT ![r] = NextCursor(goal[r], batch)]
    BY <1>5 DEF ListBatch
  <2> DEFINE next == NextCursor(goal[r], batch)
  <2>3. \A i \in Items : Behind(i, next) => Behind(i, goal[r]) \/ i \in batch
    <3>1. goal[r] \in Times
      BY <1>1 DEF TypeOK
    <3> QED BY <1>1, <3>1, BatchCovers
  <2>4. goal' = [goal EXCEPT ![r] = next]
    BY <2>2
  <2> HIDE DEF next
  <2>5. /\ Others(r) /\ pc'[r] = "item" /\ goal'[r] = next /\ base' = base
        /\ todo'[r] = batch \X {Unknown}
    BY <1>1, <2>1, <2>2, <2>4 DEF TypeOK, Others
  <2>6. VersionOK(r)'
    <3> SUFFICES ASSUME NEW i \in Items, Behind(i, next), InReach(i, base[r])
                 PROVE  VersionSeen(i)' \/ <<i, Unknown>> \in todo'[r]
      BY <2>1, <2>5 DEF VersionOK, Working, Behind, InReach, OverlapStart, sourceVars
    <3>1. CASE i \in batch
      BY <2>5, <3>1
    <3>2. CASE Behind(i, goal[r])
      BY <1>1, <1>2, <2>1, <3>2 DEF VersionOK
    <3> QED BY <2>3, <3>1, <3>2
  <2> QED BY <1>2, <2>1, <2>5, <2>6, VersionTaskStep
<1>6. ASSUME NEW k \in Keys, Download(r, k) PROVE VersionInv'
  <2>1. /\ pc[r] = "item"
        /\ pc' = [pc EXCEPT ![r] = "check"]
        /\ key' = [key EXCEPT ![r] = k]
        /\ bytes' = [bytes EXCEPT ![r] = content[k[1]]]
        /\ UNCHANGED <<sourceVars, cursor, origin, ledgerVars, handed, todo, held, goal, base>>
    BY <1>6 DEF Download
  <2>2. Others(r) /\ pc'[r] = "check" /\ key'[r] = k /\ bytes'[r] = content[k[1]]
    BY <1>1, <2>1 DEF TypeOK, Others
  <2>3. VersionOK(r)'
    <3> SUFFICES ASSUME NEW i \in Items, Behind(i, goal[r]), InReach(i, base[r])
                 PROVE  /\ VersionSeen(i)' \/ <<i, Unknown>> \in todo'[r]
                        /\ k = <<i, Unknown>> => content[k[1]] = content[i]
      BY <2>1, <2>2 DEF VersionOK, Behind, InReach, OverlapStart, sourceVars
    <3>1. VersionSeen(i) \/ <<i, Unknown>> \in todo[r]
      BY <1>1, <2>1 DEF VersionOK, Listed
    <3> QED BY <1>2, <2>1, <3>1
  <2> QED BY <1>2, <2>1, <2>2, <2>3, VersionTaskStep
<1>7. ASSUME NEW k \in Keys, PullFetchFails(r, k) PROVE VersionInv'
  <2>1. /\ pc[r] = "item" /\ RecordItem(k, "failed")
        /\ todo' = [todo EXCEPT ![r] = todo[r] \ {k}]
        /\ UNCHANGED <<sourceVars, cursor, origin, handed, pc, held, goal, base, key, bytes>>
    BY <1>7 DEF PullFetchFails
  <2>2. Others(r) /\ todo'[r] = todo[r] \ {k}
    BY <1>1, <2>1 DEF TypeOK, Others
  <2>3. (\A i \in Items : VersionSeen(i) => VersionSeen(i)') /\ outcome'[k] # "none"
    BY <1>3, <2>1
  <2>4. VersionOK(r)'
    <3> SUFFICES ASSUME NEW i \in Items, Behind(i, goal[r]), InReach(i, base[r])
                 PROVE  VersionSeen(i)' \/ <<i, Unknown>> \in todo'[r]
      BY <2>1 DEF VersionOK, Working, Behind, InReach, OverlapStart, sourceVars
    <3>1. VersionSeen(i) \/ <<i, Unknown>> \in todo[r]
      BY <1>1, <2>1 DEF VersionOK, Listed
    <3>2. k = <<i, Unknown>> => VersionSeen(i)'
      BY <2>3 DEF VersionSeen
    <3> QED BY <2>2, <2>3, <3>1, <3>2
  <2> QED BY <2>1, <2>2, <2>3, <2>4, VersionTaskStep
<1>8. CASE PullCheck(r)
  <2>1. pc[r] = "check" /\ UNCHANGED <<sourceVars, cursor, origin, ledgerVars, handed>>
    BY <1>8 DEF PullCheck
  <2>2. bytes[r] \in Contents
    BY <1>1, <2>1 DEF SyncInv, HandInv, HandOK, Working
  <2>3. CASE AlreadyIngested(key[r][1], bytes[r])
    <3>1. NextItem(r)
      BY <1>8, <2>3 DEF PullCheck
    <3>2. \A i \in Items : key[r] = <<i, Unknown>> => outcome'[<<i, bytes[r]>>] # "none"
      BY <2>1, <2>3 DEF AlreadyIngested, ledgerVars
    <3>3. pc[r] \in Working /\ Others(r)
      BY <1>1, <2>1, <3>1, NextItemFacts DEF Working
    <3>4. VersionOK(r)'
      BY <1>1, <1>2, <2>1, <2>2, <3>1, <3>2, <3>3, VersionItemDone
    <3> QED BY <1>2, <2>1, <3>3, <3>4, VersionTaskStep
  <2>4. CASE ~ AlreadyIngested(key[r][1], bytes[r])
    <3>1. Goto(r, "ingest")
      BY <1>8, <2>4 DEF PullCheck
    <3>2. Others(r) /\ UNCHANGED <<todo, goal, base, key, bytes>> /\ pc'[r] = "ingest"
      BY <1>1, <3>1, GotoFacts DEF PC
    <3>3. VersionOK(r)'
      BY <1>1, <1>2, <2>1, <3>2 DEF VersionOK, Listed, Working, Behind, InReach, OverlapStart, sourceVars
    <3> QED BY <1>2, <2>1, <3>2, <3>3, VersionTaskStep
  <2> QED BY <2>3, <2>4
<1>9. CASE IngestUpload(r)
  <2>1. /\ pc[r] = "ingest" /\ handed' = handed \cup {Fetched(r)} /\ Goto(r, "record")
        /\ UNCHANGED <<sourceVars, cursor, origin, ledgerVars>>
    BY <1>9 DEF IngestUpload
  <2>2. Others(r) /\ UNCHANGED <<todo, goal, base, key, bytes>> /\ pc'[r] = "record"
    BY <1>1, <2>1, GotoFacts DEF PC
  <2>3. \A i \in Items : VersionSeen(i) => VersionSeen(i)'
    BY <2>1 DEF VersionSeen, sourceVars, ledgerVars
  <2>4. VersionOK(r)'
    BY <1>1, <2>1, <2>2, <2>3 DEF VersionOK, Listed, Working, Behind, InReach, OverlapStart, sourceVars
  <2> QED BY <2>1, <2>2, <2>3, <2>4, VersionTaskStep
<1>10. ASSUME NEW o \in {"ingested", "failed"}, pc[r] \in {"ingest", "record"},
              RecordItem(Fetched(r), o), NextItem(r), UNCHANGED <<sourceVars, cursor, origin, handed>>
       PROVE  VersionInv'
  <2>1. pc[r] \in Working /\ bytes[r] \in Contents /\ key[r] \in Keys
    BY <1>1, <1>10 DEF SyncInv, HandInv, HandOK, Working
  <2>2. PICK k \in Keys : k = Fetched(r)
    BY <2>1 DEF Fetched, Keys, Hashes
  <2>3. (\A i \in Items : VersionSeen(i) => VersionSeen(i)') /\ outcome'[k] # "none"
    BY <1>3, <1>10, <2>2
  <2>4. \A i \in Items : key[r] = <<i, Unknown>> => outcome'[<<i, bytes[r]>>] # "none"
    BY <2>2, <2>3 DEF Fetched
  <2>5. Others(r)
    BY <1>1, <1>10, NextItemFacts
  <2>6. VersionOK(r)'
    BY <1>1, <1>10, <2>1, <2>3, <2>4, VersionItemDone
  <2> QED BY <1>10, <2>3, <2>5, <2>6, VersionTaskStep
<1>11. CASE FinishPull(r)
  <2>1. /\ pc[r] = "item" /\ todo[r] = {} /\ cursor' = goal[r] /\ End(r)
        /\ origin' = Max({origin, base[r]})
        /\ UNCHANGED <<sourceVars, ledgerVars, handed>>
    BY <1>11 DEF FinishPull
  <2>2. Others(r) /\ pc'[r] = "idle"
    BY <1>1, <2>1, EndFacts
  <2>3. updated' = updated /\ content' = content
    BY <2>1 DEF sourceVars
  <2>4. ASSUME NEW i \in Items, Passed(i)' PROVE VersionSeen(i)'
    <3>1. origin' \in Times /\ origin' >= base[r]
      BY <1>1, <2>1, NewestOfTwo DEF TypeOK
    <3>2. Behind(i, goal[r]) /\ InReach(i, base[r])
      BY <1>1, <2>1, <2>3, <2>4, <3>1, PassedBehind
    <3>3. VersionSeen(i)
      BY <1>1, <2>1, <3>2 DEF VersionOK, Listed
    <3> QED BY <1>2, <2>1, <3>3
  <2>5. ASSUME NEW s \in Pulls PROVE VersionOK(s)'
    <3>1. CASE s = r
      BY <2>2, <3>1 DEF VersionOK, Listed, Working
    <3>2. CASE s # r
      <4>1. /\ pc'[s] = pc[s] /\ goal'[s] = goal[s] /\ base'[s] = base[s] /\ todo'[s] = todo[s]
            /\ key'[s] = key[s] /\ bytes'[s] = bytes[s]
        BY <2>2, <3>2 DEF Others, Tasks
      <4>2. VersionOK(s)
        BY DEF VersionInv
      <4> QED BY <1>2, <2>1, <2>3, <4>1, <4>2 DEF VersionOK, Behind, InReach, Listed, OverlapStart
    <3> QED BY <3>1, <3>2
  <2> QED BY <2>4, <2>5 DEF VersionInv
<1>12. CASE AbortPull(r)
  <2>1. Others(r) /\ pc'[r] = "idle" /\ UNCHANGED <<sourceVars, cursor, origin, ledgerVars, handed>>
    BY <1>1, <1>12, EndFacts DEF AbortPull
  <2>2. VersionOK(r)'
    BY <2>1 DEF VersionOK, Listed, Working
  <2> QED BY <1>2, <2>1, <2>2, VersionTaskStep
<1>13. CASE PullRecord(r) \/ PullItemFails(r)
  BY <1>10, <1>13 DEF PullRecord, PullItemFails
<1> QED
  BY <1>4, <1>5, <1>6, <1>7, <1>8, <1>9, <1>11, <1>12, <1>13 DEF PullStep, PullRecord,
     PullItemFails

\* A change is never behind a window, and what attaches later had a row of its failure.
LEMMA VersionSourceStep ==
  ASSUME SyncInv, VersionInv, SourceStep
  PROVE  VersionInv'
<1>1. ASSUME NEW i \in Items, NEW c \in Contents \cup {None}, SourceChanges(i, c) PROVE VersionInv'
  <2>1. /\ \A value \in Times : value <= clock => ~ Behind(i, value)'
        /\ \A j \in Items \ {i} : updated'[j] = updated[j] /\ content'[j] = content[j]
    BY <1>1, SourceChangesStep
  <2>2. UNCHANGED <<cursor, origin, outcome, handed, pc, todo, goal, base, key, bytes>>
    BY <1>1 DEF SourceChanges, ledgerVars, taskVars
  <2>3. ASSUME NEW j \in Items, NEW value \in Times, value <= clock, Behind(j, value)'
        PROVE  j # i /\ Behind(j, value) /\ content'[j] = content[j] /\ (VersionSeen(j)' <=> VersionSeen(j))
    <3>1. j # i
      BY <2>1, <2>3
    <3> QED BY <2>1, <2>2, <2>3, <3>1 DEF Behind, InReach, OverlapStart, VersionSeen
  <2>4. ASSUME NEW j \in Items, Passed(j)' PROVE VersionSeen(j)'
    <3>1. PICK value \in Times : value = cursor
      BY <2>2, <2>4 DEF SyncInv, TypeOK, Passed
    <3>2. value <= clock /\ Behind(j, value)'
      BY <2>2, <2>4, <3>1 DEF SyncInv, ClockInv, Passed, Behind, InReach, OverlapStart
    <3>3. j # i /\ Behind(j, value) /\ (VersionSeen(j)' <=> VersionSeen(j))
      BY <2>3, <3>2
    <3>4. Passed(j)
      BY <2>1, <2>2, <2>4, <3>1, <3>3 DEF Passed, Behind, OverlapStart
    <3> QED BY <3>3, <3>4 DEF VersionInv
  <2>5. ASSUME NEW r \in Pulls PROVE VersionOK(r)'
    <3>1. PICK value \in Times : value = goal[r]
      BY TaskKinds DEF SyncInv, TypeOK
    <3>2. value <= clock
      BY <3>1, TaskKinds DEF SyncInv, ClockInv
    <3>3. ASSUME NEW j \in Items, Behind(j, goal[r])', InReach(j, base[r])'
          PROVE  /\ pc'[r] = "list" => VersionSeen(j)'
                 /\ Listed(r)' => VersionSeen(j)' \/ <<j, Unknown>> \in todo'[r]
                 /\ pc'[r] \in Working /\ key'[r] = <<j, Unknown>> => bytes'[r] = content'[j]
      <4>1. Behind(j, value)'
        BY <2>2, <3>1, <3>3 DEF Behind, InReach, OverlapStart
      <4>2. /\ Behind(j, value) /\ content'[j] = content[j] /\ (VersionSeen(j)' <=> VersionSeen(j))
            /\ j # i
        BY <2>3, <3>2, <4>1
      <4>3. Behind(j, goal[r]) /\ InReach(j, base[r])
        BY <2>1, <2>2, <3>1, <3>3, <4>2 DEF InReach, OverlapStart
      <4>4. VersionOK(r)
        BY DEF VersionInv
      <4> QED BY <2>2, <4>2, <4>3, <4>4 DEF VersionOK, Listed
    <3> QED BY <3>3 DEF VersionOK
  <2> QED BY <2>4, <2>5 DEF VersionInv
<1>2. ASSUME NEW i \in Items, NEW c \in Contents, SourceAttaches(i, c) PROVE VersionInv'
  <2>1. /\ content[i] = None
        /\ content' = [content EXCEPT ![i] = c]
        /\ UNCHANGED <<updated, cursor, origin, outcome, handed, pc, todo, goal, base, key, bytes>>
    BY <1>2 DEF SourceAttaches, ledgerVars, taskVars
  <2>2. /\ content'[i] = c /\ c # None
        /\ \A j \in Items \ {i} : content'[j] = content[j]
    BY <2>1, NamesAssumption DEF SyncInv, TypeOK
  <2>3. ASSUME NEW j \in Items, VersionSeen(j) PROVE VersionSeen(j)'
    <3>1. CASE j = i
      BY <2>1, <2>2, <2>3, <3>1 DEF VersionSeen
    <3>2. CASE j # i
      BY <2>1, <2>2, <2>3, <3>2 DEF VersionSeen
    <3> QED BY <3>1, <3>2
  <2>4. \A j \in Items : Passed(j)' => VersionSeen(j)'
    BY <2>1, <2>3 DEF VersionInv, Passed, OverlapStart
  <2>5. ASSUME NEW r \in Pulls PROVE VersionOK(r)'
    <3>1. pc[r] \in Working => bytes[r] \in Contents
      BY TaskKinds DEF SyncInv, HandInv, HandOK
    <3>2. ASSUME NEW j \in Items, Behind(j, goal[r]), InReach(j, base[r]),
                 pc[r] \in Working, key[r] = <<j, Unknown>>
          PROVE  bytes[r] = content'[j]
      <4>1. bytes[r] = content[j]
        BY <3>2 DEF VersionInv, VersionOK
      <4>2. j # i
        BY <2>1, <3>1, <3>2, <4>1, NamesAssumption
      <4> QED BY <2>2, <4>1, <4>2
    <3>3. VersionOK(r)
      BY DEF VersionInv
    <3> QED BY <2>1, <2>3, <3>2, <3>3 DEF VersionOK, Behind, InReach, Listed, OverlapStart
  <2> QED BY <2>4, <2>5 DEF VersionInv
<1>3. ASSUME TimePasses PROVE VersionInv'
  <2>1. UNCHANGED <<updated, content, cursor, origin, outcome, handed, pc, todo, goal, base, key, bytes>>
    BY <1>3 DEF TimePasses, ledgerVars, taskVars
  <2> QED BY <2>1 DEF VersionInv, VersionOK, VersionSeen, Passed, Behind, InReach, Listed, OverlapStart
<1> QED BY <1>1, <1>2, <1>3 DEF SourceStep

\* A replay that is over at its first row leaves rows, cursor and pulls alone.
LEMMA VersionInertStep ==
  ASSUME SyncInv, VersionInv, NEW p \in Replays, InertReplay(p)
  PROVE  VersionInv'
<1>1. p \notin Pulls
  BY NamesAssumption
<1>2. TypeOK /\ p \in Tasks
  BY DEF SyncInv, Tasks
<1>3. UNCHANGED <<sourceVars, cursor, origin, ledgerVars, handed>> /\ Others(p)
  <2>1. CASE StartReplay(p)
    BY <1>2, <2>1 DEF StartReplay, TypeOK, Others
  <2>2. CASE EndReplay(p)
    BY <1>2, <2>2, EndFacts DEF EndReplay
  <2>. QED  BY <2>1, <2>2 DEF InertReplay
<1>4. \A r \in Pulls : /\ pc'[r] = pc[r] /\ goal'[r] = goal[r] /\ base'[r] = base[r] /\ todo'[r] = todo[r]
                        /\ key'[r] = key[r] /\ bytes'[r] = bytes[r]
  BY <1>1, <1>3 DEF Others, Tasks
<1>5. UNCHANGED <<updated, content, cursor, origin, outcome, handed>>
  BY <1>3 DEF sourceVars, ledgerVars
<1>. QED  BY <1>4, <1>5
          DEF VersionInv, VersionOK, VersionSeen, Passed, Behind, InReach, Listed, OverlapStart

\* Of pulls beside replays that cannot describe an item, which are those of the only
\* adapter: the resume the source holds now, once the cursor has passed it, was handed to
\* ingestion or has a row that says it could not be.  Several pulls may overlap, and the
\* resume may change under them (runner.py: run_sync, dingtalk.py: describe).
THEOREM VersionsKept == InertSpec => []NoVersionLost
<1>1. Init => VersionInv
  BY DEF Init, VersionInv, VersionOK, Passed, Behind
<1>2. InertNext => Next
  BY DEF InertNext, Next, InertReplay, ReplayStep
<1>3. SyncInv /\ VersionInv /\ [InertNext]_vars => VersionInv'
  <2> SUFFICES ASSUME SyncInv, VersionInv, [InertNext]_vars PROVE VersionInv'
    OBVIOUS
  <2>1. CASE SourceStep
    BY <2>1, VersionSourceStep
  <2>2. CASE \E r \in Pulls : PullStep(r)
    BY <2>2, VersionPullStep
  <2>3. CASE \E p \in Replays : InertReplay(p)
    BY <2>3, VersionInertStep
  <2>4. CASE UNCHANGED vars
    <3>1. UNCHANGED <<updated, content, cursor, origin, outcome, handed, pc, todo, goal, base, key, bytes>>
      BY <2>4 DEF vars, sourceVars, ledgerVars, taskVars
    <3> QED BY <3>1 DEF VersionInv, VersionOK, VersionSeen, Passed, Behind, InReach, Listed, OverlapStart
  <2> QED BY <2>1, <2>2, <2>3, <2>4 DEF InertNext
<1>4. VersionInv => NoVersionLost
  BY DEF VersionInv, VersionSeen, NoVersionLost
<1> QED BY <1>1, <1>2, <1>3, <1>4, SyncInvariance, PTL DEF Spec, InertSpec

-----------------------------------------------------------------------------
(***************************************************************************)
(* The cursor.                                                             *)
(***************************************************************************)

\* A pull under way will not write an older cursor than there is.
GoalInv == \A r \in Pulls : pc[r] # "idle" /\ cursor # None => goal[r] >= cursor

\* next_cursor never goes backwards from the cursor the pull has read.
LEMMA NextCursorForward ==
  ASSUME TypeOK, NEW value \in Times, NEW batch \in SUBSET Items
  PROVE  NextCursor(value, batch) \in Times /\ NextCursor(value, batch) >= value
<1>. DEFINE times == {value} \cup {updated[i] : i \in batch}
<1>1. times \in SUBSET Times /\ value \in times
  BY TimesFacts DEF TypeOK
<1>2. NextCursor(value, batch) = Max(times)
  BY DEF NextCursor
<1>. HIDE DEF times
<1>3. Max(times) \in times /\ \A x \in times : Max(times) >= x
  BY <1>1, NewestExists
<1>. QED  BY <1>1, <1>2, <1>3

\* A cursor once written is never taken away or set back.
Forward == cursor # None => cursor' # None /\ cursor' >= cursor

LEMMA GoalStep ==
  ASSUME SyncInv, GoalInv, [Next]_vars, \A r, s \in Pulls : r = s
  PROVE  GoalInv' /\ Forward
<1>1. /\ TypeOK /\ cursor \in Times \cup {None} /\ \A r \in Pulls : goal[r] \in Times /\ r \in Tasks
      /\ Times \subseteq Int /\ None \notin Times
  BY TaskKinds, TimesFacts DEF SyncInv, TypeOK
<1>2. cursor' = cursor => Forward
  BY <1>1 DEF Forward
<1>3. ASSUME NEW r \in Pulls, pc'[r] # "idle" /\ cursor' # None => goal'[r] >= cursor'
      PROVE  GoalInv'
  BY <1>3 DEF GoalInv
<1>4. ASSUME UNCHANGED cursor,
             \A r \in Pulls : pc'[r] # "idle" => pc[r] # "idle" /\ goal'[r] = goal[r]
      PROVE  GoalInv' /\ Forward
  BY <1>2, <1>4 DEF GoalInv
<1>5. ASSUME NEW r \in Pulls, PullStep(r)
      PROVE  GoalInv' /\ Forward
  <2>1. CASE StartPull(r)
    <3>1. cursor' = cursor /\ goal'[r] = ReadCursor
      BY <1>1, <2>1 DEF StartPull, TypeOK
    <3>2. cursor # None => ReadCursor >= cursor
      BY <1>1 DEF ReadCursor
    <3>. QED  BY <1>2, <1>3, <3>1, <3>2
  <2>2. CASE ListBatch(r)
    <3>1. PICK batch \in ListChanged(OverlapStart(goal[r])) :
            goal' = [goal EXCEPT ![r] = NextCursor(goal[r], batch)]
      BY <2>2 DEF ListBatch
    <3>2. batch \in SUBSET Items
      BY DEF ListChanged, Changed
    <3>3. /\ cursor' = cursor /\ goal'[r] = NextCursor(goal[r], batch)
          /\ cursor # None => goal[r] >= cursor
      BY <1>1, <2>2, <3>1 DEF ListBatch, GoalInv, TypeOK
    <3>4. NextCursor(goal[r], batch) \in Times /\ NextCursor(goal[r], batch) >= goal[r]
      BY <1>1, <3>2, NextCursorForward
    <3>5. cursor' # None => goal'[r] >= cursor'
      <4> SUFFICES ASSUME cursor # None PROVE NextCursor(goal[r], batch) >= cursor
        BY <3>3
      <4>1. goal[r] \in Int /\ cursor \in Int /\ NextCursor(goal[r], batch) \in Int
        BY <1>1, <3>4
      <4> HIDE DEF NextCursor
      <4>. QED  BY <3>3, <3>4, <4>1
    <3>. QED  BY <1>2, <1>3, <3>3, <3>5
  <2>3. CASE FinishPull(r)
    <3>1. cursor' = goal[r] /\ (cursor # None => goal[r] >= cursor) /\ pc'[r] = "idle"
      BY <1>1, <2>3, EndFacts DEF FinishPull, GoalInv
    <3>. QED  BY <1>1, <1>3, <3>1 DEF Forward
  <2>4. CASE AbortPull(r)
    <3>1. cursor' = cursor /\ pc'[r] = "idle"
      BY <1>1, <2>4, EndFacts DEF AbortPull
    <3>. QED  BY <1>2, <1>3, <3>1
  <2>5. CASE \/ \E k \in Keys : Download(r, k) \/ PullFetchFails(r, k)
             \/ PullCheck(r) \/ IngestUpload(r) \/ PullRecord(r) \/ PullItemFails(r)
    <3>1. cursor' = cursor /\ goal' = goal /\ pc[r] # "idle"
      BY <2>5 DEF Download, PullFetchFails, PullCheck, IngestUpload, PullRecord, PullItemFails,
                  NextItem, Goto
    <3>2. \A s \in Pulls : s = r
      OBVIOUS
    <3>. QED  BY <1>4, <3>1, <3>2
  <2>. QED  BY <1>5, <2>1, <2>2, <2>3, <2>4, <2>5 DEF PullStep
<1>6. ASSUME NEW p \in Replays, ReplayStep(p)
      PROVE  GoalInv' /\ Forward
  <2>1. cursor' = cursor
    BY <1>6 DEF ReplayStep, StartReplay, Download, ReplayFetchFails, ReplayCheck, Discard,
               IngestUpload, ReplayRecord, ReplayItemFails, EndReplay
  <2>2. ASSUME NEW r \in Pulls PROVE pc'[r] = pc[r] /\ goal'[r] = goal[r]
    <3>1. r # p /\ r \in Tasks
      BY TaskKinds
    <3>. QED  BY <1>1, <1>6, <3>1
              DEF ReplayStep, StartReplay, Download, ReplayFetchFails, ReplayCheck, Discard,
                  IngestUpload, ReplayRecord, ReplayItemFails, EndReplay, NextItem, Goto, End,
                  TypeOK
  <2>. QED  BY <1>4, <2>1, <2>2
<1>7. CASE SourceStep \/ UNCHANGED vars
  <2>1. UNCHANGED <<cursor, origin, pc, goal>>
    BY <1>7 DEF SourceStep, TimePasses, SourceChanges, SourceAttaches, vars, taskVars
  <2>. QED  BY <1>4, <2>1
<1>. QED  BY <1>5, <1>6, <1>7 DEF Next

\* While one pull at a time runs, the cursor never goes backwards (ledger.py:
\* next_cursor), whatever its batches hold, however often it is aborted and beside any
\* replays.  Two overlapping pulls can set it back, the older one writing last.
CursorForward == [][Forward]_vars

THEOREM OnePullMovesForward ==
  ASSUME \A r, s \in Pulls : r = s
  PROVE  Spec => CursorForward
<1>1. Init => GoalInv
  BY DEF Init, GoalInv, Tasks
<1>2. SyncInv /\ GoalInv /\ [Next]_vars => GoalInv'
  BY GoalStep
<1>3. SyncInv /\ GoalInv /\ [Next]_vars => [Forward]_vars
  BY GoalStep
<1>. QED  BY <1>1, <1>2, <1>3, SyncInvariance, PTL DEF Spec, CursorForward
=============================================================================
