---------------------------- MODULE StorageProofs ----------------------------
(***************************************************************************)
(* Theorems about what rows refer to: that no object vouched for is ever   *)
(* swept (ArchiveStore, for any objects, rows, uploads, sweeps and times); *)
(* that a scenario moved under lock agrees with its category, and that the *)
(* routes about categories act one at a time (Categories, for any tables   *)
(* and transactions).                                                      *)
(***************************************************************************)
EXTENDS ArchiveStore, Categories, TLAPS

(* What Tick waits for: nobody takes longer than the code allows for. *)
UploadsInTime ==
    \A u \in Uploads : upload[u] # Idle => upload[u].at <= now /\ now <= upload[u].at + UploadTime

SweepsInTime ==
    \A g \in Sweeps :
        /\ sweep[g] # Idle => sweep[g].since <= now
        /\ sweep[g].step = "queried" => now <= sweep[g].since + ScanTime /\ sweep[g].orphans = {}

NotJudged(n) == \A g \in Sweeps : sweep[g] # Idle => n \notin sweep[g].orphans

(* A sweep under way knows n referenced, or will find it too young. *)
Spared(g, n) ==
    /\ sweep[g].step = "queried" =>
          n \in sweep[g].referenced \/ sweep[g].since + ScanTime < stored[n] + MinAge
    /\ sweep[g].step = "scanning" =>
          n \in sweep[g].referenced \/ sweep[g].since < stored[n] + MinAge

Kept(n) == IsStored(n) /\ NotJudged(n) /\ \A g \in Sweeps : Spared(g, n)

RowsKept == \A k \in Rows : row[k] # Nothing /\ row[k].vouched => Kept(row[k].object)

(* Of two uploads of the same bytes the later rename brings the older file. *)
Fresh(u) ==
    /\ IsStored(upload[u].object) /\ NotJudged(upload[u].object)
    /\ upload[u].at <= stored[upload[u].object] + UploadTime

CommitsFresh == \A u \in Uploads : upload[u].step = "committed" /\ upload[u].vouched => Fresh(u)

IInv == TypeOK /\ UploadsInTime /\ SweepsInTime /\ RowsKept /\ CommitsFresh

-----------------------------------------------------------------------------
(* What the types say of one upload, sweep, row or object. *)

LEMMA Numbers ==
    /\ MinAge \in Nat /\ UploadTime \in Nat /\ ScanTime \in Nat /\ MaxTime \in Nat
    /\ 2 * UploadTime + ScanTime < MinAge
    /\ \A t \in Time : t \in Nat /\ t # Nothing
BY StoreAssumption DEF Time

LEMMA UploadFacts ==
    ASSUME TypeOK, NEW u \in Uploads, upload[u].step # "idle"
    PROVE  /\ upload[u] \in UploadStates /\ upload[u] # Idle
           /\ upload[u].object \in Objects /\ upload[u].at \in Time /\ upload[u].vouched \in BOOLEAN
<1>1. upload[u] \in UploadStates \cup {Idle}
  BY DEF TypeOK
<1>2. upload[u] \in UploadStates
  BY <1>1 DEF Idle
<1> QED
  BY <1>2 DEF UploadStates, Idle

LEMMA SweepFacts ==
    ASSUME TypeOK, NEW g \in Sweeps, sweep[g] # Idle
    PROVE  /\ sweep[g] \in SweepStates /\ sweep[g].step \in {"queried", "scanning"}
           /\ sweep[g].since \in Time
           /\ sweep[g].referenced \subseteq Objects /\ sweep[g].names \subseteq Objects
           /\ sweep[g].orphans \subseteq Objects
<1>1. sweep[g] \in SweepStates
  BY DEF TypeOK
<1> QED
  BY <1>1 DEF SweepStates

LEMMA BusySweep ==
    ASSUME NEW g \in Sweeps, sweep[g].step # "idle"
    PROVE  sweep[g] # Idle
BY DEF Idle

LEMMA StoredFacts ==
    ASSUME TypeOK, NEW n \in Objects, IsStored(n)
    PROVE  stored[n] \in Time /\ stored[n] \in Nat
<1>1. stored[n] \in Time
  BY DEF TypeOK, IsStored
<1> QED
  BY <1>1, Numbers

LEMMA RowFacts ==
    ASSUME TypeOK, NEW k \in Rows, row[k] # Nothing
    PROVE  row[k] \in Reference /\ row[k].object \in Objects /\ row[k].vouched \in BOOLEAN
BY DEF TypeOK, Reference

-----------------------------------------------------------------------------
(* The argument. *)

(* A fresh object is too young for every sweep under way, and for one that begins now. *)
LEMMA FreshIsYoung ==
    ASSUME IInv, NEW n \in Objects, NEW t \in Time, now <= t + UploadTime + UploadTime
    PROVE  /\ now + ScanTime < t + MinAge
           /\ \A g \in Sweeps : sweep[g] # Idle => sweep[g].since + ScanTime < t + MinAge
                                                   /\ sweep[g].since < t + MinAge
<1>1. now \in Nat /\ t \in Nat
  BY Numbers DEF IInv, TypeOK
<1>2. now + ScanTime < t + MinAge
  BY <1>1, Numbers
<1> SUFFICES ASSUME NEW g \in Sweeps, sweep[g] # Idle
             PROVE  sweep[g].since + ScanTime < t + MinAge /\ sweep[g].since < t + MinAge
  BY <1>2
<1>3. sweep[g].since \in Nat /\ sweep[g].since <= now
  BY SweepFacts, Numbers DEF IInv, SweepsInTime
<1> QED
  BY <1>1, <1>2, <1>3, Numbers

LEMMA FreshTime ==
    ASSUME IInv, NEW u \in Uploads, upload[u].step = "committed", upload[u].vouched
    PROVE  /\ upload[u].object \in Objects /\ IsStored(upload[u].object) /\ NotJudged(upload[u].object)
           /\ stored[upload[u].object] \in Time
           /\ now <= stored[upload[u].object] + UploadTime + UploadTime
<1>1. TypeOK
  BY DEF IInv
<1>2. upload[u] # Idle /\ upload[u].object \in Objects /\ upload[u].at \in Nat
  BY <1>1, UploadFacts, Numbers
<1>3. Fresh(u)
  BY DEF IInv, CommitsFresh
<1>4. stored[upload[u].object] \in Time /\ stored[upload[u].object] \in Nat
  BY <1>1, <1>2, <1>3, StoredFacts DEF Fresh
<1>5. now <= upload[u].at + UploadTime /\ now \in Nat
  BY <1>1, <1>2, Numbers DEF IInv, UploadsInTime, TypeOK
<1>6. upload[u].at <= stored[upload[u].object] + UploadTime
  BY <1>3 DEF Fresh
<1> QED
  BY <1>2, <1>3, <1>4, <1>5, <1>6, Numbers DEF Fresh

(* So what an upload has committed is kept until its row is there. *)
LEMMA CommittedIsKept ==
    ASSUME IInv, NEW u \in Uploads, upload[u].step = "committed", upload[u].vouched
    PROVE  Kept(upload[u].object)
<1> DEFINE n == upload[u].object
<1>1. n \in Objects /\ IsStored(n) /\ NotJudged(n) /\ stored[n] \in Time
      /\ now <= stored[n] + UploadTime + UploadTime
  BY FreshTime
<1> HIDE DEF n
<1>2. \A g \in Sweeps : sweep[g] # Idle => sweep[g].since + ScanTime < stored[n] + MinAge
                                           /\ sweep[g].since < stored[n] + MinAge
  BY <1>1, FreshIsYoung
<1>3. \A g \in Sweeps : Spared(g, n)
  BY <1>2, BusySweep DEF Spared
<1>4. Kept(n)
  BY <1>1, <1>3 DEF Kept
<1> QED
  BY <1>4 DEF n

(* Storing bytes that are no older than an upload may be keeps what is kept. *)
LEMMA StoringKeeps ==
    ASSUME IInv, NEW n \in Objects, NEW t \in Time, t <= now, now <= t + UploadTime,
           stored' = [stored EXCEPT ![n] = t], UNCHANGED sweep, NEW m \in Objects, Kept(m)
    PROVE  Kept(m)'
<1>1. stored \in [Objects -> Time \cup {Nothing}]
  BY DEF IInv, TypeOK
<1>2. CASE m # n
  BY <1>1, <1>2 DEF Kept, IsStored, NotJudged, Spared
<1>3. CASE m = n
  <2>1. stored'[m] = t /\ t # Nothing /\ t \in Nat /\ now \in Nat
    BY <1>1, <1>3, Numbers DEF IInv, TypeOK
  <2>2. now <= t + UploadTime + UploadTime
    BY <2>1, Numbers
  <2>3. \A g \in Sweeps : sweep[g] # Idle => sweep[g].since + ScanTime < t + MinAge
                                             /\ sweep[g].since < t + MinAge
    BY <2>2, FreshIsYoung
  <2>4. \A g \in Sweeps : Spared(g, m)'
    BY <2>1, <2>3, BusySweep DEF Spared
  <2> QED
    BY <2>1, <2>4 DEF Kept, IsStored, NotJudged
<1> QED
  BY <1>2, <1>3

-----------------------------------------------------------------------------
(* Uploads. *)

LEMMA Parts ==
    ASSUME IInv
    PROVE  /\ TypeOK /\ UploadsInTime /\ SweepsInTime /\ RowsKept /\ CommitsFresh
           /\ now \in Time /\ now \in Nat
           /\ stored \in [Objects -> Time \cup {Nothing}]
           /\ row \in [Rows -> Reference \cup {Nothing}]
           /\ upload \in [Uploads -> UploadStates \cup {Idle}]
           /\ sweep \in [Sweeps -> SweepStates \cup {Idle}]
BY Numbers DEF IInv, TypeOK

(* One upload moves, the store and the sweeps stay: the uploads left are as fresh as before. *)
LEMMA UploadMoves ==
    ASSUME IInv, NEW u \in Uploads, NEW c \in UploadStates \cup {Idle},
           upload' = [upload EXCEPT ![u] = c], UNCHANGED <<now, stored, sweep>>,
           c # Idle => c.at <= now /\ now <= c.at + UploadTime,
           c.step # "committed"
    PROVE  /\ upload' \in [Uploads -> UploadStates \cup {Idle}]
           /\ UploadsInTime' /\ SweepsInTime' /\ CommitsFresh'
<1>1. upload' \in [Uploads -> UploadStates \cup {Idle}]
  BY Parts
<1>2. \A v \in Uploads : upload'[v] = IF v = u THEN c ELSE upload[v]
  BY Parts
<1>3. UploadsInTime'
  BY <1>2, Parts DEF UploadsInTime
<1>4. SweepsInTime'
  BY Parts DEF SweepsInTime
<1>5. CommitsFresh'
  <2> SUFFICES ASSUME NEW v \in Uploads, upload'[v].step = "committed", upload'[v].vouched PROVE Fresh(v)'
    BY DEF CommitsFresh
  <2>1. v # u /\ upload'[v] = upload[v]
    BY <1>2
  <2>2. Fresh(v)
    BY <2>1, Parts DEF CommitsFresh
  <2> QED
    BY <2>1, <2>2 DEF Fresh, IsStored, NotJudged
<1> QED
  BY <1>1, <1>3, <1>4, <1>5

LEMMA RowsStay ==
    ASSUME IInv, UNCHANGED <<stored, sweep, row>>
    PROVE  RowsKept'
BY Parts DEF RowsKept, Kept, IsStored, NotJudged, Spared

LEMMA ReceiveStep ==
    ASSUME IInv, NEW u \in Uploads, NEW n \in Objects, Receive(u, n)
    PROVE  IInv'
<1> DEFINE c == [step |-> "received", object |-> n, at |-> now, vouched |-> FALSE]
<1>1. upload' = [upload EXCEPT ![u] = c] /\ UNCHANGED <<now, stored, row, sweep>>
  BY DEF Receive
<1>2. c \in UploadStates /\ c.at = now /\ c.step = "received"
  BY Parts DEF UploadStates
<1> HIDE DEF c
<1>3. now <= c.at + UploadTime /\ c.at <= now
  BY <1>2, Parts, Numbers
<1>4. upload' \in [Uploads -> UploadStates \cup {Idle}] /\ UploadsInTime' /\ SweepsInTime' /\ CommitsFresh'
  BY <1>1, <1>2, <1>3, UploadMoves
<1>5. RowsKept'
  BY <1>1, RowsStay
<1> QED
  BY <1>1, <1>4, <1>5, Parts DEF IInv, TypeOK

LEMMA IdleStep == Idle.step = "idle"
BY DEF Idle

LEMMA EndUploadStep ==
    ASSUME IInv, NEW u \in Uploads, EndUpload(u)
    PROVE  IInv'
<1>1. upload' = [upload EXCEPT ![u] = Idle] /\ UNCHANGED <<now, stored, row, sweep>>
  BY DEF EndUpload
<1>2. upload' \in [Uploads -> UploadStates \cup {Idle}] /\ UploadsInTime' /\ SweepsInTime' /\ CommitsFresh'
  BY <1>1, UploadMoves, IdleStep
<1>3. RowsKept'
  BY <1>1, RowsStay
<1> QED
  BY <1>1, <1>2, <1>3, Parts DEF IInv, TypeOK

LEMMA WriteRowStep ==
    ASSUME IInv, NEW u \in Uploads, NEW k \in Rows, WriteRow(u, k)
    PROVE  IInv'
<1> DEFINE ref == [object |-> upload[u].object, vouched |-> upload[u].vouched]
<1>1. /\ upload' = [upload EXCEPT ![u] = Idle] /\ UNCHANGED <<now, stored, sweep>>
      /\ row' = [row EXCEPT ![k] = ref] /\ upload[u].step = "committed"
  BY DEF WriteRow
<1>2. upload' \in [Uploads -> UploadStates \cup {Idle}] /\ UploadsInTime' /\ SweepsInTime' /\ CommitsFresh'
  BY <1>1, UploadMoves, IdleStep
<1>3. ref \in Reference /\ ref.object = upload[u].object /\ ref.vouched = upload[u].vouched
  BY <1>1, UploadFacts, Parts DEF Reference
<1> HIDE DEF ref
<1>4. row' \in [Rows -> Reference \cup {Nothing}] /\ \A j \in Rows : row'[j] = IF j = k THEN ref ELSE row[j]
  BY <1>1, <1>3, Parts
<1>5. RowsKept'
  <2> SUFFICES ASSUME NEW j \in Rows, row'[j] # Nothing, row'[j].vouched PROVE Kept(row[j].object)'
    BY DEF RowsKept
  <2>1. Kept(row'[j].object)
    <3>1. CASE j = k
      <4>1. row'[j] = ref
        BY <1>4, <3>1
      <4>2. upload[u].vouched
        BY <1>3, <4>1
      <4>3. Kept(upload[u].object)
        BY <1>1, <4>2, CommittedIsKept
      <4> QED
        BY <1>3, <4>1, <4>3
    <3>2. CASE j # k
      BY <1>4, <3>2, Parts DEF RowsKept
    <3> QED
      BY <3>1, <3>2
  <2> QED
    BY <1>1, <2>1 DEF Kept, IsStored, NotJudged, Spared
<1> QED
  BY <1>1, <1>2, <1>4, <1>5, Parts DEF IInv, TypeOK

(* Bytes are stored for u: touched now, or renamed in with the age of u's file. *)
LEMMA StoredStep ==
    ASSUME IInv, NEW u \in Uploads, upload[u].step # "idle", NEW t \in {now, upload[u].at},
           stored' = [stored EXCEPT ![upload[u].object] = t], upload' = Committed(u),
           UNCHANGED <<now, row, sweep>>
    PROVE  IInv'
<1> DEFINE n == upload[u].object
<1>1. n \in Objects /\ upload[u] \in UploadStates /\ upload[u].at \in Time /\ upload[u] # Idle
  BY UploadFacts, Parts
<1>2. upload[u].at <= now /\ now <= upload[u].at + UploadTime
  BY <1>1, Parts DEF UploadsInTime
<1>3. t \in Time /\ t <= now /\ now <= t + UploadTime /\ upload[u].at <= t + UploadTime
      /\ t # Nothing /\ t \in Nat
  BY <1>1, <1>2, Parts, Numbers
<1>4. stored' \in [Objects -> Time \cup {Nothing}] /\ stored'[n] = t
      /\ \A m \in Objects : m # n => stored'[m] = stored[m]
  BY <1>1, <1>3, Parts
<1> DEFINE c == [upload[u] EXCEPT !.step = "committed", !.vouched = ~Judged(n)]
<1>5. upload' = [upload EXCEPT ![u] = c]
  BY DEF Committed
<1>6. /\ c \in UploadStates /\ c.step = "committed" /\ c.object = n /\ c.at = upload[u].at
      /\ (c.vouched <=> ~Judged(n))
  <2>1. ASSUME NEW v \in BOOLEAN, NEW d, d = [upload[u] EXCEPT !.step = "committed", !.vouched = v]
        PROVE  d \in UploadStates /\ d.step = "committed" /\ d.object = n /\ d.at = upload[u].at
               /\ (d.vouched <=> v)
    BY <1>1, <2>1 DEF UploadStates
  <2>2. (~Judged(n)) \in BOOLEAN
    BY DEF Judged
  <2> QED
    BY <2>1, <2>2
<1> HIDE DEF c
<1>7. upload' \in [Uploads -> UploadStates \cup {Idle}]
      /\ \A v \in Uploads : upload'[v] = IF v = u THEN c ELSE upload[v]
  BY <1>5, <1>6, Parts
<1>8. UploadsInTime' /\ SweepsInTime'
  <2>1. \A v \in Uploads : upload'[v] # Idle => upload'[v].at <= now /\ now <= upload'[v].at + UploadTime
    BY <1>2, <1>6, <1>7, Parts DEF UploadsInTime
  <2> QED
    BY <2>1, Parts DEF UploadsInTime, SweepsInTime
<1>9. CommitsFresh'
  <2> SUFFICES ASSUME NEW v \in Uploads, upload'[v].step = "committed", upload'[v].vouched PROVE Fresh(v)'
    BY DEF CommitsFresh
  <2>1. CASE v = u
    <3>1. upload'[v] = c /\ ~Judged(n)
      BY <1>6, <1>7, <2>1
    <3>2. NotJudged(n)
      <4> SUFFICES ASSUME NEW g \in Sweeps, sweep[g] # Idle PROVE n \notin sweep[g].orphans
        BY DEF NotJudged
      <4>1. CASE sweep[g].step = "scanning"
        BY <3>1, <4>1 DEF Judged
      <4>2. CASE sweep[g].step = "queried"
        BY <4>2, Parts DEF SweepsInTime
      <4> QED
        BY <4>1, <4>2, SweepFacts, Parts
    <3>3. upload'[v].object = n /\ upload'[v].at = upload[u].at
      BY <1>6, <3>1
    <3> QED
      BY <1>3, <1>4, <3>2, <3>3 DEF Fresh, IsStored, NotJudged
  <2>2. CASE v # u
    <3>1. upload'[v] = upload[v] /\ upload[v].step = "committed" /\ upload[v].vouched
      BY <1>7, <2>2
    <3>2. Fresh(v) /\ upload[v].object \in Objects /\ upload[v] # Idle /\ upload[v].at \in Nat
      BY <3>1, Parts, UploadFacts, Numbers DEF CommitsFresh
    <3>3. upload[v].at <= now
      BY <3>2, Parts DEF UploadsInTime
    <3>4. upload[v].at <= t + UploadTime
      BY <1>3, <3>2, <3>3, Parts, Numbers
    <3>5. CASE upload[v].object = n
      BY <1>3, <1>4, <3>1, <3>2, <3>4, <3>5 DEF Fresh, IsStored, NotJudged
    <3>6. CASE upload[v].object # n
      BY <1>4, <3>1, <3>2, <3>6 DEF Fresh, IsStored, NotJudged
    <3> QED
      BY <3>5, <3>6
  <2> QED
    BY <2>1, <2>2
<1>10. RowsKept'
  <2> SUFFICES ASSUME NEW j \in Rows, row[j] # Nothing, row[j].vouched PROVE Kept(row[j].object)'
    BY DEF RowsKept
  <2>1. row[j].object \in Objects /\ Kept(row[j].object)
    BY RowFacts, Parts DEF RowsKept
  <2> QED
    BY <1>1, <1>3, <2>1, StoringKeeps
<1> QED
  BY <1>4, <1>7, <1>8, <1>9, <1>10, Parts DEF IInv, TypeOK

LEMMA RenameStep ==
    ASSUME IInv, NEW u \in Uploads, Rename(u)
    PROVE  IInv'
BY StoredStep DEF Rename

LEMMA TouchStep ==
    ASSUME IInv, NEW u \in Uploads, Touch(u)
    PROVE  IInv'
<1>1. upload[u].step = "received" /\ UNCHANGED <<now, row, sweep>>
  BY DEF Touch
<1>2. CASE IsStored(upload[u].object)
  BY <1>1, <1>2, StoredStep DEF Touch, Touched
<1>3. CASE ~IsStored(upload[u].object)
  <2> DEFINE c == [upload[u] EXCEPT !.step = "unseen"]
  <2>1. upload' = [upload EXCEPT ![u] = c] /\ stored' = stored
    BY <1>3 DEF Touch
  <2>2. upload[u] \in UploadStates /\ upload[u] # Idle
    BY <1>1, UploadFacts, Parts
  <2>3. c \in UploadStates /\ c.step = "unseen" /\ c.at = upload[u].at
    BY <2>2 DEF UploadStates
  <2> HIDE DEF c
  <2>4. c.at <= now /\ now <= c.at + UploadTime
    BY <2>2, <2>3, Parts DEF UploadsInTime
  <2>5. upload' \in [Uploads -> UploadStates \cup {Idle}] /\ UploadsInTime' /\ SweepsInTime' /\ CommitsFresh'
    BY <1>1, <2>1, <2>3, <2>4, UploadMoves
  <2>6. RowsKept'
    BY <1>1, <2>1, RowsStay
  <2> QED
    BY <1>1, <2>1, <2>5, <2>6, Parts DEF IInv, TypeOK
<1> QED
  BY <1>2, <1>3

-----------------------------------------------------------------------------
(* Rows, without an upload: what is dropped or pointed at vouches for nothing. *)

LEMMA RowSteps ==
    ASSUME IInv, NEW k \in Rows, DropRow(k) \/ \E n \in Objects : PointCover(k, n)
    PROVE  IInv'
<1>1. UNCHANGED <<now, stored, upload, sweep>>
  BY DEF DropRow, PointCover
<1>2. \E ref \in Reference \cup {Nothing} :
          row' = [row EXCEPT ![k] = ref] /\ (ref # Nothing => ~ref.vouched)
  <2>1. CASE DropRow(k)
    BY <2>1 DEF DropRow
  <2>2. ASSUME NEW n \in Objects, PointCover(k, n)
        PROVE  \E ref \in Reference : row' = [row EXCEPT ![k] = ref] /\ ~ref.vouched
    <3> DEFINE ref == [object |-> n, vouched |-> FALSE]
    <3>1. ref \in Reference /\ ~ref.vouched
      BY DEF Reference
    <3>2. row' = [row EXCEPT ![k] = ref]
      BY <2>2 DEF PointCover
    <3> QED
      BY <3>1, <3>2
  <2> QED
    BY <2>1, <2>2
<1>3. PICK ref \in Reference \cup {Nothing} :
          row' = [row EXCEPT ![k] = ref] /\ (ref # Nothing => ~ref.vouched)
  BY <1>2
<1>4. row' \in [Rows -> Reference \cup {Nothing}] /\ \A j \in Rows : row'[j] = IF j = k THEN ref ELSE row[j]
  BY <1>3, Parts
<1>5. RowsKept'
  <2> SUFFICES ASSUME NEW j \in Rows, row'[j] # Nothing, row'[j].vouched PROVE Kept(row[j].object)'
    BY DEF RowsKept
  <2>1. row'[j] = row[j]
    BY <1>3, <1>4
  <2>2. Kept(row'[j].object)
    BY <2>1, Parts DEF RowsKept
  <2> QED
    BY <1>1, <2>2 DEF Kept, IsStored, NotJudged, Spared
<1>6. UploadsInTime' /\ SweepsInTime' /\ CommitsFresh'
  BY <1>1, Parts DEF UploadsInTime, SweepsInTime, CommitsFresh, Fresh, IsStored, NotJudged
<1> QED
  BY <1>1, <1>4, <1>5, <1>6, Parts DEF IInv, TypeOK

-----------------------------------------------------------------------------
(* Sweeps. *)

(* One sweep moves; what is left to show is about that sweep alone. *)
LEMMA SweepMoves ==
    ASSUME IInv, NEW g \in Sweeps, NEW c \in SweepStates \cup {Idle},
           sweep' = [sweep EXCEPT ![g] = c], UNCHANGED <<now, stored, row, upload>>,
           c # Idle => c.since <= now,
           c.step = "queried" => now <= c.since + ScanTime /\ c.orphans = {},
           \A k \in Rows : row[k] # Nothing /\ row[k].vouched =>
               (c # Idle => row[k].object \notin c.orphans) /\ Spared(g, row[k].object)',
           \A u \in Uploads : upload[u].step = "committed" /\ upload[u].vouched =>
               (c # Idle => upload[u].object \notin c.orphans)
    PROVE  IInv'
<1>1. sweep' \in [Sweeps -> SweepStates \cup {Idle}] /\ \A h \in Sweeps : sweep'[h] = IF h = g THEN c ELSE sweep[h]
  BY Parts
<1>2. UploadsInTime'
  BY Parts DEF UploadsInTime
<1>3. SweepsInTime'
  BY <1>1, Parts DEF SweepsInTime
<1>4. RowsKept'
  <2> SUFFICES ASSUME NEW k \in Rows, row[k] # Nothing, row[k].vouched PROVE Kept(row[k].object)'
    BY DEF RowsKept
  <2> DEFINE n == row[k].object
  <2>1. Kept(n)
    BY Parts DEF RowsKept
  <2>2. NotJudged(n)'
    BY <1>1, <2>1 DEF Kept, NotJudged
  <2>3. \A h \in Sweeps : Spared(h, n)'
    <3> SUFFICES ASSUME NEW h \in Sweeps PROVE Spared(h, n)'
      OBVIOUS
    <3>1. CASE h = g
      BY <3>1
    <3>2. CASE h # g
      BY <1>1, <2>1, <3>2 DEF Kept, Spared
    <3> QED
      BY <3>1, <3>2
  <2> QED
    BY <2>1, <2>2, <2>3 DEF Kept, IsStored
<1>5. CommitsFresh'
  <2> SUFFICES ASSUME NEW u \in Uploads, upload[u].step = "committed", upload[u].vouched PROVE Fresh(u)'
    BY DEF CommitsFresh
  <2>1. Fresh(u)
    BY Parts DEF CommitsFresh
  <2> QED
    BY <1>1, <2>1 DEF Fresh, IsStored, NotJudged
<1> QED
  BY <1>1, <1>2, <1>3, <1>4, <1>5, Parts DEF IInv, TypeOK

(* References are read before the ages: a row that is there is in the query's answer. *)
LEMMA QueryStep ==
    ASSUME IInv, NEW g \in Sweeps, QueryReferences(g)
    PROVE  IInv'
<1> DEFINE c == [step |-> "queried", since |-> now, referenced |-> Referenced, names |-> {}, orphans |-> {}]
<1>1. sweep' = [sweep EXCEPT ![g] = c] /\ UNCHANGED <<now, stored, row, upload>>
  BY DEF QueryReferences
<1>2. Referenced \subseteq Objects
  BY RowFacts, Parts DEF Referenced
<1>3. c \in SweepStates /\ c.since = now /\ c.orphans = {} /\ c.referenced = Referenced /\ c.step = "queried"
  BY <1>2, Parts DEF SweepStates
<1> HIDE DEF c
<1>4. now <= c.since + ScanTime /\ c.since <= now
  BY <1>3, Parts, Numbers
<1>5. sweep'[g] = c
  BY <1>1, Parts
<1>6. \A k \in Rows : row[k] # Nothing /\ row[k].vouched =>
          (c # Idle => row[k].object \notin c.orphans) /\ Spared(g, row[k].object)'
  <2> SUFFICES ASSUME NEW k \in Rows, row[k] # Nothing
               PROVE  row[k].object \notin c.orphans /\ Spared(g, row[k].object)'
    OBVIOUS
  <2>1. row[k].object \in Referenced
    BY DEF Referenced
  <2>2. row'[k].object \in sweep'[g].referenced /\ sweep'[g].step = "queried"
    BY <1>1, <1>3, <1>5, <2>1
  <2> QED
    BY <1>3, <2>2 DEF Spared
<1>7. \A u \in Uploads : upload[u].step = "committed" /\ upload[u].vouched =>
          (c # Idle => upload[u].object \notin c.orphans)
  BY <1>3
<1> QED
  BY <1>1, <1>3, <1>4, <1>6, <1>7, SweepMoves

LEMMA BeginScanStep ==
    ASSUME IInv, NEW g \in Sweeps, BeginScan(g)
    PROVE  IInv'
<1> DEFINE names == {n \in Objects : IsStored(n)}
           c == [sweep[g] EXCEPT !.step = "scanning", !.since = now, !.names = names]
<1>1. sweep' = [sweep EXCEPT ![g] = c] /\ UNCHANGED <<now, stored, row, upload>> /\ sweep[g].step = "queried"
  BY DEF BeginScan
<1>2. sweep[g] \in SweepStates /\ sweep[g] # Idle /\ sweep[g].since \in Nat
  BY <1>1, SweepFacts, BusySweep, Parts, Numbers
<1>3. now <= sweep[g].since + ScanTime /\ sweep[g].orphans = {}
  BY <1>1, Parts DEF SweepsInTime
<1>4. /\ c \in SweepStates /\ c.since = now /\ c.step = "scanning"
      /\ c.referenced = sweep[g].referenced /\ c.orphans = sweep[g].orphans
  <2>1. names \subseteq Objects /\ now \in Time
    BY Parts
  <2> HIDE DEF names
  <2> QED
    BY <1>2, <2>1 DEF SweepStates
<1> HIDE DEF c
<1>5. sweep'[g] = c
  BY <1>1, Parts
<1>6. \A k \in Rows : row[k] # Nothing /\ row[k].vouched =>
          (c # Idle => row[k].object \notin c.orphans) /\ Spared(g, row[k].object)'
  <2> SUFFICES ASSUME NEW k \in Rows, row[k] # Nothing, row[k].vouched
               PROVE  row[k].object \notin c.orphans /\ Spared(g, row[k].object)'
    OBVIOUS
  <2> DEFINE n == row[k].object
  <2>1. n \in Objects /\ Kept(n)
    BY RowFacts, Parts DEF RowsKept
  <2>2. stored[n] \in Nat
    BY <2>1, StoredFacts, Parts DEF Kept
  <2>3. n \in sweep[g].referenced \/ sweep[g].since + ScanTime < stored[n] + MinAge
    BY <1>1, <2>1 DEF Kept, Spared
  <2>4. n \in c.referenced \/ now < stored[n] + MinAge
    BY <1>2, <1>3, <1>4, <2>2, <2>3, Parts, Numbers
  <2>5. Spared(g, n)'
    BY <1>1, <1>4, <1>5, <2>4 DEF Spared
  <2> QED
    BY <1>3, <1>4, <2>5
<1>7. \A u \in Uploads : upload[u].step = "committed" /\ upload[u].vouched =>
          (c # Idle => upload[u].object \notin c.orphans)
  BY <1>3, <1>4
<1>8. c.since <= now /\ c.step # "queried"
  BY <1>4, Parts
<1> QED
  BY <1>1, <1>4, <1>6, <1>7, <1>8, SweepMoves

(* A kept or fresh object is never found an orphan. *)
LEMMA ClassifyStep ==
    ASSUME IInv, NEW g \in Sweeps, NEW n \in Objects, Classify(g, n)
    PROVE  IInv'
<1> DEFINE orphans == IF IsOrphan(g, n) THEN sweep[g].orphans \cup {n} ELSE sweep[g].orphans
           c == [sweep[g] EXCEPT !.names = @ \ {n}, !.orphans = orphans]
<1>1. sweep' = [sweep EXCEPT ![g] = c] /\ UNCHANGED <<now, stored, row, upload>> /\ sweep[g].step = "scanning"
  BY Zenon DEF Classify
<1>2. sweep[g] \in SweepStates /\ sweep[g] # Idle /\ sweep[g].since \in Nat
      /\ sweep[g].orphans \subseteq Objects /\ sweep[g].names \subseteq Objects /\ sweep[g].since <= now
  BY <1>1, SweepFacts, BusySweep, Parts, Numbers DEF SweepsInTime
<1>3. orphans \subseteq Objects /\ orphans \subseteq sweep[g].orphans \cup {n}
      /\ (n \in orphans => n \in sweep[g].orphans \/ IsOrphan(g, n))
  BY <1>2
<1> HIDE DEF orphans
<1>4. /\ c \in SweepStates /\ c.since = sweep[g].since /\ c.step = "scanning"
      /\ c.referenced = sweep[g].referenced /\ c.orphans = orphans
  BY <1>1, <1>2, <1>3 DEF SweepStates
<1> HIDE DEF c
<1>5. sweep'[g] = c
  BY <1>1, Parts
<1>6. \A k \in Rows : row[k] # Nothing /\ row[k].vouched =>
          (c # Idle => row[k].object \notin c.orphans) /\ Spared(g, row[k].object)'
  <2> SUFFICES ASSUME NEW k \in Rows, row[k] # Nothing, row[k].vouched
               PROVE  row[k].object \notin c.orphans /\ Spared(g, row[k].object)'
    OBVIOUS
  <2> DEFINE m == row[k].object
  <2>1. m \in Objects /\ Kept(m)
    BY RowFacts, Parts DEF RowsKept
  <2>2. stored[m] \in Nat
    BY <2>1, StoredFacts, Parts DEF Kept
  <2>3. m \in sweep[g].referenced \/ sweep[g].since < stored[m] + MinAge
    BY <1>1, <2>1 DEF Kept, Spared
  <2>4. Spared(g, m)'
    BY <1>1, <1>4, <1>5, <2>3 DEF Spared
  <2>5. ~IsOrphan(g, m)
    BY <1>2, <2>2, <2>3, Numbers DEF IsOrphan
  <2>6. m \notin sweep[g].orphans
    BY <1>2, <2>1 DEF Kept, NotJudged
  <2>7. m \notin orphans
    BY <1>3, <2>5, <2>6
  <2> QED
    BY <1>4, <2>4, <2>7
<1>7. \A u \in Uploads : upload[u].step = "committed" /\ upload[u].vouched =>
          (c # Idle => upload[u].object \notin c.orphans)
  <2> SUFFICES ASSUME NEW u \in Uploads, upload[u].step = "committed", upload[u].vouched
               PROVE  upload[u].object \notin orphans
    BY <1>4
  <2> DEFINE m == upload[u].object
  <2>1. m \in Objects /\ NotJudged(m) /\ stored[m] \in Time /\ now <= stored[m] + UploadTime + UploadTime
    BY FreshTime
  <2>2. sweep[g].since < stored[m] + MinAge
    BY <1>2, <2>1, FreshIsYoung
  <2>3. ~IsOrphan(g, m)
    BY <1>2, <2>1, <2>2, Numbers DEF IsOrphan
  <2>4. m \notin sweep[g].orphans
    BY <1>2, <2>1 DEF NotJudged
  <2> QED
    BY <1>3, <2>3, <2>4
<1>8. c.since <= now /\ c.step # "queried"
  BY <1>2, <1>4
<1> QED
  BY <1>1, <1>4, <1>6, <1>7, <1>8, SweepMoves

LEMMA EndSweepStep ==
    ASSUME IInv, NEW g \in Sweeps, EndSweep(g)
    PROVE  IInv'
<1>1. sweep' = [sweep EXCEPT ![g] = Idle] /\ UNCHANGED <<now, stored, row, upload>>
  BY DEF EndSweep
<1>2. sweep'[g].step = "idle"
  BY <1>1, Parts DEF Idle
<1>3. \A k \in Rows : Spared(g, row[k].object)'
  BY <1>2 DEF Spared
<1> QED
  BY <1>1, <1>3, IdleStep, SweepMoves

LEMMA UnlinkStep ==
    ASSUME IInv, NEW g \in Sweeps, NEW n \in Objects, Unlink(g, n)
    PROVE  IInv'
<1> DEFINE c == [sweep[g] EXCEPT !.orphans = @ \ {n}]
<1>1. /\ sweep' = [sweep EXCEPT ![g] = c] /\ UNCHANGED <<now, row, upload>>
      /\ stored' = [stored EXCEPT ![n] = Nothing]
      /\ sweep[g].step = "scanning" /\ n \in sweep[g].orphans
  BY DEF Unlink
<1>2. sweep[g] \in SweepStates /\ sweep[g] # Idle
  BY <1>1, SweepFacts, BusySweep, Parts
<1>3. /\ c \in SweepStates /\ c.since = sweep[g].since /\ c.step = sweep[g].step
      /\ c.referenced = sweep[g].referenced /\ c.orphans = sweep[g].orphans \ {n}
  BY <1>2 DEF SweepStates
<1> HIDE DEF c
<1>4. /\ sweep' \in [Sweeps -> SweepStates \cup {Idle}]
      /\ \A h \in Sweeps : sweep'[h] = IF h = g THEN c ELSE sweep[h]
      /\ stored' \in [Objects -> Time \cup {Nothing}]
      /\ \A m \in Objects : m # n => stored'[m] = stored[m]
  BY <1>1, <1>3, Parts
<1>5. ~NotJudged(n)
  BY <1>1, <1>2 DEF NotJudged
<1>6. SweepsInTime'
  BY <1>1, <1>2, <1>3, <1>4, Parts DEF SweepsInTime
<1>7. \A m : NotJudged(m) => NotJudged(m)'
  BY <1>2, <1>3, <1>4 DEF NotJudged
<1>8. RowsKept'
  <2> SUFFICES ASSUME NEW k \in Rows, row[k] # Nothing, row[k].vouched PROVE Kept(row[k].object)'
    BY <1>1 DEF RowsKept
  <2> DEFINE m == row[k].object
  <2>1. m \in Objects /\ Kept(m) /\ m # n
    BY <1>5, RowFacts, Parts DEF RowsKept, Kept
  <2>2. row' = row
    BY <1>1
  <2>3. stored'[m] = stored[m] /\ NotJudged(m)'
    BY <1>4, <1>7, <2>1, <2>2 DEF Kept, NotJudged
  <2>4. \A h \in Sweeps : Spared(h, m)'
    BY <1>1, <1>3, <1>4, <2>1, <2>3 DEF Kept, Spared
  <2> QED
    BY <2>1, <2>2, <2>3, <2>4 DEF Kept, IsStored
<1>9. CommitsFresh'
  <2> SUFFICES ASSUME NEW u \in Uploads, upload[u].step = "committed", upload[u].vouched PROVE Fresh(u)'
    BY <1>1 DEF CommitsFresh
  <2> DEFINE m == upload[u].object
  <2>1. m \in Objects /\ Fresh(u) /\ m # n
    BY <1>5, FreshTime, Parts DEF CommitsFresh, Fresh
  <2> QED
    BY <1>1, <1>4, <1>7, <2>1 DEF Fresh, IsStored
<1>10. UploadsInTime'
  BY <1>1, Parts DEF UploadsInTime
<1> QED
  BY <1>1, <1>4, <1>6, <1>8, <1>9, <1>10, Parts DEF IInv, TypeOK

-----------------------------------------------------------------------------
(* The process and the clock. *)

LEMMA RestartStep ==
    ASSUME IInv, Restart
    PROVE  IInv'
<1>1. upload' = [u \in Uploads |-> Idle] /\ sweep' = [g \in Sweeps |-> Idle] /\ UNCHANGED <<now, stored, row>>
  BY DEF Restart
<1>2. UploadsInTime' /\ SweepsInTime' /\ CommitsFresh'
  BY <1>1, IdleStep DEF UploadsInTime, SweepsInTime, CommitsFresh
<1>3. RowsKept'
  BY <1>1, IdleStep, Parts DEF RowsKept, Kept, IsStored, NotJudged, Spared
<1> QED
  BY <1>1, <1>2, <1>3, Parts DEF IInv, TypeOK

LEMMA TickStep ==
    ASSUME IInv, Tick
    PROVE  IInv'
<1>1. now' = now + 1 /\ UNCHANGED <<stored, row, upload, sweep>> /\ now < MaxTime
  BY DEF Tick
<1>2. now' \in Time /\ now \in Nat
  BY <1>1, Parts, Numbers DEF Time
<1>3. UploadsInTime'
  <2> SUFFICES ASSUME NEW u \in Uploads, upload[u] # Idle
               PROVE  upload[u].at <= now' /\ now' <= upload[u].at + UploadTime
    BY <1>1 DEF UploadsInTime
  <2>1. upload[u].at \in Nat
    BY Parts, Numbers DEF UploadStates
  <2>2. upload[u].at <= now /\ now < upload[u].at + UploadTime
    BY Parts DEF UploadsInTime, Tick
  <2> QED
    BY <1>1, <1>2, <2>1, <2>2, Numbers
<1>4. SweepsInTime'
  <2> SUFFICES ASSUME NEW g \in Sweeps
               PROVE  /\ sweep[g] # Idle => sweep[g].since <= now'
                      /\ sweep[g].step = "queried" => now' <= sweep[g].since + ScanTime /\ sweep[g].orphans = {}
    BY <1>1 DEF SweepsInTime
  <2>1. sweep[g] # Idle => sweep[g].since \in Nat /\ sweep[g].since <= now
    BY SweepFacts, Parts, Numbers DEF SweepsInTime
  <2>2. sweep[g].step = "queried" =>
            sweep[g] # Idle /\ now < sweep[g].since + ScanTime /\ sweep[g].orphans = {}
    BY BusySweep, Parts DEF SweepsInTime, Tick
  <2> QED
    BY <1>1, <1>2, <2>1, <2>2, Numbers
<1>5. RowsKept' /\ CommitsFresh'
  BY <1>1, Parts DEF RowsKept, Kept, IsStored, NotJudged, Spared, CommitsFresh, Fresh
<1> QED
  BY <1>1, <1>2, <1>3, <1>4, <1>5, Parts DEF IInv, TypeOK

-----------------------------------------------------------------------------
(* The theorems. *)

LEMMA InitHolds == Init => IInv
<1> SUFFICES ASSUME Init PROVE IInv
  OBVIOUS
<1>1. TypeOK
  BY StoreAssumption DEF Init, TypeOK, Time
<1>2. UploadsInTime /\ SweepsInTime /\ CommitsFresh
  BY IdleStep DEF Init, UploadsInTime, SweepsInTime, CommitsFresh
<1>3. RowsKept
  BY DEF Init, RowsKept
<1> QED
  BY <1>1, <1>2, <1>3 DEF IInv

LEMMA StutterHolds == IInv /\ UNCHANGED vars => IInv'
<1> SUFFICES ASSUME IInv, UNCHANGED vars PROVE IInv'
  OBVIOUS
<1>1. UNCHANGED <<now, stored, row, upload, sweep>>
  BY DEF vars
<1>2. TypeOK' /\ UploadsInTime' /\ SweepsInTime'
  BY <1>1, Parts DEF TypeOK, UploadsInTime, SweepsInTime
<1>3. RowsKept' /\ CommitsFresh'
  BY <1>1, Parts DEF RowsKept, Kept, IsStored, NotJudged, Spared, CommitsFresh, Fresh
<1> QED
  BY <1>2, <1>3 DEF IInv

LEMMA NextHolds == IInv /\ Next => IInv'
<1> SUFFICES ASSUME IInv, Next PROVE IInv'
  OBVIOUS
<1>1. CASE UploadNext
  BY <1>1, ReceiveStep, TouchStep, RenameStep, EndUploadStep, WriteRowStep DEF UploadNext
<1>2. CASE RowNext
  BY <1>2, RowSteps DEF RowNext
<1>3. CASE SweepNext
  BY <1>3, QueryStep, BeginScanStep, EndSweepStep, ClassifyStep, UnlinkStep DEF SweepNext
<1>4. CASE Restart \/ Tick
  BY <1>4, RestartStep, TickStep
<1> QED
  BY <1>1, <1>2, <1>3, <1>4 DEF Next

(* The inductive invariant: a vouched object is spared by every sweep under *)
(* way, because the sweep knows its row or will find it too young.          *)
THEOREM StoreInvariance == Spec => []IInv
<1>1. Init => IInv
  BY InitHolds
<1>2. IInv /\ [Next]_vars => IInv'
  BY NextHolds, StutterHolds
<1> QED
  BY <1>1, <1>2, PTL DEF Spec

(* Types, for any number of rows, uploads and sweeps. *)
THEOREM StoreTypeCorrect == Spec => []TypeOK
<1>1. IInv => TypeOK
  BY DEF IInv
<1> QED
  BY <1>1, StoreInvariance, PTL

(* Whatever GC_MIN_AGE_MS is, as long as it leaves room for two uploads and *)
(* a scan: no sweep removes what an upload has stored or a row refers to,   *)
(* unless it had judged it before (storage.js, routes/storage-admin.js).    *)
THEOREM VouchedAreNotSwept == Spec => []VouchedObjectsStay
<1>1. IInv => VouchedObjectsStay
  BY DEF IInv, VouchedObjectsStay, RowsKept, Kept, CommitsFresh, Fresh
<1> QED
  BY <1>1, StoreInvariance, PTL

-----------------------------------------------------------------------------
(* Categories: what a transaction holds, whatever the tables say meanwhile. *)

Records == Transaction \cup {Waiting, Done}
Under(x) == x.step \notin {"waiting", "done"}

(* A transaction x beside the categories cat and the scenarios scn: a lock it *)
(* holds keeps what it read of the category true until it ends.               *)
Fits(x, cat, scn) ==
    /\ Under(x) =>
          /\ x.route # "put" => x.c \in Slugs
          /\ x.route \in {"create", "fromArchive", "addCategory", "putCategory"} => x.label \in Labels
          /\ x.step # "begun" =>
                /\ x.route = "setCategory" => x.hold = "share"
                /\ x.route = "putCategory" => x.hold = "written"
                /\ x.route = "deleteCategory" => x.hold = "update"
                /\ x.route \in {"put", "putByAuthor"} => x.row /\ scn[x.s] # Absent
          /\ x.route = "deleteCategory" /\ x.step = "checked" =>
                \A s \in Scenarios : scn[s] # Absent /\ scn[s].locked => scn[s].category # x.c
    /\ x.hold # "none" => Under(x) /\ x.c \in Slugs
    /\ x.hold = "share" => cat[x.c] # Absent /\ x.label = cat[x.c]
    /\ x.hold = "update" => cat[x.c] # Absent
    /\ x.hold = "written" => (x.route = "putCategory" <=> cat[x.c] # Absent)

(* Only readers share a category's row. *)
Apart(x, y) ==
    x.hold # "none" /\ y.hold # "none" /\ x.c = y.c => x.hold = "share" /\ y.hold = "share"

Stays(scn, cat) ==
    \A s \in Scenarios : scn[s] # Absent /\ scn[s].locked => cat[scn[s].category] = scn[s].label

TablesInv ==
    /\ TablesTypeOK
    /\ LockedMovesStayInStep
    /\ \A t \in Transactions : Fits(tx[t], category, scenario)
    /\ \A t, u \in Transactions : t # u => Apart(tx[t], tx[u])

LEMMA ApartIsMutual == \A x, y : Apart(x, y) => Apart(y, x)
BY DEF Apart

LEMMA DoneFits ==
    /\ Done \in Records /\ Waiting \in Records
    /\ \A cat, scn : Fits(Done, cat, scn) /\ Fits(Waiting, cat, scn)
    /\ \A y : Apart(Done, y) /\ Apart(Waiting, y)
BY DEF Done, Waiting, Records, Fits, Under, Apart

LEMMA UnderWay ==
    ASSUME TablesInv, NEW t \in Transactions, Under(tx[t])
    PROVE  tx[t] \in Transaction /\ Fits(tx[t], category, scenario)
BY DEF TablesInv, TablesTypeOK, Records, Under, Waiting, Done

(* One transaction moves on, and the tables with it. *)
LEMMA OneTransaction ==
    ASSUME TablesInv, NEW t \in Transactions, NEW x \in Records, tx' = [tx EXCEPT ![t] = x],
           category' \in [Slugs -> Labels \cup {Absent}],
           scenario' \in [Scenarios -> ScenarioRow \cup {Absent}],
           Stays(scenario', category'),
           Fits(x, category', scenario'),
           \A u \in Transactions \ {t} : Fits(tx[u], category', scenario'),
           \A u \in Transactions \ {t} : Apart(x, tx[u])
    PROVE  TablesInv'
<1>1. tx \in [Transactions -> Records]
  BY DEF TablesInv, TablesTypeOK, Records
<1>2. tx' \in [Transactions -> Records]
  BY <1>1
<1>3. tx'[t] = x /\ \A u \in Transactions \ {t} : tx'[u] = tx[u]
  BY <1>1
<1>4. \A u \in Transactions : Fits(tx'[u], category', scenario')
  BY <1>3, Zenon
<1>5. \A u, v \in Transactions : u # v => Apart(tx[u], tx[v])
  BY DEF TablesInv
<1>6. ASSUME NEW u \in Transactions, NEW v \in Transactions, u # v PROVE Apart(tx'[u], tx'[v])
  <2>1. CASE u = t
    BY <1>3, <1>6, <2>1, Zenon
  <2>2. CASE v = t
    BY <1>3, <1>6, <2>2, ApartIsMutual, Zenon
  <2>3. CASE u # t /\ v # t
    BY <1>3, <1>5, <1>6, <2>3, Zenon
  <2> QED
    BY <2>1, <2>2, <2>3
<1>7. TablesTypeOK'
  BY <1>2 DEF TablesTypeOK, Records
<1>8. LockedMovesStayInStep'
  BY DEF LockedMovesStayInStep, Stays
<1> QED
  BY <1>4, <1>6, <1>7, <1>8 DEF TablesInv

(* The tables stay as they are. *)
LEMMA NothingWritten ==
    ASSUME TablesInv, NEW t \in Transactions, NEW x \in Records, tx' = [tx EXCEPT ![t] = x],
           UNCHANGED <<category, scenario>>,
           Fits(x, category, scenario),
           \A u \in Transactions \ {t} : Apart(x, tx[u])
    PROVE  TablesInv'
<1>1. Stays(scenario', category')
  BY DEF TablesInv, LockedMovesStayInStep, Stays
<1>2. \A u \in Transactions \ {t} : Fits(tx[u], category', scenario')
  BY DEF TablesInv
<1>3. category' \in [Slugs -> Labels \cup {Absent}] /\ scenario' \in [Scenarios -> ScenarioRow \cup {Absent}]
  BY DEF TablesInv, TablesTypeOK
<1>4. Fits(x, category', scenario')
  OBVIOUS
<1> QED
  BY <1>1, <1>2, <1>3, <1>4, OneTransaction

(* The row of one scenario is written; its category was not locked, or still says the label. *)
LEMMA RowWritten ==
    ASSUME TablesInv, NEW t \in Transactions, tx' = [tx EXCEPT ![t] = Done],
           NEW s \in Scenarios, NEW entry \in ScenarioRow \cup {Absent},
           scenario' = [scenario EXCEPT ![s] = entry],
           UNCHANGED category,
           entry = Absent => \A u \in Transactions \ {t} : tx[u].row => tx[u].s # s,
           entry # Absent /\ entry.locked =>
              /\ category[entry.category] = entry.label
              /\ \A u \in Transactions \ {t} : tx[u].hold # "none" /\ tx[u].c = entry.category => tx[u].hold = "share"
    PROVE  TablesInv'
<1>1. scenario \in [Scenarios -> ScenarioRow \cup {Absent}] /\ category \in [Slugs -> Labels \cup {Absent}]
      /\ LockedMovesStayInStep
  BY DEF TablesInv, TablesTypeOK
<1>2. /\ scenario' \in [Scenarios -> ScenarioRow \cup {Absent}]
      /\ \A z \in Scenarios : scenario'[z] = IF z = s THEN entry ELSE scenario[z]
  BY <1>1
<1>3. Stays(scenario', category')
  BY <1>1, <1>2 DEF LockedMovesStayInStep, Stays
<1>4. ASSUME NEW u \in Transactions \ {t} PROVE Fits(tx[u], category', scenario')
  <2>1. Fits(tx[u], category, scenario)
    BY DEF TablesInv
  <2>2. ASSUME Under(tx[u]), tx[u].route = "deleteCategory", tx[u].step = "checked"
        PROVE  \A z \in Scenarios : scenario'[z] # Absent /\ scenario'[z].locked => scenario'[z].category # tx[u].c
    <3>1. tx[u].hold = "update"
          /\ \A z \in Scenarios : scenario[z] # Absent /\ scenario[z].locked => scenario[z].category # tx[u].c
      BY <2>1, <2>2 DEF Fits
    <3> QED
      BY <1>2, <3>1
  <2>3. ASSUME Under(tx[u]), tx[u].route \in {"put", "putByAuthor"}, tx[u].step # "begun"
        PROVE  tx[u].row /\ scenario'[tx[u].s] # Absent
    <3>1. tx[u].row /\ scenario[tx[u].s] # Absent /\ tx[u].s \in Scenarios
      BY <2>1, <2>3, UnderWay DEF Fits, Transaction
    <3> QED
      BY <1>2, <3>1
  <2> QED
    BY <2>1, <2>2, <2>3 DEF Fits
<1> QED
  BY <1>1, <1>2, <1>3, <1>4, DoneFits, OneTransaction

(* Nobody but t holds c. *)
IsAlone(t, c) == \A u \in Transactions \ {t} : tx[u].hold # "none" => tx[u].c # c

(* cats says of every category but c what category said; in scns no row is gone, none newly locked. *)
SameBut(c, cats) == \A d \in Slugs : d # c => cats[d] = category[d]
KeepsRows(scns) ==
    \A z \in Scenarios :
        /\ scenario[z] # Absent => scns[z] # Absent
        /\ scns[z] # Absent /\ scns[z].locked =>
              scenario[z] # Absent /\ scenario[z].locked /\ scenario[z].category = scns[z].category

(* A category's row is written that nobody else holds. *)
LEMMA CategoryWritten ==
    ASSUME TablesInv, NEW t \in Transactions, tx' = [tx EXCEPT ![t] = Done],
           category' \in [Slugs -> Labels \cup {Absent}],
           scenario' \in [Scenarios -> ScenarioRow \cup {Absent}],
           NEW c \in Slugs, IsAlone(t, c), SameBut(c, category'), KeepsRows(scenario'),
           Stays(scenario', category')
    PROVE  TablesInv'
<1>1. ASSUME NEW u \in Transactions \ {t} PROVE Fits(tx[u], category', scenario')
  <2>1. Fits(tx[u], category, scenario)
    BY DEF TablesInv
  <2>2. tx[u].hold # "none" => tx[u].c \in Slugs /\ tx[u].c # c
    BY <2>1 DEF Fits, IsAlone
  <2>3. tx[u].hold # "none" => category'[tx[u].c] = category[tx[u].c]
    BY <2>2 DEF SameBut
  <2>4. (\A s \in Scenarios : scenario[s] # Absent /\ scenario[s].locked => scenario[s].category # tx[u].c)
        => (\A s \in Scenarios : scenario'[s] # Absent /\ scenario'[s].locked => scenario'[s].category # tx[u].c)
    BY DEF KeepsRows
  <2>5. Under(tx[u]) /\ scenario[tx[u].s] # Absent => scenario'[tx[u].s] # Absent
    BY UnderWay DEF Transaction, KeepsRows
  <2> QED
    BY <2>1, <2>3, <2>4, <2>5 DEF Fits
<1> QED
  BY <1>1, DoneFits, OneTransaction

LEMMA ScenarioFacts ==
    ASSUME TablesInv, NEW z \in Scenarios, scenario[z] # Absent
    PROVE  /\ scenario[z] \in ScenarioRow
           /\ scenario[z].category \in Slugs /\ scenario[z].label \in Labels
           /\ scenario[z].locked => category[scenario[z].category] = scenario[z].label
BY DEF TablesInv, TablesTypeOK, ScenarioRow, LockedMovesStayInStep

(* A writer of a category is alone with it. *)
LEMMA WriterIsAlone ==
    ASSUME TablesInv, NEW t \in Transactions, tx[t].hold \in {"written", "update"}
    PROVE  IsAlone(t, tx[t].c)
BY DEF TablesInv, Apart, IsAlone

(* UPDATE or INSERT of one scenario, with the category the transaction may have inserted. *)
LEMMA UnlockedRow ==
    ASSUME TablesInv, NEW t \in Transactions, Under(tx[t]), tx[t].route # "putCategory",
           NEW s \in Scenarios, NEW entry \in ScenarioRow, ~entry.locked,
           scenario' = [scenario EXCEPT ![s] = entry], category' = CategoryOf(t), tx' = Ended(t)
    PROVE  TablesInv'
<1>1. tx[t] \in Transaction /\ Fits(tx[t], category, scenario) /\ tx' = [tx EXCEPT ![t] = Done]
  BY UnderWay DEF Ended
<1>2. CASE tx[t].hold # "written"
  <2>1. category' = category
    BY <1>2 DEF CategoryOf
  <2>2. entry # Absent
    BY CategoriesAssumption DEF CategoriesAssumption
  <2> QED
    BY <1>1, <2>1, <2>2, RowWritten
<1>3. CASE tx[t].hold = "written"
  <2> DEFINE c == tx[t].c
             val == IF tx[t].label = Unsaid THEN SlugAsLabel ELSE tx[t].label
  <2>1. c \in Slugs /\ category[c] = Absent
    BY <1>1, <1>3 DEF Fits
  <2>2. val \in Labels /\ category' = [category EXCEPT ![c] = val]
    BY <1>1, <1>3, CategoriesAssumption DEF CategoryOf, Transaction, CategoriesAssumption
  <2>3. IsAlone(t, c)
    BY <1>3, WriterIsAlone
  <2>4. category \in [Slugs -> Labels \cup {Absent}] /\ scenario \in [Scenarios -> ScenarioRow \cup {Absent}]
    BY DEF TablesInv, TablesTypeOK
  <2>5. /\ scenario' \in [Scenarios -> ScenarioRow \cup {Absent}]
        /\ \A z \in Scenarios : scenario'[z] = IF z = s THEN entry ELSE scenario[z]
    BY <2>4
  <2>6. \A z \in Scenarios : scenario'[z] # Absent /\ scenario'[z].locked =>
           scenario[z] # Absent /\ scenario[z].locked /\ scenario'[z] = scenario[z]
    BY <2>5
  <2> HIDE DEF c, val
  <2>7. Stays(scenario', category')
    <3> SUFFICES ASSUME NEW z \in Scenarios, scenario'[z] # Absent, scenario'[z].locked
                 PROVE  category'[scenario'[z].category] = scenario'[z].label
      BY DEF Stays
    <3>1. scenario[z] # Absent /\ scenario[z].locked /\ scenario'[z] = scenario[z]
      BY <2>6
    <3>2. scenario[z].category \in Slugs /\ scenario[z].label \in Labels
          /\ category[scenario[z].category] = scenario[z].label
      BY <3>1, ScenarioFacts
    <3>3. scenario[z].category # c
      BY <2>1, <3>2, CategoriesAssumption DEF CategoriesAssumption
    <3> QED
      BY <2>2, <2>4, <3>1, <3>2, <3>3
  <2>8. KeepsRows(scenario')
    BY <2>5, <2>6, CategoriesAssumption DEF KeepsRows, CategoriesAssumption
  <2>9. category' \in [Slugs -> Labels \cup {Absent}] /\ SameBut(c, category')
    BY <2>2, <2>4 DEF SameBut
  <2> QED
    BY <1>1, <2>1, <2>3, <2>5, <2>7, <2>8, <2>9, CategoryWritten
<1> QED
  BY <1>2, <1>3

-----------------------------------------------------------------------------
(* Steps that write no table. *)

LEMMA NoHolders ==
    ASSUME NEW t \in Transactions, ~Waits(t), Running(t)
    PROVE  \A u \in Transactions \ {t} : tx[u].hold \in HoldsInTheWay(t) => tx[u].c # tx[t].c
BY DEF Waits, WaitsFor

LEMMA TxIsFunction == TablesInv => tx \in [Transactions -> Records]
BY DEF TablesInv, TablesTypeOK, Records

LEMMA EndStep ==
    ASSUME TablesInv, NEW t \in Transactions, tx' = [tx EXCEPT ![t] = Done],
           UNCHANGED <<category, scenario>>
    PROVE  TablesInv'
BY DoneFits, NothingWritten

LEMMA BegunType ==
    ASSUME NEW route \in Routes, NEW s \in Scenarios, NEW c \in Slugs \cup {Unsaid}, NEW l \in Labels \cup {Unsaid}
    PROVE  /\ Begun(route, s, c, l) \in Transaction
           /\ Begun(route, s, c, l).route = route /\ Begun(route, s, c, l).step = "begun"
           /\ Begun(route, s, c, l).c = c /\ Begun(route, s, c, l).label = l
           /\ Begun(route, s, c, l).hold = "none"
BY DEF Begun, Transaction

LEMMA BeginStep ==
    ASSUME TablesInv, NEW t \in Transactions, NEW route \in Routes, NEW s \in Scenarios,
           NEW c \in Slugs \cup {Unsaid}, NEW l \in Labels \cup {Unsaid}, Begin(t, route, s, c, l)
    PROVE  TablesInv'
<1> DEFINE x == Begun(route, s, c, l)
<1>1. /\ x \in Transaction /\ x.route = route /\ x.step = "begun" /\ x.c = c /\ x.label = l /\ x.hold = "none"
  BY BegunType
<1>2. category \in [Slugs -> Labels \cup {Absent}]
  BY DEF TablesInv, TablesTypeOK
<1>3. /\ route # "put" => c \in Slugs
      /\ route \in {"create", "fromArchive", "addCategory", "putCategory"} => l \in Labels
  BY <1>2, CategoriesAssumption DEF Begin, CategoriesAssumption
<1>4. tx' = [tx EXCEPT ![t] = x] /\ UNCHANGED <<category, scenario>>
  BY DEF Begin
<1> HIDE DEF x
<1>5. Fits(x, category, scenario) /\ \A u \in Transactions \ {t} : Apart(x, tx[u])
  BY <1>1, <1>3 DEF Fits, Apart
<1> QED
  BY <1>1, <1>4, <1>5, NothingWritten DEF Records

LEMMA LockRowStep == ASSUME TablesInv, NEW t \in Transactions, LockRow(t) PROVE TablesInv'
<1> DEFINE y == tx[t]
           x == [y EXCEPT !.step = "locked", !.row = TRUE]
<1>1. y.step = "begun" /\ y.route \in {"put", "putByAuthor"} /\ Under(y)
  BY DEF LockRow, At, Under
<1>2. y \in Transaction /\ Fits(y, category, scenario) /\ scenario[y.s] # Absent
  BY <1>1, UnderWay DEF LockRow, Proceeds, IsRefused, At
<1>3. tx \in [Transactions -> Records]
  BY TxIsFunction
<1>4. tx' = [tx EXCEPT ![t] = x] /\ UNCHANGED <<category, scenario>>
  BY <1>3 DEF LockRow
<1>5. \A u \in Transactions \ {t} : Apart(y, tx[u])
  BY DEF TablesInv
<1>6. /\ x \in Transaction /\ x.step = "locked" /\ x.hold = y.hold
      /\ x.route = y.route /\ x.c = y.c /\ x.label = y.label /\ x.s = y.s /\ x.row = TRUE
  BY <1>2 DEF Transaction
<1> HIDE DEF x, y
<1>7. Fits(x, category, scenario)
  BY <1>1, <1>2, <1>6 DEF Fits, Under
<1>8. \A u \in Transactions \ {t} : Apart(x, tx[u])
  BY <1>5, <1>6 DEF Apart
<1> QED
  BY <1>4, <1>6, <1>7, <1>8, NothingWritten DEF Records

LEMMA EnsureCategoryStep == ASSUME TablesInv, NEW t \in Transactions, EnsureCategory(t) PROVE TablesInv'
<1> DEFINE y == tx[t]
           hold == IF y.c # Unsaid /\ category[y.c] = Absent THEN "written" ELSE "none"
           x == [y EXCEPT !.step = "checked", !.hold = hold]
<1>1. /\ At(t, "put", "locked") \/ At(t, "create", "begun")
      /\ Running(t) /\ ~Waits(t)
  BY DEF EnsureCategory, Proceeds
<1>2. y.route \in {"put", "create"} /\ Under(y) /\ (y.route = "put" => y.step = "locked")
  BY <1>1 DEF At, Under
<1>3. y \in Transaction /\ Fits(y, category, scenario)
  BY <1>2, UnderWay
<1>4. tx' = [tx EXCEPT ![t] = x] /\ UNCHANGED <<category, scenario>>
  BY TxIsFunction DEF EnsureCategory
<1>5. hold \in {"none", "share", "update", "written"} /\ hold \in {"none", "written"}
  OBVIOUS
<1>6. /\ x \in Transaction /\ x.step = "checked" /\ x.hold = hold
      /\ x.route = y.route /\ x.c = y.c /\ x.label = y.label /\ x.s = y.s /\ x.row = y.row
  BY <1>3, <1>5 DEF Transaction
<1>7. hold # "none" => y.c \in Slugs /\ category[y.c] = Absent
  BY <1>3 DEF Transaction
<1>8. Fits(x, category, scenario)
  <2> HIDE DEF x, y, hold
  <2> QED
    BY <1>2, <1>3, <1>5, <1>6, <1>7 DEF Fits, Under
<1>9. ASSUME NEW u \in Transactions \ {t}, hold # "none", tx[u].hold # "none", tx[u].c = y.c PROVE FALSE
  <2>1. Fits(tx[u], category, scenario) /\ tx[u] \in Records
    BY DEF TablesInv, TablesTypeOK, Records
  <2>2. tx[u].hold \in {"share", "update", "written"}
    BY <1>9, <2>1 DEF Records, Transaction, Waiting, Done
  <2>3. tx[u].hold # "written"
    BY <1>1, <1>9, NoHolders DEF HoldsInTheWay
  <2> QED
    BY <1>7, <1>9, <2>1, <2>2, <2>3 DEF Fits
<1>10. \A u \in Transactions \ {t} : Apart(x, tx[u])
  BY <1>6, <1>9 DEF Apart
<1> QED
  BY <1>4, <1>6, <1>8, <1>10, NothingWritten DEF Records

LEMMA CategoryExistsStep == ASSUME TablesInv, NEW t \in Transactions, CategoryExists(t) PROVE TablesInv'
<1> DEFINE y == tx[t]
           x == [y EXCEPT !.step = "checked"]
<1>1. y.step = "locked" /\ y.route = "putByAuthor" /\ Under(y)
  BY DEF CategoryExists, At, Under
<1>2. y \in Transaction /\ Fits(y, category, scenario)
  BY <1>1, UnderWay
<1>3. tx' = [tx EXCEPT ![t] = x] /\ UNCHANGED <<category, scenario>>
  BY TxIsFunction DEF CategoryExists
<1>4. \A u \in Transactions \ {t} : Apart(y, tx[u])
  BY DEF TablesInv
<1>5. /\ x \in Transaction /\ x.step = "checked" /\ x.hold = y.hold
      /\ x.route = y.route /\ x.c = y.c /\ x.label = y.label /\ x.s = y.s /\ x.row = y.row
  BY <1>2 DEF Transaction
<1> HIDE DEF x, y
<1>6. Fits(x, category, scenario)
  BY <1>1, <1>2, <1>5 DEF Fits, Under
<1>7. \A u \in Transactions \ {t} : Apart(x, tx[u])
  BY <1>4, <1>5 DEF Apart
<1> QED
  BY <1>3, <1>5, <1>6, <1>7, NothingWritten DEF Records

LEMMA ShareCategoryStep == ASSUME TablesInv, NEW t \in Transactions, ShareCategory(t) PROVE TablesInv'
<1> DEFINE y == tx[t]
           l == category[y.c]
           x == [y EXCEPT !.step = "locked", !.hold = "share", !.label = l]
<1>1. At(t, "setCategory", "begun") /\ Running(t) /\ ~Waits(t) /\ ~IsRefused(t)
  BY DEF ShareCategory, Proceeds
<1>2. y.route = "setCategory" /\ y.step = "begun" /\ Under(y)
  BY <1>1 DEF At, Under
<1>3. y \in Transaction /\ Fits(y, category, scenario) /\ y.c \in Slugs
  BY <1>2, UnderWay DEF Fits
<1>4. l \in Labels /\ l # Absent
  BY <1>1, <1>3, CategoriesAssumption DEF IsRefused, TablesInv, TablesTypeOK, CategoriesAssumption
<1>5. tx' = [tx EXCEPT ![t] = x] /\ UNCHANGED <<category, scenario>>
  BY TxIsFunction DEF ShareCategory, ReadForShare
<1>6. /\ x \in Transaction /\ x.step = "locked" /\ x.hold = "share" /\ x.label = l
      /\ x.route = y.route /\ x.c = y.c
  BY <1>3, <1>4 DEF Transaction
<1>7. Fits(x, category, scenario)
  <2> HIDE DEF x, y
  <2> QED
    BY <1>2, <1>3, <1>4, <1>6 DEF Fits, Under
<1>8. ASSUME NEW u \in Transactions \ {t} PROVE Apart(x, tx[u])
  <2>1. tx[u] \in Records
    BY DEF TablesInv, TablesTypeOK, Records
  <2>2. tx[u].hold \in {"none", "share", "update", "written"}
    BY <2>1 DEF Records, Transaction, Waiting, Done
  <2>3. tx[u].hold \in {"update", "written"} => tx[u].c # y.c
    BY <1>1, NoHolders DEF HoldsInTheWay, At
  <2> HIDE DEF x
  <2> QED
    BY <1>6, <2>2, <2>3 DEF Apart
<1> QED
  BY <1>5, <1>6, <1>7, <1>8, NothingWritten DEF Records

(* A route that takes the category's row for itself: nobody else holds it. *)
LEMMA TakesTheRow ==
    ASSUME TablesInv, NEW t \in Transactions, NEW hold \in {"update", "written"},
           NEW route \in {"putCategory", "deleteCategory"}, At(t, route, "begun"), Proceeds(t),
           hold = "written" <=> route = "putCategory",
           tx' = [tx EXCEPT ![t].step = "locked", ![t].hold = hold], UNCHANGED <<category, scenario>>
    PROVE  TablesInv'
<1> DEFINE y == tx[t]
           x == [y EXCEPT !.step = "locked", !.hold = hold]
<1>1. Running(t) /\ ~Waits(t) /\ ~IsRefused(t)
  BY DEF Proceeds
<1>2. y.route = route /\ y.step = "begun" /\ Under(y)
  BY DEF At, Under
<1>3. y \in Transaction /\ Fits(y, category, scenario) /\ y.c \in Slugs
  BY <1>2, UnderWay DEF Fits
<1>4. category[y.c] # Absent
  BY <1>1 DEF IsRefused
<1>5. tx' = [tx EXCEPT ![t] = x]
  BY TxIsFunction
<1>6. /\ x \in Transaction /\ x.step = "locked" /\ x.hold = hold
      /\ x.route = y.route /\ x.c = y.c /\ x.label = y.label
  BY <1>3 DEF Transaction
<1>7. Fits(x, category, scenario)
  <2> HIDE DEF x, y
  <2> QED
    BY <1>2, <1>3, <1>4, <1>6 DEF Fits, Under
<1>8. ASSUME NEW u \in Transactions \ {t} PROVE Apart(x, tx[u])
  <2>1. tx[u] \in Records
    BY DEF TablesInv, TablesTypeOK, Records
  <2>2. tx[u].hold \in {"none", "share", "update", "written"}
    BY <2>1 DEF Records, Transaction, Waiting, Done
  <2>3. tx[u].hold \in {"share", "update", "written"} => tx[u].c # y.c
    BY <1>1, NoHolders DEF HoldsInTheWay, At
  <2> HIDE DEF x
  <2> QED
    BY <1>6, <2>2, <2>3 DEF Apart
<1> QED
  BY <1>5, <1>6, <1>7, <1>8, NothingWritten DEF Records

LEMMA CountScenariosStep == ASSUME TablesInv, NEW t \in Transactions, CountScenarios(t) PROVE TablesInv'
<1> DEFINE y == tx[t]
           x == [y EXCEPT !.step = "checked"]
<1>1. At(t, "deleteCategory", "locked") /\ ~IsRefused(t)
  BY DEF CountScenarios, Proceeds
<1>2. y.step = "locked" /\ y.route = "deleteCategory" /\ Under(y)
  BY <1>1 DEF At, Under
<1>3. y \in Transaction /\ Fits(y, category, scenario)
  BY <1>2, UnderWay
<1>4. \A s \in Scenarios : scenario[s] # Absent => scenario[s].category # y.c
  BY <1>1 DEF IsRefused, InCategory
<1>5. tx' = [tx EXCEPT ![t] = x] /\ UNCHANGED <<category, scenario>>
  BY TxIsFunction DEF CountScenarios
<1>6. \A u \in Transactions \ {t} : Apart(y, tx[u])
  BY DEF TablesInv
<1>7. /\ x \in Transaction /\ x.step = "checked" /\ x.hold = y.hold
      /\ x.route = y.route /\ x.c = y.c /\ x.label = y.label
  BY <1>3 DEF Transaction
<1> HIDE DEF x, y
<1>8. Fits(x, category, scenario)
  BY <1>2, <1>3, <1>4, <1>7 DEF Fits, Under
<1>9. \A u \in Transactions \ {t} : Apart(x, tx[u])
  BY <1>6, <1>7 DEF Apart
<1> QED
  BY <1>5, <1>7, <1>8, <1>9, NothingWritten DEF Records

-----------------------------------------------------------------------------
(* Steps that end a transaction and write. *)

LEMMA LastStatement ==
    ASSUME TablesInv, NEW t \in Transactions, NEW route \in Routes, NEW step \in {"begun", "locked", "checked"},
           At(t, route, step)
    PROVE  /\ Under(tx[t]) /\ tx[t] \in Transaction /\ Fits(tx[t], category, scenario)
           /\ tx[t].route = route /\ tx[t].s \in Scenarios
           /\ route # "put" => tx[t].c \in Slugs
<1>1. Under(tx[t]) /\ tx[t].route = route
  BY DEF At, Under
<1>2. tx[t] \in Transaction /\ Fits(tx[t], category, scenario)
  BY <1>1, UnderWay
<1> QED
  BY <1>1, <1>2 DEF Fits, Transaction

LEMMA WriteFieldsStep == ASSUME TablesInv, NEW t \in Transactions, WriteFields(t) PROVE TablesInv'
<1> DEFINE s == tx[t].s
           c == IF tx[t].c = Unsaid THEN scenario[s].category ELSE tx[t].c
           l == IF tx[t].label = Unsaid THEN scenario[s].label ELSE tx[t].label
           entry == [category |-> c, label |-> l, locked |-> FALSE]
<1>1. PICK route \in {"put", "putByAuthor"} : At(t, route, "checked")
  BY DEF WriteFields
<1>2. Under(tx[t]) /\ tx[t] \in Transaction /\ tx[t].route = route /\ s \in Scenarios
  BY <1>1, LastStatement DEF Routes
<1>3. scenario \in [Scenarios -> ScenarioRow \cup {Absent}]
  BY DEF TablesInv, TablesTypeOK
<1>4. scenario' = [scenario EXCEPT ![s] = entry] /\ category' = CategoryOf(t) /\ tx' = Ended(t)
  BY <1>2, <1>3 DEF WriteFields
<1>5. scenario[s] # Absent
  BY <1>1, LastStatement DEF Fits, At, Routes
<1>6. scenario[s].category \in Slugs /\ scenario[s].label \in Labels
  BY <1>2, <1>5, ScenarioFacts
<1>7. c \in Slugs /\ l \in Labels
  BY <1>2, <1>6 DEF Transaction
<1>8. entry \in ScenarioRow /\ ~entry.locked
  BY <1>7 DEF ScenarioRow
<1> HIDE DEF entry
<1> QED
  BY <1>1, <1>2, <1>4, <1>8, UnlockedRow

LEMMA InsertScenarioStep == ASSUME TablesInv, NEW t \in Transactions, InsertScenario(t) PROVE TablesInv'
<1> DEFINE s == tx[t].s
           c == tx[t].c
           l == IF tx[t].label = Unsaid THEN category[c] ELSE tx[t].label
           entry == [category |-> c, label |-> l, locked |-> FALSE]
<1>1. PICK route \in {"create", "createByAuthor", "fromArchive"}, step \in {"begun", "checked"} :
           /\ At(t, route, step)
           /\ route = "createByAuthor" => step = "begun"
  BY DEF InsertScenario
<1>2. /\ Under(tx[t]) /\ tx[t] \in Transaction /\ tx[t].route = route /\ s \in Scenarios
      /\ c \in Slugs /\ Fits(tx[t], category, scenario)
  BY <1>1, LastStatement DEF Routes
<1>3. scenario' = [scenario EXCEPT ![s] = entry] /\ category' = CategoryOf(t) /\ tx' = Ended(t)
  BY DEF InsertScenario
<1>4. route # "createByAuthor" => tx[t].label \in Labels
  BY <1>1, <1>2 DEF Fits
<1>5. route = "createByAuthor" => category[c] # Absent
  BY <1>1 DEF InsertScenario, Proceeds, IsRefused
<1>6. category[c] \in Labels \cup {Absent}
  BY <1>2 DEF TablesInv, TablesTypeOK
<1>7. l \in Labels
  BY <1>2, <1>4, <1>5, <1>6, CategoriesAssumption DEF Transaction, CategoriesAssumption
<1>8. entry \in ScenarioRow /\ ~entry.locked
  BY <1>2, <1>7 DEF ScenarioRow
<1> HIDE DEF entry
<1> QED
  BY <1>1, <1>2, <1>3, <1>8, UnlockedRow

LEMMA SetCategoryStep == ASSUME TablesInv, NEW t \in Transactions, SetCategory(t) PROVE TablesInv'
<1> DEFINE s == tx[t].s
           c == tx[t].c
           entry == [category |-> c, label |-> tx[t].label, locked |-> TRUE]
<1>1. At(t, "setCategory", "locked")
  BY DEF SetCategory
<1>2. /\ s \in Scenarios /\ c \in Slugs /\ Fits(tx[t], category, scenario)
      /\ Under(tx[t]) /\ tx[t].route = "setCategory" /\ tx[t].step = "locked"
  BY <1>1, LastStatement DEF Routes, At
<1>3. scenario' = [scenario EXCEPT ![s] = entry] /\ UNCHANGED category /\ tx' = [tx EXCEPT ![t] = Done]
  BY DEF SetCategory, Ended
<1>4. tx[t].hold = "share" /\ tx[t].label = category[c] /\ category[c] # Absent
  BY <1>2 DEF Fits
<1>5. entry \in ScenarioRow /\ category[entry.category] = entry.label /\ entry # Absent
  <2>1. category[c] \in Labels \cup {Absent}
    BY <1>2 DEF TablesInv, TablesTypeOK
  <2>2. tx[t].label \in Labels
    BY <1>4, <2>1
  <2>3. entry \in ScenarioRow
    BY <1>2, <2>2 DEF ScenarioRow
  <2> QED
    BY <1>4, <2>3, CategoriesAssumption DEF CategoriesAssumption
<1>6. ASSUME NEW u \in Transactions \ {t}, tx[u].hold # "none", tx[u].c = entry.category PROVE tx[u].hold = "share"
  BY <1>4, <1>6 DEF TablesInv, Apart
<1> HIDE DEF entry
<1> QED
  BY <1>2, <1>3, <1>5, <1>6, RowWritten

LEMMA DeleteScenarioStep == ASSUME TablesInv, NEW t \in Transactions, DeleteScenario(t) PROVE TablesInv'
<1>1. At(t, "deleteScenario", "begun") /\ Running(t) /\ ~Waits(t)
  BY DEF DeleteScenario, Proceeds
<1>2. tx[t].s \in Scenarios
  BY <1>1, LastStatement DEF Routes
<1>3. tx[t].s \in RowsWanted(t)
  BY <1>1 DEF RowsWanted
<1>4. \A u \in Transactions \ {t} : tx[u].row => tx[u].s # tx[t].s
  BY <1>1, <1>3 DEF Waits, WaitsFor
<1>5. scenario' = [scenario EXCEPT ![tx[t].s] = Absent] /\ UNCHANGED category /\ tx' = [tx EXCEPT ![t] = Done]
  BY DEF DeleteScenario, Ended
<1>6. Absent \in ScenarioRow \cup {Absent}
  OBVIOUS
<1> QED
  BY <1>2, <1>4, <1>5, <1>6, RowWritten

LEMMA AddCategoryStep == ASSUME TablesInv, NEW t \in Transactions, AddCategory(t) PROVE TablesInv'
<1> DEFINE c == tx[t].c
           l == tx[t].label
<1>1. At(t, "addCategory", "begun") /\ Running(t) /\ ~Waits(t) /\ ~IsRefused(t)
  BY DEF AddCategory, Proceeds
<1>2. c \in Slugs /\ l \in Labels
  BY <1>1, LastStatement DEF Routes, Fits
<1>3. category[c] = Absent
  BY <1>1 DEF IsRefused
<1>4. category \in [Slugs -> Labels \cup {Absent}] /\ scenario \in [Scenarios -> ScenarioRow \cup {Absent}]
  BY DEF TablesInv, TablesTypeOK
<1>5. category' = [category EXCEPT ![c] = l] /\ UNCHANGED scenario /\ tx' = [tx EXCEPT ![t] = Done]
  BY DEF AddCategory, Ended
<1> HIDE DEF c, l
<1>6. IsAlone(t, c)
  <2> SUFFICES ASSUME NEW u \in Transactions \ {t}, tx[u].hold # "none", tx[u].c = c PROVE FALSE
    BY DEF IsAlone
  <2>1. Fits(tx[u], category, scenario) /\ tx[u] \in Records
    BY DEF TablesInv, TablesTypeOK, Records
  <2>2. tx[u].hold \in {"share", "update", "written"}
    BY <2>1 DEF Records, Transaction, Waiting, Done
  <2>3. tx[u].hold # "written"
    BY <1>1, NoHolders DEF HoldsInTheWay, c
  <2> QED
    BY <1>3, <2>1, <2>2, <2>3 DEF Fits
<1>7. category' \in [Slugs -> Labels \cup {Absent}] /\ SameBut(c, category')
  BY <1>2, <1>4, <1>5 DEF SameBut
<1>8. KeepsRows(scenario') /\ scenario' \in [Scenarios -> ScenarioRow \cup {Absent}]
  BY <1>4, <1>5 DEF KeepsRows
<1>9. Stays(scenario', category')
  <2> SUFFICES ASSUME NEW z \in Scenarios, scenario[z] # Absent, scenario[z].locked
               PROVE  category'[scenario[z].category] = scenario[z].label
    BY <1>5 DEF Stays
  <2>1. scenario[z].category \in Slugs /\ scenario[z].label \in Labels
        /\ category[scenario[z].category] = scenario[z].label
    BY ScenarioFacts
  <2>2. scenario[z].category # c
    BY <1>3, <2>1, CategoriesAssumption DEF CategoriesAssumption
  <2> QED
    BY <1>5, <1>4, <2>1, <2>2
<1> QED
  BY <1>2, <1>5, <1>6, <1>7, <1>8, <1>9, CategoryWritten

LEMMA RelabelScenariosStep == ASSUME TablesInv, NEW t \in Transactions, RelabelScenarios(t) PROVE TablesInv'
<1> DEFINE c == tx[t].c
           l == tx[t].label
<1>1. At(t, "putCategory", "locked")
  BY DEF RelabelScenarios
<1>2. /\ tx[t] \in Transaction /\ c \in Slugs /\ Fits(tx[t], category, scenario)
      /\ Under(tx[t]) /\ tx[t].route = "putCategory" /\ tx[t].step = "locked"
  BY <1>1, LastStatement DEF Routes, At
<1>3. tx[t].hold = "written" /\ l \in Labels
  BY <1>2 DEF Fits
<1>4. category \in [Slugs -> Labels \cup {Absent}] /\ scenario \in [Scenarios -> ScenarioRow \cup {Absent}]
  BY DEF TablesInv, TablesTypeOK
<1>5. l # Unsaid
  BY <1>3, CategoriesAssumption DEF CategoriesAssumption
<1>6. category' = [category EXCEPT ![c] = l] /\ tx' = [tx EXCEPT ![t] = Done]
  BY <1>3, <1>5 DEF RelabelScenarios, Ended, CategoryOf
<1>7. IsAlone(t, c)
  BY <1>3, WriterIsAlone
<1>8. \A z \in Scenarios : scenario'[z] =
         IF scenario[z] # Absent /\ scenario[z].category = c THEN [scenario[z] EXCEPT !.label = l] ELSE scenario[z]
  BY DEF RelabelScenarios, InCategory
<1>9. scenario' = [z \in Scenarios |-> scenario'[z]]
  BY DEF RelabelScenarios
<1> HIDE DEF c, l
<1>10. ASSUME NEW z \in Scenarios, scenario[z] # Absent, scenario[z].category = c
       PROVE  /\ scenario'[z] \in ScenarioRow /\ scenario'[z] # Absent
              /\ scenario'[z].category = c /\ scenario'[z].label = l /\ scenario'[z].locked = scenario[z].locked
  <2>1. scenario[z] \in ScenarioRow
    BY <1>10, ScenarioFacts
  <2>2. scenario'[z] = [scenario[z] EXCEPT !.label = l]
    BY <1>8, <1>10
  <2>3. scenario'[z] \in ScenarioRow /\ scenario'[z].category = c /\ scenario'[z].label = l
        /\ scenario'[z].locked = scenario[z].locked
    BY <1>3, <1>10, <2>1, <2>2 DEF ScenarioRow
  <2> QED
    BY <2>3, CategoriesAssumption DEF CategoriesAssumption
<1>11. ASSUME NEW z \in Scenarios, ~(scenario[z] # Absent /\ scenario[z].category = c)
       PROVE  scenario'[z] = scenario[z] /\ scenario'[z] \in ScenarioRow \cup {Absent}
  BY <1>4, <1>8, <1>11
<1>12. scenario' \in [Scenarios -> ScenarioRow \cup {Absent}]
  <2>1. \A z \in Scenarios : scenario'[z] \in ScenarioRow \cup {Absent}
    BY <1>10, <1>11
  <2> QED
    BY <1>9, <2>1
<1>13. category' \in [Slugs -> Labels \cup {Absent}] /\ SameBut(c, category')
  BY <1>2, <1>3, <1>4, <1>6 DEF SameBut
<1>14. KeepsRows(scenario')
  <2> SUFFICES ASSUME NEW z \in Scenarios
               PROVE  /\ scenario[z] # Absent => scenario'[z] # Absent
                      /\ scenario'[z] # Absent /\ scenario'[z].locked =>
                            scenario[z] # Absent /\ scenario[z].locked /\ scenario[z].category = scenario'[z].category
    BY DEF KeepsRows
  <2>1. CASE scenario[z] # Absent /\ scenario[z].category = c
    BY <1>10, <2>1
  <2>2. CASE ~(scenario[z] # Absent /\ scenario[z].category = c)
    BY <1>11, <2>2
  <2> QED
    BY <2>1, <2>2
<1>15. Stays(scenario', category')
  <2> SUFFICES ASSUME NEW z \in Scenarios, scenario'[z] # Absent, scenario'[z].locked
               PROVE  category'[scenario'[z].category] = scenario'[z].label
    BY DEF Stays
  <2>1. CASE scenario[z] # Absent /\ scenario[z].category = c
    BY <1>2, <1>4, <1>6, <1>10, <2>1
  <2>2. CASE ~(scenario[z] # Absent /\ scenario[z].category = c)
    <3>1. scenario'[z] = scenario[z] /\ scenario[z] # Absent /\ scenario[z].locked /\ scenario[z].category # c
      BY <1>11, <2>2
    <3>2. scenario[z].category \in Slugs /\ category[scenario[z].category] = scenario[z].label
      BY <3>1, ScenarioFacts
    <3> QED
      BY <1>4, <1>6, <3>1, <3>2
  <2> QED
    BY <2>1, <2>2
<1> QED
  BY <1>2, <1>6, <1>7, <1>12, <1>13, <1>14, <1>15, CategoryWritten

LEMMA DeleteCategoryStep == ASSUME TablesInv, NEW t \in Transactions, DeleteCategory(t) PROVE TablesInv'
<1> DEFINE c == tx[t].c
<1>1. At(t, "deleteCategory", "checked")
  BY DEF DeleteCategory
<1>2. /\ tx[t] \in Transaction /\ c \in Slugs /\ Fits(tx[t], category, scenario)
      /\ Under(tx[t]) /\ tx[t].route = "deleteCategory" /\ tx[t].step = "checked"
  BY <1>1, LastStatement DEF Routes, At
<1>3. tx[t].hold = "update"
      /\ \A z \in Scenarios : scenario[z] # Absent /\ scenario[z].locked => scenario[z].category # c
  BY <1>2 DEF Fits
<1>4. category \in [Slugs -> Labels \cup {Absent}] /\ scenario \in [Scenarios -> ScenarioRow \cup {Absent}]
  BY DEF TablesInv, TablesTypeOK
<1>5. category' = [category EXCEPT ![c] = Absent] /\ UNCHANGED scenario /\ tx' = [tx EXCEPT ![t] = Done]
  BY DEF DeleteCategory, Ended
<1>6. IsAlone(t, c)
  BY <1>3, WriterIsAlone
<1> HIDE DEF c
<1>7. category' \in [Slugs -> Labels \cup {Absent}] /\ SameBut(c, category')
  BY <1>2, <1>4, <1>5 DEF SameBut
<1>8. KeepsRows(scenario') /\ scenario' \in [Scenarios -> ScenarioRow \cup {Absent}]
  BY <1>4, <1>5 DEF KeepsRows
<1>9. Stays(scenario', category')
  <2> SUFFICES ASSUME NEW z \in Scenarios, scenario[z] # Absent, scenario[z].locked
               PROVE  category'[scenario[z].category] = scenario[z].label
    BY <1>5 DEF Stays
  <2>1. scenario[z].category \in Slugs /\ category[scenario[z].category] = scenario[z].label
    BY ScenarioFacts
  <2> QED
    BY <1>3, <1>4, <1>5, <2>1
<1> QED
  BY <1>2, <1>5, <1>6, <1>7, <1>8, <1>9, CategoryWritten

-----------------------------------------------------------------------------

LEMMA TablesInvInit == TablesInit => TablesInv
<1> SUFFICES ASSUME TablesInit PROVE TablesInv
  OBVIOUS
<1>1. \A t \in Transactions : tx[t] = Waiting
  BY DEF TablesInit
<1>2. ASSUME NEW s \in Scenarios PROVE scenario[s] = Absent \/ scenario[s] \in [category : Slugs, label : Labels, locked : {FALSE}]
  BY DEF TablesInit
<1>3. \A s \in Scenarios : scenario[s] \in ScenarioRow \cup {Absent}
  BY <1>2 DEF ScenarioRow
<1>4. \A s \in Scenarios : scenario[s] # Absent => ~scenario[s].locked
  BY <1>2
<1>5. TablesTypeOK
  BY <1>3 DEF TablesInit, TablesTypeOK
<1>6. LockedMovesStayInStep
  BY <1>4 DEF LockedMovesStayInStep
<1> QED
  BY <1>1, <1>5, <1>6, DoneFits DEF TablesInv

LEMMA TablesInvStep == TablesInv /\ [TablesNext]_tablesVars => TablesInv'
<1> SUFFICES ASSUME TablesInv, [TablesNext]_tablesVars PROVE TablesInv'
  OBVIOUS
<1>1. CASE UNCHANGED tablesVars
  <2>1. category' = category /\ scenario' = scenario /\ tx' = tx
    BY <1>1 DEF tablesVars
  <2> QED
    BY <2>1 DEF TablesInv, TablesTypeOK, LockedMovesStayInStep
<1>2. ASSUME NEW t \in Transactions, NEW route \in Routes, NEW s \in Scenarios,
             NEW c \in Slugs \cup {Unsaid}, NEW l \in Labels \cup {Unsaid}, Begin(t, route, s, c, l)
      PROVE  TablesInv'
  BY <1>2, BeginStep
<1>3. ASSUME NEW t \in Transactions, Step(t) PROVE TablesInv'
  <2>1. CASE LockRow(t)
    BY <2>1, LockRowStep
  <2>2. CASE EnsureCategory(t)
    BY <2>2, EnsureCategoryStep
  <2>3. CASE CategoryExists(t)
    BY <2>3, CategoryExistsStep
  <2>4. CASE ShareCategory(t)
    BY <2>4, ShareCategoryStep
  <2>5. CASE RenameCategory(t)
    BY <2>5, TakesTheRow DEF RenameCategory
  <2>6. CASE LockCategory(t)
    BY <2>6, TakesTheRow DEF LockCategory, ReadForUpdate
  <2>7. CASE CountScenarios(t)
    BY <2>7, CountScenariosStep
  <2>8. CASE WriteFields(t)
    BY <2>8, WriteFieldsStep
  <2>9. CASE InsertScenario(t)
    BY <2>9, InsertScenarioStep
  <2>10. CASE SetCategory(t)
    BY <2>10, SetCategoryStep
  <2>11. CASE DeleteScenario(t)
    BY <2>11, DeleteScenarioStep
  <2>12. CASE AddCategory(t)
    BY <2>12, AddCategoryStep
  <2>13. CASE RelabelScenarios(t)
    BY <2>13, RelabelScenariosStep
  <2>14. CASE DeleteCategory(t)
    BY <2>14, DeleteCategoryStep
  <2>15. CASE Refuse(t)
    BY <2>15, EndStep DEF Refuse, Ended
  <2>16. CASE DeadlockAbort(t)
    BY <2>16, EndStep DEF DeadlockAbort
  <2> QED
    BY <1>3, <2>1, <2>2, <2>3, <2>4, <2>5, <2>6, <2>7, <2>8, <2>9, <2>10, <2>11, <2>12, <2>13,
       <2>14, <2>15, <2>16 DEF Step
<1>4. ASSUME NEW t \in Transactions, Fail(t) PROVE TablesInv'
  BY <1>4, EndStep DEF Fail
<1> QED
  BY <1>1, <1>2, <1>3, <1>4 DEF TablesNext

(***************************************************************************)
(* The two tables and the locks of categories.js, catalog-admin.js and     *)
(* bulk.js: whoever holds a category's row holds it apart from the others, *)
(* readers excepted, and what a transaction read under its lock is still   *)
(* true when it commits.                                                   *)
(***************************************************************************)
THEOREM TablesInvariance == TablesSpec => []TablesInv
<1> QED
  BY TablesInvInit, TablesInvStep, PTL DEF TablesSpec

(* Every column keeps its type: no NULL category or label is ever written. *)
THEOREM TablesTypesHold == TablesSpec => []TablesTypeOK
<1>1. TablesInv => TablesTypeOK
  BY DEF TablesInv
<1> QED
  BY <1>1, TablesInvariance, PTL

(***************************************************************************)
(* bulk.js set-category: a scenario moved under FOR SHARE carries its      *)
(* category's label from then on, whatever PUT, DELETE and the creations   *)
(* do at the same time, in any number of transactions.                     *)
(***************************************************************************)
THEOREM LockedMovesAreInStep == TablesSpec => []LockedMovesStayInStep
<1>1. TablesInv => LockedMovesStayInStep
  BY DEF TablesInv
<1> QED
  BY <1>1, TablesInvariance, PTL

-----------------------------------------------------------------------------
(***************************************************************************)
(* One route at a time.  A transaction's last statement is an act of       *)
(* CategoryTables on the tables as they are, because what it holds has     *)
(* stayed as it read it; every other step leaves the tables alone.         *)
(***************************************************************************)

LEMMA TablesInitImplements == TablesInit => Tables!Init
BY DEF TablesInit, Tables!Init

(* A row that is put, beside the category the transaction may have inserted. *)
LEMMA PutIsAnAct ==
    ASSUME TablesInv, NEW t \in Transactions, Under(tx[t]), tx[t].route # "putCategory",
           NEW s \in Scenarios, NEW c \in Slugs, NEW l \in Labels,
           tx[t].hold = "written" => tx[t].c = c,
           scenario' = [scenario EXCEPT ![s] = Tables!Row(c, l, FALSE)], category' = CategoryOf(t)
    PROVE  Tables!Put(s, c, l)
<1>1. tx[t] \in Transaction /\ Fits(tx[t], category, scenario)
  BY UnderWay
<1>2. CASE tx[t].hold # "written"
  BY <1>2 DEF CategoryOf, Tables!Put
<1>3. CASE tx[t].hold = "written"
  <2> DEFINE name == IF tx[t].label = Unsaid THEN SlugAsLabel ELSE tx[t].label
  <2>1. category[c] = Absent
    BY <1>1, <1>3 DEF Fits
  <2>2. name \in Labels /\ category' = [category EXCEPT ![c] = name]
    BY <1>1, <1>3, CategoriesAssumption DEF CategoryOf, Transaction, CategoriesAssumption
  <2> QED
    BY <2>1, <2>2 DEF Tables!Put
<1> QED
  BY <1>2, <1>3

LEMMA WriteFieldsIsAnAct ==
    ASSUME TablesInv, NEW t \in Transactions, WriteFields(t) PROVE Tables!Next
<1> DEFINE s == tx[t].s
           c == IF tx[t].c = Unsaid THEN scenario[s].category ELSE tx[t].c
           l == IF tx[t].label = Unsaid THEN scenario[s].label ELSE tx[t].label
<1>1. PICK route \in {"put", "putByAuthor"} : At(t, route, "checked")
  BY DEF WriteFields
<1>2. /\ Under(tx[t]) /\ tx[t] \in Transaction /\ tx[t].route = route /\ s \in Scenarios
      /\ Fits(tx[t], category, scenario)
  BY <1>1, LastStatement DEF Routes
<1>3. scenario' = [scenario EXCEPT ![s] = Tables!Row(c, l, FALSE)] /\ category' = CategoryOf(t)
  BY DEF WriteFields, Tables!Row
<1>4. scenario[s] # Absent
  BY <1>1, <1>2 DEF Fits, At
<1>5. scenario[s].category \in Slugs /\ scenario[s].label \in Labels
  BY <1>2, <1>4, ScenarioFacts
<1>6. c \in Slugs /\ l \in Labels
  BY <1>2, <1>5 DEF Transaction
<1>7. tx[t].hold = "written" => tx[t].c = c
  BY <1>2, CategoriesAssumption DEF Fits, CategoriesAssumption
<1> HIDE DEF c, l, s
<1>8. Tables!Put(s, c, l)
  BY <1>1, <1>2, <1>3, <1>6, <1>7, PutIsAnAct
<1> QED
  BY <1>2, <1>6, <1>8 DEF Tables!Next

LEMMA InsertScenarioIsAnAct ==
    ASSUME TablesInv, NEW t \in Transactions, InsertScenario(t) PROVE Tables!Next
<1> DEFINE s == tx[t].s
           c == tx[t].c
           l == IF tx[t].label = Unsaid THEN category[c] ELSE tx[t].label
<1>1. PICK route \in {"create", "createByAuthor", "fromArchive"}, step \in {"begun", "checked"} :
           /\ At(t, route, step)
           /\ route = "createByAuthor" => step = "begun"
  BY DEF InsertScenario
<1>2. /\ Under(tx[t]) /\ tx[t] \in Transaction /\ tx[t].route = route /\ s \in Scenarios
      /\ c \in Slugs /\ Fits(tx[t], category, scenario)
  BY <1>1, LastStatement DEF Routes
<1>3. scenario' = [scenario EXCEPT ![s] = Tables!Row(c, l, FALSE)] /\ category' = CategoryOf(t)
  BY DEF InsertScenario, Tables!Row
<1>4. route # "createByAuthor" => tx[t].label \in Labels
  BY <1>1, <1>2 DEF Fits
<1>5. route = "createByAuthor" => category[c] # Absent
  BY <1>1 DEF InsertScenario, Proceeds, IsRefused
<1>6. category[c] \in Labels \cup {Absent}
  BY <1>2 DEF TablesInv, TablesTypeOK
<1>7. l \in Labels
  BY <1>2, <1>4, <1>5, <1>6, CategoriesAssumption DEF Transaction, CategoriesAssumption
<1> HIDE DEF l
<1>8. Tables!Put(s, c, l)
  BY <1>1, <1>2, <1>3, <1>7, PutIsAnAct
<1> QED
  BY <1>2, <1>7, <1>8 DEF Tables!Next

LEMMA SetCategoryIsAnAct ==
    ASSUME TablesInv, NEW t \in Transactions, SetCategory(t) PROVE Tables!Next
<1>1. At(t, "setCategory", "locked") /\ ~IsRefused(t)
  BY DEF SetCategory, Proceeds
<1>2. /\ tx[t].s \in Scenarios /\ tx[t].c \in Slugs /\ Fits(tx[t], category, scenario)
      /\ Under(tx[t]) /\ tx[t].route = "setCategory" /\ tx[t].step = "locked"
  BY <1>1, LastStatement DEF Routes, At
<1>3. tx[t].label = category[tx[t].c] /\ category[tx[t].c] # Absent
  BY <1>2 DEF Fits
<1>4. scenario[tx[t].s] # Absent
  BY <1>1 DEF IsRefused
<1>5. Tables!Move(tx[t].s, tx[t].c)
  BY <1>3, <1>4 DEF SetCategory, Tables!Move, Tables!Row, Tables!IsThere
<1> QED
  BY <1>2, <1>5 DEF Tables!Next

LEMMA DeleteScenarioIsAnAct ==
    ASSUME TablesInv, NEW t \in Transactions, DeleteScenario(t) PROVE Tables!Next
<1>1. At(t, "deleteScenario", "begun") /\ ~IsRefused(t)
  BY DEF DeleteScenario, Proceeds
<1>2. tx[t].s \in Scenarios
  BY <1>1, LastStatement DEF Routes
<1>3. Tables!Drop(tx[t].s)
  BY <1>1 DEF DeleteScenario, IsRefused, Tables!Drop, Tables!IsThere
<1> QED
  BY <1>2, <1>3 DEF Tables!Next

LEMMA AddCategoryIsAnAct ==
    ASSUME TablesInv, NEW t \in Transactions, AddCategory(t) PROVE Tables!Next
<1>1. At(t, "addCategory", "begun") /\ ~IsRefused(t)
  BY DEF AddCategory, Proceeds
<1>2. tx[t].c \in Slugs /\ tx[t].label \in Labels
  BY <1>1, LastStatement DEF Routes, Fits
<1>3. Tables!Add(tx[t].c, tx[t].label)
  BY <1>1 DEF AddCategory, IsRefused, Tables!Add
<1> QED
  BY <1>2, <1>3 DEF Tables!Next

LEMMA RelabelScenariosIsAnAct ==
    ASSUME TablesInv, NEW t \in Transactions, RelabelScenarios(t) PROVE Tables!Next
<1> DEFINE c == tx[t].c
           l == tx[t].label
<1>1. At(t, "putCategory", "locked")
  BY DEF RelabelScenarios
<1>2. /\ c \in Slugs /\ Fits(tx[t], category, scenario)
      /\ Under(tx[t]) /\ tx[t].route = "putCategory" /\ tx[t].step = "locked"
  BY <1>1, LastStatement DEF Routes, At
<1>3. tx[t].hold = "written" /\ l \in Labels /\ category[c] # Absent
  BY <1>2 DEF Fits
<1>4. category' = [category EXCEPT ![c] = l]
  BY <1>3, CategoriesAssumption DEF RelabelScenarios, CategoryOf, CategoriesAssumption
<1>5. scenario' = [s \in Scenarios |-> IF scenario[s] # Absent /\ scenario[s].category = c
                                       THEN [scenario[s] EXCEPT !.label = l] ELSE scenario[s]]
  BY DEF RelabelScenarios, InCategory
<1> HIDE DEF c, l
<1>6. ASSUME NEW s \in Scenarios, scenario[s] # Absent, scenario[s].category = c
      PROVE  [scenario[s] EXCEPT !.label = l] = Tables!Row(c, l, scenario[s].locked)
  <2>1. scenario[s] \in ScenarioRow
    BY <1>6, ScenarioFacts
  <2> QED
    BY <1>6, <2>1 DEF ScenarioRow, Tables!Row
<1>7. scenario' = [s \in Scenarios |-> IF scenario[s] # Absent /\ scenario[s].category = c
                                       THEN Tables!Row(c, l, scenario[s].locked) ELSE scenario[s]]
  BY <1>5, <1>6, Zenon
<1>8. Tables!Rename(c, l)
  BY <1>3, <1>4, <1>7 DEF Tables!Rename, Tables!IsThere
<1> QED
  BY <1>2, <1>3, <1>8 DEF Tables!Next

LEMMA DeleteCategoryIsAnAct ==
    ASSUME TablesInv, NEW t \in Transactions, DeleteCategory(t) PROVE Tables!Next
<1>1. At(t, "deleteCategory", "checked")
  BY DEF DeleteCategory
<1>2. /\ tx[t].c \in Slugs /\ Fits(tx[t], category, scenario)
      /\ Under(tx[t]) /\ tx[t].route = "deleteCategory" /\ tx[t].step = "checked"
  BY <1>1, LastStatement DEF Routes, At
<1>3. /\ category[tx[t].c] # Absent
      /\ \A z \in Scenarios : scenario[z] # Absent /\ scenario[z].locked => scenario[z].category # tx[t].c
  BY <1>2 DEF Fits
<1>4. Tables!Delete(tx[t].c)
  BY <1>3 DEF DeleteCategory, Tables!Delete, Tables!IsThere
<1> QED
  BY <1>2, <1>4 DEF Tables!Next

LEMMA TablesStepImplements == TablesInv /\ [TablesNext]_tablesVars => [Tables!Next]_(Tables!vars)
<1> SUFFICES ASSUME TablesInv, [TablesNext]_tablesVars, ~UNCHANGED <<category, scenario>> PROVE Tables!Next
  BY DEF Tables!vars
<1>1. PICK t \in Transactions :
         \/ WriteFields(t) \/ InsertScenario(t) \/ SetCategory(t) \/ DeleteScenario(t)
         \/ AddCategory(t) \/ RelabelScenarios(t) \/ DeleteCategory(t)
  BY DEF TablesNext, Step, tablesVars, Begin, Fail, Refuse, DeadlockAbort, LockRow, EnsureCategory,
         CategoryExists, ShareCategory, RenameCategory, LockCategory, CountScenarios
<1> QED
  BY <1>1, WriteFieldsIsAnAct, InsertScenarioIsAnAct, SetCategoryIsAnAct, DeleteScenarioIsAnAct,
     AddCategoryIsAnAct, RelabelScenariosIsAnAct, DeleteCategoryIsAnAct

(***************************************************************************)
(* The routes of categories.js, catalog-admin.js, archives.js and bulk.js, *)
(* interleaved statement by statement, commit what some order of them one  *)
(* at a time would have done to the tables it found.                       *)
(***************************************************************************)
THEOREM RoutesAreAtomic == TablesSpec => OneRouteAtATime
<1> QED
  BY TablesInitImplements, TablesStepImplements, TablesInvariance, PTL
     DEF TablesSpec, OneRouteAtATime, Tables!Spec

=============================================================================
