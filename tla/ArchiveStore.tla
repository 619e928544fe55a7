---------------------------- MODULE ArchiveStore ----------------------------
(***************************************************************************)
(* The content-addressed object store (storage.js) and its garbage         *)
(* collection (routes/storage-admin.js), step by step: file system calls   *)
(* and queries of uploads and sweeps interleave freely.  Archives and      *)
(* cover images live in stores of the same kind; an object here is either, *)
(* and a row is whatever refers to one: a version row or a scenario's      *)
(* cover.                                                                  *)
(*                                                                         *)
(* What an upload and a sweep may take is the one assumption on time the   *)
(* code rests on ("protects the window between a commit and the UPDATE").  *)
(* GC_MIN_AGE_MS has to leave room for two uploads, not one: of two        *)
(* uploads of the same new bytes the later rename moves in the older temp  *)
(* file, and rename keeps that file's mtime.                               *)
(***************************************************************************)
EXTENDS Naturals

CONSTANTS
    Objects,      \* contents, one per SHA-256
    Rows,         \* places in the database that can refer to an object
    Uploads,      \* uploads in flight
    Sweeps,       \* calls of POST /api/admin/storage/gc in flight
    MinAge,       \* GC_MIN_AGE_MS
    UploadTime,   \* longest time from the temp file's last byte to the row
    ScanTime,     \* longest time from the reference query to the cutoff
    MaxTime,      \* bound: the model's clock stops here
    Nothing

ASSUME StoreAssumption ==
    /\ MinAge \in Nat /\ UploadTime \in Nat /\ ScanTime \in Nat /\ MaxTime \in Nat
    /\ 2 * UploadTime + ScanTime < MinAge
    /\ Nothing \notin Objects \cup 0..MaxTime

VARIABLES
    now,
    stored,    \* stored[n]: the mtime of objects/<n>, or Nothing
    row,       \* row[k]: what k refers to
    upload,
    sweep

vars == <<now, stored, row, upload, sweep>>

-----------------------------------------------------------------------------

Time == 0..MaxTime

(* vouched: when its bytes were stored, no running sweep had judged them orphans. *)
Reference == [object : Objects, vouched : BOOLEAN]

(* received: in a temp file of mtime `at`; unseen: utimes threw; committed: in objects/. *)
UploadStates == [step : {"received", "unseen", "committed"},
                 object : Objects, at : Time, vouched : BOOLEAN]

SweepStates == [step : {"queried", "scanning"},
                since : Time,                \* of the query, then of the cutoff
                referenced : SUBSET Objects,
                names : SUBSET Objects,      \* readdir's names not looked at yet
                orphans : SUBSET Objects]    \* to unlink

Idle == [step |-> "idle"]

TypeOK ==
    /\ now \in Time
    /\ stored \in [Objects -> Time \cup {Nothing}]
    /\ row \in [Rows -> Reference \cup {Nothing}]
    /\ upload \in [Uploads -> UploadStates \cup {Idle}]
    /\ sweep \in [Sweeps -> SweepStates \cup {Idle}]

Init ==
    /\ now = 0
    /\ stored = [n \in Objects |-> Nothing]
    /\ row = [k \in Rows |-> Nothing]
    /\ upload = [u \in Uploads |-> Idle]
    /\ sweep = [g \in Sweeps |-> Idle]

IsStored(n) == stored[n] # Nothing

(* Slip: IS NOT NULL is forgotten. *)
ReferencedOrNull == {IF row[k] = Nothing THEN Nothing ELSE row[k].object : k \in Rows}

Referenced == {row[k].object : k \in {r \in Rows : row[r] # Nothing}}

Judged(n) == \E g \in Sweeps : sweep[g].step = "scanning" /\ n \in sweep[g].orphans

-----------------------------------------------------------------------------
(* Uploads: storage.put, then the row *)

(* The body is in a temp file; validation follows. *)
Receive(u, n) ==
    /\ upload[u] = Idle
    /\ upload' = [upload EXCEPT ![u] =
                    [step |-> "received", object |-> n, at |-> now, vouched |-> FALSE]]
    /\ UNCHANGED <<now, stored, row, sweep>>

Committed(u) ==
    [upload EXCEPT ![u].step = "committed", ![u].vouched = ~Judged(upload[u].object)]

(* Slip: an object that is there already is left as it is. *)
TouchedAtOldAge(n) == stored

Touched(n) == [stored EXCEPT ![n] = now]

(* put: utimes is the existence check and refreshes the age; the temp file is dropped. *)
Touch(u) ==
    /\ upload[u].step = "received"
    /\ IF IsStored(upload[u].object)
       THEN /\ stored' = Touched(upload[u].object)
            /\ upload' = Committed(u)
       ELSE /\ upload' = [upload EXCEPT ![u].step = "unseen"]
            /\ UNCHANGED stored
    /\ UNCHANGED <<now, row, sweep>>

(* put, after utimes threw: rename moves the temp file in, with the temp file's mtime. *)
Rename(u) ==
    /\ upload[u].step = "unseen"
    /\ stored' = [stored EXCEPT ![upload[u].object] = upload[u].at]
    /\ upload' = Committed(u)
    /\ UNCHANGED <<now, row, sweep>>

(* The transaction writes k: a new version (one it replaces goes), or the cover of a scenario. *)
WriteRow(u, k) ==
    /\ upload[u].step = "committed"
    /\ row' = [row EXCEPT ![k] = [object |-> upload[u].object, vouched |-> upload[u].vouched]]
    /\ upload' = [upload EXCEPT ![u] = Idle]
    /\ UNCHANGED <<now, stored, sweep>>

(* Invalid, refused under the lock, the same bytes again, or the disk failed: no row. *)
EndUpload(u) ==
    /\ upload[u] # Idle
    /\ upload' = [upload EXCEPT ![u] = Idle]
    /\ UNCHANGED <<now, stored, row, sweep>>

-----------------------------------------------------------------------------
(* Rows that change without an upload *)

(* A version is removed, a scenario deleted, a cover cleared: the object stays. *)
DropRow(k) ==
    /\ row[k] # Nothing
    /\ row' = [row EXCEPT ![k] = Nothing]
    /\ UNCHANGED <<now, stored, upload, sweep>>

(* PUT imageUrl = /previews/<n>: only the form of the path is looked at. *)
PointCover(k, n) ==
    /\ row' = [row EXCEPT ![k] = [object |-> n, vouched |-> FALSE]]
    /\ UNCHANGED <<now, stored, upload, sweep>>

-----------------------------------------------------------------------------
(* A sweep: query, cutoff and readdir, stat by stat, unlink by unlink *)

QueryReferences(g) ==
    /\ sweep[g] = Idle
    /\ sweep' = [sweep EXCEPT ![g] =
                   [step |-> "queried", since |-> now, referenced |-> Referenced,
                    names |-> {}, orphans |-> {}]]
    /\ UNCHANGED <<now, stored, row, upload>>

BeginScan(g) ==
    /\ sweep[g].step = "queried"
    /\ sweep' = [sweep EXCEPT ![g].step = "scanning", ![g].since = now,
                              ![g].names = {n \in Objects : IsStored(n)}]
    /\ UNCHANGED <<now, stored, row, upload>>

(* classifyObjects: not referenced and not newer than the cutoff. *)
IsOrphan(g, n) ==
    /\ IsStored(n)
    /\ n \notin sweep[g].referenced
    /\ stored[n] + MinAge <= sweep[g].since

Classify(g, n) ==
    /\ sweep[g].step = "scanning"
    /\ n \in sweep[g].names
    /\ sweep' = [sweep EXCEPT ![g].names = @ \ {n},
                              ![g].orphans = IF IsOrphan(g, n) THEN @ \cup {n} ELSE @]
    /\ UNCHANGED <<now, stored, row, upload>>

(* deleteObjects: nothing is looked at again. *)
Unlink(g, n) ==
    /\ sweep[g].step = "scanning"
    /\ sweep[g].names = {}
    /\ n \in sweep[g].orphans
    /\ stored' = [stored EXCEPT ![n] = Nothing]
    /\ sweep' = [sweep EXCEPT ![g].orphans = @ \ {n}]
    /\ UNCHANGED <<now, row, upload>>

(* Done, a dry run, or it failed on the way. *)
EndSweep(g) ==
    /\ sweep[g] # Idle
    /\ sweep' = [sweep EXCEPT ![g] = Idle]
    /\ UNCHANGED <<now, stored, row, upload>>

-----------------------------------------------------------------------------

(* The process stops: what ran is gone, files and rows stay. *)
Restart ==
    /\ upload' = [u \in Uploads |-> Idle]
    /\ sweep' = [g \in Sweeps |-> Idle]
    /\ UNCHANGED <<now, stored, row>>

(* Time passes as far as uploads and sweeps keep to what they may take. *)
Tick ==
    /\ now < MaxTime
    /\ \A u \in Uploads : upload[u] # Idle => now < upload[u].at + UploadTime
    /\ \A g \in Sweeps : sweep[g].step = "queried" => now < sweep[g].since + ScanTime
    /\ now' = now + 1
    /\ UNCHANGED <<stored, row, upload, sweep>>

UploadNext ==
    \E u \in Uploads :
        \/ \E n \in Objects : Receive(u, n)
        \/ Touch(u) \/ Rename(u) \/ EndUpload(u)
        \/ \E k \in Rows : WriteRow(u, k)

RowNext == \E k \in Rows : DropRow(k) \/ \E n \in Objects : PointCover(k, n)

SweepNext ==
    \E g \in Sweeps :
        \/ QueryReferences(g) \/ BeginScan(g) \/ EndSweep(g)
        \/ \E n \in Objects : Classify(g, n) \/ Unlink(g, n)

Next == UploadNext \/ RowNext \/ SweepNext \/ Restart \/ Tick

Spec == Init /\ [][Next]_vars

-----------------------------------------------------------------------------
(* Correctness *)

(***************************************************************************)
(* The three rules of the sweep together - references are read before the  *)
(* ages, a young object is left alone, storing again makes an object young *)
(* - keep every object that an upload has committed or a row refers to,    *)
(* unless a sweep had judged it an orphan before those bytes were stored.  *)
(***************************************************************************)
VouchedObjectsStay ==
    /\ \A k \in Rows : row[k] # Nothing /\ row[k].vouched => IsStored(row[k].object)
    /\ \A u \in Uploads :
          upload[u].step = "committed" /\ upload[u].vouched => IsStored(upload[u].object)

(***************************************************************************)
(* storage.js 61-64: what an upload touches "must not be swept between     *)
(* this upload and its row".  A sweep that had judged it before sweeps it. *)
(***************************************************************************)
NotSweptBeforeItsRow ==
    \A u \in Uploads : upload[u].step = "committed" => IsStored(upload[u].object)

=============================================================================
