--------------------------- MODULE AppendOnlyStore ---------------------------
(***************************************************************************)
(* The append-only store (AppendOnlyStore.cpp) as KeyValueStore drives it, *)
(* one operation at a time: open and recover, append, read, compact, with  *)
(* crashes of the process at every point and with the I/O errors the code  *)
(* has error paths for.  Faults selects the errors that may happen.        *)
(*                                                                         *)
(* Everything a call does under fileMutex_ is invisible to other threads,  *)
(* so an append or a read is one step; recover and compact, which touch    *)
(* the disk several times, are one step for each of those times, because a *)
(* crash may fall between any two of them.                                 *)
(***************************************************************************)
EXTENDS Record, FiniteSets

CONSTANTS
  TTLs,          \* the TTLs clients use, in clock units; 0 stands for none
  Faults,        \* which errors may happen, a subset of FaultKinds
  MaxTime,       \* bound: the clock stops here
  MaxFileBytes,  \* bound: no append beyond this file size
  MaxTorn,       \* bound: cut-short writes that an I/O error leaves in the file
  MaxCrashes     \* bound: crashes of the process

FaultKinds == {
  "append",   \* write() fails or is cut short while a record is appended
  "read",     \* read() of a header, a key or a value fails during recover
  "resize",   \* resize_file fails
  "tmp",      \* creating or writing the compaction file fails
  "rename",   \* renaming the compaction file fails
  "reopen",   \* opening the data file again fails after a truncation or a failed rename
  "install",  \* opening the compacted data file fails
  "size",     \* the medium alters a length field of a stored record
  "payload"}  \* the medium alters other bytes of a stored record

ASSUME AppendOnlyStoreAssumption ==
  /\ TTLs \subseteq Nat
  /\ Faults \subseteq FaultKinds
  /\ MaxTime \in Nat \ {0}
  /\ MaxFileBytes \in Nat
  /\ MaxTorn \in Nat
  /\ MaxCrashes \in Nat

VARIABLES
  file,      \* the data file
  tmp,       \* the file dataPath_ + ".compact.tmp", or None
  stream,    \* file_.is_open(): "open" or "closed"
  pending,   \* bytes a failed write left in the buffer of file_, or None
  phase,     \* how far the running operation of the engine is
  scan,      \* locals of recover()
  index,     \* KeyValueStore::index_
  todo,      \* keys whose record compact() has still to write
  live,      \* liveRecords of compact(), by key
  newIndex,  \* state.index of compact()
  now,       \* the system clock
  crashes,   \* number of crashes so far
  allowed    \* history: for every key, the results a restart may show

vars == <<file, tmp, stream, pending, phase, scan, index, todo, live, newIndex,
          now, crashes, allowed>>

disk == <<file, tmp>>
job == <<todo, live, newIndex>>
aux == <<now, crashes>>

Phases == {"down",        \* not open: before open(), after close() or a crash
           "recovering",  \* in the loop of recover()
           "truncating",  \* recover() has found an incomplete tail
           "failed",      \* not open: recover() returned CORRUPTION or IO_ERROR
           "up",          \* open, no operation running
           "compacting",  \* compact() is writing the temporary file
           "renamed"}     \* compact() has replaced the data file

NoIndex == [k \in Keys |-> None]
NoScan == [pos |-> 0, total |-> 0, nowMs |-> 0, unreadable |-> FALSE,
           index |-> NoIndex]

(* What a client knows of a key: its value and expiry time, or None. *)
Entry == [value: Values, expiresAtMs: Nat] \cup {None}

Index == [Keys -> RecordMetadata \cup {None}]

Pending == [rec: Record, len: Nat]

TypeOK ==
  /\ file \in File
  /\ tmp \in File \cup {None}
  /\ stream \in {"open", "closed"}
  /\ pending \in Pending \cup {None}
  /\ phase \in Phases
  /\ scan \in [pos: Nat, total: Nat, nowMs: Nat, unreadable: BOOLEAN, index: Index]
  /\ index \in Index
  /\ todo \in SUBSET Keys
  /\ live \in [Keys -> Record \cup {None}]
  /\ newIndex \in Index
  /\ now \in Nat
  /\ crashes \in Nat
  /\ allowed \in [Keys -> SUBSET Entry]

Init ==
  /\ file = EmptyFile
  /\ tmp = None
  /\ stream = "closed"
  /\ pending = None
  /\ phase = "down"
  /\ scan = NoScan
  /\ index = NoIndex
  /\ todo = {}
  /\ live = NoIndex
  /\ newIndex = NoIndex
  /\ now = 1
  /\ crashes = 0
  /\ allowed = [k \in Keys |-> {None}]

-----------------------------------------------------------------------------
(***************************************************************************)
(* The buffer of file_.  A write that fails leaves what it was given in    *)
(* the buffer of the stream, whatever part of it reached the file; the     *)
(* next seek (every append, read and recover starts with one) and close()  *)
(* write the buffer out again.  A record longer than the buffer leaves its *)
(* header and key there, a shorter one the whole record.                   *)
(***************************************************************************)

\* The data file once the buffer has been written out.
Flushed ==
  IF pending = None THEN file ELSE WriteBytes(file, pending.rec, pending.len)

\* Bounds on what failing writes leave behind.
WithinBounds(f) ==
  /\ f.size <= MaxFileBytes
  /\ Cardinality({c \in f.chunks : ~Whole(c)}) <= MaxTorn

\* Writing the buffer out fails: the seek sets failbit and the call gives up.
FlushFails ==
  /\ "append" \in Faults
  /\ pending # None
  /\ \E m \in 0..(pending.len - 1) : file' = WriteBytes(file, pending.rec, m)
  /\ WithinBounds(file')
  /\ UNCHANGED pending

\* The files file_.close() may leave behind: it discards the buffer.
ClosedFiles ==
  {Flushed} \cup
  (IF "append" \in Faults /\ pending # None
   THEN {WriteBytes(file, pending.rec, m) : m \in 0..(pending.len - 1)}
   ELSE {})

\* appendRecordLocked, writeRecord and flush succeed.
AppendOk(r) ==
  /\ Flushed.size + RecordBytes(r) <= MaxFileBytes
  /\ file' = WriteBytes(Flushed, r, RecordBytes(r))
  /\ pending' = None
  /\ stream' = "open"

\* They return IO_ERROR.
AppendFails(r) ==
  /\ "append" \in Faults
  /\ stream' = "open"
  /\ \/ FlushFails
     \/ /\ \E m \in 0..(RecordBytes(r) - 1) : file' = WriteBytes(Flushed, r, m)
        /\ WithinBounds(file')
        /\ \E n \in {kRecordHeaderSize + KeySize[r.key], RecordBytes(r)} :
             pending' = [rec |-> r, len |-> n]

\* The process dies while it appends: some prefix of the record is on disk.
AppendTorn(r) ==
  /\ Flushed.size + RecordBytes(r) <= MaxFileBytes
  /\ \E m \in 0..RecordBytes(r) : file' = WriteBytes(Flushed, r, m)

\* Everything the process kept in memory is gone.
ProcessDies ==
  /\ crashes < MaxCrashes
  /\ crashes' = crashes + 1
  /\ phase' = "down"
  /\ stream' = "closed"
  /\ pending' = None
  /\ scan' = NoScan
  /\ index' = NoIndex
  /\ todo' = {}
  /\ live' = NoIndex
  /\ newIndex' = NoIndex

Crash ==
  /\ ProcessDies
  /\ UNCHANGED <<file, tmp, now, allowed>>

-----------------------------------------------------------------------------
(* KeyValueStore::open, AppendOnlyStore::open and recover. *)

\* Up to the loop.  The file size is taken before the seek to the beginning,
\* which writes a pending buffer out, or fails and makes the stream unreadable.
Open ==
  /\ phase \in {"down", "failed"}
  /\ phase' = "recovering"
  /\ stream' = "open"
  /\ \/ /\ file' = Flushed
        /\ pending' = None
        /\ scan' = [NoScan EXCEPT !.total = file.size, !.nowMs = now]
     \/ /\ FlushFails
        /\ scan' = [NoScan EXCEPT !.total = file.size, !.nowMs = now,
                                  !.unreadable = TRUE]
  /\ UNCHANGED <<tmp, index, job, aux, allowed>>

\* Mutant: an expired record is skipped instead of erasing its key.
ReplaySkipsExpired(idx, c, nowMs) ==
  IF c.rec.operation = "Set" /\ isExpired(c.rec.expiresAtMs, nowMs)
  THEN idx
  ELSE [idx EXCEPT ![c.rec.key] = IF c.rec.operation = "Delete"
                                  THEN None ELSE Metadata(c.off, c.rec)]

\* The index recover() has after the valid record of chunk c.
Replay(idx, c, nowMs) ==
  [idx EXCEPT ![c.rec.key] =
     IF c.rec.operation = "Delete" \/ isExpired(c.rec.expiresAtMs, nowMs)
     THEN None
     ELSE Metadata(c.off, c.rec)]

\* Mutant: a record that ends the file is taken for an incomplete one.
LooksTruncatedOffByOne(c, remaining) ==
  \/ remaining < kRecordHeaderSize
  \/ c.len < kRecordHeaderSize
  \/ c.damage = "size"
  \/ RecordBytes(c.rec) >= remaining

\* The remaining bytes at chunk c look like the beginning of a record that was
\* never finished: no room for a header, or for what the header announces.
\* A header that is itself incomplete, or whose length fields were altered,
\* may announce anything.
LooksTruncated(c, remaining) ==
  \/ remaining < kRecordHeaderSize
  \/ c.len < kRecordHeaderSize
  \/ c.damage = "size"
  \/ RecordBytes(c.rec) > remaining

\* parseHeader or the checksum refuses the bytes at chunk c.
LooksCorrupt(c, remaining) ==
  /\ ~Valid(c)
  /\ remaining >= kRecordHeaderSize
  /\ \/ c.len < kRecordHeaderSize
     \/ c.damage # "none"
     \/ RecordBytes(c.rec) <= remaining

\* One iteration of the loop that reads a valid record.
RecoverRecord ==
  /\ phase = "recovering"
  /\ scan.pos < scan.total
  /\ ~scan.unreadable
  /\ \E c \in file.chunks :
       /\ c.off = scan.pos
       /\ Valid(c)
       /\ RecordBytes(c.rec) <= scan.total - scan.pos
       /\ scan' = [scan EXCEPT !.pos = @ + RecordBytes(c.rec),
                               !.index = Replay(@, c, scan.nowMs)]
  /\ UNCHANGED <<disk, stream, pending, phase, index, job, aux, allowed>>

\* The iteration that leaves the loop with truncatedBytes > 0: the rest of the
\* file is no complete record, or the header cannot be read.
RecoverTail ==
  /\ phase = "recovering"
  /\ scan.pos < scan.total
  /\ \/ scan.unreadable
     \/ "read" \in Faults
     \/ \E c \in file.chunks :
          /\ c.off = scan.pos
          /\ LooksTruncated(c, scan.total - scan.pos)
  /\ phase' = "truncating"
  /\ UNCHANGED <<disk, stream, pending, scan, index, job, aux, allowed>>

\* The iteration that returns CORRUPTION.
RecoverCorruption ==
  /\ phase = "recovering"
  /\ scan.pos < scan.total
  /\ ~scan.unreadable
  /\ \E c \in file.chunks :
       /\ c.off = scan.pos
       /\ LooksCorrupt(c, scan.total - scan.pos)
  /\ phase' = "failed"
  /\ scan' = NoScan
  /\ UNCHANGED <<disk, stream, pending, index, job, aux, allowed>>

\* The iteration that returns IO_ERROR: the header announces a record that fits, and
\* its key or its value cannot be read.
RecoverReadFails ==
  /\ "read" \in Faults
  /\ phase = "recovering"
  /\ scan.pos < scan.total
  /\ ~scan.unreadable
  /\ \E c \in file.chunks :
       /\ c.off = scan.pos
       /\ RecordBytes(c.rec) <= scan.total - scan.pos
  /\ phase' = "failed"
  /\ scan' = NoScan
  /\ UNCHANGED <<disk, stream, pending, index, job, aux, allowed>>

\* open() succeeds with the index recover() has built.
OpenSucceeds ==
  /\ index' = scan.index
  /\ scan' = NoScan
  /\ phase' = "up"
  /\ stream' = "open"

\* The scan reached the end of the file.
RecoverDone ==
  /\ phase = "recovering"
  /\ scan.pos >= scan.total
  /\ OpenSucceeds
  /\ UNCHANGED <<disk, pending, job, aux, allowed>>

\* Mutant: the incomplete tail stays in the file.
TruncateTailNoResize ==
  /\ phase = "truncating"
  /\ pending' = None
  /\ OpenSucceeds
  /\ UNCHANGED <<disk, job, aux, allowed>>

\* Mutant: open() reports the incomplete tail instead of cutting it off.
TruncateTailRefuses ==
  /\ phase = "truncating"
  /\ phase' = "down"
  /\ stream' = "closed"
  /\ pending' = None
  /\ scan' = NoScan
  /\ UNCHANGED <<disk, index, job, aux, allowed>>

\* The incomplete tail is cut off and the file opened again.
TruncateTail ==
  /\ phase = "truncating"
  /\ file' = Resize(file, scan.pos)
  /\ pending' = None
  /\ OpenSucceeds
  /\ UNCHANGED <<tmp, job, aux, allowed>>

\* resize_file, or opening the file again, fails: open() returns IO_ERROR.
TruncateFails ==
  /\ phase = "truncating"
  /\ \/ "resize" \in Faults /\ file' \in ClosedFiles
     \/ "reopen" \in Faults /\ file' = Resize(file, scan.pos)
  /\ stream' = "closed"
  /\ pending' = None
  /\ phase' = "down"
  /\ scan' = NoScan
  /\ UNCHANGED <<tmp, index, job, aux, allowed>>

\* KeyValueStore::close leaves the storage and the index as they are.
Close ==
  /\ phase = "up"
  /\ phase' = "down"
  /\ UNCHANGED <<disk, stream, pending, scan, index, job, aux, allowed>>

\* The destructors close the store and file_; the memory is released.
Destroy ==
  /\ phase \in {"up", "down", "failed"}
  /\ stream = "open"
  /\ file' \in ClosedFiles
  /\ phase' = "down"
  /\ stream' = "closed"
  /\ pending' = None
  /\ index' = NoIndex
  /\ UNCHANGED <<tmp, scan, job, aux, allowed>>

-----------------------------------------------------------------------------
(* KeyValueStore::set, get and remove, and expiry. *)

ExpiryOf(ttl) == IF ttl = 0 THEN 0 ELSE now + ttl

RecordFor(k, v, ttl) == SetRecord(k, v, ValueSize[v], ExpiryOf(ttl))

EntryOf(r) ==
  IF r.operation = "Set"
  THEN [value |-> r.value, expiresAtMs |-> r.expiresAtMs]
  ELSE None

\* An acknowledged write is the only result left; one that returned an error,
\* or never returned, may or may not be found later.
Acknowledge(r) == allowed' = [allowed EXCEPT ![r.key] = {EntryOf(r)}]
LeaveOpen(r) == allowed' = [allowed EXCEPT ![r.key] = @ \cup {EntryOf(r)}]

\* Mutant: the offset is taken before the seek writes the buffer out.
SetOffsetBeforeSeek(k, v, ttl) ==
  LET r == RecordFor(k, v, ttl) IN
  /\ phase = "up"
  /\ AppendOk(r)
  /\ index' = [index EXCEPT ![k] = Metadata(file.size, r)]
  /\ Acknowledge(r)
  /\ UNCHANGED <<tmp, phase, scan, job, aux>>

Set(k, v, ttl) ==
  LET r == RecordFor(k, v, ttl) IN
  /\ phase = "up"
  /\ AppendOk(r)
  /\ index' = [index EXCEPT ![k] = Metadata(Flushed.size, r)]
  /\ Acknowledge(r)
  /\ UNCHANGED <<tmp, phase, scan, job, aux>>

SetFails(k, v, ttl) ==
  LET r == RecordFor(k, v, ttl) IN
  /\ phase = "up"
  /\ AppendFails(r)
  /\ LeaveOpen(r)
  /\ UNCHANGED <<tmp, phase, scan, index, job, aux>>

SetCrash(k, v, ttl) ==
  LET r == RecordFor(k, v, ttl) IN
  /\ phase = "up"
  /\ AppendTorn(r)
  /\ LeaveOpen(r)
  /\ ProcessDies
  /\ UNCHANGED <<tmp, now>>

\* The index holds k and, by the clock, k has not expired.
Present(k) == index[k] # None /\ ~isExpired(index[k].expiresAtMs, now)

Remove(k) ==
  /\ phase = "up"
  /\ Present(k)
  /\ AppendOk(DeleteRecord(k))
  /\ index' = [index EXCEPT ![k] = None]
  /\ Acknowledge(DeleteRecord(k))
  /\ UNCHANGED <<tmp, phase, scan, job, aux>>

RemoveFails(k) ==
  /\ phase = "up"
  /\ Present(k)
  /\ AppendFails(DeleteRecord(k))
  /\ LeaveOpen(DeleteRecord(k))
  /\ UNCHANGED <<tmp, phase, scan, index, job, aux>>

RemoveCrash(k) ==
  /\ phase = "up"
  /\ Present(k)
  /\ AppendTorn(DeleteRecord(k))
  /\ LeaveOpen(DeleteRecord(k))
  /\ ProcessDies
  /\ UNCHANGED <<tmp, now>>

\* readValue for a value that is not cached: its seek writes a pending buffer
\* out, or fails with it.  The file is not changed otherwise.
ReadValue(k) ==
  /\ phase = "up"
  /\ Present(k)
  /\ stream' = "open"
  /\ \/ file' = Flushed /\ pending' = None
     \/ FlushFails
  /\ UNCHANGED <<tmp, phase, scan, index, job, aux, allowed>>

\* get and remove of an expired key drop its index entry; no tombstone is
\* appended for it.
EraseExpired(k) ==
  /\ phase = "up"
  /\ index[k] # None
  /\ isExpired(index[k].expiresAtMs, now)
  /\ index' = [index EXCEPT ![k] = None]
  /\ UNCHANGED <<disk, stream, pending, phase, scan, job, aux, allowed>>

\* The index without its expired entries.
Unexpired == [k \in Keys |-> IF Present(k) THEN index[k] ELSE None]

\* cleanupExpired.
CleanupExpired ==
  /\ phase = "up"
  /\ index' = Unexpired
  /\ UNCHANGED <<disk, stream, pending, phase, scan, job, aux, allowed>>

-----------------------------------------------------------------------------
(* KeyValueStore::compact and AppendOnlyStore::compact. *)

LiveKeys == {k \in Keys : Present(k)}

\* Mutant: the expiry time is not carried over.
LiveRecordNoExpiry(f, k) ==
  SetRecord(k, ValueAt(f, index[k]), index[k].valueSize, 0)

\* The record compact() writes for a live key: the value it has just read,
\* under the size and expiry time the index has for it.
LiveRecord(f, k) ==
  SetRecord(k, ValueAt(f, index[k]), index[k].valueSize, index[k].expiresAtMs)

\* Reading the live values writes a pending buffer out.
FileAfterReads == IF LiveKeys = {} THEN file ELSE Flushed

\* Expired entries are dropped, all live values are read, a compaction file
\* left over from an earlier attempt is removed and a new one is created.
CompactBegin ==
  /\ phase = "up"
  /\ index' = Unexpired
  /\ file' = FileAfterReads
  /\ pending' = IF LiveKeys = {} THEN pending ELSE None
  /\ \A k \in LiveKeys : ValueAt(FileAfterReads, index[k]) # None
  /\ live' = [k \in Keys |-> IF Present(k) THEN LiveRecord(FileAfterReads, k)
                                           ELSE None]
  /\ todo' = LiveKeys
  /\ newIndex' = NoIndex
  /\ tmp' = EmptyFile
  /\ stream' = "open"
  /\ phase' = "compacting"
  /\ UNCHANGED <<scan, aux, allowed>>

\* A value cannot be read, or the compaction file cannot be created: compact()
\* returns the error, and the expired entries are gone from the index.
CompactGivesUp ==
  /\ phase = "up"
  /\ index' = Unexpired
  /\ \/ LiveKeys # {} /\ FlushFails /\ UNCHANGED tmp
     \/ /\ file' = FileAfterReads
        /\ pending' = IF LiveKeys = {} THEN pending ELSE None
        /\ \/ /\ \E k \in LiveKeys : ValueAt(FileAfterReads, index[k]) = None
              /\ UNCHANGED tmp
           \/ /\ "tmp" \in Faults
              /\ tmp' = None
  /\ stream' = "open"
  /\ UNCHANGED <<phase, scan, job, aux, allowed>>

\* Mutant: the offset is not advanced in the loop.
CompactWriteOffsetStuck(k) ==
  /\ phase = "compacting"
  /\ k \in todo
  /\ tmp' = WriteBytes(tmp, live[k], RecordBytes(live[k]))
  /\ newIndex' = [newIndex EXCEPT ![k] = Metadata(0, live[k])]
  /\ todo' = todo \ {k}
  /\ UNCHANGED <<file, stream, pending, phase, scan, index, live, aux, allowed>>

\* The loop over liveRecords (the order of the keys does not matter).
CompactWrite(k) ==
  /\ phase = "compacting"
  /\ k \in todo
  /\ tmp' = WriteBytes(tmp, live[k], RecordBytes(live[k]))
  /\ newIndex' = [newIndex EXCEPT ![k] = Metadata(tmp.size, live[k])]
  /\ todo' = todo \ {k}
  /\ UNCHANGED <<file, stream, pending, phase, scan, index, live, aux, allowed>>

\* A write or the flush of the compaction file fails: it is removed.
CompactWriteFails ==
  /\ phase = "compacting"
  /\ "tmp" \in Faults
  /\ tmp' = None
  /\ phase' = "up"
  /\ todo' = {}
  /\ live' = NoIndex
  /\ newIndex' = NoIndex
  /\ UNCHANGED <<file, stream, pending, scan, index, aux, allowed>>

\* The finished compaction file takes the place of the data file.
CompactRename ==
  /\ phase = "compacting"
  /\ todo = {}
  /\ file' = tmp
  /\ tmp' = None
  /\ stream' = "closed"
  /\ pending' = None
  /\ phase' = "renamed"
  /\ UNCHANGED <<scan, index, job, aux, allowed>>

\* It does not; the compaction file stays behind.
CompactRenameFails ==
  /\ phase = "compacting"
  /\ todo = {}
  /\ "rename" \in Faults
  /\ file' \in ClosedFiles
  /\ pending' = None
  /\ stream' \in {"open"} \cup (IF "reopen" \in Faults THEN {"closed"} ELSE {})
  /\ phase' = "up"
  /\ live' = NoIndex
  /\ newIndex' = NoIndex
  /\ UNCHANGED <<tmp, scan, index, todo, aux, allowed>>

\* Mutant: the old index stays.
CompactReopenKeepsIndex ==
  /\ phase = "renamed"
  /\ stream' = "open"
  /\ phase' = "up"
  /\ live' = NoIndex
  /\ newIndex' = NoIndex
  /\ UNCHANGED <<disk, pending, scan, index, todo, aux, allowed>>

\* The data file is opened again and the new index installed.
CompactReopen ==
  /\ phase = "renamed"
  /\ stream' = "open"
  /\ index' = newIndex
  /\ phase' = "up"
  /\ live' = NoIndex
  /\ newIndex' = NoIndex
  /\ UNCHANGED <<disk, pending, scan, todo, aux, allowed>>

\* Opening it fails: compact() returns the error before the index is replaced.
CompactReopenFails ==
  /\ phase = "renamed"
  /\ "install" \in Faults
  /\ phase' = "up"
  /\ live' = NoIndex
  /\ newIndex' = NoIndex
  /\ UNCHANGED <<disk, stream, pending, scan, index, todo, aux, allowed>>

-----------------------------------------------------------------------------
(* The environment. *)

Tick ==
  /\ now < MaxTime
  /\ now' = now + 1
  /\ UNCHANGED <<disk, stream, pending, phase, scan, index, job, crashes, allowed>>

\* The medium alters one stored record of an otherwise sound file while the
\* store is not running.
BitRot ==
  /\ phase = "down"
  /\ stream = "closed"
  /\ \A c \in file.chunks : c.damage = "none"
  /\ \E c \in file.chunks, d \in {"size", "payload"} \cap Faults :
       file' = Altered(file, c, d)
  /\ UNCHANGED <<tmp, stream, pending, phase, scan, index, job, aux, allowed>>

-----------------------------------------------------------------------------

Recovery ==
  \/ Open
  \/ RecoverRecord \/ RecoverTail \/ RecoverCorruption \/ RecoverReadFails
  \/ RecoverDone
  \/ TruncateTail \/ TruncateFails

Operations ==
  \/ \E k \in Keys, v \in Values, ttl \in TTLs :
       Set(k, v, ttl) \/ SetFails(k, v, ttl) \/ SetCrash(k, v, ttl)
  \/ \E k \in Keys :
       \/ Remove(k) \/ RemoveFails(k) \/ RemoveCrash(k)
       \/ ReadValue(k) \/ EraseExpired(k)
  \/ CleanupExpired

Compaction ==
  \/ CompactBegin \/ CompactGivesUp
  \/ \E k \in Keys : CompactWrite(k)
  \/ CompactWriteFails
  \/ CompactRename \/ CompactRenameFails
  \/ CompactReopen \/ CompactReopenFails

Next ==
  \/ Recovery \/ Operations \/ Compaction
  \/ Close \/ Destroy \/ Crash
  \/ Tick \/ BitRot

Spec == Init /\ [][Next]_vars

-----------------------------------------------------------------------------
(***************************************************************************)
(* Properties.                                                             *)
(***************************************************************************)

\* What a lookup of k finds through index idx.
Answer(idx, k) ==
  IF idx[k] # None /\ ~isExpired(idx[k].expiresAtMs, now)
  THEN [value |-> ValueAt(file, idx[k]), expiresAtMs |-> idx[k].expiresAtMs]
  ELSE None

\* What get(k) answers, when it does not find the value in the cache.
Visible(k) == Answer(index, k)

\* An entry as a client sees it now: an expired one is no entry.
Live(e) ==
  IF e = None THEN None ELSE IF isExpired(e.expiresAtMs, now) THEN None ELSE e

\* An open store shows, for every key, a result its history allows: the value
\* of the last acknowledged set, nothing after an acknowledged remove or once
\* the value has expired, and the one or the other when a call failed or the
\* process died in it.  This covers set, remove, expiry, recover, the truncation
\* of the tail, compact, and a crash at any point of each.
AckedVisible ==
  phase \in {"up", "compacting"} =>
    \A k \in Keys : Visible(k) \in {Live(e) : e \in allowed[k]}

\* Every index entry of an open store designates a complete record of its own
\* key, with its own expiry time: recover, append and compact hand out offsets
\* that stay good until the index is replaced.
IndexPointsToRecord ==
  phase \in {"up", "compacting"} =>
    \A k \in Keys : index[k] # None =>
      \E c \in file.chunks :
        /\ Whole(c)
        /\ c.rec.key = k
        /\ c.rec.operation = "Set"
        /\ Metadata(c.off, c.rec) = index[k]

\* Whatever errors happen, the only step after which an index entry of an open
\* store designates no such record is the one in which compact() has replaced the
\* data file, cannot open it and returns without installing the new index.
IndexBreaksOnlyAtInstall ==
  [][IndexPointsToRecord /\ ~IndexPointsToRecord' => CompactReopenFails]_vars

\* An incomplete record is always the last thing in the file, where recover()
\* can recognise it: no append ever follows one.
TornOnlyAtTail ==
  \A c \in file.chunks : ~Whole(c) => c.off + c.len = file.size

\* Cutting the tail off in recover() never removes a complete record.
TruncationKeepsRecords ==
  [][phase = "truncating" =>
       \A c \in file.chunks : Whole(c) => c \in file'.chunks]_vars

\* The records behind an altered one survive: recover() answers CORRUPTION and does
\* not destroy the file silently.  So cutting the tail off never removes a complete
\* record that is unaltered itself.
TruncationKeepsIntactRecords ==
  [][phase = "truncating" =>
       \A c \in file.chunks : Valid(c) => c \in file'.chunks]_vars

\* The record of key k that a restart would find last.
LastOf(f, k, c) ==
  /\ c \in f.chunks
  /\ c.rec.key = k
  /\ Whole(c)
  /\ \A d \in f.chunks : d.rec.key = k /\ Whole(d) => d.off <= c.off

\* The entry a restart would find for key k.
Stored(f, k) ==
  LET last == {c \in f.chunks : LastOf(f, k, c)} IN
  IF last = {} THEN None ELSE EntryOf((CHOOSE c \in last : TRUE).rec)

\* Replacing the data file by the compaction file changes nothing a restart
\* would show.
CompactionPreserves ==
  [][phase = "compacting" /\ phase' = "renamed" =>
       \A k \in Keys : Live(Stored(file', k)) = Live(Stored(file, k))]_vars

-----------------------------------------------------------------------------
(***************************************************************************)
(* The store as a DurableMap.  The map is what a restart would show of the *)
(* file; while compact() has replaced the file and not yet the index, and  *)
(* nobody can get in, the index that answers is the one it will install.   *)
(***************************************************************************)

Opened == phase \in {"up", "compacting", "renamed"}

Db == [k \in Keys |-> Live(Stored(file, k))]

View ==
  [k \in Keys |->
     IF Opened THEN Answer(IF phase = "renamed" THEN newIndex ELSE index, k) ELSE None]

Durable == INSTANCE DurableMap WITH up <- Opened, db <- Db, view <- View

\* The store is a map that outlives its process: appends, recovery, truncation
\* and compaction, with a crash after any of their steps, come to one change of
\* one key at a time, and a write cut short by a crash is decided by then: no
\* later restart, truncation or compaction loses it again or brings it back.
ImplementsDurableMap == Durable!Spec

\* Nothing but time, and the write of that name, changes the map: no restart, no
\* crash outside a write, no compaction and no expiry found by get, remove or the
\* cleaner does, whatever it does to the file and to the index.
OnlyWritesChangeTheMap ==
  [][Db' # Db =>
       \/ Tick
       \/ \E k \in Keys, v \in Values, ttl \in TTLs :
            /\ Set(k, v, ttl) \/ SetCrash(k, v, ttl)
            /\ Db' = [Db EXCEPT ![k] = EntryOf(RecordFor(k, v, ttl))]
       \/ \E k \in Keys :
            /\ Remove(k) \/ RemoveCrash(k)
            /\ Db' = [Db EXCEPT ![k] = None]]_vars

\* The steps of open() and recover(), and of restarting the process, are not
\* put off for ever.
FairSpec == Spec /\ WF_vars(Recovery)

\* A store that is down comes up again, whatever a crash has left in the file.
Restartable == phase = "down" ~> phase = "up"

=============================================================================
