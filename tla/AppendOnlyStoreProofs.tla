------------------------ MODULE AppendOnlyStoreProofs ------------------------
(***************************************************************************)
(* Proofs about AppendOnlyStore, for every set of keys and values, every   *)
(* size of header, keys and values, every TTL and every bound.             *)
(***************************************************************************)
EXTENDS AppendOnlyStoreInv, TLAPS

-----------------------------------------------------------------------------
(* Types of the operators of module Record. *)

\* A record takes a positive number of bytes, at least its header and key.
LEMMA RecordBytesType ==
  ASSUME NEW r \in Record
  PROVE  /\ RecordBytes(r) \in Nat \ {0}
         /\ RecordBytes(r) >= kRecordHeaderSize
         /\ kRecordHeaderSize \in Nat \ {0}
         /\ KeySize[r.key] \in Nat \ {0}
BY RecordAssumption DEF Record, RecordBytes

\* The metadata writeRecord and recover hand out is metadata.
LEMMA MetadataType ==
  ASSUME NEW off \in Nat, NEW r \in Record
  PROVE  Metadata(off, r) \in RecordMetadata
<1>1. kRecordHeaderSize \in Nat /\ KeySize[r.key] \in Nat
  BY RecordAssumption DEF Record
<1>2. r.valueSize \in Nat /\ r.expiresAtMs \in Nat
  BY DEF Record
<1> QED BY <1>1, <1>2 DEF Metadata, RecordMetadata

\* Writing part of a record at the end of a file leaves a file.
LEMMA WriteBytesType ==
  ASSUME NEW f \in File, NEW r \in Record, NEW n \in Nat
  PROVE  WriteBytes(f, r, n) \in File
<1>1. CASE n = 0
  BY <1>1 DEF WriteBytes
<1>2. CASE n # 0
  <2> DEFINE new == [off |-> f.size, len |-> n, rec |-> r, damage |-> "none"]
  <2>1. f.size \in Nat /\ f.chunks \in SUBSET Chunk
    BY DEF File
  <2>2. new \in Chunk
    BY <1>2, <2>1 DEF Chunk
  <2>3. WriteBytes(f, r, n) = [chunks |-> f.chunks \cup {new}, size |-> f.size + n]
    BY <1>2 DEF WriteBytes
  <2> HIDE DEF new
  <2> QED BY <2>1, <2>2, <2>3 DEF File
<1> QED BY <1>1, <1>2

\* Cutting a file with resize_file leaves a file.
LEMMA ResizeType ==
  ASSUME NEW f \in File, NEW pos \in Nat
  PROVE  Resize(f, pos) \in File
<1>1. {c \in f.chunks : c.off + c.len <= pos} \in SUBSET Chunk
  BY DEF File
<1> QED BY <1>1 DEF Resize, File

\* What readValue returns: a value that was written there, or no value at all.
LEMMA ValueAtType ==
  ASSUME NEW f \in File, NEW m
  PROVE  ValueAt(f, m) \in Values \cup {None, Garbage}
<1>1. CASE \E c \in f.chunks : HoldsValue(c, m)
  <2> DEFINE d == CHOOSE c \in f.chunks : HoldsValue(c, m)
  <2>1. d \in f.chunks
    BY <1>1
  <2>2. d \in Chunk
    BY <2>1 DEF File
  <2>3. d.rec.value \in Values \cup {None, Garbage}
    BY <2>2 DEF Chunk, Record
  <2> QED BY <1>1, <2>3 DEF ValueAt
<1>2. CASE ~ \E c \in f.chunks : HoldsValue(c, m)
  BY <1>2 DEF ValueAt
<1> QED BY <1>1, <1>2

\* One iteration of recover() leaves its locals well-typed.
LEMMA ScanAdvanceType ==
  ASSUME NEW s \in [pos: Nat, total: Nat, nowMs: Nat, unreadable: BOOLEAN, index: Index],
         NEW n \in Nat, NEW i \in Index
  PROVE  [s EXCEPT !.pos = @ + n, !.index = i] \in
           [pos: Nat, total: Nat, nowMs: Nat, unreadable: BOOLEAN, index: Index]
<1>1. s.pos + n \in Nat
  OBVIOUS
<1>2. [s EXCEPT !.pos = s.pos + n] \in
        [pos: Nat, total: Nat, nowMs: Nat, unreadable: BOOLEAN, index: Index]
  BY <1>1, Zenon
<1>3. [[s EXCEPT !.pos = s.pos + n] EXCEPT !.index = i] \in
        [pos: Nat, total: Nat, nowMs: Nat, unreadable: BOOLEAN, index: Index]
  BY <1>2, Zenon
<1> QED BY <1>3, Zenon

\* The file ensureOpenLocked creates is a file.
LEMMA EmptyFileType == EmptyFile \in File
BY DEF EmptyFile, File

\* The index of a store that has not been opened is an index.
LEMMA NoIndexType == /\ NoIndex \in Index
                     /\ NoIndex \in [Keys -> Record \cup {None}]
BY DEF NoIndex, Index

\* The record appendDelete writes is a record without an entry.
LEMMA DeleteRecordType ==
  ASSUME NEW k \in Keys
  PROVE  DeleteRecord(k) \in Record /\ EntryOf(DeleteRecord(k)) = None
BY DEF DeleteRecord, Record, Operation, EntryOf

\* The record appendSet or compact writes is a record.
LEMMA SetRecordType ==
  ASSUME NEW k \in Keys, NEW v \in Values \cup {None, Garbage}, NEW n \in Nat, NEW e \in Nat
  PROVE  SetRecord(k, v, n, e) \in Record
BY DEF SetRecord, Record, Operation

\* The record set() appends is a set record of its key.
LEMMA RecordForType ==
  ASSUME NEW k \in Keys, NEW v \in Values, NEW ttl \in TTLs, now \in Nat
  PROVE  /\ RecordFor(k, v, ttl) \in Record
         /\ RecordFor(k, v, ttl).key = k
         /\ RecordFor(k, v, ttl).operation = "Set"
         /\ EntryOf(RecordFor(k, v, ttl)) \in Entry
<1>1. ExpiryOf(ttl) \in Nat
  BY AppendOnlyStoreAssumption DEF ExpiryOf
<1>2. ValueSize[v] \in Nat
  BY RecordAssumption
<1>3. RecordFor(k, v, ttl) \in Record
  BY <1>1, <1>2, SetRecordType DEF RecordFor
<1> QED BY <1>1, <1>2, <1>3 DEF RecordFor, SetRecord, EntryOf, Entry

\* Writing the buffer of the stream out leaves a file, whole or in part.
LEMMA FlushType ==
  ASSUME TypeOK
  PROVE  /\ Flushed \in File
         /\ ClosedFiles \subseteq File
         /\ FlushFails => file' \in File /\ pending' = pending
<1> USE DEF TypeOK
<1>1. CASE pending = None
  BY <1>1 DEF Flushed, ClosedFiles, FlushFails
<1>2. CASE pending \in Pending
  <2>1. pending.rec \in Record /\ pending.len \in Nat
    BY <1>2 DEF Pending
  <2>2. \A m \in 0..(pending.len - 1) : WriteBytes(file, pending.rec, m) \in File
    BY <2>1, WriteBytesType
  <2>3. WriteBytes(file, pending.rec, pending.len) \in File
    BY <2>1, WriteBytesType
  <2> QED BY <2>1, <2>2, <2>3 DEF Flushed, ClosedFiles, FlushFails
<1> QED BY <1>1, <1>2

\* An append leaves a file, whether it succeeds, fails or is cut short.
LEMMA AppendType ==
  ASSUME TypeOK, NEW r \in Record
  PROVE  /\ AppendOk(r) => file' \in File /\ pending' = None /\ stream' = "open"
         /\ AppendFails(r) => file' \in File /\ pending' \in Pending \cup {None}
                              /\ stream' = "open"
         /\ AppendTorn(r) => file' \in File
<1>1. Flushed \in File /\ (FlushFails => file' \in File /\ pending' = pending)
  BY FlushType
<1>2. RecordBytes(r) \in Nat /\ kRecordHeaderSize + KeySize[r.key] \in Nat
  BY RecordBytesType
<1>3. \A m \in 0..RecordBytes(r) : WriteBytes(Flushed, r, m) \in File
  BY <1>1, <1>2, WriteBytesType
<1>4. AppendOk(r) => file' \in File /\ pending' = None /\ stream' = "open"
  BY <1>2, <1>3 DEF AppendOk
<1>5. AppendTorn(r) => file' \in File
  BY <1>2, <1>3 DEF AppendTorn
<1>6. ASSUME AppendFails(r)
      PROVE  file' \in File /\ pending' \in Pending \cup {None} /\ stream' = "open"
  <2>1. CASE FlushFails
    BY <1>1, <1>6, <2>1 DEF AppendFails, TypeOK
  <2>2. CASE ~FlushFails
    <3>1. PICK m \in 0..(RecordBytes(r) - 1) : file' = WriteBytes(Flushed, r, m)
      BY <1>6, <2>2 DEF AppendFails
    <3>2. PICK n \in {kRecordHeaderSize + KeySize[r.key], RecordBytes(r)} :
            pending' = [rec |-> r, len |-> n]
      BY <1>6, <2>2 DEF AppendFails
    <3>3. file' \in File
      BY <1>2, <1>3, <3>1
    <3>4. pending' \in Pending
      BY <1>2, <3>2 DEF Pending
    <3> QED BY <1>6, <3>3, <3>4 DEF AppendFails
  <2> QED BY <2>1, <2>2
<1> QED BY <1>4, <1>5, <1>6

-----------------------------------------------------------------------------
(* Type correctness, whatever errors happen. *)

\* A store that has never been opened is well-typed.
LEMMA TypeInit == Init => TypeInv
<1> SUFFICES ASSUME Init PROVE TypeInv
  OBVIOUS
<1>1. NoScan \in [pos: Nat, total: Nat, nowMs: Nat, unreadable: BOOLEAN, index: Index]
  BY NoIndexType DEF NoScan
<1>2. allowed \in [Keys -> SUBSET Entry]
  BY DEF Init, Entry
<1> QED BY <1>1, <1>2, EmptyFileType, NoIndexType DEF Init, TypeInv, TypeOK, Phases

\* Every step of every operation keeps the types.
LEMMA TypeNext == TypeInv /\ [Next]_vars => TypeInv'
<1> SUFFICES ASSUME TypeInv, [Next]_vars PROVE TypeInv'
  OBVIOUS
<1> USE DEF TypeInv, TypeOK, Phases, disk, job, aux
<1>0. NoScan \in [pos: Nat, total: Nat, nowMs: Nat, unreadable: BOOLEAN, index: Index]
  BY NoIndexType DEF NoScan
<1>f. /\ Flushed \in File
      /\ ClosedFiles \subseteq File
      /\ FlushFails => file' \in File /\ pending' = pending
  BY FlushType
<1>u. Unexpired \in Index
  BY DEF Unexpired, Index
<1>a. \A r \in Record : EntryOf(r) \in Entry =>
        /\ Acknowledge(r) => allowed' \in [Keys -> SUBSET Entry]
        /\ LeaveOpen(r) => allowed' \in [Keys -> SUBSET Entry]
  BY DEF Acknowledge, LeaveOpen
<1>d. \A k \in Keys : DeleteRecord(k) \in Record /\ EntryOf(DeleteRecord(k)) \in Entry
  BY DeleteRecordType DEF Entry
<1>1. CASE Open
  <2>1. scan' \in [pos: Nat, total: Nat, nowMs: Nat, unreadable: BOOLEAN, index: Index]
    BY <1>0, <1>1 DEF Open, File
  <2> QED BY <2>1, <1>1, <1>f DEF Open
<1>2. CASE RecoverRecord
  <2>1. PICK c \in file.chunks : scan' = [scan EXCEPT !.pos = @ + RecordBytes(c.rec),
                               !.index = Replay(@, c, scan.nowMs)]
    BY <1>2 DEF RecoverRecord
  <2>2. c \in Chunk
    BY DEF File
  <2>3. c.rec \in Record /\ c.off \in Nat
    BY <2>2 DEF Chunk
  <2>4. RecordBytes(c.rec) \in Nat
    BY <2>3, RecordBytesType
  <2>5. Metadata(c.off, c.rec) \in RecordMetadata
    BY <2>3, MetadataType
  <2>6. scan.index \in Index
    OBVIOUS
  <2>7. Replay(scan.index, c, scan.nowMs) \in Index
    BY <2>5, <2>6 DEF Replay, Index
  <2>8. scan' \in [pos: Nat, total: Nat, nowMs: Nat, unreadable: BOOLEAN, index: Index]
    BY <2>1, <2>4, <2>7, ScanAdvanceType
  <2> QED BY <2>8, <1>2 DEF RecoverRecord
<1>3. CASE RecoverTail
  BY <1>3 DEF RecoverTail
<1>4. CASE RecoverCorruption \/ RecoverReadFails
  BY <1>4, <1>0 DEF RecoverCorruption, RecoverReadFails
<1>5. CASE RecoverDone
  BY <1>5, <1>0 DEF RecoverDone, OpenSucceeds
<1>6. CASE TruncateTail
  BY <1>6, <1>0, ResizeType DEF TruncateTail, OpenSucceeds
<1>7. CASE TruncateFails
  <2>1. file' \in File
    BY <1>7, <1>f, ResizeType DEF TruncateFails
  <2> QED BY <1>7, <2>1, <1>0 DEF TruncateFails
<1>8. ASSUME NEW k \in Keys, NEW v \in Values, NEW ttl \in TTLs, Set(k, v, ttl)
      PROVE  TypeInv'
  <2> DEFINE r == RecordFor(k, v, ttl)
  <2>1. r \in Record /\ EntryOf(r) \in Entry
    BY RecordForType
  <2>2. file' \in File /\ pending' = None /\ stream' = "open"
    BY <1>8, <2>1, AppendType DEF Set
  <2>3. Flushed.size \in Nat
    BY <1>f DEF File
  <2>4. Metadata(Flushed.size, r) \in RecordMetadata
    BY <2>1, <2>3, MetadataType
  <2>5. index' \in Index
    BY <1>8, <2>4 DEF Set, Index
  <2>6. allowed' \in [Keys -> SUBSET Entry]
    BY <1>8, <2>1, <1>a DEF Set
  <2> QED BY <1>8, <2>2, <2>5, <2>6 DEF Set
<1>9. ASSUME NEW k \in Keys, NEW v \in Values, NEW ttl \in TTLs, SetFails(k, v, ttl)
      PROVE  TypeInv'
  <2>1. RecordFor(k, v, ttl) \in Record /\ EntryOf(RecordFor(k, v, ttl)) \in Entry
    BY RecordForType
  <2>2. file' \in File /\ pending' \in Pending \cup {None} /\ stream' = "open"
    BY <1>9, <2>1, AppendType DEF SetFails
  <2>3. allowed' \in [Keys -> SUBSET Entry]
    BY <1>9, <2>1, <1>a DEF SetFails
  <2> QED BY <1>9, <2>2, <2>3 DEF SetFails
<1>10. ASSUME NEW k \in Keys, NEW v \in Values, NEW ttl \in TTLs, SetCrash(k, v, ttl)
       PROVE  TypeInv'
  <2>1. RecordFor(k, v, ttl) \in Record /\ EntryOf(RecordFor(k, v, ttl)) \in Entry
    BY RecordForType
  <2>2. file' \in File
    BY <1>10, <2>1, AppendType DEF SetCrash
  <2>3. allowed' \in [Keys -> SUBSET Entry]
    BY <1>10, <2>1, <1>a DEF SetCrash
  <2> QED BY <1>10, <2>2, <2>3, <1>0, NoIndexType DEF SetCrash, ProcessDies
<1>11. ASSUME NEW k \in Keys, Remove(k)
       PROVE  TypeInv'
  <2>1. file' \in File /\ pending' = None /\ stream' = "open"
    BY <1>11, <1>d, AppendType DEF Remove
  <2>2. allowed' \in [Keys -> SUBSET Entry]
    BY <1>11, <1>d, <1>a DEF Remove
  <2>3. index' \in Index
    BY <1>11 DEF Remove, Index
  <2> QED BY <1>11, <2>1, <2>2, <2>3 DEF Remove
<1>12. ASSUME NEW k \in Keys, RemoveFails(k)
       PROVE  TypeInv'
  <2>1. file' \in File /\ pending' \in Pending \cup {None} /\ stream' = "open"
    BY <1>12, <1>d, AppendType DEF RemoveFails
  <2>2. allowed' \in [Keys -> SUBSET Entry]
    BY <1>12, <1>d, <1>a DEF RemoveFails
  <2> QED BY <1>12, <2>1, <2>2 DEF RemoveFails
<1>13. ASSUME NEW k \in Keys, RemoveCrash(k)
       PROVE  TypeInv'
  <2>1. file' \in File
    BY <1>13, <1>d, AppendType DEF RemoveCrash
  <2>2. allowed' \in [Keys -> SUBSET Entry]
    BY <1>13, <1>d, <1>a DEF RemoveCrash
  <2> QED BY <1>13, <2>1, <2>2, <1>0, NoIndexType DEF RemoveCrash, ProcessDies
<1>14. ASSUME NEW k \in Keys, ReadValue(k)
       PROVE  TypeInv'
  BY <1>14, <1>f DEF ReadValue
<1>15. ASSUME NEW k \in Keys, EraseExpired(k)
       PROVE  TypeInv'
  <2>1. index' \in Index
    BY <1>15 DEF EraseExpired, Index
  <2> QED BY <1>15, <2>1 DEF EraseExpired
<1>16. CASE CleanupExpired
  BY <1>16, <1>u DEF CleanupExpired
<1>17. CASE CompactBegin
  <2>1. FileAfterReads \in File
    BY <1>f DEF FileAfterReads
  <2>2. \A k \in Keys : Present(k) => LiveRecord(FileAfterReads, k) \in Record
    <3> SUFFICES ASSUME NEW k \in Keys, Present(k)
                 PROVE  LiveRecord(FileAfterReads, k) \in Record
      OBVIOUS
    <3>1. index[k] \in RecordMetadata
      BY DEF Present, Index
    <3>2. index[k].valueSize \in Nat /\ index[k].expiresAtMs \in Nat
      BY <3>1 DEF RecordMetadata
    <3>3. ValueAt(FileAfterReads, index[k]) \in Values \cup {None, Garbage}
      BY <2>1, ValueAtType
    <3> QED BY <3>2, <3>3, SetRecordType DEF LiveRecord
  <2>3. /\ live' \in [Keys -> Record \cup {None}]
        /\ \A k \in todo' : live'[k] \in Record
    BY <1>17, <2>2 DEF CompactBegin, LiveKeys
  <2>4. todo' \in SUBSET Keys
    BY <1>17 DEF CompactBegin, LiveKeys
  <2> QED BY <1>17, <1>u, <2>1, <2>3, <2>4, EmptyFileType, NoIndexType DEF CompactBegin
<1>18. CASE CompactGivesUp
  <2>1. FileAfterReads \in File
    BY <1>f DEF FileAfterReads
  <2>2. file' \in File /\ pending' \in Pending \cup {None}
    BY <1>18, <1>f, <2>1 DEF CompactGivesUp
  <2>3. tmp' \in File \cup {None}
    BY <1>18 DEF CompactGivesUp
  <2> QED BY <1>18, <1>u, <2>2, <2>3 DEF CompactGivesUp
<1>19. ASSUME NEW k \in Keys, CompactWrite(k)
       PROVE  TypeInv'
  <2>1. live[k] \in Record /\ tmp \in File /\ tmp.size \in Nat
    BY <1>19 DEF CompactWrite, File
  <2>2. tmp' \in File
    BY <1>19, <2>1, RecordBytesType, WriteBytesType DEF CompactWrite
  <2>3. Metadata(tmp.size, live[k]) \in RecordMetadata
    BY <2>1, MetadataType
  <2>4. newIndex' \in Index
    BY <1>19, <2>3 DEF CompactWrite, Index
  <2> QED BY <1>19, <2>2, <2>4 DEF CompactWrite
<1>20. CASE CompactWriteFails
  BY <1>20, NoIndexType DEF CompactWriteFails
<1>21. CASE CompactRename
  BY <1>21 DEF CompactRename
<1>22. CASE CompactRenameFails
  BY <1>22, <1>f, NoIndexType DEF CompactRenameFails
<1>23. CASE CompactReopen
  BY <1>23, NoIndexType DEF CompactReopen
<1>24. CASE CompactReopenFails
  BY <1>24, NoIndexType DEF CompactReopenFails
<1>25. CASE Close
  BY <1>25 DEF Close
<1>26. CASE Destroy
  BY <1>26, <1>f, NoIndexType DEF Destroy
<1>27. CASE Crash
  BY <1>27, <1>0, NoIndexType DEF Crash, ProcessDies
<1>28. CASE Tick
  BY <1>28 DEF Tick
<1>29. CASE BitRot
  <2>1. PICK c \in file.chunks, d \in {"size", "payload"} \cap Faults :
          file' = Altered(file, c, d)
    BY <1>29 DEF BitRot
  <2>2. c \in Chunk /\ [c EXCEPT !.damage = d] \in Chunk
    BY DEF File, Chunk
  <2>3. file' \in File
    BY <2>1, <2>2 DEF File, Altered
  <2> QED BY <1>29, <2>3 DEF BitRot
<1>30. CASE UNCHANGED vars
  BY <1>30 DEF vars
<1>31. Recovery => TypeInv'
  BY <1>1, <1>2, <1>3, <1>4, <1>5, <1>6, <1>7 DEF Recovery
<1>32. Operations => TypeInv'
  BY <1>8, <1>9, <1>10, <1>11, <1>12, <1>13, <1>14, <1>15, <1>16 DEF Operations
<1>33. Compaction => TypeInv'
  BY <1>17, <1>18, <1>19, <1>20, <1>21, <1>22, <1>23, <1>24 DEF Compaction
<1> QED BY <1>25, <1>26, <1>27, <1>28, <1>29, <1>30, <1>31, <1>32, <1>33 DEF Next

\* Every variable keeps its type, whatever errors happen: in particular the
\* offsets and sizes appendRecordLocked, recover and compact compute stay
\* natural numbers, and compact never writes the record of a key it has not
\* read.
THEOREM TypeCorrect == Spec => []TypeOK
<1>1. TypeInv => TypeOK
  BY DEF TypeInv
<1> QED BY <1>1, TypeInit, TypeNext, PTL DEF Spec

-----------------------------------------------------------------------------
(* Where the index can go wrong, whatever errors happen. *)

\* Every entry of idx designates a complete set record of its key in file f.
Points(idx, f) ==
  \A k \in Keys : idx[k] # None =>
    \E c \in f.chunks :
      /\ Whole(c)
      /\ c.rec.key = k
      /\ c.rec.operation = "Set"
      /\ Metadata(c.off, c.rec) = idx[k]

\* What recover() and compact() have built so far designates records: in the part
\* of the file that is read, in the compaction file, in the file that was renamed.
BuiltInv ==
  /\ phase \in {"recovering", "truncating"} => Points(scan.index, Resize(file, scan.pos))
  /\ phase = "compacting" =>
       /\ Points(newIndex, tmp)
       /\ \A k \in todo : live[k].key = k /\ live[k].operation = "Set"
  /\ phase = "renamed" => Points(newIndex, file)

\* A write at the end of a file removes nothing, and a complete one is there.
LEMMA WriteAdds ==
  ASSUME NEW f, NEW r, NEW n
  PROVE  /\ f.chunks \subseteq WriteBytes(f, r, n).chunks
         /\ n # 0 => [off |-> f.size, len |-> n, rec |-> r, damage |-> "none"]
                       \in WriteBytes(f, r, n).chunks
<1>1. CASE n = 0
  BY <1>1 DEF WriteBytes
<1>2. CASE n # 0
  BY <1>2 DEF WriteBytes
<1> QED BY <1>1, <1>2

\* The buffer of the stream goes to the end of the file, in whole or in part.
LEMMA FlushAdds ==
  /\ file.chunks \subseteq Flushed.chunks
  /\ \A f \in ClosedFiles : file.chunks \subseteq f.chunks
  /\ FlushFails => file.chunks \subseteq file'.chunks
<1>1. file.chunks \subseteq Flushed.chunks
  BY WriteAdds DEF Flushed
<1>2. \A f \in ClosedFiles : file.chunks \subseteq f.chunks
  BY <1>1, WriteAdds DEF ClosedFiles
<1>3. FlushFails => file.chunks \subseteq file'.chunks
  BY WriteAdds DEF FlushFails
<1> QED BY <1>1, <1>2, <1>3

\* So does an append, whether it fails or not.
LEMMA AppendAdds ==
  ASSUME NEW r \in Record
  PROVE  /\ AppendOk(r) =>
              /\ file.chunks \subseteq file'.chunks
              /\ [off |-> Flushed.size, len |-> RecordBytes(r), rec |-> r, damage |-> "none"]
                   \in file'.chunks
         /\ AppendFails(r) => file.chunks \subseteq file'.chunks
<1>1. AppendOk(r) =>
        /\ file.chunks \subseteq file'.chunks
        /\ [off |-> Flushed.size, len |-> RecordBytes(r), rec |-> r, damage |-> "none"]
             \in file'.chunks
  BY RecordBytesType, FlushAdds, WriteAdds DEF AppendOk
<1>2. ASSUME AppendFails(r) PROVE file.chunks \subseteq file'.chunks
  <2>1. CASE FlushFails
    BY <2>1, FlushAdds
  <2>2. CASE ~FlushFails
    <3>1. PICK m \in 0..(RecordBytes(r) - 1) : file' = WriteBytes(Flushed, r, m)
      BY <1>2, <2>2 DEF AppendFails
    <3> QED BY <3>1, FlushAdds, WriteAdds
  <2> QED BY <2>1, <2>2
<1> QED BY <1>1, <1>2

\* An index designates records of every file that has more of them.
LEMMA PointsMore ==
  ASSUME NEW idx, NEW f, NEW g, Points(idx, f), f.chunks \subseteq g.chunks
  PROVE  Points(idx, g)
BY DEF Points

\* A new entry designates its record.
LEMMA PointsNew ==
  ASSUME NEW idx \in Index, NEW f, NEW k \in Keys, NEW r, NEW off, NEW g,
         Points(idx, f), f.chunks \subseteq g.chunks, r.key = k, r.operation = "Set",
         [off |-> off, len |-> RecordBytes(r), rec |-> r, damage |-> "none"] \in g.chunks
  PROVE  Points([idx EXCEPT ![k] = Metadata(off, r)], g)
<1> DEFINE c == [off |-> off, len |-> RecordBytes(r), rec |-> r, damage |-> "none"]
           new == [idx EXCEPT ![k] = Metadata(off, r)]
<1>1. /\ c \in g.chunks /\ Whole(c) /\ c.rec.key = k /\ c.rec.operation = "Set"
      /\ Metadata(c.off, c.rec) = Metadata(off, r)
  BY DEF Whole
<1>2. new[k] = Metadata(off, r) /\ \A x \in Keys \ {k} : new[x] = idx[x]
  BY DEF Index
<1> HIDE DEF c, new
<1>3. Points(new, g)
  BY <1>1, <1>2 DEF Points
<1> QED BY <1>3 DEF new

\* An index without some of its entries designates no less.
LEMMA PointsFewer ==
  ASSUME NEW idx, NEW f, NEW new, Points(idx, f),
         \A k \in Keys : new[k] \in {idx[k], None}
  PROVE  Points(new, f)
BY DEF Points

\* IndexPointsToRecord says this of the index.
LEMMA IndexPoints ==
  /\ IndexPointsToRecord <=> (phase \in {"up", "compacting"} => Points(index, file))
  /\ IndexPointsToRecord' <=> (phase' \in {"up", "compacting"} => Points(index', file'))
BY DEF IndexPointsToRecord, Points, Whole, RecordBytes, Metadata

\* Nothing has been built before the first step.
LEMMA BuiltInit == Init => BuiltInv
BY DEF Init, BuiltInv

\* An iteration of recover() enters the record it has read, and no later one
\* loses it.
LEMMA BuiltRecovery ==
  ASSUME TypeInv, BuiltInv, Recovery
  PROVE  BuiltInv'
<1> USE DEF TypeInv, TypeOK, disk, job, aux
<1>1. CASE Open
  <2>1. scan'.index = NoIndex /\ phase' = "recovering"
    BY <1>1 DEF Open, NoScan
  <2>2. \A k \in Keys : NoIndex[k] = None
    BY DEF NoIndex
  <2>3. Points(scan'.index, Resize(file', scan'.pos))
    BY <2>1, <2>2 DEF Points
  <2> QED BY <2>1, <2>3 DEF BuiltInv
<1>2. CASE RecoverRecord
  <2>1. PICK c \in file.chunks :
          /\ c.off = scan.pos
          /\ Valid(c)
          /\ scan' = [scan EXCEPT !.pos = @ + RecordBytes(c.rec),
                                  !.index = Replay(@, c, scan.nowMs)]
    BY <1>2 DEF RecoverRecord
  <2>2. c.rec \in Record /\ c.rec.key \in Keys /\ c.off \in Nat
    BY DEF File, Chunk, Record
  <2>3. RecordBytes(c.rec) \in Nat /\ scan.pos \in Nat
    BY <2>2, RecordBytesType
  <2>4. scan'.pos = scan.pos + RecordBytes(c.rec)
        /\ scan'.index = Replay(scan.index, c, scan.nowMs)
    BY <2>1, Zenon
  <2> DEFINE f == Resize(file, scan.pos)
             g == Resize(file, scan.pos + RecordBytes(c.rec))
  <2>5. f.chunks \subseteq g.chunks
    <3>1. \A d \in file.chunks : d.off \in Nat /\ d.len \in Nat
      BY DEF File, Chunk
    <3> QED BY <2>3, <3>1 DEF Resize
  <2>6. c \in g.chunks
    BY <2>1, <2>2, <2>3 DEF Resize, Valid, Whole
  <2>7. Points(scan.index, g)
    BY <1>2, <2>5, PointsMore DEF BuiltInv, RecoverRecord
  <2>8. scan.index \in Index
    OBVIOUS
  <2> HIDE DEF f, g
  <2>9. Points(Replay(scan.index, c, scan.nowMs), g)
    <3> DEFINE new == Replay(scan.index, c, scan.nowMs)
    <3>1. \A k \in Keys \ {c.rec.key} : new[k] = scan.index[k]
      BY <2>8 DEF Replay, Index
    <3>2. \/ new[c.rec.key] = None
          \/ c.rec.operation = "Set" /\ new[c.rec.key] = Metadata(c.off, c.rec)
      <4>1. c.rec.operation \in {"Set", "Delete"}
        BY <2>2 DEF Record, Operation
      <4> QED BY <2>2, <2>8, <4>1 DEF Replay, Index
    <3>3. Whole(c)
      BY <2>1 DEF Valid
    <3> HIDE DEF new
    <3>4. Points(new, g)
      BY <2>2, <2>6, <2>7, <3>1, <3>2, <3>3 DEF Points
    <3> QED BY <3>4 DEF new
  <2>10. Points(scan'.index, Resize(file', scan'.pos)) /\ phase' = "recovering"
    BY <1>2, <2>4, <2>9 DEF RecoverRecord, g
  <2> QED BY <2>10 DEF BuiltInv
<1>3. CASE RecoverTail
  BY <1>3 DEF RecoverTail, BuiltInv
<1>4. CASE RecoverCorruption \/ RecoverReadFails
  BY <1>4 DEF RecoverCorruption, RecoverReadFails, BuiltInv
<1>5. CASE RecoverDone
  BY <1>5 DEF RecoverDone, OpenSucceeds, BuiltInv
<1>6. CASE TruncateTail
  BY <1>6 DEF TruncateTail, OpenSucceeds, BuiltInv
<1>7. CASE TruncateFails
  BY <1>7 DEF TruncateFails, BuiltInv
<1> QED BY <1>1, <1>2, <1>3, <1>4, <1>5, <1>6, <1>7 DEF Recovery

\* compact() writes every record where the new index will look for it.
LEMMA BuiltCompaction ==
  ASSUME TypeInv, BuiltInv, Compaction
  PROVE  BuiltInv'
<1> USE DEF TypeInv, TypeOK, disk, job, aux
<1>1. CASE CompactBegin
  <2>1. Points(newIndex', tmp') /\ phase' = "compacting"
    BY <1>1 DEF CompactBegin, Points, NoIndex
  <2>2. \A k \in todo' : live'[k].key = k /\ live'[k].operation = "Set"
    BY <1>1 DEF CompactBegin, LiveKeys, LiveRecord, SetRecord
  <2> QED BY <2>1, <2>2 DEF BuiltInv
<1>2. CASE CompactGivesUp
  BY <1>2 DEF CompactGivesUp, BuiltInv
<1>3. ASSUME NEW k \in Keys, CompactWrite(k)
      PROVE  BuiltInv'
  <2>1. /\ k \in todo /\ live[k] \in Record /\ tmp \in File
        /\ live[k].key = k /\ live[k].operation = "Set"
        /\ Points(newIndex, tmp) /\ newIndex \in Index
    BY <1>3 DEF CompactWrite, BuiltInv
  <2>2. /\ tmp' = WriteBytes(tmp, live[k], RecordBytes(live[k]))
        /\ newIndex' = [newIndex EXCEPT ![k] = Metadata(tmp.size, live[k])]
        /\ todo' = todo \ {k}
        /\ phase' = "compacting" /\ live' = live
    BY <1>3 DEF CompactWrite
  <2>3. RecordBytes(live[k]) # 0
    BY <2>1, RecordBytesType
  <2> DEFINE r == live[k]
             g == WriteBytes(tmp, r, RecordBytes(r))
  <2>a. /\ tmp.chunks \subseteq g.chunks
        /\ [off |-> tmp.size, len |-> RecordBytes(r), rec |-> r, damage |-> "none"] \in g.chunks
    BY <2>3, WriteAdds
  <2>b. r.key = k /\ r.operation = "Set"
    BY <2>1
  <2> HIDE DEF r, g
  <2>c. Points([newIndex EXCEPT ![k] = Metadata(tmp.size, r)], g)
    BY <2>1, <2>a, <2>b, PointsNew
  <2>4. Points(newIndex', tmp')
    BY <2>2, <2>c DEF r, g
  <2>5. \A x \in todo' : live'[x].key = x /\ live'[x].operation = "Set"
    BY <1>3, <2>2 DEF BuiltInv, CompactWrite
  <2> QED BY <2>2, <2>4, <2>5 DEF BuiltInv
<1>4. CASE CompactWriteFails
  BY <1>4 DEF CompactWriteFails, BuiltInv
<1>5. CASE CompactRename
  BY <1>5 DEF CompactRename, BuiltInv
<1>6. CASE CompactRenameFails
  BY <1>6 DEF CompactRenameFails, BuiltInv
<1>7. CASE CompactReopen
  BY <1>7 DEF CompactReopen, BuiltInv
<1>8. CASE CompactReopenFails
  BY <1>8 DEF CompactReopenFails, BuiltInv
<1> QED BY <1>1, <1>2, <1>3, <1>4, <1>5, <1>6, <1>7, <1>8 DEF Compaction

\* Nothing else builds an index or changes a file while one is being built.
LEMMA BuiltNext == TypeInv /\ BuiltInv /\ [Next]_vars => BuiltInv'
<1> SUFFICES ASSUME TypeInv, BuiltInv, [Next]_vars PROVE BuiltInv'
  OBVIOUS
<1>1. CASE Operations
  <2>1. phase' \in {"up", "down"}
    BY <1>1 DEF Operations, Set, SetFails, SetCrash, Remove, RemoveFails, RemoveCrash,
                ReadValue, EraseExpired, CleanupExpired, ProcessDies
  <2> QED BY <2>1 DEF BuiltInv
<1>2. CASE Close \/ Destroy \/ Crash \/ BitRot
  <2>1. phase' = "down"
    BY <1>2 DEF Close, Destroy, Crash, BitRot, ProcessDies
  <2> QED BY <2>1 DEF BuiltInv
<1>3. CASE Tick
  BY <1>3 DEF Tick, BuiltInv, disk, job
<1>4. CASE UNCHANGED vars
  BY <1>4 DEF vars, BuiltInv
<1> QED BY <1>1, <1>2, <1>3, <1>4, BuiltRecovery, BuiltCompaction DEF Next

\* As long as the index of an open store designates records, the operations keep
\* it so: a failing append or read only adds to the file.
LEMMA PointsOperations ==
  ASSUME TypeInv, IndexPointsToRecord, Operations
  PROVE  IndexPointsToRecord'
<1> USE DEF TypeInv, TypeOK
<1>0. phase = "up" => Points(index, file)
  BY IndexPoints
<1>1. ASSUME NEW k \in Keys, NEW v \in Values, NEW ttl \in TTLs, Set(k, v, ttl)
      PROVE  IndexPointsToRecord'
  <2> DEFINE r == RecordFor(k, v, ttl)
  <2>1. r \in Record /\ r.key = k /\ r.operation = "Set"
    BY RecordForType
  <2>2. AppendOk(r) /\ index' = [index EXCEPT ![k] = Metadata(Flushed.size, r)] /\ phase = "up"
    BY <1>1 DEF Set
  <2> HIDE DEF r
  <2>3. /\ file.chunks \subseteq file'.chunks
        /\ [off |-> Flushed.size, len |-> RecordBytes(r), rec |-> r, damage |-> "none"]
             \in file'.chunks
    BY <2>1, <2>2, AppendAdds
  <2>4. Points([index EXCEPT ![k] = Metadata(Flushed.size, r)], file')
    BY <1>0, <2>1, <2>2, <2>3, PointsNew
  <2> QED BY <2>2, <2>4, IndexPoints
<1>2. ASSUME NEW k \in Keys, NEW v \in Values, NEW ttl \in TTLs, SetFails(k, v, ttl)
      PROVE  IndexPointsToRecord'
  <2>1. RecordFor(k, v, ttl) \in Record
    BY RecordForType
  <2>2. file.chunks \subseteq file'.chunks /\ index' = index /\ phase = "up"
    BY <1>2, <2>1, AppendAdds DEF SetFails
  <2> QED BY <1>0, <2>2, PointsMore, IndexPoints
<1>3. ASSUME NEW k \in Keys, Remove(k) \/ RemoveFails(k)
      PROVE  IndexPointsToRecord'
  <2>1. DeleteRecord(k) \in Record
    BY DeleteRecordType
  <2>2. file.chunks \subseteq file'.chunks /\ phase = "up"
    BY <1>3, <2>1, AppendAdds DEF Remove, RemoveFails
  <2>3. \A x \in Keys : index'[x] \in {index[x], None}
    BY <1>3 DEF Remove, RemoveFails, Index
  <2> QED BY <1>0, <2>2, <2>3, PointsMore, PointsFewer, IndexPoints
<1>4. ASSUME NEW k \in Keys, ReadValue(k)
      PROVE  IndexPointsToRecord'
  <2>1. file.chunks \subseteq file'.chunks /\ phase = "up" /\ index' = index
    BY <1>4, FlushAdds DEF ReadValue
  <2> QED BY <1>0, <2>1, PointsMore, IndexPoints
<1>5. ASSUME NEW k \in Keys, EraseExpired(k)
      PROVE  IndexPointsToRecord'
  <2>1. file' = file /\ phase = "up"
    BY <1>5 DEF EraseExpired, disk
  <2>2. \A x \in Keys : index'[x] \in {index[x], None}
    BY <1>5 DEF EraseExpired, Index
  <2> QED BY <1>0, <2>1, <2>2, PointsFewer, IndexPoints
<1>6. ASSUME CleanupExpired
      PROVE  IndexPointsToRecord'
  <2>1. file' = file /\ phase = "up"
    BY <1>6 DEF CleanupExpired, disk
  <2>2. \A x \in Keys : index'[x] \in {index[x], None}
    BY <1>6 DEF CleanupExpired, Unexpired, Index
  <2> QED BY <1>0, <2>1, <2>2, PointsFewer, IndexPoints
<1>7. ASSUME NEW k \in Keys, NEW v \in Values, NEW ttl \in TTLs, SetCrash(k, v, ttl)
      PROVE  IndexPointsToRecord'
  BY <1>7, IndexPoints DEF SetCrash, ProcessDies
<1>8. ASSUME NEW k \in Keys, RemoveCrash(k)
      PROVE  IndexPointsToRecord'
  BY <1>8, IndexPoints DEF RemoveCrash, ProcessDies
<1> QED BY <1>1, <1>2, <1>3, <1>4, <1>5, <1>6, <1>7, <1>8 DEF Operations

\* What recover() has built is the index of the part of the file that stays.
LEMMA PointsRecovery ==
  ASSUME BuiltInv, Recovery
  PROVE  IndexPointsToRecord'
<1>1. CASE RecoverDone
  <2>1. Points(scan.index, Resize(file, scan.pos)) /\ index' = scan.index /\ file' = file
    BY <1>1 DEF RecoverDone, OpenSucceeds, BuiltInv, disk
  <2>2. Resize(file, scan.pos).chunks \subseteq file.chunks
    BY DEF Resize
  <2> QED BY <2>1, <2>2, PointsMore, IndexPoints
<1>2. CASE TruncateTail
  <2>1. /\ Points(scan.index, Resize(file, scan.pos)) /\ index' = scan.index
        /\ file' = Resize(file, scan.pos)
    BY <1>2 DEF TruncateTail, OpenSucceeds, BuiltInv
  <2> QED BY <2>1, IndexPoints
<1>3. CASE ~RecoverDone /\ ~TruncateTail
  <2>1. phase' \notin {"up", "compacting"}
    BY <1>3 DEF Recovery, Open, RecoverRecord, RecoverTail, RecoverCorruption,
           RecoverReadFails, TruncateFails
  <2> QED BY <2>1, IndexPoints
<1> QED BY <1>1, <1>2, <1>3

\* compact() keeps the index right but where it cannot open the new file.
LEMMA PointsCompaction ==
  ASSUME TypeInv, BuiltInv, IndexPointsToRecord, Compaction, ~CompactReopenFails
  PROVE  IndexPointsToRecord'
<1>0. phase \in {"up", "compacting"} => Points(index, file)
  BY IndexPoints
<1>1. CASE CompactBegin \/ CompactGivesUp
  <2>1. file.chunks \subseteq file'.chunks /\ phase = "up"
    BY <1>1, FlushAdds DEF CompactBegin, CompactGivesUp, FileAfterReads
  <2>2. \A x \in Keys : index'[x] \in {index[x], None}
    BY <1>1 DEF CompactBegin, CompactGivesUp, Unexpired
  <2> QED BY <1>0, <2>1, <2>2, PointsMore, PointsFewer, IndexPoints
<1>2. ASSUME NEW k \in Keys, CompactWrite(k)
      PROVE  IndexPointsToRecord'
  BY <1>0, <1>2, IndexPoints DEF CompactWrite
<1>3. CASE CompactWriteFails
  BY <1>0, <1>3, IndexPoints DEF CompactWriteFails
<1>4. CASE CompactRename
  BY <1>4, IndexPoints DEF CompactRename
<1>5. CASE CompactRenameFails
  <2>1. file.chunks \subseteq file'.chunks /\ phase = "compacting" /\ index' = index
    BY <1>5, FlushAdds DEF CompactRenameFails
  <2> QED BY <1>0, <2>1, PointsMore, IndexPoints
<1>6. CASE CompactReopen
  <2>1. Points(newIndex, file) /\ index' = newIndex /\ file' = file
    BY <1>6 DEF CompactReopen, BuiltInv, disk
  <2> QED BY <2>1, IndexPoints
<1> QED BY <1>1, <1>2, <1>3, <1>4, <1>5, <1>6 DEF Compaction

\* Whatever errors happen, and however often, an index that is right goes wrong in
\* one step only: compact() has replaced the data file and cannot open it.
THEOREM IndexBreaksOnlyThere == Spec => IndexBreaksOnlyAtInstall
<1>1. TypeInv /\ BuiltInv /\ [Next]_vars =>
        [IndexPointsToRecord /\ ~IndexPointsToRecord' => CompactReopenFails]_vars
  <2> SUFFICES ASSUME TypeInv, BuiltInv, Next, IndexPointsToRecord, ~CompactReopenFails
               PROVE  IndexPointsToRecord'
    OBVIOUS
  <2>1. CASE Close \/ Destroy \/ Crash \/ BitRot
    <3>1. phase' = "down"
      BY <2>1 DEF Close, Destroy, Crash, BitRot, ProcessDies
    <3> QED BY <3>1, IndexPoints
  <2>2. CASE Tick
    BY <2>2, IndexPoints DEF Tick, disk
  <2> QED BY <2>1, <2>2, PointsOperations, PointsRecovery, PointsCompaction DEF Next
<1> QED BY <1>1, TypeInit, TypeNext, BuiltInit, BuiltNext, PTL
        DEF Spec, IndexBreaksOnlyAtInstall

=============================================================================
