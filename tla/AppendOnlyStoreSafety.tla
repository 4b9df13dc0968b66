------------------------ MODULE AppendOnlyStoreSafety ------------------------
(***************************************************************************)
(* What the store promises as long as only the errors of SafeFaults        *)
(* happen: proofs from the inductive invariant IInv.                       *)
(***************************************************************************)
EXTENDS AppendOnlyStoreProofs

-----------------------------------------------------------------------------
(* Files and their chunks. *)

\* What the parts of a file are.
LEMMA ChunkType ==
  ASSUME NEW f \in File
  PROVE  /\ f.size \in Nat
         /\ \A c \in f.chunks :
              /\ c \in Chunk
              /\ c.off \in Nat
              /\ c.len \in Nat \ {0}
              /\ c.rec \in Record
              /\ c.rec.key \in Keys
              /\ RecordBytes(c.rec) \in Nat \ {0}
              /\ RecordBytes(c.rec) >= kRecordHeaderSize
              /\ EntryOf(c.rec) = None <=> c.rec.operation = "Delete"
<1>1. f.size \in Nat /\ f.chunks \subseteq Chunk
  BY DEF File
<1>2. ASSUME NEW c \in f.chunks
      PROVE  /\ c \in Chunk /\ c.off \in Nat /\ c.len \in Nat \ {0}
             /\ c.rec \in Record /\ c.rec.key \in Keys
  BY <1>1 DEF Chunk, Record
<1>3. ASSUME NEW c \in f.chunks
      PROVE  RecordBytes(c.rec) \in Nat \ {0} /\ RecordBytes(c.rec) >= kRecordHeaderSize
  BY <1>2, RecordBytesType
<1>4. ASSUME NEW r \in Record
      PROVE  EntryOf(r) = None <=> r.operation = "Delete"
  <2>1. CASE r.operation = "Set"
    <3>1. r.value \in Values \cup {None, Garbage} /\ r.expiresAtMs \in Nat
      BY DEF Record
    <3>2. EntryOf(r) \in [value: Values \cup {None, Garbage}, expiresAtMs: Nat]
      BY <2>1, <3>1 DEF EntryOf
    <3> QED BY <2>1, <3>2, NoneAssumption
  <2>2. CASE r.operation # "Set"
    BY <2>2 DEF EntryOf, Record, Operation
  <2> QED BY <2>1, <2>2
<1> QED BY <1>1, <1>2, <1>3, <1>4

\* In a laid-out file every chunk starts before the end.
LEMMA ChunkInside ==
  ASSUME NEW f \in File, Layout(f), NEW c \in f.chunks
  PROVE  c.off < f.size
BY ChunkType DEF Layout

\* Metadata of a complete record finds its value: the value bytes of different
\* records do not overlap.
LEMMA ValueAtMetadata ==
  ASSUME NEW f \in File, Layout(f), NEW c \in f.chunks, Whole(c)
  PROVE  ValueAt(f, Metadata(c.off, c.rec)) = c.rec.value
<1> DEFINE m == Metadata(c.off, c.rec)
<1>1. /\ m.valueOffset = c.off + kRecordHeaderSize + KeySize[c.rec.key]
      /\ m.valueSize = c.rec.valueSize
  BY DEF Metadata
<1>2. \A d \in f.chunks :
         /\ d.off \in Nat /\ d.rec.valueSize \in Nat
         /\ kRecordHeaderSize \in Nat \ {0} /\ KeySize[d.rec.key] \in Nat \ {0}
  BY ChunkType, RecordBytesType DEF Record
<1>3. m.valueOffset + m.valueSize <= f.size
  BY <1>1, <1>2, ChunkType DEF Layout, Whole, RecordBytes
<1>4. HoldsValue(c, m)
  BY <1>1 DEF HoldsValue, Metadata
<1>5. ASSUME NEW d \in f.chunks, HoldsValue(d, m)
      PROVE  d = c
  <2>1. /\ d.len = RecordBytes(d.rec)
        /\ d.off + kRecordHeaderSize + KeySize[d.rec.key] = m.valueOffset
        /\ d.rec.valueSize = m.valueSize
    BY <1>5 DEF HoldsValue, Whole, Metadata
  <2>2. d.off + d.len = m.valueOffset + m.valueSize
    BY <2>1, <1>2 DEF RecordBytes
  <2>3. c.off + c.len = m.valueOffset + m.valueSize
    BY <1>1, <1>2 DEF RecordBytes, Whole
  <2>4. ~(c.off < d.off)
    BY <1>1, <1>2, <2>1, <2>2, <2>3, ChunkType DEF Layout
  <2>5. ~(d.off < c.off)
    BY <1>1, <1>2, <2>1, <2>2, <2>3, ChunkType DEF Layout
  <2> QED BY <1>2, <2>4, <2>5 DEF Layout
<1>6. m.valueOffset \in Nat /\ m.valueSize \in Nat /\ f.size \in Nat
  BY <1>1, <1>2, ChunkType
<1> HIDE DEF m
<1> DEFINE found == CHOOSE d \in f.chunks : HoldsValue(d, m)
<1>7. found \in f.chunks /\ HoldsValue(found, m)
  <2>1. \E d \in f.chunks : HoldsValue(d, m)
    BY <1>4
  <2> QED BY <2>1
<1>8. found = c
  BY <1>5, <1>7
<1>9. ValueAt(f, m) = c.rec.value
  <2>1. ~(m.valueOffset + m.valueSize > f.size)
    BY <1>3, <1>6
  <2>2. \E d \in f.chunks : HoldsValue(d, m)
    BY <1>4
  <2>3. ValueAt(f, m) = found.rec.value
    BY <2>1, <2>2, Zenon DEF ValueAt
  <2> QED BY <1>8, <2>3
<1> QED BY <1>9 DEF m

\* The chunk that WriteBytes(f, r, n) adds.
NewChunk(f, r, n) == [off |-> f.size, len |-> n, rec |-> r, damage |-> "none"]

\* Writing part of a record adds one chunk, at the end of the file.
LEMMA WriteBytesEffect ==
  ASSUME NEW f \in File, Layout(f), NEW r \in Record, NEW n \in Nat \ {0}
  PROVE  /\ WriteBytes(f, r, n).chunks = f.chunks \cup {NewChunk(f, r, n)}
         /\ WriteBytes(f, r, n).size = f.size + n
         /\ WriteBytes(f, r, n) \in File
         /\ Layout(WriteBytes(f, r, n))
<1>1. /\ WriteBytes(f, r, n).chunks = f.chunks \cup {NewChunk(f, r, n)}
      /\ WriteBytes(f, r, n).size = f.size + n
  BY DEF WriteBytes, NewChunk
<1>2. WriteBytes(f, r, n) \in File
  BY WriteBytesType
<1>3. NewChunk(f, r, n).off = f.size /\ NewChunk(f, r, n).len = n
  BY DEF NewChunk
<1>4. \A c \in f.chunks : c.off < f.size
  BY ChunkInside
<1>5. Layout(WriteBytes(f, r, n))
  BY <1>1, <1>3, <1>4, ChunkType DEF Layout
<1> QED BY <1>1, <1>2, <1>5

\* After a whole record has been written it is the last one of its key, and
\* the last records of the other keys are what they were.
LEMMA WriteWhole ==
  ASSUME NEW f \in File, Layout(f), NEW r \in Record,
         NEW g, g = WriteBytes(f, r, RecordBytes(r)),
         NEW new, new = NewChunk(f, r, RecordBytes(r))
  PROVE  /\ Whole(new)
         /\ new.rec = r
         /\ new.off = f.size
         /\ \A k \in Keys, c \in g.chunks :
              Latest(g, k, g.size, c) <=> IF k = r.key THEN c = new
                                          ELSE Latest(f, k, f.size, c)
         /\ \A k \in Keys : (\A c \in g.chunks : ~RecordOf(g, k, g.size, c)) <=>
              k # r.key /\ \A c \in f.chunks : ~RecordOf(f, k, f.size, c)
<1>1. RecordBytes(r) \in Nat \ {0}
  BY RecordBytesType
<1>2. g.chunks = f.chunks \cup {new} /\ g.size = f.size + RecordBytes(r) /\ g \in File
  BY <1>1, WriteBytesEffect
<1>3. new.rec = r /\ new.off = f.size /\ Whole(new)
  BY DEF NewChunk, Whole
<1>4. \A c \in f.chunks : c.off < f.size /\ c.off \in Nat
  BY ChunkInside, ChunkType
<1>5. f.size \in Nat
  BY ChunkType
<1>6. \A k \in Keys, c \in g.chunks :
        RecordOf(g, k, g.size, c) <=> \/ RecordOf(f, k, f.size, c)
                                      \/ k = r.key /\ c = new
  BY <1>1, <1>2, <1>3, <1>4, <1>5 DEF RecordOf
<1>7. \A k \in Keys, c \in g.chunks :
        Latest(g, k, g.size, c) <=> IF k = r.key THEN c = new
                                    ELSE Latest(f, k, f.size, c)
  <2> SUFFICES ASSUME NEW k \in Keys, NEW c \in g.chunks
               PROVE  Latest(g, k, g.size, c) <=> IF k = r.key THEN c = new
                                                  ELSE Latest(f, k, f.size, c)
    OBVIOUS
  <2>1. CASE k = r.key
    <3>1. RecordOf(g, k, g.size, new)
      BY <1>2, <1>6, <2>1
    <3>2. \A d \in g.chunks : d.off <= new.off
      BY <1>2, <1>3, <1>4, <1>5
    <3>3. \A d \in g.chunks : new.off <= d.off => d = new
      BY <1>2, <1>3, <1>4, <1>5
    <3> QED BY <1>2, <2>1, <3>1, <3>2, <3>3 DEF Latest
  <2>2. CASE k # r.key
    <3>1. \A d \in g.chunks : RecordOf(g, k, g.size, d) <=> RecordOf(f, k, f.size, d)
      BY <1>6, <2>2
    <3>2. \A d : RecordOf(f, k, f.size, d) => d \in f.chunks
      BY DEF RecordOf
    <3> QED BY <1>2, <2>2, <3>1, <3>2 DEF Latest
  <2> QED BY <2>1, <2>2
<1>8. \A k \in Keys : (\A c \in g.chunks : ~RecordOf(g, k, g.size, c)) <=>
              k # r.key /\ \A c \in f.chunks : ~RecordOf(f, k, f.size, c)
  <2>1. \A k, d : RecordOf(f, k, f.size, d) => d \in f.chunks
    BY DEF RecordOf
  <2> QED BY <1>2, <1>6, <2>1
<1> QED BY <1>3, <1>7, <1>8

\* A record that is only partly written changes no last record.
LEMMA WriteTorn ==
  ASSUME NEW f \in File, Layout(f), NEW r \in Record,
         NEW n \in Nat \ {0}, n < RecordBytes(r),
         NEW g, g = WriteBytes(f, r, n)
  PROVE  /\ \A k \in Keys, c \in g.chunks :
              Latest(g, k, g.size, c) <=> Latest(f, k, f.size, c)
         /\ \A k \in Keys : (\A c \in g.chunks : ~RecordOf(g, k, g.size, c)) <=>
              \A c \in f.chunks : ~RecordOf(f, k, f.size, c)
<1> DEFINE new == NewChunk(f, r, n)
<1>1. RecordBytes(r) \in Nat \ {0}
  BY RecordBytesType
<1>2. g.chunks = f.chunks \cup {new} /\ g.size = f.size + n /\ g \in File
  BY <1>1, WriteBytesEffect
<1>3. ~Whole(new)
  BY <1>1 DEF NewChunk, Whole
<1> HIDE DEF new
<1>4. \A c \in f.chunks : c.off < f.size /\ c.off \in Nat
  BY ChunkInside, ChunkType
<1>5. f.size \in Nat
  BY ChunkType
<1>6. \A k, c : RecordOf(g, k, g.size, c) <=> RecordOf(f, k, f.size, c)
  BY <1>2, <1>3, <1>4, <1>5 DEF RecordOf
<1>7. \A k, c : RecordOf(f, k, f.size, c) => c \in f.chunks
  BY DEF RecordOf
<1> QED BY <1>2, <1>6, <1>7 DEF Latest

-----------------------------------------------------------------------------
(* Entries, indexes and agreement as time passes. *)

\* Entries of records, damaged values included.
AnyEntry == [value: Values \cup {None, Garbage}, expiresAtMs: Nat] \cup {None}

\* The entry of every record, read from the file or known to a client.
LEMMA EntryTypes ==
  /\ Entry \subseteq AnyEntry
  /\ \A r \in Record : EntryOf(r) \in AnyEntry
<1>1. Entry \subseteq AnyEntry
  BY DEF Entry, AnyEntry
<1>2. ASSUME NEW r \in Record PROVE EntryOf(r) \in AnyEntry
  BY DEF EntryOf, AnyEntry, Record
<1> QED BY <1>1, <1>2

\* The clock does not go back: what has expired stays expired.
LEMMA DeadLater ==
  ASSUME NEW e \in AnyEntry, NEW t \in Nat, NEW u \in Nat, t <= u, Dead(e, t)
  PROVE  Dead(e, u)
<1>1. CASE e = None
  BY <1>1 DEF Dead
<1>2. CASE e # None
  <2>1. e.expiresAtMs \in Nat
    BY <1>2 DEF AnyEntry
  <2> QED BY <1>2, <2>1 DEF Dead, isExpired
<1> QED BY <1>1, <1>2

\* What a history permits stays permitted when the clock advances and when the
\* history grows.
LEMMA PermittedLater ==
  ASSUME NEW es \in SUBSET Entry, NEW fs, es \subseteq fs, NEW e \in AnyEntry,
         NEW t \in Nat, NEW u \in Nat, t <= u, Permitted(es, e, t)
  PROVE  Permitted(fs, e, u)
<1>1. PICK a \in es : a = e \/ (Dead(a, t) /\ Dead(e, t))
  BY DEF Permitted
<1>2. a \in AnyEntry /\ a \in fs
  BY EntryTypes
<1>3. a = e \/ (Dead(a, u) /\ Dead(e, u))
  BY <1>1, <1>2, DeadLater
<1> QED BY <1>2, <1>3 DEF Permitted

\* A file agrees with its history also later, and with a larger history.
LEMMA AgreesLater ==
  ASSUME NEW f \in File, NEW al \in [Keys -> SUBSET Entry], NEW bl,
         \A k \in Keys : al[k] \subseteq bl[k],
         NEW t \in Nat, NEW u \in Nat, t <= u, Agrees(f, al, t)
  PROVE  Agrees(f, bl, u)
<1>1. None \in AnyEntry /\ \A c \in f.chunks : EntryOf(c.rec) \in AnyEntry
  BY ChunkType, EntryTypes DEF AnyEntry
<1>2. \A k \in Keys, e \in AnyEntry : Permitted(al[k], e, t) => Permitted(bl[k], e, u)
  BY PermittedLater
<1> QED BY <1>1, <1>2 DEF Agrees

\* An index of a file is an index of it also later.
LEMMA IndexLater ==
  ASSUME NEW f \in File, NEW idx, NEW p, NEW t \in Nat, NEW u \in Nat, t <= u,
         IndexOf(idx, f, p, t)
  PROVE  IndexOf(idx, f, p, u)
<1>1. \A c \in f.chunks : Dead(EntryOf(c.rec), t) => Dead(EntryOf(c.rec), u)
  BY ChunkType, EntryTypes, DeadLater
<1> QED BY <1>1 DEF IndexOf

\* Expired entries may be dropped from the index.
LEMMA IndexDrop ==
  ASSUME NEW f \in File, NEW idx, NEW jdx, NEW p, NEW t \in Nat, IndexOf(idx, f, p, t),
         \A k \in Keys : \/ jdx[k] = idx[k]
                         \/ jdx[k] = None /\ isExpired(idx[k].expiresAtMs, t)
  PROVE  IndexOf(jdx, f, p, t)
<1> SUFFICES ASSUME NEW k \in Keys, jdx[k] # idx[k],
                    jdx[k] = None, isExpired(idx[k].expiresAtMs, t)
             PROVE  \E c \in f.chunks : Latest(f, k, p, c) /\ Dead(EntryOf(c.rec), t)
  BY DEF IndexOf
<1>1. PICK c \in f.chunks : /\ Latest(f, k, p, c)
                            /\ c.rec.operation = "Set"
                            /\ idx[k] = Metadata(c.off, c.rec)
  BY DEF IndexOf
<1>2. EntryOf(c.rec).expiresAtMs = idx[k].expiresAtMs
  BY <1>1 DEF EntryOf, Metadata
<1> QED BY <1>1, <1>2 DEF Dead

-----------------------------------------------------------------------------
(* Appending. *)

\* After an append the file agrees with a history that has the appended entry.
LEMMA AppendAgrees ==
  ASSUME NEW f \in File, Layout(f), NEW r \in Record,
         NEW al, NEW bl, NEW t \in Nat, Agrees(f, al, t),
         EntryOf(r) \in bl[r.key],
         \A k \in Keys : k # r.key => bl[k] = al[k]
  PROVE  Agrees(WriteBytes(f, r, RecordBytes(r)), bl, t)
<1> DEFINE g == WriteBytes(f, r, RecordBytes(r))
           new == NewChunk(f, r, RecordBytes(r))
<1>1. /\ new.rec = r
      /\ \A k \in Keys, c \in g.chunks :
           Latest(g, k, g.size, c) <=> IF k = r.key THEN c = new
                                       ELSE Latest(f, k, f.size, c)
      /\ \A k \in Keys : (\A c \in g.chunks : ~RecordOf(g, k, g.size, c)) <=>
           k # r.key /\ \A c \in f.chunks : ~RecordOf(f, k, f.size, c)
  BY WriteWhole
<1> HIDE DEF g, new
<1>2. Permitted(bl[r.key], EntryOf(r), t)
  BY DEF Permitted
<1>3. \A k, c : Latest(f, k, f.size, c) => c \in f.chunks
  BY DEF Latest, RecordOf
<1>4. Agrees(g, bl, t)
  BY <1>1, <1>2, <1>3 DEF Agrees
<1> QED BY <1>4 DEF g

\* The index entry that set() or remove() installs after an append keeps the
\* index an index of the file.
LEMMA AppendIndex ==
  ASSUME NEW f \in File, Layout(f), NEW r \in Record,
         NEW idx \in Index, NEW t \in Nat, IndexOf(idx, f, f.size, t),
         NEW jdx, jdx = [idx EXCEPT ![r.key] = IF r.operation = "Set"
                                               THEN Metadata(f.size, r) ELSE None],
         NEW g, g = WriteBytes(f, r, RecordBytes(r))
  PROVE  IndexOf(jdx, g, g.size, t)
<1> DEFINE new == NewChunk(f, r, RecordBytes(r))
<1>1. /\ new.rec = r
      /\ new.off = f.size
      /\ \A k \in Keys, c \in g.chunks :
           Latest(g, k, g.size, c) <=> IF k = r.key THEN c = new
                                       ELSE Latest(f, k, f.size, c)
      /\ \A k \in Keys : (\A c \in g.chunks : ~RecordOf(g, k, g.size, c)) <=>
           k # r.key /\ \A c \in f.chunks : ~RecordOf(f, k, f.size, c)
  BY WriteWhole
<1>2. g.chunks = f.chunks \cup {new}
  BY WriteBytesEffect, RecordBytesType
<1> HIDE DEF new
<1>3. r.key \in Keys /\ r.operation \in {"Set", "Delete"}
  BY DEF Record, Operation
<1>4. Metadata(f.size, r) # None
  BY MetadataType, ChunkType, NoneAssumption
<1>5. r.operation # "Set" => EntryOf(r) = None
  BY DEF EntryOf
<1> SUFFICES ASSUME NEW k \in Keys
             PROVE
    \/ /\ jdx[k] # None
       /\ \E c \in g.chunks : /\ Latest(g, k, g.size, c)
                              /\ c.rec.operation = "Set"
                              /\ jdx[k] = Metadata(c.off, c.rec)
    \/ /\ jdx[k] = None
       /\ \/ \A c \in g.chunks : ~RecordOf(g, k, g.size, c)
          \/ \E c \in g.chunks : Latest(g, k, g.size, c) /\ Dead(EntryOf(c.rec), t)
  BY DEF IndexOf
<1>6. CASE k = r.key
  <2>1. Latest(g, k, g.size, new) /\ new \in g.chunks
    BY <1>1, <1>2, <1>3, <1>6
  <2>2. jdx[k] = IF r.operation = "Set" THEN Metadata(f.size, r) ELSE None
    BY <1>3, <1>6 DEF Index
  <2> QED BY <1>1, <1>4, <1>5, <2>1, <2>2 DEF Dead
<1>7. CASE k # r.key
  <2>1. jdx[k] = idx[k]
    BY <1>3, <1>7 DEF Index
  <2>2. \A c \in f.chunks : Latest(g, k, g.size, c) <=> Latest(f, k, f.size, c)
    BY <1>1, <1>2, <1>7
  <2> QED BY <1>1, <1>2, <1>7, <2>1, <2>2 DEF IndexOf
<1> QED BY <1>6, <1>7

\* A process that dies while it appends leaves a file that agrees with the
\* history once the entry of the record is possible too.
LEMMA TornAgrees ==
  ASSUME NEW f \in File, Layout(f), NEW r \in Record,
         NEW al \in [Keys -> SUBSET Entry], NEW bl, NEW t \in Nat, Agrees(f, al, t),
         bl = [al EXCEPT ![r.key] = @ \cup {EntryOf(r)}],
         NEW m \in 0..RecordBytes(r)
  PROVE  Agrees(WriteBytes(f, r, m), bl, t)
<1>1. RecordBytes(r) \in Nat \ {0} /\ r.key \in Keys
  BY RecordBytesType DEF Record
<1>2. \A k \in Keys : al[k] \subseteq bl[k] /\ (k # r.key => bl[k] = al[k])
  BY <1>1
<1>3. EntryOf(r) \in bl[r.key]
  BY <1>1
<1>4. Agrees(f, bl, t)
  <2>1. t <= t /\ \A k \in Keys : al[k] \subseteq bl[k]
    BY <1>2
  <2> QED BY <2>1, AgreesLater, Zenon
<1>5. CASE m = 0
  BY <1>4, <1>5 DEF WriteBytes
<1>6. CASE m = RecordBytes(r)
  BY <1>2, <1>3, <1>6, AppendAgrees
<1>7. CASE m # 0 /\ m # RecordBytes(r)
  <2> DEFINE g == WriteBytes(f, r, m)
  <2>1. m \in Nat \ {0} /\ m < RecordBytes(r)
    BY <1>1, <1>7
  <2>2. /\ \A k \in Keys, c \in g.chunks :
              Latest(g, k, g.size, c) <=> Latest(f, k, f.size, c)
        /\ \A k \in Keys : (\A c \in g.chunks : ~RecordOf(g, k, g.size, c)) <=>
              \A c \in f.chunks : ~RecordOf(f, k, f.size, c)
    BY <2>1, WriteTorn
  <2> HIDE DEF g
  <2>3. \A k, c : Latest(f, k, f.size, c) => c \in f.chunks
    BY DEF Latest, RecordOf
  <2>4. Agrees(g, bl, t)
    BY <1>4, <2>2, <2>3 DEF Agrees
  <2> QED BY <2>4 DEF g
<1> QED BY <1>5, <1>6, <1>7

-----------------------------------------------------------------------------
(* Recovering. *)

\* One iteration of the loop of recover() extends what the loop has built.
LEMMA RecoverStep ==
  ASSUME NEW f \in File, Layout(f), NEW idx \in Index, NEW p \in Nat,
         NEW s \in Nat, NEW t \in Nat, s <= t,
         NEW c \in f.chunks, c.off = p, Whole(c),
         \A d \in f.chunks : d.off < p => Whole(d) /\ d.off + d.len <= p,
         IndexOf(idx, f, p, t),
         NEW q, q = p + RecordBytes(c.rec)
  PROVE  /\ q <= f.size
         /\ \A d \in f.chunks : d.off < q => Whole(d) /\ d.off + d.len <= q
         /\ IndexOf(Replay(idx, c, s), f, q, t)
<1> DEFINE jdx == Replay(idx, c, s)
<1>1. \A d \in f.chunks : /\ d.off \in Nat /\ d.len \in Nat \ {0}
                          /\ d.rec \in Record /\ d.rec.key \in Keys
  BY ChunkType
<1>2. q = c.off + c.len /\ q \in Nat /\ p < q
  BY <1>1 DEF Whole
<1>3. q <= f.size
  BY <1>2 DEF Layout
<1>4. \A d \in f.chunks : d.off < q <=> d.off < p \/ d = c
  BY <1>1, <1>2 DEF Layout
<1>5. \A d \in f.chunks : d.off < q => Whole(d) /\ d.off + d.len <= q
  BY <1>1, <1>2, <1>4
<1>6. \A k, d : RecordOf(f, k, q, d) <=>
                 RecordOf(f, k, p, d) \/ (d = c /\ c.rec.key = k)
  BY <1>4 DEF RecordOf
<1>7. c.rec \in Record /\ c.rec.key \in Keys
  BY <1>1
<1>8. jdx[c.rec.key] = IF c.rec.operation = "Delete" \/ isExpired(c.rec.expiresAtMs, s)
                       THEN None ELSE Metadata(c.off, c.rec)
  BY <1>7 DEF Replay, Index
<1>9. \A k \in Keys : k # c.rec.key => jdx[k] = idx[k]
  BY <1>7 DEF Replay, Index
<1> HIDE DEF jdx
<1>10. ASSUME NEW k \in Keys
       PROVE
    \/ /\ jdx[k] # None
       /\ \E d \in f.chunks : /\ Latest(f, k, q, d)
                              /\ d.rec.operation = "Set"
                              /\ jdx[k] = Metadata(d.off, d.rec)
    \/ /\ jdx[k] = None
       /\ \/ \A d \in f.chunks : ~RecordOf(f, k, q, d)
          \/ \E d \in f.chunks : Latest(f, k, q, d) /\ Dead(EntryOf(d.rec), t)
  <2>1. CASE k = c.rec.key
    <3>1. RecordOf(f, k, q, c)
      BY <1>6, <2>1
    <3>2. \A d \in f.chunks : RecordOf(f, k, q, d) => d.off <= c.off
      BY <1>1, <1>6 DEF RecordOf
    <3>3. Latest(f, k, q, c)
      BY <3>1, <3>2 DEF Latest
    <3>4. CASE c.rec.operation = "Delete"
      <4>1. EntryOf(c.rec) = None
        BY <3>4 DEF EntryOf
      <4> QED BY <1>8, <2>1, <3>3, <3>4, <4>1 DEF Dead
    <3>5. CASE c.rec.operation # "Delete" /\ isExpired(c.rec.expiresAtMs, s)
      <4>1. c.rec.operation = "Set" /\ c.rec.expiresAtMs \in Nat
        BY <1>7, <3>5 DEF Record, Operation
      <4>2. isExpired(c.rec.expiresAtMs, t)
        BY <3>5, <4>1 DEF isExpired
      <4>3. EntryOf(c.rec).expiresAtMs = c.rec.expiresAtMs
        BY <4>1 DEF EntryOf
      <4> QED BY <1>8, <2>1, <3>3, <3>5, <4>2, <4>3 DEF Dead
    <3>6. CASE c.rec.operation # "Delete" /\ ~isExpired(c.rec.expiresAtMs, s)
      <4>1. c.rec.operation = "Set"
        BY <1>7, <3>6 DEF Record, Operation
      <4>2. Metadata(c.off, c.rec) # None
        BY <1>1, MetadataType, NoneAssumption
      <4> QED BY <1>8, <2>1, <3>3, <3>6, <4>1, <4>2
    <3> QED BY <3>4, <3>5, <3>6
  <2>2. CASE k # c.rec.key
    <3>1. \A d : RecordOf(f, k, q, d) <=> RecordOf(f, k, p, d)
      BY <1>6, <2>2
    <3>2. \A d : Latest(f, k, q, d) <=> Latest(f, k, p, d)
      BY <3>1 DEF Latest
    <3> QED BY <1>9, <2>2, <3>1, <3>2 DEF IndexOf
  <2> QED BY <2>1, <2>2
<1>11. IndexOf(jdx, f, q, t)
  BY <1>10 DEF IndexOf
<1> QED BY <1>3, <1>5, <1>11 DEF jdx

\* A complete record is never taken for an incomplete tail.
LEMMA WholeNotTruncated ==
  ASSUME NEW f \in File, Layout(f), NEW c \in f.chunks, Whole(c), c.damage # "size"
  PROVE  ~LooksTruncated(c, f.size - c.off)
<1>1. /\ c.off \in Nat /\ c.len \in Nat /\ f.size \in Nat
      /\ RecordBytes(c.rec) \in Nat /\ RecordBytes(c.rec) >= kRecordHeaderSize
  BY ChunkType
<1>2. kRecordHeaderSize \in Nat
  BY RecordAssumption
<1>3. f.size - c.off >= c.len
  BY <1>1 DEF Layout
<1> QED BY <1>1, <1>2, <1>3 DEF LooksTruncated, Whole

\* Cutting the file where an incomplete last record starts removes that record
\* and nothing else.
LEMMA ResizeEffect ==
  ASSUME NEW f \in File, Layout(f), NEW p \in Nat,
         NEW torn \in f.chunks, torn.off = p, ~Whole(torn),
         torn.off + torn.len = f.size,
         \A c \in f.chunks : c.off < p => Whole(c) /\ c.off + c.len <= p,
         NEW g, g = Resize(f, p)
  PROVE  /\ g.size = p
         /\ g.chunks \subseteq f.chunks
         /\ g.chunks = f.chunks \ {torn}
         /\ \A c \in g.chunks : Whole(c)
         /\ Layout(g)
         /\ \A k, c : RecordOf(g, k, g.size, c) <=> RecordOf(f, k, f.size, c)
         /\ \A k, c : RecordOf(g, k, g.size, c) <=> RecordOf(f, k, p, c)
<1>1. g.size = p /\ g.chunks = {c \in f.chunks : c.off + c.len <= p}
  BY DEF Resize
<1>2. \A d \in f.chunks : d.off \in Nat /\ d.len \in Nat \ {0} /\ d.off < f.size
  BY ChunkType, ChunkInside
<1>3. f.size \in Nat
  BY ChunkType
<1>4. \A d \in f.chunks : d.off < p \/ d = torn
  BY <1>2, <1>3 DEF Layout
<1>5. \A d \in f.chunks : d \in g.chunks <=> d.off < p
  BY <1>1, <1>2
<1>6. g.chunks = f.chunks \ {torn}
  BY <1>1, <1>2, <1>4, <1>5
<1>7. \A c \in g.chunks : Whole(c)
  BY <1>1, <1>5
<1>8. Layout(g)
  BY <1>1 DEF Layout
<1>9. \A k, c : RecordOf(g, k, g.size, c) <=> RecordOf(f, k, f.size, c)
  BY <1>1, <1>2, <1>4, <1>5 DEF RecordOf
<1>10. \A k, c : RecordOf(g, k, g.size, c) <=> RecordOf(f, k, p, c)
  BY <1>1, <1>2, <1>5 DEF RecordOf
<1> QED BY <1>1, <1>6, <1>7, <1>8, <1>9, <1>10

\* The index and the agreement depend on the records of a file only.
LEMMA SameRecords ==
  ASSUME NEW f, NEW g, NEW p, NEW q,
         \A k, c : RecordOf(g, k, q, c) <=> RecordOf(f, k, p, c)
  PROVE  /\ \A k, c : Latest(g, k, q, c) <=> Latest(f, k, p, c)
         /\ \A idx, t : IndexOf(idx, f, p, t) => IndexOf(idx, g, q, t)
         /\ p = f.size /\ q = g.size =>
              \A al, t : Agrees(f, al, t) => Agrees(g, al, t)
<1>1. \A k, c : (RecordOf(g, k, q, c) => c \in g.chunks) /\ (RecordOf(f, k, p, c) => c \in f.chunks)
  BY DEF RecordOf
<1>2. \A k, c : Latest(g, k, q, c) <=> Latest(f, k, p, c)
  BY <1>1 DEF Latest
<1>3. \A k, c : (Latest(g, k, q, c) => c \in g.chunks) /\ (Latest(f, k, p, c) => c \in f.chunks)
  BY <1>1 DEF Latest
<1>4. \A k : (\A c \in g.chunks : ~RecordOf(g, k, q, c)) <=> (\A c \in f.chunks : ~RecordOf(f, k, p, c))
  BY <1>1
<1>5. ASSUME NEW idx, NEW t, IndexOf(idx, f, p, t) PROVE IndexOf(idx, g, q, t)
  BY <1>2, <1>3, <1>4, <1>5 DEF IndexOf
<1>6. ASSUME p = f.size, q = g.size, NEW al, NEW t, Agrees(f, al, t)
      PROVE  Agrees(g, al, t)
  BY <1>2, <1>3, <1>4, <1>6 DEF Agrees
<1> QED BY <1>2, <1>5, <1>6

-----------------------------------------------------------------------------
(* Altered bytes. *)

\* Altering a record in place changes neither the layout nor what the file
\* agrees with.
LEMMA DamageEffect ==
  ASSUME NEW f \in File, Layout(f), NEW b \in f.chunks, NEW w \in {"size", "payload"},
         NEW g, g = Altered(f, b, w)
  PROVE  /\ g.size = f.size
         /\ Layout(g)
         /\ \A c \in g.chunks : \E d \in f.chunks :
              /\ c.off = d.off /\ c.len = d.len /\ c.rec = d.rec
              /\ c.damage \in {d.damage, w}
         /\ \A al, t : Agrees(f, al, t) => Agrees(g, al, t)
<1> DEFINE e == [b EXCEPT !.damage = w]
<1>1. f.size \in Nat /\ f.chunks \subseteq Chunk
  BY DEF File
<1>2. g.size = f.size /\ g.chunks = (f.chunks \ {b}) \cup {e}
  BY DEF File, Altered
<1>3. e.off = b.off /\ e.len = b.len /\ e.rec = b.rec /\ e.damage = w
  BY <1>1 DEF Chunk
<1> HIDE DEF e
<1>4. \A c \in g.chunks : c = e \/ (c \in f.chunks /\ c # b)
  BY <1>2
<1>5. \A c \in g.chunks : \E d \in f.chunks :
              /\ c.off = d.off /\ c.len = d.len /\ c.rec = d.rec
              /\ c.damage \in {d.damage, w}
  BY <1>3, <1>4
<1>6. Layout(g)
  <2>1. \A c \in g.chunks : c.off + c.len <= g.size
    BY <1>2, <1>3, <1>4 DEF Layout
  <2>2. \A c, d \in g.chunks : c.off < d.off => c.off + c.len <= d.off
    BY <1>5 DEF Layout
  <2>3. \A c, d \in g.chunks : c.off = d.off => c = d
    BY <1>3, <1>4 DEF Layout
  <2> QED BY <2>1, <2>2, <2>3 DEF Layout
<1>7. \A k : RecordOf(g, k, g.size, e) <=> RecordOf(f, k, f.size, b)
  BY <1>2, <1>3 DEF RecordOf, Whole
<1>8. \A k, c : c # e /\ c # b => (RecordOf(g, k, g.size, c) <=> RecordOf(f, k, f.size, c))
  BY <1>2 DEF RecordOf
<1>9. \A k, c : (RecordOf(g, k, g.size, c) => c \in g.chunks) /\ (RecordOf(f, k, f.size, c) => c \in f.chunks)
  BY DEF RecordOf
<1>10. \A k, c : Latest(g, k, g.size, c) =>
         \E d \in f.chunks : Latest(f, k, f.size, d) /\ d.rec = c.rec
  <2> SUFFICES ASSUME NEW k, NEW c, Latest(g, k, g.size, c)
               PROVE  \E d \in f.chunks : Latest(f, k, f.size, d) /\ d.rec = c.rec
    OBVIOUS
  <2>1. RecordOf(g, k, g.size, c) /\ c \in g.chunks
    BY <1>9 DEF Latest
  <2>2. PICK d \in f.chunks : /\ d = IF c = e THEN b ELSE c
                              /\ d.off = c.off /\ d.rec = c.rec
                              /\ RecordOf(f, k, f.size, d)
    BY <1>3, <1>4, <1>7, <1>8, <2>1
  <2>3. ASSUME NEW x \in f.chunks, RecordOf(f, k, f.size, x)
        PROVE  x.off <= d.off
    <3>1. CASE x = b
      <4>1. RecordOf(g, k, g.size, e) /\ e \in g.chunks
        BY <1>2, <1>7, <2>3, <3>1
      <4> QED BY <1>3, <2>2, <3>1, <4>1 DEF Latest
    <3>2. CASE x # b
      <4>1. x \in g.chunks
        BY <1>2, <3>2
      <4>2. CASE x = e
        <5>1. x = b
          BY <1>3, <4>2 DEF Layout
        <5> QED BY <3>2, <5>1
      <4>3. CASE x # e
        <5>1. RecordOf(g, k, g.size, x)
          BY <1>8, <2>3, <3>2, <4>3
        <5> QED BY <2>2, <4>1, <5>1 DEF Latest
      <4> QED BY <4>2, <4>3
    <3> QED BY <3>1, <3>2
  <2> QED BY <2>2, <2>3 DEF Latest
<1>11. \A k : (\A c \in g.chunks : ~RecordOf(g, k, g.size, c)) =>
              \A c \in f.chunks : ~RecordOf(f, k, f.size, c)
  <2>1. e \in g.chunks /\ \A c \in f.chunks : c # b => c \in g.chunks
    BY <1>2
  <2>2. e \in f.chunks => e = b
    BY <1>3 DEF Layout
  <2> QED BY <1>7, <1>8, <2>1, <2>2
<1>12. ASSUME NEW al, NEW t, Agrees(f, al, t) PROVE Agrees(g, al, t)
  BY <1>10, <1>11, <1>12 DEF Agrees
<1> QED BY <1>2, <1>5, <1>6, <1>12

-----------------------------------------------------------------------------
(* The invariant. *)

\* Without the errors outside SafeFaults no write fails: the buffer of the
\* stream is empty whenever a call begins.
LEMMA NoPending ==
  ASSUME Faults \subseteq SafeFaults, pending = None
  PROVE  /\ Flushed = file
         /\ ClosedFiles = {file}
         /\ ~FlushFails
         /\ \A r : ~AppendFails(r)
         /\ {"append", "read", "install", "size"} \cap Faults = {}
BY DEF SafeFaults, Flushed, ClosedFiles, FlushFails, AppendFails

\* The inductive invariant contains the one of type correctness.
LEMMA IInvImpliesTypeInv == IInv => TypeInv
BY DEF IInv, TypeInv, JobInv, JobOf, TypeOK

\* A step that leaves the file alone keeps what the invariant says of it.
LEMMA FileInvKept ==
  ASSUME IInv, TypeOK', file' = file, pending' = None, now <= now',
         allowed' = allowed
  PROVE  FileInv'
<1>1. /\ file \in File /\ now \in Nat /\ now' \in Nat
      /\ allowed \in [Keys -> SUBSET Entry]
      /\ FileInv
  BY DEF IInv, TypeOK
<1>2. Agrees(file, allowed, now')
  BY <1>1, AgreesLater DEF FileInv
<1> QED BY <1>1, <1>2 DEF FileInv

\* A store that has never been opened satisfies the invariant.
LEMMA InvInit == Init => IInv
<1> SUFFICES ASSUME Init PROVE IInv
  OBVIOUS
<1>1. TypeOK
  BY TypeInit DEF TypeInv
<1>2. FileInv
  BY DEF Init, FileInv, EmptyFile, Layout, Agrees, Permitted
<1>3. TornInv
  BY DEF Init, TornInv, EmptyFile
<1> QED BY <1>1, <1>2, <1>3 DEF Init, IInv, ScanInv, TruncInv, IndexInv, JobInv, RenamedInv

\* Cutting the file where recover() has stopped removes the one incomplete record.
LEMMA TailCut ==
  ASSUME IInv, phase = "truncating", NEW cut, cut = Resize(file, scan.pos)
  PROVE  /\ Layout(cut)
         /\ \A c \in cut.chunks : c \in file.chunks /\ Whole(c)
         /\ \A c \in file.chunks : Whole(c) => c \in cut.chunks
         /\ Agrees(cut, allowed, now)
         /\ IndexOf(scan.index, cut, cut.size, now)
<1>1. /\ file \in File /\ Layout(file) /\ scan.pos \in Nat
      /\ Agrees(file, allowed, now) /\ TornInv /\ ScanInv /\ TruncInv
  BY DEF IInv, TypeOK, FileInv
<1>2. PICK torn \in file.chunks : torn.off = scan.pos /\ ~Whole(torn)
  BY <1>1 DEF TruncInv
<1>3. /\ torn.off + torn.len = file.size
      /\ \A c \in file.chunks : c.off < scan.pos => Whole(c) /\ c.off + c.len <= scan.pos
      /\ IndexOf(scan.index, file, scan.pos, now)
  BY <1>1, <1>2 DEF TornInv, ScanInv
<1>4. /\ file \in File /\ Layout(file) /\ scan.pos \in Nat
  BY <1>1
<1>5. /\ cut.chunks = file.chunks \ {torn}
      /\ \A c \in cut.chunks : Whole(c)
      /\ Layout(cut)
      /\ \A k, c : RecordOf(cut, k, cut.size, c) <=> RecordOf(file, k, file.size, c)
      /\ \A k, c : RecordOf(cut, k, cut.size, c) <=> RecordOf(file, k, scan.pos, c)
  BY <1>4, <1>2, <1>3, ResizeEffect
<1>6. Agrees(cut, allowed, now)
  BY <1>1, <1>5, SameRecords
<1>7. IndexOf(scan.index, cut, cut.size, now)
  BY <1>3, <1>5, SameRecords
<1> QED BY <1>2, <1>5, <1>6, <1>7

\* The steps of open() and recover().
LEMMA InvRecovery ==
  ASSUME Faults \subseteq SafeFaults, IInv, Recovery, TypeOK'
  PROVE  IInv'
<1>t. /\ file \in File /\ now \in Nat /\ pending = None /\ scan.index \in Index
      /\ scan.pos \in Nat /\ scan.nowMs \in Nat /\ file.size \in Nat
      /\ Layout(file) /\ Agrees(file, allowed, now)
      /\ FileInv /\ TornInv /\ ScanInv /\ TruncInv
  BY ChunkType DEF IInv, TypeOK, FileInv
<1>s. /\ Flushed = file /\ ClosedFiles = {file} /\ ~FlushFails
      /\ {"append", "read", "install", "size"} \cap Faults = {}
  BY <1>t, NoPending
<1>k. ASSUME file' = file, pending' = None, now' = now, allowed' = allowed
      PROVE  FileInv'
  BY <1>k, <1>t, FileInvKept
<1> USE DEF disk, job, aux
<1>1. CASE Open
  <2>1. /\ phase \in {"down", "failed"} /\ phase' = "recovering" /\ file' = file
        /\ pending' = None /\ now' = now /\ allowed' = allowed
        /\ scan' = [NoScan EXCEPT !.total = file.size, !.nowMs = now]
    BY <1>1, <1>s DEF Open
  <2>2. /\ scan'.pos = 0 /\ scan'.total = file.size /\ scan'.nowMs = now
        /\ scan'.unreadable = FALSE /\ scan'.index = NoIndex
    BY <2>1 DEF NoScan
  <2>3. \A c \in file.chunks : c.off \in Nat
    BY <1>t, ChunkType
  <2>4. IndexOf(NoIndex, file, 0, now)
    BY <2>3 DEF IndexOf, NoIndex, RecordOf
  <2>5. ScanInv'
    BY <1>t, <2>1, <2>2, <2>3, <2>4 DEF ScanInv
  <2>6. TornInv'
    BY <1>t, <2>1 DEF TornInv
  <2> QED BY <1>k, <2>1, <2>5, <2>6
        DEF IInv, TruncInv, IndexInv, JobInv, RenamedInv
<1>2. CASE RecoverRecord
  <2>1. PICK c \in file.chunks :
          /\ c.off = scan.pos
          /\ Valid(c)
          /\ scan' = [scan EXCEPT !.pos = @ + RecordBytes(c.rec),
                                  !.index = Replay(@, c, scan.nowMs)]
    BY <1>2 DEF RecoverRecord
  <2>2. /\ phase = "recovering" /\ phase' = "recovering" /\ file' = file
        /\ pending' = None /\ now' = now /\ allowed' = allowed
    BY <1>2, <1>t DEF RecoverRecord
  <2> DEFINE q == scan.pos + RecordBytes(c.rec)
  <2>3. scan \in [pos: Nat, total: Nat, nowMs: Nat, unreadable: BOOLEAN, index: Index]
    BY DEF IInv, TypeOK
  <2>4. /\ scan'.pos = q
        /\ scan'.index = Replay(scan.index, c, scan.nowMs)
        /\ scan'.total = scan.total /\ scan'.nowMs = scan.nowMs
        /\ scan'.unreadable = scan.unreadable
    BY <2>1, <2>3
  <2>5. /\ q <= file.size
        /\ \A d \in file.chunks : d.off < q => Whole(d) /\ d.off + d.len <= q
        /\ IndexOf(Replay(scan.index, c, scan.nowMs), file, q, now)
    BY <1>t, <2>1, <2>2, RecoverStep DEF ScanInv, Valid
  <2> HIDE DEF q
  <2>6. ScanInv'
    BY <1>t, <2>2, <2>4, <2>5 DEF ScanInv
  <2>7. TornInv'
    BY <1>t, <2>2 DEF TornInv
  <2> QED BY <1>k, <2>2, <2>6, <2>7
        DEF IInv, TruncInv, IndexInv, JobInv, RenamedInv
<1>3. CASE RecoverTail
  <2>1. /\ phase = "recovering" /\ phase' = "truncating" /\ file' = file
        /\ pending' = None /\ now' = now /\ allowed' = allowed /\ scan' = scan
    BY <1>3, <1>t DEF RecoverTail
  <2>2. PICK c \in file.chunks : /\ c.off = scan.pos
                                 /\ LooksTruncated(c, scan.total - scan.pos)
    BY <1>3, <1>s, <1>t, <2>1 DEF RecoverTail, ScanInv
  <2>3. ~Whole(c)
    BY <1>t, <2>1, <2>2, WholeNotTruncated DEF ScanInv, FileInv
  <2>4. ScanInv' /\ TruncInv' /\ TornInv'
    BY <1>t, <2>1, <2>2, <2>3 DEF ScanInv, TruncInv, TornInv
  <2> QED BY <1>k, <2>1, <2>4 DEF IInv, IndexInv, JobInv, RenamedInv
<1>4. CASE RecoverCorruption \/ RecoverReadFails
  <2>1. /\ phase' = "failed" /\ file' = file
        /\ pending' = None /\ now' = now /\ allowed' = allowed
    BY <1>4, <1>t DEF RecoverCorruption, RecoverReadFails
  <2>2. TornInv'
    BY <1>t, <2>1 DEF TornInv
  <2> QED BY <1>k, <2>1, <2>2
        DEF IInv, ScanInv, TruncInv, IndexInv, JobInv, RenamedInv
<1>5. CASE RecoverDone
  <2>1. /\ phase = "recovering" /\ phase' = "up" /\ file' = file
        /\ pending' = None /\ now' = now /\ allowed' = allowed
        /\ index' = scan.index /\ scan.pos >= scan.total
    BY <1>5, <1>t DEF RecoverDone, OpenSucceeds
  <2>2. scan.pos = file.size
    BY <1>t, <2>1 DEF ScanInv
  <2>3. IndexInv'
    BY <1>t, <2>1, <2>2 DEF ScanInv, IndexInv
  <2>4. \A c \in file.chunks : Whole(c)
    BY <1>t, <2>1, <2>2, ChunkInside DEF ScanInv
  <2>5. TornInv'
    BY <2>1, <2>4 DEF TornInv
  <2> QED BY <1>k, <2>1, <2>3, <2>5
        DEF IInv, ScanInv, TruncInv, JobInv, RenamedInv
<1>6. CASE TruncateTail
  <2>1. /\ phase = "truncating" /\ phase' = "up" /\ file' = Resize(file, scan.pos)
        /\ pending' = None /\ now' = now /\ allowed' = allowed
        /\ index' = scan.index
    BY <1>6, <1>t DEF TruncateTail, OpenSucceeds
  <2>2. /\ Layout(file')
        /\ \A c \in file'.chunks : c \in file.chunks /\ Whole(c)
        /\ Agrees(file', allowed, now)
        /\ IndexOf(scan.index, file', file'.size, now)
    BY <2>1, TailCut
  <2>3. FileInv' /\ TornInv' /\ IndexInv'
    BY <1>t, <2>1, <2>2 DEF FileInv, TornInv, IndexInv
  <2> QED BY <2>1, <2>3 DEF IInv, ScanInv, TruncInv, JobInv, RenamedInv
<1>7. CASE TruncateFails
  <2>1. /\ phase = "truncating" /\ phase' = "down"
        /\ file' = file \/ file' = Resize(file, scan.pos)
        /\ pending' = None /\ now' = now /\ allowed' = allowed
    BY <1>7, <1>t, <1>s DEF TruncateFails
  <2>2. CASE file' = file
    <3>1. FileInv' /\ TornInv'
      BY <1>k, <1>t, <2>1, <2>2 DEF TornInv
    <3> QED BY <2>1, <3>1
          DEF IInv, ScanInv, TruncInv, IndexInv, JobInv, RenamedInv
  <2>3. CASE file' = Resize(file, scan.pos)
    <3>1. /\ Layout(file')
          /\ \A c \in file'.chunks : c \in file.chunks /\ Whole(c)
          /\ Agrees(file', allowed, now)
      BY <2>1, <2>3, TailCut
    <3>2. FileInv' /\ TornInv'
      BY <1>t, <2>1, <3>1 DEF FileInv, TornInv
    <3> QED BY <2>1, <3>2
          DEF IInv, ScanInv, TruncInv, IndexInv, JobInv, RenamedInv
  <2> QED BY <2>1, <2>2, <2>3
<1> QED BY <1>1, <1>2, <1>3, <1>4, <1>5, <1>6, <1>7 DEF Recovery

\* An acknowledged append of record r, with the index entry it leads to.
LEMMA InvAppend ==
  ASSUME Faults \subseteq SafeFaults, IInv, TypeOK', phase = "up", phase' = "up",
         NEW r \in Record, AppendOk(r), now' = now, Acknowledge(r),
         index' = [index EXCEPT ![r.key] = IF r.operation = "Set"
                                           THEN Metadata(file.size, r) ELSE None]
  PROVE  IInv'
<1>t. /\ file \in File /\ now \in Nat /\ pending = None /\ index \in Index
      /\ allowed \in [Keys -> SUBSET Entry]
      /\ Layout(file) /\ Agrees(file, allowed, now)
      /\ \A c \in file.chunks : Whole(c) /\ c.damage # "size"
      /\ IndexOf(index, file, file.size, now)
      /\ r.key \in Keys
  BY DEF IInv, TypeOK, FileInv, TornInv, IndexInv, Record
<1>1. file' = WriteBytes(file, r, RecordBytes(r)) /\ pending' = None
  BY <1>t, NoPending DEF AppendOk
<1>2. RecordBytes(r) \in Nat \ {0}
  BY RecordBytesType
<1>3. file'.chunks = file.chunks \cup {NewChunk(file, r, RecordBytes(r))} /\ Layout(file')
  BY <1>t, <1>1, <1>2, WriteBytesEffect
<1>4. Whole(NewChunk(file, r, RecordBytes(r)))
      /\ NewChunk(file, r, RecordBytes(r)).damage = "none"
  BY DEF NewChunk, Whole
<1>5. \A c \in file'.chunks : Whole(c) /\ c.damage # "size"
  BY <1>t, <1>3, <1>4
<1>6. EntryOf(r) \in allowed'[r.key] /\ \A k \in Keys : k # r.key => allowed'[k] = allowed[k]
  BY <1>t DEF Acknowledge
<1>7. Agrees(file', allowed', now)
  <2>1. file \in File /\ Layout(file) /\ now \in Nat /\ Agrees(file, allowed, now)
    BY <1>t
  <2> QED BY <2>1, <1>1, <1>6, AppendAgrees
<1>8. IndexOf(index', file', file'.size, now)
  <2>1. /\ file \in File /\ Layout(file) /\ now \in Nat /\ index \in Index
        /\ IndexOf(index, file, file.size, now)
    BY <1>t
  <2> QED BY <2>1, <1>1, AppendIndex
<1>9. FileInv' /\ TornInv' /\ IndexInv'
  BY <1>1, <1>3, <1>5, <1>7, <1>8 DEF FileInv, TornInv, IndexInv
<1> QED BY <1>9 DEF IInv, ScanInv, TruncInv, JobInv, RenamedInv

\* The process dies while it appends record r.
LEMMA InvAppendTorn ==
  ASSUME Faults \subseteq SafeFaults, IInv, TypeOK', phase = "up", ProcessDies,
         NEW r \in Record, AppendTorn(r), now' = now, LeaveOpen(r)
  PROVE  IInv'
<1>t. /\ file \in File /\ now \in Nat /\ pending = None /\ phase' = "down" /\ pending' = None
      /\ allowed \in [Keys -> SUBSET Entry]
      /\ Layout(file) /\ Agrees(file, allowed, now)
      /\ \A c \in file.chunks : Whole(c) /\ c.damage # "size"
      /\ r.key \in Keys
  BY DEF IInv, TypeOK, FileInv, TornInv, Record, ProcessDies
<1>1. PICK m \in 0..RecordBytes(r) : file' = WriteBytes(file, r, m)
  BY <1>t, NoPending DEF AppendTorn
<1>2. RecordBytes(r) \in Nat \ {0}
  BY RecordBytesType
<1>3. Agrees(file', allowed', now)
  <2>1. /\ file \in File /\ Layout(file) /\ now \in Nat /\ Agrees(file, allowed, now)
        /\ allowed \in [Keys -> SUBSET Entry]
    BY <1>t
  <2>2. allowed' = [allowed EXCEPT ![r.key] = @ \cup {EntryOf(r)}]
    BY DEF LeaveOpen
  <2> QED BY <2>1, <2>2, <1>1, TornAgrees
<1>4. CASE m = 0
  <2>1. file' = file
    BY <1>1, <1>4 DEF WriteBytes
  <2>2. FileInv' /\ TornInv'
    BY <1>t, <1>3, <2>1 DEF FileInv, TornInv
  <2> QED BY <1>t, <2>2 DEF IInv, ScanInv, TruncInv, IndexInv, JobInv, RenamedInv
<1>5. CASE m # 0
  <2>1. m \in Nat \ {0}
    BY <1>2, <1>5
  <2>2. /\ file'.chunks = file.chunks \cup {NewChunk(file, r, m)}
        /\ file'.size = file.size + m
        /\ Layout(file')
    BY <1>t, <1>1, <2>1, WriteBytesEffect
  <2>3. /\ NewChunk(file, r, m).off + NewChunk(file, r, m).len = file'.size
        /\ NewChunk(file, r, m).damage = "none"
    BY <2>2 DEF NewChunk
  <2>4. FileInv' /\ TornInv'
    BY <1>t, <1>3, <2>2, <2>3 DEF FileInv, TornInv
  <2> QED BY <1>t, <2>4 DEF IInv, ScanInv, TruncInv, IndexInv, JobInv, RenamedInv
<1> QED BY <1>4, <1>5

\* Expired entries leave the index of an open store.
LEMMA InvDrop ==
  ASSUME IInv, TypeOK', phase = "up", phase' = "up", file' = file, pending' = None,
         now' = now, allowed' = allowed,
         \A k \in Keys : \/ index'[k] = index[k]
                         \/ index'[k] = None /\ isExpired(index[k].expiresAtMs, now)
  PROVE  IInv'
<1>t. /\ file \in File /\ now \in Nat /\ TornInv
      /\ IndexOf(index, file, file.size, now)
  BY DEF IInv, TypeOK, IndexInv
<1>1. FileInv'
  BY <1>t, FileInvKept
<1>2. IndexOf(index', file, file.size, now)
  BY <1>t, IndexDrop
<1>3. TornInv' /\ IndexInv'
  BY <1>t, <1>2 DEF TornInv, IndexInv
<1> QED BY <1>1, <1>3 DEF IInv, ScanInv, TruncInv, JobInv, RenamedInv

\* cleanupExpired and compact drop expired entries only.
LEMMA UnexpiredDrops ==
  ASSUME TypeOK, NEW k \in Keys
  PROVE  \/ Unexpired[k] = index[k]
         \/ Unexpired[k] = None /\ isExpired(index[k].expiresAtMs, now)
BY DEF Unexpired, Present

\* The steps of set, get, remove and cleanupExpired.
LEMMA InvOperations ==
  ASSUME Faults \subseteq SafeFaults, IInv, Operations, TypeOK'
  PROVE  IInv'
<1>t. pending = None /\ TypeOK /\ now \in Nat /\ index \in Index
  BY DEF IInv, FileInv, TypeOK
<1>s. Flushed = file /\ ~FlushFails /\ \A r : ~AppendFails(r)
  BY <1>t, NoPending
<1>d. \A k \in Keys : /\ DeleteRecord(k) \in Record
                      /\ DeleteRecord(k).key = k
                      /\ DeleteRecord(k).operation = "Delete"
  BY DeleteRecordType DEF DeleteRecord
<1> USE DEF disk, job, aux
<1>1. ASSUME NEW k \in Keys, NEW v \in Values, NEW ttl \in TTLs, Set(k, v, ttl)
      PROVE  IInv'
  <2> DEFINE r == RecordFor(k, v, ttl)
  <2>1. r \in Record /\ r.key = k /\ r.operation = "Set"
    BY <1>t, RecordForType
  <2>2. /\ phase = "up" /\ phase' = "up" /\ now' = now /\ AppendOk(r) /\ Acknowledge(r)
        /\ index' = [index EXCEPT ![k] = Metadata(file.size, r)]
    BY <1>1, <1>s DEF Set
  <2> HIDE DEF r
  <2>3. index' = [index EXCEPT ![r.key] = IF r.operation = "Set"
                                          THEN Metadata(file.size, r) ELSE None]
    BY <2>1, <2>2
  <2> QED BY <2>1, <2>2, <2>3, InvAppend
<1>2. ASSUME NEW k \in Keys, NEW v \in Values, NEW ttl \in TTLs, SetFails(k, v, ttl)
      PROVE  IInv'
  BY <1>2, <1>s DEF SetFails
<1>3. ASSUME NEW k \in Keys, NEW v \in Values, NEW ttl \in TTLs, SetCrash(k, v, ttl)
      PROVE  IInv'
  BY <1>3, <1>t, RecordForType, InvAppendTorn DEF SetCrash
<1>4. ASSUME NEW k \in Keys, Remove(k)
      PROVE  IInv'
  <2> DEFINE r == DeleteRecord(k)
  <2>1. r \in Record /\ r.key = k /\ r.operation = "Delete"
    BY <1>d
  <2>2. /\ phase = "up" /\ phase' = "up" /\ now' = now /\ AppendOk(r) /\ Acknowledge(r)
        /\ index' = [index EXCEPT ![k] = None]
    BY <1>4 DEF Remove
  <2> HIDE DEF r
  <2>3. index' = [index EXCEPT ![r.key] = IF r.operation = "Set"
                                          THEN Metadata(file.size, r) ELSE None]
    BY <2>1, <2>2
  <2> QED BY <2>1, <2>2, <2>3, InvAppend
<1>5. ASSUME NEW k \in Keys, RemoveFails(k)
      PROVE  IInv'
  BY <1>5, <1>s DEF RemoveFails
<1>6. ASSUME NEW k \in Keys, RemoveCrash(k)
      PROVE  IInv'
  BY <1>6, <1>d, InvAppendTorn DEF RemoveCrash
<1>7. ASSUME NEW k \in Keys, ReadValue(k)
      PROVE  IInv'
  BY <1>7, <1>s, InvDrop DEF ReadValue
<1>8. ASSUME NEW k \in Keys, EraseExpired(k)
      PROVE  IInv'
  <2>1. \A j \in Keys : \/ index'[j] = index[j]
                        \/ index'[j] = None /\ isExpired(index[j].expiresAtMs, now)
    BY <1>8, <1>t DEF EraseExpired, Index
  <2> QED BY <1>8, <1>t, <2>1, InvDrop DEF EraseExpired
<1>9. CASE CleanupExpired
  BY <1>9, <1>t, UnexpiredDrops, InvDrop DEF CleanupExpired
<1> QED BY <1>1, <1>2, <1>3, <1>4, <1>5, <1>6, <1>7, <1>8, <1>9 DEF Operations

\* The record compact() prepares for a live key has the entry of the last
\* record of that key.
LEMMA LiveRecordEntry ==
  ASSUME IInv, phase = "up", NEW k \in Keys, Present(k)
  PROVE  /\ LiveRecord(file, k) \in Record
         /\ LiveRecord(file, k).key = k
         /\ LiveRecord(file, k).operation = "Set"
         /\ \E c \in file.chunks : /\ Latest(file, k, file.size, c)
                                  /\ EntryOf(c.rec) = EntryOf(LiveRecord(file, k))
<1>1. /\ file \in File /\ Layout(file) /\ index[k] \in RecordMetadata
      /\ IndexOf(index, file, file.size, now) /\ index[k] # None
  BY DEF IInv, TypeOK, FileInv, IndexInv, Index, Present
<1>2. PICK c \in file.chunks : /\ Latest(file, k, file.size, c)
                               /\ c.rec.operation = "Set"
                               /\ index[k] = Metadata(c.off, c.rec)
  BY <1>1 DEF IndexOf
<1>3. Whole(c)
  BY <1>2 DEF Latest, RecordOf
<1>4. ValueAt(file, index[k]) = c.rec.value
  BY <1>1, <1>2, <1>3, ValueAtMetadata
<1>5. index[k].expiresAtMs = c.rec.expiresAtMs
  BY <1>2 DEF Metadata
<1>6. EntryOf(c.rec) = EntryOf(LiveRecord(file, k))
  BY <1>2, <1>4, <1>5 DEF EntryOf, LiveRecord, SetRecord
<1>7. LiveRecord(file, k) \in Record
  <2>1. index[k].valueSize \in Nat /\ index[k].expiresAtMs \in Nat
    BY <1>1 DEF RecordMetadata
  <2>2. ValueAt(file, index[k]) \in Values \cup {None, Garbage}
    BY <1>1, ValueAtType
  <2> QED BY <2>1, <2>2, SetRecordType DEF LiveRecord
<1> QED BY <1>2, <1>6, <1>7 DEF LiveRecord, SetRecord

\* The compaction file agrees with the history and has the index that
\* compact() has built for it.
LEMMA CompactionFile ==
  ASSUME IInv, phase = "compacting", todo = {}
  PROVE  /\ Agrees(tmp, allowed, now)
         /\ IndexOf(newIndex, tmp, tmp.size, now)
<1>t. /\ file \in File /\ tmp \in File /\ Layout(tmp) /\ now \in Nat
      /\ Agrees(file, allowed, now) /\ IndexOf(index, file, file.size, now)
      /\ \A c \in tmp.chunks : Whole(c)
      /\ \A k \in Keys : JobOf(k)
      /\ newIndex \in Index
  BY DEF IInv, TypeOK, FileInv, IndexInv, JobInv
<1>1. \A c \in tmp.chunks : c.off < tmp.size /\ c.off \in Nat /\ c.rec \in Record
  BY <1>t, ChunkInside, ChunkType
<1>2. \A k, c : RecordOf(tmp, k, tmp.size, c) <=> c \in tmp.chunks /\ c.rec.key = k
  BY <1>t, <1>1 DEF RecordOf
<1>3. ASSUME NEW k \in Keys, index[k] # None
      PROVE  /\ \E c \in tmp.chunks : /\ Latest(tmp, k, tmp.size, c)
                                     /\ c.rec = live[k]
                                     /\ newIndex[k] = Metadata(c.off, c.rec)
             /\ \A c \in tmp.chunks : Latest(tmp, k, tmp.size, c) => c.rec = live[k]
             /\ live[k].operation = "Set"
             /\ Permitted(allowed[k], EntryOf(live[k]), now)
             /\ newIndex[k] # None
  <2>1. /\ live[k].key = k /\ live[k].operation = "Set"
        /\ \E c \in file.chunks : /\ Latest(file, k, file.size, c)
                                 /\ EntryOf(c.rec) = EntryOf(live[k])
        /\ \E c \in tmp.chunks : /\ OnlyCopy(tmp, k, live[k], c)
                                /\ newIndex[k] = Metadata(c.off, c.rec)
    BY <1>t, <1>3 DEF JobOf
  <2>2. PICK c \in tmp.chunks : /\ OnlyCopy(tmp, k, live[k], c)
                                /\ newIndex[k] = Metadata(c.off, c.rec)
    BY <2>1
  <2>3. c.rec = live[k] /\ \A d \in tmp.chunks : d.rec.key = k => d = c
    BY <2>2 DEF OnlyCopy
  <2>4. Latest(tmp, k, tmp.size, c)
    BY <1>1, <1>2, <2>1, <2>3 DEF Latest
  <2>5. \A d \in tmp.chunks : Latest(tmp, k, tmp.size, d) => d = c
    BY <1>2, <2>3 DEF Latest
  <2>6. Permitted(allowed[k], EntryOf(live[k]), now)
    BY <1>t, <2>1 DEF Agrees
  <2>7. newIndex[k] # None
    BY <1>1, <2>2, MetadataType, NoneAssumption
  <2> QED BY <2>1, <2>2, <2>3, <2>4, <2>5, <2>6, <2>7
<1>4. ASSUME NEW k \in Keys, index[k] = None
      PROVE  /\ \A c \in tmp.chunks : ~RecordOf(tmp, k, tmp.size, c)
             /\ newIndex[k] = None
             /\ Permitted(allowed[k], None, now)
  <2>1. newIndex[k] = None /\ \A c \in tmp.chunks : c.rec.key # k
    BY <1>t, <1>4 DEF JobOf
  <2>2. CASE \A c \in file.chunks : ~RecordOf(file, k, file.size, c)
    BY <1>t, <1>2, <2>1, <2>2 DEF Agrees
  <2>3. CASE \E c \in file.chunks : Latest(file, k, file.size, c) /\ Dead(EntryOf(c.rec), now)
    <3>1. PICK c \in file.chunks : Latest(file, k, file.size, c) /\ Dead(EntryOf(c.rec), now)
      BY <2>3
    <3>2. Permitted(allowed[k], EntryOf(c.rec), now)
      BY <1>t, <3>1 DEF Agrees
    <3>3. Permitted(allowed[k], None, now)
      BY <3>1, <3>2 DEF Permitted, Dead
    <3> QED BY <1>2, <2>1, <3>3
  <2> QED BY <1>t, <1>4, <2>2, <2>3 DEF IndexOf
<1>5. Agrees(tmp, allowed, now)
  <2> SUFFICES ASSUME NEW k \in Keys
               PROVE  /\ \A c \in tmp.chunks : Latest(tmp, k, tmp.size, c) =>
                             Permitted(allowed[k], EntryOf(c.rec), now)
                      /\ (\A c \in tmp.chunks : ~RecordOf(tmp, k, tmp.size, c)) =>
                             Permitted(allowed[k], None, now)
    BY DEF Agrees
  <2>1. \A c : Latest(tmp, k, tmp.size, c) => RecordOf(tmp, k, tmp.size, c)
    BY DEF Latest
  <2>2. CASE index[k] # None
    BY <1>3, <2>1, <2>2
  <2>3. CASE index[k] = None
    BY <1>4, <2>1, <2>3
  <2> QED BY <2>2, <2>3
<1>6. IndexOf(newIndex, tmp, tmp.size, now)
  BY <1>3, <1>4 DEF IndexOf
<1> QED BY <1>5, <1>6

\* The steps of compact().
LEMMA InvCompaction ==
  ASSUME Faults \subseteq SafeFaults, IInv, Compaction, TypeOK'
  PROVE  IInv'
<1>t. /\ pending = None /\ TypeOK /\ now \in Nat /\ index \in Index /\ file \in File
      /\ FileInv /\ TornInv /\ IndexInv /\ JobInv /\ RenamedInv
      /\ newIndex \in [Keys -> RecordMetadata \cup {None}]
      /\ todo \subseteq Keys
  BY DEF IInv, FileInv, TypeOK, Index
<1>s. /\ Flushed = file /\ ~FlushFails /\ ClosedFiles = {file} /\ FileAfterReads = file
      /\ "install" \notin Faults
  BY <1>t, NoPending DEF FileAfterReads
<1>k. ASSUME file' = file, pending' = None, now' = now, allowed' = allowed
      PROVE  FileInv'
  BY <1>k, <1>t, FileInvKept
<1>i. IndexOf(index, file, file.size, now) /\ phase = "up" => IndexOf(Unexpired, file, file.size, now)
  BY <1>t, UnexpiredDrops, IndexDrop
<1> USE DEF disk, job, aux
<1>1. CASE CompactBegin
  <2>1. /\ phase = "up" /\ phase' = "compacting" /\ file' = file /\ pending' = None
        /\ now' = now /\ allowed' = allowed /\ index' = Unexpired
        /\ todo' = LiveKeys /\ newIndex' = NoIndex /\ tmp' = EmptyFile
        /\ live' = [k \in Keys |-> IF Present(k) THEN LiveRecord(file, k) ELSE None]
    BY <1>1, <1>s, <1>t DEF CompactBegin
  <2>2. IndexInv' /\ TornInv'
    BY <1>t, <1>i, <2>1 DEF IndexInv, TornInv
  <2>3. tmp' \in File /\ Layout(tmp') /\ tmp'.chunks = {}
    BY <2>1, EmptyFileType DEF EmptyFile, Layout
  <2>4. ASSUME NEW k \in Keys PROVE JobOf(k)'
    <3>1. newIndex'[k] = None
      BY <2>1 DEF NoIndex
    <3>2. CASE Present(k)
      <4>1. index'[k] = index[k] /\ index[k] # None /\ k \in todo'
        BY <2>1, <2>4, <3>2 DEF Unexpired, LiveKeys, Present
      <4>2. live'[k] = LiveRecord(file, k)
        BY <2>1, <2>4, <3>2
      <4>3. /\ live'[k] \in Record
            /\ live'[k].key = k
            /\ live'[k].operation = "Set"
            /\ \E c \in file.chunks : /\ Latest(file, k, file.size, c)
                                     /\ EntryOf(c.rec) = EntryOf(live'[k])
        BY <2>1, <3>2, <4>2, LiveRecordEntry
      <4> QED BY <2>1, <2>3, <3>1, <4>1, <4>3 DEF JobOf
    <3>3. CASE ~Present(k)
      <4>1. index'[k] = None /\ k \notin todo'
        BY <2>1, <2>4, <3>3 DEF Unexpired, LiveKeys
      <4> QED BY <2>3, <3>1, <4>1 DEF JobOf
    <3> QED BY <3>2, <3>3
  <2>5. JobInv'
    BY <2>3, <2>4 DEF JobInv
  <2> QED BY <1>k, <2>1, <2>2, <2>5 DEF IInv, ScanInv, TruncInv, RenamedInv
<1>2. CASE CompactGivesUp
  <2>1. /\ phase = "up" /\ phase' = "up" /\ file' = file /\ pending' = None
        /\ now' = now /\ allowed' = allowed /\ index' = Unexpired
    BY <1>2, <1>s, <1>t DEF CompactGivesUp
  <2> QED BY <1>t, <2>1, UnexpiredDrops, InvDrop
<1>3. ASSUME NEW k \in Keys, CompactWrite(k)
      PROVE  IInv'
  <2> DEFINE n == RecordBytes(live[k])
             new == NewChunk(tmp, live[k], n)
  <2>1. /\ phase = "compacting" /\ phase' = "compacting" /\ k \in todo
        /\ file' = file /\ pending' = None /\ now' = now /\ allowed' = allowed
        /\ index' = index /\ live' = live /\ todo' = todo \ {k}
        /\ tmp' = WriteBytes(tmp, live[k], n)
        /\ newIndex' = [newIndex EXCEPT ![k] = Metadata(tmp.size, live[k])]
    BY <1>3, <1>t DEF CompactWrite
  <2>2. /\ index[k] # None /\ live[k] \in Record /\ live[k].key = k
        /\ \A d \in tmp.chunks : d.rec.key # k
    BY <1>t, <1>3, <2>1 DEF JobInv, JobOf
  <2>3. n \in Nat \ {0}
    BY <2>2, RecordBytesType
  <2>4. /\ tmp' \in File /\ Layout(tmp') /\ tmp'.chunks = tmp.chunks \cup {new}
    BY <1>t, <2>1, <2>2, <2>3, WriteBytesEffect DEF JobInv
  <2>5. /\ new.rec = live[k] /\ new.off = tmp.size /\ Whole(new) /\ new.damage = "none"
    BY DEF NewChunk, Whole
  <2> HIDE DEF n, new
  <2>6. ASSUME NEW j \in Keys PROVE JobOf(j)'
    <3>1. JobOf(j)
      BY <1>t, <2>1 DEF JobInv
    <3>2. CASE j = k
      <4>1. newIndex'[j] = Metadata(new.off, new.rec)
        BY <1>t, <2>1, <2>5, <3>2
      <4>2. OnlyCopy(tmp', j, live[k], new) /\ new \in tmp'.chunks /\ j \notin todo'
        BY <2>1, <2>2, <2>4, <2>5, <3>2 DEF OnlyCopy
      <4> QED BY <2>1, <2>2, <3>1, <3>2, <4>1, <4>2 DEF JobOf
    <3>3. CASE j # k
      <4>1. newIndex'[j] = newIndex[j] /\ (j \in todo' <=> j \in todo)
        BY <1>t, <2>1, <3>3
      <4>2. (\A d \in tmp.chunks : d.rec.key # j) => \A d \in tmp'.chunks : d.rec.key # j
        BY <2>2, <2>4, <2>5, <3>3
      <4>3. \A c \in tmp.chunks : OnlyCopy(tmp, j, live[j], c) => OnlyCopy(tmp', j, live[j], c)
        BY <2>2, <2>4, <2>5, <3>3 DEF OnlyCopy
      <4>4. tmp.chunks \subseteq tmp'.chunks
        BY <2>4
      <4>5. CASE index[j] = None
        BY <2>1, <3>1, <4>1, <4>2, <4>5 DEF JobOf
      <4>6. CASE index[j] # None
        BY <2>1, <3>1, <4>1, <4>2, <4>3, <4>4, <4>6 DEF JobOf
      <4> QED BY <4>5, <4>6
    <3> QED BY <3>2, <3>3
  <2>7. JobInv'
    BY <1>t, <2>1, <2>4, <2>5, <2>6 DEF JobInv
  <2>8. IndexInv' /\ TornInv'
    BY <1>t, <2>1 DEF IndexInv, TornInv
  <2> QED BY <1>k, <2>1, <2>7, <2>8 DEF IInv, ScanInv, TruncInv, RenamedInv
<1>4. CASE CompactWriteFails
  <2>1. /\ phase = "compacting" /\ phase' = "up" /\ file' = file /\ pending' = None
        /\ now' = now /\ allowed' = allowed /\ index' = index
    BY <1>4, <1>t DEF CompactWriteFails
  <2>2. IndexInv' /\ TornInv'
    BY <1>t, <2>1 DEF IndexInv, TornInv
  <2> QED BY <1>k, <2>1, <2>2 DEF IInv, ScanInv, TruncInv, JobInv, RenamedInv
<1>5. CASE CompactRename
  <2>1. /\ phase = "compacting" /\ phase' = "renamed" /\ todo = {} /\ file' = tmp
        /\ pending' = None /\ now' = now /\ allowed' = allowed /\ newIndex' = newIndex
    BY <1>5 DEF CompactRename
  <2>2. /\ Layout(tmp) /\ \A c \in tmp.chunks : Whole(c) /\ c.damage = "none"
    BY <1>t, <2>1 DEF JobInv
  <2>3. Agrees(tmp, allowed, now) /\ IndexOf(newIndex, tmp, tmp.size, now)
    BY <2>1, CompactionFile
  <2>4. FileInv' /\ TornInv' /\ RenamedInv'
    BY <2>1, <2>2, <2>3 DEF FileInv, TornInv, RenamedInv
  <2> QED BY <2>1, <2>4 DEF IInv, ScanInv, TruncInv, JobInv, IndexInv
<1>6. CASE CompactRenameFails
  <2>1. /\ phase = "compacting" /\ phase' = "up" /\ file' = file /\ pending' = None
        /\ now' = now /\ allowed' = allowed /\ index' = index
    BY <1>6, <1>t, <1>s DEF CompactRenameFails
  <2>2. IndexInv' /\ TornInv'
    BY <1>t, <2>1 DEF IndexInv, TornInv
  <2> QED BY <1>k, <2>1, <2>2 DEF IInv, ScanInv, TruncInv, JobInv, RenamedInv
<1>7. CASE CompactReopen
  <2>1. /\ phase = "renamed" /\ phase' = "up" /\ file' = file /\ pending' = None
        /\ now' = now /\ allowed' = allowed /\ index' = newIndex
    BY <1>7, <1>t DEF CompactReopen
  <2>2. IndexInv' /\ TornInv'
    BY <1>t, <2>1 DEF IndexInv, RenamedInv, TornInv
  <2> QED BY <1>k, <2>1, <2>2 DEF IInv, ScanInv, TruncInv, JobInv, RenamedInv
<1>8. CASE CompactReopenFails
  BY <1>8, <1>s DEF CompactReopenFails
<1> QED BY <1>1, <1>2, <1>3, <1>4, <1>5, <1>6, <1>7, <1>8 DEF Compaction

\* A step that leaves the store closed and the file as it is.
LEMMA InvDown ==
  ASSUME IInv, TypeOK', phase' = "down", file' = file, pending' = None, now' = now,
         allowed' = allowed
  PROVE  IInv'
<1>1. now <= now' /\ TornInv
  BY DEF IInv, TypeOK
<1>2. FileInv' /\ TornInv'
  BY <1>1, FileInvKept DEF TornInv
<1> QED BY <1>2 DEF IInv, ScanInv, TruncInv, IndexInv, JobInv, RenamedInv

\* The passing of time: entries expire without a step of the store.
LEMMA InvTick ==
  ASSUME IInv, TypeOK', Tick
  PROVE  IInv'
<1>1. /\ now \in Nat /\ now' \in Nat /\ now <= now' /\ file' = file /\ pending' = None
      /\ allowed' = allowed /\ phase' = phase /\ scan' = scan /\ index' = index
      /\ newIndex' = newIndex /\ tmp' = tmp /\ todo' = todo /\ live' = live
      /\ file \in File /\ scan.nowMs \in Nat
      /\ TornInv /\ ScanInv /\ TruncInv /\ IndexInv /\ JobInv /\ RenamedInv
  BY DEF Tick, disk, job, IInv, TypeOK, FileInv
<1>2. FileInv'
  BY <1>1, FileInvKept
<1>3. \A idx, p : IndexOf(idx, file, p, now) => IndexOf(idx, file, p, now')
  BY <1>1, IndexLater
<1>4. TornInv' /\ TruncInv' /\ JobInv'
  BY <1>1 DEF TornInv, TruncInv, JobInv, JobOf
<1>5. ScanInv'
  BY <1>1, <1>3 DEF ScanInv
<1>6. IndexInv' /\ RenamedInv'
  BY <1>1, <1>3 DEF IndexInv, RenamedInv
<1> QED BY <1>2, <1>4, <1>5, <1>6 DEF IInv

\* Bytes altered by the medium, other than length fields.
LEMMA InvBitRot ==
  ASSUME Faults \subseteq SafeFaults, IInv, TypeOK', BitRot
  PROVE  IInv'
<1>1. PICK b \in file.chunks, w \in {"size", "payload"} \cap Faults :
        file' = Altered(file, b, w)
  BY DEF BitRot
<1>2. /\ phase' = "down" /\ pending' = None /\ allowed' = allowed /\ now' = now
      /\ file \in File /\ FileInv /\ TornInv /\ w = "payload"
  BY DEF BitRot, job, aux, IInv, TypeOK, FileInv, SafeFaults
<1>3. /\ file'.size = file.size
      /\ Layout(file')
      /\ \A c \in file'.chunks : \E d \in file.chunks :
           /\ c.off = d.off /\ c.len = d.len /\ c.rec = d.rec
           /\ c.damage \in {d.damage, w}
      /\ Agrees(file', allowed, now)
  <2>1. /\ file \in File /\ Layout(file) /\ w \in {"size", "payload"}
        /\ Agrees(file, allowed, now)
    BY <1>2 DEF FileInv
  <2> QED BY <1>1, <2>1, DamageEffect
<1>4. FileInv'
  BY <1>2, <1>3 DEF FileInv
<1>5. TornInv'
  BY <1>2, <1>3 DEF TornInv, Whole
<1> QED BY <1>2, <1>4, <1>5 DEF IInv, ScanInv, TruncInv, IndexInv, JobInv, RenamedInv

\* Every step keeps the invariant.
LEMMA InvNext ==
  ASSUME Faults \subseteq SafeFaults, IInv, [Next]_vars
  PROVE  IInv'
<1>1. TypeOK'
  BY IInvImpliesTypeInv, TypeNext DEF TypeInv
<1>2. CASE Recovery
  BY <1>1, <1>2, InvRecovery
<1>3. CASE Operations
  BY <1>1, <1>3, InvOperations
<1>4. CASE Compaction
  BY <1>1, <1>4, InvCompaction
<1>p. pending = None
  BY DEF IInv, FileInv
<1>5. CASE Close
  BY <1>1, <1>5, <1>p, InvDown DEF Close, disk, aux
<1>6. CASE Destroy
  BY <1>1, <1>6, <1>p, NoPending, InvDown DEF Destroy, aux
<1>7. CASE Crash
  BY <1>1, <1>7, InvDown DEF Crash, ProcessDies
<1>8. CASE Tick
  BY <1>1, <1>8, InvTick
<1>9. CASE BitRot
  BY <1>1, <1>9, InvBitRot
<1>10. CASE UNCHANGED vars
  BY <1>10 DEF vars, IInv, TypeOK, FileInv, TornInv, ScanInv, TruncInv, IndexInv, JobInv, JobOf, RenamedInv
<1> QED BY <1>2, <1>3, <1>4, <1>5, <1>6, <1>7, <1>8, <1>9, <1>10 DEF Next

\* The inductive invariant holds in every reachable state.
THEOREM Invariant ==
  ASSUME Faults \subseteq SafeFaults
  PROVE  Spec => []IInv
<1>1. IInv /\ [Next]_vars => IInv'
  BY InvNext
<1> QED BY <1>1, InvInit, PTL DEF Spec

-----------------------------------------------------------------------------
(* The properties. *)

\* The two ways of saying that a client sees no entry.
LEMMA LiveDead ==
  ASSUME NEW e
  PROVE  Live(e) = None <=> Dead(e, now)
BY DEF Live, Dead

\* What a get finds through the index is permitted by the history.
LEMMA AckedVisibleStep == IInv => AckedVisible
<1> SUFFICES ASSUME IInv, phase \in {"up", "compacting"}, NEW k \in Keys
             PROVE  Visible(k) \in {Live(e) : e \in allowed[k]}
  BY DEF AckedVisible
<1>t. /\ file \in File /\ Layout(file) /\ now \in Nat
      /\ Agrees(file, allowed, now) /\ IndexOf(index, file, file.size, now)
  BY DEF IInv, TypeOK, FileInv, IndexInv
<1>1. \A e : Permitted(allowed[k], e, now) /\ Dead(e, now) =>
              None \in {Live(a) : a \in allowed[k]}
  BY LiveDead DEF Permitted
<1>2. CASE index[k] = None
  <2>1. Visible(k) = None
    BY <1>2 DEF Visible, Answer
  <2>2. CASE \A c \in file.chunks : ~RecordOf(file, k, file.size, c)
    BY <1>t, <1>1, <2>1, <2>2 DEF Agrees, Dead
  <2>3. CASE \E c \in file.chunks : Latest(file, k, file.size, c) /\ Dead(EntryOf(c.rec), now)
    BY <1>t, <1>1, <2>1, <2>3 DEF Agrees
  <2> QED BY <1>t, <1>2, <2>2, <2>3 DEF IndexOf
<1>3. CASE index[k] # None
  <2>1. PICK c \in file.chunks : /\ Latest(file, k, file.size, c)
                                 /\ c.rec.operation = "Set"
                                 /\ index[k] = Metadata(c.off, c.rec)
    BY <1>t, <1>3 DEF IndexOf
  <2> DEFINE e == EntryOf(c.rec)
  <2>2. ValueAt(file, index[k]) = c.rec.value
    BY <1>t, <2>1, ValueAtMetadata DEF Latest, RecordOf
  <2>3. index[k].expiresAtMs = c.rec.expiresAtMs
    BY <2>1 DEF Metadata
  <2>4. e = [value |-> c.rec.value, expiresAtMs |-> c.rec.expiresAtMs]
    BY <2>1 DEF EntryOf
  <2>5. e # None
    BY <1>t, <2>1, ChunkType
  <2>6. Permitted(allowed[k], e, now)
    BY <1>t, <2>1 DEF Agrees
  <2>7. e.expiresAtMs = c.rec.expiresAtMs
    BY <2>4
  <2>8. Visible(k) = IF isExpired(c.rec.expiresAtMs, now) THEN None ELSE e
    BY <1>3, <2>2, <2>3, <2>4 DEF Visible, Answer
  <2> HIDE DEF e
  <2>9. CASE isExpired(c.rec.expiresAtMs, now)
    BY <1>1, <2>6, <2>7, <2>8, <2>9 DEF Dead
  <2>10. CASE ~isExpired(c.rec.expiresAtMs, now)
    <3>1. e \in allowed[k]
      BY <2>5, <2>6, <2>7, <2>10 DEF Permitted, Dead
    <3>2. Live(e) = e
      BY <2>5, <2>7, <2>10 DEF Live
    <3> QED BY <2>8, <2>10, <3>1, <3>2
  <2> QED BY <2>9, <2>10
<1> QED BY <1>2, <1>3

\* Every acknowledged set and remove is seen by the calls after it, through
\* any number of restarts, crashes in the middle of an append, expiries and
\* compactions, for every set of keys and values: no append, recover or compact
\* loses or brings back an entry.
THEOREM AckedVisibleHolds ==
  ASSUME Faults \subseteq SafeFaults
  PROVE  Spec => []AckedVisible
BY Invariant, AckedVisibleStep, PTL

\* Every offset in the index of an open store designates a complete record of
\* its key: what recover, append and compact put there stays good.
THEOREM IndexPointsToRecordHolds ==
  ASSUME Faults \subseteq SafeFaults
  PROVE  Spec => []IndexPointsToRecord
<1>1. IInv => IndexPointsToRecord
  BY DEF IInv, IndexInv, IndexOf, Latest, RecordOf, IndexPointsToRecord
<1> QED BY <1>1, Invariant, PTL

\* Nothing is ever appended behind an incomplete record.
THEOREM TornOnlyAtTailHolds ==
  ASSUME Faults \subseteq SafeFaults
  PROVE  Spec => []TornOnlyAtTail
<1>1. IInv => TornOnlyAtTail
  BY DEF IInv, TornInv, TornOnlyAtTail
<1> QED BY <1>1, Invariant, PTL

\* A step of a store that is about to cut the tail off keeps all complete records.
LEMMA TruncationStep ==
  ASSUME Faults \subseteq SafeFaults, IInv, [Next]_vars, phase = "truncating",
         NEW c \in file.chunks, Whole(c)
  PROVE  c \in file'.chunks
<1>s. ClosedFiles = {file}
  BY NoPending DEF IInv, FileInv
<1> USE DEF disk
<1>1. CASE file' = Resize(file, scan.pos)
  BY <1>1, TailCut
<1>2. CASE TruncateTail \/ TruncateFails
  BY <1>1, <1>2, <1>s DEF TruncateTail, TruncateFails
<1>3. CASE Recovery /\ ~TruncateTail /\ ~TruncateFails
  BY <1>3 DEF Recovery, Open, RecoverRecord, RecoverTail, RecoverCorruption, RecoverReadFails, RecoverDone
<1>4. ~Operations
  BY DEF Operations, Set, SetFails, SetCrash, Remove, RemoveFails, RemoveCrash,
         ReadValue, EraseExpired, CleanupExpired
<1>5. ~Compaction
  BY DEF Compaction, CompactBegin, CompactGivesUp, CompactWrite, CompactWriteFails,
         CompactRename, CompactRenameFails, CompactReopen, CompactReopenFails
<1>6. ~Close /\ ~Destroy /\ ~BitRot
  BY DEF Close, Destroy, BitRot
<1>7. CASE Crash \/ Tick \/ UNCHANGED vars
  BY <1>7 DEF Crash, Tick, vars
<1> QED BY <1>2, <1>3, <1>4, <1>5, <1>6, <1>7 DEF Next

\* recover() never cuts a complete record off.
THEOREM TruncationKeepsRecordsHolds ==
  ASSUME Faults \subseteq SafeFaults
  PROVE  Spec => TruncationKeepsRecords
<1>1. IInv /\ [Next]_vars =>
        [phase = "truncating" => \A c \in file.chunks : Whole(c) => c \in file'.chunks]_vars
  BY TruncationStep
<1> QED BY <1>1, Invariant, PTL DEF Spec, TruncationKeepsRecords

\* What a restart finds for a key is the entry of its last record.
LEMMA StoredLatest ==
  ASSUME NEW f \in File, Layout(f), NEW k \in Keys
  PROVE  /\ \A c \in f.chunks : Latest(f, k, f.size, c) => Stored(f, k) = EntryOf(c.rec)
         /\ (\A c \in f.chunks : ~RecordOf(f, k, f.size, c)) => Stored(f, k) = None
<1>1. \A c \in f.chunks : c.off < f.size /\ c.off \in Nat
  BY ChunkInside, ChunkType
<1>2. \A c : LastOf(f, k, c) <=> Latest(f, k, f.size, c)
  BY <1>1 DEF LastOf, Latest, RecordOf
<1> DEFINE last == {c \in f.chunks : LastOf(f, k, c)}
<1>3. Stored(f, k) = IF last = {} THEN None ELSE EntryOf((CHOOSE c \in last : TRUE).rec)
  BY DEF Stored
<1>4. ASSUME NEW c \in f.chunks, Latest(f, k, f.size, c)
      PROVE  Stored(f, k) = EntryOf(c.rec)
  <2>1. ASSUME NEW d \in last PROVE d = c
    <3>1. d \in f.chunks /\ d.off <= c.off /\ c.off <= d.off
      BY <1>2, <1>4, <2>1 DEF Latest
    <3> QED BY <1>1, <3>1 DEF Layout
  <2>2. last = {c}
    BY <1>2, <1>4, <2>1
  <2> HIDE DEF last
  <2> QED BY <1>3, <2>2
<1>5. ASSUME \A c \in f.chunks : ~RecordOf(f, k, f.size, c)
      PROVE  Stored(f, k) = None
  BY <1>2, <1>3, <1>5 DEF Latest
<1> QED BY <1>4, <1>5

\* Renaming the compaction file changes no entry a restart would show.
LEMMA CompactionStep ==
  ASSUME Faults \subseteq SafeFaults, IInv, [Next]_vars,
         phase = "compacting", phase' = "renamed", NEW k \in Keys
  PROVE  Live(Stored(file', k)) = Live(Stored(file, k))
<1>1. CompactRename
  <2>1. ~Recovery
    BY DEF Recovery, Open, RecoverRecord, RecoverTail, RecoverCorruption, RecoverReadFails,
           RecoverDone, TruncateTail, TruncateFails
  <2>2. ~Operations
    BY DEF Operations, Set, SetFails, SetCrash, Remove, RemoveFails, RemoveCrash,
           ReadValue, EraseExpired, CleanupExpired
  <2>3. Compaction => CompactRename
    BY DEF Compaction, CompactBegin, CompactGivesUp, CompactWrite, CompactWriteFails,
           CompactRenameFails, CompactReopen, CompactReopenFails
  <2>4. ~Close /\ ~Destroy /\ ~BitRot /\ ~Crash /\ ~Tick /\ ~UNCHANGED vars
    BY DEF Close, Destroy, BitRot, Crash, ProcessDies, Tick, vars
  <2> QED BY <2>1, <2>2, <2>3, <2>4 DEF Next
<1>2. /\ file \in File /\ tmp \in File /\ Layout(file) /\ Layout(tmp)
      /\ \A c \in tmp.chunks : Whole(c)
      /\ IndexOf(index, file, file.size, now) /\ JobOf(k) /\ todo = {} /\ file' = tmp
  BY <1>1 DEF IInv, TypeOK, FileInv, JobInv, IndexInv, CompactRename
<1>3. \A c \in tmp.chunks : c.off < tmp.size /\ c.off \in Nat
  BY <1>2, ChunkInside, ChunkType
<1>4. CASE index[k] = None
  <2>1. \A c \in tmp.chunks : ~RecordOf(tmp, k, tmp.size, c)
    BY <1>2, <1>4 DEF JobOf, RecordOf
  <2>2. Stored(tmp, k) = None
    BY <1>2, <2>1, StoredLatest
  <2>3. CASE \A c \in file.chunks : ~RecordOf(file, k, file.size, c)
    BY <1>2, <2>2, <2>3, StoredLatest
  <2>4. CASE \E c \in file.chunks : Latest(file, k, file.size, c) /\ Dead(EntryOf(c.rec), now)
    <3>1. Dead(Stored(file, k), now)
      BY <1>2, <2>4, StoredLatest
    <3> QED BY <1>2, <2>2, <3>1, LiveDead DEF Dead
  <2> QED BY <1>2, <1>4, <2>3, <2>4 DEF IndexOf
<1>5. CASE index[k] # None
  <2>1. PICK c \in file.chunks : /\ Latest(file, k, file.size, c)
                                 /\ EntryOf(c.rec) = EntryOf(live[k])
    BY <1>2, <1>5 DEF JobOf
  <2>2. PICK d \in tmp.chunks : OnlyCopy(tmp, k, live[k], d)
    BY <1>2, <1>5 DEF JobOf
  <2>3. live[k].key = k
    BY <1>2, <1>5 DEF JobOf
  <2>4. Latest(tmp, k, tmp.size, d) /\ d.rec = live[k]
    BY <1>3, <2>2, <2>3 DEF OnlyCopy, Latest, RecordOf
  <2>5. Stored(tmp, k) = Stored(file, k)
    BY <1>2, <2>1, <2>4, StoredLatest
  <2> QED BY <1>2, <2>5
<1> QED BY <1>4, <1>5

\* Compaction keeps what a restart shows: the compaction file has, for every
\* key, the live entry of the file it replaces and no other.
THEOREM CompactionPreservesHolds ==
  ASSUME Faults \subseteq SafeFaults
  PROVE  Spec => CompactionPreserves
<1>1. IInv /\ [Next]_vars =>
        [phase = "compacting" /\ phase' = "renamed" =>
           \A k \in Keys : Live(Stored(file', k)) = Live(Stored(file, k))]_vars
  BY CompactionStep
<1> QED BY <1>1, Invariant, PTL DEF Spec, CompactionPreserves

-----------------------------------------------------------------------------
(* The store implements DurableMap. *)

\* What a lookup finds through an index of the file is what a restart would show.
LEMMA AnswerStored ==
  ASSUME file \in File, Layout(file), now \in Nat,
         NEW idx, IndexOf(idx, file, file.size, now), NEW k \in Keys
  PROVE  Answer(idx, k) = Live(Stored(file, k))
<1>1. CASE idx[k] = None
  <2>1. Answer(idx, k) = None
    BY <1>1 DEF Answer
  <2>2. CASE \A c \in file.chunks : ~RecordOf(file, k, file.size, c)
    BY <2>1, <2>2, StoredLatest DEF Live
  <2>3. CASE \E c \in file.chunks : Latest(file, k, file.size, c) /\ Dead(EntryOf(c.rec), now)
    <3>1. Dead(Stored(file, k), now)
      BY <2>3, StoredLatest
    <3> QED BY <2>1, <3>1, LiveDead
  <2> QED BY <1>1, <2>2, <2>3 DEF IndexOf
<1>2. CASE idx[k] # None
  <2>1. PICK c \in file.chunks : /\ Latest(file, k, file.size, c)
                                 /\ c.rec.operation = "Set"
                                 /\ idx[k] = Metadata(c.off, c.rec)
    BY <1>2 DEF IndexOf
  <2>2. ValueAt(file, idx[k]) = c.rec.value
    BY <2>1, ValueAtMetadata DEF Latest, RecordOf
  <2>3. idx[k].expiresAtMs = c.rec.expiresAtMs
    BY <2>1 DEF Metadata
  <2>4. EntryOf(c.rec) = [value |-> c.rec.value, expiresAtMs |-> c.rec.expiresAtMs]
    BY <2>1 DEF EntryOf
  <2>5. EntryOf(c.rec) # None
    BY <2>1, ChunkType
  <2>6. Stored(file, k) = EntryOf(c.rec)
    BY <2>1, StoredLatest
  <2>7. EntryOf(c.rec).expiresAtMs = c.rec.expiresAtMs
    BY <2>4
  <2>8. Live(EntryOf(c.rec)) =
          IF isExpired(c.rec.expiresAtMs, now) THEN None ELSE EntryOf(c.rec)
    BY <2>5, <2>7 DEF Live
  <2>9. Answer(idx, k) = IF isExpired(c.rec.expiresAtMs, now) THEN None ELSE EntryOf(c.rec)
    BY <1>2, <2>2, <2>3, <2>4 DEF Answer
  <2> QED BY <2>6, <2>8, <2>9
<1> QED BY <1>1, <1>2

\* An open store shows the map, and a closed one nothing.
LEMMA ViewShows == IInv => View = IF Opened THEN Db ELSE [k \in Keys |-> None]
<1> SUFFICES ASSUME IInv, NEW k \in Keys
             PROVE  View[k] = IF Opened THEN Live(Stored(file, k)) ELSE None
  BY DEF View, Db
<1>t. file \in File /\ Layout(file) /\ now \in Nat
  BY DEF IInv, TypeOK, FileInv
<1>1. CASE phase \in {"up", "compacting"}
  <2>1. IndexOf(index, file, file.size, now)
    BY <1>1 DEF IInv, IndexInv
  <2>2. Answer(index, k) = Live(Stored(file, k))
    BY <1>t, <2>1, AnswerStored
  <2> QED BY <1>1, <2>2 DEF View, Opened
<1>2. CASE phase = "renamed"
  <2>1. IndexOf(newIndex, file, file.size, now)
    BY <1>2 DEF IInv, RenamedInv
  <2>2. Answer(newIndex, k) = Live(Stored(file, k))
    BY <1>t, <2>1, AnswerStored
  <2> QED BY <1>2, <2>2 DEF View, Opened
<1>3. CASE ~Opened
  BY <1>3 DEF View
<1> QED BY <1>1, <1>2, <1>3 DEF Opened

\* What is stored for a key depends on its last record only.
LEMMA StoredSame ==
  ASSUME NEW f \in File, Layout(f), NEW g \in File, Layout(g), NEW k \in Keys,
         \A c : Latest(g, k, g.size, c) <=> Latest(f, k, f.size, c)
  PROVE  Stored(g, k) = Stored(f, k)
<1>1. \A h \in {f, g} : \A c \in h.chunks : c.off < h.size
  BY ChunkInside
<1>2. \A h \in {f, g} : \A c : LastOf(h, k, c) <=> Latest(h, k, h.size, c)
  BY <1>1 DEF LastOf, Latest, RecordOf
<1>3. \A c : LastOf(g, k, c) <=> LastOf(f, k, c)
  BY <1>2
<1> DEFINE last(h) == {c \in h.chunks : LastOf(h, k, c)}
<1>4. \A h \in {f, g} :
        Stored(h, k) = IF last(h) = {} THEN None ELSE EntryOf((CHOOSE c \in last(h) : TRUE).rec)
  BY DEF Stored
<1>5. last(g) = last(f)
  BY <1>3 DEF LastOf
<1> HIDE DEF last
<1> QED BY <1>4, <1>5

\* A record that has been written is what is stored for its key.
LEMMA StoredWhole ==
  ASSUME NEW f \in File, Layout(f), NEW r \in Record, NEW k \in Keys
  PROVE  Stored(WriteBytes(f, r, RecordBytes(r)), k) =
           IF k = r.key THEN EntryOf(r) ELSE Stored(f, k)
<1> DEFINE g == WriteBytes(f, r, RecordBytes(r))
           new == NewChunk(f, r, RecordBytes(r))
<1>1. RecordBytes(r) \in Nat \ {0}
  BY RecordBytesType
<1>2. g \in File /\ Layout(g) /\ g.chunks = f.chunks \cup {new}
  BY <1>1, WriteBytesEffect
<1>3. /\ new.rec = r
      /\ \A c \in g.chunks : Latest(g, k, g.size, c) <=> IF k = r.key THEN c = new
                                                         ELSE Latest(f, k, f.size, c)
  BY WriteWhole
<1> HIDE DEF g, new
<1>4. CASE k = r.key
  <2>1. new \in g.chunks /\ Latest(g, k, g.size, new)
    BY <1>2, <1>3, <1>4
  <2> QED BY <1>2, <1>3, <1>4, <2>1, StoredLatest DEF g
<1>5. CASE k # r.key
  <2>1. \A c : Latest(g, k, g.size, c) <=> Latest(f, k, f.size, c)
    BY <1>2, <1>3, <1>5 DEF Latest, RecordOf
  <2>2. Stored(g, k) = Stored(f, k)
    BY <1>2, <2>1, StoredSame
  <2> QED BY <1>5, <2>2 DEF g
<1> QED BY <1>4, <1>5

\* A record of which a part has been written is not stored.
LEMMA StoredTorn ==
  ASSUME NEW f \in File, Layout(f), NEW r \in Record,
         NEW n \in 0..RecordBytes(r), n # RecordBytes(r), NEW k \in Keys
  PROVE  Stored(WriteBytes(f, r, n), k) = Stored(f, k)
<1> DEFINE g == WriteBytes(f, r, n)
<1>1. RecordBytes(r) \in Nat \ {0}
  BY RecordBytesType
<1>2. CASE n = 0
  BY <1>2 DEF WriteBytes
<1>3. CASE n # 0
  <2>1. n \in Nat \ {0} /\ n < RecordBytes(r)
    BY <1>1, <1>3
  <2>2. g \in File /\ Layout(g) /\ f.chunks \subseteq g.chunks
    BY <2>1, WriteBytesEffect
  <2>3. \A c \in g.chunks : Latest(g, k, g.size, c) <=> Latest(f, k, f.size, c)
    BY <2>1, WriteTorn
  <2> HIDE DEF g
  <2>4. \A c : Latest(g, k, g.size, c) <=> Latest(f, k, f.size, c)
    BY <2>2, <2>3 DEF Latest, RecordOf
  <2>5. Stored(g, k) = Stored(f, k)
    BY <2>2, <2>4, StoredSame
  <2> QED BY <2>5 DEF g
<1> QED BY <1>2, <1>3

\* Altered bytes do not change what is stored: the last record of a key, altered
\* or not, stays its last record.
LEMMA StoredAltered ==
  ASSUME NEW f \in File, Layout(f), NEW b \in f.chunks, NEW w \in {"size", "payload"},
         NEW g, g = Altered(f, b, w), g \in File, NEW k \in Keys
  PROVE  Stored(g, k) = Stored(f, k)
<1> DEFINE e == [b EXCEPT !.damage = w]
<1>1. f.chunks \subseteq Chunk /\ g.size = f.size /\ Layout(g)
  BY DamageEffect DEF File
<1>2. g.chunks = (f.chunks \ {b}) \cup {e}
  BY DEF File, Altered
<1>3. e.off = b.off /\ e.len = b.len /\ e.rec = b.rec
  BY <1>1 DEF Chunk
<1> HIDE DEF e
<1>4. e \in f.chunks => e = b
  BY <1>3 DEF Layout
<1> DEFINE last(h) == {c \in h.chunks : LastOf(h, k, c)}
<1>5. \A h \in {f, g} :
        Stored(h, k) = IF last(h) = {} THEN None ELSE EntryOf((CHOOSE c \in last(h) : TRUE).rec)
  BY DEF Stored
<1>6. \A h \in {f, g} : \A c, d \in last(h) : c = d
  <2> SUFFICES ASSUME NEW h \in {f, g}, NEW c \in last(h), NEW d \in last(h) PROVE c = d
    OBVIOUS
  <2>1. c.off <= d.off /\ d.off <= c.off /\ c \in h.chunks /\ d \in h.chunks
    BY DEF LastOf
  <2>2. c.off \in Nat /\ d.off \in Nat /\ Layout(h)
    BY <1>1, <2>1, ChunkType
  <2> QED BY <2>1, <2>2 DEF Layout
<1>7. LastOf(g, k, e) <=> LastOf(f, k, b)
  BY <1>2, <1>3 DEF LastOf, Whole
<1>8. \A c : c # e /\ c # b => (LastOf(g, k, c) <=> LastOf(f, k, c))
  BY <1>2, <1>3 DEF LastOf, Whole
<1>9. CASE LastOf(f, k, b)
  <2>1. b \in last(f) /\ e \in last(g)
    BY <1>2, <1>7, <1>9
  <2>2. last(f) = {b} /\ last(g) = {e}
    BY <1>6, <2>1
  <2> HIDE DEF last
  <2> QED BY <1>3, <1>5, <2>2
<1>10. CASE ~LastOf(f, k, b)
  <2>1. \A c \in last(g) : c # e /\ c # b
    BY <1>2, <1>4, <1>7, <1>10
  <2>2. \A c \in last(f) : c # e /\ c # b
    BY <1>4, <1>10
  <2>3. last(g) = last(f)
    BY <1>2, <1>8, <2>1, <2>2
  <2> HIDE DEF last
  <2> QED BY <1>5, <2>3
<1> QED BY <1>9, <1>10

\* Cutting off the incomplete tail does not change what is stored.
LEMMA StoredCut ==
  ASSUME IInv, phase = "truncating", NEW k \in Keys
  PROVE  Stored(Resize(file, scan.pos), k) = Stored(file, k)
<1> DEFINE cut == Resize(file, scan.pos)
<1>1. file \in File /\ Layout(file) /\ scan.pos \in Nat /\ TornInv /\ ScanInv /\ TruncInv
  BY DEF IInv, TypeOK, FileInv
<1>2. cut \in File
  BY <1>1, ResizeType
<1>3. PICK torn \in file.chunks : torn.off = scan.pos /\ ~Whole(torn)
  BY <1>1 DEF TruncInv
<1>4. /\ torn.off + torn.len = file.size
      /\ \A c \in file.chunks : c.off < scan.pos => Whole(c) /\ c.off + c.len <= scan.pos
  BY <1>1, <1>3 DEF TornInv, ScanInv
<1>5. file \in File /\ Layout(file) /\ scan.pos \in Nat
  BY <1>1
<1>6. /\ Layout(cut)
      /\ \A j, c : RecordOf(cut, j, cut.size, c) <=> RecordOf(file, j, file.size, c)
  BY <1>5, <1>3, <1>4, ResizeEffect
<1> HIDE DEF cut
<1>7. \A c : Latest(cut, k, cut.size, c) <=> Latest(file, k, file.size, c)
  BY <1>6, SameRecords
<1>8. Stored(cut, k) = Stored(file, k)
  BY <1>2, <1>5, <1>6, <1>7, StoredSame
<1> QED BY <1>8 DEF cut

-----------------------------------------------------------------------------
(* What the steps do to the map. *)

\* The map stays when every key keeps what is stored for it.
LEMMA DbKept ==
  ASSUME now' = now,
         \A k \in Keys : Live(Stored(file', k)) = Live(Stored(file, k))
  PROVE  Db' = Db
<1>1. Db' = [k \in Keys |-> Live(Stored(file', k))]
  BY DEF Db, Live
<1> QED BY <1>1 DEF Db

\* One more whole record changes the map at its key.
LEMMA DbWritten ==
  ASSUME file \in File, Layout(file), NEW r \in Record, now' = now,
         file' = WriteBytes(file, r, RecordBytes(r)), Live(EntryOf(r)) = EntryOf(r)
  PROVE  Db' = [Db EXCEPT ![r.key] = EntryOf(r)]
<1>1. Db' = [k \in Keys |-> Live(Stored(file', k))]
  BY DEF Db, Live
<1>2. \A k \in Keys : Stored(file', k) = IF k = r.key THEN EntryOf(r) ELSE Stored(file, k)
  BY StoredWhole
<1>3. \A k \in Keys : Live(Stored(file', k)) =
                        IF k = r.key THEN EntryOf(r) ELSE Live(Stored(file, k))
  BY <1>2
<1> QED BY <1>1, <1>3 DEF Db

\* What a lookup finds is the map of an open store.
Shown == View = IF Opened THEN Db ELSE Durable!Nothing

\* So says the invariant.
LEMMA ShownAlways == IInv => Shown
  BY ViewShows DEF Shown, Durable!Nothing

\* A step that changes neither the map nor whether the store is open.
LEMMA QuietStep ==
  ASSUME Shown, Shown', now' = now, Opened' = Opened, Db' = Db
  PROVE  UNCHANGED Durable!vars
BY DEF Shown, Durable!vars, Durable!Nothing

\* A step that only opens or closes the store.
LEMMA SwitchStep ==
  ASSUME Shown, Shown', now' = now, Db' = Db
  PROVE  /\ ~Opened /\ Opened' => Durable!Open
         /\ ~Opened' => Durable!Stop \/ UNCHANGED Durable!vars
<1>1. ~Opened /\ Opened' => Durable!Open
  BY DEF Shown, Durable!Open, Durable!Shows
<1>2. Opened /\ ~Opened' => Durable!Stop
  BY DEF Shown, Durable!Stop, Durable!Shows
<1>3. ~Opened /\ ~Opened' => UNCHANGED Durable!vars
  BY QuietStep DEF Opened
<1> QED BY <1>1, <1>2, <1>3 DEF Opened

\* An acknowledged append of record r is a write of its entry to the map.
LEMMA WriteStep ==
  ASSUME Faults \subseteq SafeFaults, IInv, Shown', phase = "up", phase' = "up",
         NEW r \in Record, AppendOk(r), now' = now, Live(EntryOf(r)) = EntryOf(r)
  PROVE  Opened /\ Durable!Write(r.key, EntryOf(r))
<1>1. file \in File /\ Layout(file) /\ file' = WriteBytes(file, r, RecordBytes(r))
  BY NoPending DEF IInv, TypeOK, FileInv, AppendOk
<1>2. Db' = [Db EXCEPT ![r.key] = EntryOf(r)]
  BY <1>1, DbWritten
<1>3. Opened /\ Opened'
  BY DEF Opened
<1> QED BY <1>2, <1>3 DEF Shown, Durable!Write, Durable!Shows

\* A process that dies in the append has written the entry or it has not.
LEMMA WriteCrashStep ==
  ASSUME Faults \subseteq SafeFaults, IInv, Shown', phase = "up", ProcessDies,
         NEW r \in Record, AppendTorn(r), now' = now, Live(EntryOf(r)) = EntryOf(r)
  PROVE  Opened /\ Durable!WriteCrash(r.key, EntryOf(r))
<1>1. file \in File /\ Layout(file) /\ pending = None
  BY DEF IInv, TypeOK, FileInv
<1>2. PICK m \in 0..RecordBytes(r) : file' = WriteBytes(file, r, m)
  BY <1>1, NoPending DEF AppendTorn
<1>3. ASSUME m = RecordBytes(r) PROVE Db' = [Db EXCEPT ![r.key] = EntryOf(r)]
  BY <1>1, <1>2, <1>3, DbWritten
<1>4. ASSUME m # RecordBytes(r) PROVE Db' = Db
  <2>1. \A k \in Keys : Stored(file', k) = Stored(file, k)
    BY <1>1, <1>2, <1>4, StoredTorn
  <2> QED BY <2>1, DbKept
<1>5. Db' \in {Db, [Db EXCEPT ![r.key] = EntryOf(r)]}
  BY <1>3, <1>4
<1>6. Opened /\ ~Opened'
  BY DEF Opened, ProcessDies
<1> QED BY <1>5, <1>6 DEF Shown, Durable!WriteCrash, Durable!Shows

\* The entry of a set is alive when it is written, and the one DurableMap makes.
LEMMA FreshEntry ==
  ASSUME now \in Nat, NEW k \in Keys, NEW v \in Values, NEW ttl \in TTLs
  PROVE  /\ EntryOf(RecordFor(k, v, ttl)) = Durable!EntryFor(v, ttl)
         /\ Live(EntryOf(RecordFor(k, v, ttl))) = EntryOf(RecordFor(k, v, ttl))
<1>1. ttl \in Nat
  BY AppendOnlyStoreAssumption
<1>2. EntryOf(RecordFor(k, v, ttl)) = [value |-> v, expiresAtMs |-> ExpiryOf(ttl)]
  BY DEF EntryOf, RecordFor, SetRecord
<1>3. ~isExpired(ExpiryOf(ttl), now)
  BY <1>1 DEF isExpired, ExpiryOf
<1>4. [value |-> v, expiresAtMs |-> ExpiryOf(ttl)].expiresAtMs = ExpiryOf(ttl)
  OBVIOUS
<1> QED BY <1>2, <1>3, <1>4 DEF Live, Durable!EntryFor, ExpiryOf

\* There is nothing to expire in the entry of a delete.
LEMMA DeleteEntry ==
  ASSUME NEW k \in Keys
  PROVE  /\ DeleteRecord(k) \in Record /\ DeleteRecord(k).key = k
         /\ EntryOf(DeleteRecord(k)) = None
         /\ Live(EntryOf(DeleteRecord(k))) = EntryOf(DeleteRecord(k))
BY DeleteRecordType DEF DeleteRecord, EntryOf, Live

\* A key that is present has an entry in the map.
LEMMA PresentInMap ==
  ASSUME IInv, phase = "up", NEW k \in Keys, Present(k)
  PROVE  Db[k] # None
<1>1. /\ file \in File /\ Layout(file) /\ now \in Nat
      /\ IndexOf(index, file, file.size, now)
  BY DEF IInv, TypeOK, FileInv, IndexInv
<1>2. Db[k] = Answer(index, k)
  BY <1>1, AnswerStored DEF Db
<1>3. PICK c \in file.chunks : Latest(file, k, file.size, c) /\ index[k] = Metadata(c.off, c.rec)
                               /\ c.rec.operation = "Set"
  BY <1>1 DEF IndexOf, Present
<1>4. ValueAt(file, index[k]) = c.rec.value /\ index[k].expiresAtMs = c.rec.expiresAtMs
  BY <1>1, <1>3, ValueAtMetadata DEF Latest, RecordOf, Metadata
<1>5. Answer(index, k) = EntryOf(c.rec)
  BY <1>3, <1>4 DEF Answer, EntryOf, Present
<1>6. EntryOf(c.rec) # None
  BY <1>1, <1>3, ChunkType
<1> QED BY <1>2, <1>5, <1>6

\* set: the entry is in the map when the call returns.
LEMMA SetSteps ==
  ASSUME Faults \subseteq SafeFaults, IInv, Shown',
         NEW k \in Keys, NEW v \in Values, NEW ttl \in TTLs
  PROVE  /\ Set(k, v, ttl) => Durable!Set(k, v, ttl)
         /\ SetCrash(k, v, ttl) => Durable!SetCrash(k, v, ttl)
<1> DEFINE r == RecordFor(k, v, ttl)
<1>1. now \in Nat
  BY DEF IInv, TypeOK
<1>2. r \in Record /\ r.key = k
  BY <1>1, RecordForType
<1>3. EntryOf(r) = Durable!EntryFor(v, ttl) /\ Live(EntryOf(r)) = EntryOf(r)
  BY <1>1, FreshEntry
<1>4. ASSUME Set(k, v, ttl) PROVE Durable!Set(k, v, ttl)
  <2>1. phase = "up" /\ phase' = "up" /\ AppendOk(r) /\ now' = now
    BY <1>4 DEF Set, aux
  <2> HIDE DEF r
  <2>2. Opened /\ Durable!Write(r.key, EntryOf(r))
    BY <1>2, <1>3, <2>1, WriteStep
  <2> QED BY <1>2, <1>3, <2>2 DEF Durable!Set
<1>5. ASSUME SetCrash(k, v, ttl) PROVE Durable!SetCrash(k, v, ttl)
  <2>1. phase = "up" /\ AppendTorn(r) /\ ProcessDies /\ now' = now
    BY <1>5 DEF SetCrash
  <2> HIDE DEF r
  <2>2. Opened /\ Durable!WriteCrash(r.key, EntryOf(r))
    BY <1>2, <1>3, <2>1, WriteCrashStep
  <2> QED BY <1>2, <1>3, <2>2 DEF Durable!SetCrash
<1> QED BY <1>4, <1>5

\* remove: there was an entry, and it is gone when the call returns.
LEMMA RemoveSteps ==
  ASSUME Faults \subseteq SafeFaults, IInv, Shown', NEW k \in Keys
  PROVE  /\ Remove(k) => Durable!Remove(k)
         /\ RemoveCrash(k) => Durable!RemoveCrash(k)
<1> DEFINE r == DeleteRecord(k)
<1>1. r \in Record /\ r.key = k /\ EntryOf(r) = None /\ Live(EntryOf(r)) = EntryOf(r)
  BY DeleteEntry
<1>2. ASSUME Remove(k) PROVE Durable!Remove(k)
  <2>1. phase = "up" /\ phase' = "up" /\ Present(k) /\ AppendOk(r) /\ now' = now
    BY <1>2 DEF Remove, aux
  <2> HIDE DEF r
  <2>2. Opened /\ Durable!Write(r.key, EntryOf(r))
    BY <1>1, <2>1, WriteStep
  <2>3. Db[k] # None
    BY <2>1, PresentInMap
  <2> QED BY <1>1, <2>2, <2>3 DEF Durable!Remove
<1>3. ASSUME RemoveCrash(k) PROVE Durable!RemoveCrash(k)
  <2>1. phase = "up" /\ Present(k) /\ AppendTorn(r) /\ ProcessDies /\ now' = now
    BY <1>3 DEF RemoveCrash
  <2> HIDE DEF r
  <2>2. Opened /\ Durable!WriteCrash(r.key, EntryOf(r))
    BY <1>1, <2>1, WriteCrashStep
  <2>3. Db[k] # None
    BY <2>1, PresentInMap
  <2> QED BY <1>1, <2>2, <2>3 DEF Durable!RemoveCrash
<1> QED BY <1>2, <1>3

\* What is stored is an entry or nothing.
LEMMA StoredType ==
  ASSUME NEW f \in File, NEW k \in Keys
  PROVE  Stored(f, k) \in AnyEntry
<1> DEFINE last == {c \in f.chunks : LastOf(f, k, c)}
<1>1. Stored(f, k) = IF last = {} THEN None ELSE EntryOf((CHOOSE c \in last : TRUE).rec)
  BY DEF Stored
<1>2. ASSUME last # {} PROVE (CHOOSE c \in last : TRUE).rec \in Record
  <2>1. (CHOOSE c \in last : TRUE) \in f.chunks
    BY <1>2
  <2> QED BY <2>1 DEF File, Chunk
<1>3. \A r \in Record : EntryOf(r) \in AnyEntry
  BY EntryTypes
<1> HIDE DEF last
<1> QED BY <1>1, <1>2, <1>3 DEF AnyEntry

\* The clock takes an entry out of the map that is still in it.
LEMMA ExpiryStep ==
  ASSUME NEW e \in AnyEntry, NEW t \in Nat, NEW u \in Nat, t <= u,
         NEW d, d = IF e = None THEN None ELSE IF isExpired(e.expiresAtMs, t) THEN None ELSE e
  PROVE  (IF e = None THEN None ELSE IF isExpired(e.expiresAtMs, u) THEN None ELSE e)
         = IF Durable!ExpiresBy(d, u) THEN None ELSE d
<1>1. CASE e = None
  BY <1>1 DEF Durable!ExpiresBy
<1>2. CASE e # None
  <2>1. e.expiresAtMs \in Nat
    BY <1>2 DEF AnyEntry
  <2>2. isExpired(e.expiresAtMs, t) => isExpired(e.expiresAtMs, u)
    BY <2>1 DEF isExpired
  <2>3. Durable!ExpiresBy(e, u) <=> isExpired(e.expiresAtMs, u)
    BY <1>2 DEF Durable!ExpiresBy, isExpired
  <2>4. ~Durable!ExpiresBy(None, u)
    BY DEF Durable!ExpiresBy
  <2> QED BY <1>2, <2>2, <2>3, <2>4
<1> QED BY <1>1, <1>2

\* Time takes the entries out of the map that expire.
LEMMA TickStep ==
  ASSUME IInv, Shown', Tick
  PROVE  Durable!Tick
<1>1. /\ file \in File /\ now \in Nat /\ now' \in Nat /\ now <= now' /\ now' = now + 1
      /\ file' = file /\ Opened' = Opened
  BY DEF IInv, TypeOK, Tick, disk, Opened
<1>2. Db' = [k \in Keys |-> IF Stored(file, k) = None THEN None
                            ELSE IF isExpired(Stored(file, k).expiresAtMs, now') THEN None
                            ELSE Stored(file, k)]
  BY <1>1 DEF Db, Live
<1>3. ASSUME NEW k \in Keys
      PROVE  Db'[k] = IF Durable!ExpiresBy(Db[k], now') THEN None ELSE Db[k]
  <2> DEFINE e == Stored(file, k)
  <2>1. e \in AnyEntry
    BY <1>1, StoredType
  <2>2. Db[k] = IF e = None THEN None ELSE IF isExpired(e.expiresAtMs, now) THEN None ELSE e
    BY DEF Db, Live
  <2>3. Db'[k] = IF e = None THEN None ELSE IF isExpired(e.expiresAtMs, now') THEN None ELSE e
    BY <1>2
  <2> HIDE DEF e
  <2> QED BY <1>1, <2>1, <2>2, <2>3, ExpiryStep
<1>4. Db' = [k \in Keys |-> IF Durable!ExpiresBy(Db[k], now') THEN None ELSE Db[k]]
  BY <1>2, <1>3
<1> QED BY <1>1, <1>4 DEF Shown, Durable!Tick, Durable!Shows

\* open() and recover() change nothing in the map, whatever they cut off.
LEMMA RecoverySteps ==
  ASSUME Faults \subseteq SafeFaults, IInv, Shown, Shown', Recovery
  PROVE  Db' = Db /\ (Durable!Open \/ UNCHANGED Durable!vars)
<1>t. pending = None /\ Flushed = file /\ ClosedFiles = {file} /\ ~FlushFails
  BY NoPending DEF IInv, FileInv
<1> USE DEF disk, job, aux
<1>1. now' = now /\ ~Opened
  BY DEF Recovery, Open, RecoverRecord, RecoverTail, RecoverCorruption, RecoverReadFails, RecoverDone,
         TruncateTail, TruncateFails, Opened
<1>2. \/ file' = file
      \/ phase = "truncating" /\ file' = Resize(file, scan.pos)
  BY <1>t DEF Recovery, Open, RecoverRecord, RecoverTail, RecoverCorruption, RecoverReadFails, RecoverDone,
              TruncateTail, TruncateFails
<1>3. \A k \in Keys : Stored(file', k) = Stored(file, k)
  BY <1>2, StoredCut
<1>4. Db' = Db
  BY <1>1, <1>3, DbKept
<1>5. Opened' => Durable!Open
  BY <1>1, <1>4, SwitchStep
<1>6. ~Opened' => UNCHANGED Durable!vars
  BY <1>1, <1>4, QuietStep DEF Opened
<1> QED BY <1>4, <1>5, <1>6

\* A read, an expired entry that leaves the index, and the steps of compact(), the
\* one that replaces the file included, leave the map alone.
LEMMA QuietSteps ==
  ASSUME Faults \subseteq SafeFaults, IInv, Shown, Shown',
         Compaction \/ CleanupExpired \/ \E k \in Keys : ReadValue(k) \/ EraseExpired(k)
  PROVE  Db' = Db /\ UNCHANGED Durable!vars
<1>t. pending = None /\ Flushed = file /\ ClosedFiles = {file} /\ ~FlushFails /\ "install" \notin Faults
  BY NoPending DEF IInv, FileInv
<1> USE DEF disk, job, aux
<1>1. now' = now /\ Opened /\ Opened'
  BY <1>t DEF Compaction, CompactBegin, CompactGivesUp, CompactWrite, CompactWriteFails,
         CompactRename, CompactRenameFails, CompactReopen, CompactReopenFails,
         CleanupExpired, ReadValue, EraseExpired, Opened
<1>2. CASE CompactRename
  <2>1. \A k \in Keys : Live(Stored(file', k)) = Live(Stored(file, k))
    BY <1>2, CompactionStep DEF CompactRename, Next, Compaction
  <2> QED BY <1>1, <2>1, DbKept, QuietStep
<1>3. CASE ~CompactRename
  <2>1. file' = file
    BY <1>t, <1>3 DEF Compaction, CompactBegin, CompactGivesUp, FileAfterReads, CompactWrite,
         CompactWriteFails, CompactRenameFails, CompactReopen, CompactReopenFails,
         CleanupExpired, ReadValue, EraseExpired
  <2> QED BY <1>1, <2>1, DbKept, QuietStep
<1> QED BY <1>2, <1>3

\* The end of the process, whichever it is, and altered bytes change nothing in the
\* map.
LEMMA StopSteps ==
  ASSUME Faults \subseteq SafeFaults, IInv, TypeOK', Shown, Shown',
         Crash \/ Close \/ Destroy \/ BitRot
  PROVE  /\ Db' = Db
         /\ Durable!Stop \/ UNCHANGED Durable!vars
         /\ BitRot => UNCHANGED Durable!vars
<1>t. ClosedFiles = {file} /\ file \in File /\ Layout(file) /\ file' \in File
  BY NoPending DEF IInv, FileInv, TypeOK
<1> USE DEF disk, job, aux
<1>1. now' = now /\ ~Opened' /\ (BitRot => ~Opened)
  BY DEF Crash, ProcessDies, Close, Destroy, BitRot, Opened
<1>2. \A k \in Keys : Stored(file', k) = Stored(file, k)
  <2>1. CASE Crash \/ Close \/ Destroy
    BY <1>t, <2>1 DEF Crash, Close, Destroy
  <2>2. CASE BitRot
    <3>1. PICK c \in file.chunks, d \in {"size", "payload"} : file' = Altered(file, c, d)
      BY <2>2 DEF BitRot
    <3> QED BY <1>t, <3>1, StoredAltered
  <2> QED BY <2>1, <2>2
<1>3. Db' = Db
  BY <1>1, <1>2, DbKept
<1>4. ~Opened /\ ~Opened' => UNCHANGED Durable!vars
  BY <1>1, <1>3, QuietStep DEF Opened
<1> QED BY <1>1, <1>3, <1>4, SwitchStep

\* A store that has never been opened is the empty map.
LEMMA DurableInit == Init => Durable!Init
<1> SUFFICES ASSUME Init PROVE Durable!Init
  OBVIOUS
<1>1. \A k \in Keys : Stored(file, k) = None
  BY DEF Init, EmptyFile, Stored
<1>2. Db = [k \in Keys |-> None]
  BY <1>1 DEF Db, Live
<1>3. ~Opened /\ View = [k \in Keys |-> None]
  BY DEF Init, Opened, View
<1> QED BY <1>2, <1>3 DEF Init, Durable!Init, Durable!Nothing

\* Every step of the store is a step of the map, or changes nothing in it.
LEMMA DurableNext ==
  ASSUME Faults \subseteq SafeFaults, IInv, TypeOK', Shown, Shown', [Next]_vars
  PROVE  [Durable!Next]_Durable!vars
<1>1. CASE Recovery
  BY <1>1, RecoverySteps DEF Durable!Next
<1>2. CASE Operations
  <2>1. ASSUME NEW k \in Keys, NEW v \in Values, NEW ttl \in TTLs,
               Set(k, v, ttl) \/ SetFails(k, v, ttl) \/ SetCrash(k, v, ttl)
        PROVE  Durable!Next
    <3>1. ~SetFails(k, v, ttl)
      BY NoPending DEF IInv, FileInv, SetFails
    <3> QED BY <2>1, <3>1, SetSteps DEF Durable!Next
  <2>2. ASSUME NEW k \in Keys, Remove(k) \/ RemoveFails(k) \/ RemoveCrash(k)
        PROVE  Durable!Next
    <3>1. ~RemoveFails(k)
      BY NoPending DEF IInv, FileInv, RemoveFails
    <3> QED BY <2>2, <3>1, RemoveSteps DEF Durable!Next
  <2>3. ASSUME CleanupExpired \/ \E k \in Keys : ReadValue(k) \/ EraseExpired(k)
        PROVE  UNCHANGED Durable!vars
    BY <2>3, QuietSteps
  <2> QED BY <1>2, <2>1, <2>2, <2>3 DEF Operations
<1>3. CASE Compaction
  BY <1>3, QuietSteps
<1>4. CASE Close \/ Destroy \/ Crash \/ BitRot
  BY <1>4, StopSteps DEF Durable!Next
<1>5. CASE Tick
  BY <1>5, TickStep DEF Durable!Next
<1>6. CASE UNCHANGED vars
  BY <1>6 DEF vars, Durable!vars, Opened, Db, View, Live, Answer
<1> QED BY <1>1, <1>2, <1>3, <1>4, <1>5, <1>6 DEF Next

\* Which steps may change the map, and to what.
LEMMA WritesStep ==
  ASSUME Faults \subseteq SafeFaults, IInv, TypeOK', Shown, Shown', [Next]_vars, Db' # Db
  PROVE  \/ Tick
         \/ \E k \in Keys, v \in Values, ttl \in TTLs :
              /\ Set(k, v, ttl) \/ SetCrash(k, v, ttl)
              /\ Db' = [Db EXCEPT ![k] = EntryOf(RecordFor(k, v, ttl))]
         \/ \E k \in Keys :
              /\ Remove(k) \/ RemoveCrash(k)
              /\ Db' = [Db EXCEPT ![k] = None]
<1>1. ~Recovery /\ ~Compaction /\ ~(Close \/ Destroy \/ Crash \/ BitRot)
  BY RecoverySteps, QuietSteps, StopSteps
<1>2. ~CleanupExpired /\ ~ \E k \in Keys : ReadValue(k) \/ EraseExpired(k)
  BY QuietSteps
<1>3. ASSUME NEW k \in Keys, NEW v \in Values, NEW ttl \in TTLs,
             Set(k, v, ttl) \/ SetFails(k, v, ttl) \/ SetCrash(k, v, ttl)
      PROVE  /\ Set(k, v, ttl) \/ SetCrash(k, v, ttl)
             /\ Db' = [Db EXCEPT ![k] = EntryOf(RecordFor(k, v, ttl))]
  <2>1. ~SetFails(k, v, ttl)
    BY NoPending DEF IInv, FileInv, SetFails
  <2>2. EntryOf(RecordFor(k, v, ttl)) = Durable!EntryFor(v, ttl)
    BY FreshEntry DEF IInv, TypeOK
  <2>3. Set(k, v, ttl) => Durable!Set(k, v, ttl)
    BY SetSteps
  <2>4. SetCrash(k, v, ttl) => Durable!SetCrash(k, v, ttl)
    BY SetSteps
  <2> QED BY <1>3, <2>1, <2>2, <2>3, <2>4
          DEF Durable!Set, Durable!SetCrash, Durable!Write, Durable!WriteCrash
<1>4. ASSUME NEW k \in Keys, Remove(k) \/ RemoveFails(k) \/ RemoveCrash(k)
      PROVE  /\ Remove(k) \/ RemoveCrash(k)
             /\ Db' = [Db EXCEPT ![k] = None]
  <2>1. ~RemoveFails(k)
    BY NoPending DEF IInv, FileInv, RemoveFails
  <2>2. Remove(k) => Durable!Remove(k)
    BY RemoveSteps
  <2>3. RemoveCrash(k) => Durable!RemoveCrash(k)
    BY RemoveSteps
  <2> QED BY <1>4, <2>1, <2>2, <2>3
          DEF Durable!Remove, Durable!RemoveCrash, Durable!Write, Durable!WriteCrash
<1>5. ~UNCHANGED vars
  BY DEF vars, Db, Live
<1> QED BY <1>1, <1>2, <1>3, <1>4, <1>5 DEF Next, Operations

\* For every set of keys and values, and any number of crashes at any point of any
\* call, the store is a map that outlives the process: what a restart finds is
\* decided by the calls, once, and nothing that happens afterwards to the file
\* alters it.
THEOREM ImplementsDurableMapHolds ==
  ASSUME Faults \subseteq SafeFaults
  PROVE  Spec => ImplementsDurableMap
<1>1. IInv => TypeOK /\ Shown
  BY ShownAlways DEF IInv
<1>2. IInv /\ TypeOK' /\ Shown /\ Shown' /\ [Next]_vars => [Durable!Next]_Durable!vars
  BY DurableNext
<1> QED BY <1>1, <1>2, Invariant, DurableInit, PTL DEF Spec, ImplementsDurableMap, Durable!Spec

\* The map changes with the clock and by the write that a client has called for,
\* and by no other step of the store.
THEOREM OnlyWritesChangeTheMapHolds ==
  ASSUME Faults \subseteq SafeFaults
  PROVE  Spec => OnlyWritesChangeTheMap
<1>1. IInv => TypeOK /\ Shown
  BY ShownAlways DEF IInv
<1>2. IInv /\ TypeOK' /\ Shown /\ Shown' /\ [Next]_vars =>
      [Db' # Db =>
       \/ Tick
       \/ \E k \in Keys, v \in Values, ttl \in TTLs :
            /\ Set(k, v, ttl) \/ SetCrash(k, v, ttl)
            /\ Db' = [Db EXCEPT ![k] = EntryOf(RecordFor(k, v, ttl))]
       \/ \E k \in Keys :
            /\ Remove(k) \/ RemoveCrash(k)
            /\ Db' = [Db EXCEPT ![k] = None]]_vars
  BY WritesStep
<1> QED BY <1>1, <1>2, Invariant, PTL DEF Spec, OnlyWritesChangeTheMap

=============================================================================
