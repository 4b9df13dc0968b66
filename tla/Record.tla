------------------------------- MODULE Record -------------------------------
(***************************************************************************)
(* The binary record format of MiniKV (Record.h, Record.cpp) and the files *)
(* that hold records.                                                      *)
(*                                                                         *)
(* A file is its size and the set of the chunks that were written to it.  *)
(* A chunk is the trace of one write of a record: it starts at byte off,   *)
(* len bytes of the record reached the file (all of them, or a prefix when *)
(* the write was cut short), and damage says whether the medium altered    *)
(* those bytes afterwards.  The bytes themselves are not modelled: two     *)
(* things are kept of them, how many there are and which record they are   *)
(* the beginning of.  The checksum is taken to be perfect: bytes that are  *)
(* not a whole, unaltered record never pass it.                            *)
(***************************************************************************)
EXTENDS Integers

CONSTANTS
  Keys,               \* keys of a legal size (validateKey has accepted them)
  Values,             \* values of a legal size
  KeySize,            \* key.size() of every key
  ValueSize,          \* value.size() of every value
  kRecordHeaderSize,  \* 28 in Record.h, smaller in the models
  None,               \* "no such thing": no entry, no record, no file
  Garbage             \* what is read where no stored value starts

ASSUME RecordAssumption ==
  /\ kRecordHeaderSize \in Nat \ {0}
  /\ KeySize \in [Keys -> Nat \ {0}]
  /\ ValueSize \in [Values -> Nat]
  /\ None \notin Values
  /\ Garbage \notin Values
  /\ None # Garbage

-----------------------------------------------------------------------------
(* Records. *)

Operation == {"Set", "Delete"}

Record == [operation: Operation, key: Keys, value: Values \cup {None, Garbage},
           valueSize: Nat, expiresAtMs: Nat]

SetRecord(k, v, n, e) ==
  [operation |-> "Set", key |-> k, value |-> v, valueSize |-> n, expiresAtMs |-> e]

DeleteRecord(k) ==
  [operation |-> "Delete", key |-> k, value |-> None, valueSize |-> 0,
   expiresAtMs |-> 0]

\* A record without an expiry time has expiresAtMs = 0.
isExpired(expiresAtMs, nowMs) == expiresAtMs > 0 /\ expiresAtMs <= nowMs

RecordBytes(r) == kRecordHeaderSize + KeySize[r.key] + r.valueSize

(* RecordMetadata: where the index finds the value of a record. *)
RecordMetadata == [recordOffset: Nat, valueOffset: Nat, valueSize: Nat,
                   expiresAtMs: Nat]

\* Mutant: the value is looked for before the record.
MetadataWrongSign(off, r) ==
  [recordOffset |-> off,
   valueOffset  |-> off - kRecordHeaderSize - KeySize[r.key],
   valueSize    |-> r.valueSize,
   expiresAtMs  |-> r.expiresAtMs]

Metadata(off, r) ==
  [recordOffset |-> off,
   valueOffset  |-> off + kRecordHeaderSize + KeySize[r.key],
   valueSize    |-> r.valueSize,
   expiresAtMs  |-> r.expiresAtMs]

-----------------------------------------------------------------------------
(* Files. *)

Chunk == [off: Nat, len: Nat \ {0}, rec: Record,
          damage: {"none", "size", "payload"}]

File == [chunks: SUBSET Chunk, size: Nat]

EmptyFile == [chunks |-> {}, size |-> 0]

\* The whole record reached the file.
Whole(c) == c.len = RecordBytes(c.rec)

\* The record can be read back: parseHeader and the checksum accept it.
Valid(c) == Whole(c) /\ c.damage = "none"

\* The first n bytes of record r are written at the end of file f.
WriteBytes(f, r, n) ==
  IF n = 0
  THEN f
  ELSE [chunks |-> f.chunks \cup {[off |-> f.size, len |-> n, rec |-> r,
                                   damage |-> "none"]},
        size   |-> f.size + n]

\* std::filesystem::resize_file to a position where a chunk starts.
Resize(f, pos) ==
  [chunks |-> {c \in f.chunks : c.off + c.len <= pos}, size |-> pos]

\* The medium has altered bytes of chunk c.
Altered(f, c, d) ==
  [f EXCEPT !.chunks = (@ \ {c}) \cup {[c EXCEPT !.damage = d]}]

\* The value bytes of chunk c are exactly the ones metadata m designates.
HoldsValue(c, m) ==
  /\ Whole(c)
  /\ Metadata(c.off, c.rec).valueOffset = m.valueOffset
  /\ c.rec.valueSize = m.valueSize

\* The bytes readValue finds for metadata m: the value that was stored there,
\* None when they reach beyond the end of the file, and other bytes of the
\* file otherwise.  readValue checks the length it read and no checksum.
ValueAt(f, m) ==
  IF m.valueOffset + m.valueSize > f.size
  THEN None
  ELSE IF \E c \in f.chunks : HoldsValue(c, m)
       THEN (CHOOSE c \in f.chunks : HoldsValue(c, m)).rec.value
       ELSE Garbage

\* None is none of the things it may stand in for.
ASSUME NoneAssumption ==
  /\ None \notin Record
  /\ None \notin RecordMetadata
  /\ None \notin File
  /\ None \notin [value: Values \cup {None, Garbage}, expiresAtMs: Nat]

=============================================================================
