------------------------- MODULE AppendOnlyStoreInv -------------------------
(***************************************************************************)
(* The inductive invariant behind AckedVisible.  It holds as long as only  *)
(* the errors of SafeFaults happen, the ones the code recovers from.       *)
(***************************************************************************)
EXTENDS AppendOnlyStore

\* TypeOK with what compact() needs to stay in it.
TypeInv ==
  /\ TypeOK
  /\ phase = "compacting" => tmp \in File /\ \A k \in todo : live[k] \in Record

SafeFaults == {"resize", "tmp", "rename", "reopen", "payload"}

\* Chunks lie one after the other, inside the file.
Layout(f) ==
  /\ \A c \in f.chunks : c.off + c.len <= f.size
  /\ \A c, d \in f.chunks : c.off < d.off => c.off + c.len <= d.off
  /\ \A c, d \in f.chunks : c.off = d.off => c = d

\* Chunk c holds a complete record of key k that starts before position p.
RecordOf(f, k, p, c) ==
  c \in f.chunks /\ Whole(c) /\ c.rec.key = k /\ c.off < p

\* ... and it is the last one.
Latest(f, k, p, c) ==
  /\ RecordOf(f, k, p, c)
  /\ \A d \in f.chunks : RecordOf(f, k, p, d) => d.off <= c.off

\* At time t a client does not see entry e any more.
Dead(e, t) == e = None \/ isExpired(e.expiresAtMs, t)

\* idx is what a scan of file f up to position p must have built by time t:
\* each entry designates the last record of its key, and a key without an entry
\* has no record, or its last one is a delete or expired.
IndexOf(idx, f, p, t) ==
  \A k \in Keys :
    \/ /\ idx[k] # None
       /\ \E c \in f.chunks : /\ Latest(f, k, p, c)
                              /\ c.rec.operation = "Set"
                              /\ idx[k] = Metadata(c.off, c.rec)
    \/ /\ idx[k] = None
       /\ \/ \A c \in f.chunks : ~RecordOf(f, k, p, c)
          \/ \E c \in f.chunks : Latest(f, k, p, c) /\ Dead(EntryOf(c.rec), t)

\* A client that may see the entries of set es at time t may see entry e.
Permitted(es, e, t) == \E a \in es : a = e \/ (Dead(a, t) /\ Dead(e, t))

\* A restart from file f at time t shows entries that al permits only.
Agrees(f, al, t) ==
  \A k \in Keys :
    /\ \A c \in f.chunks :
         Latest(f, k, f.size, c) => Permitted(al[k], EntryOf(c.rec), t)
    /\ (\A c \in f.chunks : ~RecordOf(f, k, f.size, c)) => Permitted(al[k], None, t)

-----------------------------------------------------------------------------

\* The data file is laid out record by record and agrees with the history.
FileInv ==
  /\ Layout(file)
  /\ Agrees(file, allowed, now)
  /\ \A c \in file.chunks : c.damage # "size"
  /\ pending = None

\* An incomplete record ends the file, and an open store has none.
TornInv ==
  \A c \in file.chunks : ~Whole(c) =>
    /\ c.off + c.len = file.size
    /\ phase \notin {"up", "compacting", "renamed"}

\* The loop invariant of recover().
ScanInv ==
  phase \in {"recovering", "truncating"} =>
    /\ scan.total = file.size
    /\ scan.pos <= file.size
    /\ scan.unreadable = FALSE
    /\ scan.nowMs <= now
    /\ \A c \in file.chunks : c.off < scan.pos =>
         Whole(c) /\ c.off + c.len <= scan.pos
    /\ IndexOf(scan.index, file, scan.pos, now)

\* recover() cuts the file only where an incomplete record starts.
TruncInv ==
  phase = "truncating" => \E c \in file.chunks : c.off = scan.pos /\ ~Whole(c)

\* The index of an open store is the index of its file.
IndexInv == phase \in {"up", "compacting"} => IndexOf(index, file, file.size, now)

\* The only chunk of key k in file f is c, a copy of record r.
OnlyCopy(f, k, r, c) ==
  /\ c \in f.chunks
  /\ c.rec = r
  /\ Whole(c)
  /\ \A d \in f.chunks : d.rec.key = k => d = c

\* What compact() has read and written so far for key k.
JobOf(k) ==
  IF index[k] = None
  THEN /\ k \notin todo
       /\ newIndex[k] = None
       /\ \A d \in tmp.chunks : d.rec.key # k
  ELSE /\ live[k] \in Record
       /\ live[k].key = k
       /\ live[k].operation = "Set"
       /\ \E c \in file.chunks : /\ Latest(file, k, file.size, c)
                                 /\ EntryOf(c.rec) = EntryOf(live[k])
       /\ k \in todo => /\ newIndex[k] = None
                        /\ \A d \in tmp.chunks : d.rec.key # k
       /\ k \notin todo =>
            \E c \in tmp.chunks : /\ OnlyCopy(tmp, k, live[k], c)
                                  /\ newIndex[k] = Metadata(c.off, c.rec)

\* The temporary file of a running compact().
JobInv ==
  phase = "compacting" =>
    /\ tmp \in File
    /\ Layout(tmp)
    /\ \A c \in tmp.chunks : Whole(c) /\ c.damage = "none"
    /\ \A k \in Keys : JobOf(k)

\* The index compact() is about to install is the index of the new file.
RenamedInv == phase = "renamed" => IndexOf(newIndex, file, file.size, now)

\* The inductive invariant: the file is sound and agrees with the history of
\* acknowledged writes, what recover() has built so far is the index of the part
\* it has read, the index of an open store is the index of the whole file, and the
\* compaction file holds one copy of every live record that compact() has done.
IInv ==
  /\ TypeOK
  /\ FileInv
  /\ TornInv
  /\ ScanInv
  /\ TruncInv
  /\ IndexInv
  /\ JobInv
  /\ RenamedInv

=============================================================================
