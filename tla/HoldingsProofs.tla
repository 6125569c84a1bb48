-------------------------- MODULE HoldingsProofs --------------------------
(***************************************************************************)
(* Proofs about what the service holds for its clients: an available       *)
(* artifact has its bytes and a read sends the bytes asked for, a live     *)
(* subscription lease is never reclaimed, and a session is only replaced   *)
(* by a reset once the sessions before it are closed and stopped; for any  *)
(* sessions, calls, daemons and limits.                                    *)
(***************************************************************************)
EXTENDS Artifacts, Subscriptions, SessionDirectory, TLAPS

\* A leaf is tried with SMT, with Zenon, and then with SMT and more time.
USE SMT, Zenon, SMTT(10), SMTT(20), SMTT(30)

-----------------------------------------------------------------------------
(* Artifacts: rows, receipts, blobs and the calls between them.            *)

\* This artifact has a row and is not available any more, which is for good.
Withdrawn(a) == a \in DOMAIN artifacts /\ artifacts[a].state # "available"

\* The rows are well formed, and an available one has its blob.
RowInv ==
  \A a \in DOMAIN artifacts :
    /\ DOMAIN artifacts[a] = {"session", "content", "size", "state", "until"}
    /\ artifacts[a].size \in Nat
    /\ artifacts[a].state = "available" => a \in DOMAIN blobs /\ blobs[a] = artifacts[a].content

\* A receipt that is no write's stands for a deletion or an erasure.
ReceiptInv ==
  \A q \in DOMAIN receipts :
    "content" \notin DOMAIN receipts[q] => Withdrawn(receipts[q].artifact)

\* An erasure that was authorized is of an artifact that was deleted.
EraseInv ==
  /\ DOMAIN erases = Erases
  /\ \A x \in Erases :
       /\ DOMAIN erases[x] = {"pc", "epoch"}
       /\ erases[x].pc \in {"authorized", "unlinked"} => Withdrawn(EraseOf[x].artifact)

\* A write that has linked its blob finds it there until the row is written.
WriteInv ==
  /\ DOMAIN writes = Writes
  /\ \A w \in Writes :
       /\ DOMAIN writes[w] = {"pc", "epoch", "held"}
       /\ (writes[w].pc \in {"linked", "synced"} /\ WriteOf[w].artifact \notin DOMAIN artifacts)
            => /\ WriteOf[w].artifact \in DOMAIN blobs
               /\ blobs[WriteOf[w].artifact] = WriteOf[w].content

\* The end of the range of a read whose state is c, whether the content has the range,
\* and how far the sent bytes reach once the file has been read up to c's position.
EndOf(r, c) == IF ReadOf[r].length = <<>> THEN c.size ELSE ReadOf[r].offset + ReadOf[r].length[1]
Covers(r, c) == ReadOf[r].offset <= c.size /\ EndOf(r, c) <= c.size
Reach(r, c) == IF c.position <= ReadOf[r].offset THEN ReadOf[r].offset
               ELSE IF c.position <= EndOf(r, c) THEN c.position ELSE EndOf(r, c)

\* A read's snapshot is the row's content; it has sent the part of the range that
\* lies before its position, and begins only with a range inside the content.
ReadOk(r, c) ==
  /\ DOMAIN c = {"pc", "content", "size", "position", "sent"}
  /\ c.size \in Nat /\ c.position \in 0..c.size
  /\ c.sent = Bytes(ReadOf[r].offset, Reach(r, c))
  /\ c.pc \in {"idle", "loaded", "missing", "refused"} => c.position = 0
  /\ (c.pc \in {"streaming", "complete"} \/ c.position > 0) => Covers(r, c)
  /\ c.pc = "complete" => c.position = c.size
  /\ c.pc = "loaded" => /\ ReadOf[r].artifact \in DOMAIN artifacts
                        /\ c.content = artifacts[ReadOf[r].artifact].content
  /\ c.pc = "missing" => Withdrawn(ReadOf[r].artifact)

ReadInv == DOMAIN reads = Reads /\ \A r \in Reads : ReadOk(r, reads[r])

ArtifactInv == RowInv /\ ReceiptInv /\ EraseInv /\ WriteInv /\ ReadInv

-----------------------------------------------------------------------------
(* Artifacts: the bytes of a range.                                        *)

\* Bytes that agree at every position are the same.
LEMMA SameBytes ==
  ASSUME NEW s \in Seq(Int), NEW t \in Seq(Int), Len(s) = Len(t), \A i \in 1..Len(s) : s[i] = t[i]
  PROVE  s = t
OBVIOUS

\* Two neighbouring ranges make one.
LEMMA BytesAppend ==
  ASSUME NEW a \in Nat, NEW b \in Nat, NEW c \in Nat, a <= b, b <= c
  PROVE  Bytes(a, b) \o Bytes(b, c) = Bytes(a, c)
<1>1. /\ Bytes(a, b) = [i \in 1..(b - a) |-> a + i - 1]
      /\ Bytes(b, c) = [i \in 1..(c - b) |-> b + i - 1]
      /\ Bytes(a, c) = [i \in 1..(c - a) |-> a + i - 1]
  BY DEF Bytes
<1>2. /\ Bytes(a, b) \in Seq(Int) /\ Len(Bytes(a, b)) = b - a
      /\ Bytes(b, c) \in Seq(Int) /\ Len(Bytes(b, c)) = c - b
      /\ Bytes(a, c) \in Seq(Int) /\ Len(Bytes(a, c)) = c - a
  BY <1>1
<1>3. PICK s \in Seq(Int), t \in Seq(Int), u \in Seq(Int) :
        s = Bytes(a, b) /\ t = Bytes(b, c) /\ u = Bytes(a, c)
  BY <1>2
<1>4. Len(s) = b - a /\ Len(t) = c - b /\ Len(s) + Len(t) = c - a /\ Len(u) = c - a
  BY <1>2, <1>3
<1>5. PICK v : v = s \o t  BY Zenon
<1>6. /\ v \in Seq(Int) /\ Len(v) = Len(s) + Len(t)
      /\ \A i \in 1..(Len(s) + Len(t)) : v[i] = IF i <= Len(s) THEN s[i] ELSE t[i - Len(s)]
  BY <1>5
<1>7. ASSUME NEW i \in 1..(c - a) PROVE v[i] = u[i]
  <2>1. CASE i <= b - a
    <3>1. v[i] = s[i] /\ i \in 1..(b - a)  BY <1>4, <1>6, <2>1
    <3>2. QED  BY <1>1, <1>3, <3>1
  <2>2. CASE i > b - a
    <3>0. i \in 1..(Len(s) + Len(t)) /\ ~(i <= Len(s))  BY <1>4, <2>2
    <3>1. v[i] = t[i - (b - a)]
      <4>1. v[i] = t[i - Len(s)]  BY <1>6, <3>0, Zenon
      <4>2. QED  BY <1>4, <4>1
    <3>2. i - (b - a) \in 1..(c - b)  BY <2>2
    <3>3. QED  BY <1>1, <1>3, <3>1, <3>2
  <2>3. QED  BY <2>1, <2>2
<1>8. v = u  BY <1>4, <1>6, <1>7, SameBytes, Zenon
<1>9. QED  BY <1>3, <1>5, <1>8

\* A range that ends where it begins, or before, is empty.
LEMMA BytesEmpty ==
  ASSUME NEW a \in Nat, NEW b \in Nat, b <= a
  PROVE  Bytes(a, b) = <<>>
  BY DEF Bytes

\* A shorter range from the same start is a prefix.
LEMMA BytesPrefix ==
  ASSUME NEW a \in Nat, NEW b \in Nat, NEW c \in Nat, a <= b, b <= c
  PROVE  /\ Len(Bytes(a, b)) <= Len(Bytes(a, c))
         /\ Bytes(a, b) = SubSeq(Bytes(a, c), 1, Len(Bytes(a, b)))
<1>1. /\ Bytes(a, b) = [i \in 1..(b - a) |-> a + i - 1]
      /\ Bytes(a, c) = [i \in 1..(c - a) |-> a + i - 1]
  BY DEF Bytes
<1>2. /\ Bytes(a, b) \in Seq(Int) /\ Len(Bytes(a, b)) = b - a
      /\ Bytes(a, c) \in Seq(Int) /\ Len(Bytes(a, c)) = c - a
  BY <1>1
<1>3. SubSeq(Bytes(a, c), 1, b - a) = [i \in 1..(b - a) |-> Bytes(a, c)[i]]
  BY <1>2
<1>4. QED  BY <1>1, <1>2, <1>3

LEMMA MaxMin ==
  ASSUME NEW a \in Nat, NEW b \in Nat
  PROVE  /\ Max({a, b}) = IF a <= b THEN b ELSE a
         /\ Min({a, b}) = IF a <= b THEN a ELSE b
  BY DEF Max, Min

-----------------------------------------------------------------------------
(* The steps of the artifact calls.                                        *)

\* Write calls move on without linking a blob or writing a row.
LEMMA WriteMoves ==
  ASSUME ArtifactInv, UNCHANGED <<artifacts, receipts, blobs, erases, reads>>,
         DOMAIN writes' = Writes,
         \A v \in Writes :
           /\ DOMAIN writes'[v] = {"pc", "epoch", "held"}
           /\ writes'[v].pc \in {"linked", "synced"} => writes[v].pc \in {"linked", "synced"}
  PROVE  ArtifactInv'
<1>1. RowInv' /\ ReceiptInv' /\ EraseInv'
  BY DEF ArtifactInv, RowInv, ReceiptInv, EraseInv, Withdrawn
<1>2. WriteInv'  BY DEF ArtifactInv, WriteInv
<1>3. ReadInv'  BY DEF ArtifactInv, ReadInv, ReadOk, Withdrawn
<1>4. QED  BY <1>1, <1>2, <1>3 DEF ArtifactInv

\* One read moves on.
LEMMA ReadMoves ==
  ASSUME ArtifactInv, UNCHANGED <<artifacts, receipts, blobs, erases, writes>>,
         NEW r \in Reads, NEW c, reads' = [reads EXCEPT ![r] = c], ReadOk(r, c)
  PROVE  ArtifactInv'
<1>1. RowInv' /\ ReceiptInv' /\ EraseInv' /\ WriteInv'
  BY DEF ArtifactInv, RowInv, ReceiptInv, EraseInv, WriteInv, Withdrawn
<1>2. DOMAIN reads' = Reads /\ \A q \in Reads : reads'[q] = IF q = r THEN c ELSE reads[q]
  BY DEF ArtifactInv, ReadInv
<1>3. \A q \in Reads : ReadOk(q, reads'[q])  BY <1>2 DEF ArtifactInv, ReadInv
<1>4. ReadInv'  BY <1>2, <1>3 DEF ReadInv, ReadOk, Withdrawn
<1>5. QED  BY <1>1, <1>4 DEF ArtifactInv

\* Rows are added or withdrawn: the reads' snapshots stand.
LEMMA RowsMove ==
  ASSUME ArtifactInv, UNCHANGED reads, DOMAIN artifacts \subseteq DOMAIN artifacts',
         \A a \in DOMAIN artifacts :
           /\ artifacts'[a].content = artifacts[a].content
           /\ artifacts[a].state # "available" => artifacts'[a].state # "available"
  PROVE  ReadInv' /\ \A a : Withdrawn(a) => Withdrawn(a)'
<1>1. \A a : Withdrawn(a) => Withdrawn(a)'  BY DEF Withdrawn
<1>2. ReadInv'
  BY <1>1, Zenon DEF ArtifactInv, ReadInv, ReadOk
<1>3. QED  BY <1>1, <1>2

LEMMA WriteStepKeeps ==
  ASSUME ArtifactInv, NEW w \in Writes,
         \/ PrepareArtifactWrite(w) \/ StartWrite(w) \/ NoteReservation(w)
         \/ ReserveBytes(w) \/ ReadSource(w)
         \/ RemoveTemp(w) \/ ReleaseOnError(w) \/ CancelWrite(w)
  PROVE  ArtifactInv'
<1> DEFINE ok == /\ DOMAIN writes' = Writes
                 /\ \A v \in Writes :
                      /\ DOMAIN writes'[v] = {"pc", "epoch", "held"}
                      /\ writes'[v].pc \in {"linked", "synced"}
                           => writes[v].pc \in {"linked", "synced"}
<1>0. /\ DOMAIN writes = Writes
      /\ \A v \in Writes : DOMAIN writes[v] = {"pc", "epoch", "held"}
  BY Zenon DEF ArtifactInv, WriteInv
<1>1. ASSUME NEW p, Step(w, p),
             p \in {"linked", "synced"} => writes[w].pc \in {"linked", "synced"}
      PROVE  ok
  BY <1>0, <1>1 DEF Step
<1>2. CASE PrepareArtifactWrite(w)
  <2>1. UNCHANGED <<artifacts, receipts, blobs, erases, reads>>  BY <1>2 DEF PrepareArtifactWrite
  <2>2. ok  BY <1>0, <1>2 DEF PrepareArtifactWrite
  <2>3. QED  BY <2>1, <2>2, WriteMoves, Zenon
<1>3. CASE StartWrite(w)
  <2>1. UNCHANGED <<artifacts, receipts, blobs, erases, reads>>  BY <1>3 DEF StartWrite
  <2>2. Step(w, "counting") \/ Step(w, "failed")  BY <1>3 DEF StartWrite
  <2>3. ok  BY <1>1, <2>2
  <2>4. QED  BY <2>1, <2>3, WriteMoves
<1>3n. CASE NoteReservation(w)
  <2>1. UNCHANGED <<artifacts, receipts, blobs, erases, reads>>  BY <1>3n DEF NoteReservation
  <2>2. CASE writes' = [writes EXCEPT ![w].pc = "counted", ![w].held = <<CountId(w)>>]
    <3>1. ok  BY <1>0, <2>2
    <3>2. QED  BY <2>1, <3>1, WriteMoves
  <2>3. CASE writes' = [writes EXCEPT ![w].pc = "reserved", ![w].held = Append(@, BytesId(w))]
    <3>1. PICK h : h = Append(writes[w].held, BytesId(w))  BY Zenon
    <3>2. writes' = [writes EXCEPT ![w].pc = "reserved", ![w].held = h]  BY <1>0, <2>3, <3>1
    <3>3. ok  BY <1>0, <3>2
    <3>4. QED  BY <2>1, <3>3, WriteMoves
  <2>4. QED  BY <1>3n, <2>2, <2>3 DEF NoteReservation
<1>4. CASE ReserveBytes(w)
  <2>1. UNCHANGED <<artifacts, receipts, blobs, erases, reads>>  BY <1>4 DEF ReserveBytes
  <2>2. Step(w, "reserved") \/ Step(w, "sizing") \/ Step(w, "failed")
    BY <1>4 DEF ReserveBytes, Drop
  <2>3. ok  BY <1>1, <2>2
  <2>4. QED  BY <2>1, <2>3, WriteMoves
<1>5. CASE ReadSource(w)
  <2>1. UNCHANGED <<artifacts, receipts, blobs, erases, reads>>  BY <1>5 DEF ReadSource
  <2>2. Step(w, "written") \/ Step(w, "erring")  BY <1>5 DEF ReadSource
  <2>3. ok  BY <1>1, <2>2
  <2>4. QED  BY <2>1, <2>3, WriteMoves
<1>6. CASE RemoveTemp(w)
  <2>1. /\ UNCHANGED <<artifacts, receipts, blobs, erases, reads>>
        /\ Step(w, "synced") /\ writes[w].pc = "linked"
    BY <1>6 DEF RemoveTemp
  <2>2. ok  BY <1>1, <2>1
  <2>3. QED  BY <2>1, <2>2, WriteMoves
<1>7. CASE ReleaseOnError(w)
  <2>1. UNCHANGED <<artifacts, receipts, blobs, erases, reads>>  BY <1>7 DEF ReleaseOnError
  <2>2. UNCHANGED writes \/ Step(w, "failed")  BY <1>7 DEF ReleaseOnError, Drop
  <2>3. ok  BY <1>0, <1>1, <2>2
  <2>4. QED  BY <2>1, <2>3, WriteMoves
<1>8. CASE CancelWrite(w)
  <2>1. /\ UNCHANGED <<artifacts, receipts, blobs, erases, reads>>
        /\ Step(w, "failed") \/ Step(w, "leaking")
    BY <1>8 DEF CancelWrite, Drop
  <2>2. ok  BY <1>1, <2>1
  <2>3. QED  BY <2>1, <2>2, WriteMoves
<1>9. QED  BY <1>2, <1>3, <1>3n, <1>4, <1>5, <1>6, <1>7, <1>8

LEMMA LinkKeeps ==
  ASSUME ArtifactInv, NEW w \in Writes, LinkBlob(w)
  PROVE  ArtifactInv'
<1> DEFINE a == WriteOf[w].artifact
           bytes == WriteOf[w].content
<1>0. /\ DOMAIN writes = Writes
      /\ \A v \in Writes : DOMAIN writes[v] = {"pc", "epoch", "held"}
      /\ UNCHANGED <<artifacts, receipts, erases, reads>>
  BY DEF ArtifactInv, WriteInv, LinkBlob
<1>1. CASE Step(w, "erring") /\ UNCHANGED blobs
  <2>1. /\ DOMAIN writes' = Writes
        /\ \A v \in Writes :
             /\ DOMAIN writes'[v] = {"pc", "epoch", "held"}
             /\ writes'[v].pc \in {"linked", "synced"} => writes[v].pc \in {"linked", "synced"}
    BY <1>0, <1>1 DEF Step
  <2>2. QED  BY <1>0, <1>1, <2>1, WriteMoves
<1>2. CASE /\ Step(w, "linked")
           /\ \/ a \notin DOMAIN blobs /\ blobs' = Put(blobs, a, bytes)
              \/ a \in DOMAIN blobs /\ blobs[a] = bytes /\ UNCHANGED blobs
  <2>1. /\ a \in DOMAIN blobs' /\ blobs'[a] = bytes /\ DOMAIN blobs \subseteq DOMAIN blobs'
        /\ \A b \in DOMAIN blobs : blobs'[b] = blobs[b]
    BY <1>2 DEF Put
  <2>2. /\ DOMAIN writes' = Writes /\ \A v \in Writes : v # w => writes'[v] = writes[v]
        /\ DOMAIN writes'[w] = {"pc", "epoch", "held"}
    BY <1>0, <1>2 DEF Step
  <2>3. RowInv'  BY <1>0, <2>1 DEF ArtifactInv, RowInv
  <2>4. ReceiptInv' /\ EraseInv'
    BY <1>0 DEF ArtifactInv, ReceiptInv, EraseInv, Withdrawn
  <2>5. WriteInv'  BY <1>0, <2>1, <2>2 DEF ArtifactInv, WriteInv
  <2>6. ReadInv'
    BY <1>0 DEF ArtifactInv, ReadInv, ReadOk, Withdrawn
  <2>7. QED  BY <2>3, <2>4, <2>5, <2>6 DEF ArtifactInv
<1>3. QED  BY <1>1, <1>2 DEF LinkBlob

LEMMA PublishKeeps ==
  ASSUME ArtifactInv, NEW w \in Writes, Publish(w)
  PROVE  ArtifactInv'
<1> DEFINE a == WriteOf[w].artifact
<1>0. /\ DOMAIN writes = Writes
      /\ \A v \in Writes : DOMAIN writes[v] = {"pc", "epoch", "held"}
      /\ UNCHANGED <<blobs, erases, reads>> /\ writes[w].pc = "synced"
  BY DEF ArtifactInv, WriteInv, Publish
<1>1. Step(w, "erring") \/ Step(w, "done")  BY DEF Publish, Return, Step
<1>2. /\ DOMAIN writes' = Writes
      /\ \A v \in Writes :
           /\ DOMAIN writes'[v] = {"pc", "epoch", "held"}
           /\ writes'[v].pc \in {"linked", "synced"} => writes[v].pc \in {"linked", "synced"}
  BY <1>0, <1>1 DEF Step
<1>3. CASE UNCHANGED <<artifacts, receipts>>  BY <1>0, <1>2, <1>3, WriteMoves
<1>4. CASE /\ PublishAdmits(w) /\ Recorded(WriteOf[w].request, WriteOf[w])
           /\ artifacts' = Put(artifacts, a,
                [session |-> WriteOf[w].session, content |-> WriteOf[w].content,
                 size |-> WriteOf[w].size, state |-> "available", until |-> WriteOf[w].until])
  <2>1. a \notin DOMAIN artifacts  BY <1>4 DEF PublishAdmits
  <2>2. a \in DOMAIN blobs /\ blobs[a] = WriteOf[w].content
    BY <1>0, <2>1 DEF ArtifactInv, WriteInv
  <2>3. /\ DOMAIN artifacts' = DOMAIN artifacts \cup {a}
        /\ \A b \in DOMAIN artifacts : artifacts'[b] = artifacts[b]
        /\ artifacts'[a] = [session |-> WriteOf[w].session, content |-> WriteOf[w].content,
                 size |-> WriteOf[w].size, state |-> "available", until |-> WriteOf[w].until]
    BY <1>4, <2>1 DEF Put
  <2>4. RowInv'
    BY <1>0, <2>2, <2>3, ArtifactsAssumption DEF ArtifactInv, RowInv
  <2>5. ReadInv' /\ \A b : Withdrawn(b) => Withdrawn(b)'
    BY <1>0, <2>3, RowsMove
  <2>6. ReceiptInv'
    <3>1. \A q \in DOMAIN receipts' :
            \/ receipts'[q] = WriteOf[w]
            \/ q \in DOMAIN receipts /\ receipts'[q] = receipts[q]
      BY <1>4 DEF Recorded, Put
    <3>2. QED  BY <3>1, <2>5, ArtifactsAssumption DEF ArtifactInv, ReceiptInv
  <2>7. EraseInv'  BY <1>0, <2>5 DEF ArtifactInv, EraseInv
  <2>8. WriteInv'  BY <1>0, <1>2, <2>3 DEF ArtifactInv, WriteInv
  <2>9. QED  BY <2>4, <2>5, <2>6, <2>7, <2>8 DEF ArtifactInv
<1>5. QED  BY <1>3, <1>4 DEF Publish

\* Deletion and the record of an erasure: the row is withdrawn, with a receipt.
LEMMA WithdrawKeeps ==
  ASSUME ArtifactInv, UNCHANGED <<blobs, writes, reads>>, NEW c, NEW state, state # "available",
         c.artifact \in DOMAIN artifacts,
         artifacts' = [artifacts EXCEPT ![c.artifact].state = state],
         Recorded(c.request, c),
         DOMAIN erases' = Erases,
         \A x \in Erases :
           /\ DOMAIN erases'[x] = {"pc", "epoch"}
           /\ erases'[x].pc \in {"authorized", "unlinked"}
                => erases[x].pc \in {"authorized", "unlinked"}
  PROVE  ArtifactInv'
<1>1. /\ DOMAIN artifacts[c.artifact] = {"session", "content", "size", "state", "until"}
      /\ artifacts[c.artifact].size \in Nat
  BY DEF ArtifactInv, RowInv
<1>2. /\ DOMAIN artifacts' = DOMAIN artifacts
      /\ \A b \in DOMAIN artifacts : b # c.artifact => artifacts'[b] = artifacts[b]
      /\ DOMAIN artifacts'[c.artifact] = {"session", "content", "size", "state", "until"}
      /\ artifacts'[c.artifact].size = artifacts[c.artifact].size
      /\ artifacts'[c.artifact].content = artifacts[c.artifact].content
      /\ artifacts'[c.artifact].state = state
  BY <1>1
<1>3. RowInv'  BY <1>1, <1>2 DEF ArtifactInv, RowInv
<1>4. ReadInv' /\ \A b : Withdrawn(b) => Withdrawn(b)'
  <2>1. \A b \in DOMAIN artifacts :
           /\ artifacts'[b].content = artifacts[b].content
           /\ artifacts[b].state # "available" => artifacts'[b].state # "available"
    BY <1>2
  <2>2. QED  BY <1>2, <2>1, RowsMove
<1>5. Withdrawn(c.artifact)'  BY <1>2 DEF Withdrawn
<1>6. ReceiptInv'
  <2>1. \A q \in DOMAIN receipts' :
          \/ receipts'[q] = c
          \/ q \in DOMAIN receipts /\ receipts'[q] = receipts[q]
    BY DEF Recorded, Put
  <2>2. QED  BY <2>1, <1>4, <1>5 DEF ArtifactInv, ReceiptInv
<1>7. EraseInv'  BY <1>4 DEF ArtifactInv, EraseInv
<1>8. WriteInv'  BY <1>2 DEF ArtifactInv, WriteInv
<1>9. QED  BY <1>3, <1>4, <1>6, <1>7, <1>8 DEF ArtifactInv

LEMMA DeleteKeeps ==
  ASSUME ArtifactInv, NEW d \in Deletes, Delete(d)
  PROVE  ArtifactInv'
<1>1. /\ UNCHANGED <<blobs, writes, erases, reads>>
      /\ DeleteOf[d].artifact \in DOMAIN artifacts
      /\ artifacts' = [artifacts EXCEPT ![DeleteOf[d].artifact].state = "deleted"]
      /\ Recorded(DeleteOf[d].request, DeleteOf[d])
  BY DEF Delete, Deletable, Holds
<1>2. DOMAIN erases' = Erases /\ \A x \in Erases : DOMAIN erases'[x] = {"pc", "epoch"}
  BY <1>1 DEF ArtifactInv, EraseInv
<1>3. QED  BY <1>1, <1>2, WithdrawKeeps, Zenon

LEMMA EraseKeeps ==
  ASSUME ArtifactInv, NEW x \in Erases,
         AuthorizeErase(x) \/ Unlink(x) \/ RecordErasure(x)
  PROVE  ArtifactInv'
<1> DEFINE a == EraseOf[x].artifact
<1>0. /\ DOMAIN erases = Erases
      /\ \A y \in Erases : DOMAIN erases[y] = {"pc", "epoch"}
  BY DEF ArtifactInv, EraseInv
<1>1. ASSUME UNCHANGED <<artifacts, receipts, writes, reads>>,
             DOMAIN erases' = Erases,
             \A y \in Erases :
               /\ DOMAIN erases'[y] = {"pc", "epoch"}
               /\ erases'[y].pc \in {"authorized", "unlinked"} => Withdrawn(EraseOf[y].artifact),
             \/ UNCHANGED blobs
             \/ blobs' = Restrict(blobs, DOMAIN blobs \ {a}) /\ Withdrawn(a)
      PROVE  ArtifactInv'
  <2>1. /\ \A b \in DOMAIN blobs : (b # a \/ ~Withdrawn(a)) => b \in DOMAIN blobs' /\ blobs'[b] = blobs[b]
    BY <1>1 DEF Restrict
  <2>2. RowInv'  BY <1>1, <2>1 DEF ArtifactInv, RowInv, Withdrawn
  <2>3. ReceiptInv' /\ EraseInv'
    BY <1>1 DEF ArtifactInv, ReceiptInv, EraseInv, Withdrawn
  <2>4. WriteInv'  BY <1>1, <2>1 DEF ArtifactInv, WriteInv, Withdrawn
  <2>5. ReadInv'
    BY <1>1, Zenon DEF ArtifactInv, ReadInv, ReadOk, Withdrawn
  <2>6. QED  BY <2>2, <2>3, <2>4, <2>5 DEF ArtifactInv
<1>2. CASE AuthorizeErase(x)
  <2>1. PICK e : e = [pc |-> "authorized", epoch |-> epoch[EraseOf[x].session]]  BY Zenon
  <2>2. /\ erases' = [erases EXCEPT ![x] = e]
        /\ UNCHANGED <<artifacts, receipts, blobs, writes, reads>>
    BY <1>2, <2>1, Zenon DEF AuthorizeErase
  <2>3. Withdrawn(a)
    <3>1. CASE Replayed(EraseOf[x].request, EraseOf[x])
      BY <3>1, ArtifactsAssumption DEF ArtifactInv, ReceiptInv, Replayed, Fresh
    <3>2. CASE Erasable(EraseOf[x], epoch[EraseOf[x].session])
      BY <3>2 DEF Erasable, Holds, Withdrawn
    <3>3. QED  BY <1>2, <3>1, <3>2 DEF AuthorizeErase
  <2>4. /\ DOMAIN erases' = Erases
        /\ \A y \in Erases :
             /\ DOMAIN erases'[y] = {"pc", "epoch"}
             /\ erases'[y].pc \in {"authorized", "unlinked"} => Withdrawn(EraseOf[y].artifact)
    BY <1>0, <2>1, <2>2, <2>3 DEF ArtifactInv, EraseInv
  <2>5. QED  BY <1>1, <2>2, <2>4, Zenon
<1>3. CASE Unlink(x)
  <2>1. /\ UNCHANGED <<artifacts, receipts, writes, reads>> /\ erases[x].pc = "authorized"
        /\ \/ /\ erases' = [erases EXCEPT ![x].pc = "unlinked"]
              /\ blobs' = Restrict(blobs, DOMAIN blobs \ {a})
           \/ erases' = [erases EXCEPT ![x].pc = "failed"] /\ UNCHANGED blobs
    BY <1>3 DEF Unlink
  <2>2. Withdrawn(a)  BY <2>1 DEF ArtifactInv, EraseInv
  <2>3. /\ DOMAIN erases' = Erases
        /\ \A y \in Erases :
             /\ DOMAIN erases'[y] = {"pc", "epoch"}
             /\ erases'[y].pc \in {"authorized", "unlinked"} => Withdrawn(EraseOf[y].artifact)
    BY <1>0, <2>1, <2>2 DEF ArtifactInv, EraseInv
  <2>4. QED  BY <1>1, <2>1, <2>2, <2>3
<1>4. CASE RecordErasure(x)
  <2>1. /\ UNCHANGED <<blobs, writes, reads>> /\ erases' = [erases EXCEPT ![x].pc = "done"]
    BY <1>4 DEF RecordErasure
  <2>2. /\ DOMAIN erases' = Erases
        /\ \A y \in Erases :
             /\ DOMAIN erases'[y] = {"pc", "epoch"}
             /\ erases'[y].pc \in {"authorized", "unlinked"}
                  => erases[y].pc \in {"authorized", "unlinked"}
    BY <1>0, <2>1
  <2>3. CASE UNCHANGED <<artifacts, receipts>>
    <3>1. \A y \in Erases :
            erases'[y].pc \in {"authorized", "unlinked"} => Withdrawn(EraseOf[y].artifact)
      BY <2>2 DEF ArtifactInv, EraseInv
    <3>2. QED  BY <1>1, <2>1, <2>2, <2>3, <3>1
  <2>4. CASE /\ Erasable(EraseOf[x], erases[x].epoch) /\ Recorded(EraseOf[x].request, EraseOf[x])
             /\ artifacts' = [artifacts EXCEPT ![EraseOf[x].artifact].state = "physically_erased"]
    <3>1. EraseOf[x].artifact \in DOMAIN artifacts  BY <2>4 DEF Erasable, Holds
    <3>2. QED  BY <2>1, <2>2, <2>4, <3>1, WithdrawKeeps, Zenon
  <2>5. QED  BY <1>4, <2>3, <2>4 DEF RecordErasure
<1>5. QED  BY <1>2, <1>3, <1>4

\* The end of a read's range is a number, and not before its start where the content covers it.
LEMMA Ranges ==
  ASSUME NEW r \in Reads, NEW c, c.size \in Nat
  PROVE  /\ ReadOf[r].offset \in Nat /\ EndOf(r, c) \in Nat
         /\ Covers(r, c) => ReadOf[r].offset <= EndOf(r, c) /\ EndOf(r, c) <= c.size
<1>1. /\ ReadOf[r].offset \in Nat /\ ReadOf[r].length \in Seq(Nat)
      /\ Len(ReadOf[r].length) <= 1
  BY ArtifactsAssumption
<1>2. CASE ReadOf[r].length = <<>>  BY <1>1, <1>2 DEF EndOf, Covers
<1>3. CASE ReadOf[r].length # <<>>
  <2>1. ReadOf[r].length[1] \in Nat  BY <1>1, <1>3
  <2>2. QED  BY <1>1, <1>3, <2>1 DEF EndOf, Covers
<1>4. QED  BY <1>2, <1>3

\* A read that only moves to another step has sent what it had sent.
LEMMA SamePlace ==
  ASSUME NEW r \in Reads, NEW x, ReadOk(r, x), NEW c,
         DOMAIN c = {"pc", "content", "size", "position", "sent"},
         c.size = x.size, c.position = x.position, c.sent = x.sent, c.content = x.content,
         c.pc \in {"idle", "loaded", "missing", "refused"} => c.position = 0,
         c.pc \in {"streaming", "complete"} => Covers(r, x),
         c.pc = "complete" => c.position = c.size,
         c.pc = "loaded" => x.pc = "loaded",
         c.pc = "missing" => Withdrawn(ReadOf[r].artifact)
  PROVE  ReadOk(r, c)
<1>1. EndOf(r, c) = EndOf(r, x)  BY DEF EndOf
<1>2. Covers(r, c) = Covers(r, x)  BY <1>1 DEF Covers
<1>3. Reach(r, c) = Reach(r, x)  BY <1>1 DEF Reach
<1>4. QED  BY <1>2, <1>3 DEF ReadOk

LEMMA LoadKeeps ==
  ASSUME ArtifactInv, NEW r \in Reads, LoadArtifact(r)
  PROVE  ArtifactInv'
<1> DEFINE row == artifacts[ReadOf[r].artifact]
<1>1. PICK x : x = reads[r]  BY Zenon
<1>2. /\ r \in DOMAIN reads /\ ReadOk(r, x)
      /\ DOMAIN x = {"pc", "content", "size", "position", "sent"} /\ x.pc = "idle"
      /\ UNCHANGED <<artifacts, receipts, blobs, erases, writes>>
      /\ ReadOf[r].artifact \in DOMAIN artifacts
  BY <1>1 DEF ArtifactInv, ReadInv, ReadOk, LoadArtifact, Holds
<1>3. PICK c : c = [x EXCEPT !.pc = "loaded", !.content = row.content, !.size = row.size]
  BY Zenon
<1>4. /\ DOMAIN c = {"pc", "content", "size", "position", "sent"}
      /\ c.pc = "loaded" /\ c.content = row.content /\ c.size = row.size
      /\ c.position = x.position /\ c.sent = x.sent
  BY <1>2, <1>3
<1>5. reads' = [reads EXCEPT ![r] = c]  BY <1>1, <1>2, <1>3, Zenon DEF LoadArtifact
<1>6. x.position = 0 /\ x.sent = Bytes(ReadOf[r].offset, Reach(r, x))  BY <1>2 DEF ReadOk
<1>7. row.size \in Nat /\ ReadOf[r].offset \in Nat
  BY <1>2, ArtifactsAssumption DEF ArtifactInv, RowInv
<1>8. Reach(r, x) = ReadOf[r].offset /\ Reach(r, c) = ReadOf[r].offset
  BY <1>4, <1>6, <1>7 DEF Reach
<1>9. ReadOk(r, c)  BY <1>2, <1>4, <1>6, <1>7, <1>8 DEF ReadOk
<1>10. QED  BY <1>2, <1>5, <1>9, ReadMoves, Zenon

LEMMA OpenKeeps ==
  ASSUME ArtifactInv, NEW r \in Reads, OpenBlob(r)
  PROVE  ArtifactInv'
<1>1. PICK x : x = reads[r]  BY Zenon
<1>2. /\ r \in DOMAIN reads /\ ReadOk(r, x)
      /\ DOMAIN x = {"pc", "content", "size", "position", "sent"} /\ x.pc = "loaded"
      /\ UNCHANGED <<artifacts, receipts, blobs, erases, writes>>
  BY <1>1 DEF ArtifactInv, ReadInv, ReadOk, OpenBlob
<1>3. PICK p \in {"missing", "streaming", "refused"} :
        p = IF ~Verified(r) THEN "missing" ELSE IF InContent(r) THEN "streaming" ELSE "refused"
  OBVIOUS
<1>4. PICK c : c = [x EXCEPT !.pc = p]  BY Zenon
<1>5. /\ DOMAIN c = {"pc", "content", "size", "position", "sent"}
      /\ c.pc = p /\ c.content = x.content /\ c.size = x.size
      /\ c.position = x.position /\ c.sent = x.sent
  BY <1>2, <1>4
<1>6. reads' = [reads EXCEPT ![r] = c]  BY <1>1, <1>2, <1>3, <1>4 DEF OpenBlob
<1>7. p = "missing" => Withdrawn(ReadOf[r].artifact)
  <2> SUFFICES ASSUME p = "missing" PROVE Withdrawn(ReadOf[r].artifact)
    OBVIOUS
  <2>1. /\ ReadOf[r].artifact \in DOMAIN artifacts
        /\ x.content = artifacts[ReadOf[r].artifact].content
    BY <1>2 DEF ReadOk
  <2>2. ~Verified(r)  BY <1>3
  <2>3. QED  BY <1>1, <2>1, <2>2 DEF Verified, Withdrawn, ArtifactInv, RowInv
<1>8. InContent(r) = Covers(r, x)  BY <1>1 DEF InContent, Covers, RangeEnd, EndOf
<1>9. p = "streaming" => Covers(r, x)  BY <1>3, <1>8
<1>10. x.position = 0  BY <1>2 DEF ReadOk
<1>11. ReadOk(r, c)  BY <1>2, <1>3, <1>5, <1>7, <1>9, <1>10, SamePlace
<1>12. QED  BY <1>2, <1>6, <1>11, ReadMoves, Zenon

LEMMA EndKeeps ==
  ASSUME ArtifactInv, NEW r \in Reads, StreamEnds(r)
  PROVE  ArtifactInv'
<1>1. PICK x : x = reads[r]  BY Zenon
<1>2. /\ r \in DOMAIN reads /\ ReadOk(r, x)
      /\ DOMAIN x = {"pc", "content", "size", "position", "sent"} /\ x.pc = "streaming"
      /\ UNCHANGED <<artifacts, receipts, blobs, erases, writes>>
  BY <1>1 DEF ArtifactInv, ReadInv, ReadOk, StreamEnds
<1>3. PICK p \in {"complete", "broken", "closed"} :
        /\ p = "complete" => x.position = x.size
        /\ reads' = [reads EXCEPT ![r].pc = p]
  BY <1>1, Zenon DEF StreamEnds
<1>4. PICK c : c = [x EXCEPT !.pc = p]  BY Zenon
<1>5. /\ DOMAIN c = {"pc", "content", "size", "position", "sent"}
      /\ c.pc = p /\ c.content = x.content /\ c.size = x.size
      /\ c.position = x.position /\ c.sent = x.sent
  BY <1>2, <1>4
<1>6. reads' = [reads EXCEPT ![r] = c]  BY <1>1, <1>2, <1>3, <1>4
<1>7. Covers(r, x)  BY <1>2 DEF ReadOk
<1>8. ReadOk(r, c)  BY <1>2, <1>3, <1>5, <1>7, SamePlace
<1>9. QED  BY <1>2, <1>6, <1>8, ReadMoves, Zenon

\* The chunk lo..hi-1 continues what was sent of a range from off, or adds nothing to it.
Continues(off, old, lo, hi, new) ==
  /\ off \in Nat /\ old \in Nat /\ lo \in Nat /\ hi \in Nat /\ new \in Nat
  /\ off <= old /\ old <= new
  /\ (lo = old /\ hi = new) \/ (old = new /\ hi <= lo)

LEMMA ChunkAppends ==
  ASSUME NEW off, NEW old, NEW lo, NEW hi, NEW new, Continues(off, old, lo, hi, new)
  PROVE  Bytes(off, old) \o Bytes(lo, hi) = Bytes(off, new)
<1>1. CASE lo = old /\ hi = new
  <2>1. off \in Nat /\ old \in Nat /\ new \in Nat /\ off <= old /\ old <= new
    BY Zenon DEF Continues
  <2>2. Bytes(off, old) \o Bytes(old, new) = Bytes(off, new)  BY <2>1, BytesAppend, Zenon
  <2>3. QED  BY <1>1, <2>2, Zenon
<1>2. CASE old = new /\ hi <= lo
  <2>1. off \in Nat /\ old \in Nat /\ old <= old /\ off <= old /\ lo \in Nat /\ hi \in Nat
    BY DEF Continues
  <2>2. Bytes(off, old) \o Bytes(old, old) = Bytes(off, old)  BY <2>1, BytesAppend, Zenon
  <2>3. Bytes(old, old) = <<>> /\ Bytes(lo, hi) = <<>>  BY <1>2, <2>1, BytesEmpty
  <2>4. QED  BY <1>2, <2>2, <2>3, Zenon
<1>3. QED  BY <1>1, <1>2 DEF Continues

LEMMA ChunkKeeps ==
  ASSUME ArtifactInv, NEW r \in Reads, NEW n \in 1..ChunkBytes, StreamChunk(r, n)
  PROVE  ArtifactInv'
<1>1. PICK x : x = reads[r]  BY Zenon
<1>2. /\ r \in DOMAIN reads /\ ReadOk(r, x)
      /\ DOMAIN x = {"pc", "content", "size", "position", "sent"} /\ x.pc = "streaming"
      /\ UNCHANGED <<artifacts, receipts, blobs, erases, writes>>
  BY <1>1 DEF ArtifactInv, ReadInv, ReadOk, StreamChunk
<1>3. /\ x.size \in Nat /\ x.position \in Nat /\ Covers(r, x)
      /\ x.sent = Bytes(ReadOf[r].offset, Reach(r, x))
  BY <1>2 DEF ReadOk
<1>4. PICK off \in Nat, end \in Nat, at \in Nat, m \in Nat :
        /\ off = ReadOf[r].offset /\ end = EndOf(r, x) /\ off <= end
        /\ at = x.position /\ m = at + n /\ at <= m
  BY <1>3, Ranges, ArtifactsAssumption
<1>5. m <= x.size  BY <1>1, <1>4 DEF StreamChunk
<1>6. PICK lo \in Nat, hi \in Nat : /\ lo = Max({at, off}) /\ hi = Min({m, end})
                                    /\ lo = IF at <= off THEN off ELSE at
                                    /\ hi = IF m <= end THEN m ELSE end
  BY MaxMin
<1>7. PICK q : q = x.sent \o Bytes(lo, hi)  BY Zenon
<1>8. PICK c : c = [x EXCEPT !.position = m, !.sent = q]  BY Zenon
<1>9. /\ DOMAIN c = {"pc", "content", "size", "position", "sent"}
      /\ c.pc = "streaming" /\ c.content = x.content /\ c.size = x.size
      /\ c.position = m /\ c.sent = q
  BY <1>2, <1>8
<1>10. reads' = [reads EXCEPT ![r] = c]
  <2>1. RangeEnd(r) = end  BY <1>1, <1>4 DEF RangeEnd, EndOf
  <2>2. reads' = [reads EXCEPT ![r].position = m, ![r].sent = q]
    BY <1>1, <1>4, <1>6, <1>7, <2>1, Zenon DEF StreamChunk
  <2>3. QED  BY <1>1, <1>2, <1>8, <2>2, Zenon
<1>11. EndOf(r, c) = end /\ Covers(r, c)  BY <1>3, <1>4, <1>9 DEF EndOf, Covers
<1>12. PICK old \in Nat, new \in Nat :
         /\ old = Reach(r, x) /\ new = Reach(r, c)
         /\ old = IF at <= off THEN off ELSE IF at <= end THEN at ELSE end
         /\ new = IF m <= off THEN off ELSE IF m <= end THEN m ELSE end
  BY <1>4, <1>9, <1>11 DEF Reach
<1>13. q = Bytes(off, new)
  <2>1. Bytes(off, old) \o Bytes(lo, hi) = Bytes(off, new)
    <3>1. off <= end /\ at <= m  BY <1>4
    <3>2. lo = (IF at <= off THEN off ELSE at) /\ hi = (IF m <= end THEN m ELSE end)  BY <1>6
    <3>3. /\ old = IF at <= off THEN off ELSE IF at <= end THEN at ELSE end
          /\ new = IF m <= off THEN off ELSE IF m <= end THEN m ELSE end
      BY <1>12
    <3>4. off <= old /\ old <= new  BY <3>1, <3>3
    <3>5. (lo = old /\ hi = new) \/ (old = new /\ hi <= lo)  BY <3>1, <3>2, <3>3
    <3>6. Continues(off, old, lo, hi, new)  BY <3>4, <3>5, Zenon DEF Continues
    <3>7. QED  BY <3>6, ChunkAppends, Zenon
  <2>2. QED  BY <1>3, <1>4, <1>7, <1>12, <2>1, Zenon
<1>14. ReadOk(r, c)
  BY <1>3, <1>4, <1>5, <1>9, <1>11, <1>12, <1>13 DEF ReadOk
<1>15. QED  BY <1>2, <1>10, <1>14, ReadMoves, Zenon

LEMMA ReadStepKeeps ==
  ASSUME ArtifactInv, NEW r \in Reads, ReadStep(r)
  PROVE  ArtifactInv'
  BY LoadKeeps, OpenKeeps, EndKeeps, ChunkKeeps DEF ReadStep

\* The process dies: calls in progress are lost, rows and blobs stay.
LEMMA CrashKeeps ==
  ASSUME ArtifactInv, Crash
  PROVE  ArtifactInv'
<1>0. UNCHANGED <<artifacts, receipts, blobs>>  BY DEF Crash
<1>1. RowInv' /\ ReceiptInv' /\ \A a : Withdrawn(a)' = Withdrawn(a)
  BY <1>0 DEF ArtifactInv, RowInv, ReceiptInv, Withdrawn
<1>2. WriteInv'
  <2>1. /\ DOMAIN writes' = Writes
        /\ \A w \in Writes : writes'[w] = IF writes[w].pc \in InCall
                                          THEN [writes[w] EXCEPT !.pc = "lost"] ELSE writes[w]
    BY DEF Crash
  <2>2. \A w \in Writes :
          /\ DOMAIN writes'[w] = {"pc", "epoch", "held"}
          /\ writes'[w].pc \in {"linked", "synced"} => writes[w].pc \in {"linked", "synced"}
    BY <2>1 DEF ArtifactInv, WriteInv
  <2>3. QED  BY <1>0, <2>1, <2>2 DEF ArtifactInv, WriteInv
<1>3. EraseInv'
  <2>1. /\ DOMAIN erases' = Erases
        /\ \A x \in Erases : erases'[x] = IF erases[x].pc \in {"authorized", "unlinked"}
                                          THEN [erases[x] EXCEPT !.pc = "lost"] ELSE erases[x]
    BY DEF Crash
  <2>2. \A x \in Erases :
          /\ DOMAIN erases'[x] = {"pc", "epoch"}
          /\ erases'[x].pc \notin {"authorized", "unlinked"}
    BY <2>1 DEF ArtifactInv, EraseInv
  <2>3. QED  BY <2>1, <2>2 DEF EraseInv
<1>4. ReadInv'
  <2>1. /\ DOMAIN reads' = Reads
        /\ \A r \in Reads : reads'[r] = IF reads[r].pc \in {"loaded", "streaming"}
                                        THEN [reads[r] EXCEPT !.pc = "lost"] ELSE reads[r]
    BY DEF Crash
  <2>2. ASSUME NEW r \in Reads PROVE ReadOk(r, reads'[r])
    <3>1. PICK x : x = reads[r]  BY Zenon
    <3>2. ReadOk(r, x) /\ DOMAIN x = {"pc", "content", "size", "position", "sent"}
      BY <3>1 DEF ArtifactInv, ReadInv, ReadOk
    <3>3. CASE x.pc \in {"loaded", "streaming"}
      <4>1. PICK c : c = [x EXCEPT !.pc = "lost"]  BY Zenon
      <4>2. reads'[r] = c  BY <2>1, <3>1, <3>3, <4>1
      <4>3. /\ c.pc = "lost" /\ DOMAIN c = {"pc", "content", "size", "position", "sent"}
            /\ c.content = x.content /\ c.size = x.size /\ c.position = x.position /\ c.sent = x.sent
        BY <3>2, <4>1
      <4>4. ReadOk(r, c)  BY <3>2, <4>3, SamePlace
      <4>5. QED  BY <4>2, <4>4
    <3>4. CASE ~(x.pc \in {"loaded", "streaming"})  BY <2>1, <3>1, <3>2, <3>4
    <3>5. QED  BY <3>3, <3>4
  <2>3. QED  BY <1>0, <2>1, <2>2 DEF ReadInv, ReadOk, Withdrawn
<1>5. QED  BY <1>1, <1>2, <1>3, <1>4 DEF ArtifactInv

LEMMA ArtifactsBegin == ArtifactsInit => ArtifactInv
<1> SUFFICES ASSUME ArtifactsInit PROVE ArtifactInv
  OBVIOUS
<1>1. DOMAIN artifacts = {} /\ DOMAIN receipts = {}  BY DEF ArtifactsInit
<1>2. RowInv /\ ReceiptInv  BY <1>1 DEF RowInv, ReceiptInv
<1>3. WriteInv  BY DEF ArtifactsInit, WriteInv
<1>4. EraseInv  BY DEF ArtifactsInit, EraseInv
<1>5. ASSUME NEW r \in Reads PROVE ReadOk(r, reads[r])
  <2>1. PICK x : x = reads[r]  BY Zenon
  <2>2. x = [pc |-> "idle", content |-> None, size |-> 0, position |-> 0, sent |-> <<>>]
    BY <2>1 DEF ArtifactsInit
  <2>3. /\ DOMAIN x = {"pc", "content", "size", "position", "sent"}
        /\ x.pc = "idle" /\ x.size = 0 /\ x.position = 0 /\ x.sent = <<>>
    BY <2>2
  <2>4. PICK off \in Nat : off = ReadOf[r].offset  BY ArtifactsAssumption
  <2>5. Reach(r, x) = off  BY <2>3, <2>4 DEF Reach
  <2>6. Bytes(off, off) = <<>>  BY BytesEmpty
  <2>7. ReadOk(r, x)  BY <2>3, <2>4, <2>5, <2>6 DEF ReadOk
  <2>8. QED  BY <2>1, <2>7
<1>6. ReadInv  BY <1>5 DEF ArtifactsInit, ReadInv
<1>7. QED  BY <1>2, <1>3, <1>4, <1>6 DEF ArtifactInv

LEMMA ArtifactsStay ==
  ArtifactInv /\ [ArtifactsNext]_artifactVars => ArtifactInv'
<1> SUFFICES ASSUME ArtifactInv, [ArtifactsNext]_artifactVars PROVE ArtifactInv'
  OBVIOUS
<1>1. CASE UNCHANGED <<artifacts, receipts, blobs, writes, erases, reads>>
  <2>1. RowInv' /\ ReceiptInv' /\ EraseInv' /\ WriteInv'
    BY <1>1, Zenon DEF ArtifactInv, RowInv, ReceiptInv, EraseInv, WriteInv, Withdrawn
  <2>2. ReadInv'
    BY <1>1, Zenon DEF ArtifactInv, ReadInv, ReadOk, Withdrawn
  <2>3. QED  BY <2>1, <2>2 DEF ArtifactInv
<1>2. CASE ArtifactsNext
  <2>1. CASE \E w \in Writes : CallStep(w) \/ CancelWrite(w)
    <3>1. PICK w \in Writes : CallStep(w) \/ CancelWrite(w)  BY <2>1
    <3>2. QED  BY <3>1, WriteStepKeeps, LinkKeeps, PublishKeeps DEF CallStep
  <2>2. CASE \E r \in Reads : ReadStep(r)  BY <2>2, ReadStepKeeps
  <2>3. CASE \E d \in Deletes : Delete(d)  BY <2>3, DeleteKeeps
  <2>4. CASE \E x \in Erases : AuthorizeErase(x) \/ Unlink(x) \/ RecordErasure(x)
    BY <2>4, EraseKeeps
  <2>5. CASE Crash  BY <2>5, CrashKeeps
  <2>6. CASE \/ Restart \/ Day \/ (\E id \in releasing : ReleaseTask(id))
             \/ \E s \in Sessions : Reacquire(s)
    BY <1>1, <2>6 DEF Restart, Day, ReleaseTask, Reacquire
  <2>7. QED  BY <1>2, <2>1, <2>2, <2>3, <2>4, <2>5, <2>6 DEF ArtifactsNext
<1>3. CASE UNCHANGED artifactVars  BY <1>1, <1>3 DEF artifactVars
<1>4. QED  BY <1>2, <1>3

\* An available artifact keeps its bytes: for any calls, contents and retentions, however
\* writes compete, repeat and are dropped, erasures overlap and the daemon crashes between
\* two steps, the row's content is on disk, a read misses it only after a deletion, and a
\* stream sends exactly the bytes of its range in order, all of them when it completes
\* (LocalArtifactStore's write, read and erase; publish_artifact, transition_artifact).
THEOREM AvailableKeepsBytes == ArtifactsSpec => []AvailableHasBytes
<1>1. ArtifactInv => AvailableHasBytes
  <2> SUFFICES ASSUME ArtifactInv PROVE AvailableHasBytes
    OBVIOUS
  <2>1. \A a \in DOMAIN artifacts : artifacts[a].state = "available" =>
           a \in DOMAIN blobs /\ blobs[a] = artifacts[a].content
    BY DEF ArtifactInv, RowInv
  <2>2. ASSUME NEW r \in Reads
        PROVE  /\ reads[r].pc = "missing" => artifacts[ReadOf[r].artifact].state # "available"
               /\ Len(reads[r].sent) <= Len(Bytes(ReadOf[r].offset, RangeEnd(r)))
               /\ reads[r].sent = SubSeq(Bytes(ReadOf[r].offset, RangeEnd(r)), 1, Len(reads[r].sent))
               /\ reads[r].pc = "complete" => reads[r].sent = Bytes(ReadOf[r].offset, RangeEnd(r))
    <3>1. PICK x : x = reads[r]  BY Zenon
    <3>2. ReadOk(r, x)  BY <3>1 DEF ArtifactInv, ReadInv
    <3>3. /\ x.pc = "missing" => artifacts[ReadOf[r].artifact].state # "available"
          /\ x.pc = "complete" => x.position = x.size
          /\ (x.pc = "complete" \/ x.position > 0) => Covers(r, x)
          /\ x.size \in Nat /\ x.position \in Nat
      BY <3>2 DEF ReadOk, Withdrawn
    <3>4. PICK off \in Nat, end \in Nat :
            /\ off = ReadOf[r].offset /\ end = EndOf(r, x)
            /\ Covers(r, x) => off <= end /\ end <= x.size
      BY <3>3, Ranges
    <3>5. RangeEnd(r) = end /\ x.sent = Bytes(off, Reach(r, x))
      BY <3>1, <3>2, <3>4 DEF RangeEnd, EndOf, ReadOk
    <3>6. CASE Covers(r, x)
      <4>1. PICK far \in Nat : /\ far = Reach(r, x) /\ off <= far /\ far <= end
                               /\ x.position = x.size => far = end
        BY <3>3, <3>4, <3>6 DEF Reach
      <4>2. /\ Len(Bytes(off, far)) <= Len(Bytes(off, end))
            /\ Bytes(off, far) = SubSeq(Bytes(off, end), 1, Len(Bytes(off, far)))
        BY <4>1, BytesPrefix, Zenon
      <4>3. QED  BY <3>1, <3>3, <3>4, <3>5, <4>1, <4>2
    <3>7. CASE ~Covers(r, x)
      <4>1. x.position = 0 /\ x.pc # "complete"  BY <3>3, <3>7
      <4>2. Reach(r, x) = off  BY <3>4, <4>1 DEF Reach
      <4>3. x.sent = <<>>  BY <3>5, <4>2, BytesEmpty
      <4>4. /\ Len(Bytes(off, end)) \in Nat /\ SubSeq(Bytes(off, end), 1, 0) = <<>>
            /\ Len(<<>>) = 0
        BY DEF Bytes
      <4>5. QED  BY <3>1, <3>3, <3>4, <3>5, <4>1, <4>3, <4>4
    <3>8. QED  BY <3>6, <3>7
  <2>3. QED  BY <2>1, <2>2, Zenon DEF AvailableHasBytes
<1>2. QED  BY <1>1, ArtifactsBegin, ArtifactsStay, PTL DEF ArtifactsSpec

-----------------------------------------------------------------------------
(* Subscriptions: streams, leases and reservation rows.                    *)

Attached == {"leased", "looping", "renewing", "paging"}

\* Times and epochs are numbers, and no session's observed time is ahead of the clock.
ClockInv ==
  /\ now \in Nat
  /\ owner \in [Sessions -> [daemon : Daemons \cup {None}, epoch : Nat, expires : Nat]]
  /\ floor \in [Sessions -> Nat]
  /\ \A s \in Sessions : floor[s] <= now

\* A stream belongs to a session and a daemon from its permit on, in an epoch
\* that the session has reached.
StreamInv ==
  /\ DOMAIN stream = Streams
  /\ \A t \in Streams :
       /\ DOMAIN stream[t] = DOMAIN Idle
       /\ stream[t].expires \in Nat /\ stream[t].held \in Nat /\ stream[t].epoch \in Nat
       /\ stream[t].pc = "idle" => stream[t].daemon = None
       /\ stream[t].pc # "idle" =>
            /\ stream[t].session \in Sessions /\ stream[t].daemon \in Daemons
            /\ stream[t].epoch <= owner[stream[t].session].epoch

\* Every lease has a reservation row, and a stream that is attached while its owner
\* holds the session finds the lease as it left it.
LeaseInv ==
  /\ DOMAIN ledger = {"rows", "pending", "session", "global"}
  /\ DOMAIN leases \subseteq DOMAIN ledger.rows
  /\ \A t \in DOMAIN leases : DOMAIN leases[t] = {"daemon", "epoch", "expires"}
  /\ \A t \in Streams :
       ( /\ stream[t].pc \in Attached
         /\ owner[stream[t].session].daemon = stream[t].daemon
         /\ owner[stream[t].session].epoch = stream[t].epoch
         /\ floor[stream[t].session] < stream[t].held )
       => /\ t \in DOMAIN leases
          /\ leases[t] = [daemon |-> stream[t].daemon, epoch |-> stream[t].epoch,
                          expires |-> stream[t].held]

SubscriptionInv == ClockInv /\ StreamInv /\ LeaseInv

LEMMA ReclaimedRows ==
  ASSUME NEW b, DOMAIN b = {"rows", "pending", "session", "global"}, NEW ids
  PROVE  /\ DOMAIN Reclaimed(b, ids) = DOMAIN b
         /\ DOMAIN Reclaimed(b, ids).rows = DOMAIN b.rows \ ids
  BY DEF Reclaimed, Restrict

LEMMA AddedRows ==
  ASSUME NEW b, DOMAIN b = {"rows", "pending", "session", "global"}, NEW id, NEW s, NEW r, NEW n
  PROVE  /\ DOMAIN Added(b, id, s, r, n) = DOMAIN b
         /\ DOMAIN Added(b, id, s, r, n).rows = DOMAIN b.rows \cup {id}
  BY DEF Added, Put

LEMMA ReleasedRows ==
  ASSUME NEW b, DOMAIN b = {"rows", "pending", "session", "global"}, NEW id
  PROVE  /\ DOMAIN Released(b, id) = DOMAIN b
         /\ DOMAIN b.rows \ {id} \subseteq DOMAIN Released(b, id).rows
<1>1. /\ DOMAIN Settled(b, id) = DOMAIN b
      /\ DOMAIN Settled(b, id).rows = DOMAIN b.rows
  BY DEF Settled
<1>2. QED  BY <1>1 DEF Released, Restrict

-----------------------------------------------------------------------------
(* The steps of the streams.                                               *)

\* Ownership and clock move on: the streams of an earlier owner are let go.
LEMMA OwnershipMoves ==
  ASSUME SubscriptionInv, ClockInv', UNCHANGED <<ledger, leases, stream>>,
         \A s \in Sessions :
           /\ floor[s] <= floor'[s]
           /\ \/ owner[s].epoch < owner'[s].epoch
              \/ /\ owner'[s].epoch = owner[s].epoch
                 /\ owner'[s].daemon \in {owner[s].daemon, None}
  PROVE  SubscriptionInv'
<1>1. StreamInv'
  <2> SUFFICES ASSUME NEW t \in Streams, stream[t].pc # "idle"
               PROVE  stream[t].epoch <= owner'[stream[t].session].epoch
    BY DEF SubscriptionInv, StreamInv
  <2>1. /\ stream[t].session \in Sessions /\ stream[t].epoch \in Nat
        /\ stream[t].epoch <= owner[stream[t].session].epoch
    BY DEF SubscriptionInv, StreamInv
  <2>2. /\ owner[stream[t].session].epoch \in Nat
        /\ owner'[stream[t].session].epoch \in Nat
    BY <2>1 DEF SubscriptionInv, ClockInv
  <2>3. QED  BY <2>1, <2>2
<1>2. LeaseInv'
  <2> SUFFICES ASSUME NEW t \in Streams, stream[t].pc \in Attached,
                      owner'[stream[t].session].daemon = stream[t].daemon,
                      owner'[stream[t].session].epoch = stream[t].epoch,
                      floor'[stream[t].session] < stream[t].held
               PROVE  /\ t \in DOMAIN leases
                      /\ leases[t] = [daemon |-> stream[t].daemon, epoch |-> stream[t].epoch,
                                      expires |-> stream[t].held]
    BY DEF SubscriptionInv, LeaseInv
  <2>1. /\ stream[t].session \in Sessions /\ stream[t].epoch \in Nat /\ stream[t].held \in Nat
        /\ stream[t].daemon \in Daemons
        /\ stream[t].epoch <= owner[stream[t].session].epoch
    BY DEF SubscriptionInv, StreamInv, Attached
  <2>2. /\ owner[stream[t].session].epoch \in Nat
        /\ owner'[stream[t].session].epoch \in Nat
        /\ floor[stream[t].session] \in Nat /\ floor'[stream[t].session] \in Nat
    BY <2>1 DEF SubscriptionInv, ClockInv
  <2>3. /\ owner[stream[t].session].epoch = stream[t].epoch
        /\ floor[stream[t].session] < stream[t].held
    BY <2>1, <2>2
  <2>4. owner[stream[t].session].daemon = stream[t].daemon
    BY <2>1, <2>2, <2>3, SubscriptionsAssumption
  <2>5. QED  BY <2>3, <2>4 DEF SubscriptionInv, LeaseInv
<1>3. QED  BY <1>1, <1>2 DEF SubscriptionInv

\* One stream moves without touching its lease.
LEMMA StreamMoves ==
  ASSUME SubscriptionInv, UNCHANGED <<ledger, leases, owner, floor, now>>,
         NEW t \in Streams,
         NEW c, stream' = [stream EXCEPT ![t] = c],
         DOMAIN c = DOMAIN Idle, c.expires \in Nat, c.held \in Nat, c.epoch \in Nat,
         c.session \in Sessions, c.daemon \in Daemons, c.epoch <= owner[c.session].epoch, c.pc # "idle",
         c.pc \in Attached => /\ stream[t].pc \in Attached /\ c.held = stream[t].held
                              /\ c.session = stream[t].session /\ c.daemon = stream[t].daemon
                              /\ c.epoch = stream[t].epoch
  PROVE  SubscriptionInv'
<1>0. /\ stream'[t] = c
      /\ \A u \in Streams : u # t => stream'[u] = stream[u]
      /\ DOMAIN stream' = Streams
  BY DEF SubscriptionInv, StreamInv
<1>1. ClockInv'  BY DEF SubscriptionInv, ClockInv
<1>2. StreamInv'
  BY <1>0 DEF SubscriptionInv, StreamInv
<1>3. LeaseInv'
  <2> SUFFICES ASSUME NEW u \in Streams, stream'[u].pc \in Attached,
                      owner[stream'[u].session].daemon = stream'[u].daemon,
                      owner[stream'[u].session].epoch = stream'[u].epoch,
                      floor[stream'[u].session] < stream'[u].held
               PROVE  /\ u \in DOMAIN leases
                      /\ leases[u] = [daemon |-> stream'[u].daemon, epoch |-> stream'[u].epoch,
                                      expires |-> stream'[u].held]
    BY DEF SubscriptionInv, LeaseInv
  <2>1. /\ stream[u].pc \in Attached /\ stream'[u].session = stream[u].session
        /\ stream'[u].daemon = stream[u].daemon /\ stream'[u].epoch = stream[u].epoch
        /\ stream'[u].held = stream[u].held
    BY <1>0
  <2>2. QED  BY <2>1 DEF SubscriptionInv, LeaseInv
<1>4. QED  BY <1>1, <1>2, <1>3 DEF SubscriptionInv

\* A daemon acquires a session, or renews its ownership.
LEMMA OwnerKeeps ==
  ASSUME SubscriptionInv, NEW d \in Daemons, NEW s \in Sessions, AcquireOwnership(d, s) \/ Renew(d, s)
  PROVE  SubscriptionInv'
<1> DEFINE moves == \A z \in Sessions :
      /\ floor[z] <= floor'[z]
      /\ \/ owner[z].epoch < owner'[z].epoch
         \/ owner'[z].epoch = owner[z].epoch /\ owner'[z].daemon = owner[z].daemon
<1>0. /\ now \in Nat /\ Term \in Nat
      /\ owner \in [Sessions -> [daemon : Daemons \cup {None}, epoch : Nat, expires : Nat]]
      /\ floor \in [Sessions -> Nat] /\ \A z \in Sessions : floor[z] <= now
  BY SubscriptionsAssumption DEF SubscriptionInv, ClockInv
<1>1. CASE AcquireOwnership(d, s)
  <2>1. /\ UNCHANGED <<ledger, leases, stream, now>>
        /\ floor' = [floor EXCEPT ![s] = now]
        /\ owner' = [owner EXCEPT ![s] = [daemon |-> d, epoch |-> owner[s].epoch + 1,
                                          expires |-> now + Term]]
    BY <1>1 DEF AcquireOwnership
  <2>2. ClockInv'  BY <1>0, <2>1 DEF ClockInv
  <2>3. moves  BY <1>0, <2>1
  <2>4. QED  BY <2>1, <2>2, <2>3, OwnershipMoves
<1>2. CASE Renew(d, s)
  <2>1. /\ UNCHANGED <<ledger, leases, stream, now>>
        /\ floor' = [floor EXCEPT ![s] = now]
        /\ owner' = [owner EXCEPT ![s].expires = now + Term]
    BY <1>2 DEF Renew
  <2>2. ClockInv'  BY <1>0, <2>1 DEF ClockInv
  <2>3. moves  BY <1>0, <2>1
  <2>4. QED  BY <2>1, <2>2, <2>3, OwnershipMoves
<1>3. QED  BY <1>1, <1>2

\* The steps of a call and its task that leave the lease alone.
LEMMA CallKeeps ==
  ASSUME SubscriptionInv, NEW d \in Daemons, NEW s \in Sessions, NEW t \in Streams,
         \/ Subscribe(d, s, t) \/ RefuseLease(t) \/ SpawnTask(t) \/ CloseStream(t)
         \/ LoopTick(t) \/ SendPage(t)
  PROVE  SubscriptionInv'
<1>0. /\ t \in DOMAIN stream /\ DOMAIN stream[t] = DOMAIN Idle
      /\ DOMAIN Idle = {"pc", "session", "daemon", "epoch", "expires", "held", "after", "open"}
      /\ stream[t].expires \in Nat /\ stream[t].held \in Nat /\ stream[t].epoch \in Nat
      /\ stream[t].pc # "idle" =>
           /\ stream[t].session \in Sessions /\ stream[t].daemon \in Daemons
           /\ stream[t].epoch <= owner[stream[t].session].epoch
  BY Zenon DEF SubscriptionInv, StreamInv, Idle
<1>1. \A z \in Sessions : owner[z].epoch \in Nat /\ owner[z].expires \in Nat
  BY DEF SubscriptionInv, ClockInv
<1>2. CASE Subscribe(d, s, t)
  <2>1. PICK c : c = [stream[t] EXCEPT !.pc = "permitted", !.session = s, !.daemon = d,
                        !.epoch = owner[s].epoch, !.expires = owner[s].expires]
    OBVIOUS
  <2>2. /\ DOMAIN c = DOMAIN Idle /\ c.pc = "permitted" /\ c.session = s /\ c.daemon = d
        /\ c.epoch = owner[s].epoch /\ c.expires = owner[s].expires /\ c.held = stream[t].held
    BY <2>1, <1>0
  <2>3. /\ stream' = [stream EXCEPT ![t] = c]
        /\ UNCHANGED <<ledger, leases, owner, floor, now>>
    BY <1>2, <2>1 DEF Subscribe
  <2>4. c.pc \notin Attached /\ c.epoch <= owner[c.session].epoch  BY <2>2, <1>1 DEF Attached
  <2>5. QED  BY <1>0, <1>1, <2>2, <2>3, <2>4, StreamMoves, Zenon
<1>3. CASE RefuseLease(t)
  <2>1. PICK c : c = [stream[t] EXCEPT !.pc = "refused"]  BY Zenon
  <2>2. /\ DOMAIN c = DOMAIN Idle /\ c.pc = "refused" /\ c.session = stream[t].session
        /\ c.daemon = stream[t].daemon /\ c.epoch = stream[t].epoch
        /\ c.expires = stream[t].expires /\ c.held = stream[t].held
    BY <2>1, <1>0
  <2>3. /\ stream' = [stream EXCEPT ![t] = c] /\ stream[t].pc = "permitted"
        /\ UNCHANGED <<ledger, leases, owner, floor, now>>
    BY <1>3, <2>1 DEF RefuseLease
  <2>4. c.pc \notin Attached  BY <2>2 DEF Attached
  <2>5. QED  BY <1>0, <2>2, <2>3, <2>4, StreamMoves, Zenon
<1>4. CASE SpawnTask(t)
  <2>0. PICK p \in {"unspawned", "looping"} :
          p = (IF daemon[stream[t].daemon] = "closed" THEN "unspawned" ELSE "looping")
    OBVIOUS
  <2>1. PICK c : c = [stream[t] EXCEPT !.pc = p]  BY Zenon
  <2>2. /\ DOMAIN c = DOMAIN Idle /\ c.pc = p /\ c.session = stream[t].session
        /\ c.daemon = stream[t].daemon /\ c.epoch = stream[t].epoch
        /\ c.expires = stream[t].expires /\ c.held = stream[t].held
    BY <2>1, <1>0
  <2>3. /\ stream' = [stream EXCEPT ![t] = c] /\ stream[t].pc = "leased"
        /\ UNCHANGED <<ledger, leases, owner, floor, now>>
    BY <1>4, <2>0, <2>1 DEF SpawnTask
  <2>4. stream[t].pc \in Attached  BY <2>3 DEF Attached
  <2>5. QED  BY <1>0, <2>2, <2>3, <2>4, StreamMoves, Zenon
<1>5. CASE CloseStream(t)
  <2>1. PICK c : c = [stream[t] EXCEPT !.open = FALSE]  BY Zenon
  <2>2. /\ DOMAIN c = DOMAIN Idle /\ c.pc = stream[t].pc /\ c.session = stream[t].session
        /\ c.daemon = stream[t].daemon /\ c.epoch = stream[t].epoch
        /\ c.expires = stream[t].expires /\ c.held = stream[t].held
    BY <2>1, <1>0
  <2>3. /\ stream' = [stream EXCEPT ![t] = c] /\ stream[t].pc \in Permitted
        /\ UNCHANGED <<ledger, leases, owner, floor, now>>
    BY <1>5, <2>1 DEF CloseStream
  <2>4. stream[t].pc # "idle"  BY <2>3 DEF Permitted
  <2>5. QED  BY <1>0, <2>2, <2>3, <2>4, StreamMoves, Zenon
<1>6. CASE LoopTick(t)
  <2>0. PICK p \in {"renewing", "ending"}, e \in Nat :
          stream' = [stream EXCEPT ![t].pc = p, ![t].expires = e]
    <3>1. CASE stream' = [stream EXCEPT ![t].pc = "renewing",
                                        ![t].expires = owner[stream[t].session].expires]
      BY <3>1, <1>0, <1>1, <1>6, Zenon DEF LoopTick
    <3>2. CASE stream' = [stream EXCEPT ![t].pc = "ending"]
      <4>1. stream' = [stream EXCEPT ![t].pc = "ending", ![t].expires = stream[t].expires]
        BY <3>2, <1>0, Zenon
      <4>2. QED  BY <4>1, <1>0, Zenon
    <3>3. QED  BY <3>1, <3>2, <1>6 DEF LoopTick
  <2>1. PICK c : c = [stream[t] EXCEPT !.pc = p, !.expires = e]  BY Zenon
  <2>2. /\ DOMAIN c = DOMAIN Idle /\ c.pc = p /\ c.session = stream[t].session
        /\ c.daemon = stream[t].daemon /\ c.epoch = stream[t].epoch
        /\ c.expires = e /\ c.held = stream[t].held
    BY <2>1, <1>0
  <2>3. /\ stream' = [stream EXCEPT ![t] = c] /\ stream[t].pc = "looping"
        /\ UNCHANGED <<ledger, leases, owner, floor, now>>
    BY <1>6, <2>0, <2>1, <1>0, Zenon DEF LoopTick
  <2>4. stream[t].pc \in Attached  BY <2>3 DEF Attached
  <2>5. QED  BY <1>0, <2>2, <2>3, <2>4, StreamMoves, Zenon
<1>7. CASE SendPage(t)
  <2> DEFINE last == Min({events[stream[t].session], stream[t].after + PageSize})
             next == stream[t].after + 1
  <2> HIDE DEF last, next
  <2>0. PICK p \in {"paging", "looping", "ending"}, a \in {last, next} :
          stream' = [stream EXCEPT ![t].after = a, ![t].pc = p]
    <3>1. CASE stream' = [stream EXCEPT ![t].after = last,
                  ![t].pc = IF last < events[stream[t].session] THEN "paging" ELSE "looping"]
      BY <3>1, Zenon
    <3>2. CASE stream' = [stream EXCEPT ![t].after = next, ![t].pc = "ending"]
      BY <3>2
    <3>3. QED  BY <3>1, <3>2, <1>7 DEF SendPage, last, next
  <2>1. PICK c : c = [stream[t] EXCEPT !.after = a, !.pc = p]  BY Zenon
  <2>2. /\ DOMAIN c = DOMAIN Idle /\ c.pc = p /\ c.session = stream[t].session
        /\ c.daemon = stream[t].daemon /\ c.epoch = stream[t].epoch
        /\ c.expires = stream[t].expires /\ c.held = stream[t].held
    BY <2>1, <1>0
  <2>3. /\ stream' = [stream EXCEPT ![t] = c] /\ stream[t].pc = "paging"
        /\ UNCHANGED <<ledger, leases, owner, floor, now>>
    BY <1>7, <2>0, <2>1, <1>0, Zenon DEF SendPage
  <2>4. stream[t].pc \in Attached  BY <2>3 DEF Attached
  <2>5. QED  BY <1>0, <2>2, <2>3, <2>4, StreamMoves, Zenon
<1>8. QED  BY <1>2, <1>3, <1>4, <1>5, <1>6, <1>7

\* The lease of an attached stream whose owner holds the session is not stale.
LEMMA LiveIsNotStale ==
  ASSUME SubscriptionInv, NEW u \in Streams, stream[u].pc \in Attached,
         owner[stream[u].session].daemon = stream[u].daemon,
         owner[stream[u].session].epoch = stream[u].epoch,
         floor[stream[u].session] < stream[u].held,
         NEW sessions
  PROVE  /\ u \in DOMAIN leases \ Stale(sessions)
         /\ leases[u] = [daemon |-> stream[u].daemon, epoch |-> stream[u].epoch,
                         expires |-> stream[u].held]
<1>1. /\ u \in DOMAIN leases
      /\ leases[u] = [daemon |-> stream[u].daemon, epoch |-> stream[u].epoch,
                      expires |-> stream[u].held]
  BY DEF SubscriptionInv, LeaseInv
<1>2. /\ leases[u].daemon = stream[u].daemon /\ leases[u].epoch = stream[u].epoch
      /\ leases[u].expires = stream[u].held
  BY <1>1
<1>3. stream[u].session \in Sessions /\ stream[u].held \in Nat
  BY DEF SubscriptionInv, StreamInv, Attached
<1>4. floor[stream[u].session] \in Nat  BY <1>3 DEF SubscriptionInv, ClockInv
<1>5. ~(leases[u].expires <= floor[stream[u].session])  BY <1>2, <1>3, <1>4
<1>6. u \notin Stale(sessions)  BY <1>2, <1>5 DEF Stale
<1>7. QED  BY <1>1, <1>6

LEMMA ReserveKeeps ==
  ASSUME SubscriptionInv, NEW t \in Streams, ReserveLease(t)
  PROVE  SubscriptionInv'
<1> DEFINE stale == Stale({stream[t].session})
<1> HIDE DEF stale
<1>0. /\ t \in DOMAIN stream /\ DOMAIN stream[t] = DOMAIN Idle /\ DOMAIN stream = Streams
      /\ DOMAIN Idle = {"pc", "session", "daemon", "epoch", "expires", "held", "after", "open"}
      /\ stream[t].expires \in Nat /\ stream[t].held \in Nat /\ stream[t].epoch \in Nat
      /\ stream[t].pc = "permitted"
      /\ stream[t].session \in Sessions /\ stream[t].daemon \in Daemons
      /\ stream[t].epoch <= owner[stream[t].session].epoch
  BY DEF SubscriptionInv, StreamInv, Idle, ReserveLease
<1>1. PICK c : c = [stream[t] EXCEPT !.pc = "leased", !.held = stream[t].expires]  BY Zenon
<1>2. /\ DOMAIN c = DOMAIN Idle /\ c.pc = "leased" /\ c.session = stream[t].session
      /\ c.daemon = stream[t].daemon /\ c.epoch = stream[t].epoch
      /\ c.expires = stream[t].expires /\ c.held = stream[t].expires
  BY <1>1, <1>0
<1>3. PICK l : l = [daemon |-> stream[t].daemon, epoch |-> stream[t].epoch,
                    expires |-> stream[t].expires]
  BY Zenon
<1>4. /\ stream' = [stream EXCEPT ![t] = c]
      /\ leases' = Put(Restrict(leases, DOMAIN leases \ stale), t, l)
      /\ ledger' = Added(Reclaimed(ledger, stale), t, stream[t].session, "subscriptions", 1)
      /\ UNCHANGED <<owner, floor, now>>
  BY <1>0, <1>1, <1>3, Zenon DEF ReserveLease, stale
<1>5. /\ DOMAIN ledger' = {"rows", "pending", "session", "global"}
      /\ DOMAIN ledger'.rows = (DOMAIN ledger.rows \ stale) \cup {t}
  <2>1. DOMAIN ledger = {"rows", "pending", "session", "global"}  BY DEF SubscriptionInv, LeaseInv
  <2>2. PICK b : b = Reclaimed(ledger, stale)  BY Zenon
  <2>3. /\ DOMAIN b = {"rows", "pending", "session", "global"}
        /\ DOMAIN b.rows = DOMAIN ledger.rows \ stale
    BY <2>1, <2>2, ReclaimedRows
  <2>4. QED  BY <1>4, <2>2, <2>3, AddedRows
<1>6. /\ DOMAIN leases' = (DOMAIN leases \ stale) \cup {t}
      /\ leases'[t] = l
      /\ \A u \in DOMAIN leases \ stale : u # t => leases'[u] = leases[u]
  BY <1>4 DEF Put, Restrict
<1>7. /\ stream'[t] = c
      /\ \A u \in Streams : u # t => stream'[u] = stream[u]
      /\ DOMAIN stream' = Streams
  BY <1>0, <1>4
<1>8. ClockInv'  BY <1>4 DEF SubscriptionInv, ClockInv
<1>9. StreamInv'  BY <1>0, <1>2, <1>4, <1>7 DEF SubscriptionInv, StreamInv
<1>10. LeaseInv'
  <2>1. DOMAIN leases' \subseteq DOMAIN ledger'.rows
    BY <1>5, <1>6, Zenon DEF SubscriptionInv, LeaseInv
  <2>2. ASSUME NEW u \in DOMAIN leases' PROVE DOMAIN leases'[u] = {"daemon", "epoch", "expires"}
    <3>1. DOMAIN l = {"daemon", "epoch", "expires"}  BY <1>3
    <3>2. u = t \/ (u # t /\ u \in DOMAIN leases \ stale)  BY <1>6, Zenon
    <3>3. \A v \in DOMAIN leases : DOMAIN leases[v] = {"daemon", "epoch", "expires"}
      BY Zenon DEF SubscriptionInv, LeaseInv
    <3>4. QED  BY <1>6, <3>1, <3>2, <3>3, Zenon
  <2>3. ASSUME NEW u \in Streams, stream'[u].pc \in Attached,
               owner[stream'[u].session].daemon = stream'[u].daemon,
               owner[stream'[u].session].epoch = stream'[u].epoch,
               floor[stream'[u].session] < stream'[u].held
        PROVE  /\ u \in DOMAIN leases'
               /\ leases'[u] = [daemon |-> stream'[u].daemon, epoch |-> stream'[u].epoch,
                                expires |-> stream'[u].held]
    <3>1. CASE u = t  BY <3>1, <1>2, <1>3, <1>6, <1>7, Zenon
    <3>2. CASE u # t
      <4>1. stream'[u] = stream[u]  BY <3>2, <1>7
      <4>2. /\ u \in DOMAIN leases \ stale
            /\ leases[u] = [daemon |-> stream[u].daemon, epoch |-> stream[u].epoch,
                            expires |-> stream[u].held]
        BY <4>1, <2>3, LiveIsNotStale, Zenon DEF stale
      <4>3. QED  BY <4>1, <4>2, <3>2, <1>6, Zenon
    <3>3. QED  BY <3>1, <3>2
  <2>4. QED  BY <1>4, <1>5, <2>1, <2>2, <2>3, Zenon DEF LeaseInv
<1>11. QED  BY <1>8, <1>9, <1>10 DEF SubscriptionInv

LEMMA RenewKeeps ==
  ASSUME SubscriptionInv, NEW t \in Streams, RenewLease(t)
  PROVE  SubscriptionInv'
<1>0. /\ t \in DOMAIN stream /\ DOMAIN stream[t] = DOMAIN Idle /\ DOMAIN stream = Streams
      /\ DOMAIN Idle = {"pc", "session", "daemon", "epoch", "expires", "held", "after", "open"}
      /\ stream[t].expires \in Nat /\ stream[t].held \in Nat /\ stream[t].epoch \in Nat
      /\ stream[t].pc = "renewing"
      /\ stream[t].session \in Sessions /\ stream[t].daemon \in Daemons
      /\ stream[t].epoch <= owner[stream[t].session].epoch
      /\ UNCHANGED <<ledger, owner, floor, now>>
  BY DEF SubscriptionInv, StreamInv, Idle, RenewLease
<1>1. CASE stream' = [stream EXCEPT ![t].pc = "ending"] /\ UNCHANGED leases
  <2>1. PICK c : c = [stream[t] EXCEPT !.pc = "ending"]  BY Zenon
  <2>2. /\ DOMAIN c = DOMAIN Idle /\ c.pc = "ending" /\ c.session = stream[t].session
        /\ c.daemon = stream[t].daemon /\ c.epoch = stream[t].epoch
        /\ c.expires = stream[t].expires /\ c.held = stream[t].held
    BY <2>1, <1>0
  <2>3. stream' = [stream EXCEPT ![t] = c]  BY <1>1, <2>1, <1>0
  <2>4. c.pc \notin Attached  BY <2>2 DEF Attached
  <2>5. QED  BY <1>0, <1>1, <2>2, <2>3, <2>4, StreamMoves, Zenon
<1>2. CASE /\ t \in DOMAIN leases /\ leases[t].daemon = stream[t].daemon
           /\ leases[t].epoch = stream[t].epoch
           /\ leases' = [leases EXCEPT ![t].expires = stream[t].expires]
           /\ stream' = [stream EXCEPT ![t].pc = "paging", ![t].held = stream[t].expires]
  <2>1. PICK c : c = [stream[t] EXCEPT !.pc = "paging", !.held = stream[t].expires]  BY Zenon
  <2>2. /\ DOMAIN c = DOMAIN Idle /\ c.pc = "paging" /\ c.session = stream[t].session
        /\ c.daemon = stream[t].daemon /\ c.epoch = stream[t].epoch
        /\ c.expires = stream[t].expires /\ c.held = stream[t].expires
    BY <2>1, <1>0
  <2>3. stream' = [stream EXCEPT ![t] = c]  BY <1>2, <2>1, <1>0, Zenon
  <2>4. /\ stream'[t] = c
        /\ \A u \in Streams : u # t => stream'[u] = stream[u]
        /\ DOMAIN stream' = Streams
    BY <1>0, <2>3
  <2>5. /\ DOMAIN leases' = DOMAIN leases
        /\ leases'[t] = [leases[t] EXCEPT !.expires = stream[t].expires]
        /\ \A u \in DOMAIN leases : u # t => leases'[u] = leases[u]
    BY <1>2
  <2>6. DOMAIN leases[t] = {"daemon", "epoch", "expires"}
    BY <1>2 DEF SubscriptionInv, LeaseInv
  <2>7. leases'[t] = [daemon |-> stream[t].daemon, epoch |-> stream[t].epoch,
                      expires |-> stream[t].expires]
    BY <1>2, <2>5, <2>6
  <2>8. ClockInv'  BY <1>0, Zenon DEF SubscriptionInv, ClockInv
  <2>9. StreamInv'  BY <1>0, <2>2, <2>4, Zenon DEF SubscriptionInv, StreamInv
  <2>10. LeaseInv'
    <3>1. ASSUME NEW u \in Streams, stream'[u].pc \in Attached,
                 owner[stream'[u].session].daemon = stream'[u].daemon,
                 owner[stream'[u].session].epoch = stream'[u].epoch,
                 floor[stream'[u].session] < stream'[u].held
          PROVE  /\ u \in DOMAIN leases'
                 /\ leases'[u] = [daemon |-> stream'[u].daemon, epoch |-> stream'[u].epoch,
                                  expires |-> stream'[u].held]
      <4>1. CASE u = t  BY <4>1, <1>2, <2>2, <2>4, <2>5, <2>7
      <4>2. CASE u # t
        BY <4>2, <3>1, <2>4, <2>5 DEF SubscriptionInv, LeaseInv
      <4>3. QED  BY <4>1, <4>2
    <3>2. /\ DOMAIN ledger' = {"rows", "pending", "session", "global"}
          /\ DOMAIN leases' \subseteq DOMAIN ledger'.rows
      BY <1>0, <2>5 DEF SubscriptionInv, LeaseInv
    <3>3. \A u \in DOMAIN leases' : DOMAIN leases'[u] = {"daemon", "epoch", "expires"}
      BY <2>5, <2>7 DEF SubscriptionInv, LeaseInv
    <3>4. QED  BY <1>0, <3>1, <3>2, <3>3, Zenon DEF LeaseInv
  <2>11. QED  BY <2>8, <2>9, <2>10 DEF SubscriptionInv
<1>3. QED  BY <1>1, <1>2 DEF RenewLease

LEMMA ReleaseKeeps ==
  ASSUME SubscriptionInv, NEW t \in Streams, ReleaseLease(t)
  PROVE  SubscriptionInv'
<1>0. /\ t \in DOMAIN stream /\ DOMAIN stream[t] = DOMAIN Idle /\ DOMAIN stream = Streams
      /\ DOMAIN Idle = {"pc", "session", "daemon", "epoch", "expires", "held", "after", "open"}
      /\ stream[t].expires \in Nat /\ stream[t].held \in Nat /\ stream[t].epoch \in Nat
      /\ stream[t].pc = "ending"
      /\ stream[t].session \in Sessions /\ stream[t].daemon \in Daemons
      /\ stream[t].epoch <= owner[stream[t].session].epoch
      /\ UNCHANGED <<owner, floor, now>>
  BY DEF SubscriptionInv, StreamInv, Idle, ReleaseLease
<1>1. PICK c : c = [stream[t] EXCEPT !.pc = "released"]  BY Zenon
<1>2. /\ DOMAIN c = DOMAIN Idle /\ c.pc = "released" /\ c.session = stream[t].session
      /\ c.daemon = stream[t].daemon /\ c.epoch = stream[t].epoch
      /\ c.expires = stream[t].expires /\ c.held = stream[t].held
  BY <1>1, <1>0
<1>3. /\ stream' = [stream EXCEPT ![t] = c]
      /\ ledger' = Released(ledger, t)
      /\ leases' = Restrict(leases, DOMAIN leases \ {t})
  BY <1>0, <1>1 DEF ReleaseLease, Forget
<1>4. /\ stream'[t] = c
      /\ \A u \in Streams : u # t => stream'[u] = stream[u]
      /\ DOMAIN stream' = Streams
  BY <1>0, <1>3
<1>5. /\ DOMAIN ledger' = {"rows", "pending", "session", "global"}
      /\ DOMAIN ledger.rows \ {t} \subseteq DOMAIN ledger'.rows
  BY <1>3, ReleasedRows, Zenon DEF SubscriptionInv, LeaseInv
<1>6. /\ DOMAIN leases' = DOMAIN leases \ {t}
      /\ \A u \in DOMAIN leases' : leases'[u] = leases[u]
  BY <1>3 DEF Restrict
<1>7. ClockInv'  BY <1>0 DEF SubscriptionInv, ClockInv
<1>8. StreamInv'  BY <1>0, <1>2, <1>4, Zenon DEF SubscriptionInv, StreamInv
<1>9. LeaseInv'
  <2>1. ASSUME NEW u \in Streams, stream'[u].pc \in Attached,
               owner[stream'[u].session].daemon = stream'[u].daemon,
               owner[stream'[u].session].epoch = stream'[u].epoch,
               floor[stream'[u].session] < stream'[u].held
        PROVE  /\ u \in DOMAIN leases'
               /\ leases'[u] = [daemon |-> stream'[u].daemon, epoch |-> stream'[u].epoch,
                                expires |-> stream'[u].held]
    <3>1. u # t  BY <2>1, <1>2, <1>4 DEF Attached
    <3>2. stream'[u] = stream[u]  BY <3>1, <1>4
    <3>3. QED  BY <2>1, <3>1, <3>2, <1>6, Zenon DEF SubscriptionInv, LeaseInv
  <2>2. DOMAIN leases' \subseteq DOMAIN ledger'.rows
    BY <1>5, <1>6 DEF SubscriptionInv, LeaseInv
  <2>3. \A u \in DOMAIN leases' : DOMAIN leases'[u] = {"daemon", "epoch", "expires"}
    BY <1>6 DEF SubscriptionInv, LeaseInv
  <2>4. QED  BY <1>0, <1>5, <2>1, <2>2, <2>3 DEF LeaseInv
<1>10. QED  BY <1>7, <1>8, <1>9 DEF SubscriptionInv

\* A daemon ends or starts again: its streams go, and stale leases with their rows.
LEMMA DaemonKeeps ==
  ASSUME SubscriptionInv, NEW d \in Daemons,
         StopDaemon(d) \/ FinishShutdown(d) \/ CrashDaemon(d) \/ OpenStore(d)
  PROVE  SubscriptionInv'
<1>1. CASE StopDaemon(d)
  <2>1. UNCHANGED <<ledger, leases, owner, floor, stream, now>>  BY <1>1 DEF StopDaemon
  <2>2. QED  BY <2>1, Zenon DEF SubscriptionInv, ClockInv, StreamInv, LeaseInv
<1>2. CASE FinishShutdown(d) \/ CrashDaemon(d)
  <2>1. UNCHANGED <<ledger, leases, owner, floor, now>> /\ Gone(d)
    BY <1>2 DEF FinishShutdown, CrashDaemon
  <2>2. DOMAIN stream' = Streams  BY <2>1 DEF Gone
  <2>3. ASSUME NEW u \in Streams
        PROVE  \/ stream'[u] = stream[u]
               \/ /\ DOMAIN stream'[u] = DOMAIN stream[u]
                  /\ stream[u].daemon = d
                  /\ stream'[u].pc \in {"unspawned", "released", "refused", "lost"}
                  /\ stream'[u].session = stream[u].session
                  /\ stream'[u].daemon = stream[u].daemon
                  /\ stream'[u].epoch = stream[u].epoch
                  /\ stream'[u].expires = stream[u].expires /\ stream'[u].held = stream[u].held
    <3>0. DOMAIN stream[u] = {"pc", "session", "daemon", "epoch", "expires", "held", "after", "open"}
      BY Zenon DEF SubscriptionInv, StreamInv, Idle
    <3>1. CASE stream[u].daemon # d  BY <3>1, <2>1 DEF Gone
    <3>2. CASE stream[u].daemon = d
      <4>1. PICK p : p = CASE stream[u].pc = "leased" -> "unspawned"
                           [] stream[u].pc \in {"released", "refused", "unspawned"} -> stream[u].pc
                           [] OTHER -> "lost"
        OBVIOUS
      <4>2. p \in {"unspawned", "released", "refused", "lost"}  BY <4>1
      <4>3. stream'[u] = [stream[u] EXCEPT !.pc = p]  BY <3>2, <4>1, <2>1 DEF Gone
      <4>4. QED  BY <3>0, <3>2, <4>2, <4>3
    <3>3. QED  BY <3>1, <3>2, Zenon
  <2>4. ClockInv'  BY <2>1 DEF SubscriptionInv, ClockInv
  <2>5. StreamInv'
    <3>1. ASSUME NEW u \in Streams, stream[u].daemon = d
          PROVE  stream[u].pc # "idle"
      BY <3>1, SubscriptionsAssumption, Zenon DEF SubscriptionInv, StreamInv
    <3>2. QED  BY <2>1, <2>2, <2>3, <3>1, Zenon DEF SubscriptionInv, StreamInv
  <2>6. LeaseInv'
    <3>1. ASSUME NEW u \in Streams, stream'[u].pc \in Attached
          PROVE  stream'[u] = stream[u]
      BY <2>3, <3>1 DEF Attached
    <3>2. QED  BY <2>1, <3>1, Zenon DEF SubscriptionInv, LeaseInv
  <2>7. QED  BY <2>4, <2>5, <2>6 DEF SubscriptionInv
<1>3. CASE OpenStore(d)
  <2> DEFINE stale == Stale(Sessions)
  <2> HIDE DEF stale
  <2>1. /\ UNCHANGED <<owner, floor, stream, now>>
        /\ ledger' = Reclaimed(ledger, stale)
        /\ leases' = Restrict(leases, DOMAIN leases \ stale)
    BY <1>3, Zenon DEF OpenStore, Forget, stale
  <2>2. /\ DOMAIN ledger' = {"rows", "pending", "session", "global"}
        /\ DOMAIN ledger'.rows = DOMAIN ledger.rows \ stale
    BY <2>1, ReclaimedRows, Zenon DEF SubscriptionInv, LeaseInv
  <2>3. /\ DOMAIN leases' = DOMAIN leases \ stale
        /\ \A u \in DOMAIN leases' : leases'[u] = leases[u]
    BY <2>1 DEF Restrict
  <2>4. ClockInv' /\ StreamInv'
    BY <2>1, Zenon DEF SubscriptionInv, ClockInv, StreamInv
  <2>5. LeaseInv'
    <3>1. ASSUME NEW u \in Streams, stream[u].pc \in Attached,
                 owner[stream[u].session].daemon = stream[u].daemon,
                 owner[stream[u].session].epoch = stream[u].epoch,
                 floor[stream[u].session] < stream[u].held
          PROVE  /\ u \in DOMAIN leases'
                 /\ leases'[u] = [daemon |-> stream[u].daemon, epoch |-> stream[u].epoch,
                                  expires |-> stream[u].held]
      BY <3>1, <2>3, LiveIsNotStale, Zenon DEF stale
    <3>2. DOMAIN leases' \subseteq DOMAIN ledger'.rows
      BY <2>2, <2>3, Zenon DEF SubscriptionInv, LeaseInv
    <3>3. \A u \in DOMAIN leases' : DOMAIN leases'[u] = {"daemon", "epoch", "expires"}
      BY <2>3, Zenon DEF SubscriptionInv, LeaseInv
    <3>4. QED  BY <2>1, <2>2, <3>1, <3>2, <3>3, Zenon DEF LeaseInv
  <2>6. QED  BY <2>4, <2>5 DEF SubscriptionInv
<1>4. QED  BY <1>1, <1>2, <1>3

LEMMA SubscriptionsBegin == ledger = EmptyLedger /\ SubscriptionsInit => SubscriptionInv
<1> SUFFICES ASSUME ledger = EmptyLedger, SubscriptionsInit PROVE SubscriptionInv
  OBVIOUS
<1>1. \A t \in Streams : stream[t] = Idle  BY DEF SubscriptionsInit
<1>2. /\ DOMAIN leases = {} /\ DOMAIN stream = Streams
      /\ DOMAIN ledger = {"rows", "pending", "session", "global"}
  BY DEF SubscriptionsInit, EmptyLedger
<1>3. ClockInv  BY DEF SubscriptionsInit, ClockInv
<1>4. StreamInv  BY <1>1, <1>2 DEF StreamInv, Idle
<1>5. LeaseInv  BY <1>1, <1>2 DEF LeaseInv, Idle, Attached
<1>6. QED  BY <1>3, <1>4, <1>5 DEF SubscriptionInv

LEMMA SubscriptionsStay ==
  SubscriptionInv /\ [SubscriptionsNext]_<<ledger, subscriptionVars>> => SubscriptionInv'
<1> SUFFICES ASSUME SubscriptionInv, [SubscriptionsNext]_<<ledger, subscriptionVars>> PROVE SubscriptionInv'
  OBVIOUS
<1>1. CASE SubscriptionsNext
  <2>1. CASE Tick \/ (\E s \in Sessions : AppendEvent(s))
    <3>1. CASE Tick
      <4>1. UNCHANGED <<ledger, leases, stream, owner, floor>> /\ now' = now + 1
        BY <3>1 DEF Tick
      <4>2. ClockInv'  BY <4>1 DEF SubscriptionInv, ClockInv
      <4>3. \A s \in Sessions : floor[s] \in Nat  BY DEF SubscriptionInv, ClockInv
      <4>4. QED  BY <4>1, <4>2, <4>3, OwnershipMoves
    <3>2. CASE \E s \in Sessions : AppendEvent(s)
      <4>1. PICK s \in Sessions : AppendEvent(s)  BY <3>2
      <4>2. /\ UNCHANGED <<ledger, leases, stream, now, owner>>
            /\ floor' = [floor EXCEPT ![s] = now]
        BY <4>1 DEF AppendEvent
      <4>3. ClockInv'  BY <4>2 DEF SubscriptionInv, ClockInv
      <4>4. \A z \in Sessions : floor[z] <= floor'[z]
        BY <4>2 DEF SubscriptionInv, ClockInv
      <4>5. QED  BY <4>2, <4>3, <4>4, OwnershipMoves
    <3>3. QED  BY <2>1, <3>1, <3>2
  <2>2. CASE \E d \in Daemons, s \in Sessions :
               \/ AcquireOwnership(d, s) \/ Renew(d, s)
               \/ \E t \in Streams : Subscribe(d, s, t)
    <3>1. PICK d \in Daemons, s \in Sessions :
               \/ AcquireOwnership(d, s) \/ Renew(d, s)
               \/ \E t \in Streams : Subscribe(d, s, t)
      BY <2>2
    <3>2. CASE AcquireOwnership(d, s) \/ Renew(d, s)  BY <3>2, OwnerKeeps
    <3>3. CASE \E t \in Streams : Subscribe(d, s, t)  BY <3>3, CallKeeps
    <3>4. QED  BY <3>1, <3>2, <3>3
  <2>3. CASE \E t \in Streams : StreamStep(t) \/ CloseStream(t)
    <3>1. PICK t \in Streams : StreamStep(t) \/ CloseStream(t)  BY <2>3
    <3>2. CASE ReserveLease(t)  BY <3>2, ReserveKeeps
    <3>3. CASE RenewLease(t)  BY <3>3, RenewKeeps
    <3>4. CASE ReleaseLease(t)  BY <3>4, ReleaseKeeps
    <3>5. CASE \/ RefuseLease(t) \/ SpawnTask(t) \/ CloseStream(t)
               \/ LoopTick(t) \/ SendPage(t)
      <4>1. stream[t].pc # "idle"
        BY <3>5 DEF RefuseLease, SpawnTask, CloseStream, LoopTick, SendPage, Permitted
      <4>2. stream[t].daemon \in Daemons /\ stream[t].session \in Sessions
        BY <4>1 DEF SubscriptionInv, StreamInv
      <4>3. QED  BY <3>5, <4>2, CallKeeps
    <3>6. QED  BY <3>1, <3>2, <3>3, <3>4, <3>5 DEF StreamStep
  <2>4. CASE \E d \in Daemons :
               \/ StopDaemon(d) \/ CrashDaemon(d) \/ FinishShutdown(d) \/ OpenStore(d)
    BY <2>4, DaemonKeeps
  <2>5. CASE \E d \in Daemons : CloseRegistry(d)
    <3>1. PICK d \in Daemons : CloseRegistry(d)  BY <2>5
    <3>2. /\ UNCHANGED <<ledger, leases, stream, now>>
          /\ floor' = [z \in Sessions |-> IF owner[z].daemon = d THEN now ELSE floor[z]]
          /\ owner' = [z \in Sessions |-> IF owner[z].daemon = d
                                          THEN [owner[z] EXCEPT !.daemon = None] ELSE owner[z]]
      BY <3>1 DEF CloseRegistry
    <3>3. ClockInv'  BY <3>2 DEF SubscriptionInv, ClockInv
    <3>4. \A z \in Sessions : /\ floor[z] <= floor'[z]
                              /\ owner'[z].epoch = owner[z].epoch
                              /\ owner'[z].daemon \in {owner[z].daemon, None}
      BY <3>2 DEF SubscriptionInv, ClockInv
    <3>5. QED  BY <3>2, <3>3, <3>4, OwnershipMoves
  <2>6. QED  BY <1>1, <2>1, <2>2, <2>3, <2>4, <2>5 DEF SubscriptionsNext
<1>2. CASE UNCHANGED <<ledger, subscriptionVars>>
  <2>1. UNCHANGED <<ledger, leases, owner, floor, stream, now>>
    BY <1>2 DEF subscriptionVars
  <2>2. ClockInv' /\ StreamInv'  BY <2>1 DEF SubscriptionInv, ClockInv, StreamInv
  <2>3. LeaseInv'  BY <2>1, Zenon DEF SubscriptionInv, LeaseInv
  <2>4. QED  BY <2>2, <2>3 DEF SubscriptionInv
<1>3. QED  BY <1>1, <1>2

\* A live lease is never reclaimed: for any sessions, daemons and calls, while its owner
\* holds the session and its time is not past, an attached stream has its lease and its
\* reservation row, whoever subscribes, renews, shuts down, crashes or opens the store
\* (reserve_subscription_lease, renew_subscription_lease, reclaim_stale_subscription_leases,
\* reconcile_abandoned_subscriptions).
THEOREM LiveLeasesStay == SubscriptionsSpec => []LiveLeaseKept
<1>1. SubscriptionInv => LiveLeaseKept
  <2> SUFFICES ASSUME SubscriptionInv PROVE LiveLeaseKept
    OBVIOUS
  <2> SUFFICES ASSUME NEW t \in Streams, stream[t].pc \in Attached,
                      owner[stream[t].session].daemon = stream[t].daemon,
                      owner[stream[t].session].epoch = stream[t].epoch,
                      floor[stream[t].session] < stream[t].held
               PROVE  t \in DOMAIN leases /\ t \in DOMAIN ledger.rows
    BY DEF LiveLeaseKept, Attached
  <2>1. t \in DOMAIN leases  BY Zenon DEF SubscriptionInv, LeaseInv
  <2>2. QED  BY <2>1, Zenon DEF SubscriptionInv, LeaseInv
<1>2. QED  BY <1>1, SubscriptionsBegin, SubscriptionsStay, PTL DEF SubscriptionsSpec

-----------------------------------------------------------------------------
(* The directory of sessions: which step of a call opens a session.        *)

\* The calls are records of their three fields.
CallInv ==
  opening = [c \in Calls |-> [pc |-> opening[c].pc, s |-> opening[c].s, epoch |-> opening[c].epoch]]

\* The call c takes a step of its own and leaves the other calls alone.
CallMoves(c) == \E pc, s, e : GoesAt(c, pc, s, e)

LEMMA GoesOn ==
  ASSUME CallInv, NEW c \in Calls, NEW pc, Goes(c, pc)
  PROVE  CallMoves(c)
<1>1. opening' = [opening EXCEPT ![c] = [pc |-> pc, s |-> opening[c].s, epoch |-> opening[c].epoch]]
  <2>1. opening[c] = [pc |-> opening[c].pc, s |-> opening[c].s, epoch |-> opening[c].epoch]
    BY DEF CallInv
  <2>2. [opening[c] EXCEPT !.pc = pc] = [pc |-> pc, s |-> opening[c].s, epoch |-> opening[c].epoch]
    BY <2>1
  <2>3. opening' = [opening EXCEPT ![c] = [opening[c] EXCEPT !.pc = pc]]  BY DEF Goes
  <2>4. QED  BY <2>2, <2>3, Zenon
<1>2. QED  BY <1>1, Zenon DEF CallMoves, GoesAt

\* Whatever a call does, it goes on to one place.
LEMMA StepMoves ==
  ASSUME CallInv, NEW c \in Calls, OpenStep(c)
  PROVE  CallMoves(c)
<1>1. ASSUME NEW pc, Goes(c, pc) PROVE CallMoves(c)  BY <1>1, GoesOn
<1>2. ASSUME Fails(c) PROVE CallMoves(c)  BY <1>1, <1>2 DEF Fails
<1>3. ASSUME NEW pc, NEW s, NEW e, GoesAt(c, pc, s, e) PROVE CallMoves(c)  BY <1>3 DEF CallMoves
<1>4. ASSUME NEW name, NEW allowed, NEW row, NEW pc, Commits(c, name, allowed, row, pc)
      PROVE  CallMoves(c)
  BY <1>1, <1>2, <1>4, Zenon DEF Commits
<1>5. ASSUME NEW pc, AcquireAndInstall(c, pc) PROVE CallMoves(c)
  BY <1>1, <1>2, <1>5, Zenon DEF AcquireAndInstall
<1>6. ASSUME NEW pc, CloseReplayed(c, pc) PROVE CallMoves(c)
  BY <1>1, <1>6, Zenon DEF CloseReplayed
<1>7. CASE ReadLedger(c)  BY <1>1, <1>2, <1>7, Zenon DEF ReadLedger
<1>8. CASE FindOpen(c)  BY <1>1, <1>3, <1>8, Zenon DEF FindOpen
<1>9. CASE Recover(c) \/ ResumeOpened(c)  BY <1>5, <1>9, Zenon DEF Recover, ResumeOpened
<1>10. CASE Reconcile(c)  BY <1>1, <1>10, Zenon DEF Reconcile
<1>11. CASE InstallSupervisor(c)  BY <1>1, <1>2, <1>11, Zenon DEF InstallSupervisor
<1>12. CASE AskClose(c)  BY <1>2, <1>3, <1>12, Zenon DEF AskClose
<1>13. CASE CloseContext(c)  BY <1>2, <1>6, <1>13, Zenon DEF CloseContext
<1>14. CASE BeginClose(c)  BY <1>2, <1>3, <1>6, <1>14, Zenon DEF BeginClose
<1>15. CASE CancelBeforeClose(c)  BY <1>1, <1>2, <1>15, Zenon DEF CancelBeforeClose
<1>16. CASE InspectLaunches(c)  BY <1>1, <1>16, Zenon DEF InspectLaunches
<1>17. CASE CommitClose(c)  BY <1>4, <1>17, Zenon DEF CommitClose
<1>18. CASE RegisterAndOpen(c)
  BY <1>2, <1>3, <1>18, Zenon DEF RegisterAndOpen, OpensRow, OpenRecorded
<1>19. CASE UseSupervised(c)  BY <1>3, <1>19, Zenon DEF UseSupervised
<1>20. CASE TakeSession(c)  BY <1>2, <1>3, <1>20, Zenon DEF TakeSession
<1>21. CASE Supervise(c)  BY <1>1, <1>2, <1>21, Zenon DEF Supervise
<1>22. CASE EnsureRoot(c)  BY <1>1, <1>4, <1>22, Zenon DEF EnsureRoot
<1>23. CASE RegisterPolicy(c) \/ PutPolicy(c)  BY <1>4, <1>23, Zenon DEF RegisterPolicy, PutPolicy
<1>24. QED
  BY <1>7, <1>8, <1>9, <1>10, <1>11, <1>12, <1>13, <1>14, <1>15, <1>16, <1>17, <1>18, <1>19,
     <1>20, <1>21, <1>22, <1>23 DEF OpenStep

\* The calls stay well formed.
LEMMA CallsKeep ==
  ASSUME CallInv, [DirectoryMoves]_directoryVars
  PROVE  CallInv'
<1>1. ASSUME NEW c \in Calls, OpenStep(c) PROVE CallInv'
  <2>1. CallMoves(c)  BY <1>1, StepMoves
  <2>2. PICK pc, s, e : GoesAt(c, pc, s, e)  BY <2>1, Zenon DEF CallMoves
  <2>3. QED  BY <2>2 DEF GoesAt, CallInv
<1>2. CASE DaemonRestarts
  <2>1. \A c \in Calls : opening'[c] =
          [pc |-> opening'[c].pc, s |-> opening'[c].s, epoch |-> opening'[c].epoch]
    BY <1>2 DEF DaemonRestarts, CallInv, Is
  <2>2. opening' = [c \in Calls |-> opening'[c]]  BY <1>2 DEF DaemonRestarts
  <2>3. QED  BY <2>1, <2>2 DEF CallInv
<1>3. CASE UNCHANGED opening  BY <1>3 DEF CallInv
<1>4. ASSUME NEW s \in Ids,
             Work(s) \/ WorkEnds(s) \/ LeaseExpires(s) \/ SupervisorEnds(s) \/ OtherAcquires(s)
      PROVE  UNCHANGED opening
  BY <1>4, Zenon DEF Work, WorkEnds, LeaseExpires, SupervisorEnds, OtherAcquires
<1>5. QED  BY <1>1, <1>2, <1>3, <1>4, Zenon DEF DirectoryMoves, directoryVars

\* Only register_templates_and_open_session takes a call from there to an open session.
LEMMA OnlyRegisterOpens ==
  ASSUME CallInv, [DirectoryMoves]_directoryVars, NEW c \in Calls,
         opening[c].pc = "register", opening'[c].pc = "opened"
  PROVE  RegisterAndOpen(c)
<1>1. opening'[c] # opening[c]  OBVIOUS
<1>2. ~DaemonRestarts
  <2>1. DaemonRestarts => opening'[c] = [opening[c] EXCEPT !.pc = "failed"]
    BY DEF DaemonRestarts, Is
  <2>2. opening[c] = [pc |-> opening[c].pc, s |-> opening[c].s, epoch |-> opening[c].epoch]
    BY DEF CallInv
  <2>3. [opening[c] EXCEPT !.pc = "failed"].pc = "failed"  BY <2>2
  <2>4. QED  BY <2>1, <2>3, Zenon
<1>3. ASSUME NEW s \in Ids,
             Work(s) \/ WorkEnds(s) \/ LeaseExpires(s) \/ SupervisorEnds(s) \/ OtherAcquires(s)
      PROVE  FALSE
  BY <1>1, <1>3, Zenon DEF Work, WorkEnds, LeaseExpires, SupervisorEnds, OtherAcquires
<1>4. PICK d \in Calls : OpenStep(d)
  BY <1>1, <1>2, <1>3, Zenon DEF DirectoryMoves, directoryVars
<1>5. d = c
  <2>1. CallMoves(d)  BY <1>4, StepMoves
  <2>2. PICK pc, s, e : GoesAt(d, pc, s, e)  BY <2>1, Zenon DEF CallMoves
  <2>3. QED  BY <1>1, <2>2 DEF GoesAt, CallInv
<1>6. QED
  BY <1>4, <1>5, Zenon DEF OpenStep, Is, ReadLedger, FindOpen, Recover, Reconcile, InstallSupervisor,
     AskClose, CloseContext, BeginClose, CancelBeforeClose, InspectLaunches, CommitClose,
     ResumeOpened, UseSupervised, TakeSession, Supervise, EnsureRoot, RegisterPolicy, PutPolicy

\* A reset replaces only what has stopped: for any calls of any clients, whatever they ask
\* for, cut where they await the Store, with operations that start and end, leases that
\* lapse and go to another host and daemons that restart in between (open_session,
\* close_owned, register_templates_and_open_session).
THEOREM ResetsReplaceStopped == DirectorySpec => ReplacesOnlyStopped
<1>1. DirectoryInit => CallInv
  BY DEF DirectoryInit, CallInv
<1>2. CallInv /\ [DirectoryMoves]_directoryVars => CallInv'
  BY CallsKeep
<1>3. ASSUME CallInv, [DirectoryMoves]_directoryVars, NEW c \in Calls,
             Asks[c].mode = "reset", opening[c].pc = "register", opening'[c].pc = "opened",
             OpenName(c) \notin DOMAIN requests
      PROVE  \A s \in DOMAIN dir : dir[s].key = Asks[c].key => ~dir[s].open /\ ~dir[s].launched
  <2>1. RegisterAndOpen(c)  BY <1>3, OnlyRegisterOpens
  <2>2. ~Fails(c)  BY <1>3 DEF Fails, Goes, CallInv
  <2>3. ~\E s \in OpenOf(Asks[c].key) : RefusesExisting(Asks[c], s)
    BY <1>3, <2>1, <2>2, Zenon DEF RegisterAndOpen
  <2>4. OpensRow(c)  BY <1>3, <2>1, <2>2, Zenon DEF RegisterAndOpen
  <2>5. OpenOf(Asks[c].key) = {}  BY <1>3, <2>3 DEF RefusesExisting
  <2>6. ~Unresolved(Asks[c].key)  BY <1>3, <2>2, <2>4, Zenon DEF OpensRow
  <2>7. QED  BY <2>5, <2>6 DEF OpenOf, Unresolved
<1>4. CallInv /\ [DirectoryMoves]_directoryVars =>
        [\A c \in Calls :
           /\ Asks[c].mode = "reset"
           /\ opening[c].pc = "register" /\ opening'[c].pc = "opened"
           /\ OpenName(c) \notin DOMAIN requests
           => \A s \in DOMAIN dir :
                dir[s].key = Asks[c].key => ~dir[s].open /\ ~dir[s].launched]_directoryVars
  BY <1>3, Zenon
<1>5. QED  BY <1>1, <1>2, <1>4, PTL DEF DirectorySpec, ReplacesOnlyStopped
=============================================================================
