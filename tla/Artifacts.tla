----------------------------- MODULE Artifacts -----------------------------
(***************************************************************************)
(* Artifacts: the rows in the store, the blobs in the daemon's directory,  *)
(* and the calls that keep the two together: LocalArtifactStore's write,   *)
(* read, logical deletion and physical erasure, with their capacity        *)
(* reservations, cancellation of a call, a crash and a restart.            *)
(***************************************************************************)
EXTENDS Reservations, Sequences

CONSTANTS
  WriteOf,    \* write calls: [call -> [request, artifact, session, creator, content, size,
              \* until]]; creator is the session of the operation named as its creator
  DeleteOf,   \* delete calls: [call -> [request, artifact, session]]
  EraseOf,    \* erase calls: [call -> [request, artifact, session]]
  ReadOf,     \* read calls: [call -> [artifact, session, offset, length]]; length is <<n>>,
              \* or <<>> for the rest
  ChunkBytes  \* MAX_ARTIFACT_CHUNK_BYTES

Writes == DOMAIN WriteOf
Deletes == DOMAIN DeleteOf
Erases == DOMAIN EraseOf
Reads == DOMAIN ReadOf

\* A write is no other call's command; sizes, offsets and lengths count bytes.
ASSUME ArtifactsAssumption ==
  /\ \A w \in Writes : "content" \in DOMAIN WriteOf[w] /\ WriteOf[w].size \in Nat
  /\ \A d \in Deletes : "content" \notin DOMAIN DeleteOf[d]
  /\ \A x \in Erases : "content" \notin DOMAIN EraseOf[x]
  /\ \A r \in Reads : /\ ReadOf[r].offset \in Nat
                       /\ ReadOf[r].length \in Seq(Nat) /\ Len(ReadOf[r].length) <= 1
  /\ ChunkBytes \in Nat

VARIABLES
  artifacts,  \* the rows: [artifact -> [session, content, size, state, until]]
  receipts,   \* recorded answers: [request -> the command it was bound to]
  blobs,      \* files <session>/<artifact>.blob: [artifact -> content]
  temps,      \* calls whose temporary file is on disk
  writes,     \* each write call: its step, its epoch, the reservations it holds
  releasing,  \* release_capacity tasks spawned when a call's guard was dropped
  erases,     \* each erase call: its step and epoch
  reads,      \* each read call: its step, the snapshot it was given, how far its stream
              \* has read the file and the bytes it has sent
  alive,      \* the daemon runs and holds the directory's lock
  epoch,      \* ownership epochs of the sessions
  today       \* the clock that retention is measured by

artifactVars == <<artifacts, receipts, blobs, temps, writes, releasing, erases,
                  reads, alive, epoch, today>>

ArtifactsInit ==
  /\ artifacts = <<>> /\ receipts = <<>> /\ blobs = <<>> /\ temps = {}
  /\ writes = [w \in Writes |-> [pc |-> "idle", epoch |-> 0, held |-> <<>>]]
  /\ releasing = {}
  /\ erases = [e \in Erases |-> [pc |-> "idle", epoch |-> 0]]
  /\ reads = [r \in Reads |-> [pc |-> "idle", content |-> None, size |-> 0,
                         position |-> 0, sent |-> <<>>]]
  /\ alive = TRUE /\ epoch = [s \in Sessions |-> 1] /\ today = 0

\* derived_reservation_id
CountId(w) == <<WriteOf[w].request, "count">>
BytesId(w) == <<WriteOf[w].request, "bytes">>

\* derived_capacity_usage.  The query leaves out the state 'erased', which no
\* row ever has: an erased artifact is stored as 'physically_erased'.
Counted(sessions) == {a \in DOMAIN artifacts : artifacts[a].session \in sessions
                                               /\ artifacts[a].state # "erased"}
Derived(sessions, r) ==
  CASE r = "artifacts" -> Cardinality(Counted(sessions))
    [] r = "artifact_bytes" ->
         MapThenSumSet(LAMBDA a : artifacts[a].size, Counted(sessions))
    [] OTHER -> 0

Fits(b, s, r, n) == Admits(b, s, r, n, Derived({s}, r), Derived(Sessions, r))

Answers(id, s, r, n) ==
  ReserveAnswers(ledger, id, s, r, n, Derived({s}, r), Derived(Sessions, r))

\* The receipt of a request: absent, of this very command, or of another one.
Fresh(request) == request \notin DOMAIN receipts
Replayed(request, command) == ~Fresh(request) /\ receipts[request] = command
Recorded(request, command) == receipts' = Put(receipts, request, command)

-----------------------------------------------------------------------------
(* write.                                                                  *)

Step(w, pc) == writes' = [writes EXCEPT ![w].pc = pc]

\* Dropping the guard spawns a release of every reservation the call noted; one whose
\* answer is still on its way has nobody who knows of it.
Drop(w) ==
  /\ Step(w, IF writes[w].pc \in {"counting", "sizing"} THEN "leaking" ELSE "failed")
  /\ releasing' = releasing \cup {writes[w].held[i] : i \in 1..Len(writes[w].held)}

\* The creator must be an operation of this session; the epoch is noted here.
PrepareArtifactWrite(w) ==
  LET c == WriteOf[w]
  IN /\ alive /\ writes[w].pc = "idle"
     /\ writes' = [writes EXCEPT ![w].pc = IF c.creator = c.session THEN "prepared" ELSE "failed",
                                 ![w].epoch = epoch[c.session]]
     /\ UNCHANGED <<ledger, artifacts, receipts, blobs, temps, releasing, erases, reads,
                    alive, epoch, today>>

\* The count reservation is committed; without it the call ends, holding nothing.
StartWrite(w) ==
  LET c == WriteOf[w]
  IN /\ alive /\ writes[w].pc = "prepared"
     /\ IF Answers(CountId(w), c.session, "artifacts", 1)
        THEN /\ ledger' = Reserved(ledger, CountId(w), c.session, "artifacts", 1)
             /\ Step(w, "counting")
        ELSE Step(w, "failed") /\ UNCHANGED ledger
     /\ UNCHANGED <<artifacts, receipts, blobs, temps, releasing, erases, reads,
                    alive, epoch, today>>

\* The answer reaches the call: its guard is made, or notes one reservation more.
NoteReservation(w) ==
  /\ alive
  /\ \/ /\ writes[w].pc = "counting"
        /\ writes' = [writes EXCEPT ![w].pc = "counted", ![w].held = <<CountId(w)>>]
     \/ /\ writes[w].pc = "sizing"
        /\ writes' = [writes EXCEPT ![w].pc = "reserved", ![w].held = Append(@, BytesId(w))]
  /\ UNCHANGED <<ledger, artifacts, receipts, blobs, temps, releasing, erases, reads,
                 alive, epoch, today>>

\* The byte reservation is committed; an empty artifact makes none.
ReserveBytes(w) ==
  LET c == WriteOf[w]
  IN /\ alive /\ writes[w].pc = "counted"
     /\ \/ /\ c.size = 0 /\ Step(w, "reserved") /\ UNCHANGED <<ledger, releasing>>
        \/ /\ c.size > 0 /\ Answers(BytesId(w), c.session, "artifact_bytes", c.size)
           /\ ledger' = Reserved(ledger, BytesId(w), c.session, "artifact_bytes", c.size)
           /\ Step(w, "sizing") /\ UNCHANGED releasing
        \/ /\ c.size > 0 /\ ~Answers(BytesId(w), c.session, "artifact_bytes", c.size)
           /\ Drop(w) /\ UNCHANGED ledger
     /\ UNCHANGED <<artifacts, receipts, blobs, temps, erases, reads, alive, epoch, today>>

\* The source is read into a new temporary file, synced and compared with the
\* declared size and digest; a source that fails takes the error path, which
\* removes the file.
ReadSource(w) ==
  /\ alive /\ writes[w].pc = "reserved"
  /\ \/ temps' = temps \cup {w} /\ Step(w, "written")
     \/ Step(w, "erring") /\ UNCHANGED temps
  /\ UNCHANGED <<ledger, artifacts, receipts, blobs, releasing, erases, reads,
                 alive, epoch, today>>

MutLinkBlob(w) ==
  LET c == WriteOf[w]
  IN /\ alive /\ writes[w].pc = "written"
     /\ blobs' = Put(blobs, c.artifact, c.content) /\ Step(w, "linked")
     /\ UNCHANGED <<ledger, artifacts, receipts, temps, releasing, erases, reads,
                    alive, epoch, today>>

\* hard_link never replaces a blob: one that is there must have this content.
LinkBlob(w) ==
  LET c == WriteOf[w]
  IN /\ alive /\ writes[w].pc = "written"
     /\ \/ /\ c.artifact \notin DOMAIN blobs
           /\ blobs' = Put(blobs, c.artifact, c.content)
           /\ Step(w, "linked") /\ UNCHANGED temps
        \/ /\ c.artifact \in DOMAIN blobs /\ blobs[c.artifact] = c.content
           /\ Step(w, "linked") /\ UNCHANGED <<blobs, temps>>
        \/ /\ c.artifact \in DOMAIN blobs /\ blobs[c.artifact] # c.content
           /\ Step(w, "erring") /\ temps' = temps \ {w} /\ UNCHANGED blobs
     /\ UNCHANGED <<ledger, artifacts, receipts, releasing, erases, reads, alive, epoch, today>>

RemoveTemp(w) ==
  /\ alive /\ writes[w].pc = "linked"
  /\ temps' = temps \ {w} /\ Step(w, "synced")
  /\ UNCHANGED <<ledger, artifacts, receipts, blobs, releasing, erases, reads,
                 alive, epoch, today>>

\* The call returns: its guard is dropped here too, after the row is written.
Return(w) ==
  /\ writes' = [writes EXCEPT ![w].pc = "done"]
  /\ releasing' = releasing \cup {writes[w].held[i] : i \in 1..Len(writes[w].held)}

\* Both reservations become the artifact's own use, in the row's transaction.
Converted(w) ==
  LET once == Settled(ledger, CountId(w))
  IN IF WriteOf[w].size = 0 THEN once ELSE Settled(once, BytesId(w))

PublishAdmits(w) ==
  LET c == WriteOf[w]
  IN /\ Fresh(c.request) /\ writes[w].epoch = epoch[c.session]
     /\ Consumable(ledger, CountId(w), c.session, "artifacts", 1)
     /\ c.size > 0 => Consumable(ledger, BytesId(w), c.session, "artifact_bytes", c.size)
     /\ Fits(Converted(w), c.session, "artifacts", 1)
     /\ Fits(Converted(w), c.session, "artifact_bytes", c.size)
     /\ c.artifact \notin DOMAIN artifacts

\* publish_artifact
Publish(w) ==
  LET c == WriteOf[w]
  IN /\ alive /\ writes[w].pc = "synced"
     /\ \/ Replayed(c.request, c) /\ Return(w) /\ UNCHANGED <<ledger, artifacts, receipts>>
        \/ /\ PublishAdmits(w)
           /\ ledger' = Converted(w)
           /\ artifacts' = Put(artifacts, c.artifact,
                             [session |-> c.session, content |-> c.content, size |-> c.size,
                              state |-> "available", until |-> c.until])
           /\ Recorded(c.request, c) /\ Return(w)
        \/ /\ ~Replayed(c.request, c) /\ ~PublishAdmits(w)
           /\ Step(w, "erring") /\ UNCHANGED <<ledger, artifacts, receipts, releasing>>
     /\ UNCHANGED <<blobs, temps, erases, reads, alive, epoch, today>>

\* The error path releases each reservation itself, then drops the guard.
ReleaseOnError(w) ==
  /\ alive /\ writes[w].pc = "erring"
  /\ LET held == writes[w].held
         due == SelectSeq(held, LAMBDA id : ~ledger.rows[id].released)
     IN \/ /\ due # <<>> /\ ledger' = Released(ledger, due[1])
           /\ UNCHANGED <<writes, releasing>>
        \/ due = <<>> /\ Drop(w) /\ UNCHANGED ledger
  /\ UNCHANGED <<artifacts, receipts, blobs, temps, erases, reads, alive, epoch, today>>

InCall == {"prepared", "counting", "counted", "sizing", "reserved", "written", "linked",
           "synced", "erring"}

MutCancelWrite(w) ==
  /\ alive /\ writes[w].pc \in InCall /\ Step(w, "failed")
  /\ UNCHANGED <<ledger, artifacts, receipts, blobs, temps, releasing, erases, reads,
                 alive, epoch, today>>

\* The client goes away and the call's future is dropped, at one of its awaits;
\* a temporary file stays until the next start.
CancelWrite(w) ==
  /\ alive /\ writes[w].pc \in InCall /\ Drop(w)
  /\ UNCHANGED <<ledger, artifacts, receipts, blobs, temps, erases, reads,
                 alive, epoch, today>>

\* A task of the guard; a release that was made already changes nothing.
ReleaseTask(id) ==
  /\ alive /\ id \in releasing
  /\ ledger' = Released(ledger, id) /\ releasing' = releasing \ {id}
  /\ UNCHANGED <<artifacts, receipts, blobs, temps, writes, erases, reads,
                 alive, epoch, today>>

-----------------------------------------------------------------------------
(* Reading, deletion and erasure.                                          *)

\* load_artifact_in, decode_artifact: the row, in this session and this state
Holds(c, state) ==
  /\ c.artifact \in DOMAIN artifacts
  /\ artifacts[c.artifact].session = c.session /\ artifacts[c.artifact].state = state

\* snapshot: only an available artifact, for the current owner.
LoadArtifact(r) ==
  LET c == ReadOf[r]
  IN /\ alive /\ reads[r].pc = "idle" /\ Holds(c, "available")
     /\ reads' = [reads EXCEPT ![r].pc = "loaded", ![r].content = artifacts[c.artifact].content,
                               ![r].size = artifacts[c.artifact].size]
     /\ UNCHANGED <<ledger, artifacts, receipts, blobs, temps, writes, releasing, erases,
                    alive, epoch, today>>

\* verified_file: the blob must be there with the row's size and digest.
Verified(r) ==
  ReadOf[r].artifact \in DOMAIN blobs /\ blobs[ReadOf[r].artifact] = reads[r].content

\* The requested bytes, counted from 0, and whether the content has them.
RangeEnd(r) == IF ReadOf[r].length = <<>> THEN reads[r].size
               ELSE ReadOf[r].offset + ReadOf[r].length[1]
InContent(r) == ReadOf[r].offset <= reads[r].size /\ RangeEnd(r) <= reads[r].size

\* The open file is the stream's from here on, whatever happens to its name.
OpenBlob(r) ==
  /\ alive /\ reads[r].pc = "loaded"
  /\ reads' = [reads EXCEPT ![r].pc =
       IF ~Verified(r) THEN "missing" ELSE IF InContent(r) THEN "streaming" ELSE "refused"]
  /\ UNCHANGED <<ledger, artifacts, receipts, blobs, temps, writes, releasing, erases,
                 alive, epoch, today>>

\* The bytes of from..to-1, in order.
Bytes(from, to) == [i \in 1..(IF from < to THEN to - from ELSE 0) |-> from + i - 1]

\* The whole file is read for its digest, n bytes at a time; what of them is in
\* the range is sent.
StreamChunk(r, n) ==
  LET at == reads[r].position
  IN /\ alive /\ reads[r].pc = "streaming" /\ at + n <= reads[r].size
     /\ reads' = [reads EXCEPT ![r].position = at + n,
          ![r].sent = @ \o Bytes(Max({at, ReadOf[r].offset}), Min({at + n, RangeEnd(r)}))]
     /\ UNCHANGED <<ledger, artifacts, receipts, blobs, temps, writes, releasing, erases,
                    alive, epoch, today>>

\* The stream ends with the file, with a failure when the file cannot be read,
\* or when the client closes it.
StreamEnds(r) ==
  /\ alive /\ reads[r].pc = "streaming"
  /\ \E end \in {"complete", "broken", "closed"} :
       /\ end = "complete" => reads[r].position = reads[r].size
       /\ reads' = [reads EXCEPT ![r].pc = end]
  /\ UNCHANGED <<ledger, artifacts, receipts, blobs, temps, writes, releasing, erases,
                 alive, epoch, today>>

ReadStep(r) ==
  LoadArtifact(r) \/ OpenBlob(r) \/ (\E n \in 1..ChunkBytes : StreamChunk(r, n)) \/ StreamEnds(r)

\* transition_artifact: one transaction, in the current epoch
Deletable(c) == Fresh(c.request) /\ Holds(c, "available")

\* delete_artifact
Delete(d) ==
  LET c == DeleteOf[d]
  IN /\ alive /\ Deletable(c)
     /\ artifacts' = [artifacts EXCEPT ![c.artifact].state = "deleted"]
     /\ Recorded(c.request, c)
     /\ UNCHANGED <<ledger, blobs, temps, writes, releasing, erases, reads,
                    alive, epoch, today>>

\* The artifact may be erased: deleted, and past its retention.
Erasable(c, e) ==
  /\ Fresh(c.request) /\ e = epoch[c.session]
  /\ Holds(c, "deleted") /\ artifacts[c.artifact].until <= today

\* authorize_physical_erasure; the exact retry of a recorded erasure passes.
AuthorizeErase(x) ==
  LET c == EraseOf[x]
  IN /\ alive /\ erases[x].pc = "idle"
     /\ Replayed(c.request, c) \/ Erasable(c, epoch[c.session])
     /\ erases' = [erases EXCEPT ![x] = [pc |-> "authorized", epoch |-> epoch[c.session]]]
     /\ UNCHANGED <<ledger, artifacts, receipts, blobs, temps, writes, releasing, reads,
                    alive, epoch, today>>

\* The blob is verified and unlinked; one that is not there is no error.
Unlink(x) ==
  LET a == EraseOf[x].artifact
  IN /\ alive /\ erases[x].pc = "authorized"
     /\ \/ /\ a \in DOMAIN blobs => blobs[a] = artifacts[a].content
           /\ blobs' = Restrict(blobs, DOMAIN blobs \ {a})
           /\ erases' = [erases EXCEPT ![x].pc = "unlinked"]
        \/ /\ a \in DOMAIN blobs /\ blobs[a] # artifacts[a].content
           /\ erases' = [erases EXCEPT ![x].pc = "failed"] /\ UNCHANGED blobs
     /\ UNCHANGED <<ledger, artifacts, receipts, temps, writes, releasing, reads,
                    alive, epoch, today>>

\* record_physical_erasure: transition_erased
RecordErasure(x) ==
  LET c == EraseOf[x]
  IN /\ alive /\ erases[x].pc = "unlinked"
     /\ \/ Replayed(c.request, c) /\ UNCHANGED <<artifacts, receipts>>
        \/ /\ Erasable(c, erases[x].epoch) /\ Recorded(c.request, c)
           /\ artifacts' = [artifacts EXCEPT ![c.artifact].state = "physically_erased"]
        \/ /\ ~Replayed(c.request, c) /\ ~Erasable(c, erases[x].epoch)
           /\ UNCHANGED <<artifacts, receipts>>
     /\ erases' = [erases EXCEPT ![x].pc = "done"]
     /\ UNCHANGED <<ledger, blobs, temps, writes, releasing, reads, alive, epoch, today>>

-----------------------------------------------------------------------------
(* The daemon and its surroundings.                                        *)

\* The process dies: calls and release tasks are gone, files and rows stay.
Crash ==
  /\ alive /\ alive' = FALSE /\ releasing' = {}
  /\ writes' = [w \in Writes |-> IF writes[w].pc \in InCall
                                 THEN [writes[w] EXCEPT !.pc = "lost"] ELSE writes[w]]
  /\ erases' = [x \in Erases |-> IF erases[x].pc \in {"authorized", "unlinked"}
                                 THEN [erases[x] EXCEPT !.pc = "lost"] ELSE erases[x]]
  /\ reads' = [r \in Reads |-> IF reads[r].pc \in {"loaded", "streaming"}
                               THEN [reads[r] EXCEPT !.pc = "lost"] ELSE reads[r]]
  /\ UNCHANGED <<ledger, artifacts, receipts, blobs, temps, epoch, today>>

\* LocalArtifactStore::new takes the directory's lock and removes what well
\* formed temporary names it finds; blobs are left alone.
Restart ==
  /\ ~alive /\ Agrees(ledger) /\ alive' = TRUE /\ temps' = {}
  /\ UNCHANGED <<ledger, artifacts, receipts, blobs, writes, releasing, erases, reads,
                 epoch, today>>

\* The session is acquired anew: calls begun before carry a stale epoch.
Reacquire(s) ==
  /\ epoch' = [epoch EXCEPT ![s] = @ + 1]
  /\ UNCHANGED <<ledger, artifacts, receipts, blobs, temps, writes, releasing, erases,
                 reads, alive, today>>

Day ==
  /\ today' = today + 1
  /\ UNCHANGED <<ledger, artifacts, receipts, blobs, temps, writes, releasing, erases,
                 reads, alive, epoch>>

CallStep(w) ==
  \/ PrepareArtifactWrite(w) \/ StartWrite(w) \/ NoteReservation(w) \/ ReserveBytes(w)
  \/ ReadSource(w) \/ LinkBlob(w) \/ RemoveTemp(w) \/ Publish(w) \/ ReleaseOnError(w)

ArtifactsNext ==
  \/ \E w \in Writes : CallStep(w) \/ CancelWrite(w)
  \/ \E id \in releasing : ReleaseTask(id)
  \/ \E r \in Reads : ReadStep(r)
  \/ \E d \in Deletes : Delete(d)
  \/ \E x \in Erases : AuthorizeErase(x) \/ Unlink(x) \/ RecordErasure(x)
  \/ Crash \/ Restart \/ Day
  \/ \E s \in Sessions : Reacquire(s)

\* The artifacts alone, without the bounds of a scenario; whatever the other
\* users of the ledger do to it is a step that changes nothing here.
ArtifactsSpec == ArtifactsInit /\ [][ArtifactsNext]_artifactVars

-----------------------------------------------------------------------------
\* An available artifact's blob is on disk with the row's content, whatever
\* crashes, retries, competing writes and erasures have happened; a read misses
\* the blob only if the artifact was deleted after the read loaded it; and its
\* stream sends the requested bytes and no others, in order, however the reads
\* of the file divide them, all of them when it ends as complete.
AvailableHasBytes ==
  /\ \A a \in DOMAIN artifacts : artifacts[a].state = "available" =>
       a \in DOMAIN blobs /\ blobs[a] = artifacts[a].content
  /\ \A r \in Reads :
       LET wanted == Bytes(ReadOf[r].offset, RangeEnd(r))
           sent == reads[r].sent
       IN /\ reads[r].pc = "missing" => artifacts[ReadOf[r].artifact].state # "available"
          /\ Len(sent) <= Len(wanted) /\ sent = SubSeq(wanted, 1, Len(sent))
          /\ reads[r].pc = "complete" => sent = wanted
=============================================================================
