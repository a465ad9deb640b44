------------------------------- MODULE Proctor -------------------------------
(***************************************************************************)
(* The recording service (src/proctor2/main.py), its callers in the web     *)
(* server (src/web/manager/proctor.py) and the tokens and recorders of the  *)
(* exam page (src/web/static/js/proctor.js), for one session: registration  *)
(* and token, chunks spooled to one file per kind and segment, finalization     *)
(* into object storage with its retry queue, the registry on disk, and      *)
(* crashes of the service.                                                  *)
(*                                                                          *)
(* The service is one asyncio loop: an action is what runs between two      *)
(* awaits.  A chunk is <<token, recorder, number>>: the token it was sent   *)
(* with, the MediaRecorder that captured it, and its number.  A file or     *)
(* object is the set of its chunks.                                         *)
(***************************************************************************)
EXTENDS Naturals, FiniteSets

CONSTANTS
    Kinds,           \* ALLOWED_KINDS
    MaxAttempts,     \* finalize attempts before the queue gives up (8)
    MaxTokens,       \* bound: tokens issued by the web server
    MaxChunks,       \* bound: chunks accepted
    MaxFaults        \* bound: crashes, sweeps, reloads, lost answers and reopened sessions

ASSUME ProctorAssumption ==
    /\ IsFiniteSet(Kinds)
    /\ {MaxAttempts, MaxTokens} \subseteq Nat \ {0}
    /\ {MaxChunks, MaxFaults} \subseteq Nat

VARIABLES
    row,        \* status of the session in the database, as others see it
    issued,     \* tokens issued
    page,       \* the token the page holds, that in sessionStorage, its last recorder
    registers,  \* register requests on their way to the service
    ending,     \* the end of the session in the web server: "no", "sent", "waiting"
    entry,      \* the session in _sessions, or None
    disk,       \* the registry file: [entry, attempts]
    saves,      \* entries being written to the registry file
    attempts,   \* attempts of the session's entry in _finalize_queue, 0 if none
    orphan,     \* attempts of the entry the retry loop holds if the handler has replaced
                \* or removed it since, else 0
    handlers,   \* chunk requests past the token check
    accepted,   \* number of chunks accepted
    acked,      \* chunks appended and acknowledged
    spool,      \* the spool file of each path <<kind, segment>>
    store,      \* the object of each path
    fin,        \* _do_finalize of the request handler and of the retry loop
    closing,    \* a finalize request has been handled since the session was opened
    late,       \* a chunk has been appended while closing
    outdated,   \* the service was restarted from a registry older than its memory
    sweep,      \* the sweeper: "no", or the session is "listed" as stale or its files "cleaned"
    swept,      \* the sweeper has listed the session
    reopens,    \* how often the session was reopened
    faults      \* crashes, sweeps, reloads and lost answers so far

web == <<row, issued, page, registers, ending>>
memory == <<entry, attempts, orphan>>
chunks == <<handlers, accepted, acked>>
history == <<closing, late, outdated, swept, reopens, faults>>
vars == <<web, memory, disk, saves, chunks, spool, store, fin, sweep, history>>

None == [token |-> 0, segment |-> 0]
Segments == 0 .. MaxTokens - 1
Paths == Kinds \X Segments
Recorders == 1 .. MaxFaults + 1
Chunks == (1 .. MaxTokens) \X Recorders \X (1 .. MaxChunks)
Entries == [token : 0 .. MaxTokens, segment : Segments]
Finalizers == {"handler", "retry"}

\* A run of _do_finalize: the paths still to upload, the one being uploaded
\* with the content read so far, the kinds that failed, all paths listed.
Idle == [pc |-> "idle", todo |-> {}, now |-> {}, sent |-> {}, failed |-> {}, listed |-> {}]

TypeOK ==
    /\ row \in {"none", "active", "ended"}
    /\ issued \in 0 .. MaxTokens
    /\ page \in [token : 0 .. issued, stored : 0 .. issued, recorder : 0 .. faults + 1]
    /\ registers \subseteq 1 .. issued
    /\ ending \in {"no", "sent", "waiting"}
    /\ {entry, disk.entry} \union saves \subseteq Entries
    /\ {attempts, orphan, disk.attempts} \subseteq 0 .. MaxAttempts
    /\ handlers \subseteq [chunk : Chunks, path : Paths]
    /\ accepted \in 0 .. MaxChunks
    /\ acked \subseteq Chunks
    /\ {spool, store} \subseteq [Paths -> SUBSET Chunks]
    /\ \A f \in Finalizers :
          /\ fin[f].pc \in {"idle", "upload", "uploading", "cleanup"}
          /\ fin[f].now \subseteq fin[f].listed /\ Cardinality(fin[f].now) <= 1
          /\ fin[f].todo \subseteq fin[f].listed /\ fin[f].listed \subseteq Paths
          /\ fin[f].sent \subseteq Chunks /\ fin[f].failed \subseteq Kinds
    /\ sweep \in {"no", "listed", "cleaned"}
    /\ {closing, late, outdated, swept} \subseteq BOOLEAN
    /\ {reopens, faults} \subseteq 0 .. MaxFaults

Init ==
    /\ row = "none" /\ issued = 0 /\ registers = {} /\ ending = "no"
    /\ page = [token |-> 0, stored |-> 0, recorder |-> 0]
    /\ entry = None /\ attempts = 0 /\ orphan = 0
    /\ disk = [entry |-> None, attempts |-> 0] /\ saves = {}
    /\ handlers = {} /\ accepted = 0 /\ acked = {}
    /\ spool = [p \in Paths |-> {}] /\ store = [p \in Paths |-> {}]
    /\ fin = [f \in Finalizers |-> Idle]
    /\ closing = FALSE /\ late = FALSE /\ outdated = FALSE /\ swept = FALSE
    /\ sweep = "no" /\ reopens = 0 /\ faults = 0

\* What goes wrong, or takes long, happens a bounded number of times.
Fault ==
    /\ reopens + faults < MaxFaults
    /\ faults' = faults + 1
    /\ UNCHANGED reopens

------------------------------------------------------------------------------
(***************************************************************************)
(* The page and the web server.                                             *)
(***************************************************************************)

\* start_session: a new row or the active one, a new token, and a register
\* request that is not waited for longer than two seconds.
NewToken ==
    /\ row # "ended" /\ issued < MaxTokens
    /\ row' = "active"
    /\ issued' = issued + 1
    /\ registers' = registers \union {issued'}
    /\ UNCHANGED <<ending, memory, disk, saves, chunks, spool, store, fin, sweep,
                   closing, late, outdated, swept>>

\* ensureSession: a page without a token gets one, and starts a recorder.
StartSession ==
    /\ page.token = 0
    /\ NewToken
    /\ page' = [token |-> issued', stored |-> issued', recorder |-> page.recorder + 1]
    /\ UNCHANGED <<reopens, faults>>

\* reconnectStreams: the page takes the new token and fails on the undeclared
\* TOKEN_KEY, before it stores the token or stops its recorder.
Reconnect ==
    /\ page.token # 0
    /\ NewToken
    /\ page' = [page EXCEPT !.token = issued']
    /\ UNCHANGED <<reopens, faults>>

\* The answer to either is lost: the page goes on with what it has.
AnswerLost ==
    /\ NewToken
    /\ Fault
    /\ UNCHANGED page

\* The page is loaded again. With a token in sessionStorage it asks for none,
\* and starts a recorder; another tab has none.
Reload ==
    /\ page.token # 0
    /\ \/ page' = [page EXCEPT !.token = page.stored, !.recorder = @ + 1]
       \/ page' = [page EXCEPT !.token = 0, !.stored = 0]
    /\ Fault
    /\ UNCHANGED <<row, issued, registers, ending, memory, disk, saves, chunks, spool, store, fin,
                   sweep, closing, late, outdated, swept>>

\* The register request does not reach the service.
RegisterLost(t) ==
    /\ registers' = registers \ {t}
    /\ UNCHANGED <<row, issued, page, ending, memory, disk, saves, chunks, spool, store, fin, sweep, history>>

\* end_session: the finalize request is sent or fails; the new status is
\* committed, and seen by others, when the request is answered or given up.
EndSession ==
    /\ row = "active" /\ ending = "no"
    /\ ending' \in {"sent", "waiting"}
    /\ UNCHANGED <<row, issued, page, registers, memory, disk, saves, chunks, spool, store, fin, sweep, history>>

CommitEnd ==
    /\ ending = "waiting"
    /\ ending' = "no" /\ row' = "ended"
    /\ UNCHANGED <<issued, page, registers, memory, disk, saves, chunks, spool, store, fin, sweep, history>>

\* reopen_session, by an administrator: no request of the page that was ended
\* is still under way by then, but the session may wait in the retry queue.
ReopenSession ==
    /\ row = "ended" /\ reopens + faults < MaxFaults
    /\ reopens' = reopens + 1
    /\ handlers = {} /\ registers = {} /\ saves = {} /\ fin["handler"].pc = "idle"
    /\ row' = "active"
    /\ closing' = FALSE
    /\ UNCHANGED <<issued, page, registers, ending, memory, disk, saves, chunks, spool, store, fin,
                   late, outdated, sweep, swept, faults>>

------------------------------------------------------------------------------
(***************************************************************************)
(* Registration, chunks and the registry file.                              *)
(***************************************************************************)

\* _save_registry takes its snapshot of the sessions at once and writes it in
\* a thread; nothing keeps two writes in order.
Save == saves' = saves \union {entry'}

\* handle_register_session: every registration starts a new segment.
HandleRegister(t) ==
    /\ registers' = registers \ {t}
    /\ entry' = [token |-> t, segment |-> IF entry = None THEN 0 ELSE entry.segment + 1]
    /\ Save
    /\ UNCHANGED <<row, issued, page, ending, attempts, orphan, disk, chunks, spool, store, fin, sweep, history>>

\* handle_chunk up to the append, for a chunk of the page's recorder, sent
\* with the page's token: the segment is that of the entry whose token was
\* checked.
AcceptChunk(k) ==
    /\ accepted < MaxChunks
    /\ page.token # 0
    /\ entry # None /\ entry.token = page.token
    /\ accepted' = accepted + 1
    /\ handlers' = handlers \union
          {[chunk |-> <<page.token, page.recorder, accepted'>>, path |-> <<k, entry.segment>>]}
    /\ UNCHANGED <<web, memory, disk, saves, acked, spool, store, fin, sweep, history>>

\* Mutant of AppendChunk: the segment is looked up after the body was read.
AppendChunkToLatest(h) ==
    /\ handlers' = handlers \ {h}
    /\ spool' = [spool EXCEPT ![<<h.path[1], entry.segment>>] = @ \union {h.chunk}]
    /\ acked' = acked \union {h.chunk}
    /\ late' = (late \/ closing)
    /\ UNCHANGED <<web, memory, disk, saves, accepted, store, fin, closing, outdated, sweep, swept, reopens, faults>>

\* _append and the answer.
AppendChunk(h) ==
    /\ handlers' = handlers \ {h}
    /\ spool' = [spool EXCEPT ![h.path] = @ \union {h.chunk}]
    /\ acked' = acked \union {h.chunk}
    /\ late' = (late \/ closing)
    /\ UNCHANGED <<web, memory, disk, saves, accepted, store, fin, closing, outdated, sweep, swept, reopens, faults>>

\* The thread of _save_registry is done. The retry queue is written as it is
\* now, for the snapshot holds a reference to it.
Saved(e) ==
    /\ saves' = saves \ {e}
    /\ disk' = [entry |-> e, attempts |-> attempts]
    /\ UNCHANGED <<web, memory, chunks, spool, store, fin, sweep, history>>

\* _ttl_sweeper finds the session idle for hours, whatever else is under way,
SweepListed ==
    /\ entry # None /\ sweep = "no"
    /\ sweep' = "listed" /\ swept' = TRUE
    /\ Fault
    /\ UNCHANGED <<web, memory, disk, saves, chunks, spool, store, fin, closing, late, outdated>>

\* removes its files in a thread,
SweepCleaned ==
    /\ sweep = "listed"
    /\ sweep' = "cleaned"
    /\ spool' = [p \in Paths |-> {}]
    /\ UNCHANGED <<web, memory, disk, saves, chunks, store, fin, history>>

\* and drops the session, which may have been registered again by then. The
\* retry queue is left alone.
SweepDropped ==
    /\ sweep = "cleaned"
    /\ sweep' = "no"
    /\ entry' = None
    /\ Save
    /\ UNCHANGED <<web, attempts, orphan, disk, chunks, spool, store, fin, history>>

\* The service dies and _load_registry rebuilds its memory.
Crash ==
    /\ Fault
    /\ entry' = disk.entry /\ attempts' = disk.attempts /\ orphan' = 0
    /\ outdated' = (outdated \/ disk.entry # entry)
    /\ saves' = {} /\ handlers' = {}
    /\ fin' = [f \in Finalizers |-> Idle] /\ sweep' = "no"
    /\ ending' = IF ending = "sent" THEN "waiting" ELSE ending
    /\ UNCHANGED <<row, issued, page, registers, disk, accepted, acked, spool, store,
                   closing, late, swept>>

------------------------------------------------------------------------------
(***************************************************************************)
(* Finalization.                                                            *)
(***************************************************************************)

Files == {p \in Paths : spool[p] # {}}

\* _do_finalize lists the spool files.
Begin(f) ==
    fin' = [fin EXCEPT ![f] = [Idle EXCEPT !.pc = "upload", !.todo = Files, !.listed = Files]]

\* handle_finalize. The web server may stop waiting at any time (CommitEnd).
HandleFinalize ==
    /\ ending = "sent" /\ fin["handler"].pc = "idle"
    /\ ending' = "waiting"
    /\ closing' = TRUE
    /\ IF entry = None /\ Files = {} THEN UNCHANGED fin ELSE Begin("handler")
    /\ UNCHANGED <<row, issued, page, registers, memory, disk, saves, chunks, spool, store,
                   late, outdated, sweep, swept, reopens, faults>>

\* The retry loop finds the session due.
RetryFinalize ==
    /\ attempts > 0 /\ fin["retry"].pc = "idle"
    /\ orphan' = 0
    /\ Begin("retry")
    /\ UNCHANGED <<web, entry, attempts, disk, saves, chunks, spool, store, sweep, history>>

\* Kinds are taken one after another, and the segments of a kind in order.
IsNext(f, p) ==
    LET begun(k) == \E q \in fin[f].listed \ fin[f].todo : q[1] = k
    IN  /\ p \in fin[f].todo
        /\ \A q \in fin[f].todo : IF q[1] = p[1] THEN p[2] <= q[2] ELSE ~ begun(q[1])

\* upload_file reads a file.
StartUpload(f, p) ==
    /\ fin[f].pc = "upload" /\ IsNext(f, p) /\ spool[p] # {}
    /\ fin' = [fin EXCEPT ![f] = [fin[f] EXCEPT !.pc = "uploading", !.now = {p}, !.sent = spool[p],
                                                !.todo = @ \ {p}]]
    /\ UNCHANGED <<web, memory, disk, saves, chunks, spool, store, sweep, history>>

\* The file has been unlinked since it was listed: stat raises, and the
\* handler or the pass of the loop ends.
FileGone(f, p) ==
    /\ fin[f].pc = "upload" /\ IsNext(f, p) /\ spool[p] = {}
    /\ fin' = [fin EXCEPT ![f] = Idle]
    /\ UNCHANGED <<web, memory, disk, saves, chunks, spool, store, sweep, history>>

\* The upload is done; after the last segment of a kind its files are unlinked.
\* If the other finalizer has unlinked the file by now, stat raises here too.
UploadDone(f, p) ==
    LET k == p[1]
        gone == spool[p] = {}
        last == k \notin fin[f].failed /\ \A q \in fin[f].todo : q[1] # k
    IN  /\ fin[f].now = {p}
        /\ store' = [store EXCEPT ![p] = fin[f].sent]
        /\ spool' = [q \in Paths |->
                       IF ~gone /\ last /\ q[1] = k /\ q \in fin[f].listed THEN {} ELSE spool[q]]
        /\ fin' = [fin EXCEPT ![f] =
                      IF gone THEN Idle ELSE [@ EXCEPT !.pc = "upload", !.now = {}, !.sent = {}]]
        /\ UNCHANGED <<web, memory, disk, saves, chunks, sweep, history>>

\* The upload fails: the other segments of the kind are left, the next kind
\* is tried.
UploadFailed(f, p) ==
    /\ fin[f].now = {p}
    /\ fin' = [fin EXCEPT ![f] = [fin[f] EXCEPT !.pc = "upload", !.now = {}, !.sent = {},
                 !.failed = @ \union {p[1]}, !.todo = {q \in @ : q[1] # p[1]}]]
    /\ UNCHANGED <<web, memory, disk, saves, chunks, spool, store, sweep, history>>

\* Mutant of Cleanup: the directory is removed in spite of leftovers.
CleanupAnyway(f) ==
    /\ fin[f].pc = "upload" /\ fin[f].todo = {}
    /\ spool' = [p \in Paths |-> {}]
    /\ fin' = [fin EXCEPT ![f].pc = "cleanup"]
    /\ UNCHANGED <<web, memory, disk, saves, chunks, store, sweep, history>>

\* _do_finalize returns without leftover: the directory is removed ...
Cleanup(f) ==
    /\ fin[f].pc = "upload" /\ fin[f].todo = {} /\ fin[f].failed = {}
    /\ spool' = [p \in Paths |-> {}]
    /\ fin' = [fin EXCEPT ![f].pc = "cleanup"]
    /\ UNCHANGED <<web, memory, disk, saves, chunks, store, sweep, history>>

\* The handler replaces or removes the entry of the retry queue that the loop
\* may be working with.
Orphaned(f) ==
    orphan' = IF f = "handler" /\ fin["retry"].pc # "idle" /\ orphan = 0 THEN attempts ELSE orphan

\* ... and the session forgotten.
Forget(f) ==
    /\ fin[f].pc = "cleanup"
    /\ entry' = None /\ attempts' = 0
    /\ Orphaned(f)
    /\ Save
    /\ fin' = [fin EXCEPT ![f] = Idle]
    /\ UNCHANGED <<web, disk, chunks, spool, store, sweep, history>>

\* The loop counts the attempt in the entry it has held since it began: it
\* gives up on whatever entry is queued now if that is one too many of n.
Count(n) ==
    LET held == IF orphan = 0 THEN attempts ELSE orphan
    IN  attempts' = IF held + 1 > n THEN 0 ELSE IF orphan = 0 THEN attempts + 1 ELSE attempts

\* Mutant of Leftover: one attempt too many.
LeftoverOneMore(f) ==
    /\ fin[f].pc = "upload" /\ fin[f].todo = {} /\ fin[f].failed # {}
    /\ IF f = "handler"
       THEN attempts' = 1 /\ saves' = saves \union {entry}
       ELSE Count(MaxAttempts + 1) /\ UNCHANGED saves
    /\ Orphaned(f)
    /\ fin' = [fin EXCEPT ![f] = Idle]
    /\ UNCHANGED <<web, entry, disk, chunks, spool, store, sweep, history>>

\* Mutant of Leftover: the loop does not count its attempts.
LeftoverUncounted(f) ==
    /\ fin[f].pc = "upload" /\ fin[f].todo = {} /\ fin[f].failed # {}
    /\ IF f = "handler"
       THEN attempts' = 1 /\ saves' = saves \union {entry}
       ELSE UNCHANGED <<attempts, saves>>
    /\ Orphaned(f)
    /\ fin' = [fin EXCEPT ![f] = Idle]
    /\ UNCHANGED <<web, entry, disk, chunks, spool, store, sweep, history>>

\* With leftover the handler queues the session anew, and the loop counts the
\* attempt or gives up, neither of which it saves.
Leftover(f) ==
    /\ fin[f].pc = "upload" /\ fin[f].todo = {} /\ fin[f].failed # {}
    /\ IF f = "handler"
       THEN attempts' = 1 /\ saves' = saves \union {entry}
       ELSE Count(MaxAttempts) /\ UNCHANGED saves
    /\ Orphaned(f)
    /\ fin' = [fin EXCEPT ![f] = Idle]
    /\ UNCHANGED <<web, entry, disk, chunks, spool, store, sweep, history>>

Finalize(f) ==
    \/ \E p \in Paths :
          StartUpload(f, p) \/ FileGone(f, p) \/ UploadDone(f, p) \/ UploadFailed(f, p)
    \/ Cleanup(f)
    \/ Forget(f)
    \/ Leftover(f)

Next ==
    \/ StartSession \/ Reconnect \/ AnswerLost \/ Reload \/ EndSession \/ CommitEnd \/ ReopenSession
    \/ \E t \in registers : RegisterLost(t) \/ HandleRegister(t)
    \/ \E k \in Kinds : AcceptChunk(k)
    \/ \E h \in handlers : AppendChunk(h)
    \/ \E e \in saves : Saved(e)
    \/ SweepListed \/ SweepCleaned \/ SweepDropped \/ Crash
    \/ HandleFinalize \/ RetryFinalize
    \/ \E f \in Finalizers : Finalize(f)

\* The loop of the service makes progress and uploads end.
Fairness == WF_vars(RetryFinalize) /\ WF_vars(Finalize("retry"))

Safety == Init /\ [][Next]_vars
Spec == Safety /\ Fairness

------------------------------------------------------------------------------
(***************************************************************************)
(* Properties.                                                              *)
(***************************************************************************)

Content(files) == UNION {files[p] : p \in Paths}

\* A chunk the service has acknowledged is in its spool or in object storage,
\* through failed uploads, retries and crashes at every step of a
\* finalization (main.py:400-510), as long as no chunk arrives while the
\* session is finalized, it is not reopened and the sweeper has not dropped it.
AckedKept ==
    late \/ swept \/ reopens > 0 \/ acked \subseteq Content(spool) \union Content(store)

\* A spool file holds the chunks that were sent with one token, although
\* requests that were accepted before a registration are appended after it
\* (main.py:102-108, 337): until the session is finalized or swept, unless the
\* service was restarted from an outdated registry. Which recorder captured
\* them is another matter (OneRecorder).
SegmentsPure ==
    closing \/ reopens > 0 \/ outdated \/ swept
    \/ \A p \in Paths : \A c, d \in spool[p] : c[1] = d[1]

\* "Each browser reconnect (= a fresh MediaRecorder with a fresh WebM EBML
\* header) gets its own segment" (main.py:102-107), "produced by a single
\* MediaRecorder run" (web.py:2318): a spool file holds the chunks of one
\* recorder.
OneRecorder == \A p \in Paths : \A c, d \in spool[p] : c[2] = d[2]

\* A session does not stay in the retry queue: it is uploaded, given up after
\* its attempts, or dropped, crashes or not (main.py:458-495).
QueueDrains == attempts > 0 ~> attempts = 0

\* "Remove the successfully-uploaded segments from spool so a retry doesn't
\* double-upload" (main.py:450): an object never loses a chunk.
NeverOverwritten == [][\A p \in Paths : store[p] \subseteq store'[p]]_vars

\* "We never overwrite an old segment" (main.py:294), and a reopened session
\* keeps "the already-uploaded recording segments" (manager/proctor.py:262):
\* an object does not lose chunks to chunks sent with a later token, even
\* leaving aside chunks that arrive while the session is finalized.
SegmentsKept ==
    [][late' \/ \A p \in Paths :
          store[p] \subseteq store'[p] \/ \A c \in store[p], d \in store'[p] : d[1] <= c[1]]_vars

\* "Persistence is serialised" (main.py:97): when no write is under way the
\* registry file holds the session as it is in memory.
RegistrySaved == saves = {} => disk.entry = entry
==============================================================================
