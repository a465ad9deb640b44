----------------------------- MODULE ProctorPage -----------------------------
(***************************************************************************)
(* The in-exam page of a proctored contest (src/web/static/js/proctor.js):  *)
(* its buffer of events, the requests that carry them to the web server,    *)
(* the overlay that covers the exam, and the session, media and reconnect   *)
(* flows.  The upload of recorded chunks is in ChunkUploader.               *)
(*                                                                          *)
(* A page is single threaded: an action is what runs from one await, event  *)
(* or timer to the next.  An event is the number under which it was raised. *)
(* A request the page has given up may reach the server later.              *)
(***************************************************************************)
EXTENDS Naturals, FiniteSets, Sequences, SequencesExt

CONSTANTS
    MaxBatch,             \* events the server takes in one request (100)
    MaxTabSwitches,       \* config.max_tab_switches
    FullscreenRequired,   \* config.fullscreen_required
    RequireCamera,        \* config.require_camera
    MaxEvents,            \* bound: events raised
    MaxStray,             \* bound: requests handled although the page gave up
    MaxReloads            \* bound: reloads of the page

ASSUME PageAssumption ==
    /\ MaxBatch \in Nat \ {0}
    /\ {MaxTabSwitches, MaxEvents, MaxStray, MaxReloads} \subseteq Nat
    /\ {FullscreenRequired, RequireCamera} \subseteq BOOLEAN

VARIABLES
    raised,    \* the kinds of the events raised so far
    queue,     \* eventQueue
    batch,     \* the events of the flush under way; `flushing` is batch # <<>>
    timer,     \* flushTimer is set
    request,   \* the request under way: "none", "sent", "answered", or
               \* "nowhere" if the page did not know the session's URL
    answer,    \* tab_switch_count in the answer to it
    stray,     \* requests given up by the page that the server may still see
    strays,    \* how many there have been
    log,       \* the events in the database, in the order of their rows
    left,      \* events a page held when it was unloaded
    session,   \* the row of the session: "none", "active" or "ended"
    sid,       \* the page knows the id of the session
    token,     \* the page's chunk token: "none", "current" or "stale"
    stored,    \* the same for the token in sessionStorage
    overlay,   \* reason of the overlay, or "hidden"
    warned,    \* the over-limit warning has been shown
    boot,      \* what the start of the exam waits for
    granted,   \* the permissions have been granted to this page
    tracks,    \* what is being recorded
    asked,     \* a click on "fullscreen-required" waits for fullscreen
    fs,        \* the document is in fullscreen
    reconnect, \* what reconnectStreams is to reacquire, "none" if it does not run
    reloads

events == <<raised, queue, batch, timer, request, answer>>
server == <<stray, strays, log, left>>
account == <<session, sid, token, stored>>
screen == <<overlay, warned, boot, granted, tracks, asked, fs, reconnect>>
vars == <<events, server, account, screen, reloads>>

\* Losses of focus, visibility or fullscreen count as tab switches; they and
\* the other violations are flushed at once, the rest is not.
Kinds == {"switch", "violation", "info"}
Events == 1 .. MaxEvents
Overlays == {"gesture", "fullscreen", "screen", "camera", "overlimit", "hidden"}
Tracks == {"camera", "mic", "screen"}
Tokens == {"none", "current", "stale"}

TypeOK ==
    /\ raised \in Seq(Kinds) /\ Len(raised) <= MaxEvents
    /\ {queue, batch, log} \subseteq Seq(Events)
    /\ timer \in BOOLEAN
    /\ request \in {"none", "nowhere", "sent", "answered"}
    /\ request = "none" <=> batch = <<>>
    /\ answer \in Nat
    /\ stray \subseteq Seq(Events) /\ strays \in 0 .. MaxStray
    /\ left \subseteq Events
    /\ session \in {"none", "active", "ended"}
    /\ sid \in BOOLEAN /\ (sid => session # "none")
    /\ {token, stored} \subseteq Tokens
    /\ overlay \in Overlays /\ warned \in BOOLEAN
    /\ boot \in {"idle", "session", "media", "fullscreen"}
    /\ granted \in BOOLEAN /\ tracks \subseteq Tracks
    /\ {asked, fs} \subseteq BOOLEAN
    /\ reconnect \in {"none", "camera", "screen"}
    /\ reloads \in 0 .. MaxReloads

Init ==
    /\ raised = <<>> /\ queue = <<>> /\ batch = <<>> /\ timer = FALSE
    /\ request = "none" /\ answer = 0
    /\ stray = {} /\ strays = 0 /\ log = <<>> /\ left = {}
    /\ session = "none" /\ sid = FALSE /\ token = "none" /\ stored = "none"
    /\ overlay = "gesture" /\ warned = FALSE /\ boot = "idle"
    /\ granted = FALSE /\ tracks = {} /\ asked = FALSE /\ fs = FALSE
    /\ reconnect = "none"
    /\ reloads = 0

------------------------------------------------------------------------------
(***************************************************************************)
(* The event buffer.                                                        *)
(***************************************************************************)

\* flushEvents up to its fetch, with q in eventQueue.
FlushEvents(q) ==
    /\ timer' = FALSE
    /\ UNCHANGED answer
    /\ IF batch # <<>> \/ q = <<>>
       THEN queue' = q /\ UNCHANGED <<batch, request>>
       ELSE /\ queue' = <<>> /\ batch' = q
            /\ request' = IF sid THEN "sent" ELSE "nowhere"

\* queueEvent: the next event, of kind k, is pushed.
QueueEvent(k) ==
    /\ Len(raised) < MaxEvents
    /\ raised' = Append(raised, k)
    /\ LET q == Append(queue, Len(raised')) IN
       IF k # "info"
       THEN FlushEvents(q)
       ELSE queue' = q /\ timer' = TRUE /\ UNCHANGED <<batch, request, answer>>

\* The listeners on visibility, focus, keys and paste, and the events of the
\* uploader, of LiveKit and of the environment scrape.
Raise(k) ==
    /\ QueueEvent(k)
    /\ UNCHANGED <<server, account, screen, reloads>>

\* sendHeartbeat: an event, and a flush.
SendHeartbeat ==
    /\ Len(raised) < MaxEvents
    /\ raised' = Append(raised, "info")
    /\ FlushEvents(Append(queue, Len(raised')))
    /\ UNCHANGED <<server, account, screen, reloads>>

\* scheduleFlush's timer fires.
FlushTimer ==
    /\ timer
    /\ FlushEvents(queue)
    /\ UNCHANGED <<raised, server, account, screen, reloads>>

Switches(l) == Cardinality({i \in DOMAIN l : raised[l[i]] = "switch"})

\* The web server stores a batch (proctor_post_events): only for an active
\* session, and only if it is not too large.
Accepts(b) == session = "active" /\ Len(b) <= MaxBatch

HandleEvents ==
    /\ request = "sent" /\ Accepts(batch)
    /\ log' = log \o batch
    /\ request' = "answered"
    /\ answer' = Switches(log')
    /\ UNCHANGED <<raised, queue, batch, timer, stray, strays, left, account, screen, reloads>>

HandleStray(b) ==
    /\ Accepts(b)
    /\ stray' = stray \ {b}
    /\ log' = log \o b
    /\ UNCHANGED <<events, strays, left, account, screen, reloads>>

\* Mutant of FlushAnswered: only a failure schedules the next flush.
FlushAnsweredUnscheduled ==
    /\ request = "answered"
    /\ batch' = <<>> /\ request' = "none" /\ answer' = 0
    /\ UNCHANGED <<raised, queue, timer, server, account, screen, reloads>>

\* updateTabSwitchUi puts the over-limit warning over whatever is shown, at
\* most every 8 seconds.
UpdateTabSwitchUi(count) ==
    IF count > MaxTabSwitches
    THEN /\ overlay' \in IF warned THEN {overlay, "overlimit"} ELSE {"overlimit"}
         /\ warned' = TRUE
    ELSE UNCHANGED <<overlay, warned>>

\* The answer arrives; what was raised meanwhile is scheduled.
FlushAnswered ==
    /\ request = "answered"
    /\ batch' = <<>> /\ request' = "none" /\ answer' = 0
    /\ timer' = (timer \/ queue # <<>>)
    /\ UpdateTabSwitchUi(answer)
    /\ UNCHANGED <<raised, queue, server, account, boot, granted, tracks, asked, fs, reconnect, reloads>>

\* A request whose outcome the page does not learn is handled before or after
\* the page gives it up, or not at all.
GiveUp ==
    \/ request # "answered" /\ UNCHANGED <<stray, strays>>
    \/ /\ request \in {"sent", "answered"} /\ strays < MaxStray
       /\ strays' = strays + 1
       /\ stray' = IF request = "sent" THEN stray \union {batch} ELSE stray

\* Mutant of FlushFailed: the batch is not put back.
FlushFailedDropping ==
    /\ request # "none"
    /\ GiveUp
    /\ batch' = <<>> /\ request' = "none" /\ answer' = 0 /\ timer' = (timer \/ queue # <<>>)
    /\ UNCHANGED <<raised, queue, log, left, account, screen, reloads>>

\* Mutant of FlushFailed: the batch is put behind newer events.
FlushFailedPushing ==
    /\ request # "none"
    /\ GiveUp
    /\ queue' = queue \o batch
    /\ batch' = <<>> /\ request' = "none" /\ answer' = 0 /\ timer' = TRUE
    /\ UNCHANGED <<raised, log, left, account, screen, reloads>>

\* A refusal or a network error: the batch goes back to the front.
FlushFailed ==
    /\ request # "none"
    /\ GiveUp
    /\ queue' = batch \o queue
    /\ batch' = <<>> /\ request' = "none" /\ answer' = 0 /\ timer' = TRUE
    /\ UNCHANGED <<raised, log, left, account, screen, reloads>>

------------------------------------------------------------------------------
(***************************************************************************)
(* The overlay and what starts and restarts the recording.                  *)
(***************************************************************************)

\* The action of the "gesture-needed" overlay up to its first await.
ClickStart ==
    /\ overlay = "gesture" /\ boot = "idle"
    /\ boot' = "session"
    /\ UNCHANGED <<events, server, account, overlay, warned, granted, tracks, asked, fs, reconnect, reloads>>

\* Mutant of EnsureSession: a refusal of the server is not noticed.
EnsureSessionUnchecked ==
    /\ boot = "session"
    /\ boot' = "media"
    /\ sid' = TRUE /\ token' = "current" /\ stored' = "current"
    /\ session' \in {session, "active"}
    /\ UNCHANGED <<events, server, overlay, warned, granted, tracks, asked, fs, reconnect, reloads>>

\* ensureSession: with an id and a token there is nothing to do; otherwise
\* the server creates the session or rotates the token of the active one.
EnsureSession ==
    /\ boot = "session"
    /\ boot' = "media"
    /\ \/ /\ sid /\ token # "none"
          /\ UNCHANGED account
       \/ /\ ~ (sid /\ token # "none")
          /\ session # "ended"
          /\ session' = "active" /\ sid' = TRUE
          /\ token' = "current" /\ stored' = "current"
    /\ UNCHANGED <<events, server, overlay, warned, granted, tracks, asked, fs, reconnect, reloads>>

\* The permissions are granted and the recorders start.
MediaGranted ==
    /\ boot = "media"
    /\ granted' = TRUE /\ tracks' = Tracks
    /\ IF FullscreenRequired
       THEN boot' = "fullscreen" /\ UNCHANGED overlay
       ELSE boot' = "idle" /\ overlay' = "hidden"
    /\ UNCHANGED <<events, server, account, warned, asked, fs, reconnect, reloads>>

\* The environment check, the server or a permission says no, or the answer
\* of the server that has created the session is lost.
BootFails ==
    /\ boot \in {"session", "media"}
    /\ boot' = "idle"
    /\ \/ UNCHANGED session
       \/ boot = "session" /\ session = "none" /\ session' = "active"
    /\ UNCHANGED <<events, server, sid, token, stored, overlay, warned, granted, tracks, asked,
                   fs, reconnect, reloads>>

\* requestFullscreen settles, for the start of the exam or for a click on
\* "fullscreen-required"; a denial is swallowed, and either way the overlay
\* is hidden.
FullscreenSettles ==
    /\ boot = "fullscreen" \/ asked
    /\ \/ fs' = fs /\ UNCHANGED events
       \/ ~ fs /\ fs' = TRUE /\ QueueEvent("info")
    /\ overlay' = "hidden"
    /\ \/ boot = "fullscreen" /\ boot' = "idle" /\ UNCHANGED asked
       \/ asked /\ asked' = FALSE /\ UNCHANGED boot
    /\ UNCHANGED <<server, account, warned, granted, tracks, reconnect, reloads>>

ClickFullscreen ==
    /\ overlay = "fullscreen"
    /\ asked' = TRUE
    /\ UNCHANGED <<events, server, account, overlay, warned, boot, granted, tracks, fs, reconnect, reloads>>

\* fullscreenchange on leaving.
FullscreenLeft ==
    /\ fs
    /\ fs' = FALSE
    /\ QueueEvent("switch")
    /\ overlay' = IF FullscreenRequired THEN "fullscreen" ELSE overlay
    /\ UNCHANGED <<server, account, warned, boot, granted, tracks, asked, reconnect, reloads>>

ClickOverLimit ==
    /\ overlay = "overlimit"
    /\ overlay' = "hidden"
    /\ UNCHANGED <<events, server, account, warned, boot, granted, tracks, asked, fs, reconnect, reloads>>

\* `ended` of a track of the screen stream.
ScreenEnded ==
    /\ "screen" \in tracks
    /\ tracks' = tracks \ {"screen"}
    /\ QueueEvent("violation")
    /\ overlay' = "screen"
    /\ UNCHANGED <<server, account, warned, boot, granted, asked, fs, reconnect, reloads>>

\* The action of "screen-stopped": nothing more happens if a reconnect runs.
ClickScreen ==
    /\ overlay = "screen"
    /\ overlay' = "hidden"
    /\ reconnect' = IF reconnect = "none" THEN "screen" ELSE reconnect
    /\ UNCHANGED <<events, server, account, warned, boot, granted, tracks, asked, fs, reloads>>

\* "camera-stopped" is shown after a reconnect that leaves the camera dead.
CameraOverlay(live) ==
    overlay' = IF "camera" \notin live /\ RequireCamera THEN "camera" ELSE overlay

\* `ended` of a track t of the camera stream; a reconnect that runs already
\* makes the new one return at once.
CameraEnded(t) ==
    /\ t \in tracks
    /\ tracks' = tracks \ {t}
    /\ QueueEvent("info")
    /\ IF reconnect = "none"
       THEN reconnect' = "camera" /\ UNCHANGED overlay
       ELSE CameraOverlay(tracks') /\ UNCHANGED reconnect
    /\ UNCHANGED <<server, account, warned, boot, granted, asked, fs, reloads>>

\* reconnectStreams. The server is asked for a new token; if it gives one the
\* page takes it and then fails on the undeclared TOKEN_KEY before it stops a
\* recorder or opens a device, so every outcome ends in the handler; the
\* token is rotated even if the answer is lost.
ReconnectStreams ==
    /\ reconnect # "none"
    /\ \/ /\ session = "active"
          /\ token' \in {"current", "stale"}
          /\ stored' = IF stored = "none" THEN "none" ELSE "stale"
       \/ UNCHANGED <<token, stored>>
    /\ QueueEvent("violation")
    /\ reconnect' = "none"
    /\ IF reconnect = "camera" THEN CameraOverlay(tracks) ELSE UNCHANGED overlay
    /\ UNCHANGED <<server, session, sid, warned, boot, granted, tracks, asked, fs, reloads>>

------------------------------------------------------------------------------
(***************************************************************************)
(* The page and the session.                                                *)
(***************************************************************************)

\* The student leaves or reloads the page. The pagehide handler puts what
\* eventQueue holds in a beacon and empties it; without the header that
\* check_csrf asks for the beacon is refused. The new page finds the id of an
\* active session in its boot data and the token in sessionStorage, which a
\* new window does not share.
Reload ==
    /\ reloads < MaxReloads /\ session # "ended"
    /\ Len(raised) < MaxEvents
    /\ raised' = Append(raised, "info")
    /\ GiveUp
    /\ left' = left \union Range(batch) \union Range(queue) \union {Len(raised')}
    /\ queue' = <<>> /\ batch' = <<>> /\ timer' = FALSE
    /\ request' = "none" /\ answer' = 0
    /\ sid' = (session = "active")
    /\ \/ UNCHANGED stored
       \/ stored' = "none"
    /\ token' = IF sid' THEN stored' ELSE "none"
    /\ overlay' = "gesture" /\ warned' = (Switches(log) > MaxTabSwitches)
    /\ boot' = "idle" /\ granted' = FALSE /\ tracks' = {} /\ asked' = FALSE
    /\ fs' = FALSE /\ reconnect' = "none"
    /\ reloads' = reloads + 1
    /\ UNCHANGED <<log, session>>

\* The session is ended by the student or by an administrator.
EndSession ==
    /\ session = "active"
    /\ session' = "ended"
    /\ UNCHANGED <<events, server, sid, token, stored, screen, reloads>>

Buffer == (\E k \in Kinds : Raise(k)) \/ SendHeartbeat \/ FlushTimer
    \/ HandleEvents \/ (\E b \in stray : HandleStray(b)) \/ FlushAnswered \/ FlushFailed

Overlay == ClickStart \/ EnsureSession \/ MediaGranted \/ BootFails
    \/ FullscreenSettles \/ ClickFullscreen \/ FullscreenLeft \/ ClickOverLimit
    \/ ScreenEnded \/ ClickScreen \/ ReconnectStreams
    \/ \E t \in {"camera", "mic"} : CameraEnded(t)

Next == Buffer \/ Overlay \/ Reload \/ EndSession

\* Timers fire and requests end; a page that keeps posting is heard in the end.
Fairness ==
    /\ WF_vars(FlushTimer)
    /\ WF_vars(FlushAnswered \/ FlushFailed)
    /\ SF_vars(HandleEvents)

Safety == Init /\ [][Next]_vars
Spec == Safety /\ Fairness

------------------------------------------------------------------------------
(***************************************************************************)
(* Properties.                                                              *)
(***************************************************************************)

Raised == 1 .. Len(raised)
Known == Range(log) \union left

\* Every event raised is in the database, or the page still holds it, or the
\* page was unloaded with it: refusals, lost answers and flushes that overlap
\* new events lose nothing (proctor.js:91-119).
NothingDropped == \A e \in Raised : e \in Known \union Range(queue) \union Range(batch)

\* The log of the session tells events in the order they happened: an event
\* is stored after all that were raised before it, unless a page took those
\* with it, although failed batches are sent again (proctor.js:111,114).
InOrder ==
    \A j \in DOMAIN log :
        \A e \in 1 .. log[j] - 1 : e \in left \/ \E i \in 1 .. j : log[i] = e

\* An event reaches the log, or its page is unloaded, if the session stays
\* active and the page never holds more events than the server takes at
\* once: a larger batch is refused each time it is sent (web.py:1647).
EventsArrive ==
    /\ <>[](session = "active" /\ sid)
    /\ [](Len(queue) + Len(batch) <= MaxBatch)
    => \A e \in Events : e \in Raised ~> e \in Known

\* "Show a "click to start" modal that gates the rest until the user grants
\* camera / screen permissions" (proctor.js:13-14).
Gate == overlay = "hidden" => granted

\* "Mutable so we can rotate during a device-reacquire flow without forcing
\* the student to leave the exam page" (proctor.js:54-55): what is recorded
\* carries the token the service knows.
TokenCurrent == tracks # {} /\ session = "active" => token = "current"
==============================================================================
