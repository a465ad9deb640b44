-------------------------------- MODULE Ide ---------------------------------
(***************************************************************************)
(* The problem IDE of the web page: the editor, the code kept per language  *)
(* in localStorage (src/web/static/js/problem_ide.js) and one language      *)
(* server client per language (src/web/static/js/lsp-monaco.js).            *)
(*                                                                          *)
(* All languages share one editor model.  The document is handed from one   *)
(* server to the other when the language changes, while a server may still  *)
(* be starting and while messages to and from its worker are in flight.     *)
(* Handlers run to completion, so each is one action.  The servers are      *)
(* external: they take messages in order, publish the diagnostics of every  *)
(* version they are given and, when ClearsOnClose, an empty list on close.  *)
(***************************************************************************)
EXTENDS Naturals, Sequences

CONSTANTS
    Langs,          \* languages of the problem
    Available,      \* those whose server this browser and deployment can run
    Bodies,         \* code only a student writes
    Marked,         \* that of it in which a STALE_MARKERS line was left
    Starters,       \* starter codes an author writes
    Empty, Stale,   \* the empty text; what an older importer wrote
    None,           \* null
    StorageWorks,   \* localStorage.setItem does not throw
    ClearsOnClose,  \* a server publishes no diagnostics for a closed document
    MaxActs,        \* bound: edits and changes of the language
    MaxLoads        \* bound: page loads

ASSUME LangsAssumption == Langs # {} /\ Available \subseteq Langs
\* A student's code is told from what an author, an importer or nobody wrote.
ASSUME TextsAssumption ==
    /\ Bodies # {} /\ Starters # {} /\ Marked \subseteq Bodies
    /\ Bodies \cap (Starters \cup {Empty, Stale, None}) = {}
ASSUME BooleanAssumption == {StorageWorks, ClearsOnClose} \subseteq BOOLEAN

VARIABLES
    saved, seed,    \* localStorage: code and seed per language
    page,           \* "away", "loading" (no editor yet) or "editing"
    starter,        \* CFG.starterCode of the loaded page
    currentLang,
    text,           \* the value of the editor
    client,         \* the LspMonaco clients, with the markers they set
    server,         \* document of each server and messages to the page
    work,           \* history: what the student typed last, per language
    acts, loads

storage == <<saved, seed>>
editor == <<page, starter, currentLang, text>>
lsp == <<client, server>>
counters == <<acts, loads>>
vars == <<storage, editor, lsp, work, counters>>

Texts == Bodies \cup Starters \cup {Empty, Stale}
Closed == [open |-> FALSE, version |-> 0, text |-> None]
NewClient(b) == [boot |-> b, opened |-> FALSE, docVersion |-> 0,
                 lastSentText |-> None, toServer |-> <<>>, markers |-> None]
EarlierBody == CHOOSE b \in Bodies : TRUE
\* Values of the page's variables while no page is loaded.
AnyLang == CHOOSE l \in Langs : TRUE
NoPage == [l \in Langs |-> CHOOSE s \in Starters : TRUE]
NewServer == [doc |-> Closed, toPage |-> <<>>]

Docs == [open : BOOLEAN, version : Nat, text : Texts \cup {None}]
Messages == [type : {"open", "change", "close"}, version : Nat, text : Texts \cup {None}]
Clients == [boot : {"off", "starting", "ready"}, opened : BOOLEAN, docVersion : Nat,
            lastSentText : Texts \cup {None}, toServer : Seq(Messages),
            markers : Texts \cup {None}]

TypeOK ==
    /\ saved \in [Langs -> Texts \cup {None}]
    /\ seed \in [Langs -> Starters \cup {None}]
    /\ page \in {"away", "loading", "editing"}
    /\ starter \in [Langs -> Starters]
    /\ currentLang \in Langs
    /\ text \in Texts
    /\ client \in [Langs -> Clients]
    /\ server \in [Langs -> [doc : Docs, toPage : Seq(Texts \cup {None})]]
    /\ work \in [Langs -> Texts \cup {None}]

\* Per language, a browser that never opened the problem, that keeps what an
\* older importer wrote, or that has a student's code from before seeds.
Init ==
    /\ saved \in [Langs -> {None, Stale, EarlierBody}]
    /\ seed = [l \in Langs |-> None]
    /\ page = "away"
    /\ starter = NoPage
    /\ currentLang = AnyLang
    /\ text = Empty
    /\ client = [l \in Langs |-> NewClient("off")]
    /\ server = [l \in Langs |-> NewServer]
    /\ work = [l \in Langs |-> IF saved[l] \in Bodies THEN saved[l] ELSE None]
    /\ acts = 0 /\ loads = 0

------------------------------------------------------------------------------
(***************************************************************************)
(* The language server client: document synchronisation.                    *)
(***************************************************************************)

isReady(c) == c.boot = "ready"
Notify(c, m) == [c EXCEPT !.toServer = Append(@, m)]
Message(type, version, t) == [type |-> type, version |-> version, text |-> t]

didChange(c, t) ==
    IF ~isReady(c) \/ ~c.opened \/ t = c.lastSentText THEN c
    ELSE Notify([c EXCEPT !.lastSentText = t, !.docVersion = @ + 1],
                Message("change", c.docVersion + 1, t))

didOpen(c, t) ==
    IF ~isReady(c) THEN c
    ELSE IF c.opened THEN didChange(c, t)
    ELSE Notify([c EXCEPT !.opened = TRUE, !.docVersion = 1, !.lastSentText = t],
                Message("open", 1, t))

\* Mutant of didClose: the server is not told.
didCloseSilently(c) ==
    IF ~isReady(c) \/ ~c.opened THEN c
    ELSE [c EXCEPT !.opened = FALSE, !.lastSentText = None, !.markers = None]

\* clearDiagnostics empties the markers of this client.
didClose(c) ==
    IF ~isReady(c) \/ ~c.opened THEN c
    ELSE Notify([c EXCEPT !.opened = FALSE, !.lastSentText = None, !.markers = None],
                Message("close", 0, None))

------------------------------------------------------------------------------
(***************************************************************************)
(* The code kept per language.                                              *)
(***************************************************************************)

Put(store, lang, t) == IF StorageWorks THEN [store EXCEPT ![lang] = t] ELSE store

looksStaleAutoGenerated(t) == t = Stale \/ t \in Marked

\* loadCode seeds: nothing saved, a text with a marker, whoever wrote the rest of
\* it, or the code is the seed it was given and the starter has changed since.
TakesStarter(lang) ==
    \/ saved[lang] \in {None, Empty}
    \/ looksStaleAutoGenerated(saved[lang])
    \/ seed[lang] # None /\ saved[lang] = seed[lang] /\ starter[lang] # seed[lang]

loadCode(lang) == IF TakesStarter(lang) THEN starter[lang] ELSE saved[lang]

\* What loadCode writes back.
Seeded(store, lang) ==
    IF TakesStarter(lang) THEN Put(store, lang, starter[lang]) ELSE store

------------------------------------------------------------------------------
(***************************************************************************)
(* The page and the student.                                                *)
(***************************************************************************)

\* The page is served with the starters of this moment; the language is the
\* option of the select, which a browser may restore.
Load ==
    /\ page = "away"
    /\ loads < MaxLoads
    /\ page' = "loading"
    /\ \E s \in [Langs -> Starters] : starter' = s
    /\ \E l \in Langs : currentLang' = l
    /\ loads' = loads + 1
    /\ UNCHANGED <<storage, text, lsp, work, acts>>

\* setupLsp: a language has no client where its server is not available.
\* The handshake of the worker up to the answer of `initialize` is one state.
setupLsp ==
    /\ client' = [l \in Langs |-> NewClient(IF l \in Available THEN "starting" ELSE "off")]
    /\ server' = [l \in Langs |-> NewServer]

\* Monaco is loaded: the editor is created with the code of the language.
CreateEditor ==
    /\ page = "loading"
    /\ page' = "editing"
    /\ text' = loadCode(currentLang)
    /\ saved' = Seeded(saved, currentLang)
    /\ seed' = Seeded(seed, currentLang)
    /\ setupLsp
    /\ UNCHANGED <<starter, currentLang, work, counters>>

\* The student changes the text: saved, and sent to the server that has it.
Edit(t) ==
    /\ page = "editing"
    /\ t # text
    /\ acts < MaxActs
    /\ text' = t
    /\ saved' = Put(saved, currentLang, t)
    /\ client' = [client EXCEPT ![currentLang] = didChange(@, t)]
    /\ work' = [work EXCEPT ![currentLang] = t]
    /\ acts' = acts + 1
    /\ UNCHANGED <<seed, page, starter, currentLang, server, loads>>

\* saveCode: localStorage after it.
Saved == Put(saved, currentLang, text)

\* Mutant of applyLanguage: currentLang is assigned last, so the handler of
\* setValue saves the new text under the old language.
applyLanguageLate(lang) ==
    /\ text' = loadCode(lang)
    /\ saved' = Put(Seeded(Saved, lang), currentLang, text')
    /\ seed' = Seeded(seed, lang)
    /\ client' = [client EXCEPT ![currentLang] = didClose(@),
                                ![lang] = didOpen(@, text')]

\* After saveCode the document goes from one server to the other; setValue
\* fires the content handler, which saves under the new language and calls
\* didChange.
applyLanguage(lang) ==
    /\ text' = loadCode(lang)
    /\ saved' = Put(Seeded(Saved, lang), lang, text')
    /\ seed' = Seeded(seed, lang)
    /\ client' = [client EXCEPT ![currentLang] = didClose(@),
                                ![lang] = didOpen(didChange(@, text'), text')]

\* The change event of the select: saveCode, then applyLanguage.
SwitchLanguage(lang) ==
    /\ page = "editing"
    /\ lang # currentLang
    /\ acts < MaxActs
    /\ currentLang' = lang
    /\ applyLanguage(lang)
    /\ acts' = acts + 1
    /\ UNCHANGED <<page, starter, server, work, loads>>

\* The same event before the editor exists.
SwitchEarly(lang) ==
    /\ page = "loading"
    /\ lang # currentLang
    /\ acts < MaxActs
    /\ currentLang' = lang
    /\ acts' = acts + 1
    /\ UNCHANGED <<storage, page, starter, text, lsp, work, loads>>

\* The page is left: its workers, timers and requests end with it.
Gone ==
    /\ page' = "away"
    /\ starter' = NoPage
    /\ currentLang' = AnyLang
    /\ text' = Empty
    /\ client' = [l \in Langs |-> NewClient("off")]
    /\ server' = [l \in Langs |-> NewServer]
    /\ UNCHANGED <<seed, work, counters>>

\* Submitting posts the form and leaves the page; an empty text is refused.
Submit ==
    /\ page = "editing"
    /\ text # Empty
    /\ saved' = Saved
    /\ Gone

Leave ==
    /\ page # "away"
    /\ Gone
    /\ UNCHANGED saved

------------------------------------------------------------------------------
(***************************************************************************)
(* Start of a language server.                                              *)
(***************************************************************************)

\* Mutant of onReady: the document is opened whatever the language is.
onReadyAnyLanguage(lang) ==
    client' = [client EXCEPT ![lang] = didOpen([@ EXCEPT !.boot = "ready"], text)]

onReady(lang) ==
    LET c == [client[lang] EXCEPT !.boot = "ready"] IN
    client' = [client EXCEPT ![lang] = IF currentLang = lang THEN didOpen(c, text) ELSE c]

\* `initialize` is answered. An error reported before (the 240 s timer, the
\* worker's) only changes the indicator, so the answer may come at any time.
Initialized(lang) ==
    /\ client[lang].boot = "starting"
    /\ onReady(lang)
    /\ UNCHANGED <<storage, editor, server, work, counters>>

------------------------------------------------------------------------------
(***************************************************************************)
(* The servers (external) and what they publish.                            *)
(***************************************************************************)

Bad == [open |-> TRUE, version |-> 0, text |-> Stale]

\* A server's document after a message, Bad when the protocol forbids it.
Receive(doc, m) ==
    CASE m.type = "open" /\ ~doc.open ->
            [open |-> TRUE, version |-> m.version, text |-> m.text]
      [] m.type = "change" /\ doc.open /\ m.version > doc.version ->
            [open |-> TRUE, version |-> m.version, text |-> m.text]
      [] m.type = "close" /\ doc.open -> Closed
      [] OTHER -> Bad

Publishes(m) == IF m.type # "close" THEN <<m.text>>
                ELSE IF ClearsOnClose THEN <<None>> ELSE <<>>

\* The document of a server once it has taken the messages of q.
ReceiveAll(doc, q) ==
    LET after[i \in 0..Len(q)] == IF i = 0 THEN doc ELSE Receive(after[i - 1], q[i])
    IN  after[Len(q)]

ServerStep(lang) ==
    /\ client[lang].toServer # <<>>
    /\ LET m == Head(client[lang].toServer) IN
       server' = [server EXCEPT ![lang].doc = Receive(@, m),
                                ![lang].toPage = @ \o Publishes(m)]
    /\ client' = [client EXCEPT ![lang].toServer = Tail(@)]
    /\ UNCHANGED <<storage, editor, work, counters>>

\* Neither the version nor whether the document is still open is looked at.
applyDiagnostics(lang) ==
    /\ server[lang].toPage # <<>>
    /\ client' = [client EXCEPT ![lang].markers = Head(server[lang].toPage)]
    /\ server' = [server EXCEPT ![lang].toPage = Tail(@)]
    /\ UNCHANGED <<storage, editor, work, counters>>

------------------------------------------------------------------------------
Student ==
    \/ Load
    \/ CreateEditor
    \/ \E t \in Texts : Edit(t)
    \/ \E l \in Langs : SwitchLanguage(l) \/ SwitchEarly(l)
    \/ Submit \/ Leave

Next ==
    \/ Student
    \/ \E l \in Langs :
          \/ Initialized(l)
          \/ ServerStep(l) \/ applyDiagnostics(l)

Safety == Init /\ [][Next]_vars

\* A worker and the event loop of the page handle every message in the end.
\* The student may stop at any time and a server may never be ready.
Fairness == \A l \in Langs : WF_vars(ServerStep(l)) /\ WF_vars(applyDiagnostics(l))

Spec == Safety /\ Fairness

------------------------------------------------------------------------------
(***************************************************************************)
(* Properties.                                                              *)
(***************************************************************************)

Kept(l) ==
    /\ saved[l] = work[l]
    /\ page = "editing" /\ currentLang = l => text = work[l]

\* Code a student typed in a language is what localStorage has for it and what
\* the editor shows of it, across edits, switches of language, reloads,
\* submissions and new starters (problem_ide.js:313-374, "Student has typed
\* something custom - preserve their work"), unless a marker was left in it.
WorkKept == \A l \in Langs : work[l] \in Bodies \ Marked => Kept(l)

\* Violated: so is code a student wrote around or below a marker line (STALE_MARKERS,
\* "the saved value is auto-generated junk (not a student edit)"): loadCode puts
\* the starter in its place.
MarkedKept == \A l \in Langs : work[l] \in Marked => Kept(l)

\* Once a server has taken what was posted to it, the server of the current
\* language has exactly the text of the editor and every other has no open
\* document; on the way no message breaks the protocol: open twice, change or
\* close of a closed document, a version that does not grow
\* (lsp-monaco.js:132-160, problem_ide.js:360-374 and 420-426).
Synced ==
    \A l \in Langs :
        ReceiveAll(server[l].doc, client[l].toServer) =
            IF l = currentLang /\ isReady(client[l])
            THEN [open |-> TRUE, version |-> client[l].docVersion, text |-> text]
            ELSE Closed

Settled ==
    \A l \in Langs :
        client[l].markers = IF l = currentLang /\ isReady(client[l]) THEN text ELSE None

\* When the student stops, the markers end up being the diagnostics of the
\* text in the editor by the server of its language and of no other, although
\* late diagnostics of a closed document are applied (lsp-monaco.js:109-129).
MarkersSettle == <>[]Settled

\* Violated: markers of a language are shown only while it is current.
MarkersOfCurrent ==
    \A l \in Langs : l # currentLang => client[l].markers = None
=============================================================================
