---------------------------- MODULE ProctorProofs ----------------------------
(***************************************************************************)
(* Proofs about Proctor, for any kinds, tokens, chunks, attempts and        *)
(* numbers of faults.                                                       *)
(*                                                                          *)
(* AckedKept is not inductive.  An upload may replace an object and the     *)
(* last one of a kind removes the files of all its segments, so the         *)
(* invariant says what each run of _do_finalize has secured so far          *)
(* (Faithful), and that only one of the two finalizers is running (Once):   *)
(* the retry queue is empty until the handler of the one finalize request   *)
(* has returned.                                                            *)
(***************************************************************************)
EXTENDS Proctor, FiniteSetTheorems, TLAPS

\* The entries of the session that the service has or may get back.
Known == {entry, disk.entry} \union saves

\* Every registration consumes a request, so segments do not run out.
Counted(e) == e = None \/ e.segment + 1 + Cardinality(registers) <= issued

Registry ==
    /\ issued \in 0 .. MaxTokens
    /\ registers \subseteq 1 .. issued
    /\ entry \in Entries
    /\ disk \in [entry : Entries, attempts : 0 .. MaxAttempts]
    /\ saves \subseteq Entries
    /\ \A e \in Known : Counted(e)

\* The first start and every reload give the page at most one recorder, and a
\* page with a token has one.
PageTypes ==
    /\ page \in [token : 0 .. issued, stored : 0 .. issued, recorder : 0 .. faults + 1]
    /\ page.token = 0 => page.recorder <= faults
    /\ page.token # 0 => page.recorder > 0 /\ page.stored # 0

FileTypes ==
    /\ handlers \subseteq [chunk : Chunks, path : Paths]
    /\ accepted \in 0 .. MaxChunks
    /\ acked \subseteq Chunks
    /\ spool \in [Paths -> SUBSET Chunks]
    /\ store \in [Paths -> SUBSET Chunks]

FinRecords ==
    [pc : {"idle", "upload", "uploading", "cleanup"}, todo : SUBSET Paths,
     now : SUBSET Paths, sent : SUBSET Chunks, failed : SUBSET Kinds,
     listed : SUBSET Paths]

\* One file at a time is being uploaded.
Uploads(F) ==
    /\ F.todo \subseteq F.listed
    /\ F.now = {} \/ (F.pc = "uploading" /\ \E p \in F.listed : F.now = {p})

FinTypes ==
    /\ fin \in [Finalizers -> FinRecords]
    /\ \A f \in Finalizers : Uploads(fin[f])

OtherTypes ==
    /\ row \in {"none", "active", "ended"}
    /\ ending \in {"no", "sent", "waiting"}
    /\ attempts \in 0 .. MaxAttempts /\ orphan \in 0 .. MaxAttempts
    /\ sweep \in {"no", "listed", "cleaned"}
    /\ closing \in BOOLEAN /\ late \in BOOLEAN /\ outdated \in BOOLEAN /\ swept \in BOOLEAN
    /\ reopens \in 0 .. MaxFaults /\ faults \in 0 .. MaxFaults

\* What the sweeper is about to remove is remembered.
Sweeping == sweep # "no" => swept

Types == Registry /\ PageTypes /\ FileTypes /\ FinTypes /\ OtherTypes /\ Sweeping

\* Until the session is reopened one finalize request is handled: before it
\* nothing is finalized or queued, and the queue is empty while its handler runs.
Once ==
    reopens = 0 =>
       /\ closing => (ending = "waiting" \/ (ending = "no" /\ row = "ended"))
       /\ ~closing => /\ attempts = 0 /\ disk.attempts = 0
                      /\ \A f \in Finalizers : fin[f].pc = "idle"
       /\ fin["handler"].pc # "idle" =>
             (attempts = 0 /\ disk.attempts = 0 /\ fin["retry"].pc = "idle")

\* What a run of _do_finalize has secured: files it did not list are empty,
\* files it has dealt with are in their object unless their kind failed, and
\* what it is uploading is the whole file.
Faithful(F) ==
    /\ \A p \in Paths \ F.listed : spool[p] = {}
    /\ \A p \in F.listed \ (F.todo \union F.now) :
          p[1] \in F.failed \/ spool[p] \subseteq store[p]
    /\ \A p \in F.now : F.sent = spool[p] /\ spool[p] # {}

\* The condition under which AckedKept promises anything.
Undisturbed == ~late /\ ~swept /\ reopens = 0

Secured ==
    /\ acked \subseteq Content(spool) \union Content(store)
    /\ \A p \in Paths : spool[p] = {} \/ store[p] \subseteq spool[p]
    /\ closing \/ \A p \in Paths : store[p] = {}
    /\ \A f \in Finalizers : fin[f].pc \in {"upload", "uploading"} => Faithful(fin[f])

Kept == Undisturbed => Secured

\* A chunk sent with token t is in a file of segment s, or on its way to one.
From(s, t) == \/ \E p \in Paths : p[2] = s /\ \E c \in spool[p] : c[1] = t
              \/ \E h \in handlers : h.path[2] = s /\ h.chunk[1] = t

\* No segment beyond the entry's is in use, what is in the entry's was sent with
\* its token, and what is in any other with one token.
Owned ==
    \A s \in Segments, t \in 1 .. MaxTokens :
        From(s, t) =>
           /\ entry # None /\ s <= entry.segment
           /\ s = entry.segment => t = entry.token
           /\ \A u \in 1 .. MaxTokens : From(s, u) => t = u

Pure == (~closing /\ reopens = 0 /\ ~outdated /\ ~swept) => Owned

Inv == Types /\ Once /\ Kept /\ Pure

------------------------------------------------------------------------------
(***************************************************************************)
(* The registry: tokens, segments and snapshots.                            *)
(***************************************************************************)

LEMMA Constants ==
    /\ MaxAttempts \in Nat /\ MaxAttempts > 0
    /\ MaxTokens \in Nat /\ MaxTokens > 0
    /\ MaxChunks \in Nat /\ MaxFaults \in Nat
    /\ None \in Entries
<1>1. /\ MaxAttempts \in Nat /\ MaxAttempts > 0
      /\ MaxTokens \in Nat /\ MaxTokens > 0
      /\ MaxChunks \in Nat /\ MaxFaults \in Nat
  BY ProctorAssumption
<1> QED
  BY <1>1 DEF None, Entries, Segments

\* Some registrations are at most all of them.
LEMMA CountRegisters ==
    ASSUME NEW n \in Nat, NEW S, S \subseteq 1 .. n
    PROVE  IsFiniteSet(S) /\ Cardinality(S) \in Nat /\ Cardinality(S) <= n
<1>1. IsFiniteSet(1 .. n) /\ Cardinality(1 .. n) = n
  <2>1. IsFiniteSet(1 .. n) /\ Cardinality(1 .. n) = IF 1 > n THEN 0 ELSE n - 1 + 1
    BY FS_Interval
  <2> QED
    BY <2>1
<1>2. IsFiniteSet(S) /\ Cardinality(S) <= Cardinality(1 .. n)
  BY <1>1, FS_Subset
<1> QED
  BY <1>1, <1>2, FS_CardinalityType

LEMMA RegistersFinite ==
    ASSUME Registry
    PROVE  /\ issued \in Nat /\ issued <= MaxTokens
           /\ IsFiniteSet(registers) /\ Cardinality(registers) \in Nat
           /\ Cardinality(registers) <= issued
<1>1. issued \in Nat /\ issued <= MaxTokens /\ registers \subseteq 1 .. issued
  BY Constants DEF Registry
<1> QED
  BY <1>1, CountRegisters

\* A request less leaves room for a segment more.
LEMMA RegisterConsumed ==
    ASSUME Registry, NEW t \in registers, registers' = registers \ {t}
    PROVE  /\ IsFiniteSet(registers') /\ Cardinality(registers') \in Nat
           /\ Cardinality(registers) = Cardinality(registers') + 1
<1>1. IsFiniteSet(registers) /\ Cardinality(registers) \in Nat
  BY RegistersFinite
<1>2. /\ IsFiniteSet(registers \ {t})
      /\ Cardinality(registers \ {t}) = Cardinality(registers) - 1
  BY <1>1, FS_RemoveElement
<1>3. Cardinality(registers \ {t}) \in Nat
  BY <1>2, FS_CardinalityType
<1> QED
  BY <1>1, <1>2, <1>3

\* Entries that were known, or none, stay within their segments as long as
\* no request is handled without being consumed.
LEMMA RegistryKept ==
    ASSUME Registry, issued' \in 0 .. MaxTokens, registers' \subseteq 1 .. issued',
           disk' \in [entry : Entries, attempts : 0 .. MaxAttempts],
           Known' \subseteq Known \union {None},
           Cardinality(registers') + issued <= Cardinality(registers) + issued'
    PROVE  Registry'
<1>1. Known \subseteq Entries
  BY DEF Registry, Known
<1>2. Known' \subseteq Entries
  BY <1>1, Constants
<1>3. entry' \in Entries /\ saves' \subseteq Entries
  BY <1>2 DEF Known
<1>4. issued' \in Nat /\ Cardinality(registers') \in Nat
  <2>1. issued' \in Nat
    BY Constants
  <2> QED
    BY <2>1, CountRegisters
<1>5. ASSUME NEW e \in Known' PROVE Counted(e)'
  <2>1. CASE e = None
    BY <2>1 DEF Counted
  <2>2. CASE e # None
    <3>1. e \in Known /\ e \in Entries /\ Counted(e)
      BY <1>1, <2>2 DEF Registry
    <3>2. e.segment \in Nat
      BY <3>1 DEF Entries, Segments
    <3>3. e.segment + 1 + Cardinality(registers) <= issued
      BY <2>2, <3>1 DEF Counted
    <3>4. e.segment + 1 + Cardinality(registers') <= issued'
      BY <1>4, <3>2, <3>3, RegistersFinite
    <3> QED
      BY <3>4 DEF Counted
  <2> QED
    BY <2>1, <2>2
<1> QED
  BY <1>3, <1>5 DEF Registry

LEMMA HandleRegisterRegistry ==
    ASSUME Registry, NEW t \in registers, HandleRegister(t)
    PROVE  Registry'
<1>1. /\ registers' = registers \ {t} /\ UNCHANGED <<issued, disk>>
      /\ entry' = [token |-> t, segment |-> IF entry = None THEN 0 ELSE entry.segment + 1]
      /\ saves' = saves \union {entry'}
  BY DEF HandleRegister, Save
<1>2. /\ Cardinality(registers') \in Nat
      /\ Cardinality(registers) = Cardinality(registers') + 1
  BY <1>1, RegisterConsumed
<1>3. /\ issued \in Nat /\ issued <= MaxTokens /\ t \in 0 .. MaxTokens
      /\ Cardinality(registers) <= issued
  BY RegistersFinite, Constants DEF Registry
<1>4. entry \in Entries /\ Counted(entry)
  BY DEF Registry, Known
<1>5. entry'.segment \in Nat /\ entry'.segment + 1 + Cardinality(registers') <= issued
  BY <1>1, <1>2, <1>3, <1>4 DEF Counted, Entries, Segments
<1>6. entry'.segment \in Segments
  BY <1>2, <1>3, <1>5, Constants DEF Segments
<1>7. entry' \in Entries
  BY <1>1, <1>3, <1>6 DEF Entries
<1>8. ASSUME NEW e \in Known' PROVE Counted(e)'
  <2>1. CASE e = entry'
    BY <1>1, <1>5, <2>1 DEF Counted
  <2>2. CASE e # entry'
    <3>1. e \in Known
      BY <1>1, <2>2 DEF Known
    <3>2. e \in Entries /\ Counted(e)
      BY <3>1 DEF Registry, Known
    <3> QED
      BY <1>1, <1>2, <1>3, <3>2 DEF Counted, Entries, Segments
  <2> QED
    BY <2>1, <2>2
<1> QED
  BY <1>1, <1>7, <1>8 DEF Registry

LEMMA RegistryStep == Registry /\ OtherTypes /\ [Next]_vars => Registry'
<1> SUFFICES ASSUME Registry, OtherTypes, [Next]_vars PROVE Registry'
  OBVIOUS
<1>0. /\ issued \in 0 .. MaxTokens /\ registers \subseteq 1 .. issued /\ issued \in Nat
      /\ disk \in [entry : Entries, attempts : 0 .. MaxAttempts]
      /\ Cardinality(registers) \in Nat
  BY RegistersFinite DEF Registry
<1>1. CASE UNCHANGED <<issued, registers, disk, entry, saves>>
  BY <1>1 DEF Registry, Known, Counted
<1>2. ASSUME UNCHANGED <<issued, registers>>, Known' \subseteq Known \union {None},
             disk' \in [entry : Entries, attempts : 0 .. MaxAttempts]
      PROVE  Registry'
  <2>1. Cardinality(registers') + issued <= Cardinality(registers) + issued'
    BY <1>0, <1>2
  <2> QED
    BY <1>0, <1>2, <2>1, RegistryKept
<1>3. CASE NewToken
  <2>1. /\ issued' = issued + 1 /\ registers' = registers \union {issued + 1}
        /\ issued < MaxTokens /\ UNCHANGED <<entry, disk, saves>>
    BY <1>3 DEF NewToken, memory
  <2>2. issued' \in 0 .. MaxTokens /\ registers' \subseteq 1 .. issued'
    BY <1>0, <2>1, Constants
  <2>3. /\ Cardinality(registers') = Cardinality(registers) + 1
    <3>1. IsFiniteSet(registers) /\ issued + 1 \notin registers
      BY <1>0, RegistersFinite
    <3> QED
      BY <2>1, <3>1, FS_AddElement
  <2>4. Cardinality(registers') + issued <= Cardinality(registers) + issued'
    BY <1>0, <2>1, <2>3
  <2>5. Known' \subseteq Known \union {None} /\ disk' = disk
    BY <2>1 DEF Known
  <2> QED
    BY <1>0, <2>2, <2>4, <2>5, RegistryKept
<1>4. ASSUME NEW t \in registers, RegisterLost(t) PROVE Registry'
  <2>1. registers' = registers \ {t} /\ UNCHANGED <<issued, entry, disk, saves>>
    BY <1>4 DEF RegisterLost, memory
  <2>2. /\ Cardinality(registers') \in Nat
        /\ Cardinality(registers) = Cardinality(registers') + 1
    BY <2>1, RegisterConsumed
  <2>3. /\ issued' \in 0 .. MaxTokens /\ registers' \subseteq 1 .. issued'
        /\ Cardinality(registers') + issued <= Cardinality(registers) + issued'
    BY <1>0, <2>1, <2>2
  <2>4. Known' \subseteq Known \union {None} /\ disk' = disk
    BY <2>1 DEF Known
  <2> QED
    BY <1>0, <2>3, <2>4, RegistryKept
<1>5. ASSUME NEW t \in registers, HandleRegister(t) PROVE Registry'
  BY <1>5, HandleRegisterRegistry
<1>6. ASSUME NEW e \in saves, Saved(e) PROVE Registry'
  <2>1. /\ saves' = saves \ {e} /\ disk' = [entry |-> e, attempts |-> attempts]
        /\ UNCHANGED <<issued, registers, entry>>
    BY <1>6 DEF Saved, web, memory
  <2>2. disk' \in [entry : Entries, attempts : 0 .. MaxAttempts]
    BY <2>1 DEF Registry, OtherTypes
  <2>3. Known' \subseteq Known \union {None}
    BY <2>1 DEF Known
  <2> QED
    BY <1>2, <2>1, <2>2, <2>3
<1>7. CASE SweepDropped
  <2>1. entry' = None /\ saves' = saves \union {None} /\ UNCHANGED <<issued, registers, disk>>
    BY <1>7 DEF SweepDropped, Save, web
  <2>2. Known' \subseteq Known \union {None}
    BY <2>1 DEF Known
  <2> QED
    BY <1>0, <1>2, <2>1, <2>2
<1>8. CASE Crash
  <2>1. entry' = disk.entry /\ saves' = {} /\ UNCHANGED <<issued, registers, disk>>
    BY <1>8 DEF Crash
  <2>2. Known' \subseteq Known \union {None}
    BY <2>1 DEF Known
  <2> QED
    BY <1>0, <1>2, <2>1, <2>2
<1>9. ASSUME NEW f \in Finalizers, Finalize(f) PROVE Registry'
  <2>1. CASE Forget(f)
    <3>1. entry' = None /\ saves' = saves \union {None} /\ UNCHANGED <<issued, registers, disk>>
      BY <2>1 DEF Forget, Save, web
    <3>2. Known' \subseteq Known \union {None}
      BY <3>1 DEF Known
    <3> QED
      BY <1>0, <1>2, <3>1, <3>2
  <2>2. CASE Leftover(f)
    <3>1. /\ saves' \subseteq saves \union {entry}
          /\ UNCHANGED <<issued, registers, disk, entry>>
      BY <2>2 DEF Leftover, web
    <3>2. Known' \subseteq Known \union {None}
      BY <3>1 DEF Known
    <3> QED
      BY <1>0, <1>2, <3>1, <3>2
  <2>3. ASSUME NEW p \in Paths,
               StartUpload(f, p) \/ FileGone(f, p) \/ UploadDone(f, p) \/ UploadFailed(f, p)
        PROVE  UNCHANGED <<issued, registers, disk, entry, saves>>
    BY <2>3 DEF StartUpload, FileGone, UploadDone, UploadFailed, web, memory
  <2>4. CASE Cleanup(f)
    BY <1>1, <2>4 DEF Cleanup, web, memory
  <2> QED
    BY <1>1, <1>9, <2>1, <2>2, <2>3, <2>4 DEF Finalize
<1>10. CASE \/ Reload \/ EndSession \/ CommitEnd \/ ReopenSession \/ HandleFinalize \/ RetryFinalize
            \/ SweepListed \/ SweepCleaned
  BY <1>1, <1>10 DEF Reload, SweepListed, SweepCleaned, EndSession, CommitEnd, ReopenSession, HandleFinalize, RetryFinalize,
     web, memory
<1>11. ASSUME NEW k \in Kinds, AcceptChunk(k) PROVE Registry'
  BY <1>1, <1>11 DEF AcceptChunk, web, memory
<1>12. ASSUME NEW h \in handlers, AppendChunk(h) PROVE Registry'
  BY <1>1, <1>12 DEF AppendChunk, web, memory
<1>13. CASE UNCHANGED vars
  BY <1>1, <1>13 DEF vars, web, memory
<1> QED
  BY <1>3, <1>4, <1>5, <1>6, <1>7, <1>8, <1>9, <1>10, <1>11, <1>12, <1>13
     DEF Next, StartSession, Reconnect, AnswerLost

------------------------------------------------------------------------------
(***************************************************************************)
(* Types of the page, the files and of the finalizers.                                *)
(***************************************************************************)

LEMMA PageStep == Registry /\ PageTypes /\ OtherTypes /\ [Next]_vars => PageTypes'
<1> SUFFICES ASSUME Registry, PageTypes, OtherTypes, [Next]_vars PROVE PageTypes'
  OBVIOUS
<1>0. /\ issued \in Nat /\ faults \in Nat
      /\ page.token \in 0 .. issued /\ page.stored \in 0 .. issued
      /\ page.recorder \in 0 .. faults + 1
  BY RegistersFinite, Constants DEF PageTypes, OtherTypes
<1>1. ASSUME issued' \in Nat, issued <= issued', faults' \in Nat, faults <= faults', UNCHANGED page
      PROVE  PageTypes'
  BY <1>0, <1>1 DEF PageTypes
<1>2. CASE UNCHANGED <<issued, faults, page>>
  BY <1>2 DEF PageTypes
<1>3. CASE StartSession
  <2>1. /\ issued' = issued + 1 /\ faults' = faults /\ page.token = 0
        /\ page' = [token |-> issued + 1, stored |-> issued + 1, recorder |-> page.recorder + 1]
    BY <1>3 DEF StartSession, NewToken
  <2> QED
    BY <1>0, <2>1 DEF PageTypes
<1>9. CASE Reconnect
  <2>1. /\ issued' = issued + 1 /\ faults' = faults /\ page.token # 0
        /\ page' = [page EXCEPT !.token = issued + 1]
    BY <1>9 DEF Reconnect, NewToken
  <2>2. page' = [token |-> issued + 1, stored |-> page.stored, recorder |-> page.recorder]
    BY <2>1 DEF PageTypes
  <2> QED
    BY <1>0, <2>1, <2>2 DEF PageTypes
<1>4. CASE AnswerLost
  BY <1>0, <1>1, <1>4 DEF AnswerLost, NewToken, Fault
<1>5. CASE Reload
  <2>1. /\ issued' = issued /\ faults' = faults + 1 /\ page.token # 0
        /\ \/ page' = [page EXCEPT !.token = page.stored, !.recorder = @ + 1]
           \/ page' = [page EXCEPT !.token = 0, !.stored = 0]
    BY <1>5 DEF Reload, Fault
  <2>2. \/ page' = [token |-> page.stored, stored |-> page.stored, recorder |-> page.recorder + 1]
        \/ page' = [token |-> 0, stored |-> 0, recorder |-> page.recorder]
    BY <2>1 DEF PageTypes
  <2> QED
    BY <1>0, <2>1, <2>2 DEF PageTypes
<1>6. CASE SweepListed \/ Crash
  BY <1>0, <1>1, <1>6 DEF SweepListed, Crash, Fault, web
<1>7. CASE \/ EndSession \/ CommitEnd \/ ReopenSession \/ HandleFinalize \/ RetryFinalize
           \/ SweepCleaned \/ SweepDropped
           \/ \E t \in registers : RegisterLost(t) \/ HandleRegister(t)
           \/ \E k \in Kinds : AcceptChunk(k)
           \/ \E h \in handlers : AppendChunk(h)
           \/ \E e \in saves : Saved(e)
           \/ UNCHANGED vars
  BY <1>2, <1>7 DEF EndSession, CommitEnd, ReopenSession, HandleFinalize, RetryFinalize,
     SweepCleaned, SweepDropped, RegisterLost, HandleRegister, AcceptChunk, AppendChunk, Saved,
     vars, web, history
<1>8. ASSUME NEW f \in Finalizers, Finalize(f) PROVE PageTypes'
  <2>1. UNCHANGED <<issued, faults, page>>
    BY <1>8 DEF Finalize, StartUpload, FileGone, UploadDone, UploadFailed, Cleanup, Forget, Leftover,
       web, history
  <2> QED
    BY <1>2, <2>1
<1> QED
  BY <1>3, <1>4, <1>5, <1>6, <1>7, <1>8, <1>9 DEF Next

LEMMA FilesStep == Registry /\ PageTypes /\ OtherTypes /\ FileTypes /\ FinTypes /\ [Next]_vars => FileTypes'
<1> SUFFICES ASSUME Registry, PageTypes, OtherTypes, FileTypes, FinTypes, [Next]_vars
             PROVE  FileTypes'
  OBVIOUS
<1>1. CASE UNCHANGED <<handlers, accepted, acked, spool, store>>
  BY <1>1 DEF FileTypes
<1>2. ASSUME NEW k \in Kinds, AcceptChunk(k)
      PROVE  FileTypes'
  <2>1. /\ accepted < MaxChunks /\ entry # None
        /\ accepted' = accepted + 1
        /\ handlers' = handlers \union
              {[chunk |-> <<page.token, page.recorder, accepted'>>, path |-> <<k, entry.segment>>]}
        /\ UNCHANGED <<acked, spool, store>>
    BY <1>2 DEF AcceptChunk
  <2>2. accepted' \in 1 .. MaxChunks
    BY <2>1, Constants DEF FileTypes
  <2>3. page.token \in 1 .. MaxTokens /\ page.recorder \in Recorders
    <3>1. /\ issued \in Nat /\ issued <= MaxTokens /\ faults \in Nat /\ faults <= MaxFaults
          /\ MaxTokens \in Nat /\ MaxFaults \in Nat
      BY RegistersFinite, Constants DEF OtherTypes
    <3>2. /\ page.token \in 0 .. issued /\ page.token # 0
          /\ page.recorder \in 0 .. faults + 1 /\ page.recorder > 0
      BY <1>2 DEF PageTypes, AcceptChunk
    <3>3. page.token \in Nat /\ page.token > 0 /\ page.token <= MaxTokens
      BY <3>1, <3>2
    <3>4. page.recorder \in Nat /\ page.recorder <= MaxFaults + 1
      BY <3>1, <3>2
    <3> QED
      BY <3>1, <3>2, <3>3, <3>4 DEF Recorders
  <2>4. <<k, entry.segment>> \in Paths
    BY DEF Registry, Entries, Paths
  <2>5. <<page.token, page.recorder, accepted'>> \in Chunks
    BY <2>2, <2>3 DEF Chunks
  <2>6. accepted' \in 0 .. MaxChunks
    BY <2>2, Constants
  <2> QED
    BY <2>1, <2>4, <2>5, <2>6 DEF FileTypes
<1>3. ASSUME NEW h \in handlers, AppendChunk(h) PROVE FileTypes'
  <2>1. h.chunk \in Chunks /\ h.path \in Paths
    BY DEF FileTypes
  <2>2. /\ handlers' = handlers \ {h} /\ acked' = acked \union {h.chunk}
        /\ spool' = [spool EXCEPT ![h.path] = @ \union {h.chunk}]
        /\ UNCHANGED <<accepted, store>>
    BY <1>3 DEF AppendChunk
  <2> QED
    BY <2>1, <2>2 DEF FileTypes
<1>4. CASE SweepCleaned
  BY <1>4 DEF SweepCleaned, FileTypes, chunks
<1>5. CASE Crash
  BY <1>5 DEF Crash, FileTypes
<1>6. ASSUME NEW f \in Finalizers, Finalize(f) PROVE FileTypes'
  <2>1. CASE Cleanup(f)
    BY <2>1 DEF Cleanup, FileTypes, chunks
  <2>2. ASSUME NEW p \in Paths, UploadDone(f, p) PROVE FileTypes'
    <3>1. fin[f].sent \in SUBSET Chunks
      BY DEF FinTypes, FinRecords
    <3>2. /\ store' = [store EXCEPT ![p] = fin[f].sent]
          /\ UNCHANGED <<handlers, accepted, acked>>
      BY <2>2 DEF UploadDone, chunks
    <3>3. spool' \in [Paths -> SUBSET Chunks]
      BY <2>2 DEF UploadDone, FileTypes
    <3> QED
      BY <3>1, <3>2, <3>3 DEF FileTypes
  <2>3. ASSUME NEW p \in Paths, StartUpload(f, p) \/ FileGone(f, p) \/ UploadFailed(f, p)
        PROVE  FileTypes'
    BY <1>1, <2>3 DEF StartUpload, FileGone, UploadFailed, chunks
  <2>4. CASE Forget(f) \/ Leftover(f)
    BY <1>1, <2>4 DEF Forget, Leftover, chunks
  <2> QED
    BY <1>6, <2>1, <2>2, <2>3, <2>4 DEF Finalize
<1>7. CASE \/ StartSession \/ Reconnect \/ AnswerLost \/ Reload \/ EndSession \/ CommitEnd \/ ReopenSession
           \/ HandleFinalize \/ RetryFinalize \/ SweepListed \/ SweepDropped
  BY <1>1, <1>7 DEF StartSession, Reconnect, AnswerLost, NewToken, Reload, SweepListed, SweepDropped, EndSession, CommitEnd, ReopenSession,
     HandleFinalize, RetryFinalize, chunks
<1>8. ASSUME NEW t \in registers, RegisterLost(t) \/ HandleRegister(t) PROVE FileTypes'
  BY <1>1, <1>8 DEF RegisterLost, HandleRegister, chunks
<1>9. ASSUME NEW e \in saves, Saved(e) PROVE FileTypes'
  BY <1>1, <1>9 DEF Saved, chunks
<1>10. CASE UNCHANGED vars
  BY <1>1, <1>10 DEF vars, chunks
<1> QED
  BY <1>2, <1>3, <1>4, <1>5, <1>6, <1>7, <1>8, <1>9, <1>10 DEF Next

LEMMA IdleRecord == Idle \in FinRecords /\ Uploads(Idle)
  BY DEF Idle, FinRecords, Uploads

\* A finalizer that goes on with a well-formed record.
LEMMA FinReplaced ==
    ASSUME FinTypes, NEW f \in Finalizers, NEW F \in FinRecords, Uploads(F),
           fin' = [fin EXCEPT ![f] = F]
    PROVE  FinTypes'
<1>1. fin' \in [Finalizers -> FinRecords]
  BY DEF FinTypes
<1>2. \A g \in Finalizers : Uploads(fin'[g])
  BY DEF FinTypes
<1> QED
  BY <1>1, <1>2 DEF FinTypes, Uploads

\* The fields of a finalizer.
LEMMA FinParts ==
    ASSUME FinTypes, NEW f \in Finalizers
    PROVE  /\ fin[f] \in FinRecords /\ Uploads(fin[f])
           /\ fin[f].pc \in {"idle", "upload", "uploading", "cleanup"}
           /\ fin[f].todo \in SUBSET Paths /\ fin[f].now \in SUBSET Paths
           /\ fin[f].sent \in SUBSET Chunks /\ fin[f].failed \in SUBSET Kinds
           /\ fin[f].listed \in SUBSET Paths
<1>1. fin[f] \in FinRecords /\ Uploads(fin[f])
  BY DEF FinTypes
<1> QED
  BY <1>1 DEF FinRecords

\* The other finalizer is left alone.
Only(f, F) == fin' = [fin EXCEPT ![f] = F] /\ F \in FinRecords

LEMMA OnlyOne ==
    ASSUME FinTypes, NEW f \in Finalizers, NEW F, Only(f, F)
    PROVE  fin'[f] = F /\ \A g \in Finalizers : g # f => fin'[g] = fin[g]
  BY DEF Only, FinTypes

LEMMA BeginFin ==
    ASSUME FinTypes, NEW f \in Finalizers, Begin(f)
    PROVE  \E F : /\ Only(f, F)
                  /\ F.pc = "upload" /\ F.todo = Files /\ F.now = {}
                  /\ F.listed = Files /\ F.failed = {}
<1> DEFINE F == [Idle EXCEPT !.pc = "upload", !.todo = Files, !.listed = Files]
<1>1. Files \in SUBSET Paths
  BY DEF Files
<1>2. Idle \in FinRecords /\ Idle.now = {} /\ Idle.failed = {}
  BY IdleRecord DEF Idle
<1>3. /\ F \in FinRecords
      /\ F.pc = "upload" /\ F.todo = Files /\ F.listed = Files /\ F.now = {} /\ F.failed = {}
  BY <1>1, <1>2 DEF FinRecords
<1>4. fin' = [fin EXCEPT ![f] = F]
  BY DEF Begin
<1> HIDE DEF F
<1> QED
  BY <1>3, <1>4 DEF Only

LEMMA StartUploadFin ==
    ASSUME FileTypes, FinTypes, NEW f \in Finalizers, NEW p \in Paths, StartUpload(f, p)
    PROVE  \E F : /\ Only(f, F)
                  /\ F.pc = "uploading" /\ F.now = {p} /\ F.sent = spool[p]
                  /\ F.todo = fin[f].todo \ {p}
                  /\ F.failed = fin[f].failed /\ F.listed = fin[f].listed
<1> DEFINE F == [fin[f] EXCEPT !.pc = "uploading", !.now = {p}, !.sent = spool[p],
                               !.todo = @ \ {p}]
<1>1. fin[f] \in FinRecords /\ fin[f].todo \in SUBSET Paths
  BY FinParts
<1>2. {p} \in SUBSET Paths /\ spool[p] \in SUBSET Chunks
  BY DEF FileTypes
<1>3. /\ F \in FinRecords
      /\ F.pc = "uploading" /\ F.now = {p} /\ F.sent = spool[p]
      /\ F.todo = fin[f].todo \ {p}
      /\ F.failed = fin[f].failed /\ F.listed = fin[f].listed
  BY <1>1, <1>2 DEF FinRecords
<1>4. fin' = [fin EXCEPT ![f] = F]
  BY DEF StartUpload, FinTypes
<1> HIDE DEF F
<1> QED
  BY <1>3, <1>4 DEF Only

\* The file that was being uploaded is done with.
LEMMA UploadDoneFin ==
    ASSUME FinTypes, NEW f \in Finalizers, NEW p \in Paths, UploadDone(f, p), spool[p] # {}
    PROVE  \E F : /\ Only(f, F)
                  /\ F.pc = "upload" /\ F.now = {} /\ F.todo = fin[f].todo
                  /\ F.failed = fin[f].failed /\ F.listed = fin[f].listed
<1> DEFINE F == [fin[f] EXCEPT !.pc = "upload", !.now = {}, !.sent = {}]
<1>1. fin[f] \in FinRecords
  BY FinParts
<1>2. /\ F \in FinRecords
      /\ F.pc = "upload" /\ F.now = {} /\ F.todo = fin[f].todo
      /\ F.failed = fin[f].failed /\ F.listed = fin[f].listed
  BY <1>1 DEF FinRecords
<1>3. fin' = [fin EXCEPT ![f] = F]
  BY DEF UploadDone, FinTypes
<1> HIDE DEF F
<1> QED
  BY <1>2, <1>3 DEF Only

LEMMA UploadFailedFin ==
    ASSUME FinTypes, NEW f \in Finalizers, NEW p \in Paths, UploadFailed(f, p)
    PROVE  \E F : /\ Only(f, F)
                  /\ F.pc = "upload" /\ F.now = {}
                  /\ F.todo = {q \in fin[f].todo : q[1] # p[1]}
                  /\ F.failed = fin[f].failed \union {p[1]} /\ F.listed = fin[f].listed
<1> DEFINE F == [fin[f] EXCEPT !.pc = "upload", !.now = {}, !.sent = {},
                    !.failed = @ \union {p[1]}, !.todo = {q \in @ : q[1] # p[1]}]
<1>1. fin[f] \in FinRecords /\ fin[f].todo \in SUBSET Paths /\ fin[f].failed \in SUBSET Kinds
  BY FinParts
<1>2. /\ fin[f].failed \union {p[1]} \in SUBSET Kinds
      /\ {q \in fin[f].todo : q[1] # p[1]} \in SUBSET Paths
  BY <1>1 DEF Paths
<1>3. /\ F \in FinRecords
      /\ F.pc = "upload" /\ F.now = {}
      /\ F.todo = {q \in fin[f].todo : q[1] # p[1]}
      /\ F.failed = fin[f].failed \union {p[1]} /\ F.listed = fin[f].listed
  BY <1>1, <1>2 DEF FinRecords
<1>4. fin' = [fin EXCEPT ![f] = F]
  BY DEF UploadFailed, FinTypes
<1> HIDE DEF F
<1> QED
  BY <1>3, <1>4 DEF Only

LEMMA CleanupFin ==
    ASSUME FinTypes, NEW f \in Finalizers, Cleanup(f)
    PROVE  \E F : /\ Only(f, F)
                  /\ F.pc = "cleanup" /\ F.now = fin[f].now /\ F.todo = fin[f].todo
                  /\ F.failed = fin[f].failed /\ F.listed = fin[f].listed
<1> DEFINE F == [fin[f] EXCEPT !.pc = "cleanup"]
<1>1. fin[f] \in FinRecords
  BY FinParts
<1>2. /\ F \in FinRecords
      /\ F.pc = "cleanup" /\ F.now = fin[f].now /\ F.todo = fin[f].todo
      /\ F.failed = fin[f].failed /\ F.listed = fin[f].listed
  BY <1>1 DEF FinRecords
<1>3. fin' = [fin EXCEPT ![f] = F]
  BY DEF Cleanup, FinTypes
<1> HIDE DEF F
<1> QED
  BY <1>2, <1>3 DEF Only

\* The steps after which the finalizer is idle.
LEMMA IdleFin ==
    ASSUME FinTypes, NEW f \in Finalizers,
           \/ Forget(f) \/ Leftover(f)
           \/ \E p \in Paths : FileGone(f, p) \/ (UploadDone(f, p) /\ spool[p] = {})
    PROVE  Only(f, Idle)
<1>1. fin' = [fin EXCEPT ![f] = Idle]
  BY DEF Forget, Leftover, FileGone, UploadDone
<1> QED
  BY <1>1, IdleRecord DEF Only

LEMMA FinStep == FileTypes /\ FinTypes /\ [Next]_vars => FinTypes'
<1> SUFFICES ASSUME FileTypes, FinTypes, [Next]_vars PROVE FinTypes'
  OBVIOUS
<1>0. ASSUME NEW f \in Finalizers, NEW F, Only(f, F), Uploads(F) PROVE FinTypes'
  BY <1>0, FinReplaced DEF Only
<1>1. CASE UNCHANGED fin
  BY <1>1 DEF FinTypes, Uploads
<1>2. CASE Crash
  <2>1. fin' = [f \in Finalizers |-> Idle]
    BY <1>2 DEF Crash
  <2> QED
    BY <2>1, IdleRecord DEF FinTypes
<1>3. CASE HandleFinalize \/ RetryFinalize
  <2>1. UNCHANGED fin \/ \E f \in Finalizers : Begin(f)
    BY <1>3 DEF HandleFinalize, RetryFinalize, Finalizers
  <2>2. ASSUME NEW f \in Finalizers, Begin(f) PROVE FinTypes'
    <3>1. PICK F : Only(f, F) /\ F.todo = F.listed /\ F.now = {}
      BY <2>2, BeginFin
    <3>2. Uploads(F)
      BY <3>1 DEF Uploads
    <3> QED
      BY <1>0, <3>1, <3>2
  <2> QED
    BY <1>1, <2>1, <2>2
<1>4. ASSUME NEW f \in Finalizers, Finalize(f) PROVE FinTypes'
  <2>0. Uploads(fin[f])
    BY FinParts
  <2>1. ASSUME NEW p \in Paths, StartUpload(f, p) PROVE FinTypes'
    <3>1. PICK F : /\ Only(f, F) /\ F.pc = "uploading" /\ F.now = {p}
                   /\ F.todo = fin[f].todo \ {p} /\ F.listed = fin[f].listed
      BY <2>1, StartUploadFin
    <3>2. p \in fin[f].listed
      BY <2>0, <2>1 DEF StartUpload, IsNext, Uploads
    <3>3. Uploads(F)
      BY <2>0, <3>1, <3>2 DEF Uploads
    <3> QED
      BY <1>0, <3>1, <3>3
  <2>2. ASSUME NEW p \in Paths, UploadDone(f, p), spool[p] # {} PROVE FinTypes'
    <3>1. PICK F : /\ Only(f, F) /\ F.now = {}
                   /\ F.todo = fin[f].todo /\ F.listed = fin[f].listed
      BY <2>2, UploadDoneFin
    <3>2. Uploads(F)
      BY <2>0, <3>1 DEF Uploads
    <3> QED
      BY <1>0, <3>1, <3>2
  <2>3. ASSUME NEW p \in Paths, UploadFailed(f, p) PROVE FinTypes'
    <3>1. PICK F : /\ Only(f, F) /\ F.now = {}
                   /\ F.todo = {q \in fin[f].todo : q[1] # p[1]} /\ F.listed = fin[f].listed
      BY <2>3, UploadFailedFin
    <3>2. Uploads(F)
      BY <2>0, <3>1 DEF Uploads
    <3> QED
      BY <1>0, <3>1, <3>2
  <2>4. CASE Cleanup(f)
    <3>1. PICK F : /\ Only(f, F) /\ F.now = fin[f].now
                   /\ F.todo = fin[f].todo /\ F.listed = fin[f].listed
      BY <2>4, CleanupFin
    <3>2. fin[f].now = {}
      BY <2>0, <2>4 DEF Uploads, Cleanup
    <3>3. Uploads(F)
      BY <2>0, <3>1, <3>2 DEF Uploads
    <3> QED
      BY <1>0, <3>1, <3>3
  <2>5. ASSUME \/ Forget(f) \/ Leftover(f)
               \/ \E p \in Paths : FileGone(f, p) \/ (UploadDone(f, p) /\ spool[p] = {})
        PROVE  FinTypes'
    BY <1>0, <2>5, IdleFin, IdleRecord
  <2> QED
    BY <1>4, <2>1, <2>2, <2>3, <2>4, <2>5 DEF Finalize
<1>5. CASE \/ StartSession \/ Reconnect \/ AnswerLost \/ Reload \/ EndSession \/ CommitEnd \/ ReopenSession
           \/ SweepListed \/ SweepCleaned \/ SweepDropped
           \/ \E t \in registers : RegisterLost(t) \/ HandleRegister(t)
           \/ \E k \in Kinds : AcceptChunk(k)
           \/ \E h \in handlers : AppendChunk(h)
           \/ \E e \in saves : Saved(e)
           \/ UNCHANGED vars
  BY <1>1, <1>5 DEF StartSession, Reconnect, AnswerLost, NewToken, Reload, EndSession, CommitEnd, ReopenSession,
     SweepListed, SweepCleaned, SweepDropped, RegisterLost, HandleRegister, AcceptChunk, AppendChunk, Saved, vars
<1> QED
  BY <1>2, <1>3, <1>4, <1>5 DEF Next

\* The steps that touch nothing but the registry and the requests of the page.
Aside ==
    \/ StartSession \/ Reconnect \/ AnswerLost \/ Reload \/ EndSession \/ CommitEnd
    \/ \E t \in registers : RegisterLost(t) \/ HandleRegister(t)
    \/ \E k \in Kinds : AcceptChunk(k)

LEMMA AsideFrame ==
    ASSUME Aside
    PROVE  UNCHANGED <<attempts, orphan, disk, acked, spool, store, fin, sweep, closing, late,
                       outdated, swept, reopens>>
  BY DEF Aside, StartSession, Reconnect, AnswerLost, NewToken, Reload, Fault, EndSession, CommitEnd, RegisterLost, HandleRegister, AcceptChunk,
     memory, chunks, history

\* The steps of a finalizer leave the rest of the service alone.
LEMMA FinalizeFrame ==
    ASSUME NEW f \in Finalizers, Finalize(f)
    PROVE  UNCHANGED <<row, issued, registers, ending, disk, handlers, accepted, acked,
                       sweep, closing, late, outdated, swept, reopens, faults>>
  BY DEF Finalize, StartUpload, FileGone, UploadDone, UploadFailed, Cleanup, Forget, Leftover,
     web, chunks, history

LEMMA OthersStep == Registry /\ OtherTypes /\ [Next]_vars => OtherTypes'
<1> SUFFICES ASSUME Registry, OtherTypes, [Next]_vars PROVE OtherTypes'
  OBVIOUS
<1> DEFINE Booleans == /\ closing \in BOOLEAN /\ late \in BOOLEAN
                       /\ outdated \in BOOLEAN /\ swept \in BOOLEAN
           Rest == /\ row \in {"none", "active", "ended"}
                   /\ ending \in {"no", "sent", "waiting"}
                   /\ attempts \in 0 .. MaxAttempts /\ orphan \in 0 .. MaxAttempts
                   /\ sweep \in {"no", "listed", "cleaned"}
                   /\ reopens \in 0 .. MaxFaults /\ faults \in 0 .. MaxFaults
<1>0. Booleans /\ Rest
  BY DEF OtherTypes
<1> SUFFICES Booleans' /\ Rest'
  BY DEF OtherTypes
<1>1. CASE Aside
  <2>1. Booleans'
    BY <1>0, <1>1, AsideFrame
  <2>2. Rest'
    <3>1. faults' \in 0 .. MaxFaults
      BY <1>0, <1>1, Constants DEF Aside, StartSession, Reconnect, AnswerLost, NewToken, Reload, Fault, EndSession,
         CommitEnd, RegisterLost, HandleRegister, AcceptChunk, history
    <3>2. row' \in {"none", "active", "ended"} /\ ending' \in {"no", "sent", "waiting"}
      BY <1>0, <1>1 DEF Aside, StartSession, Reconnect, AnswerLost, NewToken, Reload, EndSession, CommitEnd,
         RegisterLost, HandleRegister, AcceptChunk, web
    <3> QED
      BY <1>0, <1>1, <3>1, <3>2, AsideFrame
  <2> QED
    BY <2>1, <2>2
<1>2. CASE ReopenSession
  <2>1. Booleans'
    BY <1>0, <1>2 DEF ReopenSession
  <2>2. Rest'
    BY <1>0, <1>2, Constants DEF ReopenSession, memory
  <2> QED
    BY <2>1, <2>2
<1>3. ASSUME NEW h \in handlers, AppendChunk(h) PROVE Booleans' /\ Rest'
  <2>1. Booleans'
    BY <1>0, <1>3 DEF AppendChunk
  <2>2. Rest'
    BY <1>0, <1>3 DEF AppendChunk, web, memory
  <2> QED
    BY <2>1, <2>2
<1>4. ASSUME NEW e \in saves, Saved(e) PROVE Booleans' /\ Rest'
  <2>1. Booleans'
    BY <1>0, <1>4 DEF Saved, history
  <2>2. Rest'
    BY <1>0, <1>4 DEF Saved, web, memory, history
  <2> QED
    BY <2>1, <2>2
<1>5. CASE SweepListed \/ SweepCleaned \/ SweepDropped
  <2>1. Booleans'
    BY <1>0, <1>5 DEF SweepListed, SweepCleaned, SweepDropped, history
  <2>2. Rest'
    BY <1>0, <1>5, Constants DEF SweepListed, SweepCleaned, SweepDropped, Fault, web, memory, history
  <2> QED
    BY <2>1, <2>2
<1>6. CASE Crash
  <2>1. Booleans'
    BY <1>0, <1>6 DEF Crash
  <2>2. Rest'
    BY <1>0, <1>6, Constants DEF Crash, Fault, Registry
  <2> QED
    BY <2>1, <2>2
<1>7. CASE HandleFinalize \/ RetryFinalize
  <2>1. Booleans'
    BY <1>0, <1>7 DEF HandleFinalize, RetryFinalize, history
  <2>2. Rest'
    <3>1. CASE HandleFinalize
      BY <1>0, <3>1 DEF HandleFinalize, memory
    <3>2. CASE RetryFinalize
      BY <1>0, <3>2, Constants DEF RetryFinalize, web, history
    <3> QED
      BY <1>7, <3>1, <3>2
  <2> QED
    BY <2>1, <2>2
<1>8. ASSUME NEW f \in Finalizers, Finalize(f) PROVE Booleans' /\ Rest'
  <2>1. Booleans'
    BY <1>0, <1>8, FinalizeFrame
  <2>2. attempts' \in 0 .. MaxAttempts /\ orphan' \in 0 .. MaxAttempts
    <3>1. /\ attempts' \in {attempts, 0, 1} \/ (attempts + 1 <= MaxAttempts /\ attempts' = attempts + 1)
          /\ orphan' \in {attempts, orphan}
      <4>1. CASE Leftover(f)
        <5>1. orphan' \in {attempts, orphan}
          BY <4>1 DEF Leftover, Orphaned
        <5>2. CASE f = "handler"
          BY <4>1, <5>1, <5>2 DEF Leftover
        <5>3. CASE f # "handler"
          <6>1. Count(MaxAttempts)
            BY <4>1, <5>3 DEF Leftover
          <6> QED
            BY <1>0, <5>1, <6>1, Constants DEF Count
        <5> QED
          BY <5>2, <5>3
      <4>2. CASE Forget(f)
        BY <4>2 DEF Forget, Orphaned
      <4>3. CASE ~ Leftover(f) /\ ~ Forget(f)
        BY <1>8, <4>3 DEF Finalize, StartUpload, FileGone, UploadDone, UploadFailed, Cleanup, memory
      <4> QED
        BY <4>1, <4>2, <4>3
    <3> QED
      BY <1>0, <3>1, Constants
  <2>3. Rest'
    BY <1>0, <1>8, <2>2, FinalizeFrame
  <2> QED
    BY <2>1, <2>3
<1>9. CASE UNCHANGED vars
  <2>1. Booleans'
    BY <1>0, <1>9 DEF vars, history
  <2>2. Rest'
    BY <1>0, <1>9 DEF vars, web, memory, history
  <2> QED
    BY <2>1, <2>2
<1> QED
  BY <1>1, <1>2, <1>3, <1>4, <1>5, <1>6, <1>7, <1>8, <1>9 DEF Next, Aside

LEMMA SweepingStep == Sweeping /\ [Next]_vars => Sweeping'
<1> SUFFICES ASSUME Sweeping, [Next]_vars PROVE Sweeping'
  OBVIOUS
<1>1. CASE UNCHANGED <<sweep, swept>>
  BY <1>1 DEF Sweeping
<1>2. CASE SweepListed \/ SweepCleaned \/ SweepDropped \/ Crash
  BY <1>2 DEF SweepListed, SweepCleaned, SweepDropped, Crash, Sweeping, history
<1>3. CASE Aside
  BY <1>1, <1>3, AsideFrame
<1>4. ASSUME NEW f \in Finalizers, Finalize(f) PROVE Sweeping'
  BY <1>1, <1>4, FinalizeFrame
<1>5. CASE \/ ReopenSession \/ HandleFinalize \/ RetryFinalize
           \/ \E h \in handlers : AppendChunk(h)
           \/ \E e \in saves : Saved(e)
           \/ UNCHANGED vars
  BY <1>1, <1>5 DEF ReopenSession, HandleFinalize, RetryFinalize, AppendChunk, Saved, vars, history
<1> QED
  BY <1>2, <1>3, <1>4, <1>5 DEF Next, Aside

LEMMA TypesStep == Types /\ [Next]_vars => Types'
  BY RegistryStep, PageStep, FilesStep, FinStep, OthersStep, SweepingStep DEF Types

------------------------------------------------------------------------------
(***************************************************************************)
(* One finalization at a time.                                              *)
(***************************************************************************)

LEMMA OnceStep == Types /\ Once /\ [Next]_vars => Once'
<1> SUFFICES ASSUME Types, Once, [Next]_vars, reopens' = 0 PROVE Once'
  BY DEF Once
<1>0. /\ reopens \in Nat /\ attempts \in Nat
      /\ "handler" \in Finalizers /\ "retry" \in Finalizers /\ FinTypes
  BY Constants DEF Types, OtherTypes, Finalizers
<1> DEFINE Sealed == closing => (ending = "waiting" \/ (ending = "no" /\ row = "ended"))
           Fresh == ~closing => /\ attempts = 0 /\ disk.attempts = 0
                                /\ \A f \in Finalizers : fin[f].pc = "idle"
           Alone == fin["handler"].pc # "idle" =>
                      (attempts = 0 /\ disk.attempts = 0 /\ fin["retry"].pc = "idle")
<1>1. ASSUME reopens = 0 PROVE Sealed /\ Fresh /\ Alone
  BY <1>1 DEF Once
<1> SUFFICES Sealed' /\ Fresh' /\ Alone'
  BY DEF Once
<1>2. CASE Aside
  <2>1. reopens = 0 /\ UNCHANGED <<attempts, disk, fin, closing>>
    BY <1>2, AsideFrame
  <2>2. Sealed'
    BY <1>1, <1>2, <2>1 DEF Aside, StartSession, Reconnect, AnswerLost, NewToken, Reload, EndSession, CommitEnd, RegisterLost,
       HandleRegister, AcceptChunk, web
  <2> QED
    BY <1>1, <2>1, <2>2
<1>3. CASE ReopenSession
  BY <1>0, <1>3 DEF ReopenSession
<1>4. CASE \/ SweepListed \/ SweepCleaned \/ SweepDropped \/ UNCHANGED vars
           \/ \E h \in handlers : AppendChunk(h)
  <2>1. UNCHANGED <<row, ending, attempts, disk, fin, closing, reopens>>
    BY <1>4 DEF SweepListed, SweepCleaned, SweepDropped, Fault, AppendChunk, vars, web, memory, history
  <2> QED
    BY <1>1, <2>1
<1>5. ASSUME NEW e \in saves, Saved(e) PROVE Sealed' /\ Fresh' /\ Alone'
  <2>1. /\ UNCHANGED <<row, ending, attempts, fin, closing, reopens>>
        /\ disk'.attempts = attempts
    BY <1>5 DEF Saved, web, memory, history
  <2> QED
    BY <1>1, <2>1
<1>6. CASE Crash
  <2>1. /\ UNCHANGED <<row, disk, closing, reopens>>
        /\ attempts' = disk.attempts
        /\ fin' = [f \in Finalizers |-> Idle]
        /\ ending' = IF ending = "sent" THEN "waiting" ELSE ending
    BY <1>6 DEF Crash, Fault
  <2>2. \A f \in Finalizers : fin'[f].pc = "idle"
    BY <2>1 DEF Idle
  <2> QED
    BY <1>0, <1>1, <2>1, <2>2
<1>7. CASE HandleFinalize
  <2>1. /\ ending = "sent" /\ ending' = "waiting" /\ closing' = TRUE
        /\ UNCHANGED <<attempts, disk, reopens>>
        /\ UNCHANGED fin \/ Begin("handler")
    BY <1>7 DEF HandleFinalize, memory
  <2>2. attempts = 0 /\ disk.attempts = 0 /\ fin["retry"].pc = "idle"
    BY <1>0, <1>1, <2>1
  <2>3. fin'["retry"] = fin["retry"]
    BY <1>0, <2>1 DEF Begin, FinTypes
  <2> QED
    BY <2>1, <2>2, <2>3
<1>8. CASE RetryFinalize
  <2>1. /\ attempts > 0 /\ UNCHANGED <<row, ending, closing, attempts, disk, reopens>>
        /\ Begin("retry")
    BY <1>8 DEF RetryFinalize, web, memory, history
  <2>2. closing /\ fin["handler"].pc = "idle"
    BY <1>0, <1>1, <2>1
  <2>3. fin'["handler"] = fin["handler"]
    BY <1>0, <2>1 DEF Begin, FinTypes
  <2> QED
    BY <1>1, <2>1, <2>2, <2>3
<1>9. ASSUME NEW f \in Finalizers, Finalize(f) PROVE Sealed' /\ Fresh' /\ Alone'
  <2>1. UNCHANGED <<row, ending, disk, closing, reopens>>
    BY <1>9, FinalizeFrame
  <2>2. Sealed /\ Fresh /\ Alone
    BY <1>1, <2>1
  <2>3. fin[f].pc # "idle"
    BY <1>0, <1>9, FinParts DEF Finalize, StartUpload, FileGone, UploadDone, UploadFailed, Cleanup,
       Forget, Leftover, Uploads
  <2>4. closing
    BY <2>2, <2>3
  <2>5. \A g \in Finalizers : g # f => fin'[g] = fin[g]
    BY <1>0, <1>9 DEF Finalize, StartUpload, FileGone, UploadDone, UploadFailed, Cleanup,
       Forget, Leftover, FinTypes
  <2>6. CASE f = "retry"
    <3>1. fin["handler"].pc = "idle"
      BY <2>2, <2>3, <2>6
    <3>2. fin'["handler"].pc = "idle"
      BY <1>0, <2>5, <2>6, <3>1
    <3> QED
      BY <2>1, <2>2, <2>4, <3>2
  <2>7. CASE f = "handler"
    <3>1. attempts = 0 /\ disk.attempts = 0 /\ fin["retry"].pc = "idle"
      BY <2>2, <2>3, <2>7
    <3>2. fin'["retry"].pc = "idle"
      BY <1>0, <2>5, <2>7, <3>1
    <3>3. attempts' = 0 \/ fin'["handler"].pc = "idle"
      <4>1. CASE Leftover(f)
        <5>1. Only(f, Idle)
          BY <1>0, <4>1, IdleFin
        <5> QED
          BY <1>0, <2>7, <5>1, OnlyOne DEF Idle
      <4>2. CASE ~ Leftover(f)
        BY <1>9, <3>1, <4>2 DEF Finalize, StartUpload, FileGone, UploadDone, UploadFailed, Cleanup,
           Forget, memory
      <4> QED
        BY <4>1, <4>2
    <3> QED
      BY <2>1, <2>2, <2>4, <3>1, <3>2, <3>3
  <2> QED
    BY <2>6, <2>7 DEF Finalizers
<1> QED
  BY <1>2, <1>3, <1>4, <1>5, <1>6, <1>7, <1>8, <1>9 DEF Next, Aside

------------------------------------------------------------------------------
(***************************************************************************)
(* Acknowledged chunks.                                                     *)
(***************************************************************************)

\* The files stay as they are and a finalizer goes on with a faithful record.
LEMMA SecuredFin ==
    ASSUME FinTypes, Secured, UNCHANGED <<acked, spool, store>>, closing => closing',
           NEW f \in Finalizers, NEW F, Only(f, F),
           F.pc \in {"upload", "uploading"} => Faithful(F)
    PROVE  Secured'
<1>1. /\ acked' \subseteq Content(spool') \union Content(store')
      /\ \A p \in Paths : spool'[p] = {} \/ store'[p] \subseteq spool'[p]
      /\ closing' \/ \A p \in Paths : store'[p] = {}
  BY DEF Secured
<1>2. ASSUME NEW g \in Finalizers, fin'[g].pc \in {"upload", "uploading"}
      PROVE  Faithful(fin[g])' 
  <2>1. fin'[f] = F /\ (g # f => fin'[g] = fin[g])
    BY OnlyOne
  <2>2. Faithful(fin'[g])
    BY <1>2, <2>1 DEF Secured
  <2> QED
    BY <2>2 DEF Faithful
<1> QED
  BY <1>1, <1>2 DEF Secured, Content

LEMMA BeginSecured ==
    ASSUME FinTypes, Secured, UNCHANGED <<acked, spool, store>>, closing => closing',
           NEW f \in Finalizers, Begin(f)
    PROVE  Secured'
<1>1. PICK F : /\ Only(f, F)
               /\ F.pc = "upload" /\ F.todo = Files /\ F.now = {} /\ F.listed = Files
  BY BeginFin
<1>2. \A p \in Paths \ Files : spool[p] = {}
  BY DEF Files
<1>3. Faithful(F)
  BY <1>1, <1>2 DEF Faithful
<1> QED
  BY <1>1, <1>3, SecuredFin

LEMMA StartUploadSecured ==
    ASSUME FileTypes, FinTypes, Secured, NEW f \in Finalizers, NEW p \in Paths,
           StartUpload(f, p)
    PROVE  Secured'
<1>1. PICK F : /\ Only(f, F)
               /\ F.pc = "uploading" /\ F.now = {p} /\ F.sent = spool[p]
               /\ F.todo = fin[f].todo \ {p}
               /\ F.failed = fin[f].failed /\ F.listed = fin[f].listed
  BY StartUploadFin
<1>2. /\ fin[f].pc = "upload" /\ p \in fin[f].todo /\ spool[p] # {}
      /\ UNCHANGED <<acked, spool, store, closing>>
  BY DEF StartUpload, IsNext, chunks, history
<1>3. fin[f].now = {} /\ Faithful(fin[f])
  BY <1>2, FinParts DEF Uploads, Secured
<1>4. F.listed \ (F.todo \union F.now) = fin[f].listed \ (fin[f].todo \union fin[f].now)
  BY <1>1, <1>2, <1>3
<1>5. Faithful(F)
  <2>1. \A q \in Paths \ F.listed : spool[q] = {}
    BY <1>1, <1>3 DEF Faithful
  <2>2. \A q \in F.listed \ (F.todo \union F.now) :
            q[1] \in F.failed \/ spool[q] \subseteq store[q]
    BY <1>1, <1>3, <1>4 DEF Faithful
  <2>3. \A q \in F.now : F.sent = spool[q] /\ spool[q] # {}
    BY <1>1, <1>2
  <2> QED
    BY <2>1, <2>2, <2>3 DEF Faithful
<1> QED
  BY <1>1, <1>2, <1>5, SecuredFin

LEMMA UploadFailedSecured ==
    ASSUME FinTypes, Secured, NEW f \in Finalizers, NEW p \in Paths, UploadFailed(f, p)
    PROVE  Secured'
<1>1. PICK F : /\ Only(f, F)
               /\ F.pc = "upload" /\ F.now = {}
               /\ F.todo = {q \in fin[f].todo : q[1] # p[1]}
               /\ F.failed = fin[f].failed \union {p[1]} /\ F.listed = fin[f].listed
  BY UploadFailedFin
<1>2. fin[f].now = {p} /\ UNCHANGED <<acked, spool, store, closing>>
  BY DEF UploadFailed, chunks, history
<1>3. fin[f].pc = "uploading"
  BY <1>2, FinParts DEF Uploads
<1>4. Faithful(fin[f])
  BY <1>3 DEF Secured
<1>5. Faithful(F)
  <2>1. \A q \in Paths \ F.listed : spool[q] = {}
    BY <1>1, <1>4 DEF Faithful
  <2>2. ASSUME NEW q \in F.listed \ (F.todo \union F.now)
        PROVE  q[1] \in F.failed \/ spool[q] \subseteq store[q]
    <3>1. CASE q[1] = p[1]
      BY <1>1, <3>1
    <3>2. CASE q[1] # p[1]
      <4>1. q \in fin[f].listed \ (fin[f].todo \union fin[f].now)
        BY <1>1, <1>2, <3>2
      <4> QED
        BY <1>1, <1>4, <4>1 DEF Faithful
    <3> QED
      BY <3>1, <3>2
  <2>3. \A q \in F.now : F.sent = spool[q] /\ spool[q] # {}
    BY <1>1
  <2> QED
    BY <2>1, <2>2, <2>3 DEF Faithful
<1> QED
  BY <1>1, <1>2, <1>5, SecuredFin

\* The end of an upload: what is removed from the spool is in its object, and
\* what the object held before is in what replaces it.
LEMMA UploadDoneSecured ==
    ASSUME FileTypes, FinTypes, Secured, NEW f \in Finalizers, NEW p \in Paths,
           UploadDone(f, p), closing,
           \A g \in Finalizers : g # f => fin[g].pc = "idle"
    PROVE  Secured'
<1>1. fin[f].now = {p} /\ UNCHANGED <<acked, closing>>
  BY DEF UploadDone, chunks, history
<1>2. fin[f].pc = "uploading"
  BY <1>1, FinParts DEF Uploads
<1>3. Faithful(fin[f])
  BY <1>2 DEF Secured
<1>4. fin[f].sent = spool[p] /\ spool[p] # {} /\ store[p] \subseteq spool[p]
  BY <1>1, <1>3 DEF Faithful, Secured
<1>5. PICK F : /\ Only(f, F)
               /\ F.pc = "upload" /\ F.now = {} /\ F.todo = fin[f].todo
               /\ F.failed = fin[f].failed /\ F.listed = fin[f].listed
  BY <1>4, UploadDoneFin
<1>6. /\ store' \in [Paths -> SUBSET Chunks] /\ store'[p] = spool[p]
      /\ \A q \in Paths : q # p => store'[q] = store[q]
  BY <1>4 DEF UploadDone, FileTypes
<1> DEFINE last == p[1] \notin fin[f].failed /\ \A q \in fin[f].todo : q[1] # p[1]
           cleared(q) == last /\ q[1] = p[1] /\ q \in fin[f].listed
<1>7. /\ \A q \in Paths : cleared(q) => spool'[q] = {}
      /\ \A q \in Paths : ~ cleared(q) => spool'[q] = spool[q]
  BY <1>4 DEF UploadDone
<1>8. ASSUME NEW q \in Paths, cleared(q) PROVE spool[q] \subseteq store'[q]
  <2>1. CASE q = p
    BY <1>6, <2>1
  <2>2. CASE q # p
    <3>1. q \in fin[f].listed \ (fin[f].todo \union fin[f].now) /\ q[1] \notin fin[f].failed
      BY <1>1, <1>8, <2>2
    <3> QED
      BY <1>3, <1>6, <2>2, <3>1 DEF Faithful
  <2> QED
    BY <2>1, <2>2
<1> HIDE DEF cleared
<1>9. \A q \in Paths : spool[q] \subseteq spool'[q] \union store'[q]
  BY <1>7, <1>8
<1>10. \A q \in Paths : store[q] \subseteq store'[q]
  BY <1>4, <1>6
<1>11. acked' \subseteq Content(spool') \union Content(store')
  <2> SUFFICES ASSUME NEW c \in acked
               PROVE  \E q \in Paths : c \in spool'[q] \union store'[q]
    BY <1>1 DEF Content
  <2>1. PICK q \in Paths : c \in spool[q] \union store[q]
    BY DEF Secured, Content
  <2> QED
    BY <1>9, <1>10, <2>1
<1>12. \A q \in Paths : spool'[q] = {} \/ store'[q] \subseteq spool'[q]
  BY <1>6, <1>7 DEF Secured
<1>13. Faithful(F)'
  <2>1. \A q \in Paths \ F.listed : spool'[q] = {}
    BY <1>3, <1>5, <1>7 DEF Faithful
  <2>2. ASSUME NEW q \in F.listed \ F.todo, q[1] \notin F.failed
        PROVE  spool'[q] \subseteq store'[q]
    <3>1. q \in Paths
      BY <1>5, FinParts
    <3>2. CASE q = p
      BY <1>6, <1>7, <3>1, <3>2
    <3>3. CASE q # p
      <4>1. spool[q] \subseteq store[q]
        BY <1>1, <1>3, <1>5, <2>2, <3>3 DEF Faithful
      <4> QED
        BY <1>6, <1>7, <3>1, <3>3, <4>1
    <3> QED
      BY <3>2, <3>3
  <2> QED
    BY <1>5, <2>1, <2>2 DEF Faithful
<1>14. ASSUME NEW g \in Finalizers, fin'[g].pc \in {"upload", "uploading"}
       PROVE  Faithful(fin[g])'
  <2>1. g = f /\ fin'[f] = F
    BY <1>5, <1>14, OnlyOne
  <2> QED
    BY <1>13, <2>1 DEF Faithful
<1> QED
  BY <1>1, <1>11, <1>12, <1>14 DEF Secured, Content

\* The directory is removed when all that is in it is in object storage.
LEMMA CleanupSecured ==
    ASSUME FileTypes, FinTypes, Secured, NEW f \in Finalizers, Cleanup(f), closing,
           \A g \in Finalizers : g # f => fin[g].pc = "idle"
    PROVE  Secured'
<1>1. /\ fin[f].pc = "upload" /\ fin[f].todo = {} /\ fin[f].failed = {}
      /\ spool' = [p \in Paths |-> {}] /\ UNCHANGED <<acked, store, closing>>
  BY DEF Cleanup, chunks, history
<1>2. fin[f].now = {} /\ Faithful(fin[f])
  BY <1>1, FinParts DEF Uploads, Secured
<1>3. \A p \in Paths : spool[p] \subseteq store[p]
  <2> SUFFICES ASSUME NEW p \in Paths PROVE spool[p] \subseteq store[p]
    OBVIOUS
  <2>1. CASE p \in fin[f].listed
    BY <1>1, <1>2, <2>1 DEF Faithful
  <2>2. CASE p \notin fin[f].listed
    BY <1>2, <2>2 DEF Faithful
  <2> QED
    BY <2>1, <2>2
<1>4. acked' \subseteq Content(spool') \union Content(store')
  <2> SUFFICES ASSUME NEW c \in acked PROVE \E q \in Paths : c \in store[q]
    BY <1>1 DEF Content
  <2>1. PICK q \in Paths : c \in spool[q] \union store[q]
    BY DEF Secured, Content
  <2> QED
    BY <1>3, <2>1
<1>5. \A q \in Paths : spool'[q] = {}
  BY <1>1
<1>6. PICK F : Only(f, F) /\ F.pc = "cleanup"
  BY CleanupFin
<1>7. \A g \in Finalizers : fin'[g].pc \notin {"upload", "uploading"}
  BY <1>6, OnlyOne
<1> QED
  BY <1>1, <1>4, <1>5, <1>7 DEF Secured, Content

LEMMA KeptStep == Types /\ Once /\ Kept /\ [Next]_vars => Kept'
<1> SUFFICES ASSUME Types, Once, Kept, [Next]_vars, Undisturbed' PROVE Secured'
  BY DEF Kept
<1>0. FileTypes /\ FinTypes /\ reopens \in Nat
  BY Constants DEF Types, OtherTypes
<1>1. CASE Aside
  <2>1. UNCHANGED <<acked, spool, store, fin, closing, late, swept, reopens>>
    BY <1>1, AsideFrame
  <2> QED
    BY <2>1 DEF Kept, Undisturbed, Secured, Faithful, Content
<1>2. CASE ReopenSession
  BY <1>0, <1>2 DEF ReopenSession, Undisturbed
<1>3. ASSUME NEW h \in handlers, AppendChunk(h) PROVE Secured'
  <2>1. /\ h.chunk \in Chunks /\ h.path \in Paths
        /\ acked' = acked \union {h.chunk}
        /\ spool' = [spool EXCEPT ![h.path] = @ \union {h.chunk}]
        /\ late' = (late \/ closing)
        /\ UNCHANGED <<store, fin, closing, swept, reopens>>
    BY <1>0, <1>3 DEF AppendChunk, FileTypes
  <2>2. Undisturbed /\ ~closing
    BY <2>1 DEF Undisturbed
  <2>3. Secured /\ \A f \in Finalizers : fin[f].pc = "idle"
    BY <2>2 DEF Kept, Once, Undisturbed
  <2>4. \A p \in Paths : store[p] = {}
    BY <2>2, <2>3 DEF Secured
  <2>5. \A p \in Paths : spool[p] \subseteq spool'[p]
    BY <1>0, <2>1 DEF FileTypes
  <2>6. h.chunk \in spool'[h.path]
    BY <1>0, <2>1 DEF FileTypes
  <2>7. acked' \subseteq Content(spool') \union Content(store')
    <3> SUFFICES ASSUME NEW c \in acked'
                 PROVE  \E q \in Paths : c \in spool'[q] \union store'[q]
      BY DEF Content
    <3>1. CASE c = h.chunk
      BY <2>1, <2>6, <3>1
    <3>2. CASE c \in acked
      <4>1. PICK q \in Paths : c \in spool[q] \union store[q]
        BY <2>3, <3>2 DEF Secured, Content
      <4> QED
        BY <2>1, <2>5, <4>1
    <3> QED
      BY <2>1, <3>1, <3>2
  <2> QED
    BY <2>1, <2>3, <2>4, <2>7 DEF Secured, Content
<1>4. ASSUME NEW e \in saves, Saved(e) PROVE Secured'
  <2>1. UNCHANGED <<acked, spool, store, fin, closing, late, swept, reopens>>
    BY <1>4 DEF Saved, chunks, history
  <2> QED
    BY <2>1 DEF Kept, Undisturbed, Secured, Faithful, Content
<1>5. CASE SweepListed \/ SweepCleaned \/ SweepDropped
  <2>1. swept'
    BY <1>5 DEF SweepListed, SweepCleaned, SweepDropped, Types, Sweeping, history
  <2> QED
    BY <2>1 DEF Undisturbed
<1>6. CASE Crash
  <2>1. /\ UNCHANGED <<acked, spool, store, closing, late, swept, reopens>>
        /\ fin' = [f \in Finalizers |-> Idle]
    BY <1>6 DEF Crash, Fault
  <2>2. \A f \in Finalizers : fin'[f].pc \notin {"upload", "uploading"}
    BY <2>1 DEF Idle
  <2> QED
    BY <2>1, <2>2 DEF Kept, Undisturbed, Secured, Content
<1>7. CASE HandleFinalize
  <2>1. /\ UNCHANGED <<acked, spool, store, late, swept, reopens>> /\ closing' = TRUE
        /\ UNCHANGED fin \/ Begin("handler")
    BY <1>7 DEF HandleFinalize, chunks
  <2>2. Secured
    BY <2>1 DEF Kept, Undisturbed
  <2>3. CASE UNCHANGED fin
    BY <2>1, <2>2, <2>3 DEF Secured, Faithful, Content
  <2>4. CASE Begin("handler")
    BY <1>0, <2>1, <2>2, <2>4, BeginSecured DEF Finalizers
  <2> QED
    BY <2>1, <2>3, <2>4
<1>8. CASE RetryFinalize
  <2>1. UNCHANGED <<acked, spool, store, closing, late, swept, reopens>> /\ Begin("retry")
    BY <1>8 DEF RetryFinalize, chunks, history
  <2>2. Secured
    BY <2>1 DEF Kept, Undisturbed
  <2> QED
    BY <1>0, <2>1, <2>2, BeginSecured DEF Finalizers
<1>9. ASSUME NEW f \in Finalizers, Finalize(f) PROVE Secured'
  <2>1. UNCHANGED <<acked, closing, late, swept, reopens>>
    BY <1>9, FinalizeFrame
  <2>2. Secured /\ reopens = 0
    BY <2>1 DEF Kept, Undisturbed
  <2>3. fin[f].pc # "idle"
    BY <1>0, <1>9, FinParts DEF Finalize, StartUpload, FileGone, UploadDone, UploadFailed, Cleanup,
       Forget, Leftover, Uploads
  <2>4. closing /\ \A g \in Finalizers : g # f => fin[g].pc = "idle"
    BY <2>2, <2>3 DEF Once, Finalizers
  <2>5. ASSUME NEW p \in Paths, StartUpload(f, p) PROVE Secured'
    BY <1>0, <2>2, <2>5, StartUploadSecured
  <2>6. ASSUME NEW p \in Paths, UploadDone(f, p) PROVE Secured'
    BY <1>0, <2>2, <2>4, <2>6, UploadDoneSecured
  <2>7. ASSUME NEW p \in Paths, UploadFailed(f, p) PROVE Secured'
    BY <1>0, <2>2, <2>7, UploadFailedSecured
  <2>8. CASE Cleanup(f)
    BY <1>0, <2>2, <2>4, <2>8, CleanupSecured
  <2>9. ASSUME Forget(f) \/ Leftover(f) \/ \E p \in Paths : FileGone(f, p)
        PROVE  Secured'
    <3>1. Only(f, Idle)
      BY <1>0, <2>9, IdleFin
    <3>2. UNCHANGED <<acked, spool, store, closing>>
      BY <2>9 DEF Forget, Leftover, FileGone, chunks, history
    <3>3. Idle.pc \notin {"upload", "uploading"}
      BY DEF Idle
    <3> QED
      BY <1>0, <2>2, <3>1, <3>2, <3>3, SecuredFin
  <2> QED
    BY <1>9, <2>5, <2>6, <2>7, <2>8, <2>9 DEF Finalize
<1>10. CASE UNCHANGED vars
  <2>1. UNCHANGED <<acked, spool, store, fin, closing, late, swept, reopens>>
    BY <1>10 DEF vars, chunks, history
  <2> QED
    BY <2>1 DEF Kept, Undisturbed, Secured, Faithful, Content
<1> QED
  BY <1>1, <1>2, <1>3, <1>4, <1>5, <1>6, <1>7, <1>8, <1>9, <1>10 DEF Next, Aside

------------------------------------------------------------------------------
(***************************************************************************)
(* Segments.                                                                *)
(***************************************************************************)

\* Nothing new is written for any segment.
LEMMA OwnedKept ==
    ASSUME Owned, UNCHANGED entry,
           \A s \in Segments, t \in 1 .. MaxTokens : From(s, t)' => From(s, t)
    PROVE  Owned'
  BY DEF Owned

LEMMA HandleRegisterOwned ==
    ASSUME Registry, Owned, NEW t \in registers, HandleRegister(t)
    PROVE  Owned'
<1>1. /\ entry' = [token |-> t, segment |-> IF entry = None THEN 0 ELSE entry.segment + 1]
      /\ UNCHANGED <<spool, handlers>>
  BY DEF HandleRegister, chunks
<1>2. entry \in Entries /\ t \in Nat /\ t > 0
  BY DEF Registry
<1>3. entry' # None
  BY <1>1, <1>2 DEF None
<1> SUFFICES ASSUME NEW s \in Segments, NEW u \in 1 .. MaxTokens, From(s, u)'
             PROVE  /\ entry' # None /\ s <= entry'.segment
                    /\ s = entry'.segment => u = entry'.token
                    /\ \A v \in 1 .. MaxTokens : From(s, v)' => u = v
  BY DEF Owned
<1>4. \A v \in 1 .. MaxTokens : From(s, v)' <=> From(s, v)
  BY <1>1 DEF From
<1>5. entry # None /\ s <= entry.segment /\ \A v \in 1 .. MaxTokens : From(s, v) => u = v
  BY <1>4 DEF Owned
<1>6. s < entry'.segment
  BY <1>1, <1>2, <1>5 DEF Entries, Segments
<1>7. s <= entry'.segment /\ s # entry'.segment
  BY <1>1, <1>2, <1>5, <1>6 DEF Entries, Segments
<1> QED
  BY <1>3, <1>4, <1>5, <1>7

LEMMA AcceptChunkOwned ==
    ASSUME Registry, Owned, NEW k \in Kinds, AcceptChunk(k)
    PROVE  Owned'
<1>1. PICK h : /\ h.path[2] = entry.segment /\ h.chunk[1] = entry.token
               /\ handlers' = handlers \union {h}
  BY DEF AcceptChunk
<1>2. entry # None /\ UNCHANGED <<entry, spool>>
  BY DEF AcceptChunk, memory
<1>3. \A s, t : From(s, t)' => (From(s, t) \/ (s = entry.segment /\ t = entry.token))
  BY <1>1, <1>2 DEF From
<1>4. entry.segment \in Nat
  BY DEF Registry, Entries, Segments
<1> SUFFICES ASSUME NEW s \in Segments, NEW u \in 1 .. MaxTokens, From(s, u)'
             PROVE  /\ s <= entry.segment
                    /\ s = entry.segment => u = entry.token
                    /\ \A v \in 1 .. MaxTokens : From(s, v)' => u = v
  BY <1>2 DEF Owned
<1>5. s <= entry.segment /\ (s = entry.segment => u = entry.token)
  BY <1>3, <1>4 DEF Owned
<1>6. ASSUME NEW v \in 1 .. MaxTokens, From(s, v)' PROVE u = v
  <2>1. s = entry.segment => v = entry.token
    BY <1>3, <1>6 DEF Owned
  <2>2. CASE s = entry.segment
    BY <1>5, <2>1, <2>2
  <2>3. CASE s # entry.segment
    BY <1>3, <1>6, <2>3 DEF Owned
  <2> QED
    BY <2>2, <2>3
<1> QED
  BY <1>5, <1>6

LEMMA PureStep == Types /\ Once /\ Pure /\ [Next]_vars => Pure'
<1> SUFFICES ASSUME Types, Once, Pure, [Next]_vars,
                    ~closing', reopens' = 0, ~outdated', ~swept'
             PROVE  Owned'
  BY DEF Pure
<1>0. Registry /\ FileTypes /\ FinTypes /\ reopens \in Nat
  BY Constants DEF Types, OtherTypes
<1>1. ASSUME UNCHANGED <<closing, reopens, outdated, swept>>
      PROVE  /\ Owned /\ ~closing /\ attempts = 0
             /\ \A f \in Finalizers : fin[f].pc = "idle"
  BY <1>1 DEF Pure, Once
<1>2. ASSUME UNCHANGED <<closing, reopens, outdated, swept, entry>>,
             \A s \in Segments, t \in 1 .. MaxTokens : From(s, t)' => From(s, t)
      PROVE  Owned'
  BY <1>1, <1>2, OwnedKept
<1>3. CASE \/ StartSession \/ Reconnect \/ AnswerLost \/ Reload \/ EndSession \/ CommitEnd
           \/ \E t \in registers : RegisterLost(t)
  <2>1. UNCHANGED <<closing, reopens, outdated, swept, entry, spool, handlers>>
    BY <1>3 DEF StartSession, Reconnect, AnswerLost, NewToken, Reload, Fault, EndSession, CommitEnd, RegisterLost, memory, chunks, history
  <2> QED
    BY <1>2, <2>1 DEF From
<1>4. ASSUME NEW t \in registers, HandleRegister(t) PROVE Owned'
  <2>1. UNCHANGED <<closing, reopens, outdated, swept>>
    BY <1>4 DEF HandleRegister, history
  <2> QED
    BY <1>0, <1>1, <1>4, <2>1, HandleRegisterOwned
<1>5. ASSUME NEW k \in Kinds, AcceptChunk(k) PROVE Owned'
  <2>1. UNCHANGED <<closing, reopens, outdated, swept>>
    BY <1>5 DEF AcceptChunk, history
  <2> QED
    BY <1>0, <1>1, <1>5, <2>1, AcceptChunkOwned
<1>6. ASSUME NEW h \in handlers, AppendChunk(h) PROVE Owned'
  <2>1. /\ UNCHANGED <<closing, reopens, outdated, swept, entry>>
        /\ handlers' = handlers \ {h}
        /\ spool' = [spool EXCEPT ![h.path] = @ \union {h.chunk}]
    BY <1>6 DEF AppendChunk, memory
  <2>2. h.path \in Paths
    BY <1>0 DEF FileTypes
  <2>3. \A p \in Paths : \A c \in spool'[p] : c \in spool[p] \/ (p = h.path /\ c = h.chunk)
    BY <1>0, <2>1, <2>2 DEF FileTypes
  <2>4. \A s, t : From(s, t)' => From(s, t)
    BY <2>1, <2>3 DEF From
  <2> QED
    BY <1>2, <2>1, <2>4
<1>7. ASSUME NEW e \in saves, Saved(e) PROVE Owned'
  <2>1. UNCHANGED <<closing, reopens, outdated, swept, entry, spool, handlers>>
    BY <1>7 DEF Saved, memory, chunks, history
  <2> QED
    BY <1>2, <2>1 DEF From
<1>8. CASE SweepListed \/ SweepCleaned \/ SweepDropped
  <2>1. swept'
    BY <1>8 DEF SweepListed, SweepCleaned, SweepDropped, Types, Sweeping, history
  <2> QED
    BY <2>1
<1>9. CASE Crash
  <2>1. /\ UNCHANGED <<closing, reopens, swept, spool>> /\ handlers' = {}
        /\ entry' = disk.entry /\ outdated' = (outdated \/ disk.entry # entry)
    BY <1>9 DEF Crash, Fault
  <2>2. ~outdated /\ entry' = entry
    BY <2>1
  <2>3. Owned
    BY <2>1, <2>2 DEF Pure
  <2>4. \A s, t : From(s, t)' => From(s, t)
    BY <2>1 DEF From
  <2> QED
    BY <2>2, <2>3, <2>4, OwnedKept
<1>10. CASE ReopenSession \/ HandleFinalize
  BY <1>0, <1>10 DEF ReopenSession, HandleFinalize
<1>11. CASE RetryFinalize
  BY <1>1, <1>11 DEF RetryFinalize, history
<1>12. ASSUME NEW f \in Finalizers, Finalize(f) PROVE Owned'
  <2>1. UNCHANGED <<closing, reopens, outdated, swept>>
    BY <1>12, FinalizeFrame
  <2>2. fin[f].pc # "idle"
    BY <1>0, <1>12, FinParts DEF Finalize, StartUpload, FileGone, UploadDone, UploadFailed, Cleanup,
       Forget, Leftover, Uploads
  <2> QED
    BY <1>1, <2>1, <2>2
<1>13. CASE UNCHANGED vars
  <2>1. UNCHANGED <<closing, reopens, outdated, swept, entry, spool, handlers>>
    BY <1>13 DEF vars, memory, chunks, history
  <2> QED
    BY <1>2, <2>1 DEF From
<1> QED
  BY <1>3, <1>4, <1>5, <1>6, <1>7, <1>8, <1>9, <1>10, <1>11, <1>12, <1>13 DEF Next

------------------------------------------------------------------------------
(***************************************************************************)
(* The theorems.                                                            *)
(***************************************************************************)

LEMMA InvInit == Init => Inv
<1> SUFFICES ASSUME Init PROVE Inv
  OBVIOUS
<1>1. Registry
  <2>1. Known = {None}
    BY DEF Init, Known
  <2>2. disk \in [entry : Entries, attempts : 0 .. MaxAttempts]
    BY Constants DEF Init
  <2>3. issued \in 0 .. MaxTokens /\ registers \subseteq 1 .. issued
    BY Constants DEF Init
  <2>4. entry \in Entries /\ saves \subseteq Entries
    BY Constants DEF Init
  <2> QED
    BY <2>1, <2>2, <2>3, <2>4 DEF Registry, Counted
<1>9. PageTypes /\ Sweeping
  BY Constants DEF Init, PageTypes, Sweeping, Recorders
<1>2. FileTypes
  <2>1. handlers = {} /\ acked = {} /\ accepted \in 0 .. MaxChunks
    BY Constants DEF Init
  <2>2. spool \in [Paths -> SUBSET Chunks] /\ store \in [Paths -> SUBSET Chunks]
    BY DEF Init
  <2> QED
    BY <2>1, <2>2 DEF FileTypes
<1>3. /\ FinTypes /\ \A f \in Finalizers : fin[f].pc = "idle"
  BY IdleRecord DEF Init, FinTypes, Idle
<1>4. OtherTypes
  <2>1. closing \in BOOLEAN /\ late \in BOOLEAN /\ outdated \in BOOLEAN /\ swept \in BOOLEAN
    BY DEF Init
  <2>2. /\ row \in {"none", "active", "ended"} /\ ending \in {"no", "sent", "waiting"}
        /\ attempts \in 0 .. MaxAttempts /\ reopens \in 0 .. MaxFaults
        /\ orphan \in 0 .. MaxAttempts /\ faults \in 0 .. MaxFaults
        /\ sweep \in {"no", "listed", "cleaned"}
    BY Constants DEF Init
  <2> QED
    BY <2>1, <2>2 DEF OtherTypes
<1>5. Once
  <2>1. ~closing
    BY DEF Init
  <2>2. attempts = 0 /\ disk.attempts = 0
    BY DEF Init
  <2> QED
    BY <1>3, <2>1, <2>2 DEF Once, Finalizers
<1>6. (\A p \in Paths : spool[p] = {} /\ store[p] = {}) /\ acked = {} /\ handlers = {}
  BY DEF Init
<1>7. Kept
  BY <1>3, <1>6 DEF Kept, Secured
<1>8. Pure
  BY <1>6 DEF Pure, Owned, From
<1> QED
  BY <1>1, <1>2, <1>3, <1>4, <1>5, <1>7, <1>8, <1>9 DEF Inv, Types

LEMMA InvStep == Inv /\ [Next]_vars => Inv'
  BY TypesStep, OnceStep, KeptStep, PureStep DEF Inv

\* The invariant holds of every step of the recording service, its callers and
\* its crashes (proctor2/main.py:264-510).
THEOREM InvAlways == Safety => []Inv
  BY InvInit, InvStep, PTL DEF Safety

LEMMA TypesImply == Types => TypeOK
<1> SUFFICES ASSUME Types PROVE TypeOK
  OBVIOUS
<1>1. /\ row \in {"none", "active", "ended"} /\ issued \in 0 .. MaxTokens
      /\ registers \subseteq 1 .. issued /\ ending \in {"no", "sent", "waiting"}
      /\ {attempts, orphan, disk.attempts} \subseteq 0 .. MaxAttempts
      /\ {reopens, faults} \subseteq 0 .. MaxFaults
      /\ page \in [token : 0 .. issued, stored : 0 .. issued, recorder : 0 .. faults + 1]
      /\ sweep \in {"no", "listed", "cleaned"}
  BY DEF Types, OtherTypes, PageTypes, Registry
<1>2. ({entry, disk.entry} \union saves) \subseteq Entries
  BY DEF Types, Registry
<1>3. /\ handlers \subseteq [chunk : Chunks, path : Paths] /\ accepted \in 0 .. MaxChunks
      /\ acked \subseteq Chunks /\ {spool, store} \subseteq [Paths -> SUBSET Chunks]
  BY DEF Types, FileTypes
<1>4. {closing, late, outdated, swept} \subseteq BOOLEAN
  BY DEF Types, OtherTypes
<1>5. ASSUME NEW f \in Finalizers
      PROVE  /\ fin[f].pc \in {"idle", "upload", "uploading", "cleanup"}
             /\ fin[f].now \subseteq fin[f].listed /\ Cardinality(fin[f].now) <= 1
             /\ fin[f].todo \subseteq fin[f].listed /\ fin[f].listed \subseteq Paths
             /\ fin[f].sent \subseteq Chunks /\ fin[f].failed \subseteq Kinds
  <2>1. /\ Uploads(fin[f])
        /\ fin[f].pc \in {"idle", "upload", "uploading", "cleanup"}
        /\ fin[f].sent \subseteq Chunks /\ fin[f].failed \subseteq Kinds
        /\ fin[f].listed \subseteq Paths
    BY FinParts DEF Types
  <2>2. fin[f].now \subseteq fin[f].listed /\ fin[f].todo \subseteq fin[f].listed
    BY <2>1 DEF Uploads
  <2>3. Cardinality(fin[f].now) \in {0, 1}
    <3>1. CASE fin[f].now = {}
      BY <3>1, FS_EmptySet
    <3>2. ASSUME NEW p, fin[f].now = {p} PROVE Cardinality(fin[f].now) = 1
      BY <3>2, FS_Singleton
    <3> QED
      BY <2>1, <3>1, <3>2 DEF Uploads
  <2> QED
    BY <2>1, <2>2, <2>3
<1> QED
  BY <1>1, <1>2, <1>3, <1>4, <1>5 DEF TypeOK

\* The state of the service stays well typed (proctor2/main.py:264-510): a segment is
\* never numbered beyond the tokens issued, and a finalizer uploads one file
\* at a time, of those it listed.
THEOREM TypeCorrect == Safety => []TypeOK
<1>1. Inv => TypeOK
  BY TypesImply DEF Inv
<1> QED
  BY <1>1, InvAlways, PTL

\* A chunk that was acknowledged is in the spool or in object storage, through
\* failed uploads, retries and crashes at every step of a finalization
\* (proctor2/main.py:400-510).
THEOREM AckedAlwaysKept == Safety => []AckedKept
<1>1. Inv => AckedKept
  <2> SUFFICES ASSUME Inv, ~late, ~swept, ~(reopens > 0)
               PROVE  acked \subseteq Content(spool) \union Content(store)
    BY DEF AckedKept
  <2>1. reopens = 0
    BY Constants DEF Inv, Types, OtherTypes
  <2> QED
    BY <2>1 DEF Inv, Kept, Undisturbed, Secured
<1> QED
  BY <1>1, InvAlways, PTL

\* The files of a segment hold the chunks sent with one token, in whatever order
\* chunks and registrations are handled, whichever recorder captured them and
\* whether or not the page was loaded again (proctor2/main.py:137-151, 337).
THEOREM SegmentsAlwaysPure == Safety => []SegmentsPure
<1>1. Inv => SegmentsPure
  <2> SUFFICES ASSUME Inv, ~closing, ~(reopens > 0), ~outdated, ~swept,
                      NEW p \in Paths, NEW c \in spool[p], NEW d \in spool[p]
               PROVE  c[1] = d[1]
    BY DEF SegmentsPure
  <2>1. reopens = 0 /\ FileTypes
    BY Constants DEF Inv, Types, OtherTypes
  <2>2. Owned
    BY <2>1 DEF Inv, Pure
  <2>3. p[2] \in Segments /\ c[1] \in 1 .. MaxTokens /\ d[1] \in 1 .. MaxTokens
    BY <2>1 DEF FileTypes, Paths, Chunks
  <2>4. From(p[2], c[1]) /\ From(p[2], d[1])
    BY DEF From
  <2> QED
    BY <2>2, <2>3, <2>4 DEF Owned
<1> QED
  BY <1>1, InvAlways, PTL
=============================================================================
