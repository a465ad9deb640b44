---------------------------- MODULE ChunkUploader ----------------------------
(***************************************************************************)
(* The chunk uploader of the in-exam page (makeUploader,                    *)
(* src/web/static/js/proctor.js:151-231), the network between it and the    *)
(* recording service, and the append of a chunk to the spool file           *)
(* (handle_chunk, src/proctor2/main.py:311-360).                            *)
(*                                                                          *)
(* `pending` holds chunks that are pushed at its end in the order of their  *)
(* numbers and only ever shifted from its front, so it is the window        *)
(* head .. seq-1.  drain() is one asynchronous loop; it is represented by   *)
(* what it awaits.  A request given up by the client stays in the network   *)
(* and may reach the service at any later time, or never (lost, refused).  *)
(***************************************************************************)
EXTENDS Naturals, Sequences, FiniteSets

CONSTANTS
    RetryBufferMax,   \* RETRY_BUFFER_MAX
    MaxAttempts,      \* MAX_ATTEMPTS
    MaxChunks         \* bound: chunks the recorder captures

ASSUME RetryBufferAssumption == RetryBufferMax \in Nat \ {0}
ASSUME MaxAttemptsAssumption == MaxAttempts \in Nat \ {0}
ASSUME MaxChunksAssumption == MaxChunks \in Nat

VARIABLES
    seq,       \* number of the next chunk
    head,      \* number of the chunk at the front of `pending`
    working,   \* what drain() awaits: "idle", "sending" or "backoff"
    item,      \* the chunk drain() has in hand
    attempt,   \* failed attempts of each chunk
    network,   \* requests <<chunk, attempt>> the service has not seen yet
    replied,   \* the service has stored the request drain() awaits
    spool,     \* the spool file: chunk numbers in the order of their append
    warnings   \* client_warning events about dropped chunks

client == <<seq, head, working, item, attempt, warnings>>
vars == <<seq, head, working, item, attempt, network, replied, spool, warnings>>

Chunks == 0 .. MaxChunks - 1
Requests == Chunks \X (0 .. MaxAttempts - 1)

TypeOK ==
    /\ seq \in 0 .. MaxChunks
    /\ head \in 0 .. seq
    /\ working \in {"idle", "sending", "backoff"}
    /\ item \in Nat
    /\ working # "idle" => item \in Chunks
    /\ attempt \in [Chunks -> 0 .. MaxAttempts]
    /\ network \subseteq Requests
    /\ replied \in BOOLEAN
    /\ spool \in Seq(Chunks)
    /\ warnings \in Nat

Init ==
    /\ seq = 0
    /\ head = 0
    /\ working = "idle"
    /\ item = 0
    /\ attempt = [c \in Chunks |-> 0]
    /\ network = {}
    /\ replied = FALSE
    /\ spool = <<>>
    /\ warnings = 0

------------------------------------------------------------------------------
(***************************************************************************)
(* The client.                                                              *)
(***************************************************************************)

\* The while loop of drain() from its condition to the next fetch: it takes
\* the chunk at the front of a window `from .. to-1`, or ends.
TakeNext(from, to) ==
    /\ replied' = FALSE
    /\ IF from < to
       THEN /\ working' = "sending"
            /\ item' = from
            /\ network' = network \cup {<<from, attempt'[from]>>}
       ELSE /\ working' = "idle"
            /\ UNCHANGED <<item, network>>

\* Mutant of Enqueue: the chunk a full buffer loses is not reported.
EnqueueSilently ==
    /\ seq < MaxChunks
    /\ head' = IF seq - head >= RetryBufferMax THEN head + 1 ELSE head
    /\ seq' = seq + 1
    /\ UNCHANGED <<attempt, spool, warnings>>
    /\ IF working = "idle"
       THEN TakeNext(head', seq')
       ELSE UNCHANGED <<working, item, network, replied>>

\* The recorder hands over a chunk. A full buffer loses its front with a
\* warning; drain() returns at once when its loop is running.
Enqueue ==
    /\ seq < MaxChunks
    /\ LET full == seq - head >= RetryBufferMax IN
       /\ head' = IF full THEN head + 1 ELSE head
       /\ warnings' = IF full THEN warnings + 1 ELSE warnings
    /\ seq' = seq + 1
    /\ UNCHANGED <<attempt, spool>>
    /\ IF working = "idle"
       THEN TakeNext(head', seq')
       ELSE UNCHANGED <<working, item, network, replied>>

\* Mutant of ReplyOk: the loop does not await the request.
ReplyOkAtOnce ==
    /\ working = "sending"
    /\ head' = head + 1
    /\ UNCHANGED <<seq, attempt, spool, warnings>>
    /\ TakeNext(head', seq)

\* The answer of the service arrives: whatever is at the front is shifted.
ReplyOk ==
    /\ working = "sending"
    /\ replied
    /\ head' = head + 1
    /\ UNCHANGED <<seq, attempt, spool, warnings>>
    /\ TakeNext(head', seq)

\* Mutant of Fail: failed attempts are not counted.
FailUncounted ==
    /\ working = "sending"
    /\ working' = "backoff"
    /\ replied' = FALSE
    /\ UNCHANGED <<seq, head, item, attempt, network, spool, warnings>>

\* A refusal, a network error, or the abort after 20 seconds.
Fail ==
    /\ working = "sending"
    /\ attempt' = [attempt EXCEPT ![item] = @ + 1]
    /\ UNCHANGED <<seq, spool>>
    /\ IF attempt'[item] >= MaxAttempts
       THEN /\ warnings' = warnings + 1
            /\ head' = head + 1
            /\ TakeNext(head', seq)
       ELSE /\ working' = "backoff"
            /\ replied' = FALSE
            /\ UNCHANGED <<head, item, network, warnings>>

\* The pause before the next attempt is over; the chunk at the front may be
\* another one by now.
Wake ==
    /\ working = "backoff"
    /\ UNCHANGED <<seq, head, attempt, spool, warnings>>
    /\ TakeNext(head, seq)

------------------------------------------------------------------------------
(***************************************************************************)
(* The network and the service, which appends what it gets and looks at no  *)
(* number.                                                                  *)
(***************************************************************************)

\* handle_chunk appends the body of a request to the spool file.
HandleChunk(r) ==
    /\ network' = network \ {r}
    /\ spool' = Append(spool, r[1])
    /\ replied' = IF working = "sending" /\ r = <<item, attempt[item]>>
                  THEN TRUE ELSE replied
    /\ UNCHANGED client

Next ==
    \/ Enqueue
    \/ ReplyOk
    \/ Fail
    \/ Wake
    \/ \E r \in network : HandleChunk(r)

\* Every fetch settles within 20 seconds, and timers fire.
Fairness == WF_vars(ReplyOk \/ Fail) /\ WF_vars(Wake)

Safety == Init /\ [][Next]_vars
Spec == Safety /\ Fairness

------------------------------------------------------------------------------
(***************************************************************************)
(* Properties.                                                              *)
(***************************************************************************)

Stored == {spool[i] : i \in DOMAIN spool}

\* Chunks shifted out of the buffer that are not in the file.
Lost == {c \in 0 .. head - 1 : c \notin Stored}

\* The chunk drain() waits for may have been shifted out of a full buffer:
\* the answer then shifts a chunk that was never sent.
InHandButGone == {c \in 0 .. head - 1 : working = "sending" /\ c = item}

\* There are at least as many warnings in the event log as chunks missing
\* from the file, although the answer to a chunk that a full buffer has
\* already lost shifts another one without a warning (proctor.js:195,223).
LossAccounted == Cardinality(Lost) <= warnings

\* The inductive form: a chunk in hand that is out of the buffer counts as
\* missing even when it is stored, for its answer will cost another chunk.
LossAccountedInv == Cardinality(Lost \cup InHandButGone) <= warnings

\* What is in the file twice, or behind a chunk captured after it, is a chunk of
\* which an attempt failed: a chunk that never failed is in the file at most once and
\* before every chunk captured later.  An earlier one that was given up may still come
\* behind it.  The service appends by arrival, so this rests on drain() having one
\* request under way at a time.
CleanInOrder ==
    \A i, j \in DOMAIN spool :
        i < j /\ spool[i] >= spool[j] => attempt[spool[j]] > 0

\* Every chunk is settled: the loop neither sticks to a chunk nor ends with
\* chunks in the buffer.
ChunksSettle == \A c \in Chunks : c < seq ~> c < head

\* What the examiner is promised (module Recording).
Promise == INSTANCE Recording WITH
    captured <- seq, settled <- head, file <- spool

Accountable == Promise!Spec

\* "old ones already had their share of retry attempts" (proctor.js:221-222):
\* a chunk that is given up was sent at least once.
DroppedWereTried == \A c \in 0 .. head - 1 : c \in Stored \/ attempt[c] > 0
==============================================================================
