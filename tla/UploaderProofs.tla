---------------------------- MODULE UploaderProofs ----------------------------
(***************************************************************************)
(* Proofs about ChunkUploader: its type invariant, the order of the file,   *)
(* and that it implements Recording, for every buffer size, number of       *)
(* attempts and number of chunks.                                           *)
(*                                                                          *)
(* LossAccounted is not inductive: while drain() waits for a chunk that a   *)
(* full buffer has already lost, the answer will shift a second chunk       *)
(* without a warning.  LossAccountedInv charges that chunk in advance.      *)
(*                                                                          *)
(* CleanInOrder needs the loop's discipline as an invariant of its own,     *)
(* OrderInv: nothing beyond the chunk in hand was ever sent, and a request  *)
(* of a chunk that never failed is the one drain() awaits.                  *)
(***************************************************************************)
EXTENDS ChunkUploader, FiniteSetTheorems, TLAPS

\* The loop runs exactly while the buffer holds chunks, and the chunk in hand
\* is at its front or has been shifted out of it.
LoopInv ==
    /\ working = "idle" <=> head = seq
    /\ working # "idle" => item <= head

\* A chunk that is in the buffer, or in hand, has attempts left.
AttemptsLeft ==
    /\ \A c \in Chunks : c >= head => attempt[c] < MaxAttempts
    /\ working = "sending" => attempt[item] < MaxAttempts

\* Requests are about captured chunks, and an answer means the chunk is stored.
RequestInv ==
    /\ \A r \in network : r[1] < seq
    /\ working = "sending" /\ replied => item \in Stored

Inv ==
    /\ TypeOK
    /\ LoopInv
    /\ AttemptsLeft
    /\ RequestInv
    /\ LossAccountedInv

------------------------------------------------------------------------------
(***************************************************************************)
(* Counting.                                                                *)
(***************************************************************************)

\* A set of numbers below n is finite.
LEMMA FiniteBelow ==
    ASSUME NEW n \in Nat, NEW S, S \subseteq 0 .. n - 1
    PROVE  IsFiniteSet(S) /\ Cardinality(S) \in Nat
<1>1. IsFiniteSet(0 .. n - 1)
  BY FS_Interval
<1> QED
  BY <1>1, FS_Subset, FS_CardinalityType

\* A set that gains at most one element is counted by one warning more.
LEMMA CountOneMore ==
    ASSUME NEW S, IsFiniteSet(S), NEW T, NEW x, T \subseteq S \cup {x},
           NEW w \in Nat, Cardinality(S) <= w
    PROVE  Cardinality(T) <= w + 1
<1>0. Cardinality(S) \in Nat
  BY FS_CardinalityType
<1>a. /\ IsFiniteSet(S \cup {x})
      /\ Cardinality(S \cup {x}) =
            IF x \in S THEN Cardinality(S) ELSE Cardinality(S) + 1
  BY FS_AddElement
<1>1. /\ IsFiniteSet(S \cup {x})
      /\ Cardinality(S \cup {x}) <= Cardinality(S) + 1
  BY <1>0, <1>a
<1>2. Cardinality(T) <= Cardinality(S \cup {x})
  BY <1>1, FS_Subset
<1>3. /\ Cardinality(S) \in Nat
      /\ Cardinality(S \cup {x}) \in Nat
      /\ Cardinality(T) \in Nat
  BY <1>1, FS_CardinalityType, FS_Subset
<1> QED
  BY <1>1, <1>2, <1>3

\* A set that does not grow needs no warning.
LEMMA CountNoMore ==
    ASSUME NEW S, IsFiniteSet(S), NEW T, T \subseteq S,
           NEW w \in Nat, Cardinality(S) <= w
    PROVE  Cardinality(T) <= w
<1>1. Cardinality(T) <= Cardinality(S) /\ IsFiniteSet(T)
  BY FS_Subset
<1>2. Cardinality(S) \in Nat /\ Cardinality(T) \in Nat
  BY <1>1, FS_CardinalityType
<1> QED
  BY <1>1, <1>2

\* One element may take the place of another.
LEMMA CountExchange ==
    ASSUME NEW S, IsFiniteSet(S), NEW x, x \notin S, NEW y, NEW T,
           T \subseteq S \cup {y},
           NEW w \in Nat, Cardinality(S \cup {x}) <= w
    PROVE  Cardinality(T) <= w
<1>1. Cardinality(S) \in Nat
  BY FS_CardinalityType
<1>2. Cardinality(S \cup {x}) = Cardinality(S) + 1
  BY FS_AddElement
<1>3. w - 1 \in Nat /\ Cardinality(S) <= w - 1
  BY <1>1, <1>2
<1>4. Cardinality(T) <= (w - 1) + 1
  BY <1>3, CountOneMore
<1> QED
  BY <1>4
------------------------------------------------------------------------------
(***************************************************************************)
(* One lemma per action: it keeps the invariant.                            *)
(***************************************************************************)

Gone == Lost \cup InHandButGone

LEMMA GoneFinite ==
    ASSUME TypeOK
    PROVE  IsFiniteSet(Gone) /\ IsFiniteSet(Lost)
<1>1. head \in Nat
  BY DEF TypeOK
<1>2. Gone \subseteq 0 .. head - 1 /\ Lost \subseteq 0 .. head - 1
  BY DEF Gone, Lost, InHandButGone
<1> QED
  BY <1>1, <1>2, FiniteBelow

\* All the invariant says except the count of losses.
Shape == TypeOK /\ LoopInv /\ AttemptsLeft /\ RequestInv

\* What the loop of drain() leaves behind, wherever it starts from.
LEMMA TakeNextShape ==
    ASSUME Shape, NEW to \in 0 .. MaxChunks, NEW from \in 0 .. to,
           head' = from, seq' = to, seq <= to,
           attempt' \in [Chunks -> 0 .. MaxAttempts],
           \A c \in Chunks : c >= from => attempt'[c] < MaxAttempts,
           UNCHANGED spool, warnings' \in Nat,
           TakeNext(from, to)
    PROVE  Shape'
<1> USE MaxAttemptsAssumption, MaxChunksAssumption
<1>1. CASE from < to
  <2>1. /\ from \in Chunks
        /\ attempt'[from] \in 0 .. MaxAttempts - 1
    BY <1>1 DEF Chunks
  <2>2. /\ working' = "sending" /\ item' = from /\ replied' = FALSE
        /\ network' = network \cup {<<from, attempt'[from]>>}
    BY <1>1 DEF TakeNext
  <2>3. network' \subseteq Requests
    BY <2>1, <2>2 DEF Shape, TypeOK, Requests
  <2>4. \A r \in network' : r[1] < to
    BY <1>1, <2>1, <2>2 DEF Shape, TypeOK, RequestInv, Requests, Chunks
  <2>5. TypeOK'
    <3>1. replied' \in BOOLEAN
      BY <2>2
    <3>2. working' \in {"idle", "sending", "backoff"} /\ item' \in Nat /\ item' \in Chunks
      BY <2>1, <2>2 DEF Chunks
    <3>3. seq' \in 0 .. MaxChunks /\ head' \in 0 .. seq' /\ spool' \in Seq(Chunks)
      BY DEF Shape, TypeOK
    <3> QED
      BY <2>3, <3>1, <3>2, <3>3 DEF TypeOK
  <2>6. LoopInv' /\ AttemptsLeft' /\ RequestInv'
    BY <1>1, <2>1, <2>2, <2>4 DEF LoopInv, AttemptsLeft, RequestInv
  <2> QED
    BY <2>5, <2>6 DEF Shape
<1>2. CASE ~ (from < to)
  <2>1. /\ working' = "idle" /\ replied' = FALSE
        /\ UNCHANGED <<item, network>>
    BY <1>2 DEF TakeNext
  <2>2. TypeOK'
    BY <2>1 DEF Shape, TypeOK
  <2>3. \A r \in network' : r[1] < to
    BY <2>1 DEF Shape, TypeOK, RequestInv, Requests, Chunks
  <2>4. LoopInv' /\ AttemptsLeft' /\ RequestInv'
    BY <1>2, <2>1, <2>3 DEF LoopInv, AttemptsLeft, RequestInv
  <2> QED
    BY <2>2, <2>4 DEF Shape
<1> QED
  BY <1>1, <1>2

LEMMA EnqueueShape == Shape /\ Enqueue => Shape'
<1> SUFFICES ASSUME Shape, Enqueue PROVE Shape'
  OBVIOUS
<1> USE RetryBufferAssumption, MaxAttemptsAssumption, MaxChunksAssumption
<1>1. /\ seq \in Nat /\ head \in Nat /\ head <= seq /\ seq < MaxChunks
      /\ attempt \in [Chunks -> 0 .. MaxAttempts]
      /\ warnings \in Nat
  BY DEF Shape, TypeOK, Enqueue
<1>2. /\ seq' = seq + 1 /\ UNCHANGED <<attempt, spool>>
      /\ head' \in {head, head + 1} /\ warnings' \in Nat
      /\ head' = head + 1 => seq - head >= RetryBufferMax
  BY <1>1 DEF Enqueue
<1>3. \A c \in Chunks : c >= head' => attempt'[c] < MaxAttempts
  BY <1>1, <1>2 DEF Shape, AttemptsLeft, Chunks
<1>4. CASE working = "idle"
  <2>1. TakeNext(head', seq')
    BY <1>4 DEF Enqueue
  <2>2. seq' \in 0 .. MaxChunks /\ head' \in 0 .. seq' /\ seq <= seq'
    BY <1>1, <1>2
  <2> QED
    BY <1>1, <1>2, <1>3, <2>1, <2>2, TakeNextShape
<1>5. CASE working # "idle"
  <2>1. UNCHANGED <<working, item, network, replied>>
    BY <1>5 DEF Enqueue
  <2>2. head < seq
    BY <1>1, <1>5 DEF Shape, LoopInv
  <2>3. TypeOK'
    BY <1>1, <1>2, <1>5, <2>1 DEF Shape, TypeOK
  <2>4. LoopInv'
    BY <1>1, <1>2, <1>5, <2>1, <2>2 DEF Shape, TypeOK, LoopInv, Chunks
  <2>5. AttemptsLeft'
    BY <1>2, <1>3, <2>1 DEF Shape, AttemptsLeft
  <2>6. RequestInv'
    BY <1>1, <1>2, <2>1 DEF Shape, TypeOK, RequestInv, Requests, Chunks, Stored
  <2> QED
    BY <2>3, <2>4, <2>5, <2>6 DEF Shape
<1> QED
  BY <1>4, <1>5

LEMMA ReplyOkShape == Shape /\ ReplyOk => Shape'
<1> SUFFICES ASSUME Shape, ReplyOk PROVE Shape'
  OBVIOUS
<1> USE MaxAttemptsAssumption, MaxChunksAssumption
<1>1. /\ seq \in 0 .. MaxChunks /\ head \in 0 .. seq /\ head < seq
      /\ attempt \in [Chunks -> 0 .. MaxAttempts]
      /\ warnings \in Nat
  BY DEF Shape, TypeOK, LoopInv, ReplyOk
<1>2. /\ head' = head + 1 /\ UNCHANGED <<seq, attempt, spool, warnings>>
      /\ TakeNext(head', seq)
  BY DEF ReplyOk
<1>3. \A c \in Chunks : c >= head' => attempt'[c] < MaxAttempts
  BY <1>1, <1>2 DEF Shape, AttemptsLeft, Chunks
<1>4. head' \in 0 .. seq /\ seq' = seq /\ seq <= seq
  BY <1>1, <1>2
<1> QED
  BY <1>1, <1>2, <1>3, <1>4, TakeNextShape

LEMMA WakeShape == Shape /\ Wake => Shape'
<1> SUFFICES ASSUME Shape, Wake PROVE Shape'
  OBVIOUS
<1>1. /\ seq \in 0 .. MaxChunks /\ head \in 0 .. seq /\ seq <= seq
      /\ attempt \in [Chunks -> 0 .. MaxAttempts]
      /\ warnings \in Nat
  BY MaxChunksAssumption DEF Shape, TypeOK
<1>2. /\ UNCHANGED <<seq, head, attempt, spool, warnings>>
      /\ TakeNext(head, seq)
  BY DEF Wake
<1>3. \A c \in Chunks : c >= head => attempt'[c] < MaxAttempts
  BY <1>2 DEF Shape, AttemptsLeft
<1> QED
  BY <1>1, <1>2, <1>3, TakeNextShape

LEMMA FailShape == Shape /\ Fail => Shape'
<1> SUFFICES ASSUME Shape, Fail PROVE Shape'
  OBVIOUS
<1> USE MaxAttemptsAssumption, MaxChunksAssumption
<1>1. /\ seq \in 0 .. MaxChunks /\ head \in 0 .. seq /\ head < seq
      /\ attempt \in [Chunks -> 0 .. MaxAttempts]
      /\ warnings \in Nat /\ item \in Chunks /\ item <= head
      /\ attempt[item] < MaxAttempts
  BY DEF Shape, TypeOK, LoopInv, AttemptsLeft, Fail
<1>2. /\ attempt' = [attempt EXCEPT ![item] = @ + 1]
      /\ UNCHANGED <<seq, spool>>
  BY DEF Fail
<1>3. attempt' \in [Chunks -> 0 .. MaxAttempts]
  BY <1>1, <1>2
<1>4. CASE attempt'[item] >= MaxAttempts
  <2>1. warnings' = warnings + 1 /\ head' = head + 1 /\ TakeNext(head', seq)
    BY <1>4 DEF Fail
  <2>2. \A c \in Chunks : c >= head' => attempt'[c] < MaxAttempts
    BY <1>1, <1>2, <2>1 DEF Shape, AttemptsLeft, Chunks
  <2>3. head' \in 0 .. seq /\ seq' = seq /\ seq <= seq /\ warnings' \in Nat
    BY <1>1, <1>2, <2>1
  <2> QED
    BY <1>1, <1>2, <1>3, <2>1, <2>2, <2>3, TakeNextShape
<1>5. CASE ~ (attempt'[item] >= MaxAttempts)
  <2>1. /\ working' = "backoff" /\ replied' = FALSE
        /\ UNCHANGED <<head, item, network, warnings>>
    BY <1>5 DEF Fail
  <2>2. \A c \in Chunks : c >= head' => attempt'[c] < MaxAttempts
    BY <1>1, <1>2, <1>3, <1>5, <2>1 DEF Shape, AttemptsLeft, Chunks
  <2>3. TypeOK'
    BY <1>1, <1>2, <1>3, <2>1 DEF Shape, TypeOK
  <2>4. LoopInv' /\ AttemptsLeft' /\ RequestInv'
    BY <1>1, <1>2, <2>1, <2>2 DEF Shape, LoopInv, AttemptsLeft, RequestInv
  <2> QED
    BY <2>3, <2>4 DEF Shape
<1> QED
  BY <1>4, <1>5

LEMMA HandleChunkShape ==
    ASSUME Shape, NEW r \in network, HandleChunk(r)
    PROVE  Shape' /\ Stored' = Stored \cup {r[1]} /\ r[1] \in Chunks /\ r[1] < seq
<1>1. r[1] \in Chunks /\ r[1] < seq /\ spool \in Seq(Chunks)
  BY DEF Shape, TypeOK, RequestInv, Requests
<1>2. /\ network' = network \ {r} /\ spool' = Append(spool, r[1])
      /\ UNCHANGED <<seq, head, working, item, attempt, warnings>>
  BY DEF HandleChunk, client
<1>3. spool' \in Seq(Chunks) /\ Stored' = Stored \cup {r[1]}
  BY <1>1, <1>2 DEF Stored
<1>4. replied' \in BOOLEAN
  BY DEF HandleChunk, Shape, TypeOK
<1>5. TypeOK'
  BY <1>2, <1>3, <1>4 DEF Shape, TypeOK
<1>6. LoopInv' /\ AttemptsLeft'
  BY <1>2 DEF Shape, LoopInv, AttemptsLeft
<1>7. working' = "sending" /\ replied' => item' \in Stored'
  <2>1. CASE working = "sending" /\ r = <<item, attempt[item]>>
    BY <1>2, <1>3, <2>1
  <2>2. CASE ~ (working = "sending" /\ r = <<item, attempt[item]>>)
    BY <1>2, <1>3, <2>2 DEF HandleChunk, Shape, RequestInv
  <2> QED
    BY <2>1, <2>2
<1>8. RequestInv'
  BY <1>2, <1>7 DEF Shape, RequestInv
<1> QED
  BY <1>1, <1>3, <1>5, <1>6, <1>8 DEF Shape

------------------------------------------------------------------------------
(***************************************************************************)
(* The count of losses.                                                     *)
(***************************************************************************)

\* After a turn of the loop the chunk in hand is in the buffer.
LEMMA TakeNextGone ==
    ASSUME NEW from \in Nat, NEW to \in Nat, head' = from, TakeNext(from, to)
    PROVE  Gone' = Lost'
<1>1. CASE from < to
  BY <1>1 DEF TakeNext, Gone, InHandButGone
<1>2. CASE ~ (from < to)
  BY <1>2 DEF TakeNext, Gone, InHandButGone
<1> QED
  BY <1>1, <1>2

\* The front that is shifted is the only chunk that may be lost.
LEMMA ShiftLost ==
    ASSUME TypeOK, head' = head + 1, UNCHANGED spool
    PROVE  Lost' \subseteq Lost \cup {head}
  BY DEF TypeOK, Lost, Stored

LEMMA EnqueueLoss == Shape /\ LossAccountedInv /\ Enqueue => LossAccountedInv'
<1> SUFFICES ASSUME Shape, LossAccountedInv, Enqueue PROVE LossAccountedInv'
  OBVIOUS
<1>1. /\ TypeOK /\ seq \in Nat /\ head \in Nat /\ head <= seq /\ warnings \in Nat
      /\ Cardinality(Gone) <= warnings
  BY MaxChunksAssumption DEF Shape, TypeOK, LossAccountedInv, Gone
<1>2. IsFiniteSet(Gone)
  BY <1>1, GoneFinite
<1>3. CASE seq - head >= RetryBufferMax
  <2>1. /\ head' = head + 1 /\ warnings' = warnings + 1 /\ UNCHANGED spool
    BY <1>3 DEF Enqueue
  <2>2. working # "idle"
    BY <1>1, <1>3, RetryBufferAssumption DEF Shape, LoopInv
  <2>3. UNCHANGED <<working, item>>
    BY <2>2 DEF Enqueue
  <2>4. Gone' \subseteq Gone \cup {head}
    BY <1>1, <2>1, <2>3 DEF Gone, Lost, InHandButGone, Stored
  <2> QED
    BY <1>1, <1>2, <2>1, <2>4, CountOneMore DEF LossAccountedInv, Gone
<1>4. CASE ~ (seq - head >= RetryBufferMax)
  <2>1. /\ head' = head /\ warnings' = warnings /\ seq' = seq + 1 /\ UNCHANGED spool
    BY <1>4 DEF Enqueue
  <2>2. Lost' = Lost
    BY <2>1 DEF Lost, Stored
  <2>3. Gone' \subseteq Gone
    <3>1. CASE working = "idle"
      <4>1. TakeNext(head', seq')
        BY <3>1 DEF Enqueue
      <4>2. Gone' = Lost'
        BY <1>1, <2>1, <4>1, TakeNextGone
      <4> QED
        BY <2>2, <4>2 DEF Gone
    <3>2. CASE working # "idle"
      <4>1. UNCHANGED <<working, item>>
        BY <3>2 DEF Enqueue
      <4> QED
        BY <2>1, <2>2, <4>1 DEF Gone, InHandButGone
    <3> QED
      BY <3>1, <3>2
  <2> QED
    BY <1>1, <1>2, <2>1, <2>3, CountNoMore DEF LossAccountedInv, Gone
<1> QED
  BY <1>3, <1>4

LEMMA ReplyOkLoss == Shape /\ LossAccountedInv /\ ReplyOk => LossAccountedInv'
<1> SUFFICES ASSUME Shape, LossAccountedInv, ReplyOk PROVE LossAccountedInv'
  OBVIOUS
<1>1. /\ TypeOK /\ seq \in Nat /\ head \in Nat /\ warnings \in Nat
      /\ item \in Nat /\ item <= head /\ item \in Stored
      /\ Cardinality(Gone) <= warnings
  BY MaxChunksAssumption
     DEF Shape, TypeOK, LoopInv, RequestInv, ReplyOk, LossAccountedInv, Gone
<1>2. IsFiniteSet(Gone) /\ IsFiniteSet(Lost)
  BY <1>1, GoneFinite
<1>3. /\ head' = head + 1 /\ UNCHANGED <<spool, warnings>>
      /\ TakeNext(head + 1, seq)
  BY DEF ReplyOk
<1>4. Gone' = Lost'
  BY <1>1, <1>3, TakeNextGone
<1>5. Lost' \subseteq Lost \cup {head}
  BY <1>1, <1>3, ShiftLost
<1>6. CASE item = head
  <2>1. Gone' \subseteq Gone
    BY <1>1, <1>3, <1>4, <1>5, <1>6 DEF Gone, Lost, Stored
  <2> QED
    BY <1>1, <1>2, <1>3, <2>1, CountNoMore DEF LossAccountedInv, Gone
<1>7. CASE item # head
  <2>1. item \notin Lost
    BY <1>1 DEF Lost
  <2>2. Gone = Lost \cup {item}
    BY <1>1, <1>7 DEF Gone, InHandButGone, ReplyOk
  <2>3. Cardinality(Lost \cup {item}) <= warnings
    BY <1>1, <2>2
  <2>4. Cardinality(Lost') <= warnings
    BY <1>1, <1>2, <1>5, <2>1, <2>3, CountExchange
  <2> QED
    BY <1>3, <1>4, <2>4 DEF LossAccountedInv, Gone
<1> QED
  BY <1>6, <1>7

LEMMA FailLoss == Shape /\ LossAccountedInv /\ Fail => LossAccountedInv'
<1> SUFFICES ASSUME Shape, LossAccountedInv, Fail PROVE LossAccountedInv'
  OBVIOUS
<1>1. /\ TypeOK /\ seq \in Nat /\ head \in Nat /\ warnings \in Nat
      /\ Cardinality(Gone) <= warnings
  BY MaxChunksAssumption DEF Shape, TypeOK, LossAccountedInv, Gone
<1>2. IsFiniteSet(Gone)
  BY <1>1, GoneFinite
<1>3. CASE attempt'[item] >= MaxAttempts
  <2>1. /\ warnings' = warnings + 1 /\ head' = head + 1 /\ UNCHANGED spool
        /\ TakeNext(head + 1, seq)
    BY <1>3 DEF Fail
  <2>2. Gone' = Lost'
    BY <1>1, <2>1, TakeNextGone
  <2>3. Lost' \subseteq Lost \cup {head}
    BY <1>1, <2>1, ShiftLost
  <2>4. Gone' \subseteq Gone \cup {head}
    BY <2>2, <2>3 DEF Gone
  <2> QED
    BY <1>1, <1>2, <2>1, <2>4, CountOneMore DEF LossAccountedInv, Gone
<1>4. CASE ~ (attempt'[item] >= MaxAttempts)
  <2>1. working' = "backoff" /\ UNCHANGED <<head, spool, warnings>>
    BY <1>4 DEF Fail
  <2>2. Gone' \subseteq Gone
    BY <2>1 DEF Gone, Lost, InHandButGone, Stored
  <2> QED
    BY <1>1, <1>2, <2>1, <2>2, CountNoMore DEF LossAccountedInv, Gone
<1> QED
  BY <1>3, <1>4

LEMMA WakeLoss == Shape /\ LossAccountedInv /\ Wake => LossAccountedInv'
<1> SUFFICES ASSUME Shape, LossAccountedInv, Wake PROVE LossAccountedInv'
  OBVIOUS
<1>1. /\ TypeOK /\ seq \in Nat /\ head \in Nat /\ warnings \in Nat
      /\ Cardinality(Gone) <= warnings
  BY MaxChunksAssumption DEF Shape, TypeOK, LossAccountedInv, Gone
<1>2. IsFiniteSet(Gone)
  BY <1>1, GoneFinite
<1>3. UNCHANGED <<head, spool, warnings>> /\ TakeNext(head, seq)
  BY DEF Wake
<1>4. Gone' = Lost'
  BY <1>1, <1>3, TakeNextGone
<1>5. Gone' \subseteq Gone
  BY <1>3, <1>4 DEF Gone, Lost, Stored
<1> QED
  BY <1>1, <1>2, <1>3, <1>5, CountNoMore DEF LossAccountedInv, Gone

LEMMA HandleChunkLoss ==
    ASSUME Shape, LossAccountedInv, NEW r \in network, HandleChunk(r)
    PROVE  LossAccountedInv'
<1>1. /\ TypeOK /\ warnings \in Nat /\ Cardinality(Gone) <= warnings
  BY DEF Shape, TypeOK, LossAccountedInv, Gone
<1>2. IsFiniteSet(Gone)
  BY <1>1, GoneFinite
<1>3. Stored' = Stored \cup {r[1]}
  BY HandleChunkShape
<1>4. UNCHANGED <<head, working, item, warnings>>
  BY DEF HandleChunk, client
<1>5. Gone' \subseteq Gone
  BY <1>3, <1>4 DEF Gone, Lost, InHandButGone
<1> QED
  BY <1>1, <1>2, <1>4, <1>5, CountNoMore DEF LossAccountedInv, Gone

------------------------------------------------------------------------------
(***************************************************************************)
(* The order of the file.  A chunk that never failed is sent once, by the   *)
(* loop that has it in hand, when nothing at or beyond it was sent before.  *)
(***************************************************************************)

\* Nothing beyond the chunk in hand was ever sent; when the loop has ended,
\* nothing that is still in the buffer or to come.
NothingAhead ==
    /\ \A c \in Stored : c <= item /\ (working = "idle" => c < head)
    /\ \A r \in network : r[1] <= item /\ (working = "idle" => r[1] < head)

\* A pause follows a failure.
PauseAfterFailure == working = "backoff" => attempt[item] > 0

\* A request under way for a chunk that never failed is the one drain() awaits.
FirstAttempts ==
    /\ \A r \in network :
          /\ r[2] <= attempt[r[1]]
          /\ attempt[r[1]] = 0 => (working = "sending" /\ r[1] = item /\ ~replied)
    /\ (working = "sending" /\ ~replied /\ attempt[item] = 0) => item \notin Stored

OrderInv == NothingAhead /\ PauseAfterFailure /\ FirstAttempts /\ CleanInOrder

\* The order of an unchanged file survives further failures.
LEMMA CleanKept ==
    ASSUME Shape, Shape', CleanInOrder, UNCHANGED spool,
           \A c \in Chunks : attempt[c] <= attempt'[c]
    PROVE  CleanInOrder'
<1>1. /\ \A i \in DOMAIN spool : spool[i] \in Chunks
      /\ \A c \in Chunks : attempt[c] \in Nat /\ attempt'[c] \in Nat
  BY MaxAttemptsAssumption DEF Shape, TypeOK
<1> SUFFICES ASSUME NEW i \in DOMAIN spool, NEW j \in DOMAIN spool,
                    i < j, spool[i] >= spool[j]
             PROVE  attempt'[spool[j]] > 0
  BY DEF CleanInOrder
<1>2. attempt[spool[j]] > 0
  BY DEF CleanInOrder
<1> QED
  BY <1>1, <1>2

\* A turn of the loop keeps the order when nothing was sent beyond the front
\* `from`, no chunk under way is without failures, and a front that was
\* stored has failed.
LEMMA TakeNextOrder ==
    ASSUME Shape, Shape', OrderInv, NEW to \in Nat, NEW from \in Nat,
           head' = from, UNCHANGED spool, TakeNext(from, to),
           \A c \in Chunks : attempt[c] <= attempt'[c],
           \A c \in Stored : c <= from /\ (c = from => (from < to /\ attempt'[from] > 0)),
           \A r \in network : /\ r[1] <= from /\ (r[1] = from => from < to)
                              /\ attempt'[r[1]] > 0
    PROVE  OrderInv'
<1>1. /\ \A c \in Chunks : attempt[c] \in Nat /\ attempt'[c] \in Nat /\ c \in Nat
      /\ \A r \in network : r[1] \in Chunks /\ r[2] \in Nat
      /\ \A c \in Stored : c \in Chunks
      /\ Stored' = Stored
  <2>1. \A c \in Chunks : attempt[c] \in Nat /\ attempt'[c] \in Nat /\ c \in Nat
    BY MaxAttemptsAssumption, MaxChunksAssumption DEF Shape, TypeOK, Chunks
  <2>2. \A r \in network : r[1] \in Chunks /\ r[2] \in Nat
    BY MaxAttemptsAssumption DEF Shape, TypeOK, Requests
  <2>3. (\A c \in Stored : c \in Chunks) /\ Stored' = Stored
    BY DEF Shape, TypeOK, Stored
  <2> QED
    BY <2>1, <2>2, <2>3
<1>2. \A r \in network : r[2] <= attempt'[r[1]]
  BY <1>1 DEF OrderInv, FirstAttempts
<1>3. CleanInOrder'
  BY CleanKept DEF OrderInv
<1>4. CASE from < to
  <2>1. /\ working' = "sending" /\ item' = from /\ replied' = FALSE
        /\ network' = network \cup {<<from, attempt'[from]>>}
    BY <1>4 DEF TakeNext
  <2>2. from \in Chunks
    BY <2>1 DEF Shape, TypeOK
  <2>3. NothingAhead' /\ PauseAfterFailure'
    BY <1>1, <2>1 DEF NothingAhead, PauseAfterFailure
  <2>4. \A r \in network' : /\ r[2] <= attempt'[r[1]]
                            /\ attempt'[r[1]] = 0 => r[1] = from
    BY <1>1, <1>2, <2>1, <2>2
  <2>5. attempt'[from] = 0 => from \notin Stored'
    BY <1>1, <2>2
  <2>6. FirstAttempts'
    BY <2>1, <2>4, <2>5 DEF FirstAttempts
  <2> QED
    BY <1>3, <2>3, <2>6 DEF OrderInv
<1>5. CASE ~ (from < to)
  <2>1. /\ working' = "idle" /\ replied' = FALSE /\ UNCHANGED <<item, network>>
    BY <1>5 DEF TakeNext
  <2>2. NothingAhead' /\ PauseAfterFailure'
    BY <1>1, <1>5, <2>1 DEF OrderInv, NothingAhead, PauseAfterFailure
  <2>3. FirstAttempts'
    BY <1>1, <1>2, <2>1 DEF FirstAttempts
  <2> QED
    BY <1>3, <2>2, <2>3 DEF OrderInv
<1> QED
  BY <1>4, <1>5

LEMMA EnqueueOrder == Shape /\ OrderInv /\ Enqueue => OrderInv'
<1> SUFFICES ASSUME Shape, OrderInv, Enqueue PROVE OrderInv'
  OBVIOUS
<1>0. Shape'
  BY EnqueueShape
<1>1. /\ seq \in Nat /\ head \in Nat /\ head <= seq
      /\ seq' = seq + 1 /\ UNCHANGED <<attempt, spool>>
      /\ \A c \in Chunks : attempt[c] \in Nat /\ c \in Nat
      /\ \A r \in network : r[1] \in Chunks
      /\ \A c \in Stored : c \in Chunks
  BY MaxAttemptsAssumption, MaxChunksAssumption
     DEF Shape, TypeOK, Enqueue, Stored, Requests, Chunks
<1>2. CASE working = "idle"
  <2>1. head = seq /\ head' = head /\ TakeNext(head', seq')
    BY <1>1, <1>2, RetryBufferAssumption DEF Shape, LoopInv, Enqueue
  <2>2. \A c \in Stored : c < head
    BY <1>2 DEF OrderInv, NothingAhead
  <2>3. \A r \in network : r[1] < head /\ attempt[r[1]] > 0
    BY <1>1, <1>2 DEF OrderInv, NothingAhead, FirstAttempts
  <2>4. \A c \in Stored : c <= head' /\ (c = head' => (head' < seq' /\ attempt'[head'] > 0))
    BY <1>1, <2>1, <2>2
  <2>5. \A r \in network : /\ r[1] <= head' /\ (r[1] = head' => head' < seq')
                           /\ attempt'[r[1]] > 0
    BY <1>1, <2>1, <2>3
  <2>6. \A c \in Chunks : attempt[c] <= attempt'[c]
    BY <1>1
  <2>7. head' \in Nat /\ seq' \in Nat /\ UNCHANGED spool
    BY <1>1, <2>1
  <2> QED
    BY <1>0, <2>1, <2>4, <2>5, <2>6, <2>7, TakeNextOrder
<1>3. CASE working # "idle"
  <2>1. UNCHANGED <<working, item, network, replied>>
    BY <1>3 DEF Enqueue
  <2> QED
    BY <1>1, <1>3, <2>1
       DEF OrderInv, NothingAhead, PauseAfterFailure, FirstAttempts, CleanInOrder, Stored
<1> QED
  BY <1>2, <1>3

LEMMA ReplyOkOrder == Shape /\ OrderInv /\ ReplyOk => OrderInv'
<1> SUFFICES ASSUME Shape, OrderInv, ReplyOk PROVE OrderInv'
  OBVIOUS
<1>0. Shape'
  BY ReplyOkShape
<1>1. /\ seq \in Nat /\ head \in Nat /\ item \in Nat /\ item <= head
      /\ head' = head + 1 /\ UNCHANGED <<seq, attempt, spool>> /\ TakeNext(head', seq)
      /\ working = "sending" /\ replied
      /\ \A c \in Chunks : attempt[c] \in Nat /\ c \in Nat
      /\ \A r \in network : r[1] \in Chunks
      /\ \A c \in Stored : c \in Chunks
  BY MaxAttemptsAssumption, MaxChunksAssumption
     DEF Shape, TypeOK, LoopInv, ReplyOk, Stored, Requests, Chunks
<1>2. \A c \in Stored : c <= item
  BY DEF OrderInv, NothingAhead
<1>3. \A r \in network : r[1] <= item /\ attempt[r[1]] > 0
  BY <1>1 DEF OrderInv, NothingAhead, FirstAttempts
<1>4. \A c \in Stored : c < head'
  BY <1>1, <1>2
<1>5. \A r \in network : r[1] < head' /\ attempt'[r[1]] > 0
  BY <1>1, <1>3
<1>6. /\ \A c \in Stored : c <= head' /\ (c = head' => (head' < seq /\ attempt'[head'] > 0))
      /\ \A r \in network : /\ r[1] <= head' /\ (r[1] = head' => head' < seq)
                            /\ attempt'[r[1]] > 0
      /\ \A c \in Chunks : attempt[c] <= attempt'[c]
      /\ head' \in Nat
  BY <1>1, <1>4, <1>5
<1> QED
  BY <1>0, <1>1, <1>6, TakeNextOrder

LEMMA FailOrder == Shape /\ OrderInv /\ Fail => OrderInv'
<1> SUFFICES ASSUME Shape, OrderInv, Fail PROVE OrderInv'
  OBVIOUS
<1>0. Shape'
  BY FailShape
<1>1. /\ seq \in Nat /\ head \in Nat /\ item \in Chunks /\ item <= head
      /\ UNCHANGED <<seq, spool>> /\ working = "sending"
      /\ attempt' = [attempt EXCEPT ![item] = @ + 1]
      /\ \A c \in Chunks : attempt[c] \in Nat /\ c \in Nat
      /\ \A r \in network : r[1] \in Chunks /\ r[2] \in Nat
      /\ \A c \in Stored : c \in Chunks
  BY MaxAttemptsAssumption, MaxChunksAssumption
     DEF Shape, TypeOK, LoopInv, Fail, Stored, Requests, Chunks
<1>2. /\ attempt'[item] = attempt[item] + 1
      /\ \A c \in Chunks : attempt[c] <= attempt'[c] /\ attempt'[c] \in Nat
      /\ attempt'[item] > 0
  BY <1>1 DEF Shape, TypeOK
<1>3. \A c \in Stored : c <= item
  BY DEF OrderInv, NothingAhead
<1>4. \A r \in network : r[1] <= item /\ (attempt[r[1]] > 0 \/ r[1] = item)
  BY <1>1 DEF OrderInv, NothingAhead, FirstAttempts
<1>5. \A r \in network : attempt'[r[1]] > 0
  BY <1>1, <1>2, <1>4
<1>6. CASE attempt'[item] >= MaxAttempts
  <2>1. head' = head + 1 /\ TakeNext(head', seq)
    BY <1>6 DEF Fail
  <2>2. /\ \A c \in Stored : c < head'
        /\ \A r \in network : r[1] < head'
    BY <1>1, <1>3, <1>4, <2>1
  <2>3. /\ \A c \in Stored : c <= head' /\ (c = head' => (head' < seq /\ attempt'[head'] > 0))
        /\ \A r \in network : /\ r[1] <= head' /\ (r[1] = head' => head' < seq)
                              /\ attempt'[r[1]] > 0
        /\ head' \in Nat
    BY <1>1, <1>5, <2>1, <2>2
  <2> QED
    BY <1>0, <1>1, <1>2, <2>1, <2>3, TakeNextOrder
<1>7. CASE ~ (attempt'[item] >= MaxAttempts)
  <2>1. working' = "backoff" /\ UNCHANGED <<item, network>>
    BY <1>7 DEF Fail
  <2>2. Stored' = Stored
    BY <1>1 DEF Stored
  <2>3. NothingAhead' /\ PauseAfterFailure'
    BY <1>2, <1>3, <1>4, <2>1, <2>2 DEF NothingAhead, PauseAfterFailure
  <2>4. \A r \in network : r[2] <= attempt'[r[1]]
    BY <1>1, <1>2 DEF OrderInv, FirstAttempts
  <2>5. FirstAttempts'
    BY <1>1, <1>2, <1>5, <2>1, <2>4 DEF FirstAttempts
  <2>6. CleanInOrder'
    BY <1>0, <1>1, <1>2, CleanKept DEF OrderInv
  <2> QED
    BY <2>3, <2>5, <2>6 DEF OrderInv
<1> QED
  BY <1>6, <1>7

LEMMA WakeOrder == Shape /\ OrderInv /\ Wake => OrderInv'
<1> SUFFICES ASSUME Shape, OrderInv, Wake PROVE OrderInv'
  OBVIOUS
<1>0. Shape'
  BY WakeShape
<1>1. /\ seq \in Nat /\ head \in Nat /\ item \in Nat /\ item <= head /\ head < seq
      /\ UNCHANGED <<seq, head, attempt, spool>> /\ TakeNext(head, seq)
      /\ working = "backoff" /\ attempt[item] > 0
      /\ \A c \in Chunks : attempt[c] \in Nat /\ c \in Nat
      /\ \A r \in network : r[1] \in Chunks
      /\ \A c \in Stored : c \in Chunks
  BY MaxAttemptsAssumption, MaxChunksAssumption
     DEF Shape, TypeOK, LoopInv, Wake, Stored, Requests, Chunks, OrderInv, PauseAfterFailure
<1>2. \A c \in Stored : c <= item
  BY DEF OrderInv, NothingAhead
<1>3. \A r \in network : r[1] <= item /\ attempt[r[1]] > 0
  BY <1>1 DEF OrderInv, NothingAhead, FirstAttempts
<1>4. \A c \in Stored : c <= head /\ (c = head => c = item)
  BY <1>1, <1>2
<1>5. /\ \A c \in Stored : c <= head /\ (c = head => (head < seq /\ attempt'[head] > 0))
      /\ \A c \in Chunks : attempt[c] <= attempt'[c]
  BY <1>1, <1>4
<1>6. \A r \in network : /\ r[1] <= head /\ (r[1] = head => head < seq)
                         /\ attempt'[r[1]] > 0
  BY <1>1, <1>3
<1> QED
  BY <1>0, <1>1, <1>5, <1>6, TakeNextOrder

LEMMA HandleChunkOrder ==
    ASSUME Shape, OrderInv, NEW r \in network, HandleChunk(r)
    PROVE  OrderInv'
<1>1. /\ Stored' = Stored \cup {r[1]} /\ spool' = Append(spool, r[1])
      /\ network' = network \ {r} /\ UNCHANGED <<head, working, item, attempt>>
  BY HandleChunkShape DEF HandleChunk, client
<1>2. /\ r \in Requests /\ spool \in Seq(Chunks) /\ item \in Nat
      /\ \A c \in Chunks : attempt[c] \in Nat /\ c \in Nat
      /\ \A q \in network : q = <<q[1], q[2]>> /\ q[1] \in Chunks /\ q[2] \in Nat
  BY MaxAttemptsAssumption, MaxChunksAssumption DEF Shape, TypeOK, Requests, Chunks
<1>3. NothingAhead'
  BY <1>1 DEF OrderInv, NothingAhead
<1>4. PauseAfterFailure'
  BY <1>1 DEF OrderInv, PauseAfterFailure
<1>5. ASSUME attempt[r[1]] = 0
      PROVE  /\ working = "sending" /\ r = <<item, attempt[item]>>
             /\ item \notin Stored /\ replied' = TRUE
  <2>1. working = "sending" /\ r[1] = item /\ ~replied /\ r[2] <= attempt[r[1]]
    BY <1>5 DEF OrderInv, FirstAttempts
  <2>2. r = <<item, attempt[item]>>
    BY <1>2, <1>5, <2>1
  <2>3. item \notin Stored
    BY <1>5, <2>1 DEF OrderInv, FirstAttempts
  <2> QED
    BY <2>1, <2>2, <2>3 DEF HandleChunk
<1>6. FirstAttempts'
  <2>1. ASSUME NEW q \in network' PROVE q[2] <= attempt[q[1]]
    BY <1>1 DEF OrderInv, FirstAttempts
  <2>2. ASSUME NEW q \in network', attempt[q[1]] = 0
        PROVE  working = "sending" /\ q[1] = item /\ ~ replied'
    <3>1. q \in network /\ q # r
      BY <1>1
    <3>2. working = "sending" /\ q[1] = item /\ ~ replied /\ q[2] <= attempt[q[1]]
      BY <2>2, <3>1 DEF OrderInv, FirstAttempts
    <3>3. q = <<item, attempt[item]>>
      BY <1>2, <2>2, <3>1, <3>2
    <3>4. r # <<item, attempt[item]>>
      BY <3>1, <3>3
    <3> QED
      BY <3>2, <3>4 DEF HandleChunk
  <2>3. ASSUME working = "sending", ~ replied', attempt[item] = 0
        PROVE  item \notin Stored'
    <3>1. r # <<item, attempt[item]>>
      BY <2>3 DEF HandleChunk
    <3>2. ~ replied /\ item \notin Stored
      BY <2>3, <3>1 DEF HandleChunk, OrderInv, FirstAttempts
    <3>3. r[1] # item
      BY <1>5, <2>3, <3>1
    <3> QED
      BY <1>1, <3>2, <3>3
  <2> QED
    BY <1>1, <2>1, <2>2, <2>3 DEF FirstAttempts
<1>7. CleanInOrder'
  <2> SUFFICES ASSUME NEW i \in DOMAIN spool', NEW j \in DOMAIN spool',
                      i < j, spool'[i] >= spool'[j]
               PROVE  attempt[spool'[j]] > 0
    BY <1>1 DEF CleanInOrder
  <2>1. /\ DOMAIN spool' = 1 .. Len(spool) + 1 /\ DOMAIN spool = 1 .. Len(spool)
        /\ Len(spool) \in Nat /\ i \in DOMAIN spool /\ spool'[i] = spool[i]
        /\ j # Len(spool) + 1 => (j \in DOMAIN spool /\ spool'[j] = spool[j])
        /\ spool'[Len(spool) + 1] = r[1]
    BY <1>1, <1>2
  <2>2. CASE j # Len(spool) + 1
    BY <2>1, <2>2 DEF OrderInv, CleanInOrder
  <2>3. CASE j = Len(spool) + 1
    <3>1. spool[i] \in Stored /\ spool[i] \in Chunks /\ spool'[j] = r[1]
      BY <1>2, <2>1, <2>3 DEF Stored
    <3>2. spool[i] <= item
      BY <3>1 DEF OrderInv, NothingAhead
    <3>3. attempt[r[1]] # 0
      <4> SUFFICES ASSUME attempt[r[1]] = 0 PROVE FALSE
        OBVIOUS
      <4>1. r[1] = item /\ item \notin Stored
        BY <1>5
      <4>2. spool[i] = item
        BY <1>2, <2>1, <3>1, <3>2, <4>1
      <4> QED
        BY <3>1, <4>1, <4>2
    <3> QED
      BY <1>2, <3>1, <3>3
  <2> QED
    BY <2>2, <2>3
<1> QED
  BY <1>3, <1>4, <1>6, <1>7 DEF OrderInv

------------------------------------------------------------------------------
(***************************************************************************)
(* The theorems.                                                            *)
(***************************************************************************)

LEMMA InvInit == Init => Inv
<1> SUFFICES ASSUME Init PROVE Inv
  OBVIOUS
<1>a. TypeOK
  <2>1. replied \in BOOLEAN
    BY DEF Init
  <2>2. attempt \in [Chunks -> 0 .. MaxAttempts]
    BY MaxAttemptsAssumption DEF Init
  <2>3. spool \in Seq(Chunks)
    BY DEF Init
  <2> QED
    BY <2>1, <2>2, <2>3, MaxChunksAssumption DEF Init, TypeOK
<1>b. LoopInv /\ AttemptsLeft /\ RequestInv
  BY MaxAttemptsAssumption DEF Init, LoopInv, AttemptsLeft, RequestInv
<1>1. Shape
  BY <1>a, <1>b DEF Shape
<1>2. Lost \cup InHandButGone = {}
  BY DEF Init, Lost, InHandButGone
<1>3. LossAccountedInv
  BY <1>2, FS_EmptySet DEF LossAccountedInv, Init
<1> QED
  BY <1>1, <1>3 DEF Inv, Shape

LEMMA InvStep == Inv /\ [Next]_vars => Inv'
<1> SUFFICES ASSUME Inv, [Next]_vars PROVE Shape' /\ LossAccountedInv'
  BY DEF Inv, Shape
<1>0. Shape /\ LossAccountedInv
  BY DEF Inv, Shape
<1>1. CASE Enqueue
  BY <1>0, <1>1, EnqueueShape, EnqueueLoss
<1>2. CASE ReplyOk
  BY <1>0, <1>2, ReplyOkShape, ReplyOkLoss
<1>3. CASE Fail
  BY <1>0, <1>3, FailShape, FailLoss
<1>4. CASE Wake
  BY <1>0, <1>4, WakeShape, WakeLoss
<1>5. ASSUME NEW r \in network, HandleChunk(r) PROVE Shape' /\ LossAccountedInv'
  BY <1>0, <1>5, HandleChunkShape, HandleChunkLoss
<1>6. CASE UNCHANGED vars
  BY <1>0, <1>6 DEF vars, Shape, TypeOK, LoopInv, AttemptsLeft, RequestInv,
     LossAccountedInv, Lost, InHandButGone, Stored
<1> QED
  BY <1>1, <1>2, <1>3, <1>4, <1>5, <1>6 DEF Next

\* The invariant holds of every step of the uploader, the network and the
\* service (proctor.js:159-231).
THEOREM InvAlways == Safety => []Inv
  BY InvInit, InvStep, PTL DEF Safety

\* The state of the uploader, the network and the spool file stays well typed
\* (proctor.js:159-231): the number of attempts never passes MAX_ATTEMPTS.
THEOREM TypeCorrect == Safety => []TypeOK
<1>1. Inv => TypeOK
  BY DEF Inv
<1> QED
  BY <1>1, InvAlways, PTL

\* The chunk missing from the file without a warning of its own is always paid
\* for by a warning about another (proctor.js:195,198,223).
THEOREM LossesAreAccounted == Safety => []LossAccounted
<1>1. Inv => LossAccounted
  <2> SUFFICES ASSUME Inv PROVE LossAccounted
    OBVIOUS
  <2>1. TypeOK /\ warnings \in Nat /\ Cardinality(Gone) <= warnings
    BY DEF Inv, TypeOK, LossAccountedInv, Gone
  <2>2. IsFiniteSet(Gone) /\ Lost \subseteq Gone
    BY <2>1, GoneFinite DEF Gone
  <2> QED
    BY <2>1, <2>2, CountNoMore DEF LossAccounted
<1> QED
  BY <1>1, InvAlways, PTL

LEMMA OrderStep == Shape /\ OrderInv /\ [Next]_vars => OrderInv'
<1> SUFFICES ASSUME Shape, OrderInv, [Next]_vars PROVE OrderInv'
  OBVIOUS
<1>1. CASE Enqueue
  BY <1>1, EnqueueOrder
<1>2. CASE ReplyOk
  BY <1>2, ReplyOkOrder
<1>3. CASE Fail
  BY <1>3, FailOrder
<1>4. CASE Wake
  BY <1>4, WakeOrder
<1>5. ASSUME NEW r \in network, HandleChunk(r) PROVE OrderInv'
  BY <1>5, HandleChunkOrder
<1>6. CASE UNCHANGED vars
  BY <1>6 DEF vars, OrderInv, NothingAhead, PauseAfterFailure, FirstAttempts,
     CleanInOrder, Stored
<1> QED
  BY <1>1, <1>2, <1>3, <1>4, <1>5, <1>6 DEF Next

\* Only chunks of which an attempt failed are in the file twice or behind a chunk
\* captured after them (proctor.js:178-205, proctor2/main.py:345-351), whatever requests
\* of failed attempts arrive late.
THEOREM CleanAlwaysInOrder == Safety => []CleanInOrder
<1>1. Init => OrderInv
  <2> SUFFICES ASSUME Init PROVE OrderInv
    OBVIOUS
  <2>1. DOMAIN spool = {} /\ Stored = {} /\ network = {} /\ working = "idle"
    BY DEF Init, Stored
  <2> QED
    BY <2>1 DEF OrderInv, NothingAhead, PauseAfterFailure, FirstAttempts, CleanInOrder
<1>2. Inv => Shape
  BY DEF Inv, Shape
<1>3. OrderInv => CleanInOrder
  BY DEF OrderInv
<1> QED
  BY <1>1, <1>2, <1>3, OrderStep, InvAlways, PTL DEF Safety

\* The uploader implements Recording: chunks are settled in the order they
\* were captured, and warnings account for every missing one.
THEOREM UploaderImplementsRecording == Safety => Accountable
<1>1. Init => Promise!Init
  BY DEF Init, Promise!Init
<1>2. Inv /\ LossAccounted' /\ [Next]_vars => [Promise!Next]_(Promise!vars)
  <2> SUFFICES ASSUME Inv, LossAccounted', [Next]_vars
               PROVE  [Promise!Next]_(Promise!vars)
    OBVIOUS
  <2>0. /\ Shape /\ seq \in Nat /\ head \in Nat /\ head <= seq
    BY MaxChunksAssumption DEF Inv, Shape, TypeOK
  <2>a. Promise!Accounted'
    BY DEF LossAccounted, Lost, Stored, Promise!Accounted, Promise!Missing, Promise!InFile,
           Cardinality, Promise!Cardinality
  <2>1. CASE Enqueue
    <3>1. Promise!Capture
      BY <2>1 DEF Enqueue, Promise!Capture, Promise!Warn
    <3> QED
      BY <2>a, <3>1 DEF Promise!Next
  <2>2. CASE ReplyOk
    <3>1. head < seq
      BY <2>0, <2>2 DEF Shape, LoopInv, ReplyOk
    <3>2. Promise!Settle
      BY <2>0, <2>2, <3>1 DEF ReplyOk, Promise!Settle, Promise!Warn
    <3> QED
      BY <2>a, <3>2 DEF Promise!Next
  <2>3. CASE Fail
    <3>1. head < seq
      BY <2>0, <2>3 DEF Shape, LoopInv, Fail
    <3>2. CASE attempt'[item] >= MaxAttempts
      <4>1. Promise!Settle
        BY <2>0, <2>3, <3>1, <3>2 DEF Fail, Promise!Settle, Promise!Warn
      <4> QED
        BY <2>a, <4>1 DEF Promise!Next
    <3>3. CASE ~ (attempt'[item] >= MaxAttempts)
      BY <2>3, <3>3 DEF Fail, Promise!vars
    <3> QED
      BY <3>2, <3>3
  <2>4. CASE Wake
    BY <2>4 DEF Wake, Promise!vars
  <2>5. ASSUME NEW r \in network, HandleChunk(r) PROVE Promise!Next
    <3>1. r[1] \in 0 .. seq /\ r[1] < seq
      BY <2>0, <2>5, HandleChunkShape, MaxChunksAssumption DEF Chunks
    <3>2. Promise!Store(r[1])
      BY <2>5, <3>1 DEF HandleChunk, client, Promise!Store
    <3> QED
      BY <2>a, <3>1, <3>2 DEF Promise!Next
  <2>6. CASE UNCHANGED vars
    BY <2>6 DEF vars, Promise!vars
  <2> QED
    BY <2>1, <2>2, <2>3, <2>4, <2>5, <2>6 DEF Next
<1> QED
  BY <1>1, <1>2, InvAlways, LossesAreAccounted, PTL
     DEF Safety, Accountable, Promise!Spec
==============================================================================
