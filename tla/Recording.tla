------------------------------ MODULE Recording ------------------------------
(***************************************************************************)
(* What a recording promises to whoever reviews an exam, without saying     *)
(* how chunks travel (src/web/static/js/proctor.js:151-158).                *)
(*                                                                          *)
(* A MediaRecorder captures chunks 0, 1, 2, ...  The uploader settles them  *)
(* in the order of capture: a settled chunk is never tried again.  A chunk  *)
(* may reach the file late, twice or out of order, but the number of        *)
(* settled chunks that are missing from the file is never larger than the   *)
(* number of warnings in the event log of the session.                      *)
(***************************************************************************)
EXTENDS Naturals, Sequences, FiniteSets

VARIABLES captured,   \* chunks captured so far, 0 .. captured-1
          settled,    \* chunks given up or uploaded, 0 .. settled-1
          file,       \* the chunks in the file, in the order they were appended
          warnings    \* warnings about dropped chunks

vars == <<captured, settled, file, warnings>>

InFile(f) == {f[i] : i \in DOMAIN f}

Missing(n, f) == {c \in 0 .. n - 1 : c \notin InFile(f)}

Accounted == Cardinality(Missing(settled, file)) <= warnings

Init ==
    /\ captured = 0
    /\ settled = 0
    /\ file = <<>>
    /\ warnings = 0

Warn == warnings' \in {warnings, warnings + 1}

Capture ==
    /\ captured' = captured + 1
    /\ settled' \in {settled, settled + 1}
    /\ Warn
    /\ UNCHANGED file

Settle ==
    /\ settled' = settled + 1
    /\ settled' <= captured
    /\ Warn
    /\ UNCHANGED <<captured, file>>

Store(c) ==
    /\ c < captured
    /\ file' = Append(file, c)
    /\ UNCHANGED <<captured, settled, warnings>>

Next ==
    /\ Capture \/ Settle \/ \E c \in 0 .. captured : Store(c)
    /\ Accounted'

Spec == Init /\ [][Next]_vars
==============================================================================
