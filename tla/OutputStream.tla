----------------------------- MODULE OutputStream -----------------------------
(***************************************************************************)
(* How the root service streams a command's output to the frontends         *)
(* (SoftwareService._spawn_streaming in gest/backend/service.py; the same    *)
(* code again in kernel.py's _PipelineStreamer and stage3.py's               *)
(* _CommandStreamer): bytes are read in chunks, split into lines, gathered   *)
(* in a buffer and sent in batches, when the buffer is full or when a timer  *)
(* fires.  A pipeline runs several commands, stopping at the first failure.  *)
(*                                                                         *)
(* A byte is NL or one of the others; the output of each command is chosen   *)
(* freely as it is read, up to MaxBytes bytes in chunks of up to MaxChunk.   *)
(***************************************************************************)
EXTENDS Integers, Sequences, SequencesExt

CONSTANTS
    Bytes,      \* the bytes other than a newline
    NL,         \* the newline byte
    Commands,   \* the number of commands in the pipeline
    BatchMax,   \* _BATCH_MAX_LINES
    MaxChunk,   \* _READ_CHUNK
    MaxBytes    \* bound on the output of one command

ASSUME StreamAssumption ==
    /\ NL \notin Bytes
    /\ Commands \in Nat \ {0}
    /\ BatchMax \in Nat \ {0}
    /\ MaxChunk \in Nat \ {0}
    /\ MaxBytes \in Nat

VARIABLES
    stage,    \* "reading" | "waiting" (for the exit status) | "finished"
    index,    \* the command that runs
    partial,  \* the bytes of a line that is not complete
    buf,      \* complete lines not yet sent
    timer,    \* a timed flush is pending
    sent,     \* the batches sent, one Progress signal each
    status,     \* the exit status Finished carried
    read,     \* history: the bytes read from the current command
    earlier   \* history: the lines of the commands before it

streamVars == <<stage, index, partial, buf, timer, sent, status, read, earlier>>

StreamInit ==
    /\ stage = "reading"
    /\ index = 1
    /\ partial = <<>>
    /\ buf = <<>>
    /\ timer = FALSE
    /\ sent = <<>>
    /\ status = 0
    /\ read = <<>>
    /\ earlier = <<>>

\* bytes.split(b"\n"): the pieces between the newlines, one more than these.
SplitByte(pieces, byte) ==
    IF byte = NL THEN Append(pieces, <<>>)
    ELSE Append(Front(pieces), Append(Last(pieces), byte))
Split(bytes) ==
    LET pieces[n \in 0..Len(bytes)] ==
            IF n = 0 THEN << <<>> >> ELSE SplitByte(pieces[n - 1], bytes[n])
    IN  pieces[Len(bytes)]

\* Mutant: the lines left over after the last full batch are not re-armed once
\* a full batch has cancelled the timer.
QueueLines_noRearm(lines) ==
    LET all == buf \o lines
        full == Len(all) \div BatchMax
    IN /\ sent' = sent \o [k \in 1..full |->
                             SubSeq(all, (k - 1) * BatchMax + 1, k * BatchMax)]
       /\ buf' = SubSeq(all, full * BatchMax + 1, Len(all))
       /\ timer' = (full = 0 /\ (timer \/ buf' # <<>>))

\* queue_line for each line, then arming the timer: each time the buffer
\* reaches BatchMax it is sent and a pending timer is cancelled.
QueueLines(lines) ==
    LET all == buf \o lines
        full == Len(all) \div BatchMax
    IN /\ sent' = sent \o [k \in 1..full |->
                             SubSeq(all, (k - 1) * BatchMax + 1, k * BatchMax)]
       /\ buf' = SubSeq(all, full * BatchMax + 1, Len(all))
       /\ timer' = IF full = 0 THEN timer \/ buf' # <<>> ELSE buf' # <<>>

\* on_chunk with data.
Chunk(data) ==
    /\ stage = "reading"
    /\ Len(read) + Len(data) <= MaxBytes
    /\ LET lines == Split(partial \o data) IN
        /\ partial' = Last(lines)
        /\ QueueLines(Front(lines))
    /\ read' = read \o data
    /\ UNCHANGED <<stage, index, status, earlier>>

\* Mutant: the unterminated last line is dropped.
Eof_dropsPartial ==
    /\ stage = "reading"
    /\ partial' = <<>>
    /\ sent' = IF buf = <<>> THEN sent ELSE Append(sent, buf)
    /\ buf' = <<>>
    /\ timer' = FALSE
    /\ stage' = "waiting"
    /\ UNCHANGED <<index, status, read, earlier>>

\* on_chunk with no data: the last line, when not terminated, is queued, and
\* everything is sent before the exit status is waited for.
Eof ==
    /\ stage = "reading"
    /\ LET rest == IF partial = <<>> THEN buf ELSE Append(buf, partial) IN
        sent' = IF rest = <<>> THEN sent ELSE Append(sent, rest)
    /\ partial' = <<>>
    /\ buf' = <<>>
    /\ timer' = FALSE
    /\ stage' = "waiting"
    /\ UNCHANGED <<index, status, read, earlier>>

\* on_timer.
Flush ==
    /\ timer
    /\ timer' = FALSE
    /\ sent' = IF buf = <<>> THEN sent ELSE Append(sent, buf)
    /\ buf' = <<>>
    /\ UNCHANGED <<stage, index, partial, status, read, earlier>>

\* The lines of the command that has ended; the last piece is a line only when
\* it is not empty.
OutputLines(bytes) ==
    LET pieces == Split(bytes) IN
    IF Last(pieces) = <<>> THEN Front(pieces) ELSE pieces

\* _on_done: the next command of the pipeline, or Finished with the exit status
\* of the first that failed or of the last.
Done ==
    /\ stage = "waiting"
    /\ \E c \in {0, 1} :
        \/ /\ c # 0 \/ index = Commands
           /\ stage' = "finished"
           /\ status' = c
           /\ UNCHANGED <<index, partial, read, earlier>>
        \/ /\ c = 0 /\ index < Commands
           /\ stage' = "reading"
           /\ index' = index + 1
           /\ partial' = <<>>
           /\ read' = <<>>
           /\ earlier' = earlier \o OutputLines(read)
           /\ UNCHANGED status
    /\ UNCHANGED <<buf, timer, sent>>

Chunks == UNION {[1..n -> Bytes \cup {NL}] : n \in 1..MaxChunk}

StreamNext == (\E data \in Chunks : Chunk(data)) \/ Eof \/ Flush \/ Done

StreamSpec == StreamInit /\ [][StreamNext]_streamVars
\* GLib runs the timer source once its interval has passed.
StreamFair == WF_streamVars(Flush)

-----------------------------------------------------------------------------
\* Every line arrives, once, in order and whole, however the output was cut
\* into chunks (tests/test_backend_idle.py: "every line arrives in order").
NothingLost ==
    FlattenSeq(sent) \o buf =
        earlier \o (IF stage = "reading" THEN Front(Split(read)) ELSE OutputLines(read))

\* A signal carries between one line and BatchMax lines; a flush is pending
\* exactly while lines are waiting, so that none is left in the buffer with
\* nothing to send it; and none waits once the output has ended, so that no
\* line follows the exit status.
BatchesSound ==
    /\ \A k \in DOMAIN sent : Len(sent[k]) \in 1..BatchMax
    /\ timer = (buf # <<>>)
    /\ stage # "reading" => buf = <<>>

StreamInv == NothingLost /\ BatchesSound

\* A line that waits is sent (or its stream ends with a flush).
LinesGetOut == buf # <<>> ~> buf = <<>>
=============================================================================
