------------------------------ MODULE LogSink ------------------------------
(***************************************************************************)
(* The protocol log of a Playwright session (session/log_sink.go) and its  *)
(* live readers (streamPlaywrightLogs in logs_ws.go).                      *)
(*                                                                         *)
(* The two copying goroutines of the session write lines; the clean-up     *)
(* closes the sink and then takes its content for the log file.  A reader  *)
(* takes the lines it has not seen together with a channel, writes them to *)
(* its WebSocket, and waits for the channel.  WriteLine closes the channel *)
(* and replaces it by a new one; Close closes the last one.  The sink's    *)
(* methods hold its mutex, and each is one step.                           *)
(***************************************************************************)
EXTENDS Naturals, Sequences

CONSTANTS
  Writers,    \* goroutines that write; they also stand for what they write
  Readers,    \* requests for the live log
  MaxLines,   \* bound on the number of lines written
  NoFile      \* no file yet

ASSUME BoundAssumption == MaxLines \in Nat
ASSUME NoFileAssumption == NoFile \notin Seq(Writers)

VARIABLES
  lines,    \* LogSink.lines
  closed,   \* LogSink.closed
  notify,   \* LogSink.notify: channels are numbered
  shut,     \* the channels that have been closed
  file,     \* what the clean-up has written to the log file
  readerPc, \* where each reader is
  index,    \* reader: nextIndex of its last ReadFrom
  at,       \* reader: how many lines its loop has written out
  last,     \* reader: its last ReadFrom returned closed
  chan,     \* reader: the channel its last ReadFrom returned
  shown     \* reader: what it has written to its WebSocket

sinkVars == <<lines, closed, notify, shut, file, readerPc, index, at, last, chan, shown>>
sink == <<lines, closed, notify, shut>>
reader == <<readerPc, index, at, last, chan, shown>>

ReaderPcs == {"read", "write", "wait", "done", "failed"}

SinkInit ==
  /\ lines = <<>> /\ closed = FALSE /\ notify = 0 /\ shut = {}
  /\ file = NoFile
  /\ readerPc = [r \in Readers |-> "read"]
  /\ index = [r \in Readers |-> 0]
  /\ at = [r \in Readers |-> 0]
  /\ last = [r \in Readers |-> FALSE]
  /\ chan = [r \in Readers |-> 0]
  /\ shown = [r \in Readers |-> <<>>]

(***************************************************************************)
(* The session.                                                            *)
(***************************************************************************)

\* WriteLine; a closed sink ignores it.
WriteLine(w) ==
  /\ ~closed
  /\ Len(lines) < MaxLines
  /\ lines' = Append(lines, w)
  /\ shut' = shut \union {notify}
  /\ notify' = notify + 1
  /\ UNCHANGED <<closed, file, reader>>

\* Mutated form of Close: waiting readers are not woken.
CloseSilent ==
  /\ ~closed
  /\ closed' = TRUE
  /\ UNCHANGED <<lines, notify, shut, file, reader>>

\* Close, by the clean-up.
Close ==
  /\ ~closed
  /\ closed' = TRUE
  /\ shut' = shut \union {notify}
  /\ UNCHANGED <<lines, notify, file, reader>>

\* finalizePlaywrightLog, later in the clean-up: Content goes to the file.
Finalize ==
  /\ closed
  /\ file = NoFile
  /\ file' = lines
  /\ UNCHANGED <<sink, reader>>

(***************************************************************************)
(* A reader.                                                               *)
(***************************************************************************)

\* ReadFrom.  The lines it returns are those from index on; lines are only
\* ever appended, so the copy needs no variable of its own.
ReadFrom(r) ==
  /\ readerPc[r] = "read"
  /\ index' = [index EXCEPT ![r] = Len(lines)]
  /\ last' = [last EXCEPT ![r] = closed]
  /\ chan' = [chan EXCEPT ![r] = notify]
  /\ readerPc' = [readerPc EXCEPT ![r] = "write"]
  /\ UNCHANGED <<sink, file, at, shown>>

\* The next line of the batch goes to the WebSocket.
WriteMessage(r) ==
  /\ readerPc[r] = "write"
  /\ at[r] < index[r]
  /\ shown' = [shown EXCEPT ![r] = Append(@, lines[at[r] + 1])]
  /\ at' = [at EXCEPT ![r] = @ + 1]
  /\ UNCHANGED <<sink, file, readerPc, index, last, chan>>

\* Writing fails because the client has gone.
WriteFails(r) ==
  /\ readerPc[r] = "write"
  /\ at[r] < index[r]
  /\ readerPc' = [readerPc EXCEPT ![r] = "failed"]
  /\ UNCHANGED <<sink, file, index, at, last, chan, shown>>

\* Mutated form of EndBatch: the sink is asked again.
EndBatchStale(r) ==
  /\ readerPc[r] = "write"
  /\ at[r] = index[r]
  /\ readerPc' = [readerPc EXCEPT ![r] = IF closed THEN "done" ELSE "wait"]
  /\ UNCHANGED <<sink, file, index, at, last, chan, shown>>

\* The batch is written out: return if the sink was closed, or wait.
EndBatch(r) ==
  /\ readerPc[r] = "write"
  /\ at[r] = index[r]
  /\ readerPc' = [readerPc EXCEPT ![r] = IF last[r] THEN "done" ELSE "wait"]
  /\ UNCHANGED <<sink, file, index, at, last, chan, shown>>

\* The channel that the reader has is closed.  (The request's context, which
\* the code waits for as well, is not cancelled while the handler of a
\* hijacked connection runs.)
Wake(r) ==
  /\ readerPc[r] = "wait"
  /\ chan[r] \in shut
  /\ readerPc' = [readerPc EXCEPT ![r] = "read"]
  /\ UNCHANGED <<sink, file, index, at, last, chan, shown>>

ReaderStep(r) ==
  ReadFrom(r) \/ WriteMessage(r) \/ WriteFails(r) \/ EndBatch(r) \/ Wake(r)

SinkNext ==
  \/ \E w \in Writers : WriteLine(w)
  \/ Close
  \/ Finalize
  \/ \E r \in Readers : ReaderStep(r)

\* Readers run; the session writes and ends when it likes.
SinkFairness == \A r \in Readers : WF_sinkVars(ReaderStep(r))

SinkSpec == SinkInit /\ [][SinkNext]_sinkVars /\ SinkFairness

(***************************************************************************)
(* Properties.                                                             *)
(***************************************************************************)

\* The types; a channel is only made for a line.
SinkTypeOK ==
  /\ lines \in Seq(Writers)
  /\ closed \in BOOLEAN
  /\ notify \in 0 .. Len(lines) /\ shut \subseteq 0 .. notify
  /\ file \in Seq(Writers) \union {NoFile}
  /\ readerPc \in [Readers -> ReaderPcs]
  /\ index \in [Readers -> Nat] /\ at \in [Readers -> Nat]
  /\ last \in [Readers -> BOOLEAN]
  /\ chan \in [Readers -> 0 .. notify]
  /\ shown \in [Readers -> Seq(Writers)]

\* Every channel but the current one is closed, and that one with the sink:
\* WriteLine and Close never close a channel twice, which would panic.
ChannelOpen == shut = {c \in 0 .. notify : c < notify \/ closed}

\* No wake-up is lost: a reader that has not seen every line, or does not know
\* that the sink is closed, holds a channel that is closed.
NoLostWakeup ==
  \A r \in Readers :
     readerPc[r] \in {"write", "wait"} /\ chan[r] \notin shut =>
        index[r] = Len(lines) /\ last[r] = closed

\* A reader shows the lines in their order, none twice, none left out.
ShownInOrder ==
  \A r \in Readers :
     /\ at[r] <= index[r] /\ index[r] <= Len(lines)
     /\ Len(shown[r]) = at[r]
     /\ \A i \in 1 .. at[r] : shown[r][i] = lines[i]

\* The log file is complete: nothing is logged after its content was taken.
FileComplete == file \in {NoFile, lines}

\* A reader that returns because the sink was closed has shown everything.
DoneMeansAll == \A r \in Readers : readerPc[r] = "done" => at[r] = Len(lines)

\* When the session ends, every reader returns.
ReadersReturn ==
  closed ~> \A r \in Readers : readerPc[r] \in {"done", "failed"}
=============================================================================
