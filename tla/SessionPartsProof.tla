--------------------------- MODULE SessionPartsProof ---------------------------
(***************************************************************************)
(* Proofs about what goes on beside a session: its idle timer, for every   *)
(* timeout and every set of request goroutines; its protocol log, for      *)
(* every set of writers and readers and every number of lines; the pool    *)
(* that runs the listeners of its events, for any number of sessions and   *)
(* workers and every capacity of the channel; and the start and the end of *)
(* its service, wherever a start fails and whatever exits by itself.       *)
(***************************************************************************)
EXTENDS Watchdog, LogSink, EventPool, Starter, FiniteSetTheorems, TLAPS

(***************************************************************************)
(* The idle timer.                                                         *)
(***************************************************************************)
TimerInv == TypeOK /\ OneExpirer /\ DecisionFresh

USE DEF Threads, States, Clock, UserPcs, RunnerPcs

\* The watchdog is created active, unstarted and with its callback pending.
LEMMA TimerInitially == Init => TimerInv
<1> SUFFICES ASSUME Init PROVE TimerInv
  OBVIOUS
<1> USE TimeoutAssumption, UsersAssumption DEF Init
<1>1. TypeOK
  <2>1. 0 \in 0 .. Timeout
    OBVIOUS
  <2>2. pc \in [Threads -> UserPcs \union RunnerPcs]
    OBVIOUS
  <2>3. fired \in 0 .. 1
    OBVIOUS
  <2>4. state \in States /\ started \in BOOLEAN
    BY Zenon
  <2>5. ctxDone \in BOOLEAN /\ raced \in BOOLEAN
    BY Zenon
  <2>6. left \in Clock /\ seen \in Clock /\ timer \in Clock
    BY <2>1
  <2> QED
    BY <2>2, <2>3, <2>4, <2>5, <2>6, Zenon DEF TypeOK
<1>2. \A t \in Threads : pc[t] \in {"unborn", "idle"}
  OBVIOUS
<1>3. OneExpirer
  BY <1>2 DEF OneExpirer
<1>4. DecisionFresh
  BY DEF DecisionFresh
<1> QED
  BY <1>1, <1>3, <1>4 DEF TimerInv

\* Every step of a request goroutine, of run() and of the clock keeps the
\* types of the watchdog's fields.
LEMMA TimerTypesKept == TypeOK /\ [Next]_vars => TypeOK'
<1> SUFFICES ASSUME TypeOK, [Next]_vars PROVE TypeOK'
  OBVIOUS
<1> USE TimeoutAssumption DEF TypeOK, Goto
<1>1. CASE Start
  BY <1>1 DEF Start
<1>2. CASE Tick
  BY <1>2 DEF Tick, Earlier
<1>3. CASE RunnerStep
  <2>1. CASE RunLoad
    BY <2>1 DEF RunLoad
  <2>2. CASE RunCompare
    BY <2>2 DEF RunCompare
  <2>3. CASE RunWake
    BY <2>3 DEF RunWake
  <2>4. CASE RunQuit
    BY <2>4 DEF RunQuit
  <2>5. CASE RunExpire
    BY <2>5 DEF RunExpire
  <2>6. CASE CancelCtx(Runner)
    BY <2>6 DEF CancelCtx
  <2>7. CASE Fire(Runner)
    BY <2>7 DEF Fire
  <2> QED
    BY <1>3, <2>1, <2>2, <2>3, <2>4, <2>5, <2>6, <2>7 DEF RunnerStep
<1>4. ASSUME NEW u \in Users, UserStep(u) PROVE TypeOK'
  <2>1. CASE TouchLoad(u)
    BY <2>1 DEF TouchLoad
  <2>2. CASE TouchStore(u)
    BY <2>2 DEF TouchStore
  <2>3. CASE Stop(u)
    BY <2>3 DEF Stop
  <2>4. CASE StopCancel(u)
    BY <2>4 DEF StopCancel
  <2>5. CASE Expire(u)
    BY <2>5 DEF Expire
  <2>6. CASE CancelCtx(u)
    BY <2>6 DEF CancelCtx
  <2>7. CASE Fire(u)
    BY <2>7 DEF Fire
  <2> QED
    BY <1>4, <2>1, <2>2, <2>3, <2>4, <2>5, <2>6, <2>7 DEF UserStep
<1>5. CASE UNCHANGED vars
  BY <1>5 DEF vars
<1> QED
  BY <1>1, <1>2, <1>3, <1>4, <1>5 DEF Next

\* The compare-and-swap on the state admits one expirer and the callback
\* runs once.
LEMMA OneExpirerKept ==
  TypeOK /\ OneExpirer /\ DecisionFresh /\ [Next]_vars => OneExpirer'
<1> SUFFICES ASSUME TypeOK, OneExpirer, DecisionFresh, [Next]_vars
             PROVE  OneExpirer'
  OBVIOUS
<1> USE UsersAssumption DEF TypeOK, OneExpirer, Goto
<1>1. CASE Start
  BY <1>1 DEF Start
<1>2. CASE Tick
  BY <1>2 DEF Tick
<1>3. CASE RunnerStep
  <2>1. CASE RunLoad
    BY <2>1 DEF RunLoad
  <2>2. CASE RunCompare
    BY <2>2 DEF RunCompare
  <2>3. CASE RunWake
    BY <2>3 DEF RunWake
  <2>4. CASE RunQuit
    BY <2>4 DEF RunQuit
  <2>5. CASE RunExpire
    BY <2>5 DEF RunExpire
  <2>6. CASE CancelCtx(Runner)
    BY <2>6 DEF CancelCtx
  <2>7. CASE Fire(Runner)
    BY <2>7 DEF Fire
  <2> QED
    BY <1>3, <2>1, <2>2, <2>3, <2>4, <2>5, <2>6, <2>7 DEF RunnerStep
<1>4. ASSUME NEW u \in Users, UserStep(u) PROVE OneExpirer'
  <2>1. CASE TouchLoad(u)
    BY <2>1 DEF TouchLoad
  <2>2. CASE TouchStore(u)
    BY <2>2 DEF TouchStore
  <2>3. CASE Stop(u)
    BY <2>3 DEF Stop
  <2>4. CASE StopCancel(u)
    BY <2>4 DEF StopCancel
  <2>5. CASE Expire(u)
    BY <2>5 DEF Expire
  <2>6. CASE CancelCtx(u)
    BY <2>6 DEF CancelCtx
  <2>7. CASE Fire(u)
    BY <2>7 DEF Fire
  <2> QED
    BY <1>4, <2>1, <2>2, <2>3, <2>4, <2>5, <2>6, <2>7 DEF UserStep
<1>5. CASE UNCHANGED vars
  BY <1>5 DEF vars
<1> QED
  BY <1>1, <1>2, <1>3, <1>4, <1>5 DEF Next

\* While run() decides, the deadline it decides on is current or a Touch has
\* been recorded as racing with it.
LEMMA DecisionFreshKept == TypeOK /\ DecisionFresh /\ [Next]_vars => DecisionFresh'
<1> SUFFICES ASSUME TypeOK, DecisionFresh, [Next]_vars PROVE DecisionFresh'
  OBVIOUS
<1> USE TimeoutAssumption, UsersAssumption DEF TypeOK, DecisionFresh, Goto
<1>1. CASE Start
  BY <1>1 DEF Start, Runner
<1>2. CASE Tick
  BY <1>2 DEF Tick, Earlier
<1>3. CASE RunnerStep
  BY <1>3 DEF RunnerStep, RunLoad, RunCompare, RunWake, RunQuit, RunExpire,
              CancelCtx, Fire
<1>4. ASSUME NEW u \in Users, UserStep(u) PROVE DecisionFresh'
  <2>1. u # Runner
    BY UsersAssumption, <1>4
  <2> QED
    BY <1>4, <2>1 DEF UserStep, TouchLoad, TouchStore, Stop, StopCancel,
                      Expire, CancelCtx, Fire
<1>5. CASE UNCHANGED vars
  BY <1>5 DEF vars
<1> QED
  BY <1>1, <1>2, <1>3, <1>4, <1>5 DEF Next

\* The inductive invariant of the watchdog.
LEMMA TimerInvariance == Spec => []TimerInv
<1>1. TimerInv /\ [Next]_vars => TimerInv'
  BY TimerTypesKept, OneExpirerKept, DecisionFreshKept DEF TimerInv
<1> QED
  BY TimerInitially, <1>1, PTL DEF Spec

\* Type correctness of the watchdog, the callback counter included.
THEOREM TimerTypeCorrect == Spec => []TypeOK
<1>1. TimerInv => TypeOK
  BY DEF TimerInv
<1> QED
  BY TimerInvariance, <1>1, PTL

\* At most one goroutine expires the watchdog and calls onExpire.
THEOREM ExpiresOnce == Spec => []OneExpirer
<1>1. TimerInv => OneExpirer
  BY DEF TimerInv
<1> QED
  BY TimerInvariance, <1>1, PTL

\* run() never expires a session before its deadline unless a Touch raced
\* with the decision (watchdog.go run).
THEOREM NoEarlyExpiry == Spec => ExpiryOnlyWhenIdle
<1>1. TimerInv /\ [Next]_vars
        => [RunnerStep /\ state = "active" /\ state' = "expired"
              => left = 0 \/ raced]_vars
  <2> SUFFICES ASSUME TimerInv, RunnerStep, state = "active", state' = "expired"
               PROVE  left = 0 \/ raced
    OBVIOUS
  <2>1. RunExpire
    BY DEF RunnerStep, RunLoad, RunCompare, RunWake, RunQuit, CancelCtx, Fire
  <2> QED
    BY <2>1 DEF RunExpire, TimerInv, DecisionFresh
<1> QED
  BY TimerInvariance, <1>1, PTL DEF Spec, ExpiryOnlyWhenIdle

\* Every behaviour of the watchdog is one of the one-shot contract, liveness
\* aside: one outcome, and one callback that only an expiry leads to.
THEOREM TimerRefines == Spec => Contract!Init /\ [][Contract!Next]_(Contract!vars)
<1> USE DEF Contract!Init, Contract!Next, Contract!vars, Contract!Cancel,
            Contract!Expire, Contract!Call, OutcomeOf
<1>1. Init => Contract!Init
  BY DEF Init
<1>2. TimerInv /\ [Next]_vars => [Contract!Next]_(Contract!vars)
  <2> SUFFICES ASSUME TimerInv, [Next]_vars
               PROVE  Contract!Next \/ UNCHANGED <<state, fired>>
    OBVIOUS
  <2> USE DEF TimerInv
  <2>1. CASE UNCHANGED <<state, fired>>
    BY <2>1
  <2>2. ASSUME NEW u \in Users, Stop(u) \/ Expire(u)
        PROVE  Contract!Next
    BY <2>2 DEF Stop, Expire
  <2>3. ASSUME NEW t \in Threads, Fire(t)
        PROVE  Contract!Next
    <3>1. state = "expired" /\ fired = 0
      BY <2>3 DEF OneExpirer, Fire
    <3> QED
      BY <2>3, <3>1 DEF Fire
  <2>4. CASE RunExpire
    BY <2>4 DEF RunExpire
  <2> QED
    <3>1. CASE Start \/ Tick
      BY <3>1, <2>1 DEF Start, Tick
    <3>2. CASE RunnerStep
      BY <3>2, <2>1, <2>3, <2>4 DEF RunnerStep, RunLoad, RunCompare, RunWake,
                                    RunQuit, CancelCtx
    <3>3. ASSUME NEW u \in Users, UserStep(u)
          PROVE  Contract!Next \/ UNCHANGED <<state, fired>>
      BY <3>3, <2>1, <2>2, <2>3 DEF UserStep, TouchLoad, TouchStore,
                                    StopCancel, CancelCtx
    <3>4. CASE UNCHANGED vars
      BY <3>4 DEF vars
    <3> QED
      BY <3>1, <3>2, <3>3, <3>4 DEF Next
<1> QED
  BY TimerInvariance, <1>1, <1>2, PTL DEF Spec

HIDE DEF Threads, States, Clock, UserPcs, RunnerPcs

(***************************************************************************)
(* The protocol log.                                                       *)
(***************************************************************************)
\* A reader that was told of the end has been told all the lines, and returns
\* only after it has written them out.
EndSeen ==
  \A r \in Readers :
     /\ last[r] => closed /\ index[r] = Len(lines)
     /\ readerPc[r] = "done" => last[r] /\ at[r] = index[r]

\* The content is taken from a closed sink.
FileClosed == file # NoFile => closed

SinkInv ==
  /\ SinkTypeOK /\ ChannelOpen /\ NoLostWakeup /\ ShownInOrder
  /\ EndSeen /\ FileClosed /\ FileComplete

USE DEF ReaderPcs, sink, reader

\* A new sink is open and empty, and its readers have read nothing.
LEMMA SinkInitially == SinkInit => SinkInv
<1> SUFFICES ASSUME SinkInit PROVE SinkInv
  OBVIOUS
<1> USE DEF SinkInit
<1>1. SinkTypeOK
  <2>1. closed \in BOOLEAN
    BY Zenon
  <2>2. last \in [Readers -> BOOLEAN]
    BY Zenon
  <2>3. lines \in Seq(Writers) /\ shown \in [Readers -> Seq(Writers)]
    OBVIOUS
  <2>4. notify \in 0 .. Len(lines) /\ shut \subseteq 0 .. notify
    OBVIOUS
  <2>5. file \in Seq(Writers) \union {NoFile} /\ readerPc \in [Readers -> ReaderPcs]
    OBVIOUS
  <2>6. index \in [Readers -> Nat] /\ at \in [Readers -> Nat]
    OBVIOUS
  <2>7. chan \in [Readers -> 0 .. notify]
    OBVIOUS
  <2> QED
    BY <2>1, <2>2, <2>3, <2>4, <2>5, <2>6, <2>7, Zenon DEF SinkTypeOK
<1>2. ChannelOpen
  BY DEF ChannelOpen
<1>3. NoLostWakeup /\ ShownInOrder /\ EndSeen
  BY DEF NoLostWakeup, ShownInOrder, EndSeen
<1>4. FileClosed /\ FileComplete
  BY DEF FileClosed, FileComplete
<1> QED
  BY <1>1, <1>2, <1>3, <1>4 DEF SinkInv

\* Appending keeps what is there.
LEMMA AppendKeeps ==
  ASSUME NEW S, NEW s \in Seq(S), NEW x \in S
  PROVE  /\ Append(s, x) \in Seq(S)
         /\ Len(Append(s, x)) = Len(s) + 1
         /\ \A i \in 1 .. Len(s) : Append(s, x)[i] = s[i]
         /\ Append(s, x)[Len(s) + 1] = x
  OBVIOUS

\* WriteLine keeps the invariant: it wakes the readers that it makes late.
LEMMA WriteLineKeeps == ASSUME SinkInv, NEW w \in Writers, WriteLine(w) PROVE SinkInv'
<1> USE DEF SinkInv, SinkTypeOK, WriteLine
<1>1. /\ lines' \in Seq(Writers) /\ Len(lines') = Len(lines) + 1
      /\ \A i \in 1 .. Len(lines) : lines'[i] = lines[i]
  BY AppendKeeps
<1>2. notify' = notify + 1 /\ shut' = shut \union {notify}
  OBVIOUS
<1>3. Len(lines) \in Nat /\ notify \in Nat
  OBVIOUS
<1>4. SinkTypeOK'
  <2>1. closed' \in BOOLEAN /\ last' \in [Readers -> BOOLEAN]
    BY Zenon
  <2>2. notify' \in 0 .. Len(lines') /\ shut' \subseteq 0 .. notify'
    <3>1. notify' \in 0 .. Len(lines')
      BY <1>1, <1>2, <1>3
    <3>2. ASSUME NEW c \in shut \union {notify} PROVE c \in 0 .. notify + 1
      BY <1>3
    <3> QED
      BY <1>2, <3>1, <3>2
  <2>3. chan' \in [Readers -> 0 .. notify']
    BY <1>2, <1>3
  <2>4. /\ file' \in Seq(Writers) \union {NoFile} /\ readerPc' \in [Readers -> ReaderPcs]
        /\ index' \in [Readers -> Nat] /\ at' \in [Readers -> Nat]
        /\ shown' \in [Readers -> Seq(Writers)]
    OBVIOUS
  <2> QED
    BY <1>1, <2>1, <2>2, <2>3, <2>4, Zenon
<1>5. ChannelOpen'
  BY <1>2, <1>3 DEF ChannelOpen
<1>6. NoLostWakeup'
  <2>1. \A r \in Readers : chan'[r] \in shut'
    BY <1>2, <1>3 DEF ChannelOpen
  <2> QED
    BY <2>1 DEF NoLostWakeup
<1>7. ShownInOrder'
  BY <1>1, <1>3 DEF ShownInOrder
<1>8. EndSeen' /\ FileClosed' /\ FileComplete'
  BY DEF EndSeen, FileClosed, FileComplete
<1> QED
  BY <1>4, <1>5, <1>6, <1>7, <1>8

\* Close and the taking of the content keep the invariant.
LEMMA EndKeeps == SinkInv /\ (Close \/ Finalize) => SinkInv'
<1> SUFFICES ASSUME SinkInv, Close \/ Finalize PROVE SinkInv'
  OBVIOUS
<1> USE DEF SinkInv, SinkTypeOK
<1>1. CASE Close
  <2> USE <1>1 DEF Close
  <2>1. SinkTypeOK'
    <3>1. closed' \in BOOLEAN /\ last' \in [Readers -> BOOLEAN]
      BY Zenon
    <3>2. shut' \subseteq 0 .. notify'
      OBVIOUS
    <3> QED
      BY <3>1, <3>2, Zenon
  <2>2. ChannelOpen'
    BY DEF ChannelOpen
  <2>3. NoLostWakeup'
    BY DEF NoLostWakeup, ChannelOpen
  <2>4. ShownInOrder' /\ EndSeen'
    BY DEF ShownInOrder, EndSeen
  <2>5. FileClosed' /\ FileComplete'
    BY DEF FileClosed, FileComplete
  <2> QED
    BY <2>1, <2>2, <2>3, <2>4, <2>5
<1>2. CASE Finalize
  <2> USE <1>2 DEF Finalize
  <2>1. SinkTypeOK'
    <3>1. closed' \in BOOLEAN /\ last' \in [Readers -> BOOLEAN]
      BY Zenon
    <3> QED
      BY <3>1, Zenon
  <2>2. ChannelOpen' /\ NoLostWakeup'
    BY DEF ChannelOpen, NoLostWakeup
  <2>3. ShownInOrder' /\ EndSeen'
    BY DEF ShownInOrder, EndSeen
  <2>4. FileClosed' /\ FileComplete'
    BY DEF FileClosed, FileComplete
  <2> QED
    BY <2>1, <2>2, <2>3, <2>4
<1> QED
  BY <1>1, <1>2

\* ReadFrom takes the number of lines, the state and the channel together,
\* and so keeps the invariant.
LEMMA ReadFromKeeps == ASSUME SinkInv, NEW r \in Readers, ReadFrom(r) PROVE SinkInv'
<1> USE DEF SinkInv, SinkTypeOK, ReadFrom
<1>1. SinkTypeOK'
  <2>1. closed' \in BOOLEAN
    BY Zenon
  <2>2. last' \in [Readers -> BOOLEAN]
    BY Zenon
  <2>3. chan' \in [Readers -> 0 .. notify']
    OBVIOUS
  <2>4. index' \in [Readers -> Nat] /\ readerPc' \in [Readers -> ReaderPcs]
    OBVIOUS
  <2> QED
    BY <2>1, <2>2, <2>3, <2>4, Zenon
<1>2. ChannelOpen' /\ FileClosed' /\ FileComplete'
  BY DEF ChannelOpen, FileClosed, FileComplete
<1>3. NoLostWakeup'
  BY DEF NoLostWakeup
<1>4. ShownInOrder'
  BY DEF ShownInOrder
<1>5. EndSeen'
  BY DEF EndSeen, ShownInOrder
<1> QED
  BY <1>1, <1>2, <1>3, <1>4, <1>5

\* The other steps of a reader keep the invariant.
LEMMA ReaderKeeps == ASSUME SinkInv, NEW r \in Readers, ReaderStep(r) PROVE SinkInv'
<1> USE DEF SinkInv, SinkTypeOK
<1>1. CASE ReadFrom(r)
  BY <1>1, ReadFromKeeps
<1>2. CASE WriteMessage(r)
  <2> USE <1>2 DEF WriteMessage
  <2>1. at[r] + 1 \in 1 .. Len(lines) /\ lines[at[r] + 1] \in Writers
    BY DEF ShownInOrder
  <2>2. /\ shown' \in [Readers -> Seq(Writers)]
        /\ Len(shown'[r]) = at[r] + 1
        /\ \A i \in 1 .. at[r] + 1 : shown'[r][i] = lines[i]
    <3>1. Len(shown[r]) = at[r] /\ \A i \in 1 .. at[r] : shown[r][i] = lines[i]
      BY DEF ShownInOrder
    <3>2. shown'[r] = Append(shown[r], lines[at[r] + 1])
      OBVIOUS
    <3> QED
      BY <2>1, <3>1, <3>2, AppendKeeps
  <2>3. SinkTypeOK'
    <3>1. closed' \in BOOLEAN /\ last' \in [Readers -> BOOLEAN]
      BY Zenon
    <3>2. at' \in [Readers -> Nat]
      OBVIOUS
    <3> QED
      BY <2>2, <3>1, <3>2, Zenon
  <2>4. ShownInOrder'
    BY <2>1, <2>2 DEF ShownInOrder
  <2>5. ChannelOpen' /\ FileClosed' /\ FileComplete'
    BY DEF ChannelOpen, FileClosed, FileComplete
  <2>6. NoLostWakeup' /\ EndSeen'
    BY DEF NoLostWakeup, EndSeen
  <2> QED
    BY <2>3, <2>4, <2>5, <2>6
<1>3. CASE WriteFails(r) \/ EndBatch(r) \/ Wake(r)
  <2> USE <1>3 DEF WriteFails, EndBatch, Wake
  <2>1. SinkTypeOK'
    <3>1. closed' \in BOOLEAN /\ last' \in [Readers -> BOOLEAN]
      BY Zenon
    <3>2. readerPc' \in [Readers -> ReaderPcs]
      OBVIOUS
    <3> QED
      BY <3>1, <3>2, Zenon
  <2>2. ChannelOpen' /\ FileClosed' /\ FileComplete'
    BY DEF ChannelOpen, FileClosed, FileComplete
  <2>3. NoLostWakeup'
    BY DEF NoLostWakeup
  <2>4. ShownInOrder' /\ EndSeen'
    BY DEF ShownInOrder, EndSeen
  <2> QED
    BY <2>1, <2>2, <2>3, <2>4
<1> QED
  BY <1>1, <1>2, <1>3 DEF ReaderStep

\* Every step of the system keeps the invariant.
LEMMA SinkInductive == SinkInv /\ [SinkNext]_sinkVars => SinkInv'
<1> SUFFICES ASSUME SinkInv, [SinkNext]_sinkVars PROVE SinkInv'
  OBVIOUS
<1>1. CASE \E w \in Writers : WriteLine(w)
  BY <1>1, WriteLineKeeps
<1>2. CASE Close \/ Finalize
  BY <1>2, EndKeeps
<1>3. CASE \E r \in Readers : ReaderStep(r)
  BY <1>3, ReaderKeeps
<1>4. CASE UNCHANGED sinkVars
  BY <1>4 DEF SinkInv, SinkTypeOK, ChannelOpen, NoLostWakeup, ShownInOrder, EndSeen,
              FileClosed, FileComplete, sinkVars
<1> QED
  BY <1>1, <1>2, <1>3, <1>4 DEF SinkNext

\* The invariant holds in every state of the log.
THEOREM SinkInvariance == SinkSpec => []SinkInv
<1>1. SinkInit => SinkInv
  BY SinkInitially
<1>2. SinkInv /\ [SinkNext]_sinkVars => SinkInv'
  BY SinkInductive
<1> QED
  BY <1>1, <1>2, PTL DEF SinkSpec

\* The types of the sink's fields and of the readers' variables, for every
\* number of goroutines.
THEOREM SinkTypeCorrect == SinkSpec => []SinkTypeOK
<1>1. SinkInv => SinkTypeOK
  BY DEF SinkInv
<1> QED
  BY <1>1, SinkInvariance, PTL

\* No channel of the sink is closed twice and none is forgotten (WriteLine and
\* Close in session/log_sink.go).
THEOREM ChannelsClosedOnce == SinkSpec => []ChannelOpen
<1>1. SinkInv => ChannelOpen
  BY DEF SinkInv
<1> QED
  BY <1>1, SinkInvariance, PTL

\* A reader in its select is woken whenever there is something it has not seen
\* (ReadFrom in session/log_sink.go and its loop in logs_ws.go).
THEOREM WakeupsKept == SinkSpec => []NoLostWakeup
<1>1. SinkInv => NoLostWakeup
  BY DEF SinkInv
<1> QED
  BY <1>1, SinkInvariance, PTL

\* What a reader writes to its WebSocket is a prefix of the log.
THEOREM PrefixShown == SinkSpec => []ShownInOrder
<1>1. SinkInv => ShownInOrder
  BY DEF SinkInv
<1> QED
  BY <1>1, SinkInvariance, PTL

\* A reader that returns because the sink was closed has written the whole log.
THEOREM WholeLogShown == SinkSpec => []DoneMeansAll
<1>1. SinkInv => DoneMeansAll
  BY DEF SinkInv, EndSeen, DoneMeansAll
<1> QED
  BY <1>1, SinkInvariance, PTL

\* The log file has every line that was ever logged.
THEOREM WholeLogSaved == SinkSpec => []FileComplete
<1>1. SinkInv => FileComplete
  BY DEF SinkInv
<1> QED
  BY <1>1, SinkInvariance, PTL

HIDE DEF ReaderPcs, sink, reader

(***************************************************************************)
(* The event pool.  A published job is followed from place to place: with  *)
(* the clean-up that is to publish it, in the channel, with the goroutine  *)
(* that runs it, over.  Nobody but the clean-up ever has a session's       *)
(* events to publish; what workers and spawned goroutines publish is the   *)
(* metadata file.                                                          *)
(***************************************************************************)
AtMostOnce(x, q) == \A i, k \in 1 .. Len(q) : q[i] = x /\ q[k] = x => i = k
MetaOnly(q) == \A i \in 1 .. Len(q) : q[i][1] = "meta"

\* The clean-up of a session runs no job, and publishes only its own, each once.
Publisher(s) ==
  /\ job[s] = None
  /\ \A i \in 1 .. Len(todo[s]) : InSeq(todo[s][i], Published(s))
  /\ \A j \in Jobs : AtMostOnce(j, todo[s])
  /\ where[s] = "unborn" => todo[s] = <<>>

\* A worker leaves when nothing more can come.
Worker(w) ==
  /\ where[w] # "unborn"
  /\ where[w] \in {"idle", "done"} => job[w] = None /\ todo[w] = <<>>
  /\ where[w] = "done" => workClosed /\ queue = <<>>
  /\ MetaOnly(todo[w])

\* A goroutine that publish has spawned runs the job that it is named by.
Spawned(j) ==
  /\ job[j] = IF where[j] \in {"run", "send", "blocked", "told"} THEN j ELSE None
  /\ j[1] # "metadata" => todo[j] = <<>>
  /\ MetaOnly(todo[j])

Sender(t) == where[t] \in {"send", "blocked", "told"} => todo[t] # <<>>

\* The list of blocked senders.
Waiting ==
  /\ \A i \in 1 .. Len(sendq) : where[sendq[i]] = "blocked"
  /\ \A t \in Goroutines : AtMostOnce(t, sendq)
  /\ stopped => sendq = <<>>

Stopping ==
  /\ main \notin {"serving", "sweeping"} => stopped
  /\ main = "drained" => \A w \in Workers : where[w] = "done"

\* A published job is to be published, in the channel, running or over.
InOnePlace(j, s) ==
  LET P == InSeq(j, todo[s])
      C == InSeq(j, queue)
      R == \E t \in Goroutines : job[t] = j
      F == j \in finished
  IN
  /\ AtMostOnce(j, queue)
  /\ \A t, u \in Goroutines : job[t] = j /\ job[u] = j => t = u
  /\ where[s] = "unborn" => ~P /\ ~C /\ ~R /\ ~F
  /\ where[s] # "unborn" => P \/ C \/ R \/ F
  /\ P => ~C /\ ~R /\ ~F
  /\ C => ~R /\ ~F
  /\ R => ~F

PoolInv ==
  /\ PoolTypeOK
  /\ \A s \in Sessions : Publisher(s)
  /\ \A w \in Workers : Worker(w)
  /\ \A j \in Jobs : Spawned(j)
  /\ \A t \in Goroutines : Sender(t)
  /\ Waiting
  /\ Stopping
  /\ \A s \in Sessions, j \in Jobs : InSeq(j, Published(s)) => InOnePlace(j, s)

(***************************************************************************)
(* Sequences.                                                              *)
(***************************************************************************)
LEMMA TailTakesHead ==
  ASSUME NEW S, NEW q \in Seq(S), q # <<>>
  PROVE  /\ Head(q) \in S /\ Tail(q) \in Seq(S) /\ InSeq(Head(q), q)
         /\ Len(Tail(q)) = Len(q) - 1 /\ Len(q) \in Nat \ {0}
         /\ q[1] = Head(q)
         /\ \A i \in 1 .. Len(Tail(q)) : Tail(q)[i] = q[i + 1] /\ i + 1 \in 1 .. Len(q)
BY DEF InSeq

LEMMA TailOnce ==
  ASSUME NEW S, NEW q \in Seq(S), q # <<>>, NEW x, AtMostOnce(x, q)
  PROVE  /\ InSeq(x, Tail(q)) <=> InSeq(x, q) /\ x # Head(q)
         /\ AtMostOnce(x, Tail(q))
<1>1. AtMostOnce(x, Tail(q))
  BY TailTakesHead DEF AtMostOnce
<1>2. ASSUME InSeq(x, Tail(q)) PROVE InSeq(x, q) /\ x # Head(q)
  <2>1. PICK i \in 1 .. Len(Tail(q)) : Tail(q)[i] = x
    BY <1>2 DEF InSeq
  <2>2. q[i + 1] = x /\ i + 1 \in 1 .. Len(q) /\ i + 1 # 1 /\ 1 \in 1 .. Len(q)
    BY <2>1, TailTakesHead
  <2> QED
    BY <2>2, TailTakesHead DEF InSeq, AtMostOnce
<1>3. ASSUME InSeq(x, q), x # Head(q) PROVE InSeq(x, Tail(q))
  <2>1. PICK i \in 1 .. Len(q) : q[i] = x
    BY <1>3 DEF InSeq
  <2>2. i - 1 \in 1 .. Len(Tail(q)) /\ Tail(q)[i - 1] = x
    BY <1>3, <2>1, TailTakesHead
  <2> QED
    BY <2>2 DEF InSeq
<1> QED
  BY <1>1, <1>2, <1>3

LEMMA AppendOnce ==
  ASSUME NEW S, NEW q \in Seq(S), NEW x \in S
  PROVE  /\ Append(q, x) \in Seq(S) /\ Len(Append(q, x)) = Len(q) + 1
         /\ \A i \in 1 .. Len(Append(q, x)) :
              Append(q, x)[i] = x \/ (i \in 1 .. Len(q) /\ Append(q, x)[i] = q[i])
         /\ \A y : InSeq(y, Append(q, x)) <=> InSeq(y, q) \/ y = x
         /\ \A y : AtMostOnce(y, q) /\ (y = x => ~InSeq(y, q))
                     => AtMostOnce(y, Append(q, x))
<1>1. /\ Append(q, x) \in Seq(S) /\ Len(Append(q, x)) = Len(q) + 1 /\ Len(q) \in Nat
      /\ \A i \in 1 .. Len(q) : Append(q, x)[i] = q[i]
      /\ Append(q, x)[Len(q) + 1] = x
  OBVIOUS
<1>2. 1 .. Len(q) + 1 = (1 .. Len(q)) \union {Len(q) + 1}
  BY <1>1
<1>3. \A y : InSeq(y, Append(q, x)) <=> InSeq(y, q) \/ y = x
  BY <1>1, <1>2 DEF InSeq
<1>4. ASSUME NEW y, AtMostOnce(y, q), y = x => ~InSeq(y, q)
      PROVE  AtMostOnce(y, Append(q, x))
  BY <1>1, <1>2, <1>4 DEF AtMostOnce, InSeq
<1> QED
  BY <1>1, <1>2, <1>3, <1>4

(***************************************************************************)
(* What is published.                                                      *)
(***************************************************************************)
LEMMA PublishedJobs ==
  ASSUME NEW s \in Sessions
  PROVE  /\ Published(s) \in Seq(Jobs)
         /\ \A x : InSeq(x, Published(s)) => x[1] # "meta" /\ x[2] = s
         /\ \A x : AtMostOnce(x, Published(s))
<1> DEFINE h == <<"history", s>>
           m == <<"metadata", s>>
           l == <<"log", s>>
<1>1. l \in Jobs /\ h \in Jobs /\ m \in Jobs /\ l # h /\ l # m /\ h # m
  BY DEF Jobs
<1>2. /\ Published(s) \in Seq(Jobs)
      /\ \/ /\ Len(Published(s)) = 3 /\ Published(s)[1] = l
            /\ Published(s)[2] = h /\ Published(s)[3] = m
         \/ /\ Len(Published(s)) = 2 /\ Published(s)[1] = h /\ Published(s)[2] = m
  <2> HIDE DEF l, h, m
  <2>1. CASE s \in Logged
    <3>1. Published(s) = <<l>> \o <<h, m>>
      BY <2>1 DEF Published, l, h, m
    <3> QED
      BY <1>1, <3>1
  <2>2. CASE s \notin Logged
    <3>1. Published(s) = <<>> \o <<h, m>>
      BY <2>2 DEF Published, l, h, m
    <3> QED
      BY <1>1, <3>1
  <2> QED
    BY <2>1, <2>2
<1>4. l[1] # "meta" /\ h[1] # "meta" /\ m[1] # "meta" /\ l[2] = s /\ h[2] = s /\ m[2] = s
  OBVIOUS
<1> HIDE DEF l, h, m
<1> QED
  BY <1>1, <1>2, <1>4 DEF InSeq, AtMostOnce

LEMMA DerivedJobs ==
  ASSUME NEW j \in Jobs, NEW d \in Derived(j)
  PROVE  /\ d \in Seq(Jobs) /\ MetaOnly(d)
         /\ j[1] # "metadata" => d = <<>>
<1>1. <<"meta", j[2]>> \in Jobs
  BY DEF Jobs
<1>2. d = <<>> \/ (j[1] = "metadata" /\ d = << <<"meta", j[2]>> >>)
  BY Zenon DEF Derived
<1> DEFINE m == <<"meta", j[2]>>
<1>3. m \in Jobs /\ m[1] = "meta" /\ (d = <<>> \/ (j[1] = "metadata" /\ d = <<m>>))
  BY <1>1, <1>2
<1> HIDE DEF m
<1>4. CASE d = <<>>
  BY <1>4 DEF MetaOnly
<1>5. CASE j[1] = "metadata" /\ d = <<m>>
  <2>1. d \in Seq(Jobs) /\ Len(d) = 1 /\ d[1] = m
    BY <1>3, <1>5
  <2> QED
    BY <1>3, <1>5, <2>1 DEF MetaOnly
<1> QED
  BY <1>3, <1>4, <1>5

\* Nothing has happened.
LEMMA PoolInitially == PoolInit => PoolInv
<1> SUFFICES ASSUME PoolInit PROVE PoolInv
  OBVIOUS
<1>1. PoolTypeOK
  <2>1. stopped \in BOOLEAN /\ workClosed \in BOOLEAN /\ crashed \in BOOLEAN
    BY Zenon DEF PoolInit
  <2>2. queue \in Seq(Jobs) /\ Len(queue) <= BufSize /\ sendq \in Seq(Goroutines)
    BY BufAssumption DEF PoolInit
  <2> QED
    BY <2>1, <2>2 DEF PoolInit, PoolTypeOK, Pcs, MainPcs
<1>2. \A s \in Sessions : Publisher(s)
  BY NamesAssumption DEF PoolInit, Publisher, Goroutines, AtMostOnce
<1>3. \A w \in Workers : Worker(w)
  BY DEF PoolInit, Worker, Goroutines, MetaOnly
<1>4. \A j \in Jobs : Spawned(j)
  BY NamesAssumption DEF PoolInit, Spawned, Goroutines, MetaOnly
<1>5. (\A t \in Goroutines : Sender(t)) /\ Waiting /\ Stopping
  BY DEF PoolInit, Sender, Waiting, Stopping, AtMostOnce
<1>6. \A s \in Sessions, j \in Jobs : InOnePlace(j, s)
  BY NamesAssumption DEF PoolInit, InOnePlace, InSeq, AtMostOnce, Goroutines
<1> QED
  BY <1>1, <1>2, <1>3, <1>4, <1>5, <1>6 DEF PoolInv

(***************************************************************************)
(* Goroutines and what they have to publish.                               *)
(***************************************************************************)
LEMMA PoolTypes ==
  ASSUME PoolInv
  PROVE  /\ queue \in Seq(Jobs) /\ sendq \in Seq(Goroutines)
         /\ where \in [Goroutines -> Pcs]
         /\ todo \in [Goroutines -> Seq(Jobs)]
         /\ job \in [Goroutines -> Jobs \union {None}]
BY DEF PoolInv, PoolTypeOK

\* The first job of a goroutine that publishes.
LEMMA FirstJob ==
  ASSUME PoolInv, NEW t \in Goroutines, todo[t] # <<>>
  PROVE  /\ Head(todo[t]) \in Jobs /\ Tail(todo[t]) \in Seq(Jobs)
         /\ InSeq(Head(todo[t]), todo[t])
         /\ t \in Sessions => /\ InSeq(Head(todo[t]), Published(t))
                              /\ where[t] # "unborn"
         /\ t \notin Sessions => Head(todo[t])[1] = "meta" /\ Head(todo[t]) # t
<1>1. todo[t] \in Seq(Jobs)
  BY PoolTypes
<1>2. /\ Head(todo[t]) \in Jobs /\ Tail(todo[t]) \in Seq(Jobs)
      /\ InSeq(Head(todo[t]), todo[t])
      /\ 1 \in 1 .. Len(todo[t]) /\ todo[t][1] = Head(todo[t])
  BY <1>1, TailTakesHead
<1>3. ASSUME t \in Sessions PROVE InSeq(Head(todo[t]), Published(t)) /\ where[t] # "unborn"
  BY <1>2, <1>3 DEF PoolInv, Publisher
<1>4. ASSUME t \notin Sessions PROVE Head(todo[t])[1] = "meta" /\ Head(todo[t]) # t
  <2>1. MetaOnly(todo[t]) /\ (t \in Jobs => t[1] = "metadata")
    BY <1>4, NamesAssumption DEF PoolInv, Worker, Spawned, Goroutines
  <2>2. Head(todo[t])[1] = "meta"
    BY <1>2, <2>1 DEF MetaOnly
  <2> QED
    BY <1>2, <2>1, <2>2
<1> QED
  BY <1>2, <1>3, <1>4

\* What is left of its jobs is like them.
LEMMA JobsLeft ==
  ASSUME PoolInv, NEW t \in Goroutines, todo[t] # <<>>
  PROVE  /\ t \in Sessions =>
              /\ \A i \in 1 .. Len(Tail(todo[t])) : InSeq(Tail(todo[t])[i], Published(t))
              /\ \A j \in Jobs : AtMostOnce(j, Tail(todo[t]))
         /\ t \notin Sessions => MetaOnly(Tail(todo[t]))
<1>1. todo[t] \in Seq(Jobs)
  BY PoolTypes
<1>2. ASSUME t \in Sessions
      PROVE  /\ \A i \in 1 .. Len(Tail(todo[t])) : InSeq(Tail(todo[t])[i], Published(t))
             /\ \A j \in Jobs : AtMostOnce(j, Tail(todo[t]))
  BY <1>1, <1>2, TailTakesHead, TailOnce DEF PoolInv, Publisher
<1>3. ASSUME t \notin Sessions PROVE MetaOnly(Tail(todo[t]))
  <2>1. MetaOnly(todo[t])
    BY <1>3 DEF PoolInv, Worker, Spawned, Goroutines
  <2> QED
    BY <1>1, <2>1, TailTakesHead DEF MetaOnly
<1> QED
  BY <1>2, <1>3

\* Only its session has a published job to publish.
LEMMA PublishedLeft ==
  ASSUME PoolInv, NEW t \in Goroutines, todo[t] # <<>>,
         NEW s \in Sessions, NEW j \in Jobs, InSeq(j, Published(s)),
         todo'[s] = IF s = t THEN Tail(todo[t]) ELSE todo[s]
  PROVE  /\ InSeq(j, todo'[s]) <=> InSeq(j, todo[s]) /\ j # Head(todo[t])
         /\ j = Head(todo[t]) => s = t /\ InSeq(j, todo[s])
<1>1. j = Head(todo[t]) => s = t /\ InSeq(j, todo[s])
  BY FirstJob, PublishedJobs
<1>2. CASE s = t
  BY <1>2, <1>1, PoolTypes, TailOnce DEF PoolInv, Publisher
<1> QED
  BY <1>1, <1>2

\* A step that moves no job.
LEMMA PlacesStay ==
  ASSUME PoolInv, UNCHANGED <<queue, todo, job, finished>>,
         \A s \in Sessions : where'[s] = "unborn" <=> where[s] = "unborn"
  PROVE  \A s \in Sessions, j \in Jobs : InSeq(j, Published(s)) => InOnePlace(j, s)'
BY DEF PoolInv, InOnePlace

(***************************************************************************)
(* Steps that move no job.                                                 *)
(***************************************************************************)
\* The first select finds the pool open, or the second one blocks.
LEMMA SelectKeeps ==
  ASSUME PoolInv, NEW t \in Goroutines, (Check(t) /\ ~stopped) \/ Block(t)
  PROVE  PoolInv'
<1>1. PICK p \in {"send", "blocked"} :
        /\ where' = [where EXCEPT ![t] = p]
        /\ \/ sendq' = sendq
           \/ sendq' = Append(sendq, t) /\ p = "blocked" /\ ~stopped
  BY DEF Check, Block, pool
<1>2. /\ where[t] \in {"run", "send"} /\ todo[t] # <<>>
      /\ UNCHANGED <<queue, todo, job, finished, stopped, workClosed, shutdown>>
  BY DEF Check, Block, pool, PoolInv, Sender
<1>3. \A u \in Goroutines : where'[u] = IF u = t THEN p ELSE where[u]
  BY <1>1, PoolTypes
<1>4. PoolTypeOK'
  <2>1. where' \in [Goroutines -> Pcs]
    BY <1>1, PoolTypes DEF Pcs
  <2>2. sendq' \in Seq(Goroutines)
    <3>1. sendq \in Seq(Goroutines) /\ Append(sendq, t) \in Seq(Goroutines)
      BY PoolTypes, AppendOnce
    <3> QED
      BY <1>1, <3>1
  <2> QED
    BY <1>2, <2>1, <2>2 DEF PoolInv, PoolTypeOK, shutdown
<1>5. \A s \in Sessions : Publisher(s)'
  BY <1>2, <1>3 DEF PoolInv, Publisher, Goroutines
<1>6. \A w \in Workers : Worker(w)'
  BY <1>2, <1>3 DEF PoolInv, Worker, Goroutines
<1>7. \A j \in Jobs : Spawned(j)'
  BY <1>2, <1>3 DEF PoolInv, Spawned, Goroutines
<1>8. \A u \in Goroutines : Sender(u)'
  BY <1>2, <1>3 DEF PoolInv, Sender
<1>9. Waiting'
  <2>1. \A i \in 1 .. Len(sendq) : sendq[i] \in Goroutines /\ where'[sendq[i]] = "blocked"
    BY <1>2, <1>3, PoolTypes DEF PoolInv, Waiting
  <2>2. CASE sendq' = sendq
    BY <1>2, <2>1, <2>2 DEF PoolInv, Waiting
  <2>3. CASE sendq' = Append(sendq, t) /\ p = "blocked" /\ ~stopped
    <3>1. ~InSeq(t, sendq)
      BY <1>2 DEF PoolInv, Waiting, InSeq
    <3>2. \A u \in Goroutines : AtMostOnce(u, sendq')
      BY <2>3, <3>1, PoolTypes, AppendOnce DEF PoolInv, Waiting
    <3>3. \A i \in 1 .. Len(sendq') : where'[sendq'[i]] = "blocked"
      BY <1>3, <2>1, <2>3, PoolTypes, AppendOnce
    <3> QED
      BY <1>2, <2>3, <3>2, <3>3 DEF Waiting
  <2> QED
    BY <1>1, <2>2, <2>3
<1>10. Stopping'
  BY <1>2, <1>3 DEF PoolInv, Stopping, shutdown, Goroutines
<1>11. \A s \in Sessions, j \in Jobs : InSeq(j, Published(s)) => InOnePlace(j, s)'
  BY <1>2, <1>3, PlacesStay DEF Goroutines
<1> QED
  BY <1>4, <1>5, <1>6, <1>7, <1>8, <1>9, <1>10, <1>11 DEF PoolInv

\* A clean-up has published everything, or a worker leaves.
LEMMA LeaveKeeps ==
  ASSUME PoolInv, NEW t \in Goroutines,
         (t \in Sessions /\ End(t)) \/ (t \in Workers /\ Leave(t))
  PROVE  PoolInv'
<1>1. /\ where' = [where EXCEPT ![t] = "done"]
      /\ where[t] \in {"run", "idle"}
      /\ t \in Workers => where[t] = "idle" /\ workClosed /\ queue = <<>>
      /\ t \in Sessions \union Workers
      /\ UNCHANGED <<pool, todo, job, finished, main, crashed>>
      /\ sweeps' \in {sweeps, None}
  BY NamesAssumption DEF End, Leave, shutdown
<1>2. \A u \in Goroutines : where'[u] = IF u = t THEN "done" ELSE where[u]
  BY <1>1, PoolTypes
<1>3. PoolTypeOK'
  <2>1. where' \in [Goroutines -> Pcs]
    BY <1>1, PoolTypes DEF Pcs
  <2> QED
    BY <1>1, <2>1 DEF PoolInv, PoolTypeOK, pool
<1>4. \A s \in Sessions : Publisher(s)'
  BY <1>1, <1>2 DEF PoolInv, Publisher, Goroutines
<1>5. \A w \in Workers : Worker(w)'
  BY <1>1, <1>2 DEF PoolInv, Worker, Goroutines, pool
<1>6. \A j \in Jobs : Spawned(j)'
  BY <1>1, <1>2, NamesAssumption DEF PoolInv, Spawned, Goroutines
<1>7. (\A u \in Goroutines : Sender(u)') /\ Waiting'
  BY <1>1, <1>2, PoolTypes DEF PoolInv, Sender, Waiting, pool
<1>8. Stopping'
  BY <1>1, <1>2 DEF PoolInv, Stopping, pool, Goroutines
<1>9. \A s \in Sessions, j \in Jobs : InSeq(j, Published(s)) => InOnePlace(j, s)'
  BY <1>1, <1>2, PlacesStay DEF Goroutines, pool
<1> QED
  BY <1>3, <1>4, <1>5, <1>6, <1>7, <1>8, <1>9 DEF PoolInv

\* main, and a publisher that panics.
LEMMA MainKeeps ==
  ASSUME PoolInv,
         \/ \E t \in Goroutines : SendPanics(t)
         \/ \E s \in Sessions : Await(s)
         \/ Signal \/ CloseWork \/ Drained \/ TimedOut \/ Exit
  PROVE  PoolInv'
<1>1. /\ UNCHANGED <<queue, sendq, stopped, where, todo, job, finished>>
      /\ workClosed' = workClosed \/ (workClosed' = TRUE /\ main = "stopping")
      /\ sweeps' \in Sessions \union {None} /\ crashed' \in BOOLEAN
      /\ \/ main' = main
         \/ main' = "sweeping"
         \/ main' \in {"draining", "exited"} /\ main \notin {"serving", "sweeping"}
         \/ main' = "drained" /\ main = "draining" /\ \A w \in Workers : where[w] = "done"
  BY DEF SendPanics, Await, Signal, CloseWork, Drained, TimedOut, Exit, pool, PoolInv, PoolTypeOK
<1>2. PoolTypeOK'
  <2>1. workClosed' \in BOOLEAN /\ (workClosed' => stopped')
    <3>1. main = "stopping" => stopped
      BY DEF PoolInv, Stopping
    <3>2. workClosed \in BOOLEAN /\ (workClosed => stopped)
      BY Zenon DEF PoolInv, PoolTypeOK
    <3>3. stopped' = stopped
      BY <1>1
    <3>4. CASE workClosed' = workClosed
      BY <3>2, <3>3, <3>4, Zenon
    <3>5. CASE workClosed' = TRUE /\ main = "stopping"
      BY <3>1, <3>3, <3>5, Zenon
    <3> QED
      BY <1>1, <3>4, <3>5
  <2>2. main' \in MainPcs
    BY <1>1 DEF PoolInv, PoolTypeOK, MainPcs
  <2> QED
    BY <1>1, <2>1, <2>2 DEF PoolInv, PoolTypeOK
<1>3. (\A s \in Sessions : Publisher(s)') /\ (\A j \in Jobs : Spawned(j)')
  BY <1>1 DEF PoolInv, Publisher, Spawned
<1>4. \A w \in Workers : Worker(w)'
  BY <1>1 DEF PoolInv, Worker
<1>5. (\A t \in Goroutines : Sender(t)') /\ Waiting'
  BY <1>1 DEF PoolInv, Sender, Waiting
<1>6. Stopping'
  BY <1>1 DEF PoolInv, Stopping
<1>7. \A s \in Sessions, j \in Jobs : InSeq(j, Published(s)) => InOnePlace(j, s)'
  BY <1>1, PlacesStay
<1> QED
  BY <1>2, <1>3, <1>4, <1>5, <1>6, <1>7 DEF PoolInv

\* Closing poolStop wakes the blocked senders, and keeps what they have to send.
LEMMA StopPoolKeeps ==
  ASSUME PoolInv, StopPool
  PROVE  PoolInv'
<1>1. /\ stopped' = TRUE /\ sendq' = <<>> /\ main' = "stopping"
      /\ UNCHANGED <<queue, workClosed, todo, job, finished, sweeps, crashed>>
      /\ where' = [t \in Goroutines |-> IF where[t] = "blocked" THEN "told" ELSE where[t]]
  BY DEF StopPool
<1>2. \A t \in Goroutines : where'[t] = IF where[t] = "blocked" THEN "told" ELSE where[t]
  BY <1>1
<1>3. PoolTypeOK'
  <2>1. where' \in [Goroutines -> Pcs]
    BY <1>1, PoolTypes DEF Pcs
  <2> QED
    BY <1>1, <2>1 DEF PoolInv, PoolTypeOK, MainPcs
<1>4. \A s \in Sessions : Publisher(s)'
  BY <1>1, <1>2 DEF PoolInv, Publisher, Goroutines
<1>5. \A w \in Workers : Worker(w)'
  BY <1>1, <1>2 DEF PoolInv, Worker, Goroutines
<1>6. \A j \in Jobs : Spawned(j)'
  BY <1>1, <1>2 DEF PoolInv, Spawned, Goroutines
<1>7. (\A t \in Goroutines : Sender(t)') /\ Waiting' /\ Stopping'
  BY <1>1, <1>2 DEF PoolInv, Sender, Waiting, Stopping, AtMostOnce
<1>8. \A s \in Sessions, j \in Jobs : InSeq(j, Published(s)) => InOnePlace(j, s)'
  BY <1>1, <1>2, PlacesStay DEF Goroutines
<1> QED
  BY <1>3, <1>4, <1>5, <1>6, <1>7, <1>8 DEF PoolInv

(***************************************************************************)
(* Steps that move a job.                                                  *)
(***************************************************************************)
\* A clean-up comes to its events.
LEMMA BeginKeeps ==
  ASSUME PoolInv, NEW b \in Sessions, Begin(b) \/ Sweep(b)
  PROVE  PoolInv'
<1>1. /\ where[b] = "unborn" /\ where' = [where EXCEPT ![b] = "run"]
      /\ todo' = [todo EXCEPT ![b] = Published(b)]
      /\ UNCHANGED <<pool, job, finished, main, crashed>>
      /\ sweeps' \in {sweeps, b}
  BY DEF Begin, Sweep, shutdown
<1>2. \A t \in Goroutines : /\ where'[t] = IF t = b THEN "run" ELSE where[t]
                            /\ todo'[t] = IF t = b THEN Published(b) ELSE todo[t]
  BY <1>1, PoolTypes
<1>3. PoolTypeOK'
  <2>1. where' \in [Goroutines -> Pcs] /\ todo' \in [Goroutines -> Seq(Jobs)]
    BY <1>1, PoolTypes, PublishedJobs DEF Pcs
  <2> QED
    BY <1>1, <2>1 DEF PoolInv, PoolTypeOK, pool
<1>4. ASSUME NEW s \in Sessions PROVE Publisher(s)'
  <2>1. CASE s = b
    <3>1. where'[b] = "run" /\ todo'[b] = Published(b) /\ job'[b] = None
      BY <1>1, <1>2 DEF PoolInv, Publisher, Goroutines
    <3>2. \A i \in 1 .. Len(Published(b)) : InSeq(Published(b)[i], Published(b))
      BY DEF InSeq
    <3> QED
      BY <2>1, <3>1, <3>2, PublishedJobs DEF Publisher
  <2>2. CASE s # b
    BY <1>1, <1>2, <2>2 DEF PoolInv, Publisher, Goroutines
  <2> QED
    BY <2>1, <2>2
<1>5. \A w \in Workers : Worker(w)'
  BY <1>1, <1>2, NamesAssumption DEF PoolInv, Worker, Goroutines, pool
<1>6. \A j \in Jobs : Spawned(j)'
  BY <1>1, <1>2, NamesAssumption DEF PoolInv, Spawned, Goroutines
<1>7. \A t \in Goroutines : Sender(t)'
  BY <1>1, <1>2 DEF PoolInv, Sender
<1>8. Waiting'
  BY <1>1, <1>2, PoolTypes DEF PoolInv, Waiting, pool
<1>9. Stopping'
  BY <1>1, <1>2 DEF PoolInv, Stopping, pool, Goroutines
<1>10. ASSUME NEW s \in Sessions, NEW j \in Jobs, InSeq(j, Published(s))
       PROVE  InOnePlace(j, s)'
  <2>1. InOnePlace(j, s) /\ UNCHANGED <<queue, job, finished>>
    BY <1>1, <1>10 DEF PoolInv, pool
  <2>2. CASE s = b
    <3>1. where'[b] # "unborn" /\ InSeq(j, todo'[b])
      BY <1>2, <1>10, <2>2 DEF Goroutines
    <3> QED
      BY <1>1, <2>1, <2>2, <3>1 DEF InOnePlace
  <2>3. CASE s # b
    <3>1. where'[s] = where[s] /\ todo'[s] = todo[s]
      BY <1>2, <2>3 DEF Goroutines
    <3> QED
      BY <2>1, <3>1 DEF InOnePlace
  <2> QED
    BY <2>2, <2>3
<1> QED
  BY <1>3, <1>4, <1>5, <1>6, <1>7, <1>8, <1>9, <1>10 DEF PoolInv

\* publish hands the job to a goroutine of its own, which is a new one.
LEMMA SpawnKeeps ==
  ASSUME PoolInv, NEW t \in Goroutines, todo[t] # <<>>,
         where[t] \in {"run", "send", "told"}, Spawn(t),
         UNCHANGED <<pool, finished, shutdown>>
  PROVE  PoolInv'
<1> DEFINE j == Head(todo[t])
<1>1. j \in Jobs /\ j \in Goroutines /\ j \notin Sessions \union Workers /\ j # t
  BY FirstJob, NamesAssumption DEF Goroutines
<1>2. where[j] \notin {"send", "blocked", "told"}
  <2>1. CASE t \in Sessions
    <3>1. InOnePlace(j, t) /\ InSeq(j, todo[t])
      BY <2>1, FirstJob DEF PoolInv
    <3>2. job[j] # j
      BY <1>1, <3>1 DEF InOnePlace
    <3> QED
      BY <1>1, <3>2 DEF PoolInv, Spawned
  <2>2. CASE t \notin Sessions
    <3>1. todo[j] = <<>>
      BY <1>1, <2>2, FirstJob DEF PoolInv, Spawned
    <3> QED
      BY <1>1, <3>1 DEF PoolInv, Sender
  <2> QED
    BY <2>1, <2>2
<1>3. PICK d \in Derived(j) :
        /\ where' = [where EXCEPT ![t] = "run", ![j] = "run"]
        /\ todo' = [todo EXCEPT ![t] = Tail(@), ![j] = d]
        /\ job' = [job EXCEPT ![j] = j]
  BY DEF Spawn
<1> HIDE DEF j
<1>4. \A u \in Goroutines :
        /\ where'[u] = IF u = t \/ u = j THEN "run" ELSE where[u]
        /\ todo'[u] = IF u = j THEN d ELSE IF u = t THEN Tail(todo[t]) ELSE todo[u]
        /\ job'[u] = IF u = j THEN j ELSE job[u]
  BY <1>1, <1>3, PoolTypes
<1>5. PoolTypeOK'
  <2>1. where' \in [Goroutines -> Pcs]
    BY <1>3, PoolTypes DEF Pcs
  <2>2. todo' \in [Goroutines -> Seq(Jobs)]
    <3>1. d \in Seq(Jobs) /\ Tail(todo[t]) \in Seq(Jobs)
      BY <1>1, DerivedJobs, FirstJob
    <3> QED
      BY <1>1, <1>3, <3>1, PoolTypes
  <2>3. job' \in [Goroutines -> Jobs \union {None}]
    BY <1>1, <1>3, PoolTypes
  <2> QED
    BY <2>1, <2>2, <2>3 DEF PoolInv, PoolTypeOK, pool, shutdown
<1>6. ASSUME NEW s \in Sessions PROVE Publisher(s)'
  <2>1. s \in Goroutines /\ s # j /\ job'[s] = job[s]
    BY <1>1, <1>4 DEF Goroutines
  <2>2. CASE s = t
    BY <1>4, <2>1, <2>2, JobsLeft DEF PoolInv, Publisher
  <2>3. CASE s # t
    BY <1>4, <2>1, <2>3 DEF PoolInv, Publisher
  <2> QED
    BY <2>2, <2>3
<1>7. ASSUME NEW w \in Workers PROVE Worker(w)'
  <2>1. w \in Goroutines /\ w # j /\ w \notin Sessions /\ job'[w] = job[w]
    BY <1>1, <1>4, NamesAssumption DEF Goroutines
  <2>2. CASE w = t
    BY <1>4, <2>1, <2>2, JobsLeft DEF PoolInv, Worker
  <2>3. CASE w # t
    BY <1>4, <2>1, <2>3 DEF PoolInv, Worker, pool
  <2> QED
    BY <2>2, <2>3
<1>8. ASSUME NEW k \in Jobs PROVE Spawned(k)'
  <2>1. k \in Goroutines /\ k \notin Sessions
    BY NamesAssumption DEF Goroutines
  <2>2. CASE k = j
    BY <1>1, <1>4, <2>1, <2>2, DerivedJobs DEF Spawned
  <2>3. CASE k = t
    BY <1>1, <1>4, <2>1, <2>3, JobsLeft DEF PoolInv, Spawned
  <2>4. CASE k # j /\ k # t
    BY <1>4, <2>1, <2>4 DEF PoolInv, Spawned
  <2> QED
    BY <2>2, <2>3, <2>4
<1>9. \A u \in Goroutines : Sender(u)'
  BY <1>4 DEF PoolInv, Sender
<1>10. Waiting'
  <2>1. \A i \in 1 .. Len(sendq) : sendq[i] \in Goroutines /\ where[sendq[i]] = "blocked"
    BY PoolTypes DEF PoolInv, Waiting
  <2> QED
    BY <1>2, <1>4, <2>1 DEF PoolInv, Waiting, pool
<1>11. Stopping'
  BY <1>1, <1>4 DEF PoolInv, Stopping, pool, shutdown, Goroutines
<1>12. ASSUME NEW s \in Sessions, NEW k \in Jobs, InSeq(k, Published(s))
       PROVE  InOnePlace(k, s)'
  <2>1. InOnePlace(k, s) /\ UNCHANGED <<queue, finished>>
    BY <1>12 DEF PoolInv, pool
  <2>2. todo'[s] = (IF s = t THEN Tail(todo[t]) ELSE todo[s])
        /\ (where'[s] = "unborn" <=> where[s] = "unborn")
    BY <1>1, <1>4 DEF Goroutines
  <2>3. /\ InSeq(k, todo'[s]) <=> InSeq(k, todo[s]) /\ k # j
        /\ k = j => s = t /\ InSeq(k, todo[s])
    BY <1>12, <2>2, PublishedLeft DEF j
  <2>4. CASE k = j
    <3>1. \A u \in Goroutines : job[u] # j
      BY <2>1, <2>3, <2>4 DEF InOnePlace
    <3>2. \A u \in Goroutines : job'[u] = j <=> u = j
      BY <1>4, <3>1
    <3> QED
      BY <1>1, <2>1, <2>2, <2>3, <2>4, <3>2 DEF InOnePlace
  <2>5. CASE k # j
    <3>1. job[j] # k
      BY <1>1, <2>5, NamesAssumption DEF PoolInv, Spawned
    <3>2. \A u \in Goroutines : job'[u] = k <=> job[u] = k
      BY <1>4, <2>5, <3>1
    <3> QED
      BY <2>1, <2>2, <2>3, <2>5, <3>2 DEF InOnePlace
  <2> QED
    BY <2>4, <2>5
<1> QED
  BY <1>5, <1>6, <1>7, <1>8, <1>9, <1>10, <1>11, <1>12 DEF PoolInv

\* publish puts the job into the channel.
LEMMA SendKeeps ==
  ASSUME PoolInv, NEW t \in Goroutines, Send(t)
  PROVE  PoolInv'
<1> DEFINE j == Head(todo[t])
<1>1. /\ where[t] = "send" /\ ~workClosed /\ Len(queue) < BufSize
      /\ queue' = Append(queue, j) /\ where' = [where EXCEPT ![t] = "run"]
      /\ todo' = [todo EXCEPT ![t] = Tail(@)]
      /\ UNCHANGED <<sendq, stopped, workClosed, job, finished, shutdown>>
  BY DEF Send
<1>2. todo[t] # <<>> /\ j \in Jobs
  BY <1>1, FirstJob DEF PoolInv, Sender
<1> HIDE DEF j
<1>3. \A u \in Goroutines : /\ where'[u] = IF u = t THEN "run" ELSE where[u]
                            /\ todo'[u] = IF u = t THEN Tail(todo[t]) ELSE todo[u]
  BY <1>1, PoolTypes
<1>4. PoolTypeOK'
  <2>1. where' \in [Goroutines -> Pcs]
    BY <1>1, PoolTypes DEF Pcs
  <2>2. todo' \in [Goroutines -> Seq(Jobs)]
    BY <1>1, <1>2, PoolTypes, FirstJob
  <2>3. queue' \in Seq(Jobs) /\ Len(queue') <= BufSize
    BY <1>1, <1>2, PoolTypes, AppendOnce, BufAssumption
  <2> QED
    BY <1>1, <2>1, <2>2, <2>3 DEF PoolInv, PoolTypeOK, shutdown
<1>5. ASSUME NEW s \in Sessions PROVE Publisher(s)'
  <2>1. s \in Goroutines
    BY DEF Goroutines
  <2>2. CASE s = t
    BY <1>1, <1>2, <1>3, <2>1, <2>2, JobsLeft DEF PoolInv, Publisher
  <2>3. CASE s # t
    BY <1>1, <1>3, <2>1, <2>3 DEF PoolInv, Publisher
  <2> QED
    BY <2>2, <2>3
<1>6. ASSUME NEW w \in Workers PROVE Worker(w)'
  <2>1. w \in Goroutines /\ w \notin Sessions
    BY NamesAssumption DEF Goroutines
  <2>2. CASE w = t
    BY <1>1, <1>2, <1>3, <2>1, <2>2, JobsLeft DEF PoolInv, Worker
  <2>3. CASE w # t
    BY <1>1, <1>3, <2>1, <2>3 DEF PoolInv, Worker
  <2> QED
    BY <2>2, <2>3
<1>7. ASSUME NEW k \in Jobs PROVE Spawned(k)'
  <2>1. k \in Goroutines /\ k \notin Sessions
    BY NamesAssumption DEF Goroutines
  <2>2. CASE k = t
    BY <1>1, <1>2, <1>3, <2>1, <2>2, JobsLeft DEF PoolInv, Spawned
  <2>3. CASE k # t
    BY <1>1, <1>3, <2>1, <2>3 DEF PoolInv, Spawned
  <2> QED
    BY <2>2, <2>3
<1>8. \A u \in Goroutines : Sender(u)'
  BY <1>3 DEF PoolInv, Sender
<1>9. Waiting'
  <2>1. \A i \in 1 .. Len(sendq) : sendq[i] \in Goroutines /\ where[sendq[i]] = "blocked"
    BY PoolTypes DEF PoolInv, Waiting
  <2> QED
    BY <1>1, <1>3, <2>1 DEF PoolInv, Waiting
<1>10. Stopping'
  BY <1>1, <1>3 DEF PoolInv, Stopping, shutdown, Goroutines
<1>11. ASSUME NEW s \in Sessions, NEW k \in Jobs, InSeq(k, Published(s))
       PROVE  InOnePlace(k, s)'
  <2>1. InOnePlace(k, s)
    BY <1>11 DEF PoolInv
  <2>2. todo'[s] = (IF s = t THEN Tail(todo[t]) ELSE todo[s])
        /\ (where'[s] = "unborn" <=> where[s] = "unborn")
    BY <1>1, <1>3 DEF Goroutines
  <2>3. /\ InSeq(k, todo'[s]) <=> InSeq(k, todo[s]) /\ k # j
        /\ k = j => s = t /\ InSeq(k, todo[s])
    BY <1>2, <1>11, <2>2, PublishedLeft DEF j
  <2>4. /\ InSeq(k, queue') <=> InSeq(k, queue) \/ k = j
        /\ AtMostOnce(k, queue')
    <3>1. k = j => ~InSeq(k, queue)
      BY <2>1, <2>3 DEF InOnePlace
    <3> QED
      BY <1>1, <1>2, <2>1, <3>1, PoolTypes, AppendOnce DEF InOnePlace
  <2> QED
    BY <1>1, <2>1, <2>2, <2>3, <2>4 DEF InOnePlace
<1> QED
  BY <1>4, <1>5, <1>6, <1>7, <1>8, <1>9, <1>10, <1>11 DEF PoolInv

\* A job returns.
LEMMA FinishKeeps ==
  ASSUME PoolInv, NEW t \in Goroutines, Finish(t)
  PROVE  PoolInv'
<1>1. /\ where[t] = "run" /\ job[t] # None /\ todo[t] = <<>>
      /\ finished' = finished \union {job[t]}
      /\ where' = [where EXCEPT ![t] = IF t \in Workers THEN "idle" ELSE "done"]
      /\ job' = [job EXCEPT ![t] = None]
      /\ UNCHANGED <<pool, todo, shutdown>>
  BY DEF Finish
<1>2. job[t] \in Jobs /\ t \notin Sessions
  BY <1>1, PoolTypes DEF PoolInv, Publisher
<1>3. \A u \in Goroutines :
        /\ where'[u] = IF u = t THEN IF t \in Workers THEN "idle" ELSE "done" ELSE where[u]
        /\ job'[u] = IF u = t THEN None ELSE job[u]
  BY <1>1, PoolTypes
<1>4. PoolTypeOK'
  <2>1. where' \in [Goroutines -> Pcs]
    BY <1>1, PoolTypes DEF Pcs
  <2>2. job' \in [Goroutines -> Jobs \union {None}]
    BY <1>1, PoolTypes
  <2>3. finished' \subseteq Jobs
    BY <1>1, <1>2 DEF PoolInv, PoolTypeOK
  <2> QED
    BY <1>1, <2>1, <2>2, <2>3 DEF PoolInv, PoolTypeOK, pool, shutdown
<1>5. \A s \in Sessions : Publisher(s)'
  BY <1>1, <1>2, <1>3 DEF PoolInv, Publisher, Goroutines
<1>6. \A w \in Workers : Worker(w)'
  BY <1>1, <1>3 DEF PoolInv, Worker, Goroutines, pool
<1>7. \A k \in Jobs : Spawned(k)'
  BY <1>1, <1>3, NamesAssumption DEF PoolInv, Spawned, Goroutines
<1>8. \A u \in Goroutines : Sender(u)'
  BY <1>1, <1>3 DEF PoolInv, Sender
<1>9. Waiting'
  <2>1. \A i \in 1 .. Len(sendq) : sendq[i] \in Goroutines /\ where[sendq[i]] = "blocked"
    BY PoolTypes DEF PoolInv, Waiting
  <2> QED
    BY <1>1, <1>3, <2>1 DEF PoolInv, Waiting, pool
<1>10. Stopping'
  BY <1>1, <1>3 DEF PoolInv, Stopping, pool, shutdown, Goroutines
<1>11. ASSUME NEW s \in Sessions, NEW j \in Jobs, InSeq(j, Published(s))
       PROVE  InOnePlace(j, s)'
  <2>1. InOnePlace(j, s) /\ UNCHANGED <<queue, todo>>
    BY <1>1, <1>11 DEF PoolInv, pool
  <2>2. where'[s] = "unborn" <=> where[s] = "unborn"
    BY <1>2, <1>3 DEF Goroutines
  <2>3. \A u \in Goroutines : job'[u] = j <=> job[u] = j /\ u # t
    BY <1>3, NamesAssumption
  <2>4. CASE j = job[t]
    <3>1. \A u \in Goroutines : job'[u] # j
      BY <2>1, <2>3, <2>4 DEF InOnePlace
    <3>2. j \in finished'
      BY <1>1, <2>4
    <3> QED
      BY <2>1, <2>2, <2>4, <3>1, <3>2 DEF InOnePlace
  <2>5. CASE j # job[t]
    <3>1. \A u \in Goroutines : job'[u] = j <=> job[u] = j
      BY <2>3, <2>5
    <3>2. j \in finished' <=> j \in finished
      BY <1>1, <2>5
    <3> QED
      BY <2>1, <2>2, <3>1, <3>2 DEF InOnePlace
  <2> QED
    BY <2>4, <2>5
<1> QED
  BY <1>4, <1>5, <1>6, <1>7, <1>8, <1>9, <1>10, <1>11 DEF PoolInv

\* A worker takes a job out of the channel, and the first blocked sender's job
\* comes in.
LEMMA TakeKeeps ==
  ASSUME PoolInv, NEW w \in Workers, Take(w)
  PROVE  PoolInv'
<1> DEFINE j == Head(queue)
<1>1. /\ where[w] = "idle" /\ queue # <<>> /\ job' = [job EXCEPT ![w] = j]
      /\ UNCHANGED <<stopped, workClosed, finished, shutdown>>
  BY DEF Take
<1>2. /\ w \in Goroutines /\ w \notin Sessions \union Jobs
      /\ todo[w] = <<>> /\ job[w] = None
  BY <1>1, NamesAssumption DEF PoolInv, Worker, Goroutines
<1>3. /\ j \in Jobs /\ Tail(queue) \in Seq(Jobs)
      /\ \A d \in Derived(j) : d \in Seq(Jobs) /\ MetaOnly(d)
                               /\ (j[1] # "metadata" => d = <<>>)
  BY <1>1, PoolTypes, TailTakesHead, DerivedJobs
<1>4. /\ main # "drained"
      /\ \A v \in Workers : where[v] # "done"
  BY <1>1 DEF PoolInv, Stopping, Worker
<1> HIDE DEF j
<1>5. \A u \in Goroutines : job'[u] = IF u = w THEN j ELSE job[u]
  BY <1>1, PoolTypes
<1>6. job' \in [Goroutines -> Jobs \union {None}]
  BY <1>1, <1>3, PoolTypes
<1>7. ASSUME NEW s \in Sessions, NEW k \in Jobs, InSeq(k, Published(s))
      PROVE  /\ InOnePlace(k, s)
             /\ InSeq(k, Tail(queue)) <=> InSeq(k, queue) /\ k # j
             /\ AtMostOnce(k, Tail(queue))
             /\ k = j => InSeq(k, queue)
             /\ \A u \in Goroutines : job'[u] = k <=> job[u] = k \/ (u = w /\ k = j)
  <2>1. InOnePlace(k, s)
    BY <1>7 DEF PoolInv
  <2>2. job[w] # k
    BY <1>2, NamesAssumption
  <2>3. k = j => InSeq(k, queue)
    BY <1>1, PoolTypes, TailTakesHead DEF j
  <2> QED
    BY <1>1, <1>5, <2>1, <2>2, <2>3, PoolTypes, TailOnce DEF InOnePlace, j
<1>8. CASE sendq = <<>>
  <2>1. PICK d \in Derived(j) :
          /\ queue' = Tail(queue) /\ sendq' = sendq
          /\ where' = [where EXCEPT ![w] = "run"]
          /\ todo' = [todo EXCEPT ![w] = d]
    BY <1>8 DEF Take, j
  <2>2. \A u \in Goroutines : /\ where'[u] = IF u = w THEN "run" ELSE where[u]
                              /\ todo'[u] = IF u = w THEN d ELSE todo[u]
    BY <2>1, PoolTypes
  <2>3. PoolTypeOK'
    <3>1. where' \in [Goroutines -> Pcs]
      BY <2>1, PoolTypes DEF Pcs
    <3>2. todo' \in [Goroutines -> Seq(Jobs)]
      BY <1>3, <2>1, PoolTypes
    <3>3. Len(queue') <= BufSize
      BY <1>1, <2>1, PoolTypes, TailTakesHead, BufAssumption DEF PoolInv, PoolTypeOK
    <3> QED
      BY <1>1, <1>3, <1>6, <2>1, <3>1, <3>2, <3>3 DEF PoolInv, PoolTypeOK, shutdown
  <2>4. \A s \in Sessions : Publisher(s)'
    BY <1>2, <1>5, <2>2 DEF PoolInv, Publisher, Goroutines
  <2>5. ASSUME NEW v \in Workers PROVE Worker(v)'
    <3>1. CASE v = w
      BY <1>2, <1>3, <2>2, <3>1 DEF Worker
    <3>2. CASE v # w
      BY <1>4, <1>5, <2>2, <3>2 DEF PoolInv, Worker, Goroutines
    <3> QED
      BY <3>1, <3>2
  <2>6. \A k \in Jobs : Spawned(k)'
    BY <1>2, <1>5, <2>2 DEF PoolInv, Spawned, Goroutines
  <2>7. (\A u \in Goroutines : Sender(u)') /\ Waiting' /\ Stopping'
    BY <1>1, <1>4, <1>8, <2>1, <2>2 DEF PoolInv, Sender, Waiting, Stopping, shutdown
  <2>8. ASSUME NEW s \in Sessions, NEW k \in Jobs, InSeq(k, Published(s))
        PROVE  InOnePlace(k, s)'
    <3>1. todo'[s] = todo[s] /\ where'[s] = where[s] /\ finished' = finished
      BY <1>1, <1>2, <2>2 DEF Goroutines
    <3> QED
      BY <1>2, <1>7, <2>1, <2>8, <3>1 DEF InOnePlace
  <2> QED
    BY <2>3, <2>4, <2>5, <2>6, <2>7, <2>8 DEF PoolInv
<1>9. CASE sendq # <<>>
  <2> DEFINE t == Head(sendq)
             h == Head(todo[t])
  <2>1. PICK d \in Derived(j) :
          /\ queue' = Append(Tail(queue), h) /\ sendq' = Tail(sendq)
          /\ where' = [where EXCEPT ![w] = "run", ![t] = "run"]
          /\ todo' = [todo EXCEPT ![w] = d, ![t] = Tail(@)]
    BY <1>9 DEF Take, j
  <2>2. /\ t \in Goroutines /\ where[t] = "blocked" /\ t # w /\ todo[t] # <<>>
    <3>1. t \in Goroutines /\ 1 \in 1 .. Len(sendq) /\ sendq[1] = t
      BY <1>9, PoolTypes, TailTakesHead
    <3>2. where[t] = "blocked"
      BY <3>1 DEF PoolInv, Waiting
    <3> QED
      BY <1>1, <3>1, <3>2 DEF PoolInv, Sender
  <2>3. h \in Jobs /\ Tail(todo[t]) \in Seq(Jobs)
    BY <2>2, FirstJob
  <2>4. \A u \in Goroutines : AtMostOnce(u, Tail(sendq)) /\ ~InSeq(t, Tail(sendq))
    BY <1>9, <2>2, PoolTypes, TailOnce DEF PoolInv, Waiting
  <2> HIDE DEF t, h
  <2>5. \A u \in Goroutines :
          /\ where'[u] = IF u = w \/ u = t THEN "run" ELSE where[u]
          /\ todo'[u] = IF u = t THEN Tail(todo[t]) ELSE IF u = w THEN d ELSE todo[u]
    BY <1>2, <2>1, <2>2, PoolTypes
  <2>6. PoolTypeOK'
    <3>1. where' \in [Goroutines -> Pcs]
      BY <2>1, PoolTypes DEF Pcs
    <3>2. todo' \in [Goroutines -> Seq(Jobs)]
      BY <1>2, <1>3, <2>1, <2>2, <2>3, PoolTypes
    <3>3. queue' \in Seq(Jobs) /\ Len(queue') <= BufSize
      <4>1. Len(queue') = Len(Tail(queue)) + 1 /\ queue' \in Seq(Jobs)
        BY <1>3, <2>1, <2>3, AppendOnce
      <4>2. Len(Tail(queue)) = Len(queue) - 1 /\ Len(queue) \in Nat /\ Len(queue) <= BufSize
        BY <1>1, PoolTypes, TailTakesHead DEF PoolInv, PoolTypeOK
      <4> QED
        BY <4>1, <4>2, BufAssumption
    <3>4. sendq' \in Seq(Goroutines)
      BY <1>9, <2>1, PoolTypes, TailTakesHead
    <3> QED
      BY <1>1, <1>6, <3>1, <3>2, <3>3, <3>4 DEF PoolInv, PoolTypeOK, shutdown
  <2>7. ASSUME NEW s \in Sessions PROVE Publisher(s)'
    <3>1. s \in Goroutines /\ s # w /\ job'[s] = job[s]
      BY <1>2, <1>5 DEF Goroutines
    <3>2. CASE s = t
      BY <2>2, <2>5, <3>1, <3>2, JobsLeft DEF PoolInv, Publisher
    <3>3. CASE s # t
      BY <2>5, <3>1, <3>3 DEF PoolInv, Publisher
    <3> QED
      BY <3>2, <3>3
  <2>8. ASSUME NEW v \in Workers PROVE Worker(v)'
    <3>1. v \in Goroutines /\ v \notin Sessions
      BY NamesAssumption DEF Goroutines
    <3>2. CASE v = w
      BY <1>2, <1>3, <2>2, <2>5, <3>2 DEF Worker
    <3>3. CASE v = t
      BY <2>2, <2>5, <3>1, <3>3, JobsLeft DEF Worker
    <3>4. CASE v # w /\ v # t
      BY <1>4, <1>5, <2>5, <3>1, <3>4 DEF PoolInv, Worker
    <3> QED
      BY <3>2, <3>3, <3>4
  <2>9. ASSUME NEW k \in Jobs PROVE Spawned(k)'
    <3>1. k \in Goroutines /\ k \notin Sessions /\ k # w /\ job'[k] = job[k]
      BY <1>2, <1>5, NamesAssumption DEF Goroutines
    <3>2. CASE k = t
      BY <2>2, <2>5, <3>1, <3>2, JobsLeft DEF PoolInv, Spawned
    <3>3. CASE k # t
      BY <2>5, <3>1, <3>3 DEF PoolInv, Spawned
    <3> QED
      BY <3>2, <3>3
  <2>10. \A u \in Goroutines : Sender(u)'
    BY <2>5 DEF PoolInv, Sender
  <2>11. Waiting'
    <3>1. ASSUME NEW i \in 1 .. Len(Tail(sendq))
          PROVE  where'[Tail(sendq)[i]] = "blocked"
      <4>1. /\ Tail(sendq)[i] \in Goroutines /\ Tail(sendq)[i] # t
            /\ where[Tail(sendq)[i]] = "blocked"
        BY <1>9, <2>4, <3>1, PoolTypes, TailTakesHead DEF PoolInv, Waiting, InSeq
      <4> QED
        BY <1>1, <2>5, <4>1
    <3> QED
      BY <1>1, <1>9, <2>1, <2>4, <3>1 DEF PoolInv, Waiting
  <2>12. Stopping'
    BY <1>1, <1>4 DEF PoolInv, Stopping, shutdown
  <2>13. ASSUME NEW s \in Sessions, NEW k \in Jobs, InSeq(k, Published(s))
         PROVE  InOnePlace(k, s)'
    <3>1. /\ todo'[s] = IF s = t THEN Tail(todo[t]) ELSE todo[s]
          /\ where'[s] = "unborn" <=> where[s] = "unborn"
          /\ finished' = finished
      BY <1>1, <1>2, <2>2, <2>5 DEF Goroutines
    <3>2. /\ InSeq(k, todo'[s]) <=> InSeq(k, todo[s]) /\ k # h
          /\ k = h => InSeq(k, todo[s])
      BY <2>2, <2>13, <3>1, PublishedLeft DEF h
    <3>3. /\ InSeq(k, queue') <=> (InSeq(k, queue) /\ k # j) \/ k = h
          /\ AtMostOnce(k, queue')
      <4>1. k = h => ~InSeq(k, Tail(queue))
        BY <1>7, <2>13, <3>2 DEF InOnePlace
      <4>2. /\ InSeq(k, queue') <=> InSeq(k, Tail(queue)) \/ k = h
            /\ AtMostOnce(k, Tail(queue)) /\ (k = h => ~InSeq(k, Tail(queue)))
                 => AtMostOnce(k, queue')
        BY <1>3, <2>1, <2>3, AppendOnce
      <4> QED
        BY <1>7, <2>13, <4>1, <4>2
    <3> QED
      BY <1>2, <1>7, <2>13, <3>1, <3>2, <3>3 DEF InOnePlace
  <2> QED
    BY <2>6, <2>7, <2>8, <2>9, <2>10, <2>11, <2>12, <2>13 DEF PoolInv
<1> QED
  BY <1>8, <1>9

\* The invariant is inductive.
LEMMA PoolInductive == PoolInv /\ [PoolNext]_poolVars => PoolInv'
<1> SUFFICES ASSUME PoolInv, [PoolNext]_poolVars PROVE PoolInv'
  OBVIOUS
<1>1. ASSUME NEW t \in Goroutines, Publish(t) PROVE PoolInv'
  <2>1. CASE Check(t) /\ stopped
    <3>1. /\ where[t] = "run" /\ todo[t] # <<>> /\ Spawn(t)
          /\ UNCHANGED <<pool, finished, shutdown>>
      BY <2>1 DEF Check
    <3> QED
      BY <3>1, SpawnKeeps
  <2>2. CASE SendStopped(t)
    <3>1. /\ where[t] \in {"send", "told"} /\ todo[t] # <<>> /\ Spawn(t)
          /\ UNCHANGED <<pool, finished, shutdown>>
      BY <2>2 DEF SendStopped, PoolInv, Sender
    <3> QED
      BY <3>1, SpawnKeeps
  <2> QED
    BY <1>1, <2>1, <2>2, SelectKeeps, SendKeeps, MainKeeps DEF Publish
<1>2. CASE MustRun
  <2>1. ASSUME NEW s \in Sessions, SessionStep(s) PROVE PoolInv'
    BY <1>1, <2>1, LeaveKeeps DEF SessionStep, Goroutines
  <2>2. ASSUME NEW w \in Workers, WorkerStep(w) PROVE PoolInv'
    BY <1>1, <2>2, LeaveKeeps, FinishKeeps, TakeKeeps DEF WorkerStep, Goroutines
  <2>3. ASSUME NEW j \in Jobs, JobStep(j) PROVE PoolInv'
    BY <1>1, <2>3, FinishKeeps DEF JobStep, Goroutines
  <2>4. CASE ShutdownStep
    BY <2>4, StopPoolKeeps, MainKeeps DEF ShutdownStep
  <2> QED
    BY <1>2, <2>1, <2>2, <2>3, <2>4 DEF MustRun
<1>3. CASE MayHappen
  BY <1>3, BeginKeeps, MainKeeps DEF MayHappen
<1>4. CASE UNCHANGED poolVars
  <2>1. UNCHANGED <<pool, where, todo, job, finished, shutdown>>
    BY <1>4 DEF poolVars
  <2>2. PoolTypeOK' /\ Waiting' /\ Stopping'
    BY <2>1 DEF PoolInv, PoolTypeOK, Waiting, Stopping, pool, shutdown
  <2>3. /\ \A s \in Sessions : Publisher(s)'
        /\ \A w \in Workers : Worker(w)'
        /\ \A j \in Jobs : Spawned(j)'
        /\ \A t \in Goroutines : Sender(t)'
    BY <2>1 DEF PoolInv, Publisher, Worker, Spawned, Sender, pool
  <2>4. \A s \in Sessions, j \in Jobs : InSeq(j, Published(s)) => InOnePlace(j, s)'
    BY <2>1, PlacesStay DEF pool
  <2> QED
    BY <2>2, <2>3, <2>4 DEF PoolInv
<1> QED
  BY <1>2, <1>3, <1>4 DEF PoolNext

THEOREM PoolInvariance == PoolSpec => []PoolInv
BY PoolInitially, PoolInductive, PTL DEF PoolSpec

\* Where a published job is, as a set.
LEMMA PlacesOf ==
  ASSUME PoolInv, NEW s \in Sessions, NEW j \in Jobs, InSeq(j, Published(s))
  PROVE  Cardinality(Places(j)) = IF where[s] = "unborn" THEN 0 ELSE 1
<1> DEFINE P == {<<"publisher", t>> : t \in {u \in Goroutines : InSeq(j, todo[u])}}
           C == {<<"channel", i>> : i \in {k \in 1 .. Len(queue) : queue[k] = j}}
           R == {<<"runner", t>> : t \in {u \in Goroutines : job[u] = j}}
           F == {<<"over", None>> : x \in {j} \intersect finished}
<1>1. Places(j) = P \union C \union R \union F
  BY DEF Places
<1>2. InOnePlace(j, s) /\ s \in Goroutines
  BY DEF PoolInv, Goroutines
<1>3. ASSUME NEW u \in Goroutines, InSeq(j, todo[u]) PROVE u = s
  <2>1. PICK i \in 1 .. Len(todo[u]) : todo[u][i] = j
    BY <1>3 DEF InSeq
  <2>2. j[1] # "meta" /\ j[2] = s
    BY PublishedJobs
  <2>3. CASE u \in Sessions
    <3>1. InSeq(j, Published(u))
      BY <2>1, <2>3 DEF PoolInv, Publisher
    <3> QED
      BY <2>2, <2>3, <3>1, PublishedJobs
  <2>4. CASE u \notin Sessions
    BY <2>1, <2>2, <2>4 DEF PoolInv, Worker, Spawned, MetaOnly, Goroutines
  <2> QED
    BY <2>3, <2>4
<1>4. P = IF InSeq(j, todo[s]) THEN {<<"publisher", s>>} ELSE {}
  BY <1>2, <1>3
<1>5. InSeq(j, queue) => \E i : C = {<<"channel", i>>}
  BY <1>2 DEF InOnePlace, InSeq, AtMostOnce
<1>6. ~InSeq(j, queue) => C = {}
  BY DEF InSeq
<1>7. (\E t \in Goroutines : job[t] = j) => \E t : R = {<<"runner", t>>}
  BY <1>2 DEF InOnePlace
<1>8. ~(\E t \in Goroutines : job[t] = j) => R = {}
  OBVIOUS
<1>9. F = IF j \in finished THEN {<<"over", None>>} ELSE {}
  OBVIOUS
<1> HIDE DEF P, C, R, F
<1>10. CASE where[s] = "unborn"
  <2>1. Places(j) = {}
    BY <1>1, <1>2, <1>4, <1>6, <1>8, <1>9, <1>10 DEF InOnePlace
  <2> QED
    BY <1>10, <2>1, FS_EmptySet
<1>11. CASE where[s] # "unborn"
  <2>1. \E p : Places(j) = {p}
    BY <1>1, <1>2, <1>4, <1>5, <1>6, <1>7, <1>8, <1>9, <1>11 DEF InOnePlace
  <2> QED
    BY <1>11, <2>1, FS_Singleton
<1> QED
  BY <1>10, <1>11

\* The types, and that the channel holds no more than its capacity.
THEOREM PoolTypeCorrect == PoolSpec => []PoolTypeOK
<1>1. PoolInv => PoolTypeOK
  BY DEF PoolInv
<1> QED
  BY <1>1, PoolInvariance, PTL

\* publish, the channel, the workers and Shutdown: once its clean-up has come to
\* them, a session's jobs are each to be published, in the channel, running or
\* over, and in one of these places only.
THEOREM NothingLost == PoolSpec => []EachJobOnce
<1>1. PoolInv => EachJobOnce
  BY PlacesOf DEF EachJobOnce
<1> QED
  BY <1>1, PoolInvariance, PTL

\* When Shutdown has returned nil, the channel is empty and no worker runs a job.
THEOREM DrainIsWhole == PoolSpec => []DrainedMeansRun
<1>1. PoolInv => DrainedMeansRun
  <2> SUFFICES ASSUME PoolInv, main = "drained"
               PROVE  queue = <<>> /\ sendq = <<>> /\ \A w \in Workers : job[w] = None
    BY DEF DrainedMeansRun
  <2>1. stopped /\ \A w \in Workers : where[w] = "done"
    BY DEF PoolInv, Stopping
  <2> QED
    BY <2>1, WorkersAssumption DEF PoolInv, Worker, Waiting
<1> QED
  BY <1>1, PoolInvariance, PTL

------------------------------------------------------------------------------
(***************************************************************************)
(* Starting and cancelling a service.                                      *)
(*                                                                         *)
(* Services share nothing here, so the invariant is about one: at each of  *)
(* its calls, what it may have.                                            *)
(***************************************************************************)
DockerCalls == {"configure", "create", "start", "connect", "inspect",
              "createVideo", "startVideo", "collect", "remove"}
DriverCalls == {"listen", "openLog", "exec"}

\* What a session may have at the call that it makes next.
MayHave(s) ==
  CASE call[s] \in {"find", "configure", "create", "listen"} -> {}
    [] call[s] \in {"start", "connect", "inspect", "createVideo"} -> {"browser"}
    [] call[s] \in {"startVideo", "remove", "collect"} -> Containers
    [] call[s] \in {"openLog", "exec"} -> Files
    [] call[s] \in Ended -> Files \union refused[s]
    [] call[s] = "panicked" -> Resources
    [] OTHER -> IF opts[s].kind = "docker" THEN Containers
                ELSE Files \union {"process"}

\* A session is at calls of its own starter only, has what it may have, and
\* removes its browser when its recording is gone or could not be stopped.
Sound(s) ==
  /\ up[s] \subseteq MayHave(s)
  /\ call[s] \in DockerCalls => opts[s].kind = "docker"
  /\ call[s] \in DriverCalls => opts[s].kind = "driver"
  /\ call[s] \in {"remove", "collect"} /\ "video" \in up[s] =>
       "video" \in refused[s]

StarterInv == StarterTypeOK /\ \A s \in Services : Sound(s)

\* Nothing of the other sessions changes in a step of s.
OthersStay(s) ==
  /\ opts' = opts
  /\ \A t \in Services \ {s} :
       call'[t] = call[t] /\ up'[t] = up[t] /\ refused'[t] = refused[t]

\* A session that has not begun has nothing.
LEMMA StarterInitially == StarterInit => StarterInv
<1> SUFFICES ASSUME StarterInit PROVE StarterInv
  OBVIOUS
<1>1. StarterTypeOK
  BY ProbesAssumption DEF StarterInit, StarterTypeOK, Calls
<1>2. \A s \in Services : Sound(s)
  BY DEF StarterInit, Sound, MayHave, DockerCalls, DriverCalls
<1> QED
  BY <1>1, <1>2 DEF StarterInv

StepKept(s) == StarterTypeOK' /\ OthersStay(s) /\ Sound(s)'

\* The helpers keep the types.
LEMMA GotoType ==
  ASSUME StarterTypeOK, NEW s \in Services, NEW p \in Calls, GoOn(s, p)
  PROVE  call' \in [Services -> Calls]
BY DEF GoOn, StarterTypeOK

LEMMA DiscardType ==
  ASSUME StarterTypeOK, NEW s \in Services, NEW R \in SUBSET Containers, Discard(s, R)
  PROVE  /\ up' \in [Services -> SUBSET Resources]
         /\ refused' \in [Services -> SUBSET Containers]
BY DEF Discard, StarterTypeOK, Resources

LEMMA AgainType ==
  ASSUME StarterTypeOK, NEW s \in Services, Again(s)
  PROVE  call' \in [Services -> Calls] /\ probes' \in [Services -> 1 .. MaxProbes]
<1>1. CASE probes[s] > 1
  BY <1>1, ProbesAssumption DEF Again, StarterTypeOK
<1>2. CASE ~(probes[s] > 1)
  BY <1>2 DEF Again, GoOn, StarterTypeOK, Calls
<1> QED
  BY <1>1, <1>2

\* Finding decides which starter goes on.
LEMMA FindKeeps ==
  ASSUME StarterInv, NEW s \in Services, Find(s)
  PROVE  StepKept(s)
<1> USE DEF Find, GoOn, Keep, Same, MayHave, DockerCalls, DriverCalls,
            Options, Resources, Containers, Files, Ended
<1>1. StarterTypeOK'
  BY DEF StarterInv, StarterTypeOK, Calls
<1>2. OthersStay(s)
  BY DEF StarterInv, StarterTypeOK, OthersStay
<1>3. Sound(s)'
  BY DEF StarterInv, StarterTypeOK, Sound
<1> QED
  BY <1>1, <1>2, <1>3 DEF StepKept

\* Nothing is created for a configuration that is refused.
LEMMA ConfigureKeeps ==
  ASSUME StarterInv, NEW s \in Services, Configure(s)
  PROVE  StepKept(s)
<1> USE DEF Configure, GoOn, Keep, Same, MayHave, DockerCalls, DriverCalls,
            Options, Resources, Containers, Files, Ended
<1>1. StarterTypeOK'
  BY DEF StarterInv, StarterTypeOK, Calls
<1>2. OthersStay(s)
  BY DEF StarterInv, StarterTypeOK, OthersStay
<1>3. Sound(s)'
  BY DEF StarterInv, StarterTypeOK, Sound
<1> QED
  BY <1>1, <1>2, <1>3 DEF StepKept

\* The browser's container is the first resource.
LEMMA CreateKeeps ==
  ASSUME StarterInv, NEW s \in Services, Create(s)
  PROVE  StepKept(s)
<1> USE DEF Create, Acquire, GoOn, Keep, Same, MayHave, DockerCalls,
            DriverCalls, Options, Resources, Containers, Files, Ended
<1>1. StarterTypeOK'
  BY DEF StarterInv, StarterTypeOK, Calls
<1>2. OthersStay(s)
  BY DEF StarterInv, StarterTypeOK, OthersStay
<1>3. Sound(s)'
  BY DEF StarterInv, StarterTypeOK, Sound
<1> QED
  BY <1>1, <1>2, <1>3 DEF StepKept

\* A container that does not start is removed.
LEMMA StartContainerKeeps ==
  ASSUME StarterInv, NEW s \in Services, StartContainer(s)
  PROVE  StepKept(s)
<1> USE DEF StartContainer, Discard, GoOn, Keep, Same, MayHave, DockerCalls,
            DriverCalls, Options, Resources, Containers, Files, Ended
<1>1. StarterTypeOK'
  <2>1. call' \in [Services -> Calls]
    BY DEF StarterInv, StarterTypeOK, Calls
  <2>2. /\ up' \in [Services -> SUBSET Resources]
        /\ refused' \in [Services -> SUBSET Containers]
    BY DiscardType DEF StarterInv, StarterTypeOK
  <2> QED
    BY <2>1, <2>2 DEF StarterInv, StarterTypeOK
<1>2. OthersStay(s)
  BY DEF StarterInv, StarterTypeOK, OthersStay
<1>3. Sound(s)'
  BY DEF StarterInv, StarterTypeOK, Sound
<1> QED
  BY <1>1, <1>2, <1>3 DEF StepKept

\* So is one that a network refuses.
LEMMA ConnectKeeps ==
  ASSUME StarterInv, NEW s \in Services, Connect(s)
  PROVE  StepKept(s)
<1> USE DEF Connect, Discard, GoOn, Keep, Same, MayHave, DockerCalls,
            DriverCalls, Options, Resources, Containers, Files, Ended
<1>1. StarterTypeOK'
  <2>1. call' \in [Services -> Calls]
    BY DEF StarterInv, StarterTypeOK, Calls
  <2>2. /\ up' \in [Services -> SUBSET Resources]
        /\ refused' \in [Services -> SUBSET Containers]
    BY DiscardType DEF StarterInv, StarterTypeOK
  <2> QED
    BY <2>1, <2>2 DEF StarterInv, StarterTypeOK
<1>2. OthersStay(s)
  BY DEF StarterInv, StarterTypeOK, OthersStay
<1>3. Sound(s)'
  BY DEF StarterInv, StarterTypeOK, Sound
<1> QED
  BY <1>1, <1>2, <1>3 DEF StepKept

\* And one that cannot be inspected; a missing port panics.
LEMMA InspectKeeps ==
  ASSUME StarterInv, NEW s \in Services, Inspect(s)
  PROVE  StepKept(s)
<1> USE DEF Inspect, Discard, HostPorts, GoOn, Keep, Same, MayHave,
            DockerCalls, DriverCalls, Options, Resources, Containers, Files,
            Ended
<1>1. StarterTypeOK'
  <2>1. call' \in [Services -> Calls]
    BY DEF StarterInv, StarterTypeOK, Calls
  <2>2. /\ up' \in [Services -> SUBSET Resources]
        /\ refused' \in [Services -> SUBSET Containers]
    BY DiscardType DEF StarterInv, StarterTypeOK
  <2> QED
    BY <2>1, <2>2 DEF StarterInv, StarterTypeOK
<1>2. OthersStay(s)
  BY DEF StarterInv, StarterTypeOK, OthersStay
<1>3. Sound(s)'
  BY DEF StarterInv, StarterTypeOK, Sound
<1> QED
  BY <1>1, <1>2, <1>3 DEF StepKept

\* startVideoContainer removes the browser when it cannot go on.
LEMMA CreateVideoKeeps ==
  ASSUME StarterInv, NEW s \in Services, CreateVideo(s)
  PROVE  StepKept(s)
<1> USE DEF CreateVideo, Acquire, Discard, GoOn, Same, MayHave, DockerCalls,
            DriverCalls, Options, Resources, Containers, Files, Ended
<1>1. StarterTypeOK'
  <2>1. call' \in [Services -> Calls]
    BY DEF StarterInv, StarterTypeOK, Calls
  <2>2. CASE Acquire(s, "video")
    BY <2>1, <2>2 DEF StarterInv, StarterTypeOK
  <2>3. CASE Discard(s, {"browser"})
    BY <2>1, <2>3, DiscardType DEF StarterInv, StarterTypeOK
  <2> QED
    BY <2>2, <2>3
<1>2. OthersStay(s)
  BY DEF StarterInv, StarterTypeOK, OthersStay
<1>3. Sound(s)'
  BY DEF StarterInv, StarterTypeOK, Sound
<1> QED
  BY <1>1, <1>2, <1>3 DEF StepKept

\* And both when the recorder does not start.
LEMMA StartVideoKeeps ==
  ASSUME StarterInv, NEW s \in Services, StartVideo(s)
  PROVE  StepKept(s)
<1> USE DEF StartVideo, Discard, GoOn, Keep, Same, MayHave, DockerCalls,
            DriverCalls, Options, Resources, Containers, Files, Ended
<1>1. StarterTypeOK'
  <2>1. call' \in [Services -> Calls]
    BY DEF StarterInv, StarterTypeOK, Calls
  <2>2. /\ up' \in [Services -> SUBSET Resources]
        /\ refused' \in [Services -> SUBSET Containers]
    BY DiscardType DEF StarterInv, StarterTypeOK
  <2> QED
    BY <2>1, <2>2 DEF StarterInv, StarterTypeOK
<1>2. OthersStay(s)
  BY DEF StarterInv, StarterTypeOK, OthersStay
<1>3. Sound(s)'
  BY DEF StarterInv, StarterTypeOK, Sound
<1> QED
  BY <1>1, <1>2, <1>3 DEF StepKept

\* Waiting changes nothing that exists.
LEMMA PollHealthKeeps ==
  ASSUME StarterInv, NEW s \in Services, PollHealth(s)
  PROVE  StepKept(s)
<1> USE DEF PollHealth, Ready, Again, GoOn, Keep, MayHave, DockerCalls, DriverCalls,
            Options, Resources, Containers, Files, Ended
<1>1. StarterTypeOK'
  <2>1. CASE Again(s)
    BY <2>1, AgainType DEF StarterInv, StarterTypeOK
  <2>2. CASE \E p \in Calls : GoOn(s, p) /\ UNCHANGED probes
    BY <2>2, GotoType DEF StarterInv, StarterTypeOK
  <2> QED
    BY <2>1, <2>2 DEF Calls
<1>2. OthersStay(s)
  BY DEF StarterInv, StarterTypeOK, OthersStay
<1>3. Sound(s)'
  BY DEF StarterInv, StarterTypeOK, Sound
<1> QED
  BY <1>1, <1>2, <1>3 DEF StepKept

\* Nor does the other way to wait.
LEMMA ProbeKeeps ==
  ASSUME StarterInv, NEW s \in Services, Probe(s)
  PROVE  StepKept(s)
<1> USE DEF Probe, Ready, Again, GoOn, Keep, MayHave, DockerCalls, DriverCalls,
            Options, Resources, Containers, Files, Ended
<1>1. StarterTypeOK'
  <2>1. CASE Again(s)
    BY <2>1, AgainType DEF StarterInv, StarterTypeOK
  <2>2. CASE \E p \in Calls : GoOn(s, p) /\ UNCHANGED probes
    BY <2>2, GotoType DEF StarterInv, StarterTypeOK
  <2> QED
    BY <2>1, <2>2 DEF Calls
<1>2. OthersStay(s)
  BY DEF StarterInv, StarterTypeOK, OthersStay
<1>3. Sound(s)'
  BY DEF StarterInv, StarterTypeOK, Sound
<1> QED
  BY <1>1, <1>2, <1>3 DEF StepKept

\* The cancel function begins.
LEMMA CancelKeeps ==
  ASSUME StarterInv, NEW s \in Services, Cancel(s)
  PROVE  StepKept(s)
<1> USE DEF Cancel, GoOn, Keep, Same, MayHave, DockerCalls, DriverCalls,
            Options, Resources, Containers, Files, Ended
<1>1. StarterTypeOK'
  BY DEF StarterInv, StarterTypeOK, Calls
<1>2. OthersStay(s)
  BY DEF StarterInv, StarterTypeOK, OthersStay
<1>3. Sound(s)'
  BY DEF StarterInv, StarterTypeOK, Sound
<1> QED
  BY <1>1, <1>2, <1>3 DEF StepKept

\* The recording ends before the browser, or its removal is refused.
LEMMA StopVideoKeeps ==
  ASSUME StarterInv, NEW s \in Services, StopVideo(s)
  PROVE  StepKept(s)
<1> USE DEF StopVideo, Discard, GoOn, Same, MayHave, DockerCalls, DriverCalls,
            Options, Resources, Containers, Files, Ended
<1>1. StarterTypeOK'
  <2>1. call' \in [Services -> Calls]
    BY DEF StarterInv, StarterTypeOK, Calls
  <2>2. /\ up' \in [Services -> SUBSET Resources]
        /\ refused' \in [Services -> SUBSET Containers]
    BY DiscardType DEF StarterInv, StarterTypeOK
  <2> QED
    BY <2>1, <2>2 DEF StarterInv, StarterTypeOK
<1>2. OthersStay(s)
  BY DEF StarterInv, StarterTypeOK, OthersStay
<1>3. Sound(s)'
  BY DEF StarterInv, StarterTypeOK, Sound
<1> QED
  BY <1>1, <1>2, <1>3 DEF StepKept

\* Then the browser is removed, or its removal is refused.
LEMMA RemoveKeeps ==
  ASSUME StarterInv, NEW s \in Services, Remove(s)
  PROVE  StepKept(s)
<1> USE DEF Remove, Discard, GoOn, Same, MayHave, DockerCalls, DriverCalls,
            Options, Resources, Containers, Files, Ended
<1>1. StarterTypeOK'
  <2>1. call' \in [Services -> Calls]
    BY DEF StarterInv, StarterTypeOK, Calls
  <2>2. /\ up' \in [Services -> SUBSET Resources]
        /\ refused' \in [Services -> SUBSET Containers]
    BY DiscardType DEF StarterInv, StarterTypeOK
  <2> QED
    BY <2>1, <2>2 DEF StarterInv, StarterTypeOK
<1>2. OthersStay(s)
  BY DEF StarterInv, StarterTypeOK, OthersStay
<1>3. Sound(s)'
  BY DEF StarterInv, StarterTypeOK, Sound
<1> QED
  BY <1>1, <1>2, <1>3 DEF StepKept

\* A driver takes a port first.
LEMMA ListenKeeps ==
  ASSUME StarterInv, NEW s \in Services, Listen(s)
  PROVE  StepKept(s)
<1> USE DEF Listen, Acquire, GoOn, Keep, Same, MayHave, DockerCalls,
            DriverCalls, Options, Resources, Containers, Files, Ended
<1>1. StarterTypeOK'
  BY DEF StarterInv, StarterTypeOK, Calls
<1>2. OthersStay(s)
  BY DEF StarterInv, StarterTypeOK, OthersStay
<1>3. Sound(s)'
  BY DEF StarterInv, StarterTypeOK, Sound
<1> QED
  BY <1>1, <1>2, <1>3 DEF StepKept

\* Then it opens its log.
LEMMA OpenLogKeeps ==
  ASSUME StarterInv, NEW s \in Services, OpenLog(s)
  PROVE  StepKept(s)
<1> USE DEF OpenLog, GoOn, Keep, Same, MayHave, DockerCalls, DriverCalls,
            Options, Resources, Containers, Files, Ended
<1>1. StarterTypeOK'
  BY DEF StarterInv, StarterTypeOK, Calls
<1>2. OthersStay(s)
  BY DEF StarterInv, StarterTypeOK, OthersStay
<1>3. Sound(s)'
  BY DEF StarterInv, StarterTypeOK, Sound
<1> QED
  BY <1>1, <1>2, <1>3 DEF StepKept

\* Then its process is started.
LEMMA ExecKeeps ==
  ASSUME StarterInv, NEW s \in Services, Exec(s)
  PROVE  StepKept(s)
<1> USE DEF Exec, Acquire, GoOn, Keep, Same, MayHave, DockerCalls,
            DriverCalls, Options, Resources, Containers, Files, Ended
<1>1. StarterTypeOK'
  BY DEF StarterInv, StarterTypeOK, Calls
<1>2. OthersStay(s)
  BY DEF StarterInv, StarterTypeOK, OthersStay
<1>3. Sound(s)'
  BY DEF StarterInv, StarterTypeOK, Sound
<1> QED
  BY <1>1, <1>2, <1>3 DEF StepKept

\* Of a stopped driver at most files remain.
LEMMA StopProcessKeeps ==
  ASSUME StarterInv, NEW s \in Services, StopProcess(s)
  PROVE  StepKept(s)
<1> USE DEF StopProcess, GoOn, Same, MayHave, DockerCalls, DriverCalls,
            Options, Resources, Containers, Files, Ended
<1>1. StarterTypeOK'
  BY DEF StarterInv, StarterTypeOK, Calls
<1>2. OthersStay(s)
  BY DEF StarterInv, StarterTypeOK, OthersStay
<1>3. Sound(s)'
  BY DEF StarterInv, StarterTypeOK, Sound
<1> QED
  BY <1>1, <1>2, <1>3 DEF StepKept

\* What exits by itself, or is closed by the garbage collector, is only less.
LEMMA LossKeeps ==
  ASSUME StarterInv, NEW s \in Services, NEW r \in Containers \union Files,
         Exits(s, r) \/ CloseUnreachable(s, r)
  PROVE  StepKept(s)
<1> USE DEF Exits, CloseUnreachable, Same
<1>1. StarterTypeOK'
  BY DEF StarterInv, StarterTypeOK
<1>2. OthersStay(s)
  BY DEF StarterInv, StarterTypeOK, OthersStay
<1>3. Sound(s)'
  BY DEF StarterInv, StarterTypeOK, Sound, MayHave
<1> QED
  BY <1>1, <1>2, <1>3 DEF StepKept

\* Every step is one session's, and keeps it sound.
LEMMA StepKeeps ==
  ASSUME StarterInv, NEW s \in Services,
         \/ Step(s) \/ Cancel(s) \/ Collect(s)
         \/ \E c \in Containers : Exits(s, c)
  PROVE  StepKept(s)
<1>1. CASE DockerStep(s)
  BY <1>1, ConfigureKeeps, CreateKeeps, StartContainerKeeps, ConnectKeeps,
     InspectKeeps, CreateVideoKeeps, StartVideoKeeps, PollHealthKeeps,
     StopVideoKeeps, RemoveKeeps DEF DockerStep
<1>2. CASE DriverStep(s)
  BY <1>2, ListenKeeps, OpenLogKeeps, ExecKeeps, StopProcessKeeps DEF DriverStep
<1>3. CASE Find(s) \/ Probe(s) \/ Cancel(s)
  BY <1>3, FindKeeps, ProbeKeeps, CancelKeeps
<1>4. CASE Collect(s) \/ \E c \in Containers : Exits(s, c)
  BY <1>4, LossKeeps DEF Collect
<1> QED
  BY <1>1, <1>2, <1>3, <1>4 DEF Step

\* The invariant is inductive.
LEMMA StarterInductive == StarterInv /\ [StarterNext]_starterVars => StarterInv'
<1>1. ASSUME StarterInv, NEW s \in Services, StepKept(s)
      PROVE  StarterInv'
  <2>1. ASSUME NEW t \in Services \ {s} PROVE Sound(t)'
    <3>1. Sound(t)
      BY <1>1 DEF StarterInv
    <3>2. /\ opts'[t] = opts[t] /\ call'[t] = call[t]
          /\ up'[t] = up[t] /\ refused'[t] = refused[t]
      BY <1>1 DEF StepKept, OthersStay
    <3> QED
      BY <3>1, <3>2 DEF Sound, MayHave
  <2> QED
    BY <1>1, <2>1 DEF StarterInv, StepKept
<1>2. ASSUME StarterInv, UNCHANGED starterVars
      PROVE  StarterInv'
  BY <1>2 DEF StarterInv, StarterTypeOK, Sound, MayHave, starterVars
<1> QED
  BY <1>1, <1>2, StepKeeps DEF StarterNext

\* The variables keep their types, for any number of sessions and probes.
THEOREM StarterTypeCorrect == StarterSpec => []StarterTypeOK
<1>1. StarterInv => StarterTypeOK
  BY DEF StarterInv
<1> QED
  BY StarterInitially, StarterInductive, <1>1, PTL DEF StarterSpec

\* A start that has failed and a service that has been cancelled leave no
\* container and no process, but what could not be removed
\* (docker.go:164-242, 649-666; driver.go:96-100).
THEOREM LeavesNothing == StarterSpec => []NothingLeft
<1>1. StarterInv => NothingLeft
  BY DEF StarterInv, Sound, MayHave, NothingLeft, Ended
<1> QED
  BY StarterInitially, StarterInductive, <1>1, PTL DEF StarterSpec

\* A step that removes a browser and ends its session is its removal, which
\* comes after the recording, or a failure before there is one.
LEMMA VideoFirst ==
  ASSUME StarterInv, [StarterNext]_starterVars, NEW s \in Services,
         "browser" \in up[s] \ up'[s], call'[s] \in Ended, call[s] # "startVideo"
  PROVE  "video" \notin up[s] \ refused[s]
<1>1. Sound(s)
  BY DEF StarterInv
<1>2. CASE call[s] \in {"start", "connect", "inspect", "createVideo"} \union Ended
  BY <1>1, <1>2 DEF Sound, MayHave, Ended, Files
<1>3. CASE call[s] \in {"remove", "collect"}
  BY <1>1, <1>3 DEF Sound
<1>4. call[s] \in {"start", "connect", "inspect", "createVideo", "remove", "collect"}
        \union Ended
  <2>1. PICK t \in Services : \/ Step(t) \/ Cancel(t) \/ Collect(t)
                             \/ \E c \in Containers : Exits(t, c)
    BY DEF StarterNext, starterVars
  <2>2. t = s
    <3>1. OthersStay(t)
      BY <2>1, StepKeeps DEF StepKept
    <3> QED
      BY <3>1 DEF OthersStay
  <2>3. CASE call'[s] = call[s]
    BY <2>3
  <2>4. CASE DockerStep(s) /\ call'[s] # call[s]
    BY <1>1, <2>4 DEF DockerStep, Configure, Create, StartContainer, Connect, Inspect,
       CreateVideo, StartVideo, PollHealth, StopVideo, Remove, Keep, StarterInv, StarterTypeOK,
       GoOn, Again, Ended, Acquire, Discard, Sound
  <2>5. CASE DriverStep(s) /\ call'[s] # call[s]
    BY <1>1, <2>5 DEF DriverStep, Listen, OpenLog, Exec, StopProcess, Sound, MayHave,
       DriverCalls, Files, Ended, StarterInv, StarterTypeOK, GoOn
  <2>6. CASE Find(s) \/ Probe(s) \/ Cancel(s)
    BY <2>6 DEF Find, Probe, Cancel, Keep
  <2>7. CASE Collect(s) \/ \E c \in Containers : Exits(s, c)
    BY <2>3, <2>7 DEF Collect, CloseUnreachable, Exits
  <2> QED
    BY <2>1, <2>2, <2>3, <2>4, <2>5, <2>6, <2>7 DEF Step
<1> QED
  BY <1>2, <1>3, <1>4

\* The recording ends before its browser (docker.go:225-229, 265-269).
THEOREM RecordingFirst == StarterSpec => VideoStopsFirst
<1>1. StarterInv /\ [StarterNext]_starterVars =>
        [\A s \in Services :
           "browser" \in up[s] \ up'[s] /\ call'[s] \in Ended /\ call[s] # "startVideo"
             => "video" \notin up[s] \ refused[s]]_starterVars
  BY VideoFirst
<1> QED
  BY StarterInitially, StarterInductive, <1>1, PTL DEF StarterSpec, VideoStopsFirst
==============================================================================
