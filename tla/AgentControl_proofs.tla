-------------------------- MODULE AgentControl_proofs --------------------------
(***************************************************************************)
(* For any number of launches, calls and ports: at most one Agent that the *)
(* record leads to, and answers that tell what happened to the command.    *)
(***************************************************************************)
EXTENDS AgentControl, TLAPS

USE ControlAssumption

\* What is left of a sequence without its head.
LEMMA TailElements ==
  ASSUME NEW S, NEW s \in Seq(S), s # <<>>
  PROVE  /\ Head(s) \in S /\ 1 \in DOMAIN s /\ s[1] = Head(s)
         /\ Tail(s) \in Seq(S)
         /\ \A i \in DOMAIN Tail(s) : /\ i + 1 \in DOMAIN s /\ i + 1 # 1
                                      /\ Tail(s)[i] = s[i + 1]
         /\ \A i, j \in DOMAIN Tail(s) : i + 1 = j + 1 => i = j
OBVIOUS

\* A sequence with one more element.
LEMMA AppendElements ==
  ASSUME NEW S, NEW s \in Seq(S), NEW e \in S
  PROVE  /\ Append(s, e) \in Seq(S)
         /\ \A i \in DOMAIN Append(s, e) : \/ i \in DOMAIN s /\ Append(s, e)[i] = s[i]
                                           \/ i = Len(s) + 1 /\ Append(s, e)[i] = e
OBVIOUS

-----------------------------------------------------------------------------
(* Types.                                                                  *)

\* A caller that still waits reads its answer; nothing else of its call changes.
LEMMA EndedCall ==
  ASSUME CallsOK, NEW c \in Requests, NEW reply \in Replies
  PROVE  /\ Ended(c, reply) \in CallRecords
         /\ Ended(c, reply).ran = call[c].ran
         /\ Ended(c, reply).token = call[c].token
         /\ Ended(c, reply).command = call[c].command
         /\ Ended(c, reply).reply \in {call[c].reply, reply}
         /\ call[c].stage \in Past => Ended(c, reply).stage \in Past
         /\ call[c].stage \notin Past => Ended(c, reply) = call[c]
<1>1. call[c] \in CallRecords
  BY DEF CallsOK
<1>2. CASE call[c].stage = "sent"
  <2>1. Ended(c, reply) = [call[c] EXCEPT !.stage = "ended", !.reply = reply]
    BY <1>2 DEF Ended
  <2> QED
    BY <1>1, <1>2, <2>1 DEF CallRecords, Past
<1>3. CASE call[c].stage # "sent"
  BY <1>1, <1>3 DEF Ended
<1> QED
  BY <1>2, <1>3

LEMMA FilesStep ==
  ASSUME TypeOK, TriesAreLimited, [Next]_vars
  PROVE  FilesOK'
<1> USE DEF FilesOK
<1>1. FilesOK
  BY DEF TypeOK
<1>2. ASSUME NEW p \in Procs, Launch(p) \/ LaunchStep(p) PROVE FilesOK'
  <2> USE DEF Moves, Stages, InTransit, Deciding, Departing
  <2>1. CASE Launch(p) \/ LockCreated(p) \/ LockExists(p) \/ FindsStale(p) \/ NoLock(p)
    BY <1>1, <2>1 DEF Launch, LockCreated, LockExists, FindsStale, NoLock, files
  <2>2. CASE RemovesLock(p)
    BY <1>1, <2>2 DEF RemovesLock, Removing
  <2>3. CASE RemovesRecord(p)
    <3>1. tries[p] \in 0 .. 1
      BY <1>1, <2>3 DEF RemovesRecord, TriesAreLimited
    <3>2. tries' \in [Procs -> 0 .. 2]
      BY <1>1, <2>3, <3>1 DEF RemovesRecord
    <3> QED
      BY <1>1, <2>3, <3>2 DEF RemovesRecord, Removing
  <2>4. CASE Publishes(p)
    <3>1. record' \in Records
      BY <2>4 DEF Publishes, Records
    <3> QED
      BY <1>1, <2>4, <3>1 DEF Publishes
  <2>5. CASE Serves(p) \/ StartFails(p) \/ FindsAgent(p)
    BY <1>1, <2>5 DEF Serves, StartFails, FindsAgent, files
  <2> QED
    BY <1>2, <2>1, <2>2, <2>3, <2>4, <2>5 DEF LaunchStep
<1>3. ASSUME NEW q \in Procs, ExitStep(q) \/ Crash(q) PROVE FilesOK'
  BY <1>1, <1>3 DEF ExitStep, AgentDropped, OwnRecordRemoved, OwnLockRemoved, ServerJoined, Crash,
     Removing, Moves, Stages, InTransit, Deciding, Departing, files
<1>4. CASE UNCHANGED <<stage, tries, lock, record>>
  BY <1>1, <1>4
<1> QED
  BY <1>2, <1>3, <1>4 DEF Next, vars, CommandReceived, TrayEvent, ServerStep, CallAccepted,
     CallTurnedAway, AnswerTimesOut, WindowStep, StatusRequested, ActionConfirmed, QuitConfirmed,
     WindowCloses, WindowHears, AgentActionFinished, QuitAgentFinished, CallStep, RecordRead,
     Connects, CallFails, files

LEMMA ServerTypeStep ==
  ASSUME TypeOK, [Next]_vars
  PROVE  ServerOK'
<1> USE DEF ServerOK
<1>1. ServerOK
  BY DEF TypeOK
<1>2. ASSUME NEW p \in Procs, Publishes(p) PROVE ServerOK'
  <2>1. PICK n \in Ports \ {port[q] : q \in Procs} : port' = [port EXCEPT ![p] = n]
    BY <1>2 DEF Publishes
  <2>2. UNCHANGED <<backlog, worker, queue>>
    BY <1>2 DEF Publishes
  <2>3. \A q, r \in Procs : q # r /\ port'[q] = port'[r] => port'[q] = NoOne
    BY <1>1, <2>1
  <2> QED
    BY <1>1, <2>1, <2>2, <2>3
<1>3. ASSUME NEW q \in Procs, Hangup(q) PROVE ServerOK'
  <2>1. <<>> \in Seq(Requests)
    OBVIOUS
  <2> QED
    BY <1>1, <1>3, <2>1 DEF Hangup
<1>4. ASSUME NEW q \in Procs, CommandReceived(q) PROVE ServerOK'
  <2>1. queue' = [queue EXCEPT ![q] = Tail(@)] /\ UNCHANGED <<port, backlog>>
        /\ worker' \in {worker, [worker EXCEPT ![q] = NoOne]}
    BY <1>1, <1>4 DEF CommandReceived
  <2>2. Tail(queue[q]) \in Seq(Requests)
    BY <1>1, <1>4, TailElements DEF CommandReceived
  <2> QED
    BY <1>1, <2>1, <2>2
<1>5. ASSUME NEW q \in Procs, ServerStep(q) PROVE ServerOK'
  <2>1. backlog[q] \in Seq(Requests) /\ backlog[q] # <<>> /\ backlog' = [backlog EXCEPT ![q] = Tail(@)]
    BY <1>1, <1>5 DEF ServerStep, CallAccepted, CallTurnedAway, Accepting
  <2>2. Head(backlog[q]) \in Requests /\ Tail(backlog[q]) \in Seq(Requests)
    BY <2>1, TailElements
  <2>3. CASE CallAccepted(q)
    <3>1. Append(queue[q], Head(backlog[q])) \in Seq(Requests)
      BY <1>1, <2>2, AppendElements
    <3> QED
      BY <1>1, <2>1, <2>2, <2>3, <3>1 DEF CallAccepted
  <2>4. CASE CallTurnedAway(q)
    BY <1>1, <2>1, <2>2, <2>4 DEF CallTurnedAway
  <2> QED
    BY <1>5, <2>3, <2>4 DEF ServerStep
<1>6. ASSUME NEW q \in Procs, AnswerTimesOut(q) PROVE ServerOK'
  BY <1>1, <1>6 DEF AnswerTimesOut
<1>7. ASSUME NEW c \in Requests, Connects(c) PROVE ServerOK'
  <2>1. PICK q \in Procs : backlog' = [backlog EXCEPT ![q] = Append(@, c)]
    BY <1>7 DEF Connects
  <2>2. Append(backlog[q], c) \in Seq(Requests)
    BY <1>1, AppendElements
  <2> QED
    BY <1>1, <1>7, <2>1, <2>2 DEF Connects
<1>8. CASE UNCHANGED server
  BY <1>1, <1>8 DEF server
<1> QED
  BY <1>2, <1>3, <1>4, <1>5, <1>6, <1>7, <1>8
     DEF Next, vars, Launch, LaunchStep, LockCreated, LockExists, FindsStale, RemovesLock,
     RemovesRecord, NoLock, FindsAgent, Serves, StartFails, ExitStep, AgentDropped, OwnRecordRemoved,
     OwnLockRemoved, ServerJoined, Crash, TrayEvent, WindowStep, StatusRequested, ActionConfirmed,
     QuitConfirmed, WindowCloses, WindowHears, AgentActionFinished, QuitAgentFinished, CallStep,
     RecordRead, CallFails, server

LEMMA HandlesIsTyped ==
  ASSUME TypeOK, NEW q \in Procs, NEW command \in Commands, NEW ok \in BOOLEAN,
         Handles(q, command, ok)
  PROVE  EffectsOK'
<1>1. EffectsOK
  BY DEF TypeOK
<1>2. OpensWindow(q) \in Windows
  BY <1>1 DEF EffectsOK, OpensWindow, Opened, Closed, Windows
<1>3. window' \in [Procs -> Windows]
  BY <1>1, <1>2 DEF EffectsOK, Handles
<1>4. exits' \in [Procs -> BOOLEAN] /\ engine' \in [Procs -> BOOLEAN]
  BY <1>1 DEF EffectsOK, Handles
<1> QED
  BY <1>3, <1>4 DEF EffectsOK

\* A command that is received, its call, and what is told to the caller.
LEMMA Receipt ==
  ASSUME TypeOK, NEW q \in Procs, CommandReceived(q)
  PROVE  \E c \in Requests, ok \in BOOLEAN, reply \in {"ok", "failed"} :
           /\ queue[q] \in Seq(Requests) /\ queue[q] # <<>> /\ c = Head(queue[q])
           /\ Handles(q, call[c].command, ok) /\ (reply = "ok" => ok)
           /\ call'[c] = [Ended(c, reply) EXCEPT !.ran = q] \/ call'[c] = [call[c] EXCEPT !.ran = q]
           /\ \A d \in Requests : d # c => call'[d] = call[d]
           /\ call' = [call EXCEPT ![c] = call'[c]]
           /\ queue' = [queue EXCEPT ![q] = Tail(@)]
           /\ UNCHANGED <<stage, tries, files, port, backlog>>
<1>1. CallsOK /\ ServerOK
  BY DEF TypeOK
<1>2. queue[q] \in Seq(Requests) /\ queue[q] # <<>>
  BY <1>1 DEF CommandReceived, ServerOK
<1>3. PICK c \in Requests : c = Head(queue[q])
  BY <1>2, TailElements
<1>4. PICK ok \in BOOLEAN :
        /\ Handles(q, call[c].command, ok)
        /\ call' = [call EXCEPT ![c] =
             [(IF worker[q] = c THEN Ended(c, IF ok THEN "ok" ELSE "failed") ELSE call[c]) EXCEPT !.ran = q]]
  BY <1>3 DEF CommandReceived
<1>5. PICK reply \in {"ok", "failed"} : reply = IF ok THEN "ok" ELSE "failed"
  OBVIOUS
<1>6. call'[c] = [Ended(c, reply) EXCEPT !.ran = q] \/ call'[c] = [call[c] EXCEPT !.ran = q]
  BY <1>1, <1>4, <1>5 DEF CallsOK
<1>7. /\ \A d \in Requests : d # c => call'[d] = call[d]
      /\ call' = [call EXCEPT ![c] = call'[c]]
  BY <1>1, <1>4 DEF CallsOK
<1>8. queue' = [queue EXCEPT ![q] = Tail(@)] /\ UNCHANGED <<stage, tries, files, port, backlog>>
  BY DEF CommandReceived
<1>9. reply = "ok" => ok
  BY <1>5
<1> WITNESS c \in Requests, ok \in BOOLEAN, reply \in {"ok", "failed"}
<1> QED
  BY <1>2, <1>3, <1>4, <1>6, <1>7, <1>8, <1>9

LEMMA EffectsStep ==
  ASSUME TypeOK, [Next]_vars
  PROVE  EffectsOK'
<1> USE DEF EffectsOK
<1>1. EffectsOK /\ CallsOK
  BY DEF TypeOK
<1>2. ASSUME NEW p \in Procs, Serves(p) \/ AgentDropped(p) \/ Crash(p) \/ WindowCloses(p)
      PROVE  EffectsOK'
  <2>1. Opened \in Windows /\ Closed \in Windows
    BY DEF Opened, Closed, Windows
  <2>2. /\ exits' = exits /\ engine' \in {engine, [engine EXCEPT ![p] = TRUE], [engine EXCEPT ![p] = FALSE]}
        /\ window' \in {window, [window EXCEPT ![p] = Opened], [window EXCEPT ![p] = Closed]}
    BY <1>2 DEF Serves, AgentDropped, Crash, WindowCloses
  <2> QED
    BY <1>1, <2>1, <2>2
<1>3. ASSUME NEW q \in Procs, CommandReceived(q) PROVE EffectsOK'
  <2> DEFINE c == Head(queue[q])
  <2>0. c \in Requests
    BY <1>3, TailElements DEF CommandReceived, TypeOK, ServerOK
  <2>1. PICK ok \in BOOLEAN : Handles(q, call[c].command, ok)
    BY <1>3 DEF CommandReceived
  <2>2. call[c].command \in Commands
    BY <1>1, <2>0 DEF CallsOK, CallRecords
  <2> QED
    BY <2>0, <2>1, <2>2, HandlesIsTyped
<1>4. ASSUME NEW q \in Procs, TrayEvent(q) PROVE EffectsOK'
  BY <1>4, HandlesIsTyped DEF TrayEvent
<1>5. ASSUME NEW w \in Procs, ActionConfirmed(w) \/ QuitConfirmed(w) \/ WindowHears(w)
      PROVE  EffectsOK'
  <2>1. \A c \in Calls \cup {NoOne} : /\ [window[w] EXCEPT !.acting = c] \in Windows
                                      /\ [window[w] EXCEPT !.quitting = c] \in Windows
    BY <1>1 DEF Windows
  <2>2. Closed \in Windows
    BY DEF Closed, Windows
  <2>3. CASE ActionConfirmed(w)
    <3>1. PICK c \in Calls : window' = [window EXCEPT ![w] = [@ EXCEPT !.acting = c]]
      BY <2>3 DEF ActionConfirmed
    <3> QED
      BY <1>1, <2>1, <2>3, <3>1 DEF ActionConfirmed
  <2>4. CASE QuitConfirmed(w)
    <3>1. PICK c \in Calls : window' = [window EXCEPT ![w] = [@ EXCEPT !.quitting = c]]
      BY <2>4 DEF QuitConfirmed
    <3> QED
      BY <1>1, <2>1, <2>4, <3>1 DEF QuitConfirmed
  <2>5. CASE WindowHears(w)
    <3>1. \/ window' = [window EXCEPT ![w] = [window[w] EXCEPT !.acting = NoOne]]
          \/ window' = [window EXCEPT ![w] = [window[w] EXCEPT !.quitting = NoOne]]
          \/ window' = [window EXCEPT ![w] = Closed]
      BY <2>5 DEF WindowHears, AgentActionFinished, QuitAgentFinished
    <3>3. PICK x \in Windows : window' = [window EXCEPT ![w] = x]
      BY <2>1, <2>2, <3>1
    <3>2. UNCHANGED <<exits, engine>>
      BY <2>5 DEF WindowHears, AgentActionFinished, QuitAgentFinished
    <3> QED
      BY <1>1, <3>2, <3>3
  <2> QED
    BY <1>5, <2>3, <2>4, <2>5
<1>6. CASE UNCHANGED effects
  BY <1>1, <1>6 DEF effects
<1> QED
  BY <1>2, <1>3, <1>4, <1>5, <1>6
     DEF Next, vars, Launch, LaunchStep, LockCreated, LockExists, FindsStale, RemovesLock,
     RemovesRecord, NoLock, FindsAgent, Publishes, StartFails, ExitStep, OwnRecordRemoved,
     OwnLockRemoved, ServerJoined, ServerStep, CallAccepted, CallTurnedAway, AnswerTimesOut,
     WindowStep, StatusRequested, CallStep, RecordRead, Connects, CallFails, effects

-----------------------------------------------------------------------------
(* The calls.  All steps but four leave every call where it is, or end it.  *)

MovesOn(d) ==
  /\ call'[d] \in CallRecords
  /\ call'[d].ran = call[d].ran
  /\ call'[d].reply \in {call[d].reply, "failed", "timeout"}
  /\ call[d].stage \in Past => /\ call'[d].stage \in Past /\ call'[d].token = call[d].token
                               /\ call'[d].command = call[d].command
  /\ call'[d].stage \notin Past => call[d].stage \notin Past /\ call'[d].reply = call[d].reply

LEMMA EndedMovesOn ==
  ASSUME CallsOK, NEW c \in Requests, NEW reply \in {"failed", "timeout"},
         call'[c] = Ended(c, reply)
  PROVE  MovesOn(c)
BY EndedCall DEF MovesOn, Replies

LEMMA SameMovesOn ==
  ASSUME CallsOK, NEW c \in Requests, call'[c] = call[c]
  PROVE  MovesOn(c)
BY DEF MovesOn, CallsOK

LEMMA BegunMovesOn ==
  ASSUME CallsOK, NEW c \in Requests, NEW command \in Commands, Begins(c, command)
  PROVE  call' = [call EXCEPT ![c] = call'[c]] /\ \A d \in Requests : MovesOn(d)
<1>1. call[c] \in CallRecords
  BY DEF CallsOK
<1>2. call' = [call EXCEPT ![c] = [@ EXCEPT !.stage = "begun", !.command = command]]
  BY DEF Begins
<1>3. call'[c] = [call[c] EXCEPT !.stage = "begun", !.command = command]
  BY <1>2 DEF CallsOK
<1>4. MovesOn(c)
  <2>1. call[c].stage \notin Past
    BY DEF Begins, Past
  <2>2. /\ call'[c] \in CallRecords /\ call'[c].ran = call[c].ran
        /\ call'[c].reply = call[c].reply
    BY <1>1, <1>3 DEF CallRecords
  <2> QED
    BY <2>1, <2>2 DEF MovesOn
<1>5. \A d \in Requests : d # c => call'[d] = call[d]
  BY <1>2 DEF CallsOK
<1> QED
  BY <1>2, <1>3, <1>4, <1>5, SameMovesOn

\* Steps that run, accept, turn away or connect no call only move calls on, and leave
\* every backlog and queue as it is or empty.
Special(q) == CommandReceived(q) \/ CallAccepted(q) \/ CallTurnedAway(q)

Emptied(places) == \A q \in Procs : places[q]' = places[q] \/ places[q]' = <<>>

LEMMA HangupMovesOn ==
  ASSUME CallsOK, NEW q \in Procs, Hangup(q)
  PROVE  \A d \in Requests : MovesOn(d)
<1>1. \A d \in Requests : call'[d] \in {call[d], Ended(d, "failed")}
  BY DEF Hangup
<1> QED
  BY <1>1, EndedMovesOn, SameMovesOn

LEMMA CallsMoveOn ==
  ASSUME TypeOK, [Next]_vars, ~\E q \in Procs : Special(q), ~\E c \in Requests : Connects(c)
  PROVE  /\ \A d \in Requests : MovesOn(d)
         /\ Emptied(backlog) /\ Emptied(queue)
         /\ \A p \in Procs : exits[p] => exits'[p]
<1>1. CallsOK /\ ServerOK /\ EffectsOK
  BY DEF TypeOK
<1>2. /\ Emptied(backlog) /\ Emptied(queue)
      /\ \A p \in Procs : exits[p] => exits'[p]
  <2>1. (UNCHANGED <<backlog, queue>> \/ \E q \in Procs : Hangup(q))
        /\ (exits' = exits \/ \E q \in Procs : TrayEvent(q))
    BY DEF Next, vars, Special, Launch, LaunchStep, LockCreated, LockExists, FindsStale, RemovesLock,
       RemovesRecord, NoLock, FindsAgent, Publishes, Serves, StartFails, ExitStep, AgentDropped,
       OwnRecordRemoved, OwnLockRemoved, ServerJoined, Crash, TrayEvent, ServerStep, AnswerTimesOut,
       WindowStep, StatusRequested, ActionConfirmed, QuitConfirmed, WindowCloses, WindowHears,
       AgentActionFinished, QuitAgentFinished, CallStep, RecordRead, CallFails, server, effects
  <2>2. Emptied(backlog) /\ Emptied(queue)
    BY <1>1, <2>1 DEF Emptied, Hangup, ServerOK
  <2>3. ASSUME NEW q \in Procs, TrayEvent(q), NEW p \in Procs, exits[p] PROVE exits'[p]
    <3>1. PICK ok \in BOOLEAN, command \in Commands : exits' = [exits EXCEPT ![q] = @ \/ (ok /\ command = "Quit")]
      BY <2>3 DEF TrayEvent, Handles
    <3> QED
      BY <1>1, <2>3, <3>1 DEF EffectsOK
  <2> QED
    BY <2>1, <2>2, <2>3
<1>3. \A d \in Requests : MovesOn(d)
  <2>1. ASSUME NEW q \in Procs, Hangup(q) PROVE \A d \in Requests : MovesOn(d)
    BY <1>1, <2>1, HangupMovesOn
  <2>2. ASSUME NEW q \in Procs, AnswerTimesOut(q) PROVE \A d \in Requests : MovesOn(d)
    <3>1. \A d \in Requests : call'[d] \in {call[d], Ended(d, "timeout")}
      BY <1>1, <2>2 DEF AnswerTimesOut, CallsOK
    <3> QED
      BY <1>1, <3>1, EndedMovesOn, SameMovesOn
  <2>3. ASSUME NEW c \in Requests, NEW command \in Commands, Begins(c, command)
        PROVE  \A d \in Requests : MovesOn(d)
    BY <1>1, <2>3, BegunMovesOn
  <2>4. ASSUME NEW c \in Requests, RecordRead(c) PROVE \A d \in Requests : MovesOn(d)
    <3>1. \A d \in Requests : d # c => call'[d] = call[d]
      BY <1>1, <2>4 DEF RecordRead, CallsOK
    <3>2. call[c] \in CallRecords /\ call[c].stage \notin Past
      BY <1>1, <2>4 DEF RecordRead, CallsOK, Past
    <3>3. CASE record = NoOne
      <4>1. call'[c] = [call[c] EXCEPT !.stage = "ended", !.reply = "failed"]
        BY <1>1, <2>4, <3>3 DEF RecordRead, CallsOK
      <4>2. /\ call'[c] \in CallRecords /\ call'[c].ran = call[c].ran
            /\ call'[c].reply = "failed" /\ call'[c].stage = "ended"
        BY <3>2, <4>1 DEF CallRecords, Replies
      <4>3. MovesOn(c)
        BY <3>2, <4>2 DEF MovesOn, Past
      <4> QED
        BY <1>1, <3>1, <4>3, SameMovesOn
    <3>4. CASE record # NoOne
      <4>1. call'[c] = [call[c] EXCEPT !.stage = "connecting", !.token = record.agent,
                                       !.port = record.port]
        BY <1>1, <2>4, <3>4 DEF RecordRead, CallsOK
      <4>2. record.agent \in Procs /\ record.port \in Ports
        BY <3>4 DEF TypeOK, FilesOK, Records
      <4>3. /\ call'[c] \in CallRecords /\ call'[c].ran = call[c].ran
            /\ call'[c].reply = call[c].reply
        BY <3>2, <4>1, <4>2 DEF CallRecords
      <4>4. MovesOn(c)
        BY <3>2, <4>3 DEF MovesOn
      <4> QED
        BY <1>1, <3>1, <4>4, SameMovesOn
    <3> QED
      BY <3>3, <3>4
  <2>5. ASSUME NEW c \in Requests, CallFails(c) PROVE \A d \in Requests : MovesOn(d)
    <3>1. \A d \in Requests : d # c => call'[d] = call[d]
      BY <1>1, <2>5 DEF CallFails, CallsOK
    <3>2. call[c] \in CallRecords
      BY <1>1 DEF CallsOK
    <3>3. call'[c] = [call[c] EXCEPT !.stage = "ended", !.reply = "failed"]
      BY <1>1, <2>5 DEF CallFails, CallsOK
    <3>4. MovesOn(c)
      BY <3>2, <3>3 DEF MovesOn, CallRecords, Replies, Past
    <3> QED
      BY <1>1, <3>1, <3>4, SameMovesOn
  <2>6. CASE call' = call
    BY <1>1, <2>6, SameMovesOn
  <2>7. \/ call' = call
        \/ \E q \in Procs : Hangup(q) \/ AnswerTimesOut(q)
        \/ \E c \in Requests : RecordRead(c) \/ CallFails(c)
        \/ \E c \in Requests, command \in Commands : Begins(c, command)
    BY DEF Next, vars, Special, Launch, LaunchStep, LockCreated, LockExists, FindsStale, RemovesLock,
       RemovesRecord, NoLock, FindsAgent, Publishes, Serves, StartFails, ExitStep, AgentDropped,
       OwnRecordRemoved, OwnLockRemoved, ServerJoined, Crash, TrayEvent, ServerStep, WindowStep,
       StatusRequested, ActionConfirmed, QuitConfirmed, WindowCloses, WindowHears,
       AgentActionFinished, QuitAgentFinished, CallStep, Requests, Commands
  <2> QED
    BY <2>1, <2>2, <2>3, <2>4, <2>5, <2>6, <2>7
<1> QED
  BY <1>2, <1>3

\* The same for the steps that connect, accept, turn away and run a call.
LEMMA CallsStep ==
  ASSUME TypeOK, [Next]_vars
  PROVE  CallsOK'
<1>1. CallsOK /\ ServerOK
  BY DEF TypeOK
<1>2. CASE ~(\E q \in Procs : Special(q)) /\ ~\E c \in Requests : Connects(c)
  <2>1. \A d \in Requests : call'[d] \in CallRecords
    BY <1>2, CallsMoveOn DEF MovesOn
  <2>2. call' = [d \in Requests |-> call'[d]]
    <3>1. \/ call' = call
          \/ \E q \in Procs : Hangup(q) \/ AnswerTimesOut(q)
          \/ \E c \in Requests : RecordRead(c) \/ CallFails(c)
          \/ \E c \in Requests, command \in Commands : Begins(c, command)
      BY <1>2 DEF Next, vars, Special, Launch, LaunchStep, LockCreated, LockExists, FindsStale,
         RemovesLock, RemovesRecord, NoLock, FindsAgent, Publishes, Serves, StartFails, ExitStep,
         AgentDropped, OwnRecordRemoved, OwnLockRemoved, ServerJoined, Crash, TrayEvent, ServerStep,
         WindowStep, StatusRequested, ActionConfirmed, QuitConfirmed, WindowCloses, WindowHears,
         AgentActionFinished, QuitAgentFinished, CallStep, Requests, Commands
    <3>2. ASSUME NEW q \in Procs, Hangup(q) PROVE call' = [d \in Requests |-> call'[d]]
      BY <3>2 DEF Hangup
    <3>3. ASSUME NEW q \in Procs, AnswerTimesOut(q) PROVE call' = [d \in Requests |-> call'[d]]
      BY <1>1, <3>3 DEF AnswerTimesOut, CallsOK
    <3>4. ASSUME NEW c \in Requests, RecordRead(c) \/ CallFails(c)
          PROVE  call' = [d \in Requests |-> call'[d]]
      BY <1>1, <3>4 DEF RecordRead, CallFails, CallsOK
    <3>5. ASSUME NEW c \in Requests, NEW command \in Commands, Begins(c, command)
          PROVE  call' = [d \in Requests |-> call'[d]]
      BY <1>1, <3>5 DEF Begins, CallsOK
    <3> QED
      BY <1>1, <3>1, <3>2, <3>3, <3>4, <3>5 DEF CallsOK
  <2> QED
    BY <2>1, <2>2 DEF CallsOK
<1>3. ASSUME NEW q \in Procs, CommandReceived(q) PROVE CallsOK'
  <2>1. PICK c \in Requests : \E ok \in BOOLEAN, reply \in {"ok", "failed"} :
          /\ call'[c] = [Ended(c, reply) EXCEPT !.ran = q] \/ call'[c] = [call[c] EXCEPT !.ran = q]
          /\ call' = [call EXCEPT ![c] = call'[c]]
    BY <1>3, Receipt
  <2>2. call'[c] \in CallRecords
    <3>1. PICK reply \in {"ok", "failed"} :
            call'[c] = [Ended(c, reply) EXCEPT !.ran = q] \/ call'[c] = [call[c] EXCEPT !.ran = q]
      BY <2>1
    <3>2. Ended(c, reply) \in CallRecords /\ call[c] \in CallRecords
      BY <1>1, EndedCall DEF Replies, CallsOK
    <3> QED
      BY <3>1, <3>2 DEF CallRecords
  <2> QED
    BY <1>1, <2>1, <2>2 DEF CallsOK
<1>4. ASSUME NEW q \in Procs, CallAccepted(q) PROVE CallsOK'
  BY <1>1, <1>4 DEF CallAccepted, CallsOK
<1>5. ASSUME NEW q \in Procs, CallTurnedAway(q) PROVE CallsOK'
  <2> DEFINE c == Head(backlog[q])
  <2>1. c \in Requests /\ call' = [call EXCEPT ![c] = Ended(c, "rejected")]
    BY <1>1, <1>5, TailElements DEF CallTurnedAway, Accepting, ServerOK
  <2>2. Ended(c, "rejected") \in CallRecords
    BY <1>1, <2>1, EndedCall DEF Replies
  <2> QED
    BY <1>1, <2>1, <2>2 DEF CallsOK
<1>6. ASSUME NEW c \in Requests, Connects(c) PROVE CallsOK'
  <2>1. call' = [call EXCEPT ![c] = [call[c] EXCEPT !.stage = "sent"]]
    BY <1>6 DEF Connects
  <2>2. [call[c] EXCEPT !.stage = "sent"] \in CallRecords
    BY <1>1 DEF CallsOK, CallRecords
  <2> QED
    BY <1>1, <2>1, <2>2 DEF CallsOK
<1> QED
  BY <1>2, <1>3, <1>4, <1>5, <1>6 DEF Special

LEMMA TypeStep ==
  ASSUME TypeOK, TriesAreLimited, [Next]_vars
  PROVE  TypeOK'
BY FilesStep, ServerTypeStep, EffectsStep, CallsStep DEF TypeOK

\* A call that moves on keeps what was true of it.
LEMMA CallsStayOnce ==
  ASSUME TypeOK, CallsTravelOnce, AnswersAreTrue, \A d \in Requests : MovesOn(d),
         Emptied(backlog), Emptied(queue), \A p \in Procs : exits[p] => exits'[p]
  PROVE  CallsTravelOnce' /\ AnswersAreTrue'
<1>1. CallsOK /\ ServerOK
  BY DEF TypeOK
<1>2. AnswersAreTrue'
  <2>1. SUFFICES ASSUME NEW c \in Requests
                 PROVE  /\ call'[c].ran \in {NoOne, call'[c].token}
                        /\ call'[c].reply = "ok" => /\ call'[c].ran # NoOne
                                                    /\ call'[c].command = "Quit" => exits'[call'[c].ran]
                        /\ call'[c].reply = "rejected" => call'[c].ran = NoOne
    BY DEF AnswersAreTrue
  <2>2. call[c].ran \in Procs \cup {NoOne}
    BY <1>1 DEF CallsOK, CallRecords
  <2>3. CASE call[c].stage \notin Past
    BY <2>3 DEF MovesOn, CallsTravelOnce
  <2>4. CASE call[c].stage \in Past
    BY <2>2, <2>4 DEF MovesOn, AnswersAreTrue
  <2> QED
    BY <2>3, <2>4
<1>3. \A q \in Procs : /\ \A i \in DOMAIN backlog'[q] : /\ i \in DOMAIN backlog[q] /\ backlog'[q][i] = backlog[q][i]
                                                        /\ backlog[q][i] \in Requests
                       /\ \A i \in DOMAIN queue'[q] : /\ i \in DOMAIN queue[q] /\ queue'[q][i] = queue[q][i]
                                                      /\ queue[q][i] \in Requests
  <2> SUFFICES ASSUME NEW q \in Procs
               PROVE  /\ \A i \in DOMAIN backlog'[q] : /\ i \in DOMAIN backlog[q] /\ backlog'[q][i] = backlog[q][i]
                                                       /\ backlog[q][i] \in Requests
                      /\ \A i \in DOMAIN queue'[q] : /\ i \in DOMAIN queue[q] /\ queue'[q][i] = queue[q][i]
                                                     /\ queue[q][i] \in Requests
    OBVIOUS
  <2>1. backlog[q] \in Seq(Requests) /\ queue[q] \in Seq(Requests)
    BY <1>1 DEF ServerOK
  <2>2. backlog'[q] = backlog[q] \/ backlog'[q] = <<>>
    BY DEF Emptied
  <2>3. queue'[q] = queue[q] \/ queue'[q] = <<>>
    BY DEF Emptied
  <2> QED
    BY <2>1, <2>2, <2>3
<1>4. CallsTravelOnce'
  <2>1. \A c \in Requests : call'[c].stage \notin Past => call'[c].ran = NoOne /\ call'[c].reply = "none"
    BY DEF MovesOn, CallsTravelOnce
  <2>2. \A q \in Procs : \A i \in DOMAIN backlog'[q] :
          /\ call'[backlog'[q][i]].stage \in Past
          /\ call'[backlog'[q][i]].ran = NoOne
          /\ call'[backlog'[q][i]].reply # "rejected"
    BY <1>3 DEF MovesOn, CallsTravelOnce
  <2>3. \A q \in Procs : \A i \in DOMAIN queue'[q] :
          /\ call'[queue'[q][i]].stage \in Past
          /\ call'[queue'[q][i]].token = q
          /\ call'[queue'[q][i]].reply # "rejected"
    BY <1>3 DEF MovesOn, CallsTravelOnce
  <2> QED
    BY <1>3, <2>1, <2>2, <2>3 DEF CallsTravelOnce
<1> QED
  BY <1>2, <1>4

LEMMA ConnectsOnce ==
  ASSUME TypeOK, CallsTravelOnce, AnswersAreTrue, NEW c \in Requests, Connects(c)
  PROVE  CallsTravelOnce' /\ AnswersAreTrue'
<1>1. CallsOK /\ ServerOK
  BY DEF TypeOK
<1>2. PICK q \in Procs : backlog' = [backlog EXCEPT ![q] = Append(@, c)]
  BY DEF Connects
<1>3. /\ call[c].stage \notin Past /\ UNCHANGED <<queue, exits>>
      /\ call' = [call EXCEPT ![c] = [call[c] EXCEPT !.stage = "sent"]]
  BY DEF Connects, Past, effects
<1>4. /\ call'[c].stage = "sent" /\ call'[c].ran = NoOne /\ call'[c].reply = "none"
      /\ \A d \in Requests : d # c => call'[d] = call[d]
  <2>1. call[c].ran = NoOne /\ call[c].reply = "none"
    BY <1>3 DEF CallsTravelOnce
  <2> QED
    BY <1>1, <1>3, <2>1 DEF CallsOK, CallRecords
<1>5. AnswersAreTrue'
  BY <1>3, <1>4 DEF AnswersAreTrue
<1>6. \A p \in Procs : backlog[p] \in Seq(Requests) /\ queue[p] \in Seq(Requests)
  BY <1>1 DEF ServerOK
<1>7. \A p \in Procs : /\ \A i \in DOMAIN backlog[p] : backlog[p][i] \in Requests /\ backlog[p][i] # c
                       /\ \A i \in DOMAIN queue[p] : queue[p][i] \in Requests /\ queue[p][i] # c
  BY <1>3, <1>6 DEF CallsTravelOnce
<1>8. \A p \in Procs : \A i \in DOMAIN backlog'[p] :
        \/ i \in DOMAIN backlog[p] /\ backlog'[p][i] = backlog[p][i]
        \/ p = q /\ i = Len(backlog[q]) + 1 /\ backlog'[p][i] = c
  BY <1>1, <1>2, <1>6, AppendElements DEF ServerOK
<1>9. CallsTravelOnce'
  <2>1. \A d \in Requests : call'[d].stage \notin Past => call'[d].ran = NoOne /\ call'[d].reply = "none"
    BY <1>4 DEF CallsTravelOnce
  <2>2. \A p \in Procs : \A i \in DOMAIN backlog'[p] :
          /\ call'[backlog'[p][i]].stage \in Past
          /\ call'[backlog'[p][i]].ran = NoOne
          /\ call'[backlog'[p][i]].reply # "rejected"
    BY <1>4, <1>7, <1>8 DEF CallsTravelOnce, Past
  <2>3. \A p, r \in Procs : \A i \in DOMAIN backlog'[p], j \in DOMAIN backlog'[r] :
          backlog'[p][i] = backlog'[r][j] => p = r /\ i = j
    BY <1>7, <1>8 DEF CallsTravelOnce
  <2>4. \A p, r \in Procs : \A i \in DOMAIN backlog'[p], j \in DOMAIN queue'[r] :
          backlog'[p][i] # queue'[r][j]
    BY <1>3, <1>7, <1>8 DEF CallsTravelOnce
  <2>5. \A p \in Procs : \A i \in DOMAIN queue'[p] :
          /\ call'[queue'[p][i]].stage \in Past
          /\ call'[queue'[p][i]].token = p
          /\ call'[queue'[p][i]].reply # "rejected"
    BY <1>3, <1>4, <1>7 DEF CallsTravelOnce
  <2> QED
    BY <2>1, <2>2, <2>3, <2>4, <2>5 DEF CallsTravelOnce
<1> QED
  BY <1>5, <1>9

\* Accepting takes a call out of its backlog, into the queue or to its caller.
LEMMA AcceptsOnce ==
  ASSUME TypeOK, CallsTravelOnce, AnswersAreTrue, NEW q \in Procs, CallAccepted(q) \/ CallTurnedAway(q)
  PROVE  CallsTravelOnce' /\ AnswersAreTrue'
<1> DEFINE c == Head(backlog[q])
<1>1. CallsOK /\ ServerOK
  BY DEF TypeOK
<1>2. /\ backlog[q] \in Seq(Requests) /\ backlog[q] # <<>>
      /\ backlog' = [backlog EXCEPT ![q] = Tail(@)] /\ exits' = exits
  BY <1>1 DEF CallAccepted, CallTurnedAway, Accepting, ServerOK, effects
<1>3. c \in Requests /\ 1 \in DOMAIN backlog[q] /\ backlog[q][1] = c
  BY <1>2, TailElements
<1>4. /\ call[c].stage \in Past /\ call[c].ran = NoOne /\ call[c].reply # "rejected"
      /\ \A p \in Procs : \A i \in DOMAIN queue[p] : queue[p][i] # c
  BY <1>3 DEF CallsTravelOnce
<1>5. \A p \in Procs : backlog[p] \in Seq(Requests) /\ queue[p] \in Seq(Requests)
  BY <1>1 DEF ServerOK
<1>6. \A p \in Procs : \A i \in DOMAIN backlog'[p] :
        \E k \in DOMAIN backlog[p] :
          /\ k = (IF p = q THEN i + 1 ELSE i)
          /\ backlog'[p][i] = backlog[p][k] /\ backlog[p][k] \in Requests /\ backlog[p][k] # c
  <2>1. \A i \in DOMAIN backlog'[q] : /\ i + 1 \in DOMAIN backlog[q] /\ i + 1 # 1
                                     /\ backlog'[q][i] = backlog[q][i + 1]
    BY <1>1, <1>2, TailElements DEF ServerOK
  <2>2. \A p \in Procs : p # q => backlog'[p] = backlog[p]
    BY <1>1, <1>2 DEF ServerOK
  <2>3. \A p \in Procs : \A k \in DOMAIN backlog[p] :
          backlog[p][k] \in Requests /\ (p # q \/ k # 1 => backlog[p][k] # c)
    BY <1>3, <1>5 DEF CallsTravelOnce
  <2> QED
    BY <2>1, <2>2, <2>3
<1>7. \A p, r \in Procs : \A i \in DOMAIN backlog'[p], j \in DOMAIN backlog'[r] :
        backlog'[p][i] = backlog'[r][j] => p = r /\ i = j
  <2> SUFFICES ASSUME NEW p \in Procs, NEW r \in Procs, NEW i \in DOMAIN backlog'[p],
                      NEW j \in DOMAIN backlog'[r], backlog'[p][i] = backlog'[r][j]
               PROVE  p = r /\ i = j
    OBVIOUS
  <2>1. i \in Nat /\ j \in Nat
    BY <1>1, <1>2, <1>5, TailElements DEF ServerOK
  <2>2. p = r /\ (IF p = q THEN i + 1 ELSE i) = (IF r = q THEN j + 1 ELSE j)
    BY <1>6 DEF CallsTravelOnce
  <2> QED
    BY <2>1, <2>2
<1>8. CASE CallAccepted(q)
  <2>1. /\ call' = call /\ call[c].token = q
        /\ queue' = [queue EXCEPT ![q] = Append(@, c)]
    BY <1>8 DEF CallAccepted, Authentic
  <2>2. \A p \in Procs : \A i \in DOMAIN queue'[p] :
          \/ i \in DOMAIN queue[p] /\ queue'[p][i] = queue[p][i]
          \/ p = q /\ queue'[p][i] = c
    BY <1>1, <1>3, <1>5, <2>1, AppendElements DEF ServerOK
  <2>3. AnswersAreTrue'
    BY <1>2, <2>1 DEF AnswersAreTrue
  <2>4. \A p, r \in Procs : \A i \in DOMAIN backlog'[p], j \in DOMAIN queue'[r] :
          backlog'[p][i] # queue'[r][j]
    BY <1>6, <2>2 DEF CallsTravelOnce
  <2>5. \A p \in Procs : \A i \in DOMAIN queue'[p] :
          /\ call'[queue'[p][i]].stage \in Past
          /\ call'[queue'[p][i]].token = p
          /\ call'[queue'[p][i]].reply # "rejected"
    BY <1>4, <2>1, <2>2 DEF CallsTravelOnce
  <2>6. \A p \in Procs : \A i \in DOMAIN backlog'[p] :
          /\ call'[backlog'[p][i]].stage \in Past
          /\ call'[backlog'[p][i]].ran = NoOne
          /\ call'[backlog'[p][i]].reply # "rejected"
    BY <1>6, <2>1 DEF CallsTravelOnce
  <2> QED
    BY <1>7, <2>1, <2>3, <2>4, <2>5, <2>6 DEF CallsTravelOnce
<1>9. CASE CallTurnedAway(q)
  <2>1. call' = [call EXCEPT ![c] = Ended(c, "rejected")] /\ queue' = queue
    BY <1>9 DEF CallTurnedAway
  <2>2. /\ call'[c] = Ended(c, "rejected")
        /\ \A d \in Requests : d # c => call'[d] = call[d]
    BY <1>1, <1>3, <2>1 DEF CallsOK
  <2>3. /\ call'[c].ran = NoOne /\ call'[c].stage \in Past
        /\ call'[c].reply \in {call[c].reply, "rejected"} 
    BY <1>1, <1>3, <1>4, <2>2, EndedCall DEF Replies
  <2>4. AnswersAreTrue'
    BY <1>2, <1>3, <1>4, <2>2, <2>3 DEF AnswersAreTrue
  <2>5. \A p, r \in Procs : \A i \in DOMAIN backlog'[p], j \in DOMAIN queue'[r] :
          backlog'[p][i] # queue'[r][j]
    BY <1>6, <2>1 DEF CallsTravelOnce
  <2>6. \A p \in Procs : \A i \in DOMAIN queue[p] : queue[p][i] \in Requests
    BY <1>5
  <2>7. \A p \in Procs : \A i \in DOMAIN queue'[p] :
          /\ call'[queue'[p][i]].stage \in Past
          /\ call'[queue'[p][i]].token = p
          /\ call'[queue'[p][i]].reply # "rejected"
    BY <1>4, <2>1, <2>2, <2>6 DEF CallsTravelOnce
  <2>8. \A p \in Procs : \A i \in DOMAIN backlog'[p] :
          /\ call'[backlog'[p][i]].stage \in Past
          /\ call'[backlog'[p][i]].ran = NoOne
          /\ call'[backlog'[p][i]].reply # "rejected"
    BY <1>6, <2>2 DEF CallsTravelOnce
  <2>9. \A d \in Requests : call'[d].stage \notin Past => call'[d].ran = NoOne /\ call'[d].reply = "none"
    BY <2>2, <2>3 DEF CallsTravelOnce
  <2> QED
    BY <1>7, <2>4, <2>5, <2>7, <2>8, <2>9 DEF CallsTravelOnce
<1> QED
  BY <1>8, <1>9

\* A command runs for a caller that read the record of this very Agent.
LEMMA RunsOnce ==
  ASSUME TypeOK, CallsTravelOnce, AnswersAreTrue, NEW q \in Procs, CommandReceived(q)
  PROVE  CallsTravelOnce' /\ AnswersAreTrue'
<1>1. CallsOK /\ ServerOK /\ EffectsOK
  BY DEF TypeOK
<1>2. PICK c \in Requests, ok \in BOOLEAN, reply \in {"ok", "failed"} :
        /\ queue[q] \in Seq(Requests) /\ queue[q] # <<>> /\ c = Head(queue[q])
        /\ Handles(q, call[c].command, ok) /\ (reply = "ok" => ok)
        /\ call'[c] = [Ended(c, reply) EXCEPT !.ran = q] \/ call'[c] = [call[c] EXCEPT !.ran = q]
        /\ \A d \in Requests : d # c => call'[d] = call[d]
        /\ call' = [call EXCEPT ![c] = call'[c]]
        /\ queue' = [queue EXCEPT ![q] = Tail(@)]
        /\ UNCHANGED <<stage, tries, files, port, backlog>>
  BY Receipt
<1>3. 1 \in DOMAIN queue[q] /\ queue[q][1] = c
  BY <1>2, TailElements
<1>4. call[c].stage \in Past /\ call[c].token = q /\ call[c].reply # "rejected"
  BY <1>3 DEF CallsTravelOnce
<1>5. /\ call'[c].ran = q /\ call'[c].token = q /\ call'[c].stage \in Past
      /\ call'[c].command = call[c].command /\ call'[c].reply \in {call[c].reply, reply}
  <2>1. Ended(c, reply) \in CallRecords /\ call[c] \in CallRecords
    BY <1>1, EndedCall DEF Replies, CallsOK
  <2>2. /\ Ended(c, reply).token = q /\ Ended(c, reply).stage \in Past
        /\ Ended(c, reply).command = call[c].command
        /\ Ended(c, reply).reply \in {call[c].reply, reply}
    BY <1>1, <1>4, EndedCall DEF Replies
  <2>3. CASE call'[c] = [Ended(c, reply) EXCEPT !.ran = q]
    BY <2>1, <2>2, <2>3 DEF CallRecords
  <2>4. CASE call'[c] = [call[c] EXCEPT !.ran = q]
    BY <1>4, <2>1, <2>4 DEF CallRecords
  <2> QED
    BY <1>2, <2>3, <2>4
<1>6. /\ \A p \in Procs : exits[p] => exits'[p]
      /\ ok /\ call[c].command = "Quit" => exits'[q]
  <2>1. exits' = [exits EXCEPT ![q] = @ \/ (ok /\ call[c].command = "Quit")]
    BY <1>2 DEF Handles
  <2> QED
    BY <1>1, <2>1 DEF EffectsOK
<1>7. AnswersAreTrue'
  <2>1. ASSUME NEW d \in Requests, d # c
        PROVE  /\ call'[d].ran \in {NoOne, call'[d].token}
               /\ call'[d].reply = "ok" => /\ call'[d].ran # NoOne
                                           /\ call'[d].command = "Quit" => exits'[call'[d].ran]
               /\ call'[d].reply = "rejected" => call'[d].ran = NoOne
    <3>1. call'[d] = call[d] /\ call[d].ran \in Procs \cup {NoOne}
      BY <1>1, <1>2, <2>1 DEF CallsOK, CallRecords
    <3> QED
      BY <1>6, <3>1 DEF AnswersAreTrue
  <2>2. call'[c].reply = "ok" => (call'[c].command = "Quit" => exits'[q])
    <3>1. CASE reply = "ok" /\ ok
      BY <1>5, <1>6, <3>1
    <3>2. CASE call[c].reply = "ok"
      <4>1. call[c].ran = q
        BY <1>4, <3>2 DEF AnswersAreTrue
      <4> QED
        BY <1>5, <1>6, <3>2, <4>1 DEF AnswersAreTrue
    <3> QED
      BY <1>2, <1>5, <3>1, <3>2
  <2>3. call'[c].reply # "rejected"
    BY <1>4, <1>5
  <2> QED
    BY <1>5, <2>1, <2>2, <2>3 DEF AnswersAreTrue
<1>8. \A p \in Procs : backlog[p] \in Seq(Requests) /\ queue[p] \in Seq(Requests)
  BY <1>1 DEF ServerOK
<1>9. \A p \in Procs : \A i \in DOMAIN queue'[p] :
        \E k \in DOMAIN queue[p] : queue'[p][i] = queue[p][k] /\ queue[p][k] \in Requests
  <2>1. \A i \in DOMAIN queue'[q] : i + 1 \in DOMAIN queue[q] /\ queue'[q][i] = queue[q][i + 1]
    BY <1>1, <1>2, TailElements DEF ServerOK
  <2>2. \A p \in Procs : p # q => queue'[p] = queue[p]
    BY <1>1, <1>2 DEF ServerOK
  <2>3. \A p \in Procs : \A k \in DOMAIN queue[p] : queue[p][k] \in Requests
    BY <1>8
  <2> QED
    BY <2>1, <2>2, <2>3
<1>10. \A p \in Procs : \A i \in DOMAIN backlog[p] : backlog[p][i] \in Requests /\ backlog[p][i] # c
  BY <1>3, <1>8 DEF CallsTravelOnce
<1>11. \A p \in Procs : \A i \in DOMAIN queue'[p] :
         /\ call'[queue'[p][i]].stage \in Past
         /\ call'[queue'[p][i]].token = p
         /\ call'[queue'[p][i]].reply # "rejected"
  <2>1. call'[c].reply # "rejected"
    BY <1>4, <1>5
  <2>2. \A p \in Procs : \A k \in DOMAIN queue[p] : queue[p][k] = c => p = q
    BY <1>4 DEF CallsTravelOnce
  <2>3. ASSUME NEW p \in Procs, NEW i \in DOMAIN queue'[p]
        PROVE  /\ call'[queue'[p][i]].stage \in Past
               /\ call'[queue'[p][i]].token = p
               /\ call'[queue'[p][i]].reply # "rejected"
    <3>1. PICK k \in DOMAIN queue[p] : queue'[p][i] = queue[p][k] /\ queue[p][k] \in Requests
      BY <1>9
    <3>2. CASE queue[p][k] = c
      BY <1>5, <2>1, <2>2, <3>1, <3>2
    <3>3. CASE queue[p][k] # c
      BY <1>2, <3>1, <3>3 DEF CallsTravelOnce
    <3> QED
      BY <3>2, <3>3
  <2> QED
    BY <2>3
<1>12. backlog' = backlog
  BY <1>2
<1>13. \A p \in Procs : \A i \in DOMAIN backlog'[p] :
         /\ call'[backlog'[p][i]].stage \in Past
         /\ call'[backlog'[p][i]].ran = NoOne
         /\ call'[backlog'[p][i]].reply # "rejected"
  BY <1>2, <1>10, <1>12 DEF CallsTravelOnce
<1>14. \A p, r \in Procs : \A i \in DOMAIN backlog'[p], j \in DOMAIN queue'[r] :
         backlog'[p][i] # queue'[r][j]
  BY <1>9, <1>12 DEF CallsTravelOnce
<1>15. \A d \in Requests : call'[d].stage \notin Past => call'[d].ran = NoOne /\ call'[d].reply = "none"
  BY <1>2, <1>5 DEF CallsTravelOnce
<1>16. \A p, r \in Procs : \A i \in DOMAIN backlog'[p], j \in DOMAIN backlog'[r] :
         backlog'[p][i] = backlog'[r][j] => p = r /\ i = j
  BY <1>12 DEF CallsTravelOnce
<1> QED
  BY <1>7, <1>11, <1>13, <1>14, <1>15, <1>16 DEF CallsTravelOnce

LEMMA AnswersStep ==
  ASSUME TypeOK, CallsTravelOnce, AnswersAreTrue, [Next]_vars
  PROVE  CallsTravelOnce' /\ AnswersAreTrue'
<1>1. CASE ~(\E q \in Procs : Special(q)) /\ ~\E c \in Requests : Connects(c)
  BY <1>1, CallsMoveOn, CallsStayOnce
<1>2. ASSUME NEW q \in Procs, Special(q) PROVE CallsTravelOnce' /\ AnswersAreTrue'
  BY <1>2, AcceptsOnce, RunsOnce DEF Special
<1> QED
  BY <1>1, <1>2, ConnectsOnce

-----------------------------------------------------------------------------
(* The files and the stages of the processes.                              *)

\* What the other steps leave alone.
LEMMA OnlyTransits ==
  ASSUME [Next]_vars,
         ~\E p \in Procs : Launch(p) \/ LaunchStep(p) \/ ExitStep(p) \/ Crash(p)
  PROVE  UNCHANGED <<stage, tries, lock, record, port>>
BY DEF Next, vars, CommandReceived, TrayEvent, ServerStep, CallAccepted, CallTurnedAway,
   AnswerTimesOut, WindowStep, StatusRequested, ActionConfirmed, QuitConfirmed, WindowCloses,
   WindowHears, AgentActionFinished, QuitAgentFinished, CallStep, RecordRead, Connects, CallFails,
   files, server

LEMMA TriesStep ==
  ASSUME TypeOK, TriesAreLimited, [Next]_vars
  PROVE  TriesAreLimited'
<1> USE DEF TriesAreLimited
<1>1. stage \in [Procs -> Stages] /\ tries \in [Procs -> 0 .. 2]
  BY DEF TypeOK, FilesOK
<1>2. ASSUME NEW p \in Procs, Launch(p) \/ LaunchStep(p) PROVE TriesAreLimited'
  BY <1>1, <1>2 DEF Launch, LaunchStep, LockCreated, LockExists, FindsStale, RemovesLock,
     RemovesRecord, NoLock, FindsAgent, Publishes, Serves, StartFails, Moves
<1>3. ASSUME NEW p \in Procs, ExitStep(p) \/ Crash(p) PROVE TriesAreLimited'
  BY <1>1, <1>3 DEF ExitStep, AgentDropped, OwnRecordRemoved, OwnLockRemoved, ServerJoined, Crash, Moves
<1> QED
  BY <1>2, <1>3, OnlyTransits

\* Who is in transit when a process moves, if launches and exits take turns.
LEMMA StageMoves ==
  ASSUME TypeOK, ~Overlap, NEW p \in Procs, NEW to \in Stages, stage' = [stage EXCEPT ![p] = to],
         stage[p] \in InTransit \/ to \notin InTransit \/ Quiet(p), TurnsAreTaken
  PROVE  /\ \A q, r \in Procs : stage'[q] \in InTransit /\ stage'[r] \in InTransit => q = r
         /\ stage'[p] = to /\ \A q \in Procs : q # p => stage'[q] = stage[q]
BY DEF TypeOK, FilesOK, Quiet, TurnsAreTaken

\* What a step of a launch or an exit has to keep: an Agent has a port, nobody lives
\* beside one that removes files, and the one that lives is named by them.
Harmless ==
  /\ \A p, q \in Procs :
       stage[p] \in {"stale", "unlocked", "dropped", "unrecorded"} => stage[q] \notin Living
  /\ \A p \in Procs : stage[p] \in {"starting", "serving"} => port[p] # NoOne
  /\ \A p \in Procs : stage[p] \in Living =>
       /\ \A q \in Procs \ {p} : stage[q] \notin Living
       /\ lock = p
       /\ stage[p] # "acquired" => record = [agent |-> p, port |-> port[p]]

LEMMA LaunchIsHarmless ==
  ASSUME TypeOK, ~Overlap, TurnsAreTaken, OneReachableAgent, NEW p \in Procs,
         Launch(p) \/ LaunchStep(p)
  PROVE  (TurnsAreTaken /\ OneReachableAgent)'
<1>1. Harmless
  BY DEF Harmless, TurnsAreTaken, OneReachableAgent
<1>2. \E to \in Stages : stage' = [stage EXCEPT ![p] = to]
                         /\ (stage[p] \in InTransit \/ to \notin InTransit \/ Quiet(p))
  BY DEF Launch, LaunchStep, LockCreated, LockExists, FindsStale, RemovesLock, RemovesRecord, NoLock,
     FindsAgent, Publishes, Serves, StartFails, Moves, Stages, InTransit, Deciding, Departing
<1>3. PICK to \in Stages :
        /\ \A q, r \in Procs : stage'[q] \in InTransit /\ stage'[r] \in InTransit => q = r
        /\ stage'[p] = to /\ \A q \in Procs : q # p => stage'[q] = stage[q]
  BY <1>2, StageMoves
<1>4. \A q \in Procs : stage[q] \in {"acquired", "starting"} => stage[q] \in InTransit /\ stage[q] \in Living
  BY DEF InTransit, Living
<1>5. Harmless'
  <2>1. CASE Launch(p) \/ LockExists(p) \/ NoLock(p) \/ FindsAgent(p)
    BY <1>1, <1>3, <2>1 DEF Harmless, Living, Launch, LockExists, NoLock, FindsAgent, Moves, files,
       server, TypeOK, FilesOK
  <2>2. CASE LockCreated(p)
    <3>1. \A q \in Procs : stage[q] \notin Living
      BY <1>1, <2>2 DEF Harmless, LockCreated
    <3>2. stage[p] = "acquiring" /\ stage'[p] = "acquired" /\ lock' = p
      BY <2>2 DEF LockCreated, Moves, TypeOK, FilesOK
    <3>3. \A q \in Procs : q # p => stage[q] \notin InTransit
      BY <3>2 DEF TurnsAreTaken, InTransit, Deciding
    <3>4. \A q \in Procs : q # p => stage'[q] \notin Living
                                  /\ stage'[q] \notin {"stale", "unlocked", "dropped", "unrecorded"}
      BY <1>3, <3>1, <3>3 DEF InTransit, Deciding, Departing
    <3> QED
      BY <3>2, <3>4 DEF Harmless, Living
  <2>3. CASE FindsStale(p)
    <3>1. /\ stage[p] = "found" /\ stage'[p] = "stale" /\ UNCHANGED <<lock, record, port>>
          /\ record # NoOne => ~Running(record.agent)
      BY <2>3 DEF FindsStale, Moves, files, server, TypeOK, FilesOK
    <3>2. \A q \in Procs : q # p => stage[q] \notin InTransit
      BY <3>1 DEF TurnsAreTaken, InTransit, Deciding
    <3>3. ASSUME NEW q \in Procs, stage[q] \in Living PROVE FALSE
      <4>1. q # p
        BY <3>1, <3>3 DEF Living
      <4>2. stage[q] = "serving"
        BY <3>2, <3>3, <4>1 DEF Living, InTransit
      <4>3. record = [agent |-> q, port |-> port[q]] /\ port[q] \in Ports
        BY <1>1, <3>3, <4>2 DEF Harmless, TypeOK, ServerOK
      <4>4. record = NoOne
        BY <3>1, <4>2, <4>3 DEF Running
      <4> QED
        BY <4>3, <4>4 DEF Records
    <3> QED
      BY <1>3, <3>1, <3>3 DEF Harmless, Living
  <2>4. CASE RemovesLock(p) \/ RemovesRecord(p)
    BY <1>1, <1>3, <2>4 DEF Harmless, Living, RemovesLock, RemovesRecord, Moves, server, TypeOK, FilesOK
  <2>5. CASE Publishes(p)
    <3>1. PICK n \in Ports : port' = [port EXCEPT ![p] = n] /\ record' = [agent |-> p, port |-> n]
      BY <2>5 DEF Publishes
    <3>2. stage[p] = "acquired" /\ stage'[p] = "starting" /\ lock' = lock /\ port'[p] = n
      BY <2>5, <3>1 DEF Publishes, Moves, TypeOK, FilesOK, ServerOK
    <3> QED
      BY <1>1, <1>3, <3>1, <3>2 DEF Harmless, Living
  <2>6. CASE Serves(p)
    BY <1>1, <1>3, <2>6 DEF Harmless, Living, Serves, Moves, files, server, TypeOK, FilesOK
  <2>7. CASE StartFails(p)
    <3>1. stage[p] \in Living /\ stage'[p] = "dropped"
      BY <2>7 DEF StartFails, Living, TypeOK, FilesOK
    <3> QED
      BY <1>1, <1>3, <3>1 DEF Harmless, Living
  <2> QED
    BY <2>1, <2>2, <2>3, <2>4, <2>5, <2>6, <2>7 DEF LaunchStep
<1> QED
  BY <1>3, <1>5 DEF Harmless, TurnsAreTaken, OneReachableAgent

LEMMA ExitIsHarmless ==
  ASSUME TypeOK, ~Overlap, TurnsAreTaken, OneReachableAgent, NEW p \in Procs,
         ExitStep(p) \/ Crash(p)
  PROVE  (TurnsAreTaken /\ OneReachableAgent)'
<1>1. Harmless
  BY DEF Harmless, TurnsAreTaken, OneReachableAgent
<1>2. \E to \in Stages : stage' = [stage EXCEPT ![p] = to]
                         /\ (stage[p] \in InTransit \/ to \notin InTransit \/ Quiet(p))
  BY DEF ExitStep, AgentDropped, OwnRecordRemoved, OwnLockRemoved, ServerJoined, Crash, Moves, Stages,
     InTransit, Deciding, Departing
<1>3. PICK to \in Stages :
        /\ \A q, r \in Procs : stage'[q] \in InTransit /\ stage'[r] \in InTransit => q = r
        /\ stage'[p] = to /\ \A q \in Procs : q # p => stage'[q] = stage[q]
  BY <1>2, StageMoves
<1>4. \A q \in Procs : q # p => port'[q] = port[q]
  BY DEF ExitStep, AgentDropped, OwnRecordRemoved, OwnLockRemoved, ServerJoined, Crash, Hangup, server,
     TypeOK, ServerOK
<1>5. Harmless'
  <2>1. CASE AgentDropped(p)
    <3>1. stage[p] = "serving" /\ stage'[p] = "dropped" /\ UNCHANGED <<lock, record>>
      BY <2>1 DEF AgentDropped, Moves, files, TypeOK, FilesOK
    <3> QED
      BY <1>1, <1>3, <3>1 DEF Harmless, Living
  <2>2. CASE OwnRecordRemoved(p) \/ OwnLockRemoved(p)
    <3>1. stage[p] \in {"dropped", "unrecorded"} /\ stage'[p] \in {"unrecorded", "joining"}
      BY <2>2 DEF OwnRecordRemoved, OwnLockRemoved, Moves, TypeOK, FilesOK
    <3> QED
      BY <1>1, <1>3, <3>1 DEF Harmless, Living
  <2>3. CASE ServerJoined(p) \/ Crash(p)
    <3>1. stage'[p] \in {"left", "crashed"} /\ UNCHANGED <<lock, record>>
      BY <2>3 DEF ServerJoined, Crash, Moves, files, TypeOK, FilesOK
    <3> QED
      BY <1>1, <1>3, <1>4, <3>1 DEF Harmless, Living
  <2> QED
    BY <2>1, <2>2, <2>3 DEF ExitStep
<1> QED
  BY <1>3, <1>5 DEF Harmless, TurnsAreTaken, OneReachableAgent

LEMMA TurnsStep ==
  ASSUME TypeOK, TurnsAreTaken, OneReachableAgent, [Next]_vars
  PROVE  (TurnsAreTaken /\ OneReachableAgent)'
<1>1. CASE Overlap
  BY <1>1 DEF TurnsAreTaken, OneReachableAgent
<1>2. CASE ~Overlap /\ \E p \in Procs : Launch(p) \/ LaunchStep(p) \/ ExitStep(p) \/ Crash(p)
  BY <1>2, LaunchIsHarmless, ExitIsHarmless
<1>3. CASE ~\E p \in Procs : Launch(p) \/ LaunchStep(p) \/ ExitStep(p) \/ Crash(p)
  <2>1. UNCHANGED <<stage, lock, record, port>>
    BY <1>3, OnlyTransits
  <2> QED
    BY <2>1 DEF TurnsAreTaken, OneReachableAgent
<1> QED
  BY <1>1, <1>2, <1>3

LEMMA InvInit ==
  ASSUME Init
  PROVE  IInv
<1>1. TypeOK
  <2>1. FilesOK
    BY DEF Init, FilesOK, Stages
  <2>2. ServerOK
    BY DEF Init, ServerOK
  <2>3. EffectsOK
    BY DEF Init, EffectsOK, Windows, Closed
  <2>4. CallsOK
    BY DEF Init, CallsOK, CallRecords, Unused, Commands, Replies
  <2> QED
    BY <2>1, <2>2, <2>3, <2>4 DEF TypeOK
<1>2. TriesAreLimited /\ TurnsAreTaken /\ OneReachableAgent
  BY DEF Init, TriesAreLimited, TurnsAreTaken, OneReachableAgent, InTransit, Deciding, Departing, Living
<1>3. \A c \in Requests : call[c] = Unused
  BY DEF Init
<1>4. \A q \in Procs : DOMAIN backlog[q] = {} /\ DOMAIN queue[q] = {}
  BY DEF Init
<1>5. CallsTravelOnce /\ AnswersAreTrue
  BY <1>3, <1>4 DEF CallsTravelOnce, AnswersAreTrue, Unused
<1> QED
  BY <1>1, <1>2, <1>5 DEF IInv

\* The invariant of the processes of the App, for any of them.
THEOREM ControlInvariance == Spec => []IInv
<1>1. IInv /\ [Next]_vars => IInv'
  BY TypeStep, TriesStep, TurnsStep, AnswersStep DEF IInv
<1> QED
  BY InvInit, <1>1, PTL DEF Spec

\* Every variable has its type, whatever overlaps.
THEOREM ControlTypes == Spec => []TypeOK
<1>1. IInv => TypeOK
  BY DEF IInv
<1> QED
  BY ControlInvariance, <1>1, PTL

\* Launches and exits that take turns never leave two Agents, nor one that the record
\* does not lead to.
THEOREM OneAgent == Spec => []OneReachableAgent
<1>1. IInv => OneReachableAgent
  BY DEF IInv
<1> QED
  BY ControlInvariance, <1>1, PTL

\* What a caller is told is what happened, whatever overlaps.
THEOREM TrueAnswers == Spec => []AnswersAreTrue
<1>1. IInv => AnswersAreTrue
  BY DEF IInv
<1> QED
  BY ControlInvariance, <1>1, PTL
=============================================================================
