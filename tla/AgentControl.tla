---------------------------- MODULE AgentControl ----------------------------
(***************************************************************************)
(* The processes of the desktop App (src/src/agent.rs, src/src/ui.rs): a   *)
(* launch takes the lock file or becomes a client of the Agent that holds  *)
(* it; the Agent publishes its control address and token in a record, one  *)
(* thread serves the control connections one at a time and hands their     *)
(* commands to the event loop; settings windows call it and can be killed  *)
(* by it; a quit drops the Agent's parts one after the other.              *)
(*                                                                         *)
(* A process is launched once: a relaunch is another member of Procs.  The *)
(* pid and the random token of a process are the process itself.  The      *)
(* window an Agent opens is named by that Agent.                           *)
(***************************************************************************)
EXTENDS Naturals, Sequences, FiniteSets

CONSTANTS Procs,    \* the processes a launch of the App creates
          Calls,    \* the requests of the settings windows
          Ports,    \* the loopback ports the system hands out
          NoOne,
          Overlap   \* may a launch run while another starts or leaves?

\* What agent.json holds.
Records == [agent : Procs, port : Ports]

ASSUME ControlAssumption ==
    /\ NoOne \notin Procs \cup Calls \cup Ports \cup Records
    /\ Procs \cap Calls = {}
    /\ Ports # {}
    /\ Overlap \in BOOLEAN

VARIABLES stage,    \* of each process
          tries,    \* the attempts to take the lock a launch has made
          lock,     \* agent.lock: the process that created it
          record,   \* agent.json: the Agent that wrote it, and its port
          port,     \* the port of each control listener
          backlog,  \* the connections a listener has not accepted
          worker,   \* the call the control thread waits for
          queue,    \* the commands the event loop has not received
          exits,    \* exit_requested
          engine,   \* does the Agent run its DNS engine?
          window,   \* the settings window each Agent opened
          call      \* the control requests

vars == <<stage, tries, lock, record, port, backlog, worker, queue, exits,
          engine, window, call>>
files   == <<lock, record>>
server  == <<port, backlog, worker, queue>>
effects == <<exits, engine, window>>
-----------------------------------------------------------------------------
Deciding  == {"acquiring", "found", "stale", "unlocked"}
Departing == {"dropped", "unrecorded", "joining"}
InTransit == Deciding \cup {"acquired", "starting"} \cup Departing
Stages    == InTransit \cup {"unborn", "serving", "client", "left", "crashed"}
\* A launch that finds an Agent makes one request, which it gives its name.
Requests == Calls \cup Procs
Commands  == {"Status", "OpenUi", "Start", "Stop", "Quit"}

Closed == [open |-> FALSE, acting |-> NoOne, quitting |-> NoOne]
Opened == [Closed EXCEPT !.open = TRUE]
Unused == [stage |-> "unused", command |-> "Status", token |-> NoOne,
           port |-> NoOne, reply |-> "none", ran |-> NoOne]

Init ==
    /\ stage = [p \in Procs |-> "unborn"]
    /\ tries = [p \in Procs |-> 0]
    /\ lock = NoOne
    /\ record = NoOne
    /\ port = [p \in Procs |-> NoOne]
    /\ backlog = [p \in Procs |-> <<>>]
    /\ worker = [p \in Procs |-> NoOne]
    /\ queue = [p \in Procs |-> <<>>]
    /\ exits = [p \in Procs |-> FALSE]
    /\ engine = [p \in Procs |-> FALSE]
    /\ window = [p \in Procs |-> Closed]
    /\ call = [c \in Requests |-> Unused]

\* Launches and exits that take turns: what Overlap = FALSE assumes of the
\* people and the login items that start the App.
Quiet(p) == Overlap \/ \A q \in Procs \ {p} : stage[q] \notin InTransit

Moves(p, from, to) == stage[p] = from /\ stage' = [stage EXCEPT ![p] = to]

\* remove_file, whose error the callers ignore.
Removing(file) == {NoOne, file}

Running(p) == stage[p] \notin {"unborn", "client", "left", "crashed"}
-----------------------------------------------------------------------------
(* AgentLock::acquire *)

Launch(p) ==
    /\ Moves(p, "unborn", "acquiring")
    /\ Quiet(p)
    /\ UNCHANGED <<tries, files, server, effects, call>>

LockCreated(p) ==
    /\ tries[p] < 2
    /\ lock = NoOne
    /\ Moves(p, "acquiring", "acquired")
    /\ lock' = p
    /\ UNCHANGED <<tries, record, server, effects, call>>

LockExists_thrice(p) ==
    /\ lock # NoOne
    /\ Moves(p, "acquiring", "found")
    /\ UNCHANGED <<tries, files, server, effects, call>>

LockExists(p) ==
    /\ tries[p] < 2
    /\ lock # NoOne
    /\ Moves(p, "acquiring", "found")
    /\ UNCHANGED <<tries, files, server, effects, call>>

FindsStale_always(p) ==
    /\ Moves(p, "found", "stale")
    /\ UNCHANGED <<tries, files, server, effects, call>>

\* `kill -0' only says that some process has the pid of the record.
FindsStale(p) ==
    /\ record # NoOne => ~Running(record.agent)
    /\ Moves(p, "found", "stale")
    /\ UNCHANGED <<tries, files, server, effects, call>>

RemovesLock(p) ==
    /\ Moves(p, "stale", "unlocked")
    /\ lock' \in Removing(lock)
    /\ UNCHANGED <<tries, record, server, effects, call>>

RemovesRecord(p) ==
    /\ Moves(p, "unlocked", "acquiring")
    /\ record' \in Removing(record)
    /\ tries' = [tries EXCEPT ![p] = @ + 1]
    /\ UNCHANGED <<lock, server, effects, call>>

NoLock(p) ==
    /\ tries[p] = 2
    /\ Moves(p, "acquiring", "left")
    /\ UNCHANGED <<tries, files, server, effects, call>>
-----------------------------------------------------------------------------
(* run_agent *)

Publishes(p) ==
    /\ Moves(p, "acquired", "starting")
    /\ \E n \in Ports \ {port[q] : q \in Procs} :
        /\ port' = [port EXCEPT ![p] = n]
        /\ record' = [agent |-> p, port |-> n]
    /\ UNCHANGED <<tries, lock, backlog, worker, queue, effects, call>>

\* Agent::new starts the engine if the configuration allows it, and the window
\* is opened unless the App was started at login.
Serves(p) ==
    /\ Moves(p, "starting", "serving")
    /\ engine' \in {engine, [engine EXCEPT ![p] = TRUE]}
    /\ window' \in {window, [window EXCEPT ![p] = Opened]}
    /\ UNCHANGED <<tries, files, server, exits, call>>

\* An early return of run_agent drops the lock and the control server.
StartFails(p) ==
    /\ stage[p] \in {"acquired", "starting"}
    /\ stage' = [stage EXCEPT ![p] = "dropped"]
    /\ UNCHANGED <<tries, files, server, effects, call>>

OpensWindow(q) == IF window[q].open THEN window[q] ELSE Opened

\* handle_command: a Status succeeds; whether the others do is up to the
\* configuration, the authorization of the user, and the system.
Handles(q, command, ok) ==
    /\ command = "Status" => ok
    /\ engine' = [engine EXCEPT ![q] = IF ok /\ command \in {"Start", "Stop", "Quit"}
                                       THEN command = "Start" ELSE @]
    /\ exits' = [exits EXCEPT ![q] = @ \/ (ok /\ command = "Quit")]
    /\ window' = [window EXCEPT ![q] = IF ok /\ command = "OpenUi"
                                       THEN OpensWindow(q) ELSE @]

\* What the caller reads, unless it has stopped waiting.
Ended(c, reply) ==
    IF call[c].stage = "sent"
    THEN [call[c] EXCEPT !.stage = "ended", !.reply = reply] ELSE call[c]

\* The event loop receives a command; the answer goes to the control thread
\* if that still waits for it.
CommandReceived(q) ==
    /\ stage[q] = "serving"
    /\ queue[q] # <<>>
    /\ LET c == Head(queue[q])
           Answered(reply) == IF worker[q] = c THEN Ended(c, reply) ELSE call[c]
       IN \E ok \in BOOLEAN :
            /\ Handles(q, call[c].command, ok)
            /\ call' = [call EXCEPT ![c] =
                          [Answered(IF ok THEN "ok" ELSE "failed") EXCEPT !.ran = q]]
            /\ worker' = [worker EXCEPT ![q] = IF @ = c THEN NoOne ELSE @]
    /\ queue' = [queue EXCEPT ![q] = Tail(@)]
    /\ UNCHANGED <<stage, tries, files, port, backlog>>

\* A click in the menu bar.
TrayEvent(q) ==
    /\ stage[q] = "serving"
    /\ \E command \in Commands \ {"Status"}, ok \in BOOLEAN : Handles(q, command, ok)
    /\ UNCHANGED <<stage, tries, files, server, call>>
-----------------------------------------------------------------------------
(* The end of the event loop: Drop for Agent, then for its fields in order. *)

AgentDropped(q) ==
    /\ exits[q]
    /\ Quiet(q)
    /\ Moves(q, "serving", "dropped")
    /\ engine' = [engine EXCEPT ![q] = FALSE]
    /\ window' = [window EXCEPT ![q] = Closed]
    /\ UNCHANGED <<tries, files, server, exits, call>>

OwnRecordRemoved(q) ==
    /\ Moves(q, "dropped", "unrecorded")
    /\ record' \in Removing(record)
    /\ UNCHANGED <<tries, lock, server, effects, call>>

OwnLockRemoved(q) ==
    /\ Moves(q, "unrecorded", "joining")
    /\ lock' \in Removing(lock)
    /\ UNCHANGED <<tries, record, server, effects, call>>

\* The listener is closed: the calls that wait for it are reset.
Hangup(q) ==
    /\ port' = [port EXCEPT ![q] = NoOne]
    /\ backlog' = [backlog EXCEPT ![q] = <<>>]
    /\ worker' = [worker EXCEPT ![q] = NoOne]
    /\ queue' = [queue EXCEPT ![q] = <<>>]
    /\ call' = [c \in Requests |->
                  IF c = worker[q] \/ \E i \in DOMAIN backlog[q] : backlog[q][i] = c
                  THEN Ended(c, "failed") ELSE call[c]]

ServerJoined(q) ==
    /\ Moves(q, "joining", "left")
    /\ worker[q] = NoOne
    /\ Hangup(q)
    /\ UNCHANGED <<tries, files, effects>>

\* A kill, a power loss or a panic: nothing is dropped, and the window lives on.
Crash(q) ==
    /\ Running(q)
    /\ stage' = [stage EXCEPT ![q] = "crashed"]
    /\ engine' = [engine EXCEPT ![q] = FALSE]
    /\ Hangup(q)
    /\ UNCHANGED <<tries, files, exits, window>>
-----------------------------------------------------------------------------
(* ControlServer: one thread, one connection at a time. *)

Accepting(q) ==
    /\ stage[q] \in {"starting", "serving", "dropped", "unrecorded"}
    /\ backlog[q] # <<>>
    /\ worker[q] = NoOne
    /\ backlog' = [backlog EXCEPT ![q] = Tail(@)]

Authentic_any(q, c) == TRUE
Authentic(q, c) == call[c].token = q

CallAccepted(q) ==
    /\ Accepting(q)
    /\ LET c == Head(backlog[q])
       IN /\ Authentic(q, c)
          /\ queue' = [queue EXCEPT ![q] = Append(@, c)]
          /\ worker' = [worker EXCEPT ![q] = c]
    /\ UNCHANGED <<stage, tries, files, port, effects, call>>

\* The receiver goes with the event loop's closure, before or after the Agent.
CallTurnedAway(q) ==
    /\ Accepting(q)
    /\ LET c == Head(backlog[q])
       IN /\ Authentic(q, c) => stage[q] \in Departing
          /\ call' = [call EXCEPT ![c] = Ended(c, "rejected")]
    /\ UNCHANGED <<stage, tries, files, port, worker, queue, effects>>

AnswerTimesOut_serving(q) ==
    /\ stage[q] = "serving"
    /\ worker[q] # NoOne
    /\ call' = [call EXCEPT ![worker[q]] = Ended(worker[q], "timeout")]
    /\ worker' = [worker EXCEPT ![q] = NoOne]
    /\ UNCHANGED <<stage, tries, files, port, backlog, queue, effects>>

\* recv_timeout: 70 seconds, or the end of the channel.
AnswerTimesOut(q) ==
    /\ worker[q] # NoOne
    /\ call' = [call EXCEPT ![worker[q]] = Ended(worker[q], "timeout")]
    /\ worker' = [worker EXCEPT ![q] = NoOne]
    /\ UNCHANGED <<stage, tries, files, port, backlog, queue, effects>>
-----------------------------------------------------------------------------
(* AgentClient::request *)

Begins(c, command) ==
    /\ call[c].stage = "unused"
    /\ call' = [call EXCEPT ![c].stage = "begun", ![c].command = command]

\* start_or_open: the lock is held by a process that seems to be alive.
FindsAgent(p) ==
    /\ record # NoOne
    /\ Moves(p, "found", "client")
    /\ \E command \in {"OpenUi", "Status"} : Begins(p, command)
    /\ UNCHANGED <<tries, files, server, effects>>

RecordRead(c) ==
    /\ call[c].stage = "begun"
    /\ call' = [call EXCEPT ![c] =
                  IF record = NoOne
                  THEN [@ EXCEPT !.stage = "ended", !.reply = "failed"]
                  ELSE [@ EXCEPT !.stage = "connecting", !.token = record.agent,
                                 !.port = record.port]]
    /\ UNCHANGED <<stage, tries, files, server, effects>>

Connects(c) ==
    /\ call[c].stage = "connecting"
    /\ \E q \in Procs :
        /\ port[q] = call[c].port
        /\ backlog' = [backlog EXCEPT ![q] = Append(@, c)]
    /\ call' = [call EXCEPT ![c].stage = "sent"]
    /\ UNCHANGED <<stage, tries, files, port, worker, queue, effects>>

\* No listener any more, no answer in time, or the caller ends.
CallFails(c) ==
    /\ \/ call[c].stage = "connecting" /\ \A q \in Procs : port[q] # call[c].port
       \/ call[c].stage = "sent"
    /\ call' = [call EXCEPT ![c].stage = "ended", ![c].reply = "failed"]
    /\ UNCHANGED <<stage, tries, files, server, effects>>
-----------------------------------------------------------------------------
(* The settings window (EdgeSteerUi::update). *)

MayConfirm(w) == window[w].acting = NoOne /\ window[w].quitting = NoOne

StatusRequested(w) ==
    /\ window[w].open
    /\ \E c \in Calls : Begins(c, "Status")
    /\ UNCHANGED <<stage, tries, files, server, effects>>

ActionConfirmed(w) ==
    /\ window[w].open
    /\ MayConfirm(w)
    /\ \E c \in Calls, command \in {"Start", "Stop"} :
        /\ Begins(c, command)
        /\ window' = [window EXCEPT ![w].acting = c]
    /\ UNCHANGED <<stage, tries, files, server, exits, engine>>

QuitConfirmed(w) ==
    /\ window[w].open
    /\ MayConfirm(w)
    /\ \E c \in Calls :
        /\ Begins(c, "Quit")
        /\ window' = [window EXCEPT ![w].quitting = c]
    /\ UNCHANGED <<stage, tries, files, server, exits, engine>>

AgentActionFinished(w) ==
    /\ window[w].acting # NoOne
    /\ call[window[w].acting].stage = "ended"
    /\ window' = [window EXCEPT ![w].acting = NoOne]
    /\ UNCHANGED <<stage, tries, files, server, exits, engine, call>>

QuitAgentFinished(w) ==
    /\ window[w].quitting # NoOne
    /\ call[window[w].quitting].stage = "ended"
    /\ window' = [window EXCEPT ![w] = IF call[window[w].quitting].reply = "ok"
                                       THEN Closed ELSE [@ EXCEPT !.quitting = NoOne]]
    /\ UNCHANGED <<stage, tries, files, server, exits, engine, call>>

WindowCloses(w) ==
    /\ window[w].open
    /\ window' = [window EXCEPT ![w] = Closed]
    /\ UNCHANGED <<stage, tries, files, server, exits, engine, call>>
-----------------------------------------------------------------------------
LaunchStep(p) ==
    \/ LockCreated(p) \/ LockExists(p) \/ FindsStale(p) \/ RemovesLock(p)
    \/ RemovesRecord(p) \/ NoLock(p) \/ FindsAgent(p)
    \/ Publishes(p) \/ Serves(p) \/ StartFails(p)

ExitStep(q) ==
    \/ AgentDropped(q) \/ OwnRecordRemoved(q) \/ OwnLockRemoved(q) \/ ServerJoined(q)

ServerStep(q) == CallAccepted(q) \/ CallTurnedAway(q)

CallStep(c) == RecordRead(c) \/ Connects(c)

WindowStep(w) ==
    StatusRequested(w) \/ ActionConfirmed(w) \/ QuitConfirmed(w) \/ WindowCloses(w)

WindowHears(w) == AgentActionFinished(w) \/ QuitAgentFinished(w)

Next ==
    \/ \E p \in Procs :
        \/ Launch(p) \/ LaunchStep(p) \/ Crash(p)
        \/ CommandReceived(p) \/ TrayEvent(p) \/ ExitStep(p)
        \/ ServerStep(p) \/ AnswerTimesOut(p)
        \/ WindowStep(p) \/ WindowHears(p)
    \/ \E c \in Requests : CallStep(c) \/ CallFails(c)

Spec == Init /\ [][Next]_vars

\* Processes that run take their steps, the event loop leaves once it was told
\* to, the timeouts of both ends of a connection expire, and a window receives its
\* messages.  No fairness for launches, commands, clicks and crashes.
Fairness ==
    /\ \A p \in Procs : /\ WF_vars(LaunchStep(p)) /\ WF_vars(ExitStep(p))
                        /\ WF_vars(ServerStep(p)) /\ WF_vars(AnswerTimesOut(p))
                        /\ WF_vars(WindowHears(p))
    /\ \A c \in Requests : WF_vars(CallStep(c)) /\ WF_vars(CallFails(c))

FairSpec == Spec /\ Fairness
-----------------------------------------------------------------------------
Replies == {"none", "ok", "failed", "timeout", "rejected"}
Windows == [open : BOOLEAN, acting : Calls \cup {NoOne}, quitting : Calls \cup {NoOne}]
CallRecords ==
    [stage : {"unused", "begun", "connecting", "sent", "ended"}, command : Commands,
     token : Procs \cup {NoOne}, port : Ports \cup {NoOne}, reply : Replies,
     ran : Procs \cup {NoOne}]

FilesOK ==
    /\ stage \in [Procs -> Stages]
    /\ tries \in [Procs -> 0..2]
    /\ lock \in Procs \cup {NoOne}
    /\ record \in Records \cup {NoOne}
ServerOK ==
    /\ port \in [Procs -> Ports \cup {NoOne}]
    /\ \A p, q \in Procs : p # q /\ port[p] = port[q] => port[p] = NoOne
    /\ backlog \in [Procs -> Seq(Requests)]
    /\ worker \in [Procs -> Requests \cup {NoOne}]
    /\ queue \in [Procs -> Seq(Requests)]
EffectsOK ==
    /\ exits \in [Procs -> BOOLEAN]
    /\ engine \in [Procs -> BOOLEAN]
    /\ window \in [Procs -> Windows]
CallsOK == call \in [Requests -> CallRecords]

TypeOK == FilesOK /\ ServerOK /\ EffectsOK /\ CallsOK

\* The stages of an Agent that has the lock and has not begun to leave.
Living == {"acquired", "starting", "serving"}

\* Launches and exits that take turns, and crashes at any moment, never leave
\* two Agents, and the record on disk always leads to the one that serves
\* (AgentLock::acquire takes over a lock only from a process that is gone).
OneReachableAgent ==
    ~Overlap =>
        \A p \in Procs : stage[p] \in Living =>
            /\ \A q \in Procs \ {p} : stage[q] \notin Living
            /\ lock = p
            /\ stage[p] # "acquired" => record = [agent |-> p, port |-> port[p]]

\* Only the Agent whose record a caller read ever runs its command, even when
\* another listens on the port by then; a success is told only for a command
\* that ran, a refusal only for one that never will, and an Agent that
\* confirmed a quit is bound to leave.
AnswersAreTrue ==
    \A c \in Requests :
        /\ call[c].ran \in {NoOne, call[c].token}
        /\ call[c].reply = "ok" => /\ call[c].ran # NoOne
                                   /\ call[c].command = "Quit" => exits[call[c].ran]
        /\ call[c].reply = "rejected" => call[c].ran = NoOne

(* The parts that make the two invariants inductive. *)

TriesAreLimited ==
    \A p \in Procs : stage[p] \in {"found", "stale", "unlocked"} => tries[p] < 2

\* One process at a time comes or goes; nobody removes the files of a living Agent, and
\* one that has published them listens.
TurnsAreTaken ==
    ~Overlap =>
        /\ \A p, q \in Procs : stage[p] \in InTransit /\ stage[q] \in InTransit => p = q
        /\ \A p, q \in Procs :
             stage[p] \in {"stale", "unlocked", "dropped", "unrecorded"} => stage[q] \notin Living
        /\ \A p \in Procs : stage[p] \in {"starting", "serving"} => port[p] # NoOne

\* A call waits in one place of one listener, where it has not run yet, or has passed on
\* to the queue of the Agent it names; only a call that waits can be turned away.
Past == {"sent", "ended"}

CallsTravelOnce ==
    /\ \A c \in Requests : call[c].stage \notin Past => call[c].ran = NoOne /\ call[c].reply = "none"
    /\ \A q \in Procs : \A i \in DOMAIN backlog[q] :
         /\ call[backlog[q][i]].stage \in Past
         /\ call[backlog[q][i]].ran = NoOne
         /\ call[backlog[q][i]].reply # "rejected"
    /\ \A q, r \in Procs : \A i \in DOMAIN backlog[q], j \in DOMAIN backlog[r] :
         backlog[q][i] = backlog[r][j] => q = r /\ i = j
    /\ \A q, r \in Procs : \A i \in DOMAIN backlog[q], j \in DOMAIN queue[r] :
         backlog[q][i] # queue[r][j]
    /\ \A q \in Procs : \A i \in DOMAIN queue[q] :
         /\ call[queue[q][i]].stage \in Past
         /\ call[queue[q][i]].token = q
         /\ call[queue[q][i]].reply # "rejected"

IInv ==
    /\ TypeOK /\ TriesAreLimited
    /\ TurnsAreTaken /\ OneReachableAgent
    /\ CallsTravelOnce /\ AnswersAreTrue
-----------------------------------------------------------------------------
\* A launch decides, a call ends, a window can act again after what it asked
\* for, and a quit that was confirmed is carried out: the join of the control
\* thread does not wait for an answer that nobody is left to give.
NothingHangs ==
    /\ \A p \in Procs : /\ (stage[p] \in InTransit) ~> (stage[p] \notin InTransit)
                        /\ ~MayConfirm(p) ~> MayConfirm(p)
                        /\ exits[p] ~> (stage[p] \in {"left", "crashed"})
    /\ \A c \in Requests : (call[c].stage = "begun") ~> (call[c].stage = "ended")
=============================================================================
