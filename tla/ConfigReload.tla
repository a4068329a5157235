---------------------------- MODULE ConfigReload ----------------------------
(***************************************************************************)
(* The configuration file and the task that watches it (src/src/watcher.rs, *)
(* started by run_with_shutdown in src/src/lib.rs).  File events go into an *)
(* unbounded channel; the task takes one, sleeps 250 ms, drains the rest,   *)
(* loads the file and either rejects it or stores it as the new runtime and *)
(* wakes the background loops that wait for config_changed.                 *)
(*                                                                         *)
(* Events carry nothing, so the channel is a flag.  A file's content is a   *)
(* validated configuration or Broken (unreadable, half written, refused by  *)
(* FileConfig::validate for reasons other than the listener).               *)
(***************************************************************************)
EXTENDS Naturals

CONSTANTS
  Listeners,  \* socket addresses
  RuleConfigs,\* the rule_sets part of a configuration
  Files,      \* the configurations the file may hold
  Broken,     \* the content of a file that does not load
  None,       \* no value
  Loops,      \* background loops that select on config_changed.notified()
  MaxEdits    \* bound of the edits of the file

\* FileConfig: the address to bind, the listener addresses its layers send to,
\* whether it has static preferred addresses, the rule-set definitions.
Config == [listener : Listeners, forwards : SUBSET Listeners,
           preferred : BOOLEAN, rules : RuleConfigs]

ASSUME FilesOK  == Files \subseteq Config /\ Broken \notin Config /\ None \notin Config
ASSUME EditsOK  == MaxEdits \in Nat

VARIABLES
  file,    \* what the file holds
  edits,   \* how often it was edited
  seen,    \* history: its last edit came after the directory was watched
  pending, \* the channel holds an event
  watcher, \* where the watcher task is
  loaded,  \* the configuration it is about to store
  refused, \* history: the content rejected last, None after an accepted one
  runtime, \* state.runtime
  bound,   \* the address the sockets are bound to
  waiting, \* loops registered with config_changed
  woken    \* loops it has woken that did not run yet

fileVars   == <<file, edits, seen>>
notify     == <<waiting, woken>>
task       == <<watcher, loaded, refused>>
reloadVars == <<fileVars, pending, task, runtime, bound, notify>>

ReloadTypeOK ==
  /\ file \in Files \cup {Broken}
  /\ edits \in 0 .. MaxEdits
  /\ seen \in BOOLEAN
  /\ pending \in BOOLEAN
  /\ watcher \in {"starting", "idle", "settling", "reading", "swapping", "notifying"}
  /\ loaded \in Config \cup {None}
  /\ refused \in Files \cup {Broken, None}
  /\ runtime \in Config
  /\ bound \in Listeners
  /\ waiting \subseteq Loops
  /\ woken \subseteq Loops

\* LayerConfig::validate_network: no layer sends to the listener itself.
Forwards(c, listener) == listener \in c.forwards

\* run_with_shutdown has loaded and checked the file, the sockets are about to
\* be bound, and the directory is not watched yet.
ReloadInit ==
  /\ file \in {c \in Files : ~Forwards(c, c.listener)}
  /\ edits = 0 /\ seen = TRUE /\ pending = FALSE
  /\ watcher = "starting" /\ loaded = None /\ refused = None
  /\ runtime = file /\ bound = file.listener
  /\ waiting = {} /\ woken = {}
-----------------------------------------------------------------------------
(* The directory *)

\* Somebody saves the file; an editor may leave it empty for a moment.  Nobody
\* is told before the directory is watched.
FileEdited ==
  /\ edits < MaxEdits
  /\ edits' = edits + 1
  /\ \E c \in (Files \cup {Broken}) \ {file} : file' = c
  /\ seen' = (watcher # "starting")
  /\ pending' = (pending \/ seen')
  /\ UNCHANGED <<task, runtime, bound, notify>>

\* The watch is on the directory: another file in it raises events as well.
NeighbourTouched ==
  /\ watcher # "starting" /\ ~pending
  /\ pending' = TRUE
  /\ UNCHANGED <<fileVars, task, runtime, bound, notify>>
-----------------------------------------------------------------------------
(* The watcher task *)

DirectoryWatched ==
  /\ watcher = "starting"
  /\ watcher' = "idle"
  /\ UNCHANGED <<fileVars, pending, loaded, refused, runtime, bound, notify>>

EventReceived ==
  /\ watcher = "idle" /\ pending
  /\ watcher' = "settling" /\ pending' = FALSE
  /\ UNCHANGED <<fileVars, loaded, refused, runtime, bound, notify>>

EventsDrained ==
  /\ watcher = "settling"
  /\ watcher' = "reading" /\ pending' = FALSE
  /\ UNCHANGED <<fileVars, loaded, refused, runtime, bound, notify>>

\* The running configuration keeps the listener that is bound.
Adopted(c) ==
  [listener |-> runtime.listener, forwards |-> c.forwards,
   preferred |-> c.preferred, rules |-> c.rules]

\* Mutant: the second validation, for the listener that stays bound, is missing.
Accepts_oneListener(c) == c # Broken /\ ~Forwards(c, c.listener)

\* apply_hot_reload validates for the saved and for the running listener.
Accepts(c) ==
  /\ c # Broken
  /\ ~Forwards(c, c.listener)
  /\ ~Forwards(c, runtime.listener)

\* Static preferred addresses are checked against the ranges of the moment, which
\* another loop replaces: either outcome.
FileRejected ==
  /\ watcher = "reading"
  /\ Accepts(file) => file.preferred
  /\ watcher' = "idle" /\ loaded' = None /\ refused' = file
  /\ UNCHANGED <<fileVars, pending, runtime, bound, notify>>

FileLoaded ==
  /\ watcher = "reading" /\ Accepts(file)
  /\ watcher' = "swapping" /\ loaded' = Adopted(file) /\ refused' = None
  /\ UNCHANGED <<fileVars, pending, runtime, bound, notify>>

\* Mutant: the channel is drained after the load instead of before it.
RuntimeReplaced_drains ==
  /\ watcher = "swapping"
  /\ watcher' = "notifying" /\ runtime' = loaded /\ loaded' = None
  /\ pending' = FALSE
  /\ UNCHANGED <<fileVars, refused, bound, notify>>

RuntimeReplaced ==
  /\ watcher = "swapping"
  /\ watcher' = "notifying" /\ runtime' = loaded /\ loaded' = None
  /\ UNCHANGED <<fileVars, pending, refused, bound, notify>>

\* config_changed.notify_waiters(): reaches the loops that wait, stores nothing
\* for the others.
LoopsNotified ==
  /\ watcher = "notifying"
  /\ watcher' = "idle"
  /\ woken' = woken \cup waiting /\ waiting' = {}
  /\ UNCHANGED <<fileVars, pending, loaded, refused, runtime, bound>>

WatcherStep ==
  \/ DirectoryWatched \/ EventReceived \/ EventsDrained
  \/ FileLoaded \/ FileRejected \/ RuntimeReplaced \/ LoopsNotified

ReloadNext == FileEdited \/ NeighbourTouched \/ WatcherStep
-----------------------------------------------------------------------------
(* What a loop does with config_changed *)

Registers(loop) == waiting' = waiting \cup {loop} /\ UNCHANGED woken

\* Dropping or completing the future forgets its registration.
Leaves(loop) == waiting' = waiting \ {loop} /\ woken' = woken \ {loop}
-----------------------------------------------------------------------------
(* Properties *)

\* The running configuration never forwards to the socket the process is bound
\* to, whatever sequence of listener changes was saved: watcher.rs:67 validates a
\* second time for the old listener, because a reload cannot rebind it.
NeverForwardsToItself == runtime.listener = bound /\ ~Forwards(runtime, bound)

\* What makes NeverForwardsToItself inductive: so is the one about to be stored.
ReloadInv ==
  /\ NeverForwardsToItself
  /\ watcher = "swapping" =>
       /\ loaded \in Config
       /\ loaded.listener = bound /\ ~Forwards(loaded, bound)

\* Once the file is left alone it ends up either running, under the listener that
\* is bound, or reported as rejected: no event is lost between the drain and the
\* load (watcher.rs:44-47).  An edit between the load at start-up and the watch
\* (lib.rs:75-81) is not covered: nothing reports it.
FileIsApplied ==
  <>[](seen => (file # Broken /\ runtime = Adopted(file)) \/ refused = file)
=============================================================================
