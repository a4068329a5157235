------------------------------- MODULE SystemDns -------------------------------
(***************************************************************************)
(* Taking over the system DNS of macOS and giving it back: the Agent's      *)
(* commands (src/src/agent.rs), the record of the services taken over and    *)
(* the privileged commands (src/src/integration.rs), and the privileged DNS   *)
(* engine that outlives a killed Agent (src/src/bin/edgesteer-ui.rs).         *)
(*                                                                          *)
(* The listener is one loopback address on port 53, so the engine is a      *)
(* process of its own.  Commands come in any order: the menu bar and the    *)
(* Settings window offer them from the last status each of them has seen.   *)
(* An Agent runs one command at a time and blocks while its script waits    *)
(* for the user's authorization; services, the user, the engines and the    *)
(* scripts do not wait for it.  A script that is cancelled fails as a       *)
(* whole.  In a script that runs, networksetup may fail for a service: the  *)
(* commands are joined by && and followed by "|| true", so the rest is      *)
(* skipped and the script still succeeds.                                   *)
(*                                                                          *)
(* What may go wrong in a behaviour is fixed by its faults:                 *)
(*   "networksetup"  networksetup may fail to change a service              *)
(*   "toggle"        the user enables and disables services                 *)
(*   "edit"          the user sets the DNS of a service                     *)
(*   "race"          ... also while a script or an engine is changing some  *)
(*   "config"        the configuration file may fail to load                *)
(*   "crash"         an engine may die                                      *)
(*   "kill"          the Agent may be killed, or its event loop torn down   *)
(*   "orphan"        ... also while a script of its is running              *)
(*   "overlap"       a new Agent may start before the old engines are done  *)
(***************************************************************************)
EXTENDS Naturals, FiniteSets

CONSTANTS
  Services,     \* physical network services
  MaxAgents,    \* bound: how many Agents run, one after the other
  MaxChanges,   \* bound: how many changes the user makes to services
  Environments  \* the sets of faults considered

Faults == {"networksetup", "toggle", "edit", "race", "config", "crash", "kill", "orphan", "overlap"}
Agents == 1 .. MaxAgents

ASSUME BoundsOK       == MaxAgents \in Nat \ {0} /\ MaxChanges \in Nat
ASSUME EnvironmentsOK == Environments \subseteq SUBSET Faults

VARIABLES
  faults,   \* what may go wrong in this behaviour
  enabled,  \* enabled services
  dns,      \* DNS of each service: "auto", "ours" (only our listener),
            \* "loopback" (other loopback servers) or "manual"
  changes,  \* changes the user has made
  guard,    \* services named by the file system-dns.json; {}: there is no file
  agent,    \* up, its number, whether it holds an engine, the command in progress
  engine,   \* engine process of each Agent
  todo,     \* services a restoring engine has still to restore
  script,   \* privileged script of each Agent
  left,     \* services its networksetup commands have still to change
  to        \* what these commands set

system == <<enabled, dns, changes>>
engines == <<engine, todo>>
scripts == <<script, left, to>>
vars == <<faults, system, guard, agent, engines, scripts>>

Settings == {"auto", "ours", "loopback", "manual"}
Commands == {"enable", "disable", "stop", "quit", "drop"}
Me == agent.number
ParentGone(p) == ~(agent.up /\ Me = p)  \* what the engine's kill -0 of its parent tells

\* A network the user has set up; only EdgeSteer points services at its listener.
Init ==
  /\ faults \in Environments
  /\ enabled \in SUBSET Services
  /\ dns \in [Services -> Settings \ {"ours"}]
  /\ changes = 0
  /\ guard = {}
  /\ agent = [up |-> FALSE, number |-> 0, holds |-> FALSE, command |-> "none"]
  /\ engine = [p \in Agents |-> "off"]
  /\ todo = [p \in Agents |-> {}]
  /\ script = [p \in Agents |-> "none"]
  /\ left = [p \in Agents |-> {}]
  /\ to = [p \in Agents |-> "auto"]

\* load_config fails only when the file is bad.
Loads == IF "config" \in faults THEN BOOLEAN ELSE {TRUE}

-----------------------------------------------------------------------------
\* The Agent's life and the commands that do not touch the system DNS.

Agent(up, number, holds, command) ==
  agent' = [up |-> up, number |-> number, holds |-> holds, command |-> command]

Idle == agent.up /\ agent.command = "none"
Now(command) == Agent(TRUE, Me, agent.holds, command)

\* An Agent finds the record of its predecessor: the resolver is still needed.
IsManaged_forgotten == FALSE
IsManaged == guard # {}

AgentStarts ==
  /\ ~agent.up /\ Me < MaxAgents
  /\ "overlap" \in faults \/ \A p \in Agents : engine[p] = "off"
  /\ \E loads \in Loads :
       LET starts == loads /\ IsManaged
       IN  /\ Agent(TRUE, Me + 1, starts, "none")
           /\ engine' = [engine EXCEPT ![Me + 1] = IF starts THEN "prompt" ELSE "off"]
  /\ UNCHANGED <<faults, system, guard, todo, scripts>>

StartsEngine ==
  /\ Idle /\ ~agent.holds
  /\ Agent(TRUE, Me, TRUE, "none")
  /\ engine' = [engine EXCEPT ![Me] = "prompt"]
  /\ UNCHANGED <<faults, system, guard, todo, scripts>>

\* Stops without restoring; the file may have become bad before the second load.
RestartsEngine ==
  /\ Idle
  /\ \E loads \in Loads :
       /\ Agent(TRUE, Me, loads, "none")
       /\ engine' = [engine EXCEPT ![Me] = IF loads THEN "prompt" ELSE "off"]
  /\ UNCHANGED <<faults, system, guard, todo, scripts>>

-----------------------------------------------------------------------------
\* Enabling and restoring the system DNS.

HasManual == \E s \in enabled : dns[s] = "manual"
Targets_automatic == {s \in enabled : dns[s] = "auto"}
\* Mutant: services that are disabled are taken over, too.
Targets_disabled == {s \in Services : dns[s] \in {"auto", "ours"}}
Targets == {s \in enabled : dns[s] \in {"auto", "ours"}}
IsListening == \E p \in Agents : engine[p] = "serving"

RunsScript(command, services, setting) ==
  /\ Now(command)
  /\ script' = [script EXCEPT ![Me] = "prompt"]
  /\ left' = [left EXCEPT ![Me] = services]
  /\ to' = [to EXCEPT ![Me] = setting]

\* The record is written before any service is changed; it replaces the old one.
Enables ==
  /\ Idle /\ agent.holds /\ IsListening
  /\ ~HasManual /\ Targets # {}
  /\ guard' = Targets
  /\ LET new == {s \in Targets : dns[s] # "ours"}
     IN  IF new = {} THEN UNCHANGED <<agent, scripts>> ELSE RunsScript("enable", new, "ours")
  /\ UNCHANGED <<faults, system, engines>>

\* What follows a restoration, done or (when the Agent is dropped) given up.
Finishes(command) ==
  /\ Agent(command \notin {"quit", "drop"}, Me, agent.holds /\ command = "disable", "none")
  /\ engine' = [engine EXCEPT ![Me] = IF command = "disable" THEN @ ELSE "off"]
  /\ UNCHANGED todo

Owned_recorded == guard

\* Disabled services too: they would come back with a resolver that is gone.
Owned == {s \in guard : dns[s] = "ours"}

Restores(command) ==
  /\ Idle
  /\ \/ /\ Owned = {}
        /\ guard' = {}
        /\ Finishes(command)
        /\ UNCHANGED scripts
     \/ /\ Owned # {}
        /\ RunsScript(command, Owned, "auto")
        /\ UNCHANGED <<guard, engines>>
  /\ UNCHANGED <<faults, system>>

Disables  == Restores("disable")
StopsEngine == Restores("stop")
Quits     == Restores("quit")
IsDropped == "kill" \in faults /\ Restores("drop")

\* The Agent waits for the script of its command and takes note of how it ended.
ScriptRan == script[Me] = "running" /\ left[Me] = {}

ScriptIsOver ==
  /\ script' = [script EXCEPT ![Me] = "none"]
  /\ to' = [to EXCEPT ![Me] = "auto"]
  /\ UNCHANGED left

Enabled ==
  /\ agent.up /\ agent.command = "enable"
  /\ ScriptRan \/ script[Me] = "cancelled"
  /\ Now("none") /\ ScriptIsOver
  /\ UNCHANGED <<faults, system, guard, engines>>

\* The ownership record goes when the script has run.
Restored ==
  /\ agent.up /\ agent.command \in Commands \ {"enable"}
  /\ ScriptRan
  /\ guard' = {}
  /\ Finishes(agent.command) /\ ScriptIsOver
  /\ UNCHANGED <<faults, system>>

\* A restoration that failed keeps the record, and the engine unless the Agent is dropped.
NotRestored ==
  /\ agent.up /\ agent.command \in Commands \ {"enable"}
  /\ script[Me] = "cancelled"
  /\ ScriptIsOver
  /\ IF agent.command = "drop" THEN Finishes("drop") ELSE Now("none") /\ UNCHANGED engines
  /\ UNCHANGED <<faults, system, guard>>

AgentDies ==
  /\ "kill" \in faults /\ agent.up
  /\ "orphan" \in faults \/ agent.command = "none"
  /\ Agent(FALSE, Me, FALSE, "none")
  /\ UNCHANGED <<faults, system, guard, engines, scripts>>

-----------------------------------------------------------------------------
\* The scripts: osascript runs them apart from the Agent.

ScriptIsAuthorized(p) ==
  /\ script[p] = "prompt"
  /\ script' = [script EXCEPT ![p] = "running"]
  /\ UNCHANGED <<faults, system, guard, agent, engines, left, to>>

ScriptIsCancelled(p) ==
  /\ script[p] = "prompt"
  /\ script' = [script EXCEPT ![p] = "cancelled"]
  /\ left' = [left EXCEPT ![p] = {}]
  /\ UNCHANGED <<faults, system, guard, agent, engines, to>>

Sets(s, setting) ==
  /\ dns' = [dns EXCEPT ![s] = setting]
  /\ UNCHANGED <<enabled, changes>>

ScriptSets(p, s) ==
  /\ script[p] = "running" /\ s \in left[p]
  /\ Sets(s, to[p])
  /\ left' = [left EXCEPT ![p] = @ \ {s}]
  /\ UNCHANGED <<faults, guard, agent, engines, script, to>>

\* networksetup fails for the next service: && skips the rest, || true hides it.
ScriptFails(p) ==
  /\ "networksetup" \in faults
  /\ script[p] = "running" /\ left[p] # {}
  /\ left' = [left EXCEPT ![p] = {}]
  /\ UNCHANGED <<faults, system, guard, agent, engines, script, to>>

-----------------------------------------------------------------------------
\* The engine processes.

\* The user authorizes the engine and it binds the port.
EngineServes(p) ==
  /\ engine[p] = "prompt" /\ ~IsListening
  /\ engine' = [engine EXCEPT ![p] = "serving"]
  /\ UNCHANGED <<faults, system, guard, agent, todo, scripts>>

\* The authorization is denied, the port is taken, or the engine dies.
EngineEnds(p) ==
  /\ engine[p] = "prompt" \/ (engine[p] \in {"serving", "restoring"} /\ "crash" \in faults)
  /\ engine' = [engine EXCEPT ![p] = "off"]
  /\ todo' = [todo EXCEPT ![p] = {}]
  /\ UNCHANGED <<faults, system, guard, agent, scripts>>

EngineIsAbandoned_exits(p) ==
  /\ engine[p] = "serving" /\ ParentGone(p)
  /\ engine' = [engine EXCEPT ![p] = "off"]
  /\ UNCHANGED <<faults, system, guard, agent, todo, scripts>>

\* The engine stops because its Agent is gone, or finds the port taken when it is;
\* either way it reads the record before it exits.
EngineIsAbandoned(p) ==
  /\ ParentGone(p)
  /\ engine[p] = "serving" \/ (engine[p] = "prompt" /\ IsListening)
  /\ \/ /\ Owned = {}
        /\ guard' = {}
        /\ engine' = [engine EXCEPT ![p] = "off"]
        /\ UNCHANGED todo
     \/ /\ Owned # {}
        /\ engine' = [engine EXCEPT ![p] = "restoring"]
        /\ todo' = [todo EXCEPT ![p] = Owned]
        /\ UNCHANGED guard
  /\ UNCHANGED <<faults, system, agent, scripts>>

EngineRestores(p, s) ==
  /\ engine[p] = "restoring" /\ s \in todo[p]
  /\ Sets(s, "auto")
  /\ todo' = [todo EXCEPT ![p] = @ \ {s}]
  /\ UNCHANGED <<faults, guard, agent, engine, scripts>>

\* Unlike the scripts, the engine looks at the status of every command.
EngineGivesUp(p) ==
  /\ "networksetup" \in faults
  /\ engine[p] = "restoring" /\ todo[p] # {}
  /\ engine' = [engine EXCEPT ![p] = "off"]
  /\ todo' = [todo EXCEPT ![p] = {}]
  /\ UNCHANGED <<faults, system, guard, agent, scripts>>

EngineHasRestored(p) ==
  /\ engine[p] = "restoring" /\ todo[p] = {}
  /\ guard' = {}
  /\ engine' = [engine EXCEPT ![p] = "off"]
  /\ UNCHANGED <<faults, system, agent, todo, scripts>>

-----------------------------------------------------------------------------
\* The user, in System Settings.

UserToggles(s) ==
  /\ "toggle" \in faults /\ changes < MaxChanges
  /\ enabled' = (enabled \ {s}) \cup ({s} \ enabled)
  /\ changes' = changes + 1
  /\ UNCHANGED <<faults, dns, guard, agent, engines, scripts>>

AtWork == \E p \in Agents : left[p] \cup todo[p] # {}

UserEdits(s, setting) ==
  /\ "edit" \in faults /\ changes < MaxChanges
  /\ AtWork => "race" \in faults
  /\ dns' = [dns EXCEPT ![s] = setting]
  /\ changes' = changes + 1
  /\ UNCHANGED <<faults, enabled, guard, agent, engines, scripts>>

-----------------------------------------------------------------------------
EngineSteps(p) ==
  \/ EngineIsAbandoned(p)
  \/ \E s \in Services : EngineRestores(p, s)
  \/ EngineGivesUp(p)
  \/ EngineHasRestored(p)

ScriptSteps(p) ==
  \/ \E s \in Services : ScriptSets(p, s)
  \/ ScriptFails(p)

Next ==
  \/ AgentStarts \/ StartsEngine \/ RestartsEngine
  \/ Enables \/ Disables \/ StopsEngine \/ Quits \/ IsDropped
  \/ Enabled \/ Restored \/ NotRestored \/ AgentDies
  \/ \E p \in Agents :
       \/ ScriptIsAuthorized(p) \/ ScriptIsCancelled(p) \/ ScriptSteps(p)
       \/ EngineServes(p) \/ EngineEnds(p) \/ EngineSteps(p)
  \/ \E s \in Services : UserToggles(s) \/ \E d \in {"auto", "manual"} : UserEdits(s, d)

Spec == Init /\ [][Next]_vars

\* Started commands and engine loops run on; nobody has to authorize anything.
FairSpec ==
  /\ Spec
  /\ WF_vars(Enabled) /\ WF_vars(Restored) /\ WF_vars(NotRestored)
  /\ \A p \in Agents :
       /\ WF_vars(engine[p] # "prompt" /\ EngineSteps(p))
       /\ WF_vars(ScriptSteps(p))
-----------------------------------------------------------------------------
\* Properties.

Without(some) == faults \cap some = {}

\* Every variable has its type; an Agent that is gone holds no engine, and a script that
\* is over has nothing left to do.
TypeOK ==
  /\ faults \in SUBSET Faults
  /\ enabled \in SUBSET Services /\ dns \in [Services -> Settings] /\ changes \in Nat
  /\ guard \in SUBSET Services
  /\ agent \in [up : BOOLEAN, number : 0 .. MaxAgents, holds : BOOLEAN, command : Commands \cup {"none"}]
  /\ IF agent.up THEN Me \in Agents ELSE ~agent.holds /\ agent.command = "none"
  /\ engine \in [Agents -> {"off", "prompt", "serving", "restoring"}]
  /\ todo \in [Agents -> SUBSET Services]
  /\ script \in [Agents -> {"none", "prompt", "running", "cancelled"}]
  /\ left \in [Agents -> SUBSET Services]
  /\ \A p \in Agents : script[p] \in {"none", "cancelled"} => left[p] = {}
  /\ to \in [Agents -> {"auto", "ours"}]

Ours == {s \in Services : dns[s] = "ours"}
RecordIsComplete == Ours \subseteq guard

\* As long as a service points at the listener, the record on disk names it, so that
\* whoever runs next can give it back (integration.rs: the record is written before the
\* privileged mutation, retained when it is cancelled, removed after a restoration).
\* Four faults break it: a restoration whose networksetup failed, a second enable while a
\* service is disabled, a script that outlives its Agent, two engines at once.
OwnershipIsRecorded ==
  Without({"networksetup", "toggle", "orphan", "overlap"}) => RecordIsComplete

\* An Agent that runs while a service points at the listener holds the handle of an engine
\* it started to serve it: it restores before it lets go of the engine, and starts one when
\* it finds a record.  Whether the user authorizes that engine, and whether it still runs,
\* is not said: the Agent does not learn of its death.
\* Besides those four, a file that goes bad during a restart breaks it.
ResolverIsKept ==
  Without({"networksetup", "toggle", "orphan", "overlap", "config"}) =>
    (agent.up /\ Ours # {} => agent.holds)

\* EdgeSteer never overwrites manual DNS, the user's own after the service was taken over
\* included, whatever else goes wrong; only the user who edits a service while it is being
\* changed may lose the edit.
ManualIsKept ==
  [][Without({"race"}) => \A s \in Services : dns[s] = "manual" /\ changes' = changes => dns'[s] = "manual"]_vars

\* An engine left alone by its Agent gives the system DNS back before it exits, unless
\* another Agent takes over (edgesteer-ui.rs: the helper is the last that can restore).
AbandonedIsRestored ==
  (Without({"networksetup", "toggle", "orphan", "overlap", "crash"})
     /\ ~agent.up /\ \E p \in Agents : engine[p] = "serving")
  ~> (agent.up \/ Ours = {})

\* The documentation says of Quit: if the restoration fails, the App remains open instead
\* of leaving system DNS on loopback.
QuitRestores ==
  [][agent.command = "quit" /\ agent.up /\ ~agent'.up => Ours' = {}]_vars

\* A comment in disable_system_dns says why disabled services are restored too: re-enabling
\* the interface later would resurrect 127.0.0.1 after the engine has stopped.
NothingIsResurrected ==
  (~agent.up /\ guard = {} /\ \A p \in Agents : engine[p] = "off") => Ours = {}

-----------------------------------------------------------------------------
\* The inductive invariant behind OwnershipIsRecorded and ResolverIsKept.

Gapless == Without({"networksetup", "toggle", "orphan", "overlap"})

\* Only the last Agent has anything running: scripts end before their Agent, and engines
\* before the next one.
OthersAreDone ==
  \A p \in Agents :
    /\ p # Me => engine[p] = "off"
    /\ (p # Me \/ agent.command = "none") => left[p] = {}
    /\ engine[p] = "restoring" => ~agent.up

\* A script that enables works on recorded services; one that restores, and a restoring
\* engine, still have before them every service that points at the listener.
WorkIsCovered ==
  /\ agent.command = "enable" => to[Me] = "ours" /\ left[Me] \subseteq guard \cap enabled
  /\ agent.command \in Commands \ {"enable"} =>
       to[Me] = "auto" /\ (script[Me] # "cancelled" => Ours \subseteq left[Me])
  /\ \A p \in Agents : engine[p] = "restoring" => Ours \subseteq todo[p]

IInv ==
  /\ TypeOK
  /\ Gapless => /\ RecordIsComplete
                /\ Ours \subseteq enabled
                /\ OthersAreDone
                /\ WorkIsCovered

\* An Agent with the system DNS in its hands, or about to take it, holds an engine.
EngineInv ==
  (Gapless /\ "config" \notin faults) =>
    (agent.up /\ (Ours # {} \/ agent.command = "enable") => agent.holds)

\* Unless the user edits a service that is being changed, no service still to be changed
\* is manual: this is what ManualIsKept rests on.
WorkIsNotManual ==
  Without({"race"}) => \A p \in Agents : \A s \in left[p] \cup todo[p] : dns[s] # "manual"
=============================================================================
