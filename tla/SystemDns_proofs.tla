--------------------------- MODULE SystemDns_proofs ---------------------------
(***************************************************************************)
(* Proofs about SystemDns, for any services, any number of Agents and any   *)
(* sets of faults: the ownership record names every service that points at  *)
(* the listener, and an Agent that runs meanwhile holds an engine.          *)
(***************************************************************************)
EXTENDS SystemDns, TLAPS

USE BoundsOK, EnvironmentsOK

\* A started Agent is one of the Agents.
LEMMA NextAgent ==
  ASSUME TypeOK, Me < MaxAgents
  PROVE  Me + 1 \in Agents /\ Me + 1 # Me
BY DEF TypeOK, Agents, Me

AgentOK ==
  /\ agent \in [up : BOOLEAN, number : 0 .. MaxAgents, holds : BOOLEAN, command : Commands \cup {"none"}]
  /\ IF agent.up THEN Me \in Agents ELSE ~agent.holds /\ agent.command = "none"

LEMMA AgentChanges ==
  ASSUME NEW up \in BOOLEAN, NEW number \in 0 .. MaxAgents, NEW holds \in BOOLEAN,
         NEW command \in Commands \cup {"none"}, Agent(up, number, holds, command),
         up => number \in Agents, ~up => ~holds /\ command = "none"
  PROVE  AgentOK'
BY DEF Agent, AgentOK, Me

LEMMA AgentParts ==
  ASSUME TypeOK
  PROVE  /\ agent.up \in BOOLEAN /\ agent.holds \in BOOLEAN
         /\ Me \in 0 .. MaxAgents /\ agent.command \in Commands \cup {"none"}
         /\ agent.up => Me \in Agents
         /\ ~agent.up => ~agent.holds /\ agent.command = "none"
BY DEF TypeOK, Me

\* A command waits for its script.
LEMMA CommandStarts ==
  ASSUME TypeOK, agent.up, NEW command \in Commands, NEW services \in SUBSET Services,
         NEW setting \in {"auto", "ours"}, RunsScript(command, services, setting)
  PROVE  /\ AgentOK'
         /\ script' \in [Agents -> {"none", "prompt", "running", "cancelled"}]
         /\ left' \in [Agents -> SUBSET Services]
         /\ \A p \in Agents : script'[p] \in {"none", "cancelled"} => left'[p] = {}
         /\ to' \in [Agents -> {"auto", "ours"}]
<1>1. AgentOK'
  BY AgentParts, AgentChanges DEF RunsScript, Now
<1> QED
  BY <1>1, AgentParts DEF RunsScript, TypeOK

\* A command is done, and the Agent goes on or ends.
LEMMA CommandFinishes ==
  ASSUME TypeOK, agent.up, NEW command \in Commands, Finishes(command)
  PROVE  /\ AgentOK'
         /\ engine' \in [Agents -> {"off", "prompt", "serving", "restoring"}]
         /\ todo' = todo
<1>1. AgentOK'
  BY AgentParts, AgentChanges DEF Finishes
<1> QED
  BY <1>1, AgentParts DEF Finishes, TypeOK

LEMMA BackToIdle ==
  ASSUME TypeOK, agent.up, Now("none")
  PROVE  AgentOK'
BY AgentParts, AgentChanges DEF Now

\* Every step keeps the types, whatever the faults.
LEMMA TypeCorrect ==
  ASSUME TypeOK, [Next]_vars
  PROVE  TypeOK'
<1> USE DEF TypeOK, Me
<1>1. CASE AgentStarts
  BY <1>1, NextAgent DEF AgentStarts, Agent, system, scripts, Agents, Faults, Commands
<1>2. CASE StartsEngine
  BY <1>2 DEF StartsEngine, Agent, Idle, system, scripts
<1>3. CASE RestartsEngine
  <2>1. PICK loads \in Loads :
          /\ Agent(TRUE, Me, loads, "none")
          /\ engine' = [engine EXCEPT ![Me] = IF loads THEN "prompt" ELSE "off"]
    BY <1>3 DEF RestartsEngine
  <2>2. loads \in BOOLEAN
    BY DEF Loads
  <2>3. AgentOK'
    BY <1>3, <2>1, <2>2, AgentParts, AgentChanges DEF RestartsEngine, Idle
  <2> QED
    BY <1>3, <2>1, <2>2, <2>3 DEF RestartsEngine, Idle, system, scripts, AgentOK
<1>4. CASE Enables
  <2> DEFINE new == {s \in Targets : dns[s] # "ours"}
  <2>1. Targets \in SUBSET Services /\ new \in SUBSET Services /\ agent.up
    BY <1>4 DEF Targets, Enables, Idle
  <2>2. CASE new = {}
    BY <1>4, <2>1, <2>2 DEF Enables, system, engines, scripts
  <2>3. CASE new # {}
    <3>1. RunsScript("enable", new, "ours")
      BY <1>4, <2>3 DEF Enables
    <3> QED
      BY <1>4, <2>1, <3>1, CommandStarts DEF Enables, system, engines, AgentOK, Commands
  <2> QED
    BY <2>2, <2>3
<1>5. ASSUME NEW c \in Commands \ {"enable"}, Restores(c) PROVE TypeOK'
  <2>1. Owned \in SUBSET Services /\ agent.up
    BY <1>5 DEF Owned, Restores, Idle
  <2>2. CASE Owned = {}
    BY <1>5, <2>1, <2>2, CommandFinishes DEF Restores, system, scripts, AgentOK
  <2>3. CASE Owned # {}
    BY <1>5, <2>1, <2>3, CommandStarts DEF Restores, system, engines, AgentOK
  <2> QED
    BY <2>2, <2>3
<1>6. CASE Enabled
  BY <1>6, BackToIdle DEF Enabled, ScriptRan, ScriptIsOver, system, engines, AgentOK
<1>7. CASE Restored
  <2>1. AgentOK' /\ engine' \in [Agents -> {"off", "prompt", "serving", "restoring"}] /\ todo' = todo
    BY <1>7, CommandFinishes DEF Restored
  <2> QED
    BY <1>7, <2>1 DEF Restored, ScriptRan, ScriptIsOver, system, AgentOK
<1>8. CASE NotRestored
  <2>1. AgentOK' /\ engine' \in [Agents -> {"off", "prompt", "serving", "restoring"}] /\ todo' = todo
    BY <1>8, CommandFinishes, BackToIdle DEF NotRestored, engines, Commands
  <2> QED
    BY <1>8, <2>1 DEF NotRestored, ScriptIsOver, system, AgentOK
<1>9. CASE AgentDies
  BY <1>9 DEF AgentDies, Agent, system, engines, scripts
<1>10. ASSUME NEW p \in Agents,
              \/ ScriptIsAuthorized(p) \/ ScriptIsCancelled(p) \/ ScriptSteps(p)
       PROVE  TypeOK'
  BY <1>10 DEF ScriptIsAuthorized, ScriptIsCancelled, ScriptSteps, ScriptSets, ScriptFails, Sets,
               system, engines, Settings
<1>11. ASSUME NEW p \in Agents, EngineServes(p) \/ EngineEnds(p) \/ EngineSteps(p)
       PROVE  TypeOK'
  BY <1>11 DEF EngineServes, EngineEnds, EngineSteps, EngineIsAbandoned, EngineRestores,
               EngineGivesUp, EngineHasRestored, Sets, Owned, system, scripts, Settings
<1>12. ASSUME NEW s \in Services, UserToggles(s) PROVE TypeOK'
  BY <1>12 DEF UserToggles, engines, scripts
<1>13. ASSUME NEW s \in Services, NEW d \in {"auto", "manual"}, UserEdits(s, d) PROVE TypeOK'
  BY <1>13 DEF UserEdits, engines, scripts, Settings
<1>14. CASE UNCHANGED vars
  BY <1>14 DEF vars, system, engines, scripts
<1> QED
  BY <1>1, <1>2, <1>3, <1>4, <1>5, <1>6, <1>7, <1>8, <1>9, <1>10, <1>11, <1>12, <1>13, <1>14
     DEF Next, Disables, StopsEngine, Quits, IsDropped, Commands

-----------------------------------------------------------------------------
Owning ==
  /\ RecordIsComplete
  /\ Ours \subseteq enabled
  /\ OthersAreDone
  /\ WorkIsCovered

\* While a command runs, the script of the Agent is the only one with work left.
LEMMA OneScript ==
  ASSUME TypeOK, OthersAreDone, NEW p \in Agents, NEW s \in left[p]
  PROVE  p = Me /\ agent.command # "none" /\ agent.up
BY DEF OthersAreDone, TypeOK

\* Restoring, in its three ways, ends with no service on the listener.
LEMMA OwnedIsOurs ==
  ASSUME RecordIsComplete, TypeOK
  PROVE  Owned = Ours
BY DEF RecordIsComplete, Owned, Ours, TypeOK

\* What the record covers stays covered when nothing but the Agent or engines change.
LEMMA GivenBack ==
  ASSUME TypeOK, Owning, agent.up, NEW command \in Commands, Finishes(command), Ours = {},
         left[Me] = {}, UNCHANGED <<faults, system>>, left' = left
  PROVE  RecordIsComplete' /\ (Ours \subseteq enabled)' /\ OthersAreDone' /\ WorkIsCovered'
<1>1. Me \in Agents
  BY AgentParts
<1>2. Ours' = {} /\ Me' = Me /\ agent'.command = "none"
  BY DEF Ours, system, Finishes, Agent, Me
<1>3. \A q \in Agents : (q # Me => engine'[q] = "off") /\ engine'[q] # "restoring"
  BY <1>1 DEF Finishes, Owning, OthersAreDone, TypeOK
<1>4. OthersAreDone'
  BY <1>2, <1>3 DEF Owning, OthersAreDone
<1>5. WorkIsCovered'
  BY <1>2, <1>3 DEF WorkIsCovered, Commands
<1> QED
  BY <1>2, <1>4, <1>5 DEF RecordIsComplete

\* The steps of an Agent keep the record complete.
LEMMA AgentKeepsRecord ==
  ASSUME TypeOK, Owning, Gapless,
         \/ AgentStarts \/ StartsEngine \/ RestartsEngine \/ Enables
         \/ (\E c \in Commands \ {"enable"} : Restores(c))
         \/ Enabled \/ Restored \/ NotRestored \/ AgentDies
  PROVE  Owning'
<1> USE DEF Owning
<1>1. CASE AgentStarts
  <2>1. Ours' = Ours /\ left' = left /\ guard' = guard /\ enabled' = enabled
    BY <1>1 DEF AgentStarts, Ours, system, scripts
  <2>2. agent'.up /\ agent'.command = "none" /\ Me' = Me + 1
    BY <1>1 DEF AgentStarts, Agent, Me
  <2>3. \A q \in Agents : engine[q] = "off" /\ left[q] = {}
    BY <1>1 DEF AgentStarts, Gapless, Without, OthersAreDone, TypeOK
  <2>4. \A q \in Agents : (q # Me + 1 => engine'[q] = "off") /\ engine'[q] # "restoring"
    BY <1>1, <2>3, NextAgent DEF AgentStarts, TypeOK
  <2>5. OthersAreDone'
    BY <2>1, <2>2, <2>3, <2>4 DEF OthersAreDone
  <2> QED
    BY <2>1, <2>2, <2>4, <2>5 DEF RecordIsComplete, WorkIsCovered, Commands
<1>2. CASE StartsEngine \/ RestartsEngine
  <2>1. Ours' = Ours /\ left' = left /\ guard' = guard /\ enabled' = enabled
    BY <1>2 DEF StartsEngine, RestartsEngine, Ours, system, scripts
  <2>2. agent.up /\ agent'.up /\ agent'.command = "none" /\ agent.command = "none" /\ Me' = Me
    BY <1>2 DEF StartsEngine, RestartsEngine, Agent, Me, Idle
  <2>3. \A q \in Agents : (q # Me => engine'[q] = "off") /\ engine'[q] # "restoring"
    <3>1. PICK state \in {"prompt", "off"} : engine' = [engine EXCEPT ![Me] = state]
      BY <1>2 DEF StartsEngine, RestartsEngine
    <3> QED
      BY <2>2, <3>1 DEF OthersAreDone, TypeOK
  <2>4. OthersAreDone'
    BY <2>1, <2>2, <2>3 DEF OthersAreDone
  <2> QED
    BY <2>1, <2>2, <2>3, <2>4 DEF RecordIsComplete, WorkIsCovered, Commands
<1>3. CASE Enables
  <2> DEFINE new == {s \in Targets : dns[s] # "ours"}
  <2>1. agent.up /\ agent.command = "none" /\ Me \in Agents
    BY <1>3, AgentParts DEF Enables, Idle
  <2>2. Ours' = Ours /\ enabled' = enabled /\ engine' = engine /\ todo' = todo /\ guard' = Targets
    BY <1>3 DEF Enables, Ours, system, engines
  <2>3. Ours \subseteq Targets /\ Targets \subseteq enabled
    BY DEF Ours, Targets, TypeOK
  <2>4. RecordIsComplete' /\ (Ours \subseteq enabled)'
    BY <2>2, <2>3 DEF RecordIsComplete
  <2>5. CASE new = {}
    <3>1. UNCHANGED <<agent, scripts>>
      BY <1>3, <2>5 DEF Enables
    <3>2. Me' = Me /\ agent' = agent /\ left' = left /\ to' = to
      BY <3>1 DEF Me, scripts
    <3>3. OthersAreDone'
      BY <2>2, <3>2 DEF OthersAreDone
    <3>4. WorkIsCovered'
      BY <2>1, <2>2, <3>2 DEF WorkIsCovered, Commands
    <3> QED
      BY <2>4, <3>3, <3>4
  <2>6. CASE new # {}
    <3>1. RunsScript("enable", new, "ours")
      BY <1>3, <2>6 DEF Enables
    <3>2. /\ agent'.up /\ agent'.command = "enable" /\ Me' = Me
          /\ left' = [left EXCEPT ![Me] = new] /\ to'[Me] = "ours"
      BY <3>1, <2>1 DEF RunsScript, Now, Agent, Me, TypeOK
    <3>3. left'[Me] = new /\ \A q \in Agents : q # Me => left'[q] = left[q]
      BY <2>1, <3>2 DEF TypeOK
    <3>4. OthersAreDone'
      BY <2>1, <2>2, <3>2, <3>3 DEF OthersAreDone
    <3>5. WorkIsCovered'
      BY <2>1, <2>2, <2>3, <3>2, <3>3 DEF WorkIsCovered, OthersAreDone, Commands
    <3> QED
      BY <2>4, <3>4, <3>5
  <2> QED
    BY <2>5, <2>6
<1>4. ASSUME NEW c \in Commands \ {"enable"}, Restores(c) PROVE Owning'
  <2>1. /\ agent.up /\ agent.command = "none" /\ Me \in Agents
        /\ Owned = Ours /\ left[Me] = {}
    BY <1>4, AgentParts, OwnedIsOurs DEF Restores, Idle, OthersAreDone
  <2>2. CASE Owned = {}
    BY <1>4, <2>1, <2>2, GivenBack DEF Restores, scripts
  <2>3. CASE Owned # {}
    <3>1. RunsScript(c, Ours, "auto") /\ UNCHANGED <<guard, engines, faults, system>>
      BY <1>4, <2>1, <2>3 DEF Restores
    <3>2. /\ agent'.up /\ agent'.command = c /\ Me' = Me
          /\ left'[Me] = Ours /\ (\A q \in Agents : q # Me => left'[q] = left[q])
          /\ to'[Me] = "auto"
      BY <3>1, <2>1 DEF RunsScript, Now, Agent, Me, TypeOK
    <3>3. Ours' = Ours /\ enabled' = enabled /\ engine' = engine /\ todo' = todo /\ guard' = guard
      BY <3>1 DEF Ours, system, engines
    <3>4. OthersAreDone'
      BY <2>1, <3>2, <3>3 DEF OthersAreDone, Commands
    <3>5. WorkIsCovered'
      BY <2>1, <3>2, <3>3 DEF WorkIsCovered, OthersAreDone
    <3> QED
      BY <3>3, <3>4, <3>5 DEF RecordIsComplete
  <2> QED
    BY <2>2, <2>3
<1>5. CASE Enabled \/ (NotRestored /\ agent.command # "drop")
  <2>1. /\ agent.up /\ Me \in Agents /\ left[Me] = {} /\ Now("none") /\ UNCHANGED engines
        /\ UNCHANGED <<guard, system>> /\ left' = left
    BY <1>5, AgentParts DEF Enabled, NotRestored, ScriptRan, ScriptIsOver, TypeOK
  <2>2. agent'.up /\ agent'.command = "none" /\ Me' = Me
    BY <2>1 DEF Now, Agent, Me
  <2>3. Ours' = Ours /\ enabled' = enabled /\ engine' = engine /\ todo' = todo /\ guard' = guard
    BY <2>1 DEF Ours, system, engines
  <2>4. OthersAreDone'
    BY <2>1, <2>2, <2>3 DEF OthersAreDone
  <2> QED
    BY <2>1, <2>2, <2>3, <2>4 DEF RecordIsComplete, WorkIsCovered, Commands
<1>6. CASE Restored
  <2>1. left[Me] = {} /\ Ours = {} /\ agent.up /\ agent.command \in Commands
    BY <1>6 DEF Restored, ScriptRan, WorkIsCovered
  <2>2. Finishes(agent.command) /\ UNCHANGED <<faults, system>> /\ left' = left
    BY <1>6 DEF Restored, ScriptIsOver
  <2> QED
    BY <2>1, <2>2, GivenBack
<1>7. CASE NotRestored /\ agent.command = "drop"
  <2>1. /\ agent.up /\ Me \in Agents /\ left[Me] = {} /\ Finishes("drop")
        /\ UNCHANGED <<guard, system>> /\ left' = left
    BY <1>7, AgentParts DEF NotRestored, ScriptIsOver, TypeOK
  <2>2. ~agent'.up /\ agent'.command = "none" /\ Me' = Me
    BY <2>1 DEF Finishes, Agent, Me
  <2>3. Ours' = Ours /\ enabled' = enabled /\ guard' = guard
    BY <2>1 DEF Ours, system
  <2>4. \A q \in Agents : engine'[q] # "restoring" /\ (q # Me => engine'[q] = "off")
    BY <2>1 DEF Finishes, OthersAreDone, TypeOK
  <2>5. OthersAreDone'
    BY <2>1, <2>2, <2>4 DEF OthersAreDone
  <2> QED
    BY <2>2, <2>3, <2>4, <2>5 DEF RecordIsComplete, WorkIsCovered, Commands
<1>8. CASE AgentDies
  <2>1. agent.up /\ agent.command = "none"
    BY <1>8 DEF AgentDies, Gapless, Without
  <2>2. ~agent'.up /\ agent'.command = "none" /\ Me' = Me
    BY <1>8 DEF AgentDies, Agent, Me
  <2>3. /\ Ours' = Ours /\ enabled' = enabled /\ guard' = guard /\ engine' = engine
        /\ left' = left /\ todo' = todo
    BY <1>8 DEF AgentDies, Ours, system, engines, scripts
  <2>4. OthersAreDone'
    BY <2>1, <2>2, <2>3 DEF OthersAreDone
  <2> QED
    BY <2>1, <2>2, <2>3, <2>4 DEF RecordIsComplete, WorkIsCovered, OthersAreDone, Commands
<1> QED
  BY <1>1, <1>2, <1>3, <1>4, <1>5, <1>6, <1>7, <1>8

\* So do the scripts ...
LEMMA ScriptKeepsRecord ==
  ASSUME TypeOK, Owning, Gapless, NEW p \in Agents,
         ScriptIsAuthorized(p) \/ ScriptIsCancelled(p) \/ ScriptSteps(p)
  PROVE  Owning'
<1> USE DEF Owning
<1>1. CASE ScriptIsAuthorized(p) \/ ScriptIsCancelled(p)
  <2>1. /\ Ours' = Ours /\ enabled' = enabled /\ guard' = guard /\ engine' = engine
        /\ todo' = todo /\ to' = to /\ agent' = agent /\ Me' = Me
    BY <1>1 DEF ScriptIsAuthorized, ScriptIsCancelled, Ours, system, engines, Me
  <2>2. \A q \in Agents :
          /\ left'[q] \subseteq left[q]
          /\ script'[q] # "cancelled" => script[q] # "cancelled" /\ left'[q] = left[q]
    BY <1>1 DEF ScriptIsAuthorized, ScriptIsCancelled, TypeOK
  <2>3. OthersAreDone'
    BY <2>1, <2>2 DEF OthersAreDone
  <2>4. agent.command # "none" => Me \in Agents
    BY AgentParts
  <2>5. WorkIsCovered'
    BY <2>1, <2>2, <2>4 DEF WorkIsCovered, Commands
  <2> QED
    BY <2>1, <2>3, <2>5 DEF RecordIsComplete
<1>2. ASSUME NEW s \in Services, ScriptSets(p, s) PROVE Owning'
  <2>1. s \in left[p] /\ p = Me /\ agent.command # "none" /\ agent.up
    BY <1>2, OneScript DEF ScriptSets
  <2>2. /\ enabled' = enabled /\ guard' = guard /\ engine' = engine /\ script' = script
        /\ todo' = todo /\ to' = to /\ agent' = agent /\ Me' = Me
    BY <1>2 DEF ScriptSets, Sets, engines, Me
  <2>3. left'[Me] = left[Me] \ {s} /\ \A q \in Agents : q # Me => left'[q] = left[q]
    BY <1>2, <2>1 DEF ScriptSets, TypeOK
  <2>4. dns' = [dns EXCEPT ![s] = to[Me]]
    BY <1>2, <2>1 DEF ScriptSets, Sets
  <2>5. OthersAreDone'
    BY <2>1, <2>2, <2>3 DEF OthersAreDone
  <2>6. \A q \in Agents : engine'[q] # "restoring"
    BY <2>1, <2>2 DEF OthersAreDone
  <2>7. CASE agent.command = "enable"
    <3>1. to[Me] = "ours" /\ left[Me] \subseteq guard \cap enabled
      BY <2>7 DEF WorkIsCovered
    <3>2. Ours' = Ours \cup {s}
      BY <2>4, <3>1 DEF Ours, TypeOK
    <3> QED
      BY <2>1, <2>2, <2>3, <2>5, <2>6, <2>7, <3>1, <3>2 DEF RecordIsComplete, WorkIsCovered
  <2>8. CASE agent.command \in Commands \ {"enable"}
    <3>1. to[Me] = "auto" /\ (script[Me] # "cancelled" => Ours \subseteq left[Me])
      BY <2>8 DEF WorkIsCovered
    <3>2. Ours' = Ours \ {s}
      BY <2>4, <3>1 DEF Ours, TypeOK
    <3> QED
      BY <2>1, <2>2, <2>3, <2>5, <2>6, <2>8, <3>1, <3>2 DEF RecordIsComplete, WorkIsCovered
  <2> QED
    BY <2>1, <2>7, <2>8, AgentParts
<1>3. ~ScriptFails(p)
  BY DEF ScriptFails, Gapless, Without
<1> QED
  BY <1>1, <1>2, <1>3 DEF ScriptSteps

\* ... the engines ...
LEMMA EngineKeepsRecord ==
  ASSUME TypeOK, Owning, Gapless, NEW p \in Agents,
         EngineServes(p) \/ EngineEnds(p) \/ EngineSteps(p)
  PROVE  Owning'
<1> USE DEF Owning
<1>1. p = Me
  BY DEF EngineServes, EngineEnds, EngineSteps, EngineIsAbandoned, EngineRestores, EngineGivesUp,
         EngineHasRestored, OthersAreDone
<1>2. /\ agent' = agent /\ Me' = Me /\ left' = left /\ script' = script /\ to' = to
      /\ enabled' = enabled
  BY DEF EngineServes, EngineEnds, EngineSteps, EngineIsAbandoned, EngineRestores, EngineGivesUp,
         EngineHasRestored, Sets, system, scripts, Me
<1>3. CASE EngineServes(p) \/ EngineEnds(p)
  <2>1. Ours' = Ours /\ guard' = guard
    BY <1>3 DEF EngineServes, EngineEnds, Ours, system
  <2>2. \A q \in Agents : (q # Me => engine'[q] = "off")
                          /\ (engine'[q] = "restoring" => engine[q] = "restoring" /\ todo'[q] = todo[q])
    BY <1>1, <1>3 DEF EngineServes, EngineEnds, OthersAreDone, TypeOK
  <2>3. OthersAreDone'
    BY <1>2, <2>2 DEF OthersAreDone
  <2> QED
    BY <1>2, <2>1, <2>2, <2>3 DEF RecordIsComplete, WorkIsCovered
<1>4. CASE EngineIsAbandoned(p)
  <2>1. ~agent.up /\ Owned = Ours /\ agent.command = "none" /\ Ours' = Ours
    BY <1>1, <1>4, OwnedIsOurs, AgentParts DEF EngineIsAbandoned, ParentGone, system, Ours
  <2>2. \A q \in Agents : (q # Me => engine'[q] = "off")
                          /\ (engine'[q] = "restoring" => Ours \subseteq todo'[q])
    BY <1>1, <1>4, <2>1 DEF EngineIsAbandoned, OthersAreDone, TypeOK
  <2>3. OthersAreDone'
    BY <1>2, <2>1, <2>2 DEF OthersAreDone
  <2>4. RecordIsComplete'
    BY <1>4, <2>1 DEF EngineIsAbandoned, RecordIsComplete
  <2> QED
    BY <1>2, <2>1, <2>2, <2>3, <2>4 DEF WorkIsCovered, Commands
<1>5. ASSUME NEW s \in Services, EngineRestores(p, s) PROVE Owning'
  <2>1. /\ ~agent.up /\ agent.command = "none" /\ guard' = guard /\ engine' = engine
        /\ Ours \subseteq todo[p] /\ todo'[p] = todo[p] \ {s}
        /\ \A q \in Agents : engine[q] = "restoring" => q = p
    BY <1>1, <1>5, AgentParts DEF EngineRestores, OthersAreDone, WorkIsCovered, TypeOK
  <2>2. Ours' = Ours \ {s}
    BY <1>5 DEF EngineRestores, Sets, Ours, TypeOK
  <2>3. OthersAreDone'
    BY <1>2, <2>1 DEF OthersAreDone
  <2> QED
    BY <1>2, <2>1, <2>2, <2>3 DEF RecordIsComplete, WorkIsCovered, Commands
<1>6. CASE EngineHasRestored(p)
  <2>1. ~agent.up /\ agent.command = "none" /\ Ours = {} /\ Ours' = Ours
    BY <1>6, AgentParts DEF EngineHasRestored, OthersAreDone, WorkIsCovered, Ours, system
  <2>2. \A q \in Agents : (q # Me => engine'[q] = "off") /\ engine'[q] # "restoring"
    BY <1>1, <1>6 DEF EngineHasRestored, OthersAreDone, TypeOK
  <2>3. OthersAreDone'
    BY <1>2, <2>1, <2>2 DEF OthersAreDone
  <2> QED
    BY <1>2, <2>1, <2>2, <2>3 DEF RecordIsComplete, WorkIsCovered, Commands
<1>7. ~EngineGivesUp(p)
  BY DEF EngineGivesUp, Gapless, Without
<1> QED
  BY <1>3, <1>4, <1>5, <1>6, <1>7 DEF EngineSteps

\* ... and the user.
LEMMA UserKeepsRecord ==
  ASSUME TypeOK, Owning, NEW s \in Services, NEW d \in {"auto", "manual"}, UserEdits(s, d)
  PROVE  Owning'
<1> USE DEF Owning
<1>1. Ours' \subseteq Ours
  BY DEF UserEdits, Ours, TypeOK
<1>2. UNCHANGED <<agent, enabled, guard, engine, todo, script, left, to, Me>>
  BY DEF UserEdits, engines, scripts, Me
<1>3. OthersAreDone'
  BY <1>2 DEF OthersAreDone
<1>4. WorkIsCovered'
  BY <1>1, <1>2 DEF WorkIsCovered
<1> QED
  BY <1>1, <1>2, <1>3, <1>4 DEF RecordIsComplete

\* The faults of a behaviour are fixed.
LEMMA FaultsAreFixed ==
  ASSUME [Next]_vars
  PROVE  faults' = faults
BY DEF Next, vars, AgentStarts, StartsEngine, RestartsEngine, Enables, Disables, StopsEngine, Quits,
   IsDropped, Restores, Enabled, Restored, NotRestored, AgentDies, ScriptIsAuthorized,
   ScriptIsCancelled, ScriptSteps, ScriptSets, ScriptFails, EngineServes, EngineEnds, EngineSteps,
   EngineIsAbandoned, EngineRestores, EngineGivesUp, EngineHasRestored, UserToggles, UserEdits

LEMMA InvInit ==
  ASSUME Init
  PROVE  IInv
<1>1. Ours = {}
  BY DEF Init, Ours
<1>2. TypeOK
  BY DEF Init, TypeOK, Settings, Me, Faults
<1> QED
  BY <1>1, <1>2 DEF Init, IInv, RecordIsComplete, OthersAreDone, WorkIsCovered, Commands

LEMMA InvNext ==
  ASSUME IInv, [Next]_vars
  PROVE  IInv'
<1>1. TypeOK'
  BY TypeCorrect DEF IInv
<1>2. SUFFICES ASSUME Gapless
               PROVE  Owning'
  BY <1>1, <1>2, FaultsAreFixed DEF IInv, Owning, Gapless, Without
<1>3. TypeOK /\ Owning
  BY <1>2 DEF IInv, Owning
<1>4. CASE UNCHANGED vars
  BY <1>3, <1>4 DEF vars, system, engines, scripts, Owning, RecordIsComplete, Ours, OthersAreDone,
     WorkIsCovered, Me
<1>5. CASE Next
  <2>1. ~\E s \in Services : UserToggles(s)
    BY <1>2 DEF UserToggles, Gapless, Without
  <2> QED
    BY <1>2, <1>3, <1>5, <2>1, AgentKeepsRecord, ScriptKeepsRecord, EngineKeepsRecord, UserKeepsRecord
       DEF Next, Disables, StopsEngine, Quits, IsDropped, Commands
<1> QED
  BY <1>4, <1>5

\* The inductive invariant, which a run checks too.  Without the four gaps, the record
\* is complete, nothing that was disabled points at the listener, only the last Agent
\* has anything running, and a restoration still has all of its work before it.
THEOREM RecordInvariance == Spec => []IInv
<1>1. Init => IInv
  BY InvInit
<1>2. IInv /\ [Next]_vars => IInv'
  BY InvNext
<1> QED
  BY <1>1, <1>2, PTL DEF Spec

\* Type correctness, and the record of the services taken over being complete for every
\* set of faults without the four gaps: no networksetup fails, no service is toggled, no
\* script outlives its Agent and no two engines overlap.
THEOREM OwnershipInvariance == Spec => [](TypeOK /\ OwnershipIsRecorded)
<1>1. IInv => TypeOK /\ OwnershipIsRecorded
  BY DEF IInv, OwnershipIsRecorded, Gapless
<1> QED
  BY <1>1, RecordInvariance, PTL

-----------------------------------------------------------------------------
\* A service comes to point at the listener only through an enabling script.
LEMMA OursOnlyByEnabling ==
  ASSUME IInv, Gapless, [Next]_vars
  PROVE  \/ Ours' \subseteq Ours
         \/ agent.up /\ agent.command = "enable" /\ agent' = agent
<1>1. TypeOK /\ Owning
  BY DEF IInv, Owning
<1>2. ASSUME NEW p \in Agents, NEW s \in Services, ScriptSets(p, s)
      PROVE  \/ Ours' \subseteq Ours
             \/ agent.up /\ agent.command = "enable" /\ agent' = agent
  <2>1. s \in left[p] /\ p = Me /\ agent.command # "none" /\ agent.up
    BY <1>1, <1>2, OneScript DEF ScriptSets, Owning
  <2>2. agent' = agent /\ dns' = [dns EXCEPT ![s] = to[Me]]
    BY <1>2, <2>1 DEF ScriptSets, Sets
  <2>3. CASE agent.command # "enable"
    <3>1. to[Me] = "auto"
      BY <1>1, <2>1, <2>3, AgentParts DEF Owning, WorkIsCovered
    <3> QED
      BY <1>1, <2>2, <3>1 DEF Ours, TypeOK
  <2> QED
    BY <2>1, <2>2, <2>3
<1>3. ASSUME NEW p \in Agents, NEW s \in Services, EngineRestores(p, s)
      PROVE  Ours' \subseteq Ours
  BY <1>1, <1>3 DEF EngineRestores, Sets, Ours, TypeOK
<1>4. ASSUME NEW s \in Services, NEW d \in {"auto", "manual"}, UserEdits(s, d)
      PROVE  Ours' \subseteq Ours
  BY <1>1, <1>4 DEF UserEdits, Ours, TypeOK
<1>5. CASE UNCHANGED dns
  BY <1>5 DEF Ours
<1>6. \/ UNCHANGED dns
      \/ \E p \in Agents, s \in Services : ScriptSets(p, s) \/ EngineRestores(p, s)
      \/ \E s \in Services : \E d \in {"auto", "manual"} : UserEdits(s, d)
  BY DEF Next, vars, AgentStarts, StartsEngine, RestartsEngine, Enables, Disables, StopsEngine, Quits,
     IsDropped, Restores, Enabled, Restored, NotRestored, AgentDies, ScriptIsAuthorized,
     ScriptIsCancelled, ScriptSteps, ScriptFails, EngineServes, EngineEnds, EngineSteps,
     EngineIsAbandoned, EngineGivesUp, EngineHasRestored, UserToggles, system
<1> QED
  BY <1>2, <1>3, <1>4, <1>5, <1>6

Serving == agent.up /\ (Ours # {} \/ agent.command = "enable") => agent.holds

\* The steps that change the Agent keep an engine in its hands while it needs one.
LEMMA AgentKeepsEngine ==
  ASSUME IInv, Gapless, "config" \notin faults, Serving, Ours' \subseteq Ours,
         \/ AgentStarts \/ StartsEngine \/ RestartsEngine \/ Enables
         \/ (\E c \in Commands \ {"enable"} : Restores(c))
         \/ Enabled \/ Restored \/ NotRestored \/ AgentDies
  PROVE  Serving'
<1> USE DEF Serving
<1>1. TypeOK /\ Owning /\ Owned = Ours
  BY OwnedIsOurs DEF IInv, Owning
<1>2. CASE AgentStarts
  <2>1. PICK loads \in Loads : Agent(TRUE, Me + 1, loads /\ IsManaged, "none")
    BY <1>2 DEF AgentStarts
  <2>2. loads = TRUE
    BY DEF Loads
  <2>3. agent'.command = "none" /\ agent'.holds = (loads /\ IsManaged)
    BY <2>1 DEF Agent
  <2>4. Ours # {} => IsManaged
    BY <1>1 DEF IsManaged, Owning, RecordIsComplete
  <2> QED
    BY <2>2, <2>3, <2>4
<1>3. CASE StartsEngine \/ RestartsEngine
  <2>1. Agent(TRUE, Me, TRUE, "none")
    BY <1>3 DEF StartsEngine, RestartsEngine, Loads
  <2> QED
    BY <2>1 DEF Agent
<1>4. CASE Enables
  BY <1>4 DEF Enables, RunsScript, Now, Agent
<1>5. ASSUME NEW c \in Commands \ {"enable"}, Restores(c) PROVE Serving'
  <2>1. agent.up
    BY <1>5 DEF Restores, Idle
  <2>2. CASE Ours = {}
    BY <1>1, <1>5, <2>2 DEF Restores, Finishes, Agent
  <2>3. CASE Ours # {}
    <3>1. Agent(TRUE, Me, agent.holds, c) /\ agent.holds
      BY <1>1, <1>5, <2>1, <2>3 DEF Restores, RunsScript, Now
    <3> QED
      BY <3>1 DEF Agent
  <2> QED
    BY <2>2, <2>3
<1>6. CASE Enabled
  <2>1. Agent(TRUE, Me, agent.holds, "none") /\ agent.holds
    BY <1>6 DEF Enabled, Now
  <2> QED
    BY <2>1 DEF Agent
<1>7. CASE Restored
  <2>1. Ours = {}
    BY <1>1, <1>7 DEF Restored, ScriptRan, Owning, WorkIsCovered
  <2> QED
    BY <1>7, <2>1 DEF Restored, Finishes, Agent
<1>8. CASE NotRestored
  BY <1>8 DEF NotRestored, Finishes, Now, Agent
<1>9. CASE AgentDies
  BY <1>9 DEF AgentDies, Agent
<1> QED
  BY <1>2, <1>3, <1>4, <1>5, <1>6, <1>7, <1>8, <1>9

LEMMA EngineInvNext ==
  ASSUME IInv, EngineInv, [Next]_vars
  PROVE  EngineInv'
<1>1. SUFFICES ASSUME Gapless, "config" \notin faults
               PROVE  Serving'
  BY <1>1, FaultsAreFixed DEF EngineInv, Serving, Gapless, Without
<1>2. Serving
  BY <1>1 DEF EngineInv, Serving
<1>3. CASE agent' = agent
  BY <1>1, <1>2, <1>3, OursOnlyByEnabling DEF Serving
<1>4. CASE agent' # agent
  <2>1. \/ AgentStarts \/ StartsEngine \/ RestartsEngine \/ Enables
        \/ (\E c \in Commands \ {"enable"} : Restores(c))
        \/ Enabled \/ Restored \/ NotRestored \/ AgentDies
    BY <1>4 DEF Next, vars, Disables, StopsEngine, Quits, IsDropped, Commands, ScriptIsAuthorized,
       ScriptIsCancelled, ScriptSteps, ScriptSets, ScriptFails, EngineServes, EngineEnds,
       EngineSteps, EngineIsAbandoned, EngineRestores, EngineGivesUp, EngineHasRestored,
       UserToggles, UserEdits
  <2>2. Ours' \subseteq Ours
    BY <1>1, <1>4, OursOnlyByEnabling
  <2> QED
    BY <1>1, <1>2, <2>1, <2>2, AgentKeepsEngine
<1> QED
  BY <1>3, <1>4

\* An Agent that runs while a service points at the listener holds an engine.
THEOREM ResolverInvariance == Spec => []ResolverIsKept
<1>1. Init => IInv /\ EngineInv
  BY InvInit DEF Init, EngineInv
<1>2. IInv /\ EngineInv /\ [Next]_vars => (IInv /\ EngineInv)'
  BY InvNext, EngineInvNext
<1>3. IInv /\ EngineInv => ResolverIsKept
  BY DEF EngineInv, ResolverIsKept, Gapless, Without
<1> QED
  BY <1>1, <1>2, <1>3, PTL DEF Spec

-----------------------------------------------------------------------------
\* Whatever a script or an engine has before it, the steps that begin or end the work and
\* those that do it never reach a manual service.
LEMMA WorkStaysNotManual ==
  ASSUME TypeOK, WorkIsNotManual, [Next]_vars
  PROVE  WorkIsNotManual'
<1>1. SUFFICES ASSUME Without({"race"}), NEW p \in Agents, NEW s \in left'[p] \cup todo'[p]
               PROVE  dns'[s] # "manual"
  BY FaultsAreFixed DEF WorkIsNotManual, Without
<1>2. \A q \in Agents : \A t \in left[q] \cup todo[q] : t \in Services /\ dns[t] # "manual"
  BY <1>1 DEF WorkIsNotManual, TypeOK
<1>3. CASE Enables
  <2>1. dns' = dns /\ todo' = todo /\ left'[p] \subseteq left[p] \cup {t \in Targets : dns[t] # "ours"}
    BY <1>3 DEF Enables, RunsScript, system, engines, scripts, TypeOK
  <2> QED
    BY <1>1, <1>2, <2>1 DEF Targets
<1>4. ASSUME NEW c \in Commands \ {"enable"}, Restores(c) PROVE dns'[s] # "manual"
  <2>1. dns' = dns /\ todo' = todo /\ left'[p] \subseteq left[p] \cup Owned
    BY <1>4 DEF Restores, RunsScript, Finishes, system, engines, scripts, TypeOK
  <2> QED
    BY <1>1, <1>2, <2>1 DEF Owned
<1>5. ASSUME NEW q \in Agents, EngineIsAbandoned(q) PROVE dns'[s] # "manual"
  <2>1. dns' = dns /\ left' = left /\ todo'[p] \subseteq todo[p] \cup Owned
    BY <1>5 DEF EngineIsAbandoned, system, scripts, TypeOK
  <2> QED
    BY <1>1, <1>2, <2>1 DEF Owned
<1>6. ASSUME NEW q \in Agents, NEW t \in Services, ScriptSets(q, t) PROVE dns'[s] # "manual"
  <2>1. /\ dns' = [dns EXCEPT ![t] = to[q]] /\ to[q] # "manual"
        /\ todo' = todo /\ left'[p] \subseteq left[p]
    BY <1>6 DEF ScriptSets, Sets, engines, TypeOK
  <2> QED
    BY <1>1, <1>2, <2>1 DEF TypeOK
<1>7. ASSUME NEW q \in Agents, NEW t \in Services, EngineRestores(q, t) PROVE dns'[s] # "manual"
  <2>1. dns' = [dns EXCEPT ![t] = "auto"] /\ left' = left /\ todo'[p] \subseteq todo[p]
    BY <1>7 DEF EngineRestores, Sets, scripts, TypeOK
  <2> QED
    BY <1>1, <1>2, <2>1 DEF TypeOK
<1>8. ASSUME NEW t \in Services, NEW d \in {"auto", "manual"}, UserEdits(t, d) PROVE FALSE
  <2>1. ~AtWork /\ left' = left /\ todo' = todo
    BY <1>1, <1>8 DEF UserEdits, Without, engines, scripts
  <2> QED
    BY <1>1, <2>1 DEF AtWork
<1>9. CASE /\ dns' = dns /\ left'[p] \subseteq left[p] /\ todo'[p] \subseteq todo[p]
  BY <1>1, <1>2, <1>9
<1>10. ASSUME \/ AgentStarts \/ StartsEngine \/ RestartsEngine
              \/ Enabled \/ Restored \/ NotRestored \/ AgentDies
       PROVE  dns' = dns /\ left'[p] \subseteq left[p] /\ todo'[p] \subseteq todo[p]
  BY <1>10 DEF AgentStarts, StartsEngine, RestartsEngine, Enabled, Restored, NotRestored, Finishes,
     ScriptIsOver, AgentDies, system, engines, scripts
<1>11. ASSUME NEW q \in Agents,
              \/ ScriptIsAuthorized(q) \/ ScriptIsCancelled(q) \/ ScriptFails(q)
              \/ EngineServes(q) \/ EngineEnds(q) \/ EngineGivesUp(q) \/ EngineHasRestored(q)
       PROVE  dns' = dns /\ left'[p] \subseteq left[p] /\ todo'[p] \subseteq todo[p]
  BY <1>11 DEF ScriptIsAuthorized, ScriptIsCancelled, ScriptFails, EngineServes, EngineEnds,
     EngineGivesUp, EngineHasRestored, system, engines, scripts, TypeOK
<1>12. CASE UNCHANGED vars \/ \E t \in Services : UserToggles(t)
  BY <1>9, <1>12 DEF UserToggles, vars, system, engines, scripts
<1> QED
  BY <1>3, <1>4, <1>5, <1>6, <1>7, <1>8, <1>9, <1>10, <1>11, <1>12
     DEF Next, Disables, StopsEngine, Quits, IsDropped, Commands, ScriptSteps, EngineSteps

\* Only a script, an engine or the user changes the DNS of a service, and the first two
\* change none that is manual.
THEOREM ManualInvariance == Spec => ManualIsKept
<1>1. Init => TypeOK /\ WorkIsNotManual
  BY InvInit DEF IInv, Init, WorkIsNotManual
<1>2. TypeOK /\ WorkIsNotManual /\ [Next]_vars => (TypeOK /\ WorkIsNotManual)'
  BY TypeCorrect, WorkStaysNotManual
<1>3. TypeOK /\ WorkIsNotManual /\ [Next]_vars =>
        [Without({"race"}) => \A s \in Services : dns[s] = "manual" /\ changes' = changes
                                                 => dns'[s] = "manual"]_vars
  <2>1. SUFFICES ASSUME TypeOK, WorkIsNotManual, Next, Without({"race"}), NEW s \in Services,
                        dns[s] = "manual", changes' = changes
                 PROVE  dns'[s] = "manual"
    OBVIOUS
  <2>2. ASSUME NEW q \in Agents, NEW t \in Services, ScriptSets(q, t) \/ EngineRestores(q, t)
        PROVE  t # s /\ dns' = [dns EXCEPT ![t] = dns'[t]]
    BY <2>1, <2>2 DEF ScriptSets, EngineRestores, Sets, WorkIsNotManual, TypeOK
  <2>3. ASSUME NEW t \in Services, NEW d \in {"auto", "manual"}, UserEdits(t, d) PROVE FALSE
    BY <2>1, <2>3 DEF UserEdits, TypeOK
  <2>4. \/ dns' = dns
        \/ \E q \in Agents, t \in Services : ScriptSets(q, t) \/ EngineRestores(q, t)
        \/ \E t \in Services : \E d \in {"auto", "manual"} : UserEdits(t, d)
    BY <2>1 DEF Next, vars, AgentStarts, StartsEngine, RestartsEngine, Enables, Disables, StopsEngine,
       Quits, IsDropped, Restores, Enabled, Restored, NotRestored, AgentDies, ScriptIsAuthorized,
       ScriptIsCancelled, ScriptSteps, ScriptFails, EngineServes, EngineEnds, EngineSteps,
       EngineIsAbandoned, EngineGivesUp, EngineHasRestored, UserToggles, system
  <2> QED
    BY <2>1, <2>2, <2>3, <2>4 DEF TypeOK
<1> QED
  BY <1>1, <1>2, <1>3, PTL DEF Spec, ManualIsKept
=============================================================================
