------------------------------ MODULE RuleSets ------------------------------
(***************************************************************************)
(* The rule-set worker (src/src/rule_sets.rs), the store it replaces as a   *)
(* whole, the watcher that changes its definitions under it, and a request  *)
(* that matches against a snapshot of both (src/src/dns.rs).                *)
(*                                                                         *)
(* A definition is an element of Sources (kind, path or URL, intervals);    *)
(* what a successful load of it returns is identified with it.  Loads take  *)
(* time, fail at will and end, by a timeout or an error.                    *)
(***************************************************************************)
EXTENDS ConfigReload

CONSTANTS
  Tags,    \* names of rule sets
  Sources  \* their definitions

ASSUME RulesOK == RuleConfigs \subseteq [Tags -> Sources \cup {None}]
ASSUME SourcesOK == None \notin Sources
ASSUME LoopOK  == "rules" \in Loops

VARIABLES
  worker,  \* where RefreshWorker is
  view,    \* the definitions of the configuration it refreshes for
  todo,    \* tags this refresh still has to load
  entries, \* RefreshWorker::entries
  due,     \* tags of entries whose refresh_at has passed
  store,   \* state.rule_sets
  stage,   \* where the request is
  defined, \* the definitions of its runtime snapshot
  sets     \* its snapshot of the store

workerVars  == <<worker, view, todo, entries, due>>
requestVars == <<stage, defined, sets>>
vars        == <<reloadVars, workerVars, store, requestVars>>

\* A RefreshEntry and a LoadedRuleSet: a definition, and the definition its rules
\* were loaded for, None without rules.
Entry  == [source : Sources \cup {None}, rules : Sources \cup {None}]
Absent == [source |-> None, rules |-> None]

TypeOK ==
  /\ ReloadTypeOK
  /\ worker \in {"starting", "loading", "published", "waiting"}
  /\ view \in [Tags -> Sources \cup {None}]
  /\ todo \subseteq Tags
  /\ entries \in [Tags -> Entry]
  /\ due \subseteq Tags
  /\ store \in [Tags -> Entry]
  /\ stage \in {"none", "configured", "matching"}
  /\ defined \in [Tags -> Sources \cup {None}]
  /\ sets \in [Tags -> Entry]

Nothing  == [t \in Tags |-> None]
NoEntry  == [t \in Tags |-> Absent]

Init ==
  /\ ReloadInit
  /\ worker = "starting" /\ view = Nothing /\ todo = {}
  /\ entries = NoEntry /\ due = {} /\ store = NoEntry
  /\ stage = "none" /\ defined = Nothing /\ sets = NoEntry
-----------------------------------------------------------------------------
(* The worker *)

\* Mutant: entries are never removed.
Retained_all(rules) == entries

\* entries.retain: the tags that are no longer configured go.
Retained(rules) == [t \in Tags |-> IF rules[t] = None THEN Absent ELSE entries[t]]

\* Definitions that are new, changed or due.
Outdated(rules) ==
  {t \in Tags : rules[t] # None /\ (entries[t].source # rules[t] \/ t \in due)}

\* refresh takes the configuration and decides what to load.
RefreshStarts ==
  /\ worker = "starting"
  /\ worker' = "loading"
  /\ view' = runtime.rules
  /\ todo' = Outdated(runtime.rules)
  /\ entries' = Retained(runtime.rules)
  /\ due' = {t \in due : runtime.rules[t] # None}
  /\ UNCHANGED <<reloadVars, store, requestVars>>

\* Mutants: a failed load keeps the rules whatever they were loaded for; or none.
RetainedRules_any(t)  == entries[t].rules
RetainedRules_none(t) == None

\* What a failed load leaves: the rules of the entry, if it is the same definition.
RetainedRules(t) == IF entries[t].source = view[t] THEN entries[t].rules ELSE None

SourceLoaded(t) ==
  /\ worker = "loading" /\ t \in todo
  /\ \E rules \in {view[t], RetainedRules(t)} :
       entries' = [entries EXCEPT ![t] = [source |-> view[t], rules |-> rules]]
  /\ todo' = todo \ {t} /\ due' = due \ {t}
  /\ UNCHANGED <<reloadVars, worker, view, store, requestVars>>

\* The store holds the entries that have rules.
Active == [t \in Tags |-> IF entries[t].rules = None THEN Absent ELSE entries[t]]

StorePublished ==
  /\ worker = "loading" /\ todo = {}
  /\ worker' = "published"
  /\ store' = Active
  /\ UNCHANGED <<reloadVars, view, todo, entries, due, requestVars>>

\* refresh has returned a delay; the select of refresh_loop begins.
WorkerWaits ==
  /\ worker = "published"
  /\ worker' = "waiting"
  /\ Registers("rules")
  /\ UNCHANGED <<fileVars, pending, task, runtime, bound,
                 view, todo, entries, due, store, requestVars>>

\* The delay ends with the first refresh_at, after 60 s without entries.
DelayIsOver == due # {} \/ entries = NoEntry

WorkerWakes ==
  /\ worker = "waiting"
  /\ "rules" \in woken \/ DelayIsOver
  /\ worker' = "starting"
  /\ Leaves("rules")
  /\ UNCHANGED <<fileVars, pending, task, runtime, bound,
                 view, todo, entries, due, store, requestVars>>

\* Time passes an entry's refresh_at; a load under way sets a new one.
EntryIsDue(t) ==
  /\ entries[t] # Absent /\ t \notin due \cup todo
  /\ due' = due \cup {t}
  /\ UNCHANGED <<reloadVars, worker, view, todo, entries, store, requestVars>>
-----------------------------------------------------------------------------
(* A request: the runtime first, the store later, then the filters *)

RequestStarts ==
  /\ stage = "none"
  /\ stage' = "configured" /\ defined' = runtime.rules
  /\ UNCHANGED <<reloadVars, workerVars, store, sets>>

SetsTaken ==
  /\ stage = "configured"
  /\ stage' = "matching" /\ sets' = store
  /\ UNCHANGED <<reloadVars, workerVars, store, defined>>

\* Mutant: the tag alone decides.
Usable_byTag(t) == sets[t] # Absent /\ defined[t] # None

\* RuleSetStore::matches consults the rules of a tag: stored for the expected definition.
Usable(t) == sets[t] # Absent /\ defined[t] # None /\ sets[t].source = defined[t]

\* The layers have been walked, all with these snapshots.
RequestEnds ==
  /\ stage = "matching"
  /\ stage' = "none" /\ defined' = Nothing /\ sets' = NoEntry
  /\ UNCHANGED <<reloadVars, workerVars, store>>
-----------------------------------------------------------------------------
WorkerStep ==
  RefreshStarts \/ (\E t \in Tags : SourceLoaded(t)) \/ StorePublished
  \/ WorkerWaits \/ WorkerWakes

RequestStep ==
  RequestStarts \/ SetsTaken \/ RequestEnds

Next ==
  \/ ReloadNext /\ UNCHANGED <<workerVars, store, requestVars>>
  \/ WorkerStep
  \/ \E t \in Tags : EntryIsDue(t)
  \/ RequestStep

Spec == Init /\ [][Next]_vars

\* Both tasks are scheduled by the runtime, a load ends by its timeout, and time
\* passes.  Edits, other files and requests need not happen.
FairSpec ==
  /\ Spec
  /\ WF_vars(WatcherStep /\ UNCHANGED <<workerVars, store, requestVars>>)
  /\ WF_vars(WorkerStep)
  /\ \A t \in Tags : WF_vars(EntryIsDue(t))
-----------------------------------------------------------------------------
(* Properties *)

\* Rules a request uses were loaded for the definition that its own configuration
\* snapshot gives the tag, although the worker loads for an older configuration,
\* keeps rules of failed loads, and the store is replaced between the request's
\* two snapshots (rule_sets.rs:47, 115).
RulesBelong ==
  stage = "matching" => \A t \in Tags : Usable(t) => sets[t].rules = defined[t]

\* What makes RulesBelong inductive: nobody pairs a definition with foreign rules.
Belongs(e)  == e.rules \in {None, e.source}
PairsInv ==
  /\ \A t \in Tags : Belongs(entries[t]) /\ Belongs(store[t]) /\ Belongs(sets[t])
  /\ \A t \in Tags : store[t] = Absent \/ store[t].rules # None
  /\ \A t \in Tags : sets[t] = Absent \/ sets[t].rules # None

\* What makes LastGoodIsKept follow: between refreshes the store is what the entries
\* say, and a refresh leaves alone what is stored for a definition it works for.
StoreInv ==
  /\ worker # "loading" => store = Active
  /\ worker = "loading" =>
       \A t \in Tags : store[t] # Absent /\ view[t] = store[t].source => entries[t] = store[t]

IInv == TypeOK /\ ReloadInv /\ PairsInv /\ StoreInv

\* A refresh takes loaded rules out of the store only if the configuration it works
\* for no longer gives their tag that definition: a failed download evicts nothing
\* (rule_sets.rs:72).
LastGoodIsKept ==
  [][\A t \in Tags : store[t] # Absent /\ store'[t] # store[t] => view[t] # store[t].source]_vars

\* Once the configuration stops changing, the store ends up with nothing but rules
\* of its definitions, even if the worker missed the last notification.
StoreConverges == <>[](\A t \in Tags : store[t] # Absent => store[t].source = runtime.rules[t])

\* docs/en/architecture.md:67: "The rule-set worker immediately reconciles new
\* definitions".  A worker that sleeps and was not woken should have seen the
\* definitions that run; a change stored during its refresh is announced to nobody.
ReconcilesImmediately ==
  worker = "waiting" /\ "rules" \notin woken /\ watcher # "notifying"
    => view = runtime.rules
=============================================================================
