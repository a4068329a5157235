---------------------------- MODULE SettingsDocument ----------------------------
(***************************************************************************)
(* The settings window's document (src/src/ui.rs, ConfigDocument and the    *)
(* messages that act on it) and the configuration file it loads and saves   *)
(* (write_config_atomically in src/src/config.rs).  The window is one       *)
(* thread, so no edit comes between the steps of a save; other programs may *)
(* write the file at any time, any step of a save may fail, and the window  *)
(* may be closed or killed between any two.                                 *)
(***************************************************************************)
EXTENDS SettingsForm

CONSTANTS
  Default,    \* the bundled configuration
  Documents,  \* valid configurations that others may put into the file
  Missing,    \* there is no file
  Broken,     \* a file that does not load, or a half-written one
  MaxEdits    \* bound of the edits

ASSUME DefaultIsValid == IsDocument(Default) /\ Valid(Default)
ASSUME FilesAreDistinct == Missing # Broken /\ {Missing, Broken} \cap Documents = {}
ASSUME FilesAreValid    == \A d \in Documents : IsDocument(d) /\ Valid(d)

VARIABLES
  window,    \* "closed", "editing", or the step of a save it is at
  document,  \* ConfigDocument::value
  valid,     \* validation_error is None
  dirty,
  file,      \* the configuration file
  temp,      \* the sibling file of this process while it saves
  origin,    \* history: what the document was last loaded from or saved to,
             \* "default" or "file"
  foreign,   \* history: somebody else wrote the file since
  edits

settings == <<window, document, valid, dirty, file, temp, origin, foreign, edits>>

\* The window before anybody opens it.
SettingsInit ==
  /\ window = "closed" /\ document = Default /\ valid = TRUE /\ dirty = FALSE
  /\ file \in Documents \cup {Missing, Broken}
  /\ temp = Missing /\ origin = "default" /\ foreign = FALSE /\ edits = 0

Loadable(contents) == contents \notin {Missing, Broken}

-----------------------------------------------------------------------------
(* Loading.                                                                 *)

\* from_contents accepts a valid document alone, and shows it as clean.
Shows(contents, from) ==
  /\ document' = contents /\ valid' = TRUE /\ dirty' = FALSE
  /\ origin' = from /\ foreign' = FALSE

\* ConfigDocument::load: a file that is missing or does not load is replaced by
\* the bundled default, which is shown as clean, too.
Opens ==
  /\ window = "closed"
  /\ window' = "editing"
  /\ IF Loadable(file) THEN Shows(file, "file") ELSE Shows(Default, "default")
  /\ UNCHANGED <<file, temp, edits>>

\* load_current_path: a file that does not load leaves the draft alone.
Reloads ==
  /\ window = "editing"
  /\ Loadable(file)
  /\ Shows(file, "file")
  /\ UNCHANGED <<window, file, temp, edits>>

-----------------------------------------------------------------------------
(* Editing: changed() and revalidate() end every edit.                      *)

Edits(d) ==
  /\ window = "editing"
  /\ edits < MaxEdits
  /\ edits' = edits + 1
  /\ document' = d /\ valid' = Valid(document') /\ dirty' = TRUE
  /\ UNCHANGED <<window, file, temp, origin, foreign>>

LayerTags     == Layers \cup {Blank}
Listeners     == {At("loopback", 53), At("any", 53), Unparsable}
Endpoints     == {At("loopback", 53), At("resolver", 443), At("resolver", 0), Unparsable}
Urls          == {Url(TRUE, 443), Url(TRUE, 853), Url(FALSE, 0)}
LayerIndexes  == DOMAIN document.layers
RuleIndexes   == DOMAIN document.rule_sets
PluginIndexes == DOMAIN document.plugins

EditsGeneral ==
  \/ \E a \in Listeners : Edits([document EXCEPT !.address = a])
  \/ \E b \in BOOLEAN : Edits([document EXCEPT !.allow_remote = b])
  \/ \E n \in Numbers, key \in {"request_timeout_ms", "range_refresh_secs"} :
       Edits([document EXCEPT ![key] = n])
  \/ \E t \in LayerTags : Edits([document EXCEPT !.entry = t])

EditsLayers ==
  \/ \E kind \in Kinds :
       HasFresh(NewLayers, document.layers) /\ Edits(AddLayer(document, kind))
  \/ \E i \in LayerIndexes : Edits(RemoveLayer(document, i))
  \/ \E i \in LayerIndexes : i + 1 \in LayerIndexes /\ Edits(MoveLayer(document, i))
  \/ \E i \in LayerIndexes, kind \in Kinds : Edits(SetLayerType(document, i, kind))
  \/ \E i \in LayerIndexes, t \in LayerTags : Edits(SetLayerField(document, i, "tag", t))
  \/ \E i \in LayerIndexes, n \in Numbers, key \in {"timeout_ms", "refresh_secs"} :
       Edits(SetLayerField(document, i, key, n))
  \/ \E i \in LayerIndexes, t \in LayerTags, key \in {"next", "fallback"} :
       Edits(SetLayerOption(document, i, key, t))
  \/ \E i \in LayerIndexes, t \in PluginTags \cup {Blank} :
       Edits(SetLayerOption(document, i, "plugin", t))

EditsEndpoints ==
  \/ \E i \in LayerIndexes, a \in Endpoints \cup {Blank} :
       Edits(SetLayerOption(document, i, "address", a))
  \/ \E i \in LayerIndexes, u \in Urls \cup {Blank} :
       Edits(SetLayerOption(document, i, "url", u))
  \/ \E i \in LayerIndexes, e \in EntryKinds \cup {Blank} :
       Edits(SetLayerOption(document, i, "server_name", e))

EditsMatches ==
  \/ \E i \in LayerIndexes, mode \in {"label", "contains"} :
       Edits(SetLayerMatch(document, i, "mode", mode))
  \/ \E i \in LayerIndexes, words \in SUBSET {"plain", "dotted"} :
       Edits(SetLayerMatch(document, i, "keywords", words))
  \/ \E i \in LayerIndexes, tags \in SUBSET RuleTags :
       Edits(SetLayerMatch(document, i, "rule_sets", tags))

EditsRuleSets ==
  \/ \E kind \in {"local", "remote"} :
       HasFresh(NewRuleSets, document.rule_sets) /\ Edits(AddRuleSet(document, kind))
  \/ \E i \in RuleIndexes : Edits(RemoveRuleSet(document, i))
  \/ \E i \in RuleIndexes, t \in RuleTags \cup {Blank} :
       Edits(SetRuleSetField(document, i, "tag", t))
  \/ \E i \in RuleIndexes, kind \in {"local", "remote"} :
       Edits(SetRuleSetType(document, i, kind))
  \/ \E i \in RuleIndexes, u \in Urls, path \in {"path", Blank} :
       Edits(SetRuleSetSource(document, i, u, path))
  \/ \E i \in RuleIndexes, n \in Numbers, key \in {"update_interval_secs", "timeout_ms"} :
       Edits(SetRuleSetField(document, i, key, n))

EditsPlugins ==
  \/ HasFresh(NewPlugins, document.plugins) /\ Edits(AddPlugin(document))
  \/ \E i \in PluginIndexes : Edits(RemovePlugin(document, i))
  \/ \E i \in PluginIndexes, t \in PluginTags \cup {Blank} :
       Edits(SetPluginField(document, i, "tag", t))
  \/ \E i \in PluginIndexes, n \in Numbers :
       Edits(SetPluginField(document, i, "rewrite_ttl_secs", n))
  \/ \E i \in PluginIndexes, family \in {"ipv4", "ipv6"},
        address \in {"inside", "outside", "unparsable", "blank"} :
       Edits(SetPreferred(document, i, family, address))

EditsOptimizers ==
  \/ \E i \in PluginIndexes, b \in BOOLEAN : Edits(SetOptimizer(document, i, "enabled", b))
  \/ \E i \in PluginIndexes, key \in {"test_host", "test_path"}, e \in EntryKinds :
       Edits(SetOptimizer(document, i, key, e))
  \/ \E i \in PluginIndexes, key \in OptimizerNumbers, n \in Numbers :
       Edits(SetOptimizerNumber(document, i, key, n))
  \/ \E i \in PluginIndexes, key \in OptimizerLists, list \in SUBSET EntryKinds :
       Edits(SetOptimizer(document, i, key, list))

-----------------------------------------------------------------------------
(* Saving.                                                                  *)

\* Mutant: the file itself is opened and written.
SaveStarts_inplace ==
  /\ window = "editing"
  /\ Valid(document)
  /\ window' = "writing"
  /\ temp' = Broken /\ file' = Broken
  /\ UNCHANGED <<document, valid, dirty, origin, foreign, edits>>
\* save() revalidates, write_config_atomically validates once more, and the
\* sibling file is created.  A document that is not valid is not saved.
SaveStarts ==
  /\ window = "editing"
  /\ Valid(document)
  /\ window' = "writing"
  /\ temp' = Broken
  /\ UNCHANGED <<document, valid, dirty, file, origin, foreign, edits>>

Writes ==
  /\ window = "writing"
  /\ window' = "renaming"
  /\ temp' = document
  /\ UNCHANGED <<document, valid, dirty, file, origin, foreign, edits>>

\* fs::write failed half way: the sibling may stay, which nobody reads and the
\* next save replaces; the draft stays dirty.
WriteFails ==
  /\ window = "writing"
  /\ window' = "editing"
  /\ temp' = Missing
  /\ UNCHANGED <<document, valid, dirty, file, origin, foreign, edits>>

Saved == dirty' = FALSE /\ origin' = "file" /\ foreign' = FALSE

Renames ==
  /\ window = "renaming"
  /\ window' = "editing"
  /\ file' = temp /\ temp' = Missing
  /\ Saved
  /\ UNCHANGED <<document, valid, edits>>

\* Mutant: the result is not looked at.
RenameFails_ignored ==
  /\ window = "renaming"
  /\ window' = "editing"
  /\ temp' = Missing
  /\ Saved
  /\ UNCHANGED <<document, valid, file, edits>>
\* The sibling is removed and the draft stays dirty.
RenameFails ==
  /\ window = "renaming"
  /\ window' = "editing"
  /\ temp' = Missing
  /\ UNCHANGED <<document, valid, dirty, file, origin, foreign, edits>>

-----------------------------------------------------------------------------
(* The rest of the world.                                                   *)

\* The window is closed or killed.  The next one is another process, whose
\* sibling file has another name.
Closes ==
  /\ window # "closed"
  /\ window' = "closed"
  /\ document' = Default /\ valid' = TRUE /\ dirty' = FALSE
  /\ temp' = Missing /\ origin' = "default" /\ foreign' = FALSE
  /\ UNCHANGED <<file, edits>>

SomebodyElseWrites ==
  /\ window # "closed"
  /\ ~foreign
  /\ file' \in (Documents \cup {Missing, Broken}) \ {file}
  /\ foreign' = TRUE
  /\ UNCHANGED <<window, document, valid, dirty, temp, origin, edits>>

SettingsNext ==
  \/ Opens \/ Reloads
  \/ EditsGeneral \/ EditsLayers \/ EditsEndpoints \/ EditsMatches
  \/ EditsRuleSets \/ EditsPlugins \/ EditsOptimizers
  \/ SaveStarts \/ Writes \/ WriteFails \/ Renames \/ RenameFails
  \/ Closes \/ SomebodyElseWrites

SettingsSpec == SettingsInit /\ [][SettingsNext]_settings

-----------------------------------------------------------------------------
(* Properties.                                                              *)

\* However a save fails or is cut short, the window changes the file only from
\* what it held to the whole, valid document, so the watcher and the next start
\* of the engine never meet a part of one.
FileIsWhole ==
  [][file' # file /\ ~foreign' => file' = document /\ Valid(file')]_settings

\* A document the window calls saved is what the file holds, unless somebody
\* else wrote the file since, and but for the bundled default, which the window
\* calls saved when there is no file that loads.
CleanIsOnDisk == ~dirty /\ origin = "file" /\ ~foreign => file = document

\* The endpoint a layer has once its type is changed.
EndpointOf(layer, kind) == Get(layer, "address", LayerDefaults(kind).address)

\* Changing the type of a layer keeps a valid document valid, whatever fields
\* the former type left: only the address, which is kept, may be in the way, if
\* it is the listener's or has another port than the DoH URL.
InTheWay(old, new, kind) ==
  /\ kind # "local"
  /\ LET endpoint == EndpointOf(old, kind) IN
       \/ Overlap(document.address, endpoint)
       \/ kind = "doh" /\ endpoint.port # new.url.port
TypeChangeKeeps ==
  valid /\ document' # document =>
    \A i \in LayerIndexes, kind \in Kinds : document' = SetLayerType(document, i, kind) =>
      valid' \/ InTheWay(document.layers[i], document'.layers[i], kind)

\* What the form adds is valid as it is added, beside anything: its tag is new
\* and its fields are complete.  Only a listener on every address is in the way
\* of the resolver a new layer starts with.
AdditionKeeps ==
  valid /\ document' # document =>
    /\ \A kind \in Kinds :
         HasFresh(NewLayers, document.layers) /\ document' = AddLayer(document, kind) =>
           \/ valid'
           \/ kind # "local" /\ Overlap(document.address, LayerDefaults(kind).address)
    /\ \A kind \in {"local", "remote"} :
         HasFresh(NewRuleSets, document.rule_sets) /\ document' = AddRuleSet(document, kind) =>
           valid'
    /\ HasFresh(NewPlugins, document.plugins) /\ document' = AddPlugin(document) => valid'

\* One click never makes a valid document invalid unless its user chose a value
\* or an endpoint that is in the way.
EditsKeepValidity == [][TypeChangeKeeps /\ AdditionKeeps]_settings

\* "It edits the exact JSON used by the Agent, applies the same strict validation
\* before saving" (docs/en/operations.md, line 33): the engine accepts what the
\* window saves.  Violated: the engine alone checks static preferred addresses.
SavedIsAccepted == [][Renames => Accepted(temp)]_settings

\* The parts that make FileIsWhole and CleanIsOnDisk inductive.
SettingsInv ==
  /\ CleanIsOnDisk
  /\ Loadable(file) => Valid(file)
  /\ valid <=> Valid(document)
  /\ window \in {"writing", "renaming"} => Valid(document)
  /\ window = "renaming" => temp = document
=============================================================================
