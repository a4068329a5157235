------------------------------ MODULE SettingsForm ------------------------------
(***************************************************************************)
(* The edits of the settings window's form (src/src/ui.rs, ConfigDocument): *)
(* each takes the document and returns it changed.  A number that does not  *)
(* parse and an index that is not there change nothing, so they are left    *)
(* out.  A list field drops empty and repeated entries.                     *)
(***************************************************************************)
EXTENDS ConfigRules

CONSTANTS
  NewLayers,    \* "new-layer-1", "new-layer-2", ... as far as they are modelled
  NewRuleSets,  \* "new-rule-set-1", ...
  NewPlugins    \* "cloudflare-preferred-1", ...

Put(object, key, value) ==
  [k \in DOMAIN object \cup {key} |-> IF k = key THEN value ELSE object[k]]
Drop(object, keys) == Restrict(object, DOMAIN object \ keys)

\* Fields that are missing get their default; those that are there stay.
Defaulted(object, defaults) ==
  [k \in DOMAIN object \cup DOMAIN defaults |-> IF Has(object, k) THEN object[k] ELSE defaults[k]]

ASSUME TagsOK ==
  /\ NewLayers \in Seq(Layers) /\ NewRuleSets \in Seq(RuleTags) /\ NewPlugins \in Seq(PluginTags)
  /\ Blank \notin Layers \cup RuleTags \cup PluginTags \cup {"path"}

\* unique_tag: the first of the numbered tags that no entry of the list has.
UniqueTag(fresh, list) ==
  fresh[CHOOSE i \in DOMAIN fresh :
          /\ fresh[i] \notin Tags(list)
          /\ \A j \in 1 .. i - 1 : fresh[j] \in Tags(list)]
\* The modelled tags are not used up.
HasFresh(fresh, list) == Range(fresh) \ Tags(list) # {}

-----------------------------------------------------------------------------
(* Layers.                                                                  *)

\* Mutant: fields of the former type stay.
Foreign_kept(kind) ==
  IF kind = "local" THEN {"address", "url", "server_name"} ELSE {"refresh_secs"}
\* normalize_layer: what a type removes ...
Foreign(kind) ==
  CASE kind \in {"udp", "tcp"} -> {"refresh_secs", "url", "server_name"}
    [] kind = "doh"            -> {"refresh_secs", "server_name"}
    [] kind = "dot"            -> {"refresh_secs", "url"}
    [] kind = "local"          -> {"address", "url", "server_name"}

\* ... and what it fills in.
LayerDefaults(kind) ==
  CASE kind \in {"udp", "tcp"} ->
         [address |-> At("resolver", 53), timeout_ms |-> "some"]
    [] kind = "doh" ->
         [address |-> At("resolver", 443), url |-> Url(TRUE, 443), timeout_ms |-> "some"]
    [] kind = "dot" ->
         [address |-> At("resolver", 853), server_name |-> "good", timeout_ms |-> "some"]
    [] kind = "local" ->
         [timeout_ms |-> "some", refresh_secs |-> "some"]

WithLayer(d, i, layer) == [d EXCEPT !.layers[i] = layer]

\* set_layer_type
SetLayerType(d, i, kind) ==
  WithLayer(d, i, Defaulted(Drop(Put(d.layers[i], "type", kind), Foreign(kind)),
                            LayerDefaults(kind)))

\* set_layer_string and set_layer_number
SetLayerField(d, i, key, value) == WithLayer(d, i, Put(d.layers[i], key, value))

\* set_layer_optional_string: a blank text removes the field.
SetLayerOption(d, i, key, value) ==
  IF value = Blank THEN WithLayer(d, i, Drop(d.layers[i], {key}))
                   ELSE SetLayerField(d, i, key, value)

\* set_layer_match_mode and set_layer_match_list
SetLayerMatch(d, i, key, value) == [d EXCEPT !.layers[i].match[key] = value]

NoMatch == [mode |-> "label", keywords |-> {}, rule_sets |-> {}]

\* add_layer: default_layer at the end, under a tag of its own.
AddLayer(d, kind) ==
  LET layer == [tag |-> UniqueTag(NewLayers, d.layers), type |-> kind, match |-> NoMatch]
  IN [d EXCEPT !.layers = Append(@, Defaulted(layer, LayerDefaults(kind)))]

RemoveLayer(d, i) == [d EXCEPT !.layers = RemoveAt(@, i)]

\* move_layer by one place down; up is the same swap seen from the other layer.
MoveLayer(d, i) == [d EXCEPT !.layers[i] = d.layers[i + 1], !.layers[i + 1] = d.layers[i]]

-----------------------------------------------------------------------------
(* Rule sets.                                                               *)

ForeignToRuleSet(kind) == IF kind = "remote" THEN {"path"} ELSE {"url", "timeout_ms"}
RuleSetDefaults(kind) ==
  IF kind = "remote"
  THEN [url |-> Url(TRUE, 443), update_interval_secs |-> "some", timeout_ms |-> "some"]
  ELSE [path |-> "path", update_interval_secs |-> "some"]

\* set_rule_set_type and normalize_rule_set
SetRuleSetType(d, i, kind) ==
  [d EXCEPT !.rule_sets[i] =
     Defaulted(Drop(Put(@, "type", kind), ForeignToRuleSet(kind)), RuleSetDefaults(kind))]

\* set_rule_set_string and set_rule_set_number
SetRuleSetField(d, i, key, value) == [d EXCEPT !.rule_sets[i] = Put(@, key, value)]

\* set_rule_set_source: the one source field of the form is the url of a remote
\* and the path of a local rule set.
SetRuleSetSource(d, i, url, path) ==
  IF d.rule_sets[i].type = "remote" THEN SetRuleSetField(d, i, "url", url)
                                    ELSE SetRuleSetField(d, i, "path", path)

AddRuleSet(d, kind) ==
  [d EXCEPT !.rule_sets =
     Append(@, Defaulted([tag |-> UniqueTag(NewRuleSets, @), type |-> kind],
                         RuleSetDefaults(kind)))]

RemoveRuleSet(d, i) == [d EXCEPT !.rule_sets = RemoveAt(@, i)]

-----------------------------------------------------------------------------
(* Plugins.                                                                 *)

OptimizerNumbers ==
  {"interval_secs", "timeout_ms", "test_port", "concurrency", "samples_per_cidr",
   "probes_per_candidate", "max_candidates"}
OptimizerLists == {"candidates", "compatibility_hosts", "excluded_candidates"}

\* default_plugin: an optimizer that is disabled and has nothing to measure.
DefaultPlugin(tag) ==
  [tag |-> tag, rewrite_ttl_secs |-> "some", preferred |-> << >>,
   optimizer |->
     [enabled |-> FALSE, numbers |-> [key \in OptimizerNumbers |-> "some"],
      test_host |-> "good", test_path |-> "good", candidates |-> {},
      compatibility_hosts |-> {}, excluded_candidates |-> {}]]

AddPlugin(d) == [d EXCEPT !.plugins = Append(@, DefaultPlugin(UniqueTag(NewPlugins, @)))]
RemovePlugin(d, i) == [d EXCEPT !.plugins = RemoveAt(@, i)]

\* set_plugin_string and set_plugin_number
SetPluginField(d, i, key, value) == [d EXCEPT !.plugins[i][key] = value]

\* set_plugin_preferred: a blank address is removed.
SetPreferred(d, i, family, value) ==
  [d EXCEPT !.plugins[i].preferred =
     IF value = "blank" THEN Drop(@, {family}) ELSE Put(@, family, value)]

\* set_optimizer_bool, set_optimizer_list and the texts of set_optimizer_field
SetOptimizer(d, i, key, value) == [d EXCEPT !.plugins[i].optimizer[key] = value]
\* its numbers
SetOptimizerNumber(d, i, key, value) ==
  [d EXCEPT !.plugins[i].optimizer.numbers[key] = value]
=============================================================================
