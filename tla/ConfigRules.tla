------------------------------ MODULE ConfigRules ------------------------------
(***************************************************************************)
(* What makes a configuration file valid (src/src/config.rs): the types     *)
(* serde demands, FileConfig::validate and everything below it, and the     *)
(* check of static preferred addresses that only the engine adds            *)
(* (src/src/watcher.rs).                                                    *)
(*                                                                         *)
(* A document is the JSON value.  An object whose fields may be missing is  *)
(* a function whose domain is the fields present; an object every field of  *)
(* which has a default is a record.  A text is represented by what the      *)
(* rules tell apart: an address is a host and a port, a URL is usable on a  *)
(* port or not, a number is zero, some or too large for a narrow field, a   *)
(* list is the set of the kinds of entry it has.                            *)
(***************************************************************************)
EXTENDS ResolverGraph, Naturals, SequencesExt

CONSTANTS
  RuleTags,    \* tags of rule sets
  PluginTags,  \* tags of plugins
  Blank        \* a text that is empty, or white space alone where the code trims

Kinds   == {"udp", "tcp", "doh", "dot", "local"}
Numbers == {"zero", "some", "huge"}
EntryKinds == {"good", "bad"}

At(host, port) == [host |-> host, port |-> port]
Unparsable     == At("unparsable", 0)
Url(usable, port) == [usable |-> usable, port |-> port]

Has(object, key) == key \in DOMAIN object
Get(object, key, default) == IF Has(object, key) THEN object[key] ELSE default
Tags(list)  == {list[i].tag : i \in DOMAIN list}

\* HashSet::insert, entry by entry: no tag occurs twice.
DistinctTags(list) ==
  \A i, j \in DOMAIN list : list[i].tag = list[j].tag => i = j

\* socket_addresses_overlap
Overlap(a, b) == a.port = b.port /\ (a.host = b.host \/ "any" \in {a.host, b.host})

\* doh_endpoint and RuleSetConfig::endpoint: https, a host name, no credentials,
\* no fragment.
UsableUrl(object) == Has(object, "url") /\ object.url.usable

-----------------------------------------------------------------------------
(* Layers.                                                                  *)

\* Fields that only some types of layer may have.
Refused(kind) ==
  CASE kind \in {"udp", "tcp"} -> {"refresh_secs", "url", "server_name"}
    [] kind = "dot"            -> {"refresh_secs", "url"}
    [] kind = "doh"            -> {"refresh_secs", "server_name"}
    [] kind = "local"          -> {"address", "url", "server_name"}

\* KeywordMatch::validate
MatchValid(match, ruleTags) ==
  /\ Blank \notin match.keywords
  /\ match.mode = "label" => "dotted" \notin match.keywords
  /\ match.rule_sets \subseteq ruleTags \ {Blank}

Filtered(layer) == layer.match.keywords # {} \/ layer.match.rule_sets # {}

\* LayerConfig::validate_network
NetworkValid(layer, listener) ==
  /\ Has(layer, "address")
  /\ ~Overlap(listener, layer.address)
  /\ layer.address.port # 0

\* LayerConfig::validate
LayerValid(layer, listener, pluginTags, ruleTags) ==
  /\ MatchValid(layer.match, ruleTags)
  /\ Filtered(layer) => Has(layer, "next")
  /\ Has(layer, "plugin") => layer.plugin \in pluginTags
  /\ DOMAIN layer \cap Refused(layer.type) = {}
  /\ Get(layer, "timeout_ms", "some") # "zero"
  /\ layer.type # "local" => NetworkValid(layer, listener)
  /\ layer.type = "local" => Get(layer, "refresh_secs", "some") # "zero"
  /\ layer.type = "dot" => Has(layer, "server_name") /\ layer.server_name = "good"
  /\ layer.type = "doh" => UsableUrl(layer) /\ layer.url.port = layer.address.port

\* The edges, as validate_layer_graph sees them; LayerGraph is how it decides.
EdgeOf(layers, l, key) ==
  IF \E i \in DOMAIN layers : layers[i].tag = l /\ Has(layers[i], key)
  THEN (CHOOSE layer \in Range(layers) : layer.tag = l)[key] ELSE None
Graph(layers) ==
  [l \in Layers |-> [next     |-> EdgeOf(layers, l, "next"),
                     fallback |-> EdgeOf(layers, l, "fallback")]]

LayersValid(layers, listener, pluginTags, ruleTags) ==
  /\ layers # << >>
  /\ Blank \notin Tags(layers) /\ DistinctTags(layers)
  /\ \A layer \in Range(layers) :
       /\ LayerValid(layer, listener, pluginTags, ruleTags)
       /\ \A key \in {"next", "fallback"} : Has(layer, key) => layer[key] \in Tags(layers)
  /\ Acyclic(Graph(layers))

-----------------------------------------------------------------------------
(* Rule sets and plugins.                                                   *)

\* RuleSetConfig::validate
RuleSetValid(rule) ==
  /\ Get(rule, "update_interval_secs", "some") # "zero"
  /\ rule.type = "local" =>
       /\ DOMAIN rule \cap {"url", "timeout_ms"} = {}
       /\ Has(rule, "path") /\ rule.path # Blank
  /\ rule.type = "remote" =>
       /\ ~Has(rule, "path")
       /\ UsableUrl(rule)
       /\ Get(rule, "timeout_ms", "some") # "zero"

\* OptimizerConfig::validate, which has nothing to say of a disabled optimizer.
OptimizerValid(optimizer) ==
  optimizer.enabled =>
    /\ \A key \in DOMAIN optimizer.numbers : optimizer.numbers[key] # "zero"
    /\ optimizer.candidates = {"good"}
    /\ optimizer.compatibility_hosts = {"good"}
    /\ optimizer.excluded_candidates \subseteq {"good"}
    /\ optimizer.test_host = "good" /\ optimizer.test_path = "good"

\* PluginConfig::validate
PluginValid(plugin) ==
  plugin.rewrite_ttl_secs # "zero" /\ OptimizerValid(plugin.optimizer)

-----------------------------------------------------------------------------
(* Documents.                                                               *)

\* An object with these fields, and perhaps others.
IsObject(o, keys) == o = [key \in DOMAIN o |-> o[key]] /\ keys \subseteq DOMAIN o
IsList(list) == list \in Seq(Range(list))

\* What serde makes of a layer and of a file: tag, type and match, and every field
\* of the file, are there; the rest of a layer is optional.
IsLayer(layer) == IsObject(layer, {"tag", "type", "match"}) /\ layer.type \in Kinds
IsDocument(d) ==
  /\ IsObject(d, {"address", "allow_remote", "range_refresh_secs", "request_timeout_ms",
                  "entry", "rule_sets", "plugins", "layers"})
  /\ IsList(d.rule_sets) /\ IsList(d.plugins) /\ IsList(d.layers)
  /\ \A i \in DOMAIN d.layers : IsLayer(d.layers[i])

\* serde: an address is an address, and a number fits its field.
Parses(d) ==
  /\ d.address # Unparsable
  /\ \A layer \in Range(d.layers) : Get(layer, "address", d.address) # Unparsable
  /\ \A plugin \in Range(d.plugins) :
       /\ plugin.rewrite_ttl_secs # "huge"
       /\ plugin.optimizer.numbers["test_port"] # "huge"
       /\ "unparsable" \notin Range(plugin.preferred)

\* parse_config_text: what the settings window, FileConfig::load and a reload
\* have in common.
Valid(d) ==
  /\ Parses(d)
  /\ d.allow_remote \/ d.address.host = "loopback"
  /\ d.range_refresh_secs # "zero" /\ d.request_timeout_ms # "zero"
  /\ DistinctTags(d.plugins) /\ Blank \notin Tags(d.plugins)
  /\ \A plugin \in Range(d.plugins) : PluginValid(plugin)
  /\ DistinctTags(d.rule_sets) /\ Blank \notin Tags(d.rule_sets)
  /\ \A rule \in Range(d.rule_sets) : RuleSetValid(rule)
  /\ LayersValid(d.layers, d.address, Tags(d.plugins), Tags(d.rule_sets))
  /\ d.entry \in Tags(d.layers)

\* What the engine asks of a configuration before it runs it: static preferred
\* addresses lie in the active Cloudflare ranges (validate_preferred_ranges).
Accepted(d) ==
  Valid(d) /\ \A plugin \in Range(d.plugins) : Range(plugin.preferred) \subseteq {"inside"}
=============================================================================
