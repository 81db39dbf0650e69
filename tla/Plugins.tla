------------------------------ MODULE Plugins ------------------------------
(***************************************************************************)
(* What the Params methods of the plugins insert, in their order           *)
(* (api/fluentbitoperator/v1alpha2/plugins).  A run of fields that are     *)
(* printed as they are, each if it is set, is one "plain" entry.  Apart    *)
(* from these there are                                                    *)
(*   "secret"   a SecretKeySelector, read with LoadSecret;                 *)
(*   "map"      a map[string]string, printed with InsertStringMap;         *)
(*   "script"   the key of a ConfigMapKeySelector, not read here;          *)
(*   "address"  a pointer that is printed instead of what it points to.    *)
(***************************************************************************)
EXTENDS Sequences

TLS == <<"plain", "secret", "plain">>

\* Inputs.
Dummy   == <<"plain">>
Tail_   == <<"plain">>
Systemd == <<"plain">>

\* Filters.  Modify has any number of conditions and of rules, here one each.
Condition == <<"plain", "map", "plain", "map", "map", "map", "map", "map", "map">>
Rule      == <<"map", "map", "plain", "map", "map", "map", "map">>

Grep           == <<"plain">>
RecordModifier == <<"plain">>
Kubernetes     == <<"plain">>
Modify         == Condition \o Rule
Nest           == <<"plain">>
ParserFilter   == <<"plain">>
Lua            == <<"script", "plain">>
Throttle       == <<"plain">>
RewriteTag     == <<"plain">>

\* Outputs.
Elasticsearch == <<"plain", "secret", "secret", "plain">> \o TLS
File          == <<"plain">>
Forward       == <<"plain", "secret", "secret", "plain">> \o TLS
HTTP          == <<"plain", "secret", "secret", "plain", "map", "plain">> \o TLS
Kafka         == <<"plain", "map">>
Null          == <<>>
Stdout        == <<"plain">>
TCP           == <<"plain">> \o TLS
Loki          == <<"plain", "secret", "secret", "secret", "plain">> \o TLS
Syslog        == <<"plain", "address", "plain">> \o TLS
DataDog       == <<"plain">>

\* Parsers, each followed by the decoders of the Parser object.
Decoders == <<"plain">>
JSON     == <<"plain">> \o Decoders
Regex    == <<"plain">> \o Decoders
LSTV     == <<"plain">> \o Decoders
Logfmt   == Decoders

Fields ==
  [dummy |-> Dummy, tail |-> Tail_, systemd |-> Systemd,
   grep |-> Grep, record_modifier |-> RecordModifier, kubernetes |-> Kubernetes,
   modify |-> Modify, nest |-> Nest, parser |-> ParserFilter, lua |-> Lua,
   throttle |-> Throttle, rewrite_tag |-> RewriteTag,
   es |-> Elasticsearch, file |-> File, forward |-> Forward, http |-> HTTP,
   kafka |-> Kafka, null |-> Null, stdout |-> Stdout, tcp |-> TCP, loki |-> Loki,
   syslog |-> Syslog, datadog |-> DataDog,
   json |-> JSON, regex |-> Regex, ltsv |-> LSTV, logfmt |-> Logfmt]

Inputs  == {"dummy", "tail", "systemd"}
Filters == {"grep", "record_modifier", "kubernetes", "modify", "nest", "parser",
            "lua", "throttle", "rewrite_tag"}
Outputs == {"es", "file", "forward", "http", "kafka", "null", "stdout", "tcp",
            "loki", "syslog", "datadog"}
Parsers == {"json", "regex", "ltsv", "logfmt"}
=============================================================================
