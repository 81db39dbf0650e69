---------------------------- MODULE ObjectTypes ----------------------------
(***************************************************************************)
(* The Go types of the custom resources (api/fluentbitoperator/v1alpha2    *)
(* and its plugins), as far as memory is concerned: which fields hold a    *)
(* reference, that is a pointer, a slice or a map, to memory of its own,   *)
(* and which hold a part that holds references.  All other fields are      *)
(* plain values, and a type without an entry has only those.               *)
(***************************************************************************)
EXTENDS Naturals, TLC

\* A mere value, or several of them.
Plain == "plain"

\* Fields F refer to memory that holds one or several values of a type ...
Refs(type, F) == [f \in F |-> [type |-> type, own |-> TRUE]]
\* ... of the type that bears the field's name ...
RefsNamed(F) == [f \in F |-> [type |-> f, own |-> TRUE]]
\* ... or are values of that type inside the struct itself.
Parts(type, F) == [f \in F |-> [type |-> type, own |-> FALSE]]

\* Types of Kubernetes: the metadata of an object, and any other one with
\* references somewhere inside.
ObjectMeta ==
    Refs(Plain, {"Labels", "Annotations", "Finalizers"})
    @@ Refs("Foreign", {"OwnerReferences"})
Foreign == Refs(Plain, {"inside"})

Object(spec) == Parts("ObjectMeta", {"ObjectMeta"}) @@ Parts(spec, {"Spec"})
List(object) == Parts("Foreign", {"ListMeta"}) @@ Refs(object, {"Items"})

-----------------------------------------------------------------------------
\* What plugins share.
Secret == Parts("ValueSource", {"ValueFrom"})
ValueSource == Parts("Foreign", {"SecretKeyRef"})
TLS == Refs(Plain, {"Verify", "Debug"}) @@ Refs("Secret", {"KeyPassword"})

\* Inputs (Tail_ for Tail, a name of Sequences).
Dummy == Refs(Plain, {"Rate", "Samples"})
Tail_ == Refs(Plain, {"ReadFromHead", "RefreshIntervalSeconds",
    "RotateWaitSeconds", "SkipLongLines", "Multiline",
    "MultilineFlushSeconds", "ParserN", "DockerMode",
    "DockerModeFlushSeconds", "DisableInotifyWatcher"})
Systemd == Refs(Plain, {"SystemdFilter"})

\* Filters.
Kubernetes == Refs(Plain, {"MergeLog", "MergeLogTrim", "KeepLog", "TLSDebug",
    "TLSVerify", "UseJournal", "K8SLoggingParser", "K8SLoggingExclude",
    "Labels", "Annotations", "DummyMeta"})
Lua == Parts("Foreign", {"Script"})
    @@ Refs(Plain, {"TypeIntKey", "ProtectedMode"})
Condition ==
    Refs(Plain, {"KeyDoesNotExist", "KeyValueEquals", "KeyValueDoesNotEqual",
    "KeyValueMatches", "KeyValueDoesNotMatch",
    "MatchingKeysHaveMatchingValues", "MatchingKeysDoNotHaveMatchingValues"})
Rule ==
    Refs(Plain, {"Set", "Add", "Rename", "HardRename", "Copy", "HardCopy"})
Modify == Refs("Condition", {"Conditions"}) @@ Refs("Rule", {"Rules"})
Nest == Refs(Plain, {"Wildcard"})
ParserFilter == Refs(Plain, {"PreserveKey", "ReserveData", "UnescapeKey"})
RecordModifier == Refs(Plain, {"Records", "RemoveKeys", "WhitelistKeys"})
RewriteTag == Refs(Plain, {"Rules"})
Throttle == Refs(Plain, {"Rate", "Window", "PrintStatus"})

\* Outputs.
DataDog == Refs(Plain, {"TLS", "IncludeTagKey"})
Elasticsearch ==
    Refs(Plain, {"Port", "LogstashFormat", "IncludeTagKey", "GenerateID",
        "ReplaceDots", "TraceOutput", "TraceError", "CurrentTimeIndex"})
    @@ Refs("Secret", {"HTTPUser", "HTTPPasswd"}) @@ Refs("TLS", {"TLS"})
Forward ==
    Refs(Plain, {"Port", "TimeAsInteger", "SendOptions", "RequireAckResponse",
        "EmptySharedKey"})
    @@ Refs("Secret", {"Username", "Password"}) @@ Refs("TLS", {"TLS"})
HTTP ==
    Refs("Secret", {"HTTPUser", "HTTPPasswd"}) @@ Refs("TLS", {"TLS"})
    @@ Refs(Plain, {"Port", "AllowDuplicatedHeaders", "Headers"})
Kafka == Refs(Plain, {"Rdkafka"})
Loki ==
    Refs(Plain, {"Port", "Labels", "LabelKeys"}) @@ Refs("TLS", {"TLS"})
    @@ Refs("Secret", {"HTTPUser", "HTTPPasswd", "TenantID"})
Syslog == Refs(Plain, {"Port", "SyslogMaxSize"}) @@ Refs("TLS", {"TLS"})
TCP == Refs(Plain, {"Port"}) @@ Refs("TLS", {"TLS"})

\* Parsers.
JSON == Refs(Plain, {"TimeKeep"})
LSTV == Refs(Plain, {"TimeKeep"})
Regex == Refs(Plain, {"TimeKeep"})

\* Specs.
InputSpec == RefsNamed({"Dummy", "Tail", "Systemd"})
FilterItem ==
    Refs(Plain, {"Grep"}) @@ Refs("ParserFilter", {"Parser"})
    @@ RefsNamed({"RecordModifier", "Kubernetes", "Modify", "Nest", "Lua",
        "Throttle", "RewriteTag"})
FilterSpec == Refs("FilterItem", {"FilterItems"})
OutputSpec ==
    Refs(Plain, {"File", "Null", "Stdout"})
    @@ RefsNamed({"Elasticsearch", "Forward", "HTTP", "Kafka", "TCP", "Loki",
        "Syslog", "DataDog"})
ParserSpec ==
    RefsNamed({"JSON", "Regex"}) @@ Refs("LSTV", {"LTSV"})
    @@ Refs(Plain, {"Logfmt", "Decoders"})
Service == Refs(Plain, {"Daemon", "FlushSeconds", "GraceSeconds", "HttpPort",
    "HttpServer"})
FluentBitConfigSpec ==
    RefsNamed({"Service"})
    @@ Parts("Foreign", {"InputSelector", "FilterSelector", "OutputSelector",
        "ParserSelector"})
FluentBitSpec ==
    Refs(Plain, {"Args", "ImagePullSecrets", "NodeSelector", "Secrets"})
    @@ Refs("Foreign", {"Affinity", "Tolerations"})
    @@ Parts("Foreign", {"PositionDB", "Resources"})

\* Objects and their lists.
Input == Object("InputSpec")
Filter == Object("FilterSpec")
Output == Object("OutputSpec")
Parser == Object("ParserSpec")
FluentBitConfig == Object("FluentBitConfigSpec")
FluentBit == Object("FluentBitSpec")
InputList == List("Input")
FilterList == List("Filter")
OutputList == List("Output")
ParserList == List("Parser")
FluentBitConfigList == List("FluentBitConfig")
FluentBitList == List("FluentBit")

Declared ==
    [ObjectMeta |-> ObjectMeta, Foreign |-> Foreign,
     Secret |-> Secret, ValueSource |-> ValueSource, TLS |-> TLS,
     Dummy |-> Dummy, Tail |-> Tail_, Systemd |-> Systemd,
     Kubernetes |-> Kubernetes, Lua |-> Lua, Condition |-> Condition,
     Rule |-> Rule, Modify |-> Modify, Nest |-> Nest,
     ParserFilter |-> ParserFilter, RecordModifier |-> RecordModifier,
     RewriteTag |-> RewriteTag, Throttle |-> Throttle, DataDog |-> DataDog,
     Elasticsearch |-> Elasticsearch, Forward |-> Forward, HTTP |-> HTTP,
     Kafka |-> Kafka, Loki |-> Loki, Syslog |-> Syslog, TCP |-> TCP,
     JSON |-> JSON, LSTV |-> LSTV, Regex |-> Regex, InputSpec |-> InputSpec,
     FilterItem |-> FilterItem, FilterSpec |-> FilterSpec,
     OutputSpec |-> OutputSpec, ParserSpec |-> ParserSpec,
     Service |-> Service, FluentBitConfigSpec |-> FluentBitConfigSpec,
     FluentBitSpec |-> FluentBitSpec, Input |-> Input, Filter |-> Filter,
     Output |-> Output, Parser |-> Parser,
     FluentBitConfig |-> FluentBitConfig, FluentBit |-> FluentBit,
     InputList |-> InputList, FilterList |-> FilterList,
     OutputList |-> OutputList, ParserList |-> ParserList,
     FluentBitConfigList |-> FluentBitConfigList,
     FluentBitList |-> FluentBitList]
=============================================================================
