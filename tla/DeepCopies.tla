----------------------------- MODULE DeepCopies -----------------------------
(***************************************************************************)
(* The generated functions DeepCopyInto (zz_generated.deepcopy.go): for    *)
(* each type, the fields whose references it follows.  It begins with an   *)
(* assignment of the whole struct, after which every reference of the copy *)
(* leads to the memory of the original; New replaces it by new memory and  *)
(* assigns the contents, Into copies these with their own DeepCopyInto.    *)
(* The files are committed: they are right only as long as somebody runs   *)
(* "make generate" after each change of a type.                            *)
(***************************************************************************)
EXTENDS ObjectTypes, Sequences

New(F) == [f \in F |-> "new"]
Into(F) == [f \in F |-> "into"]

ObjectMetaCopy ==
    New({"Labels", "Annotations", "Finalizers"}) @@ Into({"OwnerReferences"})
ForeignCopy == New({"inside"})
ObjectInto == Into({"ObjectMeta", "Spec"})
ListInto == Into({"ListMeta", "Items"})

-----------------------------------------------------------------------------
\* What plugins share.
SecretCopy == Into({"ValueFrom"})
ValueSourceCopy == Into({"SecretKeyRef"})
TLSCopy == New({"Verify", "Debug"}) @@ Into({"KeyPassword"})

\* Inputs.
DummyCopy == New({"Rate", "Samples"})
TailCopy ==
    New({"ReadFromHead", "RefreshIntervalSeconds", "RotateWaitSeconds",
    "SkipLongLines", "Multiline", "MultilineFlushSeconds", "ParserN",
    "DockerMode", "DockerModeFlushSeconds", "DisableInotifyWatcher"})
SystemdCopy == New({"SystemdFilter"})

\* Filters.
KubernetesCopy ==
    New({"MergeLog", "MergeLogTrim", "KeepLog", "TLSDebug", "TLSVerify",
    "UseJournal", "K8SLoggingParser", "K8SLoggingExclude", "Labels",
    "Annotations", "DummyMeta"})
LuaCopy == Into({"Script"}) @@ New({"TypeIntKey", "ProtectedMode"})
ConditionCopy ==
    New({"KeyDoesNotExist", "KeyValueEquals", "KeyValueDoesNotEqual",
    "KeyValueMatches", "KeyValueDoesNotMatch",
    "MatchingKeysHaveMatchingValues", "MatchingKeysDoNotHaveMatchingValues"})
RuleCopy == New({"Set", "Add", "Rename", "HardRename", "Copy", "HardCopy"})
\* Mutant: the elements of the new arrays are assigned.
ModifyCopy_Flat == New({"Conditions", "Rules"})
ModifyCopy == Into({"Conditions", "Rules"})
NestCopy == New({"Wildcard"})
ParserFilterCopy == New({"PreserveKey", "ReserveData", "UnescapeKey"})
RecordModifierCopy == New({"Records", "RemoveKeys", "WhitelistKeys"})
RewriteTagCopy == New({"Rules"})
ThrottleCopy == New({"Rate", "Window", "PrintStatus"})

\* Outputs.
DataDogCopy == New({"TLS", "IncludeTagKey"})
ElasticsearchCopy ==
    New({"Port", "LogstashFormat", "IncludeTagKey", "GenerateID",
    "ReplaceDots", "TraceOutput", "TraceError", "CurrentTimeIndex"}) @@
    Into({"HTTPUser", "HTTPPasswd", "TLS"})
ForwardCopy ==
    New({"Port", "TimeAsInteger", "SendOptions", "RequireAckResponse",
    "EmptySharedKey"}) @@ Into({"Username", "Password", "TLS"})
HTTPCopy ==
    New({"Port", "AllowDuplicatedHeaders", "Headers"})
    @@ Into({"HTTPUser", "HTTPPasswd", "TLS"})
KafkaCopy == New({"Rdkafka"})
LokiCopy ==
    New({"Port", "Labels", "LabelKeys"})
    @@ Into({"HTTPUser", "HTTPPasswd", "TenantID", "TLS"})
SyslogCopy == New({"Port", "SyslogMaxSize"}) @@ Into({"TLS"})
TCPCopy == New({"Port"}) @@ Into({"TLS"})

\* Parsers.
JSONCopy == New({"TimeKeep"})
LSTVCopy == New({"TimeKeep"})
RegexCopy == New({"TimeKeep"})

\* Specs.
InputSpecCopy == Into({"Dummy", "Tail", "Systemd"})
FilterItemCopy ==
    New({"Grep"})
    @@ Into({"RecordModifier", "Kubernetes", "Modify", "Nest", "Parser", "Lua",
        "Throttle", "RewriteTag"})
FilterSpecCopy == Into({"FilterItems"})
OutputSpecCopy ==
    New({"File", "Null", "Stdout"})
    @@ Into({"Elasticsearch", "Forward", "HTTP", "Kafka", "TCP", "Loki",
        "Syslog", "DataDog"})
ParserSpecCopy ==
    Into({"JSON", "Regex", "LTSV"}) @@ New({"Logfmt", "Decoders"})
ServiceCopy ==
    New({"Daemon", "FlushSeconds", "GraceSeconds", "HttpPort", "HttpServer"})
FluentBitConfigSpecCopy ==
    Into({"Service", "InputSelector", "FilterSelector", "OutputSelector",
    "ParserSelector"})
\* Mutant: generated before NodeSelector was added.
FluentBitSpecCopy_Outdated ==
    New({"Args", "ImagePullSecrets", "Secrets"})
    @@ Into({"PositionDB", "Resources", "Affinity", "Tolerations"})
FluentBitSpecCopy ==
    New({"Args", "ImagePullSecrets", "NodeSelector", "Secrets"}) @@
    Into({"PositionDB", "Resources", "Affinity", "Tolerations"})

\* Objects and their lists.
InputCopy == ObjectInto
FilterCopy == ObjectInto
OutputCopy == ObjectInto
ParserCopy == ObjectInto
FluentBitConfigCopy == ObjectInto
FluentBitCopy == ObjectInto
InputListCopy == ListInto
FilterListCopy == ListInto
OutputListCopy == ListInto
ParserListCopy == ListInto
FluentBitConfigListCopy == ListInto
FluentBitListCopy == ListInto

Copied ==
    [ObjectMeta |-> ObjectMetaCopy, Foreign |-> ForeignCopy,
     Secret |-> SecretCopy, ValueSource |-> ValueSourceCopy,
     TLS |-> TLSCopy, Dummy |-> DummyCopy, Tail |-> TailCopy,
     Systemd |-> SystemdCopy, Kubernetes |-> KubernetesCopy,
     Lua |-> LuaCopy, Condition |-> ConditionCopy, Rule |-> RuleCopy,
     Modify |-> ModifyCopy, Nest |-> NestCopy,
     ParserFilter |-> ParserFilterCopy,
     RecordModifier |-> RecordModifierCopy, RewriteTag |-> RewriteTagCopy,
     Throttle |-> ThrottleCopy, DataDog |-> DataDogCopy,
     Elasticsearch |-> ElasticsearchCopy, Forward |-> ForwardCopy,
     HTTP |-> HTTPCopy, Kafka |-> KafkaCopy, Loki |-> LokiCopy,
     Syslog |-> SyslogCopy, TCP |-> TCPCopy, JSON |-> JSONCopy,
     LSTV |-> LSTVCopy, Regex |-> RegexCopy, InputSpec |-> InputSpecCopy,
     FilterItem |-> FilterItemCopy, FilterSpec |-> FilterSpecCopy,
     OutputSpec |-> OutputSpecCopy, ParserSpec |-> ParserSpecCopy,
     Service |-> ServiceCopy,
     FluentBitConfigSpec |-> FluentBitConfigSpecCopy,
     FluentBitSpec |-> FluentBitSpecCopy, Input |-> InputCopy,
     Filter |-> FilterCopy, Output |-> OutputCopy, Parser |-> ParserCopy,
     FluentBitConfig |-> FluentBitConfigCopy, FluentBit |-> FluentBitCopy,
     InputList |-> InputListCopy, FilterList |-> FilterListCopy,
     OutputList |-> OutputListCopy, ParserList |-> ParserListCopy,
     FluentBitConfigList |-> FluentBitConfigListCopy,
     FluentBitList |-> FluentBitListCopy]

-----------------------------------------------------------------------------
\* A location inside a value of type t is the sequence of the fields that
\* lead to it; none is longer than MaxDepth.
MaxDepth == 9
Types == DOMAIN Declared \cup {Plain}
Fields(t) ==
    IF t \in DOMAIN Declared THEN Declared[t] ELSE [f \in {} |-> Plain]

Prefixed(f, locations) == {<<f>> \o l : l \in locations}

LocationsIn[t \in Types, depth \in 0 .. MaxDepth] ==
    {<<>>} \cup UNION
        {Prefixed(f, LocationsIn[Fields(t)[f].type, depth - 1]) : f \in DOMAIN Fields(t)}

\* Of these, a copy has for itself those on whose way it has replaced every
\* reference.  A value that is only assigned shares whatever it refers to.
Mode(t, f) == IF f \in DOMAIN Copied[t] THEN Copied[t][f] ELSE "assigned"

CopiedIn[t \in Types, into \in BOOLEAN, depth \in 0 .. MaxDepth] ==
    LET mode(f) == IF into THEN Mode(t, f) ELSE "assigned"
        followed == {f \in DOMAIN Fields(t) : Fields(t)[f].own => mode(f) # "assigned"}
    IN  {<<>>} \cup UNION
            {Prefixed(f, CopiedIn[Fields(t)[f].type, mode(f) = "into", depth - 1]) :
                f \in followed}
=============================================================================
