---------------------------- MODULE VaultMessages ----------------------------
(* The messages of the vault's four gRPC services, generated from           *)
(* vault-interface/proto into vault-interface/src/generated: for each       *)
(* message its fields, in the order encode writes them.  Every message is   *)
(* generated by the same templates, which WireFormat translates.            *)
EXTENDS Naturals, SequencesExt

\* A field: its name, number, what it holds and how it occurs.
Field(name, no, kind, rule) == [name |-> name, no |-> no, kind |-> kind, rule |-> rule]
Plain(name, no, kind) == Field(name, no, kind, "plain")          \* always there
Optional(name, no, kind) == Field(name, no, kind, "optional")    \* may be undefined
Repeated(name, no, kind) == Field(name, no, kind, "repeated")
MapOf(name, no, entry) == Field(name, no, entry, "map")          \* entries: key, value

\* String fields with the given names, numbered from 1.
Texts(names) == [i \in DOMAIN names |-> Plain(names[i], i, "string")]

-----------------------------------------------------------------------------
(* google/protobuf *)
Empty == <<>>
Timestamp == <<Plain("seconds", 1, "int64"), Plain("nanos", 2, "int32")>>
Struct == <<MapOf("fields", 1, "Struct_FieldsEntry")>>
Struct_FieldsEntry == <<Plain("key", 1, "string"), Optional("value", 2, "any")>>
ListValue == <<Repeated("values", 1, "any")>>
Value == <<Optional("null_value", 1, "NullValue"), Optional("number_value", 2, "double"),
           Optional("string_value", 3, "string"), Optional("bool_value", 4, "bool"),
           Optional("struct_value", 5, "object"), Optional("list_value", 6, "list")>>

(* queue.proto *)
InitInstanceParams == <<>>
InitInstanceResponse == Texts(<<"instanceId">>)
QueueJob == Texts(<<"projectUuid", "specName", "jobId">>)
            \o <<Optional("contextId", 4, "string"), Plain("jobOptionsStr", 5, "string")>>
SignUp == Texts(<<"projectUuid", "specName">>)
WorkerStopped == Texts(<<"projectUuid", "specName">>)
ProgressUpdate == Append(Texts(<<"projectUuid", "specName", "jobId">>),
                         Plain("progress", 4, "int32"))
JobCompleted == Texts(<<"projectUuid", "specName", "jobId">>)
JobFailed == Texts(<<"projectUuid", "specName", "jobId", "errorStr">>)
FromWorker == Texts(<<"workerId">>) \o
  <<Optional("signUp", 2, "SignUp"), Optional("progressUpdate", 3, "ProgressUpdate"),
    Optional("jobCompleted", 4, "JobCompleted"), Optional("jobFailed", 5, "JobFailed"),
    Optional("workerStopped", 6, "WorkerStopped")>>
ToWorker == Append(Texts(<<"workerId">>), Optional("job", 2, "QueueJob"))

(* capacity.proto *)
SpecCapacity == <<Plain("specName", 1, "string"), Plain("capacity", 2, "int32")>>
CapacityLog == <<Repeated("specCapacity", 1, "SpecCapacity")>>
RespondToCapacityLogMessage == Texts(<<"projectUuid">>)
ReportAsInstanceMessage == Texts(<<"projectUuid", "instanceId">>)
SpecNameAndCapacity == <<Plain("specName", 1, "string"), Plain("capacity", 2, "int32")>>
InstanceResponseToCapacityQueryMessage ==
  Append(Texts(<<"correlationId", "projectUuid", "instanceId">>),
         Repeated("specNameAndCapacity", 4, "SpecNameAndCapacity"))
InstanceResponseToProvisionMessage ==
  Texts(<<"correlationId", "projectUuid", "instanceId", "specName">>) \o
  <<Plain("status", 5, "int32"), Plain("numberOfWorkersStarted", 6, "int32")>>
ProvisionCommand == <<Plain("specName", 1, "string"), Plain("numberOfWorkersNeeded", 2, "int32")>>
QueryCapacityCommand == <<>>
NoCapacityWarning == <<Plain("specName", 3, "string")>>
CommandToInstance == Texts(<<"projectUuid", "instanceId", "correlationId">>) \o
  <<Optional("provision", 4, "ProvisionCommand"), Optional("queryCapacity", 5, "QueryCapacityCommand"),
    Optional("noCapacityWarning", 6, "NoCapacityWarning")>>

(* stream.proto *)
EnsureStreamRequest == Append(Texts(<<"project_uuid", "stream_id">>),
                              Optional("json_schema_str", 3, "string"))
JobInfo == Texts(<<"jobId", "outputTag">>)
ParentDataPointInfo == Texts(<<"streamId", "datapointId">>)
StreamPubMessage == Texts(<<"projectUuid", "streamId", "dataStr">>) \o
  <<Repeated("parentDatapoints", 4, "ParentDataPointInfo"), Optional("jobInfo", 5, "JobInfo")>>
StreamPubSuccessResult == Texts(<<"chunkId", "datapointId">>)
StreamPubValidationFailure == Texts(<<"errorMessage", "datapointId">>)
StreamPubResult == <<Optional("success", 1, "StreamPubSuccessResult"),
                     Optional("validationFailure", 2, "StreamPubValidationFailure")>>
SubRequest == Append(Texts(<<"projectUuid", "uniqueName">>), Plain("subType", 5, "SubType"))
StreamDatapoint == <<Plain("timestamp", 1, "uint64"), Plain("chunkId", 2, "string"),
                     Plain("dataStr", 3, "string"), Plain("datapointId", 4, "string")>>
AllValuesRequest == Texts(<<"projectUuid", "uniqueName">>)
ValuesByReverseIndexRequest == Append(Texts(<<"projectUuid", "uniqueName">>),
                                      Plain("lastN", 3, "uint64"))
DataPointOrNull == <<Optional("datapoint", 1, "StreamDatapoint"), Optional("null_response", 2, "Empty")>>
ValuesByReverseIndexResponse == <<Repeated("datapoints", 1, "DataPointOrNull")>>
LastValueRequest == Texts(<<"projectUuid", "uniqueName">>)
LastValueResponse == <<Optional("datapoint", 1, "StreamDatapoint"), Optional("null_response", 2, "Empty")>>

(* db.proto *)
JobRec == Texts(<<"project_uuid", "spec_name", "job_id">>) \o
  <<Optional("time_created", 4, "Date"), Optional("job_params", 5, "object")>>
GetJobRecRequest == Texts(<<"projectUuid", "specName", "jobId">>)
JobRecAndStatus == <<Optional("rec", 1, "JobRec"), Plain("status", 2, "string")>>
GetJobRecResponse == <<Optional("rec", 1, "JobRecAndStatus"), Optional("null_response", 2, "Empty")>>
GetLiveJobTestRequest == Texts(<<"id">>)
GetLiveJobTestResponse == Texts(<<"projectUuid", "pipeName", "jobId">>)
EnsureJobAndStatusAndConnectorRecsRequest ==
  Texts(<<"projectUuid", "specName", "jobId", "jobOptionsStr">>) \o
  <<Optional("parentJobId", 5, "string"), Optional("uniqueSpecLabel", 6, "string"),
    MapOf("inputStreamIdOverridesByTag", 7, "InputStreamIdOverridesByTagEntry"),
    MapOf("outputStreamIdOverridesByTag", 8, "OutputStreamIdOverridesByTagEntry")>>
InputStreamIdOverridesByTagEntry == Texts(<<"key", "value">>)
OutputStreamIdOverridesByTagEntry == Texts(<<"key", "value">>)
UpdateJobInstantiatedGraphRequest ==
  Texts(<<"projectUuid", "specName", "jobId", "instantiatedGraphStr">>)
GetJobDatapointsRequest == Texts(<<"projectUuid", "specName", "jobId", "key">>) \o
  <<Plain("ioType", 5, "ConnectorType"), Optional("order", 7, "Order"), Optional("limit", 8, "int32")>>
DatapointRecord == Texts(<<"datapointId", "dataStr">>)
GetJobDatapointsResponse == <<Repeated("points", 1, "DatapointRecord")>>
GetJobStreamConnectorRecsRequest == Texts(<<"projectUuid", "jobId">>) \o
  <<Optional("key", 3, "string"), Optional("connectorType", 4, "ConnectorType")>>
JobStreamConnectorRecord == Texts(<<"project_uuid", "job_id">>) \o
  <<Optional("time_created", 3, "Date"), Plain("stream_id", 4, "string"),
    Plain("key", 5, "string"), Plain("connector_type", 6, "ConnectorType")>>
GetJobStreamConnectorRecsResponse == <<Repeated("records", 1, "JobStreamConnectorRecord")>>
AppendJobStatusRecRequest == Texts(<<"projectUuid", "specName", "jobId", "jobStatus">>)
GetParentJobRecRequest == Texts(<<"projectUuid", "childJobId">>)
ParentJobRec == Texts(<<"project_uuid", "parent_job_id", "spec_name">>) \o
  <<Optional("unique_spec_label", 4, "string"), Optional("time_created", 5, "Date"),
    Optional("job_params_str", 6, "string")>>
GetParentJobRecResponse == <<Optional("rec", 1, "ParentJobRec"), Optional("null_response", 2, "Empty")>>

-----------------------------------------------------------------------------
\* Every message, by name.
Interface ==
  [Empty |-> Empty, Timestamp |-> Timestamp, Struct |-> Struct,
   Struct_FieldsEntry |-> Struct_FieldsEntry, ListValue |-> ListValue, Value |-> Value,
   InitInstanceParams |-> InitInstanceParams, InitInstanceResponse |-> InitInstanceResponse,
   QueueJob |-> QueueJob, SignUp |-> SignUp, WorkerStopped |-> WorkerStopped,
   ProgressUpdate |-> ProgressUpdate, JobCompleted |-> JobCompleted, JobFailed |-> JobFailed,
   FromWorker |-> FromWorker, ToWorker |-> ToWorker,
   SpecCapacity |-> SpecCapacity, CapacityLog |-> CapacityLog,
   RespondToCapacityLogMessage |-> RespondToCapacityLogMessage,
   ReportAsInstanceMessage |-> ReportAsInstanceMessage,
   SpecNameAndCapacity |-> SpecNameAndCapacity,
   InstanceResponseToCapacityQueryMessage |-> InstanceResponseToCapacityQueryMessage,
   InstanceResponseToProvisionMessage |-> InstanceResponseToProvisionMessage,
   ProvisionCommand |-> ProvisionCommand, QueryCapacityCommand |-> QueryCapacityCommand,
   NoCapacityWarning |-> NoCapacityWarning, CommandToInstance |-> CommandToInstance,
   EnsureStreamRequest |-> EnsureStreamRequest, JobInfo |-> JobInfo,
   ParentDataPointInfo |-> ParentDataPointInfo, StreamPubMessage |-> StreamPubMessage,
   StreamPubSuccessResult |-> StreamPubSuccessResult,
   StreamPubValidationFailure |-> StreamPubValidationFailure,
   StreamPubResult |-> StreamPubResult, SubRequest |-> SubRequest,
   StreamDatapoint |-> StreamDatapoint, AllValuesRequest |-> AllValuesRequest,
   ValuesByReverseIndexRequest |-> ValuesByReverseIndexRequest,
   DataPointOrNull |-> DataPointOrNull,
   ValuesByReverseIndexResponse |-> ValuesByReverseIndexResponse,
   LastValueRequest |-> LastValueRequest, LastValueResponse |-> LastValueResponse,
   JobRec |-> JobRec, GetJobRecRequest |-> GetJobRecRequest, JobRecAndStatus |-> JobRecAndStatus,
   GetJobRecResponse |-> GetJobRecResponse, GetLiveJobTestRequest |-> GetLiveJobTestRequest,
   GetLiveJobTestResponse |-> GetLiveJobTestResponse,
   EnsureJobAndStatusAndConnectorRecsRequest |-> EnsureJobAndStatusAndConnectorRecsRequest,
   InputStreamIdOverridesByTagEntry |-> InputStreamIdOverridesByTagEntry,
   OutputStreamIdOverridesByTagEntry |-> OutputStreamIdOverridesByTagEntry,
   UpdateJobInstantiatedGraphRequest |-> UpdateJobInstantiatedGraphRequest,
   GetJobDatapointsRequest |-> GetJobDatapointsRequest, DatapointRecord |-> DatapointRecord,
   GetJobDatapointsResponse |-> GetJobDatapointsResponse,
   GetJobStreamConnectorRecsRequest |-> GetJobStreamConnectorRecsRequest,
   JobStreamConnectorRecord |-> JobStreamConnectorRecord,
   GetJobStreamConnectorRecsResponse |-> GetJobStreamConnectorRecsResponse,
   AppendJobStatusRecRequest |-> AppendJobStatusRecRequest,
   GetParentJobRecRequest |-> GetParentJobRecRequest, ParentJobRec |-> ParentJobRec,
   GetParentJobRecResponse |-> GetParentJobRecResponse]

-----------------------------------------------------------------------------
(* The services *)

\* A method: what it takes and what it returns.
Method(request, response) == [request |-> request, response |-> response]
QueueServiceDefinition ==
  {Method("QueueJob", "Empty"), Method("FromWorker", "ToWorker"),
   Method("InitInstanceParams", "InitInstanceResponse")}
CacapcityServiceDefinition ==
  {Method("ReportAsInstanceMessage", "CommandToInstance"),
   Method("InstanceResponseToCapacityQueryMessage", "Empty"),
   Method("InstanceResponseToProvisionMessage", "Empty"),
   Method("RespondToCapacityLogMessage", "CapacityLog")}
StreamServiceDefinition ==
  {Method("StreamPubMessage", "StreamPubResult"), Method("SubRequest", "StreamDatapoint"),
   Method("ValuesByReverseIndexRequest", "ValuesByReverseIndexResponse"),
   Method("AllValuesRequest", "ValuesByReverseIndexResponse"),
   Method("LastValueRequest", "LastValueResponse"), Method("EnsureStreamRequest", "Empty")}
DBServiceDefinition ==
  {Method("GetJobRecRequest", "GetJobRecResponse"),
   Method("EnsureJobAndStatusAndConnectorRecsRequest", "Empty"),
   Method("UpdateJobInstantiatedGraphRequest", "Empty"),
   Method("GetJobDatapointsRequest", "GetJobDatapointsResponse"),
   Method("GetJobStreamConnectorRecsRequest", "GetJobStreamConnectorRecsResponse"),
   Method("AppendJobStatusRecRequest", "Empty"),
   Method("GetParentJobRecRequest", "GetParentJobRecResponse")}

Rpcs == QueueServiceDefinition \union CacapcityServiceDefinition
           \union StreamServiceDefinition \union DBServiceDefinition
=============================================================================
