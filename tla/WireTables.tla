----------------------------- MODULE WireTables -----------------------------
(***************************************************************************)
(* The messages of the servers and of the store, as their generated Go code *)
(* treats them (task/task.pb.go, posting/types/types.pb.go,                 *)
(* worker/payload.pb.go, query/graph/graphresponse.pb.go).  MarshalTo, Size *)
(* and Unmarshal are three pieces of code that must agree field by field;   *)
(* each has its own table here, read off its own body:                      *)
(*   XMarshal    <<field, tag byte, how it is written>> in order of writing *)
(*   XSize       <<field, how its size is counted>>                         *)
(*   XUnmarshal  <<field number, field, how it is read>>                    *)
(* and, for a message inside a message, its type.  GValue is graph.Value,   *)
(* whose fields are the alternatives of a oneof.  Module Wire interprets    *)
(* the tables.                                                              *)
(***************************************************************************)
(* task/task.pb.go *)
ListMarshal == << <<"Uids", 10, "packedFixed">> >>
ListSize == << <<"Uids", "packedFixed">> >>
ListUnmarshal == << <<1, "Uids", "packedFixed">> >>

ValueMarshal == << <<"Val", 10, "bytes">>, <<"ValType", 16, "varint">> >>
ValueSize == << <<"Val", "bytes">>, <<"ValType", "varint">> >>
ValueUnmarshal == << <<1, "Val", "bytes">>, <<2, "ValType", "u32">> >>

QueryMarshal == << <<"Attr", 10, "bytes">>, <<"Count", 16, "varint">>, <<"Offset", 24, "varint">>,
    <<"AfterUid", 33, "fixed">>, <<"DoCount", 40, "bool">>, <<"Uids", 50, "packedFixed">>,
    <<"SrcFunc", 58, "strings">> >>
QuerySize == << <<"Attr", "bytes">>, <<"Count", "varint">>, <<"Offset", "varint">>,
    <<"AfterUid", "fixed">>, <<"DoCount", "bool">>, <<"Uids", "packedFixed">>,
    <<"SrcFunc", "strings">> >>
QueryUnmarshal == << <<1, "Attr", "bytes">>, <<2, "Count", "i32">>, <<3, "Offset", "i32">>,
    <<4, "AfterUid", "fixed">>, <<5, "DoCount", "bool">>, <<6, "Uids", "packedFixed">>,
    <<7, "SrcFunc", "strings">> >>

ResultMarshal == << <<"UidMatrix", 10, "messages", "List">>,
    <<"Values", 18, "messages", "Value">>, <<"Counts", 26, "packedVarint">>,
    <<"IntersectDest", 32, "bool">> >>
ResultSize == << <<"UidMatrix", "messages", "List">>, <<"Values", "messages", "Value">>,
    <<"Counts", "packedVarint">>, <<"IntersectDest", "bool">> >>
ResultUnmarshal == << <<1, "UidMatrix", "messages", "List">>,
    <<2, "Values", "messages", "Value">>, <<3, "Counts", "packedU32">>,
    <<4, "IntersectDest", "bool">> >>

SortMarshal == << <<"Attr", 10, "bytes">>, <<"UidMatrix", 18, "messages", "List">>,
    <<"Count", 24, "varint">>, <<"Offset", 32, "varint">> >>
SortSize == << <<"Attr", "bytes">>, <<"UidMatrix", "messages", "List">>, <<"Count", "varint">>,
    <<"Offset", "varint">> >>
SortUnmarshal == << <<1, "Attr", "bytes">>, <<2, "UidMatrix", "messages", "List">>,
    <<3, "Count", "i32">>, <<4, "Offset", "i32">> >>

SortResultMarshal == << <<"UidMatrix", 10, "messages", "List">> >>
SortResultSize == << <<"UidMatrix", "messages", "List">> >>
SortResultUnmarshal == << <<1, "UidMatrix", "messages", "List">> >>

NumMarshal == << <<"Group", 8, "varint">>, <<"Val", 16, "varint">>,
    <<"Uids", 26, "packedVarint">> >>
NumSize == << <<"Group", "varint">>, <<"Val", "varint">>, <<"Uids", "packedVarint">> >>
NumUnmarshal == << <<1, "Group", "u32">>, <<2, "Val", "i64">>, <<3, "Uids", "packedU64">> >>

RaftContextMarshal == << <<"Id", 9, "fixed">>, <<"Group", 16, "varint">>,
    <<"Addr", 26, "bytes">> >>
RaftContextSize == << <<"Id", "fixed">>, <<"Group", "varint">>, <<"Addr", "bytes">> >>
RaftContextUnmarshal == << <<1, "Id", "fixed">>, <<2, "Group", "u32">>, <<3, "Addr", "bytes">> >>

MembershipMarshal == << <<"Id", 9, "fixed">>, <<"Group", 16, "varint">>, <<"Addr", 26, "bytes">>,
    <<"Leader", 32, "bool">>, <<"AmDead", 40, "bool">>, <<"LastUpdate", 48, "varint">> >>
MembershipSize == << <<"Id", "fixed">>, <<"Group", "varint">>, <<"Addr", "bytes">>,
    <<"Leader", "bool">>, <<"AmDead", "bool">>, <<"LastUpdate", "varint">> >>
MembershipUnmarshal == << <<1, "Id", "fixed">>, <<2, "Group", "u32">>, <<3, "Addr", "bytes">>,
    <<4, "Leader", "bool">>, <<5, "AmDead", "bool">>, <<6, "LastUpdate", "u64">> >>

MembershipUpdateMarshal == << <<"Members", 10, "messages", "Membership">>,
    <<"LastUpdate", 16, "varint">>, <<"Redirect", 24, "bool">>, <<"RedirectAddr", 34, "bytes">> >>
MembershipUpdateSize == << <<"Members", "messages", "Membership">>, <<"LastUpdate", "varint">>,
    <<"Redirect", "bool">>, <<"RedirectAddr", "bytes">> >>
MembershipUpdateUnmarshal == << <<1, "Members", "messages", "Membership">>,
    <<2, "LastUpdate", "u64">>, <<3, "Redirect", "bool">>, <<4, "RedirectAddr", "bytes">> >>

DirectedEdgeMarshal == << <<"Entity", 9, "fixed">>, <<"Attr", 18, "bytes">>,
    <<"Value", 26, "bytes">>, <<"ValueType", 32, "varint">>, <<"ValueId", 41, "fixed">>,
    <<"Label", 50, "bytes">> >>
DirectedEdgeSize == << <<"Entity", "fixed">>, <<"Attr", "bytes">>, <<"Value", "bytes">>,
    <<"ValueType", "varint">>, <<"ValueId", "fixed">>, <<"Label", "bytes">> >>
DirectedEdgeUnmarshal == << <<1, "Entity", "fixed">>, <<2, "Attr", "bytes">>,
    <<3, "Value", "bytes">>, <<4, "ValueType", "u32">>, <<5, "ValueId", "fixed">>,
    <<6, "Label", "bytes">> >>

MutationsMarshal == << <<"GroupId", 8, "varint">>, <<"Set", 18, "messages", "DirectedEdge">>,
    <<"Del", 26, "messages", "DirectedEdge">> >>
MutationsSize == << <<"GroupId", "varint">>, <<"Set", "messages", "DirectedEdge">>,
    <<"Del", "messages", "DirectedEdge">> >>
MutationsUnmarshal == << <<1, "GroupId", "u32">>, <<2, "Set", "messages", "DirectedEdge">>,
    <<3, "Del", "messages", "DirectedEdge">> >>

ProposalMarshal == << <<"Id", 8, "varint">>, <<"Mutations", 18, "message", "Mutations">>,
    <<"Membership", 26, "message", "Membership">> >>
ProposalSize == << <<"Id", "varint">>, <<"Mutations", "message", "Mutations">>,
    <<"Membership", "message", "Membership">> >>
ProposalUnmarshal == << <<1, "Id", "u32">>, <<2, "Mutations", "message", "Mutations">>,
    <<3, "Membership", "message", "Membership">> >>

KVMarshal == << <<"Key", 10, "bytes">>, <<"Val", 18, "bytes">> >>
KVSize == << <<"Key", "bytes">>, <<"Val", "bytes">> >>
KVUnmarshal == << <<1, "Key", "bytes">>, <<2, "Val", "bytes">> >>

KCMarshal == << <<"Key", 10, "bytes">>, <<"Checksum", 18, "bytes">> >>
KCSize == << <<"Key", "bytes">>, <<"Checksum", "bytes">> >>
KCUnmarshal == << <<1, "Key", "bytes">>, <<2, "Checksum", "bytes">> >>

GroupKeysMarshal == << <<"GroupId", 8, "varint">>, <<"Keys", 18, "messages", "KC">> >>
GroupKeysSize == << <<"GroupId", "varint">>, <<"Keys", "messages", "KC">> >>
GroupKeysUnmarshal == << <<1, "GroupId", "u64">>, <<2, "Keys", "messages", "KC">> >>

(* posting/types/types.pb.go *)
PostingMarshal == << <<"Uid", 9, "fixed">>, <<"Value", 18, "bytes">>, <<"ValType", 24, "varint">>,
    <<"Label", 34, "bytes">>, <<"Commit", 40, "varint">>, <<"Op", 96, "varint">> >>
PostingSize == << <<"Uid", "fixed">>, <<"Value", "bytes">>, <<"ValType", "varint">>,
    <<"Label", "bytes">>, <<"Commit", "varint">>, <<"Op", "varint">> >>
PostingUnmarshal == << <<1, "Uid", "fixed">>, <<2, "Value", "bytes">>, <<3, "ValType", "u32">>,
    <<4, "Label", "bytes">>, <<5, "Commit", "u64">>, <<12, "Op", "u32">> >>

PostingListMarshal == << <<"Postings", 10, "messages", "Posting">>, <<"Checksum", 18, "bytes">>,
    <<"Commit", 24, "varint">> >>
PostingListSize == << <<"Postings", "messages", "Posting">>, <<"Checksum", "bytes">>,
    <<"Commit", "varint">> >>
PostingListUnmarshal == << <<1, "Postings", "messages", "Posting">>, <<2, "Checksum", "bytes">>,
    <<3, "Commit", "u64">> >>

(* worker/payload.pb.go *)
PayloadMarshal == << <<"Data", 10, "bytes">> >>
PayloadSize == << <<"Data", "bytes">> >>
PayloadUnmarshal == << <<1, "Data", "bytes">> >>

BackupPayloadMarshal == << <<"ReqId", 8, "varint">>, <<"GroupId", 16, "varint">>,
    <<"Status", 24, "varint">> >>
BackupPayloadSize == << <<"ReqId", "varint">>, <<"GroupId", "varint">>, <<"Status", "varint">> >>
BackupPayloadUnmarshal == << <<1, "ReqId", "u64">>, <<2, "GroupId", "u32">>,
    <<3, "Status", "i32">> >>

(* query/graph/graphresponse.pb.go *)
NQuadMarshal == << <<"Sub", 10, "bytes">>, <<"Pred", 18, "bytes">>, <<"ObjId", 26, "bytes">>,
    <<"Value", 34, "message", "GValue">>, <<"Label", 42, "bytes">> >>
NQuadSize == << <<"Sub", "bytes">>, <<"Pred", "bytes">>, <<"ObjId", "bytes">>,
    <<"Value", "message", "GValue">>, <<"Label", "bytes">> >>
NQuadUnmarshal == << <<1, "Sub", "bytes">>, <<2, "Pred", "bytes">>, <<3, "ObjId", "bytes">>,
    <<4, "Value", "message", "GValue">>, <<5, "Label", "bytes">> >>

GValueMarshal == << <<"BytesVal", 10, "bytes">>, <<"IntVal", 16, "varint">>,
    <<"BoolVal", 24, "bool">>, <<"StrVal", 34, "bytes">>, <<"DoubleVal", 41, "fixed">>,
    <<"GeoVal", 50, "bytes">> >>
GValueSize == << <<"BytesVal", "bytes">>, <<"IntVal", "varint">>, <<"BoolVal", "bool">>,
    <<"StrVal", "bytes">>, <<"DoubleVal", "fixed">>, <<"GeoVal", "bytes">> >>
GValueUnmarshal == << <<1, "BytesVal", "bytes">>, <<2, "IntVal", "i32">>,
    <<3, "BoolVal", "bool">>, <<4, "StrVal", "bytes">>, <<5, "DoubleVal", "fixed">>,
    <<6, "GeoVal", "bytes">> >>

MutationMarshal == << <<"Set", 10, "messages", "NQuad">>, <<"Del", 18, "messages", "NQuad">> >>
MutationSize == << <<"Set", "messages", "NQuad">>, <<"Del", "messages", "NQuad">> >>
MutationUnmarshal == << <<1, "Set", "messages", "NQuad">>, <<2, "Del", "messages", "NQuad">> >>

RequestMarshal == << <<"Query", 10, "bytes">>, <<"Mutation", 18, "message", "Mutation">> >>
RequestSize == << <<"Query", "bytes">>, <<"Mutation", "message", "Mutation">> >>
RequestUnmarshal == << <<1, "Query", "bytes">>, <<2, "Mutation", "message", "Mutation">> >>

LatencyMarshal == << <<"Parsing", 10, "bytes">>, <<"Processing", 18, "bytes">>,
    <<"Pb", 26, "bytes">> >>
LatencySize == << <<"Parsing", "bytes">>, <<"Processing", "bytes">>, <<"Pb", "bytes">> >>
LatencyUnmarshal == << <<1, "Parsing", "bytes">>, <<2, "Processing", "bytes">>,
    <<3, "Pb", "bytes">> >>

PropertyMarshal == << <<"Prop", 10, "bytes">>, <<"Value", 18, "message", "GValue">> >>
PropertySize == << <<"Prop", "bytes">>, <<"Value", "message", "GValue">> >>
PropertyUnmarshal == << <<1, "Prop", "bytes">>, <<2, "Value", "message", "GValue">> >>

NodeMarshal == << <<"Uid", 8, "varint">>, <<"Xid", 18, "bytes">>, <<"Attribute", 26, "bytes">>,
    <<"Properties", 34, "messages", "Property">>, <<"Children", 42, "messages", "Node">> >>
NodeSize == << <<"Uid", "varint">>, <<"Xid", "bytes">>, <<"Attribute", "bytes">>,
    <<"Properties", "messages", "Property">>, <<"Children", "messages", "Node">> >>
NodeUnmarshal == << <<1, "Uid", "u64">>, <<2, "Xid", "bytes">>, <<3, "Attribute", "bytes">>,
    <<4, "Properties", "messages", "Property">>, <<5, "Children", "messages", "Node">> >>

ResponseMarshal == << <<"N", 10, "message", "Node">>, <<"L", 18, "message", "Latency">>,
    <<"AssignedUids", 26, "map">> >>
ResponseSize == << <<"N", "message", "Node">>, <<"L", "message", "Latency">>,
    <<"AssignedUids", "map">> >>
ResponseUnmarshal == << <<1, "N", "message", "Node">>, <<2, "L", "message", "Latency">>,
    <<3, "AssignedUids", "map">> >>

(* The tables by type. *)
MarshalTable == [List |-> ListMarshal, Value |-> ValueMarshal, Query |-> QueryMarshal,
    Result |-> ResultMarshal, Sort |-> SortMarshal, SortResult |-> SortResultMarshal,
    Num |-> NumMarshal, RaftContext |-> RaftContextMarshal, Membership |-> MembershipMarshal,
    MembershipUpdate |-> MembershipUpdateMarshal, DirectedEdge |-> DirectedEdgeMarshal,
    Mutations |-> MutationsMarshal, Proposal |-> ProposalMarshal, KV |-> KVMarshal,
    KC |-> KCMarshal, GroupKeys |-> GroupKeysMarshal, Posting |-> PostingMarshal,
    PostingList |-> PostingListMarshal, Payload |-> PayloadMarshal,
    BackupPayload |-> BackupPayloadMarshal, NQuad |-> NQuadMarshal, GValue |-> GValueMarshal,
    Mutation |-> MutationMarshal, Request |-> RequestMarshal, Latency |-> LatencyMarshal,
    Property |-> PropertyMarshal, Node |-> NodeMarshal, Response |-> ResponseMarshal]
SizeTable == [List |-> ListSize, Value |-> ValueSize, Query |-> QuerySize,
    Result |-> ResultSize, Sort |-> SortSize, SortResult |-> SortResultSize, Num |-> NumSize,
    RaftContext |-> RaftContextSize, Membership |-> MembershipSize,
    MembershipUpdate |-> MembershipUpdateSize, DirectedEdge |-> DirectedEdgeSize,
    Mutations |-> MutationsSize, Proposal |-> ProposalSize, KV |-> KVSize, KC |-> KCSize,
    GroupKeys |-> GroupKeysSize, Posting |-> PostingSize, PostingList |-> PostingListSize,
    Payload |-> PayloadSize, BackupPayload |-> BackupPayloadSize, NQuad |-> NQuadSize,
    GValue |-> GValueSize, Mutation |-> MutationSize, Request |-> RequestSize,
    Latency |-> LatencySize, Property |-> PropertySize, Node |-> NodeSize,
    Response |-> ResponseSize]
UnmarshalTable == [List |-> ListUnmarshal, Value |-> ValueUnmarshal, Query |-> QueryUnmarshal,
    Result |-> ResultUnmarshal, Sort |-> SortUnmarshal, SortResult |-> SortResultUnmarshal,
    Num |-> NumUnmarshal, RaftContext |-> RaftContextUnmarshal,
    Membership |-> MembershipUnmarshal, MembershipUpdate |-> MembershipUpdateUnmarshal,
    DirectedEdge |-> DirectedEdgeUnmarshal, Mutations |-> MutationsUnmarshal,
    Proposal |-> ProposalUnmarshal, KV |-> KVUnmarshal, KC |-> KCUnmarshal,
    GroupKeys |-> GroupKeysUnmarshal, Posting |-> PostingUnmarshal,
    PostingList |-> PostingListUnmarshal, Payload |-> PayloadUnmarshal,
    BackupPayload |-> BackupPayloadUnmarshal, NQuad |-> NQuadUnmarshal,
    GValue |-> GValueUnmarshal, Mutation |-> MutationUnmarshal, Request |-> RequestUnmarshal,
    Latency |-> LatencyUnmarshal, Property |-> PropertyUnmarshal, Node |-> NodeUnmarshal,
    Response |-> ResponseUnmarshal]
=============================================================================
