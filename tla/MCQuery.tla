------------------------------- MODULE MCQuery ------------------------------
(***************************************************************************)
(* The way of a query, for TLC: the text and its parser, the messages      *)
(* between servers, the tree of goroutines, order by value, the lists of   *)
(* uids, the slices of a posting list and the nodes of the response.  The  *)
(* parts do not interact: a behaviour is one of the part named by `part`,  *)
(* the variables of the others keep their initial values.                  *)
(***************************************************************************)
EXTENDS Integers, Sequences, SequencesExt, FiniteSets, TLC, WireTables

CONSTANTS Uids, MaxUid, Vals, Absent     \* of the posting list

VARIABLES
    part,
    plist, mlayer, pl, ml,
    ucArgs, ucOut,
    sbVal, index, table, sbReq, token, sbI, result, ilists, sbCall, sbMut,
    q, qRow, qTokens, qOp, qParam, qCtx, qPanic,
    wireStep, wireType, wireMsg, wireData, wireCut, wireHidden, wireGot,
    gqDoc, gqCut, gqResult,
    nodes, made, nodePool, nodeCh, rel, rq,
    rdfDoc, rdfResult,
    scDoc, str, indexedFields, scStep, scLeft, scSeen, scFields

psVars == <<plist, mlayer, pl, ml>>
ucVars == <<ucArgs, ucOut>>
sbVars == <<sbVal, index, table, sbReq, token, sbI, result, ilists, sbCall, sbMut>>
qVars == <<q, qRow, qTokens, qOp, qParam, qCtx, qPanic>>
wireVars == <<wireStep, wireType, wireMsg, wireData, wireCut, wireHidden, wireGot>>
gqVars == <<gqDoc, gqCut, gqResult>>
rdfVars == <<rdfDoc, rdfResult>>
scVars == <<scDoc, str, indexedFields, scStep, scLeft, scSeen, scFields>>
textVars == <<gqVars, rdfVars, scVars>>
ndVars == <<nodes, made, nodePool, nodeCh, rel, rq>>
vars == <<part, psVars, ucVars, sbVars, qVars, wireVars, textVars, ndVars>>

L == INSTANCE PostingSlices
U == INSTANCE UidCalls WITH UcUids <- 1..4, UcLists <- 3
S == INSTANCE SortBuckets WITH
       SbUids <- 1..3, SbValues <- {-3, -1, 0, 2}, PerBucket <- 2, TokenMod <- 6,
       SbLists <- {<<<<1, 2, 3>>, <<2, 3>>>>, <<<<1, 3>>, <<1, 2>>>>}, SbOffsets <- {0, 2}, SbCounts <- {1, 2}
N == INSTANCE NodeRelease WITH NdRequests <- {"r1", "r2"}, NdMax <- 4, NdDepth <- 3, NodeChCap <- 2

-----------------------------------------------------------------------------
(* { me { friend @filter(f1(..) op f2(..)) { name } } }: friend is paged. *)
QNodes == {"me", "friend", "name", "f", "f1", "f2"}
QChildren == [n \in QNodes |-> CASE n = "me" -> <<"friend">> [] n = "friend" -> <<"name">> [] OTHER -> <<>>]
QFilters == [n \in QNodes |-> CASE n = "friend" -> <<"f">> [] n = "f" -> <<"f1", "f2">> [] OTHER -> <<>>]
QKind == [n \in QNodes |-> CASE n = "me" -> "root" [] n = "f" -> "op" [] n \in {"f1", "f2"} -> "func"
                             [] OTHER -> "edge"]
Page(c, o, r, d) == [count |-> c, offset |-> o, after |-> 0, order |-> r, docount |-> d]

G == INSTANCE QueryGraph WITH
       QRoot <- "me", QPaged <- "friend", QAllOf <- {"f2"}, QRank <- <<3, 1, 2>>, QRootUids <- <<1, 2>>,
       QRows <- {<<<<1, 2, 3>>, <<2>>>>, <<<<>>, <<1, 3>>>>, <<<<1>>, <<1, 2>>>>},
       QTokenLists <- {<<<<>>, <<1, 3>>>>, <<<<1, 2, 3>>, <<2>>>>, <<<<1>>, <<>>>>},
       QParams <- {Page(0, 0, FALSE, FALSE), Page(1, 0, FALSE, FALSE), Page(1, 1, FALSE, TRUE),
                   Page(-1, 0, FALSE, FALSE), Page(-2, 0, FALSE, TRUE), Page(0, 0, FALSE, TRUE),
                   Page(1, 1, TRUE, FALSE), Page(1, 0, TRUE, FALSE), Page(0, 1, FALSE, FALSE), Page(2, 0, TRUE, TRUE),
                   [Page(1, 0, FALSE, TRUE) EXCEPT !.after = 1]}

(* The same tree on less data, for liveness. *)
H == INSTANCE QueryGraph WITH
       QRoot <- "me", QPaged <- "friend", QAllOf <- {"f2"}, QRank <- <<2, 1>>, QRootUids <- <<1>>,
       QRows <- {<<<<1, 2>>>>}, QTokenLists <- {<<<<>>, <<1>>>>, <<<<1>>, <<1>>>>},
       QParams <- {Page(0, 0, FALSE, FALSE), Page(0, 0, TRUE, FALSE), Page(0, 0, FALSE, TRUE)}

-----------------------------------------------------------------------------
(* Messages: for every type all combinations of these values of its fields,
   with messages in messages to a depth of two. *)
Rows == UnmarshalTable
FieldsOf(T) == {Rows[T][i][2] : i \in DOMAIN Rows[T]}
Alternatives == [BytesVal |-> <<7>>, IntVal |-> -3, BoolVal |-> FALSE, StrVal |-> <<>>, DoubleVal |-> 0,
                 GeoVal |-> <<1, 2>>]
NoValue == [f \in FieldsOf("GValue") |-> <<>>]
GValues == {NoValue} \cup {[NoValue EXCEPT ![f] = <<Alternatives[f]>>] : f \in DOMAIN Alternatives}
Long == [i \in 1..130 |-> i]

RECURSIVE Full(_, _), Combinations(_, _)
(* The first value is the zero, the last the fullest. *)
Samples(T, row, deep) ==
    LET how == row[3]
    IN  CASE how = "u64" -> <<0, 300, 65535>> [] how = "i64" -> <<0, 128, -1>> [] how = "u32" -> <<0, 200>>
          [] how = "i32" -> <<0, 5, -1>> [] how = "fixed" -> <<0, 258>> [] how = "bool" -> <<FALSE, TRUE>>
          [] how = "bytes" -> <<<<>>, <<7>>>> \o IF T = "Payload" THEN <<Long>> ELSE <<>>
          [] how = "strings" -> <<<<>>, <<<<>>, <<7>>>>>>
          [] how \in {"packedFixed", "packedU64"} -> <<<<>>, <<0, 300>>>>
          [] how = "packedU32" -> <<<<>>, <<200, 0>>>>
          [] how = "map" -> <<<<>>, <<<<<<>>, 0>>, <<<<7>>, 300>>>>>>
          [] row[4] = "GValue" -> <<<<>>>> \o SetToSeq({<<v>> : v \in GValues})
          [] how = "message" -> <<<<>>>> \o IF deep = 0 THEN <<>> ELSE <<<<Full(row[4], deep - 1)>>>>
          [] how = "messages" ->
               <<<<>>>> \o IF deep = 0 THEN <<>>
                           ELSE <<<<Full(row[4], deep - 1)>>, <<Full(row[4], 0), Full(row[4], deep - 1)>>>>
Full(T, deep) ==
    [f \in FieldsOf(T) |-> Last(Samples(T, CHOOSE r \in Range(Rows[T]) : r[2] = f, deep))]
Combinations(T, n) ==
    IF n = 0 THEN {<<>>} ELSE {Append(c, v) : c \in Combinations(T, n - 1), v \in Range(Samples(T, Rows[T][n], 2))}
MessagesOf(T) ==
    IF T = "GValue" THEN GValues
    ELSE {[f \in FieldsOf(T) |-> c[CHOOSE i \in DOMAIN Rows[T] : Rows[T][i][2] = f]] : c \in Combinations(T, Len(Rows[T]))}

W == INSTANCE Wire WITH WordBytes <- 2, IntBytes <- 1, WireMessages <- [T \in DOMAIN Rows |-> MessagesOf(T)]

-----------------------------------------------------------------------------
(* Documents: fields with aliases, arguments, filters and spreads under every
   combination of fragments (none, plain, nested, cyclic) and variables (given,
   defaulted, empty, missing, of a wrong type); all filters of up to four functions;
   a mutation, a comment, and fragments that are spread twice. *)
Nothing == [x \in {} |-> ""]
Field(attr, alias, args, filter, kids) ==
    [id |-> 0, attr |-> attr, alias |-> alias, args |-> args, filter |-> filter, func |-> <<>>,
     kids |-> kids, fragment |-> ""]
Name == Field("name", "", Nothing, <<>>, <<>>)
Friend(args, filter, kids) == Field("friend", "pal", args, filter, kids)
Spread(f) == [Name EXCEPT !.attr = "", !.fragment = f]
Arg(v) == [x \in {"first"} |-> v]
Leaf(f) == [op |-> "", func |-> <<[name |-> f, attr |-> "x", args |-> <<>>]>>, child |-> <<>>]
Op(o, x, y) == [op |-> o, func |-> <<>>, child |-> <<x, y>>]
Ops == {"&", "|"}
Small == {Leaf("f"), Leaf("g")} \cup {Op(o, Leaf("f"), Leaf("g")) : o \in Ops}
Filters == {Op(o, x, y) : o \in Ops, x \in Small, y \in Small}
Var(t, d, g) == [type |-> t, default |-> d, given |-> g]
VarSets ==
    {Nothing, [x \in {"$a", "$b"} |-> Var("int", "1", "2")]}
    \cup {[x \in {"$a"} |-> v] : v \in {Var("int", "1", ""), Var("int!", "", ""), Var("int!", "", "2"),
                                       Var("string", "", "2"), Var("string", "", ""), Var("random", "1", ""),
                                       Var("int", "z", "")}}
FragmentSets ==
    {Nothing, "s" :> <<Name>>, "s" :> <<Spread("s")>>,
     "s" :> <<Spread("t"), Name>> @@ "t" :> <<Field("age", "", Arg("$a"), <<>>, <<>>)>>,
     "s" :> <<Name, Spread("t")>> @@ "t" :> <<Spread("s")>>}
Doc(k, f, v, m, c) == [kids |-> k, frags |-> f, vars |-> v, mu |-> m, comment |-> c]
Documents ==
    {Doc(<<Friend(x, <<>>, k)>>, f, v, "", FALSE) :
        x \in {Nothing, Arg("2"), Arg("$a"), [k \in {"first", "after"} |-> IF k = "first" THEN "$a" ELSE "$b"]},
        k \in {<<>>, <<Spread("s"), Name>>}, f \in FragmentSets, v \in VarSets}
    \cup {Doc(<<Friend(Arg("2"), <<t>>, k)>>, Nothing, Nothing, "", TRUE) : t \in Filters, k \in {<<>>, <<Name>>}}
    \cup {Doc(<<Spread("s"), Friend(Nothing, <<>>, <<Spread("s")>>), Spread("t")>>, f, v, "nquads", TRUE) :
             f \in FragmentSets, v \in VarSets}
Parses == [int |-> {"1", "2"}, float |-> {"1"}, bool |-> {"1"}]

Q == INSTANCE GqlParser WITH GqDocs <- Documents, GqParses <- Parses

(* Lines of N-Quads: every combination of well-formed and ill-formed terms. *)
Term(k, v) == [k |-> k, v |-> v, how |-> "", w |-> <<>>]
Missing == Term("none", <<>>)
Literal(v, h, w) == [k |-> "lit", v |-> v, how |-> h, w |-> w]
Subjects == {Term("iri", <<"a">>), Term("iri", <<"sp", "a", "sp">>), Term("iri", <<>>), Term("iri", <<"*">>),
             Term("blank", <<"a">>), Term("blank", <<>>), Term("uid", <<"n1">>), Term("uid", <<"a">>),
             Term("under", <<"a">>), Literal(<<"a">>, "", <<>>)}
Predicates == {Term("iri", <<"p">>), Term("iri", <<"*", "sp", "*">>), Term("iri", <<>>), Term("blank", <<"p">>)}
Objects == {Missing, Term("iri", <<"o">>), Term("iri", <<>>), Term("blank", <<"o">>), Term("uid", <<"n2">>), Term("uid", <<>>),
            Term("word", <<"o">>), Term("open", <<"o">>)}
           \cup {Literal(v, "", <<>>) : v \in {<<>>, <<"*">>, <<"x", "'", "sp">>}}
           \cup {Literal(<<"n01">>, h, w) : h \in {"lang", "type", "badtype"},
                                            w \in {<<"en">>, <<"-en">>, <<"int">>, <<"sp", "*">>}}
           \cup {Literal(v, "type", <<"int">>) : v \in {<<>>, <<"x">>}}
Labels == {Missing, Term("iri", <<"l">>), Term("iri", <<"*">>), Term("blank", <<"l">>), Term("uid", <<"n1">>),
           Literal(<<"l">>, "", <<>>), Term("word", <<"l">>)}
Ends == {<<".">>, <<".", "sp", "<", "x">>, <<>>, <<"x">>, <<"<", "x", ">", "sp", ".">>}
QuadLines == {[sub |-> s, pred |-> p, obj |-> o, label |-> l, end |-> e] :
                s \in Subjects, p \in Predicates, o \in Objects, l \in Labels, e \in Ends}
T == INSTANCE RdfParser WITH
       RdfDocs <- {d \in QuadLines :        \* a term cannot take the place of a missing one
                     /\ d.label.k = "none" => d.end # <<"<", "x", ">", "sp", ".">>
                     /\ d.obj.k = "none" => d.label.k = "none"},
       RdfTypes <- [int |-> <<"n01">> :> <<"n1">>]

(* Schemas of up to three declarations. *)
Predicate(n, t, i, j) == [is |-> "scalar", name |-> n, type |-> t, index |-> i, junk |-> j]
Object(n, fs) == [is |-> "object", name |-> n, fields |-> fs]
Declarations ==
    {Predicate("n", "int", TRUE, FALSE), Predicate("n", "string", FALSE, FALSE), Predicate("f", "Film", FALSE, FALSE),
     Predicate("m", "int", FALSE, TRUE),
     [is |-> "block", pairs |-> <<Predicate("m", "int", FALSE, FALSE), Predicate("n", "int", TRUE, FALSE)>>],
     [is |-> "block", pairs |-> <<Predicate("m", "string", TRUE, TRUE), Predicate("n", "int", FALSE, FALSE)>>]}
    \cup {Object("Person", fs) : fs \in {<<<<"n", "int">>, <<"f", "Person">>>>, <<<<"f", "Film">>, <<"g", "f">>>>, <<>>,
                                        <<<<"f", "Film">>, <<"h", "Person">>, <<"n", "int">>>>, <<<<"n", "int">>, <<"n", "int">>>>}}
    \cup {Object("Film", fs) : fs \in {<<<<"m", "int">>>>, <<<<"n", "string">>, <<"by", "Person">>>>, <<<<"Person", "int">>>>,
                                      <<<<"f", "Person">>, <<"by", "Actor">>>>}}
D == INSTANCE SchemaParser WITH
       ScDocs <- UNION {[1..n -> Declarations] : n \in 0..3}, ScalarTypes <- {"int", "string"}

-----------------------------------------------------------------------------
Init ==
    /\ part \in {"slices", "uids", "sort", "graph", "goroutines", "wire", "text", "rdf", "schema", "nodes"}
    /\ L!Init /\ S!Init /\ G!Init /\ N!Init
    /\ IF part = "uids" THEN U!Init ELSE ucArgs = <<>> /\ ucOut = <<>>
    /\ IF part = "wire" THEN W!Init
       ELSE /\ wireStep = "value" /\ wireType = "Num" /\ wireMsg = [Val |-> 0]
            /\ wireData = <<>> /\ wireCut = 0 /\ wireHidden = 0 /\ wireGot = <<>>
    /\ IF part = "text" THEN Q!Init ELSE gqDoc = <<>> /\ gqCut = 0 /\ gqResult = <<>>
    /\ IF part = "rdf" THEN T!Init ELSE rdfDoc = <<>> /\ rdfResult = <<>>
    /\ part # "schema" => scDoc = <<>>
    /\ D!Init

Slices(Step) == part = "slices" /\ Step
    /\ UNCHANGED <<part, ucVars, sbVars, qVars, wireVars, textVars, ndVars>>
Lists(Step) == part = "uids" /\ Step
    /\ UNCHANGED <<part, psVars, sbVars, qVars, wireVars, textVars, ndVars>>
Sort(Step) == part = "sort" /\ Step
    /\ UNCHANGED <<part, psVars, ucVars, qVars, wireVars, textVars, ndVars>>
Graph(Step) == part = "graph" /\ Step
    /\ UNCHANGED <<part, psVars, ucVars, sbVars, wireVars, textVars, ndVars>>
Live(Step) == part = "goroutines" /\ Step
    /\ UNCHANGED <<part, psVars, ucVars, sbVars, wireVars, textVars, ndVars>>
Messages(Step) == part = "wire" /\ Step
    /\ UNCHANGED <<part, psVars, ucVars, sbVars, qVars, textVars, ndVars>>
Text(Step) == part = "text" /\ Step
    /\ UNCHANGED <<part, rdfVars, scVars, psVars, ucVars, sbVars, qVars, wireVars, ndVars>>
Lines(Step) == part = "rdf" /\ Step
    /\ UNCHANGED <<part, gqVars, scVars, psVars, ucVars, sbVars, qVars, wireVars, ndVars>>
Schema(Step) == part = "schema" /\ Step
    /\ UNCHANGED <<part, gqVars, rdfVars, psVars, ucVars, sbVars, qVars, wireVars, ndVars>>
Nodes(Step) == part = "nodes" /\ Step
    /\ UNCHANGED <<part, psVars, ucVars, sbVars, qVars, wireVars, textVars>>

Next ==
    \/ Slices(L!Next) \/ Lists(U!Next) \/ Sort(S!Next) \/ Graph(G!Next) \/ Live(H!Next)
    \/ Messages(W!Next) \/ Text(Q!Next) \/ Lines(T!Next) \/ Schema(D!Next) \/ Nodes(N!Next)

Spec == Init /\ [][Next]_vars /\ WF_qVars(Live(H!Goroutines))

(* One part alone. *)
SlicesSpec == part = "slices" /\ Init /\ [][Slices(L!Next)]_vars
GraphSpec == part = "graph" /\ Init /\ [][Graph(G!Next)]_vars
NodesSpec == part = "nodes" /\ Init /\ [][Nodes(N!Next)]_vars /\ WF_ndVars(Nodes(N!release))

-----------------------------------------------------------------------------
(* The slices of a posting list are its layers. *)
SlicesAreLayers == part = "slices" => L!SlicesAreLayers

(* iterate visits the merged layers in order. *)
IterationIsMerge == part = "slices" => L!IterationIsMerge

(* Uids and Value give what the layers define, or panic where Uids does. *)
ReadsAreDefined == part = "slices" => L!ReadsAreDefined

(* The functions of algo on lists are those on sets. *)
UidListsAreSets == part = "uids" => U!UidListsAreSets

(* A sort gives the page asked for, from a table of tokens that stays sorted. *)
SortedPage == part = "sort" => S!SortedPage /\ S!TableIsSorted

(* A query that succeeds is complete: see QueryGraph. *)
AnswerIsComplete == part = "graph" => G!AnswerIsComplete

(* Unmarshal gives back what Marshal wrote. *)
WireRoundTrip == part = "wire" => W!WireRoundTrip

(* A part of a message is not taken for a message. *)
CutIsNoticed == part = "wire" => W!CutIsNoticed

(* Parsing a text, of a query, a quad or the schema, gives what the text says. *)
ParseRecoversQuery ==
    /\ part = "text" => Q!ParseRecoversQuery
    /\ part = "rdf" => T!QuadIsStated
    /\ part = "schema" => D!SchemaIsStated

(* A node of a response is reached in one way, and filled by one request. *)
NodesBelongToOne == part = "nodes" => N!NodesBelongToOne

(* Every goroutine of a query ends. *)
GoroutinesEnd ==
    part = "goroutines" /\ q["me"].pc # "idle"
      ~> qPanic # "no" \/ \A n \in QNodes : q[n].pc \in {"idle", "done"}

-----------------------------------------------------------------------------
(* What comments say and the code does not keep. *)

(* Codec.Marshal: "Passing onto to channel which would put it into the sync
   pool": what is on nodeCh reaches the pool. *)
PassedNodesArePooled == N!PassedNodesArePooled

(* ListOptions: "Intersect results with this list of UIDs." *)
IntersectsResults == L!IntersectsResults

(* ProcessGraph: "you should return a count of 0" for a page behind the end. *)
OffsetBeyondTheEnd == G!OffsetBeyondTheEnd
=============================================================================
