---------------------------- MODULE SchemaParser ----------------------------
(***************************************************************************)
(* schema/state.go, schema/parse.go: the schema file, read when a server   *)
(* starts.  The text is a sequence of pieces: "(", ")", "{", "}", ":",     *)
(* "@", "sp", "nl", another rune ("#"), or a word.  After the items are    *)
(* read, ParseBytes walks over the map str and adds to it on the way: the  *)
(* order of the walk, and whether it meets what it adds, is not defined.   *)
(***************************************************************************)
EXTENDS Integers, Sequences, SequencesExt, FiniteSets, FiniteSetsExt, Functions, TLC

CONSTANTS ScDocs,        \* files: sequences of declarations
          ScalarTypes    \* names of scalar types

VARIABLES scDoc, str, indexedFields,
          scStep,        \* "parse", "walk", then "ok", "error" or "panic"
          scLeft,        \* the objects of str the walk has to come to
          scSeen,        \* the keys it has been at
          scFields       \* the fields left of the object the walk is at

scVars == <<scDoc, str, indexedFields, scStep, scLeft, scSeen, scFields>>

-----------------------------------------------------------------------------
(* The lexer: [fn, at, items]; the state functions take a piece or a pair. *)
Blank == {"sp", "nl"}
Runes == Blank \cup {"(", ")", "{", "}", ":", "@", "#", "EOF"}
Piece(in, i) == IF i > Len(in) THEN "EOF" ELSE in[i]
IsWord(p) == p \notin Runes
Item(t, v) == [t |-> t, v |-> v]
To(l, fn, n, its) == [l EXCEPT !.fn = fn, !.at = @ + n, !.items = @ \o its]
Errorf(l) == To(l, "nil", 0, <<Item("Error", "")>>)

lexText(in, l) ==
    LET p == Piece(in, l.at)
    IN  CASE p = "EOF" -> To(l, "nil", 0, <<Item("EOF", "")>>)
          [] p = "scalar" -> To(l, "lexScalar", 1, <<Item("Scalar", "")>>)
          [] p = "type" -> To(l, "lexObject", 1, <<Item("Type", "")>>)
          [] p \in Blank -> To(l, l.fn, 1, <<>>)
          [] OTHER -> Errorf(l)

(* The name, any number of colons, the type. *)
Pair(in, l, name, type) ==
    LET j == Min({i \in l.at + 1..Len(in) : in[i] \notin Blank \cup {":"}} \cup {Len(in) + 1})
        colons == Cardinality({i \in l.at + 1..j - 1 : in[i] = ":"})
        named == To(l, l.fn, 1, <<Item(name, in[l.at])>> \o [i \in 1..colons |-> Item("Collon", "")])
    IN  IF IsWord(Piece(in, j)) THEN To([named EXCEPT !.at = j], l.fn, 1, <<Item(type, in[j])>>)
        ELSE Errorf(named)

(* lexScalarPair and lexScalarPair1: behind the type the end of the line, or
   @index. *)
lexScalarPair(in, l, back) ==
    LET typed == Pair(in, l, "ScalarName", "ScalarType")
        j == Min({i \in typed.at..Len(in) : in[i] # "sp"} \cup {Len(in) + 1})
        at == [typed EXCEPT !.at = j + 1]
    IN  IF typed.fn = "nil" THEN typed
        ELSE CASE Piece(in, j) = "nl" -> To(at, back, 0, <<Item("Dummy", "")>>)
               [] Piece(in, j) = "@" /\ Piece(in, j + 1) = "index" ->
                    To(at, back, 1, <<Item("At", ""), Item("Index", "")>>)
               [] Piece(in, j) = "@" /\ Piece(in, j + 1) # "index" -> Errorf(To(at, back, 0, <<Item("At", "")>>))
               [] OTHER -> Errorf(at)

(* The rune behind the bracket is skipped: in the files an end of line. *)
lexScalar(in, l) ==
    LET p == Piece(in, l.at)
    IN  CASE IsWord(p) -> lexScalarPair(in, l, "lexText")
          [] p = "(" -> To(l, "lexScalarBlock", 2, <<Item("LeftRound", "")>>)
          [] p \in Blank -> To(l, l.fn, 1, <<>>)
          [] OTHER -> Errorf(l)

lexScalarBlock(in, l) ==
    LET p == Piece(in, l.at)
    IN  CASE p = ")" -> To(l, "lexText", 1, <<Item("RightRound", "")>>)
          [] IsWord(p) -> lexScalarPair(in, l, "lexScalarBlock")
          [] p \in Blank -> To(l, l.fn, 1, <<>>)
          [] OTHER -> Errorf(l)

lexObject(in, l) ==
    LET p == Piece(in, l.at)
    IN  CASE p = "}" -> To(l, "lexText", 1, <<>>)
          [] p \in Blank -> To(l, l.fn, 1, <<>>)
          [] IsWord(p) -> To(l, "lexObjectBlock", 1, <<Item("Object", p)>>)
          [] OTHER -> Errorf(l)

lexObjectBlock(in, l) ==
    LET p == Piece(in, l.at)
    IN  CASE p = "{" -> To(l, l.fn, 1, <<Item("LeftCurl", "")>>)
          [] p = "}" -> To(l, "lexText", 1, <<Item("RightCurl", "")>>)
          [] p \in Blank -> To(l, l.fn, 1, <<>>)
          [] IsWord(p) -> Pair(in, l, "ObjectName", "ObjectType")
          [] OTHER -> Errorf(l)

RECURSIVE lexRun(_, _)
lexRun(in, l) ==
    CASE l.fn = "nil" -> l.items
      [] l.fn = "lexText" -> lexRun(in, lexText(in, l))
      [] l.fn = "lexScalar" -> lexRun(in, lexScalar(in, l))
      [] l.fn = "lexScalarBlock" -> lexRun(in, lexScalarBlock(in, l))
      [] l.fn = "lexObject" -> lexRun(in, lexObject(in, l))
      [] l.fn = "lexObjectBlock" -> lexRun(in, lexObjectBlock(in, l))

-----------------------------------------------------------------------------
(* The parser: [at, str, indexed, fields, res].  A type is a set of pairs: the
   fields of an object with their types, or <<"", name>> for a scalar.  A
   closed channel gives EOF. *)
At(its, i) == IF i > Len(its) THEN Item("EOF", "") ELSE its[i]
Fails(s) == [s EXCEPT !.res = "error"]
ScalarOf(n) == {<<"", n>>}
IsObject(t) == \A f \in t : f[1] # ""

(* A pair of a scalar and its index: the item behind the type is taken, and
   when it is not the At it is dropped, also when it is the lexer's error. *)
scalarPair(its, s) ==
    LET type == At(its, s.at + 2)
        n == At(its, s.at).v
        set == [s EXCEPT !.str = (n :> ScalarOf(type.v)) @@ @, !.at = @ + 4]
    IN  CASE \/ At(its, s.at + 1).t # "Collon" \/ type.t # "ScalarType"
             \/ type.v \notin ScalarTypes -> Fails(s)
          [] At(its, s.at + 3).t # "At" -> set
          [] At(its, s.at + 4).t = "Index" -> [set EXCEPT !.indexed = @ \cup {n}, !.at = @ + 1]
          [] OTHER -> Fails(s)

RECURSIVE processScalarBlock(_, _), objectFields(_, _, _)
processScalarBlock(its, s) ==
    LET t == At(its, s.at).t
    IN  CASE s.res # "" \/ s.at > Len(its) -> s
          [] t = "RightRound" -> [s EXCEPT !.at = @ + 1]
          [] t = "ScalarName" -> processScalarBlock(its, scalarPair(its, s))
          [] t = "Error" -> Fails(s)
          [] OTHER -> processScalarBlock(its, [s EXCEPT !.at = @ + 1])

processScalar(its, s) ==
    LET t == At(its, s.at).t
    IN  CASE t = "LeftRound" -> processScalarBlock(its, [s EXCEPT !.at = @ + 1])
          [] t = "ScalarName" -> scalarPair(its, s)
          [] OTHER -> Fails(s)        \* the lexer emits one of these or an error here

(* The fields of an object.  A scalar field declares the predicate, or must
   agree with it; when that name is an object the assertion panics. *)
objectFields(its, s, fields) ==
    LET it == At(its, s.at)
        type == At(its, s.at + 2)
        more == fields \cup {<<it.v, type.v>>}
        known == it.v \in DOMAIN s.str
    IN  CASE it.t = "RightCurl" \/ s.at > Len(its) -> [s EXCEPT !.at = @ + 1, !.fields = fields]
          [] it.t = "Error" -> Fails(s)
          [] it.t = "ObjectName" ->
               CASE At(its, s.at + 1).t # "Collon" \/ type.t # "ObjectType" -> Fails(s)
                 [] type.v \in ScalarTypes /\ known /\ IsObject(s.str[it.v]) -> [s EXCEPT !.res = "panic"]
                 [] type.v \in ScalarTypes /\ known /\ s.str[it.v] # ScalarOf(type.v) -> Fails(s)
                 [] it.v \in {f[1] : f \in fields} -> Fails(s)
                 [] OTHER -> objectFields(its, [s EXCEPT !.at = @ + 3,
                               !.str = IF type.v \in ScalarTypes THEN (it.v :> ScalarOf(type.v)) @@ @ ELSE @], more)
          [] OTHER -> objectFields(its, [s EXCEPT !.at = @ + 1], fields)

processObject(its, s) ==
    LET name == At(its, s.at)
        o == objectFields(its, [s EXCEPT !.at = @ + 2], {})
    IN  CASE name.t # "Object" \/ At(its, s.at + 1).t # "LeftCurl" -> Fails(s)
          [] o.res # "" -> o
          [] o.fields = {} -> Fails(s)
          [] OTHER -> [o EXCEPT !.str = (name.v :> o.fields) @@ @]

RECURSIVE parseItems(_, _)
parseItems(its, s) ==
    LET t == At(its, s.at).t
        next == [s EXCEPT !.at = @ + 1]
    IN  CASE s.res # "" \/ s.at > Len(its) -> s
          [] t = "Scalar" -> parseItems(its, processScalar(its, next))
          [] t = "Type" -> parseItems(its, processObject(its, next))
          [] t = "Error" -> Fails(s)
          [] OTHER -> parseItems(its, next)

-----------------------------------------------------------------------------
(* Files.  A declaration is [is, name, type, index, junk] for a scalar, [is,
   pairs] for a block of them and [is, name, fields] for an object; junk is a
   rune that does not belong there. *)
ScalarText(d) ==
    <<d.name, ":", "sp", d.type, "sp">> \o (IF d.index THEN <<"@", "index">> ELSE <<>>)
    \o (IF d.junk THEN <<"#">> ELSE <<>>) \o <<"nl">>
FieldText(f) == <<f[1], "sp", ":", f[2], "nl">>
TextOf(d) ==
    CASE d.is = "scalar" -> <<"scalar", "sp">> \o ScalarText(d)
      [] d.is = "block" -> <<"scalar", "sp", "(", "nl">> \o FlattenSeq([i \in DOMAIN d.pairs |-> ScalarText(d.pairs[i])])
                           \o <<")", "nl">>
      [] d.is = "object" -> <<"type", "sp", d.name, "{", "nl">> \o FlattenSeq([i \in DOMAIN d.fields |-> FieldText(d.fields[i])])
                            \o <<"}", "nl">>

Init ==
    /\ scDoc \in ScDocs
    /\ str = <<>> /\ indexedFields = {} /\ scStep = "parse"
    /\ scLeft = {} /\ scSeen = {} /\ scFields = {}

ParseBytes ==
    /\ scStep = "parse"
    /\ LET text == FlattenSeq([i \in DOMAIN scDoc |-> TextOf(scDoc[i])])
           s == parseItems(lexRun(text, [fn |-> "lexText", at |-> 1, items |-> <<>>]),
                           [at |-> 1, str |-> <<>>, indexed |-> {}, fields |-> {}, res |-> ""])
       IN  /\ str' = s.str /\ indexedFields' = s.indexed
           /\ scStep' = IF s.res = "" THEN "walk" ELSE s.res
           /\ scLeft' = {k \in DOMAIN s.str : IsObject(s.str[k])}
    /\ UNCHANGED <<scDoc, scSeen, scFields>>

(* The walk comes to an object: one it must visit, or one it added (or put in
   the place of a scalar) and may come to. *)
visit(k) ==
    /\ scStep = "walk" /\ scFields = {}
    /\ IsObject(str[k]) /\ k \notin scSeen
    /\ scFields' = str[k]
    /\ scLeft' = scLeft \ {k} /\ scSeen' = scSeen \cup {k}
    /\ UNCHANGED <<scDoc, str, indexedFields, scStep>>

(* TypeOf looks among predicates and types alike. *)
\* Mutant: among those of the file only.
TypeOfFile(q) == IF q \in DOMAIN str THEN str[q] ELSE {}
TypeOf(q) == IF q \in DOMAIN str THEN str[q] ELSE IF q \in ScalarTypes THEN ScalarOf(q) ELSE {}

(* One field of it: a predicate that leads to an object has that type. *)
visitField(f) ==
    /\ scStep = "walk"
    /\ scFields' = scFields \ {f}
    /\ scStep' = IF TypeOf(f[2]) = {} THEN "error" ELSE "walk"
    /\ str' = IF TypeOf(f[2]) # {} /\ IsObject(TypeOf(f[2])) THEN (f[1] :> TypeOf(f[2])) @@ str ELSE str
    /\ UNCHANGED <<scDoc, indexedFields, scLeft, scSeen>>

walkEnds ==
    /\ scStep = "walk" /\ scLeft = {} /\ scFields = {}
    /\ scStep' = "ok"
    /\ UNCHANGED <<scDoc, str, indexedFields, scLeft, scSeen, scFields>>

Next ==
    \/ ParseBytes \/ walkEnds
    \/ \E k \in DOMAIN str : visit(k)
    \/ \E f \in scFields : visitField(f)

-----------------------------------------------------------------------------
Decls == Range(scDoc)
Scalars == {d \in Decls : d.is = "scalar"} \cup UNION {Range(d.pairs) : d \in {b \in Decls : b.is = "block"}}
Objects == {d \in Decls : d.is = "object"}
Pairs == {<<d.name, d.type>> : d \in Scalars} \cup UNION {Range(d.fields) : d \in Objects}
Junk == \E d \in Scalars : d.junk
ObjectNames == {d.name : d \in Objects}
DistinctObjects ==
    \A i, j \in DOMAIN scDoc :
       scDoc[i].is = "object" /\ scDoc[j].is = "object" /\ scDoc[i].name = scDoc[j].name => i = j

(* One type for a predicate, no predicate with the name of an object. *)
Consistent ==
    /\ ~Junk /\ DistinctObjects
    /\ \A p, r \in Pairs : p[1] = r[1] => p = r
    /\ \A p \in Pairs : p[1] \notin ObjectNames /\ p[2] \in ScalarTypes \cup ObjectNames
    /\ \A d \in Scalars : d.type \in ScalarTypes
    /\ \A d \in Objects : d.fields # <<>> /\ IsInjective([i \in DOMAIN d.fields |-> d.fields[i][1]])

ObjectOf(n) == Range((CHOOSE d \in Objects : d.name = n).fields)

(* A consistent schema is accepted, in whatever order the walk takes the map,
   and gives every predicate the type the file states.  A schema that was
   accepted and read to its end has no object without fields and no field
   whose type is neither a scalar nor a name of the file. *)
SchemaIsStated ==
    /\ Consistent =>
         /\ scStep \notin {"error", "panic"}
         /\ scStep = "ok" =>
              /\ str = [n \in ObjectNames \cup {p[1] : p \in Pairs} |->
                          IF n \in ObjectNames THEN ObjectOf(n)
                          ELSE LET t == (CHOOSE p \in Pairs : p[1] = n)[2]
                               IN  IF t \in ScalarTypes THEN ScalarOf(t) ELSE ObjectOf(t)]
              /\ indexedFields = {d.name : d \in {x \in Scalars : x.index}}
    /\ scStep = "ok" /\ ~Junk /\ DistinctObjects =>
         \A d \in Objects : /\ d.fields # <<>>
                            /\ \A f \in Range(d.fields) :
                                  f[2] \in ScalarTypes \cup ObjectNames \cup {p[1] : p \in Pairs}

(* A text that cannot be read is refused. *)
ErrorsAreReported == scStep = "ok" => ~Junk
=============================================================================
