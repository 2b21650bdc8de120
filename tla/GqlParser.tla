----------------------------- MODULE GqlParser ------------------------------
(***************************************************************************)
(* gql/parser.go: from the items of the lexer to the tree of a query.      *)
(*                                                                         *)
(* The lexer runs in a goroutine of its own and hands over its items on a  *)
(* channel with one reader, so the parser sees the sequence run(...).items *)
(* whatever the interleaving; `<-l.Items` on the closed channel gives the  *)
(* zero item, which is EOF.  A result is [st, at, val]: st is "ok", "err", *)
(* or "exit" when an assertion ends the process; at is the next item.      *)
(***************************************************************************)
EXTENDS GqlLexer, SequencesExt

CONSTANTS
    GqDocs,          \* the documents that are parsed, see Render
    GqParses         \* [int, float, bool] -> the values that strconv accepts

VARIABLES
    gqDoc,           \* the document
    gqCut,           \* how many pieces of its text were parsed, 0 before
    gqResult         \* <<st, <<result>>>>, and <<st, <<>>>> unless st is "ok"

gqVars == <<gqDoc, gqCut, gqResult>>

Ok(at, val) == [st |-> "ok", at |-> at, val |-> val]
Err == [st |-> "err", at |-> 0, val |-> <<>>]
Exit == [st |-> "exit", at |-> 0, val |-> <<>>]
(* What follows a call, unless the call failed. *)
Then(r, f(_)) == IF r.st = "ok" THEN f(r) ELSE r

take(items, i) == IF i > Len(items) THEN Item("EOF", "") ELSE items[i]
Put(f, k, v) == [x \in DOMAIN f \cup {k} |-> IF x = k THEN v ELSE f[x]]
NoArgs == [x \in {} |-> ""]

(* A GraphQuery; id tells the objects apart. *)
GraphQuery(id, attr) ==
    [id |-> id, attr |-> attr, alias |-> "", args |-> NoArgs, filter |-> <<>>, func |-> <<>>,
     kids |-> <<>>, fragment |-> ""]

-----------------------------------------------------------------------------
(* Arguments: pairs of a name and a value up to ). *)
RECURSIVE parseArguments(_, _, _)
parseArguments(items, i, acc) ==
    LET key == take(items, i)
        val == take(items, i + 1)
    IN  IF key.t = "RightRound" THEN Ok(i + 1, acc)
        ELSE IF key.t # "ArgName" \/ val.t # "ArgVal" THEN Err
        ELSE parseArguments(items, i + 2, Append(acc, <<key.v, val.v>>))

(* The arguments of a function; `open` when the items end before ). *)
RECURSIVE functionArgs(_, _, _)
functionArgs(items, i, f) ==
    LET it == take(items, i)
    IN  IF i > Len(items) THEN [Ok(i, f) EXCEPT !.st = "open"]
        ELSE IF it.t = "RightRound" THEN Ok(i + 1, f)
        ELSE IF it.t # "FilterFuncArg" THEN Err
        ELSE functionArgs(items, i + 1,
                          IF f.attr = "" THEN [f EXCEPT !.attr = it.v] ELSE [f EXCEPT !.args = Append(@, it.v)])

Function(items, i) ==
    IF take(items, i + 1).t # "LeftRound" THEN Err
    ELSE functionArgs(items, i + 2, [name |-> items[i].v, attr |-> "", args |-> <<>>])

(* parseFunction: the generator of the root; the last function counts. *)
RECURSIVE parseFunction(_, _, _)
parseFunction(items, i, g) ==
    LET it == take(items, i)
        f == Function(items, i)
    IN  IF i > Len(items) THEN Ok(i, g)
        ELSE IF it.t = "RightRound" THEN Ok(i + 1, g)
        ELSE IF it.t # "FilterFunc" \/ f.st = "err" THEN Err
        ELSE parseFunction(items, f.at, <<f.val>>)

(* evalStack until an operator of lower precedence than p is on top. *)
filterOpPrecedence(op) == CASE op = "&" -> 2 [] op = "|" -> 1 [] op = "(" -> 0
\* Mutant: operators of equal precedence are left to the right one.
RECURSIVE evalStackLoose(_, _, _)
evalStackLoose(ops, vals, p) ==
    LET n == Len(vals)
    IN  IF ops = <<>> \/ filterOpPrecedence(Last(ops)) # p THEN [ok |-> TRUE, ops |-> ops, vals |-> vals]
        ELSE IF n < 2 THEN [ok |-> FALSE, ops |-> ops, vals |-> vals]
        ELSE evalStackLoose(Front(ops),
               Append(SubSeq(vals, 1, n - 2), [op |-> Last(ops), func |-> <<>>, child |-> <<vals[n - 1], vals[n]>>]), p)
RECURSIVE evalStack(_, _, _)
evalStack(ops, vals, p) ==
    LET n == Len(vals)
    IN  IF ops = <<>> \/ filterOpPrecedence(Last(ops)) < p
        THEN [ok |-> TRUE, ops |-> ops, vals |-> vals]
        ELSE IF n < 2 THEN [ok |-> FALSE, ops |-> ops, vals |-> vals]
        ELSE evalStack(Front(ops),
                       Append(SubSeq(vals, 1, n - 2),
                              [op |-> Last(ops), func |-> <<>>, child |-> <<vals[n - 1], vals[n]>>]), p)

(* The loop of parseFilter: no item is refused but inside of a function, and
   pop of an empty stack, or an end of the items before ), is an assertion. *)
RECURSIVE filterLoop(_, _, _, _)
filterLoop(items, i, ops, vals) ==
    LET it == take(items, i)
        f == Function(items, i)
        op == IF it.t = "FilterAnd" THEN "&" ELSE "|"
        popped(p, g(_)) == LET r == evalStack(ops, vals, p) IN IF r.ok THEN g(r) ELSE Exit
    IN  IF i > Len(items) THEN Exit
        ELSE CASE it.t = "FilterFunc" ->
                    IF f.st # "ok" THEN Err
                    ELSE filterLoop(items, f.at, ops,
                                    Append(vals, [op |-> "", func |-> <<f.val>>, child |-> <<>>]))
               [] it.t = "LeftRound" -> filterLoop(items, i + 1, Append(ops, "("), vals)
               [] it.t = "RightRound" ->
                    popped(1, LAMBDA r :
                      IF Len(r.ops) > 1 THEN filterLoop(items, i + 1, Front(r.ops), r.vals)
                      ELSE IF Len(r.vals) > 1 THEN Err
                      ELSE Ok(i + 1, r.vals))
               [] it.t \in {"FilterAnd", "FilterOr"} ->
                    popped(filterOpPrecedence(op), LAMBDA r :
                      filterLoop(items, i + 1, Append(r.ops, op), r.vals))
               [] OTHER -> filterLoop(items, i + 1, ops, vals)

parseFilter(items, i) ==
    IF take(items, i).t # "LeftRound" THEN Err ELSE filterLoop(items, i + 1, <<"(">>, <<>>)

-----------------------------------------------------------------------------
(* godeep: curp is the child that was named last, 0 while it is gq itself. *)
At(gq, curp) == IF curp = 0 THEN gq ELSE gq.kids[curp]
Set(gq, curp, node) == IF curp = 0 THEN node ELSE [gq EXCEPT !.kids[curp] = node]

RECURSIVE godeep(_, _, _, _)
godeep(items, i, gq, curp) ==
    LET it == take(items, i)
        node == At(gq, curp)
    IN  CASE it.t = "Error" -> Err
          [] it.t = "EOF" -> Ok(i + 1, gq)
          [] it.t = "RightCurl" -> Ok(i + 1, gq)
          [] it.t = "FragmentSpread" ->
               IF it.v = "" THEN Err
               ELSE godeep(items, i + 1,
                           [gq EXCEPT !.kids = Append(@, [GraphQuery(i, "") EXCEPT !.fragment = it.v])], curp)
          [] it.t = "Name" ->
               godeep(items, i + 1, [gq EXCEPT !.kids = Append(@, GraphQuery(i, it.v))], Len(gq.kids) + 1)
          [] it.t = "Alias" ->
               godeep(items, i + 1, Set(gq, curp, [node EXCEPT !.alias = node.attr, !.attr = it.v]), curp)
          [] it.t = "LeftCurl" ->
               Then(godeep(items, i + 1, node, 0), LAMBDA deeper :
                 godeep(items, deeper.at, Set(gq, curp, deeper.val), curp))
          [] it.t = "LeftRound" ->
               IF take(items, i + 1).t # "Argument" THEN godeep(items, i + 2, gq, curp)
               ELSE Then(parseArguments(items, i + 2, <<>>), LAMBDA args :
                      IF \E k \in DOMAIN args.val : args.val[k][2] = "" THEN Err
                      ELSE godeep(items, args.at,
                                  Set(gq, curp, [node EXCEPT !.args =
                                        FoldLeft(LAMBDA a, p : Put(a, p[1], p[2]), @, args.val)]), curp))
          [] it.t = "DirectiveName" ->
               IF it.v # "filter" THEN Err
               ELSE Then(parseFilter(items, i + 1), LAMBDA filter :
                      godeep(items, filter.at, Set(gq, curp, [node EXCEPT !.filter = filter.val]), curp))
          [] OTHER -> godeep(items, i + 1, gq, curp)

(* getRoot: a generator, or arguments of which only _uid_ and _xid_ are known. *)
getRoot(items, i) ==
    LET root == [GraphQuery(i, "") EXCEPT !.alias = take(items, i).v]
        known(arg) == arg[1] = "_xid_" \/ (arg[1] = "_uid_" /\ arg[2] \in GqParses["int"])
    IN  IF take(items, i).t # "Name" \/ take(items, i + 1).t # "LeftRound" THEN Err
        ELSE CASE take(items, i + 2).t = "Generator" ->
                    Then(parseFunction(items, i + 3, <<>>), LAMBDA gen :
                      Ok(gen.at, [root EXCEPT !.func = gen.val]))
               [] take(items, i + 2).t = "Argument" ->
                    Then(parseArguments(items, i + 3, <<>>), LAMBDA args :
                      IF \E k \in DOMAIN args.val : ~known(args.val[k]) THEN Err
                      ELSE Ok(args.at, [root EXCEPT !.func = args.val]))
               [] OTHER -> Err

getQuery(items, i) ==
    Then(getRoot(items, i), LAMBDA root :
      IF take(items, root.at).t # "LeftCurl" THEN Err
      ELSE godeep(items, root.at + 1, root.val, 0))

(* getFragment: the first text is the name. *)
RECURSIVE getFragment(_, _, _)
getFragment(items, i, name) ==
    LET it == take(items, i)
    IN  IF it.t = "Text" THEN getFragment(items, i + 1, IF name = "" THEN it.v ELSE name)
        ELSE IF (it.t # "LeftCurl" /\ i <= Len(items)) \/ name = "" THEN Err
        ELSE Then(godeep(items, i + 1, GraphQuery(i, ""), 0), LAMBDA body :
               Ok(body.at, [name |-> name, gq |-> body.val]))

-----------------------------------------------------------------------------
(* parseMutationOp and getMutation. *)
RECURSIVE parseMutationOp(_, _, _, _, _)
parseMutationOp(items, i, op, mu, parse) ==
    LET it == take(items, i)
    IN  IF i > Len(items) THEN Err
        ELSE CASE it.t = "LeftCurl" ->
                    IF parse THEN Err ELSE parseMutationOp(items, i + 1, op, mu, TRUE)
               [] it.t = "MutationContent" ->
                    IF ~parse \/ op \notin {"set", "delete"} THEN Err
                    ELSE parseMutationOp(items, i + 1, op, Put(mu, op, it.v), parse)
               [] it.t = "RightCurl" -> Ok(i + 1, mu)
               [] OTHER -> parseMutationOp(items, i + 1, op, mu, parse)

RECURSIVE getMutation(_, _, _)
getMutation(items, i, mu) ==
    LET it == take(items, i)
    IN  IF i > Len(items) THEN Err
        ELSE CASE it.t = "LeftCurl" -> getMutation(items, i + 1, <<NoArgs>>)
               [] it.t = "RightCurl" -> Ok(i + 1, mu)
               [] it.t = "MutationOp" ->
                    IF mu = <<>> THEN Err
                    ELSE Then(parseMutationOp(items, i + 1, it.v, mu[1], FALSE), LAMBDA op :
                           getMutation(items, op.at, <<op.val>>))
               [] OTHER -> getMutation(items, i + 1, mu)

-----------------------------------------------------------------------------
(* Variables: [name -> [val, type]].  A type of Required ends in a bang. *)
Required == {"int!", "string!"}
BaseType(t) == CASE t = "int!" -> "int" [] t = "string!" -> "string" [] OTHER -> t

RECURSIVE parseVariables(_, _, _)
parseVariables(items, i, vmap) ==
    LET name == take(items, i)
        type == take(items, i + 1)
        given == IF name.v \in DOMAIN vmap THEN vmap[name.v].val ELSE ""
        default == take(items, i + 3)
        hasDefault == take(items, i + 2).t = "Equal"
        value == IF hasDefault /\ given = "" THEN default.v ELSE given
        sep == IF hasDefault THEN i + 4 ELSE i + 2
        more == Put(vmap, name.v, [val |-> value, type |-> type.v])
    IN  IF name.t = "RightRound" THEN Ok(i + 1, vmap)
        ELSE IF \/ name.t # "VarName" \/ type.t # "VarType" \/ type.v = ""
                \/ hasDefault /\ (default.t # "VarDefault" \/ type.v \in Required) THEN Err
        ELSE IF take(items, sep).t = "RightRound" THEN Ok(sep + 1, more)
        ELSE parseVariables(items, sep + 1, more)

checkValidity(vmap) ==
    \A k \in DOMAIN vmap :
        LET v == vmap[k]
        IN  /\ v.type # ""
            /\ v.type \in Required => v.val # ""
            /\ v.val # "" => \/ BaseType(v.type) = "string"
                             \/ /\ BaseType(v.type) \in DOMAIN GqParses
                                /\ v.val \in GqParses[BaseType(v.type)]

(* getVariablesAndQuery: val is <<the query or nothing, vmap>>. *)
RECURSIVE getVariablesAndQuery(_, _, _, _)
getVariablesAndQuery(items, i, name, vmap) ==
    LET it == take(items, i)
    IN  IF i > Len(items) THEN Ok(i, <<<<>>, vmap>>)
        ELSE CASE it.t = "Error" -> Err
               [] it.t = "Text" ->
                    IF it.v # "" /\ name # "" THEN Err
                    ELSE getVariablesAndQuery(items, i + 1, IF it.v # "" THEN it.v ELSE name, vmap)
               [] it.t = "LeftRound" ->
                    IF name = "" THEN Err
                    ELSE Then(parseVariables(items, i + 1, vmap), LAMBDA vars :
                           IF ~checkValidity(vars.val) THEN Err
                           ELSE getVariablesAndQuery(items, vars.at, name, vars.val))
               [] it.t = "LeftCurl" ->
                    Then(getQuery(items, i + 1), LAMBDA q : Ok(q.at, <<<<q.val>>, vmap>>))
               [] OTHER -> getVariablesAndQuery(items, i + 1, name, vmap)

-----------------------------------------------------------------------------
(* expandFragments; `open` are the fragments that were entered and not left.
   A fragment that was left is not expanded again: its children are the same
   objects wherever it is spread. *)
RECURSIVE expandFragments(_, _, _)
expandFragments(gq, fmap, open) ==
    LET child(c) ==
          IF c.fragment = ""
          THEN Then(expandFragments(c, fmap, open), LAMBDA e : Ok(0, <<e.val>>))
          ELSE IF c.fragment \notin DOMAIN fmap \/ c.fragment \in open THEN Err
          ELSE Then(expandFragments(fmap[c.fragment], fmap, open \cup {c.fragment}),
                    LAMBDA e : Ok(0, e.val.kids))
        all == [k \in DOMAIN gq.kids |-> child(gq.kids[k])]
    IN  IF \E k \in DOMAIN all : all[k].st # "ok" THEN Err
        ELSE Ok(0, [gq EXCEPT !.kids = FlattenSeq([k \in DOMAIN all |-> all[k].val])])

RECURSIVE Objects(_)
Objects(gq) == <<gq>> \o FlattenSeq([k \in DOMAIN gq.kids |-> Objects(gq.kids[k])])

(* substituteVariables: an object that the tree holds n times is visited n
   times.  A visit looks at the first byte of a value: "" has none.  The first
   visit that fails, in the order of the tree, ends the walk. *)
Dollars(vmap) == DOMAIN vmap \cup {"$a", "$b"}
RECURSIVE Visit(_, _, _)
Visit(v, vmap, n) ==
    IF n = 0 THEN Ok(0, v)
    ELSE IF v = "" THEN [Exit EXCEPT !.st = "panic"]
    ELSE IF v \notin Dollars(vmap) THEN Ok(0, v)
    ELSE IF v \notin DOMAIN vmap THEN Err
    ELSE Visit(vmap[v].val, vmap, n - 1)

VisitsOf(gq, objects, upTo) == Cardinality({j \in 1..upTo : objects[j].id = gq.id})

RECURSIVE substituted(_, _, _)
substituted(gq, vmap, objects) ==
    LET n == VisitsOf(gq, objects, Len(objects))
    IN  [gq EXCEPT !.args = [k \in DOMAIN @ |-> Visit(@[k], vmap, n).val],
                   !.kids = [k \in DOMAIN @ |-> substituted(@[k], vmap, objects)]]

substituteVariables(gq, vmap) ==
    LET objects == Objects(gq)
        outcomes(i) == LET args == objects[i].args
                       IN  {Visit(args[k], vmap, VisitsOf(objects[i], objects, i)).st : k \in DOMAIN args}
        failed == {i \in DOMAIN objects : outcomes(i) \ {"ok"} # {}}
    IN  IF failed = {} THEN Ok(0, substituted(gq, vmap, objects))
        ELSE IF "panic" \in outcomes(Min(failed)) THEN [Exit EXCEPT !.st = "panic"]
        ELSE Err

(* Parse: the blocks of the document, then fragments and variables. *)
RECURSIVE parseBlocks(_, _, _)
parseBlocks(items, i, p) ==
    LET it == take(items, i)
    IN  IF i > Len(items) THEN Ok(i, p)
        ELSE CASE it.t = "Error" -> Err
               [] it.t = "OpType" /\ it.v = "mutation" ->
                    IF p.mu # <<>> THEN Err
                    ELSE Then(getMutation(items, i + 1, <<>>), LAMBDA mu :
                           parseBlocks(items, mu.at, [p EXCEPT !.mu = mu.val]))
               [] it.t = "OpType" /\ it.v = "fragment" ->
                    Then(getFragment(items, i + 1, ""), LAMBDA fr :
                      parseBlocks(items, fr.at, [p EXCEPT !.fmap = Put(@, fr.val.name, fr.val.gq)]))
               [] it.t = "OpType" /\ it.v = "query" ->
                    Then(getVariablesAndQuery(items, i + 1, "", p.vmap), LAMBDA vq :
                      parseBlocks(items, vq.at, [p EXCEPT !.gq = vq.val[1], !.vmap = vq.val[2]]))
               [] it.t = "LeftCurl" ->
                    Then(getQuery(items, i + 1), LAMBDA q :
                      parseBlocks(items, q.at, [p EXCEPT !.gq = <<q.val>>]))
               [] OTHER -> parseBlocks(items, i + 1, p)

ParseText(pieces, given) ==
    LET vmap == [k \in DOMAIN given |-> [val |-> given[k], type |-> ""]]
    IN  Then(parseBlocks(run(LexerInit(pieces)).items, 1,
                         [gq |-> <<>>, mu |-> <<>>, fmap |-> NoArgs, vmap |-> vmap]), LAMBDA p :
          IF p.val.gq = <<>> THEN p
          ELSE Then(expandFragments(p.val.gq[1], p.val.fmap, {}), LAMBDA full :
               Then(substituteVariables(full.val, p.val.vmap), LAMBDA done :
                 Ok(0, [p.val EXCEPT !.gq = <<done.val>>]))))

-----------------------------------------------------------------------------
(* What a document says, and how it is written: the reference the parser is
   compared with.  A document is [kids, frags, vars, mu, comment]: the fields
   below the root me(_uid_: 1), the fragments by name, the declared variables
   [type, default, given], the text of a set mutation, and whether a comment
   follows the root's {.  Fields are GraphQuery records with id 0. *)
Sign(c) == [c |-> c, v |-> ""]
Word(v) == [c |-> "word", v |-> v]
Val(v) == [c |-> IF v \in {"$a", "$b"} THEN "dollar" ELSE "val", v |-> v]
Each(f(_), s) == FlattenSeq([k \in DOMAIN s |-> f(s[k])])
Entries(f) == LET keys == SetToSeq(DOMAIN f) IN [k \in DOMAIN keys |-> <<keys[k], f[keys[k]]>>]

Grouped(p) == <<Sign("(")>> \o p \o <<Sign(")")>>

(* Parentheses only where the tree needs them: && binds tighter, and operators
   of one kind group to the left. *)
RECURSIVE RenderFilter(_)
RenderFilter(t) ==
    IF t.op = "" THEN <<Word(t.func[1].name)>> \o Grouped(<<[c |-> "lit", v |-> t.func[1].attr]>>)
    ELSE LET side(c, least) ==
               IF c.op # "" /\ filterOpPrecedence(c.op) < least THEN Grouped(RenderFilter(c)) ELSE RenderFilter(c)
             p == filterOpPrecedence(t.op)
         IN  side(t.child[1], p) \o <<Sign(t.op \o t.op)>> \o side(t.child[2], p + 1)

RECURSIVE RenderField(_)
RenderField(q) ==
    IF q.fragment # "" THEN <<[c |-> "dots", v |-> q.fragment]>>
    ELSE <<Word(IF q.alias # "" THEN q.alias ELSE q.attr)>>
         \o (IF q.alias # "" THEN <<Sign(":"), Word(q.attr)>> ELSE <<>>)
         \o (IF DOMAIN q.args = {} THEN <<>>
             ELSE Grouped(Each(LAMBDA e : <<Word(e[1]), Sign(":"), Val(e[2])>>, Entries(q.args))))
         \o (IF q.filter = <<>> THEN <<>>
             ELSE <<Sign("@"), Word("filter")>> \o Grouped(RenderFilter(q.filter[1])))
         \o (IF q.kids = <<>> THEN <<>>
             ELSE <<Sign("{")>> \o Each(RenderField, q.kids) \o <<Sign("}")>>)

RenderVar(e) ==
    <<Val(e[1]), Sign(":"), [c |-> "val", v |-> e[2].type]>>
    \o (IF e[2].default = "" THEN <<>> ELSE <<Sign("="), [c |-> "val", v |-> e[2].default]>>)
    \o <<Sign(",")>>

Render(d) ==
    (IF d.mu = "" THEN <<>>
     ELSE <<Word("mutation"), Sign("{"), Word("set"), Sign("{"), [c |-> "val", v |-> d.mu], Sign("}"), Sign("}")>>)
    \o (IF DOMAIN d.vars = {} THEN <<>>
        ELSE <<Word("query"), Word("q")>> \o Grouped(Each(RenderVar, Entries(d.vars))))
    \o <<Sign("{"), Word("me"), Sign("("), Word("_uid_"), Sign(":"), Val("1"), Sign(")"), Sign("{")>>
    \o (IF d.comment THEN <<Sign("#"), Word("note"), Sign("nl")>> ELSE <<>>)
    \o Each(RenderField, d.kids) \o <<Sign("}"), Sign("}")>>
    \o Each(LAMBDA e : <<Word("fragment"), Word(e[1]), Sign("{")>> \o Each(RenderField, e[2]) \o <<Sign("}")>>,
            Entries(d.frags))

(* Fragments that are spread below the fields, directly or in each other. *)
RECURSIVE Spreads(_), Closure(_, _)
Spreads(kids) == UNION {IF kids[k].fragment # "" THEN {kids[k].fragment} ELSE Spreads(kids[k].kids)
                          : k \in DOMAIN kids}
Closure(d, fs) ==
    LET more == fs \cup UNION {Spreads(d.frags[f]) : f \in fs \cap DOMAIN d.frags}
    IN  IF more = fs THEN fs ELSE Closure(d, more)

ValueOf(d, v) ==
    IF v \notin DOMAIN d.vars THEN v
    ELSE IF d.vars[v].given # "" THEN d.vars[v].given ELSE d.vars[v].default
RECURSIVE Says(_, _), Values(_)
Says(d, kids) ==
    Each(LAMBDA q : IF q.fragment # "" THEN Says(d, d.frags[q.fragment])
                    ELSE <<[q EXCEPT !.args = [k \in DOMAIN @ |-> ValueOf(d, @[k])], !.kids = Says(d, @)]>>,
         kids)
Values(kids) == UNION {Range(kids[k].args) \cup Values(kids[k].kids) : k \in DOMAIN kids}

Sound(d) ==
    LET used == Closure(d, Spreads(d.kids))
    IN  /\ used \subseteq DOMAIN d.frags
        /\ \A f \in used : f \notin Closure(d, Spreads(d.frags[f]))
        /\ (Values(d.kids) \cup UNION {Values(d.frags[f]) : f \in used}) \cap {"$a", "$b"} \subseteq DOMAIN d.vars
        /\ \A v \in DOMAIN d.vars :
             LET x == d.vars[v]
             IN  /\ x.type \in Required => x.default = "" /\ x.given # ""
                 /\ ValueOf(d, v) # "" => \/ BaseType(x.type) = "string"
                                          \/ ValueOf(d, v) \in GqParses["int"] /\ BaseType(x.type) = "int"

(* The fragments in the order of their spreads, one for each time; whether one
   of them is there twice and has an argument whose variable has no value. *)
RECURSIVE SpreadsInFull(_, _)
SpreadsInFull(d, kids) ==
    Each(LAMBDA q : IF q.fragment # "" THEN <<q.fragment>> \o SpreadsInFull(d, d.frags[q.fragment])
                    ELSE SpreadsInFull(d, q.kids),
         kids)
EmptyTwice(d) ==
    LET all == SpreadsInFull(d, d.kids)
    IN  \E i, j \in DOMAIN all : /\ i # j /\ all[i] = all[j]
                                 /\ "" \in {ValueOf(d, v) : v \in Values(d.frags[all[i]])}

RECURSIVE NoIds(_)
NoIds(kids) == [k \in DOMAIN kids |-> [kids[k] EXCEPT !.id = 0, !.kids = NoIds(@)]]

-----------------------------------------------------------------------------
Init == gqDoc \in GqDocs /\ gqCut = 0 /\ gqResult = <<"none", <<>>>>

(* Parse of a document, whole or broken off. *)
Parse(cut) ==
    /\ gqCut = 0
    /\ gqCut' = cut
    /\ LET r == ParseText(SubSeq(Render(gqDoc), 1, cut), [v \in DOMAIN gqDoc.vars |-> gqDoc.vars[v].given])
       IN  gqResult' = <<r.st, IF r.st = "ok" THEN <<r.val>> ELSE <<>>>>
    /\ UNCHANGED gqDoc

Next == \E cut \in 1..Len(Render(gqDoc)) : Parse(cut)

(* A document that is written down and parsed is what it says: every field
   under its parent and in its place, with its alias, arguments and filter,
   operators grouped by precedence and to the left, fragments in the place of
   their spreads, variables replaced, the mutation's text whole.  The exception
   is a variable without a value in a fragment that is spread twice.  One with a
   missing or cyclic fragment, or a variable without a type or value that it
   needs, is refused.  A text that breaks off inside of a block is not
   accepted, unless it breaks off in a comment. *)
ParseRecoversQuery ==
    LET text == Render(gqDoc)
        seen == SubSeq(text, 1, gqCut)
        count(c) == Len(SelectSeq(seen, LAMBDA p : p.c = c))
    IN  gqCut > 0 =>
          /\ gqCut = Len(text) =>
                IF Sound(gqDoc)
                THEN \/ EmptyTwice(gqDoc)
                     \/ /\ gqResult[1] = "ok"
                        /\ NoIds(gqResult[2][1].gq[1].kids) = Says(gqDoc, gqDoc.kids)
                        /\ gqDoc.mu # "" => gqResult[2][1].mu[1]["set"] = gqDoc.mu
                ELSE gqResult[1] = "err"
          /\ count("{") # count("}") /\ count("#") = count("nl") => gqResult[1] # "ok"

(* "v won't be empty as its handled in parseVariables" (substituteVariables):
   no argument is empty when it is looked at. *)
ValuesAreNotEmpty == gqResult[1] # "panic"

(* "Test if unbalanced brac will lead to errors" (TestParseFilter_unbalancedbrac). *)
UnbalancedIsAnError == gqResult[1] # "exit"
=============================================================================
