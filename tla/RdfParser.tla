----------------------------- MODULE RdfParser ------------------------------
(***************************************************************************)
(* rdf/state.go and rdf/parse.go: an N-Quad from a line of text.           *)
(*                                                                         *)
(* The text is a sequence of pieces: "<", ">", "_:", "_uid_:", "_" (with   *)
(* neither behind it), the quotation mark "q", "@", "^", ".", "sp", or a   *)
(* run of other runes, named by what it is: a word, a number ("n1"), an    *)
(* asterisk.  An escaped rune is part of a run.  The text of an item is    *)
(* the sequence of its pieces.                                             *)
(***************************************************************************)
EXTENDS Integers, Sequences, SequencesExt, FiniteSets, FiniteSetsExt

CONSTANTS RdfDocs,      \* lines: [sub, pred, obj, label, end]
          RdfTypes      \* type name -> (text -> value), for the texts it can read

VARIABLES rdfDoc, rdfResult

rdfVars == <<rdfDoc, rdfResult>>

Numbers == {"n1", "n2"}
Signs == {"<", ">", "_:", "_uid_:", "_", "q", "@", "^", ".", "sp"}
Sane(text) == text = <<>> \/ \E i \in DOMAIN text : text[i] \notin Signs \cup {"*", "-en"} \/ text[i] = "_uid_:"

-----------------------------------------------------------------------------
(* The lexer: [at, depth, items]; depth counts subject, predicate, object and
   label.  Each function takes one term and the items end with Error or EOF. *)
Piece(in, i) == IF i > Len(in) THEN "EOF" ELSE in[i]
Item(t, v) == [t |-> t, v |-> v]
Emit(l, it) == [l EXCEPT !.items = Append(@, it)]
Errorf(l) == Emit(l, Item("Error", <<>>))
Stopped(l) == l.items # <<>> /\ Last(l.items).t \in {"Error", "EOF"}

(* The first piece from i on that is in the set, or behind the end. *)
AcceptUntil(in, i, stop) == Min({j \in i..Len(in) : in[j] \in stop} \cup {Len(in) + 1})

(* lexUntilClosing, at the bracket. *)
lexUntilClosing(in, l, type) ==
    LET close == AcceptUntil(in, l.at, {">"})
    IN  IF close > Len(in) THEN Errorf(l)
        ELSE Emit([l EXCEPT !.at = close + 1], Item(type, SubSeq(in, l.at, close)))

(* lexBlankNode and lexUidNode: up to a space, which must be there. *)
lexBlankNode(in, l, type) ==
    LET end == AcceptUntil(in, l.at, {"sp"})
    IN  IF end > Len(in) THEN Errorf(l)
        ELSE Emit([l EXCEPT !.at = end], Item(type, SubSeq(in, l.at, end - 1)))

lexUidNode(in, l, type) ==
    LET end == AcceptUntil(in, l.at, {"sp"})
    IN  IF end = l.at + 2 /\ in[l.at + 1] \in Numbers THEN lexBlankNode(in, l, type) ELSE Errorf(l)

Deeper(l) == [l EXCEPT !.depth = @ + 1]

lexSubject(in, l) ==
    CASE in[l.at] = "<" -> lexUntilClosing(in, Deeper(l), "Subject")
      [] in[l.at] = "_uid_:" -> lexUidNode(in, Deeper(l), "Subject")
      [] in[l.at] = "_:" -> lexBlankNode(in, Deeper(l), "Subject")
      [] OTHER -> Errorf(l)

lexPredicate(in, l) ==
    IF in[l.at] = "<" THEN lexUntilClosing(in, Deeper(l), "Predicate") ELSE Errorf(l)

(* lexLabel: a uid is no label. *)
lexLabel(in, l) ==
    CASE in[l.at] = "<" -> lexUntilClosing(in, Deeper(l), "Label")
      [] in[l.at] = "_:" -> lexBlankNode(in, Deeper(l), "Label")
      [] OTHER -> Errorf(l)

(* lexLanguage behind @, lexObjectType behind the first ^. *)
lexLanguage(in, l) ==
    IF Piece(in, l.at) \in Signs \cup {"EOF", "-en", "*"} \cup Numbers THEN Errorf(l)
    ELSE Emit([l EXCEPT !.at = @ + 1], Item("Language", <<in[l.at]>>))

lexObjectType(in, l) ==
    IF Piece(in, l.at) = "^" /\ Piece(in, l.at + 1) = "<"
    THEN lexUntilClosing(in, [l EXCEPT !.at = @ + 1], "ObjectType") ELSE Errorf(l)

(* lexLiteral behind the mark: up to the next one, or the end of the text. *)
lexLiteral(in, l) ==
    LET end == AcceptUntil(in, l.at, {"q"})
        lit == Emit([Deeper(l) EXCEPT !.at = Min({end, Len(in)}) + 1], Item("Literal", SubSeq(in, l.at, end - 1)))
        after == [lit EXCEPT !.at = @ + 1]
    IN  CASE Piece(in, lit.at) = "@" -> lexLanguage(in, after)
          [] Piece(in, lit.at) = "^" -> lexObjectType(in, after)
          [] OTHER -> lit

(* lexObject: an underscore in front of a literal is overlooked, and counts as
   an object of its own. *)
lexObject(in, l) ==
    CASE in[l.at] = "<" -> lexUntilClosing(in, Deeper(l), "Object")
      [] in[l.at] = "_uid_:" -> lexUidNode(in, Deeper(l), "Object")
      [] in[l.at] = "_:" -> lexBlankNode(in, Deeper(l), "Object")
      [] in[l.at] = "q" -> lexLiteral(in, [l EXCEPT !.at = @ + 1])
      [] in[l.at] = "_" /\ Piece(in, l.at + 1) = "q" -> lexLiteral(in, [Deeper(l) EXCEPT !.at = @ + 2])
      [] OTHER -> Errorf(l)

(* lexText: the term that the depth calls for.  A dot ends the line, validly
   behind an object. *)
Opening == {"<", "_:", "_uid_:", "_"}
lexText(in, l) ==
    LET p == Piece(in, l.at)
    IN  CASE p = "sp" -> [l EXCEPT !.at = @ + 1]
          [] p = "EOF" -> Emit(l, Item("EOF", <<>>))
          [] p = "." -> Emit(IF l.depth > 2 THEN Emit(l, Item("ValidEnd", <<>>)) ELSE l, Item("EOF", <<>>))
          [] p \in Opening /\ l.depth = 0 -> lexSubject(in, l)
          [] p \in Opening /\ l.depth = 1 -> lexPredicate(in, l)
          [] p \in Opening \cup {"q"} /\ l.depth = 2 -> lexObject(in, l)
          [] p \in Opening /\ l.depth = 3 -> lexLabel(in, l)
          [] OTHER -> Errorf(l)

RECURSIVE lexAll(_, _)
lexAll(in, l) == IF Stopped(l) THEN l.items ELSE lexAll(in, lexText(in, l))

-----------------------------------------------------------------------------
(* stripBracketsAndTrim. *)
RECURSIVE Trim(_)
Trim(text) ==
    IF text # <<>> /\ Head(text) = "sp" THEN Trim(Tail(text))
    ELSE IF text # <<>> /\ Last(text) = "sp" THEN Trim(Front(text)) ELSE text
WithoutFirst(text) == (IF Head(text) = "_:" THEN <<":">> ELSE <<>>) \o Tail(text)
strip(text) == Trim(IF Head(text) # "<" /\ Last(text) # ">" THEN text ELSE Front(WithoutFirst(text)))

NoQuad == [sub |-> <<>>, pred |-> <<>>, id |-> <<>>, value |-> <<>>, type |-> "none", label |-> <<>>]

(* UnmarshalText and MarshalBinary of the type. *)
\* Mutant: the value stays as it was written.
textAsIs(t, text) == text
typedValue(t, text) == RdfTypes[t][text]

(* The loop of Parse over the items: the quad so far and the value without a
   type; res is "" until an error ("error") or log.Fatalf ("fatal").  A type
   that is not known becomes part of the value. *)
itemObjectType(s, it) ==
    LET t == strip(it.v)
    IN  CASE s.oval = <<>> -> [s EXCEPT !.res = "fatal"]
          [] t = <<"*">> -> [s EXCEPT !.res = "error"]
          [] Len(t) = 1 /\ t[1] \in DOMAIN RdfTypes ->
               IF s.oval \in DOMAIN RdfTypes[t[1]]
               THEN [s EXCEPT !.q.value = typedValue(t[1], s.oval), !.q.type = t[1], !.oval = <<>>]
               ELSE [s EXCEPT !.res = "error"]
          [] OTHER -> [s EXCEPT !.oval = @ \o <<"@@">> \o t]

parseItem(s, it) ==
    CASE s.res # "" -> s
      [] it.t = "Subject" -> [s EXCEPT !.q.sub = strip(it.v)]
      [] it.t = "Predicate" -> [s EXCEPT !.q.pred = strip(it.v)]
      [] it.t = "Object" -> [s EXCEPT !.q.id = strip(it.v)]
      [] it.t = "Literal" -> [s EXCEPT !.oval = [i \in DOMAIN it.v |-> IF it.v[i] = "'" THEN "q" ELSE it.v[i]]]
      [] it.t = "Language" -> [s EXCEPT !.q.pred = @ \o <<".">> \o it.v]
      [] it.t = "ObjectType" -> itemObjectType(s, it)
      [] it.t = "Label" -> [s EXCEPT !.q.label = strip(it.v)]
      [] it.t = "ValidEnd" -> [s EXCEPT !.vend = TRUE]
      [] it.t = "Error" -> [s EXCEPT !.res = "error"]
      [] it.t = "EOF" -> s

(* Parse: the end, the value without a type, required terms, sanity. *)
Parse(in) ==
    LET s == FoldSeq(LAMBDA it, acc : parseItem(acc, it), [q |-> NoQuad, oval |-> <<>>, vend |-> FALSE, res |-> ""],
                     Reverse(lexAll(in, [at |-> 1, depth |-> 0, items |-> <<>>])))
        q == IF s.oval # <<>> THEN [s.q EXCEPT !.value = s.oval, !.type = "bytes"] ELSE s.q
    IN  CASE s.res # "" -> <<s.res>>
          [] ~s.vend \/ q.sub = <<>> \/ q.pred = <<>> \/ (q.id = <<>> /\ q.type = "none") -> <<"error">>
          [] ~(Sane(q.sub) /\ Sane(q.pred) /\ Sane(q.id) /\ Sane(q.label)) -> <<"error">>
          [] OTHER -> <<"ok", q>>

-----------------------------------------------------------------------------
(* The texts.  A term is [k, v, how, w]: how it is written, its text and, for
   a literal, what follows it. *)
TextOf(t) ==
    CASE t.k = "iri" -> <<"<">> \o t.v \o <<">">>
      [] t.k = "blank" -> <<"_:">> \o t.v
      [] t.k = "uid" -> <<"_uid_:">> \o t.v
      [] t.k = "under" -> <<"_">> \o t.v
      [] t.k = "word" -> t.v
      [] t.k = "open" -> <<"q">> \o t.v
      [] t.k = "none" -> <<>>
      [] t.k = "lit" -> <<"q">> \o t.v \o <<"q">> \o
           CASE t.how = "" -> <<>>
             [] t.how = "lang" -> <<"@">> \o t.w
             [] t.how = "type" -> <<"^", "^", "<">> \o t.w \o <<">">>
             [] t.how = "badtype" -> <<"^", "<">> \o t.w \o <<">">>

LineOf(d) ==
    TextOf(d.sub) \o <<"sp">> \o TextOf(d.pred) \o <<"sp">> \o TextOf(d.obj) \o <<"sp">>
    \o TextOf(d.label) \o <<"sp">> \o d.end

Init == rdfDoc \in RdfDocs /\ rdfResult = <<"none">>
Next ==
    /\ rdfResult = <<"none">>
    /\ rdfResult' = Parse(LineOf(rdfDoc))
    /\ UNCHANGED rdfDoc

-----------------------------------------------------------------------------
(* What the grammar says of a term, as one of the four of a quad. *)
Allowed == [sub |-> {"iri", "blank", "uid"}, pred |-> {"iri"}, obj |-> {"iri", "blank", "uid", "lit"},
            label |-> {"iri", "blank", "none"}]
Grammatical(d, role) ==
    LET t == d[role]
    IN  /\ t.k \in Allowed[role]
        /\ t.k = "uid" => Len(t.v) = 1 /\ t.v[1] \in Numbers
        /\ t.k = "lit" => t.how # "badtype" /\ (t.how = "lang" => t.w[1] \notin {"-en", "sp"})
NameOf(t) ==
    CASE t.k = "iri" -> Trim(t.v) [] t.k \in {"blank", "uid"} -> TextOf(t) [] OTHER -> <<>>
(* A name has a letter or a digit. *)
Named(t) == \E i \in DOMAIN NameOf(t) : NameOf(t)[i] \notin {"*", "sp", "_:"}
ValueOf(t) == [i \in DOMAIN t.v |-> IF t.v[i] = "'" THEN "q" ELSE t.v[i]]
Typed(t) == t.k = "lit" /\ t.how = "type"
Known(t) == Typed(t) /\ Len(Trim(t.w)) = 1 /\ Trim(t.w)[1] \in DOMAIN RdfTypes
Language(t) == IF t.k = "lit" /\ t.how = "lang" THEN <<".">> \o t.w ELSE <<>>
GoodValue(t) ==
    /\ t.v # <<>>
    /\ Typed(t) => Trim(t.w) # <<"*">>
    /\ Known(t) => ValueOf(t) \in DOMAIN RdfTypes[Trim(t.w)[1]]

(* The quad a line states. *)
Stated(d) ==
    LET o == d.obj
    IN  [sub |-> NameOf(d.sub), pred |-> NameOf(d.pred) \o Language(o), id |-> NameOf(o),
         value |-> CASE o.k # "lit" -> <<>>
                     [] Known(o) -> RdfTypes[Trim(o.w)[1]][ValueOf(o)]
                     [] Typed(o) /\ ~Known(o) -> ValueOf(o) \o <<"@@">> \o Trim(o.w)
                     [] OTHER -> ValueOf(o),
         type |-> CASE o.k # "lit" -> "none" [] Known(o) -> Trim(o.w)[1] [] OTHER -> "bytes",
         label |-> NameOf(d.label)]

(* Parse accepts the lines of the grammar, whose names are names and whose
   value is one of its type, and gives the quad they state.  There are two
   exceptions in the code: a literal with a language hides an empty or nameless
   predicate, and an empty literal with a type ends the process. *)
QuadIsStated ==
    LET d == rdfDoc
        early == \A r \in {"sub", "pred", "obj"} : Grammatical(d, r)
        good == /\ Grammatical(d, "label") /\ d.end # <<>> /\ d.end[1] = "."
                /\ Named(d.sub) /\ (Named(d.pred) \/ Language(d.obj) # <<>>)
                /\ IF d.obj.k = "lit" THEN GoodValue(d.obj) ELSE Named(d.obj)
                /\ d.label.k = "none" \/ NameOf(d.label) = <<>> \/ Named(d.label)
    IN  rdfResult # <<"none">> =>
          rdfResult = IF early /\ Typed(d.obj) /\ d.obj.v = <<>> THEN <<"fatal">>
                      ELSE IF early /\ good THEN <<"ok", Stated(d)>> ELSE <<"error">>
=============================================================================
