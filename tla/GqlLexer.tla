------------------------------ MODULE GqlLexer ------------------------------
(***************************************************************************)
(* gql/state.go and lex/lexer.go: the state functions of the query lexer.  *)
(*                                                                         *)
(* The input is a sequence of pieces [c, v]: a bracket, a sign, or a run   *)
(* of runes that a state function absorbs as a whole (c = "word" for a     *)
(* name, "val" for a run that begins with neither a letter nor a sign,     *)
(* "lit" for a literal in quotes, "dollar" for $ and a name, "dots" for    *)
(* ... and a name, "nl" for an end of line).  Spaces only separate pieces: *)
(* every state but lexText ignores them and there they join the text.  A   *)
(* word of Underscored begins with an underscore.                          *)
(* An item is [t, v]: its type and its text.                               *)
(***************************************************************************)
EXTENDS Integers, Sequences, FiniteSets, FiniteSetsExt

Underscored == {"_uid_", "_xid_"}
Item(t, v) == [t |-> t, v |-> v]
NoPiece == [c |-> "EOF", v |-> ""]

(* Where the lexer is: its state function, how much it has read, the nesting
   of {} and of () in a filter, the mode, the word lexText has not emitted
   yet, and the items emitted. *)
LexerInit(in) ==
    [fn |-> "lexText", input |-> in, at |-> 1, depth |-> 0, filterDepth |-> 0,
     mode |-> "none", pending |-> "", items |-> <<>>]

Emit(l, its) == [l EXCEPT !.items = @ \o its]
Errorf(l) == [l EXCEPT !.items = Append(@, Item("Error", "")), !.fn = "nil"]
Goto(l, fn) == [l EXCEPT !.fn = fn]
Advance(l) == [l EXCEPT !.at = @ + 1]
Piece(l) == IF l.at > Len(l.input) THEN NoPiece ELSE l.input[l.at]
TextOf(p) == IF p.v # "" THEN p.v ELSE IF p.c = "nl" THEN "" ELSE p.c
Absorb(l) == [Advance(l) EXCEPT !.pending = @ \o TextOf(Piece(l))]

(* Text up to here, then the items. *)
AfterText(l, its) ==
    [l EXCEPT !.items = @ \o <<Item("Text", l.pending)>> \o its, !.pending = ""]

lexText(l) ==
    LET p == Piece(l)
        next == Advance(l)
    IN  CASE p.c = "{" -> Goto([AfterText(next, <<Item("LeftCurl", "")>>) EXCEPT !.depth = @ + 1],
                               IF l.mode = "mutation" THEN "lexInsideMutation" ELSE "lexInside")
          [] p.c = "}" -> Errorf(next)
          [] p.c = "EOF" ->
               Goto(Emit(l, (IF l.pending # "" THEN <<Item("Text", l.pending)>> ELSE <<>>)
                            \o <<Item("EOF", "")>>), "nil")
          [] p.c = "(" -> Goto(AfterText(next, <<Item("LeftRound", "")>>), "lexVarInside")
          [] p.c = "word" -> Goto(AfterText(l, <<>>), "lexOperationType")
          [] OTHER -> Absorb(l)

(* An unknown word is an error in mode 0, but lexing goes on; in the other
   modes it is the text in front of the block. *)
lexOperationType(l) ==
    LET w == Piece(l).v
        next == Goto(Advance(l), "lexText")
    IN  IF w \in {"mutation", "fragment", "query"}
        THEN [Emit(next, <<Item("OpType", w)>>) EXCEPT !.mode = w]
        ELSE [(IF l.mode = "none" THEN Goto(Errorf(next), "lexText") ELSE next) EXCEPT !.pending = w]

lexFragmentSpread(l) == Emit(Advance(l), <<Item("FragmentSpread", Piece(l).v)>>)
lexName(l) == Emit(Advance(l), <<Item("Name", Piece(l).v)>>)

lexInside(l) ==
    LET p == Piece(l)
        next == Advance(l)
        k == Piece(next)
    IN  CASE p.c = "dots" -> lexFragmentSpread(l)
          [] p.c = "}" -> Goto([Emit(next, <<Item("RightCurl", "")>>) EXCEPT !.depth = @ - 1],
                               IF l.depth = 1 THEN "lexText" ELSE "lexInside")
          [] p.c = "{" -> [Emit(next, <<Item("LeftCurl", "")>>) EXCEPT !.depth = @ + 1]
          [] p.c \in {"nl", ","} -> next
          [] p.c = "word" -> lexName(l)
          [] p.c = "#" -> Goto(next, "lexComment")
          [] p.c = "(" ->
               IF k.v \in Underscored \/ l.depth # 1 \/ l.mode = "fragment"
               THEN Goto(Emit(next, <<Item("LeftRound", ""), Item("Argument", "")>>), "lexArgInside")
               ELSE Goto([Emit(next, <<Item("LeftRound", ""), Item("Generator", "")>>)
                            EXCEPT !.filterDepth = @ + 1], "lexFilterInside")
          [] p.c = ":" -> Goto(next, "lexAlias")
          [] p.c = "@" -> Goto(next, "lexDirective")
          [] OTHER -> Errorf(next)      \* the end of the input, or a rune of no use here

(* lexDirective: any directive but filter ends the lexing. *)
lexDirective(l) ==
    LET p == Piece(l)
    IN  IF p.c # "word" THEN Errorf(Advance(l))
        ELSE LET named == Emit(Advance(l), <<Item("DirectiveName", p.v)>>)
             IN  IF p.v = "filter" THEN Goto(named, "lexFilterInside") ELSE Errorf(named)

(* lexAlias: also an empty name. *)
lexAlias(l) ==
    LET p == Piece(l)
    IN  Goto(IF p.c \in {"word", "val"} THEN Emit(Advance(l), <<Item("Alias", p.v)>>)
             ELSE Emit(l, <<Item("Alias", "")>>), "lexInside")

(* lexFilterInside, with lexFilterFuncName in it. *)
lexFilterInside(l) ==
    LET p == Piece(l)
        next == Advance(l)
    IN  CASE p.c = "(" -> [Emit(next, <<Item("LeftRound", "")>>) EXCEPT !.filterDepth = @ + 1]
          [] p.c = ")" ->
               IF l.filterDepth = 0 THEN Errorf(next)
               ELSE Goto([Emit(next, <<Item("RightRound", "")>>) EXCEPT !.filterDepth = @ - 1],
                         IF l.filterDepth = 1 THEN "lexInside" ELSE "lexFilterInside")
          [] p.c = "nl" -> next
          [] p.c = "word" -> Goto(Emit(next, <<Item("FilterFunc", p.v)>>), "lexFilterFuncInside")
          [] p.c = "&&" -> Emit(next, <<Item("FilterAnd", "")>>)
          [] p.c = "||" -> Emit(next, <<Item("FilterOr", "")>>)
          [] OTHER -> Errorf(next)

(* lexFilterFuncInside: an end of line counts as a quotation mark, so the rest
   of that line is an argument. *)
lexFilterFuncInside(l) ==
    LET p == Piece(l)
        next == Advance(l)
        ends == {j \in next.at..Len(l.input) : l.input[j].c \in {"nl", "lit"}}
    IN  CASE p.c = "," -> next
          [] p.c = "(" -> Emit(next, <<Item("LeftRound", "")>>)
          [] p.c = ")" -> Goto(Emit(next, <<Item("RightRound", "")>>), "lexFilterInside")
          [] p.c = "lit" -> Emit(next, <<Item("FilterFuncArg", p.v)>>)
          [] p.c = "nl" ->
               LET arg == Emit(next, <<Item("FilterFuncArg", "line")>>)
               IN  IF ends # {} /\ l.input[Min(ends)].c = "nl"
                   THEN [arg EXCEPT !.at = Min(ends) + 1] ELSE Errorf(arg)
          [] OTHER -> Errorf(next)

(* lexComment: at the end of the input it ends the lexing without an error. *)
lexComment(l) ==
    CASE Piece(l).c = "nl" -> Goto(Emit(Advance(l), <<Item("Comment", "")>>), "lexInside")
      [] Piece(l).c = "EOF" -> Goto(Emit(l, <<Item("Comment", ""), Item("EOF", "")>>), "nil")
      [] OTHER -> Advance(l)

(* lexInsideMutation with lexNameMutation. *)
lexInsideMutation(l) ==
    LET p == Piece(l)
        next == Advance(l)
        deeper == [Emit(next, <<Item("LeftCurl", "")>>) EXCEPT !.depth = @ + 1]
    IN  CASE p.c = "}" -> Goto([Emit(next, <<Item("RightCurl", "")>>) EXCEPT !.depth = @ - 1],
                               IF l.depth = 1 THEN "lexText" ELSE "lexInsideMutation")
          [] p.c = "{" -> Goto(deeper, IF deeper.depth >= 2 THEN "lexTextMutation" ELSE "lexInsideMutation")
          [] p.c = "nl" -> next
          [] p.c = "word" -> Emit(next, <<Item("MutationOp", p.v)>>)
          [] OTHER -> Errorf(next)

(* lexTextMutation: everything up to the } that closes the operation. *)
lexTextMutation(l) ==
    LET p == Piece(l)
    IN  CASE p.c = "EOF" -> Errorf(l)
          [] p.c = "{" -> [Absorb(l) EXCEPT !.depth = @ + 1]
          [] p.c = "}" /\ l.depth > 2 -> [Absorb(l) EXCEPT !.depth = @ - 1]
          [] p.c = "}" /\ l.depth <= 2 ->
               Goto([Emit(l, <<Item("MutationContent", l.pending)>>) EXCEPT !.pending = ""],
                    "lexInsideMutation")
          [] OTHER -> Absorb(l)

(* lexVarInside, with lexVarName; lexVarType and lexVarDefault take the run. *)
lexVarInside(l) ==
    LET p == Piece(l)
        next == Advance(l)
    IN  CASE p.c = "nl" -> next
          [] p.c = "dollar" -> Emit(next, <<Item("VarName", p.v)>>)
          [] p.c = ":" -> Goto(next, "lexVarType")
          [] p.c = "=" -> Goto(Emit(next, <<Item("Equal", "")>>), "lexVarDefault")
          [] p.c = ")" -> Goto(Emit(next, <<Item("RightRound", "")>>), "lexText")
          [] p.c = "," -> Emit(next, <<Item("Comma", "")>>)
          [] OTHER -> Errorf(next)

(* A run up to a space, an end of line, a comma or ); the end of the input in
   its place is an error. *)
lexRun(l, type, back) ==
    LET p == Piece(l)
    IN  IF p.c \in {"nl", ",", ")"} THEN Goto(Emit(l, <<Item(type, "")>>), back)
        ELSE IF l.at >= Len(l.input) THEN Errorf(l)
        ELSE Goto(Emit(Advance(l), <<Item(type, TextOf(p))>>), back)

lexArgInside(l) ==
    LET p == Piece(l)
        next == Advance(l)
    IN  CASE p.c \in {"nl", ","} -> next
          [] p.c = "word" -> Emit(next, <<Item("ArgName", p.v)>>)
          [] p.c = ":" -> Goto(next, "lexArgVal")
          [] p.c = ")" -> Goto(Emit(next, <<Item("RightRound", "")>>), "lexInside")
          [] OTHER -> Errorf(next)

(* One state function, on one piece. *)
lexStep(l) ==
    CASE l.fn = "lexText" -> lexText(l)
      [] l.fn = "lexOperationType" -> lexOperationType(l)
      [] l.fn = "lexInside" -> lexInside(l)
      [] l.fn = "lexDirective" -> lexDirective(l)
      [] l.fn = "lexAlias" -> lexAlias(l)
      [] l.fn = "lexFilterInside" -> lexFilterInside(l)
      [] l.fn = "lexFilterFuncInside" -> lexFilterFuncInside(l)
      [] l.fn = "lexComment" -> lexComment(l)
      [] l.fn = "lexInsideMutation" -> lexInsideMutation(l)
      [] l.fn = "lexTextMutation" -> lexTextMutation(l)
      [] l.fn = "lexVarInside" -> lexVarInside(l)
      [] l.fn = "lexVarType" -> lexRun(l, "VarType", "lexVarInside")
      [] l.fn = "lexVarDefault" -> lexRun(l, "VarDefault", "lexVarInside")
      [] l.fn = "lexArgInside" -> lexArgInside(l)
      [] l.fn = "lexArgVal" -> lexRun(l, "ArgVal", "lexArgInside")

(* run: the state functions until nil, then the channel is closed. *)
RECURSIVE run(_)
run(l) == IF l.fn = "nil" THEN l ELSE run(lexStep(l))
=============================================================================
