------------------------------- MODULE Loader -------------------------------
(***************************************************************************)
(* loader/loader.go: the bulk loader.  LoadEdges starts one reader, some   *)
(* parsers and many handlers, connected by two bounded channels:           *)
(*                                                                         *)
(*     readLines --s.input--> parseStream --s.cnq--> handleNQuads          *)
(*                                                                         *)
(* A line of the file is its kind; a channel holds line numbers.           *)
(***************************************************************************)
EXTENDS Integers, Sequences, FiniteSets

CONSTANTS
    Parsers,       \* the parseStream goroutines (GOMAXPROCS of them)
    Handlers,      \* the handleNQuads goroutines (flag maxroutines)
    ChanCap,       \* capacity of s.input and s.cnq (10000)
    ShuffleSize,   \* lines kept back by readLines to shuffle (1000)
    MaxLines,      \* bound: length of the file
    MaxBadEdges,   \* bound: lines whose conversion to an edge fails
    MaxWrites,     \* bound: writes to posting lists that a file asks for
    markUids,      \* the group of _uid_ is one of those that are loaded
    MaxEvictions   \* bound: evictions while a load runs

VARIABLES
    ldCall,        \* "idle", "loading", "closed" (cnq), or "returned"
    ldFile,        \* the kinds of the lines of the file
    ldReader,      \* readLines: next line, shuffle buffer, input closed?
    input, cnq,    \* the channels, as sequences of line numbers
    ldParser,      \* what each parseStream holds: see Idle, Holding, Done
    ldHandler,     \* what each handleNQuads holds
    ldPlist,       \* the posting list it got: "none", "live", or "gone" (evicted)
    ldErr,         \* s.err # nil
    ctr,           \* the counters
    loaded,        \* history: each write of each line, and its list then
    ldEvicted      \* history: how many evictions there were

ldVars == <<ldCall, ldFile, ldReader, input, cnq, ldParser, ldHandler, ldPlist,
            ldErr, ctr, loaded, ldEvicted>>

(* "empty" is skipped, "garbage" does not parse, "foreign" has a predicate
   of a group that is not loaded, "badEdge" parses and does not convert;
   "edge" has a value and "link" a ValueId. *)
LineKinds == {"empty", "garbage", "foreign", "badEdge", "edge", "link"}

(* The lists a line is written to: that of its edge and, to mark its uids as
   taken, the _uid_ lists of its entity and of its ValueId. *)
Writes(kind) ==
    CASE kind = "edge" -> IF markUids THEN 2 ELSE 1
      [] kind = "link" -> IF markUids THEN 3 ELSE 1
      [] OTHER -> 0

Idle == 0           \* waiting on its channel; n > 0: holding line n
Done == -1          \* returned
Counting == -2      \* sent its quad, about to count it as parsed

LinesOf(f, kind) == Cardinality({i \in DOMAIN f : f[i] = kind})

Init ==
    /\ ldCall = "idle"
    /\ ldFile = <<>>
    /\ ldReader = [pos |-> 1, buf |-> <<>>, closed |-> FALSE]
    /\ input = <<>> /\ cnq = <<>>
    /\ ldParser = [p \in Parsers |-> Idle]
    /\ ldHandler = [h \in Handlers |-> Idle]
    /\ ldPlist = [h \in Handlers |-> "none"]
    /\ ldErr = FALSE
    /\ ctr = [read |-> 0, parsed |-> 0, processed |-> 0, ignored |-> 0]
    /\ loaded = <<>>
    /\ ldEvicted = 0

(* A send on s.input or s.cnq waits for room. *)
HasRoom(ch) == Len(ch) < ChanCap

(* SetError: the error is kept for all goroutines and for the result. *)
SetError == ldErr' = TRUE

(* The call: the goroutines are started, and the reader fills its shuffle
   buffer, which involves no channel. *)
LoadEdges ==
    \E n \in 0..MaxLines : \E f \in [1..n -> LineKinds] :
        LET k == IF n < ShuffleSize THEN n ELSE ShuffleSize
        IN  /\ ldCall = "idle"
            /\ LinesOf(f, "badEdge") <= MaxBadEdges
            /\ LinesOf(f, "edge") * Writes("edge") + LinesOf(f, "link") * Writes("link")
                  <= MaxWrites
            /\ ldCall' = "loading"
            /\ ldFile' = f
            /\ ldReader' = [pos |-> k + 1, buf |-> [i \in 1..k |-> i],
                            closed |-> FALSE]
            /\ ctr' = [ctr EXCEPT !.read = k]
            /\ loaded' = [i \in 1..n |-> <<>>]
            /\ UNCHANGED <<input, cnq, ldParser, ldHandler, ldPlist, ldErr,
                           ldEvicted>>

(* One step of readLines: swap a random buffered line against the next one
   of the file; at the end of the file send the buffer, then close. *)
readLines ==
    /\ ldCall # "idle" /\ ~ldReader.closed
    /\ IF ldReader.pos <= Len(ldFile)
       THEN \E k \in DOMAIN ldReader.buf :
               /\ HasRoom(input)
               /\ input' = Append(input, ldReader.buf[k])
               /\ ldReader' = [ldReader EXCEPT !.pos = @ + 1,
                                               !.buf[k] = ldReader.pos]
               /\ ctr' = [ctr EXCEPT !.read = @ + 1]
       ELSE /\ UNCHANGED ctr
            /\ IF ldReader.buf = <<>>
               THEN /\ ldReader' = [ldReader EXCEPT !.closed = TRUE]
                    /\ UNCHANGED input
               ELSE /\ HasRoom(input)
                    /\ input' = Append(input, Head(ldReader.buf))
                    /\ ldReader' = [ldReader EXCEPT !.buf = Tail(@)]
    /\ UNCHANGED <<ldCall, ldFile, cnq, ldParser, ldHandler, ldPlist, ldErr,
                   loaded, ldEvicted>>

(* parseStream p takes a line.  s.Error() is read here, before the parsing
   and the send: an error set later does not stop this line. *)
parseTake(p) ==
    /\ ldCall = "loading" /\ ldParser[p] = Idle
    /\ IF input = <<>>
       THEN /\ ldReader.closed
            /\ ldParser' = [ldParser EXCEPT ![p] = Done]
            /\ UNCHANGED input
       ELSE /\ input' = Tail(input)
            /\ ldParser' = [ldParser EXCEPT ![p] =
                   IF ldErr THEN Done
                   ELSE IF ldFile[Head(input)] = "empty" THEN Idle
                   ELSE Head(input)]
    /\ UNCHANGED <<ldCall, ldFile, ldReader, cnq, ldHandler, ldPlist, ldErr,
                   ctr, loaded, ldEvicted>>

(* It parses the line: rdf.Parse fails and the error is kept, or the quad
   is sent once the channel has room, and counted after that. *)
parseStream(p) ==
    /\ ldParser[p] \notin {Idle, Done}
    /\ \/ /\ ldParser[p] > 0 /\ ldFile[ldParser[p]] = "garbage"
          /\ SetError
          /\ ldParser' = [ldParser EXCEPT ![p] = Done]
          /\ UNCHANGED <<cnq, ctr>>
       \/ /\ ldParser[p] > 0 /\ ldFile[ldParser[p]] # "garbage"
          /\ HasRoom(cnq)
          /\ cnq' = Append(cnq, ldParser[p])
          /\ ldParser' = [ldParser EXCEPT ![p] = Counting]
          /\ UNCHANGED <<ldErr, ctr>>
       \/ /\ ldParser[p] = Counting
          /\ ctr' = [ctr EXCEPT !.parsed = @ + 1]
          /\ ldParser' = [ldParser EXCEPT ![p] = Idle]
          /\ UNCHANGED <<cnq, ldErr>>
    /\ UNCHANGED <<ldCall, ldFile, ldReader, input, ldHandler, ldPlist, loaded,
                   ldEvicted>>

(* handleNQuads h takes a quad, checks the error, and skips the predicates
   of groups that are not loaded here. *)
handleTake(h) ==
    /\ ldCall \in {"loading", "closed"} /\ ldHandler[h] = Idle
    /\ IF cnq = <<>>
       THEN /\ ldCall = "closed"
            /\ ldHandler' = [ldHandler EXCEPT ![h] = Done]
            /\ UNCHANGED <<cnq, ctr>>
       ELSE LET foreign == ldFile[Head(cnq)] = "foreign"
            IN  /\ cnq' = Tail(cnq)
                /\ ldHandler' = [ldHandler EXCEPT ![h] =
                       IF ldErr THEN Done ELSE IF foreign THEN Idle ELSE Head(cnq)]
                /\ ctr' = IF ~ldErr /\ foreign
                          THEN [ctr EXCEPT !.ignored = @ + 1] ELSE ctr
    /\ UNCHANGED <<ldCall, ldFile, ldReader, input, ldParser, ldPlist, ldErr,
                   loaded, ldEvicted>>

(* It converts the quad, and a failed conversion is kept as the error; or it
   gets, by GetOrCreate, the list of the next write of its line. *)
handleNQuads(h) ==
    /\ ldHandler[h] > 0 /\ ldPlist[h] = "none"
    /\ IF ldFile[ldHandler[h]] = "badEdge"
       THEN /\ SetError
            /\ ldHandler' = [ldHandler EXCEPT ![h] = Done]
            /\ UNCHANGED ldPlist
       ELSE /\ ldPlist' = [ldPlist EXCEPT ![h] = "live"]
            /\ UNCHANGED <<ldErr, ldHandler>>
    /\ UNCHANGED <<ldCall, ldFile, ldReader, input, cnq, ldParser, ctr, loaded,
                   ldEvicted>>

(* It writes to that list: AddMutationWithIndex for the edge, AddMutation in
   markTaken.  A list that is gone refuses the write with ErrRetry; nobody
   looks at the result, and the quad is counted after its last write. *)
AddMutation(h) ==
    /\ ldPlist[h] # "none"
    /\ LET n == ldHandler[h]
       IN  /\ loaded' = [loaded EXCEPT ![n] = Append(@, ldPlist[h])]
           /\ IF Len(loaded[n]) + 1 = Writes(ldFile[n])
              THEN /\ ctr' = [ctr EXCEPT !.processed = @ + 1]
                   /\ ldHandler' = [ldHandler EXCEPT ![h] = Idle]
              ELSE UNCHANGED <<ctr, ldHandler>>
    /\ ldPlist' = [ldPlist EXCEPT ![h] = "none"]
    /\ UNCHANGED <<ldCall, ldFile, ldReader, input, cnq, ldParser, ldErr,
                   ldEvicted>>

(* periodicMerging evicts all lists when memory is short.  It keeps GetOrCreate
   waiting until every list that is out has been set for deletion; a write
   that comes before that of its own list is one before the eviction.  When
   no list is out the loader does not notice it. *)
aggressivelyEvict ==
    /\ ldEvicted < MaxEvictions
    /\ \E h \in Handlers : ldPlist[h] = "live"
    /\ ldPlist' = [h \in Handlers |-> IF ldPlist[h] = "none" THEN "none" ELSE "gone"]
    /\ ldEvicted' = ldEvicted + 1
    /\ UNCHANGED <<ldCall, ldFile, ldReader, input, cnq, ldParser, ldHandler,
                   ldErr, ctr, loaded>>

(* pwg.Wait(); close(s.cnq) *)
closeCnq ==
    /\ ldCall = "loading"
    /\ \A p \in Parsers : ldParser[p] = Done
    /\ ldCall' = "closed"
    /\ UNCHANGED <<ldFile, ldReader, input, cnq, ldParser, ldHandler, ldPlist,
                   ldErr, ctr, loaded, ldEvicted>>

(* wg.Wait(), and LoadEdges returns ctr.processed and s.Error(). *)
loadReturns ==
    /\ ldCall = "closed"
    /\ \A h \in Handlers : ldHandler[h] = Done
    /\ ldCall' = "returned"
    /\ UNCHANGED <<ldFile, ldReader, input, cnq, ldParser, ldHandler, ldPlist,
                   ldErr, ctr, loaded, ldEvicted>>

Goroutines ==
    \/ readLines \/ closeCnq \/ loadReturns
    \/ \E p \in Parsers : parseTake(p) \/ parseStream(p)
    \/ \E h \in Handlers : handleTake(h) \/ handleNQuads(h) \/ AddMutation(h)

Next == LoadEdges \/ Goroutines \/ aggressivelyEvict

(* Every goroutine that can run is run: the Go scheduler. *)
Fairness == WF_ldVars(Goroutines)

-----------------------------------------------------------------------------
(* The variables have their types, and the channels keep to their capacity. *)
TypeOK ==
    /\ ldCall \in {"idle", "loading", "closed", "returned"}
    /\ ldFile \in Seq(LineKinds)
    /\ ldReader.pos \in 1..(MaxLines + 1) /\ Len(ldReader.buf) <= ShuffleSize
    /\ Len(input) <= ChanCap /\ Len(cnq) <= ChanCap
    /\ ldParser \in [Parsers -> {Idle, Done, Counting} \cup (1..MaxLines)]
    /\ ldHandler \in [Handlers -> {Idle, Done} \cup (1..MaxLines)]
    /\ ldPlist \in [Handlers -> {"none", "live", "gone"}]
    /\ ldErr \in BOOLEAN
    /\ \A k \in DOMAIN ctr : ctr[k] \in 0..MaxLines
    /\ DOMAIN loaded = DOMAIN ldFile /\ ldEvicted \in Nat

(* The writes that were refused, and what the log never mentions. *)
LostWrites ==
    {w \in (DOMAIN ldFile) \X (1..3) :
        w[2] \in DOMAIN loaded[w[1]] /\ loaded[w[1]][w[2]] = "gone"}

(* What a call of LoadEdges comes to.  When it returns without an error, every
   line of a loaded group was written to each of its lists, once, the count it
   returns is the number of those lines, and nothing of the file was bad.  An
   eviction costs at most one write of each handler, so that without one all
   the writes are in their lists.  A line is carried by five goroutines and two
   channels, and shuffled on its way. *)
LoadIsComplete ==
    /\ TypeOK
    /\ Cardinality(LostWrites) <= ldEvicted * Cardinality(Handlers)
    /\ ldCall = "returned" /\ ~ldErr =>
          /\ \A i \in DOMAIN ldFile : ldFile[i] \notin {"garbage", "badEdge"}
          /\ \A i \in DOMAIN ldFile : Len(loaded[i]) = Writes(ldFile[i])
          /\ ctr.processed = Cardinality({i \in DOMAIN ldFile : Writes(ldFile[i]) > 0})

(* What the comment of LoadEdges says: the contents of the file are converted
   to posting lists.  An eviction refutes it: the write it makes fail is the
   only one the retry loop of handleNQuads does not try again. *)
ContentsAreConverted ==
    ldCall = "returned" /\ ~ldErr =>
        \A i \in DOMAIN ldFile : loaded[i] = [j \in 1..Writes(ldFile[i]) |-> "live"]

=============================================================================
