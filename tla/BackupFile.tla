----------------------------- MODULE BackupFile -----------------------------
(***************************************************************************)
(* worker/backup.go: backup(gid) walks the store with an iterator, seeking *)
(* past what it leaves out, and passes the lists of its group to converter *)
(* goroutines, which collect RDF text in buffers and pass the buffers to   *)
(* the goroutine that writes the file.                                     *)
(*                                                                         *)
(* Keys are byte strings over a small alphabet in the order of the ASCII   *)
(* table, for what is skipped is a question of bytes: a data key is        *)
(* pred '|' uid, an index key is pred ':' term.  The text of a list is a   *)
(* number of cells, written one after the other.  A buffer sent to chb is  *)
(* a slice of the converter's array, which the converter goes on to fill   *)
(* again: what the file gets is what the cells hold when they are read.    *)
(***************************************************************************)
EXTENDS Integers, Sequences, SequencesExt, FiniteSets, FiniteSetsExt

CONSTANTS
    BkUniverse,      \* keys the store may have
    BkMaxKeys,       \* how many of them it has, at most
    BkGroups,        \* the group of each predicate (a function)
    Converters,      \* goroutines that convert (numBackupRoutines)
    BkSize,          \* the cells of the text of each list (a function)
    FlushAt,         \* cells after which a buffer is sent (40000 bytes)
    BufCap,          \* cells of a buffer's first array (50000 bytes)
    ChkvCap, ChbCap  \* capacities of the channels

VARIABLES
    bkStore, bkKey, lastPred,     \* the store, the iterator, its last predicate
    chkv, chkvClosed, chb, chbClosed,
    bkHeap,                       \* a converter's arrays, the last one in use
    bkLen,                        \* cells of it in use; -1: the goroutine ended
    bkTodo,                       \* cells of the list at hand it has yet to write
    bkSlice,                      \* the slice the writer is at, and how far, or None
    bkFile,                       \* cells in the file
    bkWriter,                     \* "run", "failed" or "done"
    bkCall,                       \* "idle", "scan", "drain", "ok", "error", "crash"
    bkTorn                        \* history: a cell was overwritten before it was read

bkVars == <<bkStore, bkKey, lastPred, chkv, chkvClosed, chb, chbClosed, bkHeap, bkLen,
            bkTodo, bkSlice, bkFile, bkWriter, bkCall, bkTorn>>

Colon == 1                              \* ":" < letters 2, 3 < "|" < "~" < 6
Bar == 4
Tilde == 5
UidPrefix == <<3, 3>>                   \* "_uid_"
BkGid == 0                              \* the group that is backed up
End == <<>>                             \* the iterator is not valid
None == [n |-> 0]

Text(k) == [i \in 1..BkSize[k] |-> <<k, i>>]

Less(s, t) == \E i \in 1..Len(t) :
    /\ \A j \in 1..(i - 1) : j <= Len(s) /\ s[j] = t[j]
    /\ i > Len(s) \/ (i <= Len(s) /\ s[i] < t[i])

(* Iterator.Seek (external): the first key that is not below the target. *)
Seek(store, target) ==
    LET above == {k \in store : ~Less(k, target)}
    IN  IF above = {} THEN End ELSE CHOOSE k \in above : \A o \in above : ~Less(o, k)

IsIndexKey(k) == Colon \in Range(k)
Splits(k) == ~IsIndexKey(k) /\ ~IsPrefix(UidPrefix, k)     \* reaches SplitKey
FirstAt(k, b) == CHOOSE i \in DOMAIN k : k[i] = b /\ \A j \in 1..(i - 1) : k[j] # b
PredOf(k) == SubSeq(k, 1, FirstAt(k, Bar) - 1)

Init ==
    /\ bkStore = {} /\ bkKey = End /\ lastPred = <<>>
    /\ chkv = <<>> /\ chkvClosed = FALSE /\ chb = <<>> /\ chbClosed = FALSE
    /\ bkHeap = [c \in Converters |-> <<<<>>>>]
    /\ bkLen = [c \in Converters |-> 0]
    /\ bkTodo = [c \in Converters |-> <<>>] /\ bkSlice = None
    /\ bkFile = <<>> /\ bkWriter = "run" /\ bkCall = "idle" /\ bkTorn = FALSE

(* backup is called; making the directory may fail. *)
backup ==
    /\ bkCall = "idle"
    /\ \E store \in UNION {kSubset(n, BkUniverse) : n \in 0..BkMaxKeys} :
          bkStore' = store /\ bkKey' = Seek(store, <<>>)
    /\ bkCall' \in {"scan", "error"}
    /\ UNCHANGED <<lastPred, chkv, chkvClosed, chb, chbClosed, bkHeap, bkLen, bkTodo,
                   bkSlice, bkFile, bkWriter, bkTorn>>

(* Where the loop seeks to from a key it leaves out: past the index keys of
   the predicate, past the uid mappings, past a predicate of another group. *)
skipTo(k) ==
    IF IsIndexKey(k) THEN SubSeq(k, 1, FirstAt(k, Colon)) \o <<Tilde>>
    ELSE IF IsPrefix(UidPrefix, k) THEN UidPrefix \o <<Tilde>>
    ELSE PredOf(k) \o <<Tilde>>

\* Mutant: only a change of the predicate is looked at.
skipsSame(k) == Splits(k) => PredOf(k) = lastPred
skips(k) == Splits(k) => PredOf(k) # lastPred /\ BkGroups[PredOf(k)] # BkGid

(* One turn of the loop over the store. SplitKey asserts that the key has
   one '|'. *)
scanKey ==
    /\ bkCall = "scan" /\ bkKey # End
    /\ LET k == bkKey
           asserts == Splits(k) => Cardinality({i \in DOMAIN k : k[i] = Bar}) = 1
       IN  \/ /\ ~asserts
              /\ bkCall' = "crash"
              /\ UNCHANGED <<bkKey, lastPred, chkv>>
           \/ /\ asserts /\ skips(k)
              /\ bkKey' = Seek(bkStore, skipTo(k))
              /\ UNCHANGED <<bkCall, lastPred, chkv>>
           \/ /\ asserts /\ ~skips(k) /\ Len(chkv) < ChkvCap
              /\ chkv' = Append(chkv, k)
              /\ lastPred' = PredOf(k)
              /\ bkKey' = Seek(bkStore \ {k}, k)
              /\ UNCHANGED bkCall
    /\ UNCHANGED <<bkStore, chkvClosed, chb, chbClosed, bkHeap, bkLen, bkTodo, bkSlice,
                   bkFile, bkWriter, bkTorn>>

scanEnds ==
    /\ bkCall = "scan" /\ bkKey = End
    /\ chkvClosed' = TRUE
    /\ bkCall' = "drain"
    /\ UNCHANGED <<bkStore, bkKey, lastPred, chkv, chb, chbClosed, bkHeap, bkLen, bkTodo,
                   bkSlice, bkFile, bkWriter, bkTorn>>

(* A converter takes a list when it is done with the one before: toRDF ... *)
Converting(c) == bkCall \in {"scan", "drain"} /\ bkTodo[c] = <<>> /\ bkLen[c] # -1

convert(c) ==
    /\ Converting(c) /\ bkLen[c] < FlushAt /\ chkv # <<>>
    /\ chkv' = Tail(chkv)
    /\ bkTodo' = [bkTodo EXCEPT ![c] = Text(Head(chkv))]
    /\ UNCHANGED <<bkStore, bkKey, lastPred, chkvClosed, chb, chbClosed, bkHeap, bkLen,
                   bkSlice, bkFile, bkWriter, bkCall, bkTorn>>

(* ... writes its text at the end of the buffer; a buffer that is full gets a
   larger array with the same contents. *)
Handed == Range(chb) \cup {bkSlice}
Overwrites(c, n) ==
    \E sl \in Handed \ {None} : /\ sl.conv = c /\ sl.arr = Len(bkHeap[c])
                                /\ n \in (sl.at + 1)..sl.n

writeCell(c) ==
    /\ bkCall \in {"scan", "drain"} /\ bkTodo[c] # <<>>
    /\ LET arr == Last(bkHeap[c])
           n == bkLen[c] + 1
           full == Len(bkHeap[c]) = 1 /\ n > BufCap
           written == SubSeq(arr, 1, n - 1) \o <<Head(bkTodo[c])>> \o SubSeq(arr, n + 1, Len(arr))
       IN  /\ bkHeap' = [bkHeap EXCEPT ![c] =
                 IF full THEN Append(@, SubSeq(written, 1, n)) ELSE [@ EXCEPT ![Len(@)] = written]]
           /\ bkLen' = [bkLen EXCEPT ![c] = n]
           /\ bkTorn' = (bkTorn \/ (~full /\ Overwrites(c, n)))
    /\ bkTodo' = [bkTodo EXCEPT ![c] = Tail(@)]
    /\ UNCHANGED <<bkStore, bkKey, lastPred, chkv, chkvClosed, chb, chbClosed, bkSlice,
                   bkFile, bkWriter, bkCall>>

(* It sends a buffer that has enough in it, or what is left when chkv is closed. *)
flush(c) ==
    /\ Converting(c)
    /\ LET enough == bkLen[c] >= FlushAt
           last == ~enough /\ chkvClosed /\ chkv = <<>>
       IN  /\ enough \/ last
           /\ bkLen[c] > 0 => Len(chb) < ChbCap
           /\ chb' = IF bkLen[c] = 0 THEN chb
                     ELSE Append(chb, [conv |-> c, arr |-> Len(bkHeap[c]), n |-> bkLen[c], at |-> 0])
           /\ bkLen' = [bkLen EXCEPT ![c] = IF enough THEN 0 ELSE -1]
    /\ UNCHANGED <<bkStore, bkKey, lastPred, chkv, chkvClosed, chbClosed, bkHeap, bkTodo,
                   bkSlice, bkFile, bkWriter, bkCall, bkTorn>>

(* wg.Wait, then close(chb). *)
convertersDone ==
    /\ bkCall = "drain" /\ ~chbClosed
    /\ \A c \in Converters : bkLen[c] = -1
    /\ chbClosed' = TRUE
    /\ UNCHANGED <<bkStore, bkKey, lastPred, chkv, chkvClosed, chb, bkHeap, bkLen, bkTodo,
                   bkSlice, bkFile, bkWriter, bkCall, bkTorn>>

(* The writer takes a slice and compresses its cells one by one. *)
writeToFile ==
    /\ bkCall \in {"scan", "drain"} /\ bkWriter = "run"
    /\ \/ /\ bkSlice = None /\ chb # <<>>
          /\ chb' = Tail(chb) /\ bkSlice' = Head(chb)
          /\ UNCHANGED <<bkFile, bkWriter>>
       \/ /\ bkSlice # None
          /\ LET at == bkSlice.at + 1
             IN  /\ bkFile' = Append(bkFile, bkHeap[bkSlice.conv][bkSlice.arr][at])
                 /\ bkSlice' = IF at = bkSlice.n THEN None ELSE [bkSlice EXCEPT !.at = at]
          /\ UNCHANGED <<chb, bkWriter>>
       \/ /\ bkSlice = None /\ chb = <<>> /\ chbClosed
          /\ bkWriter' = "done"
          /\ UNCHANGED <<chb, bkSlice, bkFile>>
    /\ UNCHANGED <<bkStore, bkKey, lastPred, chkv, chkvClosed, chbClosed, bkHeap, bkLen,
                   bkTodo, bkCall, bkTorn>>

(* An error ends it. *)
writeFails ==
    /\ bkCall \in {"scan", "drain"} /\ bkWriter = "run"
    /\ bkWriter' = "failed"
    /\ UNCHANGED <<bkStore, bkKey, lastPred, chkv, chkvClosed, chb, chbClosed, bkHeap,
                   bkLen, bkTodo, bkSlice, bkFile, bkCall, bkTorn>>

(* backup returns what errChan says. *)
backupReturns ==
    /\ bkCall = "drain" /\ chbClosed /\ bkWriter # "run"
    /\ bkCall' = IF bkWriter = "done" THEN "ok" ELSE "error"
    /\ UNCHANGED <<bkStore, bkKey, lastPred, chkv, chkvClosed, chb, chbClosed, bkHeap,
                   bkLen, bkTodo, bkSlice, bkFile, bkWriter, bkTorn>>

Goroutines ==
    \/ scanKey \/ scanEnds \/ convertersDone \/ writeToFile \/ backupReturns
    \/ \E c \in Converters : convert(c) \/ writeCell(c) \/ flush(c)

Next == backup \/ writeFails \/ Goroutines

Fairness == WF_bkVars(Goroutines)

-----------------------------------------------------------------------------
(* The lists the backup of the group is about, and those of them it takes for
   index keys because a byte of the uid is that of ':'. *)
Wanted == {k \in bkStore : /\ Bar \in Range(k)
                           /\ \A i \in 1..FirstAt(k, Bar) : k[i] # Colon
                           /\ ~IsPrefix(UidPrefix, k)
                           /\ BkGroups[PredOf(k)] = BkGid}
Mistaken == {k \in Wanted : IsIndexKey(k)}

(* The variables have their types and the channels keep to their capacities. *)
TypeOK ==
    LET cells == UNION {Range(Text(k)) : k \in bkStore}
        slices == [conv : Converters, arr : 1..2, n : Nat, at : Nat]
    IN  /\ bkStore \subseteq BkUniverse /\ bkKey \in bkStore \cup {End}
        /\ chkv \in Seq(bkStore) /\ Len(chkv) <= ChkvCap
        /\ chb \in Seq(slices) /\ Len(chb) <= ChbCap /\ bkSlice \in slices \cup {None}
        /\ \A c \in Converters : /\ bkLen[c] \in -1..Len(Last(bkHeap[c]))
                                 /\ bkHeap[c] \in Seq(Seq(cells)) /\ bkTodo[c] \in Seq(cells)
        /\ bkFile \in Seq(cells)
        /\ bkWriter \in {"run", "failed", "done"}
        /\ bkCall \in {"idle", "scan", "drain", "ok", "error", "crash"}

(* The file has the text of each of these lists, whole and once, in some order. *)
FileIs(lists) ==
    \E order \in [1..Cardinality(lists) -> lists] :
       IsInjective(order) /\ bkFile = FlattenSeq([i \in DOMAIN order |-> Text(order[i])])

(* The file of a backup that succeeded is as long as the texts of the lists of
   the group that do not look like index keys; and unless a converter wrote over
   a cell that it had handed to the writer, who had not read it yet, it has the
   text of each of these lists, whole and once, and nothing else. *)
BackupHasTheGroup ==
    /\ TypeOK
    /\ bkCall = "ok" =>
          /\ Len(bkFile) = MapThenSumSet(LAMBDA k : BkSize[k], Wanted \ Mistaken)
          /\ ~bkTorn => FileIs(Wanted \ Mistaken)

(* "Backup creates a backup of data by exporting it as an RDF gzip." *)
BackupIsTheData == bkCall = "ok" => FileIs(Wanted \ Mistaken)

(* A byte above '~' follows the first ':' of a key: Seek finds it again. *)
SeeksInPlace == \E k \in bkStore : IsIndexKey(k) /\ Seek(bkStore, skipTo(k)) = k

(* A converter has a buffer for a writer that gave up. *)
SendsToNobody ==
    /\ bkWriter = "failed" /\ Len(chb) = ChbCap
    /\ \E c \in Converters : Converting(c) /\ bkLen[c] > 0 /\ (bkLen[c] >= FlushAt \/ chkvClosed)

(* "Seek to the end of index keys": from an index key the loop gets on. *)
SeekPassesIndexKeys ==
    (bkCall = "scan") ~> (bkCall # "scan" \/ bkWriter = "failed")
=============================================================================
