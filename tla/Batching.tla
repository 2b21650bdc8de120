------------------------------ MODULE Batching ------------------------------
(***************************************************************************)
(* worker/draft.go: how Raft's messages travel.  send puts a message on a  *)
(* channel, batchAndSendMessages appends it to the buffer of its peer, and *)
(* at each tick hands every buffer that is not empty to a goroutine that   *)
(* makes the call RaftMessage; the receiver cuts the bytes into messages   *)
(* and steps them.                                                         *)
(*                                                                         *)
(* buf.Bytes() shares the buffer's array and buf.Reset() keeps it: until   *)
(* the call has read the slice, in another goroutine, the next messages    *)
(* overwrite it.  (An array that is too small is replaced by a new one;    *)
(* its readers are then like readers that were early.)  A message is its   *)
(* frame of cells: the header, with the length, and the cells of its body. *)
(***************************************************************************)
EXTENDS Integers, Sequences, SequencesExt, FiniteSets

CONSTANTS
    BmPeers,       \* servers the node sends to
    MsgSizes,      \* sizes of a frame, in cells
    BmMsgs,        \* how many messages are sent
    MessagesCap,   \* capacity of the channel messages (1000)
    MaxCalls       \* calls in flight

VARIABLES
    bmSent,        \* messages Raft has given to send: a sequence of [to, size]
    messages,      \* the channel, of indices into bmSent
    bmAt,          \* the message whose header is written and whose body is not, or 0
    bufArray,      \* per peer: the cells of the buffer's array
    bufLen,        \* per peer: cells in use
    bmCalls,       \* calls in flight: [to, got], got the cells read so far
    stepped,       \* per peer: what it has stepped, 0 for what nobody sent
    bmDown,        \* "up"; "sender" or "receiver" when the process exited
    bmBatches,     \* history, per peer: the batches handed over, as sequences of messages
    bmTorn         \* history: a cell was overwritten before a call had read it

bmVars == <<bmSent, messages, bmAt, bufArray, bufLen, bmCalls, stepped, bmDown,
            bmBatches, bmTorn>>

(* The cells of message m: its header, then its body. *)
Frame(m) == [i \in 1..bmSent[m].size |-> <<m, i>>]
Unread == <<0, 0>>

Init ==
    /\ bmSent = <<>> /\ messages = <<>> /\ bmAt = 0
    /\ bufArray = [p \in BmPeers |-> <<>>]
    /\ bufLen = [p \in BmPeers |-> 0]
    /\ bmCalls = <<>>
    /\ stepped = [p \in BmPeers |-> <<>>]
    /\ bmDown = "up"
    /\ bmBatches = [p \in BmPeers |-> <<>>] /\ bmTorn = FALSE

(* send: the process exits when the channel is full. *)
send(to, size) ==
    /\ bmDown = "up" /\ Len(bmSent) < BmMsgs
    /\ bmSent' = Append(bmSent, [to |-> to, size |-> size])
    /\ \/ /\ Len(messages) < MessagesCap
          /\ messages' = Append(messages, Len(bmSent) + 1)
          /\ UNCHANGED bmDown
       \/ /\ Len(messages) = MessagesCap
          /\ bmDown' = "sender"
          /\ UNCHANGED messages
    /\ UNCHANGED <<bmAt, bufArray, bufLen, bmCalls, stepped, bmBatches, bmTorn>>

(* buf.Write at the buffer's length. *)
overwrite(array, at, cells) ==
    SubSeq(array, 1, at) \o cells \o SubSeq(array, at + Len(cells) + 1, Len(array))

write(p, cells) ==
    /\ bufArray' = [bufArray EXCEPT ![p] = overwrite(@, bufLen[p], cells)]
    /\ bufLen' = [bufLen EXCEPT ![p] = @ + Len(cells)]
    /\ bmTorn' = (bmTorn \/ \E i \in DOMAIN bmCalls :
                     /\ bmCalls[i].to = p
                     /\ \E j \in DOMAIN bmCalls[i].got :
                           bmCalls[i].got[j] = Unread /\ j \in (bufLen[p] + 1)..(bufLen[p] + Len(cells)))
    /\ UNCHANGED <<bmSent, bmCalls, stepped, bmDown, bmBatches>>

(* A message from the channel: its length is written, then its bytes. *)
batchHeader ==
    /\ bmDown = "up" /\ bmAt = 0 /\ messages # <<>>
    /\ write(bmSent[Head(messages)].to, <<Head(Frame(Head(messages)))>>)
    /\ bmAt' = Head(messages) /\ messages' = Tail(messages)

batchBody ==
    /\ bmDown = "up" /\ bmAt # 0
    /\ write(bmSent[bmAt].to, Tail(Frame(bmAt)))
    /\ bmAt' = 0 /\ UNCHANGED messages

(* buf.Reset of the buffers that were sent. *)
\* Mutant: it is forgotten.
LenKept(p) == bufLen[p]
ResetLen(p) == 0

(* The tick: one goroutine for each buffer with something in it. *)
MessagesIn(p) ==
    LET headers == SelectSeq(SubSeq(bufArray[p], 1, bufLen[p]), LAMBDA c : c[2] = 1)
    IN  [i \in DOMAIN headers |-> headers[i][1]]

tick ==
    /\ bmDown = "up" /\ bmAt = 0 /\ \E p \in BmPeers : bufLen[p] > 0
    /\ LET due == {p \in BmPeers : bufLen[p] > 0}
       IN  /\ Len(bmCalls) + Cardinality(due) <= MaxCalls
           /\ bmCalls' = bmCalls \o
                 SetToSeq({[to |-> p, got |-> [j \in 1..bufLen[p] |-> Unread]] : p \in due})
           /\ bmBatches' = [p \in BmPeers |-> IF p \in due THEN Append(bmBatches[p], MessagesIn(p))
                                              ELSE bmBatches[p]]
    /\ bufLen' = [p \in BmPeers |-> ResetLen(p)]
    /\ UNCHANGED <<bmSent, messages, bmAt, bufArray, stepped, bmDown, bmTorn>>

(* gRPC copies the slice into the call.  Nothing orders this against the writes:
   any of its cells may be read now and the others later. *)
readCell(i, j) ==
    /\ bmDown = "up" /\ bmCalls[i].got[j] = Unread
    /\ bmCalls' = [bmCalls EXCEPT ![i].got[j] = bufArray[bmCalls[i].to][j]]
    /\ UNCHANGED <<bmSent, messages, bmAt, bufArray, bufLen, stepped, bmDown, bmBatches, bmTorn>>

(* RaftMessage: the messages of the slice, up to the first frame that is not one:
   its length is not that of a header or goes beyond the slice, or its body is
   that of no message.  A body of another message of this length is that one. *)
decode(cells) ==
    LET from[i \in 1..(Len(cells) + 1)] ==
          IF i > Len(cells) THEN [msgs |-> <<>>, good |-> TRUE]
          ELSE LET end == i + bmSent[cells[i][1]].size - 1
                   found == {m \in DOMAIN bmSent : SubSeq(cells, i + 1, end) = Tail(Frame(m))}
               IN  IF cells[i][2] = 1 /\ end <= Len(cells) /\ found # {}
                   THEN [from[end + 1] EXCEPT !.msgs = <<CHOOSE m \in found : TRUE>> \o @]
                   ELSE [msgs |-> <<>>, good |-> FALSE]
    IN  from[1]

(* applyMessage may refuse any of them, and the rest is dropped.  What is no frame
   is an error, ends the process (x.Check, or a slice beyond the end), or decodes
   to a message that nobody sent, with anything behind it. *)
RaftMessage(i) ==
    /\ bmDown = "up" /\ Unread \notin Range(bmCalls[i].got)
    /\ LET p == bmCalls[i].to
           got == decode(bmCalls[i].got)
       IN  \/ /\ \E n \in 0..Len(got.msgs) :
                     stepped' = [stepped EXCEPT ![p] = @ \o SubSeq(got.msgs, 1, n)]
              /\ UNCHANGED bmDown
           \/ /\ ~got.good
              /\ \E more \in {<<>>, <<0>>} : stepped' = [stepped EXCEPT ![p] = @ \o got.msgs \o more]
              /\ bmDown' \in {"up", "receiver"}
    /\ bmCalls' = RemoveAt(bmCalls, i)
    /\ UNCHANGED <<bmSent, messages, bmAt, bufArray, bufLen, bmBatches, bmTorn>>

(* doSendMessage: the call fails or runs into its time limit; the process exits
   when there is no connection to be had. *)
callFails(i) ==
    /\ bmDown = "up"
    /\ bmDown' \in IF Range(bmCalls[i].got) = {Unread} THEN {"up", "sender"} ELSE {"up"}
    /\ bmCalls' = RemoveAt(bmCalls, i)
    /\ UNCHANGED <<bmSent, messages, bmAt, bufArray, bufLen, stepped, bmBatches, bmTorn>>

Next ==
    \/ \E p \in BmPeers, s \in MsgSizes : send(p, s)
    \/ batchHeader \/ batchBody \/ tick
    \/ \E i \in DOMAIN bmCalls :
          RaftMessage(i) \/ callFails(i) \/ \E j \in DOMAIN bmCalls[i].got : readCell(i, j)

-----------------------------------------------------------------------------
(* The ways to go through some of a set once, and to cut sequences short. *)
Orders(S) == {f \in UNION {[1..n -> S] : n \in 0..Cardinality(S)} : IsInjective(f)}
Parts(seqs) ==
    {[i \in DOMAIN seqs |-> SubSeq(seqs[i], 1, n[i])] :
        n \in {f \in [DOMAIN seqs -> 0..BmMsgs] : \A i \in DOMAIN seqs : f[i] <= Len(seqs[i])}}

(* The batches of a peer are the messages sent to it, in order.  As long as no
   cell of a batch is overwritten before its call has read it, no peer fails to
   decode a batch, and each is stepped by its peer once, in order and together, up
   to a message that is refused: batches overtake each other, or are lost, and
   nothing else happens to them. *)
PeersStepTheirMessages ==
    /\ \A p \in BmPeers :
          IsPrefix(FlattenSeq(bmBatches[p]),
                   SelectSeq([m \in DOMAIN bmSent |-> m], LAMBDA m : bmSent[m].to = p))
    /\ ~bmTorn =>
          /\ bmDown # "receiver"
          /\ \A p \in BmPeers :
                \E order \in Orders(DOMAIN bmBatches[p]), parts \in Parts(bmBatches[p]) :
                   stepped[p] = FlattenSeq([k \in DOMAIN order |-> parts[order[k]]])

(* "We don't need to do anything if we receive any error while sending message.
   RAFT would automatically retry": a batch can be lost, and no more than that
   goes wrong with it. *)
BatchesArriveOrAreLost ==
    bmDown # "receiver" /\ \A p \in BmPeers : IsInjective(stepped[p]) /\ 0 \notin Range(stepped[p])
=============================================================================
