------------------------------- MODULE Framing -------------------------------
(***************************************************************************)
(* How messages survive the TCP byte stream: the non-blocking send of      *)
(* TCPClient::notifyHost and TCPServer::sendTo, the receive loops of both  *)
(* ends, and Utility::extractItemsModifyBuffer, which cuts the received    *)
(* bytes into messages, hands them to the callbacks and keeps the rest.    *)
(*                                                                         *)
(* A byte is <<m, k>>: byte k (from 0) of message m.  A message is a       *)
(* header of HeaderSize bytes, the first DelimSize of them the delimiter,  *)
(* and its payload.                                                        *)
(***************************************************************************)
EXTENDS Naturals, Sequences

CONSTANTS
    Payload,      \* the payload sizes of the messages, in the order sent
    Handled,      \* the messages whose type has a callback
    HeaderSize,   \* sizeof(TCPMetaInfo)
    DelimSize,    \* sizeof(uint32_t)
    Capacity,     \* what the receive buffer takes: MAX_DATA_SIZE in the
                  \* server, MAX_DATA_SIZE - 1 in the client
    Garbage,      \* payload sizes read where there is no header
    MaxShort      \* how many sends may be cut short

Messages == DOMAIN Payload
Corrupt  == 0     \* a delivery whose bytes are not those of one message

ASSUME FramingAssumption ==
    /\ Payload \in Seq(Nat) /\ Garbage \subseteq Nat
    /\ Handled \subseteq Messages
    /\ DelimSize \in Nat \ {0} /\ HeaderSize \in Nat /\ DelimSize <= HeaderSize
    /\ Capacity \in Nat \ {0} /\ MaxShort \in Nat

VARIABLES
    next,        \* the next message to send
    short,       \* sends cut short so far
    wire,        \* bytes sent and not received
    buf,         \* the received bytes in msg_buffer
    pos,         \* data_ptr, as an offset into buf
    delivered,   \* the messages handed to callbacks
    pc           \* the receiver

vars == <<next, short, wire, buf, pos, delivered, pc>>

Byte     == UNION {{m} \X (0 .. HeaderSize + Payload[m] - 1) : m \in Messages}
Bytes(m) == [k \in 1 .. HeaderSize + Payload[m] |-> <<m, k - 1>>]

TypeOK ==
    /\ next \in 1 .. Len(Payload) + 1
    /\ short \in 0 .. MaxShort
    /\ wire \in Seq(Byte) /\ buf \in Seq(Byte)
    /\ Len(buf) <= Capacity
    /\ pos \in 0 .. Len(buf)
    /\ delivered \in Seq(Messages \cup {Corrupt})
    /\ pc \in {"recv", "scan", "parse", "closed", "ended", "crashed"}

Init ==
    /\ next = 1
    /\ short = 0
    /\ wire = <<>>
    /\ buf = <<>>
    /\ pos = 0
    /\ delivered = <<>>
    /\ pc = "recv"

-----------------------------------------------------------------------------
\* A non-blocking send takes the whole message, or as much of it as the socket
\* has room for (possibly nothing); the rest is never sent.
notifyHost ==
    /\ next \in Messages
    /\ next' = next + 1
    /\ \/ wire' = wire \o Bytes(next) /\ UNCHANGED short
       \/ /\ short < MaxShort
          /\ short' = short + 1
          /\ \E n \in 0 .. HeaderSize + Payload[next] - 1 :
                wire' = wire \o SubSeq(Bytes(next), 1, n)
    /\ UNCHANGED <<buf, pos, delivered, pc>>

\* TCP hands over the bytes in pieces of any size.
recv ==
    /\ pc = "recv"
    /\ wire # <<>>
    /\ Len(buf) < Capacity
    /\ \E n \in 1 .. Len(wire) :
          /\ n <= Capacity - Len(buf)
          /\ buf' = buf \o SubSeq(wire, 1, n)
          /\ wire' = SubSeq(wire, n + 1, Len(wire))
    /\ pc' = "scan"
    /\ UNCHANGED <<next, short, pos, delivered>>

\* Fault: a message that exactly fills the rest counts as too large.
FullEarly ==
    /\ pc = "recv"
    /\ Len(buf) >= Capacity - 1
    /\ pc' = "closed"
    /\ UNCHANGED <<next, short, wire, buf, pos, delivered>>

\* The buffer is full: the server gives up on the client; the client's recv of
\* no bytes returns 0, which it takes for the end of the channel.
Full ==
    /\ pc = "recv"
    /\ Len(buf) >= Capacity
    /\ pc' = "closed"
    /\ UNCHANGED <<next, short, wire, buf, pos, delivered>>

\* recv reports the end of the connection, or an error.
Disconnect ==
    /\ pc = "recv"
    /\ pc' = "ended"
    /\ UNCHANGED <<next, short, wire, buf, pos, delivered>>

\* Is the uint32 at the start of the buffer the delimiter?
DelimiterAtStart ==
    /\ Len(buf) >= DelimSize
    /\ \E m \in Messages : \A k \in 1 .. DelimSize : buf[k] = <<m, k - 1>>

\* The search for the delimiter.  Where it is not in the received bytes the
\* loop reads on through whatever the memory behind them holds: it may meet
\* an old delimiter or leave the allocation.  data_ptr is set back in any case,
\* so the check for lost data that follows never fires.
Scan ==
    /\ pc = "scan"
    /\ \/ pc' = "parse"
       \/ ~DelimiterAtStart /\ pc' = "crashed"
    /\ UNCHANGED <<next, short, wire, buf, pos, delivered>>

-----------------------------------------------------------------------------
remaining_bytes == Len(buf) - pos

\* The payload sizes that the header at data_ptr may show.
payload_size ==
    IF /\ remaining_bytes >= HeaderSize
       /\ \E m \in Messages : \A k \in 1 .. HeaderSize : buf[pos + k] = <<m, k - 1>>
    THEN {Payload[buf[pos + 1][1]]}
    ELSE Garbage

\* The message that the n bytes at data_ptr are, if they are one.
MessageAt(n) ==
    LET m == buf[pos + 1][1]
    IN  IF SubSeq(buf, pos + 1, pos + n) = Bytes(m) THEN m ELSE Corrupt

\* One turn of the loop: a complete message goes to the callback of its type.
Extract ==
    /\ pc = "parse"
    /\ \E p \in payload_size :
          /\ p + HeaderSize <= remaining_bytes
          /\ LET m == MessageAt(p + HeaderSize)
             IN  delivered' = IF m = Corrupt \/ m \in Handled
                              THEN Append(delivered, m) ELSE delivered
          /\ pos' = pos + p + HeaderSize
    /\ UNCHANGED <<next, short, wire, buf, pc>>

\* Fault: an incomplete message is not kept for the next call.
MoveRestDropping ==
    /\ pc = "parse"
    /\ \E p \in payload_size : p + HeaderSize > remaining_bytes
    /\ buf' = <<>>
    /\ pos' = 0
    /\ pc' = "recv"
    /\ UNCHANGED <<next, short, wire, delivered>>

\* Fault: the loop that cannot go on waits for the missing bytes in place.
MoveRestNever ==
    /\ pc = "parse"
    /\ remaining_bytes = 0
    /\ buf' = <<>>
    /\ pos' = 0
    /\ pc' = "recv"
    /\ UNCHANGED <<next, short, wire, delivered>>

\* No complete message is left: the rest moves to the start of the buffer.
\* (The regions may overlap, which memcpy does not allow; the memcpy of the
\* build's C library copies to lower addresses correctly all the same.)
MoveRest ==
    /\ pc = "parse"
    /\ \E p \in payload_size : p + HeaderSize > remaining_bytes
    /\ buf' = SubSeq(buf, pos + 1, Len(buf))
    /\ pos' = 0
    /\ pc' = "recv"
    /\ UNCHANGED <<next, short, wire, delivered>>

-----------------------------------------------------------------------------
Next ==
    \/ notifyHost
    \/ recv
    \/ Full
    \/ Disconnect
    \/ Scan
    \/ Extract
    \/ MoveRest

Spec == Init /\ [][Next]_vars

\* The receiver thread runs; nobody has to send, no connection has to end.
FairSpec == Spec /\ WF_vars(recv \/ Full \/ Scan \/ Extract \/ MoveRest)

-----------------------------------------------------------------------------
(* Properties *)

Size(m) == HeaderSize + Payload[m]

\* The byte that comes after byte <<m, k>>.
Following(x) == IF x[2] + 1 < Size(x[1]) THEN <<x[1], x[2] + 1>> ELSE <<x[1] + 1, 0>>

\* q is the bytes of the messages a .. b, one after the other.
IsStream(q, a, b) ==
    /\ q = <<>> <=> a > b
    /\ q # <<>> => q[1] = <<a, 0>> /\ q[Len(q)] = <<b, Size(b) - 1>>
    /\ \A i \in 1 .. Len(q) : q[i][1] \in a .. b
    /\ \A i \in 1 .. Len(q) - 1 : q[i + 1] = Following(q[i])

unconsumed == SubSeq(buf, pos + 1, Len(buf)) \o wire

\* However TCP cuts the stream, extractItemsModifyBuffer neither loses nor
\* repeats nor reorders nor mixes messages: the handled ones among the first j
\* have been delivered, in order, and the bytes not consumed yet (in the buffer
\* and on the wire) are exactly those of the later messages.  A send cut short
\* ends this for good: nothing in the receive path finds the next header again.
StreamIntact ==
    short = 0 =>
    \E j \in 0 .. next - 1 :
        /\ {delivered[k] : k \in DOMAIN delivered} = Handled \cap (1 .. j)
        /\ \A i, k \in DOMAIN delivered : i < k => delivered[i] < delivered[k]
        /\ IsStream(unconsumed, j + 1, next - 1)

\* With every send complete, the receive loop gives up only on a message that
\* cannot fit the buffer, and the delimiter search leaves the received bytes
\* only when fewer than a whole delimiter have arrived.
EndsOnlyForCause ==
    short = 0 =>
        /\ pc = "closed" => HeaderSize + Payload[buf[1][1]] > Capacity
        /\ pc = "crashed" => Len(buf) < DelimSize

\* Every message that was sent and has a callback reaches it, unless the
\* receiver ended or a send was cut short.
AllDelivered ==
    \A m \in Handled :
        (next > m) ~> \/ \E k \in DOMAIN delivered : delivered[k] = m
                      \/ pc \in {"closed", "ended", "crashed"}
                      \/ short > 0

-----------------------------------------------------------------------------
(* The connection as a queue of whole messages *)

\* The first message not consumed yet, and the messages on their way.
firstUnread == IF unconsumed = <<>> THEN next ELSE unconsumed[1][1]
inTransit   == [k \in 1 .. next - firstUnread |-> firstUnread + k - 1]

Connection == INSTANCE Channel
                 WITH Count <- Len(Payload), sent <- next - 1,
                      inFlight <- inTransit, received <- delivered

=============================================================================
