---------------------------- MODULE BabelControl ----------------------------
(***************************************************************************)
(* The control connection to babeld: packets through a stream socket that  *)
(* takes and gives any number of bytes, and the requests of a dump, which  *)
(* the registry aborts and tries again.                                    *)
(*                                                                         *)
(* A byte is known by its packet and its place in it.  The header of a     *)
(* packet is its first Header bytes and gives the size of the body.        *)
(***************************************************************************)
EXTENDS Integers, Sequences, FiniteSetsExt

CONSTANTS
  Header,      \* header.size
  BodySize,    \* sizes of the answers of babeld
  MaxPacket    \* bound: packets sent to babeld

ASSUME Sizes == Header \in Nat \ {0} /\ BodySize \subseteq Nat \ {0}
ASSUME Bounds == MaxPacket \in Nat \ {0}

VARIABLES
  client,      \* who uses the connection: "node" or "registry"
  socket,      \* "none", "open", or "closed" by babeld
  up, down,    \* bytes on their way to and from babeld
  write_buffer, read_buffer,
  decode,      \* _decode is set: the header was read
  packets,     \* number of packets sent, which numbers them
  dumps,       \* the packets that ask for a dump
  call,        \* request_dump: "idle", the try it waits for, or about to ask
               \* "again"
  since,       \* first packet of the call
  neighbours,  \* the packet answered by the dump that is known
  split,       \* ghost: reset with a packet whose header only was read
  garbled      \* ghost: what was read last could not be decoded

conn == <<socket, up, down, write_buffer, read_buffer, decode>>
controlVars == <<client, conn, packets, dumps, call, since, neighbours,
          split, garbled>>

Byte == [p : 1 .. MaxPacket, i : Nat, n : Nat]
Bytes(p, n) == [i \in 1 .. Header + n |-> [p |-> p, i |-> i, n |-> n]]

-----------------------------------------------------------------------------
(* class Buffer: data, and the position r of what is left. *)
NewBuffer == [buf |-> <<>>, r |-> 0, w |-> 0]

Left(b) == SubSeq(b.buf, b.r + 1, Len(b.buf))
Head1(b) == b.buf[b.r + 1]

Seek_Keep(b, r) ==
  IF r < Len(b.buf) THEN b
  ELSE [buf |-> <<>>, r |-> 0, w |-> b.w - Len(b.buf)]
Seek(b, r) ==
  IF r < Len(b.buf) THEN [b EXCEPT !.r = r]
  ELSE [buf |-> <<>>, r |-> 0, w |-> b.w - Len(b.buf)]

Add(b, data) == [b EXCEPT !.buf = @ \o data]
Ready(b) == b.w <= Len(b.buf)
Want(b, n) == [b EXCEPT !.w = b.r + n]

-----------------------------------------------------------------------------
ControlInit ==
  /\ client \in {"node", "registry"}
  /\ socket = "none" /\ up = <<>> /\ down = <<>>
  /\ write_buffer = NewBuffer /\ read_buffer = Want(NewBuffer, Header)
  /\ decode = FALSE
  /\ packets = 0 /\ dumps = {} /\ call = "idle" /\ since = 0
  /\ neighbours = 0
  /\ split = FALSE /\ garbled = FALSE

Reset_KeepRead ==
  /\ socket' = "none" /\ up' = <<>> /\ down' = <<>>
  /\ write_buffer' = NewBuffer
  /\ split' = (split \/ decode) /\ garbled' = FALSE
  /\ UNCHANGED <<read_buffer, decode>>

\* reset forgets the connection and both buffers, but not _decode.
Reset ==
  /\ socket' = "none" /\ up' = <<>> /\ down' = <<>>
  /\ write_buffer' = NewBuffer /\ read_buffer' = Want(NewBuffer, Header)
  /\ split' = (split \/ decode) /\ garbled' = FALSE
  /\ UNCHANGED decode

Waits == call \in {"first", "second"}

\* The registry looks at the socket only while it waits for a dump.
Selects == client = "node" \/ Waits

\* Packet.write.  The body of a request is a byte.
Queue ==
  /\ packets < MaxPacket /\ packets' = packets + 1
  /\ write_buffer' = Add(write_buffer, Bytes(packets + 1, 1))

\* Babel.request_dump.  If babeld can not be reached, the handler is called at
\* once, with nothing.
RequestDump(try) ==
  \/ /\ socket = "none"
     /\ call' = "idle" /\ neighbours' = 0
     /\ UNCHANGED <<conn, packets, dumps>>
  \/ /\ Queue /\ dumps' = dumps \cup {packets + 1}
     /\ call' = try
     /\ socket' = IF socket = "none" THEN "open" ELSE socket
     /\ UNCHANGED <<up, down, read_buffer, decode, neighbours>>

Call ==
  /\ call = "idle"
  /\ since' = packets + 1
  /\ RequestDump("first")
  /\ UNCHANGED <<client, split, garbled>>

Again ==
  /\ call = "again"
  /\ RequestDump("second")
  /\ UNCHANGED <<client, since, split, garbled>>

\* A node also connects when there is nothing to ask.
Connect ==
  /\ client = "node" /\ socket = "none"
  /\ socket' = "open"
  /\ UNCHANGED <<client, up, down, write_buffer, read_buffer, decode, packets,
                 dumps, call, since, neighbours, split, garbled>>

\* SetCostMultiplier, by the killers of a node.
SetCost ==
  /\ client = "node" /\ socket # "none"
  /\ Queue
  /\ UNCHANGED <<client, socket, up, down, read_buffer, decode, dumps, call,
                 since, neighbours, split, garbled>>

Write(n) ==
  /\ Selects /\ socket = "open"
  /\ write_buffer.buf # <<>> /\ n \in 1 .. Len(Left(write_buffer))
  /\ up' = up \o SubSeq(Left(write_buffer), 1, n)
  /\ write_buffer' = Seek(write_buffer, write_buffer.r + n)
  /\ UNCHANGED <<client, socket, down, read_buffer, decode, packets, dumps, call,
                 since, neighbours, split, garbled>>

\* One turn of the loop of _read: a header or a body.
Decode(x) ==
  IF x.bad \/ ~Ready(x.b) THEN x
  ELSE IF Head1(x.b).i # (IF x.decode THEN Header + 1 ELSE 1)
  THEN [x EXCEPT !.bad = TRUE]
  ELSE IF x.decode
  THEN [x EXCEPT !.b = Want(Seek(@, @.r + Head1(@).n), Header),
                 !.decode = FALSE,
                 !.got = @ \cup {Head1(x.b).p}]
  ELSE [x EXCEPT !.b = Want(Seek(@, @.r + Header), Head1(@).n),
                 !.decode = TRUE]

Received(n) ==
  [b |-> Add(read_buffer, SubSeq(down, 1, n)), decode |-> decode,
   got |-> {}, bad |-> FALSE]

Loop_Once(n) == {Decode(Received(n))}

\* The loop, for n bytes received.  It has one result, and stops before this
\* number of turns.
Turns == 2 * MaxPacket
Loop(n) ==
  LET turn[i \in 0 .. Turns] ==
        IF i = 0 THEN {Received(n)} ELSE {Decode(x) : x \in turn[i - 1]}
  IN  turn[Turns]

\* The handlers are called with the packets that were decoded.  What the rest
\* raises ends the request, and leaves the connection, the buffer and _decode.
Read(n) ==
  /\ Selects /\ socket # "none" /\ n \in 1 .. Len(down)
  /\ down' = SubSeq(down, n + 1, Len(down))
  /\ \E x \in Loop(n) :
       /\ read_buffer' = x.b /\ decode' = x.decode /\ garbled' = x.bad
       /\ LET answers == x.got \cap dumps IN
          /\ call' = IF answers # {} \/ x.bad THEN "idle" ELSE call
          /\ neighbours' = IF answers # {} THEN Max(answers) ELSE neighbours
  /\ UNCHANGED <<client, socket, up, write_buffer, packets, dumps, since, split>>

\* A node that ends is started again.
Restart ==
  /\ socket' = "none" /\ up' = <<>> /\ down' = <<>>
  /\ write_buffer' = NewBuffer /\ read_buffer' = Want(NewBuffer, Header)
  /\ decode' = FALSE
  /\ call' = "idle" /\ neighbours' = 0 /\ split' = FALSE /\ garbled' = FALSE
  /\ UNCHANGED <<client, packets, dumps, since>>

Abort_KeepConnection ==
  /\ call' = IF call = "first" THEN "again" ELSE "idle"
  /\ UNCHANGED <<client, conn, packets, dumps, since, neighbours, split, garbled>>

Abort ==
  /\ Reset
  /\ call' = IF call = "first" THEN "again" ELSE "idle"
  /\ UNCHANGED <<client, packets, dumps, since, neighbours>>

\* ConnectionClosed.  Only the registry catches it.
ConnectionClosed ==
  /\ Selects /\ socket = "closed" /\ down = <<>>
  /\ IF client = "registry" THEN Abort ELSE Restart

\* Five seconds without a byte.
Timeout == client = "registry" /\ Waits /\ Abort

\* An error of send or recv is not caught by request_dump.  What babeld sent
\* before it closed is received first.
Raise ==
  /\ Selects /\ socket = "closed"
  /\ down = <<>> \/ write_buffer.buf # <<>>
  /\ IF client = "registry"
     THEN /\ call' = "idle"
          /\ UNCHANGED <<client, conn, packets, dumps, since, neighbours, split,
                         garbled>>
     ELSE Restart

BabelAnswer(n) ==
  /\ socket = "open" /\ Len(up) > Header
  /\ up' = SubSeq(up, Header + 2, Len(up))
  /\ down' = down \o Bytes(Head(up).p, n)
  /\ UNCHANGED <<client, socket, write_buffer, read_buffer, decode, packets, dumps,
                 call, since, neighbours, split, garbled>>

BabelEnd ==
  /\ socket = "open" /\ socket' = "closed" /\ up' = <<>>
  /\ \E n \in 0 .. Len(down) : down' = SubSeq(down, 1, n)
  /\ UNCHANGED <<client, write_buffer, read_buffer, decode, packets, dumps, call,
                 since, neighbours, split, garbled>>

WriteSome == \E n \in 1 .. MaxPacket * (Header + 1) : Write(n)
ReadSome == \E n \in 1 .. Len(down) : Read(n)
AnswerSome == \E n \in BodySize : BabelAnswer(n)

ControlNext ==
  \/ Call \/ Again \/ Connect \/ SetCost
  \/ WriteSome \/ ReadSome
  \/ ConnectionClosed \/ Timeout \/ Raise
  \/ AnswerSome \/ BabelEnd

ControlSpec == ControlInit /\ [][ControlNext]_controlVars

\* The main loop serves the socket, request_dump does not stop halfway, and
\* babeld answers.  The timeout of a request expires unless it gets an answer.
ControlFairSpec ==
  /\ ControlSpec
  /\ WF_controlVars(WriteSome) /\ WF_controlVars(ReadSome) /\ WF_controlVars(AnswerSome)
  /\ WF_controlVars(Again) /\ WF_controlVars(ConnectionClosed)

-----------------------------------------------------------------------------
BufferOK(b) ==
  b \in [buf : Seq(Byte), r : Nat, w : Int] /\ b.r <= Len(b.buf)

ControlTypeOK ==
  /\ client \in {"node", "registry"}
  /\ socket \in {"none", "open", "closed"}
  /\ up \in Seq(Byte) /\ down \in Seq(Byte)
  /\ BufferOK(write_buffer) /\ BufferOK(read_buffer)
  /\ decode \in BOOLEAN /\ split \in BOOLEAN /\ garbled \in BOOLEAN
  /\ packets \in 0 .. MaxPacket /\ dumps \subseteq 1 .. packets
  /\ call \in {"idle", "first", "again", "second"}
  /\ since \in 0 .. MaxPacket + 1 /\ neighbours \in {0} \cup dumps

\* y is the byte that comes after x in a stream of packets.
Follows(x, y) ==
  \/ y.p = x.p /\ y.i = x.i + 1 /\ y.n = x.n
  \/ x.i = Header + x.n /\ y.p = x.p + 1 /\ y.i = 1

Stream(s) == \A i \in 1 .. Len(s) - 1 : Follows(s[i], s[i + 1])

\* However the socket cuts them, the bytes that are sent and those that are left
\* to send are whole packets in their order, none lost and none twice; and so
\* are the bytes that are left to decode and those to receive.
StreamsKept ==
  /\ socket = "open" => Stream(up \o Left(write_buffer))
  /\ Stream(Left(read_buffer) \o down)

\* Both directions of the socket are whole streams of bytes, and the buffers that
\* hold them keep their positions inside of their contents.
SafeStreams == ControlTypeOK /\ StreamsKept

\* What is decoded is a packet, unless the connection was once reset between
\* a header and its body, which only the registry does without being restarted.
Understood == garbled => split /\ client = "registry"

\* A packet is handled as soon as it is received entirely.
HandledAtOnce ==
  LET s == Left(read_buffer) IN
  s # <<>> /\ ~split
    => Len(s) < IF decode THEN s[1].n ELSE Header

\* A request gets the state of babeld at a moment after it was made.
Requests == INSTANCE Dump WITH asking <- call # "idle", now <- packets

Fresh == Requests!Spec

\* A request ends.
CallEnds == call # "idle" ~> call = "idle"
=============================================================================
