-------------------------------- MODULE HciH4 --------------------------------
(***************************************************************************)
(* The receiving side of the H4 transport: h4_protocol.cc reads a type     *)
(* byte, hci_packetizer.cc then a preamble and a payload, one read() for   *)
(* each time the watcher finds the descriptor readable, and each read()    *)
(* returns as many bytes as have arrived, up to what was asked for.        *)
(***************************************************************************)
EXTENDS Naturals, Sequences, SequencesExt

CONSTANTS Lengths,      \* payload lengths the controller sends
          MaxPackets,   \* bound of the model on the packets of a stream
          Base          \* the weight of the high length byte, 256 in the code

ASSUME StreamAssumption == Lengths \subseteq Nat /\ MaxPackets \in Nat /\ Base \in Nat \ {0}

Acl == 2
Sco == 3
Event == 4
Unknown == 0            \* HCI_PACKET_TYPE_UNKNOWN
PacketType == {Acl, Sco, Event}

VARIABLES
  sent,         \* the packets the controller sends, as [type, body]
  stream,       \* their bytes on the descriptor
  arrived,      \* how many bytes have arrived
  consumed,     \* how many have been read
  closed,       \* the descriptor is at its end
  type,         \* H4Protocol::hci_packet_type_
  st,           \* HciPacketizer::state_
  preamble,     \* the part of preamble_ that has been read
  packet,       \* packet_
  bytesRead,    \* bytes_read_
  remaining,    \* bytes_remaining_
  delivered,    \* packets given to event_cb_, acl_cb_ and sco_cb_
  fatal         \* the LOG_ALWAYS_FATAL that ended the process: "no", "type", "eof", "error"

line   == <<sent, stream, arrived, closed>>
packetizer == <<st, preamble, packet, bytesRead, remaining>>
vars   == <<line, consumed, type, packetizer, delivered, fatal>>

\* preamble_size_for_type and packet_length_offset_for_type.
PreambleSize(t) == CASE t = Acl -> 4 [] t = Sco -> 3 [] t = Event -> 2
LengthOffset(t) == CASE t = Acl -> 2 [] t = Sco -> 2 [] t = Event -> 1

\* Variant: the length of an ACL packet is taken from its low byte.
MutPacketLength(t, pre) == pre[LengthOffset(t) + 1]

\* HciGetPacketLengthForType: 16 bits, little endian, for ACL data; else one byte.
PacketLength(t, pre) ==
  LET at == LengthOffset(t) + 1
  IN IF t = Acl THEN pre[at + 1] * Base + pre[at] ELSE pre[at]

\* A packet as the controller writes it, without the type byte.  Payload bytes are
\* chosen to look like packet types.
Body(t, n) ==
  LET low == n % Base
      high == n \div Base
      head == CASE t = Acl -> <<Event, Acl, low, high>>
                [] t = Sco -> <<Event, Acl, n>>
                [] t = Event -> <<Event, n>>
  IN head \o [i \in 1..n |-> 2 + (i % 3)]

Packets == {[type |-> t, body |-> Body(t, n)] : t \in PacketType, n \in Lengths}

Bytes(ps) == FlattenSeq([i \in 1..Len(ps) |-> <<ps[i].type>> \o ps[i].body])

Init ==
  /\ sent \in UNION {[1..n -> Packets] : n \in 1..MaxPackets}
  /\ stream = Bytes(sent)
  /\ arrived = 0 /\ consumed = 0 /\ closed = FALSE
  /\ type = Unknown /\ st = "preamble" /\ preamble = <<>> /\ packet = <<>>
  /\ bytesRead = 0 /\ remaining = 0 /\ delivered = <<>> /\ fatal = "no"

-----------------------------------------------------------------------------

Arrive(n) ==
  /\ ~closed /\ arrived + n <= Len(stream)
  /\ arrived' = arrived + n
  /\ UNCHANGED <<sent, stream, closed, consumed, type, packetizer, delivered, fatal>>

HangUp ==
  /\ ~closed /\ closed' = TRUE
  /\ UNCHANGED <<sent, stream, arrived, consumed, type, packetizer, delivered, fatal>>

\* The watcher calls OnDataReady when a read would not block.
Readable == arrived > consumed \/ closed

\* The bytes of a read() that returns n of them.
Taken(n) == SubSeq(stream, consumed + 1, consumed + n)

\* H4Protocol::OnDataReady between packets: the type byte.
ReadType ==
  /\ type = Unknown /\ arrived > consumed
  /\ consumed' = consumed + 1
  /\ IF stream[consumed + 1] \in PacketType
     THEN type' = stream[consumed + 1] /\ UNCHANGED fatal
     ELSE fatal' = "type" /\ UNCHANGED type
  /\ UNCHANGED <<line, packetizer, delivered>>

\* Variant: bytes_read_ is not reset when the preamble is complete.
MutReadPreamble(n) ==
  /\ type # Unknown /\ st = "preamble" /\ arrived >= consumed + n
  /\ bytesRead + n <= PreambleSize(type)
  /\ consumed' = consumed + n /\ preamble' = preamble \o Taken(n)
  /\ bytesRead' = bytesRead + n
  /\ IF bytesRead + n < PreambleSize(type)
     THEN UNCHANGED <<st, packet, remaining>>
     ELSE LET size == PacketLength(type, preamble')
          IN /\ packet' = preamble' \o [i \in 1..size |-> 0]
             /\ remaining' = size /\ st' = "payload"
  /\ UNCHANGED <<line, type, delivered, fatal>>

\* HciPacketizer::OnDataReady, HCI_PREAMBLE: when the preamble is complete packet_ is
\* given its size and the preamble copied in.
ReadPreamble(n) ==
  /\ type # Unknown /\ st = "preamble" /\ arrived >= consumed + n
  /\ bytesRead + n <= PreambleSize(type)
  /\ consumed' = consumed + n /\ preamble' = preamble \o Taken(n)
  /\ IF bytesRead + n < PreambleSize(type)
     THEN bytesRead' = bytesRead + n /\ UNCHANGED <<st, packet, remaining>>
     ELSE LET size == PacketLength(type, preamble')
          IN /\ packet' = preamble' \o [i \in 1..size |-> 0]
             /\ remaining' = size /\ st' = "payload" /\ bytesRead' = 0
  /\ UNCHANGED <<line, type, delivered, fatal>>

\* packet_ with n bytes stored behind the preamble and the bytes read before.
Stored(n) ==
  LET at == PreambleSize(type) + bytesRead
  IN [i \in DOMAIN packet |->
        IF i \in at + 1..at + n THEN stream[consumed + i - at] ELSE packet[i]]

\* Variant: hci_packet_type_ keeps its value after a packet.
MutReadPayload(n) ==
  /\ type # Unknown /\ st = "payload" /\ arrived >= consumed + n /\ n <= remaining
  /\ consumed' = consumed + n /\ remaining' = remaining - n /\ packet' = Stored(n)
  /\ IF n < remaining
     THEN bytesRead' = bytesRead + n /\ UNCHANGED <<st, preamble, type, delivered>>
     ELSE /\ delivered' = Append(delivered, [type |-> type, body |-> packet'])
          /\ st' = "preamble" /\ preamble' = <<>> /\ bytesRead' = 0 /\ UNCHANGED type
  /\ UNCHANGED <<line, fatal>>

\* HciPacketizer::OnDataReady, HCI_PAYLOAD, with H4Protocol::OnPacketReady when the
\* packet is complete.
ReadPayload(n) ==
  /\ type # Unknown /\ st = "payload" /\ arrived >= consumed + n /\ n <= remaining
  /\ consumed' = consumed + n /\ remaining' = remaining - n /\ packet' = Stored(n)
  /\ IF n < remaining
     THEN bytesRead' = bytesRead + n /\ UNCHANGED <<st, preamble, type, delivered>>
     ELSE /\ delivered' = Append(delivered, [type |-> type, body |-> packet'])
          /\ st' = "preamble" /\ preamble' = <<>> /\ bytesRead' = 0 /\ type' = Unknown
  /\ UNCHANGED <<line, fatal>>

\* read() returns 0: at the end of the descriptor, and for a read of no bytes.
ReadNothing ==
  /\ Readable
  /\ \/ closed /\ arrived = consumed
     \/ type # Unknown /\ st = "payload" /\ remaining = 0
  /\ fatal' = "eof"
  /\ UNCHANGED <<line, consumed, type, packetizer, delivered>>

\* read() fails with another error than EAGAIN, for which the code tries again.
ReadFails ==
  /\ fatal' = "error"
  /\ UNCHANGED <<line, consumed, type, packetizer, delivered>>

OnDataReady ==
  \/ ReadType \/ ReadNothing
  \/ \E n \in 1..(arrived - consumed) : ReadPreamble(n) \/ ReadPayload(n)

Next ==
  /\ fatal = "no"
  /\ \/ OnDataReady \/ ReadFails \/ HangUp
     \/ \E n \in 1..(Len(stream) - arrived) : Arrive(n)

Spec == Init /\ [][Next]_vars

\* The watcher thread serves the descriptor; a read need not fail.
FairSpec == Spec /\ WF_vars(fatal = "no" /\ OnDataReady)

-----------------------------------------------------------------------------
(* Properties *)

\* The callbacks get the packets of the controller, whole and in order, however the
\* bytes are split over reads (bytes_read_ and bytes_remaining_ across OnDataReady).
DeliveredInOrder == IsPrefix(delivered, sent)

\* "Unexpected EOF reading the payload!" and its two siblings are only reached at the
\* end of the descriptor, and no byte is taken for an unknown type; other than that the
\* process dies only of a read that fails.
FatalOnlyAtEof == fatal \in {"no", "error"} \/ (fatal = "eof" /\ closed)

\* A packet whose bytes have all arrived is delivered without waiting for the next.
ArrivedIsDelivered ==
  \A k \in 1..MaxPackets :
    (k <= Len(sent) /\ arrived >= Len(Bytes(SubSeq(sent, 1, k))))
      ~> (Len(delivered) >= k \/ fatal # "no")
=============================================================================
