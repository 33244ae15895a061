------------------------------- MODULE Decoder -------------------------------
(***************************************************************************)
(* The binary protocol (protocol/message_header.h, encoder.cc, decoder.cc):*)
(* messages become bytes, and a Decoder turns the pieces of a TCP stream   *)
(* back into messages.                                                     *)
(*                                                                         *)
(* A byte is <<m, i>>, the i-th of message m.  The 24 bytes of a header    *)
(* are two: the magic number, and the fields, among them the lengths; body *)
(* and data are one byte.  So a piece can end inside the header, before    *)
(* the body, or after any number of messages.  The checksum is ideal: it   *)
(* fits exactly the bytes of one message.                                  *)
(*                                                                         *)
(* A decoder is its buffer_: what state_ and current_header_ hold is what  *)
(* the first header of the buffer says, and the buffer only grows at its   *)
(* end while they hold it.                                                 *)
(***************************************************************************)
EXTENDS Integers, Sequences

CONSTANTS
  MagicBody,  \* the kinds of messages whose body reads like a magic number
  StrayLength \* body and data length that a header made of other bytes announces

ASSUME DecoderAssumption == StrayLength \in Nat

kHeaderSize == 2

Empty == <<>>

\* MessageHeader::EncodeTo, and Encoder::Encode.
Header(m) == <<<<m, 1>>, <<m, 2>>>>
Encode(m) == Header(m) \o <<<<m, 3>>>>

\* MessageHeader::DecodeFrom: does the header have the magic number, and how
\* many bytes does its message have?
Magic(buffer) == buffer[1][2] = 1 \/ (buffer[1][2] = 3 /\ buffer[1][1].kind \in MagicBody)

TotalNeeded(buffer) ==
  kHeaderSize + (IF buffer[2][2] = 2 THEN 1 ELSE StrayLength)

\* Encoder::CRC32 over the frame, and the checksum in its header.
ChecksumFits(frame) == frame = Encode(frame[1][1])

\* TryParseMessage, on a buffer: it waits for more bytes, or it gives up on a header
\* without magic number or a frame whose checksum does not fit, or it has a message.
TryParseMessage(buffer) ==
  CASE Len(buffer) < kHeaderSize -> "wait"
    [] Len(buffer) >= kHeaderSize /\ ~ Magic(buffer) -> "drop"
    [] Len(buffer) >= kHeaderSize /\ Magic(buffer) ->
         LET total == TotalNeeded(buffer)
         IN  IF Len(buffer) < total THEN "wait"
             ELSE IF ChecksumFits(SubSeq(buffer, 1, total)) THEN "message" ELSE "drop"

\* Mutant: the loop ends after the first message.
FeedOnce(buffer, piece) ==
  LET all == buffer \o piece
  IN  CASE TryParseMessage(all) = "wait" -> [out |-> <<>>, buffer |-> all]
        [] TryParseMessage(all) = "drop" -> [out |-> <<>>, buffer |-> Tail(all)]
        [] TryParseMessage(all) = "message" ->
             [out |-> <<all[1][1]>>, buffer |-> SubSeq(all, TotalNeeded(all) + 1, Len(all))]

\* Mutant: what was parsed stays in the buffer.
FeedKept(buffer, piece) ==
  LET all == buffer \o piece
  IN  IF TryParseMessage(all) = "message" THEN [out |-> <<all[1][1]>>, buffer |-> all]
      ELSE [out |-> <<>>, buffer |-> all]

\* The loop of Feed when p bytes have been consumed: after a message it tries again;
\* when one byte was dropped, the rest stays for the next piece.
After(all, p) == SubSeq(all, p + 1, Len(all))

Round(all, loop, p) ==
  CASE TryParseMessage(After(all, p)) = "wait" -> [out |-> <<>>, buffer |-> After(all, p)]
    [] TryParseMessage(After(all, p)) = "drop" -> [out |-> <<>>, buffer |-> After(all, p + 1)]
    [] TryParseMessage(After(all, p)) = "message" ->
         LET next == p + TotalNeeded(After(all, p))
         IN  [out |-> <<all[p + 1][1]>> \o loop[next].out, buffer |-> loop[next].buffer]

Loop(all) == LET loop[p \in 0 .. Len(all)] == Round(all, loop, p) IN loop

\* Feed: `out` are the messages it returns.
Feed(buffer, piece) == Loop(buffer \o piece)[0]
=============================================================================
