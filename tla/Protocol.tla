------------------------------ MODULE Protocol ------------------------------
(***************************************************************************)
(* The wire format that daemon and runnerctl share (src/protocol.cpp), the *)
(* check of a job specification (src/job.cpp), the decimal parsers of both *)
(* programs, and what runnerctl makes of a response.                       *)
(*                                                                         *)
(* A payload is a sequence of bytes.  Every fixed word of the format       *)
(* ("SUBMIT", "OK", ...) is one byte here and so is a text nobody looks    *)
(* into; numbers keep their big-endian form, in fields of UintSize and     *)
(* JobIdSize bytes of ByteValues values each (4, 8 and 256 in the code).   *)
(***************************************************************************)
EXTENDS Integers, SequencesExt

CONSTANTS
    ByteValues,     \* values of a byte
    UintSize,       \* bytes of a uint32_t, the frame header's size as well
    JobIdSize,      \* bytes of a JobId
    kMaxFrameSize   \* longest payload of a frame

\* How many values a field of this many bytes has: 2^32 and 2^64 in the code.
FieldValues(size) ==
    LET values[n \in 0 .. size] == IF n = 0 THEN 1 ELSE values[n - 1] * ByteValues
    IN  values[size]

\* The words, the separators and the digits are different bytes.
ASSUME ProtocolAssumption ==
    /\ ByteValues \in Nat /\ ByteValues > 25
    /\ UintSize \in Nat \ {0} /\ JobIdSize \in Nat \ {0}
    /\ kMaxFrameSize \in 0 .. (FieldValues(UintSize) - 1)

Byte == 0 .. (ByteValues - 1)

Nul == 0
Slash == 1
Space == 2
Newline == 3
kSubmitCommand == 4
kStatusCommand == 5
kCancelCommand == 6
PING == 7
LIST == 8
PONG == 9
OK == 10
ERR == 11
Cancelled == 12
Terminating == 13
Text == 14
Digit(d) == 16 + d
Digits == {Digit(d) : d \in 0 .. 9}

-----------------------------------------------------------------------------
\* Numbers

\* What is left of a value after its last k digits in this base: value >> 8 * k for
\* bytes.
Shifted(value, base, k) ==
    LET shifted[i \in 0 .. k] == IF i = 0 THEN value ELSE shifted[i - 1] \div base
    IN  shifted[k]

\* value as size bytes, the highest first; what does not fit is cut off.
BigEndian(value, size) ==
    [i \in 1 .. size |-> Shifted(value, ByteValues, size - i) % ByteValues]

FromBigEndian(bytes) ==
    LET value[n \in 0 .. Len(bytes)] ==
            IF n = 0 THEN 0 ELSE value[n - 1] * ByteValues + bytes[n]
    IN  value[Len(bytes)]

appendUint32(output, value) == output \o BigEndian(value, UintSize)
appendJobId(output, job_id) == output \o BigEndian(job_id, JobIdSize)

\* The uint32_t at offset; the callers check that it is there.
readUint32(input, offset) ==
    FromBigEndian(SubSeq(input, offset + 1, offset + UintSize))

IsTruncated(input, offset) == Len(input) - offset < UintSize

\* The result of a parser that may refuse its input.
Accept(x) == [ok |-> TRUE, value |-> x]
Reject == [ok |-> FALSE, value |-> 0]

\* Checks only that the product does not overflow.
AppendDigitForgetsDigit(value, character, maximum) ==
    LET digit == character - Digit(0) IN
    IF value = -1 \/ digit \notin 0 .. 9 \/ value > maximum \div 10
      THEN -1
      ELSE (value * 10 + digit) % (maximum + 1)

\* One turn of the loop that four parsers share, in an unsigned integer whose
\* greatest value is maximum; -1 stands for the early return.
AppendDigit(value, character, maximum) ==
    LET digit == character - Digit(0) IN
    IF value = -1 \/ digit \notin 0 .. 9 \/ value > (maximum - digit) \div 10
      THEN -1
      ELSE (value * 10 + digit) % (maximum + 1)

\* The four parsers: a positive decimal number.
parseDecimal(text, maximum) ==
    LET value[n \in 0 .. Len(text)] ==
            IF n = 0 THEN 0 ELSE AppendDigit(value[n - 1], text[n], maximum)
        result == value[Len(text)]
    IN  IF text = <<>> \/ result \in {-1, 0} THEN Reject ELSE Accept(result)

parsePositiveTimeout(text) == parseDecimal(text, FieldValues(UintSize) - 1)
parseJobId(text) == parseDecimal(text, FieldValues(JobIdSize) - 1)

\* std::size_t is as wide as a JobId.
parsePositiveMaxRunning(text) == parseDecimal(text, FieldValues(JobIdSize) - 1)

\* The reference for the parsers: the number that a text of digits spells, however
\* large, and what to make of a text.
ValueOf(text) ==
    LET value[n \in 0 .. Len(text)] ==
            IF n = 0 THEN 0 ELSE value[n - 1] * 10 + (text[n] - Digit(0))
    IN  value[Len(text)]

Spelled(text, maximum) ==
    IF ToSet(text) \subseteq Digits /\ ValueOf(text) \in 1 .. maximum
      THEN Accept(ValueOf(text))
      ELSE Reject

\* std::to_string of a JobId.
ToDecimal(n) ==
    LET size == CHOOSE k \in 1 .. n + 1 :
                    /\ Shifted(n, 10, k) = 0
                    /\ \A i \in 1 .. k - 1 : Shifted(n, 10, i) # 0
    IN  [i \in 1 .. size |-> Digit(Shifted(n, 10, size - i) % 10)]

-----------------------------------------------------------------------------
\* Frames

kFrameHeaderSize == UintSize

encodeFrame(payload) == BigEndian(Len(payload), UintSize) \o payload

\* The stream of several frames.
EncodeAll(payloads) ==
    LET encoded[n \in 0 .. Len(payloads)] ==
            IF n = 0 THEN <<>> ELSE encoded[n - 1] \o encodeFrame(payloads[n])
    IN  encoded[Len(payloads)]

\* The length field at the head of a decoder's buffer, once it is complete.
payloadSize(buffer) == FromBigEndian(SubSeq(buffer, 1, kFrameHeaderSize))

HasHeader(buffer) == Len(buffer) >= kFrameHeaderSize

\* payloadSize throws.
IsOversized(buffer) == HasHeader(buffer) /\ payloadSize(buffer) > kMaxFrameSize

\* The header is completed, and checked, before anything else is copied.
feed(buffer, data) ==
    IF ~HasHeader(buffer) /\ IsOversized(buffer \o data)
      THEN Reject
      ELSE Accept(buffer \o data)

\* The buffer is not oversized.
hasFrame(buffer) ==
    HasHeader(buffer) /\ Len(buffer) - kFrameHeaderSize >= payloadSize(buffer)

\* The first frame's payload, and what popFrame leaves in the buffer.
FirstFrame(buffer) ==
    SubSeq(buffer, kFrameHeaderSize + 1, kFrameHeaderSize + payloadSize(buffer))

popFrame(buffer) ==
    SubSeq(buffer, kFrameHeaderSize + payloadSize(buffer) + 1, Len(buffer))

-----------------------------------------------------------------------------
\* Requests

NoTimeout == -1     \* nullopt: the job may run as long as it likes

JobSpec == [argv : Seq(Seq(Byte)), timeout : Nat \cup {NoTimeout}]

StartsWith(payload, word) == payload # <<>> /\ payload[1] = word
isSubmitRequest(payload) == StartsWith(payload, kSubmitCommand)
isStatusRequest(payload) == StartsWith(payload, kStatusCommand)
isCancelRequest(payload) == StartsWith(payload, kCancelCommand)

\* What validateJobSpec lets pass.
validateJobSpec(spec) ==
    /\ spec.argv # <<>>
    /\ StartsWith(spec.argv[1], Slash)
    /\ \A i \in DOMAIN spec.argv : Nul \notin ToSet(spec.argv[i])
    /\ spec.timeout # NoTimeout => spec.timeout > 0

\* The bytes of a SUBMIT payload, of any length.  An argument has the form of a
\* frame: its size, and then its bytes.
SubmitPayload(spec) ==
    appendUint32(
        appendUint32(<<kSubmitCommand>>, IF spec.timeout = NoTimeout THEN 0 ELSE spec.timeout),
        Len(spec.argv))
    \o EncodeAll(spec.argv)

encodeSubmitRequest(spec) ==
    IF /\ validateJobSpec(spec)
       /\ spec.timeout < FieldValues(UintSize)
       /\ Len(SubmitPayload(spec)) <= kMaxFrameSize
      THEN Accept(SubmitPayload(spec))
      ELSE Reject

\* One turn of decodeSubmitRequest's loop; offset -1 stands for the exception.
DecodeArgument(payload, state) ==
    LET start == state.offset + UintSize
        size == readUint32(payload, state.offset)
    IN  IF \/ state.offset = -1
           \/ IsTruncated(payload, state.offset)
           \/ size > Len(payload) - start
          THEN [state EXCEPT !.offset = -1]
          ELSE [offset |-> start + size,
                argv |-> Append(state.argv, SubSeq(payload, start + 1, start + size))]

\* The whole loop, from offset head on.
DecodeArguments(payload, head, argument_count) ==
    LET state[n \in 0 .. argument_count] ==
            IF n = 0
              THEN [offset |-> head, argv |-> <<>>]
              ELSE DecodeArgument(payload, state[n - 1])
    IN  state[argument_count]

\* Accepts what follows the last argument.
decodeSubmitRequestLax(payload) ==
    LET head == 1 + 2 * UintSize
        timeout_ms == readUint32(payload, 1)
        argument_count == readUint32(payload, 1 + UintSize)
        end == DecodeArguments(payload, head, argument_count)
    IN  IF \/ Len(payload) < head
           \/ argument_count > (Len(payload) - head) \div UintSize
           \/ end.offset = -1
          THEN Reject
          ELSE Accept([argv |-> end.argv,
                       timeout |-> IF timeout_ms = 0 THEN NoTimeout ELSE timeout_ms])

decodeSubmitRequest(payload) ==
    LET head == 1 + 2 * UintSize
        timeout_ms == readUint32(payload, 1)
        argument_count == readUint32(payload, 1 + UintSize)
        end == DecodeArguments(payload, head, argument_count)
    IN  IF \/ Len(payload) > kMaxFrameSize
           \/ ~isSubmitRequest(payload)
           \/ Len(payload) < head
           \/ argument_count > (Len(payload) - head) \div UintSize
           \/ end.offset # Len(payload)
          THEN Reject
          ELSE Accept([argv |-> end.argv,
                       timeout |-> IF timeout_ms = 0 THEN NoTimeout ELSE timeout_ms])

\* The id is not 0: these would throw, but parseJobId never returns it.
encodeStatusRequest(job_id) == appendJobId(<<kStatusCommand>>, job_id)
encodeCancelRequest(job_id) == appendJobId(<<kCancelCommand>>, job_id)

\* Exactly one JobId after the word, and not 0.
decodeJobId(payload) ==
    LET job_id == FromBigEndian(Tail(payload)) IN
    IF Len(payload) # 1 + JobIdSize \/ job_id = 0 THEN Reject ELSE Accept(job_id)

decodeStatusRequest(payload) ==
    IF isStatusRequest(payload) THEN decodeJobId(payload) ELSE Reject

decodeCancelRequest(payload) ==
    IF isCancelRequest(payload) THEN decodeJobId(payload) ELSE Reject

-----------------------------------------------------------------------------
\* Responses

Error == <<ERR, Space, Text>>

isErrorResponse(response) ==
    response = <<ERR>> \/ IsPrefix(<<ERR, Space>>, response)

parseSubmitSuccessResponse(response) ==
    IF IsPrefix(<<OK, Space>>, response)
      THEN parseDecimal(SubSeq(response, 3, Len(response)), FieldValues(JobIdSize) - 1)
      ELSE Reject

\* Whether runnerctl takes the response for a success of its command.
IsSuccess(command, response) ==
    CASE command = "ping"   -> response = <<PONG>>
      [] command = "submit" -> parseSubmitSuccessResponse(response).ok
      [] command = "status" -> Len(response) > 2 /\ IsPrefix(<<OK, Space>>, response)
      [] command = "list"   -> response = <<OK>> \/ IsPrefix(<<OK, Newline>>, response)
      [] command = "cancel" -> response \in {<<OK, Space, Cancelled>>,
                                             <<OK, Space, Terminating>>}

\* handleResponse: both of the other results make runnerctl exit with 1.
handleResponse(command, response) ==
    CASE isErrorResponse(response)    -> "error"
      [] IsSuccess(command, response) -> "success"
      [] OTHER                        -> "unexpected"
=============================================================================
