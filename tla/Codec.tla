------------------------------- MODULE Codec --------------------------------
(***************************************************************************)
(* The wire format and the parsers against reference definitions: every    *)
(* state is one input, which grows byte by byte.  There are no clients.    *)
(***************************************************************************)
EXTENDS Connections

CONSTANTS
    MaxPayload,     \* length of the inputs of payload bytes
    MaxText,        \* length of the inputs of digits and spaces
    MaxArguments    \* length of the inputs that are cut into arguments

VARIABLE input

PayloadBytes == {Nul, Slash, 2, kSubmitCommand}

InputInit == Init /\ input = <<>>

Grow(bytes, size) ==
    /\ ToSet(input) \subseteq bytes
    /\ Len(input) < size
    /\ \E byte \in bytes : input' = Append(input, byte)
    /\ UNCHANGED vars

GrowPayload == Grow(PayloadBytes, MaxPayload)
GrowText == Grow(Digits \cup {Space}, MaxText)

InputSpec == InputInit /\ [][GrowPayload \/ GrowText]_<<vars, input>>

-----------------------------------------------------------------------------

Slice(from, to) == SubSeq(input, from + 1, to)

\* The input as one, two or three arguments, and no argument at all.
SomeArguments ==
    LET n == Len(input) IN
    {<<>>, <<input>>}
    \cup {<<Slice(0, i), Slice(i, n)>> : i \in 0 .. n}
    \cup {<<Slice(0, p[1]), Slice(p[1], p[2]), Slice(p[2], n)>> :
             p \in {q \in (0 .. n) \X (0 .. n) : q[1] <= q[2]}}

SomeSpecs ==
    [argv : SomeArguments, timeout : {NoTimeout, 0, 1, ByteValues - 1, ByteValues}]

\* A SUBMIT payload is accepted only if it is the encoding of what it is decoded
\* to; a specification that can be sent at all arrives as it was.
SubmitIsExact ==
    /\ LET spec == decodeSubmitRequest(input) IN
       spec.ok => SubmitPayload(spec.value) = input
    /\ Len(input) <= MaxArguments =>
          \A spec \in SomeSpecs :
              LET payload == encodeSubmitRequest(spec) IN
              payload.ok => decodeSubmitRequest(payload.value) = Accept(spec)

\* The job id that the input spells, from 0 on.
SpelledIds ==
    IF ToSet(input) \subseteq Digits
      THEN {ValueOf(input)} \cap (0 .. FieldValues(JobIdSize) - 1)
      ELSE {}

\* The same for job ids, of which 0 is none.
JobIdIsExact ==
    /\ LET payload == <<kStatusCommand>> \o input
           job_id == decodeStatusRequest(payload)
       IN  job_id.ok => encodeStatusRequest(job_id.value) = payload
    /\ \A job_id \in SpelledIds :
          decodeCancelRequest(appendJobId(<<kCancelCommand>>, job_id)) =
              IF job_id = 0 THEN Reject ELSE Accept(job_id)

Bin == [argv |-> <<<<Slash>>>>, timeout |-> NoTimeout]

EveryCommand(job_id) ==
    {[command |-> "submit", spec |-> Bin]}
    \cup [command : {"ping", "list"}]
    \cup [command : {"status", "cancel"}, job_id : {job_id}]

\* runnerctl understands every answer to its commands, for every id.
AnswersAreUnderstood ==
    \A job_id \in SpelledIds \ {0} :
        \A line \in {command \in EveryCommand(job_id) : IsSendable(command)} :
            \A answer \in Answers(makeRequestPayload(line), job_id) :
                handleResponse(line.command, answer) # "unexpected"

(***************************************************************************)
(* The two programs read what the other one has written: no argument is    *)
(* lost or torn, nothing hides behind the last one, every job id comes     *)
(* through, and no answer to a command of runnerctl is strange to it.      *)
(***************************************************************************)
CodecIsExact == SubmitIsExact /\ JobIdIsExact /\ AnswersAreUnderstood

(***************************************************************************)
(* Timeouts, job ids and slot counts are parsed exactly: a text is         *)
(* accepted if and only if it consists of digits and spells a number from  *)
(* 1 to the type's greatest, and then as that number; no intermediate      *)
(* result wraps around, at the last digit neither.                         *)
(***************************************************************************)
DecimalsAreExact ==
    /\ \A maximum \in {9, 15, 127, 255} :
          parseDecimal(input, maximum) = Spelled(input, maximum)
    /\ parsePositiveTimeout(input) = Spelled(input, FieldValues(UintSize) - 1)
    /\ parseJobId(input) = Spelled(input, FieldValues(JobIdSize) - 1)
    /\ parsePositiveMaxRunning(input) = Spelled(input, FieldValues(JobIdSize) - 1)
    /\ parseSubmitSuccessResponse(<<OK, Space>> \o input) =
          Spelled(input, FieldValues(JobIdSize) - 1)
=============================================================================
