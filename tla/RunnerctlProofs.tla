--------------------------- MODULE RunnerctlProofs ---------------------------
(***************************************************************************)
(* runnerctl tells the truth, for any number of clients, any command       *)
(* lines, frame and field sizes: the exactness of the frames, of the       *)
(* answers and of the encodings put together.  And the properties of the   *)
(* encodings that Codec states of one input hold of every input.           *)
(***************************************************************************)
EXTENDS Codec, ConnectionsProofs

-----------------------------------------------------------------------------
\* Frames in a stream

\* The first frame is found again, whatever follows it.
LEMMA FirstFrameOf ==
    ASSUME NEW payload \in Seq(Byte), NEW rest \in Seq(Byte), Len(payload) <= kMaxFrameSize
    PROVE  FirstFrame(encodeFrame(payload) \o rest) = payload
<1> DEFINE a == BigEndian(Len(payload), UintSize)
           t == (a \o payload) \o rest
<1>1. Len(payload) \in 0 .. FieldValues(UintSize) - 1 /\ Len(payload) \in Nat /\ UintSize \in Nat
  BY FieldSizes
<1>2. a \in Seq(Byte) /\ Len(a) = UintSize
  BY <1>1, BigEndianType
<1>3. FromBigEndian(a) = Len(payload)
  BY <1>1, ValueOfBigEndian
<1>4. encodeFrame(payload) \o rest = t
  BY DEF encodeFrame
<1> HIDE DEF a
<1>5. SubSeq(t, 1, Len(a)) = a
  <2>1. payload \o rest \in Seq(Byte)
    BY Joined, Zenon
  <2>2. (a \o payload) \o rest = a \o (payload \o rest)
    BY <1>2, Joined, Zenon
  <2>3. SubSeq(a \o (payload \o rest), 1, Len(a)) = a
    BY <1>2, <2>1, CutUnique, Zenon
  <2> QED
    BY <2>2, <2>3, Zenon
<1>6. SubSeq(t, Len(a) + 1, Len(a) + Len(payload)) = payload
  BY <1>2, Middle
<1> HIDE DEF t
<1>7. payloadSize(t) = Len(payload)
  BY <1>2, <1>3, <1>5, Zenon DEF payloadSize, kFrameHeaderSize
<1>8. FirstFrame(t) = payload
  BY <1>2, <1>6, <1>7, Zenon DEF FirstFrame, kFrameHeaderSize
<1> QED
  BY <1>4, <1>8

\* A stream of frames begins with the first one, and is longer with a second one.
LEMMA EncodeAllHead ==
    ASSUME NEW payloads \in Seq(Seq(Byte)), payloads # <<>>
    PROVE  /\ payloads[1] \in Seq(Byte) /\ EncodeAll(payloads) \in Seq(Byte)
           /\ \E rest \in Seq(Byte) : EncodeAll(payloads) = encodeFrame(payloads[1]) \o rest
           /\ Len(payloads) > 1 => Len(EncodeAll(payloads)) > Len(encodeFrame(payloads[1]))
<1>1. PICK h : IsEncoding(h, payloads)
  BY EncodeAllType
<1>2. Len(payloads) \in Nat /\ Len(payloads) >= 1 /\ UintSize \in Nat \ {0}
  BY ProtocolAssumption, EmptySeq
<1>3. \A i \in 1 .. Len(payloads) : payloads[i] \in Seq(Byte)
  OBVIOUS
<1>4. /\ \A i \in 0 .. Len(payloads) : h[i] \in Seq(Byte)
      /\ h[0] = <<>> /\ EncodeAll(payloads) = h[Len(payloads)]
      /\ \A i \in 1 .. Len(payloads) : h[i] = h[i - 1] \o encodeFrame(payloads[i])
  BY <1>1 DEF IsEncoding
<1>5. payloads[1] \in Seq(Byte) /\ EncodeAll(payloads) \in Seq(Byte)
  BY <1>2, <1>3, <1>4
<1>6. encodeFrame(payloads[1]) \in Seq(Byte)
  BY <1>5, EncodeFrameType
<1>7. h[1] = encodeFrame(payloads[1])
  <2>1. 1 \in 1 .. Len(payloads) /\ 1 - 1 = 0
    BY <1>2
  <2>2. h[1] = <<>> \o encodeFrame(payloads[1])
    BY <1>4, <2>1
  <2> QED
    BY <1>6, <2>2, ConcatEmptySeq, Zenon
<1>8. \E rest \in Seq(Byte) : EncodeAll(payloads) = encodeFrame(payloads[1]) \o rest
  <2>1. 1 \in 0 .. Len(payloads)
    BY <1>2
  <2>2. \A n \in 0 .. Len(payloads) : \E rest \in Seq(Byte) : h[Len(payloads)] = h[n] \o rest
    BY <1>1, EncodingGrows
  <2> QED
    BY <1>4, <1>7, <2>1, <2>2
<1>9. ASSUME Len(payloads) > 1
      PROVE  Len(EncodeAll(payloads)) > Len(encodeFrame(payloads[1]))
  <2>1. 2 \in 0 .. Len(payloads) /\ 2 \in 1 .. Len(payloads) /\ 2 - 1 = 1
    BY <1>2, <1>9
  <2>2. PICK rest \in Seq(Byte) : h[Len(payloads)] = h[2] \o rest
    BY <1>1, <2>1, EncodingGrows
  <2> DEFINE first == encodeFrame(payloads[1])
             second == encodeFrame(payloads[2])
  <2>3. h[2] = first \o second
    BY <1>4, <1>7, <2>1
  <2>4. second \in Seq(Byte) /\ Len(second) = UintSize + Len(payloads[2]) /\ Len(payloads[2]) \in Nat
    <3>1. payloads[2] \in Seq(Byte)
      BY <1>3, <2>1
    <3> QED
      BY <3>1, EncodeFrameType, LenProperties
  <2>5. first \in Seq(Byte)
    BY <1>6
  <2>6. EncodeAll(payloads) = (first \o second) \o rest
    BY <1>4, <2>2, <2>3, Zenon
  <2> HIDE DEF first, second
  <2>7. Len((first \o second) \o rest) = Len(first) + Len(second) + Len(rest)
    <3>1. ASSUME NEW x \in Seq(Byte), NEW y \in Seq(Byte), NEW z \in Seq(Byte)
          PROVE  Len((x \o y) \o z) = Len(x) + Len(y) + Len(z)
      BY Middle
    <3> QED
      BY <2>4, <2>5, <3>1, Zenon
  <2>8. Len(first) \in Nat /\ Len(rest) \in Nat
    BY <2>5
  <2> QED
    <3>1. Len(EncodeAll(payloads)) = Len(first) + Len(second) + Len(rest)
      BY <2>6, <2>7, Zenon
    <3>2. Len(EncodeAll(payloads)) > Len(first)
      BY <1>2, <2>4, <2>8, <3>1
    <3> QED
      BY <3>2 DEF first
<1> QED
  BY <1>5, <1>8, <1>9

\* What begins with several frames and is one frame, is the first of them.
LEMMA OnlyOneFrame ==
    ASSUME NEW payloads \in Seq(Seq(Byte)), payloads # <<>>, Len(payloads[1]) <= kMaxFrameSize,
           NEW payload \in Seq(Byte), Len(payload) <= kMaxFrameSize,
           IsPrefix(EncodeAll(payloads), encodeFrame(payload))
    PROVE  Len(payloads) = 1 /\ payloads[1] = payload
<1> DEFINE all == EncodeAll(payloads)
           first == payloads[1]
           frame == encodeFrame(payload)
<1>1. /\ first \in Seq(Byte) /\ all \in Seq(Byte)
      /\ Len(payloads) > 1 => Len(all) > Len(encodeFrame(first))
  BY EncodeAllHead, Zenon
<1>2. PICK rest \in Seq(Byte) : all = encodeFrame(first) \o rest
  BY EncodeAllHead, Zenon
<1>3. /\ frame \in Seq(Byte) /\ Len(frame) = UintSize + Len(payload)
      /\ encodeFrame(first) \in Seq(Byte) /\ Len(encodeFrame(first)) = UintSize + Len(first)
  BY <1>1, EncodeFrameType
<1>4. IsPrefix(all, frame) /\ Len(first) <= kMaxFrameSize
  OBVIOUS
<1> HIDE DEF all, first, frame
<1>5. PICK more \in Seq(Byte) : frame = all \o more
  BY <1>1, <1>3, <1>4, PrefixHasRest
<1>6. rest \o more \in Seq(Byte) /\ frame = encodeFrame(first) \o (rest \o more)
  <2>1. rest \o more \in Seq(Byte)
    BY Joined, Zenon
  <2>2. (encodeFrame(first) \o rest) \o more = encodeFrame(first) \o (rest \o more)
    BY <1>3, Regrouped, ZenonT(60)
  <2> QED
    BY <1>2, <1>5, <2>1, <2>2, Zenon
<1>7. FirstFrame(frame) = first
  BY <1>1, <1>4, <1>6, FirstFrameOf, Zenon
<1>8. FirstFrame(frame) = payload
  <2>1. <<>> \in Seq(Byte) /\ frame \o <<>> = frame
    BY <1>3, EmptySeq, ConcatEmptySeq, Zenon
  <2> QED
    BY <2>1, FirstFrameOf, Zenon DEF frame
<1>9. Len(all) <= Len(frame)
  BY <1>4 DEF IsPrefix
<1>10. Len(payloads) \in Nat /\ Len(payloads) # 0
  BY EmptySeq, LenProperties
<1>11. first = payload
  BY <1>7, <1>8
<1>12. Len(frame) = Len(encodeFrame(first))
  BY <1>3, <1>11
<1>13. Len(all) \in Nat /\ Len(frame) \in Nat
  BY <1>1, <1>3
<1>14. ~(Len(payloads) > 1)
  <2>1. ~(Len(all) > Len(encodeFrame(first)))
    BY <1>9, <1>12, <1>13
  <2> QED
    BY <1>1, <2>1
<1>15. Len(payloads) = 1
  <2>1. ASSUME NEW n \in Nat, n # 0, ~(n > 1) PROVE n = 1
    BY <2>1
  <2> QED
    BY <1>10, <1>14, <2>1, Zenon
<1> QED
  BY <1>11, <1>15 DEF first

-----------------------------------------------------------------------------
\* Requests and their answers

LEMMA WordsAreBytes ==
    {Space, Newline, kSubmitCommand, kStatusCommand, kCancelCommand, PING, LIST, PONG, OK, ERR,
     Cancelled, Terminating, Text} \subseteq Byte
BY ProtocolAssumption
   DEF Byte, Space, Newline, kSubmitCommand, kStatusCommand, kCancelCommand, PING, LIST, PONG,
       OK, ERR, Cancelled, Terminating, Text

\* The first word tells the requests apart.
LEMMA RequestWords ==
    ASSUME NEW request
    PROVE  /\ request = <<PING>> => request[1] = PING
           /\ request = <<LIST>> => request[1] = LIST
           /\ decodeStatusRequest(request).ok => request[1] = kStatusCommand
           /\ decodeCancelRequest(request).ok => request[1] = kCancelCommand
           /\ IsAcceptable(request) => request[1] = kSubmitCommand
<1>1. ~Reject.ok
  BY DEF Reject
<1>2. decodeStatusRequest(request).ok => request[1] = kStatusCommand
  BY <1>1, Zenon DEF decodeStatusRequest, isStatusRequest, StartsWith
<1>3. decodeCancelRequest(request).ok => request[1] = kCancelCommand
  BY <1>1, Zenon DEF decodeCancelRequest, isCancelRequest, StartsWith
<1>4. IsAcceptable(request) => request[1] = kSubmitCommand
  <2>1. ~isSubmitRequest(request) => decodeSubmitRequest(request) = Reject
    BY Zenon DEF decodeSubmitRequest
  <2> QED
    BY <1>1, <2>1, Zenon DEF IsAcceptable, isSubmitRequest, StartsWith
<1> QED
  BY <1>2, <1>3, <1>4

LEMMA WordsDiffer ==
    /\ kSubmitCommand \notin {kStatusCommand, kCancelCommand, PING, LIST}
    /\ kStatusCommand \notin {kCancelCommand, PING, LIST}
    /\ kCancelCommand \notin {PING, LIST}
    /\ PING # LIST /\ OK # ERR
BY DEF kSubmitCommand, kStatusCommand, kCancelCommand, PING, LIST, OK, ERR

\* A request and the answer it may get, with this id if it is a SUBMIT.
IsAnswer(answer, request, job_id) ==
    \/ request = <<PING>> /\ answer = <<PONG>>
    \/ request = <<LIST>> /\ answer \in makeListResponse
    \/ decodeStatusRequest(request).ok /\ answer \in makeStatusResponse
    \/ decodeCancelRequest(request).ok /\ answer \in cancelJob
    \/ IsAcceptable(request) /\ answer = <<OK, Space>> \o ToDecimal(job_id)
    \/ ~IsAcceptable(request) /\ answer = Error

LEMMA AnswerCases ==
    ASSUME NEW request, NEW job_id, NEW answer \in Answers(request, job_id)
    PROVE  IsAnswer(answer, request, job_id)
BY Zenon DEF Answers, IsAnswer

\* Only a SUBMIT that is accepted gets an id.
LEMMA OtherAnswers ==
    ASSUME NEW request, NEW job_id, NEW answer, NEW other,
           IsAnswer(answer, request, job_id), ~IsAcceptable(request)
    PROVE  IsAnswer(answer, request, other)
BY Zenon DEF IsAnswer

LEMMA AcceptedAnswer ==
    ASSUME NEW request, NEW job_id, NEW answer,
           IsAnswer(answer, request, job_id), IsAcceptable(request)
    PROVE  answer = <<OK, Space>> \o ToDecimal(job_id)
BY RequestWords, WordsDiffer, Zenon DEF IsAnswer

(***************************************************************************)
(* What runnerctl encodes from its command line, the daemon decodes to the *)
(* same: protocol.cpp's encoders and decoders of SUBMIT, STATUS and CANCEL *)
(* put together with makeRequestPayload, for every specification and id    *)
(* that can be sent.                                                       *)
(***************************************************************************)
THEOREM RequestsAreAsMeant ==
    ASSUME NEW line, IsSendable(line)
    PROVE  /\ IsAsMeant(makeRequestPayload(line), line)
           /\ line.command = "submit" => IsAcceptable(makeRequestPayload(line))
<1> DEFINE request == makeRequestPayload(line)
<1>1. CASE line.command \in {"ping", "list"}
  BY <1>1, RequestOf DEF IsAsMeant
<1>2. CASE line.command = "submit" /\ line.spec \in JobSpec /\ encodeSubmitRequest(line.spec).ok
  <2>1. decodeSubmitRequest(request) = Accept(line.spec)
    BY <1>2, RequestOf, SubmitsComeThrough, Zenon
  <2>2. validateJobSpec(line.spec)
    BY <1>2 DEF encodeSubmitRequest, Reject
  <2>3. Accept(line.spec).ok /\ Accept(line.spec).value = line.spec
    BY DEF Accept
  <2>4. IsAcceptable(request)
    BY <2>1, <2>2, <2>3, Zenon DEF IsAcceptable
  <2>5. IsAsMeant(request, line)
    BY <1>2, <2>1 DEF IsAsMeant
  <2> QED
    BY <2>4, <2>5
<1>3. CASE line.command \in {"status", "cancel"} /\ line.job_id \in 1 .. FieldValues(JobIdSize) - 1
  <2> DEFINE word == IF line.command = "status" THEN kStatusCommand ELSE kCancelCommand
  <2>1. /\ line.job_id \in 0 .. FieldValues(JobIdSize) - 1 /\ line.job_id # 0
        /\ line.job_id \in Nat
    BY <1>3, FieldSizes
  <2>2. word \in Byte
    BY WordsAreBytes
  <2>3. request = appendJobId(<<word>>, line.job_id)
    BY <1>3, RequestOf
  <2>4. decodeJobId(appendJobId(<<word>>, line.job_id)) = Accept(line.job_id)
    BY <2>1, <2>2, JobIdsComeThrough, Zenon
  <2>5. StartsWith(appendJobId(<<word>>, line.job_id), word)
    BY <2>1, <2>2, AppendJobIdType, Zenon
  <2>6. line.command = "status" => decodeStatusRequest(request) = Accept(line.job_id)
    BY <2>3, <2>4, <2>5 DEF decodeStatusRequest, isStatusRequest
  <2>7. line.command = "cancel" => decodeCancelRequest(request) = Accept(line.job_id)
    BY <2>3, <2>4, <2>5 DEF decodeCancelRequest, isCancelRequest
  <2> QED
    BY <1>3, <2>6, <2>7 DEF IsAsMeant
<1> QED
  BY <1>1, <1>2, <1>3 DEF IsSendable

-----------------------------------------------------------------------------
\* Responses

\* What the client makes of the id in the answer to a SUBMIT.
LEMMA SubmitResponse ==
    ASSUME NEW text \in Seq(Byte)
    PROVE  /\ <<OK, Space>> \o text \in Seq(Byte)
           /\ parseSubmitSuccessResponse(<<OK, Space>> \o text) =
                  Spelled(text, FieldValues(JobIdSize) - 1)
<1> DEFINE front == <<OK, Space>>
           response == front \o text
<1>1. front \in Seq(Byte) /\ Len(front) = 2
  BY WordsAreBytes
<1> HIDE DEF front
<1>2. response \in Seq(Byte) /\ IsPrefix(front, response)
  BY <1>1, ConcatProperties, PrefixOfConcat
<1>3. SubSeq(response, Len(front) + 1, Len(response)) = text
  BY <1>1, CutUnique, Zenon
<1>4. Len(front) + 1 = 3
  BY <1>1
<1>5. SubSeq(response, 3, Len(response)) = text
  BY <1>3, <1>4, Zenon
<1>6. FieldValues(JobIdSize) - 1 \in Nat
  BY FieldSizes, ConnectionsAssumption
<1> HIDE DEF response
<1>7. parseSubmitSuccessResponse(response) = parseDecimal(text, FieldValues(JobIdSize) - 1)
  BY <1>2, <1>5, Zenon DEF parseSubmitSuccessResponse, front
<1>8. parseSubmitSuccessResponse(response) = Spelled(text, FieldValues(JobIdSize) - 1)
  BY <1>6, <1>7, ParsersAreExact, Zenon
<1> QED
  BY <1>2, <1>8 DEF response, front

\* Every id comes back from the answer to a SUBMIT.
LEMMA IdsComeBack ==
    ASSUME NEW job_id \in 1 .. FieldValues(JobIdSize) - 1
    PROVE  /\ parseSubmitSuccessResponse(<<OK, Space>> \o ToDecimal(job_id)) = Accept(job_id)
           /\ ToDecimal(job_id) \in Seq(Byte)
<1>1. job_id \in Nat
  BY FieldSizes
<1>2. /\ ToDecimal(job_id) \in Seq(Byte) /\ ToSet(ToDecimal(job_id)) \subseteq Digits
      /\ ValueOf(ToDecimal(job_id)) = job_id
  BY <1>1, DecimalsComeBack
<1>3. Spelled(ToDecimal(job_id), FieldValues(JobIdSize) - 1) = Accept(job_id)
  BY <1>2, Zenon DEF Spelled
<1> QED
  BY <1>2, <1>3, SubmitResponse, Zenon

LEMMA FixedResponses ==
    /\ isErrorResponse(Error)
    /\ IsPrefix(<<OK, Newline>>, <<OK, Newline, Text>>)
    /\ IsPrefix(<<OK, Space>>, <<OK, Space, Text>>)
    /\ Len(<<OK, Space, Text>>) > 2
<1>1. ASSUME NEW a \in Byte, NEW b \in Byte, NEW c \in Byte
      PROVE  IsPrefix(<<a, b>>, <<a, b, c>>)
  <2>1. <<a, b>> \in Seq(Byte) /\ <<c>> \in Seq(Byte) /\ <<a, b>> \o <<c>> = <<a, b, c>>
    <3>1. /\ <<a, b>> \in Seq(Byte) /\ Len(<<a, b>>) = 2 /\ <<a, b>>[1] = a /\ <<a, b>>[2] = b
          /\ <<c>> \in Seq(Byte) /\ Len(<<c>>) = 1 /\ <<c>>[1] = c
          /\ <<a, b, c>> \in Seq(Byte) /\ Len(<<a, b, c>>) = 3
          /\ <<a, b, c>>[1] = a /\ <<a, b, c>>[2] = b /\ <<a, b, c>>[3] = c
      OBVIOUS
    <3> DEFINE s == <<a, b>>
               t == <<c>>
               u == <<a, b, c>>
    <3>2. /\ s \in Seq(Byte) /\ Len(s) = 2 /\ s[1] = a /\ s[2] = b
          /\ t \in Seq(Byte) /\ Len(t) = 1 /\ t[1] = c
          /\ u \in Seq(Byte) /\ Len(u) = 3 /\ u[1] = a /\ u[2] = b /\ u[3] = c
      BY <3>1
    <3> HIDE DEF s, t, u
    <3>3. /\ s \o t \in Seq(Byte) /\ Len(s \o t) = 3
          /\ (s \o t)[1] = a /\ (s \o t)[2] = b /\ (s \o t)[3] = c
      <4>1. /\ s \o t \in Seq(Byte) /\ Len(s \o t) = Len(s) + Len(t)
            /\ \A i \in 1 .. Len(s) + Len(t) :
                  (s \o t)[i] = IF i <= Len(s) THEN s[i] ELSE t[i - Len(s)]
        BY <3>2, ConcatProperties
      <4> DEFINE v == s \o t
      <4>2. v \in Seq(Byte) /\ \A i \in 1 .. 3 : v[i] = IF i <= 2 THEN s[i] ELSE t[i - 2]
        BY <3>2, <4>1
      <4> HIDE DEF v
      <4>3. v[1] = a /\ v[2] = b /\ v[3] = c
        BY <3>2, <4>2
      <4> QED
        BY <3>2, <4>1, <4>3 DEF v
    <3>4. s \o t = u
      BY <3>2, <3>3, SeqEqual
    <3> QED
      BY <3>1, <3>4 DEF s, t, u
  <2>2. IsPrefix(<<a, b>>, <<a, b>> \o <<c>>)
    BY <2>1, PrefixOfConcat, Zenon
  <2> QED
    BY <2>1, <2>2, Zenon
<1>2. IsPrefix(<<ERR, Space>>, <<ERR, Space, Text>>)
  BY <1>1, WordsAreBytes
<1>3. IsPrefix(<<OK, Newline>>, <<OK, Newline, Text>>)
  BY <1>1, WordsAreBytes
<1>4. IsPrefix(<<OK, Space>>, <<OK, Space, Text>>)
  BY <1>1, WordsAreBytes
<1>5. isErrorResponse(Error)
  BY <1>2, Zenon DEF isErrorResponse, Error
<1> QED
  BY <1>3, <1>4, <1>5

\* A response to a command is strange only if it is neither.
LEMMA ResponseIsClear ==
    ASSUME NEW command, NEW response,
           isErrorResponse(response) \/ IsSuccess(command, response)
    PROVE  handleResponse(command, response) # "unexpected"
<1>1. handleResponse(command, response) \in {"error", "success"}
  BY Zenon DEF handleResponse
<1> QED
  BY <1>1

(***************************************************************************)
(* Whatever the state of the jobs, no answer of handleRequest to a request *)
(* of runnerctl is one that its handleResponse does not know: for every    *)
(* command line that can be sent and every id.                             *)
(***************************************************************************)
THEOREM ResponsesAreUnderstood ==
    ASSUME NEW line, IsSendable(line), NEW job_id \in 1 .. FieldValues(JobIdSize) - 1,
           NEW answer, IsAnswer(answer, makeRequestPayload(line), job_id)
    PROVE  handleResponse(line.command, answer) # "unexpected"
<1> DEFINE request == makeRequestPayload(line)
<1>7. \A x : Accept(x).ok
  BY DEF Accept
<1>1. CASE answer = Error
  BY <1>1, FixedResponses, ResponseIsClear, Zenon
<1>2. CASE answer # Error /\ line.command = "ping"
  <2>1. request[1] = PING
    BY <1>2, RequestOf, RequestWords, Zenon
  <2>2. answer = <<PONG>>
    BY <1>2, <2>1, RequestWords, WordsDiffer, Zenon DEF IsAnswer
  <2>3. IsSuccess(line.command, answer)
    BY <1>2, <2>2 DEF IsSuccess
  <2> QED
    BY <2>3, ResponseIsClear
<1>3. CASE answer # Error /\ line.command = "list"
  <2>1. request[1] = LIST
    BY <1>3, RequestOf, RequestWords, Zenon
  <2>2. answer \in makeListResponse
    BY <1>3, <2>1, RequestWords, WordsDiffer, Zenon DEF IsAnswer
  <2>3. answer = <<OK>> \/ IsPrefix(<<OK, Newline>>, answer)
    BY <1>3, <2>2, FixedResponses, Zenon DEF makeListResponse
  <2>4. IsSuccess(line.command, answer)
    BY <1>3, <2>3 DEF IsSuccess
  <2> QED
    BY <2>4, ResponseIsClear
<1>4. CASE answer # Error /\ line.command = "submit"
  <2>1. IsAcceptable(request)
    BY <1>4, RequestsAreAsMeant
  <2>2. answer = <<OK, Space>> \o ToDecimal(job_id)
    BY <2>1, AcceptedAnswer, Zenon
  <2>3. parseSubmitSuccessResponse(answer).ok
    BY <1>7, <2>2, IdsComeBack, Zenon
  <2>4. IsSuccess(line.command, answer)
    BY <1>4, <2>3 DEF IsSuccess
  <2> QED
    BY <2>4, ResponseIsClear
<1>5. CASE answer # Error /\ line.command = "status"
  <2>1. decodeStatusRequest(request).ok
    <3>1. decodeStatusRequest(request) = Accept(line.job_id)
      BY <1>5, RequestsAreAsMeant, Zenon DEF IsAsMeant
    <3> QED
      BY <1>7, <3>1, Zenon
  <2>2. answer \in makeStatusResponse
    BY <1>5, <2>1, RequestWords, WordsDiffer, Zenon DEF IsAnswer
  <2>3. answer = <<OK, Space, Text>>
    BY <1>5, <2>2, Zenon DEF makeStatusResponse
  <2>4. IsSuccess(line.command, answer)
    BY <1>5, <2>3, FixedResponses DEF IsSuccess
  <2> QED
    BY <2>4, ResponseIsClear
<1>6. CASE answer # Error /\ line.command = "cancel"
  <2>1. decodeCancelRequest(request).ok
    <3>1. decodeCancelRequest(request) = Accept(line.job_id)
      BY <1>6, RequestsAreAsMeant, Zenon DEF IsAsMeant
    <3> QED
      BY <1>7, <3>1, Zenon
  <2>2. answer \in cancelJob
    BY <1>6, <2>1, RequestWords, WordsDiffer, Zenon DEF IsAnswer
  <2>3. IsSuccess(line.command, answer)
    BY <1>6, <2>2, Zenon DEF IsSuccess, cancelJob
  <2> QED
    BY <2>3, ResponseIsClear
<1> QED
  BY <1>1, <1>2, <1>3, <1>4, <1>5, <1>6 DEF IsSendable

-----------------------------------------------------------------------------
\* The encodings, of every input

LEMMA InputType ==
    InputSpec => [](input \in Seq(Byte))
<1>1. InputInit => input \in Seq(Byte)
  BY EmptySeq DEF InputInit
<1>2. PayloadBytes \subseteq Byte /\ Digits \cup {Space} \subseteq Byte
  BY ProtocolAssumption
     DEF PayloadBytes, Nul, Slash, kSubmitCommand, Digits, Digit, Space, Byte
<1>3. input \in Seq(Byte) /\ [GrowPayload \/ GrowText]_<<vars, input>> => (input \in Seq(Byte))'
  <2> SUFFICES ASSUME input \in Seq(Byte), [GrowPayload \/ GrowText]_<<vars, input>>
               PROVE  input' \in Seq(Byte)
    OBVIOUS
  <2>1. ASSUME NEW bytes \in SUBSET Byte, NEW size, Grow(bytes, size)
        PROVE  input' \in Seq(Byte)
    <3>1. PICK byte \in bytes : input' = Append(input, byte)
      BY <2>1 DEF Grow
    <3>2. byte \in Byte
      BY <3>1
    <3> QED
      BY <3>1, <3>2
  <2> QED
    BY <1>2, <2>1 DEF GrowPayload, GrowText
<1> QED
  BY <1>1, <1>3, PTL DEF InputSpec

(***************************************************************************)
(* The four decimal parsers read every text exactly, for every width of    *)
(* the integers: what is accepted and as which number is what the text     *)
(* spells, and no intermediate result wraps around.                        *)
(***************************************************************************)
THEOREM EveryDecimalIsExact ==
    InputSpec => []DecimalsAreExact
<1>1. ASSUME input \in Seq(Byte) PROVE DecimalsAreExact
  <2>1. /\ FieldValues(JobIdSize) - 1 \in Nat /\ FieldValues(UintSize) - 1 \in Nat
        /\ \A maximum \in {9, 15, 127, 255} : maximum \in Nat
    BY FieldSizes, ConnectionsAssumption
  <2>2. \A maximum \in Nat : parseDecimal(input, maximum) = Spelled(input, maximum)
    BY <1>1, ParsersAreExact
  <2>3. parseSubmitSuccessResponse(<<OK, Space>> \o input) =
            Spelled(input, FieldValues(JobIdSize) - 1)
    BY <1>1, SubmitResponse
  <2> QED
    <3>1. \A maximum \in {9, 15, 127, 255} :
              parseDecimal(input, maximum) = Spelled(input, maximum)
      BY <2>1, <2>2, Zenon
    <3>2. /\ parsePositiveTimeout(input) = Spelled(input, FieldValues(UintSize) - 1)
          /\ parseJobId(input) = Spelled(input, FieldValues(JobIdSize) - 1)
          /\ parsePositiveMaxRunning(input) = Spelled(input, FieldValues(JobIdSize) - 1)
      BY <2>1, <2>2, Zenon DEF parsePositiveTimeout, parseJobId, parsePositiveMaxRunning
    <3> QED
      BY <3>1, <3>2, <2>3, Zenon DEF DecimalsAreExact
<1> QED
  BY <1>1, InputType, PTL

\* A piece of the input.
LEMMA SliceType ==
    ASSUME input \in Seq(Byte), NEW i \in 0 .. Len(input), NEW j \in 0 .. Len(input), i <= j
    PROVE  Slice(i, j) \in Seq(Byte)
<1>1. /\ Len(input) \in Nat /\ i + 1 \in 1 .. Len(input) + 1 /\ j \in 0 .. Len(input)
      /\ \A k \in i + 1 .. j : input[k] \in Byte
  OBVIOUS
<1>2. SubSeq(input, i + 1, j) \in Seq(Byte)
  BY <1>1, SubSeqProperties
<1> QED
  BY <1>2 DEF Slice

LEMMA SomeSpecsType ==
    ASSUME input \in Seq(Byte)
    PROVE  SomeSpecs \subseteq JobSpec
<1>1. Len(input) \in Nat /\ ByteValues \in Nat \ {0}
  BY ProtocolAssumption
<1>2. \A i, j \in 0 .. Len(input) : i <= j => Slice(i, j) \in Seq(Byte)
  BY SliceType
<1>3. <<>> \in Seq(Seq(Byte)) /\ \A a \in Seq(Byte) : <<a>> \in Seq(Seq(Byte))
  BY EmptySeq
<1>4. \A a, b \in Seq(Byte) : <<a, b>> \in Seq(Seq(Byte))
  OBVIOUS
<1>5. \A a, b, c \in Seq(Byte) : <<a, b, c>> \in Seq(Seq(Byte))
  OBVIOUS
<1>6. ASSUME NEW argv \in SomeArguments PROVE argv \in Seq(Seq(Byte))
  <2>1. CASE argv \in {<<>>, <<input>>}
    BY <1>3, <2>1
  <2>2. ASSUME NEW i \in 0 .. Len(input), argv = <<Slice(0, i), Slice(i, Len(input))>>
        PROVE  argv \in Seq(Seq(Byte))
    <3>1. Slice(0, i) \in Seq(Byte) /\ Slice(i, Len(input)) \in Seq(Byte)
      BY <1>1, <1>2
    <3> QED
      BY <1>4, <2>2, <3>1, Zenon
  <2>3. ASSUME NEW p \in {q \in (0 .. Len(input)) \X (0 .. Len(input)) : q[1] <= q[2]},
               argv = <<Slice(0, p[1]), Slice(p[1], p[2]), Slice(p[2], Len(input))>>
        PROVE  argv \in Seq(Seq(Byte))
    <3>1. p[1] \in 0 .. Len(input) /\ p[2] \in 0 .. Len(input) /\ p[1] <= p[2]
      BY <2>3
    <3>2. /\ Slice(0, p[1]) \in Seq(Byte) /\ Slice(p[1], p[2]) \in Seq(Byte)
          /\ Slice(p[2], Len(input)) \in Seq(Byte)
      BY <1>1, <1>2, <3>1
    <3> QED
      BY <1>5, <2>3, <3>2, Zenon
  <2> QED
    BY <2>1, <2>2, <2>3, Zenon DEF SomeArguments
<1>7. {NoTimeout, 0, 1, ByteValues - 1, ByteValues} \subseteq Nat \cup {NoTimeout}
  BY <1>1
<1> QED
  BY <1>6, <1>7 DEF SomeSpecs, JobSpec

LEMMA SubmitsExact ==
    ASSUME input \in Seq(Byte)
    PROVE  SubmitIsExact
<1>1. decodeSubmitRequest(input).ok => SubmitPayload(decodeSubmitRequest(input).value) = input
  BY SubmitsAreExact
<1>2. \A spec \in JobSpec : encodeSubmitRequest(spec).ok =>
         decodeSubmitRequest(encodeSubmitRequest(spec).value) = Accept(spec)
  BY SubmitsComeThrough, Zenon
<1> QED
  BY <1>1, <1>2, SomeSpecsType, Zenon DEF SubmitIsExact

LEMMA JobIdsExact ==
    ASSUME input \in Seq(Byte)
    PROVE  JobIdIsExact
<1> DEFINE payload == <<kStatusCommand>> \o input
<1>1. ASSUME decodeStatusRequest(payload).ok
      PROVE  encodeStatusRequest(decodeStatusRequest(payload).value) = payload
  <2>1. payload \in Seq(Byte) /\ payload[1] = kStatusCommand
    BY WordFirst, WordsAreBytes
  <2>2. ~Reject.ok
    BY DEF Reject
  <2> HIDE DEF payload
  <2>3. decodeStatusRequest(payload) = decodeJobId(payload)
    BY <1>1, <2>2, Zenon DEF decodeStatusRequest
  <2>4. decodeJobId(payload).ok
    BY <1>1, <2>3, Zenon
  <2>5. appendJobId(<<payload[1]>>, decodeJobId(payload).value) = payload
    BY <2>1, <2>4, JobIdsAreExact, Zenon
  <2> QED
    BY <2>1, <2>3, <2>5, Zenon DEF encodeStatusRequest
<1>2. ASSUME NEW job_id \in SpelledIds
      PROVE  decodeCancelRequest(appendJobId(<<kCancelCommand>>, job_id)) =
                 IF job_id = 0 THEN Reject ELSE Accept(job_id)
  <2> DEFINE request == appendJobId(<<kCancelCommand>>, job_id)
  <2>1. job_id \in 0 .. FieldValues(JobIdSize) - 1 /\ kCancelCommand \in Byte
    BY WordsAreBytes DEF SpelledIds
  <2>2. job_id \in Nat
    BY <2>1, FieldSizes
  <2>3. StartsWith(request, kCancelCommand)
    BY <2>1, <2>2, AppendJobIdType, Zenon
  <2>4. decodeJobId(request) = IF job_id = 0 THEN Reject ELSE Accept(job_id)
    BY <2>1, JobIdsComeThrough, Zenon
  <2> QED
    BY <2>3, <2>4, Zenon DEF decodeCancelRequest, isCancelRequest
<1> QED
  BY <1>1, <1>2, Zenon DEF JobIdIsExact

LEMMA EveryAnswerIsUnderstood ==
    AnswersAreUnderstood
<1> SUFFICES ASSUME NEW job_id \in SpelledIds \ {0}, NEW line, IsSendable(line),
                    NEW answer \in Answers(makeRequestPayload(line), job_id)
             PROVE  handleResponse(line.command, answer) # "unexpected"
  BY Zenon DEF AnswersAreUnderstood
<1>1. job_id \in 1 .. FieldValues(JobIdSize) - 1
  BY FieldSizes DEF SpelledIds
<1>2. IsAnswer(answer, makeRequestPayload(line), job_id)
  BY AnswerCases
<1> QED
  BY <1>1, <1>2, ResponsesAreUnderstood

(***************************************************************************)
(* The codec is exact for every payload, specification and id, whatever    *)
(* the sizes of bytes, fields and frames: a SUBMIT or a STATUS is accepted *)
(* only if it is the encoding of what it is decoded to, whatever can be    *)
(* sent arrives as it was, and runnerctl understands every answer.         *)
(***************************************************************************)
THEOREM EveryEncodingIsExact ==
    InputSpec => []CodecIsExact
<1>1. input \in Seq(Byte) => CodecIsExact
  BY SubmitsExact, JobIdsExact, EveryAnswerIsUnderstood DEF CodecIsExact
<1> QED
  BY <1>1, InputType, PTL

-----------------------------------------------------------------------------
\* How runnerctl comes to its result

\* What a runnerctl was told to do, what it sends for that and how it has ended.
ResultOf(c) ==
    /\ command_line[c] \in CommandLines
    /\ stream[c] = encodeFrame(makeRequestPayload(command_line[c]))
    /\ result[c] # "none" => Gone(client_end[c])
    /\ result[c] \in {"success", "error", "unexpected"} =>
          /\ hasFrame(received[c])
          /\ result[c] = handleResponse(command_line[c].command, FirstFrame(received[c]))

ResultInv == \A c \in Runnerctls : ResultOf(c)

LEMMA ResultInvInit ==
    ASSUME Init
    PROVE  ResultInv
<1> SUFFICES ASSUME NEW c \in Runnerctls PROVE ResultOf(c)
  BY DEF ResultInv
<1>1. c \in Clients
  BY RunnerctlAssumption
<1>2. command_line[c] \in CommandLines
  BY <1>1 DEF Init, ClientsInit
<1>3. stream[c] = encodeFrame(makeRequestPayload(command_line[c]))
  BY <1>1 DEF Init, ClientsInit
<1>4. result[c] = "none"
  BY <1>1 DEF Init, ClientsInit
<1> QED
  BY <1>2, <1>3, <1>4 DEF ResultOf

\* The daemon changes nothing of the clients.
LEMMA DaemonLeavesClients ==
    ASSUME Daemon \/ \E fd \in Fds : PipeHangsUp(fd)
    PROVE  UNCHANGED <<clientVars, client_end>>
<1>1. ASSUME NEW c, NEW unread, closeClient(c, unread) PROVE UNCHANGED <<clientVars, client_end>>
  BY <1>1 DEF closeClient, DaemonCloses
<1>2. CASE EpollWait \/ Accept4 \/ AcceptDone \/ AcceptFails \/ \E fd \in Fds : PipeHangsUp(fd)
  BY <1>2
     DEF EpollWait, Accept4, AcceptDone, AcceptFails, DaemonDies, PipeHangsUp, socketVars
<1>3. CASE \E e \in batch : \/ TimerEvent(e) \/ PipeEvent(e) \/ OldEvent(e)
                            \/ ListenEvent(e) \/ ClientEvent(e)
  BY <1>3 DEF TimerEvent, PipeEvent, OldEvent, ListenEvent, ClientEvent, socketVars
<1>4. CASE \E e \in batch : ClientError(e)
  BY <1>1, <1>4 DEF ClientError
<1>5. CASE ClientBranch(Current)
  <2>1. CASE \/ FeedThrows(Current) \/ ReadFails(Current) \/ RequestFails(Current)
             \/ RequestThrows(Current) \/ WriteFails(Current) \/ Finish(Current)
    BY <1>1, <2>1, ClosingSteps
  <2>2. CASE Read(Current) \/ ReadDone(Current) \/ HandleRequest(Current)
    BY <2>2 DEF Read, ReadDone, HandleRequest, socketVars
  <2>3. CASE Write(Current) \/ updateClientEvents(Current)
    BY <2>3 DEF Write, updateClientEvents, socketVars
  <2> QED
    BY <1>5, <2>1, <2>2, <2>3 DEF ClientBranch
<1> QED
  BY <1>2, <1>3, <1>4, <1>5 DEF Daemon

\* A client changes nothing of the other clients, and no one what it wants to send.
LEMMA ClientsAreSeparate ==
    ASSUME DescriptorsInv, NEW c \in Clients, Client(c), NEW d \in Clients, d # c
    PROVE  /\ result'[d] = result[d] /\ received'[d] = received[d]
           /\ client_end'[d] = client_end[d]
<1>1. CASE Connects(c)
  BY <1>1 DEF Connects, connect, clientVars, DescriptorsInv, SocketsInv
<1>2. CASE \E end \in Nat : end <= Len(stream[c]) /\ SendsTo(c, end)
  BY <1>2 DEF SendsTo
<1>3. ASSUME NEW outcome, NEW read, NEW unread, RunnerctlEnds(c, outcome, read, unread)
      PROVE  /\ result'[d] = result[d] /\ received'[d] = received[d]
             /\ client_end'[d] = client_end[d]
  BY <1>3 DEF RunnerctlEnds, ClientCloses, DescriptorsInv, SocketsInv, ClientsInv
<1>4. CASE Takes(c)
  BY <1>4 DEF Takes, DescriptorsInv, ClientsInv
<1>5. CASE OtherCloses(c) \/ OtherShutsDown(c)
  BY <1>5 DEF OtherCloses, OtherShutsDown, ClientCloses, clientVars, DescriptorsInv, SocketsInv
<1> QED
  BY <1>1, <1>2, <1>3, <1>4, <1>5, ClientEffect, Zenon

LEMMA CommandsStay ==
    ASSUME DescriptorsInv, NEW c \in Clients, Client(c)
    PROVE  UNCHANGED <<command_line, stream>>
<1>1. ASSUME NEW outcome, NEW read, NEW unread, RunnerctlEnds(c, outcome, read, unread)
      PROVE  UNCHANGED <<command_line, stream>>
  BY <1>1 DEF RunnerctlEnds
<1>2. CASE \/ Connects(c) \/ Takes(c) \/ OtherCloses(c) \/ OtherShutsDown(c)
           \/ \E end \in Nat : end <= Len(stream[c]) /\ SendsTo(c, end)
  BY <1>2 DEF Connects, Takes, OtherCloses, OtherShutsDown, SendsTo, clientVars
<1> QED
  BY <1>1, <1>2, ClientEffect, Zenon

\* A step of runnerctl itself: it is not over yet, and ends only with a result that
\* comes from a complete response or is a failure.
LEMMA RunnerctlEffect ==
    ASSUME DescriptorsInv, NEW c \in Runnerctls, Client(c)
    PROVE  /\ ~Gone(client_end[c])
           /\ \/ result'[c] = result[c]
              \/ result'[c] = "failed" /\ Gone(client_end'[c])
              \/ /\ hasFrame(received'[c]) /\ Gone(client_end'[c])
                 /\ result'[c] = handleResponse(command_line[c].command, FirstFrame(received'[c]))
<1>1. c \in Clients /\ result \in [Clients -> {"none", "success", "error", "unexpected", "failed"}]
  BY RunnerctlAssumption DEF DescriptorsInv, ClientsInv
<1>2. DOMAIN received = Clients /\ DOMAIN client_end = Clients
  BY DEF DescriptorsInv, ClientsInv, SocketsInv
<1>3. ASSUME NEW outcome, NEW read, NEW unread, RunnerctlEnds(c, outcome, read, unread)
      PROVE  result'[c] = outcome /\ received'[c] = read /\ Gone(client_end'[c])
  BY <1>1, <1>2, <1>3 DEF RunnerctlEnds, ClientCloses, ClosedWith, Gone
<1>4. CASE Connects(c)
  BY <1>4 DEF Connects, Gone, clientVars
<1>5. CASE SendsTo(c, Len(stream[c]))
  BY <1>5 DEF SendsTo, Gone
<1>6. CASE RunnerctlCannotSend(c)
  <2>1. client_end[c] = "open" /\ RunnerctlEnds(c, "failed", received[c], to_client[c])
    BY <1>6 DEF RunnerctlCannotSend
  <2> QED
    BY <1>3, <2>1 DEF Gone
<1>7. CASE RunnerctlSeesTheEnd(c)
  <2>1. client_end[c] = "open" /\ RunnerctlEnds(c, "failed", received[c], <<>>)
    BY <1>7 DEF RunnerctlSeesTheEnd
  <2> QED
    BY <1>3, <2>1 DEF Gone
<1>8. CASE RunnerctlReads(c)
  <2> DEFINE read == received[c] \o Chunk(to_client[c])
             unread == AfterChunk(to_client[c])
             verdict == handleResponse(command_line[c].command, FirstFrame(read))
  <2>1. client_end[c] = "open"
    BY <1>8 DEF RunnerctlReads
  <2>2. \/ RunnerctlEnds(c, "failed", read, unread)
        \/ hasFrame(read) /\ RunnerctlEnds(c, verdict, read, unread)
        \/ result' = result
    <3>1. CASE ~feed(received[c], Chunk(to_client[c])).ok
      BY <1>8, <3>1, Zenon DEF RunnerctlReads
    <3>2. CASE feed(received[c], Chunk(to_client[c])).ok /\ hasFrame(read)
      BY <1>8, <3>2, Zenon DEF RunnerctlReads
    <3>3. CASE feed(received[c], Chunk(to_client[c])).ok /\ ~hasFrame(read)
      BY <1>8, <3>3 DEF RunnerctlReads
    <3> QED
      BY <3>1, <3>2, <3>3
  <2>3. ~Gone(client_end[c])
    BY <2>1 DEF Gone
  <2> HIDE DEF read, unread
  <2> QED
    BY <1>3, <2>2, <2>3, Zenon
<1> QED
  BY <1>4, <1>5, <1>6, <1>7, <1>8 DEF Client, RunnerctlStep, OtherStep, OtherReads

LEMMA ResultInvStep ==
    ASSUME DescriptorsInv, ResultInv, [Next]_vars
    PROVE  ResultInv'
<1> SUFFICES ASSUME NEW c \in Runnerctls PROVE ResultOf(c)'
  BY DEF ResultInv
<1>1. c \in Clients /\ ResultOf(c)
  BY RunnerctlAssumption DEF ResultInv
<1>2. ASSUME UNCHANGED <<command_line, stream>>, result'[c] = result[c],
             received'[c] = received[c], client_end'[c] = client_end[c]
      PROVE  ResultOf(c)'
  BY <1>1, <1>2, Zenon DEF ResultOf
<1>3. CASE Daemon \/ \E fd \in Fds : PipeHangsUp(fd)
  BY <1>2, <1>3, DaemonLeavesClients DEF clientVars
<1>4. CASE UNCHANGED vars
  BY <1>2, <1>4 DEF vars, clientVars, socketVars
<1>5. ASSUME NEW d \in Clients, Client(d), d # c PROVE ResultOf(c)'
  BY <1>1, <1>2, <1>5, ClientsAreSeparate, CommandsStay
<1>6. CASE Client(c)
  <2>1. UNCHANGED <<command_line, stream>>
    BY <1>1, <1>6, CommandsStay
  <2>2. /\ ~Gone(client_end[c])
        /\ \/ result'[c] = result[c]
           \/ result'[c] = "failed" /\ Gone(client_end'[c])
           \/ /\ hasFrame(received'[c]) /\ Gone(client_end'[c])
              /\ result'[c] = handleResponse(command_line[c].command, FirstFrame(received'[c]))
    BY <1>6, RunnerctlEffect
  <2>3. result[c] = "none" /\ "failed" \notin {"success", "error", "unexpected", "none"}
    BY <1>1, <2>2 DEF ResultOf
  <2>4. /\ command_line[c] \in CommandLines
        /\ stream[c] = encodeFrame(makeRequestPayload(command_line[c]))
    BY <1>1 DEF ResultOf
  <2> QED
    BY <2>1, <2>2, <2>3, <2>4, "none" \notin {"success", "error", "unexpected"}, Zenon DEF ResultOf
<1> QED
  BY <1>3, <1>4, <1>5, <1>6 DEF Next

-----------------------------------------------------------------------------
\* The requests that were answered, their answers and the ids in them

\* A request and its answer, with next_job_id at next since then.
IsEntry(request, answer, next) ==
    /\ Len(request) <= kMaxFrameSize
    /\ \E job_id \in 1 .. JobIdSpace - 1 :
          /\ IsAnswer(answer, request, job_id)
          /\ IsAcceptable(request) => next = 0 \/ job_id < next

\* The requests that were answered are a beginning of what the client sends, also
\* after its connection is closed, and each has its answer.
HandledOf(c) ==
    /\ IsPrefix(EncodeAll(handled[c]), stream[c])
    /\ Len(answers[c]) = Len(handled[c])
    /\ \A i \in 1 .. Len(handled[c]) : IsEntry(handled[c][i], answers[c][i], next_job_id)

\* Of two SUBMITs that were accepted, on whatever connections, the answers differ.
AnswersDiffer(c, i, d, j) ==
    IsAcceptable(handled[c][i]) /\ IsAcceptable(handled[d][j]) /\ answers[c][i] = answers[d][j]
        => c = d /\ i = j

IdIsGivenOrStays ==
    \/ UNCHANGED next_job_id
    \/ next_job_id # 0 /\ next_job_id' = (next_job_id + 1) % JobIdSpace

HandledInv ==
    /\ \A c \in Clients : HandledOf(c)
    /\ \A c, d \in Clients :
          \A i \in 1 .. Len(handled[c]), j \in 1 .. Len(handled[d]) : AnswersDiffer(c, i, d, j)

LEMMA HandledInvInit ==
    ASSUME Init
    PROVE  HandledInv
<1>1. \A c \in Clients : handled[c] = <<>> /\ answers[c] = <<>>
  BY DEF Init
<1>2. Len(<<>>) = 0 /\ 1 .. 0 = {} /\ <<>> \in Seq(Byte)
  BY EmptySeq
<1>3. \A c \in Clients : IsPrefix(EncodeAll(<<>>), stream[c])
  <2>1. \A c \in Clients : stream[c] \in Seq(Byte)
    BY DescriptorsInvInit DEF DescriptorsInv, ClientsInv
  <2>2. \A s \in Seq(Byte) : IsPrefix(<<>>, <<>> \o s) /\ <<>> \o s = s
    BY <1>2, PrefixOfConcat, ConcatEmptySeq
  <2>3. \A s \in Seq(Byte) : IsPrefix(<<>>, s)
    BY <2>2
  <2> QED
    BY <2>1, <2>3, EncodeAllEmpty
<1> QED
  BY <1>1, <1>2, <1>3, Zenon DEF HandledInv, HandledOf

\* Ids are given away in order; after the greatest one there is no next.
LEMMA NextId ==
    ASSUME NEW n \in 1 .. JobIdSpace - 1
    PROVE  (n + 1) % JobIdSpace \in {0, n + 1}
<1>1. JobIdSpace \in Nat /\ JobIdSpace >= 2
  BY ConnectionsAssumption, FieldSizes
<1>2. CASE n + 1 = JobIdSpace
  <2>1. (n + 1) % JobIdSpace = 0
    BY <1>1, <1>2
  <2> QED
    BY <2>1
<1>3. CASE n + 1 < JobIdSpace
  <2>1. (n + 1) % JobIdSpace = n + 1
    BY <1>1, <1>3
  <2> QED
    BY <2>1
<1> QED
  BY <1>1, <1>2, <1>3

\* What is handed out later does not touch an earlier entry.
LEMMA EntryStays ==
    ASSUME NEW request, NEW answer, NEW next \in 0 .. JobIdSpace - 1, NEW new,
           IsEntry(request, answer, next),
           new = next \/ (next # 0 /\ new \in {0, next + 1})
    PROVE  IsEntry(request, answer, new)
<1>1. PICK job_id \in 1 .. JobIdSpace - 1 :
         /\ IsAnswer(answer, request, job_id)
         /\ IsAcceptable(request) => next = 0 \/ job_id < next
  BY DEF IsEntry
<1>2. next = 0 \/ job_id < next => new = 0 \/ job_id < new
  BY ConnectionsAssumption
<1> QED
  BY <1>1, <1>2 DEF IsEntry

LEMMA SizeIsNumber ==
    ASSUME NEW buffer \in Seq(Byte), HasHeader(buffer)
    PROVE  payloadSize(buffer) \in Nat
<1>1. kFrameHeaderSize \in 0 .. Len(buffer)
  BY FieldSizes DEF HasHeader, kFrameHeaderSize
<1>2. SubSeq(buffer, 1, kFrameHeaderSize) \in Seq(Byte)
  BY <1>1, Cut
<1> QED
  BY <1>2, BigEndianOfValue DEF payloadSize

\* popFrame, handleRequest and the answer once more, with the history they leave.
LEMMA HandleRequestHistory ==
    ASSUME DescriptorsInv, NEW c \in Connected, HandleRequest(c)
    PROVE  \E request \in Seq(Byte), answer \in Seq(Byte) :
              /\ Len(request) <= kMaxFrameSize
              /\ handled' = [handled EXCEPT ![c] = Append(handled[c], request)]
              /\ answers' = [answers EXCEPT ![c] = Append(answers[c], answer)]
              /\ IsAnswer(answer, request, next_job_id)
              /\ IsAcceptable(request) =>
                    next_job_id # 0 /\ next_job_id' = (next_job_id + 1) % JobIdSpace
              /\ ~IsAcceptable(request) => next_job_id' = next_job_id
<1> DEFINE buffer == connections[c].decoder
           request == FirstFrame(buffer)
<1>1. c \in Clients /\ next_job_id \in Nat /\ buffer \in Seq(Byte)
  BY DEF Connected, DescriptorsInv, DaemonInv, ConnectionType
<1>2. hasFrame(buffer) /\ ~IsOversized(buffer)
  BY DEF HandleRequest
<1>3. request \in Seq(Byte) /\ Len(request) <= kMaxFrameSize
  <2>1. request \in Seq(Byte)
    BY <1>1, <1>2, FrameAtHead
  <2> DEFINE k == kFrameHeaderSize
             n == payloadSize(buffer)
  <2>3. k \in Nat /\ n \in Nat /\ kMaxFrameSize \in Nat
    BY <1>1, <1>2, SizeIsNumber, FieldSizes DEF kFrameHeaderSize, hasFrame
  <2>2. HasHeader(buffer) /\ n <= kMaxFrameSize /\ Len(buffer) - k >= n
    BY <1>2, <2>3 DEF hasFrame, IsOversized
  <2>4. Len(request) = n
    <3>1. request = SubSeq(buffer, k + 1, k + n)
      BY DEF FirstFrame
    <3> HIDE DEF k, n, buffer, request
    <3>2. /\ k + 1 \in 1 .. Len(buffer) + 1 /\ k + n \in k .. Len(buffer)
          /\ Len(buffer) \in Nat /\ k + 1 <= (k + n) + 1
      BY <1>1, <2>2, <2>3
    <3>3. Len(SubSeq(buffer, k + 1, k + n)) = n
      BY <1>1, <2>3, <3>2
    <3> QED
      BY <3>1, <3>3
  <2> QED
    BY <2>1, <2>2, <2>4
<1>4. PICK answer \in Answers(request, next_job_id) :
         answers' = [answers EXCEPT ![c] = Append(answers[c], answer)]
  <2>1. \E answer \in Answers(request, next_job_id) :
           answers' = [answers EXCEPT ![c] = Append(@, answer)]
    BY DEF HandleRequest
  <2> QED
    BY <2>1
<1>5. answer \in Seq(Byte) /\ IsAnswer(answer, request, next_job_id)
  BY <1>1, <1>4, AnswersType, AnswerCases
<1>6. handled' = [handled EXCEPT ![c] = Append(handled[c], request)]
  BY DEF HandleRequest
<1>7. RequestEffects(request) /\ (IsAcceptable(request) => next_job_id # 0)
  BY DEF HandleRequest
<1> HIDE DEF request, buffer
<1>8. IsAcceptable(request) => next_job_id' = (next_job_id + 1) % JobIdSpace
  <2>1. IsAcceptable(request) => ~decodeCancelRequest(request).ok
    BY RequestWords, WordsDiffer
  <2> QED
    BY <1>7, <2>1, Zenon DEF RequestEffects
<1>9. ~IsAcceptable(request) => next_job_id' = next_job_id
  BY <1>7, Zenon DEF RequestEffects, jobVars
<1> QED
  BY <1>3, <1>4, <1>5, <1>6, <1>7, <1>8, <1>9, Zenon

\* The id of a SUBMIT that failed is lost; it is in no answer.
LEMMA HandledStays ==
    ASSUME DescriptorsInv, HandledInv, UNCHANGED <<handled, answers, stream>>,
           IdIsGivenOrStays
    PROVE  HandledInv'
<1>1. next_job_id \in 0 .. JobIdSpace - 1
  BY DEF DescriptorsInv, DaemonInv
<1>2. next_job_id' = next_job_id \/ (next_job_id # 0 /\ next_job_id' \in {0, next_job_id + 1})
  <2>1. next_job_id # 0 => next_job_id \in 1 .. JobIdSpace - 1
    BY <1>1, ConnectionsAssumption, FieldSizes
  <2> QED
    BY <2>1, NextId DEF IdIsGivenOrStays
<1>3. ASSUME NEW c \in Clients, NEW i \in 1 .. Len(handled[c])
      PROVE  IsEntry(handled[c][i], answers[c][i], next_job_id')
  <2>1. IsEntry(handled[c][i], answers[c][i], next_job_id)
    BY DEF HandledInv, HandledOf
  <2> QED
    BY <1>1, <1>2, <2>1, EntryStays
<1>4. handled' = handled /\ answers' = answers /\ stream' = stream
  OBVIOUS
<1>5. \A c \in Clients : HandledOf(c)'
  BY <1>3, <1>4 DEF HandledInv, HandledOf
<1>6. ASSUME NEW c \in Clients, NEW d \in Clients,
             NEW i \in 1 .. Len(handled[c]), NEW j \in 1 .. Len(handled[d])
      PROVE  AnswersDiffer(c, i, d, j)'
  BY <1>4 DEF HandledInv, AnswersDiffer
<1> QED
  BY <1>4, <1>5, <1>6 DEF HandledInv

\* A request that fails uses its id up and is not answered.
LEMMA RequestFailsHistory ==
    ASSUME NEW c, RequestFails(c)
    PROVE  UNCHANGED <<handled, answers>> /\ IdIsGivenOrStays
<1> DEFINE request == FirstFrame(connections[c].decoder)
<1>1. UNCHANGED <<handled, answers>>
  BY DEF RequestFails, closeClient, historyVars
<1>2. RequestMayFail(request) /\ RequestEffects(request)
  BY DEF RequestFails
<1> HIDE DEF request
<1>3. IsAcceptable(request) => ~decodeCancelRequest(request).ok
  BY RequestWords, WordsDiffer
<1>4. CASE IsAcceptable(request)
  <2>1. next_job_id # 0
    BY <1>2, <1>3, <1>4, Zenon DEF RequestMayFail
  <2>2. next_job_id' = (next_job_id + 1) % JobIdSpace
    BY <1>2, <1>3, <1>4, Zenon DEF RequestEffects
  <2> QED
    BY <1>1, <2>1, <2>2 DEF IdIsGivenOrStays
<1>5. CASE ~IsAcceptable(request)
  <2>1. next_job_id' = next_job_id
    BY <1>2, <1>5, Zenon DEF RequestEffects, jobVars
  <2> QED
    BY <1>1, <2>1 DEF IdIsGivenOrStays
<1> QED
  BY <1>4, <1>5

\* No other step handles a request or gives an id away.
LEMMA HistoryStays ==
    ASSUME DescriptorsInv, [Next]_vars
    PROVE  /\ UNCHANGED stream
           /\ \/ UNCHANGED <<handled, answers>> /\ IdIsGivenOrStays
              \/ Current \in Connected /\ HandleRequest(Current)
<1>1. ASSUME NEW c, NEW unread, closeClient(c, unread)
      PROVE  UNCHANGED <<handled, answers>>
  BY <1>1 DEF closeClient, historyVars
<1> USE DEF IdIsGivenOrStays
<1>2. CASE Daemon \/ \E fd \in Fds : PipeHangsUp(fd)
  <2>1. UNCHANGED stream
    BY <1>2, DaemonLeavesClients DEF clientVars
  <2>2. CASE EpollWait \/ Accept4 \/ AcceptDone \/ AcceptFails \/ \E fd \in Fds : PipeHangsUp(fd)
    BY <2>1, <2>2
       DEF EpollWait, Accept4, AcceptDone, AcceptFails, PipeHangsUp, jobVars, historyVars
  <2>3. CASE \E e \in batch : \/ TimerEvent(e) \/ PipeEvent(e) \/ OldEvent(e)
                              \/ ListenEvent(e) \/ ClientEvent(e)
    BY <2>1, <2>3
       DEF TimerEvent, PipeEvent, OldEvent, ListenEvent, ClientEvent, jobVars, historyVars
  <2>4. CASE \E e \in batch : ClientError(e)
    BY <1>1, <2>1, <2>4 DEF ClientError, jobVars
  <2>5. CASE pc \in {"read", "parse", "write"} /\ ClientBranch(Current)
    <3>1. CASE \/ FeedThrows(Current) \/ ReadFails(Current) \/ RequestThrows(Current)
               \/ WriteFails(Current) \/ Finish(Current)
      <4>1. next_job_id' = next_job_id
        BY <3>1 DEF FeedThrows, ReadFails, RequestThrows, WriteFails, Finish, jobVars
      <4> QED
        BY <1>1, <2>1, <3>1, <4>1, ClosingSteps
    <3>2. CASE HandleRequest(Current)
      BY <2>1, <2>5, <3>2, CurrentIsConnected
    <3>3. CASE \/ Read(Current) \/ ReadDone(Current) \/ Write(Current)
               \/ updateClientEvents(Current)
      BY <2>1, <3>3 DEF Read, ReadDone, Write, updateClientEvents, jobVars, historyVars
    <3>4. CASE RequestFails(Current)
      BY <2>1, <3>4, RequestFailsHistory
    <3> QED
      BY <2>5, <3>1, <3>2, <3>3, <3>4 DEF ClientBranch
  <2> QED
    BY <1>2, <2>2, <2>3, <2>4, <2>5 DEF Daemon
<1>3. CASE \E c \in Clients : Client(c)
  BY <1>3, CommandsStay DEF Client, daemonVars, jobVars, historyVars
<1>4. CASE UNCHANGED vars
  BY <1>4 DEF vars, clientVars, daemonVars, jobVars, historyVars
<1> QED
  BY <1>2, <1>3, <1>4 DEF Next

\* Different ids make different answers.
LEMMA DifferentIds ==
    ASSUME NEW a \in 1 .. JobIdSpace - 1, NEW b \in 1 .. JobIdSpace - 1,
           <<OK, Space>> \o ToDecimal(a) = <<OK, Space>> \o ToDecimal(b)
    PROVE  a = b
<1>1. a \in 1 .. FieldValues(JobIdSize) - 1 /\ b \in 1 .. FieldValues(JobIdSize) - 1
  BY ConnectionsAssumption, FieldSizes
<1>2. Accept(a) = Accept(b)
  BY <1>1, IdsComeBack, Zenon
<1>3. Accept(a).value = a /\ Accept(b).value = b
  BY DEF Accept
<1> QED
  BY <1>2, <1>3, Zenon

\* What was taken apart is a beginning of the whole stream.
LEMMA PrefixOfStream ==
    ASSUME NEW a \in Seq(Byte), NEW b \in Seq(Byte), NEW d \in Seq(Byte), NEW s \in Seq(Byte),
           NEW n \in 0 .. Len(s), (a \o b) \o d = SubSeq(s, 1, n)
    PROVE  IsPrefix(a, s)
<1> DEFINE rest == SubSeq(s, n + 1, Len(s))
<1>1. rest \in Seq(Byte) /\ SubSeq(s, 1, n) \o rest = s
  BY Cut
<1> HIDE DEF rest
<1>2. ((a \o b) \o d) \o rest = s
  BY <1>1, Zenon
<1>3. b \o d \in Seq(Byte) /\ (b \o d) \o rest \in Seq(Byte)
  BY <1>1, Joined, Zenon
<1>4. (a \o b) \o d = a \o (b \o d)
  BY Joined, Zenon
<1>5. (a \o (b \o d)) \o rest = a \o ((b \o d) \o rest)
  <2>1. ASSUME NEW x \in Seq(Byte) PROVE (a \o x) \o rest = a \o (x \o rest)
    BY <1>1, Joined, Zenon
  <2> QED
    BY <1>3, <2>1, Zenon
<1>6. s = a \o ((b \o d) \o rest)
  BY <1>2, <1>4, <1>5, Zenon
<1>7. IsPrefix(a, a \o ((b \o d) \o rest))
  BY <1>3, PrefixOfConcat
<1> QED
  BY <1>6, <1>7, Zenon

LEMMA HandledInvHandle ==
    ASSUME DescriptorsInv, DescriptorsInv', FramesInv', HandledInv,
           NEW c \in Connected, HandleRequest(c), UNCHANGED stream
    PROVE  HandledInv'
<1>1. PICK request \in Seq(Byte), answer \in Seq(Byte) :
         /\ Len(request) <= kMaxFrameSize
         /\ handled' = [handled EXCEPT ![c] = Append(handled[c], request)]
         /\ answers' = [answers EXCEPT ![c] = Append(answers[c], answer)]
         /\ IsAnswer(answer, request, next_job_id)
         /\ IsAcceptable(request) =>
               next_job_id # 0 /\ next_job_id' = (next_job_id + 1) % JobIdSpace
         /\ ~IsAcceptable(request) => next_job_id' = next_job_id
  BY HandleRequestHistory
<1>2. /\ c \in Clients /\ next_job_id \in 0 .. JobIdSpace - 1
      /\ handled \in [Clients -> Seq(Seq(Byte))] /\ answers \in [Clients -> Seq(Seq(Byte))]
  BY DEF Connected, DescriptorsInv, DaemonInv
<1>3. JobIdSpace \in Nat /\ JobIdSpace >= 2
  BY ConnectionsAssumption, FieldSizes
<1>4. /\ IsAcceptable(request) => /\ next_job_id \in 1 .. JobIdSpace - 1
                                  /\ next_job_id' \in {0, next_job_id + 1}
      /\ next_job_id' = next_job_id \/ (next_job_id # 0 /\ next_job_id' \in {0, next_job_id + 1})
  <2>1. CASE IsAcceptable(request)
    <3>1. next_job_id \in 1 .. JobIdSpace - 1
      BY <1>1, <1>2, <1>3, <2>1
    <3>2. next_job_id' \in {0, next_job_id + 1} /\ next_job_id # 0
      BY <1>1, <2>1, <3>1, NextId
    <3> QED
      BY <3>1, <3>2
  <2>2. CASE ~IsAcceptable(request)
    BY <1>1, <2>2
  <2> QED
    BY <2>1, <2>2
<1>5. IsEntry(request, answer, next_job_id')
  <2>1. CASE IsAcceptable(request)
    <3>1. next_job_id' = 0 \/ next_job_id < next_job_id'
      BY <1>2, <1>3, <1>4, <2>1
    <3> QED
      BY <1>1, <1>4, <2>1, <3>1 DEF IsEntry
  <2>2. CASE ~IsAcceptable(request)
    <3>1. 1 \in 1 .. JobIdSpace - 1
      BY <1>3
    <3>2. IsAnswer(answer, request, 1)
      BY <1>1, <2>2, OtherAnswers
    <3> QED
      BY <1>1, <2>2, <3>1, <3>2 DEF IsEntry
  <2> QED
    BY <2>1, <2>2
<1>6. \A d \in Clients : HandledOf(d)
  BY DEF HandledInv
<1>7. /\ handled'[c] = Append(handled[c], request) /\ answers'[c] = Append(answers[c], answer)
      /\ \A d \in Clients \ {c} : handled'[d] = handled[d] /\ answers'[d] = answers[d]
  BY <1>1, <1>2
<1>8. /\ handled[c] \in Seq(Seq(Byte)) /\ answers[c] \in Seq(Seq(Byte))
      /\ Len(handled[c]) \in Nat /\ Len(answers[c]) = Len(handled[c])
  BY <1>2, <1>6, LenProperties DEF HandledOf
<1>9. /\ Len(handled'[c]) = Len(handled[c]) + 1 /\ Len(answers'[c]) = Len(handled[c]) + 1
      /\ handled'[c][Len(handled[c]) + 1] = request /\ answers'[c][Len(handled[c]) + 1] = answer
      /\ \A i \in 1 .. Len(handled[c]) : /\ handled'[c][i] = handled[c][i]
                                         /\ answers'[c][i] = answers[c][i]
  <2>1. ASSUME NEW s \in Seq(Seq(Byte)), NEW x \in Seq(Byte)
        PROVE  /\ Len(Append(s, x)) = Len(s) + 1 /\ Append(s, x)[Len(s) + 1] = x
               /\ \A i \in 1 .. Len(s) : Append(s, x)[i] = s[i]
    BY AppendProperties
  <2>2. /\ Len(Append(handled[c], request)) = Len(handled[c]) + 1
        /\ Append(handled[c], request)[Len(handled[c]) + 1] = request
        /\ \A i \in 1 .. Len(handled[c]) : Append(handled[c], request)[i] = handled[c][i]
    BY <1>8, <2>1, Zenon
  <2>3. /\ Len(Append(answers[c], answer)) = Len(answers[c]) + 1
        /\ Append(answers[c], answer)[Len(answers[c]) + 1] = answer
        /\ \A i \in 1 .. Len(answers[c]) : Append(answers[c], answer)[i] = answers[c][i]
    BY <1>8, <2>1, Zenon
  <2>4. /\ Len(answers'[c]) = Len(handled[c]) + 1
        /\ answers'[c][Len(handled[c]) + 1] = answer
        /\ \A i \in 1 .. Len(handled[c]) : answers'[c][i] = answers[c][i]
    BY <1>7, <1>8, <2>3, Zenon
  <2> QED
    BY <1>7, <2>2, <2>4, Zenon
<1>10. ASSUME NEW d \in Clients, NEW i \in 1 .. Len(handled'[d])
       PROVE  \/ /\ i \in 1 .. Len(handled[d])
                 /\ handled'[d][i] = handled[d][i] /\ answers'[d][i] = answers[d][i]
              \/ /\ d = c /\ i = Len(handled[c]) + 1
                 /\ handled'[d][i] = request /\ answers'[d][i] = answer
  <2>1. CASE d # c
    BY <1>7, <2>1
  <2>2. CASE d = c
    <3>1. i \in 1 .. Len(handled[c]) + 1
      BY <1>9, <1>10, <2>2
    <3>2. i \in 1 .. Len(handled[c]) \/ i = Len(handled[c]) + 1
      BY <1>8, <3>1
    <3> QED
      BY <1>9, <2>2, <3>2
  <2> QED
    BY <2>1, <2>2
<1>11. ASSUME NEW d \in Clients PROVE HandledOf(d)'
  <2>1. IsPrefix(EncodeAll(handled'[d]), stream'[d])
    <3>1. CASE d # c
      BY <1>6, <1>7, <3>1 DEF HandledOf
    <3>2. CASE d = c
      <4>1. (c \in Connected)'
        BY <1>2, HandleRequestEffect DEF Connected
      <4>2. (EncodeAll(handled'[c]) \o connections'[c].decoder) \o to_daemon'[c] =
                SubSeq(stream'[c], 1, sent'[c])
        BY <1>2, <4>1 DEF FramesInv, FramesOf
      <4>3. /\ connections'[c].decoder \in Seq(Byte) /\ to_daemon'[c] \in Seq(Byte)
            /\ stream'[c] \in Seq(Byte) /\ sent'[c] \in 0 .. Len(stream'[c])
            /\ handled'[c] \in Seq(Seq(Byte))
        BY <1>2 DEF DescriptorsInv, SocketsInv, ClientsInv, DaemonInv, ConnectionType
      <4>4. EncodeAll(handled'[c]) \in Seq(Byte)
        BY <4>3, EncodeAllAppend
      <4> QED
        BY <3>2, <4>2, <4>3, <4>4, PrefixOfStream, Zenon
    <3> QED
      BY <3>1, <3>2
  <2>2. Len(answers'[d]) = Len(handled'[d])
    BY <1>6, <1>7, <1>9 DEF HandledOf
  <2>3. ASSUME NEW i \in 1 .. Len(handled'[d])
        PROVE  IsEntry(handled'[d][i], answers'[d][i], next_job_id')
    <3>1. CASE /\ i \in 1 .. Len(handled[d])
               /\ handled'[d][i] = handled[d][i] /\ answers'[d][i] = answers[d][i]
      <4>1. IsEntry(handled[d][i], answers[d][i], next_job_id)
        BY <1>6, <3>1 DEF HandledOf
      <4>2. IsEntry(handled[d][i], answers[d][i], next_job_id')
        BY <1>2, <1>4, <4>1, EntryStays
      <4> QED
        BY <3>1, <4>2
    <3>2. CASE handled'[d][i] = request /\ answers'[d][i] = answer
      BY <1>5, <3>2
    <3> QED
      BY <1>10, <3>1, <3>2
  <2> QED
    BY <2>1, <2>2, <2>3 DEF HandledOf
<1>12. ASSUME IsAcceptable(request), NEW d \in Clients, NEW i \in 1 .. Len(handled[d]),
              IsAcceptable(handled[d][i])
       PROVE  answers[d][i] # answer
  <2>1. IsEntry(handled[d][i], answers[d][i], next_job_id)
    BY <1>6 DEF HandledOf
  <2>2. PICK job_id \in 1 .. JobIdSpace - 1 :
           IsAnswer(answers[d][i], handled[d][i], job_id) /\ (next_job_id = 0 \/ job_id < next_job_id)
    BY <1>12, <2>1 DEF IsEntry
  <2>3. answers[d][i] = <<OK, Space>> \o ToDecimal(job_id)
    BY <1>12, <2>2, AcceptedAnswer
  <2>4. answer = <<OK, Space>> \o ToDecimal(next_job_id) /\ next_job_id \in 1 .. JobIdSpace - 1
    BY <1>1, <1>4, <1>12, AcceptedAnswer
  <2>5. job_id # next_job_id
    BY <1>3, <2>2, <2>4
  <2> QED
    BY <2>3, <2>4, <2>5, DifferentIds, Zenon
<1>13. ASSUME NEW a \in Clients, NEW b \in Clients,
              NEW i \in 1 .. Len(handled'[a]), NEW j \in 1 .. Len(handled'[b]),
              IsAcceptable(handled'[a][i]), IsAcceptable(handled'[b][j]),
              answers'[a][i] = answers'[b][j]
       PROVE  a = b /\ i = j
  <2>1. CASE i \in 1 .. Len(handled[a]) /\ j \in 1 .. Len(handled[b])
    <3>1. /\ handled'[a][i] = handled[a][i] /\ answers'[a][i] = answers[a][i]
          /\ handled'[b][j] = handled[b][j] /\ answers'[b][j] = answers[b][j]
      BY <1>7, <1>9, <2>1
    <3>2. AnswersDiffer(a, i, b, j)
      BY <2>1, Zenon DEF HandledInv
    <3> QED
      BY <1>13, <3>1, <3>2, Zenon DEF AnswersDiffer
  <2>2. CASE ~(i \in 1 .. Len(handled[a])) /\ ~(j \in 1 .. Len(handled[b]))
    BY <1>10, <2>2
  <2>3. CASE i \in 1 .. Len(handled[a]) /\ ~(j \in 1 .. Len(handled[b]))
    <3>1. handled'[b][j] = request /\ answers'[b][j] = answer
      BY <1>10, <2>3
    <3>2. handled'[a][i] = handled[a][i] /\ answers'[a][i] = answers[a][i]
      BY <1>7, <1>9, <2>3
    <3> QED
      BY <1>12, <1>13, <2>3, <3>1, <3>2, Zenon
  <2>4. CASE ~(i \in 1 .. Len(handled[a])) /\ j \in 1 .. Len(handled[b])
    <3>1. handled'[a][i] = request /\ answers'[a][i] = answer
      BY <1>10, <2>4
    <3>2. handled'[b][j] = handled[b][j] /\ answers'[b][j] = answers[b][j]
      BY <1>7, <1>9, <2>4
    <3> QED
      BY <1>12, <1>13, <2>4, <3>1, <3>2, Zenon
  <2> QED
    BY <2>1, <2>2, <2>3, <2>4
<1>14. ASSUME NEW a \in Clients, NEW b \in Clients,
              NEW i \in 1 .. Len(handled'[a]), NEW j \in 1 .. Len(handled'[b])
       PROVE  AnswersDiffer(a, i, b, j)'
  BY <1>13, Zenon DEF AnswersDiffer
<1> QED
  BY <1>11, <1>14, Zenon DEF HandledInv

LEMMA HandledInvStep ==
    ASSUME DescriptorsInv, DescriptorsInv', FramesInv', HandledInv, [Next]_vars
    PROVE  HandledInv'
<1>1. CASE UNCHANGED <<handled, answers>> /\ IdIsGivenOrStays
  BY <1>1, HistoryStays, HandledStays
<1>2. CASE Current \in Connected /\ HandleRequest(Current)
  BY <1>2, HistoryStays, HandledInvHandle
<1> QED
  BY <1>1, <1>2, HistoryStays

-----------------------------------------------------------------------------
\* runnerctl tells the truth

LEMMA AnswerFits ==
    ASSUME NEW request, NEW job_id \in 1 .. JobIdSpace - 1, NEW answer,
           IsAnswer(answer, request, job_id)
    PROVE  Len(answer) <= kMaxFrameSize
<1>1. kMaxFrameSize \in Nat /\ kMaxFrameSize >= 3
  BY AnswersAssumption, FieldSizes
<1>2. /\ Len(<<PONG>>) <= kMaxFrameSize /\ Len(<<OK>>) <= kMaxFrameSize
      /\ Len(<<OK, Newline, Text>>) <= kMaxFrameSize /\ Len(<<OK, Space, Text>>) <= kMaxFrameSize
      /\ Len(<<OK, Space, Cancelled>>) <= kMaxFrameSize
      /\ Len(<<OK, Space, Terminating>>) <= kMaxFrameSize
      /\ Len(<<ERR, Space, Text>>) <= kMaxFrameSize
  BY <1>1
<1>3. Len(<<OK, Space>> \o ToDecimal(job_id)) <= kMaxFrameSize
  <2>1. ToDecimal(job_id) \in Seq(Byte)
    BY ToDecimalType, ConnectionsAssumption
  <2>2. <<OK, Space>> \in Seq(Byte) /\ Len(<<OK, Space>>) = 2
    BY WordsAreBytes
  <2>3. Len(<<OK, Space>> \o ToDecimal(job_id)) = Len(<<OK, Space>>) + Len(ToDecimal(job_id))
    BY <2>1, <2>2, Joined, Zenon
  <2>4. 2 + Len(ToDecimal(job_id)) <= kMaxFrameSize
    BY AnswersAssumption
  <2> QED
    BY <2>2, <2>3, <2>4, Zenon
<1>4. \/ answer \in {<<PONG>>} \/ answer \in makeListResponse \/ answer \in makeStatusResponse
      \/ answer \in cancelJob \/ answer = <<OK, Space>> \o ToDecimal(job_id) \/ answer = Error
  BY Zenon DEF IsAnswer
<1> QED
  BY <1>2, <1>3, <1>4, Zenon DEF makeListResponse, makeStatusResponse, cancelJob, Error

(***************************************************************************)
(* A runnerctl that has a result: the first frame it has received is the   *)
(* answer to the one request that was handled on its connection, and that  *)
(* request is its own.                                                     *)
(***************************************************************************)
LEMMA Conversation ==
    ASSUME DescriptorsInv, AnswersInv, ResultInv, HandledInv, NEW c \in Runnerctls,
           result[c] \in {"success", "error", "unexpected"}
    PROVE  /\ IsSendable(command_line[c])
           /\ Len(handled[c]) = 1 /\ handled[c][1] = makeRequestPayload(command_line[c])
           /\ FirstFrame(received[c]) = answers[c][1]
           /\ result[c] = handleResponse(command_line[c].command, answers[c][1])
           /\ \E job_id \in 1 .. JobIdSpace - 1 : IsAnswer(answers[c][1], handled[c][1], job_id)
<1> DEFINE all == EncodeAll(answers[c])
           payload == makeRequestPayload(command_line[c])
<1>1. /\ c \in Clients /\ HandledOf(c) /\ ResultOf(c)
      /\ received[c] \in Seq(Byte) /\ to_client[c] \in Seq(Byte)
      /\ handled[c] \in Seq(Seq(Byte)) /\ answers[c] \in Seq(Seq(Byte))
  BY RunnerctlAssumption
     DEF DescriptorsInv, SocketsInv, ClientsInv, DaemonInv, HandledInv, ResultInv
<1>2. /\ hasFrame(received[c])
      /\ result[c] = handleResponse(command_line[c].command, FirstFrame(received[c]))
      /\ stream[c] = encodeFrame(payload)
  BY <1>1 DEF ResultOf
<1>3. IsSendable(command_line[c])
  BY <1>1, RequestsAssumption DEF ResultOf
<1>4. payload \in Seq(Byte) /\ Len(payload) <= kMaxFrameSize
  BY <1>3, RequestType DEF IsSendable
<1>5. all \in Seq(Byte)
  BY <1>1, EncodeAllAppend
<1>6. PICK more \in Seq(Byte) : all = received[c] \o more
  <2>1. IsPrefix(received[c] \o to_client[c], all)
    BY <1>1 DEF AnswersInv, AnswersAreExact
  <2>2. received[c] \o to_client[c] \in Seq(Byte)
    BY <1>1, Joined, Zenon
  <2> HIDE DEF all
  <2>3. PICK u \in Seq(Byte) : all = (received[c] \o to_client[c]) \o u
    BY <1>5, <2>1, <2>2, PrefixHasRest, ZenonT(60)
  <2>4. to_client[c] \o u \in Seq(Byte)
    BY <1>1, Joined, Zenon
  <2>5. (received[c] \o to_client[c]) \o u = received[c] \o (to_client[c] \o u)
    BY <1>1, Regrouped, ZenonT(60)
  <2> QED
    BY <2>3, <2>4, <2>5, Zenon
<1>7. answers[c] # <<>>
  <2>1. Len(received[c]) >= UintSize /\ UintSize \in Nat \ {0} /\ Len(received[c]) \in Nat
    BY <1>1, <1>2, FieldSizes DEF hasFrame, HasHeader, kFrameHeaderSize
  <2>2. Len(all) = Len(received[c]) + Len(more)
    BY <1>1, <1>6, Joined, Zenon
  <2>3. Len(more) \in Nat
    OBVIOUS
  <2>4. Len(all) # 0
    BY <2>1, <2>2, <2>3
  <2> QED
    BY <2>4, EncodeAllEmpty
<1>8. Len(handled[c]) >= 1 /\ handled[c] # <<>>
  <2>1. Len(answers[c]) \in Nat /\ Len(answers[c]) # 0 /\ Len(handled[c]) = Len(answers[c])
    BY <1>1, <1>7, EmptySeq, LenProperties DEF HandledOf
  <2> QED
    BY <2>1
<1>9. IsEntry(handled[c][1], answers[c][1], next_job_id)
  <2>1. 1 \in 1 .. Len(handled[c])
    BY <1>1, <1>8
  <2> QED
    BY <1>1, <2>1 DEF HandledOf
<1>10. PICK job_id \in 1 .. JobIdSpace - 1 : IsAnswer(answers[c][1], handled[c][1], job_id)
  BY <1>9 DEF IsEntry
<1>11. Len(answers[c][1]) <= kMaxFrameSize /\ Len(handled[c][1]) <= kMaxFrameSize
  BY <1>9, <1>10, AnswerFits DEF IsEntry
<1>12. FirstFrame(all) = answers[c][1]
  <2>1. PICK rest \in Seq(Byte) : all = encodeFrame(answers[c][1]) \o rest
    BY <1>1, <1>7, EncodeAllHead, Zenon
  <2>2. answers[c][1] \in Seq(Byte)
    BY <1>1, <1>7, EncodeAllHead, Zenon
  <2>3. FirstFrame(encodeFrame(answers[c][1]) \o rest) = answers[c][1]
    BY <1>11, <2>2, FirstFrameOf
  <2> HIDE DEF all
  <2> QED
    BY <2>1, <2>3, Zenon
<1>13. FirstFrame(received[c]) = answers[c][1]
  <2>1. FirstFrame(received[c] \o more) = FirstFrame(received[c])
    BY <1>1, <1>2, HeadStays
  <2> QED
    BY <1>6, <1>12, <2>1, Zenon
<1>14. Len(handled[c]) = 1 /\ handled[c][1] = payload
  <2>1. IsPrefix(EncodeAll(handled[c]), encodeFrame(payload))
    BY <1>1, <1>2 DEF HandledOf
  <2> QED
    BY <1>1, <1>4, <1>8, <1>11, <2>1, OnlyOneFrame, Zenon
<1> QED
  BY <1>2, <1>3, <1>10, <1>13, <1>14

LEMMA TruthFollows ==
    ASSUME DescriptorsInv, AnswersInv, ResultInv, HandledInv
    PROVE  RunnerctlTellsTheTruth
<1>1. \A n \in 1 .. JobIdSpace - 1 : n \in 1 .. FieldValues(JobIdSize) - 1
  BY ConnectionsAssumption, FieldSizes
<1>2. ASSUME NEW c \in Runnerctls PROVE result[c] # "unexpected"
  <2> SUFFICES ASSUME result[c] = "unexpected" PROVE FALSE
    OBVIOUS
  <2>1. /\ IsSendable(command_line[c])
        /\ result[c] = handleResponse(command_line[c].command, answers[c][1])
        /\ \E job_id \in 1 .. JobIdSpace - 1 :
              IsAnswer(answers[c][1], makeRequestPayload(command_line[c]), job_id)
    BY Conversation
  <2> QED
    BY <1>1, <2>1, ResponsesAreUnderstood, Zenon
<1>3. ASSUME NEW c \in Runnerctls, result[c] \in {"success", "error"}
      PROVE  /\ Len(handled[c]) = 1 /\ IsAsMeant(handled[c][1], command_line[c])
             /\ FirstFrame(received[c]) = answers[c][1]
  <2>1. /\ IsSendable(command_line[c])
        /\ Len(handled[c]) = 1 /\ handled[c][1] = makeRequestPayload(command_line[c])
        /\ FirstFrame(received[c]) = answers[c][1]
    BY <1>3, Conversation
  <2> QED
    BY <2>1, RequestsAreAsMeant
<1>4. ASSUME NEW c \in Submitted
      PROVE  /\ c \in Clients /\ 1 \in 1 .. Len(handled[c]) /\ IsAcceptable(handled[c][1])
             /\ \E job_id \in 1 .. JobIdSpace - 1 :
                   /\ answers[c][1] = <<OK, Space>> \o ToDecimal(job_id)
                   /\ SubmittedId(c) = job_id
  <2>1. c \in Runnerctls /\ result[c] = "success" /\ command_line[c].command = "submit"
    BY DEF Submitted
  <2>2. /\ IsSendable(command_line[c])
        /\ Len(handled[c]) = 1 /\ handled[c][1] = makeRequestPayload(command_line[c])
        /\ FirstFrame(received[c]) = answers[c][1]
    BY <2>1, Conversation
  <2>3. PICK job_id \in 1 .. JobIdSpace - 1 : IsAnswer(answers[c][1], handled[c][1], job_id)
    BY <2>1, Conversation
  <2>4. IsAcceptable(handled[c][1])
    BY <2>1, <2>2, RequestsAreAsMeant
  <2>5. answers[c][1] = <<OK, Space>> \o ToDecimal(job_id)
    BY <2>3, <2>4, AcceptedAnswer
  <2>6. parseSubmitSuccessResponse(<<OK, Space>> \o ToDecimal(job_id)) = Accept(job_id)
    BY <1>1, IdsComeBack, Zenon
  <2>7. Accept(job_id).value = job_id
    BY DEF Accept
  <2>8. SubmittedId(c) = job_id
    BY <2>2, <2>5, <2>6, <2>7, Zenon DEF SubmittedId
  <2>9. c \in Clients /\ 1 \in 1 .. Len(handled[c])
    BY <2>1, <2>2, RunnerctlAssumption
  <2> QED
    BY <2>4, <2>5, <2>8, <2>9
<1>5. ASSUME NEW c \in Submitted, NEW d \in Submitted, SubmittedId(c) = SubmittedId(d)
      PROVE  c = d
  <2>1. answers[c][1] = answers[d][1]
    <3>1. \A x \in Submitted : answers[x][1] = <<OK, Space>> \o ToDecimal(SubmittedId(x))
      BY <1>4, Zenon
    <3>2. answers[c][1] = <<OK, Space>> \o ToDecimal(SubmittedId(c))
      BY <3>1
    <3>3. answers[d][1] = <<OK, Space>> \o ToDecimal(SubmittedId(d))
      BY <3>1
    <3> QED
      BY <1>5, <3>2, <3>3
  <2>2. /\ c \in Clients /\ 1 \in 1 .. Len(handled[c]) /\ IsAcceptable(handled[c][1])
        /\ d \in Clients /\ 1 \in 1 .. Len(handled[d]) /\ IsAcceptable(handled[d][1])
    BY <1>4
  <2>3. AnswersDiffer(c, 1, d, 1)
    BY <2>2, Zenon DEF HandledInv
  <2> QED
    BY <2>1, <2>2, <2>3, Zenon DEF AnswersDiffer
<1> QED
  BY <1>2, <1>3, <1>5, Zenon DEF RunnerctlTellsTheTruth

\* The inductive invariant of the conversations holds.
THEOREM ConversationsInvariance ==
    Spec => [](DescriptorsInv /\ AnswersInv /\ FramesInv /\ ResultInv /\ HandledInv)
<1>1. Init => DescriptorsInv /\ AnswersInv /\ FramesInv /\ ResultInv /\ HandledInv
  BY DescriptorsInvInit, AnswersInvInit, FramesInvInit, ResultInvInit, HandledInvInit
<1>2. DescriptorsInv /\ AnswersInv /\ FramesInv /\ ResultInv /\ HandledInv /\ [Next]_vars
          => DescriptorsInv' /\ AnswersInv' /\ FramesInv' /\ ResultInv' /\ HandledInv'
  BY DescriptorsInvStep, AnswersInvStep, FramesInvStep, ResultInvStep, HandledInvStep
<1> QED
  BY <1>1, <1>2, PTL DEF Spec

(***************************************************************************)
(* However requests and responses are cut, whatever the other clients do   *)
(* and whenever connections are closed, a runnerctl that reports a success *)
(* or an error reports the answer to its own request, handled once and as  *)
(* its command line meant it; it meets no response that it does not know;  *)
(* and no two submits print the same id.  For any number of clients and    *)
(* ids and all sizes of bytes, fields, frames, buffers and reads.          *)
(***************************************************************************)
THEOREM RunnerctlIsTruthful ==
    Spec => []RunnerctlTellsTheTruth
<1>1. DescriptorsInv /\ AnswersInv /\ ResultInv /\ HandledInv => RunnerctlTellsTheTruth
  BY TruthFollows
<1> QED
  BY <1>1, ConversationsInvariance, PTL

(***************************************************************************)
(* next_job_id gives no id away twice: of any two SUBMITs that the daemon  *)
(* has accepted and answered, pipelined on one connection or on different  *)
(* ones, of runnerctl or of another program, the answers name different    *)
(* jobs, also when SUBMITs fail in between and when the ids are used up.   *)
(***************************************************************************)
THEOREM EverySubmitHasItsOwnId ==
    Spec => [](\A c, d \in Clients :
                  \A i \in 1 .. Len(handled[c]), j \in 1 .. Len(handled[d]) :
                      /\ IsAcceptable(handled[c][i]) /\ IsAcceptable(handled[d][j])
                      /\ answers[c][i] = answers[d][j]
                      => c = d /\ i = j)
<1>1. HandledInv => (\A c, d \in Clients :
                        \A i \in 1 .. Len(handled[c]), j \in 1 .. Len(handled[d]) :
                            /\ IsAcceptable(handled[c][i]) /\ IsAcceptable(handled[d][j])
                            /\ answers[c][i] = answers[d][j]
                            => c = d /\ i = j)
  BY Zenon DEF HandledInv, AnswersDiffer
<1> QED
  BY <1>1, ConversationsInvariance, PTL
=============================================================================
