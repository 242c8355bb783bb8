----------------------- MODULE PollbookClient_proofs -----------------------
(***************************************************************************)
(* The client library keeps its promises to the caller, for any number of  *)
(* voters and of calls, whatever the servers and the connections do.       *)
(***************************************************************************)
EXTENDS PollbookClient, TLAPS

\* What is being written belongs to the current call, and in the ID chain to
\* the voter that call named.
OutIsCurrent ==
  op \in {"id_write", "checkin_write", "ticket_write"} =>
    /\ out \in Messages
    /\ out.call = calls
    /\ op # "ticket_write" => out.voter = current_request_voter_name

\* A message of the current call; an approval in it was really given.
Current(s, m) ==
  m.call = calls /\ (s = "id" => m.voter = current_request_voter_name)
Real(s, r) == s = "checkin" /\ r.approved /\ r.form = "signed" =>
                r.to \in approved

\* The operations that wait for an answer of server s.
Waits(s) == IF s = "id" THEN op = "id_read"
                        ELSE op \in {"size_read", "response_read", "ticket_read"}

Empty(s) == requests[s] = <<>> /\ responses[s] = <<>>
Asked(s) ==
  /\ Waits(s)
  /\ responses[s] = <<>>
  /\ \E m \in Messages : requests[s] = <<m>> /\ Current(s, m)
Answered(s) ==
  /\ Waits(s)
  /\ requests[s] = <<>>
  /\ \E r \in Responses : /\ responses[s] = <<r>>
                          /\ Current(s, r.to)
                          /\ Real(s, r)

\* At most one message is on a wire, a request or its response, only while the
\* chain waits for it, and it belongs to the current call.
OneInFlight == \A s \in Servers : Empty(s) \/ Asked(s) \/ Answered(s)

\* A connection that is down carries no request.
DownIsSilent == \A s \in Servers : link[s] = "down" => requests[s] = <<>>

\* A caller who reads success was approved by the check-in service, in this
\* call and not in an earlier one whose answer came late.
SuccessWasApproved ==
  promise = "success" => \E m \in approved : m.call = calls

\* No conjunct is inductive alone: success needs that the answer at hand
\* belongs to this call, that needs an empty wire when a call starts, and that
\* needs the promise and the outstanding operation to agree.
IInv ==
  /\ TypeOK
  /\ PendingHasOperation
  /\ OutIsCurrent
  /\ OneInFlight
  /\ DownIsSilent
  /\ SuccessWasApproved

----------------------------------------------------------------------------
(* Sequences with at most one element *)

\* What the provers need of a sequence of one element.
LEMMA One == ASSUME NEW S, NEW m \in S
             PROVE /\ <<>> \in Seq(S) /\ <<m>> \in Seq(S) /\ <<m>> # <<>>
                   /\ Head(<<m>>) = m /\ Tail(<<m>>) = <<>>
                   /\ Append(<<>>, m) = <<m>>
  OBVIOUS

\* The empty sequence is of every type.
LEMMA NoneYet == ASSUME NEW S PROVE <<>> \in Seq(S)
  OBVIOUS

----------------------------------------------------------------------------
\* A new client has nothing under way.
LEMMA InitIInv == Init => IInv
<1> SUFFICES ASSUME Init PROVE IInv
  OBVIOUS
<1>1. TypeOK
  <2>1. <<>> \in Seq(Messages) /\ <<>> \in Seq(Responses)
    BY NoneYet
  <2>2. /\ requests \in [Servers -> Seq(Messages)]
        /\ responses \in [Servers -> Seq(Responses)]
    BY <2>1 DEF Init
  <2>3. calls \in 0 .. MaxCalls
    BY ClientAssumption DEF Init
  <2> QED BY <2>2, <2>3 DEF Init, TypeOK, Ops
<1>2. OneInFlight
  BY DEF Init, OneInFlight, Empty
<1>3. OutIsCurrent /\ DownIsSilent /\ PendingHasOperation /\ SuccessWasApproved
  BY DEF Init, OutIsCurrent, DownIsSilent, PendingHasOperation,
         SuccessWasApproved
<1> QED BY <1>1, <1>2, <1>3 DEF IInv

\* The wire of a server nobody waits for.
LEMMA QuietWire == ASSUME IInv, NEW s \in Servers, ~Waits(s) PROVE Empty(s)
  BY DEF IInv, OneInFlight, Asked, Answered

----------------------------------------------------------------------------
(* The caller thread *)

\* A connection is made while nothing is under way.
LEMMA ConnectKeeps ==
  ASSUME IInv, NEW s \in Servers, Connect(s) PROVE IInv'
<1>1. TypeOK'
  BY DEF IInv, TypeOK, Connect
<1>2. \A t \in Servers : Empty(t)
  BY QuietWire DEF Connect, Waits, Servers
<1>3. OneInFlight' /\ DownIsSilent'
  BY <1>2 DEF OneInFlight, DownIsSilent, Empty, Connect
<1>4. OutIsCurrent' /\ PendingHasOperation' /\ SuccessWasApproved'
  BY DEF IInv, OutIsCurrent, PendingHasOperation, SuccessWasApproved, Connect
<1> QED BY <1>1, <1>3, <1>4 DEF IInv

\* A call starts with an empty wire and its own message.
LEMMA BeginKeeps ==
  ASSUME IInv, NEW v \in Voters,
         NEW kind \in {"id", "ticket"}, NEW write \in {"id_write", "ticket_write"},
         Begin(kind, write, v),
         current_request_voter_name' \in Voters \cup {None},
         write = "id_write" => current_request_voter_name' = v
  PROVE IInv'
<1>1. op = "none" /\ calls \in 0 .. MaxCalls /\ calls' \in 1 .. MaxCalls
  BY ClientAssumption DEF IInv, TypeOK, PendingHasOperation, Begin
<1>2. \A s \in Servers : Empty(s)
  BY <1>1, QuietWire DEF Waits, Servers
<1>3. out' \in Messages /\ out'.call = calls' /\ out'.voter = v
  BY <1>1 DEF Begin, Messages
<1>4. UNCHANGED <<link, reads, requests, responses>>
  BY DEF Begin, net
<1>5. calls' \in 0 .. MaxCalls /\ op' \in Ops
  BY <1>1, ClientAssumption DEF Begin, Ops
<1>6. TypeOK'
  BY <1>3, <1>4, <1>5 DEF IInv, TypeOK, Begin
<1>7. OneInFlight' /\ DownIsSilent'
  BY <1>2, <1>4 DEF OneInFlight, DownIsSilent, Empty
<1>8. OutIsCurrent' /\ PendingHasOperation' /\ SuccessWasApproved'
  BY <1>3 DEF OutIsCurrent, PendingHasOperation, SuccessWasApproved, Begin
<1> QED BY <1>6, <1>7, <1>8 DEF IInv

----------------------------------------------------------------------------
(* The network thread *)

\* The message goes on the wire it belongs to, or the call fails.
LEMMA WrittenKeeps ==
  ASSUME IInv, NEW s \in Servers,
         NEW o \in {"id_write", "checkin_write", "ticket_write"},
         NEW next \in {"id_read", "size_read", "ticket_read"},
         s = "id" <=> o = "id_write", s = "id" <=> next = "id_read",
         Written(o, s, next)
  PROVE IInv'
<1>1. /\ op = o /\ process = "up" /\ promise = "pending"
      /\ UNCHANGED <<client_type, process, checkin_connected, id_connected,
                     calls, current_request_voter_name, link, reads, approved,
                     responses>>
  BY DEF IInv, PendingHasOperation, Written, Handler
<1>2. /\ out \in Messages /\ out.call = calls
      /\ s = "id" => out.voter = current_request_voter_name
  BY <1>1 DEF IInv, OutIsCurrent
<1>3. \A t \in Servers : Empty(t)
  BY <1>1, QuietWire DEF Waits, Servers
<1>4. CASE link[s] = "up" /\ requests' = [requests EXCEPT ![s] = Append(@, out)]
           /\ Continue(next, None)
  <2>1. requests' = [requests EXCEPT ![s] = <<out>>]
    BY <1>2, <1>3, <1>4, One DEF Empty
  <2>2. requests' \in [Servers -> Seq(Messages)]
    BY <1>2, <2>1, One DEF IInv, TypeOK
  <2>3. TypeOK'
    BY <1>1, <1>4, <2>2 DEF IInv, TypeOK, Continue, Ops
  <2>4. \A t \in Servers \ {s} : Empty(t)'
    BY <1>1, <1>3, <2>1 DEF Empty, IInv, TypeOK
  <2>5. Asked(s)'
    <3>1. Waits(s)'
      BY <1>4 DEF Waits, Continue, Servers
    <3>2. requests'[s] = <<out>> /\ responses'[s] = <<>>
      BY <1>1, <1>3, <2>1 DEF Empty, IInv, TypeOK
    <3> QED BY <1>1, <1>2, <3>1, <3>2 DEF Asked, Current
  <2>6. OneInFlight'
    BY <2>4, <2>5 DEF OneInFlight
  <2>7. DownIsSilent'
    BY <1>1, <1>3, <1>4, <2>1 DEF DownIsSilent, Empty, IInv, TypeOK
  <2>8. OutIsCurrent' /\ PendingHasOperation' /\ SuccessWasApproved'
    BY <1>1, <1>4 DEF OutIsCurrent, PendingHasOperation, SuccessWasApproved,
                      Continue
  <2> QED BY <2>3, <2>6, <2>7, <2>8 DEF IInv
<1>5. CASE Fulfil("failure") /\ UNCHANGED requests
  <2>1. TypeOK'
    BY <1>1, <1>5 DEF IInv, TypeOK, Fulfil, Ops
  <2>2. OneInFlight' /\ DownIsSilent'
    BY <1>1, <1>3, <1>5 DEF OneInFlight, DownIsSilent, Empty
  <2>3. OutIsCurrent' /\ PendingHasOperation' /\ SuccessWasApproved'
    BY <1>5 DEF OutIsCurrent, PendingHasOperation, SuccessWasApproved, Fulfil
  <2> QED BY <2>1, <2>2, <2>3 DEF IInv
<1> QED BY <1>4, <1>5 DEF Written

\* A handler that leaves the wires empty and fulfils the promise, or throws.
LEMMA EndKeeps ==
  ASSUME IInv, NEW o \in Ops, Handler(o),
         UNCHANGED requests,
         responses' \in [Servers -> Seq(Responses)],
         \A t \in Servers : Empty(t)',
         \/ Terminate
         \/ /\ UNCHANGED process
            /\ Fulfil("failure")
         \/ /\ UNCHANGED process
            /\ Fulfil("success") /\ \E m \in approved : m.call = calls
  PROVE IInv'
<1>1. TypeOK'
  BY DEF IInv, TypeOK, Handler, Fulfil, Terminate, Ops
<1>2. OneInFlight' /\ DownIsSilent'
  BY DEF OneInFlight, DownIsSilent, Empty
<1>3. OutIsCurrent' /\ PendingHasOperation' /\ SuccessWasApproved'
  BY DEF IInv, OutIsCurrent, PendingHasOperation, SuccessWasApproved, Handler,
         Fulfil, Terminate
<1> QED BY <1>1, <1>2, <1>3 DEF IInv

\* Every read error ends the call.
LEMMA ReadErrorKeeps ==
  ASSUME IInv, NEW s \in Servers, NEW o \in Ops, ReadError(o, s),
         s = "id" <=> o = "id_read",
         o \in {"id_read", "size_read", "response_read", "ticket_read"}
  PROVE IInv'
<1>1. \A t \in Servers : Empty(t)
  <2>1. Empty(s)
    BY DEF IInv, DownIsSilent, Empty, ReadError
  <2>2. \A t \in Servers \ {s} : ~Waits(t)
    BY DEF ReadError, Handler, Waits, Servers
  <2> QED BY <2>1, <2>2, QuietWire
<1>2. \A t \in Servers : Empty(t)'
  BY <1>1 DEF Empty, ReadError
<1>3. responses' \in [Servers -> Seq(Responses)]
  BY DEF IInv, TypeOK, ReadError
<1> QED BY <1>2, <1>3, EndKeeps DEF ReadError

\* Taking a response: it is the only one, of this call, and nothing is left.
LEMMA TakeResponse ==
  ASSUME IInv, NEW s \in Servers, Waits(s), responses[s] # <<>>, Take(s),
         UNCHANGED requests
  PROVE /\ Head(responses[s]) \in Responses
        /\ Current(s, Head(responses[s]).to)
        /\ Real(s, Head(responses[s]))
        /\ responses' \in [Servers -> Seq(Responses)]
        /\ \A t \in Servers : Empty(t)'
<1>1. Answered(s)
  BY DEF IInv, OneInFlight, Empty, Asked
<1>2. PICK r \in Responses : /\ responses[s] = <<r>> /\ requests[s] = <<>>
                             /\ Current(s, r.to) /\ Real(s, r)
  BY <1>1 DEF Answered
<1>3. Head(responses[s]) = r /\ Tail(responses[s]) = <<>>
  BY <1>2, One
<1>4. responses' = [responses EXCEPT ![s] = <<>>]
  BY <1>3 DEF Take
<1>5. responses' \in [Servers -> Seq(Responses)]
  BY <1>4, NoneYet DEF IInv, TypeOK
<1>6. \A t \in Servers \ {s} : Empty(t)
  <2>1. \A t \in Servers \ {s} : ~Waits(t)
    BY DEF Waits, Servers
  <2> QED BY <2>1, QuietWire
<1>7. \A t \in Servers : Empty(t)'
  BY <1>2, <1>4, <1>6 DEF Empty, IInv, TypeOK
<1> QED BY <1>2, <1>3, <1>5, <1>7

\* The statement of the ID service leads to the check-in request, or to an end.
LEMMA ReadIdResponseKeeps == ASSUME IInv, ReadIdResponse PROVE IInv'
<1> DEFINE m == Head(responses["id"])
<1>1. /\ "id" \in Servers /\ Waits("id") /\ "id_read" \in Ops
      /\ Handler("id_read") /\ op = "id_read" /\ process = "up"
      /\ responses["id"] # <<>> /\ Take("id") /\ UNCHANGED requests
  BY DEF ReadIdResponse, Handler, Waits, Servers, Ops
<1>2. /\ m \in Responses /\ Current("id", m.to)
      /\ responses' \in [Servers -> Seq(Responses)]
      /\ \A t \in Servers : Empty(t)'
  BY <1>1, TakeResponse
<1>3. CASE Terminate \/ (UNCHANGED process /\ Fulfil("failure"))
  BY <1>1, <1>2, <1>3, EndKeeps
<1>4. CASE Continue("checkin_write", Message("checkin", m.to.voter))
           /\ UNCHANGED process
  <2>1. /\ m.to \in Messages /\ m.to.call = calls
        /\ m.to.voter = current_request_voter_name
    BY <1>2 DEF Current, Responses
  <2>2. /\ out' \in Messages /\ out'.call = calls
        /\ out'.voter = current_request_voter_name
    BY <1>4, <2>1 DEF Continue, Message, Messages
  <2>3. TypeOK'
    BY <1>1, <1>2, <1>4, <2>2 DEF IInv, TypeOK, Handler, Continue, Ops
  <2>4. OneInFlight' /\ DownIsSilent'
    BY <1>2 DEF OneInFlight, DownIsSilent, Empty
  <2>5. OutIsCurrent' /\ PendingHasOperation' /\ SuccessWasApproved'
    BY <1>1, <1>4, <2>2 DEF IInv, OutIsCurrent, PendingHasOperation,
                            SuccessWasApproved, Handler, Continue
  <2> QED BY <2>3, <2>4, <2>5 DEF IInv
<1> QED BY <1>3, <1>4 DEF ReadIdResponse

\* The size line leaves the response on the wire.
LEMMA ReadSizeKeeps == ASSUME IInv, ReadSize PROVE IInv'
<1>1. /\ op = "size_read" /\ op' = "response_read" /\ out' = None
      /\ promise' = promise
      /\ UNCHANGED <<client_type, process, checkin_connected, id_connected,
                     calls, current_request_voter_name, link, reads, approved,
                     requests, responses>>
  BY DEF ReadSize, Handler, Continue
<1>2. TypeOK'
  BY <1>1 DEF IInv, TypeOK, Ops
<1>3. \A s \in Servers : Waits(s)' = Waits(s)
  BY <1>1 DEF Waits, Servers
<1>4. OneInFlight'
  BY <1>1, <1>3 DEF IInv, OneInFlight, Empty, Asked, Answered, Current, Real
<1>5. DownIsSilent' /\ OutIsCurrent' /\ PendingHasOperation'
        /\ SuccessWasApproved'
  BY <1>1 DEF IInv, DownIsSilent, OutIsCurrent, PendingHasOperation,
              SuccessWasApproved
<1> QED BY <1>2, <1>4, <1>5 DEF IInv

\* An answer at hand that makes the verdict success approves this call.
LEMMA VerdictIsReal ==
  ASSUME NEW m \in Responses, Current("checkin", m.to), Real("checkin", m)
  PROVE \/ Verdict(m) = "failure"
        \/ Verdict(m) = "success" /\ \E a \in approved : a.call = calls
  BY DEF Verdict, Current, Real

\* The check-in response that is read answers the current call.
LEMMA ReadCheckinResponseKeeps == ASSUME IInv, ReadCheckinResponse PROVE IInv'
<1> DEFINE m == Head(responses["checkin"])
<1>1. /\ "checkin" \in Servers /\ Waits("checkin") /\ "response_read" \in Ops
      /\ Handler("response_read")
      /\ responses["checkin"] # <<>> /\ Take("checkin") /\ UNCHANGED requests
  BY DEF ReadCheckinResponse, Handler, Waits, Servers, Ops
<1>2. /\ m \in Responses /\ Current("checkin", m.to) /\ Real("checkin", m)
      /\ responses' \in [Servers -> Seq(Responses)]
      /\ \A t \in Servers : Empty(t)'
  BY <1>1, TakeResponse
<1>3. Terminate \/ (UNCHANGED process /\ Fulfil(Verdict(m)))
  BY DEF ReadCheckinResponse
<1> QED BY <1>1, <1>2, <1>3, VerdictIsReal, EndKeeps

\* The ticket response that is read answers the current call.
LEMMA ReadTicketResponseKeeps == ASSUME IInv, ReadTicketResponse PROVE IInv'
<1> DEFINE m == Head(responses["checkin"])
<1>1. /\ "checkin" \in Servers /\ Waits("checkin") /\ "ticket_read" \in Ops
      /\ Handler("ticket_read")
      /\ responses["checkin"] # <<>> /\ Take("checkin") /\ UNCHANGED requests
  BY DEF ReadTicketResponse, Handler, Waits, Servers, Ops
<1>2. /\ m \in Responses /\ Current("checkin", m.to) /\ Real("checkin", m)
      /\ responses' \in [Servers -> Seq(Responses)]
      /\ \A t \in Servers : Empty(t)'
  BY <1>1, TakeResponse
<1>3. UNCHANGED process /\ Fulfil(Verdict(m))
  BY DEF ReadTicketResponse
<1> QED BY <1>1, <1>2, <1>3, VerdictIsReal, EndKeeps

----------------------------------------------------------------------------
(* The servers *)

\* What a server step leaves alone.
ClientIdle ==
  UNCHANGED <<client_type, process, checkin_connected, id_connected, calls,
              current_request_voter_name, promise, op, out, link>>

\* A server takes the one request and gives at most one response to it.
LEMMA ServerKeeps ==
  ASSUME IInv, NEW s \in Servers, ServerStep(s),
         reads' \in [Servers -> BOOLEAN],
         approved \subseteq approved', approved' \subseteq Messages,
         \/ UNCHANGED responses
         \/ \E r \in Responses : /\ r.to = Head(requests[s])
                                 /\ Reply(s, r)
                                 /\ Real(s, r)'
  PROVE IInv'
<1>1. ClientIdle
  BY DEF ServerStep, ClientIdle
<1>2. Asked(s)
  BY DEF ServerStep, IInv, OneInFlight, Empty, Answered
<1>3. PICK m \in Messages : requests[s] = <<m>> /\ Current(s, m)
  BY <1>2 DEF Asked
<1>4. Head(requests[s]) = m /\ requests' = [requests EXCEPT ![s] = <<>>]
  BY <1>3, One DEF ServerStep
<1>5. requests' \in [Servers -> Seq(Messages)]
  BY <1>4, NoneYet DEF IInv, TypeOK
<1>6. \A t \in Servers \ {s} : Empty(t)
  <2>1. \A t \in Servers \ {s} : ~Waits(t)
    BY <1>2 DEF Asked, Waits, Servers
  <2> QED BY <2>1, QuietWire
<1>7. responses' \in [Servers -> Seq(Responses)]
      /\ (\A t \in Servers \ {s} : Empty(t)')
      /\ (Empty(s)' \/ Answered(s)')
  <2>1. CASE UNCHANGED responses
    <3>1. responses' \in [Servers -> Seq(Responses)]
      BY <2>1 DEF IInv, TypeOK
    <3> QED BY <1>2, <1>4, <1>6, <2>1, <3>1 DEF Asked, Empty, IInv, TypeOK
  <2>2. CASE ~UNCHANGED responses
    <3>1. PICK r \in Responses : /\ r.to = m /\ Reply(s, r) /\ Real(s, r)'
      BY <1>4, <2>2
    <3>2. responses' = [responses EXCEPT ![s] = <<r>>]
      BY <1>2, <3>1, One DEF Reply, Asked
    <3>3. responses' \in [Servers -> Seq(Responses)]
      BY <3>2, One DEF IInv, TypeOK
    <3>4. \A t \in Servers \ {s} : Empty(t)'
      BY <1>4, <1>6, <3>2 DEF Empty, IInv, TypeOK
    <3>5. Waits(s)' /\ Current(s, r.to)'
      BY <1>1, <1>2, <1>3, <3>1 DEF ClientIdle, Asked, Waits, Current
    <3>6. requests'[s] = <<>> /\ responses'[s] = <<r>>
      BY <1>4, <3>2 DEF IInv, TypeOK
    <3>7. Answered(s)'
      BY <3>1, <3>5, <3>6 DEF Answered
    <3> QED BY <3>3, <3>4, <3>7
  <2> QED BY <2>1, <2>2
<1>8. TypeOK'
  BY <1>1, <1>5, <1>7 DEF IInv, TypeOK, ClientIdle
<1>9. OneInFlight'
  BY <1>7 DEF OneInFlight
<1>10. DownIsSilent'
  BY <1>1, <1>4 DEF DownIsSilent, ClientIdle, IInv, TypeOK
<1>11. OutIsCurrent' /\ PendingHasOperation' /\ SuccessWasApproved'
  BY <1>1 DEF IInv, OutIsCurrent, PendingHasOperation, SuccessWasApproved,
              ClientIdle
<1> QED BY <1>8, <1>9, <1>10, <1>11 DEF IInv

\* The request a server takes is of the current call.
LEMMA RequestIsCurrent ==
  ASSUME IInv, NEW s \in Servers, ServerStep(s)
  PROVE Head(requests[s]) \in Messages /\ Head(requests[s]).call = calls
<1>1. Asked(s)
  BY DEF ServerStep, IInv, OneInFlight, Empty, Answered
<1> QED BY <1>1, One DEF Asked, Current

\* The ID service answers, rejects silently or sends garbage.
LEMMA IdServerKeeps == ASSUME IInv, IdServer PROVE IInv'
<1> DEFINE m == Head(requests["id"])
<1>1. "id" \in Servers /\ ServerStep("id") /\ UNCHANGED approved
  BY DEF IdServer, Servers
<1>2. reads' \in [Servers -> BOOLEAN] /\ approved \subseteq Messages
  BY DEF IdServer, IInv, TypeOK
<1>3. m \in Messages
  BY <1>1, RequestIsCurrent
<1>4. ASSUME NEW r, NEW form \in Forms, r = Response(m, TRUE, form)
      PROVE r \in Responses /\ r.to = m /\ Real("id", r)'
  BY <1>3, <1>4 DEF Response, Responses, Real
<1>5. \/ UNCHANGED responses
      \/ \E r \in Responses : r.to = m /\ Reply("id", r) /\ Real("id", r)'
  BY <1>4 DEF IdServer
<1> QED BY <1>1, <1>2, <1>5, ServerKeeps

\* The check-in service records the approvals that it signs.
LEMMA AnswerKeeps ==
  ASSUME IInv, ServerStep("checkin"), reads' \in [Servers -> BOOLEAN],
         Answer(Head(requests["checkin"]))
  PROVE IInv'
<1> DEFINE m == Head(requests["checkin"])
<1>1. "checkin" \in Servers
  BY DEF Servers
<1>2. m \in Messages /\ approved \subseteq Messages
  BY <1>1, RequestIsCurrent DEF IInv, TypeOK
<1>3. PICK ok \in BOOLEAN, form \in Forms :
        /\ Reply("checkin", Response(m, ok, form))
        /\ approved' = IF ok /\ form = "signed" THEN approved \cup {m}
                                                ELSE approved
  BY DEF Answer
<1>4. approved \subseteq approved' /\ approved' \subseteq Messages
  BY <1>2, <1>3
<1>5. ASSUME NEW r, r = Response(m, ok, form)
      PROVE r \in Responses /\ r.to = m /\ Real("checkin", r)'
  BY <1>2, <1>3, <1>5 DEF Response, Responses, Real
<1> QED BY <1>1, <1>3, <1>4, <1>5, ServerKeeps

\* Check-in requests are always answered.
LEMMA CheckinServerKeeps == ASSUME IInv, CheckinServer PROVE IInv'
<1>1. reads' \in [Servers -> BOOLEAN]
  BY DEF CheckinServer, IInv, TypeOK
<1> QED BY <1>1, AnswerKeeps DEF CheckinServer

\* Ticket requests are answered or refused silently.
LEMMA TicketServerKeeps == ASSUME IInv, TicketServer PROVE IInv'
<1>1. reads' \in [Servers -> BOOLEAN] /\ "checkin" \in Servers
      /\ approved \subseteq Messages
  BY DEF TicketServer, IInv, TypeOK, Servers
<1>2. CASE Answer(Head(requests["checkin"]))
  BY <1>1, <1>2, AnswerKeeps DEF TicketServer
<1>3. CASE UNCHANGED <<responses, approved>>
  BY <1>1, <1>3, ServerKeeps DEF TicketServer
<1> QED BY <1>2, <1>3 DEF TicketServer

\* A lost link takes what was on it.
LEMMA LinkDownKeeps == ASSUME IInv, NEW s \in Servers, LinkDown(s) PROVE IInv'
<1>1. <<>> \in Seq(Messages) /\ <<>> \in Seq(Responses)
  BY NoneYet
<1>2. /\ requests' \in [Servers -> Seq(Messages)]
      /\ responses' \in [Servers -> Seq(Responses)]
  BY <1>1 DEF LinkDown, IInv, TypeOK
<1>3. TypeOK'
  BY <1>2 DEF LinkDown, IInv, TypeOK
<1>4. ASSUME NEW t \in Servers PROVE (Empty(t) \/ Asked(t) \/ Answered(t))'
  <2>1. Empty(t) \/ Asked(t) \/ Answered(t)
    BY DEF IInv, OneInFlight
  <2>2. /\ requests'[t] = IF t = s THEN <<>> ELSE requests[t]
        /\ responses'[t] = responses[t] \/ (t = s /\ responses'[t] = <<>>)
        /\ UNCHANGED <<calls, current_request_voter_name, op, approved>>
    BY DEF LinkDown, IInv, TypeOK
  <2> QED BY <2>1, <2>2 DEF Empty, Asked, Answered, Waits, Current, Real
<1>5. DownIsSilent'
  BY DEF LinkDown, IInv, DownIsSilent, TypeOK
<1>6. OutIsCurrent' /\ PendingHasOperation' /\ SuccessWasApproved'
  BY DEF LinkDown, IInv, OutIsCurrent, PendingHasOperation, SuccessWasApproved
<1> QED BY <1>3, <1>4, <1>5, <1>6 DEF IInv, OneInFlight

----------------------------------------------------------------------------
(* The inductive invariant and what follows from it *)

\* Every step of the caller, the network thread, the servers and the links.
LEMMA NextIInv == IInv /\ [Next]_vars => IInv'
<1> SUFFICES ASSUME IInv, [Next]_vars PROVE IInv'
  OBVIOUS
<1>1. ASSUME NEW s \in Servers, Connect(s) \/ LinkDown(s) PROVE IInv'
  BY <1>1, ConnectKeeps, LinkDownKeeps
<1>2. ASSUME NEW v \in Voters, check_in_voter(v) PROVE IInv'
  BY <1>2, BeginKeeps DEF check_in_voter
<1>3. ASSUME NEW v \in Voters, verify_ticket(v) PROVE IInv'
  <2>1. current_request_voter_name' \in Voters \cup {None}
    BY <1>3 DEF verify_ticket, IInv, TypeOK
  <2> QED BY <1>3, <2>1, BeginKeeps DEF verify_ticket
<1>4. CASE NetworkThread
  <2>1. "id" \in Servers /\ "checkin" \in Servers
    BY DEF Servers
  <2>2. CASE Written("id_write", "id", "id_read")
    BY <2>1, <2>2, WrittenKeeps
  <2>3. CASE Written("checkin_write", "checkin", "size_read")
    BY <2>1, <2>3, WrittenKeeps
  <2>4. CASE Written("ticket_write", "checkin", "ticket_read")
    BY <2>1, <2>4, WrittenKeeps
  <2>5. CASE ReadError("id_read", "id")
    BY <2>1, <2>5, ReadErrorKeeps DEF Ops
  <2>6. ASSUME NEW o \in {"size_read", "response_read", "ticket_read"},
               ReadError(o, "checkin")
        PROVE IInv'
    BY <2>1, <2>6, ReadErrorKeeps DEF Ops
  <2>7. CASE ReadIdResponse
    BY <2>7, ReadIdResponseKeeps
  <2>8. CASE ReadSize
    BY <2>8, ReadSizeKeeps
  <2>9. CASE ReadCheckinResponse
    BY <2>9, ReadCheckinResponseKeeps
  <2>10. CASE ReadTicketResponse
    BY <2>10, ReadTicketResponseKeeps
  <2> QED BY <1>4, <2>2, <2>3, <2>4, <2>5, <2>6, <2>7, <2>8, <2>9, <2>10
          DEF NetworkThread
<1>5. CASE IdServer \/ CheckinServer \/ TicketServer
  BY <1>5, IdServerKeeps, CheckinServerKeeps, TicketServerKeeps
<1>6. CASE UNCHANGED vars
  <2>1. UNCHANGED <<client_type, process, checkin_connected, id_connected,
                    calls, current_request_voter_name, promise, op, out, link,
                    reads, requests, responses, approved>>
    BY <1>6 DEF vars, net
  <2>2. TypeOK' /\ PendingHasOperation' /\ SuccessWasApproved'
    BY <2>1 DEF IInv, TypeOK, PendingHasOperation, SuccessWasApproved
  <2>3. OutIsCurrent' /\ DownIsSilent'
    BY <2>1 DEF IInv, OutIsCurrent, DownIsSilent
  <2>4. OneInFlight'
    BY <2>1 DEF IInv, OneInFlight, Empty, Asked, Answered, Waits, Current, Real
  <2> QED BY <2>2, <2>3, <2>4 DEF IInv
<1> QED BY <1>1, <1>2, <1>3, <1>4, <1>5, <1>6 DEF Next

\* The invariant holds in every reachable state.
LEMMA Invariance == Spec => []IInv
  BY InitIInv, NextIInv, PTL DEF Spec

\* Every state of the client library has the types of TypeOK: in particular
\* every message on a wire is a whole message, never a moved-from one.
THEOREM TypeCorrect == Spec => []TypeOK
<1>1. IInv => TypeOK
  BY DEF IInv
<1> QED BY <1>1, Invariance, PTL

\* The promise is pending exactly while an operation is outstanding, whatever
\* fails: no error path loses the promise or fulfils it twice.
THEOREM PromiseHasOperation == Spec => []PendingHasOperation
<1>1. IInv => PendingHasOperation
  BY DEF IInv
<1> QED BY <1>1, Invariance, PTL

\* A check-in request is about the voter whose name the current call stored.
THEOREM NameMatches == Spec => []NameMatchesVoter
<1>1. IInv => NameMatchesVoter
  BY DEF IInv, OutIsCurrent, NameMatchesVoter
<1> QED BY <1>1, Invariance, PTL

----------------------------------------------------------------------------
(* The library implements ClientCall *)

\* A fulfilled promise, seen by the caller.
LEMMA FulfilIsEnd ==
  ASSUME IInv, IInv', op # "none", process = "up", UNCHANGED <<calls, approved>>,
         NEW result \in {"success", "failure"}, Fulfil(result)
  PROVE Abstract!Next
<1>1. promise = "pending" /\ promise' = result
  BY DEF IInv, PendingHasOperation, Fulfil
<1>2. ApprovedCalls' = ApprovedCalls
  BY DEF ApprovedCalls
<1>3. CASE result = "failure"
  BY <1>1, <1>2, <1>3 DEF Abstract!Next, Abstract!Fail
<1>4. CASE result = "success"
  <2>1. calls \in ApprovedCalls
    BY <1>1, <1>4 DEF IInv, SuccessWasApproved, ApprovedCalls
  <2> QED BY <1>1, <1>2, <1>4, <2>1 DEF Abstract!Next, Abstract!Succeed
<1> QED BY <1>3, <1>4

\* An answer of the check-in service, seen by the caller.
LEMMA AnswerIsApprove ==
  ASSUME IInv, ServerStep("checkin"), Answer(Head(requests["checkin"]))
  PROVE Abstract!Next \/ UNCHANGED Abstract!vars
<1> DEFINE m == Head(requests["checkin"])
<1>1. m \in Messages /\ m.call = calls
  BY RequestIsCurrent DEF Servers
<1>2. calls \in 1 .. calls
  BY <1>1, ClientAssumption DEF Messages
<1>3. UNCHANGED <<calls, promise>>
  BY DEF ServerStep
<1>4. CASE approved' = approved \cup {m}
  <2>1. ApprovedCalls' = ApprovedCalls \cup {calls}
    BY <1>1, <1>4 DEF ApprovedCalls
  <2> QED BY <1>2, <1>3, <2>1 DEF Abstract!Next, Abstract!Approve
<1>5. CASE approved' = approved
  BY <1>3, <1>5 DEF Abstract!vars, ApprovedCalls
<1> QED BY <1>4, <1>5 DEF Answer

\* Every step is one of the abstract call, or invisible.
LEMMA StepImplements ==
  ASSUME IInv, IInv', [Next]_vars PROVE [Abstract!Next]_(Abstract!vars)
<1>1. ASSUME UNCHANGED <<calls, promise, approved>>
      PROVE UNCHANGED Abstract!vars
  BY <1>1 DEF Abstract!vars, ApprovedCalls
<1>2. ASSUME NEW s \in Servers, Connect(s) \/ LinkDown(s)
      PROVE UNCHANGED Abstract!vars
  BY <1>1, <1>2 DEF Connect, LinkDown
<1>3. ASSUME NEW v \in Voters, check_in_voter(v) \/ verify_ticket(v)
      PROVE Abstract!Next
  BY <1>3 DEF check_in_voter, verify_ticket, Begin, Abstract!Next,
              Abstract!Start, ApprovedCalls
<1>4. CASE NetworkThread
  <2>1. op # "none" /\ process = "up" /\ UNCHANGED <<calls, approved>>
    BY <1>4 DEF NetworkThread, Written, ReadError, ReadIdResponse, ReadSize,
                ReadCheckinResponse, ReadTicketResponse, Handler
  <2>2. \A m : Verdict(m) \in {"success", "failure"}
    BY DEF Verdict
  <2>3. UNCHANGED promise \/ Fulfil("failure") \/ \E m : Fulfil(Verdict(m))
    BY <1>4 DEF NetworkThread, Written, ReadError, ReadIdResponse, ReadSize,
                ReadCheckinResponse, ReadTicketResponse, Continue, Terminate
  <2> QED BY <1>1, <2>1, <2>2, <2>3, FulfilIsEnd
<1>5. CASE IdServer
  BY <1>1, <1>5 DEF IdServer, ServerStep
<1>6. CASE CheckinServer
  BY <1>6, AnswerIsApprove DEF CheckinServer
<1>7. CASE TicketServer
  <2>1. CASE Answer(Head(requests["checkin"]))
    BY <1>7, <2>1, AnswerIsApprove DEF TicketServer
  <2>2. CASE UNCHANGED <<responses, approved>>
    BY <1>1, <1>7, <2>2 DEF TicketServer, ServerStep
  <2> QED BY <1>7, <2>1, <2>2 DEF TicketServer
<1>8. CASE UNCHANGED vars
  BY <1>1, <1>8 DEF vars
<1> QED BY <1>2, <1>3, <1>4, <1>5, <1>6, <1>7, <1>8 DEF Next

\* The library implements ClientCall, for every behaviour of the servers and
\* the connections: success is reported for the approved call and no other.
THEOREM Implements == Spec => ImplementsCall
<1>1. Init => Abstract!Init
  BY DEF Init, Abstract!Init, ApprovedCalls
<1>2. IInv /\ IInv' /\ [Next]_vars => [Abstract!Next]_(Abstract!vars)
  BY StepImplements
<1> QED BY <1>1, <1>2, Invariance, PTL DEF Spec, ImplementsCall, Abstract!Spec
=============================================================================
