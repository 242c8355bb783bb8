--------------------------- MODULE PollbookClient ---------------------------
(***************************************************************************)
(* The client library of a kiosk or of a trusted device.  A caller thread  *)
(* starts a request and waits on a future; the network thread carries it   *)
(* through a chain of asynchronous writes and reads on the two server      *)
(* connections and fulfils current_request_promise at the end of it.       *)
(*                                                                         *)
(* The two servers are modelled by what they do on one connection: the ID  *)
(* service answers at most one request and rejects silently; the check-in  *)
(* service answers every check-in request, reads on only after those, and  *)
(* may refuse a ticket request without an answer.                          *)
(*                                                                         *)
(* "Only one check-in request can be in progress at any time": the caller  *)
(* keeps to that and calls again only when the promise is fulfilled.       *)
(***************************************************************************)
EXTENDS Naturals, Sequences

CONSTANTS Voters,     \* the voters a caller may name
          MaxCalls,   \* bound: how often the caller starts a request
          None

ASSUME ClientAssumption == MaxCalls \in Nat /\ None \notin Voters

VARIABLES
  client_type,        \* how the check-in service classifies this client
  process,            \* "up", or "terminated" by an exception in the thread
  checkin_connected,
  id_connected,
  calls,              \* how many requests the caller has started
  current_request_voter_name,
  promise,            \* "none", "pending", "success" or "failure"
  op,                 \* the outstanding asynchronous operation
  out,                \* the message that op is writing
  link,               \* server -> "up", "down"
  reads,              \* server -> it still reads from this connection
  requests,           \* server -> requests on the wire
  responses,          \* server -> responses on the wire
  approved            \* the approvals the check-in service has given

Servers == {"id", "checkin"}
Ops == {"none", "id_write", "id_read", "checkin_write", "size_read",
        "response_read", "ticket_write", "ticket_read"}

net == <<link, reads, requests, responses>>
vars == <<client_type, process, checkin_connected, id_connected, calls,
          current_request_voter_name, promise, op, out, net, approved>>

Init ==
  /\ client_type \in {"UntrustedClient", "TrustedClient"}
  /\ process = "up"
  /\ checkin_connected = FALSE
  /\ id_connected = FALSE
  /\ calls = 0
  /\ current_request_voter_name = None
  /\ promise = "none"
  /\ op = "none"
  /\ out = None
  /\ link = [s \in Servers |-> "down"]
  /\ reads = [s \in Servers |-> FALSE]
  /\ requests = [s \in Servers |-> <<>>]
  /\ responses = [s \in Servers |-> <<>>]
  /\ approved = {}

\* Mutant of Message: it is serialised after its body was moved from.
MessageMovedFrom(kind, v) == [kind |-> kind, call |-> calls, voter |-> None]

\* A message names the call it belongs to and the voter it is about.
Message(kind, v) == [kind |-> kind, call |-> calls, voter |-> v]

\* A response is signed properly, does not verify, or makes the parser (or
\* OpenSSL, on its signature) throw.
Forms == {"signed", "unsigned", "garbled"}
Response(m, ok, form) == [to |-> m, approved |-> ok, form |-> form]

----------------------------------------------------------------------------
(* The caller thread *)

\* make_handshake blocks; a failure throws to the caller and changes nothing.
Connect(s) ==
  /\ process = "up" /\ op = "none" /\ promise = "none"
  /\ IF s = "checkin" THEN ~checkin_connected ELSE ~id_connected
  /\ checkin_connected' = (checkin_connected \/ s = "checkin")
  /\ id_connected' = (id_connected \/ s = "id")
  /\ link' = [link EXCEPT ![s] = "up"]
  /\ reads' = [reads EXCEPT ![s] = TRUE]
  /\ UNCHANGED <<client_type, process, calls, current_request_voter_name,
                 promise, op, out, requests, responses, approved>>

\* A call resets the promise and starts the first write.
Begin(kind, write, v) ==
  /\ process = "up" /\ promise # "pending"
  /\ calls < MaxCalls
  /\ calls' = calls + 1
  /\ promise' = "pending"
  /\ op' = write
  /\ out' = [kind |-> kind, call |-> calls', voter |-> v]
  /\ UNCHANGED <<client_type, process, checkin_connected, id_connected, net,
                 approved>>

\* Mutant of check_in_voter: the name of the earlier call is kept.
check_in_voter_keeps_name(v) ==
  /\ checkin_connected /\ id_connected
  /\ Begin("id", "id_write", v)
  /\ UNCHANGED current_request_voter_name

check_in_voter(v) ==
  /\ checkin_connected /\ id_connected
  /\ Begin("id", "id_write", v)
  /\ current_request_voter_name' = v

\* The ticket stands for the voter it was issued to.
verify_ticket(v) ==
  /\ checkin_connected
  /\ Begin("ticket", "ticket_write", v)
  /\ UNCHANGED current_request_voter_name

----------------------------------------------------------------------------
(* The network thread: completion handlers *)

Fulfil(result) == promise' = result /\ op' = "none" /\ out' = None
Continue(next, m) == op' = next /\ out' = m /\ UNCHANGED promise

Handler(o) ==
  /\ process = "up" /\ op = o
  /\ UNCHANGED <<client_type, checkin_connected, id_connected, calls,
                 current_request_voter_name, link, reads, approved>>

\* The three write handlers: the message is on the wire and the read starts,
\* or the promise is fulfilled with a network error.
Written(o, s, next) ==
  /\ Handler(o)
  /\ \/ /\ link[s] = "up"
        /\ requests' = [requests EXCEPT ![s] = Append(@, out)]
        /\ Continue(next, None)
     \/ /\ link[s] = "down"
        /\ Fulfil("failure")
        /\ UNCHANGED requests
  /\ UNCHANGED <<process, responses>>

\* Mutant of ReadError: the error is only logged.
ReadErrorLogs(o, s) ==
  /\ Handler(o)
  /\ link[s] = "down" /\ responses[s] = <<>>
  /\ Continue("none", None)
  /\ UNCHANGED <<process, requests, responses>>

\* Every read handler fulfils the promise when the connection fails.
ReadError(o, s) ==
  /\ Handler(o)
  /\ link[s] = "down" /\ responses[s] = <<>>
  /\ Fulfil("failure")
  /\ UNCHANGED <<process, requests, responses>>

\* The exception of a handler leaves the thread function: std::terminate.
Terminate ==
  /\ process' = "terminated"
  /\ UNCHANGED <<promise, op, out>>

\* Mutant of Take: the response stays in the buffer for the next read.
TakeLeaves(s) == UNCHANGED responses

Take(s) == responses' = [responses EXCEPT ![s] = Tail(@)]

\* handle_id_response: the check-in request repeats the voter that the ID
\* service matched; the name is the one stored by check_in_voter.
ReadIdResponse ==
  LET m == Head(responses["id"]) IN
  /\ Handler("id_read")
  /\ responses["id"] # <<>>
  /\ Take("id")
  /\ \/ /\ m.form = "garbled"
        /\ Terminate
     \/ /\ m.form = "unsigned"
        /\ Fulfil("failure")
        /\ UNCHANGED process
     \/ /\ m.form = "signed"
        /\ Continue("checkin_write", Message("checkin", m.to.voter))
        /\ UNCHANGED process
  /\ UNCHANGED requests

\* Mutant of ReadSize: the size read is started again, not the response read.
ReadSizeAgain ==
  /\ Handler("size_read")
  /\ responses["checkin"] # <<>>
  /\ Continue("size_read", None)
  /\ UNCHANGED <<process, requests, responses>>

\* The size line of a check-in response; what it says is not used.
ReadSize ==
  /\ Handler("size_read")
  /\ responses["checkin"] # <<>>
  /\ Continue("response_read", None)
  /\ UNCHANGED <<process, requests, responses>>

\* handle_checkin_response, and the same decision for a ticket response.
Verdict(m) ==
  IF m.form = "signed" /\ m.approved THEN "success" ELSE "failure"

ReadCheckinResponse ==
  LET m == Head(responses["checkin"]) IN
  /\ Handler("response_read")
  /\ responses["checkin"] # <<>>
  /\ Take("checkin")
  /\ \/ /\ m.form = "garbled"
        /\ Terminate
     \/ /\ m.form # "garbled"
        /\ Fulfil(Verdict(m))
        /\ UNCHANGED process
  /\ UNCHANGED requests

\* start_verify_ticket_response_read catches what the parser throws.
ReadTicketResponse ==
  LET m == Head(responses["checkin"]) IN
  /\ Handler("ticket_read")
  /\ responses["checkin"] # <<>>
  /\ Take("checkin")
  /\ Fulfil(Verdict(m))
  /\ UNCHANGED <<process, requests>>

----------------------------------------------------------------------------
(* The servers, on these connections *)

ServerStep(s) ==
  /\ link[s] = "up" /\ reads[s] /\ requests[s] # <<>>
  /\ requests' = [requests EXCEPT ![s] = Tail(@)]
  /\ UNCHANGED <<client_type, process, checkin_connected, id_connected, calls,
                 current_request_voter_name, promise, op, out, link>>

Reply(s, r) == responses' = [responses EXCEPT ![s] = Append(@, r)]

\* handle_validation_request: an answer or none, and no other read.
IdServer ==
  LET m == Head(requests["id"]) IN
  /\ ServerStep("id")
  /\ reads' = [reads EXCEPT !["id"] = FALSE]
  /\ \/ \E form \in Forms : Reply("id", Response(m, TRUE, form))
     \/ UNCHANGED responses
  /\ UNCHANGED approved

\* An answer to m.  One that does not verify is no approval of the service.
Answer(m) ==
  \E ok \in BOOLEAN, form \in Forms :
    /\ Reply("checkin", Response(m, ok, form))
    /\ approved' = IF ok /\ form = "signed" THEN approved \cup {m}
                                            ELSE approved

\* handle_checkin_request answers and starts the next read.  (On a ticket
\* request FromJson throws and the service ends: LinkDown.)
CheckinServer ==
  LET m == Head(requests["checkin"]) IN
  /\ ServerStep("checkin")
  /\ client_type = "UntrustedClient" /\ m.kind = "checkin"
  /\ Answer(m)
  /\ UNCHANGED reads

\* handle_trusted_client: an answer or none, and no other read.  A check-in
\* request does not parse as a ticket request.
TicketServer ==
  LET m == Head(requests["checkin"]) IN
  /\ ServerStep("checkin")
  /\ client_type = "TrustedClient"
  /\ reads' = [reads EXCEPT !["checkin"] = FALSE]
  /\ \/ m.kind = "ticket" /\ Answer(m)
     \/ UNCHANGED <<responses, approved>>

\* A connection goes down; what is on the wire may be lost.  The server may
\* have approved a request that is lost with it.
LinkDown(s) ==
  /\ link[s] = "up"
  /\ link' = [link EXCEPT ![s] = "down"]
  /\ reads' = [reads EXCEPT ![s] = FALSE]
  /\ requests' = [requests EXCEPT ![s] = <<>>]
  /\ \/ responses' = [responses EXCEPT ![s] = <<>>]
     \/ UNCHANGED responses
  /\ UNCHANGED <<client_type, process, checkin_connected, id_connected, calls,
                 current_request_voter_name, promise, op, out, approved>>

----------------------------------------------------------------------------
NetworkThread ==
  \/ Written("id_write", "id", "id_read")
  \/ Written("checkin_write", "checkin", "size_read")
  \/ Written("ticket_write", "checkin", "ticket_read")
  \/ ReadError("id_read", "id")
  \/ \E o \in {"size_read", "response_read", "ticket_read"} :
       ReadError(o, "checkin")
  \/ ReadIdResponse
  \/ ReadSize
  \/ ReadCheckinResponse
  \/ ReadTicketResponse

Next ==
  \/ \E s \in Servers : Connect(s) \/ LinkDown(s)
  \/ \E v \in Voters : check_in_voter(v) \/ verify_ticket(v)
  \/ NetworkThread
  \/ IdServer
  \/ CheckinServer
  \/ TicketServer

\* The io_context thread runs what is ready (the work guard keeps it in run());
\* servers and callers promise nothing.
Spec == Init /\ [][Next]_vars /\ WF_vars(NetworkThread)

----------------------------------------------------------------------------
(* Properties *)

Messages == [kind : {"id", "checkin", "ticket"}, call : 1 .. MaxCalls,
             voter : Voters]
Responses == [to : Messages, approved : BOOLEAN, form : Forms]

\* Type correctness.
TypeOK ==
  /\ client_type \in {"UntrustedClient", "TrustedClient"}
  /\ process \in {"up", "terminated"}
  /\ checkin_connected \in BOOLEAN
  /\ id_connected \in BOOLEAN
  /\ calls \in 0 .. MaxCalls
  /\ current_request_voter_name \in Voters \cup {None}
  /\ promise \in {"none", "pending", "success", "failure"}
  /\ op \in Ops
  /\ out \in Messages \cup {None}
  /\ link \in [Servers -> {"up", "down"}]
  /\ reads \in [Servers -> BOOLEAN]
  /\ requests \in [Servers -> Seq(Messages)]
  /\ responses \in [Servers -> Seq(Responses)]
  /\ approved \subseteq Messages

\* The promise waits exactly while one operation is outstanding: no path of
\* the chain drops it, and none leaves a handler behind that would fulfil it
\* twice (set_value would throw) or fulfil the promise of a later call.
PendingHasOperation ==
  process = "up" => (promise = "pending" <=> op # "none")

\* The calls the check-in service has approved, and the abstract client.
ApprovedCalls == {m.call : m \in approved}
Abstract == INSTANCE ClientCall WITH call <- calls, approved <- ApprovedCalls

\* The library implements ClientCall: a promise is fulfilled once and for the
\* call it belongs to, and success is reported only for a call that was
\* approved, never for an answer to an earlier call.
ImplementsCall == Abstract!Spec

\* A check-in request names in its body the voter whose ID was verified for
\* the name stored by the same call.
NameMatchesVoter ==
  op = "checkin_write" => out.voter = current_request_voter_name

\* "The future will be fulfilled when the check-in service responds": a
\* response on the wire, or a lost connection, ends the wait.
ResponseFulfils ==
  /\ responses["checkin"] # <<>> ~> promise # "pending" \/ process # "up"
  /\ link["checkin"] = "down" /\ op \in {"size_read", "response_read",
                                         "ticket_read"}
       ~> promise # "pending" \/ process # "up"
=============================================================================
