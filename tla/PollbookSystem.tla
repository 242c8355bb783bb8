--------------------------- MODULE PollbookSystem ---------------------------
(***************************************************************************)
(* The polling place as a whole: kiosks and trusted devices that run the   *)
(* client library, the network between them and the check-in service, the  *)
(* service itself (CheckinService), and its fault tracker with the cleanup *)
(* thread (FaultTracker).                                                  *)
(*                                                                         *)
(* Every client is honest: it signs what it sends and names itself.  What  *)
(* goes wrong is delay, a lost request or response, a voter who comes late *)
(* or mistypes the PIN, and the end of the service's process.  A client is *)
(* modelled by ClientCall, which the library implements: one call at a     *)
(* time, and the answer it gets belongs to that call.                      *)
(***************************************************************************)
EXTENDS CheckinService, FiniteSets

CONSTANTS Pins,               \* the PINs that voters type
          cleanup_threshold,
          SLEEP

VARIABLES
  conn,       \* client -> the start of the service it asks in its call, or 0
  outbox,     \* client -> its request on the way to the service, or None
  inbox,      \* client -> the response on the way to it, or None
  shown,      \* the tickets that kiosks have shown to voters
  admitted,   \* voter -> approvals that devices got from the running service
  clientMap, wake, reported

clientVars == <<conn, outbox, inbox, shown, admitted>>
trackerVars == <<clientMap, wake, reported>>
systemVars == <<vars, clientVars, trackerVars>>

Tracker == INSTANCE FaultTracker WITH clock <- now, NoRecord <- None

\* What the client library sends for its caller, stamped with the time.
CheckinRequest(k, v) ==
  [client_id_num |-> k, signed_by |-> k, voter |-> v, verified_voter |-> v,
   id_signed |-> TRUE, ts |-> now]
TicketRequest(d, t, pin) ==
  [client_id |-> d, signed_by |-> d, ticket |-> t, pin |-> pin, ts |-> now]

ASSUME SystemAssumption ==
  /\ Pins \subseteq Nat
  /\ cleanup_threshold \in Nat
  /\ SLEEP \in Nat \ {0}
  /\ None \notin Nat
  /\ None \notin [kind : {"checkin", "ticket"}, to : Clients,
                  approved : BOOLEAN, voter : Uids, ticket : Tickets \cup {None}]
  /\ \A k \in Kiosks, v \in Uids, t \in Epoch .. MaxTime :
       [client_id_num |-> k, signed_by |-> k, voter |-> v,
        verified_voter |-> v, id_signed |-> TRUE, ts |-> t]
         \in CheckinRequests \ {None}
  /\ \A d \in Trusted, s \in Tickets, pin \in Pins, t \in Epoch .. MaxTime :
       [client_id |-> d, signed_by |-> d, ticket |-> s, pin |-> pin, ts |-> t]
         \in TicketRequests \ {None}

SystemInit ==
  /\ Init
  /\ conn = [c \in Clients |-> 0]
  /\ outbox = [c \in Clients |-> None]
  /\ inbox = [c \in Clients |-> None]
  /\ shown = {}
  /\ admitted = [v \in Roll |-> 0]
  /\ Tracker!TrackerInit

----------------------------------------------------------------------------
(* The clients *)

\* A client connects, if it has to, and its caller starts a call.
Call(c, r) ==
  /\ running = "up"
  /\ conn[c] = 0
  /\ conn' = [conn EXCEPT ![c] = boot]
  /\ outbox' = [outbox EXCEPT ![c] = r]
  /\ UNCHANGED <<vars, inbox, shown, admitted, trackerVars>>

\* check_in_voter, past the ID service.  The bound on tickets leaves one for
\* every request that is under way.
CheckIn(k, v) ==
  /\ drawn + Cardinality({j \in Kiosks : outbox[j] # None}) < MaxTickets
  /\ Call(k, CheckinRequest(k, v))

\* verify_ticket: the voter presents a ticket some kiosk has shown.
Present(d, s, pin) == s \in shown /\ Call(d, TicketRequest(d, s.ticket, pin))

\* The call ends with the response, success if it is an approval.
Receive(c) ==
  /\ inbox[c] # None
  /\ conn' = [conn EXCEPT ![c] = 0]
  /\ inbox' = [inbox EXCEPT ![c] = None]
  /\ shown' = IF c \in Kiosks /\ inbox[c].approved
              THEN shown \cup {[ticket |-> inbox[c].ticket,
                                voter |-> inbox[c].voter, boot |-> conn[c]]}
              ELSE shown
  /\ admitted' = IF c \in Trusted /\ inbox[c].approved /\ conn[c] = boot
                 THEN [admitted EXCEPT ![inbox[c].voter] = @ + 1]
                 ELSE admitted
  /\ UNCHANGED <<vars, outbox, trackerVars>>

\* The connection breaks and the call ends with a network error.
Lose(c) ==
  /\ conn[c] # 0
  /\ conn' = [conn EXCEPT ![c] = 0]
  /\ outbox' = [outbox EXCEPT ![c] = None]
  /\ inbox' = [inbox EXCEPT ![c] = None]
  /\ UNCHANGED <<vars, shown, admitted, trackerVars>>

----------------------------------------------------------------------------
(* The service *)

\* What a step of the service reports goes to the fault tracker.
Track == IF fault' = None THEN UNCHANGED trackerVars
                          ELSE Tracker!reportFault(fault')

\* The service has read the request of c on a connection of this process.
Arrived(c) == outbox[c] # None /\ conn[c] = boot

Serve(c) ==
  /\ outbox' = [outbox EXCEPT ![c] = None]
  /\ inbox' = [inbox EXCEPT ![c] = IF reply' = NoReply THEN None ELSE reply']
  /\ Track
  /\ UNCHANGED <<conn, shown, admitted>>

ServeKiosk(k) ==
  /\ Arrived(k)
  /\ AcceptCheckin(k, outbox[k]) \/ RejectCheckin(k, outbox[k])
  /\ Serve(k)

ServeDevice(d) ==
  /\ Arrived(d)
  /\ \/ RejectTicket(d, outbox[d])
     \/ DenyPin(d, outbox[d])
     \/ DenyWindow(d, outbox[d])
     \/ RedeemTicket(d, outbox[d])
  /\ Serve(d)

ServiceAlone ==
  /\ (\E v \in Roll : ExpireTimer(v) \/ handle_verification_timeout(v))
       \/ Tick \/ Kill
  /\ UNCHANGED <<clientVars, trackerVars>>

\* A new process: the fault records are gone, and nobody is admitted by it.
Restart ==
  /\ Start
  /\ clientMap' = Tracker!NoRecords
  /\ wake' = now
  /\ reported' = Tracker!NoRecords
  /\ admitted' = [v \in Roll |-> 0]
  /\ UNCHANGED <<conn, outbox, inbox, shown>>

\* The cleanup thread.
Cleanup ==
  /\ running = "up"
  /\ Tracker!CleanupRound
  /\ UNCHANGED <<vars, clientVars>>

SystemNext ==
  \/ \E k \in Kiosks, v \in Uids : CheckIn(k, v)
  \/ \E d \in Trusted, s \in shown, pin \in Pins : Present(d, s, pin)
  \/ \E c \in Clients : Receive(c) \/ Lose(c)
  \/ \E k \in Kiosks : ServeKiosk(k)
  \/ \E d \in Trusted : ServeDevice(d)
  \/ ServiceAlone
  \/ Restart
  \/ Cleanup

SystemSpec == SystemInit /\ [][SystemNext]_systemVars

\* A broken connection is noticed.
Broken(c) == (conn[c] # boot \/ running # "up") /\ Lose(c)

\* The threads of the service run, responses arrive or their connection
\* breaks, and time passes.
FairSystem ==
  /\ SystemSpec
  /\ WF_systemVars(ServiceAlone /\ Tick)
  /\ WF_systemVars(Cleanup)
  /\ \A k \in Kiosks : WF_systemVars(ServeKiosk(k))
  /\ \A c \in Clients : WF_systemVars(Receive(c)) /\ WF_systemVars(Broken(c))

----------------------------------------------------------------------------
(* Properties *)

\* Type correctness.  Its substance: a ticket on a voter's screen is a ticket,
\* of a voter of the roll, no mail is left on a closed connection, and a call
\* waits for the service or for the network, never for both.
SystemTypeOK ==
  /\ conn \in [Clients -> Nat]
  /\ outbox \in [Clients -> CheckinRequests \cup TicketRequests \cup {None}]
  /\ inbox \in [Clients -> (Replies \ {NoReply}) \cup {None}]
  /\ \A c \in Clients :
       /\ conn[c] = 0 => outbox[c] = None /\ inbox[c] = None
       /\ outbox[c] = None \/ inbox[c] = None
  /\ shown \subseteq [ticket : Tickets, voter : Roll, boot : Nat]
  /\ admitted \in [Roll -> Nat]
  /\ clientMap \in [Clients -> Nat \cup {None}]
  /\ wake \in Nat
  /\ reported \in [Clients -> Nat \cup {None}]

\* Whoever a device lets in is CHECKED_IN, and no second device lets the same
\* voter in, however late the approvals arrive, as long as the process lives.
AdmittedOnce ==
  \A v \in Roll : /\ admitted[v] <= 1
                  /\ admitted[v] = 1 => voter_status_table[v] = "CHECKED_IN"

\* A ticket that the running service gave out and a voter holds stands in its
\* memory for that voter, also when its line did not reach the file.
ShownTicketsKnown ==
  \A s \in shown : s.boot = boot => client_tickets_map[s.ticket] = s.voter

\* The service is about to refuse an in-time request because its voter is
\* PENDING or CHECKED_IN.
VoterTaken(k) ==
  /\ Arrived(k)
  /\ PassesValidation(outbox[k])
  /\ outbox[k].voter \in Roll /\ ~Eligible(outbox[k].voter)

BlamesForTakenVoterOnly ==
  \A k \in Kiosks : clientMap'[k] \notin {clientMap[k], None} => VoterTaken(k)

\* The network cannot put a kiosk on record: requests that arrive too late or
\* get lost, calls repeated after a lost response, unknown voters and other
\* clients' requests give no kiosk a fault record.  Left open is only the refusal
\* because of the voter's status, on which the repository's documents disagree
\* (RaceLoserRecorded).  (A device can get a record: for a late ticket.)
KiosksNotBlamed == [][BlamesForTakenVoterOnly]_systemVars

\* A client that was reported within the threshold has a record, however old
\* its first fault is: the cleanup never removes a record just refreshed.
RecentFaultsKept ==
  \A c \in Clients :
    reported[c] # None /\ now - reported[c] <= cleanup_threshold =>
      clientMap[c] # None

\* A record without new faults goes: within the model's time, a report that
\* leaves room for the threshold and one sleep is removed or renewed, unless
\* the process ends.
OldRecordsGo ==
  \A c \in Clients, t \in Epoch .. MaxTime - cleanup_threshold - SLEEP :
    clientMap[c] = t ~> clientMap[c] # t \/ running # "up"

\* The call of a kiosk ends: every check-in request is answered, or its
\* connection breaks.  (A device can wait for ever: refused ticket requests
\* are not answered.)
KioskCallsEnd == \A k \in Kiosks : conn[k] # 0 ~> conn[k] = 0

----------------------------------------------------------------------------
(* A statement of a test that the code does not keep. *)

\* Another kiosk has just won the voter: its approval is still on the way.
LosesRace(k) ==
  /\ VoterTaken(k)
  /\ \E j \in Kiosks : /\ inbox[j] # None
                       /\ inbox[j].approved
                       /\ inbox[j].voter = outbox[k].voter

RecordsLoser ==
  \A k \in Kiosks : ServeKiosk(k) /\ LosesRace(k) => clientMap'[k] # None

\* Of two kiosks that race for one voter "the loser should be rejected and a
\* FaultTracker entry should be filed server-side": a refused request that lost
\* its race leaves a record of its kiosk.
RaceLoserRecorded == [][RecordsLoser]_systemVars
=============================================================================
