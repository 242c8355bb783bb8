----------------------- MODULE PollbookSystem_proofs -----------------------
(***************************************************************************)
(* End-to-end theorems about the polling place, for any number of kiosks,  *)
(* devices, voters, tickets and restarts.  They rest on the inductive      *)
(* invariant of the service (CheckinService_proofs).                       *)
(***************************************************************************)
EXTENDS PollbookSystem, CheckinService_proofs

\* The requests under way are those of honest clients.
HonestMail ==
  /\ \A k \in Kiosks : outbox[k] # None =>
       /\ outbox[k] \in CheckinRequests
       /\ IdentityOk(k, outbox[k])
       /\ Genuine(outbox[k])
  /\ \A d \in Trusted : outbox[d] # None => outbox[d] \in TicketRequests

\* Connections are not of the future.
PastConnections == boot \in Nat \ {0} /\ \A c \in Clients : conn[c] <= boot

\* Tickets are drawn in order, and memory and file agree on their voters.
TicketsInOrder ==
  \A t \in Tickets :
    /\ t > drawn => client_tickets_map[t] = None /\ ticket_file[t] = None
    /\ client_tickets_map[t] # None /\ ticket_file[t] # None =>
         client_tickets_map[t] = ticket_file[t]

\* A ticket of the running service, and the voter it knows for it.
Known(t, v) == t \in Tickets /\ v \in Roll /\ client_tickets_map[t] = v

\* An approval on its way to a kiosk or on a voter's screen.
Granted(k) == inbox[k] # None /\ inbox[k].approved
GrantsKnown ==
  /\ \A k \in Kiosks : Granted(k) =>
       /\ inbox[k].ticket \in Tickets /\ inbox[k].voter \in Roll
       /\ conn[k] = boot => Known(inbox[k].ticket, inbox[k].voter)
  /\ \A s \in shown : s.boot <= boot
  /\ ShownTicketsKnown

\* An approval of the running service on its way to device d.
Approval(d, v) ==
  inbox[d] # None /\ inbox[d].approved /\ inbox[d].voter = v /\ conn[d] = boot

\* For one voter there is one approval at most, received or under way, and it
\* means CHECKED_IN.
Admission(v) ==
  /\ admitted[v] \in {0, 1}
  /\ admitted[v] = 1 => /\ voter_status_table[v] = "CHECKED_IN"
                        /\ \A d \in Trusted : ~Approval(d, v)
  /\ \A d \in Trusted : Approval(d, v) => voter_status_table[v] = "CHECKED_IN"
  /\ \A d, e \in Trusted : Approval(d, v) /\ Approval(e, v) => d = e
Admissions ==
  /\ \A v \in Roll : Admission(v)
  /\ \A d \in Trusted :
       inbox[d] # None /\ inbox[d].approved => inbox[d].voter \in Roll

\* The validation of an honest request files no fault, and neither does its
\* rejection.
NoKioskRecord == \A k \in Kiosks : clientMap[k] = None

\* What the tracker holds is the last report, or that is too long ago.
Records ==
  /\ NoKioskRecord
  /\ \A c \in Clients :
       IF clientMap[c] # None THEN clientMap[c] = reported[c]
       ELSE reported[c] # None => now - reported[c] > cleanup_threshold

SInv ==
  /\ IInv /\ ClockOK
  /\ SystemTypeOK
  /\ HonestMail
  /\ PastConnections
  /\ TicketsInOrder
  /\ GrantsKnown
  /\ Admissions
  /\ Records

----------------------------------------------------------------------------
\* The invariant holds when the service starts for the first time.
LEMMA SystemInitSInv == SystemInit => SInv
<1> SUFFICES ASSUME SystemInit PROVE SInv
  OBVIOUS
<1> USE CheckinAssumption
<1>1. IInv /\ ClockOK
  BY InvInit DEF SystemInit, ClockOK, Init
<1>2. SystemTypeOK
  BY DEF SystemInit, SystemTypeOK, Tracker!TrackerInit, Tracker!NoRecords, Init
<1>3. HonestMail /\ PastConnections
  BY DEF SystemInit, HonestMail, PastConnections, Init, Clients
<1>4. TicketsInOrder
  BY DEF SystemInit, TicketsInOrder, Init, NoTickets
<1>5. GrantsKnown
  BY DEF SystemInit, GrantsKnown, Granted, ShownTicketsKnown, Clients
<1>6. Admissions
  BY DEF SystemInit, Admissions, Admission, Approval, Clients
<1>7. Records
  BY DEF SystemInit, Records, NoKioskRecord, Tracker!TrackerInit,
         Tracker!NoRecords, Clients
<1> QED BY <1>1, <1>2, <1>3, <1>4, <1>5, <1>6, <1>7 DEF SInv

----------------------------------------------------------------------------
(* Every step of the system is a step of the service, or none *)

\* An honest kiosk sends a request of the set the service is specified for.
LEMMA ServeKioskIsService ==
  ASSUME SInv, NEW k \in Kiosks, ServeKiosk(k) PROVE Next
<1>1. outbox[k] \in CheckinRequests
  BY DEF ServeKiosk, Arrived, SInv, HonestMail
<1> QED BY <1>1 DEF ServeKiosk, Next

\* So does an honest device.
LEMMA ServeDeviceIsService ==
  ASSUME SInv, NEW d \in Trusted, ServeDevice(d) PROVE Next
<1>1. outbox[d] \in TicketRequests
  BY DEF ServeDevice, Arrived, SInv, HonestMail
<1> QED BY <1>1 DEF ServeDevice, Next

\* Client and network steps leave the service alone, the others are its own.
LEMMA SystemStepIsService ==
  ASSUME SInv, [SystemNext]_systemVars PROVE [Next]_vars
<1>1. ASSUME NEW c, NEW r, Call(c, r) PROVE UNCHANGED vars
  BY <1>1 DEF Call
<1>2. CASE SystemNext
  BY <1>1, <1>2, ServeKioskIsService, ServeDeviceIsService
     DEF SystemNext, CheckIn, Present, Receive, Lose, ServiceAlone, Restart,
         Cleanup, Next
<1>3. CASE UNCHANGED systemVars
  BY <1>3 DEF systemVars
<1> QED BY <1>2, <1>3

\* What is invariant of the service is invariant of the system.
LEMMA ServiceInvariantKept ==
  ASSUME SInv, [SystemNext]_systemVars PROVE IInv' /\ ClockOK' /\ [Next]_vars
  BY SystemStepIsService, InvStep, ClockStep DEF SInv

----------------------------------------------------------------------------
(* The tickets, in any step of the service *)

\* Tickets stay in order, and a known ticket stays known while the process lives.
LEMMA TicketSteps ==
  ASSUME IInv, IInv', TicketsInOrder, [Next]_vars
  PROVE /\ TicketsInOrder'
        /\ boot' = boot => \A t \in Tickets, v \in Roll :
                              Known(t, v) => Known(t, v)'
<1> USE CheckinAssumption
<1>0. /\ client_tickets_map \in [Tickets -> Roll \cup {None}]
      /\ ticket_file \in [Tickets -> Roll \cup {None}]
      /\ drawn \in 0 .. MaxTickets /\ None \notin Roll /\ boot \in Nat
  BY DEF IInv, TypeOK
<1>1. ASSUME NEW c \in Kiosks, NEW r \in CheckinRequests, AcceptCheckin(c, r)
      PROVE /\ TicketsInOrder'
            /\ \A t \in Tickets, v \in Roll : Known(t, v) => Known(t, v)'
  <2>1. /\ drawn' = drawn + 1 /\ drawn' \in Tickets
        /\ client_tickets_map' = [client_tickets_map EXCEPT ![drawn'] = r.voter]
        /\ \/ ticket_file' = [ticket_file EXCEPT ![drawn'] = r.voter]
           \/ ticket_file' = ticket_file
    BY <1>0, <1>1 DEF AcceptCheckin, Tickets
  <2>2. client_tickets_map[drawn'] = None /\ ticket_file[drawn'] = None
    BY <1>0, <2>1 DEF TicketsInOrder, Tickets
  <2>3. \A t \in Tickets : t # drawn' =>
          /\ client_tickets_map'[t] = client_tickets_map[t]
          /\ ticket_file'[t] = ticket_file[t]
    BY <1>0, <2>1
  <2>4. /\ client_tickets_map'[drawn'] = r.voter
        /\ ticket_file'[drawn'] \in {r.voter, None}
    BY <1>0, <2>1, <2>2
  <2>5. \A t \in Tickets : t > drawn' => t > drawn /\ t # drawn'
    BY <1>0, <2>1 DEF Tickets
  <2>6. TicketsInOrder'
    BY <2>3, <2>4, <2>5 DEF TicketsInOrder
  <2> QED BY <1>0, <2>2, <2>3, <2>6 DEF Known
<1>2. ASSUME TicketStep
      PROVE /\ TicketsInOrder'
            /\ \A t \in Tickets, v \in Roll : Known(t, v) => Known(t, v)'
  <2>1. /\ client_tickets_map' = read_from_csv
        /\ ticket_file' = ticket_file /\ drawn' = drawn
    BY <1>2 DEF TicketStep
  <2> QED BY <1>0, <2>1 DEF TicketsInOrder, Known, read_from_csv
<1>3. ASSUME UNCHANGED <<client_tickets_map, ticket_file, drawn>>
      PROVE /\ TicketsInOrder'
            /\ \A t \in Tickets, v \in Roll : Known(t, v) => Known(t, v)'
  BY <1>3 DEF TicketsInOrder, Known
<1>4. CASE Start
  <2>1. /\ client_tickets_map' = NoTickets /\ ticket_file' = ticket_file
        /\ drawn' = drawn /\ boot' # boot
    BY <1>0, <1>4 DEF Start
  <2> QED BY <1>0, <2>1 DEF TicketsInOrder, NoTickets
<1>5. \/ \E c \in Kiosks, r \in CheckinRequests : AcceptCheckin(c, r)
      \/ TicketStep
      \/ UNCHANGED <<client_tickets_map, ticket_file, drawn>>
      \/ Start
  BY DEF Next, RejectCheckin, HandlerThrows, MalformedTicket, RejectTicket,
         DenyPin, DenyWindow, RedeemTicket, ExpireTimer,
         handle_verification_timeout, Tick, Kill, vars
<1> QED BY <1>1, <1>2, <1>3, <1>4, <1>5

----------------------------------------------------------------------------
(* The clients: steps that leave the service alone *)

\* The parts of the invariant about the service alone.
LEMMA ServiceIdle ==
  ASSUME SInv, UNCHANGED vars
  PROVE IInv' /\ ClockOK' /\ TicketsInOrder'
<1>1. IInv' /\ ClockOK'
  BY InvStep, ClockStep DEF SInv
<1> QED BY <1>1, TicketSteps DEF SInv

\* Without a report, a cleanup or a tick the records stay as they are.
LEMMA RecordsKept ==
  ASSUME SInv, UNCHANGED <<now, trackerVars>> PROVE Records'
  BY DEF SInv, Records, NoKioskRecord, trackerVars

\* A new request waits on a new connection of the running process.
LEMMA CallKeeps ==
  ASSUME SInv, NEW c \in Clients, NEW r, Call(c, r),
         \/ /\ c \in Kiosks /\ r \in CheckinRequests
            /\ IdentityOk(c, r) /\ Genuine(r)
         \/ c \in Trusted /\ r \in TicketRequests
  PROVE SInv'
<1> USE CheckinAssumption
<1>0. /\ UNCHANGED vars
      /\ UNCHANGED <<running, boot, now, voter_status_table, client_tickets_map>>
      /\ UNCHANGED <<inbox, shown, admitted, trackerVars>>
      /\ conn' = [conn EXCEPT ![c] = boot] /\ outbox' = [outbox EXCEPT ![c] = r]
      /\ conn[c] = 0 /\ inbox[c] = None /\ boot \in Nat \ {0}
  BY DEF Call, vars, volatile, SInv, SystemTypeOK, PastConnections
<1>1. SystemTypeOK'
  BY <1>0 DEF SInv, SystemTypeOK, trackerVars
<1>2. HonestMail'
  BY <1>0 DEF SInv, SystemTypeOK, HonestMail, Clients, IdentityOk, Genuine,
              ClientSigned, SameVoter
<1>3. PastConnections'
  BY <1>0 DEF SInv, SystemTypeOK, PastConnections
<1>4. \A e \in Clients : inbox'[e] # None => e # c /\ conn'[e] = conn[e]
  BY <1>0 DEF SInv, SystemTypeOK
<1>5. GrantsKnown'
  BY <1>0, <1>4 DEF SInv, GrantsKnown, Granted, Known, ShownTicketsKnown,
                    Clients
<1>6. Admissions'
  BY <1>0, <1>4 DEF SInv, Admissions, Admission, Approval, Clients
<1> QED BY <1>0, <1>1, <1>2, <1>3, <1>5, <1>6, ServiceIdle, RecordsKept DEF SInv

\* The request of a kiosk is honest.
LEMMA CheckInKeeps ==
  ASSUME SInv, NEW k \in Kiosks, NEW v \in Uids, CheckIn(k, v) PROVE SInv'
<1>1. CheckinRequest(k, v) \in CheckinRequests
  BY SystemAssumption DEF SInv, ClockOK, CheckinRequest
<1>2. IdentityOk(k, CheckinRequest(k, v)) /\ Genuine(CheckinRequest(k, v))
  BY DEF IdentityOk, Genuine, ClientSigned, SameVoter, CheckinRequest
<1>3. Call(k, CheckinRequest(k, v)) /\ k \in Clients
  BY DEF CheckIn, Clients
<1> QED BY <1>1, <1>2, <1>3, CallKeeps

\* The request of a device is for a ticket.
LEMMA PresentKeeps ==
  ASSUME SInv, NEW d \in Trusted, NEW s \in shown, NEW pin \in Pins,
         Present(d, s, pin)
  PROVE SInv'
<1>1. s.ticket \in Tickets
  BY DEF SInv, SystemTypeOK
<1>2. TicketRequest(d, s.ticket, pin) \in TicketRequests
  BY <1>1, SystemAssumption DEF SInv, ClockOK, TicketRequest
<1>3. Call(d, TicketRequest(d, s.ticket, pin)) /\ d \in Clients
  BY DEF Present, Clients
<1> QED BY <1>2, <1>3, CallKeeps

\* A lost connection takes its request and its response with it.
LEMMA LoseKeeps == ASSUME SInv, NEW c \in Clients, Lose(c) PROVE SInv'
<1> USE CheckinAssumption
<1>0. /\ UNCHANGED vars
      /\ UNCHANGED <<running, boot, now, voter_status_table, client_tickets_map>>
      /\ UNCHANGED <<shown, admitted, trackerVars>>
      /\ conn' = [conn EXCEPT ![c] = 0] /\ boot \in Nat \ {0}
      /\ outbox' = [outbox EXCEPT ![c] = None]
      /\ inbox' = [inbox EXCEPT ![c] = None]
  BY DEF Lose, vars, volatile, SInv, PastConnections
<1>1. SystemTypeOK'
  BY <1>0 DEF SInv, SystemTypeOK, trackerVars
<1>2. HonestMail' /\ PastConnections'
  BY <1>0 DEF SInv, SystemTypeOK, HonestMail, PastConnections, Clients,
              IdentityOk, Genuine, ClientSigned, SameVoter
<1>3. \A e \in Clients : inbox'[e] # None =>
        inbox'[e] = inbox[e] /\ conn'[e] = conn[e]
  BY <1>0 DEF SInv, SystemTypeOK
<1>4. GrantsKnown'
  BY <1>0, <1>3 DEF SInv, GrantsKnown, Granted, Known, ShownTicketsKnown,
                    Clients
<1>5. Admissions'
  BY <1>0, <1>3 DEF SInv, Admissions, Admission, Approval, Clients
<1> QED BY <1>0, <1>1, <1>2, <1>4, <1>5, ServiceIdle, RecordsKept DEF SInv

\* An approval that is received moves from the wire to the record, once.
LEMMA ReceiveKeeps == ASSUME SInv, NEW c \in Clients, Receive(c) PROVE SInv'
<1> USE CheckinAssumption
<1>0. /\ UNCHANGED vars
      /\ UNCHANGED <<running, boot, now, voter_status_table, client_tickets_map>>
      /\ UNCHANGED <<outbox, trackerVars>>
      /\ conn' = [conn EXCEPT ![c] = 0] /\ boot \in Nat \ {0}
      /\ inbox' = [inbox EXCEPT ![c] = None]
      /\ inbox[c] # None
  BY DEF Receive, vars, volatile, SInv, PastConnections
<1>1. \A e \in Clients : inbox'[e] # None =>
        e # c /\ inbox'[e] = inbox[e] /\ conn'[e] = conn[e]
  BY <1>0 DEF SInv, SystemTypeOK
<1>2. \A s \in shown' : \/ s \in shown
                        \/ /\ c \in Kiosks /\ Granted(c)
                           /\ s = [ticket |-> inbox[c].ticket,
                                   voter |-> inbox[c].voter, boot |-> conn[c]]
  BY <1>0 DEF Receive, Granted
<1>3. shown' \subseteq [ticket : Tickets, voter : Roll, boot : Nat]
  BY <1>2 DEF SInv, SystemTypeOK, GrantsKnown
<1>4. GrantsKnown'
  BY <1>0, <1>1, <1>2 DEF SInv, GrantsKnown, Granted, Known, ShownTicketsKnown,
                          Clients, PastConnections, SystemTypeOK
<1>5. Admissions' /\ admitted' \in [Roll -> Nat]
  <2>1. CASE c \in Trusted /\ inbox[c].approved /\ conn[c] = boot
    <3>0. PICK w \in Roll : w = inbox[c].voter
      BY <1>0, <2>1 DEF SInv, Admissions
    <3>1. Approval(c, w)
      BY <1>0, <2>1, <3>0 DEF Approval
    <3>2. admitted' = [admitted EXCEPT ![w] = @ + 1]
      BY <2>1, <3>0 DEF Receive
    <3>3. Admission(w) /\ admitted \in [Roll -> Nat]
      BY <3>1 DEF SInv, Admissions, SystemTypeOK
    <3>4. admitted[w] = 0 /\ voter_status_table[w] = "CHECKED_IN"
          /\ \A d \in Trusted : d # c => ~Approval(d, w)
      BY <2>1, <3>1, <3>3 DEF Admission
    <3>5. admitted'[w] = 1 /\ \A v \in Roll : v # w => admitted'[v] = admitted[v]
      BY <3>1, <3>2, <3>3, <3>4
    <3>6. \A d \in Trusted, v \in Roll :
            Approval(d, v)' => d # c /\ Approval(d, v)
      BY <1>0, <1>1 DEF Approval, Clients
    <3>7. Admission(w)'
      <4>1. \A d \in Trusted : ~Approval(d, w)'
        BY <3>1, <3>4, <3>6
      <4> QED BY <1>0, <3>4, <3>5, <4>1 DEF Admission
    <3>8. ASSUME NEW v \in Roll, v # w PROVE Admission(v)'
      BY <1>0, <3>5, <3>6, <3>8 DEF SInv, Admissions, Admission
    <3>9. admitted' \in [Roll -> Nat]
      BY <3>1, <3>2, <3>3
    <3> QED BY <1>1, <3>7, <3>8, <3>9 DEF SInv, Admissions, Clients
  <2>2. CASE ~(c \in Trusted /\ inbox[c].approved /\ conn[c] = boot)
    <3>1. admitted' = admitted
      BY <2>2 DEF Receive
    <3> QED BY <1>0, <1>1, <3>1
            DEF SInv, Admissions, Admission, Approval, Clients, SystemTypeOK
  <2> QED BY <2>1, <2>2
<1>6. SystemTypeOK'
  <2>1. \A e \in Clients :
          conn'[e] = 0 => outbox'[e] = None /\ inbox'[e] = None
    <3>1. outbox[c] = None
      BY <1>0 DEF SInv, SystemTypeOK
    <3> QED BY <1>0, <3>1 DEF SInv, SystemTypeOK
  <2> QED BY <1>0, <1>3, <1>5, <2>1 DEF SInv, SystemTypeOK, trackerVars
<1>7. HonestMail' /\ PastConnections'
  BY <1>0 DEF SInv, SystemTypeOK, HonestMail, PastConnections, Clients,
              IdentityOk, Genuine, ClientSigned, SameVoter
<1> QED BY <1>0, <1>4, <1>5, <1>6, <1>7, ServiceIdle, RecordsKept DEF SInv

----------------------------------------------------------------------------
(* The service: steps that answer a request *)

\* A report about a device leaves its record as old as its last report.
LEMMA TrackKeeps ==
  ASSUME SInv, Track, now' = now, fault' \in Trusted \cup {None}
  PROVE  /\ Records'
         /\ clientMap' \in [Clients -> Nat \cup {None}] /\ wake' \in Nat
         /\ reported' \in [Clients -> Nat \cup {None}]
<1> USE CheckinAssumption, SystemAssumption
<1>0. /\ clientMap \in [Clients -> Nat \cup {None}] /\ wake \in Nat
      /\ reported \in [Clients -> Nat \cup {None}] /\ now \in Nat
  BY DEF SInv, SystemTypeOK, IInv, TypeOK
<1>1. CASE fault' = None
  BY <1>0, <1>1, RecordsKept DEF Track, trackerVars
<1>2. CASE fault' # None
  <2>1. PICK d \in Trusted : d = fault'
    BY <1>2
  <2>2. /\ clientMap' = [clientMap EXCEPT ![d] = now]
        /\ reported' = [reported EXCEPT ![d] = now] /\ wake' = wake
    BY <1>2, <2>1 DEF Track, Tracker!reportFault, Tracker!Refreshed
  <2>3. d \in Clients /\ d \notin Kiosks /\ now # None
    BY <1>0 DEF Clients
  <2>4. Records'
    BY <1>0, <2>2, <2>3 DEF SInv, Records, NoKioskRecord, Clients
  <2> QED BY <1>0, <2>2, <2>4
<1> QED BY <1>1, <1>2

\* What every answered or refused request leaves in order.
LEMMA ServeKeeps ==
  ASSUME SInv, NEW c \in Clients, Arrived(c), Serve(c), [Next]_vars,
         boot' = boot, now' = now, fault' \in Trusted \cup {None}
  PROVE  /\ SystemTypeOK' /\ HonestMail' /\ PastConnections' /\ Records'
         /\ IInv' /\ ClockOK' /\ TicketsInOrder'
         /\ inbox'[c] = IF reply' = NoReply THEN None ELSE reply'
         /\ \A e \in Clients : e # c => inbox'[e] = inbox[e]
         /\ UNCHANGED <<conn, shown, admitted>>
<1> USE CheckinAssumption
<1>1. IInv' /\ ClockOK' /\ TicketsInOrder'
  BY InvStep, ClockStep, TicketSteps DEF SInv
<1>2. /\ outbox' = [outbox EXCEPT ![c] = None]
      /\ inbox' = [inbox EXCEPT ![c] = IF reply' = NoReply THEN None ELSE reply']
      /\ UNCHANGED <<conn, shown, admitted>> /\ Track
  BY DEF Serve
<1>3. conn[c] # 0 /\ reply' \in Replies
  BY <1>1 DEF Arrived, SInv, PastConnections, IInv, TypeOK
<1>4. SystemTypeOK'
  BY <1>2, <1>3, TrackKeeps DEF SInv, SystemTypeOK
<1>5. HonestMail' /\ PastConnections'
  BY <1>2 DEF SInv, SystemTypeOK, HonestMail, PastConnections, Clients,
              IdentityOk, Genuine, ClientSigned, SameVoter
<1> QED BY <1>1, <1>2, <1>4, <1>5, TrackKeeps DEF SInv, SystemTypeOK

\* No new approval for a device: the old ones keep their meaning.
LEMMA AdmissionsKept ==
  ASSUME SInv, [Next]_vars, boot' = boot, UNCHANGED <<conn, admitted>>,
         \A d \in Trusted : \/ inbox'[d] = inbox[d]
                            \/ inbox'[d] = None
                            \/ ~inbox'[d].approved
  PROVE  Admissions'
<1>1. \A v \in Roll : voter_status_table[v] = "CHECKED_IN" =>
                        voter_status_table'[v] = "CHECKED_IN"
  BY StatusChange DEF SInv
<1>2. \A d \in Trusted, v \in Roll : Approval(d, v)' => Approval(d, v)
  BY DEF Approval
<1>3. ASSUME NEW v \in Roll PROVE Admission(v)'
  BY <1>1, <1>2 DEF SInv, Admissions, Admission
<1>4. \A d \in Trusted : inbox'[d] # None /\ inbox'[d].approved =>
                           inbox'[d].voter \in Roll
  BY DEF SInv, Admissions
<1> QED BY <1>3, <1>4 DEF Admissions

\* No new approval for a kiosk but one the service knows.
LEMMA GrantsKept ==
  ASSUME SInv, [Next]_vars, boot' = boot, UNCHANGED <<conn, shown>>,
         \A k \in Kiosks :
           inbox'[k] # None /\ inbox'[k].approved /\ inbox'[k] # inbox[k] =>
             /\ inbox'[k].ticket \in Tickets /\ inbox'[k].voter \in Roll
             /\ client_tickets_map'[inbox'[k].ticket] = inbox'[k].voter
  PROVE  GrantsKnown'
<1>1. \A t \in Tickets, v \in Roll :
        client_tickets_map[t] = v => client_tickets_map'[t] = v
  BY TicketSteps, InvStep DEF SInv, Known
<1>2. ShownTicketsKnown'
  BY <1>1 DEF SInv, GrantsKnown, ShownTicketsKnown, SystemTypeOK
<1>3. \A s \in shown' : s.boot <= boot'
  BY DEF SInv, GrantsKnown
<1>4. ASSUME NEW k \in Kiosks, Granted(k)'
      PROVE  /\ inbox'[k].ticket \in Tickets /\ inbox'[k].voter \in Roll
             /\ conn'[k] = boot' => Known(inbox[k].ticket, inbox[k].voter)'
  <2>1. CASE inbox'[k] = inbox[k]
    BY <1>1, <1>4, <2>1 DEF SInv, GrantsKnown, Granted, Known
  <2>2. CASE inbox'[k] # inbox[k]
    BY <1>4, <2>2 DEF Granted, Known
  <2> QED BY <2>1, <2>2
<1> QED BY <1>2, <1>3, <1>4 DEF GrantsKnown

\* A kiosk gets a ticket that the service knows, and no fault.
LEMMA ServeKioskKeeps ==
  ASSUME SInv, NEW k \in Kiosks, ServeKiosk(k) PROVE SInv'
<1> USE CheckinAssumption
<1>0. k \in Clients /\ k \notin Trusted /\ Arrived(k) /\ Serve(k)
  BY DEF ServeKiosk, Clients
<1>1. PICK r \in CheckinRequests :
        /\ AcceptCheckin(k, r) \/ RejectCheckin(k, r)
        /\ ~CheckinFault(k, r)
  BY DEF ServeKiosk, Arrived, SInv, HonestMail, CheckinFault, IdentityOk,
         Genuine, ClientSigned, SameVoter
<1>2. [Next]_vars /\ boot' = boot /\ now' = now /\ fault' = None
  BY <1>1 DEF Next, AcceptCheckin, RejectCheckin
<1>3. /\ SystemTypeOK' /\ HonestMail' /\ PastConnections' /\ Records'
      /\ IInv' /\ ClockOK' /\ TicketsInOrder'
      /\ inbox'[k] = IF reply' = NoReply THEN None ELSE reply'
      /\ \A e \in Clients : e # k => inbox'[e] = inbox[e]
      /\ UNCHANGED <<conn, shown, admitted>>
  BY <1>0, <1>2, ServeKeeps
<1>4. Admissions'
  BY <1>0, <1>2, <1>3, AdmissionsKept DEF Clients
<1>5. inbox'[k] # None /\ inbox'[k].approved =>
        /\ inbox'[k].ticket \in Tickets /\ inbox'[k].voter \in Roll
        /\ client_tickets_map'[inbox'[k].ticket] = inbox'[k].voter
  <2>1. CASE AcceptCheckin(k, r)
    <3>1. /\ r.voter \in Roll /\ drawn' \in Tickets
          /\ client_tickets_map'[drawn'] = r.voter
      BY <2>1 DEF AcceptCheckin, Eligible, Tickets, SInv, IInv, TypeOK
    <3>2. reply' = NoReply \/ reply' = CheckinReply(k, TRUE, r.voter, drawn')
      BY <2>1 DEF AcceptCheckin
    <3> QED BY <1>3, <3>1, <3>2 DEF CheckinReply
  <2>2. CASE RejectCheckin(k, r)
    BY <1>3, <2>2 DEF RejectCheckin, CheckinReply
  <2> QED BY <1>1, <2>1, <2>2
<1>6. GrantsKnown'
  BY <1>2, <1>3, <1>5, GrantsKept DEF Clients
<1> QED BY <1>3, <1>4, <1>6 DEF SInv

\* An approval for a device is the first of its voter in this process.
LEMMA ServeDeviceKeeps ==
  ASSUME SInv, NEW d \in Trusted, ServeDevice(d) PROVE SInv'
<1> USE CheckinAssumption
<1>0. d \in Clients /\ d \notin Kiosks /\ Arrived(d) /\ Serve(d)
  BY DEF ServeDevice, Clients
<1>1. PICK r \in TicketRequests :
        RejectTicket(d, r) \/ DenyPin(d, r) \/ DenyWindow(d, r)
          \/ RedeemTicket(d, r)
  BY DEF ServeDevice, Arrived, SInv, HonestMail
<1>2. /\ [Next]_vars /\ boot' = boot /\ now' = now
      /\ fault' \in Trusted \cup {None}
  BY <1>1 DEF Next, RejectTicket, DenyPin, DenyWindow, RedeemTicket,
              TicketStep, reportFault
<1>3. /\ SystemTypeOK' /\ HonestMail' /\ PastConnections' /\ Records'
      /\ IInv' /\ ClockOK' /\ TicketsInOrder'
      /\ inbox'[d] = IF reply' = NoReply THEN None ELSE reply'
      /\ \A e \in Clients : e # d => inbox'[e] = inbox[e]
      /\ UNCHANGED <<conn, shown, admitted>>
  BY <1>0, <1>2, ServeKeeps
<1>4. GrantsKnown'
  BY <1>0, <1>2, <1>3, GrantsKept DEF Clients
<1>5. CASE RejectTicket(d, r) \/ DenyPin(d, r) \/ DenyWindow(d, r)
  <2>1. reply' = NoReply \/ ~reply'.approved
    BY <1>5 DEF RejectTicket, DenyPin, DenyWindow, TicketReply
  <2>2. Admissions'
    BY <1>2, <1>3, <2>1, AdmissionsKept DEF Clients
  <2> QED BY <1>3, <1>4, <2>2 DEF SInv
<1>6. CASE RedeemTicket(d, r)
  <2>1. PICK w \in Roll : w = read_from_csv[r.ticket]
    BY <1>6, RedeemsPending DEF SInv
  <2>2. /\ voter_status_table[w] = "PENDING"
        /\ voter_status_table' = [voter_status_table EXCEPT ![w] = "CHECKED_IN"]
        /\ reply' = TicketReply(d, TRUE, w, r.ticket)
    BY <1>6, <2>1, RedeemsPending DEF SInv, RedeemTicket, AfterRedeem, IInv,
                                     TypeOK
  <2>3. admitted[w] = 0 /\ \A e \in Trusted : ~Approval(e, w)
    BY <2>2 DEF SInv, Admissions, Admission
  <2>4. inbox'[d] = IF reply' = NoReply THEN None
                    ELSE TicketReply(d, TRUE, w, r.ticket)
    BY <1>3, <2>2
  <2>5. inbox'[d] # None => inbox'[d].voter = w
    BY <2>4 DEF TicketReply
  <2>6. \A e \in Trusted, v \in Roll :
          Approval(e, v)' => (e = d /\ v = w) \/ Approval(e, v)
    BY <1>2, <1>3, <2>5 DEF Approval, Clients
  <2>7. \A v \in Roll : voter_status_table[v] = "CHECKED_IN" \/ v = w =>
                          voter_status_table'[v] = "CHECKED_IN"
    BY <2>2 DEF SInv, IInv, TypeOK
  <2>8. ASSUME NEW v \in Roll PROVE Admission(v)'
    <3>1. CASE v = w
      BY <1>3, <2>3, <2>6, <2>7, <3>1 DEF Admission
    <3>2. CASE v # w
      BY <1>3, <2>6, <2>7, <3>2 DEF SInv, Admissions, Admission
    <3> QED BY <3>1, <3>2
  <2>9. Admissions'
    BY <1>3, <2>5, <2>8 DEF SInv, Admissions, Clients
  <2> QED BY <1>3, <1>4, <2>9 DEF SInv
<1> QED BY <1>1, <1>5, <1>6

----------------------------------------------------------------------------
(* The service alone, its process and its cleanup thread *)

\* Timers, the clock and the end of the process take no approval back.
LEMMA ServiceAloneKeeps == ASSUME SInv, ServiceAlone PROVE SInv'
<1> USE CheckinAssumption
<1>1. [Next]_vars /\ boot' = boot /\ UNCHANGED <<clientVars, trackerVars>>
  BY DEF ServiceAlone, Next, ExpireTimer, handle_verification_timeout, Tick,
         Kill
<1>2. UNCHANGED <<conn, outbox, inbox, shown, admitted, clientMap, wake, reported>>
  BY <1>1 DEF clientVars, trackerVars
<1>3. /\ IInv' /\ ClockOK' /\ TicketsInOrder'
      /\ now \in Nat /\ now' \in Nat /\ now' >= now
  BY <1>1, InvStep, ClockStep, TicketSteps DEF SInv
<1>4. Admissions' /\ GrantsKnown'
  BY <1>1, <1>2, AdmissionsKept, GrantsKept
<1>5. SystemTypeOK'
  BY <1>2 DEF SInv, SystemTypeOK
<1>6. HonestMail' /\ PastConnections'
  BY <1>1, <1>2 DEF SInv, HonestMail, PastConnections, IdentityOk, Genuine,
                    ClientSigned, SameVoter
<1>7. Records'
  BY <1>2, <1>3, SystemAssumption
     DEF SInv, Records, NoKioskRecord, SystemTypeOK
<1> QED BY <1>3, <1>4, <1>5, <1>6, <1>7 DEF SInv

\* Nothing of an earlier process is an approval of the new one.
LEMMA RestartKeeps == ASSUME SInv, Restart PROVE SInv'
<1> USE CheckinAssumption
<1>1. /\ [Next]_vars /\ boot' = boot + 1 /\ boot \in Nat
      /\ UNCHANGED <<conn, outbox, inbox, shown>>
      /\ admitted' = [v \in Roll |-> 0]
      /\ clientMap' = [c \in Clients |-> None] /\ wake' = now
      /\ reported' = [c \in Clients |-> None]
  BY DEF Restart, Next, Start, Tracker!NoRecords, SInv, PastConnections
<1>2. /\ IInv' /\ ClockOK' /\ TicketsInOrder' /\ now \in Nat
  BY <1>1, InvStep, ClockStep, TicketSteps DEF SInv
<1>3. \A c \in Clients : conn[c] <= boot /\ conn[c] \in Nat /\ conn'[c] # boot'
  BY <1>1 DEF SInv, PastConnections, SystemTypeOK
<1>4. \A s \in shown : s.boot <= boot /\ s.boot \in Nat /\ s.boot # boot'
  BY <1>1 DEF SInv, GrantsKnown, SystemTypeOK
<1>5. SystemTypeOK'
  BY <1>1, <1>2 DEF SInv, SystemTypeOK
<1>6. HonestMail' /\ PastConnections'
  BY <1>1, <1>3 DEF SInv, HonestMail, PastConnections, IdentityOk, Genuine,
                    ClientSigned, SameVoter
<1>7. GrantsKnown'
  BY <1>1, <1>3, <1>4 DEF SInv, GrantsKnown, Granted, ShownTicketsKnown,
                          Clients
<1>8. Admissions'
  BY <1>1, <1>3 DEF SInv, Admissions, Admission, Approval, Clients
<1>9. Records'
  BY <1>1 DEF Records, NoKioskRecord, Clients
<1> QED BY <1>2, <1>5, <1>6, <1>7, <1>8, <1>9 DEF SInv

\* The cleanup removes a record only when the last report is too long ago.
LEMMA CleanupKeeps == ASSUME SInv, Cleanup PROVE SInv'
<1> USE CheckinAssumption, SystemAssumption
<1>1. /\ UNCHANGED vars /\ UNCHANGED <<conn, outbox, inbox, shown, admitted>>
      /\ UNCHANGED <<boot, now, voter_status_table, client_tickets_map>>
      /\ clientMap' = [c \in Clients |->
           IF clientMap[c] # None /\ now - clientMap[c] > cleanup_threshold
           THEN None ELSE clientMap[c]]
      /\ wake' = now + SLEEP /\ reported' = reported /\ now \in Nat
  BY DEF Cleanup, clientVars, vars, volatile, Tracker!CleanupRound,
         Tracker!clearOldRecords, Tracker!Old, SInv, IInv, TypeOK
<1>2. SystemTypeOK'
  BY <1>1 DEF SInv, SystemTypeOK
<1>3. HonestMail' /\ PastConnections'
  BY <1>1 DEF SInv, HonestMail, PastConnections, IdentityOk, Genuine,
              ClientSigned, SameVoter
<1>4. GrantsKnown' /\ Admissions'
  BY <1>1 DEF SInv, GrantsKnown, Granted, Known, ShownTicketsKnown, Admissions,
              Admission, Approval
<1>5. Records'
  BY <1>1 DEF SInv, Records, NoKioskRecord, SystemTypeOK, Clients
<1> QED BY <1>1, <1>2, <1>3, <1>4, <1>5, ServiceIdle DEF SInv

----------------------------------------------------------------------------
(* The invariant and the theorems *)

\* Every step keeps the invariant.
LEMMA SystemStepSInv == SInv /\ [SystemNext]_systemVars => SInv'
<1> SUFFICES ASSUME SInv, [SystemNext]_systemVars PROVE SInv'
  OBVIOUS
<1>1. CASE SystemNext
  BY <1>1, CheckInKeeps, PresentKeeps, ReceiveKeeps, LoseKeeps,
     ServeKioskKeeps, ServeDeviceKeeps, ServiceAloneKeeps, RestartKeeps,
     CleanupKeeps DEF SystemNext
<1>2. CASE UNCHANGED systemVars
  <2>1. /\ UNCHANGED vars /\ UNCHANGED <<conn, outbox, inbox, shown, admitted>>
        /\ UNCHANGED <<boot, now, voter_status_table, client_tickets_map>>
        /\ UNCHANGED <<clientMap, wake, reported>>
    BY <1>2 DEF systemVars, clientVars, trackerVars, vars, volatile
  <2>2. SystemTypeOK' /\ Records'
    BY <2>1 DEF SInv, SystemTypeOK, Records, NoKioskRecord
  <2>3. HonestMail' /\ PastConnections'
    BY <2>1 DEF SInv, HonestMail, PastConnections, IdentityOk, Genuine,
                ClientSigned, SameVoter
  <2>4. GrantsKnown' /\ Admissions'
    BY <2>1 DEF SInv, GrantsKnown, Granted, Known, ShownTicketsKnown,
                Admissions, Admission, Approval
  <2> QED BY <2>1, <2>2, <2>3, <2>4, ServiceIdle DEF SInv
<1> QED BY <1>1, <1>2

\* The invariant holds in every reachable state of the polling place.
THEOREM SystemInvariance == SystemSpec => []SInv
BY SystemInitSInv, SystemStepSInv, PTL DEF SystemSpec

\* Type correctness: what is on the wires and on voters' screens is well-formed,
\* and a call waits for the service or for the network, never for both.
THEOREM SystemTypeCorrect == SystemSpec => []SystemTypeOK
<1>1. SInv => SystemTypeOK
  BY DEF SInv
<1> QED BY <1>1, SystemInvariance, PTL

\* Honest kiosks and devices use the service only as its own specification
\* says: what is proved of the service holds in the polling place.
THEOREM ServiceInSystem == SystemSpec => Spec
<1>1. SystemInit => Init
  BY DEF SystemInit
<1>2. SInv /\ [SystemNext]_systemVars => [Next]_vars
  BY SystemStepIsService
<1> QED BY <1>1, <1>2, SystemInvariance, PTL DEF SystemSpec, Spec

\* No voter is let in twice by one process of the service, whatever the delays.
THEOREM AdmittedOnceHolds == SystemSpec => []AdmittedOnce
<1>1. SInv => AdmittedOnce
  BY DEF SInv, Admissions, Admission, AdmittedOnce
<1> QED BY <1>1, SystemInvariance, PTL

\* The tickets voters hold are known to the process that gave them out.
THEOREM ShownTicketsKnownHolds == SystemSpec => []ShownTicketsKnown
<1>1. SInv => ShownTicketsKnown
  BY DEF SInv, GrantsKnown
<1> QED BY <1>1, SystemInvariance, PTL

\* No step of the network, of other clients or of time puts a kiosk on record.
\* In fact the code puts no honest kiosk on record at all, not even the loser of
\* a race for a voter: that is what makes the statement inductive.
THEOREM KiosksNotBlamedHolds == SystemSpec => KiosksNotBlamed
<1>1. SInv' => [BlamesForTakenVoterOnly]_systemVars
  BY DEF SInv, Records, NoKioskRecord, BlamesForTakenVoterOnly
<1> QED BY <1>1, SystemInvariance, PTL DEF KiosksNotBlamed

\* The cleanup thread never removes a record whose last report is recent.
THEOREM RecentFaultsKeptHolds == SystemSpec => []RecentFaultsKept
<1>1. SInv => RecentFaultsKept
  <2> SUFFICES ASSUME SInv, NEW c \in Clients, reported[c] # None,
                      now - reported[c] <= cleanup_threshold,
                      clientMap[c] = None
               PROVE  FALSE
    BY DEF RecentFaultsKept
  <2>1. now - reported[c] > cleanup_threshold
    BY DEF SInv, Records
  <2>2. now \in Nat /\ reported[c] \in Nat /\ cleanup_threshold \in Nat
    BY SystemAssumption DEF SInv, IInv, TypeOK, SystemTypeOK
  <2> QED BY <2>1, <2>2
<1> QED BY <1>1, SystemInvariance, PTL

\* The polling place as a whole keeps the two-phase protocol.
THEOREM SystemImplementsTwoPhase == SystemSpec => ImplementsTwoPhase
BY ServiceInSystem, Refinement, PTL

----------------------------------------------------------------------------
(* From the voter's screen to the admission *)

\* Ticket t has been drawn and is, wherever it stands, a ticket of voter v.
BelongsTo(t, v) ==
  /\ t \in Tickets /\ t <= drawn
  /\ client_tickets_map[t] \in {v, None}
  /\ ticket_file[t] \in {v, None}

\* Some kiosk has shown voter v a ticket.
WasShown(v) == \E s \in shown : s.voter = v

\* The tickets that were shown, or are on their way to a screen, belong to the
\* voters they were shown to; the tickets that devices ask about were shown;
\* and so were those behind an approval under way or received.  This holds
\* across restarts: an approval may rest on a ticket of an earlier process.
TicketsHeld ==
  /\ \A s \in shown : BelongsTo(s.ticket, s.voter)
  /\ \A k \in Kiosks : Granted(k) => BelongsTo(inbox[k].ticket, inbox[k].voter)
  /\ \A d \in Trusted : outbox[d] # None =>
       \E s \in shown : s.ticket = outbox[d].ticket
  /\ \A d \in Trusted : Granted(d) => WasShown(inbox[d].voter)
  /\ \A v \in Roll : admitted[v] # 0 => WasShown(v)

\* No step of the service, a restart included, gives a drawn ticket to another
\* voter: a new ticket is a later one, and memory is filled from the file.
LEMMA BelongingStays ==
  ASSUME IInv, [Next]_vars, NEW t, NEW v \in Roll, BelongsTo(t, v)
  PROVE  BelongsTo(t, v)'
<1> USE CheckinAssumption
<1>0. /\ client_tickets_map \in [Tickets -> Roll \cup {None}]
      /\ ticket_file \in [Tickets -> Roll \cup {None}]
      /\ drawn \in Nat /\ None \notin Roll
  BY DEF IInv, TypeOK
<1>1. ASSUME NEW c \in Kiosks, NEW r \in CheckinRequests, AcceptCheckin(c, r)
      PROVE  BelongsTo(t, v)'
  <2>1. /\ drawn' = drawn + 1
        /\ client_tickets_map' = [client_tickets_map EXCEPT ![drawn'] = r.voter]
        /\ \/ ticket_file' = [ticket_file EXCEPT ![drawn'] = r.voter]
           \/ ticket_file' = ticket_file
    BY <1>1 DEF AcceptCheckin
  <2>2. t \in Tickets /\ t # drawn' /\ t <= drawn'
    BY <1>0, <2>1 DEF BelongsTo, Tickets
  <2> QED BY <1>0, <2>1, <2>2 DEF BelongsTo
<1>2. ASSUME TicketStep PROVE BelongsTo(t, v)'
  BY <1>0, <1>2 DEF TicketStep, BelongsTo, read_from_csv
<1>3. ASSUME UNCHANGED <<client_tickets_map, ticket_file, drawn>>
      PROVE  BelongsTo(t, v)'
  BY <1>3 DEF BelongsTo
<1>4. CASE Start
  BY <1>0, <1>4 DEF Start, BelongsTo, NoTickets
<1>5. \/ \E c \in Kiosks, r \in CheckinRequests : AcceptCheckin(c, r)
      \/ TicketStep
      \/ UNCHANGED <<client_tickets_map, ticket_file, drawn>>
      \/ Start
  BY DEF Next, RejectCheckin, HandlerThrows, MalformedTicket, RejectTicket,
         DenyPin, DenyWindow, RedeemTicket, ExpireTimer,
         handle_verification_timeout, Tick, Kill, vars
<1> QED BY <1>1, <1>2, <1>3, <1>4, <1>5

\* No new mail, tickets or admissions: what is held stays held.
LEMMA HeldKept ==
  ASSUME SInv, TicketsHeld, [Next]_vars, shown' = shown,
         \A v \in Roll : admitted'[v] # 0 => admitted[v] # 0,
         \A c \in Clients : outbox'[c] \in {outbox[c], None}
                            /\ inbox'[c] \in {inbox[c], None}
  PROVE  TicketsHeld'
<1>1. \A s \in shown : BelongsTo(s.ticket, s.voter)'
  <2> SUFFICES ASSUME NEW s \in shown PROVE BelongsTo(s.ticket, s.voter)'
    OBVIOUS
  <2>1. s.voter \in Roll /\ BelongsTo(s.ticket, s.voter)
    BY DEF SInv, SystemTypeOK, TicketsHeld
  <2> QED BY <2>1, BelongingStays DEF SInv
<1>2. ASSUME NEW k \in Kiosks, Granted(k)'
      PROVE  BelongsTo(inbox[k].ticket, inbox[k].voter)'
  <2>1. inbox'[k] = inbox[k] /\ Granted(k)
    BY <1>2 DEF Granted, Clients
  <2>2. inbox[k].voter \in Roll /\ BelongsTo(inbox[k].ticket, inbox[k].voter)
    BY <2>1 DEF SInv, GrantsKnown, TicketsHeld
  <2>3. ASSUME NEW t, NEW v \in Roll, BelongsTo(t, v) PROVE BelongsTo(t, v)'
    BY <2>3, BelongingStays DEF SInv
  <2> QED BY <2>1, <2>2, <2>3 DEF BelongsTo
<1>3. \A d \in Trusted : outbox'[d] # None =>
        \E s \in shown' : s.ticket = outbox'[d].ticket
  BY DEF TicketsHeld, Clients
<1>4. \A d \in Trusted : Granted(d)' => WasShown(inbox[d].voter)'
  BY DEF TicketsHeld, Granted, WasShown, Clients
<1>5. \A v \in Roll : admitted'[v] # 0 => WasShown(v)'
  BY DEF TicketsHeld, WasShown
<1> QED BY <1>1, <1>2, <1>3, <1>4, <1>5 DEF TicketsHeld

\* A kiosk's request says nothing of tickets, a device's names one that was shown.
LEMMA CallHolds ==
  ASSUME SInv, TicketsHeld, NEW c \in Clients, NEW r, Call(c, r),
         c \in Trusted => \E s \in shown : s.ticket = r.ticket
  PROVE  TicketsHeld'
<1>0. /\ UNCHANGED vars
      /\ UNCHANGED <<client_tickets_map, ticket_file, drawn>>
      /\ UNCHANGED <<inbox, shown, admitted>>
      /\ outbox' = [outbox EXCEPT ![c] = r]
      /\ outbox \in [Clients -> CheckinRequests \cup TicketRequests \cup {None}]
  BY DEF Call, vars, SInv, SystemTypeOK
<1>1. \A d \in Trusted : outbox'[d] # None =>
        \E s \in shown : s.ticket = outbox'[d].ticket
  BY <1>0 DEF TicketsHeld, Clients
<1> QED BY <1>0, <1>1 DEF TicketsHeld, BelongsTo, Granted, WasShown

\* A ticket reaches a screen, an approval reaches a device.
LEMMA ReceiveHolds ==
  ASSUME SInv, TicketsHeld, NEW c \in Clients, Receive(c) PROVE TicketsHeld'
<1> USE CheckinAssumption
<1>0. /\ UNCHANGED <<client_tickets_map, ticket_file, drawn, outbox>>
      /\ inbox' = [inbox EXCEPT ![c] = None] /\ inbox[c] # None
      /\ inbox \in [Clients -> (Replies \ {NoReply}) \cup {None}]
      /\ admitted \in [Roll -> Nat]
  BY DEF Receive, vars, SInv, SystemTypeOK
<1>1. \A e \in Clients : inbox'[e] # None => inbox'[e] = inbox[e]
  BY <1>0
<1>2. /\ shown \subseteq shown'
      /\ \A s \in shown' : \/ s \in shown
                           \/ /\ c \in Kiosks /\ Granted(c)
                              /\ s.ticket = inbox[c].ticket
                              /\ s.voter = inbox[c].voter
  BY <1>0 DEF Receive, Granted
<1>3. \A t, v : BelongsTo(t, v) => BelongsTo(t, v)'
  BY <1>0 DEF BelongsTo
<1>4. \A v : WasShown(v) => WasShown(v)'
  BY <1>2 DEF WasShown
<1>5. \A s \in shown' : BelongsTo(s.ticket, s.voter)'
  BY <1>2, <1>3 DEF TicketsHeld
<1>6. ASSUME NEW k \in Kiosks, Granted(k)'
      PROVE  BelongsTo(inbox[k].ticket, inbox[k].voter)'
  <2>1. inbox'[k] = inbox[k] /\ Granted(k)
    BY <1>1, <1>6 DEF Granted, Clients
  <2> QED BY <1>0, <2>1 DEF TicketsHeld, BelongsTo
<1>7. \A d \in Trusted : outbox'[d] # None =>
        \E s \in shown' : s.ticket = outbox'[d].ticket
  BY <1>0, <1>2 DEF TicketsHeld
<1>8. \A d \in Trusted : Granted(d)' => WasShown(inbox[d].voter)'
  BY <1>1, <1>2 DEF TicketsHeld, Granted, WasShown, Clients
<1>9. ASSUME NEW v \in Roll, admitted'[v] # 0 PROVE WasShown(v)'
  <2>1. CASE admitted[v] # 0
    BY <1>4, <2>1 DEF TicketsHeld
  <2>2. CASE admitted[v] = 0
    <3>1. c \in Trusted /\ Granted(c) /\ inbox[c].voter = v
      BY <1>0, <1>9, <2>2 DEF Receive, Granted
    <3> QED BY <1>4, <3>1 DEF TicketsHeld
  <2> QED BY <2>1, <2>2
<1> QED BY <1>5, <1>6, <1>7, <1>8, <1>9 DEF TicketsHeld

\* The kiosk is sent the voter's new ticket, or no approval.
LEMMA ServeKioskHolds ==
  ASSUME SInv, SInv', TicketsHeld, NEW k \in Kiosks, ServeKiosk(k)
  PROVE  TicketsHeld'
<1> USE CheckinAssumption
<1>0. /\ [Next]_vars /\ k \in Clients /\ k \notin Trusted
      /\ outbox' = [outbox EXCEPT ![k] = None]
      /\ inbox' = [inbox EXCEPT ![k] = IF reply' = NoReply THEN None ELSE reply']
      /\ UNCHANGED <<shown, admitted>>
      /\ inbox \in [Clients -> (Replies \ {NoReply}) \cup {None}]
      /\ outbox \in [Clients -> CheckinRequests \cup TicketRequests \cup {None}]
  BY ServeKioskIsService
     DEF ServeKiosk, Serve, Clients, SInv, SystemTypeOK
<1>1. \A t, v : v \in Roll /\ BelongsTo(t, v) => BelongsTo(t, v)'
  BY <1>0, BelongingStays DEF SInv
<1>2. \A s \in shown' : BelongsTo(s.ticket, s.voter)'
  <2> SUFFICES ASSUME NEW s \in shown PROVE BelongsTo(s.ticket, s.voter)'
    BY <1>0
  <2>1. s.voter \in Roll /\ BelongsTo(s.ticket, s.voter)
    BY DEF SInv, SystemTypeOK, TicketsHeld
  <2> QED BY <1>1, <2>1
<1>3. ASSUME NEW j \in Kiosks, Granted(j)'
      PROVE  BelongsTo(inbox[j].ticket, inbox[j].voter)'
  <2>1. CASE j # k
    <3>1. inbox'[j] = inbox[j] /\ Granted(j)
      BY <1>0, <1>3, <2>1 DEF Granted, Clients
    <3>2. inbox[j].voter \in Roll /\ BelongsTo(inbox[j].ticket, inbox[j].voter)
      BY <3>1 DEF SInv, GrantsKnown, TicketsHeld
    <3> QED BY <1>1, <3>1, <3>2 DEF BelongsTo
  <2>2. CASE j = k
    <3>1. reply' # NoReply /\ inbox'[k] = reply' /\ reply'.approved
      BY <1>0, <1>3, <2>2 DEF Granted
    <3>2. PICK r \in CheckinRequests : AcceptCheckin(k, r)
      BY <3>1 DEF ServeKiosk, Arrived, SInv, HonestMail, RejectCheckin,
                  CheckinReply
    <3>3. reply' = CheckinReply(k, TRUE, r.voter, drawn')
      BY <3>1, <3>2 DEF AcceptCheckin
    <3>4. inbox'[k].ticket = drawn' /\ inbox'[k].voter = r.voter
      BY <3>1, <3>3 DEF CheckinReply
    <3>5. /\ drawn \in Nat /\ drawn' = drawn + 1 /\ drawn' \in Tickets
          /\ client_tickets_map'[drawn'] = r.voter
          /\ ticket_file'[drawn'] \in {r.voter, None}
      <4>1. /\ drawn \in 0 .. MaxTickets
            /\ client_tickets_map \in [Tickets -> Roll \cup {None}]
            /\ ticket_file \in [Tickets -> Roll \cup {None}]
            /\ drawn + 1 \in Tickets => ticket_file[drawn + 1] = None
        BY DEF SInv, IInv, TypeOK, TicketsInOrder, Tickets
      <4>2. drawn' = drawn + 1 /\ drawn' \in Tickets
        BY <3>2, <4>1 DEF AcceptCheckin, Tickets
      <4> QED BY <3>2, <4>1, <4>2 DEF AcceptCheckin
    <3> QED BY <2>2, <3>4, <3>5 DEF BelongsTo
  <2> QED BY <2>1, <2>2
<1>4. \A d \in Trusted : outbox'[d] # None =>
        \E s \in shown' : s.ticket = outbox'[d].ticket
  BY <1>0 DEF TicketsHeld, Clients
<1>5. \A d \in Trusted : Granted(d)' => WasShown(inbox[d].voter)'
  BY <1>0 DEF TicketsHeld, Granted, WasShown, Clients
<1>6. \A v \in Roll : admitted'[v] # 0 => WasShown(v)'
  BY <1>0 DEF TicketsHeld, WasShown
<1> QED BY <1>2, <1>3, <1>4, <1>5, <1>6 DEF TicketsHeld

\* A device is sent an approval only for the voter its ticket was shown to.
LEMMA ServeDeviceHolds ==
  ASSUME SInv, SInv', TicketsHeld, NEW d \in Trusted, ServeDevice(d)
  PROVE  TicketsHeld'
<1> USE CheckinAssumption
<1>0. /\ [Next]_vars /\ d \in Clients /\ d \notin Kiosks
      /\ outbox' = [outbox EXCEPT ![d] = None]
      /\ inbox' = [inbox EXCEPT ![d] = IF reply' = NoReply THEN None ELSE reply']
      /\ UNCHANGED <<shown, admitted>>
      /\ inbox \in [Clients -> (Replies \ {NoReply}) \cup {None}]
      /\ outbox \in [Clients -> CheckinRequests \cup TicketRequests \cup {None}]
  BY ServeDeviceIsService
     DEF ServeDevice, Serve, Clients, SInv, SystemTypeOK
<1>1. \A t, v : v \in Roll /\ BelongsTo(t, v) => BelongsTo(t, v)'
  BY <1>0, BelongingStays DEF SInv
<1>2. \A s \in shown' : BelongsTo(s.ticket, s.voter)'
  <2> SUFFICES ASSUME NEW s \in shown PROVE BelongsTo(s.ticket, s.voter)'
    BY <1>0
  <2>1. s.voter \in Roll /\ BelongsTo(s.ticket, s.voter)
    BY DEF SInv, SystemTypeOK, TicketsHeld
  <2> QED BY <1>1, <2>1
<1>3. ASSUME NEW j \in Kiosks, Granted(j)'
      PROVE  BelongsTo(inbox[j].ticket, inbox[j].voter)'
  <2>1. inbox'[j] = inbox[j] /\ Granted(j)
    BY <1>0, <1>3 DEF Granted, Clients
  <2>2. inbox[j].voter \in Roll /\ BelongsTo(inbox[j].ticket, inbox[j].voter)
    BY <2>1 DEF SInv, GrantsKnown, TicketsHeld
  <2> QED BY <1>1, <2>1, <2>2 DEF BelongsTo
<1>4. \A e \in Trusted : outbox'[e] # None =>
        \E s \in shown' : s.ticket = outbox'[e].ticket
  BY <1>0 DEF TicketsHeld, Clients
<1>5. ASSUME NEW e \in Trusted, Granted(e)' PROVE WasShown(inbox[e].voter)'
  <2>1. CASE e # d
    <3>1. inbox'[e] = inbox[e] /\ Granted(e)
      BY <1>0, <1>5, <2>1 DEF Granted, Clients
    <3> QED BY <1>0, <3>1 DEF TicketsHeld, WasShown
  <2>2. CASE e = d
    <3>1. reply' # NoReply /\ inbox'[d] = reply' /\ reply'.approved
      BY <1>0, <1>5, <2>2 DEF Granted
    <3> DEFINE r == outbox[d]
    <3>2. RedeemTicket(d, r) /\ r # None /\ r \in TicketRequests
      BY <3>1 DEF ServeDevice, Arrived, SInv, HonestMail, RejectTicket, DenyPin,
                  DenyWindow, TicketReply
    <3>3. PICK s \in shown : s.ticket = r.ticket
      BY <3>2 DEF TicketsHeld
    <3>4. BelongsTo(r.ticket, s.voter)
      BY <3>3 DEF TicketsHeld
    <3>5. /\ read_from_csv[r.ticket] # None
          /\ reply' = TicketReply(d, TRUE, read_from_csv[r.ticket], r.ticket)
      BY <3>2 DEF RedeemTicket, AuthenticTicket
    <3>6. read_from_csv[r.ticket] = s.voter
      BY <3>4, <3>5 DEF BelongsTo, read_from_csv
    <3>7. inbox'[d].voter = s.voter
      BY <3>1, <3>5, <3>6 DEF TicketReply
    <3> QED BY <1>0, <2>2, <3>7 DEF WasShown
  <2> QED BY <2>1, <2>2
<1>6. \A v \in Roll : admitted'[v] # 0 => WasShown(v)'
  BY <1>0 DEF TicketsHeld, WasShown
<1> QED BY <1>2, <1>3, <1>4, <1>5, <1>6 DEF TicketsHeld

\* Every step keeps it, whether or not the process lives on.
LEMMA HeldStep ==
  ASSUME SInv, SInv', TicketsHeld, [SystemNext]_systemVars
  PROVE  TicketsHeld'
<1>0. [Next]_vars
  BY SystemStepIsService
<1>1. ASSUME NEW k \in Kiosks, NEW v \in Uids, CheckIn(k, v) PROVE TicketsHeld'
  <2>1. k \in Clients /\ k \notin Trusted /\ Call(k, CheckinRequest(k, v))
    BY <1>1, CheckinAssumption DEF CheckIn, Clients
  <2> QED BY <2>1, CallHolds
<1>2. ASSUME NEW d \in Trusted, NEW s \in shown, NEW pin \in Pins,
             Present(d, s, pin)
      PROVE  TicketsHeld'
  <2>1. /\ d \in Clients /\ Call(d, TicketRequest(d, s.ticket, pin))
        /\ TicketRequest(d, s.ticket, pin).ticket = s.ticket
    BY <1>2 DEF Present, Clients, TicketRequest
  <2> QED BY <2>1, CallHolds
<1>3. ASSUME NEW c \in Clients, Lose(c) PROVE TicketsHeld'
  <2>1. /\ shown' = shown /\ admitted' = admitted
        /\ \A e \in Clients : outbox'[e] \in {outbox[e], None}
                              /\ inbox'[e] \in {inbox[e], None}
    BY <1>3 DEF Lose, SInv, SystemTypeOK
  <2> QED BY <1>0, <2>1, HeldKept
<1>4. CASE Restart
  <2>1. /\ UNCHANGED <<outbox, inbox, shown>>
        /\ \A v \in Roll : admitted'[v] = 0
    BY <1>4 DEF Restart
  <2> QED BY <1>0, <2>1, HeldKept
<1>5. CASE ServiceAlone \/ Cleanup \/ UNCHANGED systemVars
  <2>1. UNCHANGED <<outbox, inbox, shown, admitted>>
    BY <1>5 DEF ServiceAlone, Cleanup, systemVars, clientVars
  <2> QED BY <1>0, <2>1, HeldKept
<1> QED
  BY <1>1, <1>2, <1>3, <1>4, <1>5, ReceiveHolds, ServeKioskHolds,
     ServeDeviceHolds
     DEF SystemNext

\* Whom the devices let in: a voter to whom a kiosk has shown a ticket.
AdmittedWasShown == \A v \in Roll : admitted[v] # 0 => WasShown(v)

\* Nobody is admitted on another voter's ticket, nor on one that no kiosk has
\* shown, through delays, lost mail, failed writes of the ticket file, restarts
\* and the reload of the file before every redemption.
THEOREM AdmittedWasShownHolds == SystemSpec => []AdmittedWasShown
<1>1. SystemInit => TicketsHeld
  BY CheckinAssumption
     DEF SystemInit, TicketsHeld, Granted, Clients
<1>2. SInv /\ SInv' /\ TicketsHeld /\ [SystemNext]_systemVars => TicketsHeld'
  BY HeldStep
<1>3. TicketsHeld => AdmittedWasShown
  BY DEF TicketsHeld, AdmittedWasShown
<1> QED BY <1>1, <1>2, <1>3, SystemInvariance, PTL DEF SystemSpec

----------------------------------------------------------------------------
(* How long a record without new faults stays *)

\* The next round of the cleanup thread is at most one sleep away, and it comes
\* before any record is older than the threshold and one sleep.
RoundsInTime ==
  /\ wake <= now + SLEEP
  /\ \A c \in Clients : clientMap[c] # None =>
       wake <= clientMap[c] + cleanup_threshold + SLEEP

\* While the cleanup thread is not late, no record is older than the threshold
\* and one sleep: the safety part of OldRecordsGo.
NoStaleRecord ==
  now <= wake =>
    \A c \in Clients : clientMap[c] # None =>
      now - clientMap[c] <= cleanup_threshold + SLEEP

\* Every step keeps the rounds in time: a report makes a record that is due
\* later, and a round keeps only records that live until the next one.
LEMMA RoundsStep ==
  ASSUME SInv, SInv', RoundsInTime, [SystemNext]_systemVars
  PROVE  RoundsInTime'
<1> USE SystemAssumption
<1>0. /\ clientMap \in [Clients -> Nat \cup {None}] /\ wake \in Nat
      /\ now \in Nat /\ now' \in Nat /\ now' >= now
  BY SystemStepIsService, ClockStep DEF SInv, SystemTypeOK
<1>1. ASSUME UNCHANGED trackerVars PROVE RoundsInTime'
  <2>1. clientMap' = clientMap /\ wake' = wake
    BY <1>1 DEF trackerVars
  <2> QED BY <1>0, <2>1 DEF RoundsInTime
<1>2. ASSUME Track, now' = now, fault' \in Clients \cup {None}
      PROVE  RoundsInTime'
  <2>1. CASE fault' = None
    BY <1>1, <1>2, <2>1 DEF Track
  <2>2. CASE fault' # None
    <3>1. clientMap' = [clientMap EXCEPT ![fault'] = now] /\ wake' = wake
      BY <1>2, <2>2 DEF Track, Tracker!reportFault, Tracker!Refreshed
    <3> QED BY <1>0, <1>2, <3>1 DEF RoundsInTime
  <2> QED BY <2>1, <2>2
<1>3. ASSUME (\E k \in Kiosks : ServeKiosk(k)) \/ (\E d \in Trusted : ServeDevice(d))
      PROVE  RoundsInTime'
  <2>1. Track /\ now' = now
    BY <1>3 DEF ServeKiosk, ServeDevice, Serve, AcceptCheckin, RejectCheckin,
                RejectTicket, DenyPin, DenyWindow, RedeemTicket, TicketStep
  <2>2. fault' \in Clients \cup {None}
    BY DEF SInv, IInv, TypeOK
  <2> QED BY <1>2, <2>1, <2>2
<1>4. CASE Restart
  <2>1. /\ clientMap' = [c \in Clients |-> None] /\ wake' = now
    BY <1>4 DEF Restart, Tracker!NoRecords
  <2> QED BY <1>0, <2>1 DEF RoundsInTime
<1>5. CASE Cleanup
  <2>1. /\ clientMap' = [c \in Clients |->
             IF clientMap[c] # None /\ now - clientMap[c] > cleanup_threshold
             THEN None ELSE clientMap[c]]
        /\ wake' = now + SLEEP /\ now' = now
    BY <1>5 DEF Cleanup, vars, Tracker!CleanupRound, Tracker!clearOldRecords,
                Tracker!Old
  <2> QED BY <1>0, <2>1 DEF RoundsInTime
<1>6. CASE \/ \E k \in Kiosks, v \in Uids : CheckIn(k, v)
           \/ \E d \in Trusted, s \in shown, pin \in Pins : Present(d, s, pin)
           \/ \E c \in Clients : Receive(c) \/ Lose(c)
           \/ ServiceAlone
           \/ UNCHANGED systemVars
  BY <1>1, <1>6 DEF CheckIn, Present, Call, Receive, Lose, ServiceAlone,
                    systemVars
<1> QED BY <1>3, <1>4, <1>5, <1>6 DEF SystemNext

\* A record is gone one threshold and one sleep after its last report, as long
\* as the cleanup thread wakes in time.
THEOREM NoStaleRecordHolds == SystemSpec => []NoStaleRecord
<1>1. SystemInit => RoundsInTime
  BY CheckinAssumption, SystemAssumption
     DEF SystemInit, Init, Tracker!TrackerInit, Tracker!NoRecords, RoundsInTime
<1>2. SInv /\ SInv' /\ RoundsInTime /\ [SystemNext]_systemVars => RoundsInTime'
  BY RoundsStep
<1>3. SInv /\ RoundsInTime => NoStaleRecord
  BY SystemAssumption
     DEF RoundsInTime, NoStaleRecord, SInv, SystemTypeOK, IInv, TypeOK
<1> QED BY <1>1, <1>2, <1>3, SystemInvariance, PTL DEF SystemSpec
=============================================================================
