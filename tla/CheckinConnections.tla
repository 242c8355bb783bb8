------------------------- MODULE CheckinConnections -------------------------
(***************************************************************************)
(* The transport side of the check-in service: the accept loop, the TLS    *)
(* handshake handler with its tables of client IDs, keys and client types, *)
(* the two chained reads of a message (size line, payload line) and the    *)
(* dispatch of a complete message by client type.  What the dispatched     *)
(* handlers do with voters and tickets is module CheckinService; here they *)
(* may file a fault against the sender, re-arm the read or throw.          *)
(*                                                                         *)
(* An accepted stream stays in client_ssl_streams forever (an error only   *)
(* erases from client_sockets, which is always empty), so every stream     *)
(* costs a descriptor for the life of the process.                         *)
(***************************************************************************)
EXTENDS Integers, FiniteSets

CONSTANTS
  Endpoints,     \* peer addresses (ip and port); they can be used again
  Ids,           \* numeric client IDs
  trusted_clients,
  Keys,          \* public keys
  MaxStreams,    \* the descriptors available for accepted sockets
  MaxBoots,      \* bound: how often the service is started
  None,
  Torn           \* a key file that cannot be parsed

ASSUME ConnectionsAssumption ==
  /\ trusted_clients \subseteq Ids
  /\ None \notin Ids \cup Keys
  /\ Torn \notin Keys \cup {None}
  /\ IsFiniteSet(Endpoints)
  /\ MaxStreams \in Nat
  /\ MaxBoots \in Nat

VARIABLES
  running,             \* "up", "killed" or "threw"
  boot,
  acceptor,            \* "armed", "handshaking" or "lost"
  peer,                \* the endpoint in the handshake, or None
  read_state,          \* endpoint -> "none", "size", "payload" or "idle"
  presented,           \* endpoint -> the ID its certificate showed, or None
  client_id_map,       \* endpoint -> client ID
  client_public_keys,  \* client ID -> key
  client_verifiers,    \* client ID -> key the verifier was built from
  clients,             \* client ID -> client type
  key_files,           \* client ID -> key in the keys folder
  client_id,           \* the member: the ID of the last dispatched client
  fault,               \* the client the last step reported to the FaultTracker
  sender               \* what the last step dispatched: endpoint and ID

tables == <<client_public_keys, client_verifiers, clients, key_files>>
vars == <<running, boot, acceptor, peer, read_state, presented, client_id_map,
          tables, client_id, fault, sender>>

NoSender == [ep |-> None, id |-> None]

\* A fresh process: nothing is known but what load_client_public_keys found.
\* The member client_id is not initialised.
Fresh(loaded) ==
  /\ acceptor' = "armed"
  /\ peer' = None
  /\ read_state' = [e \in Endpoints |-> "none"]
  /\ presented' = [e \in Endpoints |-> None]
  /\ client_id_map' = [e \in Endpoints |-> None]
  /\ client_public_keys' = loaded
  /\ client_verifiers' = loaded
  /\ clients' = [i \in Ids |-> None]
  /\ client_id' \in Ids
  /\ fault' = None
  /\ sender' = NoSender

Init ==
  /\ running = "up"
  /\ boot = 1
  /\ acceptor = "armed"
  /\ peer = None
  /\ read_state = [e \in Endpoints |-> "none"]
  /\ presented = [e \in Endpoints |-> None]
  /\ client_id_map = [e \in Endpoints |-> None]
  /\ client_public_keys = [i \in Ids |-> None]
  /\ client_verifiers = [i \in Ids |-> None]
  /\ clients = [i \in Ids |-> None]
  /\ key_files = [i \in Ids |-> None]
  /\ client_id \in Ids
  /\ fault = None
  /\ sender = NoSender

\* The open server-side sockets: every accepted stream that was not replaced.
Open == {e \in Endpoints : read_state[e] # "none"}

\* What is done with a report is the FaultTracker's business.
reportFault(i) == fault' = i
NoFault == fault' = None

Threw ==
  /\ running' = "threw"
  /\ sender' = NoSender
  /\ NoFault
  /\ UNCHANGED <<boot, acceptor, peer, read_state, presented, client_id_map,
                 tables, client_id>>

----------------------------------------------------------------------------
(* The accept loop and the handshake *)

\* handle_accept without an error.  An endpoint comes back only after its
\* earlier connection is gone.
AcceptConnection(e) ==
  /\ running = "up" /\ acceptor = "armed"
  /\ read_state[e] \in {"none", "idle"}
  /\ Cardinality(Open) < MaxStreams
  /\ acceptor' = "handshaking"
  /\ peer' = e
  /\ sender' = NoSender
  /\ NoFault
  /\ UNCHANGED <<running, boot, read_state, presented, client_id_map, tables, client_id>>

\* The peer reset the connection before handle_accept ran: remote_endpoint()
\* throws.
AcceptVanished == running = "up" /\ acceptor = "armed" /\ Threw

\* handle_accept with an error: it returns, and no other accept is started.
\* Any error does, at any time: no descriptor left in the process (streams,
\* query sessions and files share them) or in the system, no memory, a network
\* error of the new connection.
AcceptError ==
  /\ running = "up" /\ acceptor = "armed"
  /\ acceptor' = "lost"
  /\ sender' = NoSender
  /\ NoFault
  /\ UNCHANGED <<running, boot, peer, read_state, presented, client_id_map,
                 tables, client_id>>

\* Mutant of HandshakeFailed: the handler returns without do_accept.
HandshakeFailedReturns ==
  /\ running = "up" /\ acceptor = "handshaking"
  /\ acceptor' = "lost"
  /\ peer' = None
  /\ reportFault(client_id)
  /\ sender' = NoSender
  /\ UNCHANGED <<running, boot, read_state, presented, client_id_map, tables,
                 client_id>>

\* The fault goes to the member client_id: the failed peer has no ID yet.
HandshakeFailed ==
  /\ running = "up" /\ acceptor = "handshaking"
  /\ acceptor' = "armed"
  /\ peer' = None
  /\ reportFault(client_id)
  /\ sender' = NoSender
  /\ UNCHANGED <<running, boot, read_state, presented, client_id_map, tables,
                 client_id>>

\* The end of the handshake handler, for every certificate.
StartReading ==
  /\ running = "up" /\ acceptor = "handshaking"
  /\ acceptor' = "armed"
  /\ peer' = None
  /\ read_state' = [read_state EXCEPT ![peer] = "size"]
  /\ sender' = NoSender
  /\ UNCHANGED <<running, boot, client_id>>

\* SSL_VERIFY_PEER asks for a certificate but does not insist on one.
HandshakeAnonymous ==
  /\ StartReading
  /\ presented' = [presented EXCEPT ![peer] = None]
  /\ UNCHANGED <<client_id_map, tables>>
  /\ NoFault

\* A common name without a number after the first blank: std::stoul throws.
HandshakeBadName ==
  running = "up" /\ acceptor = "handshaking" /\ Threw

ClientTypeOf(i) ==
  IF i \in trusted_clients THEN "TrustedClient" ELSE "UntrustedClient"

\* save_pub_key: the file is written, cannot be opened, or is left truncated.
save_pub_key(i, k) ==
  key_files' \in {[key_files EXCEPT ![i] = f] : f \in {k, key_files[i], Torn}}

\* Mutants of RegisterKey: a verifier of the presented key is installed
\* although another key is pinned; the pinned key is replaced.
RegisterKeyForgetsPin(i, k) ==
  /\ client_public_keys' = [client_public_keys EXCEPT ![i] =
                              IF @ = None THEN k ELSE @]
  /\ client_verifiers' = [client_verifiers EXCEPT ![i] = k]
  /\ UNCHANGED key_files
  /\ NoFault
RegisterKeyReplaces(i, k) ==
  /\ client_public_keys' = [client_public_keys EXCEPT ![i] = k]
  /\ client_verifiers' = [client_verifiers EXCEPT ![i] = k]
  /\ save_pub_key(i, k)
  /\ NoFault

\* try_emplace on client_public_keys and its three outcomes; emplace leaves an
\* existing verifier alone.
RegisterKey(i, k) ==
  \/ /\ client_public_keys[i] = None
     /\ client_public_keys' = [client_public_keys EXCEPT ![i] = k]
     /\ client_verifiers' = [client_verifiers EXCEPT ![i] =
                               IF @ = None THEN k ELSE @]
     /\ save_pub_key(i, k)
     /\ NoFault
  \/ /\ client_public_keys[i] = k
     /\ client_verifiers' = [client_verifiers EXCEPT ![i] =
                               IF @ = None THEN k ELSE @]
     /\ UNCHANGED <<client_public_keys, key_files>>
     /\ NoFault
  \/ /\ client_public_keys[i] \notin {None, k}
     /\ reportFault(i)
     /\ UNCHANGED <<client_public_keys, client_verifiers, key_files>>

\* Mutant of AddClient: the client is added when its key could not be read.
AddClientAlways(i, k) ==
  clients' = [clients EXCEPT ![i] = IF @ = None THEN ClientTypeOf(i) ELSE @]

\* A client is added once, with its key, and keeps its type.
AddClient(i, k) ==
  clients' = [clients EXCEPT ![i] =
                IF @ = None /\ k # None THEN ClientTypeOf(i) ELSE @]

\* Mutant of RecordId: emplace, which keeps the ID of an earlier connection.
RecordIdOnce(e, i) ==
  client_id_map' = [client_id_map EXCEPT ![e] = IF @ = None THEN i ELSE @]

\* The assignment to the endpoint's entry, whatever it held.
RecordId(e, i) == client_id_map' = [client_id_map EXCEPT ![e] = i]

\* A certificate with ID i.  X509_get_pubkey can fail: k = None.
HandshakeCertified(i, k) ==
  /\ StartReading
  /\ presented' = [presented EXCEPT ![peer] = i]
  /\ RecordId(peer, i)
  /\ IF k = None
     THEN NoFault /\ UNCHANGED <<client_public_keys, client_verifiers, key_files>>
     ELSE RegisterKey(i, k)
  /\ AddClient(i, k)

----------------------------------------------------------------------------
(* Reading and dispatching messages *)

ReadTo(e, s) == read_state' = [read_state EXCEPT ![e] = s]

\* The size line arrives, or the peer is gone and nothing is read any more.
ReadSize(e) ==
  /\ running = "up" /\ read_state[e] = "size"
  /\ ReadTo(e, "payload") \/ ReadTo(e, "idle")
  /\ sender' = NoSender
  /\ NoFault
  /\ UNCHANGED <<running, boot, acceptor, peer, presented, client_id_map,
                 tables, client_id>>

\* A size line that is not a number: std::stoul throws.
ReadBadSize(e) == running = "up" /\ read_state[e] = "size" /\ Threw

\* A size mismatch or an I/O error is a fault of the member client_id; a
\* disconnect is not.  The connection stays open and is not read again.
ReadPayloadFails(e) ==
  /\ running = "up" /\ read_state[e] = "payload"
  /\ ReadTo(e, "idle")
  /\ reportFault(client_id) \/ NoFault
  /\ sender' = NoSender
  /\ UNCHANGED <<running, boot, acceptor, peer, presented, client_id_map,
                 tables, client_id>>

\* A complete payload from an endpoint without ID, or with an ID that was never
\* added to clients.
DispatchUnknown(e) ==
  /\ running = "up" /\ read_state[e] = "payload"
  /\ \/ /\ client_id_map[e] = None
        /\ reportFault(client_id)
        /\ UNCHANGED client_id
     \/ /\ client_id_map[e] # None
        /\ clients[client_id_map[e]] = None
        /\ client_id' = client_id_map[e]
        /\ reportFault(client_id')
  /\ ReadTo(e, "idle")
  /\ sender' = NoSender
  /\ UNCHANGED <<running, boot, acceptor, peer, presented, client_id_map,
                 tables>>

\* A complete payload of a known client goes to the handler of its type.  A
\* trusted client gets no further read; after a check-in request the size read
\* is started again.  Both handlers can throw (the verifier, the codec, the
\* response).
Dispatch(e) ==
  LET i == client_id_map[e] IN
  /\ running = "up" /\ read_state[e] = "payload"
  /\ i # None
  /\ clients[i] # None
  /\ client_id' = i
  /\ sender' = [ep |-> e, id |-> i]
  /\ reportFault(i) \/ NoFault
  /\ \/ /\ clients[i] = "TrustedClient"
        /\ ReadTo(e, "idle")
        /\ UNCHANGED running
     \/ /\ clients[i] = "UntrustedClient"
        /\ ReadTo(e, "size")
        /\ UNCHANGED running
     \/ /\ running' = "threw"
        /\ UNCHANGED read_state
  /\ UNCHANGED <<boot, acceptor, peer, presented, client_id_map, tables>>

----------------------------------------------------------------------------
(* The process *)

Kill ==
  /\ running = "up"
  /\ running' = "killed"
  /\ sender' = NoSender
  /\ NoFault
  /\ UNCHANGED <<boot, acceptor, peer, read_state, presented, client_id_map,
                 tables, client_id>>

\* Mutant of Loadable: a file is taken whether it parses or not.
LoadableUnparsed == {{i \in Ids : key_files[i] # None}}

\* load_client_public_keys: directory order is arbitrary and the loop ends at
\* the first file that does not parse.
Loadable ==
  LET good == {i \in Ids : key_files[i] \in Keys} IN
  IF \E i \in Ids : key_files[i] = Torn THEN SUBSET good ELSE {good}

Start ==
  /\ running # "up"
  /\ boot < MaxBoots
  /\ running' = "up"
  /\ boot' = boot + 1
  /\ \E read \in Loadable :
       Fresh([i \in Ids |-> IF i \in read THEN key_files[i] ELSE None])
  /\ UNCHANGED key_files

Next ==
  \/ \E e \in Endpoints : AcceptConnection(e)
  \/ AcceptVanished
  \/ AcceptError
  \/ HandshakeFailed
  \/ HandshakeAnonymous
  \/ HandshakeBadName
  \/ \E i \in Ids, k \in Keys \cup {None} : HandshakeCertified(i, k)
  \/ \E e \in Endpoints : \/ ReadSize(e)
                          \/ ReadBadSize(e)
                          \/ ReadPayloadFails(e)
                          \/ DispatchUnknown(e)
                          \/ Dispatch(e)
  \/ Kill
  \/ Start

Spec == Init /\ [][Next]_vars

----------------------------------------------------------------------------
(* Properties *)

\* Type correctness.
TypeOK ==
  /\ running \in {"up", "killed", "threw"}
  /\ boot \in Nat
  /\ acceptor \in {"armed", "handshaking", "lost"}
  /\ peer \in Endpoints \cup {None}
  /\ acceptor = "handshaking" => peer \in Endpoints
  /\ read_state \in [Endpoints -> {"none", "size", "payload", "idle"}]
  /\ presented \in [Endpoints -> Ids \cup {None}]
  /\ client_id_map \in [Endpoints -> Ids \cup {None}]
  /\ client_public_keys \in [Ids -> Keys \cup {None}]
  /\ client_verifiers \in [Ids -> Keys \cup {None}]
  /\ clients \in [Ids -> {"TrustedClient", "UntrustedClient", None}]
  /\ key_files \in [Ids -> Keys \cup {None, Torn}]
  /\ client_id \in Ids
  /\ fault \in Ids \cup {None}

\* The verifier of a client is always built from the key pinned for it, however
\* the two tables were filled: from files, at a first handshake, or at a later
\* handshake with the same or another key.
VerifierUsesPinnedKey == client_verifiers = client_public_keys

\* A client whose messages are dispatched has a verifier, so the handlers find
\* one and their fallback (load the key file named in the request) never runs.
DispatchedHasVerifier ==
  \A i \in Ids : clients[i] # None => client_verifiers[i] # None

\* A message that came over a connection with a certificate is dispatched with
\* the ID of that certificate and not with one that an earlier connection from
\* the same endpoint left in client_id_map, which is never cleared.  (Without a
\* certificate the earlier ID is used.)
DispatchIdIsCertified ==
  sender # NoSender /\ presented[sender.ep] # None =>
    sender.id = presented[sender.ep]

KeepsPins ==
  \A i \in Ids : client_public_keys[i] # None /\ boot' = boot =>
                   client_public_keys'[i] = client_public_keys[i]

\* Within one run of the service the first key seen for a client stays.
FirstKeyStays == [][KeepsPins]_vars

StopsAtAcceptError ==
  acceptor # "lost" /\ acceptor' = "lost" => AcceptError

\* Only a failed accept ends the accept chain (accept, handshake, next accept):
\* no handshake, whatever its certificate or its failure, no read and no
\* dispatched handler leaves the service running with nothing outstanding.
OnlyAcceptErrorStopsListening == [][StopsAtAcceptError]_vars

----------------------------------------------------------------------------
(* A statement of a comment that the code does not keep. *)

\* load_client_public_keys loads "all .pem files found": every key file that
\* parses is in the table.
AllKeyFilesLoaded ==
  \A i \in Ids : key_files[i] \in Keys => client_public_keys[i] = key_files[i]
=============================================================================
