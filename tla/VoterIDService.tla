--------------------------- MODULE VoterIDService ---------------------------
(***************************************************************************)
(* The voter-ID service: accept loop, handshake with its key tables, the   *)
(* chained reads, and the validation of a request up to the signed         *)
(* statement that links a presented ID to a voter.                         *)
(*                                                                         *)
(* It differs from the check-in service in what it forgets.  A request's   *)
(* client ID is not compared with the certificate, a missing verifier is   *)
(* fetched from the key file of the ID in the request, a failed read       *)
(* erases the stream, and after one request a connection is not read       *)
(* again.                                                                  *)
(***************************************************************************)
EXTENDS Integers, FiniteSets

CONSTANTS
  Endpoints,         \* peer addresses (ip and port); they can be used again
  Ids,               \* numeric client IDs
  Keys,              \* public keys
  Requests,          \* the validation requests clients may send
  Uids,              \* the values a uint32_t voter ID can take
  INVALID_VOTER_ID,
  voter_data,        \* voter ID -> name, as loaded from the voter list
  MaxStreams,        \* the descriptors available for accepted sockets
  MaxBoots,          \* bound: how often the service is started
  None,
  Torn               \* a key file that cannot be parsed

\* uid is the number in the first four bytes of the ID data, None when the data
\* is shorter.  Names are compared without regard to case, so a name stands for
\* all its spellings.
ASSUME VoterIDAssumption ==
  /\ INVALID_VOTER_ID \in Uids
  /\ DOMAIN voter_data \subseteq Uids
  /\ Requests \subseteq
       [client_id_num : Ids, signed_by : Keys, fresh : BOOLEAN,
        uid : Uids \cup {None}, name : {voter_data[u] : u \in DOMAIN voter_data}]
  /\ None \notin Endpoints \cup Ids \cup Keys \cup Uids
  /\ Torn \notin Keys \cup {None}
  /\ MaxStreams \in Nat
  /\ MaxBoots \in Nat

VARIABLES
  running,             \* "up", "killed" or "threw"
  boot,
  acceptor,            \* "armed", "handshaking" or "lost"
  peer,                \* the endpoint in the handshake, or None
  client_ssl_streams,  \* the endpoints with a stream
  read_state,          \* endpoint -> "none", "size" or "payload"
  presented,           \* endpoint -> the ID registered at its handshake, or None
  client_public_keys,  \* client ID -> key
  client_verifiers,    \* client ID -> key the verifier was built from
  key_files,           \* client ID -> key in the keys folder
  statement            \* the VerifiedVoterID the last step signed, if any

keys == <<client_public_keys, client_verifiers, key_files>>
conns == <<acceptor, peer, client_ssl_streams, read_state, presented>>
vars == <<running, boot, conns, keys, statement>>

Init ==
  /\ running = "up"
  /\ boot = 1
  /\ acceptor = "armed"
  /\ peer = None
  /\ client_ssl_streams = {}
  /\ read_state = [e \in Endpoints |-> "none"]
  /\ presented = [e \in Endpoints |-> None]
  /\ client_public_keys = [i \in Ids |-> None]
  /\ client_verifiers = [i \in Ids |-> None]
  /\ key_files = [i \in Ids |-> None]
  /\ statement = None

\* An exception leaves run().
Ends(how) ==
  /\ running' = how
  /\ statement' = None
  /\ UNCHANGED <<boot, conns, keys>>

----------------------------------------------------------------------------
(* The accept loop and the handshake *)

\* An endpoint comes back only after its earlier connection is no longer read.
AcceptConnection(e) ==
  /\ running = "up" /\ acceptor = "armed"
  /\ read_state[e] = "none"
  /\ Cardinality(client_ssl_streams) < MaxStreams
  /\ acceptor' = "handshaking"
  /\ peer' = e
  /\ statement' = None
  /\ UNCHANGED <<running, boot, client_ssl_streams, read_state, presented, keys>>

\* remote_endpoint() throws when the peer is already gone.
AcceptVanished == running = "up" /\ acceptor = "armed" /\ Ends("threw")

\* Any accept error is logged and no other accept is started.
AcceptError ==
  /\ running = "up" /\ acceptor = "armed"
  /\ acceptor' = "lost"
  /\ statement' = None
  /\ UNCHANGED <<running, boot, peer, client_ssl_streams, read_state, presented,
                 keys>>

HandshakeFailed ==
  /\ running = "up" /\ acceptor = "handshaking"
  /\ acceptor' = "armed"
  /\ peer' = None
  /\ statement' = None
  /\ UNCHANGED <<running, boot, client_ssl_streams, read_state, presented, keys>>

\* The end of a successful handshake; id is the ID whose key was registered.
StartReading(id) ==
  /\ running = "up" /\ acceptor = "handshaking"
  /\ acceptor' = "armed"
  /\ peer' = None
  /\ client_ssl_streams' = client_ssl_streams \cup {peer}
  /\ read_state' = [read_state EXCEPT ![peer] = "size"]
  /\ presented' = [presented EXCEPT ![peer] = id]
  /\ statement' = None
  /\ UNCHANGED <<running, boot>>

\* No certificate, or one whose key cannot be extracted.
HandshakeWithoutKey == StartReading(None) /\ UNCHANGED keys

\* std::stoul throws on the common name.
HandshakeBadName ==
  running = "up" /\ acceptor = "handshaking" /\ Ends("threw")

\* save_pub_key: the file is written, cannot be opened, or is left truncated.
save_pub_key(i, k) ==
  key_files' \in {[key_files EXCEPT ![i] = f] : f \in {k, key_files[i], Torn}}

\* Mutants of AddVerifier: the map entry is assigned; nothing is added.
AddVerifierAssigns(i, k) ==
  client_verifiers' = [client_verifiers EXCEPT ![i] = k]
AddVerifierForgets(i, k) == UNCHANGED client_verifiers

\* emplace leaves an existing verifier alone.
AddVerifier(i, k) ==
  client_verifiers' = [client_verifiers EXCEPT ![i] = IF @ = None THEN k ELSE @]

\* try_emplace on client_public_keys and its three outcomes.
HandshakeCertified(i, k) ==
  /\ StartReading(i)
  /\ \/ /\ client_public_keys[i] = None
        /\ client_public_keys' = [client_public_keys EXCEPT ![i] = k]
        /\ AddVerifier(i, k)
        /\ save_pub_key(i, k)
     \/ /\ client_public_keys[i] = k
        /\ AddVerifier(i, k)
        /\ UNCHANGED <<client_public_keys, key_files>>
     \/ /\ client_public_keys[i] \notin {None, k}
        /\ UNCHANGED keys

----------------------------------------------------------------------------
(* Reading and validating a request *)

StopReading(e) == read_state' = [read_state EXCEPT ![e] = "none"]

ReadSize(e) ==
  /\ running = "up" /\ read_state[e] = "size"
  /\ read_state' = [read_state EXCEPT ![e] = "payload"]
  /\ statement' = None
  /\ UNCHANGED <<running, boot, acceptor, peer, client_ssl_streams, presented,
                 keys>>

\* Mutant of ReadFails: the stream is erased and its size read started again.
ReadFailsRetries(e) ==
  /\ running = "up" /\ read_state[e] # "none"
  /\ read_state' = [read_state EXCEPT ![e] = "size"]
  /\ client_ssl_streams' = client_ssl_streams \ {e}
  /\ statement' = None
  /\ UNCHANGED <<running, boot, acceptor, peer, presented, keys>>

\* A disconnect, or a payload of another size, erases the stream; any other
\* error keeps it.
ReadFails(e) ==
  /\ running = "up" /\ read_state[e] # "none"
  /\ StopReading(e)
  /\ \/ client_ssl_streams' = client_ssl_streams \ {e}
     \/ UNCHANGED client_ssl_streams
  /\ statement' = None
  /\ UNCHANGED <<running, boot, acceptor, peer, presented, keys>>

\* A size line that is no number, a payload that is no request, a signature
\* that OpenSSL cannot process: std::stoul, json::parse, FromJson or
\* Verifier::finalize throws.
ReadMalformed(e) ==
  running = "up" /\ read_state[e] # "none" /\ Ends("threw")

\* validate_and_match_id_data copies four bytes without looking at the length:
\* for shorter data the number is arbitrary (or the process ends, as above).
MatchedIds(r) == IF r.uid = None THEN Uids ELSE {r.uid}

\* Mutant of Valid: a voter who is not on file matches every name.
ValidWithoutRecord(r, u) ==
  /\ r.fresh
  /\ u # INVALID_VOTER_ID
  /\ u \in DOMAIN voter_data => voter_data[u] = r.name

\* Freshness, INVALID_VOTER_ID and validate_voter_name.
Valid(r, u) ==
  /\ r.fresh
  /\ u # INVALID_VOTER_ID
  /\ u \in DOMAIN voter_data
  /\ voter_data[u] = r.name

\* The verifier that handle_validation_request uses, after the lookup in the
\* key folder for a client that has none.
KeyFor(i) ==
  IF client_verifiers[i] # None THEN client_verifiers[i] ELSE key_files[i]

\* A complete request.  No refusal is answered, and no other read is started.
HandleRequest(e) ==
  /\ running = "up" /\ read_state[e] = "payload"
  /\ StopReading(e)
  /\ UNCHANGED <<boot, acceptor, peer, client_ssl_streams, presented,
                 client_public_keys, key_files>>

RejectData(e, r) ==
  /\ HandleRequest(e)
  /\ \E u \in MatchedIds(r) : ~Valid(r, u)
  /\ statement' = None
  /\ UNCHANGED <<running, client_verifiers>>

\* The key file does not parse: openssl_error is caught.
RejectKeyFile(e, r) ==
  /\ HandleRequest(e)
  /\ \E u \in MatchedIds(r) : Valid(r, u)
  /\ KeyFor(r.client_id_num) = Torn
  /\ statement' = None
  /\ UNCHANGED <<running, client_verifiers>>

\* There is no key file: from_pem_public throws file_not_found, which is no
\* openssl_error.
MissingKeyFile(e, r) ==
  /\ running = "up" /\ read_state[e] = "payload"
  /\ \E u \in MatchedIds(r) : Valid(r, u)
  /\ KeyFor(r.client_id_num) = None
  /\ Ends("threw")

RejectSignature(e, r) ==
  /\ HandleRequest(e)
  /\ \E u \in MatchedIds(r) : Valid(r, u)
  /\ KeyFor(r.client_id_num) \in Keys \ {r.signed_by}
  /\ AddVerifier(r.client_id_num, KeyFor(r.client_id_num))
  /\ statement' = None
  /\ UNCHANGED running

\* The signed statement; asio::write throws when the peer is gone.
Approve(e, r) ==
  /\ HandleRequest(e)
  /\ \E u \in MatchedIds(r) :
       /\ Valid(r, u)
       /\ statement' = [request |-> r, voter_unique_id |-> u]
  /\ KeyFor(r.client_id_num) = r.signed_by
  /\ AddVerifier(r.client_id_num, KeyFor(r.client_id_num))
  /\ UNCHANGED running \/ running' = "threw"

----------------------------------------------------------------------------
(* The process *)

Kill == running = "up" /\ Ends("killed")

\* load_client_public_keys: directory order is arbitrary and the loop ends at
\* the first file that does not parse.
Loadable ==
  LET good == {i \in Ids : key_files[i] \in Keys} IN
  IF \E i \in Ids : key_files[i] = Torn THEN SUBSET good ELSE {good}

Start ==
  /\ running # "up"
  /\ boot < MaxBoots
  /\ running' = "up"
  /\ boot' = boot + 1
  /\ acceptor' = "armed"
  /\ peer' = None
  /\ client_ssl_streams' = {}
  /\ read_state' = [e \in Endpoints |-> "none"]
  /\ presented' = [e \in Endpoints |-> None]
  /\ \E read \in Loadable :
       client_verifiers' = [i \in Ids |-> IF i \in read THEN key_files[i]
                                                        ELSE None]
  /\ client_public_keys' = client_verifiers'
  /\ statement' = None
  /\ UNCHANGED key_files

Next ==
  \/ \E e \in Endpoints : AcceptConnection(e)
  \/ AcceptVanished
  \/ AcceptError
  \/ HandshakeFailed
  \/ HandshakeWithoutKey
  \/ HandshakeBadName
  \/ \E i \in Ids, k \in Keys : HandshakeCertified(i, k)
  \/ \E e \in Endpoints : ReadSize(e) \/ ReadFails(e) \/ ReadMalformed(e)
  \/ \E e \in Endpoints, r \in Requests :
       \/ RejectData(e, r)
       \/ RejectKeyFile(e, r)
       \/ MissingKeyFile(e, r)
       \/ RejectSignature(e, r)
       \/ Approve(e, r)
  \/ Kill
  \/ Start

Spec == Init /\ [][Next]_vars

----------------------------------------------------------------------------
(* Properties *)

\* Type correctness.
TypeOK ==
  /\ running \in {"up", "killed", "threw"}
  /\ boot \in Nat
  /\ acceptor \in {"armed", "handshaking", "lost"}
  /\ peer \in Endpoints \cup {None}
  /\ acceptor = "handshaking" => peer \in Endpoints
  /\ client_ssl_streams \subseteq Endpoints
  /\ read_state \in [Endpoints -> {"none", "size", "payload"}]
  /\ presented \in [Endpoints -> Ids \cup {None}]
  /\ client_public_keys \in [Ids -> Keys \cup {None}]
  /\ client_verifiers \in [Ids -> Keys \cup {None}]
  /\ key_files \in [Ids -> Keys \cup {None, Torn}]
  /\ statement = None \/ statement.voter_unique_id \in DOMAIN voter_data

\* Every pending read has its stream: client_ssl_streams.at never throws,
\* although failed reads erase streams and endpoints come back.
ReadHasStream ==
  \A e \in Endpoints : read_state[e] # "none" => e \in client_ssl_streams

\* A client that showed a certificate and uses its own ID has a verifier, so
\* its requests never reach the lookup in the key folder, which can end the
\* process.
ConnectedHasVerifier ==
  \A e \in Endpoints : presented[e] # None =>
    client_verifiers[presented[e]] # None

KeepsVerifiers ==
  \A i \in Ids : client_verifiers[i] # None /\ boot' = boot =>
                   client_verifiers'[i] = client_verifiers[i]

\* Within one run the key a client is verified with never changes, whatever
\* handshakes and requests name its ID.
VerifierStays == [][KeepsVerifiers]_vars

----------------------------------------------------------------------------
(* A statement of a comment that the code does not keep. *)

\* client_verifiers holds verifiers "initialized with that client's public
\* key", the one in client_public_keys.
VerifierUsesPublicKey ==
  \A i \in Ids : client_public_keys[i] # None =>
                   client_verifiers[i] = client_public_keys[i]
=============================================================================
