----------------------- MODULE VoterIDService_proofs -----------------------
(***************************************************************************)
(* The streams and the key tables of the voter-ID service, for any number  *)
(* of endpoints, clients, keys, voters and restarts.                       *)
(***************************************************************************)
EXTENDS VoterIDService, TLAPS

\* A client with a public key has a verifier.  ConnectedHasVerifier needs it
\* for a handshake whose key differs from the one on file.
KnownHasVerifier ==
  \A i \in Ids : client_public_keys[i] # None => client_verifiers[i] # None

IInv == TypeOK /\ ReadHasStream /\ ConnectedHasVerifier /\ KnownHasVerifier

\* A first start has no streams and no keys.
LEMMA InitIInv == Init => IInv
  BY VoterIDAssumption DEF Init, IInv, TypeOK, ReadHasStream,
                           ConnectedHasVerifier, KnownHasVerifier

----------------------------------------------------------------------------
(* The parts of the invariant, and the steps that do not touch them *)

\* Steps that touch no key table keep what is said of them.
LEMMA TablesKept ==
  ASSUME ConnectedHasVerifier, KnownHasVerifier,
         UNCHANGED <<presented, client_public_keys, client_verifiers>>
  PROVE ConnectedHasVerifier' /\ KnownHasVerifier'
  BY DEF ConnectedHasVerifier, KnownHasVerifier

\* Steps that touch no stream keep what is said of them.
LEMMA StreamsKept ==
  ASSUME ReadHasStream, UNCHANGED <<read_state, client_ssl_streams>>
  PROVE ReadHasStream'
  BY DEF ReadHasStream

\* The end of the process changes nothing else.
LEMMA EndsKeeps ==
  ASSUME IInv, NEW how \in {"killed", "threw"}, Ends(how) PROVE IInv'
<1> USE DEF IInv, Ends, conns, keys
<1>1. TypeOK'
  BY DEF TypeOK
<1> QED BY <1>1, TablesKept, StreamsKept

\* AddVerifier gives the client a verifier and takes none away.
LEMMA AddVerifierAdds ==
  ASSUME TypeOK, NEW i \in Ids, NEW k \in Keys, AddVerifier(i, k)
  PROVE /\ client_verifiers' \in [Ids -> Keys \cup {None}]
        /\ client_verifiers'[i] # None
        /\ \A j \in Ids : client_verifiers[j] # None =>
                            client_verifiers'[j] = client_verifiers[j]
  BY VoterIDAssumption DEF TypeOK, AddVerifier

----------------------------------------------------------------------------
(* The handshake *)

\* The stream is stored before its first read starts.
LEMMA StartReadingKeeps ==
  ASSUME IInv, NEW i \in Ids \cup {None}, StartReading(i)
  PROVE /\ ReadHasStream'
        /\ running' = running /\ boot' = boot /\ acceptor' = "armed"
        /\ peer' = None /\ client_ssl_streams' \subseteq Endpoints
        /\ read_state' \in [Endpoints -> {"none", "size", "payload"}]
        /\ presented' \in [Endpoints -> Ids \cup {None}]
        /\ \A e \in Endpoints : presented'[e] # presented[e] => presented'[e] = i
        /\ statement' = None
<1>1. peer \in Endpoints
  BY DEF IInv, TypeOK, StartReading
<1> QED BY <1>1 DEF IInv, TypeOK, ReadHasStream, StartReading

\* A handshake with a certificate leaves its client with a verifier.
LEMMA HandshakeCertifiedKeeps ==
  ASSUME IInv, NEW i \in Ids, NEW k \in Keys, HandshakeCertified(i, k)
  PROVE IInv'
<1>1. StartReading(i)
  BY DEF HandshakeCertified
<1>2. /\ client_public_keys' \in [Ids -> Keys \cup {None}]
      /\ client_verifiers' \in [Ids -> Keys \cup {None}]
      /\ key_files' \in [Ids -> Keys \cup {None, Torn}]
      /\ client_verifiers'[i] # None
      /\ \A j \in Ids : client_verifiers[j] # None => client_verifiers'[j] # None
      /\ \A j \in Ids : client_public_keys'[j] # client_public_keys[j] => j = i
  <2>1. CASE client_public_keys[i] = None
    <3>1. AddVerifier(i, k) /\ save_pub_key(i, k)
          /\ client_public_keys' = [client_public_keys EXCEPT ![i] = k]
      BY <2>1, VoterIDAssumption DEF HandshakeCertified
    <3>2. key_files' \in [Ids -> Keys \cup {None, Torn}]
      BY <3>1 DEF save_pub_key, IInv, TypeOK
    <3> QED BY <3>1, <3>2, AddVerifierAdds DEF IInv, TypeOK
  <2>2. CASE client_public_keys[i] = k
    <3>1. AddVerifier(i, k) /\ UNCHANGED <<client_public_keys, key_files>>
      BY <2>2, VoterIDAssumption DEF HandshakeCertified
    <3> QED BY <3>1, AddVerifierAdds DEF IInv, TypeOK
  <2>3. CASE client_public_keys[i] \notin {None, k}
    <3>1. UNCHANGED keys
      BY <2>3 DEF HandshakeCertified
    <3> QED BY <2>3, <3>1 DEF IInv, TypeOK, KnownHasVerifier, keys
  <2> QED BY <2>1, <2>2, <2>3
<1>3. TypeOK'
  BY <1>1, <1>2, StartReadingKeeps DEF IInv, TypeOK
<1>4. ConnectedHasVerifier'
  BY <1>1, <1>2, StartReadingKeeps DEF IInv, ConnectedHasVerifier, TypeOK
<1>5. KnownHasVerifier'
  BY <1>2 DEF IInv, KnownHasVerifier
<1> QED BY <1>1, <1>3, <1>4, <1>5, StartReadingKeeps DEF IInv

\* A handshake without a usable key leaves the tables alone.
LEMMA HandshakeWithoutKeyKeeps ==
  ASSUME IInv, HandshakeWithoutKey PROVE IInv'
<1>1. StartReading(None) /\ UNCHANGED keys
  BY DEF HandshakeWithoutKey
<1>2. TypeOK'
  BY <1>1, StartReadingKeeps DEF IInv, TypeOK, keys
<1>3. ConnectedHasVerifier' /\ KnownHasVerifier'
  BY <1>1, StartReadingKeeps
     DEF IInv, ConnectedHasVerifier, KnownHasVerifier, TypeOK, keys
<1> QED BY <1>1, <1>2, <1>3, StartReadingKeeps DEF IInv

----------------------------------------------------------------------------
(* Requests *)

\* A request may add a verifier, and ends the reads of its connection.
LEMMA RequestKeeps ==
  ASSUME IInv, NEW e \in Endpoints, HandleRequest(e),
         running' \in {"up", "threw"},
         statement' = None \/ statement'.voter_unique_id \in DOMAIN voter_data,
         client_verifiers' \in [Ids -> Keys \cup {None}],
         \A j \in Ids : client_verifiers[j] # None =>
                          client_verifiers'[j] = client_verifiers[j]
  PROVE IInv'
<1>1. TypeOK'
  BY DEF IInv, TypeOK, HandleRequest, StopReading
<1>2. ReadHasStream'
  BY DEF IInv, TypeOK, ReadHasStream, HandleRequest, StopReading
<1>3. ConnectedHasVerifier' /\ KnownHasVerifier'
  BY DEF IInv, TypeOK, ConnectedHasVerifier, KnownHasVerifier, HandleRequest
<1> QED BY <1>1, <1>2, <1>3 DEF IInv

\* Requests refused before the signature is looked at.
LEMMA RefusalKeeps ==
  ASSUME IInv, NEW e \in Endpoints, NEW r \in Requests,
         RejectData(e, r) \/ RejectKeyFile(e, r)
  PROVE IInv'
<1>1. HandleRequest(e) /\ running' = "up" /\ statement' = None
      /\ client_verifiers' = client_verifiers
  BY DEF RejectData, RejectKeyFile, HandleRequest
<1>2. client_verifiers \in [Ids -> Keys \cup {None}]
  BY DEF IInv, TypeOK
<1> QED BY <1>1, <1>2, RequestKeeps

\* Requests whose signature is looked at: the key is loaded if it is missing.
LEMMA VerifiedKeeps ==
  ASSUME IInv, NEW e \in Endpoints, NEW r \in Requests,
         RejectSignature(e, r) \/ Approve(e, r)
  PROVE IInv'
<1>1. r.client_id_num \in Ids /\ r.signed_by \in Keys
  BY VoterIDAssumption
<1>2. KeyFor(r.client_id_num) \in Keys
      /\ AddVerifier(r.client_id_num, KeyFor(r.client_id_num))
  BY <1>1 DEF RejectSignature, Approve
<1>3. HandleRequest(e) /\ running' \in {"up", "threw"}
  BY DEF RejectSignature, Approve, HandleRequest
<1>4. statement' = None \/ statement'.voter_unique_id \in DOMAIN voter_data
  <2>1. CASE RejectSignature(e, r)
    BY <2>1 DEF RejectSignature
  <2>2. CASE Approve(e, r)
    BY <2>2 DEF Approve, Valid
  <2> QED BY <2>1, <2>2
<1>5. /\ client_verifiers' \in [Ids -> Keys \cup {None}]
      /\ \A j \in Ids : client_verifiers[j] # None =>
                          client_verifiers'[j] = client_verifiers[j]
  BY <1>1, <1>2, AddVerifierAdds DEF IInv
<1> QED BY <1>3, <1>4, <1>5, RequestKeeps

\* A restart loads verifiers for the clients whose files parse.
LEMMA StartKeeps == ASSUME IInv, Start PROVE IInv'
<1>1. PICK read \in Loadable :
        client_verifiers' = [i \in Ids |-> IF i \in read THEN key_files[i]
                                                         ELSE None]
  BY DEF Start
<1>2. \A i \in read : i \in Ids /\ key_files[i] \in Keys
  BY DEF Loadable
<1>3. client_verifiers' \in [Ids -> Keys \cup {None}]
      /\ client_public_keys' = client_verifiers'
  BY <1>1, <1>2 DEF Start
<1>4. TypeOK'
  BY <1>3, VoterIDAssumption DEF IInv, TypeOK, Start
<1>5. ReadHasStream' /\ ConnectedHasVerifier' /\ KnownHasVerifier'
  BY <1>3 DEF Start, ReadHasStream, ConnectedHasVerifier, KnownHasVerifier
<1> QED BY <1>4, <1>5 DEF IInv

\* Every step keeps the invariant.
LEMMA NextIInv == IInv /\ [Next]_vars => IInv'
<1> SUFFICES ASSUME IInv, [Next]_vars PROVE IInv'
  OBVIOUS
<1>1. ASSUME NEW e \in Endpoints, AcceptConnection(e) PROVE IInv'
  <2>1. TypeOK'
    BY <1>1 DEF IInv, TypeOK, AcceptConnection, keys
  <2> QED BY <1>1, <2>1, TablesKept, StreamsKept
          DEF IInv, AcceptConnection, keys
<1>2. CASE AcceptError \/ HandshakeFailed
  <2>1. TypeOK'
    BY <1>2 DEF IInv, TypeOK, AcceptError, HandshakeFailed, keys
  <2> QED BY <1>2, <2>1, TablesKept, StreamsKept
          DEF IInv, AcceptError, HandshakeFailed, keys
<1>3. CASE AcceptVanished \/ HandshakeBadName \/ Kill
  BY <1>3, EndsKeeps DEF AcceptVanished, HandshakeBadName, Kill
<1>4. CASE HandshakeWithoutKey
  BY <1>4, HandshakeWithoutKeyKeeps
<1>5. ASSUME NEW i \in Ids, NEW k \in Keys, HandshakeCertified(i, k) PROVE IInv'
  BY <1>5, HandshakeCertifiedKeeps
<1>6. ASSUME NEW e \in Endpoints, ReadSize(e) \/ ReadFails(e) PROVE IInv'
  <2>1. TypeOK'
    BY <1>6 DEF IInv, TypeOK, ReadSize, ReadFails, StopReading, keys
  <2>2. ReadHasStream'
    BY <1>6 DEF IInv, TypeOK, ReadHasStream, ReadSize, ReadFails, StopReading
  <2> QED BY <1>6, <2>1, <2>2, TablesKept DEF IInv, ReadSize, ReadFails, keys
<1>7. ASSUME NEW e \in Endpoints, ReadMalformed(e) PROVE IInv'
  BY <1>7, EndsKeeps DEF ReadMalformed
<1>8. ASSUME NEW e \in Endpoints, NEW r \in Requests,
             RejectData(e, r) \/ RejectKeyFile(e, r)
      PROVE IInv'
  BY <1>8, RefusalKeeps
<1>9. ASSUME NEW e \in Endpoints, NEW r \in Requests, MissingKeyFile(e, r)
      PROVE IInv'
  BY <1>9, EndsKeeps DEF MissingKeyFile
<1>10. ASSUME NEW e \in Endpoints, NEW r \in Requests,
              RejectSignature(e, r) \/ Approve(e, r)
       PROVE IInv'
  BY <1>10, VerifiedKeeps
<1>11. CASE Start
  BY <1>11, StartKeeps
<1>12. CASE UNCHANGED vars
  BY <1>12, TablesKept, StreamsKept DEF IInv, TypeOK, vars, conns, keys
<1> QED BY <1>1, <1>2, <1>3, <1>4, <1>5, <1>6, <1>7, <1>8, <1>9, <1>10, <1>11,
           <1>12
        DEF Next

\* The invariant holds in every reachable state.
LEMMA Invariance == Spec => []IInv
  BY InitIInv, NextIInv, PTL DEF Spec

\* Every state has the types of TypeOK: in particular a signed statement is
\* always about a voter on the voter list, also when the ID data is too short.
THEOREM TypeCorrect == Spec => []TypeOK
<1>1. IInv => TypeOK
  BY DEF IInv
<1> QED BY <1>1, Invariance, PTL

\* A read that completes finds its stream: the at() in the read handlers never
\* throws, whatever erases streams and whichever endpoint comes back.
THEOREM ReadsFindStream == Spec => []ReadHasStream
<1>1. IInv => ReadHasStream
  BY DEF IInv
<1> QED BY <1>1, Invariance, PTL

\* A client that connected with a certificate has a verifier until the process
\* ends, so its own requests never depend on the key folder.
THEOREM ConnectedIsVerified == Spec => []ConnectedHasVerifier
<1>1. IInv => ConnectedHasVerifier
  BY DEF IInv
<1> QED BY <1>1, Invariance, PTL

\* Within one run no step replaces or drops a verifier.
THEOREM VerifierStaysHolds == Spec => VerifierStays
<1>1. IInv /\ [Next]_vars => [KeepsVerifiers]_vars
  <2> SUFFICES ASSUME IInv, [Next]_vars PROVE [KeepsVerifiers]_vars
    OBVIOUS
  <2>1. CASE UNCHANGED client_verifiers
    BY <2>1 DEF KeepsVerifiers
  <2>2. ASSUME NEW i \in Ids, NEW k \in Keys, AddVerifier(i, k)
        PROVE KeepsVerifiers
    BY <2>2, AddVerifierAdds DEF IInv, KeepsVerifiers
  <2>3. ASSUME NEW i \in Ids, NEW k \in Keys, HandshakeCertified(i, k)
        PROVE AddVerifier(i, k) \/ UNCHANGED client_verifiers
    BY <2>3 DEF HandshakeCertified, keys
  <2>4. ASSUME NEW e \in Endpoints, NEW r \in Requests,
               RejectSignature(e, r) \/ Approve(e, r)
        PROVE KeepsVerifiers
    <3>1. r.client_id_num \in Ids /\ r.signed_by \in Keys
      BY VoterIDAssumption
    <3>2. KeyFor(r.client_id_num) \in Keys
          /\ AddVerifier(r.client_id_num, KeyFor(r.client_id_num))
      BY <2>4, <3>1 DEF RejectSignature, Approve
    <3> QED BY <2>2, <3>1, <3>2
  <2>5. CASE Start
    <3>1. boot' # boot
      BY <2>5 DEF Start, IInv, TypeOK
    <3> QED BY <3>1 DEF KeepsVerifiers
  <2>6. CASE Next
    <3>1. \/ UNCHANGED client_verifiers
          \/ Start
          \/ \E i \in Ids, k \in Keys : HandshakeCertified(i, k)
          \/ \E e \in Endpoints, r \in Requests :
               RejectSignature(e, r) \/ Approve(e, r)
      BY <2>6 DEF Next, AcceptConnection, AcceptVanished, AcceptError,
                  HandshakeFailed, HandshakeWithoutKey, HandshakeBadName,
                  ReadSize, ReadFails, ReadMalformed, RejectData,
                  RejectKeyFile, MissingKeyFile, Kill, Ends, keys
    <3> QED BY <2>1, <2>2, <2>3, <2>4, <2>5, <3>1
  <2> QED BY <2>6
<1> QED BY <1>1, Invariance, PTL DEF Spec, VerifierStays

----------------------------------------------------------------------------
(* The statements *)

\* The statement that was just signed answers a request that carries the
\* signature of the key this process verifies its client with, and names a
\* voter of the list under the name the list has.
StatementVerified ==
  statement # None =>
    /\ client_verifiers[statement.request.client_id_num]
         = statement.request.signed_by
    /\ Valid(statement.request, statement.voter_unique_id)

\* An approval uses the verifier that the client has from then on.
LEMMA ApproveVerifies ==
  ASSUME IInv, NEW e \in Endpoints, NEW r \in Requests, Approve(e, r)
  PROVE  StatementVerified'
<1>1. PICK u \in Uids : Valid(r, u) /\ statement' = [request |-> r,
                                                      voter_unique_id |-> u]
  BY VoterIDAssumption DEF Approve, MatchedIds
<1>2. r.client_id_num \in Ids /\ r.signed_by \in Keys
  BY VoterIDAssumption
<1>3. client_verifiers'[r.client_id_num] = r.signed_by
  BY <1>2 DEF Approve, AddVerifier, KeyFor, IInv, TypeOK
<1>4. Valid(r, u)'
  BY <1>1 DEF Valid
<1> QED
  BY <1>1, <1>3, <1>4 DEF StatementVerified, Valid

\* No statement is signed but for a request that verified, under the voter's
\* name, with the key its client has from then on.
THEOREM StatementsVerified == Spec => []StatementVerified
<1>1. Init => StatementVerified
  BY DEF Init, StatementVerified
<1>2. IInv /\ StatementVerified /\ [Next]_vars => StatementVerified'
  <2> SUFFICES ASSUME IInv, StatementVerified, [Next]_vars
               PROVE  StatementVerified'
    OBVIOUS
  <2>1. ASSUME statement' = None PROVE StatementVerified'
    BY <2>1 DEF StatementVerified
  <2>2. CASE \E e \in Endpoints, r \in Requests : Approve(e, r)
    BY <2>2, ApproveVerifies
  <2>3. CASE UNCHANGED vars
    BY <2>3 DEF vars, keys, StatementVerified, Valid
  <2>4. \/ statement' = None
        \/ \E e \in Endpoints, r \in Requests : Approve(e, r)
        \/ UNCHANGED vars
    BY DEF Next, AcceptConnection, AcceptVanished, AcceptError, HandshakeFailed,
           HandshakeWithoutKey, HandshakeBadName, HandshakeCertified,
           StartReading, ReadSize, ReadFails, ReadMalformed, RejectData,
           RejectKeyFile, MissingKeyFile, RejectSignature, Kill, Start, Ends
  <2> QED
    BY <2>1, <2>2, <2>3, <2>4
<1> QED
  BY <1>1, <1>2, Invariance, PTL DEF Spec

\* Process b has just signed a statement for a request in the name of client i.
SignedFor(i, b) ==
  boot = b /\ statement # None /\ statement.request.client_id_num = i

\* All statements that one process signs for requests in a client's name answer
\* requests under one and the same key, whatever handshakes, key files and
\* requests name the client in between, and although the client ID of a request
\* is never compared with the certificate of its connection.
THEOREM OneSignerPerProcess ==
  ASSUME NEW i \in Ids, NEW k \in Keys, NEW b \in Nat
  PROVE  Spec => [](SignedFor(i, b) /\ statement.request.signed_by = k =>
                      [](SignedFor(i, b) => statement.request.signed_by = k))
<1> DEFINE Settled == boot > b \/ (boot = b /\ client_verifiers[i] = k)
           Was == SignedFor(i, b) /\ statement.request.signed_by = k
           Stays == SignedFor(i, b) => statement.request.signed_by = k
<1>1. StatementVerified /\ Was => Settled
  BY DEF SignedFor, StatementVerified
<1>2. IInv /\ Settled /\ [Next]_vars /\ [KeepsVerifiers]_vars => Settled'
  <2> SUFFICES ASSUME IInv, Settled, [Next]_vars, [KeepsVerifiers]_vars
               PROVE  Settled'
    OBVIOUS
  <2>1. boot \in Nat /\ k # None
    BY VoterIDAssumption DEF IInv, TypeOK
  <2>2. boot' = boot \/ boot' = boot + 1
    BY DEF Next, AcceptConnection, AcceptVanished, AcceptError, HandshakeFailed,
           HandshakeWithoutKey, HandshakeBadName, HandshakeCertified,
           StartReading, ReadSize, ReadFails, ReadMalformed, RejectData,
           RejectKeyFile, MissingKeyFile, RejectSignature, Approve,
           HandleRequest, Kill, Start, Ends, vars
  <2>3. boot' = boot /\ client_verifiers[i] = k => client_verifiers'[i] = k
    BY <2>1 DEF KeepsVerifiers, vars, keys
  <2> QED
    BY <2>1, <2>2, <2>3
<1>3. StatementVerified /\ Settled => Stays
  BY DEF SignedFor, StatementVerified
<1> QED
  BY <1>1, <1>2, <1>3, Invariance, StatementsVerified, VerifierStaysHolds, PTL
     DEF Spec, VerifierStays
=============================================================================
