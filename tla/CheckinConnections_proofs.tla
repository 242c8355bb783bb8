--------------------- MODULE CheckinConnections_proofs ---------------------
(***************************************************************************)
(* The key tables of the check-in service, for any number of endpoints,    *)
(* clients, keys and restarts.                                             *)
(***************************************************************************)
EXTENDS CheckinConnections, TLAPS

\* The two key tables agree, and the table of client types adds nothing that
\* they do not have: only together are the statements inductive.
IInv == TypeOK /\ VerifierUsesPinnedKey /\ DispatchedHasVerifier

\* The tables and what the invariant needs of the rest, for the steps that
\* change no table.
KeepsTables == UNCHANGED <<client_public_keys, client_verifiers, clients>>

\* Steps that touch no table keep what is said of the tables.
LEMMA TablesKept == ASSUME VerifierUsesPinnedKey, DispatchedHasVerifier, KeepsTables
                    PROVE VerifierUsesPinnedKey' /\ DispatchedHasVerifier'
  BY DEF VerifierUsesPinnedKey, DispatchedHasVerifier, KeepsTables

\* A first start loads nothing that could disagree.
LEMMA InitIInv == Init => IInv
  BY ConnectionsAssumption
     DEF Init, IInv, TypeOK, VerifierUsesPinnedKey, DispatchedHasVerifier

\* The handshake with a certificate: what the two tables look like afterwards.
LEMMA HandshakeKeepsIInv ==
  ASSUME IInv, NEW i \in Ids, NEW k \in Keys \cup {None},
         HandshakeCertified(i, k)
  PROVE IInv'
<1> USE ConnectionsAssumption DEF IInv, NoFault
<1>1. /\ client_public_keys' \in [Ids -> Keys \cup {None}]
      /\ client_verifiers' = client_public_keys'
      /\ \A j \in Ids : client_public_keys[j] # None =>
                          client_public_keys'[j] # None
      /\ k # None => client_public_keys'[i] # None
      /\ key_files' \in [Ids -> Keys \cup {None, Torn}]
      /\ fault' \in Ids \cup {None}
  <2>1. CASE k = None
    BY <2>1 DEF HandshakeCertified, TypeOK, VerifierUsesPinnedKey
  <2>2. CASE k # None
    <3>1. k \in Keys /\ RegisterKey(i, k)
      BY <2>2 DEF HandshakeCertified
    <3>2. CASE client_public_keys[i] = None
      BY <3>1, <3>2 DEF RegisterKey, save_pub_key, TypeOK,
                        VerifierUsesPinnedKey
    <3>3. CASE client_public_keys[i] # None
      BY <3>1, <3>3 DEF RegisterKey, reportFault, TypeOK,
                        VerifierUsesPinnedKey
    <3> QED BY <3>2, <3>3
  <2> QED BY <2>1, <2>2
<1>2. /\ clients' \in [Ids -> {"TrustedClient", "UntrustedClient", None}]
      /\ \A j \in Ids : clients'[j] # None =>
                          clients[j] # None \/ (j = i /\ k # None)
  BY DEF HandshakeCertified, AddClient, ClientTypeOf, TypeOK
<1>3. DispatchedHasVerifier'
  BY <1>1, <1>2 DEF DispatchedHasVerifier, VerifierUsesPinnedKey
<1>4. TypeOK'
  BY <1>1, <1>2 DEF HandshakeCertified, RecordId, StartReading, TypeOK
<1> QED BY <1>1, <1>3, <1>4 DEF VerifierUsesPinnedKey

\* A restart fills both tables from the same files.
LEMMA StartKeepsIInv == ASSUME IInv, Start PROVE IInv'
<1> USE ConnectionsAssumption DEF IInv, NoFault
<1>1. PICK read \in Loadable :
        Fresh([i \in Ids |-> IF i \in read THEN key_files[i] ELSE None])
  BY DEF Start
<1>2. \A i \in read \cap Ids : key_files[i] \in Keys
  BY DEF Loadable
<1>3. [i \in Ids |-> IF i \in read THEN key_files[i] ELSE None]
        \in [Ids -> Keys \cup {None}]
  BY <1>2
<1>4. TypeOK'
  BY <1>1, <1>3 DEF Start, Fresh, TypeOK
<1> QED BY <1>1, <1>4
        DEF Fresh, VerifierUsesPinnedKey, DispatchedHasVerifier

\* Every step keeps the tables in agreement.
LEMMA NextIInv == IInv /\ [Next]_vars => IInv'
<1> SUFFICES ASSUME IInv, [Next]_vars PROVE IInv'
  OBVIOUS
<1> USE ConnectionsAssumption DEF IInv, KeepsTables, tables, NoFault
<1>1. ASSUME NEW e \in Endpoints, AcceptConnection(e) PROVE IInv'
  BY <1>1, TablesKept DEF AcceptConnection, TypeOK
<1>2. CASE Threw
  BY <1>2, TablesKept DEF Threw, TypeOK
<1>3. CASE AcceptError
  BY <1>3, TablesKept DEF AcceptError, TypeOK
<1>4. CASE HandshakeFailed
  BY <1>4, TablesKept DEF HandshakeFailed, reportFault, TypeOK
<1>5. CASE HandshakeAnonymous
  BY <1>5, TablesKept DEF HandshakeAnonymous, StartReading, TypeOK
<1>6. ASSUME NEW i \in Ids, NEW k \in Keys \cup {None},
             HandshakeCertified(i, k)
      PROVE IInv'
  BY <1>6, HandshakeKeepsIInv
<1>7. ASSUME NEW e \in Endpoints, ReadSize(e) PROVE IInv'
  BY <1>7, TablesKept DEF ReadSize, ReadTo, TypeOK
<1>8. ASSUME NEW e \in Endpoints, ReadPayloadFails(e) PROVE IInv'
  BY <1>8, TablesKept DEF ReadPayloadFails, ReadTo, reportFault, TypeOK
<1>9. ASSUME NEW e \in Endpoints, DispatchUnknown(e) PROVE IInv'
  BY <1>9, TablesKept DEF DispatchUnknown, ReadTo, reportFault, TypeOK
<1>10. ASSUME NEW e \in Endpoints, Dispatch(e) PROVE IInv'
  BY <1>10, TablesKept DEF Dispatch, ReadTo, reportFault, TypeOK
<1>11. CASE Kill
  BY <1>11, TablesKept DEF Kill, TypeOK
<1>12. CASE Start
  BY <1>12, StartKeepsIInv
<1>13. CASE UNCHANGED vars
  BY <1>13, TablesKept DEF vars, TypeOK
<1> QED
  BY <1>1, <1>2, <1>3, <1>4, <1>5, <1>6, <1>7, <1>8, <1>9, <1>10, <1>11,
     <1>12, <1>13
  DEF Next, AcceptVanished, HandshakeBadName, ReadBadSize

\* The invariant holds in every reachable state.
LEMMA Invariance == Spec => []IInv
BY InitIInv, NextIInv, PTL DEF Spec

\* Type correctness: in particular no key table ever holds a file that did not
\* parse.
THEOREM TypeCorrect == Spec => []TypeOK
<1>1. IInv => TypeOK
  BY DEF IInv
<1> QED BY <1>1, Invariance, PTL

\* A verifier is always one of the key pinned for its client.
THEOREM PinnedVerifier == Spec => []VerifierUsesPinnedKey
<1>1. IInv => VerifierUsesPinnedKey
  BY DEF IInv
<1> QED BY <1>1, Invariance, PTL

\* A client that is dispatched has a verifier: the lookup at the start of the
\* handlers finds it, and the fallback that loads a key file never runs.
THEOREM VerifierFound == Spec => []DispatchedHasVerifier
<1>1. IInv => DispatchedHasVerifier
  BY DEF IInv
<1> QED BY <1>1, Invariance, PTL

\* What client_id_map holds for a connection that showed a certificate; with it
\* DispatchIdIsCertified is inductive.
IdsRecorded ==
  \A e \in Endpoints : presented[e] # None => client_id_map[e] = presented[e]

IdInv == IdsRecorded /\ DispatchIdIsCertified

\* Every step keeps the IDs of certified connections.
LEMMA NextIdInv == IInv /\ IdInv /\ [Next]_vars => IdInv'
<1> SUFFICES ASSUME IInv, IdInv, [Next]_vars PROVE IdInv'
  OBVIOUS
<1> USE ConnectionsAssumption DEF IdInv, IdsRecorded, DispatchIdIsCertified
<1>1. ASSUME NEW i \in Ids, NEW k \in Keys \cup {None},
             HandshakeCertified(i, k)
      PROVE IdInv'
  BY <1>1 DEF HandshakeCertified, StartReading, RecordId, IInv, TypeOK
<1>2. CASE HandshakeAnonymous
  BY <1>2 DEF HandshakeAnonymous, StartReading, IInv, TypeOK
<1>3. ASSUME NEW e \in Endpoints, Dispatch(e) PROVE IdInv'
  BY <1>3 DEF Dispatch, IInv, TypeOK
<1>4. CASE Start
  BY <1>4 DEF Start, Fresh
<1>5. CASE UNCHANGED vars
  BY <1>5 DEF vars
<1>6. ASSUME sender' = NoSender, UNCHANGED <<presented, client_id_map>>
      PROVE IdInv'
  BY <1>6
<1> QED
  BY <1>1, <1>2, <1>3, <1>4, <1>5, <1>6
  DEF Next, AcceptConnection, AcceptVanished, AcceptError, HandshakeFailed,
      HandshakeBadName, ReadSize, ReadBadSize, ReadPayloadFails,
      DispatchUnknown, Kill, Threw

\* A message of a connection with a certificate is dispatched with the ID of
\* that certificate: every handshake with one overwrites the endpoint's entry.
THEOREM CertifiedDispatch == Spec => []DispatchIdIsCertified
<1>1. Init => IdInv
  BY DEF Init, IdInv, IdsRecorded, DispatchIdIsCertified
<1>3. IInv /\ IdInv /\ [Next]_vars => IdInv'
  BY NextIdInv
<1> QED BY <1>1, <1>3, Invariance, PTL DEF Spec, IdInv

\* The first key seen for a client stays for the rest of the run: at later
\* handshakes try_emplace finds it.
THEOREM FirstKeyStaysHolds == Spec => FirstKeyStays
<1>1. IInv /\ [Next]_vars => [KeepsPins]_vars
  <2> SUFFICES ASSUME IInv, [Next]_vars PROVE KeepsPins \/ UNCHANGED vars
    OBVIOUS
  <2> USE ConnectionsAssumption DEF KeepsPins, tables
  <2>1. ASSUME NEW i \in Ids, NEW k \in Keys \cup {None},
               HandshakeCertified(i, k)
        PROVE KeepsPins
    BY <2>1 DEF HandshakeCertified, RegisterKey, IInv, TypeOK
  <2>2. CASE Start
    BY <2>2 DEF Start, IInv, TypeOK
  <2>3. ASSUME UNCHANGED client_public_keys PROVE KeepsPins
    BY <2>3
  <2> QED
    BY <2>1, <2>2, <2>3
    DEF Next, AcceptConnection, AcceptVanished, AcceptError, HandshakeFailed,
        HandshakeAnonymous, HandshakeBadName, ReadSize, ReadBadSize,
        ReadPayloadFails, DispatchUnknown, Dispatch, Kill, Threw
<1> QED BY <1>1, Invariance, PTL DEF Spec, FirstKeyStays

\* Only a failed accept ends the accept chain: every outcome of a handshake
\* starts the next accept, and reads and handlers leave the chain alone.
THEOREM ListensUnlessAcceptFails == Spec => OnlyAcceptErrorStopsListening
<1>1. [Next]_vars => [StopsAtAcceptError]_vars
  BY DEF StopsAtAcceptError, Next, AcceptConnection, AcceptVanished,
         HandshakeFailed, HandshakeAnonymous, HandshakeBadName,
         HandshakeCertified, StartReading, ReadSize, ReadBadSize,
         ReadPayloadFails, DispatchUnknown, Dispatch, Kill, Threw, Start,
         Fresh, vars
<1> QED BY <1>1, PTL DEF Spec, OnlyAcceptErrorStopsListening
=============================================================================
