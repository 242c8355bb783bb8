# pollbook-server: a TLA+ verification project

The repository is an electronic pollbook in C++ (asio, OpenSSL). A voter is
checked in in two phases: a kiosk (*untrusted client*) has an identity document
validated by the voter-ID service, asks the check-in service for a check-in and
gets a one-time ticket; a poll worker's device (*trusted client*) then redeems
the ticket and a PIN within a time window. These modules model the two services,
the client library, the warning cache, the configuration start-up, and the
polling place they make up together; TLC checks them on small instances, and
TLAPS proves the safety properties for every value of the constants.

`PROJECT.json` maps every definition to the source lines it models and lists the
runs, mutants, findings, hazards and theorems. Paths below are relative to the
repository root.

## 1. Inventory

### Check-in service (`src/checkin_service.cpp`, `checkin_service.hpp`)

One thread runs `network_io_context`; every handler runs to completion on it. A
second thread calls `FaultTracker::clearOldRecords` every hour.

* **Voters, tickets, timers.** State: `voter_status_table` (ELIGIBLE, PENDING,
  CHECKED_IN), `request_timers` (voter to steady timer), `client_tickets_map` and
  the file `ticket_validation.csv`. Operations: `handle_checkin_request`,
  `handle_trusted_client`, `handle_verification_timeout`, construction. Hard: a
  cancelled timer whose completion is already queued still runs and knows only the
  voter; tickets are never removed and survive restarts while statuses do not;
  nothing remembers requests, so replays are excluded only by status and
  timestamp together. Correct when: every pending check-in has exactly one timeout
  to come, is given up no earlier than its deadline and completed no later, ends
  in finite time, no check-in is taken back, at most one redemption per voter.
* **Connections, keys, dispatch.** State: accept loop, TLS streams,
  `client_id_map` (endpoint to client ID), `client_public_keys`,
  `client_verifiers`, `clients` (client type), the key folder, the member
  `client_id`. Operations: `do_accept`, `handle_accept`, `start_size_read`,
  `start_payload_read` (which also dispatches), `load_client_public_keys`. Hard: endpoints are
  reused, nothing is ever removed, the key tables are filled from three places, a
  key file can be cut short by a crash. Correct when: the verifier is the one of
  the pinned key, the first key stays, a dispatched client has a verifier, and a
  message is dispatched with the ID of its connection's certificate.

### Voter-ID service (`src/voter_id_service.cpp`)

Same shape, one thread; `client_public_keys`, `client_verifiers`, streams that
failed reads erase, `voter_data`, and a signed statement per valid request. It
loads a missing verifier on demand from the key file of the ID *in the request*,
and reads one request per connection. Correct when: pending reads have their
stream, connected clients have a verifier, verifiers never change in a run.

### Client library (`src/pollbook_client.cpp`)

A caller thread starts `check_in_voter` or `verify_ticket` and waits on a future;
a network thread carries the request through chained asynchronous operations on
two connections and fulfils one promise. Hard: nine error branches, no
correlation of responses with requests, a voter name kept in a member between
callbacks. Correct when: the promise waits exactly while an operation is
outstanding, success means approval in the same call, responses end the wait.

### Warning cache and query server (`warning_sink.hpp`, `log_utils.cpp`, `warning_query_server.cpp`)

An asynchronous logger with a bounded, blocking queue and one worker thread; a
sink that keeps warnings; and a server on port 9000, on the io_context of the
check-in service, whose sessions read a command, run it and answer, in a chain.
`apps/warning_cache_client.cpp` is the operator's side. Hard: a log call on a full
queue holds up the sessions too; operators name warnings by an index into an
older snapshot; answers are sent from a string that is already gone. Correct
when: no warning is lost or overtaken, an index shown stays right until somebody
removes warnings, and commands are answered.

### Configuration (`config.cpp`)

A singleton that any thread may initialise, guarded by an atomic flag with three
states and a spin loop. Hard: races of callers with different files, and a
constructor that throws. Correct when: the object is made once, nobody returns
before it exists, and calls come back.

### Shared parts

* **Freshness test**: the same lines in both services, machine integers and
  `std::abs`.
* **Fault tracker**: a record per client with the time of the last report, also
  changed by the cleanup thread, which removes old ones. Correct when: a client
  with a recent fault has a record, an old record goes, and the network puts no
  honest kiosk on record.
* **Message formats, key and signature wrappers**: what their control flow does
  to the services is in the service modules (throwing parsers, `finalize` that
  throws, key files that parse or not).

### Interactions

Kiosk -> voter-ID service: `VoterIDRequest`, answered by `VerifiedVoterID`. Kiosk
-> check-in service: `CheckinRequest` with that statement, answered by
`CheckinResponse` with a ticket. Trusted device -> check-in service:
`TicketRequest`, answered by `TicketResponse`, or not at all. Service -> disk: the
ticket file, the key folder. Service -> `FaultTracker`: a fault per rejected
request of the kinds the code names.

### Not modelled

* The INI parser (vendored) and the lookup of configuration values, which are
  CONSTANTS of the modules that use them.
* The network listener of the fault tracker: no program starts it, and
  `clearClient` is reached only through it.
* `send_string_message` and `receive_string_message` of the client library,
  demonstrations without state.
* `main` functions, Python test clients and deployment files.
* Cryptography, TLS and JSON: a signature is the name of its signer, a message a
  record. Envelope encryption and hashing are not used by the services. Log
  output and CSV layout are left out.
* Overlapping calls of the client library: the header forbids them and the
  programs do not make them.

## 2. Plan

| Step | Modules | State |
|------|---------|-------|
| 1 | `Freshness`, `TwoPhaseCheckin`, `CheckinService` | done, proved |
| 2 | `CheckinHistory` (history variables over `CheckinService`) | done, proved |
| 3 | `CheckinConnections` | done, proved |
| 4 | `VoterIDService` | done, proved |
| 5 | `ClientCall`, `PollbookClient` (implements `ClientCall`) | done, proved |
| 6 | `FaultTracker`, `PollbookSystem` (composes `CheckinService`, `FaultTracker`, clients, network) | done, proved |
| 7 | `Config` | done, proved |
| 8 | `WarningCache` | done, proved |

The voter-ID service is not composed into `PollbookSystem`: the two services share
no state and meet only at the signed statement, which the kiosk carries from one to
the other. `id_signed` of a check-in request stands for it, and what it is worth is
`StatementsVerified` and `OneSignerPerProcess` of `VoterIDService_proofs`.

## 3. Modules and how they correspond to the code

* **`Freshness`** - the timestamp comparison. `HALF` is 2^63; the conversion of the
  unsigned difference to `int64_t` wraps, and `std::abs(INT64_MIN)`, undefined in
  C++, is a choice between the outcomes of real builds, so a test may have two
  answers (`MayBeFresh`, `MayBeStale`).
* **`TwoPhaseCheckin`** - the abstract protocol: begin, complete no later than the
  deadline, lapse no earlier, restart, tick.
* **`CheckinService`** - one action per outcome of a handler. `AcceptCheckin`,
  `RejectCheckin` and `HandlerThrows` are `handle_checkin_request`;
  `MalformedTicket`, `RejectTicket`, `DenyPin`, `DenyWindow` and `RedeemTicket` are
  `handle_trusted_client`, each including the reload of the ticket file that comes
  first. A timer is `[expiry, armed]`; `ExpireTimer` moves an expired wait to
  asio's ready queue (`ready_timeouts`), where `cancel` no longer reaches it.
  `Kill`, a throwing handler and `Start` are the end and restart of the process.
  `reply` is the response the step wrote, `fault` the client it reported.
* **`CheckinHistory`** - the same specification with the sets of granted requests
  and redeemed tickets as history variables, which restrict nothing.
* **`CheckinConnections`** - accept, handshake (with and without certificate, with
  known, new or unreadable key), the chained size and payload reads, dispatch,
  saving and loading of key files with a kill in the middle of a save. The
  uninitialised member `client_id` starts with any ID.
* **`VoterIDService`** - the same for the voter-ID service, plus
  `handle_validation_request` and its on-demand key load. ID data shorter than four bytes
  yields any voter ID (the code copies four bytes regardless).
* **`ClientCall`** - the abstract client call: starts, is approved or not, ends once.
* **`PollbookClient`** - caller and network thread; `op` is the one outstanding
  asynchronous operation; the servers appear as what they do on one connection,
  including silence and loss of the link.
* **`FaultTracker`** - reports and cleanup; both hold the mutex, so each is a step.
* **`PollbookSystem`** - the polling place: honest clients that make one call at a
  time (as `ClientCall` allows), requests and responses that take any time or get
  lost with their connection, `CheckinService` with exactly those requests,
  `FaultTracker` fed with its `fault`, the cleanup thread, the end and restart of
  the process. `shown` holds the tickets on voters' screens, `admitted` counts the
  approvals that devices received.
* **`WarningCache`** - a log call is two steps (it may wait for room in the queue),
  `Worker` moves a message to the sink, each session reads, runs and writes.
  `Written` may damage a long answer, which then has no end of line.
* **`Config`** - one action per access to the flag or to `instance`, per thread.
* **`MC*`** - instances. **`*_proofs`** - theorems.

`CheckinService` and `CheckinConnections` meet at the dispatch: the latter says
which client ID a message is dispatched with, the former takes that ID as given.
`PollbookSystem` and `PollbookClient` meet at `ClientCall`.

## 4. Runs

Passing runs:

| Run | Instance | Shows |
|-----|----------|-------|
| `checkin` | 2 kiosks, 1 device, 2 voters, 2 tickets, 1 restart, clock 2..6, window 3 | `PendingHasOneTimeout`, `FreshIsExact`, `NoEarlyRevert`, `ApprovalChecksIn`, `ImplementsTwoPhase`; `OneCheckinPerRun`, `NoReplayedCheckin`, `RedeemedAfterGrant`; `PendingResolves`: no check-in stays pending |
| `connections` | 2 endpoints, 2 IDs, 2 keys, 1 restart | `VerifierUsesPinnedKey`, `DispatchedHasVerifier`, `DispatchIdIsCertified`, `FirstKeyStays`, `OnlyAcceptErrorStopsListening` |
| `voter_id` | the same, 5 requests | `ReadHasStream`, `ConnectedHasVerifier`, `VerifierStays` |
| `client` | 2 voters, 3 calls | `PendingHasOperation`, `NameMatchesVoter`, `ResponseFulfils`, `ImplementsCall`: the library implements `ClientCall` |
| `system` | 1 kiosk, 2 devices, 1 voter, 2 tickets, 1 restart, clock 2..3 | `AdmittedOnce`, `ShownTicketsKnown`, `KiosksNotBlamed`, `RecentFaultsKept`; `OldRecordsGo`, `KioskCallsEnd` |
| `warnings` | 2 operators, 3 warnings, a queue of 2 | `WarningsAccountedFor`, `ShownIndicesStand`, `CommandsAnswered` |
| `config` | 3 threads, 3 files, one of them bad | `ReturnsInitialized`, `InstanceStays`, `CallsEnd` |

Each run also checks the type invariant of its module.

Violation runs, each a statement of a comment, document or test that the code
does not keep (quoted in `findings`):

| Run | Statement | What happens |
|-----|-----------|--------------|
| `ticket_expires` | a ticket is valid for the interval | the window is the voter's, so an older ticket works in a later window |
| `ticket_single_use` | a ticket is single-use | after a restart a used ticket works again, once the voter is PENDING again |
| `all_key_files` | all key files are loaded | the first file that does not parse ends the loading |
| `id_verifier_key` | the verifier uses the recorded public key | a key loaded on demand is not recorded, a later handshake records another |
| `race_loser` | the kiosk that loses the race for a voter gets a fault entry | it is refused, and no fault is filed |

Further statements differ from what the models do, without a run of their
own: `run()` of the check-in service "blocks forever" (`checkin_service.hpp:235`),
but `HandlerThrows` and a failed `asio::write` end it; the dispatched ID is called
"TLS-authenticated (cert-derived)" (`checkin_service.cpp:578`), but a connection
without certificate inherits the ID its endpoint had before, so
`DispatchIdIsCertified` speaks of connections with one; and
`load_client_public_key` of the voter-ID service returns false when the key "was
not found" (`voter_id_service.hpp:174`), but the exception leaves `run()`
(`MissingKeyFile`). The listener is to be started again "so it keeps listening"
(`checkin_service.cpp:151`), but an accept that fails (line 79), for whatever
reason, is the last one; `OnlyAcceptErrorStopsListening` says that nothing else
ends the chain. `hasKey` is to be called before a
getter (`config.hpp:47`), but looking up an absent key creates it. The
configuration file of `apps/local-test-deployment/server0` sets
`faulty_cleanup_time`, while the code reads `fault_cleanup_hours`, so the default
of 24 hours always applies. A call of `initialize` after another file was loaded
returns without loading its own.

Every property of a passing run has a mutant, a plausible bug in the code's place
defined just before the definition it replaces, under which TLC finds the property
violated.

### Bounds and why they are enough

* Requests: honest requests of every client and every deviation in one field;
  handlers test fields one after the other and keep nothing of a refused request.
* Voters: state is per voter and handlers touch one voter, so two voters show
  interference. The second voter's request is fresh only at the first clock value,
  which is enough for a ticket, a timer and a timeout of that voter beside the
  first one's.
* Clock: units of the freshness interval. A window of 3 (more than two intervals,
  as in every configuration) and five clock values contain a whole window, the
  delayed completion after it, a second check-in in the same run, and one value
  beyond the end of the window. Each timestamp is fresh for three clock values;
  those of the two kiosks overlap in one, where they race for the voter.
* Tickets: 2 allow an old and a new ticket of one voter. When `MaxTickets` are
  drawn no further check-in is accepted; the services have no such limit.
* `MaxBoots` = 2: one restart, which separates what survives from what does not.
* `MaxStreams` = 2: two accepted connections at a time; an accept may fail at any
  time, whether descriptors are left for streams or not. Keys and endpoints are compared
  only for equality, hence the symmetry in `connections`.
* `MaxCalls` = 3: a call, its successor, and one that meets closed connections.
* `FreshIsExact` tries all 20 timestamps of a type with `HALF` = 10, at every clock
  value, so distances on both sides of `HALF` and `HALF` itself;
  `FreshExact` proves the same for any `HALF`.
* `system`: two devices, so that two approvals or an approval and a refusal for one
  voter are under way together; two tickets, so that a voter can check in again or
  hold an old ticket. The freshness interval is 0 and the window 1: a request that
  is served one clock value late is stale, and a ticket lapses within the clock.
  All PINs are right (a wrong one is in `checkin`). `cleanup_threshold` 0 and
  `SLEEP` 1 put a report and its cleanup within the clock. `CheckIn` leaves a ticket
  for every request under way, so that the bound on tickets never refuses one. The
  theorems are about any number of clients and any interval.
* `race_loser`: two kiosks and one voter, no restart.
* `warnings`: a queue of two messages holds warnings in an order and is full as
  soon as the worker is two behind; three warnings leave one before and one behind a
  removed one; answers of more than one warning (`SendBuffer`) can be damaged.
* `config`: three threads are a winner, a loser and one that comes after.

`CHECK_DEADLOCK FALSE` is set where the clock, the restarts, or the calls are
bounded: there the behaviour ends at the bound.

### Fairness

`HFairSpec` of `CheckinHistory`: weak fairness of `Tick`, of `ExpireTimer(v)` and of
`handle_verification_timeout(v)`. Time passes; asio's reactor completes due waits
and a single thread runs the ready queue in order. It assumes that the synchronous
writes of handlers return, which a peer that never reads could prevent (listed as
a hazard). Nothing is assumed of clients, of the operator or of restarts; "or the
process ends first" is part of the property. `PollbookClient`: weak fairness of
the network thread only; servers and the link promise nothing. `Config`: weak
fairness of every thread that is inside a call; a spinning thread is not blocked.
`WarningCache`: weak fairness of the blocked log call and of the worker, and strong
fairness of each session's handlers: the io_context runs handlers in the order in
which they became ready, but the handlers of the service come in between, so a
session's is enabled again and again rather than all the time. `PollbookSystem`:
time passes; the cleanup thread wakes up; a kiosk's request that has arrived is
served; a response that was written arrives, or the broken connection is noticed
by its client. Nothing is assumed of devices (their requests may be refused
silently), voters, restarts, or that a connection stays up.

One clock stands for `steady_clock` and `system_clock`: the system clock is assumed
not to be stepped during a run.

## 5. Proofs

All theorems hold for every roll, client set, request set, window, interval and
bound that satisfy the named assumptions.

* **`CheckinService_proofs`**: from `CheckinAssumption`, the inductive invariant
  `IInv == TypeOK /\ PendingHasOneTimeout /\ QueuedIsDue /\ OrphanIsCheckedIn`.
  `PendingHasOneTimeout` alone is not inductive: a completion without a timer
  could revert a later check-in. `OrphanIsCheckedIn` says that such a completion
  exists only for a voter who is CHECKED_IN, and so can never begin again in this
  run; `QueuedIsDue` that a queued completion is due. Results: `TypeCorrect`,
  `OneTimeout`, `NoEarlyRevertHolds`, `CheckedInIsFinalHolds`,
  `ApprovalChecksInHolds`, and `Refinement`: the specification implements
  `TwoPhaseCheckin` under `status <- voter_status_table` and the timer's expiry as
  `deadline`. The module begins with `FreshExact`, from `FreshnessAssumption`: on a
  clock between the first interval after the epoch and 2^63 the machine test
  answers exactly what is meant, except for the one timestamp 2^63 ahead.
  `FreshnessExact` says so of every clock value the service reaches.
* **`CheckinHistory_proofs`**: in addition from `ReplayAssumption` (the window is
  longer than two freshness intervals). `HInv` adds that a grant keeps its voter
  from being ELIGIBLE until its window has passed (`GrantsHold`), that every timer
  was started by a grant of this run (`TimerFromGrant`) and that the voter of a
  redemption stays CHECKED_IN (`RedeemedCheckedIn`). Results: `OneCheckin`,
  `NoReplay`, `RedemptionHasGrant`. The argument of `NoReplay`: at a second approval
  the window of the first has passed, so the clock has moved by more than two
  intervals, and no timestamp is fresh at both times; the timestamp 2^63 ahead is
  excluded too, as it can be so for one clock value only. The second layer `TInv`
  relates tickets to grants: no two grants share a ticket (`generate_secret`
  draws 16 random bytes, and the model takes every draw to be new), and every ticket in
  memory or in the file was granted to the voter it is kept for. It gives
  `RedeemedOwnTicketHolds` (nobody is checked in on another voter's ticket, whatever
  the file brings back), `WindowsApartHolds` (two grants of a voter in one run are a
  window apart) and `TicketOncePerRunHolds`, the part of the documented
  "single-use" that the code keeps: the run `ticket_single_use` shows that the
  statement as written fails across a restart.
* **`CheckinConnections_proofs`**: `IInv` is the type invariant with
  `VerifierUsesPinnedKey` and `DispatchedHasVerifier`, which need each other at a
  handshake; `IdInv` adds what `client_id_map` holds for a connection with a
  certificate. Results: `TypeCorrect`, `PinnedVerifier`, `VerifierFound`,
  `CertifiedDispatch`, `FirstKeyStaysHolds`, `ListensUnlessAcceptFails`.
* **`VoterIDService_proofs`**: `IInv` adds `KnownHasVerifier` (a recorded key has a
  verifier), without which a handshake with a second key could leave its client
  without one. Results: `TypeCorrect`, `ReadsFindStream`, `ConnectedIsVerified`,
  `VerifierStaysHolds`, and about the signed statements: `StatementsVerified` (each
  answers a valid request under the key its client has from then on) and
  `OneSignerPerProcess` (one key for all statements of a process about a client ID,
  although the ID is never compared with the certificate of the connection).
* **`PollbookClient_proofs`**: `IInv` says that at most one message is under way,
  on the connection the outstanding operation waits for, that it belongs to the
  current call (`OutIsCurrent`, `OneInFlight`), and that a link that is down carries
  nothing (`DownIsSilent`). That replaces the correlation the messages do not have.
  Results: `TypeCorrect`, `PromiseHasOperation`, `NameMatches`, `Implements`: the
  library refines `ClientCall`.
* **`Config_proofs`**: `IInv` says that a thread between `compare_exchange` and the
  store is the only one, and that INITIALIZED implies an object. Results:
  `TypeCorrect`, `ReturnsInitializedHolds`, `InstanceStaysHolds`, and
  `AbandonedForGood`: the exception that `CallsEnd` allows is final, for after a
  constructor has thrown no call ever returns the object.
* **`PollbookSystem_proofs`**: from `SystemAssumption`, for any number of clients.
  `ServiceInSystem` shows that the composed system implements `CheckinService!Spec`,
  so that every theorem above holds end to end. `SInv` adds to the service's
  invariant: requests on the wire are honest (`HonestMail`); tickets are drawn in
  order and memory and file never disagree (`TicketsInOrder`), so that the reload
  cannot change a ticket somebody holds; an approval on the wire to a kiosk is a
  known ticket (`GrantsKnown`); for each voter there is at most one approval,
  received or under way, and it implies CHECKED_IN (`Admissions`); a record holds
  the time of the last report, or that is too long ago, and no kiosk has one
  (`Records`). `AdmittedOnce` is not inductive without the approvals under way. Results: `SystemTypeCorrect`,
  `AdmittedOnceHolds`, `ShownTicketsKnownHolds`, `KiosksNotBlamedHolds`,
  `RecentFaultsKeptHolds`, and with `ServiceInSystem` also `SystemImplementsTwoPhase`.
  Two more layers stand on `SInv`. `TicketsHeld` follows a ticket from the kiosk's
  screen through the device's request and the service's answer, and gives
  `AdmittedWasShownHolds`: nobody is admitted unless a kiosk has shown that voter a
  ticket. No run checks it, as it says something only with two voters and the
  instance `system` has one. `RoundsInTime` relates the next round of the cleanup
  thread to the age of every record and gives `NoStaleRecordHolds`, the safety part
  of `OldRecordsGo`: while the thread is not late, no record is older than the
  threshold and one sleep.
* **`WarningCache_proofs`**: for any capacity of the queue and any number of
  operators, warnings and commands. `IInv` joins the properties with
  `CallHasNumber` (a warning whose log call waits for room still has a number to take)
  and `DiscardedWasLogged` (what was removed had been logged), without which the number
  the next warning takes could already be among the removed ones. The accounts are kept by position: where a warning stands in the
  queue, not which subsequence of the queue it is part of, so that the sequence
  lemmas (`Positions`, `RemoveAtProperties`, `PrefixByPosition`) need no induction.
  Results: `TypeCorrect`, `WarningsAccountedForHolds`, `ShownIndicesStandHolds`, and
  `RemovesWhatWasShown`: `remove_warning_at` with an index from an answer that still
  stands removes the warning the answer showed there.

Only model-checked: liveness (`PendingResolves`, `ResponseFulfils`, `OldRecordsGo`,
`KioskCallsEnd`, `CommandsAnswered`, `CallsEnd`), which is out of the prover's reach.
Every invariant, action property and refinement that a passing run checks is also
a theorem. `PinMatches` rests on the recursive function `to_string`, about which
nothing is proved or needed.

## 6. Running

    tlc -config MCCheckinHistory.cfg MCCheckinHistory
    tlapm CheckinService_proofs.tla

and likewise for the other configurations and proof modules. The largest runs,
`checkin` and `system`, take about three minutes.
