# A TLA+ model of liteway

liteway is a layer-3 mesh VPN. Each node runs `litewayd`, which keeps an encrypted
session with every peer it talks to. This directory specifies the parts of it in
which order, timing and concurrency decide what happens, checks them with TLC on
small instances, and proves what TLAPS can prove for every instance.

## The system

| Part | State | Operations |
|------|-------|------------|
| certificates and enrolment (`liteway-cert`, `cert.rs`, `main.rs`) | CA and node files, the identity a daemon started with | `gen-ca`, `gen-node`, `Cert::verify`, the checks at start-up |
| session establishment (`main.rs`, `handshake.rs`, `state.rs`) | `pending`, `handshake_cache`, `peers` | `start_handshake`, `handle_handshake_1`, `handle_handshake_2`, `accept_handshake_session`, `add_peer` |
| session packets (`main.rs`, `packet.rs`) | `tx_seq`, `rx_replay` of each peer | `peer_tx`, `handle_session_packet`, `ReplayWindow::accept` |
| tables (`main.rs`) | `peers`, `rx_sessions`, `routes`, `lighthouses`, OS routes | `add_peer`, `remove_peer`, `bind_lighthouse`, `refresh_lighthouse_address` |
| routes and authorisation (`main.rs`, `state.rs`) | `routes`, OS routes | `RouteTable`, `authorized_peer_routes`, `send_to_overlay`, `handle_data` |
| paths (`state.rs`) | `addr`, `direct_addr`, `relayed` | `mark_seen`, `take_path_probe`, `answer_keepalive`, `note_direct_endpoint` |
| timers (`state.rs`) | `last_seen`, `last_ack`, `keepalive`, `next_probe`; `attempts`, `next_attempt` | `tick`, `ack_keepalive`, `take_path_probe`, `retransmit_handshakes` |
| fragments (`frag.rs`) | `pending`, `buffered_bytes` | `send_fragmented_with_id`, `feed`, `cleanup` |
| discovery (`main.rs`) | `discovery_pending`, `lighthouses` | `request_discovery`, `handle_lighthouse_query`, `handle_lighthouse_response`, `connect_lighthouses` |
| relaying (`main.rs`) | `peers` of the relay | `relay_datagram` |
| shutdown (`main.rs`) | `running`, `shutdown` | the signal handler, `wait_for_shutdown_or_timeout`, `notify_shutdown`, the joins |

Four threads share a node's tables: *receive* handles every datagram, *maintenance*
retransmits and drops every 250 ms, *punch* dials lighthouses, and the main thread
sends what comes from the TUN device. Each table has its own lock and no two are
held at once, so operations on several tables are not atomic.

What makes it hard: handshakes that cross; messages lost, repeated, reordered, or
arriving over two paths; decisions made under a lock and carried out after it;
restarts with traffic of the former life under way; a node that comes back with a
new identity and its old addresses; timers that are close together in valid
configurations; paths that work one way only; a signal at any moment of four
threads. `PROJECT.json` lists these hazards at the lines where they bite.

## The modules

**ReplayWindow, ReplayReceiver, AntiReplay.** `ReplayWindow` is `ReplayWindow::accept`
as operators: the bitmap is a set of bits, its width `W` a constant (64 in the code).
`ReplayReceiver` feeds it sequence numbers in any order. `AntiReplay` is what it
promises: a number is accepted if it was not before and is less than `W` behind the
highest. The receiver is shown to implement it.

**Sessions.** Any number of nodes. `peers`, `pending` and `cache` hold the entries of
all nodes' tables; `hs1`, `hs2` and `packets` hold everything ever sent, from which
a message may be delivered at any time, any number of times, or never. A session key
is the pair of ids its two handshake messages carry. Actions are the handlers:
`Discover` (a dial by the receive thread), `PunchCheck` and `PunchDial` (the two
critical sections of a dial by the punch thread), `HandleHandshake1`,
`AnswerFromCache`, `HandleHandshake2`, `GiveUp`, `CacheExpire`, `Send`,
`HandleSessionPacket`, `DropPeer`, `Crash`, `Shutdown`. Simplifications:
- A handler is one step. All of them run on the receive thread; what other threads
  do between a handler's critical sections is the subject of `NodeTables`.
- Session ids, random 32-bit numbers in the code, never collide.
- A retransmission is byte-identical, hence the same element of `hs1`.
- `CacheExpire` also withdraws the handshake it answers: its copies leave within
  less than half of the cache's 60 s, so only a datagram delayed by more than the
  other half would arrive later.
- `Contacts` says who dials whom, by id (after a lighthouse's answer) or by endpoint alone (a
  configured lighthouse), and at which address; a datagram to an address reaches its node.
  `InFlight` compares ids where both are known and addresses otherwise, as `start_handshake`
  does. `PunchCheck` has no guard on sessions: the punch thread's view of who is connected is
  older than its dial (`NodeTables` has how it comes by it).
- Timers may fire at any time.

**SecureChannel.** What the sessions of all nodes together promise to the layers above: a
packet is sealed under a number its sender never used under that key, and is handed over at
most once, if at all. `Sessions` is shown to implement it with its own `packets` and
`accepted`; the handshakes, tables and windows are what the abstract specification hides.

**NodeTables.** One node, and each critical section of `add_peer`, `remove_peer` and the
punch thread an action; `job` says where each thread is. A lighthouse slot has a name and
the address it was last resolved to, and `BindLighthouse` binds it by either; the address of
a session is where its handshake came from, which for a relayed peer is the relay's. The
punch thread copies the slots (`CloneSlots`), looks which have a session (`SeeUnconnected`),
and resolves the others with no lock held (`Refresh`). `DecideDrops` and `DropDecided` are
the two halves of `maintain_peers`: what is decided for a session is done to whatever session
the peer has by then. Networks of different peers are disjoint (`DataPlane` has those that
overlap). A drop is never decided for a session
still being added: the timers start with it and are longer than `add_peer` takes.

**Certificates, RouteTable.** Operators. `Certificates` has networks, what a certificate
grants (`authorized_peer_routes`) and `Verify`; a signature stands for the key that made
it. `RouteTable` is the list of routes with insertion, longest-prefix lookup and removal;
its loops over a list are folds over the list's positions (`Retain`), those over a
certificate's sorted routes folds in that order (`InsertAll`).

**Enrolment.** The operator's commands and the daemons' starts. `gen-ca` and `gen-node`
overwrite the public file and then refuse to overwrite the private one, so a command that
fails leaves files that do not belong together; `GenCa` and `GenNode` do the same.
`MayStart` is what `main` checks. A running daemon keeps what it read.

**DataPlane.** `Enrolment` and `RouteTable` composed: a node's routes and its kernel's
routes as peers connect, vanish, and return under new certificates. `Connect` is a
handshake with `add_peer`, `Remove` is `remove_peer`; both are single steps here. A peer
is known by its key (in the code by the key's hash). `kernel` leaves out the route of
the mesh's own network, which no peer owns.

**PeerPath.** Both ends of one session, any number of relays (`Relay`), and a direct path
that is open in both directions, one, or none. A relay has a session with both ends, one, or
none (`reach`), and passes on what is for an end it has a session with (`Carries`); the
initiator takes any relay it is connected to. `MarkSeen` is `mark_seen`; `Punch` and
`LookUp` are the outcomes of `take_path_probe`, the latter with the introduction of the
other end, which may be lost. The lighthouse may know either end by a relay's address only
(`reported`). An address is the path it stands for. Of a session's packets only keepalives
are told apart, as `mark_seen` does; data and acks are `"other"`. Open directions and the
relays' sessions do not change while the session lasts.

**HandshakeTimers, PeerTimers.** The timers towards one peer: a handshake, the session it
makes and the next handshake, in units of 250 ms. Instants are kept as ages; a session's
stop counting at `AgeCap`. `Tick` is `maintenance_tick`, at most `TickGap` after the one
before. `ValidHandshakeTimings` and `ValidTimings` are what `AppConfig::validate` demands.

**Fragments.** `Total` and `LenAt` are how a message is split; `Feed` and `Cleanup` are
the assembler's, with the age of every entry. Messages may share an id.

**Discovery.** Clients behind NATs and one lighthouse. An endpoint is a number, new after
every restart. A NAT lets in what comes from an endpoint its client sends to. Messages
are fast against the unit of time, in which traffic has one packet. A session has the
endpoint it is at and its initiator, which `AcceptHandshakeSession` compares; `agreed` are the
pairs whose two ends hold the same key, and a pending handshake knows whether its responder
still holds what it answered. `HandleHandshake1` answers the first copy, `AnswerFromCache` the
later ones; `DropStale` is the keepalive timeout of an end whose session the other does not
hold (`RemovePeer`). The cache's eviction and dials without an id are left to `Sessions`. `Lose`, `Restart`,
`RestartLighthouse` and `Break` are faults, `MaxFaults` in one behaviour.

**Shutdown, GracefulStop.** The four threads' loops down to their checks of `running` and
their waits on the condition variable, the signal handler in its two steps, and the end of
`main`. Of the work the threads do, only the sessions added and removed are kept.
`GracefulStop` is the promise: no thread ends in service, `main` ends last, and after a
stop is asked for all end. `Shutdown` is shown to implement it with
`stopping <- ~running` and `live <-` the threads that have not ended.

`MC*.tla` define the constants' values that a configuration cannot express. Operators
marked *Mutant* are plausible mistakes, used to see that each property can fail.

## What is checked

| Run (configuration) | Result | Shows |
|-----|--------|-------|
| `replay_window` (`MCReplay`) | holds | the bitmap is exact, and the receiver implements `AntiReplay` |
| `packets` (`MCPackets`) | holds | no sequence number is reused under a key, the sessions implement `SecureChannel`, and entries under one key are the two ends of one session, across drops, restarts and repeats |
| `dial` (`MCDial`) | holds | two ends hold different keys only after one of three races (crossed handshakes, as below; a peer dialled twice; a handshake_1 answered twice); a handshake_1 is answered anew only after as many other answers as the cache holds; no two handshakes in flight that `start_handshake` takes for the same |
| `tables` (`MCNodeTables`) | holds | a bound lighthouse slot fits its peer by name or current address; a session in the table can be received on; an addition nothing overlaps is complete, whatever earlier overlaps left |
| `path` (`MCPath`) | holds | no end leaves a relay for a path that does not deliver, what both ends use delivers but for a known exception, none is pulled back, a working direct path is found |
| `timers` (`MCTimers`) | holds | retries keep their pace and the relay is tried; a dead path is dropped in bounded time, one lost keepalive is survived, probes go on, a silent peer expires, if late when a keepalive is outstanding |
| `fragments` (`MCFragments`) | holds | totals and limits are exact, nothing is held for long, no chunk is lost before its time |
| `dataplane` (`MCDataPlane`) | holds | daemons that start agree; a route leads to a session that accepts its packets; the most specific network wins; kernel routes follow the sessions, renewals aside |
| `discovery` (`MCDiscovery`) | holds | nobody waits longer than the rate limit to ask; after the last fault the two ends of traffic agree on a session, and lose it only to handshakes that cross |
| `shutdown` (`MCShutdown`) | holds | no wake-up is lost, at most one session is left untold, the stop is graceful and ends without any wait having to time out |
| `split` (`MCSplit`) | violated | see below |
| `renewal` (`MCRenewal`) | violated | see below |

Each violated run checks one statement that the repository makes and the code does not
keep. `PROJECT.json` quotes the lines.

- `split` (`SettleOnOneKey`): the lower id's handshake completes; the higher id's, sent
  while both dialled, then finds nothing pending and replaces the session at the lower id,
  while its answer loses the tie-break at the higher. Nothing in flight repairs it.
- `renewal` (`RoutedReachesTunnel`): a gateway is killed, its key is deleted and `gen-node`
  run again. It reconnects with a new id and the networks it had; `add_route` finds the
  kernel routes there and counts them as added. When the old id's session times out,
  `remove_peer` deletes them, and the new session's networks are no longer routed to the
  interface for as long as it lasts.

Further configurations answer smaller questions about the same modules. They are run by
hand, in the same way.

| Configuration (module) | Result | Shows |
|-----|--------|-------|
| `MCCache` (`MCSessions`) | violated | a full cache evicts an answer still being asked for; the next copy gets another (`OneAnswer`) |
| `MCInFlight` (`MCSessions`) | violated | a discovery dial falls between the punch thread's check and its insertion: two handshakes in flight, on two ways of dialling (`OneInFlight`) |
| `MCDangling` (`MCNodeTables`) | violated | a stale drop removes a session while it is added; its routes lead nowhere (`RoutesLeadToSessions`) |
| `MCUnrouted` (`MCNodeTables`) | violated | `remove_peer` of an old session, on the maintenance thread, deletes the routes that `add_peer` has just written for the new one (`EstablishedIsRouted`) |
| `MCStaleDrop` (`MCNodeTables`) | violated | a session replaced between `maintain_peers`' decision and the removal is dropped in the place of the old one (`DropsAreCurrent`) |
| `MCTakeover` (`MCNodeTables`) | violated | a peer relayed by a lighthouse has its address, and takes over its slot (`SlotsHoldLighthouses`) |
| `MCContested` (`MCDataPlane`) | violated | a network that two peers advertise has no route once the second is removed, although the first is connected (`HeldIsRouted`) |
| `MCResplit` (`MCDiscovery`) | violated | without any fault, crossed handshakes split the ends, both sides time out, the lookup introduces both again and they cross again (`HealsForGood`) |
| `MCOneWay` (`PeerPath`) | violated | the first handshake_1 comes over a path that does not work backwards; the relay completes the handshake, but the responder keeps sending directly (`UsedPathDelivers`) |
| `MCLateFallback` (`PeerTimers`) | violated | the ten attempts are used up about 21.5 s after the first; with a later fallback, such as 27.5 s, the relay is never used (`RelayIsTried`) |
| `MCSilent` (`PeerTimers`) | violated | a session that receives all the time is dropped by keepalive timeout, which `tick` means to do and the repository's README describes otherwise (`DroppedOnlyWhenSilent`) |
| `MCProven` (`PeerTimers`) | violated | the answer to a direct probe moves the session in `mark_seen`, which forgets the probe's token before `ack_keepalive` compares it; the ack does not count, and a session that has just proved its path may be dropped (`ProvenPeerIsKept`) |
| `MCExpiry` (`PeerTimers`) | violated | a keepalive timeout as long as `PEER_EXPIRY`, which `validate` allows, outlasts it (`ExpiryIsUpperBound`) |
| `MCMerge`, `MCMergePaths` (`MCFragments`) | holds, violated | copies from one source merge; fragments that came directly and through a relay do not |

### Bounds

`MaxId` (session ids drawn), `MaxSeq` (packets a session sends of its own accord), `MaxSid`
(sessions installed), `MaxKey` (key pairs generated), `MaxTime` (the clock's end) and
`MaxFaults` make the state spaces finite.

- `MCReplay`: numbers up to 8 at a window of 3, so that packets fall inside, on and
  beyond both edges.
- `MCPackets`: three ids, so that a handshake completes and another is begun, or is
  answered a second time by a responder that restarted; two packets per session besides
  acks and disconnects, so that a window of 2 slides. The properties are also proved.
- `MCDial`: three nodes in a chain, one of which dials another by id and, as a lighthouse,
  at two addresses; eight ids, four handshakes with their answers; caches of two, which the
  node in the middle overflows.
- `MCNodeTables`: four sessions among two peers, so that a removal overlaps an earlier
  and a later addition of the same peer while the other peer's tables change; a slot that
  moves between two addresses, at one of which the other peer may be relayed.
- `MCPath`: two relays, so that the relay a session uses, the one the lighthouse reports
  and one that does not know the other end may differ. Everything else is finite as it is:
  messages are told apart by kind, sender and path. The safety properties are proved for any
  relays.
- `MCTimers`: handshake timeout 30 s, fallback 5 s, interval 1 s and timeout 2 s, small
  values that `validate` accepts; the code's retry delays and ceilings; ticks up to 500 ms
  apart. Expiry (2.5 s, so that a keepalive may outlive it) and the probes' delays (1 s and 1.5 s) are shortened, the
  latter in their order. `AgeCap` is beyond every age a property or a guard compares with. The
  properties are proved for other values too.
- `MCFragments`: every limit is a few chunks and is reached; an entry is stale after one
  unit, and each unit has a cleanup at some point among its chunks (two units apart, a run
  takes four times as long and holds as well). States that differ only in the histories
  are identified: no step depends on them, nor does a property but for the type of
  `completed`.
- `MCDataPlane`: three-bit addresses, the node and two gateways whose networks contain,
  equal and miss each other, one with advertisements beyond its grants; five key pairs, a
  CA, an identity for each node and one renewal; certificates that are valid at one
  instant of two.
- `MCDiscovery`: two clients with traffic one way, three faults, and a handshake timeout
  that is twice the rate limit, so that lookups are answered while a dial is pending.
- `MCShutdown`: two peers and three sessions, so that a session may be replaced or added
  between the listing and the last disconnect; two lighthouses. Proved for any number.

Every run that holds is also free of deadlock, but for two where the system really may
stop: in `MCPath` a handshake may be given up with nothing else under way, and in
`MCDataPlane` keys and time run out.

### Fairness

Three properties need it.

- `MovesOffRelay`: weak fairness of probing and of lighthouse lookups (the maintenance
  thread runs for as long as the node does, and an unanswered probe is repeated for as long
  as the session is relayed) and of delivering keepalives, and what answers them, on an open
  direct path (repeated without end, they are not all lost). Nothing is assumed of data.
- `MeshHeals`: weak fairness of time, traffic, handlers, keepalive timeouts and the punch
  thread, all of which loops drive that run as long as the daemon; and strong fairness of a
  handshake_1's arrival: it is sent again and again, and if the NAT is open again and again
  one copy meets it open. Faults are bounded and not fair. Nothing is assumed about how
  handshakes that cross come out, so the property allows them to split the ends for ever.
- `AllThreadsEnd`: weak fairness of each thread's steps and of the handler's second step,
  which waits for a lock nobody keeps. There is none of `Wake`, so that no wait need time
  out, and none of the signal.

## What is proved

Each theorem is for every value of the constants that the named assumptions allow. Each
follows from an inductive invariant, because none of the properties is inductive by itself.

`SessionsProofs` begins with the window, for every width. `Accepts` is freshness and
`AfterAccept` remembers exactly one number more. Of the receiver: `ReceiverTypeCorrect`,
`WindowIsExact`, and `ReplayRefinement`, that it implements `AntiReplay`. The invariant is
that the bitmap is exactly the accepted numbers within the window and `highest` their
maximum; with it every step of the receiver is the abstract step with the same verdict.

Then, for any set of nodes, contacts, cache size, window and bounds:
`TypeCorrect`, `KeysAlwaysMeet`, `SequenceNumbersAreFresh`, `DeliveredAtMostOnce`,
`ChannelRefinement`, `NoDoubleDial`. Sequence numbers and windows start afresh with each session, so the point
is that a key is never installed twice at one end. The invariant says:
ids in use were drawn (`IdsDrawn`); a pending handshake's id has been in no key its node
held, sent or accepted under as initiator (`PendingUnused`); a node holds a key in at most
one session (`KeyOnce`); every session is an end of some answer that was sent, and each
answer has an id of its own (`Provenance`); numbers sent are at most `tx_seq`
(`SeqNeverReused`); and each window remembers what was accepted under its key
(`WindowsRemember`). A handshake_2 consumes the pending entry and a handshake_1 draws a new
id, which is why no later step can install a key again.

`ChannelRefinement` says that `Sessions` implements `SecureChannel`, step by step. A step
that sends takes the number after `tx_seq` of the one session its node holds under that key,
and all numbers sent under it are smaller (`FreshNonce`). A step that receives hands over a
packet that was sent, and that the window of the session it opens under does not remember;
since the window remembers all that was accepted under its key, it was not handed over
before (`NotHandedOver`). Every other step leaves the channel as it is.

Two more are of fewer actions.
- `AnswersLast`, of nodes that run (`RunSpec`: all but restarts). `MCCache` shows that a
  second answer can be given; the theorem says when. The invariant is that an answer is still
  in the cache, or no copy of its handshake_1 is left, or at least `CacheMax` answers have
  been given since (`StillCached`): only a full cache evicts, and what it evicts is older than
  all it keeps (`EvictedAfterMany`).
- `SplitsOnlyByRaces`, of handshakes alone (`DialSpec`). Say that neither end dialled
  or answered twice. If the same end initiated both sessions, they come from one handshake_1, so from
  one answer, and have one key. The other case to exclude is that each end keeps its own.
  That cannot be because of `LowerWins`: once the higher id has answered the lower, all it
  holds for it was initiated by the lower, whichever branch of `accept_handshake_session`
  was taken. What is left is the crossing that `split` exhibits.

`PeerPathProofs`, for any set of relays and whatever ends each of them knows:
`PathTypeCorrect`, `DeliversBothWays`, and the action properties `OnlyOpenPathsAdopted` and
`DirectStaysDirect`. The invariant (`PathInv`) says what an end can conclude from what it
heard: who sends directly, or answers directly, has heard the other end directly (`Heard`);
the handshake went only where it was dialled or to the fallback, and the initiator waits only
before it has the session (`Handshaking`); and if the lighthouse knows the endpoints, the
fallback is the only relay in use, the initiator is connected to it, the responder is too
once anything but a handshake_1 went through it, and both ends know that they are relayed
(`OneRelay`). So an ack or data that came directly to a relayed end shows that its own
probe or answer arrived, which a keepalive would not: the reason why `mark_seen` tells them
apart. That `mark_seen` alone moves a session is a lemma of its own (`OnlyMarkSeenMoves`).
The assumption is that a relay's address is neither of the model's names for the direct path
and for none (`RelayAssumption`).

`NodeTablesProofs`, for any peers, networks, addresses and lighthouses: `TypeCorrect`,
`SessionsStayIndexed`, `SlotsAlwaysMatch`, `AddsAreWhole`. The invariant says what the threads may be in the
middle of (`Jobs`), that no two sessions share an id, so that a removal only unindexes
the session it was decided for (`SidsApart`), that an addition is at an address of its peer
(`AddedAtItsAddress`), and how far an addition nothing overlapped has come (`Progress`).

`TimersProofs`, for every configuration `validate` accepts: `TypeCorrect`,
`HandshakesKeepTrying`, `DeadPathsAreDropped`, `LossesAreSurvived`, `ProbingGoesOn`,
`SilentPeersExpire`, and one with a further condition that the code does not enforce:
`RelaysAreTried` takes a fallback of at most 21.5 s, when the last attempt can have been made,
and one that leaves a retry's time before the handshake's timeout; `MCLateFallback` shows what
happens without. The
invariant bounds every age by the age that would have fired it at the last tick
(`HandshakeInv`, `KeepaliveInv`, `ProbeInv`); for the relay it says how early the next
attempt can be after each number of attempts (`RelayInv`).

`ShutdownProofs`, for any number of peers, lighthouses and sessions: `TypeCorrect`,
`NoLostWakeup`, `AlmostAllAreTold`, and `StopsGracefully`, that `Shutdown` implements
`GracefulStop`. The invariant says that the two flags follow the handler
(`FlagsFollowHandler`), that sessions listed are listed until told (`Listed`), and that a
session missing from the list came with the one datagram the receive thread was handling
when `running` was cleared (`LastDatagram`).

`FragmentsProofs`, for any sources, messages, limits and ages: `TypeCorrect`,
`TotalsAreExact`, `LimitsHold`, `NothingIsHeldLong`, and the action property
`NoChunkIsLost`. Each entry's bytes are the sum of its chunks' lengths, which are chunks of
messages with its id and its total (`EntryOK`), it is incomplete, and `buffered` is the sum
over the entries; a feed changes one summand and a cleanup takes a set of them away. Since
the totals are exact the code's saturating arithmetic never saturates. An entry's age is
less than the cleanup age plus the time since the last cleanup. For the last theorem, an entry holds no more bytes
than the longest message it has a chunk of (`BytesWithinMessage`), so one is thrown away
for its size only if a message that is too long came under its id (`OverflowCollides`).

`CopiesMerge` is the other side of it: a message whose every chunk came from one source, in
whatever attempts and order, has been handed on (`MergedPerSource`, which `MCMerge` checks).
It takes ids of their own and messages within the limit (`OwnIds`), and that the assembler
is never full nor an entry stale (`Undisturbed`); `MCMergePaths` shows that two sources do
not merge. The invariant is that an entry has the total of the message of its id, and every
chunk that came from its source, unless the message was handed on already (`MergeInv`); so each chunk
is stored, neither refused nor taken for a misfit (`FeedStores`).

`DataPlaneProofs`, for any nodes, addresses, networks and lifetimes. Of the enrolment:
`StartedDaemonsAgree`. What `main` checked stays true of what it keeps in memory: the
certificate was signed by the CA it read, belongs to the key it read (`Checked`), and is
not from the future (`Dated`). Every step of `DataPlane` is a step of `Enrolment` or leaves
its variables alone (`DataPlaneEnrols`), so the property holds there too (`PeersAgree`).
Of the routes: `TypeCorrect`, `RoutedPacketsAreAccepted`, `LongestPrefixWins`,
`KernelAndTableAgree`. The lemmas say what a fold leaves in the table: `Retain` the entries
it was given (`RetainFacts`), `InsertAll` an entry for each new network and those of all
other networks (`InsertAllFacts`); and what is found there, by `LookUp` an entry that no matching one is
longer than (`LookUpFacts`). The invariant is that a key is in one certificate
(`Identities`), so that peers are told apart, and that every entry belongs to a session
that may have it, every network of a session that is not contested has its entry, and two
sessions share contested networks only (`Tables`). The assumptions are that the operator
asks for finitely many networks of the address space (`EnrolmentAssumption`) and that the
node is one of those enrolled (`SelfAssumption`).

The last two rest on sums and folds over finite sets. The library's induction theorems take an
operator, which no installed prover can instantiate, but its theorem that a set of numbers
has a least element does not: an induction over finite sets is a search for the smallest
counterexample (`SmallestSet`). From it follow the sums (a summand changed, a set of
them removed) and the folds (what each step keeps, the fold keeps; `FoldInduction`).

`DiscoveryProofs`, for any clients (`ClientAssumption`: ids are positive numbers), traffic and faults: `TypeCorrect`, `NobodyIsHeldBack`.
The invariant is that the time left of the rate limit and the time waited already are
together at most `Retry` (`RateInv`).

Only model-checked is liveness (`MovesOffRelay`, `MeshHeals`, `AllThreadsEnd`): fairness
and `ENABLED` are out of the prover's reach. Every other property of a run that holds is
stated by a theorem, one of them with a further condition: `RelayIsTried`, on the timings.

## Not modelled

- Cryptography is perfect: a packet opens under its key and no other, and a key pair is
  new every time.
- Byte layouts, file formats, hex helpers, the TUN device, interface addresses and how each
  operating system is told of a route are pure conversions or I/O. An error of the system's
  route commands is only logged by the code and is left out.
- The `RelayForward` body: `packet.rs` encodes and decodes it, but the daemon never sends one.
- Relays that gain or lose sessions while a session between two others lasts, roaming between
  direct endpoints, and 32-bit collisions of ids.
- A session goes on after its certificate has expired. The code never looks at a
  certificate again, and no doc or test says whether it should, so there is nothing to hold
  it to.
