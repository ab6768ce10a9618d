------------------------------- MODULE Fragments ------------------------------
(***************************************************************************)
(* Large messages travel as fragments, and FragmentAssembler puts them     *)
(* together again within fixed limits (liteway-core/src/frag.rs).          *)
(*                                                                         *)
(* A chunk is stood for by the message it is of, a byte count by a small   *)
(* number.  A source is the address a datagram comes from: the sender's,   *)
(* or that of the relay that passed it on.                                 *)
(***************************************************************************)
EXTENDS Integers, FiniteSets, FiniteSetsExt

CONSTANTS
    Src,                   \* source addresses
    Message,               \* messages sent: [id, len]; two ids may be equal
    ChunkSize,             \* max_datagram - PACKET_OVERHEAD
    MaxPending,            \* MAX_PENDING_MESSAGES
    MaxPendingPerSource,   \* MAX_PENDING_MESSAGES_PER_SOURCE
    MaxBuffered,           \* MAX_BUFFERED_BYTES
    MaxBufferedPerSource,  \* MAX_BUFFERED_BYTES_PER_SOURCE
    MaxMessage,            \* MAX_FRAGMENTED_MESSAGE_BYTES
    CleanupAge,            \* CLEANUP_AGE_SECS
    CleanupGap             \* longest time between two cleanups, in seconds

ASSUME FragmentsAssumption ==
    /\ Message \subseteq [id : Nat, len : Nat] /\ ChunkSize \in Nat \ {0}
    /\ {MaxPending, MaxPendingPerSource, MaxBuffered, MaxBufferedPerSource,
        MaxMessage} \subseteq Nat
    /\ CleanupAge \in Nat \ {0} /\ CleanupGap \in Nat \ {0}

VARIABLES
    pending,       \* the messages being assembled, by source and id
    buffered,      \* buffered_bytes
    sinceCleanup,  \* seconds since last_cleanup
    completed,     \* history: messages handed on
    arrived        \* history: <<source, message, index>> of every fragment

vars == <<pending, buffered, sinceCleanup, completed, arrived>>

-------------------------------------------------------------------------------
(* send_fragmented_with_id: into how many chunks, and how long each is. *)

Total(m) == Max({1, (m.len + ChunkSize - 1) \div ChunkSize})
Index(m) == 1 .. Total(m)

(* Index and total are one byte each: a longer message is not sent. *)
Sent == {m \in Message : Total(m) <= 255}

LenAt(m, k) == Min({ChunkSize, m.len - (k - 1) * ChunkSize})

-------------------------------------------------------------------------------
(* The assembler. *)

Keys == DOMAIN pending

(* An entry has a slot per chunk; chunks holds the slots that are filled,  *)
(* age the seconds since started, held (history) since it was entered.     *)
NewEntry(m) == [total |-> Total(m), chunks |-> <<>>, bytes |-> 0, age |-> 0, held |-> 0]

SlotLens(entry) == [k \in DOMAIN entry.chunks |-> LenAt(entry.chunks[k], k)]
SlotLen(entry, k) == IF k \in DOMAIN entry.chunks THEN SlotLens(entry)[k] ELSE 0

(* Mutant: every chunk makes the message young again. *)
FilledAnew(entry, m, k) ==
    [entry EXCEPT !.chunks = [j \in DOMAIN entry.chunks \cup {k} |->
                                 IF j = k THEN m ELSE entry.chunks[j]],
                  !.bytes = @ + LenAt(m, k) - SlotLen(entry, k), !.age = 0]

Filled(entry, m, k) ==
    [entry EXCEPT !.chunks = [j \in DOMAIN entry.chunks \cup {k} |->
                                 IF j = k THEN m ELSE entry.chunks[j]],
                  !.bytes = @ + LenAt(m, k) - SlotLen(entry, k)]

With(key, entry) == [x \in Keys \cup {key} |-> IF x = key THEN entry ELSE pending[x]]
Without(S) == [x \in Keys \ S |-> pending[x]]

SourceKeys(src) == {key \in Keys : key[1] = src}
EntryBytes == [key \in Keys |-> pending[key].bytes]
SourceBytes(src) == SumFunctionOnSet(EntryBytes, SourceKeys(src))

HasRoom(src) ==
    /\ Cardinality(Keys) < MaxPending
    /\ Cardinality(SourceKeys(src)) < MaxPendingPerSource

(* Mutant: freeing an entry does not give its bytes back. *)
DiscardForgets(key, entry) ==
    /\ pending' = Without({key})
    /\ UNCHANGED buffered

(* remove_pending. *)
Discard(key, entry) ==
    /\ pending' = Without({key})
    /\ buffered' = buffered - entry.bytes

(* Mutant: room is checked before the chunk is counted. *)
FitsAnyway(src, delta) ==
    buffered < MaxBuffered /\ SourceBytes(src) < MaxBufferedPerSource

Fits(src, delta) ==
    /\ buffered + delta <= MaxBuffered
    /\ SourceBytes(src) + delta <= MaxBufferedPerSource

(* Mutant: a repeated chunk starts the message over. *)
StoreAfresh(key, entry, m, k) ==
    LET e == Filled(IF k \in DOMAIN entry.chunks THEN NewEntry(m) ELSE entry, m, k)
    IN  IF DOMAIN e.chunks = 1 .. e.total
        THEN /\ pending' = Without({key})
             /\ buffered' = buffered - entry.bytes
             /\ completed' = completed \cup {m}
        ELSE /\ pending' = With(key, e)
             /\ buffered' = buffered + e.bytes - entry.bytes
             /\ UNCHANGED completed

(* Mutant: a complete message is handed on but not removed. *)
StoreKeeps(key, entry, m, k) ==
    LET e == Filled(entry, m, k)
    IN  /\ pending' = With(key, e)
        /\ buffered' = buffered + e.bytes - entry.bytes
        /\ completed' = IF DOMAIN e.chunks = 1 .. e.total THEN completed \cup {m} ELSE completed

(* Store the chunk; with the last one the message is handed on. *)
Store(key, entry, m, k) ==
    LET e == Filled(entry, m, k)
    IN  IF DOMAIN e.chunks = 1 .. e.total
        THEN /\ pending' = Without({key})
             /\ buffered' = buffered - entry.bytes
             /\ completed' = completed \cup {m}
        ELSE /\ pending' = With(key, e)
             /\ buffered' = buffered + e.bytes - entry.bytes
             /\ UNCHANGED completed

(* feed: chunk k of message m arrives from src. *)
Feed(src, m, k) ==
    LET key == <<src, m.id>>
        entry == IF key \in Keys THEN pending[key] ELSE NewEntry(m)
        delta == Max({LenAt(m, k) - SlotLen(entry, k), 0})
        refused == key \notin Keys /\ ~HasRoom(src)
        misfit == entry.total # Total(m) \/ entry.bytes + delta > MaxMessage
    IN  /\ arrived' = arrived \cup {<<src, m, k>>}
        /\ UNCHANGED sinceCleanup
        /\ \/ refused /\ UNCHANGED <<pending, buffered, completed>>
           \/ ~refused /\ misfit /\ Discard(key, entry) /\ UNCHANGED completed
           \/ /\ ~refused /\ ~misfit /\ ~Fits(src, delta)
              /\ pending' = With(key, entry)
              /\ UNCHANGED <<buffered, completed>>
           \/ ~refused /\ ~misfit /\ Fits(src, delta) /\ Store(key, entry, m, k)

Stale == {key \in Keys : pending[key].age >= CleanupAge}

(* cleanup, by the receive loop once a second has passed since the last. *)
Cleanup ==
    /\ sinceCleanup >= 1
    /\ sinceCleanup' = 0
    /\ pending' = Without(Stale)
    /\ buffered' = buffered - SumFunctionOnSet(EntryBytes, Stale)
    /\ UNCHANGED <<completed, arrived>>

(* A second passes; the receive loop is never away longer than CleanupGap. *)
Elapse ==
    /\ sinceCleanup < CleanupGap
    /\ sinceCleanup' = sinceCleanup + 1
    /\ pending' = [key \in Keys |-> [pending[key] EXCEPT !.age = @ + 1, !.held = @ + 1]]
    /\ UNCHANGED <<buffered, completed, arrived>>

Init ==
    /\ pending = <<>> /\ buffered = 0 /\ sinceCleanup = 0
    /\ completed = {} /\ arrived = {}

FeedNext == \E src \in Src, m \in Sent : \E k \in Index(m) : Feed(src, m, k)

Next == FeedNext \/ Cleanup \/ Elapse

(* Within CLEANUP_AGE_SECS, longer than a handshake is retransmitted. *)
FeedSpec == Init /\ [][FeedNext]_vars
Spec == Init /\ [][Next]_vars

-------------------------------------------------------------------------------
(* Every entry is of some source and message, has slots for its chunks and *)
(* is incomplete.                                                          *)
TypeOK ==
    /\ Keys \subseteq Src \X {m.id : m \in Message} /\ buffered \in Nat
    /\ \A key \in Keys : LET e == pending[key] IN
          /\ e.bytes \in Nat /\ e.age \in Nat /\ e.held \in Nat
          /\ DOMAIN e.chunks \subseteq 1 .. e.total /\ DOMAIN e.chunks # 1 .. e.total
    /\ completed \subseteq Message

(* The running totals are exact: buffered_bytes is the sum over the        *)
(* entries, and bytes the sum over an entry's chunks, through replaced,    *)
(* refused, discarded, completed and expired chunks (feed, cleanup).  The  *)
(* code's saturating arithmetic would hide a drift.                        *)
TotalsExact ==
    /\ buffered = SumFunction(EntryBytes)
    /\ \A key \in Keys : pending[key].bytes = SumFunction(SlotLens(pending[key]))

(* No limit is exceeded, in total or by one source, by any order of chunks *)
(* and of chunks that replace others.                                      *)
WithinLimits ==
    /\ Cardinality(Keys) <= MaxPending /\ buffered <= MaxBuffered
    /\ \A src \in Src : /\ Cardinality(SourceKeys(src)) <= MaxPendingPerSource
                        /\ SourceBytes(src) <= MaxBufferedPerSource
    /\ \A key \in Keys : pending[key].bytes <= MaxMessage

(* A message holds its slot and its bytes for a bounded time, whatever     *)
(* comes for it: retransmissions do not renew it, and an entry left empty  *)
(* because its first chunk found no room goes like the others (feed,       *)
(* cleanup).                                                               *)
HeldBriefly == \A key \in Keys : pending[key].held < CleanupAge + CleanupGap

(* A chunk of some message does not fit the entry the message's id names. *)
Collides(key) ==
    \E m \in Sent : /\ m.id = key[2]
                    /\ Total(m) # pending[key].total \/ m.len > MaxMessage

(* What one step may make of an entry: its chunks stay, or the last one    *)
(* completes it, its time is up, or another message comes under its id.    *)
Kept(key) ==
    \/ /\ key \in Keys'
       /\ DOMAIN pending[key].chunks \subseteq DOMAIN pending'[key].chunks
    \/ /\ key \notin Keys'
       /\ Cardinality(DOMAIN pending[key].chunks) = pending[key].total - 1
    \/ pending[key].age >= CleanupAge
    \/ Collides(key)

(* "a fragment only has to survive *one* of the attempts"                  *)
(* (send_fragmented_with_id): the chunks of a pending message are kept,    *)
(* through repeats, refusals and cleanups, until the last one completes    *)
(* it, its time is up, or another message comes under its id.              *)
ChunksAreKept == [][\A key \in Keys : Kept(key)]_vars

(* Copies from one source merge: a message is complete once each of its    *)
(* chunks came in some attempt (send_fragmented_with_id).                  *)
MergedPerSource ==
    \A m \in Sent :
        (\E src \in Src : \A k \in Index(m) : <<src, m, k>> \in arrived) => m \in completed

(* "a handshake completes as long as every fragment arrives in *one* of    *)
(* the attempts" (README.md, item 3), whichever path each attempt took.    *)
MergedAcrossPaths ==
    \A m \in Sent :
        (\A k \in Index(m) : \E src \in Src : <<src, m, k>> \in arrived) => m \in completed
===============================================================================
