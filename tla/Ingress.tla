------------------------------- MODULE Ingress --------------------------------
(***************************************************************************)
(* From the node to ingress_tx: ReconnectingStream (crates/node), which    *)
(* keeps a subscription to pending transaction hashes alive;               *)
(* build_mempool_stream (crates/ingress), which fetches each new hash's    *)
(* transaction through NodeProvider's retry and fallback and keeps those   *)
(* to a watched address; and producer_loop_phase4 (crates/app), which      *)
(* publishes them.  Three tasks, two unbounded channels.                   *)
(*                                                                         *)
(* An announcement is named by its position on the first channel.  The     *)
(* channels have no capacity in the code: MaxBacklog only bounds the model.*)
(***************************************************************************)
EXTENDS Naturals, Sequences, FiniteSets

CONSTANTS
  Hashes,        \* transaction hashes the node may announce
  Watched,       \* those whose transaction goes to a watched address
  Error,         \* an Err on the hash channel
  CacheSize,     \* DEDUP_CAPACITY (4096), scaled down
  MaxExponent,   \* backoff_delay's retry_count.min(6), scaled down
  MaxDelay,      \* backoff_delay's cap of 60 s, scaled down
  MaxConnects,   \* bound: calls of the subscription factory
  MaxAnnounced,  \* bound: hashes announced
  MaxBacklog,    \* bound: items waiting on each unbounded channel
  MaxTroubles    \* bound: answers of the node other than a transaction

\* backoff_delay's 2u64.saturating_pow(n).
Shifted[n \in 0 .. MaxExponent] == IF n = 0 THEN 1 ELSE 2 * Shifted[n - 1]

ASSUME IngressAssumption ==
  /\ Watched \subseteq Hashes /\ Error \notin Hashes
  /\ CacheSize \in Nat \ {0} /\ MaxExponent \in Nat
  /\ MaxDelay \in Nat \ {0} /\ MaxDelay <= Shifted[MaxExponent]
  /\ MaxConnects \in Nat /\ MaxAnnounced \in Nat
  /\ MaxBacklog \in Nat \ {0} /\ MaxTroubles \in Nat

VARIABLES
  link,        \* where ReconnectingStream's task is
  attempt,     \* its local of that name
  connects,    \* calls of the factory
  delay,       \* the last sleep, in seconds
  fresh,       \* no sleep since the task started or last connected
  hashes,      \* everything sent on its channel
  read,        \* how much of it the mempool task took
  pump,        \* where the mempool task is
  cache,       \* its LruCache, least recently used first
  answers,     \* what the current fetch was answered so far
  fetches,     \* every finished fetch: [at, answers]
  troubles,    \* answers other than a transaction
  items,       \* everything sent on the second channel: [at, is]
  taken,       \* how much of it producer_loop_phase4 took
  producer,    \* where it is
  published,   \* the announcements whose transaction it put on ingress_tx
  fallback     \* NodeProvider::fallback_http is Some

linkVars == <<link, attempt, connects, delay, fresh>>
pumpVars == <<read, pump, cache, answers, fetches, troubles>>
producerVars == <<taken, producer, published>>
vars == <<linkVars, hashes, pumpVars, items, producerVars, fallback>>

Lesser(m, n) == IF m <= n THEN m ELSE n

Init ==
  /\ link = "connecting" /\ attempt = 0 /\ connects = 0 /\ delay = 0 /\ fresh = TRUE
  /\ hashes = <<>> /\ read = 0 /\ pump = "recv" /\ cache = <<>>
  /\ answers = <<>> /\ fetches = <<>> /\ troubles = 0
  /\ items = <<>> /\ taken = 0 /\ producer = "recv" /\ published = <<>>
  /\ fallback \in BOOLEAN

-----------------------------------------------------------------------------
(* ReconnectingStream::into_stream *)

backoff_delay(n) == Lesser(Shifted[Lesser(n, MaxExponent)], MaxDelay)

Sleep ==
  /\ link' = "sleeping" /\ delay' = backoff_delay(attempt) /\ fresh' = FALSE
  /\ UNCHANGED attempt

\* unbounded_send fails once the mempool task, which owns the receiver, has ended.
SendHash(item) ==
  /\ pump # "ended" /\ Len(hashes) - read < MaxBacklog
  /\ hashes' = Append(hashes, item)
ReceiverGone ==
  /\ pump = "ended" /\ link' = "ended"
  /\ UNCHANGED <<attempt, connects, delay, fresh, hashes>>

ConnectedKeepsAttempt ==
  /\ link = "connecting" /\ connects < MaxConnects
  /\ link' = "open" /\ fresh' = TRUE /\ connects' = connects + 1
  /\ UNCHANGED <<attempt, delay, hashes, pumpVars, items, producerVars, fallback>>
Connected ==
  /\ link = "connecting" /\ connects < MaxConnects
  /\ link' = "open" /\ attempt' = 0 /\ fresh' = TRUE /\ connects' = connects + 1
  /\ UNCHANGED <<delay, hashes, pumpVars, items, producerVars, fallback>>

\* The error goes to the consumer, then the task sleeps.
ConnectFails ==
  /\ link = "connecting" /\ connects < MaxConnects
  /\ \/ /\ SendHash(Error)
        /\ Sleep /\ connects' = connects + 1
     \/ ReceiverGone
  /\ UNCHANGED <<pumpVars, items, producerVars, fallback>>

\* Err(Closed), which the factories of the tests give, ends the task without an item.
ConnectClosed ==
  /\ link = "connecting" /\ connects < MaxConnects
  /\ link' = "ended" /\ connects' = connects + 1
  /\ UNCHANGED <<attempt, delay, fresh, hashes, pumpVars, items, producerVars, fallback>>

Announced == Cardinality({k \in DOMAIN hashes : hashes[k] # Error})
Announce ==
  /\ link = "open" /\ Announced < MaxAnnounced
  /\ \/ \E h \in Hashes : SendHash(h) /\ UNCHANGED linkVars
     \/ ReceiverGone
  /\ UNCHANGED <<pumpVars, items, producerVars, fallback>>

\* The subscription ends.
Disconnected ==
  /\ link = "open" /\ Sleep
  /\ UNCHANGED <<connects, hashes, pumpVars, items, producerVars, fallback>>

Wake ==
  /\ link = "sleeping"
  /\ link' = "connecting" /\ attempt' = attempt + 1
  /\ UNCHANGED <<connects, delay, fresh, hashes, pumpVars, items, producerVars, fallback>>

-----------------------------------------------------------------------------
(* build_mempool_stream's task, and NodeProvider::eth_get_transaction_by_hash *)

\* unbounded_send to the producer; without a receiver the task returns.
SendItem(at, is) ==
  IF producer = "recv" THEN items' = Append(items, [at |-> at, is |-> is]) /\ pump' = "recv"
  ELSE UNCHANGED items /\ pump' = "ended"

ForwardError ==
  /\ pump = "recv" /\ read < Len(hashes) /\ hashes[read + 1] = Error
  /\ Len(items) - taken < MaxBacklog
  /\ read' = read + 1
  /\ SendItem(read + 1, "error")
  /\ UNCHANGED <<linkVars, hashes, cache, answers, fetches, troubles, producerVars, fallback>>

\* LruCache::put: the hash becomes the most recently used; its own entry, or that of the
\* oldest when a new hash finds the cache full, gives way.
Contains(c, h) == \E i \in DOMAIN c : c[i] = h
PutInPlace(c, h) ==
  IF Contains(c, h) THEN c
  ELSE Append(IF Len(c) = CacheSize THEN Tail(c) ELSE c, h)
Replace(c, p, h) == [i \in DOMAIN c |-> IF i < p THEN c[i] ELSE IF i < Len(c) THEN c[i + 1] ELSE h]
PutUnbounded(c, h) ==
  IF Contains(c, h) THEN Replace(c, CHOOSE p \in DOMAIN c : c[p] = h, h) ELSE Append(c, h)
Put(c, h) ==
  IF Contains(c, h) THEN Replace(c, CHOOSE p \in DOMAIN c : c[p] = h, h)
  ELSE IF Len(c) = CacheSize THEN Replace(c, 1, h) ELSE Append(c, h)

\* A hash already in the cache is skipped; a new one is fetched.
TakeHash ==
  /\ pump = "recv" /\ read < Len(hashes) /\ hashes[read + 1] # Error
  /\ LET h == hashes[read + 1]
     IN /\ cache' = Put(cache, h)
        /\ pump' = IF Contains(cache, h) THEN "recv" ELSE "primary"
  /\ read' = read + 1
  /\ UNCHANGED <<linkVars, hashes, answers, fetches, troubles, items, producerVars, fallback>>

\* What becomes of a finished fetch.  Closed ends the task after one last item.
DeliverUnfiltered(a) ==
  IF a = "missing" THEN pump' = "recv" /\ UNCHANGED items
  ELSE SendItem(read, IF a = "found" THEN "event" ELSE "error")
Deliver(a) ==
  \/ a = "found" /\ hashes[read] \in Watched /\ SendItem(read, "event")
  \/ /\ a = "missing" \/ (a = "found" /\ hashes[read] \notin Watched)
     /\ pump' = "recv" /\ UNCHANGED items
  \/ a \in {"transport", "rpc"} /\ SendItem(read, "error")
  \/ /\ a = "closed" /\ pump' = "ended"
     /\ items' = IF producer = "recv" THEN Append(items, [at |-> read, is |-> "closed"])
                 ELSE items

Finish(a) ==
  /\ fetches' = Append(fetches, [at |-> read, answers |-> Append(answers, a)])
  /\ answers' = <<>>
  /\ Deliver(a)
AskAgain(a, next) ==
  /\ pump' = next /\ answers' = Append(answers, a)
  /\ UNCHANGED <<fetches, items>>

\* One transport error of the primary earns it a second call, another the fallback.
PrimaryAnswersRetriesAll(a) ==
  /\ pump = "primary"
  /\ IF a \in {"transport", "rpc"} THEN AskAgain(a, "retry") ELSE Finish(a)
PrimaryAnswers(a) ==
  pump = "primary" /\ IF a = "transport" THEN AskAgain(a, "retry") ELSE Finish(a)
RetryAnswers(a) ==
  /\ pump = "retry"
  /\ IF a = "transport" /\ fallback THEN AskAgain(a, "fallback") ELSE Finish(a)
FallbackAnswers(a) == pump = "fallback" /\ Finish(a)

\* "rpc" is any NodeError but Transport and Closed; Closed is the tests' answer only.
Answers == {"found", "missing", "transport", "rpc", "closed"}
Fetch ==
  /\ \E a \in Answers :
       /\ troubles' = IF a = "found" THEN troubles ELSE troubles + 1
       /\ PrimaryAnswers(a) \/ RetryAnswers(a) \/ FallbackAnswers(a)
  /\ troubles' <= MaxTroubles /\ Len(items) - taken < MaxBacklog
  /\ UNCHANGED <<linkVars, hashes, read, cache, producerVars, fallback>>

HashesEnd ==
  /\ pump = "recv" /\ read = Len(hashes) /\ link = "ended"
  /\ pump' = "ended"
  /\ UNCHANGED <<linkVars, hashes, read, cache, answers, fetches, troubles, items,
                 producerVars, fallback>>

-----------------------------------------------------------------------------
(* producer_loop_phase4 *)

\* An event is sealed and sent; an error is logged and the loop goes on.
TakeItem ==
  /\ producer = "recv" /\ taken < Len(items)
  /\ taken' = taken + 1
  /\ published' = IF items[taken'].is = "event" THEN Append(published, items[taken'].at)
                  ELSE published
  /\ UNCHANGED <<linkVars, hashes, pumpVars, items, producer, fallback>>

ItemsEnd ==
  /\ producer = "recv" /\ taken = Len(items) /\ pump = "ended"
  /\ producer' = "finished"
  /\ UNCHANGED <<linkVars, hashes, pumpVars, items, taken, published, fallback>>

\* AppHandle4::shutdown: the task ends at its await and drops the stream.
AbortProducer ==
  /\ producer = "recv" /\ producer' = "aborted"
  /\ UNCHANGED <<linkVars, hashes, pumpVars, items, taken, published, fallback>>

-----------------------------------------------------------------------------
Link == Connected \/ ConnectFails \/ ConnectClosed \/ Announce \/ Disconnected \/ Wake
Pump == ForwardError \/ TakeHash \/ Fetch \/ HashesEnd
Producer == TakeItem \/ ItemsEnd \/ AbortProducer

Next == Link \/ Pump \/ Producer
Spec == Init /\ [][Next]_vars

-----------------------------------------------------------------------------
(* Properties *)

Members(s) == {s[i] : i \in DOMAIN s}
Last(s) == s[Len(s)]

\* The types of the three tasks' state and of the two channels; the cache is within its
\* capacity and holds no hash twice.
TypeOK ==
  /\ link \in {"connecting", "open", "sleeping", "ended"}
  /\ attempt \in 0 .. MaxConnects /\ connects \in 0 .. MaxConnects
  /\ delay \in 0 .. MaxDelay /\ fresh \in BOOLEAN
  /\ hashes \in Seq(Hashes \cup {Error}) /\ read \in 0 .. Len(hashes)
  /\ pump \in {"recv", "primary", "retry", "fallback", "ended"}
  /\ cache \in Seq(Hashes) /\ Len(cache) <= CacheSize
  /\ Cardinality(Members(cache)) = Len(cache)
  /\ answers \in Seq(Answers) /\ troubles \in 0 .. MaxTroubles
  /\ fetches \in Seq([at : 1 .. read, answers : Seq(Answers)])
  /\ items \in Seq([at : 1 .. read, is : {"event", "error", "closed"}])
  /\ taken \in 0 .. Len(items)
  /\ producer \in {"recv", "finished", "aborted"}
  /\ published \in Seq(1 .. read) /\ fallback \in BOOLEAN

\* The first answer that is not a transport error is final: neither the primary nor the
\* fallback is asked after it.  A transport error is the result only when every endpoint
\* had its turn.
AnswersAreFinal ==
  \A f \in Members(fetches) :
    LET n == Len(f.answers)
    IN /\ \A k \in 1 .. n - 1 : f.answers[k] = "transport"
       /\ n <= (IF fallback THEN 3 ELSE 2)
       /\ Last(f.answers) = "transport" => n = (IF fallback THEN 3 ELSE 2)

\* An announcement repeats an earlier one if fewer than CacheSize other hashes came
\* between the two.
Repeats(k) ==
  \E j \in 1 .. k - 1 :
    /\ hashes[j] = hashes[k]
    /\ Cardinality({hashes[i] : i \in j + 1 .. k - 1} \ {Error}) < CacheSize

\* Deduplication is a sliding window: a hash is fetched exactly when it is not a repeat,
\* whatever the earlier fetch of it came to and however often the link was replaced.
DedupIsAWindow ==
  \A k \in 1 .. read :
    hashes[k] # Error =>
      (Repeats(k) <=> /\ \A f \in Members(fetches) : f.at # k
                      /\ ~ (k = read /\ pump \in {"primary", "retry", "fallback"}))

Wanted ==
  {f.at : f \in {g \in Members(fetches) : Last(g.answers) = "found" /\ hashes[g.at] \in Watched}}

\* ingress_tx gets the watched transactions that were found, each once and in the order
\* of their announcements, none of them lost to the errors and reconnections between.
PublishedInOrder ==
  /\ \A i, j \in DOMAIN published : i < j => published[i] < published[j]
  /\ Members(published) \subseteq Wanted
  /\ producer # "aborted" /\ taken = Len(items) => Members(published) = Wanted

\* While no connection succeeds, each sleep doubles the one before up to the cap; a
\* success starts again from one second.
DelaysDouble ==
  [][link # "sleeping" /\ link' = "sleeping" =>
       delay' = IF fresh THEN 1 ELSE Lesser(2 * delay, MaxDelay)]_vars
=============================================================================
