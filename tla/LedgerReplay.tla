---------------------------- MODULE LedgerReplay ----------------------------
(***************************************************************************)
(* The offline queue of ledger entries and the loop that drains it         *)
(* (runtime/src/local_queue.py, AgentRuntime.ledger_replay_loop).          *)
(*                                                                         *)
(* The queue is an SQLite file in autocommit mode behind a lock: each of   *)
(* its calls is one atomic step, and it outlives the process.  The loop    *)
(* peeks at the oldest entries not yet forwarded, posts them, and marks    *)
(* them when the control plane answered 2xx; between the answer and the    *)
(* mark the reply may be lost, the mark may fail, or the process may die,  *)
(* and the entries go out again.                                           *)
(*                                                                         *)
(* The control plane is external: it takes or refuses a request as a       *)
(* whole, and may take one long after the loop has stopped waiting for it. *)
(***************************************************************************)
EXTENDS Naturals, FiniteSets, Sequences

CONSTANTS
  MaxEntries,       \* bound: entries enqueued
  Limit,            \* entries in one request (peek(limit=100))
  Ttl,              \* age at which a forwarded entry is deleted (48 hours)
  MaxTime,          \* bound: the clock
  MaxTroubles,      \* bound: refusals, timeouts and failed marks
  MaxStops          \* bound: times the loop is stopped

ASSUME LedgerAssumption ==
  /\ MaxEntries \in Nat /\ Limit \in Nat \ {0} /\ Ttl \in Nat
  /\ MaxTime \in Nat \ {0} /\ MaxTroubles \in Nat /\ MaxStops \in Nat

VARIABLES
  last,             \* the last id AUTOINCREMENT gave out
  table,            \* ids of the rows in the file
  stamp,            \* forwarded_at of each entry, 0 for NULL; it outlives
                    \* the row here, so that properties can refer to it
  now,              \* int(time.time())
  loop,             \* the replay loop: "off", "asleep", or "posting"
  posts,            \* every request ever sent: its entries and its state
  troubles, stops   \* counters for the bounds

queue == <<last, table, stamp>>
env   == <<now, troubles, stops>>
vars  == <<queue, env, loop, posts>>

Ids == 1..MaxEntries

(* The rows whose forwarded_at IS NULL. *)
Pending == {i \in table : stamp[i] = 0}

Latest == Len(posts)

(* What the control plane has been given. *)
Accepted ==
  UNION {posts[k].ids : k \in {j \in DOMAIN posts : posts[j].state = "accepted"}}

Init ==
  /\ last = 0 /\ table = {} /\ stamp = [i \in Ids |-> 0]
  /\ now = 1 /\ troubles = 0 /\ stops = 0
  /\ loop = "off" /\ posts = <<>>

-----------------------------------------------------------------------------
(* The queue.                                                              *)

(* enqueue(), by any process that has the file, whether or not the loop is *)
(* running.                                                                *)
Enqueue ==
  /\ last < MaxEntries
  /\ last' = last + 1
  /\ table' = table \union {last + 1}
  /\ UNCHANGED <<stamp, env, loop, posts>>

(* Mutant: ORDER BY id DESC.                                               *)
Oldest_Newest(S) == {i \in S : Cardinality({j \in S : j >= i}) <= Limit}

(* peek(): ORDER BY id ASC LIMIT.                                          *)
Oldest(S) == {i \in S : Cardinality({j \in S : j <= i}) <= Limit}

(* Mutant: the UPDATE lacks its WHERE.                                     *)
Marked_Everything(ids) == [i \in Ids |-> now]

(* mark_forwarded()                                                        *)
Marked(ids) == [i \in Ids |-> IF i \in ids THEN now ELSE stamp[i]]

(* Mutant: "forwarded_at IS NOT NULL" is forgotten, and NULL taken for 0.  *)
Kept_ForwardedOrNot(st) == {i \in table : ~(st[i] + Ttl < now)}

(* prune_old(): the rows it leaves, given the stamps.                      *)
Kept(st) == {i \in table : ~(st[i] # 0 /\ st[i] + Ttl < now)}

-----------------------------------------------------------------------------
(* The loop.                                                               *)

(* A round that finds nothing to forward only prunes.                      *)
IdleRound ==
  /\ loop = "asleep" /\ Pending = {}
  /\ table' = Kept(stamp)
  /\ UNCHANGED <<last, stamp, env, loop, posts>>

(* A round that finds entries posts them.                                  *)
Post ==
  /\ loop = "asleep" /\ Pending # {}
  /\ posts' = Append(posts, [ids |-> Oldest(Pending), state |-> "sent"])
  /\ loop' = "posting"
  /\ UNCHANGED <<queue, env>>

(* Mutant: the ids are not marked.                                         *)
Forwarded_NoMark ==
  /\ loop = "posting" /\ posts[Latest].state = "accepted"
  /\ table' = Kept(stamp)
  /\ loop' = "asleep"
  /\ UNCHANGED <<last, stamp, env, posts>>

(* A 2xx reply: the entries are marked, old ones pruned.                   *)
Forwarded ==
  /\ loop = "posting" /\ posts[Latest].state = "accepted"
  /\ stamp' = Marked(posts[Latest].ids)
  /\ table' = Kept(stamp')
  /\ loop' = "asleep"
  /\ UNCHANGED <<last, env, posts>>

(* Any other reply: a warning, and old entries pruned.                     *)
Refused ==
  /\ loop = "posting" /\ posts[Latest].state = "refused"
  /\ table' = Kept(stamp)
  /\ loop' = "asleep"
  /\ UNCHANGED <<last, stamp, env, posts>>

(* Mutant: the exception leaves the loop, not only the round.              *)
RoundFails_EndsLoop ==
  /\ loop = "posting" /\ troubles < MaxTroubles
  /\ troubles' = troubles + 1
  /\ loop' = "dead"
  /\ UNCHANGED <<queue, now, stops, posts>>

(* The round ends in an exception: the request times out or cannot be      *)
(* sent, whatever becomes of it at the control plane, or the reply is      *)
(* there and the mark fails.  Neither marks nor prunes.                    *)
RoundFails ==
  /\ loop = "posting" /\ troubles < MaxTroubles
  /\ troubles' = troubles + 1
  /\ loop' = "asleep"
  /\ UNCHANGED <<queue, now, stops, posts>>

(* shutdown() cancels the loop at an await, or the process dies.           *)
Stop ==
  /\ loop # "off" /\ stops < MaxStops
  /\ stops' = stops + 1
  /\ loop' = "off"
  /\ UNCHANGED <<queue, now, troubles, posts>>

(* initialize() of the next process starts the loop.                       *)
Boot ==
  /\ loop = "off" /\ loop' = "asleep"
  /\ UNCHANGED <<queue, env, posts>>

-----------------------------------------------------------------------------
(* The control plane and the clock.                                        *)

Accept(k) ==
  /\ posts[k].state = "sent"
  /\ posts' = [posts EXCEPT ![k].state = "accepted"]
  /\ UNCHANGED <<queue, env, loop>>

Refuse(k) ==
  /\ posts[k].state = "sent" /\ troubles < MaxTroubles
  /\ posts' = [posts EXCEPT ![k].state = "refused"]
  /\ troubles' = troubles + 1
  /\ UNCHANGED <<queue, now, stops, loop>>

Tick ==
  /\ now < MaxTime /\ now' = now + 1
  /\ UNCHANGED <<queue, troubles, stops, loop, posts>>

AcceptLatest == posts # <<>> /\ Accept(Latest)

LoopStep == IdleRound \/ Post \/ Forwarded \/ Refused \/ RoundFails

Next ==
  \/ Enqueue \/ LoopStep \/ Stop \/ Boot \/ Tick
  \/ \E k \in DOMAIN posts : Accept(k) \/ Refuse(k)

Spec == Init /\ [][Next]_vars

(* The loop's task runs, an orchestrator restarts the process, and a       *)
(* reachable control plane answers the request being waited for.  It is    *)
(* unreachable, or refuses, at most MaxTroubles times in all.              *)
Fairness ==
  /\ WF_vars(Boot) /\ WF_vars(Post) /\ WF_vars(Forwarded) /\ WF_vars(Refused)
  /\ WF_vars(AcceptLatest)

FairSpec == Spec /\ Fairness
-----------------------------------------------------------------------------
(* Properties.                                                             *)

TypeOK ==
  /\ last \in 0..MaxEntries /\ table \subseteq 1..last
  /\ stamp \in [Ids -> Nat] /\ \A i \in Ids : stamp[i] # 0 => i <= last
  /\ now \in 1..MaxTime /\ troubles \in 0..MaxTroubles /\ stops \in 0..MaxStops
  /\ loop \in {"off", "asleep", "posting"}
  /\ posts \in Seq([ids : SUBSET Ids, state : {"sent", "accepted", "refused"}])
  /\ \A k \in DOMAIN posts : posts[k].ids \subseteq 1..last
  /\ loop = "posting" => posts # <<>>

(* No entry is ever lost: each one enqueued is still waiting in the file,  *)
(* or the control plane has accepted it -- also when it was marked, and    *)
(* when it was deleted.                                                    *)
NothingIsLost == \A i \in 1..last : i \in Pending \/ i \in Accepted

(* Every repeated delivery has a cause: a refusal, a timeout, a failed     *)
(* mark or a restart accounts for each copy after the first.               *)
DuplicatesHaveACause ==
  \A i \in Ids :
    Cardinality({k \in DOMAIN posts : i \in posts[k].ids}) <= 1 + troubles + stops

(* The control plane learns the entries in order and skips none, although  *)
(* requests time out, are repeated, and may be taken late.                 *)
Delivery == INSTANCE LedgerDelivery WITH enqueued <- last, known <- Accepted
DeliversInOrder == Delivery!Spec

(* "Drain locally-queued ledger entries to the control plane": every entry *)
(* is forwarded in the end, once the control plane stops refusing.         *)
EverythingIsForwarded == \A i \in Ids : (last >= i) ~> (stamp[i] # 0)
=============================================================================
