------------------------ MODULE LedgerReplay_proofs ------------------------
(***************************************************************************)
(* Proofs about LedgerReplay, for every number of entries, request size,   *)
(* time to live and number of failures: no entry is lost, and the control  *)
(* plane learns the entries in order.  The invariant behind both is that a *)
(* request is closed downwards: what it skips below any of its entries the *)
(* control plane already has (Closed), and that an entry is forwarded or   *)
(* gone from the file only after it was accepted (Sound).                  *)
(***************************************************************************)
EXTENDS LedgerReplay, FiniteSetTheorems, SequenceTheorems, TLAPS

Request == [ids : SUBSET Ids, state : {"sent", "accepted", "refused"}]

Closed ==
  \A k \in DOMAIN posts : \A i \in posts[k].ids :
    \A j \in 1..i : j \in posts[k].ids \/ j \in Accepted

Sound ==
  /\ \A i \in 1..last : i \notin table => i \in Accepted
  /\ \A i \in Ids : stamp[i] # 0 => i \in Accepted

LedgerInv == Closed /\ Sound

-----------------------------------------------------------------------------
(* peek() returns entries that wait, and skips none that waits longer.     *)
LEMMA OldestSkipsNone ==
  ASSUME NEW S \in SUBSET Ids
  PROVE  /\ Oldest(S) \subseteq S
         /\ \A i \in Oldest(S), j \in S : j <= i => j \in Oldest(S)
<1>1. ASSUME NEW i \in Oldest(S), NEW j \in S, j <= i
      PROVE  j \in Oldest(S)
  <2> DEFINE upTo(m) == {x \in S : x <= m}
  <2>1. S \subseteq Nat
    BY LedgerAssumption DEF Ids
  <2>2. IsFiniteSet(S)
    <3>1. IsFiniteSet(Ids)
      BY LedgerAssumption, FS_Interval DEF Ids
    <3>2. QED
      BY <3>1, FS_Subset
  <2>3. i \in S /\ Cardinality(upTo(i)) <= Limit
    BY <1>1 DEF Oldest
  <2>4. upTo(j) \subseteq upTo(i)
    <3>1. i \in Nat /\ j \in Nat
      BY <1>1, <2>1, <2>3
    <3>2. ASSUME NEW x \in S, x <= j
          PROVE  x <= i
      BY <1>1, <2>1, <3>1, <3>2
    <3>3. QED
      BY <3>2
  <2>5. IsFiniteSet(upTo(i))
    BY <2>2, FS_Subset
  <2>6. /\ Cardinality(upTo(j)) <= Cardinality(upTo(i))
        /\ Cardinality(upTo(j)) \in Nat /\ Cardinality(upTo(i)) \in Nat
    BY <2>4, <2>5, FS_Subset, FS_CardinalityType
  <2>7. Cardinality(upTo(j)) <= Limit
    BY <2>3, <2>6, LedgerAssumption
  <2>8. QED
    BY <2>7 DEF Oldest
<1>2. QED
  BY <1>1 DEF Oldest

(* Type correctness: every variable of LedgerReplay keeps its type.        *)
THEOREM LedgerTypeCorrect == Spec => []TypeOK
<1> USE LedgerAssumption
<1>1. Init => TypeOK
  <2> SUFFICES ASSUME Init PROVE TypeOK
    OBVIOUS
  <2>1. posts \in Seq(Request) /\ DOMAIN posts = {}
    BY DEF Init
  <2>2. QED
    BY <2>1 DEF Init, TypeOK, Request
<1>2. TypeOK /\ [Next]_vars => TypeOK'
  <2> SUFFICES ASSUME TypeOK, [Next]_vars PROVE TypeOK'
    OBVIOUS
  <2> USE DEF TypeOK
  <2>a. posts \in Seq(Request) /\ 1..last \subseteq Ids
    BY DEF Request, Ids
  <2>b. ASSUME posts' \in Seq(Request), \A k \in DOMAIN posts' : posts'[k].ids \subseteq 1..last'
        PROVE  /\ posts' \in Seq([ids : SUBSET Ids, state : {"sent", "accepted", "refused"}])
               /\ \A k \in DOMAIN posts' : posts'[k].ids \subseteq 1..last'
    BY <2>b DEF Request
  <2>1. CASE Enqueue
    <3>1. /\ last' = last + 1 /\ last' \in 0..MaxEntries
          /\ table' = table \union {last + 1}
          /\ UNCHANGED <<stamp, now, troubles, stops, loop, posts>>
      BY <2>1 DEF Enqueue, env
    <3>2. 1..last \subseteq 1..last' /\ last + 1 \in 1..last'
      BY <3>1
    <3>3. table' \subseteq 1..last' /\ \A i \in Ids : stamp'[i] # 0 => i <= last'
      BY <3>1, <3>2 DEF Ids
    <3>4. \A k \in DOMAIN posts' : posts'[k].ids \subseteq 1..last'
      BY <3>1, <3>2
    <3>5. QED
      BY <3>1, <3>3, <3>4
  <2>2. CASE IdleRound
    BY <2>2 DEF IdleRound, Kept, env
  <2>3. CASE Post
    <3> DEFINE r == [ids |-> Oldest(Pending), state |-> "sent"]
    <3>1. Oldest(Pending) \subseteq 1..last
      BY DEF Oldest, Pending
    <3>2. r \in Request /\ r.ids = Oldest(Pending)
      BY <2>a, <3>1 DEF Request
    <3> HIDE DEF r
    <3>3. posts' = Append(posts, r) /\ UNCHANGED <<last, table, stamp, now, troubles, stops>> /\ loop' = "posting"
      BY <2>3 DEF Post, queue, env, r
    <3>4. posts' \in Seq(Request) /\ posts' # <<>>
      BY <2>a, <3>2, <3>3, AppendProperties
    <3>5. \A k \in DOMAIN posts' : posts'[k] = r \/ (k \in DOMAIN posts /\ posts'[k] = posts[k])
      BY <2>a, <3>2, <3>3, AppendProperties
    <3>6. \A k \in DOMAIN posts' : posts'[k].ids \subseteq 1..last'
      BY <3>1, <3>2, <3>3, <3>5
    <3>7. QED
      BY <2>b, <3>3, <3>4, <3>6
  <2>4. CASE Forwarded
    <3>1. Latest \in DOMAIN posts
      BY <2>4 DEF Forwarded, Latest
    <3>2. posts[Latest].ids \subseteq 1..last
      BY <3>1
    <3> DEFINE ids == posts[Latest].ids
    <3>3. stamp' = [i \in Ids |-> IF i \in ids THEN now ELSE stamp[i]]
      BY <2>4 DEF Forwarded, Marked
    <3> HIDE DEF ids
    <3>4. stamp' \in [Ids -> Nat] /\ \A i \in Ids : stamp'[i] # 0 => i <= last
      BY <3>2, <3>3 DEF ids
    <3>5. QED
      BY <2>4, <3>4 DEF Forwarded, Kept, env
  <2>5. CASE Refused
    BY <2>5 DEF Refused, Kept, env
  <2>6. CASE RoundFails
    BY <2>6 DEF RoundFails, queue
  <2>7. CASE Stop
    BY <2>7 DEF Stop, queue
  <2>8. CASE Boot
    BY <2>8 DEF Boot, queue, env
  <2>9. CASE Tick
    BY <2>9 DEF Tick, queue
  <2>10. ASSUME NEW k \in DOMAIN posts, Accept(k) \/ Refuse(k)
         PROVE  TypeOK'
    <3>1. PICK t \in {"accepted", "refused"} : posts' = [posts EXCEPT ![k].state = t]
      BY <2>10 DEF Accept, Refuse
    <3>2. /\ posts[k] \in Request /\ [posts[k] EXCEPT !.state = t] \in Request
          /\ [posts[k] EXCEPT !.state = t].ids = posts[k].ids
      <4>1. posts[k] \in Request
        BY <2>a, ElementOfSeq
      <4>2. posts[k] = [ids |-> posts[k].ids, state |-> posts[k].state]
        BY <4>1 DEF Request
      <4>3. QED
        BY <4>1, <4>2 DEF Request
    <3>3. posts' = [posts EXCEPT ![k] = [posts[k] EXCEPT !.state = t]]
      BY <3>1
    <3>4. posts' \in Seq(Request) /\ Len(posts') = Len(posts)
      BY <2>a, <3>2, <3>3, ExceptSeq
    <3>5. DOMAIN posts' = DOMAIN posts /\ \A m \in DOMAIN posts : posts'[m].ids = posts[m].ids
      BY <3>2, <3>3
    <3>6. UNCHANGED <<last, table, stamp, now, stops, loop>> /\ troubles' \in 0..MaxTroubles
      BY <2>10 DEF Accept, Refuse, queue, env
    <3>7. (\A m \in DOMAIN posts' : posts'[m].ids \subseteq 1..last') /\ (posts # <<>> => posts' # <<>>)
      BY <3>4, <3>5, <3>6
    <3>8. QED
      BY <2>b, <3>4, <3>6, <3>7
  <2>11. CASE UNCHANGED vars
    BY <2>11 DEF vars, queue, env
  <2>12. QED
    BY <2>1, <2>2, <2>3, <2>4, <2>5, <2>6, <2>7, <2>8, <2>9, <2>10, <2>11 DEF Next, LoopStep
<1>3. QED
  BY <1>1, <1>2, PTL DEF Spec
-----------------------------------------------------------------------------
(* What a step may do to the requests, and so to what was accepted.        *)
LEMMA RequestsOnlyGrow ==
  ASSUME TypeOK, [Next]_vars
  PROVE  /\ \A k \in DOMAIN posts :
              /\ k \in DOMAIN posts' /\ posts'[k].ids = posts[k].ids
              /\ posts[k].state = "accepted" => posts'[k].state = "accepted"
         /\ \A k \in DOMAIN posts' : k \notin DOMAIN posts =>
              Post /\ posts'[k].ids = Oldest(Pending)
<1> USE DEF TypeOK
<1>1. CASE Post
  <2> DEFINE r == [ids |-> Oldest(Pending), state |-> "sent"]
  <2>1. posts' = Append(posts, r)
    BY <1>1 DEF Post
  <2>2. r.ids = Oldest(Pending)
    OBVIOUS
  <2> HIDE DEF r
  <2>3. \A k \in DOMAIN posts : k \in DOMAIN posts' /\ posts'[k] = posts[k]
    BY <2>1
  <2>4. \A k \in DOMAIN posts' : k \notin DOMAIN posts => posts'[k] = r
    BY <2>1
  <2>5. QED
    BY <1>1, <2>2, <2>3, <2>4
<1>2. ASSUME NEW k \in DOMAIN posts, Accept(k) \/ Refuse(k)
      PROVE  /\ DOMAIN posts' = DOMAIN posts
             /\ \A m \in DOMAIN posts :
                  /\ posts'[m].ids = posts[m].ids
                  /\ posts[m].state = "accepted" => posts'[m].state = "accepted"
  <2>1. PICK t \in {"accepted", "refused"} : posts' = [posts EXCEPT ![k].state = t]
    BY <1>2 DEF Accept, Refuse
  <2>2. posts[k].state = "sent"
    BY <1>2 DEF Accept, Refuse
  <2>3. posts[k] = [ids |-> posts[k].ids, state |-> posts[k].state]
    <3>1. posts \in Seq(Request)
      BY DEF Request
    <3>2. posts[k] \in Request
      BY <3>1, ElementOfSeq
    <3>3. QED
      BY <3>2 DEF Request
  <2>4. QED
    BY <2>1, <2>2, <2>3
<1>3. CASE UNCHANGED posts
  BY <1>3
<1>4. QED
  <2>1. Post \/ UNCHANGED posts \/ \E k \in DOMAIN posts : Accept(k) \/ Refuse(k)
    BY DEF Next, LoopStep, vars, Enqueue, IdleRound, Forwarded, Refused, RoundFails, Stop,
       Boot, Tick
  <2>2. QED
    BY <1>1, <1>2, <1>3, <2>1

LEMMA AcceptedGrows ==
  ASSUME TypeOK, [Next]_vars
  PROVE  Accepted \subseteq Accepted'
BY RequestsOnlyGrow DEF Accepted

LEMMA LedgerInvStep ==
  ASSUME TypeOK, LedgerInv, [Next]_vars
  PROVE  LedgerInv'
<1> USE LedgerAssumption DEF TypeOK, LedgerInv
<1>1. Closed'
  <2> SUFFICES ASSUME NEW k \in DOMAIN posts', NEW i \in posts'[k].ids, NEW j \in 1..i
               PROVE  j \in posts'[k].ids \/ j \in Accepted'
    BY DEF Closed
  <2>1. CASE k \in DOMAIN posts
    BY <2>1, RequestsOnlyGrow, AcceptedGrows DEF Closed
  <2>2. CASE k \notin DOMAIN posts
    <3>1. posts'[k].ids = Oldest(Pending)
      BY <2>2, RequestsOnlyGrow
    <3>2. Pending \in SUBSET Ids /\ Pending \subseteq 1..last
      <4>1. 1..last \subseteq Ids
        BY DEF Ids
      <4>2. QED
        BY <4>1 DEF Pending
    <3>3. i \in Pending /\ i \in 1..last /\ j \in 1..last /\ j <= i
      <4>1. i \in Pending
        BY <3>1, <3>2, OldestSkipsNone
      <4>2. QED
        BY <3>2, <4>1
    <3>4. CASE j \in Pending
      BY <3>1, <3>2, <3>3, <3>4, OldestSkipsNone
    <3>5. CASE j \notin Pending
      <4>1. j \in Accepted
        BY <3>3, <3>5 DEF Sound, Pending, Ids
      <4>2. QED
        BY <4>1, AcceptedGrows
    <3>6. QED
      BY <3>4, <3>5
  <2>3. QED
    BY <2>1, <2>2
<1>2. Sound'
  <2>1. CASE Enqueue
    <3>1. /\ last' = last + 1 /\ table' = table \union {last + 1}
          /\ stamp' = stamp
      BY <2>1 DEF Enqueue
    <3>2. QED
      BY <3>1, AcceptedGrows DEF Sound
  <2>2. CASE IdleRound \/ Refused
    <3>1. last' = last /\ stamp' = stamp /\ table' = Kept(stamp)
      BY <2>2 DEF IdleRound, Refused
    <3>2. \A i \in 1..last : i \in Ids /\ (i \notin Kept(stamp) => i \notin table \/ stamp[i] # 0)
      BY DEF Kept, Ids
    <3>3. QED
      BY <3>1, <3>2, AcceptedGrows DEF Sound
  <2>3. CASE Forwarded
    <3> DEFINE ids == posts[Latest].ids
    <3>1. Latest \in DOMAIN posts /\ posts[Latest].state = "accepted"
      BY <2>3 DEF Forwarded, Latest
    <3>2. ids \subseteq Accepted
      BY <3>1 DEF Accepted
    <3>3. /\ stamp' = [i \in Ids |-> IF i \in ids THEN now ELSE stamp[i]]
          /\ table' = Kept(stamp') /\ last' = last
      BY <2>3 DEF Forwarded, Marked
    <3> HIDE DEF ids
    <3>4. \A i \in Ids : stamp'[i] # 0 => i \in Accepted
      BY <3>2, <3>3 DEF Sound
    <3>5. \A i \in 1..last : i \in Ids /\ (i \notin table' => i \notin table \/ stamp'[i] # 0)
      BY <3>3 DEF Kept, Ids
    <3>6. QED
      BY <3>3, <3>4, <3>5, AcceptedGrows DEF Sound
  <2>4. CASE UNCHANGED queue
    BY <2>4, AcceptedGrows DEF queue, Sound
  <2>5. QED
    <3>1. Enqueue \/ IdleRound \/ Refused \/ Forwarded \/ UNCHANGED queue
      BY DEF Next, LoopStep, vars, Post, RoundFails, Stop, Boot, Tick, Accept, Refuse
    <3>2. QED
      BY <2>1, <2>2, <2>3, <2>4, <3>1
<1>3. QED
  BY <1>1, <1>2

(* Requests stay closed downwards, marks and deletions stay justified.     *)
THEOREM LedgerSound == Spec => []LedgerInv
<1>1. Init => LedgerInv
  BY DEF Init, LedgerInv, Closed, Sound, Accepted
<1>2. QED
  BY <1>1, LedgerInvStep, LedgerTypeCorrect, PTL DEF Spec

(* No entry is lost: what was enqueued still waits or has been accepted.   *)
THEOREM NoEntryIsLost == Spec => []NothingIsLost
<1>1. TypeOK /\ LedgerInv => NothingIsLost
  BY LedgerAssumption DEF TypeOK, LedgerInv, Sound, NothingIsLost, Pending, Ids
<1>2. QED
  BY <1>1, LedgerSound, LedgerTypeCorrect, PTL

(* The control plane learns the entries in order and skips none: every     *)
(* step of the queue and the loop is a step of LedgerDelivery or stutters. *)
THEOREM InOrder == Spec => DeliversInOrder
<1>1. Init => Delivery!Init
  BY DEF Init, Delivery!Init, Accepted
<1>2. TypeOK /\ TypeOK' /\ LedgerInv' /\ [Next]_vars => [Delivery!Next]_<<last, Accepted>>
  <2> SUFFICES ASSUME TypeOK, TypeOK', LedgerInv', [Next]_vars,
                      <<last, Accepted>>' # <<last, Accepted>>
               PROVE  Delivery!Next
    OBVIOUS
  <2>1. CASE Enqueue
    BY <2>1 DEF Enqueue, Accepted, Delivery!Next, Delivery!Append
  <2>2. CASE last' = last
    <3>1. Accepted' \subseteq 1..last
      <4>1. \A k \in DOMAIN posts' : posts'[k].ids \subseteq 1..last'
        BY DEF TypeOK
      <4>2. QED
        BY <2>2, <4>1 DEF Accepted
    <3>2. Delivery!NoneSkipped(Accepted')
      <4> SUFFICES ASSUME NEW i \in Accepted', NEW j \in 1..i
                   PROVE  j \in Accepted'
        BY DEF Delivery!NoneSkipped
      <4>1. PICK k \in DOMAIN posts' : posts'[k].state = "accepted" /\ i \in posts'[k].ids
        BY DEF Accepted
      <4>2. j \in posts'[k].ids \/ j \in Accepted'
        BY <4>1 DEF LedgerInv, Closed
      <4>3. QED
        BY <4>1, <4>2 DEF Accepted
    <3>3. QED
      BY <2>2, <3>1, <3>2, AcceptedGrows DEF Delivery!Next, Delivery!Deliver
  <2>3. Enqueue \/ last' = last
    BY DEF Next, LoopStep, vars, queue, IdleRound, Post, Forwarded, Refused, RoundFails,
       Stop, Boot, Tick, Accept, Refuse
  <2>4. QED
    BY <2>1, <2>2, <2>3
<1>3. QED
  BY <1>1, <1>2, LedgerTypeCorrect, LedgerSound, PTL DEF Spec, DeliversInOrder, Delivery!Spec
-----------------------------------------------------------------------------
(* Copies. An entry that waits was sent once for each trouble and stop, and *)
(* once more while the loop awaits a reply about it that may be a 2xx.      *)
Copies(i) == {k \in DOMAIN posts : i \in posts[k].ids}

Awaits(i) == loop = "posting" /\ i \in posts[Latest].ids /\ posts[Latest].state # "refused"

CopyInv ==
  \A i \in Ids :
    /\ Cardinality(Copies(i)) <= 1 + troubles + stops
    /\ i \in Pending /\ ~Awaits(i) => Cardinality(Copies(i)) <= troubles + stops

LEMMA CopiesAreFinite ==
  ASSUME TypeOK, NEW i
  PROVE  IsFiniteSet(Copies(i)) /\ Cardinality(Copies(i)) \in Nat
<1>1. DOMAIN posts = 1..Len(posts) /\ Len(posts) \in Nat
  BY DEF TypeOK
<1>2. IsFiniteSet(1..Len(posts)) /\ Copies(i) \subseteq 1..Len(posts)
  BY <1>1, FS_Interval DEF Copies
<1>3. QED
  BY <1>2, FS_Subset, FS_CardinalityType

(* A step that sends nothing, and of each entry that waits after it knows   *)
(* more of the same or counts a trouble or a stop.                          *)
LEMMA CopiesUnchanged ==
  ASSUME TypeOK, CopyInv,
         DOMAIN posts' = DOMAIN posts, \A k \in DOMAIN posts : posts'[k].ids = posts[k].ids,
         \/ troubles' = troubles + 1 /\ stops' = stops
         \/ troubles' = troubles /\ stops' = stops + 1
         \/ /\ UNCHANGED <<troubles, stops>>
            /\ \A i \in Ids : i \in Pending' /\ ~Awaits(i)' =>
                 (i \in Pending /\ ~Awaits(i)) \/ Copies(i) = {}
  PROVE  CopyInv'
<1>1. \A i \in Ids : Copies(i)' = Copies(i)
  BY DEF Copies
<1>2. troubles \in Nat /\ stops \in Nat
  BY DEF TypeOK
<1>3. \A i \in Ids : Cardinality(Copies(i)) \in Nat
  BY CopiesAreFinite
<1>4. \A i \in Ids : Copies(i) = {} => Cardinality(Copies(i)) = 0
  BY FS_EmptySet
<1>5. QED
  BY <1>1, <1>2, <1>3, <1>4 DEF CopyInv

LEMMA CopyInvStep ==
  ASSUME TypeOK, CopyInv, [Next]_vars
  PROVE  CopyInv'
<1> USE LedgerAssumption DEF TypeOK
<1>0. UNCHANGED posts => \A k \in DOMAIN posts : posts'[k].ids = posts[k].ids
  OBVIOUS
<1>1. CASE Enqueue
  <2>1. /\ table' = table \union {last + 1} /\ UNCHANGED <<stamp, troubles, stops, loop, posts>>
    BY <1>1 DEF Enqueue, env
  <2>2. Copies(last + 1) = {}
    BY DEF Copies
  <2>3. \A i \in Ids : Awaits(i)' = Awaits(i)
    BY <2>1 DEF Awaits, Latest
  <2>4. \A i \in Ids : i \in Pending' => i \in Pending \/ i = last + 1
    BY <2>1 DEF Pending
  <2>5. QED
    BY <1>0, <2>1, <2>2, <2>3, <2>4, CopiesUnchanged
<1>2. CASE IdleRound \/ Refused
  <2>1. /\ table' = Kept(stamp) /\ UNCHANGED <<stamp, troubles, stops, posts>>
        /\ loop = "posting" => posts[Latest].state = "refused"
    BY <1>2 DEF IdleRound, Refused, env
  <2>2. \A i \in Ids : ~Awaits(i)
    BY <2>1 DEF Awaits
  <2>3. Pending' \subseteq Pending
    BY <2>1 DEF Pending, Kept
  <2>4. QED
    BY <1>0, <2>1, <2>2, <2>3, CopiesUnchanged
<1>3. CASE Forwarded
  <2> DEFINE ids == posts[Latest].ids
  <2>1. /\ stamp' = [i \in Ids |-> IF i \in ids THEN now ELSE stamp[i]]
        /\ table' = Kept(stamp') /\ UNCHANGED <<troubles, stops, posts>>
    BY <1>3 DEF Forwarded, Marked, env
  <2>2. now # 0
    OBVIOUS
  <2>3. \A i \in Ids : i \in Pending' => i \in Pending /\ i \notin ids
    BY <2>1, <2>2 DEF Pending, Kept
  <2>4. \A i \in Ids : i \in Pending' => i \in Pending /\ ~Awaits(i)
    BY <2>3 DEF Awaits
  <2>5. QED
    BY <1>0, <2>1, <2>4, CopiesUnchanged
<1>4. CASE RoundFails
  BY <1>0, <1>4, CopiesUnchanged DEF RoundFails, queue
<1>5. CASE Stop
  BY <1>0, <1>5, CopiesUnchanged DEF Stop, queue
<1>6. CASE Boot \/ Tick \/ UNCHANGED vars
  <2>1. /\ UNCHANGED <<table, stamp, troubles, stops, posts>>
        /\ loop' = loop \/ loop = "off"
    BY <1>6 DEF Boot, Tick, vars, queue, env
  <2>2. \A i \in Ids : Awaits(i) => Awaits(i)'
    BY <2>1 DEF Awaits, Latest
  <2>3. Pending' = Pending
    BY <2>1 DEF Pending
  <2>4. QED
    BY <1>0, <2>1, <2>2, <2>3, CopiesUnchanged
<1>7. ASSUME NEW k \in DOMAIN posts, Accept(k)
      PROVE  CopyInv'
  <2>1. /\ posts' = [posts EXCEPT ![k].state = "accepted"] /\ posts[k].state = "sent"
        /\ UNCHANGED <<table, stamp, troubles, stops, loop>>
    BY <1>7 DEF Accept, queue, env
  <2>s. posts \in Seq(Request)
    BY DEF Request
  <2>2. posts \in Seq(Request) /\ posts[k] \in Request
    BY <2>s, ElementOfSeq
  <2>3. /\ DOMAIN posts' = DOMAIN posts /\ Len(posts') = Len(posts)
        /\ \A j \in DOMAIN posts : /\ posts'[j].ids = posts[j].ids
                                   /\ posts'[j].state = "refused" => posts[j].state = "refused"
    BY <2>1, <2>2 DEF Request
  <2>4. loop = "posting" => Latest \in DOMAIN posts
    BY DEF Latest
  <2>5. \A i \in Ids : Awaits(i) => Awaits(i)'
    BY <2>1, <2>3, <2>4 DEF Awaits, Latest
  <2>6. Pending' = Pending
    BY <2>1 DEF Pending
  <2>7. QED
    BY <2>1, <2>3, <2>5, <2>6, CopiesUnchanged
<1>8. ASSUME NEW k \in DOMAIN posts, Refuse(k)
      PROVE  CopyInv'
  <2>1. /\ posts' = [posts EXCEPT ![k].state = "refused"]
        /\ troubles' = troubles + 1 /\ stops' = stops
    BY <1>8 DEF Refuse
  <2>s. posts \in Seq(Request)
    BY DEF Request
  <2>2. posts \in Seq(Request) /\ posts[k] \in Request
    BY <2>s, ElementOfSeq
  <2>3. /\ DOMAIN posts' = DOMAIN posts
        /\ \A j \in DOMAIN posts : posts'[j].ids = posts[j].ids
    BY <2>1, <2>2 DEF Request
  <2>4. QED
    BY <2>1, <2>3, CopiesUnchanged
<1>9. CASE Post
  <2> DEFINE new == Len(posts) + 1
  <2>1. /\ posts' = Append(posts, [ids |-> Oldest(Pending), state |-> "sent"])
        /\ loop = "asleep" /\ loop' = "posting"
        /\ UNCHANGED <<table, stamp, troubles, stops>>
    BY <1>9 DEF Post, queue, env
  <2>2. /\ DOMAIN posts' = DOMAIN posts \cup {new} /\ new \notin DOMAIN posts
        /\ Len(posts') = new
        /\ \A k \in DOMAIN posts : posts'[k] = posts[k]
        /\ posts'[new] = [ids |-> Oldest(Pending), state |-> "sent"]
    BY <2>1
  <2>3. Oldest(Pending) \subseteq Pending /\ Pending' = Pending
    BY <2>1 DEF Oldest, Pending
  <2>4. \A i \in Ids : Awaits(i)' <=> i \in Oldest(Pending)
    BY <2>1, <2>2 DEF Awaits, Latest
  <2> HIDE DEF new
  <2>5. ASSUME NEW i \in Ids
        PROVE  /\ Cardinality(Copies(i)') <= 1 + troubles + stops
               /\ i \in Pending /\ i \notin Oldest(Pending) =>
                    Cardinality(Copies(i)') <= troubles + stops
    <3>0. troubles \in Nat /\ stops \in Nat
      OBVIOUS
    <3>1. CASE i \in Oldest(Pending)
      <4>1. Copies(i)' = Copies(i) \cup {new} /\ new \notin Copies(i)
        BY <2>2, <3>1 DEF Copies
      <4>2. Cardinality(Copies(i)) <= troubles + stops
        BY <2>1, <2>3, <3>1 DEF CopyInv, Awaits
      <4>3. Cardinality(Copies(i)') = Cardinality(Copies(i)) + 1
        BY <4>1, CopiesAreFinite, FS_AddElement
      <4>4. QED
        BY <3>0, <3>1, <4>2, <4>3, CopiesAreFinite
    <3>2. CASE i \notin Oldest(Pending)
      <4>1. Copies(i)' = Copies(i)
        BY <2>2, <3>2 DEF Copies
      <4>2. QED
        BY <2>1, <4>1 DEF CopyInv, Awaits
    <3>3. QED
      BY <3>1, <3>2
  <2>6. QED
    BY <2>1, <2>3, <2>4, <2>5 DEF CopyInv
<1>10. QED
  BY <1>1, <1>2, <1>3, <1>4, <1>5, <1>6, <1>7, <1>8, <1>9 DEF Next, LoopStep

(* Each copy of an entry after the first is accounted for by a refusal, a  *)
(* timeout, a failed mark or a stop of the loop.                           *)
THEOREM CopiesHaveCauses == Spec => []DuplicatesHaveACause
<1>1. Init => CopyInv
  <2> SUFFICES ASSUME Init PROVE CopyInv
    OBVIOUS
  <2>1. \A i : Copies(i) = {}
    BY DEF Init, Copies
  <2>2. QED
    BY <2>1, FS_EmptySet, SMTT(30) DEF Init, CopyInv
<1>2. CopyInv => DuplicatesHaveACause
  BY DEF CopyInv, Copies, DuplicatesHaveACause
<1>3. QED
  BY <1>1, <1>2, CopyInvStep, LedgerTypeCorrect, PTL DEF Spec
=============================================================================
