-------------------- MODULE FeederEventPublisher_proofs --------------------
(***************************************************************************)
(* The tables of subscribers, and what Publish reaches, for any number of  *)
(* streams, publishers and events.                                         *)
(***************************************************************************)
EXTENDS FeederEventPublisher, SequenceTheorems, TLAPS

Walking == {"next", "wait", "write"}
Open == {"watch", "unsubscribe"}

Has(q, s) == \E i \in 1..Len(q) : q[i] = s
Distinct(q) == \A i, j \in 1..Len(q) : q[i] = q[j] => i = j

(* TypeOK, with the sequences as such. *)
Types ==
  /\ call \in [Streams -> {"none", "subscribe", "watch", "unsubscribe", "ended"}]
  /\ kind \in [Streams -> Kinds]
  /\ gone \subseteq Streams /\ active \subseteq Streams
  /\ subs \in [Kinds -> Seq(Streams)]
  /\ mutex \in [Streams -> Publishers \cup {Nobody}]
  /\ pc \in [Publishers -> {"idle", "lock", "next", "wait", "write"}]
  /\ event \in [Publishers -> Kinds]
  /\ todo \in [Publishers -> Seq(Streams)]
  /\ published \in [Kinds -> Nat] /\ dropped \in Nat /\ events \in 0 .. MaxEvents
  /\ reached \in [Publishers -> SUBSET Streams]

(* A table has the streams of the open calls of its kind, once each. *)
Unique == \A k \in Kinds : Distinct(subs[k])
Exact ==
  \A s \in Streams, k \in Kinds : Has(subs[k], s) <=> kind[s] = k /\ call[s] \in Open

(* A publisher that holds the shared lock has subscribers before it; it    *)
(* has come to one when it writes, whose mutex it then holds; and those it *)
(* has not reached and that are active are still before it.                *)
Subscribed(p) == \A s \in Streams : Has(todo[p], s) => Has(subs[event[p]], s)
Writing(p) ==
  /\ pc[p] # "next" => todo[p] # <<>>
  /\ pc[p] = "write" => mutex[At(p)] = p
NoneMissed(p) ==
  \A s \in Streams : s \in active /\ Has(subs[event[p]], s) => s \in reached[p] \/ Has(todo[p], s)
Walk(p) == pc[p] \in Walking => Subscribed(p) /\ Writing(p) /\ NoneMissed(p)

Inv == Types /\ Unique /\ Exact /\ \A p \in Publishers : Walk(p)

-----------------------------------------------------------------------------
(* The streams of a sequence are its range. *)
LEMMA RangeHas ==
  ASSUME NEW S, NEW q \in Seq(S)
  PROVE  Range(q) \subseteq S /\ \A s : s \in Range(q) <=> Has(q, s)
<1>1. DOMAIN q = 1..Len(q)
  OBVIOUS
<1>2. \A i \in 1..Len(q) : q[i] \in S
  OBVIOUS
<1> QED  BY <1>1, <1>2 DEF Range, Has

(* Subscribing adds one stream at the end. *)
LEMMA Appending ==
  ASSUME NEW S, NEW q \in Seq(S), NEW e \in S, ~Has(q, e)
  PROVE  /\ Append(q, e) \in Seq(S)
         /\ \A s : Has(Append(q, e), s) <=> s = e \/ Has(q, s)
         /\ Distinct(q) => Distinct(Append(q, e))
<1>1. /\ Append(q, e) \in Seq(S) /\ Len(Append(q, e)) = Len(q) + 1
      /\ \A i \in 1..Len(q) : Append(q, e)[i] = q[i]
      /\ Append(q, e)[Len(q) + 1] = e
  OBVIOUS
<1>2. Len(q) \in Nat
  OBVIOUS
<1>3. PICK r : r = Append(q, e)  OBVIOUS
<1>4. \A i \in 1..Len(r) : r[i] = IF i = Len(q) + 1 THEN e ELSE q[i]
  BY <1>1, <1>2, <1>3
<1>5. \A s : Has(r, s) <=> s = e \/ Has(q, s)
  BY <1>1, <1>2, <1>3, <1>4 DEF Has
<1>6. Distinct(q) => Distinct(r)
  BY <1>1, <1>2, <1>3, <1>4 DEF Has, Distinct
<1> QED  BY <1>1, <1>3, <1>5, <1>6

(* The loop of Publish goes on to the next subscriber. *)
LEMMA HeadAndTail ==
  ASSUME NEW S, NEW q \in Seq(S), q # <<>>
  PROVE  /\ Head(q) \in S /\ Tail(q) \in Seq(S) /\ Has(q, Head(q))
         /\ \A s : Has(q, s) <=> s = Head(q) \/ Has(Tail(q), s)
<1>1. /\ Len(q) \in Nat /\ Len(q) >= 1 /\ Head(q) = q[1] /\ q[1] \in S
      /\ Tail(q) \in Seq(S) /\ Len(Tail(q)) = Len(q) - 1
      /\ \A i \in 1..Len(q) - 1 : Tail(q)[i] = q[i + 1]
  OBVIOUS
<1>2. \A s : Has(Tail(q), s) => Has(q, s)
  BY <1>1 DEF Has
<1>3. ASSUME NEW s, NEW i \in 1..Len(q), q[i] = s, s # Head(q)  PROVE Has(Tail(q), s)
  <2>1. i - 1 \in 1..Len(q) - 1 /\ (i - 1) + 1 = i
    BY <1>1, <1>3
  <2>2. Tail(q)[i - 1] = q[(i - 1) + 1]
    BY <1>1, <2>1
  <2> QED  BY <1>1, <1>3, <2>1, <2>2 DEF Has
<1>4. Has(q, Head(q))
  BY <1>1 DEF Has
<1>5. \A s : Has(q, s) => s = Head(q) \/ Has(Tail(q), s)
  BY <1>3 DEF Has
<1> QED  BY <1>1, <1>2, <1>4, <1>5

(* A stream is in its table at one place. *)
LEMMA Erasing ==
  ASSUME NEW S, NEW q \in Seq(S), NEW e, Has(q, e), Distinct(q)
  PROVE  /\ Erase(q, e) \in Seq(S)
         /\ \A s : Has(Erase(q, e), s) <=> s # e /\ Has(q, s)
         /\ Distinct(Erase(q, e))
<1>1. PICK k \in 1..Len(q) : q[k] = e
  BY DEF Has
<1>2. Len(q) \in Nat /\ k \in Nat /\ k >= 1 /\ k <= Len(q) /\ DOMAIN q = 1..Len(q)
  OBVIOUS
<1>3. Find(q, e) = k
  BY <1>1, <1>2 DEF Find, Distinct
<1>4. PICK front : front = SubSeq(q, 1, k - 1)  OBVIOUS
<1>5. PICK back : back = SubSeq(q, k + 1, Len(q))  OBVIOUS
<1>6. PICK r : r = Erase(q, e)  OBVIOUS
<1>7. r = front \o back
  BY <1>3, <1>4, <1>5, <1>6, RangeHas DEF Erase, RemoveAt
<1>8. /\ front \in Seq(S) /\ Len(front) = k - 1
      /\ \A m \in 1..k-1 : front[m] = q[m]
  BY <1>2, <1>4, SubSeqProperties
<1>9. /\ back \in Seq(S) /\ Len(back) = Len(q) - k
      /\ \A m \in 1..Len(q)-k : back[m] = q[k + m]
  <2>1. k + 1 \in 1..Len(q)+1 /\ Len(q) \in k..Len(q)
    BY <1>2
  <2>2. \A m \in 1..Len(q)-k : back[m] = q[k + 1 + m - 1]
    BY <1>2, <1>5, <2>1, SubSeqProperties
  <2> QED  BY <1>2, <1>5, <2>1, <2>2, SubSeqProperties
<1>10. /\ front \o back \in Seq(S)
       /\ Len(front \o back) = Len(front) + Len(back)
       /\ \A m \in 1..Len(front)+Len(back) :
            (front \o back)[m] = IF m <= Len(front) THEN front[m] ELSE back[m - Len(front)]
  BY <1>8, <1>9, ConcatProperties
<1>11. /\ r \in Seq(S) /\ Len(r) = Len(front) + Len(back)
       /\ \A m \in 1..Len(front)+Len(back) :
            r[m] = IF m <= Len(front) THEN front[m] ELSE back[m - Len(front)]
  BY <1>7, <1>10, Zenon
<1>12. Len(r) = Len(q) - 1
  BY <1>2, <1>8, <1>9, <1>11
<1>13. \A m \in 1..Len(q)-1 : r[m] = IF m < k THEN q[m] ELSE q[m + 1]
  <2> SUFFICES ASSUME NEW m \in 1..Len(q)-1
               PROVE  r[m] = IF m < k THEN q[m] ELSE q[m + 1]
    OBVIOUS
  <2>0. m \in 1..Len(front)+Len(back)
    BY <1>2, <1>8, <1>9
  <2>1. CASE m < k
    BY <2>0, <2>1, <1>2, <1>8, <1>11
  <2>2. CASE m >= k
    <3>1. m - (k - 1) \in 1..Len(q)-k /\ k + (m - (k - 1)) = m + 1 /\ ~(m <= Len(front))
      BY <2>2, <1>2, <1>8
    <3>2. r[m] = back[m - (k - 1)]
      BY <2>0, <3>1, <1>8, <1>11
    <3>3. back[m - (k - 1)] = q[k + (m - (k - 1))]
      BY <3>1, <1>9
    <3>4. ~(m < k)
      BY <2>2, <1>2
    <3> QED  BY <3>1, <3>2, <3>3, <3>4
  <2> QED  BY <2>1, <2>2, <1>2
<1>14. ASSUME NEW n \in 1..Len(q), q[n] # e  PROVE Has(r, q[n])
  <2>1. CASE n < k
    BY <2>1, <1>2, <1>12, <1>13 DEF Has
  <2>2. CASE n > k
    <3>1. n - 1 \in 1..Len(r) /\ ~(n - 1 < k) /\ (n - 1) + 1 = n
      BY <2>2, <1>2, <1>12
    <3> QED  BY <3>1, <1>12, <1>13 DEF Has
  <2> QED  BY <2>1, <2>2, <1>1, <1>2, <1>14
<1>15. \A m \in 1..Len(r) : r[m] # e /\ Has(q, r[m])
  BY <1>1, <1>2, <1>12, <1>13 DEF Distinct, Has
<1>16. Distinct(r)
  BY <1>2, <1>12, <1>13 DEF Distinct
<1>17. \A s : Has(r, s) <=> s # e /\ Has(q, s)
  BY <1>14, <1>15 DEF Has
<1> QED  BY <1>6, <1>11, <1>16, <1>17

-----------------------------------------------------------------------------
(* A step that leaves the publishers and the tables alone, and in which no *)
(* call subscribes or unsubscribes.                                        *)
LEMMA CallStep ==
  ASSUME Inv, NEW s \in Streams, Watch(s) \/ ClientLeaves(s) \/ WatchEnds(s)
  PROVE  Inv'
<1>1. /\ subs' = subs /\ active' = active /\ mutex' = mutex /\ pc' = pc /\ event' = event
      /\ todo' = todo /\ reached' = reached
      /\ published' = published /\ dropped' = dropped /\ events' = events
  BY DEF Watch, ClientLeaves, WatchEnds, pubVars, countVars
<1>2. Types'
  <2>1. kind' \in [Streams -> Kinds]
    BY DEF Inv, Types, Watch, ClientLeaves, WatchEnds
  <2>2. /\ call' \in [Streams -> {"none", "subscribe", "watch", "unsubscribe", "ended"}]
        /\ gone' \subseteq Streams
    BY DEF Inv, Types, Watch, ClientLeaves, WatchEnds
  <2> QED  BY <1>1, <2>1, <2>2 DEF Inv, Types
<1>3. Unique'
  BY <1>1 DEF Inv, Unique
<1>4. Exact'
  BY <1>1 DEF Inv, Types, Exact, Open, Watch, ClientLeaves, WatchEnds
<1>5. \A p \in Publishers : Walk(p)'
  BY <1>1 DEF Inv, Walk, Subscribed, Writing, NoneMissed, At
<1> QED  BY <1>2, <1>3, <1>4, <1>5 DEF Inv

(* Without readers of a table no publisher walks it. *)
LEMMA Alone ==
  ASSUME NEW k, Readers(k) = {}, NEW p \in Publishers, pc[p] \in Walking
  PROVE  event[p] # k
BY DEF Readers, Walking

(* The publishers that walk the other table do not notice its change. *)
LEMMA OtherTable ==
  ASSUME Inv, NEW k \in Kinds, NEW s \in Streams, kind[s] = k, Readers(k) = {},
         subs' = [subs EXCEPT ![k] = subs'[k]],
         active' = active \cup {s} \/ active' = active \ {s},
         UNCHANGED <<mutex, pubVars>>,
         NEW p \in Publishers
  PROVE  Walk(p)'
<1>1. pc' = pc /\ event' = event /\ todo' = todo /\ reached' = reached /\ mutex' = mutex
  BY DEF pubVars
<1> SUFFICES ASSUME pc[p] \in Walking
             PROVE  (Subscribed(p) /\ Writing(p) /\ NoneMissed(p))'
  BY <1>1 DEF Walk
<1>2. event[p] # k /\ event[p] \in Kinds
  BY Alone DEF Inv, Types
<1>3. subs'[event[p]] = subs[event[p]]
  BY <1>2 DEF Inv, Types
<1>4. ~Has(subs[event[p]], s)
  BY <1>2 DEF Inv, Exact
<1>5. Subscribed(p) /\ Writing(p) /\ NoneMissed(p)
  BY DEF Inv, Walk
<1>6. Subscribed(p)'
  BY <1>1, <1>3, <1>5 DEF Subscribed
<1>7. Writing(p)'
  BY <1>1, <1>5 DEF Writing, At
<1>8. NoneMissed(p)'
  BY <1>1, <1>3, <1>4, <1>5 DEF NoneMissed
<1> QED  BY <1>6, <1>7, <1>8

(* SubscribeAlerts and SubscribeLogs. *)
LEMMA SubscribeStep ==
  ASSUME Inv, NEW s \in Streams, Subscribe(s)
  PROVE  Inv'
<1>1. PICK k \in Kinds : k = kind[s]
  BY DEF Inv, Types
<1>2. PICK q : q = subs[k]  OBVIOUS
<1>3. q \in Seq(Streams) /\ ~Has(q, s) /\ Distinct(q)
  BY <1>1, <1>2 DEF Inv, Types, Exact, Unique, Open, Subscribe
<1>4. PICK r : r = Append(q, s)  OBVIOUS
<1>5. r \in Seq(Streams) /\ (\A x : Has(r, x) <=> x = s \/ Has(q, x)) /\ Distinct(r)
  BY <1>3, <1>4, Appending
<1>6. /\ subs' = [subs EXCEPT ![k] = r] /\ active' = active \cup {s} /\ Readers(k) = {}
      /\ call' = [call EXCEPT ![s] = "watch"] /\ kind' = kind /\ gone' = gone
      /\ UNCHANGED <<mutex, pubVars, countVars>>
  BY <1>1, <1>2, <1>4 DEF Subscribe
<1>7. subs' \in [Kinds -> Seq(Streams)] /\ subs'[k] = r
      /\ \A h \in Kinds : h # k => subs'[h] = subs[h]
  BY <1>5, <1>6 DEF Inv, Types
<1>8. Types'
  BY <1>6, <1>7 DEF Inv, Types, pubVars, countVars
<1>9. Unique'
  BY <1>5, <1>7 DEF Inv, Unique
<1>10. Exact'
  <2> SUFFICES ASSUME NEW x \in Streams, NEW h \in Kinds
               PROVE  Has(subs'[h], x) <=> kind'[x] = h /\ call'[x] \in Open
    BY DEF Exact
  <2>1. Has(subs[h], x) <=> kind[x] = h /\ call[x] \in Open
    BY DEF Inv, Exact
  <2>2. call'[x] = IF x = s THEN "watch" ELSE call[x]
    BY <1>6 DEF Inv, Types
  <2>3. Has(subs'[h], x) <=> Has(subs[h], x) \/ (h = k /\ x = s)
    BY <1>2, <1>5, <1>7
  <2>4. ~Has(subs[h], s)
    BY DEF Inv, Exact, Subscribe, Open
  <2> QED  BY <1>1, <1>6, <2>1, <2>2, <2>3, <2>4 DEF Open
<1>11. ASSUME NEW p \in Publishers  PROVE Walk(p)'
  BY <1>1, <1>6, <1>7, OtherTable
<1> QED  BY <1>8, <1>9, <1>10, <1>11 DEF Inv

(* UnsubscribeAlerts and UnsubscribeLogs. *)
LEMMA UnsubscribeStep ==
  ASSUME Inv, NEW s \in Streams, Unsubscribe(s)
  PROVE  Inv'
<1>1. PICK k \in Kinds : k = kind[s]
  BY DEF Inv, Types
<1>2. PICK q : q = subs[k]  OBVIOUS
<1>3. q \in Seq(Streams) /\ Has(q, s) /\ Distinct(q)
  BY <1>1, <1>2 DEF Inv, Types, Exact, Unique, Open, Unsubscribe
<1>4. PICK r : r = Erase(q, s)  OBVIOUS
<1>5. r \in Seq(Streams) /\ (\A x : Has(r, x) <=> x # s /\ Has(q, x)) /\ Distinct(r)
  BY <1>3, <1>4, Erasing
<1>6. /\ subs' = [subs EXCEPT ![k] = r] /\ active' = active \ {s} /\ Readers(k) = {}
      /\ call' = [call EXCEPT ![s] = "ended"] /\ kind' = kind /\ gone' = gone
      /\ UNCHANGED <<mutex, pubVars, countVars>>
  BY <1>1, <1>2, <1>4 DEF Unsubscribe
<1>7. subs' \in [Kinds -> Seq(Streams)] /\ subs'[k] = r
      /\ \A h \in Kinds : h # k => subs'[h] = subs[h]
  BY <1>5, <1>6 DEF Inv, Types
<1>8. Types'
  BY <1>6, <1>7 DEF Inv, Types, pubVars, countVars
<1>9. Unique'
  BY <1>5, <1>7 DEF Inv, Unique
<1>10. Exact'
  <2> SUFFICES ASSUME NEW x \in Streams, NEW h \in Kinds
               PROVE  Has(subs'[h], x) <=> kind'[x] = h /\ call'[x] \in Open
    BY DEF Exact
  <2>1. Has(subs[h], x) <=> kind[x] = h /\ call[x] \in Open
    BY DEF Inv, Exact
  <2>2. call'[x] = IF x = s THEN "ended" ELSE call[x]
    BY <1>6 DEF Inv, Types
  <2>3. Has(subs'[h], x) <=> Has(subs[h], x) /\ ~(h = k /\ x = s)
    BY <1>2, <1>5, <1>7
  <2> QED  BY <1>1, <1>6, <2>1, <2>2, <2>3 DEF Open
<1>11. ASSUME NEW p \in Publishers  PROVE Walk(p)'
  BY <1>1, <1>6, <1>7, OtherTable
<1> QED  BY <1>8, <1>9, <1>10, <1>11 DEF Inv

-----------------------------------------------------------------------------
(* Publish is called. *)
LEMMA PublishStep ==
  ASSUME Inv, NEW p \in Publishers, Publish(p)
  PROVE  Inv'
<1>1. PICK k \in Kinds : event' = [event EXCEPT ![p] = k]
  BY DEF Publish
<1>2. Types'
  BY <1>1, PublisherAssumption DEF Inv, Types, Publish, callVars
<1>3. Unique' /\ Exact'
  BY DEF Inv, Unique, Exact, Publish, callVars
<1>4. ASSUME NEW u \in Publishers  PROVE Walk(u)'
  <2>1. CASE u = p
    BY <2>1 DEF Inv, Types, Walk, Walking, Publish
  <2>2. CASE u # p
    <3>1. pc'[u] = pc[u] /\ event'[u] = event[u]
      BY <1>1, <2>2 DEF Inv, Types, Publish
    <3> QED  BY <3>1 DEF Inv, Walk, Subscribed, Writing, NoneMissed, At, Publish
  <2> QED  BY <2>1, <2>2
<1> QED  BY <1>2, <1>3, <1>4 DEF Inv

(* A step of one publisher in its loop concerns that publisher. *)
LEMMA LoopStep ==
  ASSUME Inv, NEW p \in Publishers, Types',
         pc' = [pc EXCEPT ![p] = pc'[p]], todo' = [todo EXCEPT ![p] = todo'[p]],
         reached' = [reached EXCEPT ![p] = reached'[p]],
         event' = event, subs' = subs, call' = call, kind' = kind,
         active' \subseteq active,
         \A u \in Publishers \ {p} :
           pc[u] = "write" /\ mutex[At(u)] = u => mutex'[At(u)] = u,
         Walk(p)'
  PROVE  Inv'
<1>1. Unique' /\ Exact'
  BY DEF Inv, Unique, Exact
<1>2. ASSUME NEW u \in Publishers, u # p  PROVE Walk(u)'
  <2>1. pc'[u] = pc[u] /\ todo'[u] = todo[u] /\ reached'[u] = reached[u]
    BY <1>2 DEF Inv, Types
  <2> QED  BY <1>2, <2>1 DEF Inv, Walk, Subscribed, Writing, NoneMissed, At
<1> QED  BY <1>1, <1>2 DEF Inv

(* The lock is taken and the loop begins with the whole table. *)
LEMMA LockSharedStep ==
  ASSUME Inv, NEW p \in Publishers, LockShared(p)
  PROVE  Inv'
<1>1. /\ pc' = [pc EXCEPT ![p] = pc'[p]] /\ todo' = [todo EXCEPT ![p] = todo'[p]]
      /\ reached' = [reached EXCEPT ![p] = reached'[p]]
      /\ event' = event /\ subs' = subs /\ call' = call /\ kind' = kind
      /\ active' = active /\ mutex' = mutex
  BY DEF Inv, Types, LockShared, callVars
<1>2. pc'[p] = "next" /\ todo'[p] = subs[event[p]] /\ event[p] \in Kinds
  BY DEF Inv, Types, LockShared
<1>3. Types'
  BY <1>1, <1>2 DEF Inv, Types, LockShared, callVars, countVars
<1>4. Walk(p)'
  BY <1>1, <1>2 DEF Walk, Subscribed, Writing, NoneMissed
<1> QED  BY <1>1, <1>3, <1>4, LoopStep

(* A publisher comes to a subscriber, or to the end. *)
LEMMA LookStep ==
  ASSUME Inv, NEW p \in Publishers, PickSubscriber(p) \/ PublishReturns(p)
  PROVE  Inv'
<1>1. /\ pc' = [pc EXCEPT ![p] = pc'[p]] /\ todo' = todo /\ reached' = reached
      /\ event' = event /\ subs' = subs /\ call' = call /\ kind' = kind
      /\ active' = active /\ mutex' = mutex /\ gone' = gone
      /\ published' = published /\ dropped' = dropped /\ events' = events
  BY DEF Inv, Types, PickSubscriber, PublishReturns, callVars, countVars
<1>2. pc[p] = "next" /\ (pc'[p] = "idle" \/ (pc'[p] = "wait" /\ todo[p] # <<>>))
  BY DEF Inv, Types, PickSubscriber, PublishReturns
<1>3. Types'
  BY <1>1, <1>2 DEF Inv, Types
<1>4. Walk(p)'
  BY <1>1, <1>2 DEF Inv, Walk, Walking, Subscribed, Writing, NoneMissed
<1>5. todo' = [todo EXCEPT ![p] = todo'[p]] /\ reached' = [reached EXCEPT ![p] = reached'[p]]
  BY <1>1 DEF Inv, Types
<1> QED  BY <1>1, <1>3, <1>4, <1>5, LoopStep

(* What a publisher that has come to a subscriber knows. *)
LEMMA Come ==
  ASSUME Inv, NEW p \in Publishers, pc[p] \in Walking, todo[p] # <<>>
  PROVE  /\ At(p) \in Streams /\ Tail(todo[p]) \in Seq(Streams)
         /\ \A s : Has(todo[p], s) <=> s = At(p) \/ Has(Tail(todo[p]), s)
         /\ Subscribed(p) /\ Writing(p) /\ NoneMissed(p)
<1>1. todo[p] \in Seq(Streams)
  BY DEF Inv, Types
<1>2. Subscribed(p) /\ Writing(p) /\ NoneMissed(p)
  BY DEF Inv, Walk
<1> QED  BY <1>1, <1>2, HeadAndTail DEF At

(* The writer of the subscriber is locked. *)
LEMMA LockWriterStep ==
  ASSUME Inv, NEW p \in Publishers, LockWriter(p)
  PROVE  Inv'
<1>1. /\ pc' = [pc EXCEPT ![p] = pc'[p]] /\ todo' = todo /\ reached' = reached
      /\ event' = event /\ subs' = subs /\ call' = call /\ kind' = kind
      /\ active' = active /\ gone' = gone
      /\ published' = published /\ dropped' = dropped /\ events' = events
  BY DEF Inv, Types, LockWriter, callVars, countVars
<1>2. pc[p] \in Walking /\ pc'[p] = "write" /\ todo[p] # <<>>
  BY DEF Inv, Types, LockWriter, Walk, Walking, Writing
<1>3. /\ At(p) \in Streams /\ Subscribed(p) /\ Writing(p) /\ NoneMissed(p)
  BY <1>2, Come
<1>4. /\ mutex' \in [Streams -> Publishers \cup {Nobody}]
      /\ mutex'[At(p)] = p /\ mutex[At(p)] = Nobody
      /\ \A s \in Streams : s # At(p) => mutex'[s] = mutex[s]
  BY <1>3 DEF Inv, Types, LockWriter
<1>5. Types'
  BY <1>1, <1>2, <1>4 DEF Inv, Types
<1>6. Walk(p)'
  BY <1>1, <1>2, <1>3, <1>4 DEF Walk, Subscribed, Writing, NoneMissed, At
<1>7. ASSUME NEW u \in Publishers \ {p}, pc[u] = "write", mutex[At(u)] = u
      PROVE  mutex'[At(u)] = u
  <2>1. At(u) \in Streams
    BY <1>7, Come DEF Inv, Walk, Walking, Writing
  <2> QED  BY <1>4, <1>7, <2>1, PublisherAssumption
<1>8. todo' = [todo EXCEPT ![p] = todo'[p]] /\ reached' = [reached EXCEPT ![p] = reached'[p]]
  BY <1>1 DEF Inv, Types
<1> QED  BY <1>1, <1>5, <1>6, <1>7, <1>8, LoopStep

(* The loop leaves a subscriber: it was not active, or has been written    *)
(* to, or is not active any more.                                          *)
LEMMA LeaveStep ==
  ASSUME Inv, NEW p \in Publishers, SkipInactive(p) \/ WriteSucceeds(p) \/ WriteFails(p)
  PROVE  Inv'
<1>1. /\ todo' = [todo EXCEPT ![p] = todo'[p]] /\ todo'[p] = Tail(todo[p])
      /\ event' = event /\ subs' = subs /\ call' = call /\ kind' = kind /\ gone' = gone
  BY DEF Inv, Types, SkipInactive, WriteSucceeds, WriteFails, callVars
<1>2. pc[p] \in Walking /\ todo[p] # <<>>
  BY DEF Inv, SkipInactive, WriteSucceeds, WriteFails, Wrote, Walk, Walking, Writing
<1>3. /\ At(p) \in Streams /\ Tail(todo[p]) \in Seq(Streams)
      /\ \A s : Has(todo[p], s) <=> s = At(p) \/ Has(Tail(todo[p]), s)
      /\ Subscribed(p) /\ Writing(p) /\ NoneMissed(p)
  BY <1>2, Come
<1>4. /\ pc' = [pc EXCEPT ![p] = pc'[p]] /\ pc'[p] = "next"
      /\ reached' = [reached EXCEPT ![p] = reached'[p]]
      /\ reached'[p] \subseteq Streams /\ reached[p] \subseteq reached'[p]
      /\ active' \subseteq active /\ (At(p) \in active' => At(p) \in reached'[p])
  <2>1. CASE SkipInactive(p)
    BY <2>1 DEF Inv, Types, SkipInactive
  <2>2. CASE WriteSucceeds(p)
    <3>1. reached'[p] = reached[p] \cup {At(p)}
      BY <2>2 DEF Inv, Types, WriteSucceeds
    <3>2. reached[p] \subseteq Streams
      BY DEF Inv, Types
    <3> QED  BY <1>3, <2>2, <3>1, <3>2 DEF Inv, Types, WriteSucceeds, Wrote
  <2>3. CASE WriteFails(p)
    BY <2>3 DEF Inv, Types, WriteFails, Wrote
  <2> QED  BY <2>1, <2>2, <2>3
<1>5. /\ mutex' \in [Streams -> Publishers \cup {Nobody}]
      /\ \A s \in Streams : mutex'[s] # mutex[s] => mutex[s] = p
  BY <1>3 DEF Inv, Types, SkipInactive, WriteSucceeds, WriteFails, Wrote, Writing
<1>6. Types'
  <2>1. published' \in [Kinds -> Nat] /\ dropped' \in Nat /\ events' \in 0..MaxEvents
    <3>1. event[p] \in Kinds /\ published \in [Kinds -> Nat] /\ dropped \in Nat
          /\ events \in 0..MaxEvents
      BY DEF Inv, Types
    <3>2. CASE SkipInactive(p)
      BY <3>1, <3>2 DEF SkipInactive, countVars
    <3>3. CASE WriteSucceeds(p)
      BY <3>1, <3>3 DEF WriteSucceeds
    <3>4. CASE WriteFails(p)
      BY <3>1, <3>4 DEF WriteFails
    <3> QED  BY <3>2, <3>3, <3>4
  <2>2. todo' \in [Publishers -> Seq(Streams)]
    BY <1>1, <1>3 DEF Inv, Types
  <2>3. pc' \in [Publishers -> {"idle", "lock", "next", "wait", "write"}]
    BY <1>4 DEF Inv, Types
  <2>4. reached' \in [Publishers -> SUBSET Streams]
    BY <1>4 DEF Inv, Types
  <2>5. active' \subseteq Streams
    BY <1>4 DEF Inv, Types
  <2> QED  BY <1>1, <1>5, <2>1, <2>2, <2>3, <2>4, <2>5 DEF Inv, Types
<1>7. Walk(p)'
  BY <1>1, <1>3, <1>4 DEF Walk, Subscribed, Writing, NoneMissed
<1>8. ASSUME NEW u \in Publishers \ {p}, pc[u] = "write", mutex[At(u)] = u
      PROVE  mutex'[At(u)] = u
  <2>1. At(u) \in Streams
    BY <1>8, Come DEF Inv, Walk, Walking, Writing
  <2> QED  BY <1>5, <1>8, <2>1
<1> QED  BY <1>1, <1>4, <1>6, <1>7, <1>8, LoopStep

-----------------------------------------------------------------------------
(* At the start nobody subscribes and nothing is published. *)
LEMMA InitInv == Init => Inv
<1> SUFFICES ASSUME Init  PROVE Inv  OBVIOUS
<1>1. << >> \in Seq(Streams) /\ \A s : ~Has(<< >>, s)
  BY DEF Has
<1>2. Distinct(<< >>)
  BY DEF Distinct
<1>3. Types
  BY <1>1, PublisherAssumption DEF Init, Types, Kinds
<1>4. Unique /\ Exact
  BY <1>1, <1>2 DEF Init, Unique, Exact, Open
<1>5. \A p \in Publishers : Walk(p)
  BY DEF Init, Walk, Walking
<1> QED  BY <1>3, <1>4, <1>5 DEF Inv

(* Every step keeps the invariant. *)
LEMMA NextInv == Inv /\ [Next]_vars => Inv'
<1> SUFFICES ASSUME Inv, [Next]_vars  PROVE Inv'  OBVIOUS
<1>1. CASE \E s \in Streams : Watch(s) \/ ClientLeaves(s) \/ Handler(s)
  BY <1>1, CallStep, SubscribeStep, UnsubscribeStep DEF Handler
<1>2. CASE \E p \in Publishers : Publish(p) \/ Loop(p) \/ WriteSucceeds(p)
  BY <1>2, PublishStep, LockSharedStep, LookStep, LockWriterStep, LeaveStep DEF Loop
<1>3. CASE UNCHANGED vars
  BY <1>3 DEF vars, callVars, pubVars, countVars, Inv, Types, Unique, Exact, Walk, Subscribed,
       Writing, NoneMissed, At
<1> QED  BY <1>1, <1>2, <1>3 DEF Next

(* The invariant holds in every state of the publisher. *)
LEMMA Invariance == Spec => []Inv
BY InitInv, NextInv, PTL DEF Spec

-----------------------------------------------------------------------------
(* Whatever calls open, fail and end while events are published: the       *)
(* tables hold exactly the streams of running calls, and a writer is used  *)
(* by one publisher at a time and not after its call has returned.         *)
THEOREM StreamsOutliveWriters == Spec => []StreamsSound
<1>1. ASSUME Inv  PROVE StreamsSound
  <2>1. \A k \in Kinds : subs[k] \in Seq(Streams)
    BY <1>1 DEF Inv, Types
  <2>2. \A p \in Publishers : todo[p] \in Seq(Streams)
    BY <1>1 DEF Inv, Types
  <2>3. TypeOK
    BY <1>1, <2>1, <2>2, RangeHas DEF Inv, Types, TypeOK
  <2>4. ASSUME NEW p \in Publishers, pc[p] = "write"
        PROVE  mutex[At(p)] = p /\ call[At(p)] \in Open
    <3>1. pc[p] \in Walking /\ todo[p] # <<>> /\ mutex[At(p)] = p
      BY <1>1, <2>4 DEF Inv, Walk, Walking, Writing
    <3>2. At(p) \in Streams /\ Has(todo[p], At(p)) /\ Subscribed(p)
      BY <1>1, <3>1, Come
    <3>3. Has(subs[event[p]], At(p)) /\ event[p] \in Kinds
      BY <1>1, <3>2 DEF Subscribed, Inv, Types
    <3> QED  BY <1>1, <3>1, <3>2, <3>3 DEF Inv, Exact
  <2>5. WriterUsedSafely
    BY <2>4 DEF WriterUsedSafely, Open
  <2>6. SubscribersExact
    BY <1>1, <2>1, RangeHas DEF SubscribersExact, Inv, Exact, Open
  <2> QED  BY <2>3, <2>5, <2>6 DEF StreamsSound
<1> QED  BY <1>1, Invariance, PTL

(* When Publish returns, every subscriber of the event's kind that is      *)
(* still active has been given the event, whichever streams failed and     *)
(* whatever the other publishers did.                                      *)
THEOREM PublishReachesActive == Spec => ActiveAreReached
<1> DEFINE A == \A p \in Publishers :
                  pc[p] = "next" /\ pc'[p] = "idle" =>
                    \A s \in Range(subs[event[p]]) : s \in active => s \in reached[p]
<1>1. ASSUME Inv, [Next]_vars  PROVE A \/ UNCHANGED vars
  <2> SUFFICES ASSUME Next, NEW p \in Publishers, pc[p] = "next", pc'[p] = "idle",
                      NEW s \in Range(subs[event[p]]), s \in active
               PROVE  s \in reached[p]
    BY <1>1
  <2>1. todo[p] = <<>>
    <3>1. CASE \E x \in Streams : Watch(x) \/ ClientLeaves(x) \/ Handler(x)
      BY <3>1 DEF Watch, ClientLeaves, Handler, Subscribe, WatchEnds, Unsubscribe, pubVars
    <3>2. CASE \E u \in Publishers : Publish(u) \/ Loop(u) \/ WriteSucceeds(u)
      BY <1>1, <3>2 DEF Inv, Types, Publish, Loop, LockShared, SkipInactive, PickSubscriber,
           LockWriter, WriteFails, WriteSucceeds, Wrote, PublishReturns
    <3> QED  BY <3>1, <3>2 DEF Next
  <2>2. NoneMissed(p) /\ subs[event[p]] \in Seq(Streams)
    BY <1>1 DEF Inv, Types, Walk, Walking
  <2>3. s \in Streams /\ Has(subs[event[p]], s)
    BY <2>2, RangeHas
  <2> QED  BY <2>1, <2>2, <2>3 DEF NoneMissed, Has
<1> QED  BY <1>1, Invariance, PTL DEF Spec, ActiveAreReached
=============================================================================
