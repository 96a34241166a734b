---------------------------- MODULE DrainerProofs ----------------------------
(* What holds of the drainer loop for every capacity and every number of   *)
(* pings: its types, the size it keeps beside its buffers, and that the    *)
(* termination flag ends it with nothing left behind.                      *)
EXTENDS Drainer, SequenceTheorems, TLAPS

\* What is decided for a ping is a decision, and its action an action.
LEMMA DecideType ==
  ASSUME NEW p \in Ping
  PROVE  /\ Decide(p) \in Decision
         /\ Decide(p).kind # "none" =>
              [id |-> p.id, kind |-> Decide(p).kind] \in QueueAction
<1>1. QueueKind(p) \in {"Enter", "PossibleExit", "none"}
  BY DEF QueueKind
<1>2. SkipNormalDrain(p) \in BOOLEAN /\ (Bucketing /\ Match(p)) \in BOOLEAN
  BY FlagAssumption DEF SkipNormalDrain, Match
<1>3. p.id \in Nat \ {0}
  BY DEF Ping
<1>4. QED
  BY <1>1, <1>2, <1>3 DEF Decide, Decision, QueueAction

\* The initial state is well typed.
LEMMA InitType == Init => TypeOK
<1> SUFFICES ASSUME Init PROVE TypeOK
  OBVIOUS
<1>1. <<>> \in Seq(Ping) /\ <<>> \in Seq(Nat) /\ <<>> \in Seq(QueueAction)
      /\ <<>> \in Seq(Decision)
  OBVIOUS
<1>2. cache \subseteq Place /\ presence \subseteq Nat
  BY DEF Init
<1>3. accepted \in Nat /\ size \in Nat /\ handed \in Nat
  BY DEF Init
<1>4. QED
  BY <1>1, <1>2, <1>3 DEF Init, TypeOK, Waiting

\* A ping received leaves every buffer well typed.
LEMMA ReceiveType == TypeOK /\ Receive => TypeOK'
<1> SUFFICES ASSUME TypeOK, Receive PROVE TypeOK'
  OBVIOUS
<1> DEFINE p == channel[1]
           d == Decide(p)
<1>1. p \in Ping /\ Tail(channel) \in Seq(Ping)
  BY DEF TypeOK, Receive
<1>2. d \in Decision
  BY <1>1, DecideType
<1>3. p.id \in Nat \ {0}
  BY <1>1 DEF Ping
<1>4. received' \in Seq(Decision)
  BY <1>2 DEF TypeOK, Receive
<1>5. actions' \in Seq(QueueAction)
  <2>1. CASE d.kind # "none"
    <3>1. [id |-> p.id, kind |-> d.kind] \in QueueAction
      BY <2>1, <1>1, DecideType
    <3>2. actions' = Append(actions, [id |-> p.id, kind |-> d.kind])
      BY <2>1 DEF Receive
    <3>3. QED
      BY <3>1, <3>2 DEF TypeOK
  <2>2. CASE d.kind = "none"
    BY <2>2 DEF TypeOK, Receive
  <2>3. QED
    BY <2>1, <2>2
<1>6. locations' \in Seq(Nat) /\ entries' \in Seq(Nat)
  BY <1>3 DEF TypeOK, Receive
<1>7. size' \in Nat /\ pc' \in {"push", "head"} /\ channel' \in Seq(Ping)
  BY <1>1 DEF TypeOK, Receive
<1>8. UNCHANGED <<cache, accepted, signalled, terminating, serving, last, geo, presence,
                  spawned, handed>>
  BY DEF Receive, shutdown, outputs
<1>9. QED
  BY <1>4, <1>5, <1>6, <1>7, <1>8 DEF TypeOK, Waiting, Draining

\* Every step keeps the types.
LEMMA NextType == TypeOK /\ [Next]_vars => TypeOK'
<1> SUFFICES ASSUME TypeOK, [Next]_vars PROVE TypeOK'
  OBVIOUS
<1> USE DEF TypeOK, Waiting, Draining, shutdown, buffers, outputs
<1>1. CASE Send
  <2>1. PICK place \in Place \cup {Outside} :
          channel' = Append(channel, [id |-> accepted + 1, place |-> place])
    BY <1>1 DEF Send
  <2>2. [id |-> accepted + 1, place |-> place] \in Ping
    BY DEF Ping
  <2>3. channel' \in Seq(Ping)
    BY <2>1, <2>2
  <2>4. QED
    BY <1>1, <2>3 DEF Send
<1>2. CASE RefreshCache
  BY <1>2 DEF RefreshCache
<1>3. CASE Signal \/ RequestTermination \/ StopServing
  BY <1>3 DEF Signal, RequestTermination, StopServing
<1>4. CASE LoopHead
  BY <1>4 DEF LoopHead, AfterFlag
<1>5. CASE Receive
  BY <1>5, ReceiveType
<1>6. CASE Disconnected
  BY <1>6 DEF Disconnected
<1>7. CASE TimerTick
  BY <1>7 DEF TimerTick, AfterTick, CancelledRecv
<1>8. CASE Push
  <2>1. geo \o locations \in Seq(Nat)
    OBVIOUS
  <2>2. geo' \in Seq(Nat)
    BY <1>8, <2>1 DEF Push
  <2>3. QED
    BY <1>8, <2>2 DEF Push
<1>9. CASE List
  <2>1. {entries[i] : i \in DOMAIN entries} \subseteq Nat
    OBVIOUS
  <2>2. presence' \subseteq Nat
    BY <1>9, <2>1 DEF List
  <2>3. QED
    BY <1>9, <2>2 DEF List
<1>10. CASE SpawnAndCleanup
  BY <1>10 DEF SpawnAndCleanup, ActionsLeft, LocationsLeft, SizeLeft
<1>11. CASE UNCHANGED vars
  BY <1>11 DEF vars
<1>12. QED
  BY <1>1, <1>2, <1>3, <1>4, <1>5, <1>6, <1>7, <1>8, <1>9, <1>10, <1>11 DEF Next, Loop

\* The buffers and the outputs keep their types in every behaviour of the
\* loop, whatever the capacity and however many pings come.
THEOREM DrainerTypeCorrect == Spec => []TypeOK
<1>1. Init => TypeOK
  BY InitType
<1>2. TypeOK /\ [Next]_vars => TypeOK'
  BY NextType
<1>3. QED
  BY <1>1, <1>2, PTL DEF Spec

-----------------------------------------------------------------------------
\* The size kept beside the buffers is the number of pings received since the
\* last drain, and the loop waits only with room for one more.
LEMMA NextSize == TypeOK /\ SizeIsRight /\ [Next]_vars => SizeIsRight'
<1> SUFFICES ASSUME TypeOK, SizeIsRight, [Next]_vars PROVE SizeIsRight'
  OBVIOUS
<1> USE DEF SizeIsRight, Waiting, Draining, TypeOK
<1>u. ASSUME UNCHANGED <<size, received, handed, pc>> PROVE SizeIsRight'
  BY <1>u
<1>1. CASE Send \/ RefreshCache \/ Signal \/ RequestTermination \/ StopServing \/ UNCHANGED vars
  BY <1>1, <1>u DEF Send, RefreshCache, Signal, RequestTermination, StopServing, vars, buffers
<1>2. CASE LoopHead
  BY <1>2 DEF LoopHead, AfterFlag, buffers
<1>3. CASE Receive
  <2>1. Len(received') = Len(received) + 1
    BY <1>3 DEF Receive
  <2>2. size' = size + 1 /\ handed' = handed /\ size < Capacity
    BY <1>3 DEF Receive
  <2>3. pc' = IF size' >= Capacity THEN "push" ELSE "head"
    BY <1>3 DEF Receive, Full
  <2>4. QED
    BY <2>1, <2>2, <2>3, CapacityAssumption
<1>4. CASE Disconnected
  BY <1>4 DEF Disconnected, buffers
<1>5. CASE TimerTick
  BY <1>5 DEF TimerTick, AfterTick, buffers
<1>6. CASE Push \/ List
  BY <1>6 DEF Push, List, buffers
<1>7. CASE SpawnAndCleanup
  BY <1>7, CapacityAssumption DEF SpawnAndCleanup, SizeLeft
<1>8. QED
  BY <1>1, <1>2, <1>3, <1>4, <1>5, <1>6, <1>7 DEF Next, Loop

\* The buffer never holds more than the capacity, whatever drains it, and
\* drainer_size counts what the next drain will hand over.
THEOREM SizeStaysRight == Spec => []SizeIsRight
<1>1. Init => SizeIsRight
  BY CapacityAssumption DEF Init, SizeIsRight, Waiting, Draining
<1>2. TypeOK /\ SizeIsRight /\ [Next]_vars => SizeIsRight'
  BY NextSize
<1>3. QED
  BY <1>1, <1>2, DrainerTypeCorrect, PTL DEF Spec

-----------------------------------------------------------------------------
\* The last drain is not followed by a wait.
LastIsLast == last => pc \notin Waiting

\* A loop that is on its last drain does not go back to its head.
LEMMA NextLast == TypeOK /\ LastIsLast /\ [Next]_vars => LastIsLast'
<1> SUFFICES ASSUME TypeOK, LastIsLast, [Next]_vars PROVE LastIsLast'
  OBVIOUS
<1> USE DEF LastIsLast, Waiting, TypeOK
<1>1. CASE Send \/ RefreshCache \/ Signal \/ RequestTermination \/ StopServing \/ UNCHANGED vars
  BY <1>1 DEF Send, RefreshCache, Signal, RequestTermination, StopServing, vars
<1>2. CASE LoopHead
  BY <1>2 DEF LoopHead, AfterFlag
<1>3. CASE Receive \/ TimerTick \/ Disconnected
  BY <1>3 DEF Receive, TimerTick, AfterTick, Disconnected
<1>4. CASE Push \/ List \/ SpawnAndCleanup
  BY <1>4 DEF Push, List, SpawnAndCleanup
<1>5. QED
  BY <1>1, <1>2, <1>3, <1>4 DEF Next, Loop

\* A loop that the flag has ended stays as it is, and a step that ends it on
\* the flag leaves nothing behind.
LEMMA NextFlag ==
  TypeOK /\ SizeIsRight /\ LastIsLast /\ FlagEndsDrained /\ [Next]_vars => FlagEndsDrained'
<1> SUFFICES ASSUME TypeOK, SizeIsRight, LastIsLast, FlagEndsDrained, [Next]_vars,
                    pc' = "stopped", last'
             PROVE  handed' = Len(received')
  BY DEF FlagEndsDrained
<1> USE DEF FlagEndsDrained, SizeIsRight, LastIsLast, Waiting, TypeOK
<1>1. CASE Send \/ RefreshCache \/ Signal \/ RequestTermination \/ StopServing \/ UNCHANGED vars
  BY <1>1 DEF Send, RefreshCache, Signal, RequestTermination, StopServing, vars
<1>2. CASE LoopHead
  BY <1>2 DEF LoopHead, AfterFlag
<1>3. CASE Receive \/ TimerTick \/ Push \/ List
  BY <1>3 DEF Receive, TimerTick, AfterTick, Push, List
<1>4. CASE Disconnected
  BY <1>4 DEF Disconnected
<1>5. CASE SpawnAndCleanup
  BY <1>5 DEF SpawnAndCleanup
<1>6. QED
  BY <1>1, <1>2, <1>3, <1>4, <1>5 DEF Next, Loop

\* When the termination flag ends the loop, every ping it has received has
\* been handed over.
THEOREM FlagDrainsEverything == Spec => []FlagEndsDrained
<1>1. Init => LastIsLast /\ FlagEndsDrained
  BY DEF Init, FlagEndsDrained, LastIsLast
<1>2. TypeOK /\ LastIsLast /\ [Next]_vars => LastIsLast'
  BY NextLast
<1>3. TypeOK /\ SizeIsRight /\ LastIsLast /\ FlagEndsDrained /\ [Next]_vars => FlagEndsDrained'
  BY NextFlag
<1>4. QED
  BY <1>1, <1>2, <1>3, DrainerTypeCorrect, SizeStaysRight, PTL DEF Spec

-----------------------------------------------------------------------------
\* Whichever branch of the select! is taken, a ping is in the channel until the
\* loop has received it.
LEMMA NextKeeps == TypeOK /\ NothingDropped /\ [Next]_vars => NothingDropped'
<1> SUFFICES ASSUME TypeOK, NothingDropped, [Next]_vars PROVE NothingDropped'
  OBVIOUS
<1> USE DEF NothingDropped
<1>0. channel \in Seq(Ping) /\ received \in Seq(Decision) /\ accepted \in Nat
  BY DEF TypeOK
<1>1. CASE Send
  <2>1. PICK place \in Place \cup {Outside} :
          channel' = Append(channel, [id |-> accepted + 1, place |-> place])
    BY <1>1 DEF Send
  <2>2. Len(channel') = Len(channel) + 1
    BY <2>1, <1>0
  <2>3. accepted' = accepted + 1 /\ received' = received
    BY <1>1 DEF Send
  <2>4. QED
    BY <1>0, <2>2, <2>3
<1>2. CASE Receive
  <2>1. Len(received') = Len(received) + 1
    BY <1>0, <1>2 DEF Receive
  <2>2. Len(channel') = Len(channel) - 1
    BY <1>0, <1>2 DEF Receive
  <2>3. accepted' = accepted
    BY <1>2 DEF Receive
  <2>4. QED
    BY <1>0, <2>1, <2>2, <2>3
<1>3. CASE TimerTick
  BY <1>3 DEF TimerTick, CancelledRecv
<1>4. CASE \/ RefreshCache \/ Signal \/ RequestTermination \/ StopServing
          \/ LoopHead \/ Disconnected \/ Push \/ List \/ SpawnAndCleanup
  BY <1>4 DEF RefreshCache, Signal, RequestTermination, StopServing, LoopHead, Disconnected,
              Push, List, SpawnAndCleanup
<1>5. CASE UNCHANGED vars
  BY <1>5 DEF vars
<1>6. QED
  BY <1>1, <1>2, <1>3, <1>4, <1>5 DEF Next, Loop

\* Nothing is lost between the channel and the loop.
THEOREM NothingGetsDropped == Spec => []NothingDropped
<1>1. Init => NothingDropped
  BY DEF Init, NothingDropped
<1>2. TypeOK /\ NothingDropped /\ [Next]_vars => NothingDropped'
  BY NextKeeps
<1>3. QED
  BY <1>1, <1>2, DrainerTypeCorrect, PTL DEF Spec

-----------------------------------------------------------------------------
(* Once and in order.                                                      *)

\* A ping's number is its place among the pings received, and after them come
\* those in the channel.
Numbered ==
  /\ \A n \in DOMAIN received : received[n].id = n
  /\ \A n \in DOMAIN channel : channel[n].id = Len(received) + n

\* The buffered locations are those of pings not handed over, and the geo
\* buckets have at most what has been handed over, until the push.
GeoInv ==
  /\ Rising(geo) /\ Rising(locations)
  /\ \A i \in DOMAIN geo : geo[i] \in DOMAIN received /\ received[geo[i]].located
  /\ \A i \in DOMAIN locations : /\ locations[i] \in DOMAIN received
                                 /\ received[locations[i]].located
                                 /\ locations[i] > handed
  /\ pc \in Waiting \cup {"push"} => \A i \in DOMAIN geo : geo[i] <= handed

\* What the invariants rest on, of the drainer's own.
Sound == TypeOK /\ SizeIsRight /\ NothingDropped /\ Numbered

\* Appending behind two sequences is appending behind the second.
LEMMA AppendBehind ==
  ASSUME NEW S, NEW s \in Seq(S), NEW t \in Seq(S), NEW e \in S
  PROVE  s \o Append(t, e) = Append(s \o t, e)
OBVIOUS

\* A rising sequence goes on rising with a number above all of its own.
LEMMA RisingAppend ==
  ASSUME NEW ids \in Seq(Nat), NEW n \in Nat, Rising(ids), \A i \in DOMAIN ids : ids[i] < n
  PROVE  Rising(Append(ids, n))
BY DEF Rising

\* Two rising sequences, one below a number and one above.
LEMMA RisingConcat ==
  ASSUME NEW s \in Seq(Nat), NEW t \in Seq(Nat), NEW n \in Nat, Rising(s), Rising(t),
         \A i \in DOMAIN s : s[i] <= n, \A i \in DOMAIN t : t[i] > n
  PROVE  Rising(s \o t)
<1> DEFINE st == s \o t
<1>1. Len(st) = Len(s) + Len(t) /\ DOMAIN st = 1 .. Len(s) + Len(t)
      /\ DOMAIN s = 1 .. Len(s) /\ DOMAIN t = 1 .. Len(t) /\ Len(s) \in Nat /\ Len(t) \in Nat
  OBVIOUS
<1>2. ASSUME NEW i \in DOMAIN st
      PROVE  st[i] = IF i <= Len(s) THEN s[i] ELSE t[i - Len(s)]
  OBVIOUS
<1>3. SUFFICES ASSUME NEW i \in DOMAIN st, NEW j \in DOMAIN st, i < j
               PROVE  st[i] < st[j]
  BY DEF Rising
<1>4. st[i] = (IF i <= Len(s) THEN s[i] ELSE t[i - Len(s)])
      /\ st[j] = (IF j <= Len(s) THEN s[j] ELSE t[j - Len(s)])
  BY <1>2
<1> HIDE DEF st
<1>5. CASE j <= Len(s)
  BY <1>1, <1>3, <1>4, <1>5 DEF Rising
<1>6. CASE i <= Len(s) /\ j > Len(s)
  <2>1. i \in DOMAIN s /\ j - Len(s) \in DOMAIN t
    BY <1>1, <1>6
  <2>2. s[i] \in Nat /\ t[j - Len(s)] \in Nat /\ s[i] <= n /\ t[j - Len(s)] > n
    BY <2>1
  <2> QED BY <1>1, <1>4, <1>6, <2>2
<1>7. CASE i > Len(s) /\ j > Len(s)
  <2>1. i - Len(s) \in DOMAIN t /\ j - Len(s) \in DOMAIN t /\ i - Len(s) < j - Len(s)
    BY <1>1, <1>3, <1>7
  <2> QED BY <1>1, <1>4, <1>7, <2>1 DEF Rising
<1> QED BY <1>1, <1>3, <1>5, <1>6, <1>7

LEMMA NextNumbered == TypeOK /\ NothingDropped /\ Numbered /\ [Next]_vars => Numbered'
<1> SUFFICES ASSUME TypeOK, NothingDropped, Numbered, [Next]_vars PROVE Numbered'
  OBVIOUS
<1>1. channel \in Seq(Ping) /\ received \in Seq(Decision) /\ accepted \in Nat
      /\ accepted = Len(received) + Len(channel)
  BY DEF TypeOK, NothingDropped
<1>2. CASE UNCHANGED <<channel, received>>
  BY <1>2 DEF Numbered
<1>3. CASE Send
  <2>1. PICK place \in Place \cup {Outside} :
          channel' = Append(channel, [id |-> accepted + 1, place |-> place])
    BY <1>3 DEF Send
  <2>2. received' = received
    BY <1>3 DEF Send
  <2>3. ASSUME NEW n \in DOMAIN channel' PROVE channel'[n].id = Len(received) + n
    <3>1. n \in 1 .. Len(channel) + 1
      BY <1>1, <2>1
    <3>2. CASE n <= Len(channel)
      BY <1>1, <2>1, <3>1, <3>2 DEF Numbered
    <3>3. CASE n = Len(channel) + 1
      BY <1>1, <2>1, <3>3
    <3> QED BY <1>1, <3>1, <3>2, <3>3
  <2> QED BY <2>2, <2>3 DEF Numbered
<1>4. CASE Receive
  <2>1. channel # <<>> /\ channel' = Tail(channel) /\ received' = Append(received, Decide(channel[1]))
    BY <1>4 DEF Receive
  <2>2. channel[1].id = Len(received) + 1
    BY <1>1, <2>1 DEF Numbered
  <2>3. Decide(channel[1]).id = Len(received) + 1
    BY <2>2 DEF Decide
  <2>4. Decide(channel[1]) \in Decision
    <3>1. channel[1] \in Ping
      BY <1>1, <2>1
    <3> QED BY <3>1, DecideType
  <2>5. ASSUME NEW n \in DOMAIN received' PROVE received'[n].id = n
    BY <1>1, <2>1, <2>3, <2>4 DEF Numbered
  <2>6. ASSUME NEW n \in DOMAIN channel' PROVE channel'[n].id = Len(received') + n
    <3>1. n + 1 \in DOMAIN channel /\ channel'[n] = channel[n + 1] /\ n \in Nat
      BY <1>1, <2>1
    <3>2. channel[n + 1].id = Len(received) + (n + 1)
      BY <3>1 DEF Numbered
    <3>3. Len(received') = Len(received) + 1
      BY <1>1, <2>1, <2>4
    <3> QED BY <1>1, <3>1, <3>2, <3>3
  <2> QED BY <2>5, <2>6 DEF Numbered
<1>5. CASE TimerTick
  BY <1>2, <1>5 DEF TimerTick, CancelledRecv
<1>6. CASE \/ RefreshCache \/ Signal \/ RequestTermination \/ StopServing
          \/ LoopHead \/ Disconnected \/ Push \/ List \/ SpawnAndCleanup
  BY <1>2, <1>6 DEF RefreshCache, Signal, RequestTermination, StopServing, LoopHead, Disconnected,
              Push, List, SpawnAndCleanup
<1>7. CASE UNCHANGED vars
  BY <1>2, <1>7 DEF vars
<1> QED BY <1>3, <1>4, <1>5, <1>6, <1>7 DEF Next, Loop

\* Only a ping received and the spawn move the actions: the first appends one,
\* the second keeps the actions spawned and buffered as they are together.
LEMMA NextActions ==
  TypeOK /\ Numbered /\ ActionsOnceInOrder /\ [Next]_vars => ActionsOnceInOrder'
<1> SUFFICES ASSUME TypeOK, Numbered, ActionsOnceInOrder, [Next]_vars PROVE ActionsOnceInOrder'
  OBVIOUS
<1> DEFINE taken == spawned \o actions
<1>1. /\ spawned \in Seq(QueueAction) /\ actions \in Seq(QueueAction)
      /\ received \in Seq(Decision) /\ channel \in Seq(Ping)
  BY DEF TypeOK
<1>2. taken \in Seq(QueueAction)
  BY <1>1
<1>3. CASE taken' = taken /\ received' = received
  BY <1>3 DEF ActionsOnceInOrder
<1>4. CASE SpawnAndCleanup
  <2>1. taken' = (spawned \o actions) \o <<>> /\ received' = received
    BY <1>4 DEF SpawnAndCleanup, ActionsLeft
  <2>2. taken' = taken
    BY <1>1, <2>1
  <2> QED BY <1>3, <2>1, <2>2
<1>5. CASE Receive
  <2> DEFINE p == channel[1]
             d == Decide(p)
             e == [id |-> p.id, kind |-> d.kind]
             n == Len(received) + 1
  <2>1. channel # <<>> /\ received' = Append(received, d) /\ spawned' = spawned
        /\ actions' = IF d.kind # "none" THEN Append(actions, e) ELSE actions
    BY <1>5 DEF Receive, outputs
  <2>2. p \in Ping /\ d \in Decision /\ (d.kind # "none" => e \in QueueAction)
    BY <1>1, <2>1, DecideType
  <2>3. p.id = n /\ d.id = n /\ n \in Nat
    BY <1>1, <2>1 DEF Numbered, Decide
  <2>4. /\ DOMAIN received = 1 .. n - 1 /\ DOMAIN received' = 1 .. n
        /\ \A m \in DOMAIN received : received'[m] = received[m]
        /\ received'[n] = d /\ n \in DOMAIN received'
    BY <1>1, <2>1, <2>2
  <2>5. \A i \in DOMAIN taken : \E m \in DOMAIN received :
          taken[i] = [id |-> received[m].id, kind |-> received[m].kind]
    BY DEF ActionsOnceInOrder
  <2>6. \A m \in DOMAIN received : received[m].kind # "none" =>
          \E i \in DOMAIN taken : taken[i].id = received[m].id
    BY DEF ActionsOnceInOrder
  <2>7. \A i, j \in DOMAIN taken : i < j => taken[i].id < taken[j].id
    BY DEF ActionsOnceInOrder, Rising, Ids
  <2>8. \A i \in DOMAIN taken : taken[i].id < n
    <3>1. ASSUME NEW i \in DOMAIN taken PROVE taken[i].id < n
      <4>1. PICK m \in DOMAIN received :
              taken[i] = [id |-> received[m].id, kind |-> received[m].kind]
        BY <2>5
      <4>2. taken[i].id = m /\ m \in 1 .. n - 1
        BY <2>4, <4>1 DEF Numbered
      <4> QED BY <2>3, <4>2
    <3> QED BY <3>1
  <2> HIDE DEF taken, p, d, e, n
  <2>9. CASE d.kind = "none"
    <3>1. taken' = taken
      BY <2>1, <2>9 DEF taken
    <3>2. \A i \in DOMAIN taken : \E m \in DOMAIN received' :
            taken[i] = [id |-> received'[m].id, kind |-> received'[m].kind]
      BY <2>3, <2>4, <2>5
    <3>3. \A m \in DOMAIN received' : received'[m].kind # "none" =>
            \E i \in DOMAIN taken : taken[i].id = received'[m].id
      BY <2>3, <2>4, <2>6, <2>9
    <3>4. Rising(Ids(taken))
      BY DEF ActionsOnceInOrder, taken
    <3> QED BY <3>1, <3>2, <3>3, <3>4 DEF ActionsOnceInOrder, taken
  <2>10. CASE d.kind # "none"
    <3> DEFINE next == Append(taken, e)
    <3>1. e \in QueueAction /\ e.id = n /\ e.kind = d.kind
      BY <2>2, <2>3, <2>10 DEF e
    <3>2. taken' = next
      <4>1. taken' = spawned \o Append(actions, e)
        BY <2>1, <2>10 DEF taken
      <4> QED BY <1>1, <3>1, <4>1, AppendBehind DEF taken
    <3>3. /\ DOMAIN next = 1 .. Len(taken) + 1 /\ DOMAIN taken = 1 .. Len(taken)
          /\ Len(taken) \in Nat /\ next[Len(taken) + 1] = e
          /\ \A i \in DOMAIN taken : next[i] = taken[i]
      BY <1>2, <3>1
    <3> HIDE DEF next
    <3>4. \A i, j \in DOMAIN next : i < j => next[i].id < next[j].id
      BY <2>3, <2>7, <2>8, <3>1, <3>3
    <3>5. Rising(Ids(next))
      BY <3>4 DEF Rising, Ids
    <3>6. \A i \in DOMAIN next : \E m \in DOMAIN received' :
            next[i] = [id |-> received'[m].id, kind |-> received'[m].kind]
      <4>1. next[Len(taken) + 1] = [id |-> received'[n].id, kind |-> received'[n].kind]
        BY <2>3, <2>4, <3>1, <3>3 DEF e
      <4>2. ASSUME NEW i \in DOMAIN taken
            PROVE  \E m \in DOMAIN received' :
                     next[i] = [id |-> received'[m].id, kind |-> received'[m].kind]
        <5>1. PICK m \in DOMAIN received : taken[i] = [id |-> received[m].id, kind |-> received[m].kind]
          BY <2>5
        <5>2. m \in DOMAIN received' /\ received'[m] = received[m]
          BY <2>3, <2>4
        <5> QED BY <3>3, <5>1, <5>2
      <4>3. \A i \in DOMAIN next : i \in DOMAIN taken \/ i = Len(taken) + 1
        BY <3>3
      <4> QED BY <2>4, <4>1, <4>2, <4>3
    <3>7. \A m \in DOMAIN received' : received'[m].kind # "none" =>
            \E i \in DOMAIN next : next[i].id = received'[m].id
      <4>1. Len(taken) + 1 \in DOMAIN next /\ next[Len(taken) + 1].id = received'[n].id
        BY <2>3, <2>4, <3>1, <3>3
      <4>2. ASSUME NEW m \in DOMAIN received, received[m].kind # "none"
            PROVE  \E i \in DOMAIN next : next[i].id = received'[m].id
        <5>1. PICK i \in DOMAIN taken : taken[i].id = received[m].id
          BY <2>6, <4>2
        <5> QED BY <2>4, <3>3, <5>1
      <4>3. \A m \in DOMAIN received' : m = n \/ (m \in DOMAIN received /\ received'[m] = received[m])
        BY <2>3, <2>4
      <4> QED BY <4>1, <4>2, <4>3
    <3> QED BY <3>2, <3>5, <3>6, <3>7 DEF ActionsOnceInOrder, taken
  <2> QED BY <2>9, <2>10
<1>6. CASE \/ Send \/ RefreshCache \/ Signal \/ RequestTermination \/ StopServing
          \/ LoopHead \/ Disconnected \/ TimerTick \/ Push \/ List \/ UNCHANGED vars
  BY <1>3, <1>6 DEF Send, RefreshCache, Signal, RequestTermination, StopServing, LoopHead,
              Disconnected, TimerTick, Push, List, vars, outputs, buffers
<1> QED BY <1>4, <1>5, <1>6 DEF Next, Loop

\* A push puts the buffered locations behind those of earlier drains.
LEMMA NextGeo == Sound /\ GeoInv /\ [Next]_vars => GeoInv'
<1> SUFFICES ASSUME Sound, GeoInv, [Next]_vars PROVE GeoInv'
  OBVIOUS
<1>1. /\ geo \in Seq(Nat) /\ locations \in Seq(Nat) /\ received \in Seq(Decision)
      /\ channel \in Seq(Ping) /\ handed \in Nat /\ size \in Nat
      /\ handed + size = Len(received)
  BY DEF Sound, TypeOK, SizeIsRight
<1> USE DEF Waiting
<1>2. CASE UNCHANGED <<geo, locations, received, handed>> /\ (pc' \in Waiting \cup {"push"} => pc \in Waiting \cup {"push"})
  BY <1>2 DEF GeoInv
<1>3. CASE Receive
  <2> DEFINE p == channel[1]
             d == Decide(p)
             n == Len(received) + 1
  <2>1. /\ channel # <<>> /\ received' = Append(received, d) /\ pc = "select"
        /\ UNCHANGED <<geo, handed>>
        /\ locations' = IF d.located THEN Append(locations, p.id) ELSE locations
    BY <1>3 DEF Receive, outputs
  <2>2. d \in Decision
    <3>1. p \in Ping
      BY <1>1, <2>1
    <3> QED BY <3>1, DecideType
  <2>3. p.id = n /\ n \in Nat /\ n > handed
    BY <1>1, <2>1 DEF Sound, Numbered
  <2>4. /\ DOMAIN received = 1 .. n - 1 /\ DOMAIN received' = 1 .. n
        /\ \A m \in DOMAIN received : received'[m] = received[m]
        /\ received'[n] = d
    BY <1>1, <2>1, <2>2
  <2> HIDE DEF p, d, n
  <2>5. /\ \A i \in DOMAIN geo : geo[i] \in DOMAIN received' /\ received'[geo[i]].located
        /\ \A i \in DOMAIN geo : geo[i] <= handed
        /\ Rising(geo)
    BY <2>1, <2>3, <2>4 DEF GeoInv
  <2>6. \A i \in DOMAIN locations : /\ locations[i] \in DOMAIN received'
                                    /\ received'[locations[i]].located
                                    /\ locations[i] > handed /\ locations[i] < n
    BY <2>3, <2>4 DEF GeoInv
  <2>7. CASE ~d.located
    BY <2>1, <2>5, <2>6, <2>7 DEF GeoInv
  <2>8. CASE d.located
    <3>1. locations' = Append(locations, n)
      <4>1. locations' = Append(locations, p.id)
        BY <2>1, <2>8
      <4> QED BY <2>3, <4>1
    <3>2. Rising(locations')
      BY <1>1, <2>3, <2>6, <3>1, RisingAppend DEF GeoInv
    <3>3. \A i \in DOMAIN locations' : \/ i \in DOMAIN locations /\ locations'[i] = locations[i]
                                      \/ locations'[i] = n
      BY <1>1, <2>3, <3>1
    <3>4. n \in DOMAIN received' /\ received'[n].located
      <4>1. n \in DOMAIN received'
        BY <1>1, <2>3, <2>4
      <4>2. received'[n] = d
        BY <2>4
      <4> QED BY <2>8, <4>1, <4>2, Zenon
    <3> QED BY <2>1, <2>3, <2>5, <2>6, <3>2, <3>3, <3>4 DEF GeoInv
  <2> QED BY <2>7, <2>8
<1>4. CASE Push
  <2>1. /\ pc = "push" /\ pc' = "list" /\ UNCHANGED <<locations, received, handed>>
        /\ geo' = geo \o locations \/ geo' = geo
    BY <1>4 DEF Push, buffers
  <2>2. CASE geo' = geo
    BY <2>1, <2>2 DEF GeoInv
  <2>3. CASE geo' = geo \o locations
    <3>1. Rising(geo')
      BY <1>1, <2>1, <2>3, RisingConcat DEF GeoInv
    <3>2. ASSUME NEW i \in DOMAIN geo'
          PROVE  \/ \E j \in DOMAIN geo : geo'[i] = geo[j]
                 \/ \E j \in DOMAIN locations : geo'[i] = locations[j]
      <4>1. CASE i <= Len(geo)
        <5>1. i \in DOMAIN geo /\ geo'[i] = geo[i]
          BY <1>1, <2>3, <4>1
        <5> QED BY <5>1
      <4>2. CASE i > Len(geo)
        <5>1. i - Len(geo) \in DOMAIN locations /\ geo'[i] = locations[i - Len(geo)]
          BY <1>1, <2>3, <4>2
        <5> QED BY <5>1
      <4>3. i \in Int /\ Len(geo) \in Nat
        BY <1>1, <2>3
      <4> QED BY <4>1, <4>2, <4>3
    <3> QED BY <2>1, <3>1, <3>2 DEF GeoInv
  <2> QED BY <2>1, <2>2, <2>3
<1>5. CASE SpawnAndCleanup
  <2>1. /\ locations' = <<>> /\ handed' = Len(received) /\ UNCHANGED <<geo, received>>
    BY <1>1, <1>5 DEF SpawnAndCleanup, LocationsLeft
  <2>2. Rising(<<>>)
    BY DEF Rising
  <2>3. \A i \in DOMAIN geo : geo[i] <= Len(received)
    BY <1>1 DEF GeoInv
  <2> QED BY <2>1, <2>2, <2>3 DEF GeoInv
<1>6. CASE \/ Send \/ RefreshCache \/ Signal \/ RequestTermination \/ StopServing
          \/ LoopHead \/ Disconnected \/ TimerTick \/ List \/ UNCHANGED vars
  BY <1>2, <1>6 DEF Send, RefreshCache, Signal, RequestTermination, StopServing, LoopHead,
     AfterFlag, Disconnected, TimerTick, AfterTick, List, vars, outputs, buffers
<1> QED BY <1>3, <1>4, <1>5, <1>6 DEF Next, Loop

\* Every queue action decided is in exactly one task or in the buffer, in the
\* order of the pings; the geo buckets have each ping at most once, in order,
\* and none that is kept out of them: with pushes that fail, and for every
\* capacity and any number of pings.
THEOREM HandedOnceInOrder == Spec => []OnceInOrder
<1>1. Init => Numbered /\ ActionsOnceInOrder /\ GeoInv
  BY DEF Init, Numbered, ActionsOnceInOrder, GeoInv, Rising, Ids
<1>2. Sound /\ ActionsOnceInOrder /\ GeoInv /\ [Next]_vars
        => Numbered' /\ ActionsOnceInOrder' /\ GeoInv'
  BY NextNumbered, NextActions, NextGeo DEF Sound
<1>3. ActionsOnceInOrder /\ GeoInv => OnceInOrder
  BY DEF OnceInOrder, GeoInv, GeoOnceInOrder
<1>4. Spec => [](TypeOK /\ SizeIsRight /\ NothingDropped)
  BY DrainerTypeCorrect, SizeStaysRight, NothingGetsDropped, PTL
<1>5. TypeOK /\ SizeIsRight /\ NothingDropped /\ Numbered => Sound
  BY DEF Sound
<1> QED BY <1>1, <1>2, <1>3, <1>4, <1>5, PTL DEF Spec
=============================================================================
