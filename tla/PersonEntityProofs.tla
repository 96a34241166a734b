------------------------- MODULE PersonEntityProofs -------------------------
(* Types of the rider's entities, that what has ended stays ended, that     *)
(* what is live is listed and found, and that pings keep their distance and *)
(* tokens their order, for any identifiers and any number of calls and      *)
(* traces under way.                                                        *)
EXTENDS PersonEntity, TLAPS

-----------------------------------------------------------------------------
(* Types. *)

AnyEntry == [id : Ids \cup {"none"}, pinged : BOOLEAN, configs : SUBSET Config]
Entities == {f \in [Types -> AnyEntry] : \A t \in Types : IsEntry(t, f[t])}
Map == [known : BOOLEAN, entities : Entities]

UpsertCall == [pc : {"idle", "read", "write", "bind", "clean"},
               op : {"none", "create", "start", "end"}, type : Types,
               id : Ids \cup {"none"}, config : BOOLEAN, seen : Map]
TraceTask == [pc : {"idle", "start", "send", "refresh", "resend", "read", "write"},
              next : {"idle", "resend"}, config : Config \cup {NoConfig},
              at : 0..MaxTime, seen : Map]
Past == [used : SUBSET Ids, ended : SUBSET Ids, sent : [Ids -> {Never} \cup (0..MaxTime)],
         begun : [Ids -> {Never} \cup (0..MaxTime)]]

StoreTyped ==
  /\ setting \in Settings
  /\ now \in 0..MaxTime
  /\ token \in 0..MaxToken
  /\ map \in Map /\ (~map.known => map = NoMap)
  /\ bound \subseteq Ids
  /\ located \in BOOLEAN
  /\ update \in {"idle", "store", "spawn"}
  /\ live \in [Types -> Ids \cup {"none"}]
  /\ \A t \in Types : live[t] \in IdsOf(t) \cup {"none"}
  /\ past \in Past
  /\ budget \in [calls : Nat, updates : Nat, faults : Nat]

\* A call under way has an identifier of its type.
CallsTyped ==
  /\ call \in [Callers -> UpsertCall]
  /\ \A c \in Callers : ~Idle(c) => call[c].id \in IdsOf(call[c].type)

\* A trace under way holds a configuration.
TracesTyped ==
  /\ trace \in [Tasks -> TraceTask]
  /\ \A k \in Tasks : trace[k].pc # "idle" => trace[k].config \in Config

PersonType == StoreTyped /\ CallsTyped /\ TracesTyped

LEMMA TypeNames ==
  /\ "ride" \in Types /\ "sos" \in Types
  /\ \A t \in Types : IdsOf(t) \subseteq Ids
BY DEF Types, IdsOf, Ids

LEMMA NoMapType == NoMap \in Map
<1>1. NoEntry \in AnyEntry
  BY DEF NoEntry, AnyEntry
<1>2. \A t \in Types : IsEntry(t, NoEntry)
  BY DEF NoEntry, IsEntry
<1>3. [t \in Types |-> NoEntry] \in Entities
  BY <1>1, <1>2 DEF Entities
<1>4. QED
  BY <1>3 DEF NoMap, Map

LEMMA EntryOfMap ==
  ASSUME NEW m \in Map, NEW t \in Types
  PROVE  m.entities \in [Types -> AnyEntry] /\ m.entities[t] \in AnyEntry
         /\ IsEntry(t, m.entities[t])
BY DEF Map, Entities

LEMMA ChangedType ==
  ASSUME NEW m \in Map, NEW t \in Types, NEW e \in AnyEntry, IsEntry(t, e)
  PROVE  [m.entities EXCEPT ![t] = e] \in Entities
<1>1. m.entities \in [Types -> AnyEntry] /\ \A u \in Types : IsEntry(u, m.entities[u])
  BY DEF Map, Entities
<1>2. QED
  BY <1>1 DEF Entities

LEMMA InsertedType ==
  ASSUME NEW m \in Map, NEW t \in Types, NEW e \in AnyEntry, IsEntry(t, e)
  PROVE  Inserted(m, t, e) \in Map
BY ChangedType DEF Inserted, Map

LEMMA RemovedType ==
  ASSUME NEW m \in Map, NEW t \in Types
  PROVE  Removed(m, t) \in Map
<1>1. NoEntry \in AnyEntry /\ IsEntry(t, NoEntry)
  BY DEF NoEntry, AnyEntry, IsEntry
<1>2. [m.entities EXCEPT ![t] = NoEntry] \in Entities
  BY <1>1, ChangedType
<1>3. [m EXCEPT !.entities[t] = NoEntry] \in Map
  BY <1>2 DEF Map
<1>4. QED
  BY <1>3, NoMapType DEF Removed

LEMMA ReplacedType ==
  ASSUME NEW t \in Types, NEW e \in AnyEntry, IsEntry(t, e), NEW config \in Config
  PROVE  Replaced(e, config) \in AnyEntry /\ IsEntry(t, Replaced(e, config))
         /\ Replaced(e, config).id = e.id
<1>1. CASE e = NoEntry
  BY <1>1 DEF Replaced
<1>2. CASE e # NoEntry
  <2>1. Replaced(e, config) = [e EXCEPT !.configs = {c \in e.configs : c.id # config.id} \cup {config}]
    BY <1>2 DEF Replaced
  <2>2. QED
    BY <2>1 DEF AnyEntry, IsEntry
<1>3. QED
  BY <1>1, <1>2

LEMMA WithConfigType ==
  ASSUME NEW m \in Map, NEW t \in Types, NEW config \in Config
  PROVE  /\ WithConfig(m, t, config) \in Map
         /\ \A u \in Types : WithConfig(m, t, config).entities[u].id = m.entities[u].id
<1> DEFINE e == Replaced(m.entities[t], config)
<1>1. m.entities[t] \in AnyEntry /\ IsEntry(t, m.entities[t]) /\ m.entities \in [Types -> AnyEntry]
  BY EntryOfMap
<1>2. e \in AnyEntry /\ IsEntry(t, e) /\ e.id = m.entities[t].id
  BY <1>1, ReplacedType
<1>3. [m.entities EXCEPT ![t] = e] \in Entities
  BY <1>2, ChangedType
<1>4. WithConfig(m, t, config) = [known |-> TRUE, entities |-> [m.entities EXCEPT ![t] = e]]
  BY DEF WithConfig
<1> HIDE DEF e
<1>5. QED
  BY <1>1, <1>2, <1>3, <1>4 DEF Map

LEMMA NewEntryType ==
  ASSUME PersonType, NEW c \in Callers, ~Idle(c)
  PROVE  Entry(call[c]) \in AnyEntry /\ IsEntry(call[c].type, Entry(call[c]))
<1>1. /\ call[c] \in UpsertCall
      /\ call[c].id \in IdsOf(call[c].type) /\ call[c].type \in Types
  BY DEF PersonType, CallsTyped, UpsertCall
<1>2. ConfigsOf(call[c]) \subseteq Config
  BY <1>1, TypeNames DEF ConfigsOf, Config, PersonType, StoreTyped
<1> DEFINE t == call[c].type
           e == Entry(call[c])
<1>3. /\ e.id = call[c].id
      /\ e.pinged = (call[c].op = "start" /\ t = "sos")
      /\ e.configs = ConfigsOf(call[c])
      /\ e = [id |-> e.id, pinged |-> e.pinged, configs |-> e.configs]
  BY DEF Entry
<1>4. e.pinged \in BOOLEAN /\ (e.pinged => t = "sos")
  BY <1>3, Zenon
<1>5. e.id \in IdsOf(t) /\ IdsOf(t) \subseteq Ids
  BY <1>1, <1>3, TypeNames
<1> HIDE DEF e
<1>6. e \in AnyEntry
  BY <1>2, <1>3, <1>4, <1>5 DEF AnyEntry
<1>7. IsEntry(t, e)
  BY <1>2, <1>3, <1>4, <1>5 DEF IsEntry
<1>8. QED
  BY <1>6, <1>7 DEF e

-----------------------------------------------------------------------------
(* Steps. *)

LEMMA TypeInit == Init => PersonType
<1> SUFFICES ASSUME Init PROVE PersonType
  OBVIOUS
<1> USE BoundsAssumption, IdsAssumption
<1>1. NoCall \in UpsertCall /\ NoCall.pc = "idle"
  BY NoMapType, TypeNames DEF NoCall, UpsertCall
<1>2. NoTrace \in TraceTask /\ NoTrace.pc = "idle"
  BY NoMapType DEF NoTrace, TraceTask
<1>3. CallsTyped
  BY <1>1 DEF Init, CallsTyped, Idle
<1>4. TracesTyped
  BY <1>2 DEF Init, TracesTyped
<1>5. past \in Past
  BY DEF Init, Past
<1>a. setting \in Settings /\ now \in 0..MaxTime /\ token \in 0..MaxToken
  BY DEF Init
<1>b. map \in Map /\ (~map.known => map = NoMap)
  BY NoMapType DEF Init
<1>c. bound \subseteq Ids /\ located \in BOOLEAN /\ update \in {"idle", "store", "spawn"}
  BY DEF Init
<1>d. live \in [Types -> Ids \cup {"none"}] /\ \A t \in Types : live[t] \in IdsOf(t) \cup {"none"}
  BY DEF Init
<1>e. budget \in [calls : Nat, updates : Nat, faults : Nat]
  BY DEF Init
<1>6. StoreTyped
  BY <1>5, <1>a, <1>b, <1>c, <1>d, <1>e DEF StoreTyped
<1>7. QED
  BY <1>3, <1>4, <1>6 DEF PersonType

\* A call is written with a record of its type.
LEMMA CallWritten ==
  ASSUME CallsTyped, NEW c \in Callers, NEW r \in UpsertCall,
         r.pc # "idle" => r.id \in IdsOf(r.type),
         call' = [call EXCEPT ![c] = r]
  PROVE  CallsTyped'
BY DEF CallsTyped, Idle

LEMMA TraceWritten ==
  ASSUME TracesTyped, NEW k \in Tasks, NEW r \in TraceTask,
         r.pc # "idle" => r.config \in Config,
         trace' = [trace EXCEPT ![k] = r]
  PROVE  TracesTyped'
BY DEF TracesTyped

LEMMA NoCallType == NoCall \in UpsertCall /\ NoCall.pc = "idle"
BY NoMapType, TypeNames DEF NoCall, UpsertCall

LEMMA NoTraceType == NoTrace \in TraceTask /\ NoTrace.pc = "idle"
BY NoMapType, BoundsAssumption DEF NoTrace, TraceTask

LEMMA StoreStays ==
  ASSUME StoreTyped,
         UNCHANGED <<setting, now, token, map, bound, located, update, live, past, budget>>
  PROVE  StoreTyped'
BY DEF StoreTyped

LEMMA CallsStay == CallsTyped /\ UNCHANGED call => CallsTyped'
BY DEF CallsTyped, Idle

LEMMA TracesStay == TracesTyped /\ UNCHANGED trace => TracesTyped'
BY DEF TracesTyped

\* A call begins.
LEMMA TypeBegin ==
  ASSUME PersonType, NEW c \in Callers, NEW t \in Types, NEW i \in IdsOf(t),
         NEW op \in {"create", "start", "end"}, NEW config \in BOOLEAN,
         Begin(c, t, i, op, config),
         live' \in [Types -> Ids \cup {"none"}],
         \A u \in Types : live'[u] \in IdsOf(u) \cup {"none"}
  PROVE  PersonType'
<1> DEFINE r == [NoCall EXCEPT !.pc = "read", !.op = op, !.type = t, !.id = i, !.config = config]
<1>1. r \in UpsertCall /\ r.pc = "read" /\ r.id = i /\ r.type = t
  BY TypeNames, NoMapType DEF NoCall, UpsertCall
<1>2. call' = [call EXCEPT ![c] = r]
  BY DEF Begin
<1> HIDE DEF r
<1>3. CallsTyped'
  BY <1>1, <1>2, CallWritten DEF PersonType
<1>4. past' \in Past
  BY TypeNames DEF Begin, PersonType, StoreTyped, Past
<1>5. budget' \in [calls : Nat, updates : Nat, faults : Nat]
  BY DEF Begin, PersonType, StoreTyped
<1>6. UNCHANGED <<setting, now, token, map, bound, located, update, trace>>
  BY DEF Begin
<1>7. StoreTyped'
  BY <1>4, <1>5, <1>6 DEF PersonType, StoreTyped
<1>8. QED
  BY <1>3, <1>6, <1>7, TracesStay DEF PersonType

LEMMA TypeCall ==
  ASSUME PersonType, NEW c \in Callers, Call(c)
  PROVE  PersonType'
<1> USE DEF PersonType
<1>c. call[c] \in UpsertCall
  BY DEF CallsTyped
<1>1. ASSUME NEW t \in Types, NEW i \in Ids, EntityStart(c, t, i) PROVE PersonType'
  <2>1. PICK config \in BOOLEAN : Begin(c, t, i, "start", config)
    BY <1>1 DEF EntityStart
  <2>2. i \in IdsOf(t) /\ live' = live
    BY <1>1 DEF EntityStart
  <2>3. QED
    BY <2>1, <2>2, TypeBegin DEF StoreTyped
<1>2. ASSUME NEW i \in Rides, EntityCreate(c, i) PROVE PersonType'
  <2>1. Begin(c, "ride", i, "create", FALSE) /\ live' = live /\ i \in IdsOf("ride")
    BY <1>2 DEF EntityCreate, IdsOf
  <2>2. QED
    BY <2>1, TypeBegin, TypeNames DEF StoreTyped
<1>3. ASSUME NEW t \in Types, EntityEnd(c, t) PROVE PersonType'
  <2>1. Begin(c, t, live[t], "end", FALSE) /\ live' = [live EXCEPT ![t] = "none"]
        /\ live[t] \in IdsOf(t)
    BY <1>3 DEF EntityEnd, StoreTyped
  <2>2. live' \in [Types -> Ids \cup {"none"}] /\ \A u \in Types : live'[u] \in IdsOf(u) \cup {"none"}
    BY <2>1 DEF StoreTyped
  <2>3. QED
    BY <2>1, <2>2, TypeBegin
<1>4. CASE ReadMap(c)
  <2> DEFINE r == [call[c] EXCEPT !.pc = "write", !.seen = map]
  <2>1. call' = [call EXCEPT ![c] = r] /\ call[c].pc = "read"
    BY <1>4 DEF ReadMap
  <2>2. r \in UpsertCall /\ r.pc = "write" /\ r.id = call[c].id /\ r.type = call[c].type
    BY <1>c DEF UpsertCall, StoreTyped
  <2>3. call[c].id \in IdsOf(call[c].type)
    BY <2>1 DEF CallsTyped, Idle
  <2> HIDE DEF r
  <2>4. CallsTyped'
    BY <2>1, <2>2, <2>3, CallWritten
  <2>5. QED
    BY <1>4, <2>4, StoreStays, TracesStay DEF ReadMap
<1>5. CASE AddEntity(c)
  <2> DEFINE r == [call[c] EXCEPT !.pc = "bind", !.seen = NoMap]
  <2>1. call' = [call EXCEPT ![c] = r] /\ call[c].pc = "write"
    BY <1>5 DEF AddEntity
  <2>2. r \in UpsertCall /\ r.pc = "bind" /\ r.id = call[c].id /\ r.type = call[c].type
    BY <1>c, NoMapType DEF UpsertCall
  <2>3. call[c].id \in IdsOf(call[c].type) /\ ~Idle(c)
    BY <2>1 DEF CallsTyped, Idle
  <2> HIDE DEF r
  <2>4. CallsTyped'
    BY <2>1, <2>2, <2>3, CallWritten
  <2>5. map' \in Map /\ map'.known
    <3>1. map' = Inserted(call[c].seen, call[c].type, Entry(call[c]))
      BY <1>5 DEF AddEntity
    <3>2. map' \in Map
      BY <1>c, <2>3, <3>1, NewEntryType, InsertedType DEF UpsertCall
    <3>3. QED
      BY <3>1, <3>2 DEF Inserted
  <2>6. UNCHANGED <<setting, now, token, bound, located, update, trace, live, past, budget>>
    BY <1>5 DEF AddEntity
  <2>7. StoreTyped'
    BY <2>5, <2>6 DEF StoreTyped
  <2>8. QED
    BY <2>4, <2>6, <2>7, TracesStay
<1>6. CASE BindPerson(c)
  <2>1. call[c].id \in IdsOf(call[c].type) /\ call[c].type \in Types
    BY <1>6, <1>c DEF CallsTyped, Idle, BindPerson, UpsertCall
  <2>2. bound' \subseteq Ids
    BY <1>6, <2>1, TypeNames DEF BindPerson, Bound, StoreTyped
  <2>3. live' = [live EXCEPT ![call[c].type] = call[c].id]
    BY <1>6 DEF BindPerson
  <2>4. live' \in [Types -> Ids \cup {"none"}] /\ \A u \in Types : live'[u] \in IdsOf(u) \cup {"none"}
    BY <2>1, <2>3, TypeNames DEF StoreTyped
  <2>5. UNCHANGED <<setting, now, token, map, located, update, trace, past, budget>>
    BY <1>6 DEF BindPerson
  <2>6. StoreTyped'
    BY <2>2, <2>4, <2>5 DEF StoreTyped
  <2>7. CallsTyped'
    BY <1>6, NoCallType, CallWritten DEF BindPerson
  <2>8. QED
    BY <2>5, <2>6, <2>7, TracesStay
<1>7. CASE RemoveEntity(c)
  <2> DEFINE r == [call[c] EXCEPT !.pc = "clean", !.seen = NoMap]
  <2>1. call' = [call EXCEPT ![c] = r] /\ call[c].pc = "write"
    BY <1>7 DEF RemoveEntity
  <2>2. r \in UpsertCall /\ r.pc = "clean" /\ r.id = call[c].id /\ r.type = call[c].type
    BY <1>c, NoMapType DEF UpsertCall
  <2>3. call[c].id \in IdsOf(call[c].type)
    BY <2>1 DEF CallsTyped, Idle
  <2> HIDE DEF r
  <2>4. CallsTyped'
    BY <2>1, <2>2, <2>3, CallWritten
  <2>5. UNCHANGED <<setting, now, token, bound, located, update, trace, live, past, budget>>
    BY <1>7 DEF RemoveEntity
  <2>6. map' \in Map /\ (~map'.known => map' = NoMap)
    <3>1. CASE ~call[c].seen.known
      BY <1>7, <3>1 DEF RemoveEntity, StoreTyped
    <3>2. CASE call[c].seen.known
      <4>1. map' = Removed(call[c].seen, call[c].type)
        BY <1>7, <3>2 DEF RemoveEntity
      <4>2. map' \in Map
        BY <1>c, <4>1, RemovedType DEF UpsertCall
      <4>3. map' = NoMap \/ map' = [call[c].seen EXCEPT !.entities[call[c].type] = NoEntry]
        BY <4>1 DEF Removed
      <4>4. QED
        BY <1>c, <3>2, <4>2, <4>3 DEF UpsertCall, Map
    <3>3. QED
      BY <3>1, <3>2
  <2>7. StoreTyped'
    BY <2>5, <2>6 DEF StoreTyped
  <2>8. QED
    BY <2>4, <2>5, <2>7, TracesStay
<1>8. CASE CleanUp(c)
  <2>1. call[c].id \in IdsOf(call[c].type) /\ call[c].type \in Types
    BY <1>8, <1>c DEF CallsTyped, Idle, CleanUp, UpsertCall
  <2>2. past' \in Past
    BY <1>8, <2>1, TypeNames DEF CleanUp, StoreTyped, Past
  <2>3. bound' \subseteq Ids /\ located' = FALSE /\ map' = NoMap
    BY <1>8 DEF CleanUp, StoreTyped
  <2>4. UNCHANGED <<setting, now, token, update, trace, live, budget>>
    BY <1>8 DEF CleanUp
  <2>5. StoreTyped'
    BY <2>2, <2>3, <2>4, NoMapType DEF StoreTyped
  <2>6. CallsTyped'
    BY <1>8, NoCallType, CallWritten DEF CleanUp
  <2>7. QED
    BY <2>4, <2>5, <2>6, TracesStay
<1>9. CASE CallFails(c)
  <2>1. budget' \in [calls : Nat, updates : Nat, faults : Nat]
    BY <1>9 DEF CallFails, Fault, StoreTyped
  <2>2. StoreTyped'
    BY <1>9, <2>1 DEF CallFails, StoreTyped
  <2>3. CallsTyped'
    BY <1>9, NoCallType, CallWritten DEF CallFails
  <2>4. QED
    BY <1>9, <2>2, <2>3, TracesStay DEF CallFails
<1>10. QED
  BY <1>1, <1>2, <1>3, <1>4, <1>5, <1>6, <1>7, <1>8, <1>9 DEF Call

LEMMA TypeUpdate ==
  ASSUME PersonType, Arrive \/ StoreLocation \/ SpawnTraces \/ UpdateFails
  PROVE  PersonType'
<1> USE DEF PersonType
<1>1. CASE Arrive
  <2>1. budget' \in [calls : Nat, updates : Nat, faults : Nat] /\ update' = "store"
    BY <1>1 DEF Arrive, StoreTyped
  <2>2. UNCHANGED <<setting, now, token, map, bound, located, call, trace, live, past>>
    BY <1>1 DEF Arrive
  <2>3. StoreTyped'
    BY <2>1, <2>2 DEF StoreTyped
  <2>4. QED
    BY <2>2, <2>3, CallsStay, TracesStay
<1>2. CASE StoreLocation
  <2>1. StoreTyped'
    BY <1>2 DEF StoreLocation, StoreTyped
  <2>2. QED
    BY <1>2, <2>1, CallsStay, TracesStay DEF StoreLocation
<1>3. CASE UpdateFails
  <2>1. budget' \in [calls : Nat, updates : Nat, faults : Nat]
    BY <1>3 DEF UpdateFails, Fault, StoreTyped
  <2>2. StoreTyped'
    BY <1>3, <2>1 DEF UpdateFails, StoreTyped
  <2>3. QED
    BY <1>3, <2>2, CallsStay, TracesStay DEF UpdateFails
<1>4. CASE SpawnTraces
  <2> DEFINE alarm == map.entities["sos"]
             configs == IF alarm.pinged THEN {c \in alarm.configs : c.id = alarm.id} ELSE {}
  <2>1. UNCHANGED <<setting, now, token, map, bound, located, call, live, past, budget>>
        /\ update' = "idle"
    BY <1>4 DEF SpawnTraces
  <2>2. StoreTyped'
    BY <2>1 DEF StoreTyped
  <2>3. configs \subseteq Config
    BY EntryOfMap, TypeNames DEF StoreTyped, IsEntry
  <2>4. \/ UNCHANGED trace
        \/ \E config \in configs, k \in Tasks :
             trace' = [trace EXCEPT ![k] = [NoTrace EXCEPT !.pc = "start", !.config = config]]
    BY <1>4 DEF SpawnTraces, Running
  <2> HIDE DEF configs
  <2>5. ASSUME NEW config \in configs, NEW k \in Tasks,
               trace' = [trace EXCEPT ![k] = [NoTrace EXCEPT !.pc = "start", !.config = config]]
        PROVE  TracesTyped'
    <3> DEFINE r == [NoTrace EXCEPT !.pc = "start", !.config = config]
    <3>1. config \in Config
      BY <2>3
    <3>2. r \in TraceTask /\ r.config \in Config
      <4>1. r = [NoTrace EXCEPT !.pc = "start", !.config = config] /\ NoTrace \in TraceTask
        BY NoTraceType
      <4>2. QED
        BY <3>1, <4>1 DEF TraceTask
    <3> HIDE DEF r
    <3>3. trace' = [trace EXCEPT ![k] = r]
      BY <2>5 DEF r
    <3>4. QED
      BY <3>2, <3>3, TraceWritten
  <2>6. TracesTyped'
    BY <2>4, <2>5, TracesStay
  <2>7. QED
    BY <2>1, <2>2, <2>6, CallsStay
<1>5. QED
  BY <1>1, <1>2, <1>3, <1>4

LEMMA TypeTrace ==
  ASSUME PersonType, NEW k \in Tasks, Trace(k)
  PROVE  PersonType'
<1> USE DEF PersonType
<1>t. trace[k] \in TraceTask
  BY DEF TracesTyped
<1>a. After(k) /\ trace[k].pc # "idle" => TracesTyped'
  <2> SUFFICES ASSUME After(k), trace[k].pc # "idle" PROVE TracesTyped'
    OBVIOUS
  <2>1. CASE trace[k].next = "idle"
    BY <2>1, NoTraceType, TraceWritten DEF After, EndTrace
  <2>2. CASE trace[k].next # "idle"
    <3> DEFINE r == [trace[k] EXCEPT !.pc = "resend", !.next = "idle", !.seen = NoMap]
    <3>1. trace' = [trace EXCEPT ![k] = r]
      BY <2>2 DEF After
    <3>2. r \in TraceTask /\ r.config = trace[k].config
      BY <1>t, NoMapType DEF TraceTask
    <3>3. trace[k].config \in Config
      BY DEF TracesTyped
    <3> HIDE DEF r
    <3>4. QED
      BY <3>1, <3>2, <3>3, TraceWritten
  <2>3. QED
    BY <2>1, <2>2
<1>e. EndTrace(k) => TracesTyped'
  BY NoTraceType, TraceWritten DEF EndTrace
<1>o. OnlyTrace => StoreTyped' /\ CallsTyped'
  BY StoreStays, CallsStay DEF OnlyTrace
<1>1. CASE StartTrace(k)
  <2>1. CASE EndTrace(k)
    BY <1>1, <1>e, <1>o, <2>1 DEF StartTrace
  <2>2. CASE ~EndTrace(k)
    <3> DEFINE r == [trace[k] EXCEPT !.pc = "send", !.at = now]
    <3>1. trace' = [trace EXCEPT ![k] = r] /\ trace[k].pc = "start"
      BY <1>1, <2>2 DEF StartTrace
    <3>2. r \in TraceTask /\ r.config = trace[k].config
      BY <1>t DEF TraceTask, StoreTyped
    <3>3. trace[k].config \in Config
      BY <3>1 DEF TracesTyped
    <3> HIDE DEF r
    <3>4. TracesTyped'
      BY <3>1, <3>2, <3>3, TraceWritten
    <3>5. QED
      BY <1>1, <1>o, <3>4 DEF StartTrace
  <2>3. QED
    BY <2>1, <2>2
<1>2. CASE Ping(k)
  <2> DEFINE r == [trace[k] EXCEPT !.pc = "read", !.next = "idle", !.config.traced = trace[k].at]
  <2>1. trace' = [trace EXCEPT ![k] = r] /\ trace[k].pc # "idle"
    BY <1>2 DEF Ping
  <2>2. trace[k].config \in Config
    BY <2>1 DEF TracesTyped
  <2>3. r \in TraceTask /\ r.config \in Config
    BY <1>t, <2>2 DEF TraceTask, Config
  <2> HIDE DEF r
  <2>4. TracesTyped'
    BY <2>1, <2>3, TraceWritten
  <2>5. past' = [past EXCEPT !.sent[trace[k].config.id] = now, !.begun[trace[k].config.id] = trace[k].at]
    BY <1>2 DEF Ping
  <2>6. past' \in Past
    BY <1>t, <2>2, <2>5 DEF StoreTyped, Past, Config, TraceTask
  <2>7. UNCHANGED <<setting, now, token, map, bound, located, call, update, live, budget>>
    BY <1>2 DEF Ping
  <2>8. StoreTyped'
    BY <2>6, <2>7 DEF StoreTyped
  <2>9. QED
    BY <2>4, <2>7, <2>8, CallsStay
<1>3. CASE PingRefused(k)
  <2>1. CASE EndTrace(k)
    BY <1>3, <1>e, <1>o, <2>1 DEF PingRefused
  <2>2. CASE ~EndTrace(k)
    <3> DEFINE r == [trace[k] EXCEPT !.pc = "refresh"]
    <3>1. trace' = [trace EXCEPT ![k] = r] /\ trace[k].pc # "idle"
      BY <1>3, <2>2 DEF PingRefused
    <3>2. r \in TraceTask /\ r.config = trace[k].config
      BY <1>t DEF TraceTask
    <3>3. trace[k].config \in Config
      BY <3>1 DEF TracesTyped
    <3> HIDE DEF r
    <3>4. TracesTyped'
      BY <3>1, <3>2, <3>3, TraceWritten
    <3>5. QED
      BY <1>3, <1>o, <3>4 DEF PingRefused
  <2>3. QED
    BY <2>1, <2>2
<1>4. CASE PingFails(k)
  <2>1. budget' \in [calls : Nat, updates : Nat, faults : Nat]
    BY <1>4 DEF PingFails, Fault, StoreTyped
  <2>2. StoreTyped'
    BY <1>4, <2>1 DEF PingFails, StoreTyped
  <2>3. QED
    BY <1>4, <1>e, <2>2, CallsStay DEF PingFails
<1>5. CASE RefreshToken(k)
  <2> DEFINE r == [trace[k] EXCEPT !.pc = "read", !.next = "resend",
                                   !.config = Refreshed(trace[k].config)]
  <2>1. trace' = [trace EXCEPT ![k] = r] /\ trace[k].pc # "idle"
    BY <1>5 DEF RefreshToken
  <2>2. Refreshed(trace[k].config) \in Config
    BY <2>1 DEF TracesTyped, Refreshed, Config, StoreTyped
  <2>3. r \in TraceTask /\ r.config \in Config
    BY <1>t, <2>2 DEF TraceTask
  <2> HIDE DEF r
  <2>4. TracesTyped'
    BY <2>1, <2>3, TraceWritten
  <2>5. QED
    BY <1>5, <1>o, <2>4 DEF RefreshToken
<1>6. CASE PersistRead(k)
  <2> DEFINE r == [trace[k] EXCEPT !.pc = "write", !.seen = map]
  <2>1. trace' = [trace EXCEPT ![k] = r] /\ trace[k].pc # "idle"
    BY <1>6 DEF PersistRead
  <2>2. r \in TraceTask /\ r.config = trace[k].config
    BY <1>t DEF TraceTask, StoreTyped
  <2>3. trace[k].config \in Config
    BY <2>1 DEF TracesTyped
  <2> HIDE DEF r
  <2>4. TracesTyped'
    BY <2>1, <2>2, <2>3, TraceWritten
  <2>5. QED
    BY <1>6, <1>o, <2>4 DEF PersistRead
<1>7. CASE PersistWrite(k)
  <2>1. trace[k].pc = "write" /\ After(k)
        /\ map' = WithConfig(trace[k].seen, "sos", trace[k].config)
    BY <1>7 DEF PersistWrite, ToPersist
  <2>2. trace[k].config \in Config
    BY <2>1 DEF TracesTyped
  <2>3. map' \in Map
    BY <1>t, <2>1, <2>2, WithConfigType, TypeNames DEF TraceTask
  <2>4. map'.known
    BY <2>1 DEF WithConfig
  <2>5. UNCHANGED <<setting, now, token, bound, located, call, update, live, past, budget>>
    BY <1>7 DEF PersistWrite
  <2>6. StoreTyped'
    BY <2>3, <2>4, <2>5 DEF StoreTyped
  <2>7. QED
    BY <1>a, <2>1, <2>5, <2>6, CallsStay
<1>8. CASE PersistFails(k)
  <2>1. budget' \in [calls : Nat, updates : Nat, faults : Nat]
    BY <1>8 DEF PersistFails, Fault, StoreTyped
  <2>2. StoreTyped'
    BY <1>8, <2>1 DEF PersistFails, StoreTyped
  <2>3. QED
    BY <1>8, <1>a, <2>2, CallsStay DEF PersistFails
<1>9. QED
  BY <1>1, <1>2, <1>3, <1>4, <1>5, <1>6, <1>7, <1>8 DEF Trace

LEMMA TypeStep == PersonType /\ [Next]_vars => PersonType'
<1> SUFFICES ASSUME PersonType, [Next]_vars PROVE PersonType'
  OBVIOUS
<1>1. CASE Tick \/ TokenExpires \/ UNCHANGED vars
  <2>1. StoreTyped'
    BY <1>1, BoundsAssumption DEF PersonType, StoreTyped, Tick, TokenExpires, vars
  <2>2. UNCHANGED <<call, trace>>
    BY <1>1 DEF Tick, TokenExpires, vars
  <2>3. QED
    BY <2>1, <2>2, CallsStay, TracesStay DEF PersonType
<1>2. QED
  BY <1>1, TypeCall, TypeUpdate, TypeTrace DEF Next

\* The stored values, the calls and the tasks have the types they are written with.
THEOREM PersonTypeCorrect == Spec => []TypeOK
<1>1. PersonType => TypeOK
  <2> SUFFICES ASSUME PersonType PROVE TypeOK
    OBVIOUS
  <2>1. \A m \in Map : IsMap(m)
    BY DEF Map, Entities, IsMap
  <2>2. \A c \in Callers : call[c].pc \in {"idle", "read", "write", "bind", "clean"}
                          /\ IsMap(call[c].seen)
    BY <2>1 DEF PersonType, CallsTyped, UpsertCall
  <2>3. \A k \in Tasks :
          /\ trace[k].pc \in {"idle", "start", "send", "refresh", "resend", "read", "write"}
          /\ trace[k].config \in Config \cup {NoConfig}
          /\ IsMap(trace[k].seen)
    BY <2>1 DEF PersonType, TracesTyped, TraceTask
  <2>4. QED
    BY <2>1, <2>2, <2>3 DEF PersonType, StoreTyped, TypeOK
<1>2. QED
  BY <1>1, TypeInit, TypeStep, PTL DEF Spec

-----------------------------------------------------------------------------
(* What has ended. *)

\* Calls of one type exclude each other, so a call that starts an entity does not
\* start one that has ended; the end of a live one makes it live no more.
CallsInTurn ==
  /\ past.ended \subseteq past.used
  /\ \A t \in Types : live[t] \in past.used \cup {"none"} /\ live[t] \notin past.ended
  /\ \A c \in Callers : ~Idle(c) =>
       /\ call[c].id \in past.used
       /\ call[c].pc \in {"clean"} => call[c].op = "end"
       /\ call[c].pc = "bind" => call[c].op # "end"
       /\ call[c].op # "end" => call[c].id \notin past.ended
       /\ call[c].op = "end" => live[call[c].type] # call[c].id
  /\ \A c, d \in Callers :
       ~Idle(c) /\ ~Idle(d) /\ call[c].type = call[d].type => c = d

WritingCall(c) == call[c].pc \in {"write", "clean"}
WritingTrace(k) == trace[k].pc = "write"

\* While reads and writes of the map keep apart there is one at a time.
OneWriter ==
  setting.apart =>
    /\ \A c, d \in Callers : WritingCall(c) /\ WritingCall(d) => c = d
    /\ \A k, l \in Tasks : WritingTrace(k) /\ WritingTrace(l) => k = l
    /\ \A c \in Callers, k \in Tasks : ~(WritingCall(c) /\ WritingTrace(k))

\* The map and the copies of those about to write it list nothing that has ended.
Gone(m) == \A t \in Types : m.entities[t].id \notin past.ended
NothingBack ==
  setting.apart =>
    /\ Gone(map)
    /\ \A c \in Callers : call[c].pc = "write" => Gone(call[c].seen)
    /\ \A k \in Tasks : WritingTrace(k) => Gone(trace[k].seen)

EndInv == PersonType /\ CallsInTurn /\ OneWriter /\ NothingBack

LEMMA NoneIsNoId == "none" \notin Ids /\ \A t, u \in Types : t # u => IdsOf(t) \cap IdsOf(u) = {}
BY IdsAssumption DEF Types, IdsOf

LEMMA NoMapGone == PersonType => Gone(NoMap)
<1> SUFFICES ASSUME PersonType PROVE Gone(NoMap)
  OBVIOUS
<1>1. past.ended \subseteq Ids
  BY DEF PersonType, StoreTyped, Past
<1>2. QED
  BY <1>1, NoneIsNoId DEF Gone, NoMap, NoEntry

LEMMA EndInit == Init => EndInv
<1> SUFFICES ASSUME Init PROVE EndInv
  OBVIOUS
<1>1. PersonType
  BY TypeInit
<1>2. CallsInTurn
  BY DEF Init, CallsInTurn, Idle, NoCall
<1>3. OneWriter
  BY DEF Init, OneWriter, WritingCall, WritingTrace, NoCall, NoTrace
<1>4. NothingBack
  BY <1>1, NoMapGone DEF Init, NothingBack, WritingTrace, NoCall, NoTrace
<1>5. QED
  BY <1>1, <1>2, <1>3, <1>4 DEF EndInv

\* Steps that leave the calls, or the writers, or the map alone.
LEMMA TurnsStay ==
  CallsInTurn /\ UNCHANGED <<call, live, past.used, past.ended>> => CallsInTurn'
BY DEF CallsInTurn, Idle

LEMMA FewerWriters ==
  ASSUME OneWriter, UNCHANGED setting,
         \A c \in Callers : WritingCall(c)' => WritingCall(c),
         \A k \in Tasks : WritingTrace(k)' => WritingTrace(k)
  PROVE  OneWriter'
BY DEF OneWriter

LEMMA BackStays ==
  ASSUME NothingBack, UNCHANGED <<setting, map, past.ended>>,
         \A c \in Callers : call'[c].pc = "write" =>
            call[c].pc = "write" /\ call'[c].seen = call[c].seen,
         \A k \in Tasks : WritingTrace(k)' => WritingTrace(k) /\ trace'[k].seen = trace[k].seen
  PROVE  NothingBack'
BY DEF NothingBack, Gone

\* Who writes the map, while reads and writes keep apart, is alone.
LEMMA WriterAlone ==
  ASSUME OneWriter, setting.apart, NEW c \in Callers, WritingCall(c)
  PROVE  /\ \A d \in Callers : WritingCall(d) => d = c
         /\ \A k \in Tasks : ~WritingTrace(k)
BY DEF OneWriter

LEMMA TurnBegin ==
  ASSUME EndInv, NEW c \in Callers, NEW t \in Types, NEW i \in IdsOf(t),
         NEW op \in {"create", "start", "end"}, NEW config,
         Begin(c, t, i, op, config),
         \/ op # "end" /\ live' = live /\ i \notin past.ended
         \/ op = "end" /\ live[t] = i /\ live' = [live EXCEPT ![t] = "none"]
  PROVE  CallsInTurn' /\ OneWriter' /\ NothingBack'
<1> DEFINE r == [NoCall EXCEPT !.pc = "read", !.op = op, !.type = t, !.id = i, !.config = config]
<1>1. r.pc = "read" /\ r.id = i /\ r.type = t /\ r.op = op
  BY DEF NoCall
<1>2. call' = [call EXCEPT ![c] = r] /\ Idle(c) /\ ~Ongoing(t)
  BY DEF Begin
<1> HIDE DEF r
<1>3. call'[c] = r /\ \A d \in Callers : d # c => call'[d] = call[d]
  BY <1>2 DEF EndInv, PersonType, CallsTyped
<1>4. past'.used = past.used \cup {i} /\ past'.ended = past.ended
  BY DEF Begin, EndInv, PersonType, StoreTyped, Past
<1>5. CallsInTurn'
  <2> USE DEF CallsInTurn
  <2>1. past'.ended \subseteq past'.used
    BY <1>4 DEF EndInv
  <2>2. i \in Ids /\ i # "none"
    BY TypeNames, NoneIsNoId
  <2>3. \A u \in Types : live'[u] \in past'.used \cup {"none"} /\ live'[u] \notin past'.ended
    <3>1. past.ended \subseteq Ids /\ live \in [Types -> Ids \cup {"none"}]
      BY DEF EndInv, PersonType, StoreTyped, Past
    <3>2. QED
      BY <1>4, <3>1, NoneIsNoId DEF EndInv
  <2>4. ASSUME NEW d \in Callers, ~Idle(d)'
        PROVE  /\ call'[d].id \in past'.used
               /\ call'[d].pc \in {"clean"} => call'[d].op = "end"
               /\ call'[d].pc = "bind" => call'[d].op # "end"
               /\ call'[d].op # "end" => call'[d].id \notin past'.ended
               /\ call'[d].op = "end" => live'[call'[d].type] # call'[d].id
    <3>1. CASE d = c
      <4>1. op = "end" => live'[t] = "none"
        BY DEF EndInv, PersonType, StoreTyped
      <4>2. QED
        BY <1>1, <1>3, <1>4, <2>2, <3>1, <4>1
    <3>2. CASE d # c
      <4>1. call'[d] = call[d] /\ ~Idle(d) /\ call[d].type # t
        BY <1>2, <1>3, <2>4, <3>2 DEF Idle, Ongoing
      <4>2. call[d].type \in Types
        BY DEF EndInv, PersonType, CallsTyped, UpsertCall
      <4>3. live'[call[d].type] = live[call[d].type]
        BY <4>1, <4>2 DEF EndInv, PersonType, StoreTyped
      <4>4. QED
        BY <1>4, <4>1, <4>3 DEF EndInv
    <3>3. QED
      BY <3>1, <3>2
  <2>5. \A d, e \in Callers :
          ~Idle(d)' /\ ~Idle(e)' /\ call'[d].type = call'[e].type => d = e
    <3>1. \A d \in Callers : d # c /\ ~Idle(d)' => ~Idle(d) /\ call'[d].type # t
      BY <1>2, <1>3 DEF Idle, Ongoing
    <3>2. QED
      BY <1>1, <1>3, <3>1 DEF EndInv
  <2>6. QED
    BY <2>1, <2>3, <2>4, <2>5
<1>6. UNCHANGED <<setting, map, trace>>
  BY DEF Begin
<1>7. OneWriter'
  BY <1>1, <1>3, <1>6, FewerWriters DEF EndInv, WritingCall, WritingTrace
<1>8. NothingBack'
  BY <1>1, <1>3, <1>4, <1>6, BackStays DEF EndInv, WritingTrace
<1>9. QED
  BY <1>5, <1>7, <1>8

LEMMA EndCall ==
  ASSUME EndInv, PersonType', NEW c \in Callers, Call(c)
  PROVE  CallsInTurn' /\ OneWriter' /\ NothingBack'
<1>c. call \in [Callers -> UpsertCall] /\ call[c] \in UpsertCall
  BY DEF EndInv, PersonType, CallsTyped
<1>1. ASSUME NEW t \in Types, NEW i \in Ids, EntityStart(c, t, i)
      PROVE  CallsInTurn' /\ OneWriter' /\ NothingBack'
  <2>1. PICK config \in BOOLEAN : Begin(c, t, i, "start", config)
    BY <1>1 DEF EntityStart
  <2>2. i \in IdsOf(t) /\ live' = live
    BY <1>1 DEF EntityStart
  <2>3. i \notin past.ended
    BY <1>1 DEF EntityStart, EndInv, CallsInTurn
  <2>4. QED
    BY <2>1, <2>2, <2>3, TurnBegin
<1>2. ASSUME NEW i \in Rides, EntityCreate(c, i)
      PROVE  CallsInTurn' /\ OneWriter' /\ NothingBack'
  <2>1. Begin(c, "ride", i, "create", FALSE) /\ live' = live /\ i \in IdsOf("ride")
    BY <1>2 DEF EntityCreate, IdsOf
  <2>2. i \notin past.ended
    BY <1>2 DEF EntityCreate, EndInv, CallsInTurn
  <2>3. QED
    BY <2>1, <2>2, TurnBegin, TypeNames
<1>3. ASSUME NEW t \in Types, EntityEnd(c, t)
      PROVE  CallsInTurn' /\ OneWriter' /\ NothingBack'
  <2>1. Begin(c, t, live[t], "end", FALSE) /\ live' = [live EXCEPT ![t] = "none"]
        /\ live[t] \in IdsOf(t)
    BY <1>3 DEF EntityEnd, EndInv, PersonType, StoreTyped
  <2>2. QED
    BY <2>1, TurnBegin
<1>4. CASE ReadMap(c)
  <2>1. call' = [call EXCEPT ![c] = [call[c] EXCEPT !.pc = "write", !.seen = map]]
        /\ call[c].pc = "read"
    BY <1>4 DEF ReadMap
  <2>2. /\ call'[c].pc = "write" /\ call'[c].seen = map /\ call'[c].op = call[c].op
        /\ call'[c].id = call[c].id /\ call'[c].type = call[c].type
        /\ \A d \in Callers : d # c => call'[d] = call[d]
    BY <1>c, <2>1 DEF UpsertCall
  <2>3. UNCHANGED <<setting, map, trace, live, past>> /\ (setting.apart => ~Writing)
    BY <1>4 DEF ReadMap, MayRead
  <2>4. CallsInTurn'
    BY <2>1, <2>2, <2>3 DEF EndInv, CallsInTurn, Idle
  <2>5. OneWriter'
    BY <2>2, <2>3 DEF OneWriter, WritingCall, WritingTrace, Writing
  <2>6. NothingBack'
    BY <2>2, <2>3 DEF EndInv, NothingBack, Gone, WritingTrace
  <2>7. QED
    BY <2>4, <2>5, <2>6
<1>5. CASE AddEntity(c)
  <2>1. call' = [call EXCEPT ![c] = [call[c] EXCEPT !.pc = "bind", !.seen = NoMap]]
        /\ call[c].pc = "write" /\ call[c].op # "end"
    BY <1>5 DEF AddEntity
  <2>2. /\ call'[c].pc = "bind" /\ call'[c].op = call[c].op
        /\ call'[c].id = call[c].id /\ call'[c].type = call[c].type
        /\ \A d \in Callers : d # c => call'[d] = call[d]
    BY <1>c, <2>1 DEF UpsertCall
  <2>3. UNCHANGED <<setting, trace, live, past>>
        /\ map' = Inserted(call[c].seen, call[c].type, Entry(call[c]))
    BY <1>5 DEF AddEntity
  <2>4. CallsInTurn'
    BY <2>1, <2>2, <2>3 DEF EndInv, CallsInTurn, Idle
  <2>5. OneWriter'
    BY <2>2, <2>3, FewerWriters DEF EndInv, WritingCall, WritingTrace
  <2>6. NothingBack'
    <3> SUFFICES ASSUME setting.apart PROVE NothingBack'
      BY <2>3 DEF NothingBack
    <3>1. WritingCall(c)
      BY <2>1 DEF WritingCall
    <3>2. \A d \in Callers : call'[d].pc # "write"
      BY <2>2, <3>1, WriterAlone DEF EndInv, WritingCall
    <3>3. \A k \in Tasks : ~WritingTrace(k)'
      BY <2>3, <3>1, WriterAlone DEF EndInv, WritingTrace
    <3>4. Gone(call[c].seen)
      BY <2>1 DEF EndInv, NothingBack
    <3>5. call[c].id \notin past.ended
      BY <2>1 DEF EndInv, CallsInTurn, Idle
    <3>6. /\ call[c].seen.entities \in [Types -> AnyEntry]
          /\ map'.entities = [call[c].seen.entities EXCEPT ![call[c].type] = Entry(call[c])]
      BY <1>c, <2>3, EntryOfMap DEF Inserted, UpsertCall, Map, Entities
    <3>7. Entry(call[c]).id = call[c].id
      BY DEF Entry
    <3>8. Gone(map)'
      BY <2>3, <3>4, <3>5, <3>6, <3>7 DEF Gone
    <3>9. QED
      BY <3>2, <3>3, <3>8 DEF NothingBack
  <2>7. QED
    BY <2>4, <2>5, <2>6
<1>6. CASE BindPerson(c)
  <2>1. /\ call' = [call EXCEPT ![c] = NoCall] /\ call[c].pc = "bind"
        /\ live' = [live EXCEPT ![call[c].type] = call[c].id]
        /\ UNCHANGED <<setting, map, trace, past>>
    BY <1>6 DEF BindPerson
  <2>2. call'[c] = NoCall /\ NoCall.pc = "idle" /\ \A d \in Callers : d # c => call'[d] = call[d]
    BY <1>c, <2>1 DEF NoCall
  <2>3. call[c].op # "end" /\ call[c].id \notin past.ended /\ call[c].id \in past.used /\ ~Idle(c)
    BY <2>1 DEF EndInv, CallsInTurn, Idle
  <2>4. live \in [Types -> Ids \cup {"none"}]
        /\ \A d \in Callers : call[d].type \in Types
    BY DEF EndInv, PersonType, StoreTyped, CallsTyped, UpsertCall
  <2>5. CallsInTurn'
    <3>1. \A t \in Types : live'[t] \in past.used \cup {"none"} /\ live'[t] \notin past.ended
      BY <2>1, <2>3, <2>4 DEF EndInv, CallsInTurn
    <3>2. ASSUME NEW d \in Callers, ~Idle(d)'
          PROVE  call'[d] = call[d] /\ ~Idle(d) /\ live'[call[d].type] = live[call[d].type]
      <4>1. d # c /\ call'[d] = call[d] /\ ~Idle(d)
        BY <2>2, <3>2 DEF Idle
      <4>2. call[d].type # call[c].type
        BY <2>3, <4>1 DEF EndInv, CallsInTurn
      <4>3. QED
        BY <2>1, <2>4, <4>1, <4>2
    <3>3. QED
      BY <2>1, <3>1, <3>2 DEF EndInv, CallsInTurn
  <2>6. OneWriter'
    BY <2>1, <2>2, FewerWriters DEF EndInv, WritingCall, WritingTrace
  <2>7. NothingBack'
    BY <2>1, <2>2, BackStays DEF EndInv, WritingTrace
  <2>8. QED
    BY <2>5, <2>6, <2>7
<1>7. CASE RemoveEntity(c)
  <2>1. call' = [call EXCEPT ![c] = [call[c] EXCEPT !.pc = "clean", !.seen = NoMap]]
        /\ call[c].pc = "write" /\ call[c].op = "end"
    BY <1>7 DEF RemoveEntity
  <2>2. /\ call'[c].pc = "clean" /\ call'[c].op = call[c].op
        /\ call'[c].id = call[c].id /\ call'[c].type = call[c].type
        /\ \A d \in Callers : d # c => call'[d] = call[d]
    BY <1>c, <2>1 DEF UpsertCall
  <2>3. UNCHANGED <<setting, trace, live, past>>
        /\ map' = IF call[c].seen.known THEN Removed(call[c].seen, call[c].type) ELSE map
    BY <1>7 DEF RemoveEntity
  <2>4. CallsInTurn'
    BY <2>1, <2>2, <2>3 DEF EndInv, CallsInTurn, Idle
  <2>5. OneWriter'
    BY <2>1, <2>2, <2>3, FewerWriters DEF EndInv, WritingCall, WritingTrace
  <2>6. NothingBack'
    <3> SUFFICES ASSUME setting.apart PROVE NothingBack'
      BY <2>3 DEF NothingBack
    <3>1. WritingCall(c)
      BY <2>1 DEF WritingCall
    <3>2. \A d \in Callers : call'[d].pc # "write"
      BY <2>2, <3>1, WriterAlone DEF EndInv, WritingCall
    <3>3. \A k \in Tasks : ~WritingTrace(k)'
      BY <2>3, <3>1, WriterAlone DEF EndInv, WritingTrace
    <3>4. Gone(call[c].seen) /\ Gone(map) /\ Gone(NoMap)
      BY <2>1, NoMapGone DEF EndInv, NothingBack
    <3>5. "none" \notin past.ended
      BY NoneIsNoId DEF EndInv, PersonType, StoreTyped, Past
    <3>6. ASSUME map' = [call[c].seen EXCEPT !.entities[call[c].type] = NoEntry]
          PROVE  Gone(map')
      <4>1. call[c].seen \in Map
        BY <1>c DEF UpsertCall
      <4>2. map'.entities = [call[c].seen.entities EXCEPT ![call[c].type] = NoEntry]
        BY <3>6, <4>1 DEF Map
      <4>3. call[c].seen.entities \in [Types -> AnyEntry]
        BY <4>1, TypeNames, EntryOfMap
      <4>4. QED
        BY <3>4, <3>5, <4>2, <4>3 DEF Gone, NoEntry
    <3>7. Gone(map')
      BY <2>3, <3>4, <3>6 DEF Removed
    <3>8. QED
      BY <2>3, <3>2, <3>3, <3>7 DEF NothingBack, Gone
  <2>7. QED
    BY <2>4, <2>5, <2>6
<1>8. CASE CleanUp(c)
  <2>1. /\ call' = [call EXCEPT ![c] = NoCall] /\ call[c].pc = "clean"
        /\ map' = NoMap
        /\ UNCHANGED <<setting, trace, live>>
    BY <1>8 DEF CleanUp
  <2>2. call'[c] = NoCall /\ NoCall.pc = "idle" /\ \A d \in Callers : d # c => call'[d] = call[d]
    BY <1>c, <2>1 DEF NoCall
  <2>3. past'.ended = past.ended \cup {call[c].id} /\ past'.used = past.used
    BY <1>8 DEF CleanUp, EndInv, PersonType, StoreTyped, Past
  <2>4. /\ ~Idle(c) /\ call[c].op = "end" /\ live[call[c].type] # call[c].id
        /\ call[c].id \in past.used /\ call[c].id \in IdsOf(call[c].type)
    BY <2>1 DEF EndInv, CallsInTurn, Idle, PersonType, CallsTyped
  <2>5. \A d \in Callers : call[d].type \in Types
    BY DEF EndInv, PersonType, CallsTyped, UpsertCall
  <2>6. call[c].id \in Ids
    BY <2>4, <2>5, TypeNames
  <2>7. CallsInTurn'
    <3>1. \A t \in Types : live[t] # call[c].id
      <4> SUFFICES ASSUME NEW t \in Types PROVE live[t] # call[c].id
        OBVIOUS
      <4>1. live[t] \in IdsOf(t) \cup {"none"}
        BY DEF EndInv, PersonType, StoreTyped
      <4>2. QED
        BY <2>4, <2>5, <2>6, <4>1, NoneIsNoId
    <3>2. ASSUME NEW d \in Callers, ~Idle(d)'
          PROVE  call'[d] = call[d] /\ ~Idle(d) /\ call[d].id # call[c].id
      <4>1. d # c /\ call'[d] = call[d] /\ ~Idle(d)
        BY <2>2, <3>2 DEF Idle
      <4>2. call[d].type # call[c].type
        BY <2>4, <4>1 DEF EndInv, CallsInTurn
      <4>3. call[d].id \in IdsOf(call[d].type)
        BY <4>1 DEF EndInv, PersonType, CallsTyped
      <4>4. QED
        BY <2>4, <2>5, <4>1, <4>2, <4>3, NoneIsNoId
    <3>3. QED
      BY <2>1, <2>3, <2>4, <3>1, <3>2 DEF EndInv, CallsInTurn
  <2>8. OneWriter'
    BY <2>1, <2>2, FewerWriters DEF EndInv, WritingCall, WritingTrace
  <2>9. NothingBack'
    <3> SUFFICES ASSUME setting.apart PROVE NothingBack'
      BY <2>1 DEF NothingBack
    <3>1. WritingCall(c)
      BY <2>1 DEF WritingCall
    <3>2. \A d \in Callers : call'[d].pc # "write"
      BY <2>2, <3>1, WriterAlone DEF EndInv, WritingCall
    <3>3. \A k \in Tasks : ~WritingTrace(k)'
      BY <2>1, <3>1, WriterAlone DEF EndInv, WritingTrace
    <3>4. "none" \notin past'.ended
      BY NoneIsNoId DEF PersonType, StoreTyped, Past
    <3>5. Gone(map)'
      BY <2>1, <3>4 DEF Gone, NoMap, NoEntry
    <3>6. QED
      BY <3>2, <3>3, <3>5 DEF NothingBack
  <2>10. QED
    BY <2>7, <2>8, <2>9
<1>9. CASE CallFails(c)
  <2>1. /\ call' = [call EXCEPT ![c] = NoCall]
        /\ UNCHANGED <<setting, map, trace, live, past>>
    BY <1>9 DEF CallFails
  <2>2. call'[c] = NoCall /\ NoCall.pc = "idle" /\ \A d \in Callers : d # c => call'[d] = call[d]
    BY <1>c, <2>1 DEF NoCall
  <2>3. CallsInTurn'
    BY <2>1, <2>2 DEF EndInv, CallsInTurn, Idle
  <2>4. OneWriter'
    BY <2>1, <2>2, FewerWriters DEF EndInv, WritingCall, WritingTrace
  <2>5. NothingBack'
    BY <2>1, <2>2, BackStays DEF EndInv, WritingTrace
  <2>6. QED
    BY <2>3, <2>4, <2>5
<1>10. QED
  BY <1>1, <1>2, <1>3, <1>4, <1>5, <1>6, <1>7, <1>8, <1>9 DEF Call

LEMMA EndTraceStep ==
  ASSUME EndInv, NEW k \in Tasks, Trace(k)
  PROVE  CallsInTurn' /\ OneWriter' /\ NothingBack'
<1>t. trace \in [Tasks -> TraceTask] /\ trace[k] \in TraceTask
  BY DEF EndInv, PersonType, TracesTyped
<1>p. UNCHANGED <<setting, call, live, past.used, past.ended>>
  BY DEF Trace, StartTrace, Ping, PingRefused, PingFails, RefreshToken, PersistRead, PersistWrite,
         PersistFails, OnlyTrace, EndInv, PersonType, StoreTyped, Past
<1>1. CallsInTurn'
  BY <1>p, TurnsStay DEF EndInv
<1>o. \A l \in Tasks : l # k => trace'[l] = trace[l]
  BY <1>t DEF Trace, StartTrace, Ping, PingRefused, PingFails, RefreshToken, PersistRead,
              PersistWrite, PersistFails, EndTrace, After
<1>2. CASE PersistRead(k)
  <2>1. trace'[k].pc = "write" /\ trace'[k].seen = map
    BY <1>2, <1>t DEF PersistRead, TraceTask
  <2>2. (setting.apart => ~Writing) /\ map' = map
    BY <1>2 DEF PersistRead, MayRead, OnlyTrace
  <2>3. OneWriter'
    BY <1>o, <1>p, <2>1, <2>2 DEF OneWriter, WritingCall, WritingTrace, Writing
  <2>4. NothingBack'
    BY <1>o, <1>p, <2>1, <2>2 DEF EndInv, NothingBack, Gone, WritingTrace
  <2>5. QED
    BY <1>1, <2>3, <2>4
<1>3. CASE ~PersistRead(k)
  <2>1. ~WritingTrace(k)'
    BY <1>t, <1>3 DEF Trace, StartTrace, Ping, PingRefused, PingFails, RefreshToken, PersistWrite,
                      PersistFails, EndTrace, After, WritingTrace, NoTrace, TraceTask
  <2>2. OneWriter'
    BY <1>o, <1>p, <2>1, FewerWriters DEF EndInv, WritingCall, WritingTrace
  <2>3. CASE ~PersistWrite(k)
    <3>1. map' = map
      BY <1>3, <2>3 DEF Trace, StartTrace, Ping, PingRefused, PingFails, RefreshToken,
                        PersistFails, OnlyTrace
    <3>2. NothingBack'
      BY <1>o, <1>p, <2>1, <3>1, BackStays DEF EndInv, WritingTrace
    <3>3. QED
      BY <1>1, <2>2, <3>2
  <2>4. CASE PersistWrite(k)
    <3>1. trace[k].pc = "write" /\ map' = WithConfig(trace[k].seen, "sos", trace[k].config)
      BY <2>4 DEF PersistWrite, ToPersist
    <3>2. trace[k].config \in Config
      BY <3>1 DEF EndInv, PersonType, TracesTyped
    <3>3. \A u \in Types : map'.entities[u].id = trace[k].seen.entities[u].id
      BY <1>t, <3>1, <3>2, WithConfigType, TypeNames DEF TraceTask
    <3>4. NothingBack'
      <4> SUFFICES ASSUME setting.apart PROVE NothingBack'
        BY <1>p DEF NothingBack
      <4>1. Gone(trace[k].seen)
        BY <3>1 DEF EndInv, NothingBack, WritingTrace
      <4>2. \A l \in Tasks : ~WritingTrace(l)'
        BY <1>o, <2>1, <3>1 DEF EndInv, OneWriter, WritingTrace
      <4>3. \A c \in Callers : call'[c].pc # "write"
        BY <1>p, <3>1 DEF EndInv, OneWriter, WritingCall, WritingTrace
      <4>4. Gone(map)'
        BY <1>p, <3>3, <4>1 DEF Gone
      <4>5. QED
        BY <4>2, <4>3, <4>4 DEF NothingBack
    <3>5. QED
      BY <1>1, <2>2, <3>4
  <2>5. QED
    BY <2>3, <2>4
<1>4. QED
  BY <1>2, <1>3

LEMMA EndStep == EndInv /\ [Next]_vars => EndInv'
<1> SUFFICES ASSUME EndInv, [Next]_vars PROVE EndInv'
  OBVIOUS
<1>1. PersonType'
  BY TypeStep DEF EndInv
<1>2. ASSUME UNCHANGED <<setting, map, call, live, past>>,
             \A k \in Tasks : ~WritingTrace(k)' \/ trace'[k] = trace[k]
      PROVE  EndInv'
  <2>1. CallsInTurn'
    BY <1>2, TurnsStay DEF EndInv
  <2>2. OneWriter'
    BY <1>2, FewerWriters DEF EndInv, WritingCall, WritingTrace
  <2>3. NothingBack'
    BY <1>2, BackStays DEF EndInv, WritingTrace
  <2>4. QED
    BY <1>1, <2>1, <2>2, <2>3 DEF EndInv
<1>3. CASE Tick \/ TokenExpires \/ UNCHANGED vars
  BY <1>2, <1>3 DEF Tick, TokenExpires, vars
<1>4. CASE Arrive \/ StoreLocation \/ UpdateFails
  BY <1>2, <1>4 DEF Arrive, StoreLocation, UpdateFails
<1>5. CASE SpawnTraces
  <2>1. UNCHANGED <<setting, map, call, live, past>>
    BY <1>5 DEF SpawnTraces
  <2> DEFINE alarm == map.entities["sos"]
             configs == IF alarm.pinged THEN {c \in alarm.configs : c.id = alarm.id} ELSE {}
  <2>2. \/ trace' = trace
        \/ \E config \in configs, k \in Tasks :
             trace' = [trace EXCEPT ![k] = [NoTrace EXCEPT !.pc = "start", !.config = config]]
    BY <1>5 DEF SpawnTraces, Running
  <2> HIDE DEF configs
  <2>3. \A k \in Tasks : ~WritingTrace(k)' \/ trace'[k] = trace[k]
    BY <2>2 DEF EndInv, PersonType, TracesTyped, WritingTrace, NoTrace
  <2>4. QED
    BY <1>2, <2>1, <2>3
<1>6. ASSUME NEW c \in Callers, Call(c) PROVE EndInv'
  BY <1>1, <1>6, EndCall DEF EndInv
<1>7. ASSUME NEW k \in Tasks, Trace(k) PROVE EndInv'
  BY <1>1, <1>7, EndTraceStep DEF EndInv
<1>8. QED
  BY <1>3, <1>4, <1>5, <1>6, <1>7 DEF Next

\* Neither a trace nor a call brings an entity back that has ended, as long as
\* nobody reads the map between another's read and write.
THEOREM EndedStaysGone == Spec => []EndedIsGone
<1>1. EndInv => EndedIsGone
  BY DEF EndInv, NothingBack, Gone, EndedIsGone, Listed
<1>2. QED
  BY <1>1, EndInit, EndStep, PTL DEF Spec

-----------------------------------------------------------------------------
(* What is listed, live and found. *)

\* A copy that is about to be written back is what the map is.
CopiesAgree ==
  setting.apart =>
    /\ \A c \in Callers : call[c].pc = "write" => call[c].seen = map
    /\ \A k \in Tasks : WritingTrace(k) => trace[k].seen = map

\* A call that starts an entity starts the live one of its type again, or none is live.
StartsInTurn ==
  \A c \in Callers :
    ~Idle(c) /\ call[c].op # "end" => live[call[c].type] \in {"none", call[c].id}

\* An entity in the map leads to the rider, or the call that put it there is about to
\* see to it.
Binding(t, i) == \E c \in Callers : call[c].pc = "bind" /\ call[c].type = t /\ call[c].id = i
FoundInv ==
  Orderly => \A t \in Types : \/ map.entities[t].id \in bound \cup {"none"}
                              \/ Binding(t, map.entities[t].id)

\* As long as nothing has ended, the map has what is live, and what is about to be.
NeverEnded == (\A c \in Callers : Idle(c) \/ call[c].op # "end") /\ past.ended = {}
LiveInv ==
  Orderly /\ NeverEnded =>
    /\ \A t \in Types : live[t] # "none" => map.entities[t].id = live[t]
    /\ \A c \in Callers : call[c].pc = "bind" => map.entities[call[c].type].id = call[c].id

ListInv == EndInv /\ CopiesAgree /\ StartsInTurn /\ FoundInv /\ LiveInv

LEMMA ListInit == Init => ListInv
<1> SUFFICES ASSUME Init PROVE ListInv
  OBVIOUS
<1>1. EndInv
  BY EndInit
<1>2. \A c \in Callers : Idle(c) /\ call[c].pc = "idle"
  BY DEF Init, Idle, NoCall
<1>3. \A k \in Tasks : ~WritingTrace(k)
  BY DEF Init, WritingTrace, NoTrace
<1>4. \A t \in Types : map.entities[t].id = "none" /\ live[t] = "none"
  BY DEF Init, NoMap, NoEntry
<1>5. QED
  BY <1>1, <1>2, <1>3, <1>4 DEF ListInv, CopiesAgree, StartsInTurn, FoundInv, LiveInv

\* A failing call ends the orderly part of a behaviour.
LEMMA FaultIsKept ==
  ASSUME PersonType, Fault, UNCHANGED setting
  PROVE  ~Orderly'
<1>1. budget \in [calls : Nat, updates : Nat, faults : Nat]
  BY DEF PersonType, StoreTyped
<1>2. budget'.faults = budget.faults + 1
  BY <1>1 DEF Fault
<1>3. QED
  BY <1>1, <1>2 DEF Orderly

LEMMA OrderlyStays ==
  ASSUME UNCHANGED <<setting, budget>>
  PROVE  Orderly' = Orderly
BY DEF Orderly

\* Steps that leave the calls and the map alone.
LEMMA ListStays ==
  ASSUME ListInv, Orderly' => Orderly,
         UNCHANGED <<setting, map, bound, call, live, past.ended>>,
         \A k \in Tasks : WritingTrace(k)' => WritingTrace(k) /\ trace'[k].seen = trace[k].seen
  PROVE  CopiesAgree' /\ StartsInTurn' /\ FoundInv' /\ LiveInv'
<1>1. CopiesAgree'
  BY DEF ListInv, CopiesAgree
<1>2. StartsInTurn'
  BY DEF ListInv, StartsInTurn, Idle
<1>3. FoundInv'
  BY DEF ListInv, FoundInv, Binding
<1>4. LiveInv'
  BY DEF ListInv, LiveInv, NeverEnded, Idle
<1>5. QED
  BY <1>1, <1>2, <1>3, <1>4

\* The end of what is live is not among the behaviours that never ended anything.
LEMMA ListBegin ==
  ASSUME ListInv, NEW c \in Callers, NEW t \in Types, NEW i \in IdsOf(t),
         NEW op \in {"create", "start", "end"}, NEW config,
         Begin(c, t, i, op, config),
         \/ op # "end" /\ live' = live /\ live[t] \in {"none", i}
         \/ op = "end" /\ live' = [live EXCEPT ![t] = "none"]
  PROVE  CopiesAgree' /\ StartsInTurn' /\ FoundInv' /\ LiveInv'
<1> DEFINE r == [NoCall EXCEPT !.pc = "read", !.op = op, !.type = t, !.id = i, !.config = config]
<1>1. r.pc = "read" /\ r.id = i /\ r.type = t /\ r.op = op
  BY DEF NoCall
<1>2. call' = [call EXCEPT ![c] = r] /\ Idle(c) /\ ~Ongoing(t)
  BY DEF Begin
<1> HIDE DEF r
<1>t. PersonType
  BY DEF ListInv, EndInv
<1>3. call'[c] = r /\ \A d \in Callers : d # c => call'[d] = call[d]
  BY <1>2, <1>t DEF PersonType, CallsTyped
<1>4. past'.ended = past.ended /\ UNCHANGED <<setting, map, bound, trace>>
  BY <1>t DEF Begin, PersonType, StoreTyped, Past
<1>5. Orderly' = Orderly
  <2>1. budget'.faults = budget.faults
    BY <1>t DEF Begin, PersonType, StoreTyped
  <2>2. QED
    BY <1>4, <2>1 DEF Orderly
<1>6. live \in [Types -> Ids \cup {"none"}] /\ \A d \in Callers : call[d].type \in Types
  BY <1>t DEF PersonType, StoreTyped, CallsTyped, UpsertCall
<1>7. CopiesAgree'
  BY <1>1, <1>3, <1>4 DEF ListInv, CopiesAgree, WritingTrace
<1>8. StartsInTurn'
  <2> SUFFICES ASSUME NEW d \in Callers, ~Idle(d)', call'[d].op # "end"
               PROVE  live'[call'[d].type] \in {"none", call'[d].id}
    BY DEF StartsInTurn
  <2>1. CASE d = c
    BY <1>1, <1>3, <2>1
  <2>2. CASE d # c
    <3>1. call'[d] = call[d] /\ ~Idle(d) /\ call[d].type # t
      BY <1>2, <1>3, <2>2 DEF Idle, Ongoing
    <3>2. live'[call[d].type] = live[call[d].type]
      BY <1>6, <3>1
    <3>3. QED
      BY <3>1, <3>2 DEF ListInv, StartsInTurn
  <2>3. QED
    BY <2>1, <2>2
<1>9. FoundInv'
  <2> SUFFICES ASSUME Orderly, NEW u \in Types
               PROVE  map.entities[u].id \in bound \cup {"none"}
                      \/ Binding(u, map.entities[u].id)'
    BY <1>4, <1>5 DEF FoundInv, Binding
  <2>1. ASSUME Binding(u, map.entities[u].id) PROVE Binding(u, map.entities[u].id)'
    <3>1. PICK d \in Callers : call[d].pc = "bind" /\ call[d].type = u
                               /\ call[d].id = map.entities[u].id
      BY <2>1 DEF Binding
    <3>2. call'[d] = call[d]
      BY <1>2, <1>3, <3>1 DEF Idle
    <3>3. QED
      BY <1>4, <3>1, <3>2 DEF Binding
  <2>2. QED
    BY <2>1 DEF ListInv, FoundInv
<1>10. LiveInv'
  <2> SUFFICES ASSUME Orderly, NeverEnded'
               PROVE  /\ \A u \in Types : live'[u] # "none" => map.entities[u].id = live'[u]
                      /\ \A d \in Callers :
                           call'[d].pc = "bind" => map.entities[call'[d].type].id = call'[d].id
    BY <1>4, <1>5 DEF LiveInv
  <2>1. op # "end" /\ live' = live
    BY <1>1, <1>3 DEF NeverEnded, Idle
  <2>2. NeverEnded
    BY <1>2, <1>3, <1>4 DEF NeverEnded, Idle
  <2>3. QED
    BY <1>1, <1>3, <2>1, <2>2 DEF ListInv, LiveInv
<1>11. QED
  BY <1>7, <1>8, <1>9, <1>10

\* Steps that leave the map and what is live alone and change one call.
LEMMA ListCalls ==
  ASSUME ListInv, Orderly' => Orderly, UNCHANGED <<setting, map, bound, trace, live, past>>,
         NEW c \in Callers, \A d \in Callers : d # c => call'[d] = call[d],
         call[c].pc # "bind", call'[c].pc # "bind",
         call'[c].pc = "write" => call'[c].seen = map,
         ~Idle(c)' => ~Idle(c) /\ call'[c].op = call[c].op /\ call'[c].id = call[c].id
                      /\ call'[c].type = call[c].type,
         Orderly' => (Idle(c)' => Idle(c))
  PROVE  CopiesAgree' /\ StartsInTurn' /\ FoundInv' /\ LiveInv'
<1>1. CopiesAgree'
  BY DEF ListInv, CopiesAgree, WritingTrace
<1>2. StartsInTurn'
  BY DEF ListInv, StartsInTurn, Idle
<1>3. FoundInv'
  <2> SUFFICES ASSUME Orderly, NEW u \in Types
               PROVE  map.entities[u].id \in bound \cup {"none"}
                      \/ Binding(u, map.entities[u].id)'
    BY DEF FoundInv, Binding
  <2>1. ASSUME Binding(u, map.entities[u].id) PROVE Binding(u, map.entities[u].id)'
    <3>1. PICK d \in Callers : call[d].pc = "bind" /\ call[d].type = u
                               /\ call[d].id = map.entities[u].id
      BY <2>1 DEF Binding
    <3>2. call'[d] = call[d]
      BY <3>1
    <3>3. QED
      BY <3>1, <3>2 DEF Binding
  <2>2. QED
    BY <2>1 DEF ListInv, FoundInv
<1>4. LiveInv'
  <2> SUFFICES ASSUME Orderly', NeverEnded'
               PROVE  /\ \A u \in Types : live[u] # "none" => map.entities[u].id = live[u]
                      /\ \A d \in Callers :
                           call'[d].pc = "bind" => map.entities[call'[d].type].id = call'[d].id
    BY DEF LiveInv
  <2>1. NeverEnded
    BY DEF NeverEnded, Idle
  <2>2. QED
    BY <2>1 DEF ListInv, LiveInv
<1>5. QED
  BY <1>1, <1>2, <1>3, <1>4

LEMMA ListAdd ==
  ASSUME ListInv, NEW c \in Callers, AddEntity(c)
  PROVE  CopiesAgree' /\ StartsInTurn' /\ FoundInv' /\ LiveInv'
<1> DEFINE t == call[c].type
           i == call[c].id
<1>t. EndInv /\ PersonType /\ OneWriter /\ call[c] \in UpsertCall /\ call \in [Callers -> UpsertCall]
  BY DEF ListInv, EndInv, PersonType, CallsTyped
<1>1. call' = [call EXCEPT ![c] = [call[c] EXCEPT !.pc = "bind", !.seen = NoMap]]
      /\ call[c].pc = "write" /\ call[c].op # "end"
      /\ UNCHANGED <<setting, bound, trace, live, past, budget>>
  BY DEF AddEntity
<1>2. /\ call'[c].pc = "bind" /\ call'[c].op = call[c].op
      /\ call'[c].id = i /\ call'[c].type = t
      /\ \A d \in Callers : d # c => call'[d] = call[d]
  BY <1>t, <1>1 DEF UpsertCall
<1>3. t \in Types /\ \A d \in Callers : call[d].type \in Types
  BY <1>t DEF UpsertCall
<1>4. ~Idle(c) /\ WritingCall(c)
  BY <1>1 DEF Idle, WritingCall
<1>5. Orderly' = Orderly
  BY <1>1, OrderlyStays
<1>6. \A u \in Types : map'.entities[u].id = IF u = t THEN i ELSE call[c].seen.entities[u].id
  <2>1. /\ call[c].seen.entities \in [Types -> AnyEntry]
        /\ map'.entities = [call[c].seen.entities EXCEPT ![t] = Entry(call[c])]
    BY <1>t, <1>3, EntryOfMap DEF AddEntity, Inserted, UpsertCall
  <2>2. Entry(call[c]).id = i
    BY DEF Entry
  <2>3. QED
    BY <1>3, <2>1, <2>2
<1>7. setting.apart => \A u \in Types : u # t => map'.entities[u].id = map.entities[u].id
  BY <1>1, <1>6 DEF ListInv, CopiesAgree
<1>u. \A d \in Callers : ~Idle(d) /\ d # c => call[d].type # t
  BY <1>t, <1>4 DEF EndInv, CallsInTurn
<1> HIDE DEF t, i
<1>8. CopiesAgree'
  <2> SUFFICES ASSUME setting.apart PROVE CopiesAgree'
    BY <1>1 DEF CopiesAgree
  <2>1. \A d \in Callers : call'[d].pc # "write"
    BY <1>t, <1>2, <1>4, WriterAlone DEF WritingCall
  <2>2. \A k \in Tasks : ~WritingTrace(k)'
    BY <1>t, <1>1, <1>4, WriterAlone DEF WritingTrace
  <2>3. QED
    BY <2>1, <2>2 DEF CopiesAgree
<1>9. StartsInTurn'
  BY <1>1, <1>2, <1>4 DEF ListInv, StartsInTurn, Idle, t, i
<1>10. FoundInv'
  <2> SUFFICES ASSUME Orderly, NEW u \in Types
               PROVE  map'.entities[u].id \in bound \cup {"none"}
                      \/ Binding(u, map.entities[u].id)'
    BY <1>1, <1>5 DEF FoundInv
  <2>1. CASE u = t
    BY <1>2, <1>6, <2>1 DEF Binding
  <2>2. CASE u # t
    <3>1. map'.entities[u].id = map.entities[u].id
      BY <1>7, <2>2 DEF Orderly
    <3>2. ASSUME Binding(u, map.entities[u].id) PROVE Binding(u, map.entities[u].id)'
      <4>1. PICK d \in Callers : call[d].pc = "bind" /\ call[d].type = u
                                 /\ call[d].id = map.entities[u].id
        BY <3>2 DEF Binding
      <4>2. call'[d] = call[d]
        BY <1>1, <1>2, <4>1
      <4>3. QED
        BY <3>1, <4>1, <4>2 DEF Binding
    <3>3. QED
      BY <3>1, <3>2 DEF ListInv, FoundInv
  <2>3. QED
    BY <2>1, <2>2
<1>11. LiveInv'
  <2> SUFFICES ASSUME Orderly, NeverEnded'
               PROVE  /\ \A u \in Types : live[u] # "none" => map'.entities[u].id = live[u]
                      /\ \A d \in Callers :
                           call'[d].pc = "bind" => map'.entities[call'[d].type].id = call'[d].id
    BY <1>1, <1>5 DEF LiveInv
  <2>1. NeverEnded
    BY <1>1, <1>2 DEF NeverEnded, Idle
  <2>2. /\ \A u \in Types : live[u] # "none" => map.entities[u].id = live[u]
        /\ \A d \in Callers : call[d].pc = "bind" => map.entities[call[d].type].id = call[d].id
    BY <2>1 DEF ListInv, LiveInv
  <2>3. live[t] \in {"none", i}
    BY <1>1, <1>4 DEF ListInv, StartsInTurn, t, i
  <2>4. \A u \in Types : live[u] # "none" => map'.entities[u].id = live[u]
    BY <1>6, <1>7, <2>2, <2>3 DEF Orderly
  <2>5. ASSUME NEW d \in Callers, call'[d].pc = "bind"
        PROVE  map'.entities[call'[d].type].id = call'[d].id
    <3>1. CASE d = c
      BY <1>2, <1>3, <1>6, <3>1
    <3>2. CASE d # c
      <4>1. call'[d] = call[d] /\ call[d].type # t
        BY <1>2, <1>u, <2>5, <3>2 DEF Idle
      <4>2. QED
        BY <1>3, <1>7, <2>2, <2>5, <4>1 DEF Orderly
    <3>3. QED
      BY <3>1, <3>2
  <2>6. QED
    BY <2>4, <2>5
<1>12. QED
  BY <1>8, <1>9, <1>10, <1>11

LEMMA ListBind ==
  ASSUME ListInv, NEW c \in Callers, BindPerson(c)
  PROVE  CopiesAgree' /\ StartsInTurn' /\ FoundInv' /\ LiveInv'
<1>t. EndInv /\ PersonType /\ call \in [Callers -> UpsertCall] /\ call[c] \in UpsertCall
      /\ live \in [Types -> Ids \cup {"none"}]
  BY DEF ListInv, EndInv, PersonType, CallsTyped, StoreTyped
<1>1. /\ call' = [call EXCEPT ![c] = NoCall] /\ call[c].pc = "bind"
      /\ live' = [live EXCEPT ![call[c].type] = call[c].id]
      /\ bound' = bound \cup {call[c].id}
      /\ UNCHANGED <<setting, map, trace, past, budget>>
  BY DEF BindPerson, Bound
<1>2. call'[c] = NoCall /\ NoCall.pc = "idle" /\ \A d \in Callers : d # c => call'[d] = call[d]
  BY <1>t, <1>1 DEF NoCall
<1>3. \A d \in Callers : call[d].type \in Types
  BY <1>t DEF UpsertCall
<1>4. Orderly' = Orderly /\ ~Idle(c) /\ call[c].op # "end"
  BY <1>t, <1>1, OrderlyStays DEF Idle, EndInv, CallsInTurn
<1>u. \A d \in Callers : ~Idle(d) /\ d # c => call[d].type # call[c].type
  BY <1>t, <1>4 DEF EndInv, CallsInTurn
<1>5. CopiesAgree'
  BY <1>1, <1>2 DEF ListInv, CopiesAgree, WritingTrace
<1>6. StartsInTurn'
  <2> SUFFICES ASSUME NEW d \in Callers, ~Idle(d)', call'[d].op # "end"
               PROVE  live'[call'[d].type] \in {"none", call'[d].id}
    BY DEF StartsInTurn
  <2>1. d # c /\ call'[d] = call[d] /\ ~Idle(d)
    BY <1>2 DEF Idle
  <2>2. live'[call[d].type] = live[call[d].type]
    BY <1>t, <1>1, <1>3, <1>u, <2>1
  <2>3. QED
    BY <2>1, <2>2 DEF ListInv, StartsInTurn
<1>7. FoundInv'
  <2> SUFFICES ASSUME Orderly, NEW u \in Types
               PROVE  map.entities[u].id \in bound' \cup {"none"}
                      \/ Binding(u, map.entities[u].id)'
    BY <1>1, <1>4 DEF FoundInv
  <2>1. ASSUME Binding(u, map.entities[u].id)
        PROVE  map.entities[u].id \in bound' \/ Binding(u, map.entities[u].id)'
    <3>1. PICK d \in Callers : call[d].pc = "bind" /\ call[d].type = u
                               /\ call[d].id = map.entities[u].id
      BY <2>1 DEF Binding
    <3>2. CASE d = c
      BY <1>1, <3>1, <3>2
    <3>3. CASE d # c
      BY <1>1, <1>2, <3>1, <3>3 DEF Binding
    <3>4. QED
      BY <3>2, <3>3
  <2>2. QED
    BY <1>1, <2>1 DEF ListInv, FoundInv
<1>8. LiveInv'
  <2> SUFFICES ASSUME Orderly, NeverEnded'
               PROVE  /\ \A u \in Types : live'[u] # "none" => map.entities[u].id = live'[u]
                      /\ \A d \in Callers :
                           call'[d].pc = "bind" => map.entities[call'[d].type].id = call'[d].id
    BY <1>1, <1>4 DEF LiveInv
  <2>1. NeverEnded
    BY <1>1, <1>2, <1>4 DEF NeverEnded, Idle
  <2>2. /\ \A u \in Types : live[u] # "none" => map.entities[u].id = live[u]
        /\ \A d \in Callers : call[d].pc = "bind" => map.entities[call[d].type].id = call[d].id
    BY <2>1 DEF ListInv, LiveInv, Orderly
  <2>3. QED
    BY <1>t, <1>1, <1>2, <2>2
<1>9. QED
  BY <1>5, <1>6, <1>7, <1>8

\* The end of an entity takes entities out of the map and puts none in.
LEMMA ListRemove ==
  ASSUME ListInv, NEW c \in Callers, RemoveEntity(c)
  PROVE  CopiesAgree' /\ StartsInTurn' /\ FoundInv' /\ LiveInv'
<1>t. EndInv /\ PersonType /\ OneWriter /\ call \in [Callers -> UpsertCall] /\ call[c] \in UpsertCall
  BY DEF ListInv, EndInv, PersonType, CallsTyped
<1>1. /\ call' = [call EXCEPT ![c] = [call[c] EXCEPT !.pc = "clean", !.seen = NoMap]]
      /\ call[c].pc = "write" /\ call[c].op = "end"
      /\ UNCHANGED <<setting, bound, trace, live, past, budget>>
      /\ map' = IF call[c].seen.known THEN Removed(call[c].seen, call[c].type) ELSE map
  BY DEF RemoveEntity
<1>2. /\ call'[c].pc = "clean" /\ call'[c].op = "end"
      /\ \A d \in Callers : d # c => call'[d] = call[d]
  BY <1>t, <1>1 DEF UpsertCall
<1>3. Orderly' = Orderly /\ WritingCall(c)
  BY <1>1, OrderlyStays DEF WritingCall
<1>4. \A u \in Types : \/ map'.entities[u].id = "none"
                       \/ map'.entities[u].id = call[c].seen.entities[u].id
                       \/ map'.entities[u].id = map.entities[u].id
  <2>1. ASSUME map' = [call[c].seen EXCEPT !.entities[call[c].type] = NoEntry]
        PROVE  \A u \in Types : \/ map'.entities[u].id = "none"
                                \/ map'.entities[u].id = call[c].seen.entities[u].id
    <3>1. call[c].seen \in Map /\ call[c].type \in Types
      BY <1>t DEF UpsertCall
    <3>2. map'.entities = [call[c].seen.entities EXCEPT ![call[c].type] = NoEntry]
      BY <2>1, <3>1 DEF Map
    <3>3. call[c].seen.entities \in [Types -> AnyEntry]
      BY <3>1, EntryOfMap
    <3>4. QED
      BY <3>2, <3>3 DEF NoEntry
  <2>2. \A u \in Types : NoMap.entities[u].id = "none"
    BY DEF NoMap, NoEntry
  <2>3. QED
    BY <1>1, <2>1, <2>2 DEF Removed
<1>5. setting.apart => \A u \in Types : \/ map'.entities[u].id = "none"
                                        \/ map'.entities[u].id = map.entities[u].id
  BY <1>1, <1>4 DEF ListInv, CopiesAgree
<1>6. CopiesAgree'
  <2> SUFFICES ASSUME setting.apart PROVE CopiesAgree'
    BY <1>1 DEF CopiesAgree
  <2>1. \A d \in Callers : call'[d].pc # "write"
    BY <1>t, <1>2, <1>3, WriterAlone DEF WritingCall
  <2>2. \A k \in Tasks : ~WritingTrace(k)'
    BY <1>t, <1>1, <1>3, WriterAlone DEF WritingTrace
  <2>3. QED
    BY <2>1, <2>2 DEF CopiesAgree
<1>7. StartsInTurn'
  BY <1>1, <1>2 DEF ListInv, StartsInTurn, Idle
<1>8. FoundInv'
  <2> SUFFICES ASSUME Orderly, NEW u \in Types
               PROVE  map'.entities[u].id \in bound \cup {"none"}
                      \/ Binding(u, map.entities[u].id)'
    BY <1>1, <1>3 DEF FoundInv
  <2>1. CASE map'.entities[u].id = "none"
    BY <2>1
  <2>2. CASE map'.entities[u].id = map.entities[u].id
    <3>1. ASSUME Binding(u, map.entities[u].id) PROVE Binding(u, map.entities[u].id)'
      <4>1. PICK d \in Callers : call[d].pc = "bind" /\ call[d].type = u
                                 /\ call[d].id = map.entities[u].id
        BY <3>1 DEF Binding
      <4>2. call'[d] = call[d]
        BY <1>1, <1>2, <4>1
      <4>3. QED
        BY <2>2, <4>1, <4>2 DEF Binding
    <3>2. QED
      BY <2>2, <3>1 DEF ListInv, FoundInv
  <2>3. QED
    BY <1>5, <2>1, <2>2 DEF Orderly
<1>9. LiveInv'
  BY <1>2 DEF LiveInv, NeverEnded, Idle
<1>10. QED
  BY <1>6, <1>7, <1>8, <1>9

LEMMA ListCleanUp ==
  ASSUME ListInv, NEW c \in Callers, CleanUp(c)
  PROVE  CopiesAgree' /\ StartsInTurn' /\ FoundInv' /\ LiveInv'
<1>t. EndInv /\ PersonType /\ OneWriter /\ call \in [Callers -> UpsertCall] /\ past \in Past
  BY DEF ListInv, EndInv, PersonType, CallsTyped, StoreTyped
<1>1. /\ call' = [call EXCEPT ![c] = NoCall] /\ call[c].pc = "clean"
      /\ map' = NoMap
      /\ UNCHANGED <<setting, trace, live>>
  BY DEF CleanUp
<1>2. call'[c] = NoCall /\ NoCall.pc = "idle" /\ \A d \in Callers : d # c => call'[d] = call[d]
  BY <1>t, <1>1 DEF NoCall
<1>3. past'.ended # {}
  BY <1>t DEF CleanUp, Past
<1>4. CopiesAgree'
  <2> SUFFICES ASSUME setting.apart PROVE CopiesAgree'
    BY <1>1 DEF CopiesAgree
  <2>1. WritingCall(c)
    BY <1>1 DEF WritingCall
  <2>2. \A d \in Callers : call'[d].pc # "write"
    BY <1>t, <1>2, <2>1, WriterAlone DEF WritingCall
  <2>3. \A k \in Tasks : ~WritingTrace(k)'
    BY <1>t, <1>1, <2>1, WriterAlone DEF WritingTrace
  <2>4. QED
    BY <2>2, <2>3 DEF CopiesAgree
<1>5. StartsInTurn'
  BY <1>1, <1>2 DEF ListInv, StartsInTurn, Idle
<1>6. FoundInv'
  BY <1>1 DEF FoundInv, NoMap, NoEntry
<1>7. LiveInv'
  BY <1>3 DEF LiveInv, NeverEnded
<1>8. QED
  BY <1>4, <1>5, <1>6, <1>7

LEMMA ListCall ==
  ASSUME ListInv, NEW c \in Callers, Call(c)
  PROVE  CopiesAgree' /\ StartsInTurn' /\ FoundInv' /\ LiveInv'
<1>t. EndInv /\ PersonType /\ call \in [Callers -> UpsertCall] /\ call[c] \in UpsertCall
  BY DEF ListInv, EndInv, PersonType, CallsTyped
<1>1. ASSUME NEW t \in Types, NEW i \in Ids, EntityStart(c, t, i)
      PROVE  CopiesAgree' /\ StartsInTurn' /\ FoundInv' /\ LiveInv'
  <2>1. PICK config \in BOOLEAN : Begin(c, t, i, "start", config)
    BY <1>1 DEF EntityStart
  <2>2. i \in IdsOf(t) /\ live' = live /\ live[t] \in {"none", i}
    BY <1>1 DEF EntityStart
  <2>3. QED
    BY <2>1, <2>2, ListBegin
<1>2. ASSUME NEW i \in Rides, EntityCreate(c, i)
      PROVE  CopiesAgree' /\ StartsInTurn' /\ FoundInv' /\ LiveInv'
  <2>1. Begin(c, "ride", i, "create", FALSE) /\ live' = live /\ i \in IdsOf("ride")
        /\ live["ride"] = "none"
    BY <1>2 DEF EntityCreate, IdsOf
  <2>2. QED
    BY <2>1, ListBegin, TypeNames
<1>3. ASSUME NEW t \in Types, EntityEnd(c, t)
      PROVE  CopiesAgree' /\ StartsInTurn' /\ FoundInv' /\ LiveInv'
  <2>1. Begin(c, t, live[t], "end", FALSE) /\ live' = [live EXCEPT ![t] = "none"]
        /\ live[t] \in IdsOf(t)
    BY <1>3, <1>t DEF EntityEnd, PersonType, StoreTyped
  <2>2. QED
    BY <2>1, ListBegin
<1>4. CASE ReadMap(c)
  <2>1. call' = [call EXCEPT ![c] = [call[c] EXCEPT !.pc = "write", !.seen = map]]
        /\ call[c].pc = "read"
        /\ UNCHANGED <<setting, map, bound, trace, live, past, budget>>
    BY <1>4 DEF ReadMap
  <2>2. /\ call'[c].pc = "write" /\ call'[c].seen = map /\ call'[c].op = call[c].op
        /\ call'[c].id = call[c].id /\ call'[c].type = call[c].type
        /\ \A d \in Callers : d # c => call'[d] = call[d]
    BY <1>t, <2>1 DEF UpsertCall
  <2>3. Orderly' = Orderly /\ ~Idle(c) /\ ~Idle(c)'
    BY <2>1, <2>2, OrderlyStays DEF Idle
  <2>4. QED
    BY <2>1, <2>2, <2>3, ListCalls
<1>5. CASE CallFails(c)
  <2>1. /\ call' = [call EXCEPT ![c] = NoCall]
        /\ UNCHANGED <<setting, map, bound, trace, live, past>> /\ ~Orderly'
    BY <1>5, <1>t, FaultIsKept DEF CallFails
  <2>2. call'[c] = NoCall /\ NoCall.pc = "idle" /\ \A d \in Callers : d # c => call'[d] = call[d]
    BY <1>t, <2>1 DEF NoCall
  <2>3. CopiesAgree'
    BY <2>1, <2>2 DEF ListInv, CopiesAgree, WritingTrace
  <2>4. StartsInTurn'
    BY <2>1, <2>2 DEF ListInv, StartsInTurn, Idle
  <2>5. QED
    BY <2>1, <2>3, <2>4 DEF FoundInv, LiveInv
<1>6. QED
  BY <1>1, <1>2, <1>3, <1>4, <1>5, ListAdd, ListBind, ListRemove, ListCleanUp DEF Call

LEMMA ListTrace ==
  ASSUME ListInv, NEW k \in Tasks, Trace(k)
  PROVE  CopiesAgree' /\ StartsInTurn' /\ FoundInv' /\ LiveInv'
<1>t. /\ EndInv /\ PersonType /\ OneWriter
      /\ trace \in [Tasks -> TraceTask] /\ trace[k] \in TraceTask
  BY DEF ListInv, EndInv, PersonType, TracesTyped
<1>p. UNCHANGED <<setting, bound, call, live, past.ended>>
  BY <1>t DEF Trace, StartTrace, Ping, PingRefused, PingFails, RefreshToken, PersistRead,
              PersistWrite, PersistFails, OnlyTrace, PersonType, StoreTyped, Past
<1>f. Orderly' => Orderly
  <2>1. CASE PingFails(k) \/ PersistFails(k)
    BY <1>t, <2>1, FaultIsKept DEF PingFails, PersistFails
  <2>2. CASE ~(PingFails(k) \/ PersistFails(k))
    BY <1>p, <2>2, OrderlyStays DEF Trace, StartTrace, Ping, PingRefused, RefreshToken,
                                    PersistRead, PersistWrite, OnlyTrace
  <2>3. QED
    BY <2>1, <2>2
<1>o. \A l \in Tasks : l # k => trace'[l] = trace[l]
  BY <1>t DEF Trace, StartTrace, Ping, PingRefused, PingFails, RefreshToken, PersistRead,
              PersistWrite, PersistFails, EndTrace, After
<1>1. CASE PersistRead(k)
  <2>1. trace'[k].seen = map /\ map' = map
    BY <1>1, <1>t DEF PersistRead, OnlyTrace, TraceTask
  <2>2. CopiesAgree'
    BY <1>o, <1>p, <2>1 DEF ListInv, CopiesAgree, WritingTrace
  <2>3. StartsInTurn'
    BY <1>p DEF ListInv, StartsInTurn, Idle
  <2>4. FoundInv'
    BY <1>f, <1>p, <2>1 DEF ListInv, FoundInv, Binding
  <2>5. LiveInv'
    BY <1>f, <1>p, <2>1 DEF ListInv, LiveInv, NeverEnded, Idle
  <2>6. QED
    BY <2>2, <2>3, <2>4, <2>5
<1>2. CASE PersistWrite(k)
  <2>1. trace[k].pc = "write" /\ map' = WithConfig(trace[k].seen, "sos", trace[k].config)
    BY <1>2 DEF PersistWrite, ToPersist
  <2>2. trace[k].config \in Config
    BY <1>t, <2>1 DEF PersonType, TracesTyped
  <2>3. \A u \in Types : map'.entities[u].id = trace[k].seen.entities[u].id
    BY <1>t, <2>1, <2>2, WithConfigType, TypeNames DEF TraceTask
  <2>4. setting.apart => \A u \in Types : map'.entities[u].id = map.entities[u].id
    BY <2>1, <2>3 DEF ListInv, CopiesAgree, WritingTrace
  <2>5. CopiesAgree'
    <3> SUFFICES ASSUME setting.apart PROVE CopiesAgree'
      BY <1>p DEF CopiesAgree
    <3>1. trace'[k].pc # "write"
      BY <1>2, <1>t DEF PersistWrite, After, EndTrace, NoTrace, TraceTask
    <3>2. \A l \in Tasks : ~WritingTrace(l)'
      BY <1>o, <1>t, <2>1, <3>1 DEF OneWriter, WritingTrace
    <3>3. \A c \in Callers : call'[c].pc # "write"
      BY <1>p, <1>t, <2>1 DEF OneWriter, WritingCall, WritingTrace
    <3>4. QED
      BY <3>2, <3>3 DEF CopiesAgree
  <2>6. StartsInTurn'
    BY <1>p DEF ListInv, StartsInTurn, Idle
  <2>7. FoundInv'
    BY <1>f, <1>p, <2>4 DEF ListInv, FoundInv, Binding, Orderly
  <2>8. LiveInv'
    <3>1. \A c \in Callers : call[c].type \in Types
      BY <1>t DEF PersonType, CallsTyped, UpsertCall
    <3>2. QED
      BY <1>f, <1>p, <2>4, <3>1 DEF ListInv, LiveInv, NeverEnded, Idle, Orderly
  <2>9. QED
    BY <2>5, <2>6, <2>7, <2>8
<1>3. CASE ~PersistRead(k) /\ ~PersistWrite(k)
  <2>1. map' = map
    BY <1>3 DEF Trace, StartTrace, Ping, PingRefused, PingFails, RefreshToken,
                PersistFails, OnlyTrace
  <2>2. ~WritingTrace(k)'
    BY <1>t, <1>3 DEF Trace, StartTrace, Ping, PingRefused, PingFails, RefreshToken,
                      PersistFails, EndTrace, After, WritingTrace, NoTrace, TraceTask
  <2>3. \A l \in Tasks : WritingTrace(l)' => WritingTrace(l) /\ trace'[l].seen = trace[l].seen
    BY <1>o, <2>2 DEF WritingTrace
  <2>4. QED
    BY <1>f, <1>p, <2>1, <2>3, ListStays
<1>4. QED
  BY <1>1, <1>2, <1>3

LEMMA ListStep == ListInv /\ [Next]_vars => ListInv'
<1> SUFFICES ASSUME ListInv, [Next]_vars PROVE ListInv'
  OBVIOUS
<1>1. EndInv' /\ PersonType
  BY EndStep DEF ListInv, EndInv
<1>2. CASE Tick \/ TokenExpires \/ UNCHANGED vars \/ Arrive \/ StoreLocation \/ UpdateFails
  <2>1. UNCHANGED <<setting, map, bound, call, trace, live, past>>
    BY <1>2 DEF Tick, TokenExpires, vars, Arrive, StoreLocation, UpdateFails
  <2>2. Orderly' => Orderly
    <3>1. CASE UpdateFails
      BY <1>1, <2>1, <3>1, FaultIsKept DEF UpdateFails
    <3>2. CASE Arrive
      BY <1>1, <2>1, <3>2 DEF Arrive, Orderly, PersonType, StoreTyped
    <3>3. CASE Tick \/ TokenExpires \/ UNCHANGED vars \/ StoreLocation
      BY <2>1, <3>3, OrderlyStays DEF Tick, TokenExpires, vars, StoreLocation
    <3>4. QED
      BY <1>2, <3>1, <3>2, <3>3
  <2>3. QED
    BY <1>1, <2>1, <2>2, ListStays DEF ListInv, WritingTrace
<1>3. CASE SpawnTraces
  <2>1. UNCHANGED <<setting, map, bound, call, live, past, budget>>
    BY <1>3 DEF SpawnTraces
  <2> DEFINE alarm == map.entities["sos"]
             configs == IF alarm.pinged THEN {c \in alarm.configs : c.id = alarm.id} ELSE {}
  <2>2. \/ trace' = trace
        \/ \E config \in configs, k \in Tasks :
             trace' = [trace EXCEPT ![k] = [NoTrace EXCEPT !.pc = "start", !.config = config]]
    BY <1>3 DEF SpawnTraces, Running
  <2> HIDE DEF configs
  <2>3. \A k \in Tasks : WritingTrace(k)' => WritingTrace(k) /\ trace'[k].seen = trace[k].seen
    BY <1>1, <2>2 DEF PersonType, TracesTyped, WritingTrace, NoTrace
  <2>4. Orderly' => Orderly
    BY <2>1, OrderlyStays
  <2>5. QED
    BY <1>1, <2>1, <2>3, <2>4, ListStays DEF ListInv
<1>4. ASSUME NEW c \in Callers, Call(c) PROVE ListInv'
  BY <1>1, <1>4, ListCall DEF ListInv
<1>5. ASSUME NEW k \in Tasks, Trace(k) PROVE ListInv'
  BY <1>1, <1>5, ListTrace DEF ListInv
<1>6. QED
  BY <1>2, <1>3, <1>4, <1>5 DEF Next

\* While nothing fails, and nobody reads the map between another's read and write,
\* what has been started stays in the map until something ends.
THEOREM LiveStaysListed == Spec => []LiveIsListed
<1>1. ListInv => LiveIsListed
  BY DEF ListInv, LiveInv, NeverEnded, LiveIsListed, StartedStays, Listed
<1>2. QED
  BY <1>1, ListInit, ListStep, PTL DEF Spec

\* Then whatever the map has leads to the rider, unless its start is under way.
THEOREM ListedLeadsToRider == Spec => []ListedIsFound
<1>1. ListInv => ListedIsFound
  BY DEF ListInv, FoundInv, Binding, ListedIsFound, Ongoing, Idle
<1>2. QED
  BY <1>1, ListInit, ListStep, PTL DEF Spec

-----------------------------------------------------------------------------
(* Configurations of broadcasters, with one trace at a time. *)

Alone == Orderly /\ setting.tasks = 1
Configs(t) == map.entities[t].configs

\* What is stored belongs to an entity that has been used, and its token has been
\* a good one; an entity has one configuration.
Owned ==
  \A t \in Types : \A d \in Configs(t) : d.id \in IdsOf(t) \cap past.used /\ d.token <= token
Single == \A t \in Types : \A d, e \in Configs(t) : d.id = e.id => d = e
PingedIsUsed == \A i \in Ids : past.begun[i] # Never => i \in past.used

\* An alarm that is started has left nothing yet.
Starting(c) == call[c].pc \in {"read", "write"} /\ call[c].op # "end" /\ call[c].type = "sos"
Unknown(i) ==
  /\ past.begun[i] = Never
  /\ \A d \in Configs("sos") : d.id # i
  /\ \A k \in Running : trace[k].config.id # i
StartsFresh == \A c \in Callers : Starting(c) => Unknown(call[c].id)

\* The copy of the one trace is at least as new as what is stored, and has the time of
\* the last ping; between its check and its ping a ping is due.
Overdue(me) == me.config.traced = Never \/ me.at - me.config.traced >= Interval
Current(k) ==
  /\ trace[k].config.id \in Alarms \cap past.used
  /\ trace[k].config.token <= token
  /\ trace[k].config.traced = past.begun[trace[k].config.id]
  /\ trace[k].pc \in {"send", "refresh", "resend"} \/ trace[k].next = "resend"
       => Overdue(trace[k])
  /\ \A d \in Configs("sos") : d.id = trace[k].config.id => d.token <= trace[k].config.token
OneTrace == \A k, l \in Running : k = l

\* What is stored has the time of the last ping, or the trace is about to store it.
Unsaved(i) ==
  \E k \in Running : trace[k].config.id = i /\ trace[k].pc \in {"read", "write"}
                     /\ trace[k].next = "idle"
Saved == \A d \in Configs("sos") : d.traced = past.begun[d.id] \/ Unsaved(d.id)

ConfigsKept ==
  /\ Owned /\ Single /\ PingedIsUsed /\ StartsFresh
  /\ OneTrace /\ (\A k \in Running : Current(k)) /\ Saved
ConfigInv == ListInv /\ (Alone => ConfigsKept)

LEMMA ConfigInit == Init => ConfigInv
<1> SUFFICES ASSUME Init PROVE ConfigInv
  OBVIOUS
<1>1. \A t \in Types : Configs(t) = {}
  BY DEF Init, Configs, NoMap, NoEntry
<1>2. \A k \in Tasks : k \notin Running
  BY DEF Init, Running, NoTrace
<1>3. \A c \in Callers : ~Starting(c)
  BY DEF Init, Starting, NoCall
<1>4. PingedIsUsed
  BY DEF Init, PingedIsUsed
<1>5. Running = {}
  BY <1>2 DEF Running
<1>6. Owned /\ Single /\ StartsFresh /\ Saved
  BY <1>1, <1>3, TypeNames DEF Owned, Single, StartsFresh, Saved
<1>7. QED
  BY <1>4, <1>5, <1>6, ListInit DEF ConfigInv, ConfigsKept, OneTrace

LEMMA ConfigTypes ==
  ASSUME PersonType
  PROVE  /\ now \in 0 .. MaxTime /\ token \in 0 .. MaxToken
         /\ \A t \in Types : Configs(t) \subseteq Config
         /\ \A i \in Ids : past.begun[i] \in {Never} \cup (0 .. MaxTime)
         /\ \A k \in Running : trace[k].config \in Config /\ trace[k].at \in 0 .. MaxTime
         /\ Alarms \subseteq Ids /\ IdsOf("sos") = Alarms
         /\ {Interval, MaxTime, MaxToken} \subseteq Nat
<1>1. \A t \in Types : Configs(t) \subseteq Config
  BY EntryOfMap DEF PersonType, StoreTyped, Configs, AnyEntry
<1>2. \A i \in Ids : past.begun[i] \in {Never} \cup (0 .. MaxTime)
  BY DEF PersonType, StoreTyped, Past
<1>3. \A k \in Running : trace[k].config \in Config /\ trace[k].at \in 0 .. MaxTime
  BY DEF PersonType, TracesTyped, TraceTask, Running
<1>4. QED
  BY <1>1, <1>2, <1>3, BoundsAssumption DEF PersonType, StoreTyped, Ids, IdsOf

LEMMA FreshStays ==
  ASSUME StartsFresh, UNCHANGED <<trace, past.begun>>, Configs("sos")' \subseteq Configs("sos"),
         \A c \in Callers : Starting(c)' => Starting(c) /\ call'[c].id = call[c].id
  PROVE  StartsFresh'
BY DEF StartsFresh, Unknown, Running

\* Steps that leave the traces alone and store no configuration.
LEMMA KeptWithout ==
  ASSUME PersonType, PersonType', ConfigsKept, UNCHANGED <<trace, past.begun>>,
         past.used \subseteq past'.used, token <= token',
         \A t \in Types : Configs(t)' \subseteq Configs(t),
         StartsFresh'
  PROVE  ConfigsKept'
<1>1. Running' = Running
  BY DEF Running
<1>2. Configs("sos")' \subseteq Configs("sos")
  BY TypeNames
<1>3. token \in Nat /\ token' \in Nat
  BY ConfigTypes DEF PersonType, StoreTyped
<1>4. Owned'
  <2> SUFFICES ASSUME NEW t \in Types, NEW d \in Configs(t)'
               PROVE  d.id \in IdsOf(t) \cap past'.used /\ d.token <= token'
    BY DEF Owned
  <2>1. d \in Configs(t) /\ d.token \in Nat
    BY ConfigTypes DEF Config
  <2>2. d.id \in IdsOf(t) \cap past.used /\ d.token <= token
    BY <2>1 DEF ConfigsKept, Owned
  <2>3. QED
    BY <1>3, <2>1, <2>2
<1>5. Single' /\ PingedIsUsed'
  BY DEF ConfigsKept, Single, PingedIsUsed
<1>6. OneTrace'
  BY <1>1 DEF ConfigsKept, OneTrace
<1>7. ASSUME NEW k \in Running PROVE Current(k)'
  <2>1. Current(k) /\ trace[k].config.token \in Nat
    BY ConfigTypes DEF ConfigsKept, Config
  <2>2. trace[k].config.token <= token'
    BY <1>3, <2>1 DEF Current
  <2>3. QED
    BY <1>2, <2>1, <2>2 DEF Current, Overdue
<1>8. Saved'
  <2>1. \A d : Unsaved(d.id)' = Unsaved(d.id)
    BY <1>1 DEF Unsaved
  <2>2. QED
    BY <1>2, <2>1 DEF ConfigsKept, Saved
<1>9. QED
  BY <1>1, <1>4, <1>5, <1>6, <1>7, <1>8 DEF ConfigsKept

LEMMA KeptBegin ==
  ASSUME PersonType, PersonType', ConfigsKept,
         NEW c \in Callers, NEW t \in Types, NEW i \in IdsOf(t),
         NEW op \in {"create", "start", "end"}, NEW config,
         Begin(c, t, i, op, config),
         op = "end" \/ t # "sos" \/ i \notin past.used
  PROVE  ConfigsKept'
<1> DEFINE r == [NoCall EXCEPT !.pc = "read", !.op = op, !.type = t, !.id = i, !.config = config]
<1>1. r.pc = "read" /\ r.id = i /\ r.type = t /\ r.op = op
  BY DEF NoCall
<1>2. call' = [call EXCEPT ![c] = r]
  BY DEF Begin
<1> HIDE DEF r
<1>3. call'[c] = r /\ \A d \in Callers : d # c => call'[d] = call[d]
  BY <1>2 DEF PersonType, CallsTyped
<1>4. UNCHANGED <<map, token, trace, past.begun>> /\ past'.used = past.used \cup {i}
  BY DEF Begin, PersonType, StoreTyped, Past
<1>5. \A u \in Types : Configs(u)' = Configs(u)
  BY <1>4 DEF Configs
<1>6. StartsFresh'
  <2> SUFFICES ASSUME NEW d \in Callers, Starting(d)'
               PROVE  /\ past'.begun[call'[d].id] = Never
                      /\ \A e \in Configs("sos")' : e.id # call'[d].id
                      /\ \A k \in Running' : trace'[k].config.id # call'[d].id
    BY DEF StartsFresh, Unknown
  <2>1. Running' = Running /\ Configs("sos")' = Configs("sos")
    BY <1>4, <1>5, TypeNames DEF Running
  <2>2. CASE d # c
    <3>1. Starting(d) /\ call'[d] = call[d]
      BY <1>3, <2>2 DEF Starting
    <3>2. Unknown(call[d].id)
      BY <3>1 DEF ConfigsKept, StartsFresh
    <3>3. QED
      BY <1>4, <2>1, <3>1, <3>2 DEF Unknown
  <2>3. CASE d = c
    <3>1. i \notin past.used /\ call'[d].id = i /\ i \in Ids
      BY <1>1, <1>3, <2>3, TypeNames DEF Starting
    <3>2. past.begun[i] = Never
      BY <3>1 DEF ConfigsKept, PingedIsUsed
    <3>3. \A e \in Configs("sos") : e.id # i
      BY <3>1, TypeNames DEF ConfigsKept, Owned
    <3>4. \A k \in Running : trace[k].config.id # i
      BY <3>1 DEF ConfigsKept, Current
    <3>5. QED
      BY <1>4, <2>1, <3>1, <3>2, <3>3, <3>4
  <2>4. QED
    BY <2>2, <2>3
<1>7. token <= token'
  BY <1>4, ConfigTypes
<1>8. QED
  BY <1>4, <1>5, <1>6, <1>7, KeptWithout

\* The entity that is added has the one configuration its call made of it.
LEMMA KeptAdd ==
  ASSUME PersonType, PersonType', EndInv, Alone, CopiesAgree, ConfigsKept,
         NEW c \in Callers, AddEntity(c)
  PROVE  ConfigsKept'
<1>t. call[c] \in UpsertCall /\ call \in [Callers -> UpsertCall]
  BY DEF PersonType, CallsTyped
<1>1. call' = [call EXCEPT ![c] = [call[c] EXCEPT !.pc = "bind", !.seen = NoMap]]
      /\ call[c].pc = "write" /\ call[c].op # "end"
      /\ UNCHANGED <<token, trace, past>>
  BY DEF AddEntity
<1>2. call'[c].pc = "bind" /\ \A d \in Callers : d # c => call'[d] = call[d]
  BY <1>t, <1>1 DEF UpsertCall
<1>i. call[c].type \in Types /\ call[c].id \in IdsOf(call[c].type) /\ ~Idle(c)
  BY <1>t, <1>1 DEF UpsertCall, Idle, PersonType, CallsTyped
<1>3. PICK t \in Types : t = call[c].type
  BY <1>i
<1>4. PICK i \in IdsOf(t) \cap past.used : i = call[c].id
  BY <1>3, <1>i DEF EndInv, CallsInTurn
<1>m. PICK new \in {[id |-> i, token |-> token, traced |-> Never]} : TRUE
  OBVIOUS
<1>5. /\ \A u \in Types : u # t => Configs(u)' = Configs(u)
      /\ Configs(t)' \subseteq {new}
  <2>1. call[c].seen = map
    BY <1>1 DEF CopiesAgree, Alone, Orderly
  <2>2. map.entities \in [Types -> AnyEntry]
        /\ map'.entities = [map.entities EXCEPT ![t] = Entry(call[c])]
    BY <1>3, <2>1, EntryOfMap DEF AddEntity, Inserted, PersonType, StoreTyped
  <2>3. Entry(call[c]).configs \subseteq {new}
    BY <1>4, <1>m DEF Entry, ConfigsOf
  <2>4. QED
    BY <1>3, <2>2, <2>3 DEF Configs
<1>6. Running' = Running /\ token \in Nat
  BY <1>1, ConfigTypes DEF Running
<1>7. t = "sos" => Unknown(i)
  BY <1>1, <1>3, <1>4 DEF ConfigsKept, StartsFresh, Starting
<1>u. \A d \in Callers : ~Idle(d) /\ d # c => call[d].type # t
  BY <1>i, <1>3 DEF EndInv, CallsInTurn
<1>n. new.id = i /\ new.token = token /\ new.traced = Never
  BY <1>m
<1>8. Owned'
  BY <1>1, <1>4, <1>5, <1>6, <1>n DEF ConfigsKept, Owned
<1>9. Single'
  BY <1>5 DEF ConfigsKept, Single
<1>10. PingedIsUsed' /\ OneTrace'
  BY <1>1, <1>6 DEF ConfigsKept, PingedIsUsed, OneTrace
<1>11. StartsFresh'
  <2> SUFFICES ASSUME NEW d \in Callers, Starting(d)'
               PROVE  /\ past'.begun[call'[d].id] = Never
                      /\ \A e \in Configs("sos")' : e.id # call'[d].id
                      /\ \A k \in Running' : trace'[k].config.id # call'[d].id
    BY DEF StartsFresh, Unknown
  <2>1. d # c /\ call'[d] = call[d] /\ Starting(d) /\ ~Idle(d) /\ call[d].type = "sos"
    BY <1>2 DEF Starting, Idle
  <2>2. Configs("sos")' = Configs("sos")
    BY <1>5, <1>u, <2>1, TypeNames
  <2>3. Unknown(call[d].id)
    BY <2>1 DEF ConfigsKept, StartsFresh
  <2>4. QED
    BY <1>1, <1>6, <2>1, <2>2, <2>3 DEF Unknown
<1>12. ASSUME NEW k \in Running PROVE Current(k)'
  <2>1. Current(k)
    BY DEF ConfigsKept
  <2>2. \A d \in Configs("sos")' :
          d.id = trace[k].config.id => d.token <= trace[k].config.token
    <3>1. CASE t = "sos"
      BY <1>5, <1>7, <1>n, <3>1 DEF Unknown
    <3>2. CASE t # "sos"
      BY <1>5, <2>1, <3>2, TypeNames DEF Current
    <3>3. QED
      BY <3>1, <3>2
  <2>3. QED
    BY <1>1, <2>1, <2>2 DEF Current, Overdue
<1>13. Saved'
  <2>1. CASE t = "sos"
    BY <1>1, <1>5, <1>7, <1>n, <2>1 DEF Unknown, Saved
  <2>2. CASE t # "sos"
    <3>1. Configs("sos")' = Configs("sos")
      BY <1>5, <2>2, TypeNames
    <3>2. \A d : Unsaved(d.id)' = Unsaved(d.id)
      BY <1>1, <1>6 DEF Unsaved
    <3>3. QED
      BY <1>1, <3>1, <3>2 DEF ConfigsKept, Saved
  <2>3. QED
    BY <2>1, <2>2
<1>14. QED
  BY <1>6, <1>8, <1>9, <1>10, <1>11, <1>12, <1>13 DEF ConfigsKept

\* The end of an entity stores no configuration.
LEMMA RemovedKeeps ==
  ASSUME PersonType, CopiesAgree, setting.apart,
         NEW c \in Callers, RemoveEntity(c) \/ CleanUp(c)
  PROVE  \A t \in Types : Configs(t)' \subseteq Configs(t)
<1>1. \A t \in Types : NoMap.entities[t].configs = {}
  BY DEF NoMap, NoEntry
<1>2. CASE CleanUp(c)
  BY <1>1, <1>2 DEF CleanUp, Configs
<1>3. CASE RemoveEntity(c)
  <2>1. call[c].seen = map
    BY <1>3 DEF RemoveEntity, CopiesAgree
  <2>2. call[c].type \in Types /\ map \in Map
    BY DEF PersonType, CallsTyped, UpsertCall, StoreTyped
  <2>3. ASSUME map' = [map EXCEPT !.entities[call[c].type] = NoEntry]
        PROVE  \A t \in Types : Configs(t)' \subseteq Configs(t)
    <3>1. map'.entities = [map.entities EXCEPT ![call[c].type] = NoEntry]
      BY <2>2, <2>3 DEF Map
    <3>2. map.entities \in [Types -> AnyEntry]
      BY <2>2, EntryOfMap
    <3>3. QED
      BY <3>1, <3>2 DEF NoEntry, Configs
  <2>4. map' = map \/ map' = NoMap \/ map' = [map EXCEPT !.entities[call[c].type] = NoEntry]
    BY <1>3, <2>1 DEF RemoveEntity, Removed
  <2>5. QED
    BY <1>1, <2>3, <2>4 DEF Configs
<1>4. QED
  BY <1>2, <1>3

LEMMA KeptCall ==
  ASSUME ListInv, PersonType', Alone, Alone', ConfigsKept, NEW c \in Callers, Call(c)
  PROVE  ConfigsKept'
<1>t. /\ EndInv /\ PersonType /\ CopiesAgree /\ setting.apart
      /\ call \in [Callers -> UpsertCall] /\ call[c] \in UpsertCall
  BY DEF ListInv, EndInv, PersonType, CallsTyped, Alone, Orderly
<1>1. ASSUME NEW t \in Types, NEW i \in Ids, EntityStart(c, t, i)
      PROVE  ConfigsKept'
  <2>1. PICK config \in BOOLEAN : Begin(c, t, i, "start", config)
    BY <1>1 DEF EntityStart
  <2>2. i \in IdsOf(t) /\ (t # "sos" \/ i \notin past.used)
    BY <1>1 DEF EntityStart
  <2>3. QED
    BY <1>t, <2>1, <2>2, KeptBegin
<1>2. ASSUME NEW i \in Rides, EntityCreate(c, i)
      PROVE  ConfigsKept'
  <2>1. Begin(c, "ride", i, "create", FALSE) /\ i \in IdsOf("ride")
    BY <1>2 DEF EntityCreate, IdsOf
  <2>2. QED
    BY <1>t, <2>1, KeptBegin, TypeNames
<1>3. ASSUME NEW t \in Types, EntityEnd(c, t)
      PROVE  ConfigsKept'
  <2>1. Begin(c, t, live[t], "end", FALSE) /\ live[t] \in IdsOf(t)
    BY <1>3, <1>t DEF EntityEnd, PersonType, StoreTyped
  <2>2. QED
    BY <1>t, <2>1, KeptBegin
<1>4. CASE ReadMap(c) \/ BindPerson(c) \/ RemoveEntity(c) \/ CleanUp(c)
  <2>1. UNCHANGED <<token, trace, past.begun, past.used>>
    BY <1>4, <1>t DEF ReadMap, BindPerson, RemoveEntity, CleanUp, PersonType, StoreTyped, Past
  <2>2. \A t \in Types : Configs(t)' \subseteq Configs(t)
    <3>1. CASE ReadMap(c) \/ BindPerson(c)
      BY <3>1 DEF ReadMap, BindPerson, Configs
    <3>2. QED
      BY <1>4, <1>t, <3>1, RemovedKeeps
  <2>3. \A d \in Callers : d # c => call'[d] = call[d]
    BY <1>4, <1>t DEF ReadMap, BindPerson, RemoveEntity, CleanUp
  <2>4. Starting(c)' => Starting(c) /\ call'[c].id = call[c].id
    BY <1>4, <1>t DEF ReadMap, BindPerson, RemoveEntity, CleanUp, Starting, UpsertCall, NoCall
  <2>5. \A d \in Callers : Starting(d)' => Starting(d) /\ call'[d].id = call[d].id
    BY <2>3, <2>4 DEF Starting
  <2>6. StartsFresh'
    BY <2>1, <2>2, <2>5, TypeNames, FreshStays DEF ConfigsKept
  <2>7. token <= token'
    BY <1>t, <2>1, ConfigTypes
  <2>8. QED
    BY <1>t, <2>1, <2>2, <2>6, <2>7, KeptWithout
<1>5. CASE CallFails(c)
  BY <1>5, <1>t, FaultIsKept DEF CallFails, Alone
<1>6. QED
  BY <1>1, <1>2, <1>3, <1>4, <1>5, <1>t, KeptAdd DEF Call

\* What of a trace's copy stays true while the one trace goes on.
LEMMA TracesStep ==
  ASSUME PersonType, ConfigsKept, UNCHANGED <<map, token, call, past.used>>,
         NEW k \in Running, \A l \in Tasks : l # k => trace'[l] = trace[l],
         \A i \in Ids : i # trace[k].config.id => past'.begun[i] = past.begun[i],
         k \in Running' => trace'[k].config.id = trace[k].config.id /\ Current(k)',
         \A d \in Configs("sos") :
            d.id = trace[k].config.id => d.traced = past'.begun[d.id] \/ Unsaved(d.id)'
  PROVE  ConfigsKept'
<1>1. /\ \A l \in Running : l = k
      /\ Current(k) /\ trace[k].config.id \in Ids
      /\ trace[k].config.id \in past.used
  BY ConfigTypes DEF ConfigsKept, OneTrace, Current
<1>2. \A l \in Running' : l = k
  BY <1>1 DEF Running
<1>3. \A t \in Types : Configs(t)' = Configs(t)
  BY DEF Configs
<1>4. Owned' /\ Single'
  BY <1>3 DEF ConfigsKept, Owned, Single
<1>5. PingedIsUsed'
  BY <1>1 DEF ConfigsKept, PingedIsUsed
<1>6. StartsFresh'
  <2> SUFFICES ASSUME NEW d \in Callers, Starting(d)'
               PROVE  /\ past'.begun[call'[d].id] = Never
                      /\ \A e \in Configs("sos")' : e.id # call'[d].id
                      /\ \A l \in Running' : trace'[l].config.id # call'[d].id
    BY DEF StartsFresh, Unknown
  <2>1. Starting(d) /\ call'[d] = call[d] /\ Unknown(call[d].id)
    BY DEF Starting, ConfigsKept, StartsFresh
  <2>2. call[d].id # trace[k].config.id
    BY <2>1 DEF Unknown
  <2>3. call[d].id \in Ids
    BY <2>1, TypeNames DEF Starting, PersonType, CallsTyped, Idle
  <2>4. past'.begun[call[d].id] = Never
    BY <2>1, <2>2, <2>3 DEF Unknown
  <2>5. \A e \in Configs("sos")' : e.id # call[d].id
    BY <1>3, <2>1, TypeNames DEF Unknown
  <2>6. QED
    BY <1>2, <2>1, <2>2, <2>4, <2>5
<1>7. OneTrace' /\ \A l \in Running' : Current(l)'
  <2>1. OneTrace'
    BY <1>2 DEF OneTrace
  <2>2. ASSUME NEW l \in Running' PROVE Current(l)'
    <3>1. l = k
      BY <1>2
    <3>2. QED
      BY <3>1
  <2>3. QED
    BY <2>1, <2>2
<1>8. Saved'
  <2> SUFFICES ASSUME NEW d \in Configs("sos")
               PROVE  d.traced = past'.begun[d.id] \/ Unsaved(d.id)'
    BY <1>3, TypeNames DEF Saved
  <2>1. CASE d.id = trace[k].config.id
    BY <2>1
  <2>2. CASE d.id # trace[k].config.id
    <3>1. ~Unsaved(d.id) /\ d.id \in Ids
      BY <1>1, <2>2, ConfigTypes, TypeNames DEF Unsaved, Config
    <3>2. d.traced = past.begun[d.id]
      BY <3>1 DEF ConfigsKept, Saved
    <3>3. QED
      BY <2>2, <3>1, <3>2
  <2>3. QED
    BY <2>1, <2>2
<1>9. QED
  BY <1>4, <1>5, <1>6, <1>7, <1>8 DEF ConfigsKept

\* The trace ends or goes on with the copy it has, and stores nothing.
LEMMA KeptOn ==
  ASSUME PersonType, ConfigsKept, UNCHANGED <<map, token, call, past>>,
         NEW k \in Running, \A l \in Tasks : l # k => trace'[l] = trace[l],
         k \in Running' =>
           /\ trace'[k].config.id = trace[k].config.id
           /\ trace'[k].config.traced = trace[k].config.traced
           /\ trace'[k].config.token \in {token, trace[k].config.token}
           /\ trace'[k].pc \in {"send", "refresh", "resend"} \/ trace'[k].next = "resend"
                => Overdue(trace'[k]),
         trace[k].pc \in {"read", "write"} /\ trace[k].next = "idle"
           => k \in Running' /\ trace'[k].pc \in {"read", "write"} /\ trace'[k].next = "idle"
  PROVE  ConfigsKept'
<1>1. Current(k)
  BY DEF ConfigsKept
<1>2. Configs("sos")' = Configs("sos")
  BY DEF Configs
<1>3. ASSUME k \in Running' PROVE Current(k)'
  <2>1. token \in Nat /\ trace[k].config.token \in Nat /\ \A d \in Configs("sos") : d.token \in Nat
    BY ConfigTypes, TypeNames DEF Config
  <2>2. trace[k].config.token <= token
    BY <1>1 DEF Current
  <2>3. trace[k].config.token <= trace'[k].config.token /\ trace'[k].config.token <= token
        /\ trace'[k].config.token \in Nat
    BY <1>3, <2>1, <2>2
  <2>4. \A d \in Configs("sos") :
          d.id = trace[k].config.id => d.token <= trace'[k].config.token
    <3> SUFFICES ASSUME NEW d \in Configs("sos"), d.id = trace[k].config.id
                 PROVE  d.token <= trace'[k].config.token
      OBVIOUS
    <3>1. d.token <= trace[k].config.token
      BY <1>1 DEF Current
    <3>2. QED
      BY <2>1, <2>3, <3>1
  <2>5. QED
    BY <1>1, <1>2, <1>3, <2>3, <2>4 DEF Current
<1>4. \A d \in Configs("sos") :
        d.id = trace[k].config.id => d.traced = past'.begun[d.id] \/ Unsaved(d.id)'
  <2> SUFFICES ASSUME NEW d \in Configs("sos"), d.id = trace[k].config.id, Unsaved(d.id)
               PROVE  Unsaved(d.id)'
    BY DEF ConfigsKept, Saved
  <2>1. trace[k].pc \in {"read", "write"} /\ trace[k].next = "idle"
    BY DEF Unsaved, ConfigsKept, OneTrace
  <2>2. QED
    BY <2>1 DEF Unsaved
<1>5. QED
  BY <1>3, <1>4, TracesStep

\* The write replaces the one configuration that the trace has a copy of.
LEMMA KeptWrite ==
  ASSUME ListInv, PersonType', Alone, ConfigsKept, NEW k \in Tasks, PersistWrite(k)
  PROVE  ConfigsKept'
<1> DEFINE mine == trace[k].config
<1>t. /\ EndInv /\ PersonType /\ CopiesAgree /\ setting.apart
      /\ trace \in [Tasks -> TraceTask] /\ trace[k] \in TraceTask
  BY DEF ListInv, EndInv, PersonType, TracesTyped, Alone, Orderly
<1>1. trace[k].pc = "write" /\ k \in Running /\ UNCHANGED <<token, call, past>>
  BY DEF PersistWrite, Running
<1>2. PICK new \in Config : new = mine
  BY <1>1, ConfigTypes, <1>t
<1>3. Current(k) /\ (\A l \in Running : l = k)
  BY <1>1 DEF ConfigsKept, OneTrace
<1>4. /\ \A l \in Tasks : l # k => trace'[l] = trace[l]
      /\ \/ /\ trace'[k].pc = "resend" /\ trace'[k].next = "idle"
            /\ trace'[k].config = mine
            /\ trace'[k].at = trace[k].at /\ trace[k].next = "resend"
         \/ k \notin Running'
  BY <1>t DEF PersistWrite, After, EndTrace, NoTrace, TraceTask, Running
<1>5. \A l \in Running' : l = k
  BY <1>3, <1>4 DEF Running
<1>6. Configs("ride")' = Configs("ride")
      /\ Configs("sos")' \subseteq {d \in Configs("sos") : d.id # new.id} \cup {new}
  <2>1. map' = WithConfig(map, "sos", new)
    BY <1>1, <1>2, <1>t DEF PersistWrite, ToPersist, CopiesAgree, WritingTrace
  <2>2. map'.entities = [map.entities EXCEPT !["sos"] = Replaced(map.entities["sos"], new)]
    BY <2>1 DEF WithConfig
  <2>3. map.entities \in [Types -> AnyEntry] /\ map.entities["sos"] \in AnyEntry
    BY <1>t, EntryOfMap, TypeNames DEF PersonType, StoreTyped
  <2>4. Replaced(map.entities["sos"], new).configs
          \subseteq {d \in map.entities["sos"].configs : d.id # new.id} \cup {new}
    BY <2>3 DEF Replaced, NoEntry, AnyEntry
  <2>5. QED
    BY <2>2, <2>3, <2>4, TypeNames DEF Configs
<1>7. new.id \in Alarms \cap past.used /\ new.token <= token /\ new.traced = past.begun[new.id]
      /\ new.id \in Ids
  BY <1>2, <1>3, <1>t, ConfigTypes DEF Current
<1> HIDE DEF mine
<1>8. Owned'
  <2> SUFFICES ASSUME NEW t \in Types, NEW d \in Configs(t)'
               PROVE  d.id \in IdsOf(t) \cap past'.used /\ d.token <= token'
    BY DEF Owned
  <2>1. d \in Configs(t) \/ (t = "sos" /\ d = new)
    BY <1>6 DEF Types
  <2>2. IdsOf("sos") = Alarms
    BY <1>t, ConfigTypes
  <2>3. QED
    BY <1>1, <1>7, <2>1, <2>2 DEF ConfigsKept, Owned
<1>9. Single'
  <2> SUFFICES ASSUME NEW t \in Types, NEW d \in Configs(t)', NEW e \in Configs(t)', d.id = e.id
               PROVE  d = e
    BY DEF Single
  <2>1. CASE t = "sos"
    <3>1. CASE d = new \/ e = new
      BY <1>6, <2>1, <3>1
    <3>2. CASE d # new /\ e # new
      BY <1>6, <2>1, <3>2, TypeNames DEF ConfigsKept, Single
    <3>3. QED
      BY <3>1, <3>2
  <2>2. CASE t = "ride"
    BY <1>6, <2>2 DEF ConfigsKept, Single
  <2>3. QED
    BY <2>1, <2>2 DEF Types
<1>10. PingedIsUsed' /\ OneTrace'
  BY <1>1, <1>5 DEF ConfigsKept, PingedIsUsed, OneTrace
<1>11. StartsFresh'
  <2> SUFFICES ASSUME NEW d \in Callers, Starting(d)'
               PROVE  /\ past'.begun[call'[d].id] = Never
                      /\ \A e \in Configs("sos")' : e.id # call'[d].id
                      /\ \A l \in Running' : trace'[l].config.id # call'[d].id
    BY DEF StartsFresh, Unknown
  <2>1. Starting(d) /\ call'[d] = call[d] /\ Unknown(call[d].id)
    BY <1>1 DEF Starting, ConfigsKept, StartsFresh
  <2>2. call[d].id # new.id
    BY <1>1, <1>2, <2>1 DEF Unknown, mine
  <2>3. \A e \in Configs("sos")' : e.id # call[d].id
    BY <1>6, <2>1, <2>2 DEF Unknown
  <2>4. \A l \in Running' : trace'[l].config.id = new.id
    BY <1>2, <1>4, <1>5
  <2>5. QED
    BY <1>1, <2>1, <2>2, <2>3, <2>4 DEF Unknown
<1>12. ASSUME NEW l \in Running' PROVE Current(l)'
  <2>1. l = k /\ trace'[k].config = new /\ trace'[k].at = trace[k].at /\ trace[k].next = "resend"
        /\ trace'[k].next = "idle" /\ k \in Tasks
    BY <1>2, <1>4, <1>5
  <2>2. Overdue(trace[k])
    BY <1>3, <2>1 DEF Current
  <2>3. Overdue(trace'[k])
    BY <1>2, <2>1, <2>2 DEF Overdue, mine
  <2>4. new.token \in Nat
    BY DEF Config
  <2>5. \A d \in Configs("sos")' : d.id = new.id => d.token <= new.token
    BY <1>6, <2>4
  <2>6. QED
    BY <1>1, <1>7, <2>1, <2>3, <2>5 DEF Current
<1>13. Saved'
  <2> SUFFICES ASSUME NEW d \in Configs("sos")' PROVE d.traced = past'.begun[d.id]
    BY DEF Saved
  <2>1. CASE d = new
    BY <1>1, <1>7, <2>1
  <2>2. CASE d # new
    <3>1. d \in Configs("sos") /\ d.id # new.id
      BY <1>6, <2>2
    <3>2. ~Unsaved(d.id)
      BY <1>2, <1>3, <3>1 DEF Unsaved, mine
    <3>3. QED
      BY <1>1, <3>1, <3>2 DEF ConfigsKept, Saved
  <2>3. QED
    BY <2>1, <2>2
<1>14. QED
  BY <1>8, <1>9, <1>10, <1>11, <1>12, <1>13 DEF ConfigsKept

LEMMA KeptTrace ==
  ASSUME ListInv, PersonType', Alone, Alone', ConfigsKept, NEW k \in Tasks, Trace(k)
  PROVE  ConfigsKept'
<1>t. /\ EndInv /\ PersonType
      /\ trace \in [Tasks -> TraceTask] /\ trace[k] \in TraceTask
  BY DEF ListInv, EndInv, PersonType, TracesTyped
<1>o. \A l \in Tasks : l # k => trace'[l] = trace[l]
  BY <1>t DEF Trace, StartTrace, Ping, PingRefused, PingFails, RefreshToken, PersistRead,
              PersistWrite, PersistFails, EndTrace, After
<1>r. k \in Running /\ Current(k)
  <2>1. k \in Running
    BY DEF Trace, StartTrace, Ping, PingRefused, PingFails, RefreshToken, PersistRead,
           PersistWrite, PersistFails, Running
  <2>2. QED
    BY <2>1 DEF ConfigsKept
<1>1. CASE PingFails(k) \/ PersistFails(k)
  BY <1>1, <1>t, FaultIsKept DEF PingFails, PersistFails, Alone
<1>2. CASE StartTrace(k)
  <2>1. CASE k \notin Running'
    BY <1>2, <1>o, <1>r, <1>t, <2>1, KeptOn DEF StartTrace, OnlyTrace
  <2>2. CASE k \in Running'
    <3>1. ~EndTrace(k)
      BY <1>t, <2>2 DEF EndTrace, Running, NoTrace
    <3>2. Due(trace[k].config) /\ trace'[k] = [trace[k] EXCEPT !.pc = "send", !.at = now]
      BY <1>2, <1>t, <3>1 DEF StartTrace
    <3>3. /\ trace'[k].config = trace[k].config /\ trace'[k].at = now
          /\ trace'[k].next = trace[k].next
      BY <1>t, <3>2 DEF TraceTask
    <3>4. Overdue(trace'[k])
      BY <3>2, <3>3 DEF Overdue, Due
    <3>5. trace[k].pc = "start" /\ UNCHANGED <<map, token, call, past>>
      BY <1>2 DEF StartTrace, OnlyTrace
    <3>6. QED
      BY <1>o, <1>r, <1>t, <3>3, <3>4, <3>5, KeptOn
  <2>3. QED
    BY <2>1, <2>2
<1>3. CASE Ping(k)
  <2>1. /\ trace[k].pc \in {"send", "resend"} /\ UNCHANGED <<map, token, call>>
        /\ trace' = [trace EXCEPT ![k] = [trace[k] EXCEPT !.pc = "read", !.next = "idle",
                                                          !.config.traced = trace[k].at]]
        /\ past' = [past EXCEPT !.sent[trace[k].config.id] = now, !.begun[trace[k].config.id] = trace[k].at]
    BY <1>3 DEF Ping
  <2>2. trace[k].config \in Config /\ trace[k].config.id \in Ids
    BY <1>r, <1>t, ConfigTypes DEF Current
  <2>3. /\ trace'[k].pc = "read" /\ trace'[k].next = "idle"
        /\ trace'[k].config.id = trace[k].config.id
        /\ trace'[k].config.token = trace[k].config.token
        /\ trace'[k].config.traced = trace[k].at
    BY <1>t, <2>1, <2>2 DEF TraceTask, Config
  <2>4. /\ past'.begun[trace[k].config.id] = trace[k].at /\ past'.used = past.used
        /\ \A i \in Ids : i # trace[k].config.id => past'.begun[i] = past.begun[i]
    BY <1>t, <2>1, <2>2 DEF PersonType, StoreTyped, Past
  <2>5. Configs("sos")' = Configs("sos")
    BY <2>1 DEF Configs
  <2>6. Current(k)'
    BY <1>r, <2>1, <2>3, <2>4, <2>5 DEF Current
  <2>7. \A d \in Configs("sos") : d.id = trace[k].config.id => Unsaved(d.id)'
    BY <2>3 DEF Unsaved, Running
  <2>8. QED
    BY <1>o, <1>r, <1>t, <2>1, <2>3, <2>4, <2>6, <2>7, TracesStep
<1>4. CASE PingRefused(k)
  <2>1. CASE k \notin Running'
    BY <1>4, <1>o, <1>r, <1>t, <2>1, KeptOn DEF PingRefused, OnlyTrace
  <2>2. CASE k \in Running'
    <3>1. ~EndTrace(k)
      BY <1>t, <2>2 DEF EndTrace, Running, NoTrace
    <3>2. trace[k].pc = "send" /\ trace'[k] = [trace[k] EXCEPT !.pc = "refresh"]
      BY <1>4, <1>t, <3>1 DEF PingRefused
    <3>3. /\ trace'[k].config = trace[k].config /\ trace'[k].at = trace[k].at
          /\ trace'[k].next = trace[k].next
      BY <1>t, <3>2 DEF TraceTask
    <3>4. Overdue(trace'[k])
      BY <1>r, <3>2, <3>3 DEF Overdue, Current
    <3>5. UNCHANGED <<map, token, call, past>>
      BY <1>4 DEF PingRefused, OnlyTrace
    <3>6. QED
      BY <1>o, <1>r, <1>t, <3>2, <3>3, <3>4, <3>5, KeptOn
  <2>3. QED
    BY <2>1, <2>2
<1>5. CASE RefreshToken(k)
  <2>1. /\ trace[k].pc = "refresh" /\ UNCHANGED <<map, token, call, past>>
        /\ trace'[k] = [trace[k] EXCEPT !.pc = "read", !.next = "resend",
                                        !.config = [trace[k].config EXCEPT !.token = token]]
    BY <1>5, <1>t DEF RefreshToken, Refreshed, OnlyTrace
  <2>2. trace[k].config \in Config
    BY <1>r, <1>t, ConfigTypes
  <2>3. /\ trace'[k].config.id = trace[k].config.id
        /\ trace'[k].config.token = token
        /\ trace'[k].config.traced = trace[k].config.traced
        /\ trace'[k].at = trace[k].at
    BY <1>t, <2>1, <2>2 DEF TraceTask, Config
  <2>4. Overdue(trace'[k])
    BY <1>r, <2>1, <2>3 DEF Overdue, Current
  <2>5. QED
    BY <1>o, <1>r, <1>t, <2>1, <2>3, <2>4, KeptOn
<1>6. CASE PersistRead(k)
  <2>1. /\ trace[k].pc = "read" /\ UNCHANGED <<map, token, call, past>>
        /\ trace'[k] = [trace[k] EXCEPT !.pc = "write", !.seen = map]
    BY <1>6, <1>t DEF PersistRead, OnlyTrace
  <2>2. /\ trace'[k].config = trace[k].config /\ trace'[k].next = trace[k].next
        /\ trace'[k].at = trace[k].at /\ trace'[k].pc = "write"
    BY <1>t, <2>1 DEF TraceTask
  <2>3. trace[k].next = "resend" => Overdue(trace'[k])
    BY <1>r, <2>2 DEF Overdue, Current
  <2>4. k \in Running'
    BY <2>2 DEF Running
  <2>5. QED
    BY <1>o, <1>r, <1>t, <2>1, <2>2, <2>3, <2>4, KeptOn
<1>7. CASE PersistWrite(k)
  BY <1>7, KeptWrite
<1>8. QED
  BY <1>1, <1>2, <1>3, <1>4, <1>5, <1>6, <1>7 DEF Trace

\* A trace begins with what is stored.
LEMMA KeptSpawn ==
  ASSUME PersonType, PersonType', Alone, ConfigsKept, SpawnTraces
  PROVE  ConfigsKept'
<1> DEFINE alarm == map.entities["sos"]
           configs == IF alarm.pinged THEN {c \in alarm.configs : c.id = alarm.id} ELSE {}
<1>1. UNCHANGED <<map, token, call, past>>
  BY DEF SpawnTraces
<1>2. \/ trace' = trace
      \/ \E config \in configs, k \in Tasks :
           trace' = [trace EXCEPT ![k] = [NoTrace EXCEPT !.pc = "start", !.config = config]]
  BY DEF SpawnTraces
<1>r. Running = {}
  <2>1. \A k \in Running : 1 > 1
    BY DEF SpawnTraces, Alone
  <2>2. QED
    BY <2>1
<1>3. \A t \in Types : Configs(t)' = Configs(t)
  BY <1>1 DEF Configs
<1>4. CASE trace' = trace
  <2>1. StartsFresh'
    BY <1>1, <1>3, <1>4, TypeNames, FreshStays DEF ConfigsKept, Starting
  <2>2. token <= token'
    BY <1>1, ConfigTypes
  <2>3. QED
    BY <1>1, <1>3, <1>4, <2>1, <2>2, KeptWithout
<1>5. ASSUME Running = {}, NEW config \in configs, NEW k \in Tasks,
             trace' = [trace EXCEPT ![k] = [NoTrace EXCEPT !.pc = "start", !.config = config]]
      PROVE  ConfigsKept'
  <2>1. config \in Configs("sos")
    BY DEF Configs
  <2> HIDE DEF configs
  <2>2. /\ trace'[k].pc = "start" /\ trace'[k].next = "idle" /\ trace'[k].config = config
        /\ \A l \in Tasks : l # k => trace'[l] = trace[l]
    BY <1>5 DEF PersonType, TracesTyped, NoTrace
  <2>3. Running' = {k}
    BY <1>5, <2>2 DEF Running
  <2>4. \A i : ~Unsaved(i)
    BY <1>5 DEF Unsaved
  <2>5. config.id \in Alarms \cap past.used /\ config.token <= token
        /\ config.token \in Nat
    BY <2>1, ConfigTypes, TypeNames DEF ConfigsKept, Owned, Config
  <2>6. config.traced = past.begun[config.id]
    BY <2>1, <2>4 DEF ConfigsKept, Saved
  <2>7. \A d \in Configs("sos") : d.id = config.id => d.token <= config.token
    BY <2>1, <2>5, TypeNames DEF ConfigsKept, Single
  <2>8. Current(k)'
    BY <1>1, <1>3, <2>2, <2>5, <2>6, <2>7, TypeNames DEF Current
  <2>9. StartsFresh'
    <3> SUFFICES ASSUME NEW d \in Callers, Starting(d)'
                 PROVE  /\ past'.begun[call'[d].id] = Never
                        /\ \A e \in Configs("sos")' : e.id # call'[d].id
                        /\ \A l \in Running' : trace'[l].config.id # call'[d].id
      BY DEF StartsFresh, Unknown
    <3>1. Starting(d) /\ call'[d] = call[d] /\ Unknown(call[d].id)
      BY <1>1 DEF Starting, ConfigsKept, StartsFresh
    <3>2. QED
      BY <1>1, <1>3, <2>1, <2>2, <2>3, <3>1, TypeNames DEF Unknown
  <2>10. Saved'
    BY <1>1, <1>3, <2>4, TypeNames DEF ConfigsKept, Saved
  <2>11. Owned' /\ Single' /\ PingedIsUsed'
    BY <1>1, <1>3 DEF ConfigsKept, Owned, Single, PingedIsUsed
  <2>12. OneTrace' /\ \A l \in Running' : Current(l)'
    <3>1. \A l \in Running' : l = k
      BY <2>3
    <3>2. OneTrace'
      BY <3>1 DEF OneTrace
    <3>3. ASSUME NEW l \in Running' PROVE Current(l)'
      <4>1. l = k
        BY <3>1
      <4>2. QED
        BY <2>8, <4>1
    <3>4. QED
      BY <3>2, <3>3
  <2>13. QED
    BY <2>9, <2>10, <2>11, <2>12 DEF ConfigsKept
<1>6. QED
  BY <1>2, <1>4, <1>5, <1>r

\* No step brings the orderly part of a behaviour back.
LEMMA AloneBefore == PersonType /\ [Next]_vars => (Alone' => Alone)
<1> SUFFICES ASSUME PersonType, [Next]_vars, Alone' PROVE Alone
  OBVIOUS
<1>1. setting' = setting
  BY DEF Next, vars, Tick, TokenExpires, Call, EntityStart, EntityCreate, EntityEnd, Begin,
         ReadMap, AddEntity, BindPerson, RemoveEntity, CleanUp, CallFails, Arrive, StoreLocation,
         SpawnTraces, UpdateFails, Trace, StartTrace, Ping, PingRefused, PingFails, RefreshToken,
         PersistRead, PersistWrite, PersistFails, OnlyTrace
<1>2. ~Fault
  BY <1>1, FaultIsKept DEF Alone
<1>3. budget'.faults = budget.faults
  BY <1>2 DEF Next, vars, Tick, TokenExpires, Call, EntityStart, EntityCreate, EntityEnd, Begin,
         ReadMap, AddEntity, BindPerson, RemoveEntity, CleanUp, CallFails, Arrive, StoreLocation,
         SpawnTraces, UpdateFails, Trace, StartTrace, Ping, PingRefused, PingFails, RefreshToken,
         PersistRead, PersistWrite, PersistFails, OnlyTrace, PersonType, StoreTyped
<1>4. QED
  BY <1>1, <1>3 DEF Alone, Orderly

LEMMA ConfigStep == ConfigInv /\ [Next]_vars => ConfigInv'
<1> SUFFICES ASSUME ConfigInv, [Next]_vars PROVE ConfigInv'
  OBVIOUS
<1>1. ListInv /\ ListInv' /\ PersonType /\ PersonType'
  BY ListStep DEF ConfigInv, ListInv, EndInv
<1> SUFFICES ASSUME Alone' PROVE ConfigsKept'
  BY <1>1 DEF ConfigInv
<1>2. Alone /\ ConfigsKept
  BY <1>1, AloneBefore DEF ConfigInv
<1>3. CASE Tick \/ TokenExpires \/ UNCHANGED vars \/ Arrive \/ StoreLocation \/ UpdateFails
  <2>1. UNCHANGED <<map, call, trace, past>>
    BY <1>3 DEF Tick, TokenExpires, vars, Arrive, StoreLocation, UpdateFails
  <2>2. token' = token \/ token' = token + 1
    BY <1>3 DEF Tick, TokenExpires, vars, Arrive, StoreLocation, UpdateFails
  <2>3. token <= token'
    BY <1>1, <2>2, ConfigTypes
  <2>4. \A t \in Types : Configs(t)' = Configs(t)
    BY <2>1 DEF Configs
  <2>5. StartsFresh'
    BY <1>2, <2>1, <2>4, TypeNames, FreshStays DEF ConfigsKept, Starting
  <2>6. QED
    BY <1>1, <1>2, <2>1, <2>3, <2>4, <2>5, KeptWithout
<1>4. CASE SpawnTraces
  BY <1>1, <1>2, <1>4, KeptSpawn
<1>5. ASSUME NEW c \in Callers, Call(c) PROVE ConfigsKept'
  BY <1>1, <1>2, <1>5, KeptCall
<1>6. ASSUME NEW k \in Tasks, Trace(k) PROVE ConfigsKept'
  BY <1>1, <1>2, <1>6, KeptTrace
<1>7. QED
  BY <1>3, <1>4, <1>5, <1>6 DEF Next

LEMMA ConfigInvariant == Spec => []ConfigInv
BY ConfigInit, ConfigStep, PTL DEF Spec

\* A trace began before now, and a ping was sent after its trace began.
Timely ==
  /\ \A k \in Tasks : trace[k].at <= now
  /\ \A i \in Ids : past.sent[i] = Never <=> past.begun[i] = Never

LEMMA TimelyStep == PersonType /\ PersonType' /\ Timely /\ [Next]_vars => Timely'
<1> SUFFICES ASSUME PersonType, PersonType', Timely, [Next]_vars PROVE Timely'
  OBVIOUS
<1> USE BoundsAssumption
<1>t. /\ now \in Nat /\ now' \in Nat /\ past \in Past
      /\ \A k \in Tasks : trace[k] \in TraceTask /\ trace[k].at \in Nat
  BY DEF PersonType, StoreTyped, TracesTyped, TraceTask
<1>1. CASE Tick \/ TokenExpires \/ UNCHANGED vars \/ Arrive \/ StoreLocation \/ UpdateFails
  <2>1. UNCHANGED <<trace, past>> /\ (now' = now \/ now' = now + 1)
    BY <1>1 DEF Tick, TokenExpires, vars, Arrive, StoreLocation, UpdateFails
  <2>2. now <= now'
    BY <1>t, <2>1
  <2>3. QED
    BY <1>t, <2>1, <2>2 DEF Timely
<1>2. CASE SpawnTraces
  <2>1. UNCHANGED <<now, past>>
        /\ \A k \in Tasks : trace'[k] = trace[k] \/ trace'[k].at = 0
    BY <1>2, <1>t DEF SpawnTraces, PersonType, TracesTyped, NoTrace
  <2>2. QED
    BY <1>t, <2>1 DEF Timely
<1>3. ASSUME NEW c \in Callers, Call(c) PROVE Timely'
  <2>1. UNCHANGED <<now, trace>> /\ past'.sent = past.sent /\ past'.begun = past.begun
    BY <1>3, <1>t DEF Call, EntityStart, EntityCreate, EntityEnd, Begin, ReadMap, AddEntity,
                      BindPerson, RemoveEntity, CleanUp, CallFails, Past
  <2>2. QED
    BY <2>1 DEF Timely
<1>4. ASSUME NEW k \in Tasks, Trace(k) PROVE Timely'
  <2>1. now' = now /\ \A l \in Tasks \ {k} : trace'[l] = trace[l]
    BY <1>4 DEF Trace, StartTrace, Ping, PingRefused, PingFails, RefreshToken, PersistRead,
                PersistWrite, PersistFails, After, EndTrace, OnlyTrace, PersonType, TracesTyped
  <2>2. trace'[k].at \in {trace[k].at, now, 0}
    BY <1>4, <1>t DEF Trace, StartTrace, Ping, PingRefused, PingFails, RefreshToken,
                PersistRead, PersistWrite, PersistFails, After, EndTrace, NoTrace, OnlyTrace,
                PersonType, TracesTyped, TraceTask
  <2>3. \A l \in Tasks : trace'[l].at <= now'
    BY <1>t, <2>1, <2>2 DEF Timely
  <2>4. CASE Ping(k)
    <3>1. \A i \in Ids : \/ (past'.sent[i] = past.sent[i] /\ past'.begun[i] = past.begun[i])
                          \/ (past'.sent[i] = now /\ past'.begun[i] = trace[k].at)
      BY <1>t, <2>4 DEF Ping, Past
    <3>2. QED
      BY <1>t, <2>3, <3>1 DEF Timely, Never
  <2>5. CASE ~Ping(k)
    <3>1. past' = past
      BY <1>4, <2>5 DEF Trace, StartTrace, PingRefused, PingFails, RefreshToken, PersistRead,
                        PersistWrite, PersistFails, OnlyTrace
    <3>2. QED
      BY <2>3, <3>1 DEF Timely
  <2>6. QED
    BY <2>4, <2>5
<1>5. QED
  BY <1>1, <1>2, <1>3, <1>4 DEF Next

PingInv == ConfigInv /\ Timely

LEMMA PingInvariant == Spec => []PingInv
<1>1. Init => PingInv
  <2>1. Init => Timely
    BY DEF Init, Timely, NoTrace
  <2>2. QED
    BY <2>1, ConfigInit DEF PingInv
<1>2. PingInv /\ [Next]_vars => PingInv'
  <2> SUFFICES ASSUME PingInv, [Next]_vars PROVE PingInv'
    OBVIOUS
  <2>1. ConfigInv /\ ConfigInv'
    BY ConfigStep DEF PingInv
  <2>2. PersonType /\ PersonType'
    BY <2>1 DEF ConfigInv, ListInv, EndInv
  <2>3. QED
    BY <2>1, <2>2, TimelyStep DEF PingInv
<1>3. QED
  BY <1>1, <1>2, PTL DEF Spec

\* Only a trace that is due sends a ping.
LEMMA PingStep ==
  ASSUME PingInv, Alone, NEW k \in Tasks, trace[k].pc \in {"send", "resend"},
         past.sent[trace[k].config.id] # Never
  PROVE  now - past.sent[trace[k].config.id] >=
           Interval - (past.sent[trace[k].config.id] - past.begun[trace[k].config.id])
<1> USE BoundsAssumption
<1>t. /\ PersonType /\ past \in Past /\ ConfigsKept /\ Timely
      /\ now \in Nat /\ trace[k] \in TraceTask /\ trace[k].at \in Nat
  BY DEF PingInv, ConfigInv, ListInv, EndInv, PersonType, StoreTyped, TracesTyped, TraceTask
<1>1. k \in Running /\ Current(k)
  BY <1>t DEF Running, ConfigsKept
<1>2. PICK i \in Ids : i = trace[k].config.id
  BY <1>1, <1>t, ConfigTypes DEF Current
<1>3. past.sent[i] \in Nat /\ past.begun[i] \in Nat /\ past.begun[i] # Never
  BY <1>2, <1>t DEF Timely, Past, Never
<1>4. trace[k].at - past.begun[i] >= Interval
  BY <1>1, <1>2, <1>3 DEF Current, Overdue
<1>5. trace[k].at <= now
  BY <1>t DEF Timely
<1>6. QED
  BY <1>t, <1>2, <1>3, <1>4, <1>5

\* With one trace at a time and no failure, while nobody reads the map between another's
\* read and write: a broadcaster is pinged again only when its polling interval has passed
\* since the trace that sent the last ping began.
THEOREM PingsStayApart == Spec => PingsApart
<1> DEFINE Kept == (Orderly /\ setting.tasks = 1) =>
                     \A k \in Tasks : PingSent(k) =>
                       LET i == trace[k].config.id
                           late == past.sent[i] - past.begun[i]
                       IN past.sent[i] # Never => now - past.sent[i] >= Interval - late
<1>1. PingInv => Kept
  BY PingStep DEF Alone, PingSent
<1>2. QED
  BY <1>1, PingInvariant, PTL DEF Spec, PingsApart

LEMMA TokenStep ==
  ASSUME ConfigInv, [Next]_vars, Alone,
         NEW t \in Types, NEW u \in Types, NEW c \in Configs(t), NEW d \in Configs(u)',
         c.id = d.id
  PROVE  d.token >= c.token
<1>t. ListInv /\ EndInv /\ PersonType /\ PersonType' /\ ConfigsKept /\ CopiesAgree /\ setting.apart
  BY ListStep DEF ConfigInv, ListInv, EndInv, Alone, Orderly
<1>n. c.token \in Nat /\ d.token \in Nat /\ token \in Nat
  <2>1. Configs(u)' \subseteq Config
    BY <1>t, EntryOfMap DEF PersonType, StoreTyped, Configs, AnyEntry
  <2>2. QED
    BY <1>t, <2>1, ConfigTypes DEF Config
<1>1. ASSUME d \in Configs(u) PROVE d.token >= c.token
  <2>1. c.id \in IdsOf(t) /\ d.id \in IdsOf(u)
    BY <1>t, <1>1 DEF ConfigsKept, Owned
  <2>2. t = u
    BY <2>1, NoneIsNoId
  <2>3. c = d
    BY <1>t, <1>1, <2>2 DEF ConfigsKept, Single
  <2>4. QED
    BY <1>n, <2>3
<1>2. CASE \E e \in Callers : AddEntity(e)
  <2>1. PICK e \in Callers : AddEntity(e)
    BY <1>2
  <2>2. call[e].seen = map /\ call[e].type \in Types
    BY <1>t, <2>1 DEF AddEntity, CopiesAgree, PersonType, CallsTyped, UpsertCall
  <2>3. map.entities \in [Types -> AnyEntry]
        /\ map'.entities = [map.entities EXCEPT ![call[e].type] = Entry(call[e])]
    BY <1>t, <2>1, <2>2, EntryOfMap DEF AddEntity, Inserted, PersonType, StoreTyped
  <2>4. d \in Configs(u) \/ d.token = token
    BY <2>2, <2>3 DEF Configs, Entry, ConfigsOf
  <2>5. c.token <= token
    BY <1>t DEF ConfigsKept, Owned
  <2>6. QED
    BY <1>1, <1>n, <2>4, <2>5
<1>3. CASE \E k \in Tasks : PersistWrite(k)
  <2>1. PICK k \in Tasks : PersistWrite(k)
    BY <1>3
  <2>2. /\ trace[k].pc = "write" /\ k \in Running /\ Current(k)
        /\ map' = WithConfig(map, "sos", trace[k].config)
    BY <1>t, <2>1 DEF PersistWrite, ToPersist, CopiesAgree, WritingTrace, Running, ConfigsKept
  <2>3. map'.entities = [map.entities EXCEPT !["sos"] =
                           Replaced(map.entities["sos"], trace[k].config)]
    BY <2>2 DEF WithConfig
  <2>4. map.entities \in [Types -> AnyEntry] /\ map.entities["sos"] \in AnyEntry
    BY <1>t, EntryOfMap, TypeNames DEF PersonType, StoreTyped
  <2>5. Replaced(map.entities["sos"], trace[k].config).configs
          \subseteq map.entities["sos"].configs \cup {trace[k].config}
    BY <2>4 DEF Replaced, NoEntry, AnyEntry
  <2>6. d \in Configs(u) \/ d = trace[k].config
    BY <2>3, <2>4, <2>5, TypeNames DEF Configs
  <2>7. CASE d = trace[k].config
    <3>1. c.id \in Alarms /\ c.id \in IdsOf(t)
      BY <1>t, <2>2, <2>7 DEF Current, ConfigsKept, Owned
    <3>2. t = "sos"
      BY <3>1, NoneIsNoId, TypeNames DEF IdsOf
    <3>3. c.token <= d.token
      BY <2>2, <2>7, <3>2 DEF Current
    <3>4. QED
      BY <1>n, <3>3
  <2>8. QED
    BY <1>1, <2>6, <2>7
<1>4. CASE \E e \in Callers : RemoveEntity(e) \/ CleanUp(e)
  BY <1>1, <1>4, <1>t, RemovedKeeps
<1>5. CASE map' = map
  BY <1>1, <1>5 DEF Configs
<1>6. QED
  BY <1>2, <1>3, <1>4, <1>5
     DEF Next, vars, Tick, TokenExpires, Call, EntityStart, EntityCreate, EntityEnd,
         Begin, ReadMap, BindPerson, CallFails, Arrive,
         StoreLocation, SpawnTraces, UpdateFails, Trace, StartTrace, Ping, PingRefused, PingFails,
         RefreshToken, PersistRead, PersistFails, OnlyTrace

\* Under the same condition no configuration in the map goes back to an older token.
THEOREM TokensOnlyGetNewer == Spec => TokenKept
<1> DEFINE Kept == (Orderly /\ setting.tasks = 1) =>
                     \A c \in TokensOf(map), d \in TokensOf(map)' :
                        c.id = d.id => d.token >= c.token
<1>1. ASSUME ConfigInv, [Next]_vars, Alone, NEW c \in TokensOf(map), NEW d \in TokensOf(map)',
             c.id = d.id
      PROVE  d.token >= c.token
  <2>1. PICK t \in Types : c \in Configs(t)
    BY DEF TokensOf, Configs
  <2>2. PICK u \in Types : d \in Configs(u)'
    BY DEF TokensOf, Configs
  <2>3. QED
    BY <1>1, <2>1, <2>2, TokenStep
<1>2. ConfigInv /\ [Next]_vars => [Kept]_vars
  BY <1>1 DEF Alone
<1>3. QED
  BY <1>2, ConfigInvariant, PTL DEF Spec, TokenKept
=============================================================================
