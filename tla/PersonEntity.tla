----------------------------- MODULE PersonEntity -----------------------------
(***************************************************************************)
(* Entities of one rider (rides and SOS alarms), his location updates, and *)
(* the traces sent to external providers for an alarm (entity_upsert in    *)
(* domain/action/internal/ride.rs, update_person_location and              *)
(* try_send_broadcast_trace in domain/action/ui/location.rs).  They share  *)
(* one Redis value, the map of the rider's entities, which everyone reads  *)
(* and then writes as a whole.                                             *)
(*                                                                         *)
(* Location updates exclude each other (RideLocations has the lock they    *)
(* take), so there is one.  The list of the entity's points is left out:   *)
(* no code appends to it.                                                  *)
(***************************************************************************)
EXTENDS Integers

CONSTANTS
  Rides, Alarms,  \* entity identifiers of the two types
  Callers,        \* calls of entity_upsert that may be under way at once
  Tasks,          \* traces that may be under way at once
  Settings,       \* what may overlap, and bounds
  Interval,       \* polling_interval_secs
  MaxTime,        \* bound: the clock
  MaxToken        \* bound: bearer tokens the provider goes through

Types == {"ride", "sos"}
IdsOf(t) == IF t = "ride" THEN Rides ELSE Alarms
Ids == Rides \cup Alarms

ASSUME IdsAssumption == Rides \cap Alarms = {} /\ "none" \notin Ids
ASSUME SettingsAssumption ==
  Settings \subseteq
    [apart : BOOLEAN,  \* nobody reads the map between another's read and write of it
     tasks : Nat,      \* traces that may be under way at once
     calls : Nat,      \* bound: calls
     updates : Nat,    \* bound: location updates
     faults : Nat]     \* bound: failing calls of Redis and of the provider
ASSUME BoundsAssumption == {Interval, MaxTime, MaxToken} \subseteq Nat

VARIABLES
  setting,  \* the member of Settings this behaviour follows
  now,      \* the clock
  token,    \* the bearer token the provider accepts
  map,      \* entity_details_key
  bound,    \* person_detail_by_entity_key: entities that lead to the rider
  located,  \* person_detail_key is there
  call,     \* the entity_upsert calls
  update,   \* the next step of the location update
  trace,    \* the spawned traces
  live,     \* history: the entity of each type that has been started and not ended
  past,     \* history: entities used and ended; when the last ping of each was sent, and its trace began
  budget    \* calls, updates and faults so far

vars == <<setting, now, token, map, bound, located, call, update, trace, live, past, budget>>

Never == -1
NoEntry == [id |-> "none", pinged |-> FALSE, configs |-> {}]
NoMap == [known |-> FALSE, entities |-> [t \in Types |-> NoEntry]]
NoCall == [pc |-> "idle", op |-> "none", type |-> "ride", id |-> "none", config |-> FALSE, seen |-> NoMap]
NoConfig == [id |-> "none", token |-> 0, traced |-> Never]
NoTrace == [pc |-> "idle", next |-> "idle", config |-> NoConfig, at |-> 0, seen |-> NoMap]

Init ==
  /\ setting \in Settings
  /\ now = 0
  /\ token = 0
  /\ map = NoMap
  /\ bound = {}
  /\ located = FALSE
  /\ call = [c \in Callers |-> NoCall]
  /\ update = "idle"
  /\ trace = [k \in Tasks |-> NoTrace]
  /\ live = [t \in Types |-> "none"]
  /\ past = [used |-> {}, ended |-> {}, sent |-> [i \in Ids |-> Never], begun |-> [i \in Ids |-> Never]]
  /\ budget = [calls |-> 0, updates |-> 0, faults |-> 0]

Fault ==
  /\ budget.faults < setting.faults
  /\ budget' = [budget EXCEPT !.faults = @ + 1]

Tick ==
  /\ now < MaxTime
  /\ now' = now + 1
  /\ UNCHANGED <<setting, token, map, bound, located, call, update, trace, live, past, budget>>

\* The provider stops accepting the bearer token.
TokenExpires ==
  /\ token < MaxToken
  /\ token' = token + 1
  /\ UNCHANGED <<setting, now, map, bound, located, call, update, trace, live, past, budget>>

-----------------------------------------------------------------------------
(* The map.                                                                *)

\* Who has read the map and not yet written it, or not yet deleted it.
Writing ==
  \/ \E c \in Callers : call[c].pc \in {"write", "clean"}
  \/ \E k \in Tasks : trace[k].pc = "write"

MayRead == setting.apart => ~Writing

\* Bug: the other entities are not carried over.
InsertedAlone(m, t, entry) == [known |-> TRUE, entities |-> [NoMap.entities EXCEPT ![t] = entry]]
Inserted(m, t, entry) == [known |-> TRUE, entities |-> [m.entities EXCEPT ![t] = entry]]

Removed(m, t) ==
  IF \A u \in Types \ {t} : m.entities[u] = NoEntry THEN NoMap
  ELSE [m EXCEPT !.entities[t] = NoEntry]

\* Bug: the entity is put back when it is not there.
ReplacedOrAdded(entry, config) ==
  [id |-> config.id, pinged |-> TRUE, configs |-> {config}]

\* The configuration of a broadcaster is replaced in its entity, if any is there.
Replaced(entry, config) ==
  IF entry = NoEntry THEN NoEntry
  ELSE [entry EXCEPT !.configs = {c \in @ : c.id # config.id} \cup {config}]

\* The map is written also when there was none.
WithConfig(m, t, config) ==
  [known |-> TRUE, entities |-> [m.entities EXCEPT ![t] = Replaced(@, config)]]

-----------------------------------------------------------------------------
(* entity_upsert.  A caller uses an identifier for one entity, starts the  *)
(* ride it created, and ends what it started.                              *)

Idle(c) == call[c].pc = "idle"
Ongoing(t) == \E c \in Callers : ~Idle(c) /\ call[c].type = t

Begin(c, t, i, op, config) ==
  /\ Idle(c)
  /\ ~Ongoing(t)
  /\ budget.calls < setting.calls
  /\ budget' = [budget EXCEPT !.calls = @ + 1]
  /\ call' = [call EXCEPT ![c] =
       [NoCall EXCEPT !.pc = "read", !.op = op, !.type = t, !.id = i, !.config = config]]
  /\ past' = [past EXCEPT !.used = @ \cup {i}]
  /\ UNCHANGED <<setting, now, token, map, bound, located, update, trace>>

\* Rides only.
EntityCreate(c, i) ==
  /\ i \in Rides \ past.used /\ live["ride"] = "none"
  /\ Begin(c, "ride", i, "create", FALSE)
  /\ UNCHANGED live

EntityStart(c, t, i) ==
  /\ i \in IdsOf(t)
  /\ \/ live[t] = "none" /\ i \notin past.used
     \/ live[t] = i /\ t = "ride"
  /\ \E config \in BOOLEAN : Begin(c, t, i, "start", config)
  /\ UNCHANGED live

EntityEnd(c, t) ==
  /\ live[t] # "none"
  /\ Begin(c, t, live[t], "end", FALSE)
  /\ live' = [live EXCEPT ![t] = "none"]

ReadMap(c) ==
  /\ call[c].pc = "read"
  /\ MayRead
  /\ call' = [call EXCEPT ![c].pc = "write", ![c].seen = map]
  /\ UNCHANGED <<setting, now, token, map, bound, located, update, trace, live, past, budget>>

ConfigsOf(me) == IF me.config THEN {[id |-> me.id, token |-> token, traced |-> Never]} ELSE {}

\* Bug: a ride that is started has broadcasters too.
EntryOfAny(me) == [id |-> me.id, pinged |-> me.op = "start", configs |-> ConfigsOf(me)]
\* Only an alarm has broadcasters, and it is the only one.
Entry(me) ==
  [id |-> me.id, pinged |-> me.op = "start" /\ me.type = "sos", configs |-> ConfigsOf(me)]

\* add_entity_for_person
AddEntity(c) ==
  LET me == call[c]
  IN /\ me.pc = "write" /\ me.op # "end"
     /\ map' = Inserted(me.seen, me.type, Entry(me))
     /\ call' = [call EXCEPT ![c].pc = "bind", ![c].seen = NoMap]
     /\ UNCHANGED <<setting, now, token, bound, located, update, trace, live, past, budget>>

\* Bug: the reverse mapping is written for rides only.
BoundRides(t, i) == bound \cup {j \in {i} : t = "ride"}
Bound(t, i) == bound \cup {i}

\* set_person_by_entity
BindPerson(c) ==
  LET me == call[c]
  IN /\ me.pc = "bind"
     /\ bound' = Bound(me.type, me.id)
     /\ live' = [live EXCEPT ![me.type] = me.id]
     /\ call' = [call EXCEPT ![c] = NoCall]
     /\ UNCHANGED <<setting, now, token, map, located, update, trace, past, budget>>

\* remove_entity_for_person: no map, nothing to write.
RemoveEntity(c) ==
  LET me == call[c]
  IN /\ me.pc = "write" /\ me.op = "end"
     /\ map' = IF me.seen.known THEN Removed(me.seen, me.type) ELSE map
     /\ call' = [call EXCEPT ![c].pc = "clean", ![c].seen = NoMap]
     /\ UNCHANGED <<setting, now, token, bound, located, update, trace, live, past, budget>>

\* entity_cleanup_generic: the key of the map is among those it deletes.
CleanUp(c) ==
  LET me == call[c]
  IN /\ me.pc = "clean"
     /\ map' = NoMap
     /\ bound' = bound \ {me.id}
     /\ located' = FALSE
     /\ past' = [past EXCEPT !.ended = @ \cup {me.id}]
     /\ call' = [call EXCEPT ![c] = NoCall]
     /\ UNCHANGED <<setting, now, token, update, trace, live, budget>>

\* A failing call ends the handler; the caller does not try again.
CallFails(c) ==
  /\ ~Idle(c)
  /\ Fault
  /\ call' = [call EXCEPT ![c] = NoCall]
  /\ UNCHANGED <<setting, now, token, map, bound, located, update, trace, live, past>>

Call(c) ==
  \/ \E t \in Types, i \in Ids : EntityStart(c, t, i)
  \/ \E i \in Rides : EntityCreate(c, i)
  \/ \E t \in Types : EntityEnd(c, t)
  \/ ReadMap(c) \/ AddEntity(c) \/ BindPerson(c) \/ RemoveEntity(c) \/ CleanUp(c)
  \/ CallFails(c)

-----------------------------------------------------------------------------
(* update_person_location, and process_person_locations in the lock.       *)

\* Without a map the request is refused.
Arrive ==
  /\ update = "idle"
  /\ budget.updates < setting.updates
  /\ map.known
  /\ update' = "store"
  /\ budget' = [budget EXCEPT !.updates = @ + 1]
  /\ UNCHANGED <<setting, now, token, map, bound, located, call, trace, live, past>>

StoreLocation ==
  /\ update = "store"
  /\ located' = TRUE
  /\ update' = "spawn"
  /\ UNCHANGED <<setting, now, token, map, bound, call, trace, live, past, budget>>

Running == {k \in Tasks : trace[k].pc # "idle"}

\* The map is read again.  Each broadcaster with a configuration gets a task,
\* which holds a copy of the configuration.
SpawnTraces ==
  /\ update = "spawn"
  /\ \A k \in Running : setting.tasks > 1
  /\ LET alarm == map.entities["sos"]
         configs == IF alarm.pinged THEN {c \in alarm.configs : c.id = alarm.id} ELSE {}
     IN \/ configs = {} /\ UNCHANGED trace
        \/ \E config \in configs, k \in Tasks \ Running :
             trace' = [trace EXCEPT ![k] = [NoTrace EXCEPT !.pc = "start", !.config = config]]
  /\ update' = "idle"
  /\ UNCHANGED <<setting, now, token, map, bound, located, call, live, past, budget>>

UpdateFails ==
  /\ update # "idle"
  /\ Fault
  /\ update' = "idle"
  /\ UNCHANGED <<setting, now, token, map, bound, located, call, trace, live, past>>

-----------------------------------------------------------------------------
(* try_send_broadcast_trace, detached from the request.                    *)

OnlyTrace == UNCHANGED <<setting, now, token, map, bound, located, call, update, live, past, budget>>
EndTrace(k) == trace' = [trace EXCEPT ![k] = NoTrace]

\* Bug: a ping is due one second early.
DueEarly(config) == config.traced = Never \/ now - config.traced >= Interval - 1
\* The last ping as the copy has it: the time its trace began.
Due(config) == config.traced = Never \/ now - config.traced >= Interval

StartTrace(k) ==
  /\ trace[k].pc = "start"
  /\ \/ Due(trace[k].config) /\ trace' = [trace EXCEPT ![k].pc = "send", ![k].at = now]
     \/ ~Due(trace[k].config) /\ EndTrace(k)
  /\ OnlyTrace

\* send_ping: the provider answers 401 when the bearer token is an old one.
Accepted(config) == config.token = token

\* Then the configuration is stored, with the time the task began.
Ping(k) ==
  LET me == trace[k]
  IN /\ me.pc \in {"send", "resend"}
     /\ Accepted(me.config)
     /\ trace' = [trace EXCEPT ![k].pc = "read", ![k].next = "idle", ![k].config.traced = me.at]
     /\ past' = [past EXCEPT !.sent[me.config.id] = now, !.begun[me.config.id] = me.at]
     /\ UNCHANGED <<setting, now, token, map, bound, located, call, update, live, budget>>

\* 401: the first time the token is refreshed, the second time it is an error.
PingRefused(k) ==
  LET me == trace[k]
  IN /\ me.pc \in {"send", "resend"}
     /\ ~Accepted(me.config)
     /\ \/ me.pc = "send" /\ trace' = [trace EXCEPT ![k].pc = "refresh"]
        \/ me.pc = "resend" /\ EndTrace(k)
     /\ OnlyTrace

\* Any other error of the provider, or of the refresh.
PingFails(k) ==
  /\ trace[k].pc \in {"send", "resend", "refresh"}
  /\ Fault
  /\ EndTrace(k)
  /\ UNCHANGED <<setting, now, token, map, bound, located, call, update, live, past>>

\* The answer of the reauth endpoint.
Refreshed(config) == [config EXCEPT !.token = token]

RefreshToken(k) ==
  /\ trace[k].pc = "refresh"
  /\ trace' = [trace EXCEPT ![k].pc = "read", ![k].next = "resend", ![k].config = Refreshed(@)]
  /\ OnlyTrace

\* persist_broadcaster_config; an error is logged and forgotten.
PersistRead(k) ==
  /\ trace[k].pc = "read"
  /\ MayRead
  /\ trace' = [trace EXCEPT ![k].pc = "write", ![k].seen = map]
  /\ OnlyTrace

\* Bug: the task stores the configuration as it was before the refresh.
ToPersistStale(me) ==
  [me.config EXCEPT !.token = IF me.next = "idle" /\ me.config.token > 0 THEN @ - 1 ELSE @]
ToPersist(me) == me.config

After(k) ==
  IF trace[k].next = "idle" THEN EndTrace(k)
  ELSE trace' = [trace EXCEPT ![k].pc = "resend", ![k].next = "idle", ![k].seen = NoMap]

PersistWrite(k) ==
  /\ trace[k].pc = "write"
  /\ map' = WithConfig(trace[k].seen, "sos", ToPersist(trace[k]))
  /\ After(k)
  /\ UNCHANGED <<setting, now, token, bound, located, call, update, live, past, budget>>

PersistFails(k) ==
  /\ trace[k].pc \in {"read", "write"}
  /\ Fault
  /\ After(k)
  /\ UNCHANGED <<setting, now, token, map, bound, located, call, update, live, past>>

Trace(k) ==
  \/ StartTrace(k) \/ Ping(k) \/ PingRefused(k) \/ PingFails(k) \/ RefreshToken(k)
  \/ PersistRead(k) \/ PersistWrite(k) \/ PersistFails(k)

Next ==
  \/ Tick \/ TokenExpires
  \/ \E c \in Callers : Call(c)
  \/ Arrive \/ StoreLocation \/ SpawnTraces \/ UpdateFails
  \/ \E k \in Tasks : Trace(k)

Spec == Init /\ [][Next]_vars

-----------------------------------------------------------------------------
(* Properties.                                                             *)

Config == [id : Ids, token : 0 .. MaxToken, traced : {Never} \cup (0 .. MaxTime)]
IsEntry(t, e) ==
  /\ e.id \in IdsOf(t) \cup {"none"}
  /\ e.pinged \in BOOLEAN /\ (e.pinged => t = "sos")
  /\ e.configs \subseteq Config
IsMap(m) == m.known \in BOOLEAN /\ \A t \in Types : IsEntry(t, m.entities[t])

\* The stored values, the calls and the tasks have the types they are written
\* with; no ride has broadcasters.
TypeOK ==
  /\ IsMap(map)
  /\ ~map.known => map = NoMap
  /\ bound \subseteq Ids
  /\ located \in BOOLEAN
  /\ update \in {"idle", "store", "spawn"}
  /\ \A c \in Callers :
       /\ call[c].pc \in {"idle", "read", "write", "bind", "clean"}
       /\ IsMap(call[c].seen)
  /\ \A k \in Tasks :
       /\ trace[k].pc \in {"idle", "start", "send", "refresh", "resend", "read", "write"}
       /\ trace[k].config \in Config \cup {NoConfig}
       /\ IsMap(trace[k].seen)
  /\ \A t \in Types : live[t] \in IdsOf(t) \cup {"none"}

Listed(i) == \E t \in Types : map.entities[t].id = i
Orderly == setting.apart /\ budget.faults = 0

\* A trace that comes back after its alarm has ended, with a copy of the
\* alarm's configuration, does not bring the alarm back, nor does another
\* call, unless one reads the map between another's read and write.
EndedIsGone == setting.apart => \A i \in past.ended : ~Listed(i)

\* ride.rs: the end of an entity removes "only this entity type from the map":
\* what has been started and not ended is in the map.
StartedStays == Orderly => \A t \in Types : live[t] # "none" => Listed(live[t])

\* The same while no entity has ended: starts of the other type and traces
\* carry over what they have read.
LiveIsListed ==
  (\A c \in Callers : call[c].op # "end") /\ past.ended = {} => StartedStays

\* An entity in the map leads to the rider, unless its start is under way.
ListedIsFound ==
  Orderly =>
    \A t \in Types :
      LET i == map.entities[t].id
      IN i \in bound \/ i = "none" \/ Ongoing(t)

PingSent(k) == trace[k].pc \in {"send", "resend"} /\ trace'[k].pc = "read"

\* Pings of a broadcaster are polling_interval_secs apart, less the time by which
\* the earlier one was late (a refresh of the token, a slow answer: the interval
\* is counted from the time its trace began), with one trace at a time and no
\* failure: what a trace leaves in the map is what the next one reads, whatever
\* calls come in between.
PingsApart ==
  [][(Orderly /\ setting.tasks = 1) =>
       \A k \in Tasks : PingSent(k) =>
         LET i == trace[k].config.id
             late == past.sent[i] - past.begun[i]
         IN past.sent[i] # Never => now - past.sent[i] >= Interval - late]_vars

TokensOf(m) == UNION {m.entities[t].configs : t \in Types}

\* A refreshed token is kept: the map never goes back to an older one, with
\* one trace at a time.
TokenKept ==
  [][(Orderly /\ setting.tasks = 1) =>
       \A c \in TokensOf(map), d \in TokensOf(map)' : c.id = d.id => d.token >= c.token]_vars
=============================================================================
