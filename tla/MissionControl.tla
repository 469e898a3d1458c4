---------------------------- MODULE MissionControl ----------------------------
(***************************************************************************)
(* The Owner's runtime map, device list and interaction history.           *)
(*                                                                         *)
(* The Admin process reads one source after another and records each       *)
(* outcome on a ledger, from which every lane of the map takes its health; *)
(* the Local API joins the devices lane with the inventory it reads        *)
(* itself.  No two reads of one composition are of the same fact, so the   *)
(* composition is one step; the Local API's later read is another.         *)
(* Requests share nothing, so one reading at a time is looked at.          *)
(***************************************************************************)
EXTENDS RuntimeActivities, FiniteSetsExt

CONSTANTS
    Bodies,         \* device ids, ordered
    Companions,
    MaxClaims,      \* claims there ever are
    MaxRows,        \* turns and tasks the Agent ever records
    MaxTime,        \* the Agent's clock
    MaxFaults,      \* sources that fail one reading
    TurnPage,       \* turns, and tasks, one composition reads (20)
    PerScope,       \* activities of one Companion (12)
    Total,          \* activities of one composition (48)
    LaneLimit,      \* activities, turns or jobs in a lane (24)
    DeviceLimit,    \* devices in a lane (64)
    HistoryPage     \* rows of one page of history (30)

ASSUME BoundsAssumption ==
    /\ Bodies \subseteq Nat
    /\ {MaxClaims, MaxRows, MaxTime, MaxFaults} \subseteq Nat
    /\ {TurnPage, PerScope, Total, LaneLimit, DeviceLimit, HistoryPage} \subseteq Nat \ {0}
    /\ LaneLimit < Total

VARIABLES
    claim,      \* the inventory: Hub's claims and Kernel's assignments
    room,       \* the channel provider's rows
    log,        \* the Agent's turns and long tasks, oldest first
    now,        \* the Agent's clock
    reading     \* the request being answered, or what the phone shows of it

vars == <<claim, room, log, now, reading>>

Claims == [generation : 0..MaxClaims, held : BOOLEAN]

\* on: whether the body's own participant is in its room; blind: it cannot be told
Rooms == [generation : 0..MaxClaims, on : {"on", "off", "blind", "none"}, fresh : BOOLEAN]

NoRoom == [generation |-> 0, on |-> "none", fresh |-> FALSE]

\* end: 0 while the turn or task is active
LogRows == [kind : {"turn", "task"}, who : Companions, at : 1..MaxTime, end : 0..MaxTime]

Nothing == [step |-> "nothing"]

Init ==
    /\ claim = [b \in Bodies |-> [generation |-> 0, held |-> FALSE]]
    /\ room = [b \in Bodies |-> NoRoom]
    /\ log = <<>>
    /\ now = 1
    /\ reading = Nothing

AtRest == reading = Nothing

Finished == reading.step \in {"map", "list", "walked", "drawn"}

\* A move of an authority that this reading cannot see any more is as good as
\* one after it.
Seen(step) == AtRest \/ reading.step = step

FirstOf(n, s) == SubSeq(s, 1, IF Len(s) < n THEN Len(s) ELSE n)

-----------------------------------------------------------------------------
(* The ledger.                                                              *)

Lanes == {"devices", "services", "activities", "turns", "jobs", "memory", "events"}

SourceLanes ==
    [s \in {"data.owners", "data.companions", "hub.device_page", "hub.event_feed",
            "data.guard_bindings"} |-> {}]
    @@ [s \in {"runtime.blackboard", "channel.presence"} |-> {"devices"}]
    @@ [s \in {"memory.roster", "memory.runtime"} |-> {"memory"}]
    @@ [s \in {"audit.index", "audit.indexer"} |-> {"events"}]
    @@ ("control-plane" :> Lanes)
    @@ ("host.services" :> {"services"})
    @@ ("agent.turns" :> {"turns", "activities"})
    @@ ("data.conversations" :> {"turns"})
    @@ ("agent.long_tasks" :> {"jobs", "activities"})
    @@ ("data.jobs" :> {"jobs"})

\* the sources that are asked at all, and may fail
Asked == {"control-plane", "data.owners", "data.companions", "memory.roster", "memory.runtime",
          "channel.presence", "host.services", "agent.turns", "agent.long_tasks",
          "audit.indexer", "audit.index"}

\* the Agent answers, and its answer holds no list
Listless == {"agent.turns without a list", "agent.long_tasks without a list"}

\* what a source may answer instead: Memory, that it is not ready; the channel
\* provider, rows that are all other Owners'; Data, no Companion
Unfit == {"memory.runtime not ready", "channel.presence of others", "data.companions empty"}
         \cup Listless

\* what may go wrong in one composition
Faults == UNION {kSubset(n, Asked \cup Unfit) : n \in 0..MaxFaults}

\* record: a source recorded twice keeps its latest outcome
Recorded(rows) ==
    [s \in {row[1] : row \in ToSet(rows)} |->
        rows[SelectLastInSeq(rows, LAMBDA row : row[1] = s)][2]]

\* outcome: what a lane may claim about itself
Outcome(ledger, lane) ==
    LET rows == {s \in DOMAIN ledger : lane \in SourceLanes[s]}
        answers == {s \in rows : ledger[s]}
    IN  CASE answers = {}   -> "unavailable"
          [] answers = rows -> "ok"
          [] OTHER          -> "degraded"

\* (faulty variant: the fallback is recorded as an answer)
SafeOrFallback(source, faults) == <<source, TRUE>>

\* _safe, and the reads that catch their own failure
Safe(source, faults) == <<source, source \notin faults>>

\* _unexposed: said out loud, not asked
Unexposed(source) == <<source, FALSE>>

\* a source that answered something unfit is recorded again
Again(source, unfit, faults) ==
    IF unfit \in faults /\ source \notin faults THEN <<Unexposed(source)>> ELSE <<>>

-----------------------------------------------------------------------------
(* The composition.                                                         *)

\* rows of other Owners are dropped; rows that are all other Owners' are a failure
ChannelPresence(faults) ==
    LET mine == {b \in Bodies : room[b] # NoRoom}
    IN  [rows |-> IF "channel.presence" \in faults THEN {} ELSE mine,
         ok |-> /\ "channel.presence" \notin faults
                /\ mine # {} \/ "channel.presence of others" \notin faults]

\* the order in which compose_runtime reports; a missing control plane or Owner
\* ends it early
Reports(faults) ==
    IF "control-plane" \in faults THEN <<Unexposed("control-plane")>>
    ELSE IF "data.owners" \in faults THEN <<Unexposed("data.owners")>>
    ELSE <<Safe("data.companions", faults), Unexposed("hub.device_page"),
           Unexposed("hub.event_feed")>>
         \o Again("data.companions", "data.companions empty", faults)
         \o <<Unexposed("data.conversations"), Safe("memory.roster", faults),
              Unexposed("data.jobs"), Unexposed("data.guard_bindings"),
              Safe("memory.runtime", faults)>>
         \o Again("memory.runtime", "memory.runtime not ready", faults)
         \o <<Unexposed("runtime.blackboard"), <<"channel.presence", ChannelPresence(faults).ok>>,
              Safe("host.services", faults), Safe("agent.turns", faults),
              Safe("agent.long_tasks", faults)>>

\* _memory_summary: the Owner's realms if the supervisor listed any, and whether
\* Memory says that it is ready
MemorySummary(faults) ==
    [realms |-> "memory.roster" \notin faults,
     ready |-> faults \cap {"memory.runtime", "memory.runtime not ready"} = {}]

\* _host_services: the Host's services, if eidolond told of them
Services(faults) == "host.services" \notin faults

AuditTail(faults) == <<Safe("audit.indexer", faults), Safe("audit.index", faults)>>

\* _device_presence and _device: the channel is the only authority that answers
DevicePresence(on) ==
    CASE on = "on"  -> "online"
      [] on = "off" -> "offline"
      [] OTHER      -> "unknown"

\* _merge_devices: present bodies first
MergeDevices(bodies) ==
    LET Row(b) == [body |-> b, presence |-> DevicePresence(room[b].on)]
        Rank(b) == IF room[b].on = "on" THEN 0 ELSE 1
        Before(a, b) == Rank(a) < Rank(b) \/ (Rank(a) = Rank(b) /\ a < b)
        order == SetToSortSeq(bodies, Before)
    IN  [i \in DOMAIN order |-> Row(order[i])]

\* the Agent: rows that began before a time, newest first
AgentPage(kind, before, limit) ==
    LET older == SelectSeq([i \in DOMAIN log |-> i],
                           LAMBDA i : log[i].kind = kind /\ log[i].at < before)
    IN  FirstOf(limit, Reverse(older))

Never == MaxTime + 1

\* an answer without a list is one without rows, and recorded as an answer
AgentTurns(faults) ==
    IF faults \cap {"agent.turns", "agent.turns without a list"} # {} THEN <<>>
    ELSE AgentPage("turn", Never, TurnPage)

AgentLongTasks(faults) ==
    IF faults \cap {"agent.long_tasks", "agent.long_tasks without a list"} # {} THEN <<>>
    ELSE AgentPage("task", Never, TurnPage)

Active(i) == log[i].end = 0

OfScope(kept, i) == Len(SelectSeq(kept, LAMBDA k : log[k].who = log[i].who))

\* (faulty variant: the bound on a Companion holds for what is active too)
KeepFew(kept, i) ==
    IF Len(kept) >= Total \/ OfScope(kept, i) >= PerScope THEN kept ELSE Append(kept, i)

\* a noisy Companion does not evict the others, and loses nothing that is active
Keep(kept, i) ==
    IF Len(kept) >= Total \/ (OfScope(kept, i) >= PerScope /\ ~Active(i)) THEN kept
    ELSE Append(kept, i)

\* _project_runtime_activities: active first, then the latest
ProjectActivities(rows) ==
    LET Updated(i) == IF Active(i) THEN log[i].at ELSE log[i].end
        Before(i, j) ==
            IF Active(i) # Active(j) THEN Active(i)
            ELSE Updated(i) > Updated(j) \/ (Updated(i) = Updated(j) /\ i > j)
    IN  FoldLeft(Keep, <<>>, SortSeq(rows, Before))

-----------------------------------------------------------------------------
(* The projection and the join.                                             *)

\* _items_lane: an unreadable lane carries no rows, a long one says it was cut
ItemsLane(state, rows, limit) ==
    IF state = "unavailable" THEN [rows |-> <<>>, cut |-> FALSE]
    ELSE [rows |-> FirstOf(limit, rows), cut |-> Len(rows) > limit]

\* the value of an unreadable memory lane
NoMemory == [realms |-> FALSE, ready |-> FALSE]

\* get_mission_control_snapshot of the Admin process: compose, read the audit
\* tail, project.  Kept beside the answer, for the properties: the faults, the
\* rooms, and what was read as active.
Compose ==
    /\ AtRest
    /\ \E faults \in Faults :
          LET ledger == Recorded(Reports(faults) \o AuditTail(faults))
              state == [lane \in Lanes |-> Outcome(ledger, lane)]
              early == faults \cap {"control-plane", "data.owners"} # {}
              bodies == IF early THEN {} ELSE ChannelPresence(faults).rows
              read == IF early THEN <<>> ELSE AgentTurns(faults) \o AgentLongTasks(faults)
              Of(lane, value, none) ==
                  IF state[lane] = "unavailable" THEN none ELSE value
              devices == ItemsLane(state["devices"], MergeDevices(bodies), DeviceLimit)
              activities == ItemsLane(state["activities"], ProjectActivities(read), LaneLimit)
          IN  reading' = [step |-> "composed", state |-> state,
                          devices |-> devices.rows, activities |-> activities.rows,
                          cut |-> activities.cut, faults |-> faults,
                          memory |-> Of("memory", MemorySummary(faults), NoMemory),
                          services |-> Of("services", Services(faults), FALSE),
                          rooms |-> room, active |-> {i \in ToSet(read) : Active(i)}]
    /\ UNCHANGED <<claim, room, log, now>>

\* _row: a body of the inventory that nobody observed
InventoryRow(b) == [body |-> b, presence |-> "unknown"]

\* _health: a lane that reads half is degraded, and degraded it stays
Health(state, inventoried) ==
    CASE state = "unavailable" /\ ~inventoried -> "unavailable"
      [] state = "unavailable" \/ ~inventoried -> "degraded"
      [] OTHER -> state

\* the inventory, where it was read, names the bodies that are drawn (_fill) and
\* adds the others
JoinOwnerDevices(snapshot, inventoried) ==
    LET state == Health(snapshot.state["devices"], inventoried)
        drawn == {row.body : row \in ToSet(snapshot.devices)}
        known == IF inventoried THEN {b \in Bodies : claim[b].held} ELSE {}
        added == SetToSortSeq(known \ drawn, <)
        rows == snapshot.devices \o [i \in DOMAIN added |-> InventoryRow(added[i])]
    IN  [snapshot EXCEPT !.step = "map", !.state["devices"] = state,
                         !.devices = IF state = "unavailable" THEN <<>> ELSE rows]

\* the Local API's get_mission_control_snapshot: without a composition there is no
\* answer; without an inventory there is one that says so
GetMissionControlSnapshot ==
    /\ reading.step = "composed"
    /\ \/ reading' = Nothing
       \/ \E inventoried \in BOOLEAN : reading' = JoinOwnerDevices(reading, inventoried)
    /\ UNCHANGED <<claim, room, log, now>>

-----------------------------------------------------------------------------
(* The device list.                                                         *)

\* (faulty variant: any room of the body speaks)
ReferencePresenceOfBody(b, generation, observed) ==
    IF observed /\ room[b].fresh THEN DevicePresence(room[b].on) ELSE "unknown"

\* _reference_presence: only a fresh row of this very claim speaks
ReferencePresence(b, generation, observed) ==
    IF observed /\ room[b].generation = generation /\ room[b].fresh
    THEN DevicePresence(room[b].on) ELSE "unknown"

\* get_devices: the inventory, or a refusal
ReadInventory ==
    /\ AtRest
    /\ reading' = [step |-> "inventoried", devices |-> {[body |-> b, generation |-> claim[b].generation] :
                                                         b \in {b \in Bodies : claim[b].held}}]
    /\ UNCHANGED <<claim, room, log, now>>

\* then the rooms of its domain, which may not be readable
ListDevices ==
    /\ reading.step = "inventoried"
    /\ \E observed \in BOOLEAN :
          reading' = [step |-> "list", rooms |-> room,
                      devices |-> {[body |-> d.body, generation |-> d.generation,
                                    presence |-> ReferencePresence(d.body, d.generation, observed)] :
                                   d \in reading.devices}]
    /\ UNCHANGED <<claim, room, log, now>>

\* get_device_presences: every room of the domain, under its own claim
GetDevicePresences ==
    /\ AtRest
    /\ reading' = [step |-> "list", rooms |-> room,
                   devices |-> {[body |-> b, generation |-> room[b].generation,
                                 presence |-> ReferencePresence(b, room[b].generation, TRUE)] :
                                b \in {b \in Bodies : room[b] # NoRoom}}]
    /\ UNCHANGED <<claim, room, log, now>>

-----------------------------------------------------------------------------
(* The interaction history.                                                 *)

\* the phone opens the history; for the property, known: what there was to show,
\* sound: every page so far was a list whose oldest row says when it began
OpenHistory ==
    /\ AtRest
    /\ reading' = [step |-> "walking", before |-> Never, shown |-> {}, sound |-> TRUE,
                   known |-> {i \in DOMAIN log : log[i].kind = "turn"}]
    /\ UNCHANGED <<claim, room, log, now>>

\* (faulty variant: a page that is just full is taken for the last)
NextCursorBeyond(rows, dated) ==
    IF Len(rows) > HistoryPage /\ dated THEN log[Last(rows)].at ELSE Never

\* the cursor of a page: when its oldest row began, if that can be read, and none
\* after a short page
NextCursor(rows, dated) ==
    IF Len(rows) = HistoryPage /\ dated THEN log[Last(rows)].at ELSE Never

\* owner_activity_page: a page without a cursor is the last; a failed page is said
\* to have failed and asked for again
ActivityPage ==
    /\ reading.step = "walking"
    /\ \E listed, dated \in BOOLEAN :
          LET rows == IF listed THEN AgentPage("turn", reading.before, HistoryPage) ELSE <<>>
              cursor == NextCursor(rows, dated)
          IN  reading' = [reading EXCEPT !.step = IF cursor = Never THEN "walked" ELSE "walking",
                                         !.before = cursor,
                                         !.sound = listed /\ dated,
                                         !.shown = @ \cup ToSet(rows)]
    /\ UNCHANGED <<claim, room, log, now>>

-----------------------------------------------------------------------------
(* One activity.                                                            *)

\* One row the Agent answered with, as the map and the history both draw it.  Only
\* the row matters, so it is looked at once, before the authorities move.
DrawActivity ==
    /\ AtRest /\ log = <<>> /\ \A b \in Bodies : claim[b].generation = 0
    /\ \E row \in TurnRows \cup TaskRows :
          reading' = [step |-> "drawn", row |-> row, activity |-> Drawn(row)]
    /\ UNCHANGED <<claim, room, log, now>>

-----------------------------------------------------------------------------
(* The authorities, as the reads see them.                                  *)

Claimed(b) ==
    /\ ~claim[b].held /\ MapThenSumSet(LAMBDA d : claim[d].generation, Bodies) < MaxClaims
    /\ claim' = [claim EXCEPT ![b] = [generation |-> @.generation + 1, held |-> TRUE]]
    /\ UNCHANGED <<room, log, now, reading>>

Removed(b) ==
    /\ claim[b].held
    /\ claim' = [claim EXCEPT ![b].held = FALSE]
    /\ UNCHANGED <<room, log, now, reading>>

\* a room is granted to a claim, and its row may outlive that claim
Granted(b) ==
    /\ claim[b].held /\ room[b].generation # claim[b].generation
    /\ room' = [room EXCEPT ![b] = [generation |-> claim[b].generation, on |-> "off", fresh |-> TRUE]]
    /\ UNCHANGED <<claim, log, now, reading>>

Observed(b) ==
    /\ room[b] # NoRoom
    /\ \E on \in {"on", "off", "blind"}, fresh \in BOOLEAN :
          room' = [room EXCEPT ![b].on = on, ![b].fresh = fresh]
    /\ UNCHANGED <<claim, log, now, reading>>

Withdrawn(b) ==
    /\ room[b] # NoRoom
    /\ room' = [room EXCEPT ![b] = NoRoom]
    /\ UNCHANGED <<claim, log, now, reading>>

\* the clock stands, or has moved on since the last row
Moves == now' \in {now, now + 1} \cap (1..MaxTime)

Begins(kind, c) ==
    /\ Len(log) < MaxRows
    /\ Moves
    /\ log' = Append(log, [kind |-> kind, who |-> c, at |-> now', end |-> 0])
    /\ UNCHANGED <<claim, room, reading>>

Ends(i) ==
    /\ Active(i)
    /\ Moves
    /\ log' = [log EXCEPT ![i].end = now']
    /\ UNCHANGED <<claim, room, reading>>

Authorities ==
    \/ /\ Seen("composed") \/ Seen("inventoried")
       /\ \E b \in Bodies : Claimed(b) \/ Removed(b)
    \/ /\ Seen("inventoried")
       /\ \E b \in Bodies : Granted(b) \/ Observed(b) \/ Withdrawn(b)
    \/ Seen("walking") /\ \E c \in Companions : Begins("turn", c)
    \/ /\ AtRest
       /\ \/ \E c \in Companions : Begins("task", c)
          \/ \E i \in DOMAIN log : Ends(i)

\* the phone has shown what it was told
Close ==
    /\ Finished
    /\ reading' = Nothing
    /\ UNCHANGED <<claim, room, log, now>>

Next ==
    \/ Compose \/ GetMissionControlSnapshot
    \/ ReadInventory \/ ListDevices \/ GetDevicePresences
    \/ OpenHistory \/ ActivityPage
    \/ DrawActivity
    \/ Close
    \/ Authorities

Spec == Init /\ [][Next]_vars

-----------------------------------------------------------------------------
(* Properties.                                                              *)

\* A lane the phone is told is "ok" had an answer from every source that
\* decides it, and carries what they answered: losing a source, Memory answering
\* that it is not ready, or an indexer that has stopped never looks like a quiet
\* house (LaneLedger, _safe, _health).  With one exception, which the code makes:
\* an Agent that answers without a list is taken for one with nothing to tell
\* (_agent_turns, _agent_long_tasks), where the channel provider is not
\* (_channel_presence).
OkIsEarned ==
    reading.step = "map" =>
        \A lane \in Lanes : reading.state[lane] = "ok" =>
            /\ \A s \in Asked \cap reading.faults : lane \notin SourceLanes[s]
            /\ lane # "events" => reading.faults \cap {"control-plane", "data.owners"} = {}
            /\ lane = "memory" => reading.memory = [realms |-> TRUE, ready |-> TRUE]
            /\ lane = "services" => reading.services
            /\ lane = "activities" /\ reading.activities = <<>> =>
                  log = <<>> \/ reading.faults \cap Listless # {}

\* A body drawn online or offline was seen so by its channel when the rooms
\* were read, and in the device list under the very claim that is listed:
\* neither a claim, nor an assignment, nor the room of an older claim is taken
\* for presence, although the inventory is read at another time than the rooms
\* (_row, _fill, _reference_presence).
PresenceIsObserved ==
    /\ reading.step = "map" => \A row \in ToSet(reading.devices) :
          row.presence # "unknown" => row.presence = DevicePresence(reading.rooms[row.body].on)
    /\ reading.step = "list" => \A row \in reading.devices :
          row.presence # "unknown" =>
              /\ row.presence = DevicePresence(reading.rooms[row.body].on)
              /\ row.generation = reading.rooms[row.body].generation

\* What the composition read as still going on is on the map, unless the lane
\* says that it was cut: the bound on one noisy Companion never hides a turn or
\* a task that is running; and what is drawn is highlighted exactly while it is
\* active, on a hop that is going on, although a stage is judged from evidence
\* that arrives piece by piece (_project_runtime_activities, _items_lane,
\* _turn_stages, _voice_activity, _job_activity).
ActiveIsDrawn ==
    /\ (reading.step = "map" /\ reading.state["activities"] # "unavailable" /\ ~reading.cut) =>
          reading.active \subseteq ToSet(reading.activities)
    /\ reading.step = "drawn" => HighlightIsOn(reading.row, reading.activity)

\* A history that was scrolled to its end has shown every turn there was when
\* it was opened, while new turns kept arriving; a turn that began at the same
\* moment as another may fall between two pages (owner_activity_page).  A page
\* that is no list, or whose oldest turn does not say when it began, ends the
\* history without a word.
HistoryIsWhole ==
    reading.step = "walked" /\ reading.sound =>
        \A i \in reading.known :
            (\A j \in DOMAIN log : j # i => log[j].at # log[i].at) => i \in reading.shown
=============================================================================
