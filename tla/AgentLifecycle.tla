---------------------------- MODULE AgentLifecycle -----------------------------
(***************************************************************************)
(* The registry of agents and the manager that parks idle subagents and    *)
(* revives parked ones: registry/agent-registry.ts, agent-lifecycle.ts,    *)
(* with what a session does to the registry when it is created and         *)
(* disposed of (sdk.ts), the reviver (task/persisted-revive.ts) and the    *)
(* hub that lists and kills agents (modes/components/agent-hub.ts).        *)
(*                                                                         *)
(* An agent id has a transcript on disk.  At most one ref is registered    *)
(* under it; sessions come and go.  An action is what the code does        *)
(* between two awaits.                                                     *)
(*                                                                         *)
(* Definitions named ..._Fault are not part of the model: each is a bug    *)
(* the definition after it could have, for which a property must fail.     *)
(***************************************************************************)
EXTENDS Naturals, FiniteSets

CONSTANTS
    Agents,     \* ids of revivable subagents
    Sessions,   \* session objects: a bound on revivals
    Callers,    \* calls of ensureLive
    MaxTurns, MaxKills  \* bounds

None == "none"
ASSUME SetsAssumption == None \notin Agents \cup Sessions \cup Callers
ASSUME BoundsAssumption == IsFiniteSet(Sessions) /\ MaxTurns \in Nat /\ MaxKills \in Nat

VARIABLES
    status,     \* AgentRef.status, None when no ref is registered
    attached,   \* AgentRef.session
    adopted,    \* #adopted, whose entries hold the reviver
    timer,      \* agents whose TTL timer is armed
    parking,    \* #parking: the session that park disposes of
    killing,    \* the session that release disposes of
    inflight,   \* #revivals: the call whose revival others join
    revival,    \* of each call, the revival it began: None, "factory", "opening" (before the
                \* session registers its agent), "registered", "attached" (until #revive goes on)
    cold,       \* revivals with coldAdopted
    created,    \* the session a revival has created
    state,      \* of each session: "free" (not created), "live", "disposing", "disposed"
    owner,      \* the agent of each session
    turn,       \* of each session: None, "accepted" (agent_start has not been emitted),
                \* "running", or "unseen": running, and the registry was not told
    caller,     \* of each call of ensureLive: None, "waiting", "got", "failed"
    target,     \* the agent it is for
    joined,     \* the call whose revival it awaits
    unheard,    \* sessions whose reviver failed before it subscribed to them
    killed,     \* history: agents release was called for
    turns, kills    \* history: bounded above

refs == <<status, attached>>
manager == <<adopted, timer, parking, killing, inflight, revival, cold, created>>
sessions == <<state, owner, turn>>
calls == <<caller, target, joined>>
history == <<unheard, killed, turns, kills>>
lifecycle == <<refs, manager, sessions, calls, history>>

LifecycleTypeOK ==
    /\ status \in [Agents -> {None, "running", "idle", "parked"}]
    /\ attached \in [Agents -> Sessions \cup {None}]
    /\ adopted \subseteq Agents /\ timer \subseteq adopted
    /\ parking \in [Agents -> Sessions \cup {None}]
    /\ killing \in [Agents -> Sessions \cup {None}]
    /\ inflight \in [Agents -> Callers \cup {None}]
    /\ revival \in [Callers -> {None, "factory", "opening", "registered", "attached"}]
    /\ cold \subseteq {c \in Callers : revival[c] # None}
    /\ created \in [Callers -> Sessions \cup {None}]
    /\ state \in [Sessions -> {"free", "live", "disposing", "disposed"}]
    /\ owner \in [Sessions -> Agents \cup {None}]
    /\ turn \in [Sessions -> {None, "accepted", "running", "unseen"}]
    /\ caller \in [Callers -> {None, "waiting", "got", "failed"}]
    /\ \A c \in Callers : caller[c] = "waiting" => revival[joined[c]] # None
    /\ joined \in [Callers -> Callers \cup {None}]
    /\ target \in [Callers -> Agents \cup {None}]
    /\ unheard \subseteq Sessions /\ killed \subseteq Agents
    /\ turns \in 0 .. MaxTurns /\ kills \in 0 .. MaxKills

\* The hub, or a resumed process, has found the agents' transcripts.
LifecycleInit ==
    /\ status = [a \in Agents |-> "parked"]
    /\ attached = [a \in Agents |-> None]
    /\ adopted = {} /\ timer = {} /\ cold = {}
    /\ parking = [a \in Agents |-> None] /\ killing = [a \in Agents |-> None]
    /\ inflight = [a \in Agents |-> None]
    /\ revival = [c \in Callers |-> None] /\ created = [c \in Callers |-> None]
    /\ state = [s \in Sessions |-> "free"]
    /\ owner = [s \in Sessions |-> None] /\ turn = [s \in Sessions |-> None]
    /\ caller = [c \in Callers |-> None] /\ joined = [c \in Callers |-> None]
    /\ target = [c \in Callers |-> None]
    /\ unheard = {} /\ killed = {} /\ turns = 0 /\ kills = 0

-----------------------------------------------------------------------------
(* The registry and the manager's listener.                                *)

\* register replaces the ref; no listener of the manager reacts to it.
Register(a, st) ==
    /\ status' = [status EXCEPT ![a] = st]
    /\ attached' = [attached EXCEPT ![a] = None]

\* unregister tells the manager, which forgets the agent.
Unregister(as) ==
    /\ status' = [a \in Agents |-> IF a \in as THEN None ELSE status[a]]
    /\ attached' = [a \in Agents |-> IF a \in as THEN None ELSE attached[a]]

Known(as) == {a \in as : status[a] # None}

\* The timer after setStatus(a, st) of an agent with an adoption in "kept".
TimerAfter_AdoptOnly_Fault(a, st, kept) ==
    IF st = "running" THEN timer \ {a} ELSE timer
TimerAfter(a, st, kept) ==
    LET changes == a \in kept /\ status[a] \notin {None, st}
    IN  CASE changes /\ st = "running" -> timer \ {a}
          [] changes /\ st = "idle" -> timer \cup {a}
          [] OTHER -> timer

SetStatus(a, st) ==
    /\ status' = IF status[a] = None THEN status ELSE [status EXCEPT ![a] = st]
    /\ timer' = TimerAfter(a, st, adopted)

-----------------------------------------------------------------------------
(* ensureLive, and the revival its callers share.                          *)

WaitingFor(c) == {x \in Callers : caller[x] = "waiting" /\ joined[x] = c}

\* A call of a parked agent starts a revival and is the one that others join.
Starts(c, a) ==
    /\ revival' = [revival EXCEPT ![c] = IF a \in adopted THEN "opening" ELSE "factory"]
    /\ inflight' = [inflight EXCEPT ![a] = c]
    /\ joined' = [joined EXCEPT ![c] = c]
    /\ caller' = [caller EXCEPT ![c] = "waiting"]

Joins(c, a) ==
    /\ joined' = [joined EXCEPT ![c] = inflight[a]]
    /\ caller' = [caller EXCEPT ![c] = "waiting"]
    /\ UNCHANGED <<revival, inflight>>

Returns(c, outcome) == caller' = [caller EXCEPT ![c] = outcome] /\ UNCHANGED <<revival, inflight, joined>>

EnsureLive(c, a) ==
    /\ caller[c] = None
    /\ target' = [target EXCEPT ![c] = a]
    /\ CASE attached[a] # None -> Returns(c, "got")
         [] attached[a] = None /\ status[a] # None /\ inflight[a] # None -> Joins(c, a)
         [] attached[a] = None /\ status[a] = "parked" /\ inflight[a] = None -> Starts(c, a)
         [] OTHER -> Returns(c, "failed")
    /\ UNCHANGED <<refs, adopted, timer, parking, killing, cold, created, sessions, history>>

\* The end of a revival: whoever awaits it goes on, #revivals forgets it.
Settles_FirstOnly_Fault(c, outcome) ==
    /\ caller' = [caller EXCEPT ![c] = outcome]
    /\ revival' = [revival EXCEPT ![c] = None]
    /\ inflight' = [inflight EXCEPT ![target[c]] = None]
    /\ cold' = cold \ {c}
Settles(c, outcome) ==
    /\ caller' = [x \in Callers |-> IF x \in WaitingFor(c) THEN outcome ELSE caller[x]]
    /\ revival' = [revival EXCEPT ![c] = None]
    /\ inflight' = [inflight EXCEPT ![target[c]] = None]
    /\ cold' = cold \ {c}

\* The factory reads the transcript and may find nothing it can revive.
FactoryReturns(c) ==
    /\ revival[c] = "factory"
    /\ adopted' = adopted \cup {target[c]}
    /\ cold' = cold \cup {c}
    /\ revival' = [revival EXCEPT ![c] = "opening"]
    /\ UNCHANGED <<refs, timer, parking, killing, inflight, created, sessions, calls, history>>

FactoryDeclines(c) ==
    /\ revival[c] = "factory"
    /\ Settles(c, "failed")
    /\ UNCHANGED <<refs, adopted, timer, parking, killing, created, sessions, target, joined, history>>

\* What a failing revival adopted itself it gives up.
ColdOf(c) == IF c \in cold THEN {target[c]} ELSE {}

\* The transcript cannot be opened.
OpenFails(c) ==
    /\ revival[c] = "opening"
    /\ Settles(c, "failed")
    /\ adopted' = adopted \ ColdOf(c)
    /\ timer' = timer \ ColdOf(c)
    /\ UNCHANGED <<refs, parking, killing, created, sessions, target, joined, history>>

\* createAgentSession registers the id anew before it builds the session.
Registers(c) ==
    /\ revival[c] = "opening"
    /\ Register(target[c], "running")
    /\ revival' = [revival EXCEPT ![c] = "registered"]
    /\ UNCHANGED <<adopted, timer, parking, killing, inflight, cold, created, sessions, calls, history>>

\* The agents unregisterUnlessParked forgets.
UnlessParked(a) == IF status[a] = "parked" \/ parking[a] # None THEN {} ELSE {a}

\* It fails after that: the ref goes, and with it the adoption.
CreateFails(c) ==
    /\ revival[c] = "registered"
    /\ Settles(c, "failed")
    /\ Unregister(UnlessParked(target[c]))
    /\ LET forgotten == Known(UnlessParked(target[c])) \cup ColdOf(c) IN
        adopted' = adopted \ forgotten /\ timer' = timer \ forgotten
    /\ UNCHANGED <<parking, killing, created, sessions, target, joined, history>>

\* The session exists and is attached, if its ref is still there.
FreeSessions == {s \in Sessions : state[s] = "free"}
Attach(a, s) == attached' = [attached EXCEPT ![a] = IF status[a] = None THEN None ELSE s]

Creates(c) ==
    /\ revival[c] = "registered" /\ FreeSessions # {}
    /\ LET s == CHOOSE s \in FreeSessions : TRUE IN
        /\ state' = [state EXCEPT ![s] = "live"]
        /\ owner' = [owner EXCEPT ![s] = target[c]]
        /\ Attach(target[c], s)
        /\ created' = [created EXCEPT ![c] = s]
    /\ revival' = [revival EXCEPT ![c] = "attached"]
    /\ UNCHANGED <<status, adopted, timer, parking, killing, inflight, cold, turn, calls, history>>

\* #revive attaches it once more and the callers get it.
RevivalEnds(c) ==
    /\ revival[c] = "attached"
    /\ Attach(target[c], created[c])
    /\ SetStatus(target[c], "idle")
    /\ Settles(c, "got")
    /\ created' = [created EXCEPT ![c] = None]
    /\ UNCHANGED <<adopted, parking, killing, sessions, target, joined, history>>

\* The reviver cannot set the tools of the session that createAgentSession has attached: the
\* callers fail, and the session lives on, attached and "running", with nobody to tell the
\* registry of its turns.
ReviverFails(c) ==
    /\ revival[c] = "attached"
    /\ Settles(c, "failed")
    /\ adopted' = adopted \ ColdOf(c)
    /\ timer' = timer \ ColdOf(c)
    /\ unheard' = unheard \cup {created[c]}
    /\ created' = [created EXCEPT ![c] = None]
    /\ UNCHANGED <<refs, parking, killing, sessions, target, joined, killed, turns, kills>>

-----------------------------------------------------------------------------
(* Turns of a session, park and release.                                   *)

\* A message or the user starts a turn; extensions may hold its agent_start back.
AcceptTurn(s) ==
    /\ state[s] = "live" /\ turn[s] = None /\ turns < MaxTurns
    /\ turn' = [turn EXCEPT ![s] = "accepted"]
    /\ turns' = turns + 1
    /\ UNCHANGED <<refs, manager, state, owner, calls, unheard, killed, kills>>

\* The reviver subscribes to the session just before #revive goes on.
Subscribed(s) == s \notin unheard /\ \A c \in Callers : created[c] # s

TurnStarts(s) ==
    /\ turn[s] = "accepted"
    /\ IF Subscribed(s)
       THEN turn' = [turn EXCEPT ![s] = "running"] /\ SetStatus(owner[s], "running")
       ELSE turn' = [turn EXCEPT ![s] = "unseen"] /\ UNCHANGED <<status, timer>>
    /\ UNCHANGED <<attached, adopted, parking, killing, inflight, revival, cold, created, state, owner, calls, history>>

TurnEnds(s) ==
    /\ turn[s] \in {"running", "unseen"}
    /\ turn' = [turn EXCEPT ![s] = None]
    /\ IF Subscribed(s) THEN SetStatus(owner[s], "idle") ELSE UNCHANGED <<status, timer>>
    /\ UNCHANGED <<attached, adopted, parking, killing, inflight, revival, cold, created, state, owner, calls, history>>

BeginDispose(s) == state' = [state EXCEPT ![s] = IF @ = "live" THEN "disposing" ELSE @]
EndDispose(s) ==
    /\ state' = [state EXCEPT ![s] = "disposed"]
    /\ turn' = [turn EXCEPT ![s] = None]

\* The TTL has passed: park disposes of the session, still attached.
TimerFires_Detached_Fault(a) ==
    /\ a \in timer
    /\ timer' = timer \ {a}
    /\ IF a \in adopted /\ attached[a] # None
       THEN /\ parking' = [parking EXCEPT ![a] = attached[a]]
            /\ BeginDispose(attached[a])
            /\ Register(a, "parked")
       ELSE UNCHANGED <<parking, state, refs>>
    /\ UNCHANGED <<adopted, killing, inflight, revival, cold, created, owner, turn, calls, history>>

TimerFires(a) ==
    /\ a \in timer
    /\ timer' = timer \ {a}
    /\ IF attached[a] # None
       THEN /\ parking' = [parking EXCEPT ![a] = attached[a]]
            /\ BeginDispose(attached[a])
       ELSE UNCHANGED <<parking, state>>
    /\ UNCHANGED <<refs, adopted, killing, inflight, revival, cold, created, owner, turn, calls, history>>

\* Whoever is registered under the id by now is detached and parked.
ParkEnds(a) ==
    /\ parking[a] # None
    /\ EndDispose(parking[a])
    /\ parking' = [parking EXCEPT ![a] = None]
    /\ attached' = [attached EXCEPT ![a] = None]
    /\ SetStatus(a, "parked")
    /\ UNCHANGED <<adopted, killing, inflight, revival, cold, created, owner, calls, history>>

\* The hub kills an agent.  It aborts the turn of a running one first.
Kill(a) ==
    /\ status[a] # None /\ kills < MaxKills /\ killing[a] = None
    /\ status[a] = "running" /\ attached[a] # None => turn[attached[a]] = None
    /\ kills' = kills + 1 /\ killed' = killed \cup {a}
    /\ adopted' = adopted \ {a} /\ timer' = timer \ {a}
    /\ IF attached[a] # None
       THEN /\ killing' = [killing EXCEPT ![a] = attached[a]]
            /\ BeginDispose(attached[a])
            /\ UNCHANGED refs
       ELSE Unregister({a}) /\ UNCHANGED <<killing, state>>
    /\ UNCHANGED <<parking, inflight, revival, cold, created, owner, turn, calls, unheard, turns>>

KillEnds(a) ==
    /\ killing[a] # None
    /\ EndDispose(killing[a])
    /\ killing' = [killing EXCEPT ![a] = None]
    /\ Unregister({a})
    /\ adopted' = adopted \ Known({a}) /\ timer' = timer \ Known({a})
    /\ UNCHANGED <<parking, inflight, revival, cold, created, owner, calls, history>>

\* The hub opens and registers the transcripts of unknown agents.
Scan(a) ==
    /\ status[a] = None
    /\ Register(a, "parked")
    /\ UNCHANGED <<manager, sessions, calls, history>>

-----------------------------------------------------------------------------
Revival(c) ==
    \/ FactoryReturns(c) \/ FactoryDeclines(c) \/ OpenFails(c) \/ Registers(c) \/ CreateFails(c)
    \/ Creates(c) \/ RevivalEnds(c) \/ ReviverFails(c)

-----------------------------------------------------------------------------
(* Properties.  Killing an agent while it is parked or revived breaks some *)
(* of them (ReleasedIsGone), so they speak of agents nobody has killed.    *)

Open(a) == {s \in Sessions : owner[s] = a /\ state[s] \in {"live", "disposing"}}

\* A revival finds the transcript closed: at no time do two sessions of an agent
\* hold it, however callers, timers and turns interleave (the single-writer lock
\* of persisted-revive.ts).
SingleWriter == \A a \in Agents \ killed : Cardinality(Open(a)) <= 1

\* A session is live only as the one its agent's ref names: peers can reach every
\* live session, also one whose reviver has failed.
LiveIsReachable ==
    \A s \in Sessions :
        state[s] = "live" /\ owner[s] \notin killed => attached[owner[s]] = s

\* An agent's session is one, and the one its peers reach.
OneKnownSession == SingleWriter /\ LiveIsReachable

\* The TTL never disposes of a session whose turn the registry knows of.
TimerSparesTurns ==
    [][\A s \in Sessions :
        state[s] = "live" /\ state'[s] = "disposing" /\ owner[s] \notin killed'
        => turn[s] # "running"]_lifecycle

\* release is a "Hard removal: dispose if live": no session of an agent that was
\* killed lives on without a ref.
ReleasedIsGone ==
    \A s \in Sessions :
        state[s] = "live" /\ status[owner[s]] = None => \E c \in Callers : created[c] = s
=============================================================================
