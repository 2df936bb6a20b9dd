------------------------------ MODULE IrcBus_proofs -----------------------------
(***************************************************************************)
(* The bus and the lifecycle of its agents for any number of agents,       *)
(* sessions, messages and waits.                                           *)
(***************************************************************************)
EXTENDS IrcBus, FiniteSetTheorems, SequenceTheorems, WellFoundedInduction, TLAPS

-----------------------------------------------------------------------------
(* The invariant.                                                          *)

\* Which revival is whose: #revivals holds the revivals under way, and their callers wait.
RevivalOK ==
    /\ \A c \in Callers : caller[c] = "waiting" => joined[c] \in Callers
    /\ \A c \in Callers : revival[c] # None =>
          /\ target[c] \in Agents /\ inflight[target[c]] = c
          /\ caller[c] = "waiting" /\ joined[c] = c
    /\ \A a \in Agents : inflight[a] # None => revival[inflight[a]] # None /\ target[inflight[a]] = a
    /\ \A c \in Callers : created[c] # None <=> revival[c] = "attached"

\* Whose the sessions are that the maps name.
Of(s, a) == owner[s] = a /\ state[s] # "free"
OwnOK ==
    /\ \A s \in Sessions : state[s] # "free" => owner[s] \in Agents
    /\ \A a \in Agents : /\ attached[a] # None => Of(attached[a], a)
                         /\ parking[a] # None => Of(parking[a], a)
                         /\ killing[a] # None => Of(killing[a], a) /\ a \in killed
    /\ \A c \in Callers : created[c] # None => Of(created[c], target[c]) /\ turn[created[c]] # "running"
    /\ \A s \in Sessions : turn[s] # None => state[s] \in {"live", "disposing"}

\* An agent nobody has killed: its open session is the attached one, none while it is revived,
\* and its timer is not armed in a turn the registry was told of.
AgentOK(a) ==
    /\ \A s \in Open(a) : attached[a] = s
    /\ status[a] = None => attached[a] = None /\ inflight[a] = None
    /\ parking[a] # None => attached[a] = parking[a]
    /\ \A c \in Callers : target[c] = a =>
          /\ revival[c] \in {"factory", "opening", "registered"} => attached[a] = None
          /\ revival[c] = "attached" =>
                attached[a] = created[c] \/ (attached[a] = None /\ status[a] # "running")
    /\ \A s \in Open(a) : turn[s] = "running" => a \notin timer
    /\ status[a] = "running" /\ a \in timer =>
          \/ attached[a] \in unheard
          \/ \E c \in Callers : target[c] = a /\ revival[c] \in {"registered", "attached"}

LifeInv == LifecycleTypeOK /\ RevivalOK /\ OwnOK /\ \A a \in Agents \ killed : AgentOK(a)

\* Where a message is, and what its sender was told.
Read == {"injected", "woken", "revived"}
TakenOK(m) ==
    \/ taken[m] = {} /\ receipt[m] \notin Read
    \/ taken[m] = {"session"} /\ receipt[m] \in Read
    \/ taken[m] = {"waiter"} /\ receipt[m] \in Read /\ \E w \in Waits : wait[w] = "message" /\ answer[w] = m
    \/ (\E how \in {"wait", "inbox", "dropped"} : taken[m] = {how}) /\ receipt[m] = "failed"

MailOK ==
    /\ \A a \in Agents : IsInjective(mailbox[a])
    /\ \A a \in Agents : \A m \in ToSet(mailbox[a]) :
          To[m] = a /\ receipt[m] = "failed" /\ taken[m] = {}
    /\ \A m \in Messages : TakenOK(m)

WaitOK == \A w \in Waits : wait[w] = "waiting" => waitOf[w] \in Sessions /\ state[waitOf[w]] # "free"

\* The waits of an agent are the ones that are under way, each once.
WaitersOK(a) ==
    /\ IsInjective(waiters[a])
    /\ ToSet(waiters[a]) = {w \in Waits : wait[w] = "waiting" /\ owner[waitOf[w]] = a}

\* What TypeOK says of the bus.
BusTypeOK ==
    /\ mailbox \in [Agents -> Seq(Messages)]
    /\ waiters \in [Agents -> Seq(Waits)]
    /\ \A a \in Agents : Len(mailbox[a]) <= MailboxCap
    /\ receipt \in [Messages -> {None, "reviving", "injected", "woken", "revived", "failed"}]
    /\ wait \in [Waits -> {None, "waiting", "message", "timeout", "aborted"}]
    /\ waitOf \in [Waits -> Sessions \cup {None}]
    /\ answer \in [Waits -> Messages \cup {None}]
    /\ taken \in [Messages -> SUBSET {"waiter", "session", "wait", "inbox", "dropped"}]

BusOK ==
    /\ BusTypeOK /\ \A a \in Agents : WaitersOK(a)
    /\ MailOK /\ WaitOK /\ NoMailWhileWaiting

Inv == LifeInv /\ BusOK

-----------------------------------------------------------------------------
(* The revivals.                                                           *)

\* What the proofs of a step begin with.
LEMMA LifeTypes ==
    ASSUME LifeInv
    PROVE  /\ LifecycleTypeOK /\ RevivalOK /\ OwnOK /\ \A a \in Agents \ killed : AgentOK(a)
           /\ None \notin Agents /\ None \notin Sessions /\ None \notin Callers
  BY SetsAssumption DEF LifeInv

\* A revival settles: nobody waits for it any more, and no other one is concerned.
LEMMA SettlesRevival ==
    ASSUME LifeInv, NEW c \in Callers, revival[c] # None, NEW o \in {"got", "failed"},
           Settles(c, o), UNCHANGED <<joined, target>>,
           created' = [created EXCEPT ![c] = None]
    PROVE  /\ RevivalOK'
           /\ caller' \in [Callers -> {None, "waiting", "got", "failed"}]
           /\ \A x \in Callers : caller'[x] = "waiting" => revival'[joined'[x]] # None
           /\ inflight' \in [Agents -> Callers \cup {None}]
           /\ revival' \in [Callers -> {None, "factory", "opening", "registered", "attached"}]
           /\ cold' \subseteq {x \in Callers : revival'[x] # None}
           /\ created' \in [Callers -> Sessions \cup {None}]
<1>t. LifecycleTypeOK /\ RevivalOK /\ None \notin Callers
  BY LifeTypes
<1>1. /\ \A x \in Callers : caller'[x] = IF caller[x] = "waiting" /\ joined[x] = c THEN o ELSE caller[x]
      /\ caller' \in [Callers -> {None, "waiting", "got", "failed"}]
  BY <1>t DEF Settles, WaitingFor, LifecycleTypeOK
<1>2. /\ revival'[c] = None /\ \A x \in Callers : x # c => revival'[x] = revival[x]
      /\ revival' \in [Callers -> {None, "factory", "opening", "registered", "attached"}]
  BY <1>t DEF Settles, LifecycleTypeOK
<1>3. target[c] \in Agents /\ inflight[target[c]] = c /\ caller[c] = "waiting" /\ joined[c] = c
  BY <1>t DEF RevivalOK
<1>4. /\ inflight'[target[c]] = None /\ \A a \in Agents : a # target[c] => inflight'[a] = inflight[a]
      /\ inflight' \in [Agents -> Callers \cup {None}]
  BY <1>t, <1>3 DEF Settles, LifecycleTypeOK
<1>5. /\ created'[c] = None /\ \A x \in Callers : x # c => created'[x] = created[x]
      /\ created' \in [Callers -> Sessions \cup {None}]
  BY <1>t DEF LifecycleTypeOK
<1>6. cold' \subseteq {x \in Callers : revival'[x] # None}
  BY <1>t, <1>2 DEF Settles, LifecycleTypeOK
<1>7. ASSUME NEW x \in Callers, caller'[x] = "waiting"
      PROVE  joined'[x] \in Callers /\ revival'[joined'[x]] # None
  <2>1. caller[x] = "waiting" /\ joined[x] # c
    BY <1>1, <1>7
  <2>2. joined[x] \in Callers /\ revival[joined[x]] # None
    BY <1>t, <2>1 DEF RevivalOK, LifecycleTypeOK
  <2> QED BY <1>2, <2>1, <2>2
<1>8. ASSUME NEW x \in Callers, revival'[x] # None
      PROVE  /\ target'[x] \in Agents /\ inflight'[target'[x]] = x
             /\ caller'[x] = "waiting" /\ joined'[x] = x
  <2>1. x # c /\ revival[x] # None
    BY <1>2, <1>8
  <2>2. target[x] \in Agents /\ inflight[target[x]] = x /\ caller[x] = "waiting" /\ joined[x] = x
    BY <1>t, <2>1 DEF RevivalOK
  <2>3. target[x] # target[c]
    BY <1>3, <2>1, <2>2
  <2> QED BY <1>1, <1>4, <2>1, <2>2, <2>3
<1>9. ASSUME NEW a \in Agents, inflight'[a] # None
      PROVE  revival'[inflight'[a]] # None /\ target'[inflight'[a]] = a
  <2>1. a # target[c] /\ inflight'[a] = inflight[a]
    BY <1>4, <1>9
  <2>2. inflight[a] \in Callers /\ revival[inflight[a]] # None /\ target[inflight[a]] = a
    BY <1>t, <1>9, <2>1 DEF RevivalOK, LifecycleTypeOK
  <2> QED BY <1>2, <2>1, <2>2
<1>10. \A x \in Callers : created'[x] # None <=> revival'[x] = "attached"
  BY <1>t, <1>2, <1>5 DEF RevivalOK, None
<1>11. RevivalOK'
  BY <1>7, <1>8, <1>9, <1>10 DEF RevivalOK
<1> QED BY <1>1, <1>2, <1>4, <1>5, <1>6, <1>7, <1>11

\* A revival goes on: its stage changes, and what it has created.
LEMMA StageRevival ==
    ASSUME LifeInv, NEW c \in Callers, revival[c] # None,
           NEW st \in {"opening", "registered", "attached"}, NEW s \in Sessions \cup {None},
           revival' = [revival EXCEPT ![c] = st], created' = [created EXCEPT ![c] = s],
           s # None <=> st = "attached",
           cold' \subseteq cold \cup {c}, UNCHANGED <<inflight, calls>>
    PROVE  /\ RevivalOK'
           /\ caller' \in [Callers -> {None, "waiting", "got", "failed"}]
           /\ \A x \in Callers : caller'[x] = "waiting" => revival'[joined'[x]] # None
           /\ inflight' \in [Agents -> Callers \cup {None}]
           /\ revival' \in [Callers -> {None, "factory", "opening", "registered", "attached"}]
           /\ cold' \subseteq {x \in Callers : revival'[x] # None}
           /\ created' \in [Callers -> Sessions \cup {None}]
<1>t. LifecycleTypeOK /\ RevivalOK /\ None \notin Callers
  BY LifeTypes
<1>1. /\ \A x \in Callers : revival'[x] = IF x = c THEN st ELSE revival[x]
      /\ \A x \in Callers : created'[x] = IF x = c THEN s ELSE created[x]
      /\ revival' \in [Callers -> {None, "factory", "opening", "registered", "attached"}]
      /\ created' \in [Callers -> Sessions \cup {None}]
  BY <1>t DEF LifecycleTypeOK
<1>2. st # None
  BY DEF None
<1>3. \A x \in Callers : revival'[x] # None <=> revival[x] # None
  BY <1>1, <1>2
<1>4. \A x \in Callers : caller'[x] = "waiting" => joined'[x] \in Callers /\ revival'[joined'[x]] # None
  BY <1>t, <1>3 DEF RevivalOK, LifecycleTypeOK, calls
<1>5. cold' \subseteq {x \in Callers : revival'[x] # None}
  BY <1>t, <1>3 DEF LifecycleTypeOK
<1>6. \A a \in Agents : inflight'[a] # None => revival'[inflight'[a]] # None /\ target'[inflight'[a]] = a
  BY <1>t, <1>3 DEF RevivalOK, LifecycleTypeOK, calls
<1>7. \A x \in Callers : created'[x] # None <=> revival'[x] = "attached"
  BY <1>t, <1>1 DEF RevivalOK
<1>8. \A x \in Callers : revival'[x] # None =>
          /\ target'[x] \in Agents /\ inflight'[target'[x]] = x
          /\ caller'[x] = "waiting" /\ joined'[x] = x
  BY <1>t, <1>3 DEF RevivalOK, calls
<1>9. RevivalOK'
  BY <1>4, <1>6, <1>7, <1>8 DEF RevivalOK
<1> QED BY <1>t, <1>1, <1>4, <1>5, <1>9 DEF LifecycleTypeOK, calls

\* A call of ensureLive changes no revival but its own.
LEMMA EnsureRevival ==
    ASSUME LifeInv, NEW c \in Callers, NEW a \in Agents, EnsureLive(c, a)
    PROVE  /\ RevivalOK'
           /\ caller' \in [Callers -> {None, "waiting", "got", "failed"}]
           /\ joined' \in [Callers -> Callers \cup {None}] /\ target' \in [Callers -> Agents \cup {None}]
           /\ \A x \in Callers : caller'[x] = "waiting" => revival'[joined'[x]] # None
           /\ inflight' \in [Agents -> Callers \cup {None}]
           /\ revival' \in [Callers -> {None, "factory", "opening", "registered", "attached"}]
           /\ cold' \subseteq {x \in Callers : revival'[x] # None}
           /\ revival[c] = None
           /\ \/ UNCHANGED <<inflight, revival>>
              \/ /\ attached[a] = None /\ status[a] # None /\ inflight[a] = None
                 /\ inflight' = [inflight EXCEPT ![a] = c]
                 /\ revival'[c] \in {"opening", "factory"}
                 /\ \A x \in Callers : x # c => revival'[x] = revival[x]
<1>t. LifecycleTypeOK /\ RevivalOK /\ None \notin Callers /\ None \notin Agents
  BY LifeTypes
<1>0. /\ caller[c] = None /\ target' = [target EXCEPT ![c] = a] /\ UNCHANGED <<created, cold>>
      /\ \/ Returns(c, "got") \/ Returns(c, "failed")
         \/ inflight[a] # None /\ Joins(c, a)
         \/ attached[a] = None /\ status[a] = "parked" /\ inflight[a] = None /\ Starts(c, a)
  BY DEF EnsureLive
<1>1. revival[c] = None /\ created[c] = None /\ \A x \in Callers : caller[x] = "waiting" => joined[x] # c
  <2>1. revival[c] = None
    BY <1>t, <1>0 DEF RevivalOK, None
  <2>2. ASSUME NEW x \in Callers, caller[x] = "waiting"
        PROVE  joined[x] # c
    BY <1>t, <2>1, <2>2 DEF LifecycleTypeOK
  <2> QED BY <1>t, <2>1, <2>2 DEF RevivalOK, None
<1>2. /\ target' \in [Callers -> Agents \cup {None}] /\ target'[c] = a
      /\ \A x \in Callers : x # c => target'[x] = target[x]
  BY <1>t, <1>0 DEF LifecycleTypeOK
<1>3. \A b \in Agents : inflight[b] # c
  BY <1>t, <1>1 DEF RevivalOK
<1>4. CASE Returns(c, "got") \/ Returns(c, "failed")
  <2>1. /\ UNCHANGED <<revival, inflight, joined>> /\ caller'[c] # "waiting"
        /\ caller' \in [Callers -> {None, "waiting", "got", "failed"}]
        /\ \A x \in Callers : x # c => caller'[x] = caller[x]
    BY <1>t, <1>4 DEF Returns, LifecycleTypeOK
  <2>2. RevivalOK'
    BY <1>t, <1>0, <1>1, <1>2, <1>3, <2>1 DEF RevivalOK, LifecycleTypeOK
  <2> QED BY <1>t, <1>0, <1>1, <1>2, <2>1, <2>2 DEF LifecycleTypeOK
<1>5. CASE inflight[a] # None /\ Joins(c, a)
  <2>1. /\ UNCHANGED <<revival, inflight>> /\ inflight[a] \in Callers
        /\ caller' \in [Callers -> {None, "waiting", "got", "failed"}]
        /\ joined' \in [Callers -> Callers \cup {None}] /\ joined'[c] = inflight[a]
        /\ \A x \in Callers : x # c => caller'[x] = caller[x] /\ joined'[x] = joined[x]
    BY <1>t, <1>5 DEF Joins, LifecycleTypeOK
  <2>2. revival[inflight[a]] # None
    BY <1>t, <1>5 DEF RevivalOK
  <2>3. \A x \in Callers : caller'[x] = "waiting" => joined'[x] \in Callers /\ revival'[joined'[x]] # None
    BY <1>t, <2>1, <2>2 DEF RevivalOK, LifecycleTypeOK
  <2>4. RevivalOK'
    BY <1>t, <1>0, <1>1, <1>2, <1>3, <2>1, <2>3 DEF RevivalOK, LifecycleTypeOK
  <2> QED BY <1>t, <1>0, <1>1, <1>2, <2>1, <2>3, <2>4 DEF LifecycleTypeOK
<1>6. CASE attached[a] = None /\ status[a] = "parked" /\ inflight[a] = None /\ Starts(c, a)
  <2>1. /\ inflight' = [inflight EXCEPT ![a] = c] /\ status[a] # None
        /\ revival' \in [Callers -> {None, "factory", "opening", "registered", "attached"}]
        /\ revival'[c] \in {"opening", "factory"}
        /\ caller' \in [Callers -> {None, "waiting", "got", "failed"}]
        /\ joined' \in [Callers -> Callers \cup {None}] /\ joined'[c] = c /\ caller'[c] = "waiting"
        /\ \A x \in Callers : x # c =>
              caller'[x] = caller[x] /\ joined'[x] = joined[x] /\ revival'[x] = revival[x]
    BY <1>t, <1>6 DEF Starts, LifecycleTypeOK, None
  <2>2. /\ inflight' \in [Agents -> Callers \cup {None}] /\ inflight'[a] = c
        /\ \A b \in Agents : b # a => inflight'[b] = inflight[b]
    BY <1>t, <2>1 DEF LifecycleTypeOK
  <2>3. revival'[c] # None /\ revival'[c] # "attached"
    BY <2>1 DEF None
  <2>4. \A x \in Callers : caller'[x] = "waiting" => joined'[x] \in Callers /\ revival'[joined'[x]] # None
    BY <1>t, <2>1, <2>3 DEF RevivalOK, LifecycleTypeOK
  <2>5. ASSUME NEW x \in Callers, revival'[x] # None
        PROVE  /\ target'[x] \in Agents /\ inflight'[target'[x]] = x
               /\ caller'[x] = "waiting" /\ joined'[x] = x
    <3>1. CASE x = c
      BY <1>2, <2>1, <2>2, <3>1
    <3>2. CASE x # c
      <4>1. target[x] \in Agents /\ inflight[target[x]] = x /\ caller[x] = "waiting" /\ joined[x] = x
        BY <1>t, <2>1, <2>5, <3>2 DEF RevivalOK
      <4>2. target[x] # a
        BY <1>t, <1>6, <4>1
      <4> QED BY <1>2, <2>1, <2>2, <3>2, <4>1, <4>2
    <3> QED BY <3>1, <3>2
  <2>6. \A b \in Agents : inflight'[b] # None => revival'[inflight'[b]] # None /\ target'[inflight'[b]] = b
    BY <1>t, <1>2, <1>3, <2>1, <2>2, <2>3 DEF RevivalOK, LifecycleTypeOK
  <2>7. \A x \in Callers : created'[x] # None <=> revival'[x] = "attached"
    BY <1>t, <1>0, <1>1, <2>1, <2>3 DEF RevivalOK
  <2>8. RevivalOK'
    BY <2>4, <2>5, <2>6, <2>7 DEF RevivalOK
  <2>9. cold' \subseteq {x \in Callers : revival'[x] # None}
    BY <1>t, <1>0, <2>1, <2>3 DEF LifecycleTypeOK
  <2> QED BY <1>1, <1>2, <1>6, <2>1, <2>2, <2>4, <2>8, <2>9
<1> QED BY <1>0, <1>4, <1>5, <1>6

-----------------------------------------------------------------------------
(* Frames.                                                                 *)

\* What a step leaves alone of agent a when it is about something else.
Same(c) == target'[c] = target[c] /\ revival'[c] = revival[c] /\ created'[c] = created[c]
NotOf(c, a) == ~(target[c] = a /\ revival[c] # None)
Early(c, a) ==
    /\ attached[a] = None /\ revival[c] \notin {"registered", "attached"}
    /\ revival'[c] # "attached"

LEMMA AgentFrame ==
    ASSUME LifeInv, NEW a \in Agents \ killed,
           attached'[a] = attached[a], status'[a] = status[a],
           inflight'[a] \in {None, inflight[a]} \/ status[a] # None,
           parking'[a] \in {None, parking[a], attached[a]},
           a \in timer' => a \in timer, unheard \subseteq unheard',
           \A s \in Sessions : owner'[s] = a /\ state'[s] \in {"live", "disposing"} =>
              /\ owner[s] = a /\ state[s] \in {"live", "disposing"}
              /\ turn'[s] = "running" => turn[s] = "running",
           \A c \in Callers : Same(c) \/ (NotOf(c, a) /\ NotOf(c, a)') \/ Early(c, a)
    PROVE  AgentOK(a)'
<1>t. AgentOK(a)
  BY DEF LifeInv
<1>1. \A s \in Open(a)' : s \in Open(a) /\ s \in Sessions /\ (turn'[s] = "running" => turn[s] = "running")
  BY DEF Open
<1>2. \A s \in Open(a)' : attached'[a] = s
  BY <1>t, <1>1 DEF AgentOK
<1>3. /\ status'[a] = None => attached'[a] = None /\ inflight'[a] = None
      /\ parking'[a] # None => attached'[a] = parking'[a]
  BY <1>t DEF AgentOK
<1>4. ASSUME NEW c \in Callers, target'[c] = a
      PROVE  /\ revival'[c] \in {"factory", "opening", "registered"} => attached'[a] = None
             /\ revival'[c] = "attached" =>
                   attached'[a] = created'[c] \/ (attached'[a] = None /\ status'[a] # "running")
  <2>1. CASE Same(c)
    BY <1>t, <1>4, <2>1 DEF AgentOK, Same
  <2>2. CASE NotOf(c, a)'
    BY <1>4, <2>2 DEF NotOf, None
  <2>3. CASE Early(c, a)
    BY <2>3 DEF Early
  <2> QED BY <2>1, <2>2, <2>3
<1>5. \A s \in Open(a)' : turn'[s] = "running" => a \notin timer'
  BY <1>t, <1>1 DEF AgentOK
<1>6. ASSUME status'[a] = "running", a \in timer'
      PROVE  \/ attached'[a] \in unheard'
             \/ \E c \in Callers : target'[c] = a /\ revival'[c] \in {"registered", "attached"}
  <2> SUFFICES ASSUME attached[a] \notin unheard
               PROVE  \E c \in Callers : target'[c] = a /\ revival'[c] \in {"registered", "attached"}
    OBVIOUS
  <2>1. PICK c \in Callers : target[c] = a /\ revival[c] \in {"registered", "attached"}
    BY <1>t, <1>6 DEF AgentOK
  <2>2. Same(c)
    BY <2>1 DEF NotOf, Early, None
  <2> QED BY <2>1, <2>2 DEF Same
<1> QED BY <1>2, <1>3, <1>4, <1>5, <1>6 DEF AgentOK

LEMMA OwnFrame ==
    ASSUME LifeInv, LifecycleTypeOK', UNCHANGED owner, killed \subseteq killed',
           \A s \in Sessions : state[s] = "free" <=> state'[s] = "free",
           \A a \in Agents :
              /\ attached'[a] # None => Of(attached'[a], a)
              /\ parking'[a] \in {None, parking[a], attached[a]}
              /\ killing'[a] # None => Of(killing'[a], a) /\ a \in killed',
           \A c \in Callers : created'[c] # None =>
              created'[c] = created[c] /\ target'[c] = target[c] /\ turn'[created[c]] # "running",
           \A s \in Sessions : turn'[s] # None => state'[s] \in {"live", "disposing"}
    PROVE  OwnOK'
<1>t. LifecycleTypeOK /\ OwnOK
  BY DEF LifeInv
<1>1. \A s \in Sessions, a \in Agents : Of(s, a) => Of(s, a)'
  BY DEF Of
<1>2. \A s \in Sessions : state'[s] # "free" => owner'[s] \in Agents
  BY <1>t DEF OwnOK
<1>3. ASSUME NEW a \in Agents
      PROVE  /\ attached'[a] # None => Of(attached[a], a)'
             /\ parking'[a] # None => Of(parking[a], a)'
             /\ killing'[a] # None => Of(killing[a], a)' /\ a \in killed'
  <2>1. /\ attached'[a] \in Sessions \cup {None} /\ parking'[a] \in Sessions \cup {None}
        /\ killing'[a] \in Sessions \cup {None}
    BY <1>3 DEF LifecycleTypeOK
  <2>2. parking'[a] # None => Of(parking'[a], a)
    BY <1>t, <1>3 DEF OwnOK
  <2>3. /\ attached'[a] # None => Of(attached'[a], a)
        /\ killing'[a] # None => Of(killing'[a], a) /\ a \in killed'
    BY <1>3
  <2> QED BY <1>t, <2>1, <2>2, <2>3 DEF Of
<1>4. ASSUME NEW c \in Callers, created'[c] # None
      PROVE  Of(created[c], target[c])' /\ turn'[created'[c]] # "running"
  <2>1. created'[c] = created[c] /\ target'[c] = target[c] /\ created[c] \in Sessions
    BY <1>t, <1>4 DEF LifecycleTypeOK
  <2>2. Of(created[c], target[c])
    BY <1>t, <1>4, <2>1 DEF OwnOK
  <2>3. Of(created[c], target[c])'
    BY <2>1, <2>2 DEF Of
  <2> QED BY <1>4, <2>1, <2>3
<1> QED BY <1>2, <1>3, <1>4 DEF OwnOK

-----------------------------------------------------------------------------
(* The steps of the lifecycle.                                             *)

\* What the listener's timer may be after setStatus.
LEMMA SetStatusTimer ==
    ASSUME LifecycleTypeOK, NEW a \in Agents, NEW st \in {"running", "idle", "parked"},
           SetStatus(a, st)
    PROVE  /\ status' \in [Agents -> {None, "running", "idle", "parked"}]
           /\ timer' \subseteq adopted
           /\ \A b \in Agents : b # a => status'[b] = status[b] /\ (b \in timer' <=> b \in timer)
           /\ status[a] = None => status'[a] = None /\ timer' = timer
           /\ status[a] # None => status'[a] = st
           /\ a \in timer' =>
                 \/ st = "idle"
                 \/ a \in timer /\ (st = "running" => status[a] \in {None, "running"})
<1>1. /\ status' \in [Agents -> {None, "running", "idle", "parked"}]
      /\ \A b \in Agents : b # a => status'[b] = status[b]
      /\ status[a] = None => status'[a] = None
      /\ status[a] # None => status'[a] = st
  BY DEF SetStatus, LifecycleTypeOK
<1>2. timer' = TimerAfter(a, st, adopted) /\ timer \subseteq adopted
  BY DEF SetStatus, LifecycleTypeOK
<1> DEFINE changes == a \in adopted /\ status[a] \notin {None, st}
<1>3. CASE changes /\ st = "running"
  <2>1. timer' = timer \ {a}
    BY <1>2, <1>3 DEF TimerAfter
  <2> QED BY <1>1, <1>2, <1>3, <2>1
<1>4. CASE changes /\ st = "idle"
  <2>1. timer' = timer \cup {a}
    BY <1>2, <1>4 DEF TimerAfter
  <2> QED BY <1>1, <1>2, <1>4, <2>1
<1>5. CASE ~(changes /\ st = "running") /\ ~(changes /\ st = "idle")
  <2>1. timer' = timer
    BY <1>2, <1>5 DEF TimerAfter
  <2> QED BY <1>1, <1>2, <1>5, <2>1
<1> QED BY <1>3, <1>4, <1>5

LEMMA EnsureLiveOK ==
    ASSUME LifeInv, NEW c \in Callers, NEW a \in Agents, EnsureLive(c, a)
    PROVE  LifeInv'
<1>t. LifecycleTypeOK /\ RevivalOK /\ OwnOK
  BY LifeTypes
<1>0. UNCHANGED <<refs, adopted, timer, parking, killing, cold, created, sessions, history>>
  BY DEF EnsureLive
<1> USE <1>0 DEF refs, sessions, history
<1>1. /\ RevivalOK'
      /\ caller' \in [Callers -> {None, "waiting", "got", "failed"}]
      /\ joined' \in [Callers -> Callers \cup {None}] /\ target' \in [Callers -> Agents \cup {None}]
      /\ \A x \in Callers : caller'[x] = "waiting" => revival'[joined'[x]] # None
      /\ inflight' \in [Agents -> Callers \cup {None}]
      /\ revival' \in [Callers -> {None, "factory", "opening", "registered", "attached"}]
      /\ cold' \subseteq {x \in Callers : revival'[x] # None}
  BY EnsureRevival
<1>2. /\ revival[c] = None /\ target' = [target EXCEPT ![c] = a]
      /\ \/ UNCHANGED <<inflight, revival>>
         \/ /\ attached[a] = None /\ status[a] # None /\ inflight[a] = None
            /\ inflight' = [inflight EXCEPT ![a] = c]
            /\ revival'[c] \in {"opening", "factory"}
            /\ \A x \in Callers : x # c => revival'[x] = revival[x]
  BY EnsureRevival DEF EnsureLive
<1>3. LifecycleTypeOK'
  BY <1>t, <1>1 DEF LifecycleTypeOK
<1>4. created[c] = None /\ \A x \in Callers : x # c => target'[x] = target[x]
  BY <1>t, <1>2 DEF RevivalOK, LifecycleTypeOK, None
<1>5. OwnOK'
  BY <1>t, <1>4 DEF OwnOK, Of
<1>6. ASSUME NEW b \in Agents \ killed
      PROVE  AgentOK(b)'
  <2>1. inflight'[b] \in {None, inflight[b]} \/ status[b] # None
    BY <1>t, <1>2 DEF LifecycleTypeOK
  <2>2. ASSUME NEW x \in Callers
        PROVE  Same(x) \/ (NotOf(x, b) /\ NotOf(x, b)') \/ Early(x, b)
    <3>1. CASE x # c
      BY <1>2, <1>4, <3>1 DEF Same
    <3>2. CASE x = c /\ UNCHANGED revival
      BY <1>2, <3>2 DEF NotOf
    <3>3. CASE x = c /\ b = a /\ attached[a] = None /\ revival'[c] \in {"opening", "factory"}
      BY <1>2, <3>3 DEF Early, None
    <3>4. CASE x = c /\ b # a
      BY <1>t, <1>2, <3>4 DEF NotOf, LifecycleTypeOK
    <3> QED BY <1>2, <3>1, <3>2, <3>3, <3>4
  <2>3. \A s \in Sessions : owner'[s] = b /\ state'[s] \in {"live", "disposing"} =>
              /\ owner[s] = b /\ state[s] \in {"live", "disposing"}
              /\ turn'[s] = "running" => turn[s] = "running"
    OBVIOUS
  <2> QED BY <2>1, <2>2, <2>3, AgentFrame
<1> QED BY <1>1, <1>3, <1>5, <1>6 DEF LifeInv

\* The steps of a revival that do not touch the registry.
LEMMA FactoryReturnsOK ==
    ASSUME LifeInv, NEW c \in Callers, FactoryReturns(c)
    PROVE  LifeInv'
<1>t. LifecycleTypeOK /\ RevivalOK /\ OwnOK /\ None \notin Callers
  BY LifeTypes
<1>0. /\ revival[c] = "factory" /\ adopted' = adopted \cup {target[c]} /\ cold' = cold \cup {c}
      /\ revival' = [revival EXCEPT ![c] = "opening"]
      /\ UNCHANGED <<status, attached, timer, parking, killing, inflight, created, state, owner, turn,
                     caller, target, joined, unheard, killed, turns, kills>>
  BY DEF FactoryReturns, refs, sessions, calls, history
<1>1. created[c] = None /\ revival[c] # None
  BY <1>t, <1>0 DEF RevivalOK, None
<1>2. created' = [created EXCEPT ![c] = None]
  BY <1>t, <1>0, <1>1 DEF LifecycleTypeOK
<1>3. /\ RevivalOK' /\ caller' \in [Callers -> {None, "waiting", "got", "failed"}]
      /\ \A x \in Callers : caller'[x] = "waiting" => revival'[joined'[x]] # None
      /\ revival' \in [Callers -> {None, "factory", "opening", "registered", "attached"}]
      /\ cold' \subseteq {x \in Callers : revival'[x] # None}
  BY <1>0, <1>1, <1>2, StageRevival, "attached" # "opening" DEF calls
<1>4. target[c] \in Agents
  BY <1>t, <1>1 DEF RevivalOK
<1>5. LifecycleTypeOK'
  BY <1>t, <1>0, <1>3, <1>4 DEF LifecycleTypeOK
<1>6. OwnOK'
  BY <1>t, <1>0 DEF OwnOK, Of
<1>7. ASSUME NEW b \in Agents \ killed
      PROVE  AgentOK(b)'
  <2>1. ASSUME NEW x \in Callers
        PROVE  Same(x) \/ (NotOf(x, b) /\ NotOf(x, b)') \/ Early(x, b)
    <3>1. CASE x # c
      BY <1>t, <1>0, <3>1 DEF Same, LifecycleTypeOK
    <3>2. CASE x = c /\ target[c] # b
      BY <1>0, <3>2 DEF NotOf
    <3>3. CASE x = c /\ target[c] = b
      <4>1. attached[b] = None
        BY <1>0, <3>3, LifeTypes DEF AgentOK
      <4> QED BY <1>t, <1>0, <3>3, <4>1 DEF Early, LifecycleTypeOK
    <3> QED BY <3>1, <3>2, <3>3
  <2> QED BY <1>0, <2>1, AgentFrame
<1> QED BY <1>0, <1>3, <1>5, <1>6, <1>7 DEF LifeInv

LEMMA EarlyEndOK ==
    ASSUME LifeInv, NEW c \in Callers, revival[c] \in {"factory", "opening"}, Settles(c, "failed"),
           adopted' \subseteq adopted, timer' \subseteq timer, timer' \subseteq adopted',
           UNCHANGED <<refs, parking, killing, created, sessions, target, joined, history>>
    PROVE  LifeInv'
<1>t. LifecycleTypeOK /\ RevivalOK /\ OwnOK /\ None \notin Callers
  BY LifeTypes
<1>0. UNCHANGED <<status, attached, parking, killing, created, state, owner, turn,
                  joined, target, unheard, killed, turns, kills>>
  BY DEF refs, sessions, history
<1>1. created[c] = None /\ revival[c] # None /\ target[c] \in Agents
  BY <1>t DEF RevivalOK, None
<1>2. created' = [created EXCEPT ![c] = None]
  BY <1>t, <1>0, <1>1 DEF LifecycleTypeOK
<1>3. /\ RevivalOK' /\ caller' \in [Callers -> {None, "waiting", "got", "failed"}]
      /\ \A x \in Callers : caller'[x] = "waiting" => revival'[joined'[x]] # None
      /\ inflight' \in [Agents -> Callers \cup {None}]
      /\ revival' \in [Callers -> {None, "factory", "opening", "registered", "attached"}]
      /\ cold' \subseteq {x \in Callers : revival'[x] # None}
  BY <1>0, <1>1, <1>2, SettlesRevival
<1>4. /\ revival' = [revival EXCEPT ![c] = None]
      /\ inflight' = [inflight EXCEPT ![target[c]] = None]
  BY DEF Settles
<1>5. LifecycleTypeOK'
  BY <1>t, <1>0, <1>3 DEF LifecycleTypeOK
<1>6. OwnOK'
  BY <1>t, <1>0 DEF OwnOK, Of
<1>7. ASSUME NEW b \in Agents \ killed
      PROVE  AgentOK(b)'
  <2>1. ASSUME NEW x \in Callers
        PROVE  Same(x) \/ (NotOf(x, b) /\ NotOf(x, b)') \/ Early(x, b)
    <3>1. CASE x # c
      BY <1>t, <1>0, <1>4, <3>1 DEF Same, LifecycleTypeOK
    <3>2. CASE x = c /\ target[c] # b
      BY <1>0, <3>2 DEF NotOf
    <3>3. CASE x = c /\ target[c] = b
      <4>1. attached[b] = None
        BY <3>3, LifeTypes DEF AgentOK
      <4> QED BY <1>t, <1>4, <3>3, <4>1 DEF Early, LifecycleTypeOK, None
    <3> QED BY <3>1, <3>2, <3>3
  <2>2. inflight'[b] \in {None, inflight[b]}
    BY <1>t, <1>1, <1>4 DEF LifecycleTypeOK
  <2> QED BY <1>0, <2>1, <2>2, AgentFrame
<1> QED BY <1>0, <1>3, <1>5, <1>6, <1>7 DEF LifeInv

LEMMA FactoryDeclinesOK ==
    ASSUME LifeInv, NEW c \in Callers, FactoryDeclines(c)
    PROVE  LifeInv'
BY EarlyEndOK, LifeTypes DEF FactoryDeclines, LifecycleTypeOK

LEMMA OpenFailsOK ==
    ASSUME LifeInv, NEW c \in Callers, OpenFails(c)
    PROVE  LifeInv'
<1>1. /\ revival[c] = "opening" /\ Settles(c, "failed")
      /\ adopted' = adopted \ ColdOf(c) /\ timer' = timer \ ColdOf(c)
      /\ UNCHANGED <<refs, parking, killing, created, sessions, target, joined, history>>
  BY DEF OpenFails
<1>2. timer \subseteq adopted
  BY LifeTypes DEF LifecycleTypeOK
<1>3. adopted' \subseteq adopted /\ timer' \subseteq timer /\ timer' \subseteq adopted'
  BY <1>1, <1>2
<1> QED BY <1>1, <1>3, EarlyEndOK

\* There is one revival of an agent at a time.
LEMMA OneRevival ==
    ASSUME LifeInv, NEW c \in Callers, NEW x \in Callers, revival[c] # None, revival[x] # None,
           target[x] = target[c]
    PROVE  x = c
BY LifeTypes DEF RevivalOK

LEMMA RegistersOK ==
    ASSUME LifeInv, NEW c \in Callers, Registers(c)
    PROVE  LifeInv'
<1>t. LifecycleTypeOK /\ RevivalOK /\ OwnOK /\ None \notin Callers
  BY LifeTypes
<1> DEFINE a == target[c]
<1>0. /\ revival[c] = "opening"
      /\ status' = [status EXCEPT ![a] = "running"] /\ attached' = [attached EXCEPT ![a] = None]
      /\ revival' = [revival EXCEPT ![c] = "registered"]
      /\ UNCHANGED <<adopted, timer, parking, killing, inflight, cold, created, state, owner, turn,
                     caller, target, joined, unheard, killed, turns, kills>>
  BY DEF Registers, Register, sessions, calls, history
<1>1. created[c] = None /\ revival[c] # None /\ a \in Agents /\ inflight[a] = c
  BY <1>t, <1>0 DEF RevivalOK, None
<1>2. created' = [created EXCEPT ![c] = None]
  BY <1>t, <1>0, <1>1 DEF LifecycleTypeOK
<1>3. /\ RevivalOK' /\ caller' \in [Callers -> {None, "waiting", "got", "failed"}]
      /\ \A x \in Callers : caller'[x] = "waiting" => revival'[joined'[x]] # None
      /\ revival' \in [Callers -> {None, "factory", "opening", "registered", "attached"}]
      /\ cold' \subseteq {x \in Callers : revival'[x] # None}
  BY <1>0, <1>1, <1>2, StageRevival, "attached" # "registered" DEF calls
<1>4. /\ status'[a] = "running" /\ attached'[a] = None
      /\ \A b \in Agents : b # a => status'[b] = status[b] /\ attached'[b] = attached[b]
      /\ status' \in [Agents -> {None, "running", "idle", "parked"}]
      /\ attached' \in [Agents -> Sessions \cup {None}]
      /\ revival'[c] = "registered" /\ \A x \in Callers : x # c => revival'[x] = revival[x]
  BY <1>t, <1>0, <1>1 DEF LifecycleTypeOK
<1>5. LifecycleTypeOK'
  BY <1>t, <1>0, <1>3, <1>4 DEF LifecycleTypeOK
<1> HIDE DEF a
<1>6. OwnOK'
  BY <1>t, <1>0, <1>4 DEF OwnOK, Of
<1>7. ASSUME NEW b \in Agents \ killed
      PROVE  AgentOK(b)'
  <2>t. AgentOK(b)
    BY LifeTypes
  <2>1. CASE b # a
    <3>1. ASSUME NEW x \in Callers
          PROVE  Same(x) \/ (NotOf(x, b) /\ NotOf(x, b)')
      BY <1>0, <1>4, <2>1 DEF Same, NotOf, a
    <3>2. attached'[b] = attached[b] /\ status'[b] = status[b]
      BY <1>4, <2>1
    <3> QED BY <1>0, <3>1, <3>2, AgentFrame
  <2>2. CASE b = a
    <3>1. attached[b] = None /\ parking[b] = None /\ Open(b) = {}
      <4>1. attached[b] = None
        BY <1>0, <2>t, <2>2 DEF AgentOK, a
      <4>2. \A s \in Open(b) : s \in Sessions /\ s = None
        BY <2>t, <4>1 DEF AgentOK, Open
      <4> QED BY <2>t, <4>1, <4>2, LifeTypes DEF AgentOK
    <3>2. Open(b)' = Open(b)
      BY <1>0 DEF Open
    <3>3. \A x \in Callers : target'[x] = b => revival'[x] # "attached"
      <4> SUFFICES ASSUME NEW x \in Callers, target'[x] = b, revival'[x] = "attached"
                   PROVE  FALSE
        OBVIOUS
      <4>1. x # c /\ revival[x] # None /\ target[x] = target[c]
        BY <1>0, <1>4, <2>2 DEF a, None
      <4> QED BY <1>1, <4>1, OneRevival
    <3>4. target'[c] = b /\ revival'[c] = "registered"
      BY <1>0, <1>4, <2>2 DEF a
    <3>5. attached'[b] = None /\ status'[b] # None /\ parking'[b] = None
      BY <1>0, <1>4, <2>2, <3>1 DEF None
    <3> QED BY <3>1, <3>2, <3>3, <3>4, <3>5 DEF AgentOK
  <2> QED BY <2>1, <2>2
<1> QED BY <1>0, <1>3, <1>5, <1>6, <1>7 DEF LifeInv

\* What the proofs of a step of c's revival know of an agent it does not concern.
LEMMA OtherAgent ==
    ASSUME LifeInv, NEW c \in Callers, NEW b \in Agents \ killed, target[c] # b,
           status'[b] = status[b], attached'[b] = attached[b],
           b \in timer' => b \in timer, unheard \subseteq unheard',
           UNCHANGED <<parking, target>>,
           inflight'[b] = inflight[b],
           \A s \in Sessions : owner'[s] = b /\ state'[s] \in {"live", "disposing"} =>
              owner[s] = b /\ state[s] \in {"live", "disposing"} /\ turn'[s] = turn[s],
           \A x \in Callers : x # c => revival'[x] = revival[x] /\ created'[x] = created[x]
    PROVE  AgentOK(b)'
<1>1. ASSUME NEW x \in Callers
      PROVE  Same(x) \/ (NotOf(x, b) /\ NotOf(x, b)')
  BY DEF Same, NotOf
<1> QED BY <1>1, AgentFrame

LEMMA CreateFailsOK ==
    ASSUME LifeInv, NEW c \in Callers, CreateFails(c)
    PROVE  LifeInv'
<1>t. LifecycleTypeOK /\ RevivalOK /\ OwnOK /\ None \notin Callers
  BY LifeTypes
<1> DEFINE a == target[c]
           gone == UnlessParked(a)
           forgotten == Known(gone) \cup ColdOf(c)
<1>0. /\ revival[c] = "registered" /\ Settles(c, "failed") /\ Unregister(gone)
      /\ adopted' = adopted \ forgotten /\ timer' = timer \ forgotten
      /\ UNCHANGED <<parking, killing, created, state, owner, turn,
                     joined, target, unheard, killed, turns, kills>>
  BY DEF CreateFails, sessions, history
<1>1. created[c] = None /\ revival[c] # None /\ a \in Agents
  BY <1>t, <1>0 DEF RevivalOK, None
<1>2. created' = [created EXCEPT ![c] = None]
  BY <1>t, <1>0, <1>1 DEF LifecycleTypeOK
<1>3. /\ RevivalOK' /\ caller' \in [Callers -> {None, "waiting", "got", "failed"}]
      /\ \A x \in Callers : caller'[x] = "waiting" => revival'[joined'[x]] # None
      /\ inflight' \in [Agents -> Callers \cup {None}]
      /\ revival' \in [Callers -> {None, "factory", "opening", "registered", "attached"}]
      /\ cold' \subseteq {x \in Callers : revival'[x] # None}
  BY <1>0, <1>1, <1>2, SettlesRevival
<1>4. /\ revival' = [revival EXCEPT ![c] = None]
      /\ inflight' = [inflight EXCEPT ![a] = None]
  BY <1>0 DEF Settles
<1>5. gone \subseteq {a}
  BY DEF UnlessParked
<1>6. /\ \A b \in Agents : b # a => status'[b] = status[b] /\ attached'[b] = attached[b]
      /\ status' \in [Agents -> {None, "running", "idle", "parked"}]
      /\ attached' \in [Agents -> Sessions \cup {None}]
      /\ \A b \in Agents : attached'[b] \in {None, attached[b]}
      /\ a \in gone => status'[a] = None /\ attached'[a] = None
      /\ a \notin gone => status'[a] = status[a] /\ attached'[a] = attached[a]
  BY <1>t, <1>0, <1>1, <1>5 DEF Unregister, LifecycleTypeOK
<1>7. adopted' \subseteq adopted /\ timer' \subseteq timer /\ timer' \subseteq adopted'
  BY <1>t, <1>0 DEF LifecycleTypeOK
<1>8. LifecycleTypeOK'
  <2>1. UNCHANGED <<parking, killing, created, state, owner, turn, joined, target, unheard, killed, turns, kills>>
    BY <1>0
  <2> HIDE DEF a, gone, forgotten
  <2> QED BY <1>t, <1>3, <1>6, <1>7, <2>1 DEF LifecycleTypeOK
<1>9. OwnOK'
  BY <1>t, <1>0, <1>6 DEF OwnOK, Of
<1>10. ASSUME NEW b \in Agents \ killed
       PROVE  AgentOK(b)'
  <2>t. AgentOK(b)
    BY LifeTypes
  <2>1. CASE b # a
    <3>1. inflight'[b] = inflight[b]
      BY <1>t, <1>4, <2>1 DEF LifecycleTypeOK
    <3>2. \A x \in Callers : x # c => revival'[x] = revival[x] /\ created'[x] = created[x]
      BY <1>t, <1>0, <1>4 DEF LifecycleTypeOK
    <3>3. status'[b] = status[b] /\ attached'[b] = attached[b]
      BY <1>6, <2>1
    <3>4. \A s \in Sessions : owner'[s] = b /\ state'[s] \in {"live", "disposing"} =>
              owner[s] = b /\ state[s] \in {"live", "disposing"} /\ turn'[s] = turn[s]
      BY <1>0
    <3> HIDE DEF gone, forgotten
    <3> QED BY <1>0, <1>7, <2>1, <3>1, <3>2, <3>3, <3>4, OtherAgent
  <2>2. CASE b = a
    <3>1. attached[b] = None /\ parking[b] = None /\ Open(b) = {}
      <4>1. attached[b] = None
        BY <1>0, <2>t, <2>2 DEF AgentOK
      <4>2. \A s \in Open(b) : s \in Sessions /\ s = None
        BY <2>t, <4>1 DEF AgentOK, Open
      <4> QED BY <2>t, <4>1, <4>2, LifeTypes DEF AgentOK
    <3>2. Open(b)' = Open(b)
      BY <1>0 DEF Open
    <3>3. \A x \in Callers : target'[x] = b => revival'[x] # "attached"
      <4> SUFFICES ASSUME NEW x \in Callers, target'[x] = b, revival'[x] = "attached"
                   PROVE  FALSE
        OBVIOUS
      <4>1. x # c /\ revival[x] # None /\ target[x] = target[c]
        BY <1>t, <1>0, <1>4, <2>2 DEF LifecycleTypeOK, None
      <4> QED BY <1>1, <4>1, OneRevival
    <3>4. status'[b] \in {None, "parked"} /\ inflight'[b] = None
      <4>1. status[a] # "parked" => a \in gone
        BY <2>2, <3>1 DEF UnlessParked
      <4>2. inflight'[a] = None
        BY <1>t, <1>1, <1>4 DEF LifecycleTypeOK
      <4> QED BY <1>6, <2>2, <4>1, <4>2
    <3>5. attached'[b] = None /\ parking'[b] = None
      BY <1>0, <1>6, <2>2, <3>1
    <3> QED BY <3>1, <3>2, <3>3, <3>4, <3>5 DEF AgentOK, None
  <2> QED BY <2>1, <2>2
<1> QED BY <1>0, <1>3, <1>8, <1>9, <1>10 DEF LifeInv

LEMMA CreatesOK ==
    ASSUME LifeInv, NEW c \in Callers, Creates(c)
    PROVE  LifeInv'
<1>t. LifecycleTypeOK /\ RevivalOK /\ OwnOK /\ None \notin Callers /\ None \notin Sessions
  BY LifeTypes
<1> DEFINE a == target[c]
<1>0. PICK s \in Sessions :
      /\ revival[c] = "registered" /\ state[s] = "free"
      /\ state' = [state EXCEPT ![s] = "live"] /\ owner' = [owner EXCEPT ![s] = a]
      /\ attached' = [attached EXCEPT ![a] = IF status[a] = None THEN None ELSE s]
      /\ created' = [created EXCEPT ![c] = s]
      /\ revival' = [revival EXCEPT ![c] = "attached"]
      /\ UNCHANGED <<status, adopted, timer, parking, killing, inflight, cold, turn,
                     caller, target, joined, unheard, killed, turns, kills>>
  <2>1. (CHOOSE s \in FreeSessions : TRUE) \in FreeSessions
    BY DEF Creates
  <2> QED BY <2>1 DEF Creates, Attach, FreeSessions, calls, history
<1>1. revival[c] # None /\ a \in Agents /\ inflight[a] = c /\ s # None
  BY <1>t, <1>0 DEF RevivalOK, None
<1>2. /\ RevivalOK' /\ caller' \in [Callers -> {None, "waiting", "got", "failed"}]
      /\ \A x \in Callers : caller'[x] = "waiting" => revival'[joined'[x]] # None
      /\ revival' \in [Callers -> {None, "factory", "opening", "registered", "attached"}]
      /\ cold' \subseteq {x \in Callers : revival'[x] # None}
      /\ created' \in [Callers -> Sessions \cup {None}]
  BY <1>0, <1>1, StageRevival DEF calls
<1>3. /\ \A b \in Agents : b # a => attached'[b] = attached[b]
      /\ attached'[a] \in {s, None} /\ (status[a] # None => attached'[a] = s)
      /\ attached' \in [Agents -> Sessions \cup {None}]
  BY <1>t, <1>0, <1>1 DEF LifecycleTypeOK
<1>4. /\ state'[s] = "live" /\ owner'[s] = a
      /\ \A r \in Sessions : r # s => state'[r] = state[r] /\ owner'[r] = owner[r]
      /\ state' \in [Sessions -> {"free", "live", "disposing", "disposed"}]
      /\ owner' \in [Sessions -> Agents \cup {None}]
  BY <1>t, <1>0, <1>1 DEF LifecycleTypeOK
<1>5. /\ created'[c] = s /\ revival'[c] = "attached"
      /\ \A x \in Callers : x # c => revival'[x] = revival[x] /\ created'[x] = created[x]
  BY <1>t, <1>0 DEF LifecycleTypeOK
<1>6. LifecycleTypeOK'
  BY <1>t, <1>0, <1>2, <1>3, <1>4 DEF LifecycleTypeOK
<1>7. turn[s] = None
  BY <1>t, <1>0 DEF OwnOK
<1> HIDE DEF a
<1>8. OwnOK'
  <2>1. \A r \in Sessions, b \in Agents : Of(r, b) => r # s /\ Of(r, b)'
    BY <1>0, <1>4 DEF Of
  <2>2. owner'[s] = a /\ state'[s] # "free"
    BY <1>4
  <2>3. \A r \in Sessions : state'[r] # "free" => owner'[r] \in Agents
    BY <1>t, <1>1, <1>4 DEF OwnOK
  <2>4. ASSUME NEW b \in Agents
        PROVE  /\ attached'[b] # None => Of(attached[b], b)'
               /\ parking'[b] # None => Of(parking[b], b)'
               /\ killing'[b] # None => Of(killing[b], b)' /\ b \in killed'
    <3>1. /\ attached[b] \in Sessions \cup {None} /\ parking[b] \in Sessions \cup {None}
          /\ killing[b] \in Sessions \cup {None}
      BY <1>t, <2>4 DEF LifecycleTypeOK
    <3>2. /\ parking'[b] # None => Of(parking[b], b)'
          /\ killing'[b] # None => Of(killing[b], b)' /\ b \in killed'
      BY <1>t, <1>0, <2>1, <3>1 DEF OwnOK, Of
    <3>3. CASE attached'[b] = attached[b]
      BY <1>t, <2>1, <3>1, <3>2, <3>3 DEF OwnOK, Of
    <3>4. CASE b = a /\ attached'[b] \in {s, None}
      BY <2>2, <3>2, <3>4 DEF Of
    <3> QED BY <1>3, <3>3, <3>4
  <2>5. ASSUME NEW x \in Callers, created'[x] # None
        PROVE  Of(created[x], target[x])' /\ turn'[created'[x]] # "running"
    <3>1. CASE x = c
      <4>1. created'[x] = s /\ target'[x] = a /\ turn'[s] = None
        BY <1>0, <1>5, <1>7, <3>1 DEF a
      <4> QED BY <2>2, <4>1 DEF Of, None
    <3>2. CASE x # c
      <4>1. created'[x] = created[x] /\ target'[x] = target[x] /\ created[x] # None
        BY <1>0, <1>5, <2>5, <3>2
      <4>2. created[x] \in Sessions /\ target[x] \in Agents /\ Of(created[x], target[x])
        BY <1>t, <4>1 DEF LifecycleTypeOK, OwnOK, RevivalOK, None
      <4>3. Of(created[x], target[x])'
        BY <2>1, <4>1, <4>2 DEF Of
      <4> QED BY <1>t, <1>0, <4>1, <4>3 DEF OwnOK
    <3> QED BY <3>1, <3>2
  <2>6. \A r \in Sessions : turn'[r] # None => state'[r] \in {"live", "disposing"}
    BY <1>t, <1>0, <1>4 DEF OwnOK
  <2> QED BY <2>3, <2>4, <2>5, <2>6 DEF OwnOK
<1>9. ASSUME NEW b \in Agents \ killed
      PROVE  AgentOK(b)'
  <2>t. AgentOK(b)
    BY LifeTypes
  <2>1. CASE b # a
    <3>1. attached'[b] = attached[b]
      BY <1>3, <2>1
    <3>2. \A r \in Sessions : owner'[r] = b /\ state'[r] \in {"live", "disposing"} =>
              owner[r] = b /\ state[r] \in {"live", "disposing"} /\ turn'[r] = turn[r]
      BY <1>0, <1>4, <2>1
    <3>3. target[c] # b
      BY <2>1 DEF a
    <3> QED BY <1>0, <1>5, <3>1, <3>2, <3>3, OtherAgent
  <2>2. CASE b = a
    <3>1. attached[b] = None /\ parking[b] = None /\ Open(b) = {}
      <4>1. attached[b] = None
        BY <1>0, <2>t, <2>2 DEF AgentOK, a
      <4>2. \A r \in Open(b) : r \in Sessions /\ r = None
        BY <2>t, <4>1 DEF AgentOK, Open
      <4> QED BY <1>t, <2>t, <4>1, <4>2 DEF AgentOK
    <3>2. \A r \in Open(b)' : r = s
      BY <1>4, <3>1 DEF Open
    <3>3. status[b] # None
      BY <1>t, <1>1, <2>t, <2>2 DEF AgentOK
    <3>4. attached'[b] = s
      BY <1>3, <2>2, <3>3
    <3>5. \A x \in Callers : target'[x] = b /\ revival'[x] # None => x = c
      <4> SUFFICES ASSUME NEW x \in Callers, target'[x] = b, revival'[x] # None, x # c
                   PROVE  FALSE
        OBVIOUS
      <4>1. revival[x] # None /\ target[x] = target[c]
        BY <1>0, <1>5, <2>2 DEF a
      <4> QED BY <1>1, <4>1, OneRevival
    <3>6. target'[c] = b /\ parking'[b] = None /\ status'[b] # None /\ turn'[s] # "running"
      BY <1>0, <1>7, <2>2, <3>1, <3>3 DEF a, None
    <3>7. \A x \in Callers : target'[x] = b =>
              /\ revival'[x] \in {"factory", "opening", "registered"} => attached'[b] = None
              /\ revival'[x] = "attached" =>
                    attached'[b] = created'[x] \/ (attached'[b] = None /\ status'[b] # "running")
      BY <1>5, <3>4, <3>5 DEF None
    <3> QED BY <1>5, <3>2, <3>4, <3>6, <3>7 DEF AgentOK
  <2> QED BY <2>1, <2>2
<1> QED BY <1>2, <1>6, <1>8, <1>9, <1>0 DEF LifeInv

LEMMA RevivalEndsOK ==
    ASSUME LifeInv, NEW c \in Callers, RevivalEnds(c)
    PROVE  LifeInv'
<1>t. LifecycleTypeOK /\ RevivalOK /\ OwnOK /\ None \notin Callers /\ None \notin Sessions
  BY LifeTypes
<1> DEFINE a == target[c]
           s == created[c]
<1>0. /\ revival[c] = "attached" /\ Settles(c, "got") /\ SetStatus(a, "idle")
      /\ attached' = [attached EXCEPT ![a] = IF status[a] = None THEN None ELSE s]
      /\ created' = [created EXCEPT ![c] = None]
      /\ UNCHANGED <<adopted, parking, killing, state, owner, turn,
                     joined, target, unheard, killed, turns, kills>>
  BY DEF RevivalEnds, Attach, sessions, history
<1>1. /\ revival[c] # None /\ a \in Agents /\ inflight[a] = c /\ s \in Sessions
      /\ Of(s, a) /\ turn[s] # "running"
  BY <1>t, <1>0 DEF RevivalOK, OwnOK, LifecycleTypeOK, None
<1>2. /\ RevivalOK' /\ caller' \in [Callers -> {None, "waiting", "got", "failed"}]
      /\ \A x \in Callers : caller'[x] = "waiting" => revival'[joined'[x]] # None
      /\ inflight' \in [Agents -> Callers \cup {None}]
      /\ revival' \in [Callers -> {None, "factory", "opening", "registered", "attached"}]
      /\ cold' \subseteq {x \in Callers : revival'[x] # None}
      /\ created' \in [Callers -> Sessions \cup {None}]
  BY <1>0, <1>1, SettlesRevival
<1>3. /\ \A b \in Agents : b # a => attached'[b] = attached[b]
      /\ attached'[a] \in {s, None} /\ (status[a] # None => attached'[a] = s)
      /\ attached' \in [Agents -> Sessions \cup {None}]
  BY <1>t, <1>0, <1>1 DEF LifecycleTypeOK
<1>4. /\ revival' = [revival EXCEPT ![c] = None]
      /\ inflight' = [inflight EXCEPT ![a] = None]
  BY <1>0 DEF Settles
<1>5. /\ status' \in [Agents -> {None, "running", "idle", "parked"}]
      /\ timer' \subseteq adopted'
      /\ \A b \in Agents : b # a => status'[b] = status[b] /\ (b \in timer' <=> b \in timer)
      /\ status[a] # None => status'[a] = "idle"
  BY <1>t, <1>0, <1>1, SetStatusTimer
<1>6. LifecycleTypeOK'
  BY <1>t, <1>0, <1>2, <1>3, <1>5 DEF LifecycleTypeOK
<1>7. /\ created'[c] = None /\ revival'[c] = None
      /\ \A x \in Callers : x # c => revival'[x] = revival[x] /\ created'[x] = created[x]
  BY <1>t, <1>0, <1>4 DEF LifecycleTypeOK
<1>8. OwnOK'
  <2>1. \A b \in Agents : attached'[b] # None => Of(attached'[b], b)
    BY <1>t, <1>1, <1>3 DEF OwnOK
  <2>2. \A x \in Callers : created'[x] # None =>
            created'[x] = created[x] /\ target'[x] = target[x] /\ turn'[created[x]] # "running"
    BY <1>t, <1>0, <1>7 DEF OwnOK
  <2>3. \A b \in Agents : killing'[b] # None => Of(killing'[b], b) /\ b \in killed'
    BY <1>t, <1>0 DEF OwnOK
  <2>4. \A r \in Sessions : turn'[r] # None => state'[r] \in {"live", "disposing"}
    BY <1>t, <1>0 DEF OwnOK
  <2> QED BY <1>0, <1>6, <2>1, <2>2, <2>3, <2>4, OwnFrame
<1>9. ASSUME NEW b \in Agents \ killed
      PROVE  AgentOK(b)'
  <2>t. AgentOK(b)
    BY LifeTypes
  <2>1. CASE b # a
    <3>1. attached'[b] = attached[b] /\ status'[b] = status[b] /\ (b \in timer' => b \in timer)
      BY <1>3, <1>5, <2>1
    <3>2. inflight'[b] = inflight[b]
      BY <1>t, <1>4, <2>1 DEF LifecycleTypeOK
    <3>3. \A r \in Sessions : owner'[r] = b /\ state'[r] \in {"live", "disposing"} =>
              owner[r] = b /\ state[r] \in {"live", "disposing"} /\ turn'[r] = turn[r]
      BY <1>0
    <3> QED BY <1>0, <1>7, <2>1, <3>1, <3>2, <3>3, OtherAgent
  <2>2. CASE b = a
    <3>1. status[b] # None /\ attached[b] \in {s, None}
      BY <1>t, <1>0, <1>1, <2>t, <2>2 DEF AgentOK
    <3>2. attached'[b] = s /\ status'[b] = "idle"
      BY <1>3, <1>5, <2>2, <3>1
    <3>3. \A r \in Open(b)' : r = s /\ turn'[r] # "running"
      <4>1. Open(b)' = Open(b)
        BY <1>0 DEF Open
      <4>2. \A r \in Open(b) : r \in Sessions /\ attached[b] = r
        BY <2>t DEF AgentOK, Open
      <4> QED BY <1>t, <1>0, <1>1, <3>1, <4>1, <4>2
    <3>4. parking'[b] # None => attached'[b] = parking'[b]
      <4>1. parking[b] # None => attached[b] = parking[b]
        BY <2>t DEF AgentOK
      <4> QED BY <1>0, <3>1, <3>2, <4>1
    <3>5. \A x \in Callers : target'[x] = b => revival'[x] = None
      <4> SUFFICES ASSUME NEW x \in Callers, target'[x] = b, revival'[x] # None
                   PROVE  FALSE
        OBVIOUS
      <4>1. x # c /\ revival[x] # None /\ target[x] = target[c]
        BY <1>0, <1>7, <2>2
      <4> QED BY <1>1, <4>1, OneRevival
    <3>6. \A x \in Callers : target'[x] = b =>
              /\ revival'[x] \in {"factory", "opening", "registered"} => attached'[b] = None
              /\ revival'[x] = "attached" =>
                    attached'[b] = created'[x] \/ (attached'[b] = None /\ status'[b] # "running")
      BY <3>5 DEF None
    <3> QED BY <3>2, <3>3, <3>4, <3>6 DEF AgentOK, None
  <2> QED BY <2>1, <2>2
<1> QED BY <1>0, <1>2, <1>6, <1>8, <1>9 DEF LifeInv

LEMMA ReviverFailsOK ==
    ASSUME LifeInv, NEW c \in Callers, ReviverFails(c)
    PROVE  LifeInv'
<1>t. LifecycleTypeOK /\ RevivalOK /\ OwnOK /\ None \notin Callers /\ None \notin Sessions
  BY LifeTypes
<1> DEFINE a == target[c]
           s == created[c]
<1>0. /\ revival[c] = "attached" /\ Settles(c, "failed")
      /\ adopted' = adopted \ ColdOf(c) /\ timer' = timer \ ColdOf(c)
      /\ unheard' = unheard \cup {s} /\ created' = [created EXCEPT ![c] = None]
      /\ UNCHANGED <<status, attached, parking, killing, state, owner, turn,
                     joined, target, killed, turns, kills>>
  BY DEF ReviverFails, refs, sessions
<1>1. revival[c] # None /\ a \in Agents /\ inflight[a] = c /\ s \in Sessions
  BY <1>t, <1>0 DEF RevivalOK, LifecycleTypeOK, None
<1>2. /\ RevivalOK' /\ caller' \in [Callers -> {None, "waiting", "got", "failed"}]
      /\ \A x \in Callers : caller'[x] = "waiting" => revival'[joined'[x]] # None
      /\ inflight' \in [Agents -> Callers \cup {None}]
      /\ revival' \in [Callers -> {None, "factory", "opening", "registered", "attached"}]
      /\ cold' \subseteq {x \in Callers : revival'[x] # None}
      /\ created' \in [Callers -> Sessions \cup {None}]
  BY <1>0, <1>1, SettlesRevival
<1>3. /\ revival' = [revival EXCEPT ![c] = None]
      /\ inflight' = [inflight EXCEPT ![a] = None]
  BY <1>0 DEF Settles
<1>4. adopted' \subseteq adopted /\ timer' \subseteq timer /\ timer' \subseteq adopted'
  BY <1>t, <1>0 DEF LifecycleTypeOK
<1>5. unheard' \subseteq Sessions /\ unheard \subseteq unheard'
  BY <1>t, <1>0, <1>1 DEF LifecycleTypeOK
<1>6. LifecycleTypeOK'
  <2>1. UNCHANGED <<status, attached, parking, killing, state, owner, turn, joined, target, killed, turns, kills>>
    BY <1>0
  <2> QED BY <1>t, <1>2, <1>4, <1>5, <2>1 DEF LifecycleTypeOK
<1>7. /\ created'[c] = None /\ revival'[c] = None
      /\ \A x \in Callers : x # c => revival'[x] = revival[x] /\ created'[x] = created[x]
  BY <1>t, <1>0, <1>3 DEF LifecycleTypeOK
<1>8. OwnOK'
  <2>1. \A x \in Callers : created'[x] # None =>
            created'[x] = created[x] /\ target'[x] = target[x] /\ turn'[created[x]] # "running"
    BY <1>t, <1>0, <1>7 DEF OwnOK
  <2>2. \A b \in Agents : /\ attached'[b] # None => Of(attached'[b], b)
                          /\ killing'[b] # None => Of(killing'[b], b) /\ b \in killed'
    BY <1>t, <1>0 DEF OwnOK
  <2>3. \A r \in Sessions : turn'[r] # None => state'[r] \in {"live", "disposing"}
    BY <1>t, <1>0 DEF OwnOK
  <2> QED BY <1>0, <1>6, <2>1, <2>2, <2>3, OwnFrame
<1>9. ASSUME NEW b \in Agents \ killed
      PROVE  AgentOK(b)'
  <2>t. AgentOK(b)
    BY LifeTypes
  <2>1. CASE b # a
    <3>1. inflight'[b] = inflight[b] /\ (b \in timer' => b \in timer)
      BY <1>t, <1>3, <1>4, <2>1 DEF LifecycleTypeOK
    <3>2. \A r \in Sessions : owner'[r] = b /\ state'[r] \in {"live", "disposing"} =>
              owner[r] = b /\ state[r] \in {"live", "disposing"} /\ turn'[r] = turn[r]
      BY <1>0
    <3>3. status'[b] = status[b] /\ attached'[b] = attached[b]
      BY <1>0
    <3> QED BY <1>0, <1>5, <1>7, <2>1, <3>1, <3>2, <3>3, OtherAgent
  <2>2. CASE b = a
    <3>1. Open(b)' = Open(b)
      BY <1>0 DEF Open
    <3>2. \A r \in Open(b)' : attached'[b] = r /\ (turn'[r] = "running" => b \notin timer')
      BY <1>0, <1>4, <2>t, <3>1 DEF AgentOK
    <3>3. /\ status'[b] = None => attached'[b] = None /\ inflight'[b] = None
          /\ parking'[b] # None => attached'[b] = parking'[b]
      BY <1>t, <1>0, <1>1, <1>3, <2>t, <2>2 DEF AgentOK, LifecycleTypeOK
    <3>4. \A x \in Callers : target'[x] = b => revival'[x] = None
      <4> SUFFICES ASSUME NEW x \in Callers, target'[x] = b, revival'[x] # None
                   PROVE  FALSE
        OBVIOUS
      <4>1. x # c /\ revival[x] # None /\ target[x] = target[c]
        BY <1>0, <1>7, <2>2
      <4> QED BY <1>1, <4>1, OneRevival
    <3>5. status'[b] = "running" => attached'[b] \in unheard'
      BY <1>0, <2>t, <2>2 DEF AgentOK
    <3> QED BY <3>2, <3>3, <3>4, <3>5 DEF AgentOK, None
  <2> QED BY <2>1, <2>2
<1> QED BY <1>0, <1>2, <1>6, <1>8, <1>9 DEF LifeInv

-----------------------------------------------------------------------------
(* Turns, the timer, kills and the hub.                                    *)

\* A turn begins or ends that the registry is not told of.
LEMMA TurnChangeOK ==
    ASSUME LifeInv, NEW s \in Sessions, state[s] \in {"live", "disposing"},
           NEW t \in {None, "accepted", "unseen"}, turn' = [turn EXCEPT ![s] = t],
           turns' \in 0 .. MaxTurns,
           UNCHANGED <<refs, manager, state, owner, calls, unheard, killed, kills>>
    PROVE  LifeInv'
<1>t. LifecycleTypeOK /\ RevivalOK /\ OwnOK
  BY LifeTypes
<1>0. UNCHANGED <<status, attached, adopted, timer, parking, killing, inflight, revival, cold, created,
                  state, owner, caller, target, joined, unheard, killed, kills>>
  BY DEF refs, manager, calls
<1>1. /\ turn'[s] = t /\ \A r \in Sessions : r # s => turn'[r] = turn[r]
      /\ turn' \in [Sessions -> {None, "accepted", "running", "unseen"}]
  BY <1>t DEF LifecycleTypeOK
<1>2. t # "running"
  BY DEF None
<1>3. LifecycleTypeOK'
  BY <1>t, <1>0, <1>1 DEF LifecycleTypeOK
<1>4. RevivalOK'
  BY <1>t, <1>0 DEF RevivalOK
<1>5. \A r \in Sessions : /\ turn'[r] = "running" => turn[r] = "running"
                          /\ turn'[r] # None => state'[r] \in {"live", "disposing"}
  BY <1>t, <1>0, <1>1, <1>2 DEF OwnOK
<1>6. OwnOK'
  BY <1>t, <1>0, <1>5 DEF OwnOK, Of, LifecycleTypeOK
<1>7. ASSUME NEW b \in Agents \ killed
      PROVE  AgentOK(b)'
  <2>1. \A x \in Callers : Same(x)
    BY <1>0 DEF Same
  <2> QED BY <1>0, <1>5, <2>1, AgentFrame
<1> QED BY <1>0, <1>3, <1>4, <1>6, <1>7 DEF LifeInv

\* The registry hears of a turn: setStatus follows the session's events.
LEMMA TurnHeardOK ==
    ASSUME LifeInv, NEW s \in Sessions, state[s] \in {"live", "disposing"}, Subscribed(s),
           NEW st \in {"running", "idle"}, SetStatus(owner[s], st),
           turn' = [turn EXCEPT ![s] = IF st = "running" THEN "running" ELSE None],
           UNCHANGED <<attached, adopted, parking, killing, inflight, revival, cold, created, state, owner,
                       calls, history>>
    PROVE  LifeInv'
<1>t. LifecycleTypeOK /\ RevivalOK /\ OwnOK /\ None \notin Callers /\ None \notin Sessions
  BY LifeTypes
<1> DEFINE a == owner[s]
<1>0. /\ a \in Agents
      /\ UNCHANGED <<caller, target, joined, unheard, killed, turns, kills>>
  BY <1>t DEF OwnOK, calls, history
<1>1. /\ status' \in [Agents -> {None, "running", "idle", "parked"}]
      /\ timer' \subseteq adopted
      /\ \A b \in Agents : b # a => status'[b] = status[b] /\ (b \in timer' <=> b \in timer)
      /\ status[a] = None => status'[a] = None /\ timer' = timer
      /\ status[a] # None => status'[a] = st
      /\ a \in timer' => st = "idle" \/ (a \in timer /\ status[a] \in {None, "running"})
  BY <1>t, <1>0, SetStatusTimer
<1>2. /\ turn'[s] = IF st = "running" THEN "running" ELSE None
      /\ \A r \in Sessions : r # s => turn'[r] = turn[r]
      /\ turn' \in [Sessions -> {None, "accepted", "running", "unseen"}]
  BY <1>t DEF LifecycleTypeOK
<1>3. LifecycleTypeOK'
  BY <1>t, <1>0, <1>1, <1>2 DEF LifecycleTypeOK
<1>4. RevivalOK'
  BY <1>t, <1>0 DEF RevivalOK
<1>5. \A c \in Callers : created[c] # s
  BY DEF Subscribed
<1>6. OwnOK'
  <2>1. \A c \in Callers : created[c] # None => turn'[created[c]] # "running"
    BY <1>t, <1>2, <1>5 DEF OwnOK, LifecycleTypeOK
  <2>2. \A r \in Sessions : turn'[r] # None => state'[r] \in {"live", "disposing"}
    BY <1>t, <1>2 DEF OwnOK
  <2> QED BY <1>t, <1>0, <2>1, <2>2 DEF OwnOK, Of
<1>7. ASSUME NEW b \in Agents \ killed
      PROVE  AgentOK(b)'
  <2>t. AgentOK(b)
    BY LifeTypes
  <2>1. CASE b # a
    <3>1. \A x \in Callers : Same(x)
      BY <1>0 DEF Same
    <3>2. status'[b] = status[b] /\ (b \in timer' => b \in timer)
      BY <1>1, <2>1
    <3>3. \A r \in Sessions : owner'[r] = b /\ state'[r] \in {"live", "disposing"} =>
              /\ owner[r] = b /\ state[r] \in {"live", "disposing"}
              /\ turn'[r] = "running" => turn[r] = "running"
      BY <1>2, <2>1
    <3> QED BY <1>0, <3>1, <3>2, <3>3, AgentFrame
  <2>2. CASE b = a
    <3>1. s \in Open(b) /\ attached[b] = s /\ Open(b)' = Open(b) /\ \A r \in Open(b) : r = s
      BY <2>t, <2>2 DEF AgentOK, Open
    <3>2. status[b] # None /\ status'[b] = st
      BY <1>t, <1>1, <2>t, <2>2, <3>1 DEF AgentOK
    <3>3. st = "running" => b \notin timer'
      <4> SUFFICES ASSUME st = "running", b \in timer' PROVE FALSE
        OBVIOUS
      <4>1. b \in timer /\ status[b] = "running"
        BY <1>1, <2>2, <3>2
      <4>2. PICK c \in Callers : target[c] = b /\ revival[c] \in {"registered", "attached"}
        BY <2>t, <3>1, <4>1 DEF AgentOK, Subscribed
      <4>3. attached[b] \in {created[c], None}
        BY <2>t, <4>2 DEF AgentOK
      <4> QED BY <1>t, <1>5, <3>1, <4>3
    <3>4. \A r \in Open(b)' : turn'[r] = "running" => b \notin timer'
      BY <1>2, <3>1, <3>3 DEF None
    <3>5. /\ \A r \in Open(b)' : attached'[b] = r
          /\ parking'[b] # None => attached'[b] = parking'[b]
          /\ \A c \in Callers : target'[c] = b =>
                /\ revival'[c] \in {"factory", "opening", "registered"} => attached'[b] = None
                /\ revival'[c] = "attached" => attached'[b] = created'[c]
      BY <1>0, <1>t, <2>t, <3>1 DEF AgentOK
    <3>6. status'[b] # None /\ (status'[b] = "running" => b \notin timer')
      BY <3>2, <3>3 DEF None
    <3> QED BY <3>4, <3>5, <3>6 DEF AgentOK
  <2> QED BY <2>1, <2>2
<1> QED BY <1>0, <1>3, <1>4, <1>6, <1>7 DEF LifeInv

LEMMA TurnsOK ==
    ASSUME LifeInv, NEW s \in Sessions, AcceptTurn(s) \/ TurnStarts(s) \/ TurnEnds(s)
    PROVE  LifeInv'
<1>t. LifecycleTypeOK /\ OwnOK /\ BoundsAssumption
  BY LifeTypes, BoundsAssumption
<1>1. turn[s] # None => state[s] \in {"live", "disposing"}
  BY <1>t DEF OwnOK
<1>2. CASE AcceptTurn(s)
  <2>1. turns' \in 0 .. MaxTurns
    BY <1>t, <1>2 DEF AcceptTurn, LifecycleTypeOK, BoundsAssumption
  <2> QED BY <1>2, <2>1, TurnChangeOK DEF AcceptTurn
<1>3. CASE TurnStarts(s)
  <2>0. turn[s] = "accepted" /\ turn[s] # None
    BY <1>3 DEF TurnStarts, None
  <2>1. CASE Subscribed(s)
    BY <1>1, <1>3, <2>0, <2>1, TurnHeardOK DEF TurnStarts
  <2>2. CASE ~Subscribed(s)
    BY <1>t, <1>1, <1>3, <2>0, <2>2, TurnChangeOK DEF TurnStarts, refs, manager, history, LifecycleTypeOK
  <2> QED BY <2>1, <2>2
<1>4. CASE TurnEnds(s)
  <2>0. turn[s] # None
    BY <1>4 DEF TurnEnds, None
  <2>1. CASE Subscribed(s)
    <3>1. turn' = [turn EXCEPT ![s] = IF "idle" = "running" THEN "running" ELSE None]
      BY <1>4 DEF TurnEnds
    <3> QED BY <1>1, <1>4, <2>0, <2>1, <3>1, TurnHeardOK DEF TurnEnds
  <2>2. CASE ~Subscribed(s)
    BY <1>t, <1>1, <1>4, <2>0, <2>2, TurnChangeOK DEF TurnEnds, refs, manager, history, LifecycleTypeOK
  <2> QED BY <2>1, <2>2
<1> QED BY <1>2, <1>3, <1>4

\* What a step about agent a that touches no revival leaves of the others.
LEMMA ElsewhereOK ==
    ASSUME LifeInv, NEW a \in Agents, LifecycleTypeOK',
           UNCHANGED <<inflight, revival, created, owner, calls, unheard>>, killed \subseteq killed',
           \A b \in Agents : b # a =>
              /\ status'[b] = status[b] /\ attached'[b] = attached[b]
              /\ parking'[b] = parking[b] /\ (b \in timer' => b \in timer),
           attached'[a] \in {None, attached[a]}, parking'[a] \in {None, parking[a], attached[a]},
           \A b \in Agents : killing'[b] # None => Of(killing'[b], b) /\ b \in killed',
           \A s \in Sessions : /\ state[s] = "free" <=> state'[s] = "free"
                               /\ state'[s] \in {"live", "disposing"} => state[s] \in {"live", "disposing"}
                               /\ turn'[s] \in {None, turn[s]}
                               /\ turn'[s] # None => state'[s] \in {"live", "disposing"},
           a \in killed' \/ AgentOK(a)'
    PROVE  LifeInv'
<1>t. LifecycleTypeOK /\ RevivalOK /\ OwnOK
  BY LifeTypes
<1>0. UNCHANGED <<caller, target, joined>>
  BY DEF calls
<1>1. RevivalOK'
  BY <1>t, <1>0 DEF RevivalOK
<1>2. OwnOK'
  <2>1. ASSUME NEW b \in Agents
        PROVE  /\ attached'[b] # None => Of(attached'[b], b)
               /\ parking'[b] \in {None, parking[b], attached[b]}
    BY <1>t DEF OwnOK
  <2>2. \A c \in Callers : created'[c] # None =>
            created'[c] = created[c] /\ target'[c] = target[c] /\ turn'[created[c]] # "running"
    <3> SUFFICES ASSUME NEW c \in Callers, created[c] # None
                 PROVE  turn'[created[c]] # "running"
      BY <1>0
    <3>1. created[c] \in Sessions /\ turn[created[c]] # "running"
      BY <1>t DEF OwnOK, LifecycleTypeOK
    <3> QED BY <3>1 DEF None
  <2> QED BY <2>1, <2>2, OwnFrame
<1>3. ASSUME NEW b \in Agents \ killed'
      PROVE  AgentOK(b)'
  <2>1. CASE b # a
    <3>1. \A x \in Callers : Same(x)
      BY <1>0 DEF Same
    <3>2. \A s \in Sessions : owner'[s] = b /\ state'[s] \in {"live", "disposing"} =>
              /\ owner[s] = b /\ state[s] \in {"live", "disposing"}
              /\ turn'[s] = "running" => turn[s] = "running"
      BY DEF None
    <3>3. b \in Agents \ killed
      BY <1>3
    <3> QED BY <2>1, <3>1, <3>2, <3>3, AgentFrame
  <2> QED BY <1>3, <2>1
<1> QED BY <1>1, <1>2, <1>3 DEF LifeInv

\* Disposal of a session that begins, and that ends.
LEMMA BeginDisposeStates ==
    ASSUME LifeInv, NEW s \in Sessions, BeginDispose(s), UNCHANGED turn
    PROVE  /\ state' \in [Sessions -> {"free", "live", "disposing", "disposed"}]
           /\ turn' \in [Sessions -> {None, "accepted", "running", "unseen"}]
           /\ \A r \in Sessions : /\ state[r] = "free" <=> state'[r] = "free"
                                  /\ state'[r] \in {"live", "disposing"} <=> state[r] \in {"live", "disposing"}
                                  /\ turn'[r] \in {None, turn[r]}
                                  /\ turn'[r] # None => state'[r] \in {"live", "disposing"}
<1>t. LifecycleTypeOK /\ OwnOK
  BY LifeTypes
<1>1. /\ state' \in [Sessions -> {"free", "live", "disposing", "disposed"}]
      /\ state'[s] = IF state[s] = "live" THEN "disposing" ELSE state[s]
      /\ \A r \in Sessions : r # s => state'[r] = state[r]
  BY <1>t DEF BeginDispose, LifecycleTypeOK
<1> QED BY <1>t, <1>1 DEF LifecycleTypeOK, OwnOK

LEMMA EndDisposeStates ==
    ASSUME LifeInv, NEW s \in Sessions, state[s] # "free", EndDispose(s)
    PROVE  /\ state' \in [Sessions -> {"free", "live", "disposing", "disposed"}]
           /\ turn' \in [Sessions -> {None, "accepted", "running", "unseen"}]
           /\ state'[s] = "disposed"
           /\ \A r \in Sessions : /\ state[r] = "free" <=> state'[r] = "free"
                                  /\ state'[r] \in {"live", "disposing"} => state[r] \in {"live", "disposing"}
                                  /\ turn'[r] \in {None, turn[r]}
                                  /\ turn'[r] # None => state'[r] \in {"live", "disposing"}
<1>t. LifecycleTypeOK /\ OwnOK
  BY LifeTypes
<1>1. /\ state' \in [Sessions -> {"free", "live", "disposing", "disposed"}]
      /\ state'[s] = "disposed" /\ \A r \in Sessions : r # s => state'[r] = state[r]
      /\ turn' \in [Sessions -> {None, "accepted", "running", "unseen"}]
      /\ turn'[s] = None /\ \A r \in Sessions : r # s => turn'[r] = turn[r]
  BY <1>t DEF EndDispose, LifecycleTypeOK
<1> QED BY <1>t, <1>1 DEF OwnOK

LEMMA TimerFiresOK ==
    ASSUME LifeInv, NEW a \in Agents, TimerFires(a)
    PROVE  LifeInv'
<1>t. LifecycleTypeOK /\ OwnOK
  BY LifeTypes
<1>0. /\ timer' = timer \ {a}
      /\ UNCHANGED <<status, attached, adopted, killing, inflight, revival, cold, created, owner, turn,
                     calls, caller, target, joined, unheard, killed, turns, kills>>
  BY DEF TimerFires, refs, calls, history
<1>1. /\ parking' \in [Agents -> Sessions \cup {None}]
      /\ \A b \in Agents : b # a => parking'[b] = parking[b]
      /\ parking'[a] \in {parking[a], attached[a]}
  BY <1>t DEF TimerFires, LifecycleTypeOK
<1>2. /\ state' \in [Sessions -> {"free", "live", "disposing", "disposed"}]
      /\ turn' \in [Sessions -> {None, "accepted", "running", "unseen"}]
      /\ \A r \in Sessions : /\ state[r] = "free" <=> state'[r] = "free"
                             /\ state'[r] \in {"live", "disposing"} <=> state[r] \in {"live", "disposing"}
                             /\ turn'[r] \in {None, turn[r]}
                             /\ turn'[r] # None => state'[r] \in {"live", "disposing"}
  <2>1. CASE attached[a] # None
    BY <1>t, <1>0, <2>1, BeginDisposeStates DEF TimerFires, LifecycleTypeOK
  <2>2. CASE attached[a] = None
    BY <1>t, <1>0, <2>2 DEF TimerFires, LifecycleTypeOK, OwnOK
  <2> QED BY <2>1, <2>2
<1>3. LifecycleTypeOK'
  BY <1>t, <1>0, <1>1, <1>2 DEF LifecycleTypeOK
<1>4. a \in killed \/ AgentOK(a)'
  <2> SUFFICES ASSUME a \notin killed PROVE AgentOK(a)'
    OBVIOUS
  <2>1. \A x \in Callers : Same(x)
    BY <1>0 DEF Same
  <2>2. a \in Agents \ killed /\ (a \in timer' => a \in timer)
    BY <1>0
  <2> QED BY <1>0, <1>1, <1>2, <2>1, <2>2, AgentFrame
<1>5. \A b \in Agents : killing'[b] # None => Of(killing'[b], b) /\ b \in killed'
  BY <1>t, <1>0 DEF OwnOK
<1> QED BY <1>0, <1>1, <1>2, <1>3, <1>4, <1>5, ElsewhereOK

LEMMA ParkEndsOK ==
    ASSUME LifeInv, NEW a \in Agents, ParkEnds(a)
    PROVE  LifeInv'
<1>t. LifecycleTypeOK /\ OwnOK
  BY LifeTypes
<1> DEFINE s == parking[a]
<1>0. /\ s # None /\ EndDispose(s) /\ SetStatus(a, "parked")
      /\ parking' = [parking EXCEPT ![a] = None] /\ attached' = [attached EXCEPT ![a] = None]
      /\ UNCHANGED <<adopted, killing, inflight, revival, cold, created, owner,
                     calls, caller, target, joined, unheard, killed, turns, kills>>
  BY DEF ParkEnds, calls, history
<1>1. s \in Sessions /\ Of(s, a) /\ state[s] # "free"
  BY <1>t, <1>0 DEF OwnOK, Of, LifecycleTypeOK
<1>2. /\ parking' \in [Agents -> Sessions \cup {None}] /\ attached' \in [Agents -> Sessions \cup {None}]
      /\ \A b \in Agents : b # a => parking'[b] = parking[b] /\ attached'[b] = attached[b]
      /\ parking'[a] = None /\ attached'[a] = None
  BY <1>t, <1>0 DEF LifecycleTypeOK
<1>3. /\ state' \in [Sessions -> {"free", "live", "disposing", "disposed"}]
      /\ turn' \in [Sessions -> {None, "accepted", "running", "unseen"}]
      /\ state'[s] = "disposed"
      /\ \A r \in Sessions : /\ state[r] = "free" <=> state'[r] = "free"
                             /\ state'[r] \in {"live", "disposing"} => state[r] \in {"live", "disposing"}
                             /\ turn'[r] \in {None, turn[r]}
                             /\ turn'[r] # None => state'[r] \in {"live", "disposing"}
  BY <1>0, <1>1, EndDisposeStates
<1>4. /\ status' \in [Agents -> {None, "running", "idle", "parked"}]
      /\ timer' \subseteq adopted
      /\ \A b \in Agents : b # a => status'[b] = status[b] /\ (b \in timer' <=> b \in timer)
      /\ status[a] # None => status'[a] = "parked"
  BY <1>t, <1>0, SetStatusTimer
<1>5. LifecycleTypeOK'
  BY <1>t, <1>0, <1>2, <1>3, <1>4 DEF LifecycleTypeOK
<1>6. a \in killed \/ AgentOK(a)'
  <2> SUFFICES ASSUME a \notin killed PROVE AgentOK(a)'
    OBVIOUS
  <2>t. AgentOK(a)
    BY LifeTypes
  <2>1. attached[a] = s /\ \A r \in Open(a) : r = s
    BY <1>0, <2>t DEF AgentOK
  <2>2. \A r \in Open(a)' : FALSE
    BY <1>0, <1>3, <2>1 DEF Open
  <2>3. status'[a] = "parked"
    BY <1>0, <1>4, <2>1, <2>t DEF AgentOK
  <2> QED BY <1>2, <2>2, <2>3 DEF AgentOK, None
<1>7. \A b \in Agents : killing'[b] # None => Of(killing'[b], b) /\ b \in killed'
  BY <1>t, <1>0 DEF OwnOK
<1> QED BY <1>0, <1>2, <1>3, <1>4, <1>5, <1>6, <1>7, ElsewhereOK

LEMMA KillOK ==
    ASSUME LifeInv, NEW a \in Agents, Kill(a)
    PROVE  LifeInv'
<1>t. LifecycleTypeOK /\ OwnOK
  BY LifeTypes
<1>0. /\ kills < MaxKills /\ kills' = kills + 1 /\ killed' = killed \cup {a}
      /\ adopted' = adopted \ {a} /\ timer' = timer \ {a}
      /\ UNCHANGED <<parking, inflight, revival, cold, created, owner, turn, calls, caller, target, joined, unheard, turns>>
  BY DEF Kill, calls
<1>1. /\ status' \in [Agents -> {None, "running", "idle", "parked"}]
      /\ attached' \in [Agents -> Sessions \cup {None}]
      /\ \A b \in Agents : b # a => status'[b] = status[b] /\ attached'[b] = attached[b]
      /\ attached'[a] \in {None, attached[a]}
      /\ killing' \in [Agents -> Sessions \cup {None}]
      /\ \A b \in Agents : killing'[b] = killing[b] \/ (b = a /\ killing'[b] = attached[a])
  <2>1. CASE attached[a] # None
    BY <1>t, <2>1 DEF Kill, LifecycleTypeOK, refs
  <2>2. CASE attached[a] = None
    BY <1>t, <2>2 DEF Kill, Unregister, LifecycleTypeOK
  <2> QED BY <2>1, <2>2
<1>2. /\ state' \in [Sessions -> {"free", "live", "disposing", "disposed"}]
      /\ turn' \in [Sessions -> {None, "accepted", "running", "unseen"}]
      /\ \A r \in Sessions : /\ state[r] = "free" <=> state'[r] = "free"
                             /\ state'[r] \in {"live", "disposing"} <=> state[r] \in {"live", "disposing"}
                             /\ turn'[r] \in {None, turn[r]}
                             /\ turn'[r] # None => state'[r] \in {"live", "disposing"}
  <2>1. CASE attached[a] # None
    BY <1>t, <1>0, <2>1, BeginDisposeStates DEF Kill, LifecycleTypeOK
  <2>2. CASE attached[a] = None
    BY <1>t, <1>0, <2>2 DEF Kill, LifecycleTypeOK, OwnOK
  <2> QED BY <2>1, <2>2
<1>3. kills' \in 0 .. MaxKills
  BY <1>t, <1>0, BoundsAssumption DEF LifecycleTypeOK
<1>4. LifecycleTypeOK'
  BY <1>t, <1>0, <1>1, <1>2, <1>3 DEF LifecycleTypeOK
<1>5. \A b \in Agents : killing'[b] # None => Of(killing'[b], b) /\ b \in killed'
  BY <1>t, <1>0, <1>1 DEF OwnOK
<1>6. \A b \in Agents : b # a => (b \in timer' => b \in timer)
  BY <1>0
<1> QED BY <1>0, <1>1, <1>2, <1>4, <1>5, <1>6, ElsewhereOK

LEMMA KillEndsOK ==
    ASSUME LifeInv, NEW a \in Agents, KillEnds(a)
    PROVE  LifeInv'
<1>t. LifecycleTypeOK /\ OwnOK
  BY LifeTypes
<1> DEFINE s == killing[a]
<1>0. /\ s # None /\ EndDispose(s) /\ Unregister({a})
      /\ killing' = [killing EXCEPT ![a] = None]
      /\ adopted' = adopted \ Known({a}) /\ timer' = timer \ Known({a})
      /\ UNCHANGED <<parking, inflight, revival, cold, created, owner,
                     calls, caller, target, joined, unheard, killed, turns, kills>>
  BY DEF KillEnds, calls, history
<1>1. s \in Sessions /\ state[s] # "free" /\ a \in killed
  BY <1>t, <1>0 DEF OwnOK, Of, LifecycleTypeOK
<1>2. /\ state' \in [Sessions -> {"free", "live", "disposing", "disposed"}]
      /\ turn' \in [Sessions -> {None, "accepted", "running", "unseen"}]
      /\ \A r \in Sessions : /\ state[r] = "free" <=> state'[r] = "free"
                             /\ state'[r] \in {"live", "disposing"} => state[r] \in {"live", "disposing"}
                             /\ turn'[r] \in {None, turn[r]}
                             /\ turn'[r] # None => state'[r] \in {"live", "disposing"}
  BY <1>0, <1>1, EndDisposeStates
<1>3. /\ status' \in [Agents -> {None, "running", "idle", "parked"}]
      /\ attached' \in [Agents -> Sessions \cup {None}]
      /\ \A b \in Agents : b # a => status'[b] = status[b] /\ attached'[b] = attached[b]
      /\ attached'[a] = None
      /\ killing' \in [Agents -> Sessions \cup {None}] /\ killing'[a] = None
      /\ \A b \in Agents : b # a => killing'[b] = killing[b]
  BY <1>t, <1>0 DEF Unregister, LifecycleTypeOK
<1>4. LifecycleTypeOK'
  BY <1>t, <1>0, <1>2, <1>3 DEF LifecycleTypeOK
<1>5. \A b \in Agents : killing'[b] # None => Of(killing'[b], b) /\ b \in killed'
  BY <1>t, <1>0, <1>3 DEF OwnOK
<1>6. timer' \subseteq timer
  BY <1>0
<1> QED BY <1>0, <1>1, <1>2, <1>3, <1>4, <1>5, <1>6, ElsewhereOK

LEMMA ScanOK ==
    ASSUME LifeInv, NEW a \in Agents, Scan(a)
    PROVE  LifeInv'
<1>t. LifecycleTypeOK /\ OwnOK
  BY LifeTypes
<1>0. /\ status[a] = None
      /\ status' = [status EXCEPT ![a] = "parked"] /\ attached' = [attached EXCEPT ![a] = None]
      /\ UNCHANGED <<adopted, timer, parking, killing, inflight, revival, cold, created, state, owner, turn,
                     calls, caller, target, joined, unheard, killed, turns, kills>>
  BY DEF Scan, Register, manager, sessions, calls, history
<1>1. /\ status' \in [Agents -> {None, "running", "idle", "parked"}]
      /\ attached' \in [Agents -> Sessions \cup {None}]
      /\ \A b \in Agents : b # a => status'[b] = status[b] /\ attached'[b] = attached[b]
      /\ attached'[a] = None /\ status'[a] = "parked"
  BY <1>t, <1>0 DEF LifecycleTypeOK
<1>2. LifecycleTypeOK'
  BY <1>t, <1>0, <1>1 DEF LifecycleTypeOK
<1>3. a \in killed \/ AgentOK(a)'
  <2> SUFFICES ASSUME a \notin killed PROVE AgentOK(a)'
    OBVIOUS
  <2>t. AgentOK(a)
    BY LifeTypes
  <2>1. attached[a] = None /\ inflight[a] = None /\ \A r \in Open(a) : r = None /\ r \in Sessions
    BY <1>0, <2>t DEF AgentOK, Open
  <2>2. Open(a)' = Open(a) /\ \A r \in Open(a) : FALSE
    BY <1>0, <2>1, LifeTypes DEF Open
  <2>3. status'[a] # None /\ status'[a] # "running"
    BY <1>1 DEF None
  <2>4. parking'[a] = None
    BY <1>0, <2>1, <2>t DEF AgentOK
  <2>5. \A x \in Callers : target'[x] = a =>
            /\ revival'[x] \in {"factory", "opening", "registered"} => attached'[a] = None
            /\ revival'[x] = "attached" =>
                  attached'[a] = created'[x] \/ (attached'[a] = None /\ status'[a] # "running")
    BY <1>1, <2>3
  <2> QED BY <2>2, <2>3, <2>4, <2>5 DEF AgentOK
<1>4. \A b \in Agents : killing'[b] # None => Of(killing'[b], b) /\ b \in killed'
  BY <1>t, <1>0 DEF OwnOK
<1>5. \A r \in Sessions : turn'[r] # None => state'[r] \in {"live", "disposing"}
  BY <1>t, <1>0 DEF OwnOK
<1> QED BY <1>0, <1>1, <1>2, <1>3, <1>4, <1>5, ElsewhereOK

\* A step in which only the bus changes.
LEMMA LifecycleStutters ==
    ASSUME LifeInv, UNCHANGED lifecycle
    PROVE  LifeInv'
BY DEF lifecycle, refs, manager, sessions, calls, history, LifeInv, LifecycleTypeOK, RevivalOK, OwnOK,
       AgentOK, Of, Open

LEMMA RevivalStepOK ==
    ASSUME LifeInv, NEW c \in Callers, Revival(c)
    PROVE  LifeInv'
BY FactoryReturnsOK, FactoryDeclinesOK, OpenFailsOK, RegistersOK, CreateFailsOK, CreatesOK, RevivalEndsOK,
   ReviverFailsOK DEF Revival

-----------------------------------------------------------------------------
(* Mailboxes and lists of waiters.                                         *)

LEMMA MinOf ==
    ASSUME NEW K \in SUBSET Nat, K # {}
    PROVE  Min(K) \in K /\ \A k \in K : Min(K) <= k
<1> DEFINE R == OpToRel(<, Nat)
<1>1. \A i, j \in Nat : <<i, j>> \in R <=> i < j
  BY DEF OpToRel
<1>2. IsWellFoundedOn(R, Nat)
  BY NatLessThanWellFounded
<1> HIDE DEF R
<1>3. PICK x \in K : \A y \in K : ~(<<y, x>> \in R)
  BY <1>2, WFMin
<1>4. \A y \in K : x \in Nat /\ y \in Nat /\ ~(y < x)
  BY <1>1, <1>3
<1>5. \A y \in K : x <= y
  BY <1>4
<1> QED BY <1>5 DEF Min

\* A part of a sequence.
LEMMA Slice ==
    ASSUME NEW S, NEW s \in Seq(S), NEW m \in 1 .. Len(s) + 1, NEW n \in m - 1 .. Len(s)
    PROVE  /\ SubSeq(s, m, n) \in Seq(S) /\ Len(SubSeq(s, m, n)) = n - m + 1
           /\ \A j \in 1 .. n - m + 1 : SubSeq(s, m, n)[j] = s[m + j - 1]
<1>1. m \in Int /\ n \in Int /\ Len(s) \in Nat
  OBVIOUS
<1>2. \A j \in m .. n : s[j] \in S
  <2>1. \A j \in m .. n : j \in 1 .. Len(s)
    BY <1>1
  <2> QED BY <2>1
<1>3. /\ SubSeq(s, m, n) \in Seq(S)
      /\ Len(SubSeq(s, m, n)) = IF m <= n THEN n - m + 1 ELSE 0
      /\ \A j \in 1 .. n - m + 1 : SubSeq(s, m, n)[j] = s[m + j - 1]
  BY <1>1, <1>2, SubSeqProperties
<1> QED BY <1>1, <1>3

\* What is left without one element.
LEMMA RemoveAtPositions ==
    ASSUME NEW S, NEW s \in Seq(S), NEW k \in DOMAIN s
    PROVE  /\ RemoveAt(s, k) \in Seq(S) /\ Len(RemoveAt(s, k)) = Len(s) - 1
           /\ \A j \in 1 .. Len(s) - 1 : RemoveAt(s, k)[j] = s[IF j < k THEN j ELSE j + 1]
<1>1. Len(s) \in Nat /\ DOMAIN s = 1 .. Len(s) /\ k \in 1 .. Len(s)
  OBVIOUS
<1>2. PICK a, b : a = SubSeq(s, 1, k - 1) /\ b = SubSeq(s, k + 1, Len(s))
  OBVIOUS
<1>3. /\ a \in Seq(S) /\ Len(a) = k - 1
      /\ \A j \in 1 .. k - 1 : a[j] = s[j]
  <2>1. 1 \in 1 .. Len(s) + 1 /\ k - 1 \in 1 - 1 .. Len(s)
    BY <1>1
  <2>2. /\ a \in Seq(S) /\ Len(a) = (k - 1) - 1 + 1
        /\ \A j \in 1 .. (k - 1) - 1 + 1 : a[j] = s[1 + j - 1]
    BY <1>2, <2>1, Slice
  <2>3. (k - 1) - 1 + 1 = k - 1 /\ \A j \in 1 .. k - 1 : 1 + j - 1 = j
    BY <1>1
  <2> QED BY <2>2, <2>3
<1>4. /\ b \in Seq(S) /\ Len(b) = Len(s) - k
      /\ \A j \in 1 .. Len(s) - k : b[j] = s[j + k]
  <2>1. k + 1 \in 1 .. Len(s) + 1 /\ Len(s) \in (k + 1) - 1 .. Len(s)
    BY <1>1
  <2>2. /\ b \in Seq(S) /\ Len(b) = Len(s) - (k + 1) + 1
        /\ \A j \in 1 .. Len(s) - (k + 1) + 1 : b[j] = s[(k + 1) + j - 1]
    BY <1>2, <2>1, Slice
  <2>3. Len(s) - (k + 1) + 1 = Len(s) - k /\ \A j \in 1 .. Len(s) - k : (k + 1) + j - 1 = j + k
    BY <1>1
  <2> QED BY <2>2, <2>3
<1>5. /\ a \o b \in Seq(S) /\ Len(a \o b) = Len(s) - 1
      /\ \A j \in 1 .. Len(s) - 1 : (a \o b)[j] = IF j <= k - 1 THEN a[j] ELSE b[j - (k - 1)]
  <2>1. /\ a \o b \in Seq(S) /\ Len(a \o b) = Len(a) + Len(b)
        /\ \A j \in 1 .. Len(a) + Len(b) :
               (a \o b)[j] = IF j <= Len(a) THEN a[j] ELSE b[j - Len(a)]
    BY <1>3, <1>4, ConcatProperties, Zenon
  <2>2. Len(a) = k - 1 /\ Len(a) + Len(b) = Len(s) - 1
    BY <1>1, <1>3, <1>4
  <2> QED BY <2>1, <2>2, Zenon
<1>6. RemoveAt(s, k) = a \o b
  BY <1>2 DEF RemoveAt
<1>7. ASSUME NEW j \in 1 .. Len(s) - 1
      PROVE  (a \o b)[j] = s[IF j < k THEN j ELSE j + 1]
  <2>1. CASE j < k
    <3>1. j \in 1 .. k - 1 /\ j <= k - 1
      BY <1>1, <2>1
    <3> QED BY <1>3, <1>5, <1>7, <2>1, <3>1, Zenon
  <2>2. CASE ~(j < k)
    <3>1. j - (k - 1) \in 1 .. Len(s) - k /\ (j - (k - 1)) + k = j + 1 /\ ~(j <= k - 1)
      BY <1>1, <2>2
    <3> QED BY <1>4, <1>5, <1>7, <2>2, <3>1, Zenon
  <2> QED BY <2>1, <2>2
<1> QED BY <1>5, <1>6, <1>7, Zenon

\* Sequences without repetition, as a mailbox and a list of waiters are.
LEMMA RemoveAtSet ==
    ASSUME NEW S, NEW s \in Seq(S), IsInjective(s), NEW k \in DOMAIN s
    PROVE  /\ RemoveAt(s, k) \in Seq(S) /\ Len(RemoveAt(s, k)) = Len(s) - 1
           /\ IsInjective(RemoveAt(s, k)) /\ ToSet(RemoveAt(s, k)) = ToSet(s) \ {s[k]}
<1>1. Len(s) \in Nat /\ DOMAIN s = 1 .. Len(s) /\ k \in 1 .. Len(s)
  OBVIOUS
<1>2. PICK r : r = RemoveAt(s, k)
  OBVIOUS
<1>3. /\ r \in Seq(S) /\ Len(r) = Len(s) - 1 /\ DOMAIN r = 1 .. Len(s) - 1
      /\ \A j \in 1 .. Len(s) - 1 : r[j] = s[IF j < k THEN j ELSE j + 1]
  <2>1. /\ r \in Seq(S) /\ Len(r) = Len(s) - 1
        /\ \A j \in 1 .. Len(s) - 1 : r[j] = s[IF j < k THEN j ELSE j + 1]
    BY <1>2, RemoveAtPositions
  <2> QED BY <2>1
<1>4. \A i, j \in DOMAIN s : s[i] = s[j] => i = j
  BY DEF IsInjective
<1>5. \A i, j \in DOMAIN r : r[i] = r[j] => i = j
  <2> SUFFICES ASSUME NEW i \in 1 .. Len(s) - 1, NEW j \in 1 .. Len(s) - 1, r[i] = r[j]
               PROVE  i = j
    BY <1>3
  <2> DEFINE f(n) == IF n < k THEN n ELSE n + 1
  <2>1. f(i) \in DOMAIN s /\ f(j) \in DOMAIN s /\ s[f(i)] = s[f(j)]
    BY <1>1, <1>3
  <2>2. f(i) = f(j)
    BY <1>4, <2>1
  <2> QED BY <1>1, <2>2
<1>6. ToSet(r) \subseteq ToSet(s) \ {s[k]}
  <2> SUFFICES ASSUME NEW j \in 1 .. Len(s) - 1
               PROVE  r[j] \in ToSet(s) \ {s[k]}
    BY <1>3 DEF ToSet
  <2>1. PICK i : i = IF j < k THEN j ELSE j + 1
    OBVIOUS
  <2>2. i \in DOMAIN s /\ i # k
    BY <1>1, <2>1
  <2>3. r[j] = s[i]
    BY <1>3, <2>1
  <2> QED BY <1>1, <1>4, <2>2, <2>3 DEF ToSet
<1>7. ToSet(s) \ {s[k]} \subseteq ToSet(r)
  <2> SUFFICES ASSUME NEW i \in DOMAIN s, i # k
               PROVE  \E j \in DOMAIN r : r[j] = s[i]
    BY DEF ToSet
  <2>1. CASE i < k
    BY <1>1, <1>3, <2>1
  <2>2. CASE ~(i < k)
    <3>1. i - 1 \in 1 .. Len(s) - 1 /\ ~(i - 1 < k) /\ (i - 1) + 1 = i
      BY <1>1, <2>2
    <3> QED BY <1>3, <3>1
  <2> QED BY <2>1, <2>2
<1>8. IsInjective(r)
  BY <1>5 DEF IsInjective
<1> QED BY <1>2, <1>3, <1>6, <1>7, <1>8

LEMMA WithoutSet ==
    ASSUME NEW S, NEW s \in Seq(S), IsInjective(s), NEW x
    PROVE  /\ Without(s, x) \in Seq(S) /\ IsInjective(Without(s, x))
           /\ ToSet(Without(s, x)) = ToSet(s) \ {x}
<1> DEFINE at == {k \in DOMAIN s : s[k] = x}
<1>1. CASE at = {}
  <2>1. Without(s, x) = s
    BY <1>1 DEF Without
  <2> QED BY <1>1, <2>1 DEF ToSet
<1>2. CASE at # {}
  <2>1. Without(s, x) = RemoveAt(s, Min(at))
    BY <1>2 DEF Without
  <2>2. at \in SUBSET Nat
    OBVIOUS
  <2>3. Min(at) \in at
    BY <1>2, <2>2, MinOf
  <2>4. Min(at) \in DOMAIN s /\ s[Min(at)] = x
    BY <2>3
  <2> HIDE DEF at
  <2> QED BY <2>1, <2>4, RemoveAtSet
<1> QED BY <1>1, <1>2

LEMMA AppendSet ==
    ASSUME NEW S, NEW s \in Seq(S), IsInjective(s), NEW x \in S, x \notin ToSet(s)
    PROVE  /\ Append(s, x) \in Seq(S) /\ Len(Append(s, x)) = Len(s) + 1
           /\ IsInjective(Append(s, x)) /\ ToSet(Append(s, x)) = ToSet(s) \cup {x}
<1>1. Len(s) \in Nat /\ DOMAIN s = 1 .. Len(s)
  OBVIOUS
<1>2. PICK r : r = Append(s, x)
  OBVIOUS
<1>3. /\ r \in Seq(S) /\ Len(r) = Len(s) + 1 /\ DOMAIN r = 1 .. Len(s) + 1
      /\ \A j \in 1 .. Len(s) : r[j] = s[j]
      /\ r[Len(s) + 1] = x
  BY <1>2, AppendProperties
<1>4. \A j \in 1 .. Len(s) + 1 : j \in 1 .. Len(s) \/ j = Len(s) + 1
  BY <1>1
<1>5. IsInjective(r)
  BY <1>1, <1>3, <1>4 DEF IsInjective, ToSet
<1>6. ToSet(r) = ToSet(s) \cup {x}
  BY <1>1, <1>3, <1>4 DEF ToSet
<1> QED BY <1>2, <1>3, <1>5, <1>6

LEMMA TailSet ==
    ASSUME NEW S, NEW s \in Seq(S), IsInjective(s), s # <<>>
    PROVE  /\ Head(s) \in ToSet(s) /\ Tail(s) \in Seq(S) /\ Len(Tail(s)) = Len(s) - 1
           /\ IsInjective(Tail(s)) /\ ToSet(Tail(s)) = ToSet(s) \ {Head(s)}
<1>1. Len(s) \in Nat /\ DOMAIN s = 1 .. Len(s) /\ 1 \in DOMAIN s /\ Head(s) = s[1]
  OBVIOUS
<1>2. PICK r : r = Tail(s)
  OBVIOUS
<1>3. /\ r \in Seq(S) /\ Len(r) = Len(s) - 1 /\ DOMAIN r = 1 .. Len(s) - 1
      /\ \A j \in 1 .. Len(s) - 1 : r[j] = s[j + 1]
  BY <1>2, HeadTailProperties
<1>4. \A i, j \in DOMAIN s : s[i] = s[j] => i = j
  BY DEF IsInjective
<1>5. \A j \in DOMAIN r : j + 1 \in DOMAIN s /\ j + 1 # 1
  BY <1>1, <1>3
<1>6. IsInjective(r)
  <2> SUFFICES ASSUME NEW i \in DOMAIN r, NEW j \in DOMAIN r, r[i] = r[j]
               PROVE  i = j
    BY DEF IsInjective
  <2>1. i + 1 = j + 1
    BY <1>3, <1>4, <1>5
  <2> QED BY <1>1, <1>3, <2>1
<1>7. ToSet(r) = ToSet(s) \ {Head(s)}
  <2>1. \A j \in DOMAIN r : r[j] \in ToSet(s) /\ r[j] # s[1]
    BY <1>1, <1>3, <1>4, <1>5 DEF ToSet
  <2>2. ASSUME NEW i \in DOMAIN s, i # 1
        PROVE  \E j \in DOMAIN r : r[j] = s[i]
    <3>1. i - 1 \in 1 .. Len(s) - 1 /\ (i - 1) + 1 = i
      BY <1>1, <2>2
    <3> QED BY <1>3, <3>1
  <2> QED BY <1>1, <2>1, <2>2 DEF ToSet
<1> QED BY <1>1, <1>2, <1>3, <1>6, <1>7 DEF ToSet

-----------------------------------------------------------------------------
(* The bus.                                                                *)

LEMMA BusTypes ==
    ASSUME BusOK
    PROVE  /\ BusTypeOK /\ MailOK /\ WaitOK /\ NoMailWhileWaiting
           /\ \A a \in Agents : WaitersOK(a)
           /\ None \notin Messages /\ None \notin Waits /\ None \notin Sessions
           /\ \A m \in Messages : To[m] \in Agents
           /\ MailboxCap \in Nat \ {0}
  BY BusAssumption, SetsAssumption DEF BusOK, Messages

\* A wait that returned a message keeps it.
KeepsAnswers == \A w \in Waits : wait[w] = "message" => wait'[w] = "message" /\ answer'[w] = answer[w]

LEMMA TakenFrame ==
    ASSUME NEW m \in Messages, TakenOK(m), taken'[m] = taken[m], receipt'[m] = receipt[m], KeepsAnswers
    PROVE  TakenOK(m)'
<1>1. (\E w \in Waits : wait[w] = "message" /\ answer[w] = m)
         => \E w \in Waits : wait'[w] = "message" /\ answer'[w] = m
  BY DEF KeepsAnswers
<1> QED BY <1>1 DEF TakenOK

\* A message whose send has not ended is nowhere yet.
LEMMA NotYetTaken ==
    ASSUME BusOK, NEW m \in Messages, receipt[m] \in {None, "reviving"}
    PROVE  taken[m] = {} /\ \A a \in Agents : m \notin ToSet(mailbox[a])
<1>1. receipt[m] \notin Read /\ receipt[m] # "failed"
  BY DEF Read, None
<1>2. TakenOK(m)
  BY BusTypes DEF MailOK
<1>3. taken[m] = {}
  BY <1>1, <1>2 DEF TakenOK
<1> QED BY <1>1, <1>3, BusTypes DEF MailOK

\* Where the mail is that a wait accepts, as a set of messages.
LEMMA PendingEmpty ==
    ASSUME NEW a \in Agents, NEW w \in Waits
    PROVE  Pending(w, a) = {} <=> \A m \in ToSet(mailbox[a]) : ~Accepts(WaitFrom[w], m)
BY DEF Pending, ToSet

LEMMA PendingEmptyNext ==
    ASSUME NEW a \in Agents, NEW w \in Waits
    PROVE  Pending(w, a)' = {} <=> \A m \in ToSet(mailbox'[a]) : ~Accepts(WaitFrom[w], m)
BY DEF Pending, ToSet, Accepts

\* The receipt of a send.
LEMMA ReceiptStep ==
    ASSUME BusOK, NEW m \in Messages,
           NEW r \in {"reviving", "injected", "woken", "revived", "failed"},
           receipt' = [receipt EXCEPT ![m] = r]
    PROVE  /\ receipt' \in [Messages -> {None, "reviving", "injected", "woken", "revived", "failed"}]
           /\ receipt'[m] = r /\ \A x \in Messages : x # m => receipt'[x] = receipt[x]
BY BusTypes DEF BusTypeOK

LEMMA TakesStep ==
    ASSUME BusOK, NEW m \in Messages, NEW how \in {"waiter", "session", "wait", "inbox", "dropped"},
           taken' = Takes(m, how)
    PROVE  /\ taken' \in [Messages -> SUBSET {"waiter", "session", "wait", "inbox", "dropped"}]
           /\ taken'[m] = taken[m] \cup {how} /\ \A x \in Messages : x # m => taken'[x] = taken[x]
BY BusTypes DEF BusTypeOK, Takes

\* A send that changes its receipt and leaves the message out of the bus.
LEMMA ReceiptOK ==
    ASSUME BusOK, NEW m \in Messages, receipt[m] \in {None, "reviving"},
           NEW r \in {"reviving", "failed"}, receipt' = [receipt EXCEPT ![m] = r],
           UNCHANGED <<mailbox, waiters, wait, waitOf, answer, taken, owner, state>>
    PROVE  BusOK'
<1>t. BusTypeOK /\ MailOK /\ WaitOK /\ NoMailWhileWaiting /\ \A a \in Agents : WaitersOK(a)
  BY BusTypes
<1>1. /\ receipt' \in [Messages -> {None, "reviving", "injected", "woken", "revived", "failed"}]
      /\ receipt'[m] = r /\ \A x \in Messages : x # m => receipt'[x] = receipt[x]
  BY ReceiptStep
<1>2. taken[m] = {} /\ \A a \in Agents : m \notin ToSet(mailbox[a])
  BY NotYetTaken
<1>3. ASSUME NEW x \in Messages PROVE TakenOK(x)'
  <2>1. CASE x = m
    BY <1>1, <1>2, <2>1 DEF TakenOK, Read
  <2>2. CASE x # m
    BY <1>t, <1>1, <2>2, TakenFrame DEF MailOK, KeepsAnswers
  <2> QED BY <2>1, <2>2
<1>4. ASSUME NEW a \in Agents, NEW x \in ToSet(mailbox'[a])
      PROVE  To[x] = a /\ receipt'[x] = "failed" /\ taken'[x] = {}
  <2>1. x \in ToSet(mailbox[a]) /\ x \in Messages /\ x # m
    BY <1>t, <1>2 DEF BusTypeOK, ToSet
  <2> QED BY <1>t, <1>1, <2>1 DEF MailOK
<1>5. MailOK'
  BY <1>t, <1>3, <1>4 DEF MailOK
<1>6. BusTypeOK' /\ (\A a \in Agents : WaitersOK(a)') /\ WaitOK' /\ NoMailWhileWaiting'
  BY <1>t, <1>1 DEF BusTypeOK, WaitersOK, WaitOK, NoMailWhileWaiting, Pending
<1> QED BY <1>5, <1>6 DEF BusOK

\* The session takes the message.
LEMMA SessionTakesOK ==
    ASSUME BusOK, NEW m \in Messages, receipt[m] \in {None, "reviving"},
           NEW r \in Read, receipt' = [receipt EXCEPT ![m] = r], taken' = Takes(m, "session"),
           UNCHANGED <<mailbox, waiters, wait, waitOf, answer, owner, state>>
    PROVE  BusOK'
<1>t. BusTypeOK /\ MailOK /\ WaitOK /\ NoMailWhileWaiting /\ \A a \in Agents : WaitersOK(a)
  BY BusTypes
<1>1. /\ receipt' \in [Messages -> {None, "reviving", "injected", "woken", "revived", "failed"}]
      /\ receipt'[m] = r /\ \A x \in Messages : x # m => receipt'[x] = receipt[x]
  BY ReceiptStep DEF Read
<1>2. taken[m] = {} /\ \A a \in Agents : m \notin ToSet(mailbox[a])
  BY NotYetTaken
<1>3. /\ taken' \in [Messages -> SUBSET {"waiter", "session", "wait", "inbox", "dropped"}]
      /\ taken'[m] = taken[m] \cup {"session"} /\ \A x \in Messages : x # m => taken'[x] = taken[x]
  BY TakesStep
<1>4. ASSUME NEW x \in Messages PROVE TakenOK(x)'
  <2>1. CASE x = m
    BY <1>1, <1>2, <1>3, <2>1 DEF TakenOK
  <2>2. CASE x # m
    BY <1>t, <1>1, <1>3, <2>2, TakenFrame DEF MailOK, KeepsAnswers
  <2> QED BY <2>1, <2>2
<1>5. ASSUME NEW a \in Agents, NEW x \in ToSet(mailbox'[a])
      PROVE  To[x] = a /\ receipt'[x] = "failed" /\ taken'[x] = {}
  <2>1. x \in ToSet(mailbox[a]) /\ x \in Messages /\ x # m
    BY <1>t, <1>2 DEF BusTypeOK, ToSet
  <2> QED BY <1>t, <1>1, <1>3, <2>1 DEF MailOK
<1>6. MailOK'
  BY <1>t, <1>4, <1>5 DEF MailOK
<1>7. BusTypeOK' /\ (\A a \in Agents : WaitersOK(a)') /\ WaitOK' /\ NoMailWhileWaiting'
  BY <1>t, <1>1, <1>3 DEF BusTypeOK, WaitersOK, WaitOK, NoMailWhileWaiting, Pending
<1> QED BY <1>6, <1>7 DEF BusOK

\* The mailbox takes the message, and no waiter wants it.
LEMMA EnqueueOK ==
    ASSUME BusOK, NEW m \in Messages, receipt[m] \in {None, "reviving"},
           Matching(m) = {}, Enqueue(m), receipt' = [receipt EXCEPT ![m] = "failed"],
           UNCHANGED <<waiters, wait, waitOf, answer, owner, state>>
    PROVE  BusOK'
<1>t. /\ BusTypeOK /\ MailOK /\ WaitOK /\ NoMailWhileWaiting /\ \A a \in Agents : WaitersOK(a)
      /\ To[m] \in Agents /\ MailboxCap \in Nat \ {0}
  BY BusTypes
<1>1. /\ receipt' \in [Messages -> {None, "reviving", "injected", "woken", "revived", "failed"}]
      /\ receipt'[m] = "failed" /\ \A x \in Messages : x # m => receipt'[x] = receipt[x]
  BY ReceiptStep
<1>2. taken[m] = {} /\ \A a \in Agents : m \notin ToSet(mailbox[a])
  BY NotYetTaken
<1> DEFINE b == To[m]
           box == Append(mailbox[b], m)
<1>3. /\ mailbox[b] \in Seq(Messages) /\ IsInjective(mailbox[b]) /\ m \notin ToSet(mailbox[b])
      /\ Len(mailbox[b]) \in Nat /\ Len(mailbox[b]) <= MailboxCap
  BY <1>t, <1>2 DEF BusTypeOK, MailOK
<1>4. /\ box \in Seq(Messages) /\ Len(box) = Len(mailbox[b]) + 1
      /\ IsInjective(box) /\ ToSet(box) = ToSet(mailbox[b]) \cup {m}
  BY <1>3, AppendSet
<1>5. \A x \in ToSet(box) : x \in Messages /\ To[x] = b /\ receipt'[x] = "failed" /\ taken[x] = {}
  <2>1. \A x \in ToSet(mailbox[b]) : x \in Messages /\ x # m
    BY <1>3 DEF ToSet
  <2> QED BY <1>t, <1>1, <1>2, <1>4, <2>1 DEF MailOK
\* What the mailbox holds in the end, and what it has dropped.
<1>6. PICK new \in Seq(Messages), gone \in SUBSET Messages :
          /\ mailbox' = [mailbox EXCEPT ![b] = new]
          /\ IsInjective(new) /\ Len(new) <= MailboxCap
          /\ ToSet(new) = ToSet(box) \ gone /\ gone \subseteq ToSet(box)
          /\ taken' \in [Messages -> SUBSET {"waiter", "session", "wait", "inbox", "dropped"}]
          /\ \A x \in Messages : taken'[x] = IF x \in gone THEN {"dropped"} ELSE taken[x]
  <2>1. CASE Len(box) > MailboxCap
    <3>1. mailbox' = [mailbox EXCEPT ![b] = Tail(box)] /\ taken' = Takes(Head(box), "dropped")
      BY <2>1 DEF Enqueue
    <3>2. box # <<>>
      BY <1>3, <1>4
    <3> HIDE DEF box
    <3>3. /\ Head(box) \in ToSet(box) /\ Tail(box) \in Seq(Messages) /\ Len(Tail(box)) = Len(box) - 1
          /\ IsInjective(Tail(box)) /\ ToSet(Tail(box)) = ToSet(box) \ {Head(box)}
      BY <1>4, <3>2, TailSet
    <3>4. Head(box) \in Messages /\ taken[Head(box)] = {}
      BY <1>5, <3>3
    <3>5. /\ taken' \in [Messages -> SUBSET {"waiter", "session", "wait", "inbox", "dropped"}]
          /\ taken'[Head(box)] = {"dropped"} /\ \A x \in Messages : x # Head(box) => taken'[x] = taken[x]
      BY <3>1, <3>4, TakesStep
    <3>6. Len(Tail(box)) <= MailboxCap
      BY <1>3, <1>4, <3>3
    <3>7. \A x \in Messages : taken'[x] = IF x \in {Head(box)} THEN {"dropped"} ELSE taken[x]
      BY <3>5
    <3> USE <3>3, <3>4
    <3> WITNESS Tail(box) \in Seq(Messages), {Head(box)} \in SUBSET Messages
    <3> QED BY <3>1, <3>3, <3>5, <3>6, <3>7
  <2>2. CASE ~(Len(box) > MailboxCap)
    <3>1. mailbox' = [mailbox EXCEPT ![b] = box] /\ taken' = taken
      BY <2>2 DEF Enqueue
    <3>2. Len(box) <= MailboxCap
      BY <1>t, <1>3, <1>4, <2>2
    <3> HIDE DEF box
    <3> USE <1>4
    <3> WITNESS box \in Seq(Messages), {} \in SUBSET Messages
    <3> QED BY <1>t, <1>4, <3>1, <3>2 DEF BusTypeOK
  <2> QED BY <2>1, <2>2
<1> HIDE DEF box
<1>7. /\ mailbox' \in [Agents -> Seq(Messages)] /\ mailbox'[b] = new
      /\ \A a \in Agents : a # b => mailbox'[a] = mailbox[a]
  BY <1>t, <1>6 DEF BusTypeOK
<1>8. BusTypeOK'
  BY <1>t, <1>1, <1>6, <1>7 DEF BusTypeOK
<1>9. ASSUME NEW a \in Agents, NEW x \in ToSet(mailbox'[a])
      PROVE  x \in Messages /\ To[x] = a /\ receipt'[x] = "failed" /\ taken'[x] = {}
  <2>1. CASE a = b
    BY <1>5, <1>6, <1>7, <1>9, <2>1
  <2>2. CASE a # b
    <3>1. x \in ToSet(mailbox[a]) /\ x \in Messages /\ x # m
      BY <1>t, <1>2, <1>7, <1>9, <2>2 DEF BusTypeOK, ToSet
    <3>2. To[x] = a /\ receipt[x] = "failed" /\ taken[x] = {}
      BY <1>t, <3>1 DEF MailOK
    <3>3. x \notin gone
      BY <1>5, <1>6, <2>2, <3>2
    <3> QED BY <1>1, <1>6, <3>1, <3>2, <3>3
  <2> QED BY <2>1, <2>2
<1>10. ASSUME NEW x \in Messages PROVE TakenOK(x)'
  <2>1. CASE x \in gone
    <3>1. taken'[x] = {"dropped"} /\ receipt'[x] = "failed"
      BY <1>5, <1>6, <2>1
    <3> QED BY <3>1 DEF TakenOK
  <2>2. CASE x \notin gone /\ x = m
    BY <1>1, <1>2, <1>6, <2>2 DEF TakenOK, Read
  <2>3. CASE x \notin gone /\ x # m
    BY <1>t, <1>1, <1>6, <2>3, TakenFrame DEF MailOK, KeepsAnswers
  <2> QED BY <2>1, <2>2, <2>3
<1>11. \A a \in Agents : IsInjective(mailbox'[a])
  BY <1>t, <1>6, <1>7 DEF MailOK
<1>12. MailOK'
  BY <1>9, <1>10, <1>11 DEF MailOK
<1>13. ASSUME NEW a \in Agents, NEW w \in ToSet(waiters'[a]), w \in Drains
       PROVE  Pending(w, a)' = {}
  <2>1. w \in Waits /\ w \in ToSet(waiters[a])
    BY <1>t, <1>13 DEF WaitersOK
  <2>2. \A x \in ToSet(mailbox[a]) : ~Accepts(WaitFrom[w], x)
    BY <1>t, <1>13, <2>1, PendingEmpty DEF NoMailWhileWaiting
  <2>3. a = b => ~Accepts(WaitFrom[w], m)
    BY <2>1 DEF Matching, ToSet
  <2>4. \A x \in ToSet(mailbox'[a]) : ~Accepts(WaitFrom[w], x)
    BY <1>4, <1>6, <1>7, <2>2, <2>3
  <2> QED BY <2>1, <2>4, PendingEmptyNext
<1>14. NoMailWhileWaiting'
  BY <1>13 DEF NoMailWhileWaiting
<1>15. (\A a \in Agents : WaitersOK(a)') /\ WaitOK'
  BY <1>t DEF WaitersOK, WaitOK
<1> QED BY <1>8, <1>12, <1>14, <1>15 DEF BusOK

\* What a change of the waiters needs: wait w joins those of agent b, or leaves them.
LEMMA WaitersFrame ==
    ASSUME BusOK, NEW w \in Waits, NEW b \in Agents,
           NEW new \in Seq(Waits), IsInjective(new), waiters' = [waiters EXCEPT ![b] = new],
           \/ ToSet(new) = ToSet(waiters[b]) \cup {w} /\ wait'[w] = "waiting" /\ owner[waitOf'[w]] = b
           \/ ToSet(new) = ToSet(waiters[b]) \ {w} /\ wait'[w] # "waiting",
           w \in ToSet(new) \/ w \in ToSet(waiters[b]) \/ wait[w] # "waiting",
           wait[w] # "waiting" \/ owner[waitOf[w]] = b,
           \A x \in Waits : x # w => wait'[x] = wait[x] /\ waitOf'[x] = waitOf[x],
           UNCHANGED owner
    PROVE  waiters' \in [Agents -> Seq(Waits)] /\ \A a \in Agents : WaitersOK(a)'
<1>t. BusTypeOK /\ \A a \in Agents : WaitersOK(a)
  BY BusTypes
<1>1. /\ waiters' \in [Agents -> Seq(Waits)] /\ waiters'[b] = new
      /\ \A a \in Agents : a # b => waiters'[a] = waiters[a]
  BY <1>t DEF BusTypeOK
<1>2. ASSUME NEW a \in Agents PROVE WaitersOK(a)'
  <2>1. CASE a = b
    <3>1. ToSet(new) = {x \in Waits : wait'[x] = "waiting" /\ owner[waitOf'[x]] = b}
      <4>1. ToSet(waiters[b]) = {x \in Waits : wait[x] = "waiting" /\ owner[waitOf[x]] = b}
        BY <1>t DEF WaitersOK
      <4>2. ToSet(new) \subseteq Waits
        BY DEF ToSet
      <4>3. \A x \in Waits : x # w => (x \in ToSet(new) <=> x \in ToSet(waiters[b]))
        OBVIOUS
      <4>4. w \in ToSet(new) <=> wait'[w] = "waiting" /\ owner[waitOf'[w]] = b
        OBVIOUS
      <4> QED BY <4>1, <4>2, <4>3, <4>4
    <3> QED BY <1>1, <2>1, <3>1 DEF WaitersOK
  <2>2. CASE a # b
    <3>1. ToSet(waiters[a]) = {x \in Waits : wait[x] = "waiting" /\ owner[waitOf[x]] = a}
      BY <1>t DEF WaitersOK
    <3>2. \A x \in Waits : (wait[x] = "waiting" /\ owner[waitOf[x]] = a)
                           <=> (wait'[x] = "waiting" /\ owner[waitOf'[x]] = a)
      BY <2>2
    <3>3. ToSet(waiters[a]) = {x \in Waits : wait'[x] = "waiting" /\ owner[waitOf'[x]] = a}
      BY <3>1, <3>2
    <3> QED BY <1>t, <1>1, <2>2, <3>3 DEF WaitersOK
  <2> QED BY <2>1, <2>2
<1> QED BY <1>1, <1>2

\* A waiter takes the message.
LEMMA WaiterTakesOK ==
    ASSUME BusOK, NEW m \in Messages, receipt[m] \in {None, "reviving"}, Matching(m) # {},
           ResolveWaiter(m), NEW r \in Read, receipt' = [receipt EXCEPT ![m] = r],
           UNCHANGED <<mailbox, waitOf, owner, state>>
    PROVE  BusOK'
<1>t. /\ BusTypeOK /\ MailOK /\ WaitOK /\ NoMailWhileWaiting /\ \A a \in Agents : WaitersOK(a)
      /\ To[m] \in Agents
  BY BusTypes
<1> DEFINE b == To[m]
           first == Min(Matching(m))
           w == waiters[b][first]
<1>1. first \in DOMAIN waiters[b] /\ waiters[b] \in Seq(Waits) /\ IsInjective(waiters[b])
  <2>1. waiters[b] \in Seq(Waits) /\ IsInjective(waiters[b])
    BY <1>t DEF BusTypeOK, WaitersOK
  <2>2. Matching(m) \subseteq DOMAIN waiters[b] /\ Matching(m) \in SUBSET Nat
    BY <2>1 DEF Matching
  <2>3. first \in Matching(m)
    BY <2>2, MinOf
  <2> QED BY <2>1, <2>2, <2>3
<1>2. PICK new \in Seq(Waits) :
          /\ IsInjective(new) /\ ToSet(new) = ToSet(waiters[b]) \ {w}
          /\ waiters' = [waiters EXCEPT ![b] = new]
  <2>1. waiters' = [waiters EXCEPT ![b] = RemoveAt(waiters[b], first)]
    BY DEF ResolveWaiter
  <2> HIDE DEF first
  <2>2. /\ RemoveAt(waiters[b], first) \in Seq(Waits) /\ IsInjective(RemoveAt(waiters[b], first))
        /\ ToSet(RemoveAt(waiters[b], first)) = ToSet(waiters[b]) \ {w}
    BY <1>1, RemoveAtSet
  <2> QED BY <2>1, <2>2
<1>3. w \in ToSet(waiters[b]) /\ w \in Waits /\ wait[w] = "waiting" /\ owner[waitOf[w]] = b
  BY <1>t, <1>1 DEF ToSet, WaitersOK
<1>4. /\ wait' = [wait EXCEPT ![w] = "message"] /\ answer' = [answer EXCEPT ![w] = m]
      /\ taken' = Takes(m, "waiter")
  BY <1>3 DEF ResolveWaiter
<1> HIDE DEF w, first
<1>5. /\ wait' \in [Waits -> {None, "waiting", "message", "timeout", "aborted"}]
      /\ answer' \in [Waits -> Messages \cup {None}]
      /\ wait'[w] = "message" /\ answer'[w] = m
      /\ \A x \in Waits : x # w => wait'[x] = wait[x] /\ answer'[x] = answer[x]
  BY <1>t, <1>3, <1>4 DEF BusTypeOK
<1>6. waiters' \in [Agents -> Seq(Waits)] /\ \A a \in Agents : WaitersOK(a)'
  BY <1>t, <1>2, <1>3, <1>5, WaitersFrame
<1>7. /\ receipt' \in [Messages -> {None, "reviving", "injected", "woken", "revived", "failed"}]
      /\ receipt'[m] = r /\ \A x \in Messages : x # m => receipt'[x] = receipt[x]
  BY ReceiptStep DEF Read
<1>8. taken[m] = {} /\ \A a \in Agents : m \notin ToSet(mailbox[a])
  BY NotYetTaken
<1>9. /\ taken' \in [Messages -> SUBSET {"waiter", "session", "wait", "inbox", "dropped"}]
      /\ taken'[m] = taken[m] \cup {"waiter"} /\ \A x \in Messages : x # m => taken'[x] = taken[x]
  BY <1>4, TakesStep
<1>10. BusTypeOK'
  BY <1>t, <1>5, <1>6, <1>7, <1>9 DEF BusTypeOK
<1>11. KeepsAnswers
  BY <1>3, <1>5 DEF KeepsAnswers
<1>12. ASSUME NEW x \in Messages PROVE TakenOK(x)'
  <2>1. CASE x = m
    <3>1. taken'[x] = {"waiter"} /\ receipt'[x] \in Read
      BY <1>7, <1>8, <1>9, <2>1
    <3>2. \E y \in Waits : wait'[y] = "message" /\ answer'[y] = x
      BY <1>3, <1>5, <2>1
    <3> QED BY <3>1, <3>2 DEF TakenOK
  <2>2. CASE x # m
    BY <1>t, <1>7, <1>9, <1>11, <2>2, TakenFrame DEF MailOK
  <2> QED BY <2>1, <2>2
<1>13. ASSUME NEW a \in Agents, NEW x \in ToSet(mailbox'[a])
       PROVE  To[x] = a /\ receipt'[x] = "failed" /\ taken'[x] = {}
  <2>1. x \in ToSet(mailbox[a]) /\ x \in Messages /\ x # m
    BY <1>t, <1>8, <1>13 DEF BusTypeOK, ToSet
  <2> QED BY <1>t, <1>7, <1>9, <2>1 DEF MailOK
<1>14. MailOK'
  BY <1>t, <1>12, <1>13 DEF MailOK
<1>15. WaitOK'
  BY <1>t, <1>5 DEF WaitOK
<1>16. NoMailWhileWaiting'
  <2>1. \A a \in Agents : ToSet(waiters'[a]) \subseteq ToSet(waiters[a])
    BY <1>t, <1>2 DEF BusTypeOK
  <2> QED BY <1>t, <2>1 DEF NoMailWhileWaiting, Pending
<1> QED BY <1>6, <1>10, <1>14, <1>15, <1>16 DEF BusOK

LEMMA WaitStepOK ==
    ASSUME LifeInv, BusOK, NEW w \in Waits, NEW s \in Sessions, Wait(w, s)
    PROVE  BusOK'
<1>t. /\ BusTypeOK /\ MailOK /\ WaitOK /\ NoMailWhileWaiting /\ \A a \in Agents : WaitersOK(a)
      /\ LifecycleTypeOK /\ OwnOK
  BY BusTypes, LifeTypes
<1> DEFINE a == owner[s]
<1>0. /\ wait[w] = None /\ state[s] = "live" /\ waitOf' = [waitOf EXCEPT ![w] = s]
      /\ UNCHANGED <<state, owner, receipt>>
  BY DEF Wait, MayCall, lifecycle, sessions
<1>1. a \in Agents
  BY <1>t, <1>0 DEF OwnOK
<1>2. /\ waitOf' \in [Waits -> Sessions \cup {None}] /\ waitOf'[w] = s
      /\ \A x \in Waits : x # w => waitOf'[x] = waitOf[x]
  BY <1>t, <1>0 DEF BusTypeOK
<1>3. mailbox[a] \in Seq(Messages) /\ IsInjective(mailbox[a]) /\ waiters[a] \in Seq(Waits)
      /\ IsInjective(waiters[a]) /\ Len(mailbox[a]) \in Nat /\ Len(mailbox[a]) <= MailboxCap
      /\ MailboxCap \in Nat
  BY <1>t, <1>1, BusTypes DEF BusTypeOK, MailOK, WaitersOK
<1>4. wait[w] # "waiting" /\ wait[w] # "message" /\ w \notin ToSet(waiters[a])
  BY <1>t, <1>0, <1>1 DEF WaitersOK, None
<1>5. CASE w \in Drains /\ Pending(w, a) # {}
  <2> DEFINE first == Min(Pending(w, a))
             m == mailbox[a][first]
  <2>1. /\ mailbox' = [mailbox EXCEPT ![a] = RemoveAt(mailbox[a], first)]
        /\ wait' = [wait EXCEPT ![w] = "message"] /\ answer' = [answer EXCEPT ![w] = m]
        /\ taken' = Takes(m, "wait") /\ UNCHANGED waiters
    BY <1>5 DEF Wait
  <2>2. first \in DOMAIN mailbox[a]
    <3>1. Pending(w, a) \subseteq DOMAIN mailbox[a] /\ Pending(w, a) \in SUBSET Nat
      BY <1>3 DEF Pending
    <3>2. first \in Pending(w, a)
      BY <1>5, <3>1, MinOf
    <3> QED BY <3>1, <3>2
  <2> HIDE DEF first
  <2>3. PICK new \in Seq(Messages) :
            /\ IsInjective(new) /\ ToSet(new) = ToSet(mailbox[a]) \ {m} /\ Len(new) = Len(mailbox[a]) - 1
            /\ mailbox' = [mailbox EXCEPT ![a] = new]
    BY <1>3, <2>1, <2>2, RemoveAtSet
  <2>4. m \in ToSet(mailbox[a]) /\ m \in Messages
    BY <1>3, <2>2 DEF ToSet
  <2>5. To[m] = a /\ receipt[m] = "failed" /\ taken[m] = {}
    BY <1>t, <1>1, <2>4 DEF MailOK
  <2> HIDE DEF m, a
  <2>6. /\ mailbox' \in [Agents -> Seq(Messages)] /\ mailbox'[a] = new
        /\ \A b \in Agents : b # a => mailbox'[b] = mailbox[b]
        /\ \A b \in Agents : Len(mailbox'[b]) <= MailboxCap
    <3>1. /\ mailbox' \in [Agents -> Seq(Messages)] /\ mailbox'[a] = new
          /\ \A b \in Agents : b # a => mailbox'[b] = mailbox[b]
      BY <1>t, <1>1, <2>3 DEF BusTypeOK
    <3>2. Len(new) <= MailboxCap
      BY <1>3, <2>3
    <3> QED BY <1>t, <3>1, <3>2 DEF BusTypeOK
  <2>7. /\ wait' \in [Waits -> {None, "waiting", "message", "timeout", "aborted"}]
        /\ answer' \in [Waits -> Messages \cup {None}]
        /\ wait'[w] = "message" /\ \A x \in Waits : x # w => wait'[x] = wait[x] /\ answer'[x] = answer[x]
    BY <1>t, <2>1, <2>4 DEF BusTypeOK
  <2>8. /\ taken' \in [Messages -> SUBSET {"waiter", "session", "wait", "inbox", "dropped"}]
        /\ taken'[m] = taken[m] \cup {"wait"} /\ \A x \in Messages : x # m => taken'[x] = taken[x]
    BY <2>1, <2>4, TakesStep
  <2>9. BusTypeOK'
    BY <1>t, <1>0, <1>2, <2>1, <2>6, <2>7, <2>8 DEF BusTypeOK
  <2>10. ASSUME NEW b \in Agents PROVE WaitersOK(b)'
    <3>1. \A x \in Waits : (wait[x] = "waiting" /\ owner[waitOf[x]] = b)
                           <=> (wait'[x] = "waiting" /\ owner[waitOf'[x]] = b)
      BY <1>2, <1>4, <2>7
    <3>2. {x \in Waits : wait[x] = "waiting" /\ owner[waitOf[x]] = b}
            = {x \in Waits : wait'[x] = "waiting" /\ owner[waitOf'[x]] = b}
      BY <3>1
    <3>3. ToSet(waiters[b]) = {x \in Waits : wait[x] = "waiting" /\ owner[waitOf[x]] = b}
          /\ IsInjective(waiters[b])
      BY <1>t DEF WaitersOK
    <3> QED BY <1>0, <2>1, <3>2, <3>3 DEF WaitersOK
  <2>11. KeepsAnswers
    BY <1>4, <2>7 DEF KeepsAnswers
  <2>12. ASSUME NEW x \in Messages PROVE TakenOK(x)'
    <3>1. CASE x = m
      BY <1>0, <2>5, <2>8, <3>1 DEF TakenOK
    <3>2. CASE x # m
      BY <1>t, <1>0, <2>8, <2>11, <3>2, TakenFrame DEF MailOK
    <3> QED BY <3>1, <3>2
  <2>13. ASSUME NEW b \in Agents, NEW x \in ToSet(mailbox'[b])
         PROVE  x \in ToSet(mailbox[b]) /\ To[x] = b /\ receipt'[x] = "failed" /\ taken'[x] = {}
    <3>1. x \in ToSet(mailbox[b]) /\ x # m
      <4>1. CASE b = a
        BY <2>3, <2>6, <2>13, <4>1
      <4>2. CASE b # a
        <5>1. x \in ToSet(mailbox[b])
          BY <2>6, <2>13, <4>2
        <5> QED BY <1>t, <2>5, <4>2, <5>1 DEF MailOK
      <4> QED BY <4>1, <4>2
    <3>2. x \in Messages
      BY <1>t, <3>1 DEF BusTypeOK, ToSet
    <3> QED BY <1>t, <1>0, <2>8, <3>1, <3>2 DEF MailOK
  <2>14. MailOK'
    <3>1. \A b \in Agents : IsInjective(mailbox'[b])
      BY <1>t, <2>3, <2>6 DEF MailOK
    <3> QED BY <2>12, <2>13, <3>1 DEF MailOK
  <2>15. WaitOK'
    BY <1>t, <1>0, <1>2, <2>7 DEF WaitOK
  <2>16. NoMailWhileWaiting'
    <3> SUFFICES ASSUME NEW b \in Agents, NEW x \in ToSet(waiters[b]), x \in Drains
                 PROVE  Pending(x, b)' = {}
      BY <2>1 DEF NoMailWhileWaiting
    <3>1. x \in Waits
      BY <1>t DEF WaitersOK
    <3>2. \A y \in ToSet(mailbox[b]) : ~Accepts(WaitFrom[x], y)
      BY <1>t, <3>1, PendingEmpty DEF NoMailWhileWaiting
    <3> QED BY <2>13, <3>1, <3>2, PendingEmptyNext
  <2> QED BY <2>9, <2>10, <2>14, <2>15, <2>16 DEF BusOK
<1>6. CASE ~(w \in Drains /\ Pending(w, a) # {})
  <2>1. /\ waiters' = [waiters EXCEPT ![a] = Append(waiters[a], w)]
        /\ wait' = [wait EXCEPT ![w] = "waiting"] /\ UNCHANGED <<mailbox, answer, taken>>
    BY <1>6 DEF Wait
  <2>2. PICK new \in Seq(Waits) :
            /\ IsInjective(new) /\ ToSet(new) = ToSet(waiters[a]) \cup {w}
            /\ waiters' = [waiters EXCEPT ![a] = new]
    BY <1>3, <1>4, <2>1, AppendSet
  <2>3. /\ wait' \in [Waits -> {None, "waiting", "message", "timeout", "aborted"}]
        /\ wait'[w] = "waiting" /\ \A x \in Waits : x # w => wait'[x] = wait[x]
    BY <1>t, <2>1 DEF BusTypeOK
  <2>4. waiters' \in [Agents -> Seq(Waits)] /\ \A b \in Agents : WaitersOK(b)'
    BY <1>0, <1>1, <1>2, <1>4, <2>2, <2>3, WaitersFrame
  <2>5. BusTypeOK'
    BY <1>t, <1>0, <1>2, <2>1, <2>3, <2>4 DEF BusTypeOK
  <2>6. KeepsAnswers
    BY <1>4, <2>1, <2>3 DEF KeepsAnswers
  <2>7. \A x \in Messages : TakenOK(x)'
    BY <1>t, <1>0, <2>1, <2>6, TakenFrame DEF MailOK
  <2>8. MailOK'
    BY <1>t, <1>0, <2>1, <2>7 DEF MailOK
  <2>9. WaitOK'
    BY <1>t, <1>0, <1>2, <2>3 DEF WaitOK
  <2>10. NoMailWhileWaiting'
    <3> SUFFICES ASSUME NEW b \in Agents, NEW x \in ToSet(waiters'[b]), x \in Drains
                 PROVE  Pending(x, b)' = {}
      BY DEF NoMailWhileWaiting
    <3>1. Pending(x, b)' = Pending(x, b)
      BY <2>1 DEF Pending, Accepts
    <3>2. x \in ToSet(waiters[b]) \/ (x = w /\ b = a)
      BY <1>t, <2>2 DEF BusTypeOK
    <3> QED BY <1>t, <1>6, <3>1, <3>2 DEF NoMailWhileWaiting
  <2> QED BY <2>4, <2>5, <2>8, <2>9, <2>10 DEF BusOK
<1> QED BY <1>5, <1>6

LEMMA WaitEndsOK ==
    ASSUME LifeInv, BusOK, NEW w \in Waits, wait[w] = "waiting", NEW how \in {"timeout", "aborted"},
           WaitEnds(w, how)
    PROVE  BusOK'
<1>t. /\ BusTypeOK /\ MailOK /\ WaitOK /\ NoMailWhileWaiting /\ \A a \in Agents : WaitersOK(a)
      /\ LifecycleTypeOK /\ OwnOK
  BY BusTypes, LifeTypes
<1> DEFINE a == owner[waitOf[w]]
<1>0. /\ waiters' = [waiters EXCEPT ![a] = Without(waiters[a], w)] /\ wait' = [wait EXCEPT ![w] = how]
      /\ UNCHANGED <<state, owner, mailbox, receipt, waitOf, answer, taken>>
  BY DEF WaitEnds, lifecycle, sessions
<1>1. a \in Agents
  BY <1>t DEF OwnOK, WaitOK
<1>2. PICK new \in Seq(Waits) :
          /\ IsInjective(new) /\ ToSet(new) = ToSet(waiters[a]) \ {w}
          /\ waiters' = [waiters EXCEPT ![a] = new]
  <2>1. waiters[a] \in Seq(Waits) /\ IsInjective(waiters[a])
    BY <1>t, <1>1 DEF BusTypeOK, WaitersOK
  <2> QED BY <1>0, <2>1, WithoutSet
<1>3. /\ wait' \in [Waits -> {None, "waiting", "message", "timeout", "aborted"}]
      /\ wait'[w] = how /\ \A x \in Waits : x # w => wait'[x] = wait[x]
  BY <1>t, <1>0 DEF BusTypeOK
<1>4. w \in ToSet(waiters[a])
  BY <1>t, <1>1 DEF WaitersOK
<1>5. waiters' \in [Agents -> Seq(Waits)] /\ \A b \in Agents : WaitersOK(b)'
  BY <1>0, <1>1, <1>2, <1>3, <1>4, WaitersFrame
<1>6. BusTypeOK'
  BY <1>t, <1>0, <1>3, <1>5 DEF BusTypeOK
<1>7. KeepsAnswers
  BY <1>0, <1>3 DEF KeepsAnswers
<1>8. \A x \in Messages : TakenOK(x)'
  BY <1>t, <1>0, <1>7, TakenFrame DEF MailOK
<1>9. MailOK'
  BY <1>t, <1>0, <1>8 DEF MailOK
<1>10. WaitOK'
  BY <1>t, <1>0, <1>3 DEF WaitOK
<1>11. NoMailWhileWaiting'
  <2>1. \A b \in Agents : ToSet(waiters'[b]) \subseteq ToSet(waiters[b])
    BY <1>t, <1>2 DEF BusTypeOK
  <2> QED BY <1>t, <1>0, <2>1 DEF NoMailWhileWaiting, Pending
<1> QED BY <1>5, <1>6, <1>9, <1>10, <1>11 DEF BusOK

LEMMA InboxOK ==
    ASSUME BusOK, NEW a \in Agents, Inbox(a)
    PROVE  BusOK'
<1>t. BusTypeOK /\ MailOK /\ WaitOK /\ NoMailWhileWaiting /\ \A b \in Agents : WaitersOK(b)
  BY BusTypes
<1>0. /\ mailbox' = [mailbox EXCEPT ![a] = <<>>]
      /\ taken' = [m \in Messages |-> IF m \in ToSet(mailbox[a]) THEN taken[m] \cup {"inbox"} ELSE taken[m]]
      /\ UNCHANGED <<state, owner, waiters, receipt, wait, waitOf, answer>>
  BY DEF Inbox, lifecycle, sessions
<1>1. /\ mailbox' \in [Agents -> Seq(Messages)] /\ mailbox'[a] = <<>>
      /\ \A b \in Agents : b # a => mailbox'[b] = mailbox[b]
  BY <1>t, <1>0 DEF BusTypeOK
<1>2. \A m \in ToSet(mailbox[a]) : m \in Messages /\ To[m] = a /\ receipt[m] = "failed" /\ taken[m] = {}
  BY <1>t DEF BusTypeOK, MailOK, ToSet
<1>3. /\ \A m \in ToSet(mailbox[a]) : taken'[m] = {"inbox"}
      /\ \A m \in Messages : m \notin ToSet(mailbox[a]) => taken'[m] = taken[m]
      /\ taken' \in [Messages -> SUBSET {"waiter", "session", "wait", "inbox", "dropped"}]
  BY <1>t, <1>0, <1>2 DEF BusTypeOK
<1>4. \A b \in Agents : IsInjective(mailbox'[b]) /\ Len(mailbox'[b]) <= MailboxCap
                        /\ ToSet(mailbox'[b]) = IF b = a THEN {} ELSE ToSet(mailbox[b])
  <2> SUFFICES ASSUME NEW b \in Agents
               PROVE  IsInjective(mailbox'[b]) /\ Len(mailbox'[b]) <= MailboxCap
                      /\ ToSet(mailbox'[b]) = IF b = a THEN {} ELSE ToSet(mailbox[b])
    OBVIOUS
  <2>1. CASE b = a
    BY <1>1, <2>1, BusTypes DEF IsInjective, ToSet
  <2>2. CASE b # a
    BY <1>t, <1>1, <2>2 DEF MailOK, BusTypeOK
  <2> QED BY <2>1, <2>2
<1>5. BusTypeOK'
  BY <1>t, <1>0, <1>1, <1>3, <1>4 DEF BusTypeOK
<1>6. ASSUME NEW m \in Messages PROVE TakenOK(m)'
  <2>1. CASE m \in ToSet(mailbox[a])
    BY <1>0, <1>2, <1>3, <2>1 DEF TakenOK
  <2>2. CASE m \notin ToSet(mailbox[a])
    BY <1>t, <1>0, <1>3, <2>2, TakenFrame DEF MailOK, KeepsAnswers
  <2> QED BY <2>1, <2>2
<1>7. ASSUME NEW b \in Agents, NEW m \in ToSet(mailbox'[b])
      PROVE  To[m] = b /\ receipt'[m] = "failed" /\ taken'[m] = {}
  <2>1. b # a /\ m \in ToSet(mailbox[b])
    BY <1>4, <1>7
  <2>2. To[m] = b /\ receipt[m] = "failed" /\ taken[m] = {}
    BY <1>t, <2>1 DEF MailOK
  <2>3. m \in Messages
    BY <1>t, <2>1 DEF BusTypeOK, ToSet
  <2> QED BY <1>0, <1>2, <1>3, <2>1, <2>2, <2>3
<1>8. MailOK'
  BY <1>4, <1>6, <1>7 DEF MailOK
<1>9. NoMailWhileWaiting'
  <2> SUFFICES ASSUME NEW b \in Agents, NEW x \in ToSet(waiters[b]), x \in Drains
               PROVE  Pending(x, b)' = {}
    BY <1>0 DEF NoMailWhileWaiting
  <2>1. x \in Waits
    BY <1>t DEF WaitersOK
  <2>2. \A y \in ToSet(mailbox[b]) : ~Accepts(WaitFrom[x], y)
    BY <1>t, <2>1, PendingEmpty DEF NoMailWhileWaiting
  <2> QED BY <1>4, <2>1, <2>2, PendingEmptyNext
<1>10. (\A b \in Agents : WaitersOK(b)') /\ WaitOK'
  BY <1>t, <1>0 DEF WaitersOK, WaitOK
<1> QED BY <1>5, <1>8, <1>9, <1>10 DEF BusOK

\* Sessions keep their agent and are never forgotten.
Persist == \A s \in Sessions : state[s] # "free" => owner'[s] = owner[s] /\ state'[s] # "free"

LEMMA BusFrame ==
    ASSUME BusOK, UNCHANGED bus, Persist
    PROVE  BusOK'
<1>t. BusTypeOK /\ MailOK /\ WaitOK /\ NoMailWhileWaiting /\ \A a \in Agents : WaitersOK(a)
  BY BusTypes
<1>0. UNCHANGED <<mailbox, waiters, receipt, wait, waitOf, answer, taken>>
  BY DEF bus
<1>1. BusTypeOK' /\ NoMailWhileWaiting'
  BY <1>t, <1>0 DEF BusTypeOK, NoMailWhileWaiting, Pending
<1>2. MailOK'
  BY <1>t, <1>0 DEF MailOK, TakenOK
<1>3. WaitOK'
  BY <1>t, <1>0 DEF WaitOK, Persist
<1>4. ASSUME NEW a \in Agents PROVE WaitersOK(a)'
  <2>1. \A w \in Waits : (wait[w] = "waiting" /\ owner[waitOf[w]] = a)
                         <=> (wait[w] = "waiting" /\ owner'[waitOf[w]] = a)
    BY <1>t DEF WaitOK, Persist
  <2>2. {w \in Waits : wait[w] = "waiting" /\ owner[waitOf[w]] = a}
          = {w \in Waits : wait[w] = "waiting" /\ owner'[waitOf[w]] = a}
    BY <2>1
  <2> QED BY <1>t, <1>0, <2>2 DEF WaitersOK
<1> QED BY <1>1, <1>2, <1>3, <1>4 DEF BusOK

-----------------------------------------------------------------------------
(* The steps.                                                              *)

\* What a step of the lifecycle does, on its own.
Lifecycle ==
    \/ \E c \in Callers : Revival(c)
    \/ \E a \in Agents : TimerFires(a) \/ ParkEnds(a) \/ KillEnds(a) \/ Kill(a) \/ Scan(a)
    \/ \E s \in Sessions : AcceptTurn(s) \/ TurnStarts(s) \/ TurnEnds(s)

LEMMA LifecycleOK ==
    ASSUME LifeInv, Lifecycle
    PROVE  LifeInv'
BY RevivalStepOK, TimerFiresOK, ParkEndsOK, KillEndsOK, KillOK, ScanOK, TurnsOK DEF Lifecycle

\* How the state of a session changes.
LEMMA BeginDisposeOf ==
    ASSUME LifecycleTypeOK, NEW s \in Sessions, BeginDispose(s), UNCHANGED owner
    PROVE  /\ Persist
           /\ \A r \in Sessions : state[r] = "live" /\ state'[r] = "disposing" => r = s
BY DEF LifecycleTypeOK, BeginDispose, Persist

LEMMA EndDisposeOf ==
    ASSUME LifecycleTypeOK, NEW s \in Sessions, EndDispose(s), UNCHANGED owner
    PROVE  /\ Persist
           /\ \A r \in Sessions : ~(state[r] = "live" /\ state'[r] = "disposing")
BY DEF LifecycleTypeOK, EndDispose, Persist

\* Only the timer begins the disposal of a session whose agent is not killed: the attached one's.
Spared ==
    \A s \in Sessions :
        state[s] = "live" /\ state'[s] = "disposing" /\ owner[s] \notin killed'
        => turn[s] # "running"

LEMMA RevivalStates ==
    ASSUME LifeInv, NEW c \in Callers, Revival(c)
    PROVE  Persist /\ Spared
<1>t. LifecycleTypeOK
  BY LifeTypes
<1>1. CASE Creates(c)
  <2>1. PICK s \in FreeSessions : /\ state' = [state EXCEPT ![s] = "live"]
                                  /\ owner' = [owner EXCEPT ![s] = target[c]]
    <3>1. (CHOOSE s \in FreeSessions : TRUE) \in FreeSessions
      BY <1>1 DEF Creates
    <3> QED BY <1>1, <3>1 DEF Creates
  <2> QED BY <1>t, <2>1 DEF FreeSessions, LifecycleTypeOK, Persist, Spared
<1>2. CASE ~Creates(c)
  <2>1. UNCHANGED <<state, owner>>
    BY <1>2 DEF Revival, FactoryReturns, FactoryDeclines, OpenFails, Registers, CreateFails, RevivalEnds,
          ReviverFails, sessions
  <2> QED BY <2>1 DEF Persist, Spared
<1> QED BY <1>1, <1>2

LEMMA TimerFiresStates ==
    ASSUME LifeInv, NEW a \in Agents, TimerFires(a)
    PROVE  Persist /\ Spared
<1>t. LifecycleTypeOK /\ OwnOK
  BY LifeTypes
<1>0. a \in timer /\ UNCHANGED <<owner, killed>>
  BY DEF TimerFires, history
<1>1. CASE attached[a] = None
  BY <1>0, <1>1 DEF TimerFires, Persist, Spared
<1>2. CASE attached[a] # None
  <2>1. attached[a] \in Sessions /\ BeginDispose(attached[a]) /\ owner[attached[a]] = a
    BY <1>t, <1>2 DEF TimerFires, LifecycleTypeOK, OwnOK, Of
  <2>2. Persist /\ \A r \in Sessions : state[r] = "live" /\ state'[r] = "disposing" => r = attached[a]
    BY <1>t, <1>0, <2>1, BeginDisposeOf
  <2>3. ASSUME NEW s \in Sessions, state[s] = "live", state'[s] = "disposing", owner[s] \notin killed'
        PROVE  turn[s] # "running"
    <3>1. s \in Open(a) /\ a \notin killed
      BY <1>0, <2>1, <2>2, <2>3 DEF Open
    <3> QED BY <1>0, <3>1, LifeTypes DEF AgentOK
  <2> QED BY <2>2, <2>3 DEF Spared
<1> QED BY <1>1, <1>2

LEMMA KillStates ==
    ASSUME LifeInv, NEW a \in Agents, Kill(a)
    PROVE  Persist /\ Spared
<1>t. LifecycleTypeOK /\ OwnOK
  BY LifeTypes
<1>0. UNCHANGED owner /\ a \in killed'
  BY DEF Kill
<1>1. CASE attached[a] = None
  BY <1>0, <1>1 DEF Kill, Persist, Spared
<1>2. CASE attached[a] # None
  <2>1. attached[a] \in Sessions /\ BeginDispose(attached[a]) /\ owner[attached[a]] = a
    BY <1>t, <1>2 DEF Kill, LifecycleTypeOK, OwnOK, Of
  <2>2. Persist /\ \A r \in Sessions : state[r] = "live" /\ state'[r] = "disposing" => r = attached[a]
    BY <1>t, <1>0, <2>1, BeginDisposeOf
  <2> QED BY <1>0, <2>1, <2>2 DEF Spared
<1> QED BY <1>1, <1>2

LEMMA LifecycleStates ==
    ASSUME LifeInv, Lifecycle
    PROVE  Persist /\ Spared
<1>t. LifecycleTypeOK
  BY LifeTypes
<1>1. ASSUME NEW a \in Agents, ParkEnds(a) PROVE Persist /\ Spared
  <2>1. parking[a] \in Sessions /\ EndDispose(parking[a]) /\ UNCHANGED owner
    BY <1>t, <1>1 DEF ParkEnds, LifecycleTypeOK
  <2> QED BY <1>t, <2>1, EndDisposeOf DEF Spared
<1>2. ASSUME NEW a \in Agents, KillEnds(a) PROVE Persist /\ Spared
  <2>1. killing[a] \in Sessions /\ EndDispose(killing[a]) /\ UNCHANGED owner
    BY <1>t, <1>2 DEF KillEnds, LifecycleTypeOK
  <2> QED BY <1>t, <2>1, EndDisposeOf DEF Spared
<1>3. ASSUME NEW a \in Agents, Scan(a) PROVE Persist /\ Spared
  BY <1>3 DEF Scan, sessions, Persist, Spared
<1>4. ASSUME NEW s \in Sessions, AcceptTurn(s) \/ TurnStarts(s) \/ TurnEnds(s) PROVE Persist /\ Spared
  BY <1>4 DEF AcceptTurn, TurnStarts, TurnEnds, Persist, Spared
<1> QED BY <1>1, <1>2, <1>3, <1>4, RevivalStates, TimerFiresStates, KillStates DEF Lifecycle

\* What a send does once it need not wait for a revival.
LEMMA HandOverOK ==
    ASSUME Inv, NEW m \in Messages, receipt[m] \in {None, "reviving"},
           HandOver(m) \/ (Fails(m) /\ UNCHANGED <<waiters, wait, answer>>),
           UNCHANGED <<refs, manager, state, owner, calls, history, waitOf>>
    PROVE  Inv'
<1>t. LifeInv /\ BusOK /\ LifecycleTypeOK
  BY LifeTypes DEF Inv
<1> DEFINE s == attached[To[m]]
<1>1. \A delivery \in {"injected", "woken"} : Outcome(m, delivery) \in Read
  BY DEF Outcome, Read
<1>2. CASE Fails(m) /\ UNCHANGED <<waiters, wait, answer>>
  <2>1. BusOK'
    BY <1>t, <1>2, ReceiptOK DEF Fails
  <2>2. LifeInv'
    BY <1>t, <1>2, LifecycleStutters DEF Fails, lifecycle, sessions
  <2> QED BY <2>1, <2>2 DEF Inv
<1>3. CASE HandOver(m) /\ Matching(m) # {}
  <2>1. /\ ResolveWaiter(m) /\ receipt' = [receipt EXCEPT ![m] = Outcome(m, "injected")]
        /\ UNCHANGED <<mailbox, turn>>
    BY <1>3 DEF HandOver
  <2>2. BusOK'
    BY <1>t, <1>1, <1>3, <2>1, WaiterTakesOK
  <2>3. LifeInv'
    BY <1>t, <2>1, LifecycleStutters DEF lifecycle, sessions
  <2> QED BY <2>2, <2>3 DEF Inv
<1>4. CASE HandOver(m) /\ Matching(m) = {} /\ s # None
  <2>1. Deliver(m, s) /\ UNCHANGED <<waiters, wait, answer>> /\ s \in Sessions
    BY <1>t, <1>4, BusTypes DEF HandOver, LifecycleTypeOK
  <2>2. CASE state[s] = "live"
    <3>1. /\ turn' = [turn EXCEPT ![s] = IF turn[s] = None THEN "accepted" ELSE turn[s]]
          /\ receipt' = [receipt EXCEPT ![m] = Outcome(m, IF turn[s] = None THEN "woken" ELSE "injected")]
          /\ taken' = Takes(m, "session") /\ UNCHANGED mailbox
      BY <2>1, <2>2 DEF Deliver
    <3>2. Outcome(m, IF turn[s] = None THEN "woken" ELSE "injected") \in Read
      BY <1>1
    <3>3. BusOK'
      BY <1>t, <2>1, <3>1, <3>2, SessionTakesOK
    <3>4. CASE turn[s] = None
      <4>1. turn' = [turn EXCEPT ![s] = "accepted"]
        BY <3>1, <3>4
      <4>2. turns' \in 0 .. MaxTurns /\ UNCHANGED <<unheard, killed, kills>>
        BY <1>t DEF LifecycleTypeOK, history
      <4>3. LifeInv'
        BY <1>t, <2>1, <2>2, <4>1, <4>2, TurnChangeOK
      <4> QED BY <3>3, <4>3 DEF Inv
    <3>5. CASE turn[s] # None
      <4>1. turn' = turn
        BY <1>t, <2>1, <3>1, <3>5 DEF LifecycleTypeOK
      <4>2. LifeInv'
        BY <1>t, <4>1, LifecycleStutters DEF lifecycle, sessions
      <4> QED BY <3>3, <4>2 DEF Inv
    <3> QED BY <3>4, <3>5
  <2>3. CASE state[s] # "live"
    <3>1. Enqueue(m) /\ receipt' = [receipt EXCEPT ![m] = "failed"] /\ UNCHANGED turn
      BY <2>1, <2>3 DEF Deliver
    <3>2. BusOK'
      BY <1>t, <1>4, <2>1, <3>1, EnqueueOK
    <3>3. LifeInv'
      BY <1>t, <3>1, LifecycleStutters DEF lifecycle, sessions
    <3> QED BY <3>2, <3>3 DEF Inv
  <2> QED BY <2>2, <2>3
<1>5. CASE HandOver(m) /\ Matching(m) = {} /\ s = None
  <2>1. Fails(m) /\ UNCHANGED <<waiters, wait, answer>>
    BY <1>5 DEF HandOver
  <2> QED BY <1>2, <2>1
<1> QED BY <1>2, <1>3, <1>4, <1>5

LEMMA LifecycleStepOK ==
    ASSUME Inv, Lifecycle, UNCHANGED bus
    PROVE  Inv'
BY LifecycleOK, LifecycleStates, BusFrame DEF Inv

\* A call on the bus.
Calling ==
    \/ \E m \in Messages : Send(m) \/ SendRevives(m) \/ SendGoesOn(m)
    \/ \E w \in Waits, s \in Sessions : Wait(w, s)
    \/ \E w \in Waits : TimesOut(w) \/ Aborts(w)
    \/ \E a \in Agents : Inbox(a)

LEMMA CallingOK ==
    ASSUME Inv, Calling
    PROVE  Inv'
<1>t. LifeInv /\ BusOK
  BY DEF Inv
<1>1. ASSUME NEW m \in Messages, Send(m) PROVE Inv'
  BY <1>1, HandOverOK DEF Send
<1>2. ASSUME NEW m \in Messages, SendRevives(m) PROVE Inv'
  <2>1. LifeInv'
    BY <1>t, <1>2, EnsureLiveOK, BusTypes DEF SendRevives, Messages
  <2>2. UNCHANGED <<state, owner>>
    BY <1>2 DEF SendRevives, EnsureLive, sessions
  <2>3. BusOK'
    BY <1>t, <1>2, <2>2, ReceiptOK DEF SendRevives
  <2> QED BY <2>1, <2>3 DEF Inv
<1>3. ASSUME NEW m \in Messages, SendGoesOn(m) PROVE Inv'
  BY <1>3, HandOverOK DEF SendGoesOn, Continues
<1>4. ASSUME NEW w \in Waits, NEW s \in Sessions, Wait(w, s) PROVE Inv'
  BY <1>t, <1>4, WaitStepOK, LifecycleStutters DEF Wait, Inv
<1>5. ASSUME NEW w \in Waits, TimesOut(w) \/ Aborts(w) PROVE Inv'
  BY <1>t, <1>5, WaitEndsOK, LifecycleStutters DEF TimesOut, Aborts, WaitEnds, Inv
<1>6. ASSUME NEW a \in Agents, Inbox(a) PROVE Inv'
  BY <1>t, <1>6, InboxOK, LifecycleStutters DEF Inbox, Inv
<1> QED BY <1>1, <1>2, <1>3, <1>4, <1>5, <1>6 DEF Calling

\* Every step is one of the two.
LEMMA Steps ==
    ASSUME Next
    PROVE  (Lifecycle /\ UNCHANGED bus) \/ Calling
<1>1. ASSUME NEW a \in Agents, Expires(a) \/ Disposed(a) PROVE Lifecycle /\ UNCHANGED bus
  BY <1>1 DEF Expires, Disposed, Lifecycle
<1>2. ASSUME NEW s \in Sessions, Turns(s) PROVE Lifecycle /\ UNCHANGED bus
  BY <1>2 DEF Turns, Lifecycle
<1>3. ASSUME NEW m \in Messages, Revives(m) PROVE Lifecycle /\ UNCHANGED bus
  BY <1>3 DEF Revives, Lifecycle, Messages
<1>4. ASSUME NEW m \in Messages, SendGoesOn(m) PROVE Calling
  BY <1>4 DEF Calling
<1>5. ASSUME NEW w \in Waits, Quiet /\ TimesOut(w) PROVE Calling
  BY <1>5 DEF Calling
<1>6. ASSUME Orders PROVE Lifecycle /\ UNCHANGED bus
  BY <1>6 DEF Orders, Lifecycle
<1>7. ASSUME Calls PROVE Calling
  BY <1>7 DEF Calls, Calling
<1> QED BY <1>1, <1>2, <1>3, <1>4, <1>5, <1>6, <1>7 DEF Next

LEMMA StepKeepsInv == Inv /\ [Next]_vars => Inv'
<1> SUFFICES ASSUME Inv, [Next]_vars
             PROVE  Inv'
  OBVIOUS
<1>1. CASE Next
  BY <1>1, Steps, LifecycleStepOK, CallingOK
<1>2. CASE UNCHANGED vars
  <2>1. UNCHANGED lifecycle /\ UNCHANGED bus
    BY <1>2 DEF vars
  <2>2. LifeInv'
    BY <2>1, LifecycleStutters DEF Inv
  <2>3. Persist
    BY <2>1 DEF Persist, lifecycle, sessions
  <2> QED BY <2>1, <2>2, <2>3, BusFrame DEF Inv
<1> QED BY <1>1, <1>2

LEMMA InitInv == Init => Inv
<1> SUFFICES ASSUME Init PROVE Inv
  OBVIOUS
<1>0. LifecycleInit /\ None \notin Agents /\ None \notin Sessions /\ None \notin Callers
  BY SetsAssumption DEF Init
<1>1. LifecycleTypeOK
  BY <1>0, BoundsAssumption DEF LifecycleInit, LifecycleTypeOK, None
<1>2. RevivalOK
  BY <1>0 DEF LifecycleInit, RevivalOK, None
<1>3. OwnOK
  BY <1>0 DEF LifecycleInit, OwnOK
<1>4. ASSUME NEW a \in Agents PROVE AgentOK(a)
  <2>1. \A s \in Open(a) : FALSE
    BY <1>0 DEF LifecycleInit, Open
  <2>2. status[a] = "parked" /\ attached[a] = None /\ parking[a] = None /\ \A c \in Callers : revival[c] = None
    BY <1>0 DEF LifecycleInit
  <2> QED BY <2>1, <2>2 DEF AgentOK, None
<1>5. LifeInv
  BY <1>1, <1>2, <1>3, <1>4 DEF LifeInv
<1>6. /\ mailbox = [a \in Agents |-> <<>>] /\ waiters = [a \in Agents |-> <<>>]
      /\ receipt = [m \in Messages |-> None] /\ taken = [m \in Messages |-> {}]
      /\ wait = [w \in Waits |-> None] /\ waitOf = [w \in Waits |-> None]
      /\ answer = [w \in Waits |-> None]
  BY DEF Init
<1>7. BusTypeOK
  BY <1>6, BusAssumption DEF BusTypeOK
<1>8. ASSUME NEW a \in Agents PROVE WaitersOK(a)
  <2>1. waiters[a] = <<>> /\ {w \in Waits : wait[w] = "waiting" /\ owner[waitOf[w]] = a} = {}
    BY <1>6 DEF None
  <2> QED BY <2>1 DEF WaitersOK, ToSet, IsInjective
<1>9. MailOK
  BY <1>6 DEF MailOK, TakenOK, ToSet, IsInjective, Read, None
<1>10. WaitOK
  BY <1>6 DEF WaitOK, None
<1>11. NoMailWhileWaiting
  BY <1>6 DEF NoMailWhileWaiting, ToSet
<1> QED BY <1>5, <1>7, <1>8, <1>9, <1>10, <1>11 DEF Inv, BusOK

LEMMA InvAlways == Spec => []Inv
BY InitInv, StepKeepsInv, PTL DEF Spec

-----------------------------------------------------------------------------
(* What follows.                                                           *)

LEMMA InvType == Inv => TypeOK
<1> SUFFICES ASSUME Inv PROVE TypeOK
  OBVIOUS
<1>1. BusTypeOK /\ LifecycleTypeOK /\ \A a \in Agents : WaitersOK(a)
  BY LifeTypes, BusTypes DEF Inv
<1> QED BY <1>1 DEF TypeOK, BusTypeOK, WaitersOK

LEMMA InvTaken == Inv => TakenOnce
<1> SUFFICES ASSUME Inv, NEW m \in Messages
             PROVE  Cardinality(taken[m]) + (IF m \in ToSet(mailbox[To[m]]) THEN 1 ELSE 0) <= 1
  BY DEF TakenOnce
<1>1. TakenOK(m) /\ MailOK /\ To[m] \in Agents
  BY BusTypes DEF Inv, MailOK
<1>2. CASE taken[m] = {}
  <2>1. Cardinality(taken[m]) = 0
    BY <1>2, FS_EmptySet
  <2> QED BY <2>1
<1>3. CASE taken[m] # {}
  <2>1. PICK how : taken[m] = {how}
    BY <1>1, <1>3 DEF TakenOK
  <2>2. Cardinality(taken[m]) = 1
    BY <2>1, FS_Singleton
  <2>3. m \notin ToSet(mailbox[To[m]])
    BY <1>1, <1>3 DEF MailOK
  <2> QED BY <2>2, <2>3
<1> QED BY <1>2, <1>3

LEMMA InvReceipt == Inv => ReceiptIsTrue
<1> SUFFICES ASSUME Inv, NEW m \in Messages
             PROVE  /\ receipt[m] \in Read
                        <=> \/ "session" \in taken[m]
                            \/ "waiter" \in taken[m] /\ \E w \in Waits : wait[w] = "message" /\ answer[w] = m
                    /\ taken[m] \cap {"wait", "inbox", "dropped"} # {} => receipt[m] = "failed"
  BY DEF ReceiptIsTrue, Read
<1>1. TakenOK(m)
  BY BusTypes DEF Inv, MailOK
<1>2. "failed" \notin Read
  BY DEF Read
<1> QED BY <1>1, <1>2 DEF TakenOK

LEMMA InvOneSession == Inv => OneKnownSession
<1> SUFFICES ASSUME Inv PROVE SingleWriter /\ LiveIsReachable
  BY DEF OneKnownSession
<1>t. LifeInv /\ OwnOK /\ LifecycleTypeOK
  BY LifeTypes DEF Inv
<1>1. ASSUME NEW a \in Agents \ killed PROVE Cardinality(Open(a)) <= 1
  <2>1. Open(a) \subseteq {attached[a]}
    BY <1>t, LifeTypes DEF AgentOK
  <2>2. IsFiniteSet({attached[a]}) /\ Cardinality({attached[a]}) = 1
    BY FS_Singleton
  <2>3. Cardinality(Open(a)) <= Cardinality({attached[a]})
    BY <2>1, <2>2, FS_Subset
  <2> QED BY <2>2, <2>3
<1>2. ASSUME NEW s \in Sessions, state[s] = "live", owner[s] \notin killed
      PROVE  attached[owner[s]] = s
  <2>1. owner[s] \in Agents \ killed /\ s \in Open(owner[s])
    BY <1>t, <1>2 DEF OwnOK, Open
  <2> QED BY <1>t, <2>1, LifeTypes DEF AgentOK
<1> QED BY <1>1, <1>2 DEF SingleWriter, LiveIsReachable

\* Of the bus: a message ends in one place, its sender is told where, and the waiters of
\* an agent are the waits that are under way, however sends, waits, revivals, disposals and
\* kills interleave.
THEOREM AccountedAlways == Spec => []Accounted
<1>1. Inv => Accounted
  BY InvType, InvTaken, InvReceipt DEF Accounted
<1> QED BY <1>1, InvAlways, PTL

\* Of the bus: no wait hangs on while a message it accepts lies in the mailbox it drains.
THEOREM NoMailWhileWaitingAlways == Spec => []NoMailWhileWaiting
<1>1. Inv => NoMailWhileWaiting
  BY DEF Inv, BusOK
<1> QED BY <1>1, InvAlways, PTL

\* Of the lifecycle: an agent nobody kills has one open session at most, and a live one is
\* the one its ref names; the revivals that share a transcript never open it twice.
THEOREM OneKnownSessionAlways == Spec => []OneKnownSession
BY InvOneSession, InvAlways, PTL

\* Of the lifecycle: the timer disposes of no session in a turn the registry was told of.
THEOREM TimerSparesTurnsAlways == Spec => TimerSparesTurns
<1>1. Inv /\ [Next]_vars => [Spared]_lifecycle
  <2> SUFFICES ASSUME Inv, [Next]_vars PROVE [Spared]_lifecycle
    OBVIOUS
  <2>t. LifeInv /\ LifecycleTypeOK
    BY LifeTypes DEF Inv
  <2>1. CASE Lifecycle
    BY <2>t, <2>1, LifecycleStates
  <2>2. CASE Calling
    <3>1. UNCHANGED state
      BY <2>2 DEF Calling, Send, SendRevives, SendGoesOn, EnsureLive, Wait, TimesOut, Aborts, WaitEnds, Inbox,
         lifecycle, sessions
    <3> QED BY <3>1 DEF Spared
  <2>3. CASE UNCHANGED vars
    BY <2>3 DEF vars
  <2> QED BY <2>1, <2>2, <2>3, Steps
<1> QED BY <1>1, InvAlways, PTL DEF Spec, TimerSparesTurns, Spared
=============================================================================
