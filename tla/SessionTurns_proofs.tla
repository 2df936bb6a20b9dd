-------------------------- MODULE SessionTurns_proofs --------------------------
(***************************************************************************)
(* Proofs about SessionTurns for every number of messages, prompts and     *)
(* aborts, and for every value of the scheduler's caps.                    *)
(*                                                                         *)
(* A step of the model is built from pieces (a frame ends, a drain starts, *)
(* a wake is admitted or denied).  The parts of the invariant are stated   *)
(* of given frames, messages and counts, so that each piece has a lemma    *)
(* that takes them from the state the step has left to the next state.     *)
(***************************************************************************)
EXTENDS SessionTurns, FiniteSetTheorems, TLAPS

-----------------------------------------------------------------------------
(* The invariant.                                                          *)

FrameType ==
    [kind : {None, "prompt", "wake", "drain"},
     at : {"none", "checked", "setup", "waiting", "restoring",
           "running", "recovering", "settling", "ended"},
     stale : BOOLEAN, parked : SUBSET Msgs, fromSteer : BOOLEAN]

\* The frames fr, of which n have begun and r is the one whose run the loop is in: only
\* a wake that has not put them back holds follow-ups, and no two hold the same.
FramesOK(fr, n, r) ==
    /\ fr \in [Frames -> FrameType]
    /\ \A f \in Frames : f <= n <=> fr[f].at # "none"
    /\ r \in {0} \cup {f \in Frames : fr[f].at = "running"}
    /\ \A f \in Frames :
          fr[f].parked # {} => fr[f].kind = "wake" /\ fr[f].at \in {"running", "settling"}
    /\ \A f, g \in Frames : f # g => fr[f].parked \cap fr[g].parked = {}

Held(fr) == UNION {fr[f].parked : f \in Frames}

\* Of the s messages sent, each is in one place.
Spread(fr, ar, st, fu, as, cx, dn, s) ==
    /\ ar \cup st \cup fu \cup as \cup Held(fr) \cup cx \cup dn = 1 .. s
    /\ \A m \in 1 .. s :
          /\ m \in ar => m \notin st \cup fu \cup as \cup Held(fr) \cup cx \cup dn
          /\ m \in st => m \notin fu \cup as \cup Held(fr) \cup cx \cup dn
          /\ m \in fu => m \notin as \cup Held(fr) \cup cx \cup dn
          /\ m \in as => m \notin Held(fr) \cup cx \cup dn
          /\ m \in Held(fr) => m \notin cx \cup dn
          /\ m \in cx => m \notin dn

\* The frames that #promptInFlightCount may still count.
Counted(fr) == {f \in Frames : fr[f].at \notin {"none", "ended", "checked"}}
Busy(fr, count) == count \in 0 .. Cardinality(Counted(fr))

CountersOK ==
    /\ sent \in 0 .. NumMsgs /\ begun = prompts + drains + wakes
    /\ drains \in 0 .. DrainCap /\ wakes \in 0 .. WakeCap /\ wakesInRow \in 0 .. WakeRowCap
    /\ refused \subseteq Msgs /\ prompts \in 0 .. MaxPrompts

RestOK ==
    /\ loop \in {"poll", "tail"} /\ history \in {None, "reply", "record"}
    /\ suppressed \in BOOLEAN /\ held \subseteq Msgs /\ aborting \in BOOLEAN
    /\ abort \in [Aborts -> {None, "tasks", "idle", "done"}]
    /\ awaits \in [Aborts -> SUBSET Frames]

SpreadNow == Spread(frame, arriving, steers, followUps, asides, context, denied, sent)

Inv ==
    /\ FramesOK(frame, begun, runner) /\ SpreadNow /\ Busy(frame, inFlight)
    /\ CountersOK /\ RestOK

-----------------------------------------------------------------------------
(* Lemmas about frames, counts and messages.                               *)

LEMMA FramesFinite ==
  ASSUME NEW fr
  PROVE  /\ IsFiniteSet(Frames) /\ IsFiniteSet(Counted(fr))
         /\ Cardinality(Counted(fr)) \in 0 .. Cardinality(Frames)
<1>1. MaxPrompts + DrainCap + WakeCap \in Nat
  BY CapsAssumption
<1>2. IsFiniteSet(Frames)
  BY <1>1, FS_Interval DEF Frames
<1>3. Counted(fr) \in SUBSET Frames
  BY DEF Counted
<1> QED
  BY <1>2, <1>3, FS_Subset, FS_CardinalityType

\* A frame that joins or leaves the counted ones changes their number by one.
LEMMA CountedJoins ==
  ASSUME NEW fr, NEW fr2, NEW f \in Frames, f \notin Counted(fr),
         Counted(fr2) = Counted(fr) \cup {f}
  PROVE  Cardinality(Counted(fr2)) = Cardinality(Counted(fr)) + 1
BY FramesFinite, FS_AddElement

LEMMA CountedLeaves ==
  ASSUME NEW fr, NEW fr2, NEW f \in Counted(fr),
         Counted(fr2) = Counted(fr) \ {f}
  PROVE  Cardinality(Counted(fr2)) = Cardinality(Counted(fr)) - 1
BY FramesFinite, FS_RemoveElement

\* A step that only moves frames between points keeps what they hold.
LEMMA HeldSame ==
  ASSUME NEW fr, NEW fr2, \A f \in Frames : fr2[f].parked = fr[f].parked
  PROVE  Held(fr2) = Held(fr)
BY DEF Held

\* The message that is sent next is in no place yet; the frame that begins next is none.
LEMMA NewFrame ==
  ASSUME NEW fr, FramesOK(fr, begun, runner), CountersOK,
         drains < DrainCap \/ wakes < WakeCap \/ prompts < MaxPrompts
  PROVE  New \in Frames /\ fr[New] \in FrameType /\ fr[New].at = "none" /\ fr[New].parked = {}
<1>1. New \in Frames
  BY CapsAssumption DEF New, Frames, CountersOK
<1>2. fr[New].at = "none"
  BY <1>1, CapsAssumption DEF FramesOK, New, CountersOK
<1> QED
  BY <1>1, <1>2 DEF FramesOK

\* EndInFlight without what follows: the frame f ends and what it held is among the
\* follow-ups fu.
LEMMA FrameEnds ==
  ASSUME Inv, NEW f \in Frames, NEW fr, NEW fu, NEW c,
         frame[f].at \in {"setup", "waiting", "restoring", "recovering", "settling"},
         fr = [frame EXCEPT ![f] = Ended],
         fu = frame[f].parked \cup followUps,
         c = IF inFlight = 0 THEN 0 ELSE inFlight - 1
  PROVE  /\ FramesOK(fr, begun, runner) /\ Busy(fr, c)
         /\ Spread(fr, arriving, steers, fu, asides, context, denied, sent)
<1> DEFINE e == Ended
<1>1. FramesOK(frame, begun, runner)
  BY DEF Inv
<1>2. frame[f] \in FrameType /\ e \in FrameType /\ e.at = "ended" /\ e.parked = {}
  BY <1>1 DEF FramesOK, Ended, Absent, Frame, FrameType, None
<1>3. fr \in [Frames -> FrameType] /\ fr[f] = e /\ \A g \in Frames : g # f => fr[g] = frame[g]
  BY <1>1, <1>2 DEF FramesOK
<1> HIDE DEF e
<1>4. FramesOK(fr, begun, runner)
  <2>1. \A g \in Frames : g <= begun <=> fr[g].at # "none"
    BY <1>1, <1>2, <1>3 DEF FramesOK
  <2>2. runner \in {0} \cup {g \in Frames : fr[g].at = "running"}
    BY <1>1, <1>3 DEF FramesOK
  <2>3. \A g \in Frames :
          fr[g].parked # {} => fr[g].kind = "wake" /\ fr[g].at \in {"running", "settling"}
    BY <1>1, <1>2, <1>3 DEF FramesOK
  <2>4. \A g, h \in Frames : g # h => fr[g].parked \cap fr[h].parked = {}
    BY <1>1, <1>2, <1>3 DEF FramesOK
  <2> QED
    BY <1>3, <2>1, <2>2, <2>3, <2>4 DEF FramesOK
<1>5. Busy(fr, c)
  <2>1. f \in Counted(frame) /\ Counted(fr) = Counted(frame) \ {f}
    BY <1>2, <1>3 DEF Counted
  <2>2. Cardinality(Counted(fr)) = Cardinality(Counted(frame)) - 1
    BY <2>1, CountedLeaves
  <2>3. Cardinality(Counted(fr)) \in Nat /\ Cardinality(Counted(frame)) \in Nat
    BY FramesFinite, FS_CardinalityType
  <2> QED
    BY <2>2, <2>3 DEF Inv, Busy
<1>6. Spread(fr, arriving, steers, fu, asides, context, denied, sent)
  <2>1. Held(frame) = Held(fr) \cup frame[f].parked /\ Held(fr) \cap frame[f].parked = {}
    BY <1>1, <1>2, <1>3 DEF Held, FramesOK
  <2> QED
    BY <2>1 DEF Inv, SpreadNow, Spread
<1> QED
  BY <1>4, <1>5, <1>6

-----------------------------------------------------------------------------
(* Lemmas about the pieces of a step.                                      *)

\* A frame that begins.  It may hold follow-ups taken from fu, and the loop be in its run.
LEMMA FrameBegins ==
  ASSUME CountersOK, NEW fr, NEW count, NEW x \in FrameType,
         FramesOK(fr, begun, runner), Busy(fr, count),
         drains < DrainCap \/ wakes < WakeCap \/ prompts < MaxPrompts,
         x.at # "none",
         x.parked # {} => x.kind = "wake" /\ x.at = "running",
         x.parked \cap Held(fr) = {},
         frame' = [fr EXCEPT ![New] = x], begun' = New,
         runner' = runner \/ (runner' = New /\ x.at = "running"),
         inFlight' = IF x.at \in {"ended", "checked"} THEN count ELSE count + 1
  PROVE  /\ FramesOK(frame', begun', runner') /\ Busy(frame', inFlight')
         /\ Held(frame') = Held(fr) \cup x.parked
<1>1. New \in Frames /\ fr[New].at = "none" /\ fr[New].parked = {}
  BY NewFrame
<1>2. frame' \in [Frames -> FrameType] /\ frame'[New] = x /\ \A g \in Frames : g # New => frame'[g] = fr[g]
  BY <1>1 DEF FramesOK
<1>3. begun \in Nat /\ New = begun + 1 /\ Frames \subseteq Nat
  BY CapsAssumption DEF CountersOK, New, Frames
<1> HIDE DEF New
<1>4. FramesOK(frame', begun', runner')
  <2>1. \A g \in Frames : g <= New <=> frame'[g].at # "none"
    BY <1>1, <1>2, <1>3 DEF FramesOK
  <2>2. runner' \in {0} \cup {g \in Frames : frame'[g].at = "running"}
    BY <1>1, <1>2 DEF FramesOK
  <2>3. \A g \in Frames :
          frame'[g].parked # {} => frame'[g].kind = "wake" /\ frame'[g].at \in {"running", "settling"}
    BY <1>1, <1>2 DEF FramesOK
  <2>4. \A g \in Frames : g # New => x.parked \cap fr[g].parked = {}
    BY DEF Held
  <2>5. \A g, h \in Frames : g # h => frame'[g].parked \cap frame'[h].parked = {}
    BY <1>2, <2>4 DEF FramesOK
  <2> QED
    BY <1>2, <2>1, <2>2, <2>3, <2>5 DEF FramesOK
<1>5. Busy(frame', inFlight')
  <2>0. Cardinality(Counted(fr)) \in Nat /\ Cardinality(Counted(frame')) \in Nat
    BY FramesFinite, FS_CardinalityType
  <2>1. CASE x.at \in {"ended", "checked"}
    <3>1. Counted(frame') = Counted(fr)
      BY <1>1, <1>2, <2>1 DEF Counted
    <3> QED
      BY <2>1, <3>1 DEF Busy
  <2>2. CASE x.at \notin {"ended", "checked"}
    <3>1. New \notin Counted(fr) /\ Counted(frame') = Counted(fr) \cup {New}
      BY <1>1, <1>2, <2>2 DEF Counted
    <3>2. Cardinality(Counted(frame')) = Cardinality(Counted(fr)) + 1
      BY <1>1, <3>1, CountedJoins
    <3> QED
      BY <2>0, <2>2, <3>2 DEF Busy
  <2> QED
    BY <2>1, <2>2
<1>6. Held(frame') = Held(fr) \cup x.parked
  BY <1>1, <1>2 DEF Held
<1> QED
  BY <1>4, <1>5, <1>6

\* What a piece of a step promises of the next state.
Kept ==
    /\ FramesOK(frame', begun', runner') /\ Busy(frame', inFlight')
    /\ Spread(frame', arriving', steers', followUps', asides', context', denied', sent')
    /\ begun' = prompts + drains' + wakes'
    /\ drains' \in 0 .. DrainCap /\ wakes' \in 0 .. WakeCap /\ wakesInRow' \in 0 .. WakeRowCap
    /\ refused' \subseteq Msgs
    /\ loop' \in {"poll", "tail"}

LEMMA DrainKept ==
  ASSUME CountersOK, RestOK, NEW fr, NEW count, NEW fu, NEW queued \in SUBSET Msgs,
         FramesOK(fr, begun, runner), Busy(fr, count),
         Spread(fr, arriving', steers', fu, asides, context, denied, sent'),
         Drain(fr, count, queued), followUps' = fu,
         UNCHANGED <<runner, loop, asides, context, denied, wakes, wakesInRow>>
  PROVE  Kept
<1>1. CASE drains < DrainCap
  <2> DEFINE x == Frame("drain", "restoring", {}, FALSE)
  <2>1. x \in FrameType /\ x.at = "restoring" /\ x.parked = {}
    BY DEF Frame, FrameType
  <2>2. frame' = [fr EXCEPT ![New] = x] /\ begun' = New /\ inFlight' = count + 1
        /\ drains' = drains + 1 /\ refused' = refused
    BY <1>1 DEF Drain, AdmitDrain
  <2> HIDE DEF x
  <2>3. FramesOK(frame', begun', runner') /\ Busy(frame', inFlight') /\ Held(frame') = Held(fr)
    <3>1. x.parked \cap Held(fr) = {} /\ runner' = runner
      BY <2>1
    <3> QED
      BY <1>1, <2>1, <2>2, <3>1, FrameBegins
  <2>4. /\ begun' = prompts + drains' + wakes'
        /\ drains' \in 0 .. DrainCap /\ wakes' \in 0 .. WakeCap /\ wakesInRow' \in 0 .. WakeRowCap
        /\ refused' \subseteq Msgs
    BY <1>1, <2>2, CapsAssumption DEF CountersOK, New
  <2> QED
    BY <2>3, <2>4 DEF Kept, Spread, RestOK
<1>2. CASE ~(drains < DrainCap)
  <2>1. frame' = fr /\ inFlight' = count /\ refused' = refused \cup queued /\ UNCHANGED <<begun, drains>>
    BY <1>2 DEF Drain, AdmitDrain
  <2> QED
    BY <2>1 DEF Kept, CountersOK, RestOK
<1> QED
  BY <1>1, <1>2

\* The records of the wake have left the asides.
LEMMA WakeKept ==
  ASSUME CountersOK, RestOK, NEW fr, NEW count, NEW fu, NEW records,
         FramesOK(fr, begun, runner), Busy(fr, count),
         Spread(fr, arriving', steers', fu, records \cup asides', context, denied, sent'),
         records \cap asides' = {}, fu \subseteq Msgs,
         Wake(records, fr, count, fu), UNCHANGED <<drains, refused>>
  PROVE  Kept
<1> DEFINE parked == Blocked(count, fu)
           x == Frame("wake", "running", parked, steers # {})
<1>0. parked \subseteq fu /\ parked \subseteq Msgs
  BY DEF Blocked
<1>1. CASE wakes < WakeCap /\ wakesInRow < WakeRowCap
  <2>1. x \in FrameType /\ x.at = "running" /\ x.parked = parked /\ x.kind = "wake"
    <3> HIDE DEF parked
    <3> QED
      BY <1>0 DEF Frame, FrameType
  <2>2. /\ frame' = [fr EXCEPT ![New] = x] /\ begun' = New /\ inFlight' = count + 1
        /\ followUps' = fu \ parked /\ runner' = New /\ loop' = "poll"
        /\ context' = context \cup records /\ denied' = denied
        /\ wakes' = wakes + 1 /\ wakesInRow' = wakesInRow + 1
    BY <1>1 DEF Wake
  <2> HIDE DEF x, parked
  <2>3. parked \cap Held(fr) = {}
    BY <1>0 DEF Spread
  <2>4. /\ FramesOK(frame', begun', runner') /\ Busy(frame', inFlight')
        /\ Held(frame') = Held(fr) \cup parked
    BY <1>1, <2>1, <2>2, <2>3, FrameBegins
  <2>5. /\ begun' = prompts + drains' + wakes'
        /\ drains' \in 0 .. DrainCap /\ wakes' \in 0 .. WakeCap /\ wakesInRow' \in 0 .. WakeRowCap
        /\ refused' \subseteq Msgs
    BY <1>1, <2>2, CapsAssumption DEF CountersOK, New
  <2>6. Spread(frame', arriving', steers', followUps', asides', context', denied', sent')
    BY <1>0, <2>2, <2>4 DEF Spread
  <2> QED
    BY <2>2, <2>4, <2>5, <2>6 DEF Kept
<1>2. CASE ~(wakes < WakeCap /\ wakesInRow < WakeRowCap)
  <2>1. /\ denied' = denied \cup records /\ frame' = fr /\ inFlight' = count /\ followUps' = fu
        /\ UNCHANGED <<begun, runner, loop, context, wakes, wakesInRow>>
    BY <1>2 DEF Wake
  <2>2. Spread(frame', arriving', steers', followUps', asides', context', denied', sent')
    BY <2>1 DEF Spread
  <2> QED
    BY <2>1, <2>2 DEF Kept, CountersOK, RestOK
<1> QED
  BY <1>1, <1>2

LEMMA ResumeKept ==
  ASSUME CountersOK, RestOK, NEW a, NEW fr, NEW count, NEW fu,
         FramesOK(fr, begun, runner), Busy(fr, count),
         Spread(fr, arriving, steers, fu, asides, context, denied, sent), fu \subseteq Msgs,
         ResumeStranded(a, fr, count, fu), UNCHANGED <<arriving, steers, sent>>
  PROVE  Kept
<1>1. CASE a \/ IsStreaming(count)
  BY <1>1 DEF ResumeStranded, Idles, Kept, CountersOK, RestOK, counters
<1>2. CASE ~(a \/ IsStreaming(count)) /\ Resumable(count, fu)
  <2>1. /\ Drain(fr, count, steers \cup fu \cup asides) /\ followUps' = fu
        /\ UNCHANGED <<runner, loop, asides, context, denied, wakes, wakesInRow>>
    BY <1>2 DEF ResumeStranded
  <2>2. steers \cup fu \cup asides \subseteq Msgs
    BY CapsAssumption DEF Spread, CountersOK, Msgs
  <2> QED
    BY <2>1, <2>2, DrainKept
<1>3. CASE ~(a \/ IsStreaming(count)) /\ ~Resumable(count, fu) /\ asides # {}
  <2>1. asides' = {} /\ Wake(asides, fr, count, fu) /\ UNCHANGED <<drains, refused>>
    BY <1>3 DEF ResumeStranded
  <2>2. Spread(fr, arriving', steers', fu, asides \cup asides', context, denied, sent')
        /\ asides \cap asides' = {}
    BY <2>1 DEF Spread
  <2> QED
    BY <2>1, <2>2, WakeKept
<1>4. CASE ~(a \/ IsStreaming(count)) /\ ~Resumable(count, fu) /\ asides = {}
  BY <1>4 DEF ResumeStranded, Idles, Kept, CountersOK, RestOK, counters
<1> QED
  BY <1>1, <1>2, <1>3, <1>4

\* The last step of a frame, wherever it ends.
LEMMA EndKept ==
  ASSUME Inv, NEW f \in Frames, NEW fu,
         frame[f].at \in {"setup", "waiting", "restoring", "recovering", "settling"},
         fu = frame[f].parked \cup followUps,
         EndInFlight(f, fu), UNCHANGED <<arriving, steers, sent>>
  PROVE  Kept
<1> DEFINE fr == [frame EXCEPT ![f] = Ended]
           c == IF inFlight = 0 THEN 0 ELSE inFlight - 1
<1>1. /\ FramesOK(fr, begun, runner) /\ Busy(fr, c)
      /\ Spread(fr, arriving, steers, fu, asides, context, denied, sent)
  BY FrameEnds
<1>2. (ResumeStranded(aborting, fr, 0, fu) /\ c = 0) \/ Idles(fr, c, fu)
  BY DEF EndInFlight
<1> HIDE DEF fr, c
<1>3. fu \subseteq Msgs
  BY <1>1, CapsAssumption DEF Spread, Inv, CountersOK, Msgs
<1>4. CASE ResumeStranded(aborting, fr, 0, fu) /\ c = 0
  BY <1>1, <1>3, <1>4, ResumeKept DEF Inv
<1>5. CASE Idles(fr, c, fu)
  BY <1>1, <1>5 DEF Idles, Kept, Inv, CountersOK, RestOK, counters
<1> QED
  BY <1>2, <1>4, <1>5

\* A step whose piece keeps these parts keeps the invariant if the rest is typed.
LEMMA KeptSuffices ==
  ASSUME Kept, RestOK', sent' \in 0 .. NumMsgs, prompts' \in 0 .. MaxPrompts,
         prompts' = prompts
  PROVE  Inv'
BY DEF Kept, Inv, SpreadNow, CountersOK

\* A frame moves between points of a turn that count alike and holds nothing, or
\* goes on holding what it held.
LEMMA FrameMoves ==
  ASSUME Inv, NEW f \in Frames, NEW x \in FrameType,
         frame[f].at \in {"checked", "setup", "waiting", "restoring", "running"},
         x.at \in {"setup", "waiting", "running", "recovering", "settling"},
         x.parked = frame[f].parked, x.kind = frame[f].kind,
         x.parked # {} => x.at \in {"running", "settling"},
         frame' = [frame EXCEPT ![f] = x], begun' = begun,
         runner' \in {0} \cup {g \in Frames : frame'[g].at = "running"},
         inFlight' = IF frame[f].at = "checked" THEN inFlight + 1 ELSE inFlight
  PROVE  FramesOK(frame', begun', runner') /\ Busy(frame', inFlight') /\ Held(frame') = Held(frame)
<1>1. FramesOK(frame, begun, runner) /\ Busy(frame, inFlight)
  BY DEF Inv
<1>2. frame' \in [Frames -> FrameType] /\ frame'[f] = x /\ \A g \in Frames : g # f => frame'[g] = frame[g]
  BY <1>1 DEF FramesOK
<1>3. FramesOK(frame', begun', runner')
  <2>1. \A g \in Frames : g <= begun' <=> frame'[g].at # "none"
    BY <1>1, <1>2 DEF FramesOK
  <2>2. \A g \in Frames :
          frame'[g].parked # {} => frame'[g].kind = "wake" /\ frame'[g].at \in {"running", "settling"}
    BY <1>1, <1>2 DEF FramesOK
  <2>3. \A g, h \in Frames : g # h => frame'[g].parked \cap frame'[h].parked = {}
    BY <1>1, <1>2 DEF FramesOK
  <2> QED
    BY <1>2, <2>1, <2>2, <2>3 DEF FramesOK
<1>4. Busy(frame', inFlight')
  <2>0. Cardinality(Counted(frame)) \in Nat /\ Cardinality(Counted(frame')) \in Nat
    BY FramesFinite, FS_CardinalityType
  <2>1. CASE frame[f].at = "checked"
    <3>1. f \notin Counted(frame) /\ Counted(frame') = Counted(frame) \cup {f}
      BY <1>2, <2>1 DEF Counted
    <3>2. Cardinality(Counted(frame')) = Cardinality(Counted(frame)) + 1
      BY <3>1, CountedJoins
    <3> QED
      BY <1>1, <2>0, <2>1, <3>2 DEF Busy
  <2>2. CASE frame[f].at # "checked"
    <3>1. Counted(frame') = Counted(frame)
      BY <1>2, <2>2 DEF Counted
    <3> QED
      BY <1>1, <2>2, <3>1 DEF Busy
  <2> QED
    BY <2>1, <2>2
<1>5. Held(frame') = Held(frame)
  BY <1>2, HeldSame
<1> QED
  BY <1>3, <1>4, <1>5

-----------------------------------------------------------------------------
(* The steps.                                                              *)

LEMMA InitInv == Init => Inv
<1> SUFFICES ASSUME Init PROVE Inv
  OBVIOUS
<1>1. Absent \in FrameType /\ Absent.at = "none" /\ Absent.parked = {}
  BY DEF Absent, Frame, FrameType, None
<1>2. frame \in [Frames -> FrameType] /\ \A f \in Frames : frame[f] = Absent
  BY <1>1 DEF Init
<1>3. FramesOK(frame, begun, runner)
  <2>1. \A f \in Frames : ~(f <= begun)
    BY CapsAssumption DEF Init, Frames
  <2> QED
    BY <1>1, <1>2, <2>1 DEF FramesOK, Init
<1>4. Held(frame) = {}
  BY <1>1, <1>2 DEF Held
<1>5. SpreadNow
  BY <1>4 DEF SpreadNow, Spread, Init
<1>6. Busy(frame, inFlight)
  <2>1. Cardinality(Counted(frame)) \in Nat
    BY FramesFinite, FS_CardinalityType
  <2> QED
    BY <2>1 DEF Busy, Init
<1>7. CountersOK
  BY CapsAssumption DEF CountersOK, Init
<1>8. RestOK
  BY DEF RestOK, Init, None
<1> QED
  BY <1>3, <1>5, <1>6, <1>7, <1>8 DEF Inv

LEMMA SendInv ==
  ASSUME Inv, Send
  PROVE  /\ Msg = sent + 1 /\ sent' = sent + 1 /\ sent' \in 0 .. NumMsgs /\ Msg \notin 1 .. sent
         /\ 1 .. sent' = (1 .. sent) \cup {Msg} /\ Msg \in Msgs
BY CapsAssumption DEF Inv, CountersOK, Send, Msg, Msgs

LEMMA DeliverInv ==
  ASSUME Inv, Deliver PROVE Inv'
<1>1. Send /\ UNCHANGED <<arriving, steers, drains, refused, aborts, history, interrupt, prompts>>
  BY DEF Deliver
<1>2. RestOK' /\ sent' \in 0 .. NumMsgs /\ prompts' = prompts /\ prompts' \in 0 .. MaxPrompts
  <2>1. loop' \in {"poll", "tail"}
    BY DEF Deliver, Wake, turns, Inv, RestOK
  <2> QED
    BY <1>1, <2>1, SendInv DEF Inv, RestOK, CountersOK, aborts, interrupt
<1>3. CASE IsStreaming(inFlight)
  <2>1. asides' = asides \cup {Msg} /\ UNCHANGED <<followUps, turns, context, denied, wakes, wakesInRow>>
    BY <1>3 DEF Deliver
  <2>2. SpreadNow'
    BY <1>1, <2>1, SendInv DEF turns, Inv, SpreadNow, Spread
  <2>3. Kept
    BY <1>1, <2>1, <2>2 DEF Kept, SpreadNow, Inv, CountersOK, RestOK, turns
  <2> QED
    BY <1>2, <2>3, KeptSuffices
<1>4. CASE ~IsStreaming(inFlight)
  <2>1. Wake({Msg}, frame, inFlight, followUps) /\ asides' = asides
    BY <1>4 DEF Deliver
  <2>2. /\ Spread(frame, arriving', steers', followUps, {Msg} \cup asides', context, denied, sent')
        /\ {Msg} \cap asides' = {}
    BY <1>1, <2>1, SendInv DEF Inv, SpreadNow, Spread
  <2>3. followUps \subseteq Msgs
    BY CapsAssumption DEF Inv, SpreadNow, Spread, CountersOK, Msgs
  <2>4. Kept
    BY <1>1, <2>1, <2>2, <2>3, WakeKept DEF Inv
  <2> QED
    BY <1>2, <2>4, KeptSuffices
<1> QED
  BY <1>3, <1>4

LEMMA UserSendsInv ==
  ASSUME Inv, UserSends PROVE Inv'
<1>1. Send /\ arriving' = arriving \cup {Msg}
  BY DEF UserSends
<1>2. SpreadNow'
  BY <1>1, SendInv DEF UserSends, turns, Inv, SpreadNow, Spread
<1> QED
  BY <1>1, <1>2, SendInv DEF UserSends, Inv, CountersOK, RestOK, turns, counters, aborts

LEMMA QueueUserMessageInv ==
  ASSUME Inv, NEW m \in Msgs, QueueUserMessage(m) PROVE Inv'
<1>1. /\ m \in arriving /\ arriving' = arriving \ {m}
      /\ \/ steers' = steers \cup {m} /\ followUps' = followUps
         \/ followUps' = followUps \cup {m} /\ steers' = steers
      /\ UNCHANGED <<runner, loop, asides, context, denied, sent, wakes, wakesInRow, aborts,
                     history, interrupt, prompts>>
  BY DEF QueueUserMessage
<1>2. Spread(frame, arriving', steers', followUps', asides, context, denied, sent')
  BY <1>1 DEF Inv, SpreadNow, Spread
<1>3. RestOK' /\ sent' \in 0 .. NumMsgs /\ prompts' = prompts /\ prompts' \in 0 .. MaxPrompts
  BY <1>1 DEF Inv, RestOK, CountersOK, aborts, interrupt
<1>4. CASE Drain(frame, inFlight, steers' \cup followUps')
  <2>1. steers' \cup followUps' \subseteq Msgs
    BY <1>2, <1>3, CapsAssumption DEF Spread, Msgs
  <2>2. Kept
    BY <1>1, <1>2, <1>4, <2>1, DrainKept DEF Inv
  <2> QED
    BY <1>3, <2>2, KeptSuffices
<1>5. CASE UNCHANGED <<frame, begun, inFlight, drains, refused>>
  <2>1. Kept
    BY <1>1, <1>2, <1>5 DEF Kept, Inv, CountersOK, RestOK
  <2> QED
    BY <1>3, <2>1, KeptSuffices
<1> QED
  BY <1>4, <1>5 DEF QueueUserMessage

LEMMA PromptInv ==
  ASSUME Inv, Prompt PROVE Inv'
<1> DEFINE x == Frame("prompt", "checked", {}, FALSE)
<1>1. x \in FrameType /\ x.at = "checked" /\ x.parked = {} /\ x.parked \cap Held(frame) = {}
  BY DEF Frame, FrameType
<1>2. /\ frame' = [frame EXCEPT ![New] = x] /\ begun' = New /\ prompts < MaxPrompts
      /\ runner' = runner /\ inFlight' = inFlight /\ prompts' = prompts + 1
  BY DEF Prompt
<1> HIDE DEF x
<1>3. FramesOK(frame', begun', runner') /\ Busy(frame', inFlight') /\ Held(frame') = Held(frame)
  BY <1>1, <1>2, FrameBegins DEF Inv
<1>4. SpreadNow'
  BY <1>3 DEF Prompt, queues, Inv, SpreadNow, Spread
<1>5. CountersOK'
  BY <1>2, CapsAssumption DEF Prompt, queues, counters, Inv, CountersOK, New
<1>6. RestOK'
  BY DEF Prompt, aborts, Inv, RestOK
<1> QED
  BY <1>3, <1>4, <1>5, <1>6 DEF Inv

LEMMA BeginPromptInv ==
  ASSUME Inv, NEW f \in Frames, BeginPrompt(f) PROVE Inv'
<1> DEFINE x == [frame[f] EXCEPT !.at = "setup", !.stale = FALSE]
<1>1. /\ frame[f].at = "checked" /\ frame[f] \in FrameType /\ frame[f].parked = {}
      /\ frame \in [Frames -> FrameType]
  BY DEF BeginPrompt, Inv, FramesOK
<1>2. x \in FrameType /\ x.at = "setup" /\ x.parked = frame[f].parked /\ x.kind = frame[f].kind
  BY <1>1 DEF FrameType
<1>3. frame' = [frame EXCEPT ![f] = x] /\ begun' = begun /\ inFlight' = inFlight + 1
  BY <1>1 DEF BeginPrompt
<1> HIDE DEF x
<1>4. runner' \in {0} \cup {g \in Frames : frame'[g].at = "running"}
  BY <1>1, <1>3 DEF BeginPrompt, Inv, FramesOK
<1>5. FramesOK(frame', begun', runner') /\ Busy(frame', inFlight') /\ Held(frame') = Held(frame)
  BY <1>1, <1>2, <1>3, <1>4, FrameMoves
<1>6. SpreadNow'
  BY <1>5 DEF BeginPrompt, Inv, SpreadNow, Spread
<1>7. CountersOK' /\ RestOK'
  BY CapsAssumption DEF BeginPrompt, aborts, interrupt, Inv, CountersOK, RestOK
<1> QED
  BY <1>5, <1>6, <1>7 DEF Inv

\* A frame without a parked follow-up that ends.
LEMMA PlainEndInv ==
  ASSUME Inv, NEW f \in Frames, frame[f].at \in {"setup", "waiting", "restoring", "recovering"},
         EndInFlight(f, followUps),
         UNCHANGED <<arriving, steers, sent, aborts, history, interrupt, prompts>>
  PROVE  Inv'
<1>1. followUps = frame[f].parked \cup followUps
  BY DEF Inv, FramesOK
<1>2. Kept
  BY <1>1, EndKept
<1>3. RestOK'
  BY <1>2 DEF Kept, Inv, RestOK, aborts, interrupt
<1> QED
  BY <1>2, <1>3, KeptSuffices DEF Inv, CountersOK

LEMMA SettlesInv ==
  ASSUME Inv, NEW f \in Frames, Settles(f) PROVE Inv'
<1>1. Kept
  BY EndKept DEF Settles, Restored
<1>2. RestOK'
  BY <1>1 DEF Settles, Kept, Inv, RestOK, aborts, interrupt
<1> QED
  BY <1>1, <1>2, KeptSuffices DEF Settles, Inv, CountersOK

\* A turn enters the Agent's loop.
LEMMA RunsInv ==
  ASSUME Inv, NEW f \in Frames,
         frame[f].at \in {"setup", "waiting", "restoring"}, Runs(f)
  PROVE  /\ FramesOK(frame', begun', runner') /\ Busy(frame', inFlight')
         /\ Held(frame') = Held(frame) /\ loop' \in {"poll", "tail"}
<1> DEFINE x == [frame[f] EXCEPT !.at = "running"]
<1>1. frame[f] \in FrameType /\ frame[f].parked = {} /\ frame \in [Frames -> FrameType]
  BY DEF Inv, FramesOK
<1>2. x \in FrameType /\ x.at = "running" /\ x.parked = frame[f].parked /\ x.kind = frame[f].kind
  BY <1>1 DEF FrameType
<1>3. frame' = [frame EXCEPT ![f] = x]
  BY <1>1 DEF Runs
<1> HIDE DEF x
<1>4. runner' \in {0} \cup {g \in Frames : frame'[g].at = "running"}
  BY <1>1, <1>2, <1>3 DEF Runs
<1> QED
  BY <1>1, <1>2, <1>3, <1>4, FrameMoves DEF Runs

LEMMA ReachesAgentInv ==
  ASSUME Inv, NEW f \in Frames, ReachesAgent(f) PROVE Inv'
<1>1. /\ FramesOK(frame', begun', runner') /\ Busy(frame', inFlight')
      /\ Held(frame') = Held(frame) /\ loop' \in {"poll", "tail"}
  <2>1. CASE runner = 0
    BY <2>1, RunsInv DEF ReachesAgent
  <2>2. CASE runner # 0
    <3> DEFINE x == [frame[f] EXCEPT !.at = "waiting"]
    <3>1. frame[f] \in FrameType /\ frame[f].parked = {} /\ frame \in [Frames -> FrameType]
          /\ frame[f].at = "setup"
      BY DEF ReachesAgent, Inv, FramesOK
    <3>2. x \in FrameType /\ x.at = "waiting" /\ x.parked = frame[f].parked /\ x.kind = frame[f].kind
      BY <3>1 DEF FrameType
    <3>3. frame' = [frame EXCEPT ![f] = x] /\ UNCHANGED <<begun, inFlight, runner, loop>>
      BY <2>2, <3>1 DEF ReachesAgent, MovesTo
    <3> HIDE DEF x
    <3>4. runner' \in {0} \cup {g \in Frames : frame'[g].at = "running"}
      BY <3>1, <3>3 DEF Inv, FramesOK
    <3> QED
      BY <3>1, <3>2, <3>3, <3>4, FrameMoves DEF Inv, RestOK
  <2> QED
    BY <2>1, <2>2
<1>2. SpreadNow'
  BY <1>1 DEF ReachesAgent, queues, Inv, SpreadNow, Spread
<1>3. begun' = begun
  BY DEF ReachesAgent, Runs, MovesTo
<1>4. CountersOK' /\ RestOK'
  BY <1>1, <1>3 DEF ReachesAgent, queues, counters, aborts, interrupt, Inv, CountersOK, RestOK
<1> QED
  BY <1>1, <1>2, <1>4 DEF Inv

LEMMA RetriesInv ==
  ASSUME Inv, NEW f \in Frames, Retries(f) PROVE Inv'
<1>1. /\ FramesOK(frame', begun', runner') /\ Busy(frame', inFlight')
      /\ Held(frame') = Held(frame) /\ loop' \in {"poll", "tail"}
  BY RunsInv DEF Retries
<1>2. SpreadNow'
  BY <1>1 DEF Retries, queues, Inv, SpreadNow, Spread
<1>3. CountersOK' /\ RestOK'
  BY <1>1 DEF Retries, Runs, queues, counters, aborts, interrupt, Inv, CountersOK, RestOK
<1> QED
  BY <1>1, <1>2, <1>3 DEF Inv

LEMMA DrainRunsInv ==
  ASSUME Inv, NEW f \in Frames, DrainRuns(f) PROVE Inv'
<1>1. /\ FramesOK(frame', begun', runner') /\ Busy(frame', inFlight')
      /\ Held(frame') = Held(frame) /\ loop' \in {"poll", "tail"}
  BY RunsInv DEF DrainRuns
<1>2. SpreadNow'
  <2>1. CASE UNCHANGED <<steers, followUps, context>>
    BY <1>1, <2>1 DEF DrainRuns, Inv, SpreadNow, Spread
  <2>2. ASSUME NEW m \in NextQueued, Take(m, {}) PROVE SpreadNow'
    BY <1>1, <2>2 DEF DrainRuns, NextQueued, Take, Inv, SpreadNow, Spread
  <2> QED
    BY <2>1, <2>2 DEF DrainRuns
<1>3. CountersOK' /\ RestOK'
  BY <1>1 DEF DrainRuns, Runs, counters, aborts, interrupt, Inv, CountersOK, RestOK
<1> QED
  BY <1>1, <1>2, <1>3 DEF Inv

LEMMA PollInv ==
  ASSUME Inv, Poll PROVE Inv'
<1>1. FramesOK(frame', begun', runner') /\ Busy(frame', inFlight') /\ Held(frame') = Held(frame)
  BY DEF Poll, turns, Inv
<1>2. SpreadNow'
  <2>1. ASSUME NEW m \in NextQueued, Take(m, asides) PROVE SpreadNow'
    BY <1>1, <2>1 DEF Poll, NextQueued, Take, Inv, SpreadNow, Spread
  <2>2. CASE context' = context \cup asides /\ UNCHANGED <<steers, followUps>>
    BY <1>1, <2>2 DEF Poll, Inv, SpreadNow, Spread
  <2> QED
    BY <2>1, <2>2 DEF Poll
<1>3. CountersOK' /\ RestOK'
  BY DEF Poll, turns, counters, aborts, interrupt, Inv, CountersOK, RestOK
<1> QED
  BY <1>1, <1>2, <1>3 DEF Inv

LEMMA StopsPollingInv ==
  ASSUME Inv, StopsPolling PROVE Inv'
BY DEF StopsPolling, queues, counters, aborts, interrupt, Inv, SpreadNow, CountersOK, RestOK

\* The frame whose run ends goes on holding the follow-ups it parked only if it is a wake.
LEMMA RunEndsInv ==
  ASSUME Inv, RunEnds PROVE Inv'
<1> DEFINE f == runner
           x == [frame[f] EXCEPT !.at = IF frame[f].kind = "prompt" THEN "recovering" ELSE "settling"]
<1>1. f \in Frames /\ frame[f].at = "running" /\ frame \in [Frames -> FrameType]
      /\ frame[f] \in FrameType /\ (frame[f].parked # {} => frame[f].kind = "wake")
  BY DEF RunEnds, Inv, FramesOK
<1>2. /\ x \in FrameType /\ x.at \in {"recovering", "settling"} /\ x.parked = frame[f].parked
      /\ x.kind = frame[f].kind /\ (x.parked # {} => x.at = "settling")
  BY <1>1 DEF FrameType
<1>3. frame' = [frame EXCEPT ![f] = x] /\ UNCHANGED <<begun, inFlight>> /\ runner' = 0
  BY <1>1 DEF RunEnds, MovesTo
<1> HIDE DEF x, f
<1>5. FramesOK(frame', begun', runner') /\ Busy(frame', inFlight') /\ Held(frame') = Held(frame)
  BY <1>1, <1>2, <1>3, FrameMoves
<1>6. SpreadNow'
  BY <1>5 DEF RunEnds, queues, Inv, SpreadNow, Spread
<1>7. CountersOK' /\ RestOK'
  BY <1>3 DEF RunEnds, queues, counters, aborts, interrupt, Inv, CountersOK, RestOK
<1> QED
  BY <1>5, <1>6, <1>7 DEF Inv

LEMMA AbortBeginsInv ==
  ASSUME Inv, NEW a \in Aborts, AbortBegins(a) PROVE Inv'
<1>1. frame \in [Frames -> FrameType]
  BY DEF Inv, FramesOK
<1>2. \A f \in Frames :
        /\ frame'[f] \in FrameType /\ frame'[f].at = frame[f].at /\ frame'[f].kind = frame[f].kind
        /\ frame'[f].parked = frame[f].parked
  BY <1>1 DEF AbortBegins, FrameType
<1>3. frame' \in [Frames -> FrameType]
  BY <1>2 DEF AbortBegins
<1>4. FramesOK(frame', begun', runner')
  <2>1. begun' = begun /\ runner' = runner
    BY DEF AbortBegins
  <2> QED
    BY <1>2, <1>3, <2>1 DEF Inv, FramesOK
<1>5. Held(frame') = Held(frame)
  BY <1>2, HeldSame
<1>6. Counted(frame') = Counted(frame)
  BY <1>2 DEF Counted
<1>7. SpreadNow' /\ Busy(frame', inFlight') /\ CountersOK'
  BY <1>5, <1>6 DEF AbortBegins, queues, counters, Inv, SpreadNow, Spread, Busy, CountersOK
<1>8. RestOK'
  <2>1. Parked \subseteq Msgs /\ followUps \subseteq Msgs
    BY <1>1, CapsAssumption
       DEF Parked, FrameType, Inv, SpreadNow, Spread, CountersOK, Msgs
  <2>2. suppressed' \in BOOLEAN /\ held' \subseteq Msgs
    BY <2>1 DEF AbortBegins, interrupt, Inv, RestOK
  <2>3. abort' \in [Aborts -> {None, "tasks", "idle", "done"}] /\ awaits' \in [Aborts -> SUBSET Frames]
    BY DEF AbortBegins, Inv, RestOK
  <2> QED
    BY <2>2, <2>3 DEF AbortBegins, Inv, RestOK
<1> QED
  BY <1>4, <1>7, <1>8 DEF Inv

LEMMA AbortStepsInv ==
  ASSUME Inv, NEW a \in Aborts, AbortSteps(a) PROVE Inv'
<1>1. CASE AbortAwaitsRun(a)
  <2>1. {runner} \ {0} \subseteq Frames
    BY DEF Inv, FramesOK
  <2>2. RestOK'
    BY <1>1, <2>1 DEF AbortAwaitsRun, turns, interrupt, Inv, RestOK
  <2> QED
    BY <1>1, <2>2
       DEF AbortAwaitsRun, queues, turns, counters, interrupt, Inv, SpreadNow, CountersOK
<1>2. CASE AbortEnds(a)
  <2>1. Busy(frame, 0)
    BY FramesFinite, FS_CardinalityType DEF Busy
  <2>2. followUps \subseteq Msgs
    BY CapsAssumption DEF Inv, SpreadNow, Spread, CountersOK, Msgs
  <2>3. Kept
    <3>1. ResumeStranded(FALSE, frame, 0, followUps) /\ UNCHANGED <<arriving, steers, sent>>
      BY <1>2 DEF AbortEnds
    <3> QED
      BY <2>1, <2>2, <3>1, ResumeKept DEF Inv, SpreadNow
  <2>4. RestOK'
    BY <1>2, <2>3 DEF AbortEnds, Kept, interrupt, Inv, RestOK
  <2> QED
    BY <1>2, <2>3, <2>4, KeptSuffices DEF AbortEnds, Inv, CountersOK
<1> QED
  BY <1>1, <1>2 DEF AbortSteps

LEMMA FrameStepsInv ==
  ASSUME Inv, NEW f \in Frames, FrameSteps(f) \/ SetupEnds(f) \/ GivesUp(f)
  PROVE  Inv'
<1>1. CASE BeginPrompt(f)
  BY <1>1, BeginPromptInv
<1>2. CASE ReachesAgent(f)
  BY <1>2, ReachesAgentInv
<1>3. CASE Retries(f)
  BY <1>3, RetriesInv
<1>4. CASE Recovers(f)
  BY <1>4, PlainEndInv DEF Recovers
<1>5. CASE DrainRuns(f)
  BY <1>5, DrainRunsInv
<1>6. CASE DrainSkips(f)
  BY <1>6, PlainEndInv DEF DrainSkips
<1>7. CASE Settles(f)
  BY <1>7, SettlesInv
<1>8. CASE SetupEnds(f)
  BY <1>8, PlainEndInv DEF SetupEnds
<1>9. CASE GivesUp(f)
  BY <1>9, PlainEndInv DEF GivesUp
<1> QED
  BY <1>1, <1>2, <1>3, <1>4, <1>5, <1>6, <1>7, <1>8, <1>9 DEF FrameSteps

LEMMA NextInv ==
  ASSUME Inv, [Next]_vars PROVE Inv'
<1>1. CASE Deliver \/ UserSends \/ Prompt
  BY <1>1, DeliverInv, UserSendsInv, PromptInv
<1>2. CASE \E m \in Msgs : QueueUserMessage(m)
  BY <1>2, QueueUserMessageInv
<1>3. CASE Poll \/ StopsPolling \/ RunEnds
  BY <1>3, PollInv, StopsPollingInv, RunEndsInv
<1>4. CASE \E f \in Frames : FrameSteps(f) \/ SetupEnds(f) \/ GivesUp(f)
  BY <1>4, FrameStepsInv
<1>5. CASE \E a \in Aborts : AbortBegins(a) \/ AbortSteps(a)
  BY <1>5, AbortBeginsInv, AbortStepsInv
<1>6. CASE UNCHANGED vars
  BY <1>6 DEF vars, queues, turns, counters, aborts, interrupt, Inv, SpreadNow, CountersOK, RestOK
<1> QED
  BY <1>1, <1>2, <1>3, <1>4, <1>5, <1>6 DEF Next

LEMMA InvAlways == Spec => []Inv
<1>1. Inv /\ [Next]_vars => Inv'
  BY NextInv
<1> QED
  BY InitInv, <1>1, PTL DEF Spec

-----------------------------------------------------------------------------
(* The theorems.                                                           *)

LEMMA InvTypeOK == Inv => TypeOK
<1> SUFFICES ASSUME Inv PROVE TypeOK
  OBVIOUS
<1>1. /\ frame \in [Frames -> FrameType] /\ \A f \in Frames : f <= begun <=> frame[f].at # "none"
      /\ runner \in {0} \cup {f \in Frames : frame[f].at = "running"}
  BY DEF Inv, FramesOK
<1>2. inFlight \in 0 .. Cardinality(Frames)
  <2>1. Cardinality(Counted(frame)) \in 0 .. Cardinality(Frames) /\ Cardinality(Frames) \in Nat
    BY FramesFinite, FS_CardinalityType
  <2> QED
    BY <2>1 DEF Inv, Busy
<1>3. /\ steers \subseteq Msgs /\ followUps \subseteq Msgs /\ asides \subseteq Msgs
      /\ context \subseteq Msgs /\ denied \subseteq Msgs /\ arriving \subseteq Msgs
  BY CapsAssumption DEF Inv, SpreadNow, Spread, CountersOK, Msgs
<1> QED
  BY <1>1, <1>2, <1>3 DEF TypeOK, FrameType, Inv, CountersOK, RestOK

\* For every number of messages, prompts and aborts and all caps, a message is in one
\* place: whatever the wakes park and put back and whatever an abort interrupts, none
\* is lost and none is given to the model twice.
THEOREM OnePlaceAlways == Spec => []OnePlace
<1>1. Inv => OnePlace
  <2> SUFFICES ASSUME Inv PROVE OnePlace
    OBVIOUS
  <2>1. Held(frame) = Parked
    BY DEF Held, Parked
  <2>2. Spread(frame, arriving, steers, followUps, asides, context, denied, sent)
    BY DEF Inv, SpreadNow
  <2>3. DOMAIN Places = 1 .. 7
    BY DEF Places
  <2>4. UNION {Places[i] : i \in DOMAIN Places} =
          arriving \cup steers \cup followUps \cup asides \cup Parked \cup context \cup denied
    <3>1. /\ Places[1] = arriving /\ Places[2] = steers /\ Places[3] = followUps
          /\ Places[4] = asides /\ Places[5] = Parked /\ Places[6] = context /\ Places[7] = denied
      BY DEF Places
    <3>2. \A i \in 1 .. 7 : i \in {1, 2, 3, 4, 5, 6, 7}
      OBVIOUS
    <3> QED
      BY <2>3, <3>1, <3>2
  <2>5. ASSUME NEW i \in 1 .. 7, NEW j \in 1 .. 7, i # j
        PROVE  Places[i] \cap Places[j] = {}
    BY <2>1, <2>2, <2>5 DEF Places, Spread
  <2> QED
    BY <2>1, <2>2, <2>3, <2>4, <2>5, InvTypeOK DEF OnePlace, Spread
<1> QED
  BY <1>1, InvAlways, PTL

\* However prompts, wakes and drains overlap and whenever an abort resets it under
\* them, #promptInFlightCount is at most the number of turns that are under way.
THEOREM BusyOnlyWhileLiveAlways == Spec => []BusyOnlyWhileLive
<1>1. Inv => BusyOnlyWhileLive
  <2> SUFFICES ASSUME Inv PROVE BusyOnlyWhileLive
    OBVIOUS
  <2>1. {f \in Frames : Live(f) /\ frame[f].at # "checked"} = Counted(frame)
    BY DEF Counted, Live
  <2>2. inFlight <= Cardinality(Counted(frame))
    <3>1. Cardinality(Counted(frame)) \in Nat
      BY FramesFinite, FS_CardinalityType
    <3> QED
      BY <3>1 DEF Inv, Busy
  <2> QED
    BY <2>1, <2>2, Zenon DEF BusyOnlyWhileLive
<1> QED
  BY <1>1, InvAlways, PTL
=============================================================================
