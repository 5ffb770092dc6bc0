-------------------------- MODULE BgmPlaybackProofs --------------------------
(***************************************************************************)
(* Theorems about BgmPlayback, for every table size and every set of       *)
(* delays, margins, fades and start outcomes.                              *)
(***************************************************************************)
EXTENDS BgmPlaybackRefinement, TLAPS

-----------------------------------------------------------------------------
(* The operators on one track. *)

(* A blank track is a track. *)
LEMMA BlankTrackType == BlankTrack \in Track
  BY DEF BlankTrack, Track

(* The values that reset a field. *)
LEMMA Literals == 0 \in Int /\ 0 \in Nat /\ TRUE \in BOOLEAN /\ FALSE \in BOOLEAN
  OBVIOUS

(* The fields of a track have their types. *)
LEMMA TrackFields ==
  ASSUME NEW t \in Track
  PROVE  /\ t.looping \in BOOLEAN /\ t.ended \in BOOLEAN
         /\ t.started \in BOOLEAN /\ t.sounding \in BOOLEAN
         /\ t.delayed \in BOOLEAN /\ t.start_in \in Int
         /\ t.elapsed \in Int /\ t.fade_duration \in Nat
         /\ t.retire_after_fade \in BOOLEAN
         /\ t.retirement_requested \in BOOLEAN
  BY DEF Track

(* What starts, stops and ages a track may change. *)
LEMMA StatusUpdate ==
  ASSUME NEW t \in Track, NEW e \in BOOLEAN, NEW st \in BOOLEAN, NEW so \in BOOLEAN,
         NEW rr \in BOOLEAN, NEW lo \in BOOLEAN
  PROVE  /\ [t EXCEPT !.started = st, !.sounding = so] \in Track
         /\ [t EXCEPT !.sounding = so] \in Track
         /\ [t EXCEPT !.started = st, !.sounding = so,
                      !.retirement_requested = rr] \in Track
         /\ [t EXCEPT !.ended = e] \in Track
         /\ [t EXCEPT !.looping = lo, !.ended = e] \in Track
         /\ [t EXCEPT !.retirement_requested = rr] \in Track
  BY DEF Track

(* What the clock and the fades may change. *)
LEMMA TimeUpdate ==
  ASSUME NEW t \in Track, NEW si \in Int, NEW el \in Int, NEW fd \in Nat,
         NEW de \in BOOLEAN, NEW ra \in BOOLEAN, NEW rr \in BOOLEAN
  PROVE  /\ [t EXCEPT !.start_in = si, !.elapsed = el] \in Track
         /\ [t EXCEPT !.delayed = de, !.start_in = si] \in Track
         /\ [t EXCEPT !.delayed = de, !.start_in = si, !.elapsed = el] \in Track
         /\ [t EXCEPT !.retire_after_fade = ra, !.elapsed = el,
                      !.fade_duration = fd] \in Track
         /\ [t EXCEPT !.fade_duration = fd, !.elapsed = el,
                      !.retirement_requested = rr] \in Track
  BY DEF Track

(* A fade step keeps a track a track. *)
LEMMA UpdateTrackFadeType ==
  ASSUME NEW t \in Track
  PROVE  UpdateTrackFade(t) \in Track
  <1>1. [t EXCEPT !.fade_duration = 0, !.elapsed = 0,
                  !.retirement_requested = t.retire_after_fade] \in Track
    <2>1. \A rr \in BOOLEAN : [t EXCEPT !.fade_duration = 0, !.elapsed = 0,
                                       !.retirement_requested = rr] \in Track
      BY Literals, TimeUpdate, Zenon
    <2>2. QED
      BY <2>1, TrackFields, Zenon
  <1>2. QED
    BY <1>1 DEF UpdateTrackFade

(* A fade begun keeps a track a track. *)
LEMMA BeginFadeType ==
  ASSUME NEW t \in Track, NEW d \in Nat, NEW m \in Nat, NEW retire \in BOOLEAN
  PROVE  BeginFade(t, d, m, retire) \in Track
  <1>1. -m \in Int
    OBVIOUS
  <1>2. QED
    BY <1>1, TimeUpdate DEF BeginFade

(* A start keeps a track a track. *)
LEMMA StartTrackType ==
  ASSUME NEW t \in Track, NEW played \in BOOLEAN
  PROVE  StartTrack(t, played) \in Track
  BY StatusUpdate DEF StartTrack

(* A prepared and scheduled request is a track. *)
LEMMA ScheduledType ==
  ASSUME NEW looping \in BOOLEAN, NEW short \in BOOLEAN, NEW played \in BOOLEAN,
         NEW delay \in Nat
  PROVE  ScheduleStart(PreparedTrack(looping, short), delay, played) \in Track
  <1>1. (short /\ ~looping) \in BOOLEAN
    OBVIOUS
  <1>2. PreparedTrack(looping, short) \in Track
    <2>1. \A e \in BOOLEAN : [BlankTrack EXCEPT !.looping = looping, !.ended = e] \in Track
      BY BlankTrackType, StatusUpdate
    <2>2. QED
      BY <1>1, <2>1, Zenon DEF PreparedTrack
  <1> DEFINE t == PreparedTrack(looping, short)
  <1>3. [t EXCEPT !.delayed = TRUE, !.start_in = delay] \in Track
    <2>1. delay \in Int
      OBVIOUS
    <2>2. QED
      BY <1>2, <2>1, Literals, TimeUpdate, Zenon
  <1>4. QED
    BY <1>2, <1>3, StartTrackType DEF ScheduleStart

(* One service keeps a track a track. *)
LEMMA ServiceTrackType ==
  ASSUME NEW t \in Track, NEW ends \in BOOLEAN, NEW played \in BOOLEAN
  PROVE  ServiceTrack(t, ends, played) \in Track
  <1> DEFINE st == StartTrack(t, played)
             el == IF st.elapsed > 0 THEN 0 ELSE st.elapsed
             begun == [st EXCEPT !.delayed = FALSE, !.start_in = 0, !.elapsed = el]
  <1>1. st \in Track
    BY StartTrackType
  <1>2. el \in Int
    BY <1>1, TrackFields
  <1> HIDE DEF st, el
  <1>3. begun \in Track
    BY <1>1, <1>2, Literals, TimeUpdate, Zenon
  <1> HIDE DEF begun
  <1>4. [begun EXCEPT !.ended = TRUE] \in Track
    BY <1>3, StatusUpdate
  <1>5. [t EXCEPT !.ended = TRUE] \in Track /\ [t EXCEPT !.retirement_requested = TRUE] \in Track
    BY StatusUpdate
  <1>6. QED
    BY <1>3, <1>4, <1>5 DEF ServiceTrack, begun, el, st

(* A unit of time keeps a track a track. *)
LEMMA AgeType ==
  ASSUME NEW t \in Track
  PROVE  Age(t) \in Track
  <1> DEFINE si == IF t.delayed /\ t.start_in >= 0 THEN t.start_in - 1 ELSE t.start_in
             el == IF t.fade_duration # 0 /\ t.elapsed < t.fade_duration
                   THEN t.elapsed + 1 ELSE t.elapsed
  <1>1. si \in Int /\ el \in Int
    BY TrackFields
  <1>2. [t EXCEPT !.start_in = si, !.elapsed = el] \in Track
    <2> HIDE DEF si, el
    <2> QED BY <1>1, TimeUpdate
  <1>3. QED
    BY <1>2 DEF Age
-----------------------------------------------------------------------------
(* The type invariant. *)

(* A fade applied to a handle keeps every track a track. *)
LEMMA FadesType ==
  ASSUME TypeOK
  PROVE  /\ UpdateFades(track) \in [Handles -> Track]
         /\ \A h \in Handles, d \in Nat, m \in Nat, retire \in BOOLEAN :
              FadeHandle(h, d, m, retire) \in [Handles -> Track]
         /\ \A m \in Margins : FadedForReplacement(m) \in [Handles -> Track]
  <1>1. UpdateFades(track) \in [Handles -> Track]
    <2>1. \A h \in Handles : (IF h \in owned THEN UpdateTrackFade(track[h]) ELSE track[h]) \in Track
      BY UpdateTrackFadeType DEF TypeOK
    <2>2. QED
      BY <2>1 DEF UpdateFades
  <1>2. ASSUME NEW h \in Handles, NEW d \in Nat, NEW m \in Nat, NEW retire \in BOOLEAN
        PROVE  FadeHandle(h, d, m, retire) \in [Handles -> Track]
    <2> DEFINE faded == UpdateFades(track)
    <2>1. faded \in [Handles -> Track]
      BY <1>1
    <2> HIDE DEF faded
    <2>2. BeginFade(faded[h], d, m, retire) \in Track
      BY <2>1, BeginFadeType
    <2>3. [faded EXCEPT ![h] = BeginFade(faded[h], d, m, retire)] \in [Handles -> Track]
      BY <2>1, <2>2
    <2>4. QED
      BY <2>1, <2>3 DEF FadeHandle, faded
  <1>3. ASSUME NEW m \in Margins
        PROVE  FadedForReplacement(m) \in [Handles -> Track]
    <2>1. selected # 0 => selected \in Handles
      BY PlaybackAssumption DEF TypeOK, Handles
    <2>2. m \in Nat /\ ReplaceFade \in Nat
      BY PlaybackAssumption
    <2>3. QED
      BY <1>1, <1>2, <2>1, <2>2 DEF FadedForReplacement, TypeOK
  <1>4. QED
    BY <1>1, <1>2, <1>3

(* Retiring handles keeps both queues sets of handles. *)
LEMMA RetireType ==
  ASSUME TypeOK, NEW S, records' \subseteq Handles, Retire(S)
  PROVE  active' \subseteq Handles /\ retired' \subseteq Handles /\ queue_event' \in BOOLEAN
  BY DEF TypeOK, Retire

(* The handle a command allocates is a fresh one. *)
LEMMA NewHandleType ==
  ASSUME TypeOK, NewHandle # 0
  PROVE  NewHandle \in Handles /\ NewHandle = slots + 1 /\ NewHandle \in 0..MaxSlots
  BY PlaybackAssumption DEF TypeOK, NewHandle, Handles

(* The initial state has the types. *)
LEMMA TypeInit == Init => TypeOK
  <1> SUFFICES ASSUME Init
               PROVE  TypeOK
    OBVIOUS
  <1>1. track \in [Handles -> Track]
    BY BlankTrackType DEF Init
  <1>2. 0 \in 0..MaxSlots
    BY PlaybackAssumption
  <1>3. QED
    BY <1>1, <1>2 DEF Init, TypeOK

(* Every step keeps the types: one step of the proof per action. *)
LEMMA TypeNext == TypeOK /\ [Next]_vars => TypeOK'
  <1> SUFFICES ASSUME TypeOK, [Next]_vars
               PROVE  TypeOK'
    OBVIOUS
  <1> USE DEF playback_vars, worker_vars
  <1>1. ASSUME NEW margin \in Margins, NEW delay \in Delays, NEW looping \in BOOLEAN,
               NEW short \in BOOLEAN, NEW played \in BOOLEAN,
               PlayPrepared(delay, margin, looping, short, played)
        PROVE  TypeOK'
    <2> DEFINE new == ScheduleStart(PreparedTrack(looping, short), delay, played)
               faded == FadedForReplacement(margin)
    <2>1. new \in Track
      BY PlaybackAssumption, ScheduledType
    <2>2. faded \in [Handles -> Track]
      BY FadesType
    <2>3. NewHandle \in Handles /\ NewHandle \in 0..MaxSlots
      BY <1>1, NewHandleType DEF PlayPrepared
    <2>4. track' = [faded EXCEPT ![NewHandle] = new]
      BY <1>1 DEF PlayPrepared
    <2> HIDE DEF new, faded
    <2>5. track' \in [Handles -> Track]
      BY <2>1, <2>2, <2>3, <2>4
    <2>6. QED
      BY <1>1, <2>3, <2>5 DEF PlayPrepared, TypeOK
  <1>2. ASSUME NEW margin \in Margins, PlayNotPrepared(margin)
        PROVE  TypeOK'
    <2>1. track' \in [Handles -> Track]
      BY <1>2, FadesType DEF PlayNotPrepared
    <2>2. NewHandle \in Handles /\ NewHandle \in 0..MaxSlots
      BY <1>2, NewHandleType DEF PlayNotPrepared
    <2>3. records' \subseteq Handles /\ Retire({NewHandle})
      BY <1>2, <2>2 DEF PlayNotPrepared, TypeOK
    <2>4. QED
      BY <1>2, <2>1, <2>2, <2>3, RetireType DEF PlayNotPrepared, TypeOK
  <1>3. ASSUME NEW margin \in Margins, PlayNotAllocated(margin)
        PROVE  TypeOK'
    <2>1. track' \in [Handles -> Track]
      BY <1>3, FadesType DEF PlayNotAllocated
    <2>2. QED
      BY <1>3, <2>1, PlaybackAssumption DEF PlayNotAllocated, TypeOK
  <1>4. CASE FadeBgm
    <2>1. selected \in Handles
      BY <1>4, PlaybackAssumption DEF FadeBgm, TypeOK, Handles
    <2>2. track' \in [Handles -> Track]
      <3>1. PICK duration \in FadeDurations : track' = FadeHandle(selected, duration, 0, FALSE)
        BY <1>4 DEF FadeBgm
      <3>2. duration \in Nat
        BY PlaybackAssumption
      <3>3. QED
        BY <2>1, <3>1, <3>2, Literals, FadesType, Zenon
    <2>3. QED
      BY <1>4, <2>2 DEF FadeBgm, TypeOK
  <1>5. CASE PauseBgm
    <2> DEFINE t == track[selected]
    <2>1. selected \in Handles /\ t \in Track
      BY <1>5 DEF PauseBgm, TypeOK
    <2>2. TogglePause(t) \in Track
      BY <2>1, Literals, StatusUpdate, Zenon DEF TogglePause
    <2>3. track' \in [Handles -> Track]
      <3> HIDE DEF t
      <3>1. track' = [track EXCEPT ![selected] = TogglePause(t)]
        BY <1>5 DEF PauseBgm, t
      <3>2. QED
        BY <2>1, <2>2, <3>1 DEF TypeOK
    <2>4. QED
      BY <1>5, <2>3 DEF PauseBgm, TypeOK
  <1>6. CASE StopBgm
    <2>1. PICK stopped \in BOOLEAN :
            track' = IF selected \in owned
                     THEN [track EXCEPT ![selected] = StopTrack(track[selected], stopped)]
                     ELSE track
      BY <1>6 DEF StopBgm
    <2>2. ASSUME selected \in owned
          PROVE  StopTrack(track[selected], stopped) \in Track
      <3> DEFINE t == track[selected]
                 so == t.sounding /\ ~stopped
      <3>1. t \in Track /\ so \in BOOLEAN
        BY <2>2 DEF TypeOK
      <3> HIDE DEF t, so
      <3>2. [t EXCEPT !.started = FALSE, !.sounding = so, !.retirement_requested = TRUE] \in Track
        BY <3>1, Literals, StatusUpdate, Zenon
      <3>3. QED
        BY <3>2 DEF StopTrack, t, so
    <2>3. track' \in [Handles -> Track]
      BY <2>1, <2>2 DEF TypeOK
    <2>4. records' \subseteq Handles /\ Retire({selected})
      BY <1>6 DEF StopBgm, TypeOK
    <2>5. QED
      BY <1>6, <2>3, <2>4, RetireType, PlaybackAssumption DEF StopBgm, TypeOK
  <1>7. CASE UpdateWait
    BY <1>7 DEF UpdateWait, TypeOK
  <1>8. CASE UpdateService
    <2>1. PICK ending \in SUBSET (active \cap owned), playing \in SUBSET (active \cap owned) :
            ServiceAll(ending, playing)
      BY <1>8 DEF UpdateService
    <2> DEFINE faded == UpdateFades(track)
               serviced == [h \in Handles |->
                              IF h \in active \cap owned /\ ~faded[h].retirement_requested
                              THEN ServiceTrack(faded[h], h \in ending, h \in playing)
                              ELSE faded[h]]
               leaving == {h \in active \cap owned : serviced[h].retirement_requested}
    <2>2. faded \in [Handles -> Track]
      BY FadesType
    <2>3. track' = serviced /\ Retire(leaving)
      BY <2>1 DEF ServiceAll
    <2> HIDE DEF faded
    <2>4. ASSUME NEW h \in Handles
          PROVE  ServiceTrack(faded[h], h \in ending, h \in playing) \in Track
      <3>1. faded[h] \in Track /\ (h \in ending) \in BOOLEAN /\ (h \in playing) \in BOOLEAN
        BY <2>2
      <3>2. QED
        BY <3>1, ServiceTrackType, Zenon
    <2>5. track' \in [Handles -> Track]
      BY <2>2, <2>3, <2>4
    <2> HIDE DEF leaving
    <2>6. records' \subseteq Handles
      BY <1>8 DEF UpdateService, TypeOK
    <2>7. active' \subseteq Handles /\ retired' \subseteq Handles /\ queue_event' \in BOOLEAN
      BY <2>3, <2>6, RetireType
    <2>8. QED
      BY <1>8, <2>5, <2>7 DEF UpdateService, LoopHead, TypeOK
  <1>9. CASE LoaderWake
    BY <1>9 DEF LoaderWake, TypeOK
  <1>10. CASE LoaderServe
    <2>1. CASE running
      <3>1. ReleaseRetired
        BY <1>10, <2>1 DEF LoaderServe
      <3>2. track' \in [Handles -> Track]
        BY <3>1, BlankTrackType DEF ReleaseRetired, TypeOK
      <3>3. QED
        BY <1>10, <3>1, <3>2, PlaybackAssumption DEF LoaderServe, LoopHead, ReleaseRetired, TypeOK
    <2>2. CASE ~running
      BY <1>10, <2>2 DEF LoaderServe, LoopHead, TypeOK
    <2>3. QED
      BY <2>1, <2>2
  <1>11. CASE StartWorkers
    BY <1>11 DEF StartWorkers, TypeOK
  <1>12. CASE BeginShutdown
    BY <1>12 DEF BeginShutdown, TypeOK
  <1>13. CASE JoinUpdate
    BY <1>13 DEF JoinUpdate, TypeOK
  <1>14. CASE JoinLoader
    BY <1>14 DEF JoinLoader, TypeOK
  <1>15. CASE ReleaseAll
    BY <1>15, BlankTrackType, PlaybackAssumption DEF ReleaseAll, TypeOK, Handles
  <1>16. CASE Clock
    <2>1. track' \in [Handles -> Track]
      BY <1>16, AgeType DEF Clock, TypeOK
    <2>2. QED
      BY <1>16, <2>1 DEF Clock, TypeOK
  <1>17. CASE UNCHANGED vars
    BY <1>17 DEF vars, TypeOK
  <1>18. QED
    BY <1>1, <1>2, <1>3, <1>4, <1>5, <1>6, <1>7, <1>8, <1>9, <1>10, <1>11, <1>12, <1>13,
       <1>14, <1>15, <1>16, <1>17
    DEF Next, PlayBgm, UpdateWorker, LoaderWorker, Shutdown

(* The playback state keeps its types through every command, tick, loader pass
   and shutdown. *)
THEOREM TypeCorrect == Spec => []TypeOK
  BY TypeInit, TypeNext, PTL DEF Spec
-----------------------------------------------------------------------------
(* Accounting, and the order of shutdown. *)

(* What shutdown and start-up rely on: running implies the events exist, a
   stopped or stopping system does not run, joined workers are off, and a
   system that is down keeps nothing. *)
Phased ==
  /\ running => events
  /\ main_pc # "up" => ~running
  /\ main_pc \in {"join_loader", "release", "down"} => update_pc = "off"
  /\ main_pc \in {"release", "down"} => loader_pc = "off"
  /\ main_pc = "down" => slots = 0 /\ records = {} /\ owned = {} /\ retired = {}

\* The accounting is inductive once the phases are known.
AInv == TypeOK /\ Accounted /\ Phased /\ RetirementSignalled

(* Retiring live handles moves them from the active to the retired queue. *)
LEMMA RetireAccounted ==
  ASSUME NEW S, Retire(S), S \subseteq records'
  PROVE  /\ active' = active \ S
         /\ retired' = retired \cup S
         /\ (S # {} /\ events => queue_event')
         /\ (queue_event => queue_event')
  <1>1. S \cap records' = S
    OBVIOUS
  <1>2. QED
    BY <1>1, Zenon DEF Retire

(* The invariant holds at first. *)
LEMMA AccountedInit == Init => AInv
  BY TypeInit DEF Init, AInv, Accounted, Phased, RetirementSignalled

(* Every step keeps it. *)
LEMMA AccountedNext == AInv /\ [Next]_vars => AInv'
  <1> SUFFICES ASSUME AInv, [Next]_vars
               PROVE  Accounted' /\ Phased' /\ RetirementSignalled'
    BY TypeNext DEF AInv
  <1> USE DEF playback_vars, worker_vars, AInv
  <1>0. TypeOK /\ TypeOK'
    BY TypeNext
  <1>1. ASSUME NEW margin \in Margins, NEW delay \in Delays, NEW looping \in BOOLEAN,
               NEW short \in BOOLEAN, NEW played \in BOOLEAN,
               PlayPrepared(delay, margin, looping, short, played)
        PROVE  Accounted' /\ Phased' /\ RetirementSignalled'
    <2>1. NewHandle \in Handles /\ NewHandle = slots + 1 /\ slots \in Nat
      BY <1>0, <1>1, NewHandleType DEF PlayPrepared, TypeOK
    <2>2. NewHandle \notin records /\ NewHandle \notin retired
      BY <2>1 DEF Accounted
    <2> DEFINE n == NewHandle
    <2>3. /\ slots' = n /\ records' = records \cup {n} /\ owned' = owned \cup {n}
          /\ selected' = n /\ active' = active \cup {n} /\ retired' = retired
          /\ queue_event' = queue_event /\ UNCHANGED worker_vars /\ main_pc = "up"
      BY <1>1 DEF PlayPrepared
    <2> HIDE DEF n
    <2>4. \A h \in records' : h <= slots'
      BY <1>0, <2>1, <2>3 DEF Accounted, TypeOK, n, Handles
    <2>5. QED
      BY <2>2, <2>3, <2>4 DEF Accounted, Phased, RetirementSignalled, n
  <1>2. ASSUME NEW margin \in Margins, PlayNotPrepared(margin)
        PROVE  Accounted' /\ Phased' /\ RetirementSignalled'
    <2> DEFINE n == NewHandle
    <2>1. n \in Handles /\ n = slots + 1 /\ slots \in Nat
      BY <1>0, <1>2, NewHandleType DEF PlayNotPrepared, TypeOK
    <2>2. n \notin records
      BY <2>1 DEF Accounted
    <2>3. /\ slots' = n /\ records' = records \cup {n} /\ owned' = owned /\ selected' = n
          /\ Retire({n}) /\ UNCHANGED worker_vars /\ main_pc = "up"
      BY <1>2 DEF PlayNotPrepared
    <2> HIDE DEF n
    <2>4. \A h \in records' : h <= slots'
      BY <1>0, <2>1, <2>3 DEF Accounted, TypeOK, Handles
    <2>5. active' = active \ {n} /\ retired' = retired \cup {n} /\ (events => queue_event')
      <3>1. {n} \subseteq records' /\ {n} # {}
        BY <2>3
      <3>2. QED
        BY <2>3, <3>1, RetireAccounted, Zenon
    <2>6. QED
      BY <2>2, <2>3, <2>4, <2>5 DEF Accounted, Phased, RetirementSignalled
  <1>3. ASSUME NEW margin \in Margins, PlayNotAllocated(margin)
        PROVE  Accounted' /\ Phased' /\ RetirementSignalled'
    BY <1>3 DEF PlayNotAllocated, Accounted, Phased, RetirementSignalled
  <1>4. CASE FadeBgm
    BY <1>4 DEF FadeBgm, Accounted, Phased, RetirementSignalled
  <1>5. CASE PauseBgm
    BY <1>5 DEF PauseBgm, Accounted, Phased, RetirementSignalled
  <1>6. CASE StopBgm
    <2>1. /\ selected \in records /\ selected' = 0 /\ Retire({selected})
          /\ UNCHANGED <<slots, records, owned, worker_vars>> /\ main_pc = "up"
      BY <1>6 DEF StopBgm, Accounted
    <2>2. /\ active' = active \ {selected} /\ retired' = retired \cup {selected}
          /\ (events => queue_event')
      <3>1. {selected} \subseteq records' /\ {selected} # {}
        BY <2>1
      <3>2. QED
        BY <2>1, <3>1, RetireAccounted, Zenon
    <2>3. QED
      BY <2>1, <2>2 DEF Accounted, Phased, RetirementSignalled
  <1>7. CASE UpdateWait
    BY <1>7 DEF UpdateWait, Accounted, Phased, RetirementSignalled, TypeOK
  <1>8. CASE UpdateService
    <2>1. PICK S \in SUBSET (active \cap owned) : Retire(S)
      BY <1>8 DEF UpdateService, ServiceAll
    <2>2. /\ UNCHANGED <<slots, records, owned, selected, stop_event, events, running,
                         loader_pc, main_pc>>
          /\ update_pc = "service"
      BY <1>8 DEF UpdateService
    <2>3. S \subseteq records'
      BY <2>1, <2>2 DEF Accounted
    <2>4. /\ active' = active \ S /\ retired' = retired \cup S
          /\ (S # {} /\ events => queue_event') /\ (queue_event => queue_event')
      BY <2>1, <2>3, RetireAccounted
    <2>5. Accounted'
      BY <2>1, <2>2, <2>4 DEF Accounted
    <2>6. Phased'
      BY <2>2, <2>4 DEF Phased
    <2>7. RetirementSignalled'
      BY <2>2, <2>4 DEF RetirementSignalled, Phased
    <2>8. QED
      BY <2>5, <2>6, <2>7
  <1>9. CASE LoaderWake
    BY <1>9 DEF LoaderWake, Accounted, Phased, RetirementSignalled, TypeOK
  <1>10. CASE LoaderServe
    <2>1. CASE running
      BY <1>10, <2>1 DEF LoaderServe, ReleaseRetired, LoopHead, Accounted, Phased,
         RetirementSignalled, TypeOK
    <2>2. CASE ~running
      BY <1>10, <2>2 DEF LoaderServe, LoopHead, Accounted, Phased, RetirementSignalled, TypeOK
    <2>3. QED
      BY <2>1, <2>2
  <1>11. CASE StartWorkers
    BY <1>11 DEF StartWorkers, Accounted, Phased, RetirementSignalled
  <1>12. CASE BeginShutdown
    BY <1>12 DEF BeginShutdown, Accounted, Phased, RetirementSignalled
  <1>13. CASE JoinUpdate
    BY <1>13 DEF JoinUpdate, Accounted, Phased, RetirementSignalled
  <1>14. CASE JoinLoader
    BY <1>14 DEF JoinLoader, Accounted, Phased, RetirementSignalled
  <1>15. CASE ReleaseAll
    BY <1>15 DEF ReleaseAll, Accounted, Phased, RetirementSignalled
  <1>16. CASE Clock
    BY <1>16 DEF Clock, Accounted, Phased, RetirementSignalled
  <1>17. CASE UNCHANGED vars
    BY <1>17 DEF vars, Accounted, Phased, RetirementSignalled
  <1>18. QED
    BY <1>1, <1>2, <1>3, <1>4, <1>5, <1>6, <1>7, <1>8, <1>9, <1>10, <1>11, <1>12, <1>13,
       <1>14, <1>15, <1>16, <1>17
    DEF Next, PlayBgm, UpdateWorker, LoaderWorker, Shutdown

(* AInv is an invariant. *)
LEMMA AccountedAlways == Spec => []AInv
  BY AccountedInit, AccountedNext, PTL DEF Spec

(* No stream, record or queue entry is ever lost or left dangling. *)
THEOREM NothingLost == Spec => []Accounted
  BY AccountedAlways, PTL DEF AInv

(* No retired handle ever waits for a loader that nobody will wake. *)
THEOREM NoLostWakeup == Spec => []RetirementSignalled
  BY AccountedAlways, PTL DEF AInv

(* Streams are released by shutdown only after both workers have been joined. *)
THEOREM JoinsFirst == Spec => []JoinedBeforeRelease
  <1>1. AInv => JoinedBeforeRelease
    BY DEF AInv, Phased, JoinedBeforeRelease
  <1>2. QED
    BY <1>1, AccountedAlways, PTL
-----------------------------------------------------------------------------
(* At most one stream stays. *)

\* A condemned track still has the fade that retires it, or is retired already.
Armed(t) == t.retire_after_fade => t.fade_duration # 0 \/ t.retirement_requested

\* u is t some steps later, none of which changed whether it has to leave.
Keeps(t, u) ==
  /\ u.retire_after_fade <=> t.retire_after_fade
  /\ t.retirement_requested => u.retirement_requested
  /\ Armed(t) => Armed(u)

(* A fade that ends passes its verdict on to the retirement request. *)
LEMMA UpdateTrackFadeKeeps ==
  ASSUME NEW t \in Track
  PROVE  Keeps(t, UpdateTrackFade(t))
  <1>1. CASE FadeDone(t)
    <2> DEFINE u == [t EXCEPT !.fade_duration = 0, !.elapsed = 0,
                              !.retirement_requested = t.retire_after_fade]
    <2>1. u.retire_after_fade = t.retire_after_fade
      BY DEF Track
    <2>2. u.retirement_requested = t.retire_after_fade
      BY DEF Track
    <2>3. ~ t.retirement_requested
      BY <1>1 DEF FadeDone
    <2>4. UpdateTrackFade(t) = u
      BY <1>1 DEF UpdateTrackFade
    <2> HIDE DEF u
    <2>5. QED
      BY <2>1, <2>2, <2>3, <2>4 DEF Keeps, Armed
  <1>2. CASE ~FadeDone(t)
    BY <1>2 DEF UpdateTrackFade, Keeps, Armed
  <1>3. QED
    BY <1>1, <1>2

(* Starting a track and playing it to its end only ever request retirement. *)
LEMMA ServiceTrackKeeps ==
  ASSUME NEW t \in Track, NEW ends \in BOOLEAN, NEW played \in BOOLEAN
  PROVE  Keeps(t, ServiceTrack(t, ends, played))
  <1> DEFINE st == StartTrack(t, played)
             el == IF st.elapsed > 0 THEN 0 ELSE st.elapsed
             begun == [st EXCEPT !.delayed = FALSE, !.start_in = 0, !.elapsed = el]
             Same(u) == /\ u.retire_after_fade = t.retire_after_fade
                        /\ u.fade_duration = t.fade_duration
                        /\ u.retirement_requested = t.retirement_requested
  <1>1. st \in Track /\ Same(st)
    BY StartTrackType DEF StartTrack, Track
  <1>2. el \in Int
    BY <1>1, TrackFields
  <1> HIDE DEF st, el
  <1>3. begun \in Track
    BY <1>1, <1>2, Literals, TimeUpdate, Zenon
  <1>4. Same(begun)
    BY <1>1 DEF Track
  <1> HIDE DEF begun
  <1>5. Same([begun EXCEPT !.ended = TRUE])
    BY <1>3, <1>4 DEF Track
  <1>6. [t EXCEPT !.retirement_requested = TRUE].retire_after_fade = t.retire_after_fade
    BY DEF Track
  <1>7. [t EXCEPT !.retirement_requested = TRUE].retirement_requested
    BY DEF Track
  <1>8. Same(t) /\ Same([t EXCEPT !.ended = TRUE])
    BY DEF Track
  <1>9. \/ ServiceTrack(t, ends, played) = [t EXCEPT !.retirement_requested = TRUE]
        \/ ServiceTrack(t, ends, played) = [begun EXCEPT !.ended = TRUE]
        \/ ServiceTrack(t, ends, played) = begun
        \/ ServiceTrack(t, ends, played) = [t EXCEPT !.ended = TRUE]
        \/ ServiceTrack(t, ends, played) = t
    <2> DEFINE due == ~t.started /\ (~t.delayed \/ t.start_in < 0)
    <2>1. CASE due
      BY <2>1 DEF ServiceTrack, begun, el, st
    <2>2. CASE ~due
      BY <2>2 DEF ServiceTrack
    <2>3. QED
      BY <2>1, <2>2
  <1>10. QED
    BY <1>4, <1>5, <1>6, <1>7, <1>8, <1>9 DEF Keeps, Armed

(* Time alone changes nothing about who leaves. *)
LEMMA AgeKeeps ==
  ASSUME NEW t \in Track
  PROVE  Keeps(t, Age(t))
  <1>1. /\ Age(t).retire_after_fade = t.retire_after_fade
        /\ Age(t).fade_duration = t.fade_duration
        /\ Age(t).retirement_requested = t.retirement_requested
    BY DEF Age, Track
  <1>2. QED
    BY <1>1 DEF Keeps, Armed

(* Neither does a pause. *)
LEMMA TogglePauseKeeps ==
  ASSUME NEW t \in Track
  PROVE  Keeps(t, TogglePause(t))
  <1>1. /\ TogglePause(t).retire_after_fade = t.retire_after_fade
        /\ TogglePause(t).fade_duration = t.fade_duration
        /\ TogglePause(t).retirement_requested = t.retirement_requested
    BY DEF TogglePause, Track
  <1>2. QED
    BY <1>1 DEF Keeps, Armed

(* A stop requests retirement and takes nothing back. *)
LEMMA StopTrackKeeps ==
  ASSUME NEW t \in Track, NEW stopped \in BOOLEAN
  PROVE  Keeps(t, StopTrack(t, stopped)) /\ StopTrack(t, stopped).retirement_requested
  <1>1. StopTrack(t, stopped).retire_after_fade = t.retire_after_fade
    BY DEF StopTrack, Track
  <1>2. StopTrack(t, stopped).retirement_requested
    BY DEF StopTrack, Track
  <1>3. QED
    BY <1>1, <1>2 DEF Keeps, Armed

(* A fade begun with retirement condemns its track and arms the fade; one
   begun without retirement condemns nothing. *)
LEMMA BeginFadeCondemns ==
  ASSUME NEW t \in Track, NEW d \in Nat, NEW m \in Nat
  PROVE  /\ d # 0 => BeginFade(t, d, m, TRUE).retire_after_fade /\ Armed(BeginFade(t, d, m, TRUE))
         /\ ~ t.retire_after_fade => ~ BeginFade(t, d, m, FALSE).retire_after_fade
         /\ Armed(t) /\ ~ t.retire_after_fade => Armed(BeginFade(t, d, m, FALSE))
         /\ BeginFade(t, d, m, TRUE).retirement_requested <=> t.retirement_requested
         /\ BeginFade(t, d, m, FALSE).retirement_requested <=> t.retirement_requested
  BY DEF BeginFade, Armed, Track

(* Updating every fade keeps every stream's fate. *)
LEMMA UpdateFadesKeep ==
  ASSUME TypeOK
  PROVE  \A h \in owned : Keeps(track[h], UpdateFades(track)[h])
  <1> SUFFICES ASSUME NEW h \in owned
               PROVE  Keeps(track[h], UpdateFades(track)[h])
    OBVIOUS
  <1>1. h \in Handles /\ track[h] \in Track
    BY DEF TypeOK
  <1>2. UpdateFades(track)[h] = UpdateTrackFade(track[h])
    BY <1>1 DEF UpdateFades
  <1>3. QED
    BY <1>1, <1>2, UpdateTrackFadeKeeps

(* A replacement leaves no stream that would stay. *)
LEMMA ReplacementCondemns ==
  ASSUME TypeOK, OneStreamStays, NEW margin \in Margins, NEW h \in owned
  PROVE  LET t == FadedForReplacement(margin)[h]
         IN  /\ t.retire_after_fade \/ t.retirement_requested
             /\ Armed(t)
  <1> DEFINE faded == UpdateFades(track)
             Leaves(t) == (t.retire_after_fade \/ t.retirement_requested) /\ Armed(t)
  <1>1. h \in Handles /\ track[h] \in Track /\ faded \in [Handles -> Track]
    BY FadesType DEF TypeOK
  <1>2. Keeps(track[h], faded[h])
    BY UpdateFadesKeep
  <1>3. h # selected => Leaves(track[h])
    BY DEF OneStreamStays, Armed
  <1>4. h # selected => Leaves(faded[h])
    BY <1>2, <1>3 DEF Keeps
  <1> HIDE DEF faded, Leaves
  <1>5. CASE selected = 0
    <2>1. h # selected
      BY <1>1, <1>5 DEF Handles
    <2>2. FadedForReplacement(margin) = faded \/ FadedForReplacement(margin) = track
      BY <1>5 DEF FadedForReplacement, faded
    <2>3. QED
      BY <1>3, <1>4, <2>1, <2>2 DEF Leaves
  <1>6. CASE selected # 0
    <2>1. FadedForReplacement(margin) = FadeHandle(selected, ReplaceFade, margin, TRUE)
      BY <1>6 DEF FadedForReplacement
    <2> DEFINE doomed == BeginFade(faded[selected], ReplaceFade, margin, TRUE)
    <2>2. CASE h # selected
      <3>1. FadedForReplacement(margin)[h] = faded[h]
        BY <1>1, <2>1, <2>2 DEF FadeHandle, faded
      <3>2. QED
        BY <1>4, <2>2, <3>1 DEF Leaves
    <2>3. CASE h = selected
      <3>1. FadedForReplacement(margin) = [faded EXCEPT ![selected] = doomed]
        BY <2>1, <2>3 DEF FadeHandle, faded
      <3>2. FadedForReplacement(margin)[h] = doomed
        BY <1>1, <2>3, <3>1
      <3>3. faded[selected] \in Track /\ margin \in Nat /\ ReplaceFade \in Nat /\ ReplaceFade # 0
        BY <1>1, <2>3, PlaybackAssumption
      <3>4. doomed.retire_after_fade /\ Armed(doomed)
        BY <3>3, BeginFadeCondemns
      <3>5. QED
        BY <3>2, <3>4
    <2>4. QED
      BY <2>2, <2>3
  <1>7. QED
    BY <1>5, <1>6

(* PauseBgm keeps every stream's fate. *)
LEMMA PauseKeeps ==
  ASSUME TypeOK, PauseBgm
  PROVE  \A h \in owned : Keeps(track[h], track'[h])
  <1>1. selected \in owned
        /\ track' = [track EXCEPT ![selected] = TogglePause(track[selected])]
    BY DEF PauseBgm
  <1>2. \A h \in owned : track[h] \in Track /\ h \in Handles
    BY DEF TypeOK
  <1>3. Keeps(track[selected], track'[selected])
    BY <1>1, <1>2, TogglePauseKeeps DEF TypeOK
  <1>4. \A h \in owned : h # selected => track'[h] = track[h]
    BY <1>1, <1>2 DEF TypeOK
  <1>5. QED
    BY <1>3, <1>4 DEF Keeps

(* So does StopBgm, which also requests the retirement of its stream. *)
LEMMA StopKeeps ==
  ASSUME TypeOK, StopBgm
  PROVE  /\ \A h \in owned : Keeps(track[h], track'[h])
         /\ selected \in owned => track'[selected].retirement_requested
  <1>1. PICK stopped \in BOOLEAN :
          track' = IF selected \in owned
                   THEN [track EXCEPT ![selected] = StopTrack(track[selected], stopped)]
                   ELSE track
    BY DEF StopBgm
  <1> DEFINE halted == StopTrack(track[selected], stopped)
  <1>2. \A h \in owned : track[h] \in Track /\ h \in Handles
    BY DEF TypeOK
  <1>3. selected \in owned => Keeps(track[selected], halted) /\ halted.retirement_requested
    BY <1>2, StopTrackKeeps
  <1>4. track' = IF selected \in owned THEN [track EXCEPT ![selected] = halted] ELSE track
    BY <1>1
  <1> HIDE DEF halted
  <1>5. \A h \in owned : h # selected => track'[h] = track[h]
    BY <1>2, <1>4 DEF TypeOK
  <1>6. selected \in owned => track'[selected] = halted
    BY <1>2, <1>4 DEF TypeOK
  <1>7. QED
    BY <1>3, <1>5, <1>6 DEF Keeps

(* So does a service tick, fades included. *)
LEMMA ServiceKeeps ==
  ASSUME TypeOK, UpdateService
  PROVE  \A h \in owned : Keeps(track[h], track'[h])
  <1>1. PICK ending \in SUBSET (active \cap owned), playing \in SUBSET (active \cap owned) :
          ServiceAll(ending, playing)
    BY DEF UpdateService
  <1> DEFINE faded == UpdateFades(track)
  <1>2. faded \in [Handles -> Track] /\ \A h \in owned : Keeps(track[h], faded[h])
    BY FadesType, UpdateFadesKeep
  <1>3. track' = [h \in Handles |->
                    IF h \in active \cap owned /\ ~faded[h].retirement_requested
                    THEN ServiceTrack(faded[h], h \in ending, h \in playing)
                    ELSE faded[h]]
    BY <1>1 DEF ServiceAll
  <1> HIDE DEF faded
  <1> SUFFICES ASSUME NEW h \in owned
               PROVE  Keeps(track[h], track'[h])
    OBVIOUS
  <1>4. h \in Handles /\ faded[h] \in Track
        /\ (h \in ending) \in BOOLEAN /\ (h \in playing) \in BOOLEAN
    BY <1>2 DEF TypeOK
  <1>5. Keeps(faded[h], ServiceTrack(faded[h], h \in ending, h \in playing))
    BY <1>4, ServiceTrackKeeps, Zenon
  <1>6. \/ track'[h] = ServiceTrack(faded[h], h \in ending, h \in playing)
        \/ track'[h] = faded[h]
    BY <1>3, <1>4
  <1>7. QED
    BY <1>2, <1>5, <1>6 DEF Keeps

(* So does the passing of time. *)
LEMMA ClockKeeps ==
  ASSUME TypeOK, Clock
  PROVE  \A h \in owned : Keeps(track[h], track'[h])
  BY AgeKeeps DEF Clock, TypeOK

(* A step that only keeps fates, frees streams, or deselects a stream that is
   leaving or gone keeps the invariant. *)
LEMMA KeepsOneStream ==
  ASSUME OneStreamStays, owned' \subseteq owned,
         \A h \in owned' : Keeps(track[h], track'[h]),
         \/ selected' = selected
         \/ \A h \in owned' : h # selected \/ track'[h].retirement_requested,
         \A h \in owned' : h = selected' => h = selected
  PROVE  OneStreamStays'
  BY DEF OneStreamStays, Keeps, Armed

\* Together with the accounting OneStreamStays is inductive.
SInv == AInv /\ OneStreamStays

(* Every step keeps at most one stream staying. *)
LEMMA OneStreamNext == SInv /\ [Next]_vars => OneStreamStays'
  <1> SUFFICES ASSUME SInv, [Next]_vars
               PROVE  OneStreamStays'
    OBVIOUS
  <1> USE DEF playback_vars, worker_vars
  <1>0. TypeOK /\ Accounted /\ OneStreamStays
    BY DEF SInv, AInv
  <1>a. ASSUME UNCHANGED <<owned, selected, track>>
        PROVE  OneStreamStays'
    BY <1>0, <1>a DEF OneStreamStays
  <1>1. ASSUME NEW margin \in Margins, NEW delay \in Delays, NEW looping \in BOOLEAN,
               NEW short \in BOOLEAN, NEW played \in BOOLEAN,
               PlayPrepared(delay, margin, looping, short, played)
        PROVE  OneStreamStays'
    <2> DEFINE n == NewHandle
               faded == FadedForReplacement(margin)
               prepared == PreparedTrack(looping, short)
               new == ScheduleStart(prepared, delay, played)
    <2>1. n \in Handles /\ n \notin owned /\ faded \in [Handles -> Track]
      <3>1. n \in Handles /\ n = slots + 1 /\ slots \in Nat
        BY <1>0, <1>1, NewHandleType DEF PlayPrepared, TypeOK
      <3>2. n \notin records
        BY <1>0, <3>1 DEF Accounted
      <3>3. QED
        BY <1>0, <3>1, <3>2, FadesType DEF Accounted
    <2>2. /\ owned' = owned \cup {n} /\ selected' = n
          /\ track' = [faded EXCEPT ![n] = new]
      BY <1>1 DEF PlayPrepared
    <2>3. ~ new.retire_after_fade
      <3>1. prepared \in Track /\ ~ prepared.retire_after_fade
        <4>1. prepared = [BlankTrack EXCEPT !.looping = looping, !.ended = short /\ ~looping]
          BY DEF PreparedTrack
        <4>2. ~ prepared.retire_after_fade
          BY <4>1 DEF BlankTrack
        <4>3. (short /\ ~looping) \in BOOLEAN
          OBVIOUS
        <4> HIDE DEF prepared
        <4>4. prepared \in Track
          BY <4>1, <4>3, BlankTrackType, StatusUpdate, Zenon
        <4>5. QED
          BY <4>2, <4>4
      <3> HIDE DEF prepared
      <3>2. QED
        BY <3>1 DEF ScheduleStart, StartTrack, Track
    <2> HIDE DEF n, faded, new
    <2>4. track'[n] = new /\ \A h \in owned : track'[h] = faded[h]
      BY <1>0, <2>1, <2>2 DEF TypeOK
    <2>5. \A h \in owned : /\ faded[h].retire_after_fade \/ faded[h].retirement_requested
                           /\ Armed(faded[h])
      BY <1>0, ReplacementCondemns DEF faded
    <2>6. QED
      BY <2>1, <2>2, <2>3, <2>4, <2>5 DEF OneStreamStays, Armed
  <1>2. ASSUME NEW margin \in Margins, PlayNotPrepared(margin) \/ PlayNotAllocated(margin)
        PROVE  OneStreamStays'
    <2>1. owned' = owned /\ selected' = NewHandle /\ track' = FadedForReplacement(margin)
      BY <1>2 DEF PlayNotPrepared, PlayNotAllocated
    <2>2. NewHandle \notin owned
      BY <1>0, PlaybackAssumption DEF NewHandle, Accounted, TypeOK, Handles
    <2>3. \A h \in owned : /\ track'[h].retire_after_fade \/ track'[h].retirement_requested
                           /\ Armed(track'[h])
      BY <1>0, <2>1, ReplacementCondemns
    <2>4. QED
      BY <2>1, <2>2, <2>3 DEF OneStreamStays, Armed
  <1>3. CASE FadeBgm
    <2> DEFINE faded == UpdateFades(track)
    <2>1. PICK duration \in FadeDurations : track' = FadeHandle(selected, duration, 0, FALSE)
      BY <1>3 DEF FadeBgm
    <2>2. owned' = owned /\ selected' = selected
      BY <1>3 DEF FadeBgm
    <2>3. faded \in [Handles -> Track] /\ \A h \in owned : Keeps(track[h], faded[h])
      BY <1>0, FadesType, UpdateFadesKeep
    <2>4. duration \in Nat /\ 0 \in Nat /\ owned \subseteq Handles
      BY <1>0, PlaybackAssumption DEF TypeOK
    <2>5. \A h \in owned : h # selected => track'[h] = faded[h]
      BY <2>1, <2>3, <2>4 DEF FadeHandle
    <2>6. selected \in owned => track'[selected] = BeginFade(faded[selected], duration, 0, FALSE)
      <3>1. ASSUME selected \in owned
            PROVE  track' = [faded EXCEPT ![selected] = BeginFade(faded[selected], duration, 0, FALSE)]
        BY <2>1, <3>1 DEF FadeHandle
      <3> HIDE DEF faded
      <3>2. QED
        BY <2>3, <2>4, <3>1
    <2> HIDE DEF faded
    <2>7. \A h \in owned : /\ h # selected => faded[h].retire_after_fade \/ faded[h].retirement_requested
                           /\ h = selected => ~ faded[h].retire_after_fade
                           /\ Armed(faded[h])
      BY <1>0, <2>3 DEF OneStreamStays, Keeps, Armed
    <2>8. selected \in owned => ~ track'[selected].retire_after_fade
      <3> SUFFICES ASSUME selected \in owned
                   PROVE  ~ track'[selected].retire_after_fade
        OBVIOUS
      <3> DEFINE t == faded[selected]
      <3>1. t \in Track /\ ~ t.retire_after_fade
        BY <2>3, <2>4, <2>7
      <3> HIDE DEF t
      <3>2. ~ BeginFade(t, duration, 0, FALSE).retire_after_fade
        BY <2>4, <3>1, BeginFadeCondemns, Zenon
      <3>3. QED
        BY <2>6, <3>2 DEF t
    <2>9. ASSUME NEW h \in owned
          PROVE  LET t == track'[h]
                 IN  /\ h # selected => t.retire_after_fade \/ t.retirement_requested
                     /\ h = selected => ~ t.retire_after_fade
                     /\ t.retire_after_fade => t.fade_duration # 0 \/ t.retirement_requested
      <3>1. CASE h = selected
        BY <2>8, <3>1
      <3>2. CASE h # selected
        BY <2>5, <2>7, <3>2 DEF Armed
      <3>3. QED
        BY <3>1, <3>2
    <2>10. QED
      BY <2>2, <2>9 DEF OneStreamStays
  <1>4. CASE PauseBgm
    <2>1. owned' = owned /\ selected' = selected
      BY <1>4 DEF PauseBgm
    <2>2. QED
      BY <1>0, <1>4, <2>1, PauseKeeps, KeepsOneStream
  <1>5. CASE StopBgm
    <2>1. owned' = owned /\ selected' = 0
      BY <1>5 DEF StopBgm
    <2>2. \A h \in owned : h # 0
      BY <1>0 DEF TypeOK, Handles
    <2>3. QED
      BY <1>0, <1>5, <2>1, <2>2, StopKeeps, KeepsOneStream
  <1>6. CASE UpdateService
    <2>1. owned' = owned /\ selected' = selected
      BY <1>6 DEF UpdateService
    <2>2. QED
      BY <1>0, <1>6, <2>1, ServiceKeeps, KeepsOneStream
  <1>7. CASE LoaderServe
    <2>1. CASE running
      <3>1. ReleaseRetired
        BY <1>7, <2>1 DEF LoaderServe
      <3>2. \A h \in owned' : h \in owned /\ h \notin retired /\ track'[h] = track[h]
        BY <1>0, <3>1 DEF ReleaseRetired, TypeOK
      <3>3. \A h \in owned' : h # 0
        BY <1>0, <3>2 DEF TypeOK, Handles
      <3>4. selected' = selected \/ (selected \in retired /\ selected' = 0)
        BY <3>1 DEF ReleaseRetired
      <3>5. QED
        BY <1>0, <3>2, <3>3, <3>4 DEF OneStreamStays
    <2>2. CASE ~running
      BY <1>7, <1>a, <2>2 DEF LoaderServe
    <2>3. QED
      BY <2>1, <2>2
  <1>8. CASE ReleaseAll
    BY <1>8 DEF ReleaseAll, OneStreamStays
  <1>9. CASE Clock
    <2>1. owned' = owned /\ selected' = selected
      BY <1>9 DEF Clock
    <2>2. QED
      BY <1>0, <1>9, <2>1, ClockKeeps, KeepsOneStream
  <1>10. CASE \/ UpdateWait \/ LoaderWake \/ StartWorkers \/ BeginShutdown
              \/ JoinUpdate \/ JoinLoader \/ UNCHANGED vars
    BY <1>a, <1>10 DEF UpdateWait, LoaderWake, StartWorkers, BeginShutdown, JoinUpdate,
       JoinLoader, vars
  <1>11. QED
    BY <1>1, <1>2, <1>3, <1>4, <1>5, <1>6, <1>7, <1>8, <1>9, <1>10
    DEF Next, PlayBgm, UpdateWorker, LoaderWorker, Shutdown

(* A replaced stream is always on its way out and the selected one never is
   because of an earlier replacement. *)
THEOREM OnlyOneStays == Spec => []OneStreamStays
  <1>1. Init => SInv
    BY AccountedInit DEF Init, SInv, OneStreamStays
  <1>2. SInv /\ [Next]_vars => SInv'
    BY AccountedNext, OneStreamNext DEF SInv
  <1>3. SInv => OneStreamStays
    BY DEF SInv
  <1>4. QED
    BY <1>1, <1>2, <1>3, PTL DEF Spec
-----------------------------------------------------------------------------
(* No way back. *)

\* u has to leave if t had to.
Worsens(t, u) ==
  /\ t.retire_after_fade => u.retire_after_fade
  /\ t.retirement_requested => u.retirement_requested

(* A replacement takes no verdict back, not even that of a track fading out. *)
LEMMA ReplacementWorsens ==
  ASSUME TypeOK, NEW margin \in Margins, NEW h \in owned
  PROVE  Worsens(track[h], FadedForReplacement(margin)[h])
  <1> DEFINE faded == UpdateFades(track)
             doomed == BeginFade(faded[selected], ReplaceFade, margin, TRUE)
  <1>1. h \in Handles /\ faded \in [Handles -> Track] /\ Keeps(track[h], faded[h])
    BY FadesType, UpdateFadesKeep DEF TypeOK
  <1> HIDE DEF faded
  <1>2. selected \in owned =>
          /\ doomed.retire_after_fade
          /\ doomed.retirement_requested <=> faded[selected].retirement_requested
    <2>1. ASSUME selected \in owned
          PROVE  faded[selected] \in Track
      BY <1>1, <2>1 DEF TypeOK
    <2>2. margin \in Nat /\ ReplaceFade \in Nat /\ ReplaceFade # 0
      BY PlaybackAssumption
    <2>3. QED
      BY <2>1, <2>2, BeginFadeCondemns
  <1> HIDE DEF doomed
  <1>3. \/ FadedForReplacement(margin) = track
        \/ FadedForReplacement(margin) = faded
        \/ selected \in owned /\ FadedForReplacement(margin) = [faded EXCEPT ![selected] = doomed]
    BY DEF FadedForReplacement, FadeHandle, faded, doomed
  <1>4. \/ FadedForReplacement(margin)[h] = track[h]
        \/ FadedForReplacement(margin)[h] = faded[h]
        \/ h = selected /\ selected \in owned /\ FadedForReplacement(margin)[h] = doomed
    BY <1>1, <1>3
  <1>5. QED
    BY <1>1, <1>2, <1>4 DEF Worsens, Keeps

(* No step takes back a condemnation or a requested retirement. *)
LEMMA WorsensNext ==
  ASSUME SInv, [Next]_vars, NEW h \in owned, h \in owned'
  PROVE  Worsens(track[h], track'[h])
  <1> USE DEF playback_vars, worker_vars
  <1>0. TypeOK /\ Accounted /\ OneStreamStays /\ h \in Handles
    BY DEF SInv, AInv, TypeOK
  <1>a. Keeps(track[h], track'[h]) => Worsens(track[h], track'[h])
    BY DEF Keeps, Worsens
  <1>1. CASE PlayBgm
    <2>1. PICK margin \in Margins :
            \/ \E delay \in Delays, looping, short, played \in BOOLEAN :
                 PlayPrepared(delay, margin, looping, short, played)
            \/ PlayNotPrepared(margin)
            \/ PlayNotAllocated(margin)
      BY <1>1 DEF PlayBgm
    <2> DEFINE faded == FadedForReplacement(margin)
    <2>2. faded \in [Handles -> Track]
      BY <1>0, FadesType
    <2>3. track'[h] = faded[h]
      <3>1. CASE PlayNotPrepared(margin) \/ PlayNotAllocated(margin)
        BY <3>1 DEF PlayNotPrepared, PlayNotAllocated
      <3>2. ASSUME NEW delay \in Delays, NEW looping \in BOOLEAN, NEW short \in BOOLEAN,
                   NEW played \in BOOLEAN, PlayPrepared(delay, margin, looping, short, played)
            PROVE  track'[h] = faded[h]
        <4> DEFINE new == ScheduleStart(PreparedTrack(looping, short), delay, played)
        <4>1. NewHandle # h
          BY <1>0, <3>2, NewHandleType DEF PlayPrepared, Accounted, TypeOK
        <4>2. track' = [faded EXCEPT ![NewHandle] = new]
          BY <3>2 DEF PlayPrepared
        <4> HIDE DEF faded, new
        <4>3. QED
          BY <1>0, <2>2, <4>1, <4>2
      <3>3. QED
        BY <2>1, <3>1, <3>2
    <2>4. QED
      BY <1>0, <2>3, ReplacementWorsens
  <1>2. CASE FadeBgm
    <2> DEFINE faded == UpdateFades(track)
    <2>1. PICK duration \in FadeDurations : track' = FadeHandle(selected, duration, 0, FALSE)
      BY <1>2 DEF FadeBgm
    <2>2. faded \in [Handles -> Track] /\ Keeps(track[h], faded[h])
      BY <1>0, FadesType, UpdateFadesKeep
    <2> DEFINE louder == BeginFade(faded[selected], duration, 0, FALSE)
    <2>3. selected \in owned => (louder.retirement_requested <=> faded[selected].retirement_requested)
      <3> SUFFICES ASSUME selected \in owned
                   PROVE  louder.retirement_requested <=> faded[selected].retirement_requested
        OBVIOUS
      <3> DEFINE t == faded[selected]
      <3>1. duration \in Nat /\ 0 \in Nat /\ t \in Track
        BY <1>0, <2>2, PlaybackAssumption DEF TypeOK
      <3> HIDE DEF t
      <3>2. BeginFade(t, duration, 0, FALSE).retirement_requested <=> t.retirement_requested
        BY <3>1, BeginFadeCondemns, Zenon
      <3>3. QED
        BY <3>2 DEF t
    <2> HIDE DEF louder, faded
    <2>4. track' = IF selected \in owned THEN [faded EXCEPT ![selected] = louder] ELSE faded
      BY <2>1 DEF FadeHandle, faded, louder
    <2>5. CASE h = selected
      <3>1. track'[h] = louder /\ ~ track[h].retire_after_fade
        BY <1>0, <2>2, <2>4, <2>5 DEF OneStreamStays
      <3>2. QED
        BY <2>2, <2>3, <2>5, <3>1 DEF Worsens, Keeps
    <2>6. CASE h # selected
      <3>1. track'[h] = faded[h]
        BY <1>0, <2>2, <2>4, <2>6
      <3>2. QED
        BY <2>2, <3>1 DEF Worsens, Keeps
    <2>7. QED
      BY <2>5, <2>6
  <1>3. CASE PauseBgm \/ StopBgm \/ UpdateService \/ Clock
    BY <1>0, <1>3, <1>a, PauseKeeps, StopKeeps, ServiceKeeps, ClockKeeps
  <1>4. CASE LoaderServe \/ ReleaseAll
    <2>1. track'[h] = track[h]
      BY <1>0, <1>4 DEF LoaderServe, ReleaseRetired, ReleaseAll
    <2>2. QED
      BY <2>1 DEF Worsens
  <1>5. CASE \/ UpdateWait \/ LoaderWake \/ StartWorkers \/ BeginShutdown
             \/ JoinUpdate \/ JoinLoader \/ UNCHANGED vars
    <2>1. track' = track
      BY <1>5 DEF UpdateWait, LoaderWake, StartWorkers, BeginShutdown, JoinUpdate,
         JoinLoader, vars
    <2>2. QED
      BY <2>1 DEF Worsens
  <1>6. QED
    BY <1>1, <1>2, <1>3, <1>4, <1>5 DEF Next, UpdateWorker, LoaderWorker, Shutdown

(* A track once condemned or asked to retire stays so until it is freed. *)
THEOREM VerdictsAreFinal == Spec => NeverTakenBack
  <1>1. SInv /\ [Next]_vars =>
          [\A h \in owned \cap owned' :
             /\ track[h].retire_after_fade => track'[h].retire_after_fade
             /\ track[h].retirement_requested => track'[h].retirement_requested]_vars
    BY WorsensNext DEF Worsens
  <1>2. Init => SInv
    BY AccountedInit DEF Init, SInv, OneStreamStays
  <1>3. SInv /\ [Next]_vars => SInv'
    BY AccountedNext, OneStreamNext DEF SInv
  <1>4. QED
    BY <1>1, <1>2, <1>3, PTL DEF Spec, NeverTakenBack
-----------------------------------------------------------------------------
(* The implementation of BgmLifecycle. *)

Phase == [h \in Handles |-> PhaseOf(h)]

(* The requests of the lifecycle are the handles. *)
LEMMA RequestsAreHandles == Lifecycle!Requests = Handles
  BY DEF Lifecycle!Requests, Handles

(* A new handle is the next unused request, and only the selected request can
   be playing. *)
LEMMA NewIsNextUnused ==
  ASSUME AInv, NewHandle # 0
  PROVE  NewHandle \in Handles /\ Lifecycle!NextUnused(NewHandle)
  <1>1. NewHandle \in Handles /\ NewHandle = slots + 1 /\ slots \in Nat
    BY NewHandleType DEF AInv, TypeOK
  <1>2. PhaseOf(NewHandle) = "unused"
    BY <1>1 DEF PhaseOf
  <1>3. \A g \in 1..(NewHandle - 1) : g \in Handles /\ PhaseOf(g) # "unused"
    <2> SUFFICES ASSUME NEW g \in 1..(NewHandle - 1)
                 PROVE  g \in Handles /\ PhaseOf(g) # "unused"
      OBVIOUS
    <2>1. g \in Handles /\ ~ (g > slots)
      BY <1>1, PlaybackAssumption DEF Handles
    <2>2. QED
      BY <2>1 DEF PhaseOf
  <1>4. QED
    BY <1>1, <1>2, <1>3 DEF Lifecycle!NextUnused

(* PlayBgm, prepared or not, implements a choice. *)
LEMMA PlayImplements ==
  ASSUME AInv, PlayBgm
  PROVE  Lifecycle!LifecycleNext
  <1>0. Accounted /\ TypeOK
    BY DEF AInv
  <1>1. CASE NewHandle # 0
    <2> DEFINE n == NewHandle
    <2>1. n \in Handles /\ n = slots + 1 /\ slots \in Nat /\ n \notin records
      BY <1>0, <1>1, NewHandleType DEF Accounted, TypeOK
    <2>2. slots' = n /\ records' = records \cup {n} /\ selected' = n
          /\ (retired' = retired \/ retired' = retired \cup {n})
      BY <1>1 DEF PlayBgm, PlayPrepared, PlayNotPrepared, PlayNotAllocated, Retire
    <2> HIDE DEF n
    <2>3. PICK start \in {"playing", "retired"} :
            start = IF n \in retired' THEN "retired" ELSE "playing"
      OBVIOUS
    <2>4. ASSUME NEW h \in Handles
          PROVE  PhaseOf(h)' = IF h = n THEN start
                               ELSE IF h = selected /\ PhaseOf(h) = "playing" THEN "leaving"
                               ELSE PhaseOf(h)
      <3>1. CASE h = n
        BY <2>1, <2>2, <2>3, <3>1 DEF PhaseOf
      <3>2. CASE h # n
        BY <1>0, <2>1, <2>2, <3>2 DEF PhaseOf, Handles
      <3>3. QED
        BY <3>1, <3>2
    <2>5. Phase' = [Lifecycle!Replaced EXCEPT ![n] = start]
      BY <2>1, <2>4, RequestsAreHandles DEF Phase, Lifecycle!Replaced
    <2>6. Lifecycle!Choose(n)
      <3>1. Lifecycle!NextUnused(n)
        BY <1>1, NewIsNextUnused DEF n
      <3>2. [h \in Handles |-> PhaseOf(h)]' = [Lifecycle!Replaced EXCEPT ![n] = start]
        BY <2>5 DEF Phase
      <3>3. QED
        BY <2>2, <2>3, <3>1, <3>2, Zenon DEF Lifecycle!Choose
    <2>7. QED
      BY <2>1, <2>6, RequestsAreHandles DEF Lifecycle!LifecycleNext
  <1>2. CASE NewHandle = 0
    <2>1. PICK margin \in Margins : PlayNotAllocated(margin)
      BY <1>2 DEF PlayBgm, PlayPrepared, PlayNotPrepared
    <2>2. UNCHANGED <<slots, records, retired>> /\ selected' = 0
      BY <2>1 DEF PlayNotAllocated
    <2>3. \A h \in Handles : PhaseOf(h) # "unused"
      BY <1>0, <1>2, PlaybackAssumption DEF PhaseOf, NewHandle, Handles, TypeOK
    <2>4. \A h \in Handles :
            PhaseOf(h)' = IF h = selected /\ PhaseOf(h) = "playing" THEN "leaving" ELSE PhaseOf(h)
      BY <2>2 DEF PhaseOf, Handles
    <2>5. QED
      BY <2>2, <2>3, <2>4, RequestsAreHandles
      DEF Lifecycle!LifecycleNext, Lifecycle!ChooseNone, Lifecycle!Replaced
  <1>3. QED
    BY <1>1, <1>2

(* StopBgm implements a stop. *)
LEMMA StopImplements ==
  ASSUME AInv, StopBgm
  PROVE  Lifecycle!LifecycleNext
  <1>1. selected \in records /\ selected # 0 /\ selected' = 0 /\ Retire({selected})
        /\ UNCHANGED <<slots, records>> /\ selected \in Handles /\ selected <= slots
    BY DEF AInv, Accounted, TypeOK, StopBgm, Handles
  <1>2. retired' = retired \cup {selected}
    BY <1>1 DEF Retire
  <1>3. \A h \in Handles : PhaseOf(h)' = IF h = selected THEN "retired" ELSE PhaseOf(h)
    <2>1. slots \in Nat
      BY DEF AInv, TypeOK
    <2>2. QED
      BY <1>1, <1>2, <2>1 DEF PhaseOf, Handles
  <1>4. QED
    BY <1>1, <1>3 DEF Lifecycle!LifecycleNext, Lifecycle!Stop

(* A service tick retires what still plays or leaves, or nothing. *)
LEMMA ServiceImplements ==
  ASSUME AInv, UpdateService
  PROVE  Lifecycle!LifecycleNext \/ UNCHANGED Lifecycle!lifecycle_vars
  <1>1. PICK S \in SUBSET (active \cap owned) : Retire(S)
    BY DEF UpdateService, ServiceAll
  <1>2. UNCHANGED <<slots, records, selected>>
    BY DEF UpdateService
  <1>3. S \subseteq records /\ S \subseteq Handles /\ S \cap retired = {}
        /\ \A h \in S : h <= slots
    BY <1>1 DEF AInv, Accounted, TypeOK
  <1>4. retired' = retired \cup S
    BY <1>1, <1>2, <1>3 DEF Retire
  <1>5. slots \in Nat
    BY DEF AInv, TypeOK
  <1>6. \A h \in Handles : PhaseOf(h)' = IF h \in S THEN "retired" ELSE PhaseOf(h)
    BY <1>2, <1>3, <1>4, <1>5 DEF PhaseOf, Handles
  <1>7. \A h \in S : PhaseOf(h) \in {"playing", "leaving"}
    BY <1>3, <1>5 DEF PhaseOf, Handles
  <1>8. CASE S = {}
    BY <1>2, <1>6, <1>8 DEF Lifecycle!lifecycle_vars
  <1>9. CASE S # {}
    <2>1. Lifecycle!Expire(S)
      BY <1>2, <1>3, <1>6, <1>7, <1>9, RequestsAreHandles DEF Lifecycle!Expire
    <2>2. S \in SUBSET Lifecycle!Requests
      BY <1>3, RequestsAreHandles
    <2>3. QED
      BY <2>1, <2>2 DEF Lifecycle!LifecycleNext
  <1>10. QED
    BY <1>8, <1>9

(* A loader pass frees every retired request, or nothing. *)
LEMMA LoaderImplements ==
  ASSUME AInv, LoaderServe
  PROVE  Lifecycle!LifecycleNext \/ UNCHANGED Lifecycle!lifecycle_vars
  <1>0. slots \in Nat /\ retired \subseteq records /\ retired \subseteq Handles
        /\ \A h \in records : h <= slots
    BY DEF AInv, Accounted, TypeOK
  <1>1. CASE running
    <2>1. ReleaseRetired
      BY <1>1 DEF LoaderServe
    <2>2. slots' = slots /\ records' = records \ retired /\ retired' = {}
          /\ selected' = IF selected \in retired THEN 0 ELSE selected
      BY <2>1 DEF ReleaseRetired
    <2>3. \A h \in Handles : PhaseOf(h) = "retired" <=> h \in retired
      BY <1>0 DEF PhaseOf, Handles
    <2>4. \A h \in Handles :
            PhaseOf(h)' = IF h \in retired THEN "freed" ELSE PhaseOf(h)
      BY <1>0, <2>2 DEF PhaseOf, Handles
    <2>5. CASE retired = {}
      BY <2>2, <2>4, <2>5 DEF Lifecycle!lifecycle_vars
    <2>6. CASE retired # {}
      <3>1. selected # 0 => selected \in Handles
        BY PlaybackAssumption DEF AInv, TypeOK, Handles
      <3>2. 0 \notin retired
        BY <1>0 DEF Handles
      <3>3. (IF selected # 0 /\ Phase[selected] = "retired" THEN 0 ELSE selected) = selected'
        BY <2>2, <2>3, <3>1, <3>2 DEF Phase
      <3>4. \E h \in Handles : Phase[h] = "retired"
        BY <1>0, <2>3, <2>6 DEF Phase
      <3>5. Phase' = [h \in Handles |-> IF Phase[h] = "retired" THEN "freed" ELSE Phase[h]]
        BY <2>3, <2>4 DEF Phase
      <3>6. Lifecycle!Free
        BY <3>3, <3>4, <3>5, RequestsAreHandles DEF Lifecycle!Free, Phase
      <3>7. QED
        BY <3>6 DEF Lifecycle!LifecycleNext
    <2>7. QED
      BY <2>5, <2>6
  <1>2. CASE ~running
    BY <1>2 DEF LoaderServe, playback_vars, Lifecycle!lifecycle_vars, PhaseOf
  <1>3. QED
    BY <1>1, <1>2

(* Every step of the workers and the commands is a step of a request's life, or
   none that shows. *)
LEMMA NextImplements ==
  ASSUME AInv, [Next]_vars
  PROVE  [Lifecycle!LifecycleNext]_(Lifecycle!lifecycle_vars)
  <1> USE DEF playback_vars, worker_vars
  <1>1. CASE PlayBgm
    BY <1>1, PlayImplements
  <1>2. CASE StopBgm
    BY <1>2, StopImplements
  <1>3. CASE UpdateService
    BY <1>3, ServiceImplements
  <1>4. CASE LoaderServe
    BY <1>4, LoaderImplements
  <1>5. CASE ReleaseAll
    <2>1. slots' = 0 /\ selected' = 0
      BY <1>5 DEF ReleaseAll
    <2>2. \A h \in Handles : PhaseOf(h)' = "unused"
      BY <2>1 DEF PhaseOf, Handles
    <2>3. Lifecycle!Forget
      BY <2>1, <2>2, RequestsAreHandles DEF Lifecycle!Forget
    <2>4. QED
      BY <2>3 DEF Lifecycle!LifecycleNext
  <1>6. CASE \/ FadeBgm \/ PauseBgm \/ UpdateWait \/ LoaderWake \/ StartWorkers
             \/ BeginShutdown \/ JoinUpdate \/ JoinLoader \/ Clock \/ UNCHANGED vars
    <2>1. UNCHANGED <<slots, records, retired, selected>>
      BY <1>6 DEF FadeBgm, PauseBgm, UpdateWait, LoaderWake, StartWorkers, BeginShutdown,
         JoinUpdate, JoinLoader, Clock, vars
    <2>2. QED
      BY <2>1 DEF Lifecycle!lifecycle_vars, PhaseOf
  <1>7. QED
    BY <1>1, <1>2, <1>3, <1>4, <1>5, <1>6 DEF Next, UpdateWorker, LoaderWorker, Shutdown

(* Playback, with its threads, queues and fades, implements the lifecycle of
   its requests. *)
THEOREM PlaybackImplements == Spec => ImplementsLifecycle
  <1>1. Init => Lifecycle!LifecycleInit
    BY RequestsAreHandles DEF Init, Lifecycle!LifecycleInit, PhaseOf, Handles
  <1>2. AInv /\ [Next]_vars => [Lifecycle!LifecycleNext]_(Lifecycle!lifecycle_vars)
    BY NextImplements
  <1>3. QED
    BY <1>1, <1>2, AccountedAlways, PTL
    DEF Spec, ImplementsLifecycle, Lifecycle!LifecycleSpec
=============================================================================
