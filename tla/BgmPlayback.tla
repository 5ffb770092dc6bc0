----------------------------- MODULE BgmPlayback -----------------------------
(***************************************************************************)
(* Background-music playback of audio_runtime.cpp: the script commands     *)
(* (PlayBgm, PlayBgmMargin, FadeBgm, PauseBgm, StopBgm), the update worker *)
(* that services every active stream each 16 ms, the loader worker that    *)
(* frees retired requests, and worker start-up and shutdown.               *)
(*                                                                         *)
(* Every command, tick and loader pass holds audio_workers.lock from its   *)
(* first read to its last write, so each is one action; what is read or    *)
(* waited for outside the lock (running, the two events, thread joins) is  *)
(* a step of its own.                                                      *)
(*                                                                         *)
(* Data kept: which handles own a record, a stream, a place in the active  *)
(* or the retired queue, and of a stream what decides when it starts and   *)
(* when it is retired.  Gains and samples are left out.  Times are kept    *)
(* relative to timeGetTime(): start_in is start_time - now and elapsed is  *)
(* now - fade_started, each capped where the code no longer tells values   *)
(* apart, so time has no bound.  timeGetTime does not wrap here.           *)
(***************************************************************************)
EXTENDS Integers

CONSTANTS
  MaxSlots,       \* slots of the handle table (0x10000 in the code)
  Delays,         \* start delays scripts pass to PlayBgm
  Margins,        \* fade delays scripts pass to PlayBgmMargin (0: PlayBgm)
  FadeDurations,  \* durations scripts pass to FadeBgm
  ReplaceFade,    \* the fade of a replaced track (1000 ms)
  StartOutcomes,  \* what may become of kinoko_audio_start_workers
  MayShutDown     \* whether the game may be closed

ASSUME PlaybackAssumption ==
  /\ MaxSlots \in Nat \ {0}
  /\ Delays \subseteq Nat
  /\ Margins \subseteq Nat
  /\ FadeDurations \subseteq Nat
  /\ ReplaceFade \in Nat \ {0}
  /\ StartOutcomes \subseteq {"started", "no_update", "no_loader", "failed"}
  /\ MayShutDown \in BOOLEAN

VARIABLES
  slots,        \* handles.storage->buffers.size(): slots are never reused
  records,      \* handles whose BufferRecord is alive
  owned,        \* handles of tracks that own a DirectSound buffer
  track,        \* handle -> the fields of its BgmTrack
  active,       \* manager.active
  retired,      \* manager.retired
  selected,     \* kinoko_active_bgm_slot, 0 when none
  queue_event,  \* the auto-reset event that wakes the loader is signalled
  stop_event,   \* the manual-reset stop event is signalled
  events,       \* both events exist
  running,      \* audio_workers.running
  update_pc,    \* where the update worker is
  loader_pc,    \* where the loader worker is
  main_pc       \* where the thread that starts and stops playback is

playback_vars == <<slots, records, owned, track, active, retired, selected>>
worker_vars == <<stop_event, events, running, update_pc, loader_pc, main_pc>>
vars == <<playback_vars, queue_event, worker_vars>>

Handles == 1..MaxSlots

(* The fields of BgmTrack that decide its life.  delayed is start_time # 0;
   ended is source_ended of a stream without a loop; sounding is the
   hardware status DSBSTATUS_PLAYING. *)
Track ==
  [looping: BOOLEAN, ended: BOOLEAN, started: BOOLEAN, sounding: BOOLEAN,
   delayed: BOOLEAN, start_in: Int, elapsed: Int, fade_duration: Nat,
   retire_after_fade: BOOLEAN, retirement_requested: BOOLEAN]

\* BgmTrack{}
BlankTrack ==
  [looping |-> FALSE, ended |-> FALSE, started |-> FALSE, sounding |-> FALSE,
   delayed |-> FALSE, start_in |-> 0, elapsed |-> 0, fade_duration |-> 0,
   retire_after_fade |-> FALSE, retirement_requested |-> FALSE]

-----------------------------------------------------------------------------
(* Fades. *)

\* Defect: a fade still in force is applied to a track asked to retire.
FadeDone_Retired(t) ==
  t.fade_duration # 0 /\ ~ t.delayed /\ t.elapsed > 0 /\ t.elapsed >= t.fade_duration

\* update_track_fade: the end of the envelope, or nothing that is kept here.
FadeDone(t) ==
  /\ t.fade_duration # 0
  /\ ~ t.retirement_requested
  /\ ~ t.delayed
  /\ t.elapsed > 0
  /\ t.elapsed >= t.fade_duration

UpdateTrackFade(t) ==
  IF FadeDone(t)
  THEN [t EXCEPT !.fade_duration = 0, !.elapsed = 0,
                 !.retirement_requested = t.retire_after_fade]
  ELSE t

\* kinoko_bgm_update_fade_locked: every track, retired or not.
UpdateFades(tracks) ==
  [h \in Handles |-> IF h \in owned THEN UpdateTrackFade(tracks[h]) ELSE tracks[h]]

\* kinoko_bgm_begin_fade_locked; a zero duration only sets the gain.
BeginFade(t, duration, start_delay, retire) ==
  IF duration = 0
  THEN t
  ELSE [t EXCEPT !.retire_after_fade = retire, !.elapsed = -start_delay,
                 !.fade_duration = duration]

\* kinoko_bgm_begin_fade_for_handle on the tracks of the moment.
FadeHandle(h, duration, start_delay, retire) ==
  LET faded == UpdateFades(track)
  IN  IF h \in owned
      THEN [faded EXCEPT ![h] = BeginFade(@, duration, start_delay, retire)]
      ELSE faded

-----------------------------------------------------------------------------
(* Requests. *)

\* kinoko_bgm_start_track: Play may fail, and the track then stays unstarted.
StartTrack(t, played) ==
  IF t.started THEN t ELSE [t EXCEPT !.started = played, !.sounding = played]

\* kinoko_bgm_prepare_track: a stream without a loop may end in its first block.
PreparedTrack(looping, short) ==
  [BlankTrack EXCEPT !.looping = looping, !.ended = short /\ ~looping]

\* schedule_playback_start on a prepared track.
ScheduleStart(t, delay, played) ==
  IF delay # 0
  THEN [t EXCEPT !.delayed = TRUE, !.start_in = delay]
  ELSE StartTrack(t, played)

\* Defect: the handle also stays in the active queue.
Retire_StaysActive(S) ==
  LET alive == S \cap records'
  IN  /\ active' = active
      /\ retired' = retired \cup alive
      /\ queue_event' = (queue_event \/ (alive # {} /\ events))

\* retire_playback_request for each handle of S, notify_loader included.
Retire(S) ==
  LET alive == S \cap records'
  IN  /\ active' = active \ alive
      /\ retired' = retired \cup alive
      /\ queue_event' = (queue_event \/ (alive # {} /\ events))

\* Defect: no limit on the slots.
NewHandle_NoLimit == slots + 1

\* allocate_playback_handle: 0 when every slot has been used.
NewHandle == IF slots < MaxSlots THEN slots + 1 ELSE 0

\* Defect: the old track is faded like by FadeBgm and never condemned.
FadedForReplacement_Keeps(margin) ==
  IF selected # 0 THEN FadeHandle(selected, ReplaceFade, margin, FALSE)
  ELSE IF NewHandle # 0 THEN UpdateFades(track)
  ELSE track

\* The tracks after fade_out_playback of the selected handle (if any) and the
\* update_fade of prepare_playback_request (when a handle was allocated).
FadedForReplacement(margin) ==
  IF selected # 0 THEN FadeHandle(selected, ReplaceFade, margin, TRUE)
  ELSE IF NewHandle # 0 THEN UpdateFades(track)
  ELSE track

(* PlayBgm and PlayBgmMargin: condemn the selected track, allocate, prepare
   synchronously, publish and schedule, all under the lock.  A request that
   cannot be prepared stays selected and is retired at once. *)
PlayPrepared(delay, margin, looping, short, played) ==
  /\ main_pc = "up"
  /\ NewHandle # 0
  /\ slots' = NewHandle
  /\ records' = records \cup {NewHandle}
  /\ owned' = owned \cup {NewHandle}
  /\ selected' = NewHandle
  /\ active' = active \cup {NewHandle}
  /\ track' = [FadedForReplacement(margin) EXCEPT
                 ![NewHandle] = ScheduleStart(PreparedTrack(looping, short),
                                              delay, played)]
  /\ UNCHANGED <<retired, queue_event, worker_vars>>

PlayNotPrepared(margin) ==
  /\ main_pc = "up"
  /\ NewHandle # 0
  /\ slots' = NewHandle
  /\ records' = records \cup {NewHandle}
  /\ selected' = NewHandle
  /\ track' = FadedForReplacement(margin)
  /\ Retire({NewHandle})
  /\ UNCHANGED <<owned, worker_vars>>

PlayNotAllocated(margin) ==
  /\ main_pc = "up"
  /\ NewHandle = 0
  /\ selected' = 0
  /\ track' = FadedForReplacement(margin)
  /\ UNCHANGED <<slots, records, owned, active, retired, queue_event, worker_vars>>

PlayBgm ==
  \E margin \in Margins :
    \/ \E delay \in Delays, looping, short, played \in BOOLEAN :
         PlayPrepared(delay, margin, looping, short, played)
    \/ PlayNotPrepared(margin)
    \/ PlayNotAllocated(margin)

\* FadeBgm: an ordinary fade never retires its track, even at zero gain.
FadeBgm ==
  /\ main_pc = "up"
  /\ selected # 0
  /\ \E duration \in FadeDurations :
       track' = FadeHandle(selected, duration, 0, FALSE)
  /\ UNCHANGED <<slots, records, owned, active, retired, selected, queue_event,
                 worker_vars>>

\* PauseBgm toggles the hardware state; it marks a track it plays as started.
TogglePause(t) ==
  IF t.sounding
  THEN [t EXCEPT !.sounding = FALSE]
  ELSE [t EXCEPT !.started = TRUE, !.sounding = TRUE]

PauseBgm ==
  /\ main_pc = "up"
  /\ selected \in owned
  /\ track' = [track EXCEPT ![selected] = TogglePause(@)]
  /\ UNCHANGED <<slots, records, owned, active, retired, selected, queue_event,
                 worker_vars>>

\* StopBgm: stop the buffer (Stop may fail), request retirement, deselect.
StopTrack(t, stopped) ==
  [t EXCEPT !.started = FALSE, !.sounding = @ /\ ~stopped,
            !.retirement_requested = TRUE]

StopBgm ==
  /\ main_pc = "up"
  /\ selected # 0
  /\ \E stopped \in BOOLEAN :
       track' = IF selected \in owned
                THEN [track EXCEPT ![selected] = StopTrack(@, stopped)]
                ELSE track
  /\ selected' = 0
  /\ UNCHANGED <<slots, records, owned, worker_vars>>
  /\ Retire({selected})

-----------------------------------------------------------------------------
(* The update worker. *)

\* Defect: a delayed start leaves its deadline in place.
ServiceTrack_KeepsDeadline(t, ends, played) ==
  LET due   == ~t.started /\ (~t.delayed \/ t.start_in < 0)
      begun == IF due
               THEN [StartTrack(t, played) EXCEPT !.elapsed = IF @ > 0 THEN 0 ELSE @]
               ELSE t
  IN  IF t.ended /\ ~t.looping
      THEN [t EXCEPT !.retirement_requested = TRUE]
      ELSE IF begun.started /\ ends /\ ~t.looping
           THEN [begun EXCEPT !.ended = TRUE]
           ELSE begun

(* kinoko_bgm_service_track.  ends: the block read now is the stream's last;
   played: Play succeeds. *)
ServiceTrack(t, ends, played) ==
  LET due   == ~t.started /\ (~t.delayed \/ t.start_in < 0)
      begun == IF due
               THEN [StartTrack(t, played) EXCEPT
                       !.delayed = FALSE, !.start_in = 0,
                       !.elapsed = IF @ > 0 THEN 0 ELSE @]
               ELSE t
  IN  IF t.ended /\ ~t.looping
      THEN [t EXCEPT !.retirement_requested = TRUE]
      ELSE IF begun.started /\ ends /\ ~t.looping
           THEN [begun EXCEPT !.ended = TRUE]
           ELSE begun

\* kinoko_bgm_service_all_locked: fades first, then every active handle, each
\* retired in the same pass if retirement is requested by then.
ServiceAll(ending, playing) ==
  LET faded    == UpdateFades(track)
      serviced == [h \in Handles |->
                     IF h \in active \cap owned /\ ~faded[h].retirement_requested
                     THEN ServiceTrack(faded[h], h \in ending, h \in playing)
                     ELSE faded[h]]
  IN  /\ track' = serviced
      /\ Retire({h \in active \cap owned : serviced[h].retirement_requested})

\* The loop head, reached without the lock: go round once more only while
\* running; it is not set again before the worker has been joined.
LoopHead == IF running THEN "wait" ELSE "done"

(* WaitForSingleObject(stop_event, 16) returns, stopped or timed out; in the
   second case service_audio_tick reads running before it takes the lock ... *)
UpdateWait ==
  /\ update_pc = "wait"
  /\ update_pc' = IF stop_event \/ ~running THEN "done" ELSE "service"
  /\ UNCHANGED <<playback_vars, queue_event, stop_event, events, running,
                 loader_pc, main_pc>>

\* ... and does not read it again under the lock.
UpdateService ==
  /\ update_pc = "service"
  /\ update_pc' = LoopHead
  /\ UNCHANGED <<slots, records, owned, selected>>
  /\ \E ending, playing \in SUBSET (active \cap owned) : ServiceAll(ending, playing)
  /\ UNCHANGED <<stop_event, events, running, loader_pc, main_pc>>

\* A tick on which DirectSound plays every stream it is asked to.
PlaySucceeds ==
  /\ update_pc = "service"
  /\ update_pc' = LoopHead
  /\ UNCHANGED <<slots, records, owned, selected>>
  /\ \E ending \in SUBSET (active \cap owned) : ServiceAll(ending, active \cap owned)
  /\ UNCHANGED <<stop_event, events, running, loader_pc, main_pc>>

UpdateWorker == UpdateWait \/ UpdateService

-----------------------------------------------------------------------------
(* The loader worker. *)

\* WaitForMultipleObjects reports the lowest signalled index, queue_event, and
\* resets that event only.
LoaderWake ==
  /\ loader_pc = "wait"
  /\ queue_event \/ stop_event
  /\ loader_pc' = IF queue_event THEN "serve" ELSE "done"
  /\ queue_event' = FALSE
  /\ UNCHANGED <<playback_vars, stop_event, events, running, update_pc, main_pc>>

\* Defect: a pass frees one handle only.
ReleaseRetired_OneOnly ==
  IF retired = {} THEN UNCHANGED playback_vars
  ELSE \E h \in retired :
         /\ track' = [track EXCEPT ![h] = BlankTrack]
         /\ owned' = owned \ {h}
         /\ records' = records \ {h}
         /\ selected' = IF selected = h THEN 0 ELSE selected
         /\ retired' = retired \ {h}
         /\ UNCHANGED <<slots, active>>

\* Defect: the selection outlives its record.
ReleaseRetired_KeepsSelection ==
  /\ track' = [h \in Handles |-> IF h \in retired THEN BlankTrack ELSE track[h]]
  /\ owned' = owned \ retired
  /\ records' = records \ retired
  /\ retired' = {}
  /\ UNCHANGED <<slots, active, selected>>

\* release_retired_requests_locked: stream, record and selection of each.
ReleaseRetired ==
  /\ track' = [h \in Handles |-> IF h \in retired THEN BlankTrack ELSE track[h]]
  /\ owned' = owned \ retired
  /\ records' = records \ retired
  /\ selected' = IF selected \in retired THEN 0 ELSE selected
  /\ retired' = {}
  /\ UNCHANGED <<slots, active>>

\* Under the lock running is read again: a stopping loader releases nothing.
LoaderServe ==
  /\ loader_pc = "serve"
  /\ loader_pc' = LoopHead
  /\ IF running THEN ReleaseRetired ELSE UNCHANGED playback_vars
  /\ UNCHANGED <<queue_event, stop_event, events, running, update_pc, main_pc>>

LoaderWorker == LoaderWake \/ LoaderServe

-----------------------------------------------------------------------------
(* Start-up, shutdown and time. *)

(* kinoko_audio_start_workers.  Its failure is ignored by the caller: playback
   is then up without events and without workers.  A worker whose CoInitialize
   fails returns at once. *)
StartWorkers ==
  /\ main_pc = "down"
  /\ main_pc' = "up"
  /\ \E outcome \in StartOutcomes :
       IF outcome = "failed"
       THEN UNCHANGED <<events, running, update_pc, loader_pc>>
       ELSE /\ events' = TRUE
            /\ running' = TRUE
            /\ update_pc' = IF outcome = "no_update" THEN "done" ELSE "wait"
            /\ loader_pc' = IF outcome = "no_loader" THEN "done" ELSE "wait"
  /\ UNCHANGED <<playback_vars, queue_event, stop_event>>

\* Defect: running is cleared and nobody is woken.
BeginShutdown_NoWake ==
  /\ MayShutDown
  /\ main_pc = "up"
  /\ main_pc' = "join_update"
  /\ running' = FALSE
  /\ UNCHANGED <<playback_vars, queue_event, stop_event, events, update_pc, loader_pc>>

\* stop_and_join up to its first wait.
BeginShutdown ==
  /\ MayShutDown
  /\ main_pc = "up"
  /\ main_pc' = "join_update"
  /\ running' = FALSE
  /\ stop_event' = events
  /\ queue_event' = events
  /\ UNCHANGED <<playback_vars, events, update_pc, loader_pc>>

\* Defect: the update worker is not waited for.
JoinUpdate_NoWait ==
  /\ main_pc = "join_update"
  /\ main_pc' = "join_loader"
  /\ UNCHANGED <<playback_vars, queue_event, stop_event, events, running,
                 update_pc, loader_pc>>

JoinUpdate ==
  /\ main_pc = "join_update"
  /\ update_pc \in {"off", "done"}
  /\ update_pc' = "off"
  /\ main_pc' = "join_loader"
  /\ UNCHANGED <<playback_vars, queue_event, stop_event, events, running, loader_pc>>

\* The last join, after which both events are closed.
JoinLoader ==
  /\ main_pc = "join_loader"
  /\ loader_pc \in {"off", "done"}
  /\ loader_pc' = "off"
  /\ main_pc' = "release"
  /\ queue_event' = FALSE
  /\ stop_event' = FALSE
  /\ events' = FALSE
  /\ UNCHANGED <<playback_vars, running, update_pc>>

\* The rest of kinoko_audio_shutdown_resources: every track, queue and record,
\* then the manager itself.
ReleaseAll ==
  /\ main_pc = "release"
  /\ main_pc' = "down"
  /\ slots' = 0
  /\ records' = {}
  /\ owned' = {}
  /\ track' = [h \in Handles |-> BlankTrack]
  /\ active' = {}
  /\ retired' = {}
  /\ selected' = 0
  /\ UNCHANGED <<queue_event, stop_event, events, running, update_pc, loader_pc>>

Shutdown == JoinUpdate \/ JoinLoader \/ ReleaseAll

\* One unit of timeGetTime(): deadlines come nearer, fades grow older.
Age(t) ==
  [t EXCEPT !.start_in = IF t.delayed /\ @ >= 0 THEN @ - 1 ELSE @,
            !.elapsed = IF t.fade_duration # 0 /\ @ < t.fade_duration
                        THEN @ + 1 ELSE @]

Clock ==
  /\ track' = [h \in Handles |-> IF h \in owned THEN Age(track[h]) ELSE track[h]]
  /\ UNCHANGED <<slots, records, owned, active, retired, selected, queue_event,
                 worker_vars>>

Init ==
  /\ slots = 0
  /\ records = {}
  /\ owned = {}
  /\ track = [h \in Handles |-> BlankTrack]
  /\ active = {}
  /\ retired = {}
  /\ selected = 0
  /\ queue_event = FALSE
  /\ stop_event = FALSE
  /\ events = FALSE
  /\ running = FALSE
  /\ update_pc = "off"
  /\ loader_pc = "off"
  /\ main_pc = "down"

Next ==
  \/ PlayBgm
  \/ FadeBgm
  \/ PauseBgm
  \/ StopBgm
  \/ UpdateWorker
  \/ LoaderWorker
  \/ StartWorkers
  \/ BeginShutdown
  \/ Shutdown
  \/ Clock

Spec == Init /\ [][Next]_vars

(* The two workers and the joining thread keep running and time passes; no
   script command and no shutdown ever has to come.  Play does not fail on
   every tick for ever. *)
Fairness ==
  /\ WF_vars(UpdateWorker)
  /\ WF_vars(LoaderWorker)
  /\ WF_vars(Shutdown)
  /\ WF_vars(Clock)
  /\ SF_vars(PlaySucceeds)

FairSpec == Spec /\ Fairness
-----------------------------------------------------------------------------
(* Every variable has its type. *)
TypeOK ==
  /\ slots \in 0..MaxSlots
  /\ records \subseteq Handles
  /\ owned \subseteq Handles
  /\ track \in [Handles -> Track]
  /\ active \subseteq Handles
  /\ retired \subseteq Handles
  /\ selected \in 0..MaxSlots
  /\ queue_event \in BOOLEAN
  /\ stop_event \in BOOLEAN
  /\ events \in BOOLEAN
  /\ running \in BOOLEAN
  /\ update_pc \in {"off", "wait", "service", "done"}
  /\ loader_pc \in {"off", "wait", "serve", "done"}
  /\ main_pc \in {"down", "up", "join_update", "join_loader", "release"}

(* Nothing is lost between the handle table, the streams and the queues: every
   active handle has a stream, every stream is serviced or about to be freed
   and never both, every record has a stream or is about to be freed, and the
   selected handle always resolves. *)
Accounted ==
  /\ active \subseteq owned
  /\ owned \subseteq active \cup retired
  /\ active \cap retired = {}
  /\ owned \subseteq records
  /\ records \subseteq owned \cup retired
  /\ retired \subseteq records
  /\ selected # 0 => selected \in records
  /\ \A h \in records : h <= slots

(* At most one stream plays on: any stream that is not the selected one is
   leaving, by a fade that is still armed or by a requested retirement, and the
   selected one is never condemned by the fade of an earlier replacement. *)
OneStreamStays ==
  \A h \in owned :
    LET t == track[h]
    IN  /\ h # selected => t.retire_after_fade \/ t.retirement_requested
        /\ h = selected => ~ t.retire_after_fade
        /\ t.retire_after_fade => t.fade_duration # 0 \/ t.retirement_requested

(* No wake-up is lost: while the loader may wait, a retired handle means that
   its event is signalled. *)
RetirementSignalled ==
  running /\ retired # {} /\ loader_pc = "wait" => queue_event

(* Resources are only released once neither worker can touch them. *)
JoinedBeforeRelease ==
  main_pc \in {"release", "down"} => update_pc = "off" /\ loader_pc = "off"

(* A track once condemned, or asked to retire, stays so until it is freed: no
   later command or tick takes it back. *)
NeverTakenBack ==
  [][\A h \in owned \cap owned' :
       /\ track[h].retire_after_fade => track'[h].retire_after_fade
       /\ track[h].retirement_requested => track'[h].retirement_requested]_vars

-----------------------------------------------------------------------------
Condemned(h) == h \in owned /\ track[h].retire_after_fade
WorkersAlive == running /\ update_pc # "done" /\ loader_pc # "done"

\* A track PauseBgm started before its delayed start: update_track_fade waits
\* for a deadline that kinoko_bgm_service_track no longer clears.
StartedEarly(h) == track[h].started /\ track[h].delayed

(* A replaced track leaves playback in the end, whatever it waited for, unless
   it was started early; and what is retired, for this or another reason, is
   freed by the loader or by shutdown. *)
FinishedIsFreed ==
  \A h \in Handles :
    /\ Condemned(h) /\ WorkersAlive /\ ~StartedEarly(h) ~> h \notin owned
    /\ h \in retired /\ WorkersAlive ~> h \notin records

(* Every replaced track is freed in the end: "a replacement fade retires the
   old track" (docs/audio-scheduling/README.md). *)
EveryReplacedIsFreed ==
  \A h \in Handles : Condemned(h) /\ WorkersAlive ~> h \notin owned

(* Shutdown ends: neither worker can keep the joining thread waiting. *)
ShutdownEnds == main_pc = "join_update" ~> main_pc = "down"
=============================================================================
