# TLA+ models of the 6kinoko runtime

The repository rebuilds a Windows game: a C++17 runtime over Direct3D 9, DirectSound,
DirectInput and a Squirrel VM. This directory models its control: what threads, script
callbacks, failures and handles may do to each other. TLC checks the models on small
instances, TLAPS proves the safety properties for every value of the constants.
Paths below are relative to `src/reconstructed/` of the repository unless they name
`squirrel/` or `docs/`.

## The system

| Component | State | Operations | Hard behaviour | Module |
|---|---|---|---|---|
| BGM playback (`audio_runtime.cpp`) | handle table, track records, active and retired lists, selected handle, two events, two workers | PlayBgm, PlayBgmMargin, FadeBgm, PauseBgm, StopBgm; update tick; loader pass; start and shutdown of the workers | two threads and script, auto-reset wake-ups, delayed starts, fades, shutdown at any point | BgmPlayback |
| Actor manager (`actor_manager.cpp`, `actor_priority.cpp`, `actor_cleanup.cpp`, `squirrel/actor_*.cpp`) | live actors, priority index, iteration buffer and count, render ranges | create, Reset, ResetPriority, Release, ClearActor, refresh, update, shutdown | script called in the middle of loops calls back into the manager | ActorManager |
| Actor pool (`actor_pool.cpp`) | slots, generations, free list | acquire, lookup, retire | destructors that acquire and retire, generation wrap | ActorPool |
| Frame loop and device (`application_runtime.cpp`, `device_runtime.cpp`, `render_target.cpp`) | running flag, graphics lock, pending flag, display event, device status, surfaces | draw, publish, present, poll, Reset, window switch, shutdown | three threads, try-lock with a bounded number of attempts, lost device, failed Reset | FramePipeline |
| Scene queue (`scene_queue.cpp`, `application_runtime.cpp`) | current, pending, previous and retired scenes, three workers | request, create, exchange, list, destroy; shutdown | four threads and one lock, an auto-reset event, threads that do not start, quitting at any moment | SceneQueue, SceneLife |
| Map manager (`map_manager.cpp`, `map_loading.cpp`, `map_containers.cpp`, `map_layers.cpp`) | document, holder, runtime, layouts, nodes of render layers | load, clear, update, make a render layer | failure in the middle of a load; what others still borrow from it | MapManager |
| Collision manager (`collision_manager.cpp`, `actor_motion.cpp`) | registered layouts, weak parents, hit ends, steps of actors | reset, register, refresh, move | parallel arrays, expired parents, stale ends of hidden layers | CollisionManager |
| Frame of the game (`game_runtime.cpp`, `render_queue.cpp`, `scene_operations.cpp`) | render queue, order of a frame | the script commands of a scene change, update, draw | four components that lend each other addresses | GameScene |
| ACT runtime (`squirrel/act_binding.cpp`, `act_resource.cpp`, `act_frame_update.cpp`, `act_runtime_lifecycle.cpp`) | staged clone, holder, aliases, layers | BeginStage, EndStage, Suspend, Resume, SleepTo, CreateLayer, SwapLayer, update, dispose | callbacks that end or replace the stage whose loop runs them | ActRuntime |
| Textures (`texture_store.cpp`, `act_clone.cpp`, `act_document_resources.cpp`) | references, borrowed bits, owners among clones | load, unload, clone, suspend, resume, delete | three records of who owns a reference | ActRuntime |
| Archives and files (`archive_store.cpp`, `file_io.cpp`) | archive index, a reader's two cursors | mount, open, read, skip, seek | partial failure, hash collisions, two cursor conventions | ArchiveStore, PackageReader |
| Saved games (`squirrel/table_serialization.cpp`) | the file; the bytes of a table | save, load; write and read a table | crash in the middle, broken files, cycles and limits | SaveData, TableFormat |
| ACT documents (`act_document*.cpp`, `act_layer_*.cpp`) | trees of layers, layouts, resources | load, clone, associate | association by id | not modelled |
| Text (`string_*.cpp`) | queue of glyphs, atlases with reference counts | append, rebuild, prune | pointers into a vector that moves | not modelled |
| Stages, input, frame timer, native control blocks, actor animation, sound effects | see "Not modelled" | | | not modelled |
| Squirrel bindings, rendering arithmetic, start-up, platform | none of their own | conversion and registration | - | not modelled |

How they interact: the main thread handles window messages and polls the device; the game
thread runs scripts and updates stages, which create actors and call the audio commands;
the display thread presents; the update and loader workers serve the music. Locks are per
component: the graphics lock, `scene_lock`, `audio_workers.lock`, a lock of each ACT
runtime and the lock of the actor pool. Two of them nest across threads in one order only:
where the display or the main thread holds `scene_lock` it may take the graphics lock
(`application_runtime.cpp:90`, `:232`), never the other way. The locks of ACT runtimes and
of the pool are the game thread's alone; it runs callbacks under them, and those may take
the audio lock for one call, under which nothing else is taken. So there is no circle, and
no composition is needed for deadlocks. What does need one is the frame of the game: the
render queue borrows nodes of the map, the collision manager borrows layouts of the map's
runtime and refers weakly to actors, and none tells the others when it dies. GameScene
composes these three with the order in which scripts give commands. ActorManager and
ActorPool meet in the call that retires an actor, which ActorManager takes as atomic and
ActorPool opens up; ArchiveStore and PackageReader are one part. Background music, scenes,
saved games and ACT runtimes share no state with each other.

What makes each part right:
- playback: every request ends up in one place, wake-ups are not lost, one stream stays,
  replaced and stopped streams are freed, shutdown ends and frees nothing too early;
- actors: the index holds each live actor once, loops see only live actors, drawing
  ranges agree with priorities, a release is carried out, nothing is left at the end;
- pool: no slot belongs to two actors, none is lost, old handles do not resolve;
- frames: nothing presents or resets while a frame is being drawn, no published frame is
  slept over, a lost device comes back, shutdown ends and releases the device last;
- scenes: none is lost, destroyed twice or destroyed while it is drawn, and what is
  listed is destroyed, by the worker or by shutdown;
- map, collision, drawing: nothing of a map is read after the map is gone, and a mover
  stands on the layer it hit;
- ACT runtimes: what is staged is the active clone, initialised, however callbacks end and
  replace the stage; each texture reference is given back once;
- files: a path opens the entry listed last, reads deliver the entry's own bytes;
- saved games: a load gives one whole saved table or fails, a failure before the file is
  replaced costs nothing, and a table reads back as what can be saved of it.

## Modules

**BgmPlayback.** A command, a tick and a loader pass hold `audio_workers.lock` from first
to last access, so each is an action; waits on events, the read of `running` and joins
are steps of their own (`update_pc`, `loader_pc`, `main_pc`). `active` and `retired` are
sets of handles; a handle is its slot, because slots are never reused. The current and
the fading slot of a track are one field (`owned`). Times are relative to now, so time
does not run out. Left out: gains, samples and the ring buffer, the
pending queue (both callers pass queue mode 0), `live_count` (never read), allocation
failure, and the wrap of `timeGetTime`.

**BgmLifecycle** is what playback promises: a request is unused, playing, condemned,
retired or freed, only the newest is selected, and nothing goes back.
**BgmPlaybackRefinement** maps BgmPlayback to it; the run `bgm_safety` checks
`ImplementsLifecycle` and **BgmPlaybackProofs** proves it.

**ActorManager.** One thread; the interleaving is that of callbacks. `calls` is the stack
of what is running: a step or collision callback, a CreateActor, a Reset. Script in any
of them may call every operation, up to `MaxCalls` deep. Retiring an actor is atomic:
the release hooks of its script objects run inside it. The hooks `src/` installs delete one
native object each, and Squirrel 2.2.2 has no finalisers, so in this program none creates
an actor while refresh, ClearActor or shutdown walks the index. The code is written, and
`tests/actor_manager_contract.cpp` tests it, for hooks that do (`actor_manager.cpp:123`);
nothing here covers that. Each loop of an update keeps
what the code keeps between its iterations (the buffer it snapshots, the count it
reloads). An actor stands for its slot in the pool, so a slot can be its own successor.
A second entry or a dangling one in the index is representable (`named`). Positions,
animations and collision shapes are left out. **ActorManagerProofs** holds the proofs,
**MCActorManager** gives the instance.

**ActorPool.** Acquisition, retirement and the end of the destructor as three kinds of
steps; `destroying` is the stack of destructors in progress, whose release hooks may
acquire and retire again. `since` and `stale` are history variables: how many actors were
acquired since a handle was issued.

**ActRuntime.** A source document and the clone that is staged. `calls` is the stack of Init
and Update loops in progress; at any point of them scripts may give every command, so a
stage can be ended, and its clone deleted, below the loop that walks it. A document stands
for its address. `store` holds what the source and each clone has of the one texture:
handle, borrowed bit, entry among the clones that own a reference, suspended flag. The
operators on it follow the calls of the code, so a command is their composition. A call
that loads gives a set of stores, because it may fail: the old texture is unloaded before a
file is looked for, and the handle stays 0 when there is none, when the store of textures is
full or when an exception is thrown; ResumeResources has cleared the suspended flag by then
and nothing acts on its result. So a document may be staged without its texture; `missing`
remembers that a load failed, and is history like `initialised`: no guard reads it.
Two things scripts could do are left out: BeginStage
from code that runs while a clone is being published (the code then goes on with a clone
that is deleted) and SwapLayer during an Init loop (the loop then misses a layer). Layers
are roots; drawing is left out. **MCCallbacks** puts ActorPool and ActRuntime into one run,
as two subjects that share nothing; **CallbackProofs** holds the proofs for each and both.

**FramePipeline.** The game thread's, the display thread's and the main thread's steps
between their lock operations, with the device as an environment that may be lost at any
time and whose Reset may fail. `frame` is the content of the back buffer. The
configuration is the game's: no `separate_draw`, one scene. The frame timer always lets
the game thread go on: its worker lives until the process ends and only the thread that
waits unregisters the event (`timer_events.cpp`), so `FrameWait` always returns, and
`ShutdownEnds` rests on that. **FramePipelineProofs** holds the proofs.

**MapManager** has the document, holder and runtime of the map, its layouts by the runtime
that owns them, and the nodes handed out as render layers. A runtime or node is an
address; one that anything still refers to is not given out again, so that a reference
that outlived its target shows. **CollisionManager** extends it with the two parallel
arrays of layouts and parents, the ends of each layer's hits and the steps of actors; the
narrow phase, which is floating point, is any choice of a support. **GameScene** extends
both with the frame, the render queue and the scripts' commands. Their order is the
environment's: the bytecode listed in `docs/object-scene-chain-20260926` (`LoadStage`, the
world map). LoadStage runs in the global update callback, which comes first in a frame
(phase "script"); the world map runs in the Update callback of its ACT document, with the
stages and behind actors and map (phase "stages").

`WorldMovers` says whether actors of the world map collide with map chips; the
world map does not clear collision, so with TRUE moves would read layouts of a map that
is gone. It is FALSE in the run, and that is an assumption about scripts. What speaks for
it: initialisation gives an actor `collision_mask` 0 (`squirrel/actor_initialization.cpp:114`),
only a script sets it, by name (`squirrel/actor_registration.cpp:87`), and a move reads layouts
only for a mask with bit 0 (`collision_manager.cpp:173`); the listings of the world map
(`world-map-bytecode.txt`, `docs/worldmap-register-r135`) name neither CreateActor nor LoadMap
nor `collisionMask`. What is missing: the repository does not list every script the world map
runs, so one that is not listed could set it. **GameSceneProofs** holds the proofs,
**MCGameScene** defines the symmetry.

**SceneQueue** has the game thread, the loader, the worker that destroys and the main
thread, and the display thread as a holder of `scene_lock`. A section under the lock is
one action; what a thread carries in a local between two sections is a variable
(`previous`, `created`). Any subset of threads may start. **SceneLife** is what it promises
each scene: created, current, left, retired, destroyed, once each and in order.
**SceneQueueProofs** proves that SceneQueue implements it.

**SaveData.** The steps of `save_file` with a crash between any two, a conversion, creation
or write that fails or stops short, and `load_file` on whatever is on disk. A compressed
table is a sequence of blocks. **TableFormat** looks inside: what is written of a graph of
tables and arrays (cycles, nesting, things without a form, the full buffer) and what a
load makes of any beginning of it. The calls of `write_table` for containers below each
other are a function of the nesting that is left and of the containers on the way; the
reader's calls are a path of keys. Scalars, strings and keys are identities: `write_string`
writes up to `strlen`, so a string with a NUL in it comes back shorter, which is left out.

**ArchiveStore** is the index of packed files, chained by hash, with mounts that stop in the
middle. A path is a spelling: `insert` stores what an index lists as it stands, a lookup
normalises what it is asked for, so of two spellings of one path only the one in
`Normalized` is ever found, and `OpensLatest` speaks of those. A lookup that succeeds may still
fail to open the archive's file: `OpenReader` then leaves no reader.
**PackageReader** extends it with a reader's own position and the position of the
archive's handle, which exact reads, virtual reads and seeks treat differently. The loop
of a mount is a function of the number of index entries read. **ArchiveProofs** holds the
proofs for both.

**MCServices** puts SaveData, PackageReader, TableFormat and SceneQueue into one run, one
subject per behaviour; **ServicesProofs** holds the proofs for SaveData, TableFormat and
the types of all of them. **MCBgmLive** is the liveness of playback in two scenarios.

## Runs

| Run | Shows | Bounds | States |
|---|---|---|---|
| `bgm_safety` | type, single ownership, one stream stays, no lost wake-up, nothing freed before the joins, verdicts final, refinement | 2 handles, delays, margins and fades 0 and 1, every outcome of the start | 1.3 million |
| `bgm_live` | replaced and retired streams are freed; shutdown ends, also when workers never started or stopped early | 2 handles with delays and no shutdown; 1 handle, every outcome of the start and a shutdown | 103 000 |
| `bgm_paused_start` | violation: PauseBgm before a delayed start blocks retirement | as `bgm_live` | - |
| `actor_safety` | index, loops, ranges, motion, disposal | 2 slots, a priority of each layer, 2 nested calls | 181 000 |
| `actor_live` | a released actor is retired | 2 slots, 1 nested call | - |
| `actor_init_indexes` | violation: ResetPriority in an actor's own Init indexes it twice | 2 slots, 1 nested call, `InitMay = {"index"}`, no ClearActor | - |
| `callbacks` | pool: slots accounted for, stale handles end; ACT runtime: stages whole, textures balanced, also when loads fail | 3 slots, 4 generations; 2 clone addresses, source of 2 layers, 3 layers, 4 loops in progress | 906 000 |
| `frame` | whole frames, none forgotten, device released last, recovery, shutdown | 8 attempts, the code's number | 146 000 |
| `world` | what is drawn lives, collision reads living layouts, movers stand on their layer | 2 runtimes, 2 layers, 2 nodes, 2 proxies, 1 mover, 2 hits per move, symmetry on addresses | 976 000 |
| `services` | saves whole and readable, archives, readers, table format, scenes accounted for and destroyed, refinement of SceneLife | see below | 119 000 |
| `frame_surfaces` | violation: surfaces released twice after a failed Reset | 1 attempt | - |
| `frame_pending` | violation: a Present without a pending frame | 1 attempt | - |

Why the bounds are enough. Two handles give a replaced and a replacing track, which is
all the playback code relates; the table is full after the second request, so the limit
of the handle table is reached too. Durations 0 and 1 separate a deadline that is due
from one that is not, which is all the code compares. Two actors let one be retired
before or behind one that is kept in the same walk, and a cleared slot be taken again
inside the loop that cleared it; the priorities are the limits of the four render ranges.
Three slots let two destructors nest beside a free slot; four generations make the counter
start again while old handles are still held. An ACT runtime has one clone alive and one
being made, so two addresses; a source of two layers lets a loop be between them, one
created layer lets the clone have more than the source, and four loops allow a stage to be
replaced three times inside its own callbacks. A map is replaced by one other and a layer
by one other; two hits tell the hits of one layer from those of the next, and one mover
suffices because a move reads nothing of other movers but the ends an earlier move left,
which its own earlier moves leave as well.

`services`: two tables of up to two blocks, so a load could mix two or miss a half. Two
archives of up to two paths out of three, two of which collide and two of which are
normalised: a path can be listed twice, hidden by a later archive, reached past a colliding
one, and listed in a spelling nobody can ask for. Files of two bytes,
reads and skips of up to three, and a DWORD of 32 values, which is more than every
position plus a read, as in the code, and still wraps. Tables of two containers with two
slots and one with one, nesting to depth two, a buffer of six tokens and arrays of one:
each limit is met and exceeded. One table is saved and a beginning of it loaded once,
because neither call has state. Three scenes: one listed, one current and one loading.

The proofs remove the bounds of every run for all its safety properties.

Every property of a passing run has a mutant in `PROJECT.json`: a defect of the modelled
code, defined beside the original as `<Operation>_<Defect>`, under which TLC finds the
property violated.

In the safety run of ActorManager `InitMay` is empty: an actor's Init does not call
ResetPriority or Reset on itself before CreateActor has indexed it, nor ClearActor during
a Reset. With either, `MovedAreCurrent` fails; the first case is the run
`actor_init_indexes`, whose specification `UnclearedSpec` leaves ClearActor out, so that
what survives an actor survives its release by a refresh. The second is not pursued: no
document says what a ClearActor during an Init should do.

`CHECK_DEADLOCK FALSE` stands where the system stops: actors after shutdown, frames after
the last release, scenes after shutdown. The other models go on for ever, if only by time
passing.

## Fairness

- Playback: weak fairness of both workers and of the shutdown, because threads are
  scheduled; of time; strong fairness of a successful `IDirectSoundBuffer::Play`, without
  which a track that never starts would never fade. The code retries it on every tick.
- Actors: a callback returns, at each depth of calls (strong, because scripts may make
  further calls in between), and the game goes on updating.
- Frames: weak fairness of each thread's next step and of the poll; strong fairness of a
  Reset that succeeds, since the main thread competes for the lock with the game thread,
  which leaves it free during its wait of a frame time, and since a driver that refuses
  for ever gives no recovery to promise.
- Scenes: strong fairness of each thread's steps, because each needs `scene_lock` again and
  again and the others hold it for moments only; weak fairness of the end of a draw, and
  of the message loop's end once `running` is false. Liveness promises nothing of a scene
  whose loader failed: the code then draws on for ever without one.

## Proofs

All are invariance proofs with one lemma per action, or step simulations from such an
invariant. TLC checked every inductive invariant's parts before the proof. Every invariant
and every action property of the passing runs is proved for all values of the constants,
under the assumptions the modules name and the hypotheses given below.

The provers here take no induction rule, which would have to be given a predicate. Where
a claim is about how far something goes (the rounds of a walk, entries of an index, slots,
levels of nesting), the numbers for which it holds are a set, and `Reaches` says that a set
of naturals with 0 and each successor is all of them; it follows from the least element of
its complement (`LeastOf`), which the library has in a form without a predicate. So the
models write recursion as functions over naturals.

- *BgmPlaybackProofs.* `AInv` is the type, `Accounted`, `Phased` (which phase of the main
  thread goes with which state of the workers) and `RetirementSignalled`; a wake-up is not
  lost because every retirement leaves the event signalled or the loader on its way to the
  list. `SInv` adds `OneStreamStays`. From these: `TypeCorrect`, `NothingLost`,
  `NoLostWakeup`, `JoinsFirst`, `OnlyOneStays`, `VerdictsAreFinal` and the refinement
  `PlaybackImplements`. Assumption: `PlaybackAssumption` on the constants.
- *ActorManagerProofs.* `ManagerInv` has the type, each of the run's invariants, and what the
  stack of script calls tells (`FramesInv`: an actor whose Init runs is alive, created by one
  call and reset by none; `PhasesInv`; `KeptInv`: without a cleanup to do the buffer holds
  every actor there is). `IndexInv` says the index has every actor once except those
  whose Init runs, and under its priority except while it is being reset. A refresh erases from the index it
  walks: `WalkInv` holds behind each of its rounds. `LayersOf` counts a sorted buffer into
  its four ranges. Theorems `ManagerTypeCorrect`, `ManagerInvariant`, `ManagerIndexedOnce`,
  `ManagerIteratedLive`, `ManagerDrawnInItsLayer`, `ManagerMovedAreCurrent`,
  `ManagerNothingLeft`. Hypotheses: all but the first need `InitMay = {}`, as the run does
  and for the reason the run `actor_init_indexes` shows; `ManagerDrawnInItsLayer` needs
  `Layered`, no priority below -1, because the code counts as the first range what equals -1.
- *GameSceneProofs.* Each manager borrows what another owns and none of them checks it; the
  order of the scripts' commands alone keeps them apart. `SceneInv` follows it: `Ordered`
  says that the commands left are an end of the scene's list, `Ready` what those that ran
  have established (behind which command the render queue lives, the layouts live, the
  world map's parents are gone), `Bounded` that hits end within the layouts. Theorems
  `SceneTypeCorrect`, `SceneDrawnAreAlive`, `SceneStandsOnItsLayer`, and
  `SceneCollisionReadsLiving`, which needs `WorldMovers = FALSE` (see GameScene above).
- *CallbackProofs, the pool.* `IInv` adds to the type, `SlotsAccounted` and `StaleNeverResolves`
  that a handle is behind the counter, modulo the number of generations, by exactly the
  acquisitions since (`LiveAges`, `StaleAge`): resolving needs the counter to come back to
  the handle's generation, hence a full round. Theorems `PoolInvariant`,
  `PoolTypeCorrect`, `PoolAccounted`, `PoolHandlesEnd`.
- *FramePipelineProofs.* `PInv` says who holds the lock in which step, that the back
  buffer is half drawn only under the game's lock, that attempts are left when the display
  thread tries again, why it sleeps and what has been joined. Theorems
  `PipelineInvariant`, `PipelineTypeCorrect`, `NothingForgotten`, `DeviceReleasedLast`,
  `FramesAreWhole`, for any number of attempts.
- *ArchiveProofs.* `PackageInv` is the types, `Indexed` (each chain holds the entries of its
  hash, no path twice, and a path's entry is the last one listed) and `Placed` (until Seek is
  used, the reader's position is the handle's, relative to the entry and within its size).
  `InsertIndexed` is about one entry of an index, `ListedIndexed` about any number of them. The
  unsigned differences of a read do not wrap because of `Placed` and of `ReaderAssumption`:
  an archive and a request fit in a DWORD. `PackageOpensLatest` is about normalised paths.
  Theorems `PackageTypesHold`,
  `PackageOpensLatest`, `PackageReadsItsEntry`.
- *ServicesProofs, the file.* `SaveInv` adds to the type, `LoadIsWhole` and `SavedReadable`
  that the file holds data of one table only, behind that table's size, and what `save_file`
  has done to it by each of its steps. The lemmas `PrefixIsData` and `ReadableIsWhole` say
  that a beginning as long as the size is the whole. Theorems `SaveTypesHold`,
  `LoadsAreWhole`, `SavesStayReadable`, for any tables, any number of blocks and any crashes.
- *ServicesProofs, the format.* `TablesInv` says that a stream that was left is what
  `write_table` makes of the table, complete and without a failure in it. That it is read
  back is one lemma about data: where the tokens of a container lie in the stream, a reader
  that reaches them at a path goes on behind them at the same path, having added what is
  held beneath it (`Adds`), or has failed over an array of those that is too long, having
  added nothing else. `SlotAdds` has it for a slot, from the level below; `SlotsAdd` for all
  slots of a container, `LevelReadBack` for a level, `AllReadBack` for any nesting.
  `ContainerWritten`, `WritingRuns` and `ReadingRuns` unfold the recursive functions. Cycles
  need no argument of their own: they end in a failure, which a stream does not contain.
  Theorems `TablesTypesHold`, `TablesReadBack`. `ServicesInvariant` puts the invariants of
  the four parts of the run together; `ServicesHold`, `ServicesTypeCorrect` and
  `ServicesImplement` state what follows for the specification the run checks.
- *SceneQueueProofs.* `ScenesInv` is the type, `ScenesAccounted` and `Control`, which says
  what each thread's place implies: who may have a scene in a local, that the loader is
  inside its creation only while nothing is pending and a change is wanted, and what has
  been joined. Theorems `ScenesTypesHold`, `NoSceneLost` and `ScenesImplement`; the
  refinement has one lemma per kind of step, and `Control` gives the guards of SceneLife.
- *CallbackProofs, ACT runtimes.* `ActInv` is the type, `StoreOK` (each document's record of the texture
  is sound, it has the texture unless it is suspended or a load failed, and the count is the
  number of documents that hold it), `Documented` (deleted
  clones hold nothing), `Borrows` (a stage that has ended lends nothing, because the next
  clone may fail half-way) and `Prepared`. `StageIsWhole` is not inductive: whether a stage
  is initialised when the innermost loop ends depends on that loop's index, and loops of
  replaced stages lie below it; `Prepared` says that only the innermost loop can be at a
  layer that has not run Init. `PutKeeps` reduces every texture operation to the change of
  one document's record, and `LoadFacts` says it of each of the stores a load may leave.
  Theorems `ActInvariant`, `ActTypesHold`, `StagesAreWhole`,
  `TexturesStayBalanced`, for any documents, layers and depth of callbacks.
  `CallbacksInvariant`, `CallbacksHold` and `CallbacksTypeCorrect` are about both parts in
  the behaviours the run explores.

Only model-checked: every liveness property (`FinishedIsFreed`, both `ShutdownEnds`,
`ReleasedIsRetired`, `DeviceRecovers`, `ScenesAreDestroyed`), since liveness under fairness
is outside what TLAPS proves here, and the four disagreements below, which are
counterexamples.

## Where code and documentation disagree

1. `docs/audio-scheduling`: replacement fades retire the old track. Not one that PauseBgm
   started before its delayed start: its deadline is never cleared and fades wait for it.
   (`bgm_paused_start`, `audio_runtime.cpp:1132`)
2. `docs/actor-manager-r141`: motion sees what the refresh before it left, and a release is
   carried out there. An actor whose Init calls ResetPriority gets two index entries. When it
   is released, the refresh erases the one it is told of (`priority_entry`) while it stands on
   the other, retires the actor and counts down once: an entry of the retired actor stays, and
   the count is 1 too high, so steps and motion go over the slot of the buffer where the
   refresh left the retired actor. (`actor_init_indexes`, `actor_manager.cpp:96`)
3. `include/kinoko/renderer.h`: acquired surfaces are released before Reset and shutdown.
   After a failed Reset they are released twice. (`frame_surfaces`, `render_target.cpp:107`)
4. `docs/application-lifecycle`: the pending flag uses the graphics lock. Present reads it
   before it tries the lock. (`frame_pending`, `device_runtime.cpp:73`)

## Not modelled

Of the lines that count as implementation, six in seven are `src/decompiled/6kinoko.exe.c`,
the listing of the original program the runtime is rebuilt from; it is evidence, not code
that is built, and so are the sources under `analysis/`. Of the rest the models take the
parts that have control state of their own. What they leave out, and why:

- *ACT documents, layers and layouts*: conversion of files into trees and copies of trees,
  sequential and without failure states beyond "nothing is built". Their life is in
  ActRuntime and MapManager.
- *Text and glyph atlases*: glyphs keep pointers into a vector of atlases that moves, so
  references are counted at whatever lies there then. Nothing in the repository promises
  otherwise, and `string_glyph_cache.cpp:228` keeps it on purpose as in the original.
- *Stages and game state*: a list appended to or cleared by callbacks; the loops read it
  anew for each element, as those of ActRuntime do, which stands for the runtimes in it.
- *Actor ownership, registration and animation*: reference counts of script instances and
  arithmetic of frames; a script that keeps a retired actor is the hazard listed at
  `actor_lifecycle.cpp:48`.
- *Input*: devices polled into arrays by one thread; assignments are data.
- *Sound effects and decoders*: one buffer per effect without control of its own; the ring
  buffer of the music is arithmetic over positions the device reports.
- *Frame timer*: FramePipeline uses it as a wait that returns (see there).
- *Native control blocks and containers*: strong and weak counts and plain data
  structures; the models use what they promise (an address referred to is not reused, a
  weak reference expires with its target).
- *Squirrel bindings*: registration and conversion of arguments; the state they change is
  the components'.
- *Rendering arithmetic, start-up, diagnostics, vendored libraries*: floating point, calls
  of Direct3D, dispatch tables, pure I/O.

In the modelled parts: gains, samples and the ring buffer of playback and the wrap of
`timeGetTime`; motion, animation and shapes of actors; release hooks that call the actor
manager back, and actors with several owners: ClearActor drops such an actor from the index
without retiring it (`actor_manager.cpp:119-121`), but every live actor's `owner_references`
is 1 (`actor_manager.cpp:89`), only a test sets 2; `separate_draw` in FramePipeline
(SceneQueue has it); placements, events and activation of maps; collision candidates and
geometry; the decoding of packed bytes; publication, drawing and layer hierarchy of ACT
runtimes.

Worth proving next: that of each set of waiting threads one can always step (playback,
frames, scenes), the safety part of the liveness properties; that `MapManager` gives out no
address a borrower still holds, which is an assumption of the model now; and what remains of
ActorManager's properties when an Init does touch the index.
