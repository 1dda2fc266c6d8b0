---------------------------- MODULE DynamicConfig ----------------------------
(***************************************************************************)
(* The way of dynamic.yaml into the proxy: DynamicConfigService of         *)
(* internal/config/service.go (first load, file watch, debounce, reload,   *)
(* updates channel) and the consumer goroutine of cmd/startasena.go.       *)
(*                                                                         *)
(* Goroutines: main, which does the first load and starts the others; the  *)
(* watch loop; one goroutine for each expiry of the debounce timer, which  *)
(* runs reload; the consumer.  reload is split where another goroutine can *)
(* come in between: it reads the file, compares the hash without dcs.mu,   *)
(* stores under dcs.mu, and sends after the unlock.                        *)
(*                                                                         *)
(* The file system and fsnotify are external: a change made in place makes *)
(* a write event; a change that puts another file in the place of the      *)
(* watched one makes events for the old file and ends the watch, which is  *)
(* on the file and not on its directory.                                   *)
(***************************************************************************)
EXTENDS Integers, Sequences, FiniteSets

CONSTANTS
  Contents,     \* what the file may contain
  Malformed,    \* contents that are not YAML or lack the section http, routers
                \*   or services; or no file
  BadService,   \* contents with a service that validateServiceCfg refuses
  NullService,  \* contents with a null service
  NullRouter,   \* contents with a null router, or a null server under an
                \*   algorithm whose constructor looks into its servers
  FirstContent, \* the content when the program starts
  Main,         \* the goroutine that starts the program
  Reloaders,    \* the goroutines of the debounce timer: as many reloads as
                \*   can overlap.  One means that reload is over before the
                \*   debounce interval of 500ms is.
  NoConfig,     \* the nil *DynamicConfig
  Surroundings, \* what may happen besides orderly edits in place: a subset of
                \*   Surrounding below
  MaxEdits      \* bound on the changes of the file

Surrounding ==
  { "early_edit",  \* the file changes before watcher.Add returned
    "replace",            \* another file is put in the place of the old one
    "watch_error",        \* fsnotify cannot create or start the watch
    "slow_build",         \* building the proxies takes longer than 500ms
    "signal" }            \* SIGINT or SIGTERM

ASSUME DynamicConfigAssumption ==
  /\ Malformed \subseteq Contents
  /\ BadService \subseteq Contents
  /\ NullService \subseteq Contents
  /\ NullRouter \subseteq Contents
  /\ FirstContent \in Contents
  /\ Main \notin Reloaders
  /\ Surroundings \subseteq Surrounding
  /\ MaxEdits \in Nat

Loader == Reloaders \cup {Main}

\* A state of the file.  Versions number its changes; the code does not see
\* them.  A configuration is the state of the file it was read from.
FileState == [ver : Nat, content : Contents]

ASSUME NoConfigAssumption == NoConfig \notin FileState /\ NoConfig \notin Contents

VARIABLES
  disk,         \* the file
  watched,      \* fsnotify has a watch on the file that is now at the path
  events,       \* watcher.Events, with the kernel's queue behind it
  watch,        \* the watch goroutine
  timer,        \* debounceTimer is armed
  stage,        \* stage[l]: how far loader l is in reload
  seen,         \* seen[l]: the file as loader l read it
  alone,        \* the loader of the last reload to begin, unless another one was
                \*   or is at work beside it: a set of one or none (not in the
                \*   code)
  cfg, hash,    \* dcs.cfg, dcs.hash (the content stands for its SHA-256)
  updates,      \* dcs.updates, a channel of capacity 1: its element or NoConfig
  building,     \* the configuration BuildReverseProxy works on, or NoConfig
  applied,      \* the configuration the proxies were last built from
  proc,         \* the process: "up", "exited", "crashed" (by a panic)
  signalled     \* ctx is done

serviceVars  == <<cfg, hash, updates>>
watchVars    == <<watched, events, watch, timer>>
reloadVars   == <<stage, seen, alone>>
consumerVars == <<building, applied>>
dcVars == <<disk, watchVars, reloadVars, serviceVars, consumerVars, proc, signalled>>

\* The version of a configuration; 0 for none.
Ver(c) == IF c = NoConfig THEN 0 ELSE c.ver

MoveTo(l, to) == stage' = [stage EXCEPT ![l] = to]

-------------------------------------------------------------------------------
(* reload, called by loader l.                                              *)

(* What setDynamicConfigs may make of a content.  It refuses what is        *)
(* malformed first and then goes through the services in the order of the   *)
(* map, which is random.  Each is normalised, which dereferences a null     *)
(* one, and then validated: of a null and a bad service either comes first. *)
MayFail(content)  == content \in Malformed \cup BadService
MayPanic(content) == content \in NullService \ Malformed
Loads(content)    == content \notin Malformed \cup BadService \cup NullService

(* Mutant: an error of a later load is logged and not returned.             *)
ReadFile_LogsErrors(l) ==
  /\ proc = "up" /\ stage[l] = "called"
  /\ seen' = [seen EXCEPT ![l] = disk]
  /\ \/ /\ MayFail(disk.content) /\ l = Main
        /\ proc' = "exited"
        /\ MoveTo(l, "idle")
     \/ /\ MayPanic(disk.content)
        /\ proc' = "crashed"
        /\ UNCHANGED stage
     \/ /\ Loads(disk.content) \/ (MayFail(disk.content) /\ l # Main)
        /\ MoveTo(l, "compare")
        /\ UNCHANGED proc
  /\ UNCHANGED <<disk, watchVars, alone, serviceVars, consumerVars, signalled>>

(* os.ReadFile, yaml.Unmarshal and setDynamicConfigs: only the file is      *)
(* shared.  An error ends the process if main gets it and is logged         *)
(* otherwise; a panic ends it whoever gets it, for nobody recovers.         *)
ReadFile(l) ==
  /\ proc = "up" /\ stage[l] = "called"
  /\ seen' = [seen EXCEPT ![l] = disk]
  /\ \/ /\ MayFail(disk.content)
        /\ proc' = IF l = Main THEN "exited" ELSE proc
        /\ MoveTo(l, "idle")
     \/ /\ MayPanic(disk.content)
        /\ proc' = "crashed"
        /\ UNCHANGED stage
     \/ /\ Loads(disk.content)
        /\ MoveTo(l, "compare")
        /\ UNCHANGED proc
  /\ UNCHANGED <<disk, watchVars, alone, serviceVars, consumerVars, signalled>>

(* The return of a reload without error.  When it is the first load, main   *)
(* starts the watch goroutine.                                              *)
Return(l) ==
  /\ MoveTo(l, "idle")
  /\ watch' = IF l = Main THEN "starting" ELSE watch

(* Mutant: no comparison.                                                   *)
CompareHash_Skipped(l) ==
  /\ proc = "up" /\ stage[l] = "compare"
  /\ MoveTo(l, "store")
  /\ UNCHANGED <<disk, watchVars, seen, alone, serviceVars, consumerVars, proc,
                 signalled>>

(* The hash is compared outside dcs.mu, so with two reloads at once it may  *)
(* be the hash before or after the other one stores: both slices have the   *)
(* same length, so no third value can be read.                              *)
CompareHash(l) ==
  /\ proc = "up" /\ stage[l] = "compare"
  /\ IF hash = seen[l].content
     THEN Return(l)
     ELSE MoveTo(l, "store") /\ UNCHANGED watch
  /\ UNCHANGED <<disk, watched, events, timer, seen, alone, serviceVars,
                 consumerVars, proc, signalled>>

(* Mutant: only the first load stores the configuration.                    *)
Store_OnlyHash(l) ==
  /\ proc = "up" /\ stage[l] = "store"
  /\ cfg' = IF cfg = NoConfig THEN seen[l] ELSE cfg
  /\ hash' = seen[l].content
  /\ MoveTo(l, "send")
  /\ UNCHANGED <<disk, watchVars, seen, alone, updates, consumerVars, proc,
                 signalled>>

(* Mutant: the hash is that of the first load for ever.                     *)
Store_FirstHash(l) ==
  /\ proc = "up" /\ stage[l] = "store"
  /\ cfg' = seen[l]
  /\ hash' = IF hash = NoConfig THEN seen[l].content ELSE hash
  /\ MoveTo(l, "send")
  /\ UNCHANGED <<disk, watchVars, seen, alone, updates, consumerVars, proc,
                 signalled>>

(* Mutant: the parsed content is stored without the rest.                   *)
Store_ContentOnly(l) ==
  /\ proc = "up" /\ stage[l] = "store"
  /\ cfg' = seen[l].content
  /\ hash' = seen[l].content
  /\ MoveTo(l, "send")
  /\ UNCHANGED <<disk, watchVars, seen, alone, updates, consumerVars, proc,
                 signalled>>

Store(l) ==
  /\ proc = "up" /\ stage[l] = "store"
  /\ cfg' = seen[l]
  /\ hash' = seen[l].content
  /\ MoveTo(l, "send")
  /\ UNCHANGED <<disk, watchVars, seen, alone, updates, consumerVars, proc,
                 signalled>>

(* The select with a default: a full channel keeps what it has.             *)
Send(l) ==
  /\ proc = "up" /\ stage[l] = "send"
  /\ updates' = IF updates = NoConfig THEN seen[l] ELSE updates
  /\ Return(l)
  /\ UNCHANGED <<disk, watched, events, timer, seen, alone, cfg, hash,
                 consumerVars, proc, signalled>>

Reload(l) == ReadFile(l) \/ CompareHash(l) \/ Store(l) \/ Send(l)

-------------------------------------------------------------------------------
(* The watch goroutine.                                                     *)

(* A failed NewWatcher is logged and its nil watcher used: a panic.  A      *)
(* failed Add ends the goroutine, and the program runs on without a watch.  *)
StartWatch ==
  /\ proc = "up" /\ watch = "starting"
  /\ \/ /\ watch' = "running"
        /\ watched' = TRUE
        /\ UNCHANGED proc
     \/ /\ "watch_error" \in Surroundings
        /\ watch' = "stopped"
        /\ UNCHANGED <<watched, proc>>
     \/ /\ "watch_error" \in Surroundings
        /\ proc' = "crashed"
        /\ UNCHANGED <<watch, watched>>
  /\ UNCHANGED <<disk, events, timer, reloadVars, serviceVars, consumerVars,
                 signalled>>

EventOp == {"write", "create", "rename", "chmod", "remove"}

(* Mutant: an event is ignored while a reload runs.                         *)
HandleEvent_NotWhileReloading ==
  /\ proc = "up" /\ watch = "running" /\ events # <<>>
  /\ events' = Tail(events)
  /\ timer' = (timer \/ \A l \in Loader : stage[l] = "idle")
  /\ UNCHANGED <<disk, watched, watch, reloadVars, serviceVars, consumerVars,
                 proc, signalled>>

(* An event of the filter stops the timer, if armed, and arms a new one.    *)
HandleEvent ==
  /\ proc = "up" /\ watch = "running" /\ events # <<>>
  /\ events' = Tail(events)
  /\ timer' = (timer \/ Head(events) \in {"write", "create", "rename", "chmod"})
  /\ UNCHANGED <<disk, watched, watch, reloadVars, serviceVars, consumerVars,
                 proc, signalled>>

(* time.AfterFunc runs reload in a goroutine of its own.                    *)
Fire(l) ==
  /\ proc = "up" /\ timer /\ l \in Reloaders /\ stage[l] = "idle"
  /\ "slow_build" \notin Surroundings => building = NoConfig /\ updates = NoConfig
  /\ timer' = FALSE
  /\ MoveTo(l, "called")
  /\ alone' = IF \A m \in Loader : stage[m] = "idle" THEN {l} ELSE {}
  /\ UNCHANGED <<disk, watched, events, watch, seen, serviceVars, consumerVars,
                 proc, signalled>>

(* Mutant: the watch goroutine returns without stopTimer.                   *)
StopWatch_KeepsTimer ==
  /\ proc = "up" /\ watch = "running" /\ signalled
  /\ watch' = "stopped"
  /\ watched' = FALSE
  /\ events' = <<>>
  /\ UNCHANGED <<disk, timer, reloadVars, serviceVars, consumerVars, proc, signalled>>

(* ctx.Done: stopTimer, and the deferred watcher.Close.                     *)
StopWatch ==
  /\ proc = "up" /\ watch = "running" /\ signalled
  /\ watch' = "stopped"
  /\ timer' = FALSE
  /\ watched' = FALSE
  /\ events' = <<>>
  /\ UNCHANGED <<disk, reloadVars, serviceVars, consumerVars, proc, signalled>>

-------------------------------------------------------------------------------
(* The consumer, which main starts after the first load.                    *)

Take ==
  /\ proc = "up" /\ watch # "off" /\ updates # NoConfig /\ building = NoConfig
  /\ building' = updates
  /\ updates' = NoConfig
  /\ UNCHANGED <<disk, watchVars, reloadVars, cfg, hash, applied, proc, signalled>>

(* Mutant: what came in during the build is thrown away.                    *)
FinishBuild_Drains ==
  /\ proc = "up" /\ building # NoConfig
  /\ applied' = building
  /\ building' = NoConfig
  /\ updates' = NoConfig
  /\ UNCHANGED <<disk, watchVars, reloadVars, cfg, hash, proc, signalled>>

(* BuildReverseProxy.  compileRoutes dereferences a null router, and some   *)
(* balancers (weighted round-robin, sticky session, consistent hash) a null *)
(* server when they are made.                                               *)
FinishBuild ==
  /\ proc = "up" /\ building # NoConfig
  /\ IF building.content \in NullRouter
     THEN proc' = "crashed" /\ UNCHANGED consumerVars
     ELSE /\ applied' = building
          /\ building' = NoConfig
          /\ UNCHANGED proc
  /\ UNCHANGED <<disk, watchVars, reloadVars, serviceVars, signalled>>

(* The end of main, which waits for ctx once it serves requests.            *)
Exit ==
  /\ proc = "up" /\ watch # "off" /\ signalled
  /\ proc' = "exited"
  /\ UNCHANGED <<disk, watchVars, reloadVars, serviceVars, consumerVars, signalled>>

-------------------------------------------------------------------------------
(* The surroundings.                                                        *)

Change(content) ==
  /\ disk.ver <= MaxEdits
  /\ "early_edit" \notin Surroundings => watch \in {"running", "stopped"}
  /\ disk' = [ver |-> disk.ver + 1, content |-> content]
  /\ UNCHANGED <<watch, timer, reloadVars, serviceVars, consumerVars, proc,
                 signalled>>

EditInPlace ==
  /\ \E content \in Contents : Change(content)
  /\ events' = IF watched THEN Append(events, "write") ELSE events
  /\ UNCHANGED watched

(* mv of a new file over it; mv of it to another name and a new file in its *)
(* place; rm and a new file.                                                *)
Replace ==
  /\ "replace" \in Surroundings
  /\ \E content \in Contents : Change(content)
  /\ watched' = FALSE
  /\ IF watched
     THEN \E ops \in {<<"chmod", "remove">>, <<"rename">>, <<"remove">>} :
            events' = events \o ops
     ELSE UNCHANGED events

Signal ==
  /\ "signal" \in Surroundings /\ ~signalled
  /\ signalled' = TRUE
  /\ UNCHANGED <<disk, watchVars, reloadVars, serviceVars, consumerVars, proc>>

-------------------------------------------------------------------------------

DCInit ==
  /\ disk = [ver |-> 1, content |-> FirstContent]
  /\ watched = FALSE
  /\ events = <<>>
  /\ watch = "off"
  /\ timer = FALSE
  /\ stage = [l \in Loader |-> IF l = Main THEN "called" ELSE "idle"]
  /\ seen = [l \in Loader |-> NoConfig]
  /\ alone = {Main}
  /\ cfg = NoConfig /\ hash = NoConfig /\ updates = NoConfig
  /\ building = NoConfig /\ applied = NoConfig
  /\ proc = "up"
  /\ signalled = FALSE

System ==
  \/ \E l \in Loader : Reload(l) \/ Fire(l)
  \/ StartWatch \/ HandleEvent \/ StopWatch
  \/ Take \/ FinishBuild \/ Exit

DCNext == System \/ EditInPlace \/ Replace \/ Signal

DCSpec == DCInit /\ [][DCNext]_dcVars

(* Every goroutine that can go on does, and an armed timer expires.         *)
DCFairness ==
  /\ \A l \in Loader : WF_dcVars(Reload(l))
  /\ WF_dcVars(\E l \in Loader : Fire(l))
  /\ WF_dcVars(StartWatch) /\ WF_dcVars(HandleEvent) /\ WF_dcVars(StopWatch)
  /\ WF_dcVars(Take) /\ WF_dcVars(FinishBuild)

DCFairSpec == DCSpec /\ DCFairness

-------------------------------------------------------------------------------

Config == FileState \cup {NoConfig}

\* The variables range over the values the code gives them.
DCTypeOK ==
  /\ disk \in FileState
  /\ watched \in BOOLEAN /\ timer \in BOOLEAN /\ signalled \in BOOLEAN
  /\ events \in Seq(EventOp)
  /\ watch \in {"off", "starting", "running", "stopped"}
  /\ stage \in [Loader -> {"idle", "called", "compare", "store", "send"}]
  /\ seen \in [Loader -> Config]
  /\ alone \subseteq Loader
  /\ cfg \in Config /\ updates \in Config /\ building \in Config /\ applied \in Config
  /\ hash \in Contents \cup {NoConfig}
  /\ proc \in {"up", "exited", "crashed"}

\* A configuration that passed validation: reload returned no error for it.
Accepted(c) == c # NoConfig => Loads(c.content)

\* docs/DYNAMIC_CONFIG.md:155: when a reload fails the previous configuration
\* remains active.  Nothing that failed to load is ever handed out by Get, on
\* its way to the proxies or in use by them; and once the service is there
\* (main goes on to serve requests), Get has a configuration to hand out.
OnlyAcceptedConfigs ==
  /\ Accepted(cfg) /\ Accepted(updates) /\ Accepted(building) /\ Accepted(applied)
  /\ watch # "off" => cfg # NoConfig

\* Two reloads that overlap may leave the older content in force, for the
\* comparison and the store are apart.  The harm ends there: whatever they left
\* behind, the next reload that runs by itself puts in force what it reads, if
\* that loads, and drops it only when it is in force already.
LoneReloadSettles ==
  \A l \in alone :
    stage[l] = "idle" /\ Loads(seen[l].content) =>
      cfg # NoConfig /\ cfg.content = seen[l].content

\* After the watch goroutine returned no timer is left that would reload.
NoTimerAfterStop == watch = "stopped" => ~timer /\ events = <<>> /\ ~watched

\* Configurations travel in order: what the proxies use was taken before what
\* is being built, that before what waits in the channel, and none of them is
\* newer than what Get returns or than the file.  So no goroutine ever sees an
\* older configuration after a newer one.  This needs reloads not to overlap.
TravelInOrder ==
  /\ Ver(cfg) <= disk.ver
  /\ \A c \in {updates, building, applied} : Ver(c) <= Ver(cfg)
  /\ updates # NoConfig => Ver(building) < updates.ver /\ Ver(applied) < updates.ver
  /\ building # NoConfig => Ver(applied) < building.ver

\* ADR-0005: reloading unchanged content is a no-op.  The configuration in
\* force is only ever replaced by one of another content.  This needs reloads
\* not to overlap.
NoRedundantReload == [][cfg' # cfg => cfg'.content # hash]_dcVars

\* The file comes to rest with a content that can be loaded and applied.
FileSettles ==
  <>[](proc = "up" /\ Loads(disk.content) /\ disk.content \notin NullRouter)

\* docs/DYNAMIC_CONFIG.md:6-7: changes are detected automatically.  What Get
\* returns catches up with the file once it is left alone.
ChangesAreDetected ==
  FileSettles => <>[](cfg # NoConfig /\ cfg.content = disk.content)

\* docs/DYNAMIC_CONFIG.md:6-7, 179: changes are applied, and when the consumer
\* is slow the last one wins.  What the proxies use catches up with the file
\* once it is left alone.
ChangesAreApplied ==
  FileSettles => <>[](applied # NoConfig /\ applied.content = disk.content)

\* No reload comes to its send while the channel is full.
NothingDropped == [](\A l \in Loader : stage[l] = "send" => updates = NoConfig)

\* The send that gives up is the only way to lose a change: unless one meets a
\* full channel, the proxies catch up with the file, however long they take to
\* build.
AppliedUnlessDropped == NothingDropped => ChangesAreApplied

\* docs/DYNAMIC_CONFIG.md:155, 169: on an error the server continues running
\* with the last valid configuration.  A null service or a null router does
\* not fail to load, it ends the process.
StaysUp == proc # "crashed"

===============================================================================
