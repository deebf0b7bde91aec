---------------------------- MODULE ConfigReload ----------------------------
(***************************************************************************)
(* Hot reload: AtomicConfig (internal/config/atomic.go), the file watcher  *)
(* (watcher.go), the loader (loader.go) and the two callbacks, the port    *)
(* override of main.go and the log level of server.go.                     *)
(*                                                                         *)
(* Three parties race.  Whoever edits the file does so in steps, and each  *)
(* step makes an event of the file system.  The watcher's loop turns       *)
(* events into a debounce timer and runs a reload itself on SIGHUP.  The   *)
(* timer, when it fires, runs a reload on a goroutine of its own, which    *)
(* Timer.Stop no longer stops.  A reload reads the file, runs the          *)
(* callbacks and swaps the pointer, in separate steps.                     *)
(*                                                                         *)
(* A content of the file is a number: 0 is the one the server started      *)
(* with, each edit makes the next.  FileConfigs says what is in it.        *)
(* Unusable stands for a file that is missing, half written or not JSON.   *)
(***************************************************************************)
EXTENDS Integers, Sequences

CONSTANTS
  MaxEdits,      \* bound: the number of complete contents written
  MaxEvents,     \* bound: events of one kind waiting for the watcher
  TimerReloads,  \* the goroutines a debounce timer may run Reload on (a bound
                 \* on how many are unfinished at once)
  Loop,          \* the watcher's goroutine
  Keys, NoKey,   \* API keys, and the empty string
  FileConfigs,   \* the settings each content of the file makes
  Envs,          \* the environments the server may run in
  PortFlag,      \* what serve was given as --port, 0 for nothing
  Unusable

\* Settings as the file makes them: 0, NoKey and the empty list are absences.
Settings == [apiKey : Keys \cup {NoKey}, apiKeys : Seq(Keys), port : Nat]

\* The variables OC_GO_CC_*.  A list of keys may be given and hold none.
Environments ==
  [apiKey : Keys \cup {NoKey}, keysGiven : BOOLEAN, apiKeys : Seq(Keys),
   port : Nat]

Contents == 0..MaxEdits

ASSUME EditsAssumption == MaxEdits \in Nat /\ MaxEvents \in Nat \ {0}
ASSUME ReloaderAssumption == Loop \notin TimerReloads
ASSUME SettingsAssumption ==
  /\ NoKey \notin Keys
  /\ PortFlag \in Nat
  /\ FileConfigs \in [Contents -> Settings]
  /\ Envs \subseteq Environments
ASSUME UnusableAssumption == Unusable \notin Nat

VARIABLES
  env,        \* the environment, which stays
  file,       \* what the configuration file holds
  edits,      \* the number of contents written so far
  events,     \* for each kind of event, how many the watcher has not read
  watcher,    \* "off", "on" or "ended"
  sighup,     \* the signal channel holds a SIGHUP
  timer,      \* the debounce timer is running
  pc,         \* where each goroutine that may run Reload is
  loaded,     \* the configuration it has read
  config,     \* what AtomicConfig.Get returns
  level,      \* the content whose log level is in force
  missed,     \* history: the last edit came when nobody watched
  alone       \* history: the last reload that read the file overlapped no other

vars == <<env, file, edits, events, watcher, sighup, timer, pc, loaded, config,
          level, missed, alone>>

Reloaders == TimerReloads \cup {Loop}

Kinds == {"write", "create", "rename", "remove"}

-----------------------------------------------------------------------------
(* Loading. *)

DefaultPort == 3456

ApplyEnvOverrides(s, e) ==
  [apiKey  |-> IF e.apiKey # NoKey THEN e.apiKey ELSE s.apiKey,
   apiKeys |-> IF e.keysGiven THEN e.apiKeys ELSE s.apiKeys,
   port    |-> IF e.port # 0 THEN e.port ELSE s.port]

\* api_key alone becomes the list; the first of the list becomes the api_key.
PromotedKeys(s) ==
  IF s.apiKeys = <<>> /\ s.apiKey # NoKey THEN <<s.apiKey>> ELSE s.apiKeys

ApplyDefaults(s) ==
  [apiKey  |-> IF s.apiKey = NoKey /\ PromotedKeys(s) # <<>>
                 THEN Head(PromotedKeys(s))
                 ELSE s.apiKey,
   apiKeys |-> PromotedKeys(s),
   port    |-> IF s.port = 0 THEN DefaultPort ELSE s.port]

Loaded(c, e) == ApplyDefaults(ApplyEnvOverrides(FileConfigs[c], e))

Validates(s) == s.apiKey # NoKey \/ s.apiKeys # <<>>

\* LoadFromPath returns an error.
LoadFails(c, e) == c # Unusable => ~Validates(Loaded(c, e))

\* A configuration, and the content it was read from.
Configs == [content : Contents, settings : Settings]

LoadFromPath(c, e) == [content |-> c, settings |-> Loaded(c, e)]

\* What --port says is put over the configuration read.
Overridden(cfg) ==
  IF PortFlag # 0
    THEN [content |-> cfg.content,
          settings |-> [cfg.settings EXCEPT !.port = PortFlag]]
    ELSE cfg

-----------------------------------------------------------------------------
TypeOK ==
  /\ env \in Envs
  /\ file \in Contents \cup {Unusable}
  /\ edits \in Contents
  /\ events \in [Kinds -> 0..MaxEvents]
  /\ watcher \in {"off", "on", "ended"}
  /\ sighup \in BOOLEAN
  /\ timer \in BOOLEAN
  /\ pc \in [Reloaders -> {"idle", "read", "callbacks", "swap"}]
  /\ loaded \in [Reloaders -> Configs]
  /\ config \in Configs
  /\ level \in Contents
  /\ missed \in BOOLEAN
  /\ alone \in BOOLEAN

\* serve has loaded the file, applied --port, built the AtomicConfig and the
\* server, registered both callbacks, and started the watcher's goroutine.
Init ==
  /\ env \in Envs
  /\ ~LoadFails(0, env)
  /\ file = 0
  /\ edits = 0
  /\ events = [k \in Kinds |-> 0]
  /\ watcher = "off"
  /\ sighup = FALSE
  /\ timer = FALSE
  /\ pc = [g \in Reloaders |-> "idle"]
  /\ loaded = [g \in Reloaders |-> LoadFromPath(0, env)]
  /\ config = Overridden(LoadFromPath(0, env))
  /\ level = 0
  /\ missed = FALSE
  /\ alone = TRUE

-----------------------------------------------------------------------------
(* The editor. *)

\* An event of kind k on the file's name, delivered if the directory is watched.
Notify(k) ==
  IF watcher = "on"
    THEN /\ events[k] < MaxEvents
         /\ events' = [events EXCEPT ![k] = @ + 1]
    ELSE UNCHANGED events

\* The file is truncated to be written again, moved away, or removed.
FileBreaks(k) ==
  /\ k \in {"write", "rename", "remove"}
  /\ file # Unusable
  /\ edits < MaxEdits
  /\ file' = Unusable
  /\ Notify(k)
  /\ UNCHANGED <<env, edits, watcher, sighup, timer, pc, loaded, config, level,
                 missed, alone>>

\* A complete new content: written in place, or by a file moved over it.
FileEdited(k) ==
  /\ k \in {"write", "create"}
  /\ edits < MaxEdits
  /\ edits' = edits + 1
  /\ file' = edits'
  /\ Notify(k)
  /\ missed' = (watcher # "on")
  /\ UNCHANGED <<env, watcher, sighup, timer, pc, loaded, config, level, alone>>

\* A user sends SIGHUP.  The channel holds one, the next is dropped.
UserSignals ==
  /\ watcher = "on"
  /\ ~sighup
  /\ sighup' = TRUE
  /\ UNCHANGED <<env, file, edits, events, watcher, timer, pc, loaded, config,
                 level, missed, alone>>

-----------------------------------------------------------------------------
(* The watcher. *)

\* The directory is added to the watcher and SIGHUP is asked for.
WatchStarts ==
  /\ watcher = "off"
  /\ watcher' = "on"
  /\ UNCHANGED <<env, file, edits, events, sighup, timer, pc, loaded, config,
                 level, missed, alone>>

\* Mutant of Relevant: only writes count, and a file moved over is missed.
OnlyWrites(k) == k = "write"

\* The kinds of event the loop does not skip.
Relevant(k) == k \in {"write", "create", "rename"}

\* The loop takes an event: it stops the timer and starts another.
TakesEvent(k) ==
  /\ watcher = "on"
  /\ pc[Loop] = "idle"
  /\ events[k] > 0
  /\ events' = [events EXCEPT ![k] = @ - 1]
  /\ timer' = (timer \/ Relevant(k))
  /\ UNCHANGED <<env, file, edits, watcher, sighup, pc, loaded, config, level,
                 missed, alone>>

\* The loop takes a SIGHUP and runs Reload itself.
TakesSignal ==
  /\ watcher = "on"
  /\ pc[Loop] = "idle"
  /\ sighup
  /\ sighup' = FALSE
  /\ pc' = [pc EXCEPT ![Loop] = "read"]
  /\ UNCHANGED <<env, file, edits, events, watcher, timer, loaded, config, level,
                 missed, alone>>

\* Half a second without an event: Reload runs on a goroutine of its own.
TimerFires ==
  /\ timer
  /\ \E g \in TimerReloads :
       /\ pc[g] = "idle"
       /\ pc' = [pc EXCEPT ![g] = "read"]
  /\ timer' = FALSE
  /\ UNCHANGED <<env, file, edits, events, watcher, sighup, loaded, config, level,
                 missed, alone>>

\* The context is cancelled as serve returns: the loop ends, and with it the
\* timer.  Reloads under way are not waited for.
WatchEnds ==
  /\ watcher = "on"
  /\ pc[Loop] = "idle"
  /\ watcher' = "ended"
  /\ timer' = FALSE
  /\ UNCHANGED <<env, file, edits, events, sighup, pc, loaded, config, level,
                 missed, alone>>

-----------------------------------------------------------------------------
(* Reload, by whichever goroutine runs it. *)

\* Mutant of ReadFails: what could not be loaded is swapped in.
SwapsUnusable(g) ==
  /\ pc[g] = "read"
  /\ LoadFails(file, env)
  /\ config' = [config EXCEPT !.content = file]
  /\ pc' = [pc EXCEPT ![g] = "idle"]
  /\ UNCHANGED <<env, file, edits, events, watcher, sighup, timer, loaded, level,
                 missed, alone>>

\* Mutant of ReadFails: a file that does not load brings back the start's.
BackToStart(g) ==
  /\ pc[g] = "read"
  /\ LoadFails(file, env)
  /\ config' = Overridden(LoadFromPath(0, env))
  /\ pc' = [pc EXCEPT ![g] = "idle"]
  /\ UNCHANGED <<env, file, edits, events, watcher, sighup, timer, loaded, level,
                 missed, alone>>

\* LoadFromPath fails: the old configuration stays.
ReadFails(g) ==
  /\ pc[g] = "read"
  /\ LoadFails(file, env)
  /\ pc' = [pc EXCEPT ![g] = "idle"]
  /\ UNCHANGED <<env, file, edits, events, watcher, sighup, timer, loaded, config,
                 level, missed, alone>>

\* g has read a configuration and not yet swapped it in.
Unfinished(g) == pc[g] \in {"callbacks", "swap"}

ReadSucceeds(g) ==
  /\ pc[g] = "read"
  /\ ~LoadFails(file, env)
  /\ loaded' = [loaded EXCEPT ![g] = LoadFromPath(file, env)]
  /\ pc' = [pc EXCEPT ![g] = "callbacks"]
  /\ alone' = \A h \in Reloaders \ {g} : ~Unfinished(h)
  /\ UNCHANGED <<env, file, edits, events, watcher, sighup, timer, config, level,
                 missed>>

\* Mutant of RunsCallbacks: the pointer is swapped before the callbacks run.
SwapsFirst(g) ==
  /\ pc[g] = "callbacks"
  /\ config' = loaded[g]
  /\ loaded' = [loaded EXCEPT ![g] = Overridden(@)]
  /\ level' = loaded[g].content
  /\ pc' = [pc EXCEPT ![g] = "swap"]
  /\ UNCHANGED <<env, file, edits, events, watcher, sighup, timer, missed, alone>>

\* The callbacks, in the order they were registered: the port, the log level.
RunsCallbacks(g) ==
  /\ pc[g] = "callbacks"
  /\ loaded' = [loaded EXCEPT ![g] = Overridden(@)]
  /\ level' = loaded[g].content
  /\ pc' = [pc EXCEPT ![g] = "swap"]
  /\ UNCHANGED <<env, file, edits, events, watcher, sighup, timer, config, missed,
                 alone>>

\* The pointer is stored and Reload returns, its local variables gone.
Swaps(g) ==
  /\ pc[g] = "swap"
  /\ config' = loaded[g]
  /\ loaded' = [loaded EXCEPT ![g] = LoadFromPath(0, env)]
  /\ pc' = [pc EXCEPT ![g] = "idle"]
  /\ UNCHANGED <<env, file, edits, events, watcher, sighup, timer, level, missed,
                 alone>>

Reload(g) == ReadFails(g) \/ ReadSucceeds(g) \/ RunsCallbacks(g) \/ Swaps(g)

-----------------------------------------------------------------------------
Editor == \E k \in Kinds : FileBreaks(k) \/ FileEdited(k)

WatchLoop == TakesSignal \/ \E k \in Kinds : TakesEvent(k)

Next ==
  \/ Editor
  \/ UserSignals
  \/ WatchStarts
  \/ WatchLoop
  \/ TimerFires
  \/ WatchEnds
  \/ \E g \in Reloaders : Reload(g)

\* Goroutines are scheduled and timers fire.  Go's select picks at random
\* among its ready cases, so an event that is there whenever the loop comes
\* back is taken in the end, however many signals arrive.  Nothing is assumed
\* of the editor, of users or of the server ending.
Fairness ==
  /\ WF_vars(WatchStarts)
  /\ WF_vars(TimerFires)
  /\ \A k \in Kinds : SF_vars(TakesEvent(k))
  /\ SF_vars(TakesSignal)
  /\ \A g \in Reloaders : WF_vars(Reload(g))

Spec == Init /\ [][Next]_vars /\ Fairness

-----------------------------------------------------------------------------
(* What hot reload promises. *)

\* What a request gets as the configuration is complete at every moment: it
\* has passed validation, and carries the port of --port, because callbacks
\* run before the swap (atomic.go:64, main.go:123).
PublishedComplete ==
  /\ Validates(config.settings)
  /\ PortFlag # 0 => config.settings.port = PortFlag

\* A usable file that is left alone becomes the configuration, and its log
\* level the one in force, for good: however it was written, however many
\* events were folded into one timer, and whatever failed to load on the way.
\* Two cases are excepted, which the code leaves open: an edit between the
\* load at the start and the watcher's Add makes no event (main.go:135), and a
\* reload that overlaps another may put back what it read before (atomic.go:34).
SettledFileApplied ==
  \A c \in Contents :
    <>[](/\ file = c
         /\ ~LoadFails(file, env)
         /\ watcher = "on"
         /\ ~missed
         /\ alone)
      => <>[](config.content = c /\ level = c)

\* Neither the configuration nor the log level goes back to an older content,
\* unless two reloads overlap: the file is read, the level set and the pointer
\* swapped in three steps with no lock around them (atomic.go:34-77).
NeverBack ==
  [][config'.content < config.content \/ level' < level => ~alone]_vars
=============================================================================
