------------------------- MODULE ConfigReloadProofs -------------------------
(***************************************************************************)
(* Safety of hot reload for any number of timer goroutines, any number of  *)
(* edits and any environment: what is published is complete, and it never  *)
(* goes back unless two reloads overlap.                                   *)
(***************************************************************************)
EXTENDS ConfigReload, TLAPS

\* Every content that was read has been written, and the file, when usable,
\* holds the last one written.
Written ==
  /\ file \in {Unusable, edits}
  /\ config.content <= edits
  /\ level <= edits
  /\ \A g \in Reloaders : loaded[g].content <= edits

\* While no two reloads overlap, the one under way has what is at least as new
\* as what is in force.
Ahead ==
  alone =>
    /\ \A g, h \in Reloaders : Unfinished(g) /\ Unfinished(h) => g = h
    /\ \A g \in Reloaders :
         Unfinished(g) => /\ loaded[g].content >= config.content
                          /\ loaded[g].content >= level

\* What a reload has read is valid, and carries --port once its callbacks ran.
ReadComplete ==
  \A g \in Reloaders :
    /\ Unfinished(g) => Validates(loaded[g].settings)
    /\ pc[g] = "swap" /\ PortFlag # 0 => loaded[g].settings.port = PortFlag

IInv == TypeOK /\ Written /\ Ahead /\ ReadComplete /\ PublishedComplete

-----------------------------------------------------------------------------
(* Loading *)

\* The three steps of loading make settings (loader.go:34-171).
LEMMA LoadedType ==
  ASSUME NEW c \in Contents, NEW e \in Envs
  PROVE  Loaded(c, e) \in Settings
<1> DEFINE s == ApplyEnvOverrides(FileConfigs[c], e)
<1>1. FileConfigs[c] \in Settings /\ e \in Environments
  BY SettingsAssumption
<1>2. s \in Settings
  BY <1>1 DEF ApplyEnvOverrides, Settings, Environments
<1>3. PromotedKeys(s) \in Seq(Keys)
  BY <1>2 DEF PromotedKeys, Settings
<1>4. PromotedKeys(s) # <<>> => Head(PromotedKeys(s)) \in Keys
  BY <1>3
<1> HIDE DEF s
<1>5. ApplyDefaults(s) \in Settings
  BY <1>2, <1>3, <1>4 DEF ApplyDefaults, Settings, DefaultPort
<1>6. QED
  BY <1>5 DEF Loaded, s

\* A configuration that was read has the content of the file, and settings.
LEMMA LoadFacts ==
  ASSUME NEW c \in Contents, NEW e \in Envs
  PROVE  /\ LoadFromPath(c, e) \in Configs
         /\ LoadFromPath(c, e).content = c
         /\ LoadFromPath(c, e).settings = Loaded(c, e)
BY LoadedType DEF LoadFromPath, Configs

\* The override of --port changes the port only (main.go:122-127).
LEMMA OverriddenFacts ==
  ASSUME NEW cfg \in Configs
  PROVE  /\ Overridden(cfg) \in Configs
         /\ Overridden(cfg).content = cfg.content
         /\ Validates(cfg.settings) => Validates(Overridden(cfg).settings)
         /\ PortFlag # 0 => Overridden(cfg).settings.port = PortFlag
<1>1. CASE PortFlag = 0
  BY <1>1 DEF Overridden
<1>2. CASE PortFlag # 0
  <2> DEFINE s == cfg.settings
             n == [apiKey |-> s.apiKey, apiKeys |-> s.apiKeys, port |-> PortFlag]
  <2>1. s \in Settings /\ cfg.content \in Contents
    BY DEF Configs
  <2>2. [s EXCEPT !.port = PortFlag] = n
    BY <2>1 DEF Settings
  <2>3. n \in Settings
    BY <2>1, SettingsAssumption DEF Settings
  <2>4. Overridden(cfg) = [content |-> cfg.content, settings |-> n]
    BY <1>2, <2>2 DEF Overridden
  <2>5. Validates(s) => Validates(n)
    BY DEF Validates
  <2>6. QED
    BY <1>2, <2>1, <2>3, <2>4, <2>5 DEF Configs
<1>3. QED
  BY <1>1, <1>2

\* Something that loads is a content, and valid.
LEMMA Loads ==
  ASSUME TypeOK, ~LoadFails(file, env)
  PROVE  /\ file \in Contents
         /\ file # Unusable
         /\ Validates(Loaded(file, env))
BY DEF TypeOK, LoadFails

LEMMA ContentsAreNat == Contents \subseteq Nat /\ 0 \in Contents
BY EditsAssumption DEF Contents

LEMMA VersionsAreNat ==
  ASSUME TypeOK
  PROVE  /\ config.content \in Nat /\ level \in Nat /\ edits \in Nat
         /\ \A g \in Reloaders : loaded[g].content \in Nat
BY ContentsAreNat DEF TypeOK, Configs

-----------------------------------------------------------------------------
(* Steps *)

LEMMA InitIInv == Init => IInv
<1> SUFFICES ASSUME Init PROVE IInv
  OBVIOUS
<1> DEFINE first == LoadFromPath(0, env)
<1>1. /\ 0 \in Contents
      /\ env \in Envs
      /\ Validates(Loaded(0, env))
  BY ContentsAreNat, UnusableAssumption DEF Init, LoadFails
<1>2. /\ first \in Configs
      /\ first.content = 0
      /\ first.settings = Loaded(0, env)
  BY <1>1, LoadFacts
<1>3. /\ Overridden(first) \in Configs
      /\ Overridden(first).content = 0
      /\ Validates(Overridden(first).settings)
      /\ PortFlag # 0 => Overridden(first).settings.port = PortFlag
  BY <1>1, <1>2, OverriddenFacts
<1>4. /\ config = Overridden(first)
      /\ loaded = [g \in Reloaders |-> first]
      /\ \A g \in Reloaders : pc[g] = "idle"
  BY DEF Init
<1>5. TypeOK
  <2>1. events \in [Kinds -> 0..MaxEvents]
    BY EditsAssumption DEF Init
  <2>2. pc \in [Reloaders -> {"idle", "read", "callbacks", "swap"}]
    BY DEF Init
  <2>3. loaded \in [Reloaders -> Configs] /\ config \in Configs
    BY <1>2, <1>3, <1>4
  <2>4. QED
    BY <1>1, <2>1, <2>2, <2>3 DEF Init, TypeOK
<1>6. Written
  BY <1>2, <1>3, <1>4, EditsAssumption DEF Init, Written
<1>7. Ahead /\ ReadComplete /\ PublishedComplete
  BY <1>3, <1>4 DEF Ahead, ReadComplete, PublishedComplete, Unfinished
<1>8. QED
  BY <1>5, <1>6, <1>7 DEF IInv

\* A step outside of Reload changes none of its variables; it may start one.
LEMMA OutsideStep ==
  ASSUME IInv, TypeOK', Written', UNCHANGED <<loaded, config, level, alone>>,
         \A g \in Reloaders :
           pc'[g] = pc[g] \/ (pc[g] = "idle" /\ pc'[g] = "read")
  PROVE  IInv'
<1>1. \A g \in Reloaders : Unfinished(g)' <=> Unfinished(g)
  BY DEF Unfinished
<1>2. Ahead'
  BY <1>1 DEF IInv, Ahead
<1>3. ReadComplete'
  BY <1>1 DEF IInv, ReadComplete
<1>4. PublishedComplete'
  BY DEF IInv, PublishedComplete
<1>5. QED
  BY <1>2, <1>3, <1>4 DEF IInv

LEMMA EditorStep ==
  ASSUME IInv, NEW k \in Kinds, FileBreaks(k) \/ FileEdited(k)
  PROVE  IInv'
<1>1. /\ UNCHANGED <<env, watcher, sighup, timer, pc, loaded, config, level, alone>>
      /\ edits' \in {edits, edits + 1}
      /\ edits' = edits \/ edits < MaxEdits
      /\ file' \in {Unusable, edits'}
  BY DEF FileBreaks, FileEdited
<1>0. edits' \in Contents
  BY <1>1, EditsAssumption DEF IInv, TypeOK, Contents
<1>6. missed' \in BOOLEAN
  <2>1. CASE FileBreaks(k)
    BY <2>1 DEF FileBreaks, IInv, TypeOK
  <2>2. CASE FileEdited(k)
    BY <2>2 DEF FileEdited
  <2>3. QED
    BY <2>1, <2>2
<1>2. events' \in [Kinds -> 0..MaxEvents]
  BY EditsAssumption DEF IInv, TypeOK, FileBreaks, FileEdited, Notify
<1>3. TypeOK'
  BY <1>0, <1>1, <1>2, <1>6 DEF IInv, TypeOK
<1>4. Written'
  <2>1. edits' >= edits /\ edits' \in Nat
    BY <1>1, VersionsAreNat DEF IInv
  <2>2. QED
    BY <1>1, <2>1, VersionsAreNat DEF IInv, Written
<1>5. QED
  BY <1>1, <1>3, <1>4, OutsideStep

LEMMA WatcherStep ==
  ASSUME IInv,
         UserSignals \/ WatchStarts \/ WatchLoop \/ TimerFires \/ WatchEnds
  PROVE  IInv'
<1>1. UNCHANGED <<env, file, edits, loaded, config, level, missed, alone>>
  BY DEF UserSignals, WatchStarts, WatchLoop, TakesSignal, TakesEvent,
         TimerFires, WatchEnds
<1>2. /\ watcher' \in {"off", "on", "ended"}
      /\ sighup' \in BOOLEAN
      /\ timer' \in BOOLEAN
  BY DEF IInv, TypeOK, UserSignals, WatchStarts, WatchLoop, TakesSignal,
         TakesEvent, TimerFires, WatchEnds
<1>3. events' \in [Kinds -> 0..MaxEvents]
  <2>1. \A n \in 0..MaxEvents : n > 0 => n - 1 \in 0..MaxEvents
    BY EditsAssumption
  <2>2. QED
    BY <2>1 DEF IInv, TypeOK, UserSignals, WatchStarts, WatchLoop, TakesSignal,
                TakesEvent, TimerFires, WatchEnds
<1>4. /\ pc' \in [Reloaders -> {"idle", "read", "callbacks", "swap"}]
      /\ \A g \in Reloaders :
           pc'[g] = pc[g] \/ (pc[g] = "idle" /\ pc'[g] = "read")
  BY DEF IInv, TypeOK, UserSignals, WatchStarts, WatchLoop, TakesSignal,
         TakesEvent, TimerFires, WatchEnds, Reloaders
<1>5. TypeOK'
  BY <1>1, <1>2, <1>3, <1>4 DEF IInv, TypeOK
<1>6. Written'
  BY <1>1 DEF IInv, Written
<1>7. QED
  BY <1>1, <1>4, <1>5, <1>6, OutsideStep

\* The file does not load: the reload is over, nothing has changed.
LEMMA ReadFailsStep ==
  ASSUME IInv, NEW g \in Reloaders, ReadFails(g)
  PROVE  IInv'
<1>1. \A h \in Reloaders : pc'[h] = IF h = g THEN "idle" ELSE pc[h]
  BY DEF IInv, TypeOK, ReadFails
<1>2. \A h \in Reloaders : Unfinished(h)' <=> Unfinished(h)
  BY <1>1 DEF ReadFails, Unfinished
<1>3. TypeOK' /\ Written'
  BY DEF IInv, TypeOK, Written, ReadFails
<1>4. Ahead'
  BY <1>2 DEF IInv, Ahead, ReadFails
<1>5. ReadComplete' /\ PublishedComplete'
  BY <1>1, <1>2 DEF IInv, ReadComplete, PublishedComplete, ReadFails
<1>6. QED
  BY <1>3, <1>4, <1>5 DEF IInv

\* What is read is the newest content there is; from here on the reload counts
\* as one under way.
LEMMA ReadSucceedsStep ==
  ASSUME IInv, NEW g \in Reloaders, ReadSucceeds(g)
  PROVE  IInv'
<1>1. /\ file \in Contents
      /\ file = edits
      /\ env \in Envs
      /\ Validates(Loaded(file, env))
  BY Loads DEF IInv, TypeOK, Written, ReadSucceeds
<1>2. /\ loaded'[g] \in Configs
      /\ loaded'[g].content = edits
      /\ loaded'[g].settings = Loaded(file, env)
      /\ \A h \in Reloaders \ {g} : loaded'[h] = loaded[h]
  BY <1>1, LoadFacts DEF IInv, TypeOK, ReadSucceeds
<1>3. /\ pc'[g] = "callbacks"
      /\ \A h \in Reloaders \ {g} : pc'[h] = pc[h]
  BY DEF IInv, TypeOK, ReadSucceeds
<1>4. \A h \in Reloaders : Unfinished(h)' <=> h = g \/ Unfinished(h)
  BY <1>3 DEF Unfinished
<1>5. TypeOK'
  <2>1. loaded' \in [Reloaders -> Configs]
    BY <1>2 DEF IInv, TypeOK, ReadSucceeds
  <2>2. alone' \in BOOLEAN
    BY DEF ReadSucceeds
  <2>3. QED
    BY <2>1, <2>2 DEF IInv, TypeOK, ReadSucceeds
<1>6. Written'
  <2>1. edits \in Nat
    BY VersionsAreNat DEF IInv
  <2>2. QED
    BY <1>2, <2>1 DEF IInv, Written, ReadSucceeds
<1>7. Ahead'
  <2>1. alone' => \A h \in Reloaders \ {g} : ~Unfinished(h)
    BY DEF ReadSucceeds
  <2>2. edits >= config.content /\ edits >= level
    BY VersionsAreNat DEF IInv, Written
  <2>3. UNCHANGED <<config, level>>
    BY DEF ReadSucceeds
  <2>4. QED
    BY <1>2, <1>4, <2>1, <2>2, <2>3 DEF Ahead
<1>8. ReadComplete'
  BY <1>1, <1>2, <1>3, <1>4 DEF IInv, ReadComplete
<1>9. PublishedComplete'
  BY DEF IInv, PublishedComplete, ReadSucceeds
<1>10. QED
  BY <1>5, <1>6, <1>7, <1>8, <1>9 DEF IInv

\* The callbacks run on what was read, which is not published yet.
LEMMA RunsCallbacksStep ==
  ASSUME IInv, NEW g \in Reloaders, RunsCallbacks(g)
  PROVE  IInv' /\ (level' < level => ~alone)
<1>1. loaded[g] \in Configs /\ loaded[g].content \in Nat
  BY ContentsAreNat DEF IInv, TypeOK, Configs
<1>2. Unfinished(g) /\ Validates(loaded[g].settings)
  BY DEF IInv, ReadComplete, RunsCallbacks, Unfinished
<1>3. /\ loaded'[g] \in Configs
      /\ loaded'[g].content = loaded[g].content
      /\ Validates(loaded'[g].settings)
      /\ PortFlag # 0 => loaded'[g].settings.port = PortFlag
      /\ \A h \in Reloaders \ {g} : loaded'[h] = loaded[h]
  BY <1>1, <1>2, OverriddenFacts DEF IInv, TypeOK, RunsCallbacks
<1>4. \A h \in Reloaders : pc'[h] = IF h = g THEN "swap" ELSE pc[h]
  BY DEF IInv, TypeOK, RunsCallbacks
<1>5. \A h \in Reloaders : Unfinished(h)' <=> Unfinished(h)
  BY <1>4 DEF RunsCallbacks, Unfinished
<1>6. level' = loaded[g].content /\ UNCHANGED <<config, alone>>
  BY DEF RunsCallbacks
<1>7. TypeOK'
  <2>1. loaded' \in [Reloaders -> Configs]
    BY <1>3 DEF IInv, TypeOK, RunsCallbacks
  <2>2. level' \in Contents
    BY <1>1, <1>6 DEF Configs
  <2>3. QED
    BY <2>1, <2>2 DEF IInv, TypeOK, RunsCallbacks
<1>8. Written'
  BY <1>3, <1>6 DEF IInv, Written, RunsCallbacks
<1>9. Ahead'
  <2>1. ASSUME alone, NEW h \in Reloaders, Unfinished(h)
        PROVE  h = g
    BY <1>2, <2>1 DEF IInv, Ahead
  <2>2. QED
    BY <1>1, <1>2, <1>3, <1>5, <1>6, <2>1 DEF IInv, Ahead
<1>10. ReadComplete'
  BY <1>3, <1>4, <1>5 DEF IInv, ReadComplete
<1>11. PublishedComplete'
  BY <1>6 DEF IInv, PublishedComplete
<1>12. level' < level => ~alone
  <2>1. alone => loaded[g].content >= level
    BY <1>2 DEF IInv, Ahead
  <2>2. level \in Nat
    BY VersionsAreNat DEF IInv
  <2>3. QED
    BY <1>1, <1>6, <2>1, <2>2
<1>13. QED
  BY <1>7, <1>8, <1>9, <1>10, <1>11, <1>12 DEF IInv

\* What is published is what the callbacks have seen.
LEMMA SwapsStep ==
  ASSUME IInv, NEW g \in Reloaders, Swaps(g)
  PROVE  IInv' /\ (config'.content < config.content => ~alone)
<1>1. loaded[g] \in Configs /\ loaded[g].content \in Nat
  BY ContentsAreNat DEF IInv, TypeOK, Configs
<1>2. /\ Unfinished(g)
      /\ Validates(loaded[g].settings)
      /\ PortFlag # 0 => loaded[g].settings.port = PortFlag
  BY DEF IInv, ReadComplete, Swaps, Unfinished
<1>3. config' = loaded[g] /\ UNCHANGED <<level, alone, edits, file>>
  BY DEF Swaps
<1>4. /\ loaded'[g] \in Configs
      /\ loaded'[g].content = 0
      /\ \A h \in Reloaders \ {g} : loaded'[h] = loaded[h]
  BY ContentsAreNat, LoadFacts DEF IInv, TypeOK, Swaps
<1>5. \A h \in Reloaders : pc'[h] = IF h = g THEN "idle" ELSE pc[h]
  BY DEF IInv, TypeOK, Swaps
<1>6. \A h \in Reloaders : Unfinished(h)' <=> h # g /\ Unfinished(h)
  BY <1>5 DEF Unfinished
<1>7. TypeOK'
  <2>1. loaded' \in [Reloaders -> Configs]
    BY <1>4 DEF IInv, TypeOK, Swaps
  <2>2. QED
    BY <1>1, <1>3, <2>1 DEF IInv, TypeOK, Swaps
<1>8. Written'
  <2>1. edits \in Nat
    BY VersionsAreNat DEF IInv
  <2>2. QED
    BY <1>3, <1>4, <2>1 DEF IInv, Written
<1>9. Ahead'
  <2>1. ASSUME alone, NEW h \in Reloaders, Unfinished(h)
        PROVE  h = g
    BY <1>2, <2>1 DEF IInv, Ahead
  <2>2. QED
    BY <1>3, <1>6, <2>1 DEF Ahead
<1>10. ReadComplete'
  BY <1>4, <1>5, <1>6 DEF IInv, ReadComplete
<1>11. PublishedComplete'
  BY <1>2, <1>3 DEF PublishedComplete
<1>12. config'.content < config.content => ~alone
  <2>1. alone => loaded[g].content >= config.content
    BY <1>2 DEF IInv, Ahead
  <2>2. config.content \in Nat
    BY VersionsAreNat DEF IInv
  <2>3. QED
    BY <1>1, <1>3, <2>1, <2>2
<1>13. QED
  BY <1>7, <1>8, <1>9, <1>10, <1>11, <1>12 DEF IInv

LEMMA StutterStep ==
  ASSUME IInv, UNCHANGED vars
  PROVE  IInv'
<1>1. TypeOK' /\ Written'
  BY DEF IInv, TypeOK, Written, vars
<1>2. QED
  BY <1>1, OutsideStep DEF vars

\* No step takes the configuration or the level back while alone.
Forward ==
  config'.content < config.content \/ level' < level => ~alone

\* A step that leaves the configuration and the level alone takes neither back.
LEMMA QuietForward ==
  ASSUME IInv, UNCHANGED <<config, level>>
  PROVE  Forward
BY VersionsAreNat DEF IInv, Forward

LEMMA NextStep ==
  ASSUME IInv, [Next]_vars
  PROVE  IInv' /\ Forward
<1>1. CASE Editor
  <2>1. PICK k \in Kinds : FileBreaks(k) \/ FileEdited(k)
    BY <1>1 DEF Editor
  <2>2. UNCHANGED <<config, level>>
    BY <2>1 DEF FileBreaks, FileEdited
  <2>3. QED
    BY <2>1, <2>2, EditorStep, QuietForward
<1>2. CASE UserSignals \/ WatchStarts \/ WatchLoop \/ TimerFires \/ WatchEnds
  <2>1. UNCHANGED <<config, level>>
    BY <1>2 DEF UserSignals, WatchStarts, WatchLoop, TakesSignal, TakesEvent,
                TimerFires, WatchEnds
  <2>2. QED
    BY <1>2, <2>1, WatcherStep, QuietForward
<1>3. ASSUME NEW g \in Reloaders, Reload(g)
      PROVE  IInv' /\ Forward
  <2>1. CASE ReadFails(g)
    BY <2>1, ReadFailsStep, QuietForward DEF ReadFails
  <2>2. CASE ReadSucceeds(g)
    BY <2>2, ReadSucceedsStep, QuietForward DEF ReadSucceeds
  <2>3. CASE RunsCallbacks(g)
    <3>1. ~(config'.content < config.content)
      BY <2>3, VersionsAreNat DEF RunsCallbacks, IInv
    <3>2. QED
      BY <2>3, <3>1, RunsCallbacksStep DEF Forward
  <2>4. CASE Swaps(g)
    <3>1. ~(level' < level)
      BY <2>4, VersionsAreNat DEF Swaps, IInv
    <3>2. QED
      BY <2>4, <3>1, SwapsStep DEF Forward
  <2>5. QED
    BY <1>3, <2>1, <2>2, <2>3, <2>4 DEF Reload
<1>4. CASE UNCHANGED vars
  BY <1>4, StutterStep, QuietForward DEF vars
<1>5. QED
  BY <1>1, <1>2, <1>3, <1>4 DEF Next

-----------------------------------------------------------------------------

\* IInv is inductive.
THEOREM Inductive == Spec => []IInv
<1>1. IInv /\ [Next]_vars => IInv'
  BY NextStep
<1>2. QED
  BY InitIInv, <1>1, PTL DEF Spec

\* Every variable of ConfigReload keeps its type.
THEOREM ReloadTypes == Spec => []TypeOK
<1>1. IInv => TypeOK
  BY DEF IInv
<1>2. QED
  BY Inductive, <1>1, PTL

\* What requests get is validated and carries the port of --port at every
\* moment of every reload, overlapping ones included (atomic.go:34-80).
THEOREM AlwaysComplete == Spec => []PublishedComplete
<1>1. IInv => PublishedComplete
  BY DEF IInv
<1>2. QED
  BY Inductive, <1>1, PTL

\* The configuration and the log level go back to an older content only when
\* two reloads overlap (atomic.go:34-80).
THEOREM BackOnlyIfOverlapping == Spec => NeverBack
<1>1. IInv /\ [Next]_vars =>
        [config'.content < config.content \/ level' < level => ~alone]_vars
  BY NextStep DEF Forward
<1>2. QED
  BY Inductive, <1>1, PTL DEF Spec, NeverBack
=============================================================================
