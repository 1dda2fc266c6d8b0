------------------------- MODULE DynamicConfig_proof -------------------------
(***************************************************************************)
(* Proofs about DynamicConfig: safety of the reload pipeline, for any      *)
(* contents, any number of changes and whatever the surroundings do.  The  *)
(* first part holds however many reloads overlap, the second needs them    *)
(* not to.                                                                 *)
(***************************************************************************)
EXTENDS DynamicConfig, SequenceTheorems, TLAPS

-------------------------------------------------------------------------------
(* The inductive invariant of the first part.                               *)

\* Past the read a loader has a configuration that passed validation, and when
\* it comes to send, the service has one.
ReadsAreAccepted ==
  \A l \in Loader :
    /\ stage[l] \in {"compare", "store", "send"} =>
         /\ seen[l] \in FileState
         /\ Loads(seen[l].content)
    /\ stage[l] = "send" => cfg # NoConfig

\* The hash the next reload compares with is that of the configuration in
\* force.
HashIsOfConfig == hash = (IF cfg = NoConfig THEN NoConfig ELSE cfg.content)

\* The watch goroutine is started by the first load, when that is over.
MainLoadsFirst == watch # "off" => stage[Main] = "idle"

\* Only a running watch goroutine has a timer, events and a watch.
WatchAtRest == watch # "running" => ~timer /\ events = <<>> /\ ~watched

LoadInv ==
  /\ DCTypeOK
  /\ ReadsAreAccepted
  /\ HashIsOfConfig
  /\ OnlyAcceptedConfigs
  /\ MainLoadsFirst
  /\ WatchAtRest

LEMMA LoadInvInit == DCInit => LoadInv
<1> SUFFICES ASSUME DCInit PROVE LoadInv
  OBVIOUS
<1> USE DEF DCInit
<1>1. DCTypeOK
  <2>1. disk \in FileState
    BY DynamicConfigAssumption DEF FileState
  <2>2. events \in Seq(EventOp)
    OBVIOUS
  <2>3. stage \in [Loader -> {"idle", "called", "compare", "store", "send"}]
    OBVIOUS
  <2>4. alone \subseteq Loader
    BY DEF Loader
  <2> QED
    BY <2>1, <2>2, <2>3, <2>4 DEF DCTypeOK, Config
<1>2. ReadsAreAccepted /\ MainLoadsFirst /\ WatchAtRest
  BY DEF ReadsAreAccepted, MainLoadsFirst, WatchAtRest, Loader
<1>3. HashIsOfConfig /\ OnlyAcceptedConfigs
  BY DEF HashIsOfConfig, OnlyAcceptedConfigs, Accepted
<1> QED
  BY <1>1, <1>2, <1>3 DEF LoadInv

-------------------------------------------------------------------------------
(* reload.                                                                  *)

LEMMA ReadFileKeepsLoadInv ==
  ASSUME LoadInv, NEW l \in Loader, ReadFile(l)
  PROVE  LoadInv'
<1> USE DEF LoadInv, ReadFile, MoveTo, watchVars, serviceVars, consumerVars
<1>1. DCTypeOK'
  BY DEF DCTypeOK, Config
<1>2. ReadsAreAccepted'
  BY DEF ReadsAreAccepted, DCTypeOK
<1>3. MainLoadsFirst'
  BY DEF MainLoadsFirst, DCTypeOK, Loader
<1>4. HashIsOfConfig' /\ OnlyAcceptedConfigs'
  BY DEF HashIsOfConfig, OnlyAcceptedConfigs, Accepted
<1>5. WatchAtRest'
  BY DEF WatchAtRest
<1> QED
  BY <1>1, <1>2, <1>3, <1>4, <1>5

LEMMA CompareHashKeepsLoadInv ==
  ASSUME LoadInv, NEW l \in Loader, CompareHash(l)
  PROVE  LoadInv'
<1> USE DEF LoadInv, CompareHash, Return, MoveTo, serviceVars, consumerVars
<1>1. DCTypeOK'
  BY DEF DCTypeOK
<1>2. ReadsAreAccepted'
  BY DEF ReadsAreAccepted, DCTypeOK
<1>3. MainLoadsFirst' /\ WatchAtRest'
  BY DEF MainLoadsFirst, WatchAtRest, DCTypeOK, Loader
<1>4. HashIsOfConfig'
  BY DEF HashIsOfConfig
<1>5. cfg # NoConfig \/ watch' = watch
  <2>1. CASE hash = seen[l].content
    <3>1. seen[l].content \in Contents
      BY DEF ReadsAreAccepted, FileState
    <3>2. hash # NoConfig
      BY <2>1, <3>1, NoConfigAssumption
    <3> QED
      BY <3>2 DEF HashIsOfConfig
  <2>2. CASE hash # seen[l].content
    BY <2>2
  <2> QED
    BY <2>1, <2>2
<1>6. OnlyAcceptedConfigs'
  BY <1>5 DEF OnlyAcceptedConfigs, Accepted
<1> QED
  BY <1>1, <1>2, <1>3, <1>4, <1>6

LEMMA StoreKeepsLoadInv ==
  ASSUME LoadInv, NEW l \in Loader, Store(l)
  PROVE  LoadInv'
<1> USE DEF LoadInv, Store, MoveTo, watchVars, consumerVars
<1>1. /\ seen[l] \in FileState /\ seen[l] # NoConfig
      /\ seen[l].content \in Contents
      /\ Loads(seen[l].content)
  BY NoConfigAssumption DEF ReadsAreAccepted, FileState
<1>2. DCTypeOK'
  BY <1>1 DEF DCTypeOK, Config
<1>3. ReadsAreAccepted'
  BY <1>1 DEF ReadsAreAccepted, DCTypeOK
<1>4. MainLoadsFirst' /\ WatchAtRest'
  BY DEF MainLoadsFirst, WatchAtRest, DCTypeOK
<1>5. HashIsOfConfig' /\ OnlyAcceptedConfigs'
  BY <1>1 DEF HashIsOfConfig, OnlyAcceptedConfigs, Accepted
<1> QED
  BY <1>2, <1>3, <1>4, <1>5

LEMMA SendKeepsLoadInv ==
  ASSUME LoadInv, NEW l \in Loader, Send(l)
  PROVE  LoadInv'
<1> USE DEF LoadInv, Send, Return, MoveTo, consumerVars
<1>1. /\ seen[l] \in FileState
      /\ Loads(seen[l].content)
      /\ cfg # NoConfig
  BY DEF ReadsAreAccepted
<1>2. DCTypeOK'
  BY <1>1 DEF DCTypeOK, Config
<1>3. ReadsAreAccepted'
  BY DEF ReadsAreAccepted, DCTypeOK
<1>4. MainLoadsFirst' /\ WatchAtRest'
  BY DEF MainLoadsFirst, WatchAtRest, DCTypeOK, Loader
<1>5. HashIsOfConfig' /\ OnlyAcceptedConfigs'
  BY <1>1 DEF HashIsOfConfig, OnlyAcceptedConfigs, Accepted
<1> QED
  BY <1>2, <1>3, <1>4, <1>5

-------------------------------------------------------------------------------
(* The other goroutines and the surroundings.                               *)

\* What is not changed by a step that leaves reload and the service alone.
LEMMA ServiceAtRest ==
  ASSUME LoadInv, UNCHANGED <<reloadVars, cfg, hash>>
  PROVE  ReadsAreAccepted' /\ HashIsOfConfig'
  BY DEF LoadInv, ReadsAreAccepted, HashIsOfConfig, reloadVars

LEMMA WatchKeepsLoadInv ==
  ASSUME LoadInv, StartWatch \/ HandleEvent \/ StopWatch
  PROVE  LoadInv'
<1>1. /\ UNCHANGED <<disk, reloadVars, cfg, hash, updates, building, applied>>
      /\ UNCHANGED signalled
      /\ watch # "off"
  BY DEF StartWatch, HandleEvent, StopWatch, serviceVars, consumerVars
<1>2. DCTypeOK'
  <2>1. events' \in Seq(EventOp)
    <3>1. events \in Seq(EventOp)
      BY DEF LoadInv, DCTypeOK
    <3>2. events' = events \/ events' = <<>> \/ (events # <<>> /\ events' = Tail(events))
      BY DEF StartWatch, HandleEvent, StopWatch
    <3> QED
      BY <3>1, <3>2, EmptySeq, HeadTailProperties
  <2>2. watched' \in BOOLEAN /\ timer' \in BOOLEAN
    BY DEF LoadInv, DCTypeOK, StartWatch, HandleEvent, StopWatch
  <2>3. /\ watch' \in {"off", "starting", "running", "stopped"}
        /\ proc' \in {"up", "exited", "crashed"}
    BY DEF LoadInv, DCTypeOK, StartWatch, HandleEvent, StopWatch
  <2> QED
    BY <1>1, <2>1, <2>2, <2>3 DEF LoadInv, DCTypeOK, reloadVars
<1>3. MainLoadsFirst' /\ WatchAtRest' /\ OnlyAcceptedConfigs'
  BY <1>1 DEF LoadInv, MainLoadsFirst, WatchAtRest, OnlyAcceptedConfigs, Accepted,
              StartWatch, HandleEvent, StopWatch, reloadVars
<1> QED
  BY <1>1, <1>2, <1>3, ServiceAtRest DEF LoadInv

LEMMA FireKeepsLoadInv ==
  ASSUME LoadInv, NEW l \in Loader, Fire(l)
  PROVE  LoadInv'
<1> USE DEF LoadInv, Fire, MoveTo, serviceVars, consumerVars
<1>1. DCTypeOK'
  BY DEF DCTypeOK
<1>2. ReadsAreAccepted'
  BY DEF ReadsAreAccepted, DCTypeOK
<1>3. MainLoadsFirst' /\ WatchAtRest'
  BY DynamicConfigAssumption DEF MainLoadsFirst, WatchAtRest, DCTypeOK
<1>4. HashIsOfConfig' /\ OnlyAcceptedConfigs'
  BY DEF HashIsOfConfig, OnlyAcceptedConfigs, Accepted
<1> QED
  BY <1>1, <1>2, <1>3, <1>4

LEMMA ConsumerKeepsLoadInv ==
  ASSUME LoadInv, Take \/ FinishBuild \/ Exit
  PROVE  LoadInv'
<1> USE DEF LoadInv, Take, FinishBuild, Exit, watchVars, reloadVars, serviceVars,
            consumerVars
<1>1. DCTypeOK'
  BY DEF DCTypeOK, Config
<1>2. MainLoadsFirst' /\ WatchAtRest'
  BY DEF MainLoadsFirst, WatchAtRest
<1>3. OnlyAcceptedConfigs'
  BY DEF OnlyAcceptedConfigs, Accepted
<1>4. UNCHANGED <<reloadVars, cfg, hash>>
  OBVIOUS
<1> QED
  BY <1>1, <1>2, <1>3, <1>4, ServiceAtRest

LEMMA SurroundingsKeepLoadInv ==
  ASSUME LoadInv, EditInPlace \/ Replace \/ Signal
  PROVE  LoadInv'
<1>1. /\ UNCHANGED <<watch, timer, reloadVars, cfg, hash, updates>>
      /\ UNCHANGED <<building, applied, proc>>
  BY DEF EditInPlace, Replace, Signal, Change, watchVars, serviceVars, consumerVars
<1>2. disk' \in FileState
  BY DEF LoadInv, DCTypeOK, EditInPlace, Replace, Signal, Change, FileState
<1>3. events' \in Seq(EventOp)
  <2>1. events \in Seq(EventOp)
    BY DEF LoadInv, DCTypeOK
  <2>2. \/ events' = events
        \/ events' = Append(events, "write")
        \/ events' = events \o <<"chmod", "remove">>
        \/ events' = events \o <<"rename">>
        \/ events' = events \o <<"remove">>
    BY DEF EditInPlace, Replace, Signal, watchVars
  <2>3. {"write", "chmod", "rename", "remove"} \subseteq EventOp
    BY DEF EventOp
  <2>4. Append(events, "write") \in Seq(EventOp)
    BY <2>1, <2>3, AppendProperties
  <2>5. ASSUME NEW ops \in Seq(EventOp) PROVE events \o ops \in Seq(EventOp)
    BY <2>1, ConcatProperties
  <2>6. /\ <<"chmod", "remove">> \in Seq(EventOp)
        /\ <<"rename">> \in Seq(EventOp)
        /\ <<"remove">> \in Seq(EventOp)
    BY DEF EventOp
  <2> QED
    BY <2>1, <2>2, <2>4, <2>5, <2>6
<1>4. /\ watched' \in BOOLEAN /\ signalled' \in BOOLEAN
      /\ ~watched => ~watched' /\ events' = events
  <2>1. CASE EditInPlace
    BY <2>1 DEF LoadInv, DCTypeOK, EditInPlace, Change
  <2>2. CASE Replace
    BY <2>2 DEF LoadInv, DCTypeOK, Replace, Change
  <2>3. CASE Signal
    BY <2>3 DEF LoadInv, DCTypeOK, Signal, watchVars
  <2> QED
    BY <2>1, <2>2, <2>3
<1>5. DCTypeOK'
  BY <1>1, <1>2, <1>3, <1>4 DEF LoadInv, DCTypeOK, reloadVars
<1>6. MainLoadsFirst' /\ WatchAtRest' /\ OnlyAcceptedConfigs'
  BY <1>1, <1>4 DEF LoadInv, MainLoadsFirst, WatchAtRest, OnlyAcceptedConfigs,
                    Accepted, reloadVars
<1> QED
  BY <1>1, <1>5, <1>6, ServiceAtRest DEF LoadInv

LEMMA LoadInvStep == LoadInv /\ [DCNext]_dcVars => LoadInv'
<1>1. LoadInv /\ UNCHANGED dcVars => LoadInv'
  BY DEF LoadInv, DCTypeOK, ReadsAreAccepted, HashIsOfConfig, OnlyAcceptedConfigs,
         Accepted, MainLoadsFirst, WatchAtRest,
         dcVars, watchVars, reloadVars, serviceVars, consumerVars
<1> QED
  BY <1>1, ReadFileKeepsLoadInv, CompareHashKeepsLoadInv, StoreKeepsLoadInv,
     SendKeepsLoadInv, WatchKeepsLoadInv, FireKeepsLoadInv, ConsumerKeepsLoadInv,
     SurroundingsKeepLoadInv
  DEF DCNext, System, Reload

\* In every state of every execution the pipeline is as LoadInv says.
THEOREM LoadInvariant == DCSpec => []LoadInv
  BY LoadInvInit, LoadInvStep, PTL DEF DCSpec

\* The variables of the pipeline have the values the code gives them.
THEOREM DCTypeCorrect == DCSpec => []DCTypeOK
<1>1. LoadInv => DCTypeOK
  BY DEF LoadInv
<1> QED
  BY <1>1, LoadInvariant, PTL

\* However many reloads overlap: nothing that failed to load is handed out by
\* Get, on its way to the proxies or in use by them, and the service always
\* has a configuration once main goes on.
THEOREM OnlyAcceptedConfigsTravel == DCSpec => []OnlyAcceptedConfigs
<1>1. LoadInv => OnlyAcceptedConfigs
  BY DEF LoadInv
<1> QED
  BY <1>1, LoadInvariant, PTL

-------------------------------------------------------------------------------
(* The reload that runs alone.                                              *)

\* Beside a reload that runs alone no loader is at work, and once it is past
\* its store or its comparison, what it read is in force.
AloneInv ==
  \A l \in alone :
    /\ \A m \in Loader \ {l} : stage[m] = "idle"
    /\ stage[l] \in {"idle", "send"} /\ Loads(seen[l].content) =>
         cfg # NoConfig /\ cfg.content = seen[l].content

LEMMA AloneInvInit == DCInit => AloneInv
  BY DEF DCInit, AloneInv, Loader

\* A step of a reload that is not the one that runs alone means that there is
\* none.
LEMMA OnlyTheLoneStep ==
  ASSUME AloneInv, NEW l \in Loader, stage[l] # "idle"
  PROVE  alone \subseteq {l}
  BY DEF AloneInv

LEMMA ReloadKeepsAloneInv ==
  ASSUME LoadInv, AloneInv, NEW l \in Loader, Reload(l)
  PROVE  AloneInv'
<1>1. /\ alone' = alone
      /\ \A m \in Loader \ {l} : stage'[m] = stage[m]
      /\ stage[l] # "idle"
  BY DEF LoadInv, DCTypeOK, Reload, ReadFile, CompareHash, Store, Send, Return,
         MoveTo
<1>2. alone \subseteq {l}
  BY <1>1, OnlyTheLoneStep
<1>3. l \in alone => \A m \in Loader \ {l} : stage'[m] = "idle"
  BY <1>1 DEF AloneInv
<1>4. ASSUME l \in alone, stage'[l] \in {"idle", "send"}, Loads(seen'[l].content)
      PROVE  cfg' # NoConfig /\ cfg'.content = seen'[l].content
  <2>1. CASE ReadFile(l)
    BY <2>1, <1>1, <1>4 DEF LoadInv, DCTypeOK, ReadFile, MoveTo, Loads, MayFail,
                       MayPanic
  <2>2. CASE CompareHash(l)
    <3>1. stage[l] = "compare" /\ UNCHANGED <<seen, cfg>>
      BY <2>2 DEF CompareHash, serviceVars
    <3>2. hash = seen[l].content
      BY <2>2, <1>4 DEF CompareHash, MoveTo, LoadInv, DCTypeOK
    <3>3. seen[l].content \in Contents
      BY <3>1 DEF LoadInv, ReadsAreAccepted, FileState
    <3> QED
      BY <3>1, <3>2, <3>3, NoConfigAssumption DEF LoadInv, HashIsOfConfig
  <2>3. CASE Store(l)
    <3>1. stage[l] = "store" /\ cfg' = seen[l] /\ UNCHANGED seen
      BY <2>3 DEF Store
    <3>2. seen[l] \in FileState
      BY <3>1 DEF LoadInv, ReadsAreAccepted
    <3> QED
      BY <3>1, <3>2, NoConfigAssumption
  <2>4. CASE Send(l)
    BY <2>4, <1>4 DEF Send, AloneInv
  <2> QED
    BY <2>1, <2>2, <2>3, <2>4 DEF Reload
<1> QED
  BY <1>1, <1>2, <1>3, <1>4 DEF AloneInv

LEMMA AloneInvStep == LoadInv /\ AloneInv /\ [DCNext]_dcVars => AloneInv'
<1> SUFFICES ASSUME LoadInv, AloneInv, [DCNext]_dcVars PROVE AloneInv'
  OBVIOUS
<1>1. ASSUME NEW l \in Loader, Fire(l)
      PROVE  AloneInv'
  BY <1>1 DEF LoadInv, DCTypeOK, AloneInv, Fire, MoveTo, serviceVars
<1>2. ASSUME StartWatch \/ HandleEvent \/ StopWatch \/ Take \/ FinishBuild \/ Exit
             \/ EditInPlace \/ Replace \/ Signal \/ UNCHANGED dcVars
      PROVE  AloneInv'
  <2>1. UNCHANGED <<stage, seen, alone, cfg>>
    BY <1>2 DEF StartWatch, HandleEvent, StopWatch, Take, FinishBuild, Exit,
                EditInPlace, Replace, Change, Signal, dcVars, reloadVars, serviceVars
  <2> QED
    BY <2>1 DEF AloneInv
<1> QED
  BY <1>1, <1>2, ReloadKeepsAloneInv DEF DCNext, System

\* However many reloads have overlapped and whatever they left in force: the
\* next one that runs by itself puts in force what it reads.
THEOREM LoneReloadsSettle == DCSpec => []LoneReloadSettles
<1>1. LoadInv /\ AloneInv /\ [DCNext]_dcVars => AloneInv'
  BY AloneInvStep
<1>2. AloneInv => LoneReloadSettles
  BY DEF AloneInv, LoneReloadSettles
<1> QED
  BY <1>1, <1>2, AloneInvInit, LoadInvariant, PTL DEF DCSpec

\* After the watch goroutine returned no timer is armed.
THEOREM NoTimerIsLeft == DCSpec => []NoTimerAfterStop
<1>1. LoadInv => NoTimerAfterStop
  BY DEF LoadInv, WatchAtRest, NoTimerAfterStop
<1> QED
  BY <1>1, LoadInvariant, PTL

-------------------------------------------------------------------------------
(* The second part: no two reloads of the timer at once.                    *)

SingleReloader == \A l, m \in Reloaders : l = m

\* d is the state of the file that c is, or a later one.
Follows(c, d) ==
  /\ Ver(c) <= Ver(d)
  /\ c # NoConfig /\ Ver(c) = Ver(d) => c = d

OneLoader == \A l, m \in Loader : stage[l] # "idle" /\ stage[m] # "idle" => l = m

\* What a loader carries: between read and store it is no older than the
\* configuration in force and no newer than the file, and from compare to
\* store it differs from the configuration; when it comes to send, it is the
\* configuration, and all that is on the way or applied is older.  With two
\* loaders at once one could store between the read and the store of another.
CarriesNews(l) ==
  /\ stage[l] \in {"compare", "store"} =>
       seen[l].ver > 0 /\ Follows(cfg, seen[l]) /\ Follows(seen[l], disk)
  /\ stage[l] = "store" => hash # seen[l].content
  /\ stage[l] = "send" =>
       /\ seen[l] = cfg
       /\ \A c \in {updates, building, applied} : Ver(c) < Ver(cfg)

OrderInv ==
  /\ OneLoader
  /\ \A l \in Loader : CarriesNews(l)
  /\ disk.ver > 0
  /\ Follows(cfg, disk)
  /\ TravelInOrder

\* Versions are numbers.
LEMMA VersionsAreNumbers ==
  ASSUME DCTypeOK
  PROVE  /\ disk.ver \in Nat /\ Ver(disk) = disk.ver
         /\ \A c \in Config : Ver(c) \in Nat
         /\ \A c \in FileState : Ver(c) = c.ver /\ c # NoConfig
  BY NoConfigAssumption DEF DCTypeOK, Config, FileState, Ver

LEMMA OrderInvInit == DCInit => OrderInv
<1> SUFFICES ASSUME DCInit PROVE OrderInv
  OBVIOUS
<1>1. OneLoader /\ \A l \in Loader : CarriesNews(l)
  BY DEF DCInit, OneLoader, CarriesNews
<1>2. disk.ver > 0 /\ Follows(cfg, disk) /\ TravelInOrder
  BY LoadInvInit, VersionsAreNumbers
  DEF DCInit, LoadInv, Follows, TravelInOrder, Ver
<1> QED
  BY <1>1, <1>2 DEF OrderInv

-------------------------------------------------------------------------------

\* While one loader is past its start the others are idle.
LEMMA OthersIdle ==
  ASSUME OrderInv, NEW l \in Loader, stage[l] # "idle"
  PROVE  \A m \in Loader \ {l} : stage[m] = "idle"
  BY DEF OrderInv, OneLoader

\* A step of loader l that leaves the others where they are.
LEMMA LoaderStep ==
  ASSUME LoadInv, OrderInv, NEW l \in Loader, stage[l] # "idle",
         NEW to, stage' = [stage EXCEPT ![l] = to], CarriesNews(l)'
  PROVE  OneLoader' /\ \A m \in Loader : CarriesNews(m)'
<1>1. \A m \in Loader \ {l} : stage'[m] = "idle"
  BY OthersIdle DEF LoadInv, DCTypeOK
<1>2. OneLoader'
  BY <1>1 DEF OneLoader
<1>3. \A m \in Loader \ {l} : CarriesNews(m)'
  BY <1>1 DEF CarriesNews
<1> QED
  BY <1>2, <1>3

LEMMA ReadFileKeepsOrder ==
  ASSUME LoadInv, OrderInv, NEW l \in Loader, ReadFile(l)
  PROVE  OrderInv'
<1>1. /\ UNCHANGED <<disk, cfg, hash, updates, building, applied>>
      /\ stage[l] = "called" /\ seen'[l] = disk
  BY DEF ReadFile, LoadInv, DCTypeOK, serviceVars, consumerVars
<1>2. PICK to \in {"idle", "called", "compare"} : stage' = [stage EXCEPT ![l] = to]
  <2>1. UNCHANGED stage => stage' = [stage EXCEPT ![l] = "called"]
    BY <1>1 DEF LoadInv, DCTypeOK
  <2> QED
    BY <2>1 DEF ReadFile, MoveTo
<1>3. CarriesNews(l)'
  <2>1. stage'[l] \in {"idle", "called", "compare"}
    BY <1>2 DEF LoadInv, DCTypeOK
  <2>2. seen'[l].ver > 0 /\ Follows(cfg, seen'[l]) /\ Follows(seen'[l], disk)
    BY <1>1, VersionsAreNumbers DEF OrderInv, Follows, LoadInv
  <2> QED
    BY <2>1, <2>2, <1>1 DEF CarriesNews, Follows, Ver
<1>4. /\ disk'.ver > 0 /\ TravelInOrder'
      /\ Follows(cfg, disk)'
  BY <1>1 DEF OrderInv, TravelInOrder, Follows, Ver
<1> QED
  BY <1>1, <1>2, <1>3, <1>4, LoaderStep DEF OrderInv

LEMMA CompareHashKeepsOrder ==
  ASSUME LoadInv, OrderInv, NEW l \in Loader, CompareHash(l)
  PROVE  OrderInv'
<1>1. /\ UNCHANGED <<disk, seen, cfg, hash, updates, building, applied>>
      /\ stage[l] = "compare"
  BY DEF CompareHash, serviceVars, consumerVars
<1>2. PICK to \in {"idle", "store"} :
        /\ stage' = [stage EXCEPT ![l] = to]
        /\ to = "store" => hash # seen[l].content
  BY DEF CompareHash, Return, MoveTo
<1>3. CarriesNews(l)'
  <2>1. /\ stage'[l] \in {"idle", "store"}
        /\ stage'[l] = "store" => hash # seen[l].content
    BY <1>2 DEF LoadInv, DCTypeOK
  <2> QED
    BY <2>1, <1>1 DEF OrderInv, CarriesNews, Follows, Ver
<1>4. /\ disk'.ver > 0 /\ TravelInOrder'
      /\ Follows(cfg, disk)'
  BY <1>1 DEF OrderInv, TravelInOrder, Follows, Ver
<1> QED
  BY <1>1, <1>2, <1>3, <1>4, LoaderStep DEF OrderInv

\* What a loader stores is newer than the configuration it replaces.
LEMMA StoredIsNewer ==
  ASSUME LoadInv, OrderInv, NEW l \in Loader, stage[l] = "store"
  PROVE  Ver(cfg) < seen[l].ver
<1>1. /\ seen[l] \in FileState
      /\ seen[l].ver > 0
      /\ Follows(cfg, seen[l])
      /\ hash # seen[l].content
  BY DEF LoadInv, ReadsAreAccepted, OrderInv, CarriesNews
<1>2. CASE cfg = NoConfig
  BY <1>1, <1>2 DEF Ver
<1>3. CASE cfg # NoConfig
  <2>1. cfg # seen[l]
    BY <1>1, <1>3 DEF LoadInv, HashIsOfConfig
  <2> QED
    BY <1>1, <1>3, <2>1, VersionsAreNumbers DEF Follows, LoadInv, DCTypeOK
<1> QED
  BY <1>2, <1>3

LEMMA StoreKeepsOrder ==
  ASSUME LoadInv, OrderInv, NEW l \in Loader, Store(l)
  PROVE  OrderInv'
<1>1. /\ UNCHANGED <<disk, seen, updates, building, applied>>
      /\ stage[l] = "store" /\ stage' = [stage EXCEPT ![l] = "send"]
      /\ cfg' = seen[l]
  BY DEF Store, MoveTo, consumerVars
<1>2. /\ seen[l] \in FileState
      /\ Follows(seen[l], disk)
  BY <1>1 DEF LoadInv, ReadsAreAccepted, OrderInv, CarriesNews
<1>3. \A c \in {updates, building, applied} : Ver(c) < seen[l].ver
  BY <1>1, <1>2, StoredIsNewer, VersionsAreNumbers
  DEF OrderInv, TravelInOrder, LoadInv, DCTypeOK
<1>4. Ver(seen[l]) = seen[l].ver
  BY <1>2, VersionsAreNumbers DEF LoadInv
<1>5. CarriesNews(l)'
  <2>1. stage'[l] = "send"
    BY <1>1 DEF LoadInv, DCTypeOK
  <2> QED
    BY <2>1, <1>1, <1>3, <1>4 DEF CarriesNews, Ver
<1>6. TravelInOrder'
  <2>1. Ver(cfg)' <= disk'.ver
    BY <1>1, <1>2, <1>4, VersionsAreNumbers DEF Follows, LoadInv, Ver
  <2>2. \A c \in {updates', building', applied'} : Ver(c) <= Ver(cfg)'
    BY <1>1, <1>2, <1>3, <1>4, VersionsAreNumbers
    DEF LoadInv, DCTypeOK, Ver
  <2> QED
    BY <2>1, <2>2, <1>1 DEF OrderInv, TravelInOrder, Ver
<1>7. disk'.ver > 0 /\ Follows(cfg, disk)'
  BY <1>1, <1>2 DEF OrderInv, Follows, Ver
<1> QED
  BY <1>1, <1>5, <1>6, <1>7, LoaderStep DEF OrderInv

LEMMA SendKeepsOrder ==
  ASSUME LoadInv, OrderInv, NEW l \in Loader, Send(l)
  PROVE  OrderInv'
<1>1. /\ UNCHANGED <<disk, seen, cfg, building, applied>>
      /\ stage[l] = "send" /\ stage' = [stage EXCEPT ![l] = "idle"]
      /\ updates' = updates \/ updates' = seen[l]
  BY DEF Send, Return, MoveTo, consumerVars
<1>2. /\ seen[l] = cfg
      /\ \A c \in {updates, building, applied} : Ver(c) < Ver(cfg)
      /\ cfg # NoConfig
  BY <1>1 DEF OrderInv, CarriesNews, LoadInv, ReadsAreAccepted
<1>3. CarriesNews(l)'
  BY <1>1 DEF CarriesNews, LoadInv, DCTypeOK
<1>4. TravelInOrder'
  <2>1. CASE updates' = updates
    BY <2>1, <1>1 DEF OrderInv, TravelInOrder, Ver
  <2>2. CASE updates' = seen[l]
    <3>1. updates' = cfg /\ Ver(cfg) = cfg.ver
      BY <2>2, <1>2 DEF Ver
    <3>2. Ver(cfg) \in Nat
      BY VersionsAreNumbers DEF LoadInv, DCTypeOK
    <3> QED
      BY <3>1, <3>2, <1>1, <1>2 DEF OrderInv, TravelInOrder, Ver
  <2> QED
    BY <1>1, <2>1, <2>2
<1>5. disk'.ver > 0 /\ Follows(cfg, disk)'
  BY <1>1 DEF OrderInv, Follows, Ver
<1> QED
  BY <1>1, <1>3, <1>4, <1>5, LoaderStep DEF OrderInv

-------------------------------------------------------------------------------

\* A timer fires only when no loader is at work: main is through before the
\* watch goroutine starts, and there is no other loader.
LEMMA FireKeepsOrder ==
  ASSUME SingleReloader, LoadInv, OrderInv, NEW l \in Loader, Fire(l)
  PROVE  OrderInv'
<1>1. /\ UNCHANGED <<disk, seen, cfg, hash, updates, building, applied>>
      /\ timer /\ l \in Reloaders /\ stage[l] = "idle"
      /\ stage' = [stage EXCEPT ![l] = "called"]
  BY DEF Fire, MoveTo, serviceVars, consumerVars
<1>2. stage[Main] = "idle"
  BY <1>1 DEF LoadInv, WatchAtRest, MainLoadsFirst
<1>3. \A m \in Loader \ {l} : stage'[m] = "idle"
  BY <1>1, <1>2 DEF LoadInv, DCTypeOK, Loader, SingleReloader
<1>4. OneLoader'
  BY <1>3 DEF OneLoader
<1>5. \A m \in Loader : CarriesNews(m)'
  BY <1>1, <1>3 DEF CarriesNews, LoadInv, DCTypeOK
<1>6. /\ disk'.ver > 0 /\ TravelInOrder'
      /\ Follows(cfg, disk)'
  BY <1>1 DEF OrderInv, TravelInOrder, Follows, Ver
<1> QED
  BY <1>4, <1>5, <1>6 DEF OrderInv

LEMMA TakeKeepsOrder ==
  ASSUME LoadInv, OrderInv, Take
  PROVE  OrderInv'
<1>1. /\ UNCHANGED <<disk, stage, seen, cfg, hash, applied>>
      /\ building' = updates /\ updates' = NoConfig /\ updates # NoConfig
  BY DEF Take, reloadVars
<1>2. OneLoader' /\ disk'.ver > 0 /\ Follows(cfg, disk)'
  BY <1>1 DEF OrderInv, OneLoader, Follows, Ver
<1>3. Ver(NoConfig) = 0 /\ Ver(cfg) \in Nat /\ Ver(updates) \in Nat
  BY VersionsAreNumbers DEF Ver, LoadInv, DCTypeOK
<1>4. updates # NoConfig => Ver(updates) = updates.ver
  BY DEF Ver
<1>5. \A l \in Loader : CarriesNews(l)'
  <2> SUFFICES ASSUME NEW l \in Loader PROVE CarriesNews(l)'
    OBVIOUS
  <2>1. CarriesNews(l)
    BY DEF OrderInv
  <2>2. stage[l] = "send" =>
          \A c \in {updates', building', applied'} : Ver(c) < Ver(cfg)
    <3>1. ASSUME stage[l] = "send" PROVE Ver(NoConfig) < Ver(cfg)
      BY <3>1, <2>1, <1>3, <1>4, <1>1, VersionsAreNumbers DEF CarriesNews
    <3> QED
      BY <3>1, <2>1, <1>1 DEF CarriesNews
  <2> QED
    BY <2>1, <2>2, <1>1 DEF CarriesNews, Follows, Ver
<1>6. TravelInOrder'
  <2>1. Ver(NoConfig) <= Ver(cfg)
    BY <1>3
  <2> QED
    BY <1>1, <1>3, <1>4, <2>1 DEF OrderInv, TravelInOrder, Ver
<1> QED
  BY <1>2, <1>5, <1>6 DEF OrderInv

LEMMA FinishBuildKeepsOrder ==
  ASSUME LoadInv, OrderInv, FinishBuild
  PROVE  OrderInv'
<1>1. UNCHANGED <<disk, stage, seen, cfg, hash, updates>>
  BY DEF FinishBuild, reloadVars, serviceVars
<1>2. \/ UNCHANGED <<building, applied>>
      \/ building # NoConfig /\ building' = NoConfig /\ applied' = building
  BY DEF FinishBuild, consumerVars
<1>3. OneLoader' /\ disk'.ver > 0 /\ Follows(cfg, disk)'
  BY <1>1 DEF OrderInv, OneLoader, Follows, Ver
<1>4. /\ Ver(NoConfig) = 0
      /\ Ver(cfg) \in Nat /\ Ver(updates) \in Nat
      /\ Ver(building) \in Nat /\ Ver(applied) \in Nat
  BY VersionsAreNumbers DEF Ver, LoadInv, DCTypeOK
<1>5. \A l \in Loader : CarriesNews(l)'
  <2> SUFFICES ASSUME NEW l \in Loader PROVE CarriesNews(l)'
    OBVIOUS
  <2>1. CarriesNews(l)
    BY DEF OrderInv
  <2>2. stage[l] = "send" =>
          \A c \in {updates', building', applied'} : Ver(c) < Ver(cfg)
    <3>1. ASSUME stage[l] = "send" PROVE Ver(NoConfig) < Ver(cfg)
      BY <3>1, <2>1, <1>4 DEF CarriesNews
    <3> QED
      BY <3>1, <2>1, <1>1, <1>2 DEF CarriesNews
  <2> QED
    BY <2>1, <2>2, <1>1 DEF CarriesNews, Follows, Ver
<1>6. TravelInOrder'
  <2>1. CASE UNCHANGED <<building, applied>>
    BY <1>1, <2>1 DEF OrderInv, TravelInOrder, Ver
  <2>2. CASE building # NoConfig /\ building' = NoConfig /\ applied' = building
    <3>1. Ver(NoConfig) <= Ver(cfg)
      BY <1>4
    <3>2. updates # NoConfig => Ver(updates) = updates.ver /\ Ver(NoConfig) < updates.ver
      BY <1>4 DEF OrderInv, TravelInOrder, Ver
    <3> QED
      BY <1>1, <2>2, <1>4, <3>1, <3>2 DEF OrderInv, TravelInOrder, Ver
  <2> QED
    BY <1>2, <2>1, <2>2
<1> QED
  BY <1>3, <1>5, <1>6 DEF OrderInv

\* The file only gets newer.
LEMMA ChangeKeepsOrder ==
  ASSUME LoadInv, OrderInv, NEW content \in Contents, Change(content)
  PROVE  OrderInv'
<1>1. /\ UNCHANGED <<stage, seen, cfg, hash, updates, building, applied>>
      /\ disk'.ver = disk.ver + 1
  BY DEF Change, reloadVars, serviceVars, consumerVars
<1>2. disk.ver \in Nat /\ Ver(disk) = disk.ver /\ Ver(disk') = disk.ver + 1
  <2>1. disk' \in FileState
    BY DEF LoadInv, DCTypeOK, Change, FileState
  <2> QED
    BY <1>1, <2>1, VersionsAreNumbers DEF LoadInv
<1>3. ASSUME NEW c \in Config, Follows(c, disk) PROVE Follows(c, disk')
  <2>1. Ver(c) \in Nat
    BY VersionsAreNumbers DEF LoadInv
  <2> QED
    BY <1>2, <1>3, <2>1 DEF Follows
<1>4. \A l \in Loader : CarriesNews(l)'
  <2> SUFFICES ASSUME NEW l \in Loader PROVE CarriesNews(l)'
    OBVIOUS
  <2>1. CarriesNews(l) /\ seen[l] \in Config
    BY DEF OrderInv, LoadInv, DCTypeOK
  <2>2. stage[l] \in {"compare", "store"} => Follows(seen[l], disk')
    BY <2>1, <1>3 DEF CarriesNews
  <2> QED
    BY <2>1, <2>2, <1>1 DEF CarriesNews, Follows, Ver
<1>5. Follows(cfg, disk')
  BY <1>3 DEF OrderInv, LoadInv, DCTypeOK
<1>6. OneLoader' /\ disk'.ver > 0 /\ Follows(cfg, disk)'
  BY <1>1, <1>2, <1>5 DEF OrderInv, OneLoader, Follows, Ver
<1>7. TravelInOrder'
  <2>1. Ver(cfg) <= disk.ver /\ Ver(cfg) \in Nat
    BY VersionsAreNumbers DEF OrderInv, TravelInOrder, LoadInv, DCTypeOK
  <2>2. Ver(cfg) <= disk'.ver
    BY <2>1, <1>1, <1>2
  <2> QED
    BY <2>2, <1>1 DEF OrderInv, TravelInOrder, Ver
<1> QED
  BY <1>4, <1>6, <1>7 DEF OrderInv

\* The steps that touch neither the file nor what was read from it.
LEMMA OtherStepsKeepOrder ==
  ASSUME OrderInv,
         UNCHANGED <<disk, stage, seen, cfg, hash, updates, building, applied>>
  PROVE  OrderInv'
  BY DEF OrderInv, OneLoader, CarriesNews, Follows, TravelInOrder, Ver

LEMMA OrderInvStep ==
  ASSUME SingleReloader, LoadInv, OrderInv, [DCNext]_dcVars
  PROVE  OrderInv'
<1>1. ASSUME StartWatch \/ HandleEvent \/ StopWatch \/ Exit \/ Signal
             \/ UNCHANGED dcVars
      PROVE  OrderInv'
  <2>1. UNCHANGED <<disk, stage, seen, cfg, hash, updates, building, applied>>
    BY <1>1 DEF StartWatch, HandleEvent, StopWatch, Exit, Signal,
                dcVars, reloadVars, serviceVars, consumerVars
  <2> QED
    BY <2>1, OtherStepsKeepOrder
<1>2. ASSUME EditInPlace \/ Replace
      PROVE  OrderInv'
  BY <1>2, ChangeKeepsOrder DEF EditInPlace, Replace
<1> QED
  BY <1>1, <1>2, ReadFileKeepsOrder, CompareHashKeepsOrder, StoreKeepsOrder,
     SendKeepsOrder, FireKeepsOrder, TakeKeepsOrder, FinishBuildKeepsOrder
  DEF DCNext, System, Reload

\* With reloads that do not overlap, whatever the surroundings do: the
\* configurations travel in order.
THEOREM ConfigsTravelInOrder ==
  ASSUME SingleReloader
  PROVE  DCSpec => []TravelInOrder
<1>1. OrderInv => TravelInOrder
  BY DEF OrderInv
<1>2. LoadInv /\ OrderInv /\ [DCNext]_dcVars => OrderInv'
  BY SingleReloader, OrderInvStep
<1> QED
  BY <1>1, <1>2, OrderInvInit, LoadInvariant, PTL DEF DCSpec

\* With reloads that do not overlap: a reload never replaces a configuration
\* by one of the same content.
THEOREM ReloadsAreNotRedundant ==
  ASSUME SingleReloader
  PROVE  DCSpec => NoRedundantReload
<1>1. LoadInv /\ OrderInv /\ [DCNext]_dcVars => OrderInv'
  BY SingleReloader, OrderInvStep
<1>2. OrderInv /\ [DCNext]_dcVars => [cfg' # cfg => cfg'.content # hash]_dcVars
  <2> SUFFICES ASSUME OrderInv, DCNext, cfg' # cfg PROVE cfg'.content # hash
    BY DEF dcVars, serviceVars
  <2>1. PICK l \in Loader : Store(l)
    BY DEF DCNext, System, Reload, ReadFile, CompareHash, Send, Fire, StartWatch,
           HandleEvent, StopWatch, Take, FinishBuild, Exit, EditInPlace, Replace,
           Signal, Change, serviceVars
  <2> QED
    BY <2>1 DEF Store, OrderInv, CarriesNews
<1> QED
  BY <1>1, <1>2, OrderInvInit, LoadInvariant, PTL DEF DCSpec, NoRedundantReload

-------------------------------------------------------------------------------
(* What is left of a change when everything has come to rest: the safety    *)
(* half of ChangesAreDetected and AppliedUnlessDropped.  The other half,    *)
(* that everything does come to rest, is fairness and left to TLC.          *)

\* The file is not changed before it is watched, and only in place.
OrderlyFile == Surroundings \cap {"early_edit", "replace"} = {}

\* No loader at work has read another state of the file than the present one,
\* and when none is about to store, the present one is in force if it loads.
OnPresentFile ==
  /\ \A l \in Loader : stage[l] \in {"compare", "store"} => seen[l] = disk
  /\ /\ \A l \in Loader : stage[l] \in {"idle", "send"}
     /\ Loads(disk.content)
     => hash = disk.content

\* A change that no loader has seen yet is announced by an event or the timer.
NoticeInv ==
  /\ events \in Seq({"write"})
  /\ watch = "running" => watched
  /\ watch # "stopped" => events # <<>> \/ timer \/ OnPresentFile

LEMMA NoticeInvInit == DCInit => NoticeInv
<1> SUFFICES ASSUME DCInit PROVE NoticeInv
  OBVIOUS
<1>1. stage[Main] = "called" /\ \A l \in Loader : stage[l] \in {"called", "idle"}
  BY DEF DCInit, Loader
<1>2. OnPresentFile
  BY <1>1 DEF OnPresentFile, Loader
<1> QED
  BY <1>2 DEF DCInit, NoticeInv

LEMMA ReloadKeepsNotice ==
  ASSUME LoadInv, NoticeInv, NEW l \in Loader, Reload(l)
  PROVE  NoticeInv'
<1>1. /\ UNCHANGED <<disk, watched, events, timer>>
      /\ watch' = watch \/ (l = Main /\ watch' = "starting")
      /\ stage[l] # "idle"
  BY DEF Reload, ReadFile, CompareHash, Store, Send, Return, watchVars
<1>2. watch # "stopped" \/ watch' = "stopped"
  BY <1>1 DEF LoadInv, MainLoadsFirst
<1>3. ASSUME OnPresentFile PROVE OnPresentFile'
  <2>1. CASE ReadFile(l)
    <3>1. /\ hash' = hash
          /\ seen' = [seen EXCEPT ![l] = disk]
          /\ \/ Loads(disk.content) /\ stage' = [stage EXCEPT ![l] = "compare"]
             \/ UNCHANGED stage /\ stage[l] = "called"
             \/ ~Loads(disk.content)
          /\ \A m \in Loader \ {l} : stage'[m] = stage[m]
      BY <2>1 DEF ReadFile, MoveTo, serviceVars, MayFail, Loads, LoadInv, DCTypeOK
    <3>2. \A m \in Loader : seen'[m] = seen[m] \/ seen'[m] = disk
      BY <3>1 DEF LoadInv, DCTypeOK
    <3>3. \A m \in Loader : stage'[m] \in {"compare", "store"} => seen'[m] = disk
      <4>1. seen'[l] = disk
        BY <3>1 DEF LoadInv, DCTypeOK
      <4> QED
        BY <1>3, <3>1, <3>2, <4>1 DEF OnPresentFile
    <3>4. Loads(disk.content) => stage'[l] \in {"compare", "called"}
      BY <3>1 DEF LoadInv, DCTypeOK
    <3> QED
      BY <1>1, <3>3, <3>4 DEF OnPresentFile
  <2>2. CASE CompareHash(l)
    <3>1. /\ UNCHANGED <<seen, hash>>
          /\ stage[l] = "compare"
          /\ \/ hash = seen[l].content /\ stage' = [stage EXCEPT ![l] = "idle"]
             \/ stage' = [stage EXCEPT ![l] = "store"]
      BY <2>2 DEF CompareHash, Return, MoveTo, serviceVars
    <3>2. seen[l] = disk
      BY <1>3, <3>1 DEF OnPresentFile
    <3>3. \A m \in Loader : stage'[m] \in {"compare", "store"} => seen'[m] = disk
      BY <1>3, <3>1, <3>2 DEF OnPresentFile, LoadInv, DCTypeOK
    <3>4. stage'[l] = "store" \/ hash = disk.content
      BY <3>1, <3>2 DEF LoadInv, DCTypeOK
    <3> QED
      BY <1>1, <3>1, <3>3, <3>4 DEF OnPresentFile
  <2>3. CASE Store(l)
    <3>1. /\ UNCHANGED seen
          /\ stage[l] = "store" /\ stage' = [stage EXCEPT ![l] = "send"]
          /\ hash' = seen[l].content
      BY <2>3 DEF Store, MoveTo
    <3>2. seen[l] = disk
      BY <1>3, <3>1 DEF OnPresentFile
    <3>3. \A m \in Loader : stage'[m] \in {"compare", "store"} => seen'[m] = disk
      BY <1>3, <3>1 DEF OnPresentFile, LoadInv, DCTypeOK
    <3> QED
      BY <1>1, <3>1, <3>2, <3>3 DEF OnPresentFile
  <2>4. CASE Send(l)
    <3>1. /\ UNCHANGED <<seen, hash>>
          /\ stage[l] = "send" /\ stage' = [stage EXCEPT ![l] = "idle"]
      BY <2>4 DEF Send, Return, MoveTo
    <3>2. \A m \in Loader : stage'[m] = stage[m] \/ (stage[m] = "send" /\ stage'[m] = "idle")
      BY <3>1 DEF LoadInv, DCTypeOK
    <3> QED
      BY <1>1, <1>3, <3>1, <3>2 DEF OnPresentFile
  <2> QED
    BY <2>1, <2>2, <2>3, <2>4 DEF Reload
<1> QED
  BY <1>1, <1>2, <1>3 DEF NoticeInv

\* The timer fires when no other loader is at work, so the loader that starts
\* now is the one that will read the present state.
LEMMA FireKeepsNotice ==
  ASSUME SingleReloader, LoadInv, NoticeInv, NEW l \in Loader, Fire(l)
  PROVE  NoticeInv'
<1>1. /\ UNCHANGED <<disk, seen, hash, watch, watched, events>>
      /\ timer /\ l \in Reloaders /\ stage' = [stage EXCEPT ![l] = "called"]
  BY DEF Fire, MoveTo, serviceVars
<1>2. stage[Main] = "idle"
  BY <1>1 DEF LoadInv, WatchAtRest, MainLoadsFirst
<1>3. /\ stage'[l] = "called"
      /\ \A m \in Loader \ {l} : stage'[m] = "idle"
  BY <1>1, <1>2 DEF LoadInv, DCTypeOK, Loader, SingleReloader
<1>4. OnPresentFile'
  BY <1>3 DEF OnPresentFile
<1> QED
  BY <1>1, <1>4 DEF NoticeInv

LEMMA WatchKeepsNotice ==
  ASSUME LoadInv, NoticeInv, StartWatch \/ HandleEvent \/ StopWatch
  PROVE  NoticeInv'
<1>1. UNCHANGED <<disk, stage, seen, hash>>
  BY DEF StartWatch, HandleEvent, StopWatch, reloadVars, serviceVars
<1>2. OnPresentFile => OnPresentFile'
  BY <1>1 DEF OnPresentFile
<1>3. CASE StartWatch
  <2>1. UNCHANGED <<events, timer>> /\ watch = "starting"
    BY <1>3 DEF StartWatch
  <2>2. watch' = "running" => watched'
    BY <1>3 DEF StartWatch
  <2> QED
    BY <1>2, <2>1, <2>2 DEF NoticeInv
<1>4. CASE HandleEvent
  <2>1. /\ UNCHANGED <<watch, watched>>
        /\ events # <<>> /\ events' = Tail(events)
        /\ timer' = (timer \/ Head(events) \in {"write", "create", "rename", "chmod"})
    BY <1>4 DEF HandleEvent
  <2>2. Head(events) = "write" /\ events' \in Seq({"write"})
    BY <2>1, HeadTailProperties DEF NoticeInv
  <2> QED
    BY <2>1, <2>2 DEF NoticeInv
<1>5. CASE StopWatch
  BY <1>5 DEF StopWatch, NoticeInv
<1> QED
  BY <1>3, <1>4, <1>5

LEMMA EditKeepsNotice ==
  ASSUME OrderlyFile, LoadInv, NoticeInv, EditInPlace
  PROVE  NoticeInv'
<1>1. /\ UNCHANGED <<watch, watched>>
      /\ watch \in {"running", "stopped"}
      /\ events' = IF watched THEN Append(events, "write") ELSE events
  BY DEF EditInPlace, Change, OrderlyFile
<1>2. /\ Append(events, "write") \in Seq({"write"})
      /\ Append(events, "write") # <<>>
  BY AppendProperties DEF NoticeInv
<1> QED
  BY <1>1, <1>2 DEF NoticeInv

LEMMA NoticeInvStep ==
  ASSUME SingleReloader, OrderlyFile, LoadInv, NoticeInv, [DCNext]_dcVars
  PROVE  NoticeInv'
<1>1. ASSUME Take \/ FinishBuild \/ Exit \/ Signal \/ UNCHANGED dcVars
      PROVE  NoticeInv'
  <2>1. UNCHANGED <<disk, stage, seen, hash, watch, watched, events, timer>>
    BY <1>1 DEF Take, FinishBuild, Exit, Signal, dcVars, watchVars, reloadVars,
                serviceVars
  <2> QED
    BY <2>1 DEF NoticeInv, OnPresentFile
<1>2. ~Replace
  BY OrderlyFile DEF Replace, OrderlyFile
<1> QED
  BY <1>1, <1>2, ReloadKeepsNotice, FireKeepsNotice, WatchKeepsNotice,
     EditKeepsNotice
  DEF DCNext, System

\* No event, no timer and no reload is on its way to the service.
ReloadsDone ==
  /\ watch = "running" /\ events = <<>> /\ ~timer
  /\ \A l \in Loader : stage[l] = "idle"

DetectedAtRest ==
  ReloadsDone /\ Loads(disk.content) => cfg # NoConfig /\ cfg.content = disk.content

\* With reloads that do not overlap and a file that is changed in place once it
\* is watched: no change is ever missed.  Whenever nothing is on its way to the
\* service, what Get returns is what the file says, if that loads.
THEOREM NoChangeIsMissed ==
  ASSUME SingleReloader, OrderlyFile
  PROVE  DCSpec => []DetectedAtRest
<1>1. LoadInv /\ NoticeInv /\ [DCNext]_dcVars => NoticeInv'
  BY SingleReloader, OrderlyFile, NoticeInvStep
<1>2. LoadInv /\ NoticeInv => DetectedAtRest
  <2> SUFFICES ASSUME LoadInv, NoticeInv, ReloadsDone, Loads(disk.content)
               PROVE  cfg # NoConfig /\ cfg.content = disk.content
    BY DEF DetectedAtRest
  <2>1. hash = disk.content
    BY DEF NoticeInv, OnPresentFile, ReloadsDone
  <2>2. disk.content # NoConfig
    BY NoConfigAssumption DEF LoadInv, DCTypeOK, FileState
  <2> QED
    BY <2>1, <2>2 DEF LoadInv, HashIsOfConfig
<1> QED
  BY <1>1, <1>2, NoticeInvInit, LoadInvariant, PTL DEF DCSpec

-------------------------------------------------------------------------------
(* The same for the consumer.                                               *)

FreeChannel == \A l \in Loader : stage[l] = "send" => updates = NoConfig

\* The configuration in force is in use, or on its way there.
HandedOn ==
  \/ cfg = NoConfig
  \/ \E l \in Loader : stage[l] = "send"
  \/ updates = cfg
  \/ updates = NoConfig /\ building = cfg
  \/ updates = NoConfig /\ building = NoConfig /\ applied = cfg

LEMMA HandedOnStep ==
  ASSUME LoadInv, OrderInv, FreeChannel, HandedOn, [DCNext]_dcVars
  PROVE  HandedOn'
<1>1. ASSUME NEW l \in Loader, ReadFile(l) \/ CompareHash(l) \/ Fire(l)
      PROVE  HandedOn'
  <2>1. /\ UNCHANGED <<cfg, updates, building, applied>>
        /\ \E to : stage' = [stage EXCEPT ![l] = to] \/ UNCHANGED stage
        /\ stage[l] # "send"
    BY <1>1 DEF ReadFile, CompareHash, Fire, Return, MoveTo, serviceVars, consumerVars
  <2>2. \A m \in Loader : stage[m] = "send" => stage'[m] = "send"
    BY <2>1 DEF LoadInv, DCTypeOK
  <2> QED
    BY <2>1, <2>2 DEF HandedOn
<1>2. ASSUME NEW l \in Loader, Store(l)
      PROVE  HandedOn'
  <2>1. stage'[l] = "send"
    BY <1>2 DEF Store, MoveTo, LoadInv, DCTypeOK
  <2> QED
    BY <2>1 DEF HandedOn
<1>3. ASSUME NEW l \in Loader, Send(l)
      PROVE  HandedOn'
  <2>1. stage[l] = "send" /\ updates' = seen[l] /\ cfg' = cfg
    BY <1>3 DEF Send, FreeChannel
  <2>2. seen[l] = cfg
    BY <2>1 DEF OrderInv, CarriesNews
  <2> QED
    BY <2>1, <2>2 DEF HandedOn
<1>4. CASE Take
  BY <1>4 DEF Take, HandedOn, reloadVars
<1>5. CASE FinishBuild
  BY <1>5 DEF FinishBuild, HandedOn, reloadVars, serviceVars, consumerVars
<1>6. ASSUME StartWatch \/ HandleEvent \/ StopWatch \/ Exit \/ EditInPlace
             \/ Replace \/ Signal \/ UNCHANGED dcVars
      PROVE  HandedOn'
  <2>1. UNCHANGED <<stage, cfg, updates, building, applied>>
    BY <1>6 DEF StartWatch, HandleEvent, StopWatch, Exit, EditInPlace, Replace,
                Change, Signal, dcVars, reloadVars, serviceVars, consumerVars
  <2> QED
    BY <2>1 DEF HandedOn
<1> QED
  BY <1>1, <1>2, <1>3, <1>4, <1>5, <1>6 DEF DCNext, System, Reload

BuildsDone == updates = NoConfig /\ building = NoConfig

AppliedAtRest ==
  ReloadsDone /\ BuildsDone /\ Loads(disk.content) =>
    applied # NoConfig /\ applied.content = disk.content

\* Under the same conditions and unless a send meets a full channel: whenever
\* nothing is on its way, the proxies in use are those of the file.
THEOREM NoUpdateIsLost ==
  ASSUME SingleReloader, OrderlyFile
  PROVE  DCSpec /\ NothingDropped => []AppliedAtRest
<1>1. DCInit => HandedOn
  BY DEF DCInit, HandedOn
<1>2. LoadInv /\ OrderInv /\ [DCNext]_dcVars => OrderInv'
  BY SingleReloader, OrderInvStep
<1>3. LoadInv /\ OrderInv /\ FreeChannel /\ HandedOn /\ [DCNext]_dcVars => HandedOn'
  BY HandedOnStep
<1>4. DetectedAtRest /\ HandedOn => AppliedAtRest
  BY DEF DetectedAtRest, HandedOn, AppliedAtRest, ReloadsDone, BuildsDone
<1>5. DCSpec => []DetectedAtRest
  BY SingleReloader, OrderlyFile, NoChangeIsMissed
<1>6. NothingDropped => []FreeChannel
  BY PTL DEF NothingDropped, FreeChannel
<1> QED
  BY <1>1, <1>2, <1>3, <1>4, <1>5, <1>6, OrderInvInit, LoadInvariant, PTL DEF DCSpec

===============================================================================
