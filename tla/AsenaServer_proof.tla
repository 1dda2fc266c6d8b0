-------------------------- MODULE AsenaServer_proof ---------------------------
(***************************************************************************)
(* Proofs about AsenaServer, for any settings, saved files and flags, any  *)
(* number of renewals, and kills, signals and restarts at any point.       *)
(*                                                                         *)
(* The program is two halves that meet in Serve and in the end of the      *)
(* process: the settings on their way from the file to main and back       *)
(* (SettingsInv), and the certificate on its way from the files to the     *)
(* manager (CertInv).  What joins them is ModeInv: how the server serves   *)
(* follows from the settings and from what became of the initial load.     *)
(***************************************************************************)
EXTENDS AsenaServer, TLAPS

-------------------------------------------------------------------------------
(* The settings.                                                            *)

Content == [Setting -> Value]
Stage == {"down", "reading", "writing", "encoding", "configured", "serving"}

\* Between the read and the end of main everything has a value.
CfgTypeOK ==
  /\ cfg \in Content
  /\ stage \in Stage \ {"down", "reading"} => \A s \in Setting : cfg[s] # Unset

SettingsTypeOK ==
  /\ file \in Content \cup {Malformed}
  /\ stage \in Stage
  /\ flags \in [Option -> Value]
  /\ intended \in Content
  /\ promised \in Content
  /\ intact \in BOOLEAN

Others == Setting \ {"port"}

\* What is about to be written back has all that is intended, except perhaps
\* the port; and a file that was emptied and not saved since is still empty.  Without either Encode could
\* lose a setting.
WritesBackWhatWasRead ==
  /\ intact /\ stage \in {"writing", "encoding"} =>
       \A s \in Others : intended[s] # Unset => cfg[s] = intended[s]
  /\ intact /\ stage = "encoding" => file = Empty

\* main serves what was promised when it read the file.
CfgIsPromised ==
  stage \in Stage \ {"down", "reading"} =>
    \A s \in Others : promised[s] # Unset => cfg[s] = promised[s]

SettingsInv ==
  SettingsTypeOK /\ CfgTypeOK /\ WritesBackWhatWasRead /\ SettingsSurvive /\ CfgIsPromised

LEMMA ContentFacts ==
  /\ Empty \in Content
  /\ \A s \in Setting : Empty[s] = Unset
  /\ Saves \subseteq Content /\ Flags \subseteq [Option -> Value]
  /\ \A o \in Option : Default[o] \in Value /\ Default[o] # Unset
  /\ Unset \in Value
<1>1. Unset \in Value /\ \A o \in Option : Default[o] \in Value
  BY DEF Value
<1> QED
  BY <1>1, StaticConfigAssumption DEF Empty, Content

\* Filling in keeps what is there, and leaves nothing open that the filling has.
LEMMA FilledKeeps ==
  ASSUME NEW S, NEW content \in [S -> Value], NEW by,
         \A s \in S : content[s] = Unset => by[s] \in Value
  PROVE  /\ Filled(content, by) \in [S -> Value]
         /\ \A s \in S :
              /\ content[s] # Unset => Filled(content, by)[s] = content[s]
              /\ content[s] = Unset => Filled(content, by)[s] = by[s]
  BY DEF Filled

\* What the flags and the program give is complete.
LEMMA GivenIsComplete ==
  ASSUME flags \in [Option -> Value]
  PROVE  Given \in [Option -> Value] /\ \A o \in Option : Given[o] # Unset
  BY ContentFacts, FilledKeeps DEF Given

\* The normalize functions leave nothing unset and change nothing that is set,
\* but the port.
LEMMA NormalizedKeeps ==
  ASSUME NEW content \in Content, flags \in [Option -> Value]
  PROVE  /\ Normalized(content) \in Content
         /\ \A s \in Setting : Normalized(content)[s] # Unset
         /\ \A s \in Others : content[s] # Unset => Normalized(content)[s] = content[s]
<1> DEFINE ported == [content EXCEPT !["port"] = Port(content)]
<1>1. Port(content) \in Value /\ Port(content) # Unset
  BY GivenIsComplete DEF Port, Option
<1>2. /\ ported \in [Setting -> Value]
      /\ ported["port"] # Unset
      /\ \A s \in Others : ported[s] = content[s] /\ s \in Option
  BY <1>1, StaticConfigAssumption DEF Content, Others, Option
<1> HIDE DEF ported
<1>3. /\ \A s \in Setting : ported[s] = Unset => s \in Option
      /\ Given \in [Option -> Value] /\ \A o \in Option : Given[o] # Unset
  BY <1>2, GivenIsComplete DEF Others
<1>4. /\ Filled(ported, Given) \in [Setting -> Value]
      /\ \A s \in Setting :
           /\ ported[s] # Unset => Filled(ported, Given)[s] = ported[s]
           /\ ported[s] = Unset => Filled(ported, Given)[s] = Given[s]
  BY <1>2, <1>3, FilledKeeps
<1>5. Normalized(content) = Filled(ported, Given)
  BY DEF Normalized, ported
<1> QED
  BY <1>2, <1>3, <1>4, <1>5 DEF Content, Others

LEMMA SettingsInvInit == StaticInit => SettingsInv
<1> SUFFICES ASSUME StaticInit PROVE SettingsInv
  OBVIOUS
<1>1. SettingsTypeOK /\ CfgTypeOK
  BY ContentFacts DEF StaticInit, SettingsTypeOK, CfgTypeOK, Stage
<1> QED
  BY <1>1 DEF StaticInit, SettingsInv, WritesBackWhatWasRead, SettingsSurvive,
              CfgIsPromised

LEMMA ReadFileKeepsSettingsInv ==
  ASSUME SettingsInv, ReadFile
  PROVE  SettingsInv'
<1>1. CASE file = Malformed
  BY <1>1 DEF ReadFile, SettingsInv, SettingsTypeOK, CfgTypeOK, Stage,
              WritesBackWhatWasRead, SettingsSurvive, CfgIsPromised
<1>2. CASE file # Malformed
  <2>1. /\ file \in Content /\ flags \in [Option -> Value]
        /\ stage = "reading" /\ stage' = "writing" /\ cfg' = Normalized(file)
        /\ promised' = IF intact THEN intended ELSE Empty
        /\ UNCHANGED <<file, flags, intended, intact>>
    BY <1>2 DEF ReadFile, SettingsInv, SettingsTypeOK
  <2>2. /\ cfg' \in Content
        /\ \A s \in Setting : cfg'[s] # Unset
        /\ \A s \in Others : file[s] # Unset => cfg'[s] = file[s]
    BY <2>1, NormalizedKeeps
  <2>3. intact => \A s \in Others : intended[s] # Unset => cfg'[s] = intended[s]
    BY <2>1, <2>2 DEF SettingsInv, SettingsSurvive, Others
  <2>4. SettingsTypeOK' /\ CfgTypeOK'
    BY <2>1, <2>2, ContentFacts DEF SettingsInv, SettingsTypeOK, CfgTypeOK, Stage
  <2>5. WritesBackWhatWasRead' /\ SettingsSurvive'
    BY <2>1, <2>3 DEF SettingsInv, WritesBackWhatWasRead, SettingsSurvive
  <2>6. CfgIsPromised'
    BY <2>1, <2>3, ContentFacts DEF CfgIsPromised, Others
  <2> QED
    BY <2>4, <2>5, <2>6 DEF SettingsInv
<1> QED
  BY <1>1, <1>2

LEMMA EncodeKeepsSettingsInv ==
  ASSUME SettingsInv, Encode
  PROVE  SettingsInv'
<1>1. /\ stage = "encoding" /\ stage' = "configured"
      /\ file' \in IF file = Empty THEN {cfg} ELSE {cfg, Malformed, file}
      /\ intended' = IF intact THEN Filled(intended, cfg) ELSE intended
      /\ UNCHANGED <<cfg, flags, intact, promised>>
  BY DEF Encode
<1>2. /\ cfg \in Content
      /\ \A s \in Setting : cfg[s] \in Value /\ cfg[s] # Unset
      /\ intended \in Content
  BY <1>1 DEF SettingsInv, CfgTypeOK, SettingsTypeOK, Stage, Content
<1>3. Filled(intended, cfg) \in Content
  BY <1>2, FilledKeeps DEF Content
<1>4. SettingsTypeOK'
  BY <1>1, <1>2, <1>3 DEF SettingsInv, SettingsTypeOK, Stage
<1>5. CfgTypeOK' /\ WritesBackWhatWasRead'
  BY <1>1, <1>2 DEF CfgTypeOK, WritesBackWhatWasRead
<1>6. SettingsSurvive'
  <2> SUFFICES ASSUME intact
               PROVE  \A s \in Others : intended'[s] = file'[s]
    BY <1>1 DEF SettingsSurvive, Others
  <2>1. file' = cfg
    BY <1>1 DEF SettingsInv, WritesBackWhatWasRead
  <2>2. \A s \in Others : intended[s] # Unset => cfg[s] = intended[s]
    BY <1>1 DEF SettingsInv, WritesBackWhatWasRead
  <2>3. intended' = Filled(intended, cfg) /\ DOMAIN intended = Setting
    BY <1>1, <1>2 DEF Content
  <2> QED
    BY <2>1, <2>2, <2>3 DEF Filled, Others
<1>7. CfgIsPromised'
  BY <1>1 DEF SettingsInv, CfgIsPromised, Stage
<1> QED
  BY <1>4, <1>5, <1>6, <1>7 DEF SettingsInv

LEMMA OthersKeepSettingsInv ==
  ASSUME SettingsInv,
         (\E opts \in Flags : Start(opts)) \/ Truncate \/ EncodeFails \/ Die \/ Save
  PROVE  SettingsInv'
<1>1. CASE \E opts \in Flags : Start(opts)
  BY <1>1, ContentFacts
  DEF Start, SettingsInv, SettingsTypeOK, CfgTypeOK, Stage, WritesBackWhatWasRead,
      SettingsSurvive, CfgIsPromised
<1>2. CASE Truncate
  BY <1>2, ContentFacts
  DEF Truncate, SettingsInv, SettingsTypeOK, CfgTypeOK, Stage, WritesBackWhatWasRead,
      SettingsSurvive, CfgIsPromised
<1>3. CASE EncodeFails
  <2>1. \A n \in 0 .. Len(Order) - 1 : Prefix(n) \in Content
    BY DEF Prefix, SettingsInv, CfgTypeOK, Content, Value
  <2>2. file' \in Content \cup {Malformed}
    BY <1>3, <2>1 DEF EncodeFails
  <2> QED
    BY <1>3, <2>2
    DEF EncodeFails, SettingsInv, SettingsTypeOK, CfgTypeOK, Stage, WritesBackWhatWasRead,
        SettingsSurvive, CfgIsPromised
<1>4. CASE Die
  BY <1>4
  DEF Die, SettingsInv, SettingsTypeOK, CfgTypeOK, Stage, WritesBackWhatWasRead,
      SettingsSurvive, CfgIsPromised
<1>5. CASE Save
  <2>1. file' \in Content /\ intended' = file'
    BY <1>5, ContentFacts DEF Save
  <2> QED
    BY <1>5, <2>1
    DEF Save, SettingsInv, SettingsTypeOK, CfgTypeOK, Stage, WritesBackWhatWasRead,
        SettingsSurvive, CfgIsPromised
<1> QED
  BY <1>1, <1>2, <1>3, <1>4, <1>5

-------------------------------------------------------------------------------
(* The certificate.                                                         *)

CertTypeOK ==
  /\ issued \in Nat
  /\ pem \in [Part -> 0 .. issued]
  /\ manager \in [Part -> 0 .. issued]
  /\ read \in 0 .. issued
  /\ mode \in {"off", "starting", "http", "https"}
  /\ loader \in {"idle", "stat", "cert", "key"}

\* Versions only grow from the manager through the loader to the files: what
\* the server has is a pair, what Load has read since is not older, and what is
\* on disk is not older than either.  A key that fits what was read is
\* therefore never a step back.
VersionsGrow ==
  /\ manager # NoPair => Whole(manager)
  /\ loader = "key" => manager["cert"] <= read
  /\ pem["cert"] # Missing => manager["cert"] <= pem["cert"] /\ read <= pem["cert"]

\* A process that is not serving has nothing.
OffHasNothing ==
  mode = "off" => loader = "idle" /\ manager = NoPair /\ ~notified

CertInv == CertTypeOK /\ VersionsGrow /\ OffHasNothing

LEMMA CertInvInit == CertInit => CertInv
  BY DEF CertInit, CertInv, CertTypeOK, VersionsGrow, OffHasNothing, NoPair, Missing, Part

LEMMA ServeKeepsCertInv ==
  ASSUME CertInv, NEW https \in BOOLEAN, NEW where, ServeHTTPS(https, where)
  PROVE  CertInv'
  BY DEF ServeHTTPS, pemVars, CertInv, CertTypeOK, VersionsGrow, OffHasNothing, Whole

LEMMA LoadKeepsCertInv ==
  ASSUME CertInv, Stat \/ ReadCert \/ ReadKey
  PROVE  CertInv' /\ (mode' = mode \/ (mode = "starting" /\ mode' \in {"http", "https"}))
<1>1. loader # "idle" /\ mode # "off"
  BY DEF Stat, ReadCert, ReadKey, CertInv, OffHasNothing
<1>2. mode' = mode \/ (mode = "starting" /\ mode' \in {"http", "https"})
  BY DEF Stat, ReadCert, ReadKey, Return, CertInv, CertTypeOK
<1>3. OffHasNothing'
  BY <1>1, <1>2 DEF OffHasNothing
<1>4. CASE Stat
  <2>1. loader' \in {"cert", "idle"} /\ UNCHANGED <<pem, issued, manager, read>>
    BY <1>4 DEF Stat, Return, pemVars
  <2> QED
    BY <2>1, <1>2, <1>3 DEF CertInv, CertTypeOK, VersionsGrow, Whole
<1>5. CASE ReadCert
  <2>1. /\ read' = pem["cert"] /\ loader' \in {"key", "idle"}
        /\ loader' = "key" => pem["cert"] # Missing
        /\ UNCHANGED <<pem, issued, manager>>
    BY <1>5 DEF ReadCert, Return, Readable, pemVars
  <2>2. CertTypeOK'
    BY <2>1, <1>2 DEF CertInv, CertTypeOK, Part
  <2>3. VersionsGrow'
    BY <2>1 DEF CertInv, CertTypeOK, VersionsGrow, Whole, Part
  <2> QED
    BY <2>2, <2>3, <1>2, <1>3 DEF CertInv
<1>6. CASE ReadKey
  <2>1. /\ loader' = "idle" /\ UNCHANGED <<pem, issued, read>>
        /\ \/ read # Missing /\ manager' = [part \in Part |-> read]
           \/ UNCHANGED manager
    BY <1>6 DEF ReadKey, Return, Readable, pemVars
  <2>2. CertTypeOK'
    BY <2>1, <1>2 DEF CertInv, CertTypeOK
  <2>3. VersionsGrow'
    BY <2>1 DEF CertInv, CertTypeOK, VersionsGrow, Whole, Part
  <2> QED
    BY <2>2, <2>3, <1>2, <1>3 DEF CertInv
<1> QED
  BY <1>2, <1>4, <1>5, <1>6

LEMMA SignalsKeepCertInv ==
  ASSUME CertInv, Notify \/ TakeHangup \/ Hangup
  PROVE  CertInv' /\ UNCHANGED <<mode, manager>>
  BY DEF Notify, TakeHangup, Hangup, pemVars, CertInv, CertTypeOK, VersionsGrow,
         OffHasNothing, Whole

LEMMA ResetKeepsCertInv ==
  ASSUME CertInv, Reset
  PROVE  CertInv'
  BY DEF Reset, pemVars, CertInv, CertTypeOK, VersionsGrow, OffHasNothing, NoPair,
         Missing, Part

LEMMA RenewalKeepsCertInv ==
  ASSUME CertInv, Renewal
  PROVE  CertInv' /\ UNCHANGED <<mode, manager, loader, notified>>
<1>1. UNCHANGED <<mode, manager, loader, read, notified>>
  BY DEF Renewal, Issue, Install, Lose
<1>2. issued' \in Nat /\ issued <= issued' /\ pem' \in [Part -> 0 .. issued']
  BY DEF Renewal, Issue, Install, Lose, CertInv, CertTypeOK, Missing
<1>3. pem'["cert"] = pem["cert"] \/ pem'["cert"] \in {Missing, issued}
  BY DEF Renewal, Issue, Install, Lose, CertInv, CertTypeOK, Part
<1>4. CertTypeOK'
  BY <1>1, <1>2 DEF CertInv, CertTypeOK
<1>5. VersionsGrow' /\ OffHasNothing'
  BY <1>1, <1>3 DEF CertInv, CertTypeOK, VersionsGrow, OffHasNothing, Whole, Part, Missing
<1> QED
  BY <1>1, <1>4, <1>5 DEF CertInv

-------------------------------------------------------------------------------
(* The process.                                                             *)

\* There is a server only at the end of main; and plain HTTP where the settings
\* say HTTPS is what a failed initial load left.
ModeInv ==
  /\ stage # "serving" => mode = "off"
  /\ mode = "http" /\ cfg["enable_https"] = "on" => fellback

ServerInv == SettingsInv /\ CertInv /\ ModeInv

LEMMA ServerInvInit == AsenaServerInit => ServerInv
<1>1. AsenaServerInit => ModeInv
  BY DEF AsenaServerInit, StaticInit, CertInit, ModeInv
<1> QED
  BY <1>1, SettingsInvInit, CertInvInit DEF AsenaServerInit, ServerInv

\* The parts of the invariant that a step leaves alone with its variables.
LEMMA OtherHalf ==
  ASSUME ServerInv
  PROVE  /\ UNCHANGED staticVars => SettingsInv'
         /\ UNCHANGED certVars => CertInv'
<1>1. UNCHANGED staticVars => SettingsInv'
  BY DEF staticVars, ServerInv, SettingsInv, SettingsTypeOK, CfgTypeOK, SettingsSurvive,
         WritesBackWhatWasRead, CfgIsPromised
<1>2. UNCHANGED certVars => CertInv'
  BY DEF certVars, pemVars, ServerInv, CertInv, CertTypeOK, VersionsGrow, OffHasNothing,
         Whole
<1> QED
  BY <1>1, <1>2

LEMMA MainKeepsServerInv ==
  ASSUME ServerInv,
         Boot \/ (\E opts \in Flags : Start(opts)) \/ Save,
         UNCHANGED <<certVars, fellback>>
  PROVE  ServerInv'
<1>1. SettingsInv'
  BY ReadFileKeepsSettingsInv, EncodeKeepsSettingsInv, OthersKeepSettingsInv
  DEF Boot, ServerInv
<1>2. ModeInv'
  <2>1. UNCHANGED <<mode, fellback>>
    BY DEF certVars
  <2>2. CASE Save
    BY <2>1, <2>2 DEF Save, ServerInv, ModeInv
  <2>3. CASE ~Save
    <3>1. stage # "serving"
      BY <2>3 DEF Boot, ReadFile, Truncate, Encode, EncodeFails, Start
    <3> QED
      BY <2>1, <3>1 DEF ServerInv, ModeInv
  <2> QED
    BY <2>2, <2>3
<1> QED
  BY <1>1, <1>2, OtherHalf DEF ServerInv

LEMMA ServeKeepsServerInv ==
  ASSUME ServerInv, Serve
  PROVE  ServerInv'
<1>1. SettingsInv'
  BY DEF Serve, ServerInv, SettingsInv, SettingsTypeOK, CfgTypeOK, Stage, SettingsSurvive,
         WritesBackWhatWasRead, CfgIsPromised
<1>2. CertInv'
  BY ServeKeepsCertInv DEF Serve, ServerInv
<1>3. ModeInv'
  BY DEF Serve, ServeHTTPS, ModeInv
<1> QED
  BY <1>1, <1>2, <1>3 DEF ServerInv

LEMMA LoadOrReloadKeepsServerInv ==
  ASSUME ServerInv, LoadOrReload
  PROVE  ServerInv'
<1>1. CertInv' /\ (mode' = mode \/ (mode = "starting" /\ mode' \in {"http", "https"}))
  BY LoadKeepsCertInv, SignalsKeepCertInv DEF LoadOrReload, Reloading, Load, ServerInv
<1>2. /\ UNCHANGED <<stage, cfg>>
      /\ fellback' = (fellback \/ (mode = "starting" /\ mode' = "http"))
  BY DEF LoadOrReload, staticVars
<1>3. ModeInv'
  BY <1>1, <1>2 DEF ServerInv, ModeInv
<1> QED
  BY <1>1, <1>3, OtherHalf DEF LoadOrReload, ServerInv

LEMMA KillKeepsServerInv ==
  ASSUME ServerInv, Kill
  PROVE  ServerInv'
<1>1. SettingsInv' /\ CertInv'
  BY OthersKeepSettingsInv, ResetKeepsCertInv DEF Kill, ServerInv
<1>2. ModeInv'
  BY DEF Kill, Die, Reset, ModeInv
<1> QED
  BY <1>1, <1>2 DEF ServerInv

LEMMA ServerInvStep ==
  ASSUME ServerInv, [AsenaServerNext]_serverVars
  PROVE  ServerInv'
<1>1. CASE Hangup /\ UNCHANGED <<staticVars, fellback>>
  BY <1>1, SignalsKeepCertInv, OtherHalf DEF ServerInv, ModeInv, staticVars
<1>2. CASE Renewal /\ UNCHANGED <<staticVars, fellback>>
  BY <1>2, RenewalKeepsCertInv, OtherHalf DEF ServerInv, ModeInv, staticVars
<1>3. CASE UNCHANGED serverVars
  BY <1>3, OtherHalf DEF ServerInv, ModeInv, serverVars, staticVars, certVars
<1> QED
  BY <1>1, <1>2, <1>3, MainKeepsServerInv, ServeKeepsServerInv, LoadOrReloadKeepsServerInv,
     KillKeepsServerInv
  DEF AsenaServerNext, Sighup

\* In every state of every execution the settings and the certificate are
\* those of ServerInv.
THEOREM ServerInvariant == AsenaServerSpec => []ServerInv
<1>1. ServerInv /\ [AsenaServerNext]_serverVars => ServerInv'
  BY ServerInvStep
<1> QED
  BY <1>1, ServerInvInit, PTL DEF AsenaServerSpec

\* For any settings, saves and flags the variables have their types, and main
\* hands no setting to the server that has no value.
THEOREM ServerTypeCorrect == AsenaServerSpec => []AsenaServerTypeOK
<1>1. ServerInv => AsenaServerTypeOK
  <2> SUFFICES ASSUME ServerInv PROVE AsenaServerTypeOK
    OBVIOUS
  <2>1. file \in [Setting -> Value] \cup {Malformed}
    BY DEF ServerInv, SettingsInv, SettingsTypeOK, Content
  <2>2. /\ stage \in Stage
        /\ stage \in {"configured", "serving"} => \A s \in Setting : cfg[s] # Unset
    BY DEF ServerInv, SettingsInv, SettingsTypeOK, CfgTypeOK, Stage
  <2> QED
    BY <2>1, <2>2
    DEF AsenaServerTypeOK, Stage, ServerInv, CertInv, CertTypeOK, OffHasNothing, ModeInv
<1> QED
  BY <1>1, ServerInvariant, PTL

\* For any settings, saves and flags, and any number of starts: a setting other
\* than the port, which each start derives anew, is still in the file and not
\* changed.  Kills and failed writes do no harm anywhere but within a write
\* back, between the emptying of the file and its last byte; after one of those,
\* or a save in the middle of a start, nothing is said until the next save.
THEOREM SettingsAlwaysSurvive == AsenaServerSpec => []SettingsSurvive
<1>1. ServerInv => SettingsSurvive
  BY DEF ServerInv, SettingsInv
<1> QED
  BY <1>1, ServerInvariant, PTL

\* For any settings, saves, flags and renewals: a deployment that was set to
\* HTTPS serves plain HTTP only after an initial load that failed.
THEOREM PlainIsAFallback == AsenaServerSpec => []PlainOnlyByFallback
<1>1. ServerInv => PlainOnlyByFallback
  <2> SUFFICES ASSUME ServerInv, stage = "serving", mode = "http",
                      promised["enable_https"] = "on"
               PROVE  fellback
    BY DEF PlainOnlyByFallback
  <2>1. cfg["enable_https"] = promised["enable_https"]
    BY AsenaServerAssumption DEF ServerInv, SettingsInv, CfgIsPromised, Stage, Others
  <2> QED
    BY <2>1 DEF ServerInv, ModeInv
<1> QED
  BY <1>1, ServerInvariant, PTL

\* For any renewals, however often files go missing or change during a load,
\* and any signals: a server that has a certificate keeps one with its own key
\* and never goes back to an older one.
THEOREM CertificatesOnlyMoveForward == AsenaServerSpec => CertificatesMoveForward
<1>1. ASSUME ServerInv, ServerInv', [AsenaServerNext]_serverVars,
             mode = "https", mode' = "https", manager # NoPair
      PROVE  Whole(manager') /\ manager'["cert"] >= manager["cert"]
  <2>1. Whole(manager) /\ manager["cert"] \in Nat
    BY <1>1 DEF ServerInv, CertInv, CertTypeOK, VersionsGrow, Part
  <2>2. CASE manager' = manager
    BY <2>1, <2>2 DEF Whole
  <2>3. CASE ReadKey
    <3>1. CASE manager' = [part \in Part |-> read] /\ read # Missing
      <4>1. manager["cert"] <= read
        BY <1>1, <2>3 DEF ReadKey, ServerInv, CertInv, VersionsGrow
      <4> QED
        BY <3>1, <4>1 DEF Whole, Part
    <3>2. manager' = manager \/ (manager' = [part \in Part |-> read] /\ read # Missing)
      BY <2>3 DEF ReadKey, Readable
    <3> QED
      BY <2>2, <3>1, <3>2
  <2>4. manager' = manager \/ ReadKey
    BY <1>1, RenewalKeepsCertInv
    DEF AsenaServerNext, Serve, ServeHTTPS, LoadOrReload, Reloading, Load, Stat, ReadCert,
        Notify, TakeHangup, Kill, Reset, Sighup, Hangup, serverVars, certVars, ServerInv
  <2> QED
    BY <2>2, <2>3, <2>4
<1>2. ServerInv /\ ServerInv' /\ [AsenaServerNext]_serverVars =>
        [ mode = "https" /\ mode' = "https" /\ manager # NoPair =>
            Whole(manager') /\ manager'["cert"] >= manager["cert"] ]_certVars
  BY <1>1
<1> QED
  BY <1>2, ServerInvariant, PTL DEF AsenaServerSpec, CertificatesMoveForward

-------------------------------------------------------------------------------
(* A renewal at rest: the safety half of RenewalIsServed.                   *)

\* A pair that was whole on disk when a SIGHUP came, and still is, is served or
\* will be: a SIGHUP waits, or a load is under way that has read nothing else.
AskedInv ==
  asked # Missing =>
    /\ notified
    /\ pem = [part \in Part |-> asked]
    /\ paths = "files" =>
         \/ manager = [part \in Part |-> asked]
         \/ hangup
         \/ loader \in {"stat", "cert"}
         \/ loader = "key" /\ read = asked

LEMMA AskedInvStep ==
  ASSUME ServerInv, AskedInv, [AsenaServerNext]_serverVars
  PROVE  AskedInv'
<1> SUFFICES ASSUME asked' # Missing PROVE AskedInv'
  BY DEF AskedInv
<1>1. CASE Hangup
  <2>1. Whole(pem) /\ asked' = pem["cert"] /\ pem' = pem /\ notified' /\ hangup'
    BY <1>1 DEF Hangup, pemVars
  <2>2. pem = [part \in Part |-> pem["cert"]]
    BY <2>1 DEF Whole, ServerInv, CertInv, CertTypeOK, Part
  <2> QED
    BY <2>1, <2>2 DEF AskedInv
<1>2. CASE Stat \/ ReadCert \/ ReadKey
  <2>1. /\ UNCHANGED <<pem, paths, notified, hangup, asked>>
        /\ notified /\ pem = [part \in Part |-> asked]
    BY <1>2 DEF Stat, ReadCert, ReadKey, pemVars, AskedInv
  <2>2. ASSUME paths = "files"
        PROVE  /\ \A part \in Part : Readable(part)
               /\ pem["cert"] = asked /\ pem["key"] = asked
    BY <2>1, <2>2 DEF Readable, Part
  <2>3. ASSUME paths = "files", Stat PROVE loader' = "cert"
    BY <2>2, <2>3 DEF Stat
  <2>4. ASSUME paths = "files", ReadCert PROVE loader' = "key" /\ read' = asked
    BY <2>2, <2>4 DEF ReadCert, Part
  <2>5. ASSUME paths = "files", ReadKey
        PROVE  manager' = [part \in Part |-> asked] \/ (hangup /\ hangup')
    <3>1. \/ manager = [part \in Part |-> asked] \/ hangup
          \/ read = asked
      BY <2>1, <2>5 DEF ReadKey, AskedInv
    <3>2. CASE read = asked
      <4>1. manager' = [part \in Part |-> read]
        BY <2>2, <2>5, <3>2 DEF ReadKey, Part
      <4> QED
        BY <3>2, <4>1
    <3>3. CASE read # asked
      <4>1. manager' = manager
        BY <2>2, <2>5, <3>3 DEF ReadKey
      <4> QED
        BY <2>1, <3>1, <3>3, <4>1
    <3> QED
      BY <3>2, <3>3
  <2> QED
    BY <1>2, <2>1, <2>3, <2>4, <2>5 DEF AskedInv
<1>3. CASE Notify \/ TakeHangup
  BY <1>3 DEF Notify, TakeHangup, pemVars, AskedInv
<1>4. CASE Issue
  BY <1>4 DEF Issue, AskedInv
<1>5. ASSUME NEW https, NEW where, ServeHTTPS(https, where)
      PROVE  FALSE
  BY <1>5 DEF ServeHTTPS, AskedInv, ServerInv, CertInv, OffHasNothing
<1>6. CASE UNCHANGED certVars
  BY <1>6 DEF certVars, pemVars, AskedInv
<1>7. asked' = Missing \/ Hangup \/ Load \/ Notify \/ TakeHangup \/ Issue
        \/ Serve \/ UNCHANGED certVars
  BY DEF AsenaServerNext, LoadOrReload, Reloading, Kill, Sighup, Reset, Renewal,
         Install, Lose, serverVars
<1> QED
  BY <1>1, <1>2, <1>3, <1>4, <1>5, <1>6, <1>7 DEF Load, Serve

AskedIsServed ==
  asked # Missing /\ paths = "files" /\ ~hangup /\ loader = "idle" =>
    manager = [part \in Part |-> asked]

\* For any renewals and signals: once no SIGHUP waits and no load is under way,
\* the server has the pair that was on disk when the last SIGHUP came, also
\* when that was during a load, unless the files have changed since.
THEOREM NoHangupIsLost == AsenaServerSpec => []AskedIsServed
<1>1. AsenaServerInit => AskedInv
  BY DEF AsenaServerInit, CertInit, AskedInv
<1>2. ServerInv /\ AskedInv /\ [AsenaServerNext]_serverVars => AskedInv'
  BY AskedInvStep
<1>3. AskedInv => AskedIsServed
  BY DEF AskedInv, AskedIsServed
<1> QED
  BY <1>1, <1>2, <1>3, ServerInvariant, PTL DEF AsenaServerSpec

===============================================================================
