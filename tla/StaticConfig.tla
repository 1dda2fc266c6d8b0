----------------------------- MODULE StaticConfig -----------------------------
(***************************************************************************)
(* asena.yaml at the start of the program: internal/config/service.go      *)
(* (AsenaConfigService), defaults.go (setAsenaConfigs), the flags of       *)
(* pkg/cli/parser.go and pkg/configwriter/writer.go.  The file is read     *)
(* once, what it lacks is filled in, and all of it is written back over    *)
(* the same file, which is emptied first.  The process may be killed and   *)
(* the disk may be full at any point, and the administrator may save the   *)
(* file at any time.                                                       *)
(*                                                                         *)
(* The port is a setting of the file like the others, but not filled in    *)
(* like the others: it is derived anew at each start, whatever is there.   *)
(***************************************************************************)
EXTENDS Integers, Sequences, SequencesExt

CONSTANTS
  Order,        \* the settings, in the order they are written
  Unset,        \* a setting the file lacks, or a flag that is not given
  Default,      \* Default[o]: the value of o that is built into the program
  Saves,        \* what the administrator saves
  Flags,        \* the flags the program may be started with
  Malformed     \* a file that is missing or is not YAML

Setting == Range(Order)

\* What has a built-in value, and may have a flag: two ports instead of one.
Option == (Setting \ {"port"}) \cup {"http_port", "https_port"}

\* What a setting may be in the file, of a flag or built in.
Value ==
  {Unset} \cup {Default[o] : o \in Option}
          \cup UNION {{content[s] : s \in Setting} : content \in Saves}
          \cup UNION {{opts[o] : o \in Option} : opts \in Flags}

ASSUME StaticConfigAssumption ==
  /\ {"enable_https", "port"} \subseteq Setting
  /\ \A o \in Option : Default[o] # Unset
  /\ Saves \subseteq [Setting -> Value]
  /\ Flags \subseteq [Option -> Value]
  /\ Malformed \notin Saves

VARIABLES
  file,         \* asena.yaml
  stage,        \* how far main is
  cfg,          \* the AsenaConfig in memory
  flags,        \* cliOpts
  intended,     \* what the settings should be: as saved, or, where that is
                \*   silent, as first completed (not in the code)
  intact,       \* no write back was cut short and no save came between a read
                \*   and the write back, since the last save (not in the code)
  promised      \* intended at the time cfg was read, unless it was not intact
                \*   (not in the code)

staticVars == <<file, stage, cfg, flags, intended, intact, promised>>

Empty == [s \in Setting |-> Unset]

Filled(content, by) ==
  [s \in DOMAIN content |-> IF content[s] = Unset THEN by[s] ELSE content[s]]

-------------------------------------------------------------------------------

Start(opts) ==
  /\ stage = "down"
  /\ stage' = "reading"
  /\ flags' = opts
  /\ UNCHANGED <<file, cfg, intended, intact, promised>>

(* setVariablesGotFromCLI: the flags that are given replace the defaults.   *)
Given == Filled(flags, Default)

(* The port of the scheme that is enabled, whatever the file says.          *)
Port(content) ==
  LET https == IF content["enable_https"] = Unset THEN Given["enable_https"]
                                                  ELSE content["enable_https"]
  IN IF https = "on" THEN Given["https_port"] ELSE Given["http_port"]

(* Mutant: the built-in values are forgotten.                               *)
Normalized_NoDefaults(content) ==
  Filled([content EXCEPT !["port"] = Port(content)], flags)

(* Mutant: a flag that is given takes the place of what the file says.      *)
Normalized_FlagsFirst(content) ==
  [s \in Setting |-> CASE s = "port" -> Port(content)
                       [] s # "port" /\ flags[s] # Unset -> flags[s]
                       [] OTHER -> Filled(content, Default)[s]]

(* The normalize functions fill in what the file lacks.                     *)
Normalized(content) == Filled([content EXCEPT !["port"] = Port(content)], Given)

(* os.ReadFile, yaml.Unmarshal and the normalize functions; an error is     *)
(* fatal.                                                                   *)
ReadFile ==
  /\ stage = "reading"
  /\ IF file = Malformed
     THEN /\ stage' = "down"
          /\ UNCHANGED <<cfg, promised>>
     ELSE /\ stage' = "writing"
          /\ cfg' = Normalized(file)
          /\ promised' = IF intact THEN intended ELSE Empty
  /\ UNCHANGED <<file, flags, intended, intact>>

(* O_TRUNC and the header, which is a comment.                              *)
Truncate ==
  /\ stage = "writing"
  /\ stage' = "encoding"
  /\ file' = Empty
  /\ UNCHANGED <<cfg, flags, intended, intact, promised>>

(* A save since the file was emptied is written over, mixed with what is    *)
(* written, or, if it put another file in its place, kept.                  *)
Encode ==
  /\ stage = "encoding"
  /\ stage' = "configured"
  /\ file' \in IF file = Empty THEN {cfg} ELSE {cfg, Malformed, file}
  /\ intended' = IF intact THEN Filled(intended, cfg) ELSE intended
  /\ UNCHANGED <<cfg, flags, intact, promised>>

\* What is left of cfg when only the first n settings were written.
Prefix(n) == [s \in Setting |-> IF \E i \in 1 .. n : Order[i] = s THEN cfg[s] ELSE Unset]

(* Mutant: a text that could not be written is no error.                    *)
EncodeFails_Ignored ==
  /\ stage = "encoding"
  /\ stage' = "configured"
  /\ file' \in {Prefix(n) : n \in 0 .. Len(Order) - 1}
  /\ UNCHANGED <<cfg, flags, intended, intact, promised>>

(* A write that fails is fatal.  It leaves a part of the text, which may or *)
(* may not be YAML.                                                         *)
EncodeFails ==
  /\ stage = "encoding"
  /\ stage' = "down"
  /\ file' \in {Prefix(n) : n \in 0 .. Len(Order) - 1} \cup {Malformed}
  /\ intact' = FALSE
  /\ UNCHANGED <<cfg, flags, intended, promised>>

(* The end of the process wherever it is, which takes nothing along but     *)
(* what was not written.                                                    *)
Die ==
  /\ stage # "down"
  /\ stage' = "down"
  /\ intact' = (intact /\ stage # "encoding")
  /\ UNCHANGED <<file, cfg, flags, intended, promised>>

(* The administrator saves the file.                                        *)
Save ==
  /\ \E content \in Saves : file' = content /\ intended' = content
  /\ intact' = (stage \notin {"writing", "encoding"})
  /\ UNCHANGED <<stage, cfg, flags, promised>>

-------------------------------------------------------------------------------

StaticInit ==
  /\ file \in Saves
  /\ stage = "down"
  /\ cfg = Empty
  /\ flags = [o \in Option |-> Unset]
  /\ intended = file
  /\ intact = TRUE
  /\ promised = Empty

Boot == ReadFile \/ Truncate \/ Encode \/ EncodeFails

-------------------------------------------------------------------------------

\* The settings an administrator relies on, other than the port, are still in
\* the file after any number of starts with any flags, and the ones a first
\* start filled in do not change again (defaults.go:40-65, writer.go:19).  This
\* is as long as no write back was cut short since the last save, by a kill or a
\* full disk, and no save came in the middle of a start: then they may be gone.
SettingsSurvive ==
  intact /\ stage # "encoding" =>
    \A s \in Setting \ {"port"} : intended[s] # Unset => file[s] = intended[s]

\* ADR-0001:16 counts the port among the settings that asena.yaml holds; but
\* one that was saved there is overwritten at the next start (defaults.go:71-75).
PortSurvives ==
  intact /\ stage # "encoding" /\ intended["port"] # Unset =>
    file["port"] = intended["port"]

===============================================================================
