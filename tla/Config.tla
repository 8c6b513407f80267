------------------------------- MODULE Config --------------------------------
(***************************************************************************)
(* What a config document means (config.rs).  Reading is lenient: a value  *)
(* that is missing, of the wrong type or too small is replaced by its      *)
(* default, and only broken TOML syntax is an error, which each command    *)
(* answers in its own way.                                                 *)
(*                                                                         *)
(* A TOML value is a record tagged with its type; a document says whether  *)
(* its syntax is right and holds the two sections read here.  Texts are    *)
(* atoms, and Occurs says which pattern occurs in which name, case       *)
(* folded.                                                                 *)
(***************************************************************************)
EXTENDS Integers, Sequences

CONSTANTS
  Unset,             \* an optional field that is not there
  Blank,             \* a text of white space
  Occurs(_, _),    \* Occurs(name, pattern): substring, both lowercased
  DefaultInterval,   \* 10 in the code
  DefaultRetention,  \* 30
  DefaultLogDir      \* "logs"

Default ==
  [interval_seconds |-> DefaultInterval, log_dir |-> DefaultLogDir,
   retention_days |-> DefaultRetention, include |-> <<>>, exclude |-> <<>>]

\* A key of a section; a section that is no table reads as absent.
NoValue == [type |-> "absent"]
Get(section, key) ==
  IF section.type = "table" /\ key \in DOMAIN section.keys THEN section.keys[key] ELSE NoValue

AsInt(value, default, minimum) ==
  IF value.type = "integer" /\ value.int >= minimum THEN value.int ELSE default

\* Only an array counts, and of it the texts that are not blank.
CleanStrList(value) ==
  IF value.type # "array" THEN <<>>
  ELSE LET Kept(item) == item.type = "string" /\ item.str # Blank
           kept == SelectSeq(value.items, Kept)
       IN  [n \in 1..Len(kept) |-> kept[n].str]

FromToml(doc) ==
  LET dir == Get(doc.general, "log_dir") IN
  [interval_seconds |-> AsInt(Get(doc.general, "interval_seconds"), DefaultInterval, 1),
   log_dir          |-> IF dir.type = "string" THEN dir.str ELSE DefaultLogDir,
   retention_days   |-> AsInt(Get(doc.general, "retention_days"), DefaultRetention, 0),
   include          |-> CleanStrList(Get(doc.sensors, "include")),
   exclude          |-> CleanStrList(Get(doc.sensors, "exclude"))]

\* load_file, and unwrap_or_default in report and watch: never an error.
Lenient(doc) == IF doc.readable /\ doc.syntax THEN FromToml(doc) ELSE Default

(***************************************************************************)
(* The lookup: an explicit path that exists, else the first fallback that  *)
(* does.  A mistyped --config falls through with a warning.                *)
(***************************************************************************)
ConfigPath(explicit, fallback, present) ==
  IF explicit \in present THEN explicit
  ELSE IF fallback \in present THEN fallback ELSE Unset

\* Config::load, of the documents that lie at the paths.
Load(explicit, fallback, docs) ==
  LET path == ConfigPath(explicit, fallback, DOMAIN docs)
  IN  IF path = Unset THEN Default ELSE Lenient(docs[path])

\* SensorFilter::matches: an empty include list includes all, exclude wins.
SensorMatches(config, name) ==
  /\ config.include # <<>> =>
       \E n \in 1..Len(config.include) : Occurs(name, config.include[n])
  /\ \A n \in 1..Len(config.exclude) : ~Occurs(name, config.exclude[n])
=============================================================================
