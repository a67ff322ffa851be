---------------------------- MODULE FoliodConfig ----------------------------
(***************************************************************************)
(* What foliod makes of its environment and of its configuration file: the *)
(* whole numbers of configure(), which the constants of FolioState and     *)
(* Foliod stand for.  An environment maps keys to values, a file is the    *)
(* sequence of its KEY=VALUE lines.  Of a value only what strtoul makes of *)
(* it is kept.  Left out: the thresholds, which are floats with no check   *)
(* but that they are numbers, PEN_FORGOTTEN, comments and quotes.          *)
(***************************************************************************)
EXTENDS Integers, Sequences

CONSTANT UintRange              \* 2^32; a long holds its square

ASSUME UintAssumption == UintRange \in Nat \ {0, 1}

Keys == {"FALLBACK_AFTER", "HEARTBEAT_S", "ATTACHED_HEARTBEAT_S", "MAG_SAMPLES",
         "SAMPLE_TIMEOUT_S"}

(* A whole number, of any size and sign; "text" stands for an empty value, *)
(* too: both keep the default.                                             *)
Setting == [form : {"number", "text"}, n : Int]
Environment == UNION {[set -> Setting] : set \in SUBSET Keys}
Line == [key : Keys, val : Setting]

-----------------------------------------------------------------------------
(* load_conf_file() sets what is not set: the environment comes before the *)
(* file, and an earlier line before a later one.                           *)
Sets(file, key) == {i \in DOMAIN file : file[i].key = key}
First(file, key) == CHOOSE i \in Sets(file, key) : \A j \in Sets(file, key) : i <= j

Loaded(env, file) ==
    [key \in DOMAIN env \cup {file[i].key : i \in DOMAIN file} |->
        IF key \in DOMAIN env THEN env[key] ELSE file[First(file, key)].val]

(* strtoul(): a negative number wraps, one out of range becomes the        *)
(* largest.  The cast to unsigned keeps the lower half.                    *)
Strtoul(n) ==
    LET range == UintRange * UintRange
    IN  IF n > -range /\ n < range THEN n % range ELSE range - 1

EnvUint(env, key, default) ==
    IF key \in DOMAIN env /\ env[key].form = "number"
    THEN Strtoul(env[key].n) % UintRange ELSE default

AtLeastOne(n) == IF n = 0 THEN 1 ELSE n

Configured(env) ==
    [fallbackAfter |-> AtLeastOne(EnvUint(env, "FALLBACK_AFTER", 3)),
     heartbeatS |-> EnvUint(env, "HEARTBEAT_S", 60),
     attachedHeartbeatS |-> EnvUint(env, "ATTACHED_HEARTBEAT_S", 3),
     magSamples |-> AtLeastOne(EnvUint(env, "MAG_SAMPLES", 3)),
     sampleTimeoutS |-> AtLeastOne(EnvUint(env, "SAMPLE_TIMEOUT_S", 10))]

-----------------------------------------------------------------------------
(* What the daemon and the classifier take for granted of their numbers:   *)
(* a mean of at least one reading, a timeout that is not over at once, a   *)
(* fallback that waits for a failure.                                      *)
Usable(c) ==
    /\ c.heartbeatS \in Nat /\ c.attachedHeartbeatS \in Nat
    /\ {c.fallbackAfter, c.magSamples, c.sampleTimeoutS} \subseteq Nat \ {0}

(* Loading a second time changes nothing, and what is set stays set.       *)
LoadedForGood(env, file) ==
    LET once == Loaded(env, file)
    IN  /\ Loaded(once, file) = once
        /\ \A key \in DOMAIN env : once[key] = env[key]
=============================================================================
