---------------------------- MODULE ConsoleBlank ----------------------------
(***************************************************************************)
(* The console policy, console-blank.sh: a loop that wakes every POLL      *)
(* seconds, reopens the input nodes when they changed, reads the lid from  *)
(* foliod's virtual device, asks whether the tablet was suspended, drains  *)
(* the input descriptors one after another, and blanks or lights the       *)
(* console.                                                                *)
(*                                                                         *)
(* Each read of the outside is a step of its own, so the lid may move, a   *)
(* key may be pressed and the tablet may sleep between any two of them.    *)
(* Left out: --status, the exits at start and when no input node is left   *)
(* (pmic_pwrkey is built in), and the zeroing of the framebuffer, which    *)
(* goes with unbinding fbcon.  Idle time is counted in polls.              *)
(***************************************************************************)
EXTENDS Integers

CONSTANTS
    Limit,          \* polls without input before the console goes dark
    Poll, KickS,    \* POLL and KICK_S, in seconds
    MaxChanges,     \* bound: what the outside does in a behaviour
    MaxSuspends     \* bound: suspends in a behaviour

ASSUME ConsoleAssumption ==
    /\ Limit \in Nat \ {0}
    /\ Poll \in Nat \ {0} /\ KickS \in Nat \ {0}
    /\ MaxChanges \in Nat /\ MaxSuspends \in Nat

VARIABLES
    lidDev,         \* what foliod publishes, "none" without its device
    pwrKey,         \* the power key: "up", "down", or "wake" since a wake press
    pwrQ,           \* bytes on the pmic_pwrkey descriptor, by what made them
    otherQ,         \* bytes on any other input descriptor
    nodesChanged,   \* the event nodes differ from SIG
    suspends,       \* /sys/power/suspend_stats/success
    changes,        \* what the outside did so far
    on,             \* fbcon is bound: console_on
    pc,             \* where the loop is
    toDrain,        \* descriptors this poll has still to drain
    activity,       \* ACTIVITY = 0
    power,          \* what made POWER = 0, empty for POWER = 1
    folio,          \* FOLIO is set
    lid, prev,
    idle,           \* idle, in polls
    seen,           \* SUSPENDS
    pwrQuiet,
    sinceKick,      \* seconds since LAST_KICK
    cause,          \* history: why the console last went dark
    quiet,          \* history: polls since input was drained or the console lit
    touched,        \* history: this poll has drained input of other devices
    slipped         \* history: a suspend fell behind this poll's check for one

outside == <<lidDev, pwrKey, pwrQ, otherQ, nodesChanged, suspends, changes>>
found == <<folio, lid, prev, seen>>
drained == <<toDrain, activity, power>>
history == <<cause, quiet, touched, slipped>>

vars == <<outside, found, drained, history, on, pc, idle, pwrQuiet, sinceKick>>

LidState == {"none", "open", "closed"}
PowerBytes == {"press", "release", "wakePress", "wakeRelease"}
Polls == {"pollResumed", "pollClosed", "pollOpened", "pollAwake"}

Flags ==
    /\ otherQ \in BOOLEAN /\ nodesChanged \in BOOLEAN /\ on \in BOOLEAN
    /\ activity \in BOOLEAN /\ folio \in BOOLEAN /\ pwrQuiet \in BOOLEAN
    /\ touched \in BOOLEAN /\ slipped \in BOOLEAN

TypeOK ==
    /\ lidDev \in LidState /\ lid \in LidState /\ prev \in LidState
    /\ pwrKey \in {"up", "down", "wake"}
    /\ pwrQ \subseteq PowerBytes /\ power \subseteq PowerBytes
    /\ Flags
    /\ suspends \in 0..MaxSuspends /\ seen \in 0..MaxSuspends
    /\ changes \in 0..MaxChanges
    /\ pc \in {"sleep", "query", "check"} \cup Polls
    /\ toDrain \subseteq {"power", "other"}
    /\ idle \in 0..Limit /\ quiet \in 0..Limit
    /\ sinceKick \in 0..KickS
    /\ cause \in {"none", "lid", "press", "idle"}

AtMost(n, cap) == IF n < cap THEN n ELSE cap

-----------------------------------------------------------------------------
(* The loop.                                                               *)

(* sleep and rescan_inputs.  Reopening the nodes loses what is queued.     *)
WakeUp ==
    /\ pc = "sleep"
    /\ pc' = "query"
    /\ \E late \in 0..1 : sinceKick' = AtMost(sinceKick + Poll + late, KickS)
    /\ quiet' = AtMost(quiet + 1, Limit)
    /\ IF nodesChanged
       THEN /\ pwrQ' = {}
            /\ otherQ' = FALSE
            /\ nodesChanged' = FALSE
            /\ folio' = (lidDev # "none")
       ELSE UNCHANGED <<pwrQ, otherQ, nodesChanged, folio>>
    /\ touched' = FALSE
    /\ UNCHANGED <<lidDev, pwrKey, suspends, changes, lid, prev, seen, drained,
                   cause, slipped, on, idle, pwrQuiet>>

(* lid_state *)
LidRead == IF folio THEN lidDev ELSE "none"

Query ==
    /\ pc = "query"
    /\ pc' = "check"
    /\ prev' = lid
    /\ lid' = LidRead
    /\ UNCHANGED <<outside, folio, seen, drained, history, on, idle, pwrQuiet,
                   sinceKick>>

(* poll_inputs begins.                                                     *)
StartPoll(branch) ==
    /\ pc' = branch
    /\ toDrain' = {"power", "other"}
    /\ activity' = FALSE
    /\ power' = {}

Branch ==
    IF lid = "closed" THEN "pollClosed"
    ELSE IF prev = "closed" THEN "pollOpened" ELSE "pollAwake"

(* Broken form: the suspend count is not looked at.                        *)
CheckNever ==
    /\ pc = "check"
    /\ StartPoll(Branch)
    /\ seen' = suspends
    /\ slipped' = FALSE
    /\ UNCHANGED <<outside, folio, lid, prev, cause, quiet, touched, on, idle,
                   pwrQuiet, sinceKick>>

(* resumed, and the branch the poll will take.                             *)
Check ==
    /\ pc = "check"
    /\ StartPoll(IF suspends # seen THEN "pollResumed" ELSE Branch)
    /\ seen' = suspends
    /\ slipped' = FALSE
    /\ UNCHANGED <<outside, folio, lid, prev, cause, quiet, touched, on, idle,
                   pwrQuiet, sinceKick>>

(* Broken form: the read does not take the bytes off the descriptor.       *)
DrainPeeking ==
    /\ pc \in Polls
    /\ \E d \in toDrain :
          /\ toDrain' = toDrain \ {d}
          /\ power' = IF d = "power" THEN pwrQ ELSE power
          /\ activity' = IF d = "other" THEN otherQ ELSE activity
    /\ quiet' = IF (power' # power /\ ~pwrQuiet) \/ activity' # activity THEN 0 ELSE quiet
    /\ touched' = (touched \/ activity' # activity)
    /\ UNCHANGED <<outside, found, cause, slipped, on, pc, idle, pwrQuiet, sinceKick>>

(* drain, one descriptor of poll_inputs.                                   *)
Drain ==
    /\ pc \in Polls
    /\ \E d \in toDrain :
          /\ toDrain' = toDrain \ {d}
          /\ power' = IF d = "power" THEN pwrQ ELSE power
          /\ pwrQ' = IF d = "power" THEN {} ELSE pwrQ
          /\ activity' = IF d = "other" THEN otherQ ELSE activity
          /\ otherQ' = (otherQ /\ d # "other")
    /\ quiet' = IF (power' # power /\ ~pwrQuiet) \/ activity' # activity THEN 0 ELSE quiet
    /\ touched' = (touched \/ activity' # activity)
    /\ UNCHANGED <<lidDev, pwrKey, nodesChanged, suspends, changes, found, cause,
                   slipped, on, pc, idle, pwrQuiet, sinceKick>>

PollDone(branch) ==
    /\ pc = branch
    /\ toDrain = {}
    /\ UNCHANGED <<outside, found, touched, slipped>>

EndPoll == pc' = "sleep" /\ UNCHANGED drained

Light ==
    /\ on' = TRUE
    /\ UNCHANGED cause

Blank(why) ==
    /\ on' = FALSE
    /\ cause' = IF on THEN why ELSE cause

Restarted == idle' = 0 /\ quiet' = 0

(* Broken form: the wake lights the console whatever the lid is.           *)
ResumedAlwaysLit ==
    /\ PollDone("pollResumed")
    /\ pwrQuiet' = TRUE
    /\ sinceKick' = 0
    /\ Light /\ Restarted /\ EndPoll

(* Broken form: the idle count runs on across the sleep.                   *)
ResumedKeepingIdle ==
    /\ PollDone("pollResumed")
    /\ pwrQuiet' = TRUE
    /\ sinceKick' = 0
    /\ IF lid # "closed"
       THEN Light /\ EndPoll /\ quiet' = 0 /\ UNCHANGED idle
       ELSE StartPoll("pollClosed") /\ UNCHANGED <<on, cause, idle, quiet>>

(* Back from suspend: what was queued is gone, foliod is asked at once; a  *)
(* closed lid falls through.                                               *)
Resumed ==
    /\ PollDone("pollResumed")
    /\ pwrQuiet' = TRUE
    /\ sinceKick' = 0
    /\ IF lid # "closed"
       THEN Light /\ Restarted /\ EndPoll
       ELSE StartPoll("pollClosed") /\ UNCHANGED <<on, cause, idle, quiet>>

(* Broken form: the power key is not forwarded.                            *)
KickForActivityOnly ==
    IF activity /\ sinceKick >= KickS THEN sinceKick' = 0 ELSE UNCHANGED sinceKick

(* kick_foliod for input under a closed lid.                               *)
KickForInput ==
    IF (activity \/ power # {}) /\ sinceKick >= KickS
    THEN sinceKick' = 0 ELSE UNCHANGED sinceKick

Closed ==
    /\ PollDone("pollClosed")
    /\ pwrQuiet' = FALSE
    /\ Blank("lid")
    /\ KickForInput
    /\ idle' = 0 /\ UNCHANGED quiet
    /\ EndPoll

Opened ==
    /\ PollDone("pollOpened")
    /\ pwrQuiet' = FALSE
    /\ Light /\ Restarted /\ EndPoll
    /\ UNCHANGED sinceKick

Toggle == IF on THEN Blank("press") ELSE Light

(* Broken form: activity restarts the count and lights nothing.            *)
AwakeCountOnly ==
    /\ PollDone("pollAwake")
    /\ pwrQuiet' = FALSE
    /\ IF power # {} /\ ~pwrQuiet THEN Toggle /\ Restarted
       ELSE IF activity THEN Restarted /\ UNCHANGED <<on, cause>>
       ELSE /\ idle' = AtMost(idle + 1, Limit)
            /\ IF idle' >= Limit THEN Blank("idle") ELSE UNCHANGED <<on, cause>>
            /\ UNCHANGED quiet
    /\ UNCHANGED sinceKick
    /\ EndPoll

(* The poll with the lid open, or without a lid: the power key toggles,    *)
(* anything else lights, nothing counts as idle time.                      *)
Awake ==
    /\ PollDone("pollAwake")
    /\ pwrQuiet' = FALSE
    /\ IF power # {} /\ ~pwrQuiet THEN Toggle /\ Restarted
       ELSE IF activity THEN Light /\ Restarted
       ELSE /\ idle' = AtMost(idle + 1, Limit)
            /\ IF idle' >= Limit THEN Blank("idle") ELSE UNCHANGED <<on, cause>>
            /\ UNCHANGED quiet
    /\ UNCHANGED sinceKick
    /\ EndPoll

Loop == WakeUp \/ Query \/ Check \/ Drain \/ Resumed \/ Closed \/ Opened \/ Awake

-----------------------------------------------------------------------------
(* The outside.                                                            *)

LoopFrame == UNCHANGED <<found, drained, on, pc, idle, pwrQuiet>>

Outside ==
    /\ changes < MaxChanges
    /\ changes' = changes + 1
    /\ LoopFrame

PowerKey ==
    /\ Outside
    /\ \/ /\ pwrKey = "up"
          /\ pwrKey' = "down"
          /\ pwrQ' = pwrQ \cup {"press"}
       \/ /\ pwrKey # "up"
          /\ pwrKey' = "up"
          /\ pwrQ' = pwrQ \cup {IF pwrKey = "wake" THEN "wakeRelease" ELSE "release"}
    /\ UNCHANGED <<lidDev, otherQ, nodesChanged, suspends, history, sinceKick>>

Touch ==
    /\ Outside
    /\ otherQ' = TRUE
    /\ UNCHANGED <<lidDev, pwrKey, pwrQ, nodesChanged, suspends, history, sinceKick>>

(* foliod publishes another lid, or starts or stops.                       *)
LidMoves ==
    /\ Outside
    /\ lidDev' \in LidState \ {lidDev}
    /\ nodesChanged' = (nodesChanged \/ lidDev = "none" \/ lidDev' = "none")
    /\ UNCHANGED <<pwrKey, pwrQ, otherQ, suspends, history, sinceKick>>

(* An input device comes or goes.                                          *)
NodesChange ==
    /\ Outside
    /\ nodesChanged' = TRUE
    /\ UNCHANGED <<lidDev, pwrKey, pwrQ, otherQ, suspends, history, sinceKick>>

(* The tablet sleeps, for any time, and is woken by the power key or not.  *)
Suspend ==
    /\ suspends < MaxSuspends
    /\ suspends' = suspends + 1
    /\ slipped' = (slipped \/ pc \in Polls)
    /\ sinceKick' \in {sinceKick, KickS}
    /\ \/ /\ pwrKey = "up"
          /\ pwrKey' = "wake"
          /\ pwrQ' = pwrQ \cup {"wakePress"}
       \/ UNCHANGED <<pwrKey, pwrQ>>
    /\ UNCHANGED <<lidDev, otherQ, nodesChanged, changes, cause, quiet, touched>>
    /\ LoopFrame

Fresh ==
    /\ pwrQ' = {} /\ otherQ' = FALSE /\ nodesChanged' = FALSE
    /\ folio' = (lidDev # "none") /\ lid' = "open" /\ prev' = "open"
    /\ seen' = suspends
    /\ toDrain' = {} /\ activity' = FALSE /\ power' = {}
    /\ on' = TRUE /\ pc' = "sleep" /\ idle' = 0
    /\ pwrQuiet' = FALSE /\ sinceKick' = KickS
    /\ cause' = "none" /\ quiet' = 0 /\ touched' = FALSE /\ slipped' = FALSE

(* systemctl restart: ExecStopPost lights the console, the loop starts     *)
(* afresh.                                                                 *)
Restart ==
    /\ changes < MaxChanges
    /\ changes' = changes + 1
    /\ Fresh
    /\ UNCHANGED <<lidDev, pwrKey, suspends>>

Init ==
    /\ lidDev \in LidState
    /\ pwrKey = "up" /\ suspends = 0 /\ changes = 0
    /\ pwrQ = {} /\ otherQ = FALSE /\ nodesChanged = FALSE
    /\ folio = (lidDev # "none") /\ lid = "open" /\ prev = "open" /\ seen = 0
    /\ toDrain = {} /\ activity = FALSE /\ power = {}
    /\ on \in BOOLEAN /\ pc = "sleep" /\ idle = 0
    /\ pwrQuiet = FALSE /\ sinceKick = KickS
    /\ cause = "none" /\ quiet = 0 /\ touched = FALSE /\ slipped = FALSE

Next == Loop \/ PowerKey \/ Touch \/ LidMoves \/ NodesChange \/ Suspend \/ Restart

Spec == Init /\ [][Next]_vars

(* The script goes on.                                                     *)
FairSpec == Spec /\ WF_vars(Loop)

-----------------------------------------------------------------------------
(* The console follows the lid (console-blank.sh:12-15).  A poll that read *)
(* it closed ends dark, whatever was pressed, and also when it is the first *)
(* one after a suspend; and a console darkened for the lid comes back with *)
(* it, however the lid came to be open, by foliod going away or across a   *)
(* suspend included.                                                       *)
ConsoleFollowsLid ==
    pc = "sleep" =>
        /\ lid = "closed" => ~on
        /\ ~on /\ cause = "lid" => lid = "closed"

(* Unless the lid is closed, input the script saw, with no power key in the *)
(* same poll, leaves the console lit (console-blank.sh:8-10), and so does  *)
(* the poll that follows a wake.                                           *)
InputLights ==
    pc = "sleep" => /\ touched /\ power = {} /\ lid # "closed" => on
                    /\ pwrQuiet => on

(* A poll that finds input under a closed lid, the power key included,     *)
(* ends with foliod asked less than KICK_S ago (console-blank.sh:17-19).   *)
InputUnderLidIsForwarded ==
    [][pc = "pollClosed" /\ pc' = "sleep" /\ (activity \/ power # {}) /\ lid' = lid =>
         sinceKick' < KickS]_vars

(* The console goes dark for idleness only after Limit whole polls since   *)
(* input was last drained or the console was last made to come back; the   *)
(* power key ignored after a resume does not count.                        *)
IdleIsEarned ==
    [][on /\ ~on' /\ cause' = "idle" => quiet >= Limit]_vars

(* The press that wakes the tablet never blanks the console, unless the    *)
(* suspend fell between the check for one and the drains of the same poll. *)
WakePressIsDiscarded ==
    [][on /\ ~on' /\ cause' = "press" /\ "wakePress" \in power => slipped]_vars

(* Burn-in protection: once the outside is quiet the console goes dark and *)
(* stays dark, lid or no lid.                                              *)
EventuallyDark == <>[]~on
=============================================================================
