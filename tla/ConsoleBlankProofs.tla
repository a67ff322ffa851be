-------------------------- MODULE ConsoleBlankProofs --------------------------
(***************************************************************************)
(* The console policy for any limits, any number of suspends and any       *)
(* number of changes of the outside.                                       *)
(***************************************************************************)
EXTENDS ConsoleBlank, TLAPS

(* What the branch of a poll says of the lid, and what is still to drain.  *)
Branches ==
    /\ pc = "pollClosed" => lid = "closed"
    /\ pc = "pollOpened" => lid # "closed"
    /\ pc = "pollAwake" => lid # "closed" /\ prev # "closed"
    /\ "other" \in toDrain => ~activity
    /\ "power" \in toDrain => power = {}

(* A console dark for the lid is on its way to a poll that knows it was    *)
(* closed before.                                                          *)
Dark ==
    /\ pc = "sleep" /\ lid = "closed" => ~on
    /\ ~on /\ cause = "lid" =>
          /\ pc \in {"sleep", "query"} => lid = "closed"
          /\ pc = "check" => prev = "closed"
          /\ pc # "pollAwake"

Lit ==
    /\ InputLights
    /\ pc \in {"query", "check"} => ~touched
    /\ pc \in {"pollOpened", "pollAwake"} /\ touched => activity

(* The idle count never runs ahead of the polls that were quiet.           *)
Earned ==
    /\ pc = "sleep" => idle <= quiet
    /\ pc \in {"query", "check"} => AtMost(idle + 1, Limit) <= quiet
    /\ pc = "pollAwake" => \/ AtMost(idle + 1, Limit) <= quiet
                           \/ activity \/ (power # {} /\ ~pwrQuiet)

(* A wake press that is queued has its suspend still to be noticed, or is  *)
(* about to be drained by the poll that noticed it.                        *)
Wakes ==
    /\ seen <= suspends
    /\ pc \in Polls /\ suspends # seen => slipped
    /\ "wakePress" \in pwrQ =>
          suspends # seen \/ (pc = "pollResumed" /\ "power" \in toDrain)
    /\ pc \in Polls /\ pc # "pollResumed" /\ "wakePress" \in power => slipped

IInv == TypeOK /\ Branches /\ Dark /\ Lit /\ Earned /\ Wakes

(* One poll up to its branch.                                              *)
LEMMA ReadsKeep ==
    ASSUME IInv,
           WakeUp \/ Query \/ Check \/ Drain
    PROVE  IInv'
<1>1. CASE WakeUp
  <2>1. Flags'
    BY <1>1 DEF IInv, TypeOK, Flags, WakeUp, AtMost, outside, found, drained,
           history
  <2>2. TypeOK'
    <3>1. PICK late \in 0..1 : sinceKick' = AtMost(sinceKick + Poll + late, KickS)
      BY <1>1 DEF WakeUp
    <3>2. sinceKick' \in 0..KickS
      BY <3>1, ConsoleAssumption DEF IInv, TypeOK, AtMost
    <3>3. quiet' \in 0..Limit
      BY <1>1, ConsoleAssumption DEF WakeUp, IInv, TypeOK, AtMost
    <3>4. pwrQ' \subseteq PowerBytes
      BY <1>1 DEF WakeUp, IInv, TypeOK
    <3>5. QED
      BY <1>1, <2>1, <3>2, <3>3, <3>4 DEF IInv, TypeOK, WakeUp, drained
  <2>3. Branches'
    BY <1>1 DEF IInv, TypeOK, Branches, Polls, WakeUp, AtMost, outside, found,
           drained, history
  <2>4. Dark'
    BY <1>1 DEF IInv, TypeOK, Branches, Dark, Polls, WakeUp, AtMost, outside,
           found, drained, history
  <2>5. Lit'
    BY <1>1 DEF IInv, TypeOK, Branches, Lit, InputLights, Polls, WakeUp,
           AtMost, outside, found, drained, history
  <2>6. Earned'
    BY <1>1, ConsoleAssumption DEF IInv, TypeOK, Branches, Earned, Polls,
           WakeUp, AtMost, outside, found, drained, history
  <2>7. Wakes'
    BY <1>1, ConsoleAssumption DEF IInv, TypeOK, Branches, Wakes, Polls,
           WakeUp, AtMost, outside, found, drained, history
  <2>8. QED
    BY <2>2, <2>3, <2>4, <2>5, <2>6, <2>7 DEF IInv
<1>2. CASE Query
  <2>1. Flags'
    BY <1>2 DEF IInv, TypeOK, Flags, Query, LidRead, outside, found, drained,
           history
  <2>2. TypeOK'
    BY <1>2, <2>1, ConsoleAssumption DEF IInv, TypeOK, LidState, PowerBytes,
           Polls, AtMost, Query, LidRead, outside, found, drained, history
  <2>3. Branches'
    BY <1>2 DEF IInv, TypeOK, Branches, Polls, Query, LidRead, outside, found,
           drained, history
  <2>4. Dark'
    BY <1>2 DEF IInv, TypeOK, Branches, Dark, Polls, Query, LidRead, outside,
           found, drained, history
  <2>5. Lit'
    BY <1>2 DEF IInv, TypeOK, Branches, Lit, InputLights, Polls, Query,
           LidRead, outside, found, drained, history
  <2>6. Earned'
    BY <1>2, ConsoleAssumption DEF IInv, TypeOK, Branches, Earned, Polls,
           AtMost, Query, LidRead, outside, found, drained, history
  <2>7. Wakes'
    BY <1>2, ConsoleAssumption DEF IInv, TypeOK, Branches, Wakes, Polls,
           Query, LidRead, outside, found, drained, history
  <2>8. QED
    BY <2>2, <2>3, <2>4, <2>5, <2>6, <2>7 DEF IInv
<1>3. CASE Check
  <2>1. Flags'
    BY <1>3 DEF IInv, TypeOK, Flags, Check, StartPoll, Branch, outside, found,
           drained, history
  <2>2. TypeOK'
    BY <1>3, <2>1, ConsoleAssumption DEF IInv, TypeOK, LidState, PowerBytes,
           Polls, AtMost, Check, StartPoll, Branch, outside, found, drained,
           history
  <2>3. Branches'
    BY <1>3 DEF IInv, TypeOK, Branches, Polls, Check, StartPoll, Branch,
           outside, found, drained, history
  <2>4. Dark'
    BY <1>3 DEF IInv, TypeOK, Branches, Dark, Polls, Check, StartPoll, Branch,
           outside, found, drained, history
  <2>5. Lit'
    BY <1>3 DEF IInv, TypeOK, Branches, Lit, InputLights, Polls, Check,
           StartPoll, Branch, outside, found, drained, history
  <2>6. Earned'
    BY <1>3, ConsoleAssumption DEF IInv, TypeOK, Branches, Earned, Polls,
           AtMost, Check, StartPoll, Branch, outside, found, drained, history
  <2>7. Wakes'
    BY <1>3, ConsoleAssumption DEF IInv, TypeOK, Branches, Wakes, Polls,
           Check, StartPoll, Branch, outside, found, drained, history
  <2>8. QED
    BY <2>2, <2>3, <2>4, <2>5, <2>6, <2>7 DEF IInv
<1>4. CASE Drain
  <2>1. Flags'
    BY <1>4 DEF IInv, TypeOK, Flags, Drain, outside, found, drained, history
  <2>2. TypeOK'
    <3>1. PICK d \in toDrain :
             /\ toDrain' = toDrain \ {d}
             /\ power' = IF d = "power" THEN pwrQ ELSE power
             /\ pwrQ' = IF d = "power" THEN {} ELSE pwrQ
      BY <1>4 DEF Drain
    <3>2. toDrain' \subseteq {"power", "other"}
      BY <3>1 DEF IInv, TypeOK
    <3>3. power' \subseteq PowerBytes /\ pwrQ' \subseteq PowerBytes
      BY <3>1 DEF IInv, TypeOK
    <3>4. quiet' \in 0..Limit
      BY <1>4, ConsoleAssumption DEF Drain, IInv, TypeOK
    <3>5. QED
      BY <1>4, <2>1, <3>2, <3>3, <3>4 DEF IInv, TypeOK, Drain, found
  <2>3. Branches'
    BY <1>4 DEF IInv, TypeOK, Branches, Polls, Drain, outside, found, drained,
           history
  <2>4. Dark'
    BY <1>4 DEF IInv, TypeOK, Branches, Dark, Polls, Drain, outside, found,
           drained, history
  <2>5. Lit'
    <3>1. touched' => touched \/ activity' # activity
      BY <1>4 DEF Drain
    <3>2. activity => activity'
      BY <1>4 DEF Drain, IInv, Branches
    <3>3. activity' # activity => activity'
      BY <3>2, Zenon, <2>1 DEF IInv, TypeOK, Flags
    <3>4. QED
      BY <1>4, <3>1, <3>2, <3>3 DEF IInv, Lit, InputLights, Drain, Polls, found
  <2>6. Earned'
    <3>1. activity => activity'
      BY <1>4 DEF Drain, IInv, Branches
    <3>2. activity' # activity => activity'
      BY <3>1, Zenon, <2>1 DEF IInv, TypeOK, Flags
    <3>3. power # {} => power' = power
      BY <1>4 DEF Drain, IInv, Branches
    <3>4. power' # power => power' # {}
      BY <3>3
    <3>5. CASE pc = "pollAwake" /\ quiet' = quiet
      BY <1>4, <3>1, <3>3, <3>5 DEF IInv, Earned, Drain
    <3>6. CASE pc = "pollAwake" /\ quiet' # quiet
      <4>1. activity' \/ (power' # {} /\ ~pwrQuiet)
        BY <1>4, <3>2, <3>4, <3>6 DEF Drain
      <4>2. QED
        BY <1>4, <3>6, <4>1 DEF Earned, Drain
    <3>7. CASE pc # "pollAwake"
      BY <1>4, <3>7 DEF Earned, Drain, Polls
    <3>8. QED
      BY <3>5, <3>6, <3>7
  <2>7. Wakes'
    BY <1>4, ConsoleAssumption DEF IInv, TypeOK, Branches, Wakes, Polls,
           Drain, outside, found, drained, history
  <2>8. QED
    BY <2>2, <2>3, <2>4, <2>5, <2>6, <2>7 DEF IInv
<1>5. QED
  BY <1>1, <1>2, <1>3, <1>4

(* The end of a poll.                                                      *)
LEMMA EndsKeep ==
    ASSUME IInv,
           Resumed \/ Closed \/ Opened \/ Awake
    PROVE  IInv'
<1>1. CASE Resumed
  <2>1. Flags'
    BY <1>1 DEF IInv, TypeOK, Flags, Resumed, PollDone, Light, Restarted,
           EndPoll, StartPoll, outside, found, drained, history
  <2>2. TypeOK'
    <3>1. CASE lid # "closed"
      BY <1>1, <2>1, <3>1, ConsoleAssumption
         DEF IInv, TypeOK, Resumed, PollDone, Light, Restarted, EndPoll, outside,
             found, drained
    <3>2. CASE lid = "closed"
      BY <1>1, <2>1, <3>2, ConsoleAssumption
         DEF IInv, TypeOK, Polls, Resumed, PollDone, StartPoll, outside, found
    <3>3. QED
      BY <3>1, <3>2
  <2>3. Branches'
    BY <1>1 DEF IInv, TypeOK, Branches, Polls, Resumed, PollDone, Light,
           Restarted, EndPoll, StartPoll, outside, found, drained, history
  <2>4. Dark'
    BY <1>1 DEF IInv, TypeOK, Branches, Dark, Polls, Resumed, PollDone, Light,
           Restarted, EndPoll, StartPoll, outside, found, drained, history
  <2>5. Lit'
    BY <1>1 DEF IInv, TypeOK, Branches, Lit, InputLights, Polls, Resumed,
           PollDone, Light, Restarted, EndPoll, StartPoll, outside, found,
           drained, history
  <2>6. Earned'
    BY <1>1, ConsoleAssumption DEF IInv, TypeOK, Branches, Earned, Polls,
           AtMost, Resumed, PollDone, Light, Restarted, EndPoll, StartPoll,
           outside, found, drained, history
  <2>7. Wakes'
    BY <1>1, ConsoleAssumption DEF IInv, TypeOK, Branches, Wakes, Polls,
           Resumed, PollDone, Light, Restarted, EndPoll, StartPoll, outside,
           found, drained, history
  <2>8. QED
    BY <2>2, <2>3, <2>4, <2>5, <2>6, <2>7 DEF IInv
<1>2. CASE Closed
  <2>1. Flags'
    BY <1>2 DEF IInv, TypeOK, Flags, Closed, PollDone, Blank, KickForInput,
           EndPoll, outside, found, drained, history
  <2>2. TypeOK'
    BY <1>2, <2>1, ConsoleAssumption DEF IInv, TypeOK, LidState, PowerBytes,
           Polls, AtMost, Closed, PollDone, Blank, KickForInput, EndPoll,
           outside, found, drained, history
  <2>3. Branches'
    BY <1>2 DEF IInv, TypeOK, Branches, Polls, Closed, PollDone, Blank,
           KickForInput, EndPoll, outside, found, drained, history
  <2>4. Dark'
    BY <1>2 DEF IInv, TypeOK, Branches, Dark, Polls, Closed, PollDone, Blank,
           KickForInput, EndPoll, outside, found, drained, history
  <2>5. Lit'
    BY <1>2 DEF IInv, TypeOK, Branches, Lit, InputLights, Polls, Closed,
           PollDone, Blank, KickForInput, EndPoll, outside, found, drained,
           history
  <2>6. Earned'
    BY <1>2, ConsoleAssumption DEF IInv, TypeOK, Branches, Earned, Polls,
           AtMost, Closed, PollDone, Blank, KickForInput, EndPoll, outside,
           found, drained, history
  <2>7. Wakes'
    BY <1>2, ConsoleAssumption DEF IInv, TypeOK, Branches, Wakes, Polls,
           Closed, PollDone, Blank, KickForInput, EndPoll, outside, found,
           drained, history
  <2>8. QED
    BY <2>2, <2>3, <2>4, <2>5, <2>6, <2>7 DEF IInv
<1>3. CASE Opened
  <2>1. Flags'
    BY <1>3 DEF IInv, TypeOK, Flags, Opened, PollDone, Light, Restarted,
           EndPoll, outside, found, drained, history
  <2>2. TypeOK'
    BY <1>3, <2>1, ConsoleAssumption DEF IInv, TypeOK, LidState, PowerBytes,
           Polls, AtMost, Opened, PollDone, Light, Restarted, EndPoll,
           outside, found, drained, history
  <2>3. Branches'
    BY <1>3 DEF IInv, TypeOK, Branches, Polls, Opened, PollDone, Light,
           Restarted, EndPoll, outside, found, drained, history
  <2>4. Dark'
    BY <1>3 DEF IInv, TypeOK, Branches, Dark, Polls, Opened, PollDone, Light,
           Restarted, EndPoll, outside, found, drained, history
  <2>5. Lit'
    BY <1>3 DEF IInv, TypeOK, Branches, Lit, InputLights, Polls, Opened,
           PollDone, Light, Restarted, EndPoll, outside, found, drained,
           history
  <2>6. Earned'
    BY <1>3, ConsoleAssumption DEF IInv, TypeOK, Branches, Earned, Polls,
           AtMost, Opened, PollDone, Light, Restarted, EndPoll, outside,
           found, drained, history
  <2>7. Wakes'
    BY <1>3, ConsoleAssumption DEF IInv, TypeOK, Branches, Wakes, Polls,
           Opened, PollDone, Light, Restarted, EndPoll, outside, found,
           drained, history
  <2>8. QED
    BY <2>2, <2>3, <2>4, <2>5, <2>6, <2>7 DEF IInv
<1>4. CASE Awake
  <2>1. Flags'
    BY <1>4 DEF IInv, TypeOK, Flags, Awake, PollDone, Toggle, Blank, Light,
           Restarted, AtMost, EndPoll, outside, found, drained, history
  <2>2. TypeOK'
    BY <1>4, <2>1, ConsoleAssumption DEF IInv, TypeOK, LidState, PowerBytes,
           Polls, Awake, PollDone, Toggle, Blank, Light, Restarted, AtMost,
           EndPoll, outside, found, drained, history
  <2>3. Branches'
    BY <1>4 DEF IInv, TypeOK, Branches, Polls, Awake, PollDone, Toggle, Blank,
           Light, Restarted, AtMost, EndPoll, outside, found, drained, history
  <2>4. Dark'
    BY <1>4 DEF IInv, TypeOK, Branches, Dark, Polls, Awake, PollDone, Toggle,
           Blank, Light, Restarted, AtMost, EndPoll, outside, found, drained,
           history
  <2>5. Lit'
    BY <1>4 DEF IInv, TypeOK, Branches, Lit, InputLights, Polls, Awake,
           PollDone, Toggle, Blank, Light, Restarted, AtMost, EndPoll,
           outside, found, drained, history
  <2>6. Earned'
    BY <1>4, ConsoleAssumption DEF IInv, TypeOK, Branches, Earned, Polls,
           Awake, PollDone, Toggle, Blank, Light, Restarted, AtMost, EndPoll,
           outside, found, drained, history
  <2>7. Wakes'
    BY <1>4, ConsoleAssumption DEF IInv, TypeOK, Branches, Wakes, Polls,
           Awake, PollDone, Toggle, Blank, Light, Restarted, AtMost, EndPoll,
           outside, found, drained, history
  <2>8. QED
    BY <2>2, <2>3, <2>4, <2>5, <2>6, <2>7 DEF IInv
<1>5. QED
  BY <1>1, <1>2, <1>3, <1>4

(* The outside.                                                            *)
LEMMA OutsideKeep ==
    ASSUME IInv,
           PowerKey \/ Touch \/ LidMoves \/ NodesChange \/ Suspend \/ Restart
    PROVE  IInv'
<1>1. CASE PowerKey
  <2>1. Flags'
    BY <1>1 DEF IInv, TypeOK, Flags, PowerKey, Outside, LoopFrame, outside,
           found, drained, history
  <2>2. TypeOK'
    <3>1. pwrQ' \subseteq PowerBytes
      BY <1>1 DEF PowerKey, IInv, TypeOK, PowerBytes
    <3>2. QED
      BY <1>1, <2>1, <3>1, ConsoleAssumption
         DEF IInv, TypeOK, PowerKey, Outside, LoopFrame, found, drained, history
  <2>3. Branches'
    BY <1>1 DEF IInv, TypeOK, Branches, Polls, PowerKey, Outside, LoopFrame,
           outside, found, drained, history
  <2>4. Dark'
    BY <1>1 DEF IInv, TypeOK, Branches, Dark, Polls, PowerKey, Outside,
           LoopFrame, outside, found, drained, history
  <2>5. Lit'
    BY <1>1 DEF IInv, TypeOK, Branches, Lit, InputLights, Polls, PowerKey,
           Outside, LoopFrame, outside, found, drained, history
  <2>6. Earned'
    BY <1>1, ConsoleAssumption DEF IInv, TypeOK, Branches, Earned, Polls,
           AtMost, PowerKey, Outside, LoopFrame, outside, found, drained,
           history
  <2>7. Wakes'
    BY <1>1, ConsoleAssumption DEF IInv, TypeOK, Branches, Wakes, Polls,
           PowerKey, Outside, LoopFrame, outside, found, drained, history
  <2>8. QED
    BY <2>2, <2>3, <2>4, <2>5, <2>6, <2>7 DEF IInv
<1>2. CASE Touch
  <2>1. Flags'
    BY <1>2 DEF IInv, TypeOK, Flags, Touch, Outside, LoopFrame, outside,
           found, drained, history
  <2>2. TypeOK'
    BY <1>2, <2>1, ConsoleAssumption DEF IInv, TypeOK, LidState, PowerBytes,
           Polls, AtMost, Touch, Outside, LoopFrame, outside, found, drained,
           history
  <2>3. Branches'
    BY <1>2 DEF IInv, TypeOK, Branches, Polls, Touch, Outside, LoopFrame,
           outside, found, drained, history
  <2>4. Dark'
    BY <1>2 DEF IInv, TypeOK, Branches, Dark, Polls, Touch, Outside,
           LoopFrame, outside, found, drained, history
  <2>5. Lit'
    BY <1>2 DEF IInv, TypeOK, Branches, Lit, InputLights, Polls, Touch,
           Outside, LoopFrame, outside, found, drained, history
  <2>6. Earned'
    BY <1>2, ConsoleAssumption DEF IInv, TypeOK, Branches, Earned, Polls,
           AtMost, Touch, Outside, LoopFrame, outside, found, drained, history
  <2>7. Wakes'
    BY <1>2, ConsoleAssumption DEF IInv, TypeOK, Branches, Wakes, Polls,
           Touch, Outside, LoopFrame, outside, found, drained, history
  <2>8. QED
    BY <2>2, <2>3, <2>4, <2>5, <2>6, <2>7 DEF IInv
<1>3. CASE LidMoves
  <2>1. Flags'
    BY <1>3 DEF IInv, TypeOK, Flags, LidMoves, Outside, LoopFrame, outside,
           found, drained, history
  <2>2. TypeOK'
    BY <1>3, <2>1, ConsoleAssumption DEF IInv, TypeOK, LidState, PowerBytes,
           Polls, AtMost, LidMoves, Outside, LoopFrame, outside, found,
           drained, history
  <2>3. Branches'
    BY <1>3 DEF IInv, TypeOK, Branches, Polls, LidMoves, Outside, LoopFrame,
           outside, found, drained, history
  <2>4. Dark'
    BY <1>3 DEF IInv, TypeOK, Branches, Dark, Polls, LidMoves, Outside,
           LoopFrame, outside, found, drained, history
  <2>5. Lit'
    BY <1>3 DEF IInv, TypeOK, Branches, Lit, InputLights, Polls, LidMoves,
           Outside, LoopFrame, outside, found, drained, history
  <2>6. Earned'
    BY <1>3, ConsoleAssumption DEF IInv, TypeOK, Branches, Earned, Polls,
           AtMost, LidMoves, Outside, LoopFrame, outside, found, drained,
           history
  <2>7. Wakes'
    BY <1>3, ConsoleAssumption DEF IInv, TypeOK, Branches, Wakes, Polls,
           LidMoves, Outside, LoopFrame, outside, found, drained, history
  <2>8. QED
    BY <2>2, <2>3, <2>4, <2>5, <2>6, <2>7 DEF IInv
<1>4. CASE NodesChange
  <2>1. Flags'
    BY <1>4 DEF IInv, TypeOK, Flags, NodesChange, Outside, LoopFrame, outside,
           found, drained, history
  <2>2. TypeOK'
    BY <1>4, <2>1, ConsoleAssumption DEF IInv, TypeOK, LidState, PowerBytes,
           Polls, AtMost, NodesChange, Outside, LoopFrame, outside, found,
           drained, history
  <2>3. Branches'
    BY <1>4 DEF IInv, TypeOK, Branches, Polls, NodesChange, Outside,
           LoopFrame, outside, found, drained, history
  <2>4. Dark'
    BY <1>4 DEF IInv, TypeOK, Branches, Dark, Polls, NodesChange, Outside,
           LoopFrame, outside, found, drained, history
  <2>5. Lit'
    BY <1>4 DEF IInv, TypeOK, Branches, Lit, InputLights, Polls, NodesChange,
           Outside, LoopFrame, outside, found, drained, history
  <2>6. Earned'
    BY <1>4, ConsoleAssumption DEF IInv, TypeOK, Branches, Earned, Polls,
           AtMost, NodesChange, Outside, LoopFrame, outside, found, drained,
           history
  <2>7. Wakes'
    BY <1>4, ConsoleAssumption DEF IInv, TypeOK, Branches, Wakes, Polls,
           NodesChange, Outside, LoopFrame, outside, found, drained, history
  <2>8. QED
    BY <2>2, <2>3, <2>4, <2>5, <2>6, <2>7 DEF IInv
<1>5. CASE Suspend
  <2>1. Flags'
    BY <1>5 DEF IInv, TypeOK, Flags, Suspend, LoopFrame, outside, found,
           drained, history
  <2>2. TypeOK'
    <3>1. pwrQ' \subseteq PowerBytes
      BY <1>5 DEF Suspend, IInv, TypeOK, PowerBytes
    <3>2. sinceKick' \in 0..KickS
      BY <1>5, ConsoleAssumption DEF Suspend, IInv, TypeOK
    <3>3. QED
      BY <1>5, <2>1, <3>1, <3>2, ConsoleAssumption
         DEF IInv, TypeOK, Suspend, LoopFrame, found, drained
  <2>3. Branches'
    BY <1>5 DEF IInv, TypeOK, Branches, Polls, Suspend, LoopFrame, outside,
           found, drained, history
  <2>4. Dark'
    BY <1>5 DEF IInv, TypeOK, Branches, Dark, Polls, Suspend, LoopFrame,
           outside, found, drained, history
  <2>5. Lit'
    BY <1>5 DEF IInv, TypeOK, Branches, Lit, InputLights, Polls, Suspend,
           LoopFrame, outside, found, drained, history
  <2>6. Earned'
    BY <1>5, ConsoleAssumption DEF IInv, TypeOK, Branches, Earned, Polls,
           AtMost, Suspend, LoopFrame, outside, found, drained, history
  <2>7. Wakes'
    <3>1. seen' < suspends'
      BY <1>5, ConsoleAssumption DEF IInv, TypeOK, Wakes, Suspend, LoopFrame, found
    <3>2. pc' \in Polls => slipped'
      BY <1>5 DEF Suspend, LoopFrame
    <3>3. seen' # suspends' /\ seen' <= suspends'
      BY <1>5, <3>1 DEF IInv, TypeOK, Suspend, LoopFrame, found
    <3>4. QED
      BY <3>2, <3>3 DEF Wakes
  <2>8. QED
    BY <2>2, <2>3, <2>4, <2>5, <2>6, <2>7 DEF IInv
<1>6. CASE Restart
  <2>1. Flags'
    BY <1>6 DEF IInv, TypeOK, Flags, Restart, Fresh, outside, found, drained,
           history
  <2>2. TypeOK'
    BY <1>6, <2>1, ConsoleAssumption DEF IInv, TypeOK, LidState, PowerBytes,
           Polls, AtMost, Restart, Fresh, outside, found, drained, history
  <2>3. Branches'
    BY <1>6 DEF IInv, TypeOK, Branches, Polls, Restart, Fresh, outside, found,
           drained, history
  <2>4. Dark'
    BY <1>6 DEF IInv, TypeOK, Branches, Dark, Polls, Restart, Fresh, outside,
           found, drained, history
  <2>5. Lit'
    BY <1>6 DEF IInv, TypeOK, Branches, Lit, InputLights, Polls, Restart,
           Fresh, outside, found, drained, history
  <2>6. Earned'
    BY <1>6, ConsoleAssumption DEF IInv, TypeOK, Branches, Earned, Polls,
           AtMost, Restart, Fresh, outside, found, drained, history
  <2>7. Wakes'
    BY <1>6, ConsoleAssumption DEF IInv, TypeOK, Branches, Wakes, Polls,
           Restart, Fresh, outside, found, drained, history
  <2>8. QED
    BY <2>2, <2>3, <2>4, <2>5, <2>6, <2>7 DEF IInv
<1>7. QED
  BY <1>1, <1>2, <1>3, <1>4, <1>5, <1>6

LEMMA InitIInv == Init => IInv
<1>1. SUFFICES ASSUME Init PROVE IInv
  OBVIOUS
<1>2. Flags
  BY <1>1 DEF Init, Flags
<1>3. TypeOK
  BY <1>1, <1>2, ConsoleAssumption DEF Init, TypeOK, LidState, PowerBytes
<1>4. Branches /\ Dark /\ Lit
  BY <1>1 DEF Init, Branches, Dark, Lit, InputLights
<1>5. Earned /\ Wakes
  BY <1>1 DEF Init, Earned, Wakes, Polls
<1>6. QED
  BY <1>3, <1>4, <1>5 DEF IInv

LEMMA StepKeeps == IInv /\ [Next]_vars => IInv'
<1>1. SUFFICES ASSUME IInv, [Next]_vars PROVE IInv'
  OBVIOUS
<1>2. CASE Next
  BY <1>1, <1>2, ReadsKeep, EndsKeep, OutsideKeep DEF Next, Loop
<1>3. CASE UNCHANGED vars
  <2>1. TypeOK'
    BY <1>1, <1>3 DEF IInv, TypeOK, Flags, vars, outside, found, drained, history
  <2>2. Branches' /\ Dark' /\ Lit'
    BY <1>1, <1>3 DEF IInv, Branches, Dark, Lit, InputLights, vars, outside, found,
                      drained, history
  <2>3. Earned' /\ Wakes'
    BY <1>1, <1>3 DEF IInv, Earned, Wakes, vars, outside, found, drained, history
  <2>4. QED
    BY <2>1, <2>2, <2>3 DEF IInv
<1>4. QED
  BY <1>1, <1>2, <1>3

LEMMA AlwaysIInv == Spec => []IInv
BY InitIInv, StepKeeps, PTL DEF Spec

(* Every variable of the script has its type.                              *)
THEOREM TypeCorrect == Spec => []TypeOK
<1>1. IInv => TypeOK
  BY DEF IInv
<1>2. QED
  BY AlwaysIInv, <1>1, PTL

(* A lid that was read closed leaves the console dark, and a console that  *)
(* is dark for the lid comes back with it.                                 *)
THEOREM LidDecides == Spec => []ConsoleFollowsLid
<1>1. IInv => ConsoleFollowsLid
  BY DEF IInv, Dark, ConsoleFollowsLid
<1>2. QED
  BY AlwaysIInv, <1>1, PTL

(* Input that was read, and a wake, leave the console lit.                 *)
THEOREM InputIsSeen == Spec => []InputLights
<1>1. IInv => InputLights
  BY DEF IInv, Lit
<1>2. QED
  BY AlwaysIInv, <1>1, PTL

(* Only the poll that ends dark for idleness, the lid or the power key     *)
(* turns a lit console off.                                                *)
LEMMA WhoBlanks ==
    ASSUME IInv, Next, on, ~on'
    PROVE  \/ Closed /\ cause' = "lid"
           \/ Awake /\ cause' \in {"press", "idle"}
<1>1. CASE Loop
  BY <1>1 DEF Loop, WakeUp, Query, Check, Drain, Resumed, Closed, Opened, Awake,
         Toggle, Light, Blank
<1>2. CASE ~Loop
  BY <1>2 DEF Next, PowerKey, Touch, LidMoves, NodesChange, Suspend, Restart,
         Outside, LoopFrame, Fresh
<1>3. QED
  BY <1>1, <1>2

(* The console goes dark for idleness only after Limit quiet polls.        *)
THEOREM IdleTimeIsReal == Spec => IdleIsEarned
<1>1. ASSUME IInv, [Next]_vars, on, ~on', cause' = "idle" PROVE quiet >= Limit
  <2>1. Next
    BY <1>1 DEF vars
  <2>2. Awake
    BY <1>1, <2>1, WhoBlanks
  <2>3. ~activity /\ ~(power # {} /\ ~pwrQuiet) /\ AtMost(idle + 1, Limit) >= Limit
    BY <1>1, <2>2 DEF Awake, Toggle, Blank, Light
  <2>4. QED
    BY <1>1, <2>2, <2>3, ConsoleAssumption
       DEF IInv, TypeOK, Earned, Awake, PollDone, AtMost
<1>2. QED
  BY AlwaysIInv, <1>1, PTL DEF Spec, IdleIsEarned

(* The wake press blanks only behind a suspend that slipped past the check *)
(* of the same poll.                                                       *)
THEOREM WakePressIsHarmless == Spec => WakePressIsDiscarded
<1>1. ASSUME IInv, [Next]_vars, on, ~on', cause' = "press", "wakePress" \in power
      PROVE  slipped
  <2>1. Next
    BY <1>1 DEF vars
  <2>2. pc = "pollAwake"
    BY <1>1, <2>1, WhoBlanks DEF Awake, PollDone
  <2>3. QED
    BY <1>1, <2>2 DEF IInv, Wakes, Polls
<1>2. QED
  BY AlwaysIInv, <1>1, PTL DEF Spec, WakePressIsDiscarded

(* Input under a closed lid is forwarded by the poll that found it or was  *)
(* less than KICK_S before.                                                *)
THEOREM InputIsForwarded == Spec => InputUnderLidIsForwarded
<1>1. ASSUME IInv, [Next]_vars, pc = "pollClosed", pc' = "sleep",
             activity \/ power # {}, lid' = lid
      PROVE  sinceKick' < KickS
  <2>1. Next
    BY <1>1 DEF vars
  <2>2. CASE Closed
    BY <1>1, <2>2, ConsoleAssumption DEF Closed, KickForInput, IInv, TypeOK
  <2>3. CASE Restart
    BY <1>1, <2>3 DEF Restart, Fresh, IInv, Branches
  <2>4. CASE ~Closed /\ ~Restart
    BY <1>1, <2>1, <2>4
       DEF Next, Loop, WakeUp, Query, Check, Drain, Resumed, Opened, Awake, PollDone,
           PowerKey, Touch, LidMoves, NodesChange, Suspend, Outside, LoopFrame
  <2>5. QED
    BY <2>2, <2>3, <2>4
<1>2. QED
  BY AlwaysIInv, <1>1, PTL DEF Spec, InputUnderLidIsForwarded
=============================================================================
