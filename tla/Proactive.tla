------------------------------ MODULE Proactive ------------------------------
(***************************************************************************)
(* Proactive messages (scheduler/service.py, store.py, poisson.py) sent by *)
(* the OneBot sender.  One tick at a time takes the candidate that is due, *)
(* lets the model compose a message, checks again whether it may be sent   *)
(* and sends it in a thread; then it draws the next candidate.  Meanwhile  *)
(* the owner chats, pauses, resumes and changes the configuration, the     *)
(* service shuts down or crashes.                                          *)
(*                                                                         *)
(* Time is a coarse clock.  A message is named by the candidate it was     *)
(* composed for (its slot, the number of candidates drawn so far) and by   *)
(* the process that composed it (its life).                                *)
(***************************************************************************)
EXTENDS OneBotSender, FiniteSets

CONSTANTS
    Horizon,       \* bound: the clock stops here
    Day,           \* clock units per day
    Config,        \* the configurations the owner may choose
    PauseEnd,      \* the ends of a pause the owner may choose
    MaxSlots,      \* bound: the candidates drawn within the horizon
    MaxLives,      \* bound: process starts
    MaxSends,      \* max_attempts of _send_with_retries
    poster,        \* the thread of asyncio.to_thread
    Unset          \* no time and no message: None in the code

(* A candidate that lies beyond the bounds of the model; a pause with no end. *)
Later == Horizon + 1
Forever == Horizon + 1

ASSUME ProactiveAssumption ==
    /\ Horizon \in Nat /\ Day \in Nat \ {0}
    /\ {MaxSlots, MaxLives, MaxSends} \subseteq Nat \ {0}
    /\ Config \subseteq [enabled : BOOLEAN, quietStart : 0..(Day - 1), quietEnd : 0..(Day - 1),
                         suppress : Nat, grace : Nat]
    /\ Config # {}
    /\ PauseEnd \subseteq 0..Forever
    /\ Message = (0..MaxSlots) \X (1..MaxLives)
    /\ Thread = {poster}
    /\ Unset \notin Nat

VARIABLES
    now,         \* the local time
    config,      \* the configuration in the state row
    paused,      \* unset, or the time the pause ends
    activity,    \* last_activity_at
    candidate,   \* next_candidate_at
    lastSent,    \* the message mark_sent recorded last
    slot,        \* history: how many candidates were drawn
    tick,        \* the tick in progress
    owner,       \* whether an owner is configured (qq_owner_ids)
    stage, life     \* the process: its phase and number

row == <<config, paused, activity, candidate, lastSent, slot>>
proactiveVars == <<now, config, paused, activity, candidate, lastSent, slot, tick, owner, stage, life,
          job, inbox>>

NoTick == [pc |-> "idle"]

TickPc == {"composing", "sending", "pausing", "marked"}

ProactiveTypeOK ==
    /\ now \in 0..Horizon
    /\ config \in Config
    /\ paused \in {Unset} \cup 0..Forever
    /\ activity \in {Unset} \cup 0..Horizon
    /\ candidate \in {Unset} \cup 0..Later
    /\ lastSent \in {Unset} \cup Message
    /\ slot \in 0..MaxSlots
    /\ tick = NoTick \/ tick \in [pc : TickPc, local : 0..Horizon, candidate : 0..Horizon,
                                  activity : {Unset} \cup 0..Horizon, attempt : 1..MaxSends]
    /\ owner \in BOOLEAN
    /\ stage \in {"up", "stopping", "down"}
    /\ life \in 1..MaxLives
    /\ SenderTypeOK
-----------------------------------------------------------------------------
(* Quiet hours may wrap around midnight; equal ends mean there are none. *)
InQuiet(t, c) ==
    LET d == t % Day
    IN  CASE c.quietStart < c.quietEnd -> c.quietStart <= d /\ d < c.quietEnd
          [] c.quietStart > c.quietEnd -> c.quietStart <= d \/ d < c.quietEnd
          [] OTHER                     -> FALSE

(* The end of the suppression after the last activity. *)
SuppressedUntil(c) == IF activity = Unset THEN 0 ELSE activity + c.suppress

(* next_candidate: some time from t on, after the suppression and outside  *)
(* the quiet hours.  (256 draws that all fall into quiet hours would end   *)
(* the search inside them; this is left out.)                              *)
CandidatesFrom(t) ==
    IF slot = MaxSlots THEN {Later}
    ELSE {Later} \cup {c \in t..Horizon : /\ SuppressedUntil(config) <= c
                                          /\ ~InQuiet(c, config)}

(* Fault: may draw a candidate before the first day began. *)
FaultScheduleNext(t) ==
    /\ candidate' = t - 1
    /\ slot' = IF slot = MaxSlots THEN slot ELSE slot + 1

(* _schedule_next *)
ScheduleNext(t) ==
    /\ candidate' \in CandidatesFrom(t)
    /\ slot' = IF slot = MaxSlots THEN slot ELSE slot + 1

(* _current_status: a pause that is over is lifted on the way. *)
PausedNow == IF paused # Unset /\ paused <= now THEN Unset ELSE paused

(* _eligibility *)
SwitchedOff == ~config.enabled \/ PausedNow # Unset
Disturbing == InQuiet(now, config) \/ now < SuppressedUntil(config)

Expired(c) == now > c + config.grace

ThisMessage == <<slot, life>>
-----------------------------------------------------------------------------
ProactiveInit ==
    /\ now = 0
    /\ config \in Config
    /\ paused = Unset /\ activity = Unset /\ candidate = Unset /\ lastSent = Unset
    /\ slot = 0
    /\ tick = NoTick
    /\ owner \in BOOLEAN
    /\ stage = "up" /\ life = 1
    /\ SenderInit

(* No synchronous section of the event loop is in progress. *)
LoopIsFree == tick.pc # "marked"

(* tick, up to the first await: nothing is due, the candidate is drawn for *)
(* the first time or again, or a message is composed.                      *)
TickStarts ==
    /\ stage = "up" /\ tick = NoTick
    /\ paused' = PausedNow
    /\ \/ /\ SwitchedOff \/ (candidate # Unset /\ now < candidate)
          /\ UNCHANGED <<candidate, slot, tick>>
       \/ /\ ~SwitchedOff
          /\ \/ candidate = Unset
             \/ /\ candidate # Unset /\ candidate <= now
                /\ Expired(candidate) \/ Disturbing
          /\ ScheduleNext(now)
          /\ UNCHANGED tick
       \/ /\ ~SwitchedOff /\ candidate # Unset /\ candidate <= now
          /\ ~Expired(candidate) /\ ~Disturbing
          /\ tick' = [pc |-> "composing", local |-> now, candidate |-> candidate,
                      activity |-> activity, attempt |-> 1]
          /\ UNCHANGED <<candidate, slot>>
    /\ UNCHANGED <<now, config, activity, lastSent, owner, stage, life, senderVars>>

(* Fault: leaves the candidate as it is. *)
FaultComposeFails ==
    /\ stage # "down" /\ tick.pc = "composing"
    /\ tick' = NoTick
    /\ UNCHANGED <<now, row, owner, stage, life, senderVars>>

(* The model fails or has nothing to say. *)
ComposeFails ==
    /\ stage # "down" /\ tick.pc = "composing"
    /\ ScheduleNext(tick.local)
    /\ tick' = NoTick
    /\ UNCHANGED <<now, config, paused, activity, lastSent, owner, stage, life, senderVars>>

(* Fault: does not compare the activity with that of the start. *)
FaultOutdated == Disturbing \/ Expired(tick.candidate)

(* check_delivery *)
Outdated == \/ Disturbing
            \/ activity # tick.activity
            \/ Expired(tick.candidate)

MayDeliver == ~SwitchedOff /\ ~Outdated /\ candidate = tick.candidate

CheckPoint == stage # "down" /\ tick.pc \in {"composing", "pausing"}

(* The check before an attempt stops the delivery.  A message that is too  *)
(* late is dropped and the next candidate drawn; while the service is      *)
(* paused or switched off the candidate is left as it is.                  *)
DropMessage ==
    /\ CheckPoint /\ ~MayDeliver
    /\ IF ~SwitchedOff /\ Outdated THEN ScheduleNext(now) ELSE UNCHANGED <<candidate, slot>>
    /\ paused' = PausedNow
    /\ tick' = NoTick
    /\ UNCHANGED <<now, config, activity, lastSent, owner, stage, life, senderVars>>

(* The check passes and the thread is started. *)
SendMessage ==
    /\ CheckPoint /\ MayDeliver
    /\ paused' = PausedNow
    /\ tick' = [tick EXCEPT !.pc = "sending"]
    /\ IF owner THEN BeginSend(poster, ThisMessage)
       ELSE /\ job' = [job EXCEPT ![poster] = Ended(ThisMessage, "nothing")]
            /\ UNCHANGED inbox
    /\ UNCHANGED <<now, config, activity, candidate, lastSent, slot, owner, stage, life>>

Posts == /\ stage # "down" /\ Post(poster)
         /\ UNCHANGED <<now, row, tick, owner, stage, life>>

SendHasEnded == stage # "down" /\ tick.pc = "sending" /\ Take(poster) /\ UNCHANGED inbox

(* The message was sent; it is recorded in the same synchronous section. *)
MarkSent ==
    /\ SendHasEnded
    /\ job[poster].state = "sent"
    /\ lastSent' = ThisMessage
    /\ tick' = [tick EXCEPT !.pc = "marked"]
    /\ UNCHANGED <<now, config, paused, activity, candidate, slot, owner, stage, life>>

(* The send failed without delivering anything and is tried again soon. *)
SendAgain ==
    /\ SendHasEnded
    /\ job[poster].state \in {"safe", "nothing"} /\ tick.attempt < MaxSends
    /\ tick' = [tick EXCEPT !.pc = "pausing", !.attempt = @ + 1]
    /\ UNCHANGED <<now, row, owner, stage, life>>

(* The send failed for good, or may have delivered something. *)
GiveUp ==
    /\ SendHasEnded
    /\ job[poster].state \in {"safe", "nothing"} => tick.attempt = MaxSends
    /\ job[poster].state # "sent"
    /\ ScheduleNext(tick.local)
    /\ tick' = NoTick
    /\ UNCHANGED <<now, config, paused, activity, lastSent, owner, stage, life>>

RescheduleSent ==
    /\ stage # "down" /\ tick.pc = "marked"
    /\ ScheduleNext(now)
    /\ tick' = NoTick
    /\ UNCHANGED <<now, config, paused, activity, lastSent, owner, stage, life, senderVars>>

TickSteps == \/ TickStarts \/ ComposeFails \/ DropMessage \/ SendMessage
             \/ MarkSent \/ SendAgain \/ GiveUp \/ RescheduleSent
-----------------------------------------------------------------------------
(* What the owner does, on the event loop. *)
MarkActivity ==
    /\ stage # "down" /\ LoopIsFree
    /\ activity' = now
    /\ UNCHANGED <<now, config, paused, candidate, lastSent, slot, tick, owner, stage, life, senderVars>>

(* A first candidate is drawn when the service is switched on. *)
FirstCandidate(enabled) ==
    IF enabled /\ candidate = Unset
      THEN /\ candidate' \in {Later} \cup
                {c \in now..Horizon : SuppressedUntil(config') <= c /\ ~InQuiet(c, config')}
           /\ slot' = slot + 1
      ELSE UNCHANGED <<candidate, slot>>

UpdateConfig(c) ==
    /\ stage = "up" /\ LoopIsFree
    /\ config' = c
    /\ FirstCandidate(c.enabled)
    /\ UNCHANGED <<now, paused, activity, lastSent, tick, owner, stage, life, senderVars>>

Pause(until) ==
    /\ stage = "up" /\ LoopIsFree
    /\ paused' = until
    /\ UNCHANGED <<now, config, activity, candidate, lastSent, slot, tick, owner, stage, life, senderVars>>

Resume ==
    /\ stage = "up" /\ LoopIsFree
    /\ paused' = Unset /\ config' = config
    /\ FirstCandidate(config.enabled)
    /\ UNCHANGED <<now, activity, lastSent, tick, owner, stage, life, senderVars>>

ClockTicks ==
    /\ now < Horizon
    /\ now' = now + 1
    /\ UNCHANGED <<row, tick, owner, stage, life, senderVars>>
-----------------------------------------------------------------------------
(* Shutdown: no new tick starts and the running one may finish; after ten  *)
(* seconds it is cancelled, but its thread goes on until the process ends. *)
StopProactive ==
    /\ stage = "up" /\ LoopIsFree
    /\ stage' = "stopping"
    /\ UNCHANGED <<now, row, tick, owner, life, senderVars>>

CancelTick ==
    /\ stage = "stopping" /\ tick # NoTick /\ LoopIsFree
    /\ tick' = NoTick
    /\ UNCHANGED <<now, row, owner, stage, life, senderVars>>

Exit ==
    /\ stage = "stopping" /\ tick = NoTick /\ job[poster].state # "posting"
    /\ stage' = "down"
    /\ job' = [job EXCEPT ![poster] = NoJob]
    /\ UNCHANGED <<now, row, tick, owner, life, inbox>>

(* The process dies; only the state row is left. *)
CrashProactive ==
    /\ stage # "down" /\ life < MaxLives
    /\ stage' = "down"
    /\ tick' = NoTick
    /\ job' = [job EXCEPT ![poster] = NoJob]
    /\ UNCHANGED <<now, row, owner, life, inbox>>

RestartProactive ==
    /\ stage = "down" /\ life < MaxLives
    /\ stage' = "up" /\ life' = life + 1
    /\ UNCHANGED <<now, row, tick, owner, senderVars>>

ProactiveNext ==
    \/ TickSteps
    \/ Posts
    \/ MarkActivity \/ Resume
    \/ \E c \in Config : UpdateConfig(c)
    \/ \E u \in PauseEnd : Pause(u)
    \/ ClockTicks
    \/ StopProactive \/ CancelTick \/ Exit \/ CrashProactive \/ RestartProactive

ProactiveSpec == ProactiveInit /\ [][ProactiveNext]_proactiveVars

(* The loop keeps ticking (run_forever), a composition and an HTTP request *)
(* end by themselves or by their timeouts.                                 *)
ProactiveFairness == WF_proactiveVars(TickSteps) /\ WF_proactiveVars(Posts)

FairProactiveSpec == ProactiveSpec /\ ProactiveFairness
-----------------------------------------------------------------------------
(* One process never delivers a piece of the message for a candidate       *)
(* twice, whatever failed (_send_with_retries, _post).                     *)
DeliveredOnce ==
    \A m \in Message : \A i \in 1..Len(PiecesOf(m)) : Cardinality(Arrivals(m, i)) <= 1

(* A send reported as safe to repeat has delivered no piece of its message *)
(* (retry_safe), although the pieces are separate requests.                *)
SafeMeansNothingSent ==
    \A t \in Thread : job[t].state \in {"safe", "nothing"} => NoneArrived(job[t].msg)

(* A delivery starts only while the service is on, outside the quiet hours *)
(* and the grace time is not over, and only if the owner has not chatted   *)
(* since its tick began: what was true before the composition or the pause *)
(* between two attempts is not relied on (check_delivery).                 *)
SendsAreWelcome ==
    [][job[poster].state = "idle" /\ job'[poster].state # "idle" =>
          /\ config.enabled /\ paused' = Unset
          /\ ~InQuiet(now, config)
          /\ activity = tick.activity /\ SuppressedUntil(config) <= now
          /\ now <= candidate + config.grace]_proactiveVars

(* last_sent_at is only written for a message that arrived as a whole. *)
SentHasArrived ==
    [][lastSent' # lastSent => AllArrived(ThisMessage)]_proactiveVars

(* A candidate that is due does not stay due: it is followed by another    *)
(* one unless the service is switched off, paused or shut down.            *)
DueIsSettled ==
    \A s \in 0..(MaxSlots - 1) :
        (/\ stage = "up" /\ slot = s /\ candidate # Unset /\ candidate <= now)
            ~> (slot # s \/ ~config.enabled \/ paused # Unset \/ stage # "up")
=============================================================================
