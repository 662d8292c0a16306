------------------------------ MODULE HubCommands ------------------------------
(***************************************************************************)
(* Commands from the hub (CentralClient): fetched by a poll, or with the   *)
(* answer to a heartbeat and then put off to the next pass of loop();      *)
(* carried out one after the other; each result posted to the hub.         *)
(*                                                                         *)
(* The hub is not in this repository.  As the code expects, it numbers     *)
(* commands in the order of issue and hands out, in that order, all whose  *)
(* result it has not got (central_client_heap.cpp:207).                    *)
(*                                                                         *)
(* The device is single threaded: from the first command of an array to    *)
(* the post of the last result only the hub acts, or a crash.              *)
(***************************************************************************)
EXTENDS Integers

CONSTANTS Kinds,      \* the kinds of command the hub may issue
          MaxIssued,  \* how many it issues
          MaxFaults,  \* how many crashes, lost results, lost registrations and
                      \* failures to parse
          MaxRuns     \* how often the model carries out one command; a bound that
                      \* were ever reached would leave it unsettled (AllSettled)

AllKinds == {"on", "off", "toggle", "cycle", "restart", "reset", "other"}

ASSUME CommandAssumption ==
    Kinds \subseteq AllKinds /\ MaxIssued \in Nat /\ MaxFaults \in Nat /\ MaxRuns \in Nat

Ids == 1 .. MaxIssued

VARIABLES
    queue,       \* hub: the commands whose result it waits for
    issued,      \* hub: how many were issued
    kind,        \* hub: the kind of each
    pending,     \* pendingCommandsJson_, the commands put off
    array,       \* the commands left in processCommandsArray's loop
    current,     \* the command it is at; 0: none
    stage,       \* where it is with that one: "delay", "post", "restart"; "": none
    relay,       \* RelayController::relayOn_
    kept,        \* lastRelayOn on flash
    registered,  \* is there a deviceToken in memory?
    ready,       \* bootHealthyMarked, and no recovery boot
    enabled,     \* central.enabled
    faults,
    ordered,     \* history: the relay after all commands, once each, in order
    runs,        \* history: how often each command was carried out,
    lost,        \* how often its result did not reach the hub,
    cut          \* and how often a crash came before it was posted

hub     == <<queue, issued, kind, ordered>>
work    == <<pending, array, current, stage>>
outlet  == <<relay, kept>>
link    == <<registered, ready, enabled>>
history == <<runs, lost, cut>>
vars    == <<hub, work, outlet, link, faults, history>>

HubOK ==
    /\ queue \subseteq Ids /\ issued \in 0 .. MaxIssued
    /\ kind \in [Ids -> AllKinds] /\ ordered \in BOOLEAN

WorkOK ==
    /\ pending \subseteq Ids /\ array \subseteq Ids
    /\ current \in Ids \union {0}
    /\ stage \in {"", "delay", "post", "restart"}
    /\ current = 0 <=> stage = ""

LinkOK ==
    /\ relay \in BOOLEAN /\ kept \in BOOLEAN
    /\ registered \in BOOLEAN /\ ready \in BOOLEAN /\ enabled \in BOOLEAN

CountsOK ==
    /\ faults \in 0 .. MaxFaults
    /\ runs \in [Ids -> Nat] /\ lost \in [Ids -> Nat] /\ cut \in [Ids -> Nat]

\* The type of the state.
TypeOK == HubOK /\ WorkOK /\ LinkOK /\ CountsOK

Zero == [i \in Ids |-> 0]

Init ==
    /\ queue = {} /\ issued = 0 /\ kind = [i \in Ids |-> "other"]
    /\ pending = {} /\ array = {} /\ current = 0 /\ stage = ""
    /\ relay = TRUE /\ kept = TRUE /\ ordered = TRUE
    /\ registered = TRUE /\ ready = FALSE /\ enabled = TRUE
    /\ faults = 0
    /\ runs = Zero /\ lost = Zero /\ cut = Zero

-------------------------------------------------------------------------------
\* Issue and fetch

\* The relay after a command of kind k, and after a restart it asks for.
After(k, on) ==
    CASE k \in {"on", "cycle", "reset"} -> TRUE
      [] k = "off"                      -> FALSE
      [] k = "toggle"                   -> ~on
      [] OTHER                          -> on

Issue(k) ==
    /\ issued < MaxIssued
    /\ issued' = issued + 1
    /\ kind' = [kind EXCEPT ![issued + 1] = k]
    /\ queue' = queue \union {issued + 1}
    /\ ordered' = After(k, ordered)
    /\ UNCHANGED <<work, outlet, link, faults, history>>

Idle == array = {} /\ current = 0

InService == Idle /\ ready /\ enabled

\* A pass that calls the hub has drained what was put off before.
MayCall == InService /\ pending = {} /\ registered

\* Mutant of Heartbeat: the commands are carried out and put off as well.
HeartbeatTwice ==
    /\ MayCall
    /\ queue # {}
    /\ pending' = queue
    /\ array' = queue
    /\ UNCHANGED <<hub, current, stage, outlet, link, faults, history>>

\* sendHeartbeat; one with no commands in its answer changes nothing here.
Heartbeat ==
    /\ MayCall
    /\ queue # {}
    /\ pending' = queue
    /\ UNCHANGED <<hub, array, current, stage, outlet, link, faults, history>>

\* Mutant of Drain: what was put off stays.
DrainKeeps ==
    /\ InService
    /\ pending # {}
    /\ array' = pending
    /\ UNCHANGED <<hub, pending, current, stage, outlet, link, faults, history>>

\* loop() takes up what the last heartbeat brought.
Drain ==
    /\ InService
    /\ pending # {}
    /\ array' = pending /\ pending' = {}
    /\ UNCHANGED <<hub, current, stage, outlet, link, faults, history>>

\* There is no memory to parse them with: they are dropped.
DrainFails ==
    /\ InService
    /\ pending # {} /\ faults < MaxFaults
    /\ pending' = {}
    /\ faults' = faults + 1
    /\ UNCHANGED <<hub, array, current, stage, outlet, link, history>>

\* pollCommands
Poll ==
    /\ MayCall
    /\ queue # {}
    /\ array' = queue
    /\ UNCHANGED <<hub, pending, current, stage, outlet, link, faults, history>>

-------------------------------------------------------------------------------
\* processCommandsArray

First(i) == i \in array /\ \A j \in array : i <= j

\* Mutant of StageOf: a restart comes before its result is posted.
StageRestartFirst(k) ==
    IF k = "cycle" THEN "delay" ELSE IF k \in {"restart", "reset"} THEN "restart" ELSE "post"

StageOf(k) == IF k = "cycle" THEN "delay" ELSE "post"

\* Mutant of Execute: the relay is switched and not saved.
ExecuteUnsaved(i) ==
    /\ current = 0 /\ First(i) /\ runs[i] < MaxRuns
    /\ array' = array \ {i} /\ current' = i
    /\ stage' = StageOf(kind[i])
    /\ relay' = IF kind[i] = "reset" THEN relay
                ELSE IF kind[i] = "cycle" THEN FALSE ELSE After(kind[i], relay)
    /\ kept' = IF kind[i] = "reset" THEN TRUE ELSE kept
    /\ runs' = [runs EXCEPT ![i] = @ + 1]
    /\ UNCHANGED <<hub, pending, link, faults, lost, cut>>

\* executeCommand; a relay_cycle up to its delay().  A reset wipes the flash, where
\* the next boot finds no lastRelayOn and takes the default, on.
Execute(i) ==
    /\ current = 0 /\ First(i) /\ runs[i] < MaxRuns
    /\ array' = array \ {i} /\ current' = i
    /\ stage' = StageOf(kind[i])
    /\ relay' = IF kind[i] = "reset" THEN relay
                ELSE IF kind[i] = "cycle" THEN FALSE ELSE After(kind[i], relay)
    /\ kept' = IF kind[i] = "reset" THEN TRUE ELSE relay'
    /\ runs' = [runs EXCEPT ![i] = @ + 1]
    /\ UNCHANGED <<hub, pending, link, faults, lost, cut>>

\* Mutant of CycleEnds: the loop goes on without the post.
CycleEndsUnposted ==
    /\ stage = "delay"
    /\ relay' = TRUE /\ kept' = TRUE
    /\ stage' = ""
    /\ UNCHANGED <<hub, pending, array, current, link, faults, history>>

CycleEnds ==
    /\ stage = "delay"
    /\ relay' = TRUE /\ kept' = TRUE
    /\ stage' = "post"
    /\ UNCHANGED <<hub, pending, array, current, link, faults, history>>

\* After the post, heard or not: the restart it asked for, or the next command.
Posted ==
    /\ stage = "post"
    /\ IF kind[current] \in {"restart", "reset"}
       THEN stage' = "restart" /\ UNCHANGED current
       ELSE stage' = "" /\ current' = 0
    /\ UNCHANGED <<issued, kind, ordered, pending, array, outlet, link>>

\* The hub takes the result, whether or not the device hears its answer.
PostHeard ==
    /\ Posted
    /\ registered
    /\ queue' = queue \ {current}
    /\ UNCHANGED <<faults, history>>

PostLost ==
    /\ Posted
    /\ registered => faults < MaxFaults
    /\ faults' = IF registered THEN faults + 1 ELSE faults
    /\ lost' = [lost EXCEPT ![current] = @ + 1]
    /\ UNCHANGED <<queue, runs, cut>>

\* A boot: memory is lost, the relay restored (RestorePrevious).  After a reset it
\* finds the defaults: no registration, and the hub client switched off.
Wiped == current # 0 /\ kind[current] = "reset"

Boot ==
    /\ pending' = {} /\ array' = {} /\ current' = 0 /\ stage' = ""
    /\ relay' = kept
    /\ registered' = (registered /\ ~Wiped)
    /\ enabled' = (enabled /\ ~Wiped)
    /\ ready' = FALSE
    /\ UNCHANGED <<hub, kept, runs, lost>>

Restart == stage = "restart" /\ Boot /\ UNCHANGED <<faults, cut>>

\* A crash, or a restart somebody else asks for.
Crash ==
    /\ faults < MaxFaults
    /\ faults' = faults + 1
    /\ Boot
    /\ cut' = IF stage \in {"delay", "post"} THEN [cut EXCEPT ![current] = @ + 1] ELSE cut

-------------------------------------------------------------------------------
\* The link to the hub

\* markBootHealthy, not in a recovery boot
BecomeReady ==
    /\ Idle /\ ~ready
    /\ ready' = TRUE
    /\ UNCHANGED <<hub, work, outlet, registered, enabled, faults, history>>

\* Announce, adoption and register, in one step.
Register ==
    /\ InService /\ pending = {} /\ ~registered
    /\ registered' = TRUE
    /\ UNCHANGED <<hub, work, outlet, ready, enabled, faults, history>>

\* 401 to a heartbeat or a poll, between calls; or POST /api/config/save with a
\* new enrollment token, which may come before what was put off is taken up.
LoseRegistration ==
    /\ Idle /\ registered /\ faults < MaxFaults
    /\ registered' = FALSE
    /\ faults' = faults + 1
    /\ UNCHANGED <<hub, work, outlet, ready, enabled, history>>

\* POST /api/config/save switches the hub client off or on.
SetEnabled(b) ==
    /\ Idle
    /\ enabled' = b
    /\ UNCHANGED <<hub, work, outlet, registered, ready, faults, history>>

Post == PostHeard \/ PostLost

Next ==
    \/ \E k \in Kinds : Issue(k)
    \/ Heartbeat \/ Poll \/ Drain \/ DrainFails
    \/ \E i \in Ids : Execute(i)
    \/ CycleEnds
    \/ PostHeard \/ PostLost
    \/ Restart \/ Crash
    \/ BecomeReady
    \/ Register \/ LoseRegistration
    \/ \E b \in BOOLEAN : SetEnabled(b)

Spec == Init /\ [][Next]_vars

\* loop() keeps running and, between faults, the hub answers.
FairSpec ==
    /\ Spec
    /\ WF_vars(Heartbeat) /\ WF_vars(Poll) /\ WF_vars(Drain)
    /\ WF_vars(\E i \in Ids : Execute(i)) /\ WF_vars(CycleEnds) /\ WF_vars(Post)
    /\ WF_vars(Restart) /\ WF_vars(BecomeReady) /\ WF_vars(Register)

-------------------------------------------------------------------------------
\* Properties

Settled(i) == i \in 1 .. issued /\ i \notin queue

InHand(i) == current = i /\ stage \in {"delay", "post"}

\* Each time a command is carried out has one outcome: its result reached the
\* hub, got lost, or was cut off by a crash.  No array is taken up twice, by a poll
\* and with a heartbeat, or again after a restart, unless one of these asks for it.
RunsAccountedFor ==
    \A i \in Ids : runs[i] = lost[i] + cut[i]
                             + (IF Settled(i) THEN 1 ELSE 0) + (IF InHand(i) THEN 1 ELSE 0)

\* The device and the hub together implement delivery at least once: what the hub
\* has the result of was done, and is not done again.
Delivery == INSTANCE AtLeastOnce WITH open <- queue

DeliveredAtLeastOnce == Delivery!Spec

\* Restarts in the middle of an array, crashes, a second registration do not change
\* what a run of commands leads to, as long as all results arrive and no toggle
\* is cut off: the relay ends as if each was carried out once, in order.
RelayAsOrdered ==
    /\ \A i \in Ids : lost[i] = 0 /\ (kind[i] = "toggle" => cut[i] = 0)
    /\ queue = {} /\ Idle
    => relay = ordered

\* "a command re-delivered after the restart still executes correctly"
\* (central_client_heap.cpp:208): whatever got lost, when all is settled the
\* relay is as the commands, in order, ask for.
RedeliveryIsHarmless == queue = {} /\ Idle => relay = ordered

\* Every command is settled in the end, restarts and resets included.
AllSettled == <>[]enabled => <>[](queue = {})
===============================================================================
