-------------------------- MODULE HubCommands_proofs --------------------------
(***************************************************************************)
(* Proofs about HubCommands, for any number of commands and of faults.     *)
(***************************************************************************)
EXTENDS HubCommands, TLAPS

\* Every step of hub and device, by name.
LEMMA NextSteps ==
    ASSUME [Next]_vars
    PROVE  \/ \E k \in Kinds : Issue(k)
           \/ Heartbeat \/ Poll \/ Drain \/ DrainFails
           \/ \E i \in Ids : Execute(i)
           \/ CycleEnds \/ PostHeard \/ PostLost \/ Restart \/ Crash
           \/ BecomeReady \/ Register \/ LoseRegistration
           \/ \E b \in BOOLEAN : SetEnabled(b)
           \/ UNCHANGED vars
  BY DEF Next

-------------------------------------------------------------------------------
\* Type correctness

\* What is needed of the numbers of commands.
LEMMA IdsFacts == Ids \subseteq Nat /\ 0 \notin Ids
  BY CommandAssumption DEF Ids

\* The next command has a number.
LEMMA NextId ==
    HubOK /\ issued < MaxIssued => issued + 1 \in Ids /\ issued + 1 \in 0 .. MaxIssued
  BY CommandAssumption DEF HubOK, Ids

\* The types of what the hub holds are kept.
LEMMA HubStep == TypeOK /\ [Next]_vars => HubOK'
  <1> SUFFICES ASSUME TypeOK, [Next]_vars PROVE HubOK'
      OBVIOUS
  <1> USE DEF TypeOK, hub
  <1>1. CASE \E k \in Kinds : Issue(k)
    <2>1. PICK k \in Kinds : Issue(k)
          BY <1>1
    <2>2. issued + 1 \in Ids /\ issued' \in 0 .. MaxIssued
          BY <2>1, NextId DEF Issue
    <2>3. kind' \in [Ids -> AllKinds]
          BY <2>1, CommandAssumption DEF Issue, HubOK
    <2>4. ordered' \in BOOLEAN
          BY <2>1 DEF Issue, After, HubOK
    <2> QED BY <2>1, <2>2, <2>3, <2>4 DEF Issue, HubOK
  <1>2. CASE PostHeard
        BY <1>2 DEF PostHeard, Posted, HubOK
  <1>3. CASE UNCHANGED hub
        BY <1>3 DEF HubOK
  <1>4. CASE \/ Heartbeat \/ Poll \/ Drain \/ DrainFails \/ \E i \in Ids : Execute(i)
             \/ CycleEnds \/ PostLost \/ Restart \/ Crash
        BY <1>3, <1>4
        DEF Heartbeat, Poll, Drain, DrainFails, Execute, CycleEnds, PostLost, Posted, Restart, Crash, Boot
  <1>5. CASE \/ BecomeReady \/ Register \/ LoseRegistration
             \/ \E b \in BOOLEAN : SetEnabled(b)
             \/ UNCHANGED vars
        BY <1>3, <1>5 DEF BecomeReady, Register, LoseRegistration, SetEnabled, vars
  <1> QED BY NextSteps, <1>1, <1>2, <1>4, <1>5

\* So are those of what the device is doing,
LEMMA WorkStep == TypeOK /\ [Next]_vars => WorkOK'
  <1> SUFFICES ASSUME TypeOK, [Next]_vars PROVE WorkOK'
      OBVIOUS
  <1>0. queue \subseteq Ids
        BY DEF TypeOK, HubOK
  <1> USE IdsFacts DEF TypeOK, WorkOK, work
  <1>1. CASE Heartbeat \/ Poll \/ Drain \/ DrainFails
        BY <1>0, <1>1 DEF Heartbeat, Poll, Drain, DrainFails
  <1>2. CASE \E i \in Ids : Execute(i)
        BY <1>2 DEF Execute, StageOf
  <1>3. CASE CycleEnds
        BY <1>3 DEF CycleEnds
  <1>4. CASE PostHeard \/ PostLost
        BY <1>4 DEF PostHeard, PostLost, Posted
  <1>5. CASE Restart \/ Crash
        BY <1>5 DEF Restart, Crash, Boot
  <1>6. CASE \/ \E k \in Kinds : Issue(k)
             \/ BecomeReady \/ Register \/ LoseRegistration
             \/ \E b \in BOOLEAN : SetEnabled(b)
             \/ UNCHANGED vars
        BY <1>6 DEF Issue, BecomeReady, Register, LoseRegistration, SetEnabled, vars
  <1> QED BY NextSteps, <1>1, <1>2, <1>3, <1>4, <1>5, <1>6

\* of the link between them,
LEMMA LinkStep == TypeOK /\ [Next]_vars => LinkOK'
  <1> SUFFICES ASSUME TypeOK, [Next]_vars PROVE LinkOK'
      OBVIOUS
  <1> USE DEF TypeOK, LinkOK, outlet, link
  <1>1. CASE \E i \in Ids : Execute(i)
    <2>1. PICK i \in Ids : Execute(i)
          BY <1>1
    <2>2. relay' \in BOOLEAN
          BY <2>1 DEF Execute, After
    <2> QED BY <2>1, <2>2 DEF Execute
  <1>2. CASE Restart \/ Crash
        BY <1>2 DEF Restart, Crash, Boot
  <1>3. CASE \/ CycleEnds \/ BecomeReady \/ Register \/ LoseRegistration
             \/ \E b \in BOOLEAN : SetEnabled(b)
        BY <1>3 DEF CycleEnds, BecomeReady, Register, LoseRegistration, SetEnabled
  <1>4. CASE \/ \E k \in Kinds : Issue(k)
             \/ Heartbeat \/ Poll \/ Drain \/ DrainFails \/ PostHeard \/ PostLost
             \/ UNCHANGED vars
        BY <1>4 DEF Issue, Heartbeat, Poll, Drain, DrainFails, PostHeard, PostLost, Posted, vars
  <1> QED BY NextSteps, <1>1, <1>2, <1>3, <1>4

\* and of the counts.
LEMMA CountsStep == TypeOK /\ [Next]_vars => CountsOK'
  <1> SUFFICES ASSUME TypeOK, [Next]_vars PROVE CountsOK'
      OBVIOUS
  <1> USE CommandAssumption DEF TypeOK, CountsOK, history
  <1>1. CASE \E i \in Ids : Execute(i)
    <2>1. PICK i \in Ids : Execute(i)
          BY <1>1
    <2>2. runs' \in [Ids -> Nat]
          BY <2>1 DEF Execute
    <2> QED BY <2>1, <2>2 DEF Execute
  <1>2. CASE PostLost
    <2>1. lost' = [j \in Ids |-> IF j = current THEN lost[j] + 1 ELSE lost[j]]
      <3>1. lost' = [lost EXCEPT ![current] = @ + 1] /\ DOMAIN lost = Ids
            BY <1>2 DEF PostLost
      <3> QED BY <3>1
    <2>2. faults' \in 0 .. MaxFaults
          BY <1>2 DEF PostLost, LinkOK
    <2>3. lost' \in [Ids -> Nat]
          BY <2>1
    <2>4. UNCHANGED <<runs, cut>>
          BY <1>2 DEF PostLost
    <2> QED BY <2>2, <2>3, <2>4
  <1>3. CASE Crash
    <2>1. \/ cut' = cut
          \/ cut' = [j \in Ids |-> IF j = current THEN cut[j] + 1 ELSE cut[j]]
      <3>1. cut' = cut \/ cut' = [cut EXCEPT ![current] = @ + 1]
            BY <1>3 DEF Crash
      <3>2. DOMAIN cut = Ids
            OBVIOUS
      <3> QED BY <3>1, <3>2
    <2>2. faults' \in 0 .. MaxFaults
          BY <1>3 DEF Crash
    <2>3. cut' \in [Ids -> Nat]
          BY <2>1
    <2>4. UNCHANGED <<runs, lost>>
          BY <1>3 DEF Crash, Boot
    <2> QED BY <2>2, <2>3, <2>4
  <1>4. CASE LoseRegistration \/ DrainFails
        BY <1>4 DEF LoseRegistration, DrainFails
  <1>5. CASE \/ \E k \in Kinds : Issue(k)
             \/ Heartbeat \/ Poll \/ Drain \/ CycleEnds \/ PostHeard \/ Restart
        BY <1>5 DEF Issue, Heartbeat, Poll, Drain, CycleEnds, PostHeard, Restart, Boot
  <1>6. CASE \/ BecomeReady \/ Register \/ \E b \in BOOLEAN : SetEnabled(b)
             \/ UNCHANGED vars
        BY <1>6 DEF BecomeReady, Register, SetEnabled, vars
  <1> QED BY NextSteps, <1>1, <1>2, <1>3, <1>4, <1>5, <1>6

\* Together they are the type of the state,
LEMMA TypeStep == TypeOK /\ [Next]_vars => TypeOK'
  BY HubStep, WorkStep, LinkStep, CountsStep DEF TypeOK

\* which it has at first.
LEMMA InitType == Init => TypeOK
  <1> SUFFICES ASSUME Init PROVE TypeOK
      OBVIOUS
  <1>1. queue = {} /\ issued = 0 /\ faults = 0 /\ ordered \in BOOLEAN
        BY DEF Init
  <1>2. kind \in [Ids -> AllKinds]
        BY DEF Init, AllKinds
  <1>3. runs \in [Ids -> Nat] /\ lost \in [Ids -> Nat] /\ cut \in [Ids -> Nat]
        BY DEF Init, Zero
  <1>4. 0 \in 0 .. MaxIssued /\ 0 \in 0 .. MaxFaults
        BY CommandAssumption
  <1>5. WorkOK
        BY DEF Init, WorkOK
  <1>6. LinkOK
        BY DEF Init, LinkOK
  <1> QED BY <1>1, <1>2, <1>3, <1>4, <1>5, <1>6 DEF TypeOK, HubOK, CountsOK

\* The state keeps its type; the command loop is at a command exactly when it is
\* at some stage of it (processCommandsArray).
THEOREM TypeCorrect == Spec => []TypeOK
  <1> QED BY InitType, TypeStep, PTL DEF Spec

-------------------------------------------------------------------------------
\* What the device holds

\* Everything the device has yet to carry out, and the command it is at until its
\* result is posted, is still in the hub's queue; only one array is around.
Held ==
    /\ queue \subseteq 1 .. issued
    /\ pending \subseteq queue
    /\ array \subseteq queue
    /\ stage \in {"delay", "post"} => current \in queue
    /\ current \notin array
    /\ pending # {} => Idle

\* A command that was not issued was not carried out.
UnissuedIdle == \A i \in Ids : i > issued => runs[i] = 0

CommandInv == TypeOK /\ Held /\ RunsAccountedFor /\ UnissuedIdle

\* What the device holds stays in the queue of the hub.
LEMMA HeldStep == TypeOK /\ Held /\ [Next]_vars => Held'
  <1> SUFFICES ASSUME TypeOK, Held, [Next]_vars PROVE Held'
      OBVIOUS
  <1>0. (stage = "" <=> current = 0) /\ 0 \notin queue
        BY IdsFacts DEF TypeOK, HubOK, WorkOK
  <1> USE DEF Held, Idle, hub, work
  <1>1. CASE \E k \in Kinds : Issue(k)
        BY <1>1 DEF Issue, TypeOK, HubOK
  <1>2. CASE Heartbeat \/ Poll \/ Drain \/ DrainFails
        BY <1>0, <1>2 DEF Heartbeat, Poll, Drain, DrainFails, MayCall, InService
  <1>3. CASE \E i \in Ids : Execute(i)
        BY <1>3 DEF Execute, First
  <1>4. CASE CycleEnds
        BY <1>4 DEF CycleEnds
  <1>5. CASE PostHeard
        BY <1>0, <1>5 DEF PostHeard, Posted
  <1>6. CASE PostLost
        BY <1>0, <1>6 DEF PostLost, Posted
  <1>7. CASE Restart \/ Crash
        BY <1>7, IdsFacts DEF Restart, Crash, Boot, TypeOK, HubOK
  <1>8. CASE BecomeReady \/ Register \/ LoseRegistration
        BY <1>8 DEF BecomeReady, Register, LoseRegistration
  <1>9. CASE (\E b \in BOOLEAN : SetEnabled(b)) \/ UNCHANGED vars
        BY <1>9 DEF SetEnabled, vars
  <1> QED BY NextSteps, <1>1, <1>2, <1>3, <1>4, <1>5, <1>6, <1>7, <1>8, <1>9

-------------------------------------------------------------------------------
\* The count of runs

\* A step that leaves the counts, the queue and the command in hand alone.
LEMMA SameOutcomes ==
    ASSUME RunsAccountedFor, UnissuedIdle, TypeOK, TypeOK',
           UNCHANGED <<queue, issued, runs, lost, cut>>,
           \A i \in Ids : InHand(i)' <=> InHand(i)
    PROVE  RunsAccountedFor' /\ UnissuedIdle'
  BY DEF RunsAccountedFor, UnissuedIdle, Settled

\* Every step keeps the account of the runs.
LEMMA RunsStep == CommandInv /\ [Next]_vars => RunsAccountedFor' /\ UnissuedIdle'
  <1> SUFFICES ASSUME CommandInv, [Next]_vars PROVE RunsAccountedFor' /\ UnissuedIdle'
      OBVIOUS
  <1>0. TypeOK' /\ Held'
        BY TypeStep, HeldStep DEF CommandInv
  <1> USE <1>0 DEF CommandInv
  <1>1. CASE \E k \in Kinds : Issue(k)
    <2>1. PICK k \in Kinds : Issue(k)
          BY <1>1
    <2>2. \A i \in Ids : Settled(i)' <=> Settled(i)
          BY <2>1 DEF Issue, Settled, TypeOK, HubOK, Held, Ids
    <2>3. \A i \in Ids : InHand(i)' <=> InHand(i)
          BY <2>1 DEF Issue, InHand, work
    <2>4. UNCHANGED <<runs, lost, cut>>
          BY <2>1 DEF Issue, history
    <2>5. issued' = issued + 1
          BY <2>1 DEF Issue
    <2>6. UnissuedIdle'
          BY <2>4, <2>5 DEF UnissuedIdle, TypeOK, HubOK, Ids
    <2> QED BY <2>2, <2>3, <2>4, <2>6 DEF RunsAccountedFor
  <1>2. CASE Heartbeat \/ Poll \/ Drain \/ DrainFails
        BY <1>2, SameOutcomes DEF Heartbeat, Poll, Drain, DrainFails, InHand, hub, history
  <1>3. CASE \E i \in Ids : Execute(i)
    <2>1. PICK i \in Ids : Execute(i)
          BY <1>3
    <2>2. current = 0 /\ i \in queue
          BY <2>1 DEF Execute, First, Held
    <2>3. UNCHANGED <<queue, issued, lost, cut>> /\ runs' = [runs EXCEPT ![i] = @ + 1]
          BY <2>1 DEF Execute, hub
    <2>4. current' = i /\ stage' \in {"delay", "post"}
          BY <2>1 DEF Execute, StageOf
    <2>5. runs[i] = lost[i] + cut[i]
          BY <2>2 DEF RunsAccountedFor, Settled, InHand, Ids, TypeOK, CountsOK
    <2>6. runs'[i] = runs[i] + 1 /\ \A j \in Ids : j # i => runs'[j] = runs[j]
          BY <2>3 DEF TypeOK, CountsOK
    <2>7. ASSUME NEW j \in Ids
          PROVE  runs'[j] = lost'[j] + cut'[j] + (IF Settled(j)' THEN 1 ELSE 0)
                              + (IF InHand(j)' THEN 1 ELSE 0)
      <3>1. CASE j = i
            BY <2>2, <2>3, <2>4, <2>5, <2>6, <3>1
            DEF Settled, InHand, TypeOK, CountsOK
      <3>2. CASE j # i
            BY <2>2, <2>3, <2>4, <2>6, <3>2
            DEF RunsAccountedFor, Settled, InHand, TypeOK, CountsOK, Ids
      <3> QED BY <3>1, <3>2
    <2>8. UnissuedIdle'
          BY <2>2, <2>3, <2>6 DEF UnissuedIdle, Held, Ids, TypeOK, HubOK
    <2> QED BY <2>7, <2>8 DEF RunsAccountedFor
  <1>4. CASE CycleEnds
        BY <1>4, SameOutcomes DEF CycleEnds, InHand, hub, history
  <1>5. CASE PostHeard
    <2>1. stage = "post" /\ current \in queue /\ stage' \notin {"delay", "post"}
          BY <1>5 DEF PostHeard, Posted, Held
    <2>2. queue' = queue \ {current} /\ UNCHANGED <<issued, runs, lost, cut>>
          BY <1>5 DEF PostHeard, Posted, history
    <2>3. ASSUME NEW j \in Ids
          PROVE  runs'[j] = lost'[j] + cut'[j] + (IF Settled(j)' THEN 1 ELSE 0)
                              + (IF InHand(j)' THEN 1 ELSE 0)
      <3>1. CASE j = current
            BY <2>1, <2>2, <3>1
            DEF RunsAccountedFor, Settled, InHand, Held, TypeOK, CountsOK
      <3>2. CASE j # current
            BY <2>1, <2>2, <3>2 DEF RunsAccountedFor, Settled, InHand
      <3> QED BY <3>1, <3>2
    <2>4. UnissuedIdle'
          BY <2>2 DEF UnissuedIdle
    <2> QED BY <2>3, <2>4 DEF RunsAccountedFor
  <1>6. CASE PostLost
    <2>1. stage = "post" /\ current \in queue /\ stage' \notin {"delay", "post"}
          BY <1>6 DEF PostLost, Posted, Held
    <2>2. UNCHANGED <<queue, issued, runs, cut>> /\ lost' = [lost EXCEPT ![current] = @ + 1]
          BY <1>6 DEF PostLost, Posted
    <2>3. current \in Ids
          BY <2>1 DEF Held, TypeOK, HubOK, Ids
    <2>4. lost'[current] = lost[current] + 1
          /\ \A j \in Ids : j # current => lost'[j] = lost[j]
          BY <2>2, <2>3 DEF TypeOK, CountsOK
    <2>5. ASSUME NEW j \in Ids
          PROVE  runs'[j] = lost'[j] + cut'[j] + (IF Settled(j)' THEN 1 ELSE 0)
                              + (IF InHand(j)' THEN 1 ELSE 0)
      <3>1. CASE j = current
            BY <2>1, <2>2, <2>4, <3>1
            DEF RunsAccountedFor, Settled, InHand, Held, TypeOK, CountsOK
      <3>2. CASE j # current
            BY <2>1, <2>2, <2>4, <3>2 DEF RunsAccountedFor, Settled, InHand
      <3> QED BY <3>1, <3>2
    <2>6. UnissuedIdle'
          BY <2>2 DEF UnissuedIdle
    <2> QED BY <2>5, <2>6 DEF RunsAccountedFor
  <1>7. CASE Restart
    <2>1. \A i \in Ids : ~InHand(i) /\ ~InHand(i)'
          BY <1>7 DEF Restart, Boot, InHand
    <2> QED BY <1>7, <2>1, SameOutcomes DEF Restart, Boot, hub
  <1>8. CASE Crash
    <2>1. UNCHANGED <<queue, issued, runs, lost>> /\ stage' \notin {"delay", "post"}
          BY <1>8 DEF Crash, Boot, hub
    <2>2. CASE stage \in {"delay", "post"}
      <3>1. current \in Ids /\ cut' = [cut EXCEPT ![current] = @ + 1]
            BY <1>8, <2>2 DEF Crash, Held, TypeOK, HubOK
      <3>2. cut'[current] = cut[current] + 1
            /\ \A j \in Ids : j # current => cut'[j] = cut[j]
            BY <3>1 DEF TypeOK, CountsOK
      <3>3. ASSUME NEW j \in Ids
            PROVE  runs'[j] = lost'[j] + cut'[j] + (IF Settled(j)' THEN 1 ELSE 0)
                                + (IF InHand(j)' THEN 1 ELSE 0)
        <4>1. CASE j = current
              BY <2>1, <2>2, <3>1, <3>2, <4>1
              DEF RunsAccountedFor, Settled, InHand, TypeOK, CountsOK
        <4>2. CASE j # current
              BY <2>1, <3>2, <4>2 DEF RunsAccountedFor, Settled, InHand
        <4> QED BY <4>1, <4>2
      <3>4. UnissuedIdle'
            BY <2>1 DEF UnissuedIdle
      <3> QED BY <3>3, <3>4 DEF RunsAccountedFor
    <2>3. CASE stage \notin {"delay", "post"}
      <3>1. cut' = cut
            BY <1>8, <2>3 DEF Crash
      <3>2. \A i \in Ids : ~InHand(i) /\ ~InHand(i)'
            BY <2>1, <2>3 DEF InHand
      <3> QED BY <2>1, <3>1, <3>2, SameOutcomes
    <2> QED BY <2>2, <2>3
  <1>9. CASE BecomeReady \/ Register \/ LoseRegistration
        BY <1>9, SameOutcomes
        DEF BecomeReady, Register, LoseRegistration, InHand, hub, work, history
  <1>10. CASE \E b \in BOOLEAN : SetEnabled(b)
        BY <1>10, SameOutcomes DEF SetEnabled, InHand, hub, work, history
  <1>11. CASE UNCHANGED vars
        BY <1>11, SameOutcomes DEF vars, InHand, hub, work, history
  <1> QED BY NextSteps, <1>1, <1>2, <1>3, <1>4, <1>5, <1>6, <1>7, <1>8, <1>9, <1>10, <1>11

\* The inductive invariant of the delivery of commands (CentralClient::loop,
\* processCommandsArray): what the device holds is in the hub's queue, and each
\* run has its outcome.
THEOREM CommandInvariant == Spec => []CommandInv
  <1>1. Init => Held
        BY DEF Init, Held, Idle
  <1>2. Init => RunsAccountedFor /\ UnissuedIdle
    <2> SUFFICES ASSUME Init PROVE RunsAccountedFor /\ UnissuedIdle
        OBVIOUS
    <2>1. issued = 0 /\ stage = ""
          BY DEF Init
    <2>2. \A i \in Ids : ~Settled(i) /\ ~InHand(i)
      <3>1. 1 .. 0 = {}
            OBVIOUS
      <3>2. stage \notin {"delay", "post"}
            BY <2>1
      <3> QED BY <2>1, <3>1, <3>2 DEF Settled, InHand
    <2>3. \A i \in Ids : runs[i] = 0 /\ lost[i] = 0 /\ cut[i] = 0
          BY DEF Init, Zero
    <2> QED BY <2>2, <2>3 DEF RunsAccountedFor, UnissuedIdle
  <1>3. CommandInv /\ [Next]_vars => CommandInv'
        BY TypeStep, HeldStep, RunsStep DEF CommandInv
  <1> QED BY InitType, <1>1, <1>2, <1>3, PTL DEF Spec, CommandInv

\* Each time a command is carried out (executeCommand) has one outcome: its result
\* reached the hub, got lost, or was cut off by a crash.
THEOREM EveryRunHasAnOutcome == Spec => []RunsAccountedFor
  <1>1. CommandInv => RunsAccountedFor
        BY DEF CommandInv
  <1> QED BY <1>1, CommandInvariant, PTL

-------------------------------------------------------------------------------
\* The relay in a run in which no result is lost

\* No result was lost, and no toggle cut off (the hypothesis of RelayAsOrdered).
Clean == \A i \in Ids : lost[i] = 0 /\ (kind[i] = "toggle" => cut[i] = 0)

\* The kinds after which the relay does not depend on what it was.
Deciding == {"on", "off", "cycle", "reset"}

\* f[i] is the relay after the first i commands, once each and in order.
Course(f) ==
    /\ f \in [0 .. issued -> BOOLEAN] /\ f[0] = TRUE
    /\ \A i \in 1 .. issued : f[i] = After(kind[i], f[i - 1])
    /\ f[issued] = ordered

\* S holds the next commands after the first d, without a gap.
Upcoming(d, S) == \E m \in d .. issued : S = (d + 1) .. m

\* The first d commands are settled, and the device is at none: the relay is as
\* they ask, unless a crash cut off the next one, which will decide it anyway.
Between(d, f) ==
    /\ current = 0
    /\ Upcoming(d, array)
    /\ kept = relay
    /\ relay = f[d] \/ (d < issued /\ cut[d + 1] > 0 /\ kind[d + 1] \in Deciding)

\* The device is at the command after them.
AtCommand(d, f) ==
    /\ stage \in {"delay", "post"}
    /\ d < issued /\ current = d + 1
    /\ Upcoming(d + 1, array)
    /\ IF stage = "delay" THEN kind[d + 1] = "cycle" /\ relay = kept
       ELSE kept = f[d + 1] /\ (kind[d + 1] # "reset" => relay = kept)

\* The last of them has been posted and asks for a restart.
BeforeRestart(d, f) == stage = "restart" /\ kept = f[d]

Along(d, f) ==
    /\ Course(f)
    /\ queue = (d + 1) .. issued
    /\ Upcoming(d, pending)
    /\ Between(d, f) \/ AtCommand(d, f) \/ BeforeRestart(d, f)

\* As long as all results arrive, the commands are settled in order, and the relay
\* follows the course they ask for.
InOrder == Clean => \E d \in 0 .. issued, f \in [0 .. issued -> BOOLEAN] : Along(d, f)

\* A command leaves the relay on or off.
LEMMA AfterBoolean == \A k \in AllKinds, b \in BOOLEAN : After(k, b) \in BOOLEAN
  BY DEF After, AllKinds

\* What a command that decides leaves does not depend on what there was; the others,
\* a toggle apart, leave the relay as it was.
LEMMA AfterDecides ==
    /\ \A k \in Deciding, a, b \in BOOLEAN : After(k, a) = After(k, b)
    /\ \A k \in AllKinds \ (Deciding \union {"toggle"}), b \in BOOLEAN : After(k, b) = b
    /\ \A b \in BOOLEAN : After("cycle", b) = TRUE /\ After("reset", b) = TRUE
  BY DEF After, AllKinds, Deciding

\* A run that is clean now has always been.
LEMMA CleanBefore == CommandInv /\ [Next]_vars /\ Clean' => Clean
  <1> SUFFICES ASSUME CommandInv, [Next]_vars, Clean', NEW i \in Ids
               PROVE  lost[i] = 0 /\ (kind[i] = "toggle" => cut[i] = 0)
      BY DEF Clean
  <1> USE DEF CommandInv, TypeOK, CountsOK
  <1>1. lost'[i] = 0 /\ (kind'[i] = "toggle" => cut'[i] = 0)
        BY DEF Clean
  <1>2. CASE \E k \in Kinds : Issue(k)
    <2>1. PICK k \in Kinds : Issue(k)
          BY <1>2
    <2>2. UNCHANGED <<lost, cut>> /\ kind' = [kind EXCEPT ![issued + 1] = k]
          BY <2>1 DEF Issue, history
    <2>3. CASE i = issued + 1
      <3>1. runs[i] = 0
            BY <2>3 DEF UnissuedIdle, HubOK
      <3>2. cut[i] = 0
            BY <3>1 DEF RunsAccountedFor
      <3> QED BY <1>1, <2>2, <3>2
    <2>4. CASE i # issued + 1
          BY <1>1, <2>2, <2>4 DEF HubOK
    <2> QED BY <2>3, <2>4
  <1>3. CASE \E j \in Ids : Execute(j)
        BY <1>1, <1>3 DEF Execute, hub
  <1>4. CASE PostLost
    <2>1. lost' = [lost EXCEPT ![current] = @ + 1] /\ UNCHANGED <<cut, kind>>
          BY <1>4 DEF PostLost, Posted
    <2>2. lost'[i] = lost[i] \/ lost'[i] = lost[i] + 1
          BY <2>1
    <2> QED BY <1>1, <2>1, <2>2
  <1>5. CASE Crash
    <2>1. cut' = cut \/ cut' = [cut EXCEPT ![current] = @ + 1]
          BY <1>5 DEF Crash
    <2>2. cut'[i] = cut[i] \/ cut'[i] = cut[i] + 1
          BY <2>1
    <2>3. UNCHANGED <<lost, kind>>
          BY <1>5 DEF Crash, Boot, hub
    <2> QED BY <1>1, <2>2, <2>3
  <1>6. CASE Heartbeat \/ Poll \/ Drain \/ DrainFails \/ CycleEnds \/ PostHeard \/ Restart
        BY <1>1, <1>6 DEF Heartbeat, Poll, Drain, DrainFails, CycleEnds, PostHeard, Posted,
                          Restart, Boot, hub, history
  <1>7. CASE \/ BecomeReady \/ Register \/ LoseRegistration
             \/ \E b \in BOOLEAN : SetEnabled(b)
             \/ UNCHANGED vars
        BY <1>1, <1>7 DEF BecomeReady, Register, LoseRegistration, SetEnabled, vars, hub, history
  <1> QED BY NextSteps, <1>2, <1>3, <1>4, <1>5, <1>6, <1>7

\* A step of the commands' course leaves f alone, or extends it by what was issued.
LEMMA CourseGrows ==
    ASSUME TypeOK, NEW k \in Kinds, Issue(k), NEW f, Course(f)
    PROVE  \E g \in [0 .. issued' -> BOOLEAN] :
             Course(g)' /\ \A i \in 0 .. issued : g[i] = f[i]
  <1> DEFINE g == [i \in 0 .. issued + 1 |-> IF i <= issued THEN f[i] ELSE After(k, f[issued])]
  <1>1. /\ issued \in Nat /\ issued' = issued + 1 /\ issued + 1 \in Ids
        /\ kind' = [kind EXCEPT ![issued + 1] = k] /\ ordered' = After(k, ordered)
        BY CommandAssumption DEF Issue, TypeOK, HubOK, Ids
  <1>2. f \in [0 .. issued -> BOOLEAN] /\ f[issued] = ordered
        BY DEF Course
  <1>3. After(k, f[issued]) \in BOOLEAN
        BY <1>1, <1>2, AfterBoolean, CommandAssumption
  <1>4. g \in [0 .. issued' -> BOOLEAN]
        BY <1>1, <1>2, <1>3
  <1>5. kind'[issued + 1] = k /\ \A i \in 1 .. issued : kind'[i] = kind[i]
        BY <1>1 DEF TypeOK, HubOK, Ids
  <1>6. \A i \in 1 .. issued' : g[i] = After(kind'[i], g[i - 1])
    <2>1. ASSUME NEW i \in 1 .. issued PROVE g[i] = After(kind'[i], g[i - 1])
          BY <1>1, <1>5 DEF Course
    <2>2. g[issued + 1] = After(kind'[issued + 1], g[(issued + 1) - 1])
      <3>1. g[issued + 1] = After(k, f[issued]) /\ g[issued] = f[issued]
            BY <1>1
      <3>2. (issued + 1) - 1 = issued
            BY <1>1
      <3> QED BY <1>5, <3>1, <3>2
    <2>3. \A i \in 1 .. issued' : i \in 1 .. issued \/ i = issued + 1
          BY <1>1
    <2> HIDE DEF g
    <2> QED BY <2>1, <2>2, <2>3
  <1>7. g[issued'] = ordered'
        BY <1>1, <1>2
  <1>8. (\A i \in 0 .. issued : g[i] = f[i]) /\ g[0] = TRUE
        BY <1>1 DEF Course
  <1> HIDE DEF g
  <1> QED BY <1>4, <1>6, <1>7, <1>8 DEF Course

\* Nothing in a course depends on anything but the commands.
LEMMA CourseKept ==
    ASSUME NEW f, Course(f), UNCHANGED <<issued, kind, ordered>>
    PROVE  Course(f)'
  BY DEF Course

\* What each step does to a run that is Along(d, f): one lemma per group of actions.

\* A new command makes the course longer.
LEMMA AlongIssue ==
    ASSUME CommandInv, NEW d \in 0 .. issued, NEW f, Along(d, f), NEW k \in Kinds, Issue(k)
    PROVE  \E g \in [0 .. issued' -> BOOLEAN] : d \in 0 .. issued' /\ Along(d, g)'
  <1>1. PICK g \in [0 .. issued' -> BOOLEAN] :
               Course(g)' /\ \A i \in 0 .. issued : g[i] = f[i]
        BY CourseGrows DEF CommandInv, Along
  <1>2. /\ issued \in Nat /\ issued' = issued + 1 /\ queue' = queue \union {issued + 1}
        /\ UNCHANGED <<pending, array, current, stage, relay, kept, cut>>
        /\ \A i \in 1 .. issued : kind'[i] = kind[i]
        BY CommandAssumption DEF Issue, CommandInv, TypeOK, HubOK, Ids, work, outlet, history
  <1>3. queue' = (d + 1) .. issued'
        BY <1>2 DEF Along
  <1>4. d \in 0 .. issued' /\ g[d] = f[d] /\ d \in Nat /\ d + 1 \in Nat
        BY <1>1, <1>2
  <1>5. Upcoming(d, pending)'
        BY <1>2, <1>4 DEF Along, Upcoming
  <1>6. Between(d, f) => Between(d, g)'
        BY <1>2, <1>4 DEF Between, Upcoming
  <1>7. AtCommand(d, f) => AtCommand(d, g)'
        BY <1>1, <1>2, <1>4 DEF AtCommand, Upcoming
  <1>8. BeforeRestart(d, f) => BeforeRestart(d, g)'
        BY <1>2, <1>4 DEF BeforeRestart
  <1> QED BY <1>1, <1>3, <1>4, <1>5, <1>6, <1>7, <1>8 DEF Along

\* Fetching commands leaves the device where it was on the course.
LEMMA AlongFetch ==
    ASSUME CommandInv, NEW d \in 0 .. issued, NEW f, Along(d, f),
           Heartbeat \/ Poll \/ Drain \/ DrainFails
    PROVE  Along(d, f)'
  <1>1. /\ array = {} /\ current = 0
        /\ UNCHANGED <<queue, issued, kind, ordered, current, stage, relay, kept, cut>>
    <2>1. CASE Heartbeat \/ Poll
          BY <2>1 DEF Heartbeat, Poll, MayCall, InService, Idle, outlet, history, hub
    <2>2. CASE Drain \/ DrainFails
          BY <2>2 DEF Drain, DrainFails, InService, Idle, outlet, history, hub
    <2> QED BY <2>1, <2>2
  <1>2. /\ pending' = {} \/ pending' = queue \/ pending' = pending
        /\ array' = {} \/ array' = queue \/ array' = pending
    <2>1. CASE Heartbeat \/ Poll
          BY <1>1, <2>1 DEF Heartbeat, Poll
    <2>2. CASE Drain \/ DrainFails
          BY <1>1, <2>2 DEF Drain, DrainFails
    <2> QED BY <2>1, <2>2
  <1>3. Upcoming(d, {}) /\ Upcoming(d, queue) /\ Upcoming(d, pending)
    <2>1. issued \in Nat /\ d <= issued
          BY DEF CommandInv, TypeOK, HubOK
    <2>2. (d + 1) .. d = {} /\ d \in d .. issued /\ issued \in d .. issued
          BY <2>1
    <2> QED BY <2>2 DEF Along, Upcoming
  <1>4. Upcoming(d, pending)' /\ Upcoming(d, array)'
        BY <1>1, <1>2, <1>3 DEF Upcoming
  <1>5. Between(d, f)
        BY <1>1 DEF Along, AtCommand, BeforeRestart, CommandInv, TypeOK, WorkOK
  <1>6. Between(d, f)'
        BY <1>1, <1>4, <1>5 DEF Between
  <1>7. Course(f)'
        BY <1>1, CourseKept DEF Along
  <1> QED BY <1>1, <1>4, <1>6, <1>7 DEF Along

\* Carrying out a command takes the device a step along it,
LEMMA AlongExecute ==
    ASSUME CommandInv, Clean, NEW d \in 0 .. issued, NEW f, Along(d, f),
           NEW c \in Ids, Execute(c)
    PROVE  Along(d, f)'
  <1>1. /\ current = 0 /\ stage \notin {"delay", "post", "restart"}
        /\ c \in array /\ \A j \in array : c <= j
        /\ issued \in 0 .. MaxIssued
        BY DEF Execute, First, CommandInv, TypeOK, WorkOK, HubOK
  <1>2. Between(d, f)
        BY <1>1 DEF Along, AtCommand, BeforeRestart
  <1>3. PICK m \in d .. issued : array = (d + 1) .. m
        BY <1>2 DEF Between, Upcoming
  <1>4. c = d + 1 /\ d < issued /\ d + 1 \in Ids /\ d + 1 <= m
    <2>1. /\ issued \in Nat /\ d \in Nat /\ m \in Nat /\ c \in Nat
          /\ d <= m /\ m <= issued /\ issued <= MaxIssued
          BY <1>1, CommandAssumption DEF Ids
    <2>2. d + 1 <= c /\ c <= m
          BY <1>1, <1>3, <2>1
    <2>3. d + 1 \in array
          BY <1>3, <2>1, <2>2
    <2>4. c <= d + 1
          BY <1>1, <2>3
    <2> QED BY <2>1, <2>2, <2>4, CommandAssumption DEF Ids
  <1>5. array' = (d + 2) .. m
        BY <1>3, <1>4 DEF Execute
  <1>6. /\ UNCHANGED <<hub, pending>> /\ current' = d + 1 /\ stage' = StageOf(kind[d + 1])
        /\ relay' = IF kind[d + 1] = "reset" THEN relay
                    ELSE IF kind[d + 1] = "cycle" THEN FALSE ELSE After(kind[d + 1], relay)
        /\ kept' = IF kind[d + 1] = "reset" THEN TRUE ELSE relay'
        BY <1>4 DEF Execute
  <1>7. Upcoming(d + 1, array)'
        BY <1>4, <1>5, <1>6 DEF Upcoming, hub
  <1>8. /\ f \in [0 .. issued -> BOOLEAN] /\ f[d + 1] = After(kind[d + 1], f[d])
        /\ kind[d + 1] \in AllKinds /\ relay \in BOOLEAN /\ f[d] \in BOOLEAN
    <2>1. f[d + 1] = After(kind[d + 1], f[(d + 1) - 1]) /\ (d + 1) - 1 = d
          BY <1>1, <1>4 DEF Along, Course
    <2>2. f \in [0 .. issued -> BOOLEAN]
          BY DEF Along, Course
    <2>3. kind[d + 1] \in AllKinds /\ relay \in BOOLEAN
          BY <1>4 DEF CommandInv, TypeOK, HubOK, LinkOK
    <2> QED BY <2>1, <2>2, <2>3
  <1>9. After(kind[d + 1], relay) = f[d + 1]
    <2>1. CASE relay = f[d]
          BY <1>8, <2>1
    <2>2. CASE kind[d + 1] \in Deciding
          BY <1>8, <2>2, AfterDecides
    <2> QED BY <1>2, <2>1, <2>2 DEF Between
  <1>10. AtCommand(d, f)'
    <2>1. CASE kind[d + 1] = "cycle"
          BY <1>4, <1>6, <1>7, <2>1 DEF AtCommand, StageOf, hub
    <2>2. CASE kind[d + 1] = "reset"
      <3>1. f[d + 1] = TRUE
            BY <1>8, <2>2, AfterDecides
      <3> QED BY <1>4, <1>6, <1>7, <2>2, <3>1 DEF AtCommand, StageOf, hub
    <2>3. CASE kind[d + 1] \notin {"cycle", "reset"}
          BY <1>4, <1>6, <1>7, <1>9, <2>3 DEF AtCommand, StageOf, hub
    <2> QED BY <2>1, <2>2, <2>3
  <1>11. Upcoming(d, pending)'
        BY <1>6 DEF Along, Upcoming, hub
  <1> QED BY <1>6, <1>10, <1>11, CourseKept DEF Along, hub

\* as does the end of a relay_cycle.
LEMMA AlongCycleEnds ==
    ASSUME CommandInv, NEW d \in 0 .. issued, NEW f, Along(d, f), CycleEnds
    PROVE  Along(d, f)'
  <1>1. /\ UNCHANGED <<hub, pending, array, current>> /\ stage = "delay"
        /\ stage' = "post" /\ relay' = TRUE /\ kept' = TRUE /\ current # 0
        BY DEF CycleEnds, CommandInv, TypeOK, WorkOK
  <1>2. AtCommand(d, f)
        BY <1>1 DEF Along, Between, BeforeRestart
  <1>3. f[d + 1] = TRUE
    <2>1. d + 1 \in 1 .. issued /\ (d + 1) - 1 = d /\ kind[d + 1] = "cycle" /\ f[d] \in BOOLEAN
          BY <1>1, <1>2 DEF AtCommand, Along, Course, CommandInv, TypeOK, HubOK
    <2> QED BY <2>1, AfterDecides DEF Along, Course
  <1>4. AtCommand(d, f)'
        BY <1>1, <1>2, <1>3 DEF AtCommand, Upcoming, hub
  <1>5. Upcoming(d, pending)'
        BY <1>1 DEF Along, Upcoming, hub
  <1> QED BY <1>1, <1>4, <1>5, CourseKept DEF Along, hub

\* A result that is heard settles the step.
LEMMA AlongPostHeard ==
    ASSUME CommandInv, NEW d \in 0 .. issued, NEW f, Along(d, f), PostHeard
    PROVE  d + 1 \in 0 .. issued /\ Along(d + 1, f)'
  <1>1. /\ stage = "post" /\ current # 0 /\ queue' = queue \ {current}
        /\ UNCHANGED <<issued, kind, ordered, pending, array, relay, kept>>
        BY DEF PostHeard, Posted, CommandInv, TypeOK, WorkOK, outlet
  <1>2. /\ AtCommand(d, f) /\ current = d + 1 /\ d < issued /\ issued \in Nat
        /\ kept = f[d + 1] /\ (kind[d + 1] # "reset" => relay = kept)
        BY <1>1 DEF Along, Between, BeforeRestart, AtCommand, CommandInv, TypeOK, HubOK
  <1>3. queue' = (d + 2) .. issued
        BY <1>1, <1>2 DEF Along
  <1>4. pending = {}
        BY <1>1 DEF CommandInv, Held, Idle
  <1>5. Upcoming(d + 1, {})' /\ Upcoming(d + 1, array)'
    <2>1. (d + 2) .. (d + 1) = {} /\ d + 1 \in (d + 1) .. issued /\ (d + 1) + 1 = d + 2
          BY <1>2
    <2>2. Upcoming(d + 1, {}) /\ Upcoming(d + 1, array)
          BY <1>2, <2>1 DEF AtCommand, Upcoming
    <2> QED BY <1>1, <2>2 DEF Upcoming
  <1>6. Between(d + 1, f)' \/ BeforeRestart(d + 1, f)'
    <2>1. CASE kind[d + 1] \in {"restart", "reset"}
          BY <1>1, <1>2, <2>1 DEF PostHeard, Posted, BeforeRestart
    <2>2. CASE kind[d + 1] \notin {"restart", "reset"}
          BY <1>1, <1>2, <1>5, <2>2 DEF PostHeard, Posted, Between
    <2> QED BY <2>1, <2>2
  <1>7. Course(f)'
        BY <1>1, CourseKept DEF Along
  <1> QED BY <1>1, <1>2, <1>3, <1>4, <1>5, <1>6, <1>7 DEF Along

\* A restart asked for leaves the device on the course,
LEMMA AlongRestart ==
    ASSUME CommandInv, NEW d \in 0 .. issued, NEW f, Along(d, f), Restart
    PROVE  Along(d, f)'
  <1>1. /\ BeforeRestart(d, f) /\ UNCHANGED <<hub, kept>>
        /\ pending' = {} /\ array' = {} /\ current' = 0 /\ relay' = kept
        BY DEF Along, Between, AtCommand, Restart, Boot, CommandInv, TypeOK, WorkOK
  <1>2. Upcoming(d, {})'
        BY <1>1 DEF Upcoming, hub, CommandInv, TypeOK, HubOK
  <1>3. Between(d, f)'
        BY <1>1, <1>2 DEF BeforeRestart, Between
  <1> QED BY <1>1, <1>2, <1>3, CourseKept DEF Along, hub

\* and so does a crash: the command that was cut off is the next one again.
LEMMA AlongCrash ==
    ASSUME CommandInv, Clean', NEW d \in 0 .. issued, NEW f, Along(d, f), Crash
    PROVE  Along(d, f)'
  <1>1. /\ UNCHANGED <<hub, kept>>
        /\ pending' = {} /\ array' = {} /\ current' = 0 /\ relay' = kept
        /\ cut' = IF stage \in {"delay", "post"} THEN [cut EXCEPT ![current] = @ + 1] ELSE cut
        BY DEF Crash, Boot
  <1>2. Upcoming(d, {})'
        BY <1>1 DEF Upcoming, hub, CommandInv, TypeOK, HubOK
  <1>3. Between(d, f)'
    <2>1. CASE BeforeRestart(d, f)
          BY <1>1, <1>2, <2>1 DEF BeforeRestart, Between
    <2>2. CASE Between(d, f)
      <3>1. cut' = cut
            BY <1>1, <2>2 DEF Between, CommandInv, TypeOK, WorkOK
      <3> QED BY <1>1, <1>2, <2>2, <3>1 DEF Between, hub
    <2>3. CASE AtCommand(d, f)
      <3>1. /\ current = d + 1 /\ d < issued /\ d + 1 \in Ids /\ d \in Nat
            /\ cut' = [cut EXCEPT ![d + 1] = @ + 1] /\ cut \in [Ids -> Nat]
        <4>1. current = d + 1 /\ d < issued /\ stage \in {"delay", "post"}
              BY <2>3 DEF AtCommand
        <4>2. issued \in 0 .. MaxIssued /\ cut \in [Ids -> Nat]
              BY DEF CommandInv, TypeOK, HubOK, CountsOK
        <4>3. d + 1 \in Ids /\ d \in Nat
              BY <4>1, <4>2, CommandAssumption DEF Ids
        <4> QED BY <1>1, <4>1, <4>2, <4>3
      <3>2. cut'[d + 1] > 0
            BY <3>1
      <3>3. kind[d + 1] # "toggle" /\ kind[d + 1] \in AllKinds
            BY <1>1, <3>1, <3>2 DEF Clean, hub, CommandInv, TypeOK, HubOK
      <3>4. CASE kind[d + 1] \in Deciding
            BY <1>1, <1>2, <3>1, <3>2, <3>4 DEF Between, hub
      <3>5. CASE kind[d + 1] \notin Deciding
        <4>1. kind[d + 1] # "cycle"
              BY <3>5 DEF Deciding
        <4>2. kept = f[d + 1]
              BY <2>3, <4>1 DEF AtCommand
        <4>3. f[d + 1] = After(kind[d + 1], f[(d + 1) - 1]) /\ (d + 1) - 1 = d /\ f[d] \in BOOLEAN
              BY <3>1 DEF Along, Course, CommandInv, TypeOK, HubOK
        <4>4. f[d + 1] = f[d]
              BY <3>3, <3>5, <4>3, AfterDecides
        <4> QED BY <1>1, <1>2, <4>2, <4>4 DEF Between
      <3> QED BY <3>4, <3>5
    <2> QED BY <2>1, <2>2, <2>3 DEF Along
  <1> QED BY <1>1, <1>2, <1>3, CourseKept DEF Along, hub

\* What concerns the link only does not move the device.
LEMMA AlongLink ==
    ASSUME CommandInv, NEW d \in 0 .. issued, NEW f, Along(d, f),
           \/ BecomeReady \/ Register \/ LoseRegistration
           \/ \E b \in BOOLEAN : SetEnabled(b)
           \/ UNCHANGED vars
    PROVE  Along(d, f)'
  <1>1. UNCHANGED <<hub, work, outlet, cut>>
        BY DEF BecomeReady, Register, LoseRegistration, SetEnabled, vars, history
  <1> QED BY <1>1, CourseKept
          DEF Along, Upcoming, Between, AtCommand, BeforeRestart, hub, work, outlet

\* Every step keeps the device on the course.
LEMMA InOrderStep == CommandInv /\ InOrder /\ [Next]_vars => InOrder'
  <1> SUFFICES ASSUME CommandInv, InOrder, [Next]_vars, Clean'
               PROVE  \E e \in 0 .. issued', g \in [0 .. issued' -> BOOLEAN] : Along(e, g)'
      BY DEF InOrder
  <1>1. Clean
        BY CleanBefore
  <1>2. PICK d \in 0 .. issued, f \in [0 .. issued -> BOOLEAN] : Along(d, f)
        BY <1>1 DEF InOrder
  <1>3. CASE \E k \in Kinds : Issue(k)
        BY <1>2, <1>3, AlongIssue
  <1>4. CASE Heartbeat \/ Poll \/ Drain \/ DrainFails
    <2>1. issued' = issued
          BY <1>4 DEF Heartbeat, Poll, Drain, DrainFails, hub
    <2> QED BY <1>2, <1>4, <2>1, AlongFetch
  <1>5. CASE \E i \in Ids : Execute(i)
    <2>1. issued' = issued
          BY <1>5 DEF Execute, hub
    <2> QED BY <1>1, <1>2, <1>5, <2>1, AlongExecute
  <1>6. CASE CycleEnds
    <2>1. issued' = issued
          BY <1>6 DEF CycleEnds, hub
    <2> QED BY <1>2, <1>6, <2>1, AlongCycleEnds
  <1>7. CASE PostHeard
    <2>1. issued' = issued
          BY <1>7 DEF PostHeard, Posted
    <2> QED BY <1>2, <1>7, <2>1, AlongPostHeard
  <1>8. CASE PostLost
    <2>1. current \in Ids /\ lost' = [lost EXCEPT ![current] = @ + 1]
          BY <1>8 DEF PostLost, Posted, CommandInv, TypeOK, WorkOK
    <2>2. lost'[current] > 0
          BY <2>1 DEF CommandInv, TypeOK, CountsOK
    <2> QED BY <2>1, <2>2 DEF Clean
  <1>9. CASE Restart
    <2>1. issued' = issued
          BY <1>9 DEF Restart, Boot, hub
    <2> QED BY <1>2, <1>9, <2>1, AlongRestart
  <1>10. CASE Crash
    <2>1. issued' = issued
          BY <1>10 DEF Crash, Boot, hub
    <2> QED BY <1>2, <1>10, <2>1, AlongCrash
  <1>11. CASE \/ BecomeReady \/ Register \/ LoseRegistration
              \/ \E b \in BOOLEAN : SetEnabled(b)
              \/ UNCHANGED vars
    <2>1. issued' = issued
          BY <1>11 DEF BecomeReady, Register, LoseRegistration, SetEnabled, vars, hub
    <2> QED BY <1>2, <1>11, <2>1, AlongLink
  <1> QED BY NextSteps, <1>3, <1>4, <1>5, <1>6, <1>7, <1>8, <1>9, <1>10, <1>11

\* As long as all results arrive the device works the hub's queue off from its start,
\* through restarts, crashes and re-delivery, and the relay follows the commands.
THEOREM SettledInOrder == Spec => []InOrder
  <1>1. ASSUME Init PROVE InOrder
    <2>1. /\ issued = 0 /\ queue = {} /\ pending = {} /\ array = {} /\ current = 0
          /\ relay = TRUE /\ kept = TRUE /\ ordered = TRUE
          BY <1>1 DEF Init
    <2> DEFINE f == [i \in 0 .. 0 |-> TRUE]
    <2>2. f \in [0 .. issued -> BOOLEAN] /\ f[0] = TRUE /\ 0 \in 0 .. issued
          BY <2>1
    <2>3. Course(f)
      <3>1. \A i \in 1 .. issued : FALSE
            BY <2>1
      <3> QED BY <2>1, <2>2, <3>1 DEF Course
    <2>4. Upcoming(0, {})
          BY <2>1 DEF Upcoming
    <2> HIDE DEF f
    <2>5. Along(0, f)
      <3>1. Between(0, f)
            BY <2>1, <2>2, <2>4 DEF Between
      <3>2. queue = (0 + 1) .. issued
            BY <2>1
      <3> QED BY <2>1, <2>3, <2>4, <3>1, <3>2 DEF Along
    <2> QED BY <2>2, <2>5 DEF InOrder
  <1> QED BY <1>1, InOrderStep, CommandInvariant, PTL DEF Spec

\* Restarts in the middle of an array, crashes and new registrations do not change
\* what a run of commands leads to, as long as all results arrive and no toggle is cut
\* off (processCommandsArray, executeCommand).
THEOREM RelayEndsAsOrdered == Spec => []RelayAsOrdered
  <1>1. CommandInv /\ InOrder => RelayAsOrdered
    <2> SUFFICES ASSUME CommandInv, InOrder, Clean, queue = {}, Idle
                 PROVE  relay = ordered
        BY DEF RelayAsOrdered, Clean
    <2>1. PICK d \in 0 .. issued, f \in [0 .. issued -> BOOLEAN] : Along(d, f)
          BY DEF InOrder
    <2>2. d = issued
          BY <2>1 DEF Along, CommandInv, TypeOK, HubOK
    <2>3. Between(d, f)
          BY <2>1 DEF Along, Idle, AtCommand, BeforeRestart, CommandInv, TypeOK, WorkOK, HubOK
    <2> QED BY <2>1, <2>2, <2>3 DEF Between, Along, Course, CommandInv, TypeOK, HubOK
  <1> QED BY <1>1, SettledInOrder, CommandInvariant, PTL

-------------------------------------------------------------------------------
\* Refinement

\* Every step is one of AtLeastOnce, or none.
LEMMA DeliveryStep == CommandInv /\ [Next]_vars => [Delivery!Next]_(Delivery!vars)
  <1> SUFFICES ASSUME CommandInv, [Next]_vars PROVE [Delivery!Next]_(Delivery!vars)
      OBVIOUS
  <1> USE DEF CommandInv, Delivery!Next, Delivery!vars
  <1>1. CASE \E k \in Kinds : Issue(k)
    <2>1. /\ issued < MaxIssued /\ queue' = queue \union {issued + 1}
          /\ UNCHANGED runs
          BY <1>1 DEF Issue, history
    <2>2. issued + 1 \in Ids /\ issued + 1 \notin queue /\ issued + 1 > issued
          BY <2>1, CommandAssumption DEF TypeOK, HubOK, Held, Ids
    <2>3. runs[issued + 1] = 0
          BY <2>2 DEF UnissuedIdle
    <2>4. Delivery!Issue(issued + 1)
          BY <2>1, <2>2, <2>3 DEF Delivery!Issue
    <2> QED BY <2>2, <2>4
  <1>2. CASE \E i \in Ids : Execute(i)
    <2>1. PICK i \in Ids : Execute(i)
          BY <1>2
    <2>2. Delivery!CarryOut(i)
          BY <2>1 DEF Execute, First, Held, hub, Delivery!CarryOut
    <2> QED BY <2>1, <2>2
  <1>3. CASE PostHeard
    <2>1. current \in queue /\ current \in Ids /\ InHand(current)
          BY <1>3 DEF PostHeard, Posted, Held, TypeOK, HubOK, InHand
    <2>2. runs[current] > 0
          BY <2>1 DEF RunsAccountedFor, TypeOK, CountsOK
    <2>3. Delivery!Settle(current)
          BY <1>3, <2>1, <2>2 DEF PostHeard, history, Delivery!Settle
    <2> QED BY <2>1, <2>3
  <1>4. CASE Heartbeat \/ Poll \/ Drain \/ DrainFails \/ CycleEnds \/ PostLost \/ Restart \/ Crash
        BY <1>4 DEF Heartbeat, Poll, Drain, DrainFails, CycleEnds, PostLost, Restart, Crash, Boot,
                    hub, history
  <1>5. CASE \/ BecomeReady \/ Register \/ LoseRegistration
             \/ \E b \in BOOLEAN : SetEnabled(b)
             \/ UNCHANGED vars
        BY <1>5 DEF BecomeReady, Register, LoseRegistration, SetEnabled, vars, hub, history
  <1> QED BY NextSteps, <1>1, <1>2, <1>3, <1>4, <1>5

\* Device and hub deliver each command at least once: what is settled was carried
\* out, and is not carried out again, by poll, heartbeat or after a restart
\* (pollCommands, sendHeartbeat, loop, postCommandResult).
THEOREM ImplementsDelivery == Spec => DeliveredAtLeastOnce
  <1>1. Init => Delivery!Init
        BY DEF Init, Delivery!Init, Zero
  <1> QED BY <1>1, DeliveryStep, CommandInvariant, PTL
          DEF Spec, DeliveredAtLeastOnce, Delivery!Spec
===============================================================================
