-------------------------------- MODULE HubLink --------------------------------
(***************************************************************************)
(* When the device calls the hub (CentralClient::loop), what it does with  *)
(* each answer, and how it gets and loses its registration: announce,      *)
(* register, then heartbeats, polls and firmware checks.  What the hub     *)
(* orders and how that is carried out is the subject of HubCommands.       *)
(*                                                                         *)
(* The timers are the time left until their call is due, in ticks.  A pass *)
(* of loop() is much shorter than a tick, so that the clock waits for a    *)
(* call that is due.  A call that reaches the hub at the first URL takes   *)
(* no time; one that has to try others, or finds none, takes CallTime.     *)
(*                                                                         *)
(* The world outside: there is no Wi-Fi; or the hub works as it should     *)
(* behind one URL, home, and the others are dead; or it is erratic, and    *)
(* any of the device's URLs may give any answer, or none.                  *)
(***************************************************************************)
EXTENDS Naturals

CONSTANTS Urls,         \* number of config_->central.baseUrls
          Attempts,     \* MAX_ATTEMPTS_PER_CYCLE
          CallTime,     \* what a call takes that does not find the hub at once
          Spacing,      \* CENTRAL_ACTION_SPACING_MS
          SlotDelay,    \* TRANSPORT_FAILURE_SLOT_DELAY_MS
          Retry,        \* INITIAL_RETRY_DELAY_MS
          MaxRetry,     \* MAX_RETRY_DELAY_MS
          MaxAnnounce,  \* MAX_ANNOUNCE_RETRY_DELAY_MS
          FirmwareFloor,\* TRANSPORT_FAILURE_FIRMWARE_FLOOR_MS
          NoTokenRetry, \* REGISTERED_NO_TOKEN_RETRY_DELAY_MS
          FirstAfter,   \* delays of the first heartbeat, poll, firmware check
          Every         \* and of the ones after them

Calls  == {"announce", "register", "heartbeat", "poll", "firmware"}
Steady == {"heartbeat", "poll", "firmware"}

ASSUME LinkAssumption ==
    /\ Urls \in Nat \ {0} /\ Attempts \in 1 .. Urls
    /\ CallTime \in Nat /\ Spacing \in Nat /\ SlotDelay \in Nat
    /\ Retry \in Nat /\ MaxRetry \in Nat /\ MaxAnnounce \in Nat
    /\ FirmwareFloor \in Nat /\ NoTokenRetry \in Nat
    /\ Retry > CallTime /\ 2 * Retry <= MaxRetry /\ 2 * Retry <= MaxAnnounce
    /\ FirstAfter \in [Steady -> Nat] /\ Every \in [Steady -> Nat]

VARIABLES due,        \* the next...At_ timers
          slot,       \* nextTransportSlotAt_
          backoff,    \* retryBackoffMs_
          steady,     \* steadyStateScheduled_
          start,      \* lastGoodBaseUrlIndex_
          device,     \* deviceToken: none, valid, or void: the hub has revoked it
          enrollment, \* enrollmentToken: none, valid, or void: used or revoked
          deferred,   \* are there commands in pendingCommandsJson_?
          net,        \* "offline", "up" or "erratic"
          home,       \* the URL behind which the hub is while it is up, else 0
          rest        \* history: time since the last call failed, up to Lull,
                      \* unless there was a restart or Redirected since

timers   == <<due, slot, backoff>>
tokens   == <<device, enrollment>>
outside  == <<net, home>>
linkVars == <<timers, steady, start, tokens, deferred, outside, rest>>

Tokens == {"none", "valid", "void"}
Lull   == 2 * Retry

\* The type of the state.
LinkTypeOK ==
    /\ due \in [Calls -> Nat] /\ slot \in Nat
    /\ backoff \in Retry .. MaxRetry
    /\ steady \in BOOLEAN /\ deferred \in BOOLEAN
    /\ start \in 0 .. Urls - 1
    /\ device \in Tokens /\ enrollment \in Tokens
    /\ net \in {"offline", "up", "erratic"} /\ home \in 0 .. Urls - 1
    /\ rest \in 0 .. Lull

LinkInit ==
    /\ due = [c \in Calls |-> 0] /\ slot = 0 /\ backoff = Retry
    /\ steady = FALSE /\ deferred = FALSE /\ start = 0
    /\ device \in {"none", "valid"} /\ enrollment \in {"none", "valid"}
    /\ net = "offline" /\ home = 0
    /\ rest = Lull

-------------------------------------------------------------------------------
\* Time

Lesser(a, b)  == IF a < b THEN a ELSE b
Greater(a, b) == IF a > b THEN a ELSE b
Less(a, t)    == IF a > t THEN a - t ELSE 0

\* The timers after t more ticks.
Later(t) == [c \in Calls |-> Less(due[c], t)]

Rested(t) == Lesser(rest + t, Lull)

\* Mutant of Doubled: no cap.
DoubledUncapped == 2 * backoff

\* scheduleRetry
Doubled == Lesser(2 * backoff, MaxRetry)

\* How long scheduleTransportFailureCooldown puts off a call at least.
Cooling(c) ==
    CASE c = "announce" -> Lesser(Doubled, MaxAnnounce)
      [] c = "firmware" -> Greater(Doubled, FirmwareFloor)
      [] OTHER          -> Doubled

\* The timers after a call of t ticks that failed.
Cooled(t) == [c \in Calls |-> Greater(Less(due[c], t), Cooling(c))]

-------------------------------------------------------------------------------
\* Which call a pass of loop() makes

\* buildAttemptOrder: the URLs a call tries.
Window == {(start + k) % Urls : k \in 0 .. Attempts - 1}

\* Does a call get the right answer?
Reaches == net = "up" /\ home \in Window

Wanted(c) ==
    CASE c = "announce"  -> device = "none" /\ enrollment = "none"
      [] c = "register"  -> device = "none" /\ enrollment # "none"
      [] c = "heartbeat" -> device # "none" /\ steady
      [] c = "poll"      -> device # "none" /\ steady /\ due["heartbeat"] > 0
      [] c = "firmware"  -> /\ device # "none" /\ steady
                            /\ due["heartbeat"] > 0 /\ due["poll"] > 0

\* A pass that may call: it has carried out what was put off.
Ready == net # "offline" /\ ~deferred /\ slot = 0

Turn(c) == Ready /\ Wanted(c) /\ due[c] = 0

\* Is there a token, but no schedule; and the other way round, with no call due?
Unscheduled == Ready /\ device # "none" /\ ~steady
Outdated    == Ready /\ device = "none" /\ steady /\ \A c \in Calls : ~Turn(c)

\* The first pass with a token only sets the timers.
ScheduleSteadyStateWork ==
    /\ Unscheduled
    /\ due' = [c \in Calls |-> IF c \in Steady THEN FirstAfter[c] ELSE due[c]]
    /\ slot' = Spacing
    /\ steady' = TRUE
    /\ UNCHANGED <<backoff, start, tokens, deferred, outside, rest>>

\* A pass without a token forgets the schedule, as the calls for one do.
Unschedule ==
    /\ Outdated
    /\ steady' = FALSE
    /\ UNCHANGED <<timers, start, tokens, deferred, outside, rest>>

-------------------------------------------------------------------------------
\* Calls that fail

\* The token a call shows the hub.
Credential(c) == IF c = "register" THEN enrollment ELSE device

\* The URL that answered becomes the first one to try; none did: no change.
Answered == start' \in IF net = "up" THEN {home} ELSE Window

Unanswered == start' \in IF net = "up" THEN {start} ELSE Window

\* Mutant of Backoff: only the call that failed is put off.
BackoffAlone(c, t) ==
    /\ due' = [Later(t) EXCEPT ![c] = Less(Doubled, t)]
    /\ slot' = Spacing
    /\ backoff' = Doubled
    /\ steady' = (steady /\ c \in Steady)
    /\ rest' = 0

\* scheduleTransportFailureCooldown, and what loop() makes of the FALSE it gets.
Backoff(c, t) ==
    /\ due' = IF c \in {"announce", "firmware"} THEN Cooled(t)
              ELSE [Cooled(t) EXCEPT ![c] = Less(Doubled, t)]
    /\ slot' = Spacing
    /\ backoff' = Doubled
    /\ steady' = (steady /\ c \in Steady)
    /\ rest' = 0

\* No answer, or one that is neither 2xx nor one of those below.
Fail(c, t) ==
    /\ Turn(c)
    /\ ~Reaches \/ (c = "firmware" /\ device = "void")
    /\ Backoff(c, t)
    /\ IF Reaches THEN Answered ELSE Unanswered
    /\ UNCHANGED <<tokens, deferred, outside>>

\* Mutant of Refuse: a refused enrollment token is kept.
RefuseKeeps(c, t) ==
    /\ Turn(c)
    /\ net = "erratic" \/ (Reaches /\ Credential(c) = "void")
    /\ Backoff(c, t)
    /\ \/ c = "register" /\ UNCHANGED tokens
       \/ c \in {"heartbeat", "poll"} /\ device' = "none" /\ enrollment' = enrollment
    /\ Answered
    /\ UNCHANGED <<deferred, outside>>

\* A token the hub does not take, 401, 403 or 409 enrollment_consumed, is dropped.
Refuse(c, t) ==
    /\ Turn(c)
    /\ net = "erratic" \/ (Reaches /\ Credential(c) = "void")
    /\ Backoff(c, t)
    /\ \/ c = "register" /\ enrollment' = "none" /\ device' = device
       \/ c \in {"heartbeat", "poll"} /\ device' = "none" /\ enrollment' = enrollment
    /\ Answered
    /\ UNCHANGED <<deferred, outside>>

\* An announce answered with an error, or a register with 429: only its own
\* timer moves.
RetryLater(c, t) ==
    /\ Turn(c) /\ c \in {"announce", "register"}
    /\ net = "erratic"
    /\ due' = [Later(t) EXCEPT ![c] = IF c = "announce" THEN Cooling(c) ELSE Less(Doubled, t)]
    /\ slot' = Spacing
    /\ backoff' = Doubled
    /\ steady' = FALSE
    /\ rest' = 0
    /\ Answered
    /\ UNCHANGED <<tokens, deferred, outside>>

\* An answer that cannot be used: no JSON, nothing known in it, or an update
\* that fails.  The firmware check alone stays due.
Garbled(c, t) ==
    /\ Turn(c) /\ c # "heartbeat"
    /\ net = "erratic" \/ (Reaches /\ c = "firmware" /\ device = "valid")
    /\ due' = CASE c = "announce" -> [Later(t) EXCEPT ![c] = Retry]
                [] c = "firmware" -> Later(t)
                [] OTHER          -> [Later(t) EXCEPT ![c] = Less(backoff, t)]
    /\ slot' = Spacing
    /\ steady' = (steady /\ c \in Steady)
    /\ rest' = Rested(t)
    /\ Answered
    /\ UNCHANGED <<backoff, tokens, deferred, outside>>

-------------------------------------------------------------------------------
\* Calls that succeed

\* What they have in common; the hub takes a valid token only.
Succeed(c, t, token) ==
    /\ Turn(c)
    /\ net = "erratic" \/ (Reaches /\ token = "valid")
    /\ slot' = Spacing
    /\ rest' = Rested(t)
    /\ Answered
    /\ UNCHANGED outside

\* announceDevice: the hub has no token for the device yet, or believes that the
\* device has one and should register.
Pending(t) ==
    /\ net = "erratic"
    /\ Succeed("announce", t, "none")
    /\ backoff' = Retry
    /\ \E wait \in {Retry, Greater(Retry, NoTokenRetry)}, turn \in {0, due["register"]} :
          due' = [Later(t) EXCEPT !["announce"] = wait, !["register"] = Less(turn, t)]
    /\ steady' = FALSE
    /\ UNCHANGED <<tokens, deferred>>

\* announceDevice: it is adopted, or gets a token in place of the one it lost.
Adopted(t) ==
    /\ Succeed("announce", t, "valid")
    /\ backoff' = Retry
    /\ due' = [Later(t) EXCEPT !["announce"] = Retry, !["register"] = 0]
    /\ steady' = FALSE
    /\ enrollment' \in IF net = "up" THEN {"valid"} ELSE {"valid", "void"}
    /\ UNCHANGED <<device, deferred>>

\* registerDevice; the enrollment token is used up, and kept.
Register(t) ==
    /\ Succeed("register", t, enrollment)
    /\ backoff' = Retry
    /\ due' = [c \in Calls |-> IF c \in Steady THEN FirstAfter[c] ELSE Later(t)[c]]
    /\ steady' = TRUE
    /\ device' \in IF net = "up" THEN {"valid"} ELSE {"valid", "void"}
    /\ enrollment' = "void"
    /\ UNCHANGED deferred

\* sendHeartbeat, with commands in the answer or without
Heartbeat(t) ==
    /\ Succeed("heartbeat", t, device)
    /\ backoff' = Retry
    /\ due' = [Later(t) EXCEPT !["heartbeat"] = Less(Every["heartbeat"], t)]
    /\ deferred' \in BOOLEAN
    /\ UNCHANGED <<steady, tokens>>

\* pollCommands; a result that cannot be posted puts off all calls but the next
\* poll, whose timer loop() sets last.
Poll(t) ==
    /\ Succeed("poll", t, device)
    /\ backoff' = Retry
    /\ \E calm \in {Later(t)} \union (IF net = "erratic" THEN {Cooled(t)} ELSE {}) :
          due' = [calm EXCEPT !["poll"] = Less(Every["poll"], t)]
    /\ UNCHANGED <<steady, tokens, deferred>>

\* checkFirmwareAssignment with nothing to do; it leaves the backoff alone.
Firmware(t) ==
    /\ Succeed("firmware", t, device)
    /\ due' = [Later(t) EXCEPT !["firmware"] = Less(Every["firmware"], t)]
    /\ UNCHANGED <<backoff, steady, tokens, deferred>>

\* The commands put off are carried out, whether or not there is Wi-Fi, and
\* their results posted, if there still is a token.  markSuccess() follows even a
\* post that failed.
Drain(t) ==
    /\ deferred
    /\ \/ /\ net = "erratic" \/ device = "none" \/ (Reaches /\ device = "valid")
          /\ due' = Later(t) /\ slot' = Less(slot, t)
          /\ rest' = Rested(t)
       \/ /\ device = "void" \/ (device = "valid" /\ ~Reaches)
          /\ due' = Cooled(t)
          /\ slot' = Greater(Less(slot, t), Lesser(Doubled, SlotDelay))
          /\ rest' = 0
    /\ deferred' = FALSE
    /\ backoff' = Retry
    /\ \/ device = "none" /\ start' = start
       \/ device # "none" /\ Reaches /\ Answered
       \/ device # "none" /\ ~Reaches /\ Unanswered
    /\ UNCHANGED <<steady, tokens, outside>>

-------------------------------------------------------------------------------
\* The world outside

\* The clock, while loop() has nothing to do.
LinkTick ==
    /\ ~deferred
    /\ \A c \in Calls : ~Turn(c)
    /\ ~Unscheduled /\ ~Outdated
    /\ due' = Later(1) /\ slot' = Less(slot, 1)
    /\ rest' = Rested(1)
    /\ UNCHANGED <<backoff, steady, start, tokens, deferred, outside>>

Change ==
    /\ net' \in {"offline", "up", "erratic"}
    /\ home' \in IF net' = "up" THEN 0 .. Urls - 1 ELSE {0}
    /\ UNCHANGED <<timers, steady, start, tokens, deferred, rest>>

\* The hub forgets the device, or withdraws its enrollment token.
Revoke ==
    /\ \/ device = "valid" /\ device' = "void" /\ enrollment' = enrollment
       \/ enrollment = "valid" /\ enrollment' = "void" /\ device' = device
    /\ UNCHANGED <<timers, steady, start, deferred, outside, rest>>

\* The device passes from one of announce, register and steady work to another.
Redirected ==
    \/ (device = "none") # (device' = "none")
    \/ device = "none" /\ (enrollment = "none") # (enrollment' = "none")

\* POST /api/config/save: the operator gives a new enrollment token, which drops the
\* device token, or gives or takes tokens otherwise.  No timer moves.
SetTokens ==
    /\ \/ enrollment' \in {"valid", "void"} /\ device' = "none"
       \/ enrollment' \in {enrollment, "none"} /\ device' \in Tokens
    /\ rest' = IF Redirected THEN Lull ELSE rest
    /\ UNCHANGED <<timers, steady, start, deferred, outside>>

\* begin() after a restart; its tokens are on flash.
Reboot ==
    /\ due' = [c \in Calls |-> 0] /\ slot' = 0 /\ backoff' = Retry
    /\ steady' = FALSE /\ deferred' = FALSE /\ start' = 0
    /\ rest' = Lull
    /\ UNCHANGED <<tokens, outside>>

Lengths == {0, CallTime}

\* One pass of loop() that does something.
Pass ==
    \/ ScheduleSteadyStateWork \/ Unschedule
    \/ \E t \in Lengths :
          \/ \E c \in Calls : Fail(c, t) \/ Refuse(c, t) \/ RetryLater(c, t) \/ Garbled(c, t)
          \/ Pending(t) \/ Adopted(t) \/ Register(t)
          \/ Heartbeat(t) \/ Poll(t) \/ Firmware(t) \/ Drain(t)

LinkNext == Pass \/ LinkTick \/ Change \/ Revoke \/ SetTokens \/ Reboot

\* loop() keeps running and the clock keeps going.
LinkFairness == WF_linkVars(Pass) /\ WF_linkVars(LinkTick)

LinkSpec == LinkInit /\ [][LinkNext]_linkVars /\ LinkFairness

-------------------------------------------------------------------------------
\* Properties

\* After a call that failed the device leaves the hub alone for twice the first
\* retry delay, but for the time the failed call itself took; neither the slot,
\* which loop() sets back to its usual 1.5 s (central_client.cpp:1504), nor another
\* call whose timer was about to expire, nor a token that the hub refuses shortens
\* that.  A restart does, and so does an operator who gives or takes tokens and so
\* makes another call the next one: an announce error and a 429 put off their own
\* call only, and a new device token starts the schedule from its first delays.
\* The post of a command's result is such a call when it follows a heartbeat
\* (Drain), and is none within a poll, which comes back at its usual interval.
QuietAfterFailure == \A c \in Calls : Turn(c) => rest >= Lull - CallTime

\* No restart, and no token withdrawn or given by hand, from some time on.
LeftAlone == <>[][~Reboot /\ ~Revoke /\ ~SetTokens]_linkVars

\* Whatever happened before, however the tokens were lost and whichever timers
\* were put off: once the hub stays up behind a URL the device tries, it
\* hears a heartbeat and a poll again and again, even if every firmware check
\* gets an answer that cannot be used and is repeated at once
\* (central_client.cpp:1515).
InTouch ==
    (<>[]Reaches /\ LeftAlone) =>
        /\ []<><<\E t \in Lengths : Heartbeat(t)>>_linkVars
        /\ []<><<\E t \in Lengths : Poll(t)>>_linkVars

\* "The rotating start point ensures every URL is still reachable across cycles"
\* (central_client.cpp:50): a hub that stays up behind one of the URLs is found.
EveryUrlReachable ==
    (<>[](net = "up" /\ home = Urls - 1) /\ LeftAlone) => <>Reaches

===============================================================================
