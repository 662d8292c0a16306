-------------------------------- MODULE WifiLink --------------------------------
(***************************************************************************)
(* How the device gets on the Wi-Fi and stays there (WifiManagerService):  *)
(* the walk over the candidate networks at boot, the setup portal when it  *)
(* fails or is asked for, what setup() keeps of the operator's entries     *)
(* (main.cpp), and the supervisor that walks again when the link is lost.  *)
(*                                                                         *)
(* The radio, WiFiManager's own page and the networks are not in this      *)
(* repository.  A network is on the air or not; joining one that is, with  *)
(* the right password, works.  A scan may miss any network.  The SDK may   *)
(* bring a lost link back by itself.                                       *)
(*                                                                         *)
(* The clock is millis(), which wraps.  It runs while the supervisor waits *)
(* and while an attempt fails; what a boot takes is left out.              *)
(***************************************************************************)
EXTENDS Naturals, Sequences, SequencesExt

CONSTANTS Builtin,      \* DevWifiConfig::NETWORKS, their names
          Others,       \* names the operator may enter
          MaxSaved,     \* how many saved networks there may be (5)
          Timeout,      \* connectTimeoutMs_
          Interval,     \* RECONNECT_ATTEMPT_INTERVAL_MS
          Wrap          \* millis() counts modulo this

Networks == Range(Builtin) \union Others

ASSUME WifiAssumption ==
    /\ Builtin \in Seq(STRING) \ {<<>>} /\ Others \subseteq STRING
    /\ MaxSaved \in Nat /\ Timeout \in Nat \ {0} /\ Interval \in Nat
    /\ Wrap \in Nat /\ Wrap > 2 * (Timeout + Interval)

Credentials == [ssid: Networks, right: BOOLEAN]

NoNetwork == "-"

VARIABLES air,        \* the networks on the air
          link,       \* the network the device is on
          saved,      \* config->wifi.savedNetworks in memory; right: its password is
          kept,       \* the same on flash
          candidates, \* candidates_, built once per boot
          state,      \* state_
          forced,     \* explicitRecoveryRequested
          stage,      \* where setup() is: "walk", "portal", "entered"; or "loop"
          round,      \* which of begin()'s two walks it is
          todo,       \* the candidates a walk still has to try
          changed,    \* configChangedByPortal_
          now,        \* millis()
          lastLinkOk, \* lastLinkOkMs_
          next,       \* nextReconnectAttemptMs_
          tried,      \* history: how often this boot tried each candidate
          owed,       \* history: names entered on the portal and accepted
          waited,     \* history: how long the link is down with no attempt to join
          wrapped     \* history: millis() has wrapped since next was set

radio    == <<air, link>>
lists    == <<saved, kept, candidates>>
setup    == <<forced, stage, round, changed>>
clock    == <<now, lastLinkOk, next>>
past     == <<tried, owed, waited, wrapped>>
wifiVars == <<radio, lists, state, setup, todo, clock, past>>

\* The longest the supervisor is expected to wait.
Patience == IF Timeout > Interval THEN Timeout ELSE Interval

\* The type of the state.
WifiTypeOK ==
    /\ air \subseteq Networks /\ link \in Networks \union {NoNetwork}
    /\ saved \in Seq(Credentials) /\ kept \in Seq(Credentials)
    /\ candidates \in Seq(Credentials) /\ todo \in Seq(Credentials)
    /\ Len(saved) <= MaxSaved /\ Len(kept) <= MaxSaved
    /\ state \in {"connecting", "connected", "portal", "reconnecting"}
    /\ stage \in {"walk", "portal", "entered", "loop"}
    /\ round \in 0 .. 2 /\ forced \in BOOLEAN /\ changed \in BOOLEAN
    /\ now \in 0 .. Wrap - 1 /\ lastLinkOk \in 0 .. Wrap - 1 /\ next \in 0 .. Wrap - 1
    /\ owed \subseteq Networks /\ wrapped \in BOOLEAN /\ waited \in 0 .. Patience + 1

Names(list) == {e.ssid : e \in Range(list)}

\* buildCandidateList: the saved networks, then the built-in ones.
Candidates(list) == list \o [i \in DOMAIN Builtin |-> [ssid |-> Builtin[i], right |-> TRUE]]

\* A boot: a walk over the candidates, or the portal at once.
Boots(list, asked) ==
    /\ saved' = list
    /\ candidates' = Candidates(list)
    /\ forced' = asked
    /\ stage' = IF asked THEN "portal" ELSE "walk"
    /\ state' = IF asked THEN "portal" ELSE "connecting"
    /\ round' = 0 /\ todo' = <<>> /\ changed' = FALSE
    /\ now' = 0 /\ lastLinkOk' = 0 /\ next' = 0
    /\ link' = NoNetwork
    /\ tried' = [i \in DOMAIN candidates' |-> 0]
    /\ waited' = 0 /\ wrapped' = FALSE

WifiInit ==
    /\ air = {}  /\ link = NoNetwork
    /\ kept \in {<<>>} \union (IF MaxSaved = 0 THEN {} ELSE {<<e>> : e \in Credentials})
    /\ saved = kept /\ candidates = Candidates(kept)
    /\ forced = FALSE /\ stage = "walk" /\ state = "connecting"
    /\ round = 0 /\ todo = <<>> /\ changed = FALSE
    /\ now = 0 /\ lastLinkOk = 0 /\ next = 0
    /\ tried = [i \in DOMAIN candidates |-> 0]
    /\ owed = {} /\ waited = 0 /\ wrapped = FALSE

\* A restart or a loss of power; what the portal got is lost if it is not kept.
WifiBoot ==
    /\ \E asked \in BOOLEAN : Boots(kept, asked)
    /\ owed' = IF stage = "entered" THEN owed \intersect Names(kept) ELSE owed
    /\ UNCHANGED <<air, kept>>

-------------------------------------------------------------------------------
\* Walks

\* Mutant of WalkOrder: a scan is the gate it was before 0.2.42.
WalkSeenOnly(seen) == {SelectSeq(candidates, LAMBDA e : e.ssid \in seen)}

\* walkCandidates: each candidate once; what the scan saw comes first, and otherwise
\* the order stays, as it does when the scan saw nothing.
WalkOrder(seen) ==
    LET Seen(i)      == seen = {} \/ candidates[i].ssid \in seen
        Before(i, j) == IF Seen(i) = Seen(j) THEN i < j ELSE Seen(i)
        Orders == {p \in [DOMAIN candidates -> DOMAIN candidates] :
                     /\ Range(p) = DOMAIN candidates
                     /\ \A m, n \in DOMAIN p : m < n => Before(p[m], p[n])}
    IN  {[n \in DOMAIN candidates |-> candidates[p[n]]] : p \in Orders}

\* A walk of begin() starts with a scan.
Scan ==
    /\ stage = "walk" /\ todo = <<>> /\ round < 2
    /\ round' = round + 1
    /\ \E seen \in SUBSET air : todo' \in WalkOrder(seen)
    /\ UNCHANGED <<radio, lists, state, forced, stage, changed, clock, past>>

\* loop() begins: what only setup() reads is over.
LoopBegins ==
    /\ stage' = "loop"
    /\ forced' = FALSE /\ changed' = FALSE /\ round' = 0
    /\ tried' = [i \in DOMAIN candidates |-> 0]

Joins(e) == e.right /\ e.ssid \in air

\* t ticks pass, and millis() may wrap.
Passes(t) ==
    /\ now' = (now + t) % Wrap
    /\ wrapped' = (wrapped \/ (next > 0 /\ now + t >= Wrap))

\* attemptCandidate with success
Join ==
    /\ todo # <<>> /\ Joins(Head(todo))
    /\ link' = Head(todo).ssid
    /\ todo' = <<>>
    /\ state' = "connected"
    /\ LoopBegins
    /\ lastLinkOk' = now
    /\ waited' = 0
    /\ UNCHANGED <<air, lists, now, next, owed, wrapped>>

\* attemptCandidate without
Miss ==
    /\ todo # <<>> /\ ~Joins(Head(todo))
    /\ link' = NoNetwork
    /\ todo' = Tail(todo)
    /\ IF stage = "loop"
       THEN Passes(Timeout) /\ UNCHANGED tried
       ELSE /\ tried' = [i \in DOMAIN tried |->
                           IF candidates[i] = Head(todo) THEN tried[i] + 1 ELSE tried[i]]
            /\ UNCHANGED <<now, wrapped>>
    /\ UNCHANGED <<air, lists, state, setup, lastLinkOk, next, owed, waited>>

-------------------------------------------------------------------------------
\* The portal

\* begin() after the second walk
FallBack ==
    /\ stage = "walk" /\ todo = <<>> /\ round = 2
    /\ state' = "portal" /\ stage' = "portal"
    /\ UNCHANGED <<radio, lists, forced, round, changed, todo, clock, past>>

\* startPortal: the extra network the operator typed in corrects the password of a
\* saved one, is appended, or is dropped when the list is full.
Enter(e) ==
    IF e.ssid \in Names(saved)
    THEN [i \in DOMAIN saved |-> IF saved[i].ssid = e.ssid THEN e ELSE saved[i]]
    ELSE IF Len(saved) < MaxSaved THEN Append(saved, e) ELSE saved

\* Mutant of Noticed: a new hub URL goes unnoticed, and so does a network with it.
NoticedUnlessHub(newUrl) == Len(saved') # Len(saved) /\ ~newUrl

\* begin() looks at the lengths of the lists only.
Noticed(newUrl) == Len(saved') # Len(saved) \/ newUrl

\* The portal ends: it joined a network, or the operator left it.  It has no
\* timeout (CONFIG_PORTAL_TIMEOUT_SECONDS is 0): until then setup() waits.
PortalEnds ==
    /\ stage = "portal"
    /\ \/ \E e \in Credentials :
             saved' = Enter(e) /\ owed' = owed \union ({e.ssid} \intersect Names(Enter(e)))
       \/ UNCHANGED <<saved, owed>>
    /\ \E newUrl \in BOOLEAN : changed' = Noticed(newUrl)
    /\ \/ link' \in air /\ state' = "connected" /\ lastLinkOk' = now
       \/ UNCHANGED <<link, state, lastLinkOk>>
    /\ stage' = "entered"
    /\ UNCHANGED <<air, kept, candidates, forced, round, todo, now, next, tried, waited, wrapped>>

\* setup() saves the configuration if the portal has changed it ...
Store == IF changed THEN saved ELSE kept

\* ... and goes on to loop(), or restarts after a recovery.
Entered ==
    /\ stage = "entered"
    /\ kept' = Store
    /\ IF forced /\ state = "connected"
       THEN Boots(Store, FALSE)
       ELSE /\ LoopBegins
            /\ UNCHANGED <<link, saved, candidates, state, todo, clock, waited, wrapped>>
    /\ UNCHANGED <<air, owed>>

-------------------------------------------------------------------------------
\* The supervisor

\* In the portal's state it does nothing, for good.
Supervises == stage = "loop" /\ state # "portal" /\ todo = <<>>

Due == now >= next

\* loop() with the link up
SeeUp ==
    /\ Supervises /\ link # NoNetwork
    /\ <<lastLinkOk, state>> # <<now, "connected">>
    /\ lastLinkOk' = now /\ state' = "connected"
    /\ UNCHANGED <<radio, lists, setup, todo, now, next, past>>

\* Mutant of Down: the link counts as down one budget later.
DownLate ==
    Supervises /\ link = NoNetwork /\ (now - lastLinkOk + Wrap) % Wrap > Patience

Down == Supervises /\ link = NoNetwork /\ (now - lastLinkOk + Wrap) % Wrap >= Timeout

\* Mutant of WalkAgain: one candidate per pass, as the comment at
\* wifi_manager.cpp:377 says, and always the first.
WalkFirstOnly ==
    /\ Down /\ Due
    /\ state' = "reconnecting"
    /\ next' = (now + Interval) % Wrap
    /\ todo' = SubSeq(candidates, 1, 1)
    /\ waited' = 0 /\ wrapped' = FALSE
    /\ UNCHANGED <<radio, lists, setup, now, lastLinkOk, tried, owed>>

\* loop() with the link down for a while: all candidates are tried in this pass.
WalkAgain ==
    /\ Down /\ Due
    /\ state' = "reconnecting"
    /\ next' = (now + Interval) % Wrap
    /\ todo' = candidates
    /\ waited' = 0 /\ wrapped' = FALSE
    /\ UNCHANGED <<radio, lists, setup, now, lastLinkOk, tried, owed>>

\* The clock, when loop() has nothing to do.
WifiTick ==
    /\ Supervises
    /\ link # NoNetwork => lastLinkOk = now /\ state = "connected"
    /\ ~(Down /\ Due)
    /\ Passes(1)
    /\ waited' = IF link # NoNetwork THEN 0
                 ELSE IF waited > Patience THEN waited ELSE waited + 1
    /\ UNCHANGED <<radio, lists, state, setup, todo, lastLinkOk, next, tried, owed>>

\* Networks come and go.
AirChanges ==
    /\ air' \in SUBSET Networks
    /\ link' = IF link \in air' THEN link ELSE NoNetwork
    /\ UNCHANGED <<lists, state, setup, todo, clock, past>>

\* The access point drops the device, or the SDK joins it again.
LinkChanges ==
    /\ stage = "loop" /\ todo = <<>>
    /\ link' \in IF link = NoNetwork THEN air ELSE {NoNetwork}
    /\ waited' = 0
    /\ UNCHANGED <<air, lists, state, setup, todo, clock, tried, owed, wrapped>>

WifiNext ==
    \/ Scan \/ Join \/ Miss \/ FallBack \/ PortalEnds \/ Entered
    \/ SeeUp \/ WalkAgain \/ WifiTick
    \/ WifiBoot \/ AirChanges \/ LinkChanges

WifiSteps == Scan \/ Join \/ Miss \/ FallBack \/ Entered \/ SeeUp \/ WalkAgain

WifiFairness == WF_wifiVars(WifiSteps) /\ WF_wifiVars(WifiTick)

WifiSpec == WifiInit /\ [][WifiNext]_wifiVars /\ WifiFairness

-------------------------------------------------------------------------------
\* Properties

\* The portal opens by itself only after this boot has tried every candidate twice,
\* whatever the scans saw (BUG-087; wifi_manager.cpp:121-144, 317-325).
TriedTwice ==
    (stage = "portal" /\ ~forced) => \A i \in DOMAIN tried : tried[i] >= 2

\* A network the operator enters, and the list has room for, is on flash before
\* loop() begins and after every restart.  Its password is not meant: a correction
\* changes no length and goes unnoticed (wifi_manager.cpp:342).
EntriesKept == stage # "entered" => owed \subseteq Names(kept)

\* While the link is down the supervisor tries to join within Patience; unless
\* millis() has wrapped since it last did, for it compares times
\* (wifi_manager.cpp:374).
PromptRejoin ==
    (Supervises /\ link = NoNetwork) => (waited <= Patience \/ wrapped)

\* Once a network that is among the candidates stays on the air, with the right
\* password, and no restart comes, the device is on a network again and again; or it
\* is in the portal, from which only the operator gets it.  One case is left out: a
\* link lost within Timeout of the wrap of millis(), when next is as near to it; then
\* the two comparisons of loop() never hold together, and the supervisor is over.
Rejoins ==
    /\ <>[][~WifiBoot]_wifiVars
    /\ \E n \in Networks : <>[](n \in air /\ [ssid |-> n, right |-> TRUE] \in Range(candidates))
    => []<>(link # NoNetwork \/ state = "portal") \/ <>[]wrapped

===============================================================================
