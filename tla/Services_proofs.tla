----------------------------- MODULE Services_proofs -----------------------------
(***************************************************************************)
(* Proofs about the Wi-Fi, about UDP control, and about the services side  *)
(* by side.  WifiLink: whatever the lists of networks and the timeouts     *)
(* are, no candidate is passed over, no entry is lost, and a connection    *)
(* that fails is noticed in time.  UdpControl: no request is executed      *)
(* twice.  MCServices: no service disturbs another.                        *)
(***************************************************************************)
EXTENDS MCServices, EventLog_proofs, CentralClient_proofs

\* The Wi-Fi

\* Every step of the Wi-Fi and of the world around it, by name.
LEMMA WifiCases ==
    ASSUME [WifiNext]_wifiVars
    PROVE  \/ Scan \/ Join \/ Miss \/ FallBack \/ PortalEnds \/ Entered
           \/ SeeUp \/ WalkAgain \/ WifiTick
           \/ WifiBoot \/ AirChanges \/ LinkChanges
           \/ UNCHANGED wifiVars
  BY DEF WifiNext

\* What the assumption says of each constant.
LEMMA WifiConstants ==
    /\ Timeout \in Nat \ {0} /\ Interval \in Nat /\ MaxSaved \in Nat
    /\ Wrap \in Nat /\ Wrap > 2 * (Timeout + Interval)
    /\ Patience \in Nat /\ Patience >= Timeout /\ Patience >= Interval
    /\ 0 \in 0 .. Patience + 1 /\ 0 \in 0 .. Wrap - 1
  <1>1. /\ Timeout \in Nat \ {0} /\ Interval \in Nat /\ MaxSaved \in Nat
        /\ Wrap \in Nat /\ Wrap > 2 * (Timeout + Interval)
        BY WifiAssumption
  <1>2. Patience \in Nat /\ Patience >= Timeout /\ Patience >= Interval
        BY <1>1 DEF Patience
  <1> QED BY <1>1, <1>2

\* The clock t ticks after n, and how long ago l was at n.
Onward(n, t) == (n + t) % Wrap
Since(n, l) == (n - l + Wrap) % Wrap

\* The clock wraps at most once.
LEMMA OnwardFacts ==
    \A n, t \in 0 .. Wrap - 1 : Onward(n, t) = IF n + t < Wrap THEN n + t ELSE n + t - Wrap
  BY WifiConstants DEF Onward

\* A difference of two times wraps at most once.
LEMMA SinceFacts ==
    \A n, l \in 0 .. Wrap - 1 : Since(n, l) = IF n >= l THEN n - l ELSE n - l + Wrap
  BY WifiConstants DEF Since

\* One more tick, or one more attempt, is still a time of millis().
LEMMA ClockFacts ==
    ASSUME NEW a \in Int
    PROVE  a % Wrap \in 0 .. Wrap - 1
  BY WifiAssumption

-------------------------------------------------------------------------------
\* The lists of networks

\* The built-in networks are in every list of candidates.
LEMMA CandidatesFacts ==
    ASSUME NEW list \in Seq(Credentials)
    PROVE  Candidates(list) \in Seq(Credentials) /\ Candidates(list) # <<>>
  <1> DEFINE inside == [i \in DOMAIN Builtin |-> [ssid |-> Builtin[i], right |-> TRUE]]
  <1>1. inside \in Seq(Credentials) /\ Len(inside) > 0
    <2>1. /\ Builtin \in Seq(STRING) /\ Len(Builtin) \in Nat \ {0}
          /\ DOMAIN Builtin = 1 .. Len(Builtin)
          BY WifiAssumption
    <2>2. \A i \in DOMAIN Builtin : inside[i] \in Credentials
          BY DEF Credentials, Networks, Range
    <2> QED BY <2>1, <2>2
  <1> HIDE DEF inside
  <1>2. Candidates(list) = list \o inside
        BY DEF inside, Candidates
  <1> QED BY <1>1, <1>2

\* What the operator enters changes a password, is appended, or is dropped.
LEMMA EnterFacts ==
    ASSUME saved \in Seq(Credentials), NEW e \in Credentials
    PROVE  /\ Enter(e) \in Seq(Credentials)
           /\ Len(Enter(e)) = Len(saved) => Names(Enter(e)) = Names(saved)
           /\ Len(saved) <= MaxSaved => Len(Enter(e)) <= MaxSaved
           /\ Names(saved) \subseteq Names(Enter(e))
  <1>1. CASE e.ssid \in Names(saved)
    <2> DEFINE new == [i \in DOMAIN saved |-> IF saved[i].ssid = e.ssid THEN e ELSE saved[i]]
    <2>1. Enter(e) = new
          BY <1>1 DEF Enter
    <2>2. new \in Seq(Credentials) /\ Len(new) = Len(saved) /\ DOMAIN new = DOMAIN saved
          OBVIOUS
    <2>3. \A i \in DOMAIN saved : new[i].ssid = saved[i].ssid
          OBVIOUS
    <2> HIDE DEF new
    <2>4. Names(new) = Names(saved)
          BY <2>2, <2>3 DEF Names, Range
    <2> QED BY <2>1, <2>2, <2>4
  <1>2. CASE e.ssid \notin Names(saved) /\ Len(saved) < MaxSaved
    <2>1. Enter(e) = Append(saved, e)
          BY <1>2 DEF Enter
    <2>2. Len(Append(saved, e)) = Len(saved) + 1 /\ Append(saved, e) \in Seq(Credentials)
          OBVIOUS
    <2>3. Names(saved) \subseteq Names(Append(saved, e))
      <3>1. \A i \in DOMAIN saved :
               i \in DOMAIN Append(saved, e) /\ Append(saved, e)[i] = saved[i]
            OBVIOUS
      <3> QED BY <3>1 DEF Names, Range
    <2> QED BY <1>2, <2>1, <2>2, <2>3, WifiAssumption
  <1>3. CASE e.ssid \notin Names(saved) /\ ~(Len(saved) < MaxSaved)
        BY <1>3 DEF Enter
  <1> QED BY <1>1, <1>2, <1>3

\* A walk has every candidate on its list, and nothing else.
LEMMA WalkFacts ==
    ASSUME candidates \in Seq(Credentials), NEW seen, NEW walk \in WalkOrder(seen)
    PROVE  walk \in Seq(Credentials) /\ Range(walk) = Range(candidates)
  <1>1. PICK p \in [DOMAIN candidates -> DOMAIN candidates] :
               /\ Range(p) = DOMAIN candidates
               /\ walk = [n \in DOMAIN candidates |-> candidates[p[n]]]
        BY DEF WalkOrder
  <1>2. walk \in Seq(Credentials)
        BY <1>1
  <1>3. Range(walk) = Range(candidates)
        BY <1>1 DEF Range
  <1> QED BY <1>2, <1>3

\* What is left of a walk is on its list; what was on it is at its head or left.
LEMMA TailFacts ==
    ASSUME todo \in Seq(Credentials), todo # <<>>
    PROVE  /\ Tail(todo) \in Seq(Credentials) /\ Head(todo) \in Credentials
           /\ Range(todo) = {Head(todo)} \union Range(Tail(todo))
  <1>1. Tail(todo) \in Seq(Credentials) /\ Head(todo) \in Credentials
        OBVIOUS
  <1>2. \A e \in Range(todo) : e = Head(todo) \/ e \in Range(Tail(todo))
    <2> SUFFICES ASSUME NEW i \in 1 .. Len(todo)
                 PROVE  todo[i] = Head(todo) \/ todo[i] \in Range(Tail(todo))
        BY DEF Range
    <2>1. i = 1 \/ (i - 1 \in DOMAIN Tail(todo) /\ Tail(todo)[i - 1] = todo[i])
          OBVIOUS
    <2>2. CASE i = 1
          BY <2>2
    <2>3. CASE i # 1
          BY <2>1, <2>3 DEF Range
    <2> QED BY <2>2, <2>3
  <1>3. \A e \in Range(Tail(todo)) : e \in Range(todo)
    <2> SUFFICES ASSUME NEW i \in DOMAIN Tail(todo) PROVE Tail(todo)[i] \in Range(todo)
        BY DEF Range
    <2>1. i + 1 \in DOMAIN todo /\ Tail(todo)[i] = todo[i + 1]
          OBVIOUS
    <2> QED BY <2>1 DEF Range
  <1>4. Head(todo) \in Range(todo)
        BY DEF Range
  <1> QED BY <1>1, <1>2, <1>3, <1>4

-------------------------------------------------------------------------------
\* Type correctness, and the state of a setup()

\* Before loop() begins the clock stands, and nothing is waited for; a walk goes on
\* in setup() or in the supervisor only.
SetupFirst ==
    /\ stage # "loop" => now = 0 /\ lastLinkOk = 0 /\ next = 0 /\ waited = 0 /\ ~wrapped
    /\ todo # <<>> => stage \in {"walk", "loop"}
    /\ forced => stage \in {"portal", "entered"}
    /\ candidates # <<>>

WifiBase == WifiTypeOK /\ SetupFirst

\* What a boot leaves.
LEMMA BootsFacts ==
    ASSUME NEW list \in Seq(Credentials), NEW asked \in BOOLEAN, Len(list) <= MaxSaved,
           Boots(list, asked), UNCHANGED air, air \subseteq Networks,
           kept' = list, owed' \subseteq Networks
    PROVE  WifiBase'
  <1>1. candidates' \in Seq(Credentials) /\ candidates' # <<>>
        BY CandidatesFacts DEF Boots
  <1>2. todo' \in Seq(Credentials)
        BY DEF Boots
  <1>3. 0 \in 0 .. Wrap - 1 /\ 0 \in 0 .. Patience + 1
        BY WifiConstants
  <1>4. SetupFirst'
        BY <1>1 DEF Boots, SetupFirst
  <1>5. /\ saved' \in Seq(Credentials) /\ Len(saved') <= MaxSaved
        /\ kept' \in Seq(Credentials) /\ Len(kept') <= MaxSaved
        BY DEF Boots
  <1>6. /\ now' \in 0 .. Wrap - 1 /\ lastLinkOk' \in 0 .. Wrap - 1 /\ next' \in 0 .. Wrap - 1
        /\ waited' \in 0 .. Patience + 1 /\ wrapped' \in BOOLEAN
        BY <1>3 DEF Boots
  <1>7. /\ state' \in {"connecting", "portal"} /\ stage' \in {"walk", "portal"}
        /\ round' = 0 /\ forced' \in BOOLEAN /\ changed' \in BOOLEAN
        BY DEF Boots
  <1>8. link' \in Networks \union {NoNetwork} /\ air' \subseteq Networks
        BY DEF Boots
  <1>9. WifiTypeOK'
        BY <1>1, <1>2, <1>5, <1>6, <1>7, <1>8 DEF WifiTypeOK
  <1> QED BY <1>4, <1>9 DEF WifiBase

\* What loop() begins with.
LEMMA LoopBeginsFacts ==
    ASSUME LoopBegins
    PROVE  /\ stage' = "loop" /\ round' \in 0 .. 2
           /\ forced' \in BOOLEAN /\ changed' \in BOOLEAN
  <1>1. stage' = "loop" /\ round' = 0 /\ forced' = FALSE /\ changed' = FALSE
        BY DEF LoopBegins
  <1>2. round' \in 0 .. 2
        BY <1>1
  <1> QED BY <1>1, <1>2

\* The types and the state of a setup() hold at first.
LEMMA WifiBaseInit == WifiInit => WifiBase
  <1> SUFFICES ASSUME WifiInit PROVE WifiBase
      OBVIOUS
  <1>1. kept \in Seq(Credentials) /\ Len(kept) <= MaxSaved
    <2>1. CASE kept = <<>>
          BY <2>1, WifiAssumption
    <2>2. CASE kept # <<>>
      <3>1. MaxSaved # 0 /\ \E e \in Credentials : kept = <<e>>
            BY <2>2 DEF WifiInit
      <3> QED BY <3>1, WifiAssumption
    <2> QED BY <2>1, <2>2
  <1>2. candidates \in Seq(Credentials) /\ candidates # <<>>
        BY <1>1, CandidatesFacts DEF WifiInit
  <1>3. todo \in Seq(Credentials) /\ todo = <<>>
        BY DEF WifiInit
  <1>4. 0 \in 0 .. Wrap - 1 /\ 0 \in 0 .. Patience + 1
        BY WifiConstants
  <1>5. SetupFirst
        BY <1>2, <1>3 DEF WifiInit, SetupFirst
  <1>6. WifiTypeOK
    <2>1. saved \in Seq(Credentials) /\ Len(saved) <= MaxSaved
          BY <1>1 DEF WifiInit
    <2>2. /\ now \in 0 .. Wrap - 1 /\ lastLinkOk \in 0 .. Wrap - 1 /\ next \in 0 .. Wrap - 1
          /\ waited \in 0 .. Patience + 1 /\ wrapped \in BOOLEAN
          BY <1>4 DEF WifiInit
    <2>3. /\ air \subseteq Networks /\ owed \subseteq Networks
          /\ link \in Networks \union {NoNetwork}
          /\ state = "connecting" /\ stage = "walk"
          /\ round = 0 /\ forced \in BOOLEAN /\ changed \in BOOLEAN
          BY DEF WifiInit
    <2> QED BY <1>1, <1>2, <1>3, <2>1, <2>2, <2>3 DEF WifiTypeOK
  <1> QED BY <1>5, <1>6 DEF WifiBase

\* Every step keeps them.
LEMMA WifiBaseStep == WifiBase /\ [WifiNext]_wifiVars => WifiBase'
  <1> SUFFICES ASSUME WifiBase, [WifiNext]_wifiVars PROVE WifiBase'
      OBVIOUS
  <1> USE DEF WifiBase
  <1>0. /\ saved \in Seq(Credentials) /\ kept \in Seq(Credentials)
        /\ candidates \in Seq(Credentials) /\ todo \in Seq(Credentials)
        /\ Len(saved) <= MaxSaved /\ Len(kept) <= MaxSaved /\ air \subseteq Networks
        /\ now \in 0 .. Wrap - 1 /\ lastLinkOk \in 0 .. Wrap - 1 /\ next \in 0 .. Wrap - 1
        BY DEF WifiTypeOK
  <1>1. CASE Scan
    <2>1. todo' \in Seq(Credentials)
          BY <1>0, <1>1, WalkFacts DEF Scan
    <2>2. WifiTypeOK'
          BY <1>1, <2>1 DEF Scan, radio, lists, clock, past, WifiTypeOK
    <2>3. SetupFirst'
          BY <1>1 DEF Scan, lists, clock, past, SetupFirst
    <2> QED BY <2>2, <2>3
  <1>2. CASE Join
    <2>1. Head(todo).ssid \in Networks /\ <<>> \in Seq(Credentials)
          BY <1>0, <1>2, TailFacts DEF Join, Credentials
    <2>2. 0 \in 0 .. Patience + 1
          BY WifiConstants
    <2>3. WifiTypeOK'
      <3>1. /\ UNCHANGED <<air, saved, kept, candidates, now, next, owed, wrapped>>
            /\ link' = Head(todo).ssid /\ todo' = <<>> /\ lastLinkOk' = now /\ waited' = 0
            /\ state' = "connected" /\ LoopBegins
            BY <1>2 DEF Join, lists
      <3> QED BY <2>1, <2>2, <3>1, LoopBeginsFacts DEF WifiTypeOK
    <2>4. SetupFirst'
          BY <1>2 DEF Join, LoopBegins, lists, SetupFirst
    <2> QED BY <2>3, <2>4
  <1>3. CASE Miss
    <2>1. Tail(todo) \in Seq(Credentials)
          BY <1>0, <1>3, TailFacts DEF Miss
    <2>2. now' \in 0 .. Wrap - 1 /\ wrapped' \in BOOLEAN
      <3>1. now + Timeout \in Int
            BY <1>0, WifiConstants
      <3>2. (now + Timeout) % Wrap \in 0 .. Wrap - 1
            BY <3>1, ClockFacts
      <3>3. CASE stage = "loop"
            BY <1>3, <3>2, <3>3 DEF Miss, Passes, WifiTypeOK
      <3>4. CASE stage # "loop"
            BY <1>0, <1>3, <3>4 DEF Miss, WifiTypeOK
      <3> QED BY <3>3, <3>4
    <2>3. WifiTypeOK'
          BY <1>3, <2>1, <2>2 DEF Miss, lists, setup, WifiTypeOK
    <2>4. SetupFirst'
          BY <1>3 DEF Miss, lists, setup, SetupFirst
    <2> QED BY <2>3, <2>4
  <1>4. CASE FallBack
    <2>1. WifiTypeOK'
          BY <1>4 DEF FallBack, radio, lists, clock, past, WifiTypeOK
    <2>2. SetupFirst'
          BY <1>4 DEF FallBack, lists, clock, past, SetupFirst
    <2> QED BY <2>1, <2>2
  <1>5. CASE PortalEnds
    <2>1. saved' \in Seq(Credentials) /\ Len(saved') <= MaxSaved /\ owed' \subseteq Networks
      <3>1. CASE UNCHANGED <<saved, owed>>
            BY <1>0, <3>1 DEF WifiTypeOK
      <3>2. CASE \E e \in Credentials :
                    /\ saved' = Enter(e)
                    /\ owed' = owed \union ({e.ssid} \intersect Names(Enter(e)))
        <4>1. PICK e \in Credentials :
                    /\ saved' = Enter(e)
                    /\ owed' = owed \union ({e.ssid} \intersect Names(Enter(e)))
              BY <3>2
        <4>2. e.ssid \in Networks /\ owed \subseteq Networks
              BY DEF Credentials, WifiTypeOK
        <4> QED BY <1>0, <4>1, <4>2, EnterFacts
      <3> QED BY <1>5, <3>1, <3>2 DEF PortalEnds
    <2>2. changed' \in BOOLEAN
          BY <1>5 DEF PortalEnds, Noticed
    <2>3. WifiTypeOK'
          BY <1>5, <2>1, <2>2 DEF PortalEnds, WifiTypeOK
    <2>4. SetupFirst'
          BY <1>5 DEF PortalEnds, SetupFirst
    <2> QED BY <2>3, <2>4
  <1>6. CASE Entered
    <2>1. Store \in Seq(Credentials) /\ Len(Store) <= MaxSaved
          BY <1>0 DEF Store
    <2>2. CASE Boots(Store, FALSE)
          BY <1>0, <1>6, <2>1, <2>2, BootsFacts DEF Entered, WifiTypeOK
    <2>3. CASE /\ LoopBegins
               /\ UNCHANGED <<link, saved, candidates, state, todo, clock, waited, wrapped>>
      <3>1. WifiTypeOK'
        <4>1. /\ UNCHANGED <<air, owed, link, saved, candidates, state, todo, clock, waited,
                             wrapped>>
              /\ kept' = Store
              BY <1>6, <2>3 DEF Entered
        <4> QED BY <2>1, <2>3, <4>1, LoopBeginsFacts DEF clock, WifiTypeOK
      <3>2. SetupFirst'
            BY <2>3 DEF LoopBegins, clock, SetupFirst
      <3> QED BY <3>1, <3>2
    <2> QED BY <1>6, <2>2, <2>3 DEF Entered
  <1>7. CASE SeeUp
    <2>1. WifiTypeOK'
          BY <1>0, <1>7 DEF SeeUp, radio, lists, setup, past, WifiTypeOK
    <2>2. SetupFirst'
          BY <1>7 DEF SeeUp, Supervises, lists, setup, past, SetupFirst
    <2> QED BY <2>1, <2>2
  <1>8. CASE WalkAgain
    <2>1. next' \in 0 .. Wrap - 1 /\ 0 \in 0 .. Patience + 1
      <3>1. now + Interval \in Int
            BY <1>0, WifiConstants
      <3> QED BY <1>8, <3>1, ClockFacts, WifiConstants DEF WalkAgain
    <2>2. WifiTypeOK'
          BY <1>0, <1>8, <2>1 DEF WalkAgain, radio, lists, setup, WifiTypeOK
    <2>3. SetupFirst'
          BY <1>8 DEF WalkAgain, Down, Supervises, lists, setup, SetupFirst
    <2> QED BY <2>2, <2>3
  <1>9. CASE WifiTick
    <2>1. now' \in 0 .. Wrap - 1 /\ wrapped' \in BOOLEAN
          BY <1>0, <1>9, ClockFacts DEF WifiTick, Passes, WifiTypeOK
    <2>2. waited' \in 0 .. Patience + 1
      <3>1. waited \in 0 .. Patience + 1 /\ Patience \in Nat
            BY WifiConstants DEF WifiTypeOK
      <3>2. waited' = IF link # NoNetwork THEN 0
                      ELSE IF waited > Patience THEN waited ELSE waited + 1
            BY <1>9 DEF WifiTick
      <3> QED BY <3>1, <3>2
    <2>3. WifiTypeOK'
          BY <1>9, <2>1, <2>2 DEF WifiTick, radio, lists, setup, WifiTypeOK
    <2>4. SetupFirst'
          BY <1>9 DEF WifiTick, Supervises, lists, setup, SetupFirst
    <2> QED BY <2>3, <2>4
  <1>10. CASE WifiBoot
    <2>1. PICK asked \in BOOLEAN : Boots(kept, asked)
          BY <1>10 DEF WifiBoot
    <2>2. owed' \subseteq Networks /\ UNCHANGED <<air, kept>>
          BY <1>10 DEF WifiBoot, WifiTypeOK
    <2> QED BY <1>0, <2>1, <2>2, BootsFacts
  <1>11. CASE AirChanges
    <2>1. WifiTypeOK'
          BY <1>11 DEF AirChanges, lists, setup, clock, past, WifiTypeOK
    <2>2. SetupFirst'
          BY <1>11 DEF AirChanges, lists, setup, clock, past, SetupFirst
    <2> QED BY <2>1, <2>2
  <1>12. CASE LinkChanges
    <2>1. link' \in Networks \union {NoNetwork} /\ 0 \in 0 .. Patience + 1
          BY <1>0, <1>12, WifiConstants DEF LinkChanges
    <2>2. WifiTypeOK'
          BY <1>12, <2>1 DEF LinkChanges, lists, setup, clock, WifiTypeOK
    <2>3. SetupFirst'
          BY <1>12 DEF LinkChanges, lists, setup, clock, SetupFirst
    <2> QED BY <2>2, <2>3
  <1>13. CASE UNCHANGED wifiVars
    <2>1. WifiTypeOK'
          BY <1>13 DEF wifiVars, radio, lists, setup, clock, past, WifiTypeOK
    <2>2. SetupFirst'
          BY <1>13 DEF wifiVars, lists, setup, clock, past, SetupFirst
    <2> QED BY <2>1, <2>2
  <1> QED BY WifiCases, <1>1, <1>2, <1>3, <1>4, <1>5, <1>6, <1>7, <1>8, <1>9, <1>10, <1>11,
          <1>12, <1>13

\* The state of the Wi-Fi keeps its type for any lists of networks and any delays, and
\* nothing of the supervisor runs before setup() is over.
THEOREM WifiBaseHolds == WifiSpec => []WifiBase
  BY WifiBaseInit, WifiBaseStep, PTL DEF WifiSpec

\* The Wi-Fi's variables keep their types, for any networks and any delays.
THEOREM WifiTypeCorrect == WifiSpec => []WifiTypeOK
  <1>1. WifiBase => WifiTypeOK
        BY DEF WifiBase
  <1> QED BY <1>1, WifiBaseHolds, PTL

-------------------------------------------------------------------------------
\* Two walks before the portal

\* A walk under way has tried, as often as there were walks, all but what it still has
\* on its list, and that at most once less.
Tries ==
    /\ tried \in [DOMAIN candidates -> Nat]
    /\ stage = "walk" =>
          \A i \in DOMAIN candidates :
             /\ tried[i] + 1 >= round
             /\ candidates[i] \notin Range(todo) => tried[i] >= round
    /\ stage = "portal" /\ ~forced => \A i \in DOMAIN candidates : tried[i] >= 2

\* A boot has made no attempts.
LEMMA BootsTries ==
    ASSUME NEW list, NEW asked \in BOOLEAN, Boots(list, asked)
    PROVE  Tries'
  <1>1. tried' = [i \in DOMAIN candidates' |-> 0] /\ round' = 0
        BY DEF Boots
  <1>2. stage' = "portal" => forced'
        BY DEF Boots
  <1> QED BY <1>1, <1>2 DEF Tries

\* Every step keeps the account of the attempts.
LEMMA TriesStep == WifiBase /\ Tries /\ [WifiNext]_wifiVars => Tries'
  <1> SUFFICES ASSUME WifiBase, Tries, [WifiNext]_wifiVars PROVE Tries'
      OBVIOUS
  <1>0. round \in 0 .. 2 /\ todo \in Seq(Credentials) /\ candidates \in Seq(Credentials)
        BY DEF WifiBase, WifiTypeOK
  <1>1. CASE Scan
    <2>1. /\ UNCHANGED <<candidates, tried, stage>> /\ stage = "walk"
          /\ round' = round + 1 /\ todo = <<>>
          BY <1>1 DEF Scan, lists, past
    <2>2. Range(todo') = Range(candidates)
          BY <1>0, <1>1, WalkFacts DEF Scan
    <2>3. \A i \in DOMAIN candidates : candidates[i] \notin Range(todo)
          BY <2>1 DEF Range
    <2>4. \A i \in DOMAIN candidates : candidates[i] \in Range(todo')
          BY <2>2 DEF Range
    <2> QED BY <1>0, <2>1, <2>3, <2>4 DEF Tries
  <1>2. CASE Join
    <2>1. stage' = "loop" /\ tried' = [i \in DOMAIN candidates |-> 0] /\ UNCHANGED candidates
          BY <1>2 DEF Join, LoopBegins, lists
    <2> QED BY <2>1 DEF Tries
  <1>3. CASE Miss
    <2>1. UNCHANGED <<candidates, stage, round, forced>> /\ todo' = Tail(todo)
          BY <1>3 DEF Miss, lists, setup
    <2>2. CASE stage = "loop"
          BY <1>3, <2>1, <2>2 DEF Miss, Tries
    <2>3. CASE stage # "loop"
      <3>1. tried' = [i \in DOMAIN tried |->
                        IF candidates[i] = Head(todo) THEN tried[i] + 1 ELSE tried[i]]
            BY <1>3, <2>3 DEF Miss
      <3>2. /\ tried' \in [DOMAIN candidates -> Nat]
            /\ \A i \in DOMAIN candidates : tried'[i] >= tried[i]
            /\ \A i \in DOMAIN candidates :
                  candidates[i] = Head(todo) => tried'[i] = tried[i] + 1
            BY <3>1 DEF Tries
      <3>3. Range(todo) = {Head(todo)} \union Range(Tail(todo))
            BY <1>0, <1>3, TailFacts DEF Miss
      <3>4. ASSUME stage = "walk", NEW i \in DOMAIN candidates
            PROVE  /\ tried'[i] + 1 >= round
                   /\ candidates[i] \notin Range(Tail(todo)) => tried'[i] >= round
        <4>1. tried[i] \in Nat /\ tried'[i] \in Nat /\ tried[i] + 1 >= round
              BY <3>2, <3>4 DEF Tries
        <4>2. CASE candidates[i] = Head(todo)
              BY <1>0, <3>2, <4>1, <4>2
        <4>3. CASE candidates[i] # Head(todo)
          <5>1. candidates[i] \notin Range(Tail(todo)) => tried[i] >= round
                BY <3>3, <3>4, <4>3 DEF Tries
          <5> QED BY <1>0, <3>2, <4>1, <5>1
        <4> QED BY <4>2, <4>3
      <3>5. ASSUME stage = "portal", ~forced, NEW i \in DOMAIN candidates
            PROVE  tried'[i] >= 2
            BY <3>2, <3>5 DEF Tries
      <3> QED BY <2>1, <3>2, <3>4, <3>5 DEF Tries
    <2> QED BY <2>2, <2>3
  <1>4. CASE FallBack
    <2>1. UNCHANGED <<candidates, tried, forced>> /\ stage = "walk" /\ stage' = "portal"
          /\ round = 2 /\ todo = <<>>
          BY <1>4 DEF FallBack, lists, past
    <2>2. \A i \in DOMAIN candidates : candidates[i] \notin Range(todo)
          BY <2>1 DEF Range
    <2> QED BY <2>1, <2>2 DEF Tries
  <1>5. CASE PortalEnds
        BY <1>5 DEF PortalEnds, Tries
  <1>6. CASE Entered
    <2>1. CASE Boots(Store, FALSE)
          BY <2>1, BootsTries
    <2>2. CASE /\ LoopBegins
               /\ UNCHANGED <<link, saved, candidates, state, todo, clock, waited, wrapped>>
          BY <2>2 DEF LoopBegins, Tries
    <2> QED BY <1>6, <2>1, <2>2 DEF Entered
  <1>7. CASE WifiBoot
        BY <1>7, BootsTries DEF WifiBoot
  <1>8. CASE SeeUp \/ WalkAgain \/ WifiTick \/ LinkChanges
    <2>1. UNCHANGED <<candidates, tried, stage>> /\ stage = "loop"
          BY <1>8
          DEF SeeUp, WalkAgain, WifiTick, LinkChanges, Down, Supervises, lists, setup, past
    <2> QED BY <2>1 DEF Tries
  <1>9. CASE AirChanges \/ UNCHANGED wifiVars
        BY <1>9 DEF AirChanges, wifiVars, lists, setup, past, Tries
  <1> QED BY WifiCases, <1>1, <1>2, <1>3, <1>4, <1>5, <1>6, <1>7, <1>8, <1>9

\* The portal opens by itself only when every candidate was tried in each of the two
\* walks of begin(), however many there are and whatever the scans see.
THEOREM PortalAfterTwoWalks == WifiSpec => []TriedTwice
  <1>1. WifiInit => Tries
    <2> SUFFICES ASSUME WifiInit PROVE Tries
        OBVIOUS
    <2>1. tried = [i \in DOMAIN candidates |-> 0] /\ round = 0 /\ stage = "walk"
          BY DEF WifiInit
    <2> QED BY <2>1 DEF Tries
  <1>2. Tries => TriedTwice
        BY DEF Tries, TriedTwice
  <1> QED BY <1>1, <1>2, TriesStep, WifiBaseHolds, PTL DEF WifiSpec

-------------------------------------------------------------------------------
\* The operator's entries

\* Outside setup()'s last lines memory and flash name the same networks; there, what
\* was entered is in memory, and a change that is not flagged changed no name.
Entries ==
    /\ stage # "entered" => Names(saved) = Names(kept) /\ owed \subseteq Names(kept)
    /\ stage = "entered" =>
          owed \subseteq Names(saved) /\ (~changed => Names(saved) = Names(kept))

\* Every step keeps the entries.
LEMMA EntriesStep == WifiBase /\ Entries /\ [WifiNext]_wifiVars => Entries'
  <1> SUFFICES ASSUME WifiBase, Entries, [WifiNext]_wifiVars PROVE Entries'
      OBVIOUS
  <1>1. CASE PortalEnds
    <2>1. /\ stage = "portal" /\ stage' = "entered" /\ kept' = kept
          /\ Names(saved) = Names(kept) /\ owed \subseteq Names(kept)
          /\ changed' = FALSE => Len(saved') = Len(saved)
          BY <1>1 DEF PortalEnds, Noticed, Entries
    <2>2. CASE UNCHANGED <<saved, owed>>
          BY <2>1, <2>2 DEF Entries, Names
    <2>3. CASE \E e \in Credentials :
                  /\ saved' = Enter(e)
                  /\ owed' = owed \union ({e.ssid} \intersect Names(Enter(e)))
      <3>1. PICK e \in Credentials :
                  /\ saved' = Enter(e)
                  /\ owed' = owed \union ({e.ssid} \intersect Names(Enter(e)))
            BY <2>3
      <3>2. /\ Names(saved) \subseteq Names(Enter(e))
            /\ Len(Enter(e)) = Len(saved) => Names(Enter(e)) = Names(saved)
            BY EnterFacts DEF WifiBase, WifiTypeOK
      <3>3. Names(saved') = Names(Enter(e)) /\ Names(kept') = Names(kept)
            BY <2>1, <3>1
      <3>4. owed' \subseteq Names(saved')
            BY <2>1, <3>1, <3>2, <3>3
      <3>5. ~changed' => Names(saved') = Names(kept')
            BY <2>1, <3>1, <3>2, <3>3 DEF WifiBase, WifiTypeOK
      <3> QED BY <2>1, <3>4, <3>5 DEF Entries, Names
    <2> QED BY <1>1, <2>2, <2>3 DEF PortalEnds
  <1>2. CASE Entered
    <2>1. kept' = Store /\ owed' = owed /\ owed \subseteq Names(saved)
          /\ Names(Store) = Names(saved)
          BY <1>2 DEF Entered, Entries, Store
    <2>2. stage' # "entered" /\ (saved' = Store \/ saved' = saved)
          BY <1>2 DEF Entered, Boots, LoopBegins
    <2>3. Names(kept') = Names(Store) /\ Names(saved') = Names(saved)
          BY <2>1, <2>2
    <2>4. Names(kept)' = Names(kept') /\ Names(saved)' = Names(saved')
          BY DEF Names
    <2> QED BY <2>1, <2>2, <2>3, <2>4 DEF Entries
  <1>3. CASE WifiBoot
    <2>1. stage' # "entered" /\ saved' = kept /\ kept' = kept
          /\ owed' = IF stage = "entered" THEN owed \intersect Names(kept) ELSE owed
          BY <1>3 DEF WifiBoot, Boots
    <2>2. owed' \subseteq Names(kept)
          BY <2>1 DEF Entries
    <2> QED BY <2>1, <2>2 DEF Entries, Names
  <1>4. CASE \/ Scan \/ Join \/ Miss \/ FallBack
             \/ SeeUp \/ WalkAgain \/ WifiTick \/ AirChanges \/ LinkChanges
             \/ UNCHANGED wifiVars
    <2>1. UNCHANGED <<saved, kept, owed>>
          BY <1>4 DEF Scan, Join, Miss, FallBack, SeeUp, WalkAgain, WifiTick, AirChanges,
                      LinkChanges, wifiVars, lists, past
    <2>2. stage' = "entered" => stage = "entered" /\ changed' = changed
          BY <1>4 DEF Scan, Join, LoopBegins, Miss, FallBack, SeeUp, WalkAgain, WifiTick,
                      AirChanges, LinkChanges, wifiVars, setup
    <2>3. stage' # "entered" => stage # "entered"
          BY <1>4 DEF WifiBase, SetupFirst, Scan, Join, Miss, FallBack, SeeUp, WalkAgain,
                      WifiTick, AirChanges, LinkChanges, wifiVars, setup
    <2> QED BY <2>1, <2>2, <2>3 DEF Entries, Names
  <1> QED BY WifiCases, <1>1, <1>2, <1>3, <1>4

\* What the operator enters, and the list has room for, is on flash before loop()
\* begins and after every restart.
THEOREM EntriesAreKept == WifiSpec => []EntriesKept
  <1>1. WifiInit => Entries
    <2> SUFFICES ASSUME WifiInit PROVE Entries
        OBVIOUS
    <2>1. saved = kept /\ owed = {} /\ stage = "walk"
          BY DEF WifiInit
    <2> QED BY <2>1 DEF Entries
  <1>2. Entries => EntriesKept
        BY DEF Entries, EntriesKept
  <1> QED BY <1>1, <1>2, EntriesStep, WifiBaseHolds, PTL DEF WifiSpec

-------------------------------------------------------------------------------
\* The supervisor's patience

\* Since the link was last seen, as loop() computes it; and until next, as it compares.
Elapsed == Since(now, lastLinkOk)
DueIn   == IF next > now THEN next - now ELSE 0

\* How long until the supervisor walks, if the link stays down.
Remaining ==
    LET soon == Onward(Elapsed, DueIn)
    IN  IF soon >= Timeout THEN DueIn ELSE DueIn + Timeout - soon

\* What is left of Interval behind a walk that tried somebody in vain.
Short == IF Interval > Timeout THEN Interval - Timeout ELSE 0

\* Since next was set the supervisor tried in vain, or it found the link at once and
\* has seen it up since.
Timely ==
    stage = "loop" /\ ~wrapped =>
      /\ DueIn <= Interval
      /\ todo = <<>> => DueIn <= Short \/ Elapsed + DueIn <= Interval
      /\ todo # <<>> => todo = candidates \/ DueIn <= Short

\* The wait so far and what is to come stay within Patience.
InTime ==
    /\ (link # NoNetwork \/ todo # <<>>) => waited = 0
    /\ Supervises /\ link = NoNetwork /\ ~wrapped => waited + Remaining <= Patience

\* The range of these, and Elapsed without the modulus.
LEMMA TimeFacts ==
    ASSUME WifiTypeOK
    PROVE  /\ Elapsed \in 0 .. Wrap - 1 /\ DueIn \in 0 .. Wrap - 1
           /\ Elapsed = (IF now >= lastLinkOk THEN now - lastLinkOk
                         ELSE now - lastLinkOk + Wrap)
           /\ Short \in Nat /\ Short + Timeout <= Patience /\ Remaining \in Nat
           /\ Remaining <= DueIn + Timeout
           /\ DueIn <= Short => Remaining <= Patience
           /\ Elapsed + DueIn <= Interval => Remaining <= Patience
  <1>1. now \in 0 .. Wrap - 1 /\ lastLinkOk \in 0 .. Wrap - 1 /\ next \in 0 .. Wrap - 1
        BY DEF WifiTypeOK
  <1>2. Elapsed = (IF now >= lastLinkOk THEN now - lastLinkOk
                   ELSE now - lastLinkOk + Wrap)
        BY <1>1, SinceFacts DEF Elapsed
  <1>3. Elapsed \in 0 .. Wrap - 1 /\ DueIn \in 0 .. Wrap - 1
        BY <1>1, <1>2, WifiConstants DEF DueIn
  <1>4. Short \in Nat /\ Short + Timeout <= Patience
        BY WifiConstants DEF Short, Patience
  <1>5. /\ Remaining \in Nat /\ Remaining <= DueIn + Timeout
        /\ Elapsed + DueIn <= Interval => Remaining <= Patience
    <2> DEFINE soon == Onward(Elapsed, DueIn)
    <2>1. soon = (IF Elapsed + DueIn < Wrap THEN Elapsed + DueIn ELSE Elapsed + DueIn - Wrap)
          BY <1>3, OnwardFacts
    <2>2. Remaining = IF soon >= Timeout THEN DueIn ELSE DueIn + Timeout - soon
          BY DEF Remaining
    <2> HIDE DEF soon
    <2>3. Elapsed \in Nat /\ DueIn \in Nat /\ Elapsed < Wrap /\ soon \in Nat
          BY <1>3, <2>1, WifiConstants
    <2>4. Remaining \in Nat /\ Remaining <= DueIn + Timeout
          BY <2>2, <2>3, WifiConstants
    <2>5. ASSUME Elapsed + DueIn <= Interval PROVE Remaining <= Patience
      <3>1. soon = Elapsed + DueIn
            BY <2>1, <2>3, <2>5, WifiConstants
      <3> QED BY <2>2, <2>3, <2>5, <3>1, WifiConstants
    <2> QED BY <2>4, <2>5
  <1> QED BY <1>2, <1>3, <1>4, <1>5, WifiConstants

\* A link that has just gone leaves the supervisor as long as it may take.
LEMMA PatienceFacts ==
    ASSUME WifiTypeOK, Timely, stage = "loop", todo = <<>>, ~wrapped
    PROVE  Remaining <= Patience
  BY TimeFacts DEF Timely

\* While loop() has nothing to do, a tick brings the walk one tick nearer.
LEMMA TickFacts ==
    ASSUME WifiBase, Timely, WifiTick, ~wrapped'
    PROVE  /\ Timely'
           /\ link = NoNetwork => Remaining >= 1 /\ Remaining' = Remaining - 1
  <1>1. /\ stage = "loop" /\ todo = <<>> /\ ~(Down /\ Due) /\ Supervises /\ ~wrapped
        /\ now' = (now + 1) % Wrap /\ ~(next > 0 /\ now + 1 >= Wrap)
        /\ UNCHANGED <<lastLinkOk, next, candidates, todo, stage>>
        /\ link # NoNetwork => lastLinkOk = now
        BY DEF WifiTick, Supervises, Passes, lists, setup
  <1>2. /\ now \in 0 .. Wrap - 1 /\ lastLinkOk \in 0 .. Wrap - 1 /\ next \in 0 .. Wrap - 1
        BY DEF WifiBase, WifiTypeOK
  <1>3. now' = IF now + 1 < Wrap THEN now + 1 ELSE 0
    <2>1. now' = Onward(now, 1) /\ 1 \in 0 .. Wrap - 1
          BY <1>1, WifiConstants DEF Onward
    <2> QED BY <1>2, <2>1, OnwardFacts, WifiConstants
  <1>4. DueIn' = IF DueIn > 0 THEN DueIn - 1 ELSE 0
    <2>1. CASE now + 1 < Wrap
          BY <1>1, <1>2, <1>3, <2>1 DEF DueIn
    <2>2. CASE ~(now + 1 < Wrap)
      <3>1. next = 0 /\ now' = 0
            BY <1>1, <1>2, <1>3, <2>2, WifiConstants
      <3> QED BY <1>1, <1>2, <3>1 DEF DueIn
    <2> QED BY <2>1, <2>2
  <1>5. Elapsed' = IF Elapsed + 1 < Wrap THEN Elapsed + 1 ELSE 0
    <2>1. Elapsed = (IF now >= lastLinkOk THEN now - lastLinkOk
                     ELSE now - lastLinkOk + Wrap)
          BY TimeFacts DEF WifiBase
    <2>2. Elapsed' = (IF now' >= lastLinkOk THEN now' - lastLinkOk
                      ELSE now' - lastLinkOk + Wrap)
      <3>1. Elapsed' = Since(now', lastLinkOk) /\ now' \in 0 .. Wrap - 1
            BY <1>1, <1>2, <1>3, WifiConstants DEF Elapsed
      <3> QED BY <1>2, <3>1, SinceFacts
    <2> QED BY <1>2, <1>3, <2>1, <2>2, WifiConstants
  <1>6. Elapsed \in 0 .. Wrap - 1 /\ DueIn \in 0 .. Wrap - 1
        BY TimeFacts DEF WifiBase
  <1>7. DueIn <= Interval /\ (DueIn <= Short \/ Elapsed + DueIn <= Interval)
        BY <1>1 DEF Timely
  <1>8. Timely'
    <2>1. DueIn' <= Interval
          BY <1>4, <1>6, <1>7, WifiConstants
    <2>2. CASE DueIn <= Short
      <3>1. DueIn' <= Short
            BY <1>4, <1>6, <2>2, WifiConstants DEF Short
      <3> QED BY <1>1, <2>1, <3>1 DEF Timely, Short
    <2>3. CASE DueIn > Short
      <3>1. Elapsed' = Elapsed + 1 /\ DueIn' = DueIn - 1 /\ Short' = Short
            BY <1>4, <1>5, <1>6, <1>7, <2>3, WifiConstants DEF Short
      <3>2. Elapsed' + DueIn' <= Interval
            BY <1>6, <1>7, <2>3, <3>1, WifiConstants DEF Short
      <3> QED BY <1>1, <2>1, <3>2 DEF Timely
    <2> QED BY <1>6, <2>2, <2>3, TimeFacts DEF WifiBase
  <1>9. ASSUME link = NoNetwork
         PROVE  Remaining >= 1 /\ Remaining' = Remaining - 1
    <2> DEFINE soon == Onward(Elapsed, DueIn)
    <2>1. /\ Remaining = IF soon >= Timeout THEN DueIn ELSE DueIn + Timeout - soon
          /\ Remaining' = IF soon' >= Timeout THEN DueIn' ELSE DueIn' + Timeout - soon'
          BY DEF Remaining
    <2>2. soon = (IF Elapsed + DueIn < Wrap THEN Elapsed + DueIn ELSE Elapsed + DueIn - Wrap)
          BY <1>6, OnwardFacts
    <2>3. soon' = Onward(Elapsed', DueIn')
          OBVIOUS
    <2> HIDE DEF soon
    <2>4. CASE DueIn > 0
      <3>1. Elapsed' \in 0 .. Wrap - 1 /\ DueIn' \in 0 .. Wrap - 1
            BY <1>4, <1>5, <1>6, <2>4, WifiConstants
      <3>2. soon' = (IF Elapsed' + DueIn' < Wrap THEN Elapsed' + DueIn'
                     ELSE Elapsed' + DueIn' - Wrap)
            BY <2>3, <3>1, OnwardFacts
      <3>3. soon' = soon
            BY <1>4, <1>5, <1>6, <2>2, <2>4, <3>2, WifiConstants
      <3>4. soon \in Nat
            BY <1>6, <2>2, WifiConstants
      <3> QED BY <1>4, <1>6, <2>1, <2>4, <3>3, <3>4, WifiConstants
    <2>5. CASE DueIn = 0
      <3>1. Elapsed < Timeout
        <4>1. Due
              BY <1>2, <2>5 DEF Due, DueIn
        <4>2. ~Down
              BY <1>1, <4>1
        <4> QED BY <1>1, <1>6, <1>9, <4>2, WifiConstants DEF Down, Elapsed, Since
      <3>2. Elapsed' = Elapsed + 1 /\ DueIn' = 0
            BY <1>4, <1>5, <1>6, <2>5, <3>1, WifiConstants
      <3>3. soon = Elapsed
            BY <1>6, <2>2, <2>5, WifiConstants
      <3>4. soon' = Elapsed + 1
        <4>1. Elapsed' \in 0 .. Wrap - 1 /\ DueIn' \in 0 .. Wrap - 1 /\ Elapsed + 1 < Wrap
              BY <1>6, <3>1, <3>2, WifiConstants
        <4> QED BY <1>6, <2>3, <3>2, <4>1, OnwardFacts
      <3> QED BY <1>6, <2>1, <2>5, <3>1, <3>2, <3>3, <3>4, WifiConstants
    <2> QED BY <1>6, <2>4, <2>5
  <1> QED BY <1>8, <1>9

\* Every step keeps the supervisor in time.
LEMMA TimelyStep == WifiBase /\ Timely /\ [WifiNext]_wifiVars => Timely'
  <1> SUFFICES ASSUME WifiBase, Timely, [WifiNext]_wifiVars, stage' = "loop", ~wrapped'
               PROVE  Timely'
      BY DEF Timely
  <1>0. /\ now \in 0 .. Wrap - 1 /\ lastLinkOk \in 0 .. Wrap - 1 /\ next \in 0 .. Wrap - 1
        /\ Elapsed \in 0 .. Wrap - 1 /\ DueIn \in 0 .. Wrap - 1 /\ Short \in Nat
        BY TimeFacts DEF WifiBase, WifiTypeOK
  <1>1. Since(now, now) = 0
        BY <1>0, SinceFacts
  <1>2. CASE Join
    <2>1. /\ todo' = <<>> /\ lastLinkOk' = now /\ UNCHANGED <<now, next>> /\ wrapped' = wrapped
          BY <1>2 DEF Join
    <2>2. DueIn <= Interval
      <3>1. CASE stage = "loop"
            BY <2>1, <3>1 DEF Timely
      <3>2. CASE stage # "loop"
            BY <3>2, WifiConstants DEF WifiBase, SetupFirst, DueIn
      <3> QED BY <3>1, <3>2
    <2>3. DueIn' = DueIn /\ Elapsed' = 0
          BY <1>1, <2>1 DEF DueIn, Elapsed
    <2>4. DueIn' <= Interval /\ Elapsed' + DueIn' <= Interval
          BY <1>0, <2>2, <2>3, WifiConstants
    <2> QED BY <2>1, <2>4 DEF Timely
  <1>3. CASE Miss
    <2>1. /\ stage = "loop" /\ todo # <<>> /\ now' = Onward(now, Timeout) /\ UNCHANGED next
          /\ ~wrapped /\ ~(next > 0 /\ now + Timeout >= Wrap)
          BY <1>3 DEF Miss, Passes, Onward, setup
    <2>2. DueIn <= Interval
          BY <2>1 DEF Timely
    <2>3. now' = IF now + Timeout < Wrap THEN now + Timeout ELSE now + Timeout - Wrap
          BY <1>0, <2>1, OnwardFacts, WifiConstants
    <2>4. DueIn' <= Short
      <3>1. CASE now + Timeout < Wrap
            BY <1>0, <2>1, <2>2, <2>3, <3>1, WifiConstants DEF DueIn, Short
      <3>2. CASE ~(now + Timeout < Wrap)
        <4>1. next = 0 /\ now' \in Nat
              BY <1>0, <2>1, <2>3, <3>2, WifiConstants
        <4> QED BY <1>0, <2>1, <4>1 DEF DueIn
      <3> QED BY <3>1, <3>2
    <2>5. DueIn' \in Nat /\ Short' = Short /\ Short <= Interval
      <3>1. now' \in Nat
            BY <1>0, <2>3, WifiConstants
      <3> QED BY <1>0, <2>1, <3>1, WifiConstants DEF DueIn, Short
    <2> QED BY <1>0, <2>4, <2>5, WifiConstants DEF Timely
  <1>4. CASE Entered
    <2>1. stage = "entered" /\ UNCHANGED <<now, next, todo>>
          BY <1>4 DEF Entered, Boots, LoopBegins, clock
    <2>2. DueIn' = 0
          BY <2>1 DEF WifiBase, SetupFirst, DueIn
    <2> QED BY <2>2, WifiConstants DEF Timely, Short
  <1>5. CASE SeeUp
    <2>1. /\ stage = "loop" /\ todo' = <<>> /\ lastLinkOk' = now
          /\ UNCHANGED <<now, next, wrapped>>
          BY <1>5 DEF SeeUp, Supervises, past
    <2>2. DueIn' = DueIn /\ Elapsed' = 0 /\ DueIn <= Interval
          BY <1>1, <2>1 DEF DueIn, Elapsed, Timely
    <2>3. DueIn' <= Interval /\ Elapsed' + DueIn' <= Interval
          BY <1>0, <2>2, WifiConstants
    <2> QED BY <2>1, <2>3 DEF Timely
  <1>6. CASE WalkAgain
    <2>1. /\ todo' = candidates /\ candidates' = candidates /\ candidates # <<>>
          /\ next' = Onward(now, Interval) /\ now' = now
          BY <1>6 DEF WalkAgain, WifiBase, SetupFirst, lists, Onward
    <2>2. next' = IF now + Interval < Wrap THEN now + Interval ELSE now + Interval - Wrap
          BY <1>0, <2>1, OnwardFacts, WifiConstants
    <2>3. DueIn' <= Interval
          BY <1>0, <2>1, <2>2, WifiConstants DEF DueIn
    <2> QED BY <2>1, <2>3 DEF Timely
  <1>7. CASE WifiTick
        BY <1>7, TickFacts
  <1>8. CASE Scan \/ FallBack \/ PortalEnds \/ WifiBoot
        BY <1>8 DEF Scan, FallBack, PortalEnds, WifiBoot, Boots
  <1>9. CASE AirChanges \/ LinkChanges \/ UNCHANGED wifiVars
    <2>1. UNCHANGED <<now, next, lastLinkOk, todo, candidates, stage, wrapped>>
          BY <1>9 DEF AirChanges, LinkChanges, wifiVars, lists, setup, clock, past
    <2>2. DueIn' = DueIn /\ Elapsed' = Elapsed /\ Short' = Short
          BY <2>1 DEF DueIn, Elapsed, Short
    <2> QED BY <2>1, <2>2 DEF Timely
  <1> QED BY WifiCases, <1>2, <1>3, <1>4, <1>5, <1>6, <1>7, <1>8, <1>9

\* What remains is within the patience after the step, too;
LEMMA PatienceNext ==
    (WifiTypeOK /\ Timely /\ stage = "loop" /\ todo = <<>> /\ ~wrapped =>
        Remaining <= Patience)'
  <1>1. WifiTypeOK /\ Timely /\ stage = "loop" /\ todo = <<>> /\ ~wrapped =>
            Remaining <= Patience
        BY PatienceFacts
  <1> QED BY <1>1, PTL

\* and it is a number.
LEMMA RemainingNext == (WifiTypeOK => Remaining \in Nat)'
  <1>1. WifiTypeOK => Remaining \in Nat
        BY TimeFacts
  <1> QED BY <1>1, PTL

\* Every step keeps the wait within what remains of the patience.
LEMMA InTimeStep == WifiBase /\ Timely /\ InTime /\ [WifiNext]_wifiVars => InTime'
  <1> SUFFICES ASSUME WifiBase, Timely, InTime, [WifiNext]_wifiVars PROVE InTime'
      OBVIOUS
  <1>0. WifiTypeOK' /\ Timely'
        BY WifiBaseStep, TimelyStep DEF WifiBase
  <1>1. /\ Patience' = Patience /\ Patience \in Nat
        /\ Remaining \in Nat /\ Remaining' \in Nat
        BY <1>0, TimeFacts, RemainingNext, WifiConstants DEF WifiBase, Patience
  <1>2. ASSUME waited' = 0 PROVE InTime'
    <2>1. ASSUME Supervises', ~wrapped' PROVE waited' + Remaining' <= Patience'
      <3>1. stage' = "loop" /\ todo' = <<>>
            BY <2>1 DEF Supervises
      <3>2. Remaining' <= Patience'
            BY <1>0, <1>1, <2>1, <3>1, PatienceNext
      <3>3. PICK r \in Nat : r = Remaining'
            BY <1>1
      <3>4. waited' + r = r
            BY <1>2
      <3> QED BY <3>2, <3>3, <3>4
    <2> QED BY <1>2, <2>1 DEF InTime
  <1>3. CASE Scan \/ FallBack \/ PortalEnds \/ Entered
    <2>1. stage # "loop" /\ waited = 0
          BY <1>3 DEF Scan, FallBack, PortalEnds, Entered, WifiBase, SetupFirst
    <2>2. waited' = 0
          BY <1>3, <2>1 DEF Scan, FallBack, PortalEnds, Entered, Boots, past
    <2> QED BY <1>2, <2>2
  <1>4. CASE Join \/ WalkAgain \/ WifiBoot \/ LinkChanges
    <2>1. waited' = 0
          BY <1>4 DEF Join, WalkAgain, WifiBoot, Boots, LinkChanges
    <2> QED BY <1>2, <2>1
  <1>5. CASE Miss
    <2>1. waited' = 0
          BY <1>5 DEF Miss, InTime
    <2> QED BY <1>2, <2>1
  <1>6. CASE SeeUp
    <2>1. UNCHANGED <<link, todo, waited>> /\ link # NoNetwork
          BY <1>6 DEF SeeUp, radio, past
    <2> QED BY <2>1 DEF InTime
  <1>7. CASE WifiTick
    <2>1. /\ UNCHANGED <<link, todo>> /\ todo = <<>> /\ Supervises
          /\ ~wrapped' => ~wrapped
          BY <1>7 DEF WifiTick, Supervises, Passes, radio
    <2>2. CASE link # NoNetwork
      <3>1. waited' = 0
            BY <1>7, <2>2 DEF WifiTick
      <3> QED BY <1>2, <3>1
    <2>3. CASE link = NoNetwork
      <3>1. ASSUME ~wrapped' PROVE waited' + Remaining' <= Patience'
        <4>1. Remaining >= 1 /\ Remaining' = Remaining - 1
              BY <1>7, <2>3, <3>1, TickFacts
        <4>2. waited + Remaining <= Patience /\ waited \in Nat
              BY <2>1, <2>3, <3>1, WifiConstants DEF InTime, WifiBase, WifiTypeOK
        <4>3. waited' = waited + 1
          <5>1. ~(waited > Patience)
                BY <1>1, <4>1, <4>2
          <5> QED BY <1>7, <2>3, <5>1 DEF WifiTick
        <4> QED BY <1>1, <4>1, <4>2, <4>3
      <3> QED BY <2>1, <2>3, <3>1 DEF InTime
    <2> QED BY <2>2, <2>3
  <1>8. CASE AirChanges
    <2>1. UNCHANGED <<waited, todo, stage, state, now, next, lastLinkOk, wrapped>>
          BY <1>8 DEF AirChanges, setup, clock, past
    <2>2. link' = link \/ link' = NoNetwork
          BY <1>8 DEF AirChanges
    <2>3. CASE link # NoNetwork
          BY <1>2, <2>1, <2>3 DEF InTime
    <2>4. CASE link = NoNetwork
      <3>1. link' = link
            BY <2>2, <2>4
      <3>2. Remaining' = Remaining /\ Supervises' = Supervises
            BY <2>1 DEF Remaining, Elapsed, DueIn, Supervises
      <3> QED BY <1>1, <2>1, <3>1, <3>2 DEF InTime
    <2> QED BY <2>3, <2>4
  <1>9. CASE UNCHANGED wifiVars
    <2>1. UNCHANGED <<link, waited, todo, stage, state, now, next, lastLinkOk, wrapped>>
          BY <1>9 DEF wifiVars, radio, setup, clock, past
    <2>2. Remaining' = Remaining /\ Supervises' = Supervises
          BY <2>1 DEF Remaining, Elapsed, DueIn, Supervises
    <2> QED BY <1>1, <2>1, <2>2 DEF InTime
  <1> QED BY WifiCases, <1>3, <1>4, <1>5, <1>6, <1>7, <1>8, <1>9

\* While the link is down the supervisor tries to join within Patience, unless millis()
\* has wrapped since it last did (loop()): for any delays, any number of networks, and
\* whatever the radio and the SDK do in between.
THEOREM RejoinsPromptly == WifiSpec => []PromptRejoin
  <1>1. WifiInit => Timely /\ InTime
    <2> SUFFICES ASSUME WifiInit PROVE Timely /\ InTime
        OBVIOUS
    <2>1. stage = "walk" /\ waited = 0
          BY DEF WifiInit
    <2> QED BY <2>1 DEF Timely, InTime, Supervises
  <1>2. WifiBase /\ InTime => PromptRejoin
    <2> SUFFICES ASSUME WifiBase, InTime, Supervises, link = NoNetwork, ~wrapped
                 PROVE  waited <= Patience
        BY DEF PromptRejoin
    <2>1. waited + Remaining <= Patience /\ Remaining \in Nat /\ waited \in Nat
          BY TimeFacts, WifiConstants DEF InTime, WifiBase, WifiTypeOK
    <2> QED BY <2>1, WifiConstants
  <1> QED BY <1>1, <1>2, TimelyStep, InTimeStep, WifiBaseHolds, PTL DEF WifiSpec

-------------------------------------------------------------------------------
\* UDP control

\* Every step of UDP control and of the world around it, by name.
LEMMA UdpSteps ==
    ASSUME [UdpNext]_udpVars
    PROVE  \/ \E r \in Requests : Act(r)
           \/ \E r \in Requests : RefuseCommand(r)
           \/ \E r \in Requests : SendRequest(r)
           \/ UdpBoot \/ ClockIsSet \/ NewToken \/ UdpTick
           \/ UNCHANGED udpVars
  BY DEF UdpNext

\* The nonce ring after one more request: as many as it has slots, the new one last
\* and the others one place further back (rememberNonce).
LEMMA RememberedFacts ==
    ASSUME UdpTypeOK, NEW r \in Requests
    PROVE  /\ Remembered(r) \in Seq(Requests) /\ Len(Remembered(r)) \in 1 .. RingSlots
           /\ Remembered(r)[Len(Remembered(r))] = r
           /\ \A b \in Nat : b < Len(nonces) /\ b + 1 < RingSlots =>
                 /\ b + 1 < Len(Remembered(r))
                 /\ Remembered(r)[Len(Remembered(r)) - (b + 1)] = nonces[Len(nonces) - b]
  <1> USE UdpAssumption DEF UdpTypeOK
  <1>1. CASE Len(nonces) = RingSlots
    <2>1. Remembered(r) = Append(Tail(nonces), r)
          BY <1>1 DEF Remembered
    <2>2. /\ Tail(nonces) \in Seq(Requests) /\ Len(Tail(nonces)) = RingSlots - 1
          /\ \A i \in 1 .. RingSlots - 1 : Tail(nonces)[i] = nonces[i + 1]
          BY <1>1
    <2>3. /\ Remembered(r) \in Seq(Requests) /\ Len(Remembered(r)) = RingSlots
          /\ Remembered(r)[RingSlots] = r
          /\ \A i \in 1 .. RingSlots - 1 : Remembered(r)[i] = nonces[i + 1]
          BY <2>1, <2>2
    <2>4. RingSlots \in Nat \ {0}
          OBVIOUS
    <2>5. ASSUME NEW b \in Nat, b < Len(nonces), b + 1 < RingSlots
          PROVE  /\ b + 1 < Len(Remembered(r))
                 /\ Remembered(r)[Len(Remembered(r)) - (b + 1)] = nonces[Len(nonces) - b]
      <3>1. /\ RingSlots - (b + 1) \in 1 .. RingSlots - 1
            /\ (RingSlots - (b + 1)) + 1 = RingSlots - b
            BY <2>4, <2>5
      <3> QED BY <1>1, <2>3, <2>5, <3>1
    <2> QED BY <2>3, <2>4, <2>5
  <1>2. CASE Len(nonces) # RingSlots
    <2>1. Remembered(r) = Append(nonces, r)
          BY <1>2 DEF Remembered
    <2>2. /\ Remembered(r) \in Seq(Requests) /\ Len(Remembered(r)) = Len(nonces) + 1
          /\ Remembered(r)[Len(nonces) + 1] = r
          /\ \A i \in 1 .. Len(nonces) : Remembered(r)[i] = nonces[i]
          BY <2>1
    <2>3. Len(nonces) \in Nat /\ Len(nonces) < RingSlots /\ RingSlots \in Nat
          BY <1>2
    <2>4. ASSUME NEW b \in Nat, b < Len(nonces), b + 1 < RingSlots
          PROVE  /\ b + 1 < Len(Remembered(r))
                 /\ Remembered(r)[Len(Remembered(r)) - (b + 1)] = nonces[Len(nonces) - b]
      <3>1. /\ Len(nonces) - b \in 1 .. Len(nonces)
            /\ (Len(nonces) + 1) - (b + 1) = Len(nonces) - b
            BY <2>3, <2>4
      <3>2. Len(Remembered(r)) - (b + 1) = Len(nonces) - b /\ b + 1 < Len(Remembered(r))
            BY <2>2, <2>3, <2>4, <3>1
      <3>3. Remembered(r)[Len(nonces) - b] = nonces[Len(nonces) - b]
            BY <2>2, <3>1
      <3> QED BY <3>2, <3>3
    <2> QED BY <2>2, <2>3, <2>4
  <1> QED BY <1>1, <1>2

\* The nonce ring of a boot is a ring.
LEMMA EmptyRing == <<>> \in Seq(Requests) /\ Len(<<>>) = 0
  OBVIOUS

-------------------------------------------------------------------------------
\* Type correctness

\* Every step keeps the types,
LEMMA UdpTypeStep == UdpTypeOK /\ [UdpNext]_udpVars => UdpTypeOK'
  <1> SUFFICES ASSUME UdpTypeOK, [UdpNext]_udpVars PROVE UdpTypeOK'
      OBVIOUS
  <1> USE UdpAssumption DEF UdpTypeOK
  <1>1. CASE \E r \in Requests : Act(r)
    <2>1. PICK r \in Requests : Act(r)
          BY <1>1
    <2>2. nonces' \in Seq(Requests) /\ Len(nonces') <= RingSlots
          BY <2>1, RememberedFacts DEF Act, Accepts
    <2>3. behind' \in [Requests -> 0 .. RingSlots]
          BY <2>1 DEF Act, UpTo
    <2> QED BY <2>1, <2>2, <2>3 DEF Act, request
  <1>2. CASE \E r \in Requests : RefuseCommand(r)
    <2>1. PICK r \in Requests : RefuseCommand(r)
          BY <1>2
    <2>2. nonces' \in Seq(Requests) /\ Len(nonces') <= RingSlots
          BY <2>1, RememberedFacts DEF RefuseCommand, Accepts
    <2>3. behind' \in [Requests -> 0 .. RingSlots]
          BY <2>1 DEF RefuseCommand, UpTo
    <2> QED BY <2>1, <2>2, <2>3 DEF RefuseCommand, request
  <1>3. CASE \E r \in Requests : SendRequest(r)
    <2>1. PICK r \in Requests, token \in 1 .. deviceToken, old \in (0 - Ahead) .. Ahead :
               key' = [key EXCEPT ![r] = token] /\ age' = [age EXCEPT ![r] = old]
          BY <1>3 DEF SendRequest
    <2>2. token \in Unsent .. MaxToken /\ old \in (0 - Ahead) .. TsWindow + Ahead + 1
          BY DEF NoToken, Unsent
    <2> QED BY <1>3, <2>1, <2>2 DEF SendRequest, udpPast
  <1>4. CASE UdpBoot
    <2>1. nonces' \in Seq(Requests) /\ Len(nonces') = 0
          BY <1>4, EmptyRing DEF UdpBoot
    <2>2. Len(nonces') <= RingSlots
          BY <2>1
    <2> QED BY <1>4, <2>1, <2>2 DEF UdpBoot, request
  <1>5. CASE ClockIsSet
        BY <1>5 DEF ClockIsSet, request, udpPast
  <1>6. CASE NewToken
        BY <1>6 DEF NewToken, request, udpPast, NoToken
  <1>7. CASE UdpTick
    <2>1. age' \in [Requests -> (0 - Ahead) .. TsWindow + Ahead + 1]
          BY <1>7 DEF UdpTick, UpTo
    <2>2. since' \in [Requests -> 0 .. Expired]
          BY <1>7 DEF UdpTick, Expired, UpTo
    <2> QED BY <1>7, <2>1, <2>2 DEF UdpTick
  <1>8. CASE UNCHANGED udpVars
        BY <1>8 DEF udpVars, request, udpPast
  <1> QED BY UdpSteps, <1>1, <1>2, <1>3, <1>4, <1>5, <1>6, <1>7, <1>8

\* which hold at first.
LEMMA UdpTypeInit == UdpInit => UdpTypeOK
  <1> SUFFICES ASSUME UdpInit PROVE UdpTypeOK
      OBVIOUS
  <1> USE UdpAssumption DEF UdpInit
  <1>1. /\ age \in [Requests -> (0 - Ahead) .. TsWindow + Ahead + 1]
        /\ key \in [Requests -> Unsent .. MaxToken]
        BY DEF Unsent
  <1>2. deviceToken \in NoToken .. MaxToken /\ secret \in NoToken .. MaxToken
        BY DEF NoToken
  <1>3. nonces \in Seq(Requests) /\ Len(nonces) <= RingSlots
        BY EmptyRing
  <1>4. since \in [Requests -> 0 .. Expired] /\ behind \in [Requests -> 0 .. RingSlots]
        BY DEF Expired
  <1> QED BY <1>1, <1>2, <1>3, <1>4 DEF UdpTypeOK

\* UDP control: keys, tokens, ages and ring keep their types, for any requests, any
\* windows and any length of the ring.
THEOREM UdpTypeCorrect == UdpSpec => []UdpTypeOK
  BY UdpTypeInit, UdpTypeStep, PTL DEF UdpSpec

-------------------------------------------------------------------------------
\* No request acts twice

\* A request that was carried out is where the count of those behind it says, in the
\* ring, unless the ring has been lost with a restart or has gone round.
StillInRing ==
    \A r \in acted :
       /\ r \notin Unknown
       /\ \/ r \in rebooted
          \/ behind[r] = RingSlots
          \/ behind[r] < Len(nonces) /\ nonces[Len(nonces) - behind[r]] = r

\* Its age is at least the time since then, less the window it was accepted in; or
\* it is past the window for good.
AgedSince ==
    /\ \A r \in acted : key[r] # Unsent /\ (age[r] > TsWindow \/ since[r] <= age[r] + TsWindow)
    /\ \A r \in Requests \ acted : since[r] = 0

\* A packet that is accepted puts the ring's other entries one place back.
LEMMA RingKept ==
    ASSUME UdpTypeOK, StillInRing, NEW r \in Requests, Accepts(r),
           \A q \in acted \ {r} : q \in rebooted => q \in rebooted',
           \A q \in acted \ {r} : behind'[q] = UpTo(behind[q], RingSlots)
    PROVE  \A q \in acted \ {r} :
              \/ q \in rebooted'
              \/ behind'[q] = RingSlots
              \/ behind'[q] < Len(nonces') /\ nonces'[Len(nonces') - behind'[q]] = q
  <1> SUFFICES ASSUME NEW q \in acted \ {r}, q \notin rebooted', behind'[q] # RingSlots
               PROVE  behind'[q] < Len(nonces') /\ nonces'[Len(nonces') - behind'[q]] = q
      OBVIOUS
  <1>1. behind[q] \in Nat /\ behind[q] <= RingSlots /\ RingSlots \in Nat /\ Len(nonces) \in Nat
        BY UdpAssumption DEF UdpTypeOK
  <1>2. behind'[q] = behind[q] + 1 /\ behind[q] + 1 < RingSlots
        BY <1>1 DEF UpTo
  <1>3. behind[q] < Len(nonces) /\ nonces[Len(nonces) - behind[q]] = q
        BY <1>1, <1>2 DEF StillInRing
  <1>4. nonces' = Remembered(r)
        BY DEF Accepts
  <1>5. /\ behind[q] + 1 < Len(Remembered(r))
        /\ Remembered(r)[Len(Remembered(r)) - (behind[q] + 1)] =
              nonces[Len(nonces) - behind[q]]
        BY <1>1, <1>2, <1>3, RememberedFacts
  <1> QED BY <1>2, <1>3, <1>4, <1>5

\* Every step keeps the recent requests in the ring.
LEMMA StillInRingStep == UdpTypeOK /\ StillInRing /\ [UdpNext]_udpVars => StillInRing'
  <1> SUFFICES ASSUME UdpTypeOK, StillInRing, [UdpNext]_udpVars PROVE StillInRing'
      OBVIOUS
  <1>1. CASE \E r \in Requests : Act(r)
    <2>1. PICK r \in Requests : Act(r)
          BY <1>1
    <2>2. /\ Accepts(r) /\ acted' = acted \union {r} /\ rebooted' = rebooted \ {r}
          /\ behind' = [q \in Requests |-> IF q = r THEN 0 ELSE UpTo(behind[q], RingSlots)]
          BY <2>1 DEF Act
    <2>3. \A q \in acted' \ {r} :
             \/ q \in rebooted'
             \/ behind'[q] = RingSlots
             \/ behind'[q] < Len(nonces') /\ nonces'[Len(nonces') - behind'[q]] = q
          BY <2>2, RingKept DEF UdpTypeOK
    <2>4. behind'[r] < Len(nonces') /\ nonces'[Len(nonces') - behind'[r]] = r
      <3>1. behind'[r] = 0 /\ nonces' = Remembered(r)
            BY <2>2 DEF Accepts
      <3>2. Len(Remembered(r)) > 0 /\ Len(Remembered(r)) - 0 = Len(Remembered(r))
            BY RememberedFacts
      <3>3. Remembered(r)[Len(Remembered(r))] = r
            BY RememberedFacts
      <3> QED BY <3>1, <3>2, <3>3
    <2>5. \A q \in acted' : q \notin Unknown
          BY <2>1, <2>2 DEF Act, StillInRing
    <2> QED BY <2>3, <2>4, <2>5 DEF StillInRing
  <1>2. CASE \E r \in Requests : RefuseCommand(r)
    <2>1. PICK r \in Requests : RefuseCommand(r)
          BY <1>2
    <2>2. /\ r \in Unknown /\ Accepts(r) /\ UNCHANGED <<acted, rebooted>>
          /\ behind' = [q \in Requests |-> UpTo(behind[q], RingSlots)]
          BY <2>1 DEF RefuseCommand
    <2>3. r \notin acted
          BY <2>2 DEF StillInRing
    <2>4. \A q \in acted \ {r} :
             \/ q \in rebooted'
             \/ behind'[q] = RingSlots
             \/ behind'[q] < Len(nonces') /\ nonces'[Len(nonces') - behind'[q]] = q
      <3>1. \A q \in acted : behind'[q] = UpTo(behind[q], RingSlots)
            BY <2>2 DEF UdpTypeOK
      <3> QED BY <2>2, <3>1, RingKept
    <2> QED BY <2>2, <2>3, <2>4 DEF StillInRing
  <1>3. CASE UdpBoot
        BY <1>3 DEF UdpBoot, StillInRing
  <1>4. CASE (\E r \in Requests : SendRequest(r)) \/ ClockIsSet \/ NewToken \/ UdpTick
             \/ UNCHANGED udpVars
        BY <1>4 DEF SendRequest, ClockIsSet, NewToken, UdpTick, udpVars, udpPast, StillInRing
  <1> QED BY UdpSteps, <1>1, <1>2, <1>3, <1>4

\* Every step keeps the ages of the requests and the time since they were carried out apart.
LEMMA AgedSinceStep == UdpTypeOK /\ AgedSince /\ [UdpNext]_udpVars => AgedSince'
  <1> SUFFICES ASSUME UdpTypeOK, AgedSince, [UdpNext]_udpVars PROVE AgedSince'
      OBVIOUS
  <1> USE UdpAssumption
  <1>1. CASE \E r \in Requests : Act(r)
    <2>1. PICK r \in Requests : Act(r)
          BY <1>1
    <2>2. /\ acted' = acted \union {r} /\ UNCHANGED <<age, key, since>>
          /\ key[r] # Unsent /\ age[r] \in (0 - TsWindow) .. TsWindow
      <3>1. key[r] = secret /\ secret # NoToken /\ secret \in NoToken .. MaxToken
            BY <2>1 DEF Act, Accepts, UdpTypeOK
      <3>2. key[r] # Unsent
            BY <3>1 DEF Unsent, NoToken
      <3> QED BY <2>1, <3>2 DEF Act, Accepts, Fresh, request
    <2>3. r \notin acted => since[r] <= age[r] + TsWindow
          BY <2>2 DEF AgedSince
    <2> QED BY <2>2, <2>3 DEF AgedSince
  <1>2. CASE \E r \in Requests : SendRequest(r)
    <2>1. PICK r \in Requests : SendRequest(r)
          BY <1>2
    <2>2. r \notin acted /\ UNCHANGED <<acted, since>>
          BY <2>1 DEF SendRequest, AgedSince, udpPast
    <2>3. \A q \in acted : key'[q] = key[q] /\ age'[q] = age[q]
          BY <2>1, <2>2 DEF SendRequest, UdpTypeOK
    <2> QED BY <2>2, <2>3 DEF AgedSince
  <1>3. CASE UdpTick
    <2>1. UNCHANGED <<key, acted>>
          BY <1>3 DEF UdpTick
    <2>2. \A q \in Requests \ acted : since'[q] = since[q]
          BY <1>3 DEF UdpTick
    <2>3. ASSUME NEW q \in acted
          PROVE  age'[q] > TsWindow \/ since'[q] <= age'[q] + TsWindow
      <3>1. /\ q \in Requests /\ key[q] # Unsent
            /\ age[q] > TsWindow \/ since[q] <= age[q] + TsWindow
            /\ age[q] \in Int /\ age[q] <= TsWindow + Ahead + 1 /\ since[q] \in Int
            BY DEF AgedSince, UdpTypeOK, Expired
      <3>2. age'[q] = IF age[q] < TsWindow + Ahead + 1 THEN age[q] + 1 ELSE age[q]
            BY <1>3, <3>1 DEF UdpTick, UpTo
      <3>3. since'[q] = IF since[q] < Expired THEN since[q] + 1 ELSE since[q]
            BY <1>3, <3>1 DEF UdpTick, UpTo
      <3> QED BY <3>1, <3>2, <3>3 DEF Expired
    <2> QED BY <2>1, <2>2, <2>3 DEF AgedSince
  <1>4. CASE (\E r \in Requests : RefuseCommand(r)) \/ UdpBoot \/ ClockIsSet \/ NewToken
             \/ UNCHANGED udpVars
        BY <1>4 DEF RefuseCommand, UdpBoot, ClockIsSet, NewToken, udpVars, udpPast, request,
                    AgedSince
  <1> QED BY UdpSteps, <1>1, <1>2, <1>3, <1>4

\* A request is carried out again only behind a restart or a whole ring of others, and
\* within twice the window (processPacket, nonceSeen, rememberNonce), for any number
\* of requests, any clocks and any length of the ring.
THEOREM ActsAtMostOnce == UdpSpec => ActsOnce
  <1>1. UdpInit => StillInRing /\ AgedSince
        BY DEF UdpInit, StillInRing, AgedSince
  <1>2. ASSUME UdpTypeOK, StillInRing, AgedSince, NEW r \in acted, Act(r)
        PROVE  (r \in rebooted \/ behind[r] = RingSlots) /\ since[r] < Expired
    <2>1. /\ r \notin Range(nonces) /\ age[r] \in (0 - TsWindow) .. TsWindow
          BY <1>2 DEF Act, Accepts, Fresh
    <2>2. r \in rebooted \/ behind[r] = RingSlots
      <3>1. ASSUME behind[r] < Len(nonces), nonces[Len(nonces) - behind[r]] = r
            PROVE  FALSE
        <4>1. behind[r] \in Nat /\ Len(nonces) \in Nat
              BY <1>2 DEF UdpTypeOK
        <4>2. Len(nonces) - behind[r] \in DOMAIN nonces
              BY <1>2, <3>1, <4>1 DEF UdpTypeOK
        <4> QED BY <2>1, <3>1, <4>2 DEF Range
      <3> QED BY <1>2, <3>1 DEF StillInRing
    <2>3. since[r] < Expired
      <3>1. r \in Requests /\ since[r] \in Int
            BY <1>2 DEF UdpTypeOK
      <3> QED BY <1>2, <2>1, <3>1, UdpAssumption DEF AgedSince, Expired
    <2> QED BY <2>2, <2>3
  <1>3. UdpTypeOK /\ StillInRing /\ AgedSince /\ [UdpNext]_udpVars
        => [\A r \in acted :
              Act(r) => (r \in rebooted \/ behind[r] = RingSlots) /\ since[r] < Expired]_udpVars
        BY <1>2
  <1> QED BY <1>1, <1>3, UdpTypeCorrect, StillInRingStep, AgedSinceStep, PTL
          DEF UdpSpec, ActsOnce

-------------------------------------------------------------------------------
\* The services side by side

\* What a step of all of them is to each.
LEMMA ServiceSteps ==
    ASSUME [Next]_vars
    PROVE  /\ [LogNext]_logVars /\ [LinkNext]_linkVars
           /\ [WifiNext]_wifiVars /\ [UdpNext]_udpVars
  <1>1. CASE UNCHANGED vars
        BY <1>1 DEF vars
  <1>2. CASE In("log") /\ LogNext /\ Rests("log")
        BY <1>2 DEF Rests
  <1>3. CASE In("hub") /\ LinkNext /\ Rests("hub")
        BY <1>3 DEF Rests
  <1>4. CASE In("wifi") /\ WifiNext /\ Rests("wifi")
        BY <1>4 DEF Rests
  <1>5. CASE In("udp") /\ UdpNext /\ Rests("udp")
        BY <1>5 DEF Rests
  <1> QED BY <1>1, <1>2, <1>3, <1>4, <1>5 DEF Next

\* Whatever the services do side by side, each does what it would do alone: all that
\* is proved of one holds of them together (main.cpp:249, loop).
THEOREM ServicesKeepToThemselves ==
    Spec => /\ LogSpec /\ UdpSpec
            /\ LinkInit /\ [][LinkNext]_linkVars
            /\ WifiInit /\ [][WifiNext]_wifiVars
  <1>1. Init => LogInit /\ LinkInit /\ WifiInit /\ UdpInit
        BY DEF Init
  <1> QED BY <1>1, ServiceSteps, PTL DEF Spec, LogSpec, UdpSpec

\* The state of all services has its type at all times.
THEOREM ServicesTypeCorrect == Spec => []TypeOK
  <1>1. WifiBase => WifiTypeOK
        BY DEF WifiBase
  <1>2. LogTypeOK /\ LinkTypeOK /\ WifiTypeOK /\ UdpTypeOK => TypeOK
        BY DEF TypeOK
  <1> QED BY <1>1, <1>2, ServicesKeepToThemselves, LogTypeCorrect, UdpTypeCorrect,
             LinkTypeInit, LinkTypeStep, WifiBaseInit, WifiBaseStep, PTL
===============================================================================
