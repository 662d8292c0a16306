------------------------------- MODULE UdpControl -------------------------------
(***************************************************************************)
(* The relay requests that come by UDP (src/src/udp_control.cpp), over a   *)
(* network that loses, delays, reorders and duplicates them, through       *)
(* reboots.  What a request does to the relay is UdpCommand of Monitor.    *)
(*                                                                         *)
(* A request is its nonce.  Its age is the time by the device's clock      *)
(* since its time stamp, negative when the sender's clock is ahead.  The   *)
(* sender takes the token it remembers for its key.  A packet of another   *)
(* length, or one with a wrong tag, has no effect and is left out.         *)
(***************************************************************************)
EXTENDS Integers, Sequences, SequencesExt

CONSTANTS Requests,   \* nonces
          Unknown,    \* those with a command that the device does not know
          TsWindow,   \* TS_WINDOW_S
          Ahead,      \* how far the clocks of senders are off, in either direction
          RingSlots,  \* NONCE_RING_SIZE
          MaxToken    \* bound of the model: tokens the device is given

ASSUME UdpAssumption ==
    /\ Unknown \subseteq Requests
    /\ TsWindow \in Nat /\ Ahead \in Nat /\ RingSlots \in Nat \ {0}
    /\ MaxToken \in Nat \ {0}

VARIABLES age,         \* of each request, by the clock of the device
          key,         \* the token it was made with, or Unsent
          deviceToken, \* config.central.deviceToken
          secret,      \* gSecret
          nonces,      \* gNonceRing, the oldest first
          clockSet,    \* does the device know the time?
          acted,       \* history: the requests that have been carried out,
          since,       \* how long ago that was first, up to Expired,
          behind,      \* how many others since it was last, up to RingSlots,
          rebooted     \* and whether the device has been restarted since

request == <<age, key>>
udpPast == <<acted, since, behind, rebooted>>
udpVars == <<request, deviceToken, secret, nonces, clockSet, udpPast>>

Unsent  == 0 - 1
NoToken == 0
Expired == 2 * TsWindow + 1

\* The type of the state.
UdpTypeOK ==
    /\ age \in [Requests -> (0 - Ahead) .. TsWindow + Ahead + 1]
    /\ key \in [Requests -> Unsent .. MaxToken]
    /\ deviceToken \in NoToken .. MaxToken /\ secret \in NoToken .. MaxToken
    /\ nonces \in Seq(Requests) /\ Len(nonces) <= RingSlots
    /\ acted \subseteq Requests /\ rebooted \subseteq Requests
    /\ since \in [Requests -> 0 .. Expired] /\ behind \in [Requests -> 0 .. RingSlots]
    /\ clockSet \in BOOLEAN

UdpInit ==
    /\ age = [r \in Requests |-> 0] /\ key = [r \in Requests |-> Unsent]
    /\ deviceToken \in {NoToken, 1} /\ secret = deviceToken
    /\ nonces = <<>> /\ clockSet = FALSE
    /\ acted = {} /\ rebooted = {}
    /\ since = [r \in Requests |-> 0] /\ behind = [r \in Requests |-> 0]

-------------------------------------------------------------------------------
\* Mutant of Fresh: as before 0.2.25, every time will do as long as there is no clock.
FreshUnlessSet(r) == clockSet => age[r] \in (0 - TsWindow) .. TsWindow

\* The time stamp is within the window of a clock that is set.
Fresh(r) == clockSet /\ age[r] \in (0 - TsWindow) .. TsWindow

\* rememberNonce
Remembered(r) ==
    Append(IF Len(nonces) = RingSlots THEN Tail(nonces) ELSE nonces, r)

\* A packet that is accepted: its nonce is new, as far as the ring goes back.
Accepts(r) ==
    /\ secret # NoToken /\ key[r] = secret
    /\ Fresh(r)
    /\ r \notin Range(nonces)
    /\ nonces' = Remembered(r)

\* Ages and distances count up to a bound and stay there.
UpTo(n, most) == IF n < most THEN n + 1 ELSE n

\* processPacket with one of the three commands ...
Act(r) ==
    /\ r \notin Unknown
    /\ Accepts(r)
    /\ acted' = acted \union {r}
    /\ rebooted' = rebooted \ {r}
    /\ behind' = [q \in Requests |-> IF q = r THEN 0 ELSE UpTo(behind[q], RingSlots)]
    /\ UNCHANGED <<request, deviceToken, secret, clockSet, since>>

\* ... and with an unknown one
RefuseCommand(r) ==
    /\ r \in Unknown
    /\ Accepts(r)
    /\ behind' = [q \in Requests |-> UpTo(behind[q], RingSlots)]
    /\ UNCHANGED <<request, deviceToken, secret, clockSet, acted, since, rebooted>>

-------------------------------------------------------------------------------
\* The device around it, and the world outside

\* begin(): the token of this moment, and an empty ring.
UdpBoot ==
    /\ secret' = deviceToken
    /\ nonces' = <<>>
    /\ clockSet' = FALSE
    /\ rebooted' = acted
    /\ UNCHANGED <<request, deviceToken, acted, since, behind>>

\* SNTP answers.
ClockIsSet ==
    /\ ~clockSet
    /\ clockSet' = TRUE
    /\ UNCHANGED <<request, deviceToken, secret, nonces, udpPast>>

\* A registration, or config/save: nobody calls setSecret().
NewToken ==
    /\ deviceToken < MaxToken
    /\ deviceToken' = deviceToken + 1
    /\ UNCHANGED <<request, secret, nonces, clockSet, udpPast>>

\* A sender makes a request, by its own clock and the last token it knows of.
SendRequest(r) ==
    /\ key[r] = Unsent
    /\ \E token \in 1 .. deviceToken, old \in (0 - Ahead) .. Ahead :
          /\ key' = [key EXCEPT ![r] = token]
          /\ age' = [age EXCEPT ![r] = old]
    /\ UNCHANGED <<deviceToken, secret, nonces, clockSet, udpPast>>

\* A second passes.
UdpTick ==
    /\ age' = [r \in Requests |->
                  IF key[r] = Unsent THEN age[r] ELSE UpTo(age[r], TsWindow + Ahead + 1)]
    /\ since' = [r \in Requests |->
                  IF r \in acted THEN UpTo(since[r], Expired) ELSE since[r]]
    /\ UNCHANGED <<key, deviceToken, secret, nonces, clockSet, acted, behind, rebooted>>

UdpNext ==
    \/ \E r \in Requests : Act(r) \/ RefuseCommand(r) \/ SendRequest(r)
    \/ UdpBoot
    \/ ClockIsSet
    \/ NewToken
    \/ UdpTick

UdpSpec == UdpInit /\ [][UdpNext]_udpVars

-------------------------------------------------------------------------------
\* Properties

\* However often the network delivers a request, and in whatever order: it is carried
\* out again only if the device has been restarted since, or a whole ring of
\* others came between (nonceSeen, udp_control.cpp:91), and then within
\* twice the window of the first time, also while the device has no clock
\* (:169).
ActsOnce ==
    [][\A r \in acted :
          Act(r) => (r \in rebooted \/ behind[r] = RingSlots) /\ since[r] < Expired]_udpVars
===============================================================================
