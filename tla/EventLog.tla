------------------------------- MODULE EventLog -------------------------------
(***************************************************************************)
(* /events.json and the events in memory (src/src/event_log.cpp), one      *)
(* LittleFS operation per step, with the calls setup() and the restarts of *)
(* main.cpp make.  The device may crash between any two steps.             *)
(*                                                                         *)
(* An event is its type and message after trim and truncation.  Of its     *)
(* time stamp only the question of add() is kept: is the newest event less *)
(* than suppressDuplicateWindowSeconds_ old?  The timers of the loop are   *)
(* one fact: the boot quiet period is over and the log has been left alone *)
(* for EVENT_LOG_PERSIST_DEBOUNCE_MS.                                      *)
(***************************************************************************)
EXTENDS Naturals, Sequences, FlashFiles

CONSTANTS Events,    \* what can be said
          Capacity,  \* maxEntries_
          MaxFile,   \* entries of the longest file that load() accepts
          FirstFiles,\* what an earlier firmware may have left in /events.json
          MaxSeq     \* bound of the model: numbers given to events

Entry == [seq : Nat, boot : Nat, ev : Events, printable : BOOLEAN]

\* Entries of a log that this firmware may load: from a firmware that did not
\* number them, or numbered in order.
WellNumbered(s) ==
    /\ s \in Seq(Entry)
    /\ \A i \in 1 .. Len(s) : s[i].printable
    /\ \/ \A i \in 1 .. Len(s) : s[i].seq = 0
       \/ /\ \A i \in 1 .. Len(s) : s[i].seq > 0 /\ s[i].boot > 0
          /\ \A i, j \in 1 .. Len(s) :
                i < j => s[i].seq < s[j].seq /\ s[i].boot <= s[j].boot

\* The entries of a file without those that a torn write left unprintable.
Printable(file) ==
    IF \A i \in 1 .. Len(file) : file[i].printable THEN file
    ELSE SelectSeq(file, LAMBDA e : e.printable)

ASSUME LogAssumption ==
    /\ Capacity \in Nat \ {0} /\ MaxFile \in Nat /\ Capacity <= MaxFile
    /\ MaxSeq \in Nat
    /\ FirstFiles \subseteq Seq(Entry)
    /\ \A file \in FirstFiles : WellNumbered(Printable(file))
    /\ Absent \notin Seq(Entry) /\ Torn \notin Seq(Entry) /\ Absent # Torn

VARIABLES fs,       \* the flash
          items,    \* items_
          nextSeq, bootId, dirty,
          recent,   \* may the newest item still suppress its repetition?
          settled,  \* may loop() persist?
          at,       \* where in boot, loop, flush or restart the device is
          then,     \* where it goes on after persist()
          failed,   \* history: the last persist() of this boot stored nothing
          mine      \* history: items that this boot added

numbers == <<nextSeq, bootId>>
flags   == <<dirty, recent, settled>>
place   == <<at, then>>
history == <<failed, mine>>
logVars == <<fs, items, numbers, flags, place, history>>

Log   == "/events.json"
Tmp   == "/events.json.tmp"
Paths == {Log, Tmp}

Up == at \in {"up", "flush", "stop"}

Persisting == at \in {"clean", "open", "write", "discard", "drop", "rename"}

\* The type of the state.
LogTypeOK ==
    /\ fs \in [Paths -> Seq(Entry) \union {Absent, Torn}]
    /\ items \in Seq(Entry) /\ Len(items) <= Capacity
    /\ nextSeq \in Nat /\ bootId \in Nat
    /\ {dirty, recent, settled, failed} \subseteq BOOLEAN
    /\ Up \/ Persisting \/ at \in {"off", "early", "adopted", "begin"}
    /\ then \in {"begin", "up", "stop"}
    /\ mine \in Nat

LogInit ==
    /\ \E file \in FirstFiles \union {Absent} :
          fs = [p \in Paths |-> IF p = Log THEN file ELSE Absent]
    /\ items = <<>> /\ nextSeq = 1 /\ bootId = 1
    /\ dirty = FALSE /\ recent = FALSE /\ settled = FALSE
    /\ at = "off" /\ then = "up"
    /\ failed = FALSE /\ mine = 0

-------------------------------------------------------------------------------
\* add(), trimToLimit()

Newest(s) == IF Len(s) > Capacity
             THEN SubSeq(s, Len(s) - Capacity + 1, Len(s)) ELSE s

Repeats(e) ==
    /\ items # <<>>
    /\ items[Len(items)].ev = e
    /\ items[Len(items)].boot = bootId
    /\ recent

\* Mutant of Keep: the log does not become dirty.
KeepClean(e) ==
    /\ nextSeq <= MaxSeq
    /\ items' = Newest(Append(items, [seq |-> nextSeq, boot |-> bootId, ev |-> e,
                                      printable |-> TRUE]))
    /\ nextSeq' = nextSeq + 1
    /\ mine' = IF mine < Capacity THEN mine + 1 ELSE mine
    /\ recent' = TRUE
    /\ settled' = FALSE
    /\ UNCHANGED dirty

\* The event is kept: max free block of 4000 bytes or more, no repetition.
Keep(e) ==
    /\ nextSeq <= MaxSeq
    /\ items' = Newest(Append(items, [seq |-> nextSeq, boot |-> bootId, ev |-> e,
                                      printable |-> TRUE]))
    /\ nextSeq' = nextSeq + 1
    /\ mine' = IF mine < Capacity THEN mine + 1 ELSE mine
    /\ dirty' = TRUE
    /\ recent' = TRUE
    /\ settled' = FALSE

\* room: is there a block large enough to build the strings?
Add(e, room) ==
    IF room /\ ~Repeats(e)
    THEN Keep(e)
    ELSE UNCHANGED <<items, nextSeq, flags, mine>>

-------------------------------------------------------------------------------
\* setup()

LogPowerOn ==
    /\ at = "off"
    /\ at' = "early"
    /\ UNCHANGED <<fs, items, numbers, flags, then, history>>

\* The breadcrumb of a crash is said before the log is read.
Breadcrumb(e) ==
    /\ at = "early"
    /\ items = <<>>
    /\ Add(e, TRUE)
    /\ UNCHANGED <<fs, bootId, place, failed>>

\* Mutant of Adopt: a leftover is discarded, whatever it is.
AdoptForgets ==
    /\ at = "early"
    /\ at' = "adopted"
    /\ fs' = Removed(fs, Tmp)
    /\ items' = <<>> /\ mine' = 0
    /\ UNCHANGED <<numbers, flags, then, failed>>

\* begin(), load(): adopt a complete file that a crash left under the other name.
Adopt ==
    /\ at = "early"
    /\ at' = "adopted"
    /\ fs' = IF Exists(fs, Log) THEN fs ELSE Renamed(fs, Tmp, Log)
    /\ items' = <<>> /\ mine' = 0
    /\ UNCHANGED <<numbers, flags, then, failed>>

\* Entries of a firmware that did not number them get numbers: all or none.
Numbered(file) ==
    [i \in 1 .. Len(file) |->
        IF file[i].seq = 0 THEN [file[i] EXCEPT !.seq = i, !.boot = 1] ELSE file[i]]

Oldest(s) == IF Len(s) > Capacity THEN SubSeq(s, 1, Capacity) ELSE s

\* load() takes entries from the front until the log is full.
Taken(file) == Oldest(Numbered(Printable(file)))

Migrated(file) ==
    \E i \in 1 .. Len(file) :
        /\ Len(Printable(SubSeq(file, 1, i - 1))) <= Capacity
        /\ ~file[i].printable \/ file[i].seq = 0

Oversized(file) == Len(file) > MaxFile

LoadedFrom(file) ==
    /\ Readable(fs, Log) /\ fs[Log] = file
    /\ ~Oversized(file)
    /\ items' = Taken(file)
    /\ UNCHANGED fs
    /\ IF Migrated(file)
       THEN at' = "clean" /\ then' = "begin" /\ dirty' = TRUE
       ELSE at' = "begin" /\ UNCHANGED <<then, dirty>>

LoadOversized ==
    /\ Readable(fs, Log)
    /\ Oversized(fs[Log])
    /\ fs' = Removed(fs, Log)
    /\ at' = "begin"
    /\ UNCHANGED <<items, dirty, then>>

\* No file, one that does not open or parse, or no memory to parse it.
LoadNothing ==
    /\ at' = "begin"
    /\ UNCHANGED <<fs, items, dirty, then>>

Load ==
    /\ at = "adopted"
    /\ \/ LoadedFrom(fs[Log])
       \/ LoadOversized
       \/ LoadNothing
    /\ UNCHANGED <<numbers, recent, settled, history>>

Larger(a, b) == IF a > b THEN a ELSE b

\* Mutants of Begin: the number of the boot is not moved on; numbers start afresh.
BeginSameBoot ==
    /\ at = "begin"
    /\ at' = "up"
    /\ IF items = <<>>
       THEN UNCHANGED numbers
       ELSE /\ nextSeq' = Larger(items[Len(items)].seq + 1, Len(items) + 1)
            /\ bootId' = Larger(items[Len(items)].boot, 1)
    /\ recent' = FALSE
    /\ UNCHANGED <<fs, items, dirty, settled, then, history>>

BeginByLength ==
    /\ at = "begin"
    /\ at' = "up"
    /\ IF items = <<>>
       THEN UNCHANGED numbers
       ELSE /\ nextSeq' = Len(items) + 1
            /\ bootId' = Larger(items[Len(items)].boot + 1, 1)
    /\ recent' = FALSE
    /\ UNCHANGED <<fs, items, dirty, settled, then, history>>

\* The rest of begin().
Begin ==
    /\ at = "begin"
    /\ at' = "up"
    /\ IF items = <<>>
       THEN UNCHANGED numbers
       ELSE /\ nextSeq' = Larger(items[Len(items)].seq + 1, Len(items) + 1)
            /\ bootId' = Larger(items[Len(items)].boot + 1, 1)
    /\ recent' = FALSE
    /\ UNCHANGED <<fs, items, dirty, settled, then, history>>

-------------------------------------------------------------------------------
\* loop(), flush(), persist()

Say(e, room) ==
    /\ at = "up"
    /\ Add(e, room)
    /\ UNCHANGED <<fs, bootId, place, failed>>

\* Time passes: the duplicate window, the debounce and the quiet period.
WindowEnds ==
    /\ at = "up"
    /\ recent
    /\ recent' = FALSE
    /\ UNCHANGED <<fs, items, numbers, dirty, settled, place, history>>

Settle ==
    /\ at = "up"
    /\ dirty /\ ~settled
    /\ settled' = TRUE
    /\ UNCHANGED <<fs, items, numbers, dirty, recent, place, history>>

\* Mutant of LoopPersist: after a write that failed there is no other.
LoopPersistOnce ==
    /\ at = "up"
    /\ dirty /\ settled /\ ~failed
    /\ at' = "clean" /\ then' = "up"
    /\ UNCHANGED <<fs, items, numbers, flags, history>>

\* loop(), with 12000 bytes free; with less, flush() does nothing and the next
\* pass tries again.
LoopPersist ==
    /\ at = "up"
    /\ dirty /\ settled
    /\ at' = "clean" /\ then' = "up"
    /\ UNCHANGED <<fs, items, numbers, flags, history>>

\* A commanded restart of main.cpp, or for heap pressure: say so, flush, restart.
SayLast(e, room) ==
    /\ at = "up"
    /\ Add(e, room)
    /\ at' = "flush"
    /\ UNCHANGED <<fs, bootId, then, failed>>

\* spare: are 12000 bytes free?
FlushLast(spare) ==
    /\ at = "flush"
    /\ IF dirty /\ spare
       THEN at' = "clean" /\ then' = "stop"
       ELSE at' = "stop" /\ UNCHANGED then
    /\ UNCHANGED <<fs, items, numbers, flags, history>>

persistVars == <<items, nextSeq, bootId, recent, settled, mine>>

\* What follows persist(): flush() clears dirty_ in every case, load() does not.
Persisted(stored) ==
    /\ at' = then
    /\ then' = "up"
    /\ failed' = ~stored
    /\ dirty' = (dirty /\ then = "begin")

PersistClean ==
    /\ at = "clean"
    /\ at' = "open"
    /\ fs' = Removed(fs, Tmp)
    /\ UNCHANGED <<persistVars, then, dirty, failed>>

PersistOpen ==
    /\ at = "open"
    /\ at' = "write"
    /\ fs' = Opened(fs, Tmp)
    /\ UNCHANGED <<persistVars, then, dirty, failed>>

\* if (!f) return
PersistOpenFails ==
    /\ at = "open"
    /\ Persisted(FALSE)
    /\ UNCHANGED <<persistVars, fs>>

\* serializeJson, close.  A full flash takes all, a part or nothing; only
\* nothing is noticed.
PersistWrite ==
    /\ at = "write"
    /\ \/ fs' = Closed(fs, Tmp, items) /\ at' = "drop"
       \/ at' \in {"drop", "discard"} /\ UNCHANGED fs
    /\ UNCHANGED <<persistVars, then, dirty, failed>>

PersistDiscard ==
    /\ at = "discard"
    /\ fs' = Removed(fs, Tmp)
    /\ Persisted(FALSE)
    /\ UNCHANGED persistVars

PersistDrop ==
    /\ at = "drop"
    /\ at' = "rename"
    /\ fs' = Removed(fs, Log)
    /\ UNCHANGED <<persistVars, then, dirty, failed>>

PersistRename ==
    /\ at = "rename"
    /\ fs' = Renamed(fs, Tmp, Log)
    /\ Persisted(fs[Tmp] # Torn)
    /\ UNCHANGED persistVars

PersistStep ==
    \/ PersistClean
    \/ PersistOpen
    \/ PersistOpenFails
    \/ PersistWrite
    \/ PersistDiscard
    \/ PersistDrop
    \/ PersistRename

\* ESP.restart() after a flush; power loss, watchdog, exception or a restart
\* that does not flush (web API, hub): any time.
LogStop ==
    /\ at # "off"
    /\ at' = "off" /\ then' = "up"
    /\ items' = <<>> /\ nextSeq' = 1 /\ bootId' = 1
    /\ dirty' = FALSE /\ recent' = FALSE /\ settled' = FALSE
    /\ failed' = FALSE /\ mine' = 0
    /\ UNCHANGED fs

BootStep ==
    \/ LogPowerOn
    \/ Adopt
    \/ Load
    \/ Begin

LogNext ==
    \/ BootStep
    \/ \E e \in Events : Breadcrumb(e)
    \/ \E e \in Events, room \in BOOLEAN : Say(e, room) \/ SayLast(e, room)
    \/ WindowEnds
    \/ Settle
    \/ LoopPersist
    \/ \E spare \in BOOLEAN : FlushLast(spare)
    \/ PersistStep
    \/ LogStop

LogSpec == LogInit /\ [][LogNext]_logVars

\* The processor runs, and memory is not short for ever.
LogFairness ==
    /\ WF_logVars(BootStep)
    /\ WF_logVars(PersistStep)
    /\ WF_logVars(Settle)
    /\ WF_logVars(LoopPersist)
    /\ WF_logVars(\E spare \in BOOLEAN : FlushLast(spare))

-------------------------------------------------------------------------------
\* Properties

\* What a boot would find in a content.
Readout(content) ==
    IF content \in {Absent, Torn} THEN <<>>
    ELSE IF Oversized(content) THEN <<>>
    ELSE Printable(content)

Texts(s) == [i \in 1 .. Len(s) |-> s[i].ev]

\* What the flash holds, in whichever of the two files: a boot removes a log
\* that is too long, and the next one takes the other.
Durable ==
    LET gone == ~Exists(fs, Log) \/ (Readable(fs, Log) /\ Oversized(fs[Log]))
    IN  Texts(Readout(fs[IF gone THEN Tmp ELSE Log]))

\* Has this boot read the file?
HasRead == at \notin {"off", "early", "adopted"}

History == INSTANCE RecentEvents WITH
               First   <- {Texts(Readout(file)) : file \in FirstFiles \union {Absent}},
               stored  <- Durable,
               held    <- IF HasRead THEN Texts(items) ELSE <<>>,
               reading <- HasRead

\* Over any interleaving of events, flushes, crashes and full disks, the two files
\* behave as one history that is replaced in one instant by the one in memory:
\* whatever an earlier crash left, a boot goes on with the last one stored
\* (load, event_log.cpp:150; persist, :275).  Only a full flash loses it, then and
\* there.  What is said before the log is read (main.cpp:113) is never held.
HistorySpec == History!Spec

\* Events keep their order for good: the numbers of the log increase, across
\* restarts, migrations and failed writes, and the next one is larger (begin).
NumbersIncrease ==
    /\ \A i, j \in 1 .. Len(items) : i < j => items[i].seq < items[j].seq
    /\ Up => \A i \in 1 .. Len(items) : items[i].seq < nextSeq

\* The boot number tells the events of this boot from all others in the log, so
\* that an event of an earlier boot never suppresses one of this boot (add).
OwnBoot ==
    Up => \A i \in 1 .. Len(items) :
              items[i].boot = bootId <=> i > Len(items) - mine

\* The log is clean only if the flash holds it, or the last write failed: there
\* is no third way for an event to be forgotten (flush clears dirty_ without
\* looking, event_log.cpp:244).
CleanIsStored ==
    at \in {"up", "stop"} /\ ~dirty /\ ~failed /\ items # <<>> =>
        Texts(items) = Oldest(Durable)

Talk == \E e \in Events, room \in BOOLEAN : Say(e, room) \/ SayLast(e, room)

\* A device that is left alone with what it said in memory writes it, or has seen
\* the write fail: the log does not stay dirty for ever (loop).  Every new event
\* starts the debounce again, so the device has to fall silent.
WrittenInTheEnd == <>[][~Talk /\ ~LogStop]_logVars => <>[](at = "up" => ~dirty)
===============================================================================
