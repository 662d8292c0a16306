---------------------------- MODULE EventLog_proofs ----------------------------
(***************************************************************************)
(* Proofs about EventLog: whatever is said, and wherever the device        *)
(* crashes, the numbers of the log increase and the boot number tells the  *)
(* events of this boot from all others.                                    *)
(***************************************************************************)
EXTENDS EventLog, SequenceTheorems, TLAPS

\* What a step can be.
LEMMA LogSteps ==
    ASSUME [LogNext]_logVars
    PROVE  \/ UNCHANGED logVars
           \/ LogPowerOn
           \/ Adopt
           \/ Load
           \/ Begin
           \/ \E e \in Events : Breadcrumb(e)
           \/ \E e \in Events, room \in BOOLEAN : Say(e, room)
           \/ \E e \in Events, room \in BOOLEAN : SayLast(e, room)
           \/ WindowEnds
           \/ Settle
           \/ LoopPersist
           \/ \E spare \in BOOLEAN : FlushLast(spare)
           \/ PersistStep
           \/ LogStop
  BY DEF LogNext, BootStep

-------------------------------------------------------------------------------
\* Sequences of entries

\* The entry that Keep adds.
NewEntry(e) == [seq |-> nextSeq, boot |-> bootId, ev |-> e, printable |-> TRUE]

\* The newest entries of a log with one more: as many as fit, the new one last, the
\* others in their places but for those that fell out at the front.
LEMMA NewestFacts ==
    ASSUME NEW s \in Seq(Entry), Len(s) <= Capacity, NEW x \in Entry
    PROVE  LET t == Newest(Append(s, x))
               out == IF Len(s) = Capacity THEN 1 ELSE 0
           IN  /\ t \in Seq(Entry)
               /\ Len(t) = Len(s) + 1 - out
               /\ Len(t) <= Capacity /\ Len(t) > 0
               /\ t[Len(t)] = x
               /\ \A i \in 1 .. Len(t) : i < Len(t) => i + out \in 1 .. Len(s)
                                                       /\ t[i] = s[i + out]
  <1> DEFINE a == Append(s, x)
  <1>1. a \in Seq(Entry) /\ Len(a) = Len(s) + 1 /\ a[Len(s) + 1] = x
        /\ \A i \in 1 .. Len(s) : a[i] = s[i]
    OBVIOUS
  <1>2. Capacity \in Nat /\ Capacity > 0 /\ Len(s) \in Nat
    BY LogAssumption DEF LogAssumption
  <1> HIDE DEF a
  <1>3. CASE Len(s) = Capacity
    <2>1. Newest(a) = SubSeq(a, 2, Capacity + 1)
      BY <1>1, <1>2, <1>3 DEF Newest
    <2> DEFINE t == SubSeq(a, 2, Capacity + 1)
    <2>2. /\ t \in Seq(Entry) /\ Len(t) = Capacity
          /\ \A i \in 1 .. Capacity : t[i] = a[i + 1]
      BY <1>1, <1>2, <1>3, SubSeqProperties
    <2> HIDE DEF t
    <2> QED
      BY <1>1, <1>2, <1>3, <2>1, <2>2 DEF a, t
  <1>4. CASE Len(s) # Capacity
    <2>1. Newest(a) = a
      BY <1>1, <1>2, <1>4 DEF Newest
    <2> QED
      BY <1>1, <1>2, <1>4, <2>1 DEF a
  <1> QED
    BY <1>3, <1>4

\* The oldest entries that fit are a prefix.
LEMMA OldestFacts ==
    ASSUME NEW s \in Seq(Entry)
    PROVE  /\ Oldest(s) \in Seq(Entry)
           /\ Len(Oldest(s)) <= Capacity /\ Len(Oldest(s)) <= Len(s)
           /\ \A i \in 1 .. Len(Oldest(s)) : i \in 1 .. Len(s) /\ Oldest(s)[i] = s[i]
  <1>1. Capacity \in Nat /\ Capacity > 0 /\ Len(s) \in Nat
    BY LogAssumption DEF LogAssumption
  <1>2. CASE Len(s) > Capacity
    <2>1. /\ SubSeq(s, 1, Capacity) \in Seq(Entry)
          /\ Len(SubSeq(s, 1, Capacity)) = Capacity
          /\ \A i \in 1 .. Capacity : SubSeq(s, 1, Capacity)[i] = s[i]
      BY <1>1, <1>2, SubSeqProperties
    <2> QED
      BY <1>1, <1>2, <2>1 DEF Oldest
  <1>3. CASE ~(Len(s) > Capacity)
    BY <1>1, <1>3 DEF Oldest
  <1> QED
    BY <1>2, <1>3

\* A well-numbered log: the entries are printable, their numbers increase and the
\* numbers of their boots do not decrease.
Ordered(s) ==
    /\ \A i \in 1 .. Len(s) : s[i].printable /\ s[i].seq > 0 /\ s[i].boot > 0
    /\ \A i, j \in 1 .. Len(s) :
          i < j => s[i].seq < s[j].seq /\ s[i].boot <= s[j].boot

\* Numbering keeps the entries that have a number and gives one to the others.
LEMMA NumberedFacts ==
    ASSUME NEW p \in Seq(Entry)
    PROVE  /\ Numbered(p) \in Seq(Entry) /\ Len(Numbered(p)) = Len(p)
           /\ \A i \in 1 .. Len(p) :
                 /\ p[i] \in Entry
                 /\ p[i].seq # 0 => Numbered(p)[i] = p[i]
                 /\ p[i].seq = 0 =>
                       /\ Numbered(p)[i].seq = i /\ Numbered(p)[i].boot = 1
                       /\ Numbered(p)[i].ev = p[i].ev
                       /\ Numbered(p)[i].printable = p[i].printable
  <1>1. Len(p) \in Nat /\ \A i \in 1 .. Len(p) : i \in Nat /\ p[i] \in Entry
    OBVIOUS
  <1> DEFINE item(i) == IF p[i].seq = 0 THEN [p[i] EXCEPT !.seq = i, !.boot = 1] ELSE p[i]
  <1>2. Numbered(p) = [i \in 1 .. Len(p) |-> item(i)]
    BY DEF Numbered
  <1>3. \A i \in 1 .. Len(p) :
           /\ item(i) \in Entry
           /\ p[i].seq # 0 => item(i) = p[i]
           /\ p[i].seq = 0 => /\ item(i).seq = i /\ item(i).boot = 1
                              /\ item(i).ev = p[i].ev
                              /\ item(i).printable = p[i].printable
    BY <1>1 DEF Entry
  <1> HIDE DEF item
  <1>4. \A i \in 1 .. Len(p) : Numbered(p)[i] = item(i)
    BY <1>2
  <1>5. Numbered(p) \in Seq(Entry)
    <2>1. Numbered(p) \in [1 .. Len(p) -> Entry]
      BY <1>2, <1>3
    <2> QED
      BY <1>1, <2>1
  <1>6. Len(Numbered(p)) = Len(p)
    BY <1>1, <1>2, <1>5, LenProperties
  <1> QED
    BY <1>1, <1>3, <1>4, <1>5, <1>6

\* What load() takes from a well-numbered file is in order, also when the entries
\* had no numbers.
LEMMA TakenFacts ==
    ASSUME NEW file, WellNumbered(Printable(file))
    PROVE  Taken(file) \in Seq(Entry) /\ Len(Taken(file)) <= Capacity /\ Ordered(Taken(file))
  <1>1. PICK p : p = Printable(file) /\ WellNumbered(p)
    OBVIOUS
  <1>2. PICK n : n = Numbered(p)
    OBVIOUS
  <1>3. p \in Seq(Entry) /\ \A i \in 1 .. Len(p) : p[i].printable
    BY <1>1 DEF WellNumbered
  <1>4. /\ n \in Seq(Entry) /\ Len(n) = Len(p)
        /\ \A i \in 1 .. Len(p) :
              /\ p[i] \in Entry
              /\ p[i].seq # 0 => n[i] = p[i]
              /\ p[i].seq = 0 => n[i].seq = i /\ n[i].boot = 1 /\ n[i].printable = p[i].printable
    BY <1>2, <1>3, NumberedFacts
  <1>5. Ordered(n)
    <2>1. CASE \A i \in 1 .. Len(p) : p[i].seq = 0
      <3>1. \A i \in 1 .. Len(n) : n[i].seq = i /\ n[i].boot = 1 /\ n[i].printable
        BY <1>3, <1>4, <2>1
      <3> QED
        BY <1>4, <3>1 DEF Ordered
    <2>2. CASE ~(\A i \in 1 .. Len(p) : p[i].seq = 0)
      <3>1. /\ \A i \in 1 .. Len(p) : p[i].seq > 0 /\ p[i].boot > 0
            /\ \A i, j \in 1 .. Len(p) :
                  i < j => p[i].seq < p[j].seq /\ p[i].boot <= p[j].boot
        BY <1>1, <2>2 DEF WellNumbered
      <3>2. \A i \in 1 .. Len(p) : n[i] = p[i]
        BY <1>4, <3>1
      <3> QED
        BY <1>3, <1>4, <3>1, <3>2 DEF Ordered
    <2> QED
      BY <2>1, <2>2
  <1>6. Taken(file) = Oldest(n)
    BY <1>1, <1>2 DEF Taken
  <1>7. /\ Oldest(n) \in Seq(Entry) /\ Len(Oldest(n)) <= Capacity
        /\ \A i \in 1 .. Len(Oldest(n)) : i \in 1 .. Len(n) /\ Oldest(n)[i] = n[i]
    BY <1>4, OldestFacts
  <1> QED
    BY <1>5, <1>6, <1>7 DEF Ordered

\* A log in order is printable as a whole, and well-numbered.
LEMMA OrderedIsWellNumbered ==
    ASSUME NEW s \in Seq(Entry), Ordered(s)
    PROVE  Printable(s) = s /\ WellNumbered(s)
  BY DEF Ordered, Printable, WellNumbered

-------------------------------------------------------------------------------
\* Type correctness

\* What add() does to the log, if anything.
LEMMA KeepFacts ==
    ASSUME LogTypeOK, NEW e \in Events, Keep(e)
    PROVE  LET out == IF Len(items) = Capacity THEN 1 ELSE 0
           IN  /\ NewEntry(e) \in Entry
               /\ items' \in Seq(Entry)
               /\ Len(items') = Len(items) + 1 - out
               /\ Len(items') <= Capacity /\ Len(items') > 0
               /\ items'[Len(items')] = NewEntry(e)
               /\ \A i \in 1 .. Len(items') : i < Len(items') =>
                     i + out \in 1 .. Len(items) /\ items'[i] = items[i + out]
  <1>1. NewEntry(e) \in Entry /\ items \in Seq(Entry) /\ Len(items) <= Capacity
    BY DEF NewEntry, Entry, LogTypeOK
  <1>2. items' = Newest(Append(items, NewEntry(e)))
    BY DEF Keep, NewEntry
  <1> QED
    BY <1>1, <1>2, NewestFacts

\* Whether or not add() keeps the event, what it writes has its type.
LEMMA AddTypes ==
    ASSUME LogTypeOK, NEW e \in Events, NEW room \in BOOLEAN, Add(e, room)
    PROVE  /\ items' \in Seq(Entry) /\ Len(items') <= Capacity
           /\ nextSeq' \in Nat /\ mine' \in Nat
           /\ {dirty', recent', settled'} \subseteq BOOLEAN
  <1>1. CASE Keep(e)
    <2>1. items' \in Seq(Entry) /\ Len(items') <= Capacity
      BY <1>1, KeepFacts
    <2>2. nextSeq' \in Nat /\ mine' \in Nat
      BY <1>1, LogAssumption DEF Keep, LogTypeOK, LogAssumption
    <2>3. dirty' = TRUE /\ recent' = TRUE /\ settled' = FALSE
      BY <1>1 DEF Keep
    <2> QED
      BY <2>1, <2>2, <2>3
  <1>2. CASE UNCHANGED <<items, nextSeq, flags, mine>>
    BY <1>2 DEF LogTypeOK, flags
  <1> QED
    BY <1>1, <1>2 DEF Add

\* The contents of a file.
Content == Seq(Entry) \union {Absent, Torn}

\* The operations on files keep the type of the file system.
LEMMA FileTypes ==
    ASSUME NEW f \in [Paths -> Content], NEW p \in Paths, NEW q \in Paths,
           NEW c \in Content
    PROVE  /\ Opened(f, p) \in [Paths -> Content]
           /\ Closed(f, p, c) \in [Paths -> Content]
           /\ Removed(f, p) \in [Paths -> Content]
           /\ Renamed(f, p, q) \in [Paths -> Content]
  <1>1. Absent \in Content /\ Torn \in Content /\ f[p] \in Content
    BY DEF Content
  <1> HIDE DEF Content
  <1> QED
    BY <1>1 DEF Opened, Closed, Removed, Renamed, Exists

\* Both files have a path.
LEMMA LogPaths == Log \in Paths /\ Tmp \in Paths /\ Log # Tmp /\ Paths = {Log, Tmp}
  BY DEF Paths, Log, Tmp

\* A step of persist() keeps the types.
LEMMA PersistTypes == LogTypeOK /\ PersistStep => LogTypeOK'
  <1> SUFFICES ASSUME LogTypeOK, PersistStep
               PROVE  LogTypeOK'
    OBVIOUS
  <1>1. /\ items' \in Seq(Entry) /\ Len(items') <= Capacity
        /\ nextSeq' \in Nat /\ bootId' \in Nat /\ mine' \in Nat
        /\ {recent', settled'} \subseteq BOOLEAN
    BY DEF PersistStep, PersistClean, PersistOpen, PersistOpenFails, PersistWrite,
           PersistDiscard, PersistDrop, PersistRename, persistVars, LogTypeOK
  <1>2. fs' \in [Paths -> Content]
    <2>1. fs \in [Paths -> Content] /\ items \in Content
      BY DEF LogTypeOK, Content
    <2>2. \/ fs' \in {Removed(fs, Tmp), Opened(fs, Tmp), fs, Closed(fs, Tmp, items)}
          \/ fs' \in {Removed(fs, Log), Renamed(fs, Tmp, Log)}
      BY DEF PersistStep, PersistClean, PersistOpen, PersistOpenFails, PersistWrite,
             PersistDiscard, PersistDrop, PersistRename
    <2>3. /\ Opened(fs, Tmp) \in [Paths -> Content]
          /\ Closed(fs, Tmp, items) \in [Paths -> Content]
          /\ Removed(fs, Tmp) \in [Paths -> Content]
          /\ Removed(fs, Log) \in [Paths -> Content]
          /\ Renamed(fs, Tmp, Log) \in [Paths -> Content]
      BY <2>1, FileTypes, LogPaths
    <2> QED
      BY <2>1, <2>2, <2>3
  <1>3. at' \in {"open", "write", "discard", "drop", "rename", then}
    BY DEF PersistStep, PersistClean, PersistOpen, PersistOpenFails, PersistWrite,
           PersistDiscard, PersistDrop, PersistRename, Persisted
  <1>4. then' \in {"up", then}
    BY DEF PersistStep, PersistClean, PersistOpen, PersistOpenFails, PersistWrite,
           PersistDiscard, PersistDrop, PersistRename, Persisted
  <1>5. (dirty' = dirty /\ failed' = failed) \/ \E stored \in BOOLEAN : Persisted(stored)
    BY DEF PersistStep, PersistClean, PersistOpen, PersistOpenFails, PersistWrite,
           PersistDiscard, PersistDrop, PersistRename
  <1>6. dirty' \in BOOLEAN /\ failed' \in BOOLEAN
    <2>1. dirty \in BOOLEAN /\ failed \in BOOLEAN
      BY DEF LogTypeOK
    <2>2. ASSUME NEW stored \in BOOLEAN, Persisted(stored)
          PROVE  dirty' \in BOOLEAN /\ failed' \in BOOLEAN
      <3>1. dirty' \in {TRUE, FALSE}
        BY <2>2, Zenon DEF Persisted
      <3>2. failed' \in {TRUE, FALSE}
        BY <2>2, Zenon DEF Persisted
      <3> QED
        BY <3>1, <3>2
    <2> QED
      BY <1>5, <2>1, <2>2
  <1>7. then \in {"begin", "up", "stop"}
    BY DEF LogTypeOK
  <1> QED
    BY <1>1, <1>2, <1>3, <1>4, <1>6, <1>7 DEF LogTypeOK, Content, Up, Persisting

\* The invariant

\* What a boot can read of either file is in order.
FilesOK == \A p \in Paths : fs[p] \notin {Absent, Torn} => WellNumbered(Printable(fs[p]))

\* So is the log in memory; numbers start at 1.
NumbersOK == nextSeq > 0 /\ bootId > 0 /\ Ordered(items)

\* The device has read the file, and may add events.
Running == Up \/ (Persisting /\ then # "begin")

\* Then the events of this boot are the last ones, and its number and the next
\* event's are larger than what is in the log.
OwnTail ==
    Running =>
        /\ mine <= Len(items)
        /\ \A i \in 1 .. Len(items) :
              /\ items[i].seq < nextSeq /\ items[i].boot <= bootId
              /\ items[i].boot = bootId <=> i > Len(items) - mine

\* From the time it reads the file until then nothing is its own.
NotYet == (at \in {"adopted", "begin"} \/ (Persisting /\ then = "begin")) => mine = 0

\* All of it.
LogInv == LogTypeOK /\ FilesOK /\ NumbersOK /\ OwnTail /\ NotYet

\* The type of the state, after a step that loads.
LEMMA LoadTypes == LogTypeOK /\ FilesOK /\ Load => LogTypeOK'
  <1> SUFFICES ASSUME LogTypeOK, FilesOK, Load
               PROVE  LogTypeOK'
    OBVIOUS
  <1>1. UNCHANGED <<nextSeq, bootId, recent, settled, failed, mine>>
    BY DEF Load, numbers, history
  <1>2. fs' \in [Paths -> Content]
    <2>1. fs \in [Paths -> Content] /\ Removed(fs, Log) \in [Paths -> Content]
      BY FileTypes, LogPaths DEF LogTypeOK, Content
    <2>2. fs' \in {fs, Removed(fs, Log)}
      BY DEF Load, LoadedFrom, LoadOversized, LoadNothing
    <2> QED
      BY <2>1, <2>2
  <1>3. items' \in Seq(Entry) /\ Len(items') <= Capacity
    <2>1. CASE LoadedFrom(fs[Log])
      <3>1. items' = Taken(fs[Log]) /\ fs[Log] \notin {Absent, Torn}
        BY <2>1 DEF LoadedFrom, Readable
      <3> QED
        BY <3>1, TakenFacts, LogPaths DEF FilesOK
    <2>2. CASE ~LoadedFrom(fs[Log])
      BY <2>2 DEF Load, LoadOversized, LoadNothing, LogTypeOK
    <2> QED
      BY <2>1, <2>2
  <1>4. at' \in {"clean", "begin"} /\ then' \in {"begin", then} /\ dirty' \in {TRUE, dirty}
    BY DEF Load, LoadedFrom, LoadOversized, LoadNothing
  <1>5. Persisting' \/ at' = "begin"
    BY <1>4 DEF Persisting
  <1> QED
    BY <1>1, <1>2, <1>3, <1>4, <1>5 DEF LogTypeOK, Content

\* The type of the state, after any step.
LEMMA TypesKept == LogTypeOK /\ FilesOK /\ [LogNext]_logVars => LogTypeOK'
  <1> SUFFICES ASSUME LogTypeOK, FilesOK, [LogNext]_logVars
               PROVE  LogTypeOK'
    OBVIOUS
  <1>1. CASE UNCHANGED logVars
    BY <1>1 DEF LogTypeOK, logVars, numbers, flags, place, history, Up, Persisting
  <1>2. CASE LogPowerOn
    BY <1>2 DEF LogPowerOn, LogTypeOK, numbers, flags, history
  <1>3. CASE Adopt
    <2>1. fs \in [Paths -> Content] /\ Renamed(fs, Tmp, Log) \in [Paths -> Content]
      BY FileTypes, LogPaths DEF LogTypeOK, Content
    <2>2. fs' \in [Paths -> Content]
      BY <1>3, <2>1 DEF Adopt
    <2>3. items' = <<>> /\ <<>> \in Seq(Entry) /\ Len(<<>>) = 0
      BY <1>3 DEF Adopt
    <2>4. Len(items') <= Capacity
      BY <2>3, LogAssumption DEF LogAssumption
    <2> QED
      BY <1>3, <2>2, <2>3, <2>4 DEF Adopt, LogTypeOK, Content, numbers, flags, Up
  <1>4. CASE Load
    BY <1>4, LoadTypes
  <1>5. CASE Begin
    <2>1. nextSeq' \in Nat /\ bootId' \in Nat
      <3>1. CASE items = <<>>
        BY <1>5, <3>1 DEF Begin, LogTypeOK, numbers
      <3>2. CASE items # <<>>
        <4>1. Len(items) \in Nat /\ items[Len(items)] \in Entry
          BY <3>2 DEF LogTypeOK
        <4> QED
          BY <1>5, <3>2, <4>1 DEF Begin, Larger, Entry
      <3> QED
        BY <3>1, <3>2
    <2> QED
      BY <1>5, <2>1 DEF Begin, LogTypeOK, history, Up
  <1>6. ASSUME NEW e \in Events, NEW room \in BOOLEAN, Add(e, room),
               UNCHANGED <<fs, bootId, then, failed>>,
               at' \in {at, "flush"}
        PROVE  LogTypeOK'
    <2>1. /\ items' \in Seq(Entry) /\ Len(items') <= Capacity
          /\ nextSeq' \in Nat /\ mine' \in Nat
          /\ {dirty', recent', settled'} \subseteq BOOLEAN
      BY <1>6, AddTypes
    <2> QED
      BY <1>6, <2>1 DEF LogTypeOK, Up, Persisting
  <1>7. ASSUME NEW e \in Events, Breadcrumb(e)
        PROVE  LogTypeOK'
    BY <1>6, <1>7 DEF Breadcrumb, place
  <1>8. ASSUME NEW e \in Events, NEW room \in BOOLEAN, Say(e, room) \/ SayLast(e, room)
        PROVE  LogTypeOK'
    BY <1>6, <1>8 DEF Say, SayLast, place
  <1>9. CASE WindowEnds
    BY <1>9 DEF WindowEnds, LogTypeOK, numbers, place, history, Up, Persisting
  <1>10. CASE Settle
    BY <1>10 DEF Settle, LogTypeOK, numbers, place, history, Up, Persisting
  <1>11. CASE LoopPersist
    BY <1>11 DEF LoopPersist, LogTypeOK, numbers, flags, history, Persisting
  <1>12. ASSUME NEW spare \in BOOLEAN, FlushLast(spare)
         PROVE  LogTypeOK'
    BY <1>12 DEF FlushLast, LogTypeOK, numbers, flags, history, Persisting, Up
  <1>13. CASE PersistStep
    BY <1>13, PersistTypes
  <1>14. CASE LogStop
    <2>1. items' = <<>> /\ <<>> \in Seq(Entry) /\ Len(<<>>) = 0
      BY <1>14 DEF LogStop
    <2>2. Len(items') <= Capacity
      BY <2>1, LogAssumption DEF LogAssumption
    <2> QED
      BY <1>14, <2>1, <2>2 DEF LogStop, LogTypeOK, Up
  <1> QED
    BY LogSteps, <1>1, <1>2, <1>3, <1>4, <1>5, <1>7, <1>8, <1>9, <1>10, <1>11, <1>12,
       <1>13, <1>14
-------------------------------------------------------------------------------
\* The files

\* No operation puts anything but a readable log under a path.
LEMMA FilesKept == LogTypeOK /\ FilesOK /\ NumbersOK /\ [LogNext]_logVars => FilesOK'
  <1> SUFFICES ASSUME LogTypeOK, FilesOK, NumbersOK, [LogNext]_logVars
               PROVE  FilesOK'
    OBVIOUS
  <1>1. fs \in [Paths -> Content] /\ items \in Seq(Entry) /\ WellNumbered(Printable(items))
    BY OrderedIsWellNumbered DEF LogTypeOK, Content, NumbersOK
  <1>2. \/ fs' \in {fs, Removed(fs, Tmp), Opened(fs, Tmp), Closed(fs, Tmp, items)}
        \/ fs' \in {Removed(fs, Log), Renamed(fs, Tmp, Log)}
    <2>1. CASE PersistStep
      BY <2>1 DEF PersistStep, PersistClean, PersistOpen, PersistOpenFails, PersistWrite,
                  PersistDiscard, PersistDrop, PersistRename
    <2>2. CASE Adopt \/ Load
      BY <2>2 DEF Adopt, Load, LoadedFrom, LoadOversized, LoadNothing
    <2>3. CASE ~PersistStep /\ ~Adopt /\ ~Load
      BY <2>3, LogSteps
      DEF LogPowerOn, Begin, Breadcrumb, Say, SayLast, WindowEnds, Settle, LoopPersist,
          FlushLast, LogStop, logVars
    <2> QED
      BY <2>1, <2>2, <2>3
  <1>3. CASE fs' = fs
    BY <1>3 DEF FilesOK
  <1>4. CASE fs' \in {Removed(fs, Tmp), Removed(fs, Log), Opened(fs, Tmp)}
    BY <1>1, <1>4, LogPaths DEF FilesOK, Removed, Opened
  <1>5. CASE fs' = Closed(fs, Tmp, items)
    BY <1>1, <1>5, LogPaths DEF FilesOK, Closed
  <1>6. CASE fs' = Renamed(fs, Tmp, Log)
    BY <1>1, <1>6, LogPaths DEF FilesOK, Renamed, Exists
  <1> QED
    BY <1>2, <1>3, <1>4, <1>5, <1>6

-------------------------------------------------------------------------------
\* The numbers

\* A log in order stays so when an event with the next number is added.
LEMMA KeepOrder ==
    ASSUME LogTypeOK, NumbersOK, NEW e \in Events, Keep(e),
           \A i \in 1 .. Len(items) : items[i].seq < nextSeq /\ items[i].boot <= bootId
    PROVE  /\ Ordered(items')
           /\ \A i \in 1 .. Len(items') : items'[i].seq < nextSeq' /\ items'[i].boot <= bootId
  <1>1. PICK out \in {0, 1} :
            /\ items' \in Seq(Entry)
            /\ Len(items') = Len(items) + 1 - out
            /\ items'[Len(items')] = NewEntry(e)
            /\ \A i \in 1 .. Len(items') : i < Len(items') =>
                  i + out \in 1 .. Len(items) /\ items'[i] = items[i + out]
    BY KeepFacts
  <1>2. nextSeq \in Nat /\ nextSeq > 0 /\ nextSeq' = nextSeq + 1 /\ bootId \in Nat /\ bootId > 0
    BY DEF Keep, LogTypeOK, NumbersOK
  <1>3. items \in Seq(Entry) /\ \A i \in 1 .. Len(items) : items[i] \in Entry
    BY DEF LogTypeOK
  <1>4. NewEntry(e).seq = nextSeq /\ NewEntry(e).boot = bootId /\ NewEntry(e).printable
    BY DEF NewEntry
  <1>5. Len(items) \in Nat /\ Len(items') \in Nat
    BY <1>1, <1>3
  <1>6. \A i \in 1 .. Len(items') :
            /\ items'[i].printable /\ items'[i].seq > 0 /\ items'[i].boot > 0
            /\ items'[i].seq \in Nat /\ items'[i].boot \in Nat
            /\ items'[i].seq < nextSeq' /\ items'[i].boot <= bootId
            /\ i < Len(items') => items'[i].seq < nextSeq
    <2> SUFFICES ASSUME NEW i \in 1 .. Len(items')
                 PROVE  /\ items'[i].printable /\ items'[i].seq > 0 /\ items'[i].boot > 0
                        /\ items'[i].seq \in Nat /\ items'[i].boot \in Nat
                        /\ items'[i].seq < nextSeq' /\ items'[i].boot <= bootId
                        /\ i < Len(items') => items'[i].seq < nextSeq
      OBVIOUS
    <2>1. CASE i = Len(items')
      BY <1>1, <1>2, <1>4, <1>5, <2>1
    <2>2. CASE i < Len(items')
      <3>1. PICK k \in 1 .. Len(items) : items'[i] = items[k]
        BY <1>1, <2>2
      <3>2. items[k].seq \in Nat /\ items[k].boot \in Nat
        BY <1>3, <3>1 DEF Entry
      <3> QED
        BY <1>2, <3>1, <3>2 DEF NumbersOK, Ordered
    <2> QED
      BY <1>5, <2>1, <2>2
  <1>7. ASSUME NEW i \in 1 .. Len(items'), NEW j \in 1 .. Len(items'), i < j
        PROVE  items'[i].seq < items'[j].seq /\ items'[i].boot <= items'[j].boot
    <2>1. CASE j = Len(items')
      BY <1>1, <1>2, <1>4, <1>6, <1>7, <2>1
    <2>2. CASE j < Len(items')
      <3>1. /\ i + out \in 1 .. Len(items) /\ items'[i] = items[i + out]
            /\ j + out \in 1 .. Len(items) /\ items'[j] = items[j + out]
        BY <1>1, <1>5, <1>7, <2>2
      <3>2. i + out < j + out
        BY <1>7
      <3> QED
        BY <3>1, <3>2 DEF NumbersOK, Ordered
    <2> QED
      BY <1>5, <2>1, <2>2
  <1> QED
    BY <1>6, <1>7 DEF Ordered

\* The numbers stay in order.
LEMMA NumbersKept ==
    LogTypeOK /\ FilesOK /\ NumbersOK /\ OwnTail /\ [LogNext]_logVars => NumbersOK'
  <1> SUFFICES ASSUME LogTypeOK, FilesOK, NumbersOK, OwnTail, [LogNext]_logVars
               PROVE  NumbersOK'
    OBVIOUS
  <1>1. ASSUME NEW e \in Events, Keep(e), UNCHANGED bootId,
               \A i \in 1 .. Len(items) : items[i].seq < nextSeq /\ items[i].boot <= bootId
        PROVE  NumbersOK'
    <2>1. Ordered(items')
      BY <1>1, KeepOrder
    <2>2. nextSeq' > 0 /\ bootId' > 0
      BY <1>1 DEF Keep, NumbersOK, LogTypeOK
    <2> QED
      BY <2>1, <2>2 DEF NumbersOK, Ordered
  <1>2. CASE UNCHANGED <<items, numbers>>
    BY <1>2 DEF numbers, NumbersOK, Ordered
  <1>3. CASE Adopt \/ LogStop
    <2>1. items' = <<>> /\ Len(<<>>) = 0
      BY <1>3 DEF Adopt, LogStop
    <2>2. nextSeq' > 0 /\ bootId' > 0
      BY <1>3 DEF Adopt, LogStop, numbers, NumbersOK
    <2> QED
      BY <2>1, <2>2 DEF NumbersOK, Ordered
  <1>4. CASE LoadedFrom(fs[Log]) /\ UNCHANGED numbers
    <2>1. items' = Taken(fs[Log]) /\ fs[Log] \notin {Absent, Torn}
      BY <1>4 DEF LoadedFrom, Readable
    <2>2. Ordered(items')
      BY <2>1, TakenFacts, LogPaths DEF FilesOK
    <2> QED
      BY <1>4, <2>2 DEF NumbersOK, Ordered, numbers
  <1>5. CASE Begin
    <2>1. items' = items
      BY <1>5 DEF Begin
    <2>2. nextSeq' > 0 /\ bootId' > 0
      <3>1. CASE items = <<>>
        BY <1>5, <3>1 DEF Begin, numbers, NumbersOK
      <3>2. CASE items # <<>>
        <4>1. Len(items) \in Nat /\ Len(items) > 0 /\ items[Len(items)] \in Entry
          BY <3>2 DEF LogTypeOK
        <4> QED
          BY <1>5, <3>2, <4>1 DEF Begin, Larger, Entry
      <3> QED
        BY <3>1, <3>2
    <2> QED
      BY <2>1, <2>2 DEF NumbersOK, Ordered
  <1>6. ASSUME NEW e \in Events, Breadcrumb(e)
        PROVE  NumbersOK'
    <2>1. items = <<>> /\ UNCHANGED bootId
      BY <1>6 DEF Breadcrumb
    <2>2. Keep(e) \/ UNCHANGED <<items, nextSeq>>
      BY <1>6 DEF Breadcrumb, Add
    <2>3. \A i \in 1 .. Len(items) : FALSE
      BY <2>1
    <2> QED
      BY <1>1, <1>2, <2>1, <2>2, <2>3 DEF numbers
  <1>7. ASSUME NEW e \in Events, NEW room \in BOOLEAN, Say(e, room) \/ SayLast(e, room)
        PROVE  NumbersOK'
    <2>1. at = "up" /\ UNCHANGED bootId
      BY <1>7 DEF Say, SayLast
    <2>2. Keep(e) \/ UNCHANGED <<items, nextSeq>>
      BY <1>7 DEF Say, SayLast, Add
    <2>3. \A i \in 1 .. Len(items) : items[i].seq < nextSeq /\ items[i].boot <= bootId
      BY <2>1 DEF OwnTail, Running, Up
    <2> QED
      BY <1>1, <1>2, <2>1, <2>2, <2>3 DEF numbers
  <1>8. CASE PersistStep
    BY <1>2, <1>8
    DEF PersistStep, PersistClean, PersistOpen, PersistOpenFails, PersistWrite,
        PersistDiscard, PersistDrop, PersistRename, persistVars, numbers
  <1>9. CASE Load
    BY <1>2, <1>4, <1>9 DEF Load, LoadOversized, LoadNothing
  <1>10. ASSUME NEW spare \in BOOLEAN, FlushLast(spare)
         PROVE  NumbersOK'
    BY <1>2, <1>10 DEF FlushLast
  <1>11. CASE LogPowerOn \/ WindowEnds \/ Settle \/ LoopPersist \/ UNCHANGED logVars
    BY <1>2, <1>11 DEF LogPowerOn, WindowEnds, Settle, LoopPersist, logVars
  <1> QED
    BY LogSteps, <1>3, <1>5, <1>6, <1>7, <1>8, <1>9, <1>10, <1>11
-------------------------------------------------------------------------------
\* The events of this boot

\* An event that is added is the boot's own, and what falls out is the oldest.
LEMMA KeepOwn ==
    ASSUME LogTypeOK, NumbersOK, NEW e \in Events, Keep(e),
           mine <= Len(items),
           \A i \in 1 .. Len(items) : items[i].boot = bootId <=> i > Len(items) - mine
    PROVE  /\ mine' <= Len(items')
           /\ \A i \in 1 .. Len(items') :
                 items'[i].boot = bootId <=> i > Len(items') - mine'
  <1>1. PICK out \in {0, 1} :
            /\ out = IF Len(items) = Capacity THEN 1 ELSE 0
            /\ items' \in Seq(Entry)
            /\ Len(items') = Len(items) + 1 - out
            /\ items'[Len(items')] = NewEntry(e)
            /\ \A i \in 1 .. Len(items') : i < Len(items') =>
                  i + out \in 1 .. Len(items) /\ items'[i] = items[i + out]
    BY KeepFacts
  <1>2. /\ Capacity \in Nat /\ Capacity > 0 /\ mine \in Nat
        /\ Len(items) \in Nat /\ Len(items) <= Capacity
    BY LogAssumption DEF LogTypeOK, LogAssumption
  <1>3. mine' = IF mine < Capacity THEN mine + 1 ELSE mine
    BY DEF Keep
  <1>4. NewEntry(e).boot = bootId
    BY DEF NewEntry
  <1>5. mine' <= Len(items')
    BY <1>1, <1>2, <1>3
  <1>6. ASSUME NEW i \in 1 .. Len(items')
        PROVE  items'[i].boot = bootId <=> i > Len(items') - mine'
    <2>1. CASE i = Len(items')
      BY <1>1, <1>2, <1>3, <1>4, <2>1
    <2>2. CASE i < Len(items')
      <3>1. /\ i + out \in 1 .. Len(items) /\ items'[i] = items[i + out]
            /\ items[i + out].boot = bootId <=> i + out > Len(items) - mine
        BY <1>1, <2>2
      <3>2. i + out > Len(items) - mine <=> i > Len(items') - mine'
        BY <1>1, <1>2, <1>3, <1>6, <3>1
      <3> QED
        BY <3>1, <3>2
    <2> QED
      BY <1>1, <1>2, <2>1, <2>2
  <1> QED
    BY <1>5, <1>6

\* The events of this boot stay apart.
LEMMA OwnKept ==
    LogTypeOK /\ NumbersOK /\ OwnTail /\ NotYet /\ [LogNext]_logVars => OwnTail' /\ NotYet'
  <1> SUFFICES ASSUME LogTypeOK, NumbersOK, OwnTail, NotYet, [LogNext]_logVars
               PROVE  OwnTail' /\ NotYet'
    OBVIOUS
  <1>1. CASE UNCHANGED logVars
    BY <1>1 DEF logVars, numbers, place, history, OwnTail, NotYet, Running, Up, Persisting
  <1>2. CASE LogPowerOn
    BY <1>2 DEF LogPowerOn, OwnTail, NotYet, Running, Up, Persisting
  <1>3. CASE Adopt
    BY <1>3 DEF Adopt, OwnTail, NotYet, Running, Up, Persisting
  <1>4. CASE Load
    <2>1. at = "adopted" /\ mine' = mine
      BY <1>4 DEF Load, history
    <2>2. at' = "begin" \/ (at' = "clean" /\ then' = "begin")
      BY <1>4 DEF Load, LoadedFrom, LoadOversized, LoadNothing
    <2> QED
      BY <2>1, <2>2 DEF OwnTail, NotYet, Running, Up, Persisting
  <1>5. CASE Begin
    <2>1. mine = 0 /\ mine' = 0 /\ items' = items /\ at' = "up"
      BY <1>5 DEF Begin, NotYet, history
    <2>2. NotYet'
      BY <2>1 DEF NotYet
    <2>3. \A i \in 1 .. Len(items) : items[i].seq < nextSeq' /\ items[i].boot < bootId'
      <3> SUFFICES ASSUME NEW i \in 1 .. Len(items)
                   PROVE  items[i].seq < nextSeq' /\ items[i].boot < bootId'
        OBVIOUS
      <3> DEFINE last == items[Len(items)]
      <3>1. items # <<>> /\ Len(items) \in Nat /\ i <= Len(items)
        BY DEF LogTypeOK
      <3>2. items[i] \in Entry /\ last \in Entry
        BY <3>1 DEF LogTypeOK
      <3>3. /\ items[i].seq \in Nat /\ items[i].boot \in Nat
            /\ last.seq \in Nat /\ last.boot \in Nat
        BY <3>2 DEF Entry
      <3>4. items[i].seq <= last.seq /\ items[i].boot <= last.boot
        BY <3>1, <3>3 DEF NumbersOK, Ordered
      <3>5. /\ nextSeq' = Larger(last.seq + 1, Len(items) + 1)
            /\ bootId' = Larger(last.boot + 1, 1)
        BY <1>5, <3>1 DEF Begin
      <3> HIDE DEF last
      <3> QED
        BY <3>1, <3>3, <3>4, <3>5 DEF Larger
    <2>4. \A i \in 1 .. Len(items) : items[i].boot \in Nat
      <3>1. \A i \in 1 .. Len(items) : items[i] \in Entry
        BY DEF LogTypeOK
      <3> QED
        BY <3>1 DEF Entry
    <2>5. bootId' \in Nat \/ items = <<>>
      BY <1>5, <2>4 DEF Begin, Larger, LogTypeOK
    <2>6. \A i \in 1 .. Len(items) :
             /\ items[i].seq < nextSeq' /\ items[i].boot <= bootId'
             /\ items[i].boot = bootId' <=> i > Len(items) - 0
      BY <2>3, <2>4, <2>5 DEF LogTypeOK
    <2>7. OwnTail'
      BY <2>1, <2>6 DEF OwnTail, LogTypeOK
    <2> QED
      BY <2>2, <2>7
  <1>6. ASSUME NEW e \in Events, Breadcrumb(e)
        PROVE  OwnTail' /\ NotYet'
    BY <1>6 DEF Breadcrumb, place, OwnTail, NotYet, Running, Up, Persisting
  <1>7. ASSUME NEW e \in Events, NEW room \in BOOLEAN, Say(e, room) \/ SayLast(e, room)
        PROVE  OwnTail' /\ NotYet'
    <2>1. at = "up" /\ at' \in {"up", "flush"} /\ bootId' = bootId
      BY <1>7 DEF Say, SayLast, place
    <2>2. NotYet'
      BY <2>1 DEF NotYet, Persisting
    <2>3. /\ mine <= Len(items)
          /\ \A i \in 1 .. Len(items) :
                /\ items[i].seq < nextSeq /\ items[i].boot <= bootId
                /\ items[i].boot = bootId <=> i > Len(items) - mine
      BY <2>1 DEF OwnTail, Running, Up
    <2>4. CASE Keep(e)
      <3>1. \A i \in 1 .. Len(items') : items'[i].seq < nextSeq' /\ items'[i].boot <= bootId
        BY <2>3, <2>4, KeepOrder
      <3>2. /\ mine' <= Len(items')
            /\ \A i \in 1 .. Len(items') :
                  items'[i].boot = bootId <=> i > Len(items') - mine'
        BY <2>3, <2>4, KeepOwn
      <3> QED
        BY <2>1, <2>2, <3>1, <3>2 DEF OwnTail
    <2>5. CASE UNCHANGED <<items, nextSeq, flags, mine>>
      BY <2>1, <2>2, <2>3, <2>5 DEF OwnTail
    <2> QED
      BY <1>7, <2>4, <2>5 DEF Say, SayLast, Add
  <1>8. CASE WindowEnds \/ Settle
    BY <1>8 DEF WindowEnds, Settle, numbers, place, history, OwnTail, NotYet, Running, Up,
                Persisting
  <1>9. CASE LoopPersist
    BY <1>9 DEF LoopPersist, numbers, history, OwnTail, NotYet, Running, Up, Persisting
  <1>10. ASSUME NEW spare \in BOOLEAN, FlushLast(spare)
         PROVE  OwnTail' /\ NotYet'
    BY <1>10 DEF FlushLast, numbers, history, OwnTail, NotYet, Running, Up, Persisting
  <1>11. CASE PersistStep
    <2>1. UNCHANGED <<items, nextSeq, bootId, mine>> /\ Persisting
      BY <1>11 DEF PersistStep, PersistClean, PersistOpen, PersistOpenFails, PersistWrite,
                   PersistDiscard, PersistDrop, PersistRename, persistVars, Persisting,
                   Persisted
    <2>2. (at' \in {"open", "write", "discard", "drop", "rename"} /\ then' = then) \/ at' = then
      BY <1>11 DEF PersistStep, PersistClean, PersistOpen, PersistOpenFails, PersistWrite,
                   PersistDiscard, PersistDrop, PersistRename, Persisted
    <2>3. then \in {"begin", "up", "stop"}
      BY DEF LogTypeOK
    <2>4. CASE at' \in {"open", "write", "discard", "drop", "rename"} /\ then' = then
      BY <2>1, <2>4 DEF OwnTail, NotYet, Running, Up, Persisting
    <2>5. CASE at' = then
      <3>1. CASE then = "begin"
        BY <2>1, <2>5, <3>1 DEF OwnTail, NotYet, Running, Up, Persisting
      <3>2. CASE then \in {"up", "stop"}
        BY <2>1, <2>5, <3>2 DEF OwnTail, NotYet, Running, Up, Persisting
      <3> QED
        BY <2>3, <3>1, <3>2
    <2> QED
      BY <2>2, <2>4, <2>5
  <1>12. CASE LogStop
    BY <1>12 DEF LogStop, OwnTail, NotYet, Running, Up, Persisting
  <1> QED
    BY LogSteps, <1>1, <1>2, <1>3, <1>4, <1>5, <1>6, <1>7, <1>8, <1>9, <1>10, <1>11, <1>12

-------------------------------------------------------------------------------
\* The theorems

\* The whole invariant: the order of the log needs that of the files, because a boot
\* goes on with the numbers it finds there.
THEOREM LogInvHolds == LogSpec => []LogInv
  <1>1. LogInit => LogInv
    <2> SUFFICES ASSUME LogInit
                 PROVE  LogInv
      OBVIOUS
    <2>1. PICK file \in FirstFiles \union {Absent} :
              fs = [p \in Paths |-> IF p = Log THEN file ELSE Absent]
      BY DEF LogInit
    <2>2. file \in Content /\ Absent \in Content
      BY LogAssumption DEF LogAssumption, Content
    <2>3. fs \in [Paths -> Content]
      BY <2>1, <2>2
    <2>4. items = <<>> /\ items \in Seq(Entry) /\ Len(items) = 0
      BY DEF LogInit
    <2>5. Len(items) <= Capacity
      BY <2>4, LogAssumption DEF LogAssumption
    <2>6. LogTypeOK
      BY <2>3, <2>4, <2>5 DEF LogInit, LogTypeOK, Content, Up
    <2>7. FilesOK
      <3>1. file # Absent => WellNumbered(Printable(file))
        BY LogAssumption DEF LogAssumption
      <3> QED
        BY <2>1, <3>1 DEF FilesOK
    <2>8. NumbersOK
      BY <2>4 DEF LogInit, NumbersOK, Ordered
    <2>9. OwnTail /\ NotYet
      <3>1. at = "off"
        BY DEF LogInit
      <3> QED
        BY <3>1 DEF OwnTail, NotYet, Running, Up, Persisting
    <2> QED
      BY <2>6, <2>7, <2>8, <2>9 DEF LogInv
  <1>2. LogInv /\ [LogNext]_logVars => LogInv'
    BY TypesKept, FilesKept, NumbersKept, OwnKept DEF LogInv
  <1> QED
    BY <1>1, <1>2, PTL DEF LogSpec

\* The state has its type at first and after every step.
THEOREM LogTypeCorrect == LogSpec => []LogTypeOK
  <1>1. LogInv => LogTypeOK
    BY DEF LogInv
  <1> QED
    BY <1>1, LogInvHolds, PTL

\* Events keep their order for good, across restarts, migrations and failed writes
\* (begin, event_log.cpp:16).
THEOREM NumbersAlwaysIncrease == LogSpec => []NumbersIncrease
  <1>1. LogInv => NumbersIncrease
    BY DEF LogInv, NumbersOK, Ordered, OwnTail, Running, NumbersIncrease
  <1> QED
    BY <1>1, LogInvHolds, PTL

\* The number of the boot tells its events from all others in the log, wherever
\* earlier boots crashed (begin, event_log.cpp:16; add, :54).
THEOREM BootsToldApart == LogSpec => []OwnBoot
  <1>1. LogInv => OwnBoot
    BY DEF LogInv, OwnTail, Running, OwnBoot
  <1> QED
    BY <1>1, LogInvHolds, PTL
-------------------------------------------------------------------------------
\* What the files hold

\* The texts of a log are a sequence of its length.
LEMMA TextsFacts ==
    ASSUME NEW s \in Seq(Entry)
    PROVE  /\ Texts(s) \in Seq(Events) /\ Len(Texts(s)) = Len(s)
           /\ \A i \in 1 .. Len(s) : Texts(s)[i] = s[i].ev
  <1>1. Len(s) \in Nat /\ \A i \in 1 .. Len(s) : s[i] \in Entry
    OBVIOUS
  <1>2. \A i \in 1 .. Len(s) : s[i].ev \in Events
    BY <1>1 DEF Entry
  <1>3. Texts(s) \in [1 .. Len(s) -> Events]
    BY <1>2 DEF Texts
  <1>4. Texts(s) \in Seq(Events)
    BY <1>1, <1>3
  <1> QED
    BY <1>1, <1>4, LenProperties DEF Texts

\* Taking the oldest entries and reading the texts can be exchanged.
LEMMA OldestTexts ==
    ASSUME NEW s \in Seq(Entry)
    PROVE  Texts(Oldest(s)) = Oldest(Texts(s))
  <1>1. PICK x : x = Texts(s)
    OBVIOUS
  <1>2. x \in Seq(Events) /\ Len(x) = Len(s) /\ \A i \in 1 .. Len(s) : x[i] = s[i].ev
    BY <1>1, TextsFacts
  <1>3. Capacity \in Nat /\ Capacity > 0 /\ Len(s) \in Nat
    BY LogAssumption DEF LogAssumption
  <1>4. CASE Len(s) > Capacity
    <2>1. PICK o : o = SubSeq(s, 1, Capacity)
      OBVIOUS
    <2>2. o \in Seq(Entry) /\ Len(o) = Capacity /\ \A i \in 1 .. Capacity : o[i] = s[i]
      BY <1>3, <1>4, <2>1, SubSeqProperties
    <2>3. PICK y : y = SubSeq(x, 1, Capacity)
      OBVIOUS
    <2>4. y \in Seq(Events) /\ Len(y) = Capacity /\ \A i \in 1 .. Capacity : y[i] = x[i]
      BY <1>2, <1>3, <1>4, <2>3, SubSeqProperties
    <2>5. PICK z : z = Texts(o)
      OBVIOUS
    <2>6. z \in Seq(Events) /\ Len(z) = Capacity /\ \A i \in 1 .. Capacity : z[i] = o[i].ev
      BY <2>2, <2>5, TextsFacts
    <2>7. \A i \in 1 .. Capacity : z[i] = y[i]
      BY <1>2, <1>3, <1>4, <2>2, <2>4, <2>6
    <2>8. z = y
      BY <2>4, <2>6, <2>7, SeqEqual
    <2> QED
      BY <1>1, <1>2, <1>4, <2>1, <2>3, <2>5, <2>8 DEF Oldest
  <1>5. CASE ~(Len(s) > Capacity)
    BY <1>1, <1>2, <1>5 DEF Oldest
  <1> QED
    BY <1>4, <1>5

\* What load() takes of a file has the texts of its oldest printable entries.
LEMMA TakenTexts ==
    ASSUME NEW file, WellNumbered(Printable(file))
    PROVE  Texts(Taken(file)) = Oldest(Texts(Printable(file)))
  <1>1. PICK p : p = Printable(file)
    OBVIOUS
  <1>2. PICK n : n = Numbered(p)
    OBVIOUS
  <1>3. p \in Seq(Entry)
    BY <1>1 DEF WellNumbered
  <1>4. /\ n \in Seq(Entry) /\ Len(n) = Len(p)
        /\ \A i \in 1 .. Len(p) : n[i].ev = p[i].ev
    BY <1>2, <1>3, NumberedFacts
  <1>5. PICK x, y : x = Texts(n) /\ y = Texts(p)
    OBVIOUS
  <1>6. /\ x \in Seq(Events) /\ Len(x) = Len(p)
        /\ y \in Seq(Events) /\ Len(y) = Len(p)
        /\ \A i \in 1 .. Len(p) : x[i] = n[i].ev /\ y[i] = p[i].ev
    BY <1>3, <1>4, <1>5, TextsFacts
  <1>7. x = y
    BY <1>4, <1>6, SeqEqual
  <1> QED
    BY <1>1, <1>2, <1>4, <1>5, <1>7, OldestTexts DEF Taken

\* A log that persist() wrote is read as a whole.
LEMMA ReadoutOfLog ==
    ASSUME LogTypeOK, NumbersOK
    PROVE  /\ ~Oversized(items) /\ items \notin {Absent, Torn}
           /\ Readout(items) = items
           /\ Oldest(Texts(items)) = Texts(items)
  <1>1. /\ items \in Seq(Entry) /\ Len(items) <= Capacity /\ Len(items) \in Nat
        /\ Capacity \in Nat /\ MaxFile \in Nat /\ Capacity <= MaxFile
    BY LogAssumption DEF LogTypeOK, LogAssumption
  <1>2. items \notin {Absent, Torn}
    BY <1>1, LogAssumption DEF LogAssumption
  <1>3. Printable(items) = items
    BY <1>1, OrderedIsWellNumbered DEF NumbersOK
  <1>4. ~Oversized(items)
    BY <1>1 DEF Oversized
  <1>5. Oldest(Texts(items)) = Texts(items)
    <2>1. Len(Texts(items)) = Len(items)
      BY <1>1, TextsFacts
    <2> QED
      BY <1>1, <2>1 DEF Oldest
  <1> QED
    BY <1>2, <1>3, <1>4, <1>5 DEF Readout

\* How far persist() has got with the temporary file; before the log is read there
\* is none in memory.
Progress ==
    /\ at = "adopted" => items = <<>>
    /\ at = "open" => fs[Tmp] = Absent
    /\ at \in {"write", "discard"} => fs[Tmp] = Torn
    /\ at \in {"drop", "rename"} => fs[Tmp] \in {items, Torn}
    /\ at = "rename" => fs[Log] = Absent

\* persist() goes on in its order.
LEMMA ProgressKept == LogTypeOK /\ Progress /\ [LogNext]_logVars => Progress'
  <1> SUFFICES ASSUME LogTypeOK, Progress, [LogNext]_logVars
               PROVE  Progress'
    OBVIOUS
  <1>1. fs \in [Paths -> Content]
    BY DEF LogTypeOK, Content
  <1>2. CASE PersistStep
    <2>1. CASE PersistClean
      BY <1>1, <2>1, LogPaths DEF PersistClean, Removed, Progress
    <2>2. CASE PersistOpen
      BY <1>1, <2>2, LogPaths DEF PersistOpen, Opened, Progress
    <2>3. CASE PersistWrite
      BY <1>1, <2>3, LogPaths DEF PersistWrite, Closed, Progress, persistVars
    <2>4. CASE PersistDrop
      BY <1>1, <2>4, LogPaths DEF PersistDrop, Removed, Progress, persistVars
    <2>5. CASE PersistOpenFails \/ PersistDiscard \/ PersistRename
      <3>1. at' \in {"begin", "up", "stop"}
        BY <2>5 DEF PersistOpenFails, PersistDiscard, PersistRename, Persisted, LogTypeOK
      <3> QED
        BY <3>1 DEF Progress
    <2> QED
      BY <1>2, <2>1, <2>2, <2>3, <2>4, <2>5 DEF PersistStep
  <1>3. CASE Adopt
    BY <1>3 DEF Adopt, Progress
  <1>4. CASE Load
    <2>1. at' \in {"begin", "clean"}
      BY <1>4 DEF Load, LoadedFrom, LoadOversized, LoadNothing
    <2> QED
      BY <2>1 DEF Progress
  <1>5. CASE Begin \/ LogPowerOn \/ LogStop \/ LoopPersist
    <2>1. at' \in {"up", "early", "off", "clean"}
      BY <1>5 DEF Begin, LogPowerOn, LogStop, LoopPersist
    <2> QED
      BY <2>1 DEF Progress
  <1>6. ASSUME NEW e \in Events, Breadcrumb(e)
        PROVE  Progress'
    BY <1>6 DEF Breadcrumb, place, Progress
  <1>7. ASSUME NEW e \in Events, NEW room \in BOOLEAN, Say(e, room) \/ SayLast(e, room)
        PROVE  Progress'
    <2>1. at' \in {"up", "flush"}
      BY <1>7 DEF Say, SayLast, place
    <2> QED
      BY <2>1 DEF Progress
  <1>8. ASSUME NEW spare \in BOOLEAN, FlushLast(spare)
        PROVE  Progress'
    <2>1. at' \in {"clean", "stop"}
      BY <1>8 DEF FlushLast
    <2> QED
      BY <2>1 DEF Progress
  <1>9. CASE WindowEnds \/ Settle
    BY <1>9 DEF WindowEnds, Settle, place, Progress
  <1>10. CASE UNCHANGED logVars
    BY <1>10 DEF logVars, place, Progress
  <1> QED
    BY LogSteps, <1>2, <1>3, <1>4, <1>5, <1>6, <1>7, <1>8, <1>9, <1>10
-------------------------------------------------------------------------------
\* One history in two files

\* Is the log missing or too long, so that the other file counts?
Gone == ~Exists(fs, Log) \/ (Readable(fs, Log) /\ Oversized(fs[Log]))

\* Which file a boot would read.
LEMMA DurableCases ==
    /\ Gone => Durable = Texts(Readout(fs[Tmp]))
    /\ ~Gone => Durable = Texts(Readout(fs[Log]))
  BY DEF Durable, Gone

\* Without the history it stands for, a content reads as nothing.
LEMMA NothingToRead ==
    /\ Texts(Readout(Absent)) = <<>> /\ Texts(Readout(Torn)) = <<>>
    /\ \A c : Oversized(c) => Texts(Readout(c)) = <<>>
  <1>1. Texts(<<>>) = <<>>
    <2>1. <<>> \in Seq(Entry) /\ Len(<<>>) = 0
      OBVIOUS
    <2>2. Texts(<<>>) \in Seq(Events) /\ Len(Texts(<<>>)) = 0
      BY <2>1, TextsFacts
    <2> QED
      BY <2>2, EmptySeq
  <1> QED
    BY <1>1 DEF Readout

\* The steps of begin() and load() do not change what the flash holds.
LEMMA BootDurable ==
    ASSUME LogTypeOK, Adopt \/ Load
    PROVE  Durable' = Durable
  <1>1. fs \in [Paths -> Content]
    BY DEF LogTypeOK, Content
  <1>2. CASE fs' = fs
    BY <1>2 DEF Durable
  <1>3. CASE Adopt /\ ~Exists(fs, Log) /\ Exists(fs, Tmp)
    <2>1. fs' = [fs EXCEPT ![Log] = fs[Tmp], ![Tmp] = Absent]
      BY <1>3 DEF Adopt, Renamed
    <2>2. fs'[Log] = fs[Tmp] /\ fs'[Tmp] = Absent
      BY <1>1, <2>1, LogPaths
    <2>3. Gone /\ Durable = Texts(Readout(fs[Tmp]))
      BY <1>3, DurableCases DEF Gone
    <2>4. CASE Gone'
      <3>1. Durable' = <<>>
        BY <2>2, <2>4, DurableCases, NothingToRead DEF Gone, Durable
      <3>2. Oversized(fs[Tmp])
        BY <1>3, <2>2, <2>4 DEF Gone, Exists
      <3> QED
        BY <2>3, <3>1, <3>2, NothingToRead
    <2>5. CASE ~Gone'
      BY <2>2, <2>3, <2>5 DEF Gone, Durable
    <2> QED
      BY <2>4, <2>5
  <1>4. CASE LoadOversized
    <2>1. fs'[Log] = Absent /\ fs'[Tmp] = fs[Tmp]
      BY <1>1, <1>4, LogPaths DEF LoadOversized, Removed
    <2>2. Gone /\ Gone'
      BY <1>4, <2>1 DEF LoadOversized, Gone, Exists
    <2> QED
      BY <2>1, <2>2 DEF Gone, Durable
  <1> QED
    BY <1>2, <1>3, <1>4 DEF Adopt, Load, LoadedFrom, LoadNothing, Renamed

\* A step of persist() leaves what the flash holds alone, replaces it as a whole, or
\* loses it; when the last one reports success, the flash holds the log.
LEMMA PersistDurable ==
    ASSUME LogTypeOK, NumbersOK, Progress, PersistStep
    PROVE  /\ Durable' \in {Durable, <<>>, Texts(items)}
           /\ PersistRename /\ fs[Tmp] # Torn => Durable' = Texts(items)
  <1>1. fs \in [Paths -> Content]
    BY DEF LogTypeOK, Content
  <1>2. CASE PersistClean
    <2>1. fs'[Log] = fs[Log] /\ fs'[Tmp] = Absent
      BY <1>1, <1>2, LogPaths DEF PersistClean, Removed
    <2>2. Durable' \in {Durable, <<>>}
      <3>1. CASE Gone
        <4>1. Durable' = Texts(Readout(Absent))
          BY <2>1, <3>1 DEF Durable, Gone, Exists, Readable
        <4> QED
          BY <4>1, NothingToRead
      <3>2. CASE ~Gone
        BY <2>1, <3>2 DEF Durable, Gone, Exists, Readable
      <3> QED
        BY <3>1, <3>2
    <2>3. ~PersistRename
      BY <1>2 DEF PersistClean, PersistRename
    <2> QED
      BY <2>2, <2>3
  <1>3. CASE PersistOpen
    <2>1. fs'[Log] = fs[Log] /\ fs'[Tmp] = Torn /\ fs[Tmp] = Absent
      BY <1>1, <1>3, LogPaths DEF PersistOpen, Opened, Progress
    <2> QED
      BY <1>3, <2>1, NothingToRead DEF Durable, Exists, Readable, PersistOpen, PersistRename
  <1>4. CASE PersistOpenFails
    BY <1>4 DEF PersistOpenFails, PersistRename, Durable
  <1>5. CASE PersistWrite
    <2>1. Readout(items) = items
      BY ReadoutOfLog
    <2>2. CASE fs' = fs
      BY <1>5, <2>2 DEF Durable, PersistWrite, PersistRename
    <2>3. CASE fs' = Closed(fs, Tmp, items)
      <3>1. fs'[Log] = fs[Log] /\ fs'[Tmp] = items
        BY <1>1, <2>3, LogPaths DEF Closed
      <3> QED
        BY <1>5, <2>1, <3>1 DEF Durable, Exists, Readable, PersistWrite, PersistRename
    <2> QED
      BY <1>5, <2>2, <2>3 DEF PersistWrite
  <1>6. CASE PersistDiscard
    <2>1. fs'[Log] = fs[Log] /\ fs'[Tmp] = Absent /\ fs[Tmp] = Torn
      BY <1>1, <1>6, LogPaths DEF PersistDiscard, Removed, Progress
    <2> QED
      BY <1>6, <2>1, NothingToRead
      DEF Durable, Exists, Readable, PersistDiscard, PersistRename
  <1>7. CASE PersistDrop
    <2>1. fs'[Log] = Absent /\ fs'[Tmp] = fs[Tmp] /\ fs[Tmp] \in {items, Torn}
      BY <1>1, <1>7, LogPaths DEF PersistDrop, Removed, Progress
    <2>2. Durable' = Texts(Readout(fs[Tmp]))
      BY <2>1 DEF Durable, Exists
    <2> QED
      BY <1>7, <2>1, <2>2, NothingToRead, ReadoutOfLog DEF PersistDrop, PersistRename
  <1>8. CASE PersistRename
    <2>1. fs[Tmp] \in {items, Torn} /\ fs[Log] = Absent
      BY <1>8 DEF PersistRename, Progress
    <2>2. Durable = Texts(Readout(fs[Tmp]))
      BY <2>1 DEF Durable, Exists
    <2>3. fs[Tmp] # Absent
      BY <2>1, ReadoutOfLog, LogAssumption DEF LogAssumption
    <2>4. fs'[Log] = fs[Tmp] /\ fs'[Tmp] = Absent
      BY <1>1, <1>8, <2>3, LogPaths DEF PersistRename, Renamed, Exists
    <2>5. CASE fs[Tmp] = Torn
      <3>1. Durable' = Texts(Readout(Torn))
        BY <2>3, <2>4, <2>5 DEF Durable, Exists, Readable
      <3> QED
        BY <2>5, <3>1, NothingToRead
    <2>6. CASE fs[Tmp] = items
      <3>1. ~Gone'
        BY <2>3, <2>4, <2>6, ReadoutOfLog DEF Gone, Exists
      <3>2. Durable' = Texts(Readout(items))
        BY <2>4, <2>6, <3>1 DEF Durable, Gone
      <3> QED
        BY <3>2, ReadoutOfLog
    <2> QED
      BY <2>1, <2>5, <2>6
  <1> QED
    BY <1>2, <1>3, <1>4, <1>5, <1>6, <1>7, <1>8 DEF PersistStep
-------------------------------------------------------------------------------
\* A clean log is stored

\* The same of every place behind the reading of the log: CleanIsStored does not
\* look at a boot or a restart that is not finished.
Clean ==
    at \in {"begin", "up", "flush", "stop"} /\ ~dirty /\ ~failed /\ items # <<>> =>
        Texts(items) = Oldest(Durable)

\* Every step keeps a clean log stored.
LEMMA CleanKept ==
    LogInv /\ Progress /\ Clean /\ [LogNext]_logVars => Clean'
  <1> SUFFICES ASSUME LogInv, Progress, Clean, [LogNext]_logVars
               PROVE  Clean'
    OBVIOUS
  <1> USE DEF LogInv
  <1>1. CASE UNCHANGED logVars
    BY <1>1 DEF logVars, numbers, flags, place, history, Clean, Durable
  <1>2. CASE LogPowerOn \/ Adopt \/ LogStop \/ LoopPersist
    <2>1. at' \in {"early", "adopted", "off", "clean"}
      BY <1>2 DEF LogPowerOn, Adopt, LogStop, LoopPersist
    <2> QED
      BY <2>1 DEF Clean
  <1>3. CASE Load
    <2>1. Durable' = Durable
      BY <1>3, BootDurable
    <2>2. items = <<>>
      BY <1>3 DEF Load, Progress
    <2>3. CASE LoadedFrom(fs[Log])
      <3>1. /\ items' = Taken(fs[Log]) /\ fs[Log] \notin {Absent, Torn}
            /\ ~Oversized(fs[Log])
        BY <2>3 DEF LoadedFrom, Readable
      <3>2. WellNumbered(Printable(fs[Log]))
        BY <3>1, LogPaths DEF FilesOK
      <3>3. Durable = Texts(Printable(fs[Log]))
        BY <3>1 DEF Durable, Exists, Readout
      <3> QED
        BY <2>1, <3>1, <3>2, <3>3, TakenTexts DEF Clean
    <2>4. CASE ~LoadedFrom(fs[Log])
      BY <1>3, <2>2, <2>4 DEF Load, LoadOversized, LoadNothing, Clean
    <2> QED
      BY <2>3, <2>4
  <1>4. CASE Begin
    <2>1. fs' = fs /\ items' = items /\ dirty' = dirty /\ failed' = failed /\ at = "begin"
      BY <1>4 DEF Begin, history
    <2> QED
      BY <2>1 DEF Clean, Durable
  <1>5. ASSUME NEW e \in Events, Breadcrumb(e)
        PROVE  Clean'
    BY <1>5 DEF Breadcrumb, place, Clean
  <1>6. ASSUME NEW e \in Events, NEW room \in BOOLEAN, Say(e, room) \/ SayLast(e, room)
        PROVE  Clean'
    <2>1. fs' = fs /\ failed' = failed /\ at = "up"
      BY <1>6 DEF Say, SayLast
    <2>2. CASE Keep(e)
      BY <2>2 DEF Keep, Clean
    <2>3. CASE UNCHANGED <<items, nextSeq, flags, mine>>
      BY <2>1, <2>3 DEF flags, Clean, Durable
    <2> QED
      BY <1>6, <2>2, <2>3 DEF Say, SayLast, Add
  <1>7. CASE WindowEnds \/ Settle
    BY <1>7 DEF WindowEnds, Settle, place, history, Clean, Durable
  <1>8. ASSUME NEW spare \in BOOLEAN, FlushLast(spare)
        PROVE  Clean'
    <2>1. /\ fs' = fs /\ items' = items /\ dirty' = dirty /\ failed' = failed
          /\ at = "flush" /\ at' \in {"clean", "stop"}
      BY <1>8 DEF FlushLast, flags, history
    <2> QED
      BY <2>1 DEF Clean, Durable
  <1>9. CASE PersistStep
    <2>1. CASE PersistRename
      <3>1. items' = items /\ failed' = (fs[Tmp] = Torn)
        BY <2>1 DEF PersistRename, Persisted, persistVars
      <3>2. CASE fs[Tmp] = Torn
        BY <3>1, <3>2 DEF Clean
      <3>3. CASE fs[Tmp] # Torn
        <4>1. Durable' = Texts(items) /\ Oldest(Texts(items)) = Texts(items)
          BY <1>9, <2>1, <3>3, PersistDurable, ReadoutOfLog
        <4> QED
          BY <3>1, <4>1 DEF Clean
      <3> QED
        BY <3>2, <3>3
    <2>2. CASE PersistOpenFails \/ PersistDiscard
      <3>1. failed'
        BY <2>2 DEF PersistOpenFails, PersistDiscard, Persisted
      <3> QED
        BY <3>1 DEF Clean
    <2>3. CASE PersistClean \/ PersistOpen \/ PersistWrite \/ PersistDrop
      <3>1. at' \in {"open", "write", "drop", "discard", "rename"}
        BY <2>3 DEF PersistClean, PersistOpen, PersistWrite, PersistDrop
      <3> QED
        BY <3>1 DEF Clean
    <2> QED
      BY <1>9, <2>1, <2>2, <2>3 DEF PersistStep
  <1> QED
    BY LogSteps, <1>1, <1>2, <1>3, <1>4, <1>5, <1>6, <1>7, <1>8, <1>9
\* The progress of persist() is as described throughout.
LEMMA ProgressHolds == LogSpec => []Progress
  <1>1. LogInit => Progress
    BY DEF LogInit, Progress
  <1> QED
    BY <1>1, ProgressKept, LogTypeCorrect, PTL DEF LogSpec

\* An event is forgotten only with a crash or a write that failed: when the log is
\* clean, the flash holds it (flush, event_log.cpp:226; persist, :242).
THEOREM CleanIsAlwaysStored == LogSpec => []CleanIsStored
  <1>1. LogInit => Clean
    BY DEF LogInit, Clean
  <1>2. Clean => CleanIsStored
    BY DEF Clean, CleanIsStored
  <1> QED
    BY <1>1, <1>2, CleanKept, LogInvHolds, ProgressHolds, PTL DEF LogSpec

-------------------------------------------------------------------------------
\* The refinement

\* An event that is added is the newest of the history.
LEMMA KeepTexts ==
    ASSUME LogTypeOK, NEW e \in Events, Keep(e)
    PROVE  Texts(items') = History!Newest(Append(Texts(items), e))
  <1>1. PICK out \in {0, 1} :
            /\ out = IF Len(items) = Capacity THEN 1 ELSE 0
            /\ items' \in Seq(Entry)
            /\ Len(items') = Len(items) + 1 - out
            /\ items'[Len(items')] = NewEntry(e)
            /\ \A i \in 1 .. Len(items') : i < Len(items') =>
                  i + out \in 1 .. Len(items) /\ items'[i] = items[i + out]
    BY KeepFacts
  <1>2. /\ Capacity \in Nat /\ Capacity > 0
        /\ items \in Seq(Entry) /\ Len(items) \in Nat /\ Len(items) <= Capacity
    BY LogAssumption DEF LogTypeOK, LogAssumption
  <1>3. PICK x, y : x = Texts(items) /\ y = Texts(items')
    OBVIOUS
  <1>4. /\ x \in Seq(Events) /\ Len(x) = Len(items) /\ \A i \in 1 .. Len(items) : x[i] = items[i].ev
        /\ y \in Seq(Events) /\ Len(y) = Len(items')
        /\ \A i \in 1 .. Len(items') : y[i] = items'[i].ev
    BY <1>1, <1>2, <1>3, TextsFacts
  <1>5. NewEntry(e).ev = e
    BY DEF NewEntry
  <1>6. PICK a : a = Append(x, e)
    OBVIOUS
  <1>7. /\ a \in Seq(Events) /\ Len(a) = Len(items) + 1 /\ a[Len(items) + 1] = e
        /\ \A i \in 1 .. Len(items) : a[i] = x[i]
    BY <1>4, <1>6
  <1>8. CASE out = 1
    <2>1. PICK z : z = SubSeq(a, 2, Capacity + 1)
      OBVIOUS
    <2>2. /\ z \in Seq(Events) /\ Len(z) = Capacity
          /\ \A i \in 1 .. Capacity : z[i] = a[i + 1]
      BY <1>1, <1>2, <1>7, <1>8, <2>1, SubSeqProperties
    <2>3. ASSUME NEW i \in 1 .. Capacity
          PROVE  y[i] = z[i]
      <3>1. Len(items) = Capacity /\ Len(items') = Capacity
        BY <1>1, <1>2, <1>8
      <3>2. z[i] = a[i + 1] /\ y[i] = items'[i].ev
        BY <1>4, <2>2, <3>1
      <3>3. CASE i = Capacity
        BY <1>1, <1>5, <1>7, <3>1, <3>2, <3>3
      <3>4. CASE i < Capacity
        <4>1. i + 1 \in 1 .. Len(items)
          BY <1>2, <3>1, <3>4
        <4>2. items'[i] = items[i + 1]
          BY <1>1, <1>8, <3>1, <3>4
        <4> QED
          BY <1>4, <1>7, <3>2, <4>1, <4>2
      <3> QED
        BY <1>2, <3>3, <3>4
    <2>4. y = z
      <3>1. Len(y) = Capacity
        BY <1>1, <1>2, <1>4, <1>8
      <3> QED
        BY <1>4, <2>2, <2>3, <3>1, SeqEqual
    <2>5. History!Newest(a) = z
      BY <1>1, <1>2, <1>7, <1>8, <2>1 DEF History!Newest
    <2> QED
      BY <1>3, <1>6, <2>4, <2>5
  <1>9. CASE out = 0
    <2>1. \A i \in 1 .. Len(a) : y[i] = a[i]
      BY <1>1, <1>2, <1>4, <1>5, <1>7, <1>9
    <2>2. y = a
      BY <1>1, <1>2, <1>4, <1>7, <1>9, <2>1, SeqEqual
    <2>3. History!Newest(a) = a
      BY <1>1, <1>2, <1>7, <1>9 DEF History!Newest
    <2> QED
      BY <1>3, <1>6, <2>2, <2>3
  <1> QED
    BY <1>8, <1>9

\* Every step of the log is one of its history, or none.
LEMMA HistoryStep ==
    LogInv /\ Progress /\ [LogNext]_logVars =>
        [History!Next]_(History!vars)
  <1> SUFFICES ASSUME LogInv, Progress, [LogNext]_logVars
               PROVE  [History!Next]_(History!vars)
    OBVIOUS
  <1> USE DEF LogInv
  <1>1. ASSUME Durable' = Durable, HasRead, HasRead', items' = items
        PROVE  [History!Next]_(History!vars)
    BY <1>1 DEF History!vars
  <1>0. ASSUME Durable' = Durable, ~HasRead, ~HasRead'
        PROVE  [History!Next]_(History!vars)
    BY <1>0 DEF History!vars, HasRead
  <1>2. CASE Adopt \/ LogPowerOn
    <2>1. ~HasRead /\ ~HasRead'
      BY <1>2 DEF Adopt, LogPowerOn, HasRead
    <2>2. Durable' = Durable
      BY <1>2, BootDurable DEF LogPowerOn, Durable
    <2> QED
      BY <1>0, <2>1, <2>2
  <1>3. ASSUME NEW e \in Events, Breadcrumb(e)
        PROVE  [History!Next]_(History!vars)
    <2>1. ~HasRead /\ ~HasRead' /\ fs' = fs
      BY <1>3 DEF Breadcrumb, HasRead, place
    <2>2. Durable' = Durable
      BY <2>1 DEF Durable
    <2> QED
      BY <1>0, <2>1, <2>2
  <1>4. CASE Load
    <2>1. ~HasRead /\ HasRead' /\ items = <<>>
      BY <1>4 DEF Load, LoadedFrom, LoadOversized, LoadNothing, HasRead, Progress
    <2>2. Durable' = Durable
      BY <1>4, BootDurable
    <2>3. Texts(items') \in {<<>>, Oldest(Durable)}
      <3>1. CASE LoadedFrom(fs[Log])
        <4>1. /\ items' = Taken(fs[Log]) /\ fs[Log] \notin {Absent, Torn}
              /\ ~Oversized(fs[Log])
          BY <3>1 DEF LoadedFrom, Readable
        <4>2. WellNumbered(Printable(fs[Log]))
          BY <4>1, LogPaths DEF FilesOK
        <4>3. Durable = Texts(Printable(fs[Log]))
          BY <4>1 DEF Durable, Exists, Readout
        <4> QED
          BY <4>1, <4>2, <4>3, TakenTexts
      <3>2. CASE ~LoadedFrom(fs[Log])
        <4>1. items' = <<>>
          BY <1>4, <2>1, <3>2 DEF Load, LoadOversized, LoadNothing
        <4>2. <<>> = Readout(Absent)
          BY DEF Readout
        <4> QED
          BY <4>1, <4>2, NothingToRead
      <3> QED
        BY <3>1, <3>2
    <2>4. History!Oldest(Durable) = Oldest(Durable)
      BY DEF History!Oldest, Oldest
    <2>5. History!Read
      BY <2>1, <2>2, <2>3, <2>4 DEF History!Read
    <2> QED
      BY <2>5 DEF History!Next
  <1>5. CASE Begin
    <2>1. fs' = fs /\ items' = items /\ HasRead /\ HasRead'
      BY <1>5 DEF Begin, HasRead
    <2>2. Durable' = Durable
      BY <2>1 DEF Durable
    <2> QED
      BY <1>1, <2>1, <2>2
  <1>6. ASSUME NEW e \in Events, NEW room \in BOOLEAN, Say(e, room) \/ SayLast(e, room)
        PROVE  [History!Next]_(History!vars)
    <2>1. fs' = fs /\ HasRead /\ HasRead'
      BY <1>6 DEF Say, SayLast, place, HasRead
    <2>2. Durable' = Durable
      BY <2>1 DEF Durable
    <2>3. CASE Keep(e)
      <3>1. History!Say(e)
        BY <2>1, <2>2, <2>3, KeepTexts DEF History!Say
      <3> QED
        BY <3>1 DEF History!Next
    <2>4. CASE UNCHANGED items
      BY <1>1, <2>1, <2>2, <2>4
    <2> QED
      BY <1>6, <2>3, <2>4 DEF Say, SayLast, Add
  <1>7. CASE WindowEnds \/ Settle \/ LoopPersist
    <2>1. fs' = fs /\ items' = items /\ HasRead /\ HasRead'
      BY <1>7 DEF WindowEnds, Settle, LoopPersist, place, HasRead
    <2>2. Durable' = Durable
      BY <2>1 DEF Durable
    <2> QED
      BY <1>1, <2>1, <2>2
  <1>8. ASSUME NEW spare \in BOOLEAN, FlushLast(spare)
        PROVE  [History!Next]_(History!vars)
    <2>1. fs' = fs /\ items' = items /\ HasRead /\ HasRead'
      BY <1>8 DEF FlushLast, HasRead
    <2>2. Durable' = Durable
      BY <2>1 DEF Durable
    <2> QED
      BY <1>1, <2>1, <2>2
  <1>9. CASE PersistStep
    <2>1. Durable' \in {Durable, <<>>, Texts(items)}
      BY <1>9, PersistDurable
    <2>2. items' = items
      BY <1>9 DEF PersistStep, PersistClean, PersistOpen, PersistOpenFails, PersistWrite,
                  PersistDiscard, PersistDrop, PersistRename, persistVars
    <2>3. HasRead
      BY <1>9 DEF PersistStep, PersistClean, PersistOpen, PersistOpenFails, PersistWrite,
                  PersistDiscard, PersistDrop, PersistRename, HasRead
    <2>4. at' \in {"open", "write", "discard", "drop", "rename", "begin", "up", "stop"}
      BY <1>9 DEF PersistStep, PersistClean, PersistOpen, PersistOpenFails, PersistWrite,
                  PersistDiscard, PersistDrop, PersistRename, Persisted, LogTypeOK
    <2>5. HasRead'
      BY <2>4 DEF HasRead
    <2>6. CASE Durable' = Durable
      BY <1>1, <2>2, <2>3, <2>5, <2>6
    <2>7. CASE Durable' = <<>>
      <3>1. History!Lose
        BY <2>2, <2>3, <2>5, <2>7 DEF History!Lose
      <3> QED
        BY <3>1 DEF History!Next
    <2>8. CASE Durable' = Texts(items)
      <3>1. History!Store
        BY <2>2, <2>3, <2>5, <2>8 DEF History!Store
      <3> QED
        BY <3>1 DEF History!Next
    <2> QED
      BY <2>1, <2>6, <2>7, <2>8
  <1>10. CASE LogStop
    <2>1. fs' = fs /\ ~HasRead'
      BY <1>10 DEF LogStop, HasRead
    <2>2. History!Stop
      BY <2>1 DEF History!Stop, Durable
    <2> QED
      BY <2>2 DEF History!Next
  <1>11. CASE UNCHANGED logVars
    <2>1. Durable' = Durable /\ items' = items /\ HasRead' = HasRead
      BY <1>11 DEF logVars, place, Durable, HasRead
    <2> QED
      BY <1>0, <1>1, <2>1
  <1> QED
    BY LogSteps, <1>2, <1>3, <1>4, <1>5, <1>6, <1>7, <1>8, <1>9, <1>10, <1>11

\* The two files behave as one history that is replaced in one instant, wherever the
\* device crashes (load, event_log.cpp:138; persist, :242).
THEOREM LogIsOneHistory == LogSpec => HistorySpec
  <1>1. LogInit => History!Init
    <2> SUFFICES ASSUME LogInit
                 PROVE  History!Init
      OBVIOUS
    <2>1. PICK file \in FirstFiles \union {Absent} :
              fs = [p \in Paths |-> IF p = Log THEN file ELSE Absent]
      BY DEF LogInit
    <2>2. fs[Log] = file /\ fs[Tmp] = Absent
      BY <2>1, LogPaths
    <2>3. Durable \in {Texts(Readout(file)), Texts(Readout(Absent))}
      BY <2>2 DEF Durable
    <2>4. ~HasRead
      BY DEF LogInit, HasRead
    <2> QED
      BY <2>3, <2>4 DEF History!Init
  <1>2. LogInv /\ Progress /\ [LogNext]_logVars => [History!Next]_(History!vars)
    BY HistoryStep
  <1> QED
    BY <1>1, <1>2, LogInvHolds, ProgressHolds, PTL DEF LogSpec, HistorySpec, History!Spec
===============================================================================
