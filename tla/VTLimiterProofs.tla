-------------------------- MODULE VTLimiterProofs --------------------------
(***************************************************************************)
(* Theorems about the limiter, for every pair of quotas, every length of a *)
(* minute, of a day and of an exchange, and every number of processes and  *)
(* reboots: what the provider sees, and when a lookup is refused.          *)
(***************************************************************************)
EXTENDS VTLimiter, FiniteSetTheorems, SequenceTheorems, TLAPS

-----------------------------------------------------------------------------
(***************************************************************************)
(* The inductive invariant.                                                *)
(***************************************************************************)

Ordered(s, t) ==
    /\ \A i \in DOMAIN s : s[i] <= t
    /\ \A i, j \in DOMAIN s : i <= j => s[i] <= s[j]

\* The requests follow each other: one is sent after the answer of the last.
Sequential ==
    /\ Ordered(sends, time) /\ Ordered(answers, time)
    /\ proc = "sent" => Len(answers) < Len(sends)
    /\ "killed" \notin lost =>
         /\ Len(sends) = Len(answers) + (IF proc = "sent" THEN 1 ELSE 0)
         /\ \A i \in DOMAIN answers : sends[i] <= answers[i]

\* A window knows every answer of the last minute, under a stamp that is not
\* too old on the clock of the current boot.
Remembers(w, given, now, started) ==
    \A i \in DOMAIN given :
        now - given[i] < Minute => i \in DOMAIN w /\ w[i] + started >= given[i]

\* A count of the day knows every answer of the day, which are the last ones.
Counts(d, n, given, today) ==
    \A i \in DOMAIN given :
        given[i] \div Day = today => d = today /\ Len(given) - i + 1 <= n

\* Nothing the provider saw is forgotten, in memory or in the journal.
Remembered ==
    /\ lost = {} =>
         /\ proc # "none" => Remembers(window, answers, time, boot)
         /\ journal = Null => answers = <<>>
         /\ journal # Null => Remembers(journal.window, answers, time, boot)
    /\ lost \subseteq {"midnight"} =>
         /\ proc # "none" => Counts(day, day_count, answers, Today)
         /\ journal = Null => answers = <<>>
         /\ journal # Null => Counts(journal.day, journal.count, answers, Today)

\* Nothing is counted that was not answered.
Stamps(w, given, restarted) ==
    \A n \in DOMAIN w : n \in DOMAIN given /\ (restarted = 0 => w[n] = given[n])

CountsOnly(d, n, given, today) ==
    d = today =>
        /\ n <= Len(given)
        /\ \A i \in DOMAIN given : i > Len(given) - n => given[i] \div Day = today

Earned ==
    /\ reboots = 0 => boot = 0
    /\ Stamps(window, answers, reboots) /\ CountsOnly(day, day_count, answers, Today)
    /\ journal # Null =>
         /\ Stamps(journal.window, answers, reboots)
         /\ CountsOnly(journal.day, journal.count, answers, Today)
         /\ Cardinality(DOMAIN journal.window) <= RequestsPerMinute
         /\ journal.count <= RequestsPerDay /\ journal.day <= Today
    /\ proc = "sent" =>
         /\ Cardinality(DOMAIN window) < RequestsPerMinute
         /\ day_count < RequestsPerDay

LimiterInv == TypeOK /\ Sequential /\ Remembered /\ Earned /\ QuotasKept

-----------------------------------------------------------------------------
(***************************************************************************)
(* Days, windows and counts.                                               *)
(***************************************************************************)
LEMMA DayType == ASSUME NEW t \in Nat PROVE t \div Day \in Nat
<1>1. Day \in Nat \ {0}
  BY LimiterAssumption
<1> QED
  BY <1>1

LEMMA DaysFollow ==
  ASSUME NEW s \in Nat, NEW t \in Nat, s <= t
  PROVE  s \div Day <= t \div Day
<1>1. Day \in Nat \ {0}
  BY LimiterAssumption
<1> DEFINE p == s \div Day
           q == t \div Day
<1>2. /\ p \in Int /\ q \in Int
      /\ Day * p <= s /\ s < Day * p + Day
      /\ Day * q <= t /\ t < Day * q + Day
  BY <1>1
<1> HIDE DEF p, q
<1>3. SUFFICES ASSUME q + 1 <= p PROVE FALSE
  BY <1>2 DEF p, q
<1>4. Day * (q + 1) <= Day * p
  BY <1>1, <1>2, <1>3
<1>5. Day * (q + 1) = Day * q + Day
  BY <1>1, <1>2
<1> QED
  BY <1>1, <1>2, <1>4, <1>5

\* A window is a function from requests to stamps.
LEMMA WindowType ==
  ASSUME NEW w \in Windows
  PROVE  /\ DOMAIN w \subseteq 1 .. MaxSends
         /\ w = [n \in DOMAIN w |-> w[n]]
         /\ \A n \in DOMAIN w : w[n] \in Times
         /\ IsFiniteSet(DOMAIN w)
<1>1. PICK numbers \in SUBSET (1 .. MaxSends) : w \in [numbers -> Times]
  BY DEF Windows
<1>2. DOMAIN w \subseteq 1 .. MaxSends
  BY <1>1
<1>3. IsFiniteSet(1 .. MaxSends)
  BY FS_Interval, LimiterAssumption
<1>4. IsFiniteSet(DOMAIN w)
  BY <1>2, <1>3, FS_Subset
<1> QED
  BY <1>1, <1>4

LEMMA WindowIs ==
  ASSUME NEW w, NEW numbers \in SUBSET (1 .. MaxSends), w \in [numbers -> Times]
  PROVE  w \in Windows
BY DEF Windows

LEMMA EmptyWindow == <<>> \in Windows /\ DOMAIN <<>> = {} /\ Cardinality({}) = 0
<1>1. <<>> \in [{} -> Times]
  OBVIOUS
<1> QED
  BY <1>1, WindowIs, FS_EmptySet

\* What the pruning keeps.
LEMMA Pruned ==
  ASSUME NEW w \in Windows
  PROVE  /\ WithinTheMinute(w) \in Windows
         /\ DOMAIN WithinTheMinute(w) = {n \in DOMAIN w : monotonic - w[n] < Minute}
         /\ DOMAIN WithinTheMinute(w) \subseteq DOMAIN w
         /\ \A n \in DOMAIN WithinTheMinute(w) : WithinTheMinute(w)[n] = w[n]
         /\ Cardinality(DOMAIN WithinTheMinute(w)) <= Cardinality(DOMAIN w)
         /\ Cardinality(DOMAIN WithinTheMinute(w)) \in Nat
         /\ Cardinality(DOMAIN w) \in Nat
<1> DEFINE kept == {n \in DOMAIN w : monotonic - w[n] < Minute}
<1>1. /\ DOMAIN w \subseteq 1 .. MaxSends /\ IsFiniteSet(DOMAIN w)
      /\ \A n \in DOMAIN w : w[n] \in Times
  BY WindowType
<1>2. WithinTheMinute(w) = [n \in kept |-> w[n]]
  BY DEF WithinTheMinute
<1>3. kept \subseteq DOMAIN w
  OBVIOUS
<1> HIDE DEF kept
<1>4. WithinTheMinute(w) \in [kept -> Times] /\ kept \in SUBSET (1 .. MaxSends)
  BY <1>1, <1>2, <1>3
<1>5. WithinTheMinute(w) \in Windows
  BY <1>4, WindowIs
<1>6. /\ Cardinality(kept) <= Cardinality(DOMAIN w)
      /\ Cardinality(kept) \in Nat /\ Cardinality(DOMAIN w) \in Nat
  BY <1>1, <1>3, FS_Subset, FS_CardinalityType
<1>7. DOMAIN WithinTheMinute(w) = kept /\ \A n \in kept : WithinTheMinute(w)[n] = w[n]
  BY <1>2
<1> QED
  BY <1>3, <1>5, <1>6, <1>7 DEF kept

LEMMA Histories ==
  ASSUME TypeOK
  PROVE  /\ time \in Nat /\ boot \in Nat /\ boot <= time /\ monotonic \in Times /\ Today \in Nat
         /\ DOMAIN sends = 1 .. Len(sends) /\ DOMAIN answers = 1 .. Len(answers)
         /\ Len(sends) \in Nat /\ Len(answers) \in Nat
         /\ \A i \in DOMAIN sends : sends[i] \in Nat /\ sends[i] \in Times
         /\ \A i \in DOMAIN answers : answers[i] \in Nat /\ answers[i] \in Times
<1>1. /\ time \in Nat /\ boot \in Nat /\ boot <= time /\ time <= MaxTime /\ Times \subseteq Nat
      /\ sends \in Seq(Times) /\ answers \in Seq(Times)
  BY LimiterAssumption DEF TypeOK, Times
<1>2. monotonic \in Times
  BY <1>1, LimiterAssumption DEF monotonic, Times
<1>3. Today \in Nat
  BY <1>1, DayType DEF Today
<1>4. /\ DOMAIN sends = 1 .. Len(sends) /\ DOMAIN answers = 1 .. Len(answers)
      /\ Len(sends) \in Nat /\ Len(answers) \in Nat
  BY <1>1
<1>5. /\ \A i \in 1 .. Len(sends) : sends[i] \in Times
      /\ \A i \in 1 .. Len(answers) : answers[i] \in Times
  BY <1>1
<1> QED
  BY <1>1, <1>2, <1>3, <1>4, <1>5

\* A window that remembers still does after the pruning; and what it did not
\* invent, it does not invent then.
LEMMA PrunedRemembers ==
  ASSUME TypeOK, NEW w \in Windows, Remembers(w, answers, time, boot)
  PROVE  Remembers(WithinTheMinute(w), answers, time, boot)
<1> SUFFICES ASSUME NEW i \in DOMAIN answers, time - answers[i] < Minute
             PROVE  /\ i \in DOMAIN WithinTheMinute(w)
                    /\ WithinTheMinute(w)[i] + boot >= answers[i]
  BY DEF Remembers
<1>1. i \in DOMAIN w /\ w[i] + boot >= answers[i]
  BY DEF Remembers
<1>2. w[i] \in Nat /\ answers[i] \in Nat /\ time \in Nat /\ boot \in Nat
  <2>1. w[i] \in Times
    BY <1>1, WindowType
  <2> QED
    BY <2>1, Histories, LimiterAssumption DEF Times
<1>3. monotonic - w[i] < Minute
  BY <1>1, <1>2, LimiterAssumption DEF monotonic
<1> QED
  BY <1>1, <1>3, Pruned

LEMMA PrunedStamps ==
  ASSUME NEW w \in Windows, NEW given, NEW restarted, Stamps(w, given, restarted)
  PROVE  Stamps(WithinTheMinute(w), given, restarted)
BY Pruned DEF Stamps

\* Time passes, and the machine is started again.
LEMMA RememberedLater ==
  ASSUME NEW w \in Windows, NEW given \in Seq(Times),
         NEW s \in Nat, NEW t \in Nat, s <= t, NEW b \in Nat, NEW c \in Nat, b <= c,
         Remembers(w, given, s, b)
  PROVE  Remembers(w, given, t, c)
<1> SUFFICES ASSUME NEW i \in DOMAIN given, t - given[i] < Minute
             PROVE  i \in DOMAIN w /\ w[i] + c >= given[i]
  BY DEF Remembers
<1>1. given[i] \in Nat /\ Minute \in Nat
  BY LimiterAssumption DEF Times
<1>2. i \in DOMAIN w /\ w[i] + b >= given[i]
  BY <1>1 DEF Remembers
<1>3. w[i] \in Times
  BY <1>2, WindowType
<1>4. w[i] \in Nat
  BY <1>3, LimiterAssumption DEF Times
<1> QED
  BY <1>1, <1>2, <1>4

LEMMA CountedLater ==
  ASSUME NEW d, NEW n, NEW given \in Seq(Times), NEW s \in Nat, NEW t \in Nat, s <= t,
         \A i \in DOMAIN given : given[i] <= s,
         Counts(d, n, given, s \div Day)
  PROVE  Counts(d, n, given, t \div Day)
<1> SUFFICES ASSUME NEW i \in DOMAIN given, given[i] \div Day = t \div Day
             PROVE  d = t \div Day /\ Len(given) - i + 1 <= n
  BY DEF Counts
<1>1. given[i] \in Nat
  BY LimiterAssumption DEF Times
<1>2. given[i] \div Day <= s \div Day /\ s \div Day <= t \div Day
  BY <1>1, DaysFollow
<1>3. given[i] \div Day \in Nat /\ s \div Day \in Nat /\ t \div Day \in Nat
  BY <1>1, DayType
<1>4. given[i] \div Day = s \div Day /\ s \div Day = t \div Day
  BY <1>2, <1>3
<1> QED
  BY <1>4 DEF Counts

LEMMA CountedOnlyLater ==
  ASSUME NEW d \in Nat, NEW n, NEW given, NEW s \in Nat, NEW t \in Nat, s <= t,
         d <= s \div Day, CountsOnly(d, n, given, s \div Day)
  PROVE  CountsOnly(d, n, given, t \div Day)
<1>1. s \div Day <= t \div Day /\ s \div Day \in Nat /\ t \div Day \in Nat
  BY DaysFollow, DayType
<1>2. d = t \div Day => d = s \div Day
  BY <1>1
<1> QED
  BY <1>2 DEF CountsOnly

\* One answer more.
LEMMA AnswerAdded ==
  ASSUME NEW given \in Seq(Times), NEW t \in Times
  PROVE  /\ DOMAIN Append(given, t) = DOMAIN given \cup {Len(given) + 1}
         /\ Len(given) + 1 \notin DOMAIN given
         /\ \A i \in DOMAIN given : Append(given, t)[i] = given[i] /\ i <= Len(given) /\ i \in Nat
         /\ Append(given, t)[Len(given) + 1] = t
         /\ Len(Append(given, t)) = Len(given) + 1 /\ Len(given) \in Nat
OBVIOUS

LEMMA StampsStay ==
  ASSUME NEW w, NEW given \in Seq(Times), NEW t \in Times, NEW restarted,
         Stamps(w, given, restarted)
  PROVE  Stamps(w, Append(given, t), restarted)
BY AnswerAdded DEF Stamps

LEMMA CountedOnlyStays ==
  ASSUME NEW d, NEW n \in Nat, NEW given \in Seq(Times), NEW t \in Times,
         CountsOnly(d, n, given, t \div Day)
  PROVE  CountsOnly(d, n, Append(given, t), t \div Day)
<1> DEFINE more == Append(given, t)
<1> SUFFICES ASSUME d = t \div Day
             PROVE  /\ n <= Len(more)
                    /\ \A i \in DOMAIN more : i > Len(more) - n => more[i] \div Day = t \div Day
  BY DEF CountsOnly
<1>1. /\ DOMAIN more = DOMAIN given \cup {Len(given) + 1}
      /\ \A i \in DOMAIN given : more[i] = given[i] /\ i \in Nat
      /\ more[Len(given) + 1] = t
      /\ Len(more) = Len(given) + 1 /\ Len(given) \in Nat
  BY AnswerAdded
<1>2. n <= Len(given) /\ \A i \in DOMAIN given : i > Len(given) - n => given[i] \div Day = t \div Day
  BY DEF CountsOnly
<1> HIDE DEF more
<1>3. \A i \in DOMAIN given : i > Len(more) - n => more[i] \div Day = t \div Day
  BY <1>1, <1>2
<1> QED
  BY <1>1, <1>2, <1>3

\* The count of the day, carried over midnight.
LEMMA CountedToday ==
  ASSUME TypeOK, Earned
  PROVE  /\ CountToday \in 0 .. RequestsPerDay
         /\ CountsOnly(Today, CountToday, answers, Today)
         /\ Counts(day, day_count, answers, Today) => Counts(Today, CountToday, answers, Today)
         /\ proc = "sent" => CountToday < RequestsPerDay
<1>1. /\ day_count \in 0 .. RequestsPerDay /\ RequestsPerDay \in Nat \ {0}
      /\ CountsOnly(day, day_count, answers, Today) /\ Len(answers) \in Nat
      /\ DOMAIN answers = 1 .. Len(answers)
      /\ proc = "sent" => day_count < RequestsPerDay
  BY LimiterAssumption, Histories DEF TypeOK, Earned
<1>2. CASE day = Today
  BY <1>1, <1>2 DEF CountToday
<1>3. CASE day # Today
  BY <1>1, <1>3 DEF CountToday, CountsOnly, Counts
<1> QED
  BY <1>2, <1>3

\* What record leaves behind, in memory and in the journal.
LEMMA RecordedFacts ==
  ASSUME TypeOK, Sequential, Earned, proc = "sent"
  PROVE  LET more == Append(answers, time) IN
         /\ RecordedWindow \in Windows
         /\ Cardinality(DOMAIN RecordedWindow) <= RequestsPerMinute
         /\ Stamps(RecordedWindow, more, reboots)
         /\ Remembers(window, answers, time, boot) => Remembers(RecordedWindow, more, time, boot)
<1> DEFINE k == Len(answers) + 1
           more == Append(answers, time)
           added == [n \in DOMAIN window \cup {k} |->
                        IF n \in DOMAIN window THEN window[n] ELSE monotonic]
<1>1. /\ time \in Times /\ monotonic \in Times /\ boot \in Nat /\ time \in Nat /\ boot <= time
      /\ answers \in Seq(Times) /\ Len(answers) \in Nat /\ window \in Windows
      /\ Len(answers) < Len(sends) /\ Len(sends) <= MaxSends /\ Len(sends) \in Nat
      /\ MaxSends \in Nat
  BY Histories, LimiterAssumption DEF TypeOK, Sequential, Times
<1>2. /\ DOMAIN more = DOMAIN answers \cup {k} /\ k \notin DOMAIN answers
      /\ \A i \in DOMAIN answers : more[i] = answers[i]
      /\ more[k] = time
  BY <1>1, AnswerAdded
<1>3. /\ DOMAIN window \subseteq 1 .. MaxSends /\ IsFiniteSet(DOMAIN window)
      /\ \A n \in DOMAIN window : window[n] \in Times
  BY <1>1, WindowType
<1>4. /\ Stamps(window, answers, reboots) /\ Cardinality(DOMAIN window) < RequestsPerMinute
      /\ RequestsPerMinute \in Nat
      /\ reboots = 0 => boot = 0
  BY LimiterAssumption DEF Earned
<1>5. k \in 1 .. MaxSends /\ k \notin DOMAIN window
  BY <1>1, <1>2, <1>4 DEF Stamps
<1>6. /\ DOMAIN added = DOMAIN window \cup {k} /\ added[k] = monotonic
      /\ \A n \in DOMAIN window : added[n] = window[n]
  BY <1>5
<1>7. added \in Windows
  <2>1. added \in [DOMAIN window \cup {k} -> Times]
    BY <1>1, <1>3
  <2>2. DOMAIN window \cup {k} \in SUBSET (1 .. MaxSends)
    BY <1>3, <1>5
  <2> QED
    BY <2>1, <2>2, WindowIs
<1>8. RecordedWindow = WithinTheMinute(added)
  BY DEF RecordedWindow
<1> HIDE DEF added, more, k
<1>9. Cardinality(DOMAIN added) <= RequestsPerMinute
  <2>1. Cardinality(DOMAIN added) = Cardinality(DOMAIN window) + 1
    BY <1>3, <1>5, <1>6, FS_AddElement
  <2>2. Cardinality(DOMAIN window) \in Nat
    BY <1>3, FS_CardinalityType
  <2> QED
    BY <1>4, <2>1, <2>2
<1>10. RecordedWindow \in Windows /\ Cardinality(DOMAIN RecordedWindow) <= RequestsPerMinute
  <2>1. /\ WithinTheMinute(added) \in Windows
        /\ Cardinality(DOMAIN WithinTheMinute(added)) <= Cardinality(DOMAIN added)
        /\ Cardinality(DOMAIN WithinTheMinute(added)) \in Nat
        /\ Cardinality(DOMAIN added) \in Nat
    BY <1>7, Pruned
  <2> QED
    BY <1>4, <1>8, <1>9, <2>1
<1>11. Stamps(RecordedWindow, more, reboots)
  <2>1. reboots = 0 => monotonic = time
    BY <1>1, <1>4 DEF monotonic
  <2>2. Stamps(added, more, reboots)
    BY <1>2, <1>4, <1>6, <2>1 DEF Stamps
  <2> QED
    BY <1>7, <1>8, <2>2, PrunedStamps
<1>12. ASSUME Remembers(window, answers, time, boot)
       PROVE  Remembers(RecordedWindow, more, time, boot)
  <2> SUFFICES ASSUME NEW i \in DOMAIN more, time - more[i] < Minute
               PROVE  /\ i \in DOMAIN RecordedWindow
                      /\ RecordedWindow[i] + boot >= more[i]
    BY DEF Remembers
  <2>1. i \in DOMAIN added /\ added[i] + boot >= more[i]
    <3>1. CASE i \in DOMAIN answers
      BY <1>2, <1>6, <1>12, <3>1 DEF Remembers
    <3>2. CASE i = k
      BY <1>1, <1>2, <1>6, <3>2 DEF monotonic
    <3> QED
      BY <1>2, <3>1, <3>2
  <2>2. added[i] \in Nat /\ more[i] \in Nat
    <3>1. added[i] \in Times
      BY <1>7, <2>1, WindowType
    <3>2. more[i] \in Times
      BY <1>1, <1>2, Histories
    <3> QED
      BY <3>1, <3>2, LimiterAssumption DEF Times
  <2>3. monotonic - added[i] < Minute
    BY <1>1, <2>1, <2>2, LimiterAssumption DEF monotonic
  <2>4. i \in DOMAIN WithinTheMinute(added) /\ WithinTheMinute(added)[i] = added[i]
    BY <1>7, <2>1, <2>3, Pruned
  <2> QED
    BY <1>8, <2>1, <2>4
<1> QED
  BY <1>10, <1>11, <1>12 DEF more

LEMMA RecordedCounts ==
  ASSUME TypeOK, Earned
  PROVE  LET more == Append(answers, time) IN
         /\ CountsOnly(Today, CountToday + 1, more, Today)
         /\ Counts(day, day_count, answers, Today) => Counts(Today, CountToday + 1, more, Today)
<1> DEFINE k == Len(answers) + 1
           more == Append(answers, time)
<1>1. /\ DOMAIN more = DOMAIN answers \cup {k}
      /\ \A i \in DOMAIN answers : more[i] = answers[i] /\ i \in Nat /\ i <= Len(answers)
      /\ more[k] = time /\ Len(more) = k /\ Len(answers) \in Nat
  <2>1. answers \in Seq(Times) /\ time \in Times
    BY DEF TypeOK
  <2> QED
    BY <2>1, AnswerAdded
<1>2. CountToday \in Nat /\ CountsOnly(Today, CountToday, answers, Today)
  BY CountedToday, LimiterAssumption
<1>3. k = Len(answers) + 1 /\ time \div Day = Today
  BY DEF Today
<1> HIDE DEF more, k
<1>4. CountsOnly(Today, CountToday + 1, more, Today)
  <2>1. CountToday <= Len(answers)
        /\ \A i \in DOMAIN answers : i > Len(answers) - CountToday => answers[i] \div Day = Today
    BY <1>2 DEF CountsOnly
  <2>2. CountToday + 1 <= Len(more)
    BY <1>1, <1>2, <1>3, <2>1
  <2>3. \A i \in DOMAIN answers : i > Len(more) - (CountToday + 1) => more[i] \div Day = Today
    BY <1>1, <1>2, <1>3, <2>1
  <2> QED
    BY <1>1, <1>3, <2>2, <2>3 DEF CountsOnly
<1>5. ASSUME Counts(day, day_count, answers, Today)
      PROVE  Counts(Today, CountToday + 1, more, Today)
  <2>1. Counts(Today, CountToday, answers, Today)
    BY <1>5, CountedToday
  <2>2. \A i \in DOMAIN answers : more[i] \div Day = Today => Len(more) - i + 1 <= CountToday + 1
    BY <1>1, <1>2, <1>3, <2>1 DEF Counts
  <2>3. Len(more) - k + 1 <= CountToday + 1
    BY <1>1, <1>2, <1>3
  <2> QED
    BY <1>1, <2>2, <2>3 DEF Counts
<1> QED
  BY <1>4, <1>5 DEF more

-----------------------------------------------------------------------------
(***************************************************************************)
(* Type correctness.                                                       *)
(***************************************************************************)
LEMMA JournalFacts ==
  ASSUME TypeOK, Earned, journal # Null
  PROVE  /\ journal.window \in Windows /\ journal.day \in Nat /\ journal.count \in Nat
         /\ Cardinality(DOMAIN journal.window) <= RequestsPerMinute
         /\ journal.count \in 0 .. RequestsPerDay /\ journal.day <= Today
<1>1. journal \in [day : Nat, count : Nat, window : Windows]
  BY DEF TypeOK
<1> QED
  BY <1>1, LimiterAssumption DEF Earned

LEMMA RecordedJournalType ==
  ASSUME TypeOK, Sequential, Earned, proc = "sent"
  PROVE  /\ RecordedJournal \in [day : Nat, count : Nat, window : Windows]
         /\ RecordedJournal # Null
         /\ RecordedJournal.day = Today /\ RecordedJournal.count = CountToday + 1
         /\ RecordedJournal.window = RecordedWindow
<1>1. RecordedWindow \in Windows /\ Today \in Nat /\ CountToday + 1 \in Nat
  BY RecordedFacts, Histories, CountedToday, LimiterAssumption
<1>2. RecordedJournal \in [day : Nat, count : Nat, window : Windows]
  BY <1>1 DEF RecordedJournal
<1> QED
  BY <1>2, LimiterAssumption DEF RecordedJournal

LEMMA LimiterTyped ==
  ASSUME LimiterInv, [Next]_vars
  PROVE  TypeOK'
<1>1. /\ TypeOK /\ Sequential /\ Earned
      /\ time \in Nat /\ Today \in Nat /\ RequestsPerDay \in Nat /\ RequestsPerMinute \in Nat
      /\ Len(sends) \in Nat /\ Len(answers) \in Nat
  BY Histories, LimiterAssumption DEF LimiterInv
<1>2. <<>> \in Windows /\ DOMAIN <<>> = {} /\ Cardinality({}) <= RequestsPerMinute
  BY <1>1, EmptyWindow
<1>3. CountToday \in 0 .. RequestsPerDay
  BY <1>1, CountedToday
<1>4. CASE StartProcess
  <2>1. window' \in Windows /\ Cardinality(DOMAIN window') <= RequestsPerMinute
    BY <1>1, <1>2, <1>4, JournalFacts DEF StartProcess, RestoredWindow, Usable
  <2>2. day_count' \in 0 .. RequestsPerDay
    BY <1>1, <1>4, JournalFacts DEF StartProcess, RestoredCount, Usable
  <2>3. day' \in 0 .. Today /\ Today' = Today
    BY <1>1, <1>4 DEF StartProcess, clock, Today
  <2> QED
    BY <1>1, <1>4, <2>1, <2>2, <2>3 DEF StartProcess, clock, TypeOK
<1>5. CASE EndProcess
  <2>1. Today' = Today
    BY <1>5 DEF EndProcess, clock, Today
  <2> QED
    BY <1>1, <1>2, <1>5, <2>1 DEF EndProcess, clock, history, TypeOK
<1>6. CASE Send \/ Refuse
  <2>1. /\ Today' = Today /\ day' = Today /\ day_count' = CountToday
        /\ window' = WithinTheMinute(window) /\ UNCHANGED <<time, boot, reboots, journal, answers, lost>>
    BY <1>6 DEF Send, Refuse, Prune, clock, history, Today
  <2>2. window \in Windows /\ Cardinality(DOMAIN window) <= RequestsPerMinute
    BY <1>1 DEF TypeOK
  <2>3. window' \in Windows /\ Cardinality(DOMAIN window') <= RequestsPerMinute
    <3>1. /\ WithinTheMinute(window) \in Windows
          /\ Cardinality(DOMAIN WithinTheMinute(window)) <= Cardinality(DOMAIN window)
          /\ Cardinality(DOMAIN WithinTheMinute(window)) \in Nat
          /\ Cardinality(DOMAIN window) \in Nat
      BY <2>2, Pruned
    <3> QED
      BY <1>1, <2>1, <2>2, <3>1
  <2>4. sends' \in Seq(Times) /\ Len(answers) <= Len(sends') /\ Len(sends') <= MaxSends
    <3>1. sends \in Seq(Times) /\ time \in Times /\ MaxSends \in Nat
      BY <1>1, LimiterAssumption DEF TypeOK
    <3>2. CASE sends' = sends
      BY <1>1, <3>2 DEF TypeOK
    <3>3. CASE sends' = Append(sends, time) /\ Len(sends) < MaxSends
      <4>1. sends' \in Seq(Times) /\ Len(sends') = Len(sends) + 1
        BY <3>1, <3>3, AnswerAdded
      <4> QED
        BY <1>1, <3>1, <3>3, <4>1 DEF TypeOK
    <3> QED
      BY <1>6, <3>2, <3>3 DEF Send, Refuse, history
  <2>5. proc' \in {"idle", "sent"}
    BY <1>6 DEF Send, Refuse
  <2> QED
    BY <1>1, <1>3, <2>1, <2>3, <2>4, <2>5 DEF TypeOK
<1>7. CASE Record
  <2>1. /\ Today' = Today /\ day' = Today /\ day_count' = CountToday + 1 /\ proc = "sent"
        /\ proc' = "idle" /\ window' = RecordedWindow /\ answers' = Append(answers, time)
        /\ UNCHANGED <<time, boot, reboots, sends>>
        /\ journal' \in {journal, RecordedJournal}
        /\ lost' \in {lost, lost \cup {"unwritable"}}
    BY <1>7 DEF Record, clock, Today
  <2>2. RecordedWindow \in Windows /\ Cardinality(DOMAIN RecordedWindow) <= RequestsPerMinute
    BY <1>1, <2>1, RecordedFacts
  <2>3. day_count' \in 0 .. RequestsPerDay
    BY <1>1, <1>3, <2>1, CountedToday
  <2>4. journal' \in [day : Nat, count : Nat, window : Windows] \cup {Null}
    BY <1>1, <2>1, RecordedJournalType DEF TypeOK
  <2>5. answers' \in Seq(Times) /\ Len(answers') = Len(answers) + 1
    BY <1>1, <2>1, AnswerAdded DEF TypeOK
  <2>6. Len(answers') <= Len(sends)
    BY <1>1, <2>1, <2>5 DEF Sequential
  <2> QED
    BY <1>1, <2>1, <2>2, <2>3, <2>4, <2>5, <2>6 DEF TypeOK
<1>8. CASE Killed
  <2>1. /\ Today' = Today /\ day' = day /\ day_count' = 0 /\ proc = "sent" /\ proc' = "none"
        /\ window' = <<>> /\ UNCHANGED <<time, boot, reboots, sends>>
        /\ answers' \in {answers, Append(answers, time)}
        /\ journal' \in {journal, Null, RecordedJournal}
        /\ lost' = lost \cup {"killed"}
    BY <1>8 DEF Killed, clock, Today
  <2>2. journal' \in [day : Nat, count : Nat, window : Windows] \cup {Null}
    BY <1>1, <2>1, RecordedJournalType DEF TypeOK
  <2>3. answers' \in Seq(Times) /\ Len(answers') <= Len(sends)
    <3>1. Append(answers, time) \in Seq(Times) /\ Len(Append(answers, time)) = Len(answers) + 1
      BY <1>1, AnswerAdded DEF TypeOK
    <3>2. Len(answers) < Len(sends)
      BY <1>1, <2>1 DEF Sequential
    <3> QED
      BY <1>1, <2>1, <3>1, <3>2 DEF TypeOK
  <2> QED
    BY <1>1, <1>2, <2>1, <2>2, <2>3 DEF TypeOK
<1>9. CASE Reboot
  <2>1. Today' = Today
    BY <1>9 DEF Reboot, Today
  <2> QED
    BY <1>1, <1>9, <2>1, LimiterAssumption DEF Reboot, limiter, history, TypeOK
<1>10. CASE Tick
  <2>1. time' = time + 1 /\ time' \in Nat /\ time' \in Times /\ boot \in 0 .. time'
    BY <1>1, <1>10, LimiterAssumption DEF Tick, TypeOK, Times
  <2>2. Today <= Today' /\ Today' \in Nat
    BY <1>1, <2>1, DaysFollow, DayType DEF Today
  <2>3. day \in 0 .. Today'
    BY <1>1, <2>2 DEF TypeOK
  <2> QED
    BY <1>1, <1>10, <2>1, <2>3 DEF Tick, limiter, history, TypeOK
<1>11. CASE UNCHANGED vars
  BY <1>1, <1>11 DEF vars, TypeOK, Today
<1> QED
  BY <1>4, <1>5, <1>6, <1>7, <1>8, <1>9, <1>10, <1>11 DEF Next

-----------------------------------------------------------------------------
(***************************************************************************)
(* The order of the requests and of their answers.                         *)
(***************************************************************************)
LEMMA StillOrdered ==
  ASSUME NEW s \in Seq(Times), NEW t \in Nat, NEW u \in Nat, t <= u, Ordered(s, t)
  PROVE  Ordered(s, u)
<1>1. \A i \in DOMAIN s : s[i] \in Nat
  BY LimiterAssumption DEF Times
<1>2. ASSUME NEW i \in DOMAIN s PROVE s[i] <= u
  <2>1. s[i] <= t /\ s[i] \in Nat
    BY <1>1 DEF Ordered
  <2> QED
    BY <2>1
<1> QED
  BY <1>2 DEF Ordered

LEMMA LastOrdered ==
  ASSUME NEW s \in Seq(Times), NEW t \in Times, Ordered(s, t)
  PROVE  Ordered(Append(s, t), t)
<1> DEFINE more == Append(s, t)
<1>1. /\ DOMAIN more = DOMAIN s \cup {Len(s) + 1}
      /\ \A i \in DOMAIN s : more[i] = s[i] /\ i <= Len(s) /\ i \in Nat
      /\ more[Len(s) + 1] = t /\ Len(s) \in Nat /\ t \in Nat
  BY AnswerAdded, LimiterAssumption DEF Times
<1> HIDE DEF more
<1>2. ASSUME NEW i \in DOMAIN more PROVE more[i] <= t
  <2>1. CASE i \in DOMAIN s
    BY <1>1, <2>1 DEF Ordered
  <2>2. CASE i = Len(s) + 1
    BY <1>1, <2>2
  <2> QED
    BY <1>1, <2>1, <2>2
<1>3. ASSUME NEW i \in DOMAIN more, NEW j \in DOMAIN more, i <= j PROVE more[i] <= more[j]
  <2>1. CASE j = Len(s) + 1
    BY <1>1, <1>2, <2>1
  <2>2. CASE i \in DOMAIN s /\ j \in DOMAIN s
    BY <1>1, <1>3, <2>2 DEF Ordered
  <2>3. CASE i = Len(s) + 1 /\ j \in DOMAIN s
    BY <1>1, <1>3, <2>3
  <2> QED
    BY <1>1, <2>1, <2>2, <2>3
<1>4. Ordered(more, t)
  BY <1>2, <1>3 DEF Ordered
<1> QED
  BY <1>4 DEF more

LEMMA SequentialKept ==
  ASSUME LimiterInv, [Next]_vars
  PROVE  Sequential'
<1>1. /\ TypeOK /\ Sequential /\ time \in Nat
      /\ Len(sends) \in Nat /\ Len(answers) \in Nat
      /\ DOMAIN sends = 1 .. Len(sends) /\ DOMAIN answers = 1 .. Len(answers)
      /\ \A i \in DOMAIN sends : sends[i] \in Nat
      /\ \A i \in DOMAIN answers : answers[i] \in Nat
      /\ sends \in Seq(Times) /\ answers \in Seq(Times) /\ time \in Times
  BY Histories DEF LimiterInv, TypeOK
<1>2. CASE /\ UNCHANGED <<sends, answers>> /\ time' \in {time, time + 1}
           /\ proc = "sent" <=> proc' = "sent"
           /\ lost \subseteq lost'
  <2>1. time' \in Nat /\ time <= time'
    BY <1>1, <1>2
  <2>2. Ordered(sends, time') /\ Ordered(answers, time')
    BY <1>1, <2>1, StillOrdered DEF Sequential
  <2> QED
    BY <1>1, <1>2, <2>2 DEF Sequential
<1>3. CASE Send
  <2>1. /\ sends' = Append(sends, time) /\ UNCHANGED <<time, answers, lost>>
        /\ proc = "idle" /\ proc' = "sent"
    BY <1>3 DEF Send, clock
  <2>2. /\ DOMAIN sends' = DOMAIN sends \cup {Len(sends) + 1}
        /\ \A i \in DOMAIN sends : sends'[i] = sends[i] /\ i <= Len(sends) /\ i \in Nat
        /\ sends'[Len(sends) + 1] = time /\ Len(sends') = Len(sends) + 1
    BY <1>1, <2>1, AnswerAdded
  <2>3. Ordered(sends', time)
    BY <1>1, <2>1, LastOrdered DEF Sequential
  <2>5. "killed" \notin lost =>
          /\ Len(sends') = Len(answers) + 1
          /\ \A i \in DOMAIN answers : sends'[i] <= answers[i]
    BY <1>1, <2>1, <2>2 DEF Sequential
  <2>6. Len(answers) < Len(sends')
    BY <1>1, <2>2 DEF TypeOK
  <2> QED
    BY <1>1, <2>1, <2>3, <2>5, <2>6 DEF Sequential
<1>4. CASE Record \/ Killed
  <2>1. /\ UNCHANGED <<time, sends>> /\ proc = "sent" /\ proc' # "sent" /\ lost \subseteq lost'
        /\ \/ answers' = answers /\ "killed" \in lost'
           \/ answers' = Append(answers, time)
    BY <1>4 DEF Record, Killed, clock
  <2>2. CASE answers' = answers /\ "killed" \in lost'
    BY <1>1, <2>1, <2>2 DEF Sequential
  <2>3. CASE answers' = Append(answers, time)
    <3>1. /\ DOMAIN answers' = DOMAIN answers \cup {Len(answers) + 1}
          /\ \A i \in DOMAIN answers : answers'[i] = answers[i] /\ i <= Len(answers) /\ i \in Nat
          /\ answers'[Len(answers) + 1] = time /\ Len(answers') = Len(answers) + 1
      BY <1>1, <2>3, AnswerAdded
    <3>2. Ordered(answers', time)
      BY <1>1, <2>3, LastOrdered DEF Sequential
    <3>3. \A i \in DOMAIN answers' : i \in DOMAIN answers \/ i = Len(answers) + 1
      BY <3>1
    <3>4. "killed" \notin lost =>
            /\ Len(sends) = Len(answers')
            /\ \A i \in DOMAIN answers' : sends[i] <= answers'[i]
      <4> HAVE "killed" \notin lost
      <4>1. Len(sends) = Len(answers) + 1 /\ \A i \in DOMAIN answers : sends[i] <= answers[i]
        BY <1>1, <2>1 DEF Sequential
      <4>2. sends[Len(answers) + 1] <= time
        BY <1>1, <4>1 DEF Sequential, Ordered
      <4> QED
        BY <3>1, <3>3, <4>1, <4>2
    <3>5. "killed" \notin lost' => "killed" \notin lost
      BY <2>1
    <3>6. Ordered(sends, time)
      BY <1>1 DEF Sequential
    <3>7. Len(answers') \in Nat
      BY <1>1, <3>1
    <3>8. Len(answers') = Len(answers') + (IF proc' = "sent" THEN 1 ELSE 0)
      BY <2>1, <3>7
    <3>9. "killed" \notin lost' => Len(sends) = Len(answers') + (IF proc' = "sent" THEN 1 ELSE 0)
      BY <3>4, <3>5, <3>8
    <3> QED
      BY <2>1, <3>2, <3>4, <3>5, <3>6, <3>9 DEF Sequential
  <2> QED
    BY <2>1, <2>2, <2>3
<1> QED
  BY <1>2, <1>3, <1>4 DEF Next, StartProcess, EndProcess, Refuse, Reboot, Tick, clock, history,
     limiter, vars

-----------------------------------------------------------------------------
(***************************************************************************)
(* Nothing is counted that was not answered.                               *)
(***************************************************************************)
LEMMA EarnedKept ==
  ASSUME LimiterInv, [Next]_vars
  PROVE  Earned'
<1>1. /\ TypeOK /\ Sequential /\ Earned /\ TypeOK'
      /\ answers \in Seq(Times) /\ time \in Times /\ time \in Nat /\ Today \in Nat
      /\ window \in Windows /\ day_count \in Nat /\ day \in Nat
      /\ boot \in Nat /\ reboots \in Nat /\ RequestsPerMinute \in Nat
      /\ journal # Null => journal.window \in Windows /\ journal.day \in Nat /\ journal.count \in Nat
  <2>1. TypeOK /\ Sequential /\ Earned
    BY DEF LimiterInv
  <2>2. TypeOK'
    BY LimiterTyped
  <2>3. time \in Nat /\ Today \in Nat /\ boot \in Nat
    BY <2>1, Histories
  <2>4. journal # Null => journal.window \in Windows /\ journal.day \in Nat /\ journal.count \in Nat
    BY <2>1, JournalFacts
  <2>5. /\ answers \in Seq(Times) /\ time \in Times /\ window \in Windows
        /\ day \in 0 .. Today /\ day_count \in 0 .. RequestsPerDay /\ reboots \in 0 .. MaxReboots
    BY <2>1 DEF TypeOK
  <2> QED
    BY <2>1, <2>2, <2>3, <2>4, <2>5, LimiterAssumption
<1>2. Stamps(<<>>, answers, reboots) /\ Stamps(<<>>, Append(answers, time), reboots)
  BY EmptyWindow DEF Stamps
<1>3. /\ Len(answers) \in Nat /\ Len(Append(answers, time)) \in Nat
      /\ \A d : CountsOnly(d, 0, answers, Today) /\ CountsOnly(d, 0, Append(answers, time), Today)
  <2>1. Append(answers, time) \in Seq(Times)
    BY <1>1
  <2>2. /\ Len(answers) \in Nat /\ DOMAIN answers = 1 .. Len(answers)
        /\ Len(Append(answers, time)) \in Nat
        /\ DOMAIN Append(answers, time) = 1 .. Len(Append(answers, time))
    BY <1>1, <2>1
  <2> HIDE DEF CountsOnly
  <2>3. \A d : CountsOnly(d, 0, answers, Today)
    BY <2>2 DEF CountsOnly
  <2>4. \A d : CountsOnly(d, 0, Append(answers, time), Today)
    BY <2>2 DEF CountsOnly
  <2> QED
    BY <2>2, <2>3, <2>4
<1>4. CASE StartProcess
  <2>1. UNCHANGED <<time, boot, reboots, journal, answers>> /\ Today' = Today /\ proc' = "idle"
    BY <1>4 DEF StartProcess, clock, Today
  <2>2. Stamps(window', answers, reboots)
    BY <1>1, <1>2, <1>4 DEF StartProcess, RestoredWindow, Usable, Earned
  <2>3. CountsOnly(day', day_count', answers, Today)
    BY <1>1, <1>3, <1>4 DEF StartProcess, RestoredCount, Usable, Earned
  <2> QED
    BY <1>1, <2>1, <2>2, <2>3 DEF Earned
<1>5. CASE EndProcess
  <2>1. UNCHANGED <<time, boot, reboots, journal, answers, day>> /\ Today' = Today /\ proc' = "none"
        /\ window' = <<>> /\ day_count' = 0
    BY <1>5 DEF EndProcess, clock, history, Today
  <2> QED
    BY <1>1, <1>2, <1>3, <2>1 DEF Earned
<1>6. CASE Send \/ Refuse
  <2>1. /\ UNCHANGED <<time, boot, reboots, journal, answers>> /\ Today' = Today
        /\ window' = WithinTheMinute(window) /\ day' = Today /\ day_count' = CountToday
        /\ proc' = "sent" => Allow
    BY <1>6 DEF Send, Refuse, Prune, clock, history, Today
  <2>2. Stamps(window', answers, reboots)
    BY <1>1, <2>1, PrunedStamps DEF Earned
  <2>3. CountsOnly(day', day_count', answers, Today)
    BY <1>1, <2>1, CountedToday
  <2>4. proc' = "sent" => Cardinality(DOMAIN window') < RequestsPerMinute /\ day_count' < RequestsPerDay
    BY <2>1 DEF Allow
  <2> QED
    BY <1>1, <2>1, <2>2, <2>3, <2>4 DEF Earned
<1>7. CASE Record \/ Killed
  <2> DEFINE more == Append(answers, time)
  <2>1. /\ proc = "sent" /\ proc' # "sent" /\ UNCHANGED <<time, boot, reboots>> /\ Today' = Today
        /\ \/ window' = RecordedWindow /\ day' = Today /\ day_count' = CountToday + 1
              /\ answers' = more
           \/ window' = <<>> /\ day' = day /\ day_count' = 0 /\ answers' \in {answers, more}
        /\ \/ journal' = journal
           \/ journal' = Null
           \/ journal' = RecordedJournal /\ answers' = more
    BY <1>7 DEF Record, Killed, clock, Today
  <2>2. /\ Stamps(RecordedWindow, more, reboots) /\ CountsOnly(Today, CountToday + 1, more, Today)
        /\ Cardinality(DOMAIN RecordedWindow) <= RequestsPerMinute
        /\ CountToday + 1 <= RequestsPerDay
    BY <1>1, <2>1, RecordedFacts, RecordedCounts, CountedToday, LimiterAssumption
  <2>3. Stamps(window', answers', reboots) /\ CountsOnly(day', day_count', answers', Today)
    BY <1>2, <1>3, <2>1, <2>2
  <2>4. ASSUME journal' # Null
        PROVE  /\ Stamps(journal'.window, answers', reboots)
               /\ CountsOnly(journal'.day, journal'.count, answers', Today)
               /\ Cardinality(DOMAIN journal'.window) <= RequestsPerMinute
               /\ journal'.count <= RequestsPerDay /\ journal'.day <= Today
    <3>1. CASE journal' = RecordedJournal /\ answers' = more
      <4>1. /\ journal'.day = Today /\ journal'.count = CountToday + 1
            /\ journal'.window = RecordedWindow
        BY <1>1, <2>1, <3>1, RecordedJournalType
      <4> QED
        BY <1>1, <2>2, <3>1, <4>1
    <3>2. CASE journal' = journal
      <4>1. /\ Stamps(journal.window, answers, reboots)
            /\ CountsOnly(journal.day, journal.count, answers, Today)
            /\ journal.count \in Nat /\ time \div Day = Today
        BY <1>1, <2>4, <3>2 DEF Earned, Today
      <4>2. /\ Stamps(journal.window, more, reboots)
            /\ CountsOnly(journal.day, journal.count, more, Today)
        BY <1>1, <4>1, StampsStay, CountedOnlyStays
      <4> QED
        BY <1>1, <2>1, <2>4, <3>2, <4>1, <4>2 DEF Earned
    <3> QED
      BY <2>1, <2>4, <3>1, <3>2
  <2> QED
    BY <1>1, <2>1, <2>3, <2>4 DEF Earned
<1>8. CASE Reboot
  <2>1. /\ UNCHANGED <<time, window, day, day_count, journal, answers>> /\ Today' = Today
        /\ proc' = "none" /\ reboots' # 0
    BY <1>1, <1>8 DEF Reboot, limiter, history, Today
  <2> QED
    BY <1>1, <2>1 DEF Earned, Stamps
<1>9. CASE Tick
  <2>1. /\ UNCHANGED <<boot, reboots, proc, window, day, day_count, journal, answers>>
        /\ time' = time + 1 /\ time' \in Nat /\ time <= time'
    BY <1>1, <1>9 DEF Tick, limiter, history
  <2>2. Today <= Today' /\ Today' \in Nat
    BY <1>1, <2>1, DaysFollow, DayType DEF Today
  <2>3. CountsOnly(day, day_count, answers, Today')
    BY <1>1, <2>1, CountedOnlyLater DEF Earned, TypeOK, Today
  <2>4. journal # Null => CountsOnly(journal.day, journal.count, answers, Today')
    BY <1>1, <2>1, CountedOnlyLater DEF Earned, Today
  <2> QED
    BY <1>1, <2>1, <2>2, <2>3, <2>4 DEF Earned
<1>10. CASE UNCHANGED vars
  BY <1>1, <1>10 DEF vars, Earned, Today
<1> QED
  BY <1>4, <1>5, <1>6, <1>7, <1>8, <1>9, <1>10 DEF Next

-----------------------------------------------------------------------------
(***************************************************************************)
(* Nothing the provider saw is forgotten.                                  *)
(***************************************************************************)
LEMMA RememberedKept ==
  ASSUME LimiterInv, [Next]_vars
  PROVE  Remembered'
<1>1. /\ TypeOK /\ Sequential /\ Earned /\ Remembered
      /\ answers \in Seq(Times) /\ time \in Times /\ time \in Nat /\ boot \in Nat /\ boot <= time
      /\ window \in Windows
      /\ \A i \in DOMAIN answers : answers[i] <= time
      /\ journal # Null => journal.window \in Windows
  <2>1. TypeOK /\ Sequential /\ Earned /\ Remembered
    BY DEF LimiterInv
  <2>2. time \in Nat /\ boot \in Nat /\ boot <= time
    BY <2>1, Histories
  <2>3. journal # Null => journal.window \in Windows
    BY <2>1, JournalFacts
  <2>4. answers \in Seq(Times) /\ time \in Times /\ window \in Windows
    BY <2>1 DEF TypeOK
  <2>5. \A i \in DOMAIN answers : answers[i] <= time
    BY <2>1 DEF Sequential, Ordered
  <2> QED
    BY <2>1, <2>2, <2>3, <2>4, <2>5
<1>2. CASE StartProcess
  <2>1. /\ UNCHANGED <<time, boot, journal, answers>> /\ Today' = Today /\ proc' = "idle"
        /\ day' = Today /\ window' = RestoredWindow(journal) /\ day_count' = RestoredCount(journal)
        /\ lost' = lost \cup (IF ForgetsYesterday(journal) THEN {"midnight"} ELSE {})
    BY <1>2 DEF StartProcess, clock, Today
  <2>2. ASSUME lost' = {} PROVE Remembers(window', answers, time, boot)
    <3>1. lost = {} /\ ~ForgetsYesterday(journal)
      BY <2>1, <2>2
    <3>2. CASE Usable(journal)
      BY <1>1, <2>1, <3>1, <3>2 DEF Usable, RestoredWindow, Remembered
    <3>3. CASE journal = Null
      BY <1>1, <3>1, <3>3 DEF Remembered, Remembers
    <3>4. CASE journal # Null /\ ~Usable(journal)
      <4>1. DOMAIN WithinTheMinute(journal.window) = {}
        BY <3>1, <3>4 DEF ForgetsYesterday
      <4>2. Remembers(WithinTheMinute(journal.window), answers, time, boot)
        BY <1>1, <3>1, <3>4, PrunedRemembers DEF Remembered
      <4> QED
        BY <4>1, <4>2 DEF Remembers
    <3> QED
      BY <3>2, <3>3, <3>4
  <2>3. ASSUME lost' \subseteq {"midnight"} PROVE Counts(day', day_count', answers, Today)
    <3>1. lost \subseteq {"midnight"}
      BY <2>1, <2>3
    <3>2. CASE Usable(journal)
      BY <1>1, <2>1, <3>1, <3>2 DEF Usable, RestoredCount, Remembered
    <3>3. CASE journal = Null
      BY <1>1, <3>1, <3>3 DEF Remembered, Counts
    <3>4. CASE journal # Null /\ ~Usable(journal)
      BY <1>1, <3>1, <3>4 DEF Remembered, Counts, Usable
    <3> QED
      BY <3>2, <3>3, <3>4
  <2>4. lost \subseteq lost'
    BY <2>1
  <2> QED
    BY <1>1, <2>1, <2>2, <2>3, <2>4 DEF Remembered
<1>3. CASE EndProcess
  <2>1. UNCHANGED <<time, boot, journal, answers, lost>> /\ Today' = Today /\ proc' = "none"
    BY <1>3 DEF EndProcess, clock, history, Today
  <2> QED
    BY <1>1, <2>1 DEF Remembered
<1>4. CASE Send \/ Refuse
  <2>1. /\ UNCHANGED <<time, boot, journal, answers, lost>> /\ Today' = Today
        /\ window' = WithinTheMinute(window) /\ day' = Today /\ day_count' = CountToday
        /\ proc # "none"
    BY <1>4 DEF Send, Refuse, Prune, clock, history, Today
  <2>2. lost = {} => Remembers(window', answers, time, boot)
    BY <1>1, <2>1, PrunedRemembers DEF Remembered
  <2>3. lost \subseteq {"midnight"} => Counts(day', day_count', answers, Today)
    BY <1>1, <2>1, CountedToday DEF Remembered
  <2> QED
    BY <1>1, <2>1, <2>2, <2>3 DEF Remembered
<1>5. CASE Record
  <2>1. /\ UNCHANGED <<time, boot>> /\ Today' = Today /\ proc = "sent"
        /\ window' = RecordedWindow /\ day' = Today /\ day_count' = CountToday + 1
        /\ answers' = Append(answers, time)
        /\ \/ journal' = RecordedJournal /\ lost' = lost
           \/ lost' = lost \cup {"unwritable"}
    BY <1>5 DEF Record, clock, Today
  <2>2. lost' \subseteq {"midnight"} => lost' = lost /\ journal' = RecordedJournal
    BY <2>1
  <2>3. lost = {} => Remembers(RecordedWindow, answers', time, boot)
    BY <1>1, <2>1, RecordedFacts DEF Remembered
  <2>4. lost \subseteq {"midnight"} => Counts(Today, CountToday + 1, answers', Today)
    BY <1>1, <2>1, RecordedCounts DEF Remembered
  <2>5. /\ RecordedJournal # Null /\ RecordedJournal.window = RecordedWindow
        /\ RecordedJournal.day = Today /\ RecordedJournal.count = CountToday + 1
    BY <1>1, <2>1, RecordedJournalType
  <2>6. lost' = {} =>
          /\ Remembers(window', answers', time, boot)
          /\ journal' # Null /\ Remembers(journal'.window, answers', time, boot)
    BY <2>1, <2>2, <2>3, <2>5
  <2>7. lost' \subseteq {"midnight"} =>
          /\ Counts(day', day_count', answers', Today)
          /\ journal' # Null /\ Counts(journal'.day, journal'.count, answers', Today)
    BY <2>1, <2>2, <2>4, <2>5
  <2> QED
    BY <2>1, <2>6, <2>7 DEF Remembered
<1>6. CASE Killed
  <2>1. "killed" \in lost'
    BY <1>6 DEF Killed
  <2> QED
    BY <2>1 DEF Remembered
<1>7. CASE Reboot \/ Tick
  <2>1. /\ UNCHANGED <<proc, window, day, day_count, journal, answers, lost>>
        /\ time' \in Nat /\ time <= time' /\ boot' \in Nat /\ boot <= boot'
    BY <1>1, <1>7 DEF Reboot, Tick, limiter, history
  <2>2. lost = {} =>
          /\ proc # "none" => Remembers(window, answers, time', boot')
          /\ journal # Null => Remembers(journal.window, answers, time', boot')
    BY <1>1, <2>1, RememberedLater DEF Remembered
  <2>3. lost \subseteq {"midnight"} =>
          /\ proc # "none" => Counts(day, day_count, answers, Today')
          /\ journal # Null => Counts(journal.day, journal.count, answers, Today')
    <3>1. proc # "none" /\ Counts(day, day_count, answers, Today)
            => Counts(day, day_count, answers, Today')
      BY <1>1, <2>1, CountedLater DEF Today
    <3>2. journal # Null /\ Counts(journal.day, journal.count, answers, Today)
            => Counts(journal.day, journal.count, answers, Today')
      BY <1>1, <2>1, CountedLater DEF Today
    <3> QED
      BY <1>1, <3>1, <3>2 DEF Remembered
  <2> QED
    BY <1>1, <2>1, <2>2, <2>3 DEF Remembered
<1>8. CASE UNCHANGED vars
  BY <1>1, <1>8 DEF vars, Remembered, Today
<1> QED
  BY <1>2, <1>3, <1>4, <1>5, <1>6, <1>7, <1>8 DEF Next

-----------------------------------------------------------------------------
(***************************************************************************)
(* The quotas.                                                             *)
(***************************************************************************)

\* A request that is allowed is not the first one too many of a minute.
LEMMA SendKeepsRate ==
  ASSUME TypeOK, Sequential, Remembered, Send, lost = {}, AtMostPerMinute
  PROVE  AtMostPerMinute'
<1> DEFINE last == Len(sends) + 1
           first == last - RequestsPerMinute
           kept == DOMAIN WithinTheMinute(window)
<1>1. /\ proc = "idle" /\ Len(answers) = Len(sends) /\ sends' = Append(sends, time)
      /\ sends \in Seq(Times) /\ time \in Times /\ window \in Windows /\ time \in Nat
      /\ Len(sends) \in Nat /\ RequestsPerMinute \in Nat \ {0} /\ Minute \in Nat
      /\ DOMAIN sends = 1 .. Len(sends) /\ DOMAIN answers = 1 .. Len(answers)
      /\ \A i \in DOMAIN sends : sends[i] \in Nat
      /\ \A i \in DOMAIN answers : answers[i] \in Nat /\ sends[i] <= answers[i]
      /\ Cardinality(kept) < RequestsPerMinute
  BY Histories, LimiterAssumption DEF Send, Allow, TypeOK, Sequential
<1>2. /\ DOMAIN sends' = DOMAIN sends \cup {last}
      /\ \A i \in DOMAIN sends : sends'[i] = sends[i]
      /\ sends'[last] = time
  BY <1>1, AnswerAdded
<1>3. Remembers(WithinTheMinute(window), answers, time, boot)
  BY <1>1, PrunedRemembers DEF Remembered
<1>4. IsFiniteSet(kept) /\ Cardinality(kept) \in Nat
  <2>1. WithinTheMinute(window) \in Windows /\ Cardinality(kept) \in Nat
    BY <1>1, Pruned
  <2> QED
    BY <2>1, WindowType
<1> HIDE DEF kept
<1>5. ASSUME last > RequestsPerMinute, time - sends[first] < Minute
      PROVE  FALSE
  <2>1. first \in DOMAIN sends /\ first <= Len(sends) /\ first \in Nat
    BY <1>1, <1>5
  <2>2. \A j \in first .. Len(sends) : j \in kept
    <3> TAKE j \in first .. Len(sends)
    <3>1. j \in DOMAIN sends /\ j \in DOMAIN answers /\ first <= j
      BY <1>1, <2>1
    <3>2. sends[first] <= sends[j] /\ sends[j] <= answers[j]
      BY <1>1, <2>1, <3>1 DEF Sequential, Ordered
    <3>3. time - answers[j] < Minute
      <4>1. sends[first] \in Nat /\ sends[j] \in Nat /\ answers[j] \in Nat
        BY <1>1, <2>1, <3>1
      <4>2. time - sends[first] < Minute
        BY <1>5
      <4> HIDE DEF first
      <4> QED
        BY <1>1, <3>2, <4>1, <4>2
    <3> QED
      BY <1>3, <3>1, <3>3 DEF Remembers, kept
  <2>3. IsFiniteSet(first .. Len(sends)) /\ Cardinality(first .. Len(sends)) = RequestsPerMinute
    <3>1. /\ IsFiniteSet(first .. Len(sends))
          /\ Cardinality(first .. Len(sends)) = Len(sends) - first + 1
      BY <1>1, <2>1, FS_Interval
    <3> QED
      BY <1>1, <3>1
  <2>4. Cardinality(first .. Len(sends)) <= Cardinality(kept)
    BY <1>4, <2>2, FS_Subset
  <2> QED
    BY <1>1, <1>4, <2>3, <2>4
<1>6. ASSUME NEW i \in DOMAIN sends', i > RequestsPerMinute
      PROVE  sends'[i] - sends'[i - RequestsPerMinute] >= Minute
  <2>1. CASE i \in DOMAIN sends
    <3>1. i - RequestsPerMinute \in DOMAIN sends
      BY <1>1, <1>6, <2>1
    <3> QED
      BY <1>2, <1>6, <2>1, <3>1 DEF AtMostPerMinute
  <2>2. CASE i = last
    <3>1. first \in DOMAIN sends /\ i - RequestsPerMinute = first
      BY <1>1, <1>6, <2>2
    <3>2. sends'[i - RequestsPerMinute] = sends[first] /\ sends'[i] = time /\ sends[first] \in Nat
      BY <1>1, <1>2, <2>2, <3>1
    <3>3. ~(time - sends[first] < Minute)
      BY <1>5, <1>6, <2>2
    <3> QED
      BY <1>1, <3>2, <3>3
  <2> QED
    BY <1>2, <2>1, <2>2
<1> QED
  BY <1>6 DEF AtMostPerMinute

\* Nor the first one too many of a day.
DailyQuota ==
    \A i \in DOMAIN sends :
        i > RequestsPerDay => sends[i] \div Day # sends[i - RequestsPerDay] \div Day

LEMMA SendKeepsDay ==
  ASSUME TypeOK, Sequential, Remembered, Send, lost \subseteq {"midnight"}, DailyQuota
  PROVE  DailyQuota'
<1> DEFINE last == Len(sends) + 1
           first == last - RequestsPerDay
<1>1. /\ proc = "idle" /\ Len(answers) = Len(sends) /\ sends' = Append(sends, time)
      /\ sends \in Seq(Times) /\ time \in Times /\ time \in Nat
      /\ Len(sends) \in Nat /\ RequestsPerDay \in Nat \ {0}
      /\ DOMAIN sends = 1 .. Len(sends) /\ DOMAIN answers = 1 .. Len(answers)
      /\ \A i \in DOMAIN sends : sends[i] \in Nat
      /\ \A i \in DOMAIN answers : answers[i] \in Nat /\ sends[i] <= answers[i] /\ answers[i] <= time
      /\ CountToday < RequestsPerDay /\ day_count \in Nat
  BY Histories, LimiterAssumption DEF Send, Allow, TypeOK, Sequential, Ordered
<1>2. /\ DOMAIN sends' = DOMAIN sends \cup {last}
      /\ \A i \in DOMAIN sends : sends'[i] = sends[i]
      /\ sends'[last] = time
  BY <1>1, AnswerAdded
<1>3. Counts(day, day_count, answers, Today)
  BY <1>1 DEF Remembered
<1>4. ASSUME last > RequestsPerDay, sends[first] \div Day = time \div Day
      PROVE  FALSE
  <2>1. first \in DOMAIN sends /\ first \in DOMAIN answers
    BY <1>1, <1>4
  <2>2. /\ sends[first] \div Day <= answers[first] \div Day
        /\ answers[first] \div Day <= time \div Day
        /\ answers[first] \div Day \in Nat /\ time \div Day \in Nat
    BY <1>1, <2>1, DaysFollow, DayType
  <2>3. answers[first] \div Day = Today
    BY <1>4, <2>2 DEF Today
  <2>4. day = Today /\ Len(answers) - first + 1 <= day_count
    BY <1>3, <2>1, <2>3 DEF Counts
  <2>5. CountToday = day_count
    BY <2>4 DEF CountToday
  <2> QED
    BY <1>1, <2>4, <2>5
<1>5. ASSUME NEW i \in DOMAIN sends', i > RequestsPerDay
      PROVE  sends'[i] \div Day # sends'[i - RequestsPerDay] \div Day
  <2>1. CASE i \in DOMAIN sends
    <3>1. i - RequestsPerDay \in DOMAIN sends
      BY <1>1, <1>5, <2>1
    <3> QED
      BY <1>2, <1>5, <2>1, <3>1 DEF DailyQuota
  <2>2. CASE i = last
    <3>1. first \in DOMAIN sends /\ i - RequestsPerDay = first
      BY <1>1, <1>5, <2>2
    <3>2. sends'[i - RequestsPerDay] = sends[first] /\ sends'[i] = time
      BY <1>2, <2>2, <3>1
    <3>3. ~(sends[first] \div Day = time \div Day)
      BY <1>4, <1>5, <2>2
    <3> QED
      BY <3>2, <3>3
  <2> QED
    BY <1>2, <2>1, <2>2
<1> QED
  BY <1>5 DEF DailyQuota

LEMMA QuotasStay ==
  ASSUME LimiterInv, [Next]_vars
  PROVE  QuotasKept'
<1>1. /\ TypeOK /\ Sequential /\ Remembered
      /\ lost = {} => AtMostPerMinute
      /\ lost \subseteq {"midnight"} => DailyQuota
  BY DEF LimiterInv, QuotasKept, RateKept, DayQuotaKept, DailyQuota
<1>2. lost \subseteq lost'
  BY DEF Next, StartProcess, EndProcess, Send, Refuse, Record, Killed, Reboot, Tick, history, vars
<1>3. (sends' = sends) \/ Send
  BY DEF Next, StartProcess, EndProcess, Refuse, Record, Killed, Reboot, Tick, history, vars
<1>4. lost' = {} => AtMostPerMinute'
  <2>1. CASE sends' = sends
    BY <1>1, <1>2, <2>1 DEF AtMostPerMinute
  <2>2. CASE Send
    BY <1>1, <1>2, <2>2, SendKeepsRate
  <2> QED
    BY <1>3, <2>1, <2>2
<1>5. lost' \subseteq {"midnight"} => DailyQuota'
  <2>1. CASE sends' = sends
    BY <1>1, <1>2, <2>1 DEF DailyQuota
  <2>2. CASE Send
    BY <1>1, <1>2, <2>2, SendKeepsDay
  <2> QED
    BY <1>3, <2>1, <2>2
<1> QED
  BY <1>4, <1>5 DEF QuotasKept, RateKept, DayQuotaKept, DailyQuota

-----------------------------------------------------------------------------
(***************************************************************************)
(* The invariant holds in every reachable state.                           *)
(***************************************************************************)
LEMMA LimiterInitially == ASSUME Init PROVE LimiterInv
<1>1. /\ time = 0 /\ boot = 0 /\ reboots = 0 /\ proc = "none" /\ window = <<>> /\ day = 0
      /\ day_count = 0 /\ journal = Null /\ sends = <<>> /\ answers = <<>> /\ lost = {}
  BY DEF Init
<1>2. /\ <<>> \in Windows /\ DOMAIN <<>> = {} /\ Cardinality({}) = 0
      /\ <<>> \in Seq(Times) /\ Len(<<>>) = 0
  BY EmptyWindow
<1>3. 0 \in Times /\ 0 \in 0 .. MaxReboots /\ 0 \in 0 .. RequestsPerDay /\ 0 <= RequestsPerMinute
      /\ 0 <= MaxSends
  BY LimiterAssumption DEF Times
<1>4. 0 \in 0 .. Today
  BY <1>1, DayType DEF Today
<1>5. TypeOK
  BY <1>1, <1>2, <1>3, <1>4 DEF TypeOK
<1>6. Sequential
  BY <1>1, <1>2 DEF Sequential, Ordered
<1>7. Remembered
  BY <1>1 DEF Remembered
<1>8. Earned
  BY <1>1, <1>2 DEF Earned, Stamps, CountsOnly
<1>9. QuotasKept
  BY <1>1, <1>2 DEF QuotasKept, RateKept, AtMostPerMinute, DayQuotaKept
<1> QED
  BY <1>5, <1>6, <1>7, <1>8, <1>9 DEF LimiterInv

\* The invariant of the limiter, its journal and the requests.
THEOREM LimiterInvariant == Spec => []LimiterInv
<1>1. Init => LimiterInv
  BY LimiterInitially
<1>2. LimiterInv /\ [Next]_vars => LimiterInv'
  <2> SUFFICES ASSUME LimiterInv, [Next]_vars PROVE LimiterInv'
    OBVIOUS
  <2>1. TypeOK' /\ Sequential' /\ Remembered' /\ Earned' /\ QuotasKept'
    BY LimiterTyped, SequentialKept, RememberedKept, EarnedKept, QuotasStay
  <2> QED
    BY <2>1 DEF LimiterInv
<1> QED
  BY <1>1, <1>2, PTL DEF Spec

\* The limiter's state, its journal and the histories have their types.
THEOREM LimiterTypes == Spec => []TypeOK
<1>1. LimiterInv => TypeOK
  BY DEF LimiterInv
<1> QED
  BY <1>1, LimiterInvariant, PTL

\* Neither the quota of a minute nor that of a UTC day is exceeded over any
\* sequence of processes, midnights and reboots, as long as the journal was
\* written.
THEOREM QuotasHold == Spec => []QuotasKept
<1>1. LimiterInv => QuotasKept
  BY DEF LimiterInv
<1> QED
  BY <1>1, LimiterInvariant, PTL

\* Of as many requests as the quota, one is old enough to be the first of them.
LEMMA OneIsEarly ==
  ASSUME NEW n \in Nat, NEW q \in Nat \ {0}, NEW S \in SUBSET (1 .. n), Cardinality(S) >= q
  PROVE  q <= n /\ \E i \in S : i <= n - q + 1
<1>1. IsFiniteSet(1 .. n) /\ Cardinality(1 .. n) = n
  BY FS_Interval
<1>2. IsFiniteSet(S) /\ Cardinality(S) <= n /\ Cardinality(S) \in Nat
  BY <1>1, FS_Subset, FS_CardinalityType
<1>3. q <= n
  BY <1>2
<1>4. SUFFICES ASSUME \A i \in S : ~(i <= n - q + 1) PROVE FALSE
  BY <1>3
<1>5. S \subseteq (n - q + 2) .. n
  BY <1>3, <1>4
<1>6. IsFiniteSet((n - q + 2) .. n) /\ Cardinality((n - q + 2) .. n) = q - 1
  <2>1. /\ IsFiniteSet((n - q + 2) .. n)
        /\ Cardinality((n - q + 2) .. n) = IF n - q + 2 > n THEN 0 ELSE n - (n - q + 2) + 1
    BY <1>3, FS_Interval
  <2> QED
    BY <1>3, <2>1
<1>7. Cardinality(S) <= q - 1
  BY <1>5, <1>6, FS_Subset
<1> QED
  BY <1>2, <1>7

\* A lookup is refused only for requests that were answered within the last
\* minute or on this day.
THEOREM RefusalsJustified == Spec => []RefusalsAreJustified
<1>1. ASSUME LimiterInv, proc = "idle", ~Allow, reboots = 0
      PROVE  \/ /\ Len(answers) >= RequestsPerMinute
                /\ time - answers[Len(answers) - RequestsPerMinute + 1] < Minute
             \/ /\ Len(answers) >= RequestsPerDay
                /\ answers[Len(answers) - RequestsPerDay + 1] \div Day = Today
  <2>1. /\ TypeOK /\ Sequential /\ Earned /\ boot = 0 /\ window \in Windows
        /\ Len(answers) \in Nat /\ DOMAIN answers = 1 .. Len(answers) /\ time \in Nat
        /\ \A i \in DOMAIN answers : answers[i] \in Nat
        /\ Minute \in Nat /\ RequestsPerMinute \in Nat \ {0} /\ RequestsPerDay \in Nat \ {0}
    BY <1>1, Histories, LimiterAssumption DEF LimiterInv, Earned, TypeOK
  <2>2. CASE ~(Cardinality(DOMAIN WithinTheMinute(window)) < RequestsPerMinute)
    <3> DEFINE kept == DOMAIN WithinTheMinute(window)
    <3>1. /\ kept \subseteq DOMAIN window /\ Cardinality(kept) \in Nat
          /\ \A n \in kept : monotonic - window[n] < Minute
      BY <2>1, Pruned
    <3>2. \A n \in DOMAIN window : n \in DOMAIN answers /\ window[n] = answers[n]
      BY <1>1, <2>1 DEF Earned, Stamps
    <3>3. Cardinality(kept) >= RequestsPerMinute /\ kept \in SUBSET (1 .. Len(answers))
      BY <2>1, <2>2, <3>1, <3>2
    <3> HIDE DEF kept
    <3>4. RequestsPerMinute <= Len(answers)
          /\ \E n \in kept : n <= Len(answers) - RequestsPerMinute + 1
      BY <2>1, <3>3, OneIsEarly
    <3>5. PICK n \in kept : n <= Len(answers) - RequestsPerMinute + 1
      BY <3>4
    <3> DEFINE i == Len(answers) - RequestsPerMinute + 1
    <3>6. n \in DOMAIN answers /\ i \in DOMAIN answers /\ n <= i
      BY <2>1, <3>1, <3>2, <3>4, <3>5
    <3> HIDE DEF i
    <3>7. answers[n] <= answers[i] /\ answers[n] \in Nat /\ answers[i] \in Nat
      BY <2>1, <3>6 DEF Sequential, Ordered
    <3>8. time - answers[n] < Minute
      BY <2>1, <3>1, <3>2, <3>5 DEF monotonic
    <3>9. time - answers[i] < Minute
      BY <2>1, <3>7, <3>8
    <3> QED
      BY <2>1, <3>4, <3>9 DEF i
  <2>3. CASE ~(CountToday < RequestsPerDay)
    <3> DEFINE i == Len(answers) - RequestsPerDay + 1
    <3>1. day_count \in Nat /\ CountToday \in Nat /\ CountToday <= RequestsPerDay
      BY <2>1, CountedToday, LimiterAssumption DEF TypeOK
    <3>2. CountsOnly(Today, CountToday, answers, Today)
      BY <2>1, CountedToday
    <3>3. CountToday <= Len(answers) /\ CountToday = RequestsPerDay
      BY <2>1, <2>3, <3>1, <3>2 DEF CountsOnly
    <3>4. i \in DOMAIN answers /\ i > Len(answers) - CountToday
      BY <2>1, <3>3
    <3> QED
      BY <2>1, <3>2, <3>3, <3>4 DEF CountsOnly
  <2> QED
    BY <1>1, <2>2, <2>3 DEF Allow
<1>2. LimiterInv => RefusalsAreJustified
  BY <1>1 DEF RefusalsAreJustified
<1> QED
  BY <1>2, LimiterInvariant, PTL
=============================================================================
