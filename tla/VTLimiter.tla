----------------------------- MODULE VTLimiter -----------------------------
(***************************************************************************)
(* The local rate limiter of the VirusTotal adapter (_RateLimiter and      *)
(* VirusTotalAdapter.lookup in src/tools/virustotal.py): a sliding window  *)
(* of monotonic stamps and a count per UTC day, kept in memory by one      *)
(* process and in a journal for the next.  Each email has its own adapter, *)
(* so the journal is loaded once per email; the machine may be rebooted    *)
(* (the monotonic clock then starts again), and the process be killed      *)
(* while a request is under way or while the journal is rewritten.         *)
(* The window is a list of which only the length and the filter are used:  *)
(* here the stamps by the number of the request they were recorded for.    *)
(***************************************************************************)
EXTENDS Integers, Sequences, FiniteSets, SequencesExt

CONSTANTS
    RequestsPerMinute, RequestsPerDay,
    Minute,            \* 60 s, in ticks
    Day,               \* a UTC day, in ticks
    Exchange,          \* the longest exchange, in ticks (phase_timeout_s)
    Null,              \* no usable journal
    MaxTime,           \* bound of the model: ticks
    MaxSends,          \* bound of the model: requests
    MaxReboots         \* bound of the model; the process is killed at most once

Times   == 0..MaxTime
Windows == UNION {[numbers -> Times] : numbers \in SUBSET (1..MaxSends)}

ASSUME LimiterAssumption ==
    /\ RequestsPerMinute \in Nat \ {0} /\ RequestsPerDay \in Nat \ {0}
    /\ Minute \in Nat \ {0} /\ Day \in Nat /\ Minute <= Day
    /\ Exchange \in Nat /\ MaxTime \in Nat /\ MaxSends \in Nat
    /\ MaxReboots \in Nat
    /\ Null \notin [day : Nat, count : Nat, window : Windows]

VARIABLES
    time,              \* real time
    boot, reboots,     \* real time of the last boot; how many there were
    proc,              \* none: no adapter; idle; sent: a request is under way
    window, day, day_count,      \* the limiter of the process
    journal,           \* runs/quota/virustotal.json
    sends, answers,    \* history: when requests were sent, when recorded
    lost               \* history: why the journal may miss a request

vars == <<time, boot, reboots, proc, window, day, day_count, journal, sends,
          answers, lost>>

clock   == <<time, boot, reboots>>
limiter == <<window, day, day_count>>
history == <<sends, answers, lost>>

Today     == time \div Day
monotonic == time - boot

TypeOK ==
    /\ time \in Times /\ boot \in 0..time /\ reboots \in 0..MaxReboots
    /\ proc \in {"none", "idle", "sent"}
    /\ window \in Windows /\ Cardinality(DOMAIN window) <= RequestsPerMinute
    /\ day \in 0..Today /\ day_count \in 0..RequestsPerDay
    /\ journal \in [day : Nat, count : Nat, window : Windows] \cup {Null}
    /\ sends \in Seq(Times) /\ answers \in Seq(Times)
    /\ Len(answers) <= Len(sends) /\ Len(sends) <= MaxSends
    /\ lost \subseteq {"killed", "unwritable", "midnight"}

Init ==
    /\ time = 0 /\ boot = 0 /\ reboots = 0
    /\ proc = "none"
    /\ window = <<>> /\ day = 0 /\ day_count = 0
    /\ journal = Null
    /\ sends = <<>> /\ answers = <<>> /\ lost = {}

(***************************************************************************)
(* The limiter's operations.                                               *)
(***************************************************************************)

\* Faulty variant: a stamp is kept one tick too long.
WithinTheMinuteInclusive(w) ==
    [n \in {m \in DOMAIN w : monotonic - w[m] <= Minute} |-> w[n]]

\* Stamps of an earlier boot may lie in the future: they are kept.
WithinTheMinute(w) ==
    [n \in {m \in DOMAIN w : monotonic - w[m] < Minute} |-> w[n]]

CountToday == IF day = Today THEN day_count ELSE 0

Allow ==
    /\ Cardinality(DOMAIN WithinTheMinute(window)) < RequestsPerMinute
    /\ CountToday < RequestsPerDay

\* _prune, as a side effect of allow.
Prune ==
    /\ window' = WithinTheMinute(window)
    /\ day' = Today /\ day_count' = CountToday

\* The journal of this very day, else an empty limiter.
Usable(j) == IF j = Null THEN FALSE ELSE j.day = Today

\* Faulty variant: only the count of the day is restored.
RestoredWindowForgotten(j) == <<>>

RestoredWindow(j) == IF Usable(j) THEN j.window ELSE <<>>

RestoredCount(j) == IF Usable(j) THEN j.count ELSE 0

\* A journal of yesterday with a stamp that still counts.
ForgetsYesterday(j) ==
    /\ j # Null
    /\ ~Usable(j)
    /\ DOMAIN WithinTheMinute(j.window) # {}

\* __init__ of the adapter of the next email.
StartProcess ==
    /\ proc = "none" /\ proc' = "idle"
    /\ day' = Today
    /\ window' = RestoredWindow(journal)
    /\ day_count' = RestoredCount(journal)
    /\ lost' = lost \cup (IF ForgetsYesterday(journal) THEN {"midnight"} ELSE {})
    /\ UNCHANGED <<clock, journal, sends, answers>>

EndProcess ==
    /\ proc = "idle" /\ proc' = "none"
    /\ window' = <<>> /\ day_count' = 0
    /\ UNCHANGED <<clock, day, journal, history>>

\* A lookup whose gates are open asks the provider.
Send ==
    /\ proc = "idle" /\ proc' = "sent"
    /\ Allow /\ Prune
    /\ Len(sends) < MaxSends
    /\ sends' = Append(sends, time)
    /\ UNCHANGED <<clock, journal, answers, lost>>

\* unavailable / rate_limited, or too little time left for a request that
\* was allowed: no request, no wait.
Refuse ==
    /\ proc = "idle"
    /\ Prune
    /\ UNCHANGED <<clock, proc, journal, history>>

\* record: the stamp is that of the answer, which may be of the next day.
RecordedWindow ==
    WithinTheMinute([n \in DOMAIN window \cup {Len(answers) + 1} |->
                        IF n \in DOMAIN window THEN window[n] ELSE monotonic])

RecordedJournal ==
    [day |-> Today, count |-> CountToday + 1, window |-> RecordedWindow]

\* An answer, an HTTP error or a transport error: each is one request.
Record ==
    /\ proc = "sent" /\ proc' = "idle"
    /\ window' = RecordedWindow
    /\ day' = Today /\ day_count' = CountToday + 1
    /\ answers' = Append(answers, time)
    /\ \/ journal' = RecordedJournal /\ UNCHANGED lost
       \/ UNCHANGED journal /\ lost' = lost \cup {"unwritable"}
    /\ UNCHANGED <<clock, sends>>

\* Killed with a request under way: it is not recorded, or the journal is
\* left truncated, or the journal was just complete.
Killed ==
    /\ proc = "sent" /\ proc' = "none"
    /\ "killed" \notin lost
    /\ \/ journal' \in {journal, Null} /\ UNCHANGED answers
       \/ journal' = RecordedJournal /\ answers' = Append(answers, time)
    /\ window' = <<>> /\ day_count' = 0
    /\ lost' = lost \cup {"killed"}
    /\ UNCHANGED <<clock, day, sends>>

Reboot ==
    /\ proc = "none" /\ reboots < MaxReboots
    /\ boot' = time /\ reboots' = reboots + 1
    /\ UNCHANGED <<time, proc, limiter, journal, history>>

\* An exchange is cut at its timeout.
Tick ==
    /\ time < MaxTime /\ time' = time + 1
    /\ proc = "sent" => time - Last(sends) < Exchange
    /\ UNCHANGED <<boot, reboots, proc, limiter, journal, history>>

Next ==
    \/ StartProcess \/ EndProcess
    \/ Send \/ Refuse \/ Record
    \/ Killed \/ Reboot \/ Tick

Spec == Init /\ [][Next]_vars

-----------------------------------------------------------------------------
(***************************************************************************)
(* Properties.                                                             *)
(***************************************************************************)

\* No RequestsPerMinute + 1 requests are sent within a minute.
AtMostPerMinute ==
    \A i \in DOMAIN sends :
        i > RequestsPerMinute => sends[i] - sends[i - RequestsPerMinute] >= Minute

\* The provider sees at most RequestsPerMinute requests in any minute, also
\* across processes, and across a reboot although the monotonic stamps of the
\* journal are then compared with another clock: as long as every request
\* found its way into the journal that the next process loads.
RateKept == lost = {} => AtMostPerMinute

\* The provider sees at most RequestsPerDay requests on a UTC day, also when
\* a request is sent before midnight and answered after it.
DayQuotaKept ==
    lost \subseteq {"midnight"} =>
        \A i \in DOMAIN sends :
            i > RequestsPerDay =>
                sends[i] \div Day # sends[i - RequestsPerDay] \div Day

\* Both quotas of the provider hold over every sequence of processes.
QuotasKept == RateKept /\ DayQuotaKept

\* The limiter never refuses out of caution alone: without a reboot, a
\* lookup is refused only when a full budget was answered within the last
\* minute or on this day.  (A reboot may leave stamps of the future behind.)
RefusalsAreJustified ==
    proc = "idle" /\ ~Allow /\ reboots = 0 =>
        \/ /\ Len(answers) >= RequestsPerMinute
           /\ time - answers[Len(answers) - RequestsPerMinute + 1] < Minute
        \/ /\ Len(answers) >= RequestsPerDay
           /\ answers[Len(answers) - RequestsPerDay + 1] \div Day = Today

(***************************************************************************)
(* src/tools/virustotal.py, head comment: the quotas are kept in a journal *)
(* "so process restarts do not forget the budget".  They do when midnight  *)
(* UTC lies between the last request of one process and the next process.  *)
(***************************************************************************)
RestartsKeepTheBudget == lost \subseteq {"midnight"} => AtMostPerMinute
=============================================================================
