--------------------------- MODULE ReleaseMonitor ---------------------------
(***************************************************************************)
(* rag/ingestion/patch_release_monitor.py: every check fetches Oracle's    *)
(* feed of advisories, compares its newest quarterly one with the one the  *)
(* state file names, rewrites the file and reports what is new.  Checks    *)
(* may overlap and be killed at any step.  An advisory is named by its     *)
(* place in the order of publication.                                      *)
(***************************************************************************)
EXTENDS Integers, FiniteSets

CONSTANTS
  Checks,    \* processes
  Total,     \* advisories that will be published
  Quarterly, \* those whose title is that of a quarterly one
  Absent,    \* there is no state file
  Torn,      \* it is empty: write_text() has opened it
  MaxChecks  \* bound: checks that are started

ASSUME TotalAssumption == Total \in Nat
ASSUME QuarterlyAssumption == Quarterly \subseteq 1 .. Total
ASSUME FileAssumption == Absent # Torn /\ {Absent, Torn} \cap (1 .. Total) = {}
ASSUME ChecksAssumption == MaxChecks \in Nat

VARIABLES
  published, \* advisories in the feed
  state,     \* last_seen_guid in the state file
  at,        \* what each check does next
  page,      \* the feed each check has fetched: advisories in it
  newest,    \* newest.guid
  is_new,
  reports,   \* how often each advisory has been reported as new
  dropped,   \* those whose report died with its check
  started,
  disturbed  \* a check was killed, or two overlapped

memory == <<page, newest, is_new>>
ghosts == <<reports, dropped, disturbed>>
vars   == <<published, state, at, memory, ghosts, started>>

Advisories == 1 .. Total

Steps == {"idle", "fetch", "parse", "truncate", "write", "report"}

Init ==
  /\ published = 0
  /\ state = Absent
  /\ at = [c \in Checks |-> "idle"]
  /\ page = [c \in Checks |-> 0]
  /\ newest = [c \in Checks |-> 0]
  /\ is_new = [c \in Checks |-> FALSE]
  /\ reports = [a \in Advisories |-> 0]
  /\ dropped = {}
  /\ started = 0
  /\ disturbed = FALSE

Publish ==
  /\ published < Total
  /\ published' = published + 1
  /\ UNCHANGED <<state, at, memory, ghosts, started>>

Goto(c, step) == at' = [at EXCEPT ![c] = step]

Launch(c) ==
  /\ at[c] = "idle"
  /\ started < MaxChecks
  /\ started' = started + 1
  /\ Goto(c, "fetch")
  /\ disturbed' = (disturbed \/ \E d \in Checks : at[d] # "idle")
  /\ UNCHANGED <<published, state, memory, reports, dropped>>

\* The process is over; what it knew is forgotten.
End(c) ==
  /\ Goto(c, "idle")
  /\ page' = [page EXCEPT ![c] = 0]
  /\ newest' = [newest EXCEPT ![c] = 0]
  /\ is_new' = [is_new EXCEPT ![c] = FALSE]

\* urlopen() returns the feed.
Fetch(c) ==
  /\ at[c] = "fetch"
  /\ page' = [page EXCEPT ![c] = published]
  /\ Goto(c, "parse")
  /\ UNCHANGED <<published, state, newest, is_new, ghosts, started>>

\* Bug: urlopen() has no timeout.
FetchFailsNever(c) ==
  /\ FALSE
  /\ UNCHANGED vars

\* FeedFetchError, after the timeout at the latest: exit status 1.
FetchFails(c) ==
  /\ at[c] = "fetch"
  /\ End(c)
  /\ UNCHANGED <<published, state, ghosts, started>>

\* Bug: every advisory with "Critical" and "Patch Update" in its title is taken.
EntriesOfAnyKind(n) == 1 .. n

\* parse_quarterly_cpu_entries(): the first one is the newest.
Entries(n) == {a \in Quarterly : a <= n}

Newest(n) == CHOOSE a \in Entries(n) : \A b \in Entries(n) : b <= a

\* The FeedFetchError of a text that does not parse is not caught.
ParseRaises(c) ==
  /\ at[c] = "parse"
  /\ End(c)
  /\ UNCHANGED <<published, state, ghosts, started>>

\* return None, []: the file is left alone and nothing is new.
NoEntries(c) ==
  /\ at[c] = "parse"
  /\ Entries(page[c]) = {}
  /\ Goto(c, "report")
  /\ UNCHANGED <<published, state, memory, ghosts, started>>

\* Bug: a file that does not parse is taken for one that names the newest.
ReadTornAsSeen(c) ==
  /\ at[c] = "parse"
  /\ Entries(page[c]) # {}
  /\ newest' = [newest EXCEPT ![c] = Newest(page[c])]
  /\ is_new' = [is_new EXCEPT ![c] = state # Newest(page[c]) /\ state # Torn]
  /\ Goto(c, "truncate")
  /\ UNCHANGED <<published, state, page, ghosts, started>>

\* _read_last_seen_guid(): no file, or one that does not parse, is None.
Read(c) ==
  /\ at[c] = "parse"
  /\ Entries(page[c]) # {}
  /\ newest' = [newest EXCEPT ![c] = Newest(page[c])]
  /\ is_new' = [is_new EXCEPT ![c] = (state # Newest(page[c]))]
  /\ Goto(c, "truncate")
  /\ UNCHANGED <<published, state, page, ghosts, started>>

\* write_text() opens the file ...
Truncate(c) ==
  /\ at[c] = "truncate"
  /\ state' = Torn
  /\ Goto(c, "write")
  /\ UNCHANGED <<published, memory, ghosts, started>>

\* Bug: the guid is written only when there was one before.
WriteIfKnown(c) ==
  /\ at[c] = "write"
  /\ state' = IF is_new[c] THEN state ELSE newest[c]
  /\ Goto(c, "report")
  /\ UNCHANGED <<published, memory, ghosts, started>>

\* Bug: the guid is taken from an item that has none (0: an empty text).
WriteNoGuid(c) ==
  /\ at[c] = "write"
  /\ state' = 0
  /\ Goto(c, "report")
  /\ UNCHANGED <<published, memory, ghosts, started>>

\* ... and writes it.
Write(c) ==
  /\ at[c] = "write"
  /\ state' = newest[c]
  /\ Goto(c, "report")
  /\ UNCHANGED <<published, memory, ghosts, started>>

\* print().
Report(c) ==
  /\ at[c] = "report"
  /\ reports' = IF is_new[c] THEN [reports EXCEPT ![newest[c]] = @ + 1] ELSE reports
  /\ End(c)
  /\ UNCHANGED <<published, state, dropped, started, disturbed>>

\* The process is killed, or the file system or its output raises.
Kill(c) ==
  /\ at[c] # "idle"
  /\ dropped' = IF at[c] = "report" /\ is_new[c] THEN dropped \cup {newest[c]} ELSE dropped
  /\ disturbed' = TRUE
  /\ End(c)
  /\ UNCHANGED <<published, state, reports, started>>

\* What a check does by itself.
Proceed(c) ==
  \/ FetchFails(c) \/ ParseRaises(c) \/ NoEntries(c) \/ Read(c)
  \/ Truncate(c) \/ Write(c) \/ Report(c)

Next ==
  \/ Publish
  \/ \E c \in Checks : Launch(c) \/ Fetch(c) \/ Proceed(c) \/ Kill(c)

Spec == Init /\ [][Next]_vars

FairSpec == Spec /\ \A c \in Checks : WF_vars(Proceed(c))

-----------------------------------------------------------------------------
TypeOK ==
  /\ published \in 0 .. Total
  /\ state \in Advisories \cup {Absent, Torn}
  /\ at \in [Checks -> Steps]
  /\ page \in [Checks -> 0 .. Total]
  /\ newest \in [Checks -> 0 .. Total]
  /\ is_new \in [Checks -> BOOLEAN]
  /\ reports \in [Advisories -> Nat]
  /\ dropped \in SUBSET Advisories
  /\ started \in 0 .. MaxChecks
  /\ disturbed \in BOOLEAN

\* The advisories that checks are about to report as new.
Pending == {newest[c] : c \in {d \in Checks : at[d] = "report" /\ is_new[d]}}

Reported == {a \in Advisories : reports[a] > 0}

\* An advisory that the state file names, and that no later check will take for
\* new, has been reported, is about to be, or its check was killed between
\* line 129 and line 149: whatever checks overlap, and whatever torn file they
\* find, there is no other way to lose one.
NeverLostSilently ==
  state \in Advisories => state \in Reported \cup Pending \cup dropped

\* "This module only ever matches the first kind" (lines 17-29): neither the
\* file nor a report names an advisory that is not a quarterly one in the feed.
QuarterlyOnly ==
  ({state} \cap Advisories) \cup Reported \subseteq {a \in Quarterly : a <= published}

\* "No new quarterly CPU advisory since the last check": as long as checks follow
\* one another and none is killed, no advisory is reported twice.
ReportedOnce == ~disturbed => \A a \in Advisories : reports[a] <= 1

\* A check comes to an end, also when Oracle's server never answers
\* (timeout_seconds, line 67).
ChecksEnd == \A c \in Checks : at[c] # "idle" ~> at[c] = "idle"

=============================================================================
