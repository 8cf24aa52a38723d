------------------------ MODULE ReleaseMonitorProofs ------------------------
(***************************************************************************)
(* Theorems about ReleaseMonitor, for any checks and any feed: type        *)
(* correctness, and that an advisory is lost only when the check that was  *)
(* to report it is killed (NeverLostSilently), that neither the state file *)
(* nor a report names anything but a quarterly advisory of the feed, and   *)
(* that checks which follow one another report none twice (ReportedOnce).  *)
(***************************************************************************)
EXTENDS ReleaseMonitor, WellFoundedInduction, TLAPS

-----------------------------------------------------------------------------
\* A feed with quarterly entries has a newest one.
LEMMA NewestExists ==
  ASSUME NEW n \in 0 .. Total, Entries(n) # {}
  PROVE  /\ Newest(n) \in Entries(n)
         /\ \A b \in Entries(n) : b <= Newest(n)
  <1> DEFINE T == {Total - a : a \in Entries(n)}
  <1>1. Entries(n) \subseteq 1 .. Total
    BY QuarterlyAssumption DEF Entries
  <1>2. T \subseteq Nat /\ T # {}
    BY <1>1, TotalAssumption
  <1>3. PICK x \in T : \A y \in T : ~(<<y, x>> \in OpToRel(<, Nat))
    <2> HIDE DEF T
    <2> QED
      BY <1>2, NatLessThanWellFounded, WFMin
  <1>4. \A y \in T : ~(y < x)
    BY <1>2, <1>3 DEF OpToRel
  <1>5. PICK a \in Entries(n) : x = Total - a
    OBVIOUS
  <1>6. ASSUME NEW b \in Entries(n) PROVE b <= a
    <2>1. ~(Total - b < Total - a)
      BY <1>4, <1>5
    <2> QED
      BY <2>1, <1>1, TotalAssumption
  <1> QED
    BY <1>6 DEF Newest

-----------------------------------------------------------------------------
(* Type correctness *)

LEMMA EndType ==
  ASSUME TypeOK, NEW c \in Checks, End(c)
  PROVE  /\ at' \in [Checks -> Steps]
         /\ page' \in [Checks -> 0 .. Total]
         /\ newest' \in [Checks -> 0 .. Total]
         /\ is_new' \in [Checks -> BOOLEAN]
  BY TotalAssumption DEF TypeOK, End, Goto, Steps

\* A check that has something new to report knows an advisory.
Knows(c) ==
  /\ at[c] \in {"truncate", "write"} => newest[c] \in Advisories
  /\ is_new[c] => newest[c] \in Advisories

Typed == TypeOK /\ \A c \in Checks : Knows(c)

LEMMA TypedInit == Init => Typed
  <1> SUFFICES ASSUME Init PROVE Typed
    OBVIOUS
  <1>1. is_new \in [Checks -> BOOLEAN] /\ \A c \in Checks : ~is_new[c]
    BY DEF Init
  <1>2. /\ published \in 0 .. Total
        /\ started \in 0 .. MaxChecks
        /\ page \in [Checks -> 0 .. Total]
        /\ newest \in [Checks -> 0 .. Total]
        /\ reports \in [Advisories -> Nat]
    BY TotalAssumption, ChecksAssumption DEF Init
  <1>3. at \in [Checks -> Steps] /\ \A c \in Checks : at[c] = "idle"
    BY DEF Init, Steps
  <1>4. TypeOK
    BY <1>1, <1>2, <1>3 DEF Init, TypeOK
  <1> QED
    BY <1>1, <1>3, <1>4 DEF Typed, Knows

LEMMA TypedNext == Typed /\ [Next]_vars => Typed'
  <1> SUFFICES ASSUME Typed, [Next]_vars PROVE Typed'
    OBVIOUS
  <1> USE DEF Typed
  <1>1. CASE Publish
    <2>1. published' \in 0 .. Total
      BY <1>1, TotalAssumption DEF Publish, TypeOK
    <2>2. TypeOK'
      BY <1>1, <2>1 DEF Publish, TypeOK, memory, ghosts
    <2>3. \A c \in Checks : Knows(c)'
      BY <1>1 DEF Publish, Knows, memory
    <2> QED
      BY <2>2, <2>3
  <1>2. ASSUME NEW c \in Checks, Launch(c) PROVE Typed'
    BY <1>2, ChecksAssumption DEF Launch, Goto, TypeOK, Knows, Steps, memory
  <1>3. ASSUME NEW c \in Checks, Fetch(c) PROVE Typed'
    BY <1>3 DEF Fetch, Goto, TypeOK, Knows, Steps, ghosts
  <1>4. ASSUME NEW c \in Checks, FetchFails(c) \/ ParseRaises(c) PROVE Typed'
    <2>1. TypeOK'
      BY <1>4, EndType DEF FetchFails, ParseRaises, TypeOK, ghosts
    <2>2. \A d \in Checks : Knows(d)'
      BY <1>4 DEF FetchFails, ParseRaises, End, Goto, TypeOK, Knows
    <2> QED
      BY <2>1, <2>2
  <1>5. ASSUME NEW c \in Checks, NoEntries(c) PROVE Typed'
    BY <1>5 DEF NoEntries, Goto, TypeOK, Knows, Steps, memory, ghosts
  <1>6. ASSUME NEW c \in Checks, Read(c) PROVE Typed'
    <2>1. Newest(page[c]) \in Advisories
      BY <1>6, NewestExists, QuarterlyAssumption DEF Read, TypeOK, Entries, Advisories
    <2>2. newest' = [newest EXCEPT ![c] = Newest(page[c])]
      BY <1>6 DEF Read
    <2>3. newest' \in [Checks -> 0 .. Total]
      BY <2>1, <2>2, TotalAssumption DEF TypeOK, Advisories
    <2>4. is_new' \in [Checks -> BOOLEAN]
      BY <1>6 DEF Read, TypeOK
    <2>5. TypeOK'
      BY <1>6, <2>3, <2>4 DEF Read, Goto, TypeOK, Steps, ghosts
    <2>6. \A d \in Checks : Knows(d)'
      BY <1>6, <2>1 DEF Read, Goto, TypeOK, Knows
    <2> QED
      BY <2>5, <2>6
  <1>7. ASSUME NEW c \in Checks, Truncate(c) PROVE Typed'
    BY <1>7 DEF Truncate, Goto, TypeOK, Knows, Steps, memory, ghosts
  <1>8. ASSUME NEW c \in Checks, Write(c) PROVE Typed'
    BY <1>8 DEF Write, Goto, TypeOK, Knows, Steps, memory, ghosts
  <1>9. ASSUME NEW c \in Checks, Report(c) PROVE Typed'
    <2>1. reports' \in [Advisories -> Nat]
      BY <1>9 DEF Report, TypeOK, Knows
    <2>2. TypeOK'
      BY <1>9, <2>1, EndType DEF Report, TypeOK
    <2>3. \A d \in Checks : Knows(d)'
      BY <1>9 DEF Report, End, Goto, TypeOK, Knows
    <2> QED
      BY <2>2, <2>3
  <1>10. ASSUME NEW c \in Checks, Kill(c) PROVE Typed'
    <2>1. dropped' \in SUBSET Advisories
      BY <1>10 DEF Kill, TypeOK, Knows
    <2>2. TypeOK'
      BY <1>10, <2>1, EndType DEF Kill, TypeOK
    <2>3. \A d \in Checks : Knows(d)'
      BY <1>10 DEF Kill, End, Goto, TypeOK, Knows
    <2> QED
      BY <2>2, <2>3
  <1>11. CASE UNCHANGED vars
    BY <1>11 DEF vars, TypeOK, Knows, memory, ghosts
  <1> QED
    BY <1>1, <1>2, <1>3, <1>4, <1>5, <1>6, <1>7, <1>8, <1>9, <1>10, <1>11
    DEF Next, Proceed

\* Every variable of the monitor, of its state file and of the checks keeps its
\* type.
THEOREM TypeCorrect == Spec => []TypeOK
  <1>1. Typed => TypeOK
    BY DEF Typed
  <1> QED
    BY <1>1, TypedInit, TypedNext, PTL DEF Spec

-----------------------------------------------------------------------------
(* Nothing is lost silently *)

Accounted(a) ==
  \/ reports[a] > 0
  \/ a \in dropped
  \/ \E c \in Checks : at[c] = "report" /\ is_new[c] /\ newest[c] = a

\* The advisories that the state file names, or that a check has read there and
\* is going to write again.
Named(a) ==
  \/ state = a
  \/ \E c \in Checks : at[c] \in {"truncate", "write"} /\ ~is_new[c] /\ newest[c] = a

Kept == \A a \in Advisories : Named(a) => Accounted(a)

LEMMA KeptInit == Init => Kept
  BY FileAssumption DEF Init, Kept, Named, Advisories

\* Once accounted for, an advisory stays so: the check that was to report it
\* reports it or is killed.
LEMMA AccountedStays ==
  ASSUME Typed, [Next]_vars, NEW a \in Advisories, Accounted(a)
  PROVE  Accounted(a)'
  <1> USE DEF Typed
  <1>1. CASE Publish \/ UNCHANGED vars
    BY <1>1 DEF Publish, vars, memory, ghosts, Accounted
  <1>2. ASSUME NEW c \in Checks,
               Launch(c) \/ Fetch(c) \/ NoEntries(c) \/ Truncate(c) \/ Write(c)
        PROVE  Accounted(a)'
    BY <1>2
    DEF Launch, Fetch, NoEntries, Truncate, Write, Goto, TypeOK, memory, ghosts, Accounted
  <1>3. ASSUME NEW c \in Checks, Read(c) PROVE Accounted(a)'
    BY <1>3 DEF Read, Goto, TypeOK, ghosts, Accounted
  <1>4. ASSUME NEW c \in Checks, FetchFails(c) \/ ParseRaises(c) PROVE Accounted(a)'
    BY <1>4 DEF FetchFails, ParseRaises, End, Goto, TypeOK, ghosts, Accounted
  <1>5. ASSUME NEW c \in Checks, Report(c) PROVE Accounted(a)'
    <2>1. reports[a] \in Nat
      BY DEF TypeOK
    <2>2. reports'[a] >= reports[a]
      BY <1>5, <2>1 DEF Report, TypeOK, Knows
    <2>3. reports'[a] \in Nat
      BY <1>5, <2>1 DEF Report, TypeOK, Knows
    <2>4. CASE reports[a] > 0
      BY <2>1, <2>2, <2>3, <2>4 DEF Accounted
    <2>5. CASE a \in dropped
      BY <1>5, <2>5 DEF Report, Accounted
    <2>6. ASSUME NEW d \in Checks, at[d] = "report", is_new[d], newest[d] = a
          PROVE  Accounted(a)'
      <3>1. CASE d = c
        <4>1. reports'[a] = reports[a] + 1
          BY <1>5, <2>6, <3>1 DEF Report, TypeOK
        <4> QED
          BY <2>1, <4>1 DEF Accounted
      <3>2. CASE d # c
        BY <1>5, <2>6, <3>2 DEF Report, End, Goto, TypeOK, Accounted
      <3> QED
        BY <3>1, <3>2
    <2> QED
      BY <2>4, <2>5, <2>6 DEF Accounted
  <1>6. ASSUME NEW c \in Checks, Kill(c) PROVE Accounted(a)'
    <2>1. CASE reports[a] > 0 \/ a \in dropped
      BY <1>6, <2>1 DEF Kill, Accounted
    <2>2. ASSUME NEW d \in Checks, at[d] = "report", is_new[d], newest[d] = a
          PROVE  Accounted(a)'
      <3>1. CASE d = c
        BY <1>6, <2>2, <3>1 DEF Kill, Accounted
      <3>2. CASE d # c
        BY <1>6, <2>2, <3>2 DEF Kill, End, Goto, TypeOK, Accounted
      <3> QED
        BY <3>1, <3>2
    <2> QED
      BY <2>1, <2>2 DEF Accounted
  <1> QED
    BY <1>1, <1>2, <1>3, <1>4, <1>5, <1>6 DEF Next, Proceed

LEMMA KeptNext == Typed /\ Kept /\ [Next]_vars => Kept'
  <1> SUFFICES ASSUME Typed, Kept, [Next]_vars,
                      NEW a \in Advisories, Named(a)'
               PROVE  Accounted(a)'
    BY DEF Kept
  <1> USE DEF Typed
  <1>1. CASE Named(a)
    BY <1>1, AccountedStays DEF Kept
  <1>2. CASE Publish \/ UNCHANGED vars
    BY <1>1, <1>2 DEF Publish, vars, memory, ghosts, Named
  <1>3. ASSUME NEW c \in Checks, Launch(c) \/ Fetch(c) \/ NoEntries(c) PROVE Named(a)
    BY <1>3 DEF Launch, Fetch, NoEntries, Goto, TypeOK, memory, Named
  <1>4. ASSUME NEW c \in Checks, FetchFails(c) \/ ParseRaises(c) \/ Report(c) \/ Kill(c)
        PROVE  Named(a)
    BY <1>4 DEF FetchFails, ParseRaises, Report, Kill, End, Goto, TypeOK, Named
  <1>5. ASSUME NEW c \in Checks, Truncate(c) PROVE Named(a)
    <2>1. state' # a
      BY <1>5, FileAssumption DEF Truncate, Advisories
    <2> QED
      BY <1>5, <2>1 DEF Truncate, Goto, TypeOK, memory, Named
  <1>6. ASSUME NEW c \in Checks, Read(c) PROVE Named(a)
    <2>1. is_new'[c] = (state # Newest(page[c])) /\ newest'[c] = Newest(page[c])
      BY <1>6 DEF Read, TypeOK
    <2>2. \A d \in Checks : d # c =>
            at'[d] = at[d] /\ is_new'[d] = is_new[d] /\ newest'[d] = newest[d]
      BY <1>6 DEF Read, Goto, TypeOK
    <2>3. state' = state
      BY <1>6 DEF Read
    <2> QED
      BY <2>1, <2>2, <2>3 DEF Named
  <1>7. ASSUME NEW c \in Checks, Write(c) PROVE Named(a) \/ Accounted(a)'
    <2>1. \A d \in Checks : d # c => at'[d] = at[d]
      BY <1>7 DEF Write, Goto, TypeOK
    <2>2. at[c] = "write" /\ at'[c] = "report" /\ state' = newest[c]
          /\ newest' = newest /\ is_new' = is_new
      BY <1>7 DEF Write, Goto, TypeOK, memory
    <2>3. CASE state' = a
      BY <2>2, <2>3 DEF Named, Accounted
    <2>4. CASE state' # a
      BY <2>1, <2>2, <2>4 DEF Named
    <2> QED
      BY <2>3, <2>4
  <1> QED
    BY <1>1, <1>2, <1>3, <1>4, <1>5, <1>6, <1>7 DEF Next, Proceed

LEMMA KeptSuffices == Typed /\ Kept => NeverLostSilently
  BY DEF Typed, TypeOK, Kept, Named, Accounted, NeverLostSilently, Reported, Pending

\* An advisory the state file names has been reported, is going to be, or its
\* report died with its check, for any number of overlapping checks.
THEOREM NothingLost == Spec => []NeverLostSilently
  BY TypedInit, TypedNext, KeptInit, KeptNext, KeptSuffices, PTL DEF Spec

-----------------------------------------------------------------------------
(* Nothing but quarterly advisories *)

Feed == {a \in Quarterly : a <= published}

\* What the checks hold, the file names and the reports say is in the feed.
Genuine ==
  /\ state \in Advisories => state \in Feed
  /\ Reported \subseteq Feed
  /\ \A c \in Checks :
       /\ page[c] <= published
       /\ at[c] \in {"truncate", "write"} \/ is_new[c] => newest[c] \in Feed

LEMMA GenuineInit == Init => Genuine
  BY FileAssumption DEF Init, Genuine, Reported, Advisories

LEMMA GenuineNext == Typed /\ Genuine /\ [Next]_vars => Genuine'
  <1> SUFFICES ASSUME Typed, Genuine, [Next]_vars PROVE Genuine'
    OBVIOUS
  <1> USE DEF Typed
  <1>1. published' >= published /\ Feed \subseteq Feed'
    <2>1. published' \in Nat /\ published \in Nat /\ published' >= published
      BY TotalAssumption
      DEF TypeOK, Next, Publish, Launch, Fetch, Proceed, FetchFails, ParseRaises, NoEntries,
          Read, Truncate, Write, Report, Kill, vars
    <2>2. ASSUME NEW a \in Feed PROVE a \in Feed'
      <3>1. a \in Quarterly /\ a \in Int /\ a <= published
        BY QuarterlyAssumption, TotalAssumption DEF Feed
      <3>2. a <= published'
        BY <2>1, <3>1
      <3> QED
        BY <3>1, <3>2 DEF Feed
    <2> QED
      BY <2>1, <2>2
  <1>2. CASE Publish \/ UNCHANGED vars
    <2>1. state' = state /\ at' = at /\ page' = page /\ newest' = newest
          /\ is_new' = is_new /\ Reported' = Reported
      BY <1>2 DEF Publish, vars, memory, ghosts, Reported
    <2>2. \A c \in Checks : page'[c] <= published'
      BY <1>1, <2>1, <1>2, TotalAssumption DEF Genuine, TypeOK, Publish, vars
    <2> QED
      BY <1>1, <2>1, <2>2 DEF Genuine
  <1>3. ASSUME NEW c \in Checks, Launch(c) \/ Fetch(c) \/ NoEntries(c) PROVE Genuine'
    <2>1. /\ published' = published /\ state' = state
          /\ newest' = newest /\ is_new' = is_new /\ Reported' = Reported
      BY <1>3 DEF Launch, Fetch, NoEntries, memory, ghosts, Reported
    <2>2. \A d \in Checks : page'[d] <= published'
      BY <1>3, TotalAssumption
      DEF Launch, Fetch, NoEntries, memory, Genuine, TypeOK
    <2>3. \A d \in Checks :
            at'[d] \in {"truncate", "write"} => at[d] \in {"truncate", "write"}
      BY <1>3 DEF Launch, Fetch, NoEntries, Goto, TypeOK
    <2> QED
      BY <1>1, <2>1, <2>2, <2>3 DEF Genuine
  <1>4. ASSUME NEW c \in Checks, FetchFails(c) \/ ParseRaises(c) \/ Report(c) \/ Kill(c)
        PROVE  Genuine'
    <2>1. End(c) /\ published' = published /\ state' = state
      BY <1>4 DEF FetchFails, ParseRaises, Report, Kill
    <2>2. \A d \in Checks :
            /\ page'[d] = IF d = c THEN 0 ELSE page[d]
            /\ at'[d] = IF d = c THEN "idle" ELSE at[d]
            /\ is_new'[d] = IF d = c THEN FALSE ELSE is_new[d]
            /\ newest'[d] = IF d = c THEN 0 ELSE newest[d]
      BY <2>1 DEF End, Goto, TypeOK
    <2>3. Reported' \subseteq Feed
      BY <1>4 DEF FetchFails, ParseRaises, Report, Kill, ghosts, Reported, Genuine, TypeOK
    <2>4. \A d \in Checks : page'[d] <= published'
      <3>1. published \in Nat /\ \A d \in Checks : page[d] <= published
        BY TotalAssumption DEF Genuine, TypeOK
      <3>2. ASSUME NEW d \in Checks PROVE page'[d] <= published
        <4>1. CASE d = c
          <5>1. page'[d] = 0
            BY <2>2, <4>1
          <5> QED
            BY <3>1, <5>1
        <4>2. CASE d # c
          <5>1. page'[d] = page[d]
            BY <2>2, <4>2
          <5> QED
            BY <3>1, <5>1
        <4> QED
          BY <4>1, <4>2
      <3> QED
        BY <2>1, <3>2
    <2> QED
      BY <1>1, <2>1, <2>2, <2>3, <2>4 DEF Genuine
  <1>5. ASSUME NEW c \in Checks, Read(c) PROVE Genuine'
    <2>1. Newest(page[c]) \in Feed
      <3>1. page[c] \in 0 .. Total /\ Entries(page[c]) # {}
        BY <1>5 DEF Read, TypeOK
      <3> DEFINE new == Newest(page[c])
      <3>2. new \in Entries(page[c])
        BY <3>1, NewestExists
      <3> HIDE DEF new
      <3>3. new \in Quarterly /\ new \in Int /\ new <= page[c]
        BY <3>2, QuarterlyAssumption, TotalAssumption DEF Entries
      <3>4. page[c] <= published /\ page[c] \in Int /\ published \in Int
        BY <3>1, TotalAssumption DEF Genuine, TypeOK
      <3>5. new <= published
        BY <3>3, <3>4
      <3> QED
        BY <3>3, <3>5 DEF Feed, new
    <2>2. \A d \in Checks :
            /\ newest'[d] = IF d = c THEN Newest(page[c]) ELSE newest[d]
            /\ d # c => at'[d] = at[d] /\ is_new'[d] = is_new[d]
      BY <1>5 DEF Read, Goto, TypeOK
    <2>3. published' = published /\ state' = state /\ page' = page /\ Reported' = Reported
      BY <1>5 DEF Read, ghosts, Reported
    <2> QED
      BY <1>1, <2>1, <2>2, <2>3 DEF Genuine
  <1>6. ASSUME NEW c \in Checks, Truncate(c) \/ Write(c) PROVE Genuine'
    <2>1. /\ published' = published /\ page' = page
          /\ newest' = newest /\ is_new' = is_new /\ Reported' = Reported
      BY <1>6 DEF Truncate, Write, memory, ghosts, Reported
    <2>2. \A d \in Checks :
            at'[d] \in {"truncate", "write"} => at[d] \in {"truncate", "write"}
      BY <1>6 DEF Truncate, Write, Goto, TypeOK
    <2>3. state' \in Advisories => state' \in Feed
      BY <1>6, FileAssumption DEF Truncate, Write, Genuine, Advisories
    <2> QED
      BY <1>1, <2>1, <2>2, <2>3 DEF Genuine
  <1> QED
    BY <1>2, <1>3, <1>4, <1>5, <1>6 DEF Next, Proceed

LEMMA GenuineSuffices == Genuine => QuarterlyOnly
  BY DEF Genuine, QuarterlyOnly, Feed

\* Neither the state file nor a report names an advisory that is not a quarterly
\* one of the feed.
THEOREM OnlyQuarterly == Spec => []QuarterlyOnly
  BY TypedInit, TypedNext, GenuineInit, GenuineNext, GenuineSuffices, PTL DEF Spec

-----------------------------------------------------------------------------
(* No advisory twice *)

\* What was reported is no newer than what the file names, and what a check is
\* about to report is newer than all of it.
Newer(a) ==
  /\ reports[a] <= 1
  /\ reports[a] > 0 =>
       /\ state # Absent
       /\ state \in Advisories => a <= state
       /\ \A c \in Checks :
            /\ at[c] \in {"truncate", "write"} => a <= newest[c]
            /\ is_new[c] => a < newest[c]

\* What a check that nobody disturbs may rely on.
Relies(c) ==
  /\ at[c] = "parse" /\ state \in Advisories => state <= page[c]
  /\ at[c] \in {"idle", "fetch", "parse"} => ~is_new[c]
  /\ at[c] = "report" /\ is_new[c] => state = newest[c]
  /\ state = Torn /\ at[c] # "idle" => at[c] = "write"

\* One check at a time, and the file is torn only while one writes it.
OneByOne ==
  /\ \A c, d \in Checks : at[c] # "idle" /\ at[d] # "idle" => c = d
  /\ state = Torn => \E c \in Checks : at[c] # "idle"

InTurn ==
  /\ OneByOne
  /\ \A c \in Checks : Relies(c)
  /\ \A a \in Advisories : Newer(a)

LEMMA InTurnInit == Init => InTurn
  <1> SUFFICES ASSUME Init PROVE InTurn
    OBVIOUS
  <1>1. \A c \in Checks : at[c] = "idle" /\ ~is_new[c]
    BY DEF Init
  <1>2. state = Absent /\ state # Torn /\ state \notin Advisories
    BY FileAssumption DEF Init, Advisories
  <1>3. \A a \in Advisories : Newer(a)
    BY DEF Init, Newer
  <1> QED
    BY <1>1, <1>2, <1>3 DEF InTurn, OneByOne, Relies

\* A check that starts while another is at work disturbs it.
LEMMA InTurnLaunch ==
  ASSUME Typed, Genuine, InTurn, NEW c \in Checks, Launch(c), ~disturbed'
  PROVE  InTurn'
  <1>1. /\ at[c] = "idle" /\ at' = [at EXCEPT ![c] = "fetch"]
        /\ \A d \in Checks : at[d] = "idle"
        /\ state' = state /\ page' = page /\ newest' = newest /\ is_new' = is_new
        /\ reports' = reports
    BY DEF Launch, Goto, memory
  <1>2. \A d \in Checks : at'[d] = IF d = c THEN "fetch" ELSE "idle"
    BY <1>1 DEF Typed, TypeOK
  <1>3. state # Torn
    BY <1>1 DEF InTurn, OneByOne
  <1>4. \A a \in Advisories : Newer(a)'
    BY <1>1, <1>2 DEF InTurn, Newer
  <1>5. \A d \in Checks : Relies(d)'
    BY <1>1, <1>2, <1>3 DEF InTurn, Relies
  <1> QED
    BY <1>1, <1>2, <1>3, <1>4, <1>5 DEF InTurn, OneByOne

LEMMA InTurnFetch ==
  ASSUME Typed, Genuine, InTurn, NEW c \in Checks, Fetch(c)
  PROVE  InTurn'
  <1>1. /\ at[c] = "fetch" /\ at' = [at EXCEPT ![c] = "parse"]
        /\ page' = [page EXCEPT ![c] = published]
        /\ state' = state /\ newest' = newest /\ is_new' = is_new /\ reports' = reports
    BY DEF Fetch, Goto, ghosts
  <1>2. \A d \in Checks : at'[d] = IF d = c THEN "parse" ELSE at[d]
    BY <1>1 DEF Typed, TypeOK
  <1>3. \A d \in Checks : page'[d] = IF d = c THEN published ELSE page[d]
    BY <1>1 DEF Typed, TypeOK
  <1>4. state # Torn
    BY <1>1 DEF InTurn, Relies
  <1>5. state \in Advisories => state <= published
    BY DEF Genuine, Feed
  <1>6. \A a \in Advisories : Newer(a)'
    BY <1>1, <1>2 DEF InTurn, Newer
  <1>7. \A d \in Checks : Relies(d)'
    BY <1>1, <1>2, <1>3, <1>4, <1>5 DEF InTurn, Relies
  <1> QED
    BY <1>1, <1>2, <1>4, <1>6, <1>7 DEF InTurn, OneByOne

LEMMA InTurnNoEntries ==
  ASSUME Typed, Genuine, InTurn, NEW c \in Checks, NoEntries(c)
  PROVE  InTurn'
  <1>1. /\ at[c] = "parse" /\ at' = [at EXCEPT ![c] = "report"] /\ ~is_new[c]
        /\ page' = page /\ state' = state /\ newest' = newest /\ is_new' = is_new
        /\ reports' = reports
    BY DEF NoEntries, Goto, memory, ghosts, InTurn, Relies
  <1>2. \A d \in Checks : at'[d] = IF d = c THEN "report" ELSE at[d]
    BY <1>1 DEF Typed, TypeOK
  <1>3. state # Torn
    BY <1>1 DEF InTurn, Relies
  <1>4. \A a \in Advisories : Newer(a)'
    BY <1>1, <1>2 DEF InTurn, Newer
  <1>5. \A d \in Checks : Relies(d)'
    BY <1>1, <1>2, <1>3 DEF InTurn, Relies
  <1> QED
    BY <1>1, <1>2, <1>3, <1>4, <1>5 DEF InTurn, OneByOne

\* The newest entry of the feed is at least as new as the one the file names;
\* where they differ it is newer than all that was reported.
LEMMA InTurnRead ==
  ASSUME Typed, Genuine, InTurn, NEW c \in Checks, Read(c)
  PROVE  InTurn'
  <1> DEFINE new == Newest(page[c])
  <1>1. /\ at[c] = "parse" /\ at' = [at EXCEPT ![c] = "truncate"]
        /\ Entries(page[c]) # {}
        /\ newest' = [newest EXCEPT ![c] = new]
        /\ is_new' = [is_new EXCEPT ![c] = (state # new)]
        /\ page' = page /\ state' = state /\ reports' = reports
    BY DEF Read, Goto, ghosts
  <1>2. \A d \in Checks :
          /\ at'[d] = IF d = c THEN "truncate" ELSE at[d]
          /\ newest'[d] = IF d = c THEN new ELSE newest[d]
          /\ is_new'[d] = IF d = c THEN state # new ELSE is_new[d]
    BY <1>1 DEF Typed, TypeOK
  <1>3. \A d \in Checks : d # c => at[d] = "idle" /\ ~is_new[d]
    BY <1>1 DEF InTurn, OneByOne, Relies
  <1>4. state # Torn /\ (state \in Advisories => state <= page[c])
    BY <1>1 DEF InTurn, Relies
  <1>5. page[c] \in 0 .. Total
    BY DEF Typed, TypeOK
  <1>6. new \in Entries(page[c]) /\ \A b \in Entries(page[c]) : b <= new
    BY <1>1, <1>5, NewestExists
  <1>7. state \in Advisories => state <= new
    BY <1>4, <1>6 DEF Genuine, Feed, Entries
  <1>8. new \in Advisories
    BY <1>6, QuarterlyAssumption DEF Entries, Advisories
  <1>9. state \in Advisories \cup {Absent}
    BY <1>4 DEF Typed, TypeOK
  <1> HIDE DEF new
  <1>10. ASSUME NEW a \in Advisories PROVE Newer(a)'
    <2>1. reports[a] <= 1
      BY DEF InTurn, Newer
    <2>2. ASSUME reports[a] > 0 PROVE state \in Advisories /\ a <= state
      BY <1>9, <2>2 DEF InTurn, Newer
    <2>3. ASSUME reports[a] > 0 PROVE a <= new /\ (state # new => a < new)
      <3>1. a \in Int /\ new \in Int /\ state \in Int /\ a <= state /\ state <= new
        BY <1>7, <1>8, <2>2, <2>3, TotalAssumption DEF Advisories
      <3> QED
        BY <3>1
    <2> QED
      BY <1>1, <1>2, <1>3, <2>1, <2>2, <2>3, FileAssumption DEF Newer, Advisories
  <1>11. \A d \in Checks : Relies(d)'
    BY <1>1, <1>2, <1>3, <1>4 DEF Relies
  <1> QED
    BY <1>1, <1>2, <1>3, <1>4, <1>10, <1>11 DEF InTurn, OneByOne

LEMMA InTurnTruncate ==
  ASSUME Typed, Genuine, InTurn, NEW c \in Checks, Truncate(c)
  PROVE  InTurn'
  <1>1. /\ at[c] = "truncate" /\ at' = [at EXCEPT ![c] = "write"]
        /\ newest' = newest /\ is_new' = is_new /\ page' = page
        /\ state' = Torn /\ reports' = reports
    BY DEF Truncate, Goto, memory, ghosts
  <1>2. \A d \in Checks : at'[d] = IF d = c THEN "write" ELSE at[d]
    BY <1>1 DEF Typed, TypeOK
  <1>3. \A d \in Checks : d # c => at[d] = "idle" /\ ~is_new[d]
    BY <1>1 DEF InTurn, OneByOne, Relies
  <1>4. Torn \notin Advisories /\ Torn # Absent
    BY FileAssumption DEF Advisories
  <1>5. \A a \in Advisories : Newer(a)'
    BY <1>1, <1>2, <1>3, <1>4 DEF InTurn, Newer
  <1>6. \A d \in Checks : Relies(d)'
    BY <1>1, <1>2, <1>3, <1>4 DEF Relies
  <1> QED
    BY <1>1, <1>2, <1>3, <1>5, <1>6 DEF InTurn, OneByOne

LEMMA InTurnWrite ==
  ASSUME Typed, Genuine, InTurn, NEW c \in Checks, Write(c)
  PROVE  InTurn'
  <1>1. /\ at[c] = "write" /\ at' = [at EXCEPT ![c] = "report"]
        /\ newest' = newest /\ is_new' = is_new /\ page' = page
        /\ state' = newest[c] /\ reports' = reports
    BY DEF Write, Goto, memory, ghosts
  <1>2. \A d \in Checks : at'[d] = IF d = c THEN "report" ELSE at[d]
    BY <1>1 DEF Typed, TypeOK
  <1>3. \A d \in Checks : d # c => at[d] = "idle" /\ ~is_new[d]
    BY <1>1 DEF InTurn, OneByOne, Relies
  <1>4. newest[c] \in Advisories
    BY <1>1 DEF Typed, Knows
  <1>5. state' # Torn /\ state' # Absent
    BY <1>1, <1>4, FileAssumption DEF Advisories
  <1>6. \A a \in Advisories : Newer(a)'
    BY <1>1, <1>2, <1>3, <1>5 DEF InTurn, Newer
  <1>7. \A d \in Checks : Relies(d)'
    BY <1>1, <1>2, <1>3, <1>5 DEF Relies
  <1> QED
    BY <1>1, <1>2, <1>3, <1>5, <1>6, <1>7 DEF InTurn, OneByOne

\* What a check reports, nobody has reported, and the file names it by then.
LEMMA InTurnReport ==
  ASSUME Typed, Genuine, InTurn, NEW c \in Checks, Report(c)
  PROVE  InTurn'
  <1>1. /\ at[c] = "report" /\ state' = state /\ End(c)
        /\ reports' = IF is_new[c] THEN [reports EXCEPT ![newest[c]] = @ + 1] ELSE reports
    BY DEF Report
  <1>2. \A d \in Checks : d # c => at[d] = "idle" /\ ~is_new[d]
    BY <1>1 DEF InTurn, OneByOne, Relies
  <1>3. \A d \in Checks : at'[d] = "idle" /\ ~is_new'[d]
    BY <1>1, <1>2 DEF Typed, TypeOK, End, Goto
  <1>4. state # Torn
    BY <1>1 DEF InTurn, Relies
  <1>5. ASSUME NEW a \in Advisories PROVE Newer(a)'
    <2>1. reports[a] \in Nat
      BY DEF Typed, TypeOK
    <2>2. CASE is_new[c] /\ a = newest[c]
      <3>1. state = a
        BY <1>1, <2>2 DEF InTurn, Relies
      <3>2. a \in Int /\ ~(a < a)
        BY TotalAssumption DEF Advisories
      <3>3. reports[a] = 0
        BY <2>1, <2>2, <3>2 DEF InTurn, Newer
      <3>4. reports'[a] = 1
        BY <1>1, <2>2, <3>3 DEF Typed, TypeOK
      <3>5. state' # Absent /\ a <= state'
        BY <1>1, <3>1, <3>2, FileAssumption DEF Advisories
      <3> QED
        BY <1>3, <3>4, <3>5 DEF Newer
    <2>3. CASE ~(is_new[c] /\ a = newest[c])
      <3>1. reports'[a] = reports[a]
        BY <1>1, <2>3 DEF Typed, TypeOK
      <3> QED
        BY <1>1, <1>3, <3>1 DEF InTurn, Newer
    <2> QED
      BY <2>2, <2>3
  <1>6. \A d \in Checks : Relies(d)'
    BY <1>3 DEF Relies
  <1> QED
    BY <1>1, <1>3, <1>4, <1>5, <1>6 DEF InTurn, OneByOne

LEMMA InTurnGivesUp ==
  ASSUME Typed, Genuine, InTurn, NEW c \in Checks, FetchFails(c) \/ ParseRaises(c)
  PROVE  InTurn'
  <1>1. /\ at[c] \in {"fetch", "parse"} /\ state' = state /\ End(c)
        /\ reports' = reports
    BY DEF FetchFails, ParseRaises, ghosts
  <1>2. \A d \in Checks : d # c => at[d] = "idle" /\ ~is_new[d]
    BY <1>1 DEF InTurn, OneByOne, Relies
  <1>3. \A d \in Checks : at'[d] = "idle" /\ ~is_new'[d]
    BY <1>1, <1>2 DEF Typed, TypeOK, End, Goto
  <1>4. state # Torn
    BY <1>1 DEF InTurn, Relies
  <1>5. \A a \in Advisories : Newer(a)'
    BY <1>1, <1>3 DEF InTurn, Newer
  <1>6. \A d \in Checks : Relies(d)'
    BY <1>3 DEF Relies
  <1> QED
    BY <1>1, <1>3, <1>4, <1>5, <1>6 DEF InTurn, OneByOne

LEMMA InTurnNext ==
  Typed /\ Genuine /\ (~disturbed => InTurn) /\ [Next]_vars => (~disturbed => InTurn)'
  <1> SUFFICES ASSUME Typed, Genuine, ~disturbed => InTurn, [Next]_vars, ~disturbed'
               PROVE  InTurn'
    OBVIOUS
  <1>1. ~disturbed
    BY DEF Next, Publish, Launch, Fetch, Proceed, FetchFails, ParseRaises, NoEntries, Read,
           Truncate, Write, Report, Kill, vars, ghosts
  <1>2. CASE Publish \/ UNCHANGED vars
    BY <1>1, <1>2 DEF Publish, vars, memory, ghosts, InTurn, OneByOne, Relies, Newer
  <1>3. ASSUME NEW c \in Checks, Kill(c) PROVE FALSE
    BY <1>3 DEF Kill
  <1> QED
    BY <1>1, <1>2, <1>3, InTurnLaunch, InTurnFetch, InTurnNoEntries, InTurnRead,
       InTurnTruncate, InTurnWrite, InTurnReport, InTurnGivesUp
    DEF Next, Proceed

LEMMA InTurnSuffices == (~disturbed => InTurn) => ReportedOnce
  BY DEF InTurn, Newer, ReportedOnce

\* As long as checks follow one another and none is killed, no advisory is
\* reported twice.
THEOREM NoneTwice == Spec => []ReportedOnce
  BY TypedInit, TypedNext, GenuineInit, GenuineNext, InTurnInit, InTurnNext,
     InTurnSuffices, PTL DEF Spec

=============================================================================
