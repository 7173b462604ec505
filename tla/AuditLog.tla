------------------------------ MODULE AuditLog ------------------------------
(***************************************************************************)
(* AuditLog (internal/audit/audit_log.go): a hash-chained sequence of      *)
(* events in memory, written through to the audit_events table of SqlStore *)
(* and rebuilt from it when the broker starts.  A write that fails is      *)
(* logged and forgotten; the table's primary key is the event ID, and rows *)
(* come back in the order of the IDs as text.  A client reads the log page *)
(* by page while events are appended.                                      *)
(*                                                                         *)
(* A hash is the number of the Record call that computed it, 0 the genesis *)
(* value: SHA-256 over the fields and the clock makes a different one for  *)
(* each.  Of the fields only the event type is kept, for Query's filters.  *)
(***************************************************************************)
EXTENDS Integers, Sequences, FiniteSets, SequencesExt

CONSTANTS
  EventTypes,
  Wanted,        \* the event type the reading client filters for
  IdWidth,       \* digits an ID is padded to; 6 in the code
  PageLimits,    \* limits the client asks for, 0 if it does not
  DefaultLimit,  \* 100
  MaxLimit,      \* 1000
  DiskFaults,    \* whether an insert may fail
  MaxEvents      \* bound: Record calls

ASSUME AuditAssumption ==
  /\ IdWidth \in Nat \ {0} /\ MaxEvents \in Nat
  /\ PageLimits \subseteq Int /\ DefaultLimit \in Nat \ {0} /\ MaxLimit \in Nat \ {0}
  /\ DiskFaults \in BOOLEAN

VARIABLES
  events, prevHash, counter,   \* the AuditLog
  table,     \* rows of audit_events
  db,        \* whether the database is open
  drawn,     \* history: Record calls so far, over all runs of the broker
  seen, at   \* the client: what it has read, and where it reads on

logVars == <<events, prevHash, counter>>
reader == <<seen, at>>
vars == <<logVars, table, db, drawn, reader>>

Genesis == 0

Event(id, type, hash, prev) == [id |-> id, type |-> type, hash |-> hash, prev |-> prev]

Init ==
  /\ events = << >> /\ prevHash = Genesis /\ counter = 0
  /\ table = {}
  /\ db = TRUE
  /\ drawn = 0
  /\ seen = << >> /\ at = 0
-----------------------------------------------------------------------------
\* The digits of an ID, evt-%06d: as many as it needs, padded to IdWidth.
Length(n) ==
  CHOOSE w \in IdWidth..(IdWidth + n) :
    n < 10^w /\ \A v \in IdWidth..(w - 1) : ~(n < 10^v)

\* The order of the IDs as text: numbers of one length in their own order, and
\* a longer one by its leading digits.
TextBefore(m, n) ==
  LET k == Length(m)
      l == Length(n)
  IN  \/ k = l /\ m < n
      \/ k < l /\ m * 10^(l - k) <= n
      \/ k > l /\ m < n * 10^(k - l)

\* A mutant of LoadAllAuditEvents: newest first.
NewestFirst ==
  LET After(e) == {f \in table : TextBefore(e.id, f.id)}
  IN  [i \in 1..Cardinality(table) |->
         CHOOSE e \in table : Cardinality(After(e)) = i - 1]

\* ORDER BY id ASC.
LoadAllAuditEvents ==
  LET Before(e) == {f \in table : TextBefore(f.id, e.id)}
  IN  [i \in 1..Cardinality(table) |->
         CHOOSE e \in table : Cardinality(Before(e)) = i - 1]
-----------------------------------------------------------------------------
\* A mutant of SaveAuditEvent: a queue in front of it that may drop rows.
SaveOrDrop(e) == UNCHANGED table \/ (db /\ table' = table \cup {e})

\* An insert fails on a duplicate ID, on a closed database, or on its own;
\* Record does not care which.
SaveAuditEvent(e) ==
  \/ /\ db /\ \A row \in table : row.id # e.id
     /\ table' = table \cup {e}
  \/ /\ DiskFaults \/ ~db \/ \E row \in table : row.id = e.id
     /\ UNCHANGED table

Record(type) ==
  LET e == Event(counter + 1, type, drawn + 1, prevHash) IN
  /\ drawn < MaxEvents
  /\ drawn' = drawn + 1
  /\ counter' = e.id
  /\ prevHash' = e.hash
  /\ events' = Append(events, e)
  /\ SaveAuditEvent(e)
  /\ UNCHANGED <<db, reader>>

Least(m, n) == IF m < n THEN m ELSE n

\* Query: the events that match, from an offset, up to a limit.
Hits(log) == {i \in 1..Len(log) : log[i].type = Wanted}

Matching(log) ==
  LET Rank(i) == Cardinality({j \in Hits(log) : j <= i})
  IN  [k \in 1..Cardinality(Hits(log)) |-> log[CHOOSE i \in Hits(log) : Rank(i) = k]]

Capped(limit) ==
  LET asked == IF limit <= 0 THEN DefaultLimit ELSE limit
  IN  IF asked > MaxLimit THEN MaxLimit ELSE asked

\* The limit AuditHdl reports with the page.
Reported(limit) == IF limit <= 0 THEN DefaultLimit ELSE limit

\* A mutant of Page: a list one too short.
ShortPage(matched, offset, limit) ==
  SubSeq(matched, offset + 1, Least(offset + Capped(limit) - 1, Len(matched)))

Page(matched, offset, limit) ==
  SubSeq(matched, offset + 1, Least(offset + Capped(limit), Len(matched)))

\* The client reads a page and moves on by the limit it is told.
Query(limit) ==
  LET matched == Matching(events) IN
  /\ at < Len(matched)
  /\ seen' = seen \o Page(matched, at, limit)
  /\ at' = Least(at + Reported(limit), Len(matched))
  /\ UNCHANGED <<logVars, table, db, drawn>>

\* SqlStore.Close, with or without Record calls still to come.
Close ==
  /\ db
  /\ db' = FALSE
  /\ UNCHANGED <<logVars, table, drawn, reader>>

\* A shutdown that cut requests off cut the client off too: it starts over.
StartOver == IF db THEN UNCHANGED reader ELSE seen' = << >> /\ at' = 0

\* Mutants of NewAuditLogWithEvents: the chain, or the count, starts afresh.
RestoreWithoutHash ==
  /\ events' = LoadAllAuditEvents
  /\ counter' = Len(events')
  /\ prevHash' = Genesis
  /\ db' = TRUE
  /\ StartOver
  /\ UNCHANGED <<table, drawn>>
RestoreWithoutCounter ==
  LET loaded == LoadAllAuditEvents IN
  /\ events' = loaded
  /\ counter' = 0
  /\ prevHash' = IF loaded = << >> THEN Genesis ELSE loaded[Len(loaded)].hash
  /\ db' = TRUE
  /\ StartOver
  /\ UNCHANGED <<table, drawn>>

\* The process ends, and main() rebuilds the log from the table.
NewAuditLogWithEvents ==
  LET loaded == LoadAllAuditEvents IN
  /\ events' = loaded
  /\ counter' = Len(loaded)
  /\ prevHash' = IF loaded = << >> THEN Genesis ELSE loaded[Len(loaded)].hash
  /\ db' = TRUE
  /\ StartOver
  /\ UNCHANGED <<table, drawn>>

Next ==
  \/ \E type \in EventTypes : Record(type)
  \/ \E limit \in PageLimits : Query(limit)
  \/ Close
  \/ NewAuditLogWithEvents

Spec == Init /\ [][Next]_vars
-----------------------------------------------------------------------------
\* The log is well typed and counts its events.
TypeOK ==
  LET Events == [id : 1..MaxEvents, type : EventTypes, hash : 1..MaxEvents, prev : 0..MaxEvents]
  IN  /\ events \in Seq(Events) /\ table \subseteq Events
      /\ counter = Len(events) /\ counter <= drawn
      /\ prevHash \in 0..MaxEvents /\ drawn \in 0..MaxEvents
      /\ db \in BOOLEAN
      /\ seen \in Seq(Events) /\ at \in 0..MaxEvents

\* Every event holds the hash of the one before it, across restarts: "new
\* events continue the chain seamlessly" (audit_log.go:142-145).
ChainIntact ==
  \A i \in 1..Len(events) :
    events[i].prev = IF i = 1 THEN Genesis ELSE events[i - 1].hash

\* The log is append-only: while the database is open no step, a restart
\* included, drops, reorders or rewrites an event.
AppendOnly == [][db => IsPrefix(events, events')]_events

\* A client that pages through the log while others append to it, moving on
\* by the "applied limit" of each response (api.md:674), misses no event and
\* reads none twice.
PagingConsistent == at = Len(seen) /\ IsPrefix(seen, Matching(events))

\* What reached the table is an unbroken beginning of the log, also when
\* the database is closed under late requests.
TableIsPrefix ==
  IsPrefix(LoadAllAuditEvents, events)
=============================================================================
