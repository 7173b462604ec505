------------------------- MODULE AuditTrailTheorems -------------------------
(***************************************************************************)
(* Proofs about AuditTrail on a disk that does not fail, for any number of *)
(* requests, events and restarts, and whether or not requests outlive the  *)
(* shutdown deadline.                                                      *)
(*                                                                         *)
(* The invariant has two halves.  The rows of the audit table carry the    *)
(* numbers up to their own number, and while the database is open the      *)
(* counter is that number, so the next insert never meets a row of its ID  *)
(* (RowsCounted).  A request that is past a step which met an open         *)
(* database has the row of that step to show for it (StepsSaved).          *)
(*                                                                         *)
(* The second part proves the log itself: AuditTrail implements AuditLog,  *)
(* and AuditLog keeps its chain, its table and its readers consistent      *)
(* (LogInv, PagingInv), as long as the IDs fit into the digits they are    *)
(* padded to.                                                              *)
(***************************************************************************)
EXTENDS AuditTrail, FiniteSetTheorems, TLAPS

RowsCounted ==
  /\ IsFiniteSet(table)
  /\ \A row \in table : row.id \in 1..Cardinality(table)
  /\ counter \in Nat
  /\ db => counter = Cardinality(table)

HasRow(x) == \E row \in table : row.type = x

StepsSaved ==
  /\ DOMAIN pc = Reqs /\ DOMAIN on = Reqs /\ DOMAIN wrote = Reqs
  /\ \A r \in Reqs : pc[r] # "idle" => on[r] \in Targets
  /\ \A r \in Reqs : pc[r] \in {"revoked", "recorded"} /\ wrote[r] => on[r] \in saved
  /\ \A r \in Reqs : db /\ pc[r] \in {"revoked", "recorded"} => wrote[r]
  /\ \A r \in Reqs : db /\ pc[r] = "recorded" => HasRow(on[r])

ToldSaved ==
  /\ saved \subseteq revoked
  /\ \A t \in told :
       /\ t.wrote => t.target \in saved
       /\ t.open => t.wrote /\ HasRow(t.target)

TrailInv == RowsCounted /\ StepsSaved /\ ToldSaved /\ RecordedIsRevoked

LEMMA InitTrailInv == TrailInit => TrailInv
<1> SUFFICES ASSUME TrailInit PROVE TrailInv
  OBVIOUS
<1> USE DEF TrailInit, Init
<1>1. RowsCounted
  BY FS_EmptySet DEF RowsCounted
<1> QED
  BY <1>1 DEF TrailInv, StepsSaved, ToldSaved, RecordedIsRevoked

LEMMA LoadedLength ==
  ASSUME IsFiniteSet(table) PROVE Len(LoadAllAuditEvents) = Cardinality(table)
<1>1. Cardinality(table) \in Nat
  BY FS_CardinalityType
<1> QED
  BY <1>1 DEF LoadAllAuditEvents

\* Without disk faults an open database takes the event, and a closed one
\* does not.
LEMMA RecordSaves ==
  ASSUME ~DiskFaults, RowsCounted, NEW type, Record(type)
  PROVE  /\ RowsCounted' /\ db' = db
         /\ table \subseteq table'
         /\ \A row \in table' \ table : db /\ row.type = type
         /\ db => \E row \in table' : row.type = type
<1> DEFINE e == Event(counter + 1, type, drawn + 1, prevHash)
<1>1. SaveAuditEvent(e) /\ counter' = counter + 1 /\ db' = db
  BY DEF Record, Event
<1>2. e.id = counter + 1 /\ e.type = type
  BY DEF Event
<1> HIDE DEF e
<1>3. Cardinality(table) \in Nat
  BY FS_CardinalityType DEF RowsCounted
<1>4. CASE db
  <2>1. /\ counter = Cardinality(table)
        /\ \A row \in table : row.id # e.id
    BY <1>2, <1>3, <1>4 DEF RowsCounted
  <2>2. table' = table \cup {e} /\ e \notin table
    BY <1>1, <1>4, <2>1 DEF SaveAuditEvent
  <2>3. IsFiniteSet(table') /\ Cardinality(table') = Cardinality(table) + 1
    BY <2>2, FS_AddElement DEF RowsCounted
  <2>4. \A row \in table' : row.id \in 1..Cardinality(table')
    BY <1>2, <1>3, <2>1, <2>2, <2>3 DEF RowsCounted
  <2>5. RowsCounted'
    BY <1>1, <1>3, <2>1, <2>3, <2>4 DEF RowsCounted
  <2> QED
    BY <1>1, <1>2, <1>4, <2>2, <2>5
<1>5. CASE ~db
  <2>1. table' = table
    BY <1>1, <1>5 DEF SaveAuditEvent
  <2>2. RowsCounted'
    BY <1>1, <1>5, <2>1 DEF RowsCounted
  <2> QED
    BY <1>1, <1>5, <2>1, <2>2
<1> QED
  BY <1>4, <1>5

\* What a step adds to the tables breaks nothing that held of them.
LEMMA TablesGrow ==
  ASSUME TrailInv, saved \subseteq saved', saved' \subseteq revoked', table \subseteq table',
         told' = told, \A row \in table' \ table : row.type \in Targets => row.type \in saved'
  PROVE  ToldSaved' /\ RecordedIsRevoked'
BY DEF TrailInv, ToldSaved, RecordedIsRevoked, HasRow

\* A request that ends has nothing more to show.
LEMMA EndStep ==
  ASSUME StepsSaved, NEW r \in Reqs, End(r), UNCHANGED <<db, saved, table>>
  PROVE  StepsSaved'
<1>1. /\ pc'[r] = "idle" /\ DOMAIN pc' = Reqs /\ DOMAIN on' = Reqs /\ DOMAIN wrote' = Reqs
      /\ \A q \in Reqs \ {r} : pc'[q] = pc[q] /\ on'[q] = on[q] /\ wrote'[q] = wrote[q]
  BY DEF End, GoTo, StepsSaved
<1> QED
  BY <1>1 DEF StepsSaved, HasRow

LEMMA TrailKeeps ==
  ASSUME ~DiskFaults, TrailInv, [TrailNext]_trailVars PROVE TrailInv'
<1>a. ASSUME UNCHANGED <<table, counter, db>> PROVE RowsCounted'
  BY <1>a DEF TrailInv, RowsCounted
<1>b. ASSUME UNCHANGED <<table, saved, told>>, revoked' = revoked
      PROVE  ToldSaved' /\ RecordedIsRevoked'
  BY <1>b, TablesGrow DEF TrailInv, ToldSaved
<1>1. CASE UNCHANGED trailVars
  <2>1. StepsSaved'
    BY <1>1 DEF trailVars, vars, service, requests, TrailInv, StepsSaved, HasRow
  <2> QED
    BY <1>1, <1>a, <1>b, <2>1 DEF trailVars, vars, logVars, service, requests, TrailInv
<1>2. ASSUME NEW r \in Reqs, NEW x \in Targets, Admit(r, x) PROVE TrailInv'
  <2>1. /\ pc'[r] = "admitted" /\ on'[r] = x /\ DOMAIN pc' = Reqs /\ DOMAIN on' = Reqs
        /\ \A q \in Reqs \ {r} : pc'[q] = pc[q] /\ on'[q] = on[q]
        /\ UNCHANGED <<table, counter, db, saved, revoked, wrote, told>>
    BY <1>2 DEF Admit, GoTo, vars, logVars, service, TrailInv, StepsSaved
  <2>2. StepsSaved'
    BY <2>1 DEF TrailInv, StepsSaved, HasRow
  <2> QED
    BY <1>a, <1>b, <2>1, <2>2 DEF TrailInv
<1>3. ASSUME NEW r \in Reqs, Revoke(r) PROVE TrailInv'
  <2>1. /\ pc[r] = "admitted" /\ pc'[r] = "revoked" /\ DOMAIN pc' = Reqs /\ on' = on
        /\ DOMAIN wrote' = Reqs /\ wrote'[r] = db
        /\ \A q \in Reqs \ {r} : pc'[q] = pc[q] /\ wrote'[q] = wrote[q]
        /\ UNCHANGED <<table, counter, db, told>>
        /\ revoked' = revoked \cup {on[r]}
    BY <1>3 DEF Revoke, GoTo, vars, logVars, TrailInv, StepsSaved
  <2>2. /\ saved \subseteq saved' /\ saved' \subseteq saved \cup {on[r]}
        /\ db => on[r] \in saved'
    BY <1>3 DEF Revoke, SaveRevocation
  <2>3. StepsSaved'
    BY <2>1, <2>2 DEF TrailInv, StepsSaved, HasRow
  <2>4. saved' \subseteq revoked'
    BY <2>1, <2>2 DEF TrailInv, ToldSaved
  <2> QED
    BY <1>a, <2>1, <2>2, <2>3, <2>4, TablesGrow DEF TrailInv
<1>4. ASSUME NEW r \in Reqs, RecordRevoked(r) PROVE TrailInv'
  <2>1. /\ pc[r] = "revoked" /\ pc'[r] = "recorded" /\ DOMAIN pc' = Reqs /\ on' = on
        /\ \A q \in Reqs \ {r} : pc'[q] = pc[q]
        /\ UNCHANGED <<saved, revoked, wrote, told>> /\ Record(on[r])
    BY <1>4 DEF RecordRevoked, GoTo, service, TrailInv, StepsSaved
  <2>2. /\ RowsCounted' /\ db' = db /\ table \subseteq table'
        /\ \A row \in table' \ table : db /\ row.type = on[r]
        /\ db => HasRow(on[r])'
    BY <2>1, RecordSaves DEF TrailInv, HasRow
  <2>3. db => on[r] \in saved
    BY <2>1 DEF TrailInv, StepsSaved
  <2>4. StepsSaved'
    BY <2>1, <2>2 DEF TrailInv, StepsSaved, HasRow
  <2>5. ToldSaved' /\ RecordedIsRevoked'
    BY <2>1, <2>2, <2>3, TablesGrow DEF TrailInv, ToldSaved
  <2> QED
    BY <2>2, <2>4, <2>5 DEF TrailInv
<1>5. ASSUME NEW r \in Reqs, Acknowledge(r) PROVE TrailInv'
  <2> DEFINE new == [target |-> on[r], wrote |-> wrote[r], open |-> db]
  <2>1. /\ pc[r] = "recorded"
        /\ UNCHANGED <<table, counter, db, saved, revoked>>
        /\ told' = told \cup {new}
    BY <1>5 DEF Acknowledge, Tell, vars, logVars, service
  <2>2. StepsSaved'
    BY <1>5, <2>1, EndStep DEF Acknowledge, TrailInv
  <2>3. /\ new.wrote => new.target \in saved
        /\ new.open => new.wrote /\ HasRow(new.target)
    BY <2>1 DEF TrailInv, StepsSaved
  <2> HIDE DEF new
  <2>4. ToldSaved'
    BY <2>1, <2>3 DEF TrailInv, ToldSaved, HasRow
  <2>5. RecordedIsRevoked'
    BY <2>1 DEF TrailInv, RecordedIsRevoked
  <2> QED
    BY <1>a, <2>1, <2>2, <2>4, <2>5 DEF TrailInv
<1>6. ASSUME NEW r \in Reqs, LoseReply(r) PROVE TrailInv'
  <2>1. UNCHANGED <<table, counter, db, saved, revoked, told>>
    BY <1>6 DEF LoseReply, vars, logVars, service
  <2>2. StepsSaved'
    BY <1>6, <2>1, EndStep DEF LoseReply, TrailInv
  <2> QED
    BY <1>a, <1>b, <2>1, <2>2 DEF TrailInv
<1>7. ASSUME NEW type \in EventTypes, RecordOther(type) PROVE TrailInv'
  <2>1. type \notin Targets /\ Record(type) /\ UNCHANGED <<saved, revoked, wrote, told, pc, on>>
    BY <1>7 DEF RecordOther, service, requests
  <2>2. /\ RowsCounted' /\ db' = db /\ table \subseteq table'
        /\ \A row \in table' \ table : row.type \notin Targets
    BY <2>1, RecordSaves DEF TrailInv
  <2>3. StepsSaved'
    BY <2>1, <2>2 DEF TrailInv, StepsSaved, HasRow
  <2>4. ToldSaved' /\ RecordedIsRevoked'
    BY <2>1, <2>2, TablesGrow DEF TrailInv, ToldSaved
  <2> QED
    BY <2>2, <2>3, <2>4 DEF TrailInv
<1>8. ASSUME NEW limit \in PageLimits, Read(limit) PROVE TrailInv'
  <2>1. UNCHANGED <<table, counter, db, saved, revoked, wrote, told, pc, on>>
    BY <1>8 DEF Read, Query, logVars, service, requests
  <2>2. StepsSaved'
    BY <2>1 DEF TrailInv, StepsSaved, HasRow
  <2> QED
    BY <1>a, <1>b, <2>1, <2>2 DEF TrailInv
<1>9. CASE Signal
  <2>1. UNCHANGED <<table, counter, db, saved, revoked, wrote, told, pc, on>>
    BY <1>9 DEF Signal, vars, logVars, requests
  <2>2. StepsSaved'
    BY <2>1 DEF TrailInv, StepsSaved, HasRow
  <2> QED
    BY <1>a, <1>b, <2>1, <2>2 DEF TrailInv
<1>10. CASE Shutdown
  <2>1. db' = FALSE /\ UNCHANGED <<table, counter, saved, revoked, wrote, told, pc, on>>
    BY <1>10 DEF Shutdown, Close, logVars, service, requests
  <2>2. RowsCounted' /\ StepsSaved'
    BY <2>1 DEF TrailInv, RowsCounted, StepsSaved
  <2> QED
    BY <1>b, <2>1, <2>2 DEF TrailInv
<1>11. CASE Restart
  <2>1. /\ counter' = Cardinality(table) /\ table' = table
        /\ revoked' = saved /\ UNCHANGED <<saved, told>>
        /\ DOMAIN pc' = Reqs /\ DOMAIN on' = Reqs /\ DOMAIN wrote' = Reqs
        /\ \A r \in Reqs : pc'[r] = "idle"
    BY <1>11, LoadedLength DEF Restart, NewAuditLogWithEvents, TrailInv, RowsCounted
  <2>2. RowsCounted'
    BY <2>1, FS_CardinalityType DEF TrailInv, RowsCounted
  <2>3. StepsSaved'
    BY <2>1 DEF StepsSaved
  <2>4. ToldSaved' /\ RecordedIsRevoked'
    BY <2>1, TablesGrow DEF TrailInv
  <2> QED
    BY <2>2, <2>3, <2>4 DEF TrailInv
<1> QED
  BY <1>1, <1>2, <1>3, <1>4, <1>5, <1>6, <1>7, <1>8, <1>9, <1>10, <1>11 DEF TrailNext

\* On a disk that does not fail, what clients were told of survives every
\* crash, shutdown and restart as far as the request got before the database
\* was closed, late answers included.
THEOREM ToldTheorem == ~DiskFaults /\ TrailSpec => []ToldAndWrittenIsKept
<1>1. TrailInv => ToldAndWrittenIsKept
  BY DEF TrailInv, ToldSaved, ToldAndWrittenIsKept, HasRow
<1>2. CASE ~DiskFaults
  <2>1. TrailInv /\ [TrailNext]_trailVars => TrailInv'
    BY <1>2, TrailKeeps
  <2> QED
    BY <1>1, <2>1, InitTrailInv, PTL DEF TrailSpec
<1> QED
  BY <1>2

\* If no request outlives the deadline, none meets a closed database: it is
\* closed when all are done, and stays closed only while no new one gets in.
AnsweredInTime ==
  /\ DOMAIN pc = Reqs
  /\ ~db => stopping /\ \A r \in Reqs : pc[r] = "idle"
  /\ \A t \in told : t.open

LEMMA AnsweredInTimeKept ==
  ASSUME ~LateRequests, AnsweredInTime, [TrailNext]_trailVars PROVE AnsweredInTime'
<1>1. CASE UNCHANGED trailVars
  BY <1>1 DEF AnsweredInTime, trailVars, vars, service, requests
<1>2. ASSUME NEW r \in Reqs, NEW x \in Targets, Admit(r, x) PROVE AnsweredInTime'
  BY <1>2 DEF AnsweredInTime, Admit, GoTo, vars, service
<1>3. ASSUME NEW r \in Reqs, Revoke(r) PROVE AnsweredInTime'
  BY <1>3 DEF AnsweredInTime, Revoke, GoTo, vars
<1>4. ASSUME NEW r \in Reqs, RecordRevoked(r) PROVE AnsweredInTime'
  BY <1>4 DEF AnsweredInTime, RecordRevoked, Record, GoTo, service
<1>5. ASSUME NEW r \in Reqs, Acknowledge(r) PROVE AnsweredInTime'
  <2>1. db
    BY <1>5 DEF AnsweredInTime, Acknowledge
  <2>2. db' = db /\ DOMAIN pc' = Reqs
    BY <1>5 DEF AnsweredInTime, Acknowledge, End, GoTo, vars
  <2>3. \A t \in told' : t.open
    BY <1>5, <2>1 DEF AnsweredInTime, Acknowledge, Tell
  <2> QED
    BY <2>1, <2>2, <2>3 DEF AnsweredInTime
<1>6. ASSUME NEW r \in Reqs, LoseReply(r) PROVE AnsweredInTime'
  BY <1>6 DEF AnsweredInTime, LoseReply, End, GoTo, vars, service
<1>7. ASSUME NEW type \in EventTypes, RecordOther(type) PROVE AnsweredInTime'
  BY <1>7 DEF AnsweredInTime, RecordOther, Record, service, requests
<1>8. ASSUME NEW limit \in PageLimits, Read(limit) PROVE AnsweredInTime'
  BY <1>8 DEF AnsweredInTime, Read, Query, service, requests
<1>9. CASE Signal
  BY <1>9 DEF AnsweredInTime, Signal, vars, requests
<1>10. CASE Shutdown
  BY <1>10 DEF AnsweredInTime, Shutdown, Close, service, requests
<1>11. CASE Restart
  BY <1>11 DEF AnsweredInTime, Restart, NewAuditLogWithEvents
<1> QED
  BY <1>1, <1>2, <1>3, <1>4, <1>5, <1>6, <1>7, <1>8, <1>9, <1>10, <1>11 DEF TrailNext

\* If moreover no request outlives the shutdown deadline, everything a client
\* was told of is kept: what credential-model.md:403 says without condition.
THEOREM ToldInTimeTheorem ==
  ASSUME ~DiskFaults, ~LateRequests PROVE TrailSpec => []ToldIsKept
<1>1. TrailInit => AnsweredInTime
  BY DEF TrailInit, Init, AnsweredInTime
<1>2. AnsweredInTime /\ [TrailNext]_trailVars => AnsweredInTime'
  BY AnsweredInTimeKept
<1>3. TrailInv /\ [TrailNext]_trailVars => TrailInv'
  BY TrailKeeps
<1>4. TrailInv /\ AnsweredInTime => ToldIsKept
  BY DEF TrailInv, ToldSaved, AnsweredInTime, ToldIsKept, HasRow
<1> QED
  BY <1>1, <1>2, <1>3, <1>4, InitTrailInv, PTL DEF TrailSpec

\* On such a disk the audit table never tells of a revocation that the next
\* start would not bring back.
THEOREM RecordedTheorem == ~DiskFaults /\ TrailSpec => []RecordedIsRevoked
<1>1. TrailInv => RecordedIsRevoked
  BY DEF TrailInv
<1>2. CASE ~DiskFaults
  <2>1. TrailInv /\ [TrailNext]_trailVars => TrailInv'
    BY <1>2, TrailKeeps
  <2> QED
    BY <1>1, <2>1, InitTrailInv, PTL DEF TrailSpec
<1> QED
  BY <1>2
-----------------------------------------------------------------------------
(* The log itself.  Its IDs sort as numbers as long as they fit into the   *)
(* digits they are padded to.                                              *)

IdsFit == \A n \in 1..MaxEvents : n < 10^IdWidth

LEMMA PrefixIs ==
  ASSUME NEW S, NEW T, NEW s \in Seq(S), NEW t \in Seq(T)
  PROVE  IsPrefix(s, t) <=> Len(s) <= Len(t) /\ \A i \in 1..Len(s) : s[i] = t[i]
<1>1. ASSUME Len(s) <= Len(t)
      PROVE  (SubSeq(s, 1, Len(s)) = SubSeq(t, 1, Len(s))) <=> \A i \in 1..Len(s) : s[i] = t[i]
  <2>1. /\ SubSeq(s, 1, Len(s)) = [i \in 1..Len(s) |-> s[i]]
        /\ SubSeq(t, 1, Len(s)) = [i \in 1..Len(s) |-> t[i]]
    BY <1>1
  <2> QED
    BY <2>1
<1> QED
  BY <1>1 DEF IsPrefix

LEMMA EmptyPrefix == ASSUME NEW S, NEW t \in Seq(S) PROVE IsPrefix(<< >>, t)
<1>1. << >> \in Seq(S) /\ Len(<< >>) = 0 /\ Len(t) \in Nat
  OBVIOUS
<1>2. Len(<< >>) <= Len(t) /\ \A i \in 1..Len(<< >>) : << >>[i] = t[i]
  BY <1>1
<1> QED
  BY <1>1, <1>2, PrefixIs

LEMMA Concatenated ==
  ASSUME NEW S, NEW s \in Seq(S), NEW t \in Seq(S)
  PROVE  /\ s \o t \in Seq(S) /\ Len(s \o t) = Len(s) + Len(t)
         /\ \A i \in 1..Len(s) : (s \o t)[i] = s[i]
         /\ \A i \in (Len(s) + 1)..(Len(s) + Len(t)) : (s \o t)[i] = t[i - Len(s)]
OBVIOUS

Rank(S, i) == Cardinality({j \in S : j <= i})

LEMMA RankRises ==
  ASSUME NEW S \in SUBSET Nat, IsFiniteSet(S), NEW i \in S, NEW j \in S, i < j
  PROVE  Rank(S, i) < Rank(S, j)
<1> DEFINE A == {k \in S : k <= i}  B == {k \in S : k <= j}
<1>0. B \in SUBSET S /\ i \in Nat /\ j \in Nat
  OBVIOUS
<1>1. IsFiniteSet(B) /\ A \in SUBSET B /\ j \in B /\ j \notin A
  <2>1. IsFiniteSet(B)
    BY <1>0, FS_Subset
  <2>2. A \in SUBSET B
    <3>1. \A k \in S : k <= i => k <= j
      BY <1>0
    <3> QED
      BY <3>1
  <2> QED
    BY <1>0, <2>1, <2>2
<1>2. /\ IsFiniteSet(A) /\ Cardinality(A) <= Cardinality(B)
      /\ Cardinality(B) = Cardinality(A) => B = A
  BY <1>1, FS_Subset
<1>3. Cardinality(A) \in Nat /\ Cardinality(B) \in Nat
  BY <1>1, <1>2, FS_CardinalityType
<1> QED
  BY <1>1, <1>2, <1>3 DEF Rank

LEMMA RankInRange ==
  ASSUME NEW S \in SUBSET Nat, IsFiniteSet(S), NEW i \in S
  PROVE  Rank(S, i) \in 1..Cardinality(S)
<1> DEFINE A == {k \in S : k <= i}
<1>1. A \in SUBSET S /\ i \in A
  OBVIOUS
<1>2. IsFiniteSet(A) /\ Cardinality(A) <= Cardinality(S) /\ A # {}
  BY <1>1, FS_Subset
<1>3. Cardinality(A) \in Nat /\ Cardinality(S) \in Nat /\ Cardinality(A) # 0
  BY <1>2, FS_CardinalityType, FS_EmptySet
<1> QED
  BY <1>2, <1>3 DEF Rank

\* Ranking numbers a finite set of naturals from 1 to its size.
LEMMA RankNumbers ==
  ASSUME NEW S \in SUBSET Nat, IsFiniteSet(S), NEW k \in 1..Cardinality(S)
  PROVE  \E i \in S : Rank(S, i) = k
<1> DEFINE f == [i \in S |-> Rank(S, i)]
<1>1. Cardinality(S) \in Nat
  BY FS_CardinalityType
<1>2. IsFiniteSet(1..Cardinality(S)) /\ Cardinality(1..Cardinality(S)) = Cardinality(S)
  BY <1>1, FS_Interval
<1>3. f \in [S -> 1..Cardinality(S)]
  BY RankInRange
<1>4. \A i, j \in S : f[i] = f[j] => i = j
  <2> SUFFICES ASSUME NEW i \in S, NEW j \in S, i < j PROVE f[i] # f[j]
    OBVIOUS
  <2>1. Rank(S, i) < Rank(S, j) /\ Rank(S, i) \in Nat /\ Rank(S, j) \in Nat
    BY RankRises, RankInRange
  <2> QED
    BY <2>1
<1> HIDE DEF f
<1>5. f \in Injection(S, 1..Cardinality(S))
  BY <1>3, <1>4 DEF Injection, IsInjective
<1>6. f \in Surjection(S, 1..Cardinality(S))
  BY <1>2, <1>5, FS_Injection
<1>7. \E i \in S : f[i] = k
  BY <1>6 DEF Surjection
<1> QED
  BY <1>7 DEF f

LEMMA RankNames ==
  ASSUME NEW S \in SUBSET Nat, IsFiniteSet(S), NEW i \in S, NEW j \in S,
         Rank(S, i) = Rank(S, j)
  PROVE  i = j
<1>1. Rank(S, i) \in Nat
  BY RankInRange
<1> QED
  BY <1>1, RankRises

LEMMA HitsFinite ==
  ASSUME NEW S, NEW log \in Seq(S)
  PROVE  /\ Hits(log) \in SUBSET Nat /\ IsFiniteSet(Hits(log))
         /\ Cardinality(Hits(log)) \in 0..Len(log)
<1>0. Len(log) \in Nat
  OBVIOUS
<1>1. IsFiniteSet(1..Len(log)) /\ Cardinality(1..Len(log)) = Len(log) /\ Len(log) \in Nat
  BY <1>0, FS_Interval
<1>2. Hits(log) \in SUBSET (1..Len(log))
  BY DEF Hits
<1>3. IsFiniteSet(Hits(log)) /\ Cardinality(Hits(log)) <= Len(log)
  BY <1>1, <1>2, FS_Subset
<1> QED
  BY <1>1, <1>2, <1>3, FS_CardinalityType

\* The event of rank k among those that match stands at k.
LEMMA MatchingAt ==
  ASSUME NEW S, NEW log \in Seq(S)
  PROVE  /\ Matching(log) \in Seq(S)
         /\ Len(Matching(log)) = Cardinality(Hits(log))
         /\ \A i \in Hits(log) : Matching(log)[Rank(Hits(log), i)] = log[i]
<1> DEFINE n == Cardinality(Hits(log))
           place(k) == CHOOSE i \in Hits(log) : Rank(Hits(log), i) = k
<1>1. Hits(log) \in SUBSET Nat /\ IsFiniteSet(Hits(log)) /\ n \in Nat
  BY HitsFinite
<1>2. Matching(log) = [k \in 1..n |-> log[place(k)]]
  BY DEF Matching, Rank
<1>3. ASSUME NEW k \in 1..n PROVE place(k) \in Hits(log) /\ Rank(Hits(log), place(k)) = k
  BY <1>1, RankNumbers
<1>4. \A i \in Hits(log) : Rank(Hits(log), i) \in 1..n /\ place(Rank(Hits(log), i)) = i
  <2> SUFFICES ASSUME NEW i \in Hits(log)
               PROVE  Rank(Hits(log), i) \in 1..n /\ place(Rank(Hits(log), i)) = i
    OBVIOUS
  <2>1. Rank(Hits(log), i) \in 1..n
    BY <1>1, RankInRange
  <2>2. /\ place(Rank(Hits(log), i)) \in Hits(log)
        /\ Rank(Hits(log), place(Rank(Hits(log), i))) = Rank(Hits(log), i)
    BY <1>3, <2>1
  <2> HIDE DEF place
  <2> QED
    BY <1>1, <2>1, <2>2, RankNames
<1> HIDE DEF n, place
<1>5. ASSUME NEW k \in 1..n PROVE log[place(k)] \in S
  <2>1. place(k) \in 1..Len(log)
    BY <1>3 DEF Hits
  <2> QED
    BY <2>1
<1>6. Matching(log) \in Seq(S) /\ Len(Matching(log)) = n
  BY <1>1, <1>2, <1>5
<1> QED
  BY <1>2, <1>4, <1>6 DEF n

\* The client's view only grows at its end.
LEMMA MatchingGrows ==
  ASSUME NEW S, NEW log \in Seq(S), NEW e \in S
  PROVE  IsPrefix(Matching(log), Matching(Append(log, e)))
<1> DEFINE more == Append(log, e)
<1>1. more \in Seq(S) /\ Len(more) = Len(log) + 1 /\ \A i \in 1..Len(log) : more[i] = log[i]
  OBVIOUS
<1> HIDE DEF more
<1>2. Hits(log) \in SUBSET Hits(more) /\ \A i \in Hits(more) \ Hits(log) : i = Len(log) + 1
  BY <1>1 DEF Hits
<1>3. /\ Hits(more) \in SUBSET Nat /\ IsFiniteSet(Hits(more))
      /\ Hits(log) \in SUBSET Nat /\ IsFiniteSet(Hits(log))
  BY <1>1, HitsFinite
<1>4. ASSUME NEW i \in Hits(log) PROVE Rank(Hits(more), i) = Rank(Hits(log), i)
  <2>1. {j \in Hits(more) : j <= i} = {j \in Hits(log) : j <= i}
    BY <1>2 DEF Hits
  <2> QED
    BY <2>1 DEF Rank
<1>5. Cardinality(Hits(log)) <= Cardinality(Hits(more))
  BY <1>2, <1>3, FS_Subset
<1>6. ASSUME NEW k \in 1..Cardinality(Hits(log)) PROVE Matching(log)[k] = Matching(more)[k]
  <2>1. PICK i \in Hits(log) : Rank(Hits(log), i) = k
    BY <1>3, RankNumbers
  <2>2. i \in 1..Len(log)
    BY DEF Hits
  <2> QED
    BY <1>1, <1>2, <1>4, <2>1, <2>2, MatchingAt
<1>7. /\ Matching(log) \in Seq(S) /\ Matching(more) \in Seq(S)
      /\ Len(Matching(log)) <= Len(Matching(more))
      /\ \A k \in 1..Len(Matching(log)) : Matching(log)[k] = Matching(more)[k]
  BY <1>1, <1>5, <1>6, MatchingAt
<1>8. IsPrefix(Matching(log), Matching(more))
  BY <1>7, PrefixIs
<1> QED
  BY <1>8 DEF more

LEMMA FittingLength == ASSUME IdsFit, IdWidth \in Nat, NEW n \in 1..MaxEvents, MaxEvents \in Nat
                       PROVE  Length(n) = IdWidth
<1> DEFINE Fits(w) == n < 10^w
<1>1. Fits(IdWidth)
  BY DEF IdsFit
<1>2. Length(n) = CHOOSE w \in IdWidth..(IdWidth + n) :
                    Fits(w) /\ \A v \in IdWidth..(w - 1) : ~Fits(v)
  BY DEF Length
<1> HIDE DEF Fits
<1>3. /\ IdWidth \in IdWidth..(IdWidth + n)
      /\ \A v \in IdWidth..(IdWidth - 1) : ~Fits(v)
  OBVIOUS
<1>4. \A w \in IdWidth..(IdWidth + n) :
        (\A v \in IdWidth..(w - 1) : ~Fits(v)) => w = IdWidth
  BY <1>1
<1> QED
  BY <1>1, <1>2, <1>3, <1>4

LEMMA FittingOrder ==
  ASSUME IdsFit, IdWidth \in Nat, MaxEvents \in Nat, NEW m \in 1..MaxEvents, NEW n \in 1..MaxEvents
  PROVE  TextBefore(m, n) <=> m < n
<1>1. Length(m) = IdWidth /\ Length(n) = IdWidth
  BY FittingLength
<1> QED
  BY <1>1 DEF TextBefore

\* The events are numbered as they stand, the table holds the first of them,
\* all while the database is open, and the chain is whole up to its end.
LogInv ==
  /\ TypeOK
  /\ \A i \in 1..Len(events) : events[i].id = i
  /\ IsFiniteSet(table) /\ Cardinality(table) <= Len(events)
  /\ table = {events[i] : i \in 1..Cardinality(table)}
  /\ db => Cardinality(table) = Len(events)
  /\ prevHash = IF Len(events) = 0 THEN Genesis ELSE events[Len(events)].hash
  /\ ChainIntact

Events == [id : 1..MaxEvents, type : EventTypes, hash : 1..MaxEvents, prev : 0..MaxEvents]

\* The sizes that the lemmas about the log speak of.
LEMMA LogSizes ==
  ASSUME LogInv
  PROVE  /\ events \in Seq(Events) /\ Len(events) \in Nat /\ Len(events) <= MaxEvents
         /\ Cardinality(table) \in Nat /\ Cardinality(table) <= Len(events)
         /\ IdWidth \in Nat /\ MaxEvents \in Nat
<1>1. events \in Seq(Events) /\ counter = Len(events) /\ counter <= drawn /\ drawn \in 0..MaxEvents
  BY DEF LogInv, TypeOK, Events
<1>2. Cardinality(table) \in Nat /\ Cardinality(table) <= Len(events)
  BY FS_CardinalityType DEF LogInv
<1>3. Len(events) \in Nat
  BY <1>1
<1> QED
  BY <1>1, <1>2, <1>3, AuditAssumption DEF AuditAssumption

\* The table's rows before the j-th event are the events before it.
LEMMA RowsBefore ==
  ASSUME IdsFit, LogInv, NEW j \in 1..Cardinality(table)
  PROVE  Cardinality({f \in table : TextBefore(f.id, events[j].id)}) = j - 1
<1> DEFINE before == {f \in table : TextBefore(f.id, events[j].id)}
           n == Cardinality(table)
           g == [i \in 1..(j - 1) |-> events[i]]
<1>1. /\ n \in Nat /\ n <= Len(events) /\ Len(events) <= MaxEvents /\ Len(events) \in Nat
      /\ IdWidth \in Nat /\ MaxEvents \in Nat
  BY LogSizes
<1>2. /\ \A i \in 1..n : events[i].id = i
      /\ table = {events[i] : i \in 1..n}
  BY <1>1 DEF LogInv
<1> HIDE DEF n
<1>3. \A i \in 1..n : TextBefore(events[i].id, events[j].id) <=> i < j
  BY <1>1, <1>2, FittingOrder DEF n
<1>4. before = {events[i] : i \in 1..(j - 1)}
  BY <1>1, <1>2, <1>3 DEF n
<1> HIDE DEF before
<1>5. g \in [1..(j - 1) -> before] /\ \A e \in before : \E i \in 1..(j - 1) : g[i] = e
  BY <1>4
<1>6. \A i, k \in 1..(j - 1) : g[i] = g[k] => i = k
  BY <1>1, <1>2 DEF n
<1> HIDE DEF g
<1>7. g \in Bijection(1..(j - 1), before)
  BY <1>5, <1>6 DEF Bijection, Injection, Surjection, IsInjective
<1>8. Cardinality(before) = j - 1
  BY <1>1, <1>7, FS_CountingElements DEF ExistsBijection, n
<1> QED
  BY <1>8 DEF before

\* What a start loads is the beginning of the log that the table holds.
LEMMA LoadedEvents ==
  ASSUME IdsFit, LogInv
  PROVE  LoadAllAuditEvents = [i \in 1..Cardinality(table) |-> events[i]]
<1> DEFINE n == Cardinality(table)
           before(e) == {f \in table : TextBefore(f.id, e.id)}
<1>1. LoadAllAuditEvents = [i \in 1..n |-> CHOOSE e \in table : Cardinality(before(e)) = i - 1]
  BY DEF LoadAllAuditEvents
<1>2. \A j \in 1..n : Cardinality(before(events[j])) = j - 1
  BY RowsBefore
<1>3. n \in Nat /\ table = {events[i] : i \in 1..n}
  BY LogSizes DEF LogInv
<1> HIDE DEF n, before
<1>4. ASSUME NEW i \in 1..n
      PROVE  (CHOOSE e \in table : Cardinality(before(e)) = i - 1) = events[i]
  <2>1. events[i] \in table /\ Cardinality(before(events[i])) = i - 1
    BY <1>2, <1>3
  <2>2. \A e \in table : Cardinality(before(e)) = i - 1 => e = events[i]
    BY <1>2, <1>3
  <2> QED
    BY <2>1, <2>2
<1> QED
  BY <1>1, <1>4 DEF n

LEMMA SameImage ==
  ASSUME NEW n \in Nat, NEW f, NEW g, \A i \in 1..n : f[i] = g[i]
  PROVE  {f[i] : i \in 1..n} = {g[i] : i \in 1..n}
OBVIOUS

LEMMA InitLog == Init => LogInv
<1> SUFFICES ASSUME Init PROVE LogInv
  OBVIOUS
<1> USE DEF Init
<1>1. events \in Seq(Events) /\ Len(events) = 0 /\ seen \in Seq(Events)
  OBVIOUS
<1>2. TypeOK
  BY <1>1, AuditAssumption DEF TypeOK, Events, AuditAssumption, Genesis
<1>3. IsFiniteSet(table) /\ Cardinality(table) = 0
  BY FS_EmptySet
<1> QED
  BY <1>1, <1>2, <1>3 DEF LogInv, ChainIntact

LEMMA RecordLog ==
  ASSUME ~DiskFaults, LogInv, NEW type \in EventTypes, Record(type)
  PROVE  LogInv'
<1> DEFINE e == Event(counter + 1, type, drawn + 1, prevHash)
<1> DEFINE n == Len(events)
<1>1. /\ events' = Append(events, e) /\ counter' = counter + 1 /\ prevHash' = drawn + 1
      /\ drawn < MaxEvents /\ drawn' = drawn + 1
      /\ SaveAuditEvent(e) /\ UNCHANGED <<db, seen, at>>
  BY DEF Record, Event, reader
<1>2. /\ n \in Nat /\ n <= MaxEvents /\ MaxEvents \in Nat /\ events \in Seq(Events)
      /\ Cardinality(table) \in Nat /\ Cardinality(table) <= n
  BY LogSizes
<1>3. /\ counter = n /\ counter <= drawn /\ drawn \in 0..MaxEvents
      /\ prevHash \in 0..MaxEvents /\ table \subseteq Events /\ db \in BOOLEAN
      /\ seen \in Seq(Events) /\ at \in 0..MaxEvents
  BY DEF LogInv, TypeOK, Events
<1>4. /\ e \in Events /\ e.id = n + 1 /\ e.hash = drawn + 1 /\ e.prev = prevHash
  BY <1>1, <1>2, <1>3 DEF Event, Events
<1> HIDE DEF e
<1>5. /\ events' \in Seq(Events) /\ Len(events') = n + 1 /\ events'[n + 1] = e
      /\ \A i \in 1..n : events'[i] = events[i]
  BY <1>1, <1>2, <1>4
<1>6. /\ \A i \in 1..n : events[i].id = i
      /\ IsFiniteSet(table)
      /\ table = {events[i] : i \in 1..Cardinality(table)}
      /\ db => Cardinality(table) = n
      /\ prevHash = IF n = 0 THEN Genesis ELSE events[n].hash
      /\ \A i \in 1..n : events[i].prev = IF i = 1 THEN Genesis ELSE events[i - 1].hash
  BY DEF LogInv, ChainIntact
<1> HIDE DEF n
<1>7. \A i \in 1..(n + 1) : events'[i].id = i
  BY <1>2, <1>4, <1>5, <1>6
<1>8. ChainIntact'
  <2>1. ASSUME NEW i \in 1..(n + 1)
        PROVE  events'[i].prev = IF i = 1 THEN Genesis ELSE events'[i - 1].hash
    <3>1. CASE i = n + 1
      <4>1. n # 0 => events'[n] = events[n]
        BY <1>2, <1>5
      <4> QED
        BY <1>2, <1>4, <1>5, <1>6, <3>1, <4>1
    <3>2. CASE i \in 1..n
      <4>1. i # 1 => events'[i - 1] = events[i - 1]
        BY <1>2, <1>5, <3>2
      <4> QED
        BY <1>5, <1>6, <3>2, <4>1
    <3> QED
      BY <1>2, <3>1, <3>2
  <2> QED
    BY <1>5, <2>1 DEF ChainIntact
<1>9. /\ table' \subseteq Events /\ IsFiniteSet(table') /\ Cardinality(table') <= n + 1
      /\ table' = {events'[i] : i \in 1..Cardinality(table')}
      /\ db' => Cardinality(table') = n + 1
  <2>1. CASE db
    <3>1. e \notin table /\ \A row \in table : row.id # e.id
      BY <1>2, <1>4, <1>6, <2>1
    <3>2. table' = table \cup {e}
      BY <1>1, <2>1, <3>1 DEF SaveAuditEvent
    <3>3. IsFiniteSet(table') /\ Cardinality(table') = n + 1
      BY <1>6, <2>1, <3>1, <3>2, FS_AddElement
    <3>4. table' = {events'[i] : i \in 1..(n + 1)}
      <4>1. table = {events[i] : i \in 1..n}
        BY <1>6, <2>1
      <4>2. ASSUME NEW row \in table'
            PROVE  \E i \in 1..(n + 1) : row = events'[i]
        <5>1. CASE row = e
          BY <1>2, <1>5, <5>1
        <5>2. CASE row \in table
          BY <1>2, <1>5, <4>1, <5>2
        <5> QED
          BY <3>2, <4>2, <5>1, <5>2
      <4>3. ASSUME NEW i \in 1..(n + 1)
            PROVE  events'[i] \in table'
        <5>1. CASE i = n + 1
          BY <1>5, <3>2, <5>1
        <5>2. CASE i \in 1..n
          BY <1>5, <3>2, <4>1, <5>2
        <5> QED
          BY <1>2, <4>3, <5>1, <5>2
      <4> QED
        BY <4>2, <4>3
    <3>5. table' \subseteq Events
      BY <1>3, <1>4, <3>2
    <3>6. n + 1 <= n + 1
      BY <1>2
    <3> QED
      BY <3>3, <3>4, <3>5, <3>6
  <2>2. CASE ~db
    <3>1. table' = table /\ ~db'
      BY <1>1, <2>2 DEF SaveAuditEvent
    <3>2. table = {events'[i] : i \in 1..Cardinality(table)}
      <4>1. \A i \in 1..Cardinality(table) : events'[i] = events[i]
        BY <1>2, <1>5
      <4>2. {events'[i] : i \in 1..Cardinality(table)} = {events[i] : i \in 1..Cardinality(table)}
        BY <1>2, <4>1, SameImage
      <4> QED
        BY <1>6, <4>2
    <3> QED
      BY <1>2, <1>3, <1>6, <3>1, <3>2
  <2> QED
    BY <1>3, <2>1, <2>2
<1>10. TypeOK'
  <2>1. /\ counter' = Len(events') /\ counter' <= drawn' /\ drawn' \in 0..MaxEvents
        /\ prevHash' \in 0..MaxEvents /\ db' \in BOOLEAN
        /\ seen' \in Seq(Events) /\ at' \in 0..MaxEvents
    BY <1>1, <1>2, <1>3, <1>5
  <2> QED
    BY <1>5, <1>9, <2>1 DEF TypeOK, Events
<1>11. prevHash' = IF Len(events') = 0 THEN Genesis ELSE events'[Len(events')].hash
  BY <1>1, <1>2, <1>4, <1>5
<1> QED
  BY <1>5, <1>7, <1>8, <1>9, <1>10, <1>11 DEF LogInv

LEMMA MatchingSizes ==
  ASSUME LogInv
  PROVE  /\ Matching(events) \in Seq(Events) /\ Len(Matching(events)) \in Nat
         /\ Len(Matching(events)) <= MaxEvents /\ MaxEvents \in Nat
<1>1. events \in Seq(Events) /\ Len(events) <= MaxEvents /\ Len(events) \in Nat /\ MaxEvents \in Nat
  BY LogSizes
<1> QED
  BY <1>1, MatchingAt, HitsFinite

\* A page is what stands from the offset on, up to the capped limit.
LEMMA PageIs ==
  ASSUME NEW S, NEW s \in Seq(S), NEW from \in 0..Len(s), NEW limit \in Int
  PROVE  /\ Capped(limit) \in Nat \ {0} /\ Reported(limit) \in Nat \ {0}
         /\ Page(s, from, limit) \in Seq(S)
         /\ Len(Page(s, from, limit)) = Least(from + Capped(limit), Len(s)) - from
         /\ \A i \in 1..Len(Page(s, from, limit)) : Page(s, from, limit)[i] = s[from + i]
<1>1. Capped(limit) \in Nat \ {0} /\ Reported(limit) \in Nat \ {0}
  BY AuditAssumption DEF AuditAssumption, Capped, Reported
<1> DEFINE m == Least(from + Capped(limit), Len(s))
<1>2. m \in Nat /\ m <= Len(s) /\ from <= m /\ from \in Nat
  BY <1>1 DEF Least
<1>3. Page(s, from, limit) = SubSeq(s, from + 1, m)
  BY DEF Page
<1> HIDE DEF m
<1>4. /\ SubSeq(s, from + 1, m) \in Seq(S) /\ Len(SubSeq(s, from + 1, m)) = m - from
      /\ \A i \in 1..(m - from) : SubSeq(s, from + 1, m)[i] = s[from + i]
  BY <1>2
<1> QED
  BY <1>1, <1>3, <1>4 DEF m

LEMMA QueryLog ==
  ASSUME LogInv, NEW limit \in PageLimits, Query(limit)
  PROVE  LogInv'
<1>1. limit \in Int
  BY AuditAssumption DEF AuditAssumption
<1>2. /\ Matching(events) \in Seq(Events) /\ Len(Matching(events)) \in Nat
      /\ Len(Matching(events)) <= MaxEvents /\ MaxEvents \in Nat
  BY MatchingSizes
<1>3. /\ at < Len(Matching(events)) /\ UNCHANGED <<events, prevHash, counter, table, db, drawn>>
      /\ seen' = seen \o Page(Matching(events), at, limit)
      /\ at' = Least(at + Reported(limit), Len(Matching(events)))
  BY DEF Query, logVars
<1>4. seen \in Seq(Events) /\ at \in 0..MaxEvents
  BY DEF LogInv, TypeOK, Events
<1>5. at \in 0..Len(Matching(events))
  BY <1>2, <1>3, <1>4
<1>6. Page(Matching(events), at, limit) \in Seq(Events) /\ Reported(limit) \in Nat \ {0}
  BY <1>1, <1>2, <1>5, PageIs
<1>7. seen' \in Seq(Events) /\ at' \in 0..MaxEvents
  BY <1>2, <1>3, <1>4, <1>5, <1>6 DEF Least
<1>8. TypeOK'
  BY <1>3, <1>7 DEF LogInv, TypeOK, Events
<1> QED
  BY <1>3, <1>8 DEF LogInv, ChainIntact

LEMMA RestartLog ==
  ASSUME IdsFit, LogInv, NewAuditLogWithEvents
  PROVE  LogInv' /\ (db => events' = events) /\ Len(events') = Cardinality(table)
<1> DEFINE n == Cardinality(table)
<1>1. /\ n \in Nat /\ n <= Len(events) /\ events \in Seq(Events) /\ Len(events) \in Nat
      /\ Len(events) <= MaxEvents /\ MaxEvents \in Nat
  BY LogSizes
<1>2. events' = [i \in 1..n |-> events[i]]
  BY LoadedEvents DEF NewAuditLogWithEvents
<1>3. /\ counter' = Len(events') /\ db' = TRUE /\ UNCHANGED <<table, drawn>>
      /\ prevHash' = IF events' = << >> THEN Genesis ELSE events'[Len(events')].hash
      /\ StartOver
  BY DEF NewAuditLogWithEvents
<1>4. /\ \A i \in 1..Len(events) : events[i].id = i
      /\ IsFiniteSet(table) /\ table = {events[i] : i \in 1..n}
      /\ db => n = Len(events)
      /\ \A i \in 1..Len(events) : events[i].prev = IF i = 1 THEN Genesis ELSE events[i - 1].hash
  BY DEF LogInv, ChainIntact
<1>5. /\ counter = Len(events) /\ counter <= drawn /\ drawn \in 0..MaxEvents
      /\ table \subseteq Events /\ db \in BOOLEAN
      /\ seen \in Seq(Events) /\ at \in 0..MaxEvents
  BY DEF LogInv, TypeOK, Events
<1> HIDE DEF n
<1>7. /\ events' \in Seq(Events) /\ Len(events') = n
      /\ \A i \in 1..n : events'[i] = events[i]
  BY <1>1, <1>2
<1>8. prevHash' = IF n = 0 THEN Genesis ELSE events'[n].hash
  BY <1>3, <1>7
<1>9. seen' \in Seq(Events) /\ at' \in 0..MaxEvents
  <2>1. << >> \in Seq(Events) /\ 0 \in 0..MaxEvents
    BY <1>1
  <2>2. (seen' = seen /\ at' = at) \/ (seen' = << >> /\ at' = 0)
    BY <1>3 DEF StartOver, reader
  <2> QED
    BY <1>5, <2>1, <2>2
<1>10. prevHash' \in 0..MaxEvents
  <2>1. n # 0 => events'[n] \in Events
    BY <1>1, <1>7
  <2> QED
    BY <1>1, <1>8, <2>1 DEF Genesis, Events
<1>11. TypeOK'
  BY <1>1, <1>3, <1>5, <1>7, <1>9, <1>10 DEF TypeOK, Events
<1>12. ChainIntact'
  <2>1. ASSUME NEW i \in 1..n
        PROVE  events'[i].prev = IF i = 1 THEN Genesis ELSE events'[i - 1].hash
    BY <1>1, <1>4, <1>7
  <2> QED
    BY <1>7, <2>1 DEF ChainIntact
<1>13. table' = {events'[i] : i \in 1..n}
  <2>1. {events'[i] : i \in 1..n} = {events[i] : i \in 1..n}
    BY <1>1, <1>7, SameImage
  <2> QED
    BY <1>3, <1>4, <2>1
<1>14. \A i \in 1..n : events'[i].id = i
  BY <1>1, <1>4, <1>7
<1>15. db => events' = events
  BY <1>1, <1>2, <1>4
<1>16. LogInv'
  <2>1. Cardinality(table') = n /\ IsFiniteSet(table')
    BY <1>3, <1>4 DEF n
  <2>2. table' = {events'[i] : i \in 1..Cardinality(table')}
    BY <1>13, <2>1
  <2>3. /\ Cardinality(table') <= Len(events') /\ (db' => Cardinality(table') = Len(events'))
        /\ \A i \in 1..Len(events') : events'[i].id = i
    BY <1>1, <1>7, <1>14, <2>1
  <2>4. prevHash' = IF Len(events') = 0 THEN Genesis ELSE events'[Len(events')].hash
    BY <1>7, <1>8
  <2> QED
    BY <2>1, <2>2, <2>3, <2>4, <1>11, <1>12 DEF LogInv
<1> QED
  BY <1>7, <1>15, <1>16 DEF n

LEMMA LogKeeps ==
  ASSUME ~DiskFaults, IdsFit, LogInv, [Next]_vars
  PROVE  LogInv'
<1>1. CASE UNCHANGED vars
  BY <1>1 DEF vars, logVars, reader, LogInv, TypeOK, ChainIntact
<1>2. CASE Close
  BY <1>2 DEF Close, logVars, reader, LogInv, TypeOK, ChainIntact
<1> QED
  BY <1>1, <1>2, RecordLog, QueryLog, RestartLog DEF Next

\* What the client has read is the beginning of what there is to read.
PagingInv == LogInv /\ PagingConsistent

\* No limit the client asks for is above the one Query caps it at, so that the
\* limit it is told of is the limit that was applied.
LimitsHonoured == DefaultLimit <= MaxLimit /\ \A limit \in PageLimits : limit <= MaxLimit

LEMMA RecordPaging ==
  ASSUME PagingInv, NEW type \in EventTypes, Record(type)
  PROVE  PagingConsistent'
<1> DEFINE e == Event(counter + 1, type, drawn + 1, prevHash)
<1>1. events' = Append(events, e) /\ seen' = seen /\ at' = at /\ drawn < MaxEvents
  BY DEF Record, Event, reader
<1>2. /\ events \in Seq(Events) /\ counter = Len(events) /\ counter <= drawn
      /\ drawn \in 0..MaxEvents /\ prevHash \in 0..MaxEvents /\ seen \in Seq(Events)
      /\ at = Len(seen) /\ IsPrefix(seen, Matching(events))
  BY DEF PagingInv, LogInv, TypeOK, Events, PagingConsistent
<1>3. e \in Events
  <2>1. /\ MaxEvents \in Nat /\ counter + 1 \in 1..MaxEvents /\ drawn + 1 \in 1..MaxEvents
    BY <1>1, <1>2, AuditAssumption DEF AuditAssumption
  <2> QED
    BY <1>2, <2>1 DEF Event, Events
<1> HIDE DEF e
<1>4. IsPrefix(Matching(events), Matching(events')) /\ events' \in Seq(Events)
  BY <1>1, <1>2, <1>3, MatchingGrows
<1>5. Matching(events) \in Seq(Events) /\ Matching(events') \in Seq(Events)
  BY <1>2, <1>4, MatchingAt
<1>6. IsPrefix(seen, Matching(events'))
  BY <1>2, <1>4, <1>5, PrefixIs
<1> QED
  BY <1>1, <1>2, <1>6 DEF PagingConsistent

LEMMA QueryPaging ==
  ASSUME LimitsHonoured, PagingInv, NEW limit \in PageLimits, Query(limit)
  PROVE  PagingConsistent'
<1> DEFINE matched == Matching(events)
           page == Page(matched, at, limit)
<1>1. limit \in Int
  BY AuditAssumption DEF AuditAssumption
<1>2. Capped(limit) = Reported(limit)
  BY <1>1, AuditAssumption DEF AuditAssumption, LimitsHonoured, Capped, Reported
<1>3. matched \in Seq(Events) /\ Len(matched) \in Nat
  BY MatchingSizes DEF PagingInv
<1>4. /\ at < Len(matched) /\ seen' = seen \o page
      /\ at' = Least(at + Reported(limit), Len(matched)) /\ events' = events
  BY DEF Query, logVars
<1>5. /\ seen \in Seq(Events) /\ at = Len(seen) /\ at \in Nat /\ IsPrefix(seen, matched)
  BY DEF PagingInv, LogInv, TypeOK, Events, PagingConsistent
<1>6. /\ page \in Seq(Events) /\ Len(page) = Least(at + Capped(limit), Len(matched)) - at
      /\ \A i \in 1..Len(page) : page[i] = matched[at + i]
      /\ Reported(limit) \in Nat \ {0}
  <2>1. at \in 0..Len(matched)
    BY <1>3, <1>4, <1>5
  <2> QED
    BY <1>1, <1>3, <2>1, PageIs
<1> HIDE DEF page
<1>7. Matching(events') = matched
  BY <1>4
<1> HIDE DEF matched
<1>8. at' \in Nat /\ at' <= Len(matched) /\ Len(page) = at' - at /\ Len(page) \in Nat
  BY <1>2, <1>3, <1>4, <1>5, <1>6 DEF Least
<1>9. seen' \in Seq(Events) /\ Len(seen') = at'
  <2>1. seen' \in Seq(Events) /\ Len(seen') = Len(seen) + Len(page)
    BY <1>4, <1>5, <1>6, Concatenated
  <2> QED
    BY <1>5, <1>8, <2>1
<1>10. \A i \in 1..Len(seen) : seen[i] = matched[i]
  BY <1>3, <1>5, PrefixIs
<1>11. ASSUME NEW i \in 1..Len(seen') PROVE seen'[i] = matched[i]
  <2>1. CASE i <= at
    BY <1>4, <1>5, <1>6, <1>10, <2>1
  <2>2. CASE i > at
    <3>1. i - at \in 1..Len(page) /\ seen'[i] = page[i - at]
      BY <1>4, <1>5, <1>6, <1>8, <1>9, <2>2
    <3>2. page[i - at] = matched[at + (i - at)] /\ at + (i - at) = i
      BY <1>5, <1>6, <3>1
    <3> QED
      BY <3>1, <3>2
  <2> QED
    BY <1>5, <2>1, <2>2
<1>12. IsPrefix(seen', matched)
  BY <1>3, <1>8, <1>9, <1>11, PrefixIs
<1> QED
  BY <1>7, <1>9, <1>12 DEF PagingConsistent

LEMMA PagingKeeps ==
  ASSUME ~DiskFaults, IdsFit, LimitsHonoured, PagingInv, [Next]_vars
  PROVE  PagingInv'
<1>1. LogInv'
  BY LogKeeps DEF PagingInv
<1>2. CASE UNCHANGED vars
  BY <1>1, <1>2 DEF vars, logVars, reader, PagingInv, PagingConsistent
<1>3. CASE Close
  BY <1>1, <1>3 DEF Close, logVars, reader, PagingInv, PagingConsistent
<1>4. CASE NewAuditLogWithEvents
  <2>1. CASE db
    <3>1. events' = events /\ seen' = seen /\ at' = at
      BY <1>4, <2>1, RestartLog DEF NewAuditLogWithEvents, StartOver, reader, PagingInv
    <3> QED
      BY <1>1, <3>1 DEF PagingInv, PagingConsistent
  <2>2. CASE ~db
    <3>1. seen' = << >> /\ at' = 0
      BY <1>4, <2>2 DEF NewAuditLogWithEvents, StartOver
    <3>2. Matching(events') \in Seq(Events)
      BY <1>1, MatchingAt DEF LogInv, TypeOK, Events
    <3>3. IsPrefix(<< >>, Matching(events')) /\ Len(<< >>) = 0
      BY <3>2, EmptyPrefix
    <3> QED
      BY <1>1, <3>1, <3>3 DEF PagingInv, PagingConsistent
  <2> QED
    BY <2>1, <2>2
<1> QED
  BY <1>1, <1>2, <1>3, <1>4, RecordPaging, QueryPaging DEF Next, PagingInv

LEMMA InitPaging == Init => PagingInv
<1> SUFFICES ASSUME Init PROVE PagingInv
  OBVIOUS
<1>1. LogInv /\ seen = << >> /\ at = 0
  BY InitLog DEF Init
<1>2. Matching(events) \in Seq(Events)
  BY <1>1, MatchingSizes
<1>3. IsPrefix(<< >>, Matching(events)) /\ Len(<< >>) = 0
  BY <1>2, EmptyPrefix
<1> QED
  BY <1>1, <1>3 DEF PagingInv, PagingConsistent

\* The trail's requests act on the log only by its own operations.
LEMMA TrailStepsLog == TrailInv /\ [TrailNext]_trailVars => [Next]_vars
<1> SUFFICES ASSUME TrailInv, [TrailNext]_trailVars PROVE [Next]_vars
  OBVIOUS
<1>1. CASE UNCHANGED trailVars
  BY <1>1 DEF trailVars
<1>2. ASSUME NEW r \in Reqs, RecordRevoked(r) PROVE Next
  <2>1. on[r] \in EventTypes
    BY <1>2, TrailAssumption DEF RecordRevoked, TrailAssumption, TrailInv, StepsSaved
  <2> QED
    BY <1>2, <2>1 DEF RecordRevoked, Next
<1>3. ASSUME NEW r \in Reqs,
             \/ \E x \in Targets : Admit(r, x)
             \/ Revoke(r) \/ Acknowledge(r) \/ LoseReply(r)
      PROVE  UNCHANGED vars
  BY <1>3 DEF Admit, Revoke, Acknowledge, LoseReply
<1>4. ASSUME NEW type \in EventTypes, RecordOther(type) PROVE Next
  BY <1>4 DEF RecordOther, Next
<1>5. ASSUME NEW limit \in PageLimits, Read(limit) PROVE Next
  BY <1>5 DEF Read, Next
<1>6. CASE Signal
  BY <1>6 DEF Signal
<1>7. CASE Shutdown \/ Restart
  BY <1>7 DEF Shutdown, Restart, Next
<1> QED
  BY <1>1, <1>2, <1>3, <1>4, <1>5, <1>6, <1>7 DEF TrailNext

\* AuditTrail implements AuditLog: requests, shutdown and restarts use the log
\* by its operations and by nothing else.
THEOREM TrailImplementsLog == ~DiskFaults /\ TrailSpec => Spec
<1>1. TrailInit => Init
  BY DEF TrailInit
<1>2. CASE ~DiskFaults
  <2>1. TrailInv /\ [TrailNext]_trailVars => TrailInv'
    BY <1>2, TrailKeeps
  <2> QED
    BY <1>1, <2>1, InitTrailInv, TrailStepsLog, PTL DEF TrailSpec, Spec
<1> QED
  BY <1>2

\* The chain of hashes is whole, restarts included, and the number of events is
\* the counter that gives the next its ID, whatever the log is used for.
THEOREM ChainTheorem == ASSUME ~DiskFaults, IdsFit PROVE Spec => [](TypeOK /\ ChainIntact)
<1>1. LogInv => TypeOK /\ ChainIntact
  BY DEF LogInv
<1>2. LogInv /\ [Next]_vars => LogInv'
  BY LogKeeps
<1> QED
  BY <1>1, <1>2, InitLog, PTL DEF Spec

\* What reached the table is an unbroken beginning of the log, whenever the
\* database is closed under late requests.
THEOREM TableTheorem == ASSUME ~DiskFaults, IdsFit PROVE Spec => []TableIsPrefix
<1>1. ASSUME LogInv PROVE TableIsPrefix
  <2> DEFINE n == Cardinality(table)
  <2>1. LoadAllAuditEvents = [i \in 1..n |-> events[i]]
    BY <1>1, LoadedEvents
  <2>2. n \in Nat /\ n <= Len(events) /\ events \in Seq(Events) /\ Len(events) \in Nat
    BY <1>1, LogSizes
  <2> HIDE DEF n
  <2>3. /\ LoadAllAuditEvents \in Seq(Events) /\ Len(LoadAllAuditEvents) = n
        /\ \A i \in 1..n : LoadAllAuditEvents[i] = events[i]
    BY <2>1, <2>2
  <2> QED
    BY <2>2, <2>3, PrefixIs DEF TableIsPrefix
<1>2. LogInv /\ [Next]_vars => LogInv'
  BY LogKeeps
<1> QED
  BY <1>1, <1>2, InitLog, PTL DEF Spec

\* The log is append-only while the database is open, restarts included.
THEOREM AppendTheorem == ASSUME ~DiskFaults, IdsFit PROVE Spec => AppendOnly
<1>1. ASSUME LogInv, [Next]_vars PROVE db => IsPrefix(events, events')
  <2>1. events \in Seq(Events) /\ Len(events) \in Nat
    BY <1>1, LogSizes
  <2>2. CASE events' = events
    BY <2>1, <2>2, PrefixIs
  <2>3. ASSUME NEW type \in EventTypes, Record(type) PROVE IsPrefix(events, events')
    <3>1. PICK e : events' = Append(events, e)
      BY <2>3 DEF Record
    <3>2. LogInv'
      BY <1>1, <2>3, RecordLog
    <3>3. events' \in Seq(Events)
      BY <3>2 DEF LogInv, TypeOK, Events
    <3>4. Len(events) <= Len(events') /\ \A i \in 1..Len(events) : events[i] = events'[i]
      BY <2>1, <3>1
    <3> QED
      BY <2>1, <3>3, <3>4, PrefixIs
  <2> QED
    BY <1>1, <2>2, <2>3, RestartLog DEF Next, Query, Close, vars, logVars
<1>2. LogInv /\ [Next]_vars => LogInv'
  BY LogKeeps
<1>3. LogInv /\ [Next]_vars => [db => IsPrefix(events, events')]_events
  BY <1>1
<1> QED
  BY <1>2, <1>3, InitLog, PTL DEF Spec, AppendOnly

\* A client that pages through the log while it grows, moving on by the limit
\* it is told, misses no event and reads none twice.
THEOREM PagingTheorem ==
  ASSUME ~DiskFaults, IdsFit, LimitsHonoured PROVE Spec => []PagingConsistent
<1>1. PagingInv => PagingConsistent
  BY DEF PagingInv
<1>2. PagingInv /\ [Next]_vars => PagingInv'
  BY PagingKeeps
<1> QED
  BY <1>1, <1>2, InitPaging, PTL DEF Spec

\* What TrailTypeOK says of the requests and the revocation service.
RequestsTyped ==
  /\ revoked \subseteq Targets /\ saved \subseteq revoked
  /\ told \subseteq [target : Targets, wrote : BOOLEAN, open : BOOLEAN]
  /\ db \in BOOLEAN /\ stopping \in BOOLEAN
  /\ ~db => stopping
  /\ wrote \in [Reqs -> BOOLEAN]
  /\ pc \in [Reqs -> {"idle", "admitted", "revoked", "recorded"}]
  /\ \A r \in Reqs : on[r] \in IF pc[r] = "idle" THEN {Nothing} ELSE Targets
  /\ DOMAIN on = Reqs

\* A function that is changed at one point.
LEMMA ChangedAt ==
  ASSUME NEW R, NEW S, NEW f \in [R -> S], NEW r \in R, NEW v \in S
  PROVE  [f EXCEPT ![r] = v] \in [R -> S]
OBVIOUS

LEMMA Telling ==
  ASSUME NEW R, NEW S, NEW T, NEW x \in R, NEW y \in S, NEW z \in T
  PROVE  [target |-> x, wrote |-> y, open |-> z] \in [target : R, wrote : S, open : T]
OBVIOUS

LEMMA RequestsStayTyped == RequestsTyped /\ [TrailNext]_trailVars => RequestsTyped'
<1> SUFFICES ASSUME RequestsTyped, [TrailNext]_trailVars PROVE RequestsTyped'
  OBVIOUS
<1> USE DEF RequestsTyped
<1>1. CASE UNCHANGED trailVars
  BY <1>1 DEF trailVars, vars, service, requests
<1>2. ASSUME NEW r \in Reqs, NEW x \in Targets, Admit(r, x) PROVE RequestsTyped'
  BY <1>2 DEF Admit, GoTo, vars, service
<1>3. ASSUME NEW r \in Reqs, Revoke(r) PROVE RequestsTyped'
  <2>1. on[r] \in Targets
    BY <1>3 DEF Revoke
  <2>2. revoked' = revoked \cup {on[r]} /\ saved' \subseteq saved \cup {on[r]}
    BY <1>3 DEF Revoke, SaveRevocation
  <2>3. revoked' \subseteq Targets /\ saved' \subseteq revoked'
    BY <2>1, <2>2
  <2>4. /\ pc' \in [Reqs -> {"idle", "admitted", "revoked", "recorded"}]
        /\ \A q \in Reqs : on'[q] \in IF pc'[q] = "idle" THEN {Nothing} ELSE Targets
        /\ UNCHANGED <<told, stopping, db, on>>
    BY <1>3 DEF Revoke, GoTo, vars
  <2>5. wrote' \in [Reqs -> BOOLEAN]
    <3>1. wrote' = [wrote EXCEPT ![r] = db]
      BY <1>3 DEF Revoke
    <3>2. wrote \in [Reqs -> BOOLEAN] /\ db \in BOOLEAN
      BY Zenon
    <3> HIDE DEF RequestsTyped
    <3>3. [wrote EXCEPT ![r] = db] \in [Reqs -> BOOLEAN]
      BY <1>3, <3>2, ChangedAt, Zenon
    <3> QED
      BY <3>1, <3>3, Zenon
  <2> QED
    BY <2>3, <2>4, <2>5
<1>4. ASSUME NEW r \in Reqs, RecordRevoked(r) PROVE RequestsTyped'
  BY <1>4 DEF RecordRevoked, Record, GoTo, service
<1>5. ASSUME NEW r \in Reqs, Acknowledge(r) \/ LoseReply(r) PROVE RequestsTyped'
  <2>1. pc[r] = "recorded" /\ on[r] \in Targets
    BY <1>5 DEF Acknowledge, LoseReply
  <2>2. UNCHANGED <<revoked, saved, stopping, db>>
    BY <1>5 DEF Acknowledge, LoseReply, vars, service
  <2>3. told' \subseteq [target : Targets, wrote : BOOLEAN, open : BOOLEAN]
    <3>1. told' \subseteq told \cup {[target |-> on[r], wrote |-> wrote[r], open |-> db]}
      BY <1>5 DEF Acknowledge, LoseReply, Tell
    <3>2. wrote \in [Reqs -> BOOLEAN] /\ db \in BOOLEAN
      BY Zenon
    <3>b. wrote[r] \in BOOLEAN
      BY <1>5, <3>2, Zenon
    <3>c. told \subseteq [target : Targets, wrote : BOOLEAN, open : BOOLEAN]
      BY Zenon
    <3> HIDE DEF RequestsTyped
    <3>3. [target |-> on[r], wrote |-> wrote[r], open |-> db]
            \in [target : Targets, wrote : BOOLEAN, open : BOOLEAN]
      BY <2>1, <3>2, <3>b, Telling, Zenon
    <3> QED
      BY <3>1, <3>3, <3>c, Zenon
  <2>4. /\ pc' = [pc EXCEPT ![r] = "idle"] /\ on' = [on EXCEPT ![r] = Nothing]
        /\ wrote' = [wrote EXCEPT ![r] = FALSE]
    BY <1>5 DEF Acknowledge, LoseReply, End, GoTo
  <2>5. /\ pc' \in [Reqs -> {"idle", "admitted", "revoked", "recorded"}]
        /\ wrote' \in [Reqs -> BOOLEAN]
    BY <2>4
  <2>6. \A q \in Reqs : on'[q] \in IF pc'[q] = "idle" THEN {Nothing} ELSE Targets
    BY <2>4
  <2> QED
    BY <2>2, <2>3, <2>4, <2>5, <2>6
<1>6. ASSUME NEW type \in EventTypes, RecordOther(type) PROVE RequestsTyped'
  BY <1>6 DEF RecordOther, Record, service, requests
<1>7. ASSUME NEW limit \in PageLimits, Read(limit) PROVE RequestsTyped'
  BY <1>7 DEF Read, Query, service, requests
<1>8. CASE Signal
  BY <1>8 DEF Signal, vars, requests
<1>9. CASE Shutdown
  BY <1>9 DEF Shutdown, Close, service, requests
<1>10. CASE Restart
  BY <1>10 DEF Restart, NewAuditLogWithEvents
<1> QED
  BY <1>1, <1>2, <1>3, <1>4, <1>5, <1>6, <1>7, <1>8, <1>9, <1>10 DEF TrailNext

\* Log, revocation service and requests stay well typed; a request that is
\* under way names what it revokes, and the database closes only in a shutdown.
THEOREM TrailTypeCorrect == ASSUME ~DiskFaults, IdsFit PROVE TrailSpec => []TrailTypeOK
<1>1. TrailInit => RequestsTyped
  BY DEF TrailInit, Init, RequestsTyped
<1>2. TypeOK /\ ChainIntact /\ RequestsTyped => TrailTypeOK
  BY DEF RequestsTyped, TrailTypeOK
<1>3. TrailSpec => [](TypeOK /\ ChainIntact)
  BY TrailImplementsLog, ChainTheorem, PTL
<1> QED
  BY <1>1, <1>2, <1>3, RequestsStayTyped, PTL DEF TrailSpec

\* What holds of the log holds of it under the revocation requests, with the
\* signal, the shutdown and the crashes that cut in between their steps.
THEOREM TrailLogTheorem ==
  ASSUME ~DiskFaults, IdsFit, LimitsHonoured
  PROVE  TrailSpec => [](ChainIntact /\ TableIsPrefix /\ PagingConsistent) /\ AppendOnly
BY TrailImplementsLog, ChainTheorem, TableTheorem, AppendTheorem, PagingTheorem, PTL

=============================================================================
