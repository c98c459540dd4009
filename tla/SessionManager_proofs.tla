----------------------- MODULE SessionManager_proofs ------------------------
(***************************************************************************)
(* For any number of removing tasks, identifiers and addresses: no address *)
(* has two owners or is lost, a session is found by its addresses,         *)
(* session_count accounts for every session, and the table never outgrows  *)
(* max_sessions.                                                           *)
(***************************************************************************)
EXTENDS SessionManager_owner

(* Five ways a step can touch the table, the unsettled tasks and the counter. *)
LEMMA NothingMoves ==
  ASSUME CInv, Live' = Live, UnsettledTasks' = UnsettledTasks,
         session_count' = session_count
  PROVE  IsFiniteSet(Live)' /\ SessionCountExact'
BY DEF CInv, SessionCountExact, UnsettledTasks

LEMMA TaskSettles ==
  ASSUME TypeOK, CInv, NEW t \in UnsettledTasks, Live' = Live,
         UnsettledTasks' = UnsettledTasks \ {t},
         session_count' = session_count - 1
  PROVE  IsFiniteSet(Live)' /\ SessionCountExact'
<1>1. Cardinality(UnsettledTasks') = Cardinality(UnsettledTasks) - 1
  BY LiveAndUnsettled, FS_RemoveElement DEF UnsettledTasks
<1> QED
  BY <1>1, LiveAndUnsettled DEF CInv, SessionCountExact, UnsettledTasks

LEMMA TaskUnsettles ==
  ASSUME TypeOK, CInv, NEW t \in Tasks, t \notin UnsettledTasks, Live' = Live,
         UnsettledTasks' = UnsettledTasks \cup {t},
         session_count' = session_count + 1
  PROVE  IsFiniteSet(Live)' /\ SessionCountExact'
<1>1. Cardinality(UnsettledTasks') = Cardinality(UnsettledTasks) + 1
  BY LiveAndUnsettled, FS_AddElement DEF UnsettledTasks
<1> QED
  BY <1>1, LiveAndUnsettled DEF CInv, SessionCountExact, UnsettledTasks

LEMMA SessionLeaves ==
  ASSUME TypeOK, CInv, NEW t \in Tasks, t \notin UnsettledTasks, NEW s \in Live,
         Live' = Live \ {s}, UnsettledTasks' = UnsettledTasks \cup {t},
         session_count' = session_count
  PROVE  IsFiniteSet(Live)' /\ SessionCountExact'
<1>1. Cardinality(UnsettledTasks') = Cardinality(UnsettledTasks) + 1
  BY ZenonT(30), LiveAndUnsettled, FS_AddElement DEF UnsettledTasks
<1>2. IsFiniteSet(Live') /\ Cardinality(Live') = Cardinality(Live) - 1
  BY FS_RemoveElement DEF CInv
<1> QED
  BY <1>1, <1>2, LiveAndUnsettled DEF CInv, SessionCountExact, UnsettledTasks

LEMMA SessionEnters ==
  ASSUME TypeOK, CInv, NEW t \in UnsettledTasks, NEW s, s \notin Live,
         Live' = Live \cup {s}, UnsettledTasks' = UnsettledTasks \ {t},
         session_count' = session_count
  PROVE  IsFiniteSet(Live)' /\ SessionCountExact'
<1>1. Cardinality(UnsettledTasks') = Cardinality(UnsettledTasks) - 1
  BY ZenonT(30), LiveAndUnsettled, FS_RemoveElement DEF UnsettledTasks
<1>2. IsFiniteSet(Live') /\ Cardinality(Live') = Cardinality(Live) + 1
  BY FS_AddElement DEF CInv
<1> QED
  BY <1>1, <1>2, LiveAndUnsettled DEF CInv, SessionCountExact, UnsettledTasks

LEMMA CountStep ==
  ASSUME TypeOK, PcInv, WholeInv, CInv, [Next]_vars
  PROVE  (IsFiniteSet(Live) /\ SessionCountExact)'
<1>1. ASSUME NEW s \in SessionIds, StartCreate(s)
      PROVE (IsFiniteSet(Live) /\ SessionCountExact)'
  <2>1. Live' = Live
    BY <1>1 DEF StartCreate, Live, table, allocator, counters
  <2>2. UnsettledTasks' = UnsettledTasks
    BY <1>1, TaskFacts
       DEF StartCreate, Goto, table, allocator, counters, TypeOK, PcInv, Unsettled, UnsettledTasks, InCreate
  <2> QED
    BY <1>1, <2>1, <2>2, NothingMoves DEF StartCreate, table, allocator, counters
<1>2. ASSUME NEW t \in Tasks, NEW S \in SUBSET SessionIds, StartRemove(t, S)
      PROVE (IsFiniteSet(Live) /\ SessionCountExact)'
  <2>1. Live' = Live
    BY <1>2 DEF StartRemove, Live, table, allocator, counters
  <2>2. UnsettledTasks' = UnsettledTasks
    BY <1>2, TaskFacts
       DEF StartRemove, table, allocator, counters, TypeOK, PcInv, Unsettled, UnsettledTasks, InCreate
  <2> QED
    BY <1>2, <2>1, <2>2, NothingMoves DEF StartRemove, table, allocator, counters
<1>3. ASSUME NEW t \in Tasks, NEW s \in todo[t], TakeToRemove(t, s)
      PROVE (IsFiniteSet(Live) /\ SessionCountExact)'
  <2>1. CASE s \in Live
    <3>1. t \notin UnsettledTasks /\ UnsettledTasks' = UnsettledTasks \cup {t}
      BY <1>3, <2>1, TaskFacts
         DEF TakeToRemove, Goto, TypeOK, PcInv, Unsettled, UnsettledTasks, InCreate
    <3>2. Live' = Live \ {s}
      BY <1>3, <2>1 DEF TakeToRemove, Live, TypeOK
    <3> QED
      BY <1>3, <2>1, <3>1, <3>2, SessionLeaves DEF TakeToRemove, counters
  <2>2. CASE s \notin Live
    <3>1. Live' = Live /\ UnsettledTasks' = UnsettledTasks
      BY <1>3, <2>2 DEF TakeToRemove, Live, UnsettledTasks, Unsettled, InCreate
    <3> QED
      BY <1>3, <3>1, NothingMoves DEF TakeToRemove, counters
  <2> QED
    BY <2>1, <2>2
<1>4. ASSUME NEW t \in Tasks, TakeToReplace(t)
      PROVE (IsFiniteSet(Live) /\ SessionCountExact)'
  <2>1. t = Control /\ session_id # NoSession
    BY <1>4 DEF TakeToReplace, PcInv
  <2>2. CASE session_id \in Live
    <3>1. t \notin UnsettledTasks /\ UnsettledTasks' = UnsettledTasks \cup {t}
      BY <1>4, <2>1, <2>2
         DEF TakeToReplace, Goto, TypeOK, PcInv, Unsettled, UnsettledTasks, InCreate
    <3>2. Live' = Live \ {session_id}
      BY <1>4, <2>2 DEF TakeToReplace, Live, TypeOK
    <3> QED
      BY <1>4, <2>2, <3>1, <3>2, SessionLeaves DEF TakeToReplace, counters
  <2>3. CASE session_id \notin Live
    <3>1. Live' = Live /\ UnsettledTasks' = UnsettledTasks
      BY <1>4, <2>3
         DEF TakeToReplace, Goto, Live, TypeOK, PcInv, Unsettled, UnsettledTasks, InCreate
    <3> QED
      BY <1>4, <3>1, NothingMoves DEF TakeToReplace, counters
  <2> QED
    BY <2>2, <2>3
<1>5. ASSUME NEW t \in Tasks, Uncount(t) PROVE (IsFiniteSet(Live) /\ SessionCountExact)'
  <2>1. Live' = Live
    BY <1>5 DEF Uncount, Live, table
  <2>2. t \in UnsettledTasks /\ UnsettledTasks' = UnsettledTasks \ {t}
    BY <1>5, TaskFacts
       DEF Uncount, Goto, locals, TypeOK, PcInv, Unsettled, UnsettledTasks, InCreate
  <2>3. session_count' = session_count - 1
    BY <1>5, <2>2, CountPositive DEF Uncount, Decrement
  <2> QED
    BY <2>1, <2>2, <2>3, TaskSettles
<1>6. ASSUME NEW t \in Tasks, Unmap(t) PROVE (IsFiniteSet(Live) /\ SessionCountExact)'
  <2>1. Live' = Live
    BY <1>6 DEF Unmap, Live, allocator, counters, locals
  <2>2. UnsettledTasks' = UnsettledTasks
    BY <1>6, TaskFacts
       DEF Unmap, Goto, allocator, counters, locals, TypeOK, PcInv, Unsettled, UnsettledTasks, InCreate
  <2> QED
    BY <1>6, <2>1, <2>2, NothingMoves DEF Unmap, allocator, counters, locals
<1>7. ASSUME NEW t \in Tasks, Release(t) PROVE (IsFiniteSet(Live) /\ SessionCountExact)'
  <2>1. Live' = Live
    BY <1>7 DEF Release, Live, table, counters
  <2>2. UnsettledTasks' = UnsettledTasks
    BY <1>7, TaskFacts
       DEF Release, release, NextFamily, Goto, table, counters, TypeOK, PcInv, Unsettled, UnsettledTasks, InCreate
  <2> QED
    BY <1>7, <2>1, <2>2, NothingMoves DEF Release, table, counters
<1>8. ASSUME NEW t \in Tasks, Removed(t) PROVE (IsFiniteSet(Live) /\ SessionCountExact)'
  <2>1. Live' = Live
    BY <1>8 DEF Removed, Live, table, allocator, locals
  <2>2. UnsettledTasks' = UnsettledTasks
    BY <1>8, TaskFacts
       DEF Removed, Goto, Decrement, InCreate, table, allocator, locals, TypeOK, PcInv, Unsettled, UnsettledTasks, InCreate
  <2> QED
    BY <1>8, <2>1, <2>2, NothingMoves DEF Removed, table, allocator, locals
<1>9. ASSUME NEW t \in Tasks, Reserve(t) PROVE (IsFiniteSet(Live) /\ SessionCountExact)'
  <2>1. Live' = Live
    BY <1>9 DEF Reserve, Live, table
  <2>2. t \notin UnsettledTasks /\ UnsettledTasks' = UnsettledTasks \cup {t}
    BY <1>9, TaskFacts
       DEF Reserve, Goto, locals, TypeOK, PcInv, Unsettled, UnsettledTasks, InCreate
  <2> QED
    BY <1>9, <2>1, <2>2, TaskUnsettles DEF Reserve
<1>10. ASSUME NEW t \in Tasks, Reject(t) PROVE (IsFiniteSet(Live) /\ SessionCountExact)'
  <2>1. Live' = Live
    BY <1>10 DEF Reject, Live, table
  <2>2. t \in UnsettledTasks /\ UnsettledTasks' = UnsettledTasks \ {t}
    BY <1>10, TaskFacts DEF Reject, Goto, TypeOK, PcInv, Unsettled, UnsettledTasks, InCreate
  <2> QED
    BY <1>10, <2>1, <2>2, TaskSettles DEF Reject
<1>11. ASSUME NEW t \in Tasks, Allocate(t) PROVE (IsFiniteSet(Live) /\ SessionCountExact)'
  <2>1. Live' = Live
    BY <1>11 DEF Allocate, Live, table, counters
  <2>2. UnsettledTasks' = UnsettledTasks
    BY <1>11, TaskFacts
       DEF Allocate, allocate, NextFamily, Goto, table, counters, TypeOK, PcInv, Unsettled, UnsettledTasks, InCreate
  <2> QED
    BY <1>11, <2>1, <2>2, NothingMoves DEF Allocate, table, counters
<1>12. ASSUME NEW t \in Tasks, AllocateFails(t)
      PROVE (IsFiniteSet(Live) /\ SessionCountExact)'
  <2>1. Live' = Live
    BY <1>12 DEF AllocateFails, Live, table, allocator, counters, locals
  <2>2. UnsettledTasks' = UnsettledTasks
    BY <1>12, TaskFacts
       DEF AllocateFails, Goto, table, allocator, counters, locals, TypeOK, PcInv, Unsettled, UnsettledTasks, InCreate
  <2> QED
    BY <1>12, <2>1, <2>2, NothingMoves DEF AllocateFails, table, allocator, counters, locals
<1>13. ASSUME NEW t \in Tasks, GiveBack(t) PROVE (IsFiniteSet(Live) /\ SessionCountExact)'
  <2>1. Live' = Live
    BY <1>13 DEF GiveBack, Live, table, counters
  <2>2. UnsettledTasks' = UnsettledTasks
    BY <1>13, TaskFacts
       DEF GiveBack, release, Goto, table, counters, TypeOK, PcInv, Unsettled, UnsettledTasks, InCreate
  <2> QED
    BY <1>13, <2>1, <2>2, NothingMoves DEF GiveBack, table, counters
<1>14. ASSUME NEW t \in Tasks, Insert(t) PROVE (IsFiniteSet(Live) /\ SessionCountExact)'
  <2>1. t = Control /\ session_id \in SessionIds
    BY <1>14 DEF Insert, PcInv, TypeOK
  <2>2. addr[t] # NoAddr
    BY <1>14, <2>1, NoAddrFacts, FamilyFacts DEF Insert, WholeInv
  <2>3. session_id \notin Live /\ Live' = Live \cup {session_id}
    BY <1>14, <2>1, <2>2, TaskFacts DEF Insert, CInv, AbsentInv, Live, TypeOK
  <2>4. t \in UnsettledTasks /\ UnsettledTasks' = UnsettledTasks \ {t}
    BY <1>14, TaskFacts
       DEF Insert, Goto, locals, TypeOK, PcInv, Unsettled, UnsettledTasks, InCreate
  <2> QED
    BY <1>14, <2>3, <2>4, SessionEnters DEF Insert, counters
<1>15. ASSUME NEW t \in Tasks, Map(t) PROVE (IsFiniteSet(Live) /\ SessionCountExact)'
  <2>1. Live' = Live
    BY <1>15 DEF Map, Live, allocator, counters, locals
  <2>2. UnsettledTasks' = UnsettledTasks
    BY <1>15, TaskFacts
       DEF Map, NextFamily, Goto, allocator, counters, locals, TypeOK, PcInv, Unsettled, UnsettledTasks, InCreate
  <2> QED
    BY <1>15, <2>1, <2>2, NothingMoves DEF Map, allocator, counters, locals
<1>16. ASSUME NEW t \in Tasks, Created(t) PROVE (IsFiniteSet(Live) /\ SessionCountExact)'
  <2>1. Live' = Live
    BY <1>16 DEF Created, Live, table
  <2>2. t = Control
    BY <1>16 DEF Created, PcInv
  <2>3. UnsettledTasks' = UnsettledTasks
    BY <1>16, <2>2 DEF Created, Goto, TypeOK, PcInv, Unsettled, UnsettledTasks, InCreate
  <2> QED
    BY <1>16, <2>1, <2>3, NothingMoves DEF Created
<1>17. CASE UNCHANGED vars
  BY <1>17, NothingMoves DEF vars, Live, UnsettledTasks, Unsettled, InCreate
<1> QED
  BY <1>1, <1>2, <1>3, <1>4, <1>5, <1>6, <1>7, <1>8, <1>9, <1>10, <1>11, <1>12, <1>13,
     <1>14, <1>15, <1>16, <1>17 DEF Next

LEMMA AbsentStep ==
  ASSUME TypeOK, PcInv, AbsentInv, [Next]_vars
  PROVE  AbsentInv'
<1>1. ASSUME NEW s \in SessionIds, StartCreate(s) PROVE AbsentInv'
  BY <1>1, TaskFacts DEF StartCreate, Goto, table, allocator, counters, TypeOK, PcInv,
     AbsentInv, Live, InCreate
<1>2. ASSUME NEW t \in Tasks, NEW S \in SUBSET SessionIds, StartRemove(t, S)
      PROVE AbsentInv'
  BY <1>2, TaskFacts DEF StartRemove, table, allocator, counters, TypeOK, PcInv,
     AbsentInv, Live, InCreate
<1>3. ASSUME NEW t \in Tasks, NEW s \in todo[t], TakeToRemove(t, s) PROVE AbsentInv'
  BY <1>3, TaskFacts DEF TakeToRemove, Goto, allocator, counters, TypeOK, PcInv,
     AbsentInv, Live, InCreate
<1>4. ASSUME NEW t \in Tasks, TakeToReplace(t) PROVE AbsentInv'
  BY <1>4, TaskFacts DEF TakeToReplace, Goto, allocator, counters, TypeOK, PcInv,
     AbsentInv, Live, InCreate
<1>5. ASSUME NEW t \in Tasks, Uncount(t) PROVE AbsentInv'
  BY <1>5, TaskFacts DEF Uncount, Goto, Decrement, InCreate, table, allocator, locals,
     TypeOK, PcInv, AbsentInv, Live
<1>6. ASSUME NEW t \in Tasks, Unmap(t) PROVE AbsentInv'
  BY <1>6, TaskFacts DEF Unmap, Goto, allocator, counters, locals, TypeOK, PcInv,
     AbsentInv, Live, InCreate
<1>7. ASSUME NEW t \in Tasks, Release(t) PROVE AbsentInv'
  BY <1>7, TaskFacts DEF Release, release, NextFamily, Goto, table, counters, TypeOK,
     PcInv, AbsentInv, Live, InCreate
<1>8. ASSUME NEW t \in Tasks, Removed(t) PROVE AbsentInv'
  BY <1>8, TaskFacts DEF Removed, Goto, Decrement, InCreate, table, allocator, locals,
     TypeOK, PcInv, AbsentInv, Live
<1>9. ASSUME NEW t \in Tasks, Reserve(t) PROVE AbsentInv'
  BY <1>9, TaskFacts DEF Reserve, Goto, table, allocator, locals, TypeOK, PcInv,
     AbsentInv, Live, InCreate
<1>10. ASSUME NEW t \in Tasks, Reject(t) PROVE AbsentInv'
  BY <1>10, TaskFacts DEF Reject, Goto, table, allocator, TypeOK, PcInv, AbsentInv,
     Live, InCreate
<1>11. ASSUME NEW t \in Tasks, Allocate(t) PROVE AbsentInv'
  BY <1>11, TaskFacts DEF Allocate, allocate, NextFamily, Goto, table, counters,
     TypeOK, PcInv, AbsentInv, Live, InCreate
<1>12. ASSUME NEW t \in Tasks, AllocateFails(t) PROVE AbsentInv'
  BY <1>12, TaskFacts DEF AllocateFails, Goto, table, allocator, counters, locals,
     TypeOK, PcInv, AbsentInv, Live, InCreate
<1>13. ASSUME NEW t \in Tasks, GiveBack(t) PROVE AbsentInv'
  BY <1>13, TaskFacts DEF GiveBack, release, Goto, table, counters, TypeOK, PcInv,
     AbsentInv, Live, InCreate
<1>14. ASSUME NEW t \in Tasks, Insert(t) PROVE AbsentInv'
  BY <1>14, TaskFacts DEF Insert, Goto, allocator, counters, locals, TypeOK, PcInv,
     AbsentInv, Live, InCreate
<1>15. ASSUME NEW t \in Tasks, Map(t) PROVE AbsentInv'
  BY <1>15, TaskFacts DEF Map, NextFamily, Goto, allocator, counters, locals, TypeOK,
     PcInv, AbsentInv, Live, InCreate
<1>16. ASSUME NEW t \in Tasks, Created(t) PROVE AbsentInv'
  BY <1>16, TaskFacts DEF Created, Goto, table, allocator, TypeOK, PcInv, AbsentInv,
     Live, InCreate
<1>17. CASE UNCHANGED vars
  BY <1>17, TaskFacts DEF vars, TypeOK, PcInv, AbsentInv, Live, InCreate
<1> QED
  BY ZenonT(30), <1>1, <1>2, <1>3, <1>4, <1>5, <1>6, <1>7, <1>8, <1>9, <1>10, <1>11, <1>12, <1>13,
     <1>14, <1>15, <1>16, <1>17 DEF Next

LEMMA CapacityStep ==
  ASSUME TypeOK, PcInv, CapacityInv, [Next]_vars
  PROVE  CapacityInv'
<1>1. ASSUME NEW s \in SessionIds, StartCreate(s) PROVE CapacityInv'
  BY <1>1, TaskFacts, LimitsAssumption DEF StartCreate, Goto, table, allocator,
     counters, TypeOK, PcInv, CapacityInv
<1>2. ASSUME NEW t \in Tasks, NEW S \in SUBSET SessionIds, StartRemove(t, S)
      PROVE CapacityInv'
  BY <1>2, TaskFacts, LimitsAssumption DEF StartRemove, table, allocator, counters,
     TypeOK, PcInv, CapacityInv
<1>3. ASSUME NEW t \in Tasks, NEW s \in todo[t], TakeToRemove(t, s) PROVE CapacityInv'
  BY <1>3, TaskFacts, LimitsAssumption DEF TakeToRemove, Goto, allocator, counters,
     TypeOK, PcInv, CapacityInv
<1>4. ASSUME NEW t \in Tasks, TakeToReplace(t) PROVE CapacityInv'
  BY <1>4, TaskFacts, LimitsAssumption DEF TakeToReplace, Goto, allocator, counters,
     TypeOK, PcInv, CapacityInv
<1>5. ASSUME NEW t \in Tasks, Uncount(t) PROVE CapacityInv'
  <2>1. session_count' <= session_count
    BY <1>5 DEF Uncount, Decrement, TypeOK
  <2> QED
    BY <1>5, <2>1, TaskFacts, LimitsAssumption
       DEF Uncount, Goto, Decrement, CapacityInv, TypeOK, PcInv
<1>6. ASSUME NEW t \in Tasks, Unmap(t) PROVE CapacityInv'
  BY <1>6, TaskFacts, LimitsAssumption DEF Unmap, Goto, allocator, counters, locals,
     TypeOK, PcInv, CapacityInv
<1>7. ASSUME NEW t \in Tasks, Release(t) PROVE CapacityInv'
  BY <1>7, TaskFacts, LimitsAssumption DEF Release, release, NextFamily, Goto, table,
     counters, TypeOK, PcInv, CapacityInv
<1>8. ASSUME NEW t \in Tasks, Removed(t) PROVE CapacityInv'
  BY <1>8, TaskFacts, LimitsAssumption DEF Removed, Goto, Decrement, InCreate, table,
     allocator, locals, TypeOK, PcInv, CapacityInv
<1>9. ASSUME NEW t \in Tasks, Reserve(t) PROVE CapacityInv'
  BY <1>9, TaskFacts, LimitsAssumption DEF Reserve, Goto, table, allocator, locals,
     TypeOK, PcInv, CapacityInv
<1>10. ASSUME NEW t \in Tasks, Reject(t) PROVE CapacityInv'
  BY <1>10, TaskFacts, LimitsAssumption DEF Reject, Goto, table, allocator, TypeOK,
     PcInv, CapacityInv
<1>11. ASSUME NEW t \in Tasks, Allocate(t) PROVE CapacityInv'
  BY <1>11, TaskFacts, LimitsAssumption DEF Allocate, allocate, NextFamily, Goto,
     table, counters, TypeOK, PcInv, CapacityInv
<1>12. ASSUME NEW t \in Tasks, AllocateFails(t) PROVE CapacityInv'
  BY <1>12, TaskFacts, LimitsAssumption DEF AllocateFails, Goto, table, allocator,
     counters, locals, TypeOK, PcInv, CapacityInv
<1>13. ASSUME NEW t \in Tasks, GiveBack(t) PROVE CapacityInv'
  BY <1>13, TaskFacts, LimitsAssumption DEF GiveBack, release, Goto, table, counters,
     TypeOK, PcInv, CapacityInv
<1>14. ASSUME NEW t \in Tasks, Insert(t) PROVE CapacityInv'
  BY <1>14, TaskFacts, LimitsAssumption DEF Insert, Goto, allocator, counters, locals,
     TypeOK, PcInv, CapacityInv
<1>15. ASSUME NEW t \in Tasks, Map(t) PROVE CapacityInv'
  BY <1>15, TaskFacts, LimitsAssumption DEF Map, NextFamily, Goto, allocator,
     counters, locals, TypeOK, PcInv, CapacityInv
<1>16. ASSUME NEW t \in Tasks, Created(t) PROVE CapacityInv'
  BY <1>16, TaskFacts, LimitsAssumption DEF Created, Goto, table, allocator, TypeOK,
     PcInv, CapacityInv
<1>17. CASE UNCHANGED vars
  BY <1>17, TaskFacts, LimitsAssumption DEF vars, TypeOK, PcInv, CapacityInv
<1> QED
  BY ZenonT(30), <1>1, <1>2, <1>3, <1>4, <1>5, <1>6, <1>7, <1>8, <1>9, <1>10, <1>11, <1>12, <1>13,
     <1>14, <1>15, <1>16, <1>17 DEF Next

-----------------------------------------------------------------------------
(* A step that neither adds a session, nor unmaps a session of the table, nor
   moves the control loop to or from its maps.                             *)
LEMMA MapsStay ==
  ASSUME MapInv,
         \A s \in Live' : s \in Live /\ sessions'[s] = sessions[s],
         \A s \in Live', f \in Families :
           Pair(s, f) \in ip_to_session[f] => Pair(s, f) \in ip_to_session'[f],
         pc'[Control] = "map" <=> pc[Control] = "map",
         pc[Control] = "map" =>
           session_id' = session_id /\ fam'[Control] = fam[Control] /\ addr'[Control] = addr[Control]
  PROVE  MapInv'
<1>1. ASSUME NEW s \in Live', NEW f \in Families
      PROVE  Unmapped(s, f)' \/ Pair(s, f)' \in ip_to_session'[f]
  <2>1. Pair(s, f)' = Pair(s, f) /\ (Unmapped(s, f) => Unmapped(s, f)')
    BY DEF Pair, Unmapped
  <2> QED
    BY <2>1 DEF MapInv
<1>2. ASSUME pc'[Control] = "map", NEW s \in Live', NEW f \in Families
      PROVE  sessions'[s][f] = addr'[Control][f] <=> s = session_id'
  BY <1>2 DEF MapInv
<1> QED
  BY <1>1, <1>2 DEF MapInv

(* The same for a step that leaves the table and its maps alone. *)
LEMMA MapsUntouched ==
  ASSUME TypeOK, MapInv, UNCHANGED table, NEW t \in Tasks,
         pc[t] # "map", pc'[t] # "map",
         \A u \in Tasks : u # t => pc'[u] = pc[u] /\ fam'[u] = fam[u] /\ addr'[u] = addr[u],
         t # Control => session_id' = session_id
  PROVE  MapInv'
<1>1. Live' = Live
  BY DEF Live, table
<1> QED
  BY <1>1, TaskFacts, MapsStay DEF table

(* The same for a step that takes a session out of the table. *)
LEMMA MapsTake ==
  ASSUME TypeOK, MapInv, NEW t \in Tasks, NEW s \in SessionIds,
         sessions' = [sessions EXCEPT ![s] = NoAddr],
         addr' = [addr EXCEPT ![t] = sessions[s]],
         pc[t] # "map", NEW l, pc' = [pc EXCEPT ![t] = l], l # "map",
         UNCHANGED <<ip_to_session, fam, session_id>>
  PROVE  MapInv'
<1>1. \A r \in Live' : r \in Live /\ sessions'[r] = sessions[r]
  BY TakeEffect DEF Live
<1>2. \A u \in Tasks : u # t => pc'[u] = pc[u] /\ addr'[u] = addr[u]
  BY DEF TypeOK
<1>3. pc'[t] # "map"
  BY DEF TypeOK
<1> QED
  BY <1>1, <1>2, <1>3, TaskFacts, MapsStay

LEMMA MapStep ==
  ASSUME TypeOK, PcInv, WholeInv, OwnerInv, MapInv, [Next]_vars
  PROVE  MapInv'
<1>1. ASSUME NEW s \in SessionIds, StartCreate(s) PROVE MapInv'
  BY <1>1, TaskFacts, MapsUntouched DEF StartCreate, Goto, TypeOK
<1>2. ASSUME NEW t \in Tasks, NEW S \in SUBSET SessionIds, StartRemove(t, S) PROVE MapInv'
  BY <1>2, MapsUntouched DEF StartRemove
<1>3. ASSUME NEW t \in Tasks, NEW s \in todo[t], TakeToRemove(t, s) PROVE MapInv'
  <2>1. s \in SessionIds
    BY Typed
  <2>2. CASE s \in Live
    BY <1>3, <2>1, <2>2, MapsTake DEF TakeToRemove, Goto
  <2>3. CASE s \notin Live
    BY <1>3, <2>3, MapsUntouched DEF TakeToRemove, table
  <2> QED
    BY <2>2, <2>3
<1>4. ASSUME NEW t \in Tasks, TakeToReplace(t) PROVE MapInv'
  <2>1. CASE session_id \in Live
    BY <1>4, <2>1, Typed, MapsTake DEF TakeToReplace, Goto
  <2>2. CASE session_id \notin Live
    BY <1>4, <2>2, MapsUntouched DEF TakeToReplace, Goto, table, TypeOK
  <2> QED
    BY <2>1, <2>2
<1>5. ASSUME NEW t \in Tasks, Uncount(t) PROVE MapInv'
  BY <1>5, MapsUntouched DEF Uncount, Goto, locals, TypeOK
<1>6. ASSUME NEW t \in Tasks, Unmap(t) PROVE MapInv'
  <2>1. \A f \in Families : ip_to_session'[f] =
          IF f = fam[t] THEN {m \in ip_to_session[f] : m.ip # addr[t][f]} ELSE ip_to_session[f]
    BY ZenonT(30), <1>6, Typed DEF Unmap, TypeOK
  <2>2. \A s \in Live, f \in Families : sessions[s][f] # addr[t][f]
    <3>1. \A f \in Families : Held(t, f) = addr[t][f]
      BY <1>6 DEF Unmap, Held
    <3>2. \A s \in Live, f \in Families : sessions[s][f] # 0
      BY DEF WholeInv, Live
    <3> QED
      BY <3>1, <3>2, Typed DEF OwnerInv
  <2>3. Live' = Live /\ sessions' = sessions
    BY <1>6 DEF Unmap, Live
  <2>4. ASSUME NEW s \in Live', NEW f \in Families, Pair(s, f) \in ip_to_session[f]
        PROVE  Pair(s, f) \in ip_to_session'[f]
    <3>1. Pair(s, f).ip # addr[t][f]
      BY <2>2, <2>3 DEF Pair
    <3> QED
      BY <2>1, <2>4, <3>1
  <2>5. /\ pc'[Control] = "map" <=> pc[Control] = "map"
        /\ UNCHANGED <<session_id, fam, addr>>
    BY <1>6, TaskFacts DEF Unmap, Goto, locals, TypeOK
  <2> QED
    BY <2>3, <2>4, <2>5, MapsStay
<1>7. ASSUME NEW t \in Tasks, Release(t) PROVE MapInv'
  <2>1. pc'[t] # "map" /\ \A u \in Tasks : u # t =>
          pc'[u] = pc[u] /\ fam'[u] = fam[u] /\ addr'[u] = addr[u]
    BY <1>7 DEF Release, NextFamily, Goto, TypeOK
  <2> QED
    BY <1>7, <2>1, MapsUntouched DEF Release
<1>8. ASSUME NEW t \in Tasks, Removed(t) PROVE MapInv'
  BY <1>8, MapsUntouched DEF Removed, Goto, locals, TypeOK
<1>9. ASSUME NEW t \in Tasks, Reserve(t) PROVE MapInv'
  BY <1>9, MapsUntouched DEF Reserve, Goto, locals, TypeOK
<1>10. ASSUME NEW t \in Tasks, Reject(t) PROVE MapInv'
  BY <1>10, MapsUntouched DEF Reject, Goto, PcInv, TypeOK
<1>11. ASSUME NEW t \in Tasks, Allocate(t) PROVE MapInv'
  <2>1. pc'[t] # "map" /\ \A u \in Tasks : u # t =>
          pc'[u] = pc[u] /\ fam'[u] = fam[u] /\ addr'[u] = addr[u]
    BY <1>11 DEF Allocate, NextFamily, Goto, TypeOK
  <2> QED
    BY <1>11, <2>1, MapsUntouched DEF Allocate
<1>12. ASSUME NEW t \in Tasks, AllocateFails(t) PROVE MapInv'
  BY <1>12, MapsUntouched DEF AllocateFails, Goto, locals, TypeOK
<1>13. ASSUME NEW t \in Tasks, GiveBack(t) PROVE MapInv'
  BY <1>13, MapsUntouched DEF GiveBack, Goto, TypeOK
<1>14. ASSUME NEW t \in Tasks, Insert(t) PROVE MapInv'
  <2>1. t = Control /\ session_id \in SessionIds /\ fam[Control] = "v4"
    BY <1>14, TaskFacts DEF Insert, PcInv, TypeOK
  <2>2. pc'[Control] = "map" /\ UNCHANGED <<ip_to_session, session_id, fam, addr>>
    BY <1>14, <2>1 DEF Insert, Goto, locals, TypeOK
  <2>3. \A s \in SessionIds :
          sessions'[s] = IF s = session_id THEN addr[Control] ELSE sessions[s]
    BY <1>14, <2>1 DEF Insert, TypeOK
  <2>4. ASSUME NEW s \in Live', s # session_id PROVE s \in Live /\ sessions'[s] = sessions[s]
    <3>1. s \in SessionIds /\ sessions'[s] # NoAddr
      BY <2>4 DEF Live
    <3> QED
      BY <2>3, <2>4, <3>1 DEF Live
  <2>5. ASSUME NEW s \in Live', NEW f \in Families
        PROVE  Unmapped(s, f)' \/ Pair(s, f)' \in ip_to_session'[f]
    <3>1. CASE s = session_id
      BY <2>1, <2>2, <3>1 DEF Unmapped
    <3>2. CASE s # session_id
      <4>1. Pair(s, f)' = Pair(s, f) /\ s \in Live /\ ~ Unmapped(s, f)
        BY <2>4, <3>2 DEF Pair, Unmapped
      <4> QED
        BY <2>2, <4>1 DEF MapInv
    <3> QED
      BY <3>1, <3>2
  <2>6. ASSUME NEW s \in Live', NEW f \in Families
        PROVE  sessions'[s][f] = addr'[Control][f] <=> s = session_id'
    <3>1. CASE s = session_id
      BY <2>1, <2>2, <2>3, <3>1
    <3>2. CASE s # session_id
      <4>1. s \in Live /\ s \in SessionIds /\ sessions'[s] = sessions[s]
        BY <2>4, <3>2 DEF Live
      <4>2. Held(Control, f) = addr[Control][f] /\ sessions[s][f] # 0
        BY <1>14, <2>1, <4>1 DEF Insert, Held, WholeInv, Live
      <4> QED
        BY <2>2, <3>2, <4>1, <4>2, TaskFacts DEF OwnerInv
    <3> QED
      BY <3>1, <3>2
  <2> QED
    BY <2>5, <2>6 DEF MapInv
<1>15. ASSUME NEW t \in Tasks, Map(t) PROVE MapInv'
  <2>1. t = Control /\ pc[Control] = "map" /\ fam[Control] \in Families
    BY <1>15, Typed DEF Map, PcInv
  <2>2. Live' = Live /\ UNCHANGED <<sessions, session_id, addr>>
    BY <1>15 DEF Map, locals, Live
  <2>3. \A f \in Families : ip_to_session'[f] =
          IF f = fam[Control]
          THEN {m \in ip_to_session[f] : m.ip # addr[Control][f]}
                 \cup {[ip |-> addr[Control][f], session |-> session_id]}
          ELSE ip_to_session[f]
    BY ZenonT(30), <1>15, <2>1 DEF Map, TypeOK
  <2>4. ASSUME NEW s \in Live', NEW f \in Families
        PROVE  Unmapped(s, f)' \/ Pair(s, f)' \in ip_to_session'[f]
    <3>1. Pair(s, f)' = Pair(s, f) /\ s \in Live
      BY <2>2 DEF Pair
    <3>2. CASE s = session_id /\ f = fam[Control]
      <4>1. Pair(s, f) = [ip |-> addr[Control][f], session |-> session_id]
        BY <2>1, <3>1, <3>2 DEF MapInv, Pair
      <4> QED
        BY <2>3, <3>1, <3>2, <4>1
    <3>3. CASE s = session_id /\ f # fam[Control] /\ fam[Control] = "v4"
      <4>1. pc'[Control] = "map" /\ f = "v6"
        BY <1>15, <2>1, <3>3, FamilyFacts DEF Map, NextFamily, Goto, TypeOK
      <4> QED
        BY <2>2, <3>3, <4>1 DEF Unmapped
    <3>4. CASE s = session_id /\ f # fam[Control] /\ fam[Control] # "v4"
      <4>1. ~ Unmapped(s, f)
        BY <2>1, <3>4, FamilyFacts DEF Unmapped
      <4> QED
        BY <2>3, <3>1, <3>4, <4>1 DEF MapInv
    <3>5. CASE s # session_id
      <4>1. Pair(s, f) \in ip_to_session[f] /\ Pair(s, f).ip # addr[Control][f]
        BY <2>1, <3>1, <3>5 DEF MapInv, Unmapped, Pair
      <4> QED
        BY <2>3, <3>1, <4>1
    <3> QED
      BY <3>2, <3>3, <3>4, <3>5
  <2>5. pc'[Control] = "map" => \A s \in Live', f \in Families :
          sessions'[s][f] = addr'[Control][f] <=> s = session_id'
    BY <2>1, <2>2 DEF MapInv
  <2> QED
    BY <2>4, <2>5 DEF MapInv
<1>16. ASSUME NEW t \in Tasks, Created(t) PROVE MapInv'
  BY <1>16, MapsUntouched DEF Created, Goto, TypeOK, PcInv
<1>17. CASE UNCHANGED vars
  <2>1. Live' = Live
    BY <1>17 DEF vars, Live
  <2> QED
    BY <1>17, <2>1, MapsStay DEF vars
<1> QED
  BY <1>1, <1>2, <1>3, <1>4, <1>5, <1>6, <1>7, <1>8, <1>9, <1>10, <1>11, <1>12, <1>13,
     <1>14, <1>15, <1>16, <1>17 DEF Next

LEMMA InitInv == Init => IInv /\ CInv
<1> SUFFICES ASSUME Init PROVE IInv /\ CInv
  OBVIOUS
<1>1. TypeOK
  BY FamilyFacts, NoAddrFacts DEF Init, TypeOK, Labels
<1>2. PcInv /\ AbsentInv
  BY TaskFacts DEF Init, PcInv, AbsentInv
<1>3. WholeInv
  BY TaskFacts, NoAddrFacts DEF Init, WholeInv
<1>4. OwnerInv /\ LeakInv
  BY NoAddrFacts DEF Init, OwnerInv, LeakInv, Held
<1>5. Live = {} /\ {t \in Tasks : Unsettled(t)} = {}
  BY DEF Init, Live, Unsettled
<1>6. IsFiniteSet(Live) /\ SessionCountExact
  <2>1. Cardinality(Live) = 0 /\ Cardinality({t \in Tasks : Unsettled(t)}) = 0
    BY <1>5, FS_EmptySet
  <2>2. IsFiniteSet(Live)
    BY <1>5, FS_EmptySet
  <2> QED
    BY <2>1, <2>2 DEF Init, SessionCountExact
<1>7. CapacityInv
  BY TaskFacts, LimitsAssumption DEF Init, CapacityInv
<1>8. MapInv
  BY <1>5, TaskFacts DEF Init, MapInv
<1> QED
  BY <1>1, <1>2, <1>3, <1>4, <1>6, <1>7, <1>8 DEF IInv, CInv

LEMMA Inductive == Spec => [](IInv /\ CInv)
<1>1. IInv /\ CInv /\ [Next]_vars => (IInv /\ CInv)'
  BY TypeStep, PcStep, WholeStep, OwnerStep, MapStep, CountStep, AbsentStep, CapacityStep
     DEF IInv, CInv
<1> QED
  BY InitInv, <1>1, PTL DEF Spec

(* Every variable of the session manager keeps its type; in particular the
   session counter never wraps below zero.                                 *)
THEOREM TypeCorrect == Spec => []TypeOK
BY Inductive, PTL DEF IInv

(* No two sessions of the table share a tunnel address, and no address in use
   can be handed out again, however creations, replacements and removals
   interleave.                                                             *)
THEOREM AddressesNeverShared == Spec => []AddressesExclusive
<1>1. IInv => AddressesExclusive
  <2> SUFFICES ASSUME IInv, NEW f \in Families
               PROVE /\ \A r, s \in Live : sessions[r][f] = sessions[s][f] => r = s
                     /\ \A s \in Live : /\ sessions[s][f] \notin released[f]
                                        /\ sessions[s][f] \in 2 .. max_offset[f]
                                        /\ \A t \in Tasks : ~ Holds(t, f, sessions[s][f])
    BY DEF AddressesExclusive
  <2>1. \A s \in Live : s \in SessionIds /\ sessions[s][f] # 0 /\ sessions[s][f] \in Nat
    BY Typed DEF IInv, WholeInv, Live
  <2>2. max_offset[f] \in Nat
    BY FamilyFacts, MaxOffsetAssumption
  <2>3. \A s \in Live : /\ InRange(f, sessions[s][f])
                        /\ sessions[s][f] \notin released[f]
                        /\ \A r \in SessionIds : r # s => sessions[r][f] # sessions[s][f]
                        /\ \A t \in Tasks : Held(t, f) # sessions[s][f]
    BY <2>1 DEF IInv, OwnerInv
  <2>4. \A s \in Live : sessions[s][f] \in 2 .. max_offset[f]
    BY <2>1, <2>2, <2>3 DEF InRange
  <2>5. \A s \in Live, t \in Tasks : ~ Holds(t, f, sessions[s][f])
    BY <2>3 DEF Holds, Held
  <2> QED
    BY <2>1, <2>3, <2>4, <2>5
<1> QED
  BY Inductive, <1>1, PTL

(* No address is lost: once no create or remove is under way, every address the
   allocators ever handed out belongs to a session or is in the pool, through
   every error path of create_session_dual_stack_with_level and every race with
   remove_session.                                                         *)
THEOREM NoAddressIsLost == Spec => []NoAddressLeak
<1>1. IInv => NoAddressLeak
  <2> SUFFICES ASSUME IInv, Quiet, NEW f \in Families, NEW o \in 2 .. next_offset[f] - 1
               PROVE  o \in released[f] \/ \E s \in Live : sessions[s][f] = o
    BY DEF NoAddressLeak
  <2>1. \A t \in Tasks : Held(t, f) = 0
    BY DEF IInv, WholeInv, Quiet, Held
  <2>2. \A s \in SessionIds : sessions[s][f] = o => s \in Live
    BY NoAddrFacts DEF Live
  <2> QED
    BY <2>1, <2>2 DEF IInv, LeakInv
<1> QED
  BY Inductive, <1>1, PTL

(* A session whose creation has finished is found by each of its addresses until
   it is taken out of the table: the unmapping of one session and the mapping of
   another, steps apart from the changes of the table, never hit its entry.  *)
THEOREM LiveSessionsAreMapped == Spec => []MappedWhileLive
<1>1. IInv => MappedWhileLive
  BY DEF IInv, MapInv, MappedWhileLive, Pair, Unmapped
<1> QED
  BY Inductive, <1>1, PTL

(* session_count is always the number of sessions in the table plus the number
   of tasks between the table and the counter: no interleaving makes it drift. *)
THEOREM CountNeverDrifts == Spec => []SessionCountExact
BY Inductive, PTL DEF CInv

(* The table never holds more than max_sessions sessions, the one being
   admitted included.                                                      *)
THEOREM CapacityRespected == Spec => []WithinCapacity
<1>1. IInv /\ CInv => WithinCapacity
  <2> SUFFICES ASSUME IInv, CInv PROVE WithinCapacity
    OBVIOUS
  <2> DEFINE U == Cardinality(UnsettledTasks)
  <2>1. TypeOK /\ U \in Nat /\ Cardinality(Live) \in Nat
    BY LiveAndUnsettled DEF IInv, UnsettledTasks
  <2>2. session_count = Cardinality(Live) + U
    BY DEF CInv, SessionCountExact, UnsettledTasks
  <2>3. pc[Control] \in {"reject", "allocate", "giveback", "insert"} => U # 0
    <3>1. pc[Control] \in {"reject", "allocate", "giveback", "insert"}
            => Control \in UnsettledTasks
      BY TaskFacts DEF UnsettledTasks, Unsettled
    <3> QED
      BY <2>1, <3>1, LiveAndUnsettled, FS_EmptySet DEF UnsettledTasks
  <2> QED
    BY <2>1, <2>2, <2>3, LimitsAssumption DEF CInv, CapacityInv, WithinCapacity, Admitted
<1> QED
  BY Inductive, <1>1, PTL
=============================================================================
