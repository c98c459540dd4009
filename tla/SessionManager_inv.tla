------------------------- MODULE SessionManager_inv -------------------------
(***************************************************************************)
(* The inductive invariant of the session manager, and the steps of its    *)
(* first part: types, control points, and whole sessions.                  *)
(***************************************************************************)
EXTENDS SessionManager, FiniteSetTheorems, TLAPS

(* Which task can be where. *)
PcInv ==
  /\ \A t \in Tasks : t # Control =>
       pc[t] \in {"idle", "uncount", "unmap", "release", "removed"}
  /\ pc[Control] \in {"find", "reserve", "reject", "allocate", "giveback",
                      "insert", "map", "created"} => session_id # NoSession
  /\ pc[Control] = "idle" => session_id = NoSession
  /\ \A t \in Tasks :
       pc[t] \in {"idle", "find", "uncount", "removed", "reserve", "insert", "created"}
         => fam[t] = "v4"
  /\ pc[Control] = "giveback" => dual_stack

(* The session being created is not in the table before it is inserted. *)
AbsentInv ==
  pc[Control] \in {"uncount", "unmap", "release", "removed", "reserve",
                   "reject", "allocate", "giveback", "insert"}
    => session_id = NoSession \/ session_id \notin Live

(* What a task holds; a task that has inserted its session holds nothing. *)
Held(t, f) == IF pc[t] \in {"map", "created"} THEN 0 ELSE addr[t][f]

InRange(f, o) == 2 <= o /\ o < next_offset[f] /\ o <= max_offset[f]

(* Sessions have an address in every family, and so has a session about to be
   inserted; the family a task is at tells which ones it holds.            *)
WholeInv ==
  /\ \A s \in SessionIds : sessions[s] = NoAddr \/ \A f \in Families : sessions[s][f] # 0
  /\ pc[Control] = "insert" => \A f \in Families : addr[Control][f] # 0
  /\ pc[Control] = "allocate" /\ fam[Control] = "v6" => addr[Control]["v4"] # 0
  /\ \A t \in Tasks : \A f \in Families :
       (\/ pc[t] \in {"idle", "find", "removed", "reserve", "reject"}
        \/ pc[t] = "uncount" /\ InCreate(t)
        \/ pc[t] = "allocate" /\ (fam[t] = "v4" \/ f = "v6")
        \/ pc[t] = "giveback" /\ f = "v6"
        \/ pc[t] \in {"unmap", "release"} /\ fam[t] = "v6" /\ f = "v4")
       => addr[t][f] = 0

(* Every address has at most one owner: the pool, a session or a task. *)
OwnerInv ==
  \A f \in Families :
    /\ next_offset[f] >= 2
    /\ \A o \in released[f] : InRange(f, o)
    /\ \A s \in SessionIds : sessions[s][f] # 0 =>
         /\ InRange(f, sessions[s][f])
         /\ sessions[s][f] \notin released[f]
         /\ \A r \in SessionIds : r # s => sessions[r][f] # sessions[s][f]
         /\ \A t \in Tasks : Held(t, f) # sessions[s][f]
    /\ \A t \in Tasks : Held(t, f) # 0 =>
         /\ InRange(f, Held(t, f))
         /\ Held(t, f) \notin released[f]
         /\ \A u \in Tasks : u # t => Held(u, f) # Held(t, f)

(* The reservation: the counter exceeds the limit only until it is undone. *)
CapacityInv ==
  session_count <= max_sessions + (IF pc[Control] = "reject" THEN 1 ELSE 0)

(* Every address ever handed out has an owner. *)
LeakInv ==
  \A f \in Families : \A o \in 2 .. next_offset[f] - 1 :
    \/ o \in released[f]
    \/ \E s \in SessionIds : sessions[s][f] = o
    \/ \E t \in Tasks : Held(t, f) = o

(* The pair that leads from the address of s in family f to s. *)
Pair(s, f) == [ip |-> sessions[s][f], session |-> s]

(* The control loop has still to map session s in family f. *)
Unmapped(s, f) ==
  /\ pc[Control] = "map"
  /\ session_id = s
  /\ fam[Control] = "v4" \/ f = "v6"

(* Every session of the table is mapped, but for the families the control loop
   has still to map; and while it maps, no session but its own has the address
   it writes.                                                              *)
MapInv ==
  /\ \A s \in Live, f \in Families : Unmapped(s, f) \/ Pair(s, f) \in ip_to_session[f]
  /\ pc[Control] = "map" =>
       \A s \in Live, f \in Families : sessions[s][f] = addr[Control][f] <=> s = session_id

IInv == TypeOK /\ PcInv /\ WholeInv /\ OwnerInv /\ LeakInv /\ MapInv

CInv == /\ AbsentInv
        /\ IsFiniteSet(Live)
        /\ SessionCountExact
        /\ CapacityInv
-----------------------------------------------------------------------------
LEMMA FamilyFacts ==
  /\ "v4" \in Families /\ Last \in Families
  /\ Families \subseteq {"v4", "v6"}
  /\ Last # "v4" => Last = "v6" /\ "v6" \in Families
  /\ Last # "v6" => Families = {"v4"}
  /\ Last = "v6" <=> dual_stack
  /\ \A f \in Families : f # Last => f = "v4" /\ Last = "v6"
BY DualStackAssumption DEF Families, Last

LEMMA TaskFacts == Control \in Tasks /\ NoSession \notin SessionIds
BY IdsAssumption DEF Tasks

LEMMA NoAddrFacts == NoAddr \in Addr /\ \A f \in Families : NoAddr[f] = 0
BY DEF NoAddr, Addr

(* The types, element by element. *)
LEMMA Typed ==
  ASSUME TypeOK
  PROVE  /\ \A t \in Tasks : /\ fam[t] \in Families
                             /\ fam[t] \in {"v4", "v6"}
                             /\ addr[t] \in Addr
                             /\ pc[t] \in Labels
                             /\ \A s \in todo[t] : s \in SessionIds
         /\ \A t \in Tasks, f \in Families : addr[t][f] \in Nat
         /\ \A s \in SessionIds : sessions[s] \in Addr
         /\ \A s \in SessionIds, f \in Families : sessions[s][f] \in Nat
         /\ \A f \in Families : next_offset[f] \in Nat /\ released[f] \subseteq Nat
         /\ \A s \in Live : s \in SessionIds
<1>1. \A t \in Tasks : /\ fam[t] \in Families /\ addr[t] \in Addr /\ pc[t] \in Labels
                       /\ \A s \in todo[t] : s \in SessionIds
  BY DEF TypeOK
<1>2. \A s \in SessionIds : sessions[s] \in Addr
  BY DEF TypeOK
<1>3. \A f \in Families : next_offset[f] \in Nat /\ released[f] \subseteq Nat
  BY DEF TypeOK
<1> QED
  BY ZenonT(30), <1>1, <1>2, <1>3, FamilyFacts DEF Addr, Live

(* A move to the next family keeps the labels and families typed. *)
LEMMA NextFamilyTyped ==
  ASSUME TypeOK, NEW t \in Tasks, NEW again \in Labels, NEW done \in Labels,
         NextFamily(t, again, done)
  PROVE  pc' \in [Tasks -> Labels] /\ fam' \in [Tasks -> Families]
<1>1. CASE fam[t] = Last
  BY <1>1, FamilyFacts DEF NextFamily, Goto, TypeOK
<1>2. CASE fam[t] # Last
  BY <1>2, FamilyFacts, Typed DEF NextFamily, Goto, TypeOK
<1> QED
  BY <1>1, <1>2

(* Changing one address of one task. *)
LEMMA AddrUpdate ==
  ASSUME TypeOK, NEW t \in Tasks, NEW g \in Families, NEW o \in Nat,
         addr' = [addr EXCEPT ![t][g] = o]
  PROVE  /\ addr' \in [Tasks -> Addr]
         /\ \A u \in Tasks, f \in Families :
              addr'[u][f] = IF u = t /\ f = g THEN o ELSE addr[u][f]
<1>1. addr[t] \in Addr /\ addr \in [Tasks -> Addr]
  BY Typed DEF TypeOK
<1>2. [addr[t] EXCEPT ![g] = o] \in Addr
  BY <1>1 DEF Addr
<1>3. addr' = [addr EXCEPT ![t] = [addr[t] EXCEPT ![g] = o]]
  BY <1>1
<1> QED
  BY <1>1, <1>2, <1>3 DEF Addr

(* Taking a session out of the table: its addresses move to the task. *)
LEMMA TakeEffect ==
  ASSUME TypeOK, NEW t \in Tasks, NEW s \in SessionIds,
         sessions' = [sessions EXCEPT ![s] = NoAddr],
         addr' = [addr EXCEPT ![t] = sessions[s]]
  PROVE  /\ sessions' \in [SessionIds -> Addr]
         /\ addr' \in [Tasks -> Addr]
         /\ \A r \in SessionIds : sessions'[r] = IF r = s THEN NoAddr ELSE sessions[r]
         /\ \A u \in Tasks : addr'[u] = IF u = t THEN sessions[s] ELSE addr[u]
         /\ \A r \in SessionIds, f \in Families :
              sessions'[r][f] = IF r = s THEN 0 ELSE sessions[r][f]
         /\ \A u \in Tasks, f \in Families :
              addr'[u][f] = IF u = t THEN sessions[s][f] ELSE addr[u][f]
<1>1. sessions \in [SessionIds -> Addr] /\ addr \in [Tasks -> Addr]
  BY DEF TypeOK
<1>2. sessions[s] \in Addr
  BY <1>1
<1>3. /\ \A r \in SessionIds : sessions'[r] = IF r = s THEN NoAddr ELSE sessions[r]
      /\ \A u \in Tasks : addr'[u] = IF u = t THEN sessions[s] ELSE addr[u]
  BY <1>1
<1> QED
  BY <1>1, <1>2, <1>3, NoAddrFacts

UnsettledTasks == {t \in Tasks : Unsettled(t)}

LEMMA LiveAndUnsettled ==
  ASSUME TypeOK, CInv
  PROVE  /\ IsFiniteSet({t \in Tasks : Unsettled(t)})
         /\ Cardinality({t \in Tasks : Unsettled(t)}) \in Nat
         /\ Cardinality(Live) \in Nat
<1>1. IsFiniteSet(Tasks)
  BY TasksAssumption, FS_AddElement DEF Tasks
<1>2. IsFiniteSet({t \in Tasks : Unsettled(t)})
  BY <1>1, FS_Subset
<1> QED
  BY <1>2, FS_CardinalityType DEF CInv

(* The counter is positive while some task has still to be accounted for. *)
LEMMA CountPositive ==
  ASSUME TypeOK, CInv, NEW t \in UnsettledTasks
  PROVE  session_count > 0
<1>1. Cardinality(UnsettledTasks) # 0
  BY LiveAndUnsettled, FS_EmptySet DEF UnsettledTasks
<1> QED
  BY <1>1, LiveAndUnsettled DEF CInv, SessionCountExact, UnsettledTasks

LEMMA TypeStep ==
  ASSUME TypeOK, PcInv, CInv, [Next]_vars
  PROVE  TypeOK'
<1>1. ASSUME NEW s \in SessionIds, StartCreate(s) PROVE TypeOK'
  BY <1>1, FamilyFacts, TaskFacts, NoAddrFacts DEF StartCreate, Goto, table,
     allocator, counters, TypeOK, Labels
<1>2. ASSUME NEW t \in Tasks, NEW S \in SUBSET SessionIds, StartRemove(t, S) PROVE TypeOK'
  BY <1>2, FamilyFacts, TaskFacts, NoAddrFacts DEF StartRemove, table, allocator,
     counters, TypeOK, Labels
<1>3. ASSUME NEW t \in Tasks, NEW s \in todo[t], TakeToRemove(t, s) PROVE TypeOK'
  <2>1. s \in SessionIds
    BY Typed
  <2>2. CASE s \in Live
    <3>1. /\ sessions' = [sessions EXCEPT ![s] = NoAddr]
          /\ addr' = [addr EXCEPT ![t] = sessions[s]]
          /\ pc[t] = "idle"
          /\ pc' = [pc EXCEPT ![t] = "uncount"]
      BY <1>3, <2>2 DEF TakeToRemove, Goto
    <3>2. sessions[s] # NoAddr
      BY <2>2 DEF Live
    <3> QED
      BY <1>3, <2>1, <3>1, <3>2, TakeEffect, Typed, NoAddrFacts, TaskFacts
         DEF TakeToRemove, allocator, counters, TypeOK, Labels
  <2>3. CASE s \notin Live
    BY <1>3, <2>3, Typed, NoAddrFacts, TaskFacts
       DEF TakeToRemove, allocator, counters, TypeOK, Labels
  <2> QED
    BY <2>2, <2>3
<1>4. ASSUME NEW t \in Tasks, TakeToReplace(t) PROVE TypeOK'
  <2>1. CASE session_id \in Live
    <3>1. /\ sessions' = [sessions EXCEPT ![session_id] = NoAddr]
          /\ addr' = [addr EXCEPT ![t] = sessions[session_id]]
          /\ pc[t] = "find"
          /\ pc' = [pc EXCEPT ![t] = "unmap"]
      BY <1>4, <2>1 DEF TakeToReplace, Goto
    <3>2. session_id \in SessionIds /\ sessions[session_id] # NoAddr
      BY <2>1 DEF Live
    <3> QED
      BY <1>4, <3>1, <3>2, TakeEffect, Typed, NoAddrFacts, TaskFacts
         DEF TakeToReplace, allocator, counters, TypeOK, Labels
  <2>2. CASE session_id \notin Live
    <3>1. pc[t] = "find" /\ pc' = [pc EXCEPT ![t] = "reserve"] /\ UNCHANGED <<sessions, addr>>
      BY <1>4, <2>2 DEF TakeToReplace, Goto
    <3> QED
      BY <1>4, <3>1, Typed, NoAddrFacts, TaskFacts
         DEF TakeToReplace, allocator, counters, TypeOK, Labels
  <2> QED
    BY <2>1, <2>2
<1>5. ASSUME NEW t \in Tasks, Uncount(t) PROVE TypeOK'
  BY <1>5, FamilyFacts, TaskFacts, NoAddrFacts DEF Uncount, Goto, Decrement, InCreate,
     table, allocator, locals, TypeOK, Labels
<1>6. ASSUME NEW t \in Tasks, Unmap(t) PROVE TypeOK'
  BY ZenonT(30), <1>6, FamilyFacts, TaskFacts, NoAddrFacts DEF Unmap, Goto, allocator, counters,
     locals, TypeOK, Labels
<1>7. ASSUME NEW t \in Tasks, Release(t) PROVE TypeOK'
  <2>1. addr[t][fam[t]] \in Nat /\ fam[t] \in Families
    BY Typed
  <2>2. released' \in [Families -> SUBSET Nat]
    <3>1. {x \in {addr[t][fam[t]]} : 2 <= x /\ x <= max_offset[fam[t]]} \subseteq Nat
      BY <2>1
    <3> QED
      BY <1>7, <2>1, <3>1 DEF Release, release, TypeOK
  <2>3. addr' \in [Tasks -> Addr]
    BY ZenonT(30), <1>7, <2>1, AddrUpdate DEF Release
  <2>4. pc' \in [Tasks -> Labels] /\ fam' \in [Tasks -> Families]
    BY <1>7, NextFamilyTyped DEF Release, Labels
  <2> QED
    BY <1>7, <2>2, <2>3, <2>4 DEF Release, TypeOK, table, counters
<1>8. ASSUME NEW t \in Tasks, Removed(t) PROVE TypeOK'
  BY <1>8, FamilyFacts, TaskFacts, NoAddrFacts DEF Removed, Goto, Decrement, InCreate,
     table, allocator, locals, TypeOK, Labels
<1>9. ASSUME NEW t \in Tasks, Reserve(t) PROVE TypeOK'
  BY <1>9, FamilyFacts, TaskFacts, NoAddrFacts DEF Reserve, Goto, table, allocator,
     locals, TypeOK, Labels
<1>10. ASSUME NEW t \in Tasks, Reject(t) PROVE TypeOK'
  <2>1. session_count - 1 \in Nat
    BY <1>10, CountPositive DEF Reject, TypeOK, UnsettledTasks, Unsettled
  <2> QED
    BY <1>10, <2>1, FamilyFacts DEF Reject, Goto, TypeOK, Labels, table, allocator
<1>11. ASSUME NEW t \in Tasks, Allocate(t) PROVE TypeOK'
  <2> PICK o \in released[fam[t]] \cup {next_offset[fam[t]]} :
        allocate(fam[t], o) /\ addr' = [addr EXCEPT ![t][fam[t]] = o]
    BY ZenonT(30), <1>11 DEF Allocate
  <2>1. o \in Nat /\ fam[t] \in Families
    BY Typed
  <2>2. released' \in [Families -> SUBSET Nat] /\ next_offset' \in [Families -> Nat]
    BY <2>1 DEF allocate, TypeOK
  <2>3. addr' \in [Tasks -> Addr]
    BY ZenonT(30), <2>1, AddrUpdate
  <2>4. pc' \in [Tasks -> Labels] /\ fam' \in [Tasks -> Families]
    BY <1>11, NextFamilyTyped DEF Allocate, Labels
  <2> QED
    BY <1>11, <2>2, <2>3, <2>4 DEF Allocate, TypeOK, table, counters
<1>12. ASSUME NEW t \in Tasks, AllocateFails(t) PROVE TypeOK'
  BY <1>12, FamilyFacts, TaskFacts, NoAddrFacts DEF AllocateFails, Goto, table,
     allocator, counters, locals, TypeOK, Labels
<1>13. ASSUME NEW t \in Tasks, GiveBack(t) PROVE TypeOK'
  <2>1. addr[t]["v4"] \in Nat
    BY Typed, FamilyFacts
  <2>2. {x \in {addr[t]["v4"]} : 2 <= x /\ x <= max_offset["v4"]} \subseteq Nat
    BY <2>1
  <2>3. released' \in [Families -> SUBSET Nat]
    BY <1>13, <2>2, FamilyFacts DEF GiveBack, release, TypeOK
  <2> QED
    BY <1>13, <2>3, NoAddrFacts DEF GiveBack, Goto, table, counters, TypeOK, Labels
<1>14. ASSUME NEW t \in Tasks, Insert(t) PROVE TypeOK'
  BY ZenonT(30), <1>14, FamilyFacts, TaskFacts, NoAddrFacts DEF Insert, Goto, allocator, counters,
     locals, TypeOK, Labels
<1>15. ASSUME NEW t \in Tasks, Map(t) PROVE TypeOK'
  <2>1. session_id \in SessionIds
    BY <1>15, TaskFacts DEF Map, PcInv, TypeOK
  <2>2. addr[t][fam[t]] \in Nat /\ fam[t] \in Families
    BY Typed
  <2>3. ip_to_session' \in [Families -> SUBSET [ip: Nat, session: SessionIds]]
    BY <1>15, <2>1, <2>2 DEF Map, TypeOK
  <2>4. pc' \in [Tasks -> Labels] /\ fam' \in [Tasks -> Families]
    BY <1>15, NextFamilyTyped DEF Map, Labels
  <2> QED
    BY <1>15, <2>3, <2>4 DEF Map, TypeOK, allocator, counters, locals
<1>16. ASSUME NEW t \in Tasks, Created(t) PROVE TypeOK'
  BY <1>16, FamilyFacts, TaskFacts, NoAddrFacts DEF Created, Goto, table, allocator,
     TypeOK, Labels
<1>17. CASE UNCHANGED vars
  BY <1>17, FamilyFacts, TaskFacts, NoAddrFacts DEF vars, TypeOK, Labels
<1> QED
  BY <1>1, <1>2, <1>3, <1>4, <1>5, <1>6, <1>7, <1>8, <1>9, <1>10, <1>11, <1>12, <1>13,
     <1>14, <1>15, <1>16, <1>17 DEF Next

LEMMA PcStep ==
  ASSUME TypeOK, PcInv, [Next]_vars
  PROVE  PcInv'
<1>1. ASSUME NEW s \in SessionIds, StartCreate(s) PROVE PcInv'
  BY <1>1, Typed, FamilyFacts, TaskFacts DEF StartCreate, Goto, table, allocator,
     counters, TypeOK, PcInv, InCreate
<1>2. ASSUME NEW t \in Tasks, NEW S \in SUBSET SessionIds, StartRemove(t, S) PROVE PcInv'
  BY <1>2, Typed, FamilyFacts, TaskFacts DEF StartRemove, table, allocator, counters,
     TypeOK, PcInv, InCreate
<1>3. ASSUME NEW t \in Tasks, NEW s \in todo[t], TakeToRemove(t, s) PROVE PcInv'
  BY <1>3, Typed, FamilyFacts, TaskFacts DEF TakeToRemove, Goto, allocator, counters,
     TypeOK, PcInv, InCreate
<1>4. ASSUME NEW t \in Tasks, TakeToReplace(t) PROVE PcInv'
  BY <1>4, Typed, FamilyFacts, TaskFacts DEF TakeToReplace, Goto, allocator, counters,
     TypeOK, PcInv, InCreate
<1>5. ASSUME NEW t \in Tasks, Uncount(t) PROVE PcInv'
  BY <1>5, Typed, FamilyFacts, TaskFacts DEF Uncount, Goto, Decrement, InCreate,
     table, allocator, locals, TypeOK, PcInv
<1>6. ASSUME NEW t \in Tasks, Unmap(t) PROVE PcInv'
  BY <1>6, Typed, FamilyFacts, TaskFacts DEF Unmap, Goto, allocator, counters, locals,
     TypeOK, PcInv, InCreate
<1>7. ASSUME NEW t \in Tasks, Release(t) PROVE PcInv'
  BY <1>7, Typed, FamilyFacts, TaskFacts DEF Release, release, NextFamily, Goto,
     table, counters, TypeOK, PcInv, InCreate
<1>8. ASSUME NEW t \in Tasks, Removed(t) PROVE PcInv'
  BY <1>8, Typed, FamilyFacts, TaskFacts DEF Removed, Goto, Decrement, InCreate,
     table, allocator, locals, TypeOK, PcInv
<1>9. ASSUME NEW t \in Tasks, Reserve(t) PROVE PcInv'
  BY <1>9, Typed, FamilyFacts, TaskFacts DEF Reserve, Goto, table, allocator, locals,
     TypeOK, PcInv, InCreate
<1>10. ASSUME NEW t \in Tasks, Reject(t) PROVE PcInv'
  BY <1>10, Typed, FamilyFacts, TaskFacts DEF Reject, Goto, table, allocator, TypeOK,
     PcInv, InCreate
<1>11. ASSUME NEW t \in Tasks, Allocate(t) PROVE PcInv'
  BY <1>11, Typed, FamilyFacts, TaskFacts DEF Allocate, allocate, NextFamily, Goto,
     table, counters, TypeOK, PcInv, InCreate
<1>12. ASSUME NEW t \in Tasks, AllocateFails(t) PROVE PcInv'
  BY <1>12, Typed, FamilyFacts, TaskFacts DEF AllocateFails, Goto, table, allocator,
     counters, locals, TypeOK, PcInv, InCreate
<1>13. ASSUME NEW t \in Tasks, GiveBack(t) PROVE PcInv'
  BY <1>13, Typed, FamilyFacts, TaskFacts DEF GiveBack, release, Goto, table,
     counters, TypeOK, PcInv, InCreate
<1>14. ASSUME NEW t \in Tasks, Insert(t) PROVE PcInv'
  BY <1>14, Typed, FamilyFacts, TaskFacts DEF Insert, Goto, allocator, counters,
     locals, TypeOK, PcInv, InCreate
<1>15. ASSUME NEW t \in Tasks, Map(t) PROVE PcInv'
  BY <1>15, Typed, FamilyFacts, TaskFacts DEF Map, NextFamily, Goto, allocator,
     counters, locals, TypeOK, PcInv, InCreate
<1>16. ASSUME NEW t \in Tasks, Created(t) PROVE PcInv'
  BY <1>16, Typed, FamilyFacts, TaskFacts DEF Created, Goto, table, allocator, TypeOK,
     PcInv, InCreate
<1>17. CASE UNCHANGED vars
  BY <1>17, Typed, FamilyFacts, TaskFacts DEF vars, TypeOK, PcInv, InCreate
<1> QED
  BY <1>1, <1>2, <1>3, <1>4, <1>5, <1>6, <1>7, <1>8, <1>9, <1>10, <1>11, <1>12, <1>13,
     <1>14, <1>15, <1>16, <1>17 DEF Next

LEMMA WholeStep ==
  ASSUME TypeOK, PcInv, WholeInv, OwnerInv, [Next]_vars
  PROVE  WholeInv'
<1>1. ASSUME NEW s \in SessionIds, StartCreate(s) PROVE WholeInv'
  BY <1>1, FamilyFacts, TaskFacts, NoAddrFacts, Typed DEF StartCreate, Goto, table,
     allocator, counters, TypeOK, PcInv, WholeInv, InCreate
<1>2. ASSUME NEW t \in Tasks, NEW S \in SUBSET SessionIds, StartRemove(t, S) PROVE WholeInv'
  BY <1>2, FamilyFacts, TaskFacts, NoAddrFacts, Typed DEF StartRemove, table,
     allocator, counters, TypeOK, PcInv, WholeInv, InCreate
<1>3. ASSUME NEW t \in Tasks, NEW s \in todo[t], TakeToRemove(t, s) PROVE WholeInv'
  <2>1. s \in SessionIds
    BY Typed
  <2>2. CASE s \in Live
    <3>1. /\ sessions' = [sessions EXCEPT ![s] = NoAddr]
          /\ addr' = [addr EXCEPT ![t] = sessions[s]]
          /\ pc[t] = "idle"
          /\ pc' = [pc EXCEPT ![t] = "uncount"]
      BY <1>3, <2>2 DEF TakeToRemove, Goto
    <3>2. sessions[s] # NoAddr
      BY <2>2 DEF Live
    <3>3. /\ \A r \in SessionIds : sessions'[r] = IF r = s THEN NoAddr ELSE sessions[r]
          /\ \A u \in Tasks, f \in Families :
               addr'[u][f] = IF u = t THEN sessions[s][f] ELSE addr[u][f]
      BY ZenonT(30), <2>1, <3>1, <3>2, TakeEffect
    <3>4. \A u \in Tasks : pc'[u] = IF u = t THEN "uncount" ELSE pc[u]
      BY <3>1 DEF TypeOK
    <3>5. UNCHANGED <<fam, session_id>> /\ fam[t] = "v4" /\ (t = Control => session_id = NoSession)
      BY <1>3, <2>2, <3>1 DEF TakeToRemove, PcInv
    <3>6. \A r \in SessionIds :
            sessions'[r] = NoAddr \/ \A f \in Families : sessions'[r][f] # 0
      BY <3>3 DEF WholeInv
    <3>7. /\ pc'[Control] = "insert" => \A f \in Families : addr'[Control][f] # 0
          /\ pc'[Control] = "allocate" /\ fam'[Control] = "v6" => addr'[Control]["v4"] # 0
      BY <3>3, <3>4, <3>5, TaskFacts, FamilyFacts DEF WholeInv
    <3>8. ASSUME NEW u \in Tasks, NEW f \in Families,
                 \/ pc'[u] \in {"idle", "find", "removed", "reserve", "reject"}
                 \/ pc'[u] = "uncount" /\ InCreate(u)'
                 \/ pc'[u] = "allocate" /\ (fam'[u] = "v4" \/ f = "v6")
                 \/ pc'[u] = "giveback" /\ f = "v6"
                 \/ pc'[u] \in {"unmap", "release"} /\ fam'[u] = "v6" /\ f = "v4"
          PROVE  addr'[u][f] = 0
      <4>1. u # t /\ pc'[u] = pc[u] /\ fam'[u] = fam[u] /\ InCreate(u)' = InCreate(u)
        BY <3>4, <3>5, <3>8 DEF InCreate
      <4> QED
        BY <3>3, <3>8, <4>1 DEF WholeInv
    <3> QED
      BY <3>6, <3>7, <3>8 DEF WholeInv
  <2>3. CASE s \notin Live
    BY <1>3, <2>3, NoAddrFacts, Typed, TaskFacts
       DEF TakeToRemove, allocator, counters, TypeOK, PcInv, WholeInv, InCreate
  <2> QED
    BY <2>2, <2>3
<1>4. ASSUME NEW t \in Tasks, TakeToReplace(t) PROVE WholeInv'
  <2>1. CASE session_id \in Live
    <3>1. /\ sessions' = [sessions EXCEPT ![session_id] = NoAddr]
          /\ addr' = [addr EXCEPT ![t] = sessions[session_id]]
          /\ pc[t] = "find"
          /\ pc' = [pc EXCEPT ![t] = "unmap"]
      BY <1>4, <2>1 DEF TakeToReplace, Goto
    <3>2. session_id \in SessionIds /\ sessions[session_id] # NoAddr
      BY <2>1 DEF Live
    <3>3. /\ \A r \in SessionIds : sessions'[r] = IF r = session_id THEN NoAddr ELSE sessions[r]
          /\ \A u \in Tasks, f \in Families :
               addr'[u][f] = IF u = t THEN sessions[session_id][f] ELSE addr[u][f]
      BY ZenonT(30), <3>1, <3>2, TakeEffect
    <3>4. \A u \in Tasks : pc'[u] = IF u = t THEN "unmap" ELSE pc[u]
      BY <3>1 DEF TypeOK
    <3>5. UNCHANGED <<fam, session_id>> /\ fam[t] = "v4"
      BY <1>4, <2>1, <3>1 DEF TakeToReplace, PcInv
    <3>6. \A r \in SessionIds :
            sessions'[r] = NoAddr \/ \A f \in Families : sessions'[r][f] # 0
      BY <3>3 DEF WholeInv
    <3>7. /\ pc'[Control] = "insert" => \A f \in Families : addr'[Control][f] # 0
          /\ pc'[Control] = "allocate" /\ fam'[Control] = "v6" => addr'[Control]["v4"] # 0
      BY <3>3, <3>4, <3>5, TaskFacts, FamilyFacts DEF WholeInv
    <3>8. ASSUME NEW u \in Tasks, NEW f \in Families,
                 \/ pc'[u] \in {"idle", "find", "removed", "reserve", "reject"}
                 \/ pc'[u] = "uncount" /\ InCreate(u)'
                 \/ pc'[u] = "allocate" /\ (fam'[u] = "v4" \/ f = "v6")
                 \/ pc'[u] = "giveback" /\ f = "v6"
                 \/ pc'[u] \in {"unmap", "release"} /\ fam'[u] = "v6" /\ f = "v4"
          PROVE  addr'[u][f] = 0
      <4>1. u # t /\ pc'[u] = pc[u] /\ fam'[u] = fam[u] /\ InCreate(u)' = InCreate(u)
        BY <3>4, <3>5, <3>8 DEF InCreate
      <4> QED
        BY <3>3, <3>8, <4>1 DEF WholeInv
    <3> QED
      BY <3>6, <3>7, <3>8 DEF WholeInv
  <2>2. CASE session_id \notin Live
    <3>1. pc[t] = "find" /\ pc' = [pc EXCEPT ![t] = "reserve"] /\ UNCHANGED <<sessions, addr>>
      BY <1>4, <2>2 DEF TakeToReplace, Goto
    <3> QED
      BY <1>4, <3>1, NoAddrFacts, Typed, TaskFacts
         DEF TakeToReplace, allocator, counters, TypeOK, PcInv, WholeInv, InCreate
  <2> QED
    BY <2>1, <2>2
<1>5. ASSUME NEW t \in Tasks, Uncount(t) PROVE WholeInv'
  BY <1>5, FamilyFacts, TaskFacts, NoAddrFacts, Typed DEF Uncount, Goto, Decrement,
     InCreate, table, allocator, locals, TypeOK, PcInv, WholeInv
<1>6. ASSUME NEW t \in Tasks, Unmap(t) PROVE WholeInv'
  BY <1>6, FamilyFacts, TaskFacts, NoAddrFacts, Typed DEF Unmap, Goto, allocator,
     counters, locals, TypeOK, PcInv, WholeInv, InCreate
<1>7. ASSUME NEW t \in Tasks, Release(t) PROVE WholeInv'
  <2>1. addr[t][fam[t]] \in Nat /\ fam[t] \in Families
    BY Typed
  <2>2. \A u \in Tasks, f \in Families :
          addr'[u][f] = IF u = t /\ f = fam[t] THEN 0 ELSE addr[u][f]
    <3>1. addr' = [addr EXCEPT ![t][fam[t]] = 0]
      BY <1>7 DEF Release
    <3>2. addr \in [Tasks -> [Families -> Nat]]
      BY DEF TypeOK, Addr
    <3> QED
      BY <2>1, <3>2, <3>1
  <2>3. CASE fam[t] = Last
    BY SMTT(20), <1>7, <2>2, <2>3, FamilyFacts, TaskFacts, Typed
       DEF Release, NextFamily, Goto, table, WholeInv, InCreate, TypeOK, PcInv
  <2>4. CASE fam[t] # Last
    BY SMTT(20), <1>7, <2>2, <2>4, FamilyFacts, TaskFacts, Typed
       DEF Release, NextFamily, Goto, table, WholeInv, InCreate, TypeOK, PcInv
  <2> QED
    BY <2>3, <2>4
<1>8. ASSUME NEW t \in Tasks, Removed(t) PROVE WholeInv'
  BY <1>8, FamilyFacts, TaskFacts, NoAddrFacts, Typed DEF Removed, Goto, Decrement,
     InCreate, table, allocator, locals, TypeOK, PcInv, WholeInv
<1>9. ASSUME NEW t \in Tasks, Reserve(t) PROVE WholeInv'
  BY <1>9, FamilyFacts, TaskFacts, NoAddrFacts, Typed DEF Reserve, Goto, table,
     allocator, locals, TypeOK, PcInv, WholeInv, InCreate
<1>10. ASSUME NEW t \in Tasks, Reject(t) PROVE WholeInv'
  BY <1>10, FamilyFacts, TaskFacts, NoAddrFacts, Typed DEF Reject, Goto, table,
     allocator, TypeOK, PcInv, WholeInv, InCreate
<1>11. ASSUME NEW t \in Tasks, Allocate(t) PROVE WholeInv'
  <2> PICK o \in released[fam[t]] \cup {next_offset[fam[t]]} :
        allocate(fam[t], o) /\ addr' = [addr EXCEPT ![t][fam[t]] = o]
    BY ZenonT(30), <1>11 DEF Allocate
  <2>1. o \in Nat /\ fam[t] \in Families
    BY Typed
  <2>2. o # 0
    BY Typed DEF OwnerInv, InRange
  <2>3. t = Control
    BY <1>11 DEF Allocate, PcInv
  <2>4. \A u \in Tasks, f \in Families :
          addr'[u][f] = IF u = t /\ f = fam[t] THEN o ELSE addr[u][f]
    <3>2. addr \in [Tasks -> [Families -> Nat]]
      BY DEF TypeOK, Addr
    <3> QED
      BY <2>1, <3>2
  <2>5. /\ pc[t] = "allocate" /\ UNCHANGED <<sessions, session_id>>
        /\ pc' = [pc EXCEPT ![t] = IF fam[t] = Last THEN "insert" ELSE "allocate"]
        /\ fam' = [fam EXCEPT ![t] = IF fam[t] = Last THEN "v4" ELSE "v6"]
    BY ZenonT(30), <1>11 DEF Allocate, NextFamily, Goto, table
  <2>6. /\ pc'[t] = IF fam[t] = Last THEN "insert" ELSE "allocate"
        /\ fam'[t] = IF fam[t] = Last THEN "v4" ELSE "v6"
        /\ \A u \in Tasks : u # t => pc'[u] = pc[u] /\ fam'[u] = fam[u]
    BY <2>5 DEF TypeOK
  <2>7. \A f \in Families : f = "v6" => addr[t][f] = 0
    BY <2>5 DEF WholeInv
  <2>8. pc'[Control] = "insert" => \A f \in Families : addr'[Control][f] # 0
    BY <2>1, <2>2, <2>3, <2>4, <2>5, <2>6, FamilyFacts DEF WholeInv
  <2>9. pc'[Control] = "allocate" /\ fam'[Control] = "v6" => addr'[Control]["v4"] # 0
    BY <2>1, <2>2, <2>3, <2>4, <2>6, FamilyFacts
  <2>10. \A f \in Families : pc'[t] = "allocate" /\ (fam'[t] = "v4" \/ f = "v6") => addr'[t][f] = 0
    BY <2>1, <2>4, <2>6, <2>7, FamilyFacts
  <2>11. pc'[t] \in {"allocate", "insert"}
    BY <2>6
  <2>12. ASSUME NEW u \in Tasks, u # t, NEW f \in Families
         PROVE  addr'[u][f] = addr[u][f] /\ pc'[u] = pc[u] /\ fam'[u] = fam[u] /\ (InCreate(u)' <=> InCreate(u))
    BY <2>4, <2>5, <2>6, <2>12 DEF InCreate
  <2> QED
    BY <2>5, <2>8, <2>9, <2>10, <2>11, <2>12 DEF WholeInv
<1>12. ASSUME NEW t \in Tasks, AllocateFails(t) PROVE WholeInv'
  <2>1. t = Control
    BY <1>12 DEF AllocateFails, PcInv
  <2>2. CASE fam[t] = "v4"
    BY <1>12, <2>1, <2>2, FamilyFacts, TaskFacts
       DEF AllocateFails, Goto, table, locals, WholeInv, InCreate, TypeOK
  <2>3. CASE fam[t] = "v6"
    BY <1>12, <2>1, <2>3, FamilyFacts, TaskFacts
       DEF AllocateFails, Goto, table, locals, WholeInv, InCreate, TypeOK
  <2> QED
    BY <2>2, <2>3, Typed
<1>13. ASSUME NEW t \in Tasks, GiveBack(t) PROVE WholeInv'
  BY <1>13, FamilyFacts, TaskFacts, NoAddrFacts, Typed DEF GiveBack, release, Goto,
     table, counters, TypeOK, PcInv, WholeInv, InCreate
<1>14. ASSUME NEW t \in Tasks, Insert(t) PROVE WholeInv'
  <2>1. /\ pc[t] = "insert" /\ sessions' = [sessions EXCEPT ![session_id] = addr[t]]
        /\ pc' = [pc EXCEPT ![t] = "map"] /\ UNCHANGED <<session_id, addr, fam>>
    BY ZenonT(30), <1>14 DEF Insert, Goto, locals
  <2>2. t = Control
    BY <2>1 DEF PcInv
  <2>3. pc'[t] = "map" /\ \A u \in Tasks : u # t => pc'[u] = pc[u]
    BY <2>1 DEF TypeOK
  <2>4. \A s \in SessionIds : sessions'[s] = IF s = session_id THEN addr[t] ELSE sessions[s]
    BY <2>1 DEF TypeOK
  <2>5. /\ \A s \in SessionIds : sessions'[s] = NoAddr \/ \A f \in Families : sessions'[s][f] # 0
        /\ pc'[Control] # "insert" /\ pc'[Control] # "allocate"
    BY <2>1, <2>2, <2>3, <2>4 DEF WholeInv
  <2>6. \A u \in Tasks : InCreate(u)' = InCreate(u)
    BY <2>1 DEF InCreate
  <2>7. ASSUME NEW u \in Tasks, NEW f \in Families,
             \/ pc'[u] \in {"idle", "find", "removed", "reserve", "reject"}
             \/ pc'[u] = "uncount" /\ InCreate(u)'
             \/ pc'[u] = "allocate" /\ (fam'[u] = "v4" \/ f = "v6")
             \/ pc'[u] = "giveback" /\ f = "v6"
             \/ pc'[u] \in {"unmap", "release"} /\ fam'[u] = "v6" /\ f = "v4"
      PROVE  addr'[u][f] = 0
    <3>1. u # t
      BY <2>3, <2>7
    <3> QED
      BY <2>1, <2>3, <2>6, <2>7, <3>1 DEF WholeInv
  <2> QED
    BY <2>5, <2>7 DEF WholeInv
<1>15. ASSUME NEW t \in Tasks, Map(t) PROVE WholeInv'
  <2>1. /\ UNCHANGED <<sessions, session_id, addr>>
        /\ pc' = [pc EXCEPT ![t] = IF fam[t] = Last THEN "created" ELSE "map"]
        /\ fam' = [fam EXCEPT ![t] = IF fam[t] = Last THEN "v4" ELSE "v6"]
    BY ZenonT(30), <1>15 DEF Map, NextFamily, Goto, locals
  <2>2. /\ pc'[t] \in {"map", "created"}
        /\ \A u \in Tasks : u # t => pc'[u] = pc[u] /\ fam'[u] = fam[u]
    BY <2>1 DEF TypeOK
  <2>3. t = Control
    BY <1>15 DEF Map, PcInv
  <2>4. \A u \in Tasks : InCreate(u)' = InCreate(u)
    BY <2>1 DEF InCreate
  <2>5. /\ \A s \in SessionIds : sessions'[s] = NoAddr \/ \A f \in Families : sessions'[s][f] # 0
        /\ pc'[Control] # "insert" /\ pc'[Control] # "allocate"
    BY <2>1, <2>2, <2>3 DEF WholeInv
  <2>6. ASSUME NEW u \in Tasks, NEW f \in Families,
             \/ pc'[u] \in {"idle", "find", "removed", "reserve", "reject"}
             \/ pc'[u] = "uncount" /\ InCreate(u)'
             \/ pc'[u] = "allocate" /\ (fam'[u] = "v4" \/ f = "v6")
             \/ pc'[u] = "giveback" /\ f = "v6"
             \/ pc'[u] \in {"unmap", "release"} /\ fam'[u] = "v6" /\ f = "v4"
      PROVE  addr'[u][f] = 0
    <3>1. u # t
      BY <2>2, <2>6
    <3> QED
      BY <2>1, <2>2, <2>4, <2>6, <3>1 DEF WholeInv
  <2> QED
    BY <2>5, <2>6 DEF WholeInv
<1>16. ASSUME NEW t \in Tasks, Created(t) PROVE WholeInv'
  BY SMTT(20), <1>16, FamilyFacts, TaskFacts, NoAddrFacts, Typed DEF Created, Goto, table,
     allocator, TypeOK, PcInv, WholeInv, InCreate
<1>17. CASE UNCHANGED vars
  BY ZenonT(30), <1>17 DEF vars, WholeInv, InCreate
<1> QED
  BY <1>1, <1>2, <1>3, <1>4, <1>5, <1>6, <1>7, <1>8, <1>9, <1>10, <1>11, <1>12, <1>13,
     <1>14, <1>15, <1>16, <1>17 DEF Next
=============================================================================
